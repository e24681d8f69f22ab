--------------------------- MODULE PaymentProofs ---------------------------
(* What is proved about Payment for every number of payments, calls and    *)
(* deliveries and for every amount and fee.                                *)
EXTENDS Payment, TLAPS

-----------------------------------------------------------------------------
(* Types                                                                   *)

(* A transaction that writes a row and its audit entry keeps both typed.   *)
LEMMA UpdateTyped ==
    ASSUME NEW p \in Payments, NEW row \in Row, row.status # "none",
           NEW event, NEW old \in Status \cup {"none"},
           event \in {"PAYMENT_CREATED", "STATUS_CHANGED", "WEBHOOK_RECEIVED",
                      "PAYMENT_CANCELLED", "PAYMENT_EXPIRED"},
           payments \in [Payments -> Row], audits \in [Payments -> Seq(Audit)],
           Update(p, row, event, old)
    PROVE  payments' \in [Payments -> Row] /\ audits' \in [Payments -> Seq(Audit)]
<1> DEFINE a == [event |-> event, old |-> old, new |-> row.status]
<1>1. row.status \in Status
  BY DEF Row
<1>2. a \in Audit
  BY <1>1 DEF Audit
<1>3. Append(audits[p], a) \in Seq(Audit)
  BY <1>2
<1>4. payments' = [payments EXCEPT ![p] = row] /\ audits' = [audits EXCEPT ![p] = Append(@, a)]
  BY DEF Update
<1> HIDE DEF a
<1> QED
  BY <1>3, <1>4

(* The calls between their steps hold what their payments can be updated   *)
(* with: a real payment, and a row that exists.                            *)
Calls ==
    /\ \A c \in Cancels : cancel[c].pc # "idle" => cancel[c].payment \in Payments
    /\ \A c \in Cancels : cancel[c].pc \in {"read", "marked", "answered"} =>
                            cancel[c].view.status # "none"
    /\ \A d \in Deliveries : hook[d].pc # "idle" =>
                               hook[d].payment \in Payments /\ hook[d].status \in Status

Typed == TypeOK /\ Calls

LEMMA InitTyped == Init => Typed
<1> SUFFICES ASSUME Init PROVE Typed
  OBVIOUS
<1> USE PaymentAssumption DEF Init, NoRow, Row, Status, Final, Open
<1>1. TypeOK
  BY DEF TypeOK, CancelCalls, HookCalls, Audit
<1>2. Calls
  BY DEF Calls
<1> QED
  BY <1>1, <1>2 DEF Typed

(* A call that goes on to another step with another view.                  *)
LEMMA CancelGoesOn ==
    ASSUME TypeOK, NEW c \in Cancels, NEW view \in Row,
           NEW pc \in {"idle", "read", "marked", "answered", "done", "dead"},
           cancel' = [cancel EXCEPT ![c].pc = pc, ![c].view = view]
    PROVE  cancel' \in [Cancels -> CancelCalls]
<1>1. cancel[c] \in CancelCalls
  BY DEF TypeOK
<1>2. [cancel[c] EXCEPT !.pc = pc, !.view = view] \in CancelCalls
  BY <1>1, Zenon DEF CancelCalls
<1> QED
  BY <1>2 DEF TypeOK

LEMMA HookGoesOn ==
    ASSUME TypeOK, NEW d \in Deliveries, NEW view \in Row,
           NEW pc \in {"idle", "read", "acked", "failed"},
           hook' = [hook EXCEPT ![d].pc = pc, ![d].view = view]
    PROVE  hook' \in [Deliveries -> HookCalls]
<1>1. hook[d] \in HookCalls
  BY DEF TypeOK
<1>2. [hook[d] EXCEPT !.pc = pc, !.view = view] \in HookCalls
  BY <1>1, Zenon DEF HookCalls
<1> QED
  BY <1>2 DEF TypeOK

LEMMA NextTyped == Typed /\ [Next]_vars => Typed'
<1> SUFFICES ASSUME Typed, [Next]_vars PROVE Typed'
  OBVIOUS
<1>t. TypeOK /\ Calls
  BY DEF Typed
<1>1. CASE UNCHANGED vars
  BY <1>1, <1>t DEF Typed, TypeOK, Calls, vars, tables
<1>2. ASSUME NEW p \in Payments, CreatePayment(p) PROVE Typed'
  BY <1>2, <1>t DEF CreatePayment, Typed, TypeOK, Calls, tables
<1>3. ASSUME NEW p \in Payments, SavePaymentWithAudit(p) PROVE Typed'
  <2> DEFINE row == [NoRow EXCEPT !.status = "pending"]
  <2>1. row \in Row /\ row.status = "pending"
    BY DEF NoRow, Row, Status, Final, Open
  <2>2. payments' \in [Payments -> Row] /\ audits' \in [Payments -> Seq(Audit)]
    <3> HIDE DEF row
    <3>1. Update(p, row, "PAYMENT_CREATED", "none")
      BY <1>3 DEF SavePaymentWithAudit, row
    <3> QED
      BY <1>t, <2>1, <3>1, UpdateTyped DEF TypeOK
  <2> QED
    BY <1>3, <1>t, <2>2 DEF SavePaymentWithAudit, Typed, TypeOK, Calls
<1>4. ASSUME NEW p \in Payments, CreateFails(p) PROVE Typed'
  BY <1>4, <1>t DEF CreateFails, Typed, TypeOK, Calls, tables
<1>5. ASSUME NEW p \in Payments, PassExpiry(p) PROVE Typed'
  BY <1>5, <1>t DEF PassExpiry, Typed, TypeOK, Calls, tables
<1>6. ASSUME NEW p \in Payments, ProviderCloses(p) PROVE Typed'
  BY <1>6, <1>t DEF ProviderCloses, Typed, TypeOK, Calls, tables
<1>7. ASSUME NEW c \in Cancels, CancelRead(c) PROVE Typed'
  BY <1>7, <1>t DEF CancelRead, CanCancel, Typed, TypeOK, Calls, CancelCalls, tables, Row
<1>8. ASSUME NEW c \in Cancels, CancelMark(c) PROVE Typed'
  <2> DEFINE p == cancel[c].payment
             row == [cancel[c].view EXCEPT !.status = "cancelling"]
  <2>1. /\ p \in Payments
        /\ row \in Row
        /\ row.status = "cancelling"
        /\ cancel[c].view.status \in Status
    BY <1>8, <1>t DEF CancelMark, TypeOK, Calls, CancelCalls, Row, Status, Open
  <2>2. /\ Update(p, row, "STATUS_CHANGED", cancel[c].view.status)
        /\ cancel' = [cancel EXCEPT ![c].pc = "marked", ![c].view = row]
        /\ UNCHANGED <<mutations, outbox, due, provider, create, hook>>
    BY <1>8 DEF CancelMark
  <2> HIDE DEF p, row
  <2>3. payments' \in [Payments -> Row] /\ audits' \in [Payments -> Seq(Audit)]
    BY <1>t, <2>1, <2>2, UpdateTyped DEF TypeOK
  <2>4. cancel' \in [Cancels -> CancelCalls]
    BY <1>t, <2>1, <2>2, CancelGoesOn
  <2>5. TypeOK'
    BY <1>t, <2>2, <2>3, <2>4 DEF TypeOK
  <2>6. Calls'
    BY <1>8, <1>t, <2>1, <2>2 DEF TypeOK, Calls, CancelCalls, CancelMark
  <2> QED
    BY <2>5, <2>6 DEF Typed
<1>9. ASSUME NEW c \in Cancels, CancelCall(c) PROVE Typed'
  <2>1. PICK ok \in BOOLEAN :
          cancel' = [cancel EXCEPT ![c].pc = "answered", ![c].ok = ok]
    BY <1>9 DEF CancelCall
  <2>2. /\ UNCHANGED <<tables, due, create, hook>>
        /\ cancel[c].pc = "marked"
        /\ \/ UNCHANGED provider
           \/ provider' = [provider EXCEPT ![cancel[c].payment] = "cancelled"]
    BY <1>9 DEF CancelCall
  <2>3. cancel' \in [Cancels -> CancelCalls]
    BY <1>t, <2>1 DEF TypeOK, CancelCalls
  <2>4. provider' \in [Payments -> Final \cup {"none", "open"}]
    BY <1>t, <2>2 DEF TypeOK, Final
  <2>5. TypeOK'
    BY <1>t, <2>2, <2>3, <2>4 DEF TypeOK, tables
  <2>6. Calls'
    BY <1>t, <2>1, <2>2 DEF TypeOK, Calls, CancelCalls
  <2> QED
    BY <2>5, <2>6 DEF Typed
<1>10. ASSUME NEW c \in Cancels, CancelFinish(c) PROVE Typed'
  <2> DEFINE p == cancel[c].payment
             ok == cancel[c].ok
             row == [cancel[c].view EXCEPT !.status = IF ok THEN "cancelled" ELSE "pending",
                                           !.cancelled_at = ok]
             event == IF ok THEN "PAYMENT_CANCELLED" ELSE "STATUS_CHANGED"
  <2>1. /\ p \in Payments
        /\ row \in Row
        /\ row.status # "none"
    BY <1>10, <1>t DEF CancelFinish, TypeOK, Calls, CancelCalls, Row, Status, Open, Final
  <2>2. /\ Update(p, row, event, "cancelling")
        /\ cancel' = [cancel EXCEPT ![c].pc = "done", ![c].view = NoRow]
        /\ UNCHANGED <<mutations, outbox, due, provider, create, hook>>
    BY <1>10 DEF CancelFinish
  <2>e. event \in {"PAYMENT_CANCELLED", "STATUS_CHANGED"}
    OBVIOUS
  <2> HIDE DEF p, row, event
  <2>3. payments' \in [Payments -> Row] /\ audits' \in [Payments -> Seq(Audit)]
    <3>1. "cancelling" \in Status \cup {"none"}
      BY DEF Status, Open
    <3> QED
      BY <1>t, <2>1, <2>2, <2>e, <3>1, UpdateTyped DEF TypeOK
  <2>4. cancel' \in [Cancels -> CancelCalls]
    <3>1. NoRow \in Row
      BY DEF NoRow, Row
    <3> QED
      BY <1>t, <2>2, <3>1, CancelGoesOn
  <2>5. TypeOK'
    BY <1>t, <2>2, <2>3, <2>4 DEF TypeOK
  <2>6. Calls'
    BY <1>10, <1>t, <2>1, <2>2 DEF TypeOK, Calls, CancelCalls, CancelFinish
  <2> QED
    BY <2>5, <2>6 DEF Typed
<1>11. ASSUME NEW c \in Cancels, CancelDies(c) PROVE Typed'
  <2>1. NoRow \in Row
    BY DEF NoRow, Row
  <2>2. cancel' = [cancel EXCEPT ![c].pc = "dead", ![c].view = NoRow]
        /\ UNCHANGED <<tables, due, provider, create, hook>>
        /\ cancel[c].pc # "idle"
    BY <1>11 DEF CancelDies
  <2>3. cancel' \in [Cancels -> CancelCalls]
    BY <1>t, <2>1, <2>2, CancelGoesOn
  <2>4. TypeOK'
    BY <1>t, <2>2, <2>3 DEF TypeOK, tables
  <2>5. Calls'
    BY <1>t, <2>2, <2>3 DEF TypeOK, Calls
  <2> QED
    BY <2>4, <2>5 DEF Typed
<1>12. ASSUME NEW d \in Deliveries, HookRead(d) PROVE Typed'
  <2>1. NoRow \in Row
    BY DEF NoRow, Row
  <2>2. \A p \in Payments : Reported(p) \subseteq Status
    BY DEF Reported, Status, Open, Final
  <2> QED
    BY <1>12, <1>t, <2>1, <2>2 DEF HookRead, Typed, TypeOK, Calls, HookCalls, tables
<1>13. ASSUME NEW d \in Deliveries, HookSkip(d) \/ HookFails(d) PROVE Typed'
  <2>1. NoRow \in Row
    BY DEF NoRow, Row
  <2>2. PICK pc \in {"acked", "failed"} :
          hook' = [hook EXCEPT ![d].pc = pc, ![d].view = NoRow]
    BY <1>13 DEF HookSkip, HookFails
  <2>3. hook[d].pc = "read" /\ UNCHANGED <<tables, due, provider, create, cancel>>
    BY <1>13 DEF HookSkip, HookFails
  <2>4. TypeOK'
    <3>1. hook' \in [Deliveries -> HookCalls]
      BY <1>t, <2>1, <2>2, HookGoesOn
    <3> QED
      BY <1>t, <2>3, <3>1 DEF TypeOK, tables
  <2>5. Calls'
    BY <1>t, <2>2, <2>3 DEF TypeOK, Calls, HookCalls
  <2> QED
    BY <2>4, <2>5 DEF Typed
<1>14. ASSUME NEW d \in Deliveries, HookApply(d) PROVE Typed'
  <2> DEFINE p == hook[d].payment
             s == hook[d].status
  <2>1. /\ p \in Payments
        /\ s \in Status
        /\ hook[d].view \in Row
        /\ payments[p].status \in Status \cup {"none"}
    BY <1>14, <1>t DEF HookApply, TypeOK, Calls, HookCalls, Row
  <2>2. PICK at \in BOOLEAN :
          Update(p, [hook[d].view EXCEPT !.status = s,
                                         !.paid_at = IF s = "paid" THEN at ELSE @],
                 "WEBHOOK_RECEIVED", payments[p].status)
    BY <1>14 DEF HookApply
  <2> DEFINE row == [hook[d].view EXCEPT !.status = s,
                                         !.paid_at = IF s = "paid" THEN at ELSE @]
  <2>3. row \in Row /\ row.status # "none"
    BY <2>1 DEF Row, Status, Open, Final
  <2>4. payments' \in [Payments -> Row] /\ audits' \in [Payments -> Seq(Audit)]
    <3> HIDE DEF row, p, s
    <3>1. Update(p, row, "WEBHOOK_RECEIVED", payments[p].status)
      BY <2>2 DEF row
    <3> QED
      BY <1>t, <2>1, <2>3, <3>1, UpdateTyped DEF TypeOK
  <2>5. /\ mutations' \subseteq [id : Deliveries, ref : Payments, fee : 0 .. Amount]
        /\ outbox' \subseteq [id : Deliveries, ref : Payments, status : Status, fee : 0 .. Amount]
    <3>1. CASE s # "paid"
      <4>1. mutations' = mutations /\ InsertOutbox(d, p, s, 0)
        BY <1>14, <3>1 DEF HookApply
      <4>2. 0 \in 0 .. Amount
        BY PaymentAssumption
      <4> QED
        BY <1>t, <2>1, <4>1, <4>2 DEF InsertOutbox, TypeOK
    <3>2. CASE s = "paid"
      <4>1. PICK fee \in Fees \cup {0} :
              SaveMutation(d, p, fee) /\ InsertOutbox(d, p, s, fee)
        BY <1>14, <3>2 DEF HookApply
      <4>2. fee \in 0 .. Amount
        BY <4>1, PaymentAssumption DEF SaveMutation
      <4> QED
        BY <1>t, <2>1, <4>1, <4>2 DEF SaveMutation, InsertOutbox, TypeOK
    <3> QED
      BY <3>1, <3>2
  <2>6. /\ UNCHANGED <<due, provider, create, cancel>>
        /\ hook' = [hook EXCEPT ![d].pc = "acked", ![d].view = NoRow]
    BY <1>14 DEF HookApply
  <2>7. hook' \in [Deliveries -> HookCalls]
    <3>1. NoRow \in Row
      BY DEF NoRow, Row
    <3> QED
      BY <1>t, <2>6, <3>1, HookGoesOn
  <2>8. TypeOK'
    BY <1>t, <2>4, <2>5, <2>6, <2>7 DEF TypeOK
  <2>9. Calls'
    BY <1>t, <2>1, <2>6 DEF TypeOK, Calls, HookCalls
  <2> QED
    BY <2>8, <2>9 DEF Typed
<1>15. CASE ExpirePayments
  <2>1. \A p \in Payments : [payments[p] EXCEPT !.status = "expired"] \in Row
    BY <1>t DEF TypeOK, Row, Status, Final
  <2>2. \A p \in Payments :
          Append(audits[p], [event |-> "PAYMENT_EXPIRED", old |-> "pending", new |-> "expired"])
            \in Seq(Audit)
    <3>1. [event |-> "PAYMENT_EXPIRED", old |-> "pending", new |-> "expired"] \in Audit
      BY DEF Audit, Status, Open, Final
    <3> QED
      BY <1>t, <3>1 DEF TypeOK
  <2>3. payments' \in [Payments -> Row]
    BY <1>15, <1>t, <2>1 DEF ExpirePayments, TypeOK
  <2>4. audits' \in [Payments -> Seq(Audit)]
    BY <1>15, <1>t, <2>2 DEF ExpirePayments, TypeOK
  <2> QED
    BY <1>15, <1>t, <2>3, <2>4 DEF ExpirePayments, Typed, TypeOK, Calls
<1> QED
  BY <1>1, <1>2, <1>3, <1>4, <1>5, <1>6, <1>7, <1>8, <1>9, <1>10, <1>11, <1>12, <1>13,
     <1>14, <1>15 DEF Next, CreateStep, CancelStep, HookStep

(* Every variable of Payment always stays within its type.                 *)
THEOREM TypeCorrect == Spec => []TypeOK
<1>1. Spec => []Typed
  BY InitTyped, NextTyped, PTL DEF Spec
<1>2. Typed => TypeOK
  BY DEF Typed
<1> QED
  BY <1>1, <1>2, PTL

-----------------------------------------------------------------------------
(* Money                                                                   *)

(* A payment that was not saved has no row and no history, and no call     *)
(* works on it; one that was not even requested is unknown to the provider.*)
Unsaved ==
    /\ \A p \in Payments : create[p] = "new" => provider[p] = "none"
    /\ \A p \in Payments : create[p] # "saved" => payments[p] = NoRow /\ audits[p] = <<>>
    /\ \A c \in Cancels : cancel[c].pc # "idle" => create[cancel[c].payment] = "saved"
    /\ \A d \in Deliveries : hook[d].pc # "idle" => create[hook[d].payment] = "saved"

(* Only money the provider holds is credited, or about to be.              *)
Covered ==
    /\ \A m \in mutations : provider[m.ref] = "paid"
    /\ \A d \in Deliveries :
          hook[d].pc = "read" /\ hook[d].status = "paid" => provider[hook[d].payment] = "paid"

(* The inductive invariant of the ledger.  Covered and Unsaved carry what  *)
(* the provider promises through the read that precedes the transaction;   *)
(* the other three are what the transaction writes.                        *)
Ledger == Unsaved /\ Covered /\ CreditOnce /\ PaidIsCredited /\ NoticeMatchesCredit

LEMMA InitLedger == Init => Ledger
  BY DEF Init, Ledger, Unsaved, Covered, CreditOnce, PaidIsCredited, NoticeMatchesCredit,
         PaidNotices, NoRow

(* The step that credits: e is the new entry, and nothing else than the    *)
(* ledger and the event is written that Settlement can see.                    *)
Credit(e) ==
    /\ e \in [id : Deliveries, ref : Payments, fee : 0 .. Amount]
    /\ provider[e.ref] = "paid"
    /\ \A m \in mutations : m.ref # e.ref
    /\ mutations' = mutations \cup {e}
    /\ outbox' = outbox \cup {[id |-> e.id, ref |-> e.ref,
                               status |-> "paid", fee |-> e.fee]}
    /\ provider' = provider

(* A delivery either credits its payment, which is then paid and was not   *)
(* credited before, or reports another status and leaves the ledger alone. *)
LEMMA ApplyCredits ==
    ASSUME Typed, Covered, NEW d \in Deliveries, HookApply(d)
    PROVE  LET p == hook[d].payment
           IN  /\ p \in Payments
               /\ UNCHANGED <<due, provider, create, cancel>>
               /\ payments' = [payments EXCEPT ![p] = payments'[p]]
               /\ payments'[p].status = hook[d].status
               /\ \/ /\ hook[d].status = "paid"
                     /\ \E fee \in 0 .. Amount :
                          Credit([id |-> d, ref |-> p, fee |-> fee])
                  \/ /\ hook[d].status # "paid"
                     /\ mutations' = mutations
                     /\ outbox' = outbox \cup {[id |-> d, ref |-> p,
                                                status |-> hook[d].status, fee |-> 0]}
<1> DEFINE p == hook[d].payment
           s == hook[d].status
<1>1. TypeOK /\ Calls
  BY DEF Typed
<1>2. /\ p \in Payments
      /\ hook[d].view \in Row
      /\ s \in Status
  BY <1>1 DEF HookApply, TypeOK, Calls, HookCalls
<1>3. UNCHANGED <<due, provider, create, cancel>>
  BY DEF HookApply
<1>4. PICK at \in BOOLEAN :
        payments' = [payments EXCEPT ![p] =
            [hook[d].view EXCEPT !.status = s, !.paid_at = IF s = "paid" THEN at ELSE @]]
  BY DEF HookApply, Update
<1>5. payments'[p].status = s
  BY <1>1, <1>2, <1>4 DEF TypeOK, Row
<1>5a. payments' = [payments EXCEPT ![p] = payments'[p]]
  BY <1>1, <1>2, <1>4 DEF TypeOK
<1>6. CASE s # "paid"
  <2>1. mutations' = mutations /\ InsertOutbox(d, p, s, 0)
    BY <1>6 DEF HookApply
  <2> QED
    BY <1>2, <1>3, <1>5, <1>5a, <1>6, <2>1 DEF InsertOutbox
<1>7. CASE s = "paid"
  <2>1. PICK fee \in Fees \cup {0} : SaveMutation(d, p, fee) /\ InsertOutbox(d, p, s, fee)
    BY <1>7 DEF HookApply
  <2>2. fee \in 0 .. Amount
    BY <2>1, PaymentAssumption DEF SaveMutation
  <2>3. provider[p] = "paid"
    BY <1>7 DEF Covered, HookApply
  <2> DEFINE e == [id |-> d, ref |-> p, fee |-> fee]
  <2>4. /\ e \in [id : Deliveries, ref : Payments, fee : 0 .. Amount]
        /\ e.ref = p /\ e.id = d /\ e.fee = fee
    BY <1>2, <2>2
  <2>5. \A m \in mutations : m.ref # p
    BY <2>1 DEF SaveMutation, Credited
  <2>6. /\ mutations' = mutations \cup {e}
        /\ outbox' = outbox \cup {[id |-> d, ref |-> p, status |-> "paid", fee |-> fee]}
    BY <1>7, <2>1 DEF SaveMutation, InsertOutbox
  <2>7. Credit(e)
    <3> HIDE DEF e
    <3> QED
      BY <1>3, <2>3, <2>4, <2>5, <2>6 DEF Credit
  <2> QED
    BY <1>2, <1>3, <1>5, <1>5a, <1>7, <2>2, <2>7
<1> QED
  BY <1>6, <1>7

(* Money the provider has collected stays collected.                       *)
LEMMA PaidIsStable ==
    ASSUME Typed, Unsaved, [Next]_vars, NEW p \in Payments, provider[p] = "paid"
    PROVE  provider'[p] = "paid"
<1>1. TypeOK
  BY DEF Typed
<1>2. CASE UNCHANGED vars
  BY <1>2 DEF vars
<1>3. ASSUME NEW q \in Payments, CreatePayment(q) PROVE provider'[p] = "paid"
  BY <1>1, <1>3 DEF CreatePayment, Unsaved, TypeOK
<1>4. ASSUME NEW q \in Payments,
             SavePaymentWithAudit(q) \/ CreateFails(q) \/ PassExpiry(q)
      PROVE  provider'[p] = "paid"
  BY <1>4 DEF SavePaymentWithAudit, CreateFails, PassExpiry
<1>5. ASSUME NEW q \in Payments, ProviderCloses(q) PROVE provider'[p] = "paid"
  BY <1>1, <1>5 DEF ProviderCloses, TypeOK
<1>6. ASSUME NEW c \in Cancels, CancelCall(c) PROVE provider'[p] = "paid"
  BY <1>1, <1>6 DEF CancelCall, TypeOK
<1>7. ASSUME NEW c \in Cancels,
             CancelRead(c) \/ CancelMark(c) \/ CancelFinish(c) \/ CancelDies(c)
      PROVE  provider'[p] = "paid"
  BY <1>7 DEF CancelRead, CancelMark, CancelFinish, CancelDies
<1>8. ASSUME NEW d \in Deliveries, HookStep(d) PROVE provider'[p] = "paid"
  BY <1>8 DEF HookStep, HookRead, HookSkip, HookApply, HookFails
<1>9. CASE ExpirePayments
  BY <1>9 DEF ExpirePayments
<1> QED
  BY <1>2, <1>3, <1>4, <1>5, <1>6, <1>7, <1>8, <1>9 DEF Next, CreateStep, CancelStep

(* Every step leaves the ledger and the outbox alone, or is the            *)
(* transaction of a webhook.                                               *)
LEMMA OnlyHooksWriteMoney ==
    ASSUME Next
    PROVE  \/ \E d \in Deliveries : HookApply(d)
           \/ UNCHANGED <<mutations, outbox>>
  BY DEF Next, CreateStep, CancelStep, HookStep, CreatePayment, SavePaymentWithAudit,
         CreateFails, PassExpiry, ProviderCloses, CancelRead, CancelMark, CancelCall,
         CancelFinish, CancelDies, HookRead, HookSkip, HookFails, ExpirePayments, tables

(* A delivery that ends forgets its view and keeps the rest.               *)
LEMMA HookEnds ==
    ASSUME TypeOK, NEW d \in Deliveries, HookSkip(d) \/ HookApply(d) \/ HookFails(d)
    PROVE  /\ hook[d].pc = "read"
           /\ hook'[d].pc \in {"acked", "failed"}
           /\ \A b \in Deliveries : /\ b # d => hook'[b] = hook[b]
                                    /\ hook'[b].payment = hook[b].payment
                                    /\ hook'[b].status = hook[b].status
                                    /\ hook'[b].pc # "idle" => hook[b].pc # "idle"
<1>1. PICK pc \in {"acked", "failed"} :
        hook' = [hook EXCEPT ![d].pc = pc, ![d].view = NoRow]
  BY DEF HookSkip, HookFails, HookApply
<1>2. hook[d].pc = "read"
  BY DEF HookSkip, HookFails, HookApply
<1>3. \A b \in Deliveries \ {d} : hook'[b] = hook[b]
  BY <1>1 DEF TypeOK
<1>4. hook'[d] = [hook[d] EXCEPT !.pc = pc, !.view = NoRow]
  BY <1>1 DEF TypeOK
<1>5. /\ hook'[d].pc = pc
      /\ hook'[d].payment = hook[d].payment
      /\ hook'[d].status = hook[d].status
  BY <1>4 DEF TypeOK, HookCalls
<1> QED
  BY <1>2, <1>3, <1>5

LEMMA NextUnsaved == Typed /\ Unsaved /\ [Next]_vars => Unsaved'
<1> SUFFICES ASSUME Typed, Unsaved, [Next]_vars PROVE Unsaved'
  OBVIOUS
<1>t. TypeOK /\ Calls
  BY DEF Typed
<1>r. \A p \in Payments : payments[p].status # "none" => create[p] = "saved"
  BY DEF Unsaved, NoRow
<1>1. CASE UNCHANGED vars
  BY <1>1 DEF Unsaved, vars, tables
<1>2. ASSUME NEW p \in Payments,
             CreateStep(p) \/ PassExpiry(p) \/ ProviderCloses(p)
      PROVE  Unsaved'
  <2>1. CASE CreatePayment(p)
    BY <1>t, <2>1 DEF CreatePayment, Unsaved, TypeOK, tables
  <2>2. CASE SavePaymentWithAudit(p)
    BY <1>t, <2>2 DEF SavePaymentWithAudit, Update, Unsaved, TypeOK
  <2>3. CASE CreateFails(p)
    BY <1>t, <2>3 DEF CreateFails, Unsaved, TypeOK, tables
  <2>4. CASE PassExpiry(p)
    BY <2>4 DEF PassExpiry, Unsaved, tables
  <2>5. CASE ProviderCloses(p)
    BY <1>t, <2>5 DEF ProviderCloses, Unsaved, TypeOK, tables
  <2> QED
    BY <1>2, <2>1, <2>2, <2>3, <2>4, <2>5 DEF CreateStep
<1>3. ASSUME NEW c \in Cancels, CancelStep(c) PROVE Unsaved'
  <2>1. CASE CancelRead(c)
    BY <1>t, <1>r, <2>1 DEF CancelRead, CanCancel, Unsaved, TypeOK, tables
  <2>2. CASE CancelMark(c)
    BY <1>t, <2>2 DEF CancelMark, Update, Unsaved, TypeOK, CancelCalls
  <2>3. CASE CancelCall(c)
    <3>1. PICK ok \in BOOLEAN :
            cancel' = [cancel EXCEPT ![c].pc = "answered", ![c].ok = ok]
      BY <2>3 DEF CancelCall
    <3>2. cancel[c].pc = "marked" /\ UNCHANGED <<tables, due, create, hook>>
      BY <2>3 DEF CancelCall
    <3>3. \A b \in Cancels : /\ cancel'[b].payment = cancel[b].payment
                             /\ cancel'[b].pc # "idle" => cancel[b].pc # "idle"
      <4>1. \A b \in Cancels \ {c} : cancel'[b] = cancel[b]
        BY <1>t, <3>1 DEF TypeOK
      <4>2. cancel'[c].payment = cancel[c].payment
        BY <1>t, <3>1 DEF TypeOK, CancelCalls
      <4> QED
        BY <3>2, <4>1, <4>2
    <3>4. create[cancel[c].payment] = "saved" /\ cancel[c].payment \in Payments
      BY <1>t, <3>2 DEF Unsaved, Calls
    <3>5. \A p \in Payments : p # cancel[c].payment => provider'[p] = provider[p]
      BY <1>t, <2>3 DEF CancelCall, TypeOK
    <3> QED
      BY <3>2, <3>3, <3>4, <3>5 DEF Unsaved, tables
  <2>4. CASE CancelFinish(c)
    <3>1. /\ \A p \in Payments : p # cancel[c].payment =>
                payments'[p] = payments[p] /\ audits'[p] = audits[p]
          /\ create[cancel[c].payment] = "saved"
          /\ UNCHANGED <<provider, create, hook>>
      BY <1>t, <2>4 DEF CancelFinish, Update, Unsaved, TypeOK
    <3>2. cancel' = [cancel EXCEPT ![c].pc = "done", ![c].view = NoRow] /\ cancel[c].pc = "answered"
      BY <2>4 DEF CancelFinish
    <3>3. \A b \in Cancels : /\ cancel'[b].payment = cancel[b].payment
                             /\ cancel'[b].pc # "idle" => cancel[b].pc # "idle"
      <4>1. \A b \in Cancels \ {c} : cancel'[b] = cancel[b]
        BY <1>t, <3>2 DEF TypeOK
      <4>2. cancel'[c] = [cancel[c] EXCEPT !.pc = "done", !.view = NoRow]
        BY <1>t, <3>2 DEF TypeOK
      <4>3. cancel'[c].payment = cancel[c].payment
        BY <4>2, <1>t DEF TypeOK, CancelCalls
      <4> QED
        BY <3>2, <4>1, <4>3
    <3> QED
      BY <3>1, <3>3 DEF Unsaved
  <2>5. CASE CancelDies(c)
    BY <1>t, <2>5 DEF CancelDies, Unsaved, TypeOK, CancelCalls, tables
  <2> QED
    BY <1>3, <2>1, <2>2, <2>3, <2>4, <2>5 DEF CancelStep
<1>4. ASSUME NEW d \in Deliveries, HookStep(d) PROVE Unsaved'
  <2>1. CASE HookRead(d)
    BY <1>t, <1>r, <2>1 DEF HookRead, Unsaved, TypeOK, tables
  <2>2. CASE HookSkip(d) \/ HookFails(d)
    <3>1. UNCHANGED <<tables, provider, create, cancel>>
      BY <2>2 DEF HookSkip, HookFails
    <3> QED
      BY <1>t, <2>2, <3>1, HookEnds DEF Unsaved, tables
  <2>3. CASE HookApply(d)
    <3>1. /\ \A p \in Payments : p # hook[d].payment =>
                payments'[p] = payments[p] /\ audits'[p] = audits[p]
          /\ create[hook[d].payment] = "saved"
          /\ UNCHANGED <<provider, create, cancel>>
      BY <1>t, <2>3 DEF HookApply, Update, Unsaved, TypeOK
    <3> QED
      BY <1>t, <2>3, <3>1, HookEnds DEF Unsaved
  <2> QED
    BY <1>4, <2>1, <2>2, <2>3 DEF HookStep
<1>5. CASE ExpirePayments
  BY <1>t, <1>r, <1>5 DEF ExpirePayments, Expirable, Unsaved, TypeOK
<1> QED
  BY <1>1, <1>2, <1>3, <1>4, <1>5 DEF Next

LEMMA NextCovered == Typed /\ Unsaved /\ Covered /\ [Next]_vars => Covered'
<1> SUFFICES ASSUME Typed, Unsaved, Covered, [Next]_vars PROVE Covered'
  OBVIOUS
<1>t. TypeOK /\ Calls
  BY DEF Typed
<1>1. \A p \in Payments : provider[p] = "paid" => provider'[p] = "paid"
  BY PaidIsStable
<1>2. \A m \in mutations' : provider'[m.ref] = "paid"
  <2>1. \A m \in mutations : provider'[m.ref] = "paid"
    BY <1>1, <1>t DEF Covered, TypeOK
  <2>2. CASE UNCHANGED mutations
    BY <2>1, <2>2
  <2>3. ASSUME NEW d \in Deliveries, HookApply(d)
        PROVE  \A m \in mutations' : provider'[m.ref] = "paid"
    <3>1. \/ mutations' = mutations
          \/ \E fee \in 0 .. Amount :
                Credit([id |-> d, ref |-> hook[d].payment, fee |-> fee])
      BY <2>3, ApplyCredits
    <3> QED
      BY <2>1, <3>1 DEF Credit
  <2> QED
    BY <2>2, <2>3, OnlyHooksWriteMoney DEF vars
<1>3. ASSUME NEW d \in Deliveries, hook'[d].pc = "read", hook'[d].status = "paid"
      PROVE  provider'[hook'[d].payment] = "paid"
  <2>1. CASE hook'[d] = hook[d]
    <3>1. hook[d].payment \in Payments /\ provider[hook[d].payment] = "paid"
      BY <1>3, <1>t, <2>1 DEF Covered, Calls
    <3> QED
      BY <1>1, <2>1, <3>1
  <2>2. ASSUME NEW e \in Deliveries, HookRead(e), hook'[d] # hook[d]
        PROVE  provider'[hook'[d].payment] = "paid"
    <3>1. e = d
      BY <1>t, <2>2 DEF HookRead, TypeOK
    <3>2. PICK p \in Payments : \E s \in Reported(p) :
            hook' = [hook EXCEPT ![d] =
                      IF IsFinal(payments[p])
                      THEN [pc |-> "acked", payment |-> p, view |-> NoRow, status |-> s]
                      ELSE [pc |-> "read", payment |-> p, view |-> payments[p], status |-> s]]
      BY <2>2, <3>1 DEF HookRead
    <3>3. "paid" \in Reported(p) /\ hook'[d].payment = p
      BY <1>3, <1>t, <3>2 DEF TypeOK
    <3>4. provider[p] = "paid"
      BY <3>3 DEF Reported
    <3> QED
      BY <1>1, <3>3, <3>4
  <2>3. ASSUME NEW e \in Deliveries, HookSkip(e) \/ HookApply(e) \/ HookFails(e),
               hook'[d] # hook[d]
        PROVE  FALSE
    <3>1. PICK pc \in {"acked", "failed"} :
            hook' = [hook EXCEPT ![e].pc = pc, ![e].view = NoRow]
      BY <2>3 DEF HookSkip, HookApply, HookFails
    <3>2. e = d
      BY <1>t, <2>3, <3>1 DEF TypeOK
    <3>3. hook'[d].pc = pc
      BY <1>t, <3>1, <3>2 DEF TypeOK, HookCalls
    <3> QED
      BY <1>3, <3>3
  <2>4. CASE ~\E e \in Deliveries : HookStep(e)
    <3>1. UNCHANGED hook
      BY <2>4 DEF Next, CreateStep, CancelStep, CreatePayment, SavePaymentWithAudit,
         CreateFails, PassExpiry, ProviderCloses, CancelRead, CancelMark, CancelCall,
         CancelFinish, CancelDies, ExpirePayments, vars
    <3> QED
      BY <2>1, <3>1
  <2> QED
    BY <2>1, <2>2, <2>3, <2>4 DEF HookStep
<1> QED
  BY <1>2, <1>3 DEF Covered

LEMMA NextCreditOnce ==
    Typed /\ Covered /\ CreditOnce /\ [Next]_vars => CreditOnce'
<1> SUFFICES ASSUME Typed, Covered, CreditOnce, [Next]_vars PROVE CreditOnce'
  OBVIOUS
<1>1. CASE UNCHANGED mutations
  BY <1>1 DEF CreditOnce
<1>2. ASSUME NEW d \in Deliveries, HookApply(d) PROVE CreditOnce'
  <2>1. \/ mutations' = mutations
        \/ \E fee \in 0 .. Amount :
              Credit([id |-> d, ref |-> hook[d].payment, fee |-> fee])
    BY <1>2, ApplyCredits
  <2>2. ASSUME NEW e, Credit(e) PROVE CreditOnce'
    BY <2>2 DEF Credit, CreditOnce
  <2> QED
    BY <1>1, <2>1, <2>2
<1> QED
  BY <1>1, <1>2, OnlyHooksWriteMoney DEF vars

LEMMA NextPaidIsCredited ==
    Typed /\ Covered /\ PaidIsCredited /\ [Next]_vars => PaidIsCredited'
<1> SUFFICES ASSUME Typed, Covered, PaidIsCredited, [Next]_vars,
                    NEW p \in Payments, payments'[p].status = "paid"
             PROVE  Credited(p)'
  BY DEF PaidIsCredited
<1>t. TypeOK /\ Calls
  BY DEF Typed
<1>1. ASSUME mutations \subseteq mutations', payments[p].status = "paid" PROVE Credited(p)'
  BY <1>1 DEF PaidIsCredited, Credited
<1>2. ASSUME NEW d \in Deliveries, HookApply(d) PROVE Credited(p)'
  <2>1. CASE hook[d].payment # p \/ hook[d].status # "paid"
    <3>1. payments[p].status = "paid"
      BY <1>2, <1>t, <2>1, ApplyCredits DEF TypeOK
    <3>2. mutations \subseteq mutations'
      BY <1>2, ApplyCredits DEF Credit
    <3> QED
      BY <1>1, <3>1, <3>2
  <2>2. CASE hook[d].payment = p /\ hook[d].status = "paid"
    <3>1. PICK fee \in 0 .. Amount : Credit([id |-> d, ref |-> p, fee |-> fee])
      BY <1>2, <2>2, ApplyCredits
    <3>2. [id |-> d, ref |-> p, fee |-> fee] \in mutations'
      BY <3>1 DEF Credit
    <3> QED
      BY <3>2 DEF Credited
  <2> QED
    BY <2>1, <2>2
<1>3. ASSUME ~\E d \in Deliveries : HookApply(d) PROVE Credited(p)'
  <2>1. UNCHANGED mutations
    BY <1>3, OnlyHooksWriteMoney DEF vars
  <2>2. payments[p].status = "paid"
    <3>1. CASE UNCHANGED payments
      BY <3>1
    <3>2. ASSUME NEW q \in Payments, SavePaymentWithAudit(q) PROVE payments[p].status = "paid"
      BY <1>t, <3>2 DEF SavePaymentWithAudit, Update, TypeOK, NoRow
    <3>3. ASSUME NEW c \in Cancels, CancelMark(c) PROVE payments[p].status = "paid"
      BY <1>t, <3>3 DEF CancelMark, Update, TypeOK, CancelCalls, Row
    <3>4. ASSUME NEW c \in Cancels, CancelFinish(c) PROVE payments[p].status = "paid"
      BY <1>t, <3>4 DEF CancelFinish, Update, TypeOK, CancelCalls, Row
    <3>5. CASE ExpirePayments
      BY <1>t, <3>5 DEF ExpirePayments, TypeOK, Row
    <3> QED
      BY <1>3, <3>1, <3>2, <3>3, <3>4, <3>5
      DEF Next, CreateStep, CancelStep, HookStep, CreatePayment, CreateFails, PassExpiry,
          ProviderCloses, CancelRead, CancelCall, CancelDies, HookRead, HookSkip,
          HookFails, tables, vars
  <2> QED
    BY <1>1, <2>1, <2>2
<1> QED
  BY <1>2, <1>3

LEMMA NextNoticeMatchesCredit ==
    Typed /\ Covered /\ NoticeMatchesCredit /\ [Next]_vars => NoticeMatchesCredit'
<1> SUFFICES ASSUME Typed, Covered, NoticeMatchesCredit, [Next]_vars
             PROVE  NoticeMatchesCredit'
  OBVIOUS
<1>1. CASE UNCHANGED <<mutations, outbox>>
  BY <1>1 DEF NoticeMatchesCredit, PaidNotices
<1>2. ASSUME NEW d \in Deliveries, HookApply(d) PROVE NoticeMatchesCredit'
  <2> DEFINE p == hook[d].payment
  <2>1. CASE hook[d].status # "paid"
    <3>1. /\ mutations' = mutations
          /\ outbox' = outbox \cup {[id |-> d, ref |-> p,
                                     status |-> hook[d].status, fee |-> 0]}
      BY <1>2, <2>1, ApplyCredits
    <3>2. PaidNotices' = PaidNotices
      BY <2>1, <3>1 DEF PaidNotices
    <3> QED
      BY <3>1, <3>2 DEF NoticeMatchesCredit
  <2>2. CASE hook[d].status = "paid"
    <3>1. PICK fee \in 0 .. Amount : Credit([id |-> d, ref |-> p, fee |-> fee])
      BY <1>2, <2>2, ApplyCredits
    <3> DEFINE n == [id |-> d, ref |-> p, status |-> "paid", fee |-> fee]
               e == [id |-> d, ref |-> p, fee |-> fee]
    <3>2. mutations' = mutations \cup {e} /\ outbox' = outbox \cup {n}
      BY <3>1 DEF Credit
    <3>3. n.status = "paid" /\ [id |-> n.id, ref |-> n.ref, fee |-> n.fee] = e
      OBVIOUS
    <3> HIDE DEF n, e
    <3>4. PaidNotices' = PaidNotices \cup {n}
      BY <3>2, <3>3 DEF PaidNotices
    <3> QED
      BY <3>2, <3>3, <3>4 DEF NoticeMatchesCredit
  <2> QED
    BY <2>1, <2>2
<1> QED
  BY <1>1, <1>2, OnlyHooksWriteMoney DEF vars

LEMMA LedgerInvariant == Spec => [](Typed /\ Ledger)
<1>1. Init => Typed /\ Ledger
  BY InitTyped, InitLedger
<1>2. Typed /\ Ledger /\ [Next]_vars => (Typed /\ Ledger)'
  BY NextTyped, NextUnsaved, NextCovered, NextCreditOnce, NextPaidIsCredited,
     NextNoticeMatchesCredit DEF Ledger
<1> QED
  BY <1>1, <1>2, PTL DEF Spec

(* A payment is credited at most once, whatever cancel calls reopen and    *)
(* however often the provider repeats itself (payment.go:342).             *)
THEOREM CreditedOnce == Spec => []CreditOnce
<1>1. Typed /\ Ledger => CreditOnce
  BY DEF Ledger
<1> QED
  BY <1>1, LedgerInvariant, PTL

(* A payment shown as paid has its credit in the ledger (payment.go:341).  *)
THEOREM PaidPaymentsAreCredited == Spec => []PaidIsCredited
<1>1. Typed /\ Ledger => PaidIsCredited
  BY DEF Ledger
<1> QED
  BY <1>1, LedgerInvariant, PTL

(* The events "payment.paid" of the outbox are exactly the credits of the  *)
(* ledger (payment.go:341, 363).                                           *)
THEOREM NoticesMatchCredits == Spec => []NoticeMatchesCredit
<1>1. Typed /\ Ledger => NoticeMatchesCredit
  BY DEF Ledger
<1> QED
  BY <1>1, LedgerInvariant, PTL

-----------------------------------------------------------------------------
(* Payment implements Settlement                                               *)

Collected == {p \in Payments : provider[p] = "paid"}

(* The provider's steps add at most one collected payment.                 *)
LEMMA CollectsOne ==
    ASSUME Typed, Unsaved, [Next]_vars, ~\E d \in Deliveries : HookApply(d)
    PROVE  \/ Collected' = Collected
           \/ \E p \in Payments \ Collected : Collected' = Collected \cup {p}
<1>t. TypeOK /\ Calls
  BY DEF Typed
<1>1. CASE UNCHANGED provider
  BY <1>1 DEF Collected
<1>2. ASSUME NEW p \in Payments, NEW s, provider' = [provider EXCEPT ![p] = s],
             provider[p] # "paid"
      PROVE  \/ Collected' = Collected
             \/ \E q \in Payments \ Collected : Collected' = Collected \cup {q}
  <2>1. p \in Payments \ Collected
    BY <1>2 DEF Collected
  <2>2. CASE s = "paid"
    <3>1. Collected' = Collected \cup {p}
      BY <1>2, <1>t, <2>2 DEF Collected, TypeOK
    <3> QED
      BY <2>1, <3>1
  <2>3. CASE s # "paid"
    BY <1>2, <1>t, <2>3 DEF Collected, TypeOK
  <2> QED
    BY <2>2, <2>3
<1>3. ASSUME NEW p \in Payments, CreatePayment(p)
      PROVE  provider' = [provider EXCEPT ![p] = "open"] /\ provider[p] # "paid"
  BY <1>3 DEF CreatePayment, Unsaved
<1>4. ASSUME NEW p \in Payments, ProviderCloses(p)
      PROVE  \E s : provider' = [provider EXCEPT ![p] = s] /\ provider[p] # "paid"
  BY <1>4 DEF ProviderCloses
<1>5. ASSUME NEW c \in Cancels, CancelCall(c)
      PROVE  \/ UNCHANGED provider
             \/ \E p \in Payments :
                  provider' = [provider EXCEPT ![p] = "cancelled"] /\ provider[p] # "paid"
  BY <1>5, <1>t DEF CancelCall, Calls
<1>6. \/ UNCHANGED provider
      \/ \E p \in Payments : CreatePayment(p) \/ ProviderCloses(p)
      \/ \E c \in Cancels : CancelCall(c)
  BY DEF Next, CreateStep, CancelStep, HookStep, SavePaymentWithAudit, CreateFails,
         PassExpiry, CancelRead, CancelMark, CancelFinish, CancelDies, HookRead,
         HookSkip, HookApply, HookFails, ExpirePayments, vars
<1> QED
  BY <1>1, <1>2, <1>3, <1>4, <1>5, <1>6

(* Under the refinement mapping every behaviour of Payment is one of       *)
(* Settlement: collected money is credited at most once and announced in the   *)
(* same step with the same fee (payment.go:290-393).                       *)
THEOREM PaymentImplementsSettlement == Spec => ImplementsSettlement
<1>1. Init => Abstract!Init
  BY DEF Init, Abstract!Init, PaidNotices
<1>2. Typed /\ Ledger /\ (Typed /\ Ledger)' /\ [Next]_vars
        => [Abstract!Next]_(Abstract!vars)
  <2> SUFFICES ASSUME Typed, Ledger, Ledger', [Next]_vars
               PROVE  [Abstract!Next]_(Abstract!vars)
    OBVIOUS
  <2> DEFINE notices == {[id |-> n.id, ref |-> n.ref, fee |-> n.fee] : n \in PaidNotices}
  <2>1. notices = mutations /\ notices' = mutations'
    BY DEF Ledger, NoticeMatchesCredit
  <2>2. ASSUME NEW d \in Deliveries, HookApply(d) PROVE [Abstract!Next]_(Abstract!vars)
    <3>1. Collected' = Collected
      BY <2>2, ApplyCredits DEF Collected, Ledger
    <3>2. CASE mutations' = mutations
      BY <2>1, <3>1, <3>2 DEF Abstract!vars, Collected
    <3>3. ASSUME NEW e, Credit(e) PROVE Abstract!Next
      <4>1. /\ e \in Abstract!Entry
            /\ e.ref \in Collected
            /\ \A c \in mutations : c.ref # e.ref
            /\ mutations' = mutations \cup {e}
        BY <3>3 DEF Credit, Abstract!Entry, Collected
      <4>2. Abstract!Book(e)
        BY <2>1, <3>1, <4>1 DEF Abstract!Book, Collected
      <4> QED
        BY <4>1, <4>2 DEF Abstract!Next
    <3>4. \/ mutations' = mutations
          \/ \E fee \in 0 .. Amount :
                Credit([id |-> d, ref |-> hook[d].payment, fee |-> fee])
      BY <2>2, ApplyCredits DEF Ledger
    <3> QED
      BY <3>2, <3>3, <3>4
  <2>3. ASSUME ~\E d \in Deliveries : HookApply(d) PROVE [Abstract!Next]_(Abstract!vars)
    <3>1. mutations' = mutations
      BY <2>3, OnlyHooksWriteMoney DEF vars
    <3>2. CASE Collected' = Collected
      BY <2>1, <3>1, <3>2 DEF Abstract!vars, Collected
    <3>3. ASSUME NEW p \in Payments \ Collected, Collected' = Collected \cup {p}
          PROVE  Abstract!Next
      <4>1. Abstract!Settle(p)
        BY <2>1, <3>1, <3>3 DEF Abstract!Settle, Collected
      <4> QED
        BY <4>1 DEF Abstract!Next
    <3>4. \/ Collected' = Collected
          \/ \E p \in Payments \ Collected : Collected' = Collected \cup {p}
      BY <2>3, CollectsOne DEF Ledger
    <3> QED
      BY <3>2, <3>3, <3>4
  <2> QED
    BY <2>2, <2>3
<1> QED
  BY <1>1, <1>2, LedgerInvariant, PTL DEF Spec, ImplementsSettlement, Abstract!Spec

-----------------------------------------------------------------------------
(* Final rows                                                              *)

LEMMA FinalStep ==
    ASSUME Typed, Unsaved, Next, NEW p \in Payments,
           payments[p].status \in Final, payments'[p] # payments[p]
    PROVE  \E c \in Cancels : /\ cancel[c].payment = p
                              /\ cancel[c].pc \in {"read", "answered"}
                              /\ cancel'[c].pc # cancel[c].pc
<1>t. TypeOK /\ Calls
  BY DEF Typed
<1>1. ASSUME NEW c \in Cancels, CancelMark(c) \/ CancelFinish(c)
      PROVE  /\ cancel[c].payment = p
             /\ cancel[c].pc \in {"read", "answered"}
             /\ cancel'[c].pc # cancel[c].pc
  <2>1. cancel[c].payment = p
    BY <1>1, <1>t DEF CancelMark, CancelFinish, Update, TypeOK
  <2>2. CASE CancelMark(c)
    <3>1. cancel'[c].pc = "marked" /\ cancel[c].pc = "read"
      BY <1>t, <2>2 DEF CancelMark, TypeOK, CancelCalls
    <3> QED
      BY <2>1, <3>1
  <2>3. CASE CancelFinish(c)
    <3>1. cancel[c].pc = "answered"
      BY <2>3 DEF CancelFinish
    <3>2. cancel'[c] = [cancel[c] EXCEPT !.pc = "done", !.view = NoRow]
      BY <1>t, <2>3 DEF CancelFinish, TypeOK
    <3>3. cancel'[c].pc = "done"
      BY <1>t, <3>2 DEF TypeOK, CancelCalls
    <3> QED
      BY <2>1, <3>1, <3>3
  <2> QED
    BY <1>1, <2>2, <2>3
<1>2. ASSUME NEW q \in Payments, SavePaymentWithAudit(q) PROVE FALSE
  <2>1. q = p
    BY <1>2, <1>t DEF SavePaymentWithAudit, Update, TypeOK
  <2>2. payments[p].status = "none"
    BY <1>2, <2>1 DEF SavePaymentWithAudit, Unsaved, NoRow
  <2> QED
    BY <2>2 DEF Final
<1>3. ASSUME NEW d \in Deliveries, HookApply(d) PROVE FALSE
  BY <1>3, <1>t DEF HookApply, Update, IsFinal, TypeOK
<1>4. CASE ExpirePayments
  BY <1>4 DEF ExpirePayments, Expirable, Final
<1>5. \/ UNCHANGED payments
      \/ \E q \in Payments : SavePaymentWithAudit(q)
      \/ \E c \in Cancels : CancelMark(c) \/ CancelFinish(c)
      \/ \E d \in Deliveries : HookApply(d)
      \/ ExpirePayments
  BY DEF Next, CreateStep, CancelStep, HookStep, CreatePayment, CreateFails, PassExpiry,
         ProviderCloses, CancelRead, CancelCall, CancelDies, HookRead, HookSkip,
         HookFails, tables
<1> QED
  BY <1>1, <1>2, <1>3, <1>4, <1>5

(* No webhook, however late or repeated, and no sweep changes a final row: *)
(* only a cancel call with a stale view does (payment.go:321, 219-287).    *)
THEOREM FinalRowsAreLostOnlyToCancel == Spec => FinalLostOnlyToCancel
<1>1. Typed /\ Ledger /\ [Next]_vars =>
        [\A p \in Payments :
          payments[p].status \in Final /\ payments'[p] # payments[p] =>
             \E c \in Cancels :
                /\ cancel[c].payment = p
                /\ cancel[c].pc \in {"read", "answered"}
                /\ cancel'[c].pc # cancel[c].pc]_vars
  <2>1. CASE UNCHANGED vars
    BY <2>1
  <2>2. CASE Next
    BY <2>2, FinalStep DEF Ledger
  <2> QED
    BY <2>1, <2>2
<1> QED
  BY <1>1, LedgerInvariant, PTL DEF Spec, FinalLostOnlyToCancel
-----------------------------------------------------------------------------
(* The audit trail                                                         *)

(* An entry that must continue the one before it does.                     *)
Chained(s) ==
    \A i \in 1 .. Len(s) :
        s[i].event \in {"WEBHOOK_RECEIVED", "PAYMENT_EXPIRED"} =>
            i > 1 /\ s[i].old = s[i-1].new

(* The row of a payment agrees with its trail.                             *)
Told(p) ==
    /\ payments[p].status = (IF audits[p] = <<>> THEN "none" ELSE Last(p).new)
    /\ Chained(audits[p])

LEMMA ChainByParts == AuditChain <=> \A p \in Payments : Told(p)
BY DEF AuditChain, Told, Chained

LEMMA AppendChained ==
    ASSUME NEW s \in Seq(Audit), Chained(s), NEW a \in Audit,
           a.event \in {"WEBHOOK_RECEIVED", "PAYMENT_EXPIRED"} =>
               s # <<>> /\ a.old = s[Len(s)].new
    PROVE  /\ Chained(Append(s, a))
           /\ Append(s, a) # <<>>
           /\ Append(s, a)[Len(Append(s, a))].new = a.new
<1> DEFINE t == Append(s, a)
<1>1. /\ t \in Seq(Audit) /\ Len(t) = Len(s) + 1 /\ Len(s) \in Nat
      /\ t[Len(s) + 1] = a
      /\ \A i \in 1 .. Len(s) : t[i] = s[i]
  OBVIOUS
<1> HIDE DEF t
<1>2. s # <<>> => Len(s) > 0
  OBVIOUS
<1>3. ASSUME NEW i \in 1 .. Len(t), t[i].event \in {"WEBHOOK_RECEIVED", "PAYMENT_EXPIRED"}
      PROVE  i > 1 /\ t[i].old = t[i-1].new
  <2>1. CASE i \in 1 .. Len(s)
    <3>1. i > 1 /\ s[i].old = s[i-1].new
      BY <1>1, <1>3, <2>1 DEF Chained
    <3>2. i - 1 \in 1 .. Len(s)
      BY <2>1, <3>1
    <3> QED
      BY <1>1, <2>1, <3>1, <3>2
  <2>2. CASE i = Len(s) + 1
    <3>1. s # <<>> /\ a.old = s[Len(s)].new
      BY <1>1, <1>3, <2>2
    <3>2. Len(s) \in 1 .. Len(s) /\ i - 1 = Len(s)
      BY <1>1, <1>2, <2>2, <3>1
    <3> QED
      BY <1>1, <2>2, <3>1, <3>2
  <2> QED
    BY <1>1, <2>1, <2>2
<1>4. Chained(t)
  BY <1>3 DEF Chained
<1>5. t # <<>> /\ t[Len(t)].new = a.new
  BY <1>1
<1> QED
  BY <1>4, <1>5 DEF t

(* A transaction that writes the row and its entry keeps them in step.     *)
LEMMA UpdateTold ==
    ASSUME TypeOK, NEW p \in Payments, NEW row \in Row, row.status # "none",
           NEW event \in {"PAYMENT_CREATED", "STATUS_CHANGED", "WEBHOOK_RECEIVED",
                          "PAYMENT_CANCELLED"},
           NEW old \in Status \cup {"none"},
           event = "WEBHOOK_RECEIVED" => audits[p] # <<>> /\ old = payments[p].status,
           Update(p, row, event, old), AuditChain
    PROVE  AuditChain' /\ audits'[p] # <<>>
<1> DEFINE a == [event |-> event, old |-> old, new |-> row.status]
<1>1. a \in Audit /\ a.event = event /\ a.old = old /\ a.new = row.status
  BY DEF Audit, Row
<1>2. audits[p] \in Seq(Audit) /\ Told(p)
  BY ChainByParts DEF TypeOK
<1>3. /\ payments' = [payments EXCEPT ![p] = row]
      /\ audits' = [audits EXCEPT ![p] = Append(@, a)]
  BY DEF Update
<1> HIDE DEF a
<1>4. audits'[p] = Append(audits[p], a) /\ payments'[p] = row
  BY <1>3 DEF TypeOK
<1>5. /\ Chained(audits'[p]) /\ audits'[p] # <<>>
      /\ audits'[p][Len(audits'[p])].new = row.status
  <2>1. a.event \in {"WEBHOOK_RECEIVED", "PAYMENT_EXPIRED"} =>
           audits[p] # <<>> /\ a.old = audits[p][Len(audits[p])].new
    BY <1>1, <1>2 DEF Told, Last
  <2> QED
    BY <1>1, <1>2, <1>4, <2>1, AppendChained DEF Told
<1>6. Told(p)'
  BY <1>4, <1>5 DEF Told, Last
<1>7. \A q \in Payments \ {p} : payments'[q] = payments[q] /\ audits'[q] = audits[q]
  BY <1>3 DEF TypeOK
<1>8. \A q \in Payments \ {p} : Told(q)'
  BY <1>7, ChainByParts DEF Told, Last
<1>9. \A q \in Payments : Told(q)'
  BY <1>6, <1>8
<1> QED
  BY <1>5, <1>9 DEF AuditChain, Told, Chained

(* A payment that was saved has a trail.                                   *)
Saved == \A p \in Payments : create[p] = "saved" => audits[p] # <<>>

Trail == AuditChain /\ Saved

LEMMA NextTrail == Typed /\ Unsaved /\ Trail /\ [Next]_vars => Trail'
<1> SUFFICES ASSUME Typed, Unsaved, Trail, [Next]_vars PROVE Trail'
  OBVIOUS
<1>t. TypeOK /\ Calls /\ AuditChain /\ Saved
  BY DEF Typed, Trail
<1>1. ASSUME UNCHANGED <<payments, audits>>,
             \A p \in Payments : create'[p] = "saved" => create[p] = "saved"
      PROVE  Trail'
  BY <1>1, <1>t DEF Trail, AuditChain, Last, Saved
<1>2. ASSUME NEW p \in Payments, NEW row \in Row, row.status # "none",
             NEW event \in {"PAYMENT_CREATED", "STATUS_CHANGED", "WEBHOOK_RECEIVED",
                            "PAYMENT_CANCELLED"},
             NEW old \in Status \cup {"none"},
             event = "WEBHOOK_RECEIVED" => audits[p] # <<>> /\ old = payments[p].status,
             Update(p, row, event, old),
             \A q \in Payments \ {p} : create'[q] = create[q]
      PROVE  Trail'
  <2>1. AuditChain' /\ audits'[p] # <<>>
    BY <1>t, <1>2, UpdateTold
  <2>2. \A q \in Payments \ {p} : audits'[q] = audits[q]
    BY <1>t, <1>2 DEF Update, TypeOK
  <2> QED
    BY <1>t, <1>2, <2>1, <2>2 DEF Trail, Saved
<1>3. ASSUME NEW p \in Payments, SavePaymentWithAudit(p) PROVE Trail'
  <2> DEFINE row == [NoRow EXCEPT !.status = "pending"]
  <2>1. row \in Row /\ row.status # "none"
    BY DEF NoRow, Row, Status, Final, Open
  <2>2. Update(p, row, "PAYMENT_CREATED", "none") /\ create' = [create EXCEPT ![p] = "saved"]
    BY <1>3 DEF SavePaymentWithAudit
  <2> HIDE DEF row
  <2>3. \A q \in Payments \ {p} : create'[q] = create[q]
    BY <1>t, <2>2 DEF TypeOK
  <2> QED
    BY <1>2, <2>1, <2>2, <2>3
<1>4. ASSUME NEW c \in Cancels, CancelMark(c) PROVE Trail'
  <2> DEFINE row == [cancel[c].view EXCEPT !.status = "cancelling"]
  <2>1. /\ cancel[c].payment \in Payments
        /\ row \in Row
        /\ row.status # "none"
        /\ cancel[c].view.status \in Status \cup {"none"}
    BY <1>4, <1>t DEF CancelMark, TypeOK, Calls, CancelCalls, Row, Status, Open
  <2>2. /\ Update(cancel[c].payment, row, "STATUS_CHANGED", cancel[c].view.status)
        /\ create' = create
    BY <1>4 DEF CancelMark
  <2> HIDE DEF row
  <2> QED
    BY <1>2, <2>1, <2>2
<1>5. ASSUME NEW c \in Cancels, CancelFinish(c) PROVE Trail'
  <2> DEFINE ok == cancel[c].ok
             row == [cancel[c].view EXCEPT !.status = IF ok THEN "cancelled" ELSE "pending",
                                           !.cancelled_at = ok]
             event == IF ok THEN "PAYMENT_CANCELLED" ELSE "STATUS_CHANGED"
  <2>1. /\ cancel[c].payment \in Payments
        /\ row \in Row
        /\ row.status # "none"
    BY <1>5, <1>t DEF CancelFinish, TypeOK, Calls, CancelCalls, Row, Status, Open, Final
  <2>2. Update(cancel[c].payment, row, event, "cancelling") /\ create' = create
    BY <1>5 DEF CancelFinish
  <2>3. event \in {"PAYMENT_CANCELLED", "STATUS_CHANGED"} /\ "cancelling" \in Status
    BY DEF Status, Open
  <2> HIDE DEF row, event, ok
  <2> QED
    BY <1>2, <2>1, <2>2, <2>3
<1>6. ASSUME NEW d \in Deliveries, HookApply(d) PROVE Trail'
  <2> DEFINE p == hook[d].payment
             s == hook[d].status
  <2>1. PICK at \in BOOLEAN :
          Update(p, [hook[d].view EXCEPT !.status = s,
                                         !.paid_at = IF s = "paid" THEN at ELSE @],
                 "WEBHOOK_RECEIVED", payments[p].status)
    BY <1>6 DEF HookApply
  <2> DEFINE row == [hook[d].view EXCEPT !.status = s,
                                         !.paid_at = IF s = "paid" THEN at ELSE @]
  <2>2. /\ p \in Payments
        /\ row \in Row /\ row.status # "none"
        /\ payments[p].status \in Status \cup {"none"}
    BY <1>6, <1>t DEF HookApply, TypeOK, Calls, HookCalls, Row, Status, Open, Final
  <2>3. audits[p] # <<>> /\ create' = create
    BY <1>6, <1>t DEF HookApply, Unsaved, Saved, Calls
  <2>4. Update(p, row, "WEBHOOK_RECEIVED", payments[p].status)
    BY <2>1
  <2> HIDE DEF row, p, s
  <2> QED
    BY <1>2, <2>2, <2>3, <2>4
<1>7. CASE ExpirePayments
  <2> DEFINE a == [event |-> "PAYMENT_EXPIRED", old |-> "pending", new |-> "expired"]
  <2>1. a \in Audit /\ a.old = "pending" /\ a.new = "expired"
    BY DEF Audit, Status, Open, Final
  <2>2. ASSUME NEW p \in Payments PROVE Told(p)' /\ (audits[p] # <<>> => audits'[p] # <<>>)
    <3>1. audits[p] \in Seq(Audit) /\ Told(p) /\ payments[p] \in Row
      BY <1>t, ChainByParts DEF TypeOK
    <3>2. CASE p \in Expirable
      <4>1. audits'[p] = Append(audits[p], a) /\ payments'[p] = [payments[p] EXCEPT !.status = "expired"]
        BY <1>7, <3>2 DEF ExpirePayments
      <4>2. payments[p].status = "pending" /\ payments'[p].status = "expired"
        BY <3>1, <3>2, <4>1 DEF Expirable, Row
      <4> HIDE DEF a
      <4>3. audits[p] # <<>> /\ a.old = audits[p][Len(audits[p])].new
        BY <2>1, <3>1, <4>2 DEF Told, Last
      <4>4. Chained(audits'[p]) /\ audits'[p] # <<>> /\ audits'[p][Len(audits'[p])].new = "expired"
        BY <2>1, <3>1, <4>1, <4>3, AppendChained DEF Told
      <4> QED
        BY <4>2, <4>4 DEF Told, Last
    <3>3. CASE p \notin Expirable
      <4>1. audits'[p] = audits[p] /\ payments'[p] = payments[p]
        BY <1>7, <3>3 DEF ExpirePayments
      <4> QED
        BY <3>1, <4>1 DEF Told, Last
    <3> QED
      BY <3>2, <3>3
  <2>3. create' = create
    BY <1>7 DEF ExpirePayments
  <2> QED
    BY <1>t, <2>2, <2>3 DEF Trail, Saved, AuditChain, Told, Chained
<1>8. ASSUME NEW p \in Payments, CreatePayment(p) \/ CreateFails(p) PROVE Trail'
  BY <1>8, <1>1, <1>t DEF CreatePayment, CreateFails, tables, TypeOK
<1>9. CASE UNCHANGED <<payments, audits, create>>
  BY <1>1, <1>9
<1>10. \/ UNCHANGED <<payments, audits, create>>
       \/ \E p \in Payments : CreatePayment(p) \/ CreateFails(p) \/ SavePaymentWithAudit(p)
       \/ \E c \in Cancels : CancelMark(c) \/ CancelFinish(c)
       \/ \E d \in Deliveries : HookApply(d)
       \/ ExpirePayments
  BY DEF Next, CreateStep, CancelStep, HookStep, PassExpiry, ProviderCloses, CancelRead,
         CancelCall, CancelDies, HookRead, HookSkip, HookFails, tables, vars
<1> QED
  BY <1>3, <1>4, <1>5, <1>6, <1>7, <1>8, <1>9, <1>10
LEMMA TrailInvariant == Spec => [](Typed /\ Ledger /\ Trail)
<1>1. Init => Trail
  BY DEF Init, Trail, AuditChain, Saved, NoRow
<1>2. Typed /\ Ledger /\ Trail /\ [Next]_vars => Trail'
  BY NextTrail DEF Ledger
<1> QED
  BY <1>1, <1>2, LedgerInvariant, PTL DEF Spec

(* The audit trail of every payment ends in the row's status, and webhooks *)
(* and the expiry worker continue it without a gap, whatever stale cancel  *)
(* calls write in between (payment.go:327, expiry_worker.go:54).           *)
THEOREM AuditTrailIsChained == Spec => []AuditChain
<1>1. Typed /\ Ledger /\ Trail => AuditChain
  BY DEF Trail
<1> QED
  BY <1>1, TrailInvariant, PTL

(* Nothing is ever removed from a trail or changed in it.                  *)
LEMMA TrailsGrow ==
    ASSUME Typed, [Next]_vars, NEW p \in Payments, NEW i \in 1 .. Len(audits[p])
    PROVE  i \in 1 .. Len(audits'[p]) /\ audits'[p][i] = audits[p][i]
<1>1. audits \in [Payments -> Seq(Audit)] /\ audits[p] \in Seq(Audit)
  BY DEF Typed, TypeOK
<1>2. CASE audits'[p] = audits[p]
  BY <1>2
<1>3. ASSUME NEW a, audits'[p] = Append(audits[p], a)
      PROVE  i \in 1 .. Len(audits'[p]) /\ audits'[p][i] = audits[p][i]
  <2>1. audits[p] \in Seq(Audit \cup {a})
    BY <1>1
  <2> QED
    BY <1>3, <2>1
<1>4. ASSUME NEW q, NEW row, NEW event, NEW old, Update(q, row, event, old)
      PROVE  audits'[p] = audits[p] \/ \E a : audits'[p] = Append(audits[p], a)
  BY <1>1, <1>4 DEF Update
<1>5. CASE ExpirePayments
  BY <1>2, <1>3, <1>5 DEF ExpirePayments
<1>6. \/ UNCHANGED audits
      \/ \E q, row, event, old : Update(q, row, event, old)
      \/ ExpirePayments
  BY DEF Next, CreateStep, CancelStep, HookStep, CreatePayment, SavePaymentWithAudit,
         CreateFails, PassExpiry, ProviderCloses, CancelRead, CancelMark, CancelCall,
         CancelFinish, CancelDies, HookRead, HookSkip, HookApply, HookFails, tables, vars
<1> QED
  BY <1>2, <1>3, <1>4, <1>5, <1>6

LEMMA CreditsStay ==
    ASSUME Typed, Covered, [Next]_vars, NEW p, Credited(p)
    PROVE  Credited(p)'
<1>1. mutations \subseteq mutations'
  BY OnlyHooksWriteMoney, ApplyCredits DEF Credit, vars
<1> QED
  BY <1>1 DEF Credited

(* The row is final: either it is paid and credited, or its trail says how *)
(* it was closed.                                                          *)
Closed(p) == Credited(p) \/ \E i \in 1 .. Len(audits[p]) : audits[p][i].new \in Final \ {"paid"}

LEMMA FinalIsClosed ==
    ASSUME Typed, Ledger, Trail, NEW p \in Payments, payments[p].status \in Final
    PROVE  Closed(p)
<1>1. CASE payments[p].status = "paid"
  BY <1>1 DEF Ledger, PaidIsCredited, Closed
<1>2. CASE payments[p].status # "paid"
  <2>1. audits[p] # <<>> /\ audits[p][Len(audits[p])].new = payments[p].status
    BY DEF Trail, AuditChain, Last, Final
  <2>2. Len(audits[p]) \in 1 .. Len(audits[p])
    BY <2>1 DEF Typed, TypeOK
  <2> QED
    BY <1>2, <2>1, <2>2 DEF Closed
<1> QED
  BY <1>1, <1>2

LEMMA NextAcked ==
    Typed /\ Ledger /\ Trail /\ AckedPaidIsCredited /\ [Next]_vars => AckedPaidIsCredited'
<1> SUFFICES ASSUME Typed, Ledger, Trail, AckedPaidIsCredited, [Next]_vars,
                    NEW d \in Deliveries, hook'[d].pc = "acked", hook'[d].status = "paid",
                    NEW q, q = hook'[d].payment
             PROVE  Closed(q)'
  BY DEF AckedPaidIsCredited, Closed, Credited
<1>t. TypeOK /\ Calls /\ Covered /\ Typed'
  BY NextTyped DEF Typed, Ledger
<1>1. ASSUME NEW p \in Payments, Closed(p) PROVE Closed(p)'
  BY <1>1, <1>t, TrailsGrow, CreditsStay DEF Closed
<1>2. CASE hook'[d] = hook[d]
  <2>1. q \in Payments
    BY <1>2, <1>t DEF Calls
  <2>2. Closed(q)
    BY <1>2 DEF AckedPaidIsCredited, Closed
  <2> QED
    BY <1>1, <1>2, <2>1, <2>2
<1>3. ASSUME HookRead(d) PROVE Closed(q)'
  <2>1. PICK p \in Payments : \E s \in Reported(p) :
          hook' = [hook EXCEPT ![d] =
                      IF IsFinal(payments[p])
                      THEN [pc |-> "acked", payment |-> p, view |-> NoRow, status |-> s]
                      ELSE [pc |-> "read", payment |-> p, view |-> payments[p], status |-> s]]
    BY <1>3 DEF HookRead
  <2>2. IsFinal(payments[p]) /\ q = p
    BY <1>t, <2>1 DEF TypeOK
  <2> QED
    BY <1>1, <2>2, FinalIsClosed DEF IsFinal
<1>4. ASSUME HookSkip(d) PROVE Closed(q)'
  <2>1. hook'[d].payment = hook[d].payment
    BY <1>4, <1>t, HookEnds
  <2>2. q \in Payments /\ payments[q].status \in Final
    BY <1>4, <1>t, <2>1 DEF HookSkip, Calls, IsFinal
  <2> QED
    BY <1>1, <2>2, FinalIsClosed
<1>5. ASSUME HookApply(d) PROVE Closed(q)'
  <2>1. hook'[d].payment = hook[d].payment /\ hook[d].status = "paid"
    BY <1>5, <1>t, HookEnds
  <2>2. PICK fee \in 0 .. Amount :
          Credit([id |-> d, ref |-> q, fee |-> fee])
    BY <1>5, <1>t, <2>1, ApplyCredits
  <2>3. [id |-> d, ref |-> q, fee |-> fee] \in mutations'
    BY <2>2 DEF Credit
  <2>4. Credited(q)'
    BY <2>3 DEF Credited
  <2> QED
    BY <2>4 DEF Closed
<1>6. ASSUME HookFails(d) PROVE FALSE
  <2>1. hook'[d] = [hook[d] EXCEPT !.pc = "failed", !.view = NoRow]
    BY <1>6, <1>t DEF HookFails, TypeOK
  <2> QED
    BY <1>t, <2>1 DEF TypeOK, HookCalls
<1>7. hook'[d] = hook[d] \/ HookStep(d)
  <2>1. ASSUME NEW b \in Deliveries \ {d}, HookStep(b) PROVE hook'[d] = hook[d]
    BY <1>t, <2>1 DEF HookStep, HookRead, HookSkip, HookApply, HookFails, TypeOK
  <2>2. UNCHANGED hook \/ \E b \in Deliveries : HookStep(b)
    BY DEF Next, CreateStep, CancelStep, CreatePayment, SavePaymentWithAudit,
         CreateFails, PassExpiry, ProviderCloses, CancelRead, CancelMark, CancelCall,
         CancelFinish, CancelDies, ExpirePayments, vars
  <2> QED
    BY <2>1, <2>2
<1> QED
  BY <1>2, <1>3, <1>4, <1>5, <1>6, <1>7 DEF HookStep

(* An acknowledged "paid" webhook is credited unless the payment had been  *)
(* closed otherwise (payment.go:304, 321): no order of deliveries, stale   *)
(* cancel calls and sweeps loses the money silently.                       *)
THEOREM AcknowledgedPaymentsAreCredited == Spec => []AckedPaidIsCredited
<1>1. Init => AckedPaidIsCredited
  BY DEF Init, AckedPaidIsCredited
<1>2. (Typed /\ Ledger /\ Trail) /\ AckedPaidIsCredited /\ [Next]_vars => AckedPaidIsCredited'
  BY NextAcked
<1> QED
  BY <1>1, <1>2, TrailInvariant, PTL DEF Spec

-----------------------------------------------------------------------------
(* Time stamps                                                             *)

Unstamped(row) == ~row.paid_at /\ ~row.cancelled_at

(* What calls hold between their read and their write carries no time      *)
(* stamp, so that writing it back, however stale, leaves none behind.      *)
Stamps ==
    /\ StampsAgree
    /\ \A c \in Cancels :
          cancel[c].pc \in {"read", "marked", "answered"} => Unstamped(cancel[c].view)
    /\ \A d \in Deliveries : hook[d].pc = "read" => Unstamped(hook[d].view)

Stamped(row) == /\ row.paid_at => row.status = "paid"
                /\ row.cancelled_at => row.status = "cancelled"

LEMMA UpdateStamped ==
    ASSUME TypeOK, StampsAgree, NEW p \in Payments, NEW row, NEW event, NEW old,
           Update(p, row, event, old), Stamped(row)
    PROVE  StampsAgree'
<1>1. payments' = [payments EXCEPT ![p] = row]
  BY DEF Update
<1> QED
  BY <1>1 DEF StampsAgree, Stamped, TypeOK

LEMMA NextStamps == Typed /\ Stamps /\ [Next]_vars => Stamps'
<1> SUFFICES ASSUME Typed, Stamps, [Next]_vars PROVE Stamps'
  OBVIOUS
<1>t. TypeOK /\ Calls
  BY DEF Typed
<1>1. \A p \in Payments : Stamped(payments[p])
  BY DEF Stamps, StampsAgree, Stamped
<1>2. StampsAgree'
  <2>1. CASE UNCHANGED payments
    BY <2>1 DEF Stamps, StampsAgree
  <2>2. ASSUME NEW p \in Payments, SavePaymentWithAudit(p) PROVE StampsAgree'
    <3> DEFINE row == [NoRow EXCEPT !.status = "pending"]
    <3>1. Stamped(row)
      BY DEF Stamped, NoRow
    <3>2. Update(p, row, "PAYMENT_CREATED", "none")
      BY <2>2 DEF SavePaymentWithAudit
    <3> HIDE DEF row
    <3> QED
      BY <1>t, <3>1, <3>2, UpdateStamped DEF Stamps
  <2>3. ASSUME NEW c \in Cancels, CancelMark(c) PROVE StampsAgree'
    <3> DEFINE row == [cancel[c].view EXCEPT !.status = "cancelling"]
    <3>1. cancel[c].payment \in Payments /\ Unstamped(cancel[c].view) /\ cancel[c].view \in Row
      BY <1>t, <2>3 DEF CancelMark, Calls, Stamps, TypeOK, CancelCalls
    <3>2. Stamped(row)
      BY <3>1 DEF Stamped, Unstamped, Row
    <3>3. Update(cancel[c].payment, row, "STATUS_CHANGED", cancel[c].view.status)
      BY <2>3 DEF CancelMark
    <3> HIDE DEF row
    <3> QED
      BY <1>t, <3>1, <3>2, <3>3, UpdateStamped DEF Stamps
  <2>4. ASSUME NEW c \in Cancels, CancelFinish(c) PROVE StampsAgree'
    <3> DEFINE ok == cancel[c].ok
               row == [cancel[c].view EXCEPT !.status = IF ok THEN "cancelled" ELSE "pending",
                                             !.cancelled_at = ok]
    <3>1. /\ cancel[c].payment \in Payments
          /\ Unstamped(cancel[c].view)
          /\ cancel[c].view \in Row
          /\ ok \in BOOLEAN
      BY <1>t, <2>4 DEF CancelFinish, Calls, Stamps, TypeOK, CancelCalls
    <3>2. Stamped(row)
      BY <3>1 DEF Stamped, Unstamped, Row
    <3>3. Update(cancel[c].payment, row,
                 IF ok THEN "PAYMENT_CANCELLED" ELSE "STATUS_CHANGED", "cancelling")
      BY <2>4 DEF CancelFinish
    <3> HIDE DEF row, ok
    <3> QED
      BY <1>t, <3>1, <3>2, <3>3, UpdateStamped DEF Stamps
  <2>5. ASSUME NEW d \in Deliveries, HookApply(d) PROVE StampsAgree'
    <3> DEFINE s == hook[d].status
    <3>1. /\ hook[d].payment \in Payments
          /\ Unstamped(hook[d].view)
          /\ hook[d].view \in Row
      BY <1>t, <2>5 DEF HookApply, Calls, Stamps, TypeOK, HookCalls
    <3>2. PICK at \in BOOLEAN :
            Update(hook[d].payment, [hook[d].view EXCEPT !.status = s,
                                         !.paid_at = IF s = "paid" THEN at ELSE @],
                   "WEBHOOK_RECEIVED", payments[hook[d].payment].status)
      BY <2>5 DEF HookApply
    <3> DEFINE row == [hook[d].view EXCEPT !.status = s,
                                           !.paid_at = IF s = "paid" THEN at ELSE @]
    <3>3. Stamped(row)
      BY <3>1 DEF Stamped, Unstamped, Row
    <3>4. Update(hook[d].payment, row, "WEBHOOK_RECEIVED", payments[hook[d].payment].status)
      BY <3>2
    <3> HIDE DEF row, s
    <3> QED
      BY <1>t, <3>1, <3>3, <3>4, UpdateStamped DEF Stamps
  <2>6. CASE ExpirePayments
    <3>1. ASSUME NEW p \in Payments PROVE Stamped(payments'[p])
      <4>1. payments[p] \in Row /\ Stamped(payments[p])
        BY <1>1, <1>t DEF TypeOK
      <4>2. CASE p \in Expirable
        BY <2>6, <4>1, <4>2 DEF ExpirePayments, Expirable, Stamped, Row
      <4>3. CASE p \notin Expirable
        BY <2>6, <4>1, <4>3 DEF ExpirePayments
      <4> QED
        BY <4>2, <4>3
    <3> QED
      BY <3>1 DEF StampsAgree, Stamped
  <2>7. \/ UNCHANGED payments
        \/ \E p \in Payments : SavePaymentWithAudit(p)
        \/ \E c \in Cancels : CancelMark(c) \/ CancelFinish(c)
        \/ \E d \in Deliveries : HookApply(d)
        \/ ExpirePayments
    BY DEF Next, CreateStep, CancelStep, HookStep, CreatePayment, CreateFails, PassExpiry,
           ProviderCloses, CancelRead, CancelCall, CancelDies, HookRead, HookSkip,
           HookFails, tables, vars
  <2> QED
    BY <2>1, <2>2, <2>3, <2>4, <2>5, <2>6, <2>7
<1>3. ASSUME NEW c \in Cancels, cancel'[c].pc \in {"read", "marked", "answered"}
      PROVE  Unstamped(cancel'[c].view)
  <2>1. CASE cancel'[c] = cancel[c]
    BY <1>3, <2>1 DEF Stamps
  <2>2. CASE CancelRead(c)
    <3>1. PICK p \in Payments :
            /\ CanCancel(payments[p])
            /\ cancel' = [cancel EXCEPT ![c] =
                 [pc |-> "read", payment |-> p, view |-> payments[p], ok |-> FALSE]]
      BY <2>2 DEF CancelRead
    <3>2. cancel'[c].view = payments[p]
      BY <1>t, <3>1 DEF TypeOK
    <3> QED
      BY <1>1, <3>1, <3>2 DEF CanCancel, Stamped, Unstamped
  <2>3. CASE CancelMark(c)
    <3>1. cancel[c].pc = "read" /\ cancel[c].view \in Row
      BY <1>t, <2>3 DEF CancelMark, TypeOK, CancelCalls
    <3>2. cancel'[c].view = [cancel[c].view EXCEPT !.status = "cancelling"]
      BY <1>t, <2>3 DEF CancelMark, TypeOK, CancelCalls
    <3> QED
      BY <3>1, <3>2 DEF Stamps, Unstamped, Row
  <2>4. CASE CancelCall(c)
    <3>1. PICK ok \in BOOLEAN :
            cancel' = [cancel EXCEPT ![c].pc = "answered", ![c].ok = ok]
      BY <2>4 DEF CancelCall
    <3>2. cancel'[c].view = cancel[c].view
      BY <1>t, <3>1 DEF TypeOK, CancelCalls
    <3>3. cancel[c].pc = "marked"
      BY <2>4 DEF CancelCall
    <3> QED
      BY <3>2, <3>3 DEF Stamps
  <2>5. CASE CancelFinish(c) \/ CancelDies(c)
    <3>1. PICK pc \in {"done", "dead"} :
            cancel' = [cancel EXCEPT ![c].pc = pc, ![c].view = NoRow]
      BY <2>5 DEF CancelFinish, CancelDies
    <3>2. cancel'[c] = [cancel[c] EXCEPT !.pc = pc, !.view = NoRow]
      BY <1>t, <3>1 DEF TypeOK
    <3>3. cancel'[c].pc = pc
      BY <1>t, <3>2 DEF TypeOK, CancelCalls
    <3> QED
      BY <1>3, <3>3
  <2>6. cancel'[c] = cancel[c] \/ CancelStep(c)
    <3>1. ASSUME NEW b \in Cancels \ {c}, CancelStep(b) PROVE cancel'[c] = cancel[c]
      BY <1>t, <3>1 DEF CancelStep, CancelRead, CancelMark, CancelCall, CancelFinish,
                        CancelDies, TypeOK
    <3>2. UNCHANGED cancel \/ \E b \in Cancels : CancelStep(b)
      BY DEF Next, CreateStep, HookStep, CreatePayment, SavePaymentWithAudit, CreateFails,
             PassExpiry, ProviderCloses, HookRead, HookSkip, HookApply, HookFails,
             ExpirePayments, vars
    <3> QED
      BY <3>1, <3>2
  <2> QED
    BY <2>1, <2>2, <2>3, <2>4, <2>5, <2>6 DEF CancelStep
<1>4. ASSUME NEW d \in Deliveries, hook'[d].pc = "read"
      PROVE  Unstamped(hook'[d].view)
  <2>1. CASE hook'[d] = hook[d]
    BY <1>4, <2>1 DEF Stamps
  <2>2. CASE HookRead(d)
    <3>1. PICK p \in Payments : \E s \in Reported(p) :
            /\ payments[p].status # "none"
            /\ hook' = [hook EXCEPT ![d] =
                      IF IsFinal(payments[p])
                      THEN [pc |-> "acked", payment |-> p, view |-> NoRow, status |-> s]
                      ELSE [pc |-> "read", payment |-> p, view |-> payments[p], status |-> s]]
      BY <2>2 DEF HookRead
    <3>2. ~IsFinal(payments[p]) /\ hook'[d].view = payments[p]
      BY <1>4, <1>t, <3>1 DEF TypeOK
    <3> QED
      BY <1>1, <3>2 DEF IsFinal, Final, Stamped, Unstamped
  <2>3. CASE HookSkip(d) \/ HookApply(d) \/ HookFails(d)
    BY <1>4, <1>t, <2>3, HookEnds
  <2>4. hook'[d] = hook[d] \/ HookStep(d)
    <3>1. ASSUME NEW b \in Deliveries \ {d}, HookStep(b) PROVE hook'[d] = hook[d]
      BY <1>t, <3>1 DEF HookStep, HookRead, HookSkip, HookApply, HookFails, TypeOK
    <3>2. UNCHANGED hook \/ \E b \in Deliveries : HookStep(b)
      BY DEF Next, CreateStep, CancelStep, CreatePayment, SavePaymentWithAudit,
         CreateFails, PassExpiry, ProviderCloses, CancelRead, CancelMark, CancelCall,
         CancelFinish, CancelDies, ExpirePayments, vars
    <3> QED
      BY <3>1, <3>2
  <2> QED
    BY <2>1, <2>2, <2>3, <2>4 DEF HookStep
<1> QED
  BY <1>2, <1>3, <1>4 DEF Stamps

(* A row never carries a time stamp of a status it has left: paid_at only  *)
(* on a paid row, cancelled_at only on a cancelled one, although calls     *)
(* write back whole rows they read earlier (payment.go:253-281, 323-338).  *)
THEOREM StampsFollowTheStatus == Spec => []StampsAgree
<1>1. Init => Stamps
  BY DEF Init, Stamps, StampsAgree, NoRow
<1>2. Typed /\ Stamps /\ [Next]_vars => Stamps'
  BY NextStamps
<1>3. Stamps => StampsAgree
  BY DEF Stamps
<1>4. Spec => []Typed
  BY InitTyped, NextTyped, PTL DEF Spec
<1> QED
  BY <1>1, <1>2, <1>3, <1>4, PTL DEF Spec
=============================================================================
