------------------------------ MODULE Payment ------------------------------
(***************************************************************************)
(* The life of payments (internal/usecase/impl/payment.go and the expiry   *)
(* worker): creation at the provider and in the database, cancel calls,    *)
(* webhook deliveries and the expiry sweep, all running concurrently.      *)
(*                                                                         *)
(* One action stands for one database transaction, one statement outside a *)
(* transaction, or one call to the provider.  A transaction is a single    *)
(* step because every one of them writes the payment row it is about (or   *)
(* locks it FOR UPDATE) before anything else, so two transactions on one   *)
(* payment are serialised by that row's lock.  What a call read BEFORE its *)
(* transaction is kept in its record as "view" and may be stale; a call    *)
(* that has ended forgets it.                                              *)
(*                                                                         *)
(* A call that fails (database error, cancelled request context, crash)    *)
(* stops where it is: a transaction in progress is rolled back.            *)
(***************************************************************************)
EXTENDS Naturals, Sequences

CONSTANTS Payments,     \* payment ids
          Cancels,      \* CancelPayment calls
          Deliveries,   \* webhook HTTP requests (a redelivery is another one)
          NoPayment,    \* the payment of a call that has not started
          Amount,       \* gross amount of every payment
          Fees          \* what FeeResolver.Resolve may answer

ASSUME PaymentAssumption ==
    /\ NoPayment \notin Payments
    /\ Amount \in Nat \ {0}
    /\ Fees \subseteq Nat

VARIABLES payments,     \* table payments
          audits,       \* table payment_audits, per payment in commit order
          mutations,    \* table mutations (cash_in rows)
          outbox,       \* table outbox (rows inserted for payments)
          due,          \* payments whose expiry_at has passed
          provider,     \* the payment at the provider
          create,       \* CreateVA / CreateQRIS call of each payment
          cancel,       \* CancelPayment calls
          hook          \* HandleWebhook calls

tables == <<payments, audits, mutations, outbox>>
vars == <<payments, audits, mutations, outbox, due, provider, create, cancel, hook>>

Final  == {"paid", "expired", "failed", "cancelled"}
Open   == {"pending", "cancelling"}
Status == Final \cup Open

(* The columns UpdatePaymentStatus writes; a timestamp is set or NULL.     *)
Row == [status : Status \cup {"none"}, paid_at : BOOLEAN,
        cancelled_at : BOOLEAN, fee_amount : Nat]

NoRow == [status |-> "none", paid_at |-> FALSE, cancelled_at |-> FALSE,
          fee_amount |-> 0]

Audit == [event : {"PAYMENT_CREATED", "STATUS_CHANGED", "WEBHOOK_RECEIVED",
                   "PAYMENT_CANCELLED", "PAYMENT_EXPIRED"},
          old : Status \cup {"none"}, new : Status]

CancelCalls == [pc : {"idle", "read", "marked", "answered", "done", "dead"},
                payment : Payments \cup {NoPayment}, view : Row, ok : BOOLEAN]

HookCalls == [pc : {"idle", "read", "acked", "failed"},
              payment : Payments \cup {NoPayment}, view : Row,
              status : Status \cup {"none"}]

(* Mutant: a payment being cancelled counts as closed. *)
CancellingIsFinal(row) == row.status \in Final \cup {"cancelling"}
(* Mutant: a failed payment may still be retried. *)
FailedIsNotFinal(row) == row.status \in Final \ {"failed"}

IsFinal(row)   == row.status \in Final
CanCancel(row) == row.status = "pending"

Init ==
    /\ payments = [p \in Payments |-> NoRow]
    /\ audits = [p \in Payments |-> <<>>]
    /\ mutations = {}
    /\ outbox = {}
    /\ due = {}
    /\ provider = [p \in Payments |-> "none"]
    /\ create = [p \in Payments |-> "new"]
    /\ cancel = [c \in Cancels |-> 
           [pc |-> "idle", payment |-> NoPayment, view |-> NoRow, ok |-> FALSE]]
    /\ hook = [d \in Deliveries |-> 
           [pc |-> "idle", payment |-> NoPayment, view |-> NoRow, status |-> "none"]]

-----------------------------------------------------------------------------
(* The transaction bodies                                                  *)

(* paymentRepo.Update together with auditRepo.Save: the row is overwritten *)
(* with what the caller holds, whatever the table says by now.             *)
Update(p, row, event, old) ==
    /\ payments' = [payments EXCEPT ![p] = row]
    /\ audits' = [audits EXCEPT ![p] =
                    Append(@, [event |-> event, old |-> old, new |-> row.status])]

Credited(p) == \E m \in mutations : m.ref = p

(* Mutants: a table without one of its constraints, an insert that ignores *)
(* a violated one.                                                         *)
SaveMutationNoUnique(d, p, fee) ==
    /\ fee <= Amount
    /\ mutations' = mutations \cup {[id |-> d, ref |-> p, fee |-> fee]}
SaveMutationOnConflictDoNothing(d, p, fee) ==
    /\ fee <= Amount
    /\ mutations' = IF Credited(p) THEN mutations
                    ELSE mutations \cup {[id |-> d, ref |-> p, fee |-> fee]}
SaveMutationErrorIgnored(d, p, fee) ==
    /\ ~Credited(p)
    /\ mutations' = mutations \cup
          {m \in {[id |-> d, ref |-> p, fee |-> fee]} : fee <= Amount}

(* mutationRepo.Save under UNIQUE(reference_id, reference_type) and        *)
(* CHECK (fee_amount <= amount).                                           *)
SaveMutation(d, p, fee) ==
    /\ ~Credited(p)
    /\ fee <= Amount
    /\ mutations' = mutations \cup {[id |-> d, ref |-> p, fee |-> fee]}

InsertOutbox(d, p, status, fee) ==
    outbox' = outbox \cup {[id |-> d, ref |-> p, status |-> status, fee |-> fee]}

-----------------------------------------------------------------------------
(* CreateVA and CreateQRIS                                                 *)

(* The request passed the checks on the merchant and the provider accepted *)
(* the payment.  A rejected request, or one the provider refuses, changes  *)
(* nothing.                                                                *)
CreatePayment(p) ==
    /\ create[p] = "new"
    /\ create' = [create EXCEPT ![p] = "called"]
    /\ provider' = [provider EXCEPT ![p] = "open"]
    /\ UNCHANGED <<tables, due, cancel, hook>>

SavePaymentWithAudit(p) ==
    /\ create[p] = "called"
    /\ create' = [create EXCEPT ![p] = "saved"]
    /\ Update(p, [NoRow EXCEPT !.status = "pending"], "PAYMENT_CREATED", "none")
    /\ UNCHANGED <<mutations, outbox, due, provider, cancel, hook>>

(* The answer of the provider is lost or the save fails: the payment lives *)
(* on at the provider and has no row here.                                 *)
CreateFails(p) ==
    /\ create[p] = "called"
    /\ create' = [create EXCEPT ![p] = "failed"]
    /\ UNCHANGED <<tables, due, provider, cancel, hook>>

-----------------------------------------------------------------------------
(* CancelPayment: two transactions with the provider call between them     *)

CancelRead(c) ==
    /\ cancel[c].pc = "idle"
    /\ \E p \in Payments :
        /\ CanCancel(payments[p])
        /\ cancel' = [cancel EXCEPT ![c] =
                        [pc |-> "read", payment |-> p, view |-> payments[p], ok |-> FALSE]]
    /\ UNCHANGED <<tables, due, provider, create, hook>>

(* A call that dies before this transaction has left no trace: it simply   *)
(* stays at "read".                                                        *)
CancelMark(c) ==
    LET p == cancel[c].payment
        row == [cancel[c].view EXCEPT !.status = "cancelling"]
    IN  /\ cancel[c].pc = "read"
        /\ cancel' = [cancel EXCEPT ![c].pc = "marked", ![c].view = row]
        /\ Update(p, row, "STATUS_CHANGED", cancel[c].view.status)
        /\ UNCHANGED <<mutations, outbox, due, provider, create, hook>>

(* The provider cancels an open payment or does nothing.  The answer says  *)
(* either, whichever it did: it may get lost, and the adapter of DOKU      *)
(* takes every answer for a success (doku.go:179-186).                     *)
CancelCall(c) ==
    LET p == cancel[c].payment
    IN  /\ cancel[c].pc = "marked"
        /\ \/ UNCHANGED provider
           \/ provider[p] = "open" /\ provider' = [provider EXCEPT ![p] = "cancelled"]
        /\ \E ok \in BOOLEAN : cancel' = [cancel EXCEPT ![c].pc = "answered", ![c].ok = ok]
        /\ UNCHANGED <<tables, due, create, hook>>

(* Mutant: the error of the provider is returned without the revert. *)
CancelFinishNoRevert(c) ==
    LET p == cancel[c].payment
        row == [cancel[c].view EXCEPT !.status = "cancelled", !.cancelled_at = TRUE]
    IN  /\ cancel[c].pc = "answered"
        /\ cancel' = [cancel EXCEPT ![c].pc = "done", ![c].view = NoRow]
        /\ IF cancel[c].ok THEN Update(p, row, "PAYMENT_CANCELLED", "cancelling")
                           ELSE UNCHANGED <<payments, audits>>
        /\ UNCHANGED <<mutations, outbox, due, provider, create, hook>>

CancelFinish(c) ==
    LET p == cancel[c].payment
        ok == cancel[c].ok
        row == [cancel[c].view EXCEPT !.status = IF ok THEN "cancelled" ELSE "pending",
                                      !.cancelled_at = ok]
    IN  /\ cancel[c].pc = "answered"
        /\ cancel' = [cancel EXCEPT ![c].pc = "done", ![c].view = NoRow]
        /\ Update(p, row, IF ok THEN "PAYMENT_CANCELLED" ELSE "STATUS_CHANGED", "cancelling")
        /\ UNCHANGED <<mutations, outbox, due, provider, create, hook>>

(* The call ends after its first transaction and before its second: crash, *)
(* cancelled request context, database error, gateway no longer configured.*)
CancelDies(c) ==
    /\ cancel[c].pc \in {"marked", "answered"}
    /\ cancel' = [cancel EXCEPT ![c].pc = "dead", ![c].view = NoRow]
    /\ UNCHANGED <<tables, due, provider, create, hook>>

-----------------------------------------------------------------------------
(* HandleWebhook                                                           *)

(* Mutant: an authorized payment is reported as paid. *)
ReportedAuthorizedAsPaid(p) == {"pending", "failed", "paid"} \cup (Final \cap {provider[p]})

(* The statuses a (possibly late or repeated) webhook of the provider maps *)
(* to.  Every adapter maps a provider status it does not know to "failed". *)
Reported(p) == {"pending", "failed"} \cup (Final \cap {provider[p]})

(* The read outside the transaction.  A webhook for a payment without a    *)
(* row is answered with an error and changes nothing.                      *)
HookRead(d) ==
    /\ hook[d].pc = "idle"
    /\ \E p \in Payments : \E s \in Reported(p) :
        /\ provider[p] # "none"
        /\ payments[p].status # "none"
        /\ hook' = [hook EXCEPT ![d] =
                      IF IsFinal(payments[p])
                      THEN [pc |-> "acked", payment |-> p, view |-> NoRow, status |-> s]
                      ELSE [pc |-> "read", payment |-> p, view |-> payments[p], status |-> s]]
    /\ UNCHANGED <<tables, due, provider, create, cancel>>

(* The transaction, when the fresh row turns out to be final.              *)
HookSkip(d) ==
    /\ hook[d].pc = "read"
    /\ IsFinal(payments[hook[d].payment])
    /\ hook' = [hook EXCEPT ![d].pc = "acked", ![d].view = NoRow]
    /\ UNCHANGED <<tables, due, provider, create, cancel>>

(* The transaction otherwise: the row read outside it, with the reported   *)
(* status, replaces the fresh one.  Only Midtrans reports a time of        *)
(* payment, and not always.  A fee that cannot be resolved is zero.        *)
HookApply(d) ==
    LET p == hook[d].payment
        s == hook[d].status
    IN  /\ hook[d].pc = "read"
        /\ ~IsFinal(payments[p])
        /\ hook' = [hook EXCEPT ![d].pc = "acked", ![d].view = NoRow]
        /\ \E at \in BOOLEAN :
              Update(p, [hook[d].view EXCEPT !.status = s,
                                             !.paid_at = IF s = "paid" THEN at ELSE @],
                     "WEBHOOK_RECEIVED", payments[p].status)
        /\ \/ /\ s = "paid"
              /\ \E fee \in Fees \cup {0} :
                    SaveMutation(d, p, fee) /\ InsertOutbox(d, p, s, fee)
           \/ /\ s # "paid"
              /\ InsertOutbox(d, p, s, 0)
              /\ UNCHANGED mutations
        /\ UNCHANGED <<due, provider, create, cancel>>

(* The handler answers with an error, its transaction rolled back: the     *)
(* merchant is gone, a constraint is violated, the database or the process *)
(* fails.                                                                  *)
HookFails(d) ==
    /\ hook[d].pc = "read"
    /\ hook' = [hook EXCEPT ![d].pc = "failed", ![d].view = NoRow]
    /\ UNCHANGED <<tables, due, provider, create, cancel>>

-----------------------------------------------------------------------------
(* The expiry sweep, one statement for all payments that are due           *)

(* Mutant: the sweep also takes the payments being cancelled. *)
ExpirableOpen == {p \in due : payments[p].status \in Open}

Expirable == {p \in due : payments[p].status = "pending"}

ExpirePayments ==
    /\ Expirable # {}
    /\ payments' = [p \in Payments |->
          IF p \in Expirable THEN [payments[p] EXCEPT !.status = "expired"] ELSE payments[p]]
    /\ audits' = [p \in Payments |->
          IF p \in Expirable
          THEN Append(audits[p], [event |-> "PAYMENT_EXPIRED", old |-> "pending", new |-> "expired"])
          ELSE audits[p]]
    /\ UNCHANGED <<mutations, outbox, due, provider, create, cancel, hook>>

-----------------------------------------------------------------------------
(* Time, and the payment's own life at the provider                        *)

PassExpiry(p) ==
    /\ p \notin due
    /\ provider[p] # "none"
    /\ due' = due \cup {p}
    /\ UNCHANGED <<tables, provider, create, cancel, hook>>

ProviderCloses(p) ==
    /\ provider[p] = "open"
    /\ \E s \in Final : provider' = [provider EXCEPT ![p] = s]
    /\ UNCHANGED <<tables, due, create, cancel, hook>>

-----------------------------------------------------------------------------
CreateStep(p) == CreatePayment(p) \/ SavePaymentWithAudit(p) \/ CreateFails(p)

CancelStep(c) ==
    CancelRead(c) \/ CancelMark(c) \/ CancelCall(c) \/ CancelFinish(c) \/ CancelDies(c)

HookStep(d) == HookRead(d) \/ HookSkip(d) \/ HookApply(d) \/ HookFails(d)

Next ==
    \/ \E p \in Payments : CreateStep(p) \/ PassExpiry(p) \/ ProviderCloses(p)
    \/ \E c \in Cancels : CancelStep(c)
    \/ \E d \in Deliveries : HookStep(d)
    \/ ExpirePayments

Spec == Init /\ [][Next]_vars

(* The worker sweeps every minute.  A cancel call that has passed its      *)
(* first transaction goes on, or dies; nobody promises that merchants      *)
(* call, that providers answer a webhook, or that a delivery is applied.   *)
Fairness ==
    /\ WF_vars(ExpirePayments)
    /\ \A c \in Cancels : WF_vars(CancelCall(c) \/ CancelFinish(c) \/ CancelDies(c))

FairSpec == Spec /\ Fairness

-----------------------------------------------------------------------------
(* Properties                                                              *)

(* Every variable stays within its type.                                   *)
TypeOK ==
    /\ payments \in [Payments -> Row]
    /\ audits \in [Payments -> Seq(Audit)]
    /\ mutations \subseteq [id : Deliveries, ref : Payments, fee : 0 .. Amount]
    /\ outbox \subseteq [id : Deliveries, ref : Payments, status : Status, fee : 0 .. Amount]
    /\ due \subseteq Payments
    /\ provider \in [Payments -> Final \cup {"none", "open"}]
    /\ create \in [Payments -> {"new", "called", "saved", "failed"}]
    /\ cancel \in [Cancels -> CancelCalls]
    /\ hook \in [Deliveries -> HookCalls]

Last(p) == audits[p][Len(audits[p])]

(* The audit trail tells the row's history: its last entry is the row's    *)
(* status, and an entry written by a webhook or by the expiry worker       *)
(* continues the entry before it, whatever cancel calls did in between     *)
(* (payment.go:327, expiry_worker.go:54).                                  *)
AuditChain ==
    \A p \in Payments :
        /\ payments[p].status = (IF audits[p] = <<>> THEN "none" ELSE Last(p).new)
        /\ \A i \in 1 .. Len(audits[p]) :
              audits[p][i].event \in {"WEBHOOK_RECEIVED", "PAYMENT_EXPIRED"} =>
                  i > 1 /\ audits[p][i].old = audits[p][i-1].new

(* A payment is credited at most once, even when a stale cancel call has   *)
(* reopened a paid payment and the provider repeats its webhook            *)
(* (payment.go:351, the unique index of migrations/000002_schema.up.sql).  *)
CreditOnce ==
    \A m, n \in mutations : m.ref = n.ref => m = n

(* A payment shown as paid has its entry in the merchant's ledger: no      *)
(* order of webhooks and failures marks it paid without the credit         *)
(* (payment.go:323-363).                                                   *)
PaidIsCredited ==
    \A p \in Payments : payments[p].status = "paid" => Credited(p)

PaidNotices == {n \in outbox : n.status = "paid"}

(* Exactly the credited payments are announced as paid, once each and with *)
(* the fee that was booked: ledger and outbox are written by the same      *)
(* transaction (payment.go:313-392, README.md:89).                         *)
NoticeMatchesCredit ==
    {[id |-> n.id, ref |-> n.ref, fee |-> n.fee] : n \in PaidNotices} = mutations

(* A "paid" webhook that was acknowledged, so that the provider will not   *)
(* send it again, has credited the merchant, unless the payment had been   *)
(* closed here otherwise at some point (payment.go:304, 321).              *)
AckedPaidIsCredited ==
    \A d \in Deliveries :
        hook[d].pc = "acked" /\ hook[d].status = "paid" =>
            \/ Credited(hook[d].payment)
            \/ \E i \in 1 .. Len(audits[hook[d].payment]) :
                  audits[hook[d].payment][i].new \in Final \ {"paid"}

(* No overwrite with a stale row leaves a time stamp of another status     *)
(* behind: paid_at belongs to a paid row, cancelled_at to a cancelled one. *)
StampsAgree ==
    \A p \in Payments :
        /\ payments[p].paid_at => payments[p].status = "paid"
        /\ payments[p].cancelled_at => payments[p].status = "cancelled"

(* A row in a final status is changed by nobody but a cancel call that had *)
(* read it while it was pending: webhooks and the expiry worker look at    *)
(* the fresh row under its lock.                                           *)
FinalLostOnlyToCancel ==
    [][\A p \in Payments :
         payments[p].status \in Final /\ payments'[p] # payments[p] =>
             \E c \in Cancels :
                /\ cancel[c].payment = p
                /\ cancel[c].pc \in {"read", "answered"}
                /\ cancel'[c].pc # cancel[c].pc]_vars

(* The abstract specification: what the provider collected, what the       *)
(* ledger credits and what the outbox announces.                           *)
Abstract == INSTANCE Settlement WITH
    Transfers <- Payments,
    Ids <- Deliveries,
    Charges <- 0 .. Amount,
    settled <- {p \in Payments : provider[p] = "paid"},
    entries <- mutations,
    notices <- {[id |-> n.id, ref |-> n.ref, fee |-> n.fee] : n \in PaidNotices}

(* Payments, with all their races, do no more with money than Settlement:  *)
(* an entry only for money the provider holds, once, with its event.       *)
ImplementsSettlement == Abstract!Spec

(* An open payment whose expiry has passed is closed in the end, unless a  *)
(* cancel call died between its two transactions (the case payment.go:220  *)
(* leaves to the operators).                                               *)
PaymentIsSettled ==
    \A p \in Payments :
        (payments[p].status \in Open /\ p \in due)
            ~> \/ payments[p].status \in Final
               \/ \E c \in Cancels : cancel[c].payment = p /\ cancel[c].pc = "dead"

-----------------------------------------------------------------------------
(* What the documentation says and the code does not do                    *)

(* entity/payment.go:53 "immutable once in a final state".                 *)
FinalIsImmutable ==
    [][\A p \in Payments :
         payments[p].status \in Final => payments'[p].status = payments[p].status]_vars

(* README.md:480: the cancelling status "prevents double-cancel races".    *)
OneCancelInFlight ==
    \A b, c \in Cancels :
        /\ cancel[b].pc \in {"marked", "answered"}
        /\ cancel[c].pc \in {"marked", "answered"}
        /\ cancel[b].payment = cancel[c].payment
        => b = c

(* entity/payment.go:66: fee_amount is "populated on webhook receipt".     *)
FeeIsRecorded ==
    \A p \in Payments : \A m \in mutations :
        payments[p].status = "paid" /\ m.ref = p => payments[p].fee_amount = m.fee
=============================================================================
