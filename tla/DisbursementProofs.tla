------------------------- MODULE DisbursementProofs -------------------------
(***************************************************************************)
(* Theorems about Disbursement, for any number of calls and callbacks and  *)
(* any amounts and fees: what the steps do to a row, to the ledger and to  *)
(* the outbox, what the sums of a reservation are and what they bound.     *)
(***************************************************************************)
EXTENDS Disbursement, FiniteSetTheorems, WellFoundedInduction, TLAPS

-----------------------------------------------------------------------------
(* Types                                                                   *)

Charge == Fees \cup {0}

Row == [status : Status \cup {"none"}, amount : Nat, fee : Charge, ext : BOOLEAN,
        today : BOOLEAN]

Early == {"idle", "balance", "summed", "checked", "rejected"}

Call == [pc : Early \cup {"reserved", "answered", "done"}, amount : Nat, fee : Charge,
         answer : Status \cup {"none", "error"}]

CallbackCall == [pc : {"idle", "read", "acked", "failed"}, ref : Disbursements \cup {NoRef},
                 status : Status \cup {"none"}]

(* TypeOK, without the balances read and with the fees that there are; and *)
(* what a callback under way is about.                                     *)
Typed ==
    /\ rows \in [Disbursements -> Row]
    /\ ledger \subseteq [id : Callbacks, ref : Disbursements, amount : Nat]
    /\ outbox \subseteq [id : Callbacks, ref : Disbursements, status : Status, fee : Charge]
    /\ provider \in [Disbursements -> Final \cup {"none", "open"}]
    /\ call \in [Disbursements -> Call]
    /\ callback \in [Callbacks -> CallbackCall]
    /\ \A c \in Callbacks :
          callback[c].pc # "idle" => callback[c].ref \in Disbursements /\ callback[c].status \in Status

LEMMA InitTyped == Init => Typed
BY DEF Init, Typed, Row, NoRow, Call, CallbackCall, Charge, Early, Status, Open, Final

(* A call that goes on, and a row with another status.                     *)
LEMMA CallGoesOn ==
    ASSUME Typed, NEW d \in Disbursements,
           NEW pc \in Early \cup {"reserved", "answered", "done"},
           NEW answer \in Status \cup {"none", "error"}
    PROVE  /\ [call EXCEPT ![d].pc = pc] \in [Disbursements -> Call]
           /\ [call EXCEPT ![d].pc = pc, ![d].answer = answer] \in [Disbursements -> Call]
<1>1. call[d] \in Call
  BY DEF Typed
<1>2. [call[d] EXCEPT !.pc = pc] \in Call
  BY <1>1, Zenon DEF Call
<1>3. [call[d] EXCEPT !.pc = pc, !.answer = answer] \in Call
  BY <1>1, Zenon DEF Call
<1> QED
  BY <1>2, <1>3 DEF Typed

LEMMA RowGoesOn ==
    ASSUME Typed, NEW d \in Disbursements, NEW s \in Status
    PROVE  /\ [rows EXCEPT ![d].status = s] \in [Disbursements -> Row]
           /\ [rows EXCEPT ![d].status = s, ![d].ext = TRUE] \in [Disbursements -> Row]
<1>1. rows[d] \in Row
  BY DEF Typed
<1>2. [rows[d] EXCEPT !.status = s] \in Row
  BY <1>1, Zenon DEF Row
<1>3. [rows[d] EXCEPT !.status = s, !.ext = TRUE] \in Row
  BY <1>1, Zenon DEF Row
<1> QED
  BY <1>2, <1>3 DEF Typed

LEMMA ReserveTyped ==
    ASSUME Typed, NEW d \in Disbursements,
           \/ LockAndReadBalance(d) \/ SumPending(d) \/ CheckLimit(d) \/ ReserveFails(d)
           \/ InsertReserved(d)
    PROVE  Typed'
<1>1. CASE LockAndReadBalance(d)
  <2>1. PICK a \in Amounts, fee \in Charge :
          call' = [call EXCEPT ![d] = [pc |-> "balance", amount |-> a, fee |-> fee,
                                       answer |-> "none"]]
    BY <1>1 DEF LockAndReadBalance, Charge
  <2>2. a \in Nat
    BY DisbursementAssumption
  <2>3. [pc |-> "balance", amount |-> a, fee |-> fee, answer |-> "none"] \in Call
    BY <2>2 DEF Call, Early
  <2> QED
    BY <1>1, <2>1, <2>3 DEF LockAndReadBalance, Typed
<1>2. CASE SumPending(d) \/ CheckLimit(d) \/ ReserveFails(d)
  <2>1. PICK pc \in {"rejected", "summed", "checked"} : call' = [call EXCEPT ![d].pc = pc]
    BY <1>2 DEF SumPending, CheckLimit, ReserveFails
  <2>2. call' \in [Disbursements -> Call]
    BY <2>1, CallGoesOn DEF Early
  <2> QED
    BY <1>2, <2>2 DEF SumPending, CheckLimit, ReserveFails, Typed
<1>3. CASE InsertReserved(d)
  <2> DEFINE r == [status |-> "pending", amount |-> call[d].amount, fee |-> call[d].fee,
                   ext |-> FALSE, today |-> TRUE]
  <2>1. call[d] \in Call
    BY DEF Typed
  <2>2. r \in Row
    BY <2>1 DEF Call, Row, Status, Open
  <2>3. call' \in [Disbursements -> Call]
    BY <1>3, CallGoesOn DEF InsertReserved, Early
  <2> QED
    BY <1>3, <2>2, <2>3 DEF InsertReserved, Typed
<1> QED
  BY <1>1, <1>2, <1>3

LEMMA PayoutTyped ==
    ASSUME Typed, NEW d \in Disbursements,
           CallProvider(d) \/ StoreAnswer(d) \/ ProviderSettles(d)
    PROVE  Typed'
<1>1. CASE CallProvider(d)
  <2>1. PICK s \in Status \cup {"error"}, fate \in Final \cup {"none", "open"} :
          /\ call' = [call EXCEPT ![d].pc = "answered", ![d].answer = s]
          /\ provider' = [provider EXCEPT ![d] = fate]
    BY <1>1 DEF CallProvider, Status, Final
  <2>2. call' \in [Disbursements -> Call]
    BY <2>1, CallGoesOn
  <2> QED
    BY <1>1, <2>1, <2>2 DEF CallProvider, Typed
<1>2. CASE StoreAnswer(d)
  <2>1. call[d].answer \in Status \cup {"none", "error"}
    BY DEF Typed, Call
  <2>2. call' \in [Disbursements -> Call]
    BY <1>2, CallGoesOn DEF StoreAnswer
  <2>3. rows' \in [Disbursements -> Row]
    <3>1. CASE call[d].answer = "error"
      BY <1>2, <3>1, RowGoesOn DEF StoreAnswer, Status, Final
    <3>2. CASE call[d].answer \in Status
      BY <1>2, <3>2, RowGoesOn DEF StoreAnswer, Status, Open, Final
    <3>3. CASE call[d].answer = "none"
      <4>1. rows[d] \in Row
        BY DEF Typed
      <4>2. [rows[d] EXCEPT !.status = "none", !.ext = TRUE] \in Row
        BY <4>1, Zenon DEF Row
      <4> QED
        BY <1>2, <3>3, <4>2 DEF StoreAnswer, Typed
    <3> QED
      BY <2>1, <3>1, <3>2, <3>3
  <2> QED
    BY <1>2, <2>2, <2>3 DEF StoreAnswer, Typed
<1>3. CASE ProviderSettles(d)
  BY <1>3 DEF ProviderSettles, Typed
<1> QED
  BY <1>1, <1>2, <1>3

LEMMA CallbackTyped ==
    ASSUME Typed, NEW c \in Callbacks, CallbackStep(c)
    PROVE  Typed'
<1>0. callback[c] \in CallbackCall
  BY DEF Typed
<1>1. CASE CallbackRead(c)
  <2>1. PICK d \in Disbursements, s \in Status, pc \in {"acked", "read"} :
          callback' = [callback EXCEPT ![c] = [pc |-> pc, ref |-> d, status |-> s]]
    BY <1>1 DEF CallbackRead, Reported, Status, Open, Final
  <2>3. [pc |-> pc, ref |-> d, status |-> s] \in CallbackCall
    BY DEF CallbackCall
  <2> QED
    BY <1>1, <2>1, <2>3 DEF CallbackRead, Typed
<1>2. CASE CallbackApply(c)
  <2> DEFINE d == callback[c].ref
             s == callback[c].status
  <2>1. d \in Disbursements /\ s \in Status
    BY <1>2 DEF CallbackApply, Typed
  <2>2. rows[d] \in Row
    BY <2>1 DEF Typed
  <2>3. /\ callback' = [callback EXCEPT ![c].pc = "acked"]
        /\ rows' = [rows EXCEPT ![d].status = s]
        /\ outbox' = outbox \cup {[id |-> c, ref |-> d, status |-> s, fee |-> rows[d].fee]}
        /\ \/ ledger' = ledger
           \/ ledger' = ledger \cup
                {[id |-> c, ref |-> d, amount |-> rows[d].amount + rows[d].fee]}
        /\ UNCHANGED <<provider, call, seen>>
    BY <1>2 DEF CallbackApply, SaveMutation
  <2> HIDE DEF d, s
  <2>4. rows[d].fee \in Charge /\ rows[d].amount + rows[d].fee \in Nat
    <3>1. rows[d].fee \in Charge /\ rows[d].amount \in Nat
      BY <2>2 DEF Row
    <3>2. Charge \subseteq Nat
      BY DisbursementAssumption DEF Charge
    <3>3. rows[d].fee \in Nat
      BY <3>1, <3>2
    <3>4. \A x, y \in Nat : x + y \in Nat
      OBVIOUS
    <3> QED
      BY <3>1, <3>3, <3>4, Zenon
  <2>5. rows' \in [Disbursements -> Row]
    BY <2>1, <2>3, RowGoesOn
  <2>6. [callback[c] EXCEPT !.pc = "acked"] \in CallbackCall
    BY <1>0, Zenon DEF CallbackCall
  <2> QED
    BY <2>1, <2>3, <2>4, <2>5, <2>6, <1>0, <1>2 DEF Typed, CallbackCall, CallbackApply
<1>3. CASE CallbackFails(c)
  <2>1. [callback[c] EXCEPT !.pc = "failed"] \in CallbackCall
    BY <1>0, Zenon DEF CallbackCall
  <2> QED
    BY <1>3, <2>1, <1>0 DEF CallbackFails, Typed, CallbackCall
<1> QED
  BY <1>1, <1>2, <1>3 DEF CallbackStep

LEMMA NextTyped == Typed /\ [Next]_vars => Typed'
<1> SUFFICES ASSUME Typed, [Next]_vars PROVE Typed'
  OBVIOUS
<1>1. CASE UNCHANGED vars
  BY <1>1 DEF vars, Typed
<1>2. ASSUME NEW d \in Disbursements, DisburseStep(d) \/ ProviderSettles(d) PROVE Typed'
  BY <1>2, ReserveTyped, PayoutTyped DEF DisburseStep
<1>3. ASSUME NEW c \in Callbacks, CallbackStep(c) PROVE Typed'
  BY <1>3, CallbackTyped
<1>4. CASE NextDay
  <2>1. \A d \in Disbursements : [rows[d] EXCEPT !.today = FALSE] \in Row
    BY Zenon DEF Typed, Row
  <2> QED
    BY <1>4, <2>1 DEF NextDay, Typed
<1> QED
  BY <1>1, <1>2, <1>3, <1>4 DEF Next

-----------------------------------------------------------------------------
(* How far a call and its row are                                          *)

(* The row is there from the reservation on, it stays "pending" until the  *)
(* provider's answer is stored, and callbacks find it after that only.     *)
Stages ==
    /\ \A d \in Disbursements :
          /\ call[d].pc \in Early =>
             rows[d].status = "none" /\ ~rows[d].ext /\ provider[d] = "none"
          /\ call[d].pc = "reserved" => provider[d] = "none"
          /\ call[d].pc \in {"reserved", "answered"} =>
                rows[d].status = "pending" /\ ~rows[d].ext
          /\ call[d].pc \in {"answered", "done"} => call[d].answer # "none"
          /\ call[d].pc = "done" => rows[d].status \in Status
    /\ \A c \in Callbacks :
          /\ callback[c].pc = "idle" => callback[c].ref = NoRef /\ callback[c].status = "none"
          /\ callback[c].pc # "idle" => rows[callback[c].ref].ext
          /\ callback[c].status = "completed" => provider[callback[c].ref] = "completed"

LEMMA InitStages == Init => Stages
BY DEF Init, Stages, Early, NoRow

(* A row that callbacks can find belongs to a call that is over.           *)
LEMMA FoundIsDone ==
    ASSUME Typed, Stages, NEW d \in Disbursements, rows[d].ext
    PROVE  call[d].pc = "done"
BY DEF Typed, Stages, Call

(* What the steps do to a row.                                             *)
LEMMA RowSteps ==
    ASSUME Typed, Stages, [Next]_vars, NEW d \in Disbursements
    PROVE  \/ rows'[d] = rows[d]
           \/ rows'[d] = [rows[d] EXCEPT !.today = FALSE]
           \/ InsertReserved(d) \/ StoreAnswer(d)
           \/ \E c \in Callbacks : /\ CallbackApply(c) /\ callback[c].ref = d
                                   /\ rows'[d] = [rows[d] EXCEPT !.status = callback[c].status]
<1> USE DEF Typed
<1>1. CASE NextDay
  BY <1>1 DEF NextDay
<1>2. ASSUME NEW e \in Disbursements, InsertReserved(e) \/ StoreAnswer(e) PROVE d = e \/ rows'[d] = rows[d]
  BY <1>2 DEF InsertReserved, StoreAnswer
<1>3. ASSUME NEW c \in Callbacks, CallbackApply(c)
      PROVE  \/ rows'[d] = rows[d]
             \/ /\ callback[c].ref = d
                /\ rows'[d] = [rows[d] EXCEPT !.status = callback[c].status]
  BY <1>3 DEF CallbackApply
<1>4. \/ UNCHANGED rows
      \/ NextDay
      \/ \E e \in Disbursements : InsertReserved(e) \/ StoreAnswer(e)
      \/ \E c \in Callbacks : CallbackApply(c)
  BY DEF Next, vars, DisburseStep, CallbackStep, LockAndReadBalance, SumPending, CheckLimit,
         ReserveFails, CallProvider, CallbackRead, CallbackFails, ProviderSettles
<1> QED
  BY <1>1, <1>2, <1>3, <1>4

(* Once a callback can find it, a row keeps its amount and its fee.        *)
LEMMA FoundIsKept ==
    ASSUME Typed, Stages, [Next]_vars, NEW d \in Disbursements, rows[d].ext
    PROVE  rows'[d].ext /\ rows'[d].amount = rows[d].amount /\ rows'[d].fee = rows[d].fee
<1>1. rows[d] \in Row /\ call[d].pc = "done"
  BY FoundIsDone DEF Typed
<1>2. ~InsertReserved(d) /\ ~StoreAnswer(d)
  BY <1>1 DEF InsertReserved, StoreAnswer
<1> QED
  BY <1>1, <1>2, RowSteps DEF Row

(* What the provider has paid out stays paid out.                          *)
LEMMA PaidOutIsKept ==
    ASSUME Typed, Stages, [Next]_vars, NEW d \in Disbursements, provider[d] = "completed"
    PROVE  provider'[d] = "completed"
<1> USE DEF Typed
<1>1. ASSUME NEW e \in Disbursements, CallProvider(e) PROVE provider'[d] = provider[d]
  BY <1>1 DEF CallProvider, Stages
<1>2. ASSUME NEW e \in Disbursements, ProviderSettles(e) PROVE provider'[d] = provider[d]
  BY <1>2 DEF ProviderSettles
<1>3. \/ UNCHANGED provider
      \/ \E e \in Disbursements : CallProvider(e) \/ ProviderSettles(e)
  BY DEF Next, vars, DisburseStep, CallbackStep, LockAndReadBalance, SumPending, CheckLimit,
         ReserveFails, InsertReserved, StoreAnswer, CallbackRead, CallbackApply, CallbackFails,
         NextDay
<1> QED
  BY <1>1, <1>2, <1>3

(* The first part of Stages, for one disbursement.                         *)
CallStage(d) ==
    /\ call[d].pc \in Early =>
          rows[d].status = "none" /\ ~rows[d].ext /\ provider[d] = "none"
    /\ call[d].pc = "reserved" => provider[d] = "none"
    /\ call[d].pc \in {"reserved", "answered"} => rows[d].status = "pending" /\ ~rows[d].ext
    /\ call[d].pc \in {"answered", "done"} => call[d].answer # "none"
    /\ call[d].pc = "done" => rows[d].status \in Status

LEMMA ReserveStage ==
    ASSUME Typed, NEW d \in Disbursements, CallStage(d),
           \/ LockAndReadBalance(d) \/ SumPending(d) \/ CheckLimit(d) \/ ReserveFails(d)
           \/ InsertReserved(d)
    PROVE  CallStage(d)'
<1> USE DEF CallStage
<1>0. call[d] \in Call
  BY DEF Typed
<1>1. CASE LockAndReadBalance(d)
  <2>1. call'[d].pc = "balance"
    BY <1>1 DEF LockAndReadBalance, Typed
  <2> QED
    BY <1>1, <2>1 DEF LockAndReadBalance, Early
<1>2. CASE SumPending(d) \/ CheckLimit(d) \/ ReserveFails(d)
  <2>1. PICK pc \in {"rejected", "summed", "checked"} : call' = [call EXCEPT ![d].pc = pc]
    BY <1>2 DEF SumPending, CheckLimit, ReserveFails
  <2>2. call'[d].pc = pc
    BY <1>0, <2>1 DEF Typed, Call
  <2>3. call[d].pc \in Early /\ UNCHANGED <<rows, provider>>
    BY <1>2 DEF SumPending, CheckLimit, ReserveFails, Early
  <2> QED
    BY <2>2, <2>3 DEF Early
<1>3. CASE InsertReserved(d)
  <2>1. call'[d].pc = "reserved"
    BY <1>0, <1>3 DEF InsertReserved, Typed, Call
  <2>2. rows'[d].status = "pending" /\ rows'[d].ext = FALSE
    BY <1>3 DEF InsertReserved, Typed
  <2> QED
    BY <1>3, <2>1, <2>2 DEF InsertReserved, Early
<1> QED
  BY <1>1, <1>2, <1>3

LEMMA PayoutStage ==
    ASSUME Typed, NEW d \in Disbursements, CallStage(d), CallProvider(d) \/ StoreAnswer(d)
    PROVE  CallStage(d)'
<1> USE DEF CallStage
<1>0. call[d] \in Call /\ rows[d] \in Row
  BY DEF Typed
<1>1. CASE CallProvider(d)
  <2>1. PICK s \in Status \cup {"error"} :
          call' = [call EXCEPT ![d].pc = "answered", ![d].answer = s]
    BY <1>1 DEF CallProvider, Status, Final
  <2>2. call'[d].pc = "answered" /\ call'[d].answer = s
    BY <1>0, <2>1 DEF Typed, Call
  <2> QED
    BY <1>1, <2>2 DEF CallProvider, Early, Status, Open, Final
<1>2. CASE StoreAnswer(d)
  <2>1. call'[d].pc = "done" /\ call'[d].answer = call[d].answer
    BY <1>0, <1>2 DEF StoreAnswer, Typed, Call
  <2>2. rows'[d].status \in Status
    BY <1>0, <1>2 DEF StoreAnswer, Typed, Row, Call, Status, Open, Final
  <2> QED
    BY <1>2, <2>1, <2>2 DEF Early, StoreAnswer
<1> QED
  BY <1>1, <1>2

LEMMA NextCallStage ==
    ASSUME Typed, Stages, [Next]_vars, NEW d \in Disbursements
    PROVE  CallStage(d)'
<1>0. CallStage(d) /\ rows[d] \in Row
  BY DEF Stages, CallStage, Typed
<1>1. CASE UNCHANGED vars
  BY <1>0, <1>1 DEF vars, CallStage
<1>2. CASE DisburseStep(d)
  BY <1>0, <1>2, ReserveStage, PayoutStage DEF DisburseStep
<1>3. ASSUME NEW e \in Disbursements \ {d}, DisburseStep(e) PROVE CallStage(d)'
  <2>1. rows'[d] = rows[d] /\ provider'[d] = provider[d] /\ call'[d] = call[d]
    BY <1>3 DEF DisburseStep, LockAndReadBalance, SumPending, CheckLimit, InsertReserved,
               ReserveFails, CallProvider, StoreAnswer, Typed
  <2> QED
    BY <1>0, <2>1 DEF CallStage
<1>4. ASSUME NEW e \in Disbursements, ProviderSettles(e) PROVE CallStage(d)'
  BY <1>0, <1>4 DEF ProviderSettles, CallStage, Typed
<1>5. ASSUME NEW c \in Callbacks, CallbackRead(c) \/ CallbackFails(c) PROVE CallStage(d)'
  BY <1>0, <1>5 DEF CallbackRead, CallbackFails, CallStage
<1>6. ASSUME NEW c \in Callbacks, CallbackApply(c) PROVE CallStage(d)'
  <2>1. UNCHANGED <<call, provider>>
    BY <1>6 DEF CallbackApply
  <2>2. CASE callback[c].ref = d
    <3>1. callback[c].status \in Status /\ rows[d].ext
      BY <1>6, <2>2 DEF CallbackApply, Typed, Stages
    <3>2. call[d].pc = "done"
      BY <3>1, FoundIsDone
    <3>3. rows'[d].status = callback[c].status
      BY <1>0, <1>6, <2>2 DEF CallbackApply, Typed, Row
    <3> QED
      BY <1>0, <2>1, <3>1, <3>2, <3>3 DEF CallStage, Early
  <2>3. CASE callback[c].ref # d
    <3>1. rows'[d] = rows[d]
      BY <1>6, <2>3 DEF CallbackApply, Typed
    <3> QED
      BY <1>0, <2>1, <3>1 DEF CallStage
  <2> QED
    BY <2>2, <2>3
<1>7. CASE NextDay
  <2>1. rows'[d] = [rows[d] EXCEPT !.today = FALSE] /\ UNCHANGED <<call, provider>>
    BY <1>7 DEF NextDay
  <2>2. rows'[d].status = rows[d].status /\ rows'[d].ext = rows[d].ext
    BY <1>0, <2>1 DEF Row
  <2> QED
    BY <1>0, <2>1, <2>2 DEF CallStage
<1> QED
  BY <1>1, <1>2, <1>3, <1>4, <1>5, <1>6, <1>7 DEF Next, CallbackStep

LEMMA NextStages == Typed /\ Stages /\ [Next]_vars => Stages'
<1> SUFFICES ASSUME Typed, Stages, [Next]_vars PROVE Stages'
  OBVIOUS
<1> DEFINE Told(c) ==
      /\ callback[c].pc = "idle" => callback[c].ref = NoRef /\ callback[c].status = "none"
      /\ callback[c].pc # "idle" => rows[callback[c].ref].ext
      /\ callback[c].status = "completed" => provider[callback[c].ref] = "completed"
<1>1. ASSUME NEW c \in Callbacks, callback'[c].pc = callback[c].pc \/ callback[c].pc # "idle",
             callback'[c].pc = "idle" => callback[c].pc = "idle",
             callback'[c].ref = callback[c].ref, callback'[c].status = callback[c].status
      PROVE  Told(c)'
  <2>1. CASE callback[c].pc = "idle"
    <3>1. callback[c].status # "completed"
      BY <2>1 DEF Stages
    <3> QED
      BY <1>1, <2>1, <3>1 DEF Stages
  <2>2. CASE callback[c].pc # "idle"
    <3>1. callback[c].ref \in Disbursements /\ rows[callback[c].ref].ext
      BY <2>2 DEF Typed, Stages
    <3>2. rows'[callback[c].ref].ext
      BY <3>1, FoundIsKept
    <3> QED
      BY <1>1, <2>2, <3>1, <3>2, PaidOutIsKept DEF Stages
  <2> QED
    BY <2>1, <2>2
<1>2. ASSUME NEW c \in Callbacks, CallbackRead(c) PROVE Told(c)'
  <2>1. PICK d \in Disbursements : \E s \in Reported(d), pc \in {"acked", "read"} :
          /\ rows[d].ext
          /\ callback' = [callback EXCEPT ![c] = [pc |-> pc, ref |-> d, status |-> s]]
          /\ UNCHANGED <<rows, provider>>
    BY <1>2 DEF CallbackRead
  <2>2. PICK s \in Reported(d), pc \in {"acked", "read"} :
          callback' = [callback EXCEPT ![c] = [pc |-> pc, ref |-> d, status |-> s]]
    BY <2>1
  <2>3. callback'[c] = [pc |-> pc, ref |-> d, status |-> s]
    BY <2>2 DEF Typed
  <2>4. s = "completed" => provider[d] = "completed"
    BY DEF Reported, Open, Final
  <2> QED
    BY <2>1, <2>3, <2>4
<1>3. ASSUME NEW c \in Callbacks, NEW d \in Callbacks, c # d \/ ~CallbackRead(c), CallbackStep(d)
      PROVE  Told(c)'
  <2>1. callback[c] \in CallbackCall
    BY DEF Typed
  <2>2. CASE c # d
    BY <1>1, <1>3, <2>2 DEF CallbackStep, CallbackRead, CallbackApply, CallbackFails, Typed
  <2>3. CASE c = d
    BY <1>1, <1>3, <2>1, <2>3 DEF CallbackStep, CallbackApply, CallbackFails, Typed, CallbackCall
  <2> QED
    BY <2>2, <2>3
<1>4. \A c \in Callbacks : UNCHANGED callback => Told(c)'
  BY <1>1
<1>5. \/ UNCHANGED callback
      \/ \E d \in Callbacks : CallbackStep(d)
  BY DEF Next, vars, DisburseStep, LockAndReadBalance, SumPending, CheckLimit, ReserveFails,
         InsertReserved, CallProvider, StoreAnswer, ProviderSettles, NextDay
<1>6. \A c \in Callbacks : Told(c)'
  BY <1>2, <1>3, <1>4, <1>5
<1> QED
  BY <1>6, NextCallStage DEF Stages, CallStage

-----------------------------------------------------------------------------
(* The ledger and the outbox                                               *)

(* A callback that has written its rows is over, and a row of the ledger   *)
(* or the outbox tells of a disbursement that callbacks have found what    *)
(* that disbursement is.                                                   *)
Books ==
    /\ \A m \in ledger : /\ callback[m.id].pc = "acked"
                         /\ rows[m.ref].ext
                         /\ m.amount = rows[m.ref].amount + rows[m.ref].fee
    /\ \A n \in outbox : /\ callback[n.id].pc = "acked"
                         /\ rows[n.ref].ext
                         /\ n.fee = rows[n.ref].fee

Safe == Typed /\ Stages /\ Books /\ NoticeMatchesDebit /\ PayoutsAreCovered

(* What a callback writes.                                                 *)
LEMMA ApplyWrites ==
    ASSUME Typed, Stages, NEW c \in Callbacks, CallbackApply(c)
    PROVE  \E d \in Disbursements, s \in Status :
              LET m == [id |-> c, ref |-> d, amount |-> rows[d].amount + rows[d].fee]
                  n == [id |-> c, ref |-> d, status |-> s, fee |-> rows[d].fee]
              IN  /\ d = callback[c].ref /\ s = callback[c].status /\ rows[d].ext
                  /\ callback[c].pc = "read" /\ callback'[c].pc = "acked"
                  /\ rows' = [rows EXCEPT ![d].status = s]
                  /\ outbox' = outbox \cup {n}
                  /\ \/ s = "completed" /\ ~Debited(d) /\ ledger' = ledger \cup {m}
                     \/ s # "completed" /\ ledger' = ledger
                  /\ UNCHANGED <<provider, call>>
                  /\ \A e \in Callbacks \ {c} : callback'[e] = callback[e]
                  /\ callback'[c].ref = d /\ callback'[c].status = s
<1>1. callback[c] \in CallbackCall
  BY DEF Typed
<1>2. callback[c].ref \in Disbursements /\ callback[c].status \in Status
  BY DEF Typed, CallbackApply
<1>3. rows[callback[c].ref].ext
  BY DEF Stages, CallbackApply
<1>4. /\ callback'[c] = [callback[c] EXCEPT !.pc = "acked"]
      /\ \A e \in Callbacks \ {c} : callback'[e] = callback[e]
  BY DEF CallbackApply, Typed
<1>5. callback'[c].pc = "acked" /\ callback'[c].ref = callback[c].ref
         /\ callback'[c].status = callback[c].status
  BY <1>1, <1>4 DEF CallbackCall
<1> QED
  BY <1>2, <1>3, <1>4, <1>5 DEF CallbackApply, SaveMutation

(* Nobody else writes there.                                               *)
LEMMA OthersDoNotWrite ==
    ASSUME [Next]_vars, ~\E c \in Callbacks : CallbackApply(c)
    PROVE  UNCHANGED <<ledger, outbox>>
BY DEF Next, vars, DisburseStep, CallbackStep, LockAndReadBalance, SumPending, CheckLimit,
       ReserveFails, InsertReserved, CallProvider, StoreAnswer, CallbackRead, CallbackFails,
       ProviderSettles, NextDay

(* A callback that is over stays so.                                       *)
LEMMA AckedIsKept ==
    ASSUME Typed, [Next]_vars, NEW c \in Callbacks, callback[c].pc = "acked"
    PROVE  callback'[c].pc = "acked"
<1>1. callback[c] \in CallbackCall
  BY DEF Typed
<1>2. ASSUME NEW e \in Callbacks, CallbackStep(e) PROVE callback'[c] = callback[c]
  BY <1>2 DEF CallbackStep, CallbackRead, CallbackApply, CallbackFails, Typed
<1>3. \/ UNCHANGED callback
      \/ \E d \in Callbacks : CallbackStep(d)
  BY DEF Next, vars, DisburseStep, LockAndReadBalance, SumPending, CheckLimit, ReserveFails,
         InsertReserved, CallProvider, StoreAnswer, ProviderSettles, NextDay
<1> QED
  BY <1>2, <1>3

LEMMA NextBooks == Typed /\ Stages /\ Books /\ [Next]_vars => Books'
<1> SUFFICES ASSUME Typed, Stages, Books, [Next]_vars PROVE Books'
  OBVIOUS
<1>1. ASSUME NEW m \in ledger
      PROVE  /\ callback'[m.id].pc = "acked" /\ rows'[m.ref].ext
             /\ m.amount = rows'[m.ref].amount + rows'[m.ref].fee
  <2>1. m.ref \in Disbursements /\ m.id \in Callbacks
    BY DEF Typed
  <2> QED
    BY <2>1, FoundIsKept, AckedIsKept DEF Books
<1>2. ASSUME NEW n \in outbox
      PROVE  /\ callback'[n.id].pc = "acked" /\ rows'[n.ref].ext
             /\ n.fee = rows'[n.ref].fee
  <2>1. n.ref \in Disbursements /\ n.id \in Callbacks
    BY DEF Typed
  <2> QED
    BY <2>1, FoundIsKept, AckedIsKept DEF Books
<1>3. CASE UNCHANGED <<ledger, outbox>>
  BY <1>1, <1>2, <1>3 DEF Books
<1>4. ASSUME NEW c \in Callbacks, CallbackApply(c) PROVE Books'
  <2>1. PICK d \in Disbursements, s \in Status :
           /\ rows[d].ext /\ callback'[c].pc = "acked"
           /\ outbox' = outbox \cup {[id |-> c, ref |-> d, status |-> s, fee |-> rows[d].fee]}
           /\ ledger' \subseteq ledger \cup
                {[id |-> c, ref |-> d, amount |-> rows[d].amount + rows[d].fee]}
    BY <1>4, ApplyWrites
  <2>2. rows'[d].ext /\ rows'[d].amount = rows[d].amount /\ rows'[d].fee = rows[d].fee
    BY <2>1, FoundIsKept
  <2> QED
    BY <1>1, <1>2, <2>1, <2>2 DEF Books
<1> QED
  BY <1>3, <1>4, OthersDoNotWrite

(* An event of a completion, as the entry it tells of.                     *)
Told(n) == [id |-> n.id, ref |-> n.ref, amount |-> rows[n.ref].amount + n.fee]

Completions == {o \in outbox : o.status = "completed"}

LEMMA NextNotice ==
    Typed /\ Stages /\ Books /\ NoticeMatchesDebit /\ [Next]_vars => NoticeMatchesDebit'
<1> SUFFICES ASSUME Typed, Stages, Books, NoticeMatchesDebit, [Next]_vars
             PROVE  NoticeMatchesDebit'
  OBVIOUS
<1>0. {Told(n) : n \in Completions} = ledger
  BY DEF NoticeMatchesDebit, Told, Completions
<1>1. \A n \in outbox : Told(n)' = Told(n)
  <2> SUFFICES ASSUME NEW n \in outbox PROVE Told(n)' = Told(n)
    OBVIOUS
  <2>1. n.ref \in Disbursements /\ rows[n.ref].ext
    BY DEF Typed, Books
  <2> QED
    BY <2>1, FoundIsKept DEF Told
<1>2. CASE UNCHANGED <<ledger, outbox>>
  <2>1. Completions' = Completions /\ Completions \subseteq outbox
    BY <1>2 DEF Completions
  <2>2. {Told(n)' : n \in Completions} = {Told(n) : n \in Completions}
    BY <1>1, <2>1
  <2> QED
    BY <1>0, <1>2, <2>1, <2>2 DEF NoticeMatchesDebit, Told, Completions
<1>3. ASSUME NEW c \in Callbacks, CallbackApply(c) PROVE NoticeMatchesDebit'
  <2>p. PICK d \in Disbursements, s \in Status :
          LET m == [id |-> c, ref |-> d, amount |-> rows[d].amount + rows[d].fee]
              n == [id |-> c, ref |-> d, status |-> s, fee |-> rows[d].fee]
          IN  /\ rows[d].ext
              /\ outbox' = outbox \cup {n}
              /\ \/ s = "completed" /\ ledger' = ledger \cup {m}
                 \/ s # "completed" /\ ledger' = ledger
    BY <1>3, ApplyWrites
  <2>m. PICK m : m = [id |-> c, ref |-> d, amount |-> rows[d].amount + rows[d].fee]
    OBVIOUS
  <2>n. PICK n : n = [id |-> c, ref |-> d, status |-> s, fee |-> rows[d].fee]
    OBVIOUS
  <2>1. /\ rows[d].ext
        /\ m = [id |-> c, ref |-> d, amount |-> rows[d].amount + rows[d].fee]
        /\ n = [id |-> c, ref |-> d, status |-> s, fee |-> rows[d].fee]
        /\ outbox' = outbox \cup {n}
        /\ \/ s = "completed" /\ ledger' = ledger \cup {m}
           \/ s # "completed" /\ ledger' = ledger
    BY <2>p, <2>m, <2>n
  <2>2. Told(n)' = m /\ n.status = s
    BY <2>1, FoundIsKept DEF Told
  <2>3. Completions \subseteq outbox
    BY DEF Completions
  <2>4. {Told(e)' : e \in Completions} = ledger
    BY <1>0, <1>1, <2>3
  <2>5. CASE s = "completed"
    <3>1. Completions' = Completions \cup {n}
      BY <2>1, <2>2, <2>5 DEF Completions
    <3>2. {Told(e)' : e \in Completions'} = {Told(e)' : e \in Completions} \cup {Told(n)'}
      BY <3>1
    <3> QED
      BY <2>1, <2>2, <2>4, <2>5, <3>2 DEF NoticeMatchesDebit, Told, Completions
  <2>6. CASE s # "completed"
    <3>1. Completions' = Completions
      BY <2>1, <2>2, <2>6 DEF Completions
    <3> QED
      BY <2>1, <2>4, <2>6, <3>1 DEF NoticeMatchesDebit, Told, Completions
  <2> QED
    BY <2>5, <2>6
<1> QED
  BY <1>2, <1>3, OthersDoNotWrite

-----------------------------------------------------------------------------
(* What is paid out is accounted for                                       *)

AtStakeOrPaid(d) == call[d].pc = "reserved" \/ provider[d] \in {"open", "completed"}

MisledAbout(d) ==
    \/ call[d].answer = "error" /\ provider[d] # "none"
    \/ call[d].answer = "failed" /\ provider[d] # "failed"
    \/ call[d].answer = "completed"
    \/ \E c \in Callbacks : /\ callback[c].ref = d
                            /\ callback[c].status = "failed"
                            /\ provider[d] # "failed"

Covered(d) == AtStakeOrPaid(d) /\ ~MisledAbout(d) => rows[d].status \in Open \/ Debited(d)

LEMMA CoveredByParts == PayoutsAreCovered <=> \A d \in Disbursements : Covered(d)
BY DEF PayoutsAreCovered, Regular, AtStake, PaidOut, Misled, Covered, AtStakeOrPaid, MisledAbout

(* A step that shows of a disbursement only its status and its debit.      *)
LEMMA DisburseCovers ==
    ASSUME Typed, Stages, NEW d \in Disbursements, DisburseStep(d), Covered(d),
           CallStage(d)'
    PROVE  Covered(d)'
<1>0. call[d] \in Call /\ rows[d] \in Row /\ CallStage(d)
  BY DEF Typed, Stages, CallStage
<1>1. CASE LockAndReadBalance(d)
  <2>1. call'[d].pc = "balance" /\ provider'[d] = "none"
    BY <1>1, <1>0 DEF LockAndReadBalance, Typed, CallStage, Early
  <2> QED
    BY <2>1 DEF Covered, AtStakeOrPaid
<1>2. CASE SumPending(d) \/ CheckLimit(d) \/ ReserveFails(d)
  <2>1. PICK pc \in {"rejected", "summed", "checked"} : call' = [call EXCEPT ![d].pc = pc]
    BY <1>2 DEF SumPending, CheckLimit, ReserveFails
  <2>2. call'[d].pc = pc /\ provider'[d] = "none"
    BY <1>0, <1>2, <2>1 DEF SumPending, CheckLimit, ReserveFails, Typed, Call, CallStage, Early
  <2> QED
    BY <2>2 DEF Covered, AtStakeOrPaid
<1>3. CASE InsertReserved(d)
  BY <1>3 DEF InsertReserved, Typed, Covered, Open
<1>4. CASE CallProvider(d)
  BY <1>0, <1>4 DEF CallProvider, CallStage, Covered, Open
<1>5. CASE StoreAnswer(d)
  <2>1. /\ call'[d].pc = "done" /\ call'[d].answer = call[d].answer
        /\ call[d].answer \in Status \cup {"error"}
        /\ UNCHANGED <<provider, callback>>
    BY <1>0, <1>5 DEF StoreAnswer, Typed, Call, CallStage
  <2>2. CASE call[d].answer \in Open
    BY <1>0, <1>5, <2>2 DEF StoreAnswer, Typed, Row, Covered, Open
  <2>3. CASE call[d].answer \in {"completed", "failed", "error"}
    BY <2>1, <2>3 DEF Covered, AtStakeOrPaid, MisledAbout
  <2> QED
    BY <2>1, <2>2, <2>3 DEF Status, Final
<1> QED
  BY <1>1, <1>2, <1>3, <1>4, <1>5 DEF DisburseStep

LEMMA CallbackCovers ==
    ASSUME Typed, Stages, NEW c \in Callbacks, CallbackStep(c),
           NEW d \in Disbursements, Covered(d)
    PROVE  Covered(d)'
<1>1. CASE CallbackRead(c)
  <2>1. /\ callback[c].ref # d
        /\ \A e \in Callbacks \ {c} : callback'[e] = callback[e]
        /\ UNCHANGED <<rows, provider, call, ledger>>
    BY <1>1, DisbursementAssumption DEF CallbackRead, Typed, Stages
  <2>2. MisledAbout(d) => MisledAbout(d)'
    BY <2>1 DEF MisledAbout
  <2> QED
    BY <2>1, <2>2 DEF Covered, AtStakeOrPaid, Debited
<1>2. CASE CallbackFails(c)
  <2>1. /\ \A e \in Callbacks : /\ callback'[e].ref = callback[e].ref
                               /\ callback'[e].status = callback[e].status
        /\ UNCHANGED <<rows, provider, call, ledger>>
    BY <1>2 DEF CallbackFails, Typed, CallbackCall
  <2>2. MisledAbout(d) => MisledAbout(d)'
    BY <2>1 DEF MisledAbout
  <2> QED
    BY <2>1, <2>2 DEF Covered, AtStakeOrPaid, Debited
<1>3. CASE CallbackApply(c)
  <2>p. PICK e \in Disbursements, s \in Status :
          LET m == [id |-> c, ref |-> e, amount |-> rows[e].amount + rows[e].fee]
          IN  /\ e = callback[c].ref /\ s = callback[c].status /\ rows[e].ext
              /\ rows' = [rows EXCEPT ![e].status = s]
              /\ \/ s = "completed" /\ ledger' = ledger \cup {m}
                 \/ s # "completed" /\ ledger' = ledger
              /\ UNCHANGED <<provider, call>>
              /\ \A b \in Callbacks \ {c} : callback'[b] = callback[b]
              /\ callback'[c].ref = e /\ callback'[c].status = s
    BY <1>3, ApplyWrites
  <2>1. MisledAbout(d) <=> MisledAbout(d)'
    BY <2>p DEF MisledAbout
  <2>2. Debited(d) => Debited(d)'
    BY <2>p DEF Debited
  <2>3. CASE e # d
    <3>1. rows'[d] = rows[d]
      BY <2>p, <2>3 DEF Typed
    <3> QED
      BY <2>p, <2>1, <2>2, <3>1 DEF Covered, AtStakeOrPaid
  <2>4. CASE e = d /\ s \in Open
    <3>1. rows'[d].status = s
      BY <2>p, <2>4 DEF Typed, Row
    <3> QED
      BY <2>4, <3>1 DEF Covered
  <2>5. CASE e = d /\ s = "completed"
    <3>1. Debited(d)'
      <4>1. [id |-> c, ref |-> e, amount |-> rows[e].amount + rows[e].fee] \in ledger'
        BY <2>p, <2>5
      <4>2. [id |-> c, ref |-> e, amount |-> rows[e].amount + rows[e].fee].ref = d
        BY <2>5
      <4> QED
        BY <4>1, <4>2 DEF Debited
    <3> QED
      BY <3>1 DEF Covered
  <2>6. CASE e = d /\ s = "failed"
    <3>1. call[d].pc = "done"
      BY <2>p, <2>6, FoundIsDone
    <3>2. ~(AtStakeOrPaid(d) /\ ~MisledAbout(d))
      BY <2>p, <2>6, <3>1 DEF AtStakeOrPaid, MisledAbout
    <3> QED
      BY <2>p, <2>1, <3>2 DEF Covered, AtStakeOrPaid
  <2> QED
    BY <2>3, <2>4, <2>5, <2>6 DEF Status, Final
<1> QED
  BY <1>1, <1>2, <1>3 DEF CallbackStep

LEMMA NextCovered == Typed /\ Stages /\ PayoutsAreCovered /\ [Next]_vars => PayoutsAreCovered'
<1> SUFFICES ASSUME Typed, Stages, PayoutsAreCovered, [Next]_vars, NEW d \in Disbursements
             PROVE  Covered(d)'
  BY CoveredByParts DEF PayoutsAreCovered, Regular, AtStake, PaidOut, Misled, Covered,
                        AtStakeOrPaid, MisledAbout, Debited
<1>0. Covered(d) /\ rows[d] \in Row
  BY CoveredByParts DEF Typed
<1>1. CASE UNCHANGED vars
  BY <1>0, <1>1 DEF vars, Covered, AtStakeOrPaid, MisledAbout, Debited
<1>2. CASE DisburseStep(d)
  BY <1>0, <1>2, DisburseCovers, NextCallStage
<1>3. ASSUME NEW e \in Disbursements \ {d}, DisburseStep(e) \/ ProviderSettles(e)
      PROVE  Covered(d)'
  <2>1. /\ rows'[d] = rows[d] /\ provider'[d] = provider[d] /\ call'[d] = call[d]
        /\ UNCHANGED <<callback, ledger>>
    BY <1>3 DEF DisburseStep, LockAndReadBalance, SumPending, CheckLimit, InsertReserved,
               ReserveFails, CallProvider, StoreAnswer, ProviderSettles, Typed
  <2> QED
    BY <1>0, <2>1 DEF Covered, AtStakeOrPaid, MisledAbout, Debited
<1>4. CASE ProviderSettles(d)
  <2>1. /\ provider[d] = "open" /\ provider'[d] \in {"completed", "failed"}
        /\ UNCHANGED <<rows, ledger, call, callback>>
    BY <1>4 DEF ProviderSettles, Typed, Final
  <2>2. CASE provider'[d] = "failed"
    <3>1. call[d].pc # "reserved"
      BY <2>1 DEF Stages
    <3> QED
      BY <2>1, <2>2, <3>1 DEF Covered, AtStakeOrPaid
  <2>3. CASE provider'[d] = "completed"
    BY <1>0, <2>1, <2>3 DEF Covered, AtStakeOrPaid, MisledAbout, Debited
  <2> QED
    BY <2>1, <2>2, <2>3
<1>5. ASSUME NEW c \in Callbacks, CallbackStep(c) PROVE Covered(d)'
  BY <1>0, <1>5, CallbackCovers
<1>6. CASE NextDay
  <2>1. rows'[d].status = rows[d].status /\ UNCHANGED <<ledger, provider, call, callback>>
    BY <1>0, <1>6 DEF NextDay, Row
  <2> QED
    BY <1>0, <2>1 DEF Covered, AtStakeOrPaid, MisledAbout, Debited
<1> QED
  BY <1>1, <1>2, <1>3, <1>4, <1>5, <1>6 DEF Next

LEMMA SafeInvariant == Spec => []Safe
<1>1. Init => Safe
  <2>1. Init => Books /\ NoticeMatchesDebit
    BY DEF Init, Books, NoticeMatchesDebit
  <2>2. Init => PayoutsAreCovered
    BY DEF Init, PayoutsAreCovered, Regular, AtStake, PaidOut
  <2> QED
    BY <2>1, <2>2, InitTyped, InitStages DEF Safe
<1>2. Safe /\ [Next]_vars => Safe'
  BY NextTyped, NextStages, NextBooks, NextNotice, NextCovered DEF Safe
<1> QED
  BY <1>1, <1>2, PTL DEF Spec

(* Whatever the provider answers and in whatever order callbacks come, a   *)
(* payout that is made, or may still be, is reserved or debited, unless    *)
(* the provider's answer hid it (disbursement.go:131-178, 265-296).        *)
THEOREM CoveredPayouts == Spec => []PayoutsAreCovered
<1>1. Safe => PayoutsAreCovered
  BY DEF Safe
<1> QED
  BY <1>1, SafeInvariant, PTL

(* Debits and the events that tell of them are one to one, however many    *)
(* callbacks race (disbursement.go:277-321).                               *)
THEOREM NoticesMatchDebits == Spec => []NoticeMatchesDebit
<1>1. Safe => NoticeMatchesDebit
  BY DEF Safe
<1> QED
  BY <1>1, SafeInvariant, PTL

-----------------------------------------------------------------------------
(* Sums over finite sets                                                   *)

(* Induction over a finite set, with the statement as a set of sets.       *)
LEMMA SetInduction ==
    ASSUME NEW S, IsFiniteSet(S), NEW G,
           \A T \in SUBSET S : (\A U \in SUBSET T : U # T => U \in G) => T \in G
    PROVE  S \in G
<1> DEFINE Bad == {T \in SUBSET S : T \notin G}
<1>1. SUFFICES ASSUME Bad # {} PROVE FALSE
  OBVIOUS
<1>2. Bad \subseteq FiniteSubsetsOf(S)
  BY FS_Subset DEF FiniteSubsetsOf
<1> HIDE DEF Bad
<1>3. PICK T \in Bad : \A U \in Bad : ~(<<U, T>> \in StrictSubsetOrdering(S))
  BY <1>1, <1>2, FS_StrictSubsetOrderingWellFounded, WFMin
<1>4. \A U \in SUBSET T : U # T => U \in G
  BY <1>3 DEF StrictSubsetOrdering, Bad
<1> QED
  BY <1>3, <1>4 DEF Bad

(* The step of the recursion behind MapThenSumSet, for weights w.          *)
Pick(s) == CHOOSE x \in s : TRUE

SumStep(it, w, s) == IF s = {} THEN 0 ELSE w[Pick(s)] + it[s \ {Pick(s)}]

IsSummation(it, w, S) == it = [s \in SUBSET S |-> SumStep(it, w, s)]

HasSummation(w, S) == \E it : IsSummation(it, w, S)

Total(w, S) == (CHOOSE it : IsSummation(it, w, S))[S]

LEMMA PickIn == \A s : s # {} => Pick(s) \in s
  BY DEF Pick

Alike(w, v, U) == \A x \in U : w[x] = v[x]

(* Any two summations agree, whatever larger set they are over.            *)
LEMMA SummationsAgree ==
    ASSUME NEW w, NEW S, NEW f, IsSummation(f, w, S),
           NEW v, NEW T, NEW g, IsSummation(g, v, T),
           NEW U, U \in SUBSET S, U \in SUBSET T, IsFiniteSet(U), Alike(w, v, U)
    PROVE  f[U] = g[U]
<1> USE DEF Alike
<1> DEFINE G == {V \in SUBSET U : f[V] = g[V]}
<1>1. ASSUME NEW V \in SUBSET U, \A X \in SUBSET V : X # V => X \in G PROVE V \in G
  <2>1. f[V] = SumStep(f, w, V) /\ g[V] = SumStep(g, v, V)
    BY DEF IsSummation
  <2>2. CASE V = {}
    BY <2>1, <2>2 DEF SumStep
  <2>3. CASE V # {}
    <3>1. Pick(V) \in V /\ V \ {Pick(V)} \in SUBSET V /\ V \ {Pick(V)} # V
      BY <2>3, PickIn
    <3>2. f[V \ {Pick(V)}] = g[V \ {Pick(V)}]
      BY <1>1, <3>1
    <3> QED
      BY <2>1, <2>3, <3>1, <3>2 DEF SumStep
  <2> QED
    BY <2>2, <2>3
<1> HIDE DEF G
<1>2. U \in G
  BY <1>1, SetInduction
<1> QED
  BY <1>2 DEF G

(* The recursion defines a function.                                       *)
LEMMA SummationExists ==
    ASSUME NEW S, IsFiniteSet(S), NEW w
    PROVE  HasSummation(w, S)
<1> DEFINE G == {T \in SUBSET S : HasSummation(w, T)}
<1>1. ASSUME NEW T \in SUBSET S, \A U \in SUBSET T : U # T => U \in G PROVE T \in G
  <2> DEFINE t == [s \in SUBSET T |-> Total(w, s)]
             it == [t EXCEPT ![T] = SumStep(t, w, T)]
  <2>1. ASSUME NEW s \in SUBSET T, s # T PROVE t[s] = SumStep(t, w, s)
    <3> DEFINE f == CHOOSE g : IsSummation(g, w, s)
    <3>1. IsSummation(f, w, s)
      BY <1>1, <2>1 DEF HasSummation
    <3>2. f[s] = t[s]
      BY DEF Total
    <3>3. f[s] = SumStep(f, w, s)
      BY <3>1 DEF IsSummation
    <3> HIDE DEF f
    <3>4. CASE s = {}
      BY <3>2, <3>3, <3>4 DEF SumStep
    <3>5. CASE s # {}
      <4> DEFINE r == s \ {Pick(s)}
                 g == CHOOSE h : IsSummation(h, w, r)
      <4>1. r \in SUBSET s /\ r \in SUBSET T /\ r # T
        BY <3>5, <2>1, PickIn
      <4>2. IsSummation(g, w, r)
        BY <1>1, <4>1 DEF HasSummation
      <4>3. g[r] = t[r]
        BY <4>1 DEF Total
      <4>4. IsFiniteSet(r)
        BY <4>1, FS_Subset
      <4> HIDE DEF g, r
      <4>5. f[r] = g[r]
        BY <3>1, <4>1, <4>2, <4>4, SummationsAgree DEF Alike
      <4> QED
        BY <3>2, <3>3, <3>5, <4>3, <4>5 DEF SumStep, r
    <3> QED
      BY <3>4, <3>5
  <2>2. \A s \in SUBSET T : s # {} => s \ {Pick(s)} \in SUBSET T /\ s \ {Pick(s)} # T
    BY PickIn
  <2> HIDE DEF t
  <2>3. \A s \in SUBSET T : s # T => it[s] = t[s]
    BY DEF t
  <2>4. it[T] = SumStep(t, w, T)
    BY DEF t
  <2> HIDE DEF it
  <2>5. \A s \in SUBSET T : SumStep(it, w, s) = SumStep(t, w, s)
    BY <2>2, <2>3 DEF SumStep
  <2>6. \A s \in SUBSET T : it[s] = SumStep(it, w, s)
    BY <2>1, <2>3, <2>4, <2>5
  <2>7. it = [s \in SUBSET T |-> it[s]]
    BY DEF it, t
  <2>8. IsSummation(it, w, T)
    BY <2>6, <2>7 DEF IsSummation
  <2> QED
    BY <2>8 DEF HasSummation
<1> HIDE DEF G
<1>2. S \in G
  BY <1>1, SetInduction
<1> QED
  BY <1>2 DEF G

LEMMA TotalIs ==
    ASSUME NEW S, IsFiniteSet(S), NEW T, S \subseteq T, NEW w, NEW f, IsSummation(f, w, T)
    PROVE  Total(w, S) = f[S]
<1>1. IsSummation(CHOOSE it : IsSummation(it, w, S), w, S)
  BY SummationExists DEF HasSummation
<1>2. ASSUME NEW g, IsSummation(g, w, S) PROVE g[S] = f[S]
  BY <1>2, SummationsAgree DEF Alike
<1> QED
  BY <1>1, <1>2 DEF Total

LEMMA TotalEmpty == \A w : Total(w, {}) = 0
<1> TAKE w
<1>1. PICK f : IsSummation(f, w, {})
  BY SummationExists, FS_EmptySet DEF HasSummation
<1>2. Total(w, {}) = f[{}]
  BY <1>1, TotalIs, FS_EmptySet
<1> QED
  BY <1>1, <1>2 DEF IsSummation, SumStep

LEMMA TotalPick ==
    ASSUME NEW S, IsFiniteSet(S), S # {}, NEW w
    PROVE  Total(w, S) = w[Pick(S)] + Total(w, S \ {Pick(S)})
<1>1. PICK f : IsSummation(f, w, S)
  BY SummationExists DEF HasSummation
<1>2. Total(w, S) = f[S]
  BY <1>1, TotalIs
<1>3. IsFiniteSet(S \ {Pick(S)})
  BY FS_RemoveElement
<1>4. Total(w, S \ {Pick(S)}) = f[S \ {Pick(S)}]
  BY <1>1, <1>3, TotalIs
<1> QED
  BY <1>1, <1>2, <1>4 DEF IsSummation, SumStep

LEMMA TotalTyped ==
    ASSUME NEW S, IsFiniteSet(S), NEW w, \A x \in S : w[x] \in Nat
    PROVE  Total(w, S) \in Nat
<1> DEFINE G == {T \in SUBSET S : Total(w, T) \in Nat}
<1>1. ASSUME NEW T \in SUBSET S, \A U \in SUBSET T : U # T => U \in G PROVE T \in G
  <2>1. CASE T = {}
    BY <2>1, TotalEmpty
  <2>2. CASE T # {}
    <3>1. Pick(T) \in T /\ IsFiniteSet(T)
      BY <2>2, PickIn, FS_Subset
    <3>2. Total(w, T \ {Pick(T)}) \in Nat
      BY <1>1, <3>1
    <3>3. w[Pick(T)] \in Nat
      BY <3>1
    <3>4. Total(w, T) = w[Pick(T)] + Total(w, T \ {Pick(T)})
      BY <2>2, <3>1, TotalPick
    <3> QED
      BY <3>2, <3>3, <3>4
  <2> QED
    BY <2>1, <2>2
<1> HIDE DEF G
<1>2. S \in G
  BY <1>1, SetInduction
<1> QED
  BY <1>2 DEF G

(* The order in which the elements are taken does not matter.              *)
LEMMA TotalRemove ==
    ASSUME NEW S, IsFiniteSet(S), NEW w, \A x \in S : w[x] \in Nat, NEW x \in S
    PROVE  Total(w, S) = w[x] + Total(w, S \ {x})
<1> DEFINE G == {T \in SUBSET S : \A y \in T : Total(w, T) = w[y] + Total(w, T \ {y})}
<1>1. ASSUME NEW T \in SUBSET S, \A U \in SUBSET T : U # T => U \in G PROVE T \in G
  <2> SUFFICES ASSUME NEW y \in T PROVE Total(w, T) = w[y] + Total(w, T \ {y})
    OBVIOUS
  <2> DEFINE p == Pick(T)
  <2>1. p \in T /\ IsFiniteSet(T) /\ w[p] \in Nat /\ w[y] \in Nat
    BY PickIn, FS_Subset
  <2>2. Total(w, T) = w[p] + Total(w, T \ {p})
    BY <2>1, TotalPick
  <2> HIDE DEF p
  <2>3. CASE y = p
    BY <2>2, <2>3
  <2>4. CASE y # p
    <3>1. Total(w, T \ {p}) = w[y] + Total(w, (T \ {p}) \ {y})
      BY <1>1, <2>1, <2>4
    <3>2. Total(w, T \ {y}) = w[p] + Total(w, (T \ {y}) \ {p})
      BY <1>1, <2>1, <2>4
    <3>3. (T \ {p}) \ {y} = (T \ {y}) \ {p}
      OBVIOUS
    <3>4. Total(w, (T \ {y}) \ {p}) \in Nat
      <4>1. IsFiniteSet((T \ {y}) \ {p})
        BY <2>1, FS_RemoveElement
      <4>2. \A z \in (T \ {y}) \ {p} : w[z] \in Nat
        OBVIOUS
      <4> QED
        BY <4>1, <4>2, TotalTyped
    <3>5. Total(w, T) = w[p] + (w[y] + Total(w, (T \ {y}) \ {p}))
      BY <2>2, <3>1, <3>3
    <3> QED
      BY <2>1, <3>2, <3>4, <3>5
  <2> QED
    BY <2>3, <2>4
<1> HIDE DEF G
<1>2. S \in G
  BY <1>1, SetInduction
<1> QED
  BY <1>2 DEF G

(* A set with one element more.                                            *)
LEMMA TotalAdd ==
    ASSUME NEW S, IsFiniteSet(S), NEW x, x \notin S, NEW w,
           \A y \in S \cup {x} : w[y] \in Nat
    PROVE  Total(w, S \cup {x}) = w[x] + Total(w, S)
<1>1. IsFiniteSet(S \cup {x}) /\ x \in S \cup {x} /\ (S \cup {x}) \ {x} = S
  BY FS_AddElement
<1>2. Total(w, S \cup {x}) = w[x] + Total(w, (S \cup {x}) \ {x})
  BY <1>1, TotalRemove
<1> QED
  BY <1>1, <1>2

(* Only the weights of the elements count.                                 *)
LEMMA TotalAlike ==
    ASSUME NEW S, IsFiniteSet(S), NEW w, NEW v, Alike(w, v, S)
    PROVE  Total(w, S) = Total(v, S)
<1>1. PICK f : IsSummation(f, w, S)
  BY SummationExists DEF HasSummation
<1>2. PICK g : IsSummation(g, v, S)
  BY SummationExists DEF HasSummation
<1>3. S \in SUBSET S
  OBVIOUS
<1>4. f[S] = g[S]
  BY <1>1, <1>2, <1>3, SummationsAgree
<1>5. Total(w, S) = f[S] /\ Total(v, S) = g[S]
  BY <1>1, <1>2, TotalIs
<1> QED
  BY <1>4, <1>5

(* A part weighs no more than the whole.                                   *)
LEMMA TotalMonotone ==
    ASSUME NEW S, IsFiniteSet(S), NEW w, \A x \in S : w[x] \in Nat, NEW T \in SUBSET S
    PROVE  Total(w, T) <= Total(w, S)
<1> DEFINE G == {U \in SUBSET S : T \in SUBSET U => Total(w, T) <= Total(w, U)}
<1>0. \A U \in SUBSET S : IsFiniteSet(U) /\ Total(w, U) \in Nat
  BY FS_Subset, TotalTyped
<1>1. ASSUME NEW U \in SUBSET S, \A V \in SUBSET U : V # U => V \in G PROVE U \in G
  <2> SUFFICES ASSUME T \in SUBSET U PROVE Total(w, T) <= Total(w, U)
    OBVIOUS
  <2>1. CASE T = U
    BY <1>0, <2>1
  <2>2. CASE T # U
    <3>1. PICK x \in U : x \notin T
      BY <2>2
    <3>2. Total(w, U) = w[x] + Total(w, U \ {x})
      BY <1>0, <3>1, TotalRemove
    <3>3. Total(w, T) <= Total(w, U \ {x})
      BY <1>1, <3>1
    <3>4. w[x] \in Nat /\ Total(w, U \ {x}) \in Nat /\ Total(w, T) \in Nat
      BY <1>0
    <3> QED
      BY <3>2, <3>3, <3>4
  <2> QED
    BY <2>1, <2>2
<1> HIDE DEF G
<1>2. S \in G
  BY <1>1, SetInduction
<1> QED
  BY <1>2 DEF G

(* Elements that are in A, or that an entry of M names and outweighs, weigh*)
(* no more than A and the entries together, however many entries name one. *)
LEMMA TotalCovered ==
    ASSUME NEW A, IsFiniteSet(A), NEW M, IsFiniteSet(M), NEW w, NEW v, NEW name,
           NEW R, R \subseteq A \cup {name[m] : m \in M}, IsFiniteSet(R),
           \A x \in A \cup R : w[x] \in Nat,
           \A m \in M : v[m] \in Nat /\ (name[m] \in R => w[name[m]] <= v[m])
    PROVE  Total(w, R) <= Total(w, A) + Total(v, M)
<1> DEFINE G == {N \in SUBSET M :
                    \A P \in SUBSET R : P \subseteq A \cup {name[m] : m \in N} =>
                        Total(w, P) <= Total(w, A) + Total(v, N)}
<1>a. Total(w, A) \in Nat
  BY TotalTyped
<1>b. \A N \in SUBSET M : IsFiniteSet(N) /\ Total(v, N) \in Nat
  BY FS_Subset, TotalTyped
<1>c. \A P \in SUBSET R : IsFiniteSet(P) /\ Total(w, P) \in Nat
  BY FS_Subset, TotalTyped
<1>1. ASSUME NEW N \in SUBSET M, \A V \in SUBSET N : V # N => V \in G PROVE N \in G
  <2> SUFFICES ASSUME NEW P \in SUBSET R, P \subseteq A \cup {name[m] : m \in N}
               PROVE  Total(w, P) <= Total(w, A) + Total(v, N)
    OBVIOUS
  <2>1. CASE N = {}
    <3>1. P \in SUBSET A
      BY <2>1
    <3>2. Total(w, P) <= Total(w, A)
      BY <3>1, TotalMonotone
    <3>3. Total(v, N) = 0
      BY <2>1, TotalEmpty
    <3> QED
      BY <1>a, <1>c, <3>2, <3>3
  <2>2. CASE N # {}
    <3>1. PICK m \in N : TRUE
      BY <2>2
    <3>2. Total(v, N) = v[m] + Total(v, N \ {m})
      BY <1>b, TotalRemove
    <3> DEFINE Q == P \ {name[m]}
    <3>3. Q \in SUBSET R /\ Q \subseteq A \cup {name[n] : n \in N \ {m}}
      OBVIOUS
    <3>4. Total(w, Q) <= Total(w, A) + Total(v, N \ {m})
      BY <1>1, <3>3
    <3>5. /\ Total(w, Q) \in Nat
          /\ Total(w, P) \in Nat
          /\ Total(v, N \ {m}) \in Nat
          /\ v[m] \in Nat
      BY <1>b, <1>c
    <3> HIDE DEF Q
    <3>6. Total(w, P) <= v[m] + Total(w, Q)
      <4>1. CASE name[m] \in P
        <5>1. Total(w, P) = w[name[m]] + Total(w, Q)
          BY <1>c, <4>1, TotalRemove DEF Q
        <5>2. w[name[m]] \in Nat /\ w[name[m]] <= v[m]
          BY <4>1
        <5> QED
          BY <3>5, <5>1, <5>2
      <4>2. CASE name[m] \notin P
        <5>1. Q = P
          BY <4>2 DEF Q
        <5> QED
          BY <3>5, <5>1
      <4> QED
        BY <4>1, <4>2
    <3> QED
      BY <1>a, <3>2, <3>4, <3>5, <3>6
  <2> QED
    BY <2>1, <2>2
<1> HIDE DEF G
<1>2. M \in G
  BY <1>1, SetInduction
<1> QED
  BY <1>2 DEF G

(* The sums of the model: of the amounts of some rows of a table r, and of *)
(* a set of entries.                                                       *)
RowSum(r, S) == MapThenSumSet(LAMBDA d : r[d].amount, S)

EntrySum(S) == MapThenSumSet(LAMBDA m : m.amount, S)

LEMMA AmountsOfRows ==
    ASSUME NEW D, NEW r, NEW S \in SUBSET D, IsFiniteSet(S)
    PROVE  RowSum(r, S) = Total([d \in D |-> r[d].amount], S)
<1> DEFINE w == [d \in D |-> r[d].amount]
           P(it) == it = [s \in SUBSET S |->
                        IF s = {} THEN 0
                        ELSE r[CHOOSE x \in s : TRUE].amount + it[s \ {CHOOSE x \in s : TRUE}]]
<1>1. \A it : P(it) <=> IsSummation(it, w, S)
  <2> TAKE it
  <2>1. \A s \in SUBSET S : s # {} => w[Pick(s)] = r[CHOOSE x \in s : TRUE].amount
    BY PickIn DEF Pick
  <2> HIDE DEF w
  <2>2. \A s \in SUBSET S : SumStep(it, w, s) =
            IF s = {} THEN 0
            ELSE r[CHOOSE x \in s : TRUE].amount + it[s \ {CHOOSE x \in s : TRUE}]
    BY <2>1 DEF SumStep, Pick
  <2> QED
    BY <2>2 DEF IsSummation
<1>2. \E it : IsSummation(it, w, S)
  BY SummationExists DEF HasSummation
<1>3. P(CHOOSE it : P(it))
  <2> HIDE DEF P, w
  <2> QED
    BY <1>1, <1>2
<1>4. RowSum(r, S) = (CHOOSE it : P(it))[S]
  BY DEF RowSum, EntrySum, MapThenSumSet, MapThenFoldSet
<1> HIDE DEF P, w
<1>5. IsSummation(CHOOSE it : P(it), w, S)
  BY <1>1, <1>3
<1>6. Total(w, S) = (CHOOSE it : P(it))[S]
  BY <1>5, TotalIs
<1> QED
  BY <1>4, <1>6 DEF w

LEMMA AmountsOfEntries ==
    ASSUME NEW S, IsFiniteSet(S)
    PROVE  EntrySum(S) = Total([m \in S |-> m.amount], S)
<1> DEFINE w == [m \in S |-> m.amount]
           P(it) == it = [s \in SUBSET S |->
                        IF s = {} THEN 0
                        ELSE (CHOOSE x \in s : TRUE).amount + it[s \ {CHOOSE x \in s : TRUE}]]
<1>1. \A it : P(it) <=> IsSummation(it, w, S)
  <2> TAKE it
  <2>1. \A s \in SUBSET S : s # {} => w[Pick(s)] = (CHOOSE x \in s : TRUE).amount
    BY PickIn DEF Pick
  <2> HIDE DEF w
  <2>2. \A s \in SUBSET S : SumStep(it, w, s) =
            IF s = {} THEN 0
            ELSE (CHOOSE x \in s : TRUE).amount + it[s \ {CHOOSE x \in s : TRUE}]
    BY <2>1 DEF SumStep, Pick
  <2> QED
    BY <2>2 DEF IsSummation
<1>2. \E it : IsSummation(it, w, S)
  BY SummationExists DEF HasSummation
<1>3. P(CHOOSE it : P(it))
  <2> HIDE DEF P, w
  <2> QED
    BY <1>1, <1>2
<1>4. EntrySum(S) = (CHOOSE it : P(it))[S]
  BY DEF RowSum, EntrySum, MapThenSumSet, MapThenFoldSet
<1> HIDE DEF P, w
<1>5. IsSummation(CHOOSE it : P(it), w, S)
  BY <1>1, <1>3
<1>6. Total(w, S) = (CHOOSE it : P(it))[S]
  BY <1>5, TotalIs
<1> QED
  BY <1>4, <1>6 DEF w

-----------------------------------------------------------------------------
(* Funds and limits                                                        *)

(* The amounts as weights, and the sum of some rows of a table r.          *)
Weights(r) == [d \in Disbursements |-> r[d].amount]

Reserving(d) == call[d].pc \in {"balance", "summed", "checked"}

Present == {d \in Disbursements : rows[d].status # "none"}

RegularToday == {d \in Regular : rows[d].today}

Finite == IsFiniteSet(Present) /\ IsFiniteSet(ledger)

(* One reservation at a time, by the lock on the merchant.                 *)
OneReserves == \A d, e \in Disbursements : Reserving(d) /\ Reserving(e) => d = e

(* A payout at stake shows as failed to nobody that was not misled.        *)
Unfailed == \A d \in Regular : rows[d].status # "failed"

(* What a reservation under way has read still holds.                      *)
ReadHolds ==
    \A d \in Disbursements :
        /\ call[d].pc = "balance" => seen[d] = GetBalance
        /\ call[d].pc \in {"summed", "checked"} => SumOf(Regular) + call[d].amount <= Opening
        /\ call[d].pc = "checked" /\ DailyLimit > 0 =>
              SumOf(RegularToday) + call[d].amount <= DailyLimit

(* A payout that is at stake has a row.                                    *)
LEMMA RegularIsPresent == Typed /\ Stages => Regular \subseteq Present
<1> SUFFICES ASSUME Typed, Stages, NEW d \in Regular PROVE d \in Present
  OBVIOUS
<1>1. d \in Disbursements /\ AtStakeOrPaid(d) /\ CallStage(d) /\ call[d] \in Call
  BY DEF Regular, AtStake, PaidOut, AtStakeOrPaid, Stages, CallStage, Typed
<1> QED
  BY <1>1 DEF AtStakeOrPaid, CallStage, Call, Present, Status, Open, Final

(* The sums of the properties are totals.                                  *)
Totals ==
    /\ IsFiniteSet(Regular) /\ IsFiniteSet(RegularToday)
    /\ SumOf(Regular) = Total(Weights(rows), Regular)
    /\ SumOf(RegularToday) = Total(Weights(rows), RegularToday)
    /\ SumOf(Regular) \in Nat /\ SumOf(RegularToday) \in Nat

LEMMA SumsAreTotals == Typed /\ Stages /\ Finite => Totals
<1> SUFFICES ASSUME Typed, Stages, Finite PROVE Totals
  OBVIOUS
<1>1. Regular \in SUBSET Present /\ RegularToday \in SUBSET Regular /\ Present \in SUBSET Disbursements
  BY RegularIsPresent DEF RegularToday, Present
<1>2. IsFiniteSet(Regular) /\ IsFiniteSet(RegularToday)
  BY <1>1, FS_Subset DEF Finite
<1>3. /\ RowSum(rows, Regular) = Total(Weights(rows), Regular)
      /\ RowSum(rows, RegularToday) = Total(Weights(rows), RegularToday)
  BY <1>1, <1>2, AmountsOfRows DEF Weights
<1>4. SumOf(Regular) = RowSum(rows, Regular) /\ SumOf(RegularToday) = RowSum(rows, RegularToday)
  BY DEF SumOf, RowSum, MapThenSumSet, MapThenFoldSet
<1>5. \A d \in Disbursements : Weights(rows)[d] \in Nat
  BY DEF Typed, Row, Weights
<1>6. Total(Weights(rows), Regular) \in Nat /\ Total(Weights(rows), RegularToday) \in Nat
  BY <1>1, <1>2, <1>5, TotalTyped
<1> QED
  BY <1>2, <1>3, <1>4, <1>6 DEF Totals

LEMMA SumsAreTotalsNext == Typed' /\ Stages' /\ Finite' => Totals'
BY SumsAreTotals, PTL

(* Before it is sent, a payout has no answer.                              *)
Unanswered ==
    \A d \in Disbursements : call[d].pc \in Early \cup {"reserved"} => call[d].answer = "none"

LEMMA NextUnanswered == Typed /\ Unanswered /\ [Next]_vars => Unanswered'
<1> SUFFICES ASSUME Typed, Unanswered, [Next]_vars, NEW d \in Disbursements,
                    call'[d].pc \in Early \cup {"reserved"}
             PROVE  call'[d].answer = "none"
  BY DEF Unanswered
<1>0. call[d] \in Call /\ (call[d].pc \in Early \cup {"reserved"} => call[d].answer = "none")
  BY DEF Typed, Unanswered
<1>1. CASE call'[d] = call[d]
  BY <1>0, <1>1
<1>2. ASSUME NEW e \in Disbursements, DisburseStep(e), call'[d] # call[d]
      PROVE  call'[d].answer = "none"
  <2>1. e = d
    BY <1>2 DEF DisburseStep, LockAndReadBalance, SumPending, CheckLimit, InsertReserved,
                ReserveFails, CallProvider, StoreAnswer, Typed
  <2>2. CASE LockAndReadBalance(d)
    BY <2>2 DEF LockAndReadBalance, Typed
  <2>3. CASE SumPending(d) \/ CheckLimit(d) \/ ReserveFails(d) \/ InsertReserved(d)
    <3>1. PICK pc \in Early \cup {"reserved"} : call' = [call EXCEPT ![d].pc = pc]
      BY <2>3 DEF SumPending, CheckLimit, ReserveFails, InsertReserved, Early
    <3>2. call'[d].answer = call[d].answer /\ call[d].pc \in Early
      BY <1>0, <2>3, <3>1
      DEF SumPending, CheckLimit, ReserveFails, InsertReserved, Early, Typed, Call
    <3> QED
      BY <1>0, <3>2
  <2>4. CASE CallProvider(d) \/ StoreAnswer(d)
    <3>1. call'[d].pc \in {"answered", "done"}
      BY <1>0, <2>4 DEF CallProvider, StoreAnswer, Typed, Call
    <3> QED
      BY <3>1 DEF Early
  <2> QED
    BY <1>2, <2>1, <2>2, <2>3, <2>4 DEF DisburseStep
<1>3. UNCHANGED call \/ \E e \in Disbursements : DisburseStep(e)
  BY DEF Next, vars, CallbackStep, CallbackRead, CallbackApply, CallbackFails,
         ProviderSettles, NextDay
<1> QED
  BY <1>1, <1>2, <1>3

LEMMA RegularByParts ==
    \A d \in Disbursements : d \in Regular <=> AtStakeOrPaid(d) /\ ~MisledAbout(d)
BY DEF Regular, AtStake, PaidOut, Misled, AtStakeOrPaid, MisledAbout

(* What a callback tells of a disbursement is not taken back.              *)
LEMMA ToldIsKept ==
    ASSUME Typed, Stages, [Next]_vars, NEW c \in Callbacks, callback[c].ref \in Disbursements
    PROVE  callback'[c].ref = callback[c].ref /\ callback'[c].status = callback[c].status
<1>0. callback[c] \in CallbackCall /\ callback[c].pc # "idle"
  BY DisbursementAssumption DEF Typed, Stages
<1>1. ASSUME NEW e \in Callbacks, CallbackStep(e)
      PROVE  callback'[c].ref = callback[c].ref /\ callback'[c].status = callback[c].status
  BY <1>0, <1>1 DEF CallbackStep, CallbackRead, CallbackApply, CallbackFails, Typed, CallbackCall
<1>2. UNCHANGED callback \/ \E e \in Callbacks : CallbackStep(e)
  BY DEF Next, vars, DisburseStep, LockAndReadBalance, SumPending, CheckLimit, ReserveFails,
         InsertReserved, CallProvider, StoreAnswer, ProviderSettles, NextDay
<1> QED
  BY <1>1, <1>2

(* Only a reservation that commits puts more at stake; nothing that was    *)
(* hidden from the platform, or went wrong, comes back.                    *)
LEMMA RegularShrinks ==
    ASSUME Typed, Stages, Unanswered, [Next]_vars, NEW d \in Disbursements, d \in Regular'
    PROVE  d \in Regular \/ InsertReserved(d)
<1>0. /\ call[d] \in Call /\ CallStage(d) /\ CallStage(d)'
      /\ AtStakeOrPaid(d)' /\ ~MisledAbout(d)'
      /\ \A c \in Callbacks : callback[c].ref = d =>
            callback'[c].ref = d /\ callback'[c].status = callback[c].status
  <2>1. AtStakeOrPaid(d)' /\ ~MisledAbout(d)'
    BY DEF Regular, AtStake, PaidOut, Misled, AtStakeOrPaid, MisledAbout
  <2> QED
    BY <2>1, NextCallStage, ToldIsKept DEF Typed, Stages, CallStage
<1>1. ASSUME provider'[d] = provider[d], call'[d].answer = call[d].answer,
             call'[d].pc = "reserved" => call[d].pc = "reserved"
      PROVE  d \in Regular
  BY <1>0, <1>1, RegularByParts DEF AtStakeOrPaid, MisledAbout
<1>2. CASE call'[d] = call[d] /\ provider'[d] = provider[d]
  BY <1>1, <1>2
<1>3. CASE DisburseStep(d)
  <2>1. CASE LockAndReadBalance(d) \/ SumPending(d) \/ CheckLimit(d) \/ ReserveFails(d)
    <3>1. call'[d].pc \in Early
      BY <1>0, <2>1 DEF LockAndReadBalance, SumPending, CheckLimit, ReserveFails, Typed, Call, Early
    <3> QED
      BY <1>0, <3>1 DEF CallStage, AtStakeOrPaid, Early
  <2>2. CASE CallProvider(d)
    <3>1. call[d].pc = "reserved" /\ call[d].answer = "none" /\ ~rows[d].ext
      BY <1>0, <2>2 DEF CallProvider, Unanswered, CallStage
    <3>2. \A c \in Callbacks : callback[c].ref # d
      BY <3>1, DisbursementAssumption DEF Stages
    <3> QED
      BY <3>1, <3>2, RegularByParts DEF AtStakeOrPaid, MisledAbout
  <2>3. CASE StoreAnswer(d)
    BY <1>0, <1>1, <2>3 DEF StoreAnswer, Typed, Call
  <2> QED
    BY <1>3, <2>1, <2>2, <2>3 DEF DisburseStep
<1>4. CASE ProviderSettles(d)
  <2>1. provider[d] = "open" /\ provider'[d] \in {"completed", "failed"} /\ UNCHANGED call
    BY <1>4 DEF ProviderSettles, Typed, Final
  <2>2. provider'[d] = "completed"
    BY <1>0, <2>1 DEF CallStage, AtStakeOrPaid
  <2> QED
    BY <1>0, <2>1, <2>2, RegularByParts DEF AtStakeOrPaid, MisledAbout
<1>5. ASSUME NEW e \in Disbursements \ {d}, DisburseStep(e) \/ ProviderSettles(e)
      PROVE  call'[d] = call[d] /\ provider'[d] = provider[d]
  BY <1>5 DEF DisburseStep, LockAndReadBalance, SumPending, CheckLimit, InsertReserved,
             ReserveFails, CallProvider, StoreAnswer, ProviderSettles, Typed
<1>6. CASE UNCHANGED <<call, provider>>
  BY <1>2, <1>6
<1>7. \/ UNCHANGED <<call, provider>>
      \/ \E e \in Disbursements : DisburseStep(e) \/ ProviderSettles(e)
  BY DEF Next, vars, CallbackStep, CallbackRead, CallbackApply, CallbackFails, NextDay
<1> QED
  BY <1>2, <1>3, <1>4, <1>5, <1>6, <1>7

(* The amount of a row is fixed, and a day that is over stays over.        *)
LEMMA AmountIsKept ==
    ASSUME Typed, Stages, [Next]_vars, NEW d \in Present
    PROVE  rows'[d].amount = rows[d].amount /\ (rows'[d].today => rows[d].today)
<1>0. d \in Disbursements /\ rows[d].status # "none" /\ rows[d] \in Row
  BY DEF Present, Typed
<1>1. CASE InsertReserved(d)
  BY <1>0, <1>1 DEF InsertReserved, Stages, Early
<1>2. CASE StoreAnswer(d)
  BY <1>0, <1>2 DEF StoreAnswer, Typed, Row
<1> QED
  BY <1>0, <1>1, <1>2, RowSteps DEF Row

(* A row that exists was there before, or has just been inserted.          *)
LEMMA PresentGrows ==
    ASSUME Typed, Stages, [Next]_vars, NEW d \in Present'
    PROVE  d \in Present \/ InsertReserved(d)
<1>0. d \in Disbursements /\ rows'[d].status # "none" /\ rows[d] \in Row
  BY DEF Present, Typed
<1>1. CASE StoreAnswer(d)
  BY <1>0, <1>1 DEF StoreAnswer, Stages, Present
<1>2. ASSUME NEW c \in Callbacks, CallbackApply(c), callback[c].ref = d PROVE d \in Present
  <2>1. rows[d].ext
    BY <1>2 DEF CallbackApply, Stages
  <2>2. call[d].pc = "done"
    BY <1>0, <2>1, FoundIsDone
  <2> QED
    BY <1>0, <2>2 DEF Stages, Present, Status, Open, Final
<1> QED
  BY <1>0, <1>1, <1>2, RowSteps DEF Row, Present

LEMMA NextUnfailed ==
    Typed /\ Stages /\ Unanswered /\ Unfailed /\ [Next]_vars => Unfailed'
<1> SUFFICES ASSUME Typed, Stages, Unanswered, Unfailed, [Next]_vars,
                    NEW d \in Regular', rows'[d].status = "failed"
             PROVE  FALSE
  BY DEF Unfailed
<1>0. /\ d \in Disbursements /\ rows[d] \in Row /\ call[d] \in Call
      /\ AtStakeOrPaid(d)' /\ ~MisledAbout(d)'
  BY DEF Regular, AtStake, PaidOut, Misled, AtStakeOrPaid, MisledAbout, Typed
<1>1. CASE InsertReserved(d)
  BY <1>0, <1>1 DEF InsertReserved, Typed
<1>2. CASE StoreAnswer(d)
  <2>1. /\ call'[d].pc = "done" /\ call'[d].answer = call[d].answer
        /\ provider'[d] \in {"open", "completed"}
        /\ UNCHANGED <<provider, callback>>
    BY <1>0, <1>2 DEF StoreAnswer, Typed, Call, AtStakeOrPaid
  <2>2. call[d].answer \in {"error", "failed"}
    BY <1>0, <1>2 DEF StoreAnswer, Typed, Row
  <2> QED
    BY <1>0, <2>1, <2>2 DEF MisledAbout
<1>3. ASSUME NEW c \in Callbacks, CallbackApply(c), callback[c].ref = d, ~StoreAnswer(d),
             rows'[d] = [rows[d] EXCEPT !.status = callback[c].status]
      PROVE  FALSE
  <2>1. callback'[c].ref = d /\ callback'[c].status = "failed"
    BY <1>0, <1>3, ToldIsKept DEF Row
  <2>2. provider'[d] = "failed"
    BY <1>0, <2>1 DEF MisledAbout
  <2>3. call[d].pc = "done" /\ UNCHANGED call
    <3>1. rows[d].ext
      BY <1>3 DEF CallbackApply, Stages
    <3> QED
      BY <1>0, <1>3, <3>1, FoundIsDone DEF CallbackApply
  <2> QED
    BY <1>0, <2>2, <2>3 DEF AtStakeOrPaid
<1>4. ASSUME rows'[d] = rows[d] \/ rows'[d] = [rows[d] EXCEPT !.today = FALSE],
             ~InsertReserved(d)
      PROVE  FALSE
  <2>1. d \in Regular /\ rows[d].status = "failed"
    BY <1>0, <1>4, RegularShrinks DEF Row
  <2> QED
    BY <2>1 DEF Unfailed
<1> QED
  BY <1>0, <1>1, <1>2, <1>3, <1>4, RowSteps

LEMMA NextFinite == Typed /\ Stages /\ Finite /\ [Next]_vars => Finite'
<1> SUFFICES ASSUME Typed, Stages, Finite, [Next]_vars PROVE Finite'
  OBVIOUS
<1>1. IsFiniteSet(Present')
  <2>1. CASE \E d \in Disbursements : InsertReserved(d)
    <3>1. PICK d \in Disbursements : InsertReserved(d)
      BY <2>1
    <3>2. \A e \in Disbursements : InsertReserved(e) => e = d
      BY <3>1 DEF InsertReserved, Typed, Call
    <3>3. Present' \in SUBSET (Present \cup {d})
      BY <3>2, PresentGrows DEF Present
    <3> QED
      BY <3>3, FS_AddElement, FS_Subset DEF Finite
  <2>2. CASE ~\E d \in Disbursements : InsertReserved(d)
    <3>1. Present' \in SUBSET Present
      BY <2>2, PresentGrows DEF Present
    <3> QED
      BY <3>1, FS_Subset DEF Finite
  <2> QED
    BY <2>1, <2>2
<1>2. IsFiniteSet(ledger')
  <2>1. ledger' = ledger \/ \E m : ledger' = ledger \cup {m}
    BY ApplyWrites, OthersDoNotWrite
  <2> QED
    BY <2>1, FS_AddElement DEF Finite
<1> QED
  BY <1>1, <1>2 DEF Finite

(* A call that reserves goes on alone, or starts when nobody does.         *)
LEMMA ReservingSteps ==
    ASSUME Typed, [Next]_vars, NEW d \in Disbursements, Reserving(d)'
    PROVE  \/ Reserving(d) /\ call'[d] = call[d]
           \/ LockAndReadBalance(d) \/ SumPending(d) \/ CheckLimit(d)
<1>0. call[d] \in Call
  BY DEF Typed
<1>1. CASE call'[d] = call[d]
  BY <1>1 DEF Reserving
<1>2. ASSUME NEW e \in Disbursements, DisburseStep(e), call'[d] # call[d]
      PROVE  LockAndReadBalance(d) \/ SumPending(d) \/ CheckLimit(d)
  <2>1. e = d
    BY <1>2 DEF DisburseStep, LockAndReadBalance, SumPending, CheckLimit, InsertReserved,
                ReserveFails, CallProvider, StoreAnswer, Typed
  <2>2. ~InsertReserved(d) /\ ~ReserveFails(d) /\ ~CallProvider(d) /\ ~StoreAnswer(d)
    BY <1>0 DEF InsertReserved, ReserveFails, CallProvider, StoreAnswer, Typed, Call, Reserving
  <2> QED
    BY <1>2, <2>1, <2>2 DEF DisburseStep
<1>3. UNCHANGED call \/ \E e \in Disbursements : DisburseStep(e)
  BY DEF Next, vars, CallbackStep, CallbackRead, CallbackApply, CallbackFails,
         ProviderSettles, NextDay
<1> QED
  BY <1>1, <1>2, <1>3

LEMMA NextOneReserves == Typed /\ OneReserves /\ [Next]_vars => OneReserves'
<1> SUFFICES ASSUME Typed, OneReserves, [Next]_vars,
                    NEW d \in Disbursements, NEW e \in Disbursements,
                    Reserving(d)', Reserving(e)'
             PROVE  d = e
  BY DEF OneReserves
<1>1. ASSUME NEW a \in Disbursements, NEW b \in Disbursements, LockAndReadBalance(a),
             Reserving(b)'
      PROVE  a = b
  <2>1. ~Reserving(b)
    BY <1>1 DEF LockAndReadBalance, Locked, Reserving
  <2>2. call'[b] # call[b]
    BY <1>1, <2>1 DEF Reserving
  <2> QED
    BY <1>1, <2>2 DEF LockAndReadBalance, Typed
<1>2. ASSUME NEW a \in Disbursements, Reserving(a)', ~LockAndReadBalance(a)
      PROVE  Reserving(a)
  BY <1>2, ReservingSteps DEF SumPending, CheckLimit, Reserving
<1> QED
  BY <1>1, <1>2 DEF OneReserves

(* Nobody else's commit comes in between the steps of a reservation.       *)
LEMMA LedgerIsLocked ==
    ASSUME Typed, Stages, [Next]_vars, NEW d \in Disbursements, Reserving(d)
    PROVE  ledger' = ledger
<1>1. Locked
  BY DEF Locked, Reserving
<1>2. ~\E c \in Callbacks : CallbackApply(c)
  BY <1>1 DEF CallbackApply
<1> QED
  BY <1>2, OthersDoNotWrite

(* Without an insert the sums only fall.                                   *)
LEMMA SumsFall ==
    ASSUME Typed, Stages, Unanswered, Finite, [Next]_vars, Typed', Stages', Finite',
           ~\E d \in Disbursements : InsertReserved(d)
    PROVE  SumOf(Regular)' <= SumOf(Regular) /\ SumOf(RegularToday)' <= SumOf(RegularToday)
<1>1. Totals /\ Totals'
  BY SumsAreTotals, SumsAreTotalsNext
<1>2. Regular' \in SUBSET Regular
  BY RegularShrinks DEF Regular, AtStake, PaidOut
<1>3. Regular \subseteq Present
  BY RegularIsPresent
<1>4. \A d \in Present : rows'[d].amount = rows[d].amount /\ (rows'[d].today => rows[d].today)
  BY AmountIsKept
<1>5. RegularToday' \in SUBSET RegularToday
  BY <1>2, <1>3, <1>4 DEF RegularToday
<1>6. Alike(Weights(rows'), Weights(rows), Present)
  BY <1>4 DEF Weights, Alike, Present
<1>7. \A d \in Regular : Weights(rows)[d] \in Nat
  BY <1>3 DEF Typed, Row, Weights, Present
<1>8. RegularToday \subseteq Regular
  BY DEF RegularToday
<1>9. Alike(Weights(rows'), Weights(rows), Regular')
      /\ Alike(Weights(rows'), Weights(rows), RegularToday')
  BY <1>2, <1>3, <1>5, <1>6, <1>8 DEF Alike
<1>10. /\ Total(Weights(rows'), Regular') = Total(Weights(rows), Regular')
       /\ Total(Weights(rows'), RegularToday') = Total(Weights(rows), RegularToday')
  BY <1>1, <1>9, TotalAlike DEF Totals
<1>11. Total(Weights(rows), Regular') <= Total(Weights(rows), Regular)
  BY <1>1, <1>2, <1>7, TotalMonotone DEF Totals
<1>12. Total(Weights(rows), RegularToday') <= Total(Weights(rows), RegularToday)
  BY <1>1, <1>5, <1>7, <1>8, TotalMonotone DEF Totals
<1> QED
  BY <1>1, <1>10, <1>11, <1>12 DEF Totals

(* An insert adds the amount of one call to them.                          *)
LEMMA SumsRise ==
    ASSUME Typed, Stages, Unanswered, Finite, [Next]_vars, Typed', Stages', Finite',
           NEW d \in Disbursements, InsertReserved(d)
    PROVE  /\ SumOf(Regular)' <= SumOf(Regular) + call[d].amount
           /\ SumOf(RegularToday)' <= SumOf(RegularToday) + call[d].amount
<1>1. Totals /\ Totals'
  BY SumsAreTotals, SumsAreTotalsNext
<1>2. \A e \in Disbursements : InsertReserved(e) => e = d
  BY DEF InsertReserved, Typed, Call
<1>3. Regular' \in SUBSET (Regular \cup {d})
  BY <1>2, RegularShrinks DEF Regular, AtStake, PaidOut
<1>4. Regular \subseteq Present /\ d \notin Present
  BY RegularIsPresent DEF InsertReserved, Stages, Early, Present
<1>5. \A e \in Present : rows'[e].amount = rows[e].amount /\ (rows'[e].today => rows[e].today)
  BY AmountIsKept
<1>6. RegularToday' \in SUBSET (RegularToday \cup {d})
  BY <1>3, <1>4, <1>5 DEF RegularToday
<1>7. Alike(Weights(rows'), Weights(rows), Regular)
  BY <1>4, <1>5 DEF Weights, Alike, Present
<1>8. RegularToday \subseteq Regular
  BY DEF RegularToday
<1>9. Alike(Weights(rows'), Weights(rows), RegularToday)
  BY <1>7, <1>8 DEF Alike
<1>10. /\ Total(Weights(rows'), Regular) = Total(Weights(rows), Regular)
       /\ Total(Weights(rows'), RegularToday) = Total(Weights(rows), RegularToday)
  BY <1>1, <1>7, <1>9, TotalAlike DEF Totals
<1>11. \A e \in Disbursements : Weights(rows')[e] \in Nat
  BY DEF Typed, Row, Weights
<1>12. Weights(rows')[d] = call[d].amount
  BY DEF InsertReserved, Typed, Weights
<1>13. Regular \subseteq Disbursements
  BY <1>4 DEF Present
<1>14. /\ Total(Weights(rows'), Regular \cup {d}) = call[d].amount + Total(Weights(rows'), Regular)
       /\ Total(Weights(rows'), RegularToday \cup {d})
            = call[d].amount + Total(Weights(rows'), RegularToday)
  <2>1. d \notin Regular /\ d \notin RegularToday
    BY <1>4, <1>8
  <2>2. /\ \A y \in Regular \cup {d} : Weights(rows')[y] \in Nat
        /\ \A y \in RegularToday \cup {d} : Weights(rows')[y] \in Nat
    BY <1>8, <1>11, <1>13
  <2>3. IsFiniteSet(Regular) /\ IsFiniteSet(RegularToday)
    BY <1>1 DEF Totals
  <2>4. Total(Weights(rows'), Regular \cup {d})
           = Weights(rows')[d] + Total(Weights(rows'), Regular)
    BY <2>1, <2>2, <2>3, TotalAdd
  <2>5. Total(Weights(rows'), RegularToday \cup {d})
           = Weights(rows')[d] + Total(Weights(rows'), RegularToday)
    BY <2>1, <2>2, <2>3, TotalAdd
  <2> QED
    BY <1>12, <2>4, <2>5
<1>15. IsFiniteSet(Regular \cup {d}) /\ IsFiniteSet(RegularToday \cup {d})
  BY <1>1, FS_AddElement DEF Totals
<1>16. /\ Total(Weights(rows'), Regular') <= Total(Weights(rows'), Regular \cup {d})
       /\ Total(Weights(rows'), RegularToday') <= Total(Weights(rows'), RegularToday \cup {d})
  BY <1>3, <1>6, <1>8, <1>11, <1>13, <1>15, TotalMonotone
<1>17. call[d].amount \in Nat
  BY DEF Typed, Call
<1> QED
  BY <1>1, <1>10, <1>14, <1>16, <1>17 DEF Totals

(* What is read of the balance is a number.                                *)
SeenTyped == seen \in [Disbursements -> Int]

LEMMA BalanceIsNumber ==
    ASSUME Typed, Finite
    PROVE  /\ GetBalance = Opening - EntrySum(ledger)
           /\ EntrySum(ledger) = Total([m \in ledger |-> m.amount], ledger)
           /\ EntrySum(ledger) \in Nat /\ GetBalance \in Int
<1>1. GetBalance = Opening - EntrySum(ledger)
  BY DEF GetBalance, EntrySum, MapThenSumSet, MapThenFoldSet
<1>2. EntrySum(ledger) = Total([m \in ledger |-> m.amount], ledger)
  BY AmountsOfEntries DEF Finite
<1>3. \A m \in ledger : [n \in ledger |-> n.amount][m] \in Nat
  BY DEF Typed
<1>4. Total([m \in ledger |-> m.amount], ledger) \in Nat
  BY <1>3, TotalTyped DEF Finite
<1> QED
  BY <1>1, <1>2, <1>4, DisbursementAssumption

(* What is at stake is reserved or debited, so that it is covered by the   *)
(* two sums of a reservation, however many entries there are and whatever  *)
(* fees they include.                                                      *)
LEMMA StakesAreSummed ==
    ASSUME Typed, Stages, Books, PayoutsAreCovered, Finite
    PROVE  /\ SumPendingDisbursements \in Nat
           /\ SumOf(Regular) <= SumPendingDisbursements + EntrySum(ledger)
<1> DEFINE A == {d \in Disbursements : rows[d].status \in Open}
           name == [m \in ledger |-> m.ref]
           v == [m \in ledger |-> m.amount]
<1>1. A \in SUBSET Present /\ A \in SUBSET Disbursements
  BY DEF Present, Open
<1>2. IsFiniteSet(A)
  BY <1>1, FS_Subset DEF Finite
<1>3. SumPendingDisbursements = RowSum(rows, A)
  BY DEF SumPendingDisbursements, SumOf, RowSum, MapThenSumSet, MapThenFoldSet
<1>4. RowSum(rows, A) = Total(Weights(rows), A)
  BY <1>1, <1>2, AmountsOfRows DEF Weights
<1>5. Totals /\ Regular \subseteq Present /\ IsFiniteSet(ledger)
  BY SumsAreTotals, RegularIsPresent DEF Finite
<1>6. Regular \subseteq A \cup {name[m] : m \in ledger}
  BY DEF PayoutsAreCovered, Debited, Regular, AtStake, PaidOut
<1>7. \A d \in A \cup Regular : Weights(rows)[d] \in Nat
  BY <1>5 DEF Present, Typed, Row, Weights
<1>8. \A m \in ledger : v[m] \in Nat /\ Weights(rows)[name[m]] <= v[m]
  <2> TAKE m \in ledger
  <2>1. /\ m.ref \in Disbursements /\ m.amount \in Nat
        /\ m.amount = rows[m.ref].amount + rows[m.ref].fee
    BY DEF Typed, Books
  <2>2. rows[m.ref].amount \in Nat /\ rows[m.ref].fee \in Nat
    <3>1. rows[m.ref] \in Row
      BY <2>1 DEF Typed
    <3>2. Charge \subseteq Nat
      BY DisbursementAssumption DEF Charge
    <3>3. rows[m.ref].amount \in Nat /\ rows[m.ref].fee \in Charge
      BY <3>1 DEF Row
    <3> QED
      BY <3>2, <3>3
  <2> QED
    BY <2>1, <2>2 DEF Weights
<1> HIDE DEF A, name, v
<1>9. Total(Weights(rows), Regular) <= Total(Weights(rows), A) + Total(v, ledger)
  BY <1>2, <1>5, <1>6, <1>7, <1>8, TotalCovered DEF Totals
<1>10. Total(Weights(rows), A) \in Nat
  BY <1>2, <1>7, TotalTyped
<1>11. EntrySum(ledger) = Total(v, ledger)
  BY BalanceIsNumber DEF v
<1> QED
  BY <1>3, <1>4, <1>5, <1>9, <1>10, <1>11 DEF Totals

(* The same for the limit: what is at stake of today is summed.            *)
LEMMA TodayIsSummed ==
    ASSUME Typed, Stages, Unfailed, Finite
    PROVE  /\ SumDisbursementsToday \in Nat
           /\ SumOf(RegularToday) <= SumDisbursementsToday
<1> DEFINE A == {d \in Disbursements : rows[d].today /\ rows[d].status \in Status \ {"failed"}}
<1>1. A \in SUBSET Present /\ A \in SUBSET Disbursements
  BY DEF Present, Status, Open, Final
<1>2. IsFiniteSet(A)
  BY <1>1, FS_Subset DEF Finite
<1>3. SumDisbursementsToday = RowSum(rows, A)
  BY DEF SumDisbursementsToday, SumOf, RowSum, MapThenSumSet, MapThenFoldSet
<1>4. RowSum(rows, A) = Total(Weights(rows), A)
  BY <1>1, <1>2, AmountsOfRows DEF Weights
<1>5. Totals /\ Regular \subseteq Present
  BY SumsAreTotals, RegularIsPresent
<1>6. RegularToday \in SUBSET A
  BY <1>5 DEF RegularToday, Unfailed, Present, Typed, Row, Regular, AtStake, PaidOut
<1>7. \A d \in A : Weights(rows)[d] \in Nat
  BY DEF Typed, Row, Weights
<1> HIDE DEF A
<1>8. Total(Weights(rows), RegularToday) <= Total(Weights(rows), A)
  BY <1>2, <1>6, <1>7, TotalMonotone
<1>9. Total(Weights(rows), A) \in Nat
  BY <1>2, <1>7, TotalTyped
<1> QED
  BY <1>3, <1>4, <1>5, <1>8, <1>9 DEF Totals

LEMMA NextSeenTyped == Typed /\ Finite /\ SeenTyped /\ [Next]_vars => SeenTyped'
<1> SUFFICES ASSUME Typed, Finite, SeenTyped, [Next]_vars PROVE SeenTyped'
  OBVIOUS
<1>1. GetBalance \in Int
  BY BalanceIsNumber
<1>2. \/ UNCHANGED seen
      \/ \E d \in Disbursements : \E n \in {0, GetBalance} : seen' = [seen EXCEPT ![d] = n]
  BY DEF Next, vars, DisburseStep, LockAndReadBalance, SumPending, CheckLimit, ReserveFails,
         InsertReserved, CallProvider, StoreAnswer, CallbackStep, CallbackRead, CallbackApply,
         CallbackFails, ProviderSettles, NextDay
<1> QED
  BY <1>1, <1>2 DEF SeenTyped

(* The invariant of the reservation.                                       *)
Reservation ==
    /\ Finite /\ SeenTyped /\ Unanswered /\ OneReserves /\ Unfailed /\ ReadHolds
    /\ FundsSuffice /\ DailyLimitKept

LEMMA NextReadHolds == Safe /\ Reservation /\ [Next]_vars /\ Safe' /\ Finite' => ReadHolds'
<1> SUFFICES ASSUME Safe, Reservation, [Next]_vars, Safe', Finite',
                    NEW d \in Disbursements, Reserving(d)'
             PROVE  /\ call'[d].pc = "balance" => seen'[d] = GetBalance'
                    /\ call'[d].pc \in {"summed", "checked"} =>
                          SumOf(Regular)' + call'[d].amount <= Opening
                    /\ call'[d].pc = "checked" /\ DailyLimit > 0 =>
                          SumOf(RegularToday)' + call'[d].amount <= DailyLimit
  BY DEF ReadHolds, Reserving
<1>0. /\ call[d] \in Call /\ Typed /\ Stages /\ Typed' /\ Stages' /\ Finite
      /\ Unanswered /\ OneReserves /\ ReadHolds /\ Unfailed /\ Books /\ PayoutsAreCovered
      /\ SeenTyped
  BY DEF Safe, Reservation, Typed
<1>1. Totals /\ Totals' /\ Opening \in Nat /\ DailyLimit \in Nat /\ call[d].amount \in Nat
  BY <1>0, SumsAreTotals, SumsAreTotalsNext, DisbursementAssumption DEF Call
<1>2. ASSUME Reserving(d)
      PROVE  /\ SumOf(Regular)' <= SumOf(Regular)
             /\ SumOf(RegularToday)' <= SumOf(RegularToday)
             /\ ledger' = ledger
  <2>1. ~\E e \in Disbursements : InsertReserved(e)
    <3> SUFFICES ASSUME NEW e \in Disbursements, InsertReserved(e) PROVE FALSE
      OBVIOUS
    <3>1. e = d
      BY <1>0, <1>2 DEF InsertReserved, OneReserves, Reserving
    <3>2. call'[d].pc = "reserved"
      BY <1>0, <3>1 DEF InsertReserved, Typed, Call
    <3> QED
      BY <3>2 DEF Reserving
  <2> QED
    BY <1>0, <1>2, <2>1, SumsFall, LedgerIsLocked
<1>3. ASSUME ledger' = ledger PROVE GetBalance' = GetBalance
  BY <1>3 DEF GetBalance, MapThenSumSet, MapThenFoldSet
<1>4. CASE Reserving(d) /\ call'[d] = call[d]
  <2>1. call[d].pc = "balance" => seen'[d] = seen[d]
    <3>1. ASSUME NEW e \in Disbursements, DisburseStep(e), call[d].pc = "balance"
          PROVE  seen'[d] = seen[d]
      <4>1. CASE e # d
        BY <1>0, <3>1, <4>1 DEF DisburseStep, LockAndReadBalance, SumPending, CheckLimit,
            InsertReserved, ReserveFails, CallProvider, StoreAnswer, SeenTyped
      <4>2. CASE e = d
        BY <1>0, <1>4, <3>1, <4>2 DEF DisburseStep, LockAndReadBalance, SumPending, CheckLimit,
            InsertReserved, ReserveFails, CallProvider, StoreAnswer, Typed, Call
      <4> QED
        BY <4>1, <4>2
    <3>2. UNCHANGED seen \/ \E e \in Disbursements : DisburseStep(e)
      BY DEF Next, vars, CallbackStep, CallbackRead, CallbackApply, CallbackFails,
             ProviderSettles, NextDay
    <3> QED
      BY <3>1, <3>2
  <2> QED
    BY <1>0, <1>1, <1>2, <1>3, <1>4, <2>1 DEF ReadHolds, Totals
<1>5. CASE LockAndReadBalance(d)
  <2>1. call'[d].pc = "balance" /\ seen'[d] = GetBalance /\ ledger' = ledger
    BY <1>0, <1>5 DEF LockAndReadBalance, Typed, SeenTyped
  <2> QED
    BY <1>3, <2>1
<1>6. CASE SumPending(d)
  <2>1. /\ call[d].pc = "balance" /\ call'[d].amount = call[d].amount
        /\ call'[d].pc # "balance" /\ call'[d].pc # "checked"
        /\ call'[d].pc = "summed" => ~(seen[d] - SumPendingDisbursements < call[d].amount)
    BY <1>0, <1>6 DEF SumPending, Typed, Call
  <2>2. Reserving(d) /\ seen[d] = Opening - EntrySum(ledger) /\ EntrySum(ledger) \in Nat
    BY <1>0, <2>1, BalanceIsNumber DEF Reserving, ReadHolds
  <2>3. /\ SumPendingDisbursements \in Nat
        /\ SumOf(Regular) <= SumPendingDisbursements + EntrySum(ledger)
    BY <1>0, StakesAreSummed
  <2> QED
    BY <1>1, <1>2, <2>1, <2>2, <2>3 DEF Totals
<1>7. CASE CheckLimit(d)
  <2>1. /\ call[d].pc = "summed" /\ call'[d].amount = call[d].amount
        /\ call'[d].pc # "balance"
        /\ call'[d].pc = "checked" => WithinLimit(call[d].amount)
    BY <1>0, <1>7 DEF CheckLimit, Typed, Call
  <2>2. Reserving(d) /\ SumOf(Regular) + call[d].amount <= Opening
    BY <1>0, <2>1 DEF Reserving, ReadHolds
  <2>3. SumDisbursementsToday \in Nat /\ SumOf(RegularToday) <= SumDisbursementsToday
    BY <1>0, TodayIsSummed
  <2> QED
    BY <1>1, <1>2, <2>1, <2>2, <2>3 DEF Totals, WithinLimit
<1> QED
  BY <1>0, <1>4, <1>5, <1>6, <1>7, ReservingSteps

LEMMA NextFunds ==
    Safe /\ Reservation /\ [Next]_vars /\ Safe' /\ Finite' => FundsSuffice' /\ DailyLimitKept'
<1> SUFFICES ASSUME Safe, Reservation, [Next]_vars, Safe', Finite'
             PROVE  FundsSuffice' /\ DailyLimitKept'
  OBVIOUS
<1>0. /\ Typed /\ Stages /\ Typed' /\ Stages' /\ Finite /\ Unanswered /\ ReadHolds
      /\ Totals /\ Totals' /\ Opening \in Nat /\ DailyLimit \in Nat
  BY SumsAreTotals, SumsAreTotalsNext, DisbursementAssumption DEF Safe, Reservation
<1>1. SumOf(Regular) <= Opening /\ (DailyLimit > 0 => SumOf(RegularToday) <= DailyLimit)
  BY DEF Reservation, FundsSuffice, DailyLimitKept, RegularToday
<1>2. SumOf(Regular)' <= Opening /\ (DailyLimit > 0 => SumOf(RegularToday)' <= DailyLimit)
  <2>1. CASE ~\E d \in Disbursements : InsertReserved(d)
    BY <1>0, <1>1, <2>1, SumsFall DEF Totals
  <2>2. ASSUME NEW d \in Disbursements, InsertReserved(d)
        PROVE  SumOf(Regular)' <= Opening
                 /\ (DailyLimit > 0 => SumOf(RegularToday)' <= DailyLimit)
    <3>1. /\ SumOf(Regular) + call[d].amount <= Opening
          /\ DailyLimit > 0 => SumOf(RegularToday) + call[d].amount <= DailyLimit
          /\ call[d].amount \in Nat
      BY <1>0, <2>2 DEF InsertReserved, ReadHolds, Typed, Call
    <3> QED
      BY <1>0, <2>2, <3>1, SumsRise DEF Totals
  <2> QED
    BY <2>1, <2>2
<1> QED
  BY <1>2 DEF FundsSuffice, DailyLimitKept, RegularToday

LEMMA InitReservation == Init => Reservation
<1> SUFFICES ASSUME Init PROVE Reservation
  OBVIOUS
<1>1. Typed /\ Stages
  BY InitTyped, InitStages
<1>2. Finite /\ Present = {}
  <2>1. Present = {} /\ ledger = {}
    BY DEF Init, Present, NoRow
  <2> QED
    BY <2>1, FS_EmptySet DEF Finite
<1>3. Regular = {} /\ RegularToday = {}
  BY <1>1, <1>2, RegularIsPresent DEF RegularToday
<1>4. SumOf(Regular) = 0 /\ SumOf(RegularToday) = 0
  BY <1>1, <1>2, <1>3, SumsAreTotals, TotalEmpty DEF Totals
<1>5. FundsSuffice /\ DailyLimitKept
  BY <1>4, DisbursementAssumption DEF FundsSuffice, DailyLimitKept, RegularToday
<1>6. SeenTyped /\ Unanswered /\ OneReserves /\ Unfailed /\ ReadHolds
  BY <1>3 DEF Init, SeenTyped, Unanswered, OneReserves, Unfailed, ReadHolds, Reserving
<1> QED
  BY <1>2, <1>5, <1>6 DEF Reservation

LEMMA ReservationInvariant == Spec => [](Safe /\ Reservation)
<1>1. Init => Reservation
  BY InitReservation
<1>2. Safe /\ Reservation /\ [Next]_vars /\ Safe' => Reservation'
  <2>1. Safe /\ Reservation /\ [Next]_vars /\ Safe' => Finite'
    BY NextFinite DEF Safe, Reservation
  <2> QED
    BY <2>1, NextSeenTyped, NextUnanswered, NextOneReserves, NextUnfailed, NextReadHolds,
       NextFunds DEF Safe, Reservation
<1> QED
  BY <1>1, <1>2, SafeInvariant, PTL DEF Spec

(* Every variable of Disbursement, the balance a reservation has read      *)
(* included, always stays within its type (disbursement.go:62-186,         *)
(* 251-322).                                                               *)
THEOREM TypeCorrect == Spec => []TypeOK
<1>1. Safe /\ Reservation => TypeOK
  <2> SUFFICES ASSUME Safe, Reservation PROVE TypeOK
    OBVIOUS
  <2>1. Typed /\ seen \in [Disbursements -> Int]
    BY DEF Safe, Reservation, SeenTyped
  <2>2. Charge \subseteq Nat
    BY DisbursementAssumption DEF Charge
  <2>3. /\ Row \subseteq [status : Status \cup {"none"}, amount : Nat, fee : Nat,
                          ext : BOOLEAN, today : BOOLEAN]
        /\ Call \subseteq [pc : {"idle", "balance", "summed", "checked", "reserved",
                                 "answered", "done", "rejected"},
                           amount : Nat, fee : Nat, answer : Status \cup {"none", "error"}]
        /\ [id : Callbacks, ref : Disbursements, status : Status, fee : Charge]
             \subseteq [id : Callbacks, ref : Disbursements, status : Status, fee : Nat]
    BY <2>2 DEF Row, Call, Early
  <2> QED
    BY <2>1, <2>3 DEF Typed, TypeOK, CallbackCall
<1> QED
  BY <1>1, ReservationInvariant, PTL

(* The payouts made, and those that may still be made, never add up to     *)
(* more than what came in, for any number of concurrent requests and late, *)
(* repeated or reordered callbacks (disbursement.go:96-117).               *)
THEOREM FundsAreSufficient == Spec => []FundsSuffice
<1>1. Safe /\ Reservation => FundsSuffice
  BY DEF Reservation
<1> QED
  BY <1>1, ReservationInvariant, PTL

(* Nor do the payouts requested in one day exceed the limit of the         *)
(* merchant (disbursement.go:118-129).                                     *)
THEOREM DailyLimitIsKept == Spec => []DailyLimitKept
<1>1. Safe /\ Reservation => DailyLimitKept
  BY DEF Reservation
<1> QED
  BY <1>1, ReservationInvariant, PTL

-----------------------------------------------------------------------------
(* Final rows                                                              *)

(* The late answer to Disburse finds the row "pending"; only a callback    *)
(* that had read the row earlier overwrites a final one                    *)
(* (disbursement.go:160-178, 261-280).                                     *)
THEOREM FinalRowsAreLostOnlyToCallback == Spec => FinalLostOnlyToCallback
<1> DEFINE Kept(d) ==
      rows[d].status \in Final /\ rows'[d].status # rows[d].status =>
         \E c \in Callbacks :
            callback[c].pc = "read" /\ callback[c].ref = d /\ callback'[c].pc = "acked"
<1>1. Safe /\ [Next]_vars => [\A d \in Disbursements : Kept(d)]_vars
  <2> SUFFICES ASSUME Typed, Stages, [Next]_vars, NEW d \in Disbursements,
                      rows[d].status \in Final, rows'[d].status # rows[d].status
               PROVE  \E c \in Callbacks :
                         callback[c].pc = "read" /\ callback[c].ref = d /\ callback'[c].pc = "acked"
    BY DEF Safe
  <2>1. rows[d] \in Row
    BY DEF Typed
  <2>2. ~InsertReserved(d) /\ ~StoreAnswer(d)
    BY DEF InsertReserved, StoreAnswer, Stages, Early, Final
  <2>3. rows'[d] # rows[d] /\ rows'[d] # [rows[d] EXCEPT !.today = FALSE]
    BY <2>1 DEF Row
  <2>4. PICK c \in Callbacks : CallbackApply(c) /\ callback[c].ref = d
    BY <2>2, <2>3, RowSteps
  <2>5. callback[c].pc = "read" /\ callback'[c].pc = "acked"
    BY <2>4, ApplyWrites
  <2> QED
    BY <2>4, <2>5
<1> QED
  BY <1>1, SafeInvariant, PTL DEF Spec, FinalLostOnlyToCallback

-----------------------------------------------------------------------------
(* Disbursement implements Settlement                                      *)

(* An entry, and an event, as Settlement knows them.                       *)
AsEntry(m) == [id |-> m.id, ref |-> m.ref, fee |-> m.amount - rows[m.ref].amount]

AsNotice(n) == [id |-> n.id, ref |-> n.ref, fee |-> n.fee]

LEMMA EntriesKept ==
    ASSUME Typed, Stages, Books, [Next]_vars
    PROVE  {AsEntry(m)' : m \in ledger} = {AsEntry(m) : m \in ledger}
<1>1. ASSUME NEW m \in ledger PROVE AsEntry(m)' = AsEntry(m)
  <2>1. m.ref \in Disbursements /\ rows[m.ref].ext
    BY DEF Typed, Books
  <2> QED
    BY <2>1, FoundIsKept DEF AsEntry
<1> QED
  BY <1>1

(* The step of a callback that debits books the entry.                     *)
LEMMA DebitBooks ==
    ASSUME Safe, [Next]_vars, NEW c \in Callbacks, CallbackApply(c)
    PROVE  [Abstract!Next]_(Abstract!vars)
<1> USE DEF Safe
<1>p. PICK d \in Disbursements, s \in Status :
        LET m == [id |-> c, ref |-> d, amount |-> rows[d].amount + rows[d].fee]
            n == [id |-> c, ref |-> d, status |-> s, fee |-> rows[d].fee]
        IN  /\ d = callback[c].ref /\ s = callback[c].status /\ rows[d].ext
            /\ outbox' = outbox \cup {n}
            /\ \/ s = "completed" /\ ~Debited(d) /\ ledger' = ledger \cup {m}
               \/ s # "completed" /\ ledger' = ledger
            /\ UNCHANGED provider
  BY ApplyWrites
<1>m. PICK m : m = [id |-> c, ref |-> d, amount |-> rows[d].amount + rows[d].fee]
  OBVIOUS
<1>n. PICK n : n = [id |-> c, ref |-> d, status |-> s, fee |-> rows[d].fee]
  OBVIOUS
<1>e. PICK e : e = [id |-> c, ref |-> d, fee |-> rows[d].fee]
  OBVIOUS
<1>1. /\ outbox' = outbox \cup {n} /\ n.status = s /\ AsNotice(n) = e
      /\ \/ s = "completed" /\ ~Debited(d) /\ ledger' = ledger \cup {m}
         \/ s # "completed" /\ ledger' = ledger
  BY <1>p, <1>m, <1>n, <1>e DEF AsNotice
<1>2. PaidOut' = PaidOut
  BY <1>p DEF PaidOut
<1>3. AsEntry(m)' = e
  <2>1. rows'[d].amount = rows[d].amount
    BY <1>p, FoundIsKept
  <2>2. rows[d].amount \in Nat /\ rows[d].fee \in Nat
    <3>1. rows[d] \in Row /\ Charge \subseteq Nat
      BY DisbursementAssumption DEF Typed, Charge
    <3> QED
      BY <3>1 DEF Row
  <2> QED
    BY <1>m, <1>e, <2>1, <2>2 DEF AsEntry
<1>4. CASE s # "completed"
  <2>1. Completions' = Completions
    BY <1>1, <1>4 DEF Completions
  <2>2. {AsEntry(k)' : k \in ledger'} = {AsEntry(k) : k \in ledger}
    BY <1>1, <1>4, EntriesKept
  <2> QED
    BY <1>2, <2>1, <2>2 DEF Abstract!vars, Completions, AsEntry
<1>5. CASE s = "completed"
  <2>1. Completions' = Completions \cup {n}
    BY <1>1, <1>5 DEF Completions
  <2>2. {AsNotice(o) : o \in Completions'} = {AsNotice(o) : o \in Completions} \cup {e}
    BY <1>1, <2>1
  <2>3. {AsEntry(k)' : k \in ledger'} = {AsEntry(k) : k \in ledger} \cup {e}
    BY <1>1, <1>3, <1>5, EntriesKept
  <2>4. e \in Abstract!Entry
    <3>1. rows[d] \in Row
      BY DEF Typed
    <3> QED
      BY <1>e, <3>1 DEF Abstract!Entry, Row, Charge
  <2>5. e.ref \in PaidOut
    BY <1>p, <1>e, <1>5 DEF Stages, PaidOut
  <2>6. \A f \in {AsEntry(k) : k \in ledger} : f.ref # e.ref
    BY <1>1, <1>5, <1>e DEF Debited, AsEntry
  <2>7. Abstract!Book(e)
    BY <1>2, <2>2, <2>3, <2>4, <2>5, <2>6
       DEF Abstract!Book, PaidOut, Completions, AsEntry, AsNotice
  <2> QED
    BY <2>4, <2>7 DEF Abstract!Next
<1> QED
  BY <1>4, <1>5

(* The provider pays out one at a time.                                    *)
LEMMA PaysOutOne ==
    ASSUME Typed, Stages, [Next]_vars
    PROVE  \/ PaidOut' = PaidOut
           \/ \E d \in Disbursements \ PaidOut : PaidOut' = PaidOut \cup {d}
<1>1. CASE UNCHANGED provider
  BY <1>1 DEF PaidOut
<1>2. ASSUME NEW d \in Disbursements, CallProvider(d) \/ ProviderSettles(d)
      PROVE  \/ PaidOut' = PaidOut
             \/ \E e \in Disbursements \ PaidOut : PaidOut' = PaidOut \cup {e}
  <2>1. PICK fate : provider' = [provider EXCEPT ![d] = fate]
    BY <1>2 DEF CallProvider, ProviderSettles
  <2>2. d \in Disbursements \ PaidOut
    BY <1>2 DEF CallProvider, ProviderSettles, Stages, PaidOut
  <2>3. CASE fate = "completed"
    <3>1. PaidOut' = PaidOut \cup {d}
      BY <2>1, <2>2, <2>3 DEF PaidOut, Typed
    <3> QED
      BY <2>2, <3>1
  <2>4. CASE fate # "completed"
    BY <2>1, <2>2, <2>4 DEF PaidOut, Typed
  <2> QED
    BY <2>3, <2>4
<1>3. \/ UNCHANGED provider
      \/ \E e \in Disbursements : CallProvider(e) \/ ProviderSettles(e)
  BY DEF Next, vars, DisburseStep, CallbackStep, LockAndReadBalance, SumPending, CheckLimit,
         ReserveFails, InsertReserved, StoreAnswer, CallbackRead, CallbackApply, CallbackFails,
         NextDay
<1> QED
  BY <1>1, <1>2, <1>3

(* Under the refinement mapping every behaviour of Disbursement is one of  *)
(* Settlement: a debit for a payout that was made, once, in one step with  *)
(* the event that names its fee (disbursement.go:277-321).                 *)
THEOREM DisbursementImplementsSettlement == Spec => ImplementsSettlement
<1>1. Init => Abstract!Init
  BY DEF Init, Abstract!Init, PaidOut
<1>2. Safe /\ [Next]_vars => [Abstract!Next]_(Abstract!vars)
  <2> SUFFICES ASSUME Safe, [Next]_vars, ~\E c \in Callbacks : CallbackApply(c)
               PROVE  [Abstract!Next]_(Abstract!vars)
    BY DebitBooks
  <2>1. UNCHANGED <<ledger, outbox>>
    BY OthersDoNotWrite
  <2>2. {AsEntry(m)' : m \in ledger} = {AsEntry(m) : m \in ledger}
    BY EntriesKept DEF Safe
  <2>3. CASE PaidOut' = PaidOut
    BY <2>1, <2>2, <2>3 DEF Abstract!vars, AsEntry
  <2>4. ASSUME NEW d \in Disbursements \ PaidOut, PaidOut' = PaidOut \cup {d}
        PROVE  Abstract!Next
    <3>1. Abstract!Settle(d)
      BY <2>1, <2>2, <2>4 DEF Abstract!Settle, AsEntry
    <3> QED
      BY <3>1 DEF Abstract!Next
  <2> QED
    BY <2>3, <2>4, PaysOutOne DEF Safe
<1> QED
  BY <1>1, <1>2, SafeInvariant, PTL DEF Spec, ImplementsSettlement, Abstract!Spec
=============================================================================
