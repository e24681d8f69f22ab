---------------------------- MODULE Disbursement ----------------------------
(***************************************************************************)
(* Cash-out (internal/usecase/impl/disbursement.go) for one merchant:      *)
(* Disburse calls, each with the row it inserts, and the callbacks of the  *)
(* provider.                                                               *)
(*                                                                         *)
(* The reservation is a transaction of several steps.  It holds the lock   *)
(* on the merchant (FOR UPDATE) from its first statement to its end, so    *)
(* that another reservation waits; under READ COMMITTED each of its sums   *)
(* sees what was committed before it.  The callback's transaction is one   *)
(* step, since its first statement writes the row; it asks for no lock on  *)
(* the merchant, but its inserts do: the foreign keys mutations.merchant_id*)
(* and outbox.merchant_id take FOR KEY SHARE, which waits for FOR UPDATE.  *)
(*                                                                         *)
(* A call that crashes, or fails to write what it wants to, simply never   *)
(* takes its next step.                                                    *)
(***************************************************************************)
EXTENDS Integers, FiniteSets, FiniteSetsExt

CONSTANTS Disbursements, \* Disburse calls, and the ids of their rows
          Callbacks,     \* callback HTTP requests
          NoRef,         \* the disbursement of a callback that has not come
          Opening,       \* what the payments have brought in
          DailyLimit,    \* merchants.daily_cashout_limit, 0 for none
          Amounts,       \* amounts that are requested
          Fees           \* what FeeResolver.ResolveDisbursement may answer

Open   == {"pending", "processing"}
Final  == {"completed", "failed"}
Status == Open \cup Final

ASSUME DisbursementAssumption ==
    /\ NoRef \notin Disbursements
    /\ Opening \in Nat /\ DailyLimit \in Nat
    /\ Amounts \subseteq Nat \ {0}
    /\ Fees \subseteq Nat

VARIABLES rows,         \* table disbursements; "today": created_at is today
          ledger,       \* table mutations (cash_out rows)
          outbox,       \* table outbox (rows inserted for disbursements)
          provider,     \* the payout at the provider
          call,         \* Disburse calls
          seen,         \* the balance that a call has read and not yet used
          callback      \* HandleDisbursementCallback calls

vars == <<rows, ledger, outbox, provider, call, seen, callback>>

NoRow == [status |-> "none", amount |-> 0, fee |-> 0, ext |-> FALSE, today |-> FALSE]

Init ==
    /\ rows = [d \in Disbursements |-> NoRow]
    /\ ledger = {}
    /\ outbox = {}
    /\ provider = [d \in Disbursements |-> "none"]
    /\ call = [d \in Disbursements |-> [pc |-> "idle", amount |-> 0, fee |-> 0, answer |-> "none"]]
    /\ seen = [d \in Disbursements |-> 0]
    /\ callback = [c \in Callbacks |-> [pc |-> "idle", ref |-> NoRef, status |-> "none"]]

-----------------------------------------------------------------------------
(* What the statements compute and constraints demand                      *)

IsFinal(d) == rows[d].status \in Final

SumOf(S) == MapThenSumSet(LAMBDA d : rows[d].amount, S)

GetBalance == Opening - MapThenSumSet(LAMBDA m : m.amount, ledger)

SumPendingDisbursements == SumOf({d \in Disbursements : rows[d].status \in Open})

(* Mutant: the limit counts what has been paid out only. *)
SumCompletedToday ==
    SumOf({d \in Disbursements : rows[d].today /\ rows[d].status = "completed"})

SumDisbursementsToday ==
    SumOf({d \in Disbursements : rows[d].today /\ rows[d].status \in Status \ {"failed"}})

Debited(d) == \E m \in ledger : m.ref = d

-----------------------------------------------------------------------------
(* Disburse                                                                *)

(* A transaction that reserves is under way. *)
Locked == \E d \in Disbursements : call[d].pc \in {"balance", "summed", "checked"}

(* The request passed the checks on merchant, account and gateway; a fee   *)
(* that cannot be resolved is zero.  A fee above the amount violates a     *)
(* CHECK of the table: such a call leaves no trace.                        *)
LockAndReadBalance(d) ==
    /\ call[d].pc = "idle"
    /\ ~Locked
    /\ \E a \in Amounts, fee \in Fees \cup {0} :
        /\ fee <= a
        /\ call' = [call EXCEPT ![d] =
               [pc |-> "balance", amount |-> a, fee |-> fee, answer |-> "none"]]
    /\ seen' = [seen EXCEPT ![d] = GetBalance]
    /\ UNCHANGED <<rows, ledger, outbox, provider, callback>>

SumPending(d) ==
    LET available == seen[d] - SumPendingDisbursements
    IN  /\ call[d].pc = "balance"
        /\ call' = [call EXCEPT ![d].pc =
               IF available < call[d].amount THEN "rejected" ELSE "summed"]
        /\ seen' = [seen EXCEPT ![d] = 0]
        /\ UNCHANGED <<rows, ledger, outbox, provider, callback>>

WithinLimit(a) == DailyLimit > 0 => SumDisbursementsToday + a <= DailyLimit

CheckLimit(d) ==
    /\ call[d].pc = "summed"
    /\ call' = [call EXCEPT ![d].pc =
           IF WithinLimit(call[d].amount) THEN "checked" ELSE "rejected"]
    /\ UNCHANGED <<rows, ledger, outbox, provider, seen, callback>>

(* Mutant: the row gets the external id it is going to be paid under.      *)
InsertReservedWithExt(d) ==
    /\ call[d].pc = "checked"
    /\ call' = [call EXCEPT ![d].pc = "reserved"]
    /\ rows' = [rows EXCEPT ![d] =
           [status |-> "pending", amount |-> call[d].amount, fee |-> call[d].fee,
            ext |-> TRUE, today |-> TRUE]]
    /\ UNCHANGED <<ledger, outbox, provider, seen, callback>>

(* The insert, and with it the commit.                                     *)
InsertReserved(d) ==
    /\ call[d].pc = "checked"
    /\ call' = [call EXCEPT ![d].pc = "reserved"]
    /\ rows' = [rows EXCEPT ![d] =
           [status |-> "pending", amount |-> call[d].amount, fee |-> call[d].fee,
            ext |-> FALSE, today |-> TRUE]]
    /\ UNCHANGED <<ledger, outbox, provider, seen, callback>>

(* The transaction is rolled back by an error, and its lock released.      *)
ReserveFails(d) ==
    /\ call[d].pc \in {"balance", "summed", "checked"}
    /\ call' = [call EXCEPT ![d].pc = "rejected"]
    /\ seen' = [seen EXCEPT ![d] = 0]
    /\ UNCHANGED <<rows, ledger, outbox, provider, callback>>

(* The provider accepts the payout and answers with its status, or         *)
(* refuses it.  Its answer may be lost (a timeout, say), and DOKU's        *)
(* adapter reads a code that it does not know as "failed".                 *)
CallProvider(d) ==
    LET Answer(s, fate) ==
            /\ call' = [call EXCEPT ![d].pc = "answered", ![d].answer = s]
            /\ provider' = [provider EXCEPT ![d] = fate]
    IN  /\ call[d].pc = "reserved"
        /\ \/ \E s \in Status : Answer(s, IF s \in Final THEN s ELSE "open")
           \/ \E s \in {"failed", "error"} : Answer(s, "open")
           \/ Answer("error", "none")
        /\ UNCHANGED <<rows, ledger, outbox, seen, callback>>

StoreAnswer(d) ==
    /\ call[d].pc = "answered"
    /\ call' = [call EXCEPT ![d].pc = "done"]
    /\ rows' = IF call[d].answer = "error"
               THEN [rows EXCEPT ![d].status = "failed"]
               ELSE [rows EXCEPT ![d].status = call[d].answer, ![d].ext = TRUE]
    /\ UNCHANGED <<ledger, outbox, provider, seen, callback>>

-----------------------------------------------------------------------------
(* HandleDisbursementCallback                                              *)

(* The statuses a (possibly late or repeated) callback maps to.  Xendit's  *)
(* adapter reads a code it does not know as "pending", DOKU's as "failed". *)
Reported(d) == Open \cup {"failed"} \cup (Final \cap {provider[d]})

(* The reads outside the transaction.  A callback is answered with an      *)
(* error, and changes nothing, as long as no row has its external id.      *)
CallbackRead(c) ==
    /\ callback[c].pc = "idle"
    /\ \E d \in Disbursements : \E s \in Reported(d) :
        /\ rows[d].ext
        /\ callback' = [callback EXCEPT ![c] =
               [pc |-> IF IsFinal(d) THEN "acked" ELSE "read", ref |-> d, status |-> s]]
    /\ UNCHANGED <<rows, ledger, outbox, provider, call, seen>>

(* Mutants: an insert that ignores a conflict; one without the constraint. *)
SaveMutationOnConflictDoNothing(c, d) ==
    ledger' = IF Debited(d) THEN ledger
              ELSE ledger \cup {[id |-> c, ref |-> d, amount |-> rows[d].amount + rows[d].fee]}
SaveMutationNoUnique(c, d) ==
    ledger' = ledger \cup {[id |-> c, ref |-> d, amount |-> rows[d].amount + rows[d].fee]}

(* mutationRepo.Save under UNIQUE(reference_id, reference_type): the debit *)
(* is the amount plus the fee fixed when the row was inserted.             *)
SaveMutation(c, d) ==
    /\ ~Debited(d)
    /\ ledger' = ledger \cup {[id |-> c, ref |-> d, amount |-> rows[d].amount + rows[d].fee]}

(* Mutant: the row is completed without a debit.                           *)
CallbackApplyNoLedger(c) ==
    LET d == callback[c].ref
        s == callback[c].status
    IN  /\ callback[c].pc = "read"
        /\ ~Locked
        /\ callback' = [callback EXCEPT ![c].pc = "acked"]
        /\ rows' = [rows EXCEPT ![d].status = s]
        /\ outbox' = outbox \cup {[id |-> c, ref |-> d, status |-> s, fee |-> rows[d].fee]}
        /\ UNCHANGED <<ledger, provider, call, seen>>

(* Mutant: the tables have no foreign keys, nothing waits for the lock.    *)
CallbackApplyUnlocked(c) ==
    LET d == callback[c].ref
        s == callback[c].status
    IN  /\ callback[c].pc = "read"
        /\ callback' = [callback EXCEPT ![c].pc = "acked"]
        /\ rows' = [rows EXCEPT ![d].status = s]
        /\ IF s = "completed" THEN SaveMutation(c, d) ELSE UNCHANGED ledger
        /\ outbox' = outbox \cup {[id |-> c, ref |-> d, status |-> s, fee |-> rows[d].fee]}
        /\ UNCHANGED <<provider, call, seen>>

(* The transaction.  It does not look at the row again.  The webhook URL   *)
(* of a merchant that could disburse is set, and never emptied, so that    *)
(* there is always an event to insert.                                     *)
CallbackApply(c) ==
    LET d == callback[c].ref
        s == callback[c].status
    IN  /\ callback[c].pc = "read"
        /\ ~Locked
        /\ callback' = [callback EXCEPT ![c].pc = "acked"]
        /\ rows' = [rows EXCEPT ![d].status = s]
        /\ IF s = "completed" THEN SaveMutation(c, d) ELSE UNCHANGED ledger
        /\ outbox' = outbox \cup {[id |-> c, ref |-> d, status |-> s, fee |-> rows[d].fee]}
        /\ UNCHANGED <<provider, call, seen>>

(* The handler answers with an error, its transaction rolled back.         *)
CallbackFails(c) ==
    /\ callback[c].pc = "read"
    /\ callback' = [callback EXCEPT ![c].pc = "failed"]
    /\ UNCHANGED <<rows, ledger, outbox, provider, call, seen>>

-----------------------------------------------------------------------------
(* The provider and the calendar                                           *)

ProviderSettles(d) ==
    /\ provider[d] = "open"
    /\ \E s \in Final : provider' = [provider EXCEPT ![d] = s]
    /\ UNCHANGED <<rows, ledger, outbox, call, seen, callback>>

(* A transaction belongs to the day it started in (NOW()), so midnight     *)
(* comes between reservations.                                             *)
NextDay ==
    /\ ~Locked
    /\ \E d \in Disbursements : rows[d].today
    /\ rows' = [d \in Disbursements |-> [rows[d] EXCEPT !.today = FALSE]]
    /\ UNCHANGED <<ledger, outbox, provider, call, seen, callback>>

-----------------------------------------------------------------------------
DisburseStep(d) ==
    \/ LockAndReadBalance(d) \/ SumPending(d) \/ CheckLimit(d) \/ InsertReserved(d)
    \/ ReserveFails(d) \/ CallProvider(d) \/ StoreAnswer(d)

CallbackStep(c) == CallbackRead(c) \/ CallbackApply(c) \/ CallbackFails(c)

Next ==
    \/ \E d \in Disbursements : DisburseStep(d) \/ ProviderSettles(d)
    \/ \E c \in Callbacks : CallbackStep(c)
    \/ NextDay

Spec == Init /\ [][Next]_vars

-----------------------------------------------------------------------------
(* Properties                                                              *)

(* Every variable stays within its type.                                   *)
TypeOK ==
    /\ rows \in [Disbursements -> [status : Status \cup {"none"}, amount : Nat, fee : Nat,
                                   ext : BOOLEAN, today : BOOLEAN]]
    /\ ledger \subseteq [id : Callbacks, ref : Disbursements, amount : Nat]
    /\ outbox \subseteq [id : Callbacks, ref : Disbursements, status : Status, fee : Nat]
    /\ provider \in [Disbursements -> Final \cup {"none", "open"}]
    /\ call \in [Disbursements ->
           [pc : {"idle", "balance", "summed", "checked", "reserved", "answered", "done",
                  "rejected"},
            amount : Nat, fee : Nat, answer : Status \cup {"none", "error"}]]
    /\ seen \in [Disbursements -> Int]
    /\ callback \in [Callbacks ->
           [pc : {"idle", "read", "acked", "failed"}, ref : Disbursements \cup {NoRef},
            status : Status \cup {"none"}]]

(* Payouts the provider may still make, or is about to be asked for.       *)
AtStake == {d \in Disbursements : call[d].pc = "reserved" \/ provider[d] = "open"}

PaidOut == {d \in Disbursements : provider[d] = "completed"}

(* The payouts of which the platform was told, or has read, what is not    *)
(* so: the answer was lost, the status was taken for a failure.  And those *)
(* completed by the answer to Disburse, which the code never debits.       *)
Misled ==
    {d \in Disbursements :
        \/ call[d].answer = "error" /\ provider[d] # "none"
        \/ call[d].answer = "failed" /\ provider[d] # "failed"
        \/ call[d].answer = "completed"
        \/ \E c \in Callbacks : /\ callback[c].ref = d
                                /\ callback[c].status = "failed"
                                /\ provider[d] # "failed"}

Regular == (AtStake \cup PaidOut) \ Misled

(* A payout that is made or may still be made is always accounted for: it  *)
(* is reserved, or debited, however callbacks overwrite its row            *)
(* (disbursement.go:131-144, 276-295).                                     *)
PayoutsAreCovered == \A d \in Regular : rows[d].status \in Open \/ Debited(d)

(* What is paid out, or may still be, never exceeds what came in: requests *)
(* see the reservations of each other, and no completion slips in between  *)
(* the balance and the pending sum of a reservation (README.md:479,        *)
(* disbursement.go:96-117).                                                *)
FundsSuffice == SumOf(Regular) <= Opening

(* The payouts requested in one day stay within the limit                  *)
(* (disbursement.go:118-129).                                              *)
DailyLimitKept ==
    DailyLimit > 0 => SumOf({d \in Regular : rows[d].today}) <= DailyLimit

(* Each event "disbursement.completed" belongs to one debit, of the amount *)
(* and fee it names, and each debit has its event: ledger and outbox are   *)
(* written together and a second completion is refused (disbursement.go:   *)
(* 276-300).                                                               *)
NoticeMatchesDebit ==
    {[id |-> n.id, ref |-> n.ref, amount |-> rows[n.ref].amount + n.fee] :
        n \in {o \in outbox : o.status = "completed"}} = ledger

(* A final row is changed by nobody but a callback that had read it before *)
(* it became final; not by the Disburse call that answers late.            *)
FinalLostOnlyToCallback ==
    [][\A d \in Disbursements :
         rows[d].status \in Final /\ rows'[d].status # rows[d].status =>
             \E c \in Callbacks :
                 callback[c].pc = "read" /\ callback[c].ref = d /\ callback'[c].pc = "acked"]_vars

(* The abstract specification: payouts made, debits and their events.      *)
Abstract == INSTANCE Settlement WITH
    Transfers <- Disbursements,
    Ids <- Callbacks,
    Charges <- Fees \cup {0},
    settled <- PaidOut,
    entries <- {[id |-> m.id, ref |-> m.ref, fee |-> m.amount - rows[m.ref].amount] : m \in ledger},
    notices <- {[id |-> n.id, ref |-> n.ref, fee |-> n.fee] :
                   n \in {o \in outbox : o.status = "completed"}}

(* Disbursements do no more with money than Settlement: a debit only for a *)
(* payout that was made, once, together with its event.                    *)
ImplementsSettlement == Abstract!Spec

-----------------------------------------------------------------------------
(* What the documentation says and the code does not do                    *)

(* disbursement.go:98: the reservation "reserves" the funds a payout will  *)
(* take; a debit takes the fee too.                                        *)
BalanceNotNegative == GetBalance >= 0

(* migrations/000002_schema.up.sql:141: a cash-out entry is "inserted when *)
(* Disbursement -> 'completed'".                                           *)
CompletedIsDebited == \A d \in Disbursements : rows[d].status = "completed" => Debited(d)

(* disbursement.go:160: a call that ended with an error means "provider    *)
(* failed", so that the balance can be released.                           *)
FailedIsNotPaid ==
    \A d \in Disbursements : rows[d].status = "failed" => d \notin AtStake \cup PaidOut

(* entity/disbursement.go:36: a final disbursement "cannot transition to   *)
(* any further state".                                                     *)
FinalIsImmutable ==
    [][\A d \in Disbursements :
         rows[d].status \in Final => rows'[d].status = rows[d].status]_vars
=============================================================================
