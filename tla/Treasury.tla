------------------------------ MODULE Treasury ------------------------------
(***************************************************************************)
(* The treasury tasks (internal/infrastructure/taskqueue): a scheduler     *)
(* enqueues a check at every quarter of an hour, the check reads the       *)
(* providers' balances and enqueues a top-up for each that is low, and the *)
(* top-up, still a stub, tells the operators to transfer money.            *)
(*                                                                         *)
(* The queue is asynq's, in Redis: a task has an id, an id is used by one  *)
(* task at a time, a task whose worker has died is retried, and archived   *)
(* after the last retry.  Several instances run checks at the same time.   *)
(***************************************************************************)
EXTENDS Integers, FiniteSets

CONSTANTS Providers,
          Checks,       \* checks that may run at the same time
          Ids,          \* ids of tasks, the providers' "topup:<provider>" among them
          Balances,     \* balances that are entered or reconciled
          Threshold,    \* topup_threshold_idr
          MaxRetry,
          None          \* no row, no task

ASSUME TreasuryAssumption ==
    /\ Providers \subseteq Ids
    /\ Balances \subseteq Int /\ None \notin Balances
    /\ Threshold \in Nat \ {0}  \* ProvideServer refuses others
    /\ MaxRetry \in Nat

VARIABLES row,      \* table provider_balances
          task,     \* the top-ups in the queue
          check,    \* the checks
          reported  \* providers whose balance was ever reconciled as low

treasuryVars == <<row, task, check, reported>>

Row == [idr : Balances, stamped : BOOLEAN]

NoRow == [idr |-> None, stamped |-> FALSE]

NoTask == [provider |-> None, st |-> "none", retried |-> 0]

NoCheck == [pc |-> "idle", rows |-> [p \in Providers |-> NoRow], left |-> {}]

TreasuryInit ==
    /\ row = [p \in Providers |-> NoRow]
    /\ task = [id \in Ids |-> NoTask]
    /\ check = [c \in Checks |-> NoCheck]
    /\ reported = {}

NeedsTopup(r) == r.stamped /\ r.idr < Threshold

-----------------------------------------------------------------------------
(* The balances                                                            *)

Upsert(p, idr, stamped) ==
    /\ row' = [row EXCEPT ![p] = [idr |-> idr, stamped |-> stamped]]
    /\ reported' = IF stamped /\ idr < Threshold THEN reported \cup {p} ELSE reported
    /\ UNCHANGED <<task, check>>

(* An admin enters a balance; the stamp is not given and becomes NULL.     *)
UpdateProviderBalance(p, idr) == Upsert(p, idr, FALSE)

(* Whatever writes last_reconciled_at: nothing in the program does.        *)
Reconcile(p, idr) == Upsert(p, idr, TRUE)

-----------------------------------------------------------------------------
(* HandleCheckTopup                                                        *)

(* A scheduled check is taken by a worker, which reads all rows at once.   *)
ListAll(c) ==
    /\ check[c].pc = "idle"
    /\ check' = [check EXCEPT ![c] =
           [pc |-> "running", rows |-> row, left |-> {p \in Providers : row[p] # NoRow}]]
    /\ UNCHANGED <<row, task, reported>>

Looked(c, p) == check' = [check EXCEPT ![c].left = @ \ {p}]

(* Mutant: no TaskID, asynq makes one up. *)
AnyId(p) == {id \in Ids : task[id] = NoTask}

(* "topup:" and the provider, by NewExecuteTopupTask.                      *)
TaskId(p) == {p}

(* A balance that is never reconciled or high enough is passed over.       *)
Skip(c, p) ==
    /\ p \in check[c].left /\ ~NeedsTopup(check[c].rows[p])
    /\ Looked(c, p)
    /\ UNCHANGED <<row, task, reported>>

(* EnqueueContext: an id is free when no task has it, and that of a task   *)
(* completed is; an archived task keeps its own.                           *)
Queue(c, p) ==
    /\ p \in check[c].left /\ NeedsTopup(check[c].rows[p])
    /\ \E id \in TaskId(p) :
        /\ task[id] = NoTask
        /\ task' = [task EXCEPT ![id] = [provider |-> p, st |-> "pending", retried |-> 0]]
    /\ Looked(c, p)
    /\ UNCHANGED <<row, reported>>

(* A conflict of ids, or any other error: logged, and the check goes on.   *)
QueueFails(c, p) ==
    /\ p \in check[c].left /\ NeedsTopup(check[c].rows[p])
    /\ Looked(c, p)
    /\ UNCHANGED <<row, task, reported>>

(* All rows were looked at; or the worker has died.                        *)
EndCheck(c) ==
    /\ check[c].pc = "running"
    /\ check' = [check EXCEPT ![c] = NoCheck]
    /\ UNCHANGED <<row, task, reported>>

-----------------------------------------------------------------------------
(* HandleExecuteTopup                                                      *)

Take(id) ==
    /\ task[id].st = "pending"
    /\ task' = [task EXCEPT ![id].st = "active"]
    /\ UNCHANGED <<row, check, reported>>

(* The stub has told the operators; the completed task is deleted.         *)
Complete(id) ==
    /\ task[id].st = "active"
    /\ task' = [task EXCEPT ![id] = NoTask]
    /\ UNCHANGED <<row, check, reported>>

(* The worker has died, and the task's lease runs out.                     *)
Recover(id) ==
    LET t == task[id]
    IN  /\ t.st = "active"
        /\ task' = [task EXCEPT ![id] =
               IF t.retried < MaxRetry THEN [t EXCEPT !.st = "pending", !.retried = t.retried + 1]
               ELSE [t EXCEPT !.st = "archived"]]
        /\ UNCHANGED <<row, check, reported>>

-----------------------------------------------------------------------------
TreasuryNext ==
    \/ \E p \in Providers, idr \in Balances :
          UpdateProviderBalance(p, idr) \/ Reconcile(p, idr)
    \/ \E c \in Checks : ListAll(c) \/ EndCheck(c)
    \/ \E c \in Checks, p \in Providers : Skip(c, p) \/ Queue(c, p) \/ QueueFails(c, p)
    \/ \E id \in Ids : Take(id) \/ Complete(id) \/ Recover(id)

TreasurySpec == TreasuryInit /\ [][TreasuryNext]_treasuryVars

-----------------------------------------------------------------------------
(* Properties                                                              *)

Waiting(id) == task[id].st \in {"pending", "active"}

(* Types; a task of the queue has an id of its own provider or none.       *)
TreasuryTypeOK ==
    /\ row \in [Providers -> Row \cup {NoRow}]
    /\ task \in [Ids -> [provider : Providers, st : {"pending", "active", "archived"},
                          retried : 0..MaxRetry] \cup {NoTask}]
    /\ check \in [Checks -> [pc : {"idle", "running"}, left : SUBSET Providers,
                             rows : [Providers -> Row \cup {NoRow}]]]
    /\ reported \subseteq Providers

(* However many checks run, on rows read at different times, and however   *)
(* often a worker dies: a provider has one top-up waiting or under way     *)
(* (tasks.go:46 "only one pending topup per provider at a time").          *)
OneTopupAtATime ==
    \A i, j \in Ids :
        Waiting(i) /\ Waiting(j) /\ task[i].provider = task[j].provider => i = j

(* A top-up is only ever asked for a provider whose balance a              *)
(* reconciliation once found low (handler.go:50-56).                       *)
TopupsFollowReports == \A id \in Ids : Waiting(id) => task[id].provider \in reported

-----------------------------------------------------------------------------
(* What a comment says and the code does not do                            *)

(* admin_handler.go:649 "Manually records the platform's balance ... (for  *)
(* reconciliation)": the balance entered has no stamp, and removes the one *)
(* that was there; the checks pass the provider over from then on.         *)
EnteredIsReconciled == \A p \in Providers : row[p] # NoRow => row[p].stamped
=============================================================================
