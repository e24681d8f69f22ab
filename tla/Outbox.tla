------------------------------- MODULE Outbox -------------------------------
(***************************************************************************)
(* The transactional outbox (internal/infrastructure/worker/               *)
(* outbox_worker.go): rows inserted by the transactions of payments and    *)
(* disbursements are claimed in batches, posted to the merchant, and       *)
(* marked, by the worker of each running instance.                         *)
(*                                                                         *)
(* Time is discrete; one tick is 5 seconds.  Of next_retry_at the module   *)
(* keeps how many ticks it lies ahead.  Statements and the start of a      *)
(* goroutine take no time, a post takes up to HttpTimeout.                 *)
(***************************************************************************)
EXTENDS Naturals, FiniteSets

CONSTANTS Events,          \* outbox rows
          Workers,         \* running instances
          BatchLimit,      \* rows claimed at once (10)
          MaxConcurrent,   \* parallel posts of one worker (5)
          MaxAttempts,     \* outbox.max_attempts (5)
          Lease,           \* outboxClaimLease, in ticks (12)
          HttpTimeout,     \* outboxHTTPTimeout, in ticks (2)
          DbDeadline,      \* deadline of dbCtx, in ticks (1)
          MaxFaults,       \* bound on crashes and on failed updates
          MaxLate          \* bound on answers that come after that deadline

ASSUME OutboxAssumption ==
    /\ {BatchLimit, MaxConcurrent, MaxAttempts, Lease, HttpTimeout, DbDeadline} \subseteq Nat \ {0}
    /\ {MaxFaults, MaxLate} \subseteq Nat
    (* The last post of a batch begins when the others are under way, and  *)
    (* ends within the lease: with the constants above, 9 * 2 + 5 * 2 of   *)
    (* 5 * 12 ticks.                                                       *)
    /\ (BatchLimit - 1) * HttpTimeout + MaxConcurrent * HttpTimeout < MaxConcurrent * Lease

VARIABLES rows,       \* table outbox
          flight,     \* how far each worker is with each row of its batch
          posts,      \* requests the merchant got for each event
          accepted,   \* of these, how many answers with 2xx came in time
          faults,     \* crashes and failed updates so far
          late        \* updates that were not made because dbCtx had ended

vars == <<rows, flight, posts, accepted, faults, late>>

Landed == [pc |-> "none", attempt |-> 0, age |-> 0]

(* No transaction has inserted an event yet. *)
Init ==
    /\ rows = [e \in Events |-> [there |-> FALSE, url |-> "none", attempt |-> 0, wait |-> 0,
                                 delivered |-> FALSE, failed |-> FALSE]]
    /\ flight = [w \in Workers |-> [e \in Events |-> Landed]]
    /\ posts = [e \in Events |-> 0]
    /\ accepted = [e \in Events |-> 0]
    /\ faults = 0
    /\ late = 0

-----------------------------------------------------------------------------
(* The statements                                                          *)

(* Mutants: a claim that looks at delivered rows too, one that gives up an *)
(* attempt early.                                                          *)
EligibleDelivered ==
    {e \in Events : rows[e].there /\ rows[e].attempt < MaxAttempts /\ rows[e].wait = 0}
EligibleBelowLast ==
    {e \in Events : /\ rows[e].there /\ ~rows[e].delivered
                    /\ rows[e].attempt < MaxAttempts - 1 /\ rows[e].wait = 0}

Eligible ==
    {e \in Events : /\ rows[e].there /\ ~rows[e].delivered
                    /\ rows[e].attempt < MaxAttempts /\ rows[e].wait = 0}

(* Mutant: the claim leaves the row where it is. *)
Unclaimed(row) == row

Claimed(row) == [row EXCEPT !.wait = Lease]

Backoff(n) == 2 * n * n

(* Mutant: a retry is scheduled without being counted. *)
MarkedUncounted(row, f) ==
    CASE f.pc = "ok"     -> [row EXCEPT !.delivered = TRUE, !.attempt = @ + 1]
      [] f.pc = "giveup" -> [row EXCEPT !.failed = TRUE, !.attempt = MaxAttempts]
      [] f.pc = "retry"  -> [row EXCEPT !.wait = Backoff(f.attempt + 1)]

(* MarkDelivered, MarkFailedFinal and ScheduleRetry.                       *)
Marked(row, f) ==
    CASE f.pc = "ok"     -> [row EXCEPT !.delivered = TRUE, !.attempt = @ + 1]
      [] f.pc = "giveup" -> [row EXCEPT !.failed = TRUE, !.attempt = MaxAttempts]
      [] f.pc = "retry"  -> [row EXCEPT !.attempt = f.attempt + 1,
                                        !.wait = Backoff(f.attempt + 1)]

-----------------------------------------------------------------------------
(* Actions                                                                 *)

(* A transaction inserts the event, for a target_url that validate-        *)
(* WebhookURL will accept, or not.                                         *)
Insert(e) ==
    /\ ~rows[e].there
    /\ \E u \in {"valid", "invalid"} :
          rows' = [rows EXCEPT ![e].there = TRUE, ![e].url = u]
    /\ UNCHANGED <<flight, posts, accepted, faults, late>>

Idle(w) == \A e \in Events : flight[w][e].pc = "none"

(* A worker claims a batch when it has done with the last one.  Which of   *)
(* the eligible rows are the oldest is left open.                          *)
FetchAndClaim(w) ==
    /\ Idle(w)
    /\ \E S \in SUBSET Eligible :
        /\ S # {}
        /\ \/ Cardinality(S) = BatchLimit
           \/ Cardinality(S) < BatchLimit /\ S = Eligible
        /\ rows' = [e \in Events |-> IF e \in S THEN Claimed(rows[e]) ELSE rows[e]]
        /\ flight' = [flight EXCEPT ![w] = [e \in Events |->
              IF e \in S THEN [pc |-> "queued", attempt |-> rows[e].attempt, age |-> 0]
                         ELSE Landed]]
    /\ UNCHANGED <<posts, accepted, faults, late>>

(* The semaphore lets another goroutine of the batch start.                *)
MayStart(w, e) ==
    /\ flight[w][e].pc = "queued"
    /\ Cardinality({f \in Events : flight[w][f].pc \notin {"none", "queued"}}) < MaxConcurrent

(* deliver begins: the clock of its database context starts here, before   *)
(* the request is sent.                                                    *)
StartDelivery(w, e) ==
    /\ MayStart(w, e)
    /\ IF rows[e].url = "invalid"
       THEN /\ flight' = [flight EXCEPT ![w][e].pc = "giveup"]
            /\ UNCHANGED posts
       ELSE /\ flight' = [flight EXCEPT ![w][e].pc = "posting"]
            /\ posts' = [posts EXCEPT ![e] = @ + 1]
    /\ UNCHANGED <<rows, accepted, faults, late>>

(* The request ends: with 2xx, or with anything else (an error, a timeout, *)
(* the shutdown of the worker).                                            *)
EndPost(w, e) ==
    /\ flight[w][e].pc = "posting"
    /\ \/ /\ flight' = [flight EXCEPT ![w][e].pc = "ok"]
          /\ accepted' = [accepted EXCEPT ![e] = @ + 1]
       \/ /\ flight' = [flight EXCEPT ![w][e].pc =
                 IF flight[w][e].attempt + 1 >= MaxAttempts THEN "giveup" ELSE "retry"]
          /\ UNCHANGED accepted
    /\ UNCHANGED <<rows, posts, faults, late>>

Outcomes == {"ok", "giveup", "retry"}

(* The outcome is written, or, past the deadline of dbCtx, only logged.    *)
MarkOutcome(w, e) ==
    /\ flight[w][e].pc \in Outcomes
    /\ flight' = [flight EXCEPT ![w][e] = Landed]
    /\ IF flight[w][e].age < DbDeadline
       THEN rows' = [rows EXCEPT ![e] = Marked(@, flight[w][e])] /\ UNCHANGED late
       ELSE late' = late + 1 /\ UNCHANGED rows
    /\ UNCHANGED <<posts, accepted, faults>>

(* The update fails for another reason.                                    *)
MarkFails(w, e) ==
    /\ flight[w][e].pc \in Outcomes
    /\ faults < MaxFaults
    /\ faults' = faults + 1
    /\ flight' = [flight EXCEPT ![w][e] = Landed]
    /\ UNCHANGED <<rows, posts, accepted, late>>

(* An instance dies, and is started again.                                 *)
Crash(w) ==
    /\ ~Idle(w)
    /\ faults < MaxFaults
    /\ faults' = faults + 1
    /\ flight' = [flight EXCEPT ![w] = [e \in Events |-> Landed]]
    /\ UNCHANGED <<rows, posts, accepted, late>>

(* The answers that are late, or are going to be.                          *)
Late == late + Cardinality({x \in Workers \X Events : flight[x[1]][x[2]].age >= DbDeadline})

(* What must happen before the clock moves on: whatever takes no time, and *)
(* the end of a post whose time is up.                                     *)
Urgent(w, e) ==
    \/ MayStart(w, e)
    \/ flight[w][e].pc \in Outcomes
    \/ flight[w][e].pc = "posting" /\ flight[w][e].age = HttpTimeout
    \/ flight[w][e].pc = "posting" /\ flight[w][e].age < DbDeadline /\ Late >= MaxLate

Tick ==
    /\ \A w \in Workers, e \in Events : ~Urgent(w, e)
    /\ \/ \E e \in Events : rows[e].wait > 0
       \/ \E w \in Workers : ~Idle(w)
    /\ rows' = [e \in Events |->
          [rows[e] EXCEPT !.wait = IF @ > 0 THEN @ - 1 ELSE 0]]
    /\ flight' = [w \in Workers |-> [e \in Events |->
          [flight[w][e] EXCEPT !.age = IF flight[w][e].pc = "posting" THEN @ + 1 ELSE @]]]
    /\ UNCHANGED <<posts, accepted, faults, late>>

Deliver(w, e) == StartDelivery(w, e) \/ EndPost(w, e) \/ MarkOutcome(w, e)

Next ==
    \/ \E e \in Events : Insert(e)
    \/ \E w \in Workers : FetchAndClaim(w) \/ Crash(w)
    \/ \E w \in Workers, e \in Events : Deliver(w, e) \/ MarkFails(w, e)
    \/ Tick

Spec == Init /\ [][Next]_vars

(* Time passes, the ticker of each worker makes it poll again and again,   *)
(* and a delivery goes on: posts are bounded by the client's timeout.      *)
Fairness ==
    /\ WF_vars(Tick)
    /\ \A w \in Workers : WF_vars(FetchAndClaim(w))
    /\ \A w \in Workers, e \in Events : WF_vars(Deliver(w, e))

FairSpec == Spec /\ Fairness

-----------------------------------------------------------------------------
(* Properties                                                              *)

(* Every variable stays within its type; in particular attempt_count obeys *)
(* the CHECK of the table, which the updates never run into.               *)
TypeOK ==
    /\ rows \in [Events -> [there : BOOLEAN, url : {"none", "valid", "invalid"},
                            attempt : 0 .. MaxAttempts, wait : Nat,
                            delivered : BOOLEAN, failed : BOOLEAN]]
    /\ flight \in [Workers -> [Events ->
           [pc : {"none", "queued", "posting"} \cup Outcomes,
            attempt : 0 .. MaxAttempts, age : 0 .. HttpTimeout]]]
    /\ posts \in [Events -> Nat]
    /\ accepted \in [Events -> Nat]
    /\ faults \in 0 .. MaxFaults
    /\ late \in Nat

(* The lease outlasts the batch: no two workers ever deliver one event at  *)
(* the same time (outbox_worker.go:104-107).                               *)
OneDeliveryAtATime ==
    \A w, v \in Workers, e \in Events :
        flight[w][e].pc # "none" /\ flight[v][e].pc # "none" => w = v

(* The merchant gets no more than max_attempts requests for an event, and  *)
(* one more for each update that a crash, the database or the deadline     *)
(* prevented (outbox_worker.go:178-186).                                   *)
PostsAreBounded == \A e \in Events : posts[e] <= MaxAttempts + faults + late

(* An event the merchant accepted is not sent again, unless the update was *)
(* prevented (outbox_worker.go:168-175).                                   *)
AcceptedOnce == \A e \in Events : accepted[e] <= 1 + faults + late

(* A row that is delivered or given up stays as it is, and no worker sends *)
(* or still writes anything for it (outbox_worker.go:113-119).             *)
SettledIsQuiet ==
    [][\A e \in Events :
         rows[e].delivered \/ rows[e].failed =>
             /\ rows'[e].attempt = rows[e].attempt
             /\ \A w \in Workers : flight'[w][e].pc = "none"]_vars

(* Every event that was inserted is delivered in the end, or given up,     *)
(* when crashes, failed updates and late answers come to an end.           *)
EventIsSettled ==
    \A e \in Events : rows[e].there ~> rows[e].delivered \/ rows[e].failed

-----------------------------------------------------------------------------
(* What the documentation says and the code does not do                    *)

(* outbox_worker.go:155: 5 seconds are "enough for a simple UPDATE", so    *)
(* that every attempt is counted that neither a crash nor the database     *)
(* keeps from it.                                                          *)
AttemptsAreCounted == \A e \in Events : posts[e] <= MaxAttempts + faults
=============================================================================
