------------------------------ MODULE Lifecycle ------------------------------
(***************************************************************************)
(* Start and shutdown of the program (cmd/api/serve.go and daemon.go,      *)
(* internal/app/app.go), in one or more instances on one database.         *)
(*                                                                         *)
(* An instance opens its infrastructure, seeds the platform's margin from  *)
(* its configuration if nobody has set it yet, wires the gateways, starts  *)
(* the task server, the workers and the HTTP server, and waits for a       *)
(* signal.  The shutdown goes through five stages: no new requests, no new *)
(* tasks, no workers, the log, the infrastructure.  The work under way has *)
(* a deadline in some of them.  An instance may be killed at any point.    *)
(***************************************************************************)
EXTENDS FiniteSets

CONSTANTS Instances,
          TaskQueue     \* instances configured with a task queue

ASSUME LifecycleAssumption == TaskQueue \subseteq Instances

VARIABLES stage,    \* where Boot, Run or shutdown of an instance is
          infra,    \* "open" or "closed": database, cache and tracer
          work,     \* the requests, tasks and batches of workers under way
          forced,   \* the work that the shutdown no longer waits for
          margin,   \* platform_margin: the row of the migrations, of a boot or of an admin
          set,      \* an admin has changed the margin
          overlap   \* ... while a boot was between its read and its write

lifecycleVars == <<stage, infra, work, forced, margin, set, overlap>>

Workers == {"outbox", "expiry"}

Work == {"request", "task"} \cup Workers

Starting == {"boot", "seeding", "wiring", "wired"}

Stopping == {"http", "tasks", "cancel", "workers", "log", "closing"}

LifecycleInit ==
    /\ stage = [i \in Instances |-> "down"]
    /\ infra = [i \in Instances |-> "closed"]
    /\ work = [i \in Instances |-> {}]
    /\ forced = [i \in Instances |-> {}]
    /\ margin = "migration" /\ set = FALSE /\ overlap = FALSE

Move(i, from, to) == stage[i] = from /\ stage' = [stage EXCEPT ![i] = to]

-----------------------------------------------------------------------------
(* Boot and Run                                                            *)

(* New and Boot: everything is opened, or the command ends with an error.  *)
Boot(i) ==
    /\ Move(i, "down", "boot")
    /\ infra' = [infra EXCEPT ![i] = "open"]
    /\ UNCHANGED <<work, forced, margin, set, overlap>>

(* Mutant: whoever has set the margin, a boot sets it again. *)
ReadMarginOfAnyone(i) ==
    /\ Move(i, "boot", "seeding")
    /\ UNCHANGED <<infra, work, forced, margin, set, overlap>>

(* updated_by is empty only in the row that the migrations have made.      *)
ReadMargin(i) ==
    /\ Move(i, "boot", IF margin = "migration" THEN "seeding" ELSE "wiring")
    /\ UNCHANGED <<infra, work, forced, margin, set, overlap>>

(* UPDATE without a condition, and without an entry in the log of fees.    *)
SeedMargin(i) ==
    /\ Move(i, "seeding", "wiring")
    /\ margin' = "boot"
    /\ UNCHANGED <<infra, work, forced, set, overlap>>

(* A margin that cannot be read or written does not stop the program.      *)
SkipSeed(i) ==
    /\ \/ Move(i, "boot", "wiring")
       \/ Move(i, "seeding", "wiring")
    /\ UNCHANGED <<infra, work, forced, margin, set, overlap>>

(* Gateways and use cases; ProvideServer starts the task server.           *)
Wire(i) ==
    /\ Move(i, "wiring", "wired")
    /\ UNCHANGED <<infra, work, forced, margin, set, overlap>>

Serve(i) ==
    /\ Move(i, "wired", "up")
    /\ UNCHANGED <<infra, work, forced, margin, set, overlap>>

-----------------------------------------------------------------------------
(* The work                                                                *)

(* The task server takes tasks from Wire on and until it is stopped.       *)
MayStart(i, w) ==
    \/ w = "request" /\ stage[i] = "up"
    \/ w = "task" /\ i \in TaskQueue /\ stage[i] \in {"wired", "up", "http", "tasks"}
    \/ w \in Workers /\ stage[i] \in {"up", "http", "tasks", "cancel"}

BeginWork(i, w) ==
    /\ MayStart(i, w) /\ w \notin work[i]
    /\ work' = [work EXCEPT ![i] = @ \cup {w}]
    /\ UNCHANGED <<stage, infra, forced, margin, set, overlap>>

EndWork(i, w) ==
    /\ w \in work[i]
    /\ work' = [work EXCEPT ![i] = @ \ {w}]
    /\ UNCHANGED <<stage, infra, forced, margin, set, overlap>>

(* UpdatePlatformMargin, in a request.                                     *)
AdminSetsMargin(i) ==
    /\ "request" \in work[i] /\ infra[i] = "open"
    /\ margin' = "admin" /\ set' = TRUE
    /\ overlap' = (overlap \/ \E j \in Instances : stage[j] = "seeding")
    /\ UNCHANGED <<stage, infra, work, forced>>

-----------------------------------------------------------------------------
(* Shutdown                                                                *)

(* A signal, "daemon stop" sends one too, or the HTTP server's error: both *)
(* run the shutdown once.  Further signals are not looked at.              *)
Shutdown(i) ==
    /\ Move(i, "up", "http")
    /\ UNCHANGED <<infra, work, forced, margin, set, overlap>>

(* Stage 1: the listener is closed, requests are waited for.               *)
DrainHTTP(i) ==
    /\ Move(i, "http", "tasks")
    /\ "request" \notin work[i]
    /\ UNCHANGED <<infra, work, forced, margin, set, overlap>>

DrainTimesOut(i) ==
    /\ Move(i, "http", "tasks")
    /\ "request" \in work[i]
    /\ forced' = [forced EXCEPT ![i] = @ \cup {"request"}]
    /\ UNCHANGED <<infra, work, margin, set, overlap>>

(* Stage 2: the scheduler is shut down; Stop lets the server take no other *)
(* task, and does not wait for those under way.                            *)
StopTasks(i) ==
    /\ Move(i, "tasks", "cancel")
    /\ UNCHANGED <<infra, work, forced, margin, set, overlap>>

(* Stage 3: the workers' context is cancelled ...                          *)
CancelWorkers(i) ==
    /\ Move(i, "cancel", "workers")
    /\ UNCHANGED <<infra, work, forced, margin, set, overlap>>

(* Mutant: the workers are cancelled, and not waited for. *)
WorkersNotAwaited(i) ==
    /\ Move(i, "workers", "log")
    /\ UNCHANGED <<infra, work, forced, margin, set, overlap>>

(* ... and the batches under way are waited for, for 15 seconds.           *)
WorkersStopped(i) ==
    /\ Move(i, "workers", "log")
    /\ Workers \cap work[i] = {}
    /\ UNCHANGED <<infra, work, forced, margin, set, overlap>>

(* Mutant: without a deadline. *)
WorkersNeverTimeOut(i) == FALSE /\ UNCHANGED lifecycleVars

WorkersTimeOut(i) ==
    /\ Move(i, "workers", "log")
    /\ Workers \cap work[i] # {}
    /\ forced' = [forced EXCEPT ![i] = @ \cup Workers]
    /\ UNCHANGED <<infra, work, margin, set, overlap>>

(* Stages 4 and 5: the injector shuts its services down, Echo among them;  *)
(* Echo's shutdown waits for requests once more, now without a deadline.   *)
CloseInfra(i) ==
    /\ Move(i, "log", "closing")
    /\ infra' = [infra EXCEPT ![i] = "closed"]
    /\ UNCHANGED <<work, forced, margin, set, overlap>>

Gone(i) ==
    /\ stage' = [stage EXCEPT ![i] = "down"]
    /\ infra' = [infra EXCEPT ![i] = "closed"]
    /\ work' = [work EXCEPT ![i] = {}]
    /\ forced' = [forced EXCEPT ![i] = {}]
    /\ UNCHANGED <<margin, set, overlap>>

Exit(i) == stage[i] = "closing" /\ "request" \notin work[i] /\ Gone(i)

(* Boot or Run returns an error and nothing is shut down; a signal before  *)
(* Notify, a kill, a crash.                                                *)
Die(i) == stage[i] # "down" /\ Gone(i)

-----------------------------------------------------------------------------
StartStep(i) ==
    \/ Boot(i) \/ ReadMargin(i) \/ SeedMargin(i) \/ SkipSeed(i) \/ Wire(i) \/ Serve(i)

StopStep(i) ==
    \/ DrainHTTP(i) \/ DrainTimesOut(i) \/ StopTasks(i) \/ CancelWorkers(i)
    \/ WorkersStopped(i) \/ WorkersTimeOut(i) \/ CloseInfra(i) \/ Exit(i)

Step(i) ==
    \/ StartStep(i) \/ Shutdown(i) \/ StopStep(i) \/ Die(i) \/ AdminSetsMargin(i)
    \/ \E w \in Work : BeginWork(i, w) \/ EndWork(i, w)

LifecycleNext == \E i \in Instances : Step(i)

LifecycleSpec == LifecycleInit /\ [][LifecycleNext]_lifecycleVars

(* Once begun, a shutdown runs on.  A request ends, since its context does *)
(* and the client of a call to DOKU's token endpoint has a timeout; that   *)
(* its sender sends the body or goes away is assumed.  Nothing bounds a    *)
(* task or a batch.                                                        *)
LifecycleFairness ==
    \A i \in Instances : /\ WF_lifecycleVars(StopStep(i))
                         /\ WF_lifecycleVars(EndWork(i, "request"))

LifecycleFairSpec == LifecycleSpec /\ LifecycleFairness

-----------------------------------------------------------------------------
(* Properties                                                              *)

(* Types; what is down does no work; the infrastructure is open from the   *)
(* boot to the last stage; a row of an admin was set by one.               *)
LifecycleTypeOK ==
    /\ stage \in [Instances -> Starting \cup Stopping \cup {"down", "up"}]
    /\ infra \in [Instances -> {"open", "closed"}]
    /\ work \in [Instances -> SUBSET Work] /\ forced \in [Instances -> SUBSET Work]
    /\ margin \in {"migration", "boot", "admin"}
    /\ set \in BOOLEAN /\ overlap \in BOOLEAN
    /\ \A i \in Instances :
        /\ infra[i] = "closed" <=> stage[i] \in {"down", "closing"}
        /\ stage[i] = "down" => work[i] = {}

(* The database is closed under a request or a worker's batch only if that *)
(* has been waited for until the deadline of its stage                     *)
(* (app.go:355 "Workers must stop BEFORE infra closes").                   *)
InfraClosesLast ==
    \A i \in Instances :
        infra[i] = "closed" => work[i] \ {"task"} \subseteq forced[i]

(* A margin set by an admin outlives restarts with any configuration,      *)
(* unless it was set during the first seeding of another instance          *)
(* (app.go:116 "Applies only when updated_by is empty").                   *)
AdminMarginIsKept == set /\ ~overlap => margin = "admin"

(* A shutdown ends, whether or not tasks and batches do.                   *)
ShutdownEnds == \A i \in Instances : stage[i] \in Stopping ~> stage[i] = "down"

-----------------------------------------------------------------------------
(* What comments say and the code does not do                              *)

(* app.go:344 "Must happen before worker/DB close so in-flight financial   *)
(* tasks can write to DB"; asynq.go:26 "drain in-flight tasks".            *)
TasksAreDrained ==
    \A i \in Instances : infra[i] = "closed" => "task" \notin work[i]
=============================================================================
