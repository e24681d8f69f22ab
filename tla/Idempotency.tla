---------------------------- MODULE Idempotency ----------------------------
(***************************************************************************)
(* The idempotency middleware                                              *)
(* (internal/delivery/http/middleware/idempotency.go) over the cache       *)
(* (internal/infrastructure/cache): the requests that carry one merchant's *)
(* one idempotency key, around a handler that creates a payment or a       *)
(* disbursement.                                                           *)
(*                                                                         *)
(* Each call of the cache is one step, atomic under its lock (or in        *)
(* Redis); the requests interleave between the steps.  Time is discrete,   *)
(* and nothing bounds the length of a request.  The deadline of its        *)
(* context, at most 30 seconds after its start, ends what the database and *)
(* the providers do for it; but the handler reads the body after the claim *)
(* and the server has no ReadTimeout, and DOKU's token mutex, taken on the *)
(* way to the provider, knows no context.  So a request may outlive its    *)
(* guard, which lasts 30 seconds from the claim on.                        *)
(***************************************************************************)
EXTENDS Naturals, FiniteSets

CONSTANTS Requests,        \* requests with the key; a retry is another one
          NoRequest,       \* nobody
          GuardTTL,        \* processingTTL, in ticks
          ResponseTTL      \* idempotencyTTL, in ticks

ASSUME IdempotencyAssumption ==
    /\ NoRequest \notin Requests
    /\ {GuardTTL, ResponseTTL} \subseteq Nat \ {0}

VARIABLES cache,   \* the item under the key: by whom, and the time it has left
          req      \* the requests

vars == <<cache, req>>

(* The handler of a request runs "unguarded" after a call of the cache     *)
(* that failed; for the code that is no different from "running".          *)
Active   == {"taken", "running", "unguarded", "ok", "error"}
Answered == {"conflict", "replayed", "created", "refused", "dead"}

NoItem == [kind |-> "none", by |-> NoRequest, left |-> 0]

Init ==
    /\ cache = NoItem
    /\ req = [r \in Requests |->
                 [pc |-> "idle", claimed |-> FALSE, age |-> 0, answer |-> NoRequest]]

-----------------------------------------------------------------------------
(* The cache.  Of a guard the code stores only that it is one; whose it is *)
(* ("by") is recorded for the properties.                                  *)

(* Mutants: an item written without the check for another one, a check     *)
(* that knows the guard but not the response.                              *)
FreeAlways == TRUE
FreeUnlessGuarded == cache.kind # "guard" \/ cache.left = 0

Free == cache.kind = "none" \/ cache.left = 0

Guard(r) == [kind |-> "guard", by |-> r, left |-> GuardTTL]

Response(r) == [kind |-> "response", by |-> r, left |-> ResponseTTL]

-----------------------------------------------------------------------------
(* The middleware                                                          *)

(* The claim: SetNX, which may fail; of a call to Redis the effect may be  *)
(* there and only the answer lost, and a repetition of such a call finds   *)
(* the guard that it has set itself.                                       *)
Claim(r) ==
    /\ req[r].pc = "idle"
    /\ \/ /\ Free
          /\ cache' = Guard(r)
          /\ req' = [req EXCEPT ![r].pc = "running", ![r].claimed = TRUE]
       \/ /\ ~Free
          /\ req' = [req EXCEPT ![r].pc = "taken"]
          /\ UNCHANGED cache
       \/ /\ req' = [req EXCEPT ![r].pc = "unguarded"]
          /\ UNCHANGED cache
       \/ /\ Free
          /\ cache' = Guard(r)
          /\ \E pc \in {"unguarded", "taken"} : req' = [req EXCEPT ![r].pc = pc]

(* Get, after SetNX has found another item: it may be gone by now, which   *)
(* is an error like the failure of Get.                                    *)
Lookup(r) ==
    /\ req[r].pc = "taken"
    /\ \/ /\ Free
          /\ req' = [req EXCEPT ![r].pc = "running"]
       \/ req' = [req EXCEPT ![r].pc = "unguarded"]
       \/ /\ ~Free /\ cache.kind = "guard"
          /\ req' = [req EXCEPT ![r].pc = "conflict"]
       \/ /\ ~Free /\ cache.kind = "response"
          /\ req' = [req EXCEPT ![r].pc = "replayed", ![r].answer = cache.by]
    /\ UNCHANGED cache

(* The handler returns: with a response below 500, or without.             *)
Handle(r) ==
    /\ req[r].pc \in {"running", "unguarded"}
    /\ \E pc \in {"ok", "error"} : req' = [req EXCEPT ![r].pc = pc]
    /\ UNCHANGED cache

(* Mutant: the item is deleted by whoever fails.                           *)
FailDeletesAlways(r) ==
    /\ req[r].pc = "error"
    /\ req' = [req EXCEPT ![r].pc = "refused"]
    /\ cache' = NoItem

(* Del, whatever the item is by now, and only by the holder of the claim;  *)
(* it may fail.                                                            *)
Fail(r) ==
    /\ req[r].pc = "error"
    /\ req' = [req EXCEPT ![r].pc = "refused"]
    /\ \/ req[r].claimed /\ cache' = NoItem
       \/ UNCHANGED cache

(* Set, the same.                                                          *)
Succeed(r) ==
    /\ req[r].pc = "ok"
    /\ req' = [req EXCEPT ![r].pc = "created", ![r].answer = r]
    /\ \/ req[r].claimed /\ cache' = Response(r)
       \/ UNCHANGED cache

(* The instance that serves a request dies; the cache is another server.   *)
Die(r) ==
    /\ req[r].pc \in Active
    /\ req' = [req EXCEPT ![r].pc = "dead"]
    /\ UNCHANGED cache

(* The only instance dies, and the cache that it held in memory with it.   *)
LoseMemory ==
    /\ cache # NoItem
    /\ cache' = NoItem
    /\ req' = [r \in Requests |->
                  IF req[r].pc \in Active THEN [req[r] EXCEPT !.pc = "dead"] ELSE req[r]]

(* The age of a request is counted up to the length of a guard, at which   *)
(* the guard is gone.                                                      *)
Older(r) ==
    [req[r] EXCEPT !.age = IF req[r].pc \in Active /\ @ < GuardTTL THEN @ + 1 ELSE @]

(* Mutant: guards without an expiry. *)
TickWithoutExpiry ==
    /\ cache' = IF cache.kind = "guard" \/ cache.left = 0 THEN cache
                ELSE [cache EXCEPT !.left = @ - 1]
    /\ req' = [r \in Requests |-> Older(r)]

(* Time passes, whatever is under way.                                     *)
Tick ==
    /\ cache' = IF cache.left = 0 THEN cache ELSE [cache EXCEPT !.left = @ - 1]
    /\ req' = [r \in Requests |-> Older(r)]

Step(r) == Claim(r) \/ Lookup(r) \/ Handle(r) \/ Fail(r) \/ Succeed(r) \/ Die(r)

Next ==
    \/ \E r \in Requests : Step(r)
    \/ LoseMemory
    \/ Tick

Spec == Init /\ [][Next]_vars

(* Time passes; no request need ever end.                                  *)
Fairness == WF_vars(Tick)

FairSpec == Spec /\ Fairness

-----------------------------------------------------------------------------
(* Properties                                                              *)

(* Every variable stays within its type.                                   *)
TypeOK ==
    /\ cache \in [kind : {"none", "guard", "response"},
                  by : Requests \cup {NoRequest}, left : 0 .. GuardTTL + ResponseTTL]
    /\ req \in [Requests ->
           [pc : {"idle"} \cup Active \cup Answered, claimed : BOOLEAN,
            age : 0 .. GuardTTL, answer : Requests \cup {NoRequest}]]

Holders == {r \in Requests : req[r].claimed /\ req[r].pc \in Active}

(* The holders whose guard should still be there.                          *)
Current == {r \in Holders : req[r].age < GuardTTL}

(* The requests that have called Del or Set after their guard was gone.    *)
Late ==
    {r \in Requests :
        /\ req[r].claimed /\ req[r].age >= GuardTTL
        /\ req[r].pc \in {"refused", "created"}}

(* Of the requests that hold the claim at most one has not outlived its    *)
(* guard, and the item in the cache is this guard, until the first request *)
(* that has outlived its own ends and calls Del or Set all the same        *)
(* (idempotency.go:22-24, 56, 91, 104).                                    *)
ClaimIsExclusive ==
    Late = {} => \A r \in Current : Current = {r} /\ cache.kind = "guard" /\ cache.by = r

(* Del and Set hit what another request has put into the cache only when a *)
(* request calls them that has outlived its guard, or after one has: the   *)
(* first to be hit is never hit by a request within the time of its guard, *)
(* and those without the claim hit nobody (idempotency.go:91, 104).        *)
ForeignItemsStay ==
    [][\A r \in Requests :
         /\ cache.by \notin {r, NoRequest} /\ cache.left > 0
         /\ req[r].pc \in Active /\ req'[r].pc \in Answered \ {"dead"}
         => cache' = cache \/ (req[r].claimed /\ Late' # {})]_vars

(* A replayed answer is one that a request with the key has given, and     *)
(* once an answer is stored, and as long as it is, no request reaches the  *)
(* handler, unless its call of the cache fails (idempotency.go:61-80).     *)
ReplayInsteadOfRun ==
    [][\A r \in Requests :
         /\ req'[r].pc = "replayed" => req[req'[r].answer].pc = "created"
         /\ cache.kind = "response" /\ cache.left > 0 =>
               ~(req[r].pc \in {"idle", "taken"} /\ req'[r].pc = "running")]_vars

(* A guard does not stay: the key becomes free for a retry, or the answer  *)
(* is there, whatever became of the request (idempotency.go:89-90).        *)
GuardGoesAway == (cache.kind = "guard") ~> (cache.kind # "guard" \/ cache.left = 0)

-----------------------------------------------------------------------------
(* What the documentation says and the code does not do                    *)

(* idempotency.go:35: of concurrent requests with the same key "only one   *)
(* proceeds".                                                              *)
OnlyOneProceeds == Cardinality({r \in Requests : req[r].pc = "running"}) <= 1
=============================================================================
