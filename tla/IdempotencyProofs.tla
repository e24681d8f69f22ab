------------------------- MODULE IdempotencyProofs -------------------------
(***************************************************************************)
(* Theorems about Idempotency, for any number of requests, of any length,  *)
(* and any times to live.                                                  *)
(***************************************************************************)
EXTENDS Idempotency, TLAPS

(* The inductive invariant: until a request has ended too late, the guard  *)
(* of a holder is there for GuardTTL from its claim on, because nobody     *)
(* else claims, and so nobody else removes it, before.                     *)
Fresh == \A r \in Requests : req[r].pc = "idle" => ~req[r].claimed /\ req[r].age = 0

Guarded ==
    Late = {} =>
        \A r \in Current :
            cache.kind = "guard" /\ cache.by = r /\ cache.left + req[r].age >= GuardTTL

IInv == TypeOK /\ Fresh /\ Guarded

-----------------------------------------------------------------------------
(* The guard of a current holder has time left, and so nobody finds the    *)
(* key free.                                                               *)
LEMMA HeldIsNotFree ==
    ASSUME IInv, Late = {}, NEW r \in Current
    PROVE  ~Free /\ cache.left > 0
<1>1. req[r].age \in 0 .. GuardTTL /\ req[r].age < GuardTTL /\ r \in Requests
  BY DEF IInv, TypeOK, Holders, Current
<1>2. cache.kind = "guard" /\ cache.left + req[r].age >= GuardTTL
  BY DEF IInv, Guarded
<1>3. cache.left \in 0 .. GuardTTL + ResponseTTL
  BY DEF IInv, TypeOK
<1>4. cache.left > 0
  BY <1>1, <1>2, <1>3, IdempotencyAssumption
<1> QED
  BY <1>2, <1>4 DEF Free

(* There is one current holder at most: the guard names it.                *)
LEMMA HoldersAgree ==
    ASSUME IInv, Late = {}, NEW r \in Current
    PROVE  Current = {r}
  BY DEF IInv, Guarded

LEMMA InitIInv == Init => IInv
<1> SUFFICES ASSUME Init PROVE IInv
  OBVIOUS
<1>1. TypeOK
  BY IdempotencyAssumption DEF Init, NoItem, TypeOK, Active, Answered
<1>2. Fresh
  BY DEF Init, Fresh
<1>3. Current = {}
  BY DEF Init, Current, Holders, Active
<1> QED
  BY <1>1, <1>2, <1>3 DEF IInv, Guarded

(* A step of one request keeps every variable within its type.             *)
LEMMA StepTyped ==
    ASSUME TypeOK, NEW r \in Requests, Step(r)
    PROVE  TypeOK'
<1> USE DEF TypeOK, Active, Answered
<1>1. CASE Claim(r)
  BY <1>1, IdempotencyAssumption DEF Claim, Guard
<1>2. CASE Lookup(r)
  BY <1>2 DEF Lookup
<1>3. CASE Handle(r)
  BY <1>3 DEF Handle
<1>4. CASE Fail(r)
  BY <1>4, IdempotencyAssumption DEF Fail, NoItem
<1>5. CASE Succeed(r)
  <2>1. cache' = Response(r) \/ cache' = cache
    BY <1>5 DEF Succeed
  <2>2. cache' \in [kind : {"none", "guard", "response"},
                    by : Requests \cup {NoRequest}, left : 0 .. GuardTTL + ResponseTTL]
    BY <2>1, IdempotencyAssumption DEF Response
  <2>3. req' = [req EXCEPT ![r] = [req[r] EXCEPT !.pc = "created", !.answer = r]]
    BY <1>5 DEF Succeed
  <2>4. [req[r] EXCEPT !.pc = "created", !.answer = r] \in
           [pc : {"idle"} \cup Active \cup Answered, claimed : BOOLEAN,
            age : 0 .. GuardTTL, answer : Requests \cup {NoRequest}]
    OBVIOUS
  <2> QED
    BY <2>2, <2>3, <2>4
<1>6. CASE Die(r)
  BY <1>6 DEF Die
<1> QED
  BY <1>1, <1>2, <1>3, <1>4, <1>5, <1>6 DEF Step

(* It leaves the other requests alone.                                     *)
LEMMA StepIsLocal ==
    ASSUME TypeOK, NEW r \in Requests, Step(r), NEW q \in Requests, q # r
    PROVE  req'[q] = req[q]
  BY DEF Step, Claim, Lookup, Handle, Fail, Succeed, Die, TypeOK

(* It starts a request that was idle, or leaves the claim and the age of   *)
(* the request as they are.                                                *)
LEMMA StepOfOwn ==
    ASSUME TypeOK, NEW r \in Requests, Step(r)
    PROVE  /\ req'[r].pc # "idle" /\ req'[r].age = req[r].age
           /\ \/ req'[r].claimed = req[r].claimed
              \/ Claim(r) /\ Free /\ cache' = Guard(r)
           /\ req[r].pc \in Answered => req'[r].pc = req[r].pc
           /\ req'[r].pc \in Active => Claim(r) \/ req[r].pc \in Active
<1>1. CASE Claim(r)
  BY <1>1 DEF Claim, TypeOK, Answered
<1>2. CASE Succeed(r)
  <2>1. req' = [req EXCEPT ![r] = [req[r] EXCEPT !.pc = "created", !.answer = r]]
    BY <1>2 DEF Succeed
  <2>2. req'[r] = [req[r] EXCEPT !.pc = "created", !.answer = r]
    BY <2>1 DEF TypeOK
  <2> QED
    BY <1>2, <2>2 DEF Succeed, TypeOK, Active, Answered
<1>3. CASE Lookup(r) \/ Handle(r) \/ Fail(r) \/ Die(r)
  BY <1>3 DEF Lookup, Handle, Fail, Die, TypeOK, Active, Answered
<1> QED
  BY <1>1, <1>2, <1>3 DEF Step

(* It changes the cache only to claim it when it is free, or at the end of *)
(* the holder of the claim.                                                *)
LEMMA StepOnCache ==
    ASSUME TypeOK, NEW r \in Requests, Step(r), cache' # cache
    PROVE  \/ req[r].pc = "idle" /\ Free /\ cache' = Guard(r)
           \/ r \in Holders /\ req'[r].pc \in {"refused", "created"}
<1>1. CASE Claim(r)
  BY <1>1 DEF Claim
<1>2. CASE Fail(r)
  BY <1>2 DEF Fail, TypeOK, Holders, Active, Answered
<1>3. CASE Succeed(r)
  <2>1. req' = [req EXCEPT ![r] = [req[r] EXCEPT !.pc = "created", !.answer = r]]
    BY <1>3 DEF Succeed
  <2>2. req'[r].pc = "created"
    BY <2>1 DEF TypeOK
  <2> QED
    BY <1>3, <2>2 DEF Succeed, Holders, Active, Answered
<1>4. CASE Lookup(r) \/ Handle(r) \/ Die(r)
  BY <1>4 DEF Lookup, Handle, Die
<1> QED
  BY <1>1, <1>2, <1>3, <1>4 DEF Step

-----------------------------------------------------------------------------
(* One step of one request preserves the invariant.                        *)
LEMMA StepKeeps ==
    ASSUME IInv, NEW r \in Requests, Step(r)
    PROVE  IInv'
<1>1. TypeOK /\ Fresh /\ Guarded
  BY DEF IInv
<1>2. TypeOK'
  BY <1>1, StepTyped
<1>3. Fresh'
  <2> SUFFICES ASSUME NEW q \in Requests, req'[q].pc = "idle"
               PROVE  ~req'[q].claimed /\ req'[q].age = 0
    BY DEF Fresh
  <2>1. q # r
    BY <1>1, StepOfOwn
  <2>2. req'[q] = req[q]
    BY <1>1, <2>1, StepIsLocal
  <2> QED
    BY <1>1, <2>2 DEF Fresh
<1>4. ASSUME Late' = {} PROVE Late = {}
  <2> SUFFICES ASSUME NEW q \in Late PROVE FALSE
    OBVIOUS
  <2>1. q \in Requests /\ req[q].pc \in Answered /\ req[q].pc \in {"refused", "created"}
    BY DEF Late, Answered
  <2>2. req'[q].pc = req[q].pc /\ req'[q].age = req[q].age
    BY <1>1, <2>1, StepIsLocal, StepOfOwn
  <2>3. req'[q].claimed = req[q].claimed
    <3>1. q = r => ~Claim(r)
      BY <2>1 DEF Claim
    <3> QED
      BY <1>1, <2>1, <3>1, StepIsLocal, StepOfOwn
  <2> QED
    BY <1>4, <2>1, <2>2, <2>3 DEF Late
<1>5. Guarded'
  <2> SUFFICES ASSUME Late' = {}, NEW q \in Requests,
                      req'[q].claimed, req'[q].pc \in Active, req'[q].age < GuardTTL
               PROVE  /\ cache'.kind = "guard" /\ cache'.by = q
                      /\ cache'.left + req'[q].age >= GuardTTL
    BY DEF Guarded, Holders, Current
  <2>1. CASE req[r].pc = "idle" /\ Free /\ cache' = Guard(r)
    <3>1. Current = {}
      BY <1>4, <2>1, HeldIsNotFree
    <3>2. q = r
      <4>1. q # r => req[q] = req'[q]
        BY <1>1, StepIsLocal
      <4> QED
        BY <3>1, <4>1 DEF Holders, Current
    <3>3. req'[r].age = 0
      BY <1>1, <2>1, StepOfOwn DEF Fresh
    <3> QED
      BY <2>1, <3>2, <3>3, IdempotencyAssumption DEF Guard
  <2>2. CASE ~(req[r].pc = "idle" /\ Free /\ cache' = Guard(r))
    <3>0. ~(Claim(r) /\ Free /\ cache' = Guard(r))
      BY <2>2 DEF Claim
    <3>1. q \in Current /\ req'[q].age = req[q].age
      <4>1. CASE q # r
        <5>1. req'[q] = req[q]
          BY <1>1, <4>1, StepIsLocal
        <5> QED
          BY <5>1 DEF Holders, Current
      <4>2. CASE q = r
        <5>1. req[r].claimed /\ req'[r].age = req[r].age
          BY <1>1, <3>0, <4>2, StepOfOwn
        <5>2. Claim(r) \/ req[r].pc \in Active
          BY <1>1, <4>2, StepOfOwn
        <5>3. ~Claim(r)
          BY <1>1, <5>1 DEF Claim, Fresh
        <5> QED
          BY <4>2, <5>1, <5>2, <5>3 DEF Holders, Current
      <4> QED
        BY <4>1, <4>2
    <3>2. cache' = cache
      <4> SUFFICES ASSUME cache' # cache PROVE FALSE
        OBVIOUS
      <4>1. r \in Holders /\ req'[r].pc \in {"refused", "created"}
        BY <1>1, <2>2, StepOnCache
      <4>2. r \in Requests /\ req[r].claimed /\ req[r].pc \in Active
        BY <4>1 DEF Holders
      <4>3. req'[r].claimed /\ req'[r].age = req[r].age
        <5>1. ~Claim(r)
          BY <4>2 DEF Claim, Active
        <5> QED
          BY <1>1, <4>2, <5>1, StepOfOwn
      <4>4. ~(req[r].age >= GuardTTL)
        BY <4>1, <4>2, <4>3 DEF Late
      <4>5. req[r].age \in Nat /\ GuardTTL \in Nat
        BY <1>1, <4>2, IdempotencyAssumption DEF TypeOK
      <4>6. r \in Current
        BY <4>1, <4>4, <4>5 DEF Current
      <4>7. q = r
        BY <1>4, <3>1, <4>6, HoldersAgree
      <4> QED
        BY <4>1, <4>7 DEF Active
    <3> QED
      BY <1>1, <1>4, <3>1, <3>2 DEF Guarded
  <2> QED
    BY <2>1, <2>2
<1> QED
  BY <1>2, <1>3, <1>5 DEF IInv

(* With the memory of the only instance, its requests are lost too.        *)
LEMMA LoseMemoryKeeps ==
    ASSUME IInv, LoseMemory
    PROVE  IInv'
<1>1. TypeOK /\ Fresh
  BY DEF IInv
<1>2. \A r \in Requests :
         /\ req[r].pc \in Active => req'[r] = [req[r] EXCEPT !.pc = "dead"]
         /\ req[r].pc \notin Active => req'[r] = req[r]
  BY DEF LoseMemory
<1>3. TypeOK'
  <2>1. cache' \in [kind : {"none", "guard", "response"},
                    by : Requests \cup {NoRequest}, left : 0 .. GuardTTL + ResponseTTL]
    BY IdempotencyAssumption DEF LoseMemory, NoItem
  <2>2. ASSUME NEW r \in Requests
        PROVE  req'[r] \in
           [pc : {"idle"} \cup Active \cup Answered, claimed : BOOLEAN,
            age : 0 .. GuardTTL, answer : Requests \cup {NoRequest}]
    <3>1. req[r] \in
           [pc : {"idle"} \cup Active \cup Answered, claimed : BOOLEAN,
            age : 0 .. GuardTTL, answer : Requests \cup {NoRequest}]
      BY <1>1 DEF TypeOK
    <3>2. [req[r] EXCEPT !.pc = "dead"] \in
           [pc : {"idle"} \cup Active \cup Answered, claimed : BOOLEAN,
            age : 0 .. GuardTTL, answer : Requests \cup {NoRequest}]
      BY <3>1 DEF Answered
    <3> QED
      BY <1>2, <3>1, <3>2
  <2> QED
    BY <2>1, <2>2 DEF TypeOK, LoseMemory
<1>4. Fresh'
  <2> SUFFICES ASSUME NEW q \in Requests, req'[q].pc = "idle"
               PROVE  ~req'[q].claimed /\ req'[q].age = 0
    BY DEF Fresh
  <2>1. req'[q] = req[q]
    BY <1>1, <1>2 DEF TypeOK
  <2> QED
    BY <1>1, <2>1 DEF Fresh
<1>5. Holders' = {}
  <2> SUFFICES ASSUME NEW q \in Requests PROVE req'[q].pc \notin Active
    BY DEF Holders
  <2>1. req[q].pc \in Active => req'[q].pc = "dead"
    BY <1>1, <1>2 DEF TypeOK
  <2> QED
    BY <1>2, <2>1 DEF Active
<1> QED
  BY <1>3, <1>4, <1>5 DEF IInv, Guarded, Current

(* Time runs for the guard and for its holder alike.                       *)
LEMMA TickKeeps ==
    ASSUME IInv, Tick
    PROVE  IInv'
<1>1. TypeOK /\ Fresh /\ Guarded
  BY DEF IInv
<1>2. ASSUME NEW r \in Requests
      PROVE  /\ req'[r] = Older(r)
             /\ req'[r].pc = req[r].pc /\ req'[r].claimed = req[r].claimed
             /\ req'[r].age = IF req[r].pc \in Active /\ req[r].age < GuardTTL
                              THEN req[r].age + 1 ELSE req[r].age
  BY <1>1 DEF Tick, Older, TypeOK
<1>3. /\ cache'.kind = cache.kind /\ cache'.by = cache.by
      /\ cache'.left = IF cache.left = 0 THEN cache.left ELSE cache.left - 1
      /\ cache' \in [kind : {"none", "guard", "response"},
                     by : Requests \cup {NoRequest}, left : 0 .. GuardTTL + ResponseTTL]
  BY <1>1, IdempotencyAssumption DEF Tick, TypeOK
<1>4. TypeOK'
  <2>1. ASSUME NEW r \in Requests
        PROVE  Older(r) \in
           [pc : {"idle"} \cup Active \cup Answered, claimed : BOOLEAN,
            age : 0 .. GuardTTL, answer : Requests \cup {NoRequest}]
    BY <1>1, IdempotencyAssumption DEF TypeOK, Older
  <2> QED
    BY <1>3, <2>1 DEF TypeOK, Tick
<1>5. Fresh'
  BY <1>1, <1>2 DEF Fresh, Active
<1>6. Guarded'
  <2> SUFFICES ASSUME Late' = {}, NEW q \in Requests,
                      req'[q].claimed, req'[q].pc \in Active, req'[q].age < GuardTTL
               PROVE  /\ cache'.kind = "guard" /\ cache'.by = q
                      /\ cache'.left + req'[q].age >= GuardTTL
    BY DEF Guarded, Holders, Current
  <2>1. Late = {}
    <3> SUFFICES ASSUME NEW p \in Late PROVE FALSE
      OBVIOUS
    <3>1. p \in Requests /\ req[p].pc \notin Active
      BY DEF Late, Active
    <3> QED
      BY <1>2, <3>1 DEF Late
  <2>2. req[q].age \in Nat /\ cache.left \in Nat /\ GuardTTL \in Nat
    BY <1>1, IdempotencyAssumption DEF TypeOK
  <2>3. q \in Current /\ req'[q].age = req[q].age + 1
    BY <1>2, <2>2 DEF Holders, Current
  <2>4. cache.kind = "guard" /\ cache.by = q /\ cache.left + req[q].age >= GuardTTL
    BY <1>1, <2>1, <2>3 DEF Guarded
  <2> QED
    BY <1>3, <2>2, <2>3, <2>4
<1> QED
  BY <1>4, <1>5, <1>6 DEF IInv

LEMMA NextKeeps ==
    ASSUME IInv, [Next]_vars
    PROVE  IInv'
<1>1. CASE UNCHANGED vars
  BY <1>1 DEF vars, IInv, TypeOK, Fresh, Guarded, Holders, Current, Late
<1>2. CASE Next
  BY <1>2, StepKeeps, LoseMemoryKeeps, TickKeeps DEF Next
<1> QED
  BY <1>1, <1>2

LEMMA Invariance == Spec => []IInv
  BY InitIInv, NextKeeps, PTL DEF Spec

-----------------------------------------------------------------------------
(* Every variable stays within its type; in particular no item outlives    *)
(* the times it is set for.                                                *)
THEOREM IdempotencyTypeCorrect == Spec => []TypeOK
<1>1. IInv => TypeOK
  BY DEF IInv
<1> QED
  BY <1>1, Invariance, PTL

(* Retries claim a key one after the other: of any number of requests that *)
(* hold the claim at most one is within the time of its guard, however     *)
(* long the others already last, and the guard in the cache is this one's, *)
(* until a request that has outlived its guard ends                        *)
(* (idempotency.go:54-59, 88-110).                                         *)
THEOREM OneClaimAtATime == Spec => []ClaimIsExclusive
<1>1. IInv => ClaimIsExclusive
  BY HoldersAgree DEF IInv, Guarded, ClaimIsExclusive
<1> QED
  BY <1>1, Invariance, PTL

(* Although Del and Set do not look at what they replace, the first        *)
(* request to remove or overwrite what another one has put under the key   *)
(* is one that has outlived its own guard (idempotency.go:91, 104).        *)
THEOREM ForeignItemsAreSafe == Spec => ForeignItemsStay
<1> DEFINE Stays ==
      \A r \in Requests :
         /\ cache.by \notin {r, NoRequest} /\ cache.left > 0
         /\ req[r].pc \in Active /\ req'[r].pc \in Answered \ {"dead"}
         => cache' = cache \/ (req[r].claimed /\ Late' # {})
<1>1. IInv /\ [Next]_vars => [Stays]_vars
  <2> SUFFICES ASSUME IInv, [Next]_vars, NEW r \in Requests,
                      cache.by # r, cache' # cache, req[r].pc \in Active,
                      req'[r].pc \in Answered, req'[r].pc # "dead"
               PROVE  req[r].claimed /\ Late' # {}
    OBVIOUS
  <2>1. TypeOK /\ Guarded
    BY DEF IInv
  <2>2. ~LoseMemory
    BY <2>1 DEF LoseMemory, TypeOK
  <2>3. ~Tick
    <3>1. Tick => req'[r].pc = req[r].pc
      BY <2>1 DEF Tick, Older, TypeOK
    <3> QED
      BY <3>1 DEF Active, Answered
  <2>4. Step(r)
    <3>1. PICK q \in Requests : Step(q)
      BY <2>2, <2>3 DEF Next, vars
    <3>2. q # r => req'[r] = req[r]
      BY <2>1, <3>1, StepIsLocal
    <3> QED
      BY <3>1, <3>2 DEF Active, Answered
  <2>5. r \in Holders /\ req'[r].pc \in {"refused", "created"}
    BY <2>1, <2>4, StepOnCache DEF Active
  <2>6. req'[r].claimed /\ req'[r].age = req[r].age
    <3>1. ~Claim(r)
      BY DEF Claim, Active
    <3> QED
      BY <2>1, <2>4, <2>5, <3>1, StepOfOwn DEF Holders
  <2>7. CASE req[r].age >= GuardTTL
    BY <2>5, <2>6, <2>7 DEF Holders, Late
  <2>8. CASE ~(req[r].age >= GuardTTL)
    <3>1. r \in Current
      <4>1. req[r].age \in Nat /\ GuardTTL \in Nat
        BY <2>1, IdempotencyAssumption DEF TypeOK
      <4> QED
        BY <2>5, <2>8, <4>1 DEF Current
    <3>2. PICK p \in Late : TRUE
      BY <2>1, <3>1 DEF Guarded
    <3>3. p \in Requests /\ req'[p] = req[p]
      <4>1. p # r
        BY DEF Late, Active
      <4> QED
        BY <2>1, <2>4, <4>1, StepIsLocal DEF Late
    <3>4. p \in Late'
      BY <3>2, <3>3 DEF Late
    <3> QED
      BY <2>5, <3>4 DEF Holders
  <2> QED
    BY <2>7, <2>8
<1>2. Spec => [][Stays]_vars
  BY <1>1, Invariance, PTL DEF Spec
<1> QED
  BY <1>2 DEF ForeignItemsStay

-----------------------------------------------------------------------------
(* Answers                                                                 *)

(* What is stored as a response, and what was replayed, is the answer of a *)
(* request that has given it.                                              *)
Given(r) == r \in Requests /\ req[r].pc = "created"

AnswersAreGiven ==
    /\ cache.kind = "response" => Given(cache.by)
    /\ \A r \in Requests : req[r].pc = "replayed" => Given(req[r].answer)

(* An answer that was given stays given.                                   *)
LEMMA GivenStays ==
    ASSUME TypeOK, [Next]_vars, NEW r, Given(r)
    PROVE  Given(r)'
<1>1. r \in Requests /\ req[r].pc = "created" /\ req[r].pc \notin Active
  BY DEF Given, Active
<1>2. ASSUME NEW q \in Requests, Step(q) PROVE req'[r] = req[r]
  <2>1. q # r
    BY <1>1, <1>2 DEF Step, Claim, Lookup, Handle, Fail, Succeed, Die
  <2> QED
    BY <1>1, <1>2, <2>1, StepIsLocal
<1>3. ASSUME LoseMemory \/ Tick PROVE req'[r] = req[r]
  <2>1. CASE LoseMemory
    BY <1>1, <2>1 DEF LoseMemory
  <2>2. CASE Tick
    BY <1>1, <2>2 DEF Tick, Older, TypeOK
  <2> QED
    BY <1>3, <2>1, <2>2
<1> QED
  BY <1>1, <1>2, <1>3 DEF Next, Given, vars

(* A request is answered with a replay by its own lookup, which has found  *)
(* that answer in the cache; it runs for the first time when the key is    *)
(* free.                                                                   *)
LEMMA LookedUp ==
    ASSUME TypeOK, [Next]_vars, NEW r \in Requests
    PROVE  /\ req'[r].pc = "replayed" /\ req'[r] # req[r] =>
                 cache.kind = "response" /\ req'[r].answer = cache.by
           /\ req'[r].pc = "running" /\ req[r].pc \in {"idle", "taken"} => Free
<1>1. CASE req'[r] = req[r]
  BY <1>1
<1>2. CASE Claim(r) \/ Lookup(r)
  BY <1>2 DEF Claim, Lookup, TypeOK
<1>3. CASE Handle(r) \/ Fail(r) \/ Die(r)
  BY <1>3 DEF Handle, Fail, Die, TypeOK, Active
<1>4. CASE Succeed(r)
  <2>1. req'[r] = [req[r] EXCEPT !.pc = "created", !.answer = r]
    BY <1>4 DEF Succeed, TypeOK
  <2> QED
    BY <2>1 DEF TypeOK
<1>5. CASE LoseMemory
  <2>1. req'[r].pc = "dead" \/ req'[r] = req[r]
    BY <1>5 DEF LoseMemory, TypeOK
  <2> QED
    BY <2>1
<1>6. CASE Tick
  <2>1. req'[r] = req[r] \/ (req[r].pc \in Active /\ req'[r].pc = req[r].pc)
    BY <1>6 DEF Tick, Older, TypeOK
  <2>2. \A pc \in Active : pc # "replayed" /\ pc # "idle" /\ (pc = "taken" => pc # "running")
    BY DEF Active
  <2> QED
    BY <2>1, <2>2
<1>7. ASSUME NEW q \in Requests \ {r}, Step(q) PROVE req'[r] = req[r]
  BY <1>7, StepIsLocal
<1> QED
  BY <1>1, <1>2, <1>3, <1>4, <1>5, <1>6, <1>7 DEF Next, Step, vars

LEMMA NextAnswersAreGiven ==
    TypeOK /\ AnswersAreGiven /\ [Next]_vars => AnswersAreGiven'
<1> SUFFICES ASSUME TypeOK, AnswersAreGiven, [Next]_vars PROVE AnswersAreGiven'
  OBVIOUS
<1>1. ASSUME NEW by, by = cache'.by, cache'.kind = "response" PROVE Given(by)'
  <2>1. CASE cache.kind = "response" /\ cache.by = by
    BY <2>1, GivenStays DEF AnswersAreGiven
  <2>2. ASSUME NEW r \in Requests, Succeed(r), cache' = Response(r) PROVE Given(by)'
    <3>1. by = r
      BY <1>1, <2>2 DEF Response
    <3>2. req'[r] = [req[r] EXCEPT !.pc = "created", !.answer = r]
      BY <2>2 DEF Succeed, TypeOK
    <3>3. req'[r].pc = "created"
      BY <3>2 DEF TypeOK
    <3> QED
      BY <3>1, <3>3 DEF Given
  <2>3. CASE UNCHANGED cache
    BY <1>1, <2>1, <2>3
  <2>4. CASE cache' \in {NoItem} \cup {Guard(r) : r \in Requests}
    BY <1>1, <2>4 DEF NoItem, Guard
  <2>5. CASE Tick
    <3>1. cache'.kind = cache.kind /\ cache'.by = cache.by
      BY <2>5 DEF Tick, TypeOK
    <3> QED
      BY <1>1, <2>1, <3>1
  <2>6. \/ UNCHANGED cache
        \/ cache' \in {NoItem} \cup {Guard(r) : r \in Requests}
        \/ \E r \in Requests : Succeed(r) /\ cache' = Response(r)
        \/ Tick
    BY DEF Next, Step, Claim, Lookup, Handle, Fail, Succeed, Die, LoseMemory, vars
  <2> QED
    BY <2>2, <2>3, <2>4, <2>5, <2>6
<1>2. ASSUME NEW r \in Requests, req'[r].pc = "replayed", NEW a, a = req'[r].answer
      PROVE  Given(a)'
  <2>1. Given(a)
    BY <1>2, LookedUp DEF AnswersAreGiven
  <2> QED
    BY <2>1, GivenStays
<1> QED
  BY <1>1, <1>2 DEF AnswersAreGiven

(* A request is answered with what another one has answered, never with    *)
(* something of the cache that no request gave, and while an answer is     *)
(* stored nobody runs the handler again unless the cache fails             *)
(* (idempotency.go:61-80).                                                 *)
THEOREM AnswersAreReplayed == Spec => ReplayInsteadOfRun
<1> DEFINE Replays ==
      \A r \in Requests :
         /\ req'[r].pc = "replayed" => req[req'[r].answer].pc = "created"
         /\ cache.kind = "response" /\ cache.left > 0 =>
               ~(req[r].pc \in {"idle", "taken"} /\ req'[r].pc = "running")
<1>1. Init => AnswersAreGiven
  BY DEF Init, NoItem, AnswersAreGiven
<1>2. IInv /\ AnswersAreGiven /\ [Next]_vars => AnswersAreGiven'
  BY NextAnswersAreGiven DEF IInv
<1>3. IInv /\ AnswersAreGiven /\ [Next]_vars => [Replays]_vars
  <2> SUFFICES ASSUME TypeOK, AnswersAreGiven, [Next]_vars, NEW r \in Requests
               PROVE  /\ req'[r].pc = "replayed" => req[req'[r].answer].pc = "created"
                      /\ cache.kind = "response" /\ cache.left > 0 =>
                           ~(req[r].pc \in {"idle", "taken"} /\ req'[r].pc = "running")
    BY DEF IInv
  <2>1. ASSUME req'[r].pc = "replayed" PROVE req[req'[r].answer].pc = "created"
    BY <2>1, LookedUp DEF AnswersAreGiven, Given
  <2>2. ASSUME cache.kind = "response", cache.left > 0,
               req[r].pc \in {"idle", "taken"}, req'[r].pc = "running"
        PROVE  FALSE
    BY <2>2, LookedUp DEF Free, TypeOK
  <2> QED
    BY <2>1, <2>2
<1>4. Spec => [][Replays]_vars
  BY <1>1, <1>2, <1>3, Invariance, PTL DEF Spec
<1> QED
  BY <1>4 DEF ReplayInsteadOfRun
=============================================================================
