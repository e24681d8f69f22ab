--------------------------- MODULE BackgroundProofs ---------------------------
(***************************************************************************)
(* Theorems about the work that goes on behind the requests: the outbox    *)
(* worker (Outbox) and the treasury's tasks (Treasury), for any number of  *)
(* events, workers, providers and checks.                                  *)
(***************************************************************************)
EXTENDS Outbox, Treasury, FiniteSetTheorems, TLAPS

(***************************************************************************)
(* THE OUTBOX WORKER                                                       *)
(***************************************************************************)
Delivery == [pc : {"none", "queued", "posting"} \cup Outcomes,
             attempt : 0 .. MaxAttempts, age : 0 .. HttpTimeout]

OutboxRow == [there : BOOLEAN, url : {"none", "valid", "invalid"},
              attempt : 0 .. MaxAttempts, wait : Nat,
              delivered : BOOLEAN, failed : BOOLEAN]

(* The rows of a worker's batch that are not done with.                    *)
Busy(w) == {e \in Events : flight[w][e].pc # "none"}

(* The ticks of posting that the batch has ahead of it at most.            *)
Ahead(w) == {x \in Busy(w) \X (1 .. HttpTimeout) :
                \/ flight[w][x[1]].pc = "queued"
                \/ flight[w][x[1]].pc = "posting" /\ x[2] > flight[w][x[1]].age}

(* The ticks since a row in flight was claimed.                            *)
Elapsed(e) == Lease - rows[e].wait

(* How far a row of a batch is: as long as one is queued the batch keeps   *)
(* MaxConcurrent posts under way, and every tick takes as many off what is *)
(* ahead; and so no post begins later than the others of the batch can     *)
(* last, shared among MaxConcurrent.                                       *)
OnTime(w, e) ==
    IF flight[w][e].pc = "queued"
    THEN /\ flight[w][e].age = 0
         /\ MaxConcurrent * Elapsed(e) + Cardinality(Ahead(w)) <= BatchLimit * HttpTimeout
    ELSE MaxConcurrent * (Elapsed(e) - flight[w][e].age) <= (BatchLimit - 1) * HttpTimeout

(* The rows in flight are as they were claimed, all at the same time.      *)
Held(w, e) ==
    /\ rows[e].there /\ ~rows[e].delivered /\ ~rows[e].failed
    /\ flight[w][e].attempt = rows[e].attempt
    /\ rows[e].attempt < MaxAttempts
    /\ rows[e].wait \in 1 .. Lease
    /\ \A f \in Busy(w) : rows[f].wait = rows[e].wait

Batch(w) == \A e \in Busy(w) : Held(w, e) /\ OnTime(w, e)

Stored == {e \in Events : rows[e].there}

Leases ==
    /\ IsFiniteSet(Stored)
    /\ OneDeliveryAtATime
    /\ \A w \in Workers : Batch(w)

-----------------------------------------------------------------------------
(* Arithmetic of the lease                                                 *)

LEMMA Cancels ==
    ASSUME NEW m \in Nat \ {0}, NEW a \in Int, NEW b \in Int, m * a < m * b
    PROVE  a < b
<1> SUFFICES ASSUME a >= b PROVE FALSE
  OBVIOUS
<1>1. PICK d \in Nat : a = b + d
  <2>1. a - b \in Nat /\ a = b + (a - b)
    OBVIOUS
  <2> QED
    BY <2>1
<1>2. m * a = m * b + m * d
  BY <1>1
<1>3. m * d \in Nat /\ m * a \in Int /\ m * b \in Int
  OBVIOUS
<1> QED
  BY <1>2, <1>3

LEMMA OneFewer == (BatchLimit - 1) * HttpTimeout = BatchLimit * HttpTimeout - HttpTimeout
BY OutboxAssumption

LEMMA Products ==
    ASSUME NEW n \in Int
    PROVE  /\ MaxConcurrent * n \in Int
           /\ MaxConcurrent * (n + 1) = MaxConcurrent * n + MaxConcurrent
           /\ BatchLimit * HttpTimeout \in Int
           /\ (BatchLimit - 1) * HttpTimeout \in Int
BY OutboxAssumption

(* What is begun in time ends before the lease does.                       *)
LEMMA EndsInTime ==
    ASSUME NEW elapsed \in Int, NEW age \in 0 .. HttpTimeout,
           MaxConcurrent * (elapsed - age) <= (BatchLimit - 1) * HttpTimeout
    PROVE  elapsed < Lease
<1>1. /\ MaxConcurrent \in Nat \ {0} /\ HttpTimeout \in Nat /\ Lease \in Nat
      /\ (BatchLimit - 1) * HttpTimeout \in Int
      /\ (BatchLimit - 1) * HttpTimeout + MaxConcurrent * HttpTimeout < MaxConcurrent * Lease
  BY OutboxAssumption
<1>2. /\ MaxConcurrent * elapsed = MaxConcurrent * (elapsed - age) + MaxConcurrent * age
      /\ MaxConcurrent * elapsed \in Int /\ MaxConcurrent * (elapsed - age) \in Int
      /\ MaxConcurrent * Lease \in Int
  BY <1>1
<1>3. PICK d \in Nat : HttpTimeout = age + d
  <2>1. HttpTimeout - age \in Nat /\ HttpTimeout = age + (HttpTimeout - age)
    BY <1>1
  <2> QED
    BY <2>1
<1>4. /\ MaxConcurrent * HttpTimeout = MaxConcurrent * age + MaxConcurrent * d
      /\ MaxConcurrent * age \in Nat /\ MaxConcurrent * d \in Nat
  BY <1>1, <1>3
<1>5. MaxConcurrent * elapsed < MaxConcurrent * Lease
  BY <1>1, <1>2, <1>4
<1> QED
  BY <1>1, <1>5, Cancels

-----------------------------------------------------------------------------
(* Batches                                                                 *)

LEMMA AheadIsFinite ==
    ASSUME TypeOK, IsFiniteSet(Stored), NEW w \in Workers, Batch(w)
    PROVE  /\ IsFiniteSet(Busy(w))
           /\ IsFiniteSet(Ahead(w)) /\ Cardinality(Ahead(w)) \in Nat
<1>1. Busy(w) \subseteq Stored
  BY DEF Batch, Held, Busy, Stored
<1>2. IsFiniteSet(Busy(w))
  BY <1>1, FS_Subset
<1>3. IsFiniteSet(1 .. HttpTimeout)
  BY OutboxAssumption, FS_Interval
<1>4. IsFiniteSet(Busy(w) \X (1 .. HttpTimeout))
  BY <1>2, <1>3, FS_Product
<1>5. Ahead(w) \subseteq Busy(w) \X (1 .. HttpTimeout)
  BY DEF Ahead
<1>6. IsFiniteSet(Ahead(w))
  BY <1>4, <1>5, FS_Subset
<1> QED
  BY <1>2, <1>6, FS_CardinalityType

(* A row that is queued has a whole post ahead of it.                      *)
LEMMA WholePost ==
    ASSUME NEW A, IsFiniteSet(A), NEW e, {e} \X (1 .. HttpTimeout) \subseteq A
    PROVE  Cardinality(A) >= HttpTimeout
<1>1. HttpTimeout \in Nat \ {0}
  BY OutboxAssumption
<1>2. IsFiniteSet({e}) /\ Cardinality({e}) = 1
  BY FS_Singleton
<1>3. IsFiniteSet(1 .. HttpTimeout) /\ Cardinality(1 .. HttpTimeout) = HttpTimeout
  BY <1>1, FS_Interval
<1>4. Cardinality({e} \X (1 .. HttpTimeout)) = 1 * HttpTimeout
  BY <1>2, <1>3, FS_Product
<1>5. Cardinality({e} \X (1 .. HttpTimeout)) <= Cardinality(A)
  BY FS_Subset
<1> QED
  BY <1>1, <1>4, <1>5

(* No tick passes, the batch gets no new row, and those that stay in       *)
(* flight go on.                                                           *)
Proceeds(w) ==
    \A e \in Events : flight'[w][e].pc # "none" =>
        /\ flight[w][e].pc # "none"
        /\ rows'[e] = rows[e]
        /\ flight'[w][e].attempt = flight[w][e].attempt
        /\ flight'[w][e].age = flight[w][e].age
        /\ flight'[w][e].pc = "queued" => flight[w][e].pc = "queued"
        /\ flight'[w][e].pc = "posting" => flight[w][e].pc \in {"queued", "posting"}

LEMMA BatchProceeds ==
    ASSUME TypeOK, IsFiniteSet(Stored), NEW w \in Workers, Batch(w), Proceeds(w)
    PROVE  Batch(w)'
<1>1. Busy(w)' \subseteq Busy(w)
  BY DEF Busy, Proceeds
<1>2. Ahead(w)' \subseteq Ahead(w)
  <2> SUFFICES ASSUME NEW x \in Ahead(w)' PROVE x \in Ahead(w)
    OBVIOUS
  <2>1. /\ x \in Busy(w)' \X (1 .. HttpTimeout)
        /\ \/ flight'[w][x[1]].pc = "queued"
           \/ flight'[w][x[1]].pc = "posting" /\ x[2] > flight'[w][x[1]].age
    BY DEF Ahead
  <2>2. x[1] \in Events /\ flight'[w][x[1]].pc # "none"
    BY <2>1 DEF Busy
  <2> QED
    BY <1>1, <2>1, <2>2 DEF Ahead, Proceeds
<1>3. /\ IsFiniteSet(Ahead(w)) /\ Cardinality(Ahead(w)) \in Nat
      /\ Cardinality(Ahead(w)') <= Cardinality(Ahead(w))
      /\ Cardinality(Ahead(w)') \in Nat
  <2>1. IsFiniteSet(Ahead(w)) /\ Cardinality(Ahead(w)) \in Nat
    BY AheadIsFinite
  <2>2. IsFiniteSet(Ahead(w)') /\ Cardinality(Ahead(w)') <= Cardinality(Ahead(w))
    BY <1>2, <2>1, FS_Subset
  <2> QED
    BY <2>1, <2>2, FS_CardinalityType
<1> SUFFICES ASSUME NEW e \in Events, flight'[w][e].pc # "none"
             PROVE  Held(w, e)' /\ OnTime(w, e)'
  BY DEF Batch, Busy
<1>4. /\ e \in Busy(w) /\ Held(w, e) /\ OnTime(w, e)
      /\ rows'[e] = rows[e]
      /\ flight'[w][e].attempt = flight[w][e].attempt
      /\ flight'[w][e].age = flight[w][e].age
  BY DEF Proceeds, Busy, Batch
<1>5. Held(w, e)'
  <2>1. \A f \in Busy(w)' : rows'[f] = rows[f] /\ f \in Busy(w)
    BY <1>1 DEF Proceeds, Busy
  <2> QED
    BY <1>4, <2>1 DEF Held
<1>6. OnTime(w, e)'
  <2>1. /\ rows[e].wait \in Nat /\ Lease \in Nat /\ HttpTimeout \in Nat
        /\ flight[w][e].age \in 0 .. HttpTimeout
        /\ Elapsed(e) \in Int /\ Elapsed(e)' = Elapsed(e)
    BY <1>4, OutboxAssumption DEF TypeOK, Elapsed
  <2>2. CASE flight'[w][e].pc = "queued"
    <3>1. flight[w][e].pc = "queued"
      BY <2>2 DEF Proceeds
    <3>2. MaxConcurrent * Elapsed(e) + Cardinality(Ahead(w)) <= BatchLimit * HttpTimeout
      BY <1>4, <3>1 DEF OnTime
    <3>3. MaxConcurrent * Elapsed(e) + Cardinality(Ahead(w)') <= BatchLimit * HttpTimeout
      BY <1>3, <2>1, <3>2, Products
    <3> QED
      BY <1>4, <2>1, <2>2, <3>1, <3>3 DEF OnTime
  <2>3. CASE flight'[w][e].pc # "queued" /\ flight[w][e].pc # "queued"
    BY <1>4, <2>1, <2>3 DEF OnTime
  <2>4. CASE flight'[w][e].pc # "queued" /\ flight[w][e].pc = "queued"
    <3>1. /\ flight[w][e].age = 0
          /\ MaxConcurrent * Elapsed(e) + Cardinality(Ahead(w)) <= BatchLimit * HttpTimeout
      BY <1>4, <2>4 DEF OnTime
    <3>2. Cardinality(Ahead(w)) >= HttpTimeout
      <4>1. {e} \X (1 .. HttpTimeout) \subseteq Ahead(w)
        BY <2>4 DEF Ahead, Busy
      <4> QED
        BY <1>3, <4>1, WholePost
    <3>3. MaxConcurrent * Elapsed(e) <= (BatchLimit - 1) * HttpTimeout
      BY <1>3, <2>1, <3>1, <3>2, OneFewer, Products
    <3>4. Elapsed(e)' - flight'[w][e].age = Elapsed(e)
      BY <1>4, <2>1, <3>1
    <3> QED
      BY <2>4, <3>3, <3>4 DEF OnTime
  <2> QED
    BY <2>2, <2>3, <2>4
<1> QED
  BY <1>5, <1>6

(* A batch is claimed: all its rows at once, with the whole lease before   *)
(* them.                                                                   *)
LEMMA BatchBegins ==
    ASSUME TypeOK, IsFiniteSet(Stored), NEW w \in Workers,
           \A e \in Events : rows[e].failed => rows[e].attempt = MaxAttempts,
           FetchAndClaim(w)
    PROVE  Batch(w)'
<1>1. PICK S \in SUBSET Eligible :
        /\ Cardinality(S) = BatchLimit \/ Cardinality(S) < BatchLimit
        /\ rows' = [e \in Events |-> IF e \in S THEN Claimed(rows[e]) ELSE rows[e]]
        /\ flight' = [flight EXCEPT ![w] = [e \in Events |->
              IF e \in S THEN [pc |-> "queued", attempt |-> rows[e].attempt, age |-> 0]
                         ELSE Landed]]
  BY DEF FetchAndClaim
<1>2. S \subseteq Events /\ S \subseteq Stored
  BY DEF Eligible, Stored
<1>3. IsFiniteSet(S) /\ Cardinality(S) \in Nat /\ Cardinality(S) <= BatchLimit
  BY <1>1, <1>2, FS_Subset, FS_CardinalityType, OutboxAssumption
<1>4. /\ \A e \in S :
            flight'[w][e] = [pc |-> "queued", attempt |-> rows[e].attempt, age |-> 0]
      /\ \A e \in Events \ S : flight'[w][e] = Landed
  BY <1>1, <1>2 DEF TypeOK
<1>5. /\ \A e \in S : flight'[w][e].pc = "queued"
      /\ \A e \in Events \ S : flight'[w][e].pc = "none"
  <2>1. ASSUME NEW e \in S PROVE flight'[w][e].pc = "queued"
    <3>1. flight'[w][e] = [pc |-> "queued", attempt |-> rows[e].attempt, age |-> 0]
      BY <1>4
    <3> QED
      BY <3>1
  <2>2. ASSUME NEW e \in Events \ S PROVE flight'[w][e].pc = "none"
    BY <1>4 DEF Landed
  <2> QED
    BY <2>1, <2>2
<1>5a. Busy(w)' = S
  BY <1>2, <1>5 DEF Busy
<1>6. Ahead(w)' = S \X (1 .. HttpTimeout)
  BY <1>5, <1>5a DEF Ahead
<1>7. Cardinality(Ahead(w)') = Cardinality(S) * HttpTimeout
  <2>1. HttpTimeout \in Nat \ {0}
    BY OutboxAssumption
  <2>2. IsFiniteSet(1 .. HttpTimeout) /\ Cardinality(1 .. HttpTimeout) = HttpTimeout
    BY <2>1, FS_Interval
  <2> QED
    BY <1>3, <1>6, <2>2, FS_Product
<1>8. Cardinality(S) * HttpTimeout <= BatchLimit * HttpTimeout
  <2>1. PICK d \in Nat : BatchLimit = Cardinality(S) + d
    <3>1. BatchLimit - Cardinality(S) \in Nat /\ BatchLimit = Cardinality(S) + (BatchLimit - Cardinality(S))
      BY <1>3, OutboxAssumption
    <3> QED
      BY <3>1
  <2>2. HttpTimeout \in Nat
    BY OutboxAssumption
  <2>3. BatchLimit * HttpTimeout = Cardinality(S) * HttpTimeout + d * HttpTimeout
    BY <1>3, <2>1, <2>2
  <2>4. d * HttpTimeout \in Nat /\ Cardinality(S) * HttpTimeout \in Nat
    BY <1>3, <2>2
  <2> QED
    BY <2>3, <2>4
<1> SUFFICES ASSUME NEW e \in S PROVE Held(w, e)' /\ OnTime(w, e)'
  BY <1>5a DEF Batch
<1>9. /\ rows'[e] = [rows[e] EXCEPT !.wait = Lease]
      /\ flight'[w][e] = [pc |-> "queued", attempt |-> rows[e].attempt, age |-> 0]
      /\ rows[e] \in OutboxRow
  BY <1>1, <1>2, <1>4 DEF Claimed, TypeOK, OutboxRow
<1>10. Held(w, e)'
  <2>1. /\ rows[e].there /\ ~rows[e].delivered /\ rows[e].attempt < MaxAttempts
    BY DEF Eligible
  <2>2. ~rows[e].failed
    BY <1>2, <2>1, OutboxAssumption DEF TypeOK
  <2>3. \A f \in S : rows'[f].wait = Lease
    BY <1>1, <1>2 DEF Claimed, TypeOK
  <2>4. Lease \in 1 .. Lease
    BY OutboxAssumption
  <2> QED
    BY <1>5a, <1>9, <2>1, <2>2, <2>3, <2>4 DEF Held, OutboxRow
<1>11. OnTime(w, e)'
  <2>1. rows'[e].wait = Lease
    BY <1>9 DEF OutboxRow
  <2>2. Elapsed(e)' = 0 /\ MaxConcurrent * 0 = 0
    BY <2>1, OutboxAssumption DEF Elapsed
  <2>3. Cardinality(S) * HttpTimeout \in Int
    BY <1>3, OutboxAssumption
  <2> QED
    BY <1>7, <1>8, <1>9, <2>2, <2>3 DEF OnTime
<1> QED
  BY <1>10, <1>11

(* As many ticks as there are posts under way are no longer ahead.         *)
LEMMA AheadGetsShorter ==
    ASSUME TypeOK, IsFiniteSet(Stored), NEW w \in Workers, Batch(w), Tick,
           NEW e \in Events, flight[w][e].pc = "queued"
    PROVE  /\ Cardinality(Ahead(w)') + MaxConcurrent <= Cardinality(Ahead(w))
           /\ IsFiniteSet(Ahead(w)') /\ Cardinality(Ahead(w)') \in Nat
           /\ Cardinality(Ahead(w)) \in Nat
<1> DEFINE Posting == {f \in Events : flight[w][f].pc \notin {"none", "queued"}}
           next == [f \in Posting |-> <<f, flight[w][f].age + 1>>]
           D == {next[f] : f \in Posting}
<1>1. \A f \in Events : flight[w][f] \in Delivery
  BY DEF TypeOK, Delivery
<1>2. \A f \in Posting : flight[w][f].pc = "posting" /\ flight[w][f].age < HttpTimeout
  <2> SUFFICES ASSUME NEW f \in Posting
               PROVE  flight[w][f].pc = "posting" /\ flight[w][f].age < HttpTimeout
    OBVIOUS
  <2>1. ~Urgent(w, f)
    BY DEF Tick
  <2>2. flight[w][f].pc = "posting" /\ flight[w][f].age # HttpTimeout
    BY <1>1, <2>1 DEF Urgent, Delivery, Outcomes
  <2> QED
    BY <1>1, <2>2, OutboxAssumption DEF Delivery
<1>3. /\ IsFiniteSet(Busy(w)) /\ IsFiniteSet(Ahead(w))
      /\ Cardinality(Ahead(w)) \in Nat
  BY AheadIsFinite
<1>4. IsFiniteSet(Posting) /\ Cardinality(Posting) \in Nat
  <2>1. Posting \subseteq Busy(w)
    BY DEF Busy
  <2> QED
    BY <1>3, <2>1, FS_Subset, FS_CardinalityType
<1>5. Cardinality(Posting) >= MaxConcurrent
  <2>1. ~MayStart(w, e)
    BY DEF Tick, Urgent
  <2>2. ~(Cardinality(Posting) < MaxConcurrent)
    BY <2>1 DEF MayStart
  <2> QED
    BY <1>4, <2>2, OutboxAssumption
<1>6. IsFiniteSet(D) /\ Cardinality(D) = Cardinality(Posting)
  <2>1. next \in [Posting -> D]
    OBVIOUS
  <2>2. \A f, g \in Posting : next[f] = next[g] => f = g
    OBVIOUS
  <2>3. \A d \in D : \E f \in Posting : next[f] = d
    OBVIOUS
  <2>4. next \in Bijection(Posting, D)
    <3> HIDE DEF next, D, Posting
    <3> QED
      BY <2>1, <2>2, <2>3 DEF Bijection, Injection, Surjection, IsInjective
  <2>5. ExistsBijection(Posting, D)
    BY <2>4 DEF ExistsBijection
  <2> HIDE DEF next, D, Posting
  <2> QED
    BY <1>4, <2>5, FS_Bijection
<1>7. \A f \in Events :
        /\ flight'[w][f].pc = flight[w][f].pc
        /\ flight'[w][f].age = IF flight[w][f].pc = "posting" THEN flight[w][f].age + 1
                                                              ELSE flight[w][f].age
  BY <1>1 DEF Tick, Delivery
<1>8. D \subseteq Ahead(w)
  <2> SUFFICES ASSUME NEW f \in Posting PROVE <<f, flight[w][f].age + 1>> \in Ahead(w)
    OBVIOUS
  <2>1. flight[w][f].pc = "posting" /\ flight[w][f].age \in Nat
        /\ flight[w][f].age + 1 \in 1 .. HttpTimeout
    BY <1>1, <1>2, OutboxAssumption DEF Delivery
  <2> QED
    BY <2>1 DEF Ahead, Busy
<1>9. Ahead(w)' \subseteq Ahead(w) \ D
  <2> SUFFICES ASSUME NEW x \in Ahead(w)' PROVE x \in Ahead(w) /\ x \notin D
    OBVIOUS
  <2>1. /\ x \in Busy(w)' \X (1 .. HttpTimeout)
        /\ \/ flight'[w][x[1]].pc = "queued"
           \/ flight'[w][x[1]].pc = "posting" /\ x[2] > flight'[w][x[1]].age
    BY DEF Ahead
  <2>2. x[1] \in Events /\ x[1] \in Busy(w) /\ x[2] \in Int /\ flight[w][x[1]].age \in Int
    BY <1>1, <1>7, <2>1, OutboxAssumption DEF Busy, Delivery
  <2>3. x \in Ahead(w)
    BY <1>7, <2>1, <2>2 DEF Ahead
  <2>4. ASSUME NEW f \in Posting, x = <<f, flight[w][f].age + 1>> PROVE FALSE
    <3>1. x[1] = f /\ x[2] = flight[w][f].age + 1
      BY <2>4
    <3>2. flight[w][f].pc = "posting"
      BY <1>2
    <3> QED
      BY <1>7, <2>1, <2>2, <3>1, <3>2
  <2> QED
    BY <2>3, <2>4
<1>10. IsFiniteSet(Ahead(w) \ D)
       /\ Cardinality(Ahead(w) \ D) = Cardinality(Ahead(w)) - Cardinality(D)
  <2> HIDE DEF D
  <2>1. Ahead(w) \cap D = D
    BY <1>8
  <2> QED
    BY <1>3, <2>1, FS_Difference
<1>11. IsFiniteSet(Ahead(w)') /\ Cardinality(Ahead(w)') <= Cardinality(Ahead(w) \ D)
  <2> HIDE DEF D
  <2> QED
    BY <1>9, <1>10, FS_Subset
<1>12. Cardinality(Ahead(w)') \in Nat
  BY <1>11, FS_CardinalityType
<1> HIDE DEF D, Posting
<1> QED
  BY <1>3, <1>4, <1>5, <1>6, <1>10, <1>11, <1>12, OutboxAssumption

(* A tick keeps the batch on time, and ends before any lease does.         *)
LEMMA BatchTicks ==
    ASSUME TypeOK, IsFiniteSet(Stored), NEW w \in Workers, Batch(w), Tick
    PROVE  Batch(w)'
<1>1. \A e \in Events : rows[e] \in OutboxRow /\ flight[w][e] \in Delivery
  BY DEF TypeOK, OutboxRow, Delivery
<1>2. \A e \in Events :
        /\ flight'[w][e].pc = flight[w][e].pc
        /\ flight'[w][e].attempt = flight[w][e].attempt
        /\ flight'[w][e].age = IF flight[w][e].pc = "posting" THEN flight[w][e].age + 1
                                                              ELSE flight[w][e].age
  BY <1>1 DEF Tick, Delivery
<1>3. \A e \in Busy(w) :
        /\ rows'[e].there = rows[e].there
        /\ rows'[e].delivered = rows[e].delivered
        /\ rows'[e].failed = rows[e].failed
        /\ rows'[e].attempt = rows[e].attempt
        /\ rows'[e].wait = rows[e].wait - 1
  <2> SUFFICES ASSUME NEW e \in Busy(w)
               PROVE  /\ rows'[e].there = rows[e].there
                      /\ rows'[e].delivered = rows[e].delivered
                      /\ rows'[e].failed = rows[e].failed
                      /\ rows'[e].attempt = rows[e].attempt
                      /\ rows'[e].wait = rows[e].wait - 1
    OBVIOUS
  <2>1. e \in Events /\ rows[e].wait > 0
    BY OutboxAssumption DEF Batch, Held, Busy
  <2>2. rows'[e] = [rows[e] EXCEPT !.wait = rows[e].wait - 1]
    BY <2>1 DEF Tick
  <2> QED
    BY <1>1, <2>1, <2>2 DEF OutboxRow
<1>4. Busy(w)' = Busy(w)
  BY <1>2 DEF Busy
<1> SUFFICES ASSUME NEW e \in Busy(w) PROVE Held(w, e)' /\ OnTime(w, e)'
  BY <1>4 DEF Batch
<1>5. e \in Events /\ Held(w, e) /\ OnTime(w, e)
  BY DEF Batch, Busy
<1>6. /\ Elapsed(e) \in Int /\ Elapsed(e)' = Elapsed(e) + 1 /\ Elapsed(e)' \in Int
      /\ Elapsed(e)' = Lease - rows'[e].wait
      /\ rows[e].wait \in 1 .. Lease /\ Lease \in Nat /\ MaxConcurrent \in Nat
      /\ HttpTimeout \in Nat
  <2>1. rows'[e].wait = rows[e].wait - 1
    BY <1>3
  <2> QED
    BY <1>5, <2>1, OutboxAssumption DEF Held, Elapsed
<1>7. flight[w][e].pc \in {"queued", "posting"}
  <2>1. ~Urgent(w, e)
    BY <1>5 DEF Tick
  <2> QED
    BY <1>1, <1>5, <2>1 DEF Urgent, Busy, Delivery, Outcomes
<1>8. OnTime(w, e)' /\ Elapsed(e)' < Lease
  <2>1. CASE flight[w][e].pc = "queued"
    <3>1. /\ flight[w][e].age = 0
          /\ MaxConcurrent * Elapsed(e) + Cardinality(Ahead(w)) <= BatchLimit * HttpTimeout
      BY <1>5, <2>1 DEF OnTime
    <3>2. /\ Cardinality(Ahead(w)') + MaxConcurrent <= Cardinality(Ahead(w))
          /\ IsFiniteSet(Ahead(w)') /\ Cardinality(Ahead(w)') \in Nat
          /\ Cardinality(Ahead(w)) \in Nat
      BY <1>5, <2>1, AheadGetsShorter
    <3>3. MaxConcurrent * (Elapsed(e) + 1) + Cardinality(Ahead(w)') <= BatchLimit * HttpTimeout
      BY <1>6, <3>1, <3>2, Products
    <3>4. OnTime(w, e)'
      BY <1>2, <1>5, <1>6, <2>1, <3>1, <3>3 DEF OnTime
    <3>5. Cardinality(Ahead(w)') >= HttpTimeout
      <4>1. {e} \X (1 .. HttpTimeout) \subseteq Ahead(w)'
        BY <1>2, <1>4, <1>5, <2>1 DEF Ahead
      <4> QED
        BY <3>2, <4>1, WholePost
    <3>6. MaxConcurrent * (Elapsed(e)' - 0) <= (BatchLimit - 1) * HttpTimeout
      <4>1. MaxConcurrent * (Elapsed(e) + 1) <= (BatchLimit - 1) * HttpTimeout
        BY <1>6, <3>2, <3>3, <3>5, OneFewer, Products
      <4> QED
        BY <1>6, <4>1
    <3>7. 0 \in 0 .. HttpTimeout
      BY <1>6
    <3>8. Elapsed(e)' < Lease
      BY <1>6, <3>6, <3>7, EndsInTime
    <3> QED
      BY <3>4, <3>8
  <2>2. CASE flight[w][e].pc = "posting"
    <3>1. MaxConcurrent * (Elapsed(e) - flight[w][e].age) <= (BatchLimit - 1) * HttpTimeout
      BY <1>5, <2>2 DEF OnTime
    <3>2. ~Urgent(w, e)
      BY <1>5 DEF Tick
    <3>3. flight[w][e].age + 1 \in 0 .. HttpTimeout /\ flight[w][e].age \in Nat
      BY <1>1, <1>5, <1>6, <2>2, <3>2 DEF Urgent, Delivery
    <3>4. flight'[w][e].age = flight[w][e].age + 1
      BY <1>2, <1>5, <2>2
    <3>5. MaxConcurrent * (Elapsed(e)' - flight'[w][e].age) <= (BatchLimit - 1) * HttpTimeout
      <4>1. Elapsed(e)' - flight'[w][e].age = Elapsed(e) - flight[w][e].age
        BY <1>6, <3>3, <3>4
      <4> QED
        BY <3>1, <4>1
    <3>6. Elapsed(e)' < Lease
      BY <1>6, <3>3, <3>4, <3>5, EndsInTime
    <3>7. OnTime(w, e)'
      BY <1>2, <1>5, <2>2, <3>5 DEF OnTime
    <3> QED
      BY <3>6, <3>7
  <2> QED
    BY <1>7, <2>1, <2>2
<1>9. Held(w, e)'
  <2>1. rows'[e].wait \in 1 .. Lease
    <3>1. rows'[e].wait = rows[e].wait - 1
      BY <1>3
    <3> QED
      BY <1>6, <1>8, <3>1
  <2>2. \A f \in Busy(w) : rows'[f].wait = rows'[e].wait
    BY <1>3, <1>5 DEF Held
  <2> QED
    BY <1>2, <1>3, <1>4, <1>5, <2>1, <2>2 DEF Held
<1> QED
  BY <1>8, <1>9

-----------------------------------------------------------------------------
(* What one step of one delivery does to the flights                       *)

(* Another worker's flights, and the other rows of this one's, stay.       *)
Moves(w, e, f) == flight' = [flight EXCEPT ![w][e] = f]

LEMMA Moved ==
    ASSUME TypeOK, NEW w \in Workers, NEW e \in Events, NEW f \in Delivery, Moves(w, e, f)
    PROVE  /\ flight' \in [Workers -> [Events -> Delivery]]
           /\ flight'[w][e] = f
           /\ \A v \in Workers, g \in Events : v # w \/ g # e => flight'[v][g] = flight[v][g]
<1>1. flight \in [Workers -> [Events -> Delivery]]
  BY DEF TypeOK, Delivery
<1> QED
  BY <1>1 DEF Moves

(* One of a worker's deliveries goes on, from one state to another.        *)
LEMMA DeliveryMoves ==
    ASSUME TypeOK, NEW w \in Workers, NEW e \in Events,
           Deliver(w, e) \/ MarkFails(w, e)
    PROVE  \E f \in Delivery :
              /\ Moves(w, e, f)
              /\ flight[w][e].pc # "none"
              /\ \/ /\ StartDelivery(w, e)
                    /\ flight[w][e].pc = "queued" /\ f.pc \in {"posting", "giveup"}
                    /\ f.attempt = flight[w][e].attempt /\ f.age = flight[w][e].age
                 \/ /\ EndPost(w, e)
                    /\ flight[w][e].pc = "posting" /\ f.pc \in Outcomes
                    /\ f.attempt = flight[w][e].attempt /\ f.age = flight[w][e].age
                 \/ /\ MarkOutcome(w, e) \/ MarkFails(w, e)
                    /\ flight[w][e].pc \in Outcomes /\ f = Landed
<1>1. flight[w][e] \in Delivery /\ flight \in [Workers -> [Events -> Delivery]]
  BY DEF TypeOK, Delivery
<1>2. ASSUME NEW pc \in {"posting"} \cup Outcomes, flight' = [flight EXCEPT ![w][e].pc = pc],
             \/ StartDelivery(w, e) /\ flight[w][e].pc = "queued" /\ pc \in {"posting", "giveup"}
             \/ EndPost(w, e) /\ flight[w][e].pc = "posting" /\ pc \in Outcomes
      PROVE  \E f \in Delivery :
              /\ Moves(w, e, f)
              /\ flight[w][e].pc # "none"
              /\ \/ /\ StartDelivery(w, e)
                    /\ flight[w][e].pc = "queued" /\ f.pc \in {"posting", "giveup"}
                    /\ f.attempt = flight[w][e].attempt /\ f.age = flight[w][e].age
                 \/ /\ EndPost(w, e)
                    /\ flight[w][e].pc = "posting" /\ f.pc \in Outcomes
                    /\ f.attempt = flight[w][e].attempt /\ f.age = flight[w][e].age
  <2> DEFINE f == [flight[w][e] EXCEPT !.pc = pc]
  <2>1. /\ f \in Delivery /\ f.pc = pc
        /\ f.attempt = flight[w][e].attempt /\ f.age = flight[w][e].age
    BY <1>1 DEF Delivery
  <2>2. Moves(w, e, f)
    BY <1>1, <1>2 DEF Moves
  <2> HIDE DEF f
  <2> QED
    BY <1>2, <2>1, <2>2
<1>3. CASE StartDelivery(w, e)
  <2>1. \E pc \in {"posting", "giveup"} : flight' = [flight EXCEPT ![w][e].pc = pc]
    BY <1>3 DEF StartDelivery
  <2>2. flight[w][e].pc = "queued" /\ "giveup" \in Outcomes
    BY <1>3 DEF StartDelivery, MayStart, Outcomes
  <2> QED
    BY <1>2, <1>3, <2>1, <2>2
<1>4. CASE EndPost(w, e)
  <2>1. \E pc \in Outcomes : flight' = [flight EXCEPT ![w][e].pc = pc]
    BY <1>4 DEF EndPost, Outcomes
  <2>2. flight[w][e].pc = "posting"
    BY <1>4 DEF EndPost
  <2> QED
    BY <1>2, <1>4, <2>1, <2>2
<1>5. CASE MarkOutcome(w, e) \/ MarkFails(w, e)
  <2>1. Moves(w, e, Landed) /\ flight[w][e].pc \in Outcomes
    BY <1>5 DEF MarkOutcome, MarkFails, Moves
  <2>2. Landed \in Delivery /\ \A pc \in Outcomes : pc # "none"
    BY OutboxAssumption DEF Landed, Delivery, Outcomes
  <2> QED
    BY <1>5, <2>1, <2>2
<1> QED
  BY <1>3, <1>4, <1>5 DEF Deliver

(* What is written of an outcome is a row.                                 *)
LEMMA MarkedTyped ==
    ASSUME NEW old \in OutboxRow, NEW f \in Delivery, f.pc \in Outcomes,
           old.attempt < MaxAttempts, f.attempt = old.attempt
    PROVE  /\ Marked(old, f) \in OutboxRow
           /\ Marked(old, f).attempt >= old.attempt + 1
           /\ Marked(old, f).there = old.there
           /\ f.pc = "ok" => Marked(old, f).delivered
           /\ f.pc # "ok" => Marked(old, f).delivered = old.delivered
           /\ Marked(old, f).failed =>
                old.failed \/ Marked(old, f).attempt = MaxAttempts
<1>1. MaxAttempts \in Nat /\ old.attempt \in 0 .. MaxAttempts /\ f.attempt + 1 \in 0 .. MaxAttempts
  BY OutboxAssumption DEF OutboxRow
<1>2. Backoff(f.attempt + 1) \in Nat
  <2>1. \A n \in Nat : 2 * n * n \in Nat
    OBVIOUS
  <2> QED
    BY <1>1, <2>1 DEF Backoff
<1>3. CASE f.pc = "ok"
  <2>0. PICK n \in 0 .. MaxAttempts : n = old.attempt + 1
    BY <1>1
  <2>1. PICK r : r = [old EXCEPT !.delivered = TRUE, !.attempt = n]
    OBVIOUS
  <2>2. Marked(old, f) = r
    BY <1>3, <2>0, <2>1 DEF Marked
  <2>3. /\ r.there = old.there /\ r.url = old.url /\ r.attempt = old.attempt + 1
        /\ r.wait = old.wait /\ r.delivered = TRUE /\ r.failed = old.failed
    BY <2>0, <2>1 DEF OutboxRow
  <2>4. r \in OutboxRow
    BY <2>1 DEF OutboxRow
  <2> QED
    BY <1>1, <1>3, <2>2, <2>3, <2>4
<1>4. CASE f.pc = "giveup"
  <2>0. PICK n \in 0 .. MaxAttempts : n = MaxAttempts
    BY <1>1
  <2>1. PICK r : r = [old EXCEPT !.failed = TRUE, !.attempt = n]
    OBVIOUS
  <2>2. Marked(old, f) = r
    BY <1>4, <2>0, <2>1 DEF Marked
  <2>3. /\ r.there = old.there /\ r.url = old.url /\ r.attempt = MaxAttempts
        /\ r.wait = old.wait /\ r.delivered = old.delivered /\ r.failed = TRUE
    BY <2>0, <2>1 DEF OutboxRow
  <2>4. r \in OutboxRow
    BY <2>1 DEF OutboxRow
  <2> QED
    BY <1>1, <1>4, <2>2, <2>3, <2>4
<1>5. CASE f.pc = "retry"
  <2>1. PICK r : r = [old EXCEPT !.attempt = f.attempt + 1, !.wait = Backoff(f.attempt + 1)]
    OBVIOUS
  <2>2. Marked(old, f) = r
    BY <1>5, <2>1 DEF Marked
  <2>3. /\ r.there = old.there /\ r.url = old.url /\ r.attempt = f.attempt + 1
        /\ r.wait = Backoff(f.attempt + 1) /\ r.delivered = old.delivered /\ r.failed = old.failed
    BY <2>1 DEF OutboxRow
  <2>4. r \in OutboxRow
    BY <1>1, <1>2, <2>1 DEF OutboxRow
  <2> QED
    BY <1>1, <1>5, <2>2, <2>3, <2>4
<1> QED
  BY <1>3, <1>4, <1>5 DEF Outcomes

-----------------------------------------------------------------------------
(* Types                                                                   *)

LEMMA InitTyped == Init => TypeOK
  BY OutboxAssumption DEF Init, TypeOK, Landed

(* Every step keeps the types; that no attempt_count exceeds max_attempts  *)
(* rests on the rows in flight, which the claim found below it.            *)
LEMMA NextTyped == TypeOK /\ Leases /\ [Next]_vars => TypeOK'
<1> SUFFICES ASSUME TypeOK, Leases, [Next]_vars PROVE TypeOK'
  OBVIOUS
<1>1. /\ rows \in [Events -> OutboxRow] /\ flight \in [Workers -> [Events -> Delivery]]
      /\ posts \in [Events -> Nat] /\ accepted \in [Events -> Nat]
      /\ faults \in 0 .. MaxFaults /\ MaxFaults \in Nat /\ late \in Nat
  BY OutboxAssumption DEF TypeOK, OutboxRow, Delivery
<1> SUFFICES /\ rows' \in [Events -> OutboxRow] /\ flight' \in [Workers -> [Events -> Delivery]]
             /\ posts' \in [Events -> Nat] /\ accepted' \in [Events -> Nat]
             /\ faults' \in 0 .. MaxFaults /\ late' \in Nat
  BY DEF TypeOK, OutboxRow, Delivery
<1>2. CASE UNCHANGED vars
  BY <1>1, <1>2 DEF vars
<1>3. ASSUME NEW e \in Events, Insert(e)
      PROVE  /\ rows' \in [Events -> OutboxRow]
             /\ UNCHANGED <<flight, posts, accepted, faults, late>>
  <2>1. PICK u \in {"valid", "invalid"} :
          rows' = [rows EXCEPT ![e].there = TRUE, ![e].url = u]
    BY <1>3 DEF Insert
  <2>2. [rows[e] EXCEPT !.there = TRUE, !.url = u] \in OutboxRow
    BY <1>1 DEF OutboxRow
  <2>3. rows' = [rows EXCEPT ![e] = [rows[e] EXCEPT !.there = TRUE, !.url = u]]
    BY <1>1, <2>1
  <2> QED
    BY <1>1, <1>3, <2>2, <2>3 DEF Insert
<1>4. ASSUME NEW w \in Workers, FetchAndClaim(w)
      PROVE  /\ rows' \in [Events -> OutboxRow] /\ flight' \in [Workers -> [Events -> Delivery]]
             /\ UNCHANGED <<posts, accepted, faults, late>>
  <2>1. PICK S \in SUBSET Eligible :
        /\ rows' = [e \in Events |-> IF e \in S THEN Claimed(rows[e]) ELSE rows[e]]
        /\ flight' = [flight EXCEPT ![w] = [e \in Events |->
              IF e \in S THEN [pc |-> "queued", attempt |-> rows[e].attempt, age |-> 0]
                         ELSE Landed]]
    BY <1>4 DEF FetchAndClaim
  <2>2. \A e \in Events : Claimed(rows[e]) \in OutboxRow
    BY <1>1, OutboxAssumption DEF Claimed, OutboxRow
  <2>3. \A e \in Events :
          [pc |-> "queued", attempt |-> rows[e].attempt, age |-> 0] \in Delivery
    BY <1>1, OutboxAssumption DEF OutboxRow, Delivery
  <2>4. Landed \in Delivery
    BY OutboxAssumption DEF Landed, Delivery
  <2> QED
    BY <1>1, <1>4, <2>1, <2>2, <2>3, <2>4 DEF FetchAndClaim
<1>5. ASSUME NEW w \in Workers, Crash(w)
      PROVE  /\ flight' \in [Workers -> [Events -> Delivery]] /\ faults' \in 0 .. MaxFaults
             /\ UNCHANGED <<rows, posts, accepted, late>>
  <2>1. Landed \in Delivery
    BY OutboxAssumption DEF Landed, Delivery
  <2> QED
    BY <1>1, <1>5, <2>1 DEF Crash
<1>6. ASSUME NEW w \in Workers, NEW e \in Events, Deliver(w, e) \/ MarkFails(w, e)
      PROVE  /\ rows' \in [Events -> OutboxRow] /\ flight' \in [Workers -> [Events -> Delivery]]
             /\ posts' \in [Events -> Nat] /\ accepted' \in [Events -> Nat]
             /\ faults' \in 0 .. MaxFaults /\ late' \in Nat
  <2>1. flight' \in [Workers -> [Events -> Delivery]]
    BY <1>6, DeliveryMoves, Moved
  <2>2. rows' \in [Events -> OutboxRow]
    <3>1. CASE UNCHANGED rows
      BY <1>1, <3>1
    <3>2. CASE /\ rows' = [rows EXCEPT ![e] = Marked(@, flight[w][e])]
               /\ flight[w][e].pc \in Outcomes
      <4>1. rows[e].attempt < MaxAttempts /\ flight[w][e].attempt = rows[e].attempt
        BY <3>2 DEF Leases, Batch, Held, Busy, Outcomes
      <4>2. Marked(rows[e], flight[w][e]) \in OutboxRow
        BY <1>1, <3>2, <4>1, MarkedTyped
      <4> QED
        BY <1>1, <3>2, <4>2
    <3> QED
      BY <1>6, <3>1, <3>2 DEF Deliver, StartDelivery, EndPost, MarkOutcome, MarkFails
  <2>3. posts' \in [Events -> Nat] /\ accepted' \in [Events -> Nat]
    BY <1>1, <1>6 DEF Deliver, StartDelivery, EndPost, MarkOutcome, MarkFails
  <2>4. faults' \in 0 .. MaxFaults /\ late' \in Nat
    BY <1>1, <1>6 DEF Deliver, StartDelivery, EndPost, MarkOutcome, MarkFails
  <2> QED
    BY <2>1, <2>2, <2>3, <2>4
<1>7. ASSUME Tick
      PROVE  /\ rows' \in [Events -> OutboxRow] /\ flight' \in [Workers -> [Events -> Delivery]]
             /\ UNCHANGED <<posts, accepted, faults, late>>
  <2>1. ASSUME NEW e \in Events PROVE rows'[e] \in OutboxRow
    <3>1. rows'[e] = [rows[e] EXCEPT !.wait = IF rows[e].wait > 0 THEN rows[e].wait - 1 ELSE 0]
      BY <1>7, <2>1 DEF Tick
    <3>2. (IF rows[e].wait > 0 THEN rows[e].wait - 1 ELSE 0) \in Nat
      BY <1>1, <2>1 DEF OutboxRow
    <3> QED
      BY <1>1, <2>1, <3>1, <3>2 DEF OutboxRow
  <2>2. ASSUME NEW w \in Workers, NEW e \in Events PROVE flight'[w][e] \in Delivery
    <3>1. flight'[w][e] = [flight[w][e] EXCEPT !.age =
             IF flight[w][e].pc = "posting" THEN flight[w][e].age + 1 ELSE flight[w][e].age]
      BY <1>7, <2>2 DEF Tick
    <3>2. ~Urgent(w, e) /\ flight[w][e] \in Delivery /\ HttpTimeout \in Nat
      BY <1>1, <1>7, <2>2, OutboxAssumption DEF Tick
    <3>3. (IF flight[w][e].pc = "posting" THEN flight[w][e].age + 1 ELSE flight[w][e].age)
             \in 0 .. HttpTimeout
      BY <3>2 DEF Urgent, Delivery
    <3> QED
      BY <3>1, <3>2, <3>3 DEF Delivery
  <2>3. DOMAIN rows' = Events /\ rows' = [e \in Events |-> rows'[e]]
    BY <1>7 DEF Tick
  <2>4. flight' = [w \in Workers |-> [e \in Events |-> flight'[w][e]]]
    BY <1>7 DEF Tick
  <2> QED
    BY <1>7, <2>1, <2>2, <2>3, <2>4 DEF Tick
<1> QED
  BY <1>1, <1>2, <1>3, <1>4, <1>5, <1>6, <1>7 DEF Next

-----------------------------------------------------------------------------
(* Leases                                                                  *)

(* A row that is given up has used up its attempts.                        *)
Final == \A e \in Events : rows[e].failed => rows[e].attempt = MaxAttempts

LEMMA OneProceeds ==
    ASSUME OneDeliveryAtATime, \A w \in Workers : Proceeds(w)
    PROVE  OneDeliveryAtATime'
BY DEF OneDeliveryAtATime, Proceeds

LEMMA InsertProceeds ==
    ASSUME TypeOK, Leases, NEW e \in Events, Insert(e), NEW w \in Workers
    PROVE  Proceeds(w)
<1>1. \A g \in Events \ {e} : rows'[g] = rows[g]
  BY DEF Insert, TypeOK
<1>2. flight' = flight /\ flight[w][e].pc = "none"
  BY DEF Insert, Leases, Batch, Held, Busy
<1> QED
  BY <1>1, <1>2 DEF Proceeds

LEMMA CrashProceeds ==
    ASSUME TypeOK, NEW w \in Workers, Crash(w), NEW v \in Workers
    PROVE  Proceeds(v)
<1>1. rows' = rows
  BY DEF Crash
<1>2. CASE v = w
  <2>1. \A g \in Events : flight'[v][g] = Landed
    BY <1>2 DEF Crash, TypeOK
  <2>2. \A g \in Events : flight'[v][g].pc = "none"
    BY <2>1 DEF Landed
  <2> QED
    BY <2>2 DEF Proceeds
<1>3. CASE v # w
  <2>1. flight'[v] = flight[v]
    BY <1>3 DEF Crash, TypeOK
  <2> QED
    BY <1>1, <2>1 DEF Proceeds
<1> QED
  BY <1>2, <1>3

(* Only the row whose delivery ends is written, and by one worker.         *)
LEMMA DeliveryProceeds ==
    ASSUME TypeOK, Leases, NEW w \in Workers, NEW e \in Events,
           Deliver(w, e) \/ MarkFails(w, e), NEW v \in Workers
    PROVE  Proceeds(v)
<1>1. PICK f \in Delivery :
              /\ Moves(w, e, f)
              /\ flight[w][e].pc # "none"
              /\ \/ /\ StartDelivery(w, e)
                    /\ flight[w][e].pc = "queued" /\ f.pc \in {"posting", "giveup"}
                    /\ f.attempt = flight[w][e].attempt /\ f.age = flight[w][e].age
                 \/ /\ EndPost(w, e)
                    /\ flight[w][e].pc = "posting" /\ f.pc \in Outcomes
                    /\ f.attempt = flight[w][e].attempt /\ f.age = flight[w][e].age
                 \/ /\ MarkOutcome(w, e) \/ MarkFails(w, e)
                    /\ flight[w][e].pc \in Outcomes /\ f = Landed
  BY DeliveryMoves
<1>2. /\ flight'[w][e] = f
      /\ \A u \in Workers, g \in Events : u # w \/ g # e => flight'[u][g] = flight[u][g]
  BY <1>1, Moved
<1>3. \A g \in Events \ {e} : rows'[g] = rows[g]
  BY DEF Deliver, StartDelivery, EndPost, MarkOutcome, MarkFails, TypeOK
<1>4. v # w => flight'[v][e].pc = "none"
  BY <1>1, <1>2 DEF Leases, OneDeliveryAtATime
<1>5. f.pc # "none" =>
        /\ rows' = rows
        /\ f.attempt = flight[w][e].attempt /\ f.age = flight[w][e].age
        /\ f.pc = "queued" => flight[w][e].pc = "queued"
        /\ f.pc = "posting" => flight[w][e].pc \in {"queued", "posting"}
  BY <1>1 DEF StartDelivery, EndPost, Landed, Outcomes
<1> SUFFICES ASSUME NEW g \in Events, flight'[v][g].pc # "none"
             PROVE  /\ flight[v][g].pc # "none"
                    /\ rows'[g] = rows[g]
                    /\ flight'[v][g].attempt = flight[v][g].attempt
                    /\ flight'[v][g].age = flight[v][g].age
                    /\ flight'[v][g].pc = "queued" => flight[v][g].pc = "queued"
                    /\ flight'[v][g].pc = "posting" => flight[v][g].pc \in {"queued", "posting"}
  BY DEF Proceeds
<1>6. CASE g # e
  BY <1>2, <1>3, <1>6
<1>7. CASE g = e
  <2>1. v = w /\ flight'[w][e] = f
    BY <1>2, <1>4, <1>7
  <2> QED
    BY <1>1, <1>5, <1>7, <2>1
<1> QED
  BY <1>6, <1>7

(* What is claimed is in no other worker's batch: the leases of those rows *)
(* still run.                                                              *)
LEMMA ClaimLeases ==
    ASSUME TypeOK, Leases, Final, NEW w \in Workers, FetchAndClaim(w)
    PROVE  OneDeliveryAtATime' /\ \A v \in Workers : Batch(v)'
<1>1. PICK S \in SUBSET Eligible :
        /\ rows' = [e \in Events |-> IF e \in S THEN Claimed(rows[e]) ELSE rows[e]]
        /\ flight' = [flight EXCEPT ![w] = [e \in Events |->
              IF e \in S THEN [pc |-> "queued", attempt |-> rows[e].attempt, age |-> 0]
                         ELSE Landed]]
  BY DEF FetchAndClaim
<1>2. /\ S \subseteq Events
      /\ \A e \in S, v \in Workers : flight[v][e].pc = "none"
  <2>1. \A e \in S : e \in Events /\ rows[e].wait = 0
    BY DEF Eligible
  <2>2. \A v \in Workers, e \in Events : flight[v][e].pc # "none" => rows[e].wait \in 1 .. Lease
    BY DEF Leases, Batch, Held, Busy
  <2> QED
    BY <2>1, <2>2, OutboxAssumption
<1>3. \A v \in Workers : v # w => flight'[v] = flight[v]
  BY <1>1 DEF TypeOK
<1>4. \A e \in Events \ S : flight'[w][e].pc = "none" /\ rows'[e] = rows[e]
  <2>1. \A e \in Events \ S : flight'[w][e] = Landed /\ rows'[e] = rows[e]
    BY <1>1 DEF TypeOK
  <2> QED
    BY <2>1 DEF Landed
<1>5. OneDeliveryAtATime'
  BY <1>2, <1>3, <1>4 DEF OneDeliveryAtATime, Leases
<1>6. Batch(w)'
  BY BatchBegins DEF Leases, Final
<1>7. ASSUME NEW v \in Workers, v # w PROVE Batch(v)'
  <2>1. flight'[v] = flight[v]
    BY <1>3, <1>7
  <2>2. \A e \in Events : flight[v][e].pc # "none" => rows'[e] = rows[e]
    BY <1>2, <1>4, <1>7
  <2>3. Proceeds(v)
    BY <2>1, <2>2 DEF Proceeds
  <2> QED
    BY <2>3, BatchProceeds DEF Leases
<1> QED
  BY <1>5, <1>6, <1>7

LEMMA TickLeases ==
    ASSUME TypeOK, Leases, Tick
    PROVE  OneDeliveryAtATime' /\ \A v \in Workers : Batch(v)'
<1>1. \A v \in Workers, e \in Events : flight'[v][e].pc = flight[v][e].pc
  <2> SUFFICES ASSUME NEW v \in Workers, NEW e \in Events
               PROVE  flight'[v][e].pc = flight[v][e].pc
    OBVIOUS
  <2>1. flight[v][e] \in Delivery
    BY DEF TypeOK, Delivery
  <2>2. flight'[v][e] = [flight[v][e] EXCEPT !.age =
             IF flight[v][e].pc = "posting" THEN flight[v][e].age + 1 ELSE flight[v][e].age]
    BY DEF Tick
  <2> QED
    BY <2>1, <2>2 DEF Delivery
<1>2. OneDeliveryAtATime'
  BY <1>1 DEF OneDeliveryAtATime, Leases
<1> QED
  BY <1>2, BatchTicks DEF Leases

(* Only a transaction adds rows, one at a time.                            *)
LEMMA StoredStaysFinite == TypeOK /\ Leases /\ [Next]_vars => IsFiniteSet(Stored)'
<1> SUFFICES ASSUME TypeOK, IsFiniteSet(Stored), Leases, [Next]_vars
             PROVE  \E e : Stored' \subseteq Stored \cup {e}
  <2>1. ASSUME NEW e, Stored' \subseteq Stored \cup {e}, IsFiniteSet(Stored)
        PROVE  IsFiniteSet(Stored')
    <3>1. IsFiniteSet(Stored \cup {e})
      BY <2>1, FS_AddElement
    <3> QED
      BY <2>1, <3>1, FS_Subset
  <2> QED
    BY <2>1 DEF Leases
<1> DEFINE Kept == \A g \in Events : rows'[g].there = rows[g].there
<1>1. Kept => Stored' \subseteq Stored \cup {0}
  BY DEF Stored
<1>2. \A g \in Events : rows[g] \in OutboxRow
  BY DEF TypeOK, OutboxRow
<1>3. CASE UNCHANGED vars
  BY <1>1, <1>3 DEF vars
<1>4. ASSUME NEW e \in Events, Insert(e) PROVE \E g : Stored' \subseteq Stored \cup {g}
  <2>1. \A g \in Events \ {e} : rows'[g] = rows[g]
    BY <1>4 DEF Insert, TypeOK
  <2>2. Stored' \subseteq Stored \cup {e}
    BY <2>1 DEF Stored
  <2> QED
    BY <2>2
<1>5. ASSUME NEW w \in Workers, FetchAndClaim(w) PROVE Kept
  <2>1. \A g \in Events : rows'[g] = Claimed(rows[g]) \/ rows'[g] = rows[g]
    BY <1>5 DEF FetchAndClaim
  <2>2. \A g \in Events : Claimed(rows[g]).there = rows[g].there
    BY <1>2 DEF Claimed, OutboxRow
  <2> QED
    BY <2>1, <2>2
<1>6. ASSUME NEW w \in Workers, Crash(w) PROVE Kept
  BY <1>6 DEF Crash
<1>7. ASSUME NEW w \in Workers, NEW e \in Events, Deliver(w, e) \/ MarkFails(w, e) PROVE Kept
  <2>1. CASE rows' = rows
    BY <2>1
  <2>2. CASE /\ rows' = [rows EXCEPT ![e] = Marked(@, flight[w][e])]
             /\ flight[w][e].pc \in Outcomes
    <3>1. rows[e].attempt < MaxAttempts /\ flight[w][e].attempt = rows[e].attempt
      BY <2>2 DEF Leases, Batch, Held, Busy, Outcomes
    <3>2. Marked(rows[e], flight[w][e]).there = rows[e].there
      BY <1>2, <2>2, <3>1, MarkedTyped DEF TypeOK, Delivery
    <3>3. rows'[e] = Marked(rows[e], flight[w][e]) /\ \A g \in Events \ {e} : rows'[g] = rows[g]
      BY <2>2 DEF TypeOK
    <3> QED
      BY <3>2, <3>3
  <2> QED
    BY <1>7, <2>1, <2>2 DEF Deliver, StartDelivery, EndPost, MarkOutcome, MarkFails
<1>8. ASSUME Tick PROVE Kept
  <2>1. \A g \in Events : \E n : rows'[g] = [rows[g] EXCEPT !.wait = n]
    BY <1>8 DEF Tick
  <2> QED
    BY <1>2, <2>1 DEF OutboxRow
<1> QED
  BY <1>1, <1>3, <1>4, <1>5, <1>6, <1>7, <1>8 DEF Next

LEMMA NextLeases == TypeOK /\ Leases /\ Final /\ [Next]_vars => Leases'
<1> SUFFICES ASSUME TypeOK, Leases, Final, [Next]_vars
             PROVE  OneDeliveryAtATime' /\ \A v \in Workers : Batch(v)'
  BY StoredStaysFinite DEF Leases
<1>1. ASSUME \A v \in Workers : Proceeds(v)
      PROVE  OneDeliveryAtATime' /\ \A v \in Workers : Batch(v)'
  BY <1>1, OneProceeds, BatchProceeds DEF Leases
<1>2. CASE UNCHANGED vars
  BY <1>1, <1>2 DEF vars, Proceeds
<1>3. CASE \E e \in Events : Insert(e)
  BY <1>1, <1>3, InsertProceeds
<1>4. CASE \E w \in Workers : FetchAndClaim(w)
  BY <1>4, ClaimLeases
<1>5. CASE \E w \in Workers : Crash(w)
  BY <1>1, <1>5, CrashProceeds
<1>6. CASE \E w \in Workers, e \in Events : Deliver(w, e) \/ MarkFails(w, e)
  BY <1>1, <1>6, DeliveryProceeds
<1>7. CASE Tick
  BY <1>7, TickLeases
<1> QED
  BY <1>2, <1>3, <1>4, <1>5, <1>6, <1>7 DEF Next

(* What the steps other than those of a delivery leave of the rows, and of *)
(* the deliveries.                                                         *)
Kept(g) ==
    /\ rows'[g].failed = rows[g].failed
    /\ rows'[g].attempt = rows[g].attempt
    /\ rows'[g].delivered = rows[g].delivered

(* A delivery that has reached the point where the merchant may have got   *)
(* the request.                                                            *)
Sending(w, e) == flight[w][e].pc \in {"posting"} \cup Outcomes

Flies(g) ==
    \A w \in Workers : /\ Sending(w, g)' <=> Sending(w, g)
                       /\ flight'[w][g].pc = "ok" <=> flight[w][g].pc = "ok"

LEMMA QuietStep ==
    ASSUME TypeOK,
           \/ UNCHANGED vars
           \/ \E e \in Events : Insert(e)
           \/ \E w \in Workers : FetchAndClaim(w)
           \/ Tick
    PROVE  /\ UNCHANGED <<posts, accepted, faults, late>>
           /\ \A g \in Events : Kept(g) /\ Flies(g)
<1>1. \A g \in Events : rows[g] \in OutboxRow
  BY DEF TypeOK, OutboxRow
<1>2. \A w \in Workers, g \in Events : flight[w][g] \in Delivery
  BY DEF TypeOK, Delivery
<1>3. (UNCHANGED rows => \A g \in Events : Kept(g)) /\ (UNCHANGED flight => \A g \in Events : Flies(g))
  BY DEF Kept, Flies, Sending
<1>4. CASE UNCHANGED vars
  BY <1>3, <1>4 DEF vars
<1>5. ASSUME NEW e \in Events, Insert(e)
      PROVE  UNCHANGED <<posts, accepted, faults, late>> /\ \A g \in Events : Kept(g) /\ Flies(g)
  <2>1. PICK u : rows' = [rows EXCEPT ![e].there = TRUE, ![e].url = u]
    BY <1>5 DEF Insert
  <2>2. rows'[e] = [rows[e] EXCEPT !.there = TRUE, !.url = u]
    BY <2>1 DEF TypeOK
  <2>3. Kept(e)
    BY <1>1, <2>2 DEF OutboxRow, Kept
  <2>4. \A g \in Events \ {e} : Kept(g)
    BY <2>1 DEF TypeOK, Kept
  <2> QED
    BY <1>3, <1>5, <2>3, <2>4 DEF Insert
<1>6. ASSUME NEW w \in Workers, FetchAndClaim(w)
      PROVE  UNCHANGED <<posts, accepted, faults, late>> /\ \A g \in Events : Kept(g) /\ Flies(g)
  <2>1. \A g \in Events : rows'[g] = Claimed(rows[g]) \/ rows'[g] = rows[g]
    BY <1>6 DEF FetchAndClaim
  <2>2. \A g \in Events : /\ Claimed(rows[g]).failed = rows[g].failed
                          /\ Claimed(rows[g]).attempt = rows[g].attempt
                          /\ Claimed(rows[g]).delivered = rows[g].delivered
    BY <1>1 DEF Claimed, OutboxRow
  <2>3. \A g \in Events : Kept(g)
    BY <2>1, <2>2 DEF Kept
  <2>4. \A g \in Events : flight[w][g].pc = "none"
    BY <1>6 DEF FetchAndClaim, Idle
  <2>5. \A v \in Workers : v # w => flight'[v] = flight[v]
    BY <1>6 DEF FetchAndClaim, TypeOK
  <2>6. \A g \in Events : flight'[w][g].pc \in {"none", "queued"}
    <3>1. \A g \in Events : \/ flight'[w][g] = [pc |-> "queued", attempt |-> rows[g].attempt, age |-> 0]
                            \/ flight'[w][g] = Landed
      BY <1>6 DEF FetchAndClaim, TypeOK
    <3> SUFFICES ASSUME NEW g \in Events PROVE flight'[w][g].pc \in {"none", "queued"}
      OBVIOUS
    <3>2. CASE flight'[w][g] = [pc |-> "queued", attempt |-> rows[g].attempt, age |-> 0]
      BY <3>2
    <3>3. CASE flight'[w][g] = Landed
      BY <3>3 DEF Landed
    <3> QED
      BY <3>1, <3>2, <3>3
  <2>7. \A g \in Events : Flies(g)
    BY <2>4, <2>5, <2>6 DEF Flies, Sending, Outcomes
  <2> QED
    BY <1>6, <2>3, <2>7 DEF FetchAndClaim
<1>7. CASE Tick
  <2>1. \A g \in Events : \E n : rows'[g] = [rows[g] EXCEPT !.wait = n]
    BY <1>7 DEF Tick
  <2>2. \A g \in Events : Kept(g)
    BY <1>1, <2>1 DEF OutboxRow, Kept
  <2>3. \A w \in Workers, g \in Events : \E n : flight'[w][g] = [flight[w][g] EXCEPT !.age = n]
    BY <1>7 DEF Tick
  <2>4. \A w \in Workers, g \in Events : flight'[w][g].pc = flight[w][g].pc
    <3> SUFFICES ASSUME NEW w \in Workers, NEW g \in Events
                 PROVE  flight'[w][g].pc = flight[w][g].pc
      OBVIOUS
    <3>1. PICK n : flight'[w][g] = [flight[w][g] EXCEPT !.age = n]
      BY <2>3
    <3> QED
      BY <1>2, <3>1 DEF Delivery
  <2>5. \A g \in Events : Flies(g)
    BY <2>4 DEF Flies, Sending
  <2> QED
    BY <1>7, <2>2, <2>5 DEF Tick
<1> QED
  BY <1>4, <1>5, <1>6, <1>7

(* What the end of a delivery writes.                                      *)
LEMMA OutcomeWritten ==
    ASSUME TypeOK, Leases, NEW w \in Workers, NEW e \in Events,
           flight[w][e].pc \in Outcomes,
           rows' = [rows EXCEPT ![e] = Marked(@, flight[w][e])]
    PROVE  /\ \A g \in Events \ {e} : Kept(g)
           /\ rows'[e].attempt \in Nat /\ rows'[e].attempt >= rows[e].attempt + 1
           /\ flight[w][e].pc = "ok" => rows'[e].delivered
           /\ flight[w][e].pc # "ok" => rows'[e].delivered = rows[e].delivered
           /\ rows'[e].failed => rows'[e].attempt = MaxAttempts
<1>1. rows[e] \in OutboxRow /\ flight[w][e] \in Delivery
  BY DEF TypeOK, OutboxRow, Delivery
<1>2. /\ rows[e].attempt < MaxAttempts /\ flight[w][e].attempt = rows[e].attempt
      /\ ~rows[e].failed
  BY DEF Leases, Batch, Held, Busy, Outcomes
<1>3. rows'[e] = Marked(rows[e], flight[w][e]) /\ \A g \in Events \ {e} : rows'[g] = rows[g]
  BY DEF TypeOK
<1>4. Marked(rows[e], flight[w][e]) \in OutboxRow
  BY <1>1, <1>2, MarkedTyped
<1>5. rows'[e].attempt \in Nat
  BY <1>3, <1>4, OutboxAssumption DEF OutboxRow
<1> QED
  BY <1>1, <1>2, <1>3, <1>5, MarkedTyped DEF Kept

LEMMA NextFinal == TypeOK /\ Leases /\ Final /\ [Next]_vars => Final'
<1> SUFFICES ASSUME TypeOK, Leases, Final, [Next]_vars PROVE Final'
  OBVIOUS
<1>1. (\A g \in Events : Kept(g)) => Final'
  BY DEF Final, Kept
<1>2. ASSUME NEW w \in Workers, Crash(w) PROVE Final'
  BY <1>2 DEF Crash, Final
<1>3. ASSUME NEW w \in Workers, NEW e \in Events, Deliver(w, e) \/ MarkFails(w, e) PROVE Final'
  <2>1. CASE rows' = rows
    BY <2>1 DEF Final
  <2>2. CASE /\ rows' = [rows EXCEPT ![e] = Marked(@, flight[w][e])]
             /\ flight[w][e].pc \in Outcomes
    BY <2>2, OutcomeWritten DEF Final, Kept
  <2> QED
    BY <1>3, <2>1, <2>2 DEF Deliver, StartDelivery, EndPost, MarkOutcome, MarkFails
<1> QED
  BY <1>1, <1>2, <1>3, QuietStep DEF Next

-----------------------------------------------------------------------------
(* Counting                                                                *)

(* One if the merchant may have got a request that no attempt counts yet.  *)
Sent(e) == IF \E w \in Workers : Sending(w, e) THEN 1 ELSE 0

(* Every post of an event is an attempt that was counted, or the one in    *)
(* flight, or one whose update was prevented.                              *)
PostsCounted == \A e \in Events : posts[e] <= rows[e].attempt + Sent(e) + faults + late

(* Whether an answer of the merchant is recorded, or about to be.          *)
Got(e) == IF rows[e].delivered \/ \E w \in Workers : flight[w][e].pc = "ok" THEN 1 ELSE 0

(* So is every answer.                                                     *)
AnswersCounted == \A e \in Events : accepted[e] <= Got(e) + faults + late

(* Every step keeps the counts: a post and its answer belong to the one    *)
(* delivery under way, whose end adds an attempt, a fault or a late one.   *)
LEMMA NextCounted ==
    TypeOK /\ Leases /\ PostsCounted /\ AnswersCounted /\ [Next]_vars
        => PostsCounted' /\ AnswersCounted'
<1> SUFFICES ASSUME TypeOK, Leases, PostsCounted, AnswersCounted, [Next]_vars
             PROVE  PostsCounted' /\ AnswersCounted'
  OBVIOUS
<1>1. /\ faults \in Nat /\ late \in Nat
      /\ \A g \in Events : posts[g] \in Nat /\ accepted[g] \in Nat /\ rows[g].attempt \in Nat
  BY OutboxAssumption DEF TypeOK
<1>2. \A g \in Events : Sent(g) \in {0, 1} /\ Sent(g)' \in {0, 1}
                        /\ Got(g) \in {0, 1} /\ Got(g)' \in {0, 1}
  BY DEF Sent, Got
<1>3. \A g \in Events : /\ posts[g] <= rows[g].attempt + Sent(g) + faults + late
                        /\ accepted[g] <= Got(g) + faults + late
  BY DEF PostsCounted, AnswersCounted
(* Steps that count nothing. *)
<1>4. ASSUME UNCHANGED <<posts, accepted, faults, late>>,
             \A g \in Events : Kept(g) /\ Flies(g)
      PROVE  PostsCounted' /\ AnswersCounted'
  <2>1. \A g \in Events : Sent(g)' = Sent(g) /\ Got(g)' = Got(g)
    BY <1>4 DEF Kept, Flies, Sent, Got
  <2> QED
    BY <1>3, <1>4, <2>1 DEF PostsCounted, AnswersCounted, Kept
(* A fault makes up for what is forgotten. *)
<1>5. ASSUME UNCHANGED <<posts, accepted, late, rows>>, faults' = faults + 1
      PROVE  PostsCounted' /\ AnswersCounted'
  BY <1>1, <1>2, <1>3, <1>5 DEF PostsCounted, AnswersCounted
<1>6. ASSUME NEW w \in Workers, NEW e \in Events, Deliver(w, e)
      PROVE  PostsCounted' /\ AnswersCounted'
  <2>1. PICK f \in Delivery :
              /\ Moves(w, e, f)
              /\ flight[w][e].pc # "none"
              /\ \/ /\ StartDelivery(w, e)
                    /\ flight[w][e].pc = "queued" /\ f.pc \in {"posting", "giveup"}
                 \/ /\ EndPost(w, e)
                    /\ flight[w][e].pc = "posting" /\ f.pc \in Outcomes
                 \/ /\ MarkOutcome(w, e) \/ MarkFails(w, e)
                    /\ flight[w][e].pc \in Outcomes /\ f = Landed
    BY <1>6, DeliveryMoves
  <2>2. /\ flight'[w][e] = f
        /\ \A u \in Workers, g \in Events : u # w \/ g # e => flight'[u][g] = flight[u][g]
    BY <2>1, Moved
  <2>3. \A u \in Workers : u # w => flight[u][e].pc = "none" /\ flight'[u][e].pc = "none"
    BY <2>1, <2>2 DEF Leases, OneDeliveryAtATime
  <2>4. \A g \in Events \ {e} : Sent(g)' = Sent(g)
    BY <2>2 DEF Sent, Sending
  <2>5. /\ Sent(e) = IF flight[w][e].pc \in {"posting"} \cup Outcomes THEN 1 ELSE 0
        /\ Sent(e)' = IF f.pc \in {"posting"} \cup Outcomes THEN 1 ELSE 0
    BY <2>2, <2>3 DEF Sent, Sending, Outcomes
  <2>6. /\ Got(e) = IF rows[e].delivered \/ flight[w][e].pc = "ok" THEN 1 ELSE 0
        /\ Got(e)' = IF rows'[e].delivered \/ f.pc = "ok" THEN 1 ELSE 0
    BY <2>2, <2>3 DEF Got
  <2>7. \A g \in Events \ {e} : Kept(g) => Got(g)' = Got(g)
    BY <2>2 DEF Got, Kept
  <2>8. ~rows[e].delivered
    BY <2>1 DEF Leases, Batch, Held, Busy
  <2>9. CASE StartDelivery(w, e)
    <3>1. /\ UNCHANGED <<rows, accepted, faults, late>>
          /\ posts'[e] \in {posts[e], posts[e] + 1}
          /\ \A g \in Events \ {e} : posts'[g] = posts[g]
      BY <2>9 DEF StartDelivery, TypeOK
    <3>2. flight[w][e].pc = "queued" /\ f.pc \in {"posting", "giveup"}
      BY <2>1, <2>9 DEF StartDelivery, MayStart, EndPost, MarkOutcome, MarkFails, Outcomes
    <3>3. Sent(e) = 0 /\ Sent(e)' = 1 /\ Got(e) = 0 /\ Got(e)' = 0
      BY <2>5, <2>6, <2>8, <3>1, <3>2 DEF Outcomes
    <3>4. \A g \in Events \ {e} : Got(g)' = Got(g)
      BY <2>7, <3>1 DEF Kept
    <3>5. ASSUME NEW g \in Events
          PROVE  /\ posts'[g] <= rows'[g].attempt + Sent(g)' + faults' + late'
                 /\ accepted'[g] <= Got(g)' + faults' + late'
      BY <1>1, <1>3, <2>4, <3>1, <3>3, <3>4, <3>5
    <3> QED
      BY <3>5 DEF PostsCounted, AnswersCounted
  <2>10. CASE EndPost(w, e)
    <3>1. /\ UNCHANGED <<rows, posts, faults, late>>
          /\ accepted'[e] \in {accepted[e], accepted[e] + 1}
          /\ \A g \in Events \ {e} : accepted'[g] = accepted[g]
          /\ accepted'[e] = accepted[e] \/ flight'[w][e].pc = "ok"
      BY <2>10 DEF EndPost, TypeOK
    <3>2. flight[w][e].pc = "posting" /\ f.pc \in Outcomes
      BY <2>1, <2>10 DEF StartDelivery, MayStart, EndPost, MarkOutcome, MarkFails, Outcomes
    <3>3. Sent(e) = 1 /\ Sent(e)' = 1 /\ Got(e) = 0 /\ (f.pc = "ok" => Got(e)' = 1)
      BY <2>5, <2>6, <2>8, <3>1, <3>2 DEF Outcomes
    <3>4. \A g \in Events \ {e} : Got(g)' = Got(g)
      BY <2>7, <3>1 DEF Kept
    <3>5. ASSUME NEW g \in Events
          PROVE  /\ posts'[g] <= rows'[g].attempt + Sent(g)' + faults' + late'
                 /\ accepted'[g] <= Got(g)' + faults' + late'
      BY <1>1, <1>2, <1>3, <2>2, <2>4, <3>1, <3>3, <3>4, <3>5
    <3> QED
      BY <3>5 DEF PostsCounted, AnswersCounted
  <2>11. CASE MarkOutcome(w, e)
    <3>1. flight[w][e].pc \in Outcomes /\ UNCHANGED <<posts, accepted, faults>>
      BY <2>11 DEF MarkOutcome
    <3>2. CASE late' = late + 1 /\ UNCHANGED rows
      BY <1>1, <1>2, <1>3, <3>1, <3>2 DEF PostsCounted, AnswersCounted
    <3>3. CASE late' = late /\ rows' = [rows EXCEPT ![e] = Marked(@, flight[w][e])]
      <4>1. /\ \A g \in Events \ {e} : Kept(g)
            /\ rows'[e].attempt \in Nat /\ rows'[e].attempt >= rows[e].attempt + 1
            /\ flight[w][e].pc = "ok" => rows'[e].delivered
            /\ flight[w][e].pc # "ok" => rows'[e].delivered = rows[e].delivered
        BY <3>1, <3>3, OutcomeWritten
      <4>2. Got(e)' = Got(e)
        BY <2>6, <2>8, <3>1, <4>1, <2>1 DEF Landed, StartDelivery, MayStart, EndPost, Outcomes
      <4>3. \A g \in Events \ {e} : /\ rows'[g].attempt = rows[g].attempt
                                     /\ Sent(g)' = Sent(g) /\ Got(g)' = Got(g)
        BY <2>4, <2>7, <4>1 DEF Kept
      <4>4. ASSUME NEW g \in Events
            PROVE  /\ posts'[g] <= rows'[g].attempt + Sent(g)' + faults' + late'
                   /\ accepted'[g] <= Got(g)' + faults' + late'
        <5>1. CASE g = e
          BY <1>1, <1>2, <1>3, <3>1, <3>3, <4>1, <4>2, <5>1
        <5>2. CASE g # e
          BY <1>3, <3>1, <3>3, <4>3, <5>2
        <5> QED
          BY <5>1, <5>2
      <4> QED
        BY <4>4 DEF PostsCounted, AnswersCounted
    <3> QED
      BY <2>11, <3>2, <3>3 DEF MarkOutcome
  <2> QED
    BY <1>6, <2>9, <2>10, <2>11 DEF Deliver
<1>7. CASE \E w \in Workers : Crash(w)
  BY <1>5, <1>7 DEF Crash
<1>8. CASE \E w \in Workers, e \in Events : MarkFails(w, e)
  BY <1>5, <1>8 DEF MarkFails
<1>9. CASE \E w \in Workers, e \in Events : Deliver(w, e)
  BY <1>6, <1>9
<1> QED
  BY <1>4, <1>7, <1>8, <1>9, QuietStep DEF Next

-----------------------------------------------------------------------------
(* The theorems                                                            *)

OutboxIInv == TypeOK /\ Leases /\ Final /\ PostsCounted /\ AnswersCounted

LEMMA InitIInv == Init => OutboxIInv
<1> SUFFICES ASSUME Init PROVE OutboxIInv
  OBVIOUS
<1>1. TypeOK
  BY InitTyped
<1>2. \A e \in Events : /\ rows[e] = [there |-> FALSE, url |-> "none", attempt |-> 0, wait |-> 0,
                                      delivered |-> FALSE, failed |-> FALSE]
                        /\ posts[e] = 0 /\ accepted[e] = 0
  BY DEF Init
<1>3. \A w \in Workers, e \in Events : flight[w][e].pc = "none"
  <2>1. \A w \in Workers, e \in Events : flight[w][e] = Landed
    BY DEF Init
  <2> QED
    BY <2>1 DEF Landed
<1>4. \A e \in Events : ~rows[e].there /\ ~rows[e].failed /\ ~rows[e].delivered
                        /\ rows[e].attempt = 0
  BY <1>2
<1>5. Stored = {}
  BY <1>4 DEF Stored
<1>6. Leases
  BY <1>3, <1>5, FS_EmptySet DEF Leases, OneDeliveryAtATime, Batch, Busy
<1>7. Final
  BY <1>4 DEF Final
<1>8. \A e \in Events : Sent(e) = 0 /\ Got(e) = 0
  BY <1>3, <1>4 DEF Sent, Sending, Got, Outcomes
<1>9. faults = 0 /\ late = 0
  BY DEF Init
<1>10. PostsCounted /\ AnswersCounted
  BY <1>2, <1>4, <1>8, <1>9 DEF PostsCounted, AnswersCounted
<1> QED
  BY <1>1, <1>6, <1>7, <1>10 DEF OutboxIInv

LEMMA AlwaysIInv == Spec => []OutboxIInv
<1>1. OutboxIInv /\ [Next]_vars => OutboxIInv'
  BY NextTyped, NextLeases, NextFinal, NextCounted DEF OutboxIInv
<1> QED
  BY InitIInv, <1>1, PTL DEF Spec

(* The variables keep their types, whatever the workers do and however     *)
(* often they die; attempt_count never exceeds max_attempts, as the CHECK  *)
(* of the table demands (outbox_worker.go:157-187).                        *)
THEOREM OutboxTypeCorrect == Spec => []TypeOK
<1>1. OutboxIInv => TypeOK
  BY DEF OutboxIInv
<1> QED
  BY AlwaysIInv, <1>1, PTL

(* The lease outlasts the batch it is taken for, for every batch size and  *)
(* every number of parallel posts that OutboxAssumption admits: two        *)
(* workers never deliver one event at once (outbox_worker.go:104-107).     *)
THEOREM NoConcurrentDelivery == Spec => []OneDeliveryAtATime
<1>1. OutboxIInv => OneDeliveryAtATime
  BY DEF OutboxIInv, Leases
<1> QED
  BY AlwaysIInv, <1>1, PTL

(* The merchant gets at most max_attempts requests for an event, and one   *)
(* for each update that was prevented (outbox_worker.go:178-186).          *)
THEOREM PostsStayBounded == Spec => []PostsAreBounded
<1>1. OutboxIInv => PostsAreBounded
  <2> SUFFICES ASSUME OutboxIInv, NEW e \in Events
               PROVE  posts[e] <= MaxAttempts + faults + late
    BY DEF PostsAreBounded
  <2>1. posts[e] <= rows[e].attempt + Sent(e) + faults + late
    BY DEF OutboxIInv, PostsCounted
  <2>2. /\ posts[e] \in Nat /\ rows[e].attempt \in 0 .. MaxAttempts /\ MaxAttempts \in Nat
        /\ faults \in Nat /\ late \in Nat
    BY OutboxAssumption DEF OutboxIInv, TypeOK
  <2>3. rows[e].attempt + Sent(e) <= MaxAttempts
    <3>1. CASE \E w \in Workers : Sending(w, e)
      <4>1. rows[e].attempt < MaxAttempts
        BY <3>1 DEF OutboxIInv, Leases, Batch, Held, Busy, Sending, Outcomes
      <4> QED
        BY <2>2, <3>1, <4>1 DEF Sent
    <3>2. CASE ~ \E w \in Workers : Sending(w, e)
      BY <2>2, <3>2 DEF Sent
    <3> QED
      BY <3>1, <3>2
  <2>4. Sent(e) \in Nat
    BY DEF Sent
  <2> QED
    BY <2>1, <2>2, <2>3, <2>4
<1> QED
  BY AlwaysIInv, <1>1, PTL

(* What the merchant accepted is sent again only when its update was       *)
(* prevented (outbox_worker.go:168-175).                                   *)
THEOREM AcceptedEventsAreNotSentAgain == Spec => []AcceptedOnce
<1>1. OutboxIInv => AcceptedOnce
  <2> SUFFICES ASSUME OutboxIInv, NEW e \in Events
               PROVE  accepted[e] <= 1 + faults + late
    BY DEF AcceptedOnce
  <2>1. accepted[e] <= Got(e) + faults + late /\ Got(e) \in {0, 1}
    BY DEF OutboxIInv, AnswersCounted, Got
  <2>2. accepted[e] \in Nat /\ faults \in Nat /\ late \in Nat
    BY OutboxAssumption DEF OutboxIInv, TypeOK
  <2> QED
    BY <2>1, <2>2
<1> QED
  BY AlwaysIInv, <1>1, PTL

(* A row that is settled is in no batch, and no claim takes it.            *)
LEMMA SettledStep ==
    ASSUME TypeOK, Leases, Final, [Next]_vars, NEW e \in Events, rows[e].delivered \/ rows[e].failed
    PROVE  /\ rows'[e].attempt = rows[e].attempt
           /\ \A w \in Workers : flight'[w][e].pc = "none"
<1>1. \A w \in Workers : flight[w][e].pc = "none"
  BY DEF Leases, Batch, Held, Busy
<1>2. CASE \/ UNCHANGED vars \/ Tick
           \/ \E g \in Events : Insert(g)
           \/ \E w \in Workers : FetchAndClaim(w)
  <2>1. rows'[e].attempt = rows[e].attempt
    BY <1>2, QuietStep DEF Kept
  <2>2. CASE UNCHANGED flight
    BY <1>1, <2>1, <2>2
  <2>3. CASE Tick
    <3> SUFFICES ASSUME NEW w \in Workers PROVE flight'[w][e].pc = "none"
      BY <2>1
    <3>1. PICK n : flight'[w][e] = [flight[w][e] EXCEPT !.age = n]
      BY <2>3 DEF Tick
    <3>2. flight[w][e] \in Delivery
      BY DEF TypeOK, Delivery
    <3> QED
      BY <1>1, <3>1, <3>2 DEF Delivery
  <2>4. ASSUME NEW w \in Workers, FetchAndClaim(w)
        PROVE  \A v \in Workers : flight'[v][e].pc = "none"
    <3>1. \A v \in Workers : v # w => flight'[v] = flight[v]
      BY <2>4 DEF FetchAndClaim, TypeOK
    <3>2. e \notin Eligible
      BY OutboxAssumption DEF Eligible, Final
    <3>3. flight'[w][e] = Landed
      BY <2>4, <3>2 DEF FetchAndClaim, TypeOK
    <3> QED
      BY <1>1, <3>1, <3>3 DEF Landed
  <2> QED
    BY <1>2, <2>1, <2>2, <2>3, <2>4 DEF Insert, vars
<1>3. ASSUME NEW w \in Workers, Crash(w)
      PROVE  rows'[e].attempt = rows[e].attempt /\ \A v \in Workers : flight'[v][e].pc = "none"
  BY <1>1, <1>3, CrashProceeds DEF Proceeds, Crash
<1>4. ASSUME NEW w \in Workers, NEW g \in Events, Deliver(w, g) \/ MarkFails(w, g)
      PROVE  rows'[e].attempt = rows[e].attempt /\ \A v \in Workers : flight'[v][e].pc = "none"
  <2>1. \A v \in Workers : flight'[v][e].pc = "none"
    BY <1>1, <1>4, DeliveryProceeds DEF Proceeds
  <2>2. g # e
    BY <1>1, <1>4, DeliveryMoves
  <2>3. rows'[e] = rows[e]
    BY <1>4, <2>2 DEF Deliver, StartDelivery, EndPost, MarkOutcome, MarkFails, TypeOK
  <2> QED
    BY <2>1, <2>3
<1> QED
  BY <1>2, <1>3, <1>4 DEF Next

(* A delivered row and one given up stay as they are, and nothing is sent  *)
(* for them any more (outbox_worker.go:113-119).                           *)
THEOREM SettledEventsAreQuiet == Spec => SettledIsQuiet
<1>1. OutboxIInv /\ [Next]_vars =>
        [\A e \in Events :
           rows[e].delivered \/ rows[e].failed =>
             /\ rows'[e].attempt = rows[e].attempt
             /\ \A w \in Workers : flight'[w][e].pc = "none"]_vars
  BY SettledStep DEF OutboxIInv
<1> QED
  BY AlwaysIInv, <1>1, PTL DEF Spec, SettledIsQuiet


(***************************************************************************)
(* THE TREASURY                                                            *)
(***************************************************************************)
Task == [provider : Providers, st : {"pending", "active", "archived"}, retried : 0..MaxRetry]

Check == [pc : {"idle", "running"}, rows : [Providers -> Row \cup {NoRow}],
          left : SUBSET Providers]

(* A task of the queue has the id that its provider gives it.              *)
IdsAreProviders == \A id \in Ids : task[id] # NoTask => task[id].provider = id

(* A low balance, in the table or in what a check has read, was reported.  *)
LowIsReported ==
    \A p \in Providers :
        /\ NeedsTopup(row[p]) => p \in reported
        /\ \A c \in Checks : NeedsTopup(check[c].rows[p]) => p \in reported

TasksAreReported == \A id \in Ids : task[id] # NoTask => task[id].provider \in reported

QueueIsSound == TreasuryTypeOK /\ IdsAreProviders /\ LowIsReported /\ TasksAreReported

-----------------------------------------------------------------------------
LEMMA InitQueueSound == TreasuryInit => QueueIsSound
BY TreasuryAssumption
   DEF TreasuryInit, QueueIsSound, TreasuryTypeOK, IdsAreProviders, LowIsReported, TasksAreReported,
       NeedsTopup, NoRow, NoTask, NoCheck, Row

(* A balance is entered or reconciled.                                     *)
LEMMA UpsertSound ==
    ASSUME QueueIsSound, NEW p \in Providers, NEW idr \in Balances, NEW stamped \in BOOLEAN,
           Upsert(p, idr, stamped)
    PROVE  QueueIsSound'
<1> USE DEF QueueIsSound, Upsert
<1>1. [idr |-> idr, stamped |-> stamped] \in Row
  BY DEF Row
<1>2. reported \subseteq reported' /\ reported' \subseteq Providers
  BY DEF TreasuryTypeOK
<1>3. TreasuryTypeOK'
  BY <1>1, <1>2 DEF TreasuryTypeOK
<1>4. LowIsReported'
  BY <1>2 DEF LowIsReported, NeedsTopup, TreasuryTypeOK
<1> QED
  BY <1>2, <1>3, <1>4 DEF IdsAreProviders, TasksAreReported

(* A check reads the rows, looks at one, ends.                             *)
LEMMA CheckSound ==
    ASSUME QueueIsSound, NEW c \in Checks,
           \/ ListAll(c) \/ EndCheck(c)
           \/ \E p \in Providers : Skip(c, p) \/ QueueFails(c, p)
    PROVE  QueueIsSound'
<1> USE DEF QueueIsSound, IdsAreProviders, TasksAreReported
<1>0. check[c] \in Check
  BY DEF TreasuryTypeOK, Check
<1>1. CASE ListAll(c)
  <2>1. check'[c].rows = row /\ \A d \in Checks \ {c} : check'[d] = check[d]
    BY <1>1 DEF ListAll, TreasuryTypeOK
  <2>2. TreasuryTypeOK'
    BY <1>1 DEF ListAll, TreasuryTypeOK
  <2> QED
    BY <1>1, <2>1, <2>2 DEF ListAll, LowIsReported
<1>2. CASE EndCheck(c)
  <2>1. check'[c] = NoCheck /\ \A d \in Checks \ {c} : check'[d] = check[d]
    BY <1>2 DEF EndCheck, TreasuryTypeOK
  <2>2. \A p \in Providers : ~NeedsTopup(NoCheck.rows[p])
    BY DEF NoCheck, NoRow, NeedsTopup
  <2>3. NoCheck \in Check
    BY DEF NoCheck, Check
  <2>4. TreasuryTypeOK'
    BY <1>2, <2>3 DEF EndCheck, TreasuryTypeOK, Check
  <2> QED
    BY <1>2, <2>1, <2>2, <2>4 DEF EndCheck, LowIsReported
<1>3. ASSUME NEW p \in Providers, Skip(c, p) \/ QueueFails(c, p)
      PROVE  QueueIsSound'
  <2>1. Looked(c, p) /\ UNCHANGED <<row, task, reported>>
    BY <1>3 DEF Skip, QueueFails
  <2>2. \A d \in Checks : check'[d].rows = check[d].rows
    BY <2>1, <1>0 DEF Looked, TreasuryTypeOK, Check
  <2>3. TreasuryTypeOK'
    BY <2>1, <1>0 DEF Looked, TreasuryTypeOK, Check
  <2> QED
    BY <2>1, <2>2, <2>3 DEF LowIsReported
<1> QED
  BY <1>1, <1>2, <1>3

(* A check asks for a top-up.                                              *)
LEMMA QueueSound ==
    ASSUME QueueIsSound, NEW c \in Checks, NEW p \in Providers, Queue(c, p)
    PROVE  QueueIsSound'
<1> DEFINE new == [provider |-> p, st |-> "pending", retried |-> 0]
<1> USE DEF QueueIsSound
<1>1. /\ task[p] = NoTask /\ task' = [task EXCEPT ![p] = new]
      /\ Looked(c, p) /\ UNCHANGED <<row, reported>>
  BY DEF Queue, TaskId
<1>2. p \in Ids /\ new \in Task
  BY TreasuryAssumption DEF Task
<1>3. check[c] \in Check
  BY DEF TreasuryTypeOK, Check
<1>4. TreasuryTypeOK'
  BY <1>1, <1>2, <1>3 DEF Looked, TreasuryTypeOK, Check, Task
<1>5. \A d \in Checks : check'[d].rows = check[d].rows
  BY <1>1, <1>3 DEF Looked, TreasuryTypeOK, Check
<1>6. LowIsReported'
  BY <1>1, <1>5 DEF LowIsReported
<1>7. check[c].left \subseteq Providers /\ p \in reported
  BY <1>3 DEF Queue, LowIsReported, Check
<1>8. \A id \in Ids : task'[id] = IF id = p THEN new ELSE task[id]
  BY <1>1 DEF TreasuryTypeOK
<1>9. IdsAreProviders' /\ TasksAreReported'
  BY <1>1, <1>7, <1>8 DEF IdsAreProviders, TasksAreReported
<1> QED
  BY <1>4, <1>6, <1>9

(* A task goes through the queue.                                          *)
LEMMA TaskSound ==
    ASSUME QueueIsSound, NEW id \in Ids, Take(id) \/ Complete(id) \/ Recover(id)
    PROVE  QueueIsSound'
<1> USE DEF QueueIsSound
<1>1. task[id] \in Task
  BY DEF Take, Complete, Recover, TreasuryTypeOK, Task, NoTask
<1>2. UNCHANGED <<row, check, reported>>
  BY DEF Take, Complete, Recover
<1>3. PICK t \in Task \cup {NoTask} :
        task' = [task EXCEPT ![id] = t] /\ (t # NoTask => t.provider = task[id].provider)
  <2>1. CASE Take(id)
    <3>1. [task[id] EXCEPT !.st = "active"] \in Task
      BY <1>1 DEF Task
    <3> QED
      BY <2>1, <3>1, <1>1 DEF Take, Task
  <2>2. CASE Complete(id)
    BY <2>2 DEF Complete
  <2>3. CASE Recover(id)
    <3>1. CASE task[id].retried < MaxRetry
      <4>1. [task[id] EXCEPT !.st = "pending", !.retried = task[id].retried + 1] \in Task
        <5>1. task[id].retried + 1 \in 0..MaxRetry
          BY <1>1, <3>1, TreasuryAssumption DEF Task
        <5> QED
          BY <1>1, <5>1 DEF Task
      <4> QED
        BY <2>3, <3>1, <4>1, <1>1 DEF Recover, Task
    <3>2. CASE ~(task[id].retried < MaxRetry)
      <4>1. [task[id] EXCEPT !.st = "archived"] \in Task
        BY <1>1 DEF Task
      <4> QED
        BY <2>3, <3>2, <4>1, <1>1 DEF Recover, Task
    <3> QED
      BY <3>1, <3>2
  <2> QED
    BY <2>1, <2>2, <2>3
<1>4. TreasuryTypeOK'
  BY <1>2, <1>3 DEF TreasuryTypeOK, Task
<1>5. \A j \in Ids : task'[j] = IF j = id THEN t ELSE task[j]
  BY <1>3 DEF TreasuryTypeOK
<1>6. task[id] # NoTask
  BY DEF Take, Complete, Recover, NoTask
<1>7. IdsAreProviders' /\ TasksAreReported'
  BY <1>2, <1>3, <1>5, <1>6 DEF IdsAreProviders, TasksAreReported
<1> QED
  BY <1>2, <1>4, <1>7 DEF LowIsReported

LEMMA NextQueueSound == QueueIsSound /\ [TreasuryNext]_treasuryVars => QueueIsSound'
<1> SUFFICES ASSUME QueueIsSound, [TreasuryNext]_treasuryVars PROVE QueueIsSound'
  OBVIOUS
<1>1. CASE UNCHANGED treasuryVars
  BY <1>1 DEF treasuryVars, QueueIsSound, TreasuryTypeOK, IdsAreProviders, LowIsReported, TasksAreReported
<1>2. ASSUME NEW p \in Providers, NEW idr \in Balances,
             UpdateProviderBalance(p, idr) \/ Reconcile(p, idr)
      PROVE  QueueIsSound'
  BY <1>2, UpsertSound DEF UpdateProviderBalance, Reconcile
<1>3. ASSUME NEW c \in Checks, ListAll(c) \/ EndCheck(c) PROVE QueueIsSound'
  BY <1>3, CheckSound
<1>4. ASSUME NEW c \in Checks, NEW p \in Providers,
             Skip(c, p) \/ Queue(c, p) \/ QueueFails(c, p)
      PROVE  QueueIsSound'
  BY <1>4, CheckSound, QueueSound
<1>5. ASSUME NEW id \in Ids, Take(id) \/ Complete(id) \/ Recover(id) PROVE QueueIsSound'
  BY <1>5, TaskSound
<1> QED
  BY <1>1, <1>2, <1>3, <1>4, <1>5 DEF TreasuryNext

-----------------------------------------------------------------------------
(* The variables keep their types, whatever the scheduler, the workers and *)
(* the admins do (handler.go:43-99, the admins' balances included).        *)
THEOREM TreasuryTypeCorrect == TreasurySpec => []TreasuryTypeOK
<1>1. QueueIsSound => TreasuryTypeOK
  BY DEF QueueIsSound
<1> QED
  BY <1>1, InitQueueSound, NextQueueSound, PTL DEF TreasurySpec

(* With the task's id made from its provider, checks that overlap never    *)
(* have two top-ups of a provider waiting or under way (tasks.go:34-48).   *)
THEOREM OneTopup == TreasurySpec => []OneTopupAtATime
<1>1. QueueIsSound => OneTopupAtATime
  <2> SUFFICES ASSUME QueueIsSound, NEW i \in Ids, NEW j \in Ids, Waiting(i), Waiting(j),
                      task[i].provider = task[j].provider
               PROVE  i = j
    BY DEF OneTopupAtATime
  <2>1. task[i] # NoTask /\ task[j] # NoTask
    BY DEF Waiting, NoTask
  <2> QED
    BY <2>1 DEF QueueIsSound, IdsAreProviders
<1> QED
  BY <1>1, InitQueueSound, NextQueueSound, PTL DEF TreasurySpec

(* No top-up is waiting for a provider that no reconciliation ever found   *)
(* low, however stale the rows a check has read (handler.go:44-56).        *)
THEOREM TopupsReported == TreasurySpec => []TopupsFollowReports
<1>1. QueueIsSound => TopupsFollowReports
  BY DEF QueueIsSound, TasksAreReported, TopupsFollowReports, Waiting, NoTask
<1> QED
  BY <1>1, InitQueueSound, NextQueueSound, PTL DEF TreasurySpec
=============================================================================
