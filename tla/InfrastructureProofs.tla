------------------------- MODULE InfrastructureProofs -------------------------
(***************************************************************************)
(* Theorems about what the use cases stand on: the gateways of the         *)
(* providers (Gateway, Adapters), and the start and the shutdown of the    *)
(* program (Lifecycle), for any number of calls and instances.             *)
(***************************************************************************)
EXTENDS Gateway, Lifecycle, FiniteSetTheorems, TLAPS

(***************************************************************************)
(* THE GATEWAYS                                                            *)
(***************************************************************************)
(* What the adapters say                                                   *)

(* What may be claimed of what the provider did.                           *)
Says(p, o, result, did) ==
    <<p, o>> \notin Unchecked =>
        /\ result \in {"ok", "paid", "completed", "processing"} => did
        /\ KindOf(o) = "payout" /\ result = "failed" => ~did

(* Every answer becomes one of the results, at every provider.             *)
LEMMA ResultsTyped ==
    ASSUME NEW p \in Providers, NEW o \in Ops(p), NEW a \in Codes(o)
    PROVE  Result(p, o, a) \in Results
<1> USE DEF Result, Decoded, Results, OkIf, Providers, Ops, PaymentOps, PayoutOps, Callbacks, Codes,
        PaymentCodes, PayoutCodes
<1>0. CASE a = "garbled"
  BY <1>0
<1>1. CASE o = "va" /\ a # "garbled"
  BY <1>1 DEF CreateVA, MidtransVA, XenditVA, DokuVA, IPaymuVA
<1>2. CASE o = "qris" /\ a # "garbled"
  BY <1>2 DEF CreateQRIS, MidtransQRIS, XenditQRIS, DokuQRIS, IPaymuQRIS
<1>3. CASE o = "cancel" /\ a # "garbled"
  BY <1>3 DEF CancelPayment, MidtransCancel, XenditCancel, DokuCancel, IPaymuCancel
<1>4. CASE o = "status" /\ a # "garbled"
  BY <1>4 DEF GetStatus, MidtransStatus, XenditStatus, DokuStatus, IPaymuStatus
<1>5. CASE o = "callback" /\ a # "garbled"
  BY <1>5 DEF ParseWebhook, IPaymuEvent, GetStatus, MidtransStatus, XenditStatus, DokuStatus
<1>6. CASE o \in PayoutOps \cup {"payout_callback"} /\ a # "garbled"
  BY <1>6 DEF Disburse, DokuDisburse, XenditDisburse
<1> QED
  BY <1>0, <1>1, <1>2, <1>3, <1>4, <1>5, <1>6

(* Operation by operation, over the answers that each may get.             *)
LEMMA ResultsAreTrue ==
    ASSUME NEW p \in Providers, NEW o \in Ops(p), NEW a \in Codes(o), NEW did \in Truths(o, a)
    PROVE  Says(p, o, Result(p, o, a), did)
<1> USE DEF Result, Decoded, OkIf, Providers, Ops, PaymentOps, PayoutOps, Callbacks, Codes,
        PaymentCodes, PayoutCodes, Says, KindOf, Unchecked
<1> SUFFICES ASSUME <<p, o>> \notin Unchecked PROVE Says(p, o, Result(p, o, a), did)
  OBVIOUS
<1>0. CASE a = "garbled"
  BY <1>0
<1>t. a \notin {"garbled", "other"} =>
         did = (a \in {"done", "bare", "paid", "completed", "accepted"})
  BY DEF Truths
<1>1. CASE o = "va" /\ a # "garbled"
  BY <1>1, <1>t DEF CreateVA, MidtransVA, XenditVA, DokuVA, IPaymuVA
<1>2. CASE o = "qris" /\ a # "garbled"
  BY <1>2, <1>t DEF CreateQRIS, MidtransQRIS, XenditQRIS, DokuQRIS, IPaymuQRIS
<1>3. CASE o = "cancel" /\ a # "garbled"
  BY <1>3, <1>t DEF CancelPayment, MidtransCancel, XenditCancel, DokuCancel, IPaymuCancel
<1>4. CASE o = "status" /\ a # "garbled"
  BY <1>4, <1>t DEF GetStatus, MidtransStatus, XenditStatus, DokuStatus, IPaymuStatus
<1>5. CASE o = "callback" /\ a # "garbled"
  BY <1>5, <1>t DEF ParseWebhook, IPaymuEvent, GetStatus, MidtransStatus, XenditStatus, DokuStatus
<1>6. CASE o \in PayoutOps \cup {"payout_callback"} /\ a # "garbled"
  BY <1>6, <1>t DEF Disburse, DokuDisburse, XenditDisburse
<1> QED
  BY <1>0, <1>1, <1>2, <1>3, <1>4, <1>5, <1>6

-----------------------------------------------------------------------------
(* Calls and breakers                                                      *)

Operations == PaymentOps \cup PayoutOps \cup Callbacks

ACall == [op : Operations \cup {"none"}, pc : {"idle", "in", "fetch", "sent", "returned"},
          cur : BOOLEAN, age : 0..HttpTimeout, left : 0..TokenTTL,
          did : BOOLEAN, result : Results \cup {"none"}]

ABreaker == [st : {"closed", "half", "open"}, requests : 0..MaxRequests,
             failures : 0..(ConsecutiveFailures - 1), successes : 0..MaxRequests]

Typing ==
    /\ call \in [Calls -> ACall] /\ breaker \in [Kinds -> ABreaker]
    /\ provider \in Providers /\ holder \in Calls \cup {Nobody}
    /\ token \in [thought : 0..TokenTTL, left : 0..TokenTTL]

LEMMA TypingIsTypeOK == Typing <=> TypeOK
BY DEF Typing, TypeOK, ACall, ABreaker, Operations

LEMMA ConstantsTyped ==
    /\ HttpTimeout \in Nat \ {0} /\ Margin \in Nat /\ TokenTTL \in Nat \ {0}
    /\ MaxRequests \in Nat \ {0} /\ ConsecutiveFailures \in Nat \ {0}
    /\ Margin >= 2 * HttpTimeout /\ TokenTTL > Margin
BY GatewayAssumption

(* What a new generation of a breaker leaves of a call: all but cur.       *)
Same(x, y) ==
    /\ y.op = x.op /\ y.pc = x.pc /\ y.age = x.age /\ y.left = x.left
    /\ y.did = x.did /\ y.result = x.result /\ (y.cur => x.cur)

(* A call that the breaker has admitted to the adapter and will count.     *)
At(r, k) == /\ KindOf(r.op) = k /\ r.op \notin Callbacks
            /\ r.pc \in {"in", "fetch", "sent"} /\ r.cur

Inside(k) == {c \in Calls : At(call[c], k)}

Shield(k) ==
    /\ breaker[k].st = "open" => Inside(k) = {}
    /\ breaker[k].st = "half" =>
          IsFiniteSet(Inside(k)) /\ Cardinality(Inside(k)) <= breaker[k].requests

(* What is known of a call at a provider, as far as it has come.           *)
Fit(p, r) ==
    /\ r.pc \in {"in", "fetch", "sent"} => r.op \in Ops(p)
    /\ r.pc = "returned" => Says(p, r.op, r.result, r.did)
    /\ r.pc = "in" => r.left = 0
    /\ r.pc = "fetch" => p = "doku" /\ (r.left > 0 => r.left + r.age >= TokenTTL)
    /\ p = "doku" /\ r.pc = "sent" /\ r.op \notin Callbacks => r.left + r.age > HttpTimeout

CallsFit == \A c \in Calls : Fit(provider, call[c])

Shields == \A k \in Kinds : Shield(k)

LEMMA SameFits ==
    ASSUME NEW p, NEW x, NEW y, Same(x, y), Fit(p, x)
    PROVE  Fit(p, y) /\ \A k : At(y, k) => At(x, k)
BY DEF Same, Fit, At

(* Fewer calls are inside, and the breaker is as it was.                   *)
LEMMA ShieldKept ==
    ASSUME NEW k \in Kinds, Shield(k),
           \A c \in Calls : At(call'[c], k) => At(call[c], k),
           breaker'[k].st = breaker[k].st, breaker'[k].requests = breaker[k].requests,
           breaker[k].requests \in Nat
    PROVE  Shield(k)'
<1>1. Inside(k)' \subseteq Inside(k)
  BY DEF Inside
<1>2. CASE breaker[k].st = "half"
  <2>1. IsFiniteSet(Inside(k)) /\ Cardinality(Inside(k)) <= breaker[k].requests
    BY <1>2 DEF Shield
  <2>2. IsFiniteSet(Inside(k)') /\ Cardinality(Inside(k)') <= Cardinality(Inside(k))
    BY <1>1, <2>1, FS_Subset
  <2>3. Cardinality(Inside(k)') \in Nat /\ Cardinality(Inside(k)) \in Nat
    BY <2>1, <2>2, FS_CardinalityType
  <2> QED
    BY <1>2, <2>1, <2>2, <2>3 DEF Shield
<1>3. CASE breaker[k].st # "half"
  BY <1>1, <1>3 DEF Shield
<1> QED
  BY <1>2, <1>3

(* Nothing is inside.                                                      *)
LEMMA ShieldEmpty ==
    ASSUME NEW k \in Kinds, \A c \in Calls : ~At(call'[c], k), breaker'[k].requests \in Nat
    PROVE  Shield(k)'
<1>1. Inside(k)' = {}
  BY DEF Inside
<1>2. IsFiniteSet({}) /\ Cardinality({}) = 0
  BY FS_EmptySet
<1> QED
  BY <1>1, <1>2 DEF Shield

(* A new generation: nothing of the old one counts any longer.             *)
LEMMA Generation ==
    ASSUME breaker \in [Kinds -> ABreaker], NEW k \in Kinds, NEW calls \in [Calls -> ACall],
           NEW st \in {"closed", "half", "open"}, NewGeneration(k, st, calls)
    PROVE  /\ call' \in [Calls -> ACall] /\ breaker' \in [Kinds -> ABreaker]
           /\ \A d \in Calls : Same(calls[d], call'[d])
           /\ \A d \in Calls : ~At(call'[d], k)
           /\ \A j \in Kinds \ {k} : breaker'[j] = breaker[j]
<1>1. [Closed EXCEPT !.st = st] \in ABreaker
  BY ConstantsTyped DEF Closed, ABreaker
<1>2. breaker' \in [Kinds -> ABreaker] /\ \A j \in Kinds \ {k} : breaker'[j] = breaker[j]
  BY <1>1 DEF NewGeneration
<1>3. ASSUME NEW d \in Calls
      PROVE  call'[d] \in ACall /\ Same(calls[d], call'[d]) /\ ~At(call'[d], k)
  <2>1. calls[d] \in ACall
    OBVIOUS
  <2>2. CASE KindOf(calls[d].op) = k
    <3>1. call'[d] = [calls[d] EXCEPT !.cur = FALSE]
      BY <2>2 DEF NewGeneration
    <3> QED
      BY <2>1, <3>1 DEF ACall, Same, At
  <2>3. CASE KindOf(calls[d].op) # k
    <3>1. call'[d] = calls[d]
      BY <2>3 DEF NewGeneration
    <3> QED
      BY <2>1, <2>3, <3>1 DEF Same, At
  <2> QED
    BY <2>2, <2>3
<1>4. call' = [d \in Calls |-> call'[d]]
  BY DEF NewGeneration
<1> QED
  BY <1>2, <1>3, <1>4

(* A result is counted: the breaker goes on as it is, or begins a new      *)
(* generation.                                                             *)
LEMMA Counts ==
    ASSUME breaker \in [Kinds -> ABreaker], NEW k \in Kinds, NEW calls \in [Calls -> ACall],
           Success(k, calls) \/ Failure(k, calls)
    PROVE  /\ call' \in [Calls -> ACall] /\ breaker' \in [Kinds -> ABreaker]
           /\ \A d \in Calls : Same(calls[d], call'[d])
           /\ \A j \in Kinds \ {k} : breaker'[j] = breaker[j]
           /\ \/ \A d \in Calls : ~At(call'[d], k)
              \/ breaker'[k].st = breaker[k].st /\ breaker'[k].requests = breaker[k].requests
<1>1. breaker[k] \in ABreaker
  OBVIOUS
<1>2. ASSUME NEW b \in ABreaker, b.st = breaker[k].st, b.requests = breaker[k].requests,
             Counted(k, b, calls)
      PROVE  /\ call' \in [Calls -> ACall] /\ breaker' \in [Kinds -> ABreaker]
             /\ \A d \in Calls : Same(calls[d], call'[d])
             /\ \A j \in Kinds \ {k} : breaker'[j] = breaker[j]
             /\ breaker'[k].st = breaker[k].st /\ breaker'[k].requests = breaker[k].requests
  BY <1>2 DEF Counted, Same
<1>3. CASE Success(k, calls)
  <2>1. PICK b : b = [breaker[k] EXCEPT !.failures = 0, !.successes = breaker[k].successes + 1]
    OBVIOUS
  <2>2. /\ b.st = breaker[k].st /\ b.requests = breaker[k].requests
        /\ b.failures = 0 /\ b.successes = breaker[k].successes + 1
    BY <1>1, <2>1 DEF ABreaker
  <2>3. \/ NewGeneration(k, "closed", calls)
        \/ b.st = "half" /\ ~(b.successes >= MaxRequests) /\ Counted(k, b, calls)
        \/ b.st # "half" /\ Counted(k, [b EXCEPT !.successes = 0], calls)
    BY <1>3, <2>1 DEF Success
  <2>4. CASE NewGeneration(k, "closed", calls)
    BY <2>4, Generation
  <2>5. CASE b.st = "half" /\ ~(b.successes >= MaxRequests) /\ Counted(k, b, calls)
    <3>1. breaker[k].successes + 1 \in 0..MaxRequests /\ 0 \in 0..(ConsecutiveFailures - 1)
      BY <1>1, <2>2, <2>5, ConstantsTyped DEF ABreaker
    <3>2. b \in ABreaker
      BY <1>1, <2>1, <3>1 DEF ABreaker
    <3> QED
      BY <1>2, <2>2, <2>5, <3>2
  <2>6. CASE b.st # "half" /\ Counted(k, [b EXCEPT !.successes = 0], calls)
    <3>1. PICK e : e = [b EXCEPT !.successes = 0]
      OBVIOUS
    <3>2. 0 \in 0..MaxRequests /\ 0 \in 0..(ConsecutiveFailures - 1)
      BY ConstantsTyped
    <3>3. e = [[breaker[k] EXCEPT !.failures = 0] EXCEPT !.successes = 0]
      BY <1>1, <2>1, <3>1 DEF ABreaker
    <3>4. e \in ABreaker /\ e.st = breaker[k].st /\ e.requests = breaker[k].requests
      BY <1>1, <3>2, <3>3 DEF ABreaker
    <3> QED
      BY <1>2, <2>6, <3>1, <3>4
  <2> QED
    BY <2>3, <2>4, <2>5, <2>6
<1>4. CASE Failure(k, calls)
  <2>1. PICK b : b = [breaker[k] EXCEPT !.failures = breaker[k].failures + 1]
    OBVIOUS
  <2>2. b.st = breaker[k].st /\ b.requests = breaker[k].requests
        /\ b.failures = breaker[k].failures + 1
    BY <1>1, <2>1 DEF ABreaker
  <2>3. \/ NewGeneration(k, "open", calls)
        \/ ~(b.failures >= ConsecutiveFailures) /\ Counted(k, b, calls)
    BY <1>4, <2>1 DEF Failure
  <2>4. CASE NewGeneration(k, "open", calls)
    BY <2>4, Generation
  <2>5. CASE ~(b.failures >= ConsecutiveFailures) /\ Counted(k, b, calls)
    <3>1. breaker[k].failures + 1 \in 0..(ConsecutiveFailures - 1)
      BY <1>1, <2>2, <2>5, ConstantsTyped DEF ABreaker
    <3>2. b \in ABreaker
      BY <1>1, <2>1, <3>1 DEF ABreaker
    <3> QED
      BY <1>2, <2>2, <2>5, <3>2
  <2> QED
    BY <2>3, <2>4, <2>5
<1> QED
  BY <1>3, <1>4

(* The gateway believes in its token at most for the time of the request   *)
(* that fetched it too long.                                               *)
TokenFit == token.thought <= token.left + HttpTimeout

GatewayIInv == Typing /\ CallsFit /\ Shields /\ TokenFit

(* One call goes on, and is inside only if it was.                         *)
LEMMA OneCall ==
    ASSUME Typing, CallsFit, Shields, NEW c \in Calls, NEW r \in ACall,
           call' = [call EXCEPT ![c] = r], UNCHANGED <<provider, breaker>>,
           Fit(provider, r), \A k \in Kinds : At(r, k) => At(call[c], k)
    PROVE  call' \in [Calls -> ACall] /\ CallsFit' /\ Shields'
<1>1. call \in [Calls -> ACall] /\ breaker \in [Kinds -> ABreaker]
  BY DEF Typing
<1>2. call'[c] = r /\ \A d \in Calls \ {c} : call'[d] = call[d]
  BY <1>1
<1>3. \A d \in Calls, k \in Kinds : At(call'[d], k) => At(call[d], k)
  BY <1>2
<1>4. \A k \in Kinds : breaker[k].requests \in Nat
  BY <1>1, ConstantsTyped DEF ABreaker
<1>5. Shields'
  BY <1>3, <1>4, ShieldKept DEF Shields
<1>6. CallsFit'
  BY <1>2 DEF CallsFit
<1> QED
  BY <1>1, <1>5, <1>6

(* run: the call returns, and the breaker counts it.                       *)
LEMMA Finishes ==
    ASSUME Typing, CallsFit, Shields, NEW c \in Calls, NEW result \in Results, NEW did \in BOOLEAN,
           call[c].pc \in {"in", "fetch", "sent"}, Finish(c, result, did), provider' = provider,
           Says(provider, call[c].op, result, did)
    PROVE  /\ call' \in [Calls -> ACall] /\ breaker' \in [Kinds -> ABreaker]
           /\ CallsFit' /\ Shields'
           /\ call'[c].pc = "returned" /\ \A d \in Calls \ {c} : call'[d].pc = call[d].pc
<1>1. /\ call \in [Calls -> ACall] /\ breaker \in [Kinds -> ABreaker] /\ call[c] \in ACall
  BY DEF Typing
<1>2. PICK r : r = [Idle EXCEPT !.op = call[c].op, !.pc = "returned",
                                !.result = result, !.did = did]
  OBVIOUS
<1>3. PICK k : k = KindOf(call[c].op)
  OBVIOUS
<1>4. /\ r \in ACall /\ r.pc = "returned" /\ r.op = call[c].op
      /\ r.result = result /\ r.did = did
  <2>1. r = [op |-> call[c].op, pc |-> "returned", cur |-> FALSE, age |-> 0, left |-> 0,
             did |-> did, result |-> result]
    BY <1>2 DEF Idle
  <2>2. call[c].op \in Operations \cup {"none"}
    BY <1>1 DEF ACall
  <2> QED
    BY <2>1, <2>2, ConstantsTyped DEF ACall
<1>5. Fit(provider, r) /\ \A j : ~At(r, j)
  BY <1>4 DEF Fit, At
<1>0. PICK calls : calls = [call EXCEPT ![c] = r]
  OBVIOUS
<1>6. /\ calls \in [Calls -> ACall]
      /\ calls[c] = r /\ \A d \in Calls \ {c} : calls[d] = call[d]
  BY <1>0, <1>1, <1>4
<1>7. k \in Kinds
  BY <1>3 DEF KindOf, Kinds
<1>8. \A d \in Calls : Fit(provider, calls[d]) /\ \A j : At(calls[d], j) => At(call[d], j)
  BY <1>5, <1>6 DEF CallsFit
<1>9. \A j \in Kinds : breaker[j].requests \in Nat
  BY <1>1, ConstantsTyped DEF ABreaker
<1>10. CASE call' = calls /\ breaker' = breaker
  <2>1. CallsFit'
    BY <1>8, <1>10 DEF CallsFit
  <2>2. \A d \in Calls, j \in Kinds : At(call'[d], j) => At(call[d], j)
    BY <1>8, <1>10
  <2>3. Shields'
    BY <1>9, <1>10, <2>2, ShieldKept DEF Shields
  <2> QED
    BY <1>1, <1>4, <1>6, <1>10, <2>1, <2>3
<1>11. CASE Success(k, calls) \/ Failure(k, calls)
  <2>1. /\ call' \in [Calls -> ACall] /\ breaker' \in [Kinds -> ABreaker]
        /\ \A d \in Calls : Same(calls[d], call'[d])
        /\ \A j \in Kinds \ {k} : breaker'[j] = breaker[j]
        /\ \/ \A d \in Calls : ~At(call'[d], k)
           \/ breaker'[k].st = breaker[k].st /\ breaker'[k].requests = breaker[k].requests
    BY <1>1, <1>6, <1>7, <1>11, Counts
  <2>2. CallsFit'
    BY <1>8, <2>1, SameFits DEF CallsFit
  <2>3. \A d \in Calls, j \in Kinds : At(call'[d], j) => At(call[d], j)
    BY <1>8, <2>1, SameFits
  <2>4. ASSUME NEW j \in Kinds PROVE Shield(j)'
    <3>1. CASE \A d \in Calls : ~At(call'[d], j)
      <4>1. breaker'[j].requests \in Nat
        BY <2>1, ConstantsTyped DEF ABreaker
      <4> QED
        BY <3>1, <4>1, ShieldEmpty
    <3>2. CASE breaker'[j].st = breaker[j].st /\ breaker'[j].requests = breaker[j].requests
      BY <1>9, <2>3, <3>2, ShieldKept DEF Shields
    <3> QED
      BY <2>1, <3>1, <3>2
  <2>5. call'[c].pc = "returned" /\ \A d \in Calls \ {c} : call'[d].pc = call[d].pc
    BY <1>4, <1>6, <2>1 DEF Same
  <2> QED
    BY <2>1, <2>2, <2>4, <2>5 DEF Shields
<1> QED
  BY <1>0, <1>2, <1>3, <1>10, <1>11 DEF Finish

(* The interval or the timeout of a breaker passes.                        *)
LEMMA BreakerSound ==
    ASSUME GatewayIInv, NEW k \in Kinds, IntervalPasses(k) \/ TimeoutPasses(k)
    PROVE  GatewayIInv'
<1>1. call \in [Calls -> ACall] /\ breaker \in [Kinds -> ABreaker]
  BY DEF GatewayIInv, Typing
<1>2. \E st \in {"closed", "half", "open"} : NewGeneration(k, st, call)
  BY DEF IntervalPasses, TimeoutPasses
<1>3. /\ call' \in [Calls -> ACall] /\ breaker' \in [Kinds -> ABreaker]
      /\ \A d \in Calls : Same(call[d], call'[d])
      /\ \A d \in Calls : ~At(call'[d], k)
      /\ \A j \in Kinds \ {k} : breaker'[j] = breaker[j]
  BY <1>1, <1>2, Generation
<1>4. UNCHANGED <<provider, token, holder>>
  BY DEF IntervalPasses, TimeoutPasses
<1>5. CallsFit'
  BY <1>3, <1>4, SameFits DEF CallsFit, GatewayIInv
<1>6. \A j \in Kinds : breaker[j].requests \in Nat /\ breaker'[j].requests \in Nat
  BY <1>1, <1>3, ConstantsTyped DEF ABreaker
<1>7. \A d \in Calls, j \in Kinds : At(call'[d], j) => At(call[d], j)
  BY <1>3, SameFits DEF GatewayIInv, CallsFit
<1>8. ASSUME NEW j \in Kinds PROVE Shield(j)'
  <2>1. CASE j = k
    BY <1>3, <1>6, <2>1, ShieldEmpty
  <2>2. CASE j # k
    BY <1>3, <1>6, <1>7, <2>2, ShieldKept DEF GatewayIInv, Shields
  <2> QED
    BY <2>1, <2>2
<1> QED
  BY <1>3, <1>4, <1>5, <1>8 DEF GatewayIInv, Typing, TokenFit, Shields

(* A call goes out, waits for a token, or is done with.                    *)
LEMMA CallSound ==
    ASSUME GatewayIInv, NEW c \in Calls,
           Send(c) \/ UseCached(c) \/ Fetch(c) \/ Fetched(c) \/ Issue(c) \/ Done(c)
    PROVE  GatewayIInv'
<1>1. /\ call \in [Calls -> ACall] /\ call[c] \in ACall /\ Typing /\ CallsFit /\ Shields
      /\ Fit(provider, call[c]) /\ TokenFit
      /\ token \in [thought : 0..TokenTTL, left : 0..TokenTTL]
  BY DEF GatewayIInv, Typing, CallsFit
<1>2. ASSUME NEW r \in ACall, call' = [call EXCEPT ![c] = r], UNCHANGED <<provider, breaker>>,
             Fit(provider, r), r.op = call[c].op, r.cur = call[c].cur,
             r.pc = "idle" \/ call[c].pc \in {"in", "fetch", "sent"},
             holder' \in Calls \cup {Nobody},
             token' \in [thought : 0..TokenTTL, left : 0..TokenTTL], TokenFit'
      PROVE  GatewayIInv'
  <2>1. \A k \in Kinds : At(r, k) => At(call[c], k)
    BY <1>2 DEF At
  <2>2. call' \in [Calls -> ACall] /\ CallsFit' /\ Shields'
    BY <1>1, <1>2, <2>1, OneCall
  <2> QED
    BY <1>1, <1>2, <2>2 DEF GatewayIInv, Typing
<1>3. ASSUME NEW left \in 0..TokenTTL, call' = Out(c, left), UNCHANGED <<provider, breaker>>,
             call[c].pc \in {"in", "fetch"}, provider = "doku" => left > HttpTimeout,
             holder' \in Calls \cup {Nobody},
             token' \in [thought : 0..TokenTTL, left : 0..TokenTTL], TokenFit'
      PROVE  GatewayIInv'
  <2>1. PICK r : r = [call[c] EXCEPT !.pc = "sent", !.left = left, !.age = 0]
    OBVIOUS
  <2>2. r.pc = "sent" /\ r.left = left /\ r.age = 0 /\ r.op = call[c].op /\ r.cur = call[c].cur
    BY <1>1, <2>1 DEF ACall
  <2>3. r \in ACall
    <3>1. 0 \in 0..HttpTimeout
      BY ConstantsTyped
    <3> QED
      BY <1>1, <2>1, <3>1 DEF ACall
  <2>4. call' = [call EXCEPT ![c] = r]
    BY <1>1, <1>3, <2>1 DEF Out
  <2>5. Fit(provider, r)
    BY <1>1, <1>3, <2>2, ConstantsTyped DEF Fit
  <2> QED
    BY <1>2, <1>3, <2>2, <2>3, <2>4, <2>5
<1>4. CASE Send(c)
  <2>1. 0 \in 0..TokenTTL
    BY ConstantsTyped
  <2> QED
    BY <1>1, <1>3, <1>4, <2>1 DEF Send, Typing, TokenFit
<1>5. CASE UseCached(c)
  <2>1. token.left \in 0..TokenTTL /\ token.left > HttpTimeout
    BY <1>1, <1>5, ConstantsTyped DEF UseCached, Fresh, TokenFit
  <2> QED
    BY <1>1, <1>3, <1>5, <2>1 DEF UseCached, Typing, TokenFit
<1>6. CASE Fetched(c)
  <2>1. PICK left \in 0..TokenTTL : left = call[c].left
    BY <1>1 DEF ACall
  <2>2. provider = "doku" => left + HttpTimeout >= TokenTTL
    BY <1>1, <1>6, <2>1, ConstantsTyped DEF Fetched, Fit, ACall
  <2>3. token' = [thought |-> TokenTTL, left |-> left] /\ TokenTTL \in 0..TokenTTL
    BY <1>6, <2>1, ConstantsTyped DEF Fetched
  <2>4. provider = "doku" => left > HttpTimeout
    BY <2>2, ConstantsTyped
  <2>5. provider = "doku"
    BY <1>1, <1>6 DEF Fetched, Fit
  <2>6. TokenFit'
    BY <2>2, <2>3, <2>5, ConstantsTyped DEF TokenFit
  <2> QED
    BY <1>3, <1>6, <2>1, <2>3, <2>4, <2>6 DEF Fetched
<1>7. CASE Fetch(c)
  <2>1. PICK r : r = [call[c] EXCEPT !.pc = "fetch", !.age = 0]
    OBVIOUS
  <2>2. r.pc = "fetch" /\ r.left = call[c].left /\ r.age = 0 /\ r.op = call[c].op
        /\ r.cur = call[c].cur
    BY <1>1, <2>1 DEF ACall
  <2>3. r \in ACall
    <3>1. 0 \in 0..HttpTimeout
      BY ConstantsTyped
    <3> QED
      BY <1>1, <2>1, <3>1 DEF ACall
  <2>4. call' = [call EXCEPT ![c] = r]
    BY <1>1, <1>7, <2>1 DEF Fetch
  <2>5. Fit(provider, r)
    BY <1>7, <1>1, <2>2 DEF Fit, Fetch
  <2> QED
    BY <1>1, <1>2, <1>7, <2>2, <2>3, <2>4, <2>5 DEF Fetch, Typing, TokenFit
<1>8. CASE Issue(c)
  <2>1. PICK r : r = [call[c] EXCEPT !.left = TokenTTL]
    OBVIOUS
  <2>2. r.pc = "fetch" /\ r.left = TokenTTL /\ r.age = call[c].age /\ r.op = call[c].op
        /\ r.cur = call[c].cur
    BY <1>1, <1>8, <2>1 DEF ACall, Issue
  <2>3. r \in ACall
    <3>1. TokenTTL \in 0..TokenTTL
      BY ConstantsTyped
    <3> QED
      BY <1>1, <2>1, <3>1 DEF ACall
  <2>4. call' = [call EXCEPT ![c] = r]
    BY <1>1, <1>8, <2>1 DEF Issue
  <2>5. call[c].age \in Nat
    BY <1>1, ConstantsTyped DEF ACall
  <2>6. Fit(provider, r)
    BY <1>1, <1>8, <2>2, <2>5, ConstantsTyped DEF Fit, Issue
  <2> QED
    BY <1>1, <1>2, <1>8, <2>2, <2>3, <2>4, <2>6 DEF Issue, Typing, TokenFit
<1>9. CASE Done(c)
  <2>1. Idle \in ACall /\ Idle.pc = "idle" /\ Idle.cur = FALSE
    BY ConstantsTyped DEF Idle, ACall
  <2>2. call' = [call EXCEPT ![c] = Idle] /\ UNCHANGED <<provider, breaker, token, holder>>
    BY <1>9 DEF Done
  <2>3. Fit(provider, Idle) /\ \A k \in Kinds : At(Idle, k) => At(call[c], k)
    BY <2>1 DEF Fit, At
  <2>4. call' \in [Calls -> ACall] /\ CallsFit' /\ Shields'
    BY <1>1, <2>1, <2>2, <2>3, OneCall
  <2> QED
    BY <1>1, <2>2, <2>4 DEF GatewayIInv, Typing, TokenFit
<1> QED
  BY <1>4, <1>5, <1>6, <1>7, <1>8, <1>9

(* The adapter refuses, no token comes, an answer arrives or is lost.      *)
LEMMA ReturnSound ==
    ASSUME GatewayIInv, NEW c \in Calls,
           Refuse(c) \/ FetchFails(c) \/ Return(c) \/ Lost(c)
    PROVE  /\ GatewayIInv'
           /\ call'[c].pc = "returned" /\ \A d \in Calls \ {c} : call'[d].pc = call[d].pc
<1>1. /\ call \in [Calls -> ACall] /\ call[c] \in ACall /\ Typing /\ CallsFit /\ Shields
      /\ Fit(provider, call[c]) /\ provider \in Providers
  BY DEF GatewayIInv, Typing, CallsFit
<1>2. /\ call[c].pc \in {"in", "fetch", "sent"} /\ call[c].op \in Ops(provider)
      /\ UNCHANGED <<provider, token>> /\ holder' \in {holder, Nobody}
  BY <1>1 DEF Refuse, FetchFails, Return, Lost, Fit
<1>3. \E result \in Results, did \in BOOLEAN :
          Finish(c, result, did) /\ Says(provider, call[c].op, result, did)
  <2>1. "error" \in Results /\ Says(provider, call[c].op, "error", FALSE)
    BY DEF Results, Says
  <2>2. CASE Refuse(c) \/ FetchFails(c) \/ Lost(c)
    BY <2>1, <2>2 DEF Refuse, FetchFails, Lost
  <2>3. CASE Return(c)
    <3>1. PICK a \in Codes(call[c].op) : \E did \in Truths(call[c].op, a) :
            Finish(c, Result(provider, call[c].op, a), did)
      BY <2>3 DEF Return
    <3>2. PICK did \in Truths(call[c].op, a) : Finish(c, Result(provider, call[c].op, a), did)
      BY <3>1
    <3>3. did \in BOOLEAN
      BY DEF Truths
    <3> QED
      BY <1>1, <1>2, <3>2, <3>3, ResultsTyped, ResultsAreTrue
  <2> QED
    BY <2>2, <2>3
<1>4. /\ call' \in [Calls -> ACall] /\ breaker' \in [Kinds -> ABreaker]
      /\ CallsFit' /\ Shields'
      /\ call'[c].pc = "returned" /\ \A d \in Calls \ {c} : call'[d].pc = call[d].pc
  BY <1>1, <1>2, <1>3, Finishes
<1> QED
  BY <1>1, <1>2, <1>4 DEF GatewayIInv, Typing, TokenFit

(* The breaker admits a call or refuses it.                                *)
LEMMA BeginSound ==
    ASSUME GatewayIInv, NEW c \in Calls, Begin(c)
    PROVE  GatewayIInv'
<1>1. /\ call \in [Calls -> ACall] /\ breaker \in [Kinds -> ABreaker]
      /\ Typing /\ CallsFit /\ Shields
      /\ UNCHANGED <<provider, token, holder>> /\ provider \in Providers
      /\ call[c].pc = "idle"
  BY DEF GatewayIInv, Typing, Begin
<1>2. PICK o \in Ops(provider) :
        IF Wrapped(o) /\ ~Admits(KindOf(o))
        THEN /\ call' = [call EXCEPT ![c] = [Idle EXCEPT !.op = o, !.pc = "returned",
                                                         !.result = "error"]]
             /\ UNCHANGED breaker
        ELSE /\ call' = [call EXCEPT ![c] = [Idle EXCEPT !.op = o, !.pc = "in", !.cur = TRUE]]
             /\ breaker' = IF Wrapped(o) /\ breaker[KindOf(o)].st = "half"
                           THEN [breaker EXCEPT ![KindOf(o)].requests = @ + 1] ELSE breaker
  BY DEF Begin
<1>3. PICK k : k = KindOf(o)
  OBVIOUS
<1>4. k \in Kinds /\ o \in Operations /\ (o \notin Callbacks => Wrapped(o))
  BY <1>1, <1>3 DEF KindOf, Kinds, Ops, Operations, Wrapped, Callbacks
<1>5. CASE Wrapped(o) /\ ~Admits(k)
  <2>1. PICK r : r = [op |-> o, pc |-> "returned", cur |-> FALSE, age |-> 0, left |-> 0,
                      did |-> FALSE, result |-> "error"]
    OBVIOUS
  <2>2. call' = [call EXCEPT ![c] = r] /\ breaker' = breaker
    BY <1>2, <1>3, <1>5, <2>1 DEF Idle
  <2>3. r \in ACall
    BY <1>4, <2>1, ConstantsTyped DEF ACall, Results
  <2>4. Fit(provider, r) /\ \A j \in Kinds : At(r, j) => At(call[c], j)
    BY <2>1 DEF Fit, At, Says
  <2>5. call' \in [Calls -> ACall] /\ CallsFit' /\ Shields'
    BY <1>1, <2>2, <2>3, <2>4, OneCall
  <2> QED
    BY <1>1, <2>2, <2>5 DEF GatewayIInv, Typing, TokenFit
<1>6. CASE ~(Wrapped(o) /\ ~Admits(k))
  <2>1. PICK r : r = [op |-> o, pc |-> "in", cur |-> TRUE, age |-> 0, left |-> 0,
                      did |-> FALSE, result |-> "none"]
    OBVIOUS
  <2>2. /\ call' = [call EXCEPT ![c] = r]
        /\ breaker' = IF Wrapped(o) /\ breaker[k].st = "half"
                      THEN [breaker EXCEPT ![k].requests = @ + 1] ELSE breaker
    BY <1>2, <1>3, <1>6, <2>1 DEF Idle
  <2>3. r \in ACall
    BY <1>4, <2>1, ConstantsTyped DEF ACall
  <2>4. Fit(provider, r)
    BY <2>1, <1>1 DEF Fit
  <2>5. call' \in [Calls -> ACall] /\ call'[c] = r /\ \A d \in Calls \ {c} : call'[d] = call[d]
    BY <1>1, <2>2, <2>3
  <2>6. CallsFit'
    BY <1>1, <2>4, <2>5 DEF CallsFit
  <2>7. breaker[k] \in ABreaker /\ \A j \in Kinds : breaker[j].requests \in Nat
    BY <1>1, <1>4, ConstantsTyped DEF ABreaker
  <2>8. \A j \in Kinds : j # k => ~At(r, j)
    BY <1>3, <2>1 DEF At
  <2>9. CASE ~(Wrapped(o) /\ breaker[k].st = "half")
    <3>1. breaker' = breaker
      BY <2>2, <2>9
    <3>2. ASSUME NEW j \in Kinds, ~At(r, j) PROVE Shield(j)'
      <4>1. \A d \in Calls : At(call'[d], j) => At(call[d], j)
        BY <2>5, <3>2
      <4> QED
        BY <1>1, <2>7, <3>1, <4>1, ShieldKept DEF Shields
    <3>3. ASSUME At(r, k) PROVE Shield(k)'
      <4>1. breaker[k].st = "closed"
        BY <1>4, <1>6, <2>1, <2>9, <3>3 DEF At, Admits
      <4> QED
        BY <3>1, <4>1 DEF Shield
    <3>4. Shields'
      BY <2>8, <3>2, <3>3 DEF Shields
    <3> QED
      BY <1>1, <2>5, <2>6, <3>1, <3>4 DEF GatewayIInv, Typing, TokenFit
  <2>10. CASE Wrapped(o) /\ breaker[k].st = "half"
    <3>1. breaker' = [breaker EXCEPT ![k] = [breaker[k] EXCEPT !.requests = breaker[k].requests + 1]]
      BY <1>1, <1>4, <2>2, <2>10
    <3>2. breaker[k].requests + 1 \in 0..MaxRequests
      BY <1>6, <2>7, <2>10, ConstantsTyped DEF Admits, ABreaker
    <3>3. PICK b : b = [breaker[k] EXCEPT !.requests = breaker[k].requests + 1]
      OBVIOUS
    <3>4. b \in ABreaker
      BY <2>7, <3>2, <3>3 DEF ABreaker
    <3>5. b.st = "half" /\ b.requests = breaker[k].requests + 1
      BY <2>7, <2>10, <3>3 DEF ABreaker
    <3>6. /\ breaker' \in [Kinds -> ABreaker] /\ breaker'[k] = b
          /\ \A j \in Kinds \ {k} : breaker'[j] = breaker[j]
      BY <1>1, <1>4, <3>1, <3>3, <3>4
    <3>7. ASSUME NEW j \in Kinds, j # k PROVE Shield(j)'
      <4>1. \A d \in Calls : At(call'[d], j) => At(call[d], j)
        BY <2>5, <2>8, <3>7
      <4> QED
        BY <1>1, <2>7, <3>6, <3>7, <4>1, ShieldKept DEF Shields
    <3>8. Shield(k)'
      <4>1. IsFiniteSet(Inside(k)) /\ Cardinality(Inside(k)) <= breaker[k].requests
        BY <1>1, <1>4, <2>10 DEF Shields, Shield
      <4>2. IsFiniteSet(Inside(k) \cup {c}) /\ Cardinality(Inside(k) \cup {c}) <= b.requests
        <5>1. Cardinality(Inside(k)) \in Nat
          BY <4>1, FS_CardinalityType
        <5>2. /\ IsFiniteSet(Inside(k) \cup {c})
              /\ Cardinality(Inside(k) \cup {c}) \in {Cardinality(Inside(k)), Cardinality(Inside(k)) + 1}
          BY <4>1, FS_AddElement
        <5>3. breaker[k].requests \in Nat
          BY <1>4, <2>7
        <5> QED
          BY <3>5, <4>1, <5>1, <5>2, <5>3
      <4>3. Inside(k)' \subseteq Inside(k) \cup {c}
        BY <2>5 DEF Inside
      <4>4. IsFiniteSet(Inside(k)') /\ Cardinality(Inside(k)') <= Cardinality(Inside(k) \cup {c})
        BY <4>2, <4>3, FS_Subset
      <4>5. Cardinality(Inside(k)') \in Nat /\ Cardinality(Inside(k) \cup {c}) \in Nat
        BY <4>2, <4>4, FS_CardinalityType
      <4>6. b.requests \in Nat
        BY <3>4, ConstantsTyped DEF ABreaker
      <4>7. IsFiniteSet(Inside(k)') /\ Cardinality(Inside(k)') <= b.requests
        BY <4>2, <4>4, <4>5, <4>6
      <4> QED
        BY <3>5, <3>6, <4>7 DEF Shield
    <3>9. Shields'
      BY <3>7, <3>8 DEF Shields
    <3> QED
      BY <1>1, <2>5, <2>6, <3>6, <3>9 DEF GatewayIInv, Typing, TokenFit
  <2> QED
    BY <2>9, <2>10
<1> QED
  BY <1>5, <1>6

(* Time passes: what is left of a token and the age of the request that    *)
(* uses it add up to the same.                                             *)
LEMMA TickSound ==
    ASSUME GatewayIInv, Tick
    PROVE  GatewayIInv'
<1>1. /\ call \in [Calls -> ACall] /\ breaker \in [Kinds -> ABreaker]
      /\ Typing /\ CallsFit /\ Shields /\ TokenFit
      /\ UNCHANGED <<provider, breaker, holder>> /\ provider = "doku"
      /\ token \in [thought : 0..TokenTTL, left : 0..TokenTTL]
  BY DEF GatewayIInv, Typing, Tick
<1>2. \A n \in 0..TokenTTL : Down(n) \in 0..TokenTTL
  BY ConstantsTyped DEF Down
<1>3. token' \in [thought : 0..TokenTTL, left : 0..TokenTTL] /\ TokenFit'
  <2>1. /\ token.thought \in 0..TokenTTL /\ token.left \in 0..TokenTTL
        /\ token' = [thought |-> Down(token.thought), left |-> Down(token.left)]
        /\ token.thought <= token.left + HttpTimeout
    BY <1>1 DEF Tick, TokenFit
  <2>2. Down(token.thought) <= Down(token.left) + HttpTimeout
    BY <2>1, ConstantsTyped DEF Down
  <2> QED
    BY <1>2, <2>1, <2>2 DEF TokenFit
<1>4. ASSUME NEW d \in Calls
      PROVE  /\ call'[d] \in ACall /\ Fit(provider, call'[d])
             /\ \A k : At(call'[d], k) => At(call[d], k)
  <2>1. call[d] \in ACall /\ Fit(provider, call[d])
    BY <1>1 DEF CallsFit
  <2>2. CASE ~Waiting(d)
    <3>1. call'[d] = call[d]
      BY <2>2 DEF Tick
    <3> QED
      BY <2>1, <3>1
  <2>3. CASE Waiting(d)
    <3>1. PICK r : r = [call[d] EXCEPT !.age = call[d].age + 1, !.left = Down(call[d].left)]
      OBVIOUS
    <3>2. call'[d] = r
      BY <2>3, <3>1 DEF Tick
    <3>3. call[d].age \in 0..HttpTimeout /\ call[d].left \in 0..TokenTTL
      BY <2>1 DEF ACall
    <3>a. call[d].age < HttpTimeout
      BY <2>3 DEF Tick
    <3>4. call[d].age + 1 \in 0..HttpTimeout
      BY <3>3, <3>a, ConstantsTyped
    <3>5. r \in ACall
      BY <1>2, <2>1, <3>1, <3>3, <3>4 DEF ACall
    <3>6. /\ r.op = call[d].op /\ r.pc = call[d].pc /\ r.cur = call[d].cur
          /\ r.did = call[d].did /\ r.result = call[d].result
          /\ r.age = call[d].age + 1 /\ r.left = Down(call[d].left)
      BY <2>1, <3>1 DEF ACall
    <3>7. r.left = (IF call[d].left > 0 THEN call[d].left - 1 ELSE 0)
      BY <3>6 DEF Down
    <3>8. Fit(provider, r)
      BY <1>1, <2>1, <2>3, <3>3, <3>4, <3>6, <3>7, ConstantsTyped DEF Fit, Waiting
    <3>9. \A k : At(r, k) => At(call[d], k)
      BY <3>6 DEF At
    <3> QED
      BY <3>2, <3>5, <3>8, <3>9
  <2> QED
    BY <2>2, <2>3
<1>5. call' = [d \in Calls |-> call'[d]]
  BY DEF Tick
<1>6. call' \in [Calls -> ACall]
  BY <1>4, <1>5
<1>7. CallsFit'
  BY <1>1, <1>4 DEF CallsFit
<1>8. \A k \in Kinds : breaker[k].requests \in Nat
  BY <1>1, ConstantsTyped DEF ABreaker
<1>9. Shields'
  BY <1>1, <1>4, <1>8, ShieldKept DEF Shields
<1> QED
  BY <1>1, <1>3, <1>6, <1>7, <1>9 DEF GatewayIInv, Typing

(* Every step keeps the invariant.                                         *)
LEMMA GatewayNextSound == GatewayIInv /\ [Next]_vars => GatewayIInv'
<1> SUFFICES ASSUME GatewayIInv, [Next]_vars PROVE GatewayIInv'
  OBVIOUS
<1>1. CASE UNCHANGED vars
  <2>1. \A k \in Kinds : Inside(k)' = Inside(k)
    BY <1>1 DEF vars, Inside
  <2> QED
    BY <1>1, <2>1 DEF vars, GatewayIInv, Typing, CallsFit, Shields, Shield, TokenFit
<1>2. ASSUME NEW c \in Calls, Begin(c) \/ Lock(c) \/ Answer(c) \/ Issue(c) \/ Done(c)
      PROVE  GatewayIInv'
  BY <1>2, BeginSound, CallSound, ReturnSound DEF Lock, Answer
<1>3. ASSUME NEW k \in Kinds, IntervalPasses(k) \/ TimeoutPasses(k) PROVE GatewayIInv'
  BY <1>3, BreakerSound
<1>4. CASE Tick
  BY <1>4, TickSound
<1> QED
  BY <1>1, <1>2, <1>3, <1>4 DEF Next

LEMMA GatewayInitSound == Init => GatewayIInv
<1> SUFFICES ASSUME Init PROVE GatewayIInv
  OBVIOUS
<1>1. Idle \in ACall /\ Idle.pc = "idle" /\ Idle.cur = FALSE
  BY ConstantsTyped DEF Idle, ACall
<1>2. Closed \in ABreaker /\ Closed.st = "closed"
  BY ConstantsTyped DEF Closed, ABreaker
<1>3. \A c \in Calls : call[c] = Idle
  BY DEF Init
<1>4. \A k \in Kinds : breaker[k] = Closed
  BY DEF Init
<1>5. CallsFit
  BY <1>1, <1>3 DEF CallsFit, Fit
<1>6. Shields
  BY <1>2, <1>4 DEF Shields, Shield
<1>7. token = [thought |-> 0, left |-> 0]
  BY DEF Init
<1>8. TokenFit
  BY <1>7, ConstantsTyped DEF TokenFit
<1>9. Typing
  BY <1>1, <1>2, <1>7, ConstantsTyped DEF Init, Typing
<1> QED
  BY <1>5, <1>6, <1>8, <1>9 DEF GatewayIInv

LEMMA GatewayAlways == Spec => []GatewayIInv
BY GatewayInitSound, GatewayNextSound, PTL DEF Spec

(* The mutex: who takes it fetches, and whoever stops fetching gives it    *)
(* back.                                                                   *)
LEMMA MutexSound == GatewayIInv /\ HolderFetches /\ [Next]_vars => HolderFetches'
<1> SUFFICES ASSUME GatewayIInv, HolderFetches, [Next]_vars PROVE HolderFetches'
  OBVIOUS
<1>0. call \in [Calls -> ACall] /\ Nobody \notin Calls
  BY GatewayAssumption DEF GatewayIInv, Typing
<1>1. ASSUME UNCHANGED holder, \A d \in Calls : call'[d].pc = call[d].pc
      PROVE  HolderFetches'
  BY <1>1 DEF HolderFetches
<1>2. ASSUME NEW c \in Calls, UNCHANGED holder, call[c].pc # "fetch", call'[c].pc # "fetch",
             \A d \in Calls \ {c} : call'[d].pc = call[d].pc
      PROVE  HolderFetches'
  BY <1>2 DEF HolderFetches
<1>3. ASSUME NEW c \in Calls, call[c].pc = "fetch", call'[c].pc # "fetch", holder' = Nobody,
             \A d \in Calls \ {c} : call'[d].pc = call[d].pc
      PROVE  HolderFetches'
  BY <1>0, <1>3 DEF HolderFetches
<1>4. CASE UNCHANGED vars
  BY <1>1, <1>4 DEF vars
<1>5. ASSUME NEW c \in Calls, Begin(c) PROVE HolderFetches'
  <2>1. PICK r : call' = [call EXCEPT ![c] = r] /\ r.pc # "fetch"
    <3>1. \A o : /\ [Idle EXCEPT !.op = o, !.pc = "returned", !.result = "error"].pc # "fetch"
                 /\ [Idle EXCEPT !.op = o, !.pc = "in", !.cur = TRUE].pc # "fetch"
      BY DEF Idle
    <3> QED
      BY <1>5, <3>1 DEF Begin
  <2>2. call'[c].pc # "fetch" /\ \A d \in Calls \ {c} : call'[d].pc = call[d].pc
    BY <1>0, <2>1
  <2> QED
    BY <1>2, <1>5, <2>2 DEF Begin
<1>6. ASSUME NEW c \in Calls, Refuse(c) \/ Return(c) \/ Lost(c) PROVE HolderFetches'
  <2>1. call'[c].pc = "returned" /\ \A d \in Calls \ {c} : call'[d].pc = call[d].pc
    BY <1>6, ReturnSound
  <2>2. call[c].pc # "fetch" /\ UNCHANGED holder
    BY <1>6 DEF Refuse, Return, Lost
  <2> QED
    BY <1>2, <2>1, <2>2
<1>7. ASSUME NEW c \in Calls, FetchFails(c) PROVE HolderFetches'
  <2>1. call'[c].pc = "returned" /\ \A d \in Calls \ {c} : call'[d].pc = call[d].pc
    BY <1>7, ReturnSound
  <2> QED
    BY <1>3, <1>7, <2>1 DEF FetchFails
<1>8. ASSUME NEW c \in Calls, Send(c) \/ UseCached(c) \/ Fetched(c) PROVE HolderFetches'
  <2>1. PICK left : call' = Out(c, left)
    BY <1>8 DEF Send, UseCached, Fetched
  <2>2. PICK r : r = [call[c] EXCEPT !.pc = "sent", !.left = left, !.age = 0]
    OBVIOUS
  <2>3. call' = [call EXCEPT ![c] = r] /\ r.pc = "sent"
    BY <1>0, <2>1, <2>2 DEF Out, ACall
  <2>4. call'[c].pc = "sent" /\ \A d \in Calls \ {c} : call'[d].pc = call[d].pc
    BY <1>0, <2>3
  <2> QED
    BY <1>2, <1>3, <1>8, <2>4 DEF Send, UseCached, Fetched
<1>9. ASSUME NEW c \in Calls, Fetch(c) PROVE HolderFetches'
  <2>1. PICK r : r = [call[c] EXCEPT !.pc = "fetch", !.age = 0]
    OBVIOUS
  <2>2. call' = [call EXCEPT ![c] = r] /\ r.pc = "fetch"
    BY <1>0, <1>9, <2>1 DEF Fetch, ACall
  <2>3. call'[c].pc = "fetch" /\ \A d \in Calls \ {c} : call'[d].pc = call[d].pc
    BY <1>0, <2>2
  <2> QED
    BY <1>0, <1>9, <2>3 DEF Fetch, HolderFetches
<1>10. ASSUME NEW c \in Calls, Issue(c) PROVE HolderFetches'
  <2>1. PICK r : r = [call[c] EXCEPT !.left = TokenTTL]
    OBVIOUS
  <2>2. call' = [call EXCEPT ![c] = r] /\ r.pc = call[c].pc
    BY <1>0, <1>10, <2>1 DEF Issue, ACall
  <2>3. \A d \in Calls : call'[d].pc = call[d].pc
    BY <1>0, <2>2
  <2> QED
    BY <1>1, <1>10, <2>3 DEF Issue
<1>11. ASSUME NEW c \in Calls, Done(c) PROVE HolderFetches'
  <2>1. call' = [call EXCEPT ![c] = Idle] /\ Idle.pc = "idle"
    BY <1>11 DEF Done, Idle
  <2>2. call'[c].pc = "idle" /\ \A d \in Calls \ {c} : call'[d].pc = call[d].pc
    BY <1>0, <2>1
  <2> QED
    BY <1>2, <1>11, <2>2 DEF Done
<1>12. ASSUME NEW k \in Kinds, IntervalPasses(k) \/ TimeoutPasses(k) PROVE HolderFetches'
  <2>1. PICK st \in {"closed", "half", "open"} : NewGeneration(k, st, call)
    BY <1>12 DEF IntervalPasses, TimeoutPasses
  <2>2. \A d \in Calls : Same(call[d], call'[d])
    BY <2>1, Generation DEF GatewayIInv, Typing
  <2> QED
    BY <1>1, <1>12, <2>2 DEF Same, IntervalPasses, TimeoutPasses
<1>13. CASE Tick
  <2>1. ASSUME NEW d \in Calls PROVE call'[d].pc = call[d].pc
    <3>1. CASE ~Waiting(d)
      BY <1>13, <3>1 DEF Tick
    <3>2. CASE Waiting(d)
      <4>1. PICK r : r = [call[d] EXCEPT !.age = call[d].age + 1, !.left = Down(call[d].left)]
        OBVIOUS
      <4>2. call'[d] = r
        BY <1>13, <3>2, <4>1 DEF Tick
      <4> QED
        BY <1>0, <4>1, <4>2 DEF ACall
    <3> QED
      BY <3>1, <3>2
  <2> QED
    BY <1>1, <1>13, <2>1 DEF Tick
<1> QED
  BY <1>4, <1>5, <1>6, <1>7, <1>8, <1>9, <1>10, <1>11, <1>12, <1>13 DEF Next, Lock, Answer

(* The variables keep their types: no breaker counts beyond its limits,    *)
(* and no request outlives the timeout of its client                       *)
(* (circuit_breaker.go:21-57).                                             *)
THEOREM GatewayTypeCorrect == Spec => []TypeOK
<1>1. GatewayIInv => TypeOK
  BY TypingIsTypeOK DEF GatewayIInv
<1> QED
  BY GatewayAlways, <1>1, PTL

(* For every provider and every operation whose answer is looked at, the   *)
(* use cases are told of a success only if the provider has done it, and   *)
(* of a failed payout only if it has not (doku.go, xendit.go, ...).        *)
THEOREM ProvidersAreQuotedRightly == Spec => []AnswersAreTrue
<1>1. GatewayIInv => AnswersAreTrue
  BY DEF GatewayIInv, CallsFit, Fit, Says, AnswersAreTrue
<1> QED
  BY GatewayAlways, <1>1, PTL

(* The margin covers the request that fetches a token and the one that     *)
(* uses it, for any timeout of at most half the margin (doku.go:276-337).  *)
THEOREM TokensAreValidOnArrival == Spec => []TokenValidOnArrival
<1>1. GatewayIInv => TokenValidOnArrival
  <2> SUFFICES ASSUME GatewayIInv, NEW c \in Calls,
                      provider = "doku", call[c].pc = "sent", call[c].op \notin Callbacks
               PROVE  call[c].left > 0
    BY DEF TokenValidOnArrival
  <2>1. call[c] \in ACall /\ call[c].left + call[c].age > HttpTimeout
    BY DEF GatewayIInv, Typing, CallsFit, Fit
  <2> QED
    BY <2>1, ConstantsTyped DEF ACall
<1> QED
  BY GatewayAlways, <1>1, PTL

(* The mutex of the token is held by the one call that fetches: no path    *)
(* out of accessToken, failures included, leaves it behind, so that no     *)
(* call of this gateway waits for one that is gone (doku.go:276-337).      *)
THEOREM MutexIsGivenBack == Spec => []HolderFetches
<1>1. Init => HolderFetches
  BY GatewayAssumption DEF Init, Idle, HolderFetches
<1> QED
  BY <1>1, GatewayAlways, MutexSound, PTL DEF Spec

(* An open breaker lets nothing through, and a half-open one no more than  *)
(* MaxRequests calls at a time, however many calls of older generations    *)
(* still come back (circuit_breaker.go:63-145).                            *)
THEOREM ProvidersAreShielded == Spec => []ProviderIsShielded
<1>1. GatewayIInv => ProviderIsShielded
  <2> SUFFICES ASSUME GatewayIInv, NEW k \in Kinds
               PROVE  /\ breaker[k].st = "open" => Inside(k) = {}
                      /\ breaker[k].st = "half" => Cardinality(Inside(k)) <= MaxRequests
    BY DEF ProviderIsShielded, Inside, At
  <2>1. breaker[k] \in ABreaker /\ Shield(k)
    BY DEF GatewayIInv, Typing, Shields
  <2>2. breaker[k].requests \in 0..MaxRequests
    BY <2>1 DEF ABreaker
  <2>3. CASE breaker[k].st = "half"
    <3>1. IsFiniteSet(Inside(k)) /\ Cardinality(Inside(k)) <= breaker[k].requests
      BY <2>1, <2>3 DEF Shield
    <3>2. Cardinality(Inside(k)) \in Nat
      BY <3>1, FS_CardinalityType
    <3> QED
      BY <2>2, <2>3, <3>1, <3>2, ConstantsTyped
  <2> QED
    BY <2>1, <2>3 DEF Shield
<1> QED
  BY GatewayAlways, <1>1, PTL

(***************************************************************************)
(* START AND SHUTDOWN                                                      *)
(***************************************************************************)
(* Types                                                                   *)

LEMMA LifecycleInitTyped == LifecycleInit => LifecycleTypeOK
BY DEF LifecycleInit, LifecycleTypeOK

LEMMA StartStaysTyped ==
    ASSUME LifecycleTypeOK, NEW i \in Instances, StartStep(i)
    PROVE  LifecycleTypeOK'
<1> USE DEF LifecycleTypeOK, Move, Starting, Stopping
<1>1. CASE Boot(i)
  BY <1>1 DEF Boot
<1>2. CASE ReadMargin(i)
  BY <1>2 DEF ReadMargin
<1>3. CASE SeedMargin(i)
  BY <1>3 DEF SeedMargin
<1>4. CASE SkipSeed(i)
  BY <1>4 DEF SkipSeed
<1>5. CASE Wire(i)
  BY <1>5 DEF Wire
<1>6. CASE Serve(i)
  BY <1>6 DEF Serve
<1> QED
  BY <1>1, <1>2, <1>3, <1>4, <1>5, <1>6 DEF StartStep

LEMMA GoneStaysTyped ==
    ASSUME LifecycleTypeOK, NEW i \in Instances, Gone(i)
    PROVE  LifecycleTypeOK'
BY DEF LifecycleTypeOK, Gone, Starting, Stopping

LEMMA StopStaysTyped ==
    ASSUME LifecycleTypeOK, NEW i \in Instances, StopStep(i)
    PROVE  LifecycleTypeOK'
<1> USE DEF LifecycleTypeOK, Move, Starting, Stopping
<1>1. CASE DrainHTTP(i)
  BY <1>1 DEF DrainHTTP
<1>2. CASE DrainTimesOut(i)
  BY <1>2 DEF DrainTimesOut, Work
<1>3. CASE StopTasks(i)
  BY <1>3 DEF StopTasks
<1>4. CASE CancelWorkers(i)
  BY <1>4 DEF CancelWorkers
<1>5. CASE WorkersStopped(i)
  BY <1>5 DEF WorkersStopped
<1>6. CASE WorkersTimeOut(i)
  BY <1>6 DEF WorkersTimeOut, Work
<1>7. CASE CloseInfra(i)
  BY <1>7 DEF CloseInfra
<1>8. CASE Exit(i)
  BY <1>8, GoneStaysTyped DEF Exit
<1> QED
  BY <1>1, <1>2, <1>3, <1>4, <1>5, <1>6, <1>7, <1>8 DEF StopStep

LEMMA BeginStaysTyped ==
    ASSUME LifecycleTypeOK, NEW i \in Instances, NEW w \in Work, BeginWork(i, w)
    PROVE  LifecycleTypeOK'
<1>1. stage[i] # "down"
  BY DEF BeginWork, MayStart, Work, Workers
<1> QED
  BY <1>1 DEF LifecycleTypeOK, BeginWork

LEMMA NextStaysTyped == LifecycleTypeOK /\ [LifecycleNext]_lifecycleVars => LifecycleTypeOK'
<1> SUFFICES ASSUME LifecycleTypeOK, [LifecycleNext]_lifecycleVars PROVE LifecycleTypeOK'
  OBVIOUS
<1>1. CASE UNCHANGED lifecycleVars
  BY <1>1 DEF LifecycleTypeOK, lifecycleVars
<1>2. ASSUME NEW i \in Instances, StartStep(i) PROVE LifecycleTypeOK'
  BY <1>2, StartStaysTyped
<1>3. ASSUME NEW i \in Instances, StopStep(i) PROVE LifecycleTypeOK'
  BY <1>3, StopStaysTyped
<1>4. ASSUME NEW i \in Instances, Shutdown(i) PROVE LifecycleTypeOK'
  BY <1>4 DEF Shutdown, Move, LifecycleTypeOK, Starting, Stopping
<1>5. ASSUME NEW i \in Instances, Die(i) PROVE LifecycleTypeOK'
  BY <1>5, GoneStaysTyped DEF Die
<1>6. ASSUME NEW i \in Instances, AdminSetsMargin(i) PROVE LifecycleTypeOK'
  BY <1>6 DEF AdminSetsMargin, LifecycleTypeOK
<1>7. ASSUME NEW i \in Instances, NEW w \in Work, BeginWork(i, w) PROVE LifecycleTypeOK'
  BY <1>7, BeginStaysTyped
<1>8. ASSUME NEW i \in Instances, NEW w \in Work, EndWork(i, w) PROVE LifecycleTypeOK'
  BY <1>8 DEF EndWork, LifecycleTypeOK
<1> QED
  BY <1>1, <1>2, <1>3, <1>4, <1>5, <1>6, <1>7, <1>8 DEF LifecycleNext, Step

(* The variables keep their types; an instance that is down does no work,  *)
(* and its infrastructure is open exactly from its boot (app.go:65) to the *)
(* last stage of its shutdown (app.go:379).                                *)
THEOREM LifecycleTypeCorrect == LifecycleSpec => []LifecycleTypeOK
BY LifecycleInitTyped, NextStaysTyped, PTL DEF LifecycleSpec

-----------------------------------------------------------------------------
(* The order of the shutdown                                               *)

(* What a shutdown has passed, it does not wait for any longer: requests   *)
(* after the first stage, workers after the third.                         *)
Drained(i) ==
    /\ stage[i] \in {"tasks", "cancel", "workers", "log", "closing"} =>
          ("request" \in work[i] => "request" \in forced[i])
    /\ stage[i] \in {"log", "closing"} => Workers \cap work[i] \subseteq forced[i]

StagesInOrder == LifecycleTypeOK /\ \A i \in Instances : Drained(i)

LEMMA InitInOrder == LifecycleInit => StagesInOrder
BY LifecycleInitTyped DEF LifecycleInit, StagesInOrder, Drained

LEMMA StopInOrder ==
    ASSUME StagesInOrder, NEW i \in Instances, StopStep(i)
    PROVE  Drained(i)'
<1> USE DEF StagesInOrder, LifecycleTypeOK, Drained, Move
<1>1. CASE DrainHTTP(i)
  BY <1>1 DEF DrainHTTP
<1>2. CASE DrainTimesOut(i)
  BY <1>2 DEF DrainTimesOut
<1>3. CASE StopTasks(i)
  BY <1>3 DEF StopTasks
<1>4. CASE CancelWorkers(i)
  BY <1>4 DEF CancelWorkers
<1>5. CASE WorkersStopped(i)
  BY <1>5 DEF WorkersStopped
<1>6. CASE WorkersTimeOut(i)
  BY <1>6 DEF WorkersTimeOut
<1>7. CASE CloseInfra(i)
  BY <1>7 DEF CloseInfra
<1>8. CASE Exit(i)
  BY <1>8 DEF Exit, Gone
<1> QED
  BY <1>1, <1>2, <1>3, <1>4, <1>5, <1>6, <1>7, <1>8 DEF StopStep

LEMMA StartInOrder ==
    ASSUME StagesInOrder, NEW i \in Instances, StartStep(i)
    PROVE  Drained(i)'
BY DEF StartStep, Boot, ReadMargin, SeedMargin, SkipSeed, Wire, Serve, Move,
       StagesInOrder, LifecycleTypeOK, Drained

(* Nothing begins once its stage has passed.                               *)
LEMMA BeginInOrder ==
    ASSUME StagesInOrder, NEW i \in Instances, NEW w \in Work, BeginWork(i, w)
    PROVE  Drained(i)'
<1>1. CASE w = "request"
  BY <1>1 DEF BeginWork, MayStart, StagesInOrder, LifecycleTypeOK, Drained, Workers
<1>2. CASE w = "task"
  BY <1>2 DEF BeginWork, StagesInOrder, LifecycleTypeOK, Drained, Workers
<1>3. CASE w \in Workers
  BY <1>3 DEF BeginWork, MayStart, StagesInOrder, LifecycleTypeOK, Drained, Workers
<1> QED
  BY <1>1, <1>2, <1>3 DEF Work

(* A step of one instance leaves the others where they are.                *)
LEMMA OthersInOrder ==
    ASSUME StagesInOrder, NEW i \in Instances, Step(i), NEW j \in Instances \ {i}
    PROVE  Drained(j)'
<1>1. stage'[j] = stage[j] /\ work'[j] = work[j] /\ forced'[j] = forced[j]
  <2> USE DEF StagesInOrder, LifecycleTypeOK
  <2>1. CASE StartStep(i)
    BY <2>1 DEF StartStep, Boot, ReadMargin, SeedMargin, SkipSeed, Wire, Serve, Move
  <2>2. CASE StopStep(i)
    BY <2>2 DEF StopStep, DrainHTTP, DrainTimesOut, StopTasks, CancelWorkers, WorkersStopped,
                WorkersTimeOut, CloseInfra, Exit, Gone, Move
  <2>3. CASE Shutdown(i) \/ Die(i) \/ AdminSetsMargin(i)
    BY <2>3 DEF Shutdown, Die, Gone, AdminSetsMargin, Move
  <2>4. CASE \E w \in Work : BeginWork(i, w) \/ EndWork(i, w)
    BY <2>4 DEF BeginWork, EndWork
  <2> QED
    BY <2>1, <2>2, <2>3, <2>4 DEF Step
<1> QED
  BY <1>1 DEF StagesInOrder, Drained

LEMMA NextInOrder == StagesInOrder /\ [LifecycleNext]_lifecycleVars => StagesInOrder'
<1> SUFFICES ASSUME StagesInOrder, [LifecycleNext]_lifecycleVars PROVE StagesInOrder'
  OBVIOUS
<1>1. LifecycleTypeOK'
  BY NextStaysTyped DEF StagesInOrder
<1>2. CASE UNCHANGED lifecycleVars
  BY <1>1, <1>2 DEF lifecycleVars, StagesInOrder, Drained
<1>3. ASSUME NEW i \in Instances, Step(i) PROVE Drained(i)'
  <2> USE DEF StagesInOrder, LifecycleTypeOK, Drained
  <2>1. CASE StartStep(i)
    BY <2>1, StartInOrder
  <2>2. CASE StopStep(i)
    BY <2>2, StopInOrder
  <2>3. CASE Shutdown(i)
    BY <2>3 DEF Shutdown, Move
  <2>4. CASE Die(i)
    BY <2>4 DEF Die, Gone
  <2>5. CASE AdminSetsMargin(i)
    BY <2>5 DEF AdminSetsMargin
  <2>6. ASSUME NEW w \in Work, BeginWork(i, w) PROVE Drained(i)'
    BY <2>6, BeginInOrder
  <2>7. ASSUME NEW w \in Work, EndWork(i, w) PROVE Drained(i)'
    BY <2>7 DEF EndWork
  <2> QED
    BY <1>3, <2>1, <2>2, <2>3, <2>4, <2>5, <2>6, <2>7 DEF Step
<1>4. ASSUME NEW i \in Instances, Step(i), NEW j \in Instances PROVE Drained(j)'
  BY <1>3, <1>4, OthersInOrder
<1> QED
  BY <1>1, <1>2, <1>4 DEF StagesInOrder, LifecycleNext

LEMMA InOrderIsSafe == StagesInOrder => InfraClosesLast
<1> SUFFICES ASSUME StagesInOrder, NEW i \in Instances, infra[i] = "closed"
             PROVE  work[i] \ {"task"} \subseteq forced[i]
  BY DEF InfraClosesLast
<1>1. CASE stage[i] = "down"
  BY <1>1 DEF StagesInOrder, LifecycleTypeOK
<1>2. CASE stage[i] = "closing"
  BY <1>2 DEF StagesInOrder, LifecycleTypeOK, Drained, Work, Workers
<1> QED
  BY <1>1, <1>2 DEF StagesInOrder, LifecycleTypeOK

(* Whatever is under way when an instance closes its database has been     *)
(* waited for until a deadline, tasks excepted (app.go:327-390).           *)
THEOREM ShutdownInOrder == LifecycleSpec => []InfraClosesLast
BY InitInOrder, NextInOrder, InOrderIsSafe, PTL DEF LifecycleSpec

-----------------------------------------------------------------------------
(* The margin                                                              *)

(* While an admin's margin is safe, no boot is about to write its own.     *)
MarginIsSafe ==
    LifecycleTypeOK /\ (set /\ ~overlap => margin = "admin" /\ \A i \in Instances : stage[i] # "seeding")

LEMMA InitMargin == LifecycleInit => MarginIsSafe
BY LifecycleInitTyped DEF LifecycleInit, MarginIsSafe

LEMMA NextMargin == MarginIsSafe /\ [LifecycleNext]_lifecycleVars => MarginIsSafe'
<1> SUFFICES ASSUME MarginIsSafe, [LifecycleNext]_lifecycleVars PROVE MarginIsSafe'
  OBVIOUS
<1>1. LifecycleTypeOK'
  BY NextStaysTyped DEF MarginIsSafe
<1>2. CASE UNCHANGED lifecycleVars
  BY <1>1, <1>2 DEF lifecycleVars, MarginIsSafe
<1>3. ASSUME NEW i \in Instances, Step(i) PROVE MarginIsSafe'
  <2> USE <1>1 DEF MarginIsSafe, LifecycleTypeOK, Move
  <2>1. CASE StartStep(i)
    <3>1. CASE ReadMargin(i)
      BY <3>1 DEF ReadMargin
    <3>2. CASE SeedMargin(i)
      BY <3>2 DEF SeedMargin
    <3>3. CASE Boot(i) \/ SkipSeed(i) \/ Wire(i) \/ Serve(i)
      BY <3>3 DEF Boot, SkipSeed, Wire, Serve
    <3> QED
      BY <2>1, <3>1, <3>2, <3>3 DEF StartStep
  <2>2. CASE StopStep(i)
    BY <2>2 DEF StopStep, DrainHTTP, DrainTimesOut, StopTasks, CancelWorkers, WorkersStopped,
                WorkersTimeOut, CloseInfra, Exit, Gone
  <2>3. CASE Shutdown(i) \/ Die(i)
    BY <2>3 DEF Shutdown, Die, Gone
  <2>4. CASE AdminSetsMargin(i)
    BY <2>4 DEF AdminSetsMargin
  <2>5. CASE \E w \in Work : BeginWork(i, w) \/ EndWork(i, w)
    BY <2>5 DEF BeginWork, EndWork
  <2> QED
    BY <1>3, <2>1, <2>2, <2>3, <2>4, <2>5 DEF Step
<1> QED
  BY <1>2, <1>3 DEF LifecycleNext

(* However many instances start, die and start again: the margin an admin  *)
(* has set stays, unless it was set between the read and the write of a    *)
(* first boot (app.go:110-138).                                            *)
THEOREM MarginKept == LifecycleSpec => []AdminMarginIsKept
<1>1. MarginIsSafe => AdminMarginIsKept
  BY DEF MarginIsSafe, AdminMarginIsKept
<1> QED
  BY <1>1, InitMargin, NextMargin, PTL DEF LifecycleSpec
=============================================================================
