------------------------------ MODULE Gateway ------------------------------
(***************************************************************************)
(* The gateway of one provider: its adapter behind the circuit breakers    *)
(* (internal/infrastructure/provider/circuit_breaker.go, over the library  *)
(* gobreaker), and the access token of DOKU, which all its calls share     *)
(* under one mutex.  Any number of calls run at a time; a call is used     *)
(* again and again for one operation after the other.                      *)
(*                                                                         *)
(* Time is discrete and kept as what is left of a token and as the age of  *)
(* a request, never as a clock; only the token looks at it.  The interval  *)
(* and the timeout of a breaker may pass at any moment.  A request ends    *)
(* after at most HttpTimeout, the timeout of the adapters' HTTP clients;   *)
(* the end of a caller's context shows as a lost answer.                   *)
(***************************************************************************)
EXTENDS Integers, FiniteSets, Adapters

CONSTANTS Calls,               \* concurrent calls
          Does,                \* the operations each of them is used for
          Nobody,              \* holder of a free mutex
          HttpTimeout,         \* of an adapter's HTTP client, in ticks
          Margin,              \* a token is renewed when it has no more left
          TokenTTL,            \* expiresIn of a token
          MaxRequests,         \* of a half-open breaker
          ConsecutiveFailures  \* that open a breaker

ASSUME GatewayAssumption ==
    /\ Nobody \notin Calls
    /\ Does \in [Calls -> SUBSET (PaymentOps \cup PayoutOps \cup Callbacks)]
    /\ {HttpTimeout, Margin, TokenTTL, MaxRequests, ConsecutiveFailures} \subseteq Nat \ {0}
    /\ Margin >= 2 * HttpTimeout      \* 30 seconds, against 15
    /\ TokenTTL > Margin              \* 900 seconds

VARIABLES provider,  \* whose gateway this is
          breaker,   \* one breaker for payments and one for payouts
          token,     \* DOKU's: what the gateway thinks is left, and what is
          holder,    \* who holds tokenMu
          call       \* the calls

vars == <<provider, breaker, token, holder, call>>

Kinds == {"payment", "payout"}

KindOf(o) == IF o \in PaymentOps \cup {"callback"} THEN "payment" ELSE "payout"

(* Mutant: a decorator that calls the adapter directly. *)
WrappedButCancel(o) == o \in (PaymentOps \ {"cancel"}) \cup PayoutOps

(* The operations of the decorators that go through the breaker: all but   *)
(* the parsing of callbacks.                                               *)
Wrapped(o) == o \in PaymentOps \cup PayoutOps

Closed == [st |-> "closed", requests |-> 0, failures |-> 0, successes |-> 0]

Idle == [op |-> "none", pc |-> "idle", cur |-> FALSE, age |-> 0, left |-> 0,
         did |-> FALSE, result |-> "none"]

Init ==
    /\ provider \in Providers
    /\ breaker = [k \in Kinds |-> Closed]
    /\ token = [thought |-> 0, left |-> 0]
    /\ holder = Nobody
    /\ call = [c \in Calls |-> Idle]

-----------------------------------------------------------------------------
(* gobreaker.  A new generation clears the counts, and what was admitted   *)
(* before it no longer counts (cur).                                       *)

Admits(k) ==
    \/ breaker[k].st = "closed"
    \/ breaker[k].st = "half" /\ breaker[k].requests < MaxRequests

NewGeneration(k, st, calls) ==
    /\ breaker' = [breaker EXCEPT ![k] = [Closed EXCEPT !.st = st]]
    /\ call' = [c \in Calls |-> IF KindOf(calls[c].op) = k
                                THEN [calls[c] EXCEPT !.cur = FALSE] ELSE calls[c]]

Counted(k, b, calls) == breaker' = [breaker EXCEPT ![k] = b] /\ call' = calls

Success(k, calls) ==
    LET b == [breaker[k] EXCEPT !.failures = 0, !.successes = @ + 1]
    IN  IF b.st = "half" /\ b.successes >= MaxRequests
        THEN NewGeneration(k, "closed", calls)
        ELSE Counted(k, IF b.st = "half" THEN b ELSE [b EXCEPT !.successes = 0], calls)

Failure(k, calls) ==
    LET b == [breaker[k] EXCEPT !.failures = @ + 1]
    IN  IF b.st = "half" \/ b.failures >= ConsecutiveFailures
        THEN NewGeneration(k, "open", calls)
        ELSE Counted(k, b, calls)

(* The interval of a closed breaker, the timeout of an open one.           *)
IntervalPasses(k) ==
    /\ breaker[k].st = "closed" /\ breaker[k].failures > 0
    /\ NewGeneration(k, "closed", call)
    /\ UNCHANGED <<provider, token, holder>>

TimeoutPasses(k) ==
    /\ breaker[k].st = "open"
    /\ NewGeneration(k, "half", call)
    /\ UNCHANGED <<provider, token, holder>>

-----------------------------------------------------------------------------
(* A call through a decorator                                              *)

(* The breaker refuses the call, or the adapter gets it.                   *)
Begin(c) ==
    /\ call[c].pc = "idle"
    /\ \E o \in Ops(provider) \cap Does[c] :
          IF Wrapped(o) /\ ~Admits(KindOf(o))
          THEN /\ call' = [call EXCEPT ![c] = [Idle EXCEPT !.op = o, !.pc = "returned",
                                                           !.result = "error"]]
               /\ UNCHANGED breaker
          ELSE /\ call' = [call EXCEPT ![c] = [Idle EXCEPT !.op = o, !.pc = "in", !.cur = TRUE]]
               /\ breaker' = IF Wrapped(o) /\ breaker[KindOf(o)].st = "half"
                             THEN [breaker EXCEPT ![KindOf(o)].requests = @ + 1] ELSE breaker
    /\ UNCHANGED <<provider, token, holder>>

(* run: an error of the adapter is a failure for the breaker, whatever its *)
(* reason; a result of an older generation is not counted.                 *)
Finish(c, result, did) ==
    LET k == KindOf(call[c].op)
        calls == [call EXCEPT ![c] = [Idle EXCEPT !.op = call[c].op, !.pc = "returned",
                                                  !.result = result, !.did = did]]
    IN  IF ~Wrapped(call[c].op) \/ ~call[c].cur
        THEN call' = calls /\ UNCHANGED breaker
        ELSE IF result = "error" THEN Failure(k, calls) ELSE Success(k, calls)

(* The adapter itself refuses.                                             *)
Refuse(c) ==
    /\ call[c].pc = "in"
    /\ call[c].op \in Unsent(provider)
    /\ Finish(c, "error", FALSE)
    /\ UNCHANGED <<provider, token, holder>>

(* The request goes out, with what is left of its token.  A callback is    *)
(* not sent: it needs the token to verify its signature.                   *)
Out(c, left) == [call EXCEPT ![c].pc = "sent", ![c].left = left, ![c].age = 0]

Send(c) ==
    /\ call[c].pc = "in" /\ provider # "doku"
    /\ call[c].op \notin AlwaysUnsent(provider)
    /\ call' = Out(c, 0)
    /\ UNCHANGED <<provider, breaker, token, holder>>

-----------------------------------------------------------------------------
(* accessToken.  Its caller sends the request without another wait, within *)
(* the same tick.                                                          *)

(* Mutant: a token is used for as long as it is believed to live. *)
FreshToTheEnd == token.thought > 0

Fresh == token.thought > Margin

UseCached(c) ==
    /\ call[c].pc = "in" /\ provider = "doku" /\ holder = Nobody
    /\ Fresh
    /\ call' = Out(c, token.left)
    /\ UNCHANGED <<provider, breaker, token, holder>>

Fetch(c) ==
    /\ call[c].pc = "in" /\ provider = "doku" /\ holder = Nobody
    /\ ~Fresh
    /\ holder' = c
    /\ call' = [call EXCEPT ![c].pc = "fetch", ![c].age = 0]
    /\ UNCHANGED <<provider, breaker, token>>

Fetched(c) ==
    /\ call[c].pc = "fetch" /\ call[c].left > 0
    /\ token' = [thought |-> TokenTTL, left |-> call[c].left]
    /\ holder' = Nobody
    /\ call' = Out(c, call[c].left)
    /\ UNCHANGED <<provider, breaker>>

(* Mutant: an early return that keeps the mutex. *)
FetchFailsLocked(c) ==
    /\ call[c].pc = "fetch"
    /\ Finish(c, "error", FALSE)
    /\ UNCHANGED <<provider, token, holder>>

FetchFails(c) ==
    /\ call[c].pc = "fetch"
    /\ holder' = Nobody
    /\ Finish(c, "error", FALSE)
    /\ UNCHANGED <<provider, token>>

-----------------------------------------------------------------------------
(* The provider                                                            *)

(* It issues a token, whether or not its answer gets through.              *)
Issue(c) ==
    /\ call[c].pc = "fetch" /\ call[c].left = 0
    /\ call' = [call EXCEPT ![c].left = TokenTTL]
    /\ UNCHANGED <<provider, breaker, token, holder>>

(* It does what it is asked, or not, and says so.  A garbled answer, and   *)
(* a code the adapter does not know, may come either way.                  *)
Truths(o, a) ==
    IF a \in {"garbled", "other"} THEN BOOLEAN
    ELSE {a \in {"done", "bare", "paid", "completed", "accepted"}}

(* The provider handles the request and its answer arrives.                *)
Return(c) ==
    /\ call[c].pc = "sent"
    /\ \E a \in Codes(call[c].op) : \E did \in Truths(call[c].op, a) :
          Finish(c, Result(provider, call[c].op, a), did)
    /\ UNCHANGED <<provider, token, holder>>

(* No answer arrives, or the signature of a callback is not valid.  An     *)
(* error claims nothing, so what the provider has done is not kept.        *)
Lost(c) ==
    /\ call[c].pc = "sent"
    /\ Finish(c, "error", FALSE)
    /\ UNCHANGED <<provider, token, holder>>

Done(c) ==
    /\ call[c].pc = "returned"
    /\ call' = [call EXCEPT ![c] = Idle]
    /\ UNCHANGED <<provider, breaker, token, holder>>

-----------------------------------------------------------------------------
Down(n) == IF n > 0 THEN n - 1 ELSE 0

Waiting(c) == call[c].pc = "fetch" \/ (call[c].pc = "sent" /\ call[c].op \notin Callbacks)

Tick ==
    /\ provider = "doku"
    /\ \A c \in Calls : Waiting(c) => call[c].age < HttpTimeout
    /\ call' = [c \in Calls |-> IF Waiting(c)
                                THEN [call[c] EXCEPT !.age = @ + 1, !.left = Down(@)] ELSE call[c]]
    /\ token' = [thought |-> Down(token.thought), left |-> Down(token.left)]
    /\ UNCHANGED <<provider, breaker, holder>>

Lock(c) == UseCached(c) \/ Fetch(c)

Answer(c) == Refuse(c) \/ Send(c) \/ Fetched(c) \/ FetchFails(c) \/ Return(c) \/ Lost(c)

Next ==
    \/ \E c \in Calls : Begin(c) \/ Lock(c) \/ Answer(c) \/ Issue(c) \/ Done(c)
    \/ \E k \in Kinds : IntervalPasses(k) \/ TimeoutPasses(k)
    \/ Tick

Spec == Init /\ [][Next]_vars

(* A call goes on, its requests end by their timeout, and a mutex of Go is *)
(* not kept from a goroutine that waits for it.                            *)
Fairness == \A c \in Calls : WF_vars(Answer(c)) /\ SF_vars(Lock(c))

FairSpec == Spec /\ Fairness

-----------------------------------------------------------------------------
(* Properties                                                              *)

(* Types; the counts of a breaker stay below their limits.                 *)
TypeOK ==
    /\ provider \in Providers
    /\ breaker \in [Kinds -> [st : {"closed", "half", "open"}, requests : 0..MaxRequests,
                              failures : 0..(ConsecutiveFailures - 1), successes : 0..MaxRequests]]
    /\ token \in [thought : 0..TokenTTL, left : 0..TokenTTL]
    /\ holder \in Calls \cup {Nobody}
    /\ call \in [Calls -> [op : PaymentOps \cup PayoutOps \cup Callbacks \cup {"none"},
                           pc : {"idle", "in", "fetch", "sent", "returned"},
                           cur : BOOLEAN, age : 0..HttpTimeout, left : 0..TokenTTL,
                           did : BOOLEAN, result : Results \cup {"none"}]]

(* The answers of DOKU that nothing looks at: a refused QRIS request and a *)
(* refused cancellation count as done, and an unknown code of a payout as  *)
(* failed (doku.go:155-186, 465-474).                                      *)
Unchecked == {<<"doku", "qris">>, <<"doku", "cancel">>, <<"doku", "disburse">>,
              <<"doku", "payout_status">>, <<"doku", "payout_callback">>}

(* What the use cases are told is so, for each provider and operation but  *)
(* those: a success, a payment that is paid, a payout under way only if    *)
(* the provider has done it, and a payout that failed only if it has not.  *)
AnswersAreTrue ==
    \A c \in Calls :
        call[c].pc = "returned" /\ <<provider, call[c].op>> \notin Unchecked =>
            /\ call[c].result \in {"ok", "paid", "completed", "processing"} => call[c].did
            /\ KindOf(call[c].op) = "payout" /\ call[c].result = "failed" => ~call[c].did

(* A request reaches DOKU with a token that is still valid there, however  *)
(* long the token and the request have been under way: the margin of 30    *)
(* seconds covers both (doku.go:280).                                      *)
TokenValidOnArrival ==
    \A c \in Calls : 
        provider = "doku" /\ call[c].pc = "sent" /\ call[c].op \notin Callbacks => call[c].left > 0

(* No call begun since the breaker of its kind has opened reaches the      *)
(* adapter, and while it is half-open at most MaxRequests of them are at   *)
(* it at a time, for every operation of the decorators.                    *)
ProviderIsShielded ==
    \A k \in Kinds :
        LET inside == {c \in Calls : /\ KindOf(call[c].op) = k /\ call[c].op \notin Callbacks
                                     /\ call[c].pc \in {"in", "fetch", "sent"}
                                     /\ call[c].cur}
        IN  /\ breaker[k].st = "open" => inside = {}
            /\ breaker[k].st = "half" => Cardinality(inside) <= MaxRequests

(* The mutex of the token is held by the one call that fetches a token,    *)
(* and by none that has gone on or returned, on whatever path              *)
(* (doku.go:276-337).                                                      *)
HolderFetches == \A c \in Calls : call[c].pc = "fetch" <=> holder = c

(* Every call returns, however the others do: none waits for ever for the  *)
(* mutex of the token.                                                     *)
CallsReturn == \A c \in Calls : call[c].pc = "in" ~> call[c].pc = "returned"
=============================================================================
