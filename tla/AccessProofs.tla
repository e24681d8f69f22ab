---------------------------- MODULE AccessProofs ----------------------------
(***************************************************************************)
(* Theorems about Access, for any number of admins, keys and requests, any *)
(* lifetime of the tokens and any deadline of a request; and about Paging, *)
(* for any table, any lists and limits asked for.  The two have no state   *)
(* in common: each theorem is about the specification it names.            *)
(***************************************************************************)
EXTENDS Access, Paging, FiniteSetTheorems, SequenceTheorems, TLAPS

-----------------------------------------------------------------------------
(* Types                                                                   *)

AdminRow == [st : {"absent", "active", "inactive"}, role : Roles \cup {"none"},
             since : 0..(PowerEnd + 1)]

MerchantRow == [status : {"absent", "pending", "active", "suspended", "inactive", "deleted"},
                url : BOOLEAN, key : Keys \cup {NoKey}]

Request == [pc : {"idle", "handling", "issuing", "done"}, op : Ops,
            who : Admins \cup Keys \cup {Nobody}, age : 0..(RequestTimeout + 1)]

LEMMA Bounds ==
    /\ AccessTTL \in Nat \ {0} /\ RequestTimeout \in Nat \ {0}
    /\ Gone \in Nat \ {0} /\ AccessTTL < Gone /\ RefreshTTL < Gone
    /\ PowerEnd \in Nat /\ PowerEnd = AccessTTL + 2 * RequestTimeout
BY AccessAssumption DEF Gone, PowerEnd

(* An age that a tick makes older.                                         *)
LEMMA OlderInBound ==
    ASSUME NEW bound \in Nat, NEW n \in 0..bound
    PROVE  /\ Older(n, bound) \in 0..bound
           /\ Older(n, bound) <= n + 1
           /\ Older(n, bound) < bound => Older(n, bound) = n + 1
BY DEF Older

LEMMA InitTyped == Init => TypeOK
<1> SUFFICES ASSUME Init PROVE TypeOK
  OBVIOUS
<1>1. admin \in [Admins -> AdminRow]
  <2>1. Absent \in AdminRow /\ Active("super_admin") \in AdminRow
    BY Bounds DEF Absent, Active, AdminRow, Roles
  <2> QED
    BY <2>1 DEF Init
<1>2. session \in [Admins -> 0..Gone]
  BY Bounds DEF Init
<1>3. merchant \in MerchantRow
  BY DEF Init, NoMerchant, MerchantRow
<1>4. off \in [Keys -> 0..(RequestTimeout + 1)]
  BY Bounds DEF Init
<1>5. req \in [Requests -> Request]
  BY Bounds DEF Init, Idle, Request, Ops
<1> QED
  BY <1>1, <1>2, <1>3, <1>4, <1>5 DEF TypeOK, AdminRow, MerchantRow, Request

(* A request that has arrived, and one that leaves.                        *)
LEMMA ArriveTyped ==
    ASSUME TypeOK, NEW r \in Requests, NEW pc \in {"handling", "issuing"}, NEW o \in Ops,
           NEW who \in Admins \cup Keys \cup {Nobody}, Arrive(r, pc, o, who)
    PROVE  /\ req' \in [Requests -> Request]
           /\ req'[r].pc = pc /\ req'[r].op = o /\ req'[r].who = who /\ req'[r].age = 0
           /\ \A q \in Requests \ {r} : req'[q] = req[q]
<1> DEFINE i == [Idle EXCEPT !.pc = pc, !.op = o, !.who = who]
<1>1. Idle \in Request
  BY Bounds DEF Idle, Request, Ops
<1>2. i \in Request
  BY <1>1, Zenon DEF Request
<1>3. i.pc = pc /\ i.op = o /\ i.who = who /\ i.age = 0
  BY DEF Idle
<1>4. req' = [req EXCEPT ![r] = i]
  BY DEF Arrive
<1> HIDE DEF i
<1> QED
  BY <1>2, <1>3, <1>4 DEF TypeOK, Request

LEMMA LeaveTyped ==
    ASSUME TypeOK, NEW r \in Requests,
           Done(r) \/ req' = [req EXCEPT ![r] = Idle]
    PROVE  /\ req' \in [Requests -> Request]
           /\ req'[r].pc \in {"idle", "done"}
           /\ \A q \in Requests \ {r} : req'[q] = req[q]
<1>1. Idle \in Request
  BY Bounds DEF Idle, Request, Ops
<1>2. [Idle EXCEPT !.pc = "done"] \in Request
  BY <1>1, Zenon DEF Request
<1>3. Idle.pc = "idle" /\ [Idle EXCEPT !.pc = "done"].pc = "done"
  BY DEF Idle
<1>4. PICK i \in Request : i.pc \in {"idle", "done"} /\ req' = [req EXCEPT ![r] = i]
  <2>1. CASE Done(r)
    BY <1>2, <1>3, <2>1 DEF Done
  <2>2. CASE req' = [req EXCEPT ![r] = Idle]
    BY <1>1, <1>3, <2>2
  <2> QED
    BY <2>1, <2>2
<1> QED
  BY <1>4 DEF TypeOK, Request

-----------------------------------------------------------------------------
(* The kinds of steps                                                      *)

(* A request of an admin, of a merchant, of a provider; one for tokens.    *)
Arrives(r) ==
    AdminJWTAuth(r) \/ APIKeyAuth(r) \/ WebhookIPAllowlist(r) \/ Login(r) \/ RefreshToken(r)

WritesAdmins(r) == CreateAdmin(r) \/ DeactivateAdmin(r)

WritesMerchant(r) ==
    \/ CreateMerchant(r) \/ SetStatus(r) \/ DeleteMerchant(r) \/ RegenerateAPIKey(r)
    \/ UpdateMerchant(r)

WritesElsewhere(r) ==
    /\ req[r].pc # "idle"
    /\ Done(r) \/ req' = [req EXCEPT ![r] = Idle]
    /\ UNCHANGED <<admin, session, merchant, off>>

LEMMA Kinds ==
    ASSUME Next
    PROVE  \/ \E r \in Requests : \/ Arrives(r) \/ IssueTokens(r) \/ WritesAdmins(r)
                                  \/ WritesMerchant(r) \/ WritesElsewhere(r)
           \/ Tick
<1>1. ASSUME NEW r \in Requests,
             \/ Self(r) \/ MerchantTerms(r) \/ BankAccounts(r) \/ OwnAccounts(r)
             \/ ProviderBalances(r) \/ FeeManagement(r) \/ Holidays(r)
             \/ LookAtMerchant(r) \/ LookAtPayment(r) \/ LookAtDisbursement(r)
             \/ SeeOwn(r) \/ SeePayment(r) \/ SeeDisbursement(r) \/ SeeMutation(r)
             \/ Pay(r) \/ CancelPayment(r) \/ CashOut(r) \/ HandleWebhook(r)
      PROVE  WritesElsewhere(r)
  <2>1. req[r].pc = "handling" /\ Elsewhere(r)
    BY <1>1 DEF Self, MerchantTerms, BankAccounts, OwnAccounts, ProviderBalances, FeeManagement,
                Holidays, LookAtMerchant, LookAtPayment, LookAtDisbursement, SeeOwn, SeePayment,
                SeeDisbursement, SeeMutation, Pay, CancelPayment, CashOut, HandleWebhook, Handles
  <2> QED
    BY <2>1 DEF Elsewhere, WritesElsewhere
<1>2. ASSUME NEW r \in Requests, Fail(r) PROVE WritesElsewhere(r)
  BY <1>2 DEF Fail, WritesElsewhere
<1> QED
  BY <1>1, <1>2 DEF Next, Arrives, WritesAdmins, WritesMerchant

(* What the row of a merchant may become, and the ages of its keys.        *)
LEMMA MerchantStep ==
    ASSUME TypeOK, NEW r \in Requests, WritesMerchant(r)
    PROVE  /\ \E m \in MerchantRow : Write(m)
           /\ Done(r) /\ UNCHANGED <<admin, session>>
<1>0. merchant \in MerchantRow
  BY DEF TypeOK, MerchantRow
<1>1. CASE CreateMerchant(r)
  <2>1. PICK url \in BOOLEAN, k \in Keys : Write([status |-> "pending", url |-> url, key |-> k])
    BY <1>1 DEF CreateMerchant, InsertMerchant
  <2>2. [status |-> "pending", url |-> url, key |-> k] \in MerchantRow
    BY DEF MerchantRow
  <2> QED
    BY <1>1, <2>1, <2>2 DEF CreateMerchant
<1>2. CASE SetStatus(r)
  <2>1. NewStatus(req[r].op) \in {"active", "suspended", "inactive"}
    BY <1>2, Zenon DEF SetStatus, Handles, NewStatus
  <2>2. [merchant EXCEPT !.status = NewStatus(req[r].op)] \in MerchantRow
    BY <1>0, <2>1 DEF MerchantRow
  <2> QED
    BY <1>2, <2>2 DEF SetStatus
<1>3. CASE DeleteMerchant(r)
  <2>1. [merchant EXCEPT !.status = "deleted"] \in MerchantRow
    BY <1>0 DEF MerchantRow
  <2> QED
    BY <1>0, <1>3, <2>1 DEF DeleteMerchant
<1>4. CASE RegenerateAPIKey(r)
  <2>1. PICK k \in Keys : Write([merchant EXCEPT !.key = k])
    BY <1>4 DEF RegenerateAPIKey
  <2>2. [merchant EXCEPT !.key = k] \in MerchantRow
    BY <1>0 DEF MerchantRow
  <2> QED
    BY <1>4, <2>1, <2>2 DEF RegenerateAPIKey
<1>5. CASE UpdateMerchant(r)
  <2>1. PICK url \in BOOLEAN : Write([merchant EXCEPT !.url = merchant.url \/ url])
    BY <1>5 DEF UpdateMerchant
  <2>2. merchant.url \/ url \in BOOLEAN
    OBVIOUS
  <2>3. \A b \in BOOLEAN : [merchant EXCEPT !.url = b] \in MerchantRow
    BY <1>0 DEF MerchantRow
  <2>4. [merchant EXCEPT !.url = merchant.url \/ url] \in MerchantRow
    BY <2>3, (merchant.url \/ url) \in BOOLEAN
  <2> QED
    BY <1>5, <2>1, <2>4 DEF UpdateMerchant
<1> QED
  BY <1>1, <1>2, <1>3, <1>4, <1>5 DEF WritesMerchant

LEMMA NextTyped == TypeOK /\ [Next]_vars => TypeOK'
<1> SUFFICES ASSUME TypeOK, [Next]_vars PROVE TypeOK'
  OBVIOUS
<1> DEFINE Parts == /\ admin \in [Admins -> AdminRow] /\ session \in [Admins -> 0..Gone]
                    /\ merchant \in MerchantRow /\ off \in [Keys -> 0..(RequestTimeout + 1)]
                    /\ req \in [Requests -> Request]
<1>p. Parts /\ (Parts' => TypeOK')
  BY DEF TypeOK, AdminRow, MerchantRow, Request
<1>1. CASE UNCHANGED vars
  BY <1>p, <1>1 DEF vars
<1>2. ASSUME NEW r \in Requests, Arrives(r) PROVE Parts'
  <2>1. UNCHANGED <<admin, session, merchant, off>>
    BY <1>2 DEF Arrives, AdminJWTAuth, APIKeyAuth, WebhookIPAllowlist, Login, RefreshToken
  <2>2. PICK pc \in {"handling", "issuing"}, o \in Ops, who \in Admins \cup Keys \cup {Nobody} :
          Arrive(r, pc, o, who)
    BY <1>2 DEF Arrives, AdminJWTAuth, APIKeyAuth, WebhookIPAllowlist, Login, RefreshToken,
               Ops, Public
  <2> QED
    BY <1>p, <2>1, <2>2, ArriveTyped
<1>3. ASSUME NEW r \in Requests, IssueTokens(r) PROVE Parts'
  <2>1. req' \in [Requests -> Request]
    BY <1>3, LeaveTyped DEF IssueTokens
  <2>2. session' \in [Admins -> 0..Gone]
    <3>1. 0 \in 0..Gone
      BY Bounds
    <3>2. PICK w : session' = [session EXCEPT ![w] = 0]
      BY <1>3 DEF IssueTokens
    <3> QED
      BY <1>p, <3>1, <3>2
  <2>3. admin' \in [Admins -> AdminRow]
    <3>1. PICK w, n : /\ admin' = [admin EXCEPT ![w].since = n]
                     /\ n \in {0, admin[w].since}
      BY <1>3 DEF IssueTokens
    <3>2. ASSUME w \in Admins PROVE [admin[w] EXCEPT !.since = n] \in AdminRow
      <4>1. admin[w] \in AdminRow /\ n \in 0..(PowerEnd + 1)
        BY <1>p, <3>1, <3>2, Bounds DEF AdminRow
      <4> QED
        BY <4>1 DEF AdminRow
    <3> QED
      BY <1>p, <3>1, <3>2
  <2> QED
    BY <1>p, <1>3, <2>1, <2>2, <2>3 DEF IssueTokens
<1>4. ASSUME NEW r \in Requests, WritesAdmins(r) PROVE Parts'
  <2>1. Done(r) /\ UNCHANGED <<session, merchant, off>>
    BY <1>4 DEF WritesAdmins, CreateAdmin, DeactivateAdmin
  <2>2. admin' \in [Admins -> AdminRow]
    <3>1. CASE CreateAdmin(r)
      <4>1. PICK a \in Admins, role \in Roles : admin' = [admin EXCEPT ![a] = Active(role)]
        BY <3>1 DEF CreateAdmin, InsertAdmin
      <4>2. Active(role) \in AdminRow
        BY Bounds DEF Active, AdminRow
      <4> QED
        BY <1>p, <4>1, <4>2
    <3>2. CASE DeactivateAdmin(r)
      <4>1. PICK a \in Admins : admin' = admin \/ admin' = [admin EXCEPT ![a].st = "inactive"]
        BY <3>2 DEF DeactivateAdmin, UpdateAdmin
      <4>2. [admin[a] EXCEPT !.st = "inactive"] \in AdminRow
        BY <1>p DEF AdminRow
      <4> QED
        BY <1>p, <4>1, <4>2
    <3> QED
      BY <1>4, <3>1, <3>2 DEF WritesAdmins
  <2> QED
    BY <1>p, <2>1, <2>2, LeaveTyped
<1>5. ASSUME NEW r \in Requests, WritesMerchant(r) PROVE Parts'
  <2>1. PICK m \in MerchantRow : Write(m)
    BY <1>5, MerchantStep
  <2>2. merchant' \in MerchantRow /\ off' \in [Keys -> 0..(RequestTimeout + 1)]
    BY <1>p, <2>1, Bounds DEF Write
  <2> QED
    BY <1>p, <1>5, <2>2, MerchantStep, LeaveTyped
<1>6. ASSUME NEW r \in Requests, WritesElsewhere(r) PROVE Parts'
  BY <1>p, <1>6, LeaveTyped DEF WritesElsewhere
<1>7. CASE Tick
  <2>1. admin' \in [Admins -> AdminRow]
    <3>1. ASSUME NEW a \in Admins
          PROVE  [admin[a] EXCEPT !.since = Older(admin[a].since, PowerEnd + 1)] \in AdminRow
      <4>1. admin[a] \in AdminRow /\ admin[a].since \in 0..(PowerEnd + 1)
        BY <1>p DEF AdminRow
      <4>2. Older(admin[a].since, PowerEnd + 1) \in 0..(PowerEnd + 1)
        <5>1. PowerEnd + 1 \in Nat
          BY Bounds
        <5> QED
          BY <4>1, <5>1, OlderInBound
      <4> QED
        BY <4>1, <4>2 DEF AdminRow
    <3> QED
      BY <1>p, <1>7, <3>1 DEF Tick
  <2>2. session' \in [Admins -> 0..Gone]
    <3>1. \A a \in Admins : Older(session[a], Gone) \in 0..Gone
      BY <1>p, Bounds, OlderInBound
    <3> QED
      BY <1>7, <3>1 DEF Tick
  <2>3. off' \in [Keys -> 0..(RequestTimeout + 1)]
    <3>1. \A k \in Keys : Older(off[k], RequestTimeout + 1) \in 0..(RequestTimeout + 1)
      BY <1>p, Bounds, OlderInBound
    <3> QED
      BY <1>7, <3>1, Bounds DEF Tick
  <2>4. req' \in [Requests -> Request]
    <3>1. ASSUME NEW r \in Requests, Busy(r)
          PROVE  [req[r] EXCEPT !.age = Older(req[r].age, RequestTimeout + 1)] \in Request
      <4>1. req[r] \in Request /\ req[r].age \in 0..(RequestTimeout + 1)
        BY <1>p DEF Request
      <4>2. Older(req[r].age, RequestTimeout + 1) \in 0..(RequestTimeout + 1)
        <5>1. RequestTimeout + 1 \in Nat
          BY Bounds
        <5> QED
          BY <4>1, <5>1, OlderInBound
      <4> QED
        BY <4>1, <4>2 DEF Request
    <3> QED
      BY <1>p, <1>7, <3>1 DEF Tick
  <2> QED
    BY <1>p, <1>7, <2>1, <2>2, <2>3, <2>4 DEF Tick
<1> QED
  BY <1>p, <1>1, <1>2, <1>3, <1>4, <1>5, <1>6, <1>7, Kinds

(* The rows and the ages keep their types and bounds (router.go:41-178).   *)
THEOREM TypeCorrect == Spec => []TypeOK
BY InitTyped, NextTyped, PTL DEF Spec

-----------------------------------------------------------------------------
(* Ages                                                                    *)

(* Who is not deactivated has not been so for any time; a key that is good *)
(* has not stopped being so; the tokens of an admin that was deactivated   *)
(* are as old as that, a request aside.                                    *)
RowsAge ==
    /\ \A a \in Admins : /\ admin[a].st # "inactive" => admin[a].since = 0
                         /\ admin[a].st = "absent" => admin[a].role = "none"
                         /\ session[a] <= AccessTTL =>
                              admin[a].since <= session[a] + RequestTimeout
    /\ \A k \in Keys : Good(merchant, k) => off[k] = 0

(* A request whose context has not ended is as old as the end of the power *)
(* it was let in with, the life of a token aside.                          *)
Permitted(r) ==
    /\ req[r].pc = "issuing" =>
          /\ req[r].who \in Admins
          /\ ~Overdue(r) => admin[req[r].who].since <= req[r].age
    /\ req[r].pc = "handling" /\ req[r].who \in Admins /\ ~Overdue(r) =>
          admin[req[r].who].since <= req[r].age + AccessTTL + RequestTimeout
    /\ req[r].pc = "handling" /\ req[r].who \in Keys /\ ~Overdue(r) =>
          off[req[r].who] <= req[r].age
    /\ req[r].pc = "handling" /\ req[r].op = "DeactivateAdmin" =>
          req[r].who \in Admins /\ admin[req[r].who].role = "super_admin"

Timed == TypeOK /\ RowsAge /\ \A r \in Requests : Permitted(r)

(* What TypeOK says of one admin, key and request.                         *)
LEMMA Typing ==
    ASSUME TypeOK
    PROVE  /\ \A a \in Admins : admin[a] \in AdminRow /\ admin[a].since \in Nat /\ session[a] \in Nat
           /\ \A k \in Keys : off[k] \in Nat
           /\ \A r \in Requests : req[r] \in Request /\ req[r].age \in Nat
<1>1. \A n : \A m \in Nat : n \in 0..m => n \in Nat
  OBVIOUS
<1> QED
  BY <1>1, Bounds DEF TypeOK, AdminRow, Request

LEMMA TypingNext ==
    ASSUME TypeOK'
    PROVE  /\ \A a \in Admins : admin'[a] \in AdminRow /\ admin'[a].since \in Nat /\ session'[a] \in Nat
           /\ \A k \in Keys : off'[k] \in Nat
           /\ \A r \in Requests : req'[r] \in Request /\ req'[r].age \in Nat
<1>1. \A n : \A m \in Nat : n \in 0..m => n \in Nat
  OBVIOUS
<1> QED
  BY <1>1, Bounds DEF TypeOK, AdminRow, Request

LEMMA InitTimed == Init => Timed
<1> SUFFICES ASSUME Init PROVE RowsAge /\ \A r \in Requests : Permitted(r)
  BY InitTyped DEF Timed
<1>1. \A a \in Admins : /\ admin[a].since = 0
                        /\ admin[a].st = "absent" => admin[a].role = "none"
                        /\ session[a] = Gone
  BY DEF Init, Absent, Active
<1>2. \A k \in Keys : ~Good(merchant, k)
  BY DEF Init, NoMerchant, Good, CanTransact
<1> QED
  BY <1>1, <1>2, Bounds DEF Init, RowsAge, Permitted, Overdue, Idle

(* A step that makes nobody older leaves the permits of the others.        *)
LEMMA OthersPermitted ==
    ASSUME Timed, TypeOK', NEW r \in Requests, req'[r] = req[r],
           \A a \in Admins : /\ admin'[a].since <= admin[a].since
                             /\ admin[a].role = "super_admin" => admin'[a].role = "super_admin",
           \A k \in Keys : off'[k] <= off[k]
    PROVE  Permitted(r)'
<1>1. Permitted(r) /\ req[r].age \in Nat
  BY Typing DEF Timed
<1>2. /\ \A a \in Admins : admin[a].since \in Nat /\ admin'[a].since \in Nat
      /\ \A k \in Keys : off[k] \in Nat /\ off'[k] \in Nat
  BY Typing, TypingNext DEF Timed
<1>3. ASSUME NEW a \in Admins, NEW n \in Nat, admin[a].since <= n PROVE admin'[a].since <= n
  BY <1>2, <1>3
<1>4. ASSUME NEW k \in Keys, off[k] <= req[r].age PROVE off'[k] <= req[r].age
  BY <1>1, <1>2, <1>4
<1>5. req[r].age + AccessTTL + RequestTimeout \in Nat
  BY <1>1, Bounds
<1> QED
  BY <1>1, <1>3, <1>4, <1>5 DEF Permitted, Overdue

(* A request is let in.                                                    *)
LEMMA ArrivesTimed ==
    ASSUME Timed, TypeOK', NEW r \in Requests, Arrives(r)
    PROVE  Timed'
<1> USE DEF Timed
<1>1. UNCHANGED <<admin, session, merchant, off>>
  BY DEF Arrives, AdminJWTAuth, APIKeyAuth, WebhookIPAllowlist, Login, RefreshToken
<1>2. RowsAge'
  BY <1>1 DEF RowsAge, Good, CanTransact
<1>3. ASSUME NEW q \in Requests \ {r}, req'[q] = req[q] PROVE Permitted(q)'
  <2>1. \A a \in Admins : admin'[a].since <= admin[a].since
    BY <1>1, Typing
  <2>2. \A k \in Keys : off'[k] <= off[k]
    BY <1>1, Typing
  <2> QED
    BY <1>1, <1>3, <2>1, <2>2, OthersPermitted
<1>4. CASE AdminJWTAuth(r)
  <2>1. PICK a \in Admins, o \in Does[r] \ (Public \cup MerchantOps) :
          /\ VerifyAccess(a) /\ admin[a].role \in Allowed(o)
          /\ Arrive(r, "handling", o, a)
    BY <1>4 DEF AdminJWTAuth
  <2>2. o \in Ops
    BY DEF Ops
  <2>3. /\ req'[r].pc = "handling" /\ req'[r].op = o /\ req'[r].who = a /\ req'[r].age = 0
        /\ \A q \in Requests \ {r} : req'[q] = req[q]
    BY <2>1, <2>2, ArriveTyped
  <2>4. a \notin Keys
    BY AccessAssumption
  <2>5. admin[a].since <= 0 + AccessTTL + RequestTimeout
    BY <2>1, Typing, Bounds DEF VerifyAccess, RowsAge
  <2>6. o = "DeactivateAdmin" => admin[a].role = "super_admin"
    BY <2>1 DEF Allowed, Roles, ForSupers
  <2>7. Permitted(r)'
    BY <1>1, <2>3, <2>4, <2>5, <2>6 DEF Permitted, Overdue
  <2> QED
    BY <1>2, <1>3, <2>3, <2>7
<1>5. CASE APIKeyAuth(r)
  <2>1. PICK k \in Keys, o \in Does[r] \cap MerchantOps :
          Good(merchant, k) /\ Arrive(r, "handling", o, k)
    BY <1>5 DEF APIKeyAuth
  <2>2. o \in Ops /\ o # "DeactivateAdmin"
    BY DEF Ops, MerchantOps
  <2>3. /\ req'[r].pc = "handling" /\ req'[r].op = o /\ req'[r].who = k /\ req'[r].age = 0
        /\ \A q \in Requests \ {r} : req'[q] = req[q]
    BY <2>1, <2>2, ArriveTyped
  <2>4. k \notin Admins /\ off[k] = 0
    BY <2>1, AccessAssumption DEF RowsAge
  <2>5. Permitted(r)'
    BY <1>1, <2>2, <2>3, <2>4 DEF Permitted, Overdue
  <2> QED
    BY <1>2, <1>3, <2>3, <2>5
<1>6. CASE WebhookIPAllowlist(r)
  <2>1. /\ req'[r].pc = "handling" /\ req'[r].op = "Notify" /\ req'[r].who = Nobody
        /\ \A q \in Requests \ {r} : req'[q] = req[q]
    BY <1>6, ArriveTyped DEF WebhookIPAllowlist, Ops, Public
  <2>2. Permitted(r)'
    BY <2>1, AccessAssumption DEF Permitted, Overdue
  <2> QED
    BY <1>2, <1>3, <2>1, <2>2
<1>7. CASE Login(r) \/ RefreshToken(r)
  <2>1. PICK a \in Admins, o \in {"Login", "RefreshToken"} :
          IsActive(a) /\ Arrive(r, "issuing", o, a)
    BY <1>7 DEF Login, RefreshToken
  <2>2. /\ req'[r].pc = "issuing" /\ req'[r].who = a /\ req'[r].age = 0
        /\ \A q \in Requests \ {r} : req'[q] = req[q]
    BY <2>1, ArriveTyped DEF Ops, Public
  <2>3. admin[a].since = 0
    BY <2>1 DEF IsActive, RowsAge
  <2>4. Permitted(r)'
    BY <1>1, <2>2, <2>3 DEF Permitted, Overdue
  <2> QED
    BY <1>2, <1>3, <2>2, <2>4
<1> QED
  BY <1>4, <1>5, <1>6, <1>7 DEF Arrives

(* A request leaves without a trace in the rows and ages.                  *)
LEMMA LeavesPermitted ==
    ASSUME Timed, TypeOK', NEW r \in Requests, Done(r) \/ req' = [req EXCEPT ![r] = Idle],
           \A a \in Admins : /\ admin'[a].since <= admin[a].since
                             /\ admin[a].role = "super_admin" => admin'[a].role = "super_admin",
           \A k \in Keys : off'[k] <= off[k]
    PROVE  \A q \in Requests : Permitted(q)'
<1>1. req'[r].pc \in {"idle", "done"} /\ \A q \in Requests \ {r} : req'[q] = req[q]
  BY LeaveTyped DEF Timed
<1>2. Permitted(r)'
  BY <1>1 DEF Permitted
<1>3. \A q \in Requests \ {r} : Permitted(q)'
  BY <1>1, OthersPermitted
<1> QED
  BY <1>2, <1>3

(* An overdue request sets the time since its admin's deactivation back.   *)
LEMMA IssueTimed ==
    ASSUME Timed, TypeOK', NEW r \in Requests, IssueTokens(r)
    PROVE  Timed'
<1> USE DEF Timed
<1> DEFINE w == req[r].who
<1>1. UNCHANGED <<merchant, off>> /\ req' = [req EXCEPT ![r] = Idle]
  BY DEF IssueTokens
<1>2. w \in Admins /\ (~Overdue(r) => admin[w].since <= req[r].age)
  BY DEF IssueTokens, Permitted
<1>3. PICK n : /\ admin' = [admin EXCEPT ![w].since = n]
               /\ n = IF Overdue(r) THEN 0 ELSE admin[w].since
  BY DEF IssueTokens
<1>4. n \in Nat /\ n <= admin[w].since /\ n <= RequestTimeout
  <2>1. admin[w].since \in Nat /\ req[r].age \in Nat
    BY <1>2, Typing
  <2>2. CASE Overdue(r)
    BY <1>3, <2>1, <2>2, Bounds
  <2>3. CASE ~Overdue(r)
    BY <1>2, <1>3, <2>1, <2>3, Bounds DEF Overdue
  <2> QED
    BY <2>2, <2>3
<1>5. /\ \A a \in Admins : session'[a] = IF a = w THEN 0 ELSE session[a]
      /\ \A a \in Admins : a # w => admin'[a] = admin[a]
      /\ \A a \in Admins : admin'[a].st = admin[a].st /\ admin'[a].role = admin[a].role
      /\ admin'[w].since = n
  <2>1. admin[w] \in AdminRow
    BY <1>2, Typing
  <2>2. admin'[w] = [admin[w] EXCEPT !.since = n]
    BY <1>2, <1>3 DEF TypeOK
  <2>3. admin'[w].st = admin[w].st /\ admin'[w].role = admin[w].role /\ admin'[w].since = n
    BY <2>1, <2>2 DEF AdminRow
  <2>4. \A a \in Admins : a # w => admin'[a] = admin[a]
    BY <1>3 DEF TypeOK
  <2>5. \A a \in Admins : session'[a] = IF a = w THEN 0 ELSE session[a]
    BY DEF IssueTokens, TypeOK
  <2> QED
    BY <2>3, <2>4, <2>5
<1> HIDE DEF w
<1>6. \A q \in Requests : Permitted(q)'
  <2>1. \A a \in Admins : admin'[a].since <= admin[a].since
    BY <1>4, <1>5, Typing
  <2>2. \A k \in Keys : off'[k] <= off[k]
    BY <1>1, Typing
  <2> QED
    BY <1>1, <1>5, <2>1, <2>2, LeavesPermitted
<1>7. RowsAge'
  <2>1. ASSUME NEW a \in Admins, admin'[a].st # "inactive" PROVE admin'[a].since = 0
    <3>1. admin[a].since = 0
      BY <1>5, <2>1 DEF RowsAge
    <3> QED
      BY <1>4, <1>5, <3>1
  <2>2. ASSUME NEW a \in Admins, session'[a] <= AccessTTL
        PROVE  admin'[a].since <= session'[a] + RequestTimeout
    <3>1. CASE a = w
      BY <1>4, <1>5, <3>1, Bounds
    <3>2. CASE a # w
      BY <1>5, <2>2, <3>2 DEF RowsAge
    <3> QED
      BY <3>1, <3>2
  <2>3. \A k \in Keys : Good(merchant, k)' => off'[k] = 0
    BY <1>1 DEF RowsAge, Good, CanTransact
  <2> QED
    BY <1>5, <2>1, <2>2, <2>3 DEF RowsAge
<1> QED
  BY <1>6, <1>7

LEMMA AdminsTimed ==
    ASSUME Timed, TypeOK', NEW r \in Requests, WritesAdmins(r)
    PROVE  Timed'
<1> USE DEF Timed
<1>1. Done(r) /\ UNCHANGED <<session, merchant, off>>
  BY DEF WritesAdmins, CreateAdmin, DeactivateAdmin
<1>2. ASSUME NEW a \in Admins
      PROVE  /\ admin'[a].since = admin[a].since
             /\ admin[a].st # "absent" => admin'[a].role = admin[a].role
             /\ admin'[a].st = "absent" => admin[a].st = "absent" /\ admin'[a].role = admin[a].role
             /\ admin'[a].st # "inactive" => admin'[a].since = 0
  <2>1. admin[a] \in AdminRow /\ (admin[a].st # "inactive" => admin[a].since = 0)
    BY Typing DEF RowsAge
  <2>2. CASE admin'[a] = admin[a]
    BY <2>1, <2>2
  <2>3. ASSUME NEW role \in Roles, admin[a] = Absent, admin'[a] = Active(role)
        PROVE  /\ admin'[a].since = admin[a].since /\ admin[a].st = "absent"
               /\ admin'[a].st = "active" /\ admin'[a].since = 0
    BY <2>3 DEF Absent, Active
  <2>4. CASE admin'[a] = [admin[a] EXCEPT !.st = "inactive"]
    BY <2>1, <2>4 DEF AdminRow
  <2>5. \/ admin'[a] = admin[a]
        \/ \E role \in Roles : admin[a] = Absent /\ admin'[a] = Active(role)
        \/ admin'[a] = [admin[a] EXCEPT !.st = "inactive"]
    BY DEF WritesAdmins, CreateAdmin, InsertAdmin, DeactivateAdmin, UpdateAdmin, TypeOK
  <2> QED
    BY <2>2, <2>3, <2>4, <2>5
<1>3. \A a \in Admins : admin[a].role = "super_admin" => admin'[a].role = "super_admin"
  BY <1>2 DEF RowsAge
<1>4. \A q \in Requests : Permitted(q)'
  <2>1. \A a \in Admins : admin'[a].since <= admin[a].since
    BY <1>2, Typing
  <2>2. \A k \in Keys : off'[k] <= off[k]
    BY <1>1, Typing
  <2> QED
    BY <1>1, <1>3, <2>1, <2>2, LeavesPermitted
<1>5. RowsAge'
  BY <1>1, <1>2 DEF RowsAge, Good, CanTransact
<1> QED
  BY <1>4, <1>5

LEMMA MerchantTimed ==
    ASSUME Timed, TypeOK', NEW r \in Requests, WritesMerchant(r)
    PROVE  Timed'
<1> USE DEF Timed
<1>1. Done(r) /\ UNCHANGED <<admin, session>>
  BY MerchantStep
<1>2. PICK m : Write(m)
  BY MerchantStep
<1>3. \A k \in Keys : off'[k] = IF Good(merchant, k) \/ Good(merchant', k) THEN 0 ELSE off[k]
  BY <1>2 DEF Write
<1>4. \A q \in Requests : Permitted(q)'
  <2>1. \A a \in Admins : admin'[a].since <= admin[a].since
    BY <1>1, Typing
  <2>2. \A k \in Keys : off'[k] <= off[k]
    BY <1>3, Typing
  <2> QED
    BY <1>1, <2>1, <2>2, LeavesPermitted
<1>5. \A k \in Keys : Good(merchant, k)' => off'[k] = 0
  BY <1>3 DEF Good, CanTransact
<1>6. RowsAge'
  BY <1>1, <1>5 DEF RowsAge
<1> QED
  BY <1>4, <1>6

LEMMA ElsewhereTimed ==
    ASSUME Timed, TypeOK', NEW r \in Requests, WritesElsewhere(r)
    PROVE  Timed'
<1> USE DEF Timed
<1>1. UNCHANGED <<admin, session, merchant, off>>
  BY DEF WritesElsewhere
<1>2. \A q \in Requests : Permitted(q)'
  <2>1. \A a \in Admins : admin'[a].since <= admin[a].since
    BY <1>1, Typing
  <2>2. \A k \in Keys : off'[k] <= off[k]
    BY <1>1, Typing
  <2> QED
    BY <1>1, <2>1, <2>2, LeavesPermitted DEF WritesElsewhere
<1>3. RowsAge'
  BY <1>1 DEF RowsAge, Good, CanTransact
<1> QED
  BY <1>2, <1>3

(* Time passes: what grows older grows by one, and so does every request   *)
(* that is under way.                                                      *)
LEMMA TickTimed ==
    ASSUME Timed, TypeOK', Tick
    PROVE  Timed'
<1> USE DEF Timed
<1>1. ASSUME NEW a \in Admins
      PROVE  /\ admin'[a].st = admin[a].st /\ admin'[a].role = admin[a].role
             /\ admin'[a].since \in Nat /\ admin'[a].since <= admin[a].since + 1
             /\ admin[a].st # "inactive" => admin'[a].since = admin[a].since
  <2>1. admin[a] \in AdminRow /\ admin[a].since \in 0..(PowerEnd + 1)
    BY Typing DEF AdminRow
  <2>2. /\ Older(admin[a].since, PowerEnd + 1) \in Nat
        /\ Older(admin[a].since, PowerEnd + 1) <= admin[a].since + 1
    BY <2>1, Bounds DEF Older
  <2>3. CASE admin[a].st = "inactive"
    <3>1. admin'[a] = [admin[a] EXCEPT !.since = Older(admin[a].since, PowerEnd + 1)]
      BY <2>3 DEF Tick
    <3> QED
      BY <2>1, <2>2, <2>3, <3>1 DEF AdminRow
  <2>4. CASE admin[a].st # "inactive"
    <3>1. admin'[a] = admin[a]
      BY <2>4 DEF Tick
    <3> QED
      BY <2>1, <2>4, <3>1, Bounds
  <2> QED
    BY <2>3, <2>4
<1>2. ASSUME NEW a \in Admins, session'[a] <= AccessTTL
      PROVE  session'[a] = session[a] + 1 /\ session[a] <= AccessTTL
  <2>1. session[a] \in 0..Gone /\ session'[a] = Older(session[a], Gone)
    BY DEF Tick, TypeOK
  <2> QED
    BY <1>2, <2>1, Bounds DEF Older
<1>3. \A k \in Keys : off'[k] \in Nat /\ off'[k] <= off[k] + 1
  BY Typing, Bounds DEF Tick, Older, TypeOK
<1>4. RowsAge'
  <2>1. \A k \in Keys : Good(merchant, k)' => off'[k] = 0
    BY DEF Tick, Good, CanTransact
  <2>2. ASSUME NEW a \in Admins, session'[a] <= AccessTTL
        PROVE  admin'[a].since <= session'[a] + RequestTimeout
    <3>1. admin[a].since <= session[a] + RequestTimeout
      BY <1>2, <2>2 DEF RowsAge
    <3>2. admin[a].since \in Nat /\ session[a] \in Nat
      BY Typing
    <3> QED
      BY <1>1, <1>2, <2>2, <3>1, <3>2, Bounds
  <2> QED
    BY <1>1, <2>1, <2>2 DEF RowsAge
<1>5. ASSUME NEW r \in Requests PROVE Permitted(r)'
  <2>0. req[r] \in Request /\ req[r].age \in Nat /\ Permitted(r)
    BY Typing
  <2>1. CASE Busy(r)
    <3>1. req'[r] = [req[r] EXCEPT !.age = Older(req[r].age, RequestTimeout + 1)]
      BY <2>1 DEF Tick
    <3>2. /\ req'[r].pc = req[r].pc /\ req'[r].op = req[r].op /\ req'[r].who = req[r].who
          /\ req'[r].age = Older(req[r].age, RequestTimeout + 1)
      BY <2>0, <3>1 DEF Request
    <3>3. Overdue(r)' \/ (~Overdue(r) /\ req'[r].age = req[r].age + 1)
      <4>1. req[r].age \in 0..(RequestTimeout + 1)
        BY <2>0 DEF Request
      <4> QED
        BY <3>2, <4>1, Bounds DEF Overdue, Older
    <3>4. CASE Overdue(r)'
      BY <1>1, <2>0, <3>2, <3>4 DEF Permitted
    <3>5. CASE ~Overdue(r) /\ req'[r].age = req[r].age + 1
      <4>1. ASSUME NEW k \in Keys, off[k] <= req[r].age PROVE off'[k] <= req'[r].age
        BY <1>3, <2>0, <3>5, <4>1, Typing
      <4>2. ASSUME NEW a \in Admins, admin[a].since <= req[r].age
            PROVE  admin'[a].since <= req'[r].age
        BY <1>1, <2>0, <3>5, <4>2, Typing
      <4>3. ASSUME NEW a \in Admins,
                   admin[a].since <= req[r].age + AccessTTL + RequestTimeout
            PROVE  admin'[a].since <= req'[r].age + AccessTTL + RequestTimeout
        BY <1>1, <2>0, <3>5, <4>3, Typing, Bounds
      <4>4. req'[r].pc = "handling" /\ req'[r].op = "DeactivateAdmin" =>
              req'[r].who \in Admins /\ admin'[req'[r].who].role = "super_admin"
        BY <1>1, <2>0, <3>2 DEF Permitted
      <4> QED
        BY <2>0, <3>2, <3>5, <4>1, <4>2, <4>3, <4>4 DEF Permitted
    <3> QED
      BY <3>3, <3>4, <3>5
  <2>2. CASE ~Busy(r)
    <3>1. req'[r] = req[r]
      BY <2>2 DEF Tick
    <3> QED
      BY <2>2, <3>1 DEF Busy, Permitted
  <2> QED
    BY <2>1, <2>2
<1> QED
  BY <1>4, <1>5

LEMMA NextTimed == Timed /\ [Next]_vars => Timed'
<1> SUFFICES ASSUME Timed, [Next]_vars PROVE Timed'
  OBVIOUS
<1>1. TypeOK'
  BY NextTyped DEF Timed
<1>2. CASE UNCHANGED vars
  BY <1>1, <1>2 DEF Timed, RowsAge, Good, CanTransact, Permitted, Overdue, vars
<1>3. CASE Next
  BY <1>1, <1>3, Kinds, ArrivesTimed, IssueTimed, AdminsTimed, MerchantTimed, ElsewhereTimed,
     TickTimed
<1> QED
  BY <1>2, <1>3

LEMMA AlwaysTimed == Spec => []Timed
BY InitTimed, NextTimed, PTL DEF Spec

-----------------------------------------------------------------------------
(* The properties                                                          *)

(* What takes effect does so before its context ends.                      *)
LEMMA HandledInTime ==
    ASSUME Timed, [Next]_vars, NEW r \in Requests, TakesEffect(r)
    PROVE  ~Overdue(r)
<1>0. req[r].pc = "handling" /\ req'[r].pc = "done"
  BY DEF TakesEffect
<1>1. ASSUME NEW q \in Requests, \E ops : Handles(q, ops), Done(q) PROVE ~Overdue(r)
  <2>1. CASE q = r
    BY <1>1, <2>1 DEF Handles
  <2>2. CASE q # r
    BY <1>0, <1>1, <2>2, LeaveTyped DEF Timed
  <2> QED
    BY <2>1, <2>2
<1>2. ASSUME NEW q \in Requests, Arrives(q) \/ IssueTokens(q) \/ Fail(q) PROVE FALSE
  <2>1. PICK i : i.pc # "done" /\ req' = [req EXCEPT ![q] = i]
    BY <1>2 DEF Arrives, AdminJWTAuth, APIKeyAuth, WebhookIPAllowlist, Login, RefreshToken,
                Arrive, IssueTokens, Fail, Idle
  <2> QED
    BY <1>0, <2>1 DEF Timed, TypeOK
<1>3. CASE Tick
  <2>1. req[r] \in Request
    BY Typing DEF Timed
  <2>2. req'[r].pc = req[r].pc
    BY <1>0, <1>3, <2>1 DEF Tick, Busy, Request
  <2> QED
    BY <1>0, <2>2
<1>4. CASE UNCHANGED vars
  BY <1>0, <1>4 DEF vars
<1> QED
  BY <1>1, <1>2, <1>3, <1>4
  DEF Next, Arrives, CreateAdmin, DeactivateAdmin, CreateMerchant, SetStatus, DeleteMerchant,
      RegenerateAPIKey, UpdateMerchant, Self, MerchantTerms, BankAccounts, OwnAccounts,
      ProviderBalances, FeeManagement, Holidays, LookAtMerchant, LookAtPayment,
      LookAtDisbursement, SeeOwn, SeePayment, SeeDisbursement, SeeMutation, Pay, CancelPayment,
      CashOut, HandleWebhook, Elsewhere

(* An admin can do nothing any more once its access tokens must have ended *)
(* (admin.go:73-109, admin_auth.go:21-41).                                 *)
THEOREM AdminPowerEnds == Spec => PowerEnds
<1>1. ASSUME Timed, NEW r \in Requests, req[r].pc = "handling", ~Overdue(r),
             req[r].who \in Admins
      PROVE  admin[req[r].who].since <= PowerEnd
  <2>1. admin[req[r].who].since <= req[r].age + AccessTTL + RequestTimeout
    BY <1>1 DEF Timed, Permitted
  <2>2. req[r].age \in Nat /\ req[r].age <= RequestTimeout /\ admin[req[r].who].since \in Nat
    BY <1>1, Typing, Bounds DEF Timed, Overdue
  <2> QED
    BY <2>1, <2>2, Bounds
<1>2. Timed /\ [Next]_vars => \A r \in Requests : TakesEffect(r) /\ req[r].who \in Admins =>
                                      admin[req[r].who].since <= PowerEnd
  BY <1>1, HandledInTime DEF TakesEffect
<1> QED
  BY <1>2, AlwaysTimed, PTL DEF Spec, PowerEnds

(* Nothing takes effect under a key for longer than one request after the  *)
(* key was replaced or its merchant left "active" (auth.go:34-57).         *)
THEOREM MerchantPowerEnds == Spec => KeyPowerEnds
<1>1. ASSUME Timed, NEW r \in Requests, req[r].pc = "handling", ~Overdue(r),
             req[r].who \in Keys
      PROVE  off[req[r].who] <= RequestTimeout
  <2>1. off[req[r].who] <= req[r].age
    BY <1>1 DEF Timed, Permitted
  <2>2. req[r].age \in Nat /\ req[r].age <= RequestTimeout /\ off[req[r].who] \in Nat
    BY <1>1, Typing, Bounds DEF Timed, Overdue
  <2> QED
    BY <2>1, <2>2, Bounds
<1>2. Timed /\ [Next]_vars => \A r \in Requests : TakesEffect(r) /\ req[r].who \in Keys =>
                                      off[req[r].who] <= RequestTimeout
  BY <1>1, HandledInTime DEF TakesEffect
<1> QED
  BY <1>2, AlwaysTimed, PTL DEF Spec, KeyPowerEnds

(* The last active super admin falls only to one that is no longer active  *)
(* itself (admin.go:387-397).                                              *)
THEOREM LastFallsToInactive == Spec => LastSuperAdminFalls
<1> DEFINE Falls == ActiveSupers # {} /\ ActiveSupers' = {}
           Cause(r) == /\ TakesEffect(r) /\ req[r].who \in Admins
                       /\ admin[req[r].who].st = "inactive"
<1>1. ASSUME Timed, [Next]_vars, Falls PROVE \E r \in Requests : Cause(r)
  <2>1. PICK b \in Admins : /\ admin[b].st = "active" /\ admin[b].role = "super_admin"
                            /\ ~(admin'[b].st = "active" /\ admin'[b].role = "super_admin")
    BY <1>1 DEF ActiveSupers, IsActive
  <2>2. PICK r \in Requests : DeactivateAdmin(r)
    <3>1. admin' # admin
      BY <2>1
    <3>2. ~Tick
      <4>1. admin[b] \in AdminRow
        BY <1>1, Typing DEF Timed
      <4> QED
        BY <2>1, <4>1 DEF Tick
    <3>3. ASSUME NEW r \in Requests, CreateAdmin(r) PROVE FALSE
      <4>1. PICK a \in Admins, role \in Roles :
              admin[a] = Absent /\ admin' = [admin EXCEPT ![a] = Active(role)]
        BY <3>3 DEF CreateAdmin, InsertAdmin
      <4>2. a # b
        BY <2>1, <4>1 DEF Absent
      <4>3. admin'[b] = admin[b]
        BY <1>1, <4>1, <4>2 DEF Timed, TypeOK
      <4> QED
        BY <2>1, <4>3
    <3>4. PICK r \in Requests : Arrives(r) \/ IssueTokens(r) \/ WritesAdmins(r)
                                \/ WritesMerchant(r) \/ WritesElsewhere(r)
      BY <1>1, <3>1, <3>2, Kinds DEF vars
    <3>5. ~WritesMerchant(r)
      BY <1>1, <3>1, MerchantStep DEF Timed
    <3>6. ~Arrives(r) /\ ~WritesElsewhere(r)
      BY <3>1 DEF Arrives, AdminJWTAuth, APIKeyAuth, WebhookIPAllowlist, Login, RefreshToken,
                  WritesElsewhere
    <3>7. ~IssueTokens(r)
      <4>1. SUFFICES ASSUME NEW w, NEW n, admin' = [admin EXCEPT ![w].since = n] PROVE FALSE
        BY DEF IssueTokens
      <4>2. admin[b] \in AdminRow /\ admin \in [Admins -> AdminRow]
        BY <1>1, Typing DEF Timed, TypeOK, AdminRow
      <4>3. admin'[b] = admin[b] \/ admin'[b] = [admin[b] EXCEPT !.since = n]
        BY <4>1, <4>2
      <4>4. admin'[b].st = admin[b].st /\ admin'[b].role = admin[b].role
        BY <4>2, <4>3 DEF AdminRow
      <4> QED
        BY <2>1, <4>4
    <3> QED
      BY <3>3, <3>4, <3>5, <3>6, <3>7 DEF WritesAdmins
  <2>3. req[r].who \in Admins /\ admin[req[r].who].role = "super_admin"
    BY <1>1, <2>2 DEF Timed, Permitted, DeactivateAdmin, Handles
  <2>4. admin'[req[r].who] = admin[req[r].who]
    <3>1. PICK a \in Admins : a # req[r].who /\ UpdateAdmin(a)
      BY <2>2 DEF DeactivateAdmin
    <3> QED
      BY <1>1, <2>3, <3>1 DEF UpdateAdmin, Timed, TypeOK
  <2>5. admin[req[r].who].st # "active"
    BY <1>1, <2>3, <2>4 DEF ActiveSupers, IsActive
  <2>6. admin[req[r].who].st = "inactive"
    <3>1. admin[req[r].who] \in AdminRow
      BY <1>1, <2>3, Typing DEF Timed
    <3>2. admin[req[r].who].st # "absent"
      BY <1>1, <2>3 DEF Timed, RowsAge
    <3> QED
      BY <2>5, <3>1, <3>2 DEF AdminRow
  <2>7. TakesEffect(r)
    <3>1. req[r].pc = "handling" /\ Done(r)
      BY <2>2 DEF DeactivateAdmin, Handles
    <3>2. [Idle EXCEPT !.pc = "done"].pc = "done"
      BY DEF Idle
    <3>3. req'[r] = [Idle EXCEPT !.pc = "done"]
      BY <1>1, <3>1 DEF Done, Timed, TypeOK
    <3> QED
      BY <3>1, <3>2, <3>3 DEF TakesEffect
  <2> QED
    BY <2>3, <2>6, <2>7
<1>2. Timed /\ [Next]_vars => (Falls => \E r \in Requests : Cause(r))
  BY <1>1
<1> QED
  BY <1>2, AlwaysTimed, PTL DEF LastSuperAdminFalls, Spec

-----------------------------------------------------------------------------
(* The lists: what every layer makes of a page and a limit                 *)

(* The use cases pass on a limit of at least one row, and announce one.    *)
LEMMA UseCasesPassOn ==
    ASSUME NEW list \in Lists, NEW limit \in Nat
    PROVE  /\ Listed(list, Ask(list, limit)).limit \in Nat \ {0}
           /\ Listed(list, Ask(list, limit)).per_page \in Nat \ {0}
<1>1. \A n \in Nat : Cap(n) \in Nat \ {0} /\ Floor(n) \in Nat \ {0}
  BY PagingAssumption DEF Cap, Floor
<1>2. Ask(list, limit) \in Nat \ {0} \/ (Ask(list, limit) = limit /\ list \in {"payments", "disbursements"})
  <2>1. \A n \in Nat : AskMutations(n) \in Nat \ {0}
    BY PagingAssumption DEF AskMutations
  <2> QED
    BY <1>1, <2>1, PagingAssumption
    DEF AllLists, Ask, AskPayments, AskDisbursements, AskWebhookEvents, AskMerchants,
        AskAllPayments, AskAllDisbursements, AskAllMutations, AskAdmins, AskHolidays
<1> DEFINE n == Ask(list, limit)
<1>3. n \in Nat /\ (n = 0 => list \in {"payments", "disbursements"})
  BY <1>2
<1> HIDE DEF n
<1>4. Listed(list, n).limit \in Nat \ {0} /\ Listed(list, n).per_page \in Nat \ {0}
  BY <1>1, <1>3, PagingAssumption
  DEF AllLists, Listed, Announce, ListPayments, ListDisbursements, ListMutations,
      ListWebhookEvents, ListMerchants, ListAllPayments, ListAllDisbursements,
      ListAllMutations, ListAdmins, ListHolidays
<1> QED BY <1>4 DEF n

(* Every layer's correction leaves a limit of at least one row.            *)
LEMMA LimitsArePositive ==
    ASSUME NEW list \in Lists, NEW limit \in Nat
    PROVE  /\ Limit(list, limit) \in Nat \ {0} /\ PerPage(list, limit) \in Nat \ {0}
           /\ OwnersOf(list) \subseteq Owners \cup {All}
           /\ Statement(list, limit).status \subseteq BOOLEAN
<1>1. \A n \in Nat : Cap(n) \in Nat \ {0} /\ Floor(n) \in Nat \ {0}
  BY PagingAssumption DEF Cap, Floor
<1>2. \A k \in Nat : /\ Repository(list, k).limit \in Nat \ {0}
                     /\ Repository(list, k).owners \subseteq Owners \cup {All}
                     /\ Repository(list, k).status \subseteq BOOLEAN
  BY <1>1, PagingAssumption
  DEF AllLists, Repository, Query, Anyone, PaymentRepoList, DisbursementRepoList,
      MutationRepoList, OutboxListByMerchant, MerchantRepoList, AdminRepoList,
      FeeRepoListHolidays
<1>3. Limit(list, limit) \in Nat \ {0} /\ PerPage(list, limit) \in Nat \ {0}
      /\ Statement(list, limit).status \subseteq BOOLEAN
  BY <1>2, UseCasesPassOn DEF Limit, Statement, PerPage
<1>4. OwnersOf(list) \subseteq Owners \cup {All}
  BY <1>2, UseCasesPassOn DEF OwnersOf, Statement
<1> QED BY <1>3, <1>4

(* The last page announced ends at or behind the last row counted, every   *)
(* other one before it.                                                    *)
LEMMA PagesCover ==
    ASSUME NEW total \in Nat, NEW per \in Nat \ {0}, NEW page \in Nat
    PROVE  /\ TotalPages(total, per) \in Nat /\ TotalPages(total, per) <= total
           /\ page >= TotalPages(total, per) => total <= page * per
           /\ page < TotalPages(total, per) => page * per < total
<1> DEFINE q == total \div per
<1> DEFINE r == total % per
<1>1. q \in Nat /\ r \in 0..(per - 1)
  BY SMT
<1>2. total = per * q + r
  BY SMT
<1>3. TotalPages(total, per) = IF r # 0 THEN q + 1 ELSE q
  BY <1>1 DEF TotalPages
<1> HIDE DEF q, r
<1>4. per * q >= q /\ per * q \in Nat
  BY <1>1
<1>5. TotalPages(total, per) \in Nat /\ TotalPages(total, per) <= total
  BY <1>1, <1>2, <1>3, <1>4
<1>6. ASSUME page >= TotalPages(total, per) PROVE total <= page * per
  <2>1. CASE r = 0
    <3>1. page >= q
      BY <1>3, <1>6, <2>1
    <3>2. page * per >= q * per
      BY <1>1, <3>1
    <3> QED BY <1>1, <1>2, <2>1, <3>2
  <2>2. CASE r # 0
    <3>1. page >= q + 1
      BY <1>3, <1>6, <2>2
    <3>2. page * per >= (q + 1) * per
      BY <1>1, <3>1
    <3> QED BY <1>1, <1>2, <3>2
  <2> QED BY <2>1, <2>2
<1>7. ASSUME page < TotalPages(total, per) PROVE page * per < total
  <2>1. CASE r = 0
    <3>1. page + 1 <= q
      BY <1>1, <1>3, <1>7, <2>1
    <3>2. (page + 1) * per <= q * per
      BY <1>1, <3>1
    <3> QED BY <1>1, <1>2, <2>1, <3>2
  <2>2. CASE r # 0
    <3>1. page <= q
      BY <1>1, <1>3, <1>7, <2>2
    <3>2. page * per <= q * per
      BY <1>1, <3>1
    <3> QED BY <1>1, <1>2, <2>2, <3>2
  <2> QED BY <2>1, <2>2
<1> QED BY <1>5, <1>6, <1>7

(* What fits in 32 bits survives the cut to them.                          *)
LEMMA Int32Fits ==
    ASSUME NEW n \in Nat, n < Half
    PROVE  Int32(n) = n
<1> DEFINE a == n + Half
<1> DEFINE b == 2 * Half
<1>1. a \in Nat /\ b \in Nat \ {0} /\ a < b /\ Half \in Nat
  BY PagingAssumption
<1>2. Int32(n) = (a % b) - Half
  BY DEF Int32
<1> HIDE DEF a, b
<1>3. a % b = a
  BY <1>1, SMT
<1>4. (a % b) - Half = n
  BY <1>1, <1>3 DEF a
<1> QED BY <1>2, <1>4

(* An offset within the table fits in 32 bits.                             *)
LEMMA OffsetsFit ==
    ASSUME NEW page \in Nat \ {0}, NEW limit \in Nat, (page - 1) * limit <= MaxRows
    PROVE  Offset(page, limit) = (page - 1) * limit
<1> DEFINE o == (page - 1) * limit
<1>1. o \in Nat /\ o < Half
  BY PagingAssumption
<1> HIDE DEF o
<1>2. Int32(o) = o
  BY <1>1, Int32Fits
<1> QED BY <1>2 DEF Offset, o

(* A list that sends as many rows as it announces was asked for a limit    *)
(* that the cut to 32 bits leaves alone.                                   *)
LEMMA EvenLimits ==
    ASSUME NEW list \in Lists, NEW limit \in Nat,
           PerPage(list, limit) = RowsSent(list, limit)
    PROVE  RowsSent(list, limit) = Limit(list, limit)
<1> DEFINE k == Listed(list, Ask(list, limit)).limit
<1>1. CASE list = "holidays"
  <2>1. \A n \in Nat : Floor(n) \in Nat /\ Floor(Floor(n)) = Floor(n)
    BY PagingAssumption DEF Floor
  <2>2. PerPage(list, limit) = Floor(limit) /\ Limit(list, limit) = Floor(Floor(limit))
    BY <1>1 DEF PerPage, Listed, Ask, AskHolidays, ListHolidays, Announce, Limit, Statement,
                Repository, FeeRepoListHolidays, Query
  <2> QED BY <2>1, <2>2
<1>2. CASE list # "holidays"
  <2>1. Limit(list, limit) = Cap(k)
    <3>1. Limit(list, limit) = Repository(list, k).limit
      BY DEF Limit, Statement
    <3> HIDE DEF k
    <3>2. Repository(list, k).limit = Cap(k)
      BY <1>2, PagingAssumption
      DEF AllLists, Repository, Query, PaymentRepoList, DisbursementRepoList, MutationRepoList,
          OutboxListByMerchant, MerchantRepoList, AdminRepoList
    <3> QED BY <3>1, <3>2
  <2>2. k \in Nat
    BY UseCasesPassOn
  <2> HIDE DEF k
  <2>3. Cap(k) \in Nat /\ Cap(k) < Half
    BY <2>2, PagingAssumption DEF Cap
  <2> QED BY <2>1, <2>3, Int32Fits DEF RowsSent
<1> QED BY <1>1, <1>2

-----------------------------------------------------------------------------
(* The rows a list is about                                                *)

LEMMA FindsRows ==
    ASSUME NEW t \in Seq(Row), NEW w
    PROVE  /\ Where(t, w) \subseteq DOMAIN t /\ IsFiniteSet(Where(t, w))
           /\ Cardinality(Where(t, w)) \in Nat /\ Cardinality(Where(t, w)) <= Len(t)
<1>1. Where(t, w) \subseteq DOMAIN t
  BY DEF Where
<1>2. DOMAIN t = 1..Len(t) /\ Len(t) \in Nat
  BY LenProperties
<1>3. IsFiniteSet(1..Len(t)) /\ Cardinality(1..Len(t)) = Len(t)
  BY <1>2, FS_Interval
<1>4. IsFiniteSet(Where(t, w)) /\ Cardinality(Where(t, w)) <= Len(t)
  BY <1>1, <1>2, <1>3, FS_Subset
<1> QED BY <1>1, <1>4, FS_CardinalityType

(* Only the owner and the status a list is asked for decide, and which     *)
(* list it is.                                                             *)
LEMMA SameQuestion ==
    ASSUME NEW t, NEW v, NEW w, v.owner = w.owner, v.open = w.open
    PROVE  /\ Where(t, v) = Where(t, w)
           /\ v.list = w.list => \A i : Ahead(t, v, i) = Ahead(t, w, i)
<1>1. Where(t, v) = Where(t, w)
  BY DEF Where, Matches
<1> QED BY <1>1 DEF Ahead

(* How many rows come before a row of the list: no fewer, when rows come   *)
(* in and those that were in it keep their places.                         *)
LEMMA RanksGrow ==
    ASSUME NEW t, NEW u \in Seq(Row), NEW w, NEW i \in Where(t, w),
           Where(t, w) \subseteq Where(u, w),
           \A j \in Where(t, w) : Place(u, w.list, j) = Place(t, w.list, j)
    PROVE  /\ Cardinality(Ahead(t, w, i)) \in Nat /\ Cardinality(Ahead(u, w, i)) \in Nat
           /\ Cardinality(Ahead(t, w, i)) <= Cardinality(Ahead(u, w, i))
<1>1. Ahead(t, w, i) \subseteq Ahead(u, w, i) /\ Ahead(u, w, i) \subseteq Where(u, w)
  BY DEF Ahead
<1>2. IsFiniteSet(Ahead(u, w, i))
  BY <1>1, FindsRows, FS_Subset
<1>3. IsFiniteSet(Ahead(t, w, i)) /\ Cardinality(Ahead(t, w, i)) <= Cardinality(Ahead(u, w, i))
  BY <1>1, <1>2, FS_Subset
<1> QED BY <1>2, <1>3, FS_CardinalityType

LEMMA RanksAreSmall ==
    ASSUME NEW t \in Seq(Row), NEW w, NEW i \in Where(t, w)
    PROVE  /\ Cardinality(Ahead(t, w, i)) \in Nat
           /\ Cardinality(Ahead(t, w, i)) < Cardinality(Where(t, w))
<1> DEFINE S == Where(t, w)
<1> DEFINE A == Ahead(t, w, i)
<1>1. i \in 1..Len(t) /\ t[i] \in Row
  BY LenProperties, ElementOfSeq DEF Where
<1>2. Place(t, w.list, i) \in Nat
  <2>1. i \in Nat
    BY <1>1, LenProperties
  <2>2. t[i].date \in Nat
    <3>1. t[i].date \in Days \cup {0}
      BY <1>1 DEF Row
    <3>2. \A d \in Days \cup {0} : d \in Nat
      BY PagingAssumption
    <3> QED BY <3>1, <3>2, Zenon
  <2> QED BY <2>1, <2>2 DEF Place
<1>3. A \subseteq S /\ i \notin A /\ i \in S
  BY <1>2 DEF Ahead
<1>4. IsFiniteSet(S) /\ Cardinality(S) \in Nat
  BY FindsRows
<1> HIDE DEF A, S
<1>5. IsFiniteSet(A) /\ Cardinality(A) <= Cardinality(S) /\ Cardinality(A) # Cardinality(S)
  BY <1>3, <1>4, FS_Subset
<1>6. Cardinality(A) \in Nat
  BY <1>5, FS_CardinalityType
<1>7. Cardinality(A) < Cardinality(S)
  BY <1>4, <1>5, <1>6
<1> QED BY <1>6, <1>7 DEF A, S

-----------------------------------------------------------------------------
(* Types                                                                   *)

LEMMA ClientFits ==
    ASSUME NEW R, NEW S, R \subseteq S, NEW w \in Client(R)
    PROVE  w \in Client(S)
BY DEF Client

LEMMA ClientFields ==
    ASSUME NEW R, NEW w \in Client(R)
    PROVE  /\ w.pc \in {"ended", "ask", "counted"} /\ w.list \in Lists \cup {"none"}
           /\ w.limit \in Nat /\ w.page \in 1..(MaxRows + 1) /\ w.total \in 0..MaxRows
           /\ w.there \subseteq R /\ w.seen \subseteq R
           /\ w.open \in BOOLEAN /\ w.raced \in BOOLEAN /\ w.left \in BOOLEAN
<1>1. w.limit \in Asks \cup {0}
  BY DEF Client
<1>2. w.limit \in Nat
  <2>1. Asks \subseteq Nat
    BY PagingAssumption
  <2>2. CASE w.limit \in Asks
    BY <2>1, <2>2
  <2>3. CASE w.limit = 0
    BY <2>3
  <2> QED BY <1>1, <2>2, <2>3
<1>3. /\ w.pc \in {"ended", "ask", "counted"} /\ w.list \in Lists \cup {"none"}
      /\ w.page \in 1..(MaxRows + 1) /\ w.total \in 0..MaxRows
  BY DEF Client
<1>4. /\ w.there \subseteq R /\ w.seen \subseteq R
      /\ w.open \in BOOLEAN /\ w.raced \in BOOLEAN /\ w.left \in BOOLEAN
  BY DEF Client
<1> QED BY <1>2, <1>3, <1>4

LEMMA PagingInitTyped == PagingInit => PagingTypeOK
BY PagingAssumption DEF PagingInit, PagingTypeOK, Ended, Client

(* A row is saved, changes, or is moved: the rows that there were remain.  *)
RowsChange ==
    Insert \/ \E i \in DOMAIN table : ChangeRow(i) \/ UpdateFeeHoliday(i)

LEMMA RowsRemain ==
    ASSUME PagingTypeOK, RowsChange
    PROVE  /\ UNCHANGED holidays
           /\ \E rows \in Seq(Row) : /\ DOMAIN table \subseteq DOMAIN rows
                                     /\ Len(rows) <= MaxRows
                                     /\ Becomes(rows)
<1>0. /\ table \in Seq(Row) /\ DOMAIN table = 1..Len(table)
      /\ Len(table) \in Nat /\ Len(table) <= MaxRows
      /\ MaxRows \in Nat /\ FreeDays \subseteq Days
  BY LenProperties, PagingAssumption DEF PagingTypeOK, FreeDays
<1>1. ASSUME NEW i \in DOMAIN table, NEW row \in Row, Becomes([table EXCEPT ![i] = row])
      PROVE  \E rows \in Seq(Row) : /\ DOMAIN table \subseteq DOMAIN rows
                                    /\ Len(rows) <= MaxRows
                                    /\ Becomes(rows)
  <2>1. PICK rows : rows = [table EXCEPT ![i] = row]
    OBVIOUS
  <2>2. rows \in Seq(Row) /\ Len(rows) = Len(table) /\ DOMAIN rows = DOMAIN table
    BY <1>0, <2>1, ExceptSeq
  <2> QED BY <1>0, <1>1, <2>1, <2>2
<1>2. ASSUME NEW i \in DOMAIN table PROVE table[i] \in Row
  BY <1>0, ElementOfSeq
<1>3. CASE Insert
  <2>1. PICK row \in NewRows : Becomes(Append(table, row))
    BY <1>3 DEF Insert
  <2>2. row \in Row
    BY <1>0, <2>1 DEF NewRows, Row
  <2>3. PICK rows : rows = Append(table, row)
    OBVIOUS
  <2>4. rows \in Seq(Row) /\ Len(rows) = Len(table) + 1 /\ Len(table) < MaxRows
    BY <1>0, <1>3, <2>2, <2>3, AppendProperties DEF Insert
  <2>5. DOMAIN rows = 1..Len(rows)
    BY <2>4, LenProperties
  <2>6. DOMAIN table \subseteq DOMAIN rows /\ Len(rows) <= MaxRows
    BY <1>0, <2>4, <2>5
  <2> QED BY <1>3, <2>1, <2>3, <2>4, <2>6 DEF Insert
<1>4. ASSUME NEW i \in DOMAIN table, ChangeRow(i)
      PROVE  UNCHANGED holidays /\ \E row \in Row : Becomes([table EXCEPT ![i] = row])
  <2>1. [table[i] EXCEPT !.open = ~table[i].open] \in Row
    BY <1>2 DEF Row
  <2> QED BY <1>4, <2>1 DEF ChangeRow
<1>5. ASSUME NEW i \in DOMAIN table, UpdateFeeHoliday(i)
      PROVE  UNCHANGED holidays /\ \E row \in Row : Becomes([table EXCEPT ![i] = row])
  <2>1. PICK date \in FreeDays : Becomes([table EXCEPT ![i].date = date])
    BY <1>5 DEF UpdateFeeHoliday
  <2>2. [table[i] EXCEPT !.date = date] \in Row
    BY <1>0, <1>2 DEF Row
  <2> QED BY <1>5, <2>1, <2>2 DEF UpdateFeeHoliday
<1> QED BY <1>1, <1>3, <1>4, <1>5 DEF RowsChange

(* What becomes of the client when its table does.                         *)
LEMMA ClientNotices ==
    ASSUME NEW R, walk \in Client(R), NEW rows, Becomes(rows)
    PROVE  /\ walk' \in Client(R)
           /\ walk'.pc = walk.pc /\ walk'.list = walk.list /\ walk'.owner = walk.owner
           /\ walk'.open = walk.open /\ walk'.limit = walk.limit /\ walk'.page = walk.page
           /\ walk'.total = walk.total /\ walk'.there = walk.there /\ walk'.seen = walk.seen
           /\ walk.raced => walk'.raced
           /\ walk.left => walk'.left
           /\ walk.pc = "counted" /\ ~walk'.raced => Where(rows, walk) \subseteq Where(table, walk)
           /\ walk.pc # "ended" /\ ~walk'.left =>
                \A i \in Where(table, walk) :
                   i \in Where(rows, walk) /\ Place(rows, walk.list, i) = Place(table, walk.list, i)
<1> DEFINE new == Where(rows, walk) \subseteq Where(table, walk)
<1> DEFINE kept == \A i \in Where(table, walk) :
                     i \in Where(rows, walk) /\ Place(rows, walk.list, i) = Place(table, walk.list, i)
<1>1. PICK raced \in BOOLEAN, left \in BOOLEAN :
        /\ walk' = [walk EXCEPT !.raced = raced, !.left = left]
        /\ raced <=> (walk.raced \/ (walk.pc = "counted" /\ ~new))
        /\ left <=> (walk.left \/ (walk.pc # "ended" /\ ~kept))
  <2> DEFINE r == walk.raced \/ (walk.pc = "counted" /\ ~new)
  <2> DEFINE l == walk.left \/ (walk.pc # "ended" /\ \E i \in Where(table, walk) :
                     ~(/\ i \in Where(rows, walk)
                       /\ Place(rows, walk.list, i) = Place(table, walk.list, i)))
  <2>1. walk' = [walk EXCEPT !.raced = r, !.left = l]
    BY Zenon DEF Becomes, Walking
  <2>2. r \in BOOLEAN /\ l \in BOOLEAN
    OBVIOUS
  <2>3. l <=> (walk.left \/ (walk.pc # "ended" /\ ~kept))
    OBVIOUS
  <2> HIDE DEF l, kept
  <2> QED BY <2>1, <2>2, <2>3, Zenon
<1> HIDE DEF new, kept
<1>2. /\ walk' \in Client(R) /\ walk'.raced = raced /\ walk'.left = left
      /\ walk'.pc = walk.pc /\ walk'.list = walk.list /\ walk'.owner = walk.owner
      /\ walk'.open = walk.open /\ walk'.limit = walk.limit /\ walk'.page = walk.page
      /\ walk'.total = walk.total /\ walk'.there = walk.there /\ walk'.seen = walk.seen
  BY <1>1 DEF Client
<1> QED BY <1>1, <1>2 DEF new, kept

LEMMA RowsTyped ==
    ASSUME PagingTypeOK, RowsChange
    PROVE  PagingTypeOK'
<1>1. PICK rows \in Seq(Row) : /\ DOMAIN table \subseteq DOMAIN rows /\ Len(rows) <= MaxRows
                               /\ Becomes(rows)
  BY RowsRemain
<1>2. table' = rows
  BY <1>1 DEF Becomes
<1>3. walk \in Client(DOMAIN rows)
  BY <1>1, ClientFits DEF PagingTypeOK
<1>4. walk' \in Client(DOMAIN rows)
  BY <1>1, <1>3, ClientNotices
<1> QED BY <1>1, <1>2, <1>4, RowsRemain DEF PagingTypeOK

LEMMA StartTyped ==
    ASSUME PagingTypeOK, Start
    PROVE  PagingTypeOK'
<1>1. PICK list \in Lists, limit \in Asks :
        \E owner \in OwnersOf(list), open \in Statement(list, limit).status :
           LET w == [Ended EXCEPT !.pc = "ask", !.list = list, !.owner = owner,
                                  !.open = open, !.limit = limit]
           IN  walk' = [w EXCEPT !.there = Where(table, w)]
  BY DEF Start
<1>2. PICK owner \in Owners \cup {All}, open \in BOOLEAN :
        LET w == [Ended EXCEPT !.pc = "ask", !.list = list, !.owner = owner,
                               !.open = open, !.limit = limit]
        IN  walk' = [w EXCEPT !.there = Where(table, w)]
  BY <1>1, LimitsArePositive, PagingAssumption
<1>3. PICK w : /\ w = [Ended EXCEPT !.pc = "ask", !.list = list, !.owner = owner,
                                    !.open = open, !.limit = limit]
               /\ walk' = [w EXCEPT !.there = Where(table, w)]
  BY <1>2
<1>4. w \in Client(DOMAIN table)
  <2>1. Ended \in Client(DOMAIN table)
    BY PagingAssumption DEF Ended, Client
  <2>2. list \in Lists \cup {"none"} /\ limit \in Asks \cup {0}
    OBVIOUS
  <2> QED BY <1>3, <2>1, <2>2 DEF Client
<1>5. Where(table, w) \subseteq DOMAIN table
  BY DEF Where
<1>6. walk' \in Client(DOMAIN table)
  BY <1>3, <1>4, <1>5 DEF Client
<1> QED BY <1>6 DEF Start, PagingTypeOK

LEMMA CountTyped ==
    ASSUME PagingTypeOK, Count
    PROVE  PagingTypeOK'
<1>1. PICK total : total = Cardinality(Where(table, walk))
  OBVIOUS
<1>2. total \in 0..MaxRows
  BY <1>1, FindsRows, PagingAssumption, LenProperties DEF PagingTypeOK
<1>3. PICK pc \in {"ended", "counted"} :
        walk' = [walk EXCEPT !.total = total, !.raced = FALSE, !.pc = pc]
  BY <1>1 DEF Count
<1>4. walk' \in Client(DOMAIN table)
  BY <1>2, <1>3 DEF Client, PagingTypeOK
<1> QED BY <1>4 DEF Count, PagingTypeOK

LEMMA ListTyped ==
    ASSUME PagingTypeOK, walk.list \in Lists, List
    PROVE  PagingTypeOK'
<1> DEFINE per == PerPage(walk.list, walk.limit)
<1> DEFINE size == Limit(walk.list, walk.limit)
<1>1. /\ walk.limit \in Nat /\ walk.page \in 1..(MaxRows + 1) /\ walk.total \in 0..MaxRows
      /\ walk.seen \subseteq DOMAIN table
  BY ClientFields DEF PagingTypeOK
<1>2. per \in Nat \ {0}
  BY <1>1, LimitsArePositive
<1>3. TotalPages(walk.total, per) \in Nat /\ TotalPages(walk.total, per) <= MaxRows
  <2>1. walk.total \in Nat /\ walk.page \in Nat /\ walk.total <= MaxRows /\ MaxRows \in Nat
    BY <1>1, PagingAssumption
  <2>2. TotalPages(walk.total, per) \in Nat /\ TotalPages(walk.total, per) <= walk.total
    BY <1>2, <2>1, PagesCover
  <2> QED BY <2>1, <2>2
<1>4. PICK new : new = Page(table, walk, Offset(walk.page, size), RowsSent(walk.list, walk.limit))
  OBVIOUS
<1>5. new \subseteq DOMAIN table
  BY <1>4 DEF Page, Where
<1>6. PICK pc \in {"ended", "ask"}, page \in 1..(MaxRows + 1) :
        walk' = [walk EXCEPT !.seen = walk.seen \cup new, !.pc = pc, !.page = page]
  <2>1. CASE walk.page >= TotalPages(walk.total, per)
    <3>1. walk' = [walk EXCEPT !.seen = walk.seen \cup new, !.pc = "ended", !.page = walk.page]
      BY <1>4, <2>1 DEF List
    <3> QED BY <1>1, <3>1
  <2>2. CASE ~(walk.page >= TotalPages(walk.total, per))
    <3>1. walk' = [walk EXCEPT !.seen = walk.seen \cup new, !.pc = "ask", !.page = walk.page + 1]
      BY <1>4, <2>2 DEF List
    <3>2. walk.page + 1 \in 1..(MaxRows + 1)
      BY <1>1, <1>3, <2>2, PagingAssumption
    <3> QED BY <3>1, <3>2
  <2> QED BY <2>1, <2>2
<1>7. walk' \in Client(DOMAIN table)
  BY <1>1, <1>5, <1>6 DEF Client, PagingTypeOK
<1> QED BY <1>7 DEF List, PagingTypeOK

LEMMA AskAgainTyped ==
    ASSUME PagingTypeOK, AskAgain
    PROVE  PagingTypeOK'
<1>1. walk' \in Client(DOMAIN table)
  BY DEF AskAgain, Client, PagingTypeOK
<1> QED BY <1>1 DEF AskAgain, PagingTypeOK

LEMMA PagingNextTyped ==
    PagingTypeOK /\ (Walking => walk.list # "none") /\ [PagingNext]_pagingVars => PagingTypeOK'
<1> SUFFICES ASSUME PagingTypeOK, Walking => walk.list # "none", [PagingNext]_pagingVars
             PROVE  PagingTypeOK'
  OBVIOUS
<1>1. CASE RowsChange
  BY <1>1, RowsTyped
<1>3. CASE Start
  BY <1>3, StartTyped
<1>4. CASE Count
  BY <1>4, CountTyped
<1>5. CASE List
  <2>1. Walking
    BY <1>5 DEF List, Walking
  <2>2. walk.list \in Lists
    BY <2>1, ClientFields DEF PagingTypeOK
  <2> QED BY <1>5, <2>2, ListTyped
<1>6. CASE AskAgain
  BY <1>6, AskAgainTyped
<1>7. CASE UNCHANGED pagingVars
  BY <1>7 DEF pagingVars, PagingTypeOK
<1> QED BY <1>1, <1>3, <1>4, <1>5, <1>6, <1>7 DEF PagingNext, RowsChange

-----------------------------------------------------------------------------
(* The invariant of a walk.  While nothing has left its place, the rows it *)
(* started with are still in the list, and those of them that come before  *)
(* the page it asks for next have been seen: rows that come in push others *)
(* back, wherever they come in, and never to the front.  The last count is *)
(* the length of the list unless a row has come in since.                  *)

Evenly(w) == PerPage(w.list, w.limit) = RowsSent(w.list, w.limit)

(* The rows on the pages before the one a client asks for next.            *)
Before(w) == (w.page - 1) * Limit(w.list, w.limit)

ListIsKnown(w) == w.pc # "ended" => w.list # "none"

CountIsTrue(t, w) ==
    w.pc = "counted" /\ ~w.raced /\ ~w.left => w.total = Cardinality(Where(t, w))

SeenSoFar(t, w) ==
    w.pc # "ended" /\ ~w.left /\ Evenly(w) =>
        /\ w.there \subseteq Where(t, w)
        /\ Before(w) <= MaxRows
        /\ \A i \in w.there : Cardinality(Ahead(t, w, i)) < Before(w) => i \in w.seen

AllSeen(w) ==
    w.pc = "ended" /\ w.list # "none" /\ ~w.raced /\ ~w.left /\ Evenly(w) =>
        w.there \subseteq w.seen

Walk(t, w) == ListIsKnown(w) /\ CountIsTrue(t, w) /\ SeenSoFar(t, w) /\ AllSeen(w)

PagingIInv == PagingTypeOK /\ Walk(table, walk)

LEMMA PagingInitHolds == PagingInit => PagingIInv
BY PagingInitTyped
DEF PagingInit, Ended, PagingIInv, Walk, ListIsKnown, CountIsTrue, SeenSoFar, AllSeen

LEMMA BeforeIsNatural ==
    ASSUME NEW R, NEW w \in Client(R), w.list # "none"
    PROVE  Before(w) \in Nat /\ Limit(w.list, w.limit) \in Nat \ {0} /\ w.page \in Nat \ {0}
<1>1. w.list \in Lists /\ w.limit \in Nat /\ w.page \in Nat \ {0}
  BY ClientFields
<1>2. Limit(w.list, w.limit) \in Nat \ {0}
  BY <1>1, LimitsArePositive
<1> QED BY <1>1, <1>2 DEF Before

(* The table changes: unless a row leaves its place, each has at least as  *)
(* many others before it as before.                                        *)
LEMMA RowsKeepWalk ==
    ASSUME PagingIInv, RowsChange
    PROVE  Walk(table', walk')
<1>1. walk \in Client(DOMAIN table) /\ table \in Seq(Row)
  BY DEF PagingIInv, PagingTypeOK
<1>2. PICK rows \in Seq(Row) : Becomes(rows) /\ table' = rows
  BY RowsRemain DEF PagingIInv, Becomes
<1>3. /\ walk'.pc = walk.pc /\ walk'.list = walk.list /\ walk'.owner = walk.owner
      /\ walk'.open = walk.open /\ walk'.limit = walk.limit /\ walk'.page = walk.page
      /\ walk'.total = walk.total /\ walk'.there = walk.there /\ walk'.seen = walk.seen
      /\ (walk.raced => walk'.raced) /\ (walk.left => walk'.left)
      /\ walk.pc = "counted" /\ ~walk'.raced => Where(rows, walk) \subseteq Where(table, walk)
      /\ walk.pc # "ended" /\ ~walk'.left =>
           \A i \in Where(table, walk) :
              i \in Where(rows, walk) /\ Place(rows, walk.list, i) = Place(table, walk.list, i)
  BY <1>1, <1>2, ClientNotices
<1>4. /\ Where(rows, walk') = Where(rows, walk)
      /\ \A i : Ahead(rows, walk', i) = Ahead(rows, walk, i)
  BY <1>3, SameQuestion
<1>5. Evenly(walk') = Evenly(walk) /\ Before(walk') = Before(walk)
  BY <1>3 DEF Evenly, Before
<1>6. ListIsKnown(walk') /\ AllSeen(walk')
  BY <1>3, <1>5 DEF PagingIInv, Walk, ListIsKnown, AllSeen
<1>7. CountIsTrue(rows, walk')
  <2> SUFFICES ASSUME walk'.pc = "counted", ~walk'.raced, ~walk'.left
               PROVE  walk'.total = Cardinality(Where(rows, walk))
    BY <1>4 DEF CountIsTrue
  <2>1. Where(rows, walk) = Where(table, walk)
    BY <1>3
  <2>2. walk.total = Cardinality(Where(table, walk))
    BY <1>3 DEF PagingIInv, Walk, CountIsTrue
  <2> QED BY <1>3, <2>1, <2>2
<1>8. SeenSoFar(rows, walk')
  <2> SUFFICES ASSUME walk'.pc # "ended", ~walk'.left, Evenly(walk')
               PROVE  /\ walk.there \subseteq Where(rows, walk)
                      /\ Before(walk) <= MaxRows
                      /\ \A i \in walk.there :
                            Cardinality(Ahead(rows, walk, i)) < Before(walk) => i \in walk.seen
    BY <1>3, <1>4, <1>5 DEF SeenSoFar
  <2>1. /\ walk.there \subseteq Where(table, walk) /\ Before(walk) <= MaxRows
        /\ \A i \in walk.there :
              Cardinality(Ahead(table, walk, i)) < Before(walk) => i \in walk.seen
    BY <1>3, <1>5 DEF PagingIInv, Walk, SeenSoFar
  <2>2. walk.list # "none"
    BY <1>3 DEF PagingIInv, Walk, ListIsKnown
  <2>3. Before(walk) \in Nat
    BY <1>1, <2>2, BeforeIsNatural
  <2>4. Where(table, walk) \subseteq Where(rows, walk)
    BY <1>3
  <2>5. ASSUME NEW i \in walk.there, Cardinality(Ahead(rows, walk, i)) < Before(walk)
        PROVE  i \in walk.seen
    <3>1. /\ Cardinality(Ahead(table, walk, i)) \in Nat
          /\ Cardinality(Ahead(rows, walk, i)) \in Nat
          /\ Cardinality(Ahead(table, walk, i)) <= Cardinality(Ahead(rows, walk, i))
      BY <1>3, <2>1, <2>4, RanksGrow
    <3>2. Cardinality(Ahead(table, walk, i)) < Before(walk)
      BY <2>3, <2>5, <3>1
    <3> QED BY <2>1, <2>5, <3>2
  <2> QED BY <2>1, <2>4, <2>5
<1> QED BY <1>2, <1>6, <1>7, <1>8 DEF Walk

(* A walk begins before the first row.                                     *)
LEMMA StartKeepsWalk ==
    ASSUME PagingIInv, Start
    PROVE  Walk(table', walk')
<1>1. PICK list \in Lists, limit \in Asks :
        \E owner, open :
        LET w == [Ended EXCEPT !.pc = "ask", !.list = list, !.owner = owner,
                               !.open = open, !.limit = limit]
        IN  walk' = [w EXCEPT !.there = Where(table, w)]
  BY DEF Start
<1>2. PICK owner, open, w :
        /\ w = [Ended EXCEPT !.pc = "ask", !.list = list, !.owner = owner,
                             !.open = open, !.limit = limit]
        /\ walk' = [w EXCEPT !.there = Where(table, w)]
  BY <1>1
<1>3. /\ w.owner = owner /\ w.open = open
      /\ walk'.pc = "ask" /\ walk'.list = list /\ walk'.owner = owner /\ walk'.open = open
      /\ walk'.limit = limit /\ walk'.page = 1 /\ walk'.there = Where(table, w)
  BY <1>2 DEF Ended
<1>4. table' = table
  BY DEF Start
<1>5. walk'.there = Where(table', walk')
  BY <1>3, <1>4, SameQuestion
<1>6. Before(walk') = 0
  <2>1. Limit(list, limit) \in Nat
    BY LimitsArePositive, PagingAssumption
  <2> QED BY <1>3, <2>1 DEF Before
<1>7. list # "none"
  BY PagingAssumption DEF AllLists
<1>8. SeenSoFar(table', walk')
  <2>1. table' \in Seq(Row)
    BY <1>4 DEF PagingIInv, PagingTypeOK
  <2>3. \A i \in walk'.there : ~(Cardinality(Ahead(table', walk', i)) < 0)
    BY <1>5, <2>1, RanksAreSmall
  <2> QED BY <1>5, <1>6, <2>3, PagingAssumption DEF SeenSoFar
<1> QED BY <1>3, <1>7, <1>8 DEF Walk, ListIsKnown, CountIsTrue, AllSeen

(* COUNT: an empty list had no row at the start either.                    *)
LEMMA CountKeepsWalk ==
    ASSUME PagingIInv, Count
    PROVE  Walk(table', walk')
<1> DEFINE total == Cardinality(Where(table, walk))
<1>1. /\ walk \in Client(DOMAIN table) /\ table \in Seq(Row) /\ table' = table
      /\ walk.pc = "ask"
  BY DEF PagingIInv, PagingTypeOK, Count
<1>2. PICK pc : /\ walk' = [walk EXCEPT !.total = total, !.raced = FALSE, !.pc = pc]
                /\ pc \in {"ended", "counted"} /\ (pc = "ended" => total = 0)
  <2>1. PICK pc : pc = IF total = 0 /\ walk.list # "holidays" THEN "ended" ELSE "counted"
    OBVIOUS
  <2>2. walk' = [walk EXCEPT !.total = total, !.raced = FALSE, !.pc = pc]
    BY <2>1 DEF Count
  <2> HIDE DEF total
  <2>3. pc \in {"ended", "counted"} /\ (pc = "ended" => total = 0)
    BY <2>1
  <2> QED BY <2>2, <2>3
<1>3. /\ walk'.pc = pc /\ walk'.list = walk.list /\ walk'.owner = walk.owner
      /\ walk'.open = walk.open /\ walk'.limit = walk.limit /\ walk'.page = walk.page
      /\ walk'.total = total /\ walk'.there = walk.there /\ walk'.seen = walk.seen
      /\ walk'.left = walk.left
  BY <1>1, <1>2 DEF Client
<1>4. /\ Where(table', walk') = Where(table, walk)
      /\ \A i : Ahead(table', walk', i) = Ahead(table, walk, i)
  BY <1>1, <1>3, SameQuestion
<1>5. Evenly(walk') = Evenly(walk) /\ Before(walk') = Before(walk)
  BY <1>3 DEF Evenly, Before
<1>6. ListIsKnown(walk') /\ CountIsTrue(table', walk')
  BY <1>1, <1>3, <1>4 DEF PagingIInv, Walk, ListIsKnown, CountIsTrue
<1>7. SeenSoFar(table', walk')
  BY <1>1, <1>3, <1>4, <1>5 DEF PagingIInv, Walk, SeenSoFar
<1>8. AllSeen(walk')
  <2> SUFFICES ASSUME pc = "ended", ~walk.left, Evenly(walk)
               PROVE  walk.there \subseteq walk.seen
    BY <1>3, <1>5 DEF AllSeen
  <2>1. walk.there \subseteq Where(table, walk)
    BY <1>1 DEF PagingIInv, Walk, SeenSoFar
  <2>2. Where(table, walk) = {}
    BY <1>1, <1>2, FindsRows, FS_EmptySet
  <2> QED BY <2>1, <2>2
<1> QED BY <1>6, <1>7, <1>8 DEF Walk

(* A page is sent.  The rows on it are those whose rank lies in the page;  *)
(* together with those seen before they are all up to the next page, and   *)
(* behind the last page that the count announces there are no more.        *)
LEMMA ListKeepsWalk ==
    ASSUME PagingIInv, List
    PROVE  Walk(table', walk')
<1> DEFINE size == Limit(walk.list, walk.limit)
<1> DEFINE per == PerPage(walk.list, walk.limit)
<1> DEFINE pages == TotalPages(walk.total, per)
<1> DEFINE W == Where(table, walk)
<1> DEFINE sent == RowsSent(walk.list, walk.limit)
<1> DEFINE new == Page(table, walk, Offset(walk.page, size), sent)
<1>1. /\ walk \in Client(DOMAIN table) /\ table \in Seq(Row) /\ table' = table
      /\ walk.pc = "counted"
  BY DEF PagingIInv, PagingTypeOK, List
<1>2. PICK pc, page :
        /\ walk' = [walk EXCEPT !.seen = walk.seen \cup new, !.pc = pc, !.page = page]
        /\ \/ walk.page >= pages /\ pc = "ended"
           \/ ~(walk.page >= pages) /\ pc = "ask" /\ page = walk.page + 1
  <2>1. CASE walk.page >= pages
    <3>1. walk' = [walk EXCEPT !.seen = walk.seen \cup new, !.pc = "ended", !.page = walk.page]
      BY <2>1 DEF List
    <3> QED BY <2>1, <3>1
  <2>2. CASE ~(walk.page >= pages)
    <3>1. walk' = [walk EXCEPT !.seen = walk.seen \cup new, !.pc = "ask", !.page = walk.page + 1]
      BY <2>2 DEF List
    <3> QED BY <2>2, <3>1
  <2> QED BY <2>1, <2>2
<1>3. /\ walk'.pc = pc /\ walk'.list = walk.list /\ walk'.owner = walk.owner
      /\ walk'.open = walk.open /\ walk'.limit = walk.limit /\ walk'.page = page
      /\ walk'.there = walk.there /\ walk'.seen = walk.seen \cup new
      /\ walk'.left = walk.left /\ walk'.raced = walk.raced
  BY <1>1, <1>2 DEF Client
<1>4. Where(table', walk') = W /\ \A i : Ahead(table', walk', i) = Ahead(table, walk, i)
  BY <1>1, <1>3, SameQuestion
<1>5. Evenly(walk') = Evenly(walk) /\ Before(walk') = (page - 1) * size
  BY <1>3 DEF Evenly, Before
<1>6. /\ walk.list # "none" /\ walk.page \in Nat \ {0} /\ size \in Nat \ {0}
      /\ Before(walk) \in Nat /\ walk.total \in Nat /\ walk.total <= MaxRows
  <2>1. walk.list # "none"
    BY <1>1 DEF PagingIInv, Walk, ListIsKnown
  <2>2. walk.total \in Nat /\ walk.total <= MaxRows
    BY <1>1, ClientFields, PagingAssumption
  <2> QED BY <1>1, <2>1, <2>2, BeforeIsNatural
<1>7. IsFiniteSet(W) /\ W \subseteq Nat /\ Cardinality(W) \in Nat
  BY <1>1, FindsRows, LenProperties
<1>s. ASSUME Evenly(walk) PROVE sent = size
  BY <1>1, <1>6, <1>s, ClientFields, EvenLimits DEF Evenly
<1> HIDE DEF W, sent
<1>8. ASSUME ~walk.left, Evenly(walk)
      PROVE  /\ walk.there \subseteq W
             /\ \A i \in walk.there :
                   Cardinality(Ahead(table, walk, i)) < walk.page * size => i \in walk'.seen
  <2>1. /\ walk.there \subseteq W /\ Before(walk) <= MaxRows
        /\ \A i \in walk.there : Cardinality(Ahead(table, walk, i)) < Before(walk) => i \in walk.seen
    BY <1>1, <1>8 DEF PagingIInv, Walk, SeenSoFar, W
  <2>2. Before(walk) = (walk.page - 1) * size
    BY DEF Before
  <2>3. Offset(walk.page, size) = Before(walk)
    BY <1>6, <2>1, <2>2, OffsetsFit
  <2>4. walk.page * size = Before(walk) + size
    BY <1>6, <2>2
  <2>5. ASSUME NEW i \in walk.there, Cardinality(Ahead(table, walk, i)) < walk.page * size
        PROVE  i \in walk'.seen
    <3>1. Cardinality(Ahead(table, walk, i)) \in Nat /\ i \in W
      BY <1>1, <2>1, <2>5, RanksAreSmall DEF W
    <3>2. CASE Cardinality(Ahead(table, walk, i)) < Before(walk)
      BY <1>3, <2>1, <2>5, <3>2
    <3>3. CASE ~(Cardinality(Ahead(table, walk, i)) < Before(walk))
      <4>1. Cardinality(Ahead(table, walk, i)) \in Before(walk)..(Before(walk) + size - 1)
        BY <1>6, <2>4, <2>5, <3>1, <3>3
      <4>2. i \in new
        BY <1>8, <1>s, <2>3, <3>1, <4>1 DEF Page, W
      <4> QED BY <1>3, <4>2
    <3> QED BY <3>2, <3>3
  <2> QED BY <2>1, <2>5
<1>9. ASSUME ~walk.left, Evenly(walk)
      PROVE  /\ pc = "ended" => walk.total <= walk.page * size
             /\ pc # "ended" => walk.page * size < walk.total /\ page = walk.page + 1
  <2>1. per = size
    BY <1>9, <1>s DEF Evenly, sent
  <2>2. pages \in Nat
    BY <1>6, <2>1, PagesCover
  <2>3. CASE pc = "ended"
    <3>1. walk.page >= pages
      BY <1>2, <2>3
    <3> HIDE DEF pages
    <3>2. walk.total <= walk.page * per
      BY <1>6, <2>1, <3>1, PagesCover DEF pages
    <3> QED BY <2>1, <2>3, <3>2
  <2>4. CASE pc # "ended"
    <3>1. walk.page < pages /\ page = walk.page + 1
      BY <1>2, <1>6, <2>2, <2>4
    <3>2. walk.page * per < walk.total
      BY <1>6, <2>1, <3>1, PagesCover
    <3> QED BY <2>1, <2>4, <3>1, <3>2
  <2> QED BY <2>3, <2>4
<1>10. SeenSoFar(table', walk')
  <2> SUFFICES ASSUME pc # "ended", ~walk.left, Evenly(walk)
               PROVE  /\ walk.there \subseteq W
                      /\ (page - 1) * size <= MaxRows
                      /\ \A i \in walk.there :
                            Cardinality(Ahead(table, walk, i)) < (page - 1) * size => i \in walk'.seen
    BY <1>3, <1>4, <1>5 DEF SeenSoFar
  <2>1. (page - 1) * size = walk.page * size /\ walk.page * size < walk.total
    BY <1>6, <1>9
  <2>2. walk.page * size <= MaxRows
    BY <1>6, <2>1, PagingAssumption
  <2> QED BY <1>8, <2>1, <2>2
<1>11. AllSeen(walk')
  <2> SUFFICES ASSUME pc = "ended", ~walk.raced, ~walk.left, Evenly(walk), NEW i \in walk.there
               PROVE  i \in walk'.seen
    BY <1>3, <1>5 DEF AllSeen
  <2>1. walk.total = Cardinality(W)
    BY <1>1 DEF PagingIInv, Walk, CountIsTrue, W
  <2>2. i \in W
    BY <1>8
  <2>3. Cardinality(Ahead(table, walk, i)) \in Nat /\ Cardinality(Ahead(table, walk, i)) < Cardinality(W)
    BY <1>1, <2>2, RanksAreSmall DEF W
  <2>4. Cardinality(W) <= walk.page * size
    BY <1>9, <2>1
  <2>5. Cardinality(Ahead(table, walk, i)) < walk.page * size
    BY <1>6, <1>7, <2>3, <2>4
  <2> QED BY <1>8, <2>5
<1>12. ListIsKnown(walk') /\ CountIsTrue(table', walk')
  BY <1>2, <1>3, <1>6 DEF ListIsKnown, CountIsTrue
<1> QED BY <1>10, <1>11, <1>12 DEF Walk

LEMMA AskAgainKeepsWalk ==
    ASSUME PagingIInv, AskAgain
    PROVE  Walk(table', walk')
<1>1. /\ walk \in Client(DOMAIN table) /\ table' = table /\ walk.pc = "counted"
      /\ walk' = [walk EXCEPT !.pc = "ask"]
  BY DEF PagingIInv, PagingTypeOK, AskAgain
<1>2. /\ walk'.pc = "ask" /\ walk'.list = walk.list /\ walk'.owner = walk.owner
      /\ walk'.open = walk.open /\ walk'.limit = walk.limit /\ walk'.page = walk.page
      /\ walk'.there = walk.there /\ walk'.seen = walk.seen /\ walk'.left = walk.left
  BY <1>1 DEF Client
<1>3. /\ Where(table', walk') = Where(table, walk)
      /\ \A i : Ahead(table', walk', i) = Ahead(table, walk, i)
  BY <1>1, <1>2, SameQuestion
<1>4. Evenly(walk') = Evenly(walk) /\ Before(walk') = Before(walk)
  BY <1>2 DEF Evenly, Before
<1>5. SeenSoFar(table', walk')
  BY <1>1, <1>2, <1>3, <1>4 DEF PagingIInv, Walk, SeenSoFar
<1> QED BY <1>1, <1>2, <1>5 DEF PagingIInv, Walk, ListIsKnown, CountIsTrue, AllSeen

LEMMA PagingNextHolds == PagingIInv /\ [PagingNext]_pagingVars => PagingIInv'
<1> SUFFICES ASSUME PagingIInv, [PagingNext]_pagingVars PROVE PagingIInv'
  OBVIOUS
<1>t. PagingTypeOK'
  BY PagingNextTyped DEF PagingIInv, Walk, ListIsKnown, Walking
<1>w. Walk(table', walk')
  <2>1. CASE RowsChange
    BY <2>1, RowsKeepWalk
  <2>3. CASE Start
    BY <2>3, StartKeepsWalk
  <2>4. CASE Count
    BY <2>4, CountKeepsWalk
  <2>5. CASE List
    BY <2>5, ListKeepsWalk
  <2>6. CASE AskAgain
    BY <2>6, AskAgainKeepsWalk
  <2>7. CASE UNCHANGED pagingVars
    BY <2>7 DEF pagingVars, PagingIInv
  <2> QED BY <2>1, <2>3, <2>4, <2>5, <2>6, <2>7 DEF PagingNext, RowsChange
<1> QED BY <1>t, <1>w DEF PagingIInv

LEMMA PagingIsInductive == PagingSpec => []PagingIInv
BY PagingInitHolds, PagingNextHolds, PTL DEF PagingSpec

(* The lists keep their types, and a client never gets beyond the page     *)
(* after the last row a table can hold.                                    *)
THEOREM PagingTypeCorrect == PagingSpec => []PagingTypeOK
<1>1. PagingIInv => PagingTypeOK
  BY DEF PagingIInv
<1> QED BY <1>1, PagingIsInductive, PTL

(* For every table, every list and every limit asked for: a client that    *)
(* walks to the last page announced has seen every row that was there when *)
(* it started, whatever was added meanwhile, unless a row was added to its *)
(* list or entered it between the two statements of its last call, or one  *)
(* left it or, a holiday, was moved to another day; apart from the lists   *)
(* that announce more rows a page than they send (Overasked).              *)
THEOREM WalksAreComplete == PagingSpec => []WalkSeesAll
<1>1. PagingIInv => WalkSeesAll
  <2> SUFFICES ASSUME PagingIInv PROVE WalkSeesAll
    OBVIOUS
  <2>1. AllSeen(walk)
    BY DEF PagingIInv, Walk
  <2>2. walk.pc = "ended" <=> ~Walking
    BY DEF Walking
  <2>3. Evenly(walk) <=> ~Overasked
    BY DEF Evenly, Overasked
  <2> QED BY <2>1, <2>2, <2>3 DEF AllSeen, WalkSeesAll
<1> QED BY <1>1, PagingIsInductive, PTL

(* No list announces a page smaller than it sends.                         *)
LEMMA PagesAreNotUnderstated ==
    ASSUME NEW list \in Lists, NEW limit \in Nat
    PROVE  Limit(list, limit) <= PerPage(list, limit)
<1>1. \A n \in Nat : /\ Cap(n) \in Nat /\ Floor(n) \in Nat /\ Cap(n) <= Floor(n)
                     /\ (n > 0 => Floor(n) = n) /\ Cap(Cap(n)) = Cap(n)
  BY PagingAssumption DEF Cap, Floor
<1> DEFINE n == Ask(list, limit)
<1>2. /\ n \in Nat
      /\ n > 0 \/ list \in {"payments", "disbursements"}
      /\ list = "mutations" => n <= MaxLimit
  <2>1. \A k \in Nat : /\ AskMutations(k) \in Nat \ {0} /\ AskMutations(k) <= MaxLimit
                       /\ Floor(k) \in Nat \ {0}
    BY PagingAssumption DEF AskMutations, Floor
  <2> QED
    BY <2>1, PagingAssumption
    DEF AllLists, Ask, AskPayments, AskDisbursements, AskWebhookEvents, AskMerchants,
        AskAllPayments, AskAllDisbursements, AskAllMutations, AskAdmins, AskHolidays
<1> HIDE DEF n
<1>3. Repository(list, Listed(list, n).limit).limit <= Listed(list, n).per_page
  BY <1>1, <1>2, PagingAssumption
  DEF AllLists, Listed, Announce, ListPayments, ListDisbursements, ListMutations,
      ListWebhookEvents, ListMerchants, ListAllPayments, ListAllDisbursements,
      ListAllMutations, ListAdmins, ListHolidays, Repository, Query, PaymentRepoList,
      DisbursementRepoList, MutationRepoList, OutboxListByMerchant, MerchantRepoList,
      AdminRepoList, FeeRepoListHolidays
<1> QED BY <1>3 DEF Limit, Statement, PerPage, n

(* A client under way has not gone beyond the rows counted.                *)
InRange(w) == w.pc # "ended" => (w.page - 1) * PerPage(w.list, w.limit) <= MaxRows

LEMMA NextInRange ==
    ASSUME PagingIInv, InRange(walk), [PagingNext]_pagingVars
    PROVE  InRange(walk')
<1>0. walk \in Client(DOMAIN table) /\ table \in Seq(Row)
  BY DEF PagingIInv, PagingTypeOK
<1>1. ASSUME walk'.pc # "ended" => walk.pc # "ended",
             walk'.list = walk.list, walk'.limit = walk.limit, walk'.page = walk.page
      PROVE  InRange(walk')
  BY <1>1 DEF InRange
<1>2. CASE RowsChange
  <2>1. PICK rows : Becomes(rows)
    BY <1>2, RowsRemain DEF PagingIInv
  <2> QED BY <1>0, <1>1, <2>1, ClientNotices
<1>4. CASE Start
  <2>1. PICK list \in Lists, limit \in Asks :
          \E owner, open :
          LET w == [Ended EXCEPT !.pc = "ask", !.list = list, !.owner = owner,
                                 !.open = open, !.limit = limit]
          IN  walk' = [w EXCEPT !.there = Where(table, w)]
    BY <1>4 DEF Start
  <2>2. walk'.list = list /\ walk'.limit = limit /\ walk'.page = 1
    BY <2>1 DEF Ended
  <2>3. PerPage(list, limit) \in Nat
    BY LimitsArePositive, PagingAssumption
  <2> QED BY <2>2, <2>3, PagingAssumption DEF InRange
<1>5. CASE Count
  <2>1. PICK total, pc : walk' = [walk EXCEPT !.total = total, !.raced = FALSE, !.pc = pc]
    BY <1>5 DEF Count
  <2>2. walk.pc = "ask"
    BY <1>5 DEF Count
  <2> QED BY <1>0, <1>1, <2>1, <2>2 DEF Client
<1>6. CASE List
  <2> DEFINE per == PerPage(walk.list, walk.limit)
  <2> DEFINE pages == TotalPages(walk.total, per)
  <2>1. /\ walk.pc = "counted" /\ walk.list \in Lists /\ walk.limit \in Nat
        /\ walk.page \in Nat \ {0} /\ walk.total \in Nat /\ walk.total <= MaxRows
    <3>1. walk.pc = "counted" /\ walk.list # "none"
      BY <1>6 DEF List, PagingIInv, Walk, ListIsKnown
    <3> QED BY <1>0, <3>1, ClientFields, PagingAssumption
  <2>2. per \in Nat \ {0}
    BY <2>1, LimitsArePositive
  <2>3. pages \in Nat /\ (walk.page < pages => walk.page * per < walk.total)
    BY <2>1, <2>2, PagesCover
  <2>4. PICK seen, pc, page :
          /\ walk' = [walk EXCEPT !.seen = seen, !.pc = pc, !.page = page]
          /\ pc # "ended" => walk.page < pages /\ page = walk.page + 1
    <3>1. CASE walk.page >= pages
      <4>1. PICK seen : walk' = [walk EXCEPT !.seen = seen, !.pc = "ended", !.page = walk.page]
        BY <1>6, <3>1 DEF List
      <4> QED BY <4>1
    <3>2. CASE ~(walk.page >= pages)
      <4>1. PICK seen : walk' = [walk EXCEPT !.seen = seen, !.pc = "ask", !.page = walk.page + 1]
        BY <1>6, <3>2 DEF List
      <4>2. walk.page < pages
        BY <2>1, <2>3, <3>2
      <4> HIDE DEF pages
      <4> QED BY <4>1, <4>2
    <3> QED BY <3>1, <3>2
  <2>5. walk'.pc = pc /\ walk'.page = page /\ walk'.list = walk.list /\ walk'.limit = walk.limit
    BY <1>0, <2>4 DEF Client
  <2>6. ASSUME pc # "ended" PROVE (page - 1) * per <= MaxRows
    <3>1. page - 1 = walk.page /\ walk.page * per < walk.total
      BY <2>1, <2>3, <2>4, <2>6
    <3>2. walk.page * per <= MaxRows
      BY <2>1, <2>2, <3>1, PagingAssumption
    <3> QED BY <3>1, <3>2
  <2> QED BY <2>5, <2>6 DEF InRange
<1>7. CASE AskAgain
  BY <1>0, <1>1, <1>7 DEF AskAgain, Client
<1>8. CASE UNCHANGED pagingVars
  BY <1>1, <1>8 DEF pagingVars
<1> QED BY <1>2, <1>4, <1>5, <1>6, <1>7, <1>8 DEF PagingNext, RowsChange

(* The comment on List (payment_repo.go:186) holds for the pages that were *)
(* announced: their offsets survive the cut to 32 bits, for every list,    *)
(* limit and table of fewer than 2^31 rows.                                *)
THEOREM AnnouncedOffsets == PagingSpec => []AnnouncedOffsetsFit
<1> DEFINE Inv == PagingIInv /\ InRange(walk)
<1>1. PagingInit => Inv
  BY PagingInitHolds DEF PagingInit, Ended, InRange
<1>2. Inv /\ [PagingNext]_pagingVars => Inv'
  BY PagingNextHolds, NextInRange
<1>3. Inv => AnnouncedOffsetsFit
  <2> SUFFICES ASSUME Inv, Walking PROVE AnnouncedOffsetsFit
    BY DEF AnnouncedOffsetsFit
  <2> DEFINE size == Limit(walk.list, walk.limit)
  <2> DEFINE per == PerPage(walk.list, walk.limit)
  <2>1. walk.list \in Lists /\ walk.limit \in Nat /\ walk.page \in Nat \ {0}
    <3>1. walk \in Client(DOMAIN table) /\ walk.list # "none"
      BY DEF PagingIInv, PagingTypeOK, Walk, ListIsKnown, Walking
    <3> QED BY <3>1, ClientFields
  <2>2. size \in Nat /\ per \in Nat /\ size <= per /\ (walk.page - 1) * per <= MaxRows
    BY <2>1, LimitsArePositive, PagesAreNotUnderstated DEF InRange, Walking
  <2> HIDE DEF size, per
  <2>3. (walk.page - 1) * size <= (walk.page - 1) * per
    BY <2>1, <2>2
  <2>4. (walk.page - 1) * size <= MaxRows
    BY <2>1, <2>2, <2>3, PagingAssumption
  <2>5. Offset(walk.page, size) = (walk.page - 1) * size
    BY <2>1, <2>2, <2>4, OffsetsFit
  <2> QED BY <2>5 DEF AnnouncedOffsetsFit, size
<1> QED BY <1>1, <1>2, <1>3, PTL DEF PagingSpec
=============================================================================
