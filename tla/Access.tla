------------------------------- MODULE Access -------------------------------
(***************************************************************************)
(* Who may do what, and for how long: the sessions of the admins           *)
(* (usecase/impl/admin.go, pkg/jwtutil), the routes and their roles        *)
(* (delivery/http/router.go), the handlers, and the keys of a merchant     *)
(* (delivery/http/middleware).                                             *)
(*                                                                         *)
(* Any number of requests run at a time.  Each is authenticated when it    *)
(* arrives and takes effect later; nothing looks at its caller again.      *)
(* After RequestTimeout its context ends (server.go:52-58), and with it    *)
(* what the database and the providers do for it, but not the request: the *)
(* body is read without a deadline, and DOKU's token mutex knows no        *)
(* context.  Time is kept as ages: of a request, of the newest tokens of   *)
(* an admin (an older pair allows nothing that the newest does not), of a  *)
(* deactivation, of the end of a key.  Overlapping writes of a merchant's  *)
(* row are the subject of module Merchant; here each is one step.          *)
(***************************************************************************)
EXTENDS Integers, FiniteSets

CONSTANTS Admins,
          Keys, NoKey,             \* API keys of the merchant
          Requests, Does,          \* requests, and what each is used for
          Nobody,                  \* caller or object of a request at rest
          AccessTTL, RefreshTTL,   \* of the two tokens, in ticks
          RequestTimeout

Roles == {"super_admin", "ops", "finance"}

ASSUME AccessAssumption ==
    /\ NoKey \notin Keys /\ Nobody \notin Admins \cup Keys /\ Admins \cap Keys = {}
    /\ {AccessTTL, RefreshTTL, RequestTimeout} \subseteq Nat \ {0}

VARIABLES admin,     \* the rows of the admins; since: ticks since deactivation,
                     \* or since an overdue request issued tokens after it
          session,   \* age of an admin's newest tokens
          merchant,  \* the merchant's row
          off,       \* ticks since a key stopped being good
          req        \* the requests

vars == <<admin, session, merchant, off, req>>

(* The bounds of the three ages: beyond them nothing depends on them.      *)
Gone == (IF AccessTTL > RefreshTTL THEN AccessTTL ELSE RefreshTTL) + 1
PowerEnd == AccessTTL + 2 * RequestTimeout
Older(n, bound) == IF n < bound THEN n + 1 ELSE bound

-----------------------------------------------------------------------------
(* The routes                                                              *)

Supers == {"super_admin"}

(* registerAdminRoutes: what ops may do, what finance may, and nobody else *)
(* but a super admin; the routes left ask for any role.                    *)
ForOps == {"CreateMerchant", "ApproveMerchant", "SuspendMerchant", "DeactivateMerchant",
           "RegenerateAPIKey", "VerifyBankAccount"}

ForFinance == {"SetMerchantFee", "UpdateCashoutLimit", "ListAllMutations",
               "GetProviderBalances", "UpdateProviderBalance", "GetFeeDefault",
               "UpdateFeeDefault", "GetPlatformMargin", "ListHolidays", "CreateHoliday",
               "UpdateHoliday"}

ForSupers == {"DeleteMerchant", "UpdatePlatformMargin", "CreateAdmin", "ListAdmins",
              "DeactivateAdmin"}

(* RequireRole: the roles a route asks for.                                *)
Allowed(o) ==
    {role \in Roles : /\ role = "ops" => o \notin ForFinance \cup ForSupers
                      /\ role = "finance" => o \notin ForOps \cup ForSupers}

(* Register: the routes of merchants, behind the key, and of providers.    *)
MerchantOps == {"Pay", "CancelPayment", "CashOut", "UpdateMerchant", "RegenerateOwnKey",
                "OwnAccounts", "SeeOwn", "SeePayment", "SeeDisbursement", "SeeMutation"}

Public == {"Login", "RefreshToken", "Notify"}

Ops == {"none"} \cup Public \cup MerchantOps \cup UNION {Does[r] : r \in Requests}

-----------------------------------------------------------------------------
(* Rows and ages                                                           *)

Absent == [st |-> "absent", role |-> "none", since |-> 0]
Active(role) == [st |-> "active", role |-> role, since |-> 0]

IsActive(a) == admin[a].st = "active"

ActiveSupers == {a \in Admins : IsActive(a) /\ admin[a].role = "super_admin"}

NoMerchant == [status |-> "absent", url |-> FALSE, key |-> NoKey]

CanTransact(m) == m.status = "active" /\ m.url

Good(m, k) == m.key = k /\ CanTransact(m)

(* A merchant's row is written; a key that was good has just ended.        *)
Write(m) ==
    /\ merchant' = m
    /\ off' = [k \in Keys |-> IF Good(merchant, k) \/ Good(m, k) THEN 0 ELSE off[k]]

Exists == merchant.status \notin {"absent", "deleted"}

Idle == [pc |-> "idle", op |-> "none", who |-> Nobody, age |-> 0]

(* generateAPIKey: a key that nobody has in hand.                          *)
Fresh(k) ==
    /\ off[k] > RequestTimeout /\ merchant.key # k
    /\ \A r \in Requests : req[r].who # k

Init ==
    /\ \E first \in Admins :       \* wanpey seed admin
          admin = [a \in Admins |-> IF a = first THEN Active("super_admin") ELSE Absent]
    /\ session = [a \in Admins |-> Gone]
    /\ merchant = NoMerchant
    /\ off = [k \in Keys |-> RequestTimeout + 1]
    /\ req = [r \in Requests |-> Idle]

-----------------------------------------------------------------------------
(* A request arrives                                                       *)

AtRest(r) == req[r].pc \in {"idle", "done"}

Arrive(r, pc, o, who) ==
    req' = [req EXCEPT ![r] = [Idle EXCEPT !.pc = pc, !.op = o, !.who = who]]

(* jwtutil.Verify and the type of the token: signature and end, no row.    *)
VerifyAccess(a) == session[a] <= AccessTTL
VerifyRefresh(a) == session[a] <= RefreshTTL

AdminJWTAuth(r) ==
    /\ AtRest(r)
    /\ \E a \in Admins, o \in Does[r] \ (Public \cup MerchantOps) :
          /\ VerifyAccess(a)
          /\ admin[a].role \in Allowed(o)     \* as in the token: roles do not change
          /\ Arrive(r, "handling", o, a)
    /\ UNCHANGED <<admin, session, merchant, off>>

(* Mutant: the merchant's status is not looked at. *)
AuthWithoutStatus(r) ==
    /\ AtRest(r)
    /\ \E k \in Keys, o \in Does[r] \cap MerchantOps :
          merchant.key = k /\ Exists /\ Arrive(r, "handling", o, k)
    /\ UNCHANGED <<admin, session, merchant, off>>

APIKeyAuth(r) ==
    /\ AtRest(r)
    /\ \E k \in Keys, o \in Does[r] \cap MerchantOps :
          Good(merchant, k) /\ Arrive(r, "handling", o, k)
    /\ UNCHANGED <<admin, session, merchant, off>>

Login(r) ==
    /\ AtRest(r) /\ "Login" \in Does[r]
    /\ \E a \in Admins : IsActive(a) /\ Arrive(r, "issuing", "Login", a)
    /\ UNCHANGED <<admin, session, merchant, off>>

(* Mutant: a refresh that trusts its token. *)
RefreshUnchecked(r) ==
    /\ AtRest(r) /\ "RefreshToken" \in Does[r]
    /\ \E a \in Admins : VerifyRefresh(a) /\ Arrive(r, "issuing", "RefreshToken", a)
    /\ UNCHANGED <<admin, session, merchant, off>>

RefreshToken(r) ==
    /\ AtRest(r) /\ "RefreshToken" \in Does[r]
    /\ \E a \in Admins :
          VerifyRefresh(a) /\ IsActive(a) /\ Arrive(r, "issuing", "RefreshToken", a)
    /\ UNCHANGED <<admin, session, merchant, off>>

(* WebhookIPAllowlist lets a callback through that comes from an address   *)
(* of its provider; the adapter verifies its signature.                    *)
WebhookIPAllowlist(r) ==
    /\ AtRest(r) /\ "Notify" \in Does[r]
    /\ Arrive(r, "handling", "Notify", Nobody)
    /\ UNCHANGED <<admin, session, merchant, off>>

Overdue(r) == req[r].age > RequestTimeout

(* issueTokens, after the row was read.  It computes and asks nobody, so   *)
(* that the end of the context does not stop it.                           *)
IssueTokens(r) ==
    /\ req[r].pc = "issuing"
    /\ session' = [session EXCEPT ![req[r].who] = 0]
    /\ admin' = [admin EXCEPT ![req[r].who].since = IF Overdue(r) THEN 0 ELSE @]
    /\ req' = [req EXCEPT ![r] = Idle]
    /\ UNCHANGED <<merchant, off>>

-----------------------------------------------------------------------------
(* A request takes effect                                                  *)

(* Whatever a handler does goes through the database, or to a provider,    *)
(* with the context of the request.                                        *)
Handles(r, ops) == req[r].pc = "handling" /\ req[r].op \in ops /\ ~Overdue(r)

Done(r) == req' = [req EXCEPT ![r] = [Idle EXCEPT !.pc = "done"]]

(* What the handler does shows in other modules or is a mere read.         *)
Elsewhere(r) == Done(r) /\ UNCHANGED <<admin, session, merchant, off>>

(* An error of the binder, the validator, the use case or the database, or *)
(* the end of the context; globalErrorHandler answers.                     *)
Fail(r) ==
    /\ req[r].pc \in {"handling", "issuing"}
    /\ req' = [req EXCEPT ![r] = Idle]
    /\ UNCHANGED <<admin, session, merchant, off>>

Self(r) == Handles(r, {"GetMe", "ChangePassword"}) /\ Elsewhere(r)

(* InsertAdmin: the email is unique.                                       *)
InsertAdmin(a, role) ==
    admin[a] = Absent /\ admin' = [admin EXCEPT ![a] = Active(role)]

CreateAdmin(r) ==
    /\ Handles(r, {"CreateAdmin"})
    /\ \E a \in Admins, role \in Roles : InsertAdmin(a, role)
    /\ Done(r)
    /\ UNCHANGED <<session, merchant, off>>

UpdateAdmin(a) ==
    admin' = IF IsActive(a) THEN [admin EXCEPT ![a].st = "inactive"] ELSE admin

(* Mutant: without "cannot deactivate your own account". *)
DeactivateAnyAdmin(r) ==
    /\ Handles(r, {"DeactivateAdmin"})
    /\ \E a \in Admins : admin[a] # Absent /\ UpdateAdmin(a)
    /\ Done(r)
    /\ UNCHANGED <<session, merchant, off>>

DeactivateAdmin(r) ==
    /\ Handles(r, {"DeactivateAdmin"})
    /\ \E a \in Admins : a # req[r].who /\ admin[a] # Absent /\ UpdateAdmin(a)
    /\ Done(r)
    /\ UNCHANGED <<session, merchant, off>>

(* Create: the email is unique, too.                                       *)
InsertMerchant(url) ==
    /\ merchant = NoMerchant
    /\ \E k \in Keys : Fresh(k) /\ Write([status |-> "pending", url |-> url, key |-> k])

CreateMerchant(r) ==
    /\ Handles(r, {"CreateMerchant"})
    /\ \E url \in BOOLEAN : InsertMerchant(url)
    /\ Done(r)
    /\ UNCHANGED <<admin, session>>

(* From any status to any: none of the three looks at the old one.         *)
NewStatus(o) ==
    CASE o = "ApproveMerchant" -> "active"
      [] o = "SuspendMerchant" -> "suspended"
      [] o = "DeactivateMerchant" -> "inactive"

SetStatus(r) ==
    /\ Handles(r, {"ApproveMerchant", "SuspendMerchant", "DeactivateMerchant"})
    /\ Exists
    /\ Write([merchant EXCEPT !.status = NewStatus(req[r].op)])
    /\ Done(r)
    /\ UNCHANGED <<admin, session>>

DeleteMerchant(r) ==
    /\ Handles(r, {"DeleteMerchant"})
    /\ Write(IF Exists THEN [merchant EXCEPT !.status = "deleted"] ELSE merchant)
    /\ Done(r)
    /\ UNCHANGED <<admin, session>>

(* By an admin or by the merchant itself.                                  *)
RegenerateAPIKey(r) ==
    /\ Handles(r, {"RegenerateAPIKey", "RegenerateOwnKey"})
    /\ Exists
    /\ \E k \in Keys : Fresh(k) /\ Write([merchant EXCEPT !.key = k])
    /\ Done(r)
    /\ UNCHANGED <<admin, session>>

(* An empty URL in the body means no change; no other operation sets one.  *)
UpdateMerchant(r) ==
    /\ Handles(r, {"UpdateMerchant"})
    /\ Exists
    /\ \E url \in BOOLEAN : Write([merchant EXCEPT !.url = @ \/ url])
    /\ Done(r)
    /\ UNCHANGED <<admin, session>>

MerchantTerms(r) ==
    Handles(r, {"SetMerchantFee", "UpdateCashoutLimit"}) /\ Exists /\ Elsewhere(r)

BankAccounts(r) == Handles(r, {"VerifyBankAccount"}) /\ Elsewhere(r)

OwnAccounts(r) == Handles(r, {"OwnAccounts"}) /\ Elsewhere(r)

ProviderBalances(r) ==
    Handles(r, {"GetProviderBalances", "UpdateProviderBalance"}) /\ Elsewhere(r)

(* Changes of the default fee and of the margin look the admin up for the  *)
(* log: its row has to be there, not to be active.                         *)
FeeManagement(r) ==
    Handles(r, {"GetFeeDefault", "UpdateFeeDefault", "GetPlatformMargin",
                "UpdatePlatformMargin"}) /\ Elsewhere(r)

Holidays(r) == Handles(r, {"CreateHoliday", "UpdateHoliday"}) /\ Elsewhere(r)

LookAtMerchant(r) == Handles(r, {"GetMerchant"}) /\ Elsewhere(r)

LookAtPayment(r) == Handles(r, {"GetPayment"}) /\ Elsewhere(r)

LookAtDisbursement(r) == Handles(r, {"GetDisbursement"}) /\ Elsewhere(r)

(* Behind a key: its own rows only, another merchant's are not found.      *)
SeeOwn(r) == Handles(r, {"SeeOwn"}) /\ Elsewhere(r)

SeePayment(r) == Handles(r, {"SeePayment"}) /\ Elsewhere(r)

SeeDisbursement(r) == Handles(r, {"SeeDisbursement"}) /\ Elsewhere(r)

SeeMutation(r) == Handles(r, {"SeeMutation"}) /\ Elsewhere(r)

HandleWebhook(r) == Handles(r, {"Notify"}) /\ Elsewhere(r)

Pay(r) == Handles(r, {"Pay"}) /\ Elsewhere(r)

CancelPayment(r) == Handles(r, {"CancelPayment"}) /\ Elsewhere(r)

CashOut(r) == Handles(r, {"CashOut"}) /\ Elsewhere(r)

-----------------------------------------------------------------------------
Busy(r) == req[r].pc \in {"handling", "issuing"}

Tick ==
    /\ req' = [r \in Requests |->
                  IF Busy(r) THEN [req[r] EXCEPT !.age = Older(@, RequestTimeout + 1)]
                  ELSE req[r]]
    /\ session' = [a \in Admins |-> Older(session[a], Gone)]
    /\ admin' = [a \in Admins |-> IF admin[a].st = "inactive"
                                  THEN [admin[a] EXCEPT !.since = Older(@, PowerEnd + 1)]
                                  ELSE admin[a]]
    /\ off' = [k \in Keys |-> IF Good(merchant, k) THEN 0 ELSE Older(off[k], RequestTimeout + 1)]
    /\ UNCHANGED merchant

Next ==
    \/ \E r \in Requests :
          \/ AdminJWTAuth(r) \/ APIKeyAuth(r) \/ WebhookIPAllowlist(r)
          \/ Login(r) \/ RefreshToken(r) \/ IssueTokens(r)
          \/ Self(r) \/ CreateAdmin(r) \/ DeactivateAdmin(r)
          \/ CreateMerchant(r) \/ SetStatus(r) \/ DeleteMerchant(r) \/ RegenerateAPIKey(r)
          \/ UpdateMerchant(r) \/ MerchantTerms(r) \/ BankAccounts(r) \/ OwnAccounts(r)
          \/ ProviderBalances(r) \/ FeeManagement(r) \/ Holidays(r)
          \/ LookAtMerchant(r) \/ LookAtPayment(r) \/ LookAtDisbursement(r)
          \/ SeeOwn(r) \/ SeePayment(r) \/ SeeDisbursement(r) \/ SeeMutation(r)
          \/ Pay(r) \/ CancelPayment(r) \/ CashOut(r) \/ HandleWebhook(r) \/ Fail(r)
    \/ Tick

Spec == Init /\ [][Next]_vars

-----------------------------------------------------------------------------
(* Properties                                                              *)

(* Types and the bounds of the ages.                                       *)
TypeOK ==
    /\ admin \in [Admins -> [st : {"absent", "active", "inactive"}, role : Roles \cup {"none"},
                          since : 0..(PowerEnd + 1)]]
    /\ session \in [Admins -> 0..Gone]
    /\ merchant \in [status : {"absent", "pending", "active", "suspended", "inactive", "deleted"},
                     url : BOOLEAN, key : Keys \cup {NoKey}]
    /\ off \in [Keys -> 0..(RequestTimeout + 1)]
    /\ req \in [Requests -> [pc : {"idle", "handling", "issuing", "done"}, op : Ops,
                            who : Admins \cup Keys \cup {Nobody}, age : 0..(RequestTimeout + 1)]]

TakesEffect(r) == req[r].pc = "handling" /\ req'[r].pc = "done"

(* An admin can do nothing any more once its access tokens must have ended:*)
(* the last one was issued at most a request after its deactivation, but   *)
(* for a login or refresh that was overdue, from which the time counts     *)
(* then, and used at most a request before (admin.go:73-109,               *)
(* admin_auth.go:21-41).                                                   *)
PowerEnds ==
    [][\A r \in Requests : TakesEffect(r) /\ req[r].who \in Admins =>
                              admin[req[r].who].since <= PowerEnd]_vars

(* Nothing takes effect under a key for longer than one request after the  *)
(* key was replaced or its merchant suspended, deactivated or deleted      *)
(* (auth.go:34-57).                                                        *)
KeyPowerEnds ==
    [][\A r \in Requests : TakesEffect(r) /\ req[r].who \in Keys =>
                              off[req[r].who] <= RequestTimeout]_vars

(* The last active super admin falls, if at all, to one that is no longer  *)
(* active itself, and whose session has survived (admin.go:387-397).       *)
LastSuperAdminFalls ==
    [][ActiveSupers # {} /\ ActiveSupers' = {} =>
         \E r \in Requests : /\ TakesEffect(r) /\ req[r].who \in Admins
                             /\ admin[req[r].who].st = "inactive"]_vars

-----------------------------------------------------------------------------
(* What the documentation says and the code does not do                    *)

(* admin_handler.go:228: "Activates a pending merchant so they can start   *)
(* transacting".  Without a webhook URL it cannot, nor can it set one.     *)
ApprovedCanTransact == merchant.status = "active" => CanTransact(merchant)
=============================================================================
