------------------------------ MODULE Merchant ------------------------------
(***************************************************************************)
(* One merchant and its bank accounts (internal/usecase/impl/merchant.go,  *)
(* the merchant operations of admin.go, APIKeyAuth): the merchant's own    *)
(* calls, which authenticate with the API key, and those of admins.        *)
(*                                                                         *)
(* No operation but the addition of an account runs in a transaction.      *)
(* Each reads a row, changes its copy, and writes all columns of the copy  *)
(* back.  Of the columns, those are kept that decide about a call or a     *)
(* payout; "profile" is any operation on the others (the profile, the      *)
(* contract fee, the daily limit), which writes those that are kept too.   *)
(***************************************************************************)
CONSTANTS Calls,        \* requests
          Accounts,     \* rows of merchant_bank_accounts
          FirstKey,     \* the API key the merchant was created with
          NoAccount     \* the account of a call that is not about one

ASSUME MerchantAssumption == FirstKey \notin Calls /\ NoAccount \notin Accounts

VARIABLES merchant,     \* the row of table merchants
          accounts,     \* table merchant_bank_accounts
          call          \* requests with what they have read

vars == <<merchant, accounts, call>>

Status == {"pending", "active", "suspended", "inactive"}

(* A key is named after the call that generated it.                        *)
Keys == Calls \cup {FirstKey}

MerchantRow == [status : Status, api_key : Keys, deleted : BOOLEAN]

Account == [exists : BOOLEAN, is_primary : BOOLEAN, is_verified : BOOLEAN]

NoRow == [exists |-> FALSE, is_primary |-> FALSE, is_verified |-> FALSE]

OwnMerchantOps  == {"profile", "regenerate"}
OwnAccountOps   == {"add", "remove", "set_primary"}
AdminMerchantOps == {"profile", "regenerate", "approve", "suspend", "deactivate"}

(* A request, and its copy of the row it has read.                         *)
Call ==
    [pc : {"idle", "authenticated", "read", "found", "unset", "done", "failed"},
     op : {"none", "delete", "verify"} \cup AdminMerchantOps \cup OwnAccountOps,
     view : MerchantRow, account : Accounts \cup {NoAccount}, copy : Account]

PrimaryOf(table) == {a \in Accounts : table[a].is_primary}

(* An account is primary that was inserted as such: cmd/api/seed_dev.go.   *)
Init ==
    /\ merchant = [status |-> "pending", api_key |-> FirstKey, deleted |-> FALSE]
    /\ accounts \in [Accounts -> {a \in Account : ~a.exists => a = NoRow}]
    /\ \E a \in Accounts : PrimaryOf(accounts) = {a}
    /\ call = [c \in Calls |->
           [pc |-> "idle", op |-> "none", view |-> merchant, account |-> NoAccount,
            copy |-> NoRow]]

-----------------------------------------------------------------------------
(* Rows of the merchant                                                    *)

CanTransact == ~merchant.deleted /\ merchant.status = "active"

(* The key is that of a merchant that is not deleted and may transact.     *)
APIKeyAuth(c) ==
    /\ call[c].pc = "idle"
    /\ CanTransact
    /\ call' = [call EXCEPT ![c].pc = "authenticated"]
    /\ UNCHANGED <<merchant, accounts>>

FindByID(c) ==
    /\ ~merchant.deleted
    /\ \E op \in OwnMerchantOps \cup AdminMerchantOps :
        /\ \/ call[c].pc = "authenticated" /\ op \in OwnMerchantOps
           \/ call[c].pc = "idle" /\ op \in AdminMerchantOps
        /\ call' = [call EXCEPT ![c].pc = "read", ![c].op = op, ![c].view = merchant]
    /\ UNCHANGED <<merchant, accounts>>

(* Mutant: a new key also reopens the merchant's account.                  *)
ChangedReactivating(c) ==
    LET row == call[c].view
    IN  CASE call[c].op = "regenerate" -> [row EXCEPT !.api_key = c, !.status = "active"]
          [] call[c].op = "approve"    -> [row EXCEPT !.status = "active"]
          [] call[c].op = "suspend"    -> [row EXCEPT !.status = "suspended"]
          [] call[c].op = "deactivate" -> [row EXCEPT !.status = "inactive"]
          [] OTHER -> row

(* The copy with the change: RegenerateAPIKey, Activate, Suspend,          *)
(* DeactivateMerchant; Update, UpdateMerchantFee, UpdateDailyCashoutLimit. *)
Changed(c) ==
    LET row == call[c].view
    IN  CASE call[c].op = "regenerate" -> [row EXCEPT !.api_key = c]
          [] call[c].op = "approve"    -> [row EXCEPT !.status = "active"]
          [] call[c].op = "suspend"    -> [row EXCEPT !.status = "suspended"]
          [] call[c].op = "deactivate" -> [row EXCEPT !.status = "inactive"]
          [] OTHER -> row

(* Mutant: UpdateMerchant does not look at deleted_at.                     *)
UpdateDeleted(c) ==
    /\ call[c].pc = "read"
    /\ merchant' = [Changed(c) EXCEPT !.deleted = merchant.deleted]
    /\ call' = [call EXCEPT ![c].pc = "done"]
    /\ UNCHANGED accounts

(* merchantRepo.Update; a row deleted meanwhile is not found.              *)
Update(c) ==
    /\ call[c].pc = "read"
    /\ merchant' = IF merchant.deleted THEN merchant ELSE Changed(c)
    /\ call' = [call EXCEPT ![c].pc = IF merchant.deleted THEN "failed" ELSE "done"]
    /\ UNCHANGED accounts

DeleteMerchant(c) ==
    /\ call[c].pc = "idle"
    /\ merchant' = [merchant EXCEPT !.deleted = TRUE]
    /\ call' = [call EXCEPT ![c].pc = "done", ![c].op = "delete"]
    /\ UNCHANGED accounts

-----------------------------------------------------------------------------
(* Bank accounts                                                           *)

(* CountBankAccounts is the first statement of the transaction: it counts  *)
(* FOR UPDATE, and PostgreSQL refuses to lock the rows of an aggregate.    *)
(* No account is ever added this way.                                      *)
AddBankAccount(c) ==
    /\ call[c].pc = "authenticated"
    /\ call' = [call EXCEPT ![c].pc = "failed", ![c].op = "add"]
    /\ UNCHANGED <<merchant, accounts>>

(* Mutant: a primary account may be removed.                               *)
FindAnyAccount(c, a) ==
    /\ accounts[a].exists
    /\ \E op \in {"verify", "remove", "set_primary"} :
        /\ \/ call[c].pc = "authenticated" /\ op \in OwnAccountOps
           \/ call[c].pc = "idle" /\ op = "verify"
        /\ call' = [call EXCEPT ![c].pc = "found", ![c].op = op, ![c].account = a,
                                ![c].copy = accounts[a]]
    /\ UNCHANGED <<merchant, accounts>>

(* The read of VerifyBankAccount, RemoveBankAccount, SetPrimaryBankAccount *)
(* and their checks.                                                       *)
FindBankAccountByID(c, a) ==
    /\ accounts[a].exists
    /\ \E op \in {"verify", "remove", "set_primary"} :
        /\ \/ call[c].pc = "authenticated" /\ op \in OwnAccountOps
           \/ call[c].pc = "idle" /\ op = "verify"
        /\ op = "remove" => ~accounts[a].is_primary
        /\ call' = [call EXCEPT ![c].pc = "found", ![c].op = op, ![c].account = a,
                                ![c].copy = accounts[a]]
    /\ UNCHANGED <<merchant, accounts>>

UnsetPrimaryBankAccounts(c) ==
    /\ call[c].pc = "found" /\ call[c].op = "set_primary"
    /\ accounts' = [a \in Accounts |-> [accounts[a] EXCEPT !.is_primary = FALSE]]
    /\ call' = [call EXCEPT ![c].pc = "unset"]
    /\ UNCHANGED merchant

(* The copy with the change; the rest of it is as it was read.             *)
ChangedAccount(c) ==
    IF call[c].op = "verify" THEN [call[c].copy EXCEPT !.is_verified = TRUE]
                             ELSE [call[c].copy EXCEPT !.is_primary = TRUE]

WritesAccount(c) ==
    \/ call[c].pc = "found" /\ call[c].op = "verify"
    \/ call[c].pc = "unset"

(* The row may be gone by now; the index refuses a second primary account. *)
UpdateBankAccount(c) ==
    LET a == call[c].account
    IN  /\ WritesAccount(c)
        /\ accounts[a].exists
        /\ ChangedAccount(c).is_primary => PrimaryOf(accounts) \subseteq {a}
        /\ accounts' = [accounts EXCEPT ![a] = ChangedAccount(c)]
        /\ call' = [call EXCEPT ![c].pc = "done"]
        /\ UNCHANGED merchant

DeleteBankAccount(c) ==
    /\ call[c].pc = "found" /\ call[c].op = "remove"
    /\ accounts' = [accounts EXCEPT ![call[c].account] = NoRow]
    /\ call' = [call EXCEPT ![c].pc = "done"]
    /\ UNCHANGED merchant

-----------------------------------------------------------------------------
(* A statement fails, or the request ends: nothing is undone.              *)
Fail(c) ==
    /\ call[c].pc \in {"authenticated", "read", "found", "unset"}
    /\ call' = [call EXCEPT ![c].pc = "failed"]
    /\ UNCHANGED <<merchant, accounts>>

Step(c) ==
    \/ APIKeyAuth(c) \/ FindByID(c) \/ Update(c) \/ DeleteMerchant(c) \/ AddBankAccount(c)
    \/ \E a \in Accounts : FindBankAccountByID(c, a)
    \/ UnsetPrimaryBankAccounts(c) \/ UpdateBankAccount(c) \/ DeleteBankAccount(c)
    \/ Fail(c)

Next == \E c \in Calls : Step(c)

Spec == Init /\ [][Next]_vars

-----------------------------------------------------------------------------
(* Properties                                                              *)

(* Every variable stays within its type.                                   *)
TypeOK ==
    /\ merchant \in MerchantRow
    /\ accounts \in [Accounts -> Account]
    /\ call \in [Calls -> Call]

(* A deleted merchant stays as it was, whatever calls had read it before   *)
(* (entity/merchant.go:52; merchant.sql:33).                               *)
DeletedIsFrozen == [][merchant.deleted => merchant' = merchant]_vars

Wrote(c) == call[c].pc = "read" /\ call'[c].pc = "done"

(* What an admin has decided about a merchant, and its key, are undone by  *)
(* nothing but another such operation or a call that had read the row      *)
(* before, and writes its whole copy (merchant.go:88-144, admin.go:147-    *)
(* 195).                                                                   *)
LostOnlyToOverlap ==
    [][/\ merchant'.status # merchant.status =>
           \E c \in Calls : /\ Wrote(c)
                            /\ \/ call[c].op \in {"approve", "suspend", "deactivate"}
                               \/ call[c].view.status # merchant.status
       /\ merchant'.api_key # merchant.api_key =>
           \E c \in Calls : /\ Wrote(c)
                            /\ \/ call[c].op = "regenerate"
                               \/ call[c].view.api_key # merchant.api_key]_vars

(* There are never two primary accounts, although the flag is moved by two *)
(* statements and copies of rows are written back (merchant.go:202-215,    *)
(* uq_merchant_primary_account).                                           *)
OnePrimaryAtMost == \A a, b \in PrimaryOf(accounts) : a = b

(* The primary account gets lost only in the middle of a call that names   *)
(* another, or to a verification or a removal that had read the account    *)
(* before it became primary (merchant.go:188-215, admin.go:203-213).       *)
PrimaryIsKept ==
    [][PrimaryOf(accounts) # {} /\ PrimaryOf(accounts') = {} =>
         \E c \in Calls :
            \/ call[c].pc = "found" /\ call'[c].pc = "unset"
            \/ /\ call[c].pc = "found" /\ call'[c].pc = "done"
               /\ call[c].account \in PrimaryOf(accounts)
               /\ ~call[c].copy.is_primary]_vars

-----------------------------------------------------------------------------
(* What the documentation says and the code does not do                    *)

(* merchant_handler.go:92: "immediately invalidates the old one".          *)
OldKeyIsDead ==
    \A c \in Calls :
        call[c].pc = "done" /\ call[c].op = "regenerate" =>
            merchant.api_key # call[c].view.api_key

(* entity/merchant.go:39: "exactly one must be primary", once all calls    *)
(* have ended.                                                             *)
OneIsPrimary ==
    (\A c \in Calls : call[c].pc \in {"idle", "done"}) => PrimaryOf(accounts) # {}
=============================================================================
