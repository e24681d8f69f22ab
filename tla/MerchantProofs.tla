--------------------------- MODULE MerchantProofs ---------------------------
(***************************************************************************)
(* Theorems about Merchant, for any number of calls and of accounts.       *)
(***************************************************************************)
EXTENDS Merchant, TLAPS

-----------------------------------------------------------------------------
(* Types                                                                   *)

LEMMA ChangedTyped ==
    ASSUME TypeOK, NEW c \in Calls
    PROVE  Changed(c) \in MerchantRow
<1>1. call[c].view \in MerchantRow /\ c \in Keys
  BY DEF TypeOK, Call, Keys
<1> QED
  BY <1>1 DEF Changed, MerchantRow, Status

LEMMA ChangedAccountTyped ==
    ASSUME TypeOK, NEW c \in Calls
    PROVE  ChangedAccount(c) \in Account
<1>1. call[c].copy \in Account
  BY DEF TypeOK, Call
<1>2. /\ [call[c].copy EXCEPT !.is_verified = TRUE] \in Account
      /\ [call[c].copy EXCEPT !.is_primary = TRUE] \in Account
  BY <1>1 DEF Account
<1> QED
  BY <1>2 DEF ChangedAccount

LEMMA InitTyped == Init => TypeOK
BY DEF Init, TypeOK, MerchantRow, Status, Keys, Call, Account, NoRow

LEMMA NextTyped == TypeOK /\ [Next]_vars => TypeOK'
<1> SUFFICES ASSUME TypeOK, [Next]_vars PROVE TypeOK'
  OBVIOUS
<1>1. CASE UNCHANGED vars
  BY <1>1 DEF TypeOK, vars
<1>2. ASSUME NEW c \in Calls, APIKeyAuth(c) PROVE TypeOK'
  BY <1>2 DEF APIKeyAuth, TypeOK, Call
<1>3. ASSUME NEW c \in Calls, FindByID(c) PROVE TypeOK'
  <2>1. PICK op \in OwnMerchantOps \cup AdminMerchantOps :
          call' = [call EXCEPT ![c].pc = "read", ![c].op = op, ![c].view = merchant]
    BY <1>3 DEF FindByID
  <2>2. call[c] \in Call /\ merchant \in MerchantRow /\ op \in AdminMerchantOps
    BY DEF TypeOK, OwnMerchantOps, AdminMerchantOps
  <2>3. [call[c] EXCEPT !.pc = "read", !.op = op, !.view = merchant] \in Call
    BY <2>2, Zenon DEF Call
  <2> QED
    BY <1>3, <2>1, <2>3 DEF FindByID, TypeOK
<1>4. ASSUME NEW c \in Calls, Update(c) PROVE TypeOK'
  BY <1>4, ChangedTyped DEF Update, TypeOK, Call
<1>5. ASSUME NEW c \in Calls, DeleteMerchant(c) PROVE TypeOK'
  <2>1. [merchant EXCEPT !.deleted = TRUE] \in MerchantRow
    BY DEF TypeOK, MerchantRow
  <2>2. call[c] \in Call
    BY DEF TypeOK
  <2>3. [call[c] EXCEPT !.pc = "done", !.op = "delete"] \in Call
    BY <2>2, Zenon DEF Call
  <2> QED
    BY <1>5, <2>1, <2>3 DEF DeleteMerchant, TypeOK
<1>6. ASSUME NEW c \in Calls, AddBankAccount(c) PROVE TypeOK'
  <2>1. call[c] \in Call /\ "add" \in OwnAccountOps
    BY DEF TypeOK, OwnAccountOps
  <2>2. [call[c] EXCEPT !.pc = "failed", !.op = "add"] \in Call
    BY <2>1, Zenon DEF Call
  <2> QED
    BY <1>6, <2>2 DEF AddBankAccount, TypeOK
<1>7. ASSUME NEW c \in Calls, NEW a \in Accounts, FindBankAccountByID(c, a) PROVE TypeOK'
  <2>1. PICK op \in {"verify", "remove", "set_primary"} :
          call' = [call EXCEPT ![c].pc = "found", ![c].op = op, ![c].account = a,
                               ![c].copy = accounts[a]]
    BY <1>7 DEF FindBankAccountByID
  <2>2. call[c] \in Call /\ accounts[a] \in Account /\ op \in {"verify"} \cup OwnAccountOps
    BY DEF TypeOK, OwnAccountOps
  <2>3. [call[c] EXCEPT !.pc = "found", !.op = op, !.account = a, !.copy = accounts[a]] \in Call
    BY <2>2, Zenon DEF Call
  <2> QED
    BY <1>7, <2>1, <2>3 DEF FindBankAccountByID, TypeOK
<1>8. ASSUME NEW c \in Calls, UnsetPrimaryBankAccounts(c) PROVE TypeOK'
  <2>1. \A a \in Accounts : [accounts[a] EXCEPT !.is_primary = FALSE] \in Account
    BY DEF TypeOK, Account
  <2>2. call' \in [Calls -> Call]
    BY <1>8 DEF UnsetPrimaryBankAccounts, TypeOK, Call
  <2> QED
    BY <1>8, <2>1, <2>2 DEF UnsetPrimaryBankAccounts, TypeOK
<1>9. ASSUME NEW c \in Calls, UpdateBankAccount(c) PROVE TypeOK'
  <2>1. accounts' = [accounts EXCEPT ![call[c].account] = ChangedAccount(c)]
        /\ call' = [call EXCEPT ![c].pc = "done"] /\ UNCHANGED merchant
    BY <1>9 DEF UpdateBankAccount
  <2>2. accounts' \in [Accounts -> Account]
    BY <2>1, ChangedAccountTyped DEF TypeOK
  <2>3. call' \in [Calls -> Call]
    BY <2>1 DEF TypeOK, Call
  <2> QED
    BY <2>1, <2>2, <2>3 DEF TypeOK
<1>10. ASSUME NEW c \in Calls, DeleteBankAccount(c) PROVE TypeOK'
  <2>1. NoRow \in Account
    BY DEF NoRow, Account
  <2>2. call' \in [Calls -> Call]
    BY <1>10 DEF DeleteBankAccount, TypeOK, Call
  <2> QED
    BY <1>10, <2>1, <2>2 DEF DeleteBankAccount, TypeOK
<1>11. ASSUME NEW c \in Calls, Fail(c) PROVE TypeOK'
  BY <1>11 DEF Fail, TypeOK, Call
<1> QED
  BY <1>1, <1>2, <1>3, <1>4, <1>5, <1>6, <1>7, <1>8, <1>9, <1>10, <1>11 DEF Next, Step

(* Every variable keeps its type.                                          *)
THEOREM MerchantTypeCorrect == Spec => []TypeOK
BY InitTyped, NextTyped, PTL DEF Spec

-----------------------------------------------------------------------------
(* The merchant's row                                                      *)

(* The only steps that change the row.                                     *)
LEMMA MerchantChanges ==
    ASSUME [Next]_vars
    PROVE  \/ merchant' = merchant
           \/ \E c \in Calls : Update(c) \/ DeleteMerchant(c)
BY DEF Next, Step, vars, APIKeyAuth, FindByID, AddBankAccount, FindBankAccountByID,
       UnsetPrimaryBankAccounts, UpdateBankAccount, DeleteBankAccount, Fail

(* A deleted merchant stays as it was: the calls that had read its row     *)
(* before find no row to write.                                            *)
THEOREM DeletedMerchantsAreFrozen == Spec => DeletedIsFrozen
<1>1. TypeOK /\ [Next]_vars => [merchant.deleted => merchant' = merchant]_vars
  <2> SUFFICES ASSUME TypeOK, [Next]_vars, merchant.deleted PROVE merchant' = merchant
    OBVIOUS
  <2>1. ASSUME NEW c \in Calls, Update(c) PROVE merchant' = merchant
    BY <2>1 DEF Update
  <2>2. ASSUME NEW c \in Calls, DeleteMerchant(c) PROVE merchant' = merchant
    BY <2>2 DEF DeleteMerchant, TypeOK, MerchantRow
  <2> QED
    BY <2>1, <2>2, MerchantChanges
<1> QED
  BY <1>1, MerchantTypeCorrect, PTL DEF Spec, DeletedIsFrozen

(* An admin's decision, and a key, are undone by nothing but another such  *)
(* operation or a call that had read the row before.                       *)
THEOREM DecisionsAreLostOnlyToOverlap == Spec => LostOnlyToOverlap
<1> DEFINE StatusLost ==
             merchant'.status # merchant.status =>
               \E c \in Calls : /\ Wrote(c)
                                /\ \/ call[c].op \in {"approve", "suspend", "deactivate"}
                                   \/ call[c].view.status # merchant.status
           KeyLost ==
             merchant'.api_key # merchant.api_key =>
               \E c \in Calls : /\ Wrote(c)
                                /\ \/ call[c].op = "regenerate"
                                   \/ call[c].view.api_key # merchant.api_key
<1>1. TypeOK /\ [Next]_vars => [StatusLost /\ KeyLost]_vars
  <2> SUFFICES ASSUME TypeOK, [Next]_vars PROVE StatusLost /\ KeyLost
    OBVIOUS
  <2>1. ASSUME NEW c \in Calls, Update(c), ~merchant.deleted PROVE StatusLost /\ KeyLost
    <3>1. merchant' = Changed(c) /\ Wrote(c)
      BY <2>1 DEF Update, Wrote, TypeOK, Call
    <3>2. call[c].view \in MerchantRow
      BY DEF TypeOK, Call
    <3>3. /\ \/ call[c].op \in {"approve", "suspend", "deactivate"}
             \/ Changed(c).status = call[c].view.status
          /\ \/ call[c].op = "regenerate"
             \/ Changed(c).api_key = call[c].view.api_key
      BY <3>2 DEF Changed, MerchantRow
    <3> QED
      BY <3>1, <3>3
  <2>2. ASSUME NEW c \in Calls, DeleteMerchant(c) PROVE StatusLost /\ KeyLost
    BY <2>2 DEF DeleteMerchant, TypeOK, MerchantRow
  <2>3. CASE merchant' = merchant
    BY <2>3
  <2>4. ASSUME NEW c \in Calls, Update(c), merchant.deleted PROVE merchant' = merchant
    BY <2>4 DEF Update
  <2> QED
    BY <2>1, <2>2, <2>3, <2>4, MerchantChanges
<1> QED
  BY <1>1, MerchantTypeCorrect, PTL DEF Spec, LostOnlyToOverlap

-----------------------------------------------------------------------------
(* The primary account                                                     *)

LEMMA NextOnePrimary == TypeOK /\ OnePrimaryAtMost /\ [Next]_vars => OnePrimaryAtMost'
<1> SUFFICES ASSUME TypeOK, OnePrimaryAtMost, [Next]_vars,
                    NEW a \in PrimaryOf(accounts'), NEW b \in PrimaryOf(accounts')
             PROVE  a = b
  BY DEF OnePrimaryAtMost
<1>0. a \in Accounts /\ b \in Accounts /\ accounts'[a].is_primary /\ accounts'[b].is_primary
  BY DEF PrimaryOf
<1>1. CASE accounts' = accounts
  BY <1>1 DEF OnePrimaryAtMost
<1>2. ASSUME NEW c \in Calls, UnsetPrimaryBankAccounts(c) PROVE FALSE
  BY <1>0, <1>2 DEF UnsetPrimaryBankAccounts, TypeOK, Account
<1>3. ASSUME NEW c \in Calls, UpdateBankAccount(c) PROVE a = b
  <2> DEFINE d == call[c].account
  <2>1. /\ accounts' = [accounts EXCEPT ![d] = ChangedAccount(c)]
        /\ ChangedAccount(c).is_primary => PrimaryOf(accounts) \subseteq {d}
    BY <1>3 DEF UpdateBankAccount
  <2>2. \A e \in Accounts \ {d} : accounts'[e] = accounts[e]
    BY <2>1 DEF TypeOK
  <2>3. d \in Accounts => accounts'[d] = ChangedAccount(c)
    BY <2>1 DEF TypeOK
  <2> HIDE DEF d
  <2>4. CASE a # d /\ b # d
    <3>1. a \in PrimaryOf(accounts) /\ b \in PrimaryOf(accounts)
      BY <1>0, <2>2, <2>4 DEF PrimaryOf
    <3> QED
      BY <3>1 DEF OnePrimaryAtMost
  <2>5. CASE a = d \/ b = d
    <3>1. PrimaryOf(accounts) \subseteq {d}
      BY <1>0, <2>1, <2>3, <2>5
    <3> QED
      BY <1>0, <2>2, <2>5, <3>1 DEF PrimaryOf
  <2> QED
    BY <2>4, <2>5
<1>4. ASSUME NEW c \in Calls, DeleteBankAccount(c) PROVE a = b
  <2>1. a \in PrimaryOf(accounts) /\ b \in PrimaryOf(accounts)
    BY <1>0, <1>4 DEF DeleteBankAccount, TypeOK, PrimaryOf, NoRow
  <2> QED
    BY <2>1 DEF OnePrimaryAtMost
<1> QED
  BY <1>1, <1>2, <1>3, <1>4
     DEF Next, Step, vars, APIKeyAuth, FindByID, Update, DeleteMerchant, AddBankAccount,
         FindBankAccountByID, Fail

(* A merchant never has two primary accounts.                              *)
THEOREM OnePrimaryAccount == Spec => []OnePrimaryAtMost
<1>1. Init => OnePrimaryAtMost
  BY DEF Init, OnePrimaryAtMost
<1> QED
  BY <1>1, InitTyped, NextTyped, NextOnePrimary, PTL DEF Spec

(* A removal under way has read an account that was not primary, and none  *)
(* but a call for a new primary account unsets the old one.                *)
RemovalsChecked ==
    \A c \in Calls :
        /\ call[c].pc = "found" /\ call[c].op = "remove" => ~call[c].copy.is_primary
        /\ call[c].pc = "unset" => call[c].op = "set_primary"

LEMMA NextRemovalsChecked ==
    TypeOK /\ RemovalsChecked /\ [Next]_vars => RemovalsChecked'
<1> SUFFICES ASSUME TypeOK, RemovalsChecked, [Next]_vars PROVE RemovalsChecked'
  OBVIOUS
<1>1. CASE call' = call
  BY <1>1 DEF RemovalsChecked
<1>2. ASSUME NEW c \in Calls, NEW a \in Accounts, FindBankAccountByID(c, a)
      PROVE  RemovalsChecked'
  <2>1. PICK op \in {"verify", "remove", "set_primary"} :
          /\ op = "remove" => ~accounts[a].is_primary
          /\ call' = [call EXCEPT ![c].pc = "found", ![c].op = op, ![c].account = a,
                                  ![c].copy = accounts[a]]
    BY <1>2 DEF FindBankAccountByID
  <2>2. /\ call'[c].pc = "found" /\ call'[c].op = op /\ call'[c].copy = accounts[a]
        /\ \A d \in Calls \ {c} : call'[d] = call[d]
    BY <2>1 DEF TypeOK, Call
  <2> QED
    BY <2>1, <2>2 DEF RemovalsChecked
<1>3. ASSUME NEW c \in Calls, call'[c].pc # "found",
             call'[c].pc = "unset" => call'[c].op = "set_primary",
             \A d \in Calls \ {c} : call'[d] = call[d]
      PROVE  RemovalsChecked'
  BY <1>3 DEF RemovalsChecked
<1>4. ASSUME NEW c \in Calls, APIKeyAuth(c) \/ AddBankAccount(c) \/ Fail(c)
      PROVE  RemovalsChecked'
  BY <1>3, <1>4 DEF APIKeyAuth, AddBankAccount, Fail, TypeOK, Call
<1>5. ASSUME NEW c \in Calls, FindByID(c) PROVE RemovalsChecked'
  BY <1>3, <1>5 DEF FindByID, TypeOK, Call
<1>6. ASSUME NEW c \in Calls, Update(c) \/ DeleteMerchant(c) PROVE RemovalsChecked'
  BY <1>3, <1>6 DEF Update, DeleteMerchant, TypeOK, Call
<1>7. ASSUME NEW c \in Calls, UnsetPrimaryBankAccounts(c) PROVE RemovalsChecked'
  BY <1>3, <1>7 DEF UnsetPrimaryBankAccounts, TypeOK, Call
<1>8. ASSUME NEW c \in Calls, UpdateBankAccount(c) \/ DeleteBankAccount(c)
      PROVE  RemovalsChecked'
  BY <1>3, <1>8 DEF UpdateBankAccount, DeleteBankAccount, TypeOK, Call
<1> QED
  BY <1>1, <1>2, <1>4, <1>5, <1>6, <1>7, <1>8 DEF Next, Step, vars

(* The primary account gets lost only in the middle of a call that names   *)
(* another, or to a call that had read it when it was not primary.         *)
THEOREM PrimaryAccountIsKept == Spec => PrimaryIsKept
<1> DEFINE ReadBefore(c) ==
             \/ call[c].pc = "found" /\ call'[c].pc = "unset"
             \/ /\ call[c].pc = "found" /\ call'[c].pc = "done"
                /\ call[c].account \in PrimaryOf(accounts)
                /\ ~call[c].copy.is_primary
           Kept ==
             PrimaryOf(accounts) # {} /\ PrimaryOf(accounts') = {} =>
                 \E c \in Calls : ReadBefore(c)
<1>1. TypeOK /\ RemovalsChecked /\ [Next]_vars => [Kept]_vars
  <2> SUFFICES ASSUME TypeOK, RemovalsChecked, [Next]_vars,
                      NEW p \in PrimaryOf(accounts), PrimaryOf(accounts') = {}
               PROVE  \E c \in Calls : ReadBefore(c)
    OBVIOUS
  <2>0. p \in Accounts /\ accounts[p].is_primary /\ ~accounts'[p].is_primary
    BY DEF PrimaryOf
  <2>1. ASSUME NEW c \in Calls, UnsetPrimaryBankAccounts(c) PROVE ReadBefore(c)
    BY <2>1 DEF UnsetPrimaryBankAccounts, TypeOK, Call
  <2>2. ASSUME NEW c \in Calls, UpdateBankAccount(c) PROVE ReadBefore(c)
    <3> DEFINE d == call[c].account
    <3>1. /\ accounts' = [accounts EXCEPT ![d] = ChangedAccount(c)]
          /\ WritesAccount(c) /\ call'[c].pc = "done"
      BY <2>2 DEF UpdateBankAccount, TypeOK, Call
    <3>2. p = d
      BY <2>0, <3>1 DEF TypeOK
    <3>3. accounts'[p] = ChangedAccount(c)
      BY <2>0, <3>1, <3>2 DEF TypeOK
    <3>4. call[c].copy \in Account
      BY DEF TypeOK, Call
    <3>5. call[c].op = "verify" /\ ~call[c].copy.is_primary
      BY <2>0, <3>3, <3>4 DEF ChangedAccount, Account
    <3>6. call[c].pc = "found"
      <4>1. call[c].pc = "unset" => call[c].op = "set_primary"
        BY DEF RemovalsChecked
      <4> QED
        BY <3>1, <3>5, <4>1 DEF WritesAccount
    <3> QED
      BY <3>1, <3>2, <3>5, <3>6
  <2>3. ASSUME NEW c \in Calls, DeleteBankAccount(c) PROVE ReadBefore(c)
    <3>1. /\ call[c].pc = "found" /\ call[c].op = "remove" /\ call'[c].pc = "done"
          /\ accounts' = [accounts EXCEPT ![call[c].account] = NoRow]
      BY <2>3 DEF DeleteBankAccount, TypeOK, Call
    <3>2. p = call[c].account
      BY <2>0, <3>1 DEF TypeOK
    <3> QED
      BY <3>1, <3>2 DEF RemovalsChecked
  <2>4. CASE accounts' = accounts
    BY <2>0, <2>4
  <2> QED
    BY <2>1, <2>2, <2>3, <2>4
       DEF Next, Step, vars, APIKeyAuth, FindByID, Update, DeleteMerchant, AddBankAccount,
           FindBankAccountByID, Fail
<1>2. Init => RemovalsChecked
  <2>1. ASSUME Init, NEW c \in Calls PROVE call[c].pc = "idle"
    BY <2>1 DEF Init
  <2> QED
    BY <2>1 DEF RemovalsChecked
<1> QED
  BY <1>1, <1>2, InitTyped, NextTyped, NextRemovalsChecked, PTL DEF Spec, PrimaryIsKept
=============================================================================
