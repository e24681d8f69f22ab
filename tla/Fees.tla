-------------------------------- MODULE Fees --------------------------------
(***************************************************************************)
(* Fees (internal/usecase/impl/fee_resolver.go, and the fee operations of  *)
(* admin.go) for one merchant and one payment method.  A fee has up to     *)
(* four layers: the contract in the merchant's row, the global default,    *)
(* the platform's margin, and the surcharge of the holiday that has a row  *)
(* for the day of the resolutions.                                         *)
(*                                                                         *)
(* A resolution reads the layers one after the other, the contract with    *)
(* the merchant's row and long before the rest, while admins change them.  *)
(* An admin's change and its entry in the log are two statements, and not  *)
(* one transaction.  A boot sets the margin that nobody has set before,    *)
(* without an entry (internal/app/app.go).                                 *)
(***************************************************************************)
EXTENDS Integers, FiniteSets

CONSTANTS Resolutions,  \* calls of Resolve or ResolveDisbursement
          Admins,       \* calls that write a layer, of admins but for the boots
          Amounts,      \* amounts of transactions
          MethodFees,   \* fees that admins and the configuration set
          Seed          \* what the migrations and the merchant's creation set

(* entity.MethodFee: the type "" is "none", the percentage a whole number. *)
(* Nothing refuses a negative fee; amounts are validated.                  *)
ASSUME FeesAssumption ==
    /\ Amounts \subseteq Nat
    /\ MethodFees \subseteq
         [type : {"none", "flat", "percentage"}, amount : Int, percentage : Int]
    /\ Seed \in [{"contract", "default", "margin", "holiday"} ->
                    [on : BOOLEAN, fee : MethodFees \cup
                        {[type |-> "none", amount |-> 0, percentage |-> 0]}]]

VARIABLES layers,       \* what is in force in each layer, and whether it applies
          log,          \* table fee_audit_logs
          admin,        \* the admins' calls
          resolution    \* the resolutions; "during": all layers ever in force meanwhile

vars == <<layers, log, admin, resolution>>

Layer == {"contract", "default", "margin", "holiday"}

NoFee == [type |-> "none", amount |-> 0, percentage |-> 0]

(* "on": the margin is enabled, or the holiday is active.                  *)
Setting == [on : BOOLEAN, fee : MethodFees \cup {NoFee}]

(* "during" is all settings that were in force since the first read.       *)
Resolution ==
    [pc : {"idle", "started", "base", "margin", "resolved", "skipped", "failed"},
     amount : Amounts \cup {0}, contract : MethodFees \cup {NoFee}, sum : Int,
     during : SUBSET [Layer -> Setting]]

Nobody == [on |-> FALSE, fee |-> NoFee]

Init ==
    /\ layers = Seed
    /\ log = {}
    /\ admin = [a \in Admins |->
           [pc |-> "idle", layer |-> "default", old |-> Nobody, new |-> Nobody,
            told |-> {FALSE}]]
    /\ resolution = [r \in Resolutions |->
           [pc |-> "idle", amount |-> 0, contract |-> NoFee, sum |-> 0, during |-> {}]]

-----------------------------------------------------------------------------
(* The arithmetic                                                          *)

IsZeroFee(f) == f.type = "none" \/ (f.amount = 0 /\ f.percentage = 0)

(* int64 cuts the part of a rupiah off, towards zero.                      *)
Percentage(p, amount) ==
    IF p >= 0 THEN (amount * p) \div 100 ELSE -((amount * (-p)) \div 100)

(* Mutant: a flat fee is not capped.                                       *)
ComputeUncapped(f, amount) ==
    CASE f.type = "flat" -> f.amount
      [] f.type = "percentage" -> Percentage(f.percentage, amount)
      [] OTHER -> 0

ComputeMethodFee(f, amount) ==
    CASE f.type = "flat" -> IF f.amount > amount THEN amount ELSE f.amount
      [] f.type = "percentage" -> Percentage(f.percentage, amount)
      [] OTHER -> 0

(* What a setting adds to a fee if it applies.                             *)
Surcharge(s, amount) == IF s.on THEN ComputeMethodFee(s.fee, amount) ELSE 0

-----------------------------------------------------------------------------
(* A resolution                                                            *)

Running(r) == resolution[r].pc \in {"started", "base", "margin"}

(* The use case reads the merchant.                                        *)
Start(r) ==
    /\ resolution[r].pc = "idle"
    /\ \E amount \in Amounts :
        resolution' = [resolution EXCEPT ![r] =
            [pc |-> "started", amount |-> amount, contract |-> layers["contract"].fee,
             sum |-> 0, during |-> {layers}]]
    /\ UNCHANGED <<layers, log, admin>>

Advance(r, pc, part) ==
    /\ resolution' = [resolution EXCEPT ![r].pc = pc, ![r].sum = @ + part]
    /\ UNCHANGED <<layers, log, admin>>

(* merchantFee, or the first statements of ResolveDisbursement.            *)
ResolveBase(r) ==
    LET contract == resolution[r].contract
        fee == IF IsZeroFee(contract) THEN layers["default"].fee ELSE contract
    IN  /\ resolution[r].pc = "started"
        /\ Advance(r, "base", ComputeMethodFee(fee, resolution[r].amount))

(* Mutant: the margin is added whether it is enabled or not.               *)
ResolveMarginAlways(r) ==
    /\ resolution[r].pc = "base"
    /\ Advance(r, "margin", ComputeMethodFee(layers["margin"].fee, resolution[r].amount))

ResolveMargin(r) ==
    /\ resolution[r].pc = "base"
    /\ Advance(r, "margin", Surcharge(layers["margin"], resolution[r].amount))

ResolveHoliday(r) ==
    /\ resolution[r].pc = "margin"
    /\ Advance(r, "resolved", Surcharge(layers["holiday"], resolution[r].amount))

(* A holiday that cannot be read is no holiday.                            *)
SkipHoliday(r) ==
    /\ resolution[r].pc = "margin"
    /\ Advance(r, "skipped", 0)

(* The default or the margin cannot be read: the use cases go on without a *)
(* fee, if their transaction lets them.                                    *)
ResolveFails(r) ==
    /\ \/ resolution[r].pc = "started" /\ IsZeroFee(resolution[r].contract)
       \/ resolution[r].pc = "base"
    /\ resolution' = [resolution EXCEPT ![r].pc = "failed", ![r].sum = 0]
    /\ UNCHANGED <<layers, log, admin>>

-----------------------------------------------------------------------------
(* An admin's change                                                       *)

(* "told": what the entry that is to come tells of the switch.             *)
Begin(a, pc, l, old, new, told) ==
    /\ admin[a].pc = "idle"
    /\ admin' = [admin EXCEPT ![a] =
           [pc |-> pc, layer |-> l, old |-> old, new |-> new, told |-> told]]
    /\ UNCHANGED <<layers, log, resolution>>

(* UpdateMerchantFee, UpdateFeeDefault, UpdatePlatformMargin read the row  *)
(* first.  Contract and default have no switch.                            *)
Read(a) ==
    \E l \in Layer \ {"holiday"}, fee \in MethodFees, on \in BOOLEAN :
        /\ l # "margin" => ~on
        /\ Begin(a, "read", l, layers[l], [on |-> on, fee |-> fee], {on})

(* UpdateHoliday and CreateHoliday do not: the one may also move the row   *)
(* to another day, and the entry of the other tells nothing of is_active.  *)
ChangeHoliday(a) ==
    \/ \E fee \in MethodFees, on \in BOOLEAN : \E told \in {{on}, BOOLEAN} :
          Begin(a, "read", "holiday", Nobody, [on |-> on, fee |-> fee], told)
    \/ Begin(a, "read", "holiday", Nobody, Nobody, {FALSE})

PutInForce(a) ==
    /\ layers' = [layers EXCEPT ![admin[a].layer] = admin[a].new]
    /\ resolution' = [r \in Resolutions |->
           IF Running(r) THEN [resolution[r] EXCEPT !.during = @ \cup {layers'}]
           ELSE resolution[r]]
    /\ UNCHANGED log

(* A day has one row at most: to create another one fails.                 *)
Update(a) ==
    /\ admin[a].pc = "read"
    /\ admin[a].told = BOOLEAN => layers["holiday"] = Nobody
    /\ admin' = [admin EXCEPT ![a].pc = "updated"]
    /\ PutInForce(a)

(* Any other operation on the merchant, an admin's or its own: it writes   *)
(* the contract back as it has read it, and logs nothing.                  *)
ReadMerchant(a) ==
    Begin(a, "rewriting", "contract", layers["contract"], layers["contract"], {})

RewriteMerchant(a) ==
    /\ admin[a].pc = "rewriting"
    /\ admin' = [admin EXCEPT ![a].pc = "rewritten"]
    /\ PutInForce(a)

(* The boot seed: what the configuration says becomes the margin if nobody *)
(* has written it since the migrations (updated_by is empty), but that is  *)
(* read first.                                                             *)
ReadSeed(a) ==
    /\ \A b \in Admins :
          admin[b].layer = "margin" => admin[b].pc \in {"idle", "read", "seeding", "failed"}
    /\ \E fee \in MethodFees, on \in BOOLEAN :
          Begin(a, "seeding", "margin", layers["margin"], [on |-> on, fee |-> fee], {on})

SeedMargin(a) ==
    /\ admin[a].pc = "seeding"
    /\ admin' = [admin EXCEPT ![a].pc = "seeded"]
    /\ PutInForce(a)

(* "on": the values of the switch that agree with the entry.               *)
Entry(a) ==
    [by |-> a, layer |-> admin[a].layer, old |-> admin[a].old,
     fee |-> admin[a].new.fee, on |-> admin[a].told]

(* Mutant: nothing is logged when the value is the one read before.        *)
WriteLogIfChanged(a) ==
    /\ admin[a].pc = "updated"
    /\ admin' = [admin EXCEPT ![a].pc = "done"]
    /\ log' = IF admin[a].new.fee = admin[a].old.fee THEN log ELSE log \cup {Entry(a)}
    /\ UNCHANGED <<layers, resolution>>

WriteAuditLog(a) ==
    /\ admin[a].pc = "updated"
    /\ admin' = [admin EXCEPT ![a].pc = "done"]
    /\ log' = log \cup {Entry(a)}
    /\ UNCHANGED <<layers, resolution>>

(* The next statement fails, and what has been written stays.              *)
Stop(a) ==
    /\ admin[a].pc \in {"read", "rewriting", "seeding", "updated"}
    /\ admin' = [admin EXCEPT ![a].pc = IF @ = "updated" THEN "unlogged" ELSE "failed"]
    /\ UNCHANGED <<layers, log, resolution>>

-----------------------------------------------------------------------------
Resolve(r) ==
    \/ Start(r) \/ ResolveBase(r) \/ ResolveMargin(r) \/ ResolveHoliday(r)
    \/ SkipHoliday(r) \/ ResolveFails(r)

Change(a) ==
    \/ Read(a) \/ ChangeHoliday(a) \/ Update(a) \/ WriteAuditLog(a)
    \/ ReadMerchant(a) \/ RewriteMerchant(a)
    \/ ReadSeed(a) \/ SeedMargin(a)
    \/ Stop(a)

Next == (\E r \in Resolutions : Resolve(r)) \/ (\E a \in Admins : Change(a))

Spec == Init /\ [][Next]_vars

-----------------------------------------------------------------------------
(* Properties                                                              *)

(* Every variable stays within its type.                                   *)
TypeOK ==
    /\ layers \in [Layer -> Setting]
    /\ log \subseteq [by : Admins, layer : Layer, old : Setting,
                      fee : MethodFees \cup {NoFee}, on : SUBSET BOOLEAN]
    /\ admin \in [Admins ->
           [pc : {"idle", "read", "updated", "done", "rewriting", "rewritten", "seeding",
                  "seeded", "failed", "unlogged"},
            layer : Layer, old : Setting, new : Setting, told : SUBSET BOOLEAN]]
    /\ resolution \in [Resolutions -> Resolution]

(* The fee of README.md:275-292 for layers that do not change meanwhile.   *)
Reference(l, amount) ==
    LET base == IF IsZeroFee(l["contract"].fee) THEN l["default"].fee ELSE l["contract"].fee
    IN  ComputeMethodFee(base, amount) + Surcharge(l["margin"], amount)
            + Surcharge(l["holiday"], amount)

(* A fee is what one setting of all layers makes that was in force during  *)
(* its resolution, as long as the layers change once meanwhile at most;    *)
(* with two changes its parts, read one by one, may belong to no setting   *)
(* that ever was (fee_resolver.go:50-77, 87-124).                          *)
FeeIsOfOneMoment ==
    \A r \in Resolutions :
        resolution[r].pc = "resolved" /\ Cardinality(resolution[r].during) <= 2 =>
            \E l \in resolution[r].during : resolution[r].sum = Reference(l, resolution[r].amount)

(* No fee is more than three times the amount, unless a percentage is      *)
(* above a hundred, which nothing refuses (helpers.go:53-65).              *)
FeeIsBounded ==
    (\A f \in MethodFees : f.percentage <= 100) =>
        \A r \in Resolutions : resolution[r].sum <= 3 * resolution[r].amount

(* No fee is negative unless one is set that is, which nothing refuses     *)
(* (usecase/admin.go:37-42).                                               *)
FeeIsNatural ==
    (\A f \in MethodFees : f.amount >= 0 /\ f.percentage >= 0) =>
        \A r \in Resolutions : resolution[r].sum >= 0

(* A setting that is in force is in the log, its switch as far as the      *)
(* entries tell it, or its call has not come to that, or has failed at it, *)
(* or was a boot; also one that a stale copy of the merchant's row has     *)
(* brought back (README.md:295; admin.go:160-182, 455-545; app.go:116-131).*)
InForceIsLogged ==
    \A l \in Layer : layers[l] # Seed[l] =>
        \/ \E e \in log : e.layer = l /\ e.fee = layers[l].fee /\ layers[l].on \in e.on
        \/ \E a \in Admins : /\ admin[a].pc \in {"updated", "unlogged", "seeded"}
                             /\ admin[a].layer = l /\ admin[a].new = layers[l]

-----------------------------------------------------------------------------
(* What the documentation says and the code does not do                    *)

(* helpers.go:58: "fee cannot exceed the transaction amount"; the cap is   *)
(* that of one flat part, and a ledger entry with a fee above the amount   *)
(* is refused (chk_mutation_fee).                                          *)
FeeWithinAmount ==
    \A r \in Resolutions :
        resolution[r].pc = "resolved" => resolution[r].sum <= resolution[r].amount
=============================================================================
