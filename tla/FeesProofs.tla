----------------------------- MODULE FeesProofs -----------------------------
(***************************************************************************)
(* Theorems about Fees, for any number of resolutions and of writing       *)
(* calls, any amounts, any fees and any setting at the start.              *)
(***************************************************************************)
EXTENDS Fees, FiniteSetTheorems, TLAPS

-----------------------------------------------------------------------------
(* The arithmetic                                                          *)

Fee == MethodFees \cup {NoFee}

(* A part of a percentage is whole, within the amount if the percentage is *)
(* a hundred at most, and not negative unless the percentage is.           *)
LEMMA PercentageBounds ==
    ASSUME NEW a \in Nat, NEW p \in Int
    PROVE  /\ Percentage(p, a) \in Int
           /\ p <= 100 => Percentage(p, a) <= a
           /\ p >= 0 => Percentage(p, a) >= 0
<1>1. CASE p >= 0
  <2> DEFINE x == a * p
  <2>1. x \in Nat
    BY <1>1
  <2>2. p <= 100 => x <= 100 * a
    <3>1. SUFFICES ASSUME p <= 100 PROVE a * p <= 100 * a
      OBVIOUS
    <3>2. a * (100 - p) >= 0
      BY <3>1
    <3>3. a * (100 - p) = 100 * a - a * p
      OBVIOUS
    <3> QED
      BY <3>2, <3>3, <2>1
  <2>3. Percentage(p, a) = x \div 100
    BY <1>1 DEF Percentage
  <2> HIDE DEF x
  <2>4. x \div 100 \in Nat /\ (x <= 100 * a => x \div 100 <= a)
    BY <2>1
  <2> QED
    BY <2>2, <2>3, <2>4
<1>2. CASE ~(p >= 0)
  <2> DEFINE y == a * (-p)
  <2>1. -p \in Nat
    BY <1>2
  <2>2. y \in Nat
    BY <2>1
  <2>3. Percentage(p, a) = -(y \div 100)
    BY <1>2 DEF Percentage
  <2> HIDE DEF y
  <2>4. y \div 100 \in Nat
    BY <2>2
  <2>5. -(y \div 100) \in Int /\ -(y \div 100) <= a
    BY <2>4
  <2> QED
    BY <1>2, <2>3, <2>5
<1> QED
  BY <1>1, <1>2

LEMMA FeeTyped ==
    ASSUME NEW f \in Fee
    PROVE  f \in [type : {"none", "flat", "percentage"}, amount : Int, percentage : Int]
BY FeesAssumption DEF Fee, NoFee

(* One part of a fee is whole, within the amount unless a percentage is    *)
(* above a hundred, and not negative unless it is set so.                  *)
NotNegative(f) == f.amount >= 0 /\ f.percentage >= 0

LEMMA MethodFeeBounds ==
    ASSUME NEW f \in Fee, NEW a \in Nat
    PROVE  /\ ComputeMethodFee(f, a) \in Int
           /\ f.percentage <= 100 => ComputeMethodFee(f, a) <= a
           /\ NotNegative(f) => ComputeMethodFee(f, a) >= 0
<1>1. f.type \in {"none", "flat", "percentage"} /\ f.amount \in Int /\ f.percentage \in Int
  BY FeeTyped
<1>2. CASE f.type = "none"
  BY <1>2 DEF ComputeMethodFee
<1>3. CASE f.type = "flat"
  BY <1>1, <1>3 DEF ComputeMethodFee, NotNegative
<1>4. CASE f.type = "percentage"
  <2>1. ComputeMethodFee(f, a) = Percentage(f.percentage, a)
    BY <1>4 DEF ComputeMethodFee
  <2> QED
    BY <1>1, <2>1, PercentageBounds DEF NotNegative
<1> QED
  BY <1>1, <1>2, <1>3, <1>4

LEMMA SurchargeBounds ==
    ASSUME NEW s \in Setting, NEW a \in Nat
    PROVE  /\ Surcharge(s, a) \in Int
           /\ s.fee.percentage <= 100 => Surcharge(s, a) <= a
           /\ NotNegative(s.fee) => Surcharge(s, a) >= 0
<1>1. s.fee \in Fee /\ s.on \in BOOLEAN
  BY DEF Setting, Fee
<1>2. CASE s.on
  BY <1>1, <1>2, MethodFeeBounds DEF Surcharge
<1>3. CASE ~s.on
  BY <1>3 DEF Surcharge
<1> QED
  BY <1>1, <1>2, <1>3

-----------------------------------------------------------------------------
(* Types                                                                   *)

LEMMA SettingsOfFees == Nobody \in Setting /\ NoFee \in Fee
BY DEF Nobody, Setting, Fee

LEMMA AmountsAreNatural == Amounts \cup {0} \subseteq Nat
BY FeesAssumption

(* What a step of a resolution that adds a part must leave.                *)
LEMMA AdvanceTyped ==
    ASSUME TypeOK, NEW r \in Resolutions, NEW part \in Int,
           NEW pc \in {"base", "margin", "resolved", "skipped"}, Advance(r, pc, part)
    PROVE  TypeOK'
<1>1. resolution[r] \in Resolution
  BY DEF TypeOK
<1>2. resolution[r].sum + part \in Int
  BY <1>1 DEF Resolution
<1> DEFINE new == [resolution[r] EXCEPT !.pc = pc, !.sum = @ + part]
<1>3. new \in Resolution
  BY <1>1, <1>2, Zenon DEF Resolution
<1>4. resolution' = [resolution EXCEPT ![r] = new] /\ UNCHANGED <<layers, log, admin>>
  BY DEF Advance
<1> HIDE DEF new
<1> QED
  BY <1>3, <1>4 DEF TypeOK

(* A step that puts a setting in force.                                    *)
LEMMA PutInForceTyped ==
    ASSUME TypeOK, NEW a \in Admins, PutInForce(a)
    PROVE  /\ layers' \in [Layer -> Setting]
           /\ log' = log
           /\ \A r \in Resolutions :
                /\ resolution'[r].pc = resolution[r].pc
                /\ resolution'[r].amount = resolution[r].amount
                /\ resolution'[r].contract = resolution[r].contract
                /\ resolution'[r].sum = resolution[r].sum
                /\ resolution'[r].during =
                     IF Running(r) THEN resolution[r].during \cup {layers'}
                                   ELSE resolution[r].during
           /\ resolution' \in [Resolutions -> Resolution]
<1>1. admin[a].new \in Setting /\ admin[a].layer \in Layer
  BY DEF TypeOK
<1>2. layers' \in [Layer -> Setting]
  BY <1>1 DEF TypeOK, PutInForce
<1>3. resolution' = [r \in Resolutions |->
          IF Running(r) THEN [resolution[r] EXCEPT !.during = @ \cup {layers'}]
          ELSE resolution[r]]
  BY DEF PutInForce
<1>4. ASSUME NEW r \in Resolutions
      PROVE  /\ resolution[r] \in Resolution
             /\ [resolution[r] EXCEPT !.during = @ \cup {layers'}] \in Resolution
  BY <1>2 DEF TypeOK, Resolution
<1>5. resolution' \in [Resolutions -> Resolution]
  BY <1>3, <1>4
<1>6. ASSUME NEW r \in Resolutions
      PROVE  /\ resolution'[r].pc = resolution[r].pc
             /\ resolution'[r].amount = resolution[r].amount
             /\ resolution'[r].contract = resolution[r].contract
             /\ resolution'[r].sum = resolution[r].sum
             /\ resolution'[r].during =
                  IF Running(r) THEN resolution[r].during \cup {layers'}
                                ELSE resolution[r].during
  BY <1>3, <1>4 DEF Resolution
<1> QED
  BY <1>2, <1>5, <1>6 DEF PutInForce

LEMMA InitTyped == Init => TypeOK
<1> SUFFICES ASSUME Init PROVE TypeOK
  OBVIOUS
<1>1. Seed \in [Layer -> Setting]
  BY FeesAssumption DEF Layer, Setting, NoFee
<1> QED
  BY <1>1, SettingsOfFees DEF Init, TypeOK, Fee, Layer, Resolution

(* What a call begins with.                                                *)
LEMMA BeginTyped ==
    ASSUME TypeOK, NEW a \in Admins, NEW pc \in {"read", "rewriting", "seeding"},
           NEW l \in Layer, NEW old \in Setting, NEW new \in Setting,
           NEW told \in SUBSET BOOLEAN, Begin(a, pc, l, old, new, told)
    PROVE  TypeOK'
BY DEF Begin, TypeOK

LEMMA NextTyped == TypeOK /\ [Next]_vars => TypeOK'
<1> SUFFICES ASSUME TypeOK, [Next]_vars PROVE TypeOK'
  OBVIOUS
<1>1. CASE UNCHANGED vars
  BY <1>1 DEF TypeOK, vars
<1>2. ASSUME NEW r \in Resolutions, Start(r) PROVE TypeOK'
  <2>1. layers["contract"].fee \in MethodFees \cup {NoFee}
    BY DEF TypeOK, Layer, Setting
  <2>2. {layers} \in SUBSET [Layer -> Setting]
    BY DEF TypeOK
  <2> QED
    BY <1>2, <2>1, <2>2 DEF Start, TypeOK, Resolution
<1>3. ASSUME NEW r \in Resolutions, ResolveBase(r) PROVE TypeOK'
  <2> DEFINE contract == resolution[r].contract
             fee == IF IsZeroFee(contract) THEN layers["default"].fee ELSE contract
  <2>1. fee \in Fee /\ resolution[r].amount \in Nat
    BY AmountsAreNatural DEF TypeOK, Resolution, Layer, Setting, Fee
  <2>2. ComputeMethodFee(fee, resolution[r].amount) \in Int
    BY <2>1, MethodFeeBounds
  <2> QED
    BY <1>3, <2>2, AdvanceTyped DEF ResolveBase
<1>4. ASSUME NEW r \in Resolutions, ResolveMargin(r) PROVE TypeOK'
  <2>1. layers["margin"] \in Setting /\ resolution[r].amount \in Nat
    BY AmountsAreNatural DEF TypeOK, Resolution, Layer
  <2> QED
    BY <1>4, <2>1, SurchargeBounds, AdvanceTyped DEF ResolveMargin
<1>5. ASSUME NEW r \in Resolutions, ResolveHoliday(r) PROVE TypeOK'
  <2>1. layers["holiday"] \in Setting /\ resolution[r].amount \in Nat
    BY AmountsAreNatural DEF TypeOK, Resolution, Layer
  <2> QED
    BY <1>5, <2>1, SurchargeBounds, AdvanceTyped DEF ResolveHoliday
<1>6. ASSUME NEW r \in Resolutions, SkipHoliday(r) PROVE TypeOK'
  BY <1>6, AdvanceTyped DEF SkipHoliday
<1>7. ASSUME NEW r \in Resolutions, ResolveFails(r) PROVE TypeOK'
  <2>1. resolution[r] \in Resolution /\ 0 \in Int
    BY DEF TypeOK
  <2>2. [resolution[r] EXCEPT !.pc = "failed", !.sum = 0] \in Resolution
    BY <2>1, Zenon DEF Resolution
  <2> QED
    BY <1>7, <2>2 DEF ResolveFails, TypeOK
<1>8. ASSUME NEW a \in Admins, Read(a) PROVE TypeOK'
  <2>1. PICK l \in Layer, fee \in MethodFees, on \in BOOLEAN :
            Begin(a, "read", l, layers[l], [on |-> on, fee |-> fee], {on})
    BY <1>8 DEF Read
  <2>2. [on |-> on, fee |-> fee] \in Setting /\ layers[l] \in Setting
    BY DEF Setting, TypeOK
  <2> QED
    BY <2>1, <2>2, BeginTyped
<1>9. ASSUME NEW a \in Admins, Update(a) PROVE TypeOK'
  BY <1>9, PutInForceTyped DEF Update, TypeOK
<1>10. ASSUME NEW a \in Admins, WriteAuditLog(a) PROVE TypeOK'
  <2>1. Entry(a) \in [by : Admins, layer : Layer, old : Setting,
                     fee : MethodFees \cup {NoFee}, on : SUBSET BOOLEAN]
    BY DEF Entry, TypeOK, Setting
  <2> QED
    BY <1>10, <2>1 DEF WriteAuditLog, TypeOK
<1>11. ASSUME NEW a \in Admins, ReadMerchant(a) PROVE TypeOK'
  <2>1. layers["contract"] \in Setting /\ "contract" \in Layer
    BY DEF TypeOK, Layer
  <2> QED
    BY <1>11, <2>1, BeginTyped DEF ReadMerchant
<1>12. ASSUME NEW a \in Admins, RewriteMerchant(a) PROVE TypeOK'
  BY <1>12, PutInForceTyped DEF RewriteMerchant, TypeOK
<1>13. ASSUME NEW a \in Admins, Stop(a) PROVE TypeOK'
  BY <1>13 DEF Stop, TypeOK
<1>14. ASSUME NEW a \in Admins, ChangeHoliday(a) PROVE TypeOK'
  <2>1. CASE Begin(a, "read", "holiday", Nobody, Nobody, {FALSE})
    BY <2>1, SettingsOfFees, BeginTyped DEF Layer
  <2>2. ASSUME NEW fee \in MethodFees, NEW on \in BOOLEAN, NEW told \in {{on}, BOOLEAN},
               Begin(a, "read", "holiday", Nobody, [on |-> on, fee |-> fee], told)
        PROVE  TypeOK'
    <3>1. [on |-> on, fee |-> fee] \in Setting /\ told \in SUBSET BOOLEAN
      BY DEF Setting
    <3> QED
      BY <2>2, <3>1, SettingsOfFees, BeginTyped DEF Layer
  <2> QED
    BY <1>14, <2>1, <2>2 DEF ChangeHoliday
<1>15. ASSUME NEW a \in Admins, ReadSeed(a) PROVE TypeOK'
  <2>1. PICK fee \in MethodFees, on \in BOOLEAN :
            Begin(a, "seeding", "margin", layers["margin"], [on |-> on, fee |-> fee], {on})
    BY <1>15 DEF ReadSeed
  <2>2. /\ [on |-> on, fee |-> fee] \in Setting /\ layers["margin"] \in Setting
        /\ "margin" \in Layer
    BY DEF Setting, TypeOK, Layer
  <2> QED
    BY <2>1, <2>2, BeginTyped
<1>16. ASSUME NEW a \in Admins, SeedMargin(a) PROVE TypeOK'
  BY <1>16, PutInForceTyped DEF SeedMargin, TypeOK
<1> QED
  BY <1>1, <1>2, <1>3, <1>4, <1>5, <1>6, <1>7, <1>8, <1>9, <1>10, <1>11, <1>12, <1>13,
     <1>14, <1>15, <1>16
     DEF Next, Resolve, Change

(* Every variable keeps its type; of a fee no more is promised than that   *)
(* it is whole, since admins may set negative ones.                        *)
THEOREM FeesTypeCorrect == Spec => []TypeOK
BY InitTyped, NextTyped, PTL DEF Spec

-----------------------------------------------------------------------------
(* How much                                                                *)

Percentages == \A f \in MethodFees : f.percentage <= 100

(* How many parts a resolution has added up, at most.                      *)
Parts(pc) ==
    CASE pc = "base" -> 1
      [] pc = "margin" -> 2
      [] pc \in {"resolved", "skipped"} -> 3
      [] OTHER -> 0

(* After so many parts, the sum is so many times the amount at most.       *)
Bounded == \A r \in Resolutions :
               resolution[r].sum <= Parts(resolution[r].pc) * resolution[r].amount

LEMMA AdvanceBounded ==
    ASSUME TypeOK, Bounded, NEW r \in Resolutions, NEW part \in Int,
           NEW pc \in {"base", "margin", "resolved", "skipped"},
           part <= resolution[r].amount, Parts(pc) = Parts(resolution[r].pc) + 1,
           Advance(r, pc, part)
    PROVE  Bounded'
<1> DEFINE a == resolution[r].amount
<1>1. resolution[r] \in Resolution /\ a \in Nat /\ resolution[r].sum \in Int
  BY AmountsAreNatural DEF TypeOK, Resolution
<1>2. resolution[r].sum <= Parts(resolution[r].pc) * a
  BY DEF Bounded
<1>3. Parts(resolution[r].pc) \in 0 .. 3
  BY DEF Parts
<1>4. resolution[r].sum + part <= Parts(pc) * a
  <2>1. Parts(pc) * a = Parts(resolution[r].pc) * a + a
    BY <1>1, <1>3
  <2>2. Parts(resolution[r].pc) * a \in Nat
    BY <1>1, <1>3
  <2> QED
    BY <1>1, <1>2, <2>1, <2>2
<1>5. /\ resolution'[r].sum = resolution[r].sum + part
      /\ resolution'[r].pc = pc
      /\ resolution'[r].amount = a
  BY <1>1 DEF Advance, TypeOK, Resolution
<1>6. \A q \in Resolutions \ {r} : resolution'[q] = resolution[q]
  BY DEF Advance, TypeOK
<1> HIDE DEF a
<1> QED
  BY <1>4, <1>5, <1>6 DEF Bounded

LEMMA PartsWithinAmount ==
    ASSUME TypeOK, Percentages, NEW a \in Nat
    PROVE  /\ \A f \in Fee : ComputeMethodFee(f, a) \in Int /\ ComputeMethodFee(f, a) <= a
           /\ \A l \in Layer : Surcharge(layers[l], a) \in Int /\ Surcharge(layers[l], a) <= a
<1>1. \A f \in Fee : f.percentage <= 100
  BY DEF Percentages, Fee, NoFee
<1>2. \A l \in Layer : layers[l] \in Setting /\ layers[l].fee \in Fee
  BY DEF TypeOK, Setting, Fee
<1> QED
  BY <1>1, <1>2, MethodFeeBounds, SurchargeBounds

LEMMA InitBounded == Init => Bounded
BY DEF Init, Bounded, Parts

LEMMA NextBounded == TypeOK /\ Percentages /\ Bounded /\ [Next]_vars => Bounded'
<1> SUFFICES ASSUME TypeOK, Percentages, Bounded, [Next]_vars PROVE Bounded'
  OBVIOUS
<1>0. ASSUME NEW r \in Resolutions
      PROVE  resolution[r] \in Resolution /\ resolution[r].amount \in Nat
  BY AmountsAreNatural DEF TypeOK, Resolution
<1>1. CASE UNCHANGED resolution
  BY <1>1 DEF Bounded
<1>2. ASSUME NEW r \in Resolutions, Start(r) PROVE Bounded'
  <2>1. PICK amount \in Amounts :
          resolution' = [resolution EXCEPT ![r] =
            [pc |-> "started", amount |-> amount, contract |-> layers["contract"].fee,
             sum |-> 0, during |-> {layers}]]
    BY <1>2 DEF Start
  <2>2. amount \in Nat
    BY FeesAssumption
  <2> QED
    BY <2>1, <2>2 DEF Bounded, Parts, TypeOK
<1>3. ASSUME NEW r \in Resolutions, ResolveBase(r) PROVE Bounded'
  <2> DEFINE contract == resolution[r].contract
             fee == IF IsZeroFee(contract) THEN layers["default"].fee ELSE contract
             part == ComputeMethodFee(fee, resolution[r].amount)
  <2>1. fee \in Fee
    BY DEF TypeOK, Resolution, Layer, Setting, Fee
  <2>2. part \in Int /\ part <= resolution[r].amount
    BY <1>0, <2>1, PartsWithinAmount
  <2>3. Advance(r, "base", part) /\ Parts("base") = Parts(resolution[r].pc) + 1
    BY <1>3 DEF ResolveBase, Parts
  <2> HIDE DEF part
  <2> QED
    BY <2>2, <2>3, AdvanceBounded
<1>4. ASSUME NEW r \in Resolutions, ResolveMargin(r) PROVE Bounded'
  <2> DEFINE part == Surcharge(layers["margin"], resolution[r].amount)
  <2>1. part \in Int /\ part <= resolution[r].amount
    BY <1>0, PartsWithinAmount DEF Layer
  <2>2. Advance(r, "margin", part) /\ Parts("margin") = Parts(resolution[r].pc) + 1
    BY <1>4 DEF ResolveMargin, Parts
  <2> HIDE DEF part
  <2> QED
    BY <2>1, <2>2, AdvanceBounded
<1>5. ASSUME NEW r \in Resolutions, ResolveHoliday(r) PROVE Bounded'
  <2> DEFINE part == Surcharge(layers["holiday"], resolution[r].amount)
  <2>1. part \in Int /\ part <= resolution[r].amount
    BY <1>0, PartsWithinAmount DEF Layer
  <2>2. Advance(r, "resolved", part) /\ Parts("resolved") = Parts(resolution[r].pc) + 1
    BY <1>5 DEF ResolveHoliday, Parts
  <2> HIDE DEF part
  <2> QED
    BY <2>1, <2>2, AdvanceBounded
<1>6. ASSUME NEW r \in Resolutions, SkipHoliday(r) PROVE Bounded'
  <2>1. Advance(r, "skipped", 0) /\ Parts("skipped") = Parts(resolution[r].pc) + 1
    BY <1>6 DEF SkipHoliday, Parts
  <2>2. 0 \in Int /\ 0 <= resolution[r].amount
    BY <1>0
  <2> QED
    BY <2>1, <2>2, AdvanceBounded
<1>7. ASSUME NEW r \in Resolutions, ResolveFails(r) PROVE Bounded'
  <2>1. /\ resolution'[r].sum = 0
        /\ resolution'[r].pc = "failed"
        /\ resolution'[r].amount = resolution[r].amount
        /\ \A q \in Resolutions \ {r} : resolution'[q] = resolution[q]
    BY <1>7 DEF ResolveFails, TypeOK, Resolution
  <2>2. Parts("failed") * resolution[r].amount = 0
    BY <1>0 DEF Parts
  <2> QED
    BY <2>1, <2>2 DEF Bounded
<1>8. ASSUME NEW a \in Admins, PutInForce(a) PROVE Bounded'
  BY <1>8, PutInForceTyped DEF Bounded
<1> QED
  BY <1>1, <1>2, <1>3, <1>4, <1>5, <1>6, <1>7, <1>8
     DEF Next, Resolve, Change, vars, Begin, Read, ChangeHoliday, Update, WriteAuditLog,
         ReadMerchant, RewriteMerchant, ReadSeed, SeedMargin, Stop

(* No fee is more than three times its amount as long as no percentage is  *)
(* above a hundred, whoever changes the layers meanwhile.                  *)
THEOREM FeesAreBounded == Spec => []FeeIsBounded
<1>1. CASE Percentages
  <2>1. TypeOK /\ Bounded => FeeIsBounded
    <3> SUFFICES ASSUME TypeOK, Bounded, NEW r \in Resolutions
                 PROVE  resolution[r].sum <= 3 * resolution[r].amount
      BY DEF FeeIsBounded
    <3>1. resolution[r].amount \in Nat /\ resolution[r].sum \in Int
      BY AmountsAreNatural DEF TypeOK, Resolution
    <3>2. Parts(resolution[r].pc) \in 0 .. 3
      BY DEF Parts
    <3>3. Parts(resolution[r].pc) * resolution[r].amount <= 3 * resolution[r].amount
      BY <3>1, <3>2
    <3>4. Parts(resolution[r].pc) * resolution[r].amount \in Nat
      BY <3>1, <3>2
    <3> QED
      BY <3>1, <3>3, <3>4 DEF Bounded
  <2>2. TypeOK /\ Bounded /\ [Next]_vars => Bounded'
    BY <1>1, NextBounded
  <2> QED
    BY InitTyped, NextTyped, InitBounded, <2>1, <2>2, PTL DEF Spec
<1>2. CASE ~Percentages
  <2>1. FeeIsBounded
    BY <1>2 DEF FeeIsBounded, Percentages
  <2> QED
    BY <2>1, PTL
<1> QED
  BY <1>1, <1>2

(* The same from below.                                                    *)
Credits == \E f \in MethodFees : ~NotNegative(f)

Natural == \A r \in Resolutions : resolution[r].sum >= 0

LEMMA NextNatural == TypeOK /\ ~Credits /\ Natural /\ [Next]_vars => Natural'
<1> SUFFICES ASSUME TypeOK, ~Credits, Natural, [Next]_vars PROVE Natural'
  OBVIOUS
<1>0. ASSUME NEW r \in Resolutions
      PROVE  /\ resolution[r] \in Resolution /\ resolution[r].amount \in Nat
             /\ resolution[r].sum \in Int /\ resolution[r].sum >= 0
  BY AmountsAreNatural DEF TypeOK, Resolution, Natural
<1>1. ASSUME NEW a \in Nat
      PROVE  /\ \A f \in Fee : ComputeMethodFee(f, a) \in Int /\ ComputeMethodFee(f, a) >= 0
             /\ \A l \in Layer : Surcharge(layers[l], a) \in Int /\ Surcharge(layers[l], a) >= 0
  <2>1. \A f \in Fee : NotNegative(f)
    BY DEF Credits, Fee, NoFee, NotNegative
  <2>2. \A l \in Layer : layers[l] \in Setting /\ layers[l].fee \in Fee
    BY DEF TypeOK, Setting, Fee
  <2> QED
    BY <2>1, <2>2, MethodFeeBounds, SurchargeBounds
<1>2. ASSUME NEW r \in Resolutions, NEW pc, NEW part \in Int, part >= 0, Advance(r, pc, part)
      PROVE  Natural'
  <2>1. resolution'[r].sum = resolution[r].sum + part
    BY <1>0, <1>2 DEF Advance, TypeOK, Resolution
  <2>2. \A q \in Resolutions \ {r} : resolution'[q] = resolution[q]
    BY <1>2 DEF Advance, TypeOK
  <2> QED
    BY <1>0, <1>2, <2>1, <2>2 DEF Natural
<1>3. CASE UNCHANGED resolution
  BY <1>3 DEF Natural
<1>4. ASSUME NEW r \in Resolutions, Start(r) \/ ResolveFails(r) PROVE Natural'
  <2>1. resolution'[r].sum = 0 /\ \A q \in Resolutions \ {r} : resolution'[q] = resolution[q]
    BY <1>4 DEF Start, ResolveFails, TypeOK, Resolution
  <2> QED
    BY <2>1 DEF Natural
<1>5. ASSUME NEW r \in Resolutions, ResolveBase(r) PROVE Natural'
  <2> DEFINE contract == resolution[r].contract
             fee == IF IsZeroFee(contract) THEN layers["default"].fee ELSE contract
             part == ComputeMethodFee(fee, resolution[r].amount)
  <2>1. fee \in Fee
    BY DEF TypeOK, Resolution, Layer, Setting, Fee
  <2>2. part \in Int /\ part >= 0 /\ Advance(r, "base", part)
    BY <1>0, <1>1, <1>5, <2>1 DEF ResolveBase
  <2> HIDE DEF part
  <2> QED
    BY <1>2, <2>2
<1>6. ASSUME NEW r \in Resolutions, ResolveMargin(r) \/ ResolveHoliday(r) \/ SkipHoliday(r)
      PROVE  Natural'
  <2>1. \E pc : \/ Advance(r, pc, Surcharge(layers["margin"], resolution[r].amount))
               \/ Advance(r, pc, Surcharge(layers["holiday"], resolution[r].amount))
               \/ Advance(r, pc, 0)
    BY <1>6 DEF ResolveMargin, ResolveHoliday, SkipHoliday
  <2> QED
    BY <1>0, <1>1, <1>2, <2>1 DEF Layer
<1>7. ASSUME NEW a \in Admins, PutInForce(a) PROVE Natural'
  BY <1>7, PutInForceTyped DEF Natural
<1> QED
  BY <1>3, <1>4, <1>5, <1>6, <1>7
     DEF Next, Resolve, Change, vars, Begin, Read, ChangeHoliday, Update, WriteAuditLog,
         ReadMerchant, RewriteMerchant, ReadSeed, SeedMargin, Stop

(* No fee is negative unless an admin or the configuration has set one     *)
(* that is, which nothing refuses (usecase/admin.go:37-42).                *)
THEOREM FeesAreNatural == Spec => []FeeIsNatural
<1>1. CASE ~Credits
  <2>1. Init => Natural
    BY DEF Init, Natural
  <2>2. TypeOK /\ Natural /\ [Next]_vars => Natural'
    BY <1>1, NextNatural
  <2>3. Natural => FeeIsNatural
    BY DEF Natural, FeeIsNatural
  <2> QED
    BY InitTyped, NextTyped, <2>1, <2>2, <2>3, PTL DEF Spec
<1>2. CASE Credits
  <2>1. FeeIsNatural
    BY <1>2 DEF FeeIsNatural, Credits, NotNegative
  <2> QED
    BY <2>1, PTL
<1> QED
  BY <1>1, <1>2

-----------------------------------------------------------------------------
(* The log                                                                 *)

(* A setting of a layer that was there at the start, is in the log, or     *)
(* belongs to a call that has not come to log it, has failed at that, or   *)
(* was a boot.                                                             *)
Accounted(l, s) ==
    \/ s = Seed[l]
    \/ \E e \in log : e.layer = l /\ e.fee = s.fee /\ s.on \in e.on
    \/ \E a \in Admins : /\ admin[a].pc \in {"updated", "unlogged", "seeded"}
                         /\ admin[a].layer = l /\ admin[a].new = s

(* That also holds for a contract on its way back with a merchant's row.   *)
AllAccounted ==
    /\ \A l \in Layer : Accounted(l, layers[l])
    /\ \A a \in Admins : admin[a].pc = "rewriting" =>
           admin[a].layer = "contract" /\ Accounted("contract", admin[a].new)
    /\ \A a \in Admins : admin[a].pc \in {"read", "updated"} =>
           admin[a].new.on \in admin[a].told

(* A step of a call that is not between its update and its entry, and goes *)
(* there at most, or ends there, takes nothing away.                       *)
LEMMA StaysAccounted ==
    ASSUME TypeOK, NEW a \in Admins, log \subseteq log',
           \A b \in Admins \ {a} : admin'[b] = admin[b],
           admin[a].pc = "updated" => admin[a].new.on \in admin[a].told,
           admin[a].pc \in {"updated", "unlogged", "seeded"} =>
              \/ /\ admin'[a].pc \in {"updated", "unlogged", "seeded"}
                 /\ admin'[a].layer = admin[a].layer /\ admin'[a].new = admin[a].new
              \/ admin[a].pc = "updated" /\ Entry(a) \in log',
           NEW l, NEW s, Accounted(l, s)
    PROVE  Accounted(l, s)'
<1>1. CASE s = Seed[l]
  BY <1>1 DEF Accounted
<1>2. CASE \E e \in log : e.layer = l /\ e.fee = s.fee /\ s.on \in e.on
  BY <1>2 DEF Accounted
<1>3. ASSUME NEW b \in Admins, admin[b].pc \in {"updated", "unlogged", "seeded"},
             admin[b].layer = l, admin[b].new = s
      PROVE  Accounted(l, s)'
  <2>1. CASE b = a /\ admin[a].pc = "updated" /\ Entry(a) \in log'
    <3>1. Entry(a).layer = l /\ Entry(a).fee = s.fee /\ s.on \in Entry(a).on
      BY <1>3, <2>1 DEF Entry
    <3> QED
      BY <2>1, <3>1 DEF Accounted
  <2>2. CASE ~(b = a /\ admin[a].pc = "updated" /\ Entry(a) \in log')
    BY <1>3, <2>2 DEF Accounted
  <2> QED
    BY <2>1, <2>2
<1> QED
  BY <1>1, <1>2, <1>3 DEF Accounted

LEMMA InitAccounted == Init => AllAccounted
BY DEF Init, AllAccounted, Accounted, Nobody

LEMMA NextAccounted == TypeOK /\ AllAccounted /\ [Next]_vars => AllAccounted'
<1> SUFFICES ASSUME TypeOK, AllAccounted, [Next]_vars PROVE AllAccounted'
  OBVIOUS
<1>1. CASE UNCHANGED <<layers, log, admin>>
  BY <1>1 DEF AllAccounted, Accounted
<1>0. ASSUME NEW a \in Admins, \A b \in Admins \ {a} : admin'[b] = admin[b],
             admin'[a].pc \in {"read", "updated"} => admin'[a].new.on \in admin'[a].told
      PROVE  \A b \in Admins : admin'[b].pc \in {"read", "updated"} =>
                admin'[b].new.on \in admin'[b].told
  BY <1>0 DEF AllAccounted
<1>2. ASSUME NEW a \in Admins, NEW pc, NEW l, NEW old, NEW new, NEW told,
             Begin(a, pc, l, old, new, told),
             \/ pc \in {"read", "seeding"} /\ new.on \in told
             \/ pc = "rewriting" /\ l = "contract" /\ new = layers["contract"]
      PROVE  AllAccounted'
  <2>1. /\ UNCHANGED <<layers, log>>
        /\ admin[a].pc = "idle"
        /\ admin'[a] = [pc |-> pc, layer |-> l, old |-> old, new |-> new, told |-> told]
        /\ \A b \in Admins \ {a} : admin'[b] = admin[b]
    BY <1>2 DEF Begin, TypeOK
  <2>2. ASSUME NEW k, NEW s, Accounted(k, s) PROVE Accounted(k, s)'
    BY <2>1, <2>2, StaysAccounted DEF AllAccounted
  <2>3. Accounted("contract", layers["contract"])
    BY DEF AllAccounted, Layer
  <2>4. \A b \in Admins : admin'[b].pc \in {"read", "updated"} =>
         admin'[b].new.on \in admin'[b].told
    BY <1>0, <1>2, <2>1
  <2>5. \A k \in Layer : Accounted(k, layers[k])'
    BY <2>1, <2>2 DEF AllAccounted
  <2>6. ASSUME NEW b \in Admins, admin'[b].pc = "rewriting"
        PROVE  admin'[b].layer = "contract" /\ Accounted("contract", admin[b].new)'
    <3>1. CASE b = a
      BY <1>2, <2>1, <2>2, <2>3, <2>6, <3>1 DEF Accounted
    <3>2. CASE b # a
      BY <2>1, <2>2, <2>6, <3>2 DEF AllAccounted
    <3> QED
      BY <3>1, <3>2
  <2> QED
    BY <2>4, <2>5, <2>6 DEF AllAccounted
<1>3. ASSUME NEW a \in Admins, PutInForce(a),
             \/ admin[a].pc = "read" /\ admin' = [admin EXCEPT ![a].pc = "updated"]
             \/ admin[a].pc = "seeding" /\ admin' = [admin EXCEPT ![a].pc = "seeded"]
      PROVE  AllAccounted'
  <2>1. /\ layers' = [layers EXCEPT ![admin[a].layer] = admin[a].new]
        /\ log' = log /\ admin'[a].pc \in {"updated", "seeded"}
        /\ admin'[a].pc = "updated" => admin[a].pc = "read"
        /\ admin'[a].layer = admin[a].layer /\ admin'[a].new = admin[a].new
        /\ admin'[a].told = admin[a].told
        /\ \A b \in Admins \ {a} : admin'[b] = admin[b]
    BY <1>3 DEF PutInForce, TypeOK
  <2>2. ASSUME NEW l, NEW s, Accounted(l, s) PROVE Accounted(l, s)'
    BY <1>3, <2>1, <2>2, StaysAccounted DEF AllAccounted
  <2>3. Accounted(admin[a].layer, admin[a].new)'
    BY <2>1 DEF Accounted
  <2>4. \A l \in Layer : layers'[l] = IF l = admin[a].layer THEN admin[a].new ELSE layers[l]
    BY <2>1 DEF TypeOK
  <2>5. \A b \in Admins : admin'[b].pc \in {"read", "updated"} =>
         admin'[b].new.on \in admin'[b].told
    BY <1>0, <2>1 DEF AllAccounted
  <2> QED
    BY <2>1, <2>2, <2>3, <2>4, <2>5 DEF AllAccounted
<1>4. ASSUME NEW a \in Admins, WriteAuditLog(a) PROVE AllAccounted'
  <2>1. /\ layers' = layers /\ log' = log \cup {Entry(a)}
        /\ admin[a].pc = "updated" /\ admin'[a].pc = "done"
        /\ admin'[a].new = admin[a].new /\ admin'[a].told = admin[a].told
        /\ \A b \in Admins \ {a} : admin'[b] = admin[b]
    BY <1>4 DEF WriteAuditLog, TypeOK
  <2>2. ASSUME NEW l, NEW s, Accounted(l, s) PROVE Accounted(l, s)'
    BY <2>1, <2>2, StaysAccounted DEF AllAccounted
  <2>3. \A b \in Admins : admin'[b].pc \in {"read", "updated"} =>
         admin'[b].new.on \in admin'[b].told
    BY <1>0, <2>1 DEF AllAccounted
  <2> QED
    BY <2>1, <2>2, <2>3 DEF AllAccounted
<1>6. ASSUME NEW a \in Admins, RewriteMerchant(a) PROVE AllAccounted'
  <2>1. /\ layers' = [layers EXCEPT ![admin[a].layer] = admin[a].new]
        /\ log' = log /\ admin[a].pc = "rewriting" /\ admin'[a].pc = "rewritten"
        /\ admin'[a].new = admin[a].new /\ admin'[a].told = admin[a].told
        /\ \A b \in Admins \ {a} : admin'[b] = admin[b]
    BY <1>6 DEF RewriteMerchant, PutInForce, TypeOK
  <2>2. ASSUME NEW l, NEW s, Accounted(l, s) PROVE Accounted(l, s)'
    BY <2>1, <2>2, StaysAccounted DEF AllAccounted
  <2>3. admin[a].layer = "contract" /\ Accounted("contract", admin[a].new)
    BY <2>1 DEF AllAccounted
  <2>4. \A l \in Layer : layers'[l] = IF l = "contract" THEN admin[a].new ELSE layers[l]
    BY <2>1, <2>3 DEF TypeOK
  <2>5. \A b \in Admins : admin'[b].pc \in {"read", "updated"} =>
         admin'[b].new.on \in admin'[b].told
    BY <1>0, <2>1 DEF AllAccounted
  <2> QED
    BY <2>1, <2>2, <2>3, <2>4, <2>5 DEF AllAccounted
<1>7. ASSUME NEW a \in Admins, Stop(a) PROVE AllAccounted'
  <2>1. /\ UNCHANGED <<layers, log>>
        /\ admin'[a].pc = IF admin[a].pc = "updated" THEN "unlogged" ELSE "failed"
        /\ admin[a].pc \in {"read", "rewriting", "seeding", "updated"}
        /\ admin'[a].layer = admin[a].layer /\ admin'[a].new = admin[a].new
        /\ admin'[a].told = admin[a].told
        /\ \A b \in Admins \ {a} : admin'[b] = admin[b]
    BY <1>7 DEF Stop, TypeOK
  <2>2. ASSUME NEW l, NEW s, Accounted(l, s) PROVE Accounted(l, s)'
    BY <2>1, <2>2, StaysAccounted DEF AllAccounted
  <2>3. \A b \in Admins : admin'[b].pc \in {"read", "updated"} =>
         admin'[b].new.on \in admin'[b].told
    BY <1>0, <2>1 DEF AllAccounted
  <2> QED
    BY <2>1, <2>2, <2>3 DEF AllAccounted
<1>8. ASSUME NEW a \in Admins, Read(a) PROVE AllAccounted'
  BY <1>2, <1>8 DEF Read
<1>9. ASSUME NEW a \in Admins, ChangeHoliday(a) PROVE AllAccounted'
  BY <1>2, <1>9 DEF ChangeHoliday, Nobody
<1>10. ASSUME NEW a \in Admins, ReadSeed(a) PROVE AllAccounted'
  BY <1>2, <1>10 DEF ReadSeed
<1>11. ASSUME NEW a \in Admins, ReadMerchant(a) PROVE AllAccounted'
  BY <1>2, <1>11 DEF ReadMerchant
<1>12. ASSUME NEW a \in Admins, Update(a) PROVE AllAccounted'
  BY <1>3, <1>12 DEF Update
<1>13. ASSUME NEW a \in Admins, SeedMargin(a) PROVE AllAccounted'
  BY <1>3, <1>13 DEF SeedMargin
<1> QED
  BY <1>1, <1>4, <1>6, <1>7, <1>8, <1>9, <1>10, <1>11, <1>12, <1>13
     DEF Next, Resolve, Change, vars, Start, ResolveBase, ResolveMargin, ResolveHoliday,
         SkipHoliday, ResolveFails, Advance

(* What is in force has been logged, the switch of a holiday from its      *)
(* first update on, or its call has failed at that or is about to, or a    *)
(* boot has set it, which logs nothing; also when a stale copy of a        *)
(* merchant's row brings it back (admin.go:160-182, 455-545;               *)
(* app.go:116-131).                                                        *)
THEOREM ChangesAreLogged == Spec => []InForceIsLogged
<1>1. AllAccounted => InForceIsLogged
  BY DEF AllAccounted, Accounted, InForceIsLogged
<1> QED
  BY InitTyped, NextTyped, InitAccounted, NextAccounted, <1>1, PTL DEF Spec

-----------------------------------------------------------------------------
(* One moment                                                              *)

(* All settings of S are the same in all layers but one.                   *)
OneApart(S) == \E k \in Layer : \A l, m \in S : \A j \in Layer \ {k} : l[j] = m[j]

BaseOf(contract, l, a) ==
    ComputeMethodFee(IF IsZeroFee(contract) THEN l["default"].fee ELSE contract, a)

(* Every part of a sum is that of a setting that was in force meanwhile.   *)
Made(r, c, b, m, h) ==
    LET a == resolution[r].amount
    IN  CASE resolution[r].pc = "started" ->
               resolution[r].sum = 0 /\ resolution[r].contract = c["contract"].fee
          [] resolution[r].pc = "base" ->
               resolution[r].sum = BaseOf(c["contract"].fee, b, a)
          [] resolution[r].pc = "margin" ->
               resolution[r].sum = BaseOf(c["contract"].fee, b, a) + Surcharge(m["margin"], a)
          [] resolution[r].pc = "resolved" ->
               resolution[r].sum = BaseOf(c["contract"].fee, b, a) + Surcharge(m["margin"], a)
                                       + Surcharge(h["holiday"], a)
          [] OTHER -> TRUE

Meanwhile(r) ==
    /\ IsFiniteSet(resolution[r].during)
    /\ Cardinality(resolution[r].during) <= 2 => OneApart(resolution[r].during)
    /\ Running(r) => layers \in resolution[r].during

Assembled(r) ==
    resolution[r].pc \in {"started", "base", "margin", "resolved"} =>
        \E c, b, m, h \in resolution[r].during : Made(r, c, b, m, h)

Composed == \A r \in Resolutions : Meanwhile(r) /\ Assembled(r)

(* Parts of settings that differ in one layer only are those of one of     *)
(* these settings.                                                         *)
LEMMA PartsOfOne ==
    ASSUME NEW S, OneApart(S), NEW c \in S, NEW b \in S, NEW m \in S, NEW h \in S, NEW a
    PROVE  \E l \in S : BaseOf(c["contract"].fee, b, a) + Surcharge(m["margin"], a)
                           + Surcharge(h["holiday"], a) = Reference(l, a)
<1>1. PICK k \in Layer : \A l, n \in S : \A j \in Layer \ {k} : l[j] = n[j]
  BY DEF OneApart
<1>2. ASSUME NEW l \in S, l["contract"] = c["contract"], l["default"] = b["default"],
             l["margin"] = m["margin"], l["holiday"] = h["holiday"]
      PROVE  BaseOf(c["contract"].fee, b, a) + Surcharge(m["margin"], a)
                 + Surcharge(h["holiday"], a) = Reference(l, a)
  BY <1>2 DEF BaseOf, Reference
<1>3. CASE k = "contract"
  BY <1>1, <1>2, <1>3 DEF Layer
<1>4. CASE k = "default"
  BY <1>1, <1>2, <1>4 DEF Layer
<1>5. CASE k = "margin"
  BY <1>1, <1>2, <1>5 DEF Layer
<1>6. CASE k = "holiday"
  BY <1>1, <1>2, <1>6 DEF Layer
<1> QED
  BY <1>3, <1>4, <1>5, <1>6 DEF Layer

(* One more setting, different from one of two in one layer.               *)
LEMMA OneMore ==
    ASSUME NEW S, IsFiniteSet(S), Cardinality(S) <= 2 => OneApart(S), NEW l \in S,
           NEW k \in Layer, NEW n, \A j \in Layer \ {k} : n[j] = l[j]
    PROVE  /\ IsFiniteSet(S \cup {n})
           /\ Cardinality(S \cup {n}) <= 2 => OneApart(S \cup {n})
<1>1. IsFiniteSet(S \cup {n})
  BY FS_AddElement
<1>2. CASE n \in S
  <2>1. S \cup {n} = S
    BY <1>2
  <2> QED
    BY <1>1, <2>1
<1>3. CASE n \notin S /\ Cardinality(S \cup {n}) <= 2
  <2>1. Cardinality(S \cup {n}) = Cardinality(S) + 1
    BY <1>3, FS_AddElement
  <2>2. Cardinality(S) \in Nat
    BY FS_CardinalityType
  <2>3. Cardinality(S) # 0
    BY FS_EmptySet
  <2>4. Cardinality(S) = 1
    BY <1>3, <2>1, <2>2, <2>3
  <2>5. S = {l}
    BY <2>4, FS_Singleton
  <2>6. OneApart(S \cup {n})
    BY <2>5 DEF OneApart
  <2> QED
    BY <1>1, <2>6
<1> QED
  BY <1>1, <1>2, <1>3

LEMMA InitComposed == Init => Composed
<1>1. IsFiniteSet({}) /\ OneApart({})
  BY FS_EmptySet DEF OneApart, Layer
<1>2. ASSUME Init, NEW r \in Resolutions
      PROVE  resolution[r].pc = "idle" /\ resolution[r].during = {}
  BY <1>2 DEF Init
<1> QED
  BY <1>1, <1>2 DEF Composed, Meanwhile, Assembled, Running

(* A step of one resolution leaves the others alone.                       *)
LEMMA OthersComposed ==
    ASSUME Composed, NEW r \in Resolutions, layers' = layers,
           \A q \in Resolutions \ {r} : resolution'[q] = resolution[q],
           Meanwhile(r)', Assembled(r)'
    PROVE  Composed'
<1> SUFFICES ASSUME NEW q \in Resolutions \ {r} PROVE Meanwhile(q)' /\ Assembled(q)'
  BY DEF Composed
<1>1. Meanwhile(q) /\ Assembled(q) /\ resolution'[q] = resolution[q]
  BY DEF Composed
<1> QED
  BY <1>1 DEF Meanwhile, Assembled, Made, Running

LEMMA NextComposed == TypeOK /\ Composed /\ [Next]_vars => Composed'
<1> SUFFICES ASSUME TypeOK, Composed, [Next]_vars PROVE Composed'
  OBVIOUS
<1>1. CASE UNCHANGED <<layers, resolution>>
  BY <1>1 DEF Composed, Meanwhile, Assembled, Made, Running
<1>2. ASSUME NEW r \in Resolutions, Start(r) PROVE Composed'
  <2>1. /\ resolution'[r].pc = "started" /\ resolution'[r].sum = 0
        /\ resolution'[r].contract = layers["contract"].fee
        /\ resolution'[r].during = {layers}
        /\ \A q \in Resolutions \ {r} : resolution'[q] = resolution[q]
        /\ layers' = layers
    BY <1>2 DEF Start, TypeOK
  <2>2. Meanwhile(r)'
    <3>1. IsFiniteSet({layers}) /\ OneApart({layers})
      BY FS_Singleton DEF OneApart, Layer
    <3> QED
      BY <2>1, <3>1 DEF Meanwhile, Running
  <2>3. Assembled(r)'
    BY <2>1 DEF Assembled, Made
  <2> QED
    BY <2>1, <2>2, <2>3, OthersComposed
<1>3. ASSUME NEW r \in Resolutions, NEW pc, NEW part, Running(r), Advance(r, pc, part),
             Assembled(r)'
      PROVE  Composed'
  <2>1. /\ resolution'[r].during = resolution[r].during
        /\ \A q \in Resolutions \ {r} : resolution'[q] = resolution[q]
        /\ layers' = layers
    BY <1>3 DEF Advance, TypeOK, Resolution
  <2>2. Meanwhile(r)'
    BY <1>3, <2>1 DEF Composed, Meanwhile
  <2> QED
    BY <1>3, <2>1, <2>2, OthersComposed
<1>4. ASSUME NEW r \in Resolutions, ResolveBase(r) PROVE Composed'
  <2>1. PICK c \in resolution[r].during :
          resolution[r].sum = 0 /\ resolution[r].contract = c["contract"].fee
    BY <1>4 DEF ResolveBase, Composed, Assembled, Made
  <2>2. layers \in resolution[r].during
    BY <1>4 DEF ResolveBase, Composed, Meanwhile, Running
  <2> DEFINE a == resolution[r].amount
             part == BaseOf(c["contract"].fee, layers, a)
  <2>3. Advance(r, "base", part)
    BY <1>4, <2>1 DEF ResolveBase, BaseOf
  <2>4. part \in Int
    <3>1. (IF IsZeroFee(c["contract"].fee) THEN layers["default"].fee ELSE c["contract"].fee)
             \in Fee
      BY <2>1 DEF TypeOK, Resolution, Fee, Layer, Setting
    <3>2. a \in Nat
      BY AmountsAreNatural DEF TypeOK, Resolution
    <3> QED
      BY <3>1, <3>2, MethodFeeBounds DEF BaseOf
  <2>5. /\ resolution'[r].pc = "base" /\ resolution'[r].sum = part
        /\ resolution'[r].amount = a /\ resolution'[r].during = resolution[r].during
    BY <2>1, <2>3, <2>4 DEF Advance, TypeOK, Resolution
  <2>6. Assembled(r)'
    BY <2>1, <2>2, <2>5 DEF Assembled, Made
  <2> QED
    BY <1>3, <1>4, <2>3, <2>6 DEF ResolveBase, Running
<1>5. ASSUME NEW r \in Resolutions, ResolveMargin(r) PROVE Composed'
  <2> DEFINE a == resolution[r].amount
             part == Surcharge(layers["margin"], a)
  <2>1. PICK c, b \in resolution[r].during :
          resolution[r].sum = BaseOf(c["contract"].fee, b, a)
    BY <1>5 DEF ResolveMargin, Composed, Assembled, Made
  <2>2. layers \in resolution[r].during
    BY <1>5 DEF ResolveMargin, Composed, Meanwhile, Running
  <2>3. Advance(r, "margin", part)
    BY <1>5 DEF ResolveMargin
  <2>4. /\ resolution'[r].pc = "margin" /\ resolution'[r].sum = resolution[r].sum + part
        /\ resolution'[r].amount = a /\ resolution'[r].during = resolution[r].during
    BY <2>3 DEF Advance, TypeOK, Resolution
  <2>5. Assembled(r)'
    BY <2>1, <2>2, <2>4 DEF Assembled, Made
  <2> QED
    BY <1>3, <1>5, <2>3, <2>5 DEF ResolveMargin, Running
<1>6. ASSUME NEW r \in Resolutions, ResolveHoliday(r) PROVE Composed'
  <2> DEFINE a == resolution[r].amount
             part == Surcharge(layers["holiday"], a)
  <2>1. PICK c, b, m \in resolution[r].during :
          resolution[r].sum = BaseOf(c["contract"].fee, b, a) + Surcharge(m["margin"], a)
    BY <1>6 DEF ResolveHoliday, Composed, Assembled, Made
  <2>2. layers \in resolution[r].during
    BY <1>6 DEF ResolveHoliday, Composed, Meanwhile, Running
  <2>3. Advance(r, "resolved", part)
    BY <1>6 DEF ResolveHoliday
  <2>4. /\ resolution'[r].pc = "resolved" /\ resolution'[r].sum = resolution[r].sum + part
        /\ resolution'[r].amount = a /\ resolution'[r].during = resolution[r].during
    BY <2>3 DEF Advance, TypeOK, Resolution
  <2>5. Assembled(r)'
    BY <2>1, <2>2, <2>4 DEF Assembled, Made
  <2> QED
    BY <1>3, <1>6, <2>3, <2>5 DEF ResolveHoliday, Running
<1>7. ASSUME NEW r \in Resolutions, SkipHoliday(r) PROVE Composed'
  <2>1. resolution'[r].pc = "skipped"
    BY <1>7 DEF SkipHoliday, Advance, TypeOK, Resolution
  <2>2. Assembled(r)'
    BY <2>1 DEF Assembled
  <2> QED
    BY <1>3, <1>7, <2>2 DEF SkipHoliday, Running
<1>8. ASSUME NEW r \in Resolutions, ResolveFails(r) PROVE Composed'
  <2>1. /\ resolution'[r].pc = "failed"
        /\ resolution'[r].during = resolution[r].during
        /\ \A q \in Resolutions \ {r} : resolution'[q] = resolution[q]
        /\ layers' = layers
    BY <1>8 DEF ResolveFails, TypeOK, Resolution
  <2>2. Meanwhile(r)' /\ Assembled(r)'
    BY <2>1 DEF Composed, Meanwhile, Assembled, Running
  <2> QED
    BY <2>1, <2>2, OthersComposed
<1>9. ASSUME NEW a \in Admins, PutInForce(a) PROVE Composed'
  <2> SUFFICES ASSUME NEW r \in Resolutions PROVE Meanwhile(r)' /\ Assembled(r)'
    BY DEF Composed
  <2>1. Meanwhile(r) /\ Assembled(r)
    BY DEF Composed
  <2>2. admin[a].layer \in Layer
        /\ \A j \in Layer \ {admin[a].layer} : layers'[j] = layers[j]
    BY <1>9 DEF PutInForce, TypeOK
  <2>3. /\ resolution'[r].pc = resolution[r].pc
        /\ resolution'[r].amount = resolution[r].amount
        /\ resolution'[r].contract = resolution[r].contract
        /\ resolution'[r].sum = resolution[r].sum
        /\ resolution'[r].during =
             IF Running(r) THEN resolution[r].during \cup {layers'}
                           ELSE resolution[r].during
    BY <1>9, PutInForceTyped
  <2>4. CASE Running(r)
    <3> DEFINE S == resolution[r].during
    <3>1. /\ IsFiniteSet(S \cup {layers'})
          /\ Cardinality(S \cup {layers'}) <= 2 => OneApart(S \cup {layers'})
      <4>1. /\ IsFiniteSet(S) /\ layers \in S
            /\ Cardinality(S) <= 2 => OneApart(S)
        BY <2>1, <2>4 DEF Meanwhile
      <4> HIDE DEF S
      <4> QED
        BY <2>2, <4>1, OneMore
    <3> QED
      BY <2>1, <2>3, <2>4, <3>1 DEF Meanwhile, Assembled, Made, Running
  <2>5. CASE ~Running(r)
    BY <2>1, <2>3, <2>5 DEF Meanwhile, Assembled, Made, Running
  <2> QED
    BY <2>4, <2>5
<1> QED
  BY <1>1, <1>2, <1>4, <1>5, <1>6, <1>7, <1>8, <1>9
     DEF Next, Resolve, Change, vars, Begin, Read, ChangeHoliday, Update, WriteAuditLog,
         ReadMerchant, RewriteMerchant, ReadSeed, SeedMargin, Stop

(* A fee is that of one setting which was in force during its resolution,  *)
(* unless the layers changed twice meanwhile.                              *)
THEOREM FeesAreOfOneMoment == Spec => []FeeIsOfOneMoment
<1>1. Composed => FeeIsOfOneMoment
  <2> SUFFICES ASSUME Composed, NEW r \in Resolutions, resolution[r].pc = "resolved",
                      Cardinality(resolution[r].during) <= 2
               PROVE  \E l \in resolution[r].during :
                          resolution[r].sum = Reference(l, resolution[r].amount)
    BY DEF FeeIsOfOneMoment
  <2>1. OneApart(resolution[r].during)
    BY DEF Composed, Meanwhile
  <2>2. PICK c, b, m, h \in resolution[r].during :
          resolution[r].sum = BaseOf(c["contract"].fee, b, resolution[r].amount)
              + Surcharge(m["margin"], resolution[r].amount)
              + Surcharge(h["holiday"], resolution[r].amount)
    BY DEF Composed, Assembled, Made
  <2> DEFINE S == resolution[r].during
             a == resolution[r].amount
  <2>3. \E l \in S : BaseOf(c["contract"].fee, b, a) + Surcharge(m["margin"], a)
                         + Surcharge(h["holiday"], a) = Reference(l, a)
    <3>1. OneApart(S) /\ c \in S /\ b \in S /\ m \in S /\ h \in S
      BY <2>1
    <3> HIDE DEF S, a
    <3> QED
      BY <3>1, PartsOfOne
  <2> QED
    BY <2>2, <2>3
<1> QED
  BY InitTyped, NextTyped, InitComposed, NextComposed, <1>1, PTL DEF Spec
=============================================================================
