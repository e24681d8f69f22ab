---------------------------- MODULE DailyWindow ----------------------------
(***************************************************************************)
(* Which rows the daily cash-out limit counts                              *)
(* (internal/infrastructure/database/postgres/query/disbursement.sql,      *)
(* SumDisbursementsToday).  The limit is meant per day of Jakarta; the     *)
(* query takes the date there and turns it back into a point of time in    *)
(* the time zone of the database session, which nothing in the repository  *)
(* sets.  Disbursement models the transaction around the query; here the   *)
(* reservations are single steps, as the lock on the merchant makes them,  *)
(* and the clock is what matters: it counts hours of UTC.                  *)
(***************************************************************************)
EXTENDS Integers, FiniteSetsExt

CONSTANTS Disbursements,   \* rows, in whatever order they are inserted
          Amounts,         \* amounts that are requested
          DailyLimit,      \* merchants.daily_cashout_limit
          SessionOffset,   \* the session's time zone, in hours east of UTC
          MaxClock         \* bound on the clock

Jakarta == 7

VARIABLES clock,   \* hours since midnight UTC of some day
          rows     \* table disbursements: when created, how much, failed or not

vars == <<clock, rows>>

NoRow == [at |-> 0, amount |-> 0, status |-> "none"]

Init ==
    /\ clock = 0
    /\ rows = [d \in Disbursements |-> NoRow]

(* The day of Jakarta an hour belongs to.                                  *)
DateInJakarta(h) == (h + Jakarta) \div 24

(* (NOW() AT TIME ZONE 'Asia/Jakarta')::DATE::TIMESTAMPTZ                  *)
StartOfDay == 24 * DateInJakarta(clock) - SessionOffset

SumDisbursementsToday ==
    MapThenSumSet(LAMBDA d : rows[d].amount,
        {d \in Disbursements : rows[d].status = "open" /\ rows[d].at >= StartOfDay})

Disburse(d) ==
    /\ rows[d].status = "none"
    /\ \E a \in Amounts :
        /\ SumDisbursementsToday + a <= DailyLimit
        /\ rows' = [rows EXCEPT ![d] = [at |-> clock, amount |-> a, status |-> "open"]]
    /\ UNCHANGED clock

(* The provider refuses, or reports a failure later.                       *)
Fail(d) ==
    /\ rows[d].status = "open"
    /\ rows' = [rows EXCEPT ![d].status = "failed"]
    /\ UNCHANGED clock

Tick ==
    /\ clock < MaxClock
    /\ clock' = clock + 1
    /\ UNCHANGED rows

Next ==
    \/ \E d \in Disbursements : Disburse(d) \/ Fail(d)
    \/ Tick

Spec == Init /\ [][Next]_vars

-----------------------------------------------------------------------------
(* disbursement.sql:42: the total of "today (WIB UTC+7)" is what the limit *)
(* is about, so no day of Jakarta sees more than the limit paid out.       *)
LimitPerDay ==
    \A d \in Disbursements :
        MapThenSumSet(LAMBDA e : rows[e].amount,
            {e \in Disbursements : /\ rows[e].status = "open"
                                   /\ DateInJakarta(rows[e].at) = DateInJakarta(rows[d].at)})
            <= DailyLimit
=============================================================================
