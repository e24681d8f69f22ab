------------------------------- MODULE Paging -------------------------------
(***************************************************************************)
(* The paginated lists: what a client that asks for one page after the     *)
(* other gets to see while rows are added, enter and leave its filter, and *)
(* holidays are moved to other days.                                       *)
(*                                                                         *)
(* A page is made in two statements outside a transaction, COUNT and       *)
(* SELECT ... ORDER BY created_at DESC LIMIT OFFSET; holidays are ordered  *)
(* by their date.  The page and the limit are corrected by the handler,    *)
(* the use case and the repository, not by all of them the same way; the   *)
(* client learns the number of pages from one correction and gets rows by  *)
(* another.  Rows are never deleted; that they are created one at a time,  *)
(* in the order of their stamps, is an assumption.                         *)
(***************************************************************************)
EXTENDS Integers, FiniteSets, Sequences

CONSTANTS Owners,         \* merchants
          All,            \* no filter
          Lists,          \* the lists a client may walk through
          Asks,           \* the limits it may ask for
          MaxRows,        \* bound of the table
          Days,           \* a holiday may be on
          DefaultLimit, MaxLimit,
          Half            \* 2^31: integers of LIMIT and OFFSET have 32 bits

AllLists == {"payments", "disbursements", "mutations", "webhook_events",
             "admin_merchants", "admin_payments", "admin_disbursements", "admin_mutations",
             "admins", "holidays"}

ASSUME PagingAssumption ==
    /\ All \notin Owners
    /\ Lists \subseteq AllLists
    /\ Asks \subseteq Nat
    /\ Days \subseteq Nat
    /\ Half \in Nat
    /\ MaxLimit \in 1..(Half - 1) /\ DefaultLimit \in 1..MaxLimit
    /\ MaxRows \in 0..(Half - 1)    \* a table of fewer than 2^31 rows

VARIABLES holidays,  \* whether the table is that of the holidays
          table,     \* the rows, oldest first; date: of a holiday
          walk       \* the client; raced: a row came into its list after the last
                     \* count; left: one has gone out of it or to another place

pagingVars == <<holidays, table, walk>>

Ended == [pc |-> "ended", list |-> "none", owner |-> All, open |-> FALSE, limit |-> 0,
          page |-> 1, total |-> 0, there |-> {}, seen |-> {}, raced |-> FALSE, left |-> FALSE]

PagingInit == holidays \in BOOLEAN /\ table = <<>> /\ walk = Ended

-----------------------------------------------------------------------------
(* Pages and limits                                                        *)

(* normalizePage of the repositories and its copies in the use cases.      *)
Cap(limit) ==
    IF limit < 1 THEN DefaultLimit ELSE IF limit > MaxLimit THEN MaxLimit ELSE limit

Floor(limit) == IF limit < 1 THEN DefaultLimit ELSE limit

Int32(n) == ((n + Half) % (2 * Half)) - Half

Offset(page, limit) == Int32((page - 1) * limit)

(* Mutant: division without the remainder. *)
TotalPagesRoundedDown(total, per) == total \div per

TotalPages(total, per) == (total \div per) + (IF total % per # 0 THEN 1 ELSE 0)

-----------------------------------------------------------------------------
(* The handlers: the limit that they pass on                               *)

AskPayments(limit)      == limit
AskDisbursements(limit) == limit
AskMutations(limit)     == IF limit \in 1..MaxLimit THEN limit ELSE DefaultLimit
AskWebhookEvents(limit) == Floor(limit)
AskMerchants(limit)     == Floor(limit)
AskAllPayments(limit)   == Floor(limit)
AskAllDisbursements(limit) == Floor(limit)
AskAllMutations(limit)  == Floor(limit)
AskAdmins(limit)        == Floor(limit)
AskHolidays(limit)      == Floor(limit)

Ask(list, limit) ==
    CASE list = "payments"            -> AskPayments(limit)
      [] list = "disbursements"       -> AskDisbursements(limit)
      [] list = "mutations"           -> AskMutations(limit)
      [] list = "webhook_events"      -> AskWebhookEvents(limit)
      [] list = "admin_merchants"     -> AskMerchants(limit)
      [] list = "admin_payments"      -> AskAllPayments(limit)
      [] list = "admin_disbursements" -> AskAllDisbursements(limit)
      [] list = "admin_mutations"     -> AskAllMutations(limit)
      [] list = "admins"              -> AskAdmins(limit)
      [] list = "holidays"            -> AskHolidays(limit)

-----------------------------------------------------------------------------
(* The use cases: the limit for the repository, and the one that the       *)
(* answer announces.  The last two leave both to the handler.              *)

Announce(limit, per_page) == [limit |-> limit, per_page |-> per_page]

ListPayments(limit)      == Announce(Cap(limit), Cap(limit))
ListDisbursements(limit) == Announce(Cap(limit), Cap(limit))
ListMutations(limit)     == Announce(limit, Floor(limit))
ListWebhookEvents(limit) == Announce(limit, Floor(limit))
ListMerchants(limit)     == Announce(limit, Cap(limit))
ListAllPayments(limit)   == Announce(limit, Cap(limit))
ListAllDisbursements(limit) == Announce(limit, Cap(limit))
ListAllMutations(limit)  == Announce(limit, Cap(limit))
ListAdmins(limit)        == Announce(limit, limit)
ListHolidays(limit)      == Announce(limit, limit)

Listed(list, limit) ==
    CASE list = "payments"            -> ListPayments(limit)
      [] list = "disbursements"       -> ListDisbursements(limit)
      [] list = "mutations"           -> ListMutations(limit)
      [] list = "webhook_events"      -> ListWebhookEvents(limit)
      [] list = "admin_merchants"     -> ListMerchants(limit)
      [] list = "admin_payments"      -> ListAllPayments(limit)
      [] list = "admin_disbursements" -> ListAllDisbursements(limit)
      [] list = "admin_mutations"     -> ListAllMutations(limit)
      [] list = "admins"              -> ListAdmins(limit)
      [] list = "holidays"            -> ListHolidays(limit)

(* per_page of the answer, of which total_pages is made.                   *)
PerPage(list, limit) == Listed(list, Ask(list, limit)).per_page

-----------------------------------------------------------------------------
(* The repositories: who a list is about, whether it can be asked for one  *)
(* status, and its LIMIT.  Filters on columns that never change are like   *)
(* the one on the owner.                                                   *)

Query(owners, status, limit) == [owners |-> owners, status |-> status, limit |-> limit]

Anyone == Owners \cup {All}

PaymentRepoList(limit)      == Query(Anyone, BOOLEAN, Cap(limit))
DisbursementRepoList(limit) == Query(Anyone, BOOLEAN, Cap(limit))
MutationRepoList(limit)     == Query(Anyone, {FALSE}, Cap(limit))
OutboxListByMerchant(limit) == Query(Owners, {FALSE}, Cap(limit))
(* Always without the merchants that are deleted. *)
MerchantRepoList(limit)     == Query({All}, {TRUE}, Cap(limit))
AdminRepoList(limit)        == Query({All}, {FALSE}, Cap(limit))
FeeRepoListHolidays(limit)  == Query({All}, {FALSE}, Floor(limit))

Repository(list, limit) ==
    CASE list \in {"payments", "admin_payments"}           -> PaymentRepoList(limit)
      [] list \in {"disbursements", "admin_disbursements"} -> DisbursementRepoList(limit)
      [] list \in {"mutations", "admin_mutations"}         -> MutationRepoList(limit)
      [] list = "webhook_events"  -> OutboxListByMerchant(limit)
      [] list = "admin_merchants" -> MerchantRepoList(limit)
      [] list = "admins"          -> AdminRepoList(limit)
      [] list = "holidays"        -> FeeRepoListHolidays(limit)

Statement(list, limit) == Repository(list, Listed(list, Ask(list, limit)).limit)

Limit(list, limit) == Statement(list, limit).limit

(* LIMIT: what is left of it after the cut to 32 bits.  The repository of  *)
(* holidays does not cap it before (fee_repo.go:174).                      *)
RowsSent(list, limit) == Int32(Limit(list, limit))

(* Behind its key a merchant sees its own rows; an admin may name one.     *)
OwnersOf(list) ==
    IF list \in {"payments", "disbursements", "mutations", "webhook_events"} THEN Owners
    ELSE Statement(list, 0).owners

(* WHERE: a filter left empty is no condition.                             *)
Matches(row, w) ==
    /\ w.owner # All => row.owner = w.owner
    /\ w.open => row.open

Where(t, w) == {i \in DOMAIN t : Matches(t[i], w)}

(* ORDER BY created_at, but for holidays, which are ordered by date.       *)
Place(t, list, i) == IF list = "holidays" THEN t[i].date ELSE i

(* DESC LIMIT OFFSET: a row comes after those that have a later place.     *)
Ahead(t, w, i) == {j \in Where(t, w) : Place(t, w.list, j) > Place(t, w.list, i)}

Page(t, w, offset, limit) ==
    {i \in Where(t, w) : Cardinality(Ahead(t, w, i)) \in offset..(offset + limit - 1)}

Walking == walk.pc # "ended"

-----------------------------------------------------------------------------
(* The rows                                                                *)

(* The table changes, and with it the list that the client walks through.  *)
Becomes(rows) ==
    LET before == Where(table, walk)
        after  == Where(rows, walk)
        Stays(i) == i \in after /\ Place(rows, walk.list, i) = Place(table, walk.list, i)
    IN  /\ table' = rows
        /\ walk' = [walk EXCEPT
             !.raced = @ \/ (walk.pc = "counted" /\ ~(after \subseteq before)),
             !.left = @ \/ (Walking /\ \E i \in before : ~Stays(i))]

(* uq_holiday_date. *)
FreeDays == Days \ {table[i].date : i \in DOMAIN table}

(* A row is saved, in any status; a holiday, for any day.                  *)
NewRows == IF holidays THEN [owner : {All}, open : {TRUE}, date : FreeDays]
           ELSE [owner : Owners, open : BOOLEAN, date : {0}]

Insert ==
    /\ Len(table) < MaxRows
    /\ \E row \in NewRows : Becomes(Append(table, row))
    /\ UNCHANGED holidays

(* A change of status, of the name of a merchant, its deletion: the row    *)
(* enters the filters on them, or leaves them.                             *)
ChangeRow(i) ==
    /\ ~holidays
    /\ Becomes([table EXCEPT ![i].open = ~@])
    /\ UNCHANGED holidays

(* A holiday is moved to another day.                                      *)
UpdateFeeHoliday(i) ==
    /\ holidays
    /\ \E date \in FreeDays : Becomes([table EXCEPT ![i].date = date])
    /\ UNCHANGED holidays

-----------------------------------------------------------------------------
(* The client                                                              *)

Start ==
    /\ ~Walking
    /\ \E list \in Lists, limit \in Asks :
       \E owner \in OwnersOf(list), open \in Statement(list, limit).status :
          LET w == [Ended EXCEPT !.pc = "ask", !.list = list, !.owner = owner,
                                 !.open = open, !.limit = limit]
          IN  /\ holidays <=> list = "holidays"
              /\ walk' = [w EXCEPT !.there = Where(table, w)]
    /\ UNCHANGED <<holidays, table>>

(* SELECT COUNT; an empty list needs no other statement.                   *)
Count ==
    /\ walk.pc = "ask"
    /\ LET total == Cardinality(Where(table, walk))
       IN  walk' = [walk EXCEPT !.total = total, !.raced = FALSE,
                                !.pc = IF total = 0 /\ walk.list # "holidays"
                                       THEN "ended" ELSE "counted"]
    /\ UNCHANGED <<holidays, table>>

(* The second statement and the answer; a negative LIMIT or OFFSET is an   *)
(* error.                                                                  *)
List ==
    LET per == PerPage(walk.list, walk.limit)
        sent == RowsSent(walk.list, walk.limit)
        offset == Offset(walk.page, Limit(walk.list, walk.limit))
    IN  /\ walk.pc = "counted" /\ sent >= 0 /\ offset >= 0
        /\ walk' = [walk EXCEPT
             !.seen = @ \cup Page(table, walk, offset, sent),
             !.pc = IF walk.page >= TotalPages(walk.total, per) THEN "ended" ELSE "ask",
             !.page = IF walk.page >= TotalPages(walk.total, per) THEN @ ELSE @ + 1]
        /\ UNCHANGED <<holidays, table>>

(* The call fails; the client asks again for the same page.                *)
AskAgain ==
    /\ walk.pc = "counted"
    /\ walk' = [walk EXCEPT !.pc = "ask"]
    /\ UNCHANGED <<holidays, table>>

PagingNext ==
    \/ Insert
    \/ \E i \in DOMAIN table : ChangeRow(i) \/ UpdateFeeHoliday(i)
    \/ Start \/ Count \/ List \/ AskAgain

PagingSpec == PagingInit /\ [][PagingNext]_pagingVars

-----------------------------------------------------------------------------
(* Properties                                                              *)

(* Types; a page is within the pages announced.                            *)
Row == [owner : Owners \cup {All}, open : BOOLEAN, date : Days \cup {0}]

Client(rows) ==
    [pc : {"ended", "ask", "counted"}, list : Lists \cup {"none"}, owner : Owners \cup {All},
     open : BOOLEAN, limit : Asks \cup {0}, page : 1..(MaxRows + 1), total : 0..MaxRows,
     there : SUBSET rows, seen : SUBSET rows, raced : BOOLEAN, left : BOOLEAN]

PagingTypeOK ==
    /\ holidays \in BOOLEAN
    /\ table \in Seq(Row) /\ Len(table) <= MaxRows
    /\ walk \in Client(DOMAIN table)

(* The lists of webhook events, admins and holidays announce pages of the  *)
(* limit asked for; the first two send at most MaxLimit rows of each, the  *)
(* last what is left of the limit in 32 bits (merchant.go:222,             *)
(* admin_handler.go:728, fee_repo.go:174).                                 *)
Overasked == PerPage(walk.list, walk.limit) # RowsSent(walk.list, walk.limit)

(* A client that walks to the last page announced has seen every row that  *)
(* was there when it started, whatever was added meanwhile.  Only a row    *)
(* that was added, or entered the filter, between the two statements of    *)
(* its last call can hide one, or one that left the filter or, a holiday,  *)
(* was moved to another day, and moved the others up.                      *)
WalkSeesAll ==
    ~Walking /\ walk.list # "none" /\ ~walk.raced /\ ~walk.left /\ ~Overasked =>
        walk.there \subseteq walk.seen

(* A client that asks for no more pages than were announced never asks for *)
(* an offset that is cut, whichever list announces them and however large  *)
(* its pages are announced (payment_repo.go:186; see OffsetNeverOverflows  *)
(* for one that asks for others).                                          *)
AnnouncedOffsetsFit ==
    Walking => Offset(walk.page, Limit(walk.list, walk.limit))
                   = (walk.page - 1) * Limit(walk.list, walk.limit)

-----------------------------------------------------------------------------
(* What a comment says and the code does not do                            *)

(* payment_repo.go:186: "limit capped at maxLimit=100, never overflows     *)
(* int32".  The page is not capped: an offset may wrap around.             *)
OffsetNeverOverflows ==
    \A list \in Lists, limit \in Asks, page \in 1..(2 * Half) :
        Offset(page, Limit(list, limit)) = (page - 1) * Limit(list, limit)

(* The format of the dates that a use case or a handler understands; what  *)
(* it does not understand is no filter.                                    *)
DateFormat(list) == IF list \in {"payments", "disbursements"} THEN "2006-01-02" ELSE "RFC3339"

(* payment_handler.go:121 and disbursement_handler.go:64: "Start date      *)
(* (RFC3339)".                                                             *)
DatesAreRFC3339 == \A list \in Lists : DateFormat(list) = "RFC3339"
=============================================================================
