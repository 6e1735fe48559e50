------------------------------- MODULE Listing -------------------------------
(***************************************************************************)
(* GET /logs and GET /error-groups: a page is a count and a SELECT with    *)
(* ORDER BY, LIMIT and OFFSET, each of which sees the rows committed when  *)
(* it runs.  A client that wants the whole list asks for page after page   *)
(* while rows come, go and change their place.                             *)
(*                                                                         *)
(* The columns that never change once a row is there (service, level,      *)
(* created_at, ...) filter and sort as the timestamp of a log does, and    *)
(* are left out.  Of the columns of a group that do change, and by which a *)
(* list may be filtered, status is modelled; the filters on severity,      *)
(* assigned_to and text (title, exception_type) are left out: a row enters *)
(* and leaves a list by them as it does by its status.                     *)
(***************************************************************************)
EXTENDS CommittedStore, SequencesExt

CONSTANTS
  Id,        \* the primary key of each log and group
  Queries,   \* what is asked for, the page aside
  PageSize,
  MaxPages   \* bound on the pages that the client asks for

QueryType ==
  [table : {"logs"}, from : Times, to : Times,
   by : {"timestamp"}, order : {"asc", "desc"}]
  \cup
  [table : {"groups"}, from : Times, to : Times,
   status : {"any"} \cup (GroupStatuses \ {"absent"}),
   by : {"last_seen", "count"}, order : {"asc", "desc"}]

ASSUME ListingAssumption ==
  /\ Id \in [Logs \cup Groups -> Nat]
  /\ \A table \in {Logs, Groups} : \A r, s \in table : Id[r] = Id[s] => r = s
  /\ Queries \subseteq QueryType
  /\ PageSize \in Nat \ {0} /\ MaxPages \in Nat

VARIABLES
  query,    \* the list that the client goes through
  listing   \* how far it is, and what the properties need

\* returned, repeats: the rows on the pages so far, and how often one was on a
\* page again; lasting: those that were in the list ever since it was first
\* counted; left, entered, moved: how often, since then, a row left the list,
\* entered it, or changed its sort key; drift: the rows that left or entered
\* between the count and the SELECT; items, total, pages: the last answer.
NoListing == [pc |-> "count", page |-> 0, total |-> 0,
              returned |-> {}, repeats |-> 0, lasting |-> {},
              left |-> 0, entered |-> 0, moved |-> 0, drift |-> 0,
              answer |-> [items |-> 0, total |-> 0, pages |-> 0]]

ListingInit == query \in Queries /\ listing = NoListing

-----------------------------------------------------------------------------
(* build_query and the order of the list *)

\* from and to are the whole range of Times when they are not given.  A group
\* matches if it was seen at some time between them.
Matches(r) ==
  IF query.table = "logs"
  THEN r \in Stored /\ rows[r].timestamp \in query.from..query.to
  ELSE /\ groups[r].status # "absent"
       /\ query.status \in {"any", groups[r].status}
       /\ groups[r].last_seen >= query.from
       /\ groups[r].first_seen <= query.to

Matching == {r \in IF query.table = "logs" THEN Logs ELSE Groups : Matches(r)}

Key(r) == IF query.table = "logs" THEN rows[r].timestamp ELSE groups[r][query.by]

\* A variant of Precedes: rows with the same key come in any order.
PrecedesByKey(r, s) ==
  IF query.order = "asc" THEN Key(r) < Key(s) ELSE Key(s) < Key(r)

\* ORDER BY column, id: both ascending or both descending.
Precedes(r, s) ==
  LET before(a, b) == Key(a) < Key(b) \/ (Key(a) = Key(b) /\ Id[a] < Id[b])
  IN  IF query.order = "asc" THEN before(r, s) ELSE before(s, r)

\* The orders in which the database may return the rows.
Arrangements ==
  {list \in SetToSeqs(Matching) :
     \A i, j \in DOMAIN list : Precedes(list[i], list[j]) => i < j}

-----------------------------------------------------------------------------
(* list_logs, list_error_groups, one page after another *)

\* ceil(total_items / page_size)
TotalPages(total) == (total + PageSize - 1) \div PageSize

CountRows ==
  /\ listing.pc = "count" /\ listing.page < MaxPages
  /\ listing' = [listing EXCEPT !.pc = "select", !.page = @ + 1,
                                !.total = Cardinality(Matching), !.drift = 0,
                                !.lasting = IF listing.page = 0 THEN Matching ELSE @]
  /\ UNCHANGED query

\* A variant of Offset: pages are counted from 0.
OffsetFromZero(page) == page * PageSize

Offset(page) == (page - 1) * PageSize

SelectPage ==
  /\ listing.pc = "select"
  /\ \E list \in Arrangements :
       LET first == Offset(listing.page)
           items == {list[i] : i \in DOMAIN list \cap (first + 1)..(first + PageSize)}
       IN  listing' = [listing EXCEPT
             !.pc = "count",
             !.returned = @ \cup items,
             !.repeats = @ + Cardinality(items \cap listing.returned),
             !.answer = [items |-> Cardinality(items), total |-> listing.total,
                         pages |-> TotalPages(listing.total)]]
  /\ UNCHANGED query

ListStep == CountRows \/ SelectPage

\* What a write by somebody else means to the list.
ListChanges ==
  /\ UNCHANGED query
  /\ LET left    == {r \in Matching : ~ Matches(r)'}
         entered == Matching' \ Matching
         moved   == {r \in Matching \ left : Key(r)' # Key(r)}
     IN  IF listing.page = 0 THEN UNCHANGED listing
         ELSE listing' = [listing EXCEPT
                !.lasting = @ \ left,
                !.left = @ + Cardinality(left),
                !.entered = @ + Cardinality(entered),
                !.moved = @ + Cardinality(moved),
                !.drift = IF listing.pc = "count" THEN @
                          ELSE @ + Cardinality(left \cup entered)]

-----------------------------------------------------------------------------
(* Properties *)

Position(r) == Cardinality({s \in Matching : Precedes(s, r)})

\* The rows that were in the list all along and that the client will not meet
\* any more: they stand on the pages it has read, but were not on them.
PassedOver ==
  LET read == IF listing.pc = "count" THEN listing.page ELSE listing.page - 1
  IN  {r \in listing.lasting \ listing.returned : Position(r) < read * PageSize}

\* A client misses no more rows than there were rows that left the list or
\* changed their place in it meanwhile, and meets a row again no more often than
\* a row entered it or changed its place: neither ever, if nothing did.
PagingIsBounded ==
  /\ Cardinality(PassedOver) <= listing.left + listing.moved
  /\ listing.repeats <= listing.entered + listing.moved

\* The page fits the total that comes with it, up to the rows that came and
\* went between the two reads: it is full, it is the rest, or it is past the
\* last page.
PageFitsTotal ==
  LET answer   == listing.answer
      rest     == answer.total - (listing.page - 1) * PageSize
      expected == IF rest <= 0 THEN 0 ELSE IF rest < PageSize THEN rest ELSE PageSize
  IN  listing.pc = "count" /\ listing.page > 0 =>
        /\ answer.items <= expected + listing.drift
        /\ expected <= answer.items + listing.drift
        /\ listing.drift = 0 => (answer.items > 0 <=> listing.page <= answer.pages)

=============================================================================
