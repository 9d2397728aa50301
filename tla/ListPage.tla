------------------------------ MODULE ListPage ------------------------------
(***************************************************************************)
(* The list pages of the administration: what the address says, what the   *)
(* page shows, and the rows in the query cache.  A click or the search box *)
(* changes the address at once; the page follows when the router has       *)
(* loaded the route, which takes a request when the profile of the person  *)
(* is no longer fresh; the rows follow when they have been fetched, and    *)
(* until then the page shows those of the search before.                   *)
(* The router, the query cache and the table widget are outside the        *)
(* repository; the routes, lib/list-search.ts and Common/DataTable are the *)
(* code in it.                                                             *)
(***************************************************************************)
EXTENDS Naturals, Sequences

CONSTANTS
  Uses,   \* the pages checked, with the bounds on what is done with them
  Words,  \* what is searched for
  Sizes   \* the page sizes, 1 being the one the address leaves out

Any == "any"   \* a filter that is not set, an empty search box
Unset == "unset"

ASSUME ListAssumption ==
  /\ Any \notin Words
  /\ 1 \in Sizes /\ Sizes \subseteq Nat \ {0}
  /\ \A u \in Uses :
       /\ {u.fresh, u.removals, u.page.newestFirst, u.page.onArchive, u.page.brief} \subseteq BOOLEAN
       /\ u.page.brief => u.page.newestFirst
       /\ {u.total, u.others} \subseteq Nat

-----------------------------------------------------------------------------
(* What stands above the table: the tabs and the filters, of which the     *)
(* model tells one, and that of the status, apart from the search box.     *)

Controls == {"tab", "sort", "page", "size", "query", "history", "focus", "retry"}

UserFilters == {"query", "filter", "status"}
PakFilters == {"query", "filter", "status"}
KgPrefixFilters == {"query"}
KgVersionFilters == {"query"}
DefectGroupFilters == {"query"}
DefectTypeFilters == {"query", "filter"}
ProductionOrderFilters == {"query"}
BatchFilters == {"query", "status"}
KgUnitFilters == {"query", "filter", "status"}
AuditFilter == {"filter"}

(* The heads of the columns that sort: [column -> which of the orders a    *)
(* first press takes, TRUE being the descending one].  The main column is  *)
(* the one the current tab is sorted by; production orders do not show it, *)
(* nor batches the time of their archiving.  "other" stands for all the    *)
(* rest that sort.                                                         *)

Sorted(main, other) == [main |-> main, other |-> other, archived_at |-> {TRUE}]

UserColumns == [main |-> {FALSE}, archived_at |-> {TRUE}]
PakColumns == Sorted({FALSE}, BOOLEAN)
KgPrefixColumns == Sorted({FALSE}, {FALSE})
KgVersionColumns == Sorted({FALSE}, {FALSE})
DefectGroupColumns == Sorted({FALSE}, {FALSE})
DefectTypeColumns == Sorted({FALSE}, {FALSE})
ProductionOrderColumns == [other |-> BOOLEAN, archived_at |-> {TRUE}]
BatchColumns == [main |-> {TRUE}, other |-> BOOLEAN]
AuditColumns == [main |-> {TRUE}, other |-> {FALSE}]
KgUnitColumns == <<>>

(* The pages.  newestFirst: how the current tab is sorted; onArchive: the  *)
(* status filter is there on the archive tab; forgets: changing to these   *)
(* tabs resets the status filter; emptyBy: the empty page is shown when no *)
(* row of the page, or no row at all, was found; brief: an ascending order *)
(* is left out of the address.                                             *)

Catalog(filters, columns) ==
  [uses |-> (Controls \ {"query"}) \cup filters, columns |-> columns,
   newestFirst |-> FALSE, onArchive |-> TRUE, forgets |-> {},
   emptyBy |-> "items", brief |-> FALSE]

Users == [Catalog(UserFilters, UserColumns) EXCEPT !.onArchive = FALSE, !.forgets = {TRUE}]
Paks == [Catalog(PakFilters, PakColumns) EXCEPT !.onArchive = FALSE, !.forgets = BOOLEAN]
KgPrefixes == Catalog(KgPrefixFilters, KgPrefixColumns)
KgVersions == Catalog(KgVersionFilters, KgVersionColumns)
DefectGroups == Catalog(DefectGroupFilters, DefectGroupColumns)
DefectTypes == Catalog(DefectTypeFilters, DefectTypeColumns)
ProductionOrders ==
  [Catalog(ProductionOrderFilters, ProductionOrderColumns) EXCEPT !.newestFirst = TRUE]
Batches ==
  [Catalog(BatchFilters, BatchColumns) EXCEPT !.newestFirst = TRUE, !.forgets = BOOLEAN]
BatchPage ==
  [Catalog(KgUnitFilters, KgUnitColumns) EXCEPT
     !.uses = @ \ {"tab", "sort", "size"}, !.emptyBy = "total"]
AuditPage ==
  [Catalog(AuditFilter, AuditColumns) EXCEPT
     !.uses = @ \ {"tab"}, !.newestFirst = TRUE, !.emptyBy = "filtered items", !.brief = TRUE]

(* What is done with a page.  touched: the controls the person uses;       *)
(* fresh: the profile is, so that the route is loaded before the next act; *)
(* total: the rows of every search at first; removals: rows may leave a    *)
(* search; acts, others: what the person and the database may do.          *)

Use(page, touched, acts) ==
  [page |-> page, touched |-> touched, fresh |-> TRUE, total |-> 2, removals |-> FALSE,
   acts |-> acts, others |-> 0]

-----------------------------------------------------------------------------
VARIABLES
  use,      \* the use of this behaviour
  matching, \* [scope -> how many rows the database has in it]
  history,  \* the addresses of the tab, a sequence of searches
  at,       \* the place of the present one
  shown,    \* the search the page was last rendered with
  input,    \* what the search box holds: [word, padded]
  timer,    \* the 300 ms since the last change of the box are running
  answers,  \* the query cache: [queries -> answer]
  latest,   \* the rows shown before, for as long as there are no newer
  fetch,    \* the request for the rows: [step, answer]
  failed,   \* it failed, and there are no rows of this search
  chosen,   \* the sorting the person chose last, until the tab or the
            \*  address changes otherwise
  acts, others

list == use.page

pageVars == <<use, history, at, shown, input, timer, chosen, acts>>
rowVars == <<answers, latest, fetch, failed>>
serverVars == <<matching, others>>
vars == <<pageVars, rowVars, serverVars>>

Url == history[at]

NotChosen == [id |-> Unset, desc |-> FALSE]
Box(word) == [word |-> word, padded |-> FALSE]

EmptySearch ==
  [archived |-> FALSE, filter |-> Any, status |-> Any, q |-> Any,
   sort |-> Unset, order |-> Unset, page |-> 1, size |-> 1]

NoData == [for |-> EmptySearch, known |-> FALSE, total |-> 0, items |-> 0]
NoFetch == [step |-> "none", answer |-> NoData]
Asked == [step |-> "asked", answer |-> NoData]

Scopes ==
  [archived : BOOLEAN, filter : {Any, "set"}, status : {Any, "set"}, q : Words \cup {Any}]
ScopeOf(s) == [archived |-> s.archived, filter |-> s.filter, status |-> s.status, q |-> s.q]

-----------------------------------------------------------------------------
(* lib/list-search.ts.                                                     *)

DefaultSort(archived) ==
  IF archived THEN [id |-> "archived_at", desc |-> TRUE]
              ELSE [id |-> "main", desc |-> list.newestFirst]

SortingFromSearch(s) ==
  LET fallback == DefaultSort(s.archived)
      id == IF s.sort = Unset THEN fallback.id ELSE s.sort
  IN [id |-> id,
      desc |-> IF s.order # Unset THEN s.order = "desc" ELSE id = fallback.id /\ fallback.desc]

SearchFromSorting(s, sorting, fallback) ==
  LET normal == IF list.brief THEN sorting.desc = (sorting.id = fallback.id)
                              ELSE sorting = fallback
  IN [s EXCEPT !.sort = IF sorting.id = fallback.id THEN Unset ELSE sorting.id,
               !.order = IF normal THEN Unset ELSE IF sorting.desc THEN "desc" ELSE "asc"]

(* Mutant: the status of the address is taken as it is.                    *)
Unchecked(s) == s

(* validateSearch of the routes: where there is no status filter, none     *)
(* applies.                                                                *)
Validated(s) ==
  IF s.archived /\ ~list.onArchive THEN [s EXCEPT !.status = Any] ELSE s

(* Mutant: the rows are asked for without the words of the search.         *)
QueryWithoutWords(s) ==
  [scope |-> [ScopeOf(s) EXCEPT !.q = Any], sorting |-> SortingFromSearch(s),
   page |-> s.page, size |-> s.size]

(* What the rows are asked for by, and kept under.                         *)
Query(s) ==
  [scope |-> ScopeOf(s), sorting |-> SortingFromSearch(s), page |-> s.page, size |-> s.size]

-----------------------------------------------------------------------------
(* What the page shows.                                                    *)

Data ==
  IF Query(shown) \in DOMAIN answers THEN answers[Query(shown)]
  ELSE IF failed THEN NoData ELSE latest

Empty(answer) ==
  CASE list.emptyBy = "total" -> answer.total = 0
    [] list.emptyBy = "items" -> answer.items = 0
    [] OTHER -> answer.items = 0 /\ shown.filter # Any

View ==
  CASE ~Data.known -> IF failed THEN "error" ELSE "loading"
    [] Data.known /\ Empty(Data) -> "empty"
    [] OTHER -> "table"

Loading == fetch.step # "none"

PageCount(total, size) == (total + size - 1) \div size

(* The buttons below and above the table wait for its rows.                *)
Usable == View = "table" /\ ~Loading

Init ==
  /\ use \in Uses
  /\ matching = [s \in Scopes |-> use.total]
  /\ history = <<EmptySearch>>
  /\ at = 1
  /\ shown = EmptySearch
  /\ input = Box(Any)
  /\ timer = FALSE
  /\ answers = <<>>
  /\ latest = NoData
  /\ fetch = Asked
  /\ failed = FALSE
  /\ chosen = NotChosen
  /\ acts = 0 /\ others = 0

-----------------------------------------------------------------------------
(* The person.  Every click changes the newest address, be the page still  *)
(* the one of an older.                                                    *)

Acts(control) ==
  /\ control \in use.touched \cap list.uses
  /\ use.fresh => shown = Url
  /\ acts < use.acts
  /\ acts' = acts + 1
  /\ UNCHANGED <<use, shown, serverVars>>

Navigate(search) ==
  /\ history' = Append(SubSeq(history, 1, at), Validated(search))
  /\ at' = at + 1
  /\ UNCHANGED <<input, timer, rowVars>>

SelectTab(archived) ==
  /\ Acts("tab")
  /\ archived # shown.archived
  /\ Navigate([Url EXCEPT !.archived = archived, !.sort = Unset, !.order = Unset, !.page = 1,
                          !.status = IF archived \in list.forgets THEN Any ELSE @])
  /\ chosen' = NotChosen

SelectFilter(value) ==
  /\ Acts("filter")
  /\ value # shown.filter
  /\ Navigate([Url EXCEPT !.filter = value, !.page = 1])
  /\ UNCHANGED chosen

SelectStatus(value) ==
  /\ Acts("status")
  /\ shown.archived => list.onArchive
  /\ value # shown.status
  /\ Navigate([Url EXCEPT !.status = value, !.page = 1])
  /\ UNCHANGED chosen

(* The first press takes the order fit for the column, the next turns it   *)
(* round.                                                                  *)
ToggleSort(column, desc) ==
  /\ Acts("sort")
  /\ Usable
  /\ column \in DOMAIN list.columns
  /\ column = "archived_at" => shown.archived
  /\ LET now == SortingFromSearch(shown)
     IN desc \in IF column = now.id THEN {~now.desc} ELSE list.columns[column]
  /\ chosen' = [id |-> column, desc |-> desc]
  /\ Navigate([SearchFromSorting(Url, chosen', DefaultSort(shown.archived)) EXCEPT !.page = 1])

GoToPage(page) ==
  /\ Acts("page")
  /\ Usable
  /\ LET count == PageCount(Data.total, shown.size)
     IN /\ page \in {1, shown.page - 1, shown.page + 1, count} \ {0}
        /\ page < shown.page \/ (shown.page < count /\ page <= count /\ page # shown.page)
  /\ Navigate([Url EXCEPT !.page = page, !.size = shown.size])
  /\ UNCHANGED chosen

SetPageSize(size) ==
  /\ Acts("size")
  /\ Usable
  /\ size # shown.size
  /\ Navigate([Url EXCEPT !.page = 1, !.size = size])
  /\ UNCHANGED chosen

Travel(place) ==
  /\ Acts("history")
  /\ place \in 1..Len(history) \ {at}
  /\ at' = place
  /\ chosen' = NotChosen
  /\ UNCHANGED <<history, input, timer, rowVars>>

Type(text) ==
  /\ Acts("query")
  /\ text # input
  /\ input' = text
  /\ timer' = TRUE
  /\ UNCHANGED <<history, at, chosen, rowVars>>

Retry ==
  /\ Acts("retry")
  /\ View = "error"
  /\ fetch' = Asked
  /\ failed' = FALSE
  /\ UNCHANGED <<history, at, input, timer, chosen, answers, latest>>

(* The window gains the focus and the rows are older than their stale time.*)
WindowFocused ==
  /\ Acts("focus")
  /\ ~Loading
  /\ fetch' = Asked
  /\ failed' = FALSE
  /\ UNCHANGED <<history, at, input, timer, chosen, answers, latest>>

-----------------------------------------------------------------------------
(* useSearchInput.                                                         *)

TimerFires ==
  /\ timer
  /\ use.fresh => shown = Url
  /\ timer' = FALSE
  /\ IF input.word # shown.q
       THEN history' = [history EXCEPT ![at] = Validated([@ EXCEPT !.q = input.word, !.page = 1])]
       ELSE UNCHANGED history
  /\ UNCHANGED <<use, at, shown, input, chosen, acts, rowVars, serverVars>>

(* Mutant: the box does not follow the address.                            *)
BoxStays == UNCHANGED <<input, timer>>

(* The box takes what the address says now, and its timer starts again.    *)
BoxFollows ==
  IF Url.q # shown.q THEN input' = Box(Url.q) /\ timer' = TRUE ELSE UNCHANGED <<input, timer>>

(* The route of the newest address is loaded.  The request for the rows of *)
(* the search before is given up; those of this one may be in the cache,   *)
(* and may be fresh.                                                       *)
Land ==
  /\ shown # Url
  /\ shown' = Url
  /\ BoxFollows
  /\ IF Query(Url) = Query(shown)
       THEN UNCHANGED <<fetch, failed, latest>>
       ELSE /\ failed' = FALSE
            /\ latest' = IF Data.known THEN Data ELSE latest
            /\ \E fresh \in BOOLEAN :
                 /\ fresh => Query(Url) \in DOMAIN answers
                 /\ fetch' = IF fresh THEN NoFetch ELSE Asked
  /\ UNCHANGED <<use, history, at, chosen, acts, answers, serverVars>>

-----------------------------------------------------------------------------
(* The rows.                                                               *)

RowsAnswered ==
  /\ fetch.step = "asked"
  /\ LET total == matching[ScopeOf(shown)]
         before == (shown.page - 1) * shown.size
         items == IF total <= before THEN 0
                  ELSE IF total - before < shown.size THEN total - before ELSE shown.size
     IN fetch' = [step |-> "answered",
                  answer |-> [for |-> shown, known |-> TRUE, total |-> total, items |-> items]]
  /\ UNCHANGED <<pageVars, serverVars, answers, latest, failed>>

RowsArrived ==
  /\ fetch.step = "answered"
  /\ answers' = [k \in DOMAIN answers \cup {Query(shown)} |->
                   IF k = Query(shown) THEN fetch.answer ELSE answers[k]]
  /\ fetch' = NoFetch
  /\ UNCHANGED <<pageVars, serverVars, latest, failed>>

RowsFailed ==
  /\ fetch.step # "none"
  /\ fetch' = NoFetch
  /\ failed' = (Query(shown) \notin DOMAIN answers)
  /\ UNCHANGED <<pageVars, serverVars, answers, latest>>

OthersChange(scope) ==
  /\ others < use.others
  /\ others' = others + 1
  /\ \/ matching' = [matching EXCEPT ![scope] = @ + 1]
     \/ /\ use.removals /\ list # AuditPage
        /\ matching[scope] > 0
        /\ matching' = [matching EXCEPT ![scope] = @ - 1]
  /\ UNCHANGED <<pageVars, rowVars>>

Next ==
  \/ \E archived \in BOOLEAN : SelectTab(archived)
  \/ \E value \in {Any, "set"} : SelectFilter(value) \/ SelectStatus(value)
  \/ \E column \in {"main", "other", "archived_at"}, desc \in BOOLEAN : ToggleSort(column, desc)
  \/ \E page \in 1..(use.total + use.others) : GoToPage(page)
  \/ \E size \in Sizes : SetPageSize(size)
  \/ \E place \in 1..Len(history) : Travel(place)
  \/ \E word \in Words \cup {Any}, padded \in BOOLEAN : Type([word |-> word, padded |-> padded])
  \/ Retry \/ WindowFocused
  \/ TimerFires \/ Land
  \/ RowsAnswered \/ RowsArrived \/ RowsFailed
  \/ \E scope \in {ScopeOf(shown), ScopeOf(Url)} : OthersChange(scope)

Spec == Init /\ [][Next]_vars

-----------------------------------------------------------------------------
TypeOK ==
  /\ use \in Uses
  /\ at \in 1..Len(history)
  /\ {shown.page, Url.page} \subseteq Nat \ {0}
  /\ {ScopeOf(shown), ScopeOf(Url)} \subseteq Scopes
  /\ input.word \in Words \cup {Any}
  /\ {timer, failed} \subseteq BOOLEAN
  /\ fetch.step \in {"none", "asked", "answered"}
  /\ \A s \in Scopes : matching[s] \in Nat

(* The rows of an answer are those the page asks for.                      *)
OfShown(answer) ==
  /\ ScopeOf(answer.for) = ScopeOf(shown)
  /\ SortingFromSearch(answer.for) = SortingFromSearch(shown)
  /\ answer.for.page = shown.page /\ answer.for.size = shown.size

(* Rows that are not being loaded are those of the search the page is      *)
(* rendered with: neither the rows kept in view, nor the cache, nor an     *)
(* answer to an earlier search passes for them.                            *)
RowsMatchSearch == View = "table" /\ ~Loading => OfShown(Data)

(* The person waits for each route, and rows are only added.  A click on a *)
(* page that is still loading may choose a page of a search that has been  *)
(* narrowed, or a sorting of a tab that has been left.                     *)
Steady == use.fresh /\ (use.removals => list = AuditPage)

(* Then nobody is led to a page that does not exist: every narrowing of    *)
(* the search leads to its first page, and the rows of another search lend *)
(* their page count to nobody.                                             *)
PageExists ==
  Steady => shown.page = 1 \/ shown.page <= PageCount(matching[ScopeOf(shown)], shown.size)

(* A sorting chosen at the head of a column lasts through the address and  *)
(* through every other control until the tab or the address is changed.    *)
SortingIsKept ==
  use.fresh /\ chosen # NotChosen /\ shown = Url => SortingFromSearch(shown) = chosen

(* No filter applies that the page does not show, though a click on an     *)
(* older page may set it together with the tab that hides it.              *)
HiddenFilterIsOff == shown.archived /\ ~list.onArchive => shown.status = Any

(* "Nothing here" is said of a list without rows only, and by the lists    *)
(* that look at the rows of the page as long as the page exists.           *)
EmptyMeansNone ==
  list.emptyBy = "total" \/ Steady => (View = "empty" /\ ~Loading => Data.total = 0)

(* However clicks, keys and answers interleave, in the end the address,    *)
(* the page, the search box and the rows agree.                            *)
PageSettles ==
  <>[](/\ shown = Url /\ input.word = shown.q /\ ~timer
       /\ ~Loading /\ (failed \/ OfShown(Data)))

(* However clicks, the search box and the history interleave, the search   *)
(* is one the page can show: no filter out of sight and, for who waits for *)
(* the route, a page that exists and the sorting chosen.                   *)
SearchIsSound == PageExists /\ SortingIsKept /\ HiddenFilterIsOff

(* What the page shows is true of its search: rows of that search, and no  *)
(* empty page where there are rows.                                        *)
ViewIsTrue == RowsMatchSearch /\ EmptyMeansNone
=============================================================================
