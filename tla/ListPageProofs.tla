---------------------------- MODULE ListPageProofs ----------------------------
(***************************************************************************)
(* What is proved of ListPage: that the search of a list page is one the   *)
(* page can show, and that what the page shows is true of its search.      *)
(* After it, of BrowserSession: that signing in leads back to the page the *)
(* person was sent away from.                                              *)
(***************************************************************************)
EXTENDS MCPages, TLAPS

Searches ==
  [archived : BOOLEAN, filter : {Any, "set"}, status : {Any, "set"}, q : Words \cup {Any},
   sort : {Unset, "main", "other", "archived_at"}, order : {Unset, "asc", "desc"},
   page : Nat \ {0}, size : Sizes]

-----------------------------------------------------------------------------
(* The invariant.                                                          *)

ListTypes ==
  /\ use \in Uses
  /\ matching \in [Scopes -> Nat]
  /\ history \in Seq(Searches) /\ at \in 1..Len(history)
  /\ shown \in Searches
  /\ input.word \in Words \cup {Any}
  /\ fetch.step \in {"none", "asked", "answered"}

(* An address hides no filter and, on a page whose rows are only added to, *)
(* names a page that exists.                                               *)
HasPage(s, total) == s.page = 1 \/ s.page <= PageCount(total, s.size)
Sound(s) ==
  /\ s.archived /\ ~list.onArchive => s.status = Any
  /\ Steady => HasPage(s, matching[ScopeOf(s)])

AddressesAreSound == Sound(shown) /\ \A i \in 1..Len(history) : Sound(history[i])

(* Rows that were found are kept under what they were asked for by.  They  *)
(* may have become more since, and are those of a page that existed then.  *)
Answer(a, query) ==
  /\ a.for \in Searches /\ Query(a.for) = query
  /\ a.known /\ a.total \in Nat
  /\ a.items = 0 => a.total <= (a.for.page - 1) * a.for.size
  /\ Steady => a.total <= matching[ScopeOf(a.for)] /\ HasPage(a.for, a.total)

RowsAreKept ==
  /\ \A query \in DOMAIN answers : Answer(answers[query], query)
  /\ fetch.step = "answered" => Answer(fetch.answer, Query(shown))
  /\ ~Loading => failed \/ Query(shown) \in DOMAIN answers

(* The address keeps the sorting that was chosen.                          *)
SortingInAddress == use.fresh /\ chosen # NotChosen => SortingFromSearch(Url) = chosen

ListInv == ListTypes /\ AddressesAreSound /\ RowsAreKept /\ SortingInAddress

-----------------------------------------------------------------------------
(* Pages and rows.                                                         *)

LEMMA PageCountBounds ==
  ASSUME NEW total \in Nat, NEW size \in Nat \ {0}
  PROVE  /\ PageCount(total, size) \in Nat
         /\ PageCount(total, size) * size <= total + size - 1
         /\ total + size - 1 < (PageCount(total, size) + 1) * size
<1>1. total + size - 1 \in Nat
  OBVIOUS
<1> QED BY <1>1 DEF PageCount

LEMMA TimesGrows ==
  ASSUME NEW m \in Nat, NEW n \in Nat, NEW size \in Nat, m <= n
  PROVE  m * size <= n * size
<1>1. (n - m) * size >= 0
  OBVIOUS
<1>2. (n - m) * size = n * size - m * size
  OBVIOUS
<1> QED BY <1>1, <1>2

(* More rows have no fewer pages.                                          *)
LEMMA PageCountGrows ==
  ASSUME NEW m \in Nat, NEW n \in Nat, NEW size \in Nat \ {0}, m <= n
  PROVE  PageCount(m, size) <= PageCount(n, size)
<1> DEFINE c == PageCount(m, size)
           d == PageCount(n, size)
<1>1. c \in Nat /\ c * size <= m + size - 1
  BY PageCountBounds
<1>2. d \in Nat /\ n + size - 1 < (d + 1) * size
  BY PageCountBounds
<1> HIDE DEF c, d
<1>3. c * size \in Nat /\ (d + 1) * size \in Nat
  BY <1>1, <1>2
<1>4. c * size < (d + 1) * size
  BY <1>1, <1>2, <1>3
<1>5. CASE d + 1 <= c
  BY <1>1, <1>2, <1>3, <1>4, <1>5, TimesGrows
<1>6. CASE c <= d
  BY <1>6 DEF c, d
<1> QED BY <1>1, <1>2, <1>5, <1>6

(* A page that exists has rows, if there are any.                          *)
LEMMA PagesHaveRows ==
  ASSUME NEW page \in Nat \ {0}, NEW size \in Nat \ {0}, NEW total \in Nat,
         page = 1 \/ page <= PageCount(total, size),
         total <= (page - 1) * size
  PROVE  total = 0
<1>1. CASE page = 1
  BY <1>1
<1>2. CASE page <= PageCount(total, size)
  <2> DEFINE c == PageCount(total, size)
  <2>1. c \in Nat /\ c * size <= total + size - 1
    BY PageCountBounds
  <2>2. page <= c
    BY <1>2
  <2> HIDE DEF c
  <2>3. page * size <= c * size
    BY <2>1, <2>2, TimesGrows
  <2>4. (page - 1) * size = page * size - size
    OBVIOUS
  <2>5. page * size \in Nat /\ c * size \in Nat
    BY <2>1
  <2> QED BY <2>1, <2>3, <2>4, <2>5
<1> QED BY <1>1, <1>2

(* A page before one that exists does.                                     *)
LEMMA EarlierPagesExist ==
  ASSUME NEW s \in Searches, NEW t \in Searches, NEW m \in Nat, NEW n \in Nat,
         HasPage(s, m), m <= n, t.page <= s.page, t.size = s.size
  PROVE  HasPage(t, n)
<1>1. s.size \in Nat \ {0} /\ s.page \in Nat \ {0} /\ t.page \in Nat \ {0}
  BY ListAssumption DEF Searches
<1>2. /\ PageCount(m, s.size) <= PageCount(n, s.size)
      /\ PageCount(m, s.size) \in Nat /\ PageCount(n, s.size) \in Nat
  BY <1>1, PageCountGrows, PageCountBounds
<1> QED BY <1>1, <1>2 DEF HasPage

-----------------------------------------------------------------------------
(* Searches and addresses.                                                 *)

LEMMA PagesAre ==
  ASSUME use \in Uses
  PROVE  /\ {use.fresh, use.removals, list.newestFirst, list.onArchive, list.brief} \subseteq BOOLEAN
         /\ list.brief => list.newestFirst
         /\ Any \notin Words /\ 1 \in Sizes /\ Sizes \subseteq Nat \ {0}
BY ListAssumption DEF list

LEMMA FirstPage == 1 \in Nat \ {0}
OBVIOUS

LEMMA SearchesHaveScopes == \A s \in Searches : ScopeOf(s) \in Scopes
BY DEF Searches, Scopes, ScopeOf

LEMMA ValidatedSearch ==
  ASSUME use \in Uses, NEW s \in Searches
  PROVE  LET v == Validated(s)
         IN /\ v \in Searches
            /\ v.archived /\ ~list.onArchive => v.status = Any
            /\ v.archived = s.archived /\ v.page = s.page /\ v.size = s.size
            /\ v.sort = s.sort /\ v.order = s.order
            /\ (s.archived /\ ~list.onArchive => s.status = Any) => v = s
<1>1. CASE s.archived /\ ~list.onArchive
  <2>1. Validated(s) = [s EXCEPT !.status = Any]
    BY <1>1 DEF Validated
  <2> DEFINE v == [s EXCEPT !.status = Any]
  <2>2. /\ v \in Searches /\ v.status = Any
        /\ v.archived = s.archived /\ v.page = s.page /\ v.size = s.size
        /\ v.sort = s.sort /\ v.order = s.order
    BY DEF Searches
  <2>3. s.status = Any => v = s
    BY DEF Searches
  <2> HIDE DEF v
  <2> QED BY <1>1, <2>1, <2>2, <2>3 DEF v
<1>2. CASE ~(s.archived /\ ~list.onArchive)
  <2>1. Validated(s) = s
    BY <1>2 DEF Validated
  <2> QED BY <2>1, <1>2
<1> QED BY <1>1, <1>2

(* The sorting of a search is known by its tab, its column and its order.  *)
LEMMA SortingIsKnown ==
  ASSUME NEW s \in Searches, NEW t \in Searches,
         s.archived = t.archived, s.sort = t.sort, s.order = t.order
  PROVE  SortingFromSearch(s) = SortingFromSearch(t)
BY DEF SortingFromSearch

(* What SearchFromSorting writes down is what SortingFromSearch reads.     *)
LEMMA SortingIsRead ==
  ASSUME use \in Uses, NEW s \in Searches,
         NEW column \in {"main", "other", "archived_at"}, NEW desc \in BOOLEAN
  PROVE  LET sorting == [id |-> column, desc |-> desc]
             t == SearchFromSorting(s, sorting, DefaultSort(s.archived))
         IN t \in Searches /\ SortingFromSearch(t) = sorting
<1> DEFINE sorting == [id |-> column, desc |-> desc]
           fallback == DefaultSort(s.archived)
           normal == IF list.brief THEN desc = (column = fallback.id) ELSE sorting = fallback
           t == SearchFromSorting(s, sorting, fallback)
<1>1. /\ fallback = [id |-> fallback.id, desc |-> fallback.desc]
      /\ fallback.id \in {"main", "archived_at"} /\ fallback.desc \in BOOLEAN
      /\ list.brief => fallback.desc
  BY PagesAre DEF DefaultSort
<1>2. normal => desc = (column = fallback.id /\ fallback.desc)
  BY <1>1
<1> DEFINE sort == IF column = fallback.id THEN Unset ELSE column
           order == IF normal THEN Unset ELSE IF desc THEN "desc" ELSE "asc"
<1>3. t = [s EXCEPT !.sort = sort, !.order = order]
  BY DEF SearchFromSorting
<1>4. sort \in {Unset, "main", "other", "archived_at"} /\ order \in {Unset, "asc", "desc"}
  OBVIOUS
<1>5. /\ t \in Searches /\ t.archived = s.archived /\ t.sort = sort /\ t.order = order
  <2> HIDE DEF sort, order, t
  <2> QED BY <1>3, <1>4 DEF Searches
<1>6. (IF t.sort = Unset THEN fallback.id ELSE t.sort) = column
  BY <1>5 DEF Unset
<1>7. (IF t.order # Unset THEN t.order = "desc" ELSE column = fallback.id /\ fallback.desc) = desc
  BY <1>2, <1>5 DEF Unset
<1>8. SortingFromSearch(t) = [id |-> column, desc |-> desc]
  <2> HIDE DEF t, sort, order, normal
  <2>1. DefaultSort(t.archived) = fallback
    BY <1>5
  <2> HIDE DEF fallback
  <2> QED BY <2>1, <1>6, <1>7 DEF SortingFromSearch
<1> QED BY <1>5, <1>8

-----------------------------------------------------------------------------
(* Steps that leave the rows alone.                                        *)

LEMMA RowsStay ==
  ASSUME RowsAreKept, UNCHANGED <<use, shown, matching, answers, fetch, failed>>
  PROVE  RowsAreKept'
BY DEF RowsAreKept, Answer, Query, ScopeOf, SortingFromSearch, DefaultSort, list, Steady, HasPage,
   PageCount, Loading

LEMMA SoundStays ==
  ASSUME UNCHANGED <<use, matching>>, NEW s, Sound(s)
  PROVE  /\ s.archived /\ ~list'.onArchive => s.status = Any
         /\ Steady' => HasPage(s, matching'[ScopeOf(s)])
BY DEF Sound, list, Steady, HasPage, PageCount, ScopeOf

(* The new address, and those of the history.                              *)
LEMMA AddressesStay ==
  ASSUME AddressesAreSound, UNCHANGED <<use, matching>>, shown' \in {shown} \cup {Url},
         at \in 1..Len(history),
         \A i \in 1..Len(history') :
           \/ \E j \in 1..Len(history) : history'[i] = history[j]
           \/ Sound(history'[i])
  PROVE  AddressesAreSound'
<1>1. Sound(shown')
  BY DEF AddressesAreSound, Url
<1>2. \A i \in 1..Len(history') : Sound(history'[i])
  BY DEF AddressesAreSound
<1>3. \A s : Sound(s) => /\ s.archived /\ ~list'.onArchive => s.status = Any
                         /\ Steady' => HasPage(s, matching'[ScopeOf(s)])
  BY SoundStays
<1> QED BY <1>1, <1>2, <1>3 DEF AddressesAreSound, Sound, list, Steady, HasPage, PageCount, ScopeOf

LEMMA AddressIsASearch ==
  ASSUME ListTypes
  PROVE  /\ Url \in Searches /\ at \in Nat /\ at \in 1..Len(history)
         /\ \A i \in 1..Len(history) : history[i] \in Searches
BY DEF ListTypes, Url

LEMMA PushedAddress ==
  ASSUME ListInv, NEW s \in Searches, Navigate(s), UNCHANGED <<use, shown, matching>>,
         Steady => HasPage(s, matching[ScopeOf(Validated(s))]),
         use.fresh /\ chosen' # NotChosen => SortingFromSearch(s) = chosen'
  PROVE  ListInv'
<1> DEFINE v == Validated(s)
<1>1. /\ v \in Searches
      /\ v.archived /\ ~list.onArchive => v.status = Any
      /\ v.archived = s.archived /\ v.page = s.page /\ v.size = s.size
      /\ v.sort = s.sort /\ v.order = s.order
  BY ValidatedSearch DEF ListInv, ListTypes
<1>2. /\ history \in Seq(Searches) /\ at \in 1..Len(history)
      /\ history' = Append(SubSeq(history, 1, at), v) /\ at' = at + 1
      /\ UNCHANGED <<input, timer, answers, latest, fetch, failed>>
  BY DEF ListInv, ListTypes, Navigate, rowVars
<1> HIDE DEF v
<1>3. /\ history' \in Seq(Searches) /\ Len(history') = at + 1
      /\ \A i \in 1..at : history'[i] = history[i]
      /\ history'[at + 1] = v
  BY <1>1, <1>2
<1>4. ListTypes'
  BY <1>2, <1>3 DEF ListInv, ListTypes
<1>5. Sound(v)
  BY <1>1 DEF Sound, HasPage, v
<1>6. AddressesAreSound'
  <2>1. \A i \in 1..Len(history') :
          \/ \E j \in 1..Len(history) : history'[i] = history[j]
          \/ Sound(history'[i])
    BY <1>2, <1>3, <1>5
  <2> QED BY <1>2, <2>1, AddressesStay DEF ListInv
<1>7. RowsAreKept'
  BY <1>2, RowsStay DEF ListInv
<1>8. SortingInAddress'
  <2>1. use.fresh /\ chosen' # NotChosen => SortingFromSearch(v) = chosen'
    BY <1>1, SortingIsKnown
  <2>2. Url' = v
    BY <1>2, <1>3 DEF Url
  <2> QED
    BY <2>1, <2>2 DEF SortingInAddress, SortingFromSearch, DefaultSort, list, NotChosen
<1> QED BY <1>4, <1>6, <1>7, <1>8 DEF ListInv

-----------------------------------------------------------------------------
(* The person.                                                             *)

LEMMA ActsWait ==
  ASSUME ListInv, NEW control, Acts(control)
  PROVE  UNCHANGED <<use, shown, matching>> /\ (use.fresh => shown = Url)
BY DEF Acts, serverVars

LEMMA SelectTabKeeps ==
  ASSUME ListInv, NEW archived \in BOOLEAN, SelectTab(archived)
  PROVE  ListInv'
<1> DEFINE status == IF archived \in list.forgets THEN Any ELSE Url.status
           s == [Url EXCEPT !.archived = archived, !.sort = Unset, !.order = Unset, !.page = 1,
                            !.status = status]
<1>1. Navigate(s) /\ chosen' = NotChosen /\ UNCHANGED <<use, shown, matching>>
  BY ActsWait DEF SelectTab
<1>2. Url \in Searches
  BY AddressIsASearch DEF ListInv
<1>3. status \in {Any, "set"}
  BY <1>2 DEF Searches
<1> HIDE DEF status
<1>4. s \in Searches /\ s.page = 1
  BY <1>2, <1>3, FirstPage DEF Searches
<1> HIDE DEF s
<1> QED BY <1>1, <1>4, PushedAddress DEF HasPage

LEMMA SelectFilterKeeps ==
  ASSUME ListInv, NEW value \in {Any, "set"}, SelectFilter(value) \/ SelectStatus(value)
  PROVE  ListInv'
<1>1. Url \in Searches
  BY AddressIsASearch DEF ListInv
<1>2. CASE SelectFilter(value)
  <2> DEFINE s == [Url EXCEPT !.filter = value, !.page = 1]
  <2>1. Navigate(s) /\ UNCHANGED <<use, shown, matching, chosen>>
    BY <1>2, ActsWait DEF SelectFilter
  <2>2. /\ s \in Searches /\ s.page = 1
        /\ s.archived = Url.archived /\ s.sort = Url.sort /\ s.order = Url.order
    BY <1>1, FirstPage DEF Searches
  <2> HIDE DEF s
  <2>3. use.fresh /\ chosen' # NotChosen => SortingFromSearch(s) = chosen'
    BY <1>1, <2>1, <2>2, SortingIsKnown DEF ListInv, SortingInAddress
  <2> QED BY <2>1, <2>2, <2>3, PushedAddress DEF HasPage
<1>3. CASE SelectStatus(value)
  <2> DEFINE s == [Url EXCEPT !.status = value, !.page = 1]
  <2>1. Navigate(s) /\ UNCHANGED <<use, shown, matching, chosen>>
    BY <1>3, ActsWait DEF SelectStatus
  <2>2. /\ s \in Searches /\ s.page = 1
        /\ s.archived = Url.archived /\ s.sort = Url.sort /\ s.order = Url.order
    BY <1>1, FirstPage DEF Searches
  <2> HIDE DEF s
  <2>3. use.fresh /\ chosen' # NotChosen => SortingFromSearch(s) = chosen'
    BY <1>1, <2>1, <2>2, SortingIsKnown DEF ListInv, SortingInAddress
  <2> QED BY <2>1, <2>2, <2>3, PushedAddress DEF HasPage
<1> QED BY <1>2, <1>3

LEMMA ToggleSortKeeps ==
  ASSUME ListInv, NEW column \in {"main", "other", "archived_at"}, NEW desc \in BOOLEAN,
         ToggleSort(column, desc)
  PROVE  ListInv'
<1> DEFINE sorting == [id |-> column, desc |-> desc]
           t == SearchFromSorting(Url, sorting, DefaultSort(shown.archived))
           s == [t EXCEPT !.page = 1]
<1>1. Navigate(s) /\ chosen' = sorting /\ UNCHANGED <<use, shown, matching>>
  BY ActsWait DEF ToggleSort
<1>2. Url \in Searches /\ shown \in Searches /\ use \in Uses
  BY AddressIsASearch DEF ListInv, ListTypes
<1>3. t \in Searches
  <2> DEFINE fallback == DefaultSort(shown.archived)
             id == IF column = fallback.id THEN Unset ELSE column
             normal == IF list.brief THEN desc = (column = fallback.id) ELSE sorting = fallback
             order == IF normal THEN Unset ELSE IF desc THEN "desc" ELSE "asc"
  <2>1. t = [Url EXCEPT !.sort = id, !.order = order]
    BY DEF SearchFromSorting
  <2>2. id \in {Unset, "main", "other", "archived_at"} /\ order \in {Unset, "asc", "desc"}
    OBVIOUS
  <2> HIDE DEF id, order
  <2> QED BY <1>2, <2>1, <2>2 DEF Searches
<1>4. use.fresh => SortingFromSearch(t) = sorting
  <2> SUFFICES ASSUME use.fresh PROVE SortingFromSearch(t) = sorting
    OBVIOUS
  <2>1. shown = Url
    BY ActsWait DEF ToggleSort
  <2>2. t = SearchFromSorting(Url, sorting, DefaultSort(Url.archived))
    BY <2>1
  <2> QED BY <1>2, <2>2, SortingIsRead
<1> HIDE DEF t, sorting
<1>5. /\ s \in Searches /\ s.page = 1
      /\ s.archived = t.archived /\ s.sort = t.sort /\ s.order = t.order
  BY <1>3 DEF Searches
<1> HIDE DEF s
<1>6. use.fresh /\ chosen' # NotChosen => SortingFromSearch(s) = chosen'
  BY <1>1, <1>3, <1>4, <1>5, SortingIsKnown
<1> QED BY <1>1, <1>5, <1>6, PushedAddress DEF HasPage

(* The rows in view are those of the search the page is rendered with.     *)
LEMMA RowsInView ==
  ASSUME ListInv, ~Loading, Data.known
  PROVE  Answer(Data, Query(shown)) /\ Query(shown) \in DOMAIN answers
<1>1. Query(shown) \in DOMAIN answers
  BY DEF Data, NoData, ListInv, RowsAreKept
<1>2. Data = answers[Query(shown)]
  BY <1>1 DEF Data
<1> QED BY <1>1, <1>2 DEF ListInv, RowsAreKept

LEMMA GoToPageKeeps ==
  ASSUME ListInv, NEW page \in Nat \ {0}, GoToPage(page)
  PROVE  ListInv'
<1> DEFINE s == [Url EXCEPT !.page = page, !.size = shown.size]
<1>1. Navigate(s) /\ UNCHANGED <<use, shown, matching, chosen>>
  BY ActsWait DEF GoToPage
<1>2. Url \in Searches /\ shown \in Searches /\ use \in Uses
  BY AddressIsASearch DEF ListInv, ListTypes
<1>3. /\ s \in Searches /\ s.page = page /\ s.size = shown.size
      /\ s.archived = Url.archived /\ s.sort = Url.sort /\ s.order = Url.order
      /\ s.status = Url.status /\ s.filter = Url.filter /\ s.q = Url.q
  BY <1>2 DEF Searches
<1> HIDE DEF s
<1>4. use.fresh /\ chosen' # NotChosen => SortingFromSearch(s) = chosen'
  BY <1>1, <1>2, <1>3, SortingIsKnown DEF ListInv, SortingInAddress
<1>5. ASSUME Steady PROVE HasPage(s, matching[ScopeOf(Validated(s))])
  <2>1. shown = Url
    BY <1>5, ActsWait DEF GoToPage, Steady
  <2>2. Sound(Url)
    BY <2>1 DEF ListInv, AddressesAreSound
  <2>3. Validated(s) = s
    BY <1>2, <1>3, <2>2, ValidatedSearch DEF Sound
  <2>4. ScopeOf(Validated(s)) = ScopeOf(Url)
    BY <1>3, <2>3 DEF ScopeOf
  <2>5. matching[ScopeOf(Url)] \in Nat
    BY <1>2, SearchesHaveScopes DEF ListInv, ListTypes
  <2>6. CASE page < shown.page
    <3>1. s.page <= Url.page /\ s.size = Url.size
      BY <1>2, <1>3, <2>1, <2>6 DEF Searches
    <3>2. HasPage(Url, matching[ScopeOf(Url)])
      BY <1>5, <2>2 DEF Sound
    <3> QED BY <1>2, <1>3, <2>4, <2>5, <3>1, <3>2, EarlierPagesExist
  <2>7. CASE page <= PageCount(Data.total, shown.size)
    <3>1. Answer(Data, Query(shown))
      BY RowsInView DEF GoToPage, Usable, View
    <3>2. /\ Data.total \in Nat /\ Data.total <= matching[ScopeOf(Data.for)]
          /\ ScopeOf(Data.for) = ScopeOf(shown)
      BY <1>5, <3>1 DEF Answer, Query
    <3>3. HasPage(s, Data.total)
      BY <1>3, <2>7 DEF HasPage
    <3> QED BY <1>3, <2>1, <2>4, <2>5, <3>2, <3>3, EarlierPagesExist
  <2> QED BY <2>6, <2>7 DEF GoToPage
<1> QED BY <1>1, <1>3, <1>4, <1>5, PushedAddress

LEMMA SetPageSizeKeeps ==
  ASSUME ListInv, NEW size \in Sizes, SetPageSize(size)
  PROVE  ListInv'
<1> DEFINE s == [Url EXCEPT !.page = 1, !.size = size]
<1>1. Navigate(s) /\ UNCHANGED <<use, shown, matching, chosen>>
  BY ActsWait DEF SetPageSize
<1>2. Url \in Searches
  BY AddressIsASearch DEF ListInv
<1>3. /\ s \in Searches /\ s.page = 1
      /\ s.archived = Url.archived /\ s.sort = Url.sort /\ s.order = Url.order
  BY <1>2, FirstPage DEF Searches
<1> HIDE DEF s
<1>4. use.fresh /\ chosen' # NotChosen => SortingFromSearch(s) = chosen'
  BY <1>1, <1>2, <1>3, SortingIsKnown DEF ListInv, SortingInAddress
<1> QED BY <1>1, <1>3, <1>4, PushedAddress DEF HasPage

LEMMA TravelKeeps ==
  ASSUME ListInv, NEW place \in 1..Len(history), Travel(place)
  PROVE  ListInv'
<1>1. /\ at' = place /\ chosen' = NotChosen
      /\ UNCHANGED <<use, shown, matching, history, input, answers, fetch, failed>>
  BY ActsWait DEF Travel, rowVars
<1>2. ListTypes'
  BY <1>1 DEF ListInv, ListTypes
<1>3. AddressesAreSound'
  <2>1. at \in 1..Len(history)
    BY DEF ListInv, ListTypes
  <2> QED BY <1>1, <2>1, AddressesStay DEF ListInv
<1>4. RowsAreKept'
  BY <1>1, RowsStay DEF ListInv
<1>5. SortingInAddress'
  BY <1>1 DEF SortingInAddress, NotChosen
<1> QED BY <1>2, <1>3, <1>4, <1>5 DEF ListInv

(* A step after which page and address are as they were.                   *)
LEMMA AddressesUntouched ==
  ASSUME ListInv, UNCHANGED <<use, shown, matching, history, at, chosen>>,
         input'.word \in Words \cup {Any}, fetch'.step \in {"none", "asked", "answered"},
         RowsAreKept'
  PROVE  ListInv'
<1>1. ListTypes'
  BY DEF ListInv, ListTypes
<1>2. AddressesAreSound'
  <2>1. at \in 1..Len(history)
    BY DEF ListInv, ListTypes
  <2> QED BY <2>1, AddressesStay DEF ListInv
<1>3. SortingInAddress'
  BY DEF ListInv, SortingInAddress, Url, SortingFromSearch, DefaultSort, list, NotChosen
<1> QED BY <1>1, <1>2, <1>3 DEF ListInv

LEMMA TypeKeeps ==
  ASSUME ListInv, NEW word \in Words \cup {Any}, NEW padded \in BOOLEAN,
         Type([word |-> word, padded |-> padded])
  PROVE  ListInv'
<1>1. /\ input'.word = word
      /\ UNCHANGED <<use, shown, matching, history, at, chosen, answers, fetch, failed>>
  BY ActsWait DEF Type, rowVars
<1>2. RowsAreKept'
  BY <1>1, RowsStay DEF ListInv
<1> QED BY <1>1, <1>2, AddressesUntouched DEF ListInv, ListTypes

(* The rows are asked for, once more or anew.                              *)
LEMMA AskingKeepsRows ==
  ASSUME RowsAreKept, UNCHANGED <<use, matching, answers>>, fetch' = Asked
  PROVE  RowsAreKept'
BY DEF RowsAreKept, Asked, Answer, Query, ScopeOf, SortingFromSearch, DefaultSort, list, Steady,
   HasPage, PageCount, Loading

LEMMA RefetchKeeps ==
  ASSUME ListInv, Retry \/ WindowFocused
  PROVE  ListInv'
<1>1. /\ fetch' = Asked
      /\ UNCHANGED <<use, shown, matching, history, at, chosen, input, answers>>
  BY ActsWait DEF Retry, WindowFocused
<1>2. RowsAreKept'
  BY <1>1, AskingKeepsRows DEF ListInv
<1> QED BY <1>1, <1>2, AddressesUntouched DEF ListInv, ListTypes, Asked

-----------------------------------------------------------------------------
(* The timer and the router.                                               *)

LEMMA TimerFiresKeeps ==
  ASSUME ListInv, TimerFires
  PROVE  ListInv'
<1>1. UNCHANGED <<use, at, shown, input, chosen, answers, fetch, failed, matching>>
  BY DEF TimerFires, rowVars, serverVars
<1>2. RowsAreKept'
  BY <1>1, RowsStay DEF ListInv
<1>3. CASE history' = history
  BY <1>1, <1>2, <1>3, AddressesUntouched DEF ListInv, ListTypes
<1>4. CASE input.word # shown.q
  <2> DEFINE s == [Url EXCEPT !.q = input.word, !.page = 1]
             v == Validated(s)
  <2>1. Url \in Searches /\ at \in 1..Len(history) /\ history \in Seq(Searches)
    BY AddressIsASearch DEF ListInv, ListTypes
  <2>2. input.word \in Words \cup {Any} /\ use \in Uses
    BY DEF ListInv, ListTypes
  <2>3. /\ s \in Searches /\ s.page = 1
        /\ s.archived = Url.archived /\ s.sort = Url.sort /\ s.order = Url.order
    BY <2>1, <2>2, FirstPage DEF Searches
  <2>4. history' = [history EXCEPT ![at] = v]
    BY <1>4 DEF TimerFires, Url
  <2> HIDE DEF s
  <2>5. /\ v \in Searches
        /\ v.archived /\ ~list.onArchive => v.status = Any
        /\ v.page = 1 /\ v.archived = Url.archived /\ v.sort = Url.sort /\ v.order = Url.order
    BY <2>2, <2>3, ValidatedSearch
  <2> HIDE DEF v
  <2>6. /\ history' \in Seq(Searches) /\ Len(history') = Len(history) /\ history'[at] = v
        /\ \A i \in 1..Len(history) : i # at => history'[i] = history[i]
    BY <2>1, <2>4, <2>5
  <2>7. ListTypes'
    BY <1>1, <2>6 DEF ListInv, ListTypes
  <2>8. AddressesAreSound'
    <3>1. Sound(v)
      BY <2>5 DEF Sound, HasPage
    <3>2. \A i \in 1..Len(history') :
            \/ \E j \in 1..Len(history) : history'[i] = history[j]
            \/ Sound(history'[i])
      BY <2>6, <3>1
    <3> QED BY <1>1, <2>1, <3>2, AddressesStay DEF ListInv
  <2>9. SortingInAddress'
    <3>1. Url' = v
      BY <1>1, <2>6 DEF Url
    <3>2. SortingFromSearch(v) = SortingFromSearch(Url)
      BY <2>1, <2>5, SortingIsKnown
    <3> QED
      BY <1>1, <3>1, <3>2
         DEF ListInv, SortingInAddress, SortingFromSearch, DefaultSort, list, NotChosen
  <2> QED BY <1>2, <2>7, <2>8, <2>9 DEF ListInv
<1> QED BY <1>3, <1>4 DEF TimerFires

LEMMA LandKeeps ==
  ASSUME ListInv, Land
  PROVE  ListInv'
<1>1. /\ shown' = Url /\ UNCHANGED <<use, history, at, chosen, answers, matching>>
      /\ Url \in Searches /\ at \in 1..Len(history)
  BY AddressIsASearch DEF Land, ListInv, serverVars
<1>2. input'.word \in Words \cup {Any}
  BY <1>1 DEF Land, BoxFollows, Box, Searches, ListInv, ListTypes
<1>3. RowsAreKept' /\ fetch'.step \in {"none", "asked", "answered"}
  <2>1. CASE Query(Url) = Query(shown)
    <3>1. UNCHANGED <<fetch, failed>>
      BY <2>1 DEF Land
    <3>2. Query(shown)' = Query(shown)
      BY <1>1, <2>1 DEF Query, ScopeOf, SortingFromSearch, DefaultSort, list
    <3>3. \A a, query : Answer(a, query) => Answer(a, query)'
      BY <1>1 DEF Answer, Query, ScopeOf, SortingFromSearch, DefaultSort, list, Steady, HasPage,
         PageCount
    <3> QED BY <1>1, <3>1, <3>2, <3>3 DEF ListInv, ListTypes, RowsAreKept, Loading
  <2>2. CASE Query(Url) # Query(shown)
    <3>1. PICK fresh \in BOOLEAN :
            /\ fresh => Query(Url) \in DOMAIN answers
            /\ fetch' = IF fresh THEN NoFetch ELSE Asked
      BY <2>2 DEF Land
    <3>2. CASE ~fresh
      BY <1>1, <3>1, <3>2, AskingKeepsRows DEF ListInv, Asked
    <3>3. CASE fresh
      <4>1. Query(shown)' = Query(Url)
        BY <1>1 DEF Query, ScopeOf, SortingFromSearch, DefaultSort, list
      <4>2. \A a, query : Answer(a, query) => Answer(a, query)'
        BY <1>1 DEF Answer, Query, ScopeOf, SortingFromSearch, DefaultSort, list, Steady, HasPage,
           PageCount
      <4> QED BY <1>1, <3>1, <3>3, <4>1, <4>2 DEF ListInv, RowsAreKept, Loading, NoFetch
    <3> QED BY <3>2, <3>3
  <2> QED BY <2>1, <2>2
<1>4. ListTypes'
  BY <1>1, <1>2, <1>3 DEF ListInv, ListTypes
<1>5. AddressesAreSound'
  BY <1>1, AddressesStay DEF ListInv
<1>6. SortingInAddress'
  BY <1>1 DEF ListInv, SortingInAddress, Url, SortingFromSearch, DefaultSort, list, NotChosen
<1> QED BY <1>3, <1>4, <1>5, <1>6 DEF ListInv

-----------------------------------------------------------------------------
(* The rows.                                                               *)

LEMMA AnswersStay ==
  ASSUME UNCHANGED <<use, matching>>
  PROVE  \A a, query : Answer(a, query) => Answer(a, query)'
BY DEF Answer, Query, ScopeOf, SortingFromSearch, DefaultSort, list, Steady, HasPage, PageCount

LEMMA QueryStays ==
  ASSUME UNCHANGED <<use, shown>>
  PROVE  Query(shown)' = Query(shown)
BY DEF Query, ScopeOf, SortingFromSearch, DefaultSort, list

LEMMA RowsAnsweredKeeps ==
  ASSUME ListInv, RowsAnswered
  PROVE  ListInv'
<1> DEFINE total == matching[ScopeOf(shown)]
           before == (shown.page - 1) * shown.size
           items == IF total <= before THEN 0
                    ELSE IF total - before < shown.size THEN total - before ELSE shown.size
           a == [for |-> shown, known |-> TRUE, total |-> total, items |-> items]
<1>1. /\ fetch' = [step |-> "answered", answer |-> a]
      /\ UNCHANGED <<use, shown, matching, history, at, chosen, input, answers, failed>>
  BY DEF RowsAnswered, pageVars, serverVars
<1>2. shown \in Searches /\ shown.page \in Nat \ {0} /\ shown.size \in Nat \ {0} /\ total \in Nat
  BY SearchesHaveScopes, ListAssumption DEF ListInv, ListTypes, Searches
<1>3. items = 0 => total <= before
  <2>1. before \in Nat
    BY <1>2
  <2> HIDE DEF before, total
  <2> QED BY <1>2, <2>1
<1>4. Steady => HasPage(shown, total)
  BY DEF ListInv, AddressesAreSound, Sound
<1>5. a.for = shown /\ a.known /\ a.total = total /\ a.items = items
  OBVIOUS
<1> HIDE DEF a, items
<1>6. total <= matching[ScopeOf(shown)]
  BY <1>2
<1>7. Answer(a, Query(shown))
  <2>1. a.items = 0 => a.total <= (a.for.page - 1) * a.for.size
    BY <1>3, <1>5
  <2>2. Steady => a.total <= matching[ScopeOf(a.for)] /\ HasPage(a.for, a.total)
    BY <1>4, <1>5, <1>6
  <2> HIDE DEF total
  <2> QED BY <1>2, <1>5, <2>1, <2>2 DEF Answer
<1>8. RowsAreKept'
  <2>1. fetch'.answer = a /\ fetch'.step = "answered"
    BY <1>1
  <2> QED BY <1>1, <2>1, <1>7, AnswersStay, QueryStays DEF ListInv, RowsAreKept, Loading
<1> QED BY <1>1, <1>8, AddressesUntouched DEF ListInv, ListTypes

LEMMA RowsArrivedKeeps ==
  ASSUME ListInv, RowsArrived
  PROVE  ListInv'
<1>1. /\ fetch.step = "answered"
      /\ answers' = [k \in DOMAIN answers \cup {Query(shown)} |->
                       IF k = Query(shown) THEN fetch.answer ELSE answers[k]]
      /\ fetch' = NoFetch
      /\ UNCHANGED <<use, shown, matching, history, at, chosen, input, failed>>
  BY DEF RowsArrived, pageVars, serverVars
<1>2. \A query \in DOMAIN answers' : Answer(answers'[query], query)
  BY <1>1 DEF ListInv, RowsAreKept
<1>3. Query(shown) \in DOMAIN answers'
  BY <1>1
<1>4. RowsAreKept'
  BY <1>1, <1>2, <1>3, AnswersStay, QueryStays DEF RowsAreKept, NoFetch
<1> QED BY <1>1, <1>4, AddressesUntouched DEF ListInv, ListTypes, NoFetch

LEMMA RowsFailedKeeps ==
  ASSUME ListInv, RowsFailed
  PROVE  ListInv'
<1>1. /\ fetch' = NoFetch /\ failed' = (Query(shown) \notin DOMAIN answers)
      /\ UNCHANGED <<use, shown, matching, history, at, chosen, input, answers>>
  BY DEF RowsFailed, pageVars, serverVars
<1>2. RowsAreKept'
  BY <1>1, AnswersStay, QueryStays DEF ListInv, RowsAreKept, NoFetch
<1> QED BY <1>1, <1>2, AddressesUntouched DEF ListInv, ListTypes, NoFetch

LEMMA OthersChangeKeeps ==
  ASSUME ListInv, NEW scope \in Scopes, OthersChange(scope)
  PROVE  ListInv'
<1>1. UNCHANGED <<use, history, at, shown, input, chosen, answers, fetch, failed>>
  BY DEF OthersChange, pageVars, rowVars
<1>2. matching \in [Scopes -> Nat]
  BY DEF ListInv, ListTypes
<1>3. \/ matching' = [matching EXCEPT ![scope] = @ + 1]
      \/ /\ use.removals /\ list # AuditPage
         /\ matching[scope] > 0 /\ matching' = [matching EXCEPT ![scope] = @ - 1]
  BY DEF OthersChange
<1>4. matching' \in [Scopes -> Nat]
  BY <1>2, <1>3
<1>5. ASSUME Steady, NEW sc \in Scopes PROVE matching[sc] <= matching'[sc]
  <2>1. matching' = [matching EXCEPT ![scope] = @ + 1]
    BY <1>3, <1>5 DEF Steady
  <2> QED BY <1>2, <2>1
<1>6. ASSUME NEW s \in Searches, Steady, HasPage(s, matching[ScopeOf(s)])
      PROVE  HasPage(s, matching'[ScopeOf(s)])
  <2>1. ScopeOf(s) \in Scopes
    BY SearchesHaveScopes
  <2>2. matching[ScopeOf(s)] \in Nat /\ matching'[ScopeOf(s)] \in Nat
    BY <1>2, <1>4, <2>1
  <2>3. matching[ScopeOf(s)] <= matching'[ScopeOf(s)] /\ s.page <= s.page
    BY <1>5, <1>6, <2>1 DEF Searches
  <2> QED BY <1>6, <2>2, <2>3, EarlierPagesExist
<1>7. ListTypes'
  BY <1>1, <1>4 DEF ListInv, ListTypes
<1>8. AddressesAreSound'
  <2>1. \A s \in Searches : Sound(s) => Sound(s)'
    BY <1>1, <1>6 DEF Sound, Steady, list, HasPage, PageCount, ScopeOf
  <2> QED
    BY <1>1, <2>1, AddressIsASearch DEF ListInv, ListTypes, AddressesAreSound
<1>9. RowsAreKept'
  <2>1. ASSUME NEW a, NEW query, Answer(a, query) PROVE Answer(a, query)'
    <3>1. ScopeOf(a.for) \in Scopes /\ a.total \in Nat
      BY <2>1, SearchesHaveScopes DEF Answer
    <3>2. Steady => a.total <= matching'[ScopeOf(a.for)]
      <4> SUFFICES ASSUME Steady PROVE a.total <= matching'[ScopeOf(a.for)]
        OBVIOUS
      <4>1. a.total <= matching[ScopeOf(a.for)] /\ matching[ScopeOf(a.for)] <= matching'[ScopeOf(a.for)]
        BY <1>5, <2>1, <3>1 DEF Answer
      <4>2. matching[ScopeOf(a.for)] \in Nat /\ matching'[ScopeOf(a.for)] \in Nat
        BY <1>2, <1>4, <3>1
      <4> QED BY <3>1, <4>1, <4>2
    <3> QED
      BY <1>1, <2>1, <3>2
         DEF Answer, Query, ScopeOf, SortingFromSearch, DefaultSort, list, Steady, HasPage, PageCount
  <2> QED BY <1>1, <2>1, QueryStays DEF ListInv, RowsAreKept, Loading
<1>10. SortingInAddress'
  BY <1>1 DEF ListInv, SortingInAddress, Url, SortingFromSearch, DefaultSort, list, NotChosen
<1> QED BY <1>7, <1>8, <1>9, <1>10 DEF ListInv

-----------------------------------------------------------------------------
(* The invariant holds, and what is promised follows from it.              *)

LEMMA ListStart == Init => ListInv
<1> SUFFICES ASSUME Init PROVE ListInv
  OBVIOUS
<1>1. use \in Uses /\ use.total \in Nat
  BY ListAssumption DEF Init
<1>2. EmptySearch \in Searches /\ EmptySearch.page = 1 /\ ~EmptySearch.archived
  BY ListAssumption, FirstPage DEF EmptySearch, Searches
<1>3. /\ history = <<EmptySearch>> /\ at = 1 /\ Len(history) = 1 /\ history[1] = EmptySearch
      /\ shown = EmptySearch
  BY DEF Init
<1>4. ListTypes
  <2>1. history \in Seq(Searches)
    BY <1>2, <1>3
  <2> QED BY <1>1, <1>2, <1>3, <2>1 DEF Init, ListTypes, Box, Asked
<1>5. AddressesAreSound
  BY <1>2, <1>3 DEF AddressesAreSound, Sound, HasPage
<1>6. RowsAreKept /\ SortingInAddress
  BY DEF Init, RowsAreKept, SortingInAddress, Asked, Loading
<1> QED BY <1>4, <1>5, <1>6 DEF ListInv

LEMMA ListStep == ListInv /\ [Next]_vars => ListInv'
<1> SUFFICES ASSUME ListInv, [Next]_vars PROVE ListInv'
  OBVIOUS
<1>1. ASSUME NEW page \in 1..(use.total + use.others), GoToPage(page) PROVE ListInv'
  <2>1. use.total \in Nat /\ use.others \in Nat
    BY ListAssumption DEF ListInv, ListTypes
  <2>2. page \in Nat \ {0}
    BY <2>1
  <2> QED BY <1>1, <2>2, GoToPageKeeps
<1>2. ASSUME NEW scope \in {ScopeOf(shown), ScopeOf(Url)}, OthersChange(scope) PROVE ListInv'
  <2>1. scope \in Scopes
    BY SearchesHaveScopes, AddressIsASearch DEF ListInv, ListTypes
  <2> QED BY <1>2, <2>1, OthersChangeKeeps
<1>3. CASE UNCHANGED vars
  <2>1. /\ UNCHANGED <<use, shown, matching, history, at, chosen>>
        /\ UNCHANGED <<input, answers, fetch, failed>>
    BY <1>3 DEF vars, pageVars, rowVars, serverVars
  <2> QED BY <2>1, RowsStay, AddressesUntouched DEF ListInv, ListTypes
<1> QED
  BY <1>1, <1>2, <1>3, SelectTabKeeps, SelectFilterKeeps, ToggleSortKeeps, SetPageSizeKeeps,
     TravelKeeps, TypeKeeps, RefetchKeeps, TimerFiresKeeps, LandKeeps, RowsAnsweredKeeps,
     RowsArrivedKeeps, RowsFailedKeeps
     DEF Next

LEMMA ListInvariant == Spec => []ListInv
BY ListStart, ListStep, PTL DEF Spec

(* The timer runs or not, and the request failed or not.                   *)
Flags == timer \in BOOLEAN /\ failed \in BOOLEAN

LEMMA FlagsStep == Flags /\ [Next]_vars => Flags'
<1> SUFFICES ASSUME Flags, [Next]_vars PROVE Flags'
  OBVIOUS
<1>1. ASSUME NEW archived \in BOOLEAN, SelectTab(archived) PROVE Flags'
  BY <1>1 DEF SelectTab, Navigate, rowVars, Flags
<1>2. ASSUME NEW value \in {Any, "set"}, SelectFilter(value) \/ SelectStatus(value) PROVE Flags'
  BY <1>2 DEF SelectFilter, SelectStatus, Navigate, rowVars, Flags
<1>3. ASSUME NEW column \in {"main", "other", "archived_at"}, NEW desc \in BOOLEAN,
             ToggleSort(column, desc)
      PROVE  Flags'
  <2>1. UNCHANGED <<timer, failed>>
    BY <1>3 DEF ToggleSort, Navigate, rowVars
  <2> QED BY <2>1 DEF Flags
<1>4. ASSUME NEW number \in 1..(use.total + use.others), GoToPage(number) PROVE Flags'
  BY <1>4 DEF GoToPage, Navigate, rowVars, Flags
<1>5. ASSUME NEW size \in Sizes, SetPageSize(size) PROVE Flags'
  BY <1>5 DEF SetPageSize, Navigate, rowVars, Flags
<1>6. ASSUME NEW place \in 1..Len(history), Travel(place) PROVE Flags'
  BY <1>6 DEF Travel, rowVars, Flags
<1>7. ASSUME NEW text, Type(text) PROVE Flags'
  BY <1>7 DEF Type, rowVars, Flags
<1>8. CASE Retry \/ WindowFocused
  BY <1>8 DEF Retry, WindowFocused, Flags
<1>9. CASE TimerFires
  BY <1>9 DEF TimerFires, rowVars, Flags
<1>10. CASE Land
  <2>1. timer' = TRUE \/ timer' = timer
    BY <1>10 DEF Land, BoxFollows
  <2>2. failed' = FALSE \/ failed' = failed
    BY <1>10 DEF Land
  <2> QED BY <2>1, <2>2 DEF Flags
<1>11. CASE RowsAnswered \/ RowsArrived
  BY <1>11 DEF RowsAnswered, RowsArrived, pageVars, Flags
<1>12. CASE RowsFailed
  <2>1. failed' \in BOOLEAN
    BY <1>12 DEF RowsFailed
  <2>2. timer' = timer
    BY <1>12 DEF RowsFailed, pageVars
  <2> QED BY <2>1, <2>2 DEF Flags
<1>13. ASSUME NEW scope, OthersChange(scope) PROVE Flags'
  BY <1>13 DEF OthersChange, pageVars, rowVars, Flags
<1>14. CASE UNCHANGED vars
  BY <1>14 DEF vars, pageVars, rowVars, Flags
<1> QED
  BY <1>1, <1>2, <1>3, <1>4, <1>5, <1>6, <1>7, <1>8, <1>9, <1>10, <1>11, <1>12, <1>13, <1>14
     DEF Next

(* The address is within the history, and every search, of the page and of *)
(* the address, names a page and a part of the database there is.          *)
THEOREM ListIsTyped == Spec => []TypeOK
<1>1. Init => Flags
  BY DEF Init, Flags
<1>2. ASSUME ListInv, Flags
      PROVE  TypeOK
  <2>1. Url \in Searches /\ shown \in Searches
    BY <1>2, AddressIsASearch DEF ListInv, ListTypes
  <2>2. shown.page \in Nat \ {0} /\ Url.page \in Nat \ {0}
    BY <2>1 DEF Searches
  <2>3. ScopeOf(shown) \in Scopes /\ ScopeOf(Url) \in Scopes
    BY <2>1, SearchesHaveScopes
  <2> QED BY <1>2, <2>2, <2>3 DEF ListInv, ListTypes, Flags, TypeOK
<1>3. ListInv /\ Flags => TypeOK
  BY <1>2
<1> QED BY <1>1, <1>3, FlagsStep, ListInvariant, PTL DEF Spec

LEMMA InvImpliesSound == ListInv => SearchIsSound
BY DEF ListInv, AddressesAreSound, Sound, SortingInAddress, SearchIsSound, PageExists,
   SortingIsKept, HiddenFilterIsOff, HasPage

LEMMA InvImpliesTrue == ListInv => ViewIsTrue
<1> SUFFICES ASSUME ListInv, ~Loading PROVE ViewIsTrue
  BY DEF ViewIsTrue, RowsMatchSearch, EmptyMeansNone
<1>1. View \in {"table", "empty"} => Data.known
  BY DEF View
<1>2. RowsMatchSearch
  <2>1. Answer(Data, Query(shown)) => OfShown(Data)
    BY DEF Answer, Query, OfShown
  <2> QED BY <1>1, <2>1, RowsInView DEF RowsMatchSearch
<1>3. EmptyMeansNone
  <2> SUFFICES ASSUME list.emptyBy = "total" \/ Steady, View = "empty" PROVE Data.total = 0
    BY DEF EmptyMeansNone
  <2>1. Empty(Data) /\ Answer(Data, Query(shown))
    BY <1>1, RowsInView DEF View
  <2>2. CASE list.emptyBy = "total"
    BY <2>1, <2>2 DEF Empty
  <2>3. CASE list.emptyBy # "total"
    <3>1. Data.items = 0 /\ Steady
      BY <2>1, <2>3 DEF Empty
    <3>2. /\ Data.total \in Nat
          /\ Data.for.page \in Nat \ {0} /\ Data.for.size \in Nat \ {0}
          /\ Data.total <= (Data.for.page - 1) * Data.for.size
          /\ HasPage(Data.for, Data.total)
      BY <2>1, <3>1, ListAssumption DEF Answer, Searches
    <3> QED BY <3>2, PagesHaveRows DEF HasPage
  <2> QED BY <2>2, <2>3
<1> QED BY <1>2, <1>3 DEF ViewIsTrue

(* In every use the search of a page hides no filter.  It names a page     *)
(* that exists in uses whose profile is fresh and in which rows are only   *)
(* added (Steady), and the sorting that was chosen in uses whose profile   *)
(* is fresh; of the others, and of the texts searched for, nothing is said *)
(* here (list-search.ts, users.tsx).                                       *)
THEOREM SearchesAreSound == Spec => []SearchIsSound
BY ListInvariant, InvImpliesSound, PTL

(* The rows in view are those of the search, and an empty page is shown of *)
(* a search without rows only.                                             *)
THEOREM ViewsAreTrue == Spec => []ViewIsTrue
BY ListInvariant, InvImpliesTrue, PTL
-----------------------------------------------------------------------------
(* BrowserSession.                                                         *)

(* On the way from a page to the form and back.                            *)
OnItsWay == on \in {"login", "leaving", "flow"}

(* The addresses to return to are of pages, that of the tab is the login   *)
(* page's on the way and where no flow can be had.                         *)
TabTypes ==
  /\ Tab!TypeOK
  /\ {returnTo, wanted} \subseteq Paths
  /\ path = Tab!LoginPath <=> on \in {"login", "leaving", "flow", "error"}

(* A life of the tab sends its person away once, from a page; the form is  *)
(* shown in a life that has sent nobody away and asks for nothing.         *)
OneRedirect ==
  /\ redirects \in {0, 1}
  /\ redirects = 1 => on = "page" /\ started
  /\ on = "entering" => started
  /\ on \in {"flow", "error"} => waiting = 0
  /\ form # "none" => on = "flow"

(* What the login page, Kratos and the flow keep for the return is the     *)
(* page the person was sent from, as long as nothing was lost.             *)
ReturnIsKept ==
  /\ OnItsWay /\ ~lost => returnTo = wanted
  /\ on \in {"entering", "error"} => lost

TabInv == TabTypes /\ OneRedirect /\ ReturnIsKept

USE DEF Tab!LoginPath, Tab!TypeOK, Tab!lifeVars

LEMMA OneMayBeAsked == 0 \in 0..MaxRequests /\ 1 \in 0..MaxRequests
BY PagesAssumption DEF Tab!TabAssumption

LEMMA LoginIsNoPage == Home \in Paths /\ Tab!LoginPath \notin Paths
BY PagesAssumption DEF Tab!TabAssumption

LEMMA TabStart == Tab!Init => TabInv
<1> SUFFICES ASSUME Tab!Init PROVE TabInv
  OBVIOUS
<1>1. Tab!TypeOK
  BY LoginIsNoPage, OneMayBeAsked DEF Tab!Init
<1>2. /\ {returnTo, wanted} \subseteq Paths
      /\ path = Tab!LoginPath <=> on \in {"login", "leaving", "flow", "error"}
  BY LoginIsNoPage DEF Tab!Init
<1>3. OneRedirect /\ ReturnIsKept
  BY DEF Tab!Init, OneRedirect, ReturnIsKept, OnItsWay
<1> QED BY <1>1, <1>2, <1>3 DEF TabInv, TabTypes

LEMMA RequestsKeepTab ==
  ASSUME TabInv, Tab!Ask \/ Tab!Answered
  PROVE  TabInv'
<1>1. CASE Tab!Ask
  BY <1>1, PagesAssumption
     DEF Tab!TabAssumption, Tab!Ask, TabInv, TabTypes, OneRedirect, ReturnIsKept, OnItsWay
<1>2. CASE Tab!Authorized
  BY <1>2, PagesAssumption
     DEF Tab!TabAssumption, Tab!Authorized, TabInv, TabTypes, OneRedirect, ReturnIsKept, OnItsWay
<1>3. CASE Tab!Unauthorized
  BY <1>3, PagesAssumption
     DEF Tab!TabAssumption, Tab!Unauthorized, Tab!First, TabInv, TabTypes, OneRedirect,
         ReturnIsKept, OnItsWay
<1>4. CASE Tab!UnauthorizedAgain
  BY <1>4, PagesAssumption
     DEF Tab!TabAssumption, Tab!UnauthorizedAgain, TabInv, TabTypes, OneRedirect, ReturnIsKept,
         OnItsWay
<1> QED BY <1>1, <1>2, <1>3, <1>4 DEF Tab!TabAssumption, Tab!Answered

LEMMA MovesKeepTab ==
  ASSUME TabInv, Tab!Redirect \/ Tab!Enter \/ (\E p \in Paths : Tab!Follow(p)) \/ Tab!Back
  PROVE  TabInv'
<1>1. CASE Tab!Redirect
  BY <1>1, LoginIsNoPage
     DEF Tab!Redirect, TabInv, TabTypes, OneRedirect, ReturnIsKept, OnItsWay
<1>2. CASE Tab!Enter
  BY <1>2, LoginIsNoPage
     DEF Tab!Enter, TabInv, TabTypes, OneRedirect, ReturnIsKept, OnItsWay
<1>3. CASE \E p \in Paths : Tab!Follow(p)
  BY <1>3, LoginIsNoPage
     DEF Tab!Follow, TabInv, TabTypes, OneRedirect, ReturnIsKept, OnItsWay
<1>4. CASE Tab!Back
  BY <1>4, LoginIsNoPage
     DEF Tab!Back, TabInv, TabTypes, OneRedirect, ReturnIsKept, OnItsWay
<1> QED BY <1>1, <1>2, <1>3, <1>4

(* Every way to ask Kratos for a flow.                                     *)
LEMMA AskingKratosKeepsTab ==
  ASSUME TabInv, Tab!StartFlow \/ Tab!FlowGone \/ Tab!RetryLoad
  PROVE  TabInv'
<1>1. CASE Tab!StartFlow
  BY <1>1 DEF Tab!StartFlow, Tab!ToKratos, TabInv, TabTypes, OneRedirect, ReturnIsKept, OnItsWay
<1>2. CASE Tab!FlowGone
  BY <1>2, LoginIsNoPage
     DEF Tab!FlowGone, Tab!Restart, Tab!ReturnOfFlow, Tab!ToKratos, TabInv,
         TabTypes, OneRedirect, ReturnIsKept, OnItsWay
<1>3. CASE Tab!RetryLoad
  BY <1>3, LoginIsNoPage
     DEF Tab!RetryLoad, Tab!ToKratos, TabInv, TabTypes, OneRedirect,
         ReturnIsKept, OnItsWay
<1> QED BY <1>1, <1>2, <1>3

(* The form keeps what it was made for.                                    *)
LEMMA FormKeepsTab ==
  ASSUME TabInv,
         \/ Tab!FlowLoaded \/ Tab!FlowUnavailable \/ Tab!Submit \/ Tab!SubmitRefused
         \/ Tab!FlowExpires \/ Tab!SessionEnds \/ Tab!SignedInElsewhere
  PROVE  TabInv'
<1>1. CASE Tab!FlowLoaded
  BY <1>1 DEF Tab!FlowLoaded, TabInv, TabTypes, OneRedirect, ReturnIsKept, OnItsWay
<1>2. CASE Tab!FlowUnavailable
  BY <1>2 DEF Tab!FlowUnavailable, TabInv, TabTypes, OneRedirect, ReturnIsKept, OnItsWay
<1>3. CASE Tab!Submit
  BY <1>3 DEF Tab!Submit, TabInv, TabTypes, OneRedirect, ReturnIsKept, OnItsWay
<1>4. CASE Tab!SubmitRefused
  BY <1>4 DEF Tab!SubmitRefused, TabInv, TabTypes, OneRedirect, ReturnIsKept, OnItsWay
<1>5. CASE Tab!FlowExpires
  BY <1>5 DEF Tab!FlowExpires, TabInv, TabTypes, OneRedirect, ReturnIsKept, OnItsWay
<1>6. CASE Tab!SessionEnds
  BY <1>6 DEF Tab!SessionEnds, TabInv, TabTypes, OneRedirect, ReturnIsKept, OnItsWay
<1>7. CASE Tab!SignedInElsewhere
  BY <1>7 DEF Tab!SignedInElsewhere, TabInv, TabTypes, OneRedirect, ReturnIsKept, OnItsWay
<1> QED BY <1>1, <1>2, <1>3, <1>4, <1>5, <1>6, <1>7

(* A life that begins has sent nobody away.                                *)
LEMMA LivesBegin ==
  ASSUME TabInv,
         \/ Tab!KratosAnswers \/ Tab!FlowUnsupported \/ Tab!SubmitRedirected \/ Tab!SignedIn
         \/ Tab!Logout \/ Tab!LeaveError \/ Tab!Reload
  PROVE  TabInv'
<1>1. CASE Tab!KratosAnswers
  BY <1>1, OneMayBeAsked, LoginIsNoPage
     DEF Tab!KratosAnswers, Tab!NewLife, TabInv, TabTypes, OneRedirect,
         ReturnIsKept, OnItsWay
<1>2. CASE Tab!FlowUnsupported
  BY <1>2 DEF Tab!FlowUnsupported, Tab!NewLife, TabInv, TabTypes, OneRedirect, ReturnIsKept,
              OnItsWay
<1>3. CASE Tab!SubmitRedirected
  BY <1>3 DEF Tab!SubmitRedirected, Tab!NewLife, TabInv, TabTypes, OneRedirect, ReturnIsKept,
              OnItsWay
<1>4. CASE Tab!SignedIn
  BY <1>4, OneMayBeAsked, LoginIsNoPage
     DEF Tab!SignedIn, Tab!NewLife, TabInv, TabTypes, OneRedirect,
         ReturnIsKept, OnItsWay
<1>5. CASE Tab!Logout
  <2>1. Tab!TypeOK'
    BY <1>5, OneMayBeAsked, LoginIsNoPage DEF Tab!Logout, Tab!NewLife, TabInv, TabTypes
  <2>2. (TabTypes /\ OneRedirect /\ ReturnIsKept)'
    BY <1>5, <2>1, LoginIsNoPage
       DEF Tab!Logout, Tab!NewLife, TabInv, TabTypes, OneRedirect, ReturnIsKept, OnItsWay
  <2> QED BY <2>2 DEF TabInv
<1>6. CASE Tab!LeaveError
  BY <1>6, OneMayBeAsked, LoginIsNoPage
     DEF Tab!LeaveError, Tab!ToKratos, Tab!NewLife, TabInv, TabTypes,
         OneRedirect, ReturnIsKept, OnItsWay
<1>7. CASE Tab!Reload
  <2>1. Tab!TypeOK'
    BY <1>7, OneMayBeAsked, LoginIsNoPage DEF Tab!Reload, Tab!NewLife, TabInv, TabTypes
  <2>2. (TabTypes /\ OneRedirect /\ ReturnIsKept)'
    BY <1>7, <2>1, LoginIsNoPage
       DEF Tab!Reload, Tab!NewLife, TabInv, TabTypes, OneRedirect, ReturnIsKept, OnItsWay
  <2> QED BY <2>2 DEF TabInv
<1> QED BY <1>1, <1>2, <1>3, <1>4, <1>5, <1>6, <1>7

LEMMA TabStep == TabInv /\ [Tab!Next]_(Tab!vars) => TabInv'
<1> SUFFICES ASSUME TabInv, [Tab!Next]_(Tab!vars) PROVE TabInv'
  OBVIOUS
<1>1. CASE Tab!Next
  BY <1>1, RequestsKeepTab, MovesKeepTab, AskingKratosKeepsTab, FormKeepsTab, LivesBegin
     DEF Tab!Next, Tab!Answered
<1>2. CASE UNCHANGED Tab!vars
  BY <1>2 DEF Tab!vars, TabInv, TabTypes, OneRedirect, ReturnIsKept, OnItsWay
<1> QED BY <1>1, <1>2

(* Who signs in has a form before them, on the way.                        *)
LEMMA SignInReturnsTo ==
  TabInv /\ Tab!SignedIn => path' = wanted \/ lost
BY DEF TabInv, OneRedirect, ReturnIsKept, OnItsWay, Tab!SignedIn

LEMMA MCTabStep == TabInv /\ [MCNext]_mcVars => TabInv'
<1> SUFFICES ASSUME TabInv, [MCNext]_mcVars PROVE TabInv'
  OBVIOUS
<1>1. [Tab!Next]_(Tab!vars)
  BY DEF MCNext, OfList, OfSession, mcVars, tabVars, Tab!vars
<1> QED BY <1>1, TabStep

(* The addresses are pages or the login page, and no more requests are     *)
(* under way than a page sends.                                            *)
THEOREM TabIsTyped == Tab!Spec => []Tab!TypeOK
<1>1. TabInv => Tab!TypeOK
  BY DEF TabInv, TabTypes
<1> QED BY <1>1, TabStart, TabStep, PTL DEF Tab!Spec

(* Signing in leads back to the page the person was sent away from, unless *)
(* the tab lost the address, whatever expires, fails or is asked again on  *)
(* the way: login-flow.ts and session-lifecycle.ts.                        *)
THEOREM SigningInReturns == Tab!Spec => Tab!SignInReturns
<1>1. TabInv /\ [Tab!Next]_(Tab!vars) => [Tab!SignedIn => path' = wanted \/ lost]_(Tab!vars)
  BY SignInReturnsTo
<1> QED BY <1>1, TabStart, TabStep, PTL DEF Tab!Spec, Tab!SignInReturns

(* So it does beside the list pages, which the same tab shows.             *)
THEOREM SignInsReturn == MCSpec => SignInReturns
<1>1. TabInv /\ [MCNext]_mcVars => [Tab!SignedIn => path' = wanted \/ lost]_(Tab!vars)
  BY SignInReturnsTo
<1>2. MCInit => TabInv
  BY TabStart DEF MCInit
<1> QED BY <1>1, <1>2, MCTabStep, PTL DEF MCSpec, SignInReturns, Tab!SignInReturns
=============================================================================
