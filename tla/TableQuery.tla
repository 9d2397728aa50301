----------------------------- MODULE TableQuery -----------------------------
(***************************************************************************)
(* One admin list of the frontend and the table of the database it shows:  *)
(* the rows, the page of them the browser holds in its query cache, and    *)
(* the one request for a newer page that may be under way.  Another        *)
(* browser changes the table at any time and nothing tells this one: it    *)
(* learns of a change by asking again, after a save of its own or when its *)
(* window gains the focus.  The page names a row by its place, not by its  *)
(* record, and everything that belongs to a row (its menu, an open dialog) *)
(* stays at the place when the page changes.                               *)
(* TanStack Query is outside the repository; lib/queries.ts,               *)
(* app/query-client.ts and DataTable.tsx are the code in it.               *)
(***************************************************************************)
EXTENDS Naturals, Sequences, SequencesExt

CONSTANTS
  Records,      \* the records that may exist
  InitialOrder, \* the records that exist at first, in the order of the list
  InitialValues,\* what the database may hold of them: functions from Records
  MaxVersion,   \* bound: how often a record changes
  MaxOthers     \* bound: how many changes other browsers make

ASSUME TableAssumption ==
  /\ InitialOrder \in Seq(Records)
  /\ IsInjective(InitialOrder)
  /\ {MaxVersion, MaxOthers} \subseteq Nat

VARIABLES
  table,  \* [Records -> [values, version]], version standing for updatedAt
  order,  \* the records of the list, as the server filters and sorts them
  page,   \* the page shown: a sequence of [id, row]
  fetch,  \* the request for the page: [state, page]
  changes \* how many changes other browsers have made

tableVars == <<table, order, page, fetch, changes>>

NoFetch == [state |-> "none", page |-> <<>>]
Asked == [state |-> "asked", page |-> <<>>]

Listed == Range(order)
ListNow == [i \in 1..Len(order) |-> [id |-> order[i], row |-> table[order[i]]]]

TableInit ==
  /\ \E values \in InitialValues :
       table = [r \in Records |-> [values |-> values[r], version |-> 0]]
  /\ order = InitialOrder
  /\ page = ListNow
  /\ fetch = NoFetch
  /\ changes = 0

Without(r) == RemoveAt(order, CHOOSE i \in 1..Len(order) : order[i] = r)

(* What is sorted by a changed value moves: r may be anywhere in the list. *)
Moved(r) == {order} \cup {InsertAt(Without(r), i, r) : i \in 1..Len(order)}

Updated(r, values) ==
  table' = [table EXCEPT ![r] = [values |-> values, version |-> @.version + 1]]
Changed(r, values) == Updated(r, values) /\ order' \in Moved(r)
Unlisted(r) == order' = Without(r)

-----------------------------------------------------------------------------
(* The query.                                                              *)

(* Mutant: a request under way is taken for the refreshed page.            *)
JoinsRunning == IF fetch.state = "none" THEN fetch' = Asked ELSE UNCHANGED fetch

(* invalidateTags: a request under way may have been answered before the   *)
(* change, so it is dropped and the page is asked for again.               *)
Invalidated == fetch' = Asked

(* The window gains the focus and the page is older than its stale time; a *)
(* request under way is left alone.                                        *)
WindowFocused ==
  /\ fetch.state = "none"
  /\ fetch' = Asked
  /\ UNCHANGED <<table, order, page, changes>>

ListAnswered ==
  /\ fetch.state = "asked"
  /\ fetch' = [state |-> "answered", page |-> ListNow]
  /\ UNCHANGED <<table, order, page, changes>>

ListArrived ==
  /\ fetch.state = "answered"
  /\ page' = fetch.page
  /\ fetch' = NoFetch
  /\ UNCHANGED <<table, order, changes>>

(* The request and its one retry failed: the old page stays.               *)
ListFailed ==
  /\ fetch.state # "none"
  /\ fetch' = NoFetch
  /\ UNCHANGED <<table, order, page, changes>>

-----------------------------------------------------------------------------
(* Another browser.                                                        *)

ByOthers ==
  /\ changes < MaxOthers
  /\ changes' = changes + 1
  /\ UNCHANGED <<page, fetch>>

(* With the same values: a change of something else the record holds.      *)
OthersChange(r, values) ==
  /\ r \in Listed
  /\ table[r].version < MaxVersion
  /\ Changed(r, values)
  /\ ByOthers

OthersAdd(r) ==
  /\ r \notin Listed
  /\ table[r].version = 0
  /\ \E i \in 1..(Len(order) + 1) : order' = InsertAt(order, i, r)
  /\ table' = [table EXCEPT ![r].version = 1]
  /\ ByOthers

OthersRemove(r) ==
  /\ r \in Listed
  /\ Unlisted(r)
  /\ Updated(r, table[r].values)
  /\ ByOthers

-----------------------------------------------------------------------------
(* The row at a place of the page: DataTable gives its rows no identity of *)
(* their own.                                                              *)
OnPage(place) == place \in 1..Len(page)
RowAt(place) == page[place]

TableTypeOK ==
  /\ DOMAIN table = Records
  /\ \A r \in Records : table[r].version \in Nat
  /\ order \in Seq(Records)
  /\ \A i \in 1..Len(page) : page[i].id \in Records
  /\ fetch.state \in {"none", "asked", "answered"}
  /\ changes \in 0..MaxOthers
=============================================================================
