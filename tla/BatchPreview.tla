---------------------------- MODULE BatchPreview ----------------------------
(***************************************************************************)
(* The second page of the dialog that adds a batch: it shows the range of  *)
(* DevEUIs the batch would get now, while other people create batches of   *)
(* the same prefix.  The range is asked for by the prefix and the planned  *)
(* quantity and kept under them in the query cache; creating a batch makes *)
(* everything kept of batches out of date.                                 *)
(* DevEuiSerials is the server.  The query cache is TanStack Query, which  *)
(* is outside the repository; AddBatch.tsx, its form and                   *)
(* features/batches/batches-api.ts are the code in it.                     *)
(***************************************************************************)
EXTENDS DevEuiSerials

CONSTANT NoPrefix  \* none is chosen

PreviewAssumption ==
  /\ NoPrefix \notin DevEuiPrefixes
  /\ Quantities \subseteq Nat \ {0}
  /\ MaxSerial \in Nat

VARIABLES
  isOpen, step, \* the dialog and its page
  form,    \* [prefix, quantity], the quantity 0 when none is typed
  cache,   \* [Keys -> what is kept: nothing, {}, or one [range, fresh]]
  fetch,   \* the request for the range of the form: [step, key, range]
  failed,  \* the last one ended in an error
  request, \* the mutation: [step, key, range, awaits], awaits saying that the
           \*  range shown is being refreshed for it
  own      \* the ranges this browser knows it has taken

dialogVars == <<isOpen, step, form>>
queryVars == <<cache, fetch, failed>>
vars == <<serialVars, dialogVars, queryVars, request, own>>

Empty == [prefix |-> NoPrefix, quantity |-> 0]
Keys == [prefix : DevEuiPrefixes \cup {NoPrefix}, quantity : Quantities \cup {0}]
NoFetch == [step |-> "none", key |-> Empty, range |-> {}]
Asked(key) == [NoFetch EXCEPT !.step = "asked", !.key = key]
Idle == [step |-> "idle", key |-> Empty, range |-> {}, awaits |-> FALSE]

Enabled(open, page, key) == open /\ page = 2 /\ key.prefix # NoPrefix

Pending == request.step # "idle"
Loading == fetch.step # "none"

(* What BatchDevEuiRange shows, with a request under way or without.       *)
Shown == {kept.range : kept \in IF Enabled(isOpen, step, form) THEN cache[form] ELSE {}}

Init ==
  /\ SerialsInit
  /\ isOpen = FALSE /\ step = 1 /\ form = Empty
  /\ cache = [k \in Keys |-> {}]
  /\ fetch = NoFetch /\ failed = FALSE
  /\ request = Idle
  /\ own = {}

-----------------------------------------------------------------------------
(* The dialog and its query.                                               *)

(* Nobody looks at the range of before any more: its request is given up.  *)
Dropped(key) == key # form

(* The dialog is rendered with open, page and key.  A range it begins to   *)
(* look at is asked for unless it is kept and fresh; a fresh one may have  *)
(* reached its stale time.                                                 *)
Render(open, page, key) ==
  LET begins == Enabled(open, page, key) /\ (key # form \/ ~Enabled(isOpen, step, form))
      now == IF Dropped(key) THEN NoFetch ELSE fetch
  IN /\ isOpen' = open /\ step' = page /\ form' = key
     /\ \E asks \in BOOLEAN :
          /\ asks => begins /\ now = NoFetch
          /\ begins /\ now = NoFetch /\ (\A kept \in cache[key] : ~kept.fresh) => asks
          /\ fetch' = IF asks THEN Asked(key) ELSE now
          /\ failed' = (failed /\ ~asks /\ key = form)
     /\ UNCHANGED <<serialVars, cache, own>>

Open ==
  /\ ~isOpen
  /\ Render(TRUE, step, form)
  /\ UNCHANGED request

Close ==
  /\ isOpen /\ ~Pending
  /\ Render(FALSE, 1, Empty)
  /\ UNCHANGED request

(* The planned quantity is on the first page.                              *)
TypeQuantity(quantity) ==
  /\ isOpen /\ step = 1
  /\ quantity # form.quantity
  /\ Render(isOpen, step, [form EXCEPT !.quantity = quantity])
  /\ UNCHANGED request

GoToConfiguration ==
  /\ isOpen /\ step = 1 /\ ~Pending
  /\ form.quantity > 0
  /\ Render(isOpen, 2, form)
  /\ UNCHANGED request

Back ==
  /\ isOpen /\ step = 2 /\ ~Pending
  /\ Render(isOpen, 1, form)
  /\ UNCHANGED request

(* The prefix is on the second, and not locked by a request under way; a   *)
(* refresh of the range of before is then not waited for any more.         *)
ChoosePrefix(p) ==
  /\ isOpen /\ step = 2
  /\ p # form.prefix
  /\ Render(isOpen, step, [form EXCEPT !.prefix = p])
  /\ request' = [request EXCEPT !.awaits = FALSE]

Submit ==
  /\ isOpen /\ step = 2 /\ ~Pending
  /\ form.prefix # NoPrefix
  /\ request' = [Idle EXCEPT !.step = "sent", !.key = form]
  /\ UNCHANGED <<serialVars, dialogVars, queryVars, own>>

WindowFocused ==
  /\ Enabled(isOpen, step, form) /\ ~Loading
  /\ fetch' = Asked(form)
  /\ failed' = FALSE
  /\ UNCHANGED <<serialVars, dialogVars, cache, request, own>>

PreviewAnswered ==
  /\ fetch.step = "asked"
  /\ LET key == fetch.key
     IN /\ Fits(taken[key.prefix] + 1, key.quantity)
        /\ fetch' = [fetch EXCEPT
             !.step = "answered", !.range = {RangeAt(key.prefix, taken[key.prefix] + 1, key.quantity)}]
  /\ UNCHANGED <<serialVars, dialogVars, cache, failed, request, own>>

PreviewArrived ==
  /\ fetch.step = "answered"
  /\ cache' = [cache EXCEPT ![form] = {[range |-> r, fresh |-> TRUE] : r \in fetch.range}]
  /\ fetch' = NoFetch
  /\ request' = [request EXCEPT !.awaits = FALSE]
  /\ UNCHANGED <<serialVars, dialogVars, failed, own>>

(* No room under the prefix, or no answer; what is kept, stays.            *)
PreviewFailed ==
  /\ Loading
  /\ fetch' = NoFetch
  /\ failed' = TRUE
  /\ request' = [request EXCEPT !.awaits = FALSE]
  /\ UNCHANGED <<serialVars, dialogVars, cache, own>>

-----------------------------------------------------------------------------
(* The creation.                                                           *)

Applied ==
  /\ request.step = "sent"
  /\ Issue(request.key.prefix, request.key.quantity)
  /\ \E heard \in BOOLEAN :
       request' = [request EXCEPT !.step = IF heard THEN "answered" ELSE "failed",
                                  !.range = ranges' \ ranges]
  /\ UNCHANGED <<dialogVars, queryVars, own>>

Refused ==
  /\ request.step = "sent"
  /\ request' = [request EXCEPT !.step = "failed"]
  /\ UNCHANGED <<serialVars, dialogVars, queryVars, own>>

OthersCreate(p, quantity) ==
  /\ Issue(p, quantity)
  /\ UNCHANGED <<dialogVars, queryVars, request, own>>

(* Mutant: only the range in view is refreshed.                            *)
InvalidatedInView ==
  cache' = [cache EXCEPT ![form] = {[kept EXCEPT !.fresh = FALSE] : kept \in @}]

(* invalidateBatchQueries: all that is kept of the tag Batches.  The page  *)
(* of the range stays until the answer, so that range is asked for again.  *)
Invalidated ==
  cache' = [k \in Keys |-> {[kept EXCEPT !.fresh = FALSE] : kept \in cache[k]}]

Succeed ==
  /\ request.step = "answered"
  /\ own' = own \cup request.range
  /\ Invalidated
  /\ fetch' = Asked(form)
  /\ failed' = FALSE
  /\ request' = [request EXCEPT !.step = "refreshing", !.awaits = TRUE]
  /\ UNCHANGED <<serialVars, dialogVars>>

Fail ==
  /\ request.step = "failed"
  /\ request' = Idle
  /\ UNCHANGED <<serialVars, dialogVars, queryVars, own>>

(* close(true).                                                            *)
Settle ==
  /\ request.step = "refreshing" /\ ~request.awaits
  /\ request' = Idle
  /\ Render(FALSE, 1, Empty)

Next ==
  \/ Open \/ Close \/ GoToConfiguration \/ Back \/ Submit \/ WindowFocused
  \/ \E quantity \in Quantities \cup {0} : TypeQuantity(quantity)
  \/ \E p \in DevEuiPrefixes : ChoosePrefix(p)
  \/ PreviewAnswered \/ PreviewArrived \/ PreviewFailed
  \/ Applied \/ Refused \/ Succeed \/ Fail \/ Settle
  \/ \E p \in DevEuiPrefixes, quantity \in Quantities : OthersCreate(p, quantity)

Spec == Init /\ [][Next]_vars

-----------------------------------------------------------------------------
TypeOK ==
  /\ taken \in [DevEuiPrefixes -> 0..MaxSerial]
  /\ form \in Keys /\ step \in {1, 2}
  /\ \A k \in Keys : \A kept \in cache[k] :
       kept.range \in [prefix : DevEuiPrefixes, first : 1..MaxSerial, last : 1..MaxSerial]
  /\ fetch.step \in {"none", "asked", "answered"}
  /\ request.step \in {"idle", "sent", "answered", "failed", "refreshing"}
  /\ own \subseteq ranges

(* The range shown is one of the prefix and of the quantity chosen now,    *)
(* however the answers and the choices follow each other, even while the   *)
(* mutation is under way and the choices are not locked.                   *)
RangeIsOfTheChoice ==
  \A r \in Shown : r.prefix = form.prefix /\ r.last + 1 = r.first + form.quantity

(* A range this browser has taken is not offered to the person again: what *)
(* was kept of the time before is asked for anew, and a request that was   *)
(* under way is not believed.  While the new one loads, or after it failed,*)
(* the old range is still in view.                                         *)
OwnRangeIsNotOffered ==
  ~Loading /\ ~failed => \A r \in Shown, o \in own : ~Overlap(r, o)

(* The range in view is one the batch can have: of the choice, and not one *)
(* of a batch made here before.                                            *)
RangeIsToBeHad == RangeIsOfTheChoice /\ OwnRangeIsNotOffered
=============================================================================
