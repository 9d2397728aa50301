--------------------------- MODULE RowDialogsProofs ---------------------------
(***************************************************************************)
(* Why a confirmation acts once and on what it asked about, and why the    *)
(* dialog of the access key tells what is so: theorems about RecordActions *)
(* for any records, confirmations and bounds, and about AccessKeyDialog    *)
(* for any PAKs and any number of requests under way at once.              *)
(***************************************************************************)
EXTENDS MCDialogs, SequenceTheorems, TLAPS

-----------------------------------------------------------------------------
(* The confirmations *)

RequestFields ==
  /\ request = [step |-> request.step, place |-> request.place, op |-> request.op,
                id |-> request.id, answer |-> request.answer, fetched |-> request.fetched]
  /\ request.step \in {"idle", "sent", "answered", "refreshing", "refreshed"}

(* A dialog that has succeeded waits for the list, at the place of its     *)
(* request: it has buttons again only when it is closed.                   *)
SuccessIsPending ==
  done => /\ place # 0 /\ request.place = place
          /\ request.step \in {"refreshing", "refreshed"}

ConfirmationInv == RequestFields /\ SuccessIsPending /\ OwnAccountIsLeftAlone

LEMMA ConfirmationInit == Init => ConfirmationInv
BY DEF Init, ConfirmationInv, RequestFields, SuccessIsPending, OwnAccountIsLeftAlone, Idle

LEMMA ConfirmationStutter == ConfirmationInv /\ UNCHANGED dialogVars => ConfirmationInv'
BY DEF ConfirmationInv, RequestFields, SuccessIsPending, OwnAccountIsLeftAlone, dialogVars

(* What is asked about is rendered, and nothing of the own account is.     *)
LEMMA PersonKeeps ==
  ConfirmationInv /\ ((\E i \in 1..Len(page) : Open(i)) \/ Cancel \/ Confirm) => ConfirmationInv'
<1> SUFFICES ASSUME ConfirmationInv PROVE
      (\E i \in 1..Len(page) : Open(i)) \/ Cancel \/ Confirm => ConfirmationInv'
  OBVIOUS
<1> USE DEF ConfirmationInv, RequestFields, SuccessIsPending, OwnAccountIsLeftAlone
<1>1. CASE \E i \in 1..Len(page) : Open(i)
  BY <1>1 DEF Open
<1>2. CASE Cancel
  BY <1>2 DEF Cancel, CloseDialog
<1>3. CASE Confirm
  <2>1. ~done
    BY <1>3 DEF Confirm, Pending, Sending
  <2>2. dialog.users => Shown.id \notin Own
    BY <1>3 DEF Confirm, Visible, Rendered
  <2>3. request' = [step |-> "sent", place |-> place, op |-> Asks(dialog, Shown.row.values),
                    id |-> Shown.id, answer |-> "none", fetched |-> FALSE]
    BY <1>3 DEF Confirm, Idle
  <2> QED BY <1>3, <2>1, <2>2, <2>3 DEF Confirm
<1> QED BY <1>1, <1>2, <1>3

(* The server changes the step of the request, and its answer.             *)
LEMMA ServerKeeps == ConfirmationInv /\ (Applied \/ Refused) => ConfirmationInv'
<1> SUFFICES ASSUME ConfirmationInv, Applied \/ Refused PROVE ConfirmationInv'
  OBVIOUS
<1> USE DEF ConfirmationInv, RequestFields, SuccessIsPending, OwnAccountIsLeftAlone
<1>1. /\ request.step = "sent" /\ UNCHANGED <<dialog, place, done>>
      /\ \E answer \in {"ok", "error", "in use"} :
           request' = [request EXCEPT !.step = "answered", !.answer = answer]
  BY DEF Applied, Refused
<1> QED BY <1>1

LEMMA AnswerKeeps == ConfirmationInv /\ (Succeed \/ Fail \/ Settle) => ConfirmationInv'
<1> SUFFICES ASSUME ConfirmationInv PROVE Succeed \/ Fail \/ Settle => ConfirmationInv'
  OBVIOUS
<1> USE DEF ConfirmationInv, RequestFields, SuccessIsPending, OwnAccountIsLeftAlone
<1>1. CASE Succeed
  BY <1>1 DEF Succeed, Sending
<1>2. CASE Fail
  <2>1. ~done /\ request' = Idle /\ UNCHANGED dialog
    BY <1>2 DEF Fail
  <2>2. ~done'
    BY <1>2, <2>1 DEF Fail, CloseDialog
  <2> QED BY <2>1, <2>2 DEF Idle
<1>3. CASE Settle
  <2>1. ~done' /\ request' = Idle /\ UNCHANGED dialog
    BY <1>3 DEF Settle, CloseDialog, Sending
  <2> QED BY <2>1 DEF Idle
<1> QED BY <1>1, <1>2, <1>3

(* When the list brings another record under the dialog, either the request *)
(* stays with it or the success is forgotten with the dialog.              *)
LEMMA ListKeeps == ConfirmationInv /\ (Rerender \/ FetchFailed) => ConfirmationInv'
<1> SUFFICES ASSUME ConfirmationInv PROVE Rerender \/ FetchFailed => ConfirmationInv'
  OBVIOUS
<1> DEFINE after == IF request.step = "refreshing" THEN "refreshed" ELSE request.step
           Now(at, fetched) == [step |-> after, place |-> at, op |-> request.op,
                                id |-> request.id, answer |-> request.answer, fetched |-> fetched]
<1>1. \A succeeded \in BOOLEAN : \E fetched : Refreshed(succeeded) = Now(request.place, fetched)
  BY DEF Refreshed, ConfirmationInv, RequestFields
<1>2. ASSUME NEW at, NEW fetched, request' = Now(at, fetched), dialog' = dialog,
             done' => done /\ place' = place /\ at = request.place
      PROVE  ConfirmationInv'
  BY <1>2 DEF ConfirmationInv, RequestFields, SuccessIsPending, OwnAccountIsLeftAlone
<1>3. CASE Rerender
  <2> DEFINE gone == place # 0 /\ place \notin 1..Len(page')
             kept == request.place \in 1..Len(page') /\ Rendered(dialog, page'[request.place])
             at == IF kept THEN request.place ELSE 0
  <2>1. /\ request' = [Refreshed(TRUE) EXCEPT !.place = IF kept THEN @ ELSE 0]
        /\ UNCHANGED dialog
        /\ gone => ~done'
        /\ place # 0 /\ ~gone /\ ~Rendered(dialog, page'[place]) => ~done'
        /\ ~gone /\ (place = 0 \/ Rendered(dialog, page'[place])) => UNCHANGED <<place, done>>
    BY <1>3 DEF Rerender, CloseDialog
  <2> HIDE DEF gone
  <2>2. done' => done /\ place' = place /\ kept
    <3> SUFFICES ASSUME done' PROVE done /\ place' = place /\ kept
      OBVIOUS
    <3>1. ~gone /\ (place = 0 \/ Rendered(dialog, page'[place])) /\ UNCHANGED <<place, done>>
      BY <2>1
    <3> QED BY <3>1 DEF gone, ConfirmationInv, SuccessIsPending
  <2> HIDE DEF kept
  <2>3. PICK fetched : Refreshed(TRUE) = Now(request.place, fetched)
    BY <1>1
  <2>4. request' = Now(at, fetched)
    <3>1. ASSUME NEW old, old = Now(request.place, fetched), NEW condition \in BOOLEAN
          PROVE  [old EXCEPT !.place = IF condition THEN @ ELSE 0]
                   = Now(IF condition THEN request.place ELSE 0, fetched)
      BY <3>1
    <3>2. kept \in BOOLEAN
      BY DEF kept
    <3> HIDE DEF Now
    <3> QED BY <2>1, <2>3, <3>1, <3>2
  <2> HIDE DEF Now
  <2> QED BY <1>2, <2>1, <2>2, <2>4
<1>4. CASE FetchFailed
  <2>1. request' = Refreshed(FALSE) /\ UNCHANGED <<dialog, place, done>>
    BY <1>4 DEF FetchFailed
  <2>2. PICK fetched : Refreshed(FALSE) = Now(request.place, fetched)
    BY <1>1
  <2> HIDE DEF Now
  <2> QED BY <1>2, <2>1, <2>2
<1> QED BY <1>3, <1>4

LEMMA ConfirmationSteps == ConfirmationInv /\ [Next]_vars => ConfirmationInv'
<1>1. Elsewhere \/ UNCHANGED vars => UNCHANGED dialogVars
  BY DEF Elsewhere, vars
<1> QED BY <1>1, ConfirmationStutter, PersonKeeps, ServerKeeps, AnswerKeeps, ListKeeps DEF Next

(* A confirmation that has succeeded asks nothing more until it is closed,  *)
(* and none is about the own account, whatever record a list fetched again *)
(* puts under the open dialog, and whichever answers are late or lost.     *)
THEOREM ConfirmedOnceAndRightly == Spec => []ConfirmsWhatIsOffered
<1>1. ConfirmationInv => ConfirmsWhatIsOffered
  BY DEF ConfirmationInv, SuccessIsPending, ConfirmsWhatIsOffered, SucceedsOnce
<1> QED BY ConfirmationInit, ConfirmationSteps, <1>1, PTL DEF Spec

-----------------------------------------------------------------------------
(* The types of the confirmations and of their list *)

LEMMA RemovedOne ==
  ASSUME NEW S, NEW s \in Seq(S), NEW k \in 1..Len(s)
  PROVE  RemoveAt(s, k) \in Seq(S) /\ Len(RemoveAt(s, k)) = Len(s) - 1
<1>1. Len(s) \in Nat /\ \A i \in 1..Len(s) : s[i] \in S
  BY LenProperties, ElementOfSeq
<1> DEFINE before == SubSeq(s, 1, k - 1)
           after == SubSeq(s, k + 1, Len(s))
<1>2. /\ before \in Seq(S) /\ Len(before) = k - 1
      /\ after \in Seq(S) /\ Len(after) = Len(s) - k
  BY <1>1, SubSeqProperties
<1>3. RemoveAt(s, k) = before \o after
  BY DEF RemoveAt
<1> HIDE DEF before, after
<1>4. before \o after \in Seq(S) /\ Len(before \o after) = Len(before) + Len(after)
  BY <1>2, ConcatProperties
<1>5. Len(before) + Len(after) = Len(s) - 1
  BY <1>1, <1>2
<1> QED BY <1>3, <1>4, <1>5

LEMMA InsertedOne ==
  ASSUME NEW S, NEW s \in Seq(S), NEW k \in 1..(Len(s) + 1), NEW e \in S
  PROVE  InsertAt(s, k, e) \in Seq(S)
<1>1. Len(s) \in Nat /\ \A i \in 1..Len(s) : s[i] \in S
  BY LenProperties, ElementOfSeq
<1>2. SubSeq(s, 1, k - 1) \in Seq(S) /\ SubSeq(s, k, Len(s)) \in Seq(S)
  BY <1>1, SubSeqProperties
<1>3. <<e>> \in Seq(S)
  OBVIOUS
<1>4. SubSeq(s, 1, k - 1) \o <<e>> \in Seq(S)
  BY <1>2, <1>3, ConcatProperties
<1> QED BY <1>2, <1>4, ConcatProperties DEF InsertAt

PageFits(rows) == Len(rows) \in Nat /\ \A i \in 1..Len(rows) : rows[i].id \in Records

ListTypes ==
  /\ DOMAIN table = Records
  /\ \A r \in Records :
       /\ table[r].version \in Nat
       /\ table[r] = [values |-> table[r].values, version |-> table[r].version]
  /\ order \in Seq(Records)
  /\ PageFits(page) /\ PageFits(fetch.page)
  /\ fetch.state \in {"none", "asked", "answered"}
  /\ changes \in 0..MaxOthers

ConfirmationTypes ==
  /\ dialog \in Dialogs
  /\ place \in 0..Len(page) /\ request.place \in 0..Len(page)
  /\ {warned, done} \subseteq BOOLEAN
  /\ request.answer \in {"none", "ok", "in use", "error"}

TypesInv == ConfirmationInv /\ ListTypes /\ ConfirmationTypes

LEMMA ListNowFits ==
  ASSUME order \in Seq(Records)
  PROVE  PageFits(ListNow)
<1>1. Len(order) \in Nat /\ \A i \in 1..Len(order) : order[i] \in Records
  BY LenProperties, ElementOfSeq
<1>2. Len(ListNow) = Len(order) /\ \A i \in 1..Len(order) : ListNow[i].id = order[i]
  BY <1>1 DEF ListNow
<1> QED BY <1>1, <1>2 DEF PageFits

LEMMA OrderKept ==
  ASSUME order \in Seq(Records), NEW r \in Listed
  PROVE  r \in Records /\ Without(r) \in Seq(Records) /\ Moved(r) \subseteq Seq(Records)
<1>1. PICK k \in 1..Len(order) : order[k] = r
  BY LenProperties DEF Listed, Range
<1>2. r \in Records
  BY <1>1, ElementOfSeq
<1>3. Without(r) \in Seq(Records) /\ Len(Without(r)) = Len(order) - 1
  BY <1>1, RemovedOne DEF Without
<1>4. ASSUME NEW i \in 1..Len(order) PROVE InsertAt(Without(r), i, r) \in Seq(Records)
  <2>1. i \in 1..(Len(Without(r)) + 1)
    BY <1>3, LenProperties
  <2> QED BY <1>2, <1>3, <2>1, InsertedOne
<1> QED BY <1>2, <1>3, <1>4 DEF Moved

LEMMA UpdateKeeps ==
  ASSUME ListTypes, NEW r, NEW values, Updated(r, values),
         order' \in Seq(Records), changes' \in 0..MaxOthers, UNCHANGED <<page, fetch>>
  PROVE  ListTypes'
<1>1. /\ DOMAIN table' = Records
      /\ \A q \in Records :
           table'[q] = IF q = r THEN [values |-> values, version |-> table[r].version + 1]
                                ELSE table[q]
  BY DEF Updated, ListTypes
<1>2. ASSUME NEW q \in Records
      PROVE  /\ table'[q].version \in Nat
             /\ table'[q] = [values |-> table'[q].values, version |-> table'[q].version]
  <2>1. table[q].version \in Nat
    BY DEF ListTypes
  <2> QED BY <1>1, <2>1 DEF ListTypes
<1> QED BY <1>1, <1>2 DEF ListTypes, PageFits

LEMMA QueryKeeps ==
  ASSUME ListTypes, UNCHANGED <<table, order, changes>>,
         page' = page \/ page' = fetch.page,
         \/ fetch' \in {fetch, NoFetch, Asked}
         \/ ListAnswered
  PROVE  ListTypes'
<1>1. PageFits(<<>>)
  BY EmptySeq DEF PageFits
<1>2. PageFits(page') /\ PageFits(fetch'.page) /\ fetch'.state \in {"none", "asked", "answered"}
  BY <1>1, ListNowFits DEF ListTypes, NoFetch, Asked, ListAnswered
<1> QED BY <1>2 DEF ListTypes, PageFits

LEMMA OthersKeep ==
  ASSUME ListTypes,
         \E r \in Records : \/ OthersChange(r, [table[r].values EXCEPT !.active = ~@])
                           \/ OthersChange(r, [table[r].values EXCEPT !.used = TRUE])
                           \/ OthersAdd(r)
                           \/ OthersRemove(r)
  PROVE  ListTypes'
<1>1. UNCHANGED <<page, fetch>> /\ changes' \in 0..MaxOthers
  BY TableAssumption DEF OthersChange, OthersAdd, OthersRemove, ByOthers, ListTypes
<1>2. ASSUME NEW r \in Records, NEW values, OthersChange(r, values)
      PROVE  ListTypes'
  <2>1. Updated(r, values) /\ order' \in Seq(Records)
    BY <1>2, OrderKept DEF OthersChange, Changed, ListTypes
  <2> QED BY <1>1, <2>1, UpdateKeeps
<1>3. ASSUME NEW r \in Records, OthersRemove(r)
      PROVE  ListTypes'
  <2>1. Updated(r, table[r].values) /\ order' \in Seq(Records)
    BY <1>3, OrderKept DEF OthersRemove, Unlisted, ListTypes
  <2> QED BY <1>1, <2>1, UpdateKeeps
<1>4. ASSUME NEW r \in Records, OthersAdd(r)
      PROVE  ListTypes'
  <2>1. /\ table' = [table EXCEPT ![r] = [table[r] EXCEPT !.version = 1]]
        /\ \E i \in 1..(Len(order) + 1) : order' = InsertAt(order, i, r)
    BY <1>4 DEF OthersAdd
  <2>2. [table[r] EXCEPT !.version = 1] = [values |-> table[r].values, version |-> 1]
    <3>1. ASSUME NEW old, old = [values |-> old.values, version |-> old.version]
          PROVE  [old EXCEPT !.version = 1] = [values |-> old.values, version |-> 1]
      BY <3>1
    <3> QED BY <3>1 DEF ListTypes
  <2>3. order' \in Seq(Records)
    BY <2>1, InsertedOne DEF ListTypes
  <2>4. /\ DOMAIN table' = Records
        /\ \A q \in Records :
             table'[q] = IF q = r THEN [values |-> table[r].values, version |-> 1] ELSE table[q]
    BY <2>1, <2>2 DEF ListTypes
  <2> QED BY <1>1, <2>3, <2>4 DEF ListTypes, PageFits
<1> QED BY <1>2, <1>3, <1>4

LEMMA ListStep ==
  ASSUME ListTypes, [Next]_vars
  PROVE  ListTypes'
<1>1. CASE UNCHANGED tableVars
  BY <1>1, QueryKeeps DEF tableVars
<1>2. CASE Applied
  <2>1. request.id \in Listed /\ UNCHANGED <<page, fetch, changes>>
    BY <1>2 DEF Applied, Acceptable
  <2>2. \E values : Updated(request.id, values) /\ (Unlisted(request.id) \/ order' \in Moved(request.id))
    BY <1>2 DEF Applied, Changed
  <2>3. order' \in Seq(Records)
    BY <2>1, <2>2, OrderKept DEF Unlisted, ListTypes
  <2>4. changes' \in 0..MaxOthers
    BY <2>1 DEF ListTypes
  <2> QED BY <2>1, <2>2, <2>3, <2>4, UpdateKeeps
<1>3. CASE Succeed \/ Rerender \/ FetchFailed
  BY <1>3, QueryKeeps DEF Succeed, Invalidated, Rerender, ListArrived, FetchFailed, ListFailed
<1>4. CASE Elsewhere
  BY <1>4, QueryKeeps, OthersKeep DEF Elsewhere, WindowFocused, ListAnswered
<1> QED BY <1>1, <1>2, <1>3, <1>4 DEF Next, vars, Open, Cancel, Confirm, Refused, Fail, Settle

LEMMA ConfirmationTypesStep ==
  ASSUME TypesInv, ListTypes', [Next]_vars
  PROVE  ConfirmationTypes'
<1> DEFINE flags == {warned, done} \subseteq BOOLEAN
<1>0. /\ request = [step |-> request.step, place |-> request.place, op |-> request.op,
                    id |-> request.id, answer |-> request.answer, fetched |-> request.fetched]
      /\ Len(page) \in Nat /\ Len(page') \in Nat
      /\ 0 \in 0..Len(page) /\ 0 \in 0..Len(page')
  BY DEF TypesInv, ConfirmationInv, RequestFields, ListTypes, PageFits
<1>places. place \in 0..Len(page) /\ request.place \in 0..Len(page)
  BY DEF TypesInv, ConfirmationTypes
<1>rest. dialog \in Dialogs /\ flags /\ request.answer \in {"none", "ok", "in use", "error"}
  BY DEF TypesInv, ConfirmationTypes
<1>1. \A succeeded : /\ Refreshed(succeeded).place = request.place
                     /\ Refreshed(succeeded).answer = request.answer
  BY <1>0 DEF Refreshed
<1>2. ASSUME UNCHANGED <<dialog, page>>, place' \in {0, place},
             request'.place \in {0, place, request.place},
             request'.answer \in {"none", "ok", "in use", "error"},
             flags'
      PROVE  ConfirmationTypes'
  <2>1. place' \in 0..Len(page') /\ request'.place \in 0..Len(page')
    BY <1>0, <1>places, <1>2
  <2>2. dialog' \in Dialogs
    BY <1>rest, <1>2
  <2> QED BY <1>2, <2>1, <2>2 DEF ConfirmationTypes
<1>3. CASE UNCHANGED <<page, dialogVars>>
  BY <1>rest, <1>2, <1>3 DEF dialogVars
<1>4. CASE \E i \in 1..Len(page) : Open(i)
  <2>1. place' \in 1..Len(page) /\ UNCHANGED <<page, dialog, warned, done, request>>
    BY <1>4 DEF Open, tableVars
  <2>2. place' \in 0..Len(page')
    BY <1>0, <2>1
  <2> QED BY <1>places, <1>rest, <2>1, <2>2 DEF ConfirmationTypes
<1>5. CASE Cancel
  BY <1>rest, <1>2, <1>5 DEF Cancel, CloseDialog, tableVars
<1>6. CASE Confirm
  BY <1>rest, <1>2, <1>6 DEF Confirm, Idle, tableVars
<1>7. CASE Applied \/ Refused
  <2>1. /\ UNCHANGED <<page, dialog, place, warned, done>>
        /\ \E answer \in {"ok", "in use", "error"} :
             request' = [request EXCEPT !.step = "answered", !.answer = answer]
    BY <1>7 DEF Applied, Refused, tableVars
  <2>2. /\ request'.place = request.place
        /\ request'.answer \in {"none", "ok", "in use", "error"}
    BY <1>0, <2>1
  <2> QED BY <1>rest, <1>2, <2>1, <2>2
<1>8. CASE Succeed
  <2>1. /\ UNCHANGED <<page, dialog, place, warned>> /\ done' = (done \/ Sending)
        /\ request' = [request EXCEPT !.step = "refreshing"]
    BY <1>8 DEF Succeed
  <2>2. request'.place = request.place /\ request'.answer = request.answer
    BY <1>0, <2>1
  <2>3. flags'
    BY <1>rest, <2>1
  <2> QED BY <1>rest, <1>2, <2>1, <2>2, <2>3
<1>9. CASE Fail \/ Settle
  <2>1. UNCHANGED <<page, dialog>> /\ request' = Idle
    BY <1>9 DEF Fail, Settle, tableVars
  <2>2. place' \in {0, place}
    BY <1>9 DEF Fail, Settle, CloseDialog
  <2>3. flags'
    BY <1>9, <1>rest DEF Fail, Settle, CloseDialog
  <2> QED BY <1>2, <2>1, <2>2, <2>3 DEF Idle
<1>10. CASE Rerender
  <2> DEFINE kept == request.place \in 1..Len(page') /\ Rendered(dialog, page'[request.place])
             gone == place # 0 /\ place \notin 1..Len(page')
  <2>1. /\ UNCHANGED dialog
        /\ request' = [Refreshed(TRUE) EXCEPT !.place = IF kept THEN @ ELSE 0]
    BY <1>10 DEF Rerender
  <2>2. flags'
    BY <1>10, <1>rest DEF Rerender, CloseDialog
  <2>3. (gone /\ place' = 0) \/ (~gone /\ place' = place)
    BY <1>10 DEF Rerender, CloseDialog
  <2>4. place' \in 0..Len(page')
    <3>1. ~gone => place = 0 \/ place \in 1..Len(page')
      OBVIOUS
    <3>2. 1..Len(page') \subseteq 0..Len(page')
      BY <1>0
    <3> QED BY <1>0, <2>3, <3>1, <3>2
  <2>5. request'.place = (IF kept THEN request.place ELSE 0) /\ request'.answer = request.answer
    BY <1>0, <1>1, <2>1 DEF Refreshed
  <2>6. request'.place \in 0..Len(page')
    <3>1. kept => request.place \in 1..Len(page')
      OBVIOUS
    <3>2. 1..Len(page') \subseteq 0..Len(page')
      BY <1>0
    <3> HIDE DEF kept
    <3> QED BY <1>0, <2>5, <3>1, <3>2
  <2> QED BY <1>rest, <2>1, <2>2, <2>4, <2>5, <2>6 DEF ConfirmationTypes
<1>11. CASE FetchFailed
  BY <1>rest, <1>1, <1>2, <1>11 DEF FetchFailed, ListFailed
<1> QED BY <1>3, <1>4, <1>5, <1>6, <1>7, <1>8, <1>9, <1>10, <1>11 DEF Next, vars, tableVars,
     Elsewhere, WindowFocused, ListAnswered, OthersChange, OthersAdd, OthersRemove, ByOthers

LEMMA TypesInit == Init => ListTypes /\ ConfirmationTypes
<1> SUFFICES ASSUME Init PROVE ListTypes /\ ConfirmationTypes
  OBVIOUS
<1>1. order \in Seq(Records) /\ page = ListNow /\ fetch = NoFetch /\ changes = 0
  BY TableAssumption DEF Init, TableInit
<1>2. PageFits(page) /\ PageFits(<<>>)
  BY <1>1, ListNowFits, EmptySeq DEF PageFits
<1>3. /\ DOMAIN table = Records
      /\ \A r \in Records :
           /\ table[r].version \in Nat
           /\ table[r] = [values |-> table[r].values, version |-> table[r].version]
  BY DEF Init, TableInit
<1>4. ListTypes
  BY <1>1, <1>2, <1>3, TableAssumption DEF ListTypes, NoFetch
<1>5. ConfirmationTypes
  <2>1. 0 \in 0..Len(page)
    BY <1>2 DEF PageFits
  <2>2. place = 0 /\ request.place = 0 /\ request.answer = "none"
    BY DEF Init, Idle
  <2> QED BY <2>1, <2>2 DEF Init, ConfirmationTypes
<1> QED BY <1>4, <1>5

(* The list and the request are typed, and neither the open dialog nor its *)
(* request is of a place beyond the page in view, however the page shrinks *)
(* under them (DataTable.tsx:159).                                         *)
THEOREM ConfirmationsAreTyped == Spec => []TypeOK
<1>1. TypesInv => TypeOK
  BY DEF TypesInv, ConfirmationInv, RequestFields, ListTypes, ConfirmationTypes, PageFits, TypeOK,
     TableTypeOK
<1>2. TypesInv /\ [Next]_vars => TypesInv'
  BY ConfirmationSteps, ListStep, ConfirmationTypesStep DEF TypesInv
<1>3. Init => TypesInv
  BY ConfirmationInit, TypesInit DEF TypesInv
<1> QED BY <1>1, <1>2, <1>3, PTL DEF Spec

-----------------------------------------------------------------------------
(* The access key *)

KeysOrNone == Key!Keys \cup {Key!NoKey}
Reads == [step : {"sent", "answered", "over"}, pak : Paks, key : KeysOrNone]

KeyTypes ==
  /\ keys \in [Paks -> 0..MaxRotations]
  /\ row \in Paks
  /\ {open, asked, confirming} \subseteq BOOLEAN
  /\ key \in KeysOrNone
  /\ reads \in Seq(Reads)
  /\ current \in 0..Len(reads)
  /\ rotation \in [step : {"idle", "sent", "answered"}, pak : Paks, key : KeysOrNone]

(* An opening has asked for the key, and watches its own request; a        *)
(* rotation is under way in an open dialog only.                           *)
OpeningHasAsked ==
  /\ open <=> asked
  /\ open => current # 0
  /\ Key!Rotating => open

(* Once a request watched has ended without a key shown, it had none.      *)
NoneWasGiven ==
  open /\ key = Key!NoKey /\ reads[current].step = "over" => reads[current].key = Key!NoKey

KeyInv == KeyTypes /\ OpeningHasAsked /\ NoneWasGiven

LEMMA KeyRecords ==
  ASSUME NEW p \in Paks
  PROVE  /\ Key!NoKey \in KeysOrNone
         /\ Key!IdleRotation = [step |-> "idle", pak |-> Key!IdleRotation.pak, key |-> Key!NoKey]
         /\ Key!IdleRotation.pak \in Paks
         /\ \A n \in 0..MaxRotations : [pak |-> p, number |-> n] \in KeysOrNone
BY DEF KeysOrNone, Key!IdleRotation, Key!Keys

LEMMA KeyInit == Key!Init => KeyInv
<1> SUFFICES ASSUME Key!Init PROVE KeyInv
  OBVIOUS
<1>1. /\ keys = [p \in Paks |-> 0] /\ row \in Paks
      /\ open = FALSE /\ asked = FALSE /\ confirming = FALSE
      /\ key = Key!NoKey /\ reads = <<>> /\ current = 0 /\ rotation = Key!IdleRotation
  BY DEF Key!Init
<1>2. /\ keys \in [Paks -> 0..MaxRotations]
      /\ reads \in Seq(Reads) /\ current \in 0..Len(reads)
  BY <1>1, RotationsAssumption, EmptySeq DEF Key!KeysAssumption
<1>3. rotation \in [step : {"idle", "sent", "answered"}, pak : Paks, key : KeysOrNone]
  BY <1>1, KeyRecords
<1>4. key \in KeysOrNone /\ rotation.step = "idle"
  BY <1>1, KeyRecords
<1> QED BY <1>1, <1>2, <1>3, <1>4
     DEF KeyInv, KeyTypes, OpeningHasAsked, NoneWasGiven, Key!Rotating

LEMMA KeyStutter == KeyInv /\ UNCHANGED keyVars => KeyInv'
BY DEF KeyInv, KeyTypes, OpeningHasAsked, NoneWasGiven, keyVars, Key!Rotating

LEMMA AskingKeeps ==
  ASSUME KeyInv, Key!RequestKey
  PROVE  /\ reads' \in Seq(Reads) /\ current' \in 0..Len(reads') /\ current' # 0
         /\ reads'[current'].step = "sent"
<1> DEFINE read == [step |-> "sent", pak |-> row, key |-> Key!NoKey]
<1>1. reads' = Append(reads, read) /\ current' = Len(reads) + 1
  BY DEF Key!RequestKey
<1>2. read \in Reads
  BY DEF KeyInv, KeyTypes, Reads, KeysOrNone
<1>3. reads \in Seq(Reads) /\ Len(reads) \in Nat
  BY LenProperties DEF KeyInv, KeyTypes
<1> HIDE DEF read
<1>4. /\ Append(reads, read) \in Seq(Reads)
      /\ Len(Append(reads, read)) = Len(reads) + 1
      /\ Append(reads, read)[Len(reads) + 1] = read
  BY <1>2, <1>3, AppendProperties
<1> QED BY <1>1, <1>3, <1>4 DEF read

LEMMA OpeningKeeps ==
  KeyInv /\ (Key!Open \/ Key!Retry \/ Key!Close) => KeyInv'
<1> SUFFICES ASSUME KeyInv PROVE Key!Open \/ Key!Retry \/ Key!Close => KeyInv'
  OBVIOUS
<1>1. CASE Key!Open
  <2>1. /\ ~open /\ ~asked /\ open' = TRUE /\ asked' = TRUE /\ Key!RequestKey
        /\ UNCHANGED <<keys, row, key, confirming, rotation>>
    BY <1>1 DEF Key!Open, KeyInv, OpeningHasAsked
  <2> QED BY <2>1, AskingKeeps
       DEF KeyInv, KeyTypes, OpeningHasAsked, NoneWasGiven, Key!Rotating
<1>2. CASE Key!Retry
  <2>1. /\ open /\ Key!RequestKey
        /\ UNCHANGED <<keys, row, open, key, asked, confirming, rotation>>
    BY <1>2 DEF Key!Retry
  <2> QED BY <2>1, AskingKeeps
       DEF KeyInv, KeyTypes, OpeningHasAsked, NoneWasGiven, Key!Rotating
<1>3. CASE Key!Close
  <2>1. /\ ~Key!Rotating /\ open' = FALSE /\ asked' = FALSE /\ confirming' = FALSE
        /\ key' = Key!NoKey /\ current' = 0
        /\ UNCHANGED <<keys, row, reads, rotation>>
    BY <1>3 DEF Key!Close, Key!MayClose, Key!Forgotten
  <2>2. current' \in 0..Len(reads) /\ key' \in KeysOrNone
    BY <2>1, LenProperties DEF KeyInv, KeyTypes, KeysOrNone
  <2> QED BY <2>1, <2>2
       DEF KeyInv, KeyTypes, OpeningHasAsked, NoneWasGiven, Key!Rotating
<1> QED BY <1>1, <1>2, <1>3

LEMMA RotationKeeps ==
  KeyInv /\ (\/ Key!AskRotation \/ Key!DropRotation \/ Key!Rotate
             \/ Key!KeyRotated \/ Key!RotationRefused \/ Key!RotationArrived
             \/ \E p \in Paks : Key!RotatedElsewhere(p)) => KeyInv'
<1> SUFFICES ASSUME KeyInv
             PROVE  (\/ Key!AskRotation \/ Key!DropRotation \/ Key!Rotate
                     \/ Key!KeyRotated \/ Key!RotationRefused \/ Key!RotationArrived
                     \/ \E p \in Paks : Key!RotatedElsewhere(p)) => KeyInv'
  OBVIOUS
<1>1. ASSUME NEW p \in Paks, Key!NewKey(p)
      PROVE  keys' \in [Paks -> 0..MaxRotations] /\ keys[p] + 1 \in 0..MaxRotations
  BY <1>1, RotationsAssumption DEF Key!NewKey, Key!KeysAssumption, KeyInv, KeyTypes
<1>2. CASE Key!AskRotation \/ Key!DropRotation
  <2>1. /\ confirming' \in BOOLEAN
        /\ UNCHANGED <<keys, row, open, key, asked, reads, current, rotation>>
    BY <1>2 DEF Key!AskRotation, Key!DropRotation
  <2> QED BY <2>1 DEF KeyInv, KeyTypes, OpeningHasAsked, NoneWasGiven, Key!Rotating
<1>3. CASE Key!Rotate
  <2>1. /\ open /\ rotation' = [Key!IdleRotation EXCEPT !.step = "sent", !.pak = row]
        /\ UNCHANGED <<keys, row, open, key, asked, reads, current, confirming>>
    BY <1>3 DEF Key!Rotate
  <2>2. row \in Paks /\ Key!NoKey \in KeysOrNone
    BY KeyRecords DEF KeyInv, KeyTypes
  <2>3. rotation' = [step |-> "sent", pak |-> row, key |-> Key!NoKey]
    BY <2>1 DEF Key!IdleRotation
  <2>4. rotation' \in [step : {"idle", "sent", "answered"}, pak : Paks, key : KeysOrNone]
    BY <2>2, <2>3
  <2> QED BY <2>1, <2>4 DEF KeyInv, KeyTypes, OpeningHasAsked, NoneWasGiven, Key!Rotating
<1>4. CASE Key!KeyRotated \/ Key!RotationRefused
  <2>1. /\ rotation.step = "sent" /\ rotation.pak \in Paks
        /\ UNCHANGED <<row, open, key, asked, reads, current, confirming>>
        /\ keys' = keys \/ Key!NewKey(rotation.pak)
    BY <1>4 DEF Key!KeyRotated, Key!RotationRefused, KeyInv, KeyTypes
  <2>2. \E answer \in KeysOrNone : rotation' = [rotation EXCEPT !.step = "answered", !.key = answer]
    <3>1. CASE Key!KeyRotated
      <4>1. /\ [pak |-> rotation.pak, number |-> keys[rotation.pak] + 1] \in KeysOrNone
            /\ Key!NoKey \in KeysOrNone
        BY <1>1, <2>1, <3>1, KeyRecords DEF Key!KeyRotated
      <4> QED BY <3>1, <4>1 DEF Key!KeyRotated
    <3>2. CASE Key!RotationRefused
      BY <3>2 DEF Key!RotationRefused, KeyInv, KeyTypes
    <3> QED BY <1>4, <3>1, <3>2
  <2>3. /\ rotation' \in [step : {"idle", "sent", "answered"}, pak : Paks, key : KeysOrNone]
        /\ keys' \in [Paks -> 0..MaxRotations]
    BY <1>1, <2>1, <2>2 DEF KeyInv, KeyTypes
  <2> QED BY <2>1, <2>3 DEF KeyInv, KeyTypes, OpeningHasAsked, NoneWasGiven, Key!Rotating
<1>5. CASE Key!RotationArrived
  <2>1. /\ rotation' = Key!IdleRotation
        /\ key' = key \/ (key' = rotation.key /\ key' # Key!NoKey)
        /\ confirming' = FALSE \/ confirming' = confirming
        /\ UNCHANGED <<keys, row, open, asked, reads, current>>
    BY <1>5 DEF Key!RotationArrived
  <2>2. /\ rotation' \in [step : {"idle", "sent", "answered"}, pak : Paks, key : KeysOrNone]
        /\ rotation'.step = "idle"
    BY <2>1, KeyRecords DEF KeyInv, KeyTypes
  <2> QED BY <2>1, <2>2 DEF KeyInv, KeyTypes, OpeningHasAsked, NoneWasGiven, Key!Rotating
<1>6. CASE \E p \in Paks : Key!RotatedElsewhere(p)
  <2>1. /\ keys' \in [Paks -> 0..MaxRotations]
        /\ UNCHANGED <<row, open, key, asked, reads, current, confirming, rotation>>
    BY <1>1, <1>6 DEF Key!RotatedElsewhere
  <2> QED BY <2>1 DEF KeyInv, KeyTypes, OpeningHasAsked, NoneWasGiven, Key!Rotating
<1> QED BY <1>2, <1>3, <1>4, <1>5, <1>6

(* An answer changes one request under way, and never takes a key away.    *)
LEMMA ReadKeeps ==
  ASSUME KeyInv, NEW i \in 1..Len(reads), Key!KeyRead(i) \/ Key!KeyArrived(i)
  PROVE  KeyInv'
<1>1. PICK read \in Reads :
        /\ reads' = [reads EXCEPT ![i] = read]
        /\ read.step = "over" => read.key = reads[i].key
        /\ read.step = "over" => key' = IF reads[i].key # Key!NoKey THEN reads[i].key ELSE key
        /\ read.step # "over" => key' = key
  <2>1. reads[i] \in Reads
    BY ElementOfSeq DEF KeyInv, KeyTypes
  <2>2. CASE Key!KeyRead(i)
    <3>1. Key!KeyOf(reads[i].pak) \in KeysOrNone /\ Key!NoKey \in KeysOrNone
      BY <2>1, KeyRecords DEF Key!KeyOf, Reads, KeyInv, KeyTypes
    <3>2. PICK answer \in KeysOrNone :
            reads' = [reads EXCEPT ![i].step = "answered", ![i].key = answer]
      BY <2>2, <3>1 DEF Key!KeyRead
    <3>3. reads' = [reads EXCEPT ![i] = [reads[i] EXCEPT !.step = "answered", !.key = answer]]
      BY <3>2
    <3>4. [reads[i] EXCEPT !.step = "answered", !.key = answer] \in Reads
      BY <2>1 DEF Reads
    <3> QED BY <2>1, <2>2, <3>3, <3>4 DEF Key!KeyRead, Reads
  <2>3. CASE Key!KeyArrived(i)
    <3>1. reads' = [reads EXCEPT ![i] = [reads[i] EXCEPT !.step = "over"]]
      BY <2>3 DEF Key!KeyArrived
    <3>2. [reads[i] EXCEPT !.step = "over"] \in Reads
      BY <2>1 DEF Reads
    <3> QED BY <2>1, <2>3, <3>1, <3>2 DEF Key!KeyArrived, Reads
  <2> QED BY <2>2, <2>3
<1>2. /\ reads' \in Seq(Reads) /\ Len(reads') = Len(reads)
      /\ \A j \in 1..Len(reads) : reads'[j] = IF j = i THEN read ELSE reads[j]
  BY <1>1, ExceptSeq DEF KeyInv, KeyTypes
<1>3. UNCHANGED <<keys, row, open, asked, current, confirming, rotation>>
  BY DEF Key!KeyRead, Key!KeyArrived
<1>4. key' \in KeysOrNone
  BY <1>1, ElementOfSeq DEF KeyInv, KeyTypes, Reads
<1>5. NoneWasGiven'
  <2> SUFFICES ASSUME open, key' = Key!NoKey, reads'[current].step = "over"
               PROVE  reads'[current].key = Key!NoKey
    BY <1>3 DEF NoneWasGiven
  <2>1. current \in 1..Len(reads)
    BY LenProperties DEF KeyInv, KeyTypes, OpeningHasAsked
  <2>2. CASE current = i
    BY <1>1, <1>2, <2>1, <2>2
  <2>3. CASE current # i
    BY <1>1, <1>2, <2>1, <2>3 DEF KeyInv, NoneWasGiven
  <2> QED BY <2>2, <2>3
<1> QED BY <1>2, <1>3, <1>4, <1>5 DEF KeyInv, KeyTypes, OpeningHasAsked, Key!Rotating

LEMMA RowKeeps == KeyInv /\ ((\E p \in Paks : Key!RowShows(p)) \/ Key!RowGone) => KeyInv'
<1> SUFFICES ASSUME KeyInv PROVE (\E p \in Paks : Key!RowShows(p)) \/ Key!RowGone => KeyInv'
  OBVIOUS
<1>1. CASE \E p \in Paks : Key!RowShows(p)
  <2>1. /\ row' \in Paks
        /\ UNCHANGED <<keys, open, key, asked, reads, current, confirming, rotation>>
    BY <1>1 DEF Key!RowShows
  <2> QED BY <2>1 DEF KeyInv, KeyTypes, OpeningHasAsked, NoneWasGiven, Key!Rotating
<1>2. CASE Key!RowGone
  <2>1. /\ row' \in Paks /\ open' = FALSE /\ asked' = FALSE /\ confirming' = FALSE
        /\ key' = Key!NoKey /\ current' = 0 /\ reads' = <<>> /\ rotation' = Key!IdleRotation
        /\ keys' = keys \/ Key!NewKey(rotation.pak)
    BY <1>2 DEF Key!RowGone, Key!Forgotten
  <2>2. keys' \in [Paks -> 0..MaxRotations]
    BY <2>1, RotationsAssumption DEF Key!NewKey, Key!KeysAssumption, KeyInv, KeyTypes
  <2>3. reads' \in Seq(Reads) /\ current' \in 0..Len(reads') /\ key' \in KeysOrNone
    BY <2>1, EmptySeq DEF KeysOrNone
  <2>4. /\ rotation' \in [step : {"idle", "sent", "answered"}, pak : Paks, key : KeysOrNone]
        /\ rotation'.step = "idle"
    BY <2>1, KeyRecords
  <2> QED BY <2>1, <2>2, <2>3, <2>4
       DEF KeyInv, KeyTypes, OpeningHasAsked, NoneWasGiven, Key!Rotating
<1> QED BY <1>1, <1>2

LEMMA KeyStep == KeyInv /\ [Key!Next]_keyVars => KeyInv'
BY KeyStutter, OpeningKeeps, RotationKeeps, ReadKeeps, RowKeeps DEF Key!Next

(* A key in the dialog, or on its way to it, was once that of its PAK; keys *)
(* are only ever replaced by later ones.                                   *)
WasCurrent(k) == k # Key!NoKey => k.number <= keys[k.pak]
KeysWere ==
  /\ WasCurrent(key) /\ WasCurrent(rotation.key)
  /\ \A i \in 1..Len(reads) : WasCurrent(reads[i].key)
  /\ confirming => open

LEMMA OldKeysRemain ==
  ASSUME KeyInv, KeyInv', NEW k \in KeysOrNone, WasCurrent(k),
         keys' = keys \/ \E p \in Paks : Key!NewKey(p)
  PROVE  k # Key!NoKey => k.number <= keys'[k.pak]
<1>1. keys \in [Paks -> Nat] /\ keys' \in [Paks -> Nat]
  BY RotationsAssumption DEF KeyInv, KeyTypes, Key!KeysAssumption
<1>2. ASSUME k # Key!NoKey
      PROVE  k.pak \in Paks /\ k.number \in Nat /\ k.number <= keys[k.pak]
  BY <1>2, RotationsAssumption DEF KeysOrNone, Key!Keys, WasCurrent, Key!KeysAssumption
<1>3. \A p \in Paks : keys[p] <= keys'[p]
  BY <1>1 DEF Key!NewKey
<1> QED BY <1>1, <1>2, <1>3

LEMMA KeysWereInit == Key!Init => KeysWere
<1> SUFFICES ASSUME Key!Init PROVE KeysWere
  OBVIOUS
<1>1. reads = <<>> /\ key = Key!NoKey /\ rotation.key = Key!NoKey /\ confirming = FALSE
  BY DEF Key!Init, Key!IdleRotation
<1>2. Len(reads) = 0
  BY <1>1, EmptySeq
<1> QED BY <1>1, <1>2 DEF KeysWere, WasCurrent

LEMMA KeysWereStep == KeyInv /\ KeyInv' /\ KeysWere /\ [Key!Next]_keyVars => KeysWere'
<1> SUFFICES ASSUME KeyInv, KeyInv', KeysWere, [Key!Next]_keyVars PROVE KeysWere'
  OBVIOUS
<1> DEFINE Known(k) == k # Key!NoKey => k.number <= keys'[k.pak]
<1>0. /\ key \in KeysOrNone /\ rotation.key \in KeysOrNone
      /\ reads \in Seq(Reads) /\ Len(reads) \in Nat
      /\ \A i \in 1..Len(reads) : reads[i] \in Reads /\ reads[i].key \in KeysOrNone
  <2>1. /\ key \in KeysOrNone /\ rotation.key \in KeysOrNone
        /\ reads \in Seq(Reads) /\ Len(reads) \in Nat
    BY LenProperties DEF KeyInv, KeyTypes
  <2>2. \A i \in 1..Len(reads) : reads[i] \in Reads
    BY <2>1, ElementOfSeq
  <2> QED BY <2>1, <2>2 DEF Reads
<1>1. ASSUME keys' = keys \/ \E p \in Paks : Key!NewKey(p)
      PROVE  /\ Known(key) /\ Known(rotation.key)
             /\ \A i \in 1..Len(reads) : Known(reads[i].key)
  BY <1>0, <1>1, OldKeysRemain DEF KeysWere
<1>2. Known(Key!NoKey)
  OBVIOUS
<1>3. CASE UNCHANGED keyVars
  BY <1>3 DEF keyVars, KeysWere, WasCurrent
<1>4. CASE Key!Open \/ Key!Retry
  <2>1. /\ UNCHANGED <<keys, key, confirming, rotation>> /\ open'
        /\ UNCHANGED reads \/ Key!RequestKey
    BY <1>4 DEF Key!Open, Key!Retry
  <2>2. \A i \in 1..Len(reads') : Known(reads'[i].key)
    <3>1. CASE UNCHANGED reads
      BY <1>1, <2>1, <3>1
    <3>2. CASE Key!RequestKey
      <4> DEFINE read == [step |-> "sent", pak |-> row, key |-> Key!NoKey]
      <4>1. reads' = Append(reads, read) /\ read.key = Key!NoKey
        BY <3>2 DEF Key!RequestKey
      <4>2. read \in Reads
        BY DEF KeyInv, KeyTypes, Reads, KeysOrNone
      <4> HIDE DEF read
      <4>3. /\ Len(Append(reads, read)) = Len(reads) + 1
            /\ Append(reads, read)[Len(reads) + 1] = read
            /\ \A i \in 1..Len(reads) : Append(reads, read)[i] = reads[i]
        BY <1>0, <4>2, AppendProperties
      <4>4. \A i \in 1..Len(reads') : i \in 1..Len(reads) \/ i = Len(reads) + 1
        BY <1>0, <4>1, <4>3
      <4> QED BY <1>1, <1>2, <2>1, <4>1, <4>3, <4>4
    <3> QED BY <2>1, <3>1, <3>2
  <2> QED BY <1>1, <2>1, <2>2 DEF KeysWere, WasCurrent
<1>5. CASE Key!Close \/ Key!AskRotation \/ Key!DropRotation
  <2>1. /\ UNCHANGED <<keys, reads, rotation>> /\ key' \in {key, Key!NoKey}
        /\ confirming' => open'
    BY <1>5 DEF Key!Close, Key!Forgotten, Key!AskRotation, Key!DropRotation
  <2> QED BY <1>1, <1>2, <2>1 DEF KeysWere, WasCurrent
<1>6. CASE Key!Rotate \/ Key!RotationRefused
  <2>1. /\ UNCHANGED <<keys, open, key, reads, confirming>>
        /\ rotation'.key \in {rotation.key, Key!NoKey}
    BY <1>6 DEF Key!Rotate, Key!RotationRefused, Key!IdleRotation, KeyInv, KeyTypes
  <2> QED BY <1>1, <1>2, <2>1 DEF KeysWere, WasCurrent
<1>7. CASE Key!KeyRotated
  <2> DEFINE p == rotation.pak
  <2>1. /\ p \in Paks /\ Key!NewKey(p) /\ UNCHANGED <<open, key, reads, confirming>>
        /\ \/ rotation'.key = Key!NoKey
           \/ rotation'.key = [pak |-> p, number |-> keys[p] + 1]
    BY <1>7 DEF Key!KeyRotated, KeyInv, KeyTypes
  <2>2. keys'[p] = keys[p] + 1 /\ keys'[p] \in Nat
    BY <2>1, RotationsAssumption DEF Key!NewKey, KeyInv, KeyTypes, Key!KeysAssumption
  <2>3. Known(rotation'.key)
    BY <1>2, <2>1, <2>2
  <2> QED BY <1>1, <2>1, <2>3 DEF KeysWere, WasCurrent
<1>8. CASE Key!RotationArrived
  <2>1. /\ UNCHANGED <<keys, open, reads>> /\ rotation'.key = Key!NoKey
        /\ key' \in {key, rotation.key} /\ (confirming' => confirming)
    BY <1>8 DEF Key!RotationArrived, Key!IdleRotation
  <2> QED BY <1>1, <1>2, <2>1 DEF KeysWere, WasCurrent
<1>9. ASSUME NEW i \in 1..Len(reads), Key!KeyRead(i)
      PROVE  KeysWere'
  <2>1. PICK answer \in {Key!KeyOf(reads[i].pak), Key!NoKey} :
          reads' = [reads EXCEPT ![i] = [reads[i] EXCEPT !.step = "answered", !.key = answer]]
    BY <1>9 DEF Key!KeyRead
  <2>2. [reads[i] EXCEPT !.step = "answered", !.key = answer] \in Reads
    <3>1. reads[i] \in Reads
      BY <1>0
    <3>2. reads[i].pak \in Paks /\ Key!NoKey \in KeysOrNone
      BY <3>1, KeyRecords DEF Reads
    <3>3. Key!KeyOf(reads[i].pak) \in KeysOrNone
      BY <3>2, KeyRecords DEF Key!KeyOf, KeyInv, KeyTypes
    <3>4. answer \in KeysOrNone
      BY <3>2, <3>3
    <3> QED BY <3>1, <3>4 DEF Reads
  <2>3. /\ Len(reads') = Len(reads)
        /\ \A j \in 1..Len(reads) :
             reads'[j] = IF j = i THEN [reads[i] EXCEPT !.step = "answered", !.key = answer]
                         ELSE reads[j]
    BY <1>0, <2>1, <2>2, ExceptSeq
  <2>4. UNCHANGED <<keys, row, open, key, asked, current, confirming, rotation>>
    BY <1>9 DEF Key!KeyRead
  <2>5. Known(answer)
    <3>0. reads[i] \in Reads
      BY <1>0
    <3>1. reads[i].pak \in Paks /\ keys \in [Paks -> Nat]
      <4>1. reads[i].pak \in Paks
        BY <3>0 DEF Reads
      <4> QED BY <4>1, RotationsAssumption DEF KeyInv, KeyTypes, Key!KeysAssumption
    <3> QED BY <1>2, <2>4, <3>1 DEF Key!KeyOf
  <2>6. \A j \in 1..Len(reads) : Known(reads'[j].key)
    BY <1>0, <1>1, <2>3, <2>4, <2>5 DEF Reads
  <2> QED BY <1>1, <2>3, <2>4, <2>6 DEF KeysWere, WasCurrent
<1>10. ASSUME NEW i \in 1..Len(reads), Key!KeyArrived(i)
       PROVE  KeysWere'
  <2>1. reads' = [reads EXCEPT ![i] = [reads[i] EXCEPT !.step = "over"]]
    BY <1>10 DEF Key!KeyArrived
  <2>2. [reads[i] EXCEPT !.step = "over"] \in Reads
    BY <1>0 DEF Reads
  <2>3. /\ Len(reads') = Len(reads)
        /\ \A j \in 1..Len(reads) :
             reads'[j] = IF j = i THEN [reads[i] EXCEPT !.step = "over"] ELSE reads[j]
    BY <1>0, <2>1, <2>2, ExceptSeq
  <2>4. /\ UNCHANGED <<keys, row, open, asked, current, confirming, rotation>>
        /\ key' \in {key, reads[i].key}
    BY <1>10 DEF Key!KeyArrived
  <2>5. \A j \in 1..Len(reads) : reads'[j].key = reads[j].key
    BY <1>0, <2>3 DEF Reads
  <2> QED BY <1>1, <2>3, <2>4, <2>5 DEF KeysWere, WasCurrent
<1>11. CASE (\E p \in Paks : Key!RowShows(p) \/ Key!RotatedElsewhere(p))
  <2>1. /\ UNCHANGED <<open, key, reads, confirming, rotation>>
        /\ keys' = keys \/ \E p \in Paks : Key!NewKey(p)
    BY <1>11 DEF Key!RowShows, Key!RotatedElsewhere
  <2> QED BY <1>1, <2>1 DEF KeysWere, WasCurrent
<1>12. CASE Key!RowGone
  <2>1. reads' = <<>> /\ key' = Key!NoKey /\ rotation'.key = Key!NoKey /\ confirming' = FALSE
    BY <1>12 DEF Key!RowGone, Key!Forgotten, Key!IdleRotation
  <2>2. Len(reads') = 0
    BY <2>1, EmptySeq
  <2> QED BY <2>1, <2>2 DEF KeysWere, WasCurrent
<1> QED BY <1>3, <1>4, <1>5, <1>6, <1>7, <1>8, <1>9, <1>10, <1>11, <1>12 DEF Key!Next

(* What the history of the openings and rotations says of the keys: those  *)
(* answered since are recent, and what else may come was under way at the  *)
(* closing, or answered before the rotation.                               *)
Recent(k) == k # Key!NoKey => k.number >= least[k.pak]
BroughtLate(k) == \E i \in late : reads[i].step = "over" /\ reads[i].key = k

KeysAreRecent ==
  /\ least \in [Paks -> Nat]
  /\ \A p \in Paks : least[p] <= keys[p]
  /\ late \subseteq 1..Len(reads)
  /\ ~open => \A i \in 1..Len(reads) : reads[i].step # "over" => i \in late
  /\ \A i \in 1..Len(reads) : reads[i].step = "answered" /\ i \notin late => Recent(reads[i].key)
  /\ key # Key!NoKey => (open /\ Recent(key)) \/ BroughtLate(key)

LEMMA RecentInit == Key!Init => KeysAreRecent
<1> SUFFICES ASSUME Key!Init PROVE KeysAreRecent
  OBVIOUS
<1>1. /\ reads = <<>> /\ key = Key!NoKey /\ late = {}
      /\ keys = [p \in Paks |-> 0] /\ least = [p \in Paks |-> 0]
  BY DEF Key!Init
<1>2. Len(reads) = 0
  BY <1>1, EmptySeq
<1> QED BY <1>1, <1>2 DEF KeysAreRecent

(* Steps that touch neither the requests for a key nor the history.        *)
LEMMA RecentBesides ==
  ASSUME KeyInv, KeysAreRecent, UNCHANGED <<open, key, reads, least, late>>,
         keys' = keys \/ \E p \in Paks : Key!NewKey(p)
  PROVE  KeysAreRecent'
<1>1. keys \in [Paks -> Nat]
  BY RotationsAssumption DEF KeyInv, KeyTypes, Key!KeysAssumption
<1>2. \A p \in Paks : keys'[p] >= keys[p] /\ keys'[p] \in Nat
  BY <1>1 DEF Key!NewKey
<1>3. \A p \in Paks : least[p] <= keys'[p]
  BY <1>1, <1>2 DEF KeysAreRecent
<1> QED BY <1>3 DEF KeysAreRecent, Recent, BroughtLate

(* A request is added: what was asked for before is where it was.          *)
LEMMA AppendedRead ==
  ASSUME KeyInv, Key!RequestKey
  PROVE  /\ Len(reads) \in Nat /\ Len(reads') = Len(reads) + 1
         /\ \A i \in 1..Len(reads) : reads'[i] = reads[i]
         /\ reads'[Len(reads) + 1].step = "sent"
<1> DEFINE read == [step |-> "sent", pak |-> row, key |-> Key!NoKey]
<1>1. reads' = Append(reads, read) /\ read.step = "sent"
  BY DEF Key!RequestKey
<1>2. read \in Reads
  BY DEF KeyInv, KeyTypes, Reads, KeysOrNone
<1>3. reads \in Seq(Reads) /\ Len(reads) \in Nat
  BY LenProperties DEF KeyInv, KeyTypes
<1> HIDE DEF read
<1> QED BY <1>1, <1>2, <1>3, AppendProperties

LEMMA RecentOpening ==
  ASSUME KeyInv, KeysAreRecent, Key!Open \/ Key!Retry
  PROVE  KeysAreRecent'
<1>1. keys \in [Paks -> Nat]
  BY RotationsAssumption DEF KeyInv, KeyTypes, Key!KeysAssumption
<1>2. Key!RequestKey /\ open' /\ UNCHANGED <<keys, key>>
  BY DEF Key!Open, Key!Retry, KeyInv, OpeningHasAsked
<1>3. /\ Len(reads) \in Nat /\ Len(reads') = Len(reads) + 1
      /\ \A i \in 1..Len(reads) : reads'[i] = reads[i]
      /\ reads'[Len(reads) + 1].step = "sent"
  BY <1>2, AppendedRead
<1>4. \A i \in 1..Len(reads') : i \in 1..Len(reads) \/ i = Len(reads) + 1
  BY <1>3
<1>5. late \subseteq 1..Len(reads) /\ 1..Len(reads) \subseteq 1..Len(reads')
  BY <1>3 DEF KeysAreRecent
<1>6. CASE Key!Open
  <2>1. ~open /\ least' = keys /\ late' = {i \in late : reads[i].step # "sent"}
    BY <1>6 DEF Key!Open
  <2>2. least' \in [Paks -> Nat] /\ \A p \in Paks : least'[p] <= keys'[p]
    BY <1>1, <1>2, <2>1
  <2>3. late' \subseteq 1..Len(reads')
    BY <1>5, <2>1
  <2>4. ASSUME NEW i \in 1..Len(reads'), reads'[i].step = "answered"
        PROVE  i \in late'
    <3>1. i \in 1..Len(reads) /\ reads[i].step = "answered"
      BY <1>3, <1>4, <2>4
    <3> QED BY <2>1, <3>1 DEF KeysAreRecent
  <2>5. key # Key!NoKey => BroughtLate(key)'
    BY <1>2, <1>3, <1>5, <2>1 DEF KeysAreRecent, BroughtLate
  <2> QED BY <1>2, <2>2, <2>3, <2>4, <2>5 DEF KeysAreRecent
<1>7. CASE Key!Retry
  <2>1. open /\ key = Key!NoKey /\ UNCHANGED <<least, late>>
    BY <1>7 DEF Key!Retry, Key!history
  <2>2. ASSUME NEW i \in 1..Len(reads'), reads'[i].step = "answered", i \notin late'
        PROVE  Recent(reads[i].key) /\ reads'[i] = reads[i]
    BY <1>3, <1>4, <2>1, <2>2 DEF KeysAreRecent
  <2> QED BY <1>2, <1>5, <2>1, <2>2 DEF KeysAreRecent, Recent
<1> QED BY <1>6, <1>7

(* A closing leaves under way what may come late, and forgets the key.     *)
LEMMA RecentClosing ==
  ASSUME KeyInv, KeysAreRecent, Key!Close \/ Key!RowGone
  PROVE  KeysAreRecent'
<1>1. keys \in [Paks -> Nat]
  BY RotationsAssumption DEF KeyInv, KeyTypes, Key!KeysAssumption
<1>2. CASE Key!Close
  <2>1. /\ key' = Key!NoKey /\ UNCHANGED <<keys, reads, least>>
        /\ late' = {i \in 1..Len(reads) : reads[i].step # "over"}
    BY <1>2 DEF Key!Close, Key!Forgotten
  <2>2. \A i \in 1..Len(reads') : reads'[i].step # "over" => i \in late'
    BY <2>1
  <2> QED BY <2>1, <2>2 DEF KeysAreRecent
<1>3. CASE Key!RowGone
  <2>1. /\ key' = Key!NoKey /\ reads' = <<>> /\ late' = {} /\ UNCHANGED least
        /\ keys' = keys \/ Key!NewKey(rotation.pak)
    BY <1>3 DEF Key!RowGone, Key!Forgotten
  <2>2. \A p \in Paks : keys'[p] >= keys[p] /\ keys'[p] \in Nat
    BY <1>1, <2>1 DEF Key!NewKey
  <2>3. \A p \in Paks : least'[p] <= keys'[p]
    BY <1>1, <2>1, <2>2 DEF KeysAreRecent
  <2>4. Len(reads') = 0
    BY <2>1, EmptySeq
  <2> QED BY <2>1, <2>3, <2>4 DEF KeysAreRecent
<1> QED BY <1>2, <1>3

(* A rotation's key becomes the least; what was answered before it is late.*)
LEMMA RecentRotation ==
  ASSUME KeyInv, KeysWere, KeysAreRecent, Key!RotationArrived
  PROVE  KeysAreRecent'
<1>1. /\ keys \in [Paks -> Nat] /\ rotation.key \in KeysOrNone /\ open /\ UNCHANGED <<keys, open, reads>>
  BY RotationsAssumption
     DEF KeyInv, KeyTypes, Key!KeysAssumption, OpeningHasAsked, Key!RotationArrived, Key!Rotating
<1>2. CASE rotation.key = Key!NoKey
  <2>1. UNCHANGED <<key, least, late>>
    BY <1>2 DEF Key!RotationArrived, Key!history
  <2> QED BY <1>1, <2>1, RecentBesides
<1>3. CASE rotation.key # Key!NoKey
  <2>1. /\ key' = rotation.key
        /\ least' = [least EXCEPT ![rotation.key.pak] = rotation.key.number]
        /\ late' = {i \in 1..Len(reads) : reads[i].step = "answered"}
    BY <1>3 DEF Key!RotationArrived
  <2>2. /\ rotation.key.pak \in Paks /\ rotation.key.number \in Nat
        /\ rotation.key.number <= keys[rotation.key.pak]
    BY <1>1, <1>3, RotationsAssumption
       DEF KeysOrNone, Key!Keys, Key!KeysAssumption, KeysWere, WasCurrent
  <2>3. /\ least' \in [Paks -> Nat] /\ least'[rotation.key.pak] = rotation.key.number
        /\ \A p \in Paks : least'[p] <= keys[p]
    BY <2>1, <2>2 DEF KeysAreRecent
  <2>4. \A i \in 1..Len(reads') : reads'[i].step = "answered" => i \in late'
    BY <1>1, <2>1
  <2>5. Recent(key)'
    BY <2>1, <2>2, <2>3 DEF Recent
  <2> QED BY <1>1, <2>1, <2>3, <2>4, <2>5 DEF KeysAreRecent
<1> QED BY <1>2, <1>3

(* An answer is given: of the key there is now, so a recent one.           *)
LEMMA RecentAnswer ==
  ASSUME KeyInv, KeysAreRecent, NEW i \in 1..Len(reads), Key!KeyRead(i)
  PROVE  KeysAreRecent'
<1>1. PICK answer \in {Key!KeyOf(reads[i].pak), Key!NoKey} :
        reads' = [reads EXCEPT ![i] = [reads[i] EXCEPT !.step = "answered", !.key = answer]]
  BY DEF Key!KeyRead
<1>2. /\ reads[i] \in Reads /\ reads[i].step = "sent" /\ keys \in [Paks -> Nat]
      /\ UNCHANGED <<keys, open, key, least, late>>
  <2>1. reads[i] \in Reads
    BY ElementOfSeq DEF KeyInv, KeyTypes
  <2> QED BY <2>1, RotationsAssumption
       DEF KeyInv, KeyTypes, Key!KeysAssumption, Key!KeyRead, Key!history
<1>3. reads[i].pak \in Paks /\ Key!NoKey \in KeysOrNone
  BY <1>2, KeyRecords DEF Reads
<1>4. answer \in KeysOrNone
  BY <1>3, KeyRecords DEF Key!KeyOf, KeyInv, KeyTypes
<1>5. [reads[i] EXCEPT !.step = "answered", !.key = answer] \in Reads
  BY <1>2, <1>4 DEF Reads
<1> PICK read \in Reads :
      reads' = [reads EXCEPT ![i] = read] /\ read.step = "answered" /\ read.key = answer
  BY <1>1, <1>2, <1>5 DEF Reads
<1>6. /\ Len(reads') = Len(reads)
      /\ \A j \in 1..Len(reads) : j # i => reads'[j] = reads[j]
      /\ reads'[i] = read
  BY ExceptSeq DEF KeyInv, KeyTypes
<1>7. reads'[i].step = "answered" /\ reads'[i].key = answer
  BY <1>6
<1>8. Recent(answer)'
  <2>1. CASE answer = Key!NoKey
    BY <2>1 DEF Recent
  <2>2. CASE answer = Key!KeyOf(reads[i].pak)
    <3>1. answer.pak = reads[i].pak /\ answer.number = keys[reads[i].pak]
      BY <2>2 DEF Key!KeyOf
    <3> QED BY <1>2, <1>3, <3>1 DEF Recent, KeysAreRecent
  <2> QED BY <2>1, <2>2
<1>9. \A j \in 1..Len(reads') : reads'[j].step = "answered" /\ j \notin late' => Recent(reads[j].key)'
  BY <1>2, <1>6, <1>7, <1>8 DEF KeysAreRecent, Recent
<1>10. BroughtLate(key) => BroughtLate(key)'
  BY <1>2, <1>6 DEF BroughtLate, KeysAreRecent
<1>11. ~open => \A j \in 1..Len(reads') : reads'[j].step # "over" => j \in late'
  BY <1>2, <1>6, <1>7 DEF KeysAreRecent
<1>12. Recent(key) => Recent(key)'
  BY <1>2 DEF Recent
<1> QED BY <1>2, <1>6, <1>9, <1>10, <1>11, <1>12 DEF KeysAreRecent

(* An answer comes: a recent one, or one of those that may come late.      *)
LEMMA RecentArrival ==
  ASSUME KeyInv, KeysAreRecent, NEW i \in 1..Len(reads), Key!KeyArrived(i)
  PROVE  KeysAreRecent'
<1>1. /\ reads[i].step = "answered"
      /\ reads' = [reads EXCEPT ![i] = [reads[i] EXCEPT !.step = "over"]]
      /\ key' = IF reads[i].key # Key!NoKey THEN reads[i].key ELSE key
      /\ UNCHANGED <<keys, open, least, late>>
  BY DEF Key!KeyArrived, Key!history
<1>2. reads[i] \in Reads
  BY ElementOfSeq DEF KeyInv, KeyTypes
<1>3. [reads[i] EXCEPT !.step = "over"] \in Reads
  BY <1>2 DEF Reads
<1>4. /\ Len(reads') = Len(reads)
      /\ \A j \in 1..Len(reads) : j # i => reads'[j] = reads[j]
      /\ reads'[i] = [reads[i] EXCEPT !.step = "over"]
  BY <1>1, <1>3, ExceptSeq DEF KeyInv, KeyTypes
<1>5. reads'[i].step = "over" /\ reads'[i].key = reads[i].key
  BY <1>2, <1>4 DEF Reads
<1>6. \A j \in 1..Len(reads') : reads'[j].step = "answered" /\ j \notin late' => Recent(reads[j].key)'
  BY <1>1, <1>4, <1>5 DEF KeysAreRecent, Recent
<1>7. ~open => \A j \in 1..Len(reads') : reads'[j].step # "over" => j \in late'
  BY <1>1, <1>4, <1>5 DEF KeysAreRecent
<1>8. key' # Key!NoKey => (open /\ Recent(key)') \/ BroughtLate(key)'
  <2>1. CASE reads[i].key = Key!NoKey
    <3>1. BroughtLate(key) => BroughtLate(key)'
      BY <1>1, <1>4, <1>5, <2>1 DEF BroughtLate, KeysAreRecent
    <3>2. Recent(key) => Recent(key)'
      BY <1>1, <2>1 DEF Recent
    <3> QED BY <1>1, <2>1, <3>1, <3>2 DEF KeysAreRecent
  <2>2. CASE reads[i].key # Key!NoKey /\ i \in late
    BY <1>1, <1>5, <2>2 DEF BroughtLate
  <2>3. CASE reads[i].key # Key!NoKey /\ i \notin late
    BY <1>1, <2>3 DEF KeysAreRecent, Recent
  <2> QED BY <2>1, <2>2, <2>3
<1> QED BY <1>1, <1>4, <1>6, <1>7, <1>8 DEF KeysAreRecent

LEMMA RecentStep == KeyInv /\ KeysWere /\ KeysAreRecent /\ [Key!Next]_keyVars => KeysAreRecent'
<1> SUFFICES ASSUME KeyInv, KeysWere, KeysAreRecent, [Key!Next]_keyVars PROVE KeysAreRecent'
  OBVIOUS
<1>1. CASE UNCHANGED keyVars
  BY <1>1, RecentBesides DEF keyVars
<1>2. CASE Key!AskRotation \/ Key!DropRotation \/ Key!Rotate \/ Key!RotationRefused
  <2>1. UNCHANGED <<keys, open, key, reads, least, late>>
    BY <1>2 DEF Key!AskRotation, Key!DropRotation, Key!Rotate, Key!RotationRefused, Key!history
  <2> QED BY <2>1, RecentBesides
<1>3. CASE Key!KeyRotated
  <2>1. rotation.pak \in Paks
    BY DEF KeyInv, KeyTypes
  <2>2. Key!NewKey(rotation.pak) /\ UNCHANGED <<open, key, reads, least, late>>
    BY <1>3 DEF Key!KeyRotated, Key!history
  <2> QED BY <2>1, <2>2, RecentBesides
<1>4. CASE \E p \in Paks : Key!RowShows(p) \/ Key!RotatedElsewhere(p)
  <2>1. /\ UNCHANGED <<open, key, reads, least, late>>
        /\ keys' = keys \/ \E p \in Paks : Key!NewKey(p)
    BY <1>4 DEF Key!RowShows, Key!RotatedElsewhere, Key!history
  <2> QED BY <2>1, RecentBesides
<1> QED
  BY <1>1, <1>2, <1>3, <1>4, RecentOpening, RecentClosing, RecentRotation, RecentAnswer,
     RecentArrival DEF Key!Next

LEMMA KeyOfRow == MCSpec => Key!Init /\ [][Key!Next]_keyVars
<1>1. MCInit => Key!Init
  BY DEF MCInit
<1>2. [MCNext]_mcVars => [Key!Next]_keyVars
  BY DEF MCNext, mcVars
<1> QED BY <1>1, <1>2, PTL DEF MCSpec

(* The dialog holds no key but one the server has given its PAK, though it *)
(* may be an old one or that of the PAK the row showed before; and only an *)
(* open dialog asks for a confirmation.                                    *)
THEOREM KeyDialogIsTyped == MCSpec => []Key!TypeOK
<1>1. ASSUME KeyInv, KeysWere, KeysAreRecent
      PROVE  Key!TypeOK
  <2>1. keys \in [Paks -> 0..MaxRotations]
    BY <1>1 DEF KeyInv, KeyTypes
  <2>2. least \in [Paks -> 0..MaxRotations]
    <3>1. \A p \in Paks : keys[p] \in Nat /\ keys[p] <= MaxRotations /\ least[p] \in Nat /\ least[p] <= keys[p]
      BY <1>1, <2>1, RotationsAssumption DEF Key!KeysAssumption, KeysAreRecent
    <3>2. \A p \in Paks : least[p] \in 0..MaxRotations
      BY <3>1, RotationsAssumption DEF Key!KeysAssumption
    <3> QED BY <1>1, <3>2 DEF KeysAreRecent
  <2> QED
    BY <1>1, <2>1, <2>2
       DEF Key!TypeOK, KeyInv, KeyTypes, KeysOrNone, KeysWere, WasCurrent, KeysAreRecent
<1>2. KeyInv /\ KeysWere /\ KeysAreRecent => Key!TypeOK
  BY <1>1
<1>3. KeyInv /\ KeysWere /\ [Key!Next]_keyVars => (KeyInv /\ KeysWere)'
  BY KeyStep, KeysWereStep
<1> QED BY <1>2, <1>3, KeyInit, KeysWereInit, RecentInit, RecentStep, KeyOfRow, PTL

(* The person with the dialog of the key open is told what is so, though   *)
(* several answers are under way, dialogs are closed over them, keys are   *)
(* rotated and rows pass: a failure is one of this opening's own request,  *)
(* and a key is no older than the opening and the last rotation here       *)
(* unless one of the answers named in ShownIsRecent brought it             *)
(* (ViewPakAccessKey.tsx:31-96).                                           *)
THEOREM WhatIsToldIsSo == MCSpec => []KeyIsTold
<1>1. KeyInv => Key!FailureIsReal
  BY DEF KeyInv, KeyTypes, OpeningHasAsked, NoneWasGiven, Key!FailureIsReal, Key!KeyPending
<1>2. KeysAreRecent => Key!ShownIsRecent
  BY DEF KeysAreRecent, Recent, BroughtLate, Key!ShownIsRecent
<1>3. KeyInv /\ KeysAreRecent => KeyIsTold
  BY <1>1, <1>2 DEF KeyIsTold, Key!KeyIsTold
<1>4. KeyInv /\ KeysWere /\ [Key!Next]_keyVars => (KeyInv /\ KeysWere)'
  BY KeyStep, KeysWereStep
<1> QED
  BY <1>3, <1>4, KeyInit, KeysWereInit, RecentInit, RecentStep, KeyOfRow, PTL
=============================================================================
