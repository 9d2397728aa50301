--------------------------- MODULE RecordActions ---------------------------
(***************************************************************************)
(* The confirmation dialogs of the admin pages: a row's menu opens one, it *)
(* asks, and its button sends a single request.  What the dialog asks and  *)
(* sends is taken from the record at its place of the list at each         *)
(* rendering, so a list fetched again can change the question while the    *)
(* dialog stays open.  What a notice says of the answer is left out.       *)
(***************************************************************************)
EXTENDS TableQuery

CONSTANTS
  Dialogs,       \* the dialogs checked, a set of the records below
  Own            \* the records that are the person's own account

ASSUME ActionsAssumption ==
  /\ Own \subseteq Records

-----------------------------------------------------------------------------
(* The dialogs.  does: what it does; whenUsed: what becomes of it when the *)
(* server says the record is in use (a notice, a warning in place of the   *)
(* question, or a notice and the dialog closed); foresees: it warns by the *)
(* count of the page as well; users: its menu leaves out the own account.  *)

Confirmation(does, whenUsed) ==
  [does |-> does, whenUsed |-> whenUsed, foresees |-> FALSE, users |-> FALSE]
OfUsers(confirmation) == [confirmation EXCEPT !.users = TRUE]
Foreseeing(confirmation) == [confirmation EXCEPT !.foresees = TRUE]

StatusUser == OfUsers(Confirmation("status", "notice"))
StatusPak == Confirmation("status", "notice")

ArchiveStatusUser == OfUsers(Confirmation("archive", "notice"))
ArchiveStatusPak == Confirmation("archive", "notice")
ArchiveStatusBatch == Confirmation("archive", "notice")
ArchiveKgPrefix == Confirmation("archive", "notice")
ArchiveStatusKgVersion == Confirmation("archive", "notice")
ArchiveStatusProductionOrder == Confirmation("archive", "notice")
ArchiveStatusDefectGroup == Foreseeing(Confirmation("archive", "warning"))
ArchiveStatusDefectType == Confirmation("archive", "notice")

CompleteBatch == Confirmation("complete", "notice")

(* Its two fields hold no text of the record, and an opening clears them.  *)
ChangeUserPassword == OfUsers(Confirmation("password", "notice"))

DeleteUser == OfUsers(Confirmation("delete", "notice"))
DeletePak == Confirmation("delete", "notice")
DeleteBatch == Confirmation("delete", "warning")
DeleteKgPrefix == Confirmation("delete", "warning")
DeleteKgVersion == Confirmation("delete", "close")
DeleteProductionOrder == Confirmation("delete", "close")
DeleteDefectGroup == Foreseeing(Confirmation("delete", "warning"))
DeleteDefectType == Confirmation("delete", "notice")

(* What the dialog does to the record it shows.                            *)
Asks(d, values) ==
  CASE d.does = "status" -> IF values.active THEN "deactivate" ELSE "activate"
    [] d.does = "archive" -> IF values.archived THEN "restore" ELSE "archive"
    [] OTHER -> d.does

Leaving == {"archive", "restore", "delete"}

(* The menus: an archived record can be restored and deleted; a batch can  *)
(* be completed while it is in production.                                 *)
Offers(d, shown) ==
  /\ d.does \in {"status", "complete", "password"} => ~shown.row.values.archived
  /\ d.does = "complete" => shown.row.values.inProduction

(* UserActionsMenu renders nothing for the own account.                    *)
Rendered(d, shown) == d.users => shown.id \notin Own

-----------------------------------------------------------------------------
VARIABLES
  dialog,  \* the dialog of this behaviour
  place,   \* the place of the row it is open on, 0 when it is closed
  warned,  \* it shows that the record is in use
  done,    \* a request sent since it was opened has succeeded
  request  \* the mutation

dialogVars == <<dialog, place, warned, done, request>>
vars == <<tableVars, dialogVars>>

NoRecord == CHOOSE r \in Records : TRUE
Idle == [step |-> "idle", place |-> 0, op |-> "none", id |-> NoRecord,
         answer |-> "none", fetched |-> FALSE]

Shown == RowAt(place)
Visible == place # 0 /\ Rendered(dialog, Shown)
(* The request is the one of the open dialog.                              *)
Sending == place # 0 /\ request.place = place
(* Mutant: the buttons are locked until the answer, not until the list is  *)
(* refreshed.                                                              *)
PendingUntilAnswered == request.step \in {"sent", "answered"} /\ Sending

Pending == request.step # "idle" /\ Sending
Warns == warned \/ (dialog.foresees /\ Shown.row.values.used)

Init ==
  /\ TableInit
  /\ dialog \in Dialogs
  /\ place = 0
  /\ warned = FALSE
  /\ done = FALSE
  /\ request = Idle

-----------------------------------------------------------------------------
(* The person.                                                             *)

Open(i) ==
  /\ place = 0
  /\ OnPage(i)
  /\ Rendered(dialog, RowAt(i))
  /\ Offers(dialog, RowAt(i))
  /\ place' = i
  /\ UNCHANGED <<tableVars, dialog, warned, done, request>>

CloseDialog ==
  /\ place' = 0
  /\ warned' = FALSE
  /\ done' = FALSE

Cancel ==
  /\ Visible
  /\ ~Pending
  /\ CloseDialog
  /\ UNCHANGED <<tableVars, dialog, request>>

(* Bound: the request of a dialog whose row is gone is over first.         *)
Confirm ==
  /\ Visible
  /\ ~Pending
  /\ ~Warns
  /\ request.step # "idle" => request.place = place
  /\ request' = [Idle EXCEPT !.step = "sent", !.place = place,
                             !.op = Asks(dialog, Shown.row.values),
                             !.id = Shown.id]
  /\ UNCHANGED <<tableVars, dialog, place, warned, done>>

-----------------------------------------------------------------------------
(* The server may refuse for any reason besides use.                       *)

After(op, values) ==
  CASE op = "activate" -> [values EXCEPT !.active = TRUE]
    [] op = "deactivate" -> [values EXCEPT !.active = FALSE]
    [] op = "archive" -> [values EXCEPT !.archived = TRUE, !.active = FALSE]
    [] op = "restore" -> [values EXCEPT !.archived = FALSE]
    [] op = "complete" -> [values EXCEPT !.inProduction = FALSE]
    [] OTHER -> values

(* Deleting, and archiving a group, are refused while the record is used.  *)
InUse ==
  /\ dialog.does = "delete" \/ (request.op = "archive" /\ dialog.foresees)
  /\ table[request.id].values.used

Acceptable ==
  /\ request.id \in Listed
  /\ table[request.id].version < MaxVersion
  /\ ~InUse

(* An archived, restored or deleted record leaves the list of its tab.     *)
Applied ==
  /\ request.step = "sent"
  /\ Acceptable
  /\ LET values == After(request.op, table[request.id].values)
     IN IF request.op \in Leaving
          THEN Updated(request.id, values) /\ Unlisted(request.id)
          ELSE Changed(request.id, values)
  /\ \E answer \in {"ok", "error"} :
       request' = [request EXCEPT !.step = "answered", !.answer = answer]
  /\ UNCHANGED <<page, fetch, changes, dialog, place, warned, done>>

Refused ==
  /\ request.step = "sent"
  /\ request' = [request EXCEPT !.step = "answered", !.answer = IF InUse THEN "in use" ELSE "error"]
  /\ UNCHANGED <<tableVars, dialog, place, warned, done>>

-----------------------------------------------------------------------------
(* The answer, in the browser.                                             *)

Succeed ==
  /\ request.step = "answered" /\ request.answer = "ok"
  /\ Invalidated
  /\ request' = [request EXCEPT !.step = "refreshing"]
  /\ done' = (done \/ Sending)
  /\ UNCHANGED <<table, order, page, changes, dialog, place, warned>>

Fail ==
  /\ request.step = "answered" /\ request.answer # "ok"
  /\ request' = Idle
  /\ LET told(how) == request.answer = "in use" /\ dialog.whenUsed = how /\ Sending
     IN CASE told("warning") -> warned' = TRUE /\ UNCHANGED <<place, done>>
          [] told("close") -> CloseDialog
          [] OTHER -> UNCHANGED <<place, warned, done>>
  /\ UNCHANGED <<tableVars, dialog>>

Settle ==
  /\ request.step = "refreshed"
  /\ request' = Idle
  /\ IF Sending THEN CloseDialog ELSE UNCHANGED <<place, warned, done>>
  /\ UNCHANGED <<tableVars, dialog>>

Refreshed(succeeded) ==
  IF request.step = "refreshing"
    THEN [request EXCEPT !.step = "refreshed", !.fetched = succeeded]
    ELSE request

(* A newer page.  Without a row at its place the menu is gone and its      *)
(* dialog with it; on the own account the menu keeps its state but renders *)
(* no dialog, and a request under way belongs to no dialog any more.       *)
Rerender ==
  /\ ListArrived
  /\ LET shown == page'[place]
         gone == place # 0 /\ place \notin 1..Len(page')
         kept == request.place \in 1..Len(page') /\ Rendered(dialog, page'[request.place])
     IN /\ request' = [Refreshed(TRUE) EXCEPT !.place = IF kept THEN @ ELSE 0]
        /\ CASE gone -> CloseDialog
             [] place # 0 /\ ~gone /\ ~Rendered(dialog, shown) ->
                  warned' = FALSE /\ done' = FALSE /\ UNCHANGED place
             [] OTHER -> UNCHANGED <<place, warned, done>>
  /\ UNCHANGED dialog

FetchFailed ==
  /\ ListFailed
  /\ request' = Refreshed(FALSE)
  /\ UNCHANGED <<dialog, place, warned, done>>

Elsewhere ==
  /\ \/ WindowFocused
     \/ ListAnswered
     \/ \E r \in Records : \/ OthersChange(r, [table[r].values EXCEPT !.active = ~@])
                           \/ OthersChange(r, [table[r].values EXCEPT !.used = TRUE])
                           \/ OthersAdd(r)
                           \/ OthersRemove(r)
  /\ UNCHANGED dialogVars

Next ==
  \/ \E i \in 1..Len(page) : Open(i)
  \/ Cancel \/ Confirm
  \/ Applied \/ Refused
  \/ Succeed \/ Fail \/ Settle
  \/ Rerender \/ FetchFailed
  \/ Elsewhere

Spec == Init /\ [][Next]_vars

-----------------------------------------------------------------------------
TypeOK ==
  /\ TableTypeOK
  /\ dialog \in Dialogs
  /\ place \in 0..Len(page)
  /\ {warned, done} \subseteq BOOLEAN
  /\ request.step \in {"idle", "sent", "answered", "refreshing", "refreshed"}
  /\ request.place \in 0..Len(page)
  /\ request.answer \in {"none", "ok", "in use", "error"}

(* One opening of a dialog that has succeeded sends nothing more: between  *)
(* the refreshed list, in which the record asks for the opposite or the    *)
(* next record has taken its place, and the closing of the dialog there is *)
(* no button to press.                                                     *)
SucceedsOnce == request.step = "sent" /\ Sending => ~done

(* Nobody confirms anything of their own account, though the refreshed     *)
(* list may bring its row to the place of the open dialog.                 *)
OwnAccountIsLeftAlone == dialog.users /\ request.step = "sent" => request.id \notin Own

(* Between a confirmation and the refreshed list, in whichever order answers *)
(* and clicks come: each is acted on once, and never on oneself.           *)
ConfirmsWhatIsOffered == SucceedsOnce /\ OwnAccountIsLeftAlone
=============================================================================
