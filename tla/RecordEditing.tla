--------------------------- MODULE RecordEditing ---------------------------
(***************************************************************************)
(* The edit dialogs of the admin pages over the list they belong to.  A    *)
(* person opens a dialog on a row, types, and saves; meanwhile the list is *)
(* fetched again, other people change records, and the request of the save *)
(* is handled, refused or lost.  The dialogs share their course and differ *)
(* in what a save sends, in what refills the form, and in whether the      *)
(* dialog waits for the refreshed list: one record of settings for each.   *)
(***************************************************************************)
EXTENDS TableQuery

CONSTANTS
  Dialogs,         \* the dialogs checked, a set of the records below
  Values,          \* the values of a field, Blank among them
  Texts,           \* the fields people type in, and what: [fields -> some of the
                   \* values, and Spaces]
  Blank, Spaces

-----------------------------------------------------------------------------
(* The dialogs.  requests: the fields each request of a save may change;   *)
(* required: the fields that may not be left blank; chosen: picked from a  *)
(* list; whole: sent changed or not; refilledBy: the form is filled again  *)
(* when the whole record or only the values of the form change; waits: the *)
(* dialog closes after the list was fetched again.                         *)

Form(fields, required, chosen, refilledBy) ==
  [requests |-> <<fields>>, required |-> required, chosen |-> chosen,
   whole |-> FALSE, refilledBy |-> refilledBy, waits |-> TRUE]

EditUser == [Form({}, {"login", "name", "role"}, {"role"}, "record")
             EXCEPT !.requests = <<{"login", "name"}, {"role"}>>, !.waits = FALSE]
EditPak == Form({"code", "kind"}, {"code", "kind"}, {"kind"}, "record")
EditBatch == Form({"name", "description", "dayPlanQty"}, {"name", "dayPlanQty"}, {}, "values")
EditProductionOrder == Form({"name", "description"}, {"name"}, {}, "values")
EditKgPrefix == [Form({"name"}, {}, {}, "record") EXCEPT !.whole = TRUE]
EditKgVersion == Form({"name", "description"}, {"name"}, {}, "record")
EditDefectGroup == Form({"name", "description"}, {"name"}, {}, "record")
EditDefectType ==
  Form({"name", "description", "engineerAction", "possibleCause"},
       {"name", "description"}, {}, "record")

FormFields(d) == UNION Range(d.requests)

Edited(d) == FormFields(d) \cap DOMAIN Texts

(* What is sent whole has one field: whoever saves has typed in it.  The    *)
(* database holds no spaces alone, as what comes to it is parsed.          *)
ASSUME EditingAssumption ==
  /\ Blank \in Values /\ Spaces \notin Values
  /\ \A f \in DOMAIN Texts : Texts[f] \subseteq Values \cup {Spaces}
  /\ \A d \in Dialogs :
       /\ d.requests \in Seq(SUBSET FormFields(d))
       /\ d.whole => \E f \in FormFields(d) : FormFields(d) = {f}
       /\ \A values \in InitialValues, r \in Records, f \in FormFields(d) :
            f \in DOMAIN values[r] /\ values[r][f] \in Values

-----------------------------------------------------------------------------
VARIABLES
  dialog,   \* the dialog of this behaviour
  place,    \* the place of the row it is open on, 0 when it is closed
  form,     \* [fields -> text], what the inputs hold
  filled,   \* [fields -> value], what the form was last filled with
  typed,    \* the fields typed in since then
  typedFor, \* the record shown when the form was filled
  save      \* the mutation

editVars == <<dialog, place, form, filled, typed, typedFor, save>>
vars == <<tableVars, editVars>>

NoRecord == CHOOSE r \in Records : TRUE

(* place: where the dialog that saves is, 0 when its row is gone; version: *)
(* the one the save made.                                                  *)
Idle == [step |-> "idle", place |-> 0, id |-> NoRecord, todo |-> <<>>, ok |-> TRUE,
         typed |-> {}, typedFor |-> NoRecord, version |-> 0, fetched |-> FALSE]

(* optionalText and trimmed of lib/validation.ts.                          *)
Parsed(text) == IF text = Spaces THEN Blank ELSE text

Shown == RowAt(place)
ToForm(row) == [f \in FormFields(dialog) |-> row.values[f]]

(* Mutant: the effect that fills the form depends on its opening only.     *)
WatchesNothing(shown) == {}

(* What a refill of the form depends on.                                   *)
Watched(shown) == IF dialog.refilledBy = "record" THEN shown ELSE ToForm(shown.row)

(* Mutant: the whole form is sent.                                         *)
EveryField(fields) == fields

(* changedFields: what the person sees now against what they typed.        *)
ChangedFields(fields) == {f \in fields : Parsed(form[f]) # Shown.row.values[f]}

(* What is left to send by the place of the request; one without fields is *)
(* not sent.                                                               *)
Bodies ==
  LET sent(i) == IF dialog.whole THEN dialog.requests[i] ELSE ChangedFields(dialog.requests[i])
  IN [i \in {i \in DOMAIN dialog.requests : sent(i) # {}} |-> [f \in sent(i) |-> Parsed(form[f])]]

(* The form of a closed dialog: it is filled before it is read again.       *)
Empty == [f \in FormFields(dialog) |-> Blank]

Valid == \A f \in dialog.required : Parsed(form[f]) # Blank
Dirty == form # filled
Pending == save.step # "idle" /\ save.place = place

Init ==
  /\ TableInit
  /\ dialog \in Dialogs
  /\ place = 0
  /\ form = Empty
  /\ filled = Empty
  /\ typed = {}
  /\ typedFor = NoRecord
  /\ save = Idle

-----------------------------------------------------------------------------
(* The person.                                                             *)

Filled(shown) ==
  /\ form' = ToForm(shown.row)
  /\ filled' = form'
  /\ typed' = {}
  /\ typedFor' = shown.id

Emptied ==
  /\ form' = Empty
  /\ filled' = Empty
  /\ typed' = {}
  /\ typedFor' = NoRecord

Open(i) ==
  /\ place = 0
  /\ OnPage(i)
  /\ place' = i
  /\ Filled(RowAt(i))
  /\ UNCHANGED <<tableVars, dialog, save>>

Type(f, text) ==
  /\ place # 0
  /\ form[f] # text
  /\ f \in dialog.chosen => Parsed(text) # Blank
  /\ form' = [form EXCEPT ![f] = text]
  /\ typed' = typed \cup {f}
  /\ UNCHANGED <<tableVars, dialog, place, filled, typedFor, save>>

(* The buttons and the Escape key do nothing while a save is under way.    *)
Cancel ==
  /\ place # 0
  /\ ~Pending
  /\ place' = 0
  /\ Emptied
  /\ UNCHANGED <<tableVars, dialog, save>>

Submit ==
  /\ place # 0
  /\ save.step = "idle"
  /\ Dirty
  /\ Valid
  /\ save' = [Idle EXCEPT !.step = IF DOMAIN Bodies = {} THEN "answered" ELSE "sent",
                          !.place = place, !.id = Shown.id, !.todo = Bodies,
                          !.typed = typed, !.typedFor = typedFor]
  /\ UNCHANGED <<tableVars, dialog, place, form, filled, typed, typedFor>>

-----------------------------------------------------------------------------
(* The server, as the generated client knows it: a save names no version.  *)
(* A refusal stands for every answer that changes nothing: a value taken   *)
(* by another record, an edit window that has passed, a record that is     *)
(* gone, a request without expectedUpdatedAt where the server wants one.   *)
(* An answer may be lost after the change was made.                        *)

Written(values, body) == [f \in DOMAIN values |-> IF f \in DOMAIN body THEN body[f] ELSE values[f]]

Sending == Min(DOMAIN save.todo)

Acceptable ==
  /\ save.id \in Listed
  /\ table[save.id].version < MaxVersion

SaveApplied ==
  /\ save.step = "sent"
  /\ Acceptable
  /\ Changed(save.id, Written(table[save.id].values, save.todo[Sending]))
  /\ \E answered \in BOOLEAN :
       save' = [save EXCEPT !.step = "answered", !.ok = answered,
                            !.todo = Restrict(@, DOMAIN @ \ {Sending}),
                            !.version = table'[save.id].version]
  /\ UNCHANGED <<page, fetch, changes, dialog, place, form, filled, typed, typedFor>>

SaveRefused ==
  /\ save.step = "sent"
  /\ save' = [save EXCEPT !.step = "answered", !.ok = FALSE]
  /\ UNCHANGED <<tableVars, dialog, place, form, filled, typed, typedFor>>

-----------------------------------------------------------------------------
(* The answer, in the browser.                                             *)

(* EditUser sends the role after the login and the name were accepted.     *)
NextRequest ==
  /\ save.step = "answered" /\ save.ok /\ DOMAIN save.todo # {}
  /\ save' = [save EXCEPT !.step = "sent"]
  /\ UNCHANGED <<tableVars, dialog, place, form, filled, typed, typedFor>>

StaysOpen == UNCHANGED <<place, form, filled, typed, typedFor>>
Closed == IF save.place = place THEN place' = 0 /\ Emptied ELSE StaysOpen

(* onSuccess.  EditUser closes first and refreshes the list in onSettled.  *)
Succeed ==
  /\ save.step = "answered" /\ save.ok /\ DOMAIN save.todo = {}
  /\ Invalidated
  /\ save' = [save EXCEPT !.step = "refreshing"]
  /\ IF dialog.waits THEN StaysOpen ELSE Closed
  /\ UNCHANGED <<table, order, page, changes, dialog>>

(* onError: the dialog stays open with what was typed; only EditUser       *)
(* refreshes the list, the first of its requests may have been accepted.   *)
Fail ==
  /\ save.step = "answered" /\ ~save.ok
  /\ IF dialog.waits
       THEN save' = Idle /\ UNCHANGED fetch
       ELSE save' = [save EXCEPT !.step = "refreshing"] /\ Invalidated
  /\ UNCHANGED <<table, order, page, changes, dialog, place, form, filled, typed, typedFor>>

(* The list has been fetched again, or could not be.                       *)
Settle ==
  /\ save.step = "refreshed"
  /\ save' = Idle
  /\ IF dialog.waits /\ save.ok THEN Closed ELSE StaysOpen
  /\ UNCHANGED <<tableVars, dialog>>

(* Mutant: only a page that has arrived ends the wait.                     *)
RefreshedByPage(succeeded) ==
  IF save.step = "refreshing" /\ succeeded
    THEN [save EXCEPT !.step = "refreshed", !.fetched = TRUE]
    ELSE save

Refreshed(succeeded) ==
  IF save.step = "refreshing"
    THEN [save EXCEPT !.step = "refreshed", !.fetched = succeeded]
    ELSE save

-----------------------------------------------------------------------------
(* A newer page: the row at the place of the dialog may be another version *)
(* of the record, another record, or missing, and then the dialog is gone  *)
(* with it.  The form is filled again when what it watches has changed.    *)
Rerender ==
  /\ ListArrived
  /\ LET gone == place # 0 /\ place \notin 1..Len(page')
         shown == page'[place]
     IN /\ place' = IF gone THEN 0 ELSE place
        /\ CASE gone -> Emptied
             [] place # 0 /\ ~gone /\ Watched(shown) # Watched(Shown) -> Filled(shown)
             [] OTHER -> UNCHANGED <<form, filled, typed, typedFor>>
        /\ save' = [Refreshed(TRUE) EXCEPT !.place = IF @ > Len(page') THEN 0 ELSE @]
  /\ UNCHANGED dialog

FetchFailed ==
  /\ ListFailed
  /\ save' = Refreshed(FALSE)
  /\ UNCHANGED <<dialog, place, form, filled, typed, typedFor>>

Elsewhere ==
  /\ \/ WindowFocused
     \/ ListAnswered
     \/ \E r \in Records, f \in Edited(dialog) : \E text \in Texts[f] :
          /\ f \in dialog.required => Parsed(text) # Blank
          /\ OthersChange(r, [table[r].values EXCEPT ![f] = Parsed(text)])
     \/ \E r \in Records : OthersChange(r, table[r].values)
     \/ \E r \in Records : OthersAdd(r) \/ OthersRemove(r)
  /\ UNCHANGED editVars

Next ==
  \/ \E i \in 1..Len(page) : Open(i)
  \/ \E f \in Edited(dialog) : \E text \in Texts[f] : Type(f, text)
  \/ Cancel \/ Submit
  \/ SaveApplied \/ SaveRefused
  \/ NextRequest \/ Succeed \/ Fail \/ Settle
  \/ Rerender \/ FetchFailed
  \/ Elsewhere

Spec == Init /\ [][Next]_vars

(* The server answers, the browser goes on, and a request for the list is  *)
(* answered or fails: a request has a time limit.                          *)
Fairness ==
  /\ WF_vars(SaveApplied \/ SaveRefused)
  /\ WF_vars(NextRequest \/ Succeed \/ Fail \/ Settle)
  /\ WF_vars(ListAnswered /\ UNCHANGED editVars)
  /\ WF_vars(Rerender \/ FetchFailed)

FairSpec == Spec /\ Fairness

-----------------------------------------------------------------------------
TypeOK ==
  /\ TableTypeOK
  /\ dialog \in Dialogs
  /\ place \in 0..Len(page)
  /\ form \in [FormFields(dialog) -> Values \cup {Spaces}]
  /\ filled \in [FormFields(dialog) -> Values]
  /\ typed \subseteq FormFields(dialog)
  /\ typedFor \in Records
  /\ save.step \in {"idle", "sent", "answered", "refreshing", "refreshed"}
  /\ save.place \in 0..Len(page)
  /\ save.id \in Records

(* A save changes in the database only what the person typed: what another *)
(* person changed in the same record meanwhile survives (changedFields, or *)
(* a form refilled from the newer record before it is sent).               *)
SaveTouchesWhatWasTyped ==
  [][SaveApplied => \A f \in DOMAIN table[save.id].values :
       table'[save.id].values[f] # table[save.id].values[f] => f \in save.typed]_vars

(* Once a save is over and the list could be fetched, the page shows the   *)
(* saved record at least as new as the save made it: the answer of an      *)
(* older request for the list never passes for the refreshed one.          *)
SavedRecordIsShown ==
  [][Settle /\ save.ok /\ save.fetched =>
       \A i \in 1..Len(page) : page[i].id = save.id => page[i].row.version >= save.version]_vars

(* What was typed for one record is not saved in another one, though the   *)
(* open dialog passes to whatever record the refreshed list has at its     *)
(* place.  (A form that watches its values only cannot tell two records    *)
(* with the same values apart.)                                            *)
InputStaysWithItsRecord ==
  save.step = "sent" /\ dialog.refilledBy = "record" => save.id = save.typedFor

(* A save is over some time, whatever becomes of its request, of the list  *)
(* and of the row: the dialog is never locked for good.                    *)
SavesEnd == save.step = "sent" ~> save.step = "idle"
=============================================================================
