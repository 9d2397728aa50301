--------------------------- MODULE RecordCreation ---------------------------
(***************************************************************************)
(* The add dialogs of the admin pages.  A person opens one, fills it in    *)
(* and creates a record; the request is handled, refused, or its answer    *)
(* lost, and the dialog closes after the lists were fetched again.  The    *)
(* dialogs differ in whether they can be closed while the request is       *)
(* under way, in their steps, and in whether the server allows two records *)
(* with the same text.  AddPak stays open to show the key of the new PAK.  *)
(***************************************************************************)
EXTENDS Naturals, FiniteSets

CONSTANTS
  Dialogs,   \* the dialogs checked, a set of the records below
  Texts,     \* what tells the records apart: a login, a code, a name
  Blank,     \* nothing typed
  MaxRecords \* bound: how many records of one text there may be

(* The blank names nothing, the bound is positive, and the dialogs are     *)
(* records of this kind.                                                   *)
CreationAssumption ==
  /\ Blank \notin Texts /\ MaxRecords \in Nat \ {0}
  /\ Dialogs \subseteq
       [guarded : BOOLEAN, steps : Nat \ {0}, unique : BOOLEAN, showsKey : BOOLEAN]

-----------------------------------------------------------------------------
(* guarded: it refuses to close while its request is under way; steps: its *)
(* pages; unique: the server refuses a text that is taken; showsKey: what  *)
(* was created is shown in place of the form.                              *)

Form(guarded, unique) ==
  [guarded |-> guarded, steps |-> 1, unique |-> unique, showsKey |-> FALSE]

AddUser == Form(FALSE, TRUE)
AddPak == [Form(FALSE, TRUE) EXCEPT !.showsKey = TRUE]
AddBatch == [Form(TRUE, FALSE) EXCEPT !.steps = 2]
AddProductionOrder == Form(TRUE, FALSE)
AddKgPrefix == Form(TRUE, TRUE)
AddKgVersion == Form(TRUE, TRUE)
AddDefectGroup == Form(FALSE, TRUE)
AddDefectType == Form(FALSE, TRUE)

VARIABLES
  dialog,  \* the dialog of this behaviour
  isOpen,
  step,    \* the page of the form that is shown
  form,    \* [pages -> text]; the text of the first page names the record
  created, \* what is shown in place of the form, Blank when nothing is
  request, \* the mutation: [step, text, ok]
  records, \* [Texts -> how many records the database has]
  told,    \* [Texts -> how many successes this browser was told of]
  unknown  \* [Texts -> how many of the records are not of its making, or of
           \*  requests whose answer was lost]

vars == <<dialog, isOpen, step, form, created, request, records, told, unknown>>
serverVars == <<records, unknown>>

Idle == [step |-> "idle", text |-> Blank, ok |-> FALSE]
Pages == 1..dialog.steps
Empty == [p \in Pages |-> Blank]

(* Mutant: the buttons are locked until the answer, not until the lists    *)
(* are refreshed.                                                          *)
PendingUntilAnswered == request.step \in {"sent", "answered"}

Pending == request.step # "idle"

(* trigger(batchStepOneFields) and handleSubmit: what is shown is filled.  *)
Valid(pages) == \A p \in pages : form[p] # Blank

Init ==
  /\ dialog \in Dialogs
  /\ isOpen = FALSE
  /\ step = 1
  /\ form = Empty
  /\ created = Blank
  /\ request = Idle
  /\ records = [t \in Texts |-> 0]
  /\ told = [t \in Texts |-> 0]
  /\ unknown = [t \in Texts |-> 0]

-----------------------------------------------------------------------------
(* The person.                                                             *)

(* Mutant: the dialog is emptied when it is opened.                         *)
OpenFresh ==
  /\ ~isOpen
  /\ isOpen' = TRUE
  /\ form' = Empty
  /\ step' = 1
  /\ created' = Blank
  /\ UNCHANGED <<dialog, request, serverVars, told>>

Open ==
  /\ ~isOpen
  /\ isOpen' = TRUE
  /\ UNCHANGED <<dialog, step, form, created, request, serverVars, told>>

(* The inputs are not locked while the request is under way.               *)
Type(p, text) ==
  /\ isOpen /\ created = Blank
  /\ p = step
  /\ form[p] # text
  /\ form' = [form EXCEPT ![p] = text]
  /\ UNCHANGED <<dialog, isOpen, step, created, request, serverVars, told>>

Reset ==
  /\ form' = Empty
  /\ step' = 1

(* The Escape key and a press beside the dialog; its buttons do this only  *)
(* while no request is under way.  An unguarded dialog disappears all the  *)
(* same and keeps what it holds.                                           *)
Close ==
  /\ isOpen
  /\ dialog.guarded => ~Pending
  /\ isOpen' = FALSE
  /\ IF Pending
       THEN UNCHANGED <<form, step, created>>
       ELSE Reset /\ created' = Blank
  /\ UNCHANGED <<dialog, request, serverVars, told>>

GoToConfiguration ==
  /\ isOpen /\ step < dialog.steps
  /\ ~Pending
  /\ Valid({step})
  /\ step' = step + 1
  /\ UNCHANGED <<dialog, isOpen, form, created, request, serverVars, told>>

Back ==
  /\ isOpen /\ step > 1
  /\ ~Pending
  /\ step' = step - 1
  /\ UNCHANGED <<dialog, isOpen, form, created, request, serverVars, told>>

Submit ==
  /\ isOpen /\ created = Blank
  /\ step = dialog.steps
  /\ ~Pending
  /\ Valid(Pages)
  /\ request' = [Idle EXCEPT !.step = "sent", !.text = form[1]]
  /\ UNCHANGED <<dialog, isOpen, step, form, created, serverVars, told>>

-----------------------------------------------------------------------------
(* The server, and another browser that creates a record there.            *)

Vacant(text) == dialog.unique => records[text] = 0
Added(text) ==
  /\ records[text] < MaxRecords
  /\ Vacant(text)
  /\ records' = [records EXCEPT ![text] = @ + 1]

Applied ==
  /\ request.step = "sent"
  /\ Added(request.text)
  /\ \E answered \in BOOLEAN :
       /\ request' = [request EXCEPT !.step = "answered", !.ok = answered]
       /\ unknown' = IF answered THEN unknown ELSE [unknown EXCEPT ![request.text] = @ + 1]
  /\ UNCHANGED <<dialog, isOpen, step, form, created, told>>

(* The text is taken, or the request was not understood or not received.   *)
Refused ==
  /\ request.step = "sent"
  /\ request' = [request EXCEPT !.step = "answered"]
  /\ UNCHANGED <<dialog, isOpen, step, form, created, serverVars, told>>

OthersAdd(text) ==
  /\ Added(text)
  /\ unknown' = [unknown EXCEPT ![text] = @ + 1]
  /\ UNCHANGED <<dialog, isOpen, step, form, created, request, told>>

-----------------------------------------------------------------------------
(* The answer, in the browser.                                             *)

(* onSuccess, up to the wait for the lists.                                *)
Succeed ==
  /\ request.step = "answered" /\ request.ok
  /\ request' = [request EXCEPT !.step = "refreshing"]
  /\ UNCHANGED <<dialog, isOpen, step, form, created, serverVars, told>>

(* onError: the form keeps what was typed, and a word under the field says *)
(* that it is taken, or a notice that nothing was created.                 *)
Fail ==
  /\ request.step = "answered" /\ ~request.ok
  /\ request' = Idle
  /\ UNCHANGED <<dialog, isOpen, step, form, created, serverVars, told>>

(* The lists were fetched again or could not be: resetAndClose, close(true)*)
(* or setCreated, and the notice.                                          *)
Settle ==
  /\ request.step = "refreshing"
  /\ request' = Idle
  /\ Reset
  /\ IF dialog.showsKey
       THEN created' = request.text /\ UNCHANGED isOpen
       ELSE isOpen' = FALSE /\ UNCHANGED created
  /\ told' = [told EXCEPT ![request.text] = @ + 1]
  /\ UNCHANGED <<dialog, serverVars>>

Next ==
  \/ Open \/ Close
  \/ \E p \in Pages, text \in Texts : Type(p, text)
  \/ GoToConfiguration \/ Back \/ Submit
  \/ Applied \/ Refused
  \/ \E text \in Texts : OthersAdd(text)
  \/ Succeed \/ Fail \/ Settle

Spec == Init /\ [][Next]_vars

-----------------------------------------------------------------------------
TypeOK ==
  /\ dialog \in Dialogs
  /\ isOpen \in BOOLEAN
  /\ step \in Pages
  /\ form \in [Pages -> Texts \cup {Blank}]
  /\ created \in Texts \cup {Blank}
  /\ request.step \in {"idle", "sent", "answered", "refreshing"}
  /\ request.text \in Texts \cup {Blank}
  /\ records \in [Texts -> 0..MaxRecords]
  /\ told \in [Texts -> Nat]
  /\ unknown \in [Texts -> Nat]

(* Every record of this browser's making is announced once, unless its     *)
(* answer was lost: none is created twice by the button that stays on the  *)
(* screen until the lists are refreshed, by a dialog closed and opened     *)
(* again over its own request, or by a step taken back.                    *)
RecordsAreAnnounced ==
  \A t \in Texts :
    records[t] = told[t] + unknown[t]
                 + (IF request.step \in {"answered", "refreshing"} /\ request.ok /\ request.text = t
                      THEN 1 ELSE 0)

(* The key of a new PAK leaves the screen only by the hand of the person   *)
(* it is shown to, even when the dialog was closed over its request: it is *)
(* then shown when the dialog is opened again.                             *)
KeyIsSeen == [][created # Blank /\ created' # created => isOpen /\ Close]_vars

=============================================================================
