------------------------- MODULE RecordEditingProofs -------------------------
(***************************************************************************)
(* Why an edit dialog saves what was typed, of the record it was typed     *)
(* for, and why the list shows it afterwards: for any records, dialogs,    *)
(* values and number of changes by others.  The form follows the record at *)
(* its place, whatever page arrives; a save keeps what the form was of;    *)
(* and no page that was asked for before a save passes for the page after. *)
(***************************************************************************)
EXTENDS RecordEditing, SequenceTheorems, WellFoundedInduction, TLAPS

-----------------------------------------------------------------------------
(* The inductive invariant *)

RowFits(d, row) ==
  /\ row.version \in Nat
  /\ \A f \in FormFields(d) : f \in DOMAIN row.values /\ row.values[f] \in Values

PageFits(d, rows) ==
  \A i \in 1..Len(rows) : rows[i].id \in Records /\ RowFits(d, rows[i].row)

TableInv ==
  /\ DOMAIN table = Records
  /\ \A r \in Records :
       /\ RowFits(dialog, table[r])
       /\ table[r] = [values |-> table[r].values, version |-> table[r].version]
  /\ order \in Seq(Records)
  /\ PageFits(dialog, page) /\ PageFits(dialog, fetch.page)

(* An open form shows the record at its place, but for what was typed.     *)
FormInv ==
  place # 0 =>
    /\ place \in 1..Len(page)
    /\ DOMAIN form = FormFields(dialog) /\ DOMAIN filled = FormFields(dialog)
    /\ form = [f \in FormFields(dialog) |-> form[f]]
    /\ filled = [f \in FormFields(dialog) |-> filled[f]]
    /\ \A f \in FormFields(dialog) :
         /\ form[f] \in Values \cup {Spaces}
         /\ filled[f] = Shown.row.values[f]
         /\ f \notin typed => form[f] = filled[f]
    /\ dialog.refilledBy = "record" => typedFor = Shown.id

(* A save sends fields that were typed in, to the record they were typed   *)
(* for, and is no newer than the record.                                   *)
SaveRecords ==
  /\ DOMAIN save = {"step", "place", "id", "todo", "ok", "typed", "typedFor", "version", "fetched"}
  /\ save.step \in {"idle", "sent", "answered", "refreshing", "refreshed"}
SaveIsOfRecord == dialog.refilledBy = "record" => save.id = save.typedFor
SaveIsKnown ==
  save.step # "idle" =>
    save.id \in Records /\ save.version \in Nat /\ save.version <= table[save.id].version
SaveIsTyped ==
  /\ DOMAIN save.todo \subseteq Nat
  /\ \A i \in DOMAIN save.todo : \A f \in DOMAIN save.todo[i] :
       f \in save.typed /\ save.todo[i][f] \in Values
  /\ save.step = "sent" => DOMAIN save.todo # {}

(* The page asked for after a save, and every later one, has its version.  *)
HasSave(rows) == \A i \in 1..Len(rows) : rows[i].id = save.id => rows[i].row.version >= save.version
RefreshHasSave ==
  /\ save.step \in {"refreshing", "refreshed"} /\ fetch.state = "answered" => HasSave(fetch.page)
  /\ save.step = "refreshed" /\ save.fetched => HasSave(page)

SaveInv == SaveRecords /\ SaveIsOfRecord /\ SaveIsKnown /\ SaveIsTyped /\ RefreshHasSave

EditInv == dialog \in Dialogs /\ TableInv /\ FormInv /\ SaveInv

-----------------------------------------------------------------------------
(* Sequences and values *)

LEMMA MinIsIn ==
  ASSUME NEW S \in SUBSET Nat, S # {}
  PROVE  Min(S) \in S
<1>1. PICK m \in S : \A n \in S : ~(<<n, m>> \in OpToRel(<, Nat))
  BY NatLessThanWellFounded, WFMin
<1>2. \A n \in S : ~(n < m)
  BY <1>1 DEF OpToRel
<1>3. \A n \in S : m <= n
  BY <1>2
<1> QED BY <1>3 DEF Min

LEMMA RemovedOne ==
  ASSUME NEW S, NEW s \in Seq(S), NEW k \in 1..Len(s)
  PROVE  RemoveAt(s, k) \in Seq(S) /\ Len(RemoveAt(s, k)) = Len(s) - 1
<1>1. Len(s) \in Nat /\ \A i \in 1..Len(s) : s[i] \in S
  BY LenProperties, ElementOfSeq
<1> DEFINE before == SubSeq(s, 1, k - 1)
           after == SubSeq(s, k + 1, Len(s))
<1>2. /\ before \in Seq(S) /\ Len(before) = k - 1
      /\ after \in Seq(S) /\ Len(after) = Len(s) - k
  BY <1>1, SubSeqProperties
<1>3. RemoveAt(s, k) = before \o after
  BY DEF RemoveAt
<1> HIDE DEF before, after
<1>4. before \o after \in Seq(S) /\ Len(before \o after) = Len(before) + Len(after)
  BY <1>2, ConcatProperties
<1>5. Len(before) + Len(after) = Len(s) - 1
  BY <1>1, <1>2
<1> QED BY <1>3, <1>4, <1>5

LEMMA InsertedOne ==
  ASSUME NEW S, NEW s \in Seq(S), NEW k \in 1..(Len(s) + 1), NEW e \in S
  PROVE  InsertAt(s, k, e) \in Seq(S)
<1>1. Len(s) \in Nat /\ \A i \in 1..Len(s) : s[i] \in S
  BY LenProperties, ElementOfSeq
<1>2. SubSeq(s, 1, k - 1) \in Seq(S) /\ SubSeq(s, k, Len(s)) \in Seq(S)
  BY <1>1, SubSeqProperties
<1>3. <<e>> \in Seq(S)
  OBVIOUS
<1>4. SubSeq(s, 1, k - 1) \o <<e>> \in Seq(S)
  BY <1>2, <1>3, ConcatProperties
<1> QED BY <1>2, <1>4, ConcatProperties DEF InsertAt

LEMMA ParsedFits ==
  /\ \A text \in Values \cup {Spaces} : Parsed(text) \in Values
  /\ \A value \in Values : Parsed(value) = value
BY EditingAssumption DEF Parsed

-----------------------------------------------------------------------------
(* The table and the pages of it *)

LEMMA ListNowFits ==
  ASSUME TableInv
  PROVE  /\ PageFits(dialog, ListNow)
         /\ \A i \in 1..Len(ListNow) : ListNow[i].row = table[ListNow[i].id]
<1>1. Len(order) \in Nat /\ \A i \in 1..Len(order) : order[i] \in Records
  BY LenProperties, ElementOfSeq DEF TableInv
<1>2. Len(ListNow) = Len(order)
  BY <1>1 DEF ListNow
<1>3. \A i \in 1..Len(order) : ListNow[i].id = order[i] /\ ListNow[i].row = table[order[i]]
  BY DEF ListNow
<1> QED BY <1>1, <1>2, <1>3 DEF PageFits, TableInv

LEMMA OrderKept ==
  ASSUME TableInv, NEW r \in Listed
  PROVE  r \in Records /\ Without(r) \in Seq(Records) /\ Moved(r) \subseteq Seq(Records)
<1>1. PICK k \in 1..Len(order) : order[k] = r
  BY LenProperties DEF Listed, Range, TableInv
<1>2. r \in Records
  BY <1>1, ElementOfSeq DEF TableInv
<1>3. Without(r) \in Seq(Records) /\ Len(Without(r)) = Len(order) - 1
  BY <1>1, RemovedOne DEF Without, TableInv
<1>4. ASSUME NEW i \in 1..Len(order) PROVE InsertAt(Without(r), i, r) \in Seq(Records)
  <2>1. Len(order) \in Nat
    BY LenProperties DEF TableInv
  <2>2. i \in 1..(Len(Without(r)) + 1)
    BY <1>3, <2>1
  <2> QED BY <1>2, <1>3, <2>2, InsertedOne
<1> QED BY <1>2, <1>3, <1>4 DEF Moved, TableInv

(* The versions of the records only grow.                                  *)
VersionsGrow == \A r \in Records : table[r].version <= table'[r].version

ValuesFit(values) == \A f \in FormFields(dialog) : f \in DOMAIN values /\ values[f] \in Values

LEMMA UpdateKeeps ==
  ASSUME EditInv, NEW r \in Records, NEW values, ValuesFit(values), Updated(r, values),
         order' \in Seq(Records), dialog' = dialog, UNCHANGED <<page, fetch>>
  PROVE  /\ TableInv' /\ VersionsGrow
         /\ table'[r].values = values /\ table'[r].version = table[r].version + 1
<1>1. /\ table' = [table EXCEPT ![r] = [values |-> values, version |-> table[r].version + 1]]
      /\ DOMAIN table = Records /\ \A q \in Records : table[q].version \in Nat
  BY DEF Updated, EditInv, TableInv, RowFits
<1>2. /\ DOMAIN table' = Records
      /\ table'[r] = [values |-> values, version |-> table[r].version + 1]
      /\ \A q \in Records \ {r} : table'[q] = table[q]
  BY <1>1
<1>3. /\ RowFits(dialog, table'[r])
      /\ table'[r] = [values |-> table'[r].values, version |-> table'[r].version]
  BY <1>1, <1>2 DEF RowFits, ValuesFit
<1> QED BY <1>1, <1>2, <1>3 DEF EditInv, TableInv, VersionsGrow

LEMMA TableWaits ==
  ASSUME EditInv, UNCHANGED <<table, order, page, dialog>>,
         fetch' = fetch \/ fetch'.page = <<>>
  PROVE  TableInv' /\ VersionsGrow
<1>1. PageFits(dialog, fetch'.page)
  BY EmptySeq DEF EditInv, TableInv, PageFits
<1>2. \A r \in Records : table[r].version \in Nat
  BY DEF EditInv, TableInv, RowFits
<1> QED BY <1>1, <1>2 DEF EditInv, TableInv, VersionsGrow

-----------------------------------------------------------------------------
(* The form and the save while others act *)

LEMMA FormWaits ==
  ASSUME EditInv, UNCHANGED <<dialog, page, place, form, filled, typed, typedFor>>
  PROVE  FormInv'
BY DEF EditInv, FormInv, Shown, RowAt

LEMMA FillingFits ==
  ASSUME EditInv, NEW shown, RowFits(dialog, shown.row), Filled(shown), dialog' = dialog,
         place' \in 1..Len(page'), page'[place'] = shown
  PROVE  FormInv'
<1>1. /\ form' = [f \in FormFields(dialog) |-> shown.row.values[f]] /\ filled' = form'
      /\ typed' = {} /\ typedFor' = shown.id
  BY DEF Filled, ToForm
<1>2. Shown' = shown
  BY DEF Shown, RowAt
<1> HIDE DEF Shown
<1>3. \A f \in FormFields(dialog) : form'[f] = shown.row.values[f] /\ form'[f] \in Values
  BY <1>1 DEF RowFits
<1> QED BY <1>1, <1>2, <1>3 DEF FormInv

(* What a save knows stays so as long as it does nothing.                  *)
LEMMA KnownStays ==
  ASSUME EditInv, TableInv', VersionsGrow, dialog' = dialog,
         save'.id = save.id, save'.version = save.version, save'.todo = save.todo,
         save'.typed = save.typed, save'.typedFor = save.typedFor, save.step # "idle"
  PROVE  /\ SaveIsOfRecord' /\ SaveIsKnown' /\ (save'.step # "sent" => SaveIsTyped')
         /\ \A rows : HasSave(rows)' <=> HasSave(rows)
<1>1. SaveIsOfRecord'
  BY DEF EditInv, SaveInv, SaveIsOfRecord
<1>2. SaveIsKnown'
  <2>1. /\ save.id \in Records /\ save.version \in Nat /\ save.version <= table[save.id].version
        /\ table[save.id].version <= table'[save.id].version
        /\ table[save.id].version \in Nat /\ table'[save.id].version \in Nat
    BY DEF EditInv, SaveInv, SaveIsKnown, VersionsGrow, TableInv, RowFits
  <2> QED BY <2>1 DEF SaveIsKnown
<1>3. save'.step # "sent" => SaveIsTyped'
  BY DEF EditInv, SaveInv, SaveIsTyped
<1>4. \A rows : HasSave(rows)' <=> HasSave(rows)
  BY DEF HasSave
<1> QED BY <1>1, <1>2, <1>3, <1>4

LEMMA SaveWaits ==
  ASSUME EditInv, TableInv', VersionsGrow, dialog' = dialog, save' = save, page' = page,
         fetch' = fetch \/ fetch'.state # "answered"
  PROVE  SaveInv'
<1>1. SaveRecords'
  BY DEF EditInv, SaveInv, SaveRecords
<1>2. SaveIsTyped'
  BY DEF EditInv, SaveInv, SaveIsTyped
<1>3. CASE save.step = "idle"
  BY <1>1, <1>2, <1>3
     DEF EditInv, SaveInv, SaveIsOfRecord, SaveIsKnown, RefreshHasSave
<1>4. CASE save.step # "idle"
  <2>1. SaveIsOfRecord' /\ SaveIsKnown' /\ \A rows : HasSave(rows)' <=> HasSave(rows)
    BY <1>4, KnownStays
  <2>2. RefreshHasSave'
    BY <2>1 DEF EditInv, SaveInv, RefreshHasSave, HasSave
  <2> QED BY <1>1, <1>2, <2>1, <2>2 DEF SaveInv
<1> QED BY <1>3, <1>4

-----------------------------------------------------------------------------
(* The person *)

LEMMA OpenKeeps == EditInv /\ (\E i \in 1..Len(page) : Open(i)) => EditInv'
<1> SUFFICES ASSUME EditInv, NEW i \in 1..Len(page), Open(i) PROVE EditInv'
  OBVIOUS
<1>1. UNCHANGED <<table, order, page, fetch, dialog, save>> /\ place' = i /\ Filled(page[i])
  BY DEF Open, tableVars, RowAt
<1>2. TableInv' /\ VersionsGrow
  BY <1>1, TableWaits
<1>3. RowFits(dialog, page[i].row)
  BY DEF EditInv, TableInv, PageFits
<1>4. FormInv'
  BY <1>1, <1>3, FillingFits
<1>5. SaveInv'
  BY <1>1, <1>2, SaveWaits
<1> QED BY <1>1, <1>2, <1>4, <1>5 DEF EditInv

LEMMA TypeKeeps ==
  EditInv /\ (\E f \in Edited(dialog) : \E text \in Texts[f] : Type(f, text)) => EditInv'
<1> SUFFICES ASSUME EditInv, NEW f \in Edited(dialog), NEW text \in Texts[f], Type(f, text)
             PROVE  EditInv'
  OBVIOUS
<1>1. /\ UNCHANGED <<table, order, page, fetch, dialog, place, filled, typedFor, save>>
      /\ place # 0 /\ form' = [form EXCEPT ![f] = text] /\ typed' = typed \cup {f}
  BY DEF Type, tableVars
<1>2. f \in FormFields(dialog) /\ text \in Values \cup {Spaces}
  BY EditingAssumption DEF Edited
<1>3. /\ DOMAIN form' = FormFields(dialog)
      /\ form' = [g \in FormFields(dialog) |-> form'[g]]
      /\ form'[f] = text /\ \A g \in FormFields(dialog) \ {f} : form'[g] = form[g]
  BY <1>1, <1>2 DEF EditInv, FormInv
<1>4. FormInv'
  <2>1. Shown' = Shown
    BY <1>1 DEF Shown, RowAt
  <2> HIDE DEF Shown
  <2> QED BY <1>1, <1>2, <1>3, <2>1 DEF EditInv, FormInv
<1>5. TableInv' /\ VersionsGrow
  BY <1>1, TableWaits
<1>6. SaveInv'
  BY <1>1, <1>5, SaveWaits
<1> QED BY <1>1, <1>4, <1>5, <1>6 DEF EditInv

LEMMA CancelKeeps == EditInv /\ Cancel => EditInv'
<1> SUFFICES ASSUME EditInv, Cancel PROVE EditInv'
  OBVIOUS
<1>1. UNCHANGED <<table, order, page, fetch, dialog, save>> /\ place' = 0
  BY DEF Cancel, tableVars
<1>2. TableInv' /\ VersionsGrow
  BY <1>1, TableWaits
<1>3. SaveInv'
  BY <1>1, <1>2, SaveWaits
<1> QED BY <1>1, <1>2, <1>3 DEF EditInv, FormInv

(* What a save is to send was typed in, and is a value of the database.    *)
LEMMA BodiesAreTyped ==
  ASSUME EditInv, place # 0, Dirty
  PROVE  /\ DOMAIN Bodies \subseteq Nat
         /\ \A i \in DOMAIN Bodies : \A f \in DOMAIN Bodies[i] :
              f \in typed /\ Bodies[i][f] \in Values
<1>1. /\ dialog.requests \in Seq(SUBSET FormFields(dialog))
      /\ dialog.whole => \E f \in FormFields(dialog) : FormFields(dialog) = {f}
  BY EditingAssumption DEF EditInv
<1>2. /\ DOMAIN dialog.requests \subseteq Nat
      /\ \A i \in DOMAIN dialog.requests : dialog.requests[i] \subseteq FormFields(dialog)
  BY <1>1, LenProperties, ElementOfSeq
<1>3. /\ place \in 1..Len(page) /\ RowFits(dialog, Shown.row)
      /\ \A f \in FormFields(dialog) :
           /\ form[f] \in Values \cup {Spaces} /\ filled[f] = Shown.row.values[f]
           /\ f \notin typed => form[f] = filled[f]
  BY DEF EditInv, FormInv, TableInv, PageFits, Shown, RowAt
<1>4. \A f \in FormFields(dialog) :
        Parsed(form[f]) \in Values /\ (f \notin typed => Parsed(form[f]) = Shown.row.values[f])
  BY <1>3, ParsedFits DEF RowFits
<1>5. \E f \in FormFields(dialog) : f \in typed
  BY <1>3 DEF Dirty, EditInv, FormInv
<1> DEFINE sent(i) == IF dialog.whole THEN dialog.requests[i] ELSE ChangedFields(dialog.requests[i])
<1>6. /\ DOMAIN Bodies \subseteq DOMAIN dialog.requests
      /\ \A i \in DOMAIN Bodies : Bodies[i] = [f \in sent(i) |-> Parsed(form[f])]
  BY DEF Bodies
<1>7. ASSUME NEW i \in DOMAIN dialog.requests, NEW f \in sent(i)
      PROVE  f \in FormFields(dialog) /\ f \in typed
  <2>1. CASE dialog.whole
    BY <1>1, <1>2, <1>5, <1>7, <2>1
  <2>2. CASE ~dialog.whole
    BY <1>2, <1>4, <1>7, <2>2 DEF ChangedFields
  <2> QED BY <2>1, <2>2
<1> HIDE DEF sent
<1>8. ASSUME NEW i \in DOMAIN Bodies, NEW f \in DOMAIN Bodies[i]
      PROVE  f \in typed /\ Bodies[i][f] \in Values
  <2>1. f \in sent(i) /\ Bodies[i][f] = Parsed(form[f])
    BY <1>6, <1>8
  <2> QED BY <1>4, <1>6, <1>7, <2>1
<1> QED BY <1>2, <1>6, <1>8

LEMMA SubmitKeeps == EditInv /\ Submit => EditInv'
<1> SUFFICES ASSUME EditInv, Submit PROVE EditInv'
  OBVIOUS
<1>1. /\ UNCHANGED <<table, order, page, fetch, dialog, place, form, filled, typed, typedFor>>
      /\ place # 0 /\ Dirty
  BY DEF Submit, tableVars
<1> DEFINE begun == IF DOMAIN Bodies = {} THEN "answered" ELSE "sent"
<1>2. save' = [step |-> begun, place |-> place, id |-> Shown.id, todo |-> Bodies, ok |-> TRUE,
               typed |-> typed, typedFor |-> typedFor, version |-> 0, fetched |-> FALSE]
  BY DEF Submit, Idle
<1>3. /\ SaveRecords' /\ (begun = "sent" => DOMAIN Bodies # {})
      /\ save'.step = begun /\ save'.id = Shown.id /\ save'.todo = Bodies /\ save'.typed = typed
      /\ save'.typedFor = typedFor /\ save'.version = 0 /\ save'.fetched = FALSE
      /\ save'.step \in {"answered", "sent"}
  BY <1>2 DEF SaveRecords
<1> HIDE DEF begun
<1>4. /\ Shown.id \in Records /\ table[Shown.id].version \in Nat
      /\ dialog.refilledBy = "record" => typedFor = Shown.id
  BY <1>1 DEF EditInv, FormInv, TableInv, PageFits, RowFits, Shown, RowAt
<1>5. SaveIsOfRecord' /\ SaveIsKnown' /\ RefreshHasSave'
  BY <1>1, <1>3, <1>4 DEF SaveIsOfRecord, SaveIsKnown, RefreshHasSave
<1>6. SaveIsTyped'
  BY <1>1, <1>3, BodiesAreTyped DEF SaveIsTyped
<1>7. TableInv' /\ FormInv'
  BY <1>1, TableWaits, FormWaits
<1> QED BY <1>1, <1>3, <1>5, <1>6, <1>7 DEF EditInv, SaveInv

-----------------------------------------------------------------------------
(* The server *)

LEMMA AppliedWrites ==
  ASSUME EditInv, SaveApplied
  PROVE  /\ save.id \in Records /\ Sending \in DOMAIN save.todo
         /\ ValuesFit(Written(table[save.id].values, save.todo[Sending]))
         /\ Updated(save.id, Written(table[save.id].values, save.todo[Sending]))
         /\ order' \in Seq(Records)
<1>1. save.step = "sent" /\ Acceptable
      /\ Changed(save.id, Written(table[save.id].values, save.todo[Sending]))
  BY DEF SaveApplied
<1>2. Sending \in DOMAIN save.todo
  BY <1>1, MinIsIn DEF Sending, EditInv, SaveInv, SaveIsTyped
<1>3. save.id \in Records /\ order' \in Seq(Records)
  BY <1>1, OrderKept DEF Acceptable, Changed, EditInv
<1>4. /\ ValuesFit(table[save.id].values)
      /\ \A f \in DOMAIN save.todo[Sending] : save.todo[Sending][f] \in Values
  BY <1>2, <1>3 DEF EditInv, TableInv, RowFits, ValuesFit, SaveInv, SaveIsTyped
<1>5. ValuesFit(Written(table[save.id].values, save.todo[Sending]))
  BY <1>4 DEF ValuesFit, Written
<1> QED BY <1>1, <1>2, <1>3, <1>5 DEF Changed

LEMMA AppliedKeeps == EditInv /\ SaveApplied => EditInv'
<1> SUFFICES ASSUME EditInv, SaveApplied PROVE EditInv'
  OBVIOUS
<1>1. /\ save.step = "sent"
      /\ UNCHANGED <<page, fetch, changes, dialog, place, form, filled, typed, typedFor>>
  BY DEF SaveApplied
<1>2. /\ TableInv' /\ VersionsGrow /\ save.id \in Records
      /\ table'[save.id].version = table[save.id].version + 1
  BY <1>1, AppliedWrites, UpdateKeeps
<1>3. PICK answered \in BOOLEAN :
        save' = [save EXCEPT !.step = "answered", !.ok = answered,
                             !.todo = Restrict(save.todo, DOMAIN save.todo \ {Sending}),
                             !.version = table'[save.id].version]
  BY DEF SaveApplied
<1>4. /\ SaveRecords' /\ save'.step = "answered" /\ save'.id = save.id
      /\ save'.typed = save.typed /\ save'.typedFor = save.typedFor
      /\ save'.version = table'[save.id].version
      /\ save'.todo = Restrict(save.todo, DOMAIN save.todo \ {Sending})
  BY <1>3 DEF SaveRecords, EditInv, SaveInv
<1>5. /\ DOMAIN save'.todo \subseteq DOMAIN save.todo
      /\ \A i \in DOMAIN save'.todo : save'.todo[i] = save.todo[i]
  BY <1>4 DEF Restrict
<1>6. SaveIsTyped'
  BY <1>4, <1>5 DEF EditInv, SaveInv, SaveIsTyped
<1>7. SaveIsKnown' /\ SaveIsOfRecord' /\ RefreshHasSave'
  <2>1. table'[save.id].version \in Nat
    BY <1>2 DEF TableInv, RowFits
  <2> QED BY <1>1, <1>2, <1>4, <2>1
       DEF EditInv, SaveInv, SaveIsKnown, SaveIsOfRecord, RefreshHasSave
<1>8. FormInv'
  BY <1>1, FormWaits
<1> QED BY <1>1, <1>2, <1>4, <1>6, <1>7, <1>8 DEF EditInv, SaveInv

LEMMA RefusedKeeps == EditInv /\ SaveRefused => EditInv'
<1> SUFFICES ASSUME EditInv, SaveRefused PROVE EditInv'
  OBVIOUS
<1>1. /\ UNCHANGED <<table, order, page, fetch, dialog, place, form, filled, typed, typedFor>>
      /\ save.step = "sent" /\ save' = [save EXCEPT !.step = "answered", !.ok = FALSE]
  BY DEF SaveRefused, tableVars
<1>2. TableInv' /\ VersionsGrow /\ FormInv'
  BY <1>1, TableWaits, FormWaits
<1>3. /\ SaveRecords' /\ save'.step = "answered" /\ save'.id = save.id
      /\ save'.version = save.version /\ save'.todo = save.todo
      /\ save'.typed = save.typed /\ save'.typedFor = save.typedFor
  BY <1>1 DEF SaveRecords, EditInv, SaveInv
<1>4. SaveIsOfRecord' /\ SaveIsKnown' /\ SaveIsTyped'
  BY <1>1, <1>2, <1>3, KnownStays
<1>5. RefreshHasSave'
  BY <1>3 DEF RefreshHasSave
<1> QED BY <1>1, <1>2, <1>3, <1>4, <1>5 DEF EditInv, SaveInv

-----------------------------------------------------------------------------
(* The answer, in the browser *)

LEMMA NextRequestKeeps == EditInv /\ NextRequest => EditInv'
<1> SUFFICES ASSUME EditInv, NextRequest PROVE EditInv'
  OBVIOUS
<1>1. /\ UNCHANGED <<table, order, page, fetch, dialog, place, form, filled, typed, typedFor>>
      /\ save.step = "answered" /\ DOMAIN save.todo # {} /\ save' = [save EXCEPT !.step = "sent"]
  BY DEF NextRequest, tableVars
<1>2. TableInv' /\ VersionsGrow /\ FormInv'
  BY <1>1, TableWaits, FormWaits
<1>3. /\ SaveRecords' /\ save'.step = "sent" /\ save'.id = save.id
      /\ save'.version = save.version /\ save'.todo = save.todo
      /\ save'.typed = save.typed /\ save'.typedFor = save.typedFor
  BY <1>1 DEF SaveRecords, EditInv, SaveInv
<1>4. SaveIsOfRecord' /\ SaveIsKnown'
  BY <1>1, <1>2, <1>3, KnownStays
<1>5. SaveIsTyped' /\ RefreshHasSave'
  BY <1>1, <1>3 DEF SaveIsTyped, RefreshHasSave, EditInv, SaveInv
<1> QED BY <1>1, <1>2, <1>3, <1>4, <1>5 DEF EditInv, SaveInv

LEMMA IdleFits ==
  ASSUME save' = Idle, dialog' = dialog
  PROVE  SaveInv'
<1>1. /\ save'.step = "idle" /\ save'.id = NoRecord /\ save'.typedFor = NoRecord
      /\ save'.todo = <<>> /\ SaveRecords'
  BY DEF Idle, SaveRecords
<1>2. DOMAIN save'.todo = {}
  BY <1>1, EmptySeq
<1> QED BY <1>1, <1>2 DEF SaveInv, SaveIsOfRecord, SaveIsKnown, SaveIsTyped, RefreshHasSave

(* The page asked for now will have what was saved.                        *)
LEMMA RefreshingFits ==
  ASSUME EditInv, UNCHANGED <<table, order, page, dialog>>, Invalidated,
         save.step = "answered", save' = [save EXCEPT !.step = "refreshing"]
  PROVE  TableInv' /\ SaveInv'
<1>1. fetch'.state = "asked" /\ fetch'.page = <<>>
  BY DEF Invalidated, Asked
<1>2. TableInv' /\ VersionsGrow
  BY <1>1, TableWaits
<1>3. /\ SaveRecords' /\ save'.step = "refreshing" /\ save'.id = save.id
      /\ save'.version = save.version /\ save'.todo = save.todo
      /\ save'.typed = save.typed /\ save'.typedFor = save.typedFor
  BY DEF SaveRecords, EditInv, SaveInv
<1>4. SaveIsOfRecord' /\ SaveIsKnown' /\ SaveIsTyped'
  BY <1>2, <1>3, KnownStays
<1>5. RefreshHasSave'
  BY <1>1, <1>3 DEF RefreshHasSave
<1> QED BY <1>2, <1>3, <1>4, <1>5 DEF SaveInv

LEMMA AnsweredKeeps == EditInv /\ (Succeed \/ Fail \/ Settle) => EditInv'
<1> SUFFICES ASSUME EditInv PROVE Succeed \/ Fail \/ Settle => EditInv'
  OBVIOUS
<1>1. ASSUME dialog' = dialog, page' = page, StaysOpen \/ Closed
      PROVE  FormInv'
  <2>1. CASE place' = 0
    BY <2>1 DEF FormInv
  <2>2. CASE StaysOpen
    BY <1>1, <2>2, FormWaits DEF StaysOpen
  <2> QED BY <1>1, <2>1, <2>2 DEF Closed
<1>2. CASE Succeed
  <2>1. /\ save.step = "answered" /\ save' = [save EXCEPT !.step = "refreshing"] /\ Invalidated
        /\ UNCHANGED <<table, order, page, dialog>> /\ (StaysOpen \/ Closed)
    BY <1>2 DEF Succeed
  <2> QED BY <1>1, <2>1, RefreshingFits DEF EditInv
<1>3. CASE Fail
  <2>1. save.step = "answered" /\ UNCHANGED <<table, order, page, dialog>> /\ StaysOpen
    BY <1>3 DEF Fail, StaysOpen
  <2>2. CASE dialog.waits
    <3>1. save' = Idle /\ fetch' = fetch
      BY <1>3, <2>2 DEF Fail
    <3> QED BY <1>1, <2>1, <3>1, IdleFits, TableWaits DEF EditInv
  <2>3. CASE ~dialog.waits
    <3>1. save' = [save EXCEPT !.step = "refreshing"] /\ Invalidated
      BY <1>3, <2>3 DEF Fail
    <3> QED BY <1>1, <2>1, <3>1, RefreshingFits DEF EditInv
  <2> QED BY <2>2, <2>3
<1>4. CASE Settle
  <2>1. /\ save' = Idle /\ UNCHANGED <<table, order, page, fetch, dialog>>
        /\ StaysOpen \/ Closed
    BY <1>4 DEF Settle, tableVars
  <2> QED BY <1>1, <2>1, IdleFits, TableWaits DEF EditInv
<1> QED BY <1>2, <1>3, <1>4

-----------------------------------------------------------------------------
(* The list, and others *)

LEMMA RefreshedFits ==
  ASSUME EditInv, NEW succeeded \in BOOLEAN, NEW saved, saved = Refreshed(succeeded)
  PROVE  /\ DOMAIN saved = DOMAIN save
         /\ saved.id = save.id /\ saved.version = save.version /\ saved.todo = save.todo
         /\ saved.typed = save.typed /\ saved.typedFor = save.typedFor
         /\ saved.step = IF save.step = "refreshing" THEN "refreshed" ELSE save.step
         /\ saved.fetched = IF save.step = "refreshing" THEN succeeded ELSE save.fetched
BY DEF Refreshed, EditInv, SaveInv, SaveRecords

LEMMA ArrivedKeepsForm == EditInv /\ Rerender => FormInv'
<1> SUFFICES ASSUME EditInv, Rerender PROVE FormInv'
  OBVIOUS
<1> DEFINE gone == place # 0 /\ place \notin 1..Len(page')
           shown == page'[place]
           other == Watched(shown) # Watched(Shown)
<1>1. /\ page' = fetch.page /\ dialog' = dialog
      /\ place' = IF gone THEN 0 ELSE place
      /\ place # 0 /\ ~gone /\ other => Filled(shown)
      /\ ~gone /\ (place = 0 \/ ~other) => UNCHANGED <<form, filled, typed, typedFor>>
  BY DEF Rerender, ListArrived
<1>2. CASE place' = 0
  BY <1>2 DEF FormInv
<1>3. CASE place' # 0 /\ other
  <2>1. place' = place /\ place \in 1..Len(page') /\ Filled(shown)
    BY <1>1, <1>3
  <2>2. RowFits(dialog, shown.row)
    BY <1>1, <2>1 DEF EditInv, TableInv, PageFits
  <2> QED BY <1>1, <2>1, <2>2, FillingFits
<1>4. CASE place' # 0 /\ ~other
  <2>1. /\ place' = place /\ place # 0 /\ place \in 1..Len(page')
        /\ UNCHANGED <<form, filled, typed, typedFor>>
    BY <1>1, <1>4
  <2>2. Shown' = shown
    BY <2>1 DEF Shown, RowAt
  <2>3. \A f \in FormFields(dialog) : shown.row.values[f] = Shown.row.values[f]
    <3>1. ToForm(shown.row) = ToForm(Shown.row)
      BY <1>4 DEF Watched
    <3>2. \A f \in FormFields(dialog) :
            ToForm(shown.row)[f] = shown.row.values[f] /\ ToForm(Shown.row)[f] = Shown.row.values[f]
      BY DEF ToForm
    <3> QED BY <3>1, <3>2
  <2>4. dialog.refilledBy = "record" => shown = Shown
    BY <1>4 DEF Watched
  <2> HIDE DEF Shown, shown, other, gone
  <2> QED BY <1>1, <2>1, <2>2, <2>3, <2>4 DEF EditInv, FormInv
<1> QED BY <1>2, <1>3, <1>4

(* A page that arrives while a save waits for it was asked for after it.   *)
LEMMA ArrivedKeeps == EditInv /\ Rerender => EditInv'
<1> SUFFICES ASSUME EditInv, Rerender PROVE EditInv'
  OBVIOUS
<1>1. /\ fetch.state = "answered" /\ page' = fetch.page /\ fetch' = NoFetch
      /\ UNCHANGED <<table, order, dialog>>
  BY DEF Rerender, ListArrived
<1>2. TableInv' /\ VersionsGrow
  <2>1. PageFits(dialog, page') /\ PageFits(dialog, fetch'.page)
    BY <1>1, EmptySeq DEF EditInv, TableInv, PageFits, NoFetch
  <2>2. \A r \in Records : table[r].version \in Nat
    BY DEF EditInv, TableInv, RowFits
  <2> QED BY <1>1, <2>1, <2>2 DEF EditInv, TableInv, VersionsGrow
<1>3. PICK at : save' = [Refreshed(TRUE) EXCEPT !.place = at]
  BY DEF Rerender
<1> DEFINE saved == Refreshed(TRUE)
<1>4. /\ DOMAIN saved = DOMAIN save
      /\ saved.id = save.id /\ saved.version = save.version /\ saved.todo = save.todo
      /\ saved.typed = save.typed /\ saved.typedFor = save.typedFor
      /\ saved.step = IF save.step = "refreshing" THEN "refreshed" ELSE save.step
  BY RefreshedFits
<1> HIDE DEF saved
<1>5. /\ DOMAIN save' = DOMAIN save
      /\ save'.id = save.id /\ save'.version = save.version /\ save'.todo = save.todo
      /\ save'.typed = save.typed /\ save'.typedFor = save.typedFor
      /\ save'.step = IF save.step = "refreshing" THEN "refreshed" ELSE save.step
  <2>1. ASSUME NEW old, save' = [old EXCEPT !.place = at],
               DOMAIN old = {"step", "place", "id", "todo", "ok", "typed", "typedFor",
                             "version", "fetched"}
        PROVE  /\ DOMAIN save' = DOMAIN old
               /\ save'.id = old.id /\ save'.version = old.version /\ save'.todo = old.todo
               /\ save'.typed = old.typed /\ save'.typedFor = old.typedFor
               /\ save'.step = old.step
    BY <2>1
  <2>2. save' = [saved EXCEPT !.place = at]
    BY <1>3 DEF saved
  <2> QED BY <1>4, <2>1, <2>2 DEF EditInv, SaveInv, SaveRecords
<1>6. SaveRecords' /\ SaveIsTyped'
  BY <1>5 DEF EditInv, SaveInv, SaveRecords, SaveIsTyped
<1>7. CASE save.step = "idle"
  <2>1. SaveIsOfRecord' /\ SaveIsKnown' /\ RefreshHasSave'
    BY <1>1, <1>5, <1>7 DEF EditInv, SaveInv, SaveIsOfRecord, SaveIsKnown, RefreshHasSave
  <2> QED BY <1>1, <1>2, <1>6, <2>1, ArrivedKeepsForm DEF EditInv, SaveInv
<1>8. CASE save.step # "idle"
  <2>1. SaveIsOfRecord' /\ SaveIsKnown' /\ \A rows : HasSave(rows)' <=> HasSave(rows)
    BY <1>1, <1>2, <1>5, <1>8, KnownStays
  <2>2. RefreshHasSave'
    <3>1. fetch'.state # "answered"
      BY <1>1 DEF NoFetch
    <3>2. save'.step = "refreshed" => HasSave(page)'
      BY <1>1, <1>5 DEF EditInv, SaveInv, RefreshHasSave, HasSave
    <3> QED BY <3>1, <3>2 DEF RefreshHasSave
  <2> QED BY <1>1, <1>2, <1>6, <2>1, <2>2, ArrivedKeepsForm DEF EditInv, SaveInv
<1> QED BY <1>7, <1>8

LEMMA FailedKeeps == EditInv /\ FetchFailed => EditInv'
<1> SUFFICES ASSUME EditInv, FetchFailed PROVE EditInv'
  OBVIOUS
<1>1. /\ fetch' = NoFetch /\ save' = Refreshed(FALSE)
      /\ UNCHANGED <<table, order, page, dialog, place, form, filled, typed, typedFor>>
  BY DEF FetchFailed, ListFailed
<1>2. TableInv' /\ VersionsGrow /\ FormInv'
  BY <1>1, TableWaits, FormWaits DEF NoFetch
<1>3. /\ DOMAIN save' = DOMAIN save
      /\ save'.id = save.id /\ save'.version = save.version /\ save'.todo = save.todo
      /\ save'.typed = save.typed /\ save'.typedFor = save.typedFor
      /\ save'.step = IF save.step = "refreshing" THEN "refreshed" ELSE save.step
      /\ save'.fetched = IF save.step = "refreshing" THEN FALSE ELSE save.fetched
  BY <1>1, RefreshedFits
<1>4. SaveRecords' /\ SaveIsTyped'
  BY <1>3 DEF EditInv, SaveInv, SaveRecords, SaveIsTyped
<1>5. fetch'.state # "answered"
  BY <1>1 DEF NoFetch
<1>6. SaveIsOfRecord' /\ SaveIsKnown' /\ RefreshHasSave'
  <2>1. CASE save.step = "idle"
    BY <1>1, <1>3, <1>5, <2>1 DEF EditInv, SaveInv, SaveIsOfRecord, SaveIsKnown, RefreshHasSave
  <2>2. CASE save.step # "idle"
    BY <1>1, <1>2, <1>3, <1>5, <2>2, KnownStays DEF EditInv, SaveInv, RefreshHasSave, HasSave
  <2> QED BY <2>1, <2>2
<1> QED BY <1>1, <1>2, <1>4, <1>6 DEF EditInv, SaveInv

(* An answer with the rows of now has every version saved so far.          *)
LEMMA AnswerKeeps == EditInv /\ ListAnswered /\ UNCHANGED editVars => EditInv'
<1> SUFFICES ASSUME EditInv, ListAnswered, UNCHANGED editVars PROVE EditInv'
  OBVIOUS
<1>1. /\ fetch' = [state |-> "answered", page |-> ListNow]
      /\ UNCHANGED <<table, order, page, dialog, place, form, filled, typed, typedFor, save>>
  BY DEF ListAnswered, editVars
<1>2. /\ PageFits(dialog, ListNow)
      /\ \A i \in 1..Len(ListNow) : ListNow[i].row = table[ListNow[i].id]
  BY ListNowFits DEF EditInv
<1>3. TableInv' /\ FormInv'
  BY <1>1, <1>2, FormWaits DEF EditInv, TableInv
<1>4. save.step # "idle" => HasSave(ListNow)
  <2>1. save.step # "idle" =>
          save.version \in Nat /\ table[save.id].version \in Nat /\ save.version <= table[save.id].version
    BY DEF EditInv, SaveInv, SaveIsKnown, TableInv, RowFits
  <2> QED BY <1>2, <2>1 DEF HasSave
<1>5. RefreshHasSave'
  BY <1>1, <1>4 DEF EditInv, SaveInv, RefreshHasSave, HasSave
<1>6. SaveRecords' /\ SaveIsOfRecord' /\ SaveIsKnown' /\ SaveIsTyped'
  BY <1>1 DEF EditInv, SaveInv, SaveRecords, SaveIsOfRecord, SaveIsKnown, SaveIsTyped
<1> QED BY <1>1, <1>3, <1>5, <1>6 DEF EditInv, SaveInv

LEMMA OthersKeep ==
  ASSUME EditInv, UNCHANGED <<page, fetch>>, UNCHANGED editVars, NEW r \in Records,
         NEW values, ValuesFit(values), Updated(r, values), order' \in Seq(Records)
  PROVE  EditInv'
<1>1. UNCHANGED <<dialog, place, form, filled, typed, typedFor, save>>
  BY DEF editVars
<1>2. TableInv' /\ VersionsGrow
  BY <1>1, UpdateKeeps
<1>3. FormInv' /\ SaveInv'
  BY <1>1, <1>2, FormWaits, SaveWaits
<1> QED BY <1>1, <1>2, <1>3 DEF EditInv

LEMMA ElsewhereKeeps == EditInv /\ Elsewhere => EditInv'
<1> SUFFICES ASSUME EditInv, Elsewhere PROVE EditInv'
  OBVIOUS
<1> DEFINE others == \/ \E r \in Records, f \in Edited(dialog) : \E text \in Texts[f] :
                          OthersChange(r, [table[r].values EXCEPT ![f] = Parsed(text)])
                     \/ \E r \in Records : OthersChange(r, table[r].values)
                     \/ \E r \in Records : OthersAdd(r) \/ OthersRemove(r)
<1>1. UNCHANGED editVars /\ (WindowFocused \/ ListAnswered \/ others)
  BY DEF Elsewhere
<1>2. CASE WindowFocused
  <2>1. /\ fetch'.state = "asked" /\ fetch'.page = <<>> /\ UNCHANGED <<table, order, page>>
        /\ UNCHANGED <<dialog, place, form, filled, typed, typedFor, save>>
    BY <1>1, <1>2 DEF WindowFocused, Asked, editVars
  <2>2. TableInv' /\ VersionsGrow /\ FormInv'
    BY <2>1, TableWaits, FormWaits
  <2>3. SaveInv'
    BY <2>1, <2>2, SaveWaits
  <2> QED BY <2>1, <2>2, <2>3 DEF EditInv
<1>3. CASE ListAnswered
  BY <1>1, <1>3, AnswerKeeps
<1>4. CASE others
  <2>1. UNCHANGED <<page, fetch>>
    BY <1>4 DEF OthersChange, OthersAdd, OthersRemove, ByOthers
  <2>2. \A r \in Records : ValuesFit(table[r].values)
    BY DEF EditInv, TableInv, RowFits, ValuesFit
  <2>3. ASSUME NEW r \in Records, NEW values, ValuesFit(values), OthersChange(r, values)
        PROVE  EditInv'
    <3>1. Updated(r, values) /\ order' \in Seq(Records)
      BY <2>3, OrderKept DEF OthersChange, Changed, EditInv
    <3> QED BY <1>1, <2>1, <2>3, <3>1, OthersKeep
  <2>4. ASSUME NEW r \in Records, NEW f \in Edited(dialog), NEW text \in Texts[f]
        PROVE  ValuesFit([table[r].values EXCEPT ![f] = Parsed(text)])
    <3>1. f \in FormFields(dialog) /\ Parsed(text) \in Values
      BY EditingAssumption, ParsedFits DEF Edited
    <3>2. ASSUME NEW values, ValuesFit(values) PROVE ValuesFit([values EXCEPT ![f] = Parsed(text)])
      BY <3>1, <3>2 DEF ValuesFit
    <3> QED BY <2>2, <3>2
  <2>5. ASSUME NEW r \in Records, OthersAdd(r) PROVE EditInv'
    <3>1. /\ table' = [table EXCEPT ![r] = [table[r] EXCEPT !.version = 1]] /\ table[r].version = 0
          /\ \E i \in 1..(Len(order) + 1) : order' = InsertAt(order, i, r)
      BY <2>5 DEF OthersAdd
    <3>2. table[r] = [values |-> table[r].values, version |-> table[r].version]
      BY DEF EditInv, TableInv
    <3>3. Updated(r, table[r].values)
      <4>1. ASSUME NEW row, row = [values |-> row.values, version |-> row.version]
            PROVE  [row EXCEPT !.version = 1] = [values |-> row.values, version |-> 1]
        BY <4>1
      <4>2. [table[r] EXCEPT !.version = 1] = [values |-> table[r].values, version |-> 1]
        BY <3>2, <4>1
      <4>3. table[r].version + 1 = 1
        BY <3>1
      <4>4. table' = [table EXCEPT ![r] = [values |-> table[r].values, version |-> 1]]
        BY <3>1, <4>2
      <4>5. table' = [table EXCEPT ![r] = [values |-> table[r].values, version |-> table[r].version + 1]]
        BY <4>3, <4>4
      <4> QED BY <4>5 DEF Updated
    <3>4. order' \in Seq(Records)
      BY <3>1, InsertedOne DEF EditInv, TableInv
    <3> QED BY <1>1, <2>1, <2>2, <3>3, <3>4, OthersKeep
  <2>6. ASSUME NEW r \in Records, OthersRemove(r) PROVE EditInv'
    <3>1. Updated(r, table[r].values) /\ order' \in Seq(Records)
      BY <2>6, OrderKept DEF OthersRemove, Unlisted, EditInv
    <3> QED BY <1>1, <2>1, <2>2, <3>1, OthersKeep
  <2> QED BY <1>4, <2>2, <2>3, <2>4, <2>5, <2>6
<1> HIDE DEF others
<1> QED BY <1>1, <1>2, <1>3, <1>4

-----------------------------------------------------------------------------
(* Every behaviour *)

LEMMA EditInit == Init => EditInv
<1> SUFFICES ASSUME Init PROVE EditInv
  OBVIOUS
<1>1. PICK values \in InitialValues :
        table = [r \in Records |-> [values |-> values[r], version |-> 0]]
  BY DEF Init, TableInit
<1>2. dialog \in Dialogs /\ order \in Seq(Records) /\ page = ListNow /\ fetch = NoFetch
  BY TableAssumption DEF Init, TableInit
<1>3. \A r \in Records : /\ RowFits(dialog, table[r])
                         /\ table[r] = [values |-> table[r].values, version |-> table[r].version]
  BY <1>1, <1>2, EditingAssumption DEF RowFits
<1>4. PageFits(dialog, fetch.page)
  BY <1>2, EmptySeq DEF PageFits, NoFetch
<1>5. PageFits(dialog, ListNow)
  <2>1. Len(order) \in Nat /\ \A i \in 1..Len(order) : order[i] \in Records
    BY <1>2, LenProperties, ElementOfSeq
  <2>2. Len(ListNow) = Len(order)
    BY <2>1 DEF ListNow
  <2>3. \A i \in 1..Len(order) : ListNow[i].id = order[i] /\ ListNow[i].row = table[order[i]]
    BY DEF ListNow
  <2> QED BY <1>3, <2>1, <2>2, <2>3 DEF PageFits
<1>6. TableInv
  BY <1>1, <1>2, <1>3, <1>4, <1>5 DEF TableInv
<1>7. FormInv
  BY DEF Init, FormInv
<1>8. save = Idle /\ DOMAIN Idle.todo = {}
  BY EmptySeq DEF Init, Idle
<1>9. SaveInv
  BY <1>8
     DEF Idle, SaveInv, SaveRecords, SaveIsOfRecord, SaveIsKnown, SaveIsTyped, RefreshHasSave
<1> QED BY <1>2, <1>6, <1>7, <1>9 DEF EditInv

LEMMA EditStutter == EditInv /\ UNCHANGED vars => EditInv'
<1> SUFFICES ASSUME EditInv, UNCHANGED vars PROVE EditInv'
  OBVIOUS
<1>1. UNCHANGED <<table, order, page, fetch, dialog, place, form, filled, typed, typedFor, save>>
  BY DEF vars, tableVars, editVars
<1>2. TableInv' /\ VersionsGrow /\ FormInv'
  BY <1>1, TableWaits, FormWaits
<1>3. SaveInv'
  BY <1>1, <1>2, SaveWaits
<1> QED BY <1>1, <1>2, <1>3 DEF EditInv

LEMMA Editing == Spec => []EditInv
<1>1. EditInv /\ [Next]_vars => EditInv'
  BY EditStutter, OpenKeeps, TypeKeeps, CancelKeeps, SubmitKeeps, AppliedKeeps, RefusedKeeps,
     NextRequestKeeps, AnsweredKeeps, ArrivedKeeps, FailedKeeps, ElsewhereKeeps DEF Next
<1> QED BY EditInit, <1>1, PTL DEF Spec

(* What EditInv does not say of the types: of closed dialogs, and of a     *)
(* place, which is one of the page however many rows are left of it.       *)
PlacesInv ==
  /\ fetch.state \in {"none", "asked", "answered"} /\ changes \in 0..MaxOthers
  /\ Len(page) \in Nat /\ Len(fetch.page) \in Nat
  /\ place \in 0..Len(page) /\ save.place \in 0..Len(page)
  /\ form \in [FormFields(dialog) -> Values \cup {Spaces}]
  /\ filled \in [FormFields(dialog) -> Values]
  /\ typed \subseteq FormFields(dialog)
  /\ typedFor \in Records /\ save.id \in Records

LEMMA NoFormFits ==
  ASSUME Records # {}
  PROVE  /\ Empty \in [FormFields(dialog) -> Values]
         /\ Empty \in [FormFields(dialog) -> Values \cup {Spaces}]
         /\ NoRecord \in Records
BY EditingAssumption DEF Empty, NoRecord

LEMMA ShownRowFits ==
  ASSUME EditInv, NEW rows, PageFits(dialog, rows), NEW i \in 1..Len(rows)
  PROVE  /\ ToForm(rows[i].row) \in [FormFields(dialog) -> Values]
         /\ ToForm(rows[i].row) \in [FormFields(dialog) -> Values \cup {Spaces}]
         /\ rows[i].id \in Records
BY DEF PageFits, RowFits, ToForm

LEMMA PlacesInit == Records # {} /\ Init => PlacesInv
<1> SUFFICES ASSUME Records # {}, Init PROVE PlacesInv
  OBVIOUS
<1>1. Len(page) \in Nat
  <2>1. Len(order) \in Nat
    BY TableAssumption, LenProperties DEF Init, TableInit
  <2> QED BY <2>1 DEF Init, TableInit, ListNow
<1>2. fetch = NoFetch /\ changes = 0 /\ MaxOthers \in Nat
  BY TableAssumption DEF Init, TableInit
<1>3. /\ place = 0 /\ form = Empty /\ filled = Empty /\ typed = {} /\ typedFor = NoRecord
      /\ save.place = 0 /\ save.id = NoRecord
  BY DEF Init, Idle
<1>4. fetch.state = "none" /\ fetch.page = <<>> /\ Len(fetch.page) = 0
  BY <1>2, EmptySeq DEF NoFetch
<1> QED BY <1>1, <1>2, <1>3, <1>4, NoFormFits DEF PlacesInv

LEMMA ListLengths ==
  ASSUME TableInv
  PROVE  Len(ListNow) \in Nat
<1>1. Len(order) \in Nat
  BY LenProperties DEF TableInv
<1> QED BY <1>1 DEF ListNow

LEMMA QueryStep ==
  ASSUME EditInv, PlacesInv, [Next]_vars
  PROVE  /\ fetch'.state \in {"none", "asked", "answered"} /\ changes' \in 0..MaxOthers
         /\ Len(page') \in Nat /\ Len(fetch'.page) \in Nat
<1> USE DEF PlacesInv
<1>1. ASSUME fetch' = NoFetch \/ fetch' = Asked
      PROVE  fetch'.state \in {"none", "asked", "answered"} /\ Len(fetch'.page) \in Nat
  <2>1. fetch'.state \in {"none", "asked", "answered"} /\ fetch'.page = <<>>
    BY <1>1 DEF NoFetch, Asked
  <2> QED BY <2>1, EmptySeq
<1>2. CASE UNCHANGED <<page, fetch, changes>>
  BY <1>2
<1>3. CASE Succeed \/ Fail \/ FetchFailed
  <2>1. (UNCHANGED fetch \/ fetch' = NoFetch \/ fetch' = Asked) /\ UNCHANGED <<page, changes>>
    BY <1>3 DEF Succeed, Fail, FetchFailed, ListFailed, Invalidated
  <2> QED BY <1>1, <2>1
<1>4. CASE Rerender
  BY <1>1, <1>4 DEF Rerender, ListArrived
<1>5. CASE Elsewhere
  <2>1. CASE WindowFocused
    BY <1>1, <2>1 DEF WindowFocused
  <2>2. CASE ListAnswered
    BY <2>2, ListLengths DEF ListAnswered, EditInv
  <2>3. CASE ByOthers
    BY <2>3, TableAssumption DEF ByOthers
  <2> QED BY <1>5, <2>1, <2>2, <2>3 DEF Elsewhere, OthersChange, OthersAdd, OthersRemove
<1> QED BY <1>2, <1>3, <1>4, <1>5 DEF Next, vars, tableVars, Open, Type, Cancel, Submit,
     SaveApplied, SaveRefused, NextRequest, Settle

(* The form is left alone, emptied, or filled with a row of a page; what is *)
(* typed is one of the texts for the field.                                *)
LEMMA FormStep ==
  ASSUME Records # {}, EditInv, PlacesInv, [Next]_vars
  PROVE  /\ form' \in [FormFields(dialog) -> Values \cup {Spaces}]
         /\ filled' \in [FormFields(dialog) -> Values]
         /\ typed' \subseteq FormFields(dialog) /\ typedFor' \in Records
<1> USE DEF PlacesInv
<1>1. CASE UNCHANGED <<form, filled, typed, typedFor>>
  BY <1>1
<1>2. CASE Emptied
  BY <1>2, NoFormFits DEF Emptied
<1>3. ASSUME NEW rows, PageFits(dialog, rows), NEW i \in 1..Len(rows), Filled(rows[i])
      PROVE  /\ form' \in [FormFields(dialog) -> Values \cup {Spaces}]
             /\ filled' \in [FormFields(dialog) -> Values]
             /\ typed' \subseteq FormFields(dialog) /\ typedFor' \in Records
  BY <1>3, ShownRowFits DEF Filled
<1>4. CASE \E i \in 1..Len(page) : Open(i)
  BY <1>3, <1>4 DEF Open, RowAt, EditInv, TableInv
<1>5. CASE \E f \in Edited(dialog) : \E text \in Texts[f] : Type(f, text)
  BY <1>5, EditingAssumption DEF Type, Edited
<1>6. CASE Rerender
  <2> DEFINE gone == place # 0 /\ place \notin 1..Len(page')
  <2>1. \/ UNCHANGED <<form, filled, typed, typedFor>> \/ Emptied
        \/ place # 0 /\ ~gone /\ Filled(page'[place])
    BY <1>6 DEF Rerender
  <2>2. PageFits(dialog, page')
    BY <1>6 DEF Rerender, ListArrived, EditInv, TableInv
  <2> QED BY <1>1, <1>2, <1>3, <2>1, <2>2
<1> QED BY <1>1, <1>2, <1>4, <1>5, <1>6 DEF Next, vars, editVars, Cancel, Submit, SaveApplied,
     SaveRefused, NextRequest, Succeed, Fail, Settle, Closed, StaysOpen, FetchFailed, Elsewhere

(* A place is that of the dialog, or of the request sent from it, and is   *)
(* forgotten when the page gets shorter.                                   *)
LEMMA PlaceStep ==
  ASSUME Records # {}, EditInv, PlacesInv, [Next]_vars
  PROVE  /\ place' \in 0..Len(page') /\ save'.place \in 0..Len(page')
         /\ save'.id \in Records
<1> USE DEF PlacesInv
<1>1. DOMAIN save = {"step", "place", "id", "todo", "ok", "typed", "typedFor", "version", "fetched"}
  BY DEF EditInv, SaveInv, SaveRecords
<1>2. Idle.place = 0 /\ Idle.id \in Records
  BY NoFormFits DEF Idle
<1>3. \A succeeded : Refreshed(succeeded).place = save.place /\ Refreshed(succeeded).id = save.id
  BY <1>1 DEF Refreshed
<1>4. ASSUME place' \in {0, place}, UNCHANGED page,
             save'.place \in {0, place, save.place}, save'.id \in Records
      PROVE  /\ place' \in 0..Len(page') /\ save'.place \in 0..Len(page')
             /\ save'.id \in Records
  BY <1>4
<1>5. CASE \E i \in 1..Len(page) : Open(i)
  BY <1>5 DEF Open, tableVars
<1>6. CASE UNCHANGED <<place, save, page>>
  BY <1>4, <1>6
<1>7. CASE Cancel
  BY <1>4, <1>7 DEF Cancel, tableVars
<1>8. CASE Submit
  <2>1. place # 0 /\ save'.place = place /\ save'.id = Shown.id /\ UNCHANGED <<place, page>>
    BY <1>8 DEF Submit, Idle, tableVars
  <2>2. Shown.id \in Records
    BY <2>1 DEF Shown, RowAt, EditInv, FormInv, TableInv, PageFits
  <2> QED BY <1>4, <2>1, <2>2
<1>9. CASE SaveApplied \/ SaveRefused \/ NextRequest
  <2>1. save'.place = save.place /\ save'.id = save.id /\ UNCHANGED <<place, page>>
    BY <1>1, <1>9 DEF SaveApplied, SaveRefused, NextRequest, tableVars
  <2> QED BY <1>4, <2>1
<1>10. CASE Succeed \/ Fail \/ Settle
  <2>1. /\ place' \in {0, place} /\ UNCHANGED page
        /\ save' = Idle \/ save' = [save EXCEPT !.step = "refreshing"]
    BY <1>10 DEF Succeed, Fail, Settle, Closed, StaysOpen, tableVars
  <2>2. save'.place \in {0, save.place} /\ save'.id \in Records
    BY <1>1, <1>2, <2>1
  <2> QED BY <1>4, <2>1, <2>2
<1>11. CASE Rerender
  <2>1. Len(page') \in Nat
    BY <1>11, QueryStep
  <2>2. place' \in 0..Len(page')
    BY <1>11, <2>1 DEF Rerender
  <2>3. PICK old : /\ old.place = save.place /\ old.id = save.id /\ old = Refreshed(TRUE)
                   /\ save' = [old EXCEPT !.place = IF @ > Len(page') THEN 0 ELSE @]
    BY <1>3, <1>11 DEF Rerender
  <2>4. DOMAIN old = DOMAIN save
    BY <1>1, <2>3 DEF Refreshed
  <2>5. save'.id = save.id /\ save'.place = IF save.place > Len(page') THEN 0 ELSE save.place
    BY <1>1, <2>3, <2>4
  <2> QED BY <2>1, <2>2, <2>5
<1>12. CASE FetchFailed
  BY <1>3, <1>4, <1>12 DEF FetchFailed, ListFailed
<1> QED BY <1>5, <1>6, <1>7, <1>8, <1>9, <1>10, <1>11, <1>12 DEF Next, vars, tableVars, editVars,
     Type, Elsewhere, WindowFocused, ListAnswered, OthersChange, OthersAdd, OthersRemove, ByOthers

LEMMA PlacesStep ==
  ASSUME Records # {}, EditInv, PlacesInv, [Next]_vars
  PROVE  PlacesInv'
<1>1. dialog' = dialog
  BY DEF Next, vars, editVars, Open, Type, Cancel, Submit, SaveApplied, SaveRefused, NextRequest,
     Succeed, Fail, Settle, Rerender, FetchFailed, Elsewhere
<1> QED BY <1>1, QueryStep, FormStep, PlaceStep DEF PlacesInv

(* The form, what it was filled with and the save are of the fields of the *)
(* dialog and of known records, and no place is beyond the page in view,   *)
(* however the page shrinks under the dialog (DataTable.tsx:159).          *)
THEOREM EditingIsTyped ==
  ASSUME Records # {}
  PROVE  Spec => []TypeOK
<1>1. EditInv /\ PlacesInv => TypeOK
  BY DEF EditInv, TableInv, RowFits, PageFits, SaveInv, SaveRecords, PlacesInv, TypeOK, TableTypeOK
<1>2. EditInv /\ PlacesInv /\ [Next]_vars => PlacesInv'
  BY PlacesStep
<1>3. Init => PlacesInv
  BY PlacesInit
<1> QED BY Editing, <1>1, <1>2, <1>3, PTL DEF Spec

(* What was typed for one record is never sent to another one, whatever    *)
(* record the list brings under the open dialog (DataTable.tsx:159), in    *)
(* every dialog that watches its record.                                   *)
THEOREM InputIsForItsRecord == Spec => []InputStaysWithItsRecord
<1>1. EditInv => InputStaysWithItsRecord
  BY DEF EditInv, SaveInv, SaveIsOfRecord, InputStaysWithItsRecord
<1> QED BY Editing, <1>1, PTL

(* What others changed in a record meanwhile survives a save, whatever the  *)
(* person did and saw before it.                                           *)
THEOREM OnlyTypedFieldsAreSaved == Spec => SaveTouchesWhatWasTyped
<1>1. ASSUME EditInv, SaveApplied, NEW f \in DOMAIN table[save.id].values,
             table'[save.id].values[f] # table[save.id].values[f]
      PROVE  f \in save.typed
  <2>1. /\ Sending \in DOMAIN save.todo
        /\ table'[save.id].values = Written(table[save.id].values, save.todo[Sending])
    BY <1>1, AppliedWrites, UpdateKeeps DEF SaveApplied
  <2>2. f \in DOMAIN save.todo[Sending]
    BY <1>1, <2>1 DEF Written
  <2> QED BY <1>1, <2>1, <2>2 DEF EditInv, SaveInv, SaveIsTyped
<1>2. EditInv /\ [Next]_vars =>
        [SaveApplied => \A f \in DOMAIN table[save.id].values :
           table'[save.id].values[f] # table[save.id].values[f] => f \in save.typed]_vars
  BY <1>1
<1> QED BY Editing, <1>2, PTL DEF Spec, SaveTouchesWhatWasTyped

(* When a save is over, the page has the record as it was saved or newer:   *)
(* no answer to an earlier request for the list passes for the later one.  *)
THEOREM SavesAreShown == Spec => SavedRecordIsShown
<1>1. ASSUME EditInv, Settle, save.ok, save.fetched, NEW i \in 1..Len(page), page[i].id = save.id
      PROVE  page[i].row.version >= save.version
  BY <1>1 DEF Settle, EditInv, SaveInv, RefreshHasSave, HasSave
<1>2. EditInv /\ [Next]_vars =>
        [Settle /\ save.ok /\ save.fetched =>
           \A i \in 1..Len(page) : page[i].id = save.id => page[i].row.version >= save.version]_vars
  BY <1>1
<1> QED BY Editing, <1>2, PTL DEF Spec, SavedRecordIsShown
=============================================================================
