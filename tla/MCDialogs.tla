------------------------------ MODULE MCDialogs ------------------------------
(***************************************************************************)
(* The dialogs beside the edit dialogs: the confirmations of RecordActions,*)
(* the dialog of a PAK's access key, the add dialogs, and the range of     *)
(* DevEUIs that the one for batches shows on its second page.  They share  *)
(* no state, and one is open at a time: TLC explores one kind after the    *)
(* other, and the variables of the kinds that are not used never change.   *)
(***************************************************************************)
EXTENDS MCRecordActions

CONSTANTS
  Paks, Archived, MaxReads, MaxRotations,
  Forms, Texts, Blank, MaxRecords,
  DevEuiPrefixes, MaxSerial, Quantities, NoPrefix

VARIABLES
  used,
  keys, row, open, key, asked, reads, current, confirming, rotation, least, late,
  addDialog, isOpen, step, form, created, creation, records, told, unknown,
  taken, ranges, shown, rangePage, choice, cache, rangeFetch, failed, mutation, own

Key == INSTANCE AccessKeyDialog
Creation == INSTANCE RecordCreation
            WITH Dialogs <- Forms, dialog <- addDialog, request <- creation
Preview == INSTANCE BatchPreview
           WITH isOpen <- shown, step <- rangePage, form <- choice,
                fetch <- rangeFetch, request <- mutation

ASSUME RotationsAssumption == Key!KeysAssumption
ASSUME FormsAssumption == Creation!CreationAssumption
ASSUME RangesAssumption == Preview!PreviewAssumption

keyVars == <<keys, row, open, key, asked, reads, current, confirming, rotation, least, late>>
creationVars == <<addDialog, isOpen, step, form, created, creation, records, told, unknown>>
previewVars ==
  <<taken, ranges, shown, rangePage, choice, cache, rangeFetch, failed, mutation, own>>
mcVars == <<used, vars, keyVars, creationVars, previewVars>>

(* What a form is does not depend on which there are: TLC takes Forms from *)
(* an instance that has none.                                              *)
Form == INSTANCE RecordCreation
        WITH Dialogs <- {}, dialog <- addDialog, request <- creation

AddForms ==
  {Form!AddUser, Form!AddPak, Form!AddBatch, Form!AddProductionOrder,
   Form!AddKgPrefix, Form!AddKgVersion, Form!AddDefectGroup, Form!AddDefectType}

MCInit ==
  /\ used \in {"confirmation", "key", "creation", "preview"}
  /\ Init /\ Key!Init /\ Creation!Init /\ Preview!Init
  /\ used # "confirmation" => dialog = StatusPak /\ \A r \in Records : table[r].values = InProduction
  /\ used # "key" => row = CHOOSE p \in Paks : TRUE
  /\ used # "creation" => addDialog = Creation!AddBatch

MCNext ==
  /\ UNCHANGED used
  /\ \/ used = "confirmation" /\ Next /\ UNCHANGED <<keyVars, creationVars, previewVars>>
     \/ used = "key" /\ Key!Next /\ UNCHANGED <<vars, creationVars, previewVars>>
     \/ used = "creation" /\ Creation!Next /\ UNCHANGED <<vars, keyVars, previewVars>>
     \/ used = "preview" /\ Preview!Next /\ UNCHANGED <<vars, keyVars, creationVars>>

MCSpec == MCInit /\ [][MCNext]_mcVars

-----------------------------------------------------------------------------
(* The key dialog says that the key could not be loaded only when the      *)
(* request of this opening has failed (ViewPakAccessKey.tsx:68-85).  The   *)
(* key it shows held when it was opened, or came later, and is no older    *)
(* than the one last rotated in it (31-42, 93-96), unless an answer the    *)
(* server gave before that comes after the closing or the rotation (48).   *)
KeyIsTold == Key!KeyIsTold

(* Every record of this browser's making is announced once, unless its     *)
(* answer was lost: none is created twice by the button that stays on the  *)
(* screen until the lists are refreshed, by a dialog closed and opened     *)
(* again over its own request, or by a step taken back.                    *)
RecordsAreAnnounced == Creation!RecordsAreAnnounced

(* The key of a new PAK leaves the screen only by the hand of the person   *)
(* it is shown to, even when the dialog was closed over its request: it is *)
(* then shown when the dialog is opened again.                             *)
KeyIsSeen == Creation!KeyIsSeen

(* The range shown is one of the prefix and of the quantity chosen now,    *)
(* however answers and choices follow each other.  A range this browser    *)
(* has taken is not offered again: what was kept of the time before is     *)
(* asked for anew, and a request that was under way is not believed.  While*)
(* the new one loads, or after it failed, the old range is still in view.  *)
(* Nothing keeps a range that others have taken from being shown.          *)
RangeIsToBeHad == Preview!RangeIsToBeHad
=============================================================================
