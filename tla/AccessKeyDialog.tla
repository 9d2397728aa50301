-------------------------- MODULE AccessKeyDialog --------------------------
(***************************************************************************)
(* The dialog that shows a PAK's access key and rotates it                 *)
(* (ViewPakAccessKey.tsx).  It asks for the key at each opening, by a      *)
(* mutation and not by a query, keeps it in its own state and forgets it   *)
(* when it closes.  A request that is reset loses its spinner, but its     *)
(* answer still sets the key: several answers may be under way at once.    *)
(* The dialog belongs to a place of the list, and a list fetched again may *)
(* bring another PAK to that place.                                        *)
(***************************************************************************)
EXTENDS Naturals, Sequences, SequencesExt

CONSTANTS
  Paks,        \* the PAKs the row may come to show
  Archived,    \* those that are archived: their key cannot be rotated
  MaxReads,    \* bound: requests for a key in one life of the row
  MaxRotations \* bound: rotations, here and elsewhere

(* The bound on rotations is a number.                                     *)
KeysAssumption == MaxRotations \in Nat

VARIABLES
  keys,       \* the number of the current key of each PAK, at the server
  row,        \* the PAK the row shows
  open,       \* detailsOpen of PakActionsMenu
  key,        \* accessKey: the key the dialog holds, or NoKey
  asked,      \* requestedForOpen
  reads,      \* the requests for a key sent since the row appeared, in order
  current,    \* the place in reads of the one the dialog watches, 0 after a reset
  confirming, \* isRotationConfirmationVisible
  rotation,   \* rotateMutation
  least,      \* history: the number of each PAK's key when the dialog was opened,
              \* or the one it has rotated it to since
  late        \* history: the reads that the last closing left under way, and in an
              \* open dialog those of them that the server had answered at the
              \* opening; after a rotation, those answered and not arrived then

vars == <<keys, row, open, key, asked, reads, current, confirming, rotation, least, late>>
history == <<least, late>>

Keys == [pak : Paks, number : 0..MaxRotations]
NoKey == [pak |-> CHOOSE p \in Paks : TRUE, number |-> MaxRotations + 1]
KeyOf(p) == [pak |-> p, number |-> keys[p]]

IdleRotation == [step |-> "idle", pak |-> CHOOSE p \in Paks : TRUE, key |-> NoKey]
Rotating == rotation.step # "idle"

KeyPending == current # 0 /\ reads[current].step # "over"
Offers(p) == p \notin Archived

Init ==
  /\ keys = [p \in Paks |-> 0]
  /\ row \in Paks
  /\ open = FALSE
  /\ key = NoKey
  /\ asked = FALSE
  /\ reads = <<>>
  /\ current = 0
  /\ confirming = FALSE
  /\ rotation = IdleRotation
  /\ least = [p \in Paks |-> 0]
  /\ late = {}

-----------------------------------------------------------------------------
(* The person.                                                             *)

(* requestAccessKey, also by the button that repeats it.                   *)
RequestKey ==
  /\ Len(reads) < MaxReads
  /\ reads' = Append(reads, [step |-> "sent", pak |-> row, key |-> NoKey])
  /\ current' = Len(reads) + 1

(* The effect of an opening asks once for the key.                         *)
Open ==
  /\ ~open
  /\ open' = TRUE
  /\ asked' = TRUE
  /\ IF asked THEN UNCHANGED <<reads, current>> ELSE RequestKey
  /\ least' = keys
  /\ late' = {i \in late : reads[i].step # "sent"}
  /\ UNCHANGED <<keys, row, key, confirming, rotation>>

Retry ==
  /\ open
  /\ key = NoKey /\ ~KeyPending
  /\ RequestKey
  /\ UNCHANGED <<keys, row, open, key, asked, confirming, rotation, history>>

MayClose == open /\ ~Rotating

(* Mutant: the key outlives the dialog that asked for it.                  *)
AllButTheKey ==
  /\ current' = 0
  /\ confirming' = FALSE
  /\ asked' = FALSE
  /\ UNCHANGED key

(* What the effect of a closing clears.                                    *)
Forgotten ==
  /\ key' = NoKey
  /\ current' = 0
  /\ confirming' = FALSE
  /\ asked' = FALSE

Close ==
  /\ MayClose
  /\ open' = FALSE
  /\ Forgotten
  /\ late' = {i \in 1..Len(reads) : reads[i].step # "over"}
  /\ UNCHANGED <<keys, row, reads, rotation, least>>

AskRotation ==
  /\ open /\ Offers(row)
  /\ ~confirming
  /\ confirming' = TRUE
  /\ UNCHANGED <<keys, row, open, key, asked, reads, current, rotation, history>>

DropRotation ==
  /\ open /\ Offers(row)
  /\ confirming /\ ~Rotating
  /\ confirming' = FALSE
  /\ UNCHANGED <<keys, row, open, key, asked, reads, current, rotation, history>>

Rotate ==
  /\ open /\ Offers(row)
  /\ confirming /\ ~Rotating
  /\ rotation' = [IdleRotation EXCEPT !.step = "sent", !.pak = row]
  /\ UNCHANGED <<keys, row, open, key, asked, reads, current, confirming, history>>

-----------------------------------------------------------------------------
(* The server.  An answer of NoKey is an error.                            *)

KeyRead(i) ==
  /\ reads[i].step = "sent"
  /\ \E answer \in {KeyOf(reads[i].pak), NoKey} :
       reads' = [reads EXCEPT ![i].step = "answered", ![i].key = answer]
  /\ UNCHANGED <<keys, row, open, key, asked, current, confirming, rotation, history>>

NewKey(p) ==
  /\ keys[p] < MaxRotations
  /\ keys' = [keys EXCEPT ![p] = @ + 1]

KeyRotated ==
  /\ rotation.step = "sent"
  /\ NewKey(rotation.pak)
  /\ \E answer \in {[pak |-> rotation.pak, number |-> keys[rotation.pak] + 1], NoKey} :
       rotation' = [rotation EXCEPT !.step = "answered", !.key = answer]
  /\ UNCHANGED <<row, open, key, asked, reads, current, confirming, history>>

RotationRefused ==
  /\ rotation.step = "sent"
  /\ rotation' = [rotation EXCEPT !.step = "answered"]
  /\ UNCHANGED <<keys, row, open, key, asked, reads, current, confirming, history>>

-----------------------------------------------------------------------------
(* The answers, in the browser.                                            *)

(* onSuccess is an option of the mutation: a reset does not take it away.  *)
KeyArrived(i) ==
  /\ reads[i].step = "answered"
  /\ reads' = [reads EXCEPT ![i].step = "over"]
  /\ key' = IF reads[i].key # NoKey THEN reads[i].key ELSE key
  /\ UNCHANGED <<keys, row, open, asked, current, confirming, rotation, history>>

RotationArrived ==
  /\ rotation.step = "answered"
  /\ rotation' = IdleRotation
  /\ IF rotation.key # NoKey
       THEN /\ key' = rotation.key
            /\ confirming' = FALSE
            /\ least' = [least EXCEPT ![rotation.key.pak] = rotation.key.number]
            /\ late' = {i \in 1..Len(reads) : reads[i].step = "answered"}
       ELSE UNCHANGED <<key, confirming, history>>
  /\ UNCHANGED <<keys, row, open, asked, reads, current>>

-----------------------------------------------------------------------------
(* The list, and other administrators.                                     *)

(* Rows are kept by their place: the dialog stays with all of its state.   *)
RowShows(p) ==
  /\ row # p
  /\ row' = p
  /\ UNCHANGED <<keys, open, key, asked, reads, current, confirming, rotation, history>>

(* Without its row the dialog is gone, and answers reach nobody; a         *)
(* rotation under way may still happen.                                    *)
RowGone ==
  /\ open' = FALSE
  /\ Forgotten
  /\ reads' = <<>>
  /\ rotation' = IdleRotation
  /\ \/ UNCHANGED keys
     \/ rotation.step = "sent" /\ NewKey(rotation.pak)
  /\ row' \in Paks
  /\ late' = {}
  /\ UNCHANGED least

RotatedElsewhere(p) ==
  /\ NewKey(p)
  /\ UNCHANGED <<row, open, key, asked, reads, current, confirming, rotation, history>>

Next ==
  \/ Open \/ Retry \/ Close
  \/ AskRotation \/ DropRotation \/ Rotate
  \/ \E i \in 1..Len(reads) : KeyRead(i) \/ KeyArrived(i)
  \/ KeyRotated \/ RotationRefused \/ RotationArrived
  \/ \E p \in Paks : RowShows(p) \/ RotatedElsewhere(p)
  \/ RowGone

Spec == Init /\ [][Next]_vars

-----------------------------------------------------------------------------
(* Type correctness; a key is one that was current at some time, and a     *)
(* confirmation is asked in an open dialog only.                           *)
TypeOK ==
  /\ keys \in [Paks -> 0..MaxRotations]
  /\ row \in Paks
  /\ open \in BOOLEAN
  /\ key \in Keys \cup {NoKey}
  /\ key # NoKey => key.number <= keys[key.pak]
  /\ current \in 0..Len(reads)
  /\ confirming => open
  /\ rotation.step \in {"idle", "sent", "answered"}
  /\ least \in [Paks -> 0..MaxRotations]
  /\ late \subseteq 1..Len(reads)

(* ViewPakAccessKey.tsx:68-85: the dialog says that the key could not be   *)
(* loaded only when the request of this opening has failed, however many   *)
(* openings and late answers there were before.                            *)
FailureIsReal ==
  open /\ key = NoKey /\ ~KeyPending => asked /\ current # 0 /\ reads[current].key = NoKey

(* ViewPakAccessKey.tsx:31-42, 48 and 93-96: the key that is shown held    *)
(* when the dialog was opened, or came later, and is no older than the one *)
(* last rotated here.  The one exception is an answer that the server gave *)
(* before that opening or rotation and that came after the closing or the  *)
(* rotation: line 48 takes it as it comes.                                 *)
ShownIsRecent ==
  open /\ key # NoKey =>
    \/ key.number >= least[key.pak]
    \/ \E i \in late : reads[i].step = "over" /\ reads[i].key = key

(* The person with the dialog open is told of the key what is so: no       *)
(* failure that was none, and no key from before the opening or the last   *)
(* rotation here, unless a late answer brought it.                         *)
KeyIsTold == FailureIsReal /\ ShownIsRecent
=============================================================================
