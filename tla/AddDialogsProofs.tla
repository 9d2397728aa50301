--------------------------- MODULE AddDialogsProofs ---------------------------
(***************************************************************************)
(* What is proved of the add dialogs: of RecordCreation, the dialogs that  *)
(* create a record, and of BatchPreview, the range that the dialog for     *)
(* batches shows, side by side in MCDialogs.                              *)
(***************************************************************************)
EXTENDS MCDialogs, TLAPS

-----------------------------------------------------------------------------
(* The invariant of RecordCreation.                                        *)

CreationTypes ==
  /\ Creation!TypeOK
  /\ creation \in [step : {"idle", "sent", "answered", "refreshing"},
                  text : Texts \cup {Blank}, ok : BOOLEAN]

(* A request is of a text, is answered before it is taken for a success,   *)
(* and nothing is shown in place of the form while it is under way.        *)
RequestRuns ==
  /\ Creation!Pending => creation.text \in Texts /\ created = Blank
  /\ creation.step = "sent" => ~creation.ok
  /\ creation.step = "refreshing" => creation.ok

CreationInv == CreationTypes /\ RequestRuns /\ Creation!RecordsAreAnnounced

LEMMA DialogsHavePages ==
  ASSUME addDialog \in Forms
  PROVE  /\ addDialog.steps \in Nat \ {0}
         /\ addDialog.guarded \in BOOLEAN
         /\ addDialog.showsKey \in BOOLEAN
         /\ 1 \in Creation!Pages
BY FormsAssumption DEF Creation!CreationAssumption, Creation!Pages

LEMMA CreationInit == Creation!Init => CreationInv
<1> SUFFICES ASSUME Creation!Init PROVE CreationInv
  OBVIOUS
<1>1. 1 \in Creation!Pages
  BY DialogsHavePages DEF Creation!Init
<1>2. MaxRecords \in Nat
  BY FormsAssumption DEF Creation!CreationAssumption
<1>3. Creation!TypeOK
  <2>1. form \in [Creation!Pages -> Texts \cup {Blank}]
    BY DEF Creation!Init, Creation!Empty
  <2>2. /\ records \in [Texts -> 0..MaxRecords]
        /\ told \in [Texts -> Nat] /\ unknown \in [Texts -> Nat]
    BY <1>2 DEF Creation!Init
  <2>3. creation.step = "idle" /\ creation.text = Blank /\ created = Blank
    BY DEF Creation!Init, Creation!Idle
  <2>4. addDialog \in Forms /\ isOpen \in BOOLEAN /\ step \in Creation!Pages
    BY <1>1 DEF Creation!Init
  <2> QED BY <2>1, <2>2, <2>3, <2>4 DEF Creation!TypeOK
<1>4. CreationTypes
  BY <1>3 DEF Creation!Init, CreationTypes, Creation!Idle
<1> QED
  BY <1>4 DEF Creation!Init, CreationInv, RequestRuns, Creation!RecordsAreAnnounced, Creation!Idle, Creation!Pending

(* A step that leaves the request and the counts alone.                    *)
LEMMA FormsOnly ==
  ASSUME CreationInv, UNCHANGED <<addDialog, creation, Creation!serverVars, told>>,
         isOpen' \in BOOLEAN, step' \in Creation!Pages, form' \in [Creation!Pages -> Texts \cup {Blank}],
         created' \in Texts \cup {Blank}, Creation!Pending => UNCHANGED created
  PROVE  CreationInv'
BY DEF CreationInv, CreationTypes, RequestRuns, Creation!RecordsAreAnnounced, Creation!TypeOK, Creation!Pending, Creation!Pages, Creation!serverVars

LEMMA CreationStep == CreationInv /\ [Creation!Next]_(Creation!vars) => CreationInv'
<1> SUFFICES ASSUME CreationInv, [Creation!Next]_(Creation!vars) PROVE CreationInv'
  OBVIOUS
<1>0. /\ 1 \in Creation!Pages /\ addDialog.steps \in Nat \ {0}
      /\ Creation!Empty \in [Creation!Pages -> Texts \cup {Blank}]
  BY DialogsHavePages DEF CreationInv, CreationTypes, Creation!TypeOK, Creation!Empty
<1> USE DEF CreationInv, CreationTypes, Creation!TypeOK
<1>1. CASE Creation!Open
  BY <1>1, FormsOnly DEF Creation!Open
<1>2. CASE Creation!Close
  BY <1>0, <1>2, FormsOnly DEF Creation!Close, Creation!Reset
<1>3. ASSUME NEW p \in Creation!Pages, NEW text \in Texts, Creation!Type(p, text) PROVE CreationInv'
  BY <1>3, FormsOnly DEF Creation!Type
<1>4. CASE Creation!GoToConfiguration
  <2>1. step + 1 \in Creation!Pages
    BY <1>0, <1>4 DEF Creation!GoToConfiguration, Creation!Pages
  <2> QED BY <2>1, <1>4, FormsOnly DEF Creation!GoToConfiguration
<1>5. CASE Creation!Back
  <2>1. step - 1 \in Creation!Pages
    BY <1>0, <1>5 DEF Creation!Back, Creation!Pages
  <2> QED BY <2>1, <1>5, FormsOnly DEF Creation!Back
<1>6. CASE Creation!Submit
  <2>1. form[1] \in Texts
    BY <1>0, <1>6 DEF Creation!Submit, Creation!Valid
  <2>2. creation' = [step |-> "sent", text |-> form[1], ok |-> FALSE]
    BY <1>6 DEF Creation!Submit, Creation!Idle
  <2> QED
    BY <2>1, <2>2, <1>6
       DEF Creation!Submit, RequestRuns, Creation!RecordsAreAnnounced, Creation!Pending, Creation!Pages, Creation!serverVars
<1>7. CASE Creation!Applied
  <2> PICK answered \in BOOLEAN :
        /\ creation' = [creation EXCEPT !.step = "answered", !.ok = answered]
        /\ unknown' = IF answered THEN unknown ELSE [unknown EXCEPT ![creation.text] = @ + 1]
    BY <1>7 DEF Creation!Applied
  <2>1. /\ creation.text \in Texts /\ created = Blank
        /\ creation' = [step |-> "answered", text |-> creation.text, ok |-> answered]
    BY <1>7 DEF Creation!Applied, RequestRuns, Creation!Pending
  <2>2. /\ records[creation.text] < MaxRecords
        /\ records' = [records EXCEPT ![creation.text] = @ + 1]
        /\ UNCHANGED <<addDialog, isOpen, step, form, created, told>>
    BY <1>7 DEF Creation!Applied, Creation!Added
  <2>3. records' \in [Texts -> 0..MaxRecords] /\ unknown' \in [Texts -> Nat]
    BY <2>1, <2>2, FormsAssumption DEF Creation!CreationAssumption
  <2>4. Creation!RecordsAreAnnounced'
    <3> SUFFICES ASSUME NEW t \in Texts
                 PROVE  records'[t] = told'[t] + unknown'[t]
                          + (IF creation'.ok /\ creation'.text = t THEN 1 ELSE 0)
      BY <2>1 DEF Creation!RecordsAreAnnounced
    <3>1. /\ records[t] = told[t] + unknown[t]
          /\ records[t] \in Nat /\ told[t] \in Nat /\ unknown[t] \in Nat
      BY <1>7 DEF Creation!RecordsAreAnnounced, Creation!Applied
    <3> QED BY <3>1, <2>1, <2>2
  <2> QED BY <2>1, <2>2, <2>3, <2>4 DEF RequestRuns, Creation!Pending, Creation!Pages
<1>8. CASE Creation!Refused
  <2>1. creation' = [step |-> "answered", text |-> creation.text, ok |-> FALSE]
    BY <1>8 DEF Creation!Refused, RequestRuns
  <2> QED
    BY <2>1, <1>8 DEF Creation!Refused, RequestRuns, Creation!RecordsAreAnnounced, Creation!Pending, Creation!Pages, Creation!serverVars
<1>9. ASSUME NEW text \in Texts, Creation!OthersAdd(text) PROVE CreationInv'
  <2>1. /\ records[text] < MaxRecords
        /\ records' = [records EXCEPT ![text] = @ + 1]
        /\ unknown' = [unknown EXCEPT ![text] = @ + 1]
        /\ UNCHANGED <<addDialog, isOpen, step, form, created, creation, told>>
    BY <1>9 DEF Creation!OthersAdd, Creation!Added
  <2>2. records' \in [Texts -> 0..MaxRecords] /\ unknown' \in [Texts -> Nat]
    BY <2>1, FormsAssumption DEF Creation!CreationAssumption
  <2>3. Creation!RecordsAreAnnounced'
    BY <2>1 DEF Creation!RecordsAreAnnounced
  <2> QED BY <2>1, <2>2, <2>3 DEF RequestRuns, Creation!Pending, Creation!Pages
<1>10. CASE Creation!Succeed
  <2>1. creation' = [step |-> "refreshing", text |-> creation.text, ok |-> TRUE]
    BY <1>10 DEF Creation!Succeed
  <2> QED
    BY <2>1, <1>10 DEF Creation!Succeed, RequestRuns, Creation!RecordsAreAnnounced, Creation!Pending, Creation!Pages, Creation!serverVars
<1>11. CASE Creation!Fail
  BY <1>11 DEF Creation!Fail, Creation!Idle, RequestRuns, Creation!RecordsAreAnnounced, Creation!Pending, Creation!Pages, Creation!serverVars
<1>12. CASE Creation!Settle
  <2>1. /\ creation.text \in Texts /\ creation.ok /\ creation.step = "refreshing"
        /\ creation' = Creation!Idle
        /\ form' = Creation!Empty /\ step' = 1
        /\ isOpen' \in BOOLEAN
        /\ created' \in Texts \cup {Blank}
        /\ told' = [told EXCEPT ![creation.text] = @ + 1]
        /\ UNCHANGED <<addDialog, records, unknown>>
    BY <1>12 DEF Creation!Settle, Creation!Reset, RequestRuns, Creation!Pending, Creation!serverVars
  <2>2. Creation!RecordsAreAnnounced'
    BY <2>1 DEF Creation!RecordsAreAnnounced, Creation!Idle
  <2> QED BY <1>0, <2>1, <2>2 DEF Creation!Idle, RequestRuns, Creation!Pending, Creation!Pages
<1>13. CASE UNCHANGED Creation!vars
  BY <1>13, FormsOnly DEF Creation!vars, Creation!serverVars
<1> QED
  BY <1>1, <1>2, <1>3, <1>4, <1>5, <1>6, <1>7, <1>8, <1>9, <1>10, <1>11, <1>12, <1>13 DEF Creation!Next

LEMMA CreationInvariant == Creation!Spec => []CreationInv
BY CreationInit, CreationStep, PTL DEF Creation!Spec

LEMMA CreationOfDialogs == MCSpec => Creation!Spec
<1>1. MCInit => Creation!Init
  BY DEF MCInit
<1>2. [MCNext]_mcVars => [Creation!Next]_(Creation!vars)
  BY DEF MCNext, mcVars, creationVars, Creation!vars, Creation!serverVars
<1> QED BY <1>1, <1>2, PTL DEF MCSpec, Creation!Spec

(* The forms hold texts, and no more records are counted than there can be.*)
THEOREM CreationIsTyped == Creation!Spec => []Creation!TypeOK
BY CreationInvariant, PTL DEF CreationInv, CreationTypes

(* Every record is one this browser was told of once, one whose answer is  *)
(* on its way to it, or one that others made or whose answer was lost: no  *)
(* second press, closed dialog or step taken back makes another before the *)
(* first is announced.  After a lost answer a retry does make another.     *)
THEOREM RecordsAreAccountedFor == MCSpec => []RecordsAreAnnounced
BY CreationInvariant, CreationOfDialogs, PTL DEF CreationInv, RecordsAreAnnounced

(* The key of a new PAK leaves the screen by the hand of a person only.    *)
THEOREM KeyStaysUntilSeen == MCSpec => KeyIsSeen
<1>1. CreationInv /\ [Creation!Next]_(Creation!vars)
        => [created # Blank /\ created' # created => isOpen /\ Creation!Close]_(Creation!vars)
  <2> SUFFICES ASSUME CreationInv, Creation!Next, created # Blank, created' # created
               PROVE  isOpen /\ Creation!Close
    BY DEF Creation!vars
  <2>1. CASE Creation!Settle
    BY <2>1 DEF Creation!Settle, CreationInv, RequestRuns, Creation!Pending
  <2> QED
    BY <2>1
       DEF Creation!Next, Creation!Open, Creation!Close, Creation!Type,
           Creation!GoToConfiguration, Creation!Back, Creation!Submit, Creation!Applied,
           Creation!Refused, Creation!OthersAdd, Creation!Succeed, Creation!Fail
<1> QED
  BY <1>1, CreationInvariant, CreationOfDialogs, PTL
     DEF Creation!Spec, KeyIsSeen, Creation!KeyIsSeen

-----------------------------------------------------------------------------
(* The invariant of BatchPreview.                                          *)

SerialRanges == [prefix : DevEuiPrefixes, first : Nat, last : Nat]

IsOf(sought, r) == r.prefix = sought.prefix /\ r.last + 1 = r.first + sought.quantity
Clear(r) == \A o \in own : ~Preview!Overlap(r, o)

InView == Preview!Enabled(shown, rangePage, choice)

Fetches ==
  [step : {"none", "asked", "answered"}, key : Preview!Keys, range : SUBSET SerialRanges]
Mutations ==
  [step : {"idle", "sent", "answered", "failed", "refreshing"}, key : Preview!Keys,
   range : SUBSET SerialRanges, awaits : BOOLEAN]

DialogTypes ==
  /\ shown \in BOOLEAN /\ rangePage \in {1, 2} /\ choice \in Preview!Keys
  /\ failed \in BOOLEAN
  /\ rangeFetch \in Fetches /\ mutation \in Mutations
  /\ rangeFetch.step = "none" => rangeFetch = Preview!NoFetch

(* Serials are taken from below, and what this browser knows it has taken  *)
(* was given out.                                                          *)
SerialsGivenOut ==
  /\ taken \in [DevEuiPrefixes -> Nat]
  /\ ranges \subseteq SerialRanges
  /\ \A o \in ranges : o.last <= taken[o.prefix]
  /\ own \subseteq ranges /\ mutation.range \subseteq ranges

(* At most one range is kept under a choice.  It is of that choice, and as *)
(* long as it counts as fresh nothing of it was taken here.                *)
RangesKept ==
  \A k \in Preview!Keys :
    /\ \A a \in cache[k] :
         /\ a.range \in SerialRanges /\ IsOf(k, a.range)
         /\ a.fresh \in BOOLEAN /\ (a.fresh => Clear(a.range))
    /\ \A a, b \in cache[k] : a = b

(* A request for a range is for that of the choice, and so is its answer.  *)
(* What was taken since the answer was given makes it be asked again.      *)
RangeOnItsWay ==
  /\ Preview!Loading => rangeFetch.key = choice /\ choice.prefix \in DevEuiPrefixes
  /\ rangeFetch.step = "answered" =>
       /\ \A r \in rangeFetch.range : r \in SerialRanges /\ IsOf(choice, r) /\ Clear(r)
       /\ \A r, s \in rangeFetch.range : r = s

(* What is in view is fresh, is being loaded, or could not be.             *)
ViewIsCurrent ==
  InView /\ ~Preview!Loading /\ ~failed => \A kept \in cache[choice] : kept.fresh

(* The page of the range stays while a batch is being created, of a prefix *)
(* that was chosen.                                                        *)
PageStays == Preview!Pending => InView /\ mutation.key.prefix \in DevEuiPrefixes

PreviewInv ==
  /\ DialogTypes /\ SerialsGivenOut
  /\ cache \in [Preview!Keys -> SUBSET [range : SerialRanges, fresh : BOOLEAN]]
  /\ RangesKept /\ RangeOnItsWay /\ ViewIsCurrent /\ PageStays

LEMMA NumbersOfKeys ==
  /\ NoPrefix \notin DevEuiPrefixes
  /\ \A k \in Preview!Keys :
       /\ k.prefix \in DevEuiPrefixes \cup {NoPrefix}
       /\ k.quantity \in Nat
  /\ Preview!Empty \in Preview!Keys
  /\ Preview!Empty.prefix = NoPrefix
<1>1. NoPrefix \notin DevEuiPrefixes /\ Quantities \subseteq Nat \ {0}
  BY RangesAssumption DEF Preview!PreviewAssumption
<1>2. ASSUME NEW k \in Preview!Keys
      PROVE  k.prefix \in DevEuiPrefixes \cup {NoPrefix} /\ k.quantity \in Nat
  <2>1. k.prefix \in DevEuiPrefixes \cup {NoPrefix} /\ k.quantity \in Quantities \cup {0}
    BY DEF Preview!Keys
  <2>2. \A q \in Quantities \cup {0} : q \in Nat
    BY <1>1
  <2> QED BY <2>1, <2>2
<1>3. Preview!Empty \in Preview!Keys /\ Preview!Empty.prefix = NoPrefix
  BY DEF Preview!Keys, Preview!Empty
<1> QED BY <1>1, <1>2, <1>3

LEMMA KeptRange ==
  ASSUME NEW r \in SerialRanges, NEW fresh \in BOOLEAN
  PROVE  LET a == [range |-> r, fresh |-> fresh]
         IN a \in [range : SerialRanges, fresh : BOOLEAN] /\ a.range = r /\ a.fresh = fresh
OBVIOUS

LEMMA PreviewStart == Preview!Init => PreviewInv
<1> SUFFICES ASSUME Preview!Init PROVE PreviewInv
  OBVIOUS
<1>1. DialogTypes
  BY NumbersOfKeys
     DEF Preview!Init, DialogTypes, Fetches, Mutations, Preview!NoFetch, Preview!Idle
<1>2. SerialsGivenOut
  BY DEF Preview!Init, Preview!SerialsInit, SerialsGivenOut, Preview!Idle
<1>3. RangesKept /\ cache \in [Preview!Keys -> SUBSET [range : SerialRanges, fresh : BOOLEAN]]
  BY DEF Preview!Init, RangesKept
<1> QED
  BY <1>1, <1>2, <1>3
     DEF PreviewInv, Preview!Init, RangeOnItsWay, ViewIsCurrent, PageStays, InView, Preview!Enabled,
         Preview!Loading, Preview!Pending, Preview!NoFetch, Preview!Idle

(* The dialog is rendered anew: what it begins to look at is fresh or asked*)
(* for, and what it looked at is not waited for.                           *)
LEMMA RenderingIsCurrent ==
  ASSUME PreviewInv,
         NEW inSight \in BOOLEAN, NEW pg \in {1, 2}, NEW sought \in Preview!Keys,
         Preview!Render(inSight, pg, sought),
         mutation'.step # "idle" => Preview!Enabled(inSight, pg, sought) /\ mutation'.key.prefix \in DevEuiPrefixes,
         mutation' \in Mutations, mutation'.range \subseteq ranges
  PROVE  PreviewInv'
<1> DEFINE begins == Preview!Enabled(inSight, pg, sought)
                       /\ (sought # choice \/ ~Preview!Enabled(shown, rangePage, choice))
           now == IF Preview!Dropped(sought) THEN Preview!NoFetch ELSE rangeFetch
<1>1. PICK asks \in BOOLEAN :
        /\ asks => begins /\ now = Preview!NoFetch
        /\ begins /\ now = Preview!NoFetch /\ (\A kept \in cache[sought] : ~kept.fresh) => asks
        /\ rangeFetch' = IF asks THEN Preview!Asked(sought) ELSE now
        /\ failed' = (failed /\ ~asks /\ sought = choice)
  BY DEF Preview!Render
<1>2. /\ shown' = inSight /\ rangePage' = pg /\ choice' = sought
      /\ UNCHANGED <<taken, ranges, cache, own>>
  BY DEF Preview!Render, Preview!serialVars
<1>3. /\ now = rangeFetch \/ now = Preview!NoFetch
      /\ now = rangeFetch /\ now # Preview!NoFetch => sought = choice
  BY DEF Preview!Dropped
<1>4. DialogTypes'
  <2>1. rangeFetch' \in Fetches
    BY <1>1, <1>3, NumbersOfKeys
       DEF PreviewInv, DialogTypes, Fetches, Preview!Asked, Preview!NoFetch
  <2>2. rangeFetch'.step = "none" => rangeFetch' = Preview!NoFetch
    BY <1>1, <1>3 DEF PreviewInv, DialogTypes, Preview!Asked, Preview!NoFetch
  <2> QED BY <2>1, <2>2, <1>1, <1>2 DEF PreviewInv, DialogTypes
<1>5. SerialsGivenOut'
  BY <1>2 DEF PreviewInv, SerialsGivenOut
<1>6. /\ RangesKept'
      /\ cache' \in [Preview!Keys -> SUBSET [range : SerialRanges, fresh : BOOLEAN]]
  BY <1>2 DEF PreviewInv, RangesKept, Clear
<1>7. RangeOnItsWay'
  <2>1. CASE asks
    <3>1. sought.prefix \in DevEuiPrefixes
      BY <2>1, <1>1, NumbersOfKeys DEF Preview!Enabled
    <3> QED
      BY <3>1, <2>1, <1>1, <1>2 DEF RangeOnItsWay, Preview!Loading, Preview!Asked, Preview!NoFetch
  <2>2. CASE rangeFetch' = Preview!NoFetch
    BY <2>2 DEF RangeOnItsWay, Preview!Loading, Preview!NoFetch
  <2>3. CASE rangeFetch' = rangeFetch /\ choice' = choice
    BY <2>3, <1>2 DEF PreviewInv, RangeOnItsWay, Preview!Loading, Clear
  <2> QED BY <2>1, <2>2, <2>3, <1>1, <1>2, <1>3
<1>8. ViewIsCurrent'
  <2> SUFFICES ASSUME Preview!Enabled(inSight, pg, sought), ~asks, rangeFetch'.step = "none", ~failed',
                      NEW kept \in cache[sought]
               PROVE  kept.fresh
    BY <1>1, <1>2
       DEF ViewIsCurrent, InView, Preview!Enabled, Preview!Loading, Preview!Asked, Preview!NoFetch
  <2>1. rangeFetch' = now
    BY <1>1
  <2>2. CASE begins
    <3>1. now = Preview!NoFetch
      BY <2>1, <1>3 DEF PreviewInv, DialogTypes
    <3>2. PICK a \in cache[sought] : a.fresh
      BY <3>1, <2>2, <1>1
    <3> QED BY <3>2 DEF PreviewInv, RangesKept
  <2>3. CASE ~begins
    <3>1. sought = choice /\ Preview!Enabled(shown, rangePage, choice)
      BY <2>3
    <3>2. now = rangeFetch /\ rangeFetch.step = "none"
      BY <3>1, <2>1 DEF Preview!Dropped
    <3>3. ~failed
      BY <3>1, <1>1
    <3> QED
      BY <3>1, <3>2, <3>3 DEF PreviewInv, ViewIsCurrent, InView, Preview!Loading
  <2> QED BY <2>2, <2>3
<1>9. PageStays'
  BY <1>2 DEF PageStays, Preview!Pending, InView, Preview!Enabled
<1> QED BY <1>4, <1>5, <1>6, <1>7, <1>8, <1>9 DEF PreviewInv

(* A step of the mutation alone: nothing of the range is touched.          *)
LEMMA MutationOnly ==
  ASSUME PreviewInv, UNCHANGED <<shown, rangePage, choice, cache, rangeFetch, failed, taken, ranges, own>>,
         mutation'.step # "idle" => InView /\ mutation'.key.prefix \in DevEuiPrefixes,
         mutation' \in Mutations, mutation'.range \subseteq ranges
  PROVE  PreviewInv'
<1>1. DialogTypes' /\ SerialsGivenOut' /\ RangesKept'
  BY DEF PreviewInv, DialogTypes, SerialsGivenOut, RangesKept, Clear
<1>2. RangeOnItsWay' /\ ViewIsCurrent' /\ PageStays'
  BY DEF PreviewInv, RangeOnItsWay, ViewIsCurrent, PageStays, InView, Preview!Loading,
     Preview!Pending, Clear
<1> QED BY <1>1, <1>2 DEF PreviewInv

(* A batch is created: its range is above all that were given out.         *)
LEMMA IssuedAbove ==
  ASSUME PreviewInv, NEW p \in DevEuiPrefixes, NEW quantity \in Nat, Preview!Issue(p, quantity)
  PROVE  /\ taken' \in [DevEuiPrefixes -> Nat]
         /\ ranges' \subseteq SerialRanges
         /\ ranges \subseteq ranges'
         /\ \A o \in ranges' : o.last <= taken'[o.prefix]
<1> DEFINE new == Preview!RangeAt(p, taken[p] + 1, quantity)
<1>1. /\ taken \in [DevEuiPrefixes -> Nat]
      /\ ranges \subseteq SerialRanges
      /\ \A o \in ranges : o.last <= taken[o.prefix]
  BY DEF PreviewInv, SerialsGivenOut
<1>2. /\ ranges' = ranges \cup {new}
      /\ taken' = [taken EXCEPT ![p] = @ + quantity]
  BY DEF Preview!Issue
<1>3. taken' \in [DevEuiPrefixes -> Nat] /\ taken'[p] = taken[p] + quantity
  BY <1>1, <1>2
<1>4. /\ new = [prefix |-> p, first |-> taken[p] + 1, last |-> taken[p] + quantity]
      /\ new \in SerialRanges
  <2>1. taken[p] \in Nat
    BY <1>1
  <2>2. new = [prefix |-> p, first |-> taken[p] + 1, last |-> taken[p] + 1 + quantity - 1]
    BY DEF Preview!RangeAt
  <2>3. taken[p] + 1 + quantity - 1 = taken[p] + quantity /\ taken[p] + quantity \in Nat
    BY <2>1
  <2> QED BY <2>1, <2>2, <2>3 DEF SerialRanges
<1> HIDE DEF new
<1>5. ASSUME NEW o \in ranges' PROVE o.last <= taken'[o.prefix]
  <2>1. CASE o = new
    BY <2>1, <1>3, <1>4, <1>1
  <2>2. CASE o \in ranges
    <3>1. o.prefix \in DevEuiPrefixes /\ o.last \in Nat /\ o.last <= taken[o.prefix]
      BY <1>1, <2>2 DEF SerialRanges
    <3>2. taken'[o.prefix] >= taken[o.prefix]
      BY <1>1, <1>2, <3>1
    <3> QED BY <1>1, <1>3, <3>1, <3>2
  <2> QED BY <2>1, <2>2, <1>2
<1> QED BY <1>1, <1>2, <1>3, <1>4, <1>5

(* What an answer offers now is clear of all that was given out.           *)
LEMMA AnsweredAbove ==
  ASSUME PreviewInv, choice.prefix \in DevEuiPrefixes
  PROVE  LET r == Preview!RangeAt(choice.prefix, taken[choice.prefix] + 1, choice.quantity)
         IN r \in [prefix : DevEuiPrefixes, first : Nat, last : Nat] /\ IsOf(choice, r) /\ Clear(r)
<1> DEFINE r == Preview!RangeAt(choice.prefix, taken[choice.prefix] + 1, choice.quantity)
<1>1. taken[choice.prefix] \in Nat /\ choice.quantity \in Nat
  BY NumbersOfKeys DEF PreviewInv, SerialsGivenOut, DialogTypes
<1>2. /\ r.prefix = choice.prefix /\ r.first = taken[choice.prefix] + 1
      /\ r.last = taken[choice.prefix] + choice.quantity
      /\ r = [prefix |-> r.prefix, first |-> r.first, last |-> r.last]
  BY <1>1 DEF Preview!RangeAt
<1> HIDE DEF r
<1>3. Clear(r)
  <2> SUFFICES ASSUME NEW o \in own, Preview!Overlap(r, o) PROVE FALSE
    BY DEF Clear
  <2>1. o \in SerialRanges /\ o.last <= taken[o.prefix] /\ o.prefix = choice.prefix
    BY <1>2 DEF PreviewInv, SerialsGivenOut, Preview!Overlap
  <2>2. o.last \in Nat /\ r.first <= o.last
    BY <2>1 DEF SerialRanges, Preview!Overlap
  <2> QED BY <1>1, <1>2, <2>1, <2>2
<1>4. IsOf(choice, r) /\ r \in [prefix : DevEuiPrefixes, first : Nat, last : Nat]
  <2>1. r.first \in Nat /\ r.last \in Nat /\ r.last + 1 = r.first + choice.quantity
    BY <1>1, <1>2
  <2> QED BY <2>1, <1>2 DEF IsOf
<1> QED BY <1>3, <1>4 DEF r

LEMMA PreviewStep == PreviewInv /\ [Preview!Next]_(Preview!vars) => PreviewInv'
<1> SUFFICES ASSUME PreviewInv, [Preview!Next]_(Preview!vars) PROVE PreviewInv'
  OBVIOUS
<1>0. /\ shown \in BOOLEAN /\ rangePage \in {1, 2} /\ choice \in Preview!Keys
      /\ rangeFetch \in Fetches /\ mutation \in Mutations
      /\ mutation.range \subseteq ranges
      /\ Preview!Pending => /\ shown /\ rangePage = 2 /\ choice.prefix \in DevEuiPrefixes
                            /\ mutation.key.prefix \in DevEuiPrefixes
  BY NumbersOfKeys
     DEF PreviewInv, DialogTypes, SerialsGivenOut, PageStays, InView, Preview!Enabled
<1>a. Preview!Idle \in Mutations /\ Preview!Idle.step = "idle" /\ Preview!Idle.range = {}
  BY NumbersOfKeys DEF Preview!Idle, Mutations
<1>b. /\ Preview!Asked(choice) \in Fetches
      /\ Preview!Asked(choice).step = "asked" /\ Preview!Asked(choice).key = choice
      /\ Preview!NoFetch \in Fetches /\ Preview!NoFetch.step = "none"
  BY <1>0, NumbersOfKeys DEF Preview!Asked, Preview!NoFetch, Fetches
<1>1. CASE Preview!Open
  BY <1>0, <1>1, RenderingIsCurrent DEF Preview!Open, Preview!Pending
<1>2. CASE Preview!Close
  BY <1>0, <1>2, RenderingIsCurrent, NumbersOfKeys DEF Preview!Close, Preview!Pending
<1>3. ASSUME NEW quantity \in Quantities \cup {0}, Preview!TypeQuantity(quantity)
      PROVE  PreviewInv'
  <2>1. [choice EXCEPT !.quantity = quantity] \in Preview!Keys
    BY <1>0 DEF Preview!Keys
  <2>2. /\ Preview!Render(shown, rangePage, [choice EXCEPT !.quantity = quantity])
        /\ rangePage = 1 /\ UNCHANGED mutation
    BY <1>3 DEF Preview!TypeQuantity
  <2> QED BY <1>0, <2>1, <2>2, RenderingIsCurrent DEF Preview!Pending
<1>4. CASE Preview!GoToConfiguration
  BY <1>0, <1>4, RenderingIsCurrent DEF Preview!GoToConfiguration, Preview!Pending
<1>5. CASE Preview!Back
  BY <1>0, <1>5, RenderingIsCurrent DEF Preview!Back, Preview!Pending
<1>6. ASSUME NEW p \in DevEuiPrefixes, Preview!ChoosePrefix(p) PROVE PreviewInv'
  <2> DEFINE sought == [choice EXCEPT !.prefix = p]
  <2>1. sought \in Preview!Keys /\ sought.prefix = p
    BY <1>0 DEF Preview!Keys
  <2>2. /\ Preview!Render(shown, rangePage, sought) /\ shown /\ rangePage = 2
        /\ mutation' = [mutation EXCEPT !.awaits = FALSE]
    BY <1>6 DEF Preview!ChoosePrefix
  <2>3. Preview!Enabled(shown, rangePage, sought)
    BY <2>1, <2>2, NumbersOfKeys DEF Preview!Enabled
  <2>4. mutation' \in Mutations /\ mutation'.range = mutation.range
          /\ mutation'.key = mutation.key /\ mutation'.step = mutation.step
    BY <1>0, <2>2 DEF Mutations
  <2> HIDE DEF sought
  <2> QED BY <1>0, <2>1, <2>2, <2>3, <2>4, RenderingIsCurrent DEF Preview!Pending
<1>7. CASE Preview!Submit
  <2>1. /\ mutation' = [Preview!Idle EXCEPT !.step = "sent", !.key = choice]
        /\ InView
        /\ UNCHANGED <<shown, rangePage, choice, cache, rangeFetch, failed, taken, ranges, own>>
    BY <1>7 DEF Preview!Submit, InView, Preview!Enabled, Preview!serialVars, Preview!dialogVars,
       Preview!queryVars
  <2>2. mutation' \in Mutations /\ mutation'.range = {} /\ mutation'.key = choice
    BY <1>0, <2>1 DEF Mutations, Preview!Idle
  <2>3. choice.prefix \in DevEuiPrefixes
    BY <1>0, <2>1, NumbersOfKeys DEF InView, Preview!Enabled
  <2> QED BY <2>1, <2>2, <2>3, MutationOnly
<1>8. CASE Preview!WindowFocused
  <2>1. /\ InView /\ rangeFetch' = Preview!Asked(choice) /\ failed' = FALSE
        /\ UNCHANGED <<shown, rangePage, choice, cache, taken, ranges, own, mutation>>
    BY <1>8 DEF Preview!WindowFocused, InView, Preview!serialVars, Preview!dialogVars
  <2>2. choice.prefix \in DevEuiPrefixes
    BY <1>0, <2>1, NumbersOfKeys DEF InView, Preview!Enabled
  <2>3. DialogTypes' /\ SerialsGivenOut' /\ RangesKept'
    BY <1>b, <2>1 DEF PreviewInv, DialogTypes, SerialsGivenOut, RangesKept, Clear
  <2>4. RangeOnItsWay' /\ ViewIsCurrent' /\ PageStays'
    BY <1>b, <2>1, <2>2
       DEF PreviewInv, RangeOnItsWay, ViewIsCurrent, PageStays, InView, Preview!Loading,
           Preview!Pending
  <2> QED BY <2>1, <2>3, <2>4 DEF PreviewInv
<1>9. CASE Preview!PreviewAnswered
  <2> DEFINE r == Preview!RangeAt(choice.prefix, taken[choice.prefix] + 1, choice.quantity)
  <2>1. rangeFetch.step = "asked" /\ rangeFetch.key = choice /\ choice.prefix \in DevEuiPrefixes
    BY <1>9 DEF Preview!PreviewAnswered, PreviewInv, RangeOnItsWay, Preview!Loading
  <2>2. /\ rangeFetch' = [rangeFetch EXCEPT !.step = "answered", !.range = {r}]
        /\ UNCHANGED <<shown, rangePage, choice, cache, failed, taken, ranges, own, mutation>>
    BY <1>9, <2>1 DEF Preview!PreviewAnswered, Preview!serialVars, Preview!dialogVars
  <2>3. r \in SerialRanges /\ IsOf(choice, r) /\ Clear(r)
    BY <2>1, AnsweredAbove DEF SerialRanges
  <2> HIDE DEF r
  <2>4. /\ rangeFetch' \in Fetches /\ rangeFetch'.step = "answered" /\ rangeFetch'.key = choice
        /\ rangeFetch'.range = {r}
    BY <1>0, <2>1, <2>2, <2>3 DEF Fetches
  <2>5. DialogTypes' /\ SerialsGivenOut' /\ RangesKept'
    BY <2>2, <2>4 DEF PreviewInv, DialogTypes, SerialsGivenOut, RangesKept, Clear
  <2>6. RangeOnItsWay'
    BY <2>1, <2>2, <2>3, <2>4 DEF RangeOnItsWay, Clear, IsOf
  <2>7. ViewIsCurrent' /\ PageStays'
    BY <2>2, <2>4
       DEF PreviewInv, ViewIsCurrent, PageStays, InView, Preview!Loading, Preview!Pending
  <2> QED BY <2>2, <2>5, <2>6, <2>7 DEF PreviewInv
<1>10. CASE Preview!PreviewArrived
  <2> DEFINE news == {[range |-> r, fresh |-> TRUE] : r \in rangeFetch.range}
  <2>1. /\ rangeFetch.step = "answered"
        /\ cache' = [cache EXCEPT ![choice] = news]
        /\ rangeFetch' = Preview!NoFetch
        /\ mutation' = [mutation EXCEPT !.awaits = FALSE]
        /\ UNCHANGED <<shown, rangePage, choice, failed, taken, ranges, own>>
    BY <1>10 DEF Preview!PreviewArrived, Preview!serialVars, Preview!dialogVars
  <2>2. mutation' \in Mutations /\ mutation'.range = mutation.range
          /\ mutation'.step = mutation.step /\ mutation'.key = mutation.key
    BY <1>0, <2>1 DEF Mutations
  <2>3. DialogTypes' /\ SerialsGivenOut'
    BY <1>b, <2>1, <2>2 DEF PreviewInv, DialogTypes, SerialsGivenOut
  <2>4. \A a \in news :
          /\ a \in [range : SerialRanges, fresh : BOOLEAN]
          /\ IsOf(choice, a.range) /\ a.fresh /\ Clear(a.range)
    <3>1. \A r \in rangeFetch.range : r \in SerialRanges /\ IsOf(choice, r) /\ Clear(r)
      BY <2>1 DEF PreviewInv, RangeOnItsWay
    <3>2. ASSUME NEW a \in news PROVE \E r \in rangeFetch.range : a = [range |-> r, fresh |-> TRUE]
      OBVIOUS
    <3>3. ASSUME NEW a \in news
          PROVE  /\ a \in [range : SerialRanges, fresh : BOOLEAN]
                 /\ IsOf(choice, a.range) /\ a.fresh /\ Clear(a.range)
      <4>1. PICK r \in rangeFetch.range : a = [range |-> r, fresh |-> TRUE]
        BY <3>2
      <4>2. a \in [range : SerialRanges, fresh : BOOLEAN] /\ a.range = r /\ a.fresh
        BY <3>1, <4>1, KeptRange
      <4> QED BY <3>1, <4>2
    <3> HIDE DEF news
    <3> QED BY <3>3
  <2>5. \A a, b \in news : a = b
    BY <2>1 DEF PreviewInv, RangeOnItsWay
  <2> HIDE DEF news
  <2>6. /\ cache' \in [Preview!Keys -> SUBSET [range : SerialRanges, fresh : BOOLEAN]]
        /\ cache'[choice] = news
        /\ \A k \in Preview!Keys : k # choice => cache'[k] = cache[k]
    BY <1>0, <2>1, <2>4 DEF PreviewInv
  <2>7. RangesKept'
    <3> SUFFICES ASSUME NEW k \in Preview!Keys
                 PROVE  /\ \A a \in cache'[k] :
                             /\ a.range \in SerialRanges /\ IsOf(k, a.range)
                             /\ a.fresh \in BOOLEAN /\ (a.fresh => Clear(a.range))
                        /\ \A a, b \in cache'[k] : a = b
      BY <2>1 DEF RangesKept, Clear
    <3>1. CASE k = choice
      BY <3>1, <2>4, <2>5, <2>6
    <3>2. CASE k # choice
      BY <3>2, <2>6 DEF PreviewInv, RangesKept
    <3> QED BY <3>1, <3>2
  <2>8. RangeOnItsWay' /\ ViewIsCurrent' /\ PageStays'
    BY <1>b, <2>1, <2>2, <2>4, <2>6
       DEF PreviewInv, RangeOnItsWay, ViewIsCurrent, PageStays, InView, Preview!Loading,
           Preview!Pending
  <2> QED BY <2>3, <2>6, <2>7, <2>8 DEF PreviewInv
<1>11. CASE Preview!PreviewFailed
  <2>1. /\ rangeFetch' = Preview!NoFetch /\ failed' = TRUE
        /\ mutation' = [mutation EXCEPT !.awaits = FALSE]
        /\ UNCHANGED <<shown, rangePage, choice, cache, taken, ranges, own>>
    BY <1>11 DEF Preview!PreviewFailed, Preview!serialVars, Preview!dialogVars
  <2>2. mutation' \in Mutations /\ mutation'.range = mutation.range
          /\ mutation'.step = mutation.step /\ mutation'.key = mutation.key
    BY <1>0, <2>1 DEF Mutations
  <2>3. DialogTypes' /\ SerialsGivenOut' /\ RangesKept'
    BY <1>b, <2>1, <2>2 DEF PreviewInv, DialogTypes, SerialsGivenOut, RangesKept, Clear
  <2>4. RangeOnItsWay' /\ ViewIsCurrent' /\ PageStays'
    BY <1>b, <2>1, <2>2
       DEF PreviewInv, RangeOnItsWay, ViewIsCurrent, PageStays, InView, Preview!Loading,
           Preview!Pending
  <2> QED BY <2>1, <2>3, <2>4 DEF PreviewInv
<1>12. CASE Preview!Applied
  <2> PICK heard \in BOOLEAN :
        mutation' = [mutation EXCEPT !.step = IF heard THEN "answered" ELSE "failed",
                                     !.range = ranges' \ ranges]
    BY <1>12 DEF Preview!Applied
  <2>1. /\ mutation.step = "sent" /\ Preview!Issue(mutation.key.prefix, mutation.key.quantity)
        /\ UNCHANGED <<shown, rangePage, choice, cache, rangeFetch, failed, own>>
    BY <1>12 DEF Preview!Applied, Preview!dialogVars, Preview!queryVars
  <2>2. mutation.key.prefix \in DevEuiPrefixes /\ mutation.key.quantity \in Nat
    BY <2>1, NumbersOfKeys DEF PreviewInv, PageStays, Preview!Pending, DialogTypes, Mutations
  <2>3. /\ taken' \in [DevEuiPrefixes -> Nat] /\ ranges' \subseteq SerialRanges /\ ranges \subseteq ranges'
        /\ \A o \in ranges' : o.last <= taken'[o.prefix]
    BY <2>1, <2>2, IssuedAbove
  <2>4. mutation' \in Mutations /\ mutation'.range \subseteq ranges' /\ mutation'.key = mutation.key
    BY <1>0, <2>3 DEF Mutations
  <2>5. DialogTypes' /\ SerialsGivenOut' /\ RangesKept'
    BY <2>1, <2>3, <2>4 DEF PreviewInv, DialogTypes, SerialsGivenOut, RangesKept, Clear
  <2>6. RangeOnItsWay' /\ ViewIsCurrent' /\ PageStays'
    BY <2>1, <2>4
       DEF PreviewInv, RangeOnItsWay, ViewIsCurrent, PageStays, InView,
           Preview!Loading, Preview!Pending, Clear
  <2> QED BY <2>1, <2>5, <2>6 DEF PreviewInv
<1>13. CASE Preview!Refused
  <2>1. /\ mutation' = [mutation EXCEPT !.step = "failed"]
        /\ UNCHANGED <<shown, rangePage, choice, cache, rangeFetch, failed, taken, ranges, own>>
        /\ mutation.step # "idle"
    BY <1>13 DEF Preview!Refused, Preview!serialVars, Preview!dialogVars, Preview!queryVars
  <2>2. mutation' \in Mutations /\ mutation'.range = mutation.range
          /\ mutation'.key = mutation.key
    BY <1>0, <2>1 DEF Mutations
  <2>3. InView /\ mutation.key.prefix \in DevEuiPrefixes
    BY <2>1 DEF PreviewInv, PageStays, Preview!Pending
  <2> QED BY <1>0, <2>1, <2>2, <2>3, MutationOnly
<1>14. ASSUME NEW p \in DevEuiPrefixes, NEW quantity \in Quantities, Preview!OthersCreate(p, quantity)
       PROVE  PreviewInv'
  <2>1. /\ Preview!Issue(p, quantity)
        /\ UNCHANGED <<shown, rangePage, choice, cache, rangeFetch, failed, own, mutation>>
    BY <1>14 DEF Preview!OthersCreate, Preview!dialogVars, Preview!queryVars
  <2>2. quantity \in Nat
    BY RangesAssumption DEF Preview!PreviewAssumption
  <2>3. /\ taken' \in [DevEuiPrefixes -> Nat] /\ ranges' \subseteq SerialRanges /\ ranges \subseteq ranges'
        /\ \A o \in ranges' : o.last <= taken'[o.prefix]
    BY <2>1, <2>2, IssuedAbove
  <2>4. DialogTypes' /\ SerialsGivenOut' /\ RangesKept'
    BY <2>1, <2>3 DEF PreviewInv, DialogTypes, SerialsGivenOut, RangesKept, Clear
  <2>5. RangeOnItsWay' /\ ViewIsCurrent' /\ PageStays'
    BY <2>1
       DEF PreviewInv, RangeOnItsWay, ViewIsCurrent, PageStays, InView,
           Preview!Loading, Preview!Pending, Clear
  <2> QED BY <2>1, <2>4, <2>5 DEF PreviewInv
<1>15. CASE Preview!Succeed
  <2>1. /\ own' = own \cup mutation.range
        /\ cache' = [k \in Preview!Keys |->
                       {[kept EXCEPT !.fresh = FALSE] : kept \in cache[k]}]
        /\ rangeFetch' = Preview!Asked(choice) /\ failed' = FALSE
        /\ mutation' = [mutation EXCEPT !.step = "refreshing", !.awaits = TRUE]
        /\ UNCHANGED <<shown, rangePage, choice, taken, ranges>>
        /\ mutation.step # "idle"
    BY <1>15 DEF Preview!Succeed, Preview!Invalidated, Preview!serialVars, Preview!dialogVars
  <2>2. mutation' \in Mutations /\ mutation'.range = mutation.range
          /\ mutation'.key = mutation.key
    BY <1>0, <2>1 DEF Mutations
  <2>3. /\ shown /\ rangePage = 2 /\ choice.prefix \in DevEuiPrefixes
        /\ mutation.key.prefix \in DevEuiPrefixes
    BY <1>0, <2>1 DEF Preview!Pending
  <2>4. DialogTypes'
    BY <1>b, <2>1, <2>2 DEF PreviewInv, DialogTypes
  <2>5. SerialsGivenOut'
    BY <1>0, <2>1, <2>2 DEF PreviewInv, SerialsGivenOut
  <2>6. ASSUME NEW k \in Preview!Keys
        PROVE  /\ \A a \in cache'[k] :
                    /\ a \in [range : SerialRanges, fresh : BOOLEAN]
                    /\ IsOf(k, a.range) /\ a.fresh = FALSE
               /\ \A a, b \in cache'[k] : a = b
    <3>1. /\ cache[k] \subseteq [range : SerialRanges, fresh : BOOLEAN]
          /\ \A a \in cache[k] : IsOf(k, a.range)
          /\ \A a, b \in cache[k] : a = b
      BY DEF PreviewInv, RangesKept
    <3>2. cache'[k] = {[kept EXCEPT !.fresh = FALSE] : kept \in cache[k]}
      BY <2>1
    <3>3. ASSUME NEW a \in cache'[k]
          PROVE  \E c \in cache[k] : a = [range |-> c.range, fresh |-> FALSE]
      <4>1. PICK c \in cache[k] : a = [c EXCEPT !.fresh = FALSE]
        BY <3>2
      <4> QED BY <4>1, <3>1
    <3>4. \A c \in cache[k] : c.range \in SerialRanges
      BY <3>1
    <3>5. ASSUME NEW a \in cache'[k]
          PROVE  a \in [range : SerialRanges, fresh : BOOLEAN] /\ IsOf(k, a.range) /\ a.fresh = FALSE
      <4>1. PICK c \in cache[k] : a = [range |-> c.range, fresh |-> FALSE]
        BY <3>3
      <4>2. a \in [range : SerialRanges, fresh : BOOLEAN] /\ a.range = c.range /\ a.fresh = FALSE
        BY <3>4, <4>1, KeptRange
      <4> QED BY <3>1, <4>2
    <3>6. ASSUME NEW a \in cache'[k], NEW b \in cache'[k] PROVE a = b
      BY <3>1, <3>3
    <3> QED BY <3>5, <3>6
  <2>7. /\ cache' \in [Preview!Keys -> SUBSET [range : SerialRanges, fresh : BOOLEAN]]
        /\ RangesKept'
    <3>1. cache' = [k \in Preview!Keys |-> cache'[k]]
      BY <2>1
    <3> QED BY <3>1, <2>6 DEF RangesKept
  <2>8. RangeOnItsWay' /\ ViewIsCurrent' /\ PageStays'
    BY <1>b, <2>1, <2>2, <2>3, NumbersOfKeys
       DEF RangeOnItsWay, ViewIsCurrent, PageStays, InView, Preview!Enabled, Preview!Loading
  <2> QED BY <2>4, <2>5, <2>7, <2>8 DEF PreviewInv
<1>16. CASE Preview!Fail
  <2>1. /\ mutation' = Preview!Idle
        /\ UNCHANGED <<shown, rangePage, choice, cache, rangeFetch, failed, taken, ranges, own>>
    BY <1>16 DEF Preview!Fail, Preview!serialVars, Preview!dialogVars, Preview!queryVars
  <2> QED BY <1>a, <2>1, MutationOnly
<1>17. CASE Preview!Settle
  BY <1>a, <1>17, RenderingIsCurrent, NumbersOfKeys DEF Preview!Settle
<1>18. CASE UNCHANGED Preview!vars
  <2>1. UNCHANGED <<shown, rangePage, choice, cache, rangeFetch, failed, taken, ranges, own, mutation>>
    BY <1>18 DEF Preview!vars, Preview!serialVars, Preview!dialogVars, Preview!queryVars
  <2> QED BY <1>0, <2>1, MutationOnly DEF PreviewInv, PageStays, Preview!Pending
<1> QED
  BY <1>1, <1>2, <1>3, <1>4, <1>5, <1>6, <1>7, <1>8, <1>9, <1>10, <1>11, <1>12, <1>13, <1>14,
     <1>15, <1>16, <1>17, <1>18 DEF Preview!Next

LEMMA PreviewInvariant == Preview!Spec => []PreviewInv
BY PreviewStart, PreviewStep, PTL DEF Preview!Spec

LEMMA InvImpliesRange == PreviewInv => RangeIsToBeHad
<1> SUFFICES ASSUME PreviewInv, InView
             PROVE  /\ \A k \in cache[choice] : IsOf(choice, k.range)
                    /\ ~Preview!Loading /\ ~failed => \A k \in cache[choice] : Clear(k.range)
  BY DEF RangeIsToBeHad, Preview!RangeIsToBeHad, Preview!RangeIsOfTheChoice,
     Preview!OwnRangeIsNotOffered, Preview!Shown, InView, IsOf, Clear
<1> QED
  BY DEF PreviewInv, DialogTypes, RangesKept, ViewIsCurrent

-----------------------------------------------------------------------------
(* The ranges within the serials of a prefix.                              *)

InReach(r) == 1 <= r.first /\ r.first <= r.last /\ r.last <= MaxSerial

(* The page of the range is reached with a planned quantity, which is not  *)
(* changed there; what is asked for and created has it.                    *)
RoomInv ==
  /\ \A p \in DevEuiPrefixes : taken[p] <= MaxSerial
  /\ rangePage = 2 \/ Preview!Loading => choice.quantity \in Quantities
  /\ Preview!Pending => mutation.key.quantity \in Quantities
  /\ \A r \in rangeFetch.range : InReach(r)
  /\ \A k \in Preview!Keys : \A kept \in cache[k] : InReach(kept.range)

LEMMA QuantitiesCount == MaxSerial \in Nat /\ \A q \in Quantities : q \in Nat /\ q >= 1
BY RangesAssumption DEF Preview!PreviewAssumption

LEMMA RoomStart == Preview!Init => RoomInv
BY QuantitiesCount DEF Preview!Init, Preview!SerialsInit, RoomInv, Preview!Loading, Preview!Pending,
   Preview!NoFetch, Preview!Idle

(* Rendering moves a request at most to the choice that is rendered.       *)
LEMMA RenderingKeepsRoom ==
  ASSUME RoomInv, NEW inSight \in BOOLEAN, NEW pg \in {1, 2}, NEW sought,
         Preview!Render(inSight, pg, sought), pg = 2 => sought.quantity \in Quantities,
         mutation'.step # "idle" => mutation.step # "idle" /\ mutation'.key = mutation.key
  PROVE  RoomInv'
<1>1. /\ rangePage' = pg /\ choice' = sought /\ UNCHANGED <<taken, cache>>
      /\ \/ rangeFetch' = rangeFetch /\ sought = choice
         \/ rangeFetch' = Preview!NoFetch
         \/ rangeFetch' = Preview!Asked(sought) /\ pg = 2
  BY DEF Preview!Render, Preview!serialVars, Preview!Dropped, Preview!Enabled
<1>2. /\ Preview!NoFetch.range = {} /\ Preview!NoFetch.step = "none"
      /\ Preview!Asked(sought).range = {}
  BY DEF Preview!NoFetch, Preview!Asked
<1>3. \A r \in rangeFetch'.range : InReach(r)
  BY <1>1, <1>2 DEF RoomInv
<1>4. pg = 2 \/ rangeFetch'.step # "none" => sought.quantity \in Quantities
  BY <1>1, <1>2 DEF RoomInv, Preview!Loading
<1> QED BY <1>1, <1>3, <1>4 DEF RoomInv, Preview!Loading, Preview!Pending

LEMMA IssuingKeepsRoom ==
  ASSUME PreviewInv, RoomInv, NEW p \in DevEuiPrefixes, NEW quantity \in Quantities,
         Preview!Issue(p, quantity)
  PROVE  \A o \in DevEuiPrefixes : taken'[o] <= MaxSerial
<1>1. taken \in [DevEuiPrefixes -> Nat] /\ quantity \in Nat /\ MaxSerial \in Nat
  BY QuantitiesCount DEF PreviewInv, SerialsGivenOut
<1>2. taken' = [taken EXCEPT ![p] = taken[p] + quantity] /\ taken[p] + 1 + quantity - 1 <= MaxSerial
  BY DEF Preview!Issue, Preview!Fits
<1> QED BY <1>1, <1>2 DEF RoomInv

LEMMA RoomStep ==
  ASSUME PreviewInv, RoomInv, [Preview!Next]_(Preview!vars)
  PROVE  RoomInv'
<1>1. ASSUME UNCHANGED <<taken, rangePage, choice, cache, rangeFetch>>,
             mutation'.step # "idle" =>
               \/ mutation.step # "idle" /\ mutation'.key = mutation.key
               \/ rangePage = 2 /\ mutation'.key = choice
      PROVE  RoomInv'
  BY <1>1 DEF RoomInv, Preview!Loading, Preview!Pending
<1>2. /\ mutation \in Mutations /\ rangeFetch \in Fetches /\ rangePage \in {1, 2} /\ choice \in Preview!Keys
      /\ rangeFetch.step = "none" => rangeFetch = Preview!NoFetch
      /\ shown \in BOOLEAN
  BY DEF PreviewInv, DialogTypes
<1>a. ASSUME NEW sought, Preview!Render(FALSE, 1, sought) \/ Preview!Render(TRUE, 1, sought),
             mutation' = mutation \/ mutation'.step = "idle"
      PROVE  RoomInv'
  <2>1. FALSE \in BOOLEAN /\ TRUE \in BOOLEAN /\ 1 \in {1, 2} /\ ~(1 = 2)
    OBVIOUS
  <2>2. mutation'.step # "idle" => mutation.step # "idle" /\ mutation'.key = mutation.key
    BY <1>a
  <2>3. CASE Preview!Render(FALSE, 1, sought)
    BY <2>1, <2>2, <2>3, RenderingKeepsRoom
  <2>4. CASE Preview!Render(TRUE, 1, sought)
    BY <2>1, <2>2, <2>4, RenderingKeepsRoom
  <2> QED BY <1>a, <2>3, <2>4
<1>3. Preview!NoFetch.range = {} /\ Preview!Asked(choice).range = {} /\ Preview!NoFetch.step = "none"
  BY DEF Preview!NoFetch, Preview!Asked
<1>4. CASE Preview!Open \/ Preview!Close \/ Preview!GoToConfiguration \/ Preview!Back
  <2>1. CASE Preview!Open
    BY <1>2, <2>1, RenderingKeepsRoom DEF Preview!Open, RoomInv
  <2>2. CASE Preview!Close
    BY <2>2, <1>a DEF Preview!Close
  <2>3. CASE Preview!GoToConfiguration
    <3>1. choice.quantity \in Quantities
      BY <1>2, <2>3 DEF Preview!GoToConfiguration, Preview!Keys
    <3> QED BY <2>3, <3>1, RenderingKeepsRoom DEF Preview!GoToConfiguration
  <2>4. CASE Preview!Back
    <3>1. shown = TRUE /\ mutation' = mutation /\ Preview!Render(shown, 1, choice)
      BY <1>2, <2>4 DEF Preview!Back
    <3> QED BY <1>a, <3>1
  <2> QED BY <1>4, <2>1, <2>2, <2>3, <2>4
<1>5. ASSUME NEW quantity \in Quantities \cup {0}, Preview!TypeQuantity(quantity)
      PROVE  RoomInv'
  <2>1. /\ shown = TRUE /\ rangePage = 1 /\ mutation' = mutation
        /\ Preview!Render(shown, rangePage, [choice EXCEPT !.quantity = quantity])
    BY <1>2, <1>5 DEF Preview!TypeQuantity
  <2>2. Preview!Render(TRUE, 1, [choice EXCEPT !.quantity = quantity])
    BY <2>1
  <2> QED BY <1>a, <2>1, <2>2
<1>6. ASSUME NEW p \in DevEuiPrefixes, Preview!ChoosePrefix(p)
      PROVE  RoomInv'
  <2>1. /\ rangePage = 2 /\ Preview!Render(shown, rangePage, [choice EXCEPT !.prefix = p])
        /\ mutation' = [mutation EXCEPT !.awaits = FALSE]
    BY <1>6 DEF Preview!ChoosePrefix
  <2>2. [choice EXCEPT !.prefix = p].quantity = choice.quantity /\ choice.quantity \in Quantities
    BY <1>2, <2>1 DEF RoomInv, Preview!Keys
  <2>3. mutation'.step = mutation.step /\ mutation'.key = mutation.key
    BY <1>2, <2>1 DEF Mutations
  <2> QED BY <1>2, <2>1, <2>2, <2>3, RenderingKeepsRoom
<1>7. CASE Preview!Submit \/ Preview!Refused \/ Preview!Fail
  <2>1. UNCHANGED <<taken, rangePage, choice, cache, rangeFetch>>
    BY <1>7
       DEF Preview!Submit, Preview!Refused, Preview!Fail, Preview!serialVars,
           Preview!dialogVars, Preview!queryVars
  <2>2. CASE Preview!Submit
    <3>1. rangePage = 2 /\ mutation' = [Preview!Idle EXCEPT !.step = "sent", !.key = choice]
      BY <2>2 DEF Preview!Submit
    <3>2. mutation'.key = choice
      BY <3>1 DEF Preview!Idle
    <3> QED BY <1>1, <2>1, <3>1, <3>2
  <2>3. CASE Preview!Refused
    <3>1. mutation.step = "sent" /\ mutation' = [mutation EXCEPT !.step = "failed"]
      BY <2>3 DEF Preview!Refused
    <3>2. mutation'.key = mutation.key
      BY <1>2, <3>1 DEF Mutations
    <3> QED BY <1>1, <2>1, <3>1, <3>2
  <2>4. CASE Preview!Fail
    <3>1. mutation'.step = "idle"
      BY <2>4 DEF Preview!Fail, Preview!Idle
    <3> QED BY <1>1, <2>1, <3>1
  <2> QED BY <1>7, <2>2, <2>3, <2>4
<1>8. CASE Preview!WindowFocused
  <2>1. rangePage = 2 /\ rangeFetch' = Preview!Asked(choice) /\ UNCHANGED <<taken, rangePage, choice, cache, mutation>>
    BY <1>8 DEF Preview!WindowFocused, Preview!Enabled, Preview!serialVars, Preview!dialogVars
  <2> QED BY <1>3, <2>1 DEF RoomInv, Preview!Pending
<1>9. CASE Preview!PreviewAnswered
  <2> DEFINE r == Preview!RangeAt(choice.prefix, taken[choice.prefix] + 1, choice.quantity)
  <2>1. rangeFetch.step = "asked" /\ rangeFetch.key = choice /\ choice.prefix \in DevEuiPrefixes
    BY <1>9 DEF Preview!PreviewAnswered, PreviewInv, RangeOnItsWay, Preview!Loading
  <2>2. /\ Preview!Fits(taken[choice.prefix] + 1, choice.quantity)
        /\ rangeFetch' = [rangeFetch EXCEPT !.step = "answered", !.range = {r}]
        /\ UNCHANGED <<taken, rangePage, choice, cache, mutation>>
    BY <1>9, <2>1 DEF Preview!PreviewAnswered, Preview!serialVars, Preview!dialogVars
  <2>3. InReach(r)
    <3>1. /\ taken[choice.prefix] \in Nat /\ choice.quantity \in Nat /\ choice.quantity >= 1
          /\ MaxSerial \in Nat
      BY <2>1, QuantitiesCount DEF RoomInv, Preview!Loading, PreviewInv, SerialsGivenOut
    <3>2. /\ r.first = taken[choice.prefix] + 1
          /\ r.last = taken[choice.prefix] + 1 + choice.quantity - 1
      BY DEF Preview!RangeAt
    <3>3. r.last <= MaxSerial
      BY <2>2, <3>2 DEF Preview!Fits
    <3> HIDE DEF r
    <3> QED BY <3>1, <3>2, <3>3 DEF InReach
  <2> HIDE DEF r
  <2>4. rangeFetch'.range = {r} /\ rangeFetch.step # "none"
    BY <1>2, <2>1, <2>2 DEF Fetches
  <2> QED BY <2>2, <2>3, <2>4 DEF RoomInv, Preview!Loading, Preview!Pending
<1>10. CASE Preview!PreviewArrived
  <2>1. /\ cache' = [cache EXCEPT ![choice] = {[range |-> r, fresh |-> TRUE] : r \in rangeFetch.range}]
        /\ rangeFetch' = Preview!NoFetch /\ mutation' = [mutation EXCEPT !.awaits = FALSE]
        /\ UNCHANGED <<taken, rangePage, choice>>
    BY <1>10 DEF Preview!PreviewArrived, Preview!serialVars, Preview!dialogVars
  <2>2. mutation'.step = mutation.step /\ mutation'.key = mutation.key
    BY <1>2, <2>1 DEF Mutations
  <2>3. ASSUME NEW k \in Preview!Keys, NEW kept \in cache'[k]
        PROVE  InReach(kept.range)
    <3>1. cache \in [Preview!Keys -> SUBSET [range : SerialRanges, fresh : BOOLEAN]]
      BY DEF PreviewInv
    <3>2. \/ kept \in cache[k]
          \/ \E r \in rangeFetch.range : kept = [range |-> r, fresh |-> TRUE]
      BY <2>1, <2>3, <3>1
    <3> QED BY <3>2 DEF RoomInv
  <2> QED BY <1>3, <2>1, <2>2, <2>3 DEF RoomInv, Preview!Loading, Preview!Pending
<1>11. CASE Preview!PreviewFailed
  <2>1. /\ rangeFetch' = Preview!NoFetch /\ mutation' = [mutation EXCEPT !.awaits = FALSE]
        /\ UNCHANGED <<taken, rangePage, choice, cache>>
    BY <1>11 DEF Preview!PreviewFailed, Preview!serialVars, Preview!dialogVars
  <2>2. mutation'.step = mutation.step /\ mutation'.key = mutation.key
    BY <1>2, <2>1 DEF Mutations
  <2> QED BY <1>3, <2>1, <2>2 DEF RoomInv, Preview!Loading, Preview!Pending
<1>12. CASE Preview!Applied
  <2>1. /\ mutation.step = "sent" /\ Preview!Issue(mutation.key.prefix, mutation.key.quantity)
        /\ UNCHANGED <<rangePage, choice, cache, rangeFetch>>
        /\ \E heard \in BOOLEAN :
             mutation' = [mutation EXCEPT !.step = IF heard THEN "answered" ELSE "failed",
                                          !.range = ranges' \ ranges]
    BY <1>12 DEF Preview!Applied, Preview!dialogVars, Preview!queryVars
  <2>2. mutation.key.prefix \in DevEuiPrefixes /\ mutation.key.quantity \in Quantities
    BY <2>1 DEF PreviewInv, PageStays, RoomInv, Preview!Pending
  <2>3. mutation'.key = mutation.key /\ mutation.step # "idle"
    BY <1>2, <2>1 DEF Mutations
  <2> QED BY <2>1, <2>2, <2>3, IssuingKeepsRoom DEF RoomInv, Preview!Loading, Preview!Pending
<1>13. ASSUME NEW p \in DevEuiPrefixes, NEW quantity \in Quantities, Preview!OthersCreate(p, quantity)
       PROVE  RoomInv'
  <2>1. Preview!Issue(p, quantity) /\ UNCHANGED <<rangePage, choice, cache, rangeFetch, mutation>>
    BY <1>13 DEF Preview!OthersCreate, Preview!dialogVars, Preview!queryVars
  <2> QED BY <2>1, IssuingKeepsRoom DEF RoomInv, Preview!Loading, Preview!Pending
<1>14. CASE Preview!Succeed
  <2>1. /\ cache' = [k \in Preview!Keys |-> {[kept EXCEPT !.fresh = FALSE] : kept \in cache[k]}]
        /\ rangeFetch' = Preview!Asked(choice) /\ mutation.step # "idle"
        /\ mutation' = [mutation EXCEPT !.step = "refreshing", !.awaits = TRUE]
        /\ UNCHANGED <<taken, rangePage, choice>>
    BY <1>14 DEF Preview!Succeed, Preview!Invalidated, Preview!serialVars, Preview!dialogVars
  <2>2. mutation'.key = mutation.key
    BY <1>2, <2>1 DEF Mutations
  <2>3. rangePage = 2
    BY <2>1 DEF PreviewInv, PageStays, Preview!Pending, InView, Preview!Enabled
  <2>4. ASSUME NEW k \in Preview!Keys, NEW now \in cache'[k]
        PROVE  InReach(now.range)
    <3>1. cache[k] \subseteq [range : SerialRanges, fresh : BOOLEAN]
      BY DEF PreviewInv
    <3>2. PICK kept \in cache[k] : now = [kept EXCEPT !.fresh = FALSE]
      BY <2>1, <2>4
    <3>3. now.range = kept.range
      BY <3>1, <3>2
    <3> QED BY <3>3 DEF RoomInv
  <2> QED BY <1>3, <2>1, <2>2, <2>3, <2>4 DEF RoomInv, Preview!Loading, Preview!Pending
<1>15. CASE Preview!Settle
  <2>1. mutation'.step = "idle" /\ Preview!Render(FALSE, 1, Preview!Empty)
    BY <1>15 DEF Preview!Settle, Preview!Idle
  <2> QED BY <1>a, <2>1
<1>16. CASE UNCHANGED Preview!vars
  BY <1>16
     DEF Preview!vars, Preview!serialVars, Preview!dialogVars, Preview!queryVars, RoomInv,
         Preview!Loading, Preview!Pending
<1> QED
  BY <1>4, <1>5, <1>6, <1>7, <1>8, <1>9, <1>10, <1>11, <1>12, <1>13, <1>14, <1>15, <1>16
     DEF Preview!Next

LEMMA RoomInvariant == Preview!Spec => [](PreviewInv /\ RoomInv)
<1>1. PreviewInv /\ RoomInv /\ [Preview!Next]_(Preview!vars) => RoomInv'
  BY RoomStep
<1> QED BY <1>1, RoomStart, PreviewInvariant, PTL DEF Preview!Spec

(* The ranges in view and in the cache lie within the serials of a prefix, *)
(* and no more serials are given out than it has.                          *)
THEOREM PreviewIsTyped == Preview!Spec => []Preview!TypeOK
<1>1. ASSUME PreviewInv, RoomInv
      PROVE  Preview!TypeOK
  <2>1. taken \in [DevEuiPrefixes -> 0..MaxSerial]
    BY <1>1, QuantitiesCount DEF PreviewInv, SerialsGivenOut, RoomInv
  <2>2. ASSUME NEW k \in Preview!Keys, NEW kept \in cache[k]
        PROVE  kept.range \in [prefix : DevEuiPrefixes, first : 1..MaxSerial, last : 1..MaxSerial]
    <3>1. kept.range \in SerialRanges /\ IsOf(k, kept.range) /\ InReach(kept.range)
      BY <1>1 DEF PreviewInv, RangesKept, RoomInv
    <3>2. /\ kept.range = [prefix |-> kept.range.prefix, first |-> kept.range.first,
                           last |-> kept.range.last]
          /\ kept.range.prefix \in DevEuiPrefixes
          /\ kept.range.first \in Nat /\ kept.range.last \in Nat
      BY <3>1 DEF SerialRanges
    <3>3. kept.range.first \in 1..MaxSerial /\ kept.range.last \in 1..MaxSerial
      BY <3>1, <3>2, QuantitiesCount DEF InReach
    <3> QED BY <3>2, <3>3
  <2> QED BY <1>1, <2>1, <2>2
       DEF Preview!TypeOK, PreviewInv, DialogTypes, Fetches, Mutations, SerialsGivenOut
<1>2. PreviewInv /\ RoomInv => Preview!TypeOK
  BY <1>1
<1> QED BY <1>2, RoomInvariant, PTL

(* The server behind the dialog gives out serials as DevEuiSerials         *)
(* promises, with a creation from here as with those of others: each takes *)
(* the next serials of a prefix, as many as a batch may be planned with.   *)
(* A creation from the dialog is one only because its request carries a    *)
(* choice that was complete when it was sent.                              *)
THEOREM PreviewImplementsSerials == Preview!Spec => Preview!SerialsSpec
<1> DEFINE Given == \E p \in DevEuiPrefixes, quantity \in Quantities : Preview!Issue(p, quantity)
<1>1. Preview!Init => Preview!SerialsInit
  BY DEF Preview!Init
<1>2. ASSUME PreviewInv, RoomInv, [Preview!Next]_(Preview!vars)
      PROVE  [Given]_(Preview!serialVars)
  <2>1. CASE Preview!Applied
    <3>1. mutation.step = "sent" /\ Preview!Issue(mutation.key.prefix, mutation.key.quantity)
      BY <2>1 DEF Preview!Applied
    <3>2. mutation.key.prefix \in DevEuiPrefixes /\ mutation.key.quantity \in Quantities
      BY <1>2, <3>1 DEF PreviewInv, PageStays, RoomInv, Preview!Pending
    <3> QED BY <3>1, <3>2
  <2>2. ASSUME NEW p \in DevEuiPrefixes, NEW quantity \in Quantities,
               Preview!OthersCreate(p, quantity)
        PROVE  Given
    BY <2>2 DEF Preview!OthersCreate
  <2>3. CASE \/ Preview!Open \/ Preview!Close \/ Preview!GoToConfiguration \/ Preview!Back
             \/ \E quantity \in Quantities \cup {0} : Preview!TypeQuantity(quantity)
             \/ (\E p \in DevEuiPrefixes : Preview!ChoosePrefix(p)) \/ Preview!Settle
    BY <2>3
       DEF Preview!Open, Preview!Close, Preview!GoToConfiguration, Preview!Back,
           Preview!TypeQuantity, Preview!ChoosePrefix, Preview!Settle, Preview!Render
  <2>4. CASE \/ Preview!Submit \/ Preview!WindowFocused \/ Preview!PreviewAnswered
             \/ Preview!PreviewArrived \/ Preview!PreviewFailed \/ Preview!Refused
             \/ Preview!Succeed \/ Preview!Fail
    BY <2>4
       DEF Preview!Submit, Preview!WindowFocused, Preview!PreviewAnswered,
           Preview!PreviewArrived, Preview!PreviewFailed, Preview!Refused, Preview!Succeed,
           Preview!Fail
  <2>5. CASE UNCHANGED Preview!vars
    BY <2>5 DEF Preview!vars
  <2> QED BY <1>2, <2>1, <2>2, <2>3, <2>4, <2>5 DEF Preview!Next
<1>3. PreviewInv /\ RoomInv /\ [Preview!Next]_(Preview!vars) => [Given]_(Preview!serialVars)
  BY <1>2
<1> QED BY <1>1, <1>3, RoomInvariant, PTL DEF Preview!Spec, Preview!SerialsSpec

-----------------------------------------------------------------------------
(* MCDialogs.                                                              *)

LEMMA PreviewOfDialogs == MCSpec => Preview!Spec
<1>1. MCInit => Preview!Init
  BY DEF MCInit
<1>2. [MCNext]_mcVars => [Preview!Next]_(Preview!vars)
  BY DEF MCNext, mcVars, previewVars, Preview!vars, Preview!serialVars, Preview!dialogVars,
     Preview!queryVars
<1> QED BY <1>1, <1>2, PTL DEF MCSpec, Preview!Spec

(* The range shown is of the prefix and the quantity chosen.  Once it has  *)
(* loaded it overlaps none that this browser knows it has taken; those of  *)
(* others are not looked at.                                               *)
THEOREM OfferedRangeIsToBeHad == MCSpec => []RangeIsToBeHad
BY PreviewOfDialogs, PreviewInvariant, InvImpliesRange, PTL
=============================================================================
