---------------------------- MODULE OtkLineProofs ----------------------------
(***************************************************************************)
(* Theorems about OtkLine, for every number of handlers, jobs, batches,    *)
(* units, PAKs, slots and sessions.                                        *)
(***************************************************************************)
EXTENDS OtkLine, TLAPS, FiniteSetTheorems, WellFoundedInduction

----------------------------------------------------------------------------
(* Requests of one kind. *)

Opens     == [op : {"open"}, pak : Paks, unit : Units, slot : Slots, total : StepNos]
Starts    == [op : {"start"}, pak : Paks, session : Sessions, step : StepNos, check : Checks]
Reports   == [op : {"report"}, pak : Paks, session : Sessions, step : StepNos, result : StepResults]
Completes == [op : {"complete"}, session : Sessions, result : Results]
Packs     == [op : {"pack"}, unit : Units]
Archivals == [op : {"archive"}, batch : Batches, archived : BOOLEAN]
PakEdits  == [op : {"edit_pak"}, pak : Paks, kind : PakKinds]

OpenLabels     == {"open.batch", "open.kg", "open.pak", "open.find", "open.sessions"}
StepLabels     == {"step.session", "step.write"}
CompleteLabels == {"complete.kg", "complete.session", "complete.write"}
PackLabels     == {"pack.batch", "pack.kg", "pack.check", "pack.write"}
ArchiveLabels  == {"archive.batch", "archive.write"}
PakLabels      == {"pak.row", "pak.write"}

(* The statement a transaction is at belongs to its request, and the        *)
(* sessions it names or has locked exist.                                  *)
RequestOf(t) ==
    /\ pc[t] \in OpenLabels => req[t] \in Opens
    /\ pc[t] \in StepLabels =>
          req[t] \in Starts \cup Reports /\ session[req[t].session] \in SessionRecords
    /\ pc[t] \in CompleteLabels =>
          req[t] \in Completes /\ session[req[t].session] \in SessionRecords
    /\ pc[t] \in PackLabels => req[t] \in Packs
    /\ pc[t] \in ArchiveLabels => req[t] \in Archivals
    /\ pc[t] \in PakLabels => req[t] \in PakEdits
    /\ \A s \in loc[t].running : session[s] \in SessionRecords

RequestsFit == \A t \in Tx : RequestOf(t)

TypeInv == TypeOK /\ RequestsFit

(* A session that exists keeps existing. *)
Kept == \A s \in Sessions : session[s] \in SessionRecords => session'[s] \in SessionRecords

----------------------------------------------------------------------------
(* Closing and writing sessions yields sessions. *)

LEMMA RecordedType ==
    ASSUME TypeOK, NEW s \in Sessions, session[s].status # "absent"
    PROVE  session[s] \in SessionRecords
  BY DEF TypeOK, NoSession

LEMMA IncompleteType ==
    ASSUME NEW r \in SessionRecords, NEW now \in Nat
    PROVE  Incomplete(r, now) \in SessionRecords
<1> DEFINE steps == [n \in StepNos |->
                       IF r.steps[n].status = "running"
                       THEN [r.steps[n] EXCEPT !.status = "incomplete"] ELSE r.steps[n]]
<1>1. steps \in [StepNos -> Steps \cup {NoStep}]
  <2> SUFFICES ASSUME NEW n \in StepNos
               PROVE  steps[n] \in Steps \cup {NoStep}
    OBVIOUS
  <2>1. r.steps[n] \in Steps \cup {NoStep}
    BY DEF SessionRecords
  <2>2. CASE r.steps[n].status = "running"
    BY <2>1, <2>2 DEF Steps, NoStep, StepStatuses, Finished
  <2>3. CASE r.steps[n].status # "running"
    BY <2>1, <2>3
  <2> QED BY <2>2, <2>3
<1>2. now # NoTime
  BY DEF NoTime
<1> HIDE DEF steps
<1>3. [r EXCEPT !.status = "incomplete", !.completed = now, !.steps = steps] \in SessionRecords
  BY <1>1, <1>2 DEF SessionRecords, Finished
<1> QED BY <1>3 DEF Incomplete, steps

LEMMA CompleteType ==
    ASSUME NEW r \in SessionRecords, NEW x \in Results, NEW now \in Nat
    PROVE  Complete(r, x, now) \in SessionRecords
<1> DEFINE steps == [n \in StepNos |->
                       IF r.steps[n].status = "running"
                       THEN [r.steps[n] EXCEPT !.status = "aborted"] ELSE r.steps[n]]
<1>1. steps \in [StepNos -> Steps \cup {NoStep}]
  <2> SUFFICES ASSUME NEW n \in StepNos
               PROVE  steps[n] \in Steps \cup {NoStep}
    OBVIOUS
  <2>1. r.steps[n] \in Steps \cup {NoStep}
    BY DEF SessionRecords
  <2>2. CASE r.steps[n].status = "running"
    BY <2>1, <2>2 DEF Steps, NoStep, StepStatuses, Finished, Results
  <2>3. CASE r.steps[n].status # "running"
    BY <2>1, <2>3
  <2> QED BY <2>2, <2>3
<1>2. now # NoTime /\ x # "running"
  BY DEF NoTime, Results
<1> HIDE DEF steps
<1>3. [r EXCEPT !.status = x, !.completed = now, !.active = now, !.steps = steps]
        \in SessionRecords
  BY <1>1, <1>2 DEF SessionRecords, Finished
<1> QED BY <1>3 DEF Complete, steps

LEMMA ReportType ==
    ASSUME NEW r \in SessionRecords, NEW n \in StepNos, NEW now \in Nat, NEW step \in Steps
    PROVE  [r EXCEPT !.active = now, !.steps[n] = step] \in SessionRecords
  BY DEF SessionRecords

----------------------------------------------------------------------------
(* What the steps share. *)

LEMMA OthersFit ==
    ASSUME TypeInv, Kept, NEW o \in Tx,
           pc'[o] = pc[o], req'[o] = req[o], loc'[o] = loc[o]
    PROVE  RequestOf(o)'
<1>1. RequestOf(o)
  BY DEF TypeInv, RequestsFit
<1>2. loc[o].running \subseteq Sessions
  BY DEF TypeInv, TypeOK, Locals
<1>3. req[o] \in Starts \cup Reports \cup Completes => req[o].session \in Sessions
  BY DEF Starts, Reports, Completes
<1> QED BY <1>1, <1>2, <1>3 DEF RequestOf, Kept

LEMMA BeginType ==
    ASSUME TypeInv, NEW t \in Handlers, NEW r \in Requests, NEW l \in Locals, NEW first \in Labels,
           Begin(t, r, l, first), l.running = {},
           /\ first \in OpenLabels => r \in Opens
           /\ first \in StepLabels =>
                 r \in Starts \cup Reports /\ session[r.session] \in SessionRecords
           /\ first \in CompleteLabels => r \in Completes /\ session[r.session] \in SessionRecords
           /\ first \in PackLabels => r \in Packs
           /\ first \in ArchiveLabels => r \in Archivals
           /\ first \in PakLabels => r \in PakEdits
    PROVE  TypeInv'
<1>1. TypeOK'
  BY DEF TypeInv, TypeOK, Begin, Tx
<1>2. ASSUME NEW o \in Tx
      PROVE  RequestOf(o)'
  <2>1. Kept
    BY DEF Kept, Begin
  <2>2. CASE o # t
    BY <2>1, <2>2, OthersFit DEF Begin, TypeInv, TypeOK
  <2>3. CASE o = t
    <3>1. pc'[t] = first /\ req'[t] = r /\ loc'[t] = l /\ session' = session
      BY DEF Begin, TypeInv, TypeOK, Tx
    <3> QED BY <2>3, <3>1 DEF RequestOf
  <2> QED BY <2>2, <2>3
<1> QED BY <1>1, <1>2 DEF TypeInv, RequestsFit

(* The labels of one request. *)
SameRequest(a, b) ==
    \E L \in {OpenLabels, StepLabels, CompleteLabels, PackLabels, ArchiveLabels, PakLabels} :
        a \in L /\ b \in L

LEMMA GoOnType ==
    ASSUME TypeInv, NEW t \in Tx, NEW l \in Locals, NEW next \in Labels,
           pc' = [pc EXCEPT ![t] = next], loc' = [loc EXCEPT ![t] = l],
           SameRequest(pc[t], next), held' \in [Tx -> SUBSET (Rows \X Modes)],
           \A s \in l.running : session[s] \in SessionRecords,
           UNCHANGED <<archived, kg, pakKind, session, clock, req>>
    PROVE  TypeInv'
<1>1. TypeOK'
  BY DEF TypeInv, TypeOK
<1>2. ASSUME NEW o \in Tx
      PROVE  RequestOf(o)'
  <2>1. Kept
    BY DEF Kept
  <2>2. CASE o # t
    BY <2>1, <2>2, OthersFit DEF TypeInv, TypeOK
  <2>3. CASE o = t
    <3>1. pc'[t] = next /\ loc'[t] = l /\ RequestOf(t)
      BY DEF TypeInv, TypeOK, RequestsFit
    <3>2. SameRequest(pc[t], pc'[t])
      BY <3>1
    <3> QED BY <2>3, <3>1, <3>2 DEF RequestOf, SameRequest, OpenLabels, StepLabels,
                 CompleteLabels, PackLabels, ArchiveLabels, PakLabels
  <2> QED BY <2>2, <2>3
<1> QED BY <1>1, <1>2 DEF TypeInv, RequestsFit

LEMMA AcquireType ==
    ASSUME TypeInv, NEW t \in Tx, NEW r \in Rows, NEW m \in Modes, NEW l \in Locals,
           NEW next \in Labels, Acquire(t, r, m, l, next), SameRequest(pc[t], next),
           \A s \in l.running : session[s] \in SessionRecords
    PROVE  TypeInv'
<1>1. held' \in [Tx -> SUBSET (Rows \X Modes)]
  BY DEF TypeInv, TypeOK, Acquire, Grant
<1> QED BY <1>1, GoOnType DEF Acquire

LEMMA EndType ==
    ASSUME TypeInv, NEW t \in Tx, End(t), Kept,
           archived' \in [Batches -> BOOLEAN], kg' \in [Units -> Kgs],
           pakKind' \in [Paks -> PakKinds],
           session' \in [Sessions -> SessionRecords \cup {NoSession}]
    PROVE  TypeInv'
<1>1. NoLocals \in Locals
  BY DEF NoLocals, Locals, PakKinds
<1>2. TypeOK'
  <2>1. pc' \in [Tx -> Labels] /\ req' \in [Tx -> Requests \cup {NoRequest}]
    BY DEF TypeInv, TypeOK, End, Labels
  <2>2. loc' \in [Tx -> Locals] /\ held' \in [Tx -> SUBSET (Rows \X Modes)] /\ clock' \in Nat
    BY <1>1 DEF TypeInv, TypeOK, End, ReleaseAll
  <2> QED BY <2>1, <2>2 DEF TypeOK
<1>3. ASSUME NEW o \in Tx
      PROVE  RequestOf(o)'
  <2>1. CASE o # t
    BY <2>1, OthersFit DEF End, TypeInv, TypeOK
  <2>2. CASE o = t
    <3>1. pc'[t] = "idle" /\ loc'[t] = NoLocals
      BY DEF End, TypeInv, TypeOK
    <3> QED BY <2>2, <3>1 DEF RequestOf, NoLocals, OpenLabels, StepLabels, CompleteLabels,
                 PackLabels, ArchiveLabels, PakLabels
  <2> QED BY <2>1, <2>2
<1> QED BY <1>2, <1>3 DEF TypeInv, RequestsFit

LEMMA LeaveType ==
    ASSUME TypeInv, NEW t \in Tx, Leave(t)
    PROVE  TypeInv'
<1>1. UNCHANGED <<archived, kg, pakKind, session>> /\ End(t)
  BY DEF Leave, db
<1>2. Kept
  BY <1>1 DEF Kept
<1> QED BY <1>1, <1>2, EndType DEF TypeInv, TypeOK

----------------------------------------------------------------------------
(* Type correctness, operation by operation. *)

LEMMA RequestType ==
    ASSUME TypeInv, NEW t \in Handlers, Request(t)
    PROVE  TypeInv'
<1> USE DEF OpenLabels, StepLabels, CompleteLabels, PackLabels, ArchiveLabels, PakLabels, Labels
<1>1. NoLocals \in Locals /\ NoLocals.running = {}
  BY DEF NoLocals, Locals, PakKinds
<1>2. \A s \in Recorded : s \in Sessions /\ session[s] \in SessionRecords
  BY RecordedType DEF Recorded, TypeInv
<1>3. CASE OpenSession(t)
  <2>1. PICK p \in Paks, u \in Units, n \in Slots, k \in StepNos :
           Begin(t, [op |-> "open", pak |-> p, unit |-> u, slot |-> n, total |-> k],
                 [NoLocals EXCEPT !.kind = pakKind[p]], "open.batch")
    BY <1>3 DEF OpenSession
  <2> DEFINE r == [op |-> "open", pak |-> p, unit |-> u, slot |-> n, total |-> k]
             l == [NoLocals EXCEPT !.kind = pakKind[p]]
  <2>2. r \in Opens /\ r \in Requests
    BY DEF Opens, Requests
  <2>3. l \in Locals /\ l.running = {}
    BY <1>1 DEF TypeInv, TypeOK, Locals, NoLocals
  <2> HIDE DEF r, l
  <2>4. Begin(t, r, l, "open.batch")
    BY <2>1 DEF r, l
  <2> QED BY <2>2, <2>3, <2>4, BeginType
<1>4. CASE StartStep(t)
  <2>1. PICK p \in Paks, s \in Recorded, n \in StepNos, c \in Checks :
           Begin(t, [op |-> "start", pak |-> p, session |-> s, step |-> n, check |-> c],
                 NoLocals, "step.session")
    BY <1>4 DEF StartStep
  <2> DEFINE r == [op |-> "start", pak |-> p, session |-> s, step |-> n, check |-> c]
  <2>2. r \in Starts /\ r \in Requests /\ session[r.session] \in SessionRecords
    BY <1>2 DEF Starts, Requests
  <2> HIDE DEF r
  <2>3. Begin(t, r, NoLocals, "step.session")
    BY <2>1 DEF r
  <2> QED BY <1>1, <2>2, <2>3, BeginType
<1>5. CASE CompleteStep(t)
  <2>1. PICK p \in Paks, s \in Recorded, n \in StepNos, x \in StepResults :
           Begin(t, [op |-> "report", pak |-> p, session |-> s, step |-> n, result |-> x],
                 NoLocals, "step.session")
    BY <1>5 DEF CompleteStep
  <2> DEFINE r == [op |-> "report", pak |-> p, session |-> s, step |-> n, result |-> x]
  <2>2. r \in Reports /\ r \in Requests /\ session[r.session] \in SessionRecords
    BY <1>2 DEF Reports, Requests
  <2> HIDE DEF r
  <2>3. Begin(t, r, NoLocals, "step.session")
    BY <2>1 DEF r
  <2> QED BY <1>1, <2>2, <2>3, BeginType
<1>6. CASE CompleteSession(t)
  <2>1. PICK s \in Recorded, x \in Results :
           Begin(t, [op |-> "complete", session |-> s, result |-> x], NoLocals, "complete.kg")
    BY <1>6 DEF CompleteSession
  <2> DEFINE r == [op |-> "complete", session |-> s, result |-> x]
  <2>2. r \in Completes /\ r \in Requests /\ session[r.session] \in SessionRecords
    BY <1>2 DEF Completes, Requests
  <2> HIDE DEF r
  <2>3. Begin(t, r, NoLocals, "complete.kg")
    BY <2>1 DEF r
  <2> QED BY <1>1, <2>2, <2>3, BeginType
<1>7. CASE Pack(t)
  <2>1. PICK u \in Units : Begin(t, [op |-> "pack", unit |-> u], NoLocals, "pack.batch")
    BY <1>7 DEF Pack
  <2> DEFINE r == [op |-> "pack", unit |-> u]
  <2>2. r \in Packs /\ r \in Requests
    BY DEF Packs, Requests
  <2> HIDE DEF r
  <2>3. Begin(t, r, NoLocals, "pack.batch")
    BY <2>1 DEF r
  <2> QED BY <1>1, <2>2, <2>3, BeginType
<1>8. CASE SetArchived(t)
  <2>1. PICK b \in Batches, a \in BOOLEAN :
           Begin(t, [op |-> "archive", batch |-> b, archived |-> a], NoLocals, "archive.batch")
    BY <1>8 DEF SetArchived
  <2> DEFINE r == [op |-> "archive", batch |-> b, archived |-> a]
  <2>2. r \in Archivals /\ r \in Requests
    BY DEF Archivals, Requests
  <2> HIDE DEF r
  <2>3. Begin(t, r, NoLocals, "archive.batch")
    BY <2>1 DEF r
  <2> QED BY <1>1, <2>2, <2>3, BeginType
<1>9. CASE EditPak(t)
  <2>1. PICK p \in Paks, k \in PakKinds :
           Begin(t, [op |-> "edit_pak", pak |-> p, kind |-> k], NoLocals, "pak.row")
    BY <1>9 DEF EditPak
  <2> DEFINE r == [op |-> "edit_pak", pak |-> p, kind |-> k]
  <2>2. r \in PakEdits /\ r \in Requests
    BY DEF PakEdits, Requests
  <2> HIDE DEF r
  <2>3. Begin(t, r, NoLocals, "pak.row")
    BY <2>1 DEF r
  <2> QED BY <1>1, <2>2, <2>3, BeginType
<1> QED BY <1>3, <1>4, <1>5, <1>6, <1>7, <1>8, <1>9 DEF Request

LEMMA CloseIncompleteType ==
    ASSUME TypeInv, NEW S \in SUBSET Sessions, NEW now \in Nat,
           \A s \in S : session[s] \in SessionRecords
    PROVE  /\ CloseIncomplete(S, now) \in [Sessions -> SessionRecords \cup {NoSession}]
           /\ \A s \in Sessions : session[s] \in SessionRecords =>
                 CloseIncomplete(S, now)[s] \in SessionRecords
  BY IncompleteType DEF CloseIncomplete, TypeInv, TypeOK

LEMMA LocalsType ==
    ASSUME TypeInv, NEW t \in Tx
    PROVE  /\ loc[t] \in Locals /\ loc[t].now \in Nat /\ loc[t].kind \in PakKinds
           /\ loc[t].found \subseteq Sessions /\ loc[t].running \subseteq Sessions
           /\ \A s \in loc[t].running : session[s] \in SessionRecords
           /\ [loc[t] EXCEPT !.now = clock] \in Locals
  BY DEF TypeInv, TypeOK, Locals, RequestsFit, RequestOf

LEMMA SameType ==
    ASSUME NEW a \in Labels, NEW b \in Labels
    PROVE  /\ a \in OpenLabels /\ b \in OpenLabels => SameRequest(a, b)
           /\ a \in StepLabels /\ b \in StepLabels => SameRequest(a, b)
           /\ a \in CompleteLabels /\ b \in CompleteLabels => SameRequest(a, b)
           /\ a \in PackLabels /\ b \in PackLabels => SameRequest(a, b)
           /\ a \in ArchiveLabels /\ b \in ArchiveLabels => SameRequest(a, b)
           /\ a \in PakLabels /\ b \in PakLabels => SameRequest(a, b)
  BY DEF SameRequest

LEMMA OpenType ==
    ASSUME TypeInv, NEW t \in Tx, Open(t)
    PROVE  TypeInv'
<1> USE DEF OpenLabels, Labels, Modes
<1>1. pc[t] \in OpenLabels /\ req[t] \in Opens
  BY DEF Open, LockOpenBatch, LockOpenKg, LockOpenPak, FindRunningSessions, LockRunningSession,
         ResumeSession, RefuseRunning, InsertSession, OpenReady, TypeInv, RequestsFit, RequestOf
<1>2. req[t].unit \in Units /\ req[t].pak \in Paks /\ req[t].slot \in Slots /\ req[t].total \in StepNos
  BY <1>1 DEF Opens
<1>3. /\ BatchRow(BatchOf[req[t].unit]) \in Rows
      /\ KgRow(req[t].unit) \in Rows /\ PakRow(req[t].pak) \in Rows
      /\ \A s \in Sessions : SessionRow(s) \in Rows
  BY <1>2, DomainAssumption DEF Rows
<1>4. \A b \in OpenLabels : SameRequest(pc[t], b)
  BY <1>1, SameType
<1>5. CASE LockOpenBatch(t)
  BY <1>5, <1>3, <1>4, LocalsType, AcquireType DEF LockOpenBatch, OpenBatchMode
<1>6. CASE LockOpenKg(t)
  BY <1>6, <1>3, <1>4, LocalsType, AcquireType, LeaveType DEF LockOpenKg, OpenKgMode
<1>7. CASE LockOpenPak(t)
  <2> DEFINE l == [loc[t] EXCEPT !.now = clock]
  <2>1. l \in Locals /\ l.running = loc[t].running
    BY LocalsType DEF Locals
  <2>2. Acquire(t, PakRow(req[t].pak), NoKeyUpdate, l, "open.find")
    BY <1>7 DEF LockOpenPak, OpenPakMode
  <2> HIDE DEF l
  <2> QED BY <2>1, <2>2, <1>3, <1>4, LocalsType, AcquireType
<1>8. CASE FindRunningSessions(t)
  <2> DEFINE found == {s \in Running : session[s].unit = req[t].unit
                                        \/ InPlace(s, req[t].pak, req[t].slot)}
             l == [loc[t] EXCEPT !.found = found]
  <2>1. found \subseteq Sessions
    BY DEF Running
  <2> HIDE DEF found
  <2>2. l \in Locals /\ l.running = loc[t].running
    BY <2>1, LocalsType DEF Locals
  <2>3. /\ loc' = [loc EXCEPT ![t] = l] /\ pc' = [pc EXCEPT ![t] = "open.sessions"]
        /\ UNCHANGED <<archived, kg, pakKind, session, clock, req, held>>
    BY <1>8 DEF FindRunningSessions, found, TypeInv, TypeOK
  <2> HIDE DEF l
  <2>4. held' \in [Tx -> SUBSET (Rows \X Modes)]
    BY <2>3 DEF TypeInv, TypeOK
  <2> QED BY <2>2, <2>3, <2>4, <1>4, LocalsType, GoOnType
<1>9. CASE LockRunningSession(t)
  <2>1. PICK s \in NextToLock(t) :
           Acquire(t, SessionRow(s), Update,
                   IF s \in Running THEN [[loc[t] EXCEPT !.found = @ \ {s}]
                                            EXCEPT !.running = @ \cup {s}]
                                    ELSE [loc[t] EXCEPT !.found = @ \ {s}],
                   "open.sessions")
    BY <1>9 DEF LockRunningSession
  <2> DEFINE l == IF s \in Running THEN [[loc[t] EXCEPT !.found = @ \ {s}]
                                           EXCEPT !.running = @ \cup {s}]
                                   ELSE [loc[t] EXCEPT !.found = @ \ {s}]
  <2>2. s \in Sessions /\ (s \in Running => session[s] \in SessionRecords)
    <3>1. s \in Sessions
      BY LocalsType DEF NextToLock
    <3>2. s \in Running => session[s].status # "absent"
      BY DEF Running
    <3> QED BY <3>1, <3>2, RecordedType DEF TypeInv
  <2>3. l \in Locals /\ \A r \in l.running : session[r] \in SessionRecords
    BY <2>2, LocalsType DEF Locals
  <2>4. Acquire(t, SessionRow(s), Update, l, "open.sessions")
    BY <2>1
  <2> HIDE DEF l
  <2> QED BY <2>2, <2>3, <2>4, <1>3, <1>4, AcquireType
<1>10. CASE ResumeSession(t)
  <2>1. PICK s \in ByKg(t) : session' = [session EXCEPT ![s].active = loc[t].now]
    BY <1>10 DEF ResumeSession
  <2>2. s \in Sessions /\ session[s] \in SessionRecords
    BY LocalsType DEF ByKg
  <2>3. [session[s] EXCEPT !.active = loc[t].now] \in SessionRecords
    BY <2>2, LocalsType DEF SessionRecords
  <2>4. Kept /\ session' \in [Sessions -> SessionRecords \cup {NoSession}]
    BY <2>1, <2>2, <2>3 DEF Kept, TypeInv, TypeOK
  <2> QED BY <2>4, <1>10, EndType DEF ResumeSession, TypeInv, TypeOK
<1>11. CASE RefuseRunning(t)
  BY <1>11, LeaveType DEF RefuseRunning
<1>12. CASE InsertSession(t)
  <2>1. CASE Leave(t)
    BY <2>1, LeaveType
  <2>2. CASE /\ \E id \in Sessions \ Recorded :
                   session' = [CloseIncomplete(loc[t].running, loc[t].now)
                                 EXCEPT ![id] = NewSession(t)]
             /\ UNCHANGED <<archived, kg, pakKind>>
             /\ End(t)
    <3>1. PICK id \in Sessions \ Recorded :
             session' = [CloseIncomplete(loc[t].running, loc[t].now) EXCEPT ![id] = NewSession(t)]
      BY <2>2
    <3>2. [n \in StepNos |-> NoStep] \in [StepNos -> Steps \cup {NoStep}]
      OBVIOUS
    <3>3. NewSession(t) \in SessionRecords
      BY <1>2, <3>2, LocalsType DEF NewSession, SessionRecords, NoTime
    <3>4. Kept /\ session' \in [Sessions -> SessionRecords \cup {NoSession}]
      BY <3>1, <3>3, LocalsType, CloseIncompleteType DEF Kept
    <3> QED BY <2>2, <3>4, EndType DEF TypeInv, TypeOK
  <2> QED BY <1>12, <2>1, <2>2 DEF InsertSession
<1> QED BY <1>5, <1>6, <1>7, <1>8, <1>9, <1>10, <1>11, <1>12 DEF Open

LEMMA StepType ==
    ASSUME TypeInv, NEW t \in Tx, Step(t)
    PROVE  TypeInv'
<1> USE DEF StepLabels, Labels, Modes
<1>1. pc[t] \in StepLabels /\ req[t] \in Starts \cup Reports
      /\ session[req[t].session] \in SessionRecords
  BY DEF Step, LockStepSession, WriteStart, WriteReport, TypeInv, RequestsFit, RequestOf
<1>2. req[t].session \in Sessions /\ req[t].step \in StepNos
  BY <1>1 DEF Starts, Reports
<1>3. CASE LockStepSession(t)
  <2> DEFINE l == [loc[t] EXCEPT !.now = clock]
  <2>1. l \in Locals /\ l.running = loc[t].running
    BY LocalsType DEF Locals
  <2>2. SessionRow(req[t].session) \in Rows
    BY <1>2 DEF Rows
  <2>3. SameRequest(pc[t], "step.write")
    BY <1>1, SameType
  <2>4. \/ Acquire(t, SessionRow(req[t].session), Update, l, "step.write")
        \/ Leave(t)
    BY <1>3 DEF LockStepSession, StepMode
  <2> HIDE DEF l
  <2> QED BY <2>1, <2>2, <2>3, <2>4, LocalsType, AcquireType, LeaveType
<1>4. ASSUME NEW step \in Steps, SaveStep(t, step)
      PROVE  TypeInv'
  <2>1. [session[req[t].session] EXCEPT !.active = loc[t].now, !.steps[req[t].step] = step]
          \in SessionRecords
    BY <1>1, <1>2, ReportType, LocalsType
  <2>2. Kept /\ session' \in [Sessions -> SessionRecords \cup {NoSession}]
    BY <1>2, <1>4, <2>1 DEF SaveStep, Kept, TypeInv, TypeOK
  <2> QED BY <2>2, <1>4, EndType DEF SaveStep, TypeInv, TypeOK
<1>5. StepOf(t) \in Steps \cup {NoStep}
  BY <1>1, <1>2 DEF StepOf, SessionRecords
<1>6. StepOf(t).status # "absent" => StepOf(t) \in Steps
  BY <1>5 DEF NoStep
<1>7. CASE WriteStart(t)
  <2>1. [check |-> req[t].check, status |-> "running"] \in Steps
    BY <1>1, <1>7 DEF WriteStart, Starts, Reports, Steps, StepStatuses
  <2> QED BY <1>4, <1>6, <1>7, <2>1, LeaveType DEF WriteStart
<1>8. CASE WriteReport(t)
  <2>1. req[t].result \in StepResults
    BY <1>1, <1>8 DEF WriteReport, Starts, Reports
  <2>2. StepOf(t) \in Steps => [StepOf(t) EXCEPT !.status = req[t].result] \in Steps
    BY <2>1 DEF Steps, StepStatuses, StepResults, Finished, Results
  <2>3. "absent" \notin {"running", req[t].result}
    BY <2>1 DEF StepResults
  <2> QED BY <1>4, <1>6, <1>8, <2>2, <2>3, LeaveType DEF WriteReport
<1> QED BY <1>3, <1>7, <1>8 DEF Step

LEMMA FinishType ==
    ASSUME TypeInv, NEW t \in Tx, Finish(t)
    PROVE  TypeInv'
<1> USE DEF CompleteLabels, Labels, Modes
<1>1. pc[t] \in CompleteLabels /\ req[t] \in Completes
      /\ session[req[t].session] \in SessionRecords
  BY DEF Finish, LockCompletedKg, LockCompletedSession, WriteCompletion,
         TypeInv, RequestsFit, RequestOf
<1>2. req[t].session \in Sessions /\ req[t].result \in Results
      /\ session[req[t].session].unit \in Units
  BY <1>1 DEF Completes, SessionRecords
<1>3. SessionRow(req[t].session) \in Rows /\ KgRow(session[req[t].session].unit) \in Rows
  BY <1>2 DEF Rows
<1>4. \A b \in CompleteLabels : SameRequest(pc[t], b)
  BY <1>1, SameType
<1>5. CASE LockCompletedKg(t)
  BY <1>5, <1>3, <1>4, LocalsType, AcquireType DEF LockCompletedKg, CompleteKgMode
<1>6. CASE LockCompletedSession(t)
  <2> DEFINE l == [loc[t] EXCEPT !.now = clock]
  <2>1. l \in Locals /\ l.running = loc[t].running
    BY LocalsType DEF Locals
  <2>2. \/ Acquire(t, SessionRow(req[t].session), Update, l, "complete.write")
        \/ Leave(t)
    BY <1>6 DEF LockCompletedSession, CompleteSessionMode
  <2> HIDE DEF l
  <2> QED BY <2>1, <2>2, <1>3, <1>4, LocalsType, AcquireType, LeaveType
<1>7. CASE WriteCompletion(t)
  <2>1. CASE Leave(t)
    BY <2>1, LeaveType
  <2>2. CASE ~Leave(t)
    <3>1. /\ session' = [session EXCEPT ![req[t].session] = Complete(@, req[t].result, loc[t].now)]
          /\ kg' = IF SetsOtk(req[t].session, req[t].result)
                   THEN [kg EXCEPT ![session[req[t].session].unit].otk = req[t].result] ELSE kg
          /\ UNCHANGED <<archived, pakKind>>
          /\ End(t)
      BY <1>7, <2>2 DEF WriteCompletion
    <3>2. Complete(session[req[t].session], req[t].result, loc[t].now) \in SessionRecords
      BY <1>1, <1>2, CompleteType, LocalsType
    <3>3. Kept /\ session' \in [Sessions -> SessionRecords \cup {NoSession}]
      BY <1>2, <3>1, <3>2 DEF Kept, TypeInv, TypeOK
    <3>4. SetsOtk(req[t].session, req[t].result) => req[t].result \in OtkStatuses
      BY DEF SetsOtk, OtkStatuses
    <3>5. kg' \in [Units -> Kgs]
      BY <1>2, <3>1, <3>4 DEF TypeInv, TypeOK, Kgs
    <3> QED BY <3>1, <3>3, <3>5, EndType DEF TypeInv, TypeOK
  <2> QED BY <2>1, <2>2
<1> QED BY <1>5, <1>6, <1>7 DEF Finish

LEMMA PackingType ==
    ASSUME TypeInv, NEW t \in Tx, Packing(t)
    PROVE  TypeInv'
<1> USE DEF PackLabels, Labels, Modes
<1>1. pc[t] \in PackLabels /\ req[t] \in Packs
  BY DEF Packing, LockPackBatch, LockPackKg, FindBlocker, WritePacked,
         TypeInv, RequestsFit, RequestOf
<1>2. req[t].unit \in Units
  BY <1>1 DEF Packs
<1>3. BatchRow(BatchOf[req[t].unit]) \in Rows /\ KgRow(req[t].unit) \in Rows
  BY <1>2, DomainAssumption DEF Rows
<1>4. \A b \in PackLabels : SameRequest(pc[t], b)
  BY <1>1, SameType
<1>5. CASE LockPackBatch(t)
  BY <1>5, <1>3, <1>4, LocalsType, AcquireType DEF LockPackBatch, PackBatchMode
<1>6. CASE LockPackKg(t)
  BY <1>6, <1>3, <1>4, LocalsType, AcquireType DEF LockPackKg, PackKgMode
<1>7. CASE FindBlocker(t)
  <2>1. CASE Leave(t)
    BY <2>1, LeaveType
  <2>2. CASE /\ pc' = [pc EXCEPT ![t] = "pack.write"]
             /\ UNCHANGED <<archived, kg, pakKind, session, clock, req, loc, held>>
    <3>1. /\ loc' = [loc EXCEPT ![t] = loc[t]]
          /\ held' \in [Tx -> SUBSET (Rows \X Modes)]
      BY <2>2 DEF TypeInv, TypeOK
    <3> QED BY <2>2, <3>1, <1>4, LocalsType, GoOnType
  <2> QED BY <1>7, <2>1, <2>2 DEF FindBlocker
<1>8. CASE WritePacked(t)
  <2>1. kg' \in [Units -> Kgs]
    BY <1>2, <1>8 DEF WritePacked, TypeInv, TypeOK, Kgs, KgStates
  <2>2. Kept
    BY <1>8 DEF WritePacked, Kept
  <2> QED BY <1>8, <2>1, <2>2, EndType DEF WritePacked, TypeInv, TypeOK
<1> QED BY <1>5, <1>6, <1>7, <1>8 DEF Packing

LEMMA ArchiveType ==
    ASSUME TypeInv, NEW t \in Tx, Archive(t)
    PROVE  TypeInv'
<1> USE DEF ArchiveLabels, Labels, Modes
<1>1. pc[t] \in ArchiveLabels /\ req[t] \in Archivals
  BY DEF Archive, LockArchivedBatch, WriteArchived, TypeInv, RequestsFit, RequestOf
<1>2. BatchRow(req[t].batch) \in Rows /\ req[t].archived \in BOOLEAN
  BY <1>1 DEF Archivals, Rows
<1>3. CASE LockArchivedBatch(t)
  <2>1. SameRequest(pc[t], "archive.write")
    BY <1>1, SameType
  <2> QED BY <1>3, <1>2, <2>1, LocalsType, AcquireType DEF LockArchivedBatch, ArchiveMode
<1>4. CASE WriteArchived(t)
  <2>1. archived' \in [Batches -> BOOLEAN]
    BY <1>2, <1>4 DEF WriteArchived, TypeInv, TypeOK
  <2>2. Kept
    BY <1>4 DEF WriteArchived, Kept
  <2> QED BY <1>4, <2>1, <2>2, EndType DEF WriteArchived, TypeInv, TypeOK
<1> QED BY <1>3, <1>4 DEF Archive

LEMMA PakEditType ==
    ASSUME TypeInv, NEW t \in Tx, PakEdit(t)
    PROVE  TypeInv'
<1> USE DEF PakLabels, Labels, Modes
<1>1. pc[t] \in PakLabels /\ req[t] \in PakEdits
  BY DEF PakEdit, LockEditedPak, WritePak, TypeInv, RequestsFit, RequestOf
<1>2. PakRow(req[t].pak) \in Rows /\ req[t].kind \in PakKinds
  BY <1>1 DEF PakEdits, Rows
<1>3. CASE LockEditedPak(t)
  <2>1. SameRequest(pc[t], "pak.write")
    BY <1>1, SameType
  <2> QED BY <1>3, <1>2, <2>1, LocalsType, AcquireType DEF LockEditedPak
<1>4. CASE WritePak(t)
  <2>1. pakKind' \in [Paks -> PakKinds]
    BY <1>2, <1>4 DEF WritePak, TypeInv, TypeOK
  <2>2. Kept
    BY <1>4 DEF WritePak, Kept
  <2> QED BY <1>4, <2>1, <2>2, EndType DEF WritePak, TypeInv, TypeOK
<1> QED BY <1>3, <1>4 DEF PakEdit

LEMMA SweepType ==
    ASSUME TypeInv, NEW j \in Tx, ExpireStale(j) \/ CloseStale(j)
    PROVE  TypeInv'
<1>1. CASE ExpireStale(j)
  <2> DEFINE free == {s \in Stale : Grantable(held, j, SessionRow(s), Update)}
  <2>1. PICK S \in SUBSET free :
           /\ held' = [held EXCEPT ![j] = {<<SessionRow(s), Update>> : s \in S}]
           /\ loc' = [loc EXCEPT ![j] = [@ EXCEPT !.now = clock, !.running = S]]
    BY <1>1 DEF ExpireStale
  <2>2. S \subseteq Running /\ S \subseteq Sessions
    BY DEF Stale, Running
  <2> HIDE DEF free
  <2>3. \A s \in S : session[s] \in SessionRecords
    BY <2>2, RecordedType DEF Running, TypeInv
  <2>4. /\ pc[j] = "idle" /\ pc' = [pc EXCEPT ![j] = "sweep.write"]
        /\ UNCHANGED <<archived, kg, pakKind, session, clock, req>>
    BY <1>1 DEF ExpireStale
  <2> DEFINE l == [loc[j] EXCEPT !.now = clock, !.running = S]
  <2>5. l \in Locals /\ l.running = S
    BY <2>2, LocalsType DEF Locals, TypeInv, TypeOK
  <2>6. loc' = [loc EXCEPT ![j] = l]
    BY <2>1 DEF TypeInv, TypeOK
  <2> HIDE DEF l
  <2>7. {<<SessionRow(s), Update>> : s \in S} \subseteq Rows \X Modes
    BY <2>2 DEF Rows, Modes
  <2>8. TypeOK'
    BY <2>1, <2>4, <2>5, <2>6, <2>7 DEF TypeInv, TypeOK, Labels
  <2>9. ASSUME NEW o \in Tx
        PROVE  RequestOf(o)'
    <3>1. Kept
      BY <2>4 DEF Kept
    <3>2. CASE o # j
      BY <3>1, <3>2, <2>4, <2>6, OthersFit DEF TypeInv, TypeOK
    <3>3. CASE o = j
      <4>1. pc'[j] = "sweep.write" /\ loc'[j] = l
        BY <2>4, <2>6 DEF TypeInv, TypeOK
      <4> QED BY <3>3, <4>1, <2>3, <2>4, <2>5 DEF RequestOf, OpenLabels, StepLabels,
                   CompleteLabels, PackLabels, ArchiveLabels, PakLabels
    <3> QED BY <3>2, <3>3
  <2> QED BY <2>8, <2>9 DEF TypeInv, RequestsFit
<1>2. CASE CloseStale(j)
  <2>1. /\ session' = CloseIncomplete(loc[j].running, loc[j].now)
        /\ UNCHANGED <<archived, kg, pakKind>> /\ End(j)
    BY <1>2 DEF CloseStale
  <2>2. Kept /\ session' \in [Sessions -> SessionRecords \cup {NoSession}]
    BY <2>1, LocalsType, CloseIncompleteType DEF Kept
  <2> QED BY <2>1, <2>2, EndType DEF TypeInv, TypeOK
<1> QED BY <1>1, <1>2

LEMMA StutterType ==
    ASSUME TypeInv, UNCHANGED <<archived, kg, pakKind, session, pc, req, loc, held>>, clock' \in Nat
    PROVE  TypeInv'
<1>1. TypeOK'
  BY DEF TypeInv, TypeOK
<1>2. Kept
  BY DEF Kept
<1> QED BY <1>1, <1>2, OthersFit DEF TypeInv, RequestsFit

LEMMA TypeInit == Init => TypeInv
<1> SUFFICES ASSUME Init PROVE TypeInv
  OBVIOUS
<1>1. NoLocals \in Locals /\ NoLocals.running = {}
  BY DEF NoLocals, Locals, PakKinds
<1>2. TypeOK
  <2>1. kg \in [Units -> Kgs]
    BY DEF Init, Kgs, KgStates, OtkStatuses
  <2> QED BY <1>1, <2>1 DEF Init, TypeOK, Labels
<1>3. RequestsFit
  BY <1>1 DEF Init, RequestsFit, RequestOf, OpenLabels, StepLabels, CompleteLabels,
              PackLabels, ArchiveLabels, PakLabels
<1> QED BY <1>2, <1>3 DEF TypeInv

LEMMA TypeStep == TypeInv /\ [Next]_vars => TypeInv'
<1> SUFFICES ASSUME TypeInv, [Next]_vars PROVE TypeInv'
  OBVIOUS
<1>1. CASE \E t \in Handlers : Request(t)
  BY <1>1, RequestType
<1>2. CASE \E t \in Tx : Proceed(t)
  BY <1>2, OpenType, StepType, FinishType, SweepType, PackingType, ArchiveType, PakEditType
  DEF Proceed
<1>3. CASE \E t \in Tx : Abort(t)
  BY <1>3, LeaveType DEF Abort
<1>4. CASE \E j \in Jobs : ExpireStale(j)
  BY <1>4, SweepType DEF Tx
<1>5. CASE Tick
  BY <1>5, StutterType DEF Tick, TypeInv, TypeOK
<1>6. CASE UNCHANGED vars
  BY <1>6, StutterType DEF vars, TypeInv, TypeOK
<1> QED BY <1>1, <1>2, <1>3, <1>4, <1>5, <1>6 DEF Next

(* The state of the line has its type whatever the transactions do: every   *)
(* session that a report, a completion or the sweep writes is a row the     *)
(* table accepts, running exactly while it has no completed_at.            *)
THEOREM TypeCorrect == Spec => []TypeOK
<1>1. TypeInv => TypeOK
  BY DEF TypeInv
<1> QED BY TypeInit, TypeStep, <1>1, PTL DEF Spec

-----------------------------------------------------------------------------
(* Why the locks are enough.  What a transaction has read under a lock is  *)
(* still true when it commits, because whoever could make it false writes  *)
(* under a lock that conflicts.                                            *)

(* The inductive invariant *)

Holds(t, r, m) == <<r, m>> \in held[t]

BatchRead   == {"open.kg", "open.pak", "open.find", "open.sessions"}
KgRead      == {"open.pak", "open.find", "open.sessions"}
PakRead     == {"open.find", "open.sessions"}
PackBatch   == {"pack.kg", "pack.check", "pack.write"}
PackKg      == {"pack.check", "pack.write"}
CompletedKg == {"complete.session", "complete.write"}

(* The locks a transaction holds at each statement. *)
LocksOf(t) ==
    /\ pc[t] \in BatchRead => Holds(t, BatchRow(BatchOf[req[t].unit]), Share)
    /\ pc[t] \in KgRead => Holds(t, KgRow(req[t].unit), NoKeyUpdate)
    /\ pc[t] \in PakRead => Holds(t, PakRow(req[t].pak), NoKeyUpdate)
    /\ pc[t] = "step.write" => Holds(t, SessionRow(req[t].session), Update)
    /\ pc[t] \in CompletedKg => Holds(t, KgRow(session[req[t].session].unit), NoKeyUpdate)
    /\ pc[t] = "complete.write" => Holds(t, SessionRow(req[t].session), Update)
    /\ pc[t] \in PackBatch => Holds(t, BatchRow(BatchOf[req[t].unit]), Share)
    /\ pc[t] \in PackKg => Holds(t, KgRow(req[t].unit), Update)
    /\ pc[t] = "archive.write" => Holds(t, BatchRow(req[t].batch), Update)
    /\ \A s \in loc[t].running : Holds(t, SessionRow(s), Update)

(* What it has found and relies on. *)
ChecksOf(t) ==
    /\ pc[t] \in KgRead => Verifiable(req[t].unit, loc[t].kind)
    /\ pc[t] = "open.sessions" =>
          \A s \in Running :
              session[s].unit = req[t].unit \/ InPlace(s, req[t].pak, req[t].slot) =>
                  s \in loc[t].found \cup loc[t].running
    /\ pc[t] \in {"step.write", "complete.write"} => req[t].session \in Running
    /\ pc[t] = "pack.write" => Packable(req[t].unit)
    /\ loc[t].running \subseteq Running

LockInv == LocksCompatible(held) /\ \A t \in Tx : LocksOf(t) /\ ChecksOf(t)

LineInv == TypeInv /\ LockInv /\ UnitRunsOneSession /\ SlotRunsOneSession /\ PackedUnitsPassed

(* What one transaction's step does to the rows, and the locks it does it   *)
(* under.                                                                  *)
GuardedWrites(t) ==
    /\ \A b \in Batches : archived'[b] # archived[b] => Holds(t, BatchRow(b), Update)
    /\ archived' # archived => kg' = kg /\ session' = session
    /\ \A u \in Units :
          /\ kg'[u].state # kg[u].state =>
                /\ Holds(t, KgRow(u), Update) /\ Packable(u)
                /\ kg'[u].state = "packed" /\ kg'[u].otk = kg[u].otk
          /\ kg'[u].otk # kg[u].otk =>
                /\ kg'[u].otk \in {"passed", "failed"}
                /\ \E s \in Running : /\ session[s].unit = u /\ session[s].kind = "otk_line"
                                      /\ session'[s].status # "running"
          /\ kg'[u] # kg[u] => Holds(t, KgRow(u), Update) \/ Holds(t, KgRow(u), NoKeyUpdate)
    /\ \A s \in Recorded :
          /\ session'[s] # session[s] => s \in Running /\ Holds(t, SessionRow(s), Update)
          /\ session'[s].unit = session[s].unit /\ session'[s].pak = session[s].pak
          /\ session'[s].slot = session[s].slot /\ session'[s].kind = session[s].kind
          /\ session'[s].status # "absent"
    /\ \A s \in Sessions \ Recorded :
          session'[s] # session[s] =>
              /\ Holds(t, KgRow(session'[s].unit), NoKeyUpdate)
              /\ Holds(t, PakRow(session'[s].pak), NoKeyUpdate)
              /\ Verifiable(session'[s].unit, session'[s].kind)
              /\ kg' = kg

(* What each step of t is shown to do. *)
Preserves(t) == LineInv' /\ GuardedWrites(t)

(* A step of t leaves the other transactions as they are. *)
OthersWait(t) ==
    \A o \in Tx \ {t} : pc'[o] = pc[o] /\ req'[o] = req[o] /\ loc'[o] = loc[o] /\ held'[o] = held[o]

----------------------------------------------------------------------------
(* Nobody can take away what another transaction relies on. *)

LEMMA Excluded ==
    ASSUME TypeInv, LocksCompatible(held), NEW t \in Tx, NEW o \in Tx, t # o, NEW r,
           NEW m, NEW n, Holds(t, r, m), Holds(o, r, n)
    PROVE  ~Conflict(m, n)
<1>1. DOMAIN held = Tx
  BY DEF TypeInv, TypeOK
<1>2. <<r, m>>[1] = <<r, n>>[1] /\ <<r, m>>[2] = m /\ <<r, n>>[2] = n
  OBVIOUS
<1> QED BY <1>1, <1>2 DEF LocksCompatible, Holds

LEMMA NewRunning ==
    ASSUME TypeInv, NEW t \in Tx, GuardedWrites(t), NEW s \in Sessions, session'[s].status = "running"
    PROVE  \/ /\ s \in Running
              /\ session'[s].unit = session[s].unit /\ session'[s].pak = session[s].pak
              /\ session'[s].slot = session[s].slot /\ session'[s].kind = session[s].kind
           \/ /\ s \notin Recorded
              /\ Holds(t, KgRow(session'[s].unit), NoKeyUpdate)
              /\ Holds(t, PakRow(session'[s].pak), NoKeyUpdate)
              /\ Verifiable(session'[s].unit, session'[s].kind)
<1>1. CASE s \in Recorded
  BY <1>1 DEF GuardedWrites, Running, Recorded
<1>2. CASE s \notin Recorded
  BY <1>2 DEF GuardedWrites, Recorded
<1> QED BY <1>1, <1>2

LEMMA OthersKeepLocks ==
    ASSUME TypeInv, LockInv, NEW t \in Tx, NEW o \in Tx, o # t, OthersWait(t), GuardedWrites(t)
    PROVE  LocksOf(o)'
<1>1. LocksOf(o) /\ pc'[o] = pc[o] /\ req'[o] = req[o] /\ loc'[o] = loc[o] /\ held'[o] = held[o]
  BY DEF LockInv, OthersWait
<1>2. pc[o] \in CompletedKg => session'[req[o].session].unit = session[req[o].session].unit
  <2> SUFFICES ASSUME pc[o] \in CompletedKg
               PROVE  session'[req[o].session].unit = session[req[o].session].unit
    OBVIOUS
  <2>1. req[o].session \in Sessions /\ session[req[o].session] \in SessionRecords
    BY DEF CompletedKg, CompleteLabels, TypeInv, RequestsFit, RequestOf, Completes
  <2>2. req[o].session \in Recorded
    BY <2>1 DEF Recorded, SessionRecords, Finished, Results
  <2> QED BY <2>2 DEF GuardedWrites
<1> QED BY <1>1, <1>2 DEF LocksOf, Holds

LEMMA OthersKeepChecks ==
    ASSUME TypeInv, LockInv, NEW t \in Tx, NEW o \in Tx, o # t, OthersWait(t), GuardedWrites(t)
    PROVE  ChecksOf(o)'
<1> USE DEF KgRead, PakRead, BatchRead, PackBatch, PackKg
<1>1. LocksOf(o) /\ ChecksOf(o)
      /\ pc'[o] = pc[o] /\ req'[o] = req[o] /\ loc'[o] = loc[o] /\ held'[o] = held[o]
  BY DEF LockInv, OthersWait
<1>2. LocksCompatible(held)
  BY DEF LockInv
<1>3. ASSUME NEW b \in Batches, Holds(o, BatchRow(b), Share)
      PROVE  archived'[b] = archived[b]
  BY <1>2, <1>3, Excluded DEF GuardedWrites, Conflict
<1>4. ASSUME NEW u \in Units, Holds(o, KgRow(u), NoKeyUpdate)
      PROVE  kg'[u].state = kg[u].state
  BY <1>2, <1>4, Excluded DEF GuardedWrites, Conflict
<1>5. ASSUME NEW u \in Units, Holds(o, KgRow(u), Update)
      PROVE  kg'[u] = kg[u]
  BY <1>2, <1>5, Excluded DEF GuardedWrites, Conflict
<1>6. ASSUME NEW s \in Running, Holds(o, SessionRow(s), Update)
      PROVE  s \in Running'
  <2>1. session'[s] = session[s]
    BY <1>2, <1>6, Excluded DEF GuardedWrites, Conflict, Running, Recorded
  <2> QED BY <2>1 DEF Running
<1>7. /\ pc[o] \in OpenLabels => req[o].unit \in Units /\ req[o].pak \in Paks
      /\ pc[o] \in PackLabels => req[o].unit \in Units
  BY DEF TypeInv, RequestsFit, RequestOf, Opens, Packs
<1>8. ASSUME pc[o] \in KgRead
      PROVE  Verifiable(req[o].unit, loc[o].kind)'
  <2>1. req[o].unit \in Units /\ BatchOf[req[o].unit] \in Batches
    BY <1>7, <1>8, DomainAssumption DEF OpenLabels
  <2>2. archived'[BatchOf[req[o].unit]] = archived[BatchOf[req[o].unit]]
    BY <1>1, <1>3, <1>8, <2>1 DEF LocksOf
  <2>3. kg'[req[o].unit].state = kg[req[o].unit].state
    BY <1>1, <1>4, <1>8, <2>1 DEF LocksOf
  <2> QED BY <1>1, <1>8, <2>2, <2>3 DEF ChecksOf, Verifiable
<1>9. ASSUME pc[o] = "open.sessions", NEW s \in Running',
             \/ session'[s].unit = req[o].unit
             \/ session'[s].pak = req[o].pak /\ session'[s].slot = req[o].slot
      PROVE  s \in loc[o].found \cup loc[o].running
  <2>1. s \in Sessions /\ session'[s].status = "running"
    BY DEF Running
  <2>2. Holds(o, KgRow(req[o].unit), NoKeyUpdate) /\ Holds(o, PakRow(req[o].pak), NoKeyUpdate)
    BY <1>1, <1>9 DEF LocksOf
  <2>3. CASE s \notin Recorded
    <3>1. /\ Holds(t, KgRow(session'[s].unit), NoKeyUpdate)
          /\ Holds(t, PakRow(session'[s].pak), NoKeyUpdate)
      BY <2>1, <2>3, NewRunning DEF Running, Recorded
    <3>2. Conflict(NoKeyUpdate, NoKeyUpdate)
      BY DEF Conflict, NoKeyUpdate, KeyShare
    <3> QED BY <1>2, <1>9, <2>2, <3>1, <3>2, Excluded
  <2>4. CASE s \in Recorded
    <3>1. s \in Running /\ session'[s].unit = session[s].unit /\ session'[s].pak = session[s].pak
          /\ session'[s].slot = session[s].slot
      BY <2>1, <2>4, NewRunning
    <3> QED BY <1>1, <1>9, <3>1 DEF ChecksOf, InPlace
  <2> QED BY <2>3, <2>4
<1>10. ASSUME pc[o] = "pack.write"
       PROVE  Packable(req[o].unit)'
  <2>1. req[o].unit \in Units /\ BatchOf[req[o].unit] \in Batches
    BY <1>7, <1>10, DomainAssumption DEF PackLabels
  <2>2. Holds(o, KgRow(req[o].unit), Update) /\ Holds(o, BatchRow(BatchOf[req[o].unit]), Share)
        /\ Packable(req[o].unit)
    BY <1>1, <1>10 DEF LocksOf, ChecksOf
  <2>3. archived'[BatchOf[req[o].unit]] = archived[BatchOf[req[o].unit]]
        /\ kg'[req[o].unit] = kg[req[o].unit]
    BY <1>3, <1>5, <2>1, <2>2
  <2>4. ASSUME NEW s \in Running', session'[s].unit = req[o].unit, session'[s].kind = "otk_line"
        PROVE  FALSE
    <3>1. s \in Sessions /\ session'[s].status = "running"
      BY DEF Running
    <3>2. CASE s \notin Recorded
      BY <1>2, <2>2, <2>4, <3>1, <3>2, NewRunning, Excluded DEF Conflict, Running, Recorded
    <3>3. CASE s \in Recorded
      <4>1. s \in Running /\ session[s].unit = req[o].unit /\ session[s].kind = "otk_line"
        BY <2>4, <3>1, <3>3, NewRunning
      <4> QED BY <2>2, <4>1 DEF Packable, OnOtkLine
    <3> QED BY <3>2, <3>3
  <2> QED BY <1>1, <2>2, <2>3, <2>4 DEF Packable, OnOtkLine
<1>11. ASSUME pc[o] \in {"step.write", "complete.write"}
       PROVE  req[o].session \in Running'
  BY <1>1, <1>6, <1>11 DEF LocksOf, ChecksOf
<1>12. loc[o].running \subseteq Running'
  BY <1>1, <1>6 DEF LocksOf, ChecksOf
<1> QED BY <1>1, <1>8, <1>9, <1>10, <1>11, <1>12 DEF ChecksOf, InPlace

----------------------------------------------------------------------------
(* Locking, leaving and committing keep the invariant. *)

LEMMA ReadKeeps ==
    ASSUME LineInv, TypeInv', NEW t \in Tx, UNCHANGED db, OthersWait(t),
           LocksCompatible(held'), LocksOf(t)', ChecksOf(t)'
    PROVE  Preserves(t)
<1>1. GuardedWrites(t)
  BY DEF GuardedWrites, db, Recorded
<1>2. LockInv'
  BY <1>1, OthersKeepLocks, OthersKeepChecks DEF LockInv, LineInv
<1>3. UnitRunsOneSession' /\ SlotRunsOneSession' /\ PackedUnitsPassed'
  BY DEF LineInv, db, UnitRunsOneSession, SlotRunsOneSession, PackedUnitsPassed, OnOtkLine,
         Running, InPlace
<1> QED BY <1>1, <1>2, <1>3 DEF LineInv, Preserves

LEMMA GrantCompatible ==
    ASSUME TypeInv, LocksCompatible(held), NEW t \in Tx, NEW r, NEW m \in Modes,
           Grantable(held, t, r, m), held' = Grant(held, t, r, m)
    PROVE  LocksCompatible(held')
<1>1. DOMAIN held = Tx /\ DOMAIN held' = Tx
  BY DEF TypeInv, TypeOK, Grant
<1>2. SUFFICES ASSUME NEW a \in Tx, NEW b \in Tx, NEW l \in held'[a], NEW k \in held'[b],
                      a # b, l[1] = k[1]
               PROVE  ~Conflict(l[2], k[2])
  BY <1>1 DEF LocksCompatible
<1>3. \A o \in Tx \ {t} : held'[o] = held[o]
  BY <1>1 DEF Grant
<1>4. held'[t] = held[t] \cup {<<r, m>>}
  BY <1>1 DEF Grant
<1>5. \A o \in Tx \ {t}, n \in Modes : <<r, n>> \in held[o] => ~Conflict(n, m)
  BY <1>1 DEF Grantable, Blockers
<1>6. \A o \in Tx : \A x \in held[o] : x[2] \in Modes /\ x = <<x[1], x[2]>>
  BY DEF TypeInv, TypeOK
<1>7. \A x, y : Conflict(x, y) <=> Conflict(y, x)
  BY DEF Conflict
<1>8. CASE l \in held[a] /\ k \in held[b]
  BY <1>1, <1>2, <1>8 DEF LocksCompatible
<1>9. CASE l \notin held[a]
  <2>1. a = t /\ l = <<r, m>> /\ k \in held[b] /\ b # t
    BY <1>2, <1>3, <1>4, <1>9
  <2>2. k = <<r, k[2]>> /\ k[2] \in Modes
    BY <1>2, <1>6, <2>1
  <2> QED BY <1>5, <1>7, <2>1, <2>2
<1>10. CASE k \notin held[b]
  <2>1. b = t /\ k = <<r, m>> /\ l \in held[a] /\ a # t
    BY <1>2, <1>3, <1>4, <1>10
  <2>2. l = <<r, l[2]>> /\ l[2] \in Modes
    BY <1>2, <1>6, <2>1
  <2> QED BY <1>5, <2>1, <2>2
<1> QED BY <1>8, <1>9, <1>10

LEMMA AcquireKeeps ==
    ASSUME LineInv, TypeInv', NEW t \in Tx, NEW r, NEW m \in Modes, NEW l, NEW next,
           Grantable(held, t, r, m), Acquire(t, r, m, l, next), LocksOf(t)', ChecksOf(t)'
    PROVE  Preserves(t)
<1>1. OthersWait(t)
  BY DEF OthersWait, Acquire, Grant, LineInv, TypeInv, TypeOK
<1>2. LocksCompatible(held')
  BY GrantCompatible DEF Acquire, LineInv, LockInv
<1>3. UNCHANGED db
  BY DEF Acquire, db
<1> QED BY <1>1, <1>2, <1>3, ReadKeeps

LEMMA EndReleases ==
    ASSUME LineInv, NEW t \in Tx, End(t)
    PROVE  OthersWait(t) /\ LocksCompatible(held') /\ LocksOf(t)' /\ ChecksOf(t)'
<1>1. OthersWait(t) /\ DOMAIN held = Tx /\ DOMAIN held' = Tx
  BY DEF OthersWait, End, ReleaseAll, LineInv, TypeInv, TypeOK
<1>2. pc'[t] = "idle" /\ loc'[t].running = {} /\ held'[t] = {}
  BY DEF End, ReleaseAll, LineInv, TypeInv, TypeOK, NoLocals
<1>3. LocksCompatible(held')
  BY <1>1, <1>2 DEF LocksCompatible, OthersWait, LineInv, LockInv
<1>4. LocksOf(t)' /\ ChecksOf(t)'
  BY <1>2 DEF LocksOf, ChecksOf, BatchRead, KgRead, PakRead, PackBatch, PackKg, CompletedKg
<1> QED BY <1>1, <1>3, <1>4

LEMMA LeaveKeeps ==
    ASSUME LineInv, TypeInv', NEW t \in Tx, Leave(t)
    PROVE  Preserves(t)
  BY EndReleases, ReadKeeps DEF Leave

(* A commit keeps the invariant if its writes are guarded and it leaves the *)
(* rows in order.                                                          *)
LEMMA CommitKeeps ==
    ASSUME LineInv, TypeInv', NEW t \in Tx, End(t), GuardedWrites(t),
           UnitRunsOneSession', SlotRunsOneSession', PackedUnitsPassed'
    PROVE  Preserves(t)
<1>1. OthersWait(t) /\ LocksCompatible(held') /\ LocksOf(t)' /\ ChecksOf(t)'
  BY EndReleases
<1>2. LockInv'
  BY <1>1, OthersKeepLocks, OthersKeepChecks DEF LockInv, LineInv
<1> QED BY <1>2 DEF LineInv, Preserves

LEMMA NoNewSession ==
    ASSUME LineInv, NEW t \in Tx, GuardedWrites(t),
           \A s \in Sessions \ Recorded : session'[s] = session[s]
    PROVE  /\ UnitRunsOneSession' /\ SlotRunsOneSession'
           /\ \A u \in Units : OnOtkLine(u)' => OnOtkLine(u)
<1>1. \A s \in Running' :
         /\ s \in Running
         /\ session'[s].unit = session[s].unit /\ session'[s].pak = session[s].pak
         /\ session'[s].slot = session[s].slot /\ session'[s].kind = session[s].kind
  BY NewRunning DEF Running, Recorded, LineInv
<1>2. UnitRunsOneSession' /\ SlotRunsOneSession'
  BY <1>1 DEF LineInv, UnitRunsOneSession, SlotRunsOneSession, InPlace
<1>3. \A u \in Units : OnOtkLine(u)' => OnOtkLine(u)
  BY <1>1 DEF OnOtkLine
<1> QED BY <1>2, <1>3

----------------------------------------------------------------------------
(* The operations *)

LEMMA BeginKeeps ==
    ASSUME LineInv, TypeInv', NEW t \in Handlers, NEW r, NEW l, NEW first, Begin(t, r, l, first),
           l.running = {},
           first \in {"open.batch", "step.session", "complete.kg", "pack.batch",
                      "archive.batch", "pak.row"}
    PROVE  Preserves(t)
<1>1. t \in Tx /\ OthersWait(t) /\ UNCHANGED db /\ LocksCompatible(held')
  BY DEF Begin, OthersWait, Tx, db, LineInv, TypeInv, TypeOK, LockInv
<1>2. pc'[t] = first /\ loc'[t] = l
  BY DEF Begin, Tx, LineInv, TypeInv, TypeOK
<1>3. LocksOf(t)' /\ ChecksOf(t)'
  BY <1>2 DEF LocksOf, ChecksOf, BatchRead, KgRead, PakRead, PackBatch, PackKg, CompletedKg
<1> QED BY <1>1, <1>3, ReadKeeps

LEMMA RequestKeeps ==
    ASSUME LineInv, NEW t \in Handlers, Request(t)
    PROVE  Preserves(t)
<1>1. TypeInv'
  BY RequestType DEF LineInv
<1>2. NoLocals.running = {} /\ \A k : [NoLocals EXCEPT !.kind = k].running = {}
  BY DEF NoLocals
<1> QED BY <1>1, <1>2, BeginKeeps DEF Request, OpenSession, StartStep, CompleteStep,
             CompleteSession, Pack, SetArchived, EditPak

(* A session in the way of an opening is idle in its own slot, or would be   *)
(* resumed or refused: InsertSession closes every one it found.            *)
LEMMA InsertKeeps ==
    ASSUME LineInv, TypeInv', NEW t \in Tx, InsertSession(t), ~Leave(t)
    PROVE  Preserves(t)
<1>1. PICK id \in Sessions \ Recorded :
        session' = [CloseIncomplete(loc[t].running, loc[t].now) EXCEPT ![id] = NewSession(t)]
  BY DEF InsertSession
<1>2. UNCHANGED <<archived, kg, pakKind>> /\ End(t) /\ OpenReady(t)
  BY DEF InsertSession
<1>3. LocksOf(t) /\ ChecksOf(t) /\ pc[t] = "open.sessions" /\ loc[t].found = {}
  BY <1>2 DEF LineInv, LockInv, OpenReady
<1>4. \A s \in Sessions \ {id} :
         session'[s] = IF s \in loc[t].running THEN Incomplete(session[s], loc[t].now)
                                               ELSE session[s]
  BY <1>1 DEF CloseIncomplete
<1>5. session'[id] = NewSession(t)
  BY <1>1 DEF CloseIncomplete
<1>6. loc[t].running \subseteq Running /\ id \notin Running /\ Running \subseteq Recorded
  BY <1>1, <1>3 DEF ChecksOf, Running, Recorded
<1>7. \A s \in Recorded : session[s] \in SessionRecords
  BY RecordedType DEF Recorded, LineInv, TypeInv
<1>8. \A s \in loc[t].running :
         /\ session'[s].status = "incomplete"
         /\ session'[s].unit = session[s].unit /\ session'[s].pak = session[s].pak
         /\ session'[s].slot = session[s].slot /\ session'[s].kind = session[s].kind
  <2> SUFFICES ASSUME NEW s \in loc[t].running
               PROVE  /\ session'[s].status = "incomplete"
                      /\ session'[s].unit = session[s].unit /\ session'[s].pak = session[s].pak
                      /\ session'[s].slot = session[s].slot /\ session'[s].kind = session[s].kind
    OBVIOUS
  <2>1. session'[s] = Incomplete(session[s], loc[t].now) /\ session[s] \in SessionRecords
    BY <1>4, <1>6, <1>7 DEF Running
  <2> QED BY <2>1 DEF Incomplete, SessionRecords
<1>9. GuardedWrites(t)
  <2>1. /\ Holds(t, KgRow(req[t].unit), NoKeyUpdate) /\ Holds(t, PakRow(req[t].pak), NoKeyUpdate)
        /\ \A s \in loc[t].running : Holds(t, SessionRow(s), Update)
        /\ Verifiable(req[t].unit, loc[t].kind)
    BY <1>3 DEF LocksOf, ChecksOf, KgRead, PakRead
  <2>2. \A s \in Recorded :
          /\ session'[s] # session[s] => s \in Running /\ Holds(t, SessionRow(s), Update)
          /\ session'[s].unit = session[s].unit /\ session'[s].pak = session[s].pak
          /\ session'[s].slot = session[s].slot /\ session'[s].kind = session[s].kind
          /\ session'[s].status # "absent"
    BY <1>1, <1>4, <1>6, <1>8, <2>1 DEF Recorded
  <2>3. \A s \in Sessions \ Recorded : session'[s] # session[s] => s = id
    BY <1>4, <1>6
  <2>4. /\ session'[id].unit = req[t].unit /\ session'[id].pak = req[t].pak
        /\ session'[id].kind = loc[t].kind
    BY <1>5 DEF NewSession
  <2>5. \A s \in Sessions \ Recorded :
          session'[s] # session[s] =>
              /\ Holds(t, KgRow(session'[s].unit), NoKeyUpdate)
              /\ Holds(t, PakRow(session'[s].pak), NoKeyUpdate)
              /\ Verifiable(session'[s].unit, session'[s].kind)
    BY <2>1, <2>3, <2>4
  <2>6. archived' = archived /\ kg' = kg
    BY <1>2
  <2> QED BY <2>2, <2>5, <2>6 DEF GuardedWrites
<1>10. /\ session'[id].unit = req[t].unit /\ session'[id].pak = req[t].pak
       /\ session'[id].slot = req[t].slot /\ session'[id].kind = loc[t].kind
  BY <1>5 DEF NewSession
<1>11. \A s \in Running' \ {id} :
          /\ s \in Running /\ session'[s] = session[s]
          /\ session[s].unit # req[t].unit /\ ~InPlace(s, req[t].pak, req[t].slot)
  BY <1>3, <1>4, <1>8 DEF Running, ChecksOf
<1>12. UnitRunsOneSession'
  BY <1>10, <1>11 DEF LineInv, UnitRunsOneSession
<1>13. SlotRunsOneSession'
  BY <1>10, <1>11 DEF LineInv, SlotRunsOneSession, InPlace
<1>14. PackedUnitsPassed'
  <2> SUFFICES ASSUME NEW u \in Units, kg'[u].state = "packed"
               PROVE  kg'[u].otk = "passed" /\ ~OnOtkLine(u)'
    BY DEF PackedUnitsPassed
  <2>1. kg[u].state = "packed" /\ kg[u].otk = "passed" /\ ~OnOtkLine(u) /\ kg' = kg
    BY <1>2 DEF LineInv, PackedUnitsPassed
  <2>2. Verifiable(req[t].unit, loc[t].kind)
    BY <1>3 DEF ChecksOf, KgRead
  <2>3. ASSUME NEW s \in Running', session'[s].unit = u, session'[s].kind = "otk_line"
        PROVE  FALSE
    <3>1. CASE s = id
      BY <1>10, <2>1, <2>2, <2>3, <3>1 DEF Verifiable
    <3>2. CASE s # id
      BY <1>11, <2>1, <2>3, <3>2 DEF OnOtkLine
    <3> QED BY <3>1, <3>2
  <2> QED BY <2>1, <2>3 DEF OnOtkLine
<1> QED BY <1>2, <1>9, <1>12, <1>13, <1>14, CommitKeeps

LEMMA OpenKeeps ==
    ASSUME LineInv, NEW t \in Tx, Open(t)
    PROVE  Preserves(t)
<1> USE DEF Modes, BatchRead, KgRead, PakRead, PackBatch, PackKg, CompletedKg
<1>1. TypeInv' /\ TypeInv
  BY OpenType DEF LineInv
<1>2. LocksOf(t) /\ ChecksOf(t)
  BY DEF LineInv, LockInv
<1>3. ASSUME NEW r, NEW m, NEW l, NEW next, Acquire(t, r, m, l, next)
      PROVE  /\ pc'[t] = next /\ loc'[t] = l /\ req' = req /\ UNCHANGED db
             /\ held'[t] = held[t] \cup {<<r, m>>}
  BY <1>1, <1>3 DEF Acquire, Grant, TypeInv, TypeOK, db
<1>4. CASE LockOpenBatch(t)
  <2> DEFINE r == BatchRow(BatchOf[req[t].unit])
  <2>1. pc[t] = "open.batch" /\ Grantable(held, t, r, Share)
        /\ Acquire(t, r, Share, loc[t], "open.kg")
    BY <1>4 DEF LockOpenBatch, OpenBatchMode
  <2>2. pc'[t] = "open.kg" /\ loc'[t] = loc[t] /\ req' = req /\ UNCHANGED db
        /\ held'[t] = held[t] \cup {<<r, Share>>}
    BY <2>1, <1>3
  <2>3. LocksOf(t)' /\ ChecksOf(t)'
    BY <1>2, <2>2 DEF LocksOf, ChecksOf, Holds, db, Running
  <2> QED BY <1>1, <2>1, <2>3, AcquireKeeps
<1>5. CASE LockOpenKg(t)
  <2> DEFINE r == KgRow(req[t].unit)
  <2>1. CASE Leave(t)
    BY <1>1, <2>1, LeaveKeeps
  <2>2. CASE ~Leave(t)
    <3>1. pc[t] = "open.kg" /\ Grantable(held, t, r, NoKeyUpdate)
          /\ Verifiable(req[t].unit, loc[t].kind)
          /\ Acquire(t, r, NoKeyUpdate, loc[t], "open.pak")
      BY <1>5, <2>2 DEF LockOpenKg, OpenKgMode
    <3>2. pc'[t] = "open.pak" /\ loc'[t] = loc[t] /\ req' = req /\ UNCHANGED db
          /\ held'[t] = held[t] \cup {<<r, NoKeyUpdate>>}
      BY <3>1, <1>3
    <3>3. LocksOf(t)' /\ ChecksOf(t)'
      BY <1>2, <3>1, <3>2 DEF LocksOf, ChecksOf, Holds, db, Running, Verifiable
    <3> QED BY <1>1, <3>1, <3>3, AcquireKeeps
  <2> QED BY <2>1, <2>2
<1>6. CASE LockOpenPak(t)
  <2> DEFINE r == PakRow(req[t].pak)
             l == [loc[t] EXCEPT !.now = clock]
  <2>1. pc[t] = "open.pak" /\ Grantable(held, t, r, NoKeyUpdate)
        /\ Acquire(t, r, NoKeyUpdate, l, "open.find")
    BY <1>6 DEF LockOpenPak, OpenPakMode
  <2>2. pc'[t] = "open.find" /\ loc'[t] = l /\ req' = req /\ UNCHANGED db
        /\ held'[t] = held[t] \cup {<<r, NoKeyUpdate>>}
    BY <2>1, <1>3
  <2>3. l.running = loc[t].running /\ l.kind = loc[t].kind
    BY <1>1, LocalsType DEF Locals
  <2>4. LocksOf(t)' /\ ChecksOf(t)'
    BY <1>2, <2>1, <2>2, <2>3 DEF LocksOf, ChecksOf, Holds, db, Running, Verifiable
  <2> QED BY <1>1, <2>1, <2>4, AcquireKeeps
<1>7. CASE FindRunningSessions(t)
  <2> DEFINE found == {s \in Running : session[s].unit = req[t].unit
                                        \/ InPlace(s, req[t].pak, req[t].slot)}
  <2>1. /\ pc[t] = "open.find" /\ pc' = [pc EXCEPT ![t] = "open.sessions"]
        /\ loc' = [loc EXCEPT ![t].found = found]
        /\ UNCHANGED db /\ UNCHANGED req /\ held' = held
    BY <1>7 DEF FindRunningSessions, db
  <2>2. OthersWait(t) /\ LocksCompatible(held')
    BY <1>1, <2>1 DEF OthersWait, LineInv, LockInv, TypeInv, TypeOK
  <2>3. /\ pc'[t] = "open.sessions" /\ loc'[t].found = found
        /\ loc'[t].running = loc[t].running /\ loc'[t].kind = loc[t].kind
    <3>1. loc[t] \in Locals
      BY <1>1, LocalsType
    <3>2. loc'[t] = [loc[t] EXCEPT !.found = found]
      BY <1>1, <2>1 DEF TypeInv, TypeOK
    <3> QED BY <1>1, <2>1, <3>1, <3>2 DEF Locals, TypeInv, TypeOK
  <2>4. LocksOf(t)' /\ ChecksOf(t)'
    BY <1>2, <2>1, <2>3 DEF LocksOf, ChecksOf, Holds, db, Running, Verifiable, InPlace
  <2> QED BY <1>1, <2>1, <2>2, <2>4, ReadKeeps
<1>8. CASE LockRunningSession(t)
  <2>1. PICK s \in NextToLock(t) :
          /\ pc[t] = "open.sessions" /\ Grantable(held, t, SessionRow(s), Update)
          /\ Acquire(t, SessionRow(s), Update,
                   IF s \in Running THEN [[loc[t] EXCEPT !.found = @ \ {s}]
                                            EXCEPT !.running = @ \cup {s}]
                                    ELSE [loc[t] EXCEPT !.found = @ \ {s}],
                   "open.sessions")
    BY <1>8 DEF LockRunningSession
  <2> DEFINE l == IF s \in Running THEN [[loc[t] EXCEPT !.found = @ \ {s}]
                                           EXCEPT !.running = @ \cup {s}]
                                   ELSE [loc[t] EXCEPT !.found = @ \ {s}]
  <2>2. /\ l.found = loc[t].found \ {s} /\ l.kind = loc[t].kind
        /\ l.running = IF s \in Running THEN loc[t].running \cup {s} ELSE loc[t].running
    BY <1>1, LocalsType DEF Locals
  <2>3. Acquire(t, SessionRow(s), Update, l, "open.sessions")
    BY <2>1
  <2> HIDE DEF l
  <2>4. pc'[t] = "open.sessions" /\ loc'[t] = l /\ req' = req /\ UNCHANGED db
        /\ held'[t] = held[t] \cup {<<SessionRow(s), Update>>}
    BY <2>3, <1>3
  <2>5. LocksOf(t)'
    BY <1>2, <2>1, <2>2, <2>4 DEF LocksOf, Holds
  <2>6. ChecksOf(t)'
    BY <1>2, <2>1, <2>2, <2>4 DEF ChecksOf, db, Running, Verifiable, InPlace
  <2> QED BY <1>1, <2>1, <2>3, <2>5, <2>6, AcquireKeeps
<1>9. CASE ResumeSession(t)
  <2>1. PICK s \in ByKg(t) : session' = [session EXCEPT ![s].active = loc[t].now]
    BY <1>9 DEF ResumeSession
  <2>2. s \in Running /\ s \in Recorded /\ Holds(t, SessionRow(s), Update)
    BY <1>2 DEF ByKg, ChecksOf, LocksOf, Running, Recorded
  <2>3. session[s] \in SessionRecords /\ s \in Sessions
    BY <1>1, <2>2, RecordedType DEF Recorded, TypeInv
  <2>4. /\ \A o \in Sessions \ {s} : session'[o] = session[o]
        /\ session'[s] = [session[s] EXCEPT !.active = loc[t].now]
    BY <1>1, <2>1, <2>3 DEF TypeInv, TypeOK
  <2>5. /\ session'[s].unit = session[s].unit /\ session'[s].pak = session[s].pak
        /\ session'[s].slot = session[s].slot /\ session'[s].kind = session[s].kind
        /\ session'[s].status = session[s].status
    BY <2>3, <2>4 DEF SessionRecords
  <2>6. UNCHANGED <<archived, kg, pakKind>> /\ End(t)
    BY <1>9 DEF ResumeSession
  <2>7. GuardedWrites(t)
    BY <2>2, <2>4, <2>5, <2>6 DEF GuardedWrites, Recorded
  <2>8. \A o \in Sessions \ Recorded : session'[o] = session[o]
    BY <2>2, <2>4
  <2>9. PackedUnitsPassed'
    BY <2>6, <2>7, <2>8, NoNewSession DEF PackedUnitsPassed, LineInv
  <2> QED BY <1>1, <2>6, <2>7, <2>8, <2>9, NoNewSession, CommitKeeps
<1>10. CASE RefuseRunning(t)
  BY <1>1, <1>10, LeaveKeeps DEF RefuseRunning
<1>11. CASE InsertSession(t)
  BY <1>1, <1>11, LeaveKeeps, InsertKeeps
<1> QED BY <1>4, <1>5, <1>6, <1>7, <1>8, <1>9, <1>10, <1>11 DEF Open

(* A commit that rewrites running sessions, in place and under their locks,  *)
(* and leaves the other rows alone.                                        *)
LEMMA RewriteKeeps ==
    ASSUME LineInv, TypeInv', NEW t \in Tx, End(t), UNCHANGED <<archived, kg>>,
           \A s \in Sessions : session'[s] # session[s] =>
              /\ s \in Running /\ Holds(t, SessionRow(s), Update)
              /\ session'[s].unit = session[s].unit /\ session'[s].pak = session[s].pak
              /\ session'[s].slot = session[s].slot /\ session'[s].kind = session[s].kind
              /\ session'[s].status # "absent"
    PROVE  Preserves(t)
<1>1. GuardedWrites(t)
  BY DEF GuardedWrites, Running, Recorded
<1>2. \A s \in Sessions \ Recorded : session'[s] = session[s]
  BY DEF Running, Recorded
<1>3. PackedUnitsPassed'
  BY <1>1, <1>2, NoNewSession DEF PackedUnitsPassed, LineInv
<1> QED BY <1>1, <1>2, <1>3, NoNewSession, CommitKeeps

LEMMA AcquireFacts ==
    ASSUME LineInv, NEW t \in Tx, NEW r, NEW m, NEW l, NEW next, Acquire(t, r, m, l, next)
    PROVE  /\ pc'[t] = next /\ loc'[t] = l /\ req' = req /\ UNCHANGED db
           /\ held'[t] = held[t] \cup {<<r, m>>}
  BY DEF Acquire, Grant, LineInv, TypeInv, TypeOK, db

LEMMA StepKeeps ==
    ASSUME LineInv, NEW t \in Tx, Step(t)
    PROVE  Preserves(t)
<1> USE DEF Modes, BatchRead, KgRead, PakRead, PackBatch, PackKg, CompletedKg
<1>1. TypeInv' /\ TypeInv
  BY StepType DEF LineInv
<1>2. LocksOf(t) /\ ChecksOf(t)
  BY DEF LineInv, LockInv
<1>3. CASE LockStepSession(t)
  <2> DEFINE s == req[t].session
             l == [loc[t] EXCEPT !.now = clock]
  <2>1. CASE Leave(t)
    BY <1>1, <2>1, LeaveKeeps
  <2>2. CASE ~Leave(t)
    <3>1. /\ pc[t] = "step.session" /\ Grantable(held, t, SessionRow(s), Update)
          /\ Reportable(s, req[t].pak, req[t].step)
          /\ Acquire(t, SessionRow(s), Update, l, "step.write")
      BY <1>3, <2>2 DEF LockStepSession, StepMode
    <3>2. s \in Sessions
      BY <1>1, <3>1 DEF TypeInv, RequestsFit, RequestOf, StepLabels, Starts, Reports
    <3>3. l.running = loc[t].running
      BY <1>1, LocalsType DEF Locals
    <3> HIDE DEF l
    <3>4. /\ pc'[t] = "step.write" /\ loc'[t] = l /\ req' = req /\ UNCHANGED db
          /\ held'[t] = held[t] \cup {<<SessionRow(s), Update>>}
      BY <3>1, AcquireFacts
    <3>5. LocksOf(t)' /\ ChecksOf(t)'
      BY <1>2, <3>1, <3>2, <3>3, <3>4 DEF LocksOf, ChecksOf, Holds, db, Running, Reportable
    <3> QED BY <1>1, <3>1, <3>5, AcquireKeeps
  <2> QED BY <2>1, <2>2
<1>4. CASE ~LockStepSession(t) /\ ~Leave(t)
  <2> DEFINE s == req[t].session
  <2>1. PICK step : SaveStep(t, step)
    BY <1>4 DEF Step, WriteStart, WriteReport
  <2>2. pc[t] = "step.write"
    BY <1>4 DEF Step, WriteStart, WriteReport
  <2>3. s \in Running /\ Holds(t, SessionRow(s), Update)
    BY <1>2, <2>2 DEF LocksOf, ChecksOf
  <2>4. s \in Sessions /\ session[s] \in SessionRecords
    BY <1>1, <2>3, RecordedType DEF Running, TypeInv
  <2>5. /\ \A o \in Sessions \ {s} : session'[o] = session[o]
        /\ session'[s] = [session[s] EXCEPT !.active = loc[t].now, !.steps[req[t].step] = step]
    BY <1>1, <2>1, <2>4 DEF SaveStep, TypeInv, TypeOK
  <2>6. /\ session'[s].unit = session[s].unit /\ session'[s].pak = session[s].pak
        /\ session'[s].slot = session[s].slot /\ session'[s].kind = session[s].kind
        /\ session'[s].status = session[s].status
    BY <2>4, <2>5 DEF SessionRecords
  <2>7. End(t) /\ UNCHANGED <<archived, kg>>
    BY <2>1 DEF SaveStep
  <2> QED BY <1>1, <2>3, <2>5, <2>6, <2>7, RewriteKeeps DEF Running
<1>5. CASE Leave(t)
  BY <1>1, <1>5, LeaveKeeps
<1> QED BY <1>3, <1>4, <1>5

LEMMA FinishKeeps ==
    ASSUME LineInv, NEW t \in Tx, Finish(t)
    PROVE  Preserves(t)
<1> USE DEF Modes, BatchRead, KgRead, PakRead, PackBatch, PackKg, CompletedKg
<1>1. TypeInv' /\ TypeInv
  BY FinishType DEF LineInv
<1>2. LocksOf(t) /\ ChecksOf(t)
  BY DEF LineInv, LockInv
<1> DEFINE s == req[t].session
           x == req[t].result
<1>3. CASE LockCompletedKg(t)
  <2> DEFINE r == KgRow(session[s].unit)
  <2>1. pc[t] = "complete.kg" /\ Grantable(held, t, r, NoKeyUpdate)
        /\ Acquire(t, r, NoKeyUpdate, loc[t], "complete.session")
    BY <1>3 DEF LockCompletedKg, CompleteKgMode
  <2>2. /\ pc'[t] = "complete.session" /\ loc'[t] = loc[t] /\ req' = req /\ UNCHANGED db
        /\ held'[t] = held[t] \cup {<<r, NoKeyUpdate>>}
    BY <2>1, AcquireFacts
  <2>3. LocksOf(t)' /\ ChecksOf(t)'
    BY <1>2, <2>2 DEF LocksOf, ChecksOf, Holds, db, Running
  <2> QED BY <1>1, <2>1, <2>3, AcquireKeeps
<1>4. CASE LockCompletedSession(t) /\ ~Leave(t)
  <2> DEFINE l == [loc[t] EXCEPT !.now = clock]
  <2>1. /\ pc[t] = "complete.session" /\ Grantable(held, t, SessionRow(s), Update)
        /\ s \in Running /\ Acquire(t, SessionRow(s), Update, l, "complete.write")
    BY <1>4 DEF LockCompletedSession, CompleteSessionMode
  <2>2. l.running = loc[t].running
    BY <1>1, LocalsType DEF Locals
  <2> HIDE DEF l
  <2>3. /\ pc'[t] = "complete.write" /\ loc'[t] = l /\ req' = req /\ UNCHANGED db
        /\ held'[t] = held[t] \cup {<<SessionRow(s), Update>>}
    BY <2>1, AcquireFacts
  <2>4. LocksOf(t)' /\ ChecksOf(t)'
    BY <1>2, <2>1, <2>2, <2>3 DEF LocksOf, ChecksOf, Holds, db, Running
  <2> QED BY <1>1, <2>1, <2>4, AcquireKeeps
<1>5. CASE WriteCompletion(t) /\ ~Leave(t)
  <2>1. /\ pc[t] = "complete.write" /\ End(t)
        /\ session' = [session EXCEPT ![s] = Complete(@, x, loc[t].now)]
        /\ kg' = IF SetsOtk(s, x) THEN [kg EXCEPT ![session[s].unit].otk = x] ELSE kg
        /\ UNCHANGED <<archived, pakKind>>
    BY <1>5 DEF WriteCompletion
  <2>2. /\ s \in Running /\ Holds(t, SessionRow(s), Update)
        /\ Holds(t, KgRow(session[s].unit), NoKeyUpdate)
    BY <1>2, <2>1 DEF LocksOf, ChecksOf
  <2>3. s \in Sessions /\ session[s] \in SessionRecords /\ session[s].unit \in Units
    BY <1>1, <2>2, RecordedType DEF Running, TypeInv, SessionRecords
  <2>4. x \in Results
    BY <1>1, <2>1 DEF TypeInv, RequestsFit, RequestOf, CompleteLabels, Completes
  <2>5. /\ \A o \in Sessions \ {s} : session'[o] = session[o]
        /\ session'[s] = Complete(session[s], x, loc[t].now)
    BY <1>1, <2>1, <2>3 DEF TypeInv, TypeOK
  <2>6. /\ session'[s].unit = session[s].unit /\ session'[s].pak = session[s].pak
        /\ session'[s].slot = session[s].slot /\ session'[s].kind = session[s].kind
        /\ session'[s].status = x
    BY <2>3, <2>5 DEF Complete, SessionRecords
  <2>7. \A u \in Units : /\ kg'[u].state = kg[u].state
                         /\ kg'[u] # kg[u] => u = session[s].unit /\ session[s].kind = "otk_line"
    BY <1>1, <2>1, <2>3 DEF SetsOtk, TypeInv, TypeOK, Kgs
  <2>8. GuardedWrites(t)
    <3>1. \A o \in Recorded :
             /\ session'[o] # session[o] => o \in Running /\ Holds(t, SessionRow(o), Update)
             /\ session'[o].unit = session[o].unit /\ session'[o].pak = session[o].pak
             /\ session'[o].slot = session[o].slot /\ session'[o].kind = session[o].kind
             /\ session'[o].status # "absent"
      BY <2>2, <2>4, <2>5, <2>6 DEF Recorded, Results
    <3>2. \A o \in Sessions \ Recorded : session'[o] = session[o]
      BY <2>2, <2>5 DEF Recorded, Running
    <3>3. \A u \in Units : kg'[u].state = kg[u].state
                              /\ (kg'[u] # kg[u] => Holds(t, KgRow(u), NoKeyUpdate))
      BY <2>2, <2>7
    <3>4. ASSUME NEW u \in Units, kg'[u].otk # kg[u].otk
          PROVE  /\ kg'[u].otk \in {"passed", "failed"}
                 /\ \E o \in Running : /\ session[o].unit = u /\ session[o].kind = "otk_line"
                                       /\ session'[o].status # "running"
      <4>1. u = session[s].unit /\ session[s].kind = "otk_line" /\ SetsOtk(s, x)
        BY <2>1, <2>7, <3>4
      <4>2. kg'[u].otk = x /\ x \in {"passed", "failed"}
        BY <1>1, <2>1, <4>1 DEF SetsOtk, TypeInv, TypeOK, Kgs
      <4>3. session'[s].status # "running"
        BY <2>6, <4>2
      <4> QED BY <2>2, <4>1, <4>2, <4>3
    <3> QED BY <2>1, <3>1, <3>2, <3>3, <3>4 DEF GuardedWrites
  <2>9. \A o \in Sessions \ Recorded : session'[o] = session[o]
    BY <2>2, <2>5 DEF Recorded, Running
  <2>10. PackedUnitsPassed'
    <3> SUFFICES ASSUME NEW u \in Units, kg'[u].state = "packed"
                 PROVE  kg'[u].otk = "passed" /\ ~OnOtkLine(u)'
      BY DEF PackedUnitsPassed
    <3>1. kg[u].state = "packed" /\ kg[u].otk = "passed" /\ ~OnOtkLine(u)
      BY <2>7 DEF LineInv, PackedUnitsPassed
    <3>2. kg'[u] = kg[u]
      BY <2>2, <2>7, <3>1 DEF OnOtkLine
    <3> QED BY <2>8, <2>9, <3>1, <3>2, NoNewSession
  <2> QED BY <1>1, <2>1, <2>8, <2>9, <2>10, NoNewSession, CommitKeeps
<1>6. CASE Leave(t)
  BY <1>1, <1>6, LeaveKeeps
<1> QED BY <1>3, <1>4, <1>5, <1>6 DEF Finish

LEMMA PackingKeeps ==
    ASSUME LineInv, NEW t \in Tx, Packing(t)
    PROVE  Preserves(t)
<1> USE DEF Modes, BatchRead, KgRead, PakRead, PackBatch, PackKg, CompletedKg
<1>1. TypeInv' /\ TypeInv
  BY PackingType DEF LineInv
<1>2. LocksOf(t) /\ ChecksOf(t)
  BY DEF LineInv, LockInv
<1> DEFINE u == req[t].unit
<1>3. CASE LockPackBatch(t)
  <2> DEFINE r == BatchRow(BatchOf[u])
  <2>1. pc[t] = "pack.batch" /\ Grantable(held, t, r, Share)
        /\ Acquire(t, r, Share, loc[t], "pack.kg")
    BY <1>3 DEF LockPackBatch, PackBatchMode
  <2>2. /\ pc'[t] = "pack.kg" /\ loc'[t] = loc[t] /\ req' = req /\ UNCHANGED db
        /\ held'[t] = held[t] \cup {<<r, Share>>}
    BY <2>1, AcquireFacts
  <2>3. LocksOf(t)' /\ ChecksOf(t)'
    BY <1>2, <2>2 DEF LocksOf, ChecksOf, Holds, db, Running
  <2> QED BY <1>1, <2>1, <2>3, AcquireKeeps
<1>4. CASE LockPackKg(t)
  <2>1. pc[t] = "pack.kg" /\ Grantable(held, t, KgRow(u), Update)
        /\ Acquire(t, KgRow(u), Update, loc[t], "pack.check")
    BY <1>4 DEF LockPackKg, PackKgMode
  <2>2. /\ pc'[t] = "pack.check" /\ loc'[t] = loc[t] /\ req' = req /\ UNCHANGED db
        /\ held'[t] = held[t] \cup {<<KgRow(u), Update>>}
    BY <2>1, AcquireFacts
  <2>3. LocksOf(t)' /\ ChecksOf(t)'
    BY <1>2, <2>1, <2>2 DEF LocksOf, ChecksOf, Holds, db, Running
  <2> QED BY <1>1, <2>1, <2>3, AcquireKeeps
<1>5. CASE FindBlocker(t) /\ ~Leave(t)
  <2>1. /\ pc[t] = "pack.check" /\ Packable(u) /\ pc' = [pc EXCEPT ![t] = "pack.write"]
        /\ UNCHANGED <<archived, kg, pakKind, session, req, loc, held>>
    BY <1>5 DEF FindBlocker
  <2>2. OthersWait(t) /\ LocksCompatible(held') /\ pc'[t] = "pack.write" /\ UNCHANGED db
    BY <1>1, <2>1 DEF OthersWait, LineInv, LockInv, TypeInv, TypeOK, db
  <2>3. LocksOf(t)' /\ ChecksOf(t)'
    BY <1>2, <2>1, <2>2 DEF LocksOf, ChecksOf, Holds, Running, Packable, OnOtkLine
  <2> QED BY <1>1, <2>2, <2>3, ReadKeeps
<1>6. CASE WritePacked(t)
  <2>1. /\ pc[t] = "pack.write" /\ End(t) /\ kg' = [kg EXCEPT ![u].state = "packed"]
        /\ UNCHANGED <<archived, pakKind, session>>
    BY <1>6 DEF WritePacked
  <2>2. Holds(t, KgRow(u), Update) /\ Packable(u)
    BY <1>2, <2>1 DEF LocksOf, ChecksOf
  <2>3. \A v \in Units : /\ v # u => kg'[v] = kg[v]
                         /\ kg'[v].otk = kg[v].otk
                         /\ v = u => kg'[v].state = "packed"
    BY <1>1, <2>1 DEF TypeInv, TypeOK, Kgs
  <2>4. GuardedWrites(t)
    BY <2>1, <2>2, <2>3 DEF GuardedWrites, Recorded, Packable
  <2>5. PackedUnitsPassed'
    <3> SUFFICES ASSUME NEW v \in Units, kg'[v].state = "packed"
                 PROVE  kg'[v].otk = "passed" /\ ~OnOtkLine(v)'
      BY DEF PackedUnitsPassed
    <3>1. kg[v].otk = "passed" /\ ~OnOtkLine(v)
      BY <2>2, <2>3 DEF Packable, LineInv, PackedUnitsPassed
    <3> QED BY <2>1, <2>3, <3>1 DEF OnOtkLine, Running
  <2>6. UnitRunsOneSession' /\ SlotRunsOneSession'
    BY <2>1, <2>4, NoNewSession
  <2> QED BY <1>1, <2>1, <2>4, <2>5, <2>6, CommitKeeps
<1>7. CASE Leave(t)
  BY <1>1, <1>7, LeaveKeeps
<1> QED BY <1>3, <1>4, <1>5, <1>6, <1>7 DEF Packing

LEMMA ArchiveKeeps ==
    ASSUME LineInv, NEW t \in Tx, Archive(t)
    PROVE  Preserves(t)
<1> USE DEF Modes, BatchRead, KgRead, PakRead, PackBatch, PackKg, CompletedKg
<1>1. TypeInv' /\ TypeInv
  BY ArchiveType DEF LineInv
<1>2. LocksOf(t) /\ ChecksOf(t)
  BY DEF LineInv, LockInv
<1> DEFINE b == req[t].batch
<1>3. CASE LockArchivedBatch(t)
  <2>1. pc[t] = "archive.batch" /\ Grantable(held, t, BatchRow(b), Update)
        /\ Acquire(t, BatchRow(b), Update, loc[t], "archive.write")
    BY <1>3 DEF LockArchivedBatch, ArchiveMode
  <2>2. /\ pc'[t] = "archive.write" /\ loc'[t] = loc[t] /\ req' = req /\ UNCHANGED db
        /\ held'[t] = held[t] \cup {<<BatchRow(b), Update>>}
    BY <2>1, AcquireFacts
  <2>3. LocksOf(t)' /\ ChecksOf(t)'
    BY <1>2, <2>2 DEF LocksOf, ChecksOf, Holds, db, Running
  <2> QED BY <1>1, <2>1, <2>3, AcquireKeeps
<1>4. CASE WriteArchived(t)
  <2>1. /\ pc[t] = "archive.write" /\ End(t)
        /\ archived' = [archived EXCEPT ![b] = req[t].archived]
        /\ UNCHANGED <<kg, pakKind, session>>
    BY <1>4 DEF WriteArchived
  <2>2. Holds(t, BatchRow(b), Update)
    BY <1>2, <2>1 DEF LocksOf
  <2>3. GuardedWrites(t)
    BY <1>1, <2>1, <2>2 DEF GuardedWrites, Recorded, TypeInv, TypeOK
  <2>4. UnitRunsOneSession' /\ SlotRunsOneSession' /\ \A u \in Units : OnOtkLine(u)' => OnOtkLine(u)
    BY <2>1, <2>3, NoNewSession
  <2>5. PackedUnitsPassed'
    BY <2>1, <2>4 DEF PackedUnitsPassed, LineInv
  <2> QED BY <1>1, <2>1, <2>3, <2>4, <2>5, CommitKeeps
<1> QED BY <1>3, <1>4 DEF Archive

LEMMA PakEditKeeps ==
    ASSUME LineInv, NEW t \in Tx, PakEdit(t)
    PROVE  Preserves(t)
<1> USE DEF Modes, BatchRead, KgRead, PakRead, PackBatch, PackKg, CompletedKg
<1>1. TypeInv' /\ TypeInv
  BY PakEditType DEF LineInv
<1>2. LocksOf(t) /\ ChecksOf(t)
  BY DEF LineInv, LockInv
<1>3. CASE LockEditedPak(t)
  <2> DEFINE r == PakRow(req[t].pak)
  <2>1. pc[t] = "pak.row" /\ Grantable(held, t, r, Update)
        /\ Acquire(t, r, Update, loc[t], "pak.write")
    BY <1>3 DEF LockEditedPak
  <2>2. /\ pc'[t] = "pak.write" /\ loc'[t] = loc[t] /\ req' = req /\ UNCHANGED db
        /\ held'[t] = held[t] \cup {<<r, Update>>}
    BY <2>1, AcquireFacts
  <2>3. LocksOf(t)' /\ ChecksOf(t)'
    BY <1>2, <2>2 DEF LocksOf, ChecksOf, Holds, db, Running
  <2> QED BY <1>1, <2>1, <2>3, AcquireKeeps
<1>4. CASE WritePak(t)
  <2>1. End(t) /\ UNCHANGED <<archived, kg, session>>
    BY <1>4 DEF WritePak
  <2> QED BY <1>1, <2>1, RewriteKeeps
<1> QED BY <1>3, <1>4 DEF PakEdit

LEMMA SweepKeeps ==
    ASSUME LineInv, NEW j \in Tx, ExpireStale(j) \/ CloseStale(j)
    PROVE  Preserves(j)
<1>1. TypeInv' /\ TypeInv
  BY SweepType DEF LineInv
<1>2. LocksOf(j) /\ ChecksOf(j)
  BY DEF LineInv, LockInv
<1>3. CASE ExpireStale(j)
  <2> DEFINE free == {s \in Stale : Grantable(held, j, SessionRow(s), Update)}
  <2>1. PICK S \in SUBSET free :
           /\ held' = [held EXCEPT ![j] = {<<SessionRow(s), Update>> : s \in S}]
           /\ loc' = [loc EXCEPT ![j] = [@ EXCEPT !.now = clock, !.running = S]]
    BY <1>3 DEF ExpireStale
  <2>2. S \subseteq Running /\ \A s \in S : Grantable(held, j, SessionRow(s), Update)
    BY DEF Stale
  <2> HIDE DEF free
  <2>3. /\ pc' = [pc EXCEPT ![j] = "sweep.write"]
        /\ UNCHANGED <<archived, kg, pakKind, session, req>>
    BY <1>3 DEF ExpireStale
  <2>4. loc[j] \in Locals /\ loc'[j] = [loc[j] EXCEPT !.now = clock, !.running = S]
    BY <1>1, <2>1, LocalsType DEF TypeInv, TypeOK
  <2>5. /\ pc'[j] = "sweep.write" /\ loc'[j].running = S
        /\ held'[j] = {<<SessionRow(s), Update>> : s \in S}
    BY <1>1, <2>1, <2>3, <2>4 DEF TypeInv, TypeOK, Locals
  <2>6. OthersWait(j) /\ UNCHANGED db
    BY <1>1, <2>1, <2>3 DEF OthersWait, db, TypeInv, TypeOK
  <2>7. LocksCompatible(held')
    <3>1. DOMAIN held = Tx /\ DOMAIN held' = Tx
      BY <1>1, <2>1 DEF TypeInv, TypeOK
    <3>2. SUFFICES ASSUME NEW a \in Tx, NEW b \in Tx, NEW l \in held'[a], NEW k \in held'[b],
                          a # b, l[1] = k[1]
                   PROVE  ~Conflict(l[2], k[2])
      BY <3>1 DEF LocksCompatible
    <3>3. \A o \in Tx \ {j}, n \in Modes, s \in S :
             <<SessionRow(s), n>> \in held[o] => ~Conflict(n, Update)
      BY <2>2, <3>1 DEF Grantable, Blockers
    <3>4. \A o \in Tx : \A x \in held[o] : x[2] \in Modes /\ x = <<x[1], x[2]>>
      BY <1>1 DEF TypeInv, TypeOK
    <3>5. \A x, y : Conflict(x, y) <=> Conflict(y, x)
      BY DEF Conflict
    <3>6. CASE a # j /\ b # j
      BY <2>6, <3>1, <3>2, <3>6 DEF OthersWait, LineInv, LockInv, LocksCompatible
    <3>7. CASE a = j
      <4>1. PICK s \in S : l = <<SessionRow(s), Update>>
        BY <2>5, <3>2, <3>7
      <4>2. k \in held[b] /\ b # j /\ k = <<SessionRow(s), k[2]>> /\ k[2] \in Modes
        BY <2>6, <3>2, <3>4, <3>7, <4>1 DEF OthersWait
      <4> QED BY <3>3, <3>5, <4>1, <4>2
    <3>8. CASE b = j
      <4>1. PICK s \in S : k = <<SessionRow(s), Update>>
        BY <2>5, <3>2, <3>8
      <4>2. l \in held[a] /\ a # j /\ l = <<SessionRow(s), l[2]>> /\ l[2] \in Modes
        BY <2>6, <3>2, <3>4, <3>8, <4>1 DEF OthersWait
      <4> QED BY <3>3, <4>1, <4>2
    <3> QED BY <3>6, <3>7, <3>8
  <2>8. LocksOf(j)' /\ ChecksOf(j)'
    BY <2>2, <2>3, <2>5 DEF LocksOf, ChecksOf, Holds, Running, BatchRead, KgRead, PakRead,
                            PackBatch, PackKg, CompletedKg
  <2> QED BY <1>1, <2>6, <2>7, <2>8, ReadKeeps
<1>4. CASE CloseStale(j)
  <2>1. /\ session' = CloseIncomplete(loc[j].running, loc[j].now)
        /\ UNCHANGED <<archived, kg, pakKind>> /\ End(j)
    BY <1>4 DEF CloseStale
  <2>2. ASSUME NEW s \in Sessions, session'[s] # session[s]
        PROVE  /\ s \in Running /\ Holds(j, SessionRow(s), Update)
               /\ session'[s].unit = session[s].unit /\ session'[s].pak = session[s].pak
               /\ session'[s].slot = session[s].slot /\ session'[s].kind = session[s].kind
               /\ session'[s].status # "absent"
    <3>1. s \in loc[j].running /\ session'[s] = Incomplete(session[s], loc[j].now)
      BY <2>1, <2>2 DEF CloseIncomplete
    <3>2. s \in Running /\ Holds(j, SessionRow(s), Update) /\ session[s] \in SessionRecords
      BY <1>1, <1>2, <3>1, RecordedType DEF LocksOf, ChecksOf, Running, TypeInv
    <3> QED BY <3>1, <3>2 DEF Incomplete, SessionRecords
  <2> QED BY <1>1, <2>1, <2>2, RewriteKeeps
<1> QED BY <1>3, <1>4

LEMMA StutterKeeps ==
    ASSUME LineInv, TypeInv', UNCHANGED <<archived, kg, pakKind, session, pc, req, loc, held>>
    PROVE  LineInv'
<1>1. LockInv'
  BY DEF LineInv, LockInv, LocksOf, ChecksOf, Holds, Running, InPlace, Verifiable, Packable, OnOtkLine
<1>2. UnitRunsOneSession' /\ SlotRunsOneSession' /\ PackedUnitsPassed'
  BY DEF LineInv, UnitRunsOneSession, SlotRunsOneSession, PackedUnitsPassed, OnOtkLine,
         Running, InPlace
<1> QED BY <1>1, <1>2 DEF LineInv

----------------------------------------------------------------------------
(* The theorems *)

LEMMA LineInit == Init => LineInv
<1> SUFFICES ASSUME Init PROVE LineInv
  OBVIOUS
<1>1. Running = {}
  BY DEF Init, Running, NoSession
<1>2. UnitRunsOneSession /\ SlotRunsOneSession
  BY <1>1 DEF UnitRunsOneSession, SlotRunsOneSession
<1>3. PackedUnitsPassed
  BY DEF Init, PackedUnitsPassed
<1>4. LocksCompatible(held)
  BY DEF Init, LocksCompatible
<1>5. \A t \in Tx : LocksOf(t) /\ ChecksOf(t)
  BY DEF Init, NoLocals, LocksOf, ChecksOf, BatchRead, KgRead, PakRead, PackBatch, PackKg,
         CompletedKg
<1> QED BY TypeInit, <1>2, <1>3, <1>4, <1>5 DEF LineInv, LockInv

LEMMA EveryStep ==
    ASSUME LineInv, [Next]_vars
    PROVE  LineInv' /\ (UNCHANGED db \/ \E t \in Tx : GuardedWrites(t))
<1>1. CASE \E t \in Handlers : Request(t)
  BY <1>1, RequestKeeps DEF Preserves, Tx
<1>2. CASE \E t \in Tx : Proceed(t)
  BY <1>2, OpenKeeps, StepKeeps, FinishKeeps, SweepKeeps, PackingKeeps, ArchiveKeeps, PakEditKeeps
  DEF Proceed, Preserves
<1>3. CASE \E t \in Tx : Abort(t)
  BY <1>3, LeaveType, LeaveKeeps DEF Abort, Preserves, LineInv
<1>4. CASE \E j \in Jobs : ExpireStale(j)
  BY <1>4, SweepKeeps DEF Tx, Preserves
<1>5. CASE Tick
  <2>1. TypeInv'
    BY <1>5, StutterType DEF Tick, LineInv, TypeInv, TypeOK
  <2> QED BY <1>5, <2>1, StutterKeeps DEF Tick, db
<1>6. CASE UNCHANGED vars
  <2>1. TypeInv'
    BY <1>6, StutterType DEF vars, LineInv, TypeInv, TypeOK
  <2> QED BY <1>6, <2>1, StutterKeeps DEF vars, db
<1> QED BY <1>1, <1>2, <1>3, <1>4, <1>5, <1>6 DEF Next

LEMMA Line == Spec => []LineInv
<1>1. LineInv /\ [Next]_vars => LineInv'
  BY EveryStep
<1> QED BY LineInit, <1>1, PTL DEF Spec

(* A KG unit never has two running sessions: open_session holds the unit's  *)
(* row from before it looks for them until it commits the new one.         *)
THEOREM OneSessionPerUnit == Spec => []UnitRunsOneSession
<1>1. LineInv => UnitRunsOneSession
  BY DEF LineInv
<1> QED BY Line, <1>1, PTL

(* Nor does a slot of a PAK: the same with the PAK's row.                   *)
THEOREM OneSessionPerSlot == Spec => []SlotRunsOneSession
<1>1. LineInv => SlotRunsOneSession
  BY DEF LineInv
<1> QED BY Line, <1>1, PTL

(* A packed unit passed, and no OTK-line session of it runs: packing locks  *)
(* the unit FOR UPDATE, which an opening and a completion wait for.         *)
THEOREM PackingIsFinal == Spec => []PackedUnitsPassed
<1>1. LineInv => PackedUnitsPassed
  BY DEF LineInv
<1> QED BY Line, <1>1, PTL

(* A finished session never changes: whoever writes a session has found it  *)
(* running under its lock and holds the lock until the commit.             *)
THEOREM FinishedIsHistory == Spec => FinishedSessionsNeverChange
<1>1. LineInv /\ [Next]_vars => [\A s \in Recorded \ Running : session'[s] = session[s]]_vars
  <2> SUFFICES ASSUME LineInv, [Next]_vars, NEW s \in Recorded \ Running
               PROVE  session'[s] = session[s]
    OBVIOUS
  <2> QED BY EveryStep DEF GuardedWrites, db
<1> QED BY Line, <1>1, PTL DEF Spec, FinishedSessionsNeverChange

(* Once archiving a batch is committed, no unit of it is packed and no       *)
(* session of it opened: packing and opening share the batch's lock.       *)
THEOREM ArchivedIsLeftAlone == Spec => ArchivedBatchIsLeftAlone
<1> DEFINE A == \A u \in Units : archived[BatchOf[u]] =>
                   /\ kg'[u].state = kg[u].state
                   /\ \A s \in Sessions \ Recorded :
                         session'[s].status # "absent" => session'[s].unit # u
<1>1. LineInv /\ [Next]_vars => [A]_vars
  <2> SUFFICES ASSUME LineInv, [Next]_vars, NEW u \in Units, archived[BatchOf[u]]
               PROVE  /\ kg'[u].state = kg[u].state
                      /\ \A s \in Sessions \ Recorded :
                            session'[s].status # "absent" => session'[s].unit # u
    OBVIOUS
  <2>1. CASE UNCHANGED db
    BY <2>1 DEF db, Recorded
  <2>2. CASE \E t \in Tx : GuardedWrites(t)
    <3>1. PICK t \in Tx : GuardedWrites(t)
      BY <2>2
    <3>2. kg'[u].state = kg[u].state
      BY <3>1 DEF GuardedWrites, Packable
    <3>3. ASSUME NEW s \in Sessions \ Recorded, session'[s].status # "absent", session'[s].unit = u
          PROVE  FALSE
      <4>1. session'[s] # session[s]
        BY <3>3 DEF Recorded
      <4>2. Verifiable(session'[s].unit, session'[s].kind)
        BY <3>1, <4>1 DEF GuardedWrites
      <4> QED BY <3>3, <4>2 DEF Verifiable
    <3> QED BY <3>2, <3>3
  <2> QED BY <2>1, <2>2, EveryStep
<1> QED BY Line, <1>1, PTL DEF Spec, ArchivedBatchIsLeftAlone

----------------------------------------------------------------------------
(* OtkLine implements KgLifecycle. *)

NeverShipped == \A u \in Units : kg[u].state # "shipped"

LifeInv == LineInv /\ NeverShipped

(* What a guarded step does to one unit is a step of its lifecycle. *)
LEMMA UnitMoves ==
    ASSUME LineInv, LineInv', NEW t \in Tx, GuardedWrites(t), NEW u \in Units
    PROVE  \/ kg'[u] = kg[u] /\ (OnOtkLine(u)' <=> OnOtkLine(u))
           \/ /\ ~archived[BatchOf[u]] /\ kg[u].state = "registered" /\ OnOtkLine(u)'
              /\ kg'[u] = kg[u]
           \/ /\ OnOtkLine(u) /\ ~OnOtkLine(u)' /\ kg'[u].state = kg[u].state
              /\ kg'[u].otk \in {kg[u].otk, "passed", "failed"}
           \/ /\ Packable(u) /\ ~OnOtkLine(u)'
              /\ kg'[u].state = "packed" /\ kg'[u].otk = kg[u].otk
<1>1. TypeInv /\ kg[u] \in Kgs /\ kg'[u] \in Kgs
  BY DEF LineInv, TypeInv, TypeOK
<1>3. ASSUME OnOtkLine(u)', ~OnOtkLine(u)
      PROVE  ~archived[BatchOf[u]] /\ kg[u].state = "registered" /\ kg' = kg
  <2>1. PICK s \in Running' : session'[s].unit = u /\ session'[s].kind = "otk_line"
    BY <1>3 DEF OnOtkLine
  <2>2. s \in Sessions /\ session'[s].status = "running"
    BY <2>1 DEF Running
  <2>3. s \notin Recorded
    BY <1>1, <1>3, <2>1, <2>2, NewRunning DEF OnOtkLine
  <2>4. session'[s] # session[s]
    BY <2>2, <2>3 DEF Recorded
  <2>5. Verifiable(u, "otk_line") /\ kg' = kg
    BY <2>1, <2>2, <2>3, <2>4 DEF GuardedWrites
  <2> QED BY <1>1, <2>5 DEF Verifiable, Kgs, KgStates
<1>4. ASSUME kg'[u].otk # kg[u].otk
      PROVE  OnOtkLine(u) /\ ~OnOtkLine(u)' /\ kg'[u].otk \in {"passed", "failed"}
  <2>1. PICK s \in Running : /\ session[s].unit = u /\ session[s].kind = "otk_line"
                             /\ session'[s].status # "running"
    BY <1>4 DEF GuardedWrites
  <2>2. ASSUME NEW r \in Running', session'[r].unit = u
        PROVE  FALSE
    <3>1. r \in Sessions /\ session'[r].status = "running"
      BY DEF Running
    <3>2. CASE r \in Recorded
      <4>1. r \in Running /\ session[r].unit = u
        BY <1>1, <2>2, <3>1, <3>2, NewRunning
      <4>2. r = s
        BY <2>1, <4>1 DEF LineInv, UnitRunsOneSession
      <4> QED BY <2>1, <3>1, <4>2
    <3>3. CASE r \notin Recorded
      <4>1. session'[r] # session[r]
        BY <3>1, <3>3 DEF Recorded
      <4> QED BY <1>4, <3>1, <3>3, <4>1 DEF GuardedWrites
    <3> QED BY <3>2, <3>3
  <2> QED BY <1>4, <2>1, <2>2 DEF GuardedWrites, OnOtkLine
<1>5. ASSUME kg'[u].state # kg[u].state
      PROVE  /\ Packable(u) /\ kg'[u].state = "packed" /\ kg'[u].otk = kg[u].otk
             /\ ~OnOtkLine(u)'
  <2>1. Packable(u) /\ kg'[u].state = "packed" /\ kg'[u].otk = kg[u].otk
    BY <1>5 DEF GuardedWrites
  <2>2. ~OnOtkLine(u)'
    BY <1>3, <1>5, <2>1 DEF Packable
  <2> QED BY <2>1, <2>2
<1>6. kg'[u].state = kg[u].state /\ kg'[u].otk = kg[u].otk => kg'[u] = kg[u]
  BY <1>1 DEF Kgs
<1>7. CASE kg'[u].state # kg[u].state
  BY <1>5, <1>7
<1>8. CASE kg'[u].state = kg[u].state /\ kg'[u].otk # kg[u].otk
  BY <1>4, <1>8
<1>9. CASE kg'[u] = kg[u]
  BY <1>3, <1>9
<1> QED BY <1>6, <1>7, <1>8, <1>9

LEMMA LifecycleInit == Init => Lifecycle!Init
<1> SUFFICES ASSUME Init PROVE Lifecycle!Init
  OBVIOUS
<1>1. [u \in Units |-> kg[u].state] \in [Units -> {"registered", "scrapped"}]
      /\ [u \in Units |-> kg[u].otk] = [u \in Units |-> "not_verified"]
  BY DEF Init
<1>2. [u \in Units |-> OnOtkLine(u)] = [u \in Units |-> FALSE]
  <2>1. \A u \in Units : ~OnOtkLine(u)
    BY DEF Init, OnOtkLine, Running, NoSession
  <2>2. \A u \in Units : OnOtkLine(u) = FALSE
    BY <2>1 DEF OnOtkLine
  <2> QED BY <2>2
<1>3. [u \in Units |-> archived[BatchOf[u]]] \in [Units -> BOOLEAN]
  BY DomainAssumption DEF Init
<1> QED BY <1>1, <1>2, <1>3 DEF Lifecycle!Init

LEMMA LifecycleStep ==
    ASSUME LineInv, LineInv', NeverShipped, UNCHANGED db \/ \E t \in Tx : GuardedWrites(t)
    PROVE  NeverShipped' /\ [Lifecycle!Next]_Lifecycle!vars
<1> DEFINE state   == [u \in Units |-> kg[u].state]
           verdict == [u \in Units |-> kg[u].otk]
           onLine  == [u \in Units |-> OnOtkLine(u)]
           frozen  == [u \in Units |-> archived[BatchOf[u]]]
<1>1. CASE UNCHANGED db
  <2>1. NeverShipped'
    BY <1>1 DEF NeverShipped, db
  <2>2. state' = state /\ verdict' = verdict /\ frozen' = frozen
    BY <1>1 DEF db
  <2>3. onLine' = onLine
    BY <1>1 DEF db, OnOtkLine, Running
  <2> QED BY <2>1, <2>2, <2>3 DEF Lifecycle!vars
<1>2. ASSUME NEW t \in Tx, GuardedWrites(t)
      PROVE  NeverShipped' /\ [Lifecycle!Next]_Lifecycle!vars
  <2>1. NeverShipped'
    <3>1. \A u \in Units : kg'[u].state = kg[u].state \/ kg'[u].state = "packed"
      BY <1>2 DEF GuardedWrites
    <3> QED BY <3>1 DEF NeverShipped
  <2>2. \A u \in Units : kg'[u] \in Kgs /\ kg'[u].state # "shipped"
    BY <2>1 DEF LineInv, TypeInv, TypeOK, NeverShipped
  <2>3. /\ state' \in [Units -> {"registered", "packed", "scrapped"}]
        /\ verdict' \in [Units -> {"not_verified", "passed", "failed"}]
    BY <2>2 DEF Kgs, KgStates, OtkStatuses
  <2>4. onLine' \in [Units -> BOOLEAN]
    <3>1. \A u \in Units : OnOtkLine(u)' \in BOOLEAN
      BY DEF OnOtkLine
    <3> QED BY <3>1
  <2>5. CASE archived' # archived
    <3>1. kg' = kg /\ session' = session
      BY <1>2, <2>5 DEF GuardedWrites
    <3>2. frozen' \in [Units -> BOOLEAN]
      BY DomainAssumption DEF LineInv, TypeInv, TypeOK
    <3>3. state' = state /\ verdict' = verdict
      BY <3>1
    <3>4. onLine' = onLine
      BY <3>1 DEF OnOtkLine, Running
    <3> HIDE DEF state, verdict, onLine, frozen
    <3>5. Lifecycle!Freeze
      BY <3>2, <3>3, <3>4 DEF Lifecycle!Freeze, state, verdict, onLine, frozen
    <3> QED BY <2>1, <2>3, <2>4, <3>5 DEF Lifecycle!Next, state, verdict, onLine
  <2>6. CASE archived' = archived
    <3>1. frozen' = frozen
      BY <2>6
    <3>2. ASSUME NEW u \in Units
          PROVE  Lifecycle!Stay(u) \/ Lifecycle!Enter(u) \/ Lifecycle!Leave(u) \/ Lifecycle!Pack(u)
      <4>1. /\ state[u] = kg[u].state /\ state'[u] = kg'[u].state
            /\ verdict[u] = kg[u].otk /\ verdict'[u] = kg'[u].otk
            /\ frozen[u] = archived[BatchOf[u]]
        OBVIOUS
      <4>2. onLine[u] = OnOtkLine(u) /\ onLine'[u] = OnOtkLine(u)'
        OBVIOUS
      <4>3. OnOtkLine(u) \in BOOLEAN /\ OnOtkLine(u)' \in BOOLEAN
        BY DEF OnOtkLine
      <4> HIDE DEF state, verdict, onLine, frozen
      <4>4. CASE kg'[u] = kg[u] /\ (OnOtkLine(u)' <=> OnOtkLine(u))
        <5>1. onLine'[u] = onLine[u] /\ state'[u] = state[u] /\ verdict'[u] = verdict[u]
          BY <4>1, <4>2, <4>3, <4>4
        <5>2. Lifecycle!Stay(u)
          BY <5>1 DEF Lifecycle!Stay, state, verdict, onLine, frozen
        <5> QED BY <5>2
      <4>5. CASE /\ ~archived[BatchOf[u]] /\ kg[u].state = "registered" /\ OnOtkLine(u)'
                 /\ kg'[u] = kg[u]
        <5>1. /\ ~frozen[u] /\ state[u] = "registered" /\ onLine'[u] = TRUE
              /\ state'[u] = state[u] /\ verdict'[u] = verdict[u]
          BY <4>1, <4>2, <4>3, <4>5
        <5>2. Lifecycle!Enter(u)
          BY <5>1 DEF Lifecycle!Enter, state, verdict, onLine, frozen
        <5> QED BY <5>2
      <4>6. CASE /\ OnOtkLine(u) /\ ~OnOtkLine(u)' /\ kg'[u].state = kg[u].state
                 /\ kg'[u].otk \in {kg[u].otk, "passed", "failed"}
        <5>1. /\ onLine[u] /\ onLine'[u] = FALSE /\ state'[u] = state[u]
              /\ verdict'[u] \in {verdict[u], "passed", "failed"}
          BY <4>1, <4>2, <4>3, <4>6
        <5>2. Lifecycle!Leave(u)
          BY <5>1 DEF Lifecycle!Leave, state, verdict, onLine, frozen
        <5> QED BY <5>2
      <4>7. CASE /\ Packable(u) /\ ~OnOtkLine(u)'
                 /\ kg'[u].state = "packed" /\ kg'[u].otk = kg[u].otk
        <5>1. /\ ~frozen[u] /\ state[u] = "registered" /\ verdict[u] = "passed"
              /\ state'[u] = "packed" /\ verdict'[u] = verdict[u]
          BY <4>1, <4>7 DEF Packable
        <5>2. ~onLine[u] /\ onLine'[u] = onLine[u]
          BY <4>2, <4>3, <4>7 DEF Packable
        <5>3. Lifecycle!Pack(u)
          BY <5>1, <5>2 DEF Lifecycle!Pack, state, verdict, onLine, frozen
        <5> QED BY <5>3
      <4> QED BY <1>2, <4>4, <4>5, <4>6, <4>7, UnitMoves
    <3>3. Lifecycle!Move
      BY <3>1, <3>2 DEF Lifecycle!Move
    <3> QED BY <2>1, <2>3, <2>4, <3>3 DEF Lifecycle!Next
  <2> QED BY <2>5, <2>6
<1> QED BY <1>1, <1>2

(* However the transactions interleave, every unit follows KgLifecycle: it  *)
(* is packed only off the OTK line and with a pass that nothing takes back. *)
THEOREM ImplementsLifecycle == Spec => FollowsLifecycle
<1>1. Init => LifeInv
  BY LineInit DEF Init, LifeInv, NeverShipped
<1>2. LifeInv /\ [Next]_vars => LifeInv' /\ [Lifecycle!Next]_Lifecycle!vars
  BY EveryStep, LifecycleStep DEF LifeInv
<1> QED BY <1>1, <1>2, LifecycleInit, PTL DEF Spec, FollowsLifecycle, Lifecycle!Spec

----------------------------------------------------------------------------
(* The second part: what the records of the line say about its past, and   *)
(* why nobody waits forever for a lock.  The locks above are also what puts *)
(* the times of the rows in order: a transaction takes its time after the  *)
(* lock that lets it write, so whoever wrote under that lock before took an *)
(* earlier one.                                                            *)

----------------------------------------------------------------------------
(* The inductive invariant *)

(* The steps of one session row. *)
StepsOfRow(r) ==
    /\ \A n, k \in StepNos :
          r.steps[n].status = "running" /\ r.steps[k].status = "running" => n = k
    /\ r.status # "running" => \A n \in StepNos : r.steps[n].status # "running"
    /\ \A n \in StepNos : r.steps[n].status # "absent" => n <= r.total
    /\ r.status = "passed" => \A n \in 1..r.total : n \in StepNos /\ r.steps[n].status = "passed"

StepsInv == \A s \in Recorded : StepsOfRow(session[s])

(* No time lies in the future. *)
TimesInv ==
    /\ \A t \in Tx : loc[t].now <= clock
    /\ \A s \in Recorded : session[s].started <= clock /\ session[s].completed <= clock

(* What the time, the sessions and the step of an open transaction t have    *)
(* to do with the rows it has locked.                                      *)
RemembersOf(t) ==
    /\ pc[t] = "step.write" => req[t].step <= session[req[t].session].total
    /\ pc[t] = "complete.write" =>
          \A r \in OtkResults(session[req[t].session].unit) : session[r].completed <= loc[t].now
    /\ pc[t] \in PakRead =>
          \A r \in Recorded : session[r].pak = req[t].pak => session[r].started <= loc[t].now
    /\ pc[t] = "open.sessions" =>
          \A s \in loc[t].found \cup loc[t].running :
              /\ s \in Recorded
              /\ session[s].unit = req[t].unit \/ InPlace(s, req[t].pak, req[t].slot)
    /\ pc[t] = "sweep.write" =>
          \A s \in loc[t].running : clock - session[s].active >= SessionTtl

BatchRows   == {BatchRow(b) : b \in Batches}
KgRows      == {KgRow(u) : u \in Units}
PakRows     == {PakRow(p) : p \in Paks}
SessionRows == {SessionRow(s) : s \in Sessions}

HoldsOnly(t, R) == \A l \in held[t] : l[1] \in R

(* The rows a transaction may hold while it waits for the next one.         *)
OrderOf(t) ==
    /\ pc[t] \in {"idle", "open.batch", "step.session", "complete.kg", "pack.batch",
                  "archive.batch", "pak.row"} => held[t] = {}
    /\ pc[t] \in {"open.kg", "pack.kg"} => HoldsOnly(t, BatchRows)
    /\ pc[t] = "open.pak" => HoldsOnly(t, BatchRows \cup KgRows)
    /\ pc[t] = "open.find" => HoldsOnly(t, BatchRows \cup KgRows \cup PakRows)
    /\ pc[t] = "open.sessions" =>
          HoldsOnly(t, BatchRows \cup KgRows \cup PakRows
                         \cup {SessionRow(s) : s \in {x \in Sessions : \A f \in loc[t].found : x < f}})
    /\ pc[t] = "complete.session" => HoldsOnly(t, KgRows)

(* There are no more sessions than were opened. *)
IdsBounded == \E m \in Nat : \A s \in Recorded : s <= m

HistoryInv ==
    /\ LineInv
    /\ StepsInv
    /\ TimesInv
    /\ RunningStartedLast
    /\ OtkStatusIsLatestResult
    /\ IdsBounded
    /\ \A t \in Tx : RemembersOf(t) /\ OrderOf(t)

(* What a transaction writes, as far as the history is concerned. *)

SameSession(q, r) ==
    /\ q.unit = r.unit /\ q.pak = r.pak /\ q.slot = r.slot /\ q.kind = r.kind
    /\ q.total = r.total /\ q.started = r.started

Closing(t, s) ==
    /\ s \in Running /\ session'[s].completed = loc[t].now
    /\ \/ session'[s].status \in {"incomplete", "aborted"}
       \/ /\ pc[t] = "complete.write" /\ s = req[t].session
          /\ session'[s].status \in {"passed", "failed"}
          /\ session[s].kind = "otk_line" => kg'[session[s].unit].otk = session'[s].status

Opening(t, s) ==
    /\ pc[t] = "open.sessions" /\ session'[s].status = "running"
    /\ session'[s].pak = req[t].pak /\ session'[s].started = loc[t].now
    /\ session'[s].completed = NoTime /\ StepsOfRow(session'[s])

(* Why the system may close session s, as SessionsCloseForAReason says. *)
ReasonToClose(s) ==
    \/ clock - session[s].active >= SessionTtl
    \/ \E r \in Sessions \ Recorded :
          /\ session'[r].status = "running"
          /\ IF session'[r].unit = session[s].unit
             THEN clock - session[s].active >= ReopenAfter
             ELSE InPlace(s, session'[r].pak, session'[r].slot)

Recording(t) ==
    /\ \A s \in Recorded :
          /\ SameSession(session'[s], session[s]) /\ StepsOfRow(session'[s])
          /\ \/ session'[s].status = session[s].status /\ session'[s].completed = session[s].completed
             \/ Closing(t, s)
          /\ s \in Running /\ session'[s].status = "incomplete" => ReasonToClose(s)
    /\ \E id \in Nat : \A s \in Sessions \ Recorded :
          session'[s].status = "absent" \/ (s = id /\ Opening(t, s))
    /\ \A u \in Units : kg'[u].otk # kg[u].otk =>
          \E s \in Running : /\ session[s].unit = u /\ session[s].kind = "otk_line"
                             /\ session'[s].status \in {"passed", "failed"}
                             /\ kg'[u].otk = session'[s].status

(* What each step of t is shown to do. *)
Records(t) ==
    /\ OthersWait(t) /\ clock' = clock /\ loc'[t].now <= clock
    /\ Recording(t) /\ RemembersOf(t)' /\ OrderOf(t)'

----------------------------------------------------------------------------
(* The steps of a session, as a report or its end leaves them. *)

LEMMA RowType ==
    ASSUME TypeInv, NEW s \in Recorded
    PROVE  /\ s \in Sessions /\ s \in Nat /\ session[s] \in SessionRecords
           /\ session[s].started \in Nat /\ session[s].active \in Nat
           /\ session[s].completed \in Nat \cup {NoTime} /\ session[s].unit \in Units
<1>1. s \in Sessions /\ session[s] \in SessionRecords
  BY RecordedType DEF Recorded, TypeInv
<1>2. s \in Nat
  BY <1>1, DomainAssumption
<1> QED BY <1>1, <1>2 DEF SessionRecords

LEMMA StepOfRow ==
    ASSUME NEW r \in SessionRecords, NEW n \in StepNos
    PROVE  r.steps[n] \in Steps \cup {NoStep}
  BY DEF SessionRecords

LEMMA IncompleteFields ==
    ASSUME NEW r \in SessionRecords, NEW now \in Nat
    PROVE  /\ SameSession(Incomplete(r, now), r)
           /\ Incomplete(r, now).status = "incomplete" /\ Incomplete(r, now).completed = now
           /\ \A n \in StepNos : Incomplete(r, now).steps[n].status =
                 IF r.steps[n].status = "running" THEN "incomplete" ELSE r.steps[n].status
<1> DEFINE steps == [n \in StepNos |->
                       IF r.steps[n].status = "running"
                       THEN [r.steps[n] EXCEPT !.status = "incomplete"] ELSE r.steps[n]]
<1>1. \A n \in StepNos : steps[n].status =
         IF r.steps[n].status = "running" THEN "incomplete" ELSE r.steps[n].status
  <2> SUFFICES ASSUME NEW n \in StepNos
               PROVE  steps[n].status =
                        IF r.steps[n].status = "running" THEN "incomplete" ELSE r.steps[n].status
    OBVIOUS
  <2>1. r.steps[n] \in Steps \cup {NoStep}
    BY StepOfRow
  <2>2. CASE r.steps[n].status = "running"
    BY <2>1, <2>2 DEF Steps, NoStep
  <2>3. CASE r.steps[n].status # "running"
    BY <2>3
  <2> QED BY <2>2, <2>3
<1> HIDE DEF steps
<1> DEFINE q == [r EXCEPT !.status = "incomplete", !.completed = now, !.steps = steps]
<1>2. /\ SameSession(q, r) /\ q.status = "incomplete" /\ q.completed = now /\ q.steps = steps
  BY DEF SessionRecords, SameSession
<1>3. Incomplete(r, now) = q
  BY DEF Incomplete, steps
<1> HIDE DEF q
<1> QED BY <1>1, <1>2, <1>3

LEMMA CompleteFields ==
    ASSUME NEW r \in SessionRecords, NEW x \in Results, NEW now \in Nat
    PROVE  /\ SameSession(Complete(r, x, now), r)
           /\ Complete(r, x, now).status = x /\ Complete(r, x, now).completed = now
           /\ \A n \in StepNos : Complete(r, x, now).steps[n].status =
                 IF r.steps[n].status = "running" THEN "aborted" ELSE r.steps[n].status
<1> DEFINE steps == [n \in StepNos |->
                       IF r.steps[n].status = "running"
                       THEN [r.steps[n] EXCEPT !.status = "aborted"] ELSE r.steps[n]]
<1>1. \A n \in StepNos : steps[n].status =
         IF r.steps[n].status = "running" THEN "aborted" ELSE r.steps[n].status
  <2> SUFFICES ASSUME NEW n \in StepNos
               PROVE  steps[n].status =
                        IF r.steps[n].status = "running" THEN "aborted" ELSE r.steps[n].status
    OBVIOUS
  <2>1. r.steps[n] \in Steps \cup {NoStep}
    BY StepOfRow
  <2>2. CASE r.steps[n].status = "running"
    BY <2>1, <2>2 DEF Steps, NoStep
  <2>3. CASE r.steps[n].status # "running"
    BY <2>3
  <2> QED BY <2>2, <2>3
<1> HIDE DEF steps
<1> DEFINE q == [r EXCEPT !.status = x, !.completed = now, !.active = now, !.steps = steps]
<1>2. /\ SameSession(q, r) /\ q.status = x /\ q.completed = now /\ q.steps = steps
  BY DEF SessionRecords, SameSession
<1>3. Complete(r, x, now) = q
  BY DEF Complete, steps
<1> HIDE DEF q
<1> QED BY <1>1, <1>2, <1>3

LEMMA IncompleteSteps ==
    ASSUME NEW r \in SessionRecords, NEW now \in Nat, StepsOfRow(r)
    PROVE  StepsOfRow(Incomplete(r, now))
<1> DEFINE q == Incomplete(r, now)
<1>1. /\ q.status = "incomplete" /\ q.total = r.total
      /\ \A n \in StepNos : q.steps[n].status =
            IF r.steps[n].status = "running" THEN "incomplete" ELSE r.steps[n].status
  BY IncompleteFields DEF SameSession
<1> HIDE DEF q
<1> QED BY <1>1 DEF StepsOfRow, q

(* A session passes only with as many passed steps as it announced, and no   *)
(* step has a number beyond that: it passed each of them.                  *)
LEMMA AllPassed ==
    ASSUME NEW r \in SessionRecords, StepsOfRow(r),
           Cardinality({n \in StepNos : r.steps[n].status = "passed"}) = r.total
    PROVE  {n \in StepNos : r.steps[n].status = "passed"} = 1..r.total
<1> DEFINE passed == {n \in StepNos : r.steps[n].status = "passed"}
<1>1. r.total \in Nat /\ r.total >= 1
  BY DEF SessionRecords, StepNos
<1>2. passed \subseteq 1..r.total
  BY <1>1 DEF StepsOfRow, StepNos
<1>3. IsFiniteSet(1..r.total) /\ Cardinality(1..r.total) = r.total
  BY <1>1, FS_Interval
<1> HIDE DEF passed
<1>4. Cardinality(passed) = r.total
  BY DEF passed
<1> QED BY <1>2, <1>3, <1>4, FS_Subset DEF passed

LEMMA CompleteSteps ==
    ASSUME NEW r \in SessionRecords, NEW x \in Results, NEW now \in Nat, StepsOfRow(r),
           {n \in StepNos : r.steps[n].status = "running"} # {} => x = "aborted",
           x = "passed" => Cardinality({n \in StepNos : r.steps[n].status = "passed"}) = r.total
    PROVE  StepsOfRow(Complete(r, x, now))
<1> DEFINE q == Complete(r, x, now)
<1>1. /\ q.status = x /\ q.total = r.total
      /\ \A n \in StepNos : q.steps[n].status =
            IF r.steps[n].status = "running" THEN "aborted" ELSE r.steps[n].status
  BY CompleteFields DEF SameSession
<1> HIDE DEF q
<1>2. \A n \in StepNos : q.steps[n].status # "running"
  BY <1>1
<1>3. \A n \in StepNos : q.steps[n].status # "absent" => n <= q.total
  BY <1>1 DEF StepsOfRow
<1>4. ASSUME x = "passed"
      PROVE  \A n \in 1..q.total : n \in StepNos /\ q.steps[n].status = "passed"
  <2>1. {n \in StepNos : r.steps[n].status = "passed"} = 1..r.total
    BY <1>4, AllPassed
  <2> QED BY <1>1, <2>1
<1> QED BY <1>1, <1>2, <1>3, <1>4 DEF StepsOfRow, q

LEMMA ReportFields ==
    ASSUME NEW r \in SessionRecords, NEW n \in StepNos, NEW now \in Nat, NEW step
    PROVE  LET q == [r EXCEPT !.active = now, !.steps[n] = step]
           IN  /\ SameSession(q, r) /\ q.status = r.status /\ q.completed = r.completed
               /\ q.steps[n] = step /\ \A k \in StepNos \ {n} : q.steps[k] = r.steps[k]
  BY DEF SessionRecords, SameSession

LEMMA ReportSteps ==
    ASSUME NEW r \in SessionRecords, NEW n \in StepNos, NEW now \in Nat, NEW step \in Steps,
           StepsOfRow(r), r.status = "running", n <= r.total,
           step.status = "running" =>
              \A k \in StepNos \ {n} : r.steps[k].status # "running"
    PROVE  StepsOfRow([r EXCEPT !.active = now, !.steps[n] = step])
<1> DEFINE q == [r EXCEPT !.active = now, !.steps[n] = step]
<1>1. /\ q.status = "running" /\ q.total = r.total /\ q.steps[n] = step
      /\ \A k \in StepNos \ {n} : q.steps[k] = r.steps[k]
  BY ReportFields DEF SameSession
<1> HIDE DEF q
<1> QED BY <1>1 DEF StepsOfRow, q

----------------------------------------------------------------------------
(* What such a step does to the history. *)

LEMMA NewRow ==
    ASSUME NEW t \in Tx, Recording(t), NEW s \in Recorded'
    PROVE  \/ /\ s \in Recorded /\ SameSession(session'[s], session[s])
              /\ s \in Running' => s \in Running
           \/ s \in Sessions \ Recorded /\ Opening(t, s)
<1>1. s \in Sessions /\ session'[s].status # "absent"
  BY DEF Recorded
<1>2. CASE s \in Recorded
  <2>1. SameSession(session'[s], session[s])
        /\ (session'[s].status = session[s].status \/ Closing(t, s))
    BY <1>2 DEF Recording
  <2>2. session'[s].status = "running" => s \in Running
    BY <1>1, <2>1 DEF Running, Closing
  <2> QED BY <1>2, <2>1, <2>2 DEF Running
<1>3. CASE s \notin Recorded
  BY <1>1, <1>3 DEF Recording
<1> QED BY <1>2, <1>3

LEMMA OneNewRow ==
    ASSUME NEW t \in Tx, Recording(t), NEW s \in Recorded' \ Recorded, NEW r \in Recorded' \ Recorded
    PROVE  s = r
<1>1. PICK id \in Nat : \A x \in Sessions \ Recorded :
         session'[x].status = "absent" \/ (x = id /\ Opening(t, x))
  BY DEF Recording
<1>2. \A x \in Recorded' \ Recorded : x \in Sessions \ Recorded /\ session'[x].status # "absent"
  BY DEF Recorded
<1> QED BY <1>1, <1>2

LEMMA StepsKept ==
    ASSUME NEW t \in Tx, Recording(t)
    PROVE  StepsInv'
<1> SUFFICES ASSUME NEW s \in Recorded' PROVE StepsOfRow(session'[s])
  BY DEF StepsInv, StepsOfRow
<1> QED BY NewRow DEF Opening, Recording

LEMMA TimesKept ==
    ASSUME HistoryInv, NEW t \in Tx, Records(t)
    PROVE  TimesInv'
<1>1. clock \in Nat /\ clock' = clock
  BY DEF HistoryInv, LineInv, TypeInv, TypeOK, Records
<1>2. \A o \in Tx : loc[o].now <= clock /\ loc[o].now \in Nat
  BY LocalsType DEF HistoryInv, TimesInv, LineInv
<1>3. \A o \in Tx : loc'[o].now <= clock
  BY <1>2 DEF Records, OthersWait
<1>4. ASSUME NEW s \in Recorded'
      PROVE  session'[s].started <= clock /\ session'[s].completed <= clock
  <2>1. CASE s \in Recorded
    <3>1. session'[s].started <= clock
      BY <2>1 DEF Records, Recording, SameSession, HistoryInv, TimesInv
    <3>2. session'[s].completed = session[s].completed \/ session'[s].completed = loc[t].now
      BY <2>1 DEF Records, Recording, Closing
    <3> QED BY <1>2, <2>1, <3>1, <3>2 DEF HistoryInv, TimesInv
  <2>2. CASE s \notin Recorded
    <3>1. session'[s].started = loc[t].now /\ session'[s].completed = NoTime
      BY <2>2, NewRow DEF Records, Opening
    <3> QED BY <1>1, <1>2, <3>1 DEF NoTime
  <2> QED BY <2>1, <2>2
<1> QED BY <1>1, <1>3, <1>4 DEF TimesInv

LEMMA LastKept ==
    ASSUME HistoryInv, LineInv', NEW t \in Tx, Recording(t)
    PROVE  RunningStartedLast'
<1> SUFFICES ASSUME NEW s \in Running', NEW r \in Recorded',
                    session'[r].pak = session'[s].pak, session'[r].slot = session'[s].slot
             PROVE  session'[r].started <= session'[s].started
  BY DEF RunningStartedLast, InPlace
<1>1. s \in Recorded'
  BY DEF Running, Recorded
<1>2. CASE r \notin Recorded
  <2>1. r \in Running'
    BY <1>2, NewRow DEF Opening, Running
  <2>2. r = s
    BY <2>1 DEF LineInv, SlotRunsOneSession, InPlace
  <2>3. session'[s].started \in Nat
    <3>1. s \in Sessions /\ session'[s].status = "running"
      BY DEF Running
    <3>2. session'[s] \in SessionRecords
      BY <3>1 DEF LineInv, TypeInv, TypeOK, NoSession
    <3> QED BY <3>2 DEF SessionRecords
  <2> QED BY <2>2, <2>3
<1>3. CASE r \in Recorded /\ s \in Recorded
  <2>1. /\ s \in Running /\ SameSession(session'[s], session[s])
        /\ SameSession(session'[r], session[r])
    BY <1>1, <1>3, NewRow DEF Recorded
  <2> QED BY <1>3, <2>1 DEF SameSession, HistoryInv, RunningStartedLast, InPlace
<1>4. CASE r \in Recorded /\ s \notin Recorded
  <2>1. Opening(t, s) /\ SameSession(session'[r], session[r])
    BY <1>1, <1>4, NewRow
  <2>2. session[r].started <= loc[t].now
    BY <1>4, <2>1 DEF Opening, SameSession, HistoryInv, RemembersOf, PakRead
  <2> QED BY <2>1, <2>2 DEF Opening, SameSession
<1> QED BY <1>2, <1>3, <1>4

(* The results of a unit, after a step of t that is not its completion. *)
LEMMA SameResults ==
    ASSUME NEW t \in Tx, Recording(t), NEW u,
           \A s \in Running : /\ session[s].unit = u /\ session[s].kind = "otk_line"
                              => session'[s].status \notin {"passed", "failed"}
    PROVE  /\ OtkResults(u)' = OtkResults(u)
           /\ \A s \in OtkResults(u) : /\ session'[s].completed = session[s].completed
                                       /\ session'[s].status = session[s].status
<1>1. ASSUME NEW s \in OtkResults(u)'
      PROVE  s \in OtkResults(u)
  <2>1. /\ s \in Recorded' /\ session'[s].unit = u /\ session'[s].kind = "otk_line"
        /\ session'[s].status \in {"passed", "failed"}
    BY <1>1 DEF OtkResults
  <2>2. s \in Recorded /\ SameSession(session'[s], session[s])
    BY <2>1, NewRow DEF Opening
  <2>3. session[s].unit = u /\ session[s].kind = "otk_line"
    BY <2>1, <2>2 DEF SameSession
  <2>4. s \notin Running
    BY <2>1, <2>3
  <2>5. session'[s].status = session[s].status
    BY <2>2, <2>4 DEF Recording, Closing
  <2> QED BY <2>1, <2>2, <2>3, <2>5 DEF OtkResults
<1>2. ASSUME NEW s \in OtkResults(u)
      PROVE  /\ s \in OtkResults(u)' /\ session'[s].completed = session[s].completed
             /\ session'[s].status = session[s].status
  <2>1. /\ s \in Recorded /\ session[s].unit = u /\ session[s].kind = "otk_line"
        /\ session[s].status \in {"passed", "failed"} /\ s \in Sessions
    BY <1>2 DEF OtkResults, Recorded
  <2>2. s \notin Running
    BY <2>1 DEF Running
  <2>3. /\ session'[s].completed = session[s].completed /\ session'[s].status = session[s].status
        /\ SameSession(session'[s], session[s])
    BY <2>1, <2>2 DEF Recording, Closing
  <2> QED BY <2>1, <2>3 DEF OtkResults, Recorded, SameSession
<1> QED BY <1>1, <1>2

LEMMA OtkKept ==
    ASSUME HistoryInv, LineInv', NEW t \in Tx, Recording(t)
    PROVE  OtkStatusIsLatestResult'
<1> SUFFICES ASSUME NEW u \in Units
             PROVE  \/ OtkResults(u)' = {} /\ kg'[u].otk = "not_verified"
                    \/ \E s \in OtkResults(u)' :
                          /\ kg'[u].otk = session'[s].status
                          /\ \A r \in OtkResults(u)' : session'[r].completed <= session'[s].completed
  BY DEF OtkStatusIsLatestResult
<1>1. CASE \A s \in Running : session[s].unit = u /\ session[s].kind = "otk_line"
                                 => session'[s].status \notin {"passed", "failed"}
  <2>1. /\ OtkResults(u)' = OtkResults(u)
        /\ \A s \in OtkResults(u) : /\ session'[s].completed = session[s].completed
                                    /\ session'[s].status = session[s].status
    BY <1>1, SameResults
  <2>2. kg'[u].otk = kg[u].otk
    BY <1>1 DEF Recording
  <2> QED BY <2>1, <2>2 DEF HistoryInv, OtkStatusIsLatestResult
<1>2. ASSUME NEW s \in Running, session[s].unit = u, session[s].kind = "otk_line",
             session'[s].status \in {"passed", "failed"}
      PROVE  \E x \in OtkResults(u)' :
                /\ kg'[u].otk = session'[x].status
                /\ \A r \in OtkResults(u)' : session'[r].completed <= session'[x].completed
  <2>1. s \in Recorded /\ s \in Sessions /\ session[s].status = "running"
    BY DEF Running, Recorded
  <2>2. SameSession(session'[s], session[s]) /\ Closing(t, s)
    BY <1>2, <2>1 DEF Recording
  <2>3. /\ pc[t] = "complete.write" /\ s = req[t].session /\ session'[s].completed = loc[t].now
        /\ kg'[u].otk = session'[s].status
    BY <1>2, <2>2 DEF Closing
  <2>4. s \in OtkResults(u)'
    BY <1>2, <2>1, <2>2 DEF OtkResults, Recorded, SameSession
  <2>5. loc[t].now \in Nat
    BY LocalsType DEF HistoryInv, LineInv
  <2>6. ASSUME NEW r \in OtkResults(u)'
        PROVE  session'[r].completed <= loc[t].now
    <3>1. /\ r \in Recorded' /\ session'[r].unit = u /\ session'[r].kind = "otk_line"
          /\ session'[r].status \in {"passed", "failed"}
      BY <2>6 DEF OtkResults
    <3>2. r \in Recorded /\ SameSession(session'[r], session[r])
      BY <3>1, NewRow DEF Opening
    <3>3. CASE Closing(t, r)
      BY <2>5, <3>3 DEF Closing
    <3>4. CASE ~Closing(t, r)
      <4>1. /\ session'[r].status = session[r].status
            /\ session'[r].completed = session[r].completed
        BY <3>2, <3>4 DEF Recording
      <4>2. r \in OtkResults(session[req[t].session].unit)
        BY <1>2, <2>3, <3>1, <3>2, <4>1 DEF OtkResults, SameSession
      <4> QED BY <2>3, <4>1, <4>2 DEF HistoryInv, RemembersOf
    <3> QED BY <3>3, <3>4
  <2> QED BY <2>3, <2>4, <2>6
<1> QED BY <1>1, <1>2

LEMMA IdsKept ==
    ASSUME HistoryInv, NEW t \in Tx, Recording(t)
    PROVE  IdsBounded'
<1>1. PICK m \in Nat : \A s \in Recorded : s <= m
  BY DEF HistoryInv, IdsBounded
<1>2. PICK id \in Nat : \A x \in Sessions \ Recorded :
         session'[x].status = "absent" \/ (x = id /\ Opening(t, x))
  BY DEF Recording
<1>3. \A s \in Recorded' : s \in Recorded \/ s = id
  BY <1>2 DEF Recorded
<1>4. \A s \in Recorded' : s \in Nat
  BY DomainAssumption DEF Recorded
<1>5. PICK k \in Nat : m <= k /\ id <= k
  <2>1. CASE m <= id
    BY <2>1
  <2>2. CASE ~(m <= id)
    BY <2>2
  <2> QED BY <2>1, <2>2
<1>6. \A s \in Recorded' : s <= k
  BY <1>1, <1>3, <1>4, <1>5
<1> QED BY <1>6 DEF IdsBounded

(* Nobody can take away what another transaction remembers. *)
LEMMA OthersRemember ==
    ASSUME HistoryInv, NEW t \in Tx, NEW o \in Tx, o # t, Records(t), GuardedWrites(t)
    PROVE  RemembersOf(o)' /\ OrderOf(o)'
<1>1. /\ RemembersOf(o) /\ OrderOf(o) /\ LocksOf(o) /\ ChecksOf(o) /\ Recording(t)
      /\ clock' = clock /\ LocksCompatible(held) /\ TypeInv
      /\ pc'[o] = pc[o] /\ req'[o] = req[o] /\ loc'[o] = loc[o] /\ held'[o] = held[o]
  BY DEF HistoryInv, LineInv, LockInv, Records, OthersWait
<1>2. OrderOf(o)'
  BY <1>1 DEF OrderOf, HoldsOnly
<1>3. \A s \in Recorded : SameSession(session'[s], session[s]) /\ s \in Recorded'
  BY <1>1 DEF Recording, GuardedWrites, Recorded
<1>4. /\ pc[o] \in {"step.write", "complete.write"} => req[o].session \in Recorded
      /\ pc[o] = "complete.write" => session[req[o].session].unit \in Units
  <2> SUFFICES ASSUME pc[o] \in {"step.write", "complete.write"}
               PROVE  req[o].session \in Recorded /\ session[req[o].session].unit \in Units
    OBVIOUS
  <2>1. req[o].session \in Running
    BY <1>1 DEF ChecksOf
  <2>2. req[o].session \in Recorded
    BY <2>1 DEF Running, Recorded
  <2> QED BY <1>1, <2>2, RowType
<1>5. pc[o] = "step.write" => req[o].step <= session'[req[o].session].total
  BY <1>1, <1>3, <1>4 DEF RemembersOf, SameSession
<1>6. ASSUME pc[o] = "complete.write", NEW r \in OtkResults(session[req[o].session].unit)'
      PROVE  session'[r].completed <= loc[o].now
  <2> DEFINE u == session[req[o].session].unit
  <2>1. session'[req[o].session].unit = u
    BY <1>3, <1>4, <1>6 DEF SameSession
  <2>2. Holds(o, KgRow(u), NoKeyUpdate)
    BY <1>1, <1>6 DEF LocksOf, CompletedKg
  <2>3. /\ r \in Recorded' /\ session'[r].unit = u /\ session'[r].kind = "otk_line"
        /\ session'[r].status \in {"passed", "failed"}
    <3>1. req'[o] = req[o]
      BY <1>1
    <3> QED BY <1>6, <2>1, <3>1 DEF OtkResults
  <2>4. r \in Recorded /\ SameSession(session'[r], session[r])
    BY <1>1, <2>3, NewRow DEF Opening
  <2>5. ~Closing(t, r)
    <3> SUFFICES ASSUME Closing(t, r) PROVE FALSE
      OBVIOUS
    <3>1. pc[t] = "complete.write" /\ r = req[t].session
      BY <2>3 DEF Closing
    <3>2. Holds(t, KgRow(u), NoKeyUpdate)
      BY <2>3, <2>4, <3>1 DEF HistoryInv, LineInv, LockInv, LocksOf, CompletedKg, SameSession
    <3>3. Conflict(NoKeyUpdate, NoKeyUpdate)
      BY DEF Conflict, NoKeyUpdate, KeyShare
    <3> QED BY <1>1, <2>2, <3>2, <3>3, Excluded
  <2>6. session'[r].status = session[r].status /\ session'[r].completed = session[r].completed
    BY <1>1, <2>4, <2>5 DEF Recording
  <2>7. r \in OtkResults(u)
    BY <2>3, <2>4, <2>6 DEF OtkResults, SameSession
  <2> QED BY <1>1, <1>6, <2>6, <2>7 DEF RemembersOf
<1>7. ASSUME pc[o] \in PakRead, NEW r \in Recorded', session'[r].pak = req[o].pak
      PROVE  session'[r].started <= loc[o].now
  <2>1. CASE r \in Recorded
    BY <1>1, <1>3, <1>7, <2>1 DEF RemembersOf, SameSession
  <2>2. CASE r \notin Recorded
    <3>1. r \in Sessions \ Recorded /\ session'[r] # session[r]
      BY <2>2 DEF Recorded
    <3>2. Holds(t, PakRow(req[o].pak), NoKeyUpdate)
      BY <1>7, <3>1 DEF GuardedWrites
    <3>3. Holds(o, PakRow(req[o].pak), NoKeyUpdate)
      BY <1>1, <1>7 DEF LocksOf
    <3>4. Conflict(NoKeyUpdate, NoKeyUpdate)
      BY DEF Conflict, NoKeyUpdate, KeyShare
    <3> QED BY <1>1, <3>2, <3>3, <3>4, Excluded
  <2> QED BY <2>1, <2>2
<1>8. ASSUME pc[o] = "open.sessions", NEW s \in loc[o].found \cup loc[o].running
      PROVE  /\ s \in Recorded'
             /\ \/ session'[s].unit = req[o].unit
                \/ session'[s].pak = req[o].pak /\ session'[s].slot = req[o].slot
  BY <1>1, <1>3, <1>8 DEF RemembersOf, SameSession, InPlace
<1>9. ASSUME pc[o] = "sweep.write", NEW s \in loc[o].running
      PROVE  clock' - session'[s].active >= SessionTtl
  <2>1. s \in Recorded /\ Holds(o, SessionRow(s), Update)
    BY <1>1 DEF LocksOf, ChecksOf, Running, Recorded
  <2>2. Conflict(Update, Update)
    BY DEF Conflict
  <2>3. session'[s] = session[s]
    BY <1>1, <2>1, <2>2, Excluded DEF GuardedWrites
  <2> QED BY <1>1, <1>9, <2>3 DEF RemembersOf
<1>10. RemembersOf(o)'
  <2>1. pc'[o] = "complete.write" =>
           \A r \in OtkResults(session[req[o].session].unit)' : session'[r].completed <= loc'[o].now
    BY <1>1, <1>6
  <2> QED BY <1>1, <1>5, <1>7, <1>8, <1>9, <2>1 DEF RemembersOf, InPlace
<1> QED BY <1>2, <1>10

(* A step that records what it should keeps the invariant. *)
LEMMA RecordsKeep ==
    ASSUME HistoryInv, NEW t \in Tx, Preserves(t), Records(t)
    PROVE  HistoryInv'
<1>1. LineInv' /\ GuardedWrites(t) /\ Recording(t) /\ RemembersOf(t)' /\ OrderOf(t)'
  BY DEF Preserves, Records
<1>2. StepsInv' /\ TimesInv' /\ RunningStartedLast' /\ OtkStatusIsLatestResult' /\ IdsBounded'
  BY <1>1, StepsKept, TimesKept, LastKept, OtkKept, IdsKept
<1>3. \A o \in Tx : RemembersOf(o)' /\ OrderOf(o)'
  BY <1>1, OthersRemember
<1> QED BY <1>1, <1>2, <1>3 DEF HistoryInv

----------------------------------------------------------------------------
(* Reading, locking, leaving and committing *)

LEMMA NothingNew ==
    ASSUME NEW t,
           \A s \in Recorded :
              /\ SameSession(session'[s], session[s]) /\ StepsOfRow(session'[s])
              /\ \/ session'[s].status = session[s].status
                       /\ session'[s].completed = session[s].completed
                 \/ Closing(t, s)
              /\ s \in Running /\ session'[s].status = "incomplete" => ReasonToClose(s),
           \A s \in Sessions \ Recorded : session'[s].status = "absent",
           \A u \in Units : kg'[u].otk # kg[u].otk =>
              \E s \in Running : /\ session[s].unit = u /\ session[s].kind = "otk_line"
                                 /\ session'[s].status \in {"passed", "failed"}
                                 /\ kg'[u].otk = session'[s].status
    PROVE  Recording(t)
<1>1. \E id \in Nat : \A s \in Sessions \ Recorded :
         session'[s].status = "absent" \/ (s = id /\ Opening(t, s))
  <2>1. 0 \in Nat /\ \A s \in Sessions \ Recorded :
           session'[s].status = "absent" \/ (s = 0 /\ Opening(t, s))
    OBVIOUS
  <2> QED BY <2>1
<1> QED BY <1>1 DEF Recording

LEMMA ReadRecords ==
    ASSUME HistoryInv, NEW t \in Tx, UNCHANGED db
    PROVE  Recording(t)
<1>1. session' = session /\ kg' = kg
  BY DEF db
<1>2. \A s \in Recorded : SameSession(session'[s], session[s]) /\ StepsOfRow(session'[s])
  BY <1>1 DEF SameSession, HistoryInv, StepsInv
<1>3. \A s \in Running : session'[s].status # "incomplete"
  BY <1>1 DEF Running
<1>4. \A s \in Sessions \ Recorded : session'[s].status = "absent"
  BY <1>1 DEF Recorded
<1> QED BY <1>1, <1>2, <1>3, <1>4, NothingNew

LEMMA AcquireRecords ==
    ASSUME HistoryInv, NEW t \in Tx, NEW r, NEW m, NEW l, NEW next, Acquire(t, r, m, l, next),
           l.now <= clock, RemembersOf(t)', OrderOf(t)'
    PROVE  Records(t)
<1>1. UNCHANGED db /\ clock' = clock
  BY DEF Acquire, db
<1>2. OthersWait(t) /\ loc'[t] = l
  BY DEF OthersWait, Acquire, Grant, HistoryInv, LineInv, TypeInv, TypeOK
<1> QED BY <1>1, <1>2, ReadRecords DEF Records

LEMMA EndRecords ==
    ASSUME HistoryInv, NEW t \in Tx, End(t), Recording(t)
    PROVE  Records(t)
<1>1. OthersWait(t) /\ clock' = clock
  BY EndReleases DEF End, HistoryInv
<1>2. /\ pc'[t] = "idle" /\ loc'[t] = NoLocals /\ held'[t] = {}
  BY DEF End, ReleaseAll, HistoryInv, LineInv, TypeInv, TypeOK
<1>3. loc'[t].now <= clock
  BY <1>2 DEF NoLocals, HistoryInv, LineInv, TypeInv, TypeOK
<1>4. RemembersOf(t)' /\ OrderOf(t)'
  BY <1>2 DEF RemembersOf, OrderOf, PakRead
<1> QED BY <1>1, <1>3, <1>4 DEF Records

LEMMA LeaveRecords ==
    ASSUME HistoryInv, NEW t \in Tx, Leave(t)
    PROVE  Records(t)
  BY ReadRecords, EndRecords DEF Leave

LEMMA BeginRecords ==
    ASSUME HistoryInv, NEW t \in Handlers, NEW r, NEW l, NEW first, Begin(t, r, l, first),
           l.now = 0,
           first \in {"open.batch", "step.session", "complete.kg", "pack.batch",
                      "archive.batch", "pak.row"}
    PROVE  Records(t)
<1>1. t \in Tx /\ OthersWait(t) /\ UNCHANGED db /\ clock' = clock
  BY DEF Begin, OthersWait, Tx, db, HistoryInv, LineInv, TypeInv, TypeOK
<1>2. /\ pc[t] = "idle" /\ pc'[t] = first /\ loc'[t] = l /\ held'[t] = held[t]
  BY DEF Begin, Tx, HistoryInv, LineInv, TypeInv, TypeOK
<1>3. held'[t] = {}
  BY <1>1, <1>2 DEF HistoryInv, OrderOf
<1>4. loc'[t].now <= clock
  BY <1>2 DEF HistoryInv, LineInv, TypeInv, TypeOK
<1>5. RemembersOf(t)' /\ OrderOf(t)'
  BY <1>2, <1>3 DEF RemembersOf, OrderOf, PakRead
<1> QED BY <1>1, <1>4, <1>5, ReadRecords DEF Records

(* A commit that writes one running session and keeps it running.           *)
LEMMA RefreshRecords ==
    ASSUME HistoryInv, NEW t \in Tx, End(t), kg' = kg, NEW s \in Running, NEW q,
           session' = [session EXCEPT ![s] = q], SameSession(q, session[s]), StepsOfRow(q),
           q.status = session[s].status, q.completed = session[s].completed
    PROVE  Records(t)
<1>1. s \in Recorded /\ s \in Sessions
  BY DEF Running, Recorded
<1>2. session'[s] = q /\ \A o \in Sessions \ {s} : session'[o] = session[o]
  BY <1>1 DEF HistoryInv, LineInv, TypeInv, TypeOK
<1>3. \A o \in Recorded : /\ SameSession(session'[o], session[o]) /\ StepsOfRow(session'[o])
                          /\ session'[o].status = session[o].status
                          /\ session'[o].completed = session[o].completed
  <2> SUFFICES ASSUME NEW o \in Recorded
               PROVE  /\ SameSession(session'[o], session[o]) /\ StepsOfRow(session'[o])
                      /\ session'[o].status = session[o].status
                      /\ session'[o].completed = session[o].completed
    OBVIOUS
  <2>1. CASE o = s
    BY <1>2, <2>1
  <2>2. CASE o # s
    BY <1>2, <2>2 DEF Recorded, SameSession, HistoryInv, StepsInv
  <2> QED BY <2>1, <2>2
<1>4. \A o \in Running : session'[o].status # "incomplete"
  BY <1>3 DEF Running, Recorded
<1>5. \A o \in Sessions \ Recorded : session'[o].status = "absent"
  BY <1>1, <1>2 DEF Recorded
<1>6. Recording(t)
  BY <1>3, <1>4, <1>5, NothingNew
<1> QED BY <1>6, EndRecords

(* A commit that closes the sessions S, in place, and opens none.           *)
LEMMA CloseRecords ==
    ASSUME HistoryInv, NEW t \in Tx, End(t), NEW S \in SUBSET Running, 
           \A s \in Sessions \ S : session'[s] = session[s],
           \A s \in S : /\ SameSession(session'[s], session[s]) /\ StepsOfRow(session'[s])
                        /\ Closing(t, s)
                        /\ session'[s].status = "incomplete" => ReasonToClose(s),
           \A u \in Units : kg'[u].otk # kg[u].otk =>
              \E s \in S : /\ session[s].unit = u /\ session[s].kind = "otk_line"
                           /\ session'[s].status \in {"passed", "failed"}
                           /\ kg'[u].otk = session'[s].status
    PROVE  Records(t)
<1>1. ASSUME NEW o \in Recorded
      PROVE  /\ SameSession(session'[o], session[o]) /\ StepsOfRow(session'[o])
             /\ \/ session'[o].status = session[o].status
                     /\ session'[o].completed = session[o].completed
                \/ Closing(t, o)
             /\ o \in Running /\ session'[o].status = "incomplete" => ReasonToClose(o)
  <2>1. CASE o \in S
    BY <2>1
  <2>2. CASE o \notin S
    <3>1. session'[o] = session[o]
      BY <2>2 DEF Recorded
    <3>2. o \in Running => session'[o].status # "incomplete"
      BY <3>1 DEF Running
    <3> QED BY <3>1, <3>2 DEF SameSession, HistoryInv, StepsInv
  <2> QED BY <2>1, <2>2
<1>2. \A o \in Sessions \ Recorded : session'[o].status = "absent"
  BY DEF Recorded, Running
<1>3. Recording(t)
  BY <1>1, <1>2, NothingNew
<1> QED BY <1>3, EndRecords

----------------------------------------------------------------------------
(* The operations *)

LEMMA GrantedOnly ==
    ASSUME NEW t, NEW r, NEW m, NEW R, NEW Q, held'[t] = held[t] \cup {<<r, m>>},
           \A l \in held[t] : l[1] \in R, R \subseteq Q, r \in Q
    PROVE  \A l \in held'[t] : l[1] \in Q
<1>1. <<r, m>>[1] = r
  OBVIOUS
<1> QED BY <1>1

LEMMA RequestRecords ==
    ASSUME HistoryInv, NEW t \in Handlers, Request(t)
    PROVE  Records(t)
<1>1. NoLocals.now = 0 /\ \A k : [NoLocals EXCEPT !.kind = k].now = 0
  BY DEF NoLocals
<1> QED BY <1>1, BeginRecords DEF Request, OpenSession, StartStep, CompleteStep,
             CompleteSession, Pack, SetArchived, EditPak

LEMMA InvFacts ==
    ASSUME HistoryInv, NEW t \in Tx
    PROVE  /\ LineInv /\ TypeInv /\ LocksOf(t) /\ ChecksOf(t) /\ RemembersOf(t) /\ OrderOf(t)
           /\ loc[t].now <= clock /\ loc[t] \in Locals /\ loc[t].now \in Nat /\ clock \in Nat
           /\ \A s \in Running : s \in Recorded
           /\ \A s \in Recorded : StepsOfRow(session[s])
<1>1. LineInv /\ TypeInv /\ LocksOf(t) /\ ChecksOf(t) /\ RemembersOf(t) /\ OrderOf(t)
  BY DEF HistoryInv, LineInv, LockInv
<1>2. loc[t].now <= clock /\ loc[t] \in Locals /\ loc[t].now \in Nat /\ clock \in Nat
  BY <1>1, LocalsType DEF HistoryInv, TimesInv, TypeInv, TypeOK
<1>3. \A s \in Running : s \in Recorded
  BY DEF Running, Recorded
<1> QED BY <1>1, <1>2, <1>3 DEF HistoryInv, StepsInv

LEMMA InsertRecords ==
    ASSUME HistoryInv, NEW t \in Tx, InsertSession(t), ~Leave(t)
    PROVE  Records(t)
<1>1. PICK id \in Sessions \ Recorded :
        session' = [CloseIncomplete(loc[t].running, loc[t].now) EXCEPT ![id] = NewSession(t)]
  BY DEF InsertSession
<1>2. /\ UNCHANGED <<archived, kg, pakKind>> /\ End(t) /\ pc[t] = "open.sessions"
      /\ \A s \in ByKg(t) : Idle(s, t)
  BY DEF InsertSession, OpenReady
<1>3. loc[t].running \subseteq Running /\ Running \subseteq Recorded /\ id \in Nat
  BY <1>1, InvFacts, DomainAssumption DEF ChecksOf
<1>4. \A s \in Sessions \ {id} :
         session'[s] = IF s \in loc[t].running THEN Incomplete(session[s], loc[t].now)
                                               ELSE session[s]
  BY <1>1 DEF CloseIncomplete
<1>5. session'[id] = NewSession(t)
  BY <1>1 DEF CloseIncomplete
<1>6. Opening(t, id)
  <2>1. StepsOfRow(NewSession(t))
    <3> DEFINE q == NewSession(t)
    <3>1. q.status = "running" /\ \A n \in StepNos : q.steps[n].status = "absent"
      BY DEF NewSession, NoStep
    <3> HIDE DEF q
    <3>2. StepsOfRow(q)
      BY <3>1 DEF StepsOfRow
    <3> QED BY <3>2 DEF q
  <2>2. /\ NewSession(t).status = "running" /\ NewSession(t).pak = req[t].pak
        /\ NewSession(t).started = loc[t].now /\ NewSession(t).completed = NoTime
    BY DEF NewSession
  <2> QED BY <1>2, <1>5, <2>1, <2>2 DEF Opening
<1>7. /\ session'[id].unit = req[t].unit /\ session'[id].pak = req[t].pak
      /\ session'[id].slot = req[t].slot /\ session'[id].status = "running"
  BY <1>5 DEF NewSession
<1>8. ASSUME NEW s \in loc[t].running
      PROVE  ReasonToClose(s)
  <2>1. s \in Running /\ s \in Recorded
    BY <1>3
  <2>2. session[s].active \in Nat /\ loc[t].now \in Nat /\ clock \in Nat /\ loc[t].now <= clock
    BY <2>1, RowType, InvFacts
  <2>3. CASE session[s].unit = req[t].unit
    <3>1. loc[t].now - session[s].active >= ReopenAfter
      BY <1>2, <2>3 DEF ByKg, Idle
    <3>2. clock - session[s].active >= ReopenAfter
      BY <2>2, <3>1, SettingsAssumption
    <3> QED BY <1>1, <1>7, <2>3, <3>2 DEF ReasonToClose
  <2>4. CASE session[s].unit # req[t].unit
    <3>1. InPlace(s, req[t].pak, req[t].slot)
      BY <1>2, <2>4, InvFacts DEF RemembersOf
    <3> QED BY <1>1, <1>7, <2>4, <3>1 DEF ReasonToClose
  <2> QED BY <2>3, <2>4
<1>9. ASSUME NEW s \in Recorded
      PROVE  /\ SameSession(session'[s], session[s]) /\ StepsOfRow(session'[s])
             /\ \/ session'[s].status = session[s].status
                     /\ session'[s].completed = session[s].completed
                \/ Closing(t, s)
             /\ s \in Running /\ session'[s].status = "incomplete" => ReasonToClose(s)
  <2>1. s \in Sessions /\ s # id /\ session[s] \in SessionRecords /\ StepsOfRow(session[s])
    BY <1>1, RowType, InvFacts
  <2>2. CASE s \in loc[t].running
    <3>1. session'[s] = Incomplete(session[s], loc[t].now)
      BY <1>4, <2>1, <2>2
    <3>2. /\ SameSession(session'[s], session[s]) /\ StepsOfRow(session'[s])
          /\ session'[s].status = "incomplete" /\ session'[s].completed = loc[t].now
      BY <2>1, <3>1, InvFacts, IncompleteFields, IncompleteSteps
    <3>3. Closing(t, s)
      BY <1>3, <2>2, <3>2 DEF Closing
    <3> QED BY <1>8, <2>2, <3>2, <3>3
  <2>3. CASE s \notin loc[t].running
    <3>1. session'[s] = session[s]
      BY <1>4, <2>1, <2>3
    <3>2. s \in Running => session'[s].status # "incomplete"
      BY <3>1 DEF Running
    <3> QED BY <2>1, <3>1, <3>2 DEF SameSession
  <2> QED BY <2>2, <2>3
<1>10. \A s \in Sessions \ Recorded :
          session'[s].status = "absent" \/ (s = id /\ Opening(t, s))
  <2> SUFFICES ASSUME NEW s \in Sessions \ Recorded, s # id
               PROVE  session'[s].status = "absent"
    BY <1>6
  <2>1. session'[s] = session[s]
    BY <1>3, <1>4
  <2> QED BY <2>1 DEF Recorded
<1>11. \A u \in Units : kg'[u].otk = kg[u].otk
  BY <1>2
<1>12. Recording(t)
  BY <1>3, <1>9, <1>10, <1>11 DEF Recording
<1> QED BY <1>2, <1>12, EndRecords

LEMMA RowKinds ==
    /\ \A x \in BatchRows : x[1] = "batch"
    /\ \A x \in KgRows : x[1] = "kg_unit"
    /\ \A x \in PakRows : x[1] = "pak"
    /\ \A s : SessionRow(s)[1] = "session" /\ SessionRow(s)[2] = s
BY DEF BatchRows, KgRows, PakRows, BatchRow, KgRow, PakRow, SessionRow

LEMMA OpenRecords ==
    ASSUME HistoryInv, NEW t \in Tx, Open(t)
    PROVE  Records(t)
<1>1. LineInv /\ TypeInv
  BY InvFacts
<1>2. req[t] \in Opens
  BY <1>1 DEF Open, LockOpenBatch, LockOpenKg, LockOpenPak, FindRunningSessions,
              LockRunningSession, ResumeSession, RefuseRunning, InsertSession, OpenReady,
              TypeInv, RequestsFit, RequestOf, OpenLabels
<1>3. /\ BatchRow(BatchOf[req[t].unit]) \in BatchRows /\ KgRow(req[t].unit) \in KgRows
      /\ PakRow(req[t].pak) \in PakRows
  BY <1>2, DomainAssumption DEF Opens, BatchRows, KgRows, PakRows
<1>4. CASE LockOpenBatch(t)
  <2> DEFINE r == BatchRow(BatchOf[req[t].unit])
  <2>1. pc[t] = "open.batch" /\ Acquire(t, r, Share, loc[t], "open.kg")
    BY <1>4 DEF LockOpenBatch, OpenBatchMode
  <2>2. pc'[t] = "open.kg" /\ held'[t] = held[t] \cup {<<r, Share>>} /\ held[t] = {}
    <3>1. OrderOf(t)
      BY InvFacts
    <3> QED BY <1>1, <2>1, <3>1, AcquireFacts DEF OrderOf
  <2>3. \A l \in held'[t] : l[1] \in BatchRows
    BY <1>3, <2>2
  <2>4. RemembersOf(t)' /\ OrderOf(t)'
    BY <2>2, <2>3 DEF RemembersOf, OrderOf, HoldsOnly, PakRead
  <2> QED BY <2>1, <2>4, InvFacts, AcquireRecords
<1>5. CASE LockOpenKg(t) /\ ~Leave(t)
  <2> DEFINE r == KgRow(req[t].unit)
  <2>1. pc[t] = "open.kg" /\ Acquire(t, r, NoKeyUpdate, loc[t], "open.pak")
    BY <1>5 DEF LockOpenKg, OpenKgMode
  <2>2. pc'[t] = "open.pak" /\ held'[t] = held[t] \cup {<<r, NoKeyUpdate>>}
        /\ HoldsOnly(t, BatchRows)
    <3>1. OrderOf(t)
      BY InvFacts
    <3> QED BY <1>1, <2>1, <3>1, AcquireFacts DEF OrderOf
  <2>3. \A l \in held'[t] : l[1] \in BatchRows \cup KgRows
    <3>1. BatchRows \subseteq BatchRows \cup KgRows /\ r \in BatchRows \cup KgRows
      BY <1>3
    <3> QED BY <2>2, <3>1, GrantedOnly DEF HoldsOnly
  <2>4. RemembersOf(t)' /\ OrderOf(t)'
    BY <2>2, <2>3 DEF RemembersOf, OrderOf, HoldsOnly, PakRead
  <2> QED BY <2>1, <2>4, InvFacts, AcquireRecords
<1>6. CASE LockOpenPak(t)
  <2> DEFINE r == PakRow(req[t].pak)
             l == [loc[t] EXCEPT !.now = clock]
  <2>1. pc[t] = "open.pak" /\ Acquire(t, r, NoKeyUpdate, l, "open.find")
    BY <1>6 DEF LockOpenPak, OpenPakMode
  <2>2. l.now = clock /\ clock \in Nat
    BY InvFacts DEF Locals
  <2> HIDE DEF l
  <2>3. pc'[t] = "open.find" /\ held'[t] = held[t] \cup {<<r, NoKeyUpdate>>}
        /\ HoldsOnly(t, BatchRows \cup KgRows) /\ loc'[t] = l /\ req' = req /\ session' = session
    <3>1. OrderOf(t)
      BY InvFacts
    <3> QED BY <1>1, <2>1, <3>1, AcquireFacts DEF OrderOf, db
  <2>4. \A x \in held'[t] : x[1] \in BatchRows \cup KgRows \cup PakRows
    <3>1. BatchRows \cup KgRows \subseteq BatchRows \cup KgRows \cup PakRows
          /\ r \in BatchRows \cup KgRows \cup PakRows
      BY <1>3
    <3> QED BY <2>3, <3>1, GrantedOnly DEF HoldsOnly
  <2>5. OrderOf(t)'
    BY <2>3, <2>4 DEF OrderOf, HoldsOnly
  <2>6. \A s \in Recorded' : session'[s].started <= loc'[t].now
    BY <2>2, <2>3 DEF HistoryInv, TimesInv, Recorded
  <2>7. RemembersOf(t)'
    BY <2>3, <2>6 DEF RemembersOf, PakRead
  <2> QED BY <2>1, <2>2, <2>5, <2>7, AcquireRecords
<1>7. CASE FindRunningSessions(t)
  <2> DEFINE found == {s \in Running : session[s].unit = req[t].unit
                                        \/ InPlace(s, req[t].pak, req[t].slot)}
  <2>1. /\ pc[t] = "open.find" /\ pc' = [pc EXCEPT ![t] = "open.sessions"]
        /\ loc' = [loc EXCEPT ![t].found = found]
        /\ UNCHANGED db /\ UNCHANGED <<req, clock, session>> /\ held' = held
    BY <1>7 DEF FindRunningSessions, db
  <2>2. OthersWait(t)
    BY <1>1, <2>1 DEF OthersWait, TypeInv, TypeOK
  <2>3. /\ pc'[t] = "open.sessions" /\ loc'[t].found = found
        /\ loc'[t].running = loc[t].running /\ loc'[t].now = loc[t].now
    <3>1. loc[t] \in Locals
      BY InvFacts
    <3>2. loc'[t] = [loc[t] EXCEPT !.found = found]
      BY <1>1, <2>1 DEF TypeInv, TypeOK
    <3> QED BY <1>1, <2>1, <3>1, <3>2 DEF Locals, TypeInv, TypeOK
  <2>4. HoldsOnly(t, BatchRows \cup KgRows \cup PakRows)
    BY <2>1, InvFacts DEF OrderOf
  <2>5. loc[t].running = {}
    <3> SUFFICES ASSUME NEW s \in loc[t].running PROVE FALSE
      OBVIOUS
    <3>1. <<SessionRow(s), Update>> \in held[t]
      BY InvFacts DEF LocksOf, Holds
    <3>2. <<SessionRow(s), Update>>[1] = SessionRow(s)
      OBVIOUS
    <3>3. SessionRow(s) \in BatchRows \cup KgRows \cup PakRows
      BY <2>4, <3>1, <3>2 DEF HoldsOnly
    <3> QED BY <3>3, RowKinds
  <2>6. OrderOf(t)'
    BY <2>1, <2>3, <2>4 DEF OrderOf, HoldsOnly
  <2>7. \A s \in Recorded : session[s].pak = req[t].pak => session[s].started <= loc[t].now
    BY <2>1, InvFacts DEF RemembersOf, PakRead
  <2>8. \A s \in found : /\ s \in Recorded
                         /\ session[s].unit = req[t].unit \/ InPlace(s, req[t].pak, req[t].slot)
    BY InvFacts
  <2> HIDE DEF found
  <2>9. RemembersOf(t)'
    BY <2>1, <2>3, <2>5, <2>7, <2>8 DEF RemembersOf, PakRead, Recorded, InPlace
  <2> QED BY <2>1, <2>2, <2>3, <2>6, <2>9, ReadRecords, InvFacts DEF Records
<1>8. CASE LockRunningSession(t)
  <2>1. PICK s \in NextToLock(t) :
          /\ pc[t] = "open.sessions"
          /\ Acquire(t, SessionRow(s), Update,
                   IF s \in Running THEN [[loc[t] EXCEPT !.found = @ \ {s}]
                                            EXCEPT !.running = @ \cup {s}]
                                    ELSE [loc[t] EXCEPT !.found = @ \ {s}],
                   "open.sessions")
    BY <1>8 DEF LockRunningSession
  <2> DEFINE l == IF s \in Running THEN [[loc[t] EXCEPT !.found = @ \ {s}]
                                           EXCEPT !.running = @ \cup {s}]
                                   ELSE [loc[t] EXCEPT !.found = @ \ {s}]
  <2>2. /\ l.found = loc[t].found \ {s} /\ l.now = loc[t].now
        /\ l.running \subseteq loc[t].running \cup {s}
    BY InvFacts DEF Locals
  <2>3. Acquire(t, SessionRow(s), Update, l, "open.sessions")
    BY <2>1
  <2> HIDE DEF l
  <2>4. /\ pc'[t] = "open.sessions" /\ loc'[t] = l /\ req' = req /\ session' = session
        /\ held'[t] = held[t] \cup {<<SessionRow(s), Update>>}
    BY <1>1, <2>3, AcquireFacts DEF db
  <2>5. s \in loc[t].found /\ \A f \in loc[t].found : s <= f
    BY <2>1 DEF NextToLock
  <2>6. loc[t].found \subseteq Sessions /\ loc[t].found \subseteq Nat
    BY <1>1, LocalsType, DomainAssumption
  <2>7. RemembersOf(t)'
    <3>1. \A o \in l.found \cup l.running :
             /\ o \in Recorded
             /\ session[o].unit = req[t].unit \/ InPlace(o, req[t].pak, req[t].slot)
      BY <2>1, <2>2, <2>5, InvFacts DEF RemembersOf
    <3>2. \A o \in Recorded : session[o].pak = req[t].pak => session[o].started <= l.now
      BY <2>1, <2>2, InvFacts DEF RemembersOf, PakRead
    <3> QED BY <2>4, <3>1, <3>2 DEF RemembersOf, PakRead, Recorded, InPlace
  <2>8. OrderOf(t)'
    <3> DEFINE Below(F) == {SessionRow(x) : x \in {y \in Sessions : \A f \in F : y < f}}
               Others == BatchRows \cup KgRows \cup PakRows
    <3>1. HoldsOnly(t, Others \cup Below(loc[t].found))
      BY <2>1, InvFacts DEF OrderOf
    <3>2. Below(loc[t].found) \subseteq Below(l.found)
      BY <2>2
    <3>3. \A f \in l.found : s < f
      BY <2>2, <2>5, <2>6
    <3>4. SessionRow(s) \in Below(l.found)
      BY <2>5, <2>6, <3>3
    <3> HIDE DEF Below, Others
    <3>5. /\ Others \cup Below(loc[t].found) \subseteq Others \cup Below(l.found)
          /\ SessionRow(s) \in Others \cup Below(l.found)
      BY <3>2, <3>4
    <3>6. \A x \in held'[t] : x[1] \in Others \cup Below(l.found)
      BY <2>4, <3>1, <3>5, GrantedOnly DEF HoldsOnly
    <3>7. loc'[t].found = l.found
      BY <2>4
    <3> QED BY <2>4, <3>6, <3>7 DEF OrderOf, HoldsOnly, Below, Others
  <2> QED BY <2>2, <2>3, <2>7, <2>8, InvFacts, AcquireRecords
<1>9. CASE ResumeSession(t)
  <2>1. PICK s \in ByKg(t) : session' = [session EXCEPT ![s].active = loc[t].now]
    BY <1>9 DEF ResumeSession
  <2>2. s \in Running /\ s \in Recorded
    BY InvFacts DEF ByKg, ChecksOf
  <2>3. session[s] \in SessionRecords /\ StepsOfRow(session[s])
    BY <1>1, <2>2, RowType, InvFacts
  <2> DEFINE q == [session[s] EXCEPT !.active = loc[t].now]
  <2>4. /\ SameSession(q, session[s]) /\ q.status = session[s].status
        /\ q.completed = session[s].completed /\ q.steps = session[s].steps
        /\ q.total = session[s].total
    BY <2>3 DEF SessionRecords, SameSession
  <2>5. session' = [session EXCEPT ![s] = q]
    BY <1>1, <2>1, <2>2, RowType DEF TypeInv, TypeOK
  <2> HIDE DEF q
  <2>6. StepsOfRow(q)
    BY <2>3, <2>4 DEF StepsOfRow
  <2>7. kg' = kg /\ End(t)
    BY <1>9 DEF ResumeSession
  <2> QED BY <2>2, <2>4, <2>5, <2>6, <2>7, RefreshRecords
<1>10. CASE RefuseRunning(t)
  BY <1>10, LeaveRecords DEF RefuseRunning
<1>11. CASE InsertSession(t) /\ ~Leave(t)
  BY <1>11, InsertRecords
<1>12. CASE Leave(t)
  BY <1>12, LeaveRecords
<1> QED BY <1>4, <1>5, <1>6, <1>7, <1>8, <1>9, <1>10, <1>11, <1>12 DEF Open

LEMMA StepRecords ==
    ASSUME HistoryInv, NEW t \in Tx, Step(t)
    PROVE  Records(t)
<1>1. LineInv /\ TypeInv
  BY InvFacts
<1> DEFINE s == req[t].session
           n == req[t].step
<1>2. /\ req[t] \in Starts \cup Reports /\ session[s] \in SessionRecords
  BY <1>1 DEF Step, LockStepSession, WriteStart, WriteReport, TypeInv, RequestsFit, RequestOf,
              StepLabels
<1>3. s \in Sessions /\ n \in StepNos
  BY <1>2 DEF Starts, Reports
<1>4. CASE LockStepSession(t) /\ ~Leave(t)
  <2> DEFINE l == [loc[t] EXCEPT !.now = clock]
  <2>1. /\ Reportable(s, req[t].pak, n)
        /\ Acquire(t, SessionRow(s), Update, l, "step.write")
    BY <1>4 DEF LockStepSession, StepMode
  <2>2. l.now = clock /\ clock \in Nat
    BY InvFacts DEF Locals
  <2> HIDE DEF l
  <2>3. pc'[t] = "step.write" /\ req' = req /\ session' = session
    BY <1>1, <2>1, AcquireFacts DEF db
  <2>4. RemembersOf(t)' /\ OrderOf(t)'
    BY <2>1, <2>3 DEF RemembersOf, OrderOf, PakRead, Reportable
  <2> QED BY <2>1, <2>2, <2>4, AcquireRecords
<1>5. ASSUME NEW step \in Steps, SaveStep(t, step), pc[t] = "step.write",
             step.status = "running" =>
                \A k \in StepNos \ {n} : session[s].steps[k].status # "running"
      PROVE  Records(t)
  <2> DEFINE q == [session[s] EXCEPT !.active = loc[t].now, !.steps[n] = step]
  <2>1. s \in Running /\ n <= session[s].total
    BY <1>5, InvFacts DEF ChecksOf, RemembersOf
  <2>2. session[s].status = "running" /\ StepsOfRow(session[s]) /\ loc[t].now \in Nat
    BY <2>1, InvFacts DEF Running
  <2>3. SameSession(q, session[s]) /\ q.status = session[s].status
        /\ q.completed = session[s].completed
    BY <1>2, <1>3 DEF SessionRecords, SameSession
  <2>4. StepsOfRow(q)
    BY <1>2, <1>3, <1>5, <2>1, <2>2, ReportSteps
  <2>5. session' = [session EXCEPT ![s] = q] /\ kg' = kg /\ End(t)
    BY <1>1, <1>3, <1>5 DEF SaveStep, TypeInv, TypeOK
  <2> HIDE DEF q, s
  <2> QED BY <2>1, <2>3, <2>4, <2>5, RefreshRecords
<1>6. StepOf(t) = session[s].steps[n] /\ StepOf(t) \in Steps \cup {NoStep}
  BY <1>2, <1>3, StepOfRow DEF StepOf
<1>7. StepOf(t).status # "absent" => StepOf(t) \in Steps
  BY <1>6 DEF NoStep
<1>8. pc[t] = "step.write" => StepsOfRow(session[s])
  <2> SUFFICES ASSUME pc[t] = "step.write" PROVE StepsOfRow(session[s])
    OBVIOUS
  <2>1. s \in Recorded
    BY InvFacts DEF ChecksOf
  <2> QED BY <2>1, InvFacts
<1>9. ASSUME pc[t] = "step.write", StepOf(t).status = "running"
      PROVE  \A k \in StepNos \ {n} : session[s].steps[k].status # "running"
  BY <1>3, <1>6, <1>8, <1>9 DEF StepsOfRow
<1>10. CASE WriteStart(t) /\ ~Leave(t)
  <2>1. pc[t] = "step.write" /\ req[t].op = "start"
    BY <1>10 DEF WriteStart
  <2>2. CASE StepOf(t).status # "absent" /\ SaveStep(t, StepOf(t))
    BY <1>5, <1>7, <1>9, <2>1, <2>2
  <2>3. CASE RunningSteps(s) = {} /\ SaveStep(t, [check |-> req[t].check, status |-> "running"])
    <3>1. [check |-> req[t].check, status |-> "running"] \in Steps
      BY <1>2, <2>1 DEF Starts, Reports, Steps, StepStatuses
    <3>2. \A k \in StepNos \ {n} : session[s].steps[k].status # "running"
      BY <2>3 DEF RunningSteps
    <3> QED BY <1>5, <2>1, <2>3, <3>1, <3>2
  <2> QED BY <1>10, <2>2, <2>3 DEF WriteStart
<1>11. CASE WriteReport(t) /\ ~Leave(t)
  <2> DEFINE x == [StepOf(t) EXCEPT !.status = req[t].result]
  <2>1. pc[t] = "step.write" /\ req[t].op = "report"
        /\ StepOf(t).status \in {"running", req[t].result} /\ SaveStep(t, x)
    BY <1>11 DEF WriteReport
  <2>2. req[t].result \in StepResults
    BY <1>2, <2>1 DEF Starts, Reports
  <2>3. StepOf(t) \in Steps
    BY <1>7, <2>1, <2>2 DEF StepResults
  <2>4. x \in Steps /\ x.status # "running"
    BY <2>2, <2>3 DEF Steps, StepStatuses, StepResults, Finished, Results
  <2> HIDE DEF x
  <2> QED BY <1>5, <2>1, <2>4
<1>12. CASE Leave(t)
  BY <1>12, LeaveRecords
<1> QED BY <1>4, <1>10, <1>11, <1>12 DEF Step

LEMMA FinishRecords ==
    ASSUME HistoryInv, NEW t \in Tx, Finish(t)
    PROVE  Records(t)
<1>1. LineInv /\ TypeInv
  BY InvFacts
<1> DEFINE s == req[t].session
           x == req[t].result
<1>2. req[t] \in Completes /\ session[s] \in SessionRecords
  BY <1>1 DEF Finish, LockCompletedKg, LockCompletedSession, WriteCompletion,
              TypeInv, RequestsFit, RequestOf, CompleteLabels
<1>3. s \in Sessions /\ x \in Results /\ session[s].unit \in Units
  BY <1>2 DEF Completes, SessionRecords
<1>4. CASE LockCompletedKg(t)
  <2> DEFINE r == KgRow(session[s].unit)
  <2>1. pc[t] = "complete.kg" /\ Acquire(t, r, NoKeyUpdate, loc[t], "complete.session")
    BY <1>4 DEF LockCompletedKg, CompleteKgMode
  <2>2. pc'[t] = "complete.session" /\ held'[t] = held[t] \cup {<<r, NoKeyUpdate>>} /\ held[t] = {}
    <3>1. OrderOf(t)
      BY InvFacts
    <3> QED BY <1>1, <2>1, <3>1, AcquireFacts DEF OrderOf
  <2>3. \A l \in held'[t] : l[1] \in KgRows
    BY <1>3, <2>2 DEF KgRows
  <2>4. RemembersOf(t)' /\ OrderOf(t)'
    BY <2>2, <2>3 DEF RemembersOf, OrderOf, HoldsOnly, PakRead
  <2> QED BY <2>1, <2>4, InvFacts, AcquireRecords
<1>5. CASE LockCompletedSession(t) /\ ~Leave(t)
  <2> DEFINE l == [loc[t] EXCEPT !.now = clock]
  <2>1. Acquire(t, SessionRow(s), Update, l, "complete.write")
    BY <1>5 DEF LockCompletedSession, CompleteSessionMode
  <2>2. l.now = clock /\ clock \in Nat
    BY InvFacts DEF Locals
  <2> HIDE DEF l
  <2>3. pc'[t] = "complete.write" /\ loc'[t] = l /\ req' = req /\ session' = session
    BY <1>1, <2>1, AcquireFacts DEF db
  <2>4. \A r \in OtkResults(session[req[t].session].unit)' : session'[r].completed <= loc'[t].now
    <3> SUFFICES ASSUME NEW r \in OtkResults(session[req[t].session].unit)'
                 PROVE  session'[r].completed <= loc'[t].now
      OBVIOUS
    <3>1. r \in Recorded
      BY <2>3 DEF OtkResults, Recorded
    <3> QED BY <2>2, <2>3, <3>1 DEF HistoryInv, TimesInv
  <2>5. RemembersOf(t)' /\ OrderOf(t)'
    BY <2>3, <2>4 DEF RemembersOf, OrderOf, PakRead
  <2> QED BY <2>1, <2>2, <2>5, AcquireRecords
<1>6. CASE WriteCompletion(t) /\ ~Leave(t)
  <2>1. /\ pc[t] = "complete.write" /\ End(t) /\ Completable(s, x)
        /\ session' = [session EXCEPT ![s] = Complete(@, x, loc[t].now)]
        /\ kg' = IF SetsOtk(s, x) THEN [kg EXCEPT ![session[s].unit].otk = x] ELSE kg
    BY <1>6 DEF WriteCompletion
  <2>2. s \in Running /\ StepsOfRow(session[s]) /\ loc[t].now \in Nat
    BY <2>1, InvFacts DEF ChecksOf
  <2>3. /\ \A o \in Sessions \ {s} : session'[o] = session[o]
        /\ session'[s] = Complete(session[s], x, loc[t].now)
    BY <1>1, <1>3, <2>1 DEF TypeInv, TypeOK
  <2>4. /\ SameSession(session'[s], session[s]) /\ session'[s].status = x
        /\ session'[s].completed = loc[t].now
    BY <1>2, <1>3, <2>2, <2>3, CompleteFields
  <2>5. StepsOfRow(session'[s])
    <3>1. /\ {k \in StepNos : session[s].steps[k].status = "running"} # {} => x = "aborted"
          /\ x = "passed" =>
                Cardinality({k \in StepNos : session[s].steps[k].status = "passed"}) = session[s].total
      BY <2>1 DEF Completable, RunningSteps, PassedSteps
    <3> QED BY <1>2, <1>3, <2>2, <2>3, <3>1, CompleteSteps
  <2>6. session[s].kind = "otk_line" /\ x \in {"passed", "failed"} =>
           kg'[session[s].unit].otk = x
    BY <1>1, <1>3, <2>1 DEF SetsOtk, TypeInv, TypeOK, Kgs
  <2>7. Closing(t, s) /\ session'[s].status # "incomplete"
    BY <1>3, <2>1, <2>2, <2>4, <2>6 DEF Closing, Results
  <2>8. \A u \in Units : kg'[u].otk # kg[u].otk =>
           /\ session[s].unit = u /\ session[s].kind = "otk_line"
           /\ x \in {"passed", "failed"} /\ kg'[u].otk = x
    BY <1>1, <1>3, <2>1 DEF SetsOtk, TypeInv, TypeOK, Kgs
  <2>9. {s} \in SUBSET Running /\ \A o \in Sessions \ {s} : session'[o] = session[o]
    BY <2>2, <2>3
  <2>10. \A o \in {s} : /\ SameSession(session'[o], session[o]) /\ StepsOfRow(session'[o])
                        /\ Closing(t, o)
                        /\ session'[o].status = "incomplete" => ReasonToClose(o)
    BY <2>4, <2>5, <2>7
  <2>11. \A u \in Units : kg'[u].otk # kg[u].otk =>
            \E o \in {s} : /\ session[o].unit = u /\ session[o].kind = "otk_line"
                           /\ session'[o].status \in {"passed", "failed"}
                           /\ kg'[u].otk = session'[o].status
    BY <2>4, <2>8
  <2> HIDE DEF s
  <2> QED BY <2>1, <2>9, <2>10, <2>11, CloseRecords
<1>7. CASE Leave(t)
  BY <1>7, LeaveRecords
<1> QED BY <1>4, <1>5, <1>6, <1>7 DEF Finish

(* Packing, archiving and the change of a PAK write no session. *)
LEMMA OtherRowsRecords ==
    ASSUME HistoryInv, NEW t \in Tx, End(t), session' = session,
           \A u \in Units : kg'[u].otk = kg[u].otk
    PROVE  Records(t)
<1>1. \A s \in Running : session'[s].status # "incomplete"
  BY DEF Running
<1>2. \A s \in Recorded : SameSession(session'[s], session[s]) /\ StepsOfRow(session'[s])
  BY DEF SameSession, HistoryInv, StepsInv
<1>3. \A s \in Sessions \ Recorded : session'[s].status = "absent"
  BY DEF Recorded
<1>4. Recording(t)
  BY <1>1, <1>2, <1>3, NothingNew
<1> QED BY <1>4, EndRecords

LEMMA PackingRecords ==
    ASSUME HistoryInv, NEW t \in Tx, Packing(t)
    PROVE  Records(t)
<1>1. LineInv /\ TypeInv
  BY InvFacts
<1>2. req[t] \in Packs
  BY <1>1 DEF Packing, LockPackBatch, LockPackKg, FindBlocker, WritePacked,
              TypeInv, RequestsFit, RequestOf, PackLabels
<1>3. CASE LockPackBatch(t)
  <2> DEFINE r == BatchRow(BatchOf[req[t].unit])
  <2>1. pc[t] = "pack.batch" /\ Acquire(t, r, Share, loc[t], "pack.kg")
    BY <1>3 DEF LockPackBatch, PackBatchMode
  <2>2. pc'[t] = "pack.kg" /\ held'[t] = held[t] \cup {<<r, Share>>} /\ held[t] = {}
    <3>1. OrderOf(t)
      BY InvFacts
    <3> QED BY <1>1, <2>1, <3>1, AcquireFacts DEF OrderOf
  <2>3. \A l \in held'[t] : l[1] \in BatchRows
    BY <1>2, <2>2, DomainAssumption DEF Packs, BatchRows
  <2>4. RemembersOf(t)' /\ OrderOf(t)'
    BY <2>2, <2>3 DEF RemembersOf, OrderOf, HoldsOnly, PakRead
  <2> QED BY <2>1, <2>4, InvFacts, AcquireRecords
<1>4. CASE LockPackKg(t)
  <2>1. Acquire(t, KgRow(req[t].unit), Update, loc[t], "pack.check")
    BY <1>4 DEF LockPackKg, PackKgMode
  <2>2. pc'[t] = "pack.check"
    BY <1>1, <2>1, AcquireFacts
  <2>3. RemembersOf(t)' /\ OrderOf(t)'
    BY <2>2 DEF RemembersOf, OrderOf, PakRead
  <2> QED BY <2>1, <2>3, InvFacts, AcquireRecords
<1>5. CASE FindBlocker(t) /\ ~Leave(t)
  <2>1. /\ pc' = [pc EXCEPT ![t] = "pack.write"]
        /\ UNCHANGED <<archived, kg, pakKind, session, clock, req, loc, held>>
    BY <1>5 DEF FindBlocker
  <2>2. OthersWait(t) /\ pc'[t] = "pack.write" /\ loc'[t] = loc[t] /\ UNCHANGED db /\ clock' = clock
    BY <1>1, <2>1 DEF OthersWait, TypeInv, TypeOK, db
  <2>3. RemembersOf(t)' /\ OrderOf(t)'
    BY <2>2 DEF RemembersOf, OrderOf, PakRead
  <2> QED BY <2>2, <2>3, InvFacts, ReadRecords DEF Records
<1>6. CASE WritePacked(t)
  <2>1. session' = session /\ End(t) /\ \A u \in Units : kg'[u].otk = kg[u].otk
    BY <1>1, <1>6 DEF WritePacked, TypeInv, TypeOK, Kgs
  <2> QED BY <2>1, OtherRowsRecords
<1>7. CASE Leave(t)
  BY <1>7, LeaveRecords
<1> QED BY <1>3, <1>4, <1>5, <1>6, <1>7 DEF Packing

LEMMA EditRecords ==
    ASSUME HistoryInv, NEW t \in Tx, Archive(t) \/ PakEdit(t)
    PROVE  Records(t)
<1>1. LineInv /\ TypeInv
  BY InvFacts
<1>2. CASE LockArchivedBatch(t)
  <2>1. Acquire(t, BatchRow(req[t].batch), Update, loc[t], "archive.write")
    BY <1>2 DEF LockArchivedBatch, ArchiveMode
  <2>2. pc'[t] = "archive.write"
    BY <1>1, <2>1, AcquireFacts
  <2>3. RemembersOf(t)' /\ OrderOf(t)'
    BY <2>2 DEF RemembersOf, OrderOf, PakRead
  <2> QED BY <2>1, <2>3, InvFacts, AcquireRecords
<1>3. CASE LockEditedPak(t)
  <2>1. Acquire(t, PakRow(req[t].pak), Update, loc[t], "pak.write")
    BY <1>3 DEF LockEditedPak
  <2>2. pc'[t] = "pak.write"
    BY <1>1, <2>1, AcquireFacts
  <2>3. RemembersOf(t)' /\ OrderOf(t)'
    BY <2>2 DEF RemembersOf, OrderOf, PakRead
  <2> QED BY <2>1, <2>3, InvFacts, AcquireRecords
<1>4. CASE WriteArchived(t) \/ WritePak(t)
  BY <1>4, OtherRowsRecords DEF WriteArchived, WritePak
<1> QED BY <1>2, <1>3, <1>4 DEF Archive, PakEdit

LEMMA SweepRecords ==
    ASSUME HistoryInv, NEW j \in Tx, ExpireStale(j) \/ CloseStale(j)
    PROVE  Records(j)
<1>1. LineInv /\ TypeInv
  BY InvFacts
<1>2. CASE ExpireStale(j)
  <2> DEFINE free == {s \in Stale : Grantable(held, j, SessionRow(s), Update)}
  <2>1. PICK S \in SUBSET free :
           /\ held' = [held EXCEPT ![j] = {<<SessionRow(s), Update>> : s \in S}]
           /\ loc' = [loc EXCEPT ![j] = [@ EXCEPT !.now = clock, !.running = S]]
    BY <1>2 DEF ExpireStale
  <2>2. \A s \in S : s \in Running /\ session[s].active <= clock - SessionTtl
    BY DEF Stale
  <2> HIDE DEF free
  <2>3. /\ pc' = [pc EXCEPT ![j] = "sweep.write"]
        /\ UNCHANGED <<archived, kg, pakKind, session, clock, req>>
    BY <1>2 DEF ExpireStale
  <2>4. loc[j] \in Locals /\ clock \in Nat
    BY InvFacts
  <2>5. loc'[j] = [loc[j] EXCEPT !.now = clock, !.running = S]
    BY <1>1, <2>1 DEF TypeInv, TypeOK
  <2>6. pc'[j] = "sweep.write" /\ loc'[j].running = S /\ loc'[j].now = clock
    BY <1>1, <2>3, <2>4, <2>5 DEF TypeInv, TypeOK, Locals
  <2>7. OthersWait(j) /\ UNCHANGED db
    BY <1>1, <2>1, <2>3 DEF OthersWait, db, TypeInv, TypeOK
  <2>8. \A s \in S : clock - session[s].active >= SessionTtl
    <3> SUFFICES ASSUME NEW s \in S PROVE clock - session[s].active >= SessionTtl
      OBVIOUS
    <3>1. session[s].active \in Nat
      BY <1>1, <2>2, InvFacts, RowType
    <3> QED BY <2>2, <2>4, <3>1, SettingsAssumption
  <2>9. RemembersOf(j)' /\ OrderOf(j)'
    BY <2>3, <2>6, <2>8 DEF RemembersOf, OrderOf, PakRead
  <2> QED BY <2>3, <2>4, <2>6, <2>7, <2>9, ReadRecords DEF Records
<1>3. CASE CloseStale(j)
  <2> DEFINE S == loc[j].running
  <2>1. /\ session' = CloseIncomplete(S, loc[j].now) /\ kg' = kg /\ End(j)
        /\ pc[j] = "sweep.write"
    BY <1>3 DEF CloseStale
  <2>2. S \in SUBSET Running /\ loc[j].now \in Nat /\ clock \in Nat
        /\ \A s \in S : clock - session[s].active >= SessionTtl
    BY <2>1, InvFacts DEF ChecksOf, RemembersOf
  <2>3. /\ \A s \in Sessions \ S : session'[s] = session[s]
        /\ \A s \in S : session'[s] = Incomplete(session[s], loc[j].now)
    BY <2>1, <2>2 DEF CloseIncomplete, Running
  <2> HIDE DEF S
  <2>4. ASSUME NEW s \in S
        PROVE  /\ SameSession(session'[s], session[s]) /\ StepsOfRow(session'[s])
               /\ Closing(j, s) /\ ReasonToClose(s)
    <3>1. s \in Running /\ session[s] \in SessionRecords /\ StepsOfRow(session[s])
          /\ session[s].active \in Nat
      BY <1>1, <2>2, RowType, InvFacts
    <3>2. /\ SameSession(session'[s], session[s]) /\ StepsOfRow(session'[s])
          /\ session'[s].status = "incomplete" /\ session'[s].completed = loc[j].now
      BY <2>2, <2>3, <3>1, IncompleteFields, IncompleteSteps
    <3>3. Closing(j, s)
      BY <3>1, <3>2 DEF Closing
    <3>4. ReasonToClose(s)
      <4>1. clock - session[s].active >= SessionTtl
        BY <2>2, <2>4
      <4> QED BY <4>1 DEF ReasonToClose
    <3> QED BY <3>2, <3>3, <3>4
  <2> QED BY <2>1, <2>2, <2>3, <2>4, CloseRecords
<1> QED BY <1>2, <1>3

LEMMA StutterHistory ==
    ASSUME HistoryInv, LineInv', UNCHANGED <<archived, kg, pakKind, session, pc, req, loc, held>>,
           clock' \in Nat, clock <= clock'
    PROVE  HistoryInv'
<1>1. clock \in Nat
  BY DEF HistoryInv, LineInv, TypeInv, TypeOK
<1>2. StepsInv' /\ RunningStartedLast' /\ OtkStatusIsLatestResult' /\ IdsBounded'
  BY DEF HistoryInv, StepsInv, StepsOfRow, RunningStartedLast, OtkStatusIsLatestResult,
         OtkResults, IdsBounded, Running, Recorded, InPlace
<1>3. TimesInv'
  <2>1. \A t \in Tx : loc'[t].now <= clock'
    <3> SUFFICES ASSUME NEW t \in Tx PROVE loc[t].now <= clock'
      OBVIOUS
    <3> QED BY <1>1, InvFacts
  <2>2. \A s \in Recorded' : session'[s].started <= clock' /\ session'[s].completed <= clock'
    <3> SUFFICES ASSUME NEW s \in Recorded
                 PROVE  session[s].started <= clock' /\ session[s].completed <= clock'
      BY DEF Recorded
    <3>1. session[s].started \in Nat /\ session[s].completed \in Nat \cup {NoTime}
      BY RowType DEF HistoryInv, LineInv
    <3>2. session[s].started <= clock /\ session[s].completed <= clock
      BY DEF HistoryInv, TimesInv
    <3> QED BY <1>1, <3>1, <3>2 DEF NoTime
  <2> QED BY <2>1, <2>2 DEF TimesInv
<1>4. ASSUME NEW t \in Tx
      PROVE  RemembersOf(t)' /\ OrderOf(t)'
  <2>1. OrderOf(t)'
    BY DEF HistoryInv, OrderOf, HoldsOnly
  <2>2. ASSUME pc[t] = "sweep.write", NEW s \in loc[t].running
        PROVE  clock' - session[s].active >= SessionTtl
    <3>1. session[s].active \in Nat /\ clock - session[s].active >= SessionTtl
      BY <2>2, InvFacts, RowType DEF ChecksOf, RemembersOf
    <3> QED BY <1>1, <3>1, SettingsAssumption
  <2>3. RemembersOf(t)'
    BY <2>2, InvFacts DEF RemembersOf, OtkResults, Recorded, InPlace
  <2> QED BY <2>1, <2>3
<1> QED BY <1>2, <1>3, <1>4 DEF HistoryInv

LEMMA HistoryInit == Init => HistoryInv
<1> SUFFICES ASSUME Init PROVE HistoryInv
  OBVIOUS
<1>1. LineInv
  BY LineInit
<1>2. Running = {} /\ Recorded = {}
  BY DEF Init, Running, Recorded, NoSession
<1>3. StepsInv /\ RunningStartedLast
  BY <1>2 DEF StepsInv, RunningStartedLast
<1>4. IdsBounded
  <2>1. 0 \in Nat /\ \A s \in Recorded : s <= 0
    BY <1>2
  <2> QED BY <2>1 DEF IdsBounded
<1>5. TimesInv
  BY <1>2 DEF Init, TimesInv, NoLocals
<1>6. OtkStatusIsLatestResult
  BY <1>2 DEF Init, OtkStatusIsLatestResult, OtkResults
<1>7. \A t \in Tx : RemembersOf(t) /\ OrderOf(t)
  BY DEF Init, RemembersOf, OrderOf, PakRead
<1> QED BY <1>1, <1>3, <1>4, <1>5, <1>6, <1>7 DEF HistoryInv

(* Every step keeps the invariant, and is a step of one transaction that     *)
(* records what it should or leaves the rows alone.                        *)
LEMMA EveryRecord ==
    ASSUME HistoryInv, [Next]_vars
    PROVE  HistoryInv' /\ (UNCHANGED db \/ \E t \in Tx : Recording(t))
<1>1. LineInv
  BY DEF HistoryInv
<1>2. CASE \E t \in Handlers : Request(t)
  BY <1>1, <1>2, RequestKeeps, RequestRecords, RecordsKeep DEF Records, Tx
<1>3. CASE \E t \in Tx : Proceed(t)
  <2>1. PICK t \in Tx : Proceed(t)
    BY <1>3
  <2>2. Preserves(t)
    BY <1>1, <2>1, OpenKeeps, StepKeeps, FinishKeeps, SweepKeeps, PackingKeeps, ArchiveKeeps,
       PakEditKeeps DEF Proceed
  <2>3. Records(t)
    BY <2>1, OpenRecords, StepRecords, FinishRecords, SweepRecords, PackingRecords, EditRecords
    DEF Proceed
  <2> QED BY <2>2, <2>3, RecordsKeep DEF Records
<1>4. CASE \E t \in Tx : Abort(t)
  <2>1. PICK t \in Tx : Leave(t)
    BY <1>4 DEF Abort
  <2>2. Preserves(t) /\ Records(t)
    BY <1>1, <2>1, LeaveType, LeaveKeeps, LeaveRecords DEF LineInv
  <2> QED BY <2>2, RecordsKeep DEF Records
<1>5. CASE \E j \in Jobs : ExpireStale(j)
  BY <1>1, <1>5, SweepKeeps, SweepRecords, RecordsKeep DEF Tx, Records
<1>6. CASE Tick \/ UNCHANGED vars
  <2>1. LineInv'
    BY <1>1, EveryStep
  <2>2. /\ UNCHANGED <<archived, kg, pakKind, session, pc, req, loc, held>>
        /\ clock \in Nat /\ clock' \in {clock, clock + 1}
    BY <1>1, <1>6 DEF Tick, vars, LineInv, TypeInv, TypeOK
  <2>3. clock' \in Nat /\ clock <= clock'
    BY <2>2
  <2> QED BY <2>1, <2>2, <2>3, StutterHistory DEF db
<1> QED BY <1>2, <1>3, <1>4, <1>5, <1>6 DEF Next

LEMMA History == Spec => []HistoryInv
<1>1. HistoryInv /\ [Next]_vars => HistoryInv'
  BY EveryRecord
<1> QED BY HistoryInit, <1>1, PTL DEF Spec

----------------------------------------------------------------------------
(* The theorems *)

(* However the reports of a session overlap, it runs one step at a time, a   *)
(* finished session has no running step, and one that passed has passed     *)
(* every step it announced.                                                *)
THEOREM StepsAgree == Spec => []StepsFollowSession
<1>1. HistoryInv => StepsFollowSession
  <2> SUFFICES ASSUME HistoryInv, NEW s \in Recorded
               PROVE  /\ \A n, k \in RunningSteps(s) : n = k
                      /\ s \notin Running => RunningSteps(s) = {}
                      /\ session[s].status = "passed" => PassedSteps(s) = 1..session[s].total
    BY DEF StepsFollowSession
  <2>1. StepsOfRow(session[s]) /\ session[s] \in SessionRecords /\ s \in Sessions
    BY RowType DEF HistoryInv, StepsInv, LineInv
  <2>2. session[s].status = "passed" => PassedSteps(s) = 1..session[s].total
    <3> SUFFICES ASSUME session[s].status = "passed"
                 PROVE  PassedSteps(s) = 1..session[s].total
      OBVIOUS
    <3>1. \A n \in PassedSteps(s) : n \in 1..session[s].total
      BY <2>1 DEF StepsOfRow, PassedSteps, StepNos, SessionRecords
    <3>2. \A n \in 1..session[s].total : n \in PassedSteps(s)
      BY <2>1 DEF StepsOfRow, PassedSteps
    <3> QED BY <3>1, <3>2
  <2> QED BY <2>1, <2>2 DEF StepsOfRow, RunningSteps, Running
<1> QED BY History, <1>1, PTL

(* The OTK status of a unit is the result that was finished last: a result  *)
(* takes its time under the unit's lock and is written before the next.    *)
THEOREM OtkStatusIsLatest == Spec => []OtkStatusIsLatestResult
<1>1. HistoryInv => OtkStatusIsLatestResult
  BY DEF HistoryInv
<1> QED BY History, <1>1, PTL

(* The running session of a slot is the one that started last: its start is  *)
(* the time after the PAK's lock was granted.                              *)
THEOREM RunningIsLast == Spec => []RunningStartedLast
<1>1. HistoryInv => RunningStartedLast
  BY DEF HistoryInv
<1> QED BY History, <1>1, PTL

(* The system closes a running session only when its PAK has been silent     *)
(* for SessionTtl, or for ReopenAfter when its unit is opened again, or    *)
(* when another unit was put into its slot.                                *)
THEOREM ClosedForAReason == Spec => SessionsCloseForAReason
<1> DEFINE A == \A s \in Running : session'[s].status = "incomplete" =>
                  \/ clock - session[s].active >= SessionTtl
                  \/ \E r \in Sessions \ Recorded :
                        /\ session'[r].status = "running"
                        /\ IF session'[r].unit = session[s].unit
                           THEN clock - session[s].active >= ReopenAfter
                           ELSE InPlace(s, session'[r].pak, session'[r].slot)
<1>1. HistoryInv /\ [Next]_vars => [A]_vars
  <2> SUFFICES ASSUME HistoryInv, [Next]_vars, NEW s \in Running, session'[s].status = "incomplete"
               PROVE  ReasonToClose(s)
    BY DEF ReasonToClose
  <2>1. CASE UNCHANGED db
    BY <2>1 DEF db, Running
  <2>2. CASE \E t \in Tx : Recording(t)
    BY <2>2 DEF Recording, Running, Recorded
  <2> QED BY <2>1, <2>2, EveryRecord
<1> QED BY History, <1>1, PTL DEF Spec, SessionsCloseForAReason

----------------------------------------------------------------------------
(* Nobody waits forever for a lock. *)

LEMMA LeastNat ==
    ASSUME NEW T, T \subseteq Nat, T # {}
    PROVE  \E n \in T : \A m \in T : n <= m
<1>1. PICK x \in T : \A y \in T : ~ (<<y, x>> \in OpToRel(<, Nat))
  BY NatLessThanWellFounded, WFMin
<1>2. \A y \in T : ~(y < x)
  BY <1>1 DEF OpToRel
<1> QED BY <1>2

LEMMA GreatestOf ==
    ASSUME NEW W \in SUBSET Nat, W # {}, NEW m \in Nat, \A x \in W : x <= m
    PROVE  \E g \in W : \A x \in W : x <= g
<1> DEFINE D == {d \in Nat : \E x \in W : d = m - x}
<1>1. D \in SUBSET Nat /\ D # {}
  <2>1. PICK x \in W : TRUE
    OBVIOUS
  <2>2. x \in Nat /\ x <= m
    BY <2>1
  <2>3. m - x \in D
    BY <2>1, <2>2
  <2> QED BY <2>3
<1>2. PICK d \in D : \A e \in D : d <= e
  BY <1>1, LeastNat
<1>3. PICK g \in W : d = m - g
  BY <1>2
<1>4. ASSUME NEW x \in W
      PROVE  x <= g
  <2>1. x \in Nat /\ x <= m /\ g \in Nat /\ g <= m
    BY <1>3
  <2>2. m - x \in D
    BY <2>1
  <2>3. m - g <= m - x
    BY <1>2, <1>3, <2>2
  <2> QED BY <2>1, <2>3
<1> QED BY <1>4

WaitForBatch   == {"open.batch", "pack.batch", "archive.batch"}
WaitForKg      == {"open.kg", "complete.kg", "pack.kg"}
WaitForPak     == {"open.pak", "pak.row"}
WaitForSession == {"open.sessions", "step.session", "complete.session"}

(* The kind of row a transaction waits for. *)
LEMMA WantedRows ==
    ASSUME HistoryInv, NEW t \in Tx, NEW w \in Wanted(t)
    PROVE  \/ pc[t] \in WaitForBatch /\ w[1] \in BatchRows
           \/ pc[t] \in WaitForKg /\ w[1] \in KgRows
           \/ pc[t] \in WaitForPak /\ w[1] \in PakRows
           \/ /\ pc[t] \in WaitForSession
              /\ \E s \in Recorded : /\ w[1] = SessionRow(s)
                                     /\ pc[t] = "open.sessions" => s \in loc[t].found
<1> USE DEF WaitForBatch, WaitForKg, WaitForPak, WaitForSession
<1>1. RequestOf(t) /\ RemembersOf(t) /\ TypeInv
  BY DEF HistoryInv, LineInv, TypeInv, RequestsFit
<1>2. \A x, y : <<x, y>>[1] = x
  OBVIOUS
<1>3. CASE pc[t] \in {"open.batch", "open.kg", "open.pak", "open.sessions"}
  <2>1. req[t] \in Opens
    BY <1>1, <1>3 DEF RequestOf, OpenLabels
  <2>2. /\ BatchRow(BatchOf[req[t].unit]) \in BatchRows /\ KgRow(req[t].unit) \in KgRows
        /\ PakRow(req[t].pak) \in PakRows
    BY <2>1, DomainAssumption DEF Opens, BatchRows, KgRows, PakRows
  <2>3. CASE pc[t] = "open.batch"
    BY <1>2, <2>2, <2>3 DEF Wanted
  <2>4. CASE pc[t] = "open.kg"
    BY <1>2, <2>2, <2>4 DEF Wanted
  <2>5. CASE pc[t] = "open.pak"
    BY <1>2, <2>2, <2>5 DEF Wanted
  <2>6. CASE pc[t] = "open.sessions"
    <3>1. PICK s \in NextToLock(t) : w = <<SessionRow(s), Update>>
      BY <2>6 DEF Wanted
    <3>2. s \in loc[t].found /\ s \in Recorded
      BY <1>1, <2>6, <3>1 DEF NextToLock, RemembersOf
    <3> QED BY <1>2, <2>6, <3>1, <3>2
  <2> QED BY <1>3, <2>3, <2>4, <2>5, <2>6
<1>4. CASE pc[t] \in {"step.session", "complete.session", "complete.kg"}
  <2>1. req[t].session \in Sessions /\ session[req[t].session] \in SessionRecords
    BY <1>1, <1>4 DEF RequestOf, StepLabels, CompleteLabels, Starts, Reports, Completes
  <2>2. req[t].session \in Recorded /\ session[req[t].session].unit \in Units
    BY <2>1 DEF Recorded, SessionRecords, Finished, Results
  <2>3. CASE pc[t] = "complete.kg"
    <3>1. KgRow(session[req[t].session].unit) \in KgRows
      BY <2>2 DEF KgRows
    <3>2. w = <<KgRow(session[req[t].session].unit), CompleteKgMode>>
      BY <2>3 DEF Wanted
    <3> QED BY <1>2, <2>3, <3>1, <3>2
  <2>4. CASE pc[t] # "complete.kg"
    <3>1. w[1] = SessionRow(req[t].session)
      BY <1>2, <1>4, <2>4 DEF Wanted
    <3> QED BY <1>4, <2>2, <2>4, <3>1
  <2> QED BY <2>3, <2>4
<1>5. CASE pc[t] \in {"pack.batch", "pack.kg"}
  <2>1. /\ BatchRow(BatchOf[req[t].unit]) \in BatchRows /\ KgRow(req[t].unit) \in KgRows
    BY <1>1, <1>5, DomainAssumption DEF RequestOf, PackLabels, Packs, BatchRows, KgRows
  <2> QED BY <1>2, <1>5, <2>1 DEF Wanted
<1>6. CASE pc[t] = "archive.batch"
  <2>1. BatchRow(req[t].batch) \in BatchRows
    BY <1>1, <1>6 DEF RequestOf, ArchiveLabels, Archivals, BatchRows
  <2> QED BY <1>2, <1>6, <2>1 DEF Wanted
<1>7. CASE pc[t] = "pak.row"
  <2>1. PakRow(req[t].pak) \in PakRows
    BY <1>1, <1>7 DEF RequestOf, PakLabels, PakEdits, PakRows
  <2> QED BY <1>2, <1>7, <2>1 DEF Wanted
<1>8. CASE pc[t] \notin WaitForBatch \cup WaitForKg \cup WaitForPak \cup WaitForSession
  <2>1. Wanted(t) = {}
    BY <1>8 DEF Wanted
  <2> QED BY <2>1
<1> QED BY <1>3, <1>4, <1>5, <1>6, <1>7, <1>8

(* A transaction that holds a row and waits, waits for a later one. *)
LEMMA WaitersGoUp ==
    ASSUME HistoryInv, NEW o \in Tx, NEW l \in held[o],
           pc[o] \in WaitForBatch \cup WaitForKg \cup WaitForPak \cup WaitForSession
    PROVE  /\ l[1] \in BatchRows => pc[o] \notin WaitForBatch
           /\ l[1] \in KgRows => pc[o] \in WaitForPak \cup WaitForSession
           /\ l[1] \in PakRows => pc[o] \in WaitForSession
           /\ \A s : l[1] = SessionRow(s) =>
                 pc[o] = "open.sessions" /\ \A f \in loc[o].found : s < f
<1> USE DEF WaitForBatch, WaitForKg, WaitForPak, WaitForSession
<1>1. OrderOf(o)
  BY DEF HistoryInv
<1>2. CASE held[o] = {}
  BY <1>2
<1>3. CASE pc[o] \in {"open.kg", "pack.kg"}
  BY <1>1, <1>3, RowKinds DEF OrderOf, HoldsOnly
<1>4. CASE pc[o] = "open.pak"
  BY <1>1, <1>4, RowKinds DEF OrderOf, HoldsOnly
<1>5. CASE pc[o] = "complete.session"
  BY <1>1, <1>5, RowKinds DEF OrderOf, HoldsOnly
<1>6. CASE pc[o] = "open.sessions"
  <2>1. \/ l[1] \in BatchRows \cup KgRows \cup PakRows
        \/ \E x \in Sessions : l[1] = SessionRow(x) /\ \A f \in loc[o].found : x < f
    BY <1>1, <1>6 DEF OrderOf, HoldsOnly
  <2>2. \A s : l[1] = SessionRow(s) => \A f \in loc[o].found : s < f
    BY <2>1, RowKinds
  <2> QED BY <1>6, <2>2
<1>7. CASE pc[o] \in {"open.batch", "step.session", "complete.kg", "pack.batch",
                      "archive.batch", "pak.row"}
  <2>1. held[o] = {}
    BY <1>1, <1>7 DEF OrderOf
  <2> QED BY <2>1
<1> QED BY <1>3, <1>4, <1>5, <1>6, <1>7

(* The sessions whose rows t waits for. *)
Awaited(t) == {s \in Recorded : \E w \in Wanted(t) : w[1] = SessionRow(s)}

(* Every wait goes up the order. *)
LEMMA WaitGoesUp ==
    ASSUME HistoryInv, NEW t \in Tx, NEW o \in Tx, WaitsFor(t, o), Wanted(o) # {}
    PROVE  \/ pc[t] \in WaitForBatch /\ pc[o] \in WaitForKg \cup WaitForPak \cup WaitForSession
           \/ pc[t] \in WaitForKg /\ pc[o] \in WaitForPak \cup WaitForSession
           \/ pc[t] \in WaitForPak /\ pc[o] \in WaitForSession
           \/ /\ pc[t] \in WaitForSession /\ pc[o] \in WaitForSession
              /\ \E s \in Awaited(t) : \A f \in Awaited(o) : s < f
<1>1. PICK w \in Wanted(t) : o \in Blockers(held, t, w[1], w[2])
  BY DEF WaitsFor
<1>2. PICK n \in Modes : <<w[1], n>> \in held[o]
  BY <1>1 DEF Blockers
<1>3. PICK v \in Wanted(o) : TRUE
  OBVIOUS
<1>4. pc[o] \in WaitForBatch \cup WaitForKg \cup WaitForPak \cup WaitForSession
  BY <1>3, WantedRows
<1> DEFINE l == <<w[1], n>>
<1>5. l \in held[o] /\ l[1] = w[1]
  BY <1>2
<1>6. /\ w[1] \in BatchRows => pc[o] \notin WaitForBatch
      /\ w[1] \in KgRows => pc[o] \in WaitForPak \cup WaitForSession
      /\ w[1] \in PakRows => pc[o] \in WaitForSession
      /\ \A s : w[1] = SessionRow(s) =>
            pc[o] = "open.sessions" /\ \A f \in loc[o].found : s < f
  BY <1>4, <1>5, WaitersGoUp
<1>7. CASE pc[t] \in WaitForSession /\ \E s \in Recorded : w[1] = SessionRow(s)
  <2>1. PICK s \in Recorded : w[1] = SessionRow(s)
    BY <1>7
  <2>2. pc[o] = "open.sessions" /\ \A f \in loc[o].found : s < f
    BY <1>6, <2>1
  <2>3. ASSUME NEW f \in Awaited(o)
        PROVE  s < f
    <3>1. PICK x \in Wanted(o) : x[1] = SessionRow(f)
      BY DEF Awaited
    <3>2. PICK g \in Recorded : x[1] = SessionRow(g) /\ (pc[o] = "open.sessions" => g \in loc[o].found)
      BY <3>1, <2>2, WantedRows DEF WaitForBatch, WaitForKg, WaitForPak
    <3>3. SessionRow(f)[2] = f /\ SessionRow(g)[2] = g
      BY RowKinds
    <3>4. f = g
      BY <3>1, <3>2, <3>3
    <3> QED BY <2>2, <3>2, <3>4
  <2>4. s \in Awaited(t)
    BY <2>1 DEF Awaited
  <2>5. pc[o] \in WaitForSession
    BY <2>2 DEF WaitForSession
  <2> QED BY <1>7, <2>3, <2>4, <2>5
<1>8. \/ pc[t] \in WaitForBatch /\ w[1] \in BatchRows
      \/ pc[t] \in WaitForKg /\ w[1] \in KgRows
      \/ pc[t] \in WaitForPak /\ w[1] \in PakRows
      \/ pc[t] \in WaitForSession /\ \E s \in Recorded : w[1] = SessionRow(s)
  BY WantedRows
<1> HIDE DEF l
<1> QED BY <1>4, <1>6, <1>7, <1>8

(* Row locks are taken in the order batch, KG unit, PAK, session, and the    *)
(* sessions in the order of their ids: the transaction that is furthest up  *)
(* that order waits for none of the others, so no set of reports, sweeps    *)
(* and edits can ever be left waiting for each other.                      *)
THEOREM LocksNeverDeadlock == Spec => []NoDeadlock
<1>1. HistoryInv => NoDeadlock
  <2> SUFFICES ASSUME HistoryInv, NEW S \in (SUBSET Tx) \ {{}},
                      \A t \in S : \E o \in S : WaitsFor(t, o)
               PROVE  FALSE
    BY DEF NoDeadlock
  <2>1. \A t \in S : t \in Tx /\ Wanted(t) # {}
    BY DEF WaitsFor
  <2>2. \A t \in S : \E o \in S : /\ WaitsFor(t, o) /\ t \in Tx /\ o \in Tx /\ Wanted(o) # {}
    BY <2>1
  <2>3. \A t \in S : \E o \in S :
           \/ pc[t] \in WaitForBatch /\ pc[o] \in WaitForKg \cup WaitForPak \cup WaitForSession
           \/ pc[t] \in WaitForKg /\ pc[o] \in WaitForPak \cup WaitForSession
           \/ pc[t] \in WaitForPak /\ pc[o] \in WaitForSession
           \/ /\ pc[t] \in WaitForSession /\ pc[o] \in WaitForSession
              /\ \E s \in Awaited(t) : \A f \in Awaited(o) : s < f
    BY <2>2, WaitGoesUp
  <2>4. \A t \in S : pc[t] \notin WaitForSession
    <3> DEFINE Below(s, o) == pc[o] \in WaitForSession /\ \A f \in Awaited(o) : s < f
               W == {s \in Nat : s \in Recorded /\ \E o \in S : Below(s, o)}
    <3>1. \A s \in Recorded : s \in Nat
      BY InvFacts, RowType DEF HistoryInv, LineInv
    <3>2. ASSUME NEW t \in S, pc[t] \in WaitForSession
          PROVE  \E s \in Awaited(t) : s \in W
      <4>1. PICK o \in S : /\ pc[o] \in WaitForSession
                           /\ \E s \in Awaited(t) : \A f \in Awaited(o) : s < f
        BY <2>3, <3>2 DEF WaitForBatch, WaitForKg, WaitForPak, WaitForSession
      <4>2. PICK s \in Awaited(t) : \A f \in Awaited(o) : s < f
        BY <4>1
      <4>3. s \in Recorded /\ s \in Nat
        BY <3>1 DEF Awaited
      <4> QED BY <4>1, <4>2, <4>3
    <3>3. W = {}
      <4>1. PICK m \in Nat : \A s \in Recorded : s <= m
        BY DEF HistoryInv, IdsBounded
      <4>2. W \in SUBSET Nat /\ \A x \in W : x <= m
        BY <4>1
      <4>3. ASSUME W # {}
            PROVE  \E g \in W : \A x \in W : x <= g
        <5> HIDE DEF W
        <5> QED BY <4>1, <4>2, <4>3, GreatestOf
      <4>4. ASSUME NEW g \in W, \A x \in W : x <= g
            PROVE  FALSE
        <5>1. g \in Nat
          BY <4>2
        <5>2. PICK o \in S : Below(g, o)
          OBVIOUS
        <5>3. PICK s \in Awaited(o) : s \in W
          BY <3>2, <5>2
        <5>4. g < s /\ s <= g /\ s \in Nat
          BY <4>2, <4>4, <5>2, <5>3
        <5> QED BY <5>1, <5>4
      <4> QED BY <4>3, <4>4
    <3> QED BY <3>2, <3>3
  <2>5. \A t \in S : pc[t] \notin WaitForPak
    BY <2>3, <2>4 DEF WaitForBatch, WaitForKg, WaitForPak, WaitForSession
  <2>6. \A t \in S : pc[t] \notin WaitForKg
    BY <2>3, <2>4, <2>5 DEF WaitForBatch, WaitForKg, WaitForPak, WaitForSession
  <2>7. \A t \in S : pc[t] \notin WaitForBatch
    BY <2>3, <2>4, <2>5, <2>6
  <2>8. PICK t \in S : TRUE
    OBVIOUS
  <2> QED BY <2>3, <2>4, <2>5, <2>6, <2>7, <2>8
<1> QED BY History, <1>1, PTL
=============================================================================
