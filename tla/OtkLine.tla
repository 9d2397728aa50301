------------------------------- MODULE OtkLine -------------------------------
(***************************************************************************)
(* Verification and packing of KG units: the transactions of               *)
(* VerificationSessionService, of the sweep that closes stale sessions, of *)
(* PackingService, and the two edits they race with, archiving a batch and *)
(* changing a PAK's kind.                                                  *)
(*                                                                         *)
(* A transaction runs statement by statement.  A statement that locks a    *)
(* row waits until the lock is granted and then reads the committed row    *)
(* (populate_existing); a plain SELECT reads what is committed at that     *)
(* moment (READ COMMITTED).  Every row a transaction changes is locked by  *)
(* it first, so nobody sees a change before the commit: the changes of a   *)
(* transaction, its commit and the release of its locks are one step.  A   *)
(* row read under a lock is looked up in the step that uses it.            *)
(***************************************************************************)
EXTENDS Integers, FiniteSets, RowLocks

CONSTANTS
    Handlers,      \* transactions of HTTP requests that may be open at a time
    Jobs,          \* transactions of the background worker
    Batches, Units, Paks, Slots,
    BatchOf,       \* the batch of each unit; a unit never changes its batch
    Sessions,      \* ids of verification sessions; the bound on their number
    MaxSteps,      \* bound on totalSteps of a session
    Checks,        \* names of checks, with their label and defect group code
    ReopenAfter,   \* reopen_inactivity
    SessionTtl,    \* session_ttl
    ExpireLimit,   \* EXPIRE_BATCH_SIZE
    MaxClock,      \* bound on time
    Operations     \* the requests an instance makes, among those of Requests

ASSUME DomainAssumption ==
    /\ Handlers \cap Jobs = {}
    /\ BatchOf \in [Units -> Batches]
    /\ Sessions \subseteq Nat
    /\ MaxSteps \in Nat /\ MaxClock \in Nat
    /\ ExpireLimit \in Nat \ {0}

(* VerificationSettings._reopen_before_ttl refuses any other configuration. *)
ASSUME SettingsAssumption ==
    /\ ReopenAfter \in Nat /\ SessionTtl \in Nat
    /\ 0 < ReopenAfter /\ ReopenAfter < SessionTtl

Tx == Handlers \cup Jobs

----------------------------------------------------------------------------
(* Rows *)

BatchRow(b)   == <<"batch", b>>
KgRow(u)      == <<"kg_unit", u>>
PakRow(p)     == <<"pak", p>>
SessionRow(s) == <<"session", s>>

Rows == {BatchRow(b) : b \in Batches} \cup {KgRow(u) : u \in Units}
          \cup {PakRow(p) : p \in Paks} \cup {SessionRow(s) : s \in Sessions}

KgStates     == {"registered", "packed", "shipped", "scrapped"}
OtkStatuses  == {"not_verified", "passed", "failed"}
PakKinds     == {"engineering", "otk_line"}
Results      == {"passed", "failed", "aborted"}
Finished     == Results \cup {"incomplete"}
StepResults  == {"passed", "failed"}
StepStatuses == {"running"} \cup Finished

StepNos == 1..MaxSteps
NoTime  == -1
NoStep  == [status |-> "absent"]
Steps   == [check : Checks, status : StepStatuses]

Kgs == [state : KgStates, otk : OtkStatuses]

(* The CHECK constraint of the table: a session is running while it has no *)
(* completed_at.                                                           *)
SessionRecords ==
    {r \in [unit : Units, pak : Paks, kind : PakKinds, slot : Slots,
            total : StepNos, status : {"running"} \cup Finished,
            steps : [StepNos -> Steps \cup {NoStep}],
            started : Nat, active : Nat, completed : Nat \cup {NoTime}] :
        r.status = "running" <=> r.completed = NoTime}

NoSession == [status |-> "absent"]

(* What a request asks for; NoRequest outside a transaction. *)
NoRequest == [op |-> "none"]

Requests ==
         [op : {"open"}, pak : Paks, unit : Units, slot : Slots, total : StepNos]
    \cup [op : {"start"}, pak : Paks, session : Sessions, step : StepNos, check : Checks]
    \cup [op : {"report"}, pak : Paks, session : Sessions, step : StepNos, result : StepResults]
    \cup [op : {"complete"}, session : Sessions, result : Results]
    \cup [op : {"pack"}, unit : Units]
    \cup [op : {"archive"}, batch : Batches, archived : BOOLEAN]
    \cup [op : {"edit_pak"}, pak : Paks, kind : PakKinds]

(* What a transaction remembers between two statements. *)
Locals ==
    [kind : PakKinds,            \* of the PAK, as authentication loaded it
     now : Nat,                  \* datetime.now(UTC) of the service call
     found : SUBSET Sessions,    \* rows a statement has still to lock
     running : SUBSET Sessions]  \* running sessions it has locked

NoLocals == [kind |-> "engineering", now |-> 0, found |-> {}, running |-> {}]

Labels ==
    {"idle", "open.batch", "open.kg", "open.pak", "open.find", "open.sessions",
     "step.session", "step.write", "complete.kg", "complete.session", "complete.write",
     "sweep.write", "pack.batch", "pack.kg", "pack.check", "pack.write",
     "archive.batch", "archive.write", "pak.row", "pak.write"}

VARIABLES
    archived,   \* batches with archived_at
    kg,         \* KG units: state and OTK status
    pakKind,    \* kind of each PAK
    session,    \* verification sessions with their steps
    clock,      \* the time
    pc,         \* the next statement of each transaction
    req, loc,   \* its request and its locals
    held        \* the row locks it holds

db   == <<archived, kg, pakKind, session>>
vars == <<archived, kg, pakKind, session, clock, pc, req, loc, held>>

Running  == {s \in Sessions : session[s].status = "running"}
Recorded == {s \in Sessions : session[s].status # "absent"}

TypeOK ==
    /\ archived \in [Batches -> BOOLEAN]
    /\ kg \in [Units -> Kgs]
    /\ pakKind \in [Paks -> PakKinds]
    /\ session \in [Sessions -> SessionRecords \cup {NoSession}]
    /\ clock \in Nat
    /\ pc \in [Tx -> Labels]
    /\ req \in [Tx -> Requests \cup {NoRequest}]
    /\ loc \in [Tx -> Locals]
    /\ held \in [Tx -> SUBSET (Rows \X Modes)]

(* No transaction is open and nothing was verified yet. *)
Init ==
    /\ archived = [b \in Batches |-> FALSE]
    /\ kg \in [Units -> {[state |-> k, otk |-> "not_verified"] : k \in {"registered", "scrapped"}}]
    /\ pakKind \in [Paks -> PakKinds]
    /\ session = [s \in Sessions |-> NoSession]
    /\ clock = 0
    /\ pc = [t \in Tx |-> "idle"]
    /\ req = [t \in Tx |-> NoRequest]
    /\ loc = [t \in Tx |-> NoLocals]
    /\ held = [t \in Tx |-> {}]

----------------------------------------------------------------------------
(* Transactions *)

(* A request reaches its handler. *)
Begin(t, r, l, first) ==
    /\ t \in Handlers /\ pc[t] = "idle" /\ r.op \in Operations
    /\ pc' = [pc EXCEPT ![t] = first]
    /\ req' = [req EXCEPT ![t] = r]
    /\ loc' = [loc EXCEPT ![t] = l]
    /\ UNCHANGED <<archived, kg, pakKind, session, clock, held>>

(* Lock row r in mode m, remember l and go on with the statement next. *)
Acquire(t, r, m, l, next) ==
    /\ held' = Grant(held, t, r, m)
    /\ loc' = [loc EXCEPT ![t] = l]
    /\ pc' = [pc EXCEPT ![t] = next]
    /\ UNCHANGED <<archived, kg, pakKind, session, clock, req>>

(* Mutant: the transaction is left open, with its locks. *)
EndHolding(t) ==
    /\ pc' = [pc EXCEPT ![t] = "idle"]
    /\ req' = [req EXCEPT ![t] = NoRequest]
    /\ loc' = [loc EXCEPT ![t] = NoLocals]
    /\ UNCHANGED <<clock, held>>

(* The transaction is over, committed or rolled back. *)
End(t) ==
    /\ pc' = [pc EXCEPT ![t] = "idle"]
    /\ req' = [req EXCEPT ![t] = NoRequest]
    /\ loc' = [loc EXCEPT ![t] = NoLocals]
    /\ held' = ReleaseAll(held, t)
    /\ UNCHANGED clock

(* The service raised or had nothing to change. *)
Leave(t) == End(t) /\ UNCHANGED db

(* The connection is lost, the client is gone or the process stops before  *)
(* the commit: PostgreSQL rolls the transaction back.                      *)
Abort(t) ==
    /\ pc[t] # "idle" /\ t \in Handlers
    /\ Leave(t)

Tick ==
    /\ clock < MaxClock
    /\ clock' = clock + 1
    /\ UNCHANGED <<archived, kg, pakKind, session, pc, req, loc, held>>

----------------------------------------------------------------------------
(* Closing sessions *)

(* Mutant: completed_at is forgotten. *)
IncompleteWithoutTime(r, now) == [r EXCEPT !.status = "incomplete"]

(* _close_incomplete: active keeps the PAK's last report. *)
Incomplete(r, now) ==
    [r EXCEPT !.status = "incomplete", !.completed = now,
              !.steps = [n \in StepNos |->
                  IF r.steps[n].status = "running"
                  THEN [r.steps[n] EXCEPT !.status = "incomplete"] ELSE r.steps[n]]]

CloseIncomplete(S, now) ==
    [s \in Sessions |-> IF s \in S THEN Incomplete(session[s], now) ELSE session[s]]

----------------------------------------------------------------------------
(* open_session *)

(* Mutant of the modes below: a lock that excludes no other report. *)
TooWeak == KeyShare

OpenBatchMode == Share
OpenKgMode    == NoKeyUpdate
OpenPakMode   == NoKeyUpdate

(* The PAK row was loaded by authentication and is not read again. *)
OpenSession(t) ==
    \E p \in Paks, u \in Units, n \in Slots, k \in StepNos :
        Begin(t, [op |-> "open", pak |-> p, unit |-> u, slot |-> n, total |-> k],
              [NoLocals EXCEPT !.kind = pakKind[p]], "open.batch")

LockOpenBatch(t) ==
    LET r == BatchRow(BatchOf[req[t].unit]) IN
    /\ pc[t] = "open.batch" /\ Grantable(held, t, r, OpenBatchMode)
    /\ Acquire(t, r, OpenBatchMode, loc[t], "open.kg")

(* Mutant: archiving the batch is not looked at. *)
VerifiableArchived(u, kind) ==
    /\ kg[u].state # "scrapped"
    /\ ~(kg[u].state \in {"packed", "shipped"} /\ kind = "otk_line")

(* _ensure_verifiable *)
Verifiable(u, kind) ==
    /\ ~archived[BatchOf[u]]
    /\ kg[u].state # "scrapped"
    /\ ~(kg[u].state \in {"packed", "shipped"} /\ kind = "otk_line")

LockOpenKg(t) ==
    LET r == KgRow(req[t].unit) IN
    /\ pc[t] = "open.kg" /\ Grantable(held, t, r, OpenKgMode)
    /\ \/ /\ Verifiable(req[t].unit, loc[t].kind)
          /\ Acquire(t, r, OpenKgMode, loc[t], "open.pak")
       \/ ~Verifiable(req[t].unit, loc[t].kind) /\ Leave(t)

LockOpenPak(t) ==
    LET r == PakRow(req[t].pak) IN
    /\ pc[t] = "open.pak" /\ Grantable(held, t, r, OpenPakMode)
    /\ Acquire(t, r, OpenPakMode, [loc[t] EXCEPT !.now = clock], "open.find")

InPlace(s, p, n) == session[s].pak = p /\ session[s].slot = n

(* _lock_running_sessions: the rows its snapshot holds, before any is locked, *)
FindRunningSessions(t) ==
    /\ pc[t] = "open.find"
    /\ loc' = [loc EXCEPT ![t].found =
           {s \in Running : session[s].unit = req[t].unit
                              \/ InPlace(s, req[t].pak, req[t].slot)}]
    /\ pc' = [pc EXCEPT ![t] = "open.sessions"]
    /\ UNCHANGED <<archived, kg, pakKind, session, clock, req, held>>

(* are locked by id, one after the other.  PostgreSQL checks the condition  *)
(* again on the row it locked: a session closed meanwhile is out.          *)
(* Mutant: ORDER BY id is dropped. *)
AnyFound(t) == loc[t].found

NextToLock(t) == {s \in loc[t].found : \A o \in loc[t].found : s <= o}

LockRunningSession(t) ==
    \E s \in NextToLock(t) :
        LET r == SessionRow(s)
            rest == [loc[t] EXCEPT !.found = @ \ {s}] IN
        /\ pc[t] = "open.sessions" /\ Grantable(held, t, r, Update)
        /\ Acquire(t, r, Update,
                   IF s \in Running THEN [rest EXCEPT !.running = @ \cup {s}] ELSE rest,
                   "open.sessions")

ByKg(t)    == {s \in loc[t].running : session[s].unit = req[t].unit}
Idle(s, t) == loc[t].now - session[s].active >= ReopenAfter
Here(s, t) == InPlace(s, req[t].pak, req[t].slot)

OpenReady(t) == pc[t] = "open.sessions" /\ loc[t].found = {}

ResumeSession(t) ==
    /\ OpenReady(t)
    /\ \E s \in ByKg(t) :
          /\ ~Idle(s, t) /\ Here(s, t)
          /\ session' = [session EXCEPT ![s].active = loc[t].now]
    /\ UNCHANGED <<archived, kg, pakKind>>
    /\ End(t)

RefuseRunning(t) ==
    /\ OpenReady(t)
    /\ \E s \in ByKg(t) : ~Idle(s, t) /\ ~Here(s, t)
    /\ Leave(t)

NewSession(t) ==
    [unit |-> req[t].unit, pak |-> req[t].pak, kind |-> loc[t].kind,
     slot |-> req[t].slot, total |-> req[t].total, status |-> "running",
     steps |-> [n \in StepNos |-> NoStep],
     started |-> loc[t].now, active |-> loc[t].now, completed |-> NoTime]

(* The unit's idle session and the slot's session of another unit make room. *)
(* The request fails when the ids are used up: the bound on sessions.       *)
InsertSession(t) ==
    /\ OpenReady(t)
    /\ \A s \in ByKg(t) : Idle(s, t)
    /\ \/ /\ \E id \in Sessions \ Recorded :
                session' = [CloseIncomplete(loc[t].running, loc[t].now)
                              EXCEPT ![id] = NewSession(t)]
          /\ UNCHANGED <<archived, kg, pakKind>>
          /\ End(t)
       \/ Recorded = Sessions /\ Leave(t)

----------------------------------------------------------------------------
(* start_step and complete_step.  A step row is written only under the lock *)
(* of its session, so the lock complete_step takes on it is never waited    *)
(* for.  The check catalog start_step records the check in is a component   *)
(* of its own.                                                             *)

StepMode == Update

StartStep(t) ==
    \E p \in Paks, s \in Recorded, n \in StepNos, c \in Checks :
        Begin(t, [op |-> "start", pak |-> p, session |-> s, step |-> n, check |-> c],
              NoLocals, "step.session")

CompleteStep(t) ==
    \E p \in Paks, s \in Recorded, n \in StepNos, x \in StepResults :
        Begin(t, [op |-> "report", pak |-> p, session |-> s, step |-> n, result |-> x],
              NoLocals, "step.session")

(* Mutant: the session's status is not looked at. *)
ReportableEver(s, p, n) == session[s].pak = p /\ n <= session[s].total

(* _lock_running_session and _ensure_in_range *)
Reportable(s, p, n) ==
    /\ session[s].pak = p
    /\ session[s].status = "running"
    /\ n <= session[s].total

LockStepSession(t) ==
    LET s == req[t].session
        r == SessionRow(s) IN
    /\ pc[t] = "step.session" /\ Grantable(held, t, r, StepMode)
    /\ \/ /\ Reportable(s, req[t].pak, req[t].step)
          /\ Acquire(t, r, StepMode, [loc[t] EXCEPT !.now = clock], "step.write")
       \/ ~Reportable(s, req[t].pak, req[t].step) /\ Leave(t)

StepOf(t) == session[req[t].session].steps[req[t].step]

RunningSteps(s) == {n \in StepNos : session[s].steps[n].status = "running"}

(* Refresh the session and store the step, if it changes. *)
SaveStep(t, step) ==
    /\ session' = [session EXCEPT ![req[t].session] =
                      [@ EXCEPT !.active = loc[t].now, !.steps[req[t].step] = step]]
    /\ UNCHANGED <<archived, kg, pakKind>>
    /\ End(t)

WriteStart(t) ==
    /\ pc[t] = "step.write" /\ req[t].op = "start"
    /\ \/ /\ StepOf(t).status # "absent" /\ StepOf(t).check = req[t].check
          /\ SaveStep(t, StepOf(t))
       \/ /\ StepOf(t).status # "absent" /\ StepOf(t).check # req[t].check
          /\ Leave(t)
       \/ /\ StepOf(t).status = "absent" /\ RunningSteps(req[t].session) # {}
          /\ Leave(t)
       \/ /\ StepOf(t).status = "absent" /\ RunningSteps(req[t].session) = {}
          /\ SaveStep(t, [check |-> req[t].check, status |-> "running"])

(* A repeated result is answered with the step; the measurement is part of  *)
(* the result and adds no case.                                            *)
WriteReport(t) ==
    /\ pc[t] = "step.write" /\ req[t].op = "report"
    /\ \/ StepOf(t).status = "absent" /\ Leave(t)
       \/ /\ StepOf(t).status \in {"running", req[t].result}
          /\ SaveStep(t, [StepOf(t) EXCEPT !.status = req[t].result])
       \/ StepOf(t).status \notin {"absent", "running", req[t].result} /\ Leave(t)

----------------------------------------------------------------------------
(* complete_session *)

CompleteKgMode      == NoKeyUpdate
CompleteSessionMode == Update

(* Another PAK's session answers 404 here; the PAK of a session is fixed. *)
CompleteSession(t) ==
    \E s \in Recorded, x \in Results :
        Begin(t, [op |-> "complete", session |-> s, result |-> x], NoLocals, "complete.kg")

LockCompletedKg(t) ==
    LET r == KgRow(session[req[t].session].unit) IN
    /\ pc[t] = "complete.kg" /\ Grantable(held, t, r, CompleteKgMode)
    /\ Acquire(t, r, CompleteKgMode, loc[t], "complete.session")

(* A finished session is answered with as it is, or refused. *)
LockCompletedSession(t) ==
    LET r == SessionRow(req[t].session) IN
    /\ pc[t] = "complete.session" /\ Grantable(held, t, r, CompleteSessionMode)
    /\ \/ /\ req[t].session \in Running
          /\ Acquire(t, r, CompleteSessionMode, [loc[t] EXCEPT !.now = clock], "complete.write")
       \/ req[t].session \notin Running /\ Leave(t)

PassedSteps(s) == {n \in StepNos : session[s].steps[n].status = "passed"}

Completable(s, result) ==
    /\ RunningSteps(s) # {} => result = "aborted"
    /\ result = "passed" => Cardinality(PassedSteps(s)) = session[s].total

(* Mutant: the PAK's kind is not looked at. *)
SetsOtkOnAnyPak(s, result) == result \in {"passed", "failed"}

SetsOtk(s, result) == session[s].kind = "otk_line" /\ result \in {"passed", "failed"}

Complete(r, result, now) ==
    [r EXCEPT !.status = result, !.completed = now, !.active = now,
              !.steps = [n \in StepNos |->
                  IF r.steps[n].status = "running"
                  THEN [r.steps[n] EXCEPT !.status = "aborted"] ELSE r.steps[n]]]

WriteCompletion(t) ==
    LET s == req[t].session
        x == req[t].result IN
    /\ pc[t] = "complete.write"
    /\ \/ ~Completable(s, x) /\ Leave(t)
       \/ /\ Completable(s, x)
          /\ session' = [session EXCEPT ![s] = Complete(@, x, loc[t].now)]
          /\ kg' = IF SetsOtk(s, x) THEN [kg EXCEPT ![session[s].unit].otk = x] ELSE kg
          /\ UNCHANGED <<archived, pakKind>>
          /\ End(t)

----------------------------------------------------------------------------
(* expire_stale, run by expire_stale_verification_sessions every minute.    *)
(* SKIP LOCKED: rows that anyone has locked are passed over.  A run repeats *)
(* the transaction until one closes fewer than ExpireLimit sessions; a run  *)
(* that finds nothing changes nothing.                                     *)

(* Mutant: < for <=. *)
StaleLate == {s \in Running : session[s].active < clock - SessionTtl}

Stale == {s \in Running : session[s].active <= clock - SessionTtl}

(* Mutant: the rows are read without FOR UPDATE. *)
ExpireStaleUnlocked(j) ==
    /\ j \in Jobs /\ pc[j] = "idle" /\ Stale # {}
    /\ loc' = [loc EXCEPT ![j] = [@ EXCEPT !.now = clock, !.running = Stale]]
    /\ pc' = [pc EXCEPT ![j] = "sweep.write"]
    /\ UNCHANGED <<archived, kg, pakKind, session, clock, req, held>>

ExpireStale(j) ==
    LET free == {s \in Stale : Grantable(held, j, SessionRow(s), Update)} IN
    /\ j \in Jobs /\ pc[j] = "idle" /\ free # {}
    /\ \E S \in SUBSET free :
          /\ Cardinality(S) = IF Cardinality(free) < ExpireLimit THEN Cardinality(free) ELSE ExpireLimit
          /\ \A s \in S, o \in free \ S : session[s].active <= session[o].active
          /\ held' = [held EXCEPT ![j] = {<<SessionRow(s), Update>> : s \in S}]
          /\ loc' = [loc EXCEPT ![j] = [@ EXCEPT !.now = clock, !.running = S]]
    /\ pc' = [pc EXCEPT ![j] = "sweep.write"]
    /\ UNCHANGED <<archived, kg, pakKind, session, clock, req>>

CloseStale(j) ==
    /\ pc[j] = "sweep.write"
    /\ session' = CloseIncomplete(loc[j].running, loc[j].now)
    /\ UNCHANGED <<archived, kg, pakKind>>
    /\ End(j)

----------------------------------------------------------------------------
(* PackingService.pack *)

PackBatchMode == Share
PackKgMode    == Update

Pack(t) == \E u \in Units : Begin(t, [op |-> "pack", unit |-> u], NoLocals, "pack.batch")

LockPackBatch(t) ==
    LET r == BatchRow(BatchOf[req[t].unit]) IN
    /\ pc[t] = "pack.batch" /\ Grantable(held, t, r, PackBatchMode)
    /\ Acquire(t, r, PackBatchMode, loc[t], "pack.kg")

LockPackKg(t) ==
    LET r == KgRow(req[t].unit) IN
    /\ pc[t] = "pack.kg" /\ Grantable(held, t, r, PackKgMode)
    /\ Acquire(t, r, PackKgMode, loc[t], "pack.check")

OnOtkLine(u) == \E s \in Running : session[s].unit = u /\ session[s].kind = "otk_line"

(* _find_blocker finds none *)
Packable(u) ==
    /\ kg[u].state = "registered"
    /\ ~archived[BatchOf[u]]
    /\ ~OnOtkLine(u)
    /\ kg[u].otk = "passed"

FindBlocker(t) ==
    /\ pc[t] = "pack.check"
    /\ \/ ~Packable(req[t].unit) /\ Leave(t)
       \/ /\ Packable(req[t].unit)
          /\ pc' = [pc EXCEPT ![t] = "pack.write"]
          /\ UNCHANGED <<archived, kg, pakKind, session, clock, req, loc, held>>

WritePacked(t) ==
    /\ pc[t] = "pack.write"
    /\ kg' = [kg EXCEPT ![req[t].unit].state = "packed"]
    /\ UNCHANGED <<archived, pakKind, session>>
    /\ End(t)

----------------------------------------------------------------------------
(* BatchService.set_archived; PakDeviceService.update_pak of the kind *)

ArchiveMode == Update

SetArchived(t) ==
    \E b \in Batches, a \in BOOLEAN :
        Begin(t, [op |-> "archive", batch |-> b, archived |-> a], NoLocals, "archive.batch")

LockArchivedBatch(t) ==
    LET r == BatchRow(req[t].batch) IN
    /\ pc[t] = "archive.batch" /\ Grantable(held, t, r, ArchiveMode)
    /\ Acquire(t, r, ArchiveMode, loc[t], "archive.write")

WriteArchived(t) ==
    /\ pc[t] = "archive.write"
    /\ archived' = [archived EXCEPT ![req[t].batch] = req[t].archived]
    /\ UNCHANGED <<kg, pakKind, session>>
    /\ End(t)

EditPak(t) ==
    \E p \in Paks, k \in PakKinds :
        Begin(t, [op |-> "edit_pak", pak |-> p, kind |-> k], NoLocals, "pak.row")

LockEditedPak(t) ==
    LET r == PakRow(req[t].pak) IN
    /\ pc[t] = "pak.row" /\ Grantable(held, t, r, Update)
    /\ Acquire(t, r, Update, loc[t], "pak.write")

WritePak(t) ==
    /\ pc[t] = "pak.write"
    /\ pakKind' = [pakKind EXCEPT ![req[t].pak] = req[t].kind]
    /\ UNCHANGED <<archived, kg, session>>
    /\ End(t)

----------------------------------------------------------------------------

Open(t)     == \/ LockOpenBatch(t) \/ LockOpenKg(t) \/ LockOpenPak(t) \/ FindRunningSessions(t)
               \/ LockRunningSession(t) \/ ResumeSession(t) \/ RefuseRunning(t) \/ InsertSession(t)
Step(t)     == LockStepSession(t) \/ WriteStart(t) \/ WriteReport(t)
Finish(t)   == LockCompletedKg(t) \/ LockCompletedSession(t) \/ WriteCompletion(t)
Packing(t)  == LockPackBatch(t) \/ LockPackKg(t) \/ FindBlocker(t) \/ WritePacked(t)
Archive(t)  == LockArchivedBatch(t) \/ WriteArchived(t)
PakEdit(t)  == LockEditedPak(t) \/ WritePak(t)

(* A PAK or a user sends a request; a PAK repeats one it got no answer to. *)
Request(t) ==
    \/ OpenSession(t) \/ StartStep(t) \/ CompleteStep(t) \/ CompleteSession(t)
    \/ Pack(t) \/ SetArchived(t) \/ EditPak(t)

(* The next statement of an open transaction. *)
Proceed(t) ==
    \/ Open(t) \/ Step(t) \/ Finish(t) \/ CloseStale(t)
    \/ Packing(t) \/ Archive(t) \/ PakEdit(t)

Next ==
    \/ \E t \in Handlers : Request(t)
    \/ \E t \in Tx : Proceed(t)
    \/ \E t \in Tx : Abort(t)
    \/ \E j \in Jobs : ExpireStale(j)
    \/ Tick

Spec == Init /\ [][Next]_vars

----------------------------------------------------------------------------
(* Safety *)

(* A KG unit has at most one running session.  The partial unique index     *)
(* ux_verification_sessions_running_dev_eui would refuse a second one with *)
(* a database error; the model has no index, so this says that the locks   *)
(* of open_session alone already keep it from being needed.                *)
UnitRunsOneSession ==
    \A s, r \in Running : session[s].unit = session[r].unit => s = r

(* A PAK slot has at most one running session, again without the help of    *)
(* the index ux_verification_sessions_running_pak_slot.                    *)
SlotRunsOneSession ==
    \A s, r \in Running : InPlace(s, session[r].pak, session[r].slot) => s = r

(* list_by_slot takes the session of a slot that started last for the       *)
(* slot's state: no session of the slot may have started after the running *)
(* one, though its start time was taken before the rows were written.      *)
RunningStartedLast ==
    \A s \in Running, r \in Recorded :
        InPlace(r, session[s].pak, session[s].slot) => session[r].started <= session[s].started

(* Packing is final and needs a verified unit: a packed unit passed, and no *)
(* OTK-line session runs that could still take the result back.            *)
PackedUnitsPassed ==
    \A u \in Units : kg[u].state = "packed" => kg[u].otk = "passed" /\ ~OnOtkLine(u)

OtkResults(u) ==
    {s \in Recorded : /\ session[s].unit = u /\ session[s].kind = "otk_line"
                      /\ session[s].status \in {"passed", "failed"}}

(* The OTK status of a unit is the result of the OTK-line session that      *)
(* finished last, by completed_at; not_verified until there is one.  No    *)
(* other session, aborted, incomplete or on an engineering PAK, moves it.  *)
OtkStatusIsLatestResult ==
    \A u \in Units :
        \/ OtkResults(u) = {} /\ kg[u].otk = "not_verified"
        \/ \E s \in OtkResults(u) :
              /\ kg[u].otk = session[s].status
              /\ \A r \in OtkResults(u) : session[r].completed <= session[s].completed

(* A session and its steps agree whatever reports overlap: a running        *)
(* session runs one step at a time, a finished one has no running step,    *)
(* and one that passed has passed every step it announced.                 *)
StepsFollowSession ==
    \A s \in Recorded :
        /\ \A n, k \in RunningSteps(s) : n = k
        /\ s \notin Running => RunningSteps(s) = {}
        /\ session[s].status = "passed" => PassedSteps(s) = 1..session[s].total

(* The rows the next statement of t may lock. *)
Wanted(t) ==
    CASE pc[t] = "open.batch"       -> {<<BatchRow(BatchOf[req[t].unit]), OpenBatchMode>>}
      [] pc[t] = "open.kg"          -> {<<KgRow(req[t].unit), OpenKgMode>>}
      [] pc[t] = "open.pak"         -> {<<PakRow(req[t].pak), OpenPakMode>>}
      [] pc[t] = "open.sessions"    -> {<<SessionRow(s), Update>> : s \in NextToLock(t)}
      [] pc[t] = "step.session"     -> {<<SessionRow(req[t].session), StepMode>>}
      [] pc[t] = "complete.kg"      -> {<<KgRow(session[req[t].session].unit), CompleteKgMode>>}
      [] pc[t] = "complete.session" -> {<<SessionRow(req[t].session), CompleteSessionMode>>}
      [] pc[t] = "pack.batch"       -> {<<BatchRow(BatchOf[req[t].unit]), PackBatchMode>>}
      [] pc[t] = "pack.kg"          -> {<<KgRow(req[t].unit), PackKgMode>>}
      [] pc[t] = "archive.batch"    -> {<<BatchRow(req[t].batch), ArchiveMode>>}
      [] pc[t] = "pak.row"          -> {<<PakRow(req[t].pak), Update>>}
      [] OTHER                      -> {}

WaitsFor(t, o) ==
    \E w \in Wanted(t) : o \in Blockers(held, t, w[1], w[2])

(* Row locks are taken in the order batch, KG unit, PAK, session, so that   *)
(* concurrent reports never deadlock: no set of transactions in which each *)
(* waits for another of the set.                                           *)
NoDeadlock ==
    \A S \in (SUBSET Tx) \ {{}} : \E t \in S : \A o \in S : ~WaitsFor(t, o)

----------------------------------------------------------------------------
(* What a step may never do *)

(* Nothing is verified or packed in a batch once its archiving is           *)
(* committed, though both checks come long before the commit that uses     *)
(* them.                                                                   *)
ArchivedBatchIsLeftAlone ==
    [][\A u \in Units : archived[BatchOf[u]] =>
          /\ kg'[u].state = kg[u].state
          /\ \A s \in Sessions \ Recorded :
                session'[s].status # "absent" => session'[s].unit # u]_vars

(* A finished session is history: no late report, repeated completion or    *)
(* sweep changes it or its steps.                                          *)
FinishedSessionsNeverChange ==
    [][\A s \in Recorded \ Running : session'[s] = session[s]]_vars

(* The system closes a running session as incomplete only if the PAK has    *)
(* not reported it for SessionTtl, if its unit is opened again and it was  *)
(* not reported for ReopenAfter, or if another unit was put into its slot; *)
(* a sweep never closes one that a report just refreshed.                  *)
SessionsCloseForAReason ==
    [][\A s \in Running : session'[s].status = "incomplete" =>
          \/ clock - session[s].active >= SessionTtl
          \/ \E r \in Sessions \ Recorded :
                /\ session'[r].status = "running"
                /\ IF session'[r].unit = session[s].unit
                   THEN clock - session[s].active >= ReopenAfter
                   ELSE InPlace(s, session'[r].pak, session'[r].slot)]_vars

(* lastActivityAt is the time of the PAK's last report (verification.md):   *)
(* a report never moves it back.                                           *)
LastReportNeverMovesBack ==
    [][\A s \in Recorded : session[s].active <= session'[s].active]_vars

(* A session of the unit running in the same slot is resumed, whatever the  *)
(* time since its last report (verification.md): opening never replaces a  *)
(* session of the same unit in the same slot.                              *)
SameSlotIsResumed ==
    [][\A s \in Running, r \in Sessions \ Recorded :
          ~ /\ session'[s].status = "incomplete"
            /\ session'[r].status = "running"
            /\ session'[r].unit = session[s].unit
            /\ InPlace(s, session'[r].pak, session'[r].slot)]_vars

----------------------------------------------------------------------------
(* OtkLine implements KgLifecycle. *)

Lifecycle == INSTANCE KgLifecycle WITH
    state   <- [u \in Units |-> kg[u].state],
    verdict <- [u \in Units |-> kg[u].otk],
    onLine  <- [u \in Units |-> OnOtkLine(u)],
    frozen  <- [u \in Units |-> archived[BatchOf[u]]]

(* However the transactions interleave, each unit goes through the           *)
(* lifecycle its users are promised: it is packed only off the OTK line,    *)
(* with a pass that nothing takes back, in a batch that is not archived.    *)
FollowsLifecycle == Lifecycle!Spec

----------------------------------------------------------------------------
(* Liveness, once PAKs and users send no more requests *)

Quiet == <>[][\A t \in Handlers : ~Request(t)]_vars

(* Every request is answered: no transaction waits forever. *)
RequestsEnd == Quiet => \A t \in Tx : pc[t] # "idle" ~> pc[t] = "idle"

Abandoned(s) == s \in Running /\ clock - session[s].active >= SessionTtl

(* A session its PAK abandoned is closed, or the PAK reports it again: the   *)
(* sweep gets to it, though it passes over locked rows and closes           *)
(* ExpireLimit sessions at a time.                                         *)
AbandonedSessionsEnd ==
    Quiet => \A s \in Sessions : Abandoned(s) ~> ~Abandoned(s)
=============================================================================
