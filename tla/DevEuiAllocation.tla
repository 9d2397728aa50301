-------------------------- MODULE DevEuiAllocation --------------------------
(***************************************************************************)
(* Requests that create batches, each with the DevEUIs of its units, while *)
(* others archive, delete and register the prefixes the DevEUIs come from  *)
(* and archive the KG versions the batches are made of.  A creation locks  *)
(* its prefix, reads the next serial of it, then takes a shared lock of    *)
(* everything else the batch names; the version stands for that, for the   *)
(* production order and the multicast groups are locked the same way.      *)
(* Each request is made once; any of them may fail at any statement.       *)
(***************************************************************************)
EXTENDS Naturals, FiniteSets, FiniteSetsExt, RowLocks

CONSTANTS
  DevEuiPrefixes, MaxSerial, Quantities, \* see DevEuiSerials
  Versions,  \* the KG versions
  Requests,  \* the requests that are made
  MaxRows    \* bound: how often the same prefix is registered

ASSUME AllocationAssumption ==
  /\ MaxSerial \in Nat
  /\ Quantities \subseteq Nat \ {0}
  /\ MaxRows \in Nat \ {0}

VARIABLES
  prefix,  \* [DevEuiPrefixes -> its row: [row, exists, archived, next]]
  version, \* [Versions -> whether it is archived]
  batches, \* a set of [range, row, version]
  issued,  \* the ranges that batches were ever created with
  held,    \* [Requests -> the locks of its transaction]
  req      \* [Requests -> the progress of each]

vars == <<prefix, version, batches, issued, held, req>>
dbVars == <<prefix, version, batches, issued>>

PrefixOperations == {"archive_prefix", "restore_prefix", "delete_prefix"}
VersionOperations == {"archive_version", "restore_version"}

NoPrefix == CHOOSE p \in DevEuiPrefixes : TRUE
NoVersion == CHOOSE v \in Versions : TRUE
NewRequest == [step |-> "new", op |-> "none", prefix |-> NoPrefix, row |-> 0,
               version |-> NoVersion, quantity |-> 0, next |-> 0]

Serials == INSTANCE DevEuiSerials WITH
  taken <- [p \in DevEuiPrefixes |-> Max({r.last : r \in {r \in issued : r.prefix = p}} \cup {0})],
  ranges <- issued

Init ==
  /\ prefix = [p \in DevEuiPrefixes |-> [row |-> 1, exists |-> TRUE, archived |-> FALSE, next |-> 1]]
  /\ version = [v \in Versions |-> FALSE]
  /\ batches = {}
  /\ issued = {}
  /\ held = [q \in Requests |-> {}]
  /\ req = [q \in Requests |-> NewRequest]

-----------------------------------------------------------------------------
At(q, step) == req[q].step = step
Go(q, step) == req' = [req EXCEPT ![q].step = step]

Release(q) == held' = ReleaseAll(held, q)
End(q) == Go(q, "done") /\ Release(q)

(* A request to the row of a prefix that the person was shown.             *)
BeginOnPrefix(q, op, p) ==
  /\ At(q, "new")
  /\ prefix[p].exists
  /\ req' = [req EXCEPT ![q] = [NewRequest EXCEPT !.step = "prefix", !.op = op,
                                                  !.prefix = p, !.row = prefix[p].row]]
  /\ UNCHANGED <<dbVars, held>>

BeginCreation(q, p, v, quantity) ==
  /\ At(q, "new")
  /\ prefix[p].exists
  /\ req' = [req EXCEPT ![q] = [NewRequest EXCEPT
                                  !.step = "prefix", !.op = "create", !.prefix = p,
                                  !.row = prefix[p].row, !.version = v, !.quantity = quantity]]
  /\ UNCHANGED <<dbVars, held>>

BeginOnVersion(q, op, v) ==
  /\ At(q, "new")
  /\ req' = [req EXCEPT ![q] = [NewRequest EXCEPT !.step = "version", !.op = op, !.version = v]]
  /\ UNCHANGED <<dbVars, held>>

(* Deleting the row would reset its counter and reissue the DevEUIs.       *)
Deletable(p) == prefix[p].next <= 1

Refused(r, row) ==
  \/ ~row.exists \/ row.row # r.row
  \/ r.op = "create" /\ (row.archived \/ ~Serials!Fits(row.next, r.quantity))
  \/ r.op = "delete_prefix" /\ ~Deletable(r.prefix)

(* Mutant: the prefix is read without a lock.                              *)
UnlockedPrefix(q, p) == UNCHANGED held

LocksPrefix(q, p) ==
  /\ Grantable(held, q, <<"prefix", p>>, Update)
  /\ held' = Grant(held, q, <<"prefix", p>>, Update)

(* _lock_prefix and, in KgPrefixService, _require with for_update.  What   *)
(* the range is computed from is read here.                                *)
LockPrefix(q) ==
  /\ At(q, "prefix")
  /\ LET r == req[q]
         row == prefix[r.prefix]
     IN /\ LocksPrefix(q, r.prefix)
        /\ req' = [req EXCEPT ![q].next = row.next,
                              ![q].step = CASE Refused(r, row) -> "rollback"
                                            [] ~Refused(r, row) /\ r.op = "create" -> "version"
                                            [] OTHER -> "write"]
  /\ UNCHANGED dbVars

(* Mutant: the version is read without a lock.                             *)
UnlockedVersion(q, v) == UNCHANGED held

LocksVersion(q, v) ==
  LET mode == IF req[q].op = "create" THEN Share ELSE Update
  IN /\ Grantable(held, q, <<"version", v>>, mode)
     /\ held' = Grant(held, q, <<"version", v>>, mode)

(* _ensure_current_version and the locked read of KgVersionService.        *)
LockVersion(q) ==
  /\ At(q, "version")
  /\ LocksVersion(q, req[q].version)
  /\ Go(q, IF req[q].op = "create" /\ version[req[q].version] THEN "rollback" ELSE "write")
  /\ UNCHANGED dbVars

-----------------------------------------------------------------------------
(* The last statements and the commit.                                     *)

RangeOf(r) == Serials!RangeAt(r.prefix, r.next, r.quantity)

(* _register_units: the DevEUIs of the units there are, are unique.        *)
Registrable(range) == \A b \in batches : ~Serials!Overlap(b.range, range)

CreateBatch(q) ==
  /\ At(q, "write") /\ req[q].op = "create"
  /\ LET r == req[q]
     IN /\ Registrable(RangeOf(r))
        /\ prefix' = [prefix EXCEPT ![r.prefix].next = r.next + r.quantity]
        /\ batches' = batches \cup {[range |-> RangeOf(r), row |-> r.row, version |-> r.version]}
        /\ issued' = issued \cup {RangeOf(r)}
  /\ End(q)
  /\ UNCHANGED version

WritePrefix(q) ==
  /\ At(q, "write") /\ req[q].op \in PrefixOperations
  /\ prefix' = [prefix EXCEPT ![req[q].prefix] =
       CASE req[q].op = "delete_prefix" -> [@ EXCEPT !.exists = FALSE]
         [] OTHER -> [@ EXCEPT !.archived = req[q].op = "archive_prefix"]]
  /\ End(q)
  /\ UNCHANGED <<version, batches, issued>>

WriteVersion(q) ==
  /\ At(q, "write") /\ req[q].op \in VersionOperations
  /\ version' = [version EXCEPT ![req[q].version] = req[q].op = "archive_version"]
  /\ End(q)
  /\ UNCHANGED <<prefix, batches, issued>>

(* A refusal, a lost connection, or the end of the process.                *)
Rollback(q) ==
  /\ req[q].step \notin {"new", "done"}
  /\ End(q)
  /\ UNCHANGED dbVars

(* The deletion of a batch no unit of which was used, within its hour; the *)
(* serials stay used.                                                      *)
DeleteBatch(b) ==
  /\ b \in batches
  /\ batches' = batches \ {b}
  /\ UNCHANGED <<prefix, version, issued, held, req>>

(* The same prefix is registered again: a new row, with a counter of its   *)
(* own.                                                                    *)
CreatePrefix(p) ==
  /\ ~prefix[p].exists
  /\ prefix[p].row < MaxRows
  /\ prefix' = [prefix EXCEPT ![p] = [row |-> @.row + 1, exists |-> TRUE, archived |-> FALSE, next |-> 1]]
  /\ UNCHANGED <<version, batches, issued, held, req>>

Proceed(q) ==
  \/ LockPrefix(q) \/ LockVersion(q)
  \/ CreateBatch(q) \/ WritePrefix(q) \/ WriteVersion(q)
  \/ Rollback(q)

Next ==
  \/ \E q \in Requests :
       \/ \E p \in DevEuiPrefixes :
            \/ \E op \in PrefixOperations : BeginOnPrefix(q, op, p)
            \/ \E v \in Versions, quantity \in Quantities : BeginCreation(q, p, v, quantity)
       \/ \E v \in Versions, op \in VersionOperations : BeginOnVersion(q, op, v)
       \/ Proceed(q)
  \/ \E b \in batches : DeleteBatch(b)
  \/ \E p \in DevEuiPrefixes : CreatePrefix(p)

Spec == Init /\ [][Next]_vars

-----------------------------------------------------------------------------
TypeOK ==
  /\ \A p \in DevEuiPrefixes : prefix[p].row \in 1..MaxRows /\ prefix[p].next \in 1..(MaxSerial + 1)
  /\ version \in [Versions -> BOOLEAN]
  /\ \A b \in batches : b.range \in issued /\ b.version \in Versions
  /\ \A q \in Requests : req[q].step \in {"new", "prefix", "version", "write", "rollback", "done"}
  /\ LocksCompatible(held)

(* KgPrefix: a DevEUI once allocated is never issued again, even after its *)
(* batch is deleted, nor after its prefix is and is registered again; and  *)
(* no creation that failed leaves a gap.                                   *)
IssuesSerials == Serials!SerialsSpec

(* What BatchService.preview_dev_eui_range computes from is what the next  *)
(* batch gets: the counter stands one past the last serial ever issued,    *)
(* whichever row of the prefix it was issued under.                        *)
CounterFollowsIssued ==
  \A p \in DevEuiPrefixes : prefix[p].exists =>
    /\ \A r \in issued : r.prefix = p => r.last < prefix[p].next
    /\ prefix[p].next = 1 \/ \E r \in issued : r.prefix = p /\ r.last + 1 = prefix[p].next

(* No batch is created from a prefix or a version that is archived by the  *)
(* time it is there, though both were read some statements before.         *)
CreatedOfCurrent ==
  [][\A b \in batches' \ batches :
       ~version[b.version] /\ prefix[b.range.prefix].exists /\ ~prefix[b.range.prefix].archived]_vars

(* A creation in which nothing failed is not turned down by the unique     *)
(* DevEUIs: the counter alone keeps the ranges apart.                      *)
NoneIsTurnedDown ==
  \A q \in Requests : At(q, "write") /\ req[q].op = "create" => Registrable(RangeOf(req[q]))

(* The three of the serials together: each is issued once and in order,    *)
(* the counter of a prefix is that of the serials issued, and it alone     *)
(* keeps the ranges apart.                                                 *)
SerialsAreExact == IssuesSerials /\ [](CounterFollowsIssued /\ NoneIsTurnedDown)

(* The prefix is locked before the version, and neither by whoever holds   *)
(* another row of its kind: no requests wait for each other in a circle.   *)
Wanted(q) ==
  CASE At(q, "prefix") -> {<<<<"prefix", req[q].prefix>>, Update>>}
    [] At(q, "version") ->
         {<<<<"version", req[q].version>>, IF req[q].op = "create" THEN Share ELSE Update>>}
    [] OTHER -> {}
WaitsFor(q, o) == \E w \in Wanted(q) : o \in Blockers(held, q, w[1], w[2])
NoDeadlock == \A S \in (SUBSET Requests) \ {{}} : \E q \in S : \A o \in S : ~WaitsFor(q, o)
=============================================================================
