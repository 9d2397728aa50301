--------------------------- MODULE DefectCatalog ---------------------------
(***************************************************************************)
(* The catalog of defects and the catalog of checks.  People keep groups   *)
(* and types of defects; a PAK that starts a step of a verification names  *)
(* its check and the code of a group, and the start records both.  Groups  *)
(* are locked for what is done to them, and shared by whatever comes to    *)
(* refer to them; a type is locked before its group, a group before a      *)
(* check.  The codes of types, the names of all and the rest of a step are *)
(* left out.  Any transaction may roll back before its commit.             *)
(***************************************************************************)
EXTENDS Naturals, RowLocks

CONSTANTS
  Groups, Types, Checks, \* ids, those of rows to come included
  Codes,                 \* what PAKs call groups by
  Handlers               \* bound: how many requests overlap

VARIABLES
  group, \* [Groups -> [status, code]]
  type,  \* [Types -> [status, group]]
  check, \* [Checks -> the group found for it: a set of at most one]
  steps, \* the groups that steps were recorded with
  held,  \* [Handlers -> the locks of its transaction]
  req    \* [Handlers -> the request and its progress]

dbVars == <<group, type, check, steps>>
vars == <<dbVars, held, req>>

Statuses == {"absent", "active", "archived", "deleted"}
OnGroup == {"archive_group", "restore_group", "delete_group"}
OnType == {"archive_type", "restore_type", "delete_type"}

AnyOf(S) == CHOOSE x \in S : TRUE
NoRequest == [step |-> "idle", op |-> "none", group |-> AnyOf(Groups), type |-> AnyOf(Types),
              check |-> AnyOf(Checks), code |-> AnyOf(Codes), found |-> {}]

Init ==
  /\ group = [g \in Groups |-> [status |-> "absent", code |-> AnyOf(Codes)]]
  /\ type = [t \in Types |-> [status |-> "absent", group |-> AnyOf(Groups)]]
  /\ check = [c \in Checks |-> {}]
  /\ steps = {}
  /\ held = [q \in Handlers |-> {}]
  /\ req = [q \in Handlers |-> NoRequest]

-----------------------------------------------------------------------------
At(q, step) == req[q].step = step
Go(q, step) == req' = [req EXCEPT ![q].step = step]
Lock(q, row, mode) ==
  /\ Grantable(held, q, row, mode)
  /\ held' = Grant(held, q, row, mode)
End(q) == req' = [req EXCEPT ![q] = NoRequest] /\ held' = ReleaseAll(held, q)

Exists(row) == row.status \in {"active", "archived"}

Begin(q, r) ==
  /\ At(q, "idle")
  /\ req' = [req EXCEPT ![q] = r]
  /\ UNCHANGED <<dbVars, held>>

(* People pick a row that was there when they looked.                      *)
Request(op, step) == [NoRequest EXCEPT !.op = op, !.step = step]

RequestOnGroup(q) ==
  \E g \in Groups : Exists(group[g]) /\
    \/ \E op \in OnGroup : Begin(q, [Request(op, "group") EXCEPT !.group = g])
    \/ Begin(q, [Request("create_type", "share") EXCEPT !.group = g])

RequestOnType(q) ==
  \E t \in Types, op \in OnType :
    /\ Exists(type[t])
    /\ Begin(q, [Request(op, "type") EXCEPT !.type = t])

RequestStart(q) ==
  \E c \in Checks, code \in Codes :
    Begin(q, [Request("start_step", "find") EXCEPT !.check = c, !.code = code])

Rollback(q) ==
  /\ ~At(q, "idle")
  /\ End(q)
  /\ UNCHANGED dbVars

-----------------------------------------------------------------------------
(* What is done to a group.                                                *)

(* The unique code makes of two creations beside each other one.           *)
CreateGroup(g, code) ==
  /\ group[g].status = "absent"
  /\ \A other \in Groups : Exists(group[other]) => group[other].code # code
  /\ group' = [group EXCEPT ![g] = [status |-> "active", code |-> code]]
  /\ UNCHANGED <<type, check, steps, held, req>>

LockGroup(q) ==
  /\ At(q, "group")
  /\ Lock(q, <<"group", req[q].group>>, Update)
  /\ Exists(group[req[q].group])
  /\ Go(q, IF req[q].op = "restore_group" THEN "write" ELSE "look")
  /\ UNCHANGED dbVars

TypesOf(g, statuses) == {t \in Types : type[t].group = g /\ type[t].status \in statuses}
Referred(g) ==
  \/ TypesOf(g, {"active", "archived"}) # {}
  \/ \E c \in Checks : g \in check[c]
  \/ g \in steps

(* The types of the group, or all that refers to it, by a read of its own. *)
LookAtGroup(q) ==
  /\ At(q, "look")
  /\ LET r == req[q]
     IN /\ r.op = "archive_group" /\ group[r.group].status = "active" =>
             TypesOf(r.group, {"active"}) = {}
        /\ r.op = "delete_group" => ~Referred(r.group)
  /\ Go(q, "write")
  /\ UNCHANGED <<dbVars, held>>

WriteGroup(q) ==
  /\ At(q, "write") /\ req[q].op \in OnGroup
  /\ group' = [group EXCEPT ![req[q].group].status =
       CASE req[q].op = "archive_group" -> "archived"
         [] req[q].op = "restore_group" -> "active"
         [] OTHER -> "deleted"]
  /\ End(q)
  /\ UNCHANGED <<type, check, steps>>

-----------------------------------------------------------------------------
(* What comes to refer to a group.                                         *)

(* Mutant: the group is read without a lock.                               *)
ReadsGroup(q, g) == UNCHANGED held

SharesGroup(q, g) == Lock(q, <<"group", g>>, Share)

LockType(q) ==
  /\ At(q, "type")
  /\ LET r == req[q]
     IN /\ Lock(q, <<"type", r.type>>, Update)
        /\ Exists(type[r.type])
        /\ IF r.op = "restore_type" /\ type[r.type].status = "archived"
             THEN req' = [req EXCEPT ![q].step = "share", ![q].group = type[r.type].group]
             ELSE Go(q, "write")
  /\ UNCHANGED dbVars

(* _ensure_active_group.                                                   *)
ShareGroup(q) ==
  /\ At(q, "share")
  /\ SharesGroup(q, req[q].group)
  /\ group[req[q].group].status = "active"
  /\ Go(q, "write")
  /\ UNCHANGED dbVars

CreateType(q) ==
  /\ At(q, "write") /\ req[q].op = "create_type"
  /\ \E t \in Types :
       /\ type[t].status = "absent"
       /\ type' = [type EXCEPT ![t] = [status |-> "active", group |-> req[q].group]]
  /\ End(q)
  /\ UNCHANGED <<group, check, steps>>

WriteType(q) ==
  /\ At(q, "write") /\ req[q].op \in OnType
  /\ type' = [type EXCEPT ![req[q].type].status =
       CASE req[q].op = "archive_type" -> "archived"
         [] req[q].op = "restore_type" -> "active"
         [] OTHER -> "deleted"]
  /\ End(q)
  /\ UNCHANGED <<group, check, steps>>

Named(code) == {g \in Groups : Exists(group[g]) /\ group[g].code = code}

(* _lock_active_group: a code that no group has locks nothing; a group that *)
(* is archived is locked, and the check kept without one.                  *)
FindGroup(q) ==
  /\ At(q, "find")
  /\ LET named == Named(req[q].code)
     IN /\ \/ named = {} /\ UNCHANGED held
           \/ \E g \in named : SharesGroup(q, g)
        /\ req' = [req EXCEPT ![q].step = "check",
                              ![q].found = {g \in named : group[g].status = "active"}]
  /\ UNCHANGED dbVars

(* The row of the check, or the place in the unique index that another     *)
(* start is filling.                                                       *)
LockCheck(q) ==
  /\ At(q, "check")
  /\ Lock(q, <<"check", req[q].check>>, Update)
  /\ Go(q, "write")
  /\ UNCHANGED dbVars

(* The check goes to the group of its newest report; the step keeps its    *)
(* own.                                                                    *)
WriteStart(q) ==
  /\ At(q, "write") /\ req[q].op = "start_step"
  /\ check' = [check EXCEPT ![req[q].check] = req[q].found]
  /\ steps' = steps \cup req[q].found
  /\ End(q)
  /\ UNCHANGED <<group, type>>

Proceed(q) ==
  \/ LockGroup(q) \/ LookAtGroup(q) \/ WriteGroup(q)
  \/ LockType(q) \/ ShareGroup(q) \/ CreateType(q) \/ WriteType(q)
  \/ FindGroup(q) \/ LockCheck(q) \/ WriteStart(q)

Next ==
  \/ \E g \in Groups, code \in Codes : CreateGroup(g, code)
  \/ \E q \in Handlers :
       \/ RequestOnGroup(q) \/ RequestOnType(q) \/ RequestStart(q)
       \/ Proceed(q) \/ Rollback(q)

Spec == Init /\ [][Next]_vars

-----------------------------------------------------------------------------
TypeOK ==
  /\ group \in [Groups -> [status : Statuses, code : Codes]]
  /\ type \in [Types -> [status : Statuses, group : Groups]]
  /\ check \in [Checks -> SUBSET Groups]
  /\ steps \subseteq Groups
  /\ LocksCompatible(held)

(* defects.md, "a type cannot slip into a group while it is being          *)
(* archived": no type in use is of a group that is not, whoever creates    *)
(* and restores types beside the archiving.                                *)
TypesInUseAreOfGroupsInUse ==
  \A t \in Types : type[t].status = "active" => group[type[t].group].status = "active"

(* A group that a type, a check or a step refers to is there: the looks    *)
(* before a deletion suffice, and no foreign key has to turn it down.      *)
ReferredGroupsExist == \A g \in Groups : Referred(g) => Exists(group[g])

(* PakCheck.defect_group_id, "The active group with defect_group_code": a  *)
(* start records a group that is in use when it commits, though it found   *)
(* the group some statements before; or it found none.                     *)
StartsRecordActiveGroups ==
  [][\A q \in Handlers : WriteStart(q) =>
       \A g \in req[q].found : group[g].status = "active" /\ group[g].code = req[q].code]_vars

(* The three together: whatever refers to a group may rely on it.          *)
GroupsCanBeReliedOn ==
  [](TypesInUseAreOfGroupsInUse /\ ReferredGroupsExist) /\ StartsRecordActiveGroups

(* Types are locked before groups and groups before checks, none of a kind *)
(* after another of it: no requests wait for each other in a circle.       *)
Wanted(q) ==
  LET r == req[q]
  IN CASE r.step = "type" -> {<<<<"type", r.type>>, Update>>}
       [] r.step = "group" -> {<<<<"group", r.group>>, Update>>}
       [] r.step = "share" -> {<<<<"group", r.group>>, Share>>}
       [] r.step = "find" -> {<<<<"group", g>>, Share>> : g \in Named(r.code)}
       [] r.step = "check" -> {<<<<"check", r.check>>, Update>>}
       [] OTHER -> {}
WaitsFor(q, o) == \E w \in Wanted(q) : o \in Blockers(held, q, w[1], w[2])
NoDeadlock == \A S \in (SUBSET Handlers) \ {{}} : \E q \in S : \A o \in S : ~WaitsFor(q, o)
=============================================================================
