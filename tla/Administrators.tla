--------------------------- MODULE Administrators ---------------------------
(***************************************************************************)
(* The users and who of them is an administrator.  Requests to create      *)
(* users, assign roles, activate, archive and delete overlap; most read    *)
(* the user without a lock, decide, and write only the columns that differ *)
(* from what they read.  Whoever takes an active administrator away counts *)
(* the others first, by locking every active administrator's row in the    *)
(* order of their ids.  Kratos, which keeps the identities people sign in  *)
(* with, is called before the commit when access is granted, and after it  *)
(* when access is taken away.  Each request is made once.                  *)
(***************************************************************************)
EXTENDS Naturals

CONSTANTS
  Users,    \* their ids, numbers
  Requests, \* the requests that are made
  Cases     \* what is checked, a set of [rows, requests, operations, failures]:
            \*  [Users -> the rows each may have at first], the requests, what
            \*  they may ask for, and what may fail: "call" a call of Kratos,
            \*  "commit" the transaction

AllOperations ==
  {"create", "make_administrator", "make_operator", "make_engineer",
   "activate", "deactivate", "archive", "restore", "delete"}

Nobody == "nobody"

ASSUME AdministratorsAssumption ==
  /\ Users \subseteq Nat
  /\ Nobody \notin Requests
  /\ \A c \in Cases :
       /\ c.requests \subseteq Requests
       /\ c.operations \subseteq AllOperations
       /\ c.failures \subseteq {"call", "commit"}

VARIABLES
  case,   \* the case of this behaviour
  user,   \* the users' rows: [exists, role, active, archived]
  kratos, \* the identity of each: "none", "active" or "inactive"
  lock,   \* [Users -> the request that holds the lock of the row, or Nobody]
  req     \* [Requests -> the progress of each]

vars == <<case, user, kratos, lock, req>>

Absent == [exists |-> FALSE, role |-> "operator", active |-> FALSE, archived |-> FALSE]
NoUser == CHOOSE u \in Users : TRUE

NewRequest == [step |-> "new", op |-> "none", actor |-> NoUser, target |-> NoUser,
               copy |-> Absent, todo |-> {}, found |-> {}, undo |-> FALSE]

Row(state, role) ==
  [exists |-> TRUE, role |-> role, active |-> state = "active", archived |-> state = "archived"]

IsActiveAdministrator(row) ==
  row.exists /\ row.role = "administrator" /\ row.active /\ ~row.archived

ActiveAdministrators == {u \in Users : IsActiveAdministrator(user[u])}

Rows ==
  {Absent} \cup {Row(state, role) : state \in {"active", "inactive", "archived"},
                                  role \in {"administrator", "operator"}}

Init ==
  /\ case \in Cases
  /\ user \in [Users -> Rows]
  /\ \A u \in Users : user[u] \in case.rows[u]
  /\ ActiveAdministrators # {}
  /\ kratos = [u \in Users |-> IF ~user[u].exists THEN "none"
                               ELSE IF user[u].active THEN "active" ELSE "inactive"]
  /\ lock = [u \in Users |-> Nobody]
  /\ req = [q \in Requests |-> NewRequest]

-----------------------------------------------------------------------------
At(q, step) == req[q].step = step
Go(q, step) == req' = [req EXCEPT ![q].step = step]
Ended == \A q \in Requests : req[q].step \in {"new", "done"}

Free(q, u) == lock[u] \in {q, Nobody}
Take(q, u) == Free(q, u) /\ lock' = [lock EXCEPT ![u] = q]
Release(q) == lock' = [u \in Users |-> IF lock[u] = q THEN Nobody ELSE lock[u]]

(* The person is signed in and has the permission.                         *)
Begin(q, op, actor, target) ==
  /\ At(q, "new")
  /\ q \in case.requests /\ op \in case.operations
  /\ case.rows[target] # {Absent}
  /\ actor \in ActiveAdministrators
  /\ op = "create" => kratos[target] = "none" /\ ~user[target].exists
  /\ req' = [req EXCEPT ![q] = [NewRequest EXCEPT !.op = op, !.actor = actor, !.target = target,
                                                  !.step = IF op = "create" THEN "call" ELSE "read"]]
  /\ UNCHANGED <<case, user, kratos, lock>>

(* Mutant: assign_role reads like the others.                              *)
NoneLocking == {}

(* _get_for_update; the others get the user without a lock.                *)
LockingReads == {"make_administrator", "make_operator", "make_engineer"}

NoLongerAdministrator(op, row) ==
  \/ op \in {"make_operator", "make_engineer"} /\ row.role = "administrator"
  \/ op = "deactivate" /\ row.active
  \/ op = "archive" /\ ~row.archived
  \/ op = "delete"

Refused(r, row) ==
  \/ ~row.exists
  \/ row.archived /\ r.op \notin {"archive", "restore", "delete"}
  \/ NoLongerAdministrator(r.op, row) /\ r.actor = r.target

Read(q) ==
  /\ At(q, "read")
  /\ LET r == req[q]
         row == user[r.target]
     IN /\ IF r.op \in LockingReads THEN Take(q, r.target) ELSE UNCHANGED lock
        /\ req' = [req EXCEPT
             ![q].copy = row,
             ![q].step = CASE Refused(r, row) -> "rollback"
                           [] ~Refused(r, row) /\ NoLongerAdministrator(r.op, row)
                                /\ IsActiveAdministrator(row) -> "select"
                           [] ~Refused(r, row) /\ r.op = "activate" -> "call"
                           [] OTHER -> "write"]
  /\ UNCHANGED <<case, user, kratos>>

(* _ensure_administrator_remains: the rows the SELECT finds, by id ...     *)
SelectAdministrators(q) ==
  /\ At(q, "select")
  /\ req' = [req EXCEPT ![q].step = "lock",
                        ![q].todo = ActiveAdministrators]
  /\ UNCHANGED <<case, user, kratos, lock>>

(* ... are locked one by one; a row that was changed meanwhile and is no   *)
(* active administrator's any more is left out.                            *)
TakesNext(q, u) == Take(q, u)

(* Mutant: the SELECT has no ORDER BY.                                     *)
InAnyOrder(q, u) == u \in req[q].todo

IsNext(q, u) == u \in req[q].todo /\ \A v \in req[q].todo : u <= v

LockNext(q) ==
  /\ At(q, "lock")
  /\ \E u \in Users :
       /\ IsNext(q, u)
       /\ TakesNext(q, u)
       /\ req' = [req EXCEPT ![q].todo = @ \ {u},
                             ![q].found = IF IsActiveAdministrator(user[u]) THEN @ \cup {u} ELSE @]
  /\ UNCHANGED <<case, user, kratos>>

AdministratorRemains(q) ==
  /\ At(q, "lock") /\ req[q].todo = {}
  /\ Go(q, IF req[q].found \ {req[q].target} # {} THEN "write" ELSE "rollback")
  /\ UNCHANGED <<case, user, kratos, lock>>

(* Mutant: a call that fails is only logged.                               *)
CallLogged(q, done) ==
  /\ At(q, "call")
  /\ LET r == req[q]
         works == done /\ (r.op = "create" <=> kratos[r.target] = "none")
     IN /\ kratos' = IF works THEN [kratos EXCEPT ![r.target] = "active"] ELSE kratos
        /\ req' = [req EXCEPT ![q].step = "write", ![q].undo = works /\ r.op = "create"]
  /\ UNCHANGED <<case, user, lock>>

(* create_identity and set_active(True), inside the transaction.           *)
Call(q, done) ==
  /\ At(q, "call")
  /\ LET r == req[q]
         works == done /\ (r.op = "create" <=> kratos[r.target] = "none")
     IN /\ kratos' = IF works THEN [kratos EXCEPT ![r.target] = "active"] ELSE kratos
        /\ req' = [req EXCEPT ![q].step = IF works THEN "write" ELSE "rollback",
                              ![q].undo = works /\ r.op = "create"]
  /\ UNCHANGED <<case, user, lock>>

-----------------------------------------------------------------------------
After(op, row) ==
  CASE op = "create" -> Row("active", "operator")
    [] op = "make_administrator" -> [row EXCEPT !.role = "administrator"]
    [] op = "make_operator" -> [row EXCEPT !.role = "operator"]
    [] op = "make_engineer" -> [row EXCEPT !.role = "engineer"]
    [] op \in {"activate", "deactivate"} -> [row EXCEPT !.active = op = "activate"]
    [] op = "archive" -> [row EXCEPT !.archived = TRUE, !.active = FALSE]
    [] op = "restore" -> [row EXCEPT !.archived = FALSE]
    [] op = "delete" -> Absent

Changes(r) == After(r.op, r.copy) # r.copy

(* Only the columns that differ from what was read are in the UPDATE.      *)
Merged(r, row) ==
  LET new == After(r.op, r.copy)
  IN [f \in DOMAIN row |-> IF r.op = "delete" \/ new[f] # r.copy[f] THEN new[f] ELSE row[f]]

(* flush: the UPDATE or DELETE waits for the row, and fails when it is     *)
(* gone.                                                                   *)
Write(q) ==
  /\ At(q, "write")
  /\ LET r == req[q]
     IN /\ IF Changes(r) /\ r.op # "create" THEN Take(q, r.target) ELSE UNCHANGED lock
        /\ Go(q, IF Changes(r) /\ r.op # "create" /\ ~user[r.target].exists
                   THEN "rollback" ELSE "commit")
  /\ UNCHANGED <<case, user, kratos>>

TakesAccess == {"deactivate", "archive", "delete"}

Commit(q) ==
  /\ At(q, "commit")
  /\ user' = IF Changes(req[q])
               THEN [user EXCEPT ![req[q].target] = Merged(req[q], @)] ELSE user
  /\ Release(q)
  /\ Go(q, IF req[q].op \in TakesAccess THEN "effect" ELSE "done")
  /\ UNCHANGED <<case, kratos>>

CommitFails(q) ==
  /\ At(q, "commit")
  /\ Go(q, "rollback")
  /\ UNCHANGED <<case, user, kratos, lock>>

Rollback(q) ==
  /\ At(q, "rollback")
  /\ Release(q)
  /\ Go(q, IF req[q].undo THEN "undo" ELSE "done")
  /\ UNCHANGED <<case, user, kratos>>

(* After the commit: the identity is deactivated and its sessions revoked, *)
(* or it is deleted.  After a rollback: the new identity is deleted.       *)
Identity(q, state) ==
  [kratos EXCEPT ![req[q].target] = IF @ = "none" THEN @ ELSE state]

Effect(q, done) ==
  /\ At(q, "effect")
  /\ Go(q, "done")
  /\ kratos' = IF ~done THEN kratos
               ELSE Identity(q, IF req[q].op = "delete" THEN "none" ELSE "inactive")
  /\ UNCHANGED <<case, user, lock>>

Undo(q, done) ==
  /\ At(q, "undo")
  /\ Go(q, "done")
  /\ kratos' = IF done THEN Identity(q, "none") ELSE kratos
  /\ UNCHANGED <<case, user, lock>>

-----------------------------------------------------------------------------
(* PostgreSQL aborts a transaction of a circle that waits for itself.      *)

Wanted(q) ==
  CASE At(q, "read") /\ req[q].op \in LockingReads -> {req[q].target}
    [] At(q, "lock") -> {u \in Users : IsNext(q, u)}
    [] At(q, "write") /\ Changes(req[q]) /\ req[q].op # "create" -> {req[q].target}
    [] OTHER -> {}

WaitsFor(q, o) == o # q /\ \E u \in Wanted(q) : lock[u] = o

Circle(S) ==
  /\ S # {}
  /\ \A p \in S : (\E o \in S : WaitsFor(p, o)) /\ (\E o \in S : WaitsFor(o, p))

Deadlocked(q) == \E S \in SUBSET Requests : q \in S /\ Circle(S)

Abort(q) ==
  /\ Deadlocked(q)
  /\ Go(q, "rollback")
  /\ UNCHANGED <<case, user, kratos, lock>>

May(failure) == failure \in case.failures

Step(q) ==
  \/ Read(q) \/ SelectAdministrators(q) \/ LockNext(q) \/ AdministratorRemains(q)
  \/ Call(q, TRUE) \/ (May("call") /\ Call(q, FALSE))
  \/ Write(q)
  \/ Commit(q) \/ (May("commit") /\ CommitFails(q)) \/ Rollback(q)
  \/ Effect(q, TRUE) \/ (May("call") /\ Effect(q, FALSE))
  \/ Undo(q, TRUE) \/ (May("call") /\ Undo(q, FALSE))
  \/ Abort(q)

Next ==
  \E q \in Requests :
    \/ \E op \in AllOperations, actor, target \in Users : Begin(q, op, actor, target)
    \/ Step(q)

Spec == Init /\ [][Next]_vars

-----------------------------------------------------------------------------
TypeOK ==
  /\ user \in [Users -> [exists : BOOLEAN, role : {"administrator", "engineer", "operator"},
                         active : BOOLEAN, archived : BOOLEAN]]
  /\ kratos \in [Users -> {"none", "active", "inactive"}]
  /\ lock \in [Users -> Requests \cup {Nobody}]
  /\ \A u \in Users : lock[u] # Nobody =>
       req[lock[u]].step \in {"select", "lock", "write", "call", "commit", "rollback"}

(* LastAdministratorError: at least one active administrator must remain.  *)
OneRemains == ActiveAdministrators # {}

(* A request that no other overtakes leaves no user active whom Kratos     *)
(* does not let in: whatever failed on the way, the two agree or access is *)
(* closed by the row.                                                      *)
ActiveCanSignIn ==
  (\E q \in Requests : case.requests = {q}) /\ Ended =>
    \A u \in Users : user[u].exists /\ user[u].active => kratos[u] = "active"

TakesAway(op) == op \in {"make_operator", "make_engineer", "deactivate", "archive", "delete"}

(* _user.py:283-296: because the check locks the administrators in the     *)
(* order of their ids, checks alone never wait for each other in a circle, *)
(* however many overlap.  What closes one is a target locked outside that  *)
(* order: first, by a change of role that locks whom it reads, or at last, *)
(* by the UPDATE of a target that had left office before the check.  And   *)
(* only requests that take administrators away are aborted for it.         *)
DeadlocksOnlyOverTargets ==
  \A S \in SUBSET Requests : Circle(S) =>
    /\ \A q \in S : TakesAway(req[q].op)
    /\ \E q \in S : req[q].op \in LockingReads \/ At(q, "write")
=============================================================================
