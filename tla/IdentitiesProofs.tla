---------------------------- MODULE IdentitiesProofs ----------------------------
(***************************************************************************)
(* Why an administrator remains and who is in use can sign in: theorems    *)
(* about Administrators, for any users, requests and cases, and over which *)
(* rows its requests deadlock and which of them a deadlock ends.  After    *)
(* them, when the key of a PAK works: theorems about the instance of       *)
(* PakCredentials, and at the end these carried to MCIdentities, in which  *)
(* the two stand side by side.                                             *)
(***************************************************************************)
EXTENDS MCIdentities, WellFoundedInduction, TLAPS

-----------------------------------------------------------------------------
UserRecords ==
  [exists : BOOLEAN, role : {"administrator", "engineer", "operator"},
   active : BOOLEAN, archived : BOOLEAN]

Steps ==
  {"new", "read", "select", "lock", "call", "write", "commit", "rollback", "effect", "undo", "done"}

RequestRecords ==
  [step : Steps, op : AllOperations \cup {"none"}, actor : Users, target : Users,
   copy : UserRecords, todo : SUBSET Users, found : SUBSET Users, undo : BOOLEAN]

TypeInv ==
  /\ case \in Cases
  /\ user \in [Users -> UserRecords]
  /\ kratos \in [Users -> {"none", "active", "inactive"}]
  /\ lock \in [Users -> Requests \cup {Nobody}]
  /\ req \in [Requests -> RequestRecords]

----------------------------------------------------------------------------
(* The rows. *)

LEMMA AbsentType == Absent \in UserRecords
BY DEF Absent, UserRecords

LEMMA RowFacts ==
  ASSUME NEW row \in Rows
  PROVE  /\ row \in UserRecords
         /\ row.exists \/ row = Absent
         /\ row.archived => ~row.active
<1>1. CASE row = Absent
  BY <1>1, AbsentType DEF Absent
<1>2. CASE row # Absent
  <2>1. PICK state \in {"active", "inactive", "archived"}, role \in {"administrator", "operator"} :
          row = Row(state, role)
    BY <1>2 DEF Rows
  <2>2. row = [exists |-> TRUE, role |-> role, active |-> state = "active",
               archived |-> state = "archived"]
    BY <2>1 DEF Row
  <2>3. (state = "active") \in BOOLEAN /\ (state = "archived") \in BOOLEAN
    OBVIOUS
  <2>4. row.exists /\ (row.archived => ~row.active)
    BY <2>2
  <2>5. row \in UserRecords
    BY <2>2, <2>3 DEF UserRecords
  <2> QED BY <2>4, <2>5
<1> QED BY <1>1, <1>2

LEMMA AfterType ==
  ASSUME NEW op \in AllOperations, NEW row \in UserRecords
  PROVE  After(op, row) \in UserRecords
BY DEF After, AllOperations, UserRecords, Absent, Row

(* What a request writes: the columns that differ from what it read. *)
Written(r, row, f) ==
  IF r.op = "delete" \/ After(r.op, r.copy)[f] # r.copy[f] THEN After(r.op, r.copy)[f] ELSE row[f]

LEMMA MergedFields ==
  ASSUME NEW r \in RequestRecords, NEW row \in UserRecords, r.op \in AllOperations
  PROVE  /\ Merged(r, row) \in UserRecords
         /\ Merged(r, row).exists = Written(r, row, "exists")
         /\ Merged(r, row).role = Written(r, row, "role")
         /\ Merged(r, row).active = Written(r, row, "active")
         /\ Merged(r, row).archived = Written(r, row, "archived")
<1> DEFINE F == {"exists", "role", "active", "archived"}
           new == After(r.op, r.copy)
           m == [f \in F |-> IF r.op = "delete" \/ new[f] # r.copy[f] THEN new[f] ELSE row[f]]
<1>1. DOMAIN row = F
  BY DEF UserRecords
<1>2. Merged(r, row) = m
  BY <1>1 DEF Merged
<1>3. new \in UserRecords /\ r.copy \in UserRecords
  BY AfterType DEF RequestRecords
<1>4. /\ m.exists = Written(r, row, "exists") /\ m.role = Written(r, row, "role")
      /\ m.active = Written(r, row, "active") /\ m.archived = Written(r, row, "archived")
  BY DEF Written
<1> HIDE DEF new
<1>5. m \in UserRecords
  BY <1>3 DEF UserRecords
<1> QED BY <1>2, <1>4, <1>5

(* The columns a request can change. *)
LEMMA WrittenColumns ==
  ASSUME NEW r \in RequestRecords, NEW row \in UserRecords, r.op \in AllOperations
  PROVE  LET new == Merged(r, row)
         IN /\ r.op = "delete" => new = Absent
            /\ r.op \notin {"create", "delete"} => new.exists = row.exists
            /\ r.op \in {"activate", "deactivate", "archive", "restore"} => new.role = row.role
            /\ r.op \in {"make_operator", "make_engineer"} =>
                 new.role = row.role \/ new.role # "administrator"
            /\ r.op = "make_administrator" => new.role \in {row.role, "administrator"}
            /\ r.op \in {"make_administrator", "make_operator", "make_engineer", "restore"} =>
                 new.active = row.active
            /\ r.op = "activate" => new.active = row.active \/ new.active
            /\ r.op \in {"deactivate", "archive"} =>
                 (IF r.copy.active THEN ~new.active ELSE new.active = row.active)
            /\ r.op \notin {"archive", "restore", "delete", "create"} => new.archived = row.archived
            /\ r.op = "restore" => new.archived = row.archived \/ ~new.archived
            /\ r.op = "create" /\ r.copy = Absent /\ row = Absent => new = Row("active", "operator")
<1> DEFINE new == Merged(r, row)
<1>1. r.copy \in UserRecords /\ new \in UserRecords
  BY MergedFields DEF RequestRecords
<1>2. /\ new.exists = Written(r, row, "exists") /\ new.role = Written(r, row, "role")
      /\ new.active = Written(r, row, "active") /\ new.archived = Written(r, row, "archived")
  BY MergedFields
<1> HIDE DEF new
<1>3. ASSUME r.op = "delete"
      PROVE  new = Absent
  BY <1>1, <1>2, <1>3 DEF Written, After, Absent, UserRecords
<1>4. ASSUME r.op = "create", r.copy = Absent, row = Absent
      PROVE  new = Row("active", "operator")
  BY <1>1, <1>2, <1>4 DEF Written, After, Absent, Row, UserRecords
<1>5. ASSUME r.op \in {"make_administrator", "make_operator", "make_engineer"}
      PROVE  /\ new.exists = row.exists /\ new.active = row.active /\ new.archived = row.archived
             /\ r.op = "make_administrator" => new.role \in {row.role, "administrator"}
             /\ r.op # "make_administrator" => new.role = row.role \/ new.role # "administrator"
  BY <1>1, <1>2, <1>5 DEF Written, After, UserRecords
<1>6. ASSUME r.op \in {"activate", "deactivate"}
      PROVE  /\ new.exists = row.exists /\ new.role = row.role /\ new.archived = row.archived
             /\ r.op = "activate" => new.active = row.active \/ new.active
             /\ r.op = "deactivate" => (IF r.copy.active THEN ~new.active ELSE new.active = row.active)
  BY <1>1, <1>2, <1>6 DEF Written, After, UserRecords
<1>7. ASSUME r.op = "archive"
      PROVE  /\ new.exists = row.exists /\ new.role = row.role
             /\ IF r.copy.active THEN ~new.active ELSE new.active = row.active
  BY <1>1, <1>2, <1>7 DEF Written, After, UserRecords
<1>8. ASSUME r.op = "restore"
      PROVE  /\ new.exists = row.exists /\ new.role = row.role /\ new.active = row.active
             /\ new.archived = row.archived \/ ~new.archived
  BY <1>1, <1>2, <1>8 DEF Written, After, UserRecords
<1>9. r.op \in {"create", "delete", "archive", "restore", "activate", "deactivate",
                "make_administrator", "make_operator", "make_engineer"}
  BY DEF AllOperations
<1> QED BY <1>3, <1>4, <1>5, <1>6, <1>7, <1>8, <1>9 DEF new

----------------------------------------------------------------------------
(* Types. *)

LEMMA TypeInit == Init => TypeInv
<1> SUFFICES ASSUME Init PROVE TypeInv
  OBVIOUS
<1>1. case \in Cases
  BY DEF Init
<1>2. user \in [Users -> UserRecords]
  <2> QED BY RowFacts DEF Init
<1>3. kratos \in [Users -> {"none", "active", "inactive"}]
  BY DEF Init
<1>4. lock \in [Users -> Requests \cup {Nobody}]
  BY DEF Init
<1>5. NoUser \in Users
  BY DEF Init, ActiveAdministrators, NoUser
<1>6. NewRequest \in RequestRecords
  BY <1>5, AbsentType DEF NewRequest, RequestRecords, Steps
<1>7. req \in [Requests -> RequestRecords]
  BY <1>6 DEF Init
<1> QED BY <1>1, <1>2, <1>3, <1>4, <1>7 DEF TypeInv

LEMMA GoType ==
  ASSUME TypeInv, NEW q \in Requests, NEW step \in Steps, Go(q, step)
  PROVE  req' \in [Requests -> RequestRecords]
BY DEF TypeInv, Go, RequestRecords

LEMMA LockTypes ==
  ASSUME TypeInv, NEW q \in Requests
  PROVE  /\ \A u \in Users : Take(q, u) => lock' \in [Users -> Requests \cup {Nobody}]
         /\ Release(q) => lock' \in [Users -> Requests \cup {Nobody}]
BY DEF TypeInv, Take, Release

LEMMA RequestFields ==
  ASSUME TypeInv, NEW q \in Requests
  PROVE  /\ req[q] \in RequestRecords
         /\ req[q].op \in AllOperations \cup {"none"}
         /\ req[q].step \in Steps
         /\ req[q].target \in Users /\ req[q].actor \in Users
         /\ req[q].copy \in UserRecords
         /\ req[q].todo \subseteq Users /\ req[q].found \subseteq Users
         /\ req[q].undo \in BOOLEAN
         /\ user[req[q].target] \in UserRecords
         /\ kratos[req[q].target] \in {"none", "active", "inactive"}
BY DEF TypeInv, RequestRecords

----------------------------------------------------------------------------
(* How far a request is, and what it has locked. *)

Progress(q) ==
  /\ req[q].step # "new" => /\ q \in case.requests /\ req[q].op \in case.operations
                            /\ req[q].op \in AllOperations
  /\ req[q].step \in {"read", "select", "lock"} => req[q].op # "create"
  /\ req[q].step = "call" => req[q].op \in {"create", "activate"}
  /\ req[q].step = "effect" => req[q].op \in TakesAccess
  /\ req[q].op = "create" => req[q].copy = Absent
  /\ req[q].op # "create" /\ req[q].step \in {"select", "lock", "call", "write", "commit"} =>
       req[q].copy.exists
  /\ req[q].undo => req[q].op = "create"
  /\ req[q].step = "undo" \/ (req[q].op = "create" /\ req[q].step \in {"write", "commit"}) =>
       req[q].undo
  /\ req[q].step \in {"read", "select", "call"} => req[q].found = {}

Locks(q) ==
  /\ req[q].op \in LockingReads /\ req[q].step \in {"select", "lock", "write", "commit"} =>
       lock[req[q].target] = q
  /\ req[q].step \in {"lock", "write", "commit"} => \A u \in req[q].found : lock[u] = q
  /\ req[q].step = "commit" /\ req[q].op # "create" /\ Changes(req[q]) =>
       lock[req[q].target] = q

LocksInv == TypeInv /\ \A q \in Requests : Progress(q) /\ Locks(q)

(* A step of q leaves the other requests and their locks alone. *)
Mine(q) ==
  /\ case' = case
  /\ \A p \in Requests \ {q} : req'[p] = req[p]
  /\ \A p \in Requests \ {q} : \A u \in Users : lock[u] = p => lock'[u] = p

LEMMA LockFacts ==
  ASSUME TypeInv, NEW q \in Requests
  PROVE  /\ \A u \in Users : Take(q, u) =>
              /\ lock'[u] = q
              /\ \A v \in Users : lock[v] = q => lock'[v] = q
              /\ \A p \in Requests \ {q} : \A v \in Users : lock[v] = p => lock'[v] = p
         /\ Release(q) => \A p \in Requests \ {q} : \A v \in Users : lock[v] = p => lock'[v] = p
BY AdministratorsAssumption DEF TypeInv, Take, Free, Release

LEMMA OthersWait ==
  ASSUME LocksInv, NEW q \in Requests, Mine(q), NEW p \in Requests \ {q}
  PROVE  Progress(p)' /\ Locks(p)'
<1>1. Progress(p) /\ Locks(p) /\ req[p] \in RequestRecords
  BY RequestFields DEF LocksInv
<1>2. req'[p] = req[p] /\ case' = case
  BY DEF Mine
<1>3. Progress(p)'
  BY <1>1, <1>2 DEF Progress
<1>4. Locks(p)'
  BY <1>1, <1>2, RequestFields DEF LocksInv, Locks, Mine, Changes
<1> QED BY <1>3, <1>4

LEMMA BeginLocks ==
  ASSUME LocksInv, NEW q \in Requests, NEW op \in AllOperations, NEW actor \in Users,
         NEW target \in Users, Begin(q, op, actor, target)
  PROVE  TypeInv' /\ Mine(q) /\ Progress(q)' /\ Locks(q)'
<1> DEFINE new == [NewRequest EXCEPT !.op = op, !.actor = actor, !.target = target,
                                     !.step = IF op = "create" THEN "call" ELSE "read"]
<1>1. /\ new.step = IF op = "create" THEN "call" ELSE "read"
      /\ new.op = op /\ new.target = target /\ new.copy = Absent
      /\ new.found = {} /\ new.undo = FALSE
  BY DEF NewRequest
<1>2. new \in RequestRecords
  <2>1. NoUser \in Users
    BY DEF NoUser
  <2>2. NewRequest \in RequestRecords
    BY <2>1, AbsentType DEF NewRequest, RequestRecords, Steps
  <2>3. (IF op = "create" THEN "call" ELSE "read") \in Steps
    BY DEF Steps
  <2> QED BY <2>2, <2>3 DEF RequestRecords
<1>3. /\ q \in case.requests /\ op \in case.operations /\ req' = [req EXCEPT ![q] = new]
      /\ UNCHANGED <<case, user, kratos, lock>>
  BY DEF Begin
<1> HIDE DEF new
<1>4. TypeInv /\ req'[q] = new
  BY <1>3 DEF LocksInv, TypeInv
<1>5. TypeInv'
  BY <1>2, <1>3, <1>4 DEF TypeInv
<1>6. Mine(q)
  BY <1>3, <1>4 DEF Mine, TypeInv
<1>7. Progress(q)'
  BY <1>1, <1>3, <1>4 DEF Progress, TakesAccess
<1>8. Locks(q)'
  BY <1>1, <1>4 DEF Locks
<1> QED BY <1>5, <1>6, <1>7, <1>8

LEMMA ReadLocks ==
  ASSUME LocksInv, NEW q \in Requests, Read(q)
  PROVE  TypeInv' /\ Mine(q) /\ Progress(q)' /\ Locks(q)'
<1> DEFINE r == req[q]
           row == user[r.target]
           next == CASE Refused(r, row) -> "rollback"
                     [] ~Refused(r, row) /\ NoLongerAdministrator(r.op, row)
                          /\ IsActiveAdministrator(row) -> "select"
                     [] ~Refused(r, row) /\ r.op = "activate" -> "call"
                     [] OTHER -> "write"
<1>1. /\ r.step = "read" /\ req' = [req EXCEPT ![q].copy = row, ![q].step = next]
      /\ IF r.op \in LockingReads THEN Take(q, r.target) ELSE UNCHANGED lock
      /\ UNCHANGED <<case, user, kratos>>
  BY DEF Read, At
<1>2. /\ TypeInv /\ Progress(q) /\ r \in RequestRecords /\ row \in UserRecords
      /\ r.target \in Users
  BY RequestFields DEF LocksInv
<1>3. /\ next \in {"rollback", "select", "call", "write"}
      /\ next # "rollback" => row.exists
      /\ next = "call" => r.op = "activate"
  <2>1. CASE Refused(r, row)
    BY <2>1
  <2>2. CASE ~Refused(r, row)
    <3>1. row.exists
      BY <2>2 DEF Refused
    <3> QED BY <2>2, <3>1
  <2> QED BY <2>1, <2>2
<1> HIDE DEF next
<1>4. req'[q] = [r EXCEPT !.copy = row, !.step = next]
  BY <1>1, <1>2 DEF TypeInv
<1>5. /\ req'[q].step = next /\ req'[q].copy = row /\ req'[q].op = r.op
      /\ req'[q].target = r.target /\ req'[q].found = r.found /\ req'[q].undo = r.undo
  BY <1>2, <1>4 DEF RequestRecords
<1>6. req'[q] \in RequestRecords
  BY <1>2, <1>3, <1>4 DEF RequestRecords, Steps
<1>7. req' \in [Requests -> RequestRecords]
  BY <1>1, <1>2, <1>6 DEF TypeInv
<1>8. /\ lock' \in [Users -> Requests \cup {Nobody}]
      /\ r.op \in LockingReads => lock'[r.target] = q
      /\ \A p \in Requests \ {q} : \A u \in Users : lock[u] = p => lock'[u] = p
  <2>1. CASE r.op \in LockingReads
    BY <1>1, <1>2, <2>1, LockFacts, LockTypes
  <2>2. CASE r.op \notin LockingReads
    BY <1>1, <1>2, <2>2 DEF TypeInv
  <2> QED BY <2>1, <2>2
<1>9. TypeInv'
  BY <1>1, <1>2, <1>7, <1>8 DEF TypeInv
<1>10. Mine(q)
  BY <1>1, <1>2, <1>8 DEF Mine, TypeInv
<1>11. r.op # "create" /\ r.found = {} /\ ~r.undo
  BY <1>1, <1>2 DEF Progress
<1> HIDE DEF r, row
<1>12. Progress(q)'
  <2>1. Progress(q)
    BY <1>2
  <2> QED BY <1>1, <1>2, <1>3, <1>5, <1>11, <2>1 DEF Progress, r
<1>13. Locks(q)'
  BY <1>3, <1>5, <1>8, <1>11 DEF Locks
<1> QED BY <1>9, <1>10, <1>12, <1>13

(* A step that changes nothing of q but how far it is. *)
LEMMA GoLocks ==
  ASSUME LocksInv, NEW q \in Requests, NEW step \in Steps, Go(q, step),
         UNCHANGED <<case, user>>, kratos' \in [Users -> {"none", "active", "inactive"}],
         lock' \in [Users -> Requests \cup {Nobody}],
         \A p \in Requests \ {q} : \A u \in Users : lock[u] = p => lock'[u] = p
  PROVE  /\ TypeInv' /\ Mine(q)
         /\ req'[q] = [req[q] EXCEPT !.step = step]
         /\ req'[q].step = step /\ req'[q].op = req[q].op /\ req'[q].target = req[q].target
         /\ req'[q].copy = req[q].copy /\ req'[q].found = req[q].found
         /\ req'[q].undo = req[q].undo
<1>1. TypeInv /\ req[q] \in RequestRecords
  BY RequestFields DEF LocksInv
<1>2. req' \in [Requests -> RequestRecords]
  BY <1>1, GoType
<1>3. req' = [req EXCEPT ![q].step = step]
  BY DEF Go
<1>4. TypeInv'
  BY <1>1, <1>2 DEF TypeInv
<1>5. Mine(q)
  BY <1>1, <1>3 DEF Mine, TypeInv
<1>6. req'[q] = [req[q] EXCEPT !.step = step]
  BY <1>1, <1>3 DEF TypeInv
<1> QED BY <1>1, <1>4, <1>5, <1>6 DEF RequestRecords

LEMMA SelectLocks ==
  ASSUME LocksInv, NEW q \in Requests, SelectAdministrators(q)
  PROVE  TypeInv' /\ Mine(q) /\ Progress(q)' /\ Locks(q)'
<1> DEFINE r == req[q]
<1>1. /\ r.step = "select"
      /\ req' = [req EXCEPT ![q].step = "lock", ![q].todo = ActiveAdministrators]
      /\ UNCHANGED <<case, user, kratos, lock>>
  BY DEF SelectAdministrators, At
<1>2. TypeInv /\ Progress(q) /\ Locks(q) /\ r \in RequestRecords
  BY RequestFields DEF LocksInv
<1>3. ActiveAdministrators \subseteq Users
  BY DEF ActiveAdministrators
<1>4. req'[q] = [r EXCEPT !.step = "lock", !.todo = ActiveAdministrators]
  BY <1>1, <1>2 DEF TypeInv
<1>5. /\ req'[q].step = "lock" /\ req'[q].copy = r.copy /\ req'[q].op = r.op
      /\ req'[q].target = r.target /\ req'[q].found = r.found /\ req'[q].undo = r.undo
      /\ req'[q] \in RequestRecords
  BY <1>2, <1>3, <1>4 DEF RequestRecords, Steps
<1>6. TypeInv' /\ Mine(q)
  BY <1>1, <1>2, <1>5 DEF TypeInv, Mine
<1>7. Progress(q)'
  BY <1>1, <1>2, <1>5 DEF Progress
<1>8. Locks(q)'
  BY <1>1, <1>2, <1>5 DEF Progress, Locks
<1> QED BY <1>6, <1>7, <1>8

LEMMA LockNextLocks ==
  ASSUME LocksInv, NEW q \in Requests, LockNext(q)
  PROVE  TypeInv' /\ Mine(q) /\ Progress(q)' /\ Locks(q)'
<1> DEFINE r == req[q]
<1>1. PICK u \in Users :
        /\ r.step = "lock" /\ Take(q, u)
        /\ req' = [req EXCEPT ![q].todo = @ \ {u},
                              ![q].found = IF IsActiveAdministrator(user[u]) THEN @ \cup {u} ELSE @]
        /\ UNCHANGED <<case, user, kratos>>
  BY DEF LockNext, At, TakesNext
<1>2. TypeInv /\ Progress(q) /\ Locks(q) /\ r \in RequestRecords
  BY RequestFields DEF LocksInv
<1> DEFINE found == IF IsActiveAdministrator(user[u]) THEN r.found \cup {u} ELSE r.found
<1>3. req'[q] = [r EXCEPT !.todo = r.todo \ {u}, !.found = found]
  BY <1>1, <1>2 DEF TypeInv
<1>4. found \subseteq r.found \cup {u} /\ found \subseteq Users
  BY <1>2 DEF RequestRecords
<1> HIDE DEF found
<1>5. /\ req'[q].step = r.step /\ req'[q].copy = r.copy /\ req'[q].op = r.op
      /\ req'[q].target = r.target /\ req'[q].found = found /\ req'[q].undo = r.undo
      /\ req'[q] \in RequestRecords
  BY <1>2, <1>3, <1>4 DEF RequestRecords, Steps
<1>6. /\ lock' \in [Users -> Requests \cup {Nobody}] /\ lock'[u] = q
      /\ \A v \in Users : lock[v] = q => lock'[v] = q
      /\ \A p \in Requests \ {q} : \A v \in Users : lock[v] = p => lock'[v] = p
  BY <1>1, <1>2, LockFacts, LockTypes
<1>7. TypeInv' /\ Mine(q)
  BY <1>1, <1>2, <1>5, <1>6 DEF TypeInv, Mine
<1>8. Progress(q)'
  BY <1>1, <1>2, <1>5 DEF Progress
<1>9. r.target \in Users /\ r.found \subseteq Users
  BY <1>2 DEF RequestRecords
<1>10. Locks(q)'
  BY <1>1, <1>2, <1>4, <1>5, <1>6, <1>9 DEF Locks
<1> QED BY <1>7, <1>8, <1>10

LEMMA CallLocks ==
  ASSUME LocksInv, NEW q \in Requests, NEW done \in BOOLEAN, Call(q, done)
  PROVE  /\ TypeInv' /\ Mine(q) /\ Progress(q)' /\ Locks(q)'
         /\ req'[q].step \in {"write", "rollback"} /\ req'[q].op = req[q].op
         /\ req'[q].target = req[q].target /\ req'[q].copy = req[q].copy
         /\ req'[q].step = "write" => kratos'[req[q].target] = "active"
<1> DEFINE r == req[q]
           works == done /\ (r.op = "create" <=> kratos[r.target] = "none")
<1>1. /\ r.step = "call"
      /\ kratos' = IF works THEN [kratos EXCEPT ![r.target] = "active"] ELSE kratos
      /\ req' = [req EXCEPT ![q].step = IF works THEN "write" ELSE "rollback",
                            ![q].undo = works /\ r.op = "create"]
      /\ UNCHANGED <<case, user, lock>>
  BY DEF Call, At
<1>2. TypeInv /\ Progress(q) /\ Locks(q) /\ r \in RequestRecords /\ r.target \in Users
  BY RequestFields DEF LocksInv
<1>3. req'[q] = [r EXCEPT !.step = IF works THEN "write" ELSE "rollback",
                          !.undo = works /\ r.op = "create"]
  BY <1>1, <1>2 DEF TypeInv
<1>4. works \in BOOLEAN /\ (works /\ r.op = "create") \in BOOLEAN
  OBVIOUS
<1> HIDE DEF works
<1>5. /\ req'[q].step = IF works THEN "write" ELSE "rollback"
      /\ req'[q].undo = (works /\ r.op = "create")
      /\ req'[q].copy = r.copy /\ req'[q].op = r.op
      /\ req'[q].target = r.target /\ req'[q].found = r.found
  BY <1>2, <1>3 DEF RequestRecords
<1>6. req'[q] \in RequestRecords
  BY <1>2, <1>3, <1>4 DEF RequestRecords, Steps
<1>7. kratos' \in [Users -> {"none", "active", "inactive"}]
  BY <1>1, <1>2 DEF TypeInv
<1>8. TypeInv' /\ Mine(q)
  BY <1>1, <1>2, <1>6, <1>7 DEF TypeInv, Mine
<1>9. Progress(q)'
  <2>1. /\ req'[q].undo => works /\ r.op = "create"
        /\ works /\ r.op = "create" => req'[q].undo
    BY <1>5, Zenon
  <2>2. /\ req'[q].step \in {"write", "rollback"} /\ (req'[q].step = "write" => works)
        /\ r.op \in {"create", "activate"}
    BY <1>1, <1>2, <1>5 DEF Progress
  <2> QED BY <1>1, <1>2, <1>5, <2>1, <2>2 DEF Progress
<1>10. Locks(q)'
  <2>1. /\ req'[q].step \in {"write", "rollback"} /\ r.op \in {"create", "activate"}
        /\ r.found = {}
    BY <1>1, <1>2, <1>5 DEF Progress
  <2> QED BY <1>5, <2>1 DEF Locks, LockingReads
<1>11. req'[q].step = "write" => kratos'[r.target] = "active"
  BY <1>1, <1>2, <1>5 DEF TypeInv
<1> QED BY <1>5, <1>8, <1>9, <1>10, <1>11

LEMMA RemainsLocks ==
  ASSUME LocksInv, NEW q \in Requests, AdministratorRemains(q)
  PROVE  /\ TypeInv' /\ Mine(q) /\ Progress(q)' /\ Locks(q)'
         /\ req'[q].step \in {"write", "rollback"}
<1> DEFINE next == IF req[q].found \ {req[q].target} # {} THEN "write" ELSE "rollback"
<1>1. /\ req[q].step = "lock" /\ Go(q, next) /\ UNCHANGED <<case, user, kratos, lock>>
  BY DEF AdministratorRemains, At
<1>2. next \in {"write", "rollback"} /\ next \in Steps
  BY DEF Steps
<1> HIDE DEF next
<1>3. TypeInv /\ Progress(q) /\ Locks(q)
  BY DEF LocksInv
<1>4. /\ TypeInv' /\ Mine(q)
      /\ req'[q].step = next /\ req'[q].op = req[q].op /\ req'[q].target = req[q].target
      /\ req'[q].copy = req[q].copy /\ req'[q].found = req[q].found
      /\ req'[q].undo = req[q].undo
  BY <1>1, <1>2, <1>3, GoLocks DEF TypeInv
<1>5. Progress(q)'
  BY <1>1, <1>2, <1>3, <1>4 DEF Progress
<1>6. Locks(q)'
  BY <1>1, <1>2, <1>3, <1>4 DEF Locks
<1> QED BY <1>2, <1>4, <1>5, <1>6

LEMMA WriteLocks ==
  ASSUME LocksInv, NEW q \in Requests, Write(q)
  PROVE  /\ TypeInv' /\ Mine(q) /\ Progress(q)' /\ Locks(q)'
         /\ req'[q].step \in {"commit", "rollback"} /\ req'[q].op = req[q].op
         /\ req'[q].target = req[q].target /\ req'[q].copy = req[q].copy
         /\ req'[q].found = req[q].found
         /\ req'[q].step = "commit" /\ req[q].op # "create" /\ Changes(req[q]) =>
              user[req[q].target].exists
<1> DEFINE r == req[q]
           next == IF Changes(r) /\ r.op # "create" /\ ~user[r.target].exists
                     THEN "rollback" ELSE "commit"
<1>1. /\ r.step = "write" /\ Go(q, next) /\ UNCHANGED <<case, user, kratos>>
      /\ IF Changes(r) /\ r.op # "create" THEN Take(q, r.target) ELSE UNCHANGED lock
  BY DEF Write, At
<1>2. /\ next \in {"commit", "rollback"} /\ next \in Steps
      /\ next = "commit" /\ r.op # "create" /\ Changes(r) => user[r.target].exists
  BY DEF Steps
<1> HIDE DEF next
<1>3. TypeInv /\ Progress(q) /\ Locks(q) /\ r \in RequestRecords /\ r.target \in Users
      /\ r.found \subseteq Users
  BY RequestFields DEF LocksInv
<1>4. /\ lock' \in [Users -> Requests \cup {Nobody}]
      /\ \A v \in Users : lock[v] = q => lock'[v] = q
      /\ \A p \in Requests \ {q} : \A v \in Users : lock[v] = p => lock'[v] = p
      /\ Changes(r) /\ r.op # "create" => lock'[r.target] = q
  <2>1. CASE Changes(r) /\ r.op # "create"
    BY <1>1, <1>3, <2>1, LockFacts, LockTypes
  <2>2. CASE ~(Changes(r) /\ r.op # "create")
    BY <1>1, <1>3, <2>2 DEF TypeInv
  <2> QED BY <2>1, <2>2
<1>5. /\ TypeInv' /\ Mine(q)
      /\ req'[q] = [r EXCEPT !.step = next]
      /\ req'[q].step = next /\ req'[q].op = r.op /\ req'[q].target = r.target
      /\ req'[q].copy = r.copy /\ req'[q].found = r.found /\ req'[q].undo = r.undo
  BY <1>1, <1>2, <1>3, <1>4, GoLocks DEF TypeInv
<1>6. Progress(q)'
  BY <1>1, <1>2, <1>3, <1>5 DEF Progress
<1>7. Changes(req'[q]) = Changes(r)
  BY <1>5 DEF Changes
<1>8. Locks(q)'
  BY <1>1, <1>2, <1>3, <1>4, <1>5, <1>7 DEF Locks
<1> QED BY <1>2, <1>5, <1>6, <1>8

(* What leaves the transaction: its locks no longer matter to q. *)
LEMMA LeaveLocks ==
  ASSUME LocksInv, NEW q \in Requests,
         \/ Commit(q) \/ CommitFails(q) \/ Rollback(q)
         \/ \E done \in BOOLEAN : Effect(q, done) \/ Undo(q, done)
         \/ Abort(q)
  PROVE  /\ TypeInv' /\ Mine(q) /\ Progress(q)' /\ Locks(q)'
         /\ req'[q].step \in {"effect", "rollback", "undo", "done"}
         /\ req'[q].op = req[q].op /\ req'[q].target = req[q].target
         /\ req'[q].undo = req[q].undo
<1>1. /\ TypeInv /\ Progress(q) /\ Locks(q) /\ req[q] \in RequestRecords /\ req[q].target \in Users
  BY RequestFields DEF LocksInv
<1>2. /\ {"effect", "rollback", "undo", "done"} \subseteq Steps
  BY DEF Steps
<1>3. CASE Commit(q)
  <2> DEFINE next == IF req[q].op \in TakesAccess THEN "effect" ELSE "done"
  <2>1. /\ req[q].step = "commit" /\ Release(q) /\ Go(q, next) /\ UNCHANGED <<case, kratos>>
        /\ user' = IF Changes(req[q])
                     THEN [user EXCEPT ![req[q].target] = Merged(req[q], @)] ELSE user
    BY <1>3 DEF Commit, At
  <2>2. next \in {"effect", "done"} /\ (next = "effect" => req[q].op \in TakesAccess)
    OBVIOUS
  <2> HIDE DEF next
  <2>3. /\ req'[q].step = next /\ req'[q].op = req[q].op /\ req'[q].target = req[q].target
        /\ req'[q].copy = req[q].copy /\ req'[q].undo = req[q].undo
    BY <1>1, <2>1 DEF Go, TypeInv, RequestRecords
  <2>4. req' \in [Requests -> RequestRecords]
    BY <1>1, <1>2, <2>1, <2>2, GoType
  <2>5. req[q].op \in AllOperations
    BY <1>1, <2>1 DEF Progress
  <2>6. user' \in [Users -> UserRecords]
    <3>1. Merged(req[q], user[req[q].target]) \in UserRecords
      BY <1>1, <2>5, MergedFields DEF TypeInv
    <3> QED BY <1>1, <2>1, <3>1 DEF TypeInv
  <2>7. /\ lock' \in [Users -> Requests \cup {Nobody}]
        /\ \A p \in Requests \ {q} : \A v \in Users : lock[v] = p => lock'[v] = p
    BY <1>1, <2>1, LockFacts, LockTypes
  <2>8. TypeInv'
    BY <1>1, <2>1, <2>4, <2>6, <2>7 DEF TypeInv
  <2>9. Mine(q)
    BY <1>1, <2>1, <2>7 DEF Mine, Go, TypeInv
  <2>10. Progress(q)'
    BY <1>1, <2>1, <2>2, <2>3 DEF Progress
  <2>11. Locks(q)'
    BY <2>2, <2>3 DEF Locks
  <2> QED BY <2>2, <2>3, <2>8, <2>9, <2>10, <2>11
<1>4. ASSUME NEW next \in {"rollback", "undo", "done"}, Go(q, next), req[q].step # "new",
             UNCHANGED <<case, user>>, lock' = lock \/ Release(q),
             kratos' \in [Users -> {"none", "active", "inactive"}],
             next = "undo" => req[q].undo
      PROVE  /\ TypeInv' /\ Mine(q) /\ Progress(q)' /\ Locks(q)'
             /\ req'[q].step \in {"effect", "rollback", "undo", "done"}
             /\ req'[q].op = req[q].op /\ req'[q].target = req[q].target
             /\ req'[q].undo = req[q].undo
  <2>1. next \in Steps
    BY <1>2
  <2>2. /\ lock' \in [Users -> Requests \cup {Nobody}]
        /\ \A p \in Requests \ {q} : \A v \in Users : lock[v] = p => lock'[v] = p
    BY <1>1, <1>4, LockFacts, LockTypes DEF TypeInv
  <2>3. /\ TypeInv' /\ Mine(q)
        /\ req'[q].step = next /\ req'[q].op = req[q].op /\ req'[q].target = req[q].target
        /\ req'[q].copy = req[q].copy /\ req'[q].found = req[q].found
        /\ req'[q].undo = req[q].undo
    BY <1>4, <2>1, <2>2, GoLocks
  <2>4. Progress(q)'
    BY <1>1, <1>4, <2>3 DEF Progress
  <2>5. Locks(q)'
    BY <1>4, <2>3 DEF Locks
  <2> QED BY <2>3, <2>4, <2>5
<1>5. CASE CommitFails(q)
  BY <1>1, <1>4, <1>5 DEF CommitFails, At, TypeInv
<1>6. CASE Rollback(q)
  <2>1. CASE req[q].undo
    BY <1>1, <1>4, <1>6, <2>1 DEF Rollback, At, TypeInv
  <2>2. CASE ~req[q].undo
    BY <1>1, <1>4, <1>6, <2>2 DEF Rollback, At, TypeInv
  <2> QED BY <2>1, <2>2
<1>7. ASSUME NEW done \in BOOLEAN, Effect(q, done) \/ Undo(q, done)
      PROVE  /\ Go(q, "done") /\ UNCHANGED <<case, user, lock>> /\ req[q].step # "new"
             /\ kratos' \in [Users -> {"none", "active", "inactive"}]
  BY <1>1, <1>7 DEF Effect, Undo, At, Identity, TypeInv
<1>8. CASE Abort(q)
  <2>1. PICK S \in SUBSET Requests : q \in S /\ \A p \in S : \E o \in S : WaitsFor(p, o)
    BY <1>8 DEF Abort, Deadlocked, Circle
  <2>2. Wanted(q) # {}
    BY <2>1 DEF WaitsFor
  <2>3. req[q].step # "new"
    BY <2>2 DEF Wanted, At
  <2> QED BY <1>1, <1>4, <1>8, <2>3 DEF Abort, TypeInv
<1>9. CASE \E done \in BOOLEAN : Effect(q, done) \/ Undo(q, done)
  BY <1>4, <1>7, <1>9
<1> QED BY <1>3, <1>5, <1>6, <1>8, <1>9

(* The steps of a request, by what they do. *)
Prepares(q) ==
  \/ Read(q) \/ SelectAdministrators(q) \/ LockNext(q) \/ AdministratorRemains(q) \/ Write(q)
Leaves(q) == CommitFails(q) \/ Rollback(q) \/ Abort(q)
Begins(q) == \E op \in AllOperations, actor, target \in Users : Begin(q, op, actor, target)

LEMMA StepCases ==
  ASSUME Next
  PROVE  \E q \in Requests :
           \/ Begins(q) \/ Prepares(q) \/ Leaves(q) \/ Commit(q)
           \/ \E done \in BOOLEAN : Call(q, done) \/ Effect(q, done) \/ Undo(q, done)
<1>1. PICK q \in Requests : Begins(q) \/ Step(q)
  BY DEF Next, Begins
<1>2. CASE Step(q)
  BY <1>2 DEF Step, Prepares, Leaves
<1> QED BY <1>1, <1>2

LEMMA EveryStepLocks ==
  ASSUME LocksInv, NEW q \in Requests,
         \/ Begins(q) \/ Prepares(q) \/ Leaves(q) \/ Commit(q)
         \/ \E done \in BOOLEAN : Call(q, done) \/ Effect(q, done) \/ Undo(q, done)
  PROVE  LocksInv' /\ Mine(q)
<1>1. TypeInv' /\ Mine(q) /\ Progress(q)' /\ Locks(q)'
  <2>1. CASE Begins(q)
    BY <2>1, BeginLocks DEF Begins
  <2>2. CASE Prepares(q)
    BY <2>2, ReadLocks, SelectLocks, LockNextLocks, RemainsLocks, WriteLocks DEF Prepares
  <2>3. CASE Leaves(q) \/ Commit(q)
    BY <2>3, LeaveLocks DEF Leaves
  <2>4. ASSUME NEW done \in BOOLEAN, Effect(q, done) \/ Undo(q, done)
        PROVE  TypeInv' /\ Mine(q) /\ Progress(q)' /\ Locks(q)'
    BY <2>4, LeaveLocks
  <2>5. ASSUME NEW done \in BOOLEAN, Call(q, done)
        PROVE  TypeInv' /\ Mine(q) /\ Progress(q)' /\ Locks(q)'
    BY <2>5, CallLocks
  <2> QED BY <2>1, <2>2, <2>3, <2>4, <2>5
<1>2. \A p \in Requests \ {q} : Progress(p)' /\ Locks(p)'
  BY <1>1, OthersWait
<1> QED BY <1>1, <1>2 DEF LocksInv

LEMMA LocksInit == Init => LocksInv
<1> SUFFICES ASSUME Init PROVE LocksInv
  OBVIOUS
<1>1. \A q \in Requests : req[q] = NewRequest
  BY DEF Init
<1>2. \A q \in Requests : Progress(q) /\ Locks(q)
  BY <1>1 DEF Progress, Locks, NewRequest
<1> QED BY <1>2, TypeInit DEF LocksInv

LEMMA LocksStutter == LocksInv /\ UNCHANGED vars => LocksInv'
BY DEF LocksInv, TypeInv, Progress, Locks, Changes, vars

(* A request holds its locks, and knows whom it asks about, to its end. *)
LEMMA LocksKept == Spec => []LocksInv
<1>1. LocksInv /\ [Next]_vars => LocksInv'
  BY StepCases, EveryStepLocks, LocksStutter
<1> QED BY LocksInit, <1>1, PTL DEF Spec

----------------------------------------------------------------------------
(* What a request has read, and who answers for an identity. *)

(* What q has read under a lock is still so. *)
Reading(q) ==
  /\ req[q].op \in LockingReads /\ req[q].step \in {"select", "lock", "write", "commit"} =>
       req[q].copy = user[req[q].target]
  /\ req[q].step \in {"lock", "write", "commit"} =>
       \A u \in req[q].found : IsActiveAdministrator(user[u])
  /\ req[q].step = "commit" /\ req[q].op # "create" /\ Changes(req[q]) =>
       user[req[q].target].exists

(* q has made the identity of user u, and no row yet, or has deleted the     *)
(* row of u, and not yet the identity.                                     *)
Answers(q, u) ==
  /\ req[q].target = u
  /\ \/ /\ req[q].op = "create" /\ req[q].undo
        /\ req[q].step \in {"write", "commit", "rollback", "undo"}
     \/ req[q].op = "delete" /\ req[q].step = "effect"

Identities ==
  \A u \in Users :
    /\ user[u].exists \/ user[u] = Absent
    /\ user[u].exists => kratos[u] # "none"
    /\ \A q \in Requests : Answers(q, u) => ~user[u].exists /\ kratos[u] # "none"
    /\ \A p, q \in Requests : Answers(p, u) /\ Answers(q, u) => p = q

ReadInv == LocksInv /\ Identities /\ \A q \in Requests : Reading(q)

(* q changes no row another has locked. *)
WritesOwn(q) ==
  \A u \in Users : user'[u] # user[u] => lock[u] = q \/ ~user[u].exists

LEMMA OthersRead ==
  ASSUME ReadInv, NEW q \in Requests, Mine(q), WritesOwn(q), NEW p \in Requests \ {q}
  PROVE  Reading(p)'
<1>1. Reading(p) /\ Progress(p) /\ Locks(p)
  BY DEF ReadInv, LocksInv
<1>2. req[p].target \in Users /\ req[p].found \subseteq Users
  BY RequestFields DEF ReadInv, LocksInv
<1>3. req'[p] = req[p]
  BY DEF Mine
<1>4. \A u \in Users : lock[u] = p /\ user[u].exists => user'[u] = user[u]
  BY DEF WritesOwn
<1>5. ASSUME req[p].op \in LockingReads, req[p].step \in {"select", "lock", "write", "commit"}
      PROVE  req[p].copy = user'[req[p].target]
  <2>1. req[p].op # "create"
    BY <1>5 DEF LockingReads
  <2>2. req[p].copy = user[req[p].target] /\ req[p].copy.exists /\ lock[req[p].target] = p
    BY <1>1, <1>5, <2>1 DEF Reading, Progress, Locks
  <2> QED BY <1>2, <1>4, <2>2
<1>6. ASSUME req[p].step \in {"lock", "write", "commit"}, NEW u \in req[p].found
      PROVE  IsActiveAdministrator(user'[u])
  <2>1. IsActiveAdministrator(user[u]) /\ lock[u] = p /\ u \in Users
    BY <1>1, <1>2, <1>6 DEF Reading, Locks
  <2> QED BY <1>4, <2>1 DEF IsActiveAdministrator
<1>7. ASSUME req[p].step = "commit", req[p].op # "create", Changes(req[p])
      PROVE  user'[req[p].target].exists
  <2>1. user[req[p].target].exists /\ lock[req[p].target] = p
    BY <1>1, <1>7 DEF Reading, Locks
  <2> QED BY <1>2, <1>4, <2>1
<1> QED BY <1>3, <1>5, <1>6, <1>7 DEF Reading, Changes

(* Nothing is written, and q answers for nobody new. *)
LEMMA SameIdentities ==
  ASSUME ReadInv, NEW q \in Requests, Mine(q), UNCHANGED <<user, kratos>>,
         \A u \in Users : Answers(q, u)' => Answers(q, u)
  PROVE  Identities' /\ WritesOwn(q)
<1>1. \A p \in Requests, u \in Users : Answers(p, u)' => Answers(p, u)
  BY DEF Mine, Answers
<1> QED BY <1>1 DEF ReadInv, Identities, WritesOwn

LEMMA BeginsRead ==
  ASSUME ReadInv, NEW q \in Requests, Begins(q)
  PROVE  Identities' /\ WritesOwn(q) /\ Reading(q)'
<1>1. PICK op \in AllOperations, actor \in Users, target \in Users : Begin(q, op, actor, target)
  BY DEF Begins
<1>2. Mine(q) /\ TypeInv
  BY <1>1, BeginLocks DEF ReadInv, LocksInv
<1>3. UNCHANGED <<user, kratos>> /\ req'[q].step \in {"call", "read"} /\ ~req'[q].undo
  BY <1>1, <1>2 DEF Begin, NewRequest, TypeInv
<1>4. \A u \in Users : ~Answers(q, u)'
  BY <1>3 DEF Answers
<1>5. Reading(q)'
  BY <1>3 DEF Reading
<1> QED BY <1>2, <1>3, <1>4, <1>5, SameIdentities

LEMMA PreparesRead ==
  ASSUME ReadInv, NEW q \in Requests, Prepares(q)
  PROVE  Identities' /\ WritesOwn(q) /\ Reading(q)'
<1>1. /\ TypeInv /\ Progress(q) /\ Locks(q) /\ Reading(q) /\ req[q] \in RequestRecords
      /\ req[q].target \in Users /\ Mine(q) /\ Progress(q)'
  BY RequestFields, EveryStepLocks DEF ReadInv, LocksInv
<1>2. UNCHANGED <<user, kratos>>
  BY DEF Prepares, Read, SelectAdministrators, LockNext, AdministratorRemains, Write
<1>3. CASE Read(q)
  <2> DEFINE r == req[q]
             row == user[r.target]
             next == CASE Refused(r, row) -> "rollback"
                       [] ~Refused(r, row) /\ NoLongerAdministrator(r.op, row)
                            /\ IsActiveAdministrator(row) -> "select"
                       [] ~Refused(r, row) /\ r.op = "activate" -> "call"
                       [] OTHER -> "write"
  <2>1. r.step = "read" /\ req' = [req EXCEPT ![q].copy = row, ![q].step = next]
    BY <1>3 DEF Read, At
  <2>2. next \in {"rollback", "select", "call", "write"}
    OBVIOUS
  <2> HIDE DEF next
  <2>3. /\ req'[q].step = next /\ req'[q].copy = row /\ req'[q].op = r.op
        /\ req'[q].target = r.target /\ req'[q].found = r.found /\ req'[q].undo = r.undo
    BY <1>1, <2>1 DEF TypeInv, RequestRecords
  <2>4. r.found = {} /\ r.op # "create"
    BY <1>1, <2>1 DEF Progress
  <2>5. \A u \in Users : ~Answers(q, u)'
    BY <2>2, <2>3, <2>4 DEF Answers
  <2>6. Reading(q)'
    BY <1>2, <2>2, <2>3, <2>4 DEF Reading
  <2> QED BY <1>1, <1>2, <2>5, <2>6, SameIdentities
<1>4. CASE SelectAdministrators(q)
  <2>1. /\ req[q].step = "select" /\ req'[q].step = "lock" /\ req'[q].copy = req[q].copy
        /\ req'[q].op = req[q].op /\ req'[q].target = req[q].target
        /\ req'[q].found = req[q].found /\ req'[q].undo = req[q].undo
    BY <1>1, <1>4 DEF SelectAdministrators, At, TypeInv, RequestRecords
  <2>2. req[q].found = {} /\ req[q].op # "create"
    BY <1>1, <2>1 DEF Progress
  <2>3. \A u \in Users : ~Answers(q, u)'
    BY <2>1, <2>2 DEF Answers
  <2>4. Reading(q)'
    BY <1>1, <1>2, <2>1, <2>2 DEF Reading
  <2> QED BY <1>1, <1>2, <2>3, <2>4, SameIdentities
<1>5. CASE LockNext(q)
  <2>1. PICK u \in Users :
          /\ req[q].step = "lock"
          /\ req' = [req EXCEPT ![q].todo = @ \ {u},
                                ![q].found = IF IsActiveAdministrator(user[u]) THEN @ \cup {u} ELSE @]
    BY <1>5 DEF LockNext, At
  <2>2. /\ req'[q].step = "lock" /\ req'[q].copy = req[q].copy /\ req'[q].op = req[q].op
        /\ req'[q].target = req[q].target /\ req'[q].undo = req[q].undo
        /\ req'[q].found = IF IsActiveAdministrator(user[u]) THEN req[q].found \cup {u} ELSE req[q].found
    BY <1>1, <2>1 DEF TypeInv, RequestRecords
  <2>3. req[q].op # "create"
    BY <1>1, <2>1 DEF Progress
  <2>4. \A v \in Users : ~Answers(q, v)'
    BY <2>2, <2>3 DEF Answers
  <2>5. \A v \in req'[q].found : IsActiveAdministrator(user'[v])
    <3>1. \A v \in req[q].found : IsActiveAdministrator(user[v])
      BY <1>1, <2>1 DEF Reading
    <3>2. CASE IsActiveAdministrator(user[u])
      BY <1>2, <2>2, <3>1, <3>2
    <3>3. CASE ~IsActiveAdministrator(user[u])
      BY <1>2, <2>2, <3>1, <3>3
    <3> QED BY <3>2, <3>3
  <2>6. Reading(q)'
    <3>1. user' = user /\ req'[q].step = "lock"
      BY <1>2, <2>2
    <3> QED BY <1>1, <2>1, <2>2, <2>5, <3>1 DEF Reading
  <2> QED BY <1>1, <1>2, <2>4, <2>6, SameIdentities
<1>6. CASE AdministratorRemains(q)
  <2> DEFINE next == IF req[q].found \ {req[q].target} # {} THEN "write" ELSE "rollback"
  <2>1. req[q].step = "lock" /\ Go(q, next)
    BY <1>6 DEF AdministratorRemains, At
  <2>2. next \in {"write", "rollback"}
    OBVIOUS
  <2> HIDE DEF next
  <2>3. /\ req'[q].step = next /\ req'[q].copy = req[q].copy /\ req'[q].op = req[q].op
        /\ req'[q].target = req[q].target /\ req'[q].found = req[q].found
        /\ req'[q].undo = req[q].undo
    BY <1>1, <2>1 DEF Go, TypeInv, RequestRecords
  <2>4. req[q].op # "create"
    BY <1>1, <2>1 DEF Progress
  <2>5. \A u \in Users : ~Answers(q, u)'
    BY <2>2, <2>3, <2>4 DEF Answers
  <2>6. Reading(q)'
    BY <1>1, <1>2, <2>1, <2>2, <2>3 DEF Reading
  <2> QED BY <1>1, <1>2, <2>5, <2>6, SameIdentities
<1>7. CASE Write(q)
  <2>1. /\ req[q].step = "write" /\ req'[q].step \in {"commit", "rollback"}
        /\ req'[q].op = req[q].op /\ req'[q].target = req[q].target
        /\ req'[q].copy = req[q].copy /\ req'[q].found = req[q].found
        /\ req'[q].step = "commit" /\ req[q].op # "create" /\ Changes(req[q]) =>
             user[req[q].target].exists
    BY <1>7, WriteLocks DEF Write, At, ReadInv
  <2>2. req'[q].undo = req[q].undo
    BY <1>1, <1>7 DEF Write, Go, TypeInv, RequestRecords
  <2>3. \A u \in Users : Answers(q, u)' => Answers(q, u)
    BY <2>1, <2>2 DEF Answers
  <2>4. Reading(q)'
    BY <1>1, <1>2, <2>1 DEF Reading, Changes
  <2> QED BY <1>1, <1>2, <2>3, <2>4, SameIdentities
<1> QED BY <1>3, <1>4, <1>5, <1>6, <1>7 DEF Prepares

LEMMA LeavesRead ==
  ASSUME ReadInv, NEW q \in Requests, Leaves(q)
  PROVE  Identities' /\ WritesOwn(q) /\ Reading(q)'
<1>1. /\ TypeInv /\ Progress(q) /\ req[q] \in RequestRecords /\ Mine(q) /\ LocksInv
  BY RequestFields, EveryStepLocks DEF ReadInv, LocksInv
<1>2. UNCHANGED <<user, kratos>>
  BY DEF Leaves, CommitFails, Rollback, Abort
<1>3. /\ req'[q].op = req[q].op /\ req'[q].target = req[q].target /\ req'[q].undo = req[q].undo
  BY <1>1, LeaveLocks DEF Leaves
<1>4. /\ req'[q].step \in {"rollback", "undo", "done"}
      /\ req[q].op = "create" => req[q].step \in {"commit", "rollback"}
  <2>1. CASE CommitFails(q)
    BY <1>1, <2>1 DEF CommitFails, Go, At, TypeInv, RequestRecords
  <2>2. CASE Rollback(q)
    <3> DEFINE next == IF req[q].undo THEN "undo" ELSE "done"
    <3>1. Go(q, next) /\ req[q].step = "rollback" /\ next \in {"undo", "done"}
      BY <2>2 DEF Rollback, At
    <3> QED BY <1>1, <3>1 DEF Go, TypeInv, RequestRecords
  <2>3. CASE Abort(q)
    <3>1. PICK S \in SUBSET Requests : q \in S /\ \A p \in S : \E o \in S : WaitsFor(p, o)
      BY <2>3 DEF Abort, Deadlocked, Circle
    <3>2. Wanted(q) # {}
      BY <3>1 DEF WaitsFor
    <3>3. req[q].op # "create"
      BY <1>1, <3>2 DEF Wanted, At, Progress
    <3>4. req'[q].step = "rollback"
      BY <1>1, <2>3 DEF Abort, Go, TypeInv, RequestRecords
    <3> QED BY <3>3, <3>4
  <2> QED BY <2>1, <2>2, <2>3 DEF Leaves
<1>5. \A u \in Users : Answers(q, u)' => Answers(q, u)
  BY <1>3, <1>4 DEF Answers
<1>6. Reading(q)'
  BY <1>4 DEF Reading
<1> QED BY <1>1, <1>2, <1>5, <1>6, SameIdentities

LEMMA CallRead ==
  ASSUME ReadInv, NEW q \in Requests, NEW done \in BOOLEAN, Call(q, done)
  PROVE  Identities' /\ WritesOwn(q) /\ Reading(q)'
<1> DEFINE r == req[q]
           works == done /\ (r.op = "create" <=> kratos[r.target] = "none")
<1>1. /\ TypeInv /\ Progress(q) /\ r \in RequestRecords /\ r.target \in Users /\ Mine(q)
      /\ LocksInv
  BY RequestFields, CallLocks DEF ReadInv, LocksInv
<1>2. /\ r.step = "call"
      /\ kratos' = IF works THEN [kratos EXCEPT ![r.target] = "active"] ELSE kratos
      /\ req' = [req EXCEPT ![q].step = IF works THEN "write" ELSE "rollback",
                            ![q].undo = works /\ r.op = "create"]
      /\ user' = user
  BY DEF Call, At
<1>3. /\ req'[q].step \in {"write", "rollback"} /\ req'[q].op = r.op /\ req'[q].target = r.target
  BY <1>1, CallLocks
<1>4. req'[q].found = r.found /\ r.found = {} /\ r.op \notin LockingReads
  BY <1>1, <1>2 DEF TypeInv, RequestRecords, Progress, LockingReads
<1>5. Reading(q)'
  BY <1>3, <1>4 DEF Reading
<1>6. WritesOwn(q)
  BY <1>2 DEF WritesOwn
<1>7. req'[q].undo => works /\ r.op = "create"
  <2>1. req'[q].undo = (works /\ r.op = "create")
    <3> HIDE DEF works
    <3> QED BY <1>1, <1>2 DEF TypeInv, RequestRecords
  <2> QED BY <2>1, Zenon
<1>8. \A p \in Requests \ {q}, u \in Users : Answers(p, u)' => Answers(p, u)
  BY <1>1 DEF Mine, Answers
<1>9. \A u \in Users : Answers(q, u)' =>
        /\ u = r.target /\ works /\ kratos[u] = "none" /\ kratos'[u] = "active"
  BY <1>1, <1>2, <1>3, <1>7 DEF Answers, TypeInv
<1>10. \A u \in Users : kratos[u] # "none" => kratos'[u] # "none"
  BY <1>1, <1>2 DEF TypeInv
<1>11. \A u \in Users : kratos[u] = "none" => ~user[u].exists /\ \A p \in Requests : ~Answers(p, u)
  BY DEF ReadInv, Identities
<1> HIDE DEF works
<1>12. Identities'
  <2> SUFFICES ASSUME NEW u \in Users
               PROVE  /\ user'[u].exists \/ user'[u] = Absent
                      /\ user'[u].exists => kratos'[u] # "none"
                      /\ \A p \in Requests : Answers(p, u)' => ~user'[u].exists /\ kratos'[u] # "none"
                      /\ \A p, o \in Requests : Answers(p, u)' /\ Answers(o, u)' => p = o
    BY DEF Identities
  <2>1. /\ user[u].exists \/ user[u] = Absent
        /\ user[u].exists => kratos[u] # "none"
        /\ \A p \in Requests : Answers(p, u) => ~user[u].exists /\ kratos[u] # "none"
        /\ \A p, o \in Requests : Answers(p, u) /\ Answers(o, u) => p = o
    BY DEF ReadInv, Identities
  <2>2. CASE Answers(q, u)'
    <3>1. ~user[u].exists /\ kratos'[u] # "none" /\ \A p \in Requests \ {q} : ~Answers(p, u)'
      BY <1>8, <1>9, <1>11, <2>2
    <3> QED BY <1>2, <2>1, <3>1
  <2>3. CASE ~Answers(q, u)'
    <3>1. \A p \in Requests : Answers(p, u)' => Answers(p, u)
      BY <1>8, <2>3
    <3> QED BY <1>2, <1>10, <2>1, <3>1
  <2> QED BY <2>2, <2>3
<1> QED BY <1>5, <1>6, <1>12

(* After the transaction q answers for the identity alone, so whatever it    *)
(* does to it is done to no one else.                                      *)
LEMMA AfterwardsRead ==
  ASSUME ReadInv, NEW q \in Requests, NEW done \in BOOLEAN, Effect(q, done) \/ Undo(q, done)
  PROVE  Identities' /\ WritesOwn(q) /\ Reading(q)'
<1> DEFINE r == req[q]
<1>1. /\ TypeInv /\ Progress(q) /\ r \in RequestRecords /\ r.target \in Users /\ Mine(q)
      /\ LocksInv
  BY RequestFields, EveryStepLocks DEF ReadInv, LocksInv
<1>2. /\ r.step \in {"effect", "undo"} /\ Go(q, "done") /\ user' = user
      /\ r.step = "undo" => r.op = "create" /\ r.undo
      /\ r.step = "effect" => r.op \in TakesAccess
  BY <1>1 DEF Effect, Undo, At, Progress
<1>3. req'[q].step = "done"
  BY <1>1, <1>2 DEF Go, TypeInv, RequestRecords
<1>4. Reading(q)' /\ WritesOwn(q)
  BY <1>2, <1>3 DEF Reading, WritesOwn
<1>5. \A p \in Requests, u \in Users : Answers(p, u)' => p # q /\ Answers(p, u)
  BY <1>1, <1>3 DEF Mine, Answers
<1>6. \A u \in Users : kratos'[u] = "none" => kratos[u] = "none" \/ Answers(q, u)
  <2>1. CASE r.step = "undo"
    <3>1. kratos' = kratos \/ kratos' = Identity(q, "none")
      BY <1>2, <2>1 DEF Effect, Undo, At
    <3>2. Answers(q, r.target)
      BY <1>2, <2>1 DEF Answers
    <3> QED BY <1>1, <3>1, <3>2 DEF Identity, TypeInv
  <2>2. CASE r.step = "effect" /\ r.op = "delete"
    <3>1. kratos' = kratos \/ kratos' = Identity(q, "none")
      BY <1>2, <2>2 DEF Effect, Undo, At
    <3>2. Answers(q, r.target)
      BY <1>2, <2>2 DEF Answers
    <3> QED BY <1>1, <3>1, <3>2 DEF Identity, TypeInv
  <2>3. CASE r.step = "effect" /\ r.op # "delete"
    <3>1. kratos' = kratos \/ kratos' = Identity(q, "inactive")
      BY <1>2, <2>3 DEF Effect, Undo, At
    <3> QED BY <1>1, <3>1 DEF Identity, TypeInv
  <2> QED BY <1>2, <2>1, <2>2, <2>3
<1>7. Identities'
  BY <1>2, <1>5, <1>6 DEF ReadInv, Identities
<1> QED BY <1>4, <1>7

(* What a commit makes of the row of its target. *)
LEMMA CommitWrites ==
  ASSUME ReadInv, NEW q \in Requests, Commit(q)
  PROVE  LET r == req[q]
             u == r.target
         IN /\ r.step = "commit" /\ r.op \in AllOperations /\ r \in RequestRecords /\ u \in Users
            /\ \A v \in Users \ {u} : user'[v] = user[v]
            /\ user'[u] = IF Changes(r) THEN Merged(r, user[u]) ELSE user[u]
            /\ Changes(r) => \/ r.op = "create" /\ user[u] = Absent /\ Answers(q, u)
                             \/ r.op # "create" /\ lock[u] = q /\ user[u].exists
            /\ r.op = "delete" => Changes(r)
            /\ kratos' = kratos
<1> DEFINE r == req[q]
           u == r.target
<1>1. TypeInv /\ Progress(q) /\ Locks(q) /\ Reading(q) /\ r \in RequestRecords /\ u \in Users
  BY RequestFields DEF ReadInv, LocksInv
<1>2. /\ r.step = "commit" /\ kratos' = kratos
      /\ user' = IF Changes(r) THEN [user EXCEPT ![u] = Merged(r, @)] ELSE user
  BY DEF Commit, At
<1>3. r.op \in AllOperations
  BY <1>1, <1>2 DEF Progress
<1>4. /\ \A v \in Users \ {u} : user'[v] = user[v]
      /\ user'[u] = IF Changes(r) THEN Merged(r, user[u]) ELSE user[u]
  BY <1>1, <1>2 DEF TypeInv
<1>5. CASE r.op = "create"
  <2>1. Answers(q, u)
    BY <1>1, <1>2, <1>5 DEF Progress, Answers
  <2>2. user[u] = Absent
    BY <1>1, <2>1 DEF ReadInv, Identities
  <2> QED BY <1>1, <1>2, <1>3, <1>4, <1>5, <2>1, <2>2
<1>6. CASE r.op # "create"
  <2>1. Changes(r) => lock[u] = q /\ user[u].exists
    BY <1>1, <1>2, <1>6 DEF Locks, Reading
  <2>2. r.op = "delete" => Changes(r)
    BY <1>1, <1>2, <1>6 DEF Progress, Changes, After, Absent
  <2> QED BY <1>1, <1>2, <1>3, <1>4, <1>6, <2>1, <2>2
<1> QED BY <1>5, <1>6

LEMMA CommitRead ==
  ASSUME ReadInv, NEW q \in Requests, Commit(q)
  PROVE  Identities' /\ WritesOwn(q) /\ Reading(q)'
<1>0. PICK u \in Users : u = req[q].target
  BY RequestFields DEF ReadInv, LocksInv
<1> DEFINE r == req[q]
<1>1. /\ TypeInv /\ Progress(q) /\ Mine(q) /\ LocksInv
  BY EveryStepLocks DEF ReadInv, LocksInv
<1>2. /\ r.step = "commit" /\ r.op \in AllOperations /\ r \in RequestRecords /\ u \in Users
      /\ \A v \in Users \ {u} : user'[v] = user[v]
      /\ user'[u] = IF Changes(r) THEN Merged(r, user[u]) ELSE user[u]
      /\ Changes(r) => \/ r.op = "create" /\ user[u] = Absent /\ Answers(q, u)
                       \/ r.op # "create" /\ lock[u] = q /\ user[u].exists
      /\ r.op = "delete" => Changes(r)
      /\ kratos' = kratos
  BY <1>0, CommitWrites
<1>3. /\ req'[q].step = IF r.op \in TakesAccess THEN "effect" ELSE "done"
      /\ req'[q].op = r.op /\ req'[q].target = u
  BY <1>0, <1>2, <1>1 DEF Commit, Go, TypeInv, RequestRecords
<1>4. Reading(q)'
  BY <1>3 DEF Reading
<1>5. WritesOwn(q)
  BY <1>2 DEF WritesOwn, Absent
<1>6. \A p \in Requests \ {q}, v \in Users : Answers(p, v)' => Answers(p, v)
  BY <1>1 DEF Mine, Answers
<1>7. \A v \in Users : Answers(q, v)' => v = u /\ r.op = "delete"
  BY <1>3 DEF Answers
<1>8. user[u] \in UserRecords
  BY <1>1, <1>2 DEF TypeInv
<1>9. \A v \in Users : /\ user[v].exists \/ user[v] = Absent
                       /\ user[v].exists => kratos[v] # "none"
                       /\ \A p \in Requests : Answers(p, v) => ~user[v].exists /\ kratos[v] # "none"
                       /\ \A p, o \in Requests : Answers(p, v) /\ Answers(o, v) => p = o
  BY DEF ReadInv, Identities
<1>10. ASSUME NEW v \in Users \ {u}
       PROVE  /\ user'[v].exists \/ user'[v] = Absent
              /\ user'[v].exists => kratos'[v] # "none"
              /\ \A p \in Requests : Answers(p, v)' => ~user'[v].exists /\ kratos'[v] # "none"
              /\ \A p, o \in Requests : Answers(p, v)' /\ Answers(o, v)' => p = o
  <2>1. \A p \in Requests : Answers(p, v)' => Answers(p, v)
    BY <1>6, <1>7
  <2> QED BY <1>2, <1>9, <2>1
<1>11. /\ user'[u].exists \/ user'[u] = Absent
       /\ user'[u].exists => kratos'[u] # "none"
       /\ \A p \in Requests : Answers(p, u)' => ~user'[u].exists /\ kratos'[u] # "none"
       /\ \A p, o \in Requests : Answers(p, u)' /\ Answers(o, u)' => p = o
  <2>1. CASE ~Changes(r)
    <3>1. \A p \in Requests : Answers(p, u)' => Answers(p, u)
      BY <1>2, <1>6, <1>7, <2>1
    <3> QED BY <1>2, <1>9, <2>1, <3>1
  <2>2. CASE Changes(r) /\ r.op = "delete"
    <3>1. user'[u] = Absent /\ kratos[u] # "none" /\ \A p \in Requests : ~Answers(p, u)
      BY <1>0, <1>2, <1>8, <1>9, <2>2, WrittenColumns
    <3> QED BY <1>2, <1>6, <3>1 DEF Absent
  <2>3. CASE Changes(r) /\ r.op = "create"
    <3>1. /\ Answers(q, u) /\ r.copy = Absent
      BY <1>1, <1>2, <2>3 DEF Progress
    <3>2. user'[u] = Row("active", "operator")
      BY <1>0, <1>2, <1>8, <2>3, <3>1, WrittenColumns
    <3>3. \A p \in Requests : ~Answers(p, u)'
      BY <1>6, <1>7, <1>9, <2>3, <3>1
    <3> QED BY <1>2, <1>9, <3>1, <3>2, <3>3 DEF Row
  <2>4. CASE Changes(r) /\ r.op \notin {"create", "delete"}
    <3>1. user'[u].exists = user[u].exists /\ user[u].exists
      BY <1>0, <1>2, <1>8, <2>4, WrittenColumns
    <3>2. \A p \in Requests : ~Answers(p, u)'
      BY <1>6, <1>7, <1>9, <2>4, <3>1
    <3> QED BY <1>2, <1>9, <3>1, <3>2
  <2> QED BY <1>2, <2>1, <2>2, <2>3, <2>4
<1>12. Identities'
  BY <1>10, <1>11 DEF Identities
<1> QED BY <1>4, <1>5, <1>12

LEMMA ReadInit == Init => ReadInv
<1> SUFFICES ASSUME Init PROVE ReadInv
  OBVIOUS
<1>1. \A q \in Requests : req[q] = NewRequest
  BY DEF Init
<1>2. \A q \in Requests : Reading(q)
  BY <1>1 DEF Reading, NewRequest
<1>3. \A q \in Requests, u \in Users : ~Answers(q, u)
  BY <1>1 DEF Answers, NewRequest
<1>4. \A u \in Users : user[u].exists \/ user[u] = Absent
  BY RowFacts DEF Init
<1>5. \A u \in Users : user[u].exists => kratos[u] # "none"
  BY DEF Init
<1> QED BY <1>2, <1>3, <1>4, <1>5, LocksInit DEF ReadInv, Identities

LEMMA EveryStepReads ==
  ASSUME ReadInv, NEW q \in Requests,
         \/ Begins(q) \/ Prepares(q) \/ Leaves(q) \/ Commit(q)
         \/ \E done \in BOOLEAN : Call(q, done) \/ Effect(q, done) \/ Undo(q, done)
  PROVE  ReadInv' /\ Mine(q) /\ WritesOwn(q)
<1>1. LocksInv' /\ Mine(q)
  BY EveryStepLocks DEF ReadInv
<1>2. Identities' /\ WritesOwn(q) /\ Reading(q)'
  BY BeginsRead, PreparesRead, LeavesRead, CommitRead, CallRead, AfterwardsRead
<1>3. \A p \in Requests \ {q} : Reading(p)'
  BY <1>1, <1>2, OthersRead
<1> QED BY <1>1, <1>2, <1>3 DEF ReadInv

LEMMA ReadStutter == ReadInv /\ UNCHANGED vars => ReadInv'
<1> SUFFICES ASSUME ReadInv, UNCHANGED vars PROVE ReadInv'
  OBVIOUS
<1>1. UNCHANGED <<user, kratos, lock, req>>
  BY DEF vars
<1>2. LocksInv'
  BY LocksStutter DEF ReadInv
<1>3. Identities'
  BY <1>1 DEF ReadInv, Identities, Answers
<1>4. \A q \in Requests : Reading(q)'
  BY <1>1 DEF ReadInv, Reading, Changes
<1> QED BY <1>2, <1>3, <1>4 DEF ReadInv

(* What is read under a lock stays so, and a user has at most one request    *)
(* that answers for an identity without a row.                             *)
LEMMA ReadsKept == Spec => []ReadInv
<1>1. ReadInv /\ [Next]_vars => ReadInv'
  BY StepCases, EveryStepReads, ReadStutter
<1> QED BY ReadInit, <1>1, PTL DEF Spec

----------------------------------------------------------------------------
(* An active administrator remains. *)

(* Nobody becomes an active administrator meanwhile, or whoever ceases to be *)
(* one has the role changed, which is decided under the lock of the row.   *)
NobodyGains == case.operations \cap {"make_administrator", "activate"} = {}
OnlyRolesAreTaken == case.operations \cap {"deactivate", "archive", "delete"} = {}
DecisionsHold == NobodyGains \/ OnlyRolesAreTaken

TakesOffice == {"make_operator", "make_engineer", "deactivate", "archive", "delete"}

InOffice(row) == row.exists /\ row.role = "administrator" /\ row.active

(* While nobody gains it, who was read to be out of office stays out.       *)
OfficeInv ==
  NobodyGains =>
    /\ \A u \in Users : InOffice(user[u]) => ~user[u].archived
    /\ \A q \in Requests :
         req[q].op # "create" /\ req[q].step \in {"select", "lock", "call", "write", "commit"}
           /\ ~InOffice(req[q].copy) =>
              ~InOffice(user[req[q].target])

(* Why q may go on to take the office of its target.                        *)
Decided(q) ==
  req[q].op \in TakesOffice /\ req[q].step \in {"write", "commit"} =>
    req[q].found \ {req[q].target} # {} \/ ~IsActiveAdministrator(user[req[q].target])

DecisionInv ==
  /\ ReadInv
  /\ OfficeInv
  /\ DecisionsHold => (\A q \in Requests : Decided(q)) /\ OneRemains

(* The row as q read it: just now, or in an earlier step.                   *)
CopyOf(q) ==
  req'[q].op # "create" /\ req'[q].step \in {"select", "lock", "call", "write", "commit"} =>
    \/ user' = user /\ req'[q].copy = user[req'[q].target]
    \/ /\ req[q].step \in {"select", "lock", "call", "write", "commit"} /\ req'[q].op = req[q].op
       /\ req'[q].copy = req[q].copy /\ req'[q].target = req[q].target

(* What q decides in this step, or has decided.                             *)
Decides(q) ==
  req'[q].op \in TakesOffice /\ req'[q].step \in {"write", "commit"} =>
    \/ user' = user /\ ~IsActiveAdministrator(user[req'[q].target])
    \/ req'[q].found \ {req'[q].target} # {}
    \/ /\ user' = user /\ req[q].op = req'[q].op /\ req[q].step = "write"
       /\ req'[q].found = req[q].found /\ req'[q].target = req[q].target

LEMMA PreparesDecides ==
  ASSUME ReadInv, NEW q \in Requests, Prepares(q)
  PROVE  CopyOf(q) /\ Decides(q) /\ user' = user
<1>1. TypeInv /\ Progress(q) /\ req[q] \in RequestRecords /\ req[q].target \in Users
  BY RequestFields DEF ReadInv, LocksInv
<1>2. user' = user
  BY DEF Prepares, Read, SelectAdministrators, LockNext, AdministratorRemains, Write
<1>3. CASE Read(q)
  <2> DEFINE r == req[q]
             row == user[r.target]
             next == CASE Refused(r, row) -> "rollback"
                       [] ~Refused(r, row) /\ NoLongerAdministrator(r.op, row)
                            /\ IsActiveAdministrator(row) -> "select"
                       [] ~Refused(r, row) /\ r.op = "activate" -> "call"
                       [] OTHER -> "write"
  <2>1. r.step = "read" /\ req' = [req EXCEPT ![q].copy = row, ![q].step = next]
    BY <1>3 DEF Read, At
  <2>2. next = "write" \/ next = "commit" =>
          ~NoLongerAdministrator(r.op, row) \/ ~IsActiveAdministrator(row)
    OBVIOUS
  <2>3. r.op \in TakesOffice /\ ~NoLongerAdministrator(r.op, row) => ~IsActiveAdministrator(row)
    BY DEF TakesOffice, NoLongerAdministrator, IsActiveAdministrator
  <2> HIDE DEF next
  <2>4. /\ req'[q].step = next /\ req'[q].copy = row /\ req'[q].op = r.op
        /\ req'[q].target = r.target /\ req'[q].found = r.found
    BY <1>1, <2>1 DEF TypeInv, RequestRecords
  <2> QED BY <1>2, <2>2, <2>3, <2>4 DEF CopyOf, Decides
<1>4. CASE SelectAdministrators(q)
  <2>1. /\ req[q].step = "select" /\ req'[q].step = "lock" /\ req'[q].copy = req[q].copy
        /\ req'[q].op = req[q].op /\ req'[q].target = req[q].target
    BY <1>1, <1>4 DEF SelectAdministrators, At, TypeInv, RequestRecords
  <2> QED BY <1>2, <2>1 DEF CopyOf, Decides
<1>5. CASE LockNext(q)
  <2>1. PICK u \in Users :
          /\ req[q].step = "lock"
          /\ req' = [req EXCEPT ![q].todo = @ \ {u},
                                ![q].found = IF IsActiveAdministrator(user[u]) THEN @ \cup {u} ELSE @]
    BY <1>5 DEF LockNext, At
  <2>2. /\ req'[q].step = "lock" /\ req'[q].copy = req[q].copy /\ req'[q].op = req[q].op
        /\ req'[q].target = req[q].target
    BY <1>1, <2>1 DEF TypeInv, RequestRecords
  <2> QED BY <1>2, <2>1, <2>2 DEF CopyOf, Decides
<1>6. CASE AdministratorRemains(q)
  <2> DEFINE next == IF req[q].found \ {req[q].target} # {} THEN "write" ELSE "rollback"
  <2>1. req[q].step = "lock" /\ Go(q, next)
    BY <1>6 DEF AdministratorRemains, At
  <2>2. next \in {"write", "rollback"} /\ (next = "write" => req[q].found \ {req[q].target} # {})
    OBVIOUS
  <2> HIDE DEF next
  <2>3. /\ req'[q].step = next /\ req'[q].copy = req[q].copy /\ req'[q].op = req[q].op
        /\ req'[q].target = req[q].target /\ req'[q].found = req[q].found
    BY <1>1, <2>1 DEF Go, TypeInv, RequestRecords
  <2> QED BY <1>2, <2>1, <2>2, <2>3 DEF CopyOf, Decides
<1>7. CASE Write(q)
  <2>1. /\ req[q].step = "write"
        /\ req'[q].op = req[q].op /\ req'[q].target = req[q].target
        /\ req'[q].copy = req[q].copy /\ req'[q].found = req[q].found
    BY <1>7, WriteLocks DEF Write, At, ReadInv
  <2> QED BY <1>2, <2>1 DEF CopyOf, Decides
<1> QED BY <1>2, <1>3, <1>4, <1>5, <1>6, <1>7 DEF Prepares

LEMMA EveryStepDecides ==
  ASSUME ReadInv, NEW q \in Requests,
         \/ Begins(q) \/ Prepares(q) \/ Leaves(q) \/ Commit(q)
         \/ \E done \in BOOLEAN : Call(q, done) \/ Effect(q, done) \/ Undo(q, done)
  PROVE  CopyOf(q) /\ Decides(q) /\ (user' = user \/ Commit(q))
<1>1. LocksInv /\ TypeInv /\ Progress(q) /\ req[q] \in RequestRecords
  BY RequestFields DEF ReadInv, LocksInv
<1>2. CASE Begins(q)
  <2>1. PICK op \in AllOperations, actor \in Users, target \in Users : Begin(q, op, actor, target)
    BY <1>2 DEF Begins
  <2>2. req'[q].op = op /\ req'[q].step = IF op = "create" THEN "call" ELSE "read"
    BY <1>1, <2>1 DEF Begin, NewRequest, TypeInv
  <2>3. user' = user
    BY <2>1 DEF Begin
  <2> QED BY <2>2, <2>3 DEF CopyOf, Decides
<1>3. CASE Prepares(q)
  BY <1>3, PreparesDecides
<1>4. CASE Leaves(q)
  <2>1. req'[q].step \in {"effect", "rollback", "undo", "done"}
    BY <1>1, <1>4, LeaveLocks DEF Leaves
  <2>2. user' = user
    BY <1>4 DEF Leaves, CommitFails, Rollback, Abort
  <2> QED BY <2>1, <2>2 DEF CopyOf, Decides
<1>5. CASE Commit(q)
  <2>1. req'[q].step \in {"effect", "rollback", "undo", "done"}
    BY <1>1, <1>5, LeaveLocks
  <2> QED BY <1>5, <2>1 DEF CopyOf, Decides
<1>6. ASSUME NEW done \in BOOLEAN, Effect(q, done) \/ Undo(q, done)
      PROVE  CopyOf(q) /\ Decides(q) /\ user' = user
  <2>1. req'[q].step \in {"effect", "rollback", "undo", "done"}
    BY <1>1, <1>6, LeaveLocks
  <2>2. user' = user
    BY <1>6 DEF Effect, Undo
  <2> QED BY <2>1, <2>2 DEF CopyOf, Decides
<1>7. ASSUME NEW done \in BOOLEAN, Call(q, done)
      PROVE  CopyOf(q) /\ Decides(q) /\ user' = user
  <2>1. /\ req[q].step = "call" /\ user' = user
        /\ req'[q].op = req[q].op /\ req'[q].target = req[q].target /\ req'[q].copy = req[q].copy
    BY <1>1, <1>7, CallLocks DEF Call, At
  <2>2. req[q].op \in {"create", "activate"}
    BY <1>1, <2>1 DEF Progress
  <2> QED BY <2>1, <2>2 DEF CopyOf, Decides, TakesOffice
<1> QED BY <1>2, <1>3, <1>4, <1>5, <1>6, <1>7

(* While nobody gains office a commit gives none, and archives nobody in it. *)
LEMMA CommitKeepsOffice ==
  ASSUME ReadInv, OfficeInv, NobodyGains, NEW q \in Requests, Commit(q), NEW v \in Users,
         InOffice(user'[v])
  PROVE  InOffice(user[v]) /\ ~user'[v].archived
<1> DEFINE r == req[q]
           u == req[q].target
<1>1. /\ r.step = "commit" /\ r.op \in AllOperations /\ r \in RequestRecords /\ u \in Users
      /\ \A w \in Users \ {u} : user'[w] = user[w]
      /\ user'[u] = IF Changes(r) THEN Merged(r, user[u]) ELSE user[u]
      /\ Changes(r) => \/ r.op = "create" /\ user[u] = Absent /\ Answers(q, u)
                       \/ r.op # "create" /\ lock[u] = q /\ user[u].exists
  BY CommitWrites
<1>2. \A w \in Users : InOffice(user[w]) => ~user[w].archived
  BY DEF OfficeInv
<1>3. user[u] \in UserRecords /\ Progress(q)
  BY <1>1 DEF ReadInv, LocksInv, TypeInv
<1>4. CASE v # u \/ ~Changes(r)
  BY <1>1, <1>2, <1>4
<1>5. CASE v = u /\ Changes(r)
  <2> DEFINE new == Merged(r, user[u])
  <2>1. user'[v] = new /\ InOffice(new)
    BY <1>1, <1>5
  <2>2. /\ r.op = "delete" => new = Absent
        /\ r.op \notin {"create", "delete"} => new.exists = user[u].exists
        /\ r.op \in {"activate", "deactivate", "archive", "restore"} => new.role = user[u].role
        /\ r.op \in {"make_operator", "make_engineer"} =>
             new.role = user[u].role \/ new.role # "administrator"
        /\ r.op \in {"make_administrator", "make_operator", "make_engineer", "restore"} =>
             new.active = user[u].active
        /\ r.op \in {"deactivate", "archive"} =>
             (IF r.copy.active THEN ~new.active ELSE new.active = user[u].active)
        /\ r.op \notin {"archive", "restore", "delete", "create"} => new.archived = user[u].archived
        /\ r.op = "restore" => new.archived = user[u].archived \/ ~new.archived
        /\ r.op = "create" /\ r.copy = Absent /\ user[u] = Absent => new = Row("active", "operator")
    BY <1>1, <1>3, WrittenColumns
  <2> HIDE DEF new
  <2>3. r.op \in case.operations /\ r.op \notin {"make_administrator", "activate"}
    BY <1>1, <1>3 DEF Progress, NobodyGains
  <2>4. r.op \notin {"create", "delete"}
    <3>1. CASE r.op = "create"
      BY <1>1, <1>3, <1>5, <2>1, <2>2, <3>1 DEF Progress, InOffice, Row
    <3>2. CASE r.op = "delete"
      BY <2>1, <2>2, <3>2 DEF InOffice, Absent
    <3> QED BY <3>1, <3>2
  <2>5. CASE r.op \in {"make_operator", "make_engineer", "deactivate", "restore"}
    <3>1. InOffice(user[u])
      BY <2>1, <2>2, <2>5 DEF InOffice
    <3> QED BY <1>2, <1>1, <1>5, <2>1, <2>2, <2>5, <3>1
  <2>6. CASE r.op = "archive"
    <3>1. ~r.copy.active /\ InOffice(user[u])
      BY <2>1, <2>2, <2>6 DEF InOffice
    <3>2. ~InOffice(r.copy)
      BY <3>1 DEF InOffice
    <3>3. ~InOffice(user[u])
      BY <1>1, <2>6, <3>2 DEF OfficeInv
    <3> QED BY <3>1, <3>3
  <2> QED BY <1>1, <2>3, <2>4, <2>5, <2>6 DEF AllOperations
<1> QED BY <1>4, <1>5

LEMMA OfficeKept ==
  ASSUME ReadInv, OfficeInv, NEW q \in Requests, Mine(q), CopyOf(q), user' = user \/ Commit(q)
  PROVE  /\ OfficeInv'
         /\ NobodyGains => \A u \in Users : InOffice(user'[u]) => InOffice(user[u])
<1>1. case' = case
  BY DEF Mine
<1>2. ASSUME NobodyGains
      PROVE  \A u \in Users : InOffice(user'[u]) => InOffice(user[u]) /\ ~user'[u].archived
  <2>1. CASE user' = user
    BY <1>2, <2>1 DEF OfficeInv
  <2>2. CASE Commit(q)
    BY <1>2, <2>2, CommitKeepsOffice
  <2> QED BY <2>1, <2>2
<1>3. ASSUME NobodyGains, NEW p \in Requests,
             req'[p].op # "create",
             req'[p].step \in {"select", "lock", "call", "write", "commit"},
             ~InOffice(req'[p].copy)
      PROVE  ~InOffice(user'[req'[p].target])
  <2>1. \A o \in Requests : req[o].target \in Users
    BY RequestFields DEF ReadInv, LocksInv
  <2>2. CASE p # q
    <3>1. req'[p] = req[p]
      BY <2>2 DEF Mine
    <3> QED BY <1>2, <1>3, <2>1, <3>1 DEF OfficeInv
  <2>3. CASE p = q
    BY <1>2, <1>3, <2>1, <2>3 DEF OfficeInv, CopyOf
  <2> QED BY <2>2, <2>3
<1>4. NobodyGains' <=> NobodyGains
  BY <1>1 DEF NobodyGains
<1> QED BY <1>2, <1>3, <1>4 DEF OfficeInv

(* Who is no active administrator when another's request takes his office    *)
(* away is none afterwards.                                                *)
LEMMA OthersDecided ==
  ASSUME DecisionInv, DecisionsHold, NEW q \in Requests, Mine(q), WritesOwn(q), OfficeInv',
         NobodyGains => \A u \in Users : InOffice(user'[u]) => InOffice(user[u]),
         NEW p \in Requests \ {q}
  PROVE  Decided(p)'
<1> SUFFICES ASSUME req'[p].op \in TakesOffice, req'[p].step \in {"write", "commit"},
                    req'[p].found \ {req'[p].target} = {}
             PROVE  ~IsActiveAdministrator(user'[req'[p].target])
  BY DEF Decided
<1>1. req'[p] = req[p]
  BY DEF Mine
<1>2. /\ TypeInv /\ Progress(p) /\ Locks(p) /\ Reading(p) /\ Decided(p) /\ req[p].target \in Users
  BY RequestFields DEF DecisionInv, ReadInv, LocksInv
<1>3. ~IsActiveAdministrator(user[req[p].target])
  BY <1>1, <1>2 DEF Decided
<1>4. CASE NobodyGains
  <2>1. ASSUME IsActiveAdministrator(user'[req[p].target])
        PROVE  FALSE
    <3>1. InOffice(user[req[p].target])
      BY <1>2, <1>4, <2>1 DEF IsActiveAdministrator, InOffice
    <3>2. ~user[req[p].target].archived
      BY <1>2, <1>4, <3>1 DEF DecisionInv, OfficeInv
    <3> QED BY <1>3, <3>1, <3>2 DEF IsActiveAdministrator, InOffice
  <2> QED BY <1>1, <2>1
<1>5. CASE OnlyRolesAreTaken
  <2>1. req[p].op \in case.operations
    BY <1>1, <1>2 DEF Progress
  <2>2. req[p].op \in LockingReads /\ req[p].op # "create"
    BY <1>1, <1>5, <2>1 DEF OnlyRolesAreTaken, TakesOffice, LockingReads
  <2>3. req[p].step \in {"write", "commit"}
    BY <1>1
  <2>4. req[p].copy = user[req[p].target] /\ req[p].copy.exists /\ lock[req[p].target] = p
    BY <1>2, <2>2, <2>3 DEF Progress, Locks, Reading
  <2>5. user'[req[p].target] = user[req[p].target]
    BY <1>2, <2>4 DEF WritesOwn
  <2> QED BY <1>1, <1>3, <2>5
<1> QED BY <1>4, <1>5 DEF DecisionsHold

LEMMA CommitLeavesOne ==
  ASSUME DecisionInv, DecisionsHold, NEW q \in Requests, Commit(q)
  PROVE  OneRemains'
<1> DEFINE r == req[q]
           u == req[q].target
<1>1. /\ r.step = "commit" /\ r.op \in AllOperations /\ r \in RequestRecords /\ u \in Users
      /\ \A w \in Users \ {u} : user'[w] = user[w]
      /\ user'[u] = IF Changes(r) THEN Merged(r, user[u]) ELSE user[u]
      /\ Changes(r) => \/ r.op = "create" /\ user[u] = Absent /\ Answers(q, u)
                       \/ r.op # "create" /\ lock[u] = q /\ user[u].exists
  BY CommitWrites DEF DecisionInv
<1>2. PICK a \in Users : IsActiveAdministrator(user[a])
  BY DEF DecisionInv, OneRemains, ActiveAdministrators
<1>3. user[u] \in UserRecords /\ Progress(q) /\ Reading(q) /\ Decided(q) /\ r.found \subseteq Users
  BY <1>1, RequestFields DEF DecisionInv, ReadInv, LocksInv, TypeInv
<1>4. \E w \in Users : IsActiveAdministrator(user'[w])
  <2>1. CASE a # u \/ ~Changes(r)
    BY <1>1, <1>2, <2>1
  <2>2. CASE a = u /\ Changes(r) /\ r.op \in TakesOffice
    <3>1. r.found \ {u} # {}
      BY <1>1, <1>2, <1>3, <2>2 DEF Decided
    <3>2. PICK w \in r.found \ {u} : TRUE
      BY <3>1
    <3>3. IsActiveAdministrator(user[w]) /\ w \in Users
      BY <1>1, <1>3 DEF Reading
    <3> QED BY <1>1, <3>3
  <2>3. CASE a = u /\ Changes(r) /\ r.op \notin TakesOffice
    <3> DEFINE new == Merged(r, user[u])
    <3>1. r.op \in {"make_administrator", "activate", "restore"}
      <4>1. r.op # "create"
        BY <1>1, <1>2, <2>3 DEF IsActiveAdministrator, Absent
      <4> QED BY <1>1, <2>3, <4>1 DEF AllOperations, TakesOffice
    <3>2. /\ new.exists = user[u].exists
          /\ r.op \in {"activate", "restore"} => new.role = user[u].role
          /\ r.op = "make_administrator" => new.role \in {user[u].role, "administrator"}
          /\ r.op \in {"make_administrator", "restore"} => new.active = user[u].active
          /\ r.op = "activate" => new.active = user[u].active \/ new.active
          /\ r.op \in {"make_administrator", "activate"} => new.archived = user[u].archived
          /\ r.op = "restore" => new.archived = user[u].archived \/ ~new.archived
      BY <1>1, <1>3, <3>1, WrittenColumns
    <3> HIDE DEF new
    <3>3. IsActiveAdministrator(new)
      BY <1>2, <2>3, <3>1, <3>2 DEF IsActiveAdministrator
    <3> QED BY <1>1, <2>3, <3>3 DEF new
  <2> QED BY <2>1, <2>2, <2>3
<1> QED BY <1>4 DEF OneRemains, ActiveAdministrators

LEMMA EveryStepLeavesOne ==
  ASSUME DecisionInv, Next
  PROVE  DecisionInv'
<1>1. PICK q \in Requests :
         \/ Begins(q) \/ Prepares(q) \/ Leaves(q) \/ Commit(q)
         \/ \E done \in BOOLEAN : Call(q, done) \/ Effect(q, done) \/ Undo(q, done)
  BY StepCases
<1>2. ReadInv' /\ Mine(q) /\ WritesOwn(q) /\ ReadInv
  BY <1>1, EveryStepReads DEF DecisionInv
<1>3. CopyOf(q) /\ Decides(q) /\ (user' = user \/ Commit(q))
  BY <1>1, <1>2, EveryStepDecides
<1>4. /\ OfficeInv'
      /\ NobodyGains => \A u \in Users : InOffice(user'[u]) => InOffice(user[u])
  BY <1>2, <1>3, OfficeKept DEF DecisionInv
<1>5. DecisionsHold' <=> DecisionsHold
  BY <1>2 DEF Mine, DecisionsHold, NobodyGains, OnlyRolesAreTaken
<1>6. ASSUME DecisionsHold
      PROVE  (\A p \in Requests : Decided(p)') /\ OneRemains'
  <2>1. \A p \in Requests \ {q} : Decided(p)'
    BY <1>2, <1>4, <1>6, OthersDecided
  <2>2. Decided(q)'
    <3>1. Decided(q)
      BY <1>6 DEF DecisionInv
    <3> QED BY <1>3, <3>1 DEF Decides, Decided
  <2>3. OneRemains'
    BY <1>3, <1>6, CommitLeavesOne DEF DecisionInv, OneRemains, ActiveAdministrators
  <2> QED BY <2>1, <2>2, <2>3
<1> QED BY <1>2, <1>4, <1>5, <1>6 DEF DecisionInv

LEMMA DecisionInit == Init => DecisionInv
<1> SUFFICES ASSUME Init PROVE DecisionInv
  OBVIOUS
<1>1. \A q \in Requests : req[q] = NewRequest
  BY DEF Init
<1>2. \A u \in Users : InOffice(user[u]) => ~user[u].archived
  BY RowFacts DEF Init, InOffice
<1>3. OfficeInv
  BY <1>1, <1>2 DEF OfficeInv, NewRequest
<1>4. \A q \in Requests : Decided(q)
  BY <1>1 DEF Decided, NewRequest
<1>5. OneRemains
  BY DEF Init, OneRemains
<1> QED BY <1>3, <1>4, <1>5, ReadInit DEF DecisionInv

LEMMA DecisionStutter == DecisionInv /\ UNCHANGED vars => DecisionInv'
<1> SUFFICES ASSUME DecisionInv, UNCHANGED vars PROVE DecisionInv'
  OBVIOUS
<1>1. UNCHANGED <<case, user, kratos, lock, req>>
  BY DEF vars
<1>2. ReadInv'
  BY ReadStutter DEF DecisionInv
<1> QED BY <1>1, <1>2 DEF DecisionInv, OfficeInv, NobodyGains, DecisionsHold, OnlyRolesAreTaken,
                           Decided, OneRemains, ActiveAdministrators

(* However requests overlap, an active administrator remains, unless people  *)
(* are made administrators or activated while others are deactivated,      *)
(* archived or deleted: those decide by a row they read without its lock   *)
(* (_user.py:175-194), and the run of the finding shows what then happens. *)
THEOREM AnAdministratorRemains == Spec => [](DecisionsHold => OneRemains)
<1>1. DecisionInv /\ [Next]_vars => DecisionInv'
  BY EveryStepLeavesOne, DecisionStutter
<1>2. DecisionInv => (DecisionsHold => OneRemains)
  BY DEF DecisionInv
<1> QED BY DecisionInit, <1>1, <1>2, PTL DEF Spec

----------------------------------------------------------------------------
(* Who is active can sign in. *)

(* A request that is made alone: what it read is still so, and the identity  *)
(* is active before the row is, and after it.                              *)
Undisturbed(q) ==
  /\ \A u \in Users : user[u].exists /\ user[u].active => kratos[u] = "active"
  /\ \A u \in Users : user[u].archived => ~user[u].active
  /\ req[q].op # "create" /\ req[q].step \in {"select", "lock", "call", "write", "commit"} =>
       /\ req[q].copy = user[req[q].target]
       /\ req[q].op \notin {"archive", "restore", "delete"} => ~req[q].copy.archived
  /\ req[q].step \in {"select", "lock"} => req[q].op # "activate"
  /\ req[q].step \in {"write", "commit"} /\ req[q].op \in {"create", "activate"} =>
       kratos[req[q].target] = "active"
  /\ req[q].step = "effect" => ~user[req[q].target].active

AloneInv == ReadInv /\ \A q \in Requests : case.requests = {q} => Undisturbed(q)

LEMMA PreparesAlone ==
  ASSUME AloneInv, NEW q \in Requests, case.requests = {q}, Prepares(q)
  PROVE  Undisturbed(q)'
<1>1. /\ TypeInv /\ Progress(q) /\ req[q] \in RequestRecords /\ req[q].target \in Users
      /\ Undisturbed(q) /\ ReadInv
  BY RequestFields DEF AloneInv, ReadInv, LocksInv
<1>2. UNCHANGED <<user, kratos>>
  BY DEF Prepares, Read, SelectAdministrators, LockNext, AdministratorRemains, Write
<1>3. CASE Read(q)
  <2> DEFINE r == req[q]
             row == user[r.target]
             next == CASE Refused(r, row) -> "rollback"
                       [] ~Refused(r, row) /\ NoLongerAdministrator(r.op, row)
                            /\ IsActiveAdministrator(row) -> "select"
                       [] ~Refused(r, row) /\ r.op = "activate" -> "call"
                       [] OTHER -> "write"
  <2>1. r.step = "read" /\ req' = [req EXCEPT ![q].copy = row, ![q].step = next]
    BY <1>3 DEF Read, At
  <2>2. /\ next \in {"rollback", "select", "call", "write"}
        /\ next # "rollback" /\ r.op \notin {"archive", "restore", "delete"} => ~row.archived
        /\ r.op = "activate" => next \notin {"select", "write"}
    <3>1. r.op = "activate" => ~NoLongerAdministrator(r.op, row)
      BY DEF NoLongerAdministrator
    <3>2. CASE Refused(r, row)
      BY <3>2
    <3>3. CASE ~Refused(r, row)
      <4>1. r.op \notin {"archive", "restore", "delete"} => ~row.archived
        BY <3>3 DEF Refused
      <4> QED BY <3>1, <3>3, <4>1
    <3> QED BY <3>2, <3>3
  <2> HIDE DEF next
  <2>3. /\ req'[q].step = next /\ req'[q].copy = row /\ req'[q].op = r.op
        /\ req'[q].target = r.target
    BY <1>1, <2>1 DEF TypeInv, RequestRecords
  <2>4. r.op # "create"
    BY <1>1, <2>1 DEF Progress
  <2> QED BY <1>1, <1>2, <2>2, <2>3, <2>4 DEF Undisturbed
<1>4. ASSUME req[q].step \in {"select", "lock", "write"},
             req'[q].step \in {"lock", "write", "commit", "rollback"},
             req[q].step = "write" => req'[q].step # "lock",
             req'[q].op = req[q].op, req'[q].target = req[q].target, req'[q].copy = req[q].copy
      PROVE  Undisturbed(q)'
  <2>1. req[q].step # "write" => req[q].op \notin {"create", "activate"}
    BY <1>1, <1>4 DEF Progress, Undisturbed
  <2> QED BY <1>1, <1>2, <1>4, <2>1 DEF Undisturbed
<1>5. CASE SelectAdministrators(q)
  BY <1>1, <1>4, <1>5 DEF SelectAdministrators, At, TypeInv, RequestRecords
<1>6. CASE LockNext(q)
  <2>1. PICK u \in Users :
          /\ req[q].step = "lock"
          /\ req' = [req EXCEPT ![q].todo = @ \ {u},
                                ![q].found = IF IsActiveAdministrator(user[u]) THEN @ \cup {u} ELSE @]
    BY <1>6 DEF LockNext, At
  <2> QED BY <1>1, <1>4, <2>1 DEF TypeInv, RequestRecords
<1>7. CASE AdministratorRemains(q)
  <2> DEFINE next == IF req[q].found \ {req[q].target} # {} THEN "write" ELSE "rollback"
  <2>1. req[q].step = "lock" /\ Go(q, next) /\ next \in {"write", "rollback"}
    BY <1>7 DEF AdministratorRemains, At
  <2> HIDE DEF next
  <2> QED BY <1>1, <1>4, <2>1 DEF Go, TypeInv, RequestRecords
<1>8. CASE Write(q)
  <2>1. /\ req[q].step = "write" /\ req'[q].step \in {"commit", "rollback"}
        /\ req'[q].op = req[q].op /\ req'[q].target = req[q].target
        /\ req'[q].copy = req[q].copy
    BY <1>8, WriteLocks DEF Write, At, AloneInv, ReadInv
  <2> QED BY <1>4, <2>1
<1> QED BY <1>3, <1>5, <1>6, <1>7, <1>8 DEF Prepares

LEMMA CommitAlone ==
  ASSUME AloneInv, NEW q \in Requests, case.requests = {q}, Commit(q)
  PROVE  Undisturbed(q)'
<1>0. PICK u \in Users : u = req[q].target
  BY RequestFields DEF AloneInv, ReadInv, LocksInv
<1> DEFINE r == req[q]
<1>1. /\ r.step = "commit" /\ r.op \in AllOperations /\ r \in RequestRecords
      /\ \A w \in Users \ {u} : user'[w] = user[w]
      /\ user'[u] = IF Changes(r) THEN Merged(r, user[u]) ELSE user[u]
      /\ Changes(r) => \/ r.op = "create" /\ user[u] = Absent /\ Answers(q, u)
                       \/ r.op # "create" /\ lock[u] = q /\ user[u].exists
      /\ r.op = "delete" => Changes(r)
      /\ kratos' = kratos
  BY <1>0, CommitWrites DEF AloneInv
<1>2. TypeInv /\ Progress(q) /\ Undisturbed(q) /\ user[u] \in UserRecords
  BY DEF AloneInv, ReadInv, LocksInv, TypeInv
<1>3. /\ req'[q].step = IF r.op \in TakesAccess THEN "effect" ELSE "done"
      /\ req'[q].op = r.op /\ req'[q].target = u
  BY <1>0, <1>1, <1>2 DEF Commit, Go, TypeInv, RequestRecords
<1>4. /\ r.op # "create" => r.copy = user[u]
      /\ r.op \notin {"create", "archive", "restore", "delete"} => ~user[u].archived
      /\ r.op \in {"create", "activate"} => kratos[u] = "active"
      /\ user[u].exists /\ user[u].active => kratos[u] = "active"
      /\ user[u].archived => ~user[u].active
  BY <1>0, <1>1, <1>2 DEF Undisturbed
<1>5. /\ user'[u].exists /\ user'[u].active => kratos[u] = "active"
      /\ user'[u].archived => ~user'[u].active
      /\ r.op \in TakesAccess => ~user'[u].active
  <2>1. CASE ~Changes(r)
    <3>1. r.op \in TakesAccess => ~r.copy.active /\ r.op # "create"
      <4>1. r.copy \in UserRecords
        BY <1>1 DEF RequestRecords
      <4>2. After(r.op, r.copy) = r.copy
        BY <2>1 DEF Changes
      <4>3. CASE r.op = "deactivate"
        BY <4>1, <4>2, <4>3 DEF After, UserRecords
      <4>4. CASE r.op = "archive"
        BY <4>1, <4>2, <4>4 DEF After, UserRecords
      <4> QED BY <1>1, <2>1, <4>3, <4>4 DEF TakesAccess
    <3> QED BY <1>1, <1>4, <2>1, <3>1
  <2>2. CASE Changes(r)
    <3> DEFINE new == Merged(r, user[u])
    <3>1. /\ r.op = "delete" => new = Absent
          /\ r.op \notin {"create", "delete"} => new.exists = user[u].exists
          /\ r.op \in {"make_administrator", "make_operator", "make_engineer", "restore"} =>
               new.active = user[u].active
          /\ r.op \in {"deactivate", "archive"} =>
               (IF r.copy.active THEN ~new.active ELSE new.active = user[u].active)
          /\ r.op \notin {"archive", "restore", "delete", "create"} => new.archived = user[u].archived
          /\ r.op = "restore" => new.archived = user[u].archived \/ ~new.archived
          /\ r.op = "create" /\ r.copy = Absent /\ user[u] = Absent => new = Row("active", "operator")
      BY <1>1, <1>2, WrittenColumns
    <3>2. user'[u] = new
      BY <1>1, <2>2
    <3> HIDE DEF new
    <3>3. CASE r.op = "create"
      <4>1. r.copy = Absent /\ user[u] = Absent
        BY <1>1, <1>2, <2>2, <3>3 DEF Progress
      <4>2. new = Row("active", "operator")
        BY <3>1, <3>3, <4>1
      <4>3. new.archived = FALSE
        BY <4>2 DEF Row
      <4>4. "create" \notin TakesAccess
        BY DEF TakesAccess
      <4> QED BY <1>4, <3>2, <3>3, <4>3, <4>4
    <3>4. CASE r.op = "delete"
      BY <3>1, <3>2, <3>4 DEF Absent
    <3>5. CASE r.op \in {"deactivate", "archive"}
      BY <1>4, <3>1, <3>2, <3>5
    <3>6. CASE r.op = "activate"
      BY <1>4, <3>1, <3>2, <3>6 DEF TakesAccess
    <3>7. CASE r.op \in {"make_administrator", "make_operator", "make_engineer", "restore"}
      BY <1>4, <3>1, <3>2, <3>7 DEF TakesAccess
    <3> QED BY <1>1, <3>3, <3>4, <3>5, <3>6, <3>7 DEF AllOperations
  <2> QED BY <2>1, <2>2
<1>6. \A w \in Users : user'[w].exists /\ user'[w].active => kratos'[w] = "active"
  BY <1>1, <1>2, <1>5 DEF Undisturbed
<1>7. \A w \in Users : user'[w].archived => ~user'[w].active
  BY <1>1, <1>2, <1>5 DEF Undisturbed
<1> QED BY <1>3, <1>5, <1>6, <1>7 DEF Undisturbed

LEMMA EveryStepAlone ==
  ASSUME AloneInv, NEW q \in Requests, case.requests = {q},
         \/ Begins(q) \/ Prepares(q) \/ Leaves(q) \/ Commit(q)
         \/ \E done \in BOOLEAN : Call(q, done) \/ Effect(q, done) \/ Undo(q, done)
  PROVE  Undisturbed(q)'
<1>1. /\ LocksInv /\ TypeInv /\ Progress(q) /\ req[q] \in RequestRecords /\ req[q].target \in Users
      /\ Undisturbed(q)
  BY RequestFields DEF AloneInv, ReadInv, LocksInv
<1>2. CASE Begins(q)
  <2>1. PICK op \in AllOperations, actor \in Users, target \in Users : Begin(q, op, actor, target)
    BY <1>2 DEF Begins
  <2>2. req'[q].op = op /\ req'[q].step = IF op = "create" THEN "call" ELSE "read"
    BY <1>1, <2>1 DEF Begin, NewRequest, TypeInv
  <2>3. UNCHANGED <<user, kratos>>
    BY <2>1 DEF Begin
  <2> QED BY <1>1, <2>2, <2>3 DEF Undisturbed
<1>3. CASE Prepares(q)
  BY <1>3, PreparesAlone
<1>4. CASE Commit(q)
  BY <1>4, CommitAlone
<1>5. CASE Leaves(q)
  <2>1. req'[q].step \in {"rollback", "undo", "done"}
    <3>1. CASE CommitFails(q) \/ Abort(q)
      BY <1>1, <3>1 DEF CommitFails, Abort, Go, TypeInv, RequestRecords
    <3>2. CASE Rollback(q)
      <4> DEFINE next == IF req[q].undo THEN "undo" ELSE "done"
      <4>1. Go(q, next) /\ next \in {"undo", "done"}
        BY <3>2 DEF Rollback
      <4> QED BY <1>1, <4>1 DEF Go, TypeInv, RequestRecords
    <3> QED BY <1>5, <3>1, <3>2 DEF Leaves
  <2>2. UNCHANGED <<user, kratos>>
    BY <1>5 DEF Leaves, CommitFails, Rollback, Abort
  <2> QED BY <1>1, <2>1, <2>2 DEF Undisturbed
<1>6. ASSUME NEW done \in BOOLEAN, Call(q, done)
      PROVE  Undisturbed(q)'
  <2>1. /\ req[q].step = "call" /\ user' = user
        /\ kratos' = kratos \/ kratos' = [kratos EXCEPT ![req[q].target] = "active"]
    BY <1>6 DEF Call, At
  <2>2. /\ req'[q].step \in {"write", "rollback"} /\ req'[q].op = req[q].op
        /\ req'[q].target = req[q].target /\ req'[q].copy = req[q].copy
        /\ req'[q].step = "write" => kratos'[req[q].target] = "active"
    BY <1>1, <1>6, CallLocks
  <2>3. \A u \in Users : kratos[u] = "active" => kratos'[u] = "active"
    BY <1>1, <2>1 DEF TypeInv
  <2> QED BY <1>1, <2>1, <2>2, <2>3 DEF Undisturbed
<1>7. ASSUME NEW done \in BOOLEAN, Effect(q, done) \/ Undo(q, done)
      PROVE  Undisturbed(q)'
  <2>1. /\ req[q].step \in {"effect", "undo"} /\ Go(q, "done") /\ user' = user
        /\ kratos' = kratos \/ \E state \in {"none", "inactive"} : kratos' = Identity(q, state)
    BY <1>7 DEF Effect, Undo, At
  <2>2. req'[q].step = "done"
    BY <1>1, <2>1 DEF Go, TypeInv, RequestRecords
  <2>3. \A u \in Users \ {req[q].target} : kratos'[u] = kratos[u]
    BY <1>1, <2>1 DEF Identity, TypeInv
  <2>4. ~(user[req[q].target].exists /\ user[req[q].target].active)
    <3>1. CASE req[q].step = "effect"
      BY <1>1, <3>1 DEF Undisturbed
    <3>2. CASE req[q].step = "undo"
      <4>1. Answers(q, req[q].target)
        BY <1>1, <3>2 DEF Progress, Answers
      <4> QED BY <1>1, <4>1 DEF AloneInv, ReadInv, Identities
    <3> QED BY <2>1, <3>1, <3>2
  <2> QED BY <1>1, <2>1, <2>2, <2>3, <2>4 DEF Undisturbed
<1> QED BY <1>2, <1>3, <1>4, <1>5, <1>6, <1>7

LEMMA AloneKept ==
  ASSUME AloneInv, Next
  PROVE  AloneInv'
<1>1. PICK p \in Requests :
         \/ Begins(p) \/ Prepares(p) \/ Leaves(p) \/ Commit(p)
         \/ \E done \in BOOLEAN : Call(p, done) \/ Effect(p, done) \/ Undo(p, done)
  BY StepCases
<1>2. ReadInv' /\ Mine(p) /\ LocksInv
  BY <1>1, EveryStepReads DEF AloneInv, ReadInv
<1>3. p \in case.requests
  <2>1. CASE Begins(p)
    BY <2>1 DEF Begins, Begin
  <2>2. CASE ~Begins(p)
    <3>1. CASE Leaves(p)
      <4>1. CASE Abort(p)
        <5>1. PICK S \in SUBSET Requests : p \in S /\ \A x \in S : \E o \in S : WaitsFor(x, o)
          BY <4>1 DEF Abort, Deadlocked, Circle
        <5>2. Wanted(p) # {}
          BY <5>1 DEF WaitsFor
        <5>3. req[p].step # "new"
          BY <5>2 DEF Wanted, At
        <5> QED BY <1>2, <5>3 DEF LocksInv, Progress
      <4> QED BY <1>2, <3>1, <4>1 DEF Leaves, CommitFails, Rollback, At, LocksInv, Progress
    <3>2. CASE Prepares(p) \/ Commit(p)
      BY <1>2, <3>2 DEF Prepares, Read, SelectAdministrators, LockNext, AdministratorRemains, Write,
                        Commit, At, LocksInv, Progress
    <3>3. ASSUME NEW done \in BOOLEAN, Call(p, done) \/ Effect(p, done) \/ Undo(p, done)
          PROVE  p \in case.requests
      BY <1>2, <3>3 DEF Call, Effect, Undo, At, LocksInv, Progress
    <3> QED BY <1>1, <2>2, <3>1, <3>2, <3>3
  <2> QED BY <2>1, <2>2
<1>4. ASSUME NEW q \in Requests, case'.requests = {q}
      PROVE  Undisturbed(q)'
  <2>1. case.requests = {q} /\ p = q
    BY <1>2, <1>3, <1>4 DEF Mine
  <2> QED BY <1>1, <2>1, EveryStepAlone
<1> QED BY <1>2, <1>4 DEF AloneInv

LEMMA AloneInit == Init => AloneInv
<1> SUFFICES ASSUME Init PROVE AloneInv
  OBVIOUS
<1>1. \A q \in Requests : req[q] = NewRequest
  BY DEF Init
<1>2. \A u \in Users : user[u].archived => ~user[u].active
  BY RowFacts DEF Init
<1>3. \A u \in Users : user[u].exists /\ user[u].active => kratos[u] = "active"
  BY DEF Init
<1>4. \A q \in Requests : Undisturbed(q)
  BY <1>1, <1>2, <1>3 DEF Undisturbed, NewRequest
<1> QED BY <1>4, ReadInit DEF AloneInv

LEMMA AloneStutter == AloneInv /\ UNCHANGED vars => AloneInv'
<1> SUFFICES ASSUME AloneInv, UNCHANGED vars PROVE AloneInv'
  OBVIOUS
<1>1. UNCHANGED <<case, user, kratos, lock, req>>
  BY DEF vars
<1>2. ReadInv'
  BY ReadStutter DEF AloneInv
<1> QED BY <1>1, <1>2 DEF AloneInv, Undisturbed

(* A request that no other overtakes leaves nobody active whom Kratos does   *)
(* not let in, whatever call or commit of it fails: the identity is made    *)
(* active before the row, and closed only after it, and what was undone was *)
(* never in the row.                                                       *)
THEOREM UsersInUseCanSignIn == Spec => []ActiveCanSignIn
<1>1. AloneInv /\ [Next]_vars => AloneInv'
  BY AloneKept, AloneStutter
<1>2. AloneInv => ActiveCanSignIn
  BY DEF AloneInv, Undisturbed, ActiveCanSignIn
<1> QED BY AloneInit, <1>1, <1>2, PTL DEF Spec

----------------------------------------------------------------------------
(* Locks and transactions. *)

InTransaction == {"select", "lock", "write", "call", "commit", "rollback"}

LocksAreHeld == \A u \in Users : lock[u] # Nobody => req[lock[u]].step \in InTransaction

HeldInv == LocksInv /\ LocksAreHeld

(* Locks are taken by who is in a transaction, and none is kept after it.  *)
LEMMA HoldersStay ==
  ASSUME TypeInv, LocksAreHeld, NEW q \in Requests,
         \A p \in Requests \ {q} : req'[p] = req[p],
         \A u \in Users : lock'[u] \in {lock[u], q, Nobody},
         req'[q].step \in InTransaction \/ \A u \in Users : lock'[u] # q
  PROVE  LocksAreHeld'
<1> SUFFICES ASSUME NEW u \in Users, lock'[u] # Nobody
             PROVE  req'[lock'[u]].step \in InTransaction
  BY DEF LocksAreHeld
<1>1. CASE lock'[u] = q
  BY <1>1
<1>2. CASE lock'[u] # q
  <2>1. lock'[u] = lock[u] /\ lock[u] \in Requests \ {q}
    BY <1>2 DEF TypeInv
  <2> QED BY <2>1 DEF LocksAreHeld
<1> QED BY <1>1, <1>2

(* Who is in no transaction holds no lock.                                 *)
LEMMA OutsideHoldsNone ==
  ASSUME TypeInv, LocksAreHeld, NEW q \in Requests, req[q].step \notin InTransaction
  PROVE  \A u \in Users : lock[u] # q
BY AdministratorsAssumption DEF LocksAreHeld

LEMMA GoesTo ==
  ASSUME TypeInv, NEW q \in Requests, NEW step \in Steps, Go(q, step)
  PROVE  req'[q].step = step
BY DEF TypeInv, RequestRecords, Go

LEMMA TakesForItself ==
  ASSUME TypeInv, NEW q \in Requests, NEW u \in Users, Take(q, u)
  PROVE  \A v \in Users : lock'[v] \in {lock[v], q, Nobody}
BY DEF TypeInv, Take

LEMMA ReleasesItsOwn ==
  ASSUME TypeInv, NEW q \in Requests, Release(q)
  PROVE  \A v \in Users : lock'[v] \in {lock[v], q, Nobody} /\ lock'[v] # q
BY AdministratorsAssumption DEF TypeInv, Release

(* What each step of q does to its locks.                                  *)
HoldsOrReleases(q) ==
  /\ \A u \in Users : lock'[u] \in {lock[u], q, Nobody}
  /\ req'[q].step \in InTransaction \/ \A u \in Users : lock'[u] # q

LEMMA PreparesHolding ==
  ASSUME LocksInv, LocksAreHeld, NEW q \in Requests, Prepares(q)
  PROVE  HoldsOrReleases(q)
<1>1. TypeInv /\ req[q] \in RequestRecords /\ req[q].target \in Users
  BY RequestFields DEF LocksInv
<1>2. CASE Read(q)
  <2>1. req'[q].step \in InTransaction
    BY <1>1, <1>2 DEF Read, TypeInv, RequestRecords, InTransaction
  <2>2. \A u \in Users : lock'[u] \in {lock[u], q, Nobody}
    BY <1>1, <1>2, TakesForItself DEF Read
  <2> QED BY <2>1, <2>2 DEF HoldsOrReleases
<1>3. CASE SelectAdministrators(q)
  BY <1>1, <1>3 DEF SelectAdministrators, TypeInv, RequestRecords, InTransaction, HoldsOrReleases
<1>4. CASE LockNext(q)
  <2>1. PICK u \in Users :
          /\ Take(q, u)
          /\ req' = [req EXCEPT ![q].todo = @ \ {u},
                                ![q].found = IF IsActiveAdministrator(user[u]) THEN @ \cup {u} ELSE @]
    BY <1>4 DEF LockNext, TakesNext
  <2>2. req'[q].step = "lock"
    BY <1>1, <1>4, <2>1 DEF LockNext, At, TypeInv, RequestRecords
  <2> QED BY <1>1, <2>1, <2>2, TakesForItself DEF HoldsOrReleases, InTransaction
<1>5. CASE AdministratorRemains(q)
  <2> DEFINE next == IF req[q].found \ {req[q].target} # {} THEN "write" ELSE "rollback"
  <2>1. Go(q, next) /\ UNCHANGED lock /\ next \in {"write", "rollback"}
    BY <1>5 DEF AdministratorRemains
  <2> HIDE DEF next
  <2>2. req'[q].step = next
    BY <1>1, <2>1, GoesTo DEF Steps
  <2> QED BY <2>1, <2>2 DEF HoldsOrReleases, InTransaction
<1>6. CASE Write(q)
  <2> DEFINE next == IF Changes(req[q]) /\ req[q].op # "create" /\ ~user[req[q].target].exists
                       THEN "rollback" ELSE "commit"
  <2>1. Go(q, next) /\ next \in {"rollback", "commit"}
    BY <1>6 DEF Write
  <2> HIDE DEF next
  <2>2. req'[q].step = next
    BY <1>1, <2>1, GoesTo DEF Steps
  <2>3. \A u \in Users : lock'[u] \in {lock[u], q, Nobody}
    BY <1>1, <1>6, TakesForItself DEF Write
  <2> QED BY <2>1, <2>2, <2>3 DEF HoldsOrReleases, InTransaction
<1> QED BY <1>2, <1>3, <1>4, <1>5, <1>6 DEF Prepares

LEMMA LeavesHolding ==
  ASSUME LocksInv, LocksAreHeld, NEW q \in Requests, Leaves(q) \/ Commit(q)
  PROVE  HoldsOrReleases(q)
<1>1. TypeInv
  BY DEF LocksInv
<1>2. CASE CommitFails(q) \/ Abort(q)
  <2>1. Go(q, "rollback") /\ UNCHANGED lock
    BY <1>2 DEF CommitFails, Abort
  <2>2. req'[q].step = "rollback"
    BY <1>1, <2>1, GoesTo DEF Steps
  <2> QED BY <2>1, <2>2 DEF HoldsOrReleases, InTransaction
<1>3. CASE Rollback(q) \/ Commit(q)
  <2>1. Release(q)
    BY <1>3 DEF Rollback, Commit
  <2> QED BY <1>1, <2>1, ReleasesItsOwn DEF HoldsOrReleases
<1> QED BY <1>2, <1>3 DEF Leaves

LEMMA OutsideHolding ==
  ASSUME LocksInv, LocksAreHeld, NEW q \in Requests,
         Begins(q) \/ \E done \in BOOLEAN : Call(q, done) \/ Effect(q, done) \/ Undo(q, done)
  PROVE  HoldsOrReleases(q)
<1>1. TypeInv
  BY DEF LocksInv
<1>2. CASE Begins(q) \/ \E done \in BOOLEAN : Effect(q, done) \/ Undo(q, done)
  <2>1. req[q].step \in {"new", "effect", "undo"} /\ UNCHANGED lock
    BY <1>2 DEF Begins, Begin, Effect, Undo, At
  <2>2. \A u \in Users : lock[u] # q
    BY <1>1, <2>1, OutsideHoldsNone DEF InTransaction
  <2> QED BY <2>1, <2>2 DEF HoldsOrReleases
<1>3. ASSUME NEW done \in BOOLEAN, Call(q, done)
      PROVE  HoldsOrReleases(q)
  <2>1. UNCHANGED lock /\ req'[q].step \in {"write", "rollback"}
    BY <1>1, <1>3 DEF Call, TypeInv, RequestRecords
  <2> QED BY <2>1 DEF HoldsOrReleases, InTransaction
<1> QED BY <1>2, <1>3

LEMMA EveryStepHolds ==
  ASSUME HeldInv, Next
  PROVE  HeldInv'
<1>1. PICK q \in Requests :
         \/ Begins(q) \/ Prepares(q) \/ Leaves(q) \/ Commit(q)
         \/ \E done \in BOOLEAN : Call(q, done) \/ Effect(q, done) \/ Undo(q, done)
  BY StepCases
<1>2. LocksInv' /\ Mine(q)
  BY <1>1, EveryStepLocks DEF HeldInv
<1>3. HoldsOrReleases(q)
  BY <1>1, PreparesHolding, LeavesHolding, OutsideHolding DEF HeldInv
<1>4. LocksAreHeld'
  BY <1>2, <1>3, HoldersStay DEF HeldInv, LocksInv, Mine, HoldsOrReleases
<1> QED BY <1>2, <1>4 DEF HeldInv

LEMMA HeldInit == Init => HeldInv
BY LocksInit DEF Init, LocksAreHeld, HeldInv

LEMMA HeldStutter == HeldInv /\ UNCHANGED vars => HeldInv'
BY LocksStutter DEF HeldInv, LocksAreHeld, vars

LEMMA LeastOf ==
  ASSUME NEW T, T \subseteq Nat, T # {}
  PROVE  \E n \in T : \A m \in T : n <= m
<1>1. PICK x \in T : \A y \in T : ~ (<<y, x>> \in OpToRel(<, Nat))
  BY NatLessThanWellFounded, WFMin
<1>2. \A y \in T : ~(y < x)
  BY <1>1 DEF OpToRel
<1> QED BY <1>2

LEMMA WantedAreUsers ==
  ASSUME TypeInv, NEW q \in Requests
  PROVE  Wanted(q) \subseteq Users
BY RequestFields DEF Wanted

(* The types of the rows, the identities and the locks.                    *)
THEOREM UsersAreTyped == Spec => []TypeOK
<1>1. HeldInv /\ [Next]_vars => HeldInv'
  BY EveryStepHolds, HeldStutter
<1>2. HeldInv => TypeOK
  BY DEF HeldInv, LocksInv, TypeInv, UserRecords, LocksAreHeld, InTransaction, TypeOK
<1> QED BY HeldInit, <1>1, <1>2, PTL DEF Spec

----------------------------------------------------------------------------
(* Who is aborted. *)

(* Only who may take an administrator away locks more than its own user.   *)
OwnLocks(q) ==
  /\ req[q].step \in {"select", "lock"} => TakesAway(req[q].op)
  /\ \A u \in Users : lock[u] = q => u = req[q].target \/ TakesAway(req[q].op)

AbortInv == HeldInv /\ \A q \in Requests : OwnLocks(q)

(* A step of q under way asks for the same, and takes its own user's lock  *)
(* or asks for administrators.                                             *)
OwnStep(q) ==
  /\ req'[q].op = req[q].op /\ req'[q].target = req[q].target
  /\ req'[q].step \in {"select", "lock"} => TakesAway(req[q].op)
  /\ \A u \in Users : lock'[u] = q => lock[u] = q \/ u = req[q].target \/ TakesAway(req[q].op)

LEMMA PreparesOwn ==
  ASSUME AbortInv, NEW q \in Requests, Prepares(q)
  PROVE  OwnStep(q)
<1>1. TypeInv /\ req[q] \in RequestRecords /\ req[q].target \in Users /\ OwnLocks(q)
  BY RequestFields DEF AbortInv, HeldInv, LocksInv
<1>2. CASE Read(q)
  <2>1. /\ req'[q].op = req[q].op /\ req'[q].target = req[q].target
        /\ req'[q].step # "lock"
        /\ req'[q].step = "select" => NoLongerAdministrator(req[q].op, user[req[q].target])
    BY <1>1, <1>2 DEF Read, TypeInv, RequestRecords
  <2>2. \A u \in Users : lock'[u] = q => lock[u] = q \/ u = req[q].target
    BY <1>1, <1>2 DEF Read, Take, TypeInv
  <2> QED BY <2>1, <2>2 DEF OwnStep, NoLongerAdministrator, TakesAway
<1>3. CASE SelectAdministrators(q)
  BY <1>1, <1>3 DEF SelectAdministrators, At, TypeInv, RequestRecords, OwnStep, OwnLocks
<1>4. CASE LockNext(q)
  <2>1. PICK u \in Users :
          req' = [req EXCEPT ![q].todo = @ \ {u},
                             ![q].found = IF IsActiveAdministrator(user[u]) THEN @ \cup {u} ELSE @]
    BY <1>4 DEF LockNext
  <2>2. req'[q].op = req[q].op /\ req'[q].target = req[q].target
    BY <1>1, <2>1 DEF TypeInv, RequestRecords
  <2>3. TakesAway(req[q].op)
    BY <1>1, <1>4 DEF LockNext, At, OwnLocks
  <2> QED BY <2>2, <2>3 DEF OwnStep
<1>5. CASE AdministratorRemains(q)
  <2>1. TakesAway(req[q].op)
    BY <1>1, <1>5 DEF AdministratorRemains, At, OwnLocks
  <2>2. req'[q].op = req[q].op /\ req'[q].target = req[q].target
    BY <1>1, <1>5 DEF AdministratorRemains, Go, TypeInv, RequestRecords
  <2> QED BY <2>1, <2>2 DEF OwnStep
<1>6. CASE Write(q)
  <2> DEFINE next == IF Changes(req[q]) /\ req[q].op # "create" /\ ~user[req[q].target].exists
                       THEN "rollback" ELSE "commit"
  <2>1. Go(q, next) /\ next \in {"rollback", "commit"}
    BY <1>6 DEF Write
  <2> HIDE DEF next
  <2>2. /\ req'[q].op = req[q].op /\ req'[q].target = req[q].target
        /\ req'[q].step \in {"rollback", "commit"}
    BY <1>1, <2>1 DEF Go, TypeInv, RequestRecords
  <2>3. \A u \in Users : lock'[u] = q => lock[u] = q \/ u = req[q].target
    BY <1>1, <1>6 DEF Write, Take, TypeInv
  <2> QED BY <2>2, <2>3 DEF OwnStep
<1> QED BY <1>2, <1>3, <1>4, <1>5, <1>6 DEF Prepares

LEMMA EndsOwn ==
  ASSUME AbortInv, NEW q \in Requests,
         \/ Leaves(q) \/ Commit(q)
         \/ \E done \in BOOLEAN : Call(q, done) \/ Effect(q, done) \/ Undo(q, done)
  PROVE  OwnStep(q)
<1>1. TypeInv /\ LocksInv
  BY DEF AbortInv, HeldInv, LocksInv
<1>2. CASE Leaves(q) \/ Commit(q) \/ \E done \in BOOLEAN : Effect(q, done) \/ Undo(q, done)
  <2>1. /\ req'[q].op = req[q].op /\ req'[q].target = req[q].target
        /\ req'[q].step \in {"effect", "rollback", "undo", "done"}
    BY <1>1, <1>2, LeaveLocks DEF Leaves
  <2>2. UNCHANGED lock \/ Release(q)
    BY <1>2 DEF Leaves, CommitFails, Rollback, Abort, Commit, Effect, Undo
  <2>3. \A u \in Users : lock'[u] = q => lock[u] = q
    BY <1>1, <2>2, ReleasesItsOwn
  <2> QED BY <2>1, <2>3 DEF OwnStep
<1>3. ASSUME NEW done \in BOOLEAN, Call(q, done)
      PROVE  OwnStep(q)
  <2>1. /\ UNCHANGED lock /\ req'[q].step \in {"write", "rollback"}
        /\ req'[q].op = req[q].op /\ req'[q].target = req[q].target
    BY <1>1, <1>3 DEF Call, TypeInv, RequestRecords
  <2> QED BY <2>1 DEF OwnStep
<1> QED BY <1>2, <1>3

LEMMA EveryStepOwns ==
  ASSUME AbortInv, Next
  PROVE  AbortInv'
<1>1. PICK q \in Requests :
         \/ Begins(q) \/ Prepares(q) \/ Leaves(q) \/ Commit(q)
         \/ \E done \in BOOLEAN : Call(q, done) \/ Effect(q, done) \/ Undo(q, done)
  BY StepCases
<1>2. HeldInv' /\ Mine(q) /\ HoldsOrReleases(q) /\ LocksInv /\ LocksAreHeld
  BY <1>1, EveryStepHolds, EveryStepLocks, PreparesHolding, LeavesHolding, OutsideHolding
     DEF AbortInv, HeldInv
<1>3. OwnLocks(q)'
  <2>1. CASE Begins(q)
    <3>1. req[q].step = "new" /\ UNCHANGED lock
      BY <2>1 DEF Begins, Begin, At
    <3>2. \A u \in Users : lock'[u] # q
      BY <1>2, <3>1, OutsideHoldsNone DEF LocksInv, InTransaction
    <3>3. req'[q].step \in {"call", "read"}
      BY <1>2, <2>1 DEF Begins, Begin, LocksInv, TypeInv, NewRequest
    <3> QED BY <3>2, <3>3 DEF OwnLocks
  <2>2. CASE ~Begins(q)
    <3>1. OwnStep(q) /\ OwnLocks(q)
      BY <1>1, <2>2, PreparesOwn, EndsOwn DEF AbortInv
    <3> QED BY <3>1 DEF OwnStep, OwnLocks
  <2> QED BY <2>1, <2>2
<1>4. ASSUME NEW p \in Requests \ {q}
      PROVE  OwnLocks(p)'
  <2>1. OwnLocks(p) /\ req'[p] = req[p]
    BY <1>2, <1>4 DEF AbortInv, Mine
  <2>2. \A u \in Users : lock'[u] = p => lock[u] = p
    BY <1>2, <1>4, AdministratorsAssumption DEF HoldsOrReleases
  <2> QED BY <2>1, <2>2 DEF OwnLocks
<1> QED BY <1>2, <1>3, <1>4 DEF AbortInv

LEMMA AbortInit == Init => AbortInv
<1> SUFFICES ASSUME Init PROVE AbortInv
  OBVIOUS
<1>1. \A q \in Requests : req[q] = NewRequest
  BY DEF Init
<1>2. \A q \in Requests, u \in Users : lock[u] # q
  BY AdministratorsAssumption DEF Init
<1> QED BY <1>1, <1>2, HeldInit DEF AbortInv, OwnLocks, NewRequest

LEMMA AbortStutter == AbortInv /\ UNCHANGED vars => AbortInv'
BY HeldStutter DEF AbortInv, OwnLocks, vars

LEMMA CirclesTakeAway ==
  ASSUME AbortInv, NEW q \in Requests, Deadlocked(q)
  PROVE  TakesAway(req[q].op)
<1>1. TypeInv /\ LocksAreHeld /\ OwnLocks(q) /\ req[q].target \in Users
  BY RequestFields DEF AbortInv, HeldInv, LocksInv
<1>2. PICK p \in Requests, o \in Requests : WaitsFor(q, o) /\ WaitsFor(p, q)
  BY DEF Deadlocked, Circle
<1>3. PICK u \in Wanted(q) : lock[u] = o
  BY <1>2 DEF WaitsFor
<1>4. PICK v \in Users : lock[v] = q
  BY <1>1, <1>2, WantedAreUsers DEF WaitsFor
<1>5. req[q].step \in InTransaction
  BY <1>1, <1>4, AdministratorsAssumption DEF LocksAreHeld
<1>6. CASE At(q, "lock")
  BY <1>1, <1>6 DEF At, OwnLocks
<1>7. CASE At(q, "write")
  <2>1. u = req[q].target /\ o # q
    BY <1>2, <1>3, <1>7 DEF Wanted, At, WaitsFor
  <2>2. v # req[q].target
    BY <1>3, <1>4, <2>1
  <2> QED BY <1>1, <1>4, <2>2 DEF OwnLocks
<1>8. At(q, "lock") \/ At(q, "write")
  BY <1>3, <1>5 DEF Wanted, At, InTransaction
<1> QED BY <1>6, <1>7, <1>8

(* Who reads without a lock locks by id: what it has locked for the check   *)
(* is below all that it still wants.                                       *)
InOrder(q) ==
  req[q].op \notin LockingReads =>
    /\ At(q, "select") => \A u \in Users : lock[u] # q
    /\ At(q, "lock") => \A u \in Users : lock[u] = q => \A v \in req[q].todo : u < v

OrderInv == HeldInv /\ \A q \in Requests : InOrder(q)

LEMMA PreparesInOrder ==
  ASSUME OrderInv, NEW q \in Requests, Prepares(q)
  PROVE  InOrder(q)'
<1>1. /\ TypeInv /\ LocksAreHeld /\ InOrder(q)
      /\ req[q] \in RequestRecords /\ req[q].target \in Users
  BY RequestFields DEF OrderInv, HeldInv, LocksInv
<1>2. CASE Read(q)
  <2>1. /\ req'[q].op = req[q].op /\ req'[q].step # "lock"
        /\ req[q].op \notin LockingReads => UNCHANGED lock
    BY <1>1, <1>2 DEF Read, TypeInv, RequestRecords
  <2>2. \A u \in Users : lock[u] # q
    BY <1>1, <1>2, OutsideHoldsNone DEF Read, At, InTransaction
  <2> QED BY <2>1, <2>2 DEF InOrder, At
<1>3. CASE SelectAdministrators(q)
  <2>1. req'[q].op = req[q].op /\ req'[q].step = "lock" /\ UNCHANGED lock /\ At(q, "select")
    BY <1>1, <1>3 DEF SelectAdministrators, TypeInv, RequestRecords
  <2> QED BY <1>1, <2>1 DEF InOrder, At
<1>4. CASE LockNext(q)
  <2>1. PICK u \in Users :
          /\ IsNext(q, u) /\ Take(q, u)
          /\ req' = [req EXCEPT ![q].todo = @ \ {u},
                                ![q].found = IF IsActiveAdministrator(user[u]) THEN @ \cup {u} ELSE @]
    BY <1>4 DEF LockNext, TakesNext
  <2>2. /\ req'[q].op = req[q].op /\ req'[q].todo = req[q].todo \ {u}
        /\ req'[q].step = "lock" /\ At(q, "lock")
    BY <1>1, <1>4, <2>1 DEF LockNext, At, TypeInv, RequestRecords
  <2>3. \A v \in Users : lock'[v] = q => lock[v] = q \/ v = u
    BY <1>1, <2>1 DEF Take, TypeInv
  <2>4. /\ req[q].todo \subseteq Nat /\ u \in Nat
        /\ \A v \in req[q].todo \ {u} : u < v
    BY <1>1, <2>1, AdministratorsAssumption DEF IsNext, RequestRecords
  <2> QED BY <1>1, <2>2, <2>3, <2>4 DEF InOrder, At
<1>5. CASE AdministratorRemains(q)
  <2> DEFINE next == IF req[q].found \ {req[q].target} # {} THEN "write" ELSE "rollback"
  <2>1. Go(q, next) /\ next \in {"write", "rollback"}
    BY <1>5 DEF AdministratorRemains
  <2> HIDE DEF next
  <2>2. req'[q].step = next
    BY <1>1, <2>1, GoesTo DEF Steps
  <2> QED BY <2>1, <2>2 DEF InOrder, At
<1>6. CASE Write(q)
  <2> DEFINE next == IF Changes(req[q]) /\ req[q].op # "create" /\ ~user[req[q].target].exists
                       THEN "rollback" ELSE "commit"
  <2>1. Go(q, next) /\ next \in {"rollback", "commit"}
    BY <1>6 DEF Write
  <2> HIDE DEF next
  <2>2. req'[q].step = next
    BY <1>1, <2>1, GoesTo DEF Steps
  <2> QED BY <2>1, <2>2 DEF InOrder, At
<1> QED BY <1>2, <1>3, <1>4, <1>5, <1>6 DEF Prepares

LEMMA EveryStepInOrder ==
  ASSUME OrderInv, Next
  PROVE  OrderInv'
<1>1. PICK q \in Requests :
         \/ Begins(q) \/ Prepares(q) \/ Leaves(q) \/ Commit(q)
         \/ \E done \in BOOLEAN : Call(q, done) \/ Effect(q, done) \/ Undo(q, done)
  BY StepCases
<1>2. HeldInv' /\ Mine(q) /\ HoldsOrReleases(q) /\ LocksInv /\ TypeInv
  BY <1>1, EveryStepHolds, EveryStepLocks, PreparesHolding, LeavesHolding, OutsideHolding
     DEF OrderInv, HeldInv, LocksInv
<1>3. InOrder(q)'
  <2>1. CASE Begins(q)
    <3>1. req'[q].step \in {"call", "read"}
      BY <1>2, <2>1 DEF Begins, Begin, TypeInv, NewRequest
    <3> QED BY <3>1 DEF InOrder, At
  <2>2. CASE Prepares(q)
    BY <2>2, PreparesInOrder
  <2>3. CASE Leaves(q) \/ Commit(q) \/ \E done \in BOOLEAN : Effect(q, done) \/ Undo(q, done)
    <3>1. req'[q].step \in {"effect", "rollback", "undo", "done"}
      BY <1>2, <2>3, LeaveLocks DEF Leaves
    <3> QED BY <3>1 DEF InOrder, At
  <2>4. ASSUME NEW done \in BOOLEAN, Call(q, done)
        PROVE  InOrder(q)'
    <3>1. req'[q].step \in {"write", "rollback"}
      BY <1>2, <2>4 DEF Call, TypeInv, RequestRecords
    <3> QED BY <3>1 DEF InOrder, At
  <2> QED BY <1>1, <2>1, <2>2, <2>3, <2>4
<1>4. ASSUME NEW p \in Requests \ {q}
      PROVE  InOrder(p)'
  <2>1. InOrder(p) /\ req'[p] = req[p]
    BY <1>2, <1>4 DEF OrderInv, Mine
  <2>2. \A u \in Users : lock'[u] = p => lock[u] = p
    BY <1>2, <1>4, AdministratorsAssumption DEF HoldsOrReleases
  <2> QED BY <2>1, <2>2 DEF InOrder, At
<1> QED BY <1>2, <1>3, <1>4 DEF OrderInv

LEMMA OrderInit == Init => OrderInv
<1> SUFFICES ASSUME Init PROVE OrderInv
  OBVIOUS
<1>1. \A q \in Requests : req[q].step = "new"
  BY DEF Init, NewRequest
<1> QED BY <1>1, HeldInit DEF OrderInv, InOrder, At

LEMMA OrderStutter == OrderInv /\ UNCHANGED vars => OrderInv'
BY HeldStutter DEF OrderInv, InOrder, At, vars

(* Who waits and is waited for asks for administrators or writes.          *)
LEMMA CirclesAsk ==
  ASSUME HeldInv, NEW q \in Requests, NEW o \in Requests, NEW p \in Requests,
         WaitsFor(q, o), WaitsFor(p, q)
  PROVE  At(q, "lock") \/ At(q, "write")
<1>1. TypeInv /\ LocksAreHeld
  BY DEF HeldInv, LocksInv
<1>2. PICK v \in Users : lock[v] = q
  BY <1>1, WantedAreUsers DEF WaitsFor
<1>3. req[q].step \in InTransaction
  BY <1>2, <1>1, AdministratorsAssumption DEF LocksAreHeld
<1> QED BY <1>3 DEF WaitsFor, Wanted, At, InTransaction

(* Checks alone wait for each other in the order of the ids: of the rows   *)
(* wanted in a circle the least would be held by who wants a lesser one.   *)
LEMMA ChecksDoNotCircle ==
  ASSUME OrderInv, NEW S \in SUBSET Requests, Circle(S),
         \A q \in S : req[q].op \notin LockingReads /\ ~At(q, "write")
  PROVE  FALSE
<1>1. TypeInv /\ HeldInv
  BY DEF OrderInv, HeldInv, LocksInv
<1>2. \A q \in S : At(q, "lock")
  BY <1>1, CirclesAsk DEF Circle
<1> DEFINE wanted == {u \in Users : \E q \in S : u \in Wanted(q)}
<1>3. wanted # {} /\ wanted \subseteq Nat
  <2>1. PICK q \in S : \E o \in S : WaitsFor(q, o)
    BY DEF Circle
  <2>2. PICK u \in Wanted(q) : TRUE
    BY <2>1 DEF WaitsFor
  <2>3. u \in wanted
    BY <1>1, <2>2, WantedAreUsers
  <2> QED BY <2>3, AdministratorsAssumption
<1>4. PICK w \in wanted : \A u \in wanted : w <= u
  BY <1>3, LeastOf
<1>5. PICK q \in S : w \in Wanted(q)
  BY <1>4
<1>6. w \in req[q].todo
  BY <1>2, <1>5 DEF Wanted, At, IsNext
<1>7. PICK p \in S : WaitsFor(p, q)
  BY <1>5 DEF Circle
<1>8. PICK u \in Wanted(p) : lock[u] = q
  BY <1>7 DEF WaitsFor
<1>9. u \in wanted /\ u \in Users
  BY <1>1, <1>8, WantedAreUsers
<1>10. w <= u
  BY <1>4, <1>9
<1>11. u < w
  BY <1>2, <1>5, <1>6, <1>8, <1>9 DEF OrderInv, InOrder
<1>12. u \in Nat /\ w \in Nat
  BY <1>3, <1>4, <1>9
<1> HIDE DEF wanted
<1> QED BY <1>10, <1>11, <1>12

(* Because _ensure_administrator_remains locks the administrators by id,   *)
(* its requests alone never wait for each other in a circle, whatever      *)
(* their number: one that does form is closed over a target, by a change   *)
(* of role that has locked it first or by the UPDATE at the end, and only  *)
(* requests that take administrators away are in it (_user.py:283-296).    *)
THEOREM DeadlocksAreOverTargets == Spec => []DeadlocksOnlyOverTargets
<1>1. AbortInv /\ [Next]_vars => AbortInv'
  BY EveryStepOwns, AbortStutter
<1>2. OrderInv /\ [Next]_vars => OrderInv'
  BY EveryStepInOrder, OrderStutter
<1>3. ASSUME AbortInv, OrderInv
      PROVE  DeadlocksOnlyOverTargets
  <2> SUFFICES ASSUME NEW S \in SUBSET Requests, Circle(S)
               PROVE  /\ \A q \in S : TakesAway(req[q].op)
                      /\ \E q \in S : req[q].op \in LockingReads \/ At(q, "write")
    BY DEF DeadlocksOnlyOverTargets
  <2>1. \A q \in S : Deadlocked(q)
    BY DEF Deadlocked
  <2> QED BY <1>3, <2>1, CirclesTakeAway, ChecksDoNotCircle
<1>4. AbortInv /\ OrderInv => DeadlocksOnlyOverTargets
  BY <1>3
<1> QED BY AbortInit, OrderInit, <1>1, <1>2, <1>4, PTL DEF Spec

(* A deadlock ends only requests that may take an administrator away: who  *)
(* makes an administrator, activates, restores or creates a user may wait, *)
(* but nobody waits for it meanwhile (_user.py:283-296).                   *)
OnlyWhoTakesAwayIsAborted == [][\A q \in Requests : Abort(q) => TakesAway(req[q].op)]_vars

(* The requests that only add to the administrators are never the ones a   *)
(* deadlock ends: a circle of waits is one of requests that have locked    *)
(* several users in _ensure_administrator_remains (_user.py:283-296).      *)
THEOREM OthersAreNeverAborted == Spec => OnlyWhoTakesAwayIsAborted
<1>1. AbortInv /\ [Next]_vars => AbortInv'
  BY EveryStepOwns, AbortStutter
<1>2. AbortInv => \A q \in Requests : Abort(q) => TakesAway(req[q].op)
  BY CirclesTakeAway DEF Abort
<1> QED BY AbortInit, <1>1, <1>2, PTL DEF Spec, OnlyWhoTakesAwayIsAborted

-----------------------------------------------------------------------------
(* When the key of a PAK works and why a rotation keeps what its mode      *)
(* promises, for any requests and number of secrets and the failures each  *)
(* property allows.  The lock of the row keeps two rotations apart up to   *)
(* the commit.  It does not cover the undo in Hydra after a rollback,      *)
(* which may come after another request has rotated: nothing is said of    *)
(* requests that overlap and fail to commit.  The inductive invariant:     *)

Secrets == 0..MaxSecret
PakSteps == {"idle", "lock", "call", "commit", "rollback", "effect", "undo", "answer"}
Calling == Pak!Rotations \cup {"create"}

RowRecords == [exists : BOOLEAN, active : BOOLEAN, archived : BOOLEAN, secret : Secrets]
ClientRecords == [exists : BOOLEAN, secret : Secrets]
PakRequestRecords ==
  [step : PakSteps, op : Pak!Operations \cup {"none"}, old : Secrets, new : Secrets,
   undo : BOOLEAN, ok : BOOLEAN]
DeviceRecords ==
  [key : Secrets, token : Secrets, step : {"idle", "introspected", "authorized", "locked"}]

PakTypeInv ==
  /\ pakCase \in PakCases
  /\ pakRow \in RowRecords
  /\ hydra \in ClientRecords
  /\ tokens \subseteq Secrets
  /\ secret \in Secrets
  /\ rowLock \in PakRequests \cup {Pak!Nobody, Pak!Machine}
  /\ pakReq \in [PakRequests -> PakRequestRecords]
  /\ device \in DeviceRecords
  /\ inUse \in BOOLEAN /\ session \in BOOLEAN

(* A request calls and commits under the lock of the row, unless it makes  *)
(* the row; what it has to undo is what it did in Hydra, and that only if  *)
(* its transaction has not been committed.                                 *)
PakProgress(q) ==
  /\ pakReq[q].step # "idle" => pakReq[q].op \in Pak!Operations /\ q \in pakCase.requests
  /\ pakReq[q].step = "idle" => pakReq[q] = Pak!NoRequest
  /\ pakReq[q].step = "call" => pakReq[q].op \in Calling
  /\ pakReq[q].step = "lock" => pakReq[q].op # "create"
  /\ pakReq[q].op # "create" /\ pakReq[q].step \in {"call", "commit"} => rowLock = q
  /\ rowLock = q => pakReq[q].step \in {"call", "commit", "rollback"}
  /\ pakReq[q].step = "effect" => Pak!HasEffect(pakReq[q].op)
  /\ pakReq[q].step = "commit" => (pakReq[q].undo <=> pakReq[q].op \in Calling)
  /\ pakReq[q].undo => pakReq[q].op \in Calling
  /\ pakReq[q].step \in {"idle", "lock", "call"} => ~pakReq[q].undo
  /\ pakReq[q].step = "undo" => pakReq[q].undo
  /\ pakReq[q].step \in {"rollback", "undo"} /\ pakReq[q].undo => "commit" \in pakCase.failures
  /\ pakReq[q].ok => pakReq[q].step \in {"effect", "answer"}
  /\ pakReq[q].new <= secret

(* The PAK opens its session under the lock, which a planned rotation      *)
(* holds from its look at the sessions to its commit.                      *)
SessionsWait ==
  /\ device.step = "locked" <=> rowLock = Pak!Machine
  /\ \A q \in PakRequests :
       pakReq[q].op = "rotate_planned" /\ pakReq[q].step \in {"call", "commit"} => ~session

Creates(q) ==
  /\ pakReq[q].op = "create"
  /\ \/ pakReq[q].step \in {"call", "commit"}
     \/ pakReq[q].step \in {"rollback", "undo"} /\ pakReq[q].undo

(* While a PAK is created the other requests find no row and are refused.  *)
Refusing(p) ==
  /\ pakReq[p].step \in {"idle", "lock", "rollback", "answer"}
  /\ pakReq[p].op # "create"
  /\ ~pakReq[p].undo /\ ~pakReq[p].ok

Creation(q) ==
  Creates(q) =>
    /\ ~pakRow.exists /\ secret = 0
    /\ pakReq[q].step = "commit" => hydra.exists /\ hydra.secret = pakReq[q].new
    /\ \A p \in PakRequests : p # q => Refusing(p)

PakLocksInv ==
  /\ PakTypeInv
  /\ \A q \in PakRequests : PakProgress(q) /\ Creation(q)
  /\ SessionsWait

(* Under the failures that KeysWork and RotationModes allow.               *)
OthersDoNotUndo == Pak!OneByOne \/ "commit" \notin pakCase.failures
CallsWork == "call" \notin pakCase.failures
StoresAreSafe == pakCase.failures = {} \/ (Pak!OneByOne /\ pakCase.failures = {"commit"})

(* A request that rotates, from its call to its answer.                    *)
Rotates(q) ==
  /\ pakReq[q].op \in Pak!Rotations
  /\ pakReq[q].step \in {"commit", "effect"} \/ (pakReq[q].step = "answer" /\ pakReq[q].ok)

(* No commit of an earlier rotation is undone after it.                    *)
NewKeyIsSet(q) ==
  Rotates(q) =>
    /\ OthersDoNotUndo => pakReq[q].new <= hydra.secret
    /\ Pak!OneByOne
       => hydra.secret = IF pakReq[q].step = "commit" THEN pakReq[q].new ELSE pakRow.secret
    /\ OthersDoNotUndo /\ CallsWork /\ pakReq[q].op = "rotate_immediate"
       /\ pakReq[q].step = "answer" =>
         \A s \in tokens : pakReq[q].new <= s

(* A request that has made the two stores differ and will make them agree. *)
Settles(q) == Creates(q) \/ (pakReq[q].op = "delete" /\ pakReq[q].step = "effect")
Turns(q) ==
  /\ pakReq[q].op \in Pak!Rotations
  /\ \/ pakReq[q].step \in {"call", "commit"}
     \/ pakReq[q].step \in {"rollback", "undo"} /\ pakReq[q].undo
SettlesKey(q) == Turns(q) /\ pakReq[q].step # "call"

Agrees(q) ==
  /\ Turns(q) => pakReq[q].old = pakRow.secret
  /\ Turns(q) /\ pakReq[q].step = "commit" => hydra.secret = pakReq[q].new
  /\ pakReq[q].op = "delete" /\ pakReq[q].step = "effect" => ~pakRow.exists

StoresFit ==
  /\ pakRow.exists => hydra.exists
  /\ hydra.exists /\ ~pakRow.exists => \E q \in PakRequests : Settles(q)
  /\ pakRow.exists /\ hydra.secret # pakRow.secret => \E q \in PakRequests : SettlesKey(q)
  /\ \A q \in PakRequests : Agrees(q)

StoresInv == StoresAreSafe => StoresFit

KeysInv == PakLocksInv /\ StoresInv /\ \A q \in PakRequests : NewKeyIsSet(q)

-----------------------------------------------------------------------------
(* Types. *)

LEMMA Names ==
  ASSUME Pak!CredentialsAssumption
  PROVE  /\ MaxSecret \in Nat
         /\ \A q \in PakRequests : q # Pak!Nobody /\ q # Pak!Machine
         /\ Pak!Nobody # Pak!Machine
         /\ 0 \in Secrets /\ Secrets \subseteq Nat
BY DEF Pak!CredentialsAssumption, Pak!Nobody, Pak!Machine, Secrets

LEMMA NoRequestType ==
  ASSUME Pak!CredentialsAssumption
  PROVE  Pak!NoRequest \in PakRequestRecords
BY Names DEF Pak!NoRequest, PakRequestRecords, PakSteps

LEMMA PakTypeInit ==
  ASSUME Pak!CredentialsAssumption, Pak!Init
  PROVE  PakTypeInv
<1>1. pakCase \in PakCases /\ inUse \in BOOLEAN /\ session \in BOOLEAN /\ tokens \subseteq Secrets
  BY DEF Pak!Init
<1>2. pakRow \in RowRecords /\ hydra \in ClientRecords /\ secret \in Secrets
  BY Names DEF Pak!Init, RowRecords, ClientRecords
<1>3. rowLock \in PakRequests \cup {Pak!Nobody, Pak!Machine} /\ device \in DeviceRecords
  BY Names DEF Pak!Init, DeviceRecords
<1>4. pakReq \in [PakRequests -> PakRequestRecords]
  BY NoRequestType DEF Pak!Init
<1> QED BY <1>1, <1>2, <1>3, <1>4 DEF PakTypeInv

(* What one request does to the progress of the requests.                  *)
LEMMA RequestMoves ==
  ASSUME PakTypeInv, NEW q \in PakRequests, NEW r \in PakRequestRecords,
         pakReq' = [pakReq EXCEPT ![q] = r]
  PROVE  /\ pakReq' \in [PakRequests -> PakRequestRecords]
         /\ pakReq'[q] = r
         /\ \A p \in PakRequests : p # q => pakReq'[p] = pakReq[p]
BY DEF PakTypeInv

LEMMA Goes ==
  ASSUME PakTypeInv, NEW q \in PakRequests, NEW step \in PakSteps, Pak!Go(q, step)
  PROVE  /\ pakReq' = [pakReq EXCEPT ![q] = [pakReq[q] EXCEPT !.step = step]]
         /\ [pakReq[q] EXCEPT !.step = step] \in PakRequestRecords
BY DEF PakTypeInv, Pak!Go, PakRequestRecords

(* Every step of a request writes that request only.                       *)
LEMMA BeginType ==
  ASSUME Pak!CredentialsAssumption, PakTypeInv, NEW q \in PakRequests, NEW op \in Pak!Operations,
         Pak!Begin(q, op)
  PROVE  PakTypeInv'
<1> DEFINE r == [Pak!NoRequest EXCEPT !.step = IF op = "create" THEN "call" ELSE "lock", !.op = op]
<1>1. r \in PakRequestRecords
  BY NoRequestType DEF PakRequestRecords, PakSteps
<1>2. pakReq' = [pakReq EXCEPT ![q] = r]
  BY DEF Pak!Begin
<1> HIDE DEF r
<1>3. pakReq' \in [PakRequests -> PakRequestRecords]
  BY <1>1, <1>2, RequestMoves
<1> QED BY <1>3 DEF PakTypeInv, Pak!Begin

LEMMA RequireType ==
  ASSUME Pak!CredentialsAssumption, PakTypeInv, NEW q \in PakRequests, Pak!Require(q)
  PROVE  PakTypeInv'
<1> DEFINE next == CASE Pak!Refused(pakReq[q].op) -> "rollback"
                     [] pakReq[q].op \in Pak!Rotations -> "call"
                     [] OTHER -> "commit"
           r == [pakReq[q] EXCEPT !.old = pakRow.secret, !.step = next]
<1>1. next \in PakSteps
  BY DEF PakSteps
<1>2. pakReq' = [pakReq EXCEPT ![q] = r]
  BY DEF Pak!Require, PakTypeInv, PakRequestRecords
<1> HIDE DEF next
<1>3. r \in PakRequestRecords
  BY <1>1 DEF PakTypeInv, PakRequestRecords, RowRecords
<1> HIDE DEF r
<1>4. pakReq' \in [PakRequests -> PakRequestRecords]
  BY <1>2, <1>3, RequestMoves
<1>5. rowLock' = q
  BY DEF Pak!Require, Pak!LockRow
<1> QED BY <1>4, <1>5 DEF PakTypeInv, Pak!Require

(* The secret a call makes, and the request after it.                      *)
Made(q) == IF pakReq[q].op = "create" THEN secret ELSE secret + 1
Works(q, done) == done /\ (pakReq[q].op = "create" \/ hydra.exists)
Called(q, done, answered) ==
  [pakReq[q] EXCEPT !.step = IF Works(q, done) /\ answered THEN "commit" ELSE "rollback",
                    !.new = Made(q), !.undo = (Works(q, done) /\ answered)]

LEMMA CallFacts ==
  ASSUME Pak!CredentialsAssumption, PakTypeInv, NEW q \in PakRequests,
         NEW done \in BOOLEAN, NEW answered \in BOOLEAN, Pak!Call(q, done, answered)
  PROVE  /\ pakReq[q].step = "call"
         /\ secret' = Made(q) /\ Made(q) \in Secrets /\ secret <= Made(q)
         /\ hydra' = IF Works(q, done) THEN [exists |-> TRUE, secret |-> Made(q)] ELSE hydra
         /\ hydra' \in ClientRecords
         /\ Called(q, done, answered) \in PakRequestRecords
         /\ pakReq' = [pakReq EXCEPT ![q] = Called(q, done, answered)]
         /\ UNCHANGED <<pakCase, pakRow, inUse, tokens, rowLock, device, session>>
<1>1. /\ pakReq[q].step = "call" /\ secret' = Made(q)
      /\ hydra' = IF Works(q, done) THEN [exists |-> TRUE, secret |-> Made(q)] ELSE hydra
      /\ secret < MaxSecret \/ pakReq[q].op = "create"
      /\ UNCHANGED <<pakCase, pakRow, inUse, tokens, rowLock, device, session>>
  BY DEF Pak!Call, Made, Works
<1>2. Made(q) \in Secrets /\ secret <= Made(q)
  BY <1>1, Names DEF Made, PakTypeInv, Secrets
<1>3. Works(q, done) \in BOOLEAN
  BY DEF Works
<1>4. pakReq' = [pakReq EXCEPT ![q] = Called(q, done, answered)]
  BY DEF Pak!Call, Called, Made, Works, Pak!UndoRegistered, PakTypeInv, PakRequestRecords
<1>5. Called(q, done, answered) \in PakRequestRecords
  BY <1>2, <1>3 DEF Called, PakTypeInv, PakRequestRecords, PakSteps
<1>6. hydra' \in ClientRecords
  BY <1>1, <1>2 DEF PakTypeInv, ClientRecords
<1> QED BY <1>1, <1>2, <1>4, <1>5, <1>6

LEMMA CallType ==
  ASSUME Pak!CredentialsAssumption, PakTypeInv, NEW q \in PakRequests,
         NEW done \in BOOLEAN, NEW answered \in BOOLEAN, Pak!Call(q, done, answered)
  PROVE  PakTypeInv'
<1>1. pakReq' \in [PakRequests -> PakRequestRecords]
  BY CallFacts, RequestMoves
<1>2. secret' \in Secrets /\ hydra' \in ClientRecords
  BY CallFacts
<1> QED BY <1>1, <1>2 DEF PakTypeInv, Pak!Call

LEMMA UnlockedType ==
  ASSUME PakTypeInv, NEW q \in PakRequests, Pak!Unlocked(q)
  PROVE  rowLock' \in PakRequests \cup {Pak!Nobody, Pak!Machine}
BY DEF PakTypeInv, Pak!Unlocked

Committed(q) ==
  [pakReq[q] EXCEPT !.step = IF Pak!HasEffect(pakReq[q].op) THEN "effect" ELSE "answer",
                    !.ok = TRUE]

LEMMA CommitFacts ==
  ASSUME PakTypeInv, NEW q \in PakRequests, Pak!Commit(q)
  PROVE  /\ pakReq[q].step = "commit"
         /\ pakRow' = Pak!Written(pakReq[q]) /\ Pak!Written(pakReq[q]) \in RowRecords
         /\ Pak!Unlocked(q)
         /\ Committed(q) \in PakRequestRecords
         /\ pakReq' = [pakReq EXCEPT ![q] = Committed(q)]
         /\ UNCHANGED <<pakCase, inUse, hydra, tokens, secret, device, session>>
<1>1. pakReq[q] \in PakRequestRecords /\ pakRow \in RowRecords
  BY DEF PakTypeInv
<1>2. Pak!Written(pakReq[q]) \in RowRecords
  <2>1. pakReq[q].new \in Secrets
    BY <1>1 DEF PakRequestRecords
  <2>2. CASE pakReq[q].op = "create"
    BY <2>1, <2>2 DEF Pak!Written, Pak!NewSecret, RowRecords
  <2>3. CASE pakReq[q].op \in {"activate", "deactivate"}
    <3>1. Pak!Written(pakReq[q]) = [pakRow EXCEPT !.active = pakReq[q].op = "activate"]
      BY <2>3 DEF Pak!Written
    <3> QED BY <1>1, <3>1 DEF RowRecords
  <2>4. CASE pakReq[q].op \notin {"create", "activate", "deactivate"}
    BY <1>1, <2>1, <2>4 DEF Pak!Written, Pak!NewSecret, RowRecords
  <2> QED BY <2>2, <2>3, <2>4
<1>3. Committed(q) \in PakRequestRecords
  BY <1>1 DEF Committed, PakRequestRecords, PakSteps
<1>4. pakReq' = [pakReq EXCEPT ![q] = Committed(q)]
  BY <1>1 DEF Pak!Commit, Committed, PakTypeInv, PakRequestRecords
<1> QED BY <1>2, <1>3, <1>4 DEF Pak!Commit

LEMMA CommitType ==
  ASSUME PakTypeInv, NEW q \in PakRequests, Pak!Commit(q)
  PROVE  PakTypeInv'
<1>1. pakReq' \in [PakRequests -> PakRequestRecords]
  BY CommitFacts, RequestMoves
<1>2. pakRow' \in RowRecords /\ rowLock' \in PakRequests \cup {Pak!Nobody, Pak!Machine}
  BY CommitFacts, UnlockedType
<1> QED BY <1>1, <1>2 DEF PakTypeInv, Pak!Commit

(* The steps that end a transaction that was not committed, and those after *)
(* its end.                                                                *)
Ends(q) ==
  \/ Pak!May("commit") /\ Pak!CommitFails(q)
  \/ Pak!Rollback(q)
  \/ \E done \in BOOLEAN : (done \/ Pak!May("call")) /\ (Pak!Effect(q, done) \/ Pak!Undo(q, done))
  \/ Pak!Answer(q)

LEMMA EndsType ==
  ASSUME Pak!CredentialsAssumption, PakTypeInv, NEW q \in PakRequests, Ends(q)
  PROVE  PakTypeInv'
<1>1. pakReq[q] \in PakRequestRecords /\ hydra \in ClientRecords /\ device \in DeviceRecords
  BY DEF PakTypeInv
<1>2. /\ \A step \in PakSteps : Pak!Go(q, step) => pakReq' \in [PakRequests -> PakRequestRecords]
      /\ {"rollback", "undo", "answer"} \subseteq PakSteps
  <2>1. ASSUME NEW step \in PakSteps, Pak!Go(q, step)
        PROVE  pakReq' \in [PakRequests -> PakRequestRecords]
    BY <2>1, Goes, RequestMoves
  <2> QED BY <2>1 DEF PakSteps
<1>3. CASE Pak!CommitFails(q)
  BY <1>2, <1>3 DEF PakTypeInv, Pak!CommitFails
<1>4. CASE Pak!Rollback(q)
  BY <1>2, <1>4, UnlockedType DEF PakTypeInv, Pak!Rollback
<1>5. ASSUME NEW done \in BOOLEAN, Pak!Effect(q, done)
      PROVE  PakTypeInv'
  <2>1. hydra' \in ClientRecords /\ tokens' \subseteq Secrets /\ pakCase' = pakCase
    BY <1>1, <1>5 DEF Pak!Effect, PakTypeInv, ClientRecords
  <2> QED BY <1>2, <1>5, <2>1 DEF PakTypeInv, Pak!Effect
<1>6. ASSUME NEW done \in BOOLEAN, Pak!Undo(q, done)
      PROVE  PakTypeInv'
  <2>1. hydra' \in ClientRecords /\ tokens' \subseteq Secrets
    BY <1>1, <1>6 DEF Pak!Undo, PakTypeInv, ClientRecords, PakRequestRecords
  <2> QED BY <1>2, <1>6, <2>1 DEF PakTypeInv, Pak!Undo
<1>7. CASE Pak!Answer(q)
  <2>1. pakReq' \in [PakRequests -> PakRequestRecords]
    BY <1>7, NoRequestType, RequestMoves DEF Pak!Answer
  <2>2. device' \in DeviceRecords
    BY <1>1, <1>7 DEF Pak!Answer, DeviceRecords, PakRequestRecords
  <2> QED BY <1>7, <2>1, <2>2 DEF PakTypeInv, Pak!Answer
<1> QED BY <1>3, <1>4, <1>5, <1>6, <1>7 DEF Ends

LEMMA CrashType ==
  ASSUME Pak!CredentialsAssumption, PakTypeInv, Pak!Crash
  PROVE  PakTypeInv'
<1>1. pakReq' \in [PakRequests -> PakRequestRecords]
  BY NoRequestType DEF Pak!Crash
<1>2. device' \in DeviceRecords
  BY DEF Pak!Crash, PakTypeInv, DeviceRecords
<1> QED BY <1>1, <1>2 DEF PakTypeInv, Pak!Crash

(* The PAK beside the requests.                                            *)
OfThePak ==
  \/ Pak!ObtainToken \/ Pak!Introspect \/ Pak!Authorize \/ Pak!LockPak \/ Pak!OpenSession
  \/ Pak!CompleteSession
  \/ \E s \in tokens : Pak!TokenExpires(s)

LEMMA PakType ==
  ASSUME PakTypeInv, OfThePak
  PROVE  PakTypeInv'
<1>1. device \in DeviceRecords /\ pakRow \in RowRecords /\ hydra \in ClientRecords
  BY DEF PakTypeInv
<1>2. device' \in DeviceRecords
  BY <1>1 DEF OfThePak, Pak!ObtainToken, Pak!Introspect, Pak!Authorize, Pak!LockPak,
              Pak!OpenSession, Pak!CompleteSession,
              Pak!TokenExpires, DeviceRecords, ClientRecords
<1>3. tokens' \subseteq Secrets
  BY <1>1 DEF OfThePak, Pak!ObtainToken, Pak!Introspect, Pak!Authorize, Pak!LockPak,
              Pak!OpenSession, Pak!CompleteSession,
              Pak!TokenExpires, PakTypeInv, ClientRecords
<1>4. inUse' \in BOOLEAN /\ session' \in BOOLEAN
  BY <1>1 DEF OfThePak, Pak!ObtainToken, Pak!Introspect, Pak!Authorize, Pak!LockPak,
              Pak!OpenSession, Pak!CompleteSession,
              Pak!TokenExpires, PakTypeInv, RowRecords
<1>5. rowLock' \in PakRequests \cup {Pak!Nobody, Pak!Machine} /\ UNCHANGED <<pakCase, pakRow, hydra,
      secret, pakReq>>
  BY DEF OfThePak, Pak!ObtainToken, Pak!Introspect, Pak!Authorize, Pak!LockPak, Pak!OpenSession,
         Pak!CompleteSession,
         Pak!TokenExpires, PakTypeInv
<1> QED BY <1>2, <1>3, <1>4, <1>5 DEF PakTypeInv

-----------------------------------------------------------------------------
(* What a step leaves of the request it is a step of.                      *)

Calls(q) ==
  \E done \in BOOLEAN, answered \in BOOLEAN :
    /\ done \/ Pak!May("call")
    /\ done /\ ~answered => Pak!May("answer")
    /\ Pak!Call(q, done, answered)

StepOf(q) ==
  \/ \E op \in Pak!Operations : Pak!Begin(q, op)
  \/ Pak!Require(q) \/ Calls(q) \/ Pak!Commit(q) \/ Ends(q)

LEMMA NextCases ==
  ASSUME Pak!Next
  PROVE  (\E q \in PakRequests : StepOf(q)) \/ (Pak!May("crash") /\ Pak!Crash) \/ OfThePak
BY DEF Pak!Next, StepOf, Calls, Ends, OfThePak

LEMMA BeginFields ==
  ASSUME Pak!CredentialsAssumption, PakTypeInv, NEW q \in PakRequests, NEW op \in Pak!Operations,
         Pak!Begin(q, op)
  PROVE  /\ pakReq[q].step = "idle" /\ q \in pakCase.requests
         /\ op = "create" => ~pakRow.exists /\ ~hydra.exists /\ secret = 0 /\ Pak!AtRest
         /\ pakReq'[q].step = IF op = "create" THEN "call" ELSE "lock"
         /\ pakReq'[q].op = op /\ ~pakReq'[q].undo /\ ~pakReq'[q].ok /\ pakReq'[q].new = 0
         /\ \A p \in PakRequests : p # q => pakReq'[p] = pakReq[p]
         /\ UNCHANGED <<pakCase, pakRow, inUse, hydra, tokens, secret, rowLock, device, session>>
BY DEF Pak!Begin, PakTypeInv, Pak!NoRequest

LEMMA RequireFields ==
  ASSUME Pak!CredentialsAssumption, PakTypeInv, NEW q \in PakRequests, Pak!Require(q)
  PROVE  /\ pakReq[q].step = "lock" /\ rowLock = Pak!Nobody /\ rowLock' = q
         /\ pakReq'[q].step \in {"rollback", "call", "commit"}
         /\ Pak!Refused(pakReq[q].op) <=> pakReq'[q].step = "rollback"
         /\ pakReq'[q].step = "call" => pakReq[q].op \in Pak!Rotations
         /\ pakReq'[q].step = "commit" => pakReq[q].op \notin Pak!Rotations
         /\ pakReq'[q].old = pakRow.secret
         /\ pakReq'[q].op = pakReq[q].op /\ pakReq'[q].undo = pakReq[q].undo
            /\ pakReq'[q].ok = pakReq[q].ok
         /\ pakReq'[q].new = pakReq[q].new
         /\ \A p \in PakRequests : p # q => pakReq'[p] = pakReq[p]
         /\ UNCHANGED <<pakCase, pakRow, inUse, hydra, tokens, secret, device, session>>
<1>1. pakReq[q] \in PakRequestRecords
  BY DEF PakTypeInv
<1>2. Pak!Refused(pakReq[q].op) \in BOOLEAN
  BY DEF Pak!Refused
<1> QED BY <1>1, <1>2 DEF Pak!Require, Pak!LockRow, PakTypeInv, PakRequestRecords

LEMMA CallFields ==
  ASSUME Pak!CredentialsAssumption, PakTypeInv, NEW q \in PakRequests,
         NEW done \in BOOLEAN, NEW answered \in BOOLEAN, Pak!Call(q, done, answered)
  PROVE  /\ pakReq[q].step = "call"
         /\ pakReq'[q].step = IF Works(q, done) /\ answered THEN "commit" ELSE "rollback"
         /\ pakReq'[q].undo = (Works(q, done) /\ answered)
         /\ pakReq'[q].new = Made(q) /\ pakReq'[q].old = pakReq[q].old
         /\ pakReq'[q].op = pakReq[q].op /\ pakReq'[q].ok = pakReq[q].ok
         /\ \A p \in PakRequests : p # q => pakReq'[p] = pakReq[p]
<1>1. pakReq[q] \in PakRequestRecords
  BY DEF PakTypeInv
<1>2. /\ pakReq'[q] = Called(q, done, answered) /\ pakReq[q].step = "call"
      /\ \A p \in PakRequests : p # q => pakReq'[p] = pakReq[p]
  BY CallFacts, RequestMoves
<1>3. (Works(q, done) /\ answered) \in BOOLEAN
  OBVIOUS
<1> QED BY <1>1, <1>2, <1>3 DEF Called, PakRequestRecords

LEMMA CommitFields ==
  ASSUME PakTypeInv, NEW q \in PakRequests, Pak!Commit(q)
  PROVE  /\ pakReq[q].step = "commit" /\ pakRow' = Pak!Written(pakReq[q])
         /\ pakReq'[q].step = IF Pak!HasEffect(pakReq[q].op) THEN "effect" ELSE "answer"
         /\ pakReq'[q].ok
         /\ pakReq'[q].op = pakReq[q].op /\ pakReq'[q].undo = pakReq[q].undo
         /\ pakReq'[q].new = pakReq[q].new /\ pakReq'[q].old = pakReq[q].old
         /\ \A p \in PakRequests : p # q => pakReq'[p] = pakReq[p]
         /\ UNCHANGED <<pakCase, inUse, hydra, tokens, secret, device, session>>
<1>1. pakReq[q] \in PakRequestRecords
  BY DEF PakTypeInv
<1>2. /\ pakReq'[q] = Committed(q)
      /\ \A p \in PakRequests : p # q => pakReq'[p] = pakReq[p]
  BY CommitFacts, RequestMoves
<1>3. /\ pakReq[q].step = "commit" /\ pakRow' = Pak!Written(pakReq[q])
      /\ UNCHANGED <<pakCase, inUse, hydra, tokens, secret, device, session>>
  BY DEF Pak!Commit
<1> QED BY <1>1, <1>2, <1>3 DEF Committed, PakRequestRecords

LEMMA GoFields ==
  ASSUME PakTypeInv, NEW q \in PakRequests, NEW step \in PakSteps, Pak!Go(q, step)
  PROVE  /\ pakReq'[q].step = step
         /\ pakReq'[q].op = pakReq[q].op /\ pakReq'[q].undo = pakReq[q].undo
            /\ pakReq'[q].ok = pakReq[q].ok
         /\ pakReq'[q].new = pakReq[q].new /\ pakReq'[q].old = pakReq[q].old
         /\ \A p \in PakRequests : p # q => pakReq'[p] = pakReq[p]
<1>1. pakReq[q] \in PakRequestRecords
  BY DEF PakTypeInv
<1> QED BY <1>1 DEF Pak!Go, PakTypeInv, PakRequestRecords

(* Where the steps of Ends lead, and what they do besides.                 *)
LEMMA EndsFields ==
  ASSUME Pak!CredentialsAssumption, PakTypeInv, NEW q \in PakRequests, Ends(q)
  PROVE  /\ \A p \in PakRequests : p # q => pakReq'[p] = pakReq[p]
         /\ UNCHANGED <<pakCase, pakRow, inUse, secret, session>> /\ device'.step = device.step
         /\ \/ /\ Pak!Answer(q) /\ pakReq[q].step = "answer" /\ pakReq'[q] = Pak!NoRequest
               /\ UNCHANGED <<hydra, tokens, rowLock>>
            \/ /\ pakReq'[q].op = pakReq[q].op /\ pakReq'[q].undo = pakReq[q].undo
                  /\ pakReq'[q].ok = pakReq[q].ok
               /\ pakReq'[q].new = pakReq[q].new /\ pakReq'[q].old = pakReq[q].old
               /\ \/ /\ Pak!May("commit") /\ pakReq[q].step = "commit"
                        /\ pakReq'[q].step = "rollback"
                     /\ UNCHANGED <<hydra, tokens, rowLock>>
                  \/ /\ Pak!Rollback(q) /\ pakReq[q].step = "rollback" /\ Pak!Unlocked(q)
                     /\ pakReq'[q].step = IF pakReq[q].undo THEN "undo" ELSE "answer"
                     /\ UNCHANGED <<hydra, tokens>>
                  \/ /\ pakReq[q].step \in {"effect", "undo"} /\ pakReq'[q].step = "answer"
                     /\ rowLock' = rowLock
                     /\ \E done \in BOOLEAN :
                          (done \/ Pak!May("call")) /\ (Pak!Effect(q, done) \/ Pak!Undo(q, done))
<1>1. CASE Pak!May("commit") /\ Pak!CommitFails(q)
  <2>1. Pak!Go(q, "rollback") /\ "rollback" \in PakSteps
    BY <1>1 DEF Pak!CommitFails, PakSteps
  <2> QED BY <1>1, <2>1, GoFields DEF Pak!CommitFails
<1>2. CASE Pak!Rollback(q)
  <2>1. Pak!Go(q, IF pakReq[q].undo THEN "undo" ELSE "answer") /\ {"undo",
        "answer"} \subseteq PakSteps
    BY <1>2 DEF Pak!Rollback, PakSteps
  <2> QED BY <1>2, <2>1, GoFields DEF Pak!Rollback
<1>3. ASSUME NEW done \in BOOLEAN, done \/ Pak!May("call"), Pak!Effect(q, done) \/ Pak!Undo(q, done)
      PROVE  /\ \A p \in PakRequests : p # q => pakReq'[p] = pakReq[p]
             /\ UNCHANGED <<pakCase, pakRow, inUse, secret, session, rowLock, device>>
             /\ pakReq'[q].op = pakReq[q].op /\ pakReq'[q].undo = pakReq[q].undo
                /\ pakReq'[q].ok = pakReq[q].ok
             /\ pakReq'[q].new = pakReq[q].new /\ pakReq'[q].old = pakReq[q].old
             /\ pakReq[q].step \in {"effect", "undo"} /\ pakReq'[q].step = "answer"
  <2>1. Pak!Go(q, "answer") /\ "answer" \in PakSteps
    BY <1>3 DEF Pak!Effect, Pak!Undo, PakSteps
  <2>2. /\ UNCHANGED <<pakCase, pakRow, inUse, secret, session, rowLock, device>>
        /\ pakReq[q].step \in {"effect", "undo"}
    BY <1>3 DEF Pak!Effect, Pak!Undo
  <2> QED BY <2>1, <2>2, GoFields
<1>4. CASE Pak!Answer(q)
  BY <1>4 DEF Pak!Answer, PakTypeInv, DeviceRecords
<1> QED BY <1>1, <1>2, <1>3, <1>4 DEF Ends

-----------------------------------------------------------------------------
(* Each request keeps its progress and its lock.                           *)

MovesLock(q) == rowLock' = rowLock \/ (rowLock \in {q, Pak!Nobody} /\ rowLock' \in {q, Pak!Nobody})

LEMMA OthersProgress ==
  ASSUME Pak!CredentialsAssumption, PakTypeInv, NEW q \in PakRequests, NEW p \in PakRequests, p # q,
         PakProgress(p), pakReq'[p] = pakReq[p], pakCase' = pakCase, secret' \in Secrets,
         secret <= secret',
         MovesLock(q)
  PROVE  PakProgress(p)'
<1>1. rowLock' = p <=> rowLock = p
  BY Names DEF MovesLock
<1>2. pakReq[p].new \in Nat /\ secret \in Nat /\ secret' \in Nat
  BY Names DEF PakTypeInv, PakRequestRecords
<1>3. pakReq'[p].new <= secret'
  BY <1>2 DEF PakProgress
<1> QED BY <1>1, <1>3 DEF PakProgress

LEMMA BeginProgress ==
  ASSUME Pak!CredentialsAssumption, PakTypeInv, NEW q \in PakRequests, PakProgress(q),
         NEW op \in Pak!Operations, Pak!Begin(q, op)
  PROVE  PakProgress(q)' /\ MovesLock(q) /\ pakCase' = pakCase /\ secret' = secret
<1>1. 0 <= secret
  BY Names DEF PakTypeInv
<1>2. rowLock # q
  BY BeginFields DEF PakProgress
<1> QED BY <1>1, <1>2, BeginFields DEF PakProgress, MovesLock, Calling

LEMMA RequireProgress ==
  ASSUME Pak!CredentialsAssumption, PakTypeInv, NEW q \in PakRequests, PakProgress(q),
         Pak!Require(q)
  PROVE  PakProgress(q)' /\ MovesLock(q) /\ pakCase' = pakCase /\ secret' = secret
<1>1. pakReq'[q].step \in {"rollback", "call", "commit"}
  BY RequireFields
<1>2. /\ pakReq'[q].step = "call" => pakReq[q].op \in Calling
      /\ pakReq'[q].step = "commit" => pakReq[q].op \notin Pak!Rotations
  BY RequireFields DEF Calling
<1>3. /\ pakReq[q].op \in Pak!Operations /\ q \in pakCase.requests /\ pakReq[q].op # "create"
      /\ ~pakReq[q].undo /\ ~pakReq[q].ok /\ pakReq[q].new <= secret
  BY RequireFields DEF PakProgress
<1>4. MovesLock(q)
  BY RequireFields DEF MovesLock
<1>5. UNCHANGED <<pakCase, secret>> /\ rowLock' = q
  BY RequireFields
<1> QED BY <1>1, <1>2, <1>3, <1>4, <1>5, RequireFields DEF PakProgress, Calling

LEMMA CallProgress ==
  ASSUME Pak!CredentialsAssumption, PakTypeInv, NEW q \in PakRequests, PakProgress(q), Calls(q)
  PROVE  PakProgress(q)' /\ MovesLock(q) /\ pakCase' = pakCase /\ secret' \in Secrets
         /\ secret <= secret'
<1>1. PICK done \in BOOLEAN, answered \in BOOLEAN : Pak!Call(q, done, answered)
  BY DEF Calls
<1>2. /\ UNCHANGED <<pakCase, rowLock>> /\ secret' = Made(q) /\ Made(q) \in Secrets
         /\ secret <= Made(q)
  BY <1>1, CallFacts
<1>3. /\ pakReq[q].step = "call" /\ pakReq'[q].op = pakReq[q].op /\ pakReq'[q].new = Made(q)
      /\ pakReq'[q].ok = pakReq[q].ok
      /\ pakReq'[q].step \in {"commit", "rollback"}
      /\ pakReq'[q].undo <=> pakReq'[q].step = "commit"
  BY <1>1, CallFields
<1>4. Made(q) <= Made(q)
  BY <1>2, Names
<1>5. /\ pakReq[q].op \in Pak!Operations /\ q \in pakCase.requests /\ pakReq[q].op \in Calling
      /\ ~pakReq[q].ok /\ (pakReq[q].op # "create" => rowLock = q)
  BY <1>3 DEF PakProgress
<1> QED BY <1>2, <1>3, <1>4, <1>5 DEF PakProgress, MovesLock

LEMMA CommitProgress ==
  ASSUME Pak!CredentialsAssumption, PakTypeInv, NEW q \in PakRequests, PakProgress(q), Pak!Commit(q)
  PROVE  PakProgress(q)' /\ MovesLock(q) /\ pakCase' = pakCase /\ secret' = secret
<1>1. rowLock' # q /\ MovesLock(q)
  BY Names DEF Pak!Commit, Pak!Unlocked, MovesLock
<1>2. /\ pakReq[q].op \in Pak!Operations /\ q \in pakCase.requests
      /\ pakReq[q].undo => pakReq[q].op \in Calling
      /\ pakReq[q].new <= secret
  BY CommitFields DEF PakProgress
<1> QED BY <1>1, <1>2, CommitFields DEF PakProgress

LEMMA EndsProgress ==
  ASSUME Pak!CredentialsAssumption, PakTypeInv, NEW q \in PakRequests, PakProgress(q), Ends(q)
  PROVE  PakProgress(q)' /\ MovesLock(q) /\ pakCase' = pakCase /\ secret' = secret
<1>1. UNCHANGED <<pakCase, secret>> /\ secret \in Nat
  BY EndsFields, Names DEF PakTypeInv
<1>2. CASE pakReq[q].step = "answer" /\ pakReq'[q] = Pak!NoRequest /\ rowLock' = rowLock
  <2>1. rowLock # q /\ 0 <= secret
    BY <1>1, <1>2 DEF PakProgress
  <2> QED BY <1>1, <1>2, <2>1 DEF PakProgress, MovesLock, Pak!NoRequest
<1>3. ASSUME pakReq'[q].op = pakReq[q].op, pakReq'[q].undo = pakReq[q].undo,
             pakReq'[q].ok = pakReq[q].ok,
             pakReq'[q].new = pakReq[q].new,
             pakReq[q].step \in {"commit", "rollback", "effect", "undo"}
      PROVE  /\ pakReq'[q].op \in Pak!Operations /\ q \in pakCase'.requests
             /\ pakReq'[q].undo => pakReq'[q].op \in Calling
             /\ pakReq[q].step # "effect" => ~pakReq'[q].ok
             /\ pakReq'[q].new <= secret'
             /\ pakReq[q].step \in {"rollback", "undo"} /\ pakReq'[q].undo
                => "commit" \in pakCase'.failures
             /\ rowLock = q => pakReq[q].step \in {"commit", "rollback"}
  BY <1>1, <1>3 DEF PakProgress
<1>4. CASE /\ pakReq'[q].op = pakReq[q].op /\ pakReq'[q].undo = pakReq[q].undo
      /\ pakReq'[q].ok = pakReq[q].ok
           /\ pakReq'[q].new = pakReq[q].new
           /\ Pak!May("commit") /\ pakReq[q].step = "commit" /\ pakReq'[q].step = "rollback"
              /\ rowLock' = rowLock
  BY <1>1, <1>3, <1>4 DEF PakProgress, MovesLock, Pak!May
<1>5. CASE /\ pakReq'[q].op = pakReq[q].op /\ pakReq'[q].undo = pakReq[q].undo
      /\ pakReq'[q].ok = pakReq[q].ok
           /\ pakReq'[q].new = pakReq[q].new
           /\ pakReq[q].step = "rollback" /\ Pak!Unlocked(q)
           /\ pakReq'[q].step = IF pakReq[q].undo THEN "undo" ELSE "answer"
  <2>1. rowLock' # q /\ MovesLock(q)
    BY <1>5, Names DEF Pak!Unlocked, MovesLock
  <2> QED BY <1>1, <1>3, <1>5, <2>1 DEF PakProgress
<1>6. CASE /\ pakReq'[q].op = pakReq[q].op /\ pakReq'[q].undo = pakReq[q].undo
      /\ pakReq'[q].ok = pakReq[q].ok
           /\ pakReq'[q].new = pakReq[q].new
           /\ pakReq[q].step \in {"effect", "undo"} /\ pakReq'[q].step = "answer"
              /\ rowLock' = rowLock
  BY <1>1, <1>3, <1>6 DEF PakProgress, MovesLock
<1> QED BY <1>2, <1>4, <1>5, <1>6, EndsFields

LEMMA ProgressKept ==
  ASSUME Pak!CredentialsAssumption, PakTypeInv, \A p \in PakRequests : PakProgress(p),
         NEW q \in PakRequests, StepOf(q)
  PROVE  /\ PakTypeInv' /\ pakCase' = pakCase /\ secret <= secret' /\ MovesLock(q)
         /\ \A p \in PakRequests : PakProgress(p)'
         /\ \A p \in PakRequests : p # q => pakReq'[p] = pakReq[p]
<1>1. /\ PakProgress(q)' /\ MovesLock(q) /\ pakCase' = pakCase
      /\ secret' \in Secrets /\ secret <= secret'
  <2>1. secret \in Nat /\ secret \in Secrets
    BY Names DEF PakTypeInv
  <2> QED BY <2>1, BeginProgress, RequireProgress, CallProgress, CommitProgress, EndsProgress
          DEF StepOf
<1>2. PakTypeInv' /\ \A p \in PakRequests : p # q => pakReq'[p] = pakReq[p]
  <2>1. ASSUME NEW done \in BOOLEAN, NEW answered \in BOOLEAN, Pak!Call(q, done, answered)
        PROVE  PakTypeInv' /\ \A p \in PakRequests : p # q => pakReq'[p] = pakReq[p]
    BY <2>1, CallType, CallFields
  <2>2. CASE Ends(q)
    BY <2>2, EndsType, EndsFields
  <2>3. CASE Pak!Commit(q)
    BY <2>3, CommitType, CommitFields
  <2>4. CASE Pak!Require(q)
    BY <2>4, RequireType, RequireFields
  <2>5. ASSUME NEW op \in Pak!Operations, Pak!Begin(q, op)
        PROVE  PakTypeInv' /\ \A p \in PakRequests : p # q => pakReq'[p] = pakReq[p]
    BY <2>5, BeginType, BeginFields
  <2> QED BY <2>1, <2>2, <2>3, <2>4, <2>5 DEF StepOf, Calls
<1>3. ASSUME NEW p \in PakRequests, p # q
      PROVE  PakProgress(p)'
  BY <1>1, <1>2, <1>3, OthersProgress
<1> QED BY <1>1, <1>2, <1>3

-----------------------------------------------------------------------------
(* A creation is alone with its new row, and no session begins beside a    *)
(* planned rotation.                                                       *)

LEMMA CreationShields ==
  ASSUME Pak!CredentialsAssumption, PakLocksInv, NEW q \in PakRequests, NEW p \in PakRequests,
         p # q,
         Creates(p), StepOf(q)
  PROVE  Refusing(q)' /\ UNCHANGED <<pakRow, hydra, tokens, secret>>
<1>1. ~pakRow.exists /\ Refusing(q) /\ pakReq[p].step # "idle" /\ PakTypeInv
  BY DEF PakLocksInv, Creation, Creates
<1>2. ASSUME NEW op \in Pak!Operations, Pak!Begin(q, op)
      PROVE  Refusing(q)' /\ UNCHANGED <<pakRow, hydra, tokens, secret>>
  <2>1. op # "create"
    BY <1>1, <1>2, BeginFields DEF Pak!AtRest
  <2> QED BY <1>1, <1>2, <2>1, BeginFields DEF Refusing
<1>3. CASE Pak!Require(q)
  <2>1. Pak!Refused(pakReq[q].op)
    BY <1>1 DEF Pak!Refused
  <2>2. pakReq'[q].step = "rollback"
    BY <1>1, <1>3, <2>1, RequireFields
  <2> QED BY <1>1, <1>3, <2>2, RequireFields DEF Refusing
<1>4. ~Calls(q)
  BY <1>1 DEF Calls, Pak!Call, Refusing
<1>5. ~Pak!Commit(q)
  BY <1>1 DEF Pak!Commit, Refusing
<1>6. CASE Ends(q)
  <2>1. pakReq[q].step \notin {"commit", "effect", "undo"} /\ ~pakReq[q].undo
    BY <1>1 DEF Refusing
  <2>2. UNCHANGED <<pakRow, hydra, tokens, secret>>
    BY <1>1, <1>6, <2>1, EndsFields
  <2>3. \/ pakReq'[q] = Pak!NoRequest
        \/ /\ pakReq'[q].op = pakReq[q].op /\ pakReq'[q].undo = pakReq[q].undo
              /\ pakReq'[q].ok = pakReq[q].ok
           /\ pakReq'[q].step = "answer"
    BY <1>1, <1>6, <2>1, EndsFields
  <2> QED BY <1>1, <2>2, <2>3 DEF Refusing, Pak!NoRequest
<1> QED BY <1>2, <1>3, <1>4, <1>5, <1>6 DEF StepOf

LEMMA OwnCreation ==
  ASSUME Pak!CredentialsAssumption, PakLocksInv, NEW q \in PakRequests, StepOf(q), Creates(q)'
  PROVE  /\ ~pakRow'.exists /\ secret' = 0
         /\ pakReq'[q].step = "commit" => hydra'.exists /\ hydra'.secret = pakReq'[q].new
         /\ \A p \in PakRequests : p # q => Refusing(p)
<1>1. PakTypeInv /\ PakProgress(q) /\ Creation(q)
  BY DEF PakLocksInv
<1>2. /\ pakReq'[q].op = "create"
      /\ \/ pakReq'[q].step \in {"call", "commit"}
         \/ pakReq'[q].step \in {"rollback", "undo"} /\ pakReq'[q].undo
  BY DEF Creates
<1>3. ASSUME NEW op \in Pak!Operations, Pak!Begin(q, op)
      PROVE  /\ ~pakRow'.exists /\ secret' = 0 /\ pakReq'[q].step # "commit"
             /\ \A p \in PakRequests : p # q => Refusing(p)
  <2>1. op = "create"
    BY <1>1, <1>2, <1>3, BeginFields
  <2>2. Pak!AtRest /\ ~pakRow'.exists /\ secret' = 0 /\ pakReq'[q].step = "call"
    BY <1>1, <1>3, <2>1, BeginFields
  <2>3. ASSUME NEW p \in PakRequests
        PROVE  Refusing(p)
    <3>1. pakReq[p] = Pak!NoRequest
      BY <2>2 DEF Pak!AtRest, PakLocksInv, PakProgress
    <3> QED BY <3>1 DEF Refusing, Pak!NoRequest
  <2> QED BY <2>2, <2>3
<1>4. ~Pak!Require(q)
  BY <1>1, <1>2, RequireFields DEF PakProgress
<1>5. ASSUME Creates(q), UNCHANGED pakRow, secret' = secret
      PROVE  ~pakRow'.exists /\ secret' = 0 /\ \A p \in PakRequests : p # q => Refusing(p)
  BY <1>1, <1>5 DEF Creation
<1>6. ASSUME NEW done \in BOOLEAN, NEW answered \in BOOLEAN, Pak!Call(q, done, answered)
      PROVE  /\ ~pakRow'.exists /\ secret' = 0
             /\ pakReq'[q].step = "commit" => hydra'.exists /\ hydra'.secret = pakReq'[q].new
             /\ \A p \in PakRequests : p # q => Refusing(p)
  <2>1. Creates(q)
    BY <1>1, <1>2, <1>6, CallFields DEF Creates
  <2>2. pakRow' = pakRow /\ secret' = secret
    BY <1>1, <1>2, <1>6, CallFacts, CallFields DEF Made
  <2>3. pakReq'[q].step = "commit" => hydra'.exists /\ hydra'.secret = pakReq'[q].new
    BY <1>1, <1>6, CallFacts, CallFields
  <2> QED BY <1>5, <2>1, <2>2, <2>3
<1>7. ~Pak!Commit(q)
  BY <1>1, <1>2, CommitFields
<1>8. CASE Ends(q)
  <2>1. Creates(q) /\ pakReq'[q].step # "commit"
    BY <1>1, <1>2, <1>8, EndsFields DEF Creates, Pak!NoRequest
  <2> QED BY <1>1, <1>5, <1>8, <2>1, EndsFields
<1> QED BY <1>3, <1>4, <1>6, <1>7, <1>8 DEF StepOf, Calls

LEMMA CreationKept ==
  ASSUME Pak!CredentialsAssumption, PakLocksInv, NEW q \in PakRequests, StepOf(q)
  PROVE  \A p \in PakRequests : Creation(p)'
<1>1. \A p \in PakRequests : p # q => pakReq'[p] = pakReq[p]
  BY ProgressKept DEF PakLocksInv
<1>2. Creation(q)'
  <2>1. SUFFICES ASSUME Creates(q)' PROVE Creation(q)'
    BY DEF Creation
  <2>2. \A p \in PakRequests : p # q => Refusing(p)'
    BY <1>1, <2>1, OwnCreation DEF Refusing
  <2> QED BY <2>1, <2>2, OwnCreation DEF Creation
<1>3. ASSUME NEW p \in PakRequests, p # q
      PROVE  Creation(p)'
  <2>1. SUFFICES ASSUME Creates(p)' PROVE Creation(p)'
    BY DEF Creation
  <2>2. Creates(p) /\ Creation(p)
    BY <1>1, <1>3, <2>1 DEF Creates, PakLocksInv
  <2>3. Refusing(q)' /\ UNCHANGED <<pakRow, hydra, secret>>
    BY <1>3, <2>2, CreationShields
  <2>4. \A o \in PakRequests : o # p => Refusing(o)'
    BY <1>1, <2>2, <2>3 DEF Refusing, Creation
  <2>5. pakReq'[p] = pakReq[p]
    BY <1>1, <1>3
  <2> QED BY <2>2, <2>3, <2>4, <2>5 DEF Creation
<1> QED BY <1>2, <1>3

LEMMA SessionsWaitKept ==
  ASSUME Pak!CredentialsAssumption, PakLocksInv, NEW q \in PakRequests, StepOf(q)
  PROVE  SessionsWait'
<1>1. PakTypeInv /\ SessionsWait /\ PakProgress(q)
  BY DEF PakLocksInv
<1>2. MovesLock(q) /\ \A p \in PakRequests : p # q => pakReq'[p] = pakReq[p]
  BY ProgressKept DEF PakLocksInv
<1> DEFINE Waits == pakReq'[q].op = "rotate_planned" /\ pakReq'[q].step \in {"call", "commit"}
    => ~session
           Same  == device'.step = device.step /\ session' = session
<1>3. Same /\ Waits
  <2>1. ASSUME NEW op \in Pak!Operations, Pak!Begin(q, op)
        PROVE  Same /\ Waits
    BY <1>1, <2>1, BeginFields
  <2>2. CASE Pak!Require(q)
    <3>1. pakReq[q].op = "rotate_planned" /\ session => Pak!Refused(pakReq[q].op)
      BY DEF Pak!Refused
    <3> QED BY <1>1, <2>2, <3>1, RequireFields
  <2>3. ASSUME NEW done \in BOOLEAN, NEW answered \in BOOLEAN, Pak!Call(q, done, answered)
        PROVE  Same /\ Waits
    BY <1>1, <2>3, CallFacts, CallFields DEF SessionsWait
  <2>4. CASE Pak!Commit(q)
    BY <1>1, <2>4, CommitFields
  <2>5. CASE Ends(q)
    BY <1>1, <2>5, EndsFields DEF Pak!NoRequest
  <2> QED BY <2>1, <2>2, <2>3, <2>4, <2>5 DEF StepOf, Calls
<1>4. rowLock' = Pak!Machine <=> rowLock = Pak!Machine
  BY <1>2, Names DEF MovesLock
<1> QED BY <1>1, <1>2, <1>3, <1>4 DEF SessionsWait

LEMMA PakLocksInit ==
  ASSUME Pak!CredentialsAssumption, Pak!Init
  PROVE  PakLocksInv
<1>1. PakTypeInv
  BY PakTypeInit
<1>2. ASSUME NEW q \in PakRequests
      PROVE  PakProgress(q) /\ Creation(q)
  <2>1. pakReq[q] = Pak!NoRequest /\ rowLock = Pak!Nobody /\ rowLock # q /\ secret = 0
    BY Names DEF Pak!Init
  <2> QED BY <2>1 DEF PakProgress, Creation, Creates, Pak!NoRequest
<1>3. SessionsWait
  BY Names DEF Pak!Init, SessionsWait, Pak!NoRequest
<1> QED BY <1>1, <1>2, <1>3 DEF PakLocksInv

LEMMA CrashLocks ==
  ASSUME Pak!CredentialsAssumption, PakLocksInv, Pak!Crash
  PROVE  PakLocksInv'
<1>1. PakTypeInv'
  BY CrashType DEF PakLocksInv
<1>2. /\ rowLock' = Pak!Nobody /\ \A q \in PakRequests : pakReq'[q] = Pak!NoRequest
      /\ device'.step = "idle" /\ UNCHANGED <<pakCase, secret>>
  BY DEF Pak!Crash, PakLocksInv, PakTypeInv, DeviceRecords
<1>3. 0 <= secret
  BY Names DEF PakLocksInv, PakTypeInv
<1>4. ASSUME NEW q \in PakRequests
      PROVE  PakProgress(q)' /\ Creation(q)'
  <2>1. pakReq'[q] = Pak!NoRequest /\ rowLock' # q
    BY <1>2, Names
  <2> QED BY <1>2, <1>3, <2>1 DEF PakProgress, Creation, Creates, Pak!NoRequest
<1>5. SessionsWait'
  BY <1>2, Names DEF SessionsWait, Pak!NoRequest
<1> QED BY <1>1, <1>4, <1>5 DEF PakLocksInv

LEMMA PakLocks ==
  ASSUME Pak!CredentialsAssumption, PakLocksInv, OfThePak
  PROVE  PakLocksInv' /\ UNCHANGED <<pakCase, pakRow, hydra, secret, pakReq>>
<1>1. PakTypeInv'
  BY PakType DEF PakLocksInv
<1>2. UNCHANGED <<pakCase, pakRow, hydra, secret, pakReq>>
  BY DEF OfThePak, Pak!ObtainToken, Pak!Introspect, Pak!Authorize, Pak!LockPak, Pak!OpenSession,
         Pak!CompleteSession,
         Pak!TokenExpires
<1>3. rowLock' = rowLock \/ {rowLock, rowLock'} \subseteq {Pak!Machine, Pak!Nobody}
  <2>1. Pak!OpenSession => rowLock = Pak!Machine
    BY DEF PakLocksInv, SessionsWait, Pak!OpenSession
  <2> QED BY <2>1 DEF OfThePak, Pak!ObtainToken, Pak!Introspect, Pak!Authorize, Pak!LockPak,
                      Pak!OpenSession,
                      Pak!CompleteSession, Pak!TokenExpires
<1>4. ASSUME NEW q \in PakRequests
      PROVE  PakProgress(q)' /\ Creation(q)'
  <2>1. rowLock' = q <=> rowLock = q
    BY <1>3, Names
  <2>2. PakProgress(q)'
    BY <1>2, <2>1 DEF PakLocksInv, PakProgress
  <2>3. Creation(q)'
    BY <1>2 DEF PakLocksInv, Creation, Creates, Refusing
  <2> QED BY <2>2, <2>3
<1>5. device'.step = "locked" <=> rowLock' = Pak!Machine
  <2>1. device \in DeviceRecords /\ (device.step = "locked" <=> rowLock = Pak!Machine)
    BY DEF PakLocksInv, SessionsWait, PakTypeInv
  <2>2. CASE Pak!ObtainToken \/ Pak!Introspect \/ Pak!Authorize
    BY <2>1, <2>2 DEF Pak!ObtainToken, Pak!Introspect, Pak!Authorize, DeviceRecords
  <2>3. CASE Pak!LockPak \/ Pak!OpenSession
    BY <2>1, <2>3, Names DEF Pak!LockPak, Pak!OpenSession, DeviceRecords
  <2>4. CASE Pak!CompleteSession \/ \E s \in tokens : Pak!TokenExpires(s)
    BY <2>1, <2>4 DEF Pak!CompleteSession, Pak!TokenExpires
  <2> QED BY <2>2, <2>3, <2>4 DEF OfThePak
<1>6. ASSUME NEW q \in PakRequests, pakReq'[q].op = "rotate_planned", pakReq'[q].step \in {"call",
             "commit"}
      PROVE  ~session'
  <2>1. rowLock = q /\ ~session
    BY <1>2, <1>6 DEF PakLocksInv, PakProgress, SessionsWait
  <2>2. ~Pak!OpenSession
    BY <2>1, Names DEF PakLocksInv, SessionsWait, Pak!OpenSession
  <2>3. session' => session
    BY <2>2 DEF OfThePak, Pak!ObtainToken, Pak!Introspect, Pak!Authorize, Pak!LockPak,
                Pak!CompleteSession, Pak!TokenExpires
  <2> QED BY <2>1, <2>3
<1> QED BY <1>1, <1>2, <1>4, <1>5, <1>6 DEF PakLocksInv, SessionsWait

LEMMA PakEveryStepLocks ==
  ASSUME Pak!CredentialsAssumption, PakLocksInv, [Pak!Next]_(Pak!vars)
  PROVE  PakLocksInv'
<1>1. ASSUME NEW q \in PakRequests, StepOf(q)
      PROVE  PakLocksInv'
  BY <1>1, ProgressKept, CreationKept, SessionsWaitKept DEF PakLocksInv
<1>2. CASE UNCHANGED Pak!vars
  BY <1>2 DEF Pak!vars, PakLocksInv, PakTypeInv, PakProgress, Creation, Creates, Refusing,
              SessionsWait
<1> QED BY <1>1, <1>2, NextCases, CrashLocks, PakLocks

-----------------------------------------------------------------------------
(* The key a rotation sets stays set. *)

LEMMA SameCase ==
  ASSUME pakCase' = pakCase
  PROVE  /\ Pak!OneByOne' = Pak!OneByOne
         /\ OthersDoNotUndo' = OthersDoNotUndo
         /\ CallsWork' = CallsWork
         /\ StoresAreSafe' = StoresAreSafe
BY DEF Pak!OneByOne, OthersDoNotUndo, CallsWork, StoresAreSafe

LEMMA OthersRest ==
  ASSUME Pak!CredentialsAssumption, PakLocksInv, NEW q \in PakRequests, StepOf(q), Pak!OneByOne
  PROVE  \A p \in PakRequests : p # q => pakReq[p] = Pak!NoRequest
<1>1. q \in pakCase.requests
  <2>1. pakReq[q].step # "idle" => q \in pakCase.requests
    BY DEF PakLocksInv, PakProgress
  <2>2. (\E op \in Pak!Operations : Pak!Begin(q, op)) => q \in pakCase.requests
    BY DEF Pak!Begin
  <2>3. Pak!Require(q) \/ Calls(q) \/ Pak!Commit(q) \/ Ends(q) => pakReq[q].step # "idle"
    BY DEF Pak!Require, Calls, Pak!Call, Pak!Commit, Ends, Pak!CommitFails, Pak!Rollback,
           Pak!Effect, Pak!Undo, Pak!Answer
  <2> QED BY <2>1, <2>2, <2>3 DEF StepOf
<1>2. ASSUME NEW p \in PakRequests, p # q
      PROVE  pakReq[p] = Pak!NoRequest
  BY <1>1, <1>2 DEF Pak!OneByOne, PakLocksInv, PakProgress
<1> QED BY <1>2

(* Which steps change what Hydra holds.                                    *)
LEMMA ClientMoves ==
  ASSUME Pak!CredentialsAssumption, PakLocksInv, NEW q \in PakRequests, StepOf(q)
  PROVE  /\ tokens' \subseteq tokens
         /\ \/ hydra' = hydra
            \/ Calls(q)
            \/ pakReq[q].step = "effect" /\ pakReq[q].op = "delete" /\ hydra'.secret = hydra.secret
            \/ pakReq[q].step = "undo" /\ pakReq[q].undo /\ "commit" \in pakCase.failures
<1>1. PakTypeInv /\ PakProgress(q) /\ hydra \in ClientRecords
  BY DEF PakLocksInv, PakTypeInv
<1>2. ASSUME NEW op \in Pak!Operations, Pak!Begin(q, op)
      PROVE  UNCHANGED <<hydra, tokens>>
  BY <1>2 DEF Pak!Begin
<1>3. Pak!Require(q) \/ Pak!Commit(q) => UNCHANGED <<hydra, tokens>>
  BY DEF Pak!Require, Pak!Commit
<1>4. Calls(q) => tokens' = tokens
  BY DEF Calls, Pak!Call
<1>5. CASE Ends(q)
  <2>1. ASSUME NEW done \in BOOLEAN, Pak!Effect(q, done)
        PROVE  /\ tokens' \subseteq tokens
               /\ hydra' = hydra \/
                  (pakReq[q].step = "effect" /\ pakReq[q].op = "delete"
                  /\ hydra'.secret = hydra.secret)
    BY <1>1, <2>1 DEF Pak!Effect, ClientRecords
  <2>2. ASSUME NEW done \in BOOLEAN, Pak!Undo(q, done)
        PROVE  /\ tokens' \subseteq tokens
               /\ pakReq[q].step = "undo" /\ pakReq[q].undo /\ "commit" \in pakCase.failures
    BY <1>1, <2>2 DEF Pak!Undo, PakProgress
  <2> QED BY <1>5, <2>1, <2>2 DEF Ends, Pak!CommitFails, Pak!Rollback, Pak!Answer
<1> QED BY <1>2, <1>3, <1>4, <1>5 DEF StepOf

LEMMA OthersKey ==
  ASSUME Pak!CredentialsAssumption, PakLocksInv, NEW q \in PakRequests, StepOf(q),
         NEW p \in PakRequests, p # q, NewKeyIsSet(p)
  PROVE  NewKeyIsSet(p)'
<1>1. PakTypeInv /\ PakTypeInv' /\ PakProgress(p) /\ PakProgress(q)
  BY ProgressKept DEF PakLocksInv
<1>2. pakReq'[p] = pakReq[p] /\ pakCase' = pakCase
  BY ProgressKept DEF PakLocksInv
<1>3. SUFFICES ASSUME Rotates(p)' PROVE NewKeyIsSet(p)'
  BY DEF NewKeyIsSet
<1>4. Rotates(p)
  BY <1>2, <1>3 DEF Rotates
<1>5. ~Pak!OneByOne
  BY <1>4, OthersRest DEF Rotates, Pak!NoRequest
<1>6. Pak!OneByOne' = Pak!OneByOne /\ OthersDoNotUndo' = OthersDoNotUndo /\ CallsWork' = CallsWork
  BY <1>2, SameCase
<1>8. ASSUME OthersDoNotUndo
      PROVE  pakReq[p].new <= hydra'.secret
  <2>1. "commit" \notin pakCase.failures
    BY <1>5, <1>8 DEF OthersDoNotUndo
  <2>2. pakReq[p].new <= hydra.secret
    BY <1>4, <1>8 DEF NewKeyIsSet
  <2>3. hydra'.secret = hydra.secret \/ Calls(q)
    BY <2>1, ClientMoves
  <2>4. ASSUME NEW done \in BOOLEAN, NEW answered \in BOOLEAN, Pak!Call(q, done, answered)
        PROVE  pakReq[p].new <= hydra'.secret
    <3>1. hydra' = hydra \/ hydra'.secret = Made(q)
      BY <1>1, <2>4, CallFacts
    <3>2. pakReq[p].new <= secret /\ secret <= Made(q)
      BY <1>1, <2>4, CallFacts DEF PakProgress
    <3>3. {pakReq[p].new, secret, Made(q)} \subseteq Nat
      BY <1>1, <2>4, CallFacts, Names DEF PakTypeInv, PakRequestRecords
    <3> QED BY <2>2, <3>1, <3>2, <3>3
  <2> QED BY <2>2, <2>3, <2>4 DEF Calls
<1> QED BY <1>2, <1>4, <1>5, <1>6, <1>8, ClientMoves DEF NewKeyIsSet

LEMMA OwnKey ==
  ASSUME Pak!CredentialsAssumption, PakLocksInv, NEW q \in PakRequests, StepOf(q), NewKeyIsSet(q)
  PROVE  NewKeyIsSet(q)'
<1>1. PakTypeInv /\ PakProgress(q)
  BY DEF PakLocksInv
<1>2. pakCase' = pakCase
  BY ProgressKept DEF PakLocksInv
<1>3. Pak!OneByOne' = Pak!OneByOne /\ OthersDoNotUndo' = OthersDoNotUndo /\ CallsWork' = CallsWork
  BY <1>2, SameCase
<1>4. SUFFICES ASSUME Rotates(q)' PROVE NewKeyIsSet(q)'
  BY DEF NewKeyIsSet
<1>5. /\ pakReq'[q].op \in Pak!Rotations
      /\ pakReq'[q].step \in {"commit", "effect"} \/ (pakReq'[q].step = "answer" /\ pakReq'[q].ok)
  BY <1>4 DEF Rotates
<1>6. \A op \in Pak!Operations : ~Pak!Begin(q, op)
  BY <1>1, <1>5, BeginFields
<1>7. ~Pak!Require(q)
  BY <1>1, <1>5, RequireFields
<1>8. ASSUME NEW done \in BOOLEAN, NEW answered \in BOOLEAN, Pak!Call(q, done, answered)
      PROVE  NewKeyIsSet(q)'
  <2>1. pakReq'[q].step = "commit" /\ pakReq'[q].new = Made(q) /\ Works(q, done)
    BY <1>1, <1>5, <1>8, CallFields
  <2>2. hydra'.secret = Made(q) /\ Made(q) \in Nat
    BY <1>1, <1>8, <2>1, CallFacts, Names
  <2> QED BY <2>1, <2>2 DEF NewKeyIsSet
<1>9. CASE Pak!Commit(q)
  <2>1. /\ pakReq[q].step = "commit" /\ pakReq'[q].op = pakReq[q].op
           /\ pakReq'[q].new = pakReq[q].new
        /\ UNCHANGED <<hydra, tokens>> /\ pakRow' = Pak!Written(pakReq[q])
        /\ pakReq'[q].step = IF Pak!HasEffect(pakReq[q].op) THEN "effect" ELSE "answer"
    BY <1>1, <1>9, CommitFields
  <2>2. Rotates(q)
    BY <1>5, <2>1 DEF Rotates
  <2>3. pakRow'.secret = pakReq[q].new
    BY <1>1, <1>5, <2>1 DEF Pak!Written, Pak!NewSecret, Pak!Rotations, PakTypeInv, RowRecords
  <2>4. pakReq[q].op = "rotate_immediate" => pakReq'[q].step = "effect"
    BY <2>1 DEF Pak!HasEffect
  <2>5. pakReq'[q].step # "commit"
    BY <2>1
  <2> QED BY <1>3, <2>1, <2>2, <2>3, <2>4, <2>5 DEF NewKeyIsSet
<1>10. CASE Ends(q)
  <2>1. /\ pakReq[q].step = "effect" /\ pakReq'[q].step = "answer" /\ pakReq'[q].op = pakReq[q].op
        /\ pakReq'[q].new = pakReq[q].new /\ pakRow' = pakRow
    BY <1>1, <1>5, <1>10, EndsFields DEF PakProgress, Pak!NoRequest, Pak!Rotations
  <2>2. PICK done \in BOOLEAN : (done \/ Pak!May("call")) /\ Pak!Effect(q, done)
    BY <1>1, <1>10, <2>1, EndsFields DEF Pak!Undo
  <2>3. hydra' = hydra
    BY <1>5, <2>1, <2>2 DEF Pak!Effect, Pak!Rotations
  <2>4. CallsWork => tokens' = {}
    BY <2>2 DEF CallsWork, Pak!May, Pak!Effect
  <2>5. Rotates(q)
    BY <1>5, <2>1 DEF Rotates
  <2> QED BY <1>3, <2>1, <2>3, <2>4, <2>5 DEF NewKeyIsSet
<1> QED BY <1>6, <1>7, <1>8, <1>9, <1>10 DEF StepOf, Calls

LEMMA CrashKeys ==
  ASSUME Pak!CredentialsAssumption, Pak!Crash, NEW q \in PakRequests
  PROVE  NewKeyIsSet(q)'
BY DEF Pak!Crash, Pak!NoRequest, NewKeyIsSet, Rotates, Pak!Rotations

LEMMA PakKeys ==
  ASSUME Pak!CredentialsAssumption, PakLocksInv, OfThePak, NEW q \in PakRequests, NewKeyIsSet(q)
  PROVE  NewKeyIsSet(q)'
<1>1. UNCHANGED <<pakCase, pakRow, hydra, pakReq>>
  BY PakLocks
<1>2. tokens' \subseteq tokens \cup {hydra.secret}
  BY DEF OfThePak, Pak!ObtainToken, Pak!Introspect, Pak!Authorize, Pak!LockPak, Pak!OpenSession,
         Pak!CompleteSession,
         Pak!TokenExpires
<1> QED BY <1>1, <1>2, SameCase DEF NewKeyIsSet, Rotates

-----------------------------------------------------------------------------
(* The two stores agree again. *)

(* Steps after which the stores are as they were.                          *)
LEMMA PreparesStores ==
  ASSUME Pak!CredentialsAssumption, PakLocksInv, StoresFit, NEW q \in PakRequests,
         \/ \E op \in Pak!Operations : Pak!Begin(q, op)
         \/ Pak!Require(q)
         \/ Ends(q) /\ pakReq[q].step \notin {"effect", "undo"}
  PROVE  StoresFit'
<1>1. PakTypeInv /\ PakProgress(q) /\ StepOf(q)
  BY DEF PakLocksInv, StepOf
<1> DEFINE Same  == UNCHANGED <<pakRow, hydra>> /\ \A p \in PakRequests : p # q
    => pakReq'[p] = pakReq[p]
           Keeps == /\ Settles(q) => Settles(q)'
                    /\ SettlesKey(q) => SettlesKey(q)'
                    /\ Agrees(q)'
<1>2. Same /\ Keeps
  <2>1. ASSUME NEW op \in Pak!Operations, Pak!Begin(q, op)
        PROVE  Same /\ Keeps
    BY <1>1, <2>1, BeginFields DEF Settles, SettlesKey, Agrees, Turns, Creates, PakProgress,
       Pak!NoRequest, Pak!Rotations
  <2>2. CASE Pak!Require(q)
    <3>1. pakReq[q].op # "create" /\ ~pakReq[q].undo /\ pakReq[q].step = "lock"
      BY <1>1, <2>2, RequireFields DEF PakProgress
    <3> QED BY <1>1, <2>2, <3>1, RequireFields
            DEF Settles, SettlesKey, Agrees, Turns, Creates
  <2>3. CASE Ends(q) /\ pakReq[q].step \notin {"effect", "undo"}
    <3>1. Same
      BY <1>1, <2>3, EndsFields
    <3>2. CASE pakReq[q].step = "answer" /\ pakReq'[q] = Pak!NoRequest
      BY <3>1, <3>2 DEF Settles, SettlesKey, Agrees, Turns, Creates, Pak!NoRequest, Pak!Rotations
    <3>3. ASSUME pakReq'[q].op = pakReq[q].op, pakReq'[q].undo = pakReq[q].undo,
                 pakReq'[q].old = pakReq[q].old,
                 \/ pakReq[q].step = "commit" /\ pakReq'[q].step = "rollback"
                 \/ /\ pakReq[q].step = "rollback"
                    /\ pakReq'[q].step = IF pakReq[q].undo THEN "undo" ELSE "answer"
          PROVE  Keeps
      <4>1. /\ Agrees(q)
            /\ pakReq[q].step = "commit" => (pakReq[q].undo <=> pakReq[q].op \in Calling)
        BY <1>1 DEF StoresFit, PakProgress
      <4>2. Creates(q) => Creates(q)'
        BY <3>3, <4>1 DEF Creates, Calling
      <4>3. /\ Turns(q) => Turns(q)' /\ pakReq'[q].step # "call"
            /\ Turns(q)' => Turns(q)
        BY <3>3, <4>1 DEF Turns, Calling
      <4> QED BY <3>1, <3>3, <4>1, <4>2, <4>3 DEF Settles, SettlesKey, Agrees
    <3> QED BY <1>1, <2>3, <3>1, <3>2, <3>3, EndsFields
  <2> QED BY <2>1, <2>2, <2>3
<1>3. ASSUME NEW p \in PakRequests
      PROVE  (Settles(p) => Settles(p)') /\ (SettlesKey(p) => SettlesKey(p)') /\ Agrees(p)'
  <2>1. CASE p = q
    BY <1>2, <2>1
  <2>2. CASE p # q
    BY <1>2, <2>2 DEF StoresFit, Settles, SettlesKey, Agrees, Turns, Creates
  <2> QED BY <2>1, <2>2
<1> QED BY <1>2, <1>3 DEF StoresFit

(* While one request writes or creates, no other turns the key.            *)
LEMMA OthersDoNotTurn ==
  ASSUME Pak!CredentialsAssumption, PakLocksInv, StoresAreSafe, NEW q \in PakRequests, StepOf(q),
         pakReq[q].step \in {"call", "commit"} \/ Pak!OneByOne, NEW p \in PakRequests, p # q
  PROVE  ~Turns(p)
<1>1. PakProgress(p) /\ PakProgress(q) /\ Creation(q)
  BY DEF PakLocksInv
<1>2. CASE Pak!OneByOne
  BY <1>2, OthersRest DEF Turns, Pak!NoRequest, Pak!Rotations
<1>3. CASE ~Pak!OneByOne
  <2>1. "commit" \notin pakCase.failures
    BY <1>3 DEF StoresAreSafe
  <2>2. CASE pakReq[q].op = "create"
    BY <1>1, <1>3, <2>2 DEF Creation, Creates, Refusing, Turns, PakProgress
  <2>3. CASE pakReq[q].op # "create"
    <3>1. rowLock = q
      BY <1>1, <1>3, <2>3 DEF PakProgress
    <3> QED BY <1>1, <2>1, <3>1 DEF Turns, PakProgress, Pak!Rotations
  <2> QED BY <2>2, <2>3
<1> QED BY <1>2, <1>3

LEMMA CallStores ==
  ASSUME Pak!CredentialsAssumption, PakLocksInv, StoresAreSafe, StoresFit, NEW q \in PakRequests,
         Calls(q)
  PROVE  StoresFit'
<1>1. PakTypeInv /\ PakProgress(q) /\ Creation(q) /\ StepOf(q) /\ Agrees(q)
  BY DEF PakLocksInv, StepOf, StoresFit
<1>2. Pak!Call(q, TRUE, TRUE)
  <2>1. ~Pak!May("call") /\ ~Pak!May("answer")
    BY DEF StoresAreSafe, Pak!May
  <2>2. PICK done \in BOOLEAN, answered \in BOOLEAN :
          done /\ (~answered => FALSE) /\ Pak!Call(q, done, answered)
    BY <2>1 DEF Calls
  <2>3. done = TRUE /\ answered = TRUE
    BY <2>2
  <2> QED BY <2>2, <2>3
<1>3. /\ pakReq[q].step = "call" /\ pakRow' = pakRow
      /\ hydra' = IF Works(q, TRUE) THEN [exists |-> TRUE, secret |-> Made(q)] ELSE hydra
      /\ pakReq'[q].step = IF Works(q, TRUE) THEN "commit" ELSE "rollback"
      /\ pakReq'[q].undo = Works(q, TRUE)
      /\ pakReq'[q].new = Made(q) /\ pakReq'[q].old = pakReq[q].old /\ pakReq'[q].op = pakReq[q].op
      /\ \A p \in PakRequests : p # q => pakReq'[p] = pakReq[p]
  BY <1>1, <1>2, CallFacts, CallFields DEF Works
<1>4. pakReq[q].op \in Calling
  BY <1>1, <1>3 DEF PakProgress
<1>5. ASSUME NEW p \in PakRequests, p # q
      PROVE  (Settles(p) => Settles(p)') /\ Agrees(p)' /\ ~SettlesKey(p)
  <2>1. ~Turns(p) /\ Agrees(p)
    BY <1>1, <1>3, <1>5, OthersDoNotTurn DEF StoresFit
  <2> QED BY <1>3, <1>5, <2>1 DEF Settles, SettlesKey, Agrees, Turns, Creates
<1>6. CASE pakReq[q].op = "create"
  <2>1. ~pakRow.exists /\ Works(q, TRUE)
    BY <1>1, <1>3, <1>6 DEF Creation, Creates, Works
  <2>2. Settles(q)' /\ Agrees(q)'
    BY <1>3, <1>6, <2>1 DEF Settles, Creates, Agrees, Turns, Pak!Rotations
  <2> QED BY <1>3, <1>5, <2>1, <2>2 DEF StoresFit
<1>7. CASE pakReq[q].op \in Pak!Rotations
  <2>1. Turns(q) /\ pakReq[q].old = pakRow.secret /\ (Works(q, TRUE) <=> hydra.exists)
    BY <1>1, <1>3, <1>7 DEF Turns, Agrees, Works, Pak!Rotations
  <2>2. ~Settles(q) /\ ~SettlesKey(q)
    BY <1>3, <1>7 DEF Settles, Creates, Pak!Rotations, SettlesKey
  <2>3. Agrees(q)'
    BY <1>3, <1>7, <2>1 DEF Agrees, Pak!Rotations
  <2>4. CASE hydra.exists
    <3>1. hydra'.exists /\ SettlesKey(q)'
      BY <1>3, <1>7, <2>1, <2>4 DEF SettlesKey, Turns
    <3> QED BY <1>3, <1>5, <2>2, <2>3, <2>4, <3>1 DEF StoresFit
  <2>5. CASE ~hydra.exists
    BY <1>3, <1>5, <2>1, <2>3, <2>5 DEF StoresFit
  <2> QED BY <2>4, <2>5
<1> QED BY <1>4, <1>6, <1>7 DEF Calling

LEMMA CommitStores ==
  ASSUME Pak!CredentialsAssumption, PakLocksInv, StoresAreSafe, StoresFit, NEW q \in PakRequests,
         Pak!Commit(q)
  PROVE  StoresFit'
<1>1. PakTypeInv /\ PakProgress(q) /\ Creation(q) /\ StepOf(q) /\ Agrees(q) /\ pakRow \in RowRecords
  BY DEF PakLocksInv, StepOf, StoresFit, PakTypeInv
<1>2. /\ pakReq[q].step = "commit" /\ pakRow' = Pak!Written(pakReq[q]) /\ hydra' = hydra
      /\ pakReq'[q].step = IF Pak!HasEffect(pakReq[q].op) THEN "effect" ELSE "answer"
      /\ pakReq'[q].op = pakReq[q].op
      /\ \A p \in PakRequests : p # q => pakReq'[p] = pakReq[p]
  BY <1>1, CommitFields
<1>3. ASSUME NEW p \in PakRequests, p # q
      PROVE  (Settles(p) => Settles(p)') /\ ~Turns(p) /\ ~SettlesKey(p) /\ ~Turns(p)'
  <2>1. ~Turns(p)
    BY <1>1, <1>2, <1>3, OthersDoNotTurn
  <2> QED BY <1>2, <1>3, <2>1 DEF Settles, SettlesKey, Turns, Creates
<1>4. ~Turns(q)'
  BY <1>2 DEF Turns
<1>5. ASSUME \A p \in PakRequests : p # q /\ pakReq[p].op = "delete" /\ pakReq[p].step = "effect"
             => ~pakRow'.exists,
             pakReq[q].op = "delete" => ~pakRow'.exists
      PROVE  \A p \in PakRequests : Agrees(p)'
  BY <1>2, <1>3, <1>4, <1>5 DEF Agrees
<1>6. pakReq[q].op \in Pak!Operations
  BY <1>1, <1>2 DEF PakProgress
<1>7. CASE pakReq[q].op = "create"
  <2>1. /\ pakRow'.exists /\ pakRow'.secret = pakReq[q].new
        /\ hydra.exists /\ hydra.secret = pakReq[q].new
        /\ \A p \in PakRequests : p # q => Refusing(p)
    BY <1>1, <1>2, <1>7 DEF Pak!Written, Pak!NewSecret, Creation, Creates
  <2>2. \A p \in PakRequests : Agrees(p)'
    BY <1>5, <1>7, <2>1 DEF Refusing
  <2> QED BY <1>2, <2>1, <2>2 DEF StoresFit
<1>8. ASSUME pakReq[q].op # "create"
      PROVE  /\ pakRow'.exists => pakRow.exists
             /\ pakReq[q].op # "delete" => pakRow'.exists = pakRow.exists
             /\ pakReq[q].op = "delete" => ~pakRow'.exists
             /\ pakRow'.secret =
                  IF pakReq[q].op \in Pak!Rotations THEN pakReq[q].new ELSE pakRow.secret
             /\ \A p \in PakRequests : Agrees(p)'
  <2>1. /\ pakRow'.exists => pakRow.exists
        /\ pakReq[q].op # "delete" => pakRow'.exists = pakRow.exists
        /\ pakReq[q].op = "delete" => ~pakRow'.exists
        /\ pakRow'.secret = IF pakReq[q].op \in Pak!Rotations THEN pakReq[q].new ELSE pakRow.secret
    BY <1>1, <1>2, <1>6, <1>8 DEF Pak!Written, Pak!NewSecret, RowRecords, Pak!Operations,
       Pak!Rotations
  <2> QED BY <1>5, <2>1 DEF StoresFit, Agrees
<1>9. ~Settles(q) \/ pakReq[q].op = "create"
  BY <1>2 DEF Settles, Creates
<1>10. CASE pakReq[q].op \in Pak!Rotations
  <2>1. hydra.secret = pakReq[q].new
    BY <1>1, <1>2, <1>10 DEF Agrees, Turns
  <2>2. pakReq[q].op \notin {"create", "delete"}
    BY <1>10 DEF Pak!Rotations
  <2> QED BY <1>2, <1>3, <1>8, <1>9, <1>10, <2>1, <2>2 DEF StoresFit
<1>11. CASE pakReq[q].op = "delete"
  <2>1. Settles(q)'
    BY <1>2, <1>11 DEF Settles, Pak!HasEffect
  <2> QED BY <1>2, <1>8, <1>11, <2>1 DEF StoresFit
<1>12. CASE pakReq[q].op \notin Pak!Rotations \cup {"create", "delete"}
  <2>1. ~SettlesKey(q)
    BY <1>12 DEF SettlesKey, Turns
  <2> QED BY <1>2, <1>3, <1>8, <1>9, <1>12, <2>1 DEF StoresFit
<1> QED BY <1>7, <1>10, <1>11, <1>12

LEMMA AfterwardsStores ==
  ASSUME Pak!CredentialsAssumption, PakLocksInv, StoresAreSafe, StoresFit, NEW q \in PakRequests,
         Ends(q), pakReq[q].step \in {"effect", "undo"}
  PROVE  StoresFit'
<1>1. /\ PakTypeInv /\ PakProgress(q) /\ Creation(q) /\ StepOf(q) /\ Agrees(q)
      /\ pakRow \in RowRecords /\ hydra \in ClientRecords
  BY DEF PakLocksInv, StepOf, StoresFit, PakTypeInv
<1>2. /\ pakRow' = pakRow /\ pakReq'[q].step = "answer"
      /\ \A p \in PakRequests : p # q => pakReq'[p] = pakReq[p]
      /\ \E done \in BOOLEAN : (done \/ Pak!May("call")) /\
           (Pak!Effect(q, done) \/ Pak!Undo(q, done))
  BY <1>1, EndsFields
<1>3. Pak!Effect(q, TRUE) \/ Pak!Undo(q, TRUE)
  <2>1. ~Pak!May("call")
    BY DEF StoresAreSafe, Pak!May
  <2>2. PICK done \in BOOLEAN : done /\ (Pak!Effect(q, done) \/ Pak!Undo(q, done))
    BY <1>2, <2>1
  <2>3. done = TRUE
    BY <2>2
  <2> QED BY <2>2, <2>3
<1>4. ASSUME NEW p \in PakRequests, hydra'.secret = hydra.secret
      PROVE  Agrees(p)'
  <2>1. CASE p = q
    BY <1>2, <2>1 DEF Agrees, Turns
  <2>2. CASE p # q
    BY <1>2, <1>4, <2>2 DEF StoresFit, Agrees, Turns
  <2> QED BY <2>1, <2>2
<1>5. ASSUME NEW p \in PakRequests, p # q
      PROVE  (Settles(p) => Settles(p)') /\ (SettlesKey(p) => SettlesKey(p)')
  BY <1>2, <1>5 DEF Settles, SettlesKey, Turns, Creates
<1>6. CASE Pak!Effect(q, TRUE) /\ pakReq[q].op = "delete"
  <2>1. ~pakRow.exists /\ ~hydra'.exists /\ hydra'.secret = hydra.secret
    BY <1>1, <1>6 DEF Agrees, Pak!Effect, ClientRecords
  <2> QED BY <1>2, <1>4, <2>1 DEF StoresFit
<1>7. CASE Pak!Effect(q, TRUE) /\ pakReq[q].op # "delete"
  <2>1. hydra' = hydra /\ ~Settles(q) /\ ~SettlesKey(q)
    BY <1>7 DEF Pak!Effect, Settles, SettlesKey, Turns, Creates
  <2> QED BY <1>2, <1>4, <1>5, <2>1 DEF StoresFit
<1>8. CASE Pak!Undo(q, TRUE) /\ pakReq[q].op = "create"
  <2>1. ~pakRow.exists /\ ~hydra'.exists /\ hydra'.secret = hydra.secret
    BY <1>1, <1>8 DEF Creation, Creates, PakProgress, Pak!Undo, ClientRecords
  <2> QED BY <1>2, <1>4, <2>1 DEF StoresFit
<1>9. CASE Pak!Undo(q, TRUE) /\ pakReq[q].op # "create"
  <2>1. /\ pakReq[q].step = "undo" /\ pakReq[q].undo /\ pakReq[q].op \in Pak!Rotations
        /\ "commit" \in pakCase.failures
    BY <1>1, <1>9 DEF Pak!Undo, PakProgress, Calling
  <2>2. Pak!OneByOne
    BY <2>1 DEF StoresAreSafe
  <2>3. pakReq[q].old = pakRow.secret
    BY <1>1, <2>1 DEF Agrees, Turns
  <2>4. hydra' = IF hydra.exists THEN [hydra EXCEPT !.secret = pakRow.secret] ELSE hydra
    BY <1>9, <2>3 DEF Pak!Undo
  <2>5. /\ hydra'.exists = hydra.exists
        /\ hydra.exists => hydra'.secret = pakRow.secret
    BY <1>1, <2>4 DEF ClientRecords
  <2>6. ~Settles(q)
    BY <2>1 DEF Settles, Creates, Pak!Rotations
  <2>7. ASSUME NEW p \in PakRequests
        PROVE  Agrees(p)'
    <3>1. CASE p = q
      BY <1>2, <3>1 DEF Agrees, Turns
    <3>2. CASE p # q
      <4>1. ~Turns(p)
        BY <1>1, <2>2, <3>2, OthersDoNotTurn
      <4> QED BY <1>2, <3>2, <4>1 DEF StoresFit, Agrees, Turns
    <3> QED BY <3>1, <3>2
  <2> QED BY <1>2, <1>5, <2>5, <2>6, <2>7 DEF StoresFit
<1> QED BY <1>3, <1>6, <1>7, <1>8, <1>9

LEMMA StoresInit ==
  ASSUME Pak!CredentialsAssumption, Pak!Init
  PROVE  StoresInv /\ \A q \in PakRequests : NewKeyIsSet(q)
<1>1. \A q \in PakRequests : pakReq[q] = Pak!NoRequest
  BY DEF Pak!Init
<1>2. pakRow.exists = hydra.exists /\ pakRow.secret = hydra.secret
  BY DEF Pak!Init
<1> QED BY <1>1, <1>2 DEF StoresInv, StoresFit, Agrees, Turns, NewKeyIsSet, Rotates, Pak!NoRequest,
                          Pak!Rotations

LEMMA KeysInit ==
  ASSUME Pak!CredentialsAssumption, Pak!Init
  PROVE  KeysInv
BY PakLocksInit, StoresInit DEF KeysInv

LEMMA EveryStepKeys ==
  ASSUME Pak!CredentialsAssumption, KeysInv, [Pak!Next]_(Pak!vars)
  PROVE  KeysInv'
<1>1. PakLocksInv' /\ PakLocksInv
  BY PakEveryStepLocks DEF KeysInv
<1>2. ASSUME NEW q \in PakRequests, StepOf(q)
      PROVE  StoresInv' /\ \A p \in PakRequests : NewKeyIsSet(p)'
  <2>1. pakCase' = pakCase
    BY <1>1, <1>2, ProgressKept DEF PakLocksInv
  <2>2. ASSUME StoresAreSafe, StoresFit
        PROVE  StoresFit'
    BY <1>1, <1>2, <2>2, PreparesStores, CallStores, CommitStores, AfterwardsStores DEF StepOf
  <2>3. \A p \in PakRequests : NewKeyIsSet(p)'
    BY <1>1, <1>2, OthersKey, OwnKey DEF KeysInv
  <2> QED BY <2>1, <2>2, <2>3, SameCase DEF StoresInv, KeysInv
<1>3. CASE Pak!May("crash") /\ Pak!Crash
  <2>1. ~StoresAreSafe
    BY <1>3 DEF StoresAreSafe, Pak!May
  <2>2. ~StoresAreSafe'
    BY <1>3, <2>1, SameCase DEF Pak!Crash
  <2> QED BY <1>1, <1>3, <2>2, CrashKeys DEF KeysInv, StoresInv
<1>4. CASE OfThePak
  <2>1. UNCHANGED <<pakCase, pakRow, hydra, pakReq>>
    BY <1>1, <1>4, PakLocks
  <2>2. StoresInv'
    BY <2>1, SameCase DEF KeysInv, StoresInv, StoresFit, Agrees, Turns, Settles, SettlesKey, Creates
  <2> QED BY <1>1, <1>4, <2>2, PakKeys DEF KeysInv
<1>5. CASE UNCHANGED Pak!vars
  <2>1. UNCHANGED <<pakCase, pakRow, hydra, pakReq, tokens>>
    BY <1>5 DEF Pak!vars
  <2>2. StoresInv' /\ \A q \in PakRequests : NewKeyIsSet(q)'
    BY <2>1, SameCase DEF KeysInv, StoresInv, StoresFit, Agrees, Turns, Settles, SettlesKey,
       Creates,
                          NewKeyIsSet, Rotates
  <2> QED BY <1>1, <2>2 DEF KeysInv
<1> QED BY <1>1, <1>2, <1>3, <1>4, <1>5, NextCases DEF KeysInv

(* The rows, the secrets and the tokens are typed, and the row is locked   *)
(* by a request only in the midst of its transaction.                      *)
THEOREM CredentialsAreTyped == Pak!Spec => []Pak!TypeOK
<1>1. ASSUME KeysInv
      PROVE  Pak!TypeOK
  <2>1. PakTypeInv /\ \A q \in PakRequests : PakProgress(q)
    BY <1>1 DEF KeysInv, PakLocksInv
  <2>2. /\ pakRow \in RowRecords /\ hydra \in ClientRecords /\ device \in DeviceRecords
        /\ tokens \subseteq Secrets /\ secret \in Secrets
    BY <2>1 DEF PakTypeInv
  <2>3. \A q \in PakRequests : pakReq[q] \in PakRequestRecords
    BY <2>1 DEF PakTypeInv
  <2>4. \A q \in PakRequests :
          /\ pakReq[q].step \in {"idle", "lock", "call", "commit", "rollback", "effect", "undo",
                                 "answer"}
          /\ {pakReq[q].old, pakReq[q].new} \subseteq Secrets
    BY <2>3 DEF PakRequestRecords, PakSteps
  <2>5. rowLock \in PakRequests \cup {Pak!Nobody, Pak!Machine}
        /\ (rowLock \in PakRequests => pakReq[rowLock].step \in {"call", "commit", "rollback"})
    BY <2>1 DEF PakTypeInv, PakProgress
  <2> QED BY <2>2, <2>4, <2>5 DEF Pak!TypeOK, Secrets, RowRecords, ClientRecords, DeviceRecords
<1>2. Pak!Init => KeysInv
  BY IdentitiesAssumption, KeysInit
<1>3. KeysInv /\ [Pak!Next]_(Pak!vars) => KeysInv'
  BY IdentitiesAssumption, EveryStepKeys
<1>4. KeysInv => Pak!TypeOK
  BY <1>1
<1> QED BY <1>2, <1>3, <1>4, PTL DEF Pak!Spec

(* Unless another request overtook it, the key the database hands out      *)
(* works: after a rotation made alone that succeeded, whatever was lost or *)
(* failed before; and whenever nothing is under way, if requests overlap   *)
(* and none fails, or if they come one by one and only commits fail.  A    *)
(* rotation that overlaps a request whose commit fails is left out: there  *)
(* the key may not work, as PreviousSecretStops shows                      *)
(* (_pak_device.py:202-239).                                               *)
THEOREM PakKeysWorkUnlessOvertaken == Pak!Spec => []Pak!KeysWork
<1>1. ASSUME KeysInv
      PROVE  Pak!KeysWork
  <2>1. Pak!StoresAgree
    <3>1. SUFFICES ASSUME StoresAreSafe, Pak!AtRest
                   PROVE  /\ hydra.exists = pakRow.exists
                          /\ pakRow.exists => hydra.secret = pakRow.secret
      BY DEF Pak!StoresAgree, StoresAreSafe
    <3>2. \A q \in PakRequests : ~Settles(q) /\ ~SettlesKey(q)
      BY <3>1 DEF Pak!AtRest, Settles, SettlesKey, Turns, Creates
    <3>3. pakRow.exists <=> hydra.exists
      BY <1>1, <3>1, <3>2 DEF KeysInv, StoresInv, StoresFit
    <3>4. pakRow.exists \in BOOLEAN /\ hydra.exists \in BOOLEAN
      BY <1>1 DEF KeysInv, PakLocksInv, PakTypeInv, RowRecords, ClientRecords
    <3> QED BY <1>1, <3>1, <3>2, <3>3, <3>4 DEF KeysInv, StoresInv, StoresFit
  <2>2. Pak!RotationRepairs
    BY <1>1 DEF Pak!RotationRepairs, KeysInv, NewKeyIsSet, Rotates
  <2> QED BY <2>1, <2>2 DEF Pak!KeysWork
<1>2. Pak!Init => KeysInv
  BY IdentitiesAssumption, KeysInit
<1>3. KeysInv /\ [Pak!Next]_(Pak!vars) => KeysInv'
  BY IdentitiesAssumption, EveryStepKeys
<1>4. KeysInv => Pak!KeysWork
  BY <1>1
<1> QED BY <1>2, <1>3, <1>4, PTL DEF Pak!Spec

(* A planned rotation spares the sessions: none begins while it is under   *)
(* way, for it holds the row an opening locks.  After an immediate one no  *)
(* token of an earlier key is valid, whatever the PAK asks for meanwhile   *)
(* (_pak_device.py:202-252).                                               *)
THEOREM PakRotationsKeepTheirMode == Pak!Spec => []Pak!RotationModes
<1>1. ASSUME KeysInv
      PROVE  Pak!RotationModes
  <2>1. Pak!PlannedSparesSessions
    BY <1>1 DEF Pak!PlannedSparesSessions, KeysInv, PakLocksInv, SessionsWait
  <2>2. ASSUME CallsWork, OthersDoNotUndo, NEW q \in PakRequests, pakReq[q].step = "answer",
               pakReq[q].ok,
               pakReq[q].op = "rotate_immediate", NEW s \in tokens
        PROVE  s >= pakReq[q].new
    <3>1. pakReq[q].new <= s
      BY <1>1, <2>2 DEF KeysInv, NewKeyIsSet, Rotates, Pak!Rotations
    <3>2. s \in Nat /\ pakReq[q].new \in Nat
      BY <1>1, IdentitiesAssumption, Names DEF KeysInv, PakLocksInv, PakTypeInv, PakRequestRecords
    <3> QED BY <3>1, <3>2
  <2>3. Pak!ImmediateEndsOldTokens
    BY <2>2 DEF Pak!ImmediateEndsOldTokens, CallsWork, OthersDoNotUndo
  <2> QED BY <2>1, <2>3 DEF Pak!RotationModes
<1>2. Pak!Init => KeysInv
  BY IdentitiesAssumption, KeysInit
<1>3. KeysInv /\ [Pak!Next]_(Pak!vars) => KeysInv'
  BY IdentitiesAssumption, EveryStepKeys
<1>4. KeysInv => Pak!RotationModes
  BY <1>1
<1> QED BY <1>2, <1>3, <1>4, PTL DEF Pak!Spec

-----------------------------------------------------------------------------
(* The credentials of the PAKs beside the users. *)

LEMMA CredentialsOfIdentities == MCSpec => Pak!Spec
<1>1. MCInit => Pak!Init
  BY DEF MCInit
<1>2. [MCNext]_mcVars => [Pak!Next]_(Pak!vars)
  BY DEF MCNext, mcVars, pakVars, Pak!vars
<1> QED BY <1>1, <1>2, PTL DEF MCSpec, Pak!Spec

(* Unless another request overtook it, the key the database hands out      *)
(* works: that is not said of a rotation that overlaps a request whose     *)
(* commit fails (_pak_device.py:202-239).                                  *)
THEOREM KeysWorkUnlessOvertaken == MCSpec => []KeysWork
<1>1. Pak!Spec => []Pak!KeysWork
  BY PakKeysWorkUnlessOvertaken
<1> QED BY <1>1, CredentialsOfIdentities, PTL DEF KeysWork

(* Either mode of a rotation keeps what it promises about the sessions and *)
(* the tokens of the key it replaces (_pak_device.py:212-252).             *)
THEOREM RotationsKeepTheirMode == MCSpec => []RotationModes
<1>1. Pak!Spec => []Pak!RotationModes
  BY PakRotationsKeepTheirMode
<1> QED BY <1>1, CredentialsOfIdentities, PTL DEF RotationModes
=============================================================================
