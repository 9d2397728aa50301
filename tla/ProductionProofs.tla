--------------------------- MODULE ProductionProofs ---------------------------
(***************************************************************************)
(* What is proved of MCProduction.  First of the creation of batches: why  *)
(* the serials of a prefix are issued once, in order and without a gap, and *)
(* why a batch is created of a prefix and a version that are in use: what a *)
(* request has read under a lock is still so when it commits, and a prefix *)
(* that may be deleted has never issued anything.  Then of the catalog of  *)
(* defects that stands beside it, and last of all of it together with the  *)
(* documents of a batch: every behavior of MCProduction is one of each of  *)
(* the three.  Of each also why its requests never wait for each other in  *)
(* a circle.                                                               *)
(***************************************************************************)
EXTENDS MCProduction, TLAPS

-----------------------------------------------------------------------------
(* The inductive invariant *)

Operations == PrefixOperations \cup VersionOperations \cup {"create"}
OnPrefix == PrefixOperations \cup {"create"}
OnVersion == VersionOperations \cup {"create"}

PrefixRows == [row : 1..MaxRows, exists : BOOLEAN, archived : BOOLEAN, next : 1..(MaxSerial + 1)]
LockedRows == ({"prefix"} \X DevEuiPrefixes) \cup ({"version"} \X Versions)
RequestRecords ==
  [step : {"new", "prefix", "version", "write", "rollback", "done"},
   op : Operations \cup {"none"}, prefix : DevEuiPrefixes \cup {NoPrefix}, row : Nat,
   version : Versions \cup {NoVersion}, quantity : Quantities \cup {0}, next : Nat]

(* A request of every step has the fields its operation reads.             *)
RequestOf(q) ==
  /\ At(q, "prefix") => req[q].op \in OnPrefix
  /\ At(q, "version") => req[q].op \in OnVersion
  /\ At(q, "write") => req[q].op \in Operations
  /\ req[q].op \in OnPrefix => req[q].prefix \in DevEuiPrefixes
  /\ req[q].op \in OnVersion => req[q].version \in Versions
  /\ req[q].op = "create" => req[q].quantity \in Quantities

TypeInv ==
  /\ prefix \in [DevEuiPrefixes -> PrefixRows]
  /\ version \in [Versions -> BOOLEAN]
  /\ \A r \in issued : r.prefix \in DevEuiPrefixes /\ r.first \in Nat /\ r.last \in Nat
  /\ \A b \in batches : b.range \in issued /\ b.version \in Versions
  /\ held \in [Requests -> SUBSET (LockedRows \X Modes)]
  /\ req \in [Requests -> RequestRecords]
  /\ \A q \in Requests : RequestOf(q)

(* The locks a request holds while it is between two statements.           *)
Holds(q, r, m) == <<r, m>> \in held[q]

Creating(q) == req[q].step \in {"version", "write"} /\ req[q].op = "create"
Writing(q, ops) == At(q, "write") /\ req[q].op \in ops

LocksOf(q) ==
  /\ Creating(q) \/ Writing(q, PrefixOperations) => Holds(q, <<"prefix", req[q].prefix>>, Update)
  /\ Writing(q, {"create"}) => Holds(q, <<"version", req[q].version>>, Share)
  /\ Writing(q, VersionOperations) => Holds(q, <<"version", req[q].version>>, Update)

(* What it has found under them and relies on.                             *)
ChecksOf(q) ==
  /\ Creating(q) =>
       LET row == prefix[req[q].prefix]
       IN /\ row.exists /\ ~row.archived /\ row.next = req[q].next
          /\ Serials!Fits(row.next, req[q].quantity)
  /\ Writing(q, {"create"}) => ~version[req[q].version]
  /\ Writing(q, {"delete_prefix"}) => Deletable(req[q].prefix)

LockInv == LocksCompatible(held) /\ \A q \in Requests : LocksOf(q) /\ ChecksOf(q)

(* The counter of a prefix, deleted or not, against the ranges issued.     *)
CounterInv ==
  /\ \A r \in issued : r.first <= r.last /\ r.last < prefix[r.prefix].next
  /\ \A p \in DevEuiPrefixes :
       /\ prefix[p].next = 1 \/ \E r \in issued : r.prefix = p /\ r.last + 1 = prefix[p].next
       /\ ~prefix[p].exists => prefix[p].next = 1

SerialsInv == TypeInv /\ LockInv /\ CounterInv

(* What one request's step does to the rows, and under which locks.        *)
GuardedWrites(q) ==
  /\ \A p \in DevEuiPrefixes : prefix'[p] # prefix[p] => Holds(q, <<"prefix", p>>, Update)
  /\ \A v \in Versions : version'[v] # version[v] => Holds(q, <<"version", v>>, Update)

(* A step of q leaves the other requests as they are.                      *)
OthersWait(q) == \A o \in Requests \ {q} : req'[o] = req[o] /\ held'[o] = held[o]

-----------------------------------------------------------------------------
(* Types *)

LEMMA OthersFit ==
  ASSUME NEW o, req'[o] = req[o], RequestOf(o)
  PROVE  RequestOf(o)'
BY DEF RequestOf, At

LEMMA GoType ==
  ASSUME TypeInv, NEW q \in Requests, NEW r \in RequestRecords, req' = [req EXCEPT ![q] = r],
         r.step = "prefix" => r.op \in OnPrefix,
         r.step = "version" => r.op \in OnVersion,
         r.step = "write" => r.op \in Operations,
         r.op \in OnPrefix => r.prefix \in DevEuiPrefixes,
         r.op \in OnVersion => r.version \in Versions,
         r.op = "create" => r.quantity \in Quantities
  PROVE  req' \in [Requests -> RequestRecords] /\ \A o \in Requests : RequestOf(o)'
<1>1. req' \in [Requests -> RequestRecords] /\ req'[q] = r
  BY DEF TypeInv
<1>2. RequestOf(q)'
  BY <1>1 DEF RequestOf, At
<1>3. \A o \in Requests \ {q} : RequestOf(o)'
  BY OthersFit DEF TypeInv
<1> QED BY <1>1, <1>2, <1>3

LEMMA NewType == NewRequest \in RequestRecords
BY DEF NewRequest, RequestRecords

LEMMA BeginType ==
  ASSUME TypeInv, NEW q \in Requests,
         \/ \E p \in DevEuiPrefixes, op \in PrefixOperations : BeginOnPrefix(q, op, p)
         \/ \E p \in DevEuiPrefixes, v \in Versions, n \in Quantities : BeginCreation(q, p, v, n)
         \/ \E v \in Versions, op \in VersionOperations : BeginOnVersion(q, op, v)
  PROVE  TypeInv'
<1> USE AllocationAssumption
<1>1. UNCHANGED <<dbVars, held>>
  BY DEF BeginOnPrefix, BeginCreation, BeginOnVersion
<1>2. req' \in [Requests -> RequestRecords] /\ \A o \in Requests : RequestOf(o)'
  <2>1. CASE \E p \in DevEuiPrefixes, op \in PrefixOperations : BeginOnPrefix(q, op, p)
    <3>1. PICK p \in DevEuiPrefixes, op \in PrefixOperations : BeginOnPrefix(q, op, p)
      BY <2>1
    <3> DEFINE r == [NewRequest EXCEPT !.step = "prefix", !.op = op,
                                       !.prefix = p, !.row = prefix[p].row]
    <3>2. prefix[p].row \in Nat
      BY DEF TypeInv, PrefixRows
    <3>4. r \in RequestRecords /\ r.step = "prefix" /\ r.op = op /\ r.prefix = p
      BY <3>2, NewType DEF RequestRecords, Operations
    <3>5. req' = [req EXCEPT ![q] = r]
      BY <3>1 DEF BeginOnPrefix
    <3>6. r.op \in OnPrefix /\ r.op \notin OnVersion
      BY <3>4 DEF OnPrefix, OnVersion, PrefixOperations, VersionOperations
    <3> HIDE DEF r
    <3> QED BY <3>4, <3>5, <3>6, GoType DEF OnVersion
  <2>2. CASE \E p \in DevEuiPrefixes, v \in Versions, n \in Quantities : BeginCreation(q, p, v, n)
    <3>1. PICK p \in DevEuiPrefixes, v \in Versions, n \in Quantities : BeginCreation(q, p, v, n)
      BY <2>2
    <3> DEFINE r == [NewRequest EXCEPT !.step = "prefix", !.op = "create", !.prefix = p,
                                       !.row = prefix[p].row, !.version = v, !.quantity = n]
    <3>2. prefix[p].row \in Nat
      BY DEF TypeInv, PrefixRows
    <3>4. /\ r \in RequestRecords /\ r.step = "prefix" /\ r.op = "create" /\ r.prefix = p
          /\ r.version = v /\ r.quantity = n
      BY <3>2, NewType DEF RequestRecords, Operations
    <3>5. req' = [req EXCEPT ![q] = r]
      BY <3>1 DEF BeginCreation
    <3> HIDE DEF r
    <3> QED BY <3>4, <3>5, GoType DEF OnPrefix, OnVersion
  <2>3. CASE \E v \in Versions, op \in VersionOperations : BeginOnVersion(q, op, v)
    <3>1. PICK v \in Versions, op \in VersionOperations : BeginOnVersion(q, op, v)
      BY <2>3
    <3> DEFINE r == [NewRequest EXCEPT !.step = "version", !.op = op, !.version = v]
    <3>3. r \in RequestRecords /\ r.step = "version" /\ r.op = op /\ r.version = v
      BY NewType DEF RequestRecords, Operations
    <3>4. req' = [req EXCEPT ![q] = r]
      BY <3>1 DEF BeginOnVersion
    <3>5. r.op \in OnVersion /\ r.op \notin OnPrefix
      BY <3>3 DEF OnPrefix, OnVersion, PrefixOperations, VersionOperations
    <3> HIDE DEF r
    <3> QED BY <3>3, <3>4, <3>5, GoType DEF OnPrefix
  <2> QED BY <2>1, <2>2, <2>3
<1> QED BY <1>1, <1>2 DEF TypeInv, dbVars

(* The step a request goes on to leaves its fields alone.                  *)
LEMMA SteppedType ==
  ASSUME TypeInv, NEW q \in Requests, NEW step \in {"version", "write", "rollback", "done"}, Go(q, step),
         step = "version" => req[q].op \in OnVersion,
         step = "write" => req[q].op \in Operations
  PROVE  /\ req' \in [Requests -> RequestRecords] /\ \A o \in Requests : RequestOf(o)'
         /\ req'[q] = [req[q] EXCEPT !.step = step]
<1> DEFINE r == [req[q] EXCEPT !.step = step]
<1>1. req[q] \in RequestRecords /\ RequestOf(q)
  BY DEF TypeInv
<1>2. /\ r \in RequestRecords /\ r.step = step /\ r.op = req[q].op /\ r.prefix = req[q].prefix
      /\ r.version = req[q].version /\ r.quantity = req[q].quantity
  BY <1>1 DEF RequestRecords
<1>3. req' = [req EXCEPT ![q] = r]
  BY DEF Go
<1>4. req'[q] = r
  BY <1>3 DEF TypeInv
<1> HIDE DEF r
<1>5. req' \in [Requests -> RequestRecords] /\ \A o \in Requests : RequestOf(o)'
  BY <1>1, <1>2, <1>3, GoType DEF RequestOf
<1> QED BY <1>4, <1>5 DEF r

LEMMA EndType ==
  ASSUME TypeInv, NEW q \in Requests, End(q)
  PROVE  /\ req' \in [Requests -> RequestRecords] /\ \A o \in Requests : RequestOf(o)'
         /\ held' \in [Requests -> SUBSET (LockedRows \X Modes)]
BY SteppedType DEF End, Release, ReleaseAll, TypeInv

LEMMA GrantType ==
  ASSUME TypeInv, NEW q \in Requests, NEW r \in LockedRows, NEW m \in Modes, held' = Grant(held, q, r, m)
  PROVE  held' \in [Requests -> SUBSET (LockedRows \X Modes)]
BY DEF TypeInv, Grant

LEMMA LockPrefixType ==
  ASSUME TypeInv, NEW q \in Requests, LockPrefix(q)
  PROVE  /\ TypeInv'
         /\ \E step \in {"version", "write", "rollback"} :
              req'[q] = [req[q] EXCEPT !.next = prefix[req[q].prefix].next, !.step = step]
<1> DEFINE p == req[q].prefix
           step == CASE Refused(req[q], prefix[p]) -> "rollback"
                     [] ~Refused(req[q], prefix[p]) /\ req[q].op = "create" -> "version"
                     [] OTHER -> "write"
           r == [req[q] EXCEPT !.next = prefix[p].next, !.step = step]
<1>1. req[q] \in RequestRecords /\ RequestOf(q) /\ At(q, "prefix")
  BY DEF TypeInv, LockPrefix
<1>2. p \in DevEuiPrefixes /\ prefix[p].next \in Nat /\ req[q].op \in OnPrefix
  BY <1>1, AllocationAssumption DEF RequestOf, TypeInv, PrefixRows
<1>3. step \in {"version", "write", "rollback"} /\ (step = "version" => req[q].op = "create")
  BY DEF step
<1>4. req' = [req EXCEPT ![q] = r]
  BY <1>1 DEF LockPrefix, TypeInv
<1> HIDE DEF step
<1>5. /\ r \in RequestRecords /\ r.step = step /\ r.op = req[q].op /\ r.prefix = p
      /\ r.version = req[q].version /\ r.quantity = req[q].quantity
  BY <1>1, <1>2, <1>3 DEF RequestRecords
<1>6. req'[q] = r
  BY <1>4 DEF TypeInv
<1> HIDE DEF r, p
<1>7. req' \in [Requests -> RequestRecords] /\ \A o \in Requests : RequestOf(o)'
  BY <1>1, <1>2, <1>3, <1>4, <1>5, GoType DEF RequestOf, OnPrefix, OnVersion, Operations
<1>8. held' \in [Requests -> SUBSET (LockedRows \X Modes)]
  <2>1. <<"prefix", p>> \in LockedRows /\ Update \in Modes
    BY <1>2 DEF LockedRows, Modes
  <2> QED BY <2>1, GrantType DEF LockPrefix, LocksPrefix, p
<1>9. TypeInv'
  BY <1>7, <1>8 DEF TypeInv, LockPrefix, dbVars
<1> QED BY <1>3, <1>6, <1>9 DEF r, p

LEMMA LockVersionType ==
  ASSUME TypeInv, NEW q \in Requests, LockVersion(q)
  PROVE  TypeInv' /\ \E step \in {"write", "rollback"} : req'[q] = [req[q] EXCEPT !.step = step]
<1> DEFINE step == IF req[q].op = "create" /\ version[req[q].version] THEN "rollback" ELSE "write"
<1>1. RequestOf(q) /\ At(q, "version") /\ Go(q, step) /\ step \in {"write", "rollback"}
  BY DEF TypeInv, LockVersion
<1>2. req[q].op \in Operations /\ req[q].version \in Versions
  BY <1>1 DEF RequestOf, OnVersion, Operations
<1>3. /\ req' \in [Requests -> RequestRecords] /\ \A o \in Requests : RequestOf(o)'
      /\ req'[q] = [req[q] EXCEPT !.step = step]
  BY <1>1, <1>2, SteppedType
<1>4. held' \in [Requests -> SUBSET (LockedRows \X Modes)]
  <2>1. <<"version", req[q].version>> \in LockedRows /\ Update \in Modes /\ Share \in Modes
    BY <1>2 DEF LockedRows, Modes
  <2> QED BY <2>1, GrantType DEF LockVersion, LocksVersion
<1>5. TypeInv'
  BY <1>3, <1>4 DEF TypeInv, LockVersion, dbVars
<1> QED BY <1>1, <1>3, <1>5

(* The range a creation is about to issue, and what is left of its prefix. *)
LEMMA RangeToIssue ==
  ASSUME SerialsInv, NEW q \in Requests, Creating(q)
  PROVE  LET r == req[q]
         IN /\ r.prefix \in DevEuiPrefixes /\ r.quantity \in Quantities /\ r.quantity \in Nat \ {0}
            /\ r.next \in Nat \ {0} /\ r.next + r.quantity <= MaxSerial + 1
            /\ prefix[r.prefix].exists /\ ~prefix[r.prefix].archived
            /\ prefix[r.prefix].next = r.next
            /\ RangeOf(r) = [prefix |-> r.prefix, first |-> r.next, last |-> r.next + r.quantity - 1]
<1> USE AllocationAssumption
<1>1. RequestOf(q) /\ ChecksOf(q) /\ req[q].op = "create"
  BY DEF SerialsInv, TypeInv, LockInv, Creating
<1>2. req[q].prefix \in DevEuiPrefixes /\ req[q].quantity \in Quantities
  BY <1>1 DEF RequestOf, OnPrefix
<1>3. prefix[req[q].prefix].next \in Nat \ {0} /\ req[q].quantity \in Nat \ {0}
  <2>1. prefix[req[q].prefix] \in PrefixRows
    BY <1>2 DEF SerialsInv, TypeInv
  <2>2. prefix[req[q].prefix].next \in 1..(MaxSerial + 1) /\ MaxSerial \in Nat
    BY <2>1, AllocationAssumption DEF PrefixRows
  <2>3. req[q].quantity \in Nat \ {0}
    BY <1>2, AllocationAssumption
  <2>4. prefix[req[q].prefix].next \in Nat \ {0}
    BY <2>2
  <2> QED BY <2>3, <2>4
<1>4. /\ prefix[req[q].prefix].exists /\ ~prefix[req[q].prefix].archived
      /\ prefix[req[q].prefix].next = req[q].next
      /\ req[q].next + req[q].quantity - 1 <= MaxSerial
  BY <1>1 DEF ChecksOf, Serials!Fits
<1>5. RangeOf(req[q]) = [prefix |-> req[q].prefix, first |-> req[q].next,
                         last |-> req[q].next + req[q].quantity - 1]
  BY DEF RangeOf, Serials!RangeAt
<1> QED BY <1>2, <1>3, <1>4, <1>5

LEMMA CreateBatchType ==
  ASSUME SerialsInv, NEW q \in Requests, CreateBatch(q)
  PROVE  TypeInv'
<1> USE AllocationAssumption
<1> DEFINE r == req[q]
<1>1. Creating(q) /\ RequestOf(q) /\ r.version \in Versions
  BY DEF CreateBatch, Creating, At, SerialsInv, TypeInv, RequestOf, OnVersion
<1>2. /\ r.prefix \in DevEuiPrefixes /\ r.next + r.quantity \in 1..(MaxSerial + 1)
      /\ RangeOf(r).prefix \in DevEuiPrefixes /\ RangeOf(r).first \in Nat /\ RangeOf(r).last \in Nat
  <2>1. /\ r.prefix \in DevEuiPrefixes /\ r.quantity \in Nat \ {0} /\ r.next \in Nat \ {0}
        /\ r.next + r.quantity <= MaxSerial + 1
        /\ RangeOf(r) = [prefix |-> r.prefix, first |-> r.next, last |-> r.next + r.quantity - 1]
    BY <1>1, RangeToIssue
  <2> HIDE DEF r
  <2> QED BY <2>1
<1>3. /\ req' \in [Requests -> RequestRecords] /\ \A o \in Requests : RequestOf(o)'
      /\ held' \in [Requests -> SUBSET (LockedRows \X Modes)]
  BY EndType DEF CreateBatch, SerialsInv
<1>4. prefix' \in [DevEuiPrefixes -> PrefixRows]
  BY <1>2 DEF CreateBatch, SerialsInv, TypeInv, PrefixRows
<1>5. \A x \in issued' : x.prefix \in DevEuiPrefixes /\ x.first \in Nat /\ x.last \in Nat
  BY <1>2 DEF CreateBatch, SerialsInv, TypeInv
<1>6. \A b \in batches' : b.range \in issued' /\ b.version \in Versions
  <2>1. batches' = batches \cup {[range |-> RangeOf(r), row |-> r.row, version |-> r.version]}
        /\ issued' = issued \cup {RangeOf(r)}
    BY DEF CreateBatch
  <2> QED BY <1>1, <2>1 DEF SerialsInv, TypeInv
<1>7. version' \in [Versions -> BOOLEAN]
  BY DEF CreateBatch, SerialsInv, TypeInv
<1> QED BY <1>3, <1>4, <1>5, <1>6, <1>7 DEF TypeInv

LEMMA WriteType ==
  ASSUME TypeInv, NEW q \in Requests, WritePrefix(q) \/ WriteVersion(q) \/ Rollback(q)
  PROVE  TypeInv'
<1>1. /\ req' \in [Requests -> RequestRecords] /\ \A o \in Requests : RequestOf(o)'
      /\ held' \in [Requests -> SUBSET (LockedRows \X Modes)]
  BY EndType DEF WritePrefix, WriteVersion, Rollback
<1>2. prefix' \in [DevEuiPrefixes -> PrefixRows]
  <2>1. CASE WritePrefix(q)
    <3>1. req[q].prefix \in DevEuiPrefixes
      BY <2>1 DEF WritePrefix, TypeInv, RequestOf, OnPrefix
    <3>2. /\ [prefix[req[q].prefix] EXCEPT !.exists = FALSE] \in PrefixRows
          /\ [prefix[req[q].prefix] EXCEPT !.archived = TRUE] \in PrefixRows
          /\ [prefix[req[q].prefix] EXCEPT !.archived = FALSE] \in PrefixRows
      BY <3>1 DEF TypeInv, PrefixRows
    <3>3. \/ prefix' = [prefix EXCEPT ![req[q].prefix] = [@ EXCEPT !.exists = FALSE]]
          \/ prefix' = [prefix EXCEPT ![req[q].prefix] = [@ EXCEPT !.archived = TRUE]]
          \/ prefix' = [prefix EXCEPT ![req[q].prefix] = [@ EXCEPT !.archived = FALSE]]
      BY <2>1 DEF WritePrefix
    <3> QED BY <3>1, <3>2, <3>3 DEF TypeInv
  <2>2. CASE ~WritePrefix(q)
    BY <2>2 DEF WriteVersion, Rollback, TypeInv, dbVars
  <2> QED BY <2>1, <2>2
<1>3. version' \in [Versions -> BOOLEAN]
  BY DEF WritePrefix, WriteVersion, Rollback, TypeInv, dbVars
<1>4. UNCHANGED <<issued, batches>>
  BY DEF WritePrefix, WriteVersion, Rollback, dbVars
<1> QED BY <1>1, <1>2, <1>3, <1>4 DEF TypeInv

LEMMA ElsewhereType ==
  ASSUME TypeInv,
         \/ \E b \in batches : DeleteBatch(b)
         \/ \E p \in DevEuiPrefixes : CreatePrefix(p)
         \/ UNCHANGED vars
  PROVE  TypeInv'
<1> USE AllocationAssumption
<1>1. \A o \in Requests : RequestOf(o)'
  BY OthersFit DEF TypeInv, DeleteBatch, CreatePrefix, vars
<1>2. CASE \E p \in DevEuiPrefixes : CreatePrefix(p)
  <2>1. PICK p \in DevEuiPrefixes : CreatePrefix(p)
    BY <1>2
  <2>2. prefix[p].row + 1 \in 1..MaxRows
    BY <2>1 DEF CreatePrefix, TypeInv, PrefixRows
  <2>3. prefix' \in [DevEuiPrefixes -> PrefixRows]
    BY <2>1, <2>2 DEF CreatePrefix, TypeInv, PrefixRows
  <2> QED BY <1>1, <2>1, <2>3 DEF CreatePrefix, TypeInv
<1>3. CASE (\E b \in batches : DeleteBatch(b)) \/ UNCHANGED vars
  BY <1>1, <1>3 DEF DeleteBatch, TypeInv, vars
<1> QED BY <1>2, <1>3

LEMMA InitType == Init => TypeInv
<1> SUFFICES ASSUME Init PROVE TypeInv
  OBVIOUS
<1> USE AllocationAssumption
<1>1. \A q \in Requests : RequestOf(q)
  BY DEF Init, RequestOf, At, NewRequest, OnPrefix, OnVersion, PrefixOperations, VersionOperations
<1>2. prefix \in [DevEuiPrefixes -> PrefixRows]
  BY DEF Init, PrefixRows
<1> QED BY <1>1, <1>2, NewType DEF Init, TypeInv

-----------------------------------------------------------------------------
(* Locks *)

(* Nobody writes a row that another request has locked.                    *)
LEMMA Excluded ==
  ASSUME TypeInv, LocksCompatible(held), NEW q \in Requests, NEW o \in Requests, q # o,
         NEW r, NEW m, NEW n, Holds(q, r, m), Holds(o, r, n)
  PROVE  ~Conflict(m, n)
<1>1. DOMAIN held = Requests
  BY DEF TypeInv
<1>2. <<r, m>>[1] = <<r, n>>[1] /\ <<r, m>>[2] = m /\ <<r, n>>[2] = n
  OBVIOUS
<1> QED BY <1>1, <1>2 DEF LocksCompatible, Holds

LEMMA GrantCompatible ==
  ASSUME TypeInv, LocksCompatible(held), NEW q \in Requests, NEW r, NEW m \in Modes,
         Grantable(held, q, r, m), held' = Grant(held, q, r, m)
  PROVE  /\ LocksCompatible(held')
         /\ \A o \in Requests \ {q} : held'[o] = held[o]
         /\ <<r, m>> \in held'[q]
<1>1. DOMAIN held = Requests /\ DOMAIN held' = Requests
  BY DEF TypeInv, Grant
<1>2. (\A o \in Requests \ {q} : held'[o] = held[o]) /\ held'[q] = held[q] \cup {<<r, m>>}
  BY <1>1 DEF Grant
<1>3. \A o \in Requests \ {q}, n \in Modes : <<r, n>> \in held[o] => ~Conflict(n, m) /\ ~Conflict(m, n)
  BY <1>1 DEF Grantable, Blockers, Conflict
<1>4. \A o \in Requests : \A x \in held[o] : x[2] \in Modes /\ x = <<x[1], x[2]>>
  BY DEF TypeInv
<1>5. SUFFICES ASSUME NEW a \in Requests, NEW b \in Requests, NEW l \in held'[a], NEW k \in held'[b],
                      a # b, l[1] = k[1]
               PROVE  ~Conflict(l[2], k[2])
  BY <1>1, <1>2 DEF LocksCompatible, Holds
<1>6. CASE l \in held[a] /\ k \in held[b]
  BY <1>1, <1>5, <1>6 DEF LocksCompatible
<1>7. CASE l \notin held[a]
  <2>1. a = q /\ l = <<r, m>> /\ k \in held[b] /\ b # q
    BY <1>2, <1>5, <1>7
  <2>2. k = <<r, k[2]>> /\ k[2] \in Modes
    BY <1>4, <1>5, <2>1
  <2> QED BY <1>3, <2>1, <2>2
<1>8. CASE k \notin held[b]
  <2>1. b = q /\ k = <<r, m>> /\ l \in held[a] /\ a # q
    BY <1>2, <1>5, <1>8
  <2>2. l = <<r, l[2]>> /\ l[2] \in Modes
    BY <1>4, <1>5, <2>1
  <2> QED BY <1>3, <2>1, <2>2
<1> QED BY <1>6, <1>7, <1>8

(* The others keep their locks, and what they have found stays true.       *)
LEMMA OthersKeep ==
  ASSUME TypeInv, LockInv, NEW q \in Requests, OthersWait(q), GuardedWrites(q),
         NEW o \in Requests \ {q}
  PROVE  LocksOf(o)' /\ ChecksOf(o)'
<1>1. LocksOf(o) /\ ChecksOf(o) /\ RequestOf(o) /\ req'[o] = req[o] /\ held'[o] = held[o]
  BY DEF LockInv, OthersWait, TypeInv
<1>2. ASSUME Holds(o, <<"prefix", req[o].prefix>>, Update), req[o].prefix \in DevEuiPrefixes
      PROVE  prefix'[req[o].prefix] = prefix[req[o].prefix]
  BY <1>2, Excluded DEF LockInv, GuardedWrites, Conflict
<1>3. ASSUME Holds(o, <<"version", req[o].version>>, Share), req[o].version \in Versions
      PROVE  version'[req[o].version] = version[req[o].version]
  BY <1>3, Excluded DEF LockInv, GuardedWrites, Conflict
<1>4. LocksOf(o)'
  BY <1>1 DEF LocksOf, Holds, Creating, Writing, At
<1>5. ASSUME Creating(o)
      PROVE  prefix'[req[o].prefix] = prefix[req[o].prefix]
  BY <1>1, <1>2, <1>5 DEF LocksOf, RequestOf, OnPrefix, Creating
<1>6. ASSUME Writing(o, {"create"})
      PROVE  version'[req[o].version] = version[req[o].version]
  BY <1>1, <1>3, <1>6 DEF LocksOf, RequestOf, OnVersion, Writing
<1>7. ASSUME Writing(o, {"delete_prefix"})
      PROVE  prefix'[req[o].prefix] = prefix[req[o].prefix]
  BY <1>1, <1>2, <1>7 DEF LocksOf, RequestOf, OnPrefix, Writing, PrefixOperations
<1>8. ChecksOf(o)'
  BY <1>1, <1>5, <1>6, <1>7 DEF ChecksOf, Creating, Writing, At, Deletable
<1> QED BY <1>4, <1>8

LEMMA StepKeepsLocks ==
  ASSUME TypeInv, LockInv, NEW q \in Requests, OthersWait(q), GuardedWrites(q),
         LocksCompatible(held'), LocksOf(q)', ChecksOf(q)'
  PROVE  LockInv'
BY OthersKeep DEF LockInv

LEMMA EndKeepsLocks ==
  ASSUME TypeInv, LockInv, NEW q \in Requests, End(q), GuardedWrites(q)
  PROVE  LockInv'
<1>1. OthersWait(q) /\ DOMAIN held = Requests /\ DOMAIN held' = Requests
  BY DEF OthersWait, End, Go, Release, ReleaseAll, TypeInv
<1>2. held'[q] = {} /\ req'[q].step = "done"
  BY SteppedType DEF End, Release, ReleaseAll, TypeInv, Go, RequestRecords
<1>3. LocksCompatible(held')
  BY <1>1, <1>2 DEF LocksCompatible, OthersWait, LockInv
<1>4. LocksOf(q)' /\ ChecksOf(q)'
  BY <1>2 DEF LocksOf, ChecksOf, Creating, Writing, At
<1> QED BY <1>1, <1>3, <1>4, StepKeepsLocks

LEMMA BeginLocks ==
  ASSUME TypeInv, LockInv, NEW q \in Requests,
         \/ \E p \in DevEuiPrefixes, op \in PrefixOperations : BeginOnPrefix(q, op, p)
         \/ \E p \in DevEuiPrefixes, v \in Versions, n \in Quantities : BeginCreation(q, p, v, n)
         \/ \E v \in Versions, op \in VersionOperations : BeginOnVersion(q, op, v)
  PROVE  LockInv'
<1>1. UNCHANGED <<dbVars, held>> /\ OthersWait(q)
  BY DEF BeginOnPrefix, BeginCreation, BeginOnVersion, OthersWait, TypeInv
<1>2. ~Creating(q)' /\ \A ops : ~Writing(q, ops)'
  <2>1. CASE \E p \in DevEuiPrefixes, op \in PrefixOperations : BeginOnPrefix(q, op, p)
    <3>1. PICK p \in DevEuiPrefixes, op \in PrefixOperations : BeginOnPrefix(q, op, p)
      BY <2>1
    <3>2. req'[q].step = "prefix"
      BY <3>1 DEF BeginOnPrefix, NewRequest, TypeInv
    <3> QED BY <3>2 DEF Creating, Writing, At
  <2>2. CASE \E p \in DevEuiPrefixes, v \in Versions, n \in Quantities : BeginCreation(q, p, v, n)
    <3>1. PICK p \in DevEuiPrefixes, v \in Versions, n \in Quantities : BeginCreation(q, p, v, n)
      BY <2>2
    <3>2. req'[q].step = "prefix"
      BY <3>1 DEF BeginCreation, NewRequest, TypeInv
    <3> QED BY <3>2 DEF Creating, Writing, At
  <2>3. CASE \E v \in Versions, op \in VersionOperations : BeginOnVersion(q, op, v)
    <3>1. PICK v \in Versions, op \in VersionOperations : BeginOnVersion(q, op, v)
      BY <2>3
    <3>2. req'[q].step = "version" /\ req'[q].op = op /\ op # "create"
      BY <3>1 DEF BeginOnVersion, NewRequest, TypeInv, VersionOperations
    <3> QED BY <3>2 DEF Creating, Writing, At
  <2> QED BY <2>1, <2>2, <2>3
<1>3. LocksOf(q)' /\ ChecksOf(q)'
  BY <1>2 DEF LocksOf, ChecksOf
<1>4. GuardedWrites(q) /\ LocksCompatible(held')
  BY <1>1 DEF GuardedWrites, dbVars, LockInv
<1> QED BY <1>1, <1>3, <1>4, StepKeepsLocks

LEMMA LockPrefixLocks ==
  ASSUME TypeInv, LockInv, NEW q \in Requests, LockPrefix(q)
  PROVE  LockInv'
<1> DEFINE p == req[q].prefix
<1>1. /\ LocksCompatible(held') /\ \A o \in Requests \ {q} : held'[o] = held[o]
      /\ <<<<"prefix", p>>, Update>> \in held'[q]
  <2>1. Grantable(held, q, <<"prefix", p>>, Update) /\ held' = Grant(held, q, <<"prefix", p>>, Update)
    BY DEF LockPrefix, LocksPrefix
  <2>2. Update \in Modes
    BY DEF Modes
  <2> HIDE DEF p
  <2> QED BY <2>1, <2>2, GrantCompatible DEF LockInv
<1>2. PICK step \in {"version", "write", "rollback"} :
         req'[q] = [req[q] EXCEPT !.next = prefix[p].next, !.step = step]
  BY LockPrefixType
<1>3. /\ req'[q].step = step /\ req'[q].next = prefix[p].next /\ req'[q].op = req[q].op
      /\ req'[q].prefix = p /\ req'[q].row = req[q].row /\ req'[q].quantity = req[q].quantity
  BY <1>2 DEF TypeInv, RequestRecords
<1>4. step = CASE Refused(req[q], prefix[p]) -> "rollback"
               [] ~Refused(req[q], prefix[p]) /\ req[q].op = "create" -> "version"
               [] OTHER -> "write"
  BY <1>3 DEF LockPrefix, TypeInv, RequestRecords
<1>5. req[q].op \in OnPrefix
  BY DEF LockPrefix, TypeInv, RequestOf
<1>6. LocksOf(q)'
  <2>1. ~Writing(q, {"create"})' /\ ~Writing(q, VersionOperations)'
    BY <1>3, <1>4, <1>5 DEF Writing, At, OnPrefix, PrefixOperations, VersionOperations
  <2>2. (Creating(q) \/ Writing(q, PrefixOperations))' => Holds(q, <<"prefix", req[q].prefix>>, Update)'
    BY <1>1, <1>3 DEF Holds
  <2> QED BY <2>1, <2>2 DEF LocksOf
<1>7. ChecksOf(q)'
  <2>1. ~Writing(q, {"create"})'
    BY <1>3, <1>4 DEF Writing, At
  <2>2. prefix' = prefix
    BY DEF LockPrefix, dbVars
  <2>3. Creating(q)' => ~Refused(req[q], prefix[p]) /\ req[q].op = "create"
    BY <1>3, <1>4 DEF Creating
  <2>4. Writing(q, {"delete_prefix"})' => ~Refused(req[q], prefix[p]) /\ req[q].op = "delete_prefix"
    BY <1>3, <1>4 DEF Writing, At
  <2> QED BY <1>3, <2>1, <2>2, <2>3, <2>4 DEF ChecksOf, Refused, Deletable
<1>8. OthersWait(q) /\ GuardedWrites(q)
  BY <1>1 DEF OthersWait, GuardedWrites, LockPrefix, dbVars, TypeInv
<1> QED BY <1>1, <1>6, <1>7, <1>8, StepKeepsLocks

LEMMA LockVersionLocks ==
  ASSUME TypeInv, LockInv, NEW q \in Requests, LockVersion(q)
  PROVE  LockInv'
<1> DEFINE v == req[q].version
           mode == IF req[q].op = "create" THEN Share ELSE Update
<1>1. /\ LocksCompatible(held') /\ \A o \in Requests \ {q} : held'[o] = held[o]
      /\ <<<<"version", v>>, mode>> \in held'[q]
  <2>1. /\ Grantable(held, q, <<"version", v>>, mode)
        /\ held' = Grant(held, q, <<"version", v>>, mode)
    BY DEF LockVersion, LocksVersion
  <2>2. mode \in Modes
    BY DEF Modes
  <2> HIDE DEF v, mode
  <2> QED BY <2>1, <2>2, GrantCompatible DEF LockInv
<1>2. held[q] \subseteq held'[q]
  BY DEF LockVersion, LocksVersion, Grant, TypeInv
<1>3. PICK step \in {"write", "rollback"} : req'[q] = [req[q] EXCEPT !.step = step]
  BY LockVersionType
<1>4. /\ req'[q].step = step /\ req'[q].next = req[q].next /\ req'[q].op = req[q].op
      /\ req'[q].prefix = req[q].prefix /\ req'[q].version = v /\ req'[q].quantity = req[q].quantity
  BY <1>3 DEF TypeInv, RequestRecords
<1>5. step = IF req[q].op = "create" /\ version[v] THEN "rollback" ELSE "write"
  BY <1>4 DEF LockVersion, Go, TypeInv, RequestRecords
<1>6. At(q, "version") /\ req[q].op \in OnVersion /\ LocksOf(q) /\ ChecksOf(q)
  BY DEF LockVersion, TypeInv, RequestOf, LockInv
<1>7. Creating(q)' => Creating(q)
  BY <1>4, <1>6 DEF Creating, At
<1>8. ~Writing(q, PrefixOperations)' /\ ~Writing(q, {"delete_prefix"})'
  BY <1>4, <1>6 DEF Writing, OnVersion, VersionOperations, PrefixOperations
<1>9. LocksOf(q)'
  <2>1. Creating(q)' => Holds(q, <<"prefix", req[q].prefix>>, Update)'
    BY <1>2, <1>4, <1>6, <1>7 DEF LocksOf, Holds
  <2>2. Writing(q, {"create"})' => mode = Share
    BY <1>4 DEF Writing
  <2>3. Writing(q, VersionOperations)' => mode = Update
    BY <1>4 DEF Writing, VersionOperations
  <2> QED BY <1>1, <1>4, <1>8, <2>1, <2>2, <2>3 DEF LocksOf, Holds
<1>10. ChecksOf(q)'
  <2>1. UNCHANGED dbVars
    BY DEF LockVersion
  <2>2. Writing(q, {"create"})' => ~version[v]
    BY <1>4, <1>5 DEF Writing, At
  <2> QED BY <1>4, <1>6, <1>7, <1>8, <2>1, <2>2 DEF ChecksOf, dbVars
<1>11. OthersWait(q) /\ GuardedWrites(q)
  BY <1>1 DEF OthersWait, GuardedWrites, LockVersion, Go, dbVars, TypeInv
<1> QED BY <1>1, <1>9, <1>10, <1>11, StepKeepsLocks

LEMMA CommitLocks ==
  ASSUME TypeInv, LockInv, NEW q \in Requests,
         CreateBatch(q) \/ WritePrefix(q) \/ WriteVersion(q) \/ Rollback(q)
  PROVE  LockInv'
<1>1. End(q)
  BY DEF CreateBatch, WritePrefix, WriteVersion, Rollback
<1>2. LocksOf(q)
  BY DEF LockInv
<1>3. CASE CreateBatch(q)
  BY <1>1, <1>2, <1>3, EndKeepsLocks DEF CreateBatch, GuardedWrites, LocksOf, Creating, At, TypeInv
<1>4. CASE WritePrefix(q)
  BY <1>1, <1>2, <1>4, EndKeepsLocks DEF WritePrefix, GuardedWrites, LocksOf, Writing, At, TypeInv
<1>5. CASE WriteVersion(q)
  BY <1>1, <1>2, <1>5, EndKeepsLocks DEF WriteVersion, GuardedWrites, LocksOf, Writing, At, TypeInv
<1>6. CASE Rollback(q)
  BY <1>1, <1>6, EndKeepsLocks DEF Rollback, GuardedWrites, dbVars
<1> QED BY <1>3, <1>4, <1>5, <1>6

LEMMA ElsewhereLocks ==
  ASSUME SerialsInv,
         \/ \E b \in batches : DeleteBatch(b)
         \/ \E p \in DevEuiPrefixes : CreatePrefix(p)
         \/ UNCHANGED vars
  PROVE  LockInv'
<1>1. UNCHANGED <<version, held, req>>
  BY DEF DeleteBatch, CreatePrefix, vars
<1>2. \A q \in Requests : LocksOf(q)'
  BY <1>1 DEF SerialsInv, LockInv, LocksOf, Holds, Creating, Writing, At
<1>3. ASSUME NEW q \in Requests
      PROVE  ChecksOf(q)'
  <2>1. ChecksOf(q) /\ RequestOf(q)
    BY DEF SerialsInv, LockInv, TypeInv
  <2>2. Creating(q) => prefix'[req[q].prefix] = prefix[req[q].prefix]
    BY <2>1 DEF ChecksOf, RequestOf, Creating, OnPrefix, DeleteBatch, CreatePrefix, vars,
                SerialsInv, TypeInv
  <2>3. Writing(q, {"delete_prefix"}) => Deletable(req[q].prefix)'
    <3> SUFFICES ASSUME Writing(q, {"delete_prefix"}) PROVE prefix'[req[q].prefix].next <= 1
      BY <1>1 DEF Deletable
    <3>1. req[q].prefix \in DevEuiPrefixes /\ prefix[req[q].prefix].next <= 1
      BY <2>1 DEF ChecksOf, RequestOf, Writing, OnPrefix, PrefixOperations, Deletable
    <3>2. ASSUME NEW p \in DevEuiPrefixes, CreatePrefix(p)
          PROVE  prefix'[req[q].prefix] = prefix[req[q].prefix] \/ prefix'[req[q].prefix].next = 1
      BY <3>1, <3>2 DEF CreatePrefix, SerialsInv, TypeInv
    <3>3. CASE \E p \in DevEuiPrefixes : CreatePrefix(p)
      BY <3>1, <3>2, <3>3
    <3>4. CASE prefix' = prefix
      BY <3>1, <3>4
    <3> QED BY <3>3, <3>4 DEF DeleteBatch, vars
  <2> QED BY <1>1, <2>1, <2>2, <2>3 DEF ChecksOf, Creating, Writing, At
<1> QED BY <1>1, <1>2, <1>3 DEF LockInv, SerialsInv

-----------------------------------------------------------------------------
(* The counters *)

(* A step that issues nothing and moves no counter but one that never did. *)
LEMMA NothingIssued ==
  ASSUME TypeInv, CounterInv, issued' = issued, DOMAIN prefix' = DevEuiPrefixes,
         \A p \in DevEuiPrefixes :
           /\ prefix'[p].next = prefix[p].next
           /\ prefix'[p].exists \/ ~prefix[p].exists \/ prefix[p].next = 1
  PROVE  CounterInv'
BY DEF CounterInv, TypeInv

(* An issue of the next range under a prefix.                              *)
LEMMA IssueCounts ==
  ASSUME SerialsInv, NEW q \in Requests, CreateBatch(q)
  PROVE  CounterInv'
<1> DEFINE r == req[q]
<1>1. Creating(q)
  BY DEF CreateBatch, Creating, At
<1>2. /\ r.prefix \in DevEuiPrefixes /\ r.quantity \in Nat \ {0} /\ r.next \in Nat \ {0}
      /\ prefix[r.prefix].next = r.next /\ prefix[r.prefix].exists
      /\ RangeOf(r) = [prefix |-> r.prefix, first |-> r.next, last |-> r.next + r.quantity - 1]
  BY <1>1, RangeToIssue
<1>3. /\ prefix' = [prefix EXCEPT ![r.prefix].next = r.next + r.quantity]
      /\ issued' = issued \cup {RangeOf(r)}
  BY DEF CreateBatch
<1>4. /\ prefix'[r.prefix].next = r.next + r.quantity /\ prefix'[r.prefix].exists
      /\ \A p \in DevEuiPrefixes \ {r.prefix} : prefix'[p] = prefix[p]
  BY <1>2, <1>3 DEF SerialsInv, TypeInv, PrefixRows
<1> HIDE DEF r
<1>5. ASSUME NEW x \in issued'
      PROVE  x.first <= x.last /\ x.last < prefix'[x.prefix].next
  <2>1. CASE x = RangeOf(r)
    BY <1>2, <1>4, <2>1
  <2>2. CASE x \in issued
    <3>1. /\ x.prefix \in DevEuiPrefixes /\ x.last \in Nat /\ x.first <= x.last
          /\ x.last < prefix[x.prefix].next
      BY <2>2 DEF SerialsInv, TypeInv, CounterInv
    <3> QED BY <1>2, <1>4, <3>1
  <2> QED BY <1>3, <2>1, <2>2
<1>6. ASSUME NEW p \in DevEuiPrefixes
      PROVE  /\ prefix'[p].next = 1 \/ \E x \in issued' : x.prefix = p /\ x.last + 1 = prefix'[p].next
             /\ ~prefix'[p].exists => prefix'[p].next = 1
  <2>1. CASE p = r.prefix
    <3>1. RangeOf(r).last + 1 = prefix'[p].next /\ RangeOf(r).prefix = p /\ RangeOf(r) \in issued'
      BY <1>2, <1>3, <1>4, <2>1
    <3> QED BY <1>4, <2>1, <3>1
  <2>2. CASE p # r.prefix
    BY <1>3, <1>4, <2>2 DEF SerialsInv, CounterInv
  <2> QED BY <2>1, <2>2
<1> QED BY <1>5, <1>6 DEF CounterInv

LEMMA WriteCounts ==
  ASSUME SerialsInv, NEW q \in Requests, WritePrefix(q)
  PROVE  CounterInv'
<1> DEFINE p == req[q].prefix
<1>1. LocksOf(q) /\ ChecksOf(q) /\ RequestOf(q)
  BY DEF SerialsInv, LockInv, TypeInv
<1>2. p \in DevEuiPrefixes /\ prefix[p] \in PrefixRows
  BY <1>1 DEF WritePrefix, RequestOf, OnPrefix, SerialsInv, TypeInv
<1>3. /\ DOMAIN prefix' = DevEuiPrefixes /\ \A x \in DevEuiPrefixes \ {p} : prefix'[x] = prefix[x]
      /\ prefix'[p].next = prefix[p].next
      /\ req[q].op # "delete_prefix" => prefix'[p].exists = prefix[p].exists
  BY <1>2 DEF WritePrefix, SerialsInv, TypeInv, PrefixRows
<1>4. req[q].op = "delete_prefix" => prefix[p].next = 1
  <2>1. req[q].op = "delete_prefix" => prefix[p].next <= 1
    BY <1>1 DEF WritePrefix, ChecksOf, Writing, Deletable
  <2>2. prefix[p].next \in 1..(MaxSerial + 1) /\ MaxSerial \in Nat
    BY <1>2, AllocationAssumption DEF PrefixRows
  <2> QED BY <2>1, <2>2
<1>5. issued' = issued
  BY DEF WritePrefix
<1> QED BY <1>2, <1>3, <1>4, <1>5, NothingIssued DEF SerialsInv

LEMMA CreateCounts ==
  ASSUME SerialsInv, NEW p \in DevEuiPrefixes, CreatePrefix(p)
  PROVE  CounterInv'
<1>1. prefix[p].next = 1 /\ ~prefix[p].exists
  BY DEF CreatePrefix, SerialsInv, CounterInv
<1>2. /\ DOMAIN prefix' = DevEuiPrefixes /\ \A x \in DevEuiPrefixes \ {p} : prefix'[x] = prefix[x]
      /\ prefix'[p].next = 1 /\ prefix'[p].exists /\ issued' = issued
  BY DEF CreatePrefix, SerialsInv, TypeInv
<1> QED BY <1>1, <1>2, NothingIssued DEF SerialsInv

-----------------------------------------------------------------------------
(* The invariant holds *)

LEMMA SerialsInit == Init => SerialsInv
<1> SUFFICES ASSUME Init PROVE SerialsInv
  OBVIOUS
<1>1. TypeInv
  BY InitType
<1>2. LockInv
  BY DEF Init, LockInv, LocksCompatible, LocksOf, ChecksOf, Creating, Writing, At, NewRequest
<1>3. CounterInv
  BY DEF Init, CounterInv
<1> QED BY <1>1, <1>2, <1>3 DEF SerialsInv

LEMMA SerialsStep == SerialsInv /\ [Next]_vars => SerialsInv'
<1> SUFFICES ASSUME SerialsInv, [Next]_vars PROVE SerialsInv'
  OBVIOUS
<1> USE DEF SerialsInv
<1>1. ASSUME NEW q \in Requests,
             \/ \E p \in DevEuiPrefixes, op \in PrefixOperations : BeginOnPrefix(q, op, p)
             \/ \E p \in DevEuiPrefixes, v \in Versions, n \in Quantities : BeginCreation(q, p, v, n)
             \/ \E v \in Versions, op \in VersionOperations : BeginOnVersion(q, op, v)
      PROVE  SerialsInv'
  <2>1. UNCHANGED dbVars
    BY <1>1 DEF BeginOnPrefix, BeginCreation, BeginOnVersion
  <2>2. CounterInv'
    BY <2>1 DEF dbVars, CounterInv
  <2> QED BY <1>1, <2>2, BeginType, BeginLocks
<1>2. ASSUME NEW q \in Requests, LockPrefix(q) \/ LockVersion(q)
      PROVE  SerialsInv'
  <2>1. CounterInv'
    BY <1>2 DEF LockPrefix, LockVersion, dbVars, CounterInv
  <2> QED BY <1>2, <2>1, LockPrefixType, LockVersionType, LockPrefixLocks, LockVersionLocks
<1>3. ASSUME NEW q \in Requests, CreateBatch(q)
      PROVE  SerialsInv'
  BY <1>3, CreateBatchType, CommitLocks, IssueCounts
<1>4. ASSUME NEW q \in Requests, WritePrefix(q)
      PROVE  SerialsInv'
  BY <1>4, WriteType, CommitLocks, WriteCounts
<1>5. ASSUME NEW q \in Requests, WriteVersion(q) \/ Rollback(q)
      PROVE  SerialsInv'
  <2>1. CounterInv'
    BY <1>5 DEF WriteVersion, Rollback, dbVars, CounterInv
  <2> QED BY <1>5, <2>1, WriteType, CommitLocks
<1>6. ASSUME NEW p \in DevEuiPrefixes, CreatePrefix(p)
      PROVE  SerialsInv'
  BY <1>6, ElsewhereType, ElsewhereLocks, CreateCounts
<1>7. CASE (\E b \in batches : DeleteBatch(b)) \/ UNCHANGED vars
  <2>1. CounterInv'
    BY <1>7 DEF DeleteBatch, vars, CounterInv
  <2> QED BY <1>7, <2>1, ElsewhereType, ElsewhereLocks
<1> QED BY <1>1, <1>2, <1>3, <1>4, <1>5, <1>6, <1>7 DEF Next, Proceed

LEMMA Allocation == Spec => []SerialsInv
BY SerialsInit, SerialsStep, PTL DEF Spec

(* Types, and no two requests that hold conflicting locks of one row.      *)
THEOREM TypesOfAllocation == Spec => []TypeOK
<1>1. SerialsInv => TypeOK
  <2> SUFFICES ASSUME SerialsInv PROVE TypeOK
    OBVIOUS
  <2>1. \A p \in DevEuiPrefixes : prefix[p].row \in 1..MaxRows /\ prefix[p].next \in 1..(MaxSerial + 1)
    BY DEF SerialsInv, TypeInv, PrefixRows
  <2>2. \A q \in Requests : req[q].step \in {"new", "prefix", "version", "write", "rollback", "done"}
    BY DEF SerialsInv, TypeInv, RequestRecords
  <2> QED BY <2>1, <2>2 DEF SerialsInv, TypeInv, TypeOK, LockInv
<1> QED BY <1>1, Allocation, PTL

(* A batch is created of a prefix and of a version that are still in use   *)
(* when it is: each is locked before it is looked at, and until the commit.*)
THEOREM BatchesAreOfCurrent == Spec => CreatedOfCurrent
<1> DEFINE Current == \A b \in batches' \ batches :
       ~version[b.version] /\ prefix[b.range.prefix].exists /\ ~prefix[b.range.prefix].archived
<1>1. SerialsInv /\ [Next]_vars => [Current]_vars
  <2> SUFFICES ASSUME SerialsInv, Next, NEW b \in batches' \ batches
               PROVE  ~version[b.version] /\ prefix[b.range.prefix].exists /\ ~prefix[b.range.prefix].archived
    OBVIOUS
  <2>1. PICK q \in Requests : CreateBatch(q)
    BY DEF Next, Proceed, BeginOnPrefix, BeginCreation, BeginOnVersion, LockPrefix, LockVersion,
           WritePrefix, WriteVersion, Rollback, DeleteBatch, CreatePrefix, dbVars
  <2>2. b = [range |-> RangeOf(req[q]), row |-> req[q].row, version |-> req[q].version]
    BY <2>1 DEF CreateBatch
  <2>3. Creating(q) /\ Writing(q, {"create"}) /\ ChecksOf(q)
    BY <2>1 DEF CreateBatch, Creating, Writing, At, SerialsInv, LockInv
  <2>4. RangeOf(req[q]).prefix = req[q].prefix
    BY DEF RangeOf, Serials!RangeAt
  <2> QED BY <2>2, <2>3, <2>4 DEF ChecksOf
<1> QED BY <1>1, Allocation, PTL DEF Spec, CreatedOfCurrent

-----------------------------------------------------------------------------
(* The refinement of DevEuiSerials *)

LEMMA MaxIs ==
  ASSUME NEW S, NEW m \in S, \A x \in S : x \in Nat /\ x <= m
  PROVE  Max(S) = m
<1>1. \E x \in S : \A y \in S : x >= y
  OBVIOUS
<1>2. Max(S) \in S /\ \A y \in S : Max(S) >= y
  BY <1>1 DEF Max
<1> QED BY <1>2

(* What DevEuiSerials calls taken: the last serial ever issued under each  *)
(* prefix, which is the one before the next.                               *)
Taken == [p \in DevEuiPrefixes |-> Max({r.last : r \in {r \in issued : r.prefix = p}} \cup {0})]

LEMMA TakenIsCounter == SerialsInv => Taken = [p \in DevEuiPrefixes |-> prefix[p].next - 1]
<1> SUFFICES ASSUME SerialsInv, NEW p \in DevEuiPrefixes
             PROVE  Taken[p] = prefix[p].next - 1
  BY DEF Taken
<1> DEFINE next == prefix[p].next
           lasts == {r.last : r \in {r \in issued : r.prefix = p}} \cup {0}
<1>1. next \in 1..(MaxSerial + 1) /\ MaxSerial \in Nat
  BY AllocationAssumption DEF SerialsInv, TypeInv, PrefixRows
<1>2. next - 1 \in Nat
  BY <1>1
<1>3. next - 1 \in lasts
  <2>1. ASSUME NEW r \in issued, r.prefix = p, r.last + 1 = next
        PROVE  r.last = next - 1
    BY <2>1 DEF SerialsInv, TypeInv
  <2>2. next = 1 \/ \E r \in issued : r.prefix = p /\ r.last + 1 = next
    BY DEF SerialsInv, CounterInv
  <2> QED BY <2>1, <2>2
<1>4. \A x \in lasts : x \in Nat /\ x <= next - 1
  <2>1. ASSUME NEW r \in issued, r.prefix = p
        PROVE  r.last \in Nat /\ r.last <= next - 1
    BY <1>1, <2>1 DEF SerialsInv, TypeInv, CounterInv
  <2> QED BY <1>2, <2>1
<1> HIDE DEF next, lasts
<1>5. Max(lasts) = next - 1
  BY <1>3, <1>4, MaxIs
<1> QED BY <1>5 DEF Taken, next, lasts

LEMMA StartsUnissued == Init => Serials!SerialsInit
<1> SUFFICES ASSUME Init PROVE Serials!SerialsInit
  OBVIOUS
<1>1. Taken = [p \in DevEuiPrefixes |-> 0]
  <2>1. \A p \in DevEuiPrefixes : prefix[p].next = 1
    BY DEF Init
  <2> QED BY <2>1, SerialsInit, TakenIsCounter
<1> QED BY <1>1 DEF Taken, Serials!SerialsInit, Init

LEMMA StepsIssue ==
  ASSUME SerialsInv, SerialsInv', [Next]_vars,
         Taken = [p \in DevEuiPrefixes |-> prefix[p].next - 1],
         Taken' = [p \in DevEuiPrefixes |-> prefix'[p].next - 1]
  PROVE  [\E p \in DevEuiPrefixes, quantity \in Quantities : Serials!Issue(p, quantity)]_Serials!serialVars
<1>1. ASSUME NEW q \in Requests, CreateBatch(q)
      PROVE  \E p \in DevEuiPrefixes, quantity \in Quantities : Serials!Issue(p, quantity)
  <2> DEFINE r == req[q]
  <2>1. Creating(q)
    BY <1>1 DEF CreateBatch, Creating, At
  <2>2. /\ r.prefix \in DevEuiPrefixes /\ r.quantity \in Quantities /\ r.quantity \in Nat \ {0}
        /\ r.next \in Nat \ {0} /\ r.next + r.quantity <= MaxSerial + 1
        /\ prefix[r.prefix].next = r.next
    BY <2>1, RangeToIssue
  <2>3. /\ prefix' = [prefix EXCEPT ![r.prefix].next = r.next + r.quantity]
        /\ issued' = issued \cup {Serials!RangeAt(r.prefix, r.next, r.quantity)}
    BY <1>1 DEF CreateBatch, RangeOf
  <2> HIDE DEF r
  <2>4. Taken[r.prefix] + 1 = r.next
    BY <2>2
  <2>5. Taken' = [Taken EXCEPT ![r.prefix] = @ + r.quantity]
    <3>1. /\ prefix'[r.prefix].next = r.next + r.quantity
          /\ \A p \in DevEuiPrefixes \ {r.prefix} : prefix'[p].next = prefix[p].next
      BY <2>2, <2>3 DEF SerialsInv, TypeInv, PrefixRows
    <3>2. /\ Taken'[r.prefix] = Taken[r.prefix] + r.quantity
          /\ \A p \in DevEuiPrefixes \ {r.prefix} : Taken'[p] = Taken[p]
      BY <2>2, <3>1
    <3> QED BY <3>2
  <2>6. Serials!Fits(Taken[r.prefix] + 1, r.quantity)
    BY <2>2, <2>4, AllocationAssumption DEF Serials!Fits
  <2>7. Serials!Issue(r.prefix, r.quantity)
    BY <2>3, <2>4, <2>5, <2>6 DEF Serials!Issue, Taken
  <2> QED BY <2>2, <2>7
<1>2. CASE issued' = issued
  BY <1>2 DEF Serials!serialVars
<1>3. issued' = issued \/ \E q \in Requests : CreateBatch(q)
  BY DEF Next, Proceed, BeginOnPrefix, BeginCreation, BeginOnVersion, LockPrefix, LockVersion,
         WritePrefix, WriteVersion, Rollback, DeleteBatch, CreatePrefix, dbVars, vars
<1> QED BY <1>1, <1>2, <1>3

(* The counter of every prefix there is follows what was issued under it,  *)
(* and no creation is turned down by DevEUIs there are.                    *)
LEMMA CounterAlone == SerialsInv => CounterFollowsIssued /\ NoneIsTurnedDown
<1> SUFFICES ASSUME SerialsInv PROVE CounterFollowsIssued /\ NoneIsTurnedDown
  OBVIOUS
<1>1. CounterFollowsIssued
  BY DEF SerialsInv, CounterInv, CounterFollowsIssued
<1>2. ASSUME NEW q \in Requests, At(q, "write"), req[q].op = "create", NEW b \in batches
      PROVE  ~Serials!Overlap(b.range, RangeOf(req[q]))
  <2>1. Creating(q)
    BY <1>2 DEF Creating, At
  <2> DEFINE r == req[q]
  <2>2. /\ r.prefix \in DevEuiPrefixes /\ r.next \in Nat \ {0} /\ prefix[r.prefix].next = r.next
        /\ RangeOf(r) = [prefix |-> r.prefix, first |-> r.next, last |-> r.next + r.quantity - 1]
    BY <2>1, RangeToIssue
  <2>3. b.range.last \in Nat /\ b.range.last < prefix[b.range.prefix].next
    BY DEF SerialsInv, TypeInv, CounterInv
  <2> HIDE DEF r
  <2>4. b.range.prefix = r.prefix => ~(r.next <= b.range.last)
    BY <2>2, <2>3
  <2>5. ~Serials!Overlap(b.range, RangeOf(r))
    BY <2>2, <2>4 DEF Serials!Overlap
  <2> QED BY <2>5 DEF r
<1> QED BY <1>1, <1>2 DEF NoneIsTurnedDown, Registrable

(* The serials of a prefix are issued as DevEuiSerials has it: in order,   *)
(* without a gap and each once, though batches and prefixes are deleted    *)
(* and prefixes registered again, and any request fails at any statement.  *)
THEOREM SerialsIssuedOnce == Spec => SerialsAreExact
<1>1. SerialsInv /\ SerialsInv' /\ [Next]_vars
        /\ Taken = [p \in DevEuiPrefixes |-> prefix[p].next - 1]
        /\ (Taken = [p \in DevEuiPrefixes |-> prefix[p].next - 1])'
      => [\E p \in DevEuiPrefixes, quantity \in Quantities : Serials!Issue(p, quantity)]_Serials!serialVars
  BY StepsIssue
<1>2. Spec => []SerialsInv
  BY Allocation
<1>3. Spec => IssuesSerials
  BY <1>1, <1>2, StartsUnissued, TakenIsCounter, PTL DEF Spec, IssuesSerials, Serials!SerialsSpec
<1>4. Spec => [](CounterFollowsIssued /\ NoneIsTurnedDown)
  BY <1>2, CounterAlone, PTL
<1> QED BY <1>3, <1>4 DEF SerialsAreExact

-----------------------------------------------------------------------------
(* What the refinement comes to: no DevEUI belongs to two units.           *)

(* Two batches there are share no serial, nor do two that ever were.       *)
BatchesAreApart == \A b, c \in batches : Serials!Overlap(b.range, c.range) => b = c
OnceInv ==
  /\ \A r, s \in issued : Serials!Overlap(r, s) => r = s
  /\ \A p \in DevEuiPrefixes : \A n \in 1..Taken[p] :
       \E r \in issued : r.prefix = p /\ r.first <= n /\ n <= r.last
  /\ BatchesAreApart

(* A range that is issued begins after all that were.                      *)
LEMMA IssuedApart ==
  ASSUME SerialsInv, NEW q \in Requests, CreateBatch(q)
  PROVE  LET new == RangeOf(req[q])
         IN /\ new.prefix \in DevEuiPrefixes
            /\ new.first = prefix[new.prefix].next /\ new.first \in Nat
            /\ new.last = new.first + req[q].quantity - 1 /\ req[q].quantity \in Nat \ {0}
            /\ issued' = issued \cup {new}
            /\ prefix'[new.prefix].next = new.last + 1
            /\ \A p \in DevEuiPrefixes \ {new.prefix} : prefix'[p] = prefix[p]
            /\ \A r \in issued : ~Serials!Overlap(r, new) /\ ~Serials!Overlap(new, r)
            /\ \E b : b.range = new /\ batches' = batches \cup {b}
<1> DEFINE r == req[q]
           new == RangeOf(r)
           made == [range |-> new, row |-> r.row, version |-> r.version]
<1>1. Creating(q)
  BY DEF CreateBatch, Creating, At
<1>2. /\ r.prefix \in DevEuiPrefixes /\ r.quantity \in Nat \ {0} /\ r.next \in Nat \ {0}
      /\ prefix[r.prefix].next = r.next
      /\ new = [prefix |-> r.prefix, first |-> r.next, last |-> r.next + r.quantity - 1]
  BY <1>1, RangeToIssue
<1>3. /\ prefix' = [prefix EXCEPT ![r.prefix].next = r.next + r.quantity]
      /\ issued' = issued \cup {new} /\ batches' = batches \cup {made}
  BY DEF CreateBatch
<1>4. made.range = new
  OBVIOUS
<1> HIDE DEF r, new, made
<1>5. /\ new.prefix = r.prefix /\ new.first = r.next /\ new.last = r.next + r.quantity - 1
      /\ r.next + r.quantity = new.last + 1
  BY <1>2
<1>6. /\ prefix'[r.prefix].next = r.next + r.quantity
      /\ \A p \in DevEuiPrefixes \ {r.prefix} : prefix'[p] = prefix[p]
  BY <1>2, <1>3 DEF SerialsInv, TypeInv, PrefixRows
<1>7. ASSUME NEW s \in issued
      PROVE  ~Serials!Overlap(s, new) /\ ~Serials!Overlap(new, s)
  <2>1. s.last \in Nat /\ s.last < prefix[s.prefix].next
    BY DEF SerialsInv, TypeInv, CounterInv
  <2>2. s.prefix = new.prefix => s.last < new.first
    BY <1>2, <1>5, <2>1
  <2> QED BY <1>2, <1>5, <2>1, <2>2 DEF Serials!Overlap
<1>8. \E b : b.range = new /\ batches' = batches \cup {b}
  BY <1>3, <1>4
<1> QED BY <1>2, <1>3, <1>5, <1>6, <1>7, <1>8 DEF r, new

LEMMA CreateBatchOnce ==
  ASSUME SerialsInv, OnceInv, NEW q \in Requests, CreateBatch(q),
         Taken = [p \in DevEuiPrefixes |-> prefix[p].next - 1],
         Taken' = [p \in DevEuiPrefixes |-> prefix'[p].next - 1]
  PROVE  OnceInv'
<1> DEFINE new == RangeOf(req[q])
<1>1. /\ new.prefix \in DevEuiPrefixes
      /\ new.first = prefix[new.prefix].next /\ new.first \in Nat
      /\ new.last = new.first + req[q].quantity - 1 /\ req[q].quantity \in Nat \ {0}
      /\ issued' = issued \cup {new}
      /\ prefix'[new.prefix].next = new.last + 1
      /\ \A p \in DevEuiPrefixes \ {new.prefix} : prefix'[p] = prefix[p]
      /\ \A r \in issued : ~Serials!Overlap(r, new) /\ ~Serials!Overlap(new, r)
  BY IssuedApart
<1>2. PICK made : made.range = new /\ batches' = batches \cup {made}
  BY IssuedApart
<1> HIDE DEF new
<1>3. \A r, s \in issued' : Serials!Overlap(r, s) => r = s
  BY <1>1 DEF OnceInv
<1>4. ASSUME NEW p \in DevEuiPrefixes, NEW n \in 1..Taken'[p]
      PROVE  \E r \in issued' : r.prefix = p /\ r.first <= n /\ n <= r.last
  <2>1. CASE p # new.prefix
    <3>1. Taken'[p] = Taken[p]
      BY <1>1, <2>1
    <3> QED BY <1>1, <1>4, <3>1 DEF OnceInv
  <2>2. CASE p = new.prefix
    <3>1. Taken'[p] = new.last /\ Taken[p] = new.first - 1
      BY <1>1, <2>2
    <3>2. CASE n <= Taken[p]
      <4>1. n \in 1..Taken[p]
        BY <1>1, <1>4, <3>1, <3>2
      <4> QED BY <1>1, <4>1 DEF OnceInv
    <3>3. CASE ~(n <= Taken[p])
      <4>1. new.first <= n /\ n <= new.last
        BY <1>1, <1>4, <3>1, <3>3
      <4> QED BY <1>1, <2>2, <4>1
    <3> QED BY <3>2, <3>3
  <2> QED BY <2>1, <2>2
<1>5. BatchesAreApart'
  <2>1. \A b \in batches : b.range \in issued
    BY DEF SerialsInv, TypeInv
  <2> QED BY <1>1, <1>2, <2>1 DEF OnceInv, BatchesAreApart
<1> QED BY <1>3, <1>4, <1>5 DEF OnceInv

LEMMA OnceStep ==
  ASSUME SerialsInv, OnceInv, [Next]_vars,
         Taken = [p \in DevEuiPrefixes |-> prefix[p].next - 1],
         Taken' = [p \in DevEuiPrefixes |-> prefix'[p].next - 1]
  PROVE  OnceInv'
<1>1. CASE \E q \in Requests : CreateBatch(q)
  BY <1>1, CreateBatchOnce
<1>2. CASE issued' = issued /\ batches' \subseteq batches
  <2>1. Taken' = Taken
    BY <1>2 DEF Taken
  <2> QED BY <1>2, <2>1 DEF OnceInv, BatchesAreApart
<1>3. \/ \E q \in Requests : CreateBatch(q)
      \/ issued' = issued /\ batches' \subseteq batches
  BY DEF Next, Proceed, BeginOnPrefix, BeginCreation, BeginOnVersion, LockPrefix, LockVersion,
         WritePrefix, WriteVersion, Rollback, DeleteBatch, CreatePrefix, dbVars, vars
<1> QED BY <1>1, <1>2, <1>3

(* Every serial up to the counter of its prefix is in exactly one range    *)
(* that was ever issued, that of a deleted batch or of a prefix registered *)
(* again included, and no two batches share a serial: no DevEUI belongs to *)
(* two units, and that not by the unique index of the units alone, which   *)
(* says nothing of the units of a batch that was deleted.                  *)
THEOREM EverySerialIsGivenOnce == Spec => [](Serials!GivenOnce /\ BatchesAreApart)
<1>1. Init => OnceInv
  <2> SUFFICES ASSUME Init PROVE OnceInv
    OBVIOUS
  <2>1. Taken = [p \in DevEuiPrefixes |-> 0]
    BY StartsUnissued DEF Serials!SerialsInit, Taken
  <2> QED BY <2>1 DEF Init, OnceInv, BatchesAreApart
<1>2. SerialsInv /\ OnceInv /\ [Next]_vars
        /\ Taken = [p \in DevEuiPrefixes |-> prefix[p].next - 1]
        /\ (Taken = [p \in DevEuiPrefixes |-> prefix[p].next - 1])'
      => OnceInv'
  BY OnceStep
<1>3. OnceInv => Serials!GivenOnce /\ BatchesAreApart
  BY DEF OnceInv, Serials!GivenOnce, Taken
<1>4. Spec => []SerialsInv
  BY Allocation
<1> QED BY <1>1, <1>2, <1>3, <1>4, TakenIsCounter, PTL DEF Spec

-----------------------------------------------------------------------------
(* Why no creation of a batch is ended for a deadlock.  Whoever waits for  *)
(* a prefix holds nothing, and whoever waits for a version no version: of  *)
(* the requests that wait, none is waited for by one that has a version to *)
(* wait for, and so those wait for no request that waits.                  *)

WaitingHolds(q) ==
  /\ req[q].step \in {"new", "prefix", "done"} => held[q] = {}
  /\ At(q, "version") => \A v \in Versions, m \in Modes : ~Holds(q, <<"version", v>>, m)

WaitInv == TypeInv /\ \A q \in Requests : WaitingHolds(q)

LEMMA OthersStillWait ==
  ASSUME WaitInv, NEW q \in Requests, OthersWait(q), WaitingHolds(q)'
  PROVE  \A o \in Requests : WaitingHolds(o)'
BY DEF WaitInv, OthersWait, WaitingHolds, At, Holds

LEMMA WaitStep == SerialsInv /\ WaitInv /\ [Next]_vars => \A q \in Requests : WaitingHolds(q)'
<1> SUFFICES ASSUME SerialsInv, WaitInv, [Next]_vars
             PROVE  \A q \in Requests : WaitingHolds(q)'
  OBVIOUS
<1>1. TypeInv /\ \A q \in Requests : WaitingHolds(q)
  BY DEF WaitInv
<1>2. ASSUME NEW q \in Requests, NEW r, At(q, "new"), r.step \in {"prefix", "version"},
             req' = [req EXCEPT ![q] = r], UNCHANGED held
      PROVE  \A o \in Requests : WaitingHolds(o)'
  <2>1. held'[q] = {} /\ OthersWait(q)
    BY <1>1, <1>2 DEF WaitingHolds, At, OthersWait, TypeInv
  <2> QED BY <2>1, OthersStillWait DEF WaitingHolds, At, Holds
<1>3. ASSUME NEW q \in Requests, NEW p \in DevEuiPrefixes, NEW op, BeginOnPrefix(q, op, p)
      PROVE  \A o \in Requests : WaitingHolds(o)'
  BY <1>2, <1>3 DEF BeginOnPrefix, NewRequest
<1>4. ASSUME NEW q \in Requests, NEW p \in DevEuiPrefixes, NEW v, NEW n, BeginCreation(q, p, v, n)
      PROVE  \A o \in Requests : WaitingHolds(o)'
  BY <1>2, <1>4 DEF BeginCreation, NewRequest
<1>5. ASSUME NEW q \in Requests, NEW v, NEW op, BeginOnVersion(q, op, v)
      PROVE  \A o \in Requests : WaitingHolds(o)'
  BY <1>2, <1>5 DEF BeginOnVersion, NewRequest
<1>6. ASSUME NEW q \in Requests, LockPrefix(q)
      PROVE  \A o \in Requests : WaitingHolds(o)'
  <2>1. held[q] = {} /\ held'[q] = held[q] \cup {<<<<"prefix", req[q].prefix>>, Update>>}
    BY <1>1, <1>6 DEF LockPrefix, LocksPrefix, Grant, WaitingHolds, At, TypeInv
  <2>2. req'[q].step \in {"version", "write", "rollback"}
    <3>1. PICK step \in {"version", "write", "rollback"} :
            req'[q] = [req[q] EXCEPT !.next = prefix[req[q].prefix].next, !.step = step]
      BY <1>1, <1>6, LockPrefixType
    <3>2. req[q] \in RequestRecords
      BY <1>1 DEF TypeInv
    <3> QED BY <3>1, <3>2 DEF RequestRecords
  <2>3. OthersWait(q)
    BY <1>1, <1>6 DEF LockPrefix, LocksPrefix, Grant, OthersWait, TypeInv
  <2> QED BY <2>1, <2>2, <2>3, OthersStillWait DEF WaitingHolds, At, Holds
<1>7. ASSUME NEW q \in Requests, LockVersion(q)
      PROVE  \A o \in Requests : WaitingHolds(o)'
  <2>1. req'[q].step \in {"write", "rollback"}
    <3>1. PICK step \in {"write", "rollback"} : req'[q] = [req[q] EXCEPT !.step = step]
      BY <1>1, <1>7, LockVersionType
    <3>2. req[q] \in RequestRecords
      BY <1>1 DEF TypeInv
    <3> QED BY <3>1, <3>2 DEF RequestRecords
  <2>2. OthersWait(q)
    BY <1>1, <1>7 DEF LockVersion, LocksVersion, Grant, Go, OthersWait, TypeInv
  <2> QED BY <2>1, <2>2, OthersStillWait DEF WaitingHolds, At
<1>8. ASSUME NEW q \in Requests, End(q)
      PROVE  \A o \in Requests : WaitingHolds(o)'
  <2>1. held'[q] = {} /\ OthersWait(q)
    BY <1>1, <1>8 DEF OthersWait, End, Go, Release, ReleaseAll, TypeInv
  <2> QED BY <2>1, OthersStillWait DEF WaitingHolds, Holds
<1>9. CASE UNCHANGED <<held, req>>
  BY <1>1, <1>9 DEF WaitingHolds, At, Holds
<1> QED BY <1>3, <1>4, <1>5, <1>6, <1>7, <1>8, <1>9
        DEF Next, Proceed, CreateBatch, WritePrefix, WriteVersion, Rollback, DeleteBatch, CreatePrefix,
            vars

(* Requests that create batches, archive, restore and delete what batches  *)
(* are created of, never wait for each other in a circle.                  *)
THEOREM CreationsNeverDeadlock == Spec => []NoDeadlock
<1>1. Init => WaitInv
  BY InitType DEF Init, WaitInv, WaitingHolds, At, Holds, NewRequest
<1>2. SerialsInv /\ SerialsInv' /\ WaitInv /\ [Next]_vars => WaitInv'
  BY WaitStep DEF WaitInv, SerialsInv
<1>3. WaitInv => NoDeadlock
  <2> SUFFICES ASSUME WaitInv, NEW S \in (SUBSET Requests) \ {{}}
               PROVE  \E q \in S : \A o \in S : ~WaitsFor(q, o)
    BY DEF NoDeadlock
  <2>1. ASSUME NEW q \in S, NEW o \in S, WaitsFor(q, o)
        PROVE  \/ At(q, "prefix") /\ ~At(o, "prefix")
               \/ At(q, "version") /\ ~At(o, "version") /\ ~At(o, "prefix")
    <3>1. o \in Requests /\ q \in Requests /\ WaitingHolds(o) /\ RequestOf(q)
      BY DEF WaitInv, TypeInv
    <3>2. PICK w \in Wanted(q), n \in Modes : <<w[1], n>> \in held[o]
      BY <2>1 DEF WaitsFor, Blockers
    <3>3. ~At(o, "prefix")
      BY <3>1, <3>2 DEF WaitingHolds, At
    <3>4. CASE At(q, "version")
      <4>1. w[1] = <<"version", req[q].version>> /\ req[q].version \in Versions
        BY <3>1, <3>2, <3>4 DEF Wanted, At, RequestOf, OnVersion
      <4> QED BY <3>1, <3>2, <3>3, <3>4, <4>1 DEF WaitingHolds, Holds
    <3> QED BY <3>2, <3>3, <3>4 DEF Wanted
  <2>2. CASE \E q \in S : ~At(q, "prefix") /\ ~At(q, "version")
    BY <2>1, <2>2
  <2>3. CASE \E q \in S : At(q, "version")
    <3>1. CASE \A q \in S : At(q, "prefix") \/ At(q, "version")
      BY <2>1, <2>3, <3>1
    <3> QED BY <2>2, <3>1
  <2>4. CASE \A q \in S : At(q, "prefix")
    BY <2>1, <2>4 DEF At
  <2> QED BY <2>2, <2>3, <2>4
<1> QED BY <1>1, <1>2, <1>3, Allocation, PTL DEF Spec

-----------------------------------------------------------------------------
(* Why whatever refers to a group of defects may rely on it.  Everything   *)
(* that comes to refer to a group shares its lock until it commits, so     *)
(* what an archiving or a deletion has looked at under the lock of the     *)
(* group is still so when it writes, and a group that was found in use is  *)
(* in use when the reference to it is there.  The inductive invariant:     *)

Steps == {"idle", "group", "look", "share", "type", "find", "check", "write"}
CatalogOperations == Catalog!OnGroup \cup Catalog!OnType \cup {"create_type", "start_step"}

CatalogRequestRecords ==
  [step : Steps, op : CatalogOperations \cup {"none"},
   group : Groups \cup {Catalog!AnyOf(Groups)}, type : Types \cup {Catalog!AnyOf(Types)},
   check : Checks \cup {Catalog!AnyOf(Checks)}, code : Codes \cup {Catalog!AnyOf(Codes)},
   found : SUBSET Groups]
CatalogLockedRows == ({"group"} \X Groups) \cup ({"type"} \X Types) \cup ({"check"} \X Checks)

(* A request of every step has the fields its operation reads.             *)
RequestFits(r) ==
  /\ r.step \in {"group", "look"} => r.op \in Catalog!OnGroup
  /\ r.step = "look" => r.op # "restore_group"
  /\ r.step = "type" => r.op \in Catalog!OnType
  /\ r.step = "share" => r.op \in {"create_type", "restore_type"} /\ r.group \in Groups
  /\ r.step \in {"find", "check"} => r.op = "start_step"
  /\ r.step = "write" => r.op \in CatalogOperations
  /\ r.op \in Catalog!OnGroup \cup {"create_type"} => r.group \in Groups
  /\ r.op \in Catalog!OnType => r.type \in Types
  /\ r.op = "start_step" => r.check \in Checks

CatalogTypeInv ==
  /\ group \in [Groups -> [status : Catalog!Statuses, code : Codes \cup {Catalog!AnyOf(Codes)}]]
  /\ type \in [Types -> [status : Catalog!Statuses, group : Groups \cup {Catalog!AnyOf(Groups)}]]
  /\ \A t \in Types : Catalog!Exists(type[t]) => type[t].group \in Groups
  /\ check \in [Checks -> SUBSET Groups]
  /\ steps \subseteq Groups
  /\ catalogHeld \in [Handlers -> SUBSET (CatalogLockedRows \X Catalog!Modes)]
  /\ catalogReq \in [Handlers -> CatalogRequestRecords]
  /\ \A q \in Handlers : RequestFits(catalogReq[q])

CatalogHolds(q, row, mode) == <<row, mode>> \in catalogHeld[q]

GroupHeld(r) == r.op \in Catalog!OnGroup /\ r.step \in {"look", "write"}
TypeHeld(r) == r.op \in Catalog!OnType /\ r.step \in {"share", "write"}
Refers(r) == r.op = "create_type" /\ r.step = "write"
Restores(r) == r.op = "restore_type" /\ r.step = "write" /\ type[r.type].status = "archived"
Found(r) == r.op = "start_step" /\ r.step \in {"check", "write"}

(* The locks a transaction holds between two statements.                   *)
CatalogLocksOf(q) ==
  LET r == catalogReq[q]
  IN /\ GroupHeld(r) => CatalogHolds(q, <<"group", r.group>>, Catalog!Update)
     /\ TypeHeld(r) => CatalogHolds(q, <<"type", r.type>>, Catalog!Update)
     /\ Refers(r) \/ Restores(r) => CatalogHolds(q, <<"group", r.group>>, Catalog!Share)
     /\ Found(r) => \A g \in r.found : CatalogHolds(q, <<"group", g>>, Catalog!Share)

(* What it has found under them and relies on.                             *)
CatalogChecksOf(q) ==
  LET r == catalogReq[q]
  IN /\ GroupHeld(r) => Catalog!Exists(group[r.group])
     /\ GroupHeld(r) /\ r.step = "write" =>
          /\ r.op = "archive_group" /\ group[r.group].status = "active" =>
               Catalog!TypesOf(r.group, {"active"}) = {}
          /\ r.op = "delete_group" => ~Catalog!Referred(r.group)
     /\ TypeHeld(r) => Catalog!Exists(type[r.type])
     /\ TypeHeld(r) /\ r.step = "share" => r.group = type[r.type].group
     /\ Restores(r) => r.group = type[r.type].group
     /\ Refers(r) \/ Restores(r) => group[r.group].status = "active"
     /\ Found(r) => \A g \in r.found : group[g].status = "active" /\ group[g].code = r.code

CatalogLockInv ==
  /\ Catalog!LocksCompatible(catalogHeld)
  /\ \A q \in Handlers : CatalogLocksOf(q) /\ CatalogChecksOf(q)

(* A code names one group: that of a start is the one it has locked.       *)
CodesNameOne ==
  \A g, h \in Groups :
    Catalog!Exists(group[g]) /\ Catalog!Exists(group[h]) /\ group[g].code = group[h].code => g = h

CatalogInv ==
  /\ CatalogTypeInv /\ CatalogLockInv /\ CodesNameOne
  /\ Catalog!TypesInUseAreOfGroupsInUse /\ Catalog!ReferredGroupsExist

(* What a step of q does to the rows, and under which locks.               *)
CatalogGuardedWrites(q) ==
  /\ \A g \in Groups :
       /\ Catalog!Exists(group[g]) /\ group'[g] # group[g] =>
            CatalogHolds(q, <<"group", g>>, Catalog!Update)
       /\ ~Catalog!Referred(g) /\ Catalog!Referred(g)' =>
            CatalogHolds(q, <<"group", g>>, Catalog!Share)
       /\ Catalog!TypesOf(g, {"active"}) = {} /\ Catalog!TypesOf(g, {"active"})' # {} =>
            CatalogHolds(q, <<"group", g>>, Catalog!Share)
  /\ \A t \in Types : Catalog!Exists(type[t]) /\ type'[t] # type[t] =>
       CatalogHolds(q, <<"type", t>>, Catalog!Update)

(* A step of q leaves the other transactions as they are.                  *)
CatalogOthersWait(q) ==
  \A o \in Handlers \ {q} : catalogReq'[o] = catalogReq[o] /\ catalogHeld'[o] = catalogHeld[o]

-----------------------------------------------------------------------------
(* Requests *)

LEMMA NoRequestType == Catalog!NoRequest \in CatalogRequestRecords /\ RequestFits(Catalog!NoRequest)
BY DEF Catalog!NoRequest, CatalogRequestRecords, RequestFits, Steps, Catalog!OnGroup,
       Catalog!OnType, CatalogOperations

LEMMA CatalogNewRequest ==
  ASSUME CatalogTypeInv, NEW q \in Handlers, NEW r \in CatalogRequestRecords, RequestFits(r),
         catalogReq' = [catalogReq EXCEPT ![q] = r]
  PROVE  /\ catalogReq' \in [Handlers -> CatalogRequestRecords]
            /\ \A o \in Handlers : RequestFits(catalogReq'[o])
         /\ catalogReq'[q] = r /\ \A o \in Handlers \ {q} : catalogReq'[o] = catalogReq[o]
BY DEF CatalogTypeInv

(* A request that goes on keeps its fields.                                *)
Onward(r, s, step) ==
  /\ s.step = step /\ s.op = r.op /\ s.group = r.group /\ s.type = r.type /\ s.check = r.check
  /\ s.code = r.code /\ s.found = r.found

LEMMA Fits ==
  ASSUME NEW r \in CatalogRequestRecords, NEW s \in CatalogRequestRecords, NEW step, Onward(r, s,
         step), RequestFits(r),
         step \in {"group", "look"} => r.op \in Catalog!OnGroup,
         step = "look" => r.op # "restore_group",
         step = "type" => r.op \in Catalog!OnType,
         step = "share" => r.op \in {"create_type", "restore_type"} /\ r.group \in Groups,
         step \in {"find", "check"} => r.op = "start_step",
         step = "write" => r.op \in CatalogOperations
  PROVE  RequestFits(s)
BY DEF Onward, RequestFits

LEMMA StepTo ==
  ASSUME CatalogTypeInv, NEW q \in Handlers, NEW step \in Steps, Catalog!Go(q, step),
         step \in {"group", "look"} => catalogReq[q].op \in Catalog!OnGroup,
         step = "look" => catalogReq[q].op # "restore_group",
         step = "type" => catalogReq[q].op \in Catalog!OnType,
         step = "share" => catalogReq[q].op \in {"create_type", "restore_type"}
         /\ catalogReq[q].group \in Groups,
         step \in {"find", "check"} => catalogReq[q].op = "start_step",
         step = "write" => catalogReq[q].op \in CatalogOperations
  PROVE  /\ catalogReq' \in [Handlers -> CatalogRequestRecords]
            /\ \A o \in Handlers : RequestFits(catalogReq'[o])
         /\ Onward(catalogReq[q], catalogReq'[q], step)
            /\ \A o \in Handlers \ {q} : catalogReq'[o] = catalogReq[o]
<1> DEFINE r == [catalogReq[q] EXCEPT !.step = step]
<1>1. catalogReq[q] \in CatalogRequestRecords /\ RequestFits(catalogReq[q])
  BY DEF CatalogTypeInv
<1>2. r \in CatalogRequestRecords /\ Onward(catalogReq[q], r, step)
  BY <1>1 DEF CatalogRequestRecords, Onward
<1>3. catalogReq' = [catalogReq EXCEPT ![q] = r]
  BY DEF Catalog!Go
<1> HIDE DEF r
<1>4. RequestFits(r)
  BY <1>1, <1>2, Fits
<1> QED BY <1>2, <1>3, <1>4, CatalogNewRequest

-----------------------------------------------------------------------------
(* Locks *)

(* Nobody writes a row that another transaction has locked.                *)
LEMMA CatalogExcluded ==
  ASSUME CatalogTypeInv, Catalog!LocksCompatible(catalogHeld), NEW q \in Handlers,
         NEW o \in Handlers, q # o,
         NEW r, NEW m, NEW n, CatalogHolds(q, r, m), CatalogHolds(o, r, n)
  PROVE  ~Catalog!Conflict(m, n)
<1>1. DOMAIN catalogHeld = Handlers
  BY DEF CatalogTypeInv
<1>2. <<r, m>>[1] = <<r, n>>[1] /\ <<r, m>>[2] = m /\ <<r, n>>[2] = n
  OBVIOUS
<1> QED BY <1>1, <1>2 DEF Catalog!LocksCompatible, CatalogHolds

LEMMA LockGrants ==
  ASSUME CatalogTypeInv, Catalog!LocksCompatible(catalogHeld), NEW q \in Handlers,
         NEW r \in CatalogLockedRows, NEW m \in Catalog!Modes,
         Catalog!Lock(q, r, m)
  PROVE  /\ Catalog!LocksCompatible(catalogHeld')
         /\ \A o \in Handlers \ {q} : catalogHeld'[o] = catalogHeld[o]
         /\ catalogHeld[q] \subseteq catalogHeld'[q] /\ <<r, m>> \in catalogHeld'[q]
         /\ catalogHeld' \in [Handlers -> SUBSET (CatalogLockedRows \X Catalog!Modes)]
<1>1. DOMAIN catalogHeld = Handlers /\ DOMAIN catalogHeld' = Handlers
  BY DEF CatalogTypeInv, Catalog!Lock, Catalog!Grant
<1>2. (\A o \in Handlers \ {q} : catalogHeld'[o] = catalogHeld[o])
      /\ catalogHeld'[q] = catalogHeld[q] \cup {<<r, m>>}
  BY <1>1 DEF Catalog!Lock, Catalog!Grant
<1>3. \A o \in Handlers \ {q}, n \in Catalog!Modes : <<r, n>> \in catalogHeld[o]
      => ~Catalog!Conflict(n, m) /\ ~Catalog!Conflict(m, n)
  BY <1>1 DEF Catalog!Lock, Catalog!Grantable, Catalog!Blockers, Catalog!Conflict
<1>4. \A o \in Handlers : \A x \in catalogHeld[o] : x[2] \in Catalog!Modes /\ x = <<x[1], x[2]>>
  BY DEF CatalogTypeInv
<1>5. catalogHeld' \in [Handlers -> SUBSET (CatalogLockedRows \X Catalog!Modes)]
  BY DEF CatalogTypeInv, Catalog!Lock, Catalog!Grant
<1>6. SUFFICES ASSUME NEW a \in Handlers, NEW b \in Handlers, NEW l \in catalogHeld'[a],
                      NEW k \in catalogHeld'[b],
                      a # b, l[1] = k[1]
               PROVE  ~Catalog!Conflict(l[2], k[2])
  BY <1>1, <1>2, <1>5 DEF Catalog!LocksCompatible
<1>7. CASE l \in catalogHeld[a] /\ k \in catalogHeld[b]
  BY <1>1, <1>6, <1>7 DEF Catalog!LocksCompatible
<1>8. CASE l \notin catalogHeld[a]
  <2>1. a = q /\ l = <<r, m>> /\ k \in catalogHeld[b] /\ b # q
    BY <1>2, <1>6, <1>8
  <2>2. k = <<r, k[2]>> /\ k[2] \in Catalog!Modes
    BY <1>4, <1>6, <2>1
  <2> QED BY <1>3, <2>1, <2>2
<1>9. CASE k \notin catalogHeld[b]
  <2>1. b = q /\ k = <<r, m>> /\ l \in catalogHeld[a] /\ a # q
    BY <1>2, <1>6, <1>9
  <2>2. l = <<r, l[2]>> /\ l[2] \in Catalog!Modes
    BY <1>4, <1>6, <2>1
  <2> QED BY <1>3, <2>1, <2>2
<1> QED BY <1>7, <1>8, <1>9

(* The others keep their locks, and what they have found stays true.       *)
LEMMA CatalogOthersKeep ==
  ASSUME CatalogTypeInv, CatalogLockInv, NEW q \in Handlers, CatalogOthersWait(q),
         CatalogGuardedWrites(q),
         NEW o \in Handlers \ {q}
  PROVE  CatalogLocksOf(o)' /\ CatalogChecksOf(o)'
<1> DEFINE r == catalogReq[o]
<1>1. /\ CatalogLocksOf(o) /\ CatalogChecksOf(o) /\ RequestFits(r) /\ r \in CatalogRequestRecords
      /\ catalogReq'[o] = r /\ catalogHeld'[o] = catalogHeld[o]
         /\ Catalog!LocksCompatible(catalogHeld)
  BY DEF CatalogLockInv, CatalogOthersWait, CatalogTypeInv
<1>2. ASSUME NEW g \in Groups,
             \/ CatalogHolds(o, <<"group", g>>, Catalog!Update)
             \/ CatalogHolds(o, <<"group", g>>, Catalog!Share),
             Catalog!Exists(group[g])
      PROVE  group'[g] = group[g]
  BY <1>1, <1>2, CatalogExcluded DEF CatalogGuardedWrites, Catalog!Conflict
<1>3. ASSUME NEW g \in Groups, CatalogHolds(o, <<"group", g>>, Catalog!Update)
      PROVE  /\ ~Catalog!Referred(g) => ~Catalog!Referred(g)'
             /\ Catalog!TypesOf(g, {"active"}) = {} => Catalog!TypesOf(g, {"active"})' = {}
  <2>1. ~CatalogHolds(q, <<"group", g>>, Catalog!Share)
    BY <1>1, <1>3, CatalogExcluded DEF Catalog!Conflict
  <2> QED BY <2>1 DEF CatalogGuardedWrites
<1>4. ASSUME TypeHeld(r)
      PROVE  type'[r.type] = type[r.type] /\ r.type \in Types /\ Catalog!Exists(type[r.type])
  <2>1. r.type \in Types /\ CatalogHolds(o, <<"type", r.type>>, Catalog!Update)
        /\ Catalog!Exists(type[r.type])
    BY <1>1, <1>4 DEF TypeHeld, RequestFits, CatalogLocksOf, CatalogChecksOf
  <2> QED BY <1>1, <2>1, CatalogExcluded DEF CatalogGuardedWrites, Catalog!Conflict
<1>5. Restores(r) => TypeHeld(r)
  BY DEF Restores, TypeHeld, Catalog!OnType
<1>6. Restores(r)' <=> Restores(r)
  <2>1. r.op = "restore_type" /\ r.step = "write" => TypeHeld(r)
    BY DEF TypeHeld, Catalog!OnType
  <2> QED BY <1>1, <1>4, <2>1 DEF Restores
<1>7. CatalogLocksOf(o)'
  BY <1>1, <1>6 DEF CatalogLocksOf, CatalogHolds, GroupHeld, TypeHeld, Refers, Found
<1>8. ASSUME GroupHeld(r)
      PROVE  /\ r.group \in Groups /\ group'[r.group] = group[r.group]
             /\ CatalogHolds(o, <<"group", r.group>>, Catalog!Update)
                /\ Catalog!Exists(group[r.group])
  <2>1. r.group \in Groups /\ CatalogHolds(o, <<"group", r.group>>, Catalog!Update)
        /\ Catalog!Exists(group[r.group])
    BY <1>1, <1>8 DEF GroupHeld, RequestFits, CatalogLocksOf, CatalogChecksOf
  <2> QED BY <1>2, <2>1
<1>9. ASSUME Refers(r) \/ Restores(r)
      PROVE  group'[r.group] = group[r.group]
  <2>1. r.group \in Groups
    <3>1. CASE Refers(r)
      BY <1>1, <3>1 DEF Refers, RequestFits
    <3>2. CASE Restores(r)
      BY <1>1, <1>4, <1>5, <3>2 DEF CatalogChecksOf, CatalogTypeInv
    <3> QED BY <1>9, <3>1, <3>2
  <2>2. CatalogHolds(o, <<"group", r.group>>, Catalog!Share) /\ group[r.group].status = "active"
    BY <1>1, <1>9 DEF CatalogLocksOf, CatalogChecksOf
  <2> QED BY <1>2, <2>1, <2>2 DEF Catalog!Exists
<1>10. ASSUME Found(r), NEW g \in r.found
       PROVE  group'[g] = group[g]
  <2>1. g \in Groups /\ CatalogHolds(o, <<"group", g>>, Catalog!Share) /\ group[g].status = "active"
    BY <1>1, <1>10 DEF CatalogLocksOf, CatalogChecksOf, CatalogRequestRecords
  <2> QED BY <1>2, <2>1 DEF Catalog!Exists
<1>11. CatalogChecksOf(o)'
  <2>1. GroupHeld(r) => Catalog!Exists(group'[r.group])
    BY <1>8
  <2>2. GroupHeld(r) /\ r.step = "write" =>
          /\ r.op = "archive_group" /\ group'[r.group].status = "active" =>
               Catalog!TypesOf(r.group, {"active"})' = {}
          /\ r.op = "delete_group" => ~Catalog!Referred(r.group)'
    BY <1>1, <1>3, <1>8 DEF CatalogChecksOf
  <2>3. TypeHeld(r) =>
          Catalog!Exists(type'[r.type]) /\ (r.step = "share" => r.group = type'[r.type].group)
    BY <1>1, <1>4 DEF CatalogChecksOf
  <2>4. Restores(r)' => r.group = type'[r.type].group
    BY <1>1, <1>4, <1>5, <1>6 DEF CatalogChecksOf
  <2>5. Refers(r) \/ Restores(r)' => group'[r.group].status = "active"
    BY <1>1, <1>6, <1>9 DEF CatalogChecksOf
  <2>6. Found(r) => \A g \in r.found : group'[g].status = "active" /\ group'[g].code = r.code
    BY <1>1, <1>10 DEF CatalogChecksOf
  <2> QED BY <1>1, <2>1, <2>2, <2>3, <2>4, <2>5, <2>6 DEF CatalogChecksOf
<1> QED BY <1>7, <1>11

(* A statement that reads.                                                 *)
LEMMA ReadKeeps ==
  ASSUME CatalogInv, NEW q \in Handlers, UNCHANGED Catalog!dbVars, CatalogOthersWait(q),
         catalogReq' \in [Handlers -> CatalogRequestRecords],
         \A o \in Handlers : RequestFits(catalogReq'[o]),
         catalogHeld' \in [Handlers -> SUBSET (CatalogLockedRows \X Catalog!Modes)],
         Catalog!LocksCompatible(catalogHeld'), CatalogLocksOf(q)', CatalogChecksOf(q)'
  PROVE  CatalogInv'
<1>1. CatalogGuardedWrites(q)
  BY DEF CatalogGuardedWrites, Catalog!dbVars, Catalog!Referred, Catalog!TypesOf
<1>2. CatalogLockInv'
  BY <1>1, CatalogOthersKeep DEF CatalogLockInv, CatalogInv
<1>3. CatalogTypeInv'
  BY DEF CatalogInv, CatalogTypeInv, Catalog!dbVars
<1>4. CodesNameOne' /\ Catalog!TypesInUseAreOfGroupsInUse' /\ Catalog!ReferredGroupsExist'
  BY DEF CatalogInv, CodesNameOne, Catalog!TypesInUseAreOfGroupsInUse, Catalog!ReferredGroupsExist,
         Catalog!dbVars, Catalog!Referred, Catalog!TypesOf
<1> QED BY <1>2, <1>3, <1>4 DEF CatalogInv

(* The end of a transaction, which lets all of its locks go.               *)
LEMMA EndReleases ==
  ASSUME CatalogTypeInv, CatalogLockInv, NEW q \in Handlers, Catalog!End(q)
  PROVE  /\ catalogReq' \in [Handlers -> CatalogRequestRecords]
            /\ \A o \in Handlers : RequestFits(catalogReq'[o])
         /\ catalogHeld' \in [Handlers -> SUBSET (CatalogLockedRows \X Catalog!Modes)]
         /\ CatalogOthersWait(q) /\ Catalog!LocksCompatible(catalogHeld') /\ CatalogLocksOf(q)'
            /\ CatalogChecksOf(q)'
<1>1. /\ catalogReq' \in [Handlers -> CatalogRequestRecords]
         /\ \A o \in Handlers : RequestFits(catalogReq'[o])
      /\ catalogReq'[q] = Catalog!NoRequest
         /\ \A o \in Handlers \ {q} : catalogReq'[o] = catalogReq[o]
  BY NoRequestType, CatalogNewRequest DEF Catalog!End
<1>2. /\ catalogHeld' \in [Handlers -> SUBSET (CatalogLockedRows \X Catalog!Modes)]
         /\ catalogHeld'[q] = {}
      /\ \A o \in Handlers \ {q} : catalogHeld'[o] = catalogHeld[o]
  BY DEF Catalog!End, Catalog!ReleaseAll, CatalogTypeInv
<1>3. DOMAIN catalogHeld = Handlers /\ DOMAIN catalogHeld' = Handlers
  BY <1>2 DEF CatalogTypeInv
<1>4. Catalog!LocksCompatible(catalogHeld')
  BY <1>2, <1>3 DEF Catalog!LocksCompatible, CatalogLockInv
<1>5. catalogReq'[q].op = "none"
  BY <1>1 DEF Catalog!NoRequest
<1>6. CatalogLocksOf(q)' /\ CatalogChecksOf(q)'
  BY <1>5 DEF CatalogLocksOf, CatalogChecksOf, GroupHeld, TypeHeld, Refers, Restores, Found,
              Catalog!OnGroup, Catalog!OnType
<1> QED BY <1>1, <1>2, <1>4, <1>6 DEF CatalogOthersWait

(* A commit keeps the invariant if its writes are guarded and it leaves    *)
(* the rows in order.                                                      *)
LEMMA CommitKeeps ==
  ASSUME CatalogInv, NEW q \in Handlers, Catalog!End(q), CatalogGuardedWrites(q),
         group' \in [Groups -> [status : Catalog!Statuses,
                                code : Codes \cup {Catalog!AnyOf(Codes)}]],
         type' \in [Types -> [status : Catalog!Statuses,
                              group : Groups \cup {Catalog!AnyOf(Groups)}]],
         \A t \in Types : Catalog!Exists(type'[t]) => type'[t].group \in Groups,
         check' \in [Checks -> SUBSET Groups], steps' \subseteq Groups,
         CodesNameOne', Catalog!TypesInUseAreOfGroupsInUse', Catalog!ReferredGroupsExist'
  PROVE  CatalogInv'
<1>1. CatalogTypeInv'
  BY EndReleases DEF CatalogInv, CatalogTypeInv
<1>2. CatalogLockInv'
  BY EndReleases, CatalogOthersKeep DEF CatalogLockInv, CatalogInv
<1> QED BY <1>1, <1>2 DEF CatalogInv

-----------------------------------------------------------------------------
(* The operations *)

LEMMA BeginKeeps ==
  ASSUME CatalogInv, NEW q \in Handlers, NEW r \in CatalogRequestRecords, RequestFits(r),
         Catalog!Begin(q, r),
         r.step \in {"group", "share", "type", "find"}, r.step = "share" => r.op = "create_type"
  PROVE  CatalogInv'
<1>1. /\ catalogReq' \in [Handlers -> CatalogRequestRecords]
         /\ \A o \in Handlers : RequestFits(catalogReq'[o])
      /\ catalogReq'[q] = r /\ \A o \in Handlers \ {q} : catalogReq'[o] = catalogReq[o]
  BY CatalogNewRequest DEF CatalogInv, Catalog!Begin
<1>2. UNCHANGED <<Catalog!dbVars, catalogHeld>>
  BY DEF Catalog!Begin
<1>3. CatalogLocksOf(q)' /\ CatalogChecksOf(q)'
  BY <1>1 DEF CatalogLocksOf, CatalogChecksOf, GroupHeld, TypeHeld, Refers, Restores, Found,
              Catalog!OnType
<1> QED BY <1>1, <1>2, <1>3, ReadKeeps DEF CatalogInv, CatalogTypeInv, CatalogLockInv,
           CatalogOthersWait

LEMMA RequestKeeps ==
  ASSUME CatalogInv, NEW q \in Handlers,
         Catalog!RequestOnGroup(q) \/ Catalog!RequestOnType(q) \/ Catalog!RequestStart(q)
  PROVE  CatalogInv'
<1> USE DEF Catalog!Request, Catalog!OnGroup, Catalog!OnType, CatalogOperations, Steps
<1>1. ASSUME NEW g \in Groups, NEW op \in Catalog!OnGroup,
             Catalog!Begin(q, [Catalog!Request(op, "group") EXCEPT !.group = g])
      PROVE  CatalogInv'
  <2> DEFINE r == [Catalog!Request(op, "group") EXCEPT !.group = g]
  <2>1. r \in CatalogRequestRecords /\ r.step = "group" /\ r.op = op /\ r.group = g
    BY NoRequestType DEF CatalogRequestRecords
  <2> HIDE DEF r
  <2>2. RequestFits(r)
    BY <2>1 DEF RequestFits
  <2> QED BY <1>1, <2>1, <2>2, BeginKeeps DEF r
<1>2. ASSUME NEW g \in Groups,
             Catalog!Begin(q, [Catalog!Request("create_type", "share") EXCEPT !.group = g])
      PROVE  CatalogInv'
  <2> DEFINE r == [Catalog!Request("create_type", "share") EXCEPT !.group = g]
  <2>1. r \in CatalogRequestRecords /\ r.step = "share" /\ r.op = "create_type" /\ r.group = g
    BY NoRequestType DEF CatalogRequestRecords
  <2> HIDE DEF r
  <2>2. RequestFits(r)
    BY <2>1 DEF RequestFits
  <2> QED BY <1>2, <2>1, <2>2, BeginKeeps DEF r
<1>3. ASSUME NEW t \in Types, NEW op \in Catalog!OnType,
             Catalog!Begin(q, [Catalog!Request(op, "type") EXCEPT !.type = t])
      PROVE  CatalogInv'
  <2> DEFINE r == [Catalog!Request(op, "type") EXCEPT !.type = t]
  <2>1. r \in CatalogRequestRecords /\ r.step = "type" /\ r.op = op /\ r.type = t
    BY NoRequestType DEF CatalogRequestRecords
  <2> HIDE DEF r
  <2>2. RequestFits(r)
    BY <2>1 DEF RequestFits
  <2> QED BY <1>3, <2>1, <2>2, BeginKeeps DEF r
<1>4. ASSUME NEW c \in Checks, NEW code \in Codes,
             Catalog!Begin(q, [Catalog!Request("start_step", "find")
                               EXCEPT !.check = c, !.code = code])
      PROVE  CatalogInv'
  <2> DEFINE r == [Catalog!Request("start_step", "find") EXCEPT !.check = c, !.code = code]
  <2>1. r \in CatalogRequestRecords /\ r.step = "find" /\ r.op = "start_step" /\ r.check = c
    BY NoRequestType DEF CatalogRequestRecords
  <2> HIDE DEF r
  <2>2. RequestFits(r)
    BY <2>1 DEF RequestFits
  <2> QED BY <1>4, <2>1, <2>2, BeginKeeps DEF r
<1> QED BY <1>1, <1>2, <1>3, <1>4 DEF Catalog!RequestOnGroup, Catalog!RequestOnType,
           Catalog!RequestStart

LEMMA RollbackKeeps ==
  ASSUME CatalogInv, NEW q \in Handlers, Catalog!Rollback(q)
  PROVE  CatalogInv'
BY EndReleases, ReadKeeps DEF Catalog!Rollback, CatalogInv

LEMMA LockGroupKeeps ==
  ASSUME CatalogInv, NEW q \in Handlers, Catalog!LockGroup(q)
  PROVE  CatalogInv'
<1> DEFINE r == catalogReq[q]
           step == IF r.op = "restore_group" THEN "write" ELSE "look"
           row == <<"group", r.group>>
<1>1. r \in CatalogRequestRecords /\ RequestFits(r) /\ r.step = "group"
  BY DEF Catalog!LockGroup, Catalog!At, CatalogInv, CatalogTypeInv
<1>2. r.op \in Catalog!OnGroup /\ r.group \in Groups
  BY <1>1 DEF RequestFits
<1>3. Catalog!Lock(q, row, Catalog!Update) /\ Catalog!Go(q, step) /\ UNCHANGED Catalog!dbVars
      /\ Catalog!Exists(group[r.group])
  BY DEF Catalog!LockGroup
<1>4. row \in CatalogLockedRows /\ Catalog!Update \in Catalog!Modes
  BY <1>2 DEF CatalogLockedRows, Catalog!Modes
<1>5. /\ Catalog!LocksCompatible(catalogHeld')
         /\ \A o \in Handlers \ {q} : catalogHeld'[o] = catalogHeld[o]
      /\ <<row, Catalog!Update>> \in catalogHeld'[q]
      /\ catalogHeld' \in [Handlers -> SUBSET (CatalogLockedRows \X Catalog!Modes)]
  BY <1>3, <1>4, LockGrants DEF CatalogInv, CatalogLockInv
<1>6. /\ catalogReq' \in [Handlers -> CatalogRequestRecords]
         /\ \A o \in Handlers : RequestFits(catalogReq'[o])
      /\ Onward(r, catalogReq'[q], step) /\ \A o \in Handlers \ {q} : catalogReq'[o] = catalogReq[o]
  BY <1>2, <1>3, StepTo DEF CatalogInv, Steps, CatalogOperations
<1> DEFINE s == catalogReq'[q]
<1>7. s.op = r.op /\ s.group = r.group /\ s.step = step
  BY <1>6 DEF Onward
<1>8. CatalogLocksOf(q)'
  BY <1>2, <1>5, <1>7 DEF CatalogLocksOf, CatalogHolds, TypeHeld, Refers, Restores, Found,
     Catalog!OnGroup, Catalog!OnType
<1>9. CatalogChecksOf(q)'
  <2>1. Catalog!Exists(group'[s.group]) /\ (s.step = "write" => s.op = "restore_group")
    BY <1>3, <1>7 DEF Catalog!dbVars
  <2> QED BY <1>2, <1>7, <2>1 DEF CatalogChecksOf, TypeHeld, Refers, Restores, Found,
             Catalog!OnGroup, Catalog!OnType
<1> QED BY <1>3, <1>5, <1>6, <1>8, <1>9, ReadKeeps DEF CatalogOthersWait

LEMMA LookAtGroupKeeps ==
  ASSUME CatalogInv, NEW q \in Handlers, Catalog!LookAtGroup(q)
  PROVE  CatalogInv'
<1> DEFINE r == catalogReq[q]
           s == catalogReq'[q]
<1>1. /\ r \in CatalogRequestRecords /\ RequestFits(r) /\ r.step = "look" /\ CatalogLocksOf(q)
         /\ CatalogChecksOf(q)
      /\ Catalog!Go(q, "write") /\ UNCHANGED <<Catalog!dbVars, catalogHeld>>
      /\ r.op = "archive_group" /\ group[r.group].status = "active" =>
           Catalog!TypesOf(r.group, {"active"}) = {}
      /\ r.op = "delete_group" => ~Catalog!Referred(r.group)
  BY DEF Catalog!LookAtGroup, Catalog!At, CatalogInv, CatalogTypeInv, CatalogLockInv
<1>2. r.op \in Catalog!OnGroup
  BY <1>1 DEF RequestFits
<1>3. /\ catalogReq' \in [Handlers -> CatalogRequestRecords]
         /\ \A o \in Handlers : RequestFits(catalogReq'[o])
      /\ Onward(r, s, "write") /\ \A o \in Handlers \ {q} : catalogReq'[o] = catalogReq[o]
  BY <1>1, <1>2, StepTo DEF CatalogInv, Steps, CatalogOperations
<1>4. s.op = r.op /\ s.group = r.group /\ s.step = "write"
  BY <1>3 DEF Onward
<1>5. CatalogHolds(q, <<"group", r.group>>, Catalog!Update) /\ Catalog!Exists(group[r.group])
  BY <1>1, <1>2 DEF CatalogLocksOf, CatalogChecksOf, GroupHeld
<1>6. CatalogLocksOf(q)'
  BY <1>1, <1>2, <1>4, <1>5 DEF CatalogLocksOf, CatalogHolds, TypeHeld, Refers, Restores, Found,
     Catalog!OnGroup, Catalog!OnType
<1>7. CatalogChecksOf(q)'
  <2>1. UNCHANGED <<group, type, check, steps>>
    BY <1>1 DEF Catalog!dbVars
  <2> QED BY <1>1, <1>2, <1>4, <1>5, <2>1
          DEF CatalogChecksOf, Catalog!TypesOf, Catalog!Referred, TypeHeld, Refers, Restores, Found,
              Catalog!OnGroup, Catalog!OnType
<1> QED BY <1>1, <1>3, <1>6, <1>7, ReadKeeps DEF CatalogOthersWait, CatalogInv, CatalogTypeInv,
           CatalogLockInv

LEMMA WriteGroupKeeps ==
  ASSUME CatalogInv, NEW q \in Handlers, Catalog!WriteGroup(q)
  PROVE  CatalogInv'
<1> DEFINE r == catalogReq[q]
           new == CASE r.op = "archive_group" -> "archived"
                    [] r.op = "restore_group" -> "active"
                    [] OTHER -> "deleted"
<1>1. /\ RequestFits(r) /\ CatalogLocksOf(q) /\ CatalogChecksOf(q) /\ r.step = "write"
         /\ r.op \in Catalog!OnGroup
      /\ Catalog!End(q) /\ UNCHANGED <<type, check, steps>>
      /\ group' = [group EXCEPT ![r.group].status = new]
  BY DEF Catalog!WriteGroup, Catalog!At, CatalogInv, CatalogTypeInv, CatalogLockInv
<1>2. GroupHeld(r) /\ r.group \in Groups
  BY <1>1 DEF GroupHeld, RequestFits
<1>3. /\ CatalogHolds(q, <<"group", r.group>>, Catalog!Update) /\ Catalog!Exists(group[r.group])
      /\ r.op = "archive_group" /\ group[r.group].status = "active" =>
           Catalog!TypesOf(r.group, {"active"}) = {}
      /\ r.op = "delete_group" => ~Catalog!Referred(r.group)
  BY <1>1, <1>2 DEF CatalogLocksOf, CatalogChecksOf
<1>4. /\ new \in {"active", "archived", "deleted"}
      /\ new = "archived" => r.op = "archive_group"
      /\ new = "deleted" => r.op = "delete_group"
  BY <1>1 DEF Catalog!OnGroup
<1> HIDE DEF new
<1>5. /\ group' \in [Groups -> [status : Catalog!Statuses,
                                code : Codes \cup {Catalog!AnyOf(Codes)}]]
      /\ group'[r.group].status = new /\ group'[r.group].code = group[r.group].code
      /\ \A g \in Groups \ {r.group} : group'[g] = group[g]
  BY <1>1, <1>2, <1>4 DEF CatalogInv, CatalogTypeInv, Catalog!Statuses
<1> HIDE DEF r
<1>6. CatalogGuardedWrites(q)
  BY <1>1, <1>3, <1>5 DEF CatalogGuardedWrites, Catalog!Referred, Catalog!TypesOf
<1>7. CodesNameOne'
  <2>1. \A g \in Groups : Catalog!Exists(group'[g]) => Catalog!Exists(group[g])
        /\ group'[g].code = group[g].code
    BY <1>3, <1>5
  <2> QED BY <2>1 DEF CodesNameOne, CatalogInv
<1>8. Catalog!TypesInUseAreOfGroupsInUse'
  <2> SUFFICES ASSUME NEW t \in Types, type[t].status = "active"
               PROVE  group'[type[t].group].status = "active"
    BY <1>1 DEF Catalog!TypesInUseAreOfGroupsInUse
  <2>1. group[type[t].group].status = "active" /\ type[t].group \in Groups
    BY DEF CatalogInv, Catalog!TypesInUseAreOfGroupsInUse, CatalogTypeInv, Catalog!Exists
  <2>2. CASE type[t].group = r.group
    <3>1. Catalog!TypesOf(r.group, {"active"}) # {} /\ Catalog!Referred(r.group)
      BY <2>2 DEF Catalog!TypesOf, Catalog!Referred
    <3>2. new = "active"
      BY <1>3, <1>4, <2>1, <2>2, <3>1
    <3> QED BY <1>5, <2>2, <3>2
  <2>3. CASE type[t].group # r.group
    BY <1>5, <2>1, <2>3
  <2> QED BY <2>2, <2>3
<1>9. Catalog!ReferredGroupsExist'
  <2>1. \A g \in Groups : Catalog!Referred(g)' <=> Catalog!Referred(g)
    BY <1>1 DEF Catalog!Referred, Catalog!TypesOf
  <2>2. \A g \in Groups : Catalog!Referred(g) => Catalog!Exists(group'[g])
    <3>1. Catalog!Referred(r.group) => Catalog!Exists(group'[r.group])
      BY <1>3, <1>4, <1>5 DEF Catalog!Exists
    <3> QED BY <1>5, <3>1 DEF CatalogInv, Catalog!ReferredGroupsExist
  <2> QED BY <2>1, <2>2 DEF Catalog!ReferredGroupsExist
<1>10. /\ type' \in [Types -> [status : Catalog!Statuses,
                               group : Groups \cup {Catalog!AnyOf(Groups)}]]
       /\ \A t \in Types : Catalog!Exists(type'[t]) => type'[t].group \in Groups
       /\ check' \in [Checks -> SUBSET Groups] /\ steps' \subseteq Groups
  BY <1>1 DEF CatalogInv, CatalogTypeInv
<1> QED BY <1>1, <1>5, <1>6, <1>7, <1>8, <1>9, <1>10, CommitKeeps

LEMMA CreateGroupKeeps ==
  ASSUME CatalogInv, NEW g \in Groups, NEW code \in Codes, Catalog!CreateGroup(g, code)
  PROVE  CatalogInv'
<1>1. /\ group[g].status = "absent" /\ UNCHANGED <<type, check, steps, catalogHeld, catalogReq>>
      /\ \A other \in Groups : Catalog!Exists(group[other]) => group[other].code # code
      /\ group' = [group EXCEPT ![g] = [status |-> "active", code |-> code]]
  BY DEF Catalog!CreateGroup
<1>2. /\ group' \in [Groups -> [status : Catalog!Statuses,
                                code : Codes \cup {Catalog!AnyOf(Codes)}]]
      /\ group'[g].status = "active" /\ group'[g].code = code
      /\ \A h \in Groups \ {g} : group'[h] = group[h]
  BY <1>1 DEF CatalogInv, CatalogTypeInv, Catalog!Statuses
<1>3. CatalogTypeInv'
  BY <1>1, <1>2 DEF CatalogInv, CatalogTypeInv
<1>4. \A h \in Groups : Catalog!Exists(group[h]) => group'[h] = group[h]
  BY <1>1, <1>2 DEF Catalog!Exists
<1>5. ASSUME NEW q \in Handlers
      PROVE  CatalogLocksOf(q)' /\ CatalogChecksOf(q)'
  <2> DEFINE r == catalogReq[q]
  <2>1. CatalogLocksOf(q) /\ CatalogChecksOf(q) /\ RequestFits(r) /\ r \in CatalogRequestRecords
    BY DEF CatalogInv, CatalogTypeInv, CatalogLockInv
  <2>2. CatalogLocksOf(q)'
    BY <1>1, <2>1 DEF CatalogLocksOf, CatalogHolds, GroupHeld, TypeHeld, Refers, Restores, Found
  <2>3. GroupHeld(r) => group'[r.group] = group[r.group]
    BY <1>4, <2>1 DEF CatalogChecksOf, GroupHeld, RequestFits
  <2>4. Refers(r) => group'[r.group] = group[r.group]
    BY <1>4, <2>1 DEF CatalogChecksOf, Refers, RequestFits, Catalog!Exists
  <2>5. Restores(r) => group'[r.group] = group[r.group]
    <3> SUFFICES ASSUME Restores(r) PROVE group'[r.group] = group[r.group]
      OBVIOUS
    <3>1. TypeHeld(r) /\ r.type \in Types
      BY <2>1 DEF Restores, TypeHeld, Catalog!OnType, RequestFits
    <3>2. r.group \in Groups /\ group[r.group].status = "active"
      BY <2>1, <3>1 DEF CatalogChecksOf, CatalogInv, CatalogTypeInv
    <3> QED BY <1>4, <3>2 DEF Catalog!Exists
  <2>6. Found(r) => \A h \in r.found : group'[h] = group[h]
    BY <1>4, <2>1 DEF CatalogChecksOf, CatalogRequestRecords, Catalog!Exists
  <2>7. CatalogChecksOf(q)'
    BY <1>1, <2>1, <2>3, <2>4, <2>5, <2>6
       DEF CatalogChecksOf, GroupHeld, TypeHeld, Refers, Restores, Found, Catalog!TypesOf,
           Catalog!Referred
  <2> QED BY <2>2, <2>7
<1>6. CodesNameOne' /\ Catalog!TypesInUseAreOfGroupsInUse' /\ Catalog!ReferredGroupsExist'
  <2>1. CodesNameOne'
    BY <1>1, <1>2 DEF CatalogInv, CodesNameOne
  <2>2. Catalog!TypesInUseAreOfGroupsInUse'
    BY <1>1, <1>4 DEF CatalogInv, Catalog!TypesInUseAreOfGroupsInUse, CatalogTypeInv, Catalog!Exists
  <2>3. Catalog!ReferredGroupsExist'
    BY <1>1, <1>4 DEF CatalogInv, Catalog!ReferredGroupsExist, Catalog!Referred, Catalog!TypesOf
  <2> QED BY <2>1, <2>2, <2>3
<1> QED BY <1>1, <1>3, <1>5, <1>6 DEF CatalogInv, CatalogLockInv

LEMMA LockTypeKeeps ==
  ASSUME CatalogInv, NEW q \in Handlers, Catalog!LockType(q)
  PROVE  CatalogInv'
<1> DEFINE r == catalogReq[q]
           row == <<"type", r.type>>
           s == catalogReq'[q]
<1>1. r \in CatalogRequestRecords /\ RequestFits(r) /\ r.step = "type"
  BY DEF Catalog!LockType, Catalog!At, CatalogInv, CatalogTypeInv
<1>2. r.op \in Catalog!OnType /\ r.type \in Types
  BY <1>1 DEF RequestFits
<1>3. Catalog!Lock(q, row, Catalog!Update) /\ UNCHANGED Catalog!dbVars
      /\ Catalog!Exists(type[r.type])
  BY DEF Catalog!LockType
<1>4. row \in CatalogLockedRows /\ Catalog!Update \in Catalog!Modes
  BY <1>2 DEF CatalogLockedRows, Catalog!Modes
<1>5. /\ Catalog!LocksCompatible(catalogHeld')
         /\ \A o \in Handlers \ {q} : catalogHeld'[o] = catalogHeld[o]
      /\ <<row, Catalog!Update>> \in catalogHeld'[q]
      /\ catalogHeld' \in [Handlers -> SUBSET (CatalogLockedRows \X Catalog!Modes)]
  BY <1>3, <1>4, LockGrants DEF CatalogInv, CatalogLockInv
<1>6. CASE r.op = "restore_type" /\ type[r.type].status = "archived"
  <2> DEFINE n == [r EXCEPT !.step = "share", !.group = type[r.type].group]
  <2>1. type[r.type].group \in Groups
    BY <1>2, <1>3 DEF CatalogInv, CatalogTypeInv
  <2>2. catalogReq' = [catalogReq EXCEPT ![q] = n]
    BY <1>6 DEF Catalog!LockType, CatalogInv, CatalogTypeInv
  <2>3. /\ n \in CatalogRequestRecords /\ n.step = "share" /\ n.op = "restore_type"
           /\ n.type = r.type
        /\ n.group = type[r.type].group
    BY <1>1, <1>6, <2>1 DEF CatalogRequestRecords, Steps
  <2> HIDE DEF n
  <2>4. RequestFits(n)
    BY <1>2, <2>1, <2>3 DEF RequestFits, Catalog!OnGroup
  <2>5. /\ catalogReq' \in [Handlers -> CatalogRequestRecords]
           /\ \A o \in Handlers : RequestFits(catalogReq'[o])
        /\ s = n /\ \A o \in Handlers \ {q} : catalogReq'[o] = catalogReq[o]
    BY <2>2, <2>3, <2>4, CatalogNewRequest DEF CatalogInv
  <2>6. CatalogLocksOf(q)'
    BY <1>5, <2>3, <2>5 DEF CatalogLocksOf, CatalogHolds, GroupHeld, Refers, Restores, Found,
       Catalog!OnGroup
  <2>7. CatalogChecksOf(q)'
    BY <1>3, <2>3, <2>5 DEF CatalogChecksOf, GroupHeld, Refers, Restores, Found, Catalog!OnGroup,
       Catalog!dbVars
  <2> QED BY <1>3, <1>5, <2>5, <2>6, <2>7, ReadKeeps DEF CatalogOthersWait
<1>7. CASE ~(r.op = "restore_type" /\ type[r.type].status = "archived")
  <2>1. Catalog!Go(q, "write")
    BY <1>7 DEF Catalog!LockType
  <2>2. /\ catalogReq' \in [Handlers -> CatalogRequestRecords]
           /\ \A o \in Handlers : RequestFits(catalogReq'[o])
        /\ Onward(r, s, "write") /\ \A o \in Handlers \ {q} : catalogReq'[o] = catalogReq[o]
    BY <1>2, <2>1, StepTo DEF CatalogInv, Steps, CatalogOperations
  <2>3. s.op = r.op /\ s.type = r.type /\ s.step = "write"
    BY <2>2 DEF Onward
  <2>4. ~Restores(catalogReq[q])' /\ ~Refers(s) /\ ~Found(s) /\ ~GroupHeld(s)
    BY <1>2, <1>3, <1>7, <2>3 DEF Restores, Refers, Found, GroupHeld, Catalog!OnType,
       Catalog!OnGroup, Catalog!dbVars
  <2>5. CatalogLocksOf(q)'
    BY <1>5, <2>3, <2>4 DEF CatalogLocksOf, CatalogHolds
  <2>6. CatalogChecksOf(q)'
    <3>1. Catalog!Exists(type'[s.type])
      BY <1>3, <2>3 DEF Catalog!dbVars
    <3> QED BY <2>3, <2>4, <3>1 DEF CatalogChecksOf
  <2> QED BY <1>3, <1>5, <2>2, <2>5, <2>6, ReadKeeps DEF CatalogOthersWait
<1> QED BY <1>6, <1>7

LEMMA ShareGroupKeeps ==
  ASSUME CatalogInv, NEW q \in Handlers, Catalog!ShareGroup(q)
  PROVE  CatalogInv'
<1> DEFINE r == catalogReq[q]
           row == <<"group", r.group>>
           s == catalogReq'[q]
<1>1. /\ r \in CatalogRequestRecords /\ RequestFits(r) /\ r.step = "share" /\ CatalogLocksOf(q)
         /\ CatalogChecksOf(q)
      /\ r.op \in {"create_type", "restore_type"} /\ r.group \in Groups
  BY DEF Catalog!ShareGroup, Catalog!At, CatalogInv, CatalogTypeInv, CatalogLockInv, RequestFits
<1>2. Catalog!Lock(q, row, Catalog!Share) /\ Catalog!Go(q, "write") /\ UNCHANGED Catalog!dbVars
      /\ group[r.group].status = "active"
  BY DEF Catalog!ShareGroup, Catalog!SharesGroup
<1>3. row \in CatalogLockedRows /\ Catalog!Share \in Catalog!Modes
  BY <1>1 DEF CatalogLockedRows, Catalog!Modes
<1>4. /\ Catalog!LocksCompatible(catalogHeld')
         /\ \A o \in Handlers \ {q} : catalogHeld'[o] = catalogHeld[o]
      /\ <<row, Catalog!Share>> \in catalogHeld'[q] /\ catalogHeld[q] \subseteq catalogHeld'[q]
      /\ catalogHeld' \in [Handlers -> SUBSET (CatalogLockedRows \X Catalog!Modes)]
  BY <1>2, <1>3, LockGrants DEF CatalogInv, CatalogLockInv
<1>5. /\ catalogReq' \in [Handlers -> CatalogRequestRecords]
         /\ \A o \in Handlers : RequestFits(catalogReq'[o])
      /\ Onward(r, s, "write") /\ \A o \in Handlers \ {q} : catalogReq'[o] = catalogReq[o]
  BY <1>1, <1>2, StepTo DEF CatalogInv, Steps, CatalogOperations, Catalog!OnType
<1>6. s.op = r.op /\ s.type = r.type /\ s.group = r.group /\ s.step = "write"
  BY <1>5 DEF Onward
<1>7. ~Found(s) /\ ~GroupHeld(s)
  BY <1>1, <1>6 DEF Found, GroupHeld, Catalog!OnGroup
<1>8. TypeHeld(s) => TypeHeld(r)
  BY <1>1, <1>6 DEF TypeHeld
<1>9. CatalogLocksOf(q)'
  BY <1>1, <1>4, <1>6, <1>7, <1>8 DEF CatalogLocksOf, CatalogHolds
<1>10. CatalogChecksOf(q)'
  <2>1. TypeHeld(s) => Catalog!Exists(type[s.type]) /\ s.group = type[s.type].group
    BY <1>1, <1>6, <1>8 DEF CatalogChecksOf
  <2>2. Restores(catalogReq[q])' => TypeHeld(s)
    BY <1>6 DEF Restores, TypeHeld, Catalog!OnType
  <2>3. group' = group /\ type' = type
    BY <1>2 DEF Catalog!dbVars
  <2> QED BY <1>2, <1>6, <1>7, <2>1, <2>2, <2>3 DEF CatalogChecksOf
<1> QED BY <1>2, <1>4, <1>5, <1>9, <1>10, ReadKeeps DEF CatalogOthersWait

(* A type that comes to be in use is of the group that is shared.          *)
LEMMA NewTypeKeeps ==
  ASSUME CatalogInv, NEW q \in Handlers, Catalog!End(q), UNCHANGED <<group, check, steps>>,
         NEW t \in Types, NEW n \in [status : Catalog!Statuses,
                                     group : Groups \cup {Catalog!AnyOf(Groups)}],
         type' = [type EXCEPT ![t] = n], Catalog!Exists(n) => n.group \in Groups,
         Catalog!Exists(type[t]) => CatalogHolds(q, <<"type", t>>, Catalog!Update),
         Catalog!Exists(n) =>
           \/ Catalog!Exists(type[t]) /\ type[t].group = n.group
           \/ CatalogHolds(q, <<"group", n.group>>, Catalog!Share),
         n.status = "active" =>
           \/ type[t].status = "active" /\ type[t].group = n.group
           \/ CatalogHolds(q, <<"group", n.group>>, Catalog!Share)
              /\ group[n.group].status = "active",
         Catalog!Exists(n) => Catalog!Exists(group[n.group])
  PROVE  CatalogInv'
<1>1. /\ type' \in [Types -> [status : Catalog!Statuses,
                              group : Groups \cup {Catalog!AnyOf(Groups)}]]
      /\ type'[t] = n /\ \A x \in Types \ {t} : type'[x] = type[x]
  BY DEF CatalogInv, CatalogTypeInv
<1>2. /\ \A x \in Types : Catalog!Exists(type'[x]) => type'[x].group \in Groups
      /\ group' \in [Groups -> [status : Catalog!Statuses,
                                code : Codes \cup {Catalog!AnyOf(Codes)}]]
      /\ check' \in [Checks -> SUBSET Groups] /\ steps' \subseteq Groups
  BY <1>1 DEF CatalogInv, CatalogTypeInv
<1>3. ASSUME NEW g \in Groups, Catalog!Referred(g)'
      PROVE  Catalog!Referred(g) \/ (Catalog!Exists(n) /\ n.group = g)
  BY <1>1, <1>3 DEF Catalog!Referred, Catalog!TypesOf, Catalog!Exists
<1>4. ASSUME NEW g \in Groups, ~Catalog!Referred(g), Catalog!Exists(n), n.group = g
      PROVE  CatalogHolds(q, <<"group", g>>, Catalog!Share)
  BY <1>4 DEF Catalog!Referred, Catalog!TypesOf, Catalog!Exists
<1>5. ASSUME NEW g \in Groups, Catalog!TypesOf(g, {"active"}) = {},
             Catalog!TypesOf(g, {"active"})' # {}
      PROVE  CatalogHolds(q, <<"group", g>>, Catalog!Share)
  <2>1. PICK x \in Types : type'[x].group = g /\ type'[x].status = "active"
    BY <1>5 DEF Catalog!TypesOf
  <2>2. ~(type[x].group = g /\ type[x].status = "active")
    BY <1>5 DEF Catalog!TypesOf
  <2> QED BY <1>1, <2>1, <2>2
<1>6. CatalogGuardedWrites(q)
  BY <1>1, <1>3, <1>4, <1>5 DEF CatalogGuardedWrites
<1>7. CodesNameOne'
  BY DEF CatalogInv, CodesNameOne
<1>8. Catalog!TypesInUseAreOfGroupsInUse'
  BY <1>1 DEF CatalogInv, Catalog!TypesInUseAreOfGroupsInUse
<1>9. Catalog!ReferredGroupsExist'
  BY <1>3 DEF CatalogInv, Catalog!ReferredGroupsExist
<1> QED BY <1>1, <1>2, <1>6, <1>7, <1>8, <1>9, CommitKeeps

LEMMA CreateTypeKeeps ==
  ASSUME CatalogInv, NEW q \in Handlers, Catalog!CreateType(q)
  PROVE  CatalogInv'
<1> DEFINE r == catalogReq[q]
           n == [status |-> "active", group |-> r.group]
<1>1. /\ RequestFits(r) /\ CatalogLocksOf(q) /\ CatalogChecksOf(q) /\ r.step = "write"
         /\ r.op = "create_type"
      /\ Catalog!End(q) /\ UNCHANGED <<group, check, steps>>
  BY DEF Catalog!CreateType, Catalog!At, CatalogInv, CatalogTypeInv, CatalogLockInv
<1>2. PICK t \in Types : type[t].status = "absent" /\ type' = [type EXCEPT ![t] = n]
  BY DEF Catalog!CreateType
<1>3. /\ r.group \in Groups /\ CatalogHolds(q, <<"group", r.group>>, Catalog!Share)
         /\ group[r.group].status = "active"
  BY <1>1 DEF RequestFits, CatalogLocksOf, CatalogChecksOf, Refers
<1>4. /\ n \in [status : Catalog!Statuses, group : Groups \cup {Catalog!AnyOf(Groups)}]
      /\ n.group = r.group /\ n.status = "active"
  BY <1>3 DEF Catalog!Statuses
<1>5. ~Catalog!Exists(type[t])
  BY <1>2 DEF Catalog!Exists
<1>6. Catalog!Exists(group[r.group])
  BY <1>3 DEF Catalog!Exists
<1> HIDE DEF n, r
<1> QED BY <1>1, <1>2, <1>3, <1>4, <1>5, <1>6, NewTypeKeeps

LEMMA WriteTypeKeeps ==
  ASSUME CatalogInv, NEW q \in Handlers, Catalog!WriteType(q)
  PROVE  CatalogInv'
<1> DEFINE r == catalogReq[q]
           t == r.type
           status == CASE r.op = "archive_type" -> "archived"
                       [] r.op = "restore_type" -> "active"
                       [] OTHER -> "deleted"
           n == [type[t] EXCEPT !.status = status]
<1>1. /\ RequestFits(r) /\ CatalogLocksOf(q) /\ CatalogChecksOf(q) /\ r.step = "write"
         /\ r.op \in Catalog!OnType
      /\ Catalog!End(q) /\ UNCHANGED <<group, check, steps>>
  BY DEF Catalog!WriteType, Catalog!At, CatalogInv, CatalogTypeInv, CatalogLockInv
<1>2. TypeHeld(r) /\ t \in Types
  BY <1>1 DEF TypeHeld, RequestFits
<1>3. CatalogHolds(q, <<"type", t>>, Catalog!Update) /\ Catalog!Exists(type[t])
  BY <1>1, <1>2 DEF CatalogLocksOf, CatalogChecksOf
<1>4. type' = [type EXCEPT ![t] = n]
  BY DEF Catalog!WriteType
<1>5. /\ status \in {"active", "archived", "deleted"}
      /\ status = "active" => r.op = "restore_type"
  BY <1>1 DEF Catalog!OnType
<1> HIDE DEF status
<1>6. /\ n \in [status : Catalog!Statuses, group : Groups \cup {Catalog!AnyOf(Groups)}]
      /\ n.group = type[t].group /\ n.status = status
  BY <1>2, <1>5 DEF CatalogInv, CatalogTypeInv, Catalog!Statuses
<1>7. type[t].group \in Groups
  BY <1>2, <1>3 DEF CatalogInv, CatalogTypeInv
<1>8. status = "active" =>
        \/ type[t].status = "active"
        \/ CatalogHolds(q, <<"group", type[t].group>>, Catalog!Share)
           /\ group[type[t].group].status = "active"
  <2>1. status = "active" /\ type[t].status # "active" => Restores(r)
    BY <1>1, <1>3, <1>5 DEF Restores, Catalog!Exists
  <2> QED BY <1>1, <2>1 DEF CatalogLocksOf, CatalogChecksOf
<1>9. Catalog!Exists(group[type[t].group])
  <2>1. Catalog!Referred(type[t].group)
    BY <1>2, <1>3 DEF Catalog!Referred, Catalog!TypesOf, Catalog!Exists
  <2> QED BY <1>7, <2>1 DEF CatalogInv, Catalog!ReferredGroupsExist
<1> HIDE DEF n, t
<1> QED BY <1>1, <1>2, <1>3, <1>4, <1>6, <1>7, <1>8, <1>9, NewTypeKeeps

LEMMA FindGroupKeeps ==
  ASSUME CatalogInv, NEW q \in Handlers, Catalog!FindGroup(q)
  PROVE  CatalogInv'
<1> DEFINE r == catalogReq[q]
           named == {g \in Groups : Catalog!Exists(group[g]) /\ group[g].code = r.code}
           active == {g \in named : group[g].status = "active"}
           n == [r EXCEPT !.step = "check", !.found = active]
           s == catalogReq'[q]
<1>1. /\ r \in CatalogRequestRecords /\ RequestFits(r) /\ r.step = "find" /\ r.op = "start_step"
      /\ UNCHANGED Catalog!dbVars
  BY DEF Catalog!FindGroup, Catalog!At, CatalogInv, CatalogTypeInv, RequestFits
<1>2. catalogReq' = [catalogReq EXCEPT ![q] = n]
  BY DEF Catalog!FindGroup, Catalog!Named, CatalogInv, CatalogTypeInv
<1>3. /\ n \in CatalogRequestRecords /\ n.step = "check" /\ n.op = "start_step" /\ n.check = r.check
      /\ n.code = r.code /\ n.found = active
  BY <1>1 DEF CatalogRequestRecords, Steps
<1> HIDE DEF n
<1>4. RequestFits(n)
  BY <1>1, <1>3 DEF RequestFits, Catalog!OnGroup, Catalog!OnType
<1>5. /\ catalogReq' \in [Handlers -> CatalogRequestRecords]
         /\ \A o \in Handlers : RequestFits(catalogReq'[o])
      /\ s = n /\ \A o \in Handlers \ {q} : catalogReq'[o] = catalogReq[o]
  BY <1>2, <1>3, <1>4, CatalogNewRequest DEF CatalogInv
<1>6. /\ Catalog!LocksCompatible(catalogHeld')
         /\ \A o \in Handlers \ {q} : catalogHeld'[o] = catalogHeld[o]
      /\ catalogHeld' \in [Handlers -> SUBSET (CatalogLockedRows \X Catalog!Modes)]
      /\ \A g \in named : <<<<"group", g>>, Catalog!Share>> \in catalogHeld'[q]
  <2>1. CASE named = {} /\ UNCHANGED catalogHeld
    BY <2>1 DEF CatalogInv, CatalogTypeInv, CatalogLockInv
  <2>2. CASE \E g \in named : Catalog!SharesGroup(q, g)
    <3>1. PICK g \in named : Catalog!Lock(q, <<"group", g>>, Catalog!Share)
      BY <2>2 DEF Catalog!SharesGroup
    <3>2. <<"group", g>> \in CatalogLockedRows /\ Catalog!Share \in Catalog!Modes
      BY DEF CatalogLockedRows, Catalog!Modes
    <3>3. \A h \in named : h = g
      BY DEF CatalogInv, CodesNameOne
    <3> HIDE DEF named
    <3> QED BY <3>1, <3>2, <3>3, LockGrants DEF CatalogInv, CatalogLockInv
  <2> QED BY <2>1, <2>2 DEF Catalog!FindGroup, Catalog!Named
<1>7. CatalogLocksOf(q)'
  BY <1>3, <1>5, <1>6 DEF CatalogLocksOf, CatalogHolds, GroupHeld, TypeHeld, Refers, Restores,
     Found, Catalog!OnGroup, Catalog!OnType
<1>8. CatalogChecksOf(q)'
  <2>1. \A g \in s.found : group'[g].status = "active" /\ group'[g].code = s.code
    BY <1>1, <1>3, <1>5 DEF Catalog!dbVars
  <2> QED BY <1>3, <1>5, <2>1 DEF CatalogChecksOf, GroupHeld, TypeHeld, Refers, Restores, Found,
             Catalog!OnGroup, Catalog!OnType
<1> QED BY <1>1, <1>5, <1>6, <1>7, <1>8, ReadKeeps DEF CatalogOthersWait

LEMMA LockCheckKeeps ==
  ASSUME CatalogInv, NEW q \in Handlers, Catalog!LockCheck(q)
  PROVE  CatalogInv'
<1> DEFINE r == catalogReq[q]
           row == <<"check", r.check>>
           s == catalogReq'[q]
<1>1. /\ r \in CatalogRequestRecords /\ RequestFits(r) /\ r.step = "check" /\ r.op = "start_step"
      /\ r.check \in Checks /\ CatalogLocksOf(q) /\ CatalogChecksOf(q)
  BY DEF Catalog!LockCheck, Catalog!At, CatalogInv, CatalogTypeInv, CatalogLockInv, RequestFits
<1>2. Catalog!Lock(q, row, Catalog!Update) /\ Catalog!Go(q, "write") /\ UNCHANGED Catalog!dbVars
  BY DEF Catalog!LockCheck
<1>3. row \in CatalogLockedRows /\ Catalog!Update \in Catalog!Modes
  BY <1>1 DEF CatalogLockedRows, Catalog!Modes
<1>4. /\ Catalog!LocksCompatible(catalogHeld')
         /\ \A o \in Handlers \ {q} : catalogHeld'[o] = catalogHeld[o]
      /\ catalogHeld[q] \subseteq catalogHeld'[q]
      /\ catalogHeld' \in [Handlers -> SUBSET (CatalogLockedRows \X Catalog!Modes)]
  BY <1>2, <1>3, LockGrants DEF CatalogInv, CatalogLockInv
<1>5. /\ catalogReq' \in [Handlers -> CatalogRequestRecords]
         /\ \A o \in Handlers : RequestFits(catalogReq'[o])
      /\ Onward(r, s, "write") /\ \A o \in Handlers \ {q} : catalogReq'[o] = catalogReq[o]
  BY <1>1, <1>2, StepTo DEF CatalogInv, Steps, CatalogOperations
<1>6. s.op = r.op /\ s.found = r.found /\ s.code = r.code
  BY <1>5 DEF Onward
<1>7. \A g \in r.found : /\ CatalogHolds(q, <<"group", g>>, Catalog!Share)
                         /\ group[g].status = "active" /\ group[g].code = r.code
  BY <1>1 DEF CatalogLocksOf, CatalogChecksOf, Found
<1>8. CatalogLocksOf(q)'
  BY <1>1, <1>4, <1>6, <1>7 DEF CatalogLocksOf, CatalogHolds, GroupHeld, TypeHeld, Refers, Restores,
     Catalog!OnGroup, Catalog!OnType
<1>9. CatalogChecksOf(q)'
  BY <1>1, <1>2, <1>6, <1>7 DEF CatalogChecksOf, GroupHeld, TypeHeld, Refers, Restores,
     Catalog!OnGroup, Catalog!OnType, Catalog!dbVars
<1> QED BY <1>2, <1>4, <1>5, <1>8, <1>9, ReadKeeps DEF CatalogOthersWait

LEMMA WriteStartKeeps ==
  ASSUME CatalogInv, NEW q \in Handlers, Catalog!WriteStart(q)
  PROVE  CatalogInv'
<1> DEFINE r == catalogReq[q]
<1>1. /\ r \in CatalogRequestRecords /\ RequestFits(r) /\ CatalogLocksOf(q) /\ CatalogChecksOf(q)
      /\ r.step = "write" /\ r.op = "start_step" /\ Catalog!End(q) /\ UNCHANGED <<group, type>>
      /\ check' = [check EXCEPT ![r.check] = r.found] /\ steps' = steps \cup r.found
  BY DEF Catalog!WriteStart, Catalog!At, CatalogInv, CatalogTypeInv, CatalogLockInv
<1>2. r.check \in Checks /\ r.found \subseteq Groups
  BY <1>1 DEF RequestFits, CatalogRequestRecords
<1>3. \A g \in r.found : CatalogHolds(q, <<"group", g>>, Catalog!Share)
      /\ group[g].status = "active"
  BY <1>1 DEF CatalogLocksOf, CatalogChecksOf, Found
<1> HIDE DEF r
<1>4. /\ check' \in [Checks -> SUBSET Groups] /\ steps' \subseteq Groups
      /\ check'[r.check] = r.found /\ \A c \in Checks \ {r.check} : check'[c] = check[c]
  BY <1>1, <1>2 DEF CatalogInv, CatalogTypeInv
<1>5. \A g \in Groups : Catalog!Referred(g)' => Catalog!Referred(g) \/ g \in r.found
  BY <1>1, <1>4 DEF Catalog!Referred, Catalog!TypesOf
<1>6. CatalogGuardedWrites(q)
  BY <1>1, <1>3, <1>5 DEF CatalogGuardedWrites, Catalog!TypesOf
<1>7. /\ group' \in [Groups -> [status : Catalog!Statuses,
                                code : Codes \cup {Catalog!AnyOf(Codes)}]]
      /\ type' \in [Types -> [status : Catalog!Statuses,
                              group : Groups \cup {Catalog!AnyOf(Groups)}]]
      /\ \A t \in Types : Catalog!Exists(type'[t]) => type'[t].group \in Groups
  BY <1>1 DEF CatalogInv, CatalogTypeInv
<1>8. CodesNameOne' /\ Catalog!TypesInUseAreOfGroupsInUse'
  BY <1>1 DEF CatalogInv, CodesNameOne, Catalog!TypesInUseAreOfGroupsInUse
<1>9. Catalog!ReferredGroupsExist'
  BY <1>1, <1>3, <1>5 DEF CatalogInv, Catalog!ReferredGroupsExist, Catalog!Exists
<1> QED BY <1>1, <1>4, <1>6, <1>7, <1>8, <1>9, CommitKeeps

-----------------------------------------------------------------------------
(* The invariant holds *)

LEMMA CatalogInit == Catalog!Init => CatalogInv
<1> SUFFICES ASSUME Catalog!Init PROVE CatalogInv
  OBVIOUS
<1>1. \A g \in Groups : ~Catalog!Exists(group[g])
  BY DEF Catalog!Init, Catalog!Exists
<1>2. \A t \in Types : type[t].status = "absent" /\ ~Catalog!Exists(type[t])
  BY DEF Catalog!Init, Catalog!Exists
<1>3. CatalogTypeInv
  BY <1>2, NoRequestType DEF Catalog!Init, CatalogTypeInv, Catalog!Statuses
<1>4. ASSUME NEW q \in Handlers
      PROVE  CatalogLocksOf(q) /\ CatalogChecksOf(q)
  <2>1. catalogReq[q].op = "none"
    BY DEF Catalog!Init, Catalog!NoRequest
  <2> QED BY <2>1 DEF CatalogLocksOf, CatalogChecksOf, GroupHeld, TypeHeld, Refers, Restores, Found,
                      Catalog!OnGroup, Catalog!OnType
<1>5. CatalogLockInv
  BY <1>4 DEF Catalog!Init, CatalogLockInv, Catalog!LocksCompatible
<1>6. \A g \in Groups : ~Catalog!Referred(g)
  BY <1>2 DEF Catalog!Init, Catalog!Referred, Catalog!TypesOf
<1> QED BY <1>1, <1>2, <1>3, <1>5, <1>6
        DEF CatalogInv, CodesNameOne, Catalog!TypesInUseAreOfGroupsInUse,
            Catalog!ReferredGroupsExist

LEMMA StutterKeeps == CatalogInv /\ UNCHANGED Catalog!vars => CatalogInv'
<1> SUFFICES ASSUME CatalogInv, UNCHANGED Catalog!vars PROVE CatalogInv'
  OBVIOUS
<1> USE DEF Catalog!vars, Catalog!dbVars
<1>1. CatalogTypeInv'
  BY DEF CatalogInv, CatalogTypeInv
<1>2. CatalogLockInv'
  BY DEF CatalogInv, CatalogLockInv, CatalogLocksOf, CatalogChecksOf, CatalogHolds, GroupHeld,
         TypeHeld, Refers, Restores, Found,
         Catalog!TypesOf, Catalog!Referred
<1> QED BY <1>1, <1>2 DEF CatalogInv, CodesNameOne, Catalog!TypesInUseAreOfGroupsInUse,
           Catalog!ReferredGroupsExist,
                          Catalog!TypesOf, Catalog!Referred

LEMMA CatalogStep == CatalogInv /\ [Catalog!Next]_(Catalog!vars) => CatalogInv'
<1> SUFFICES ASSUME CatalogInv, Catalog!Next PROVE CatalogInv'
  BY StutterKeeps
<1>1. ASSUME NEW q \in Handlers, Catalog!Proceed(q)
      PROVE  CatalogInv'
  BY <1>1, LockGroupKeeps, LookAtGroupKeeps, WriteGroupKeeps, LockTypeKeeps, ShareGroupKeeps,
     CreateTypeKeeps, WriteTypeKeeps, FindGroupKeeps, LockCheckKeeps, WriteStartKeeps
     DEF Catalog!Proceed
<1> QED BY <1>1, CreateGroupKeeps, RequestKeeps, RollbackKeeps DEF Catalog!Next

LEMMA CatalogHoldsAlways == Catalog!Spec => []CatalogInv
BY CatalogInit, CatalogStep, PTL DEF Catalog!Spec

(* The rows and the references are typed, the locks compatible.  Where     *)
(* there is nothing to refer to, the fields of absent rows hold no group   *)
(* and no code.                                                            *)
THEOREM CatalogIsTyped ==
  ASSUME Groups # {}, Codes # {}
  PROVE  Catalog!Spec => []Catalog!TypeOK
<1>1. ASSUME CatalogInv
      PROVE  Catalog!TypeOK
  <2>1. Codes \cup {Catalog!AnyOf(Codes)} = Codes /\ Groups \cup {Catalog!AnyOf(Groups)} = Groups
    BY DEF Catalog!AnyOf
  <2>2. /\ group \in [Groups -> [status : Catalog!Statuses, code : Codes]]
        /\ type \in [Types -> [status : Catalog!Statuses, group : Groups]]
    BY <1>1, <2>1 DEF CatalogInv, CatalogTypeInv
  <2> QED BY <1>1, <2>2 DEF Catalog!TypeOK, CatalogInv, CatalogTypeInv, CatalogLockInv
<1>2. CatalogInv => Catalog!TypeOK
  BY <1>1
<1> QED BY <1>2, CatalogHoldsAlways, PTL

(* Whatever refers to a group of defects may rely on it: no type in use is *)
(* of a group that is not, a group that anything refers to is there, and   *)
(* a start of a step records a group that is in use when it commits.       *)
THEOREM GroupsAreReliable == Catalog!Spec => Catalog!GroupsCanBeReliedOn
<1> DEFINE Recorded == \A q \in Handlers : Catalog!WriteStart(q) =>
       \A g \in catalogReq[q].found : group[g].status = "active"
       /\ group[g].code = catalogReq[q].code
<1>1. CatalogInv => [Recorded]_(Catalog!vars)
  <2> SUFFICES ASSUME CatalogInv, NEW q \in Handlers, Catalog!WriteStart(q),
                      NEW g \in catalogReq[q].found
               PROVE  group[g].status = "active" /\ group[g].code = catalogReq[q].code
    OBVIOUS
  <2>1. CatalogChecksOf(q) /\ Found(catalogReq[q])
    BY DEF CatalogInv, CatalogLockInv, Catalog!WriteStart, Catalog!At, Found
  <2> QED BY <2>1 DEF CatalogChecksOf
<1>2. Catalog!Spec => Catalog!StartsRecordActiveGroups
  BY <1>1, CatalogHoldsAlways, PTL DEF Catalog!Spec, Catalog!StartsRecordActiveGroups
<1>3. CatalogInv => Catalog!TypesInUseAreOfGroupsInUse /\ Catalog!ReferredGroupsExist
  BY DEF CatalogInv
<1>4. Catalog!Spec => [](Catalog!TypesInUseAreOfGroupsInUse /\ Catalog!ReferredGroupsExist)
  BY <1>3, CatalogHoldsAlways, PTL
<1> QED BY <1>2, <1>4 DEF Catalog!GroupsCanBeReliedOn

-----------------------------------------------------------------------------
(* Why no request to the catalog is ended for a deadlock.  Whoever waits   *)
(* for a check holds no check, whoever waits for a group to share it holds *)
(* neither a group nor a check, and all others that wait hold nothing.     *)

CatalogWaitingHolds(q) ==
  LET r == catalogReq[q]
  IN /\ r.step \in {"idle", "group", "type", "find"} => catalogHeld[q] = {}
     /\ r.step \in {"share", "check"} =>
          \A c \in Checks, m \in Catalog!Modes : ~CatalogHolds(q, <<"check", c>>, m)
     /\ r.step = "share" =>
          \A g \in Groups, m \in Catalog!Modes : ~CatalogHolds(q, <<"group", g>>, m)

CatalogWaitInv == \A q \in Handlers : CatalogWaitingHolds(q)

LEMMA CatalogOthersStillWait ==
  ASSUME CatalogWaitInv, NEW q \in Handlers, CatalogOthersWait(q), CatalogWaitingHolds(q)'
  PROVE  CatalogWaitInv'
BY DEF CatalogWaitInv, CatalogOthersWait, CatalogWaitingHolds, CatalogHolds

LEMMA CatalogBeginWaits ==
  ASSUME CatalogTypeInv, CatalogWaitInv, NEW q \in Handlers, NEW r, Catalog!Begin(q, r)
  PROVE  CatalogWaitInv'
<1>1. catalogHeld'[q] = {} /\ CatalogOthersWait(q)
  BY DEF CatalogTypeInv, CatalogWaitInv, CatalogWaitingHolds, CatalogOthersWait, Catalog!Begin,
         Catalog!At
<1>2. CatalogWaitingHolds(q)'
  BY <1>1 DEF CatalogWaitingHolds, CatalogHolds
<1> QED BY <1>1, <1>2, CatalogOthersStillWait

LEMMA CatalogWaitStep ==
  CatalogTypeInv /\ CatalogTypeInv' /\ CatalogWaitInv /\ [Catalog!Next]_(Catalog!vars) => CatalogWaitInv'
<1> SUFFICES ASSUME CatalogTypeInv, CatalogTypeInv', CatalogWaitInv, [Catalog!Next]_(Catalog!vars)
             PROVE  CatalogWaitInv'
  OBVIOUS
<1>1. ASSUME NEW q \in Handlers,
             Catalog!RequestOnGroup(q) \/ Catalog!RequestOnType(q) \/ Catalog!RequestStart(q)
      PROVE  CatalogWaitInv'
  BY <1>1, CatalogBeginWaits DEF Catalog!RequestOnGroup, Catalog!RequestOnType, Catalog!RequestStart
<1>2. ASSUME NEW q \in Handlers, Catalog!End(q)
      PROVE  CatalogWaitInv'
  <2>1. catalogHeld'[q] = {} /\ CatalogOthersWait(q)
    BY <1>2 DEF CatalogTypeInv, CatalogOthersWait, Catalog!End, Catalog!ReleaseAll
  <2>2. CatalogWaitingHolds(q)'
    BY <2>1 DEF CatalogWaitingHolds, CatalogHolds
  <2> QED BY <2>1, <2>2, CatalogOthersStillWait
<1>3. ASSUME NEW q \in Handlers, CatalogOthersWait(q), catalogReq'[q].step \in {"look", "write"}
      PROVE  CatalogWaitInv'
  <2>1. CatalogWaitingHolds(q)'
    BY <1>3 DEF CatalogWaitingHolds
  <2> QED BY <1>3, <2>1, CatalogOthersStillWait
<1>4. ASSUME NEW q \in Handlers, NEW step, Catalog!Go(q, step)
      PROVE  /\ catalogReq'[q].step = step
             /\ \A o \in Handlers \ {q} : catalogReq'[o] = catalogReq[o]
  <2>1. catalogReq[q] \in CatalogRequestRecords
    BY DEF CatalogTypeInv
  <2>2. [catalogReq[q] EXCEPT !.step = step].step = step
    BY <2>1 DEF CatalogRequestRecords
  <2>3. catalogReq' = [catalogReq EXCEPT ![q] = [catalogReq[q] EXCEPT !.step = step]]
    BY <1>4 DEF Catalog!Go
  <2> QED BY <2>2, <2>3 DEF CatalogTypeInv
<1>5. ASSUME NEW q \in Handlers, NEW row, NEW mode, Catalog!Lock(q, row, mode)
      PROVE  /\ catalogHeld'[q] = catalogHeld[q] \cup {<<row, mode>>}
             /\ \A o \in Handlers \ {q} : catalogHeld'[o] = catalogHeld[o]
  BY <1>5 DEF CatalogTypeInv, Catalog!Lock, Catalog!Grant
<1>6. ASSUME NEW q \in Handlers, Catalog!LockGroup(q)
      PROVE  CatalogWaitInv'
  BY <1>3, <1>4, <1>5, <1>6 DEF Catalog!LockGroup, CatalogOthersWait
<1>7. ASSUME NEW q \in Handlers, Catalog!LookAtGroup(q)
      PROVE  CatalogWaitInv'
  BY <1>3, <1>4, <1>7 DEF Catalog!LookAtGroup, CatalogOthersWait
<1>8. ASSUME NEW q \in Handlers, Catalog!LockType(q)
      PROVE  CatalogWaitInv'
  <2> DEFINE row == <<"type", catalogReq[q].type>>
  <2>1. /\ catalogHeld'[q] = catalogHeld[q] \cup {<<row, Catalog!Update>>}
        /\ \A o \in Handlers \ {q} : catalogHeld'[o] = catalogHeld[o]
    BY <1>5, <1>8 DEF Catalog!LockType
  <2>2. catalogHeld[q] = {}
    BY <1>8 DEF Catalog!LockType, Catalog!At, CatalogWaitInv, CatalogWaitingHolds
  <2>3. CASE Catalog!Go(q, "write")
    BY <1>3, <1>4, <2>1, <2>3 DEF CatalogOthersWait
  <2>4. CASE catalogReq' = [catalogReq EXCEPT ![q].step = "share",
                                              ![q].group = type[catalogReq[q].type].group]
    <3>1. catalogReq'[q].step = "share" /\ \A o \in Handlers \ {q} : catalogReq'[o] = catalogReq[o]
      BY <2>4 DEF CatalogTypeInv, CatalogRequestRecords
    <3>2. CatalogWaitingHolds(q)'
      BY <2>1, <2>2, <3>1 DEF CatalogWaitingHolds, CatalogHolds
    <3> QED BY <2>1, <3>1, <3>2, CatalogOthersStillWait DEF CatalogOthersWait
  <2> QED BY <1>8, <2>3, <2>4 DEF Catalog!LockType
<1>9. ASSUME NEW q \in Handlers, Catalog!ShareGroup(q)
      PROVE  CatalogWaitInv'
  BY <1>3, <1>4, <1>5, <1>9 DEF Catalog!ShareGroup, Catalog!SharesGroup, CatalogOthersWait
<1>10. ASSUME NEW q \in Handlers, Catalog!FindGroup(q)
       PROVE  CatalogWaitInv'
  <2>1. catalogHeld[q] = {}
    BY <1>10 DEF Catalog!FindGroup, Catalog!At, CatalogWaitInv, CatalogWaitingHolds
  <2>2. /\ \A o \in Handlers \ {q} : catalogHeld'[o] = catalogHeld[o]
        /\ \A c \in Checks, m \in Catalog!Modes : <<<<"check", c>>, m>> \notin catalogHeld'[q]
    <3>1. CASE UNCHANGED catalogHeld
      BY <2>1, <3>1
    <3>2. CASE \E g \in Groups : Catalog!SharesGroup(q, g)
      <4>1. PICK g \in Groups : Catalog!Lock(q, <<"group", g>>, Catalog!Share)
        BY <3>2 DEF Catalog!SharesGroup
      <4> QED BY <1>5, <2>1, <4>1
    <3> QED BY <1>10, <3>1, <3>2 DEF Catalog!FindGroup, Catalog!Named
  <2>3. catalogReq'[q].step = "check" /\ \A o \in Handlers \ {q} : catalogReq'[o] = catalogReq[o]
    <3> DEFINE found == {g \in Catalog!Named(catalogReq[q].code) : group[g].status = "active"}
    <3>1. catalogReq' = [catalogReq EXCEPT ![q] = [catalogReq[q] EXCEPT !.step = "check",
                                                                        !.found = found]]
      BY <1>10 DEF Catalog!FindGroup, CatalogTypeInv
    <3> HIDE DEF found
    <3> QED BY <3>1 DEF CatalogTypeInv, CatalogRequestRecords
  <2>4. CatalogWaitingHolds(q)'
    BY <2>2, <2>3 DEF CatalogWaitingHolds, CatalogHolds
  <2> QED BY <2>2, <2>3, <2>4, CatalogOthersStillWait DEF CatalogOthersWait
<1>11. ASSUME NEW q \in Handlers, Catalog!LockCheck(q)
       PROVE  CatalogWaitInv'
  BY <1>3, <1>4, <1>5, <1>11 DEF Catalog!LockCheck, CatalogOthersWait
<1>12. CASE UNCHANGED <<catalogHeld, catalogReq>>
  BY <1>12 DEF CatalogWaitInv, CatalogWaitingHolds, CatalogHolds
<1> QED BY <1>1, <1>2, <1>6, <1>7, <1>8, <1>9, <1>10, <1>11, <1>12
        DEF Catalog!Next, Catalog!Proceed, Catalog!WriteGroup, Catalog!CreateType, Catalog!WriteType,
            Catalog!WriteStart, Catalog!Rollback, Catalog!CreateGroup, Catalog!vars

(* People who keep the catalog and starts of steps that look a group up in *)
(* it, never wait for each other in a circle.                              *)
THEOREM CatalogNeverDeadlocks == Catalog!Spec => []Catalog!NoDeadlock
<1>1. Catalog!Init => CatalogWaitInv
  BY DEF Catalog!Init, Catalog!NoRequest, CatalogWaitInv, CatalogWaitingHolds
<1>2. CatalogInv /\ CatalogInv' /\ CatalogWaitInv /\ [Catalog!Next]_(Catalog!vars) => CatalogWaitInv'
  BY CatalogWaitStep DEF CatalogInv
<1>3. CatalogInv /\ CatalogWaitInv => Catalog!NoDeadlock
  <2> SUFFICES ASSUME CatalogInv, CatalogWaitInv, NEW S \in (SUBSET Handlers) \ {{}}
               PROVE  \E q \in S : \A o \in S : ~Catalog!WaitsFor(q, o)
    BY DEF Catalog!NoDeadlock
  <2> DEFINE AtAny(q, names) == catalogReq[q].step \in names
             ForGroup == {"group", "share", "find"}
  <2>1. ASSUME NEW q \in S, NEW o \in S, Catalog!WaitsFor(q, o)
        PROVE  /\ AtAny(q, {"type", "check"} \cup ForGroup)
               /\ ~AtAny(o, {"type", "group", "find"})
               /\ AtAny(q, ForGroup) => ~AtAny(o, {"share"})
               /\ AtAny(q, {"check"}) => ~AtAny(o, {"share", "check"})
    <3>1. /\ q \in Handlers /\ o \in Handlers /\ CatalogWaitingHolds(o)
          /\ RequestFits(catalogReq[q])
      BY DEF CatalogWaitInv, CatalogInv, CatalogTypeInv
    <3>2. PICK w \in Catalog!Wanted(q), n \in Catalog!Modes : <<w[1], n>> \in catalogHeld[o]
      BY <2>1 DEF Catalog!WaitsFor, Catalog!Blockers
    <3>3. AtAny(q, {"type", "check"} \cup ForGroup)
      BY <3>2 DEF Catalog!Wanted
    <3>4. AtAny(q, ForGroup) => \E g \in Groups : w[1] = <<"group", g>>
      BY <3>1, <3>2 DEF Catalog!Wanted, Catalog!Named, RequestFits
    <3>5. AtAny(q, {"check"}) => \E c \in Checks : w[1] = <<"check", c>>
      BY <3>1, <3>2 DEF Catalog!Wanted, RequestFits
    <3> QED BY <3>1, <3>2, <3>3, <3>4, <3>5 DEF CatalogWaitingHolds, CatalogHolds
  <2>2. CASE \E q \in S : ~AtAny(q, {"type", "check"} \cup ForGroup)
    BY <2>1, <2>2
  <2>3. CASE \A q \in S : AtAny(q, {"type", "check"} \cup ForGroup)
    <3>1. CASE \E q \in S : AtAny(q, {"check"})
      BY <2>1, <2>3, <3>1
    <3>2. CASE (\A q \in S : ~AtAny(q, {"check"})) /\ \E q \in S : AtAny(q, ForGroup)
      BY <2>1, <2>3, <3>2
    <3>3. CASE \A q \in S : AtAny(q, {"type"})
      BY <2>1, <3>3
    <3> QED BY <2>3, <3>1, <3>2, <3>3
  <2> QED BY <2>2, <2>3
<1> QED BY <1>1, <1>2, <1>3, CatalogHoldsAlways, PTL DEF Catalog!Spec

-----------------------------------------------------------------------------
(* The documents and the catalog.                                          *)

LEMMA DocumentsOfProduction == MCSpec => Docs!Spec
<1>1. MCInit => Docs!Init
  BY DEF MCInit
<1>2. [MCNext]_mcVars => [Docs!Next]_(Docs!vars)
  BY DEF MCNext, mcVars, docVars, Docs!vars, Docs!dbVars
<1> QED BY <1>1, <1>2, PTL DEF MCSpec, Docs!Spec

LEMMA CatalogOfProduction == MCSpec => Catalog!Spec
<1>1. MCInit => Catalog!Init
  BY DEF MCInit
<1>2. [MCNext]_mcVars => [Catalog!Next]_(Catalog!vars)
  BY DEF MCNext, mcVars, catalogVars, Catalog!vars, Catalog!dbVars
<1> QED BY <1>1, <1>2, PTL DEF MCSpec, Catalog!Spec

(* A unit is shipped if and only if it is in a completed shipment, and in  *)
(* one only, and the units of an open shipment are packed.                 *)
THEOREM UnitsShipWithTheirShipment == MCSpec => []ShippedWithItsShipment
BY DocumentsOfProduction, Docs!ShipmentsHoldTheirUnits, PTL DEF ShippedWithItsShipment

(* A shipment leaves with the number of units its user confirmed, and what *)
(* has left or was voided keeps its units.                                 *)
THEOREM ConfirmedShipmentsLeave == MCSpec => LeavesAsConfirmed
BY DocumentsOfProduction, Docs!ShipmentsLeaveAsConfirmed, PTL DEF LeavesAsConfirmed

(* The documents of an archived batch do not change.                       *)
THEOREM ArchivingFreezes == MCSpec => ArchivedIsFrozen
BY DocumentsOfProduction, Docs!ArchivedDocumentsAreFrozen, PTL DEF ArchivedIsFrozen

(* The receipts of a batch never add up to more than is planned.           *)
THEOREM PlanIsKept == MCSpec => []ReceiptsWithinPlan
<1>1. Docs!Spec => []Docs!ReceiptsWithinPlan
  BY ProductionAssumption, Docs!ReceiptsNeverExceedThePlan
<1> QED BY <1>1, DocumentsOfProduction, PTL DEF ReceiptsWithinPlan

(* Whatever refers to a group of defects may rely on it.                   *)
THEOREM CatalogIsReliable == MCSpec => GroupsCanBeReliedOn
BY CatalogOfProduction, GroupsAreReliable, PTL DEF GroupsCanBeReliedOn

(* Nothing in production waits in a circle but for the two ways of adding  *)
(* units to a shipment.                                                    *)
THEOREM ProductionNeverDeadlocks ==
  MCSpec => [](NoDeadlock /\ Catalog!NoDeadlock /\ Docs!OnlyAddingDeadlocks)
<1>1. MCInit => Init
  BY DEF MCInit
<1>2. [MCNext]_mcVars => [Next]_vars
  BY DEF MCNext, mcVars, vars
<1>3. MCSpec => Spec
  BY <1>1, <1>2, PTL DEF MCSpec, Spec
<1> QED BY <1>3, CreationsNeverDeadlock, CatalogOfProduction, CatalogNeverDeadlocks,
           DocumentsOfProduction, Docs!OthersNeverDeadlock, PTL
=============================================================================
