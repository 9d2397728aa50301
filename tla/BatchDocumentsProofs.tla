------------------------ MODULE BatchDocumentsProofs ------------------------
(***************************************************************************)
(* Why the shipments of a batch hold what they say: the items of one       *)
(* shipment change under its lock, an item of a unit appears under the     *)
(* lock of that unit's place in the unique index, and a unit leaves the    *)
(* state "passed" for good.  The locks of the units themselves are not     *)
(* needed for any of it.  And why no requests wait in a circle but those   *)
(* that add units.                                                         *)
(***************************************************************************)
EXTENDS BatchDocuments, FiniteSetTheorems, WellFoundedInduction, TLAPS

-----------------------------------------------------------------------------
(* The inductive invariant *)

Steps ==
  {"idle", "batch", "shipment", "units", "find", "insert", "references", "receipt", "write"}

RequestRecords ==
  [step : Steps, op : Operations \cup {"none"},
   shipment : Shipments \cup {NoShipment}, receipt : Receipts \cup {NoReceipt},
   units : SUBSET Units, quantity : Nat \cup Quantities, todo : SUBSET Units, added : SUBSET Units]
LockedRows ==
  {<<"batch">>} \cup ({"shipment"} \X Shipments) \cup ({"receipt"} \X Receipts)
                \cup ({"unit", "item"} \X Units)

(* A request of every step has the fields its operation reads.             *)
RequestFits(r) ==
  /\ r.step \in {"batch", "write"} => r.op \in Operations
  /\ r.step = "shipment" => r.op \in OnShipment
  /\ r.step = "units" => r.op \in {"add_units", "complete_shipment", "void_shipment"}
  /\ r.step \in {"find", "insert", "references"} => r.op \in Adding
  /\ r.step = "receipt" => r.op \in OnReceipt
  /\ r.op \in OnShipment => r.shipment \in Shipments
  /\ r.op \in {"update_receipt", "void_receipt"} => r.receipt \in Receipts
  /\ r.op \in {"create_receipt", "update_receipt"} => r.quantity \in Quantities

Rows ==
  /\ batch \in [archived : BOOLEAN, completed : BOOLEAN]
  /\ unit \in [Units -> {"passed", "packed", "shipped"}]
  /\ shipment \in [Shipments -> {"absent", "open", "completed", "voided"}]
  /\ items \subseteq [shipment : Shipments, unit : Units, voided : BOOLEAN]
  /\ receipt \in [Receipts -> [status : {"absent", "open", "voided"}, quantity : {0} \cup Quantities]]

TypeInv ==
  /\ Rows
  /\ held \in [Handlers -> SUBSET (LockedRows \X Modes)]
  /\ req \in [Handlers -> RequestRecords]
  /\ \A q \in Handlers : RequestFits(req[q])

Holds(q, row, mode) == <<row, mode>> \in held[q]

InBatch(r) == r.step \notin {"idle", "batch"}
InTheShipment(r) == r.op \in OnShipment /\ r.step \notin {"idle", "batch", "shipment"}
InReceipt(r) == r.op \in OnReceipt /\ r.step = "write"

(* The locks a transaction holds between two statements.                   *)
LocksOf(q) ==
  LET r == req[q]
  IN /\ InBatch(r) => Holds(q, <<"batch">>, BatchMode(r.op))
     /\ InTheShipment(r) => Holds(q, <<"shipment", r.shipment>>, Update)
     /\ \A u \in r.added : Holds(q, <<"item", u>>, Update)

(* What it has found under them and relies on.                             *)
ChecksOf(q) ==
  LET r == req[q]
  IN /\ InBatch(r) /\ r.op \notin {"archive", "restore"} => ~batch.archived
     /\ InTheShipment(r) =>
          \/ shipment[r.shipment] = "open"
          \/ r.op = "void_shipment" /\ shipment[r.shipment] = "completed"
     /\ InTheShipment(r) /\ r.op = "complete_shipment" =>
          Cardinality(UnitsOf(r.shipment)) = r.quantity
     /\ \A u \in r.added : ~InShipment(u) /\ unit[u] # "passed"
     /\ r.step = "insert" => \A u \in r.todo : unit[u] # "passed"
     /\ InReceipt(r) =>
          /\ r.op # "create_receipt" => Open(r.receipt)
          /\ AddedQty(r) > 0 => WithinPlan(r)

LockInv == LocksCompatible(held) /\ \A q \in Handlers : LocksOf(q) /\ ChecksOf(q)

ItemsHaveShipments == \A i \in items : shipment[i.shipment] # "absent"

DocumentsInv == TypeInv /\ LockInv /\ ItemsHaveShipments /\ ShippedWithItsShipment

(* What a step of q does to the rows, and under which locks.               *)
GuardedWrites(q) ==
  /\ batch' # batch \/ receipt' # receipt => Holds(q, <<"batch">>, Update)
  /\ \A s \in Shipments :
       shipment[s] # "absent" /\ (shipment'[s] # shipment[s] \/ UnitsOf(s)' # UnitsOf(s)) =>
         Holds(q, <<"shipment", s>>, Update)
  /\ \A u \in Units :
       /\ ~InShipment(u) /\ InShipment(u)' => Holds(q, <<"item", u>>, Update)
       /\ unit[u] # "passed" => unit'[u] # "passed"

(* A step of q leaves the other transactions as they are.                  *)
OthersWait(q) == \A o \in Handlers \ {q} : req'[o] = req[o] /\ held'[o] = held[o]

-----------------------------------------------------------------------------
(* Requests *)

LEMMA NoRequestType == NoRequest \in RequestRecords /\ RequestFits(NoRequest) /\ NoRequest.added = {}
BY DEF NoRequest, RequestRecords, RequestFits, Steps, OnShipment, OnItems, OnReceipt

LEMMA NewRequest ==
  ASSUME TypeInv, NEW q \in Handlers, NEW r \in RequestRecords, RequestFits(r),
         req' = [req EXCEPT ![q] = r]
  PROVE  /\ req' \in [Handlers -> RequestRecords] /\ \A o \in Handlers : RequestFits(req'[o])
         /\ req'[q] = r /\ \A o \in Handlers \ {q} : req'[o] = req[o]
BY DEF TypeInv

(* A request that goes on, perhaps with other units to do, keeps its       *)
(* fields.                                                                 *)
Onward(r, s, step) ==
  /\ s.step = step /\ s.op = r.op /\ s.shipment = r.shipment /\ s.receipt = r.receipt
  /\ s.units = r.units /\ s.quantity = r.quantity

LEMMA Fits ==
  ASSUME NEW r \in RequestRecords, NEW s \in RequestRecords, NEW step, Onward(r, s, step), RequestFits(r),
         step \in {"batch", "write"} => r.op \in Operations,
         step = "shipment" => r.op \in OnShipment,
         step = "units" => r.op \in {"add_units", "complete_shipment", "void_shipment"},
         step \in {"find", "insert", "references"} => r.op \in Adding,
         step = "receipt" => r.op \in OnReceipt
  PROVE  RequestFits(s)
BY DEF Onward, RequestFits

LEMMA WithStep ==
  ASSUME NEW r \in RequestRecords, NEW step \in Steps
  PROVE  /\ [r EXCEPT !.step = step] \in RequestRecords
         /\ Onward(r, [r EXCEPT !.step = step], step)
         /\ [r EXCEPT !.step = step].todo = r.todo /\ [r EXCEPT !.step = step].added = r.added
BY DEF RequestRecords, Onward

LEMMA WithTodo ==
  ASSUME NEW r \in RequestRecords, NEW step \in Steps, NEW us \in SUBSET Units
  PROVE  /\ [r EXCEPT !.step = step, !.todo = us] \in RequestRecords
         /\ Onward(r, [r EXCEPT !.step = step, !.todo = us], step)
         /\ [r EXCEPT !.step = step, !.todo = us].todo = us
         /\ [r EXCEPT !.step = step, !.todo = us].added = r.added
BY DEF RequestRecords, Onward

LEMMA GoIs ==
  ASSUME TypeInv, NEW q \in Handlers, NEW step, Go(q, step)
  PROVE  req' = [req EXCEPT ![q] = [req[q] EXCEPT !.step = step]]
BY DEF Go

-----------------------------------------------------------------------------
(* Locks *)

(* Nobody writes a row that another transaction has locked.                *)
LEMMA Excluded ==
  ASSUME TypeInv, LocksCompatible(held), NEW q \in Handlers, NEW o \in Handlers, q # o,
         NEW r, NEW m, NEW n, Holds(q, r, m), Holds(o, r, n)
  PROVE  ~Conflict(m, n)
<1>1. DOMAIN held = Handlers
  BY DEF TypeInv
<1>2. <<r, m>>[1] = <<r, n>>[1] /\ <<r, m>>[2] = m /\ <<r, n>>[2] = n
  OBVIOUS
<1> QED BY <1>1, <1>2 DEF LocksCompatible, Holds

(* The locks of q become more, or stay as they are.                        *)
LocksGrow(q) ==
  /\ held' \in [Handlers -> SUBSET (LockedRows \X Modes)]
  /\ LocksCompatible(held')
  /\ \A o \in Handlers \ {q} : held'[o] = held[o]
  /\ held[q] \subseteq held'[q]

LEMMA LocksStay ==
  ASSUME TypeInv, LocksCompatible(held), NEW q \in Handlers, UNCHANGED held
  PROVE  LocksGrow(q)
BY DEF LocksGrow, TypeInv

LEMMA LockGrants ==
  ASSUME TypeInv, LocksCompatible(held), NEW q \in Handlers, NEW r \in LockedRows, NEW m \in Modes,
         Lock(q, r, m)
  PROVE  LocksGrow(q) /\ <<r, m>> \in held'[q]
<1>1. DOMAIN held = Handlers /\ DOMAIN held' = Handlers
  BY DEF TypeInv, Lock, Grant
<1>2. (\A o \in Handlers \ {q} : held'[o] = held[o]) /\ held'[q] = held[q] \cup {<<r, m>>}
  BY <1>1 DEF Lock, Grant
<1>3. \A o \in Handlers \ {q}, n \in Modes : <<r, n>> \in held[o] => ~Conflict(n, m) /\ ~Conflict(m, n)
  BY <1>1 DEF Lock, Grantable, Blockers, Conflict
<1>4. \A o \in Handlers : \A x \in held[o] : x[2] \in Modes /\ x = <<x[1], x[2]>>
  BY DEF TypeInv
<1>5. held' \in [Handlers -> SUBSET (LockedRows \X Modes)]
  BY DEF TypeInv, Lock, Grant
<1>6. SUFFICES ASSUME NEW a \in Handlers, NEW b \in Handlers, NEW l \in held'[a], NEW k \in held'[b],
                      a # b, l[1] = k[1]
               PROVE  ~Conflict(l[2], k[2])
  BY <1>1, <1>2, <1>5 DEF LocksCompatible, LocksGrow
<1>7. CASE l \in held[a] /\ k \in held[b]
  BY <1>1, <1>6, <1>7 DEF LocksCompatible
<1>8. CASE l \notin held[a]
  <2>1. a = q /\ l = <<r, m>> /\ k \in held[b] /\ b # q
    BY <1>2, <1>6, <1>8
  <2>2. k = <<r, k[2]>> /\ k[2] \in Modes
    BY <1>4, <1>6, <2>1
  <2> QED BY <1>3, <2>1, <2>2
<1>9. CASE k \notin held[b]
  <2>1. b = q /\ k = <<r, m>> /\ l \in held[a] /\ a # q
    BY <1>2, <1>6, <1>9
  <2>2. l = <<r, l[2]>> /\ l[2] \in Modes
    BY <1>4, <1>6, <2>1
  <2> QED BY <1>3, <2>1, <2>2
<1> QED BY <1>7, <1>8, <1>9

(* The others keep their locks, and what they have found stays true.       *)
LEMMA SameReceived == UNCHANGED receipt => Received' = Received
BY DEF Received, MapThenSumSet, MapThenFoldSet, Open

LEMMA OthersKeep ==
  ASSUME TypeInv, LockInv, NEW q \in Handlers, OthersWait(q), GuardedWrites(q),
         NEW o \in Handlers \ {q}
  PROVE  LocksOf(o)' /\ ChecksOf(o)'
<1> DEFINE r == req[o]
<1>1. /\ LocksOf(o) /\ ChecksOf(o) /\ RequestFits(r) /\ r \in RequestRecords
      /\ req'[o] = r /\ held'[o] = held[o] /\ LocksCompatible(held)
  BY DEF LockInv, OthersWait, TypeInv
<1>2. LocksOf(o)'
  BY <1>1 DEF LocksOf, Holds
<1>3. ASSUME InBatch(r)
      PROVE  UNCHANGED batch /\ (r.op \in OnReceipt => UNCHANGED receipt)
  <2>1. Holds(o, <<"batch">>, BatchMode(r.op))
    BY <1>1, <1>3 DEF LocksOf
  <2>2. ~Holds(q, <<"batch">>, Update)
    BY <1>1, <2>1, Excluded DEF Conflict
  <2> QED BY <2>2 DEF GuardedWrites
<1>4. ASSUME InTheShipment(r), NEW s, s = r.shipment
      PROVE  shipment'[s] = shipment[s] /\ UnitsOf(s)' = UnitsOf(s)
  <2>1. Holds(o, <<"shipment", s>>, Update) /\ shipment[s] # "absent" /\ s \in Shipments
    BY <1>1, <1>4 DEF LocksOf, ChecksOf, RequestFits, InTheShipment
  <2>2. ~Holds(q, <<"shipment", s>>, Update)
    BY <1>1, <2>1, Excluded DEF Conflict
  <2> QED BY <2>1, <2>2 DEF GuardedWrites
<1>5. ASSUME NEW u \in r.added
      PROVE  ~InShipment(u)' /\ unit'[u] # "passed"
  <2>1. Holds(o, <<"item", u>>, Update) /\ ~InShipment(u) /\ unit[u] # "passed" /\ u \in Units
    BY <1>1 DEF LocksOf, ChecksOf, RequestRecords
  <2>2. ~Holds(q, <<"item", u>>, Update)
    BY <1>1, <2>1, Excluded DEF Conflict
  <2> QED BY <2>1, <2>2 DEF GuardedWrites
<1>6. r.step = "insert" => \A u \in r.todo : unit'[u] # "passed"
  BY <1>1 DEF ChecksOf, RequestRecords, GuardedWrites
<1>7. InReceipt(r) =>
        /\ r.op # "create_receipt" => Open(r.receipt)'
        /\ AddedQty(req[o])' > 0 => WithinPlan(req[o])'
  <2> SUFFICES ASSUME InReceipt(r) PROVE UNCHANGED <<receipt, Received>>
    BY <1>1 DEF ChecksOf, Open, AddedQty, WithinPlan
  <2> QED BY <1>3, SameReceived DEF InReceipt, InBatch
<1>8. ChecksOf(o)'
  <2>1. InBatch(r) /\ r.op \notin {"archive", "restore"} => ~batch'.archived
    BY <1>1, <1>3 DEF ChecksOf
  <2>2. InTheShipment(r) =>
          /\ \/ shipment'[r.shipment] = "open"
             \/ r.op = "void_shipment" /\ shipment'[r.shipment] = "completed"
          /\ r.op = "complete_shipment" => \A s : s = r.shipment => Cardinality(UnitsOf(s)') = r.quantity
    BY <1>1, <1>4 DEF ChecksOf
  <2> QED BY <1>1, <1>5, <1>6, <1>7, <2>1, <2>2 DEF ChecksOf
<1> QED BY <1>2, <1>8

-----------------------------------------------------------------------------
(* The statements of a transaction *)

LEMMA SameRows ==
  ASSUME UNCHANGED dbVars
  PROVE  /\ Rows => Rows'
         /\ ItemsHaveShipments => ItemsHaveShipments'
         /\ ShippedWithItsShipment => ShippedWithItsShipment'
         /\ \A u : InShipment(u)' = InShipment(u)
         /\ \A s : UnitsOf(s)' = UnitsOf(s)
BY DEF dbVars, Rows, ItemsHaveShipments, ShippedWithItsShipment, InShipment, UnitsOf, ItemsOf

(* A statement that reads.                                                 *)
LEMMA ReadKeeps ==
  ASSUME DocumentsInv, NEW q \in Handlers, UNCHANGED dbVars, OthersWait(q),
         req' \in [Handlers -> RequestRecords], \A o \in Handlers : RequestFits(req'[o]),
         held' \in [Handlers -> SUBSET (LockedRows \X Modes)],
         LocksCompatible(held'), LocksOf(q)', ChecksOf(q)'
  PROVE  DocumentsInv'
<1>1. GuardedWrites(q)
  BY SameRows DEF GuardedWrites, dbVars
<1>2. LockInv'
  BY <1>1, OthersKeep DEF LockInv, DocumentsInv
<1>3. TypeInv'
  BY SameRows DEF DocumentsInv, TypeInv
<1> QED BY <1>2, <1>3, SameRows DEF DocumentsInv

(* The end of a transaction, which lets all of its locks go.               *)
LEMMA EndReleases ==
  ASSUME TypeInv, LockInv, NEW q \in Handlers, End(q)
  PROVE  /\ req' \in [Handlers -> RequestRecords] /\ \A o \in Handlers : RequestFits(req'[o])
         /\ held' \in [Handlers -> SUBSET (LockedRows \X Modes)]
         /\ OthersWait(q) /\ LocksCompatible(held') /\ LocksOf(q)' /\ ChecksOf(q)'
<1>1. /\ req' \in [Handlers -> RequestRecords] /\ \A o \in Handlers : RequestFits(req'[o])
      /\ req'[q] = NoRequest /\ \A o \in Handlers \ {q} : req'[o] = req[o]
  BY NoRequestType, NewRequest DEF End
<1>2. /\ held' \in [Handlers -> SUBSET (LockedRows \X Modes)] /\ held'[q] = {}
      /\ \A o \in Handlers \ {q} : held'[o] = held[o]
  BY DEF End, ReleaseAll, TypeInv
<1>3. DOMAIN held = Handlers /\ DOMAIN held' = Handlers
  BY <1>2 DEF TypeInv
<1>4. LocksCompatible(held')
  BY <1>2, <1>3 DEF LocksCompatible, LockInv
<1>5. req'[q].op = "none" /\ req'[q].step = "idle" /\ req'[q].added = {}
  BY <1>1 DEF NoRequest
<1>6. LocksOf(q)' /\ ChecksOf(q)'
  BY <1>5 DEF LocksOf, ChecksOf, InBatch, InTheShipment, InReceipt, OnReceipt
<1> QED BY <1>1, <1>2, <1>4, <1>6 DEF OthersWait

(* A commit keeps the invariant if its writes are guarded and it leaves    *)
(* the rows in order.                                                      *)
LEMMA CommitKeeps ==
  ASSUME DocumentsInv, NEW q \in Handlers, End(q), GuardedWrites(q),
         Rows', ItemsHaveShipments', ShippedWithItsShipment'
  PROVE  DocumentsInv'
<1>1. TypeInv'
  BY EndReleases DEF DocumentsInv, TypeInv
<1>2. LockInv'
  BY EndReleases, OthersKeep DEF LockInv, DocumentsInv
<1> QED BY <1>1, <1>2 DEF DocumentsInv

(* A statement that reads, of a transaction that has the locks of the      *)
(* batch and of its shipment already.                                      *)
LEMMA MovesOn ==
  ASSUME DocumentsInv, NEW q \in Handlers, UNCHANGED dbVars, LocksGrow(q),
         NEW step, NEW n \in RequestRecords, Onward(req[q], n, step), RequestFits(n),
         req' = [req EXCEPT ![q] = n],
         InBatch(req[q]), InTheShipment(n) => InTheShipment(req[q]), ~InReceipt(n),
         \A u \in n.added :
           \/ u \in req[q].added
           \/ <<<<"item", u>>, Update>> \in held'[q] /\ ~InShipment(u) /\ unit[u] # "passed",
         n.step = "insert" => \A u \in n.todo : unit[u] # "passed"
  PROVE  DocumentsInv'
<1> DEFINE r == req[q]
<1>1. /\ req' \in [Handlers -> RequestRecords] /\ \A o \in Handlers : RequestFits(req'[o])
      /\ req'[q] = n /\ \A o \in Handlers \ {q} : req'[o] = req[o]
  BY NewRequest DEF DocumentsInv
<1>2. LocksOf(q) /\ ChecksOf(q) /\ n.op = r.op /\ n.shipment = r.shipment /\ n.quantity = r.quantity
  BY DEF DocumentsInv, LockInv, Onward
<1>3. LocksOf(q)'
  BY <1>1, <1>2 DEF LocksOf, LocksGrow, Holds
<1>4. ChecksOf(q)'
  <2>1. UNCHANGED <<batch, unit, shipment, items>>
    BY DEF dbVars
  <2>2. \A u \in n.added : ~InShipment(u) /\ unit[u] # "passed"
    BY <1>2 DEF ChecksOf
  <2>3. InBatch(n) /\ n.op \notin {"archive", "restore"} => ~batch.archived
    BY <1>2 DEF ChecksOf
  <2>4. InTheShipment(n) =>
          /\ \/ shipment[n.shipment] = "open"
             \/ n.op = "void_shipment" /\ shipment[n.shipment] = "completed"
          /\ n.op = "complete_shipment" => Cardinality(UnitsOf(n.shipment)) = n.quantity
    BY <1>2 DEF ChecksOf
  <2> QED BY <1>1, <2>1, <2>2, <2>3, <2>4, SameRows DEF ChecksOf
<1> QED BY <1>1, <1>3, <1>4, ReadKeeps DEF OthersWait, LocksGrow

LEMMA BeginKeeps ==
  ASSUME DocumentsInv, NEW q \in Handlers, NEW r \in RequestRecords, RequestFits(r), Begin(q, r),
         r.step = "batch", r.added = {}
  PROVE  DocumentsInv'
<1>1. /\ req' \in [Handlers -> RequestRecords] /\ \A o \in Handlers : RequestFits(req'[o])
      /\ req'[q] = r /\ \A o \in Handlers \ {q} : req'[o] = req[o]
  BY NewRequest DEF DocumentsInv, Begin
<1>2. UNCHANGED <<dbVars, held>>
  BY DEF Begin
<1>3. LocksOf(q)' /\ ChecksOf(q)'
  BY <1>1 DEF LocksOf, ChecksOf, InBatch, InTheShipment, InReceipt
<1> QED BY <1>1, <1>2, <1>3, ReadKeeps DEF DocumentsInv, TypeInv, LockInv, OthersWait

LEMMA RequestOnShipmentKeeps ==
  ASSUME DocumentsInv, NEW q \in Handlers, RequestOnShipment(q)
  PROVE  DocumentsInv'
<1> USE DEF Request, OnItems, OnShipment, OnReceipt, Operations, Steps
<1>1. ASSUME NEW s \in Shipments, NEW op \in {"add_packed_units", "void_shipment"},
             Begin(q, [Request(op) EXCEPT !.shipment = s])
      PROVE  DocumentsInv'
  <2> DEFINE r == [Request(op) EXCEPT !.shipment = s]
  <2>1. r \in RequestRecords /\ r.step = "batch" /\ r.op = op /\ r.shipment = s /\ r.added = {}
    BY NoRequestType DEF RequestRecords
  <2> HIDE DEF r
  <2>2. RequestFits(r)
    BY <2>1 DEF RequestFits
  <2> QED BY <1>1, <2>1, <2>2, BeginKeeps DEF r
<1>2. ASSUME NEW s \in Shipments, NEW us \in SUBSET Units, NEW op \in {"add_units", "remove_unit"},
             Begin(q, [Request(op) EXCEPT !.shipment = s, !.units = us])
      PROVE  DocumentsInv'
  <2> DEFINE r == [Request(op) EXCEPT !.shipment = s, !.units = us]
  <2>1. r \in RequestRecords /\ r.step = "batch" /\ r.op = op /\ r.shipment = s /\ r.added = {}
    BY NoRequestType DEF RequestRecords
  <2> HIDE DEF r
  <2>2. RequestFits(r)
    BY <2>1 DEF RequestFits
  <2> QED BY <1>2, <2>1, <2>2, BeginKeeps DEF r
<1>3. ASSUME NEW s \in Shipments, NEW n \in 1..Cardinality(Units),
             Begin(q, [Request("complete_shipment") EXCEPT !.shipment = s, !.quantity = n])
      PROVE  DocumentsInv'
  <2> DEFINE r == [Request("complete_shipment") EXCEPT !.shipment = s, !.quantity = n]
  <2>1. n \in Nat
    OBVIOUS
  <2>2. r \in RequestRecords /\ r.step = "batch" /\ r.op = "complete_shipment" /\ r.shipment = s /\ r.added = {}
    BY <2>1, NoRequestType DEF RequestRecords
  <2> HIDE DEF r
  <2>3. RequestFits(r)
    BY <2>2 DEF RequestFits
  <2> QED BY <1>3, <2>2, <2>3, BeginKeeps DEF r
<1>4. PICK s \in Shipments :
        \/ \E op \in {"add_packed_units", "void_shipment"} :
             Begin(q, [Request(op) EXCEPT !.shipment = s])
        \/ \E us \in (SUBSET Units) \ {{}} :
             Begin(q, [Request("add_units") EXCEPT !.shipment = s, !.units = us])
        \/ \E u \in Units :
             Begin(q, [Request("remove_unit") EXCEPT !.shipment = s, !.units = {u}])
        \/ \E n \in 1..Cardinality(Units) :
             Begin(q, [Request("complete_shipment") EXCEPT !.shipment = s, !.quantity = n])
  BY DEF RequestOnShipment
<1>5. CASE \E u \in Units : Begin(q, [Request("remove_unit") EXCEPT !.shipment = s, !.units = {u}])
  <2>1. PICK u \in Units : Begin(q, [Request("remove_unit") EXCEPT !.shipment = s, !.units = {u}])
    BY <1>5
  <2>2. {u} \in SUBSET Units /\ "remove_unit" \in {"add_units", "remove_unit"}
    OBVIOUS
  <2> QED BY ONLY <2>1, <2>2, <1>2
<1>6. CASE \E us \in (SUBSET Units) \ {{}} :
             Begin(q, [Request("add_units") EXCEPT !.shipment = s, !.units = us])
  <2>1. PICK us \in SUBSET Units : Begin(q, [Request("add_units") EXCEPT !.shipment = s, !.units = us])
    BY <1>6
  <2>2. "add_units" \in {"add_units", "remove_unit"}
    OBVIOUS
  <2> QED BY ONLY <2>1, <2>2, <1>2
<1> QED BY <1>1, <1>3, <1>4, <1>5, <1>6

LEMMA RequestOnReceiptKeeps ==
  ASSUME DocumentsInv, NEW q \in Handlers, RequestOnReceipt(q)
  PROVE  DocumentsInv'
<1> USE DEF Request, OnItems, OnShipment, OnReceipt, Operations, Steps
<1>1. ASSUME NEW x \in Receipts, NEW n \in Quantities,
             Begin(q, [Request("update_receipt") EXCEPT !.receipt = x, !.quantity = n])
      PROVE  DocumentsInv'
  <2> DEFINE r == [Request("update_receipt") EXCEPT !.receipt = x, !.quantity = n]
  <2>1. /\ r \in RequestRecords /\ r.step = "batch" /\ r.op = "update_receipt"
        /\ r.receipt = x /\ r.quantity = n /\ r.added = {}
    BY NoRequestType DEF RequestRecords
  <2> HIDE DEF r
  <2>2. RequestFits(r)
    BY <2>1 DEF RequestFits
  <2> QED BY <1>1, <2>1, <2>2, BeginKeeps DEF r
<1>2. ASSUME NEW x \in Receipts, Begin(q, [Request("void_receipt") EXCEPT !.receipt = x])
      PROVE  DocumentsInv'
  <2> DEFINE r == [Request("void_receipt") EXCEPT !.receipt = x]
  <2>1. r \in RequestRecords /\ r.step = "batch" /\ r.op = "void_receipt" /\ r.receipt = x /\ r.added = {}
    BY NoRequestType DEF RequestRecords
  <2> HIDE DEF r
  <2>2. RequestFits(r)
    BY <2>1 DEF RequestFits
  <2> QED BY <1>2, <2>1, <2>2, BeginKeeps DEF r
<1> QED BY <1>1, <1>2 DEF RequestOnReceipt

LEMMA RequestOnBatchKeeps ==
  ASSUME DocumentsInv, NEW q \in Handlers, RequestOnBatch(q)
  PROVE  DocumentsInv'
<1> USE DEF Request, OnItems, OnShipment, OnReceipt, OnBatch, Operations, Steps
<1>1. ASSUME NEW op \in OnBatch \cup {"create_shipment"}, Begin(q, Request(op))
      PROVE  DocumentsInv'
  <2> DEFINE r == Request(op)
  <2>1. r \in RequestRecords /\ r.step = "batch" /\ r.op = op /\ r.added = {}
    BY NoRequestType DEF RequestRecords
  <2> HIDE DEF r
  <2>2. RequestFits(r)
    BY <2>1 DEF RequestFits
  <2> QED BY <1>1, <2>1, <2>2, BeginKeeps DEF r
<1>2. ASSUME NEW n \in Quantities, Begin(q, [Request("create_receipt") EXCEPT !.quantity = n])
      PROVE  DocumentsInv'
  <2> DEFINE r == [Request("create_receipt") EXCEPT !.quantity = n]
  <2>1. r \in RequestRecords /\ r.step = "batch" /\ r.op = "create_receipt" /\ r.quantity = n /\ r.added = {}
    BY NoRequestType DEF RequestRecords
  <2> HIDE DEF r
  <2>2. RequestFits(r)
    BY <2>1 DEF RequestFits
  <2> QED BY <1>2, <2>1, <2>2, BeginKeeps DEF r
<1> QED BY <1>1, <1>2 DEF RequestOnBatch

LEMMA RollbackKeeps ==
  ASSUME DocumentsInv, NEW q \in Handlers, Rollback(q)
  PROVE  DocumentsInv'
BY EndReleases, ReadKeeps DEF Rollback, DocumentsInv

LEMMA LockBatchKeeps ==
  ASSUME DocumentsInv, NEW q \in Handlers, LockBatch(q)
  PROVE  DocumentsInv'
<1> DEFINE r == req[q]
           step == CASE r.op \in OnShipment -> "shipment"
                     [] r.op \in OnReceipt -> "receipt"
                     [] OTHER -> "write"
           n == [r EXCEPT !.step = step]
<1>1. /\ r \in RequestRecords /\ RequestFits(r) /\ r.step = "batch" /\ r.op \in Operations
      /\ LocksOf(q) /\ ChecksOf(q)
  BY DEF LockBatch, At, DocumentsInv, TypeInv, LockInv, RequestFits
<1>2. /\ ~RefusedByBatch(r.op) /\ Lock(q, <<"batch">>, BatchMode(r.op)) /\ UNCHANGED dbVars
      /\ req' = [req EXCEPT ![q] = n]
  BY GoIs DEF LockBatch, DocumentsInv
<1>3. /\ step \in {"shipment", "receipt", "write"}
      /\ step = "shipment" <=> r.op \in OnShipment
      /\ step = "receipt" <=> r.op \in OnReceipt
  BY DEF OnShipment, OnItems, OnReceipt
<1> HIDE DEF step
<1>4. n \in RequestRecords /\ Onward(r, n, step) /\ n.added = r.added
  BY <1>1, <1>3, WithStep DEF Steps
<1> HIDE DEF n
<1>5. RequestFits(n)
  BY <1>1, <1>3, <1>4, Fits
<1>6. /\ req' \in [Handlers -> RequestRecords] /\ \A o \in Handlers : RequestFits(req'[o])
      /\ req'[q] = n /\ \A o \in Handlers \ {q} : req'[o] = req[o]
  BY <1>2, <1>4, <1>5, NewRequest DEF DocumentsInv
<1>7. <<"batch">> \in LockedRows /\ BatchMode(r.op) \in Modes
  BY DEF LockedRows, BatchMode, Modes
<1>8. LocksGrow(q) /\ <<<<"batch">>, BatchMode(r.op)>> \in held'[q]
  BY <1>2, <1>7, LockGrants DEF DocumentsInv, LockInv
<1>9. n.op = r.op /\ n.step = step /\ ~InTheShipment(n) /\ ~InReceipt(n)
  BY <1>3, <1>4 DEF Onward, InTheShipment, InReceipt
<1>10. LocksOf(q)'
  BY <1>1, <1>4, <1>6, <1>8, <1>9 DEF LocksOf, LocksGrow, Holds
<1>11. ChecksOf(q)'
  <2>1. \A u \in n.added : ~InShipment(u)' /\ unit'[u] # "passed"
    BY <1>1, <1>2, <1>4, SameRows DEF ChecksOf, dbVars
  <2>2. n.op \notin {"archive", "restore"} => ~batch'.archived
    BY <1>2, <1>9 DEF RefusedByBatch, dbVars
  <2> QED BY <1>3, <1>6, <1>9, <2>1, <2>2 DEF ChecksOf
<1> QED BY <1>2, <1>6, <1>8, <1>10, <1>11, ReadKeeps DEF OthersWait, LocksGrow

LEMMA LockShipmentKeeps ==
  ASSUME DocumentsInv, NEW q \in Handlers, LockShipment(q)
  PROVE  DocumentsInv'
<1> DEFINE r == req[q]
           row == <<"shipment", r.shipment>>
           n == req'[q]
<1>1. /\ r \in RequestRecords /\ RequestFits(r) /\ r.step = "shipment" /\ r.op \in OnShipment
      /\ r.shipment \in Shipments /\ LocksOf(q) /\ ChecksOf(q)
  BY DEF LockShipment, At, DocumentsInv, TypeInv, LockInv, RequestFits
<1>2. Lock(q, row, Update) /\ ~RefusedByShipment(r) /\ UNCHANGED dbVars
  BY DEF LockShipment, LocksShipment
<1>3. row \in LockedRows /\ Update \in Modes
  BY <1>1 DEF LockedRows, Modes
<1>4. LocksGrow(q) /\ <<row, Update>> \in held'[q]
  BY <1>2, <1>3, LockGrants DEF DocumentsInv, LockInv
<1>5. UnitsOf(r.shipment) \in SUBSET Units /\ {} \in SUBSET Units /\ r.units \in SUBSET Units
  BY <1>1 DEF DocumentsInv, TypeInv, Rows, UnitsOf, ItemsOf, RequestRecords
<1>6. PICK step \in {"units", "find", "write"}, m \in RequestRecords :
        /\ req' = [req EXCEPT ![q] = m] /\ Onward(r, m, step) /\ m.added = r.added
        /\ step = "units" => r.op \in {"add_units", "complete_shipment", "void_shipment"}
        /\ step = "find" => r.op \in Adding
  <2>1. ASSUME NEW us \in SUBSET Units, req' = [req EXCEPT ![q].step = "units", ![q].todo = us]
        PROVE  /\ req' = [req EXCEPT ![q] = [r EXCEPT !.step = "units", !.todo = us]]
               /\ [r EXCEPT !.step = "units", !.todo = us] \in RequestRecords
               /\ Onward(r, [r EXCEPT !.step = "units", !.todo = us], "units")
               /\ [r EXCEPT !.step = "units", !.todo = us].added = r.added
    <3>1. req' = [req EXCEPT ![q] = [r EXCEPT !.step = "units", !.todo = us]]
      BY <2>1 DEF DocumentsInv, TypeInv, RequestRecords
    <3>2. "units" \in Steps
      BY DEF Steps
    <3>3. r \in RequestRecords
      BY <1>1
    <3> HIDE DEF r
    <3>4. /\ [r EXCEPT !.step = "units", !.todo = us] \in RequestRecords
          /\ Onward(r, [r EXCEPT !.step = "units", !.todo = us], "units")
          /\ [r EXCEPT !.step = "units", !.todo = us].added = r.added
      BY <3>2, <3>3, WithTodo
    <3> QED BY <3>1, <3>4
  <2>2. ASSUME NEW step \in {"find", "write"}, Go(q, step)
        PROVE  /\ req' = [req EXCEPT ![q] = [r EXCEPT !.step = step]]
               /\ [r EXCEPT !.step = step] \in RequestRecords
               /\ Onward(r, [r EXCEPT !.step = step], step) /\ [r EXCEPT !.step = step].added = r.added
    <3>1. step \in Steps
      BY DEF Steps
    <3> QED BY <1>1, <2>2, <3>1, WithStep, GoIs DEF DocumentsInv
  <2>3. CASE r.op = "add_units"
    <3>1. req' = [req EXCEPT ![q].step = "units", ![q].todo = r.units]
      BY <2>3 DEF LockShipment
    <3> QED BY <1>5, <2>1, <2>3, <3>1
  <2>4. CASE r.op = "add_packed_units"
    <3>1. Go(q, "find")
      BY <2>4 DEF LockShipment
    <3> QED BY <2>2, <2>4, <3>1 DEF Adding
  <2>5. CASE r.op = "remove_unit"
    <3>1. Go(q, "write")
      BY <2>5 DEF LockShipment
    <3> QED BY <2>2, <2>5, <3>1
  <2>6. CASE r.op \in {"complete_shipment", "void_shipment"}
    <3> DEFINE moved == IF r.op = "void_shipment" /\ shipment[r.shipment] = "open"
                        THEN {} ELSE UnitsOf(r.shipment)
    <3>1. req' = [req EXCEPT ![q].step = "units", ![q].todo = moved]
      BY <2>6 DEF LockShipment
    <3>2. moved \in SUBSET Units
      BY <1>5
    <3> HIDE DEF moved
    <3> QED BY <2>1, <2>6, <3>1, <3>2
  <2> QED BY <1>1, <2>3, <2>4, <2>5, <2>6 DEF OnShipment, OnItems
<1>7. RequestFits(m)
  BY <1>1, <1>6, Fits DEF Operations
<1>8. /\ req' \in [Handlers -> RequestRecords] /\ \A o \in Handlers : RequestFits(req'[o])
      /\ req'[q] = m /\ \A o \in Handlers \ {q} : req'[o] = req[o]
  BY <1>6, <1>7, NewRequest DEF DocumentsInv
<1>9. m.op = r.op /\ m.shipment = r.shipment /\ m.quantity = r.quantity /\ m.step = step /\ InBatch(r)
  BY <1>1, <1>6 DEF Onward, InBatch
<1>10. ~InReceipt(m) /\ m.step # "insert"
  BY <1>1, <1>6, <1>9 DEF InReceipt, OnShipment, OnItems, OnReceipt
<1>11. LocksOf(q)'
  BY <1>1, <1>4, <1>6, <1>8, <1>9 DEF LocksOf, LocksGrow, Holds
<1>12. ChecksOf(q)'
  <2>1. \A u \in m.added : ~InShipment(u)' /\ unit'[u] # "passed"
    BY <1>1, <1>2, <1>6, SameRows DEF ChecksOf, dbVars
  <2>2. m.op \notin {"archive", "restore"} => ~batch'.archived
    BY <1>1, <1>2, <1>9 DEF ChecksOf, dbVars
  <2>3. /\ \/ shipment'[m.shipment] = "open"
           \/ m.op = "void_shipment" /\ shipment'[m.shipment] = "completed"
        /\ m.op = "complete_shipment" => Cardinality(UnitsOf(m.shipment)) = m.quantity
    BY <1>2, <1>9 DEF RefusedByShipment, dbVars
  <2>4. \A s : UnitsOf(s)' = UnitsOf(s)
    BY <1>2, SameRows
  <2> QED BY <1>8, <1>10, <2>1, <2>2, <2>3, <2>4 DEF ChecksOf
<1> QED BY <1>2, <1>4, <1>8, <1>11, <1>12, ReadKeeps DEF OthersWait, LocksGrow

(* What a statement makes of the request of its transaction.               *)
Becomes(q, n, step, todo, added) ==
  /\ n \in RequestRecords /\ req' = [req EXCEPT ![q] = n] /\ Onward(req[q], n, step)
  /\ n.todo = todo /\ n.added = added

LEMMA GoBecomes ==
  ASSUME TypeInv, NEW q \in Handlers, NEW step \in Steps, Go(q, step)
  PROVE  \E n : Becomes(q, n, step, req[q].todo, req[q].added)
<1> DEFINE r == req[q]
           n == [r EXCEPT !.step = step]
<1>1. r \in RequestRecords /\ req' = [req EXCEPT ![q] = n]
  BY GoIs DEF TypeInv
<1>2. n \in RequestRecords /\ Onward(r, n, step) /\ n.todo = r.todo /\ n.added = r.added
  BY <1>1, WithStep
<1> HIDE DEF n
<1> QED BY <1>1, <1>2 DEF Becomes

LEMMA DoneBecomes ==
  ASSUME TypeInv, NEW q \in Handlers, NEW u \in Units, req' = [req EXCEPT ![q].todo = @ \ {u}]
  PROVE  \E n : Becomes(q, n, req[q].step, req[q].todo \ {u}, req[q].added)
<1> DEFINE r == req[q]
           n == [r EXCEPT !.todo = @ \ {u}]
<1>1. r \in RequestRecords /\ req' = [req EXCEPT ![q] = n]
  BY DEF TypeInv
<1>2. n \in RequestRecords /\ Onward(r, n, r.step) /\ n.todo = r.todo \ {u} /\ n.added = r.added
  BY <1>1 DEF RequestRecords, Onward
<1> HIDE DEF n
<1> QED BY <1>1, <1>2 DEF Becomes

LEMMA AddedBecomes ==
  ASSUME TypeInv, NEW q \in Handlers, NEW u \in Units,
         req' = [req EXCEPT ![q].todo = @ \ {u}, ![q].added = @ \cup {u}]
  PROVE  \E n : Becomes(q, n, req[q].step, req[q].todo \ {u}, req[q].added \cup {u})
<1> DEFINE r == req[q]
           n == [[r EXCEPT !.todo = @ \ {u}] EXCEPT !.added = @ \cup {u}]
<1>1. r \in RequestRecords /\ req' = [req EXCEPT ![q] = n]
  BY DEF TypeInv, RequestRecords
<1>2. n \in RequestRecords /\ Onward(r, n, r.step) /\ n.todo = r.todo \ {u} /\ n.added = r.added \cup {u}
  BY <1>1 DEF RequestRecords, Onward
<1> HIDE DEF n
<1> QED BY <1>1, <1>2 DEF Becomes

LEMMA LockUnitKeeps ==
  ASSUME DocumentsInv, NEW q \in Handlers, LockUnit(q)
  PROVE  DocumentsInv'
<1> DEFINE r == req[q]
<1>1. /\ r \in RequestRecords /\ RequestFits(r) /\ r.step = "units" /\ r.todo \subseteq Units
      /\ r.op \in {"add_units", "complete_shipment", "void_shipment"} /\ UNCHANGED dbVars
      /\ TypeInv /\ LocksCompatible(held)
  BY DEF LockUnit, At, DocumentsInv, TypeInv, LockInv, RequestFits, RequestRecords
<1>2. /\ LocksGrow(q)
      /\ \/ Go(q, IF r.op = "add_units" THEN "find" ELSE "write")
         \/ \E u \in r.todo : req' = [req EXCEPT ![q].todo = @ \ {u}]
  <2>1. CASE r.todo = {}
    BY <1>1, <2>1, LocksStay DEF LockUnit
  <2>2. CASE r.todo # {}
    <3>1. PICK u \in r.todo :
            /\ Lock(q, <<"unit", u>>, IF r.op = "add_units" THEN Update ELSE NoKeyUpdate)
            /\ req' = [req EXCEPT ![q].todo = @ \ {u}]
      BY <2>2 DEF LockUnit
    <3>2. <<"unit", u>> \in LockedRows /\ (IF r.op = "add_units" THEN Update ELSE NoKeyUpdate) \in Modes
      BY <1>1 DEF LockedRows, Modes
    <3> QED BY <1>1, <3>1, <3>2, LockGrants
  <2> QED BY <2>1, <2>2
<1>3. PICK step \in {"units", "find", "write"} : \E n, todo :
        /\ Becomes(q, n, step, todo, r.added)
        /\ step = "find" => r.op \in Adding
  <2>1. ASSUME NEW u \in r.todo, req' = [req EXCEPT ![q].todo = @ \ {u}]
        PROVE  \E n : Becomes(q, n, "units", r.todo \ {u}, r.added)
    BY <1>1, <2>1, DoneBecomes
  <2>2. ASSUME NEW step \in {"find", "write"}, Go(q, step)
        PROVE  \E n : Becomes(q, n, step, r.todo, r.added)
    BY <1>1, <2>2, GoBecomes DEF Steps
  <2>3. CASE r.op = "add_units"
    BY <1>2, <2>1, <2>2, <2>3 DEF Adding
  <2>4. CASE r.op # "add_units"
    BY <1>2, <2>1, <2>2, <2>4
  <2> QED BY <2>3, <2>4
<1>4. PICK n : /\ n \in RequestRecords /\ req' = [req EXCEPT ![q] = n] /\ Onward(r, n, step)
               /\ n.added = r.added /\ n.step = step /\ n.op = r.op
  BY <1>3 DEF Becomes, Onward
<1>5. RequestFits(n)
  BY <1>1, <1>3, <1>4, Fits DEF Operations, OnShipment, OnItems
<1>6. InBatch(r) /\ InTheShipment(r) /\ ~InReceipt(n) /\ n.step # "insert"
  BY <1>1, <1>3, <1>4 DEF InBatch, InTheShipment, InReceipt, OnShipment, OnItems, OnReceipt
<1> HIDE DEF r
<1> QED BY <1>1, <1>2, <1>4, <1>5, <1>6, MovesOn DEF r

LEMMA FindUnitsKeeps ==
  ASSUME DocumentsInv, NEW q \in Handlers, FindUnits(q)
  PROVE  DocumentsInv'
<1> DEFINE r == req[q]
           named == IF r.op = "add_units" THEN r.units ELSE Units
           found == {u \in named : Addable(u)}
           n == [r EXCEPT !.step = "insert", !.todo = found]
<1>1. /\ r \in RequestRecords /\ RequestFits(r) /\ r.step = "find" /\ r.op \in Adding
      /\ UNCHANGED <<dbVars, held>> /\ TypeInv /\ LocksCompatible(held)
  BY DEF FindUnits, At, DocumentsInv, TypeInv, LockInv, RequestFits
<1>2. found \in SUBSET Units /\ \A u \in found : unit[u] # "passed"
  BY <1>1 DEF RequestRecords, Addable
<1>3. req' = [req EXCEPT ![q] = n]
  BY <1>1 DEF FindUnits, RequestRecords, TypeInv
<1> HIDE DEF found
<1>4. n \in RequestRecords /\ Onward(r, n, "insert") /\ n.todo = found /\ n.added = r.added
  <2>1. "insert" \in Steps /\ r \in RequestRecords
    BY <1>1 DEF Steps
  <2> HIDE DEF r
  <2> QED BY <1>2, <2>1, WithTodo
<1> HIDE DEF n
<1>5. RequestFits(n)
  BY <1>1, <1>4, Fits
<1>6. InBatch(r) /\ InTheShipment(r) /\ ~InReceipt(n) /\ LocksGrow(q)
  BY <1>1, <1>4, LocksStay
     DEF Onward, InBatch, InTheShipment, InReceipt, Adding, OnShipment, OnItems, OnReceipt
<1> HIDE DEF r
<1> QED BY <1>1, <1>2, <1>3, <1>4, <1>5, <1>6, MovesOn DEF r

LEMMA InsertItemKeeps ==
  ASSUME DocumentsInv, NEW q \in Handlers, InsertItem(q)
  PROVE  DocumentsInv'
<1> DEFINE r == req[q]
<1>1. /\ r \in RequestRecords /\ RequestFits(r) /\ r.step = "insert" /\ r.op \in Adding
      /\ UNCHANGED dbVars /\ TypeInv /\ LocksCompatible(held) /\ r.todo \subseteq Units
      /\ \A u \in r.todo : unit[u] # "passed"
  BY DEF InsertItem, At, DocumentsInv, TypeInv, LockInv, RequestFits, RequestRecords, ChecksOf
<1>2. PICK step \in {"insert", "references"} : \E n, todo, added :
        /\ Becomes(q, n, step, todo, added) /\ LocksGrow(q) /\ todo \subseteq r.todo
        /\ \A u \in added : u \in r.added \/ (<<<<"item", u>>, Update>> \in held'[q] /\ ~InShipment(u) /\ u \in r.todo)
  <2>1. CASE r.todo = {}
    <3>1. Go(q, "references") /\ LocksGrow(q)
      BY <1>1, <2>1, LocksStay DEF InsertItem
    <3>2. \E n : Becomes(q, n, "references", r.todo, r.added)
      BY <1>1, <3>1, GoBecomes DEF Steps
    <3> QED BY <3>1, <3>2
  <2>2. ASSUME NEW u \in r.todo, UNCHANGED held, req' = [req EXCEPT ![q].todo = @ \ {u}]
        PROVE  LocksGrow(q) /\ \E n : Becomes(q, n, "insert", r.todo \ {u}, r.added)
    BY <1>1, <2>2, LocksStay, DoneBecomes
  <2>3. ASSUME NEW u \in r.todo, ~InShipment(u), Lock(q, <<"item", u>>, Update),
               req' = [req EXCEPT ![q].todo = @ \ {u}, ![q].added = @ \cup {u}]
        PROVE  /\ LocksGrow(q) /\ <<<<"item", u>>, Update>> \in held'[q]
               /\ \E n : Becomes(q, n, "insert", r.todo \ {u}, r.added \cup {u})
    <3>1. <<"item", u>> \in LockedRows /\ Update \in Modes /\ u \in Units
      BY <1>1 DEF LockedRows, Modes
    <3> QED BY <1>1, <2>3, <3>1, LockGrants, AddedBecomes
  <2>4. CASE r.todo # {}
    <3>1. PICK u \in r.todo :
            \/ UNCHANGED held /\ req' = [req EXCEPT ![q].todo = @ \ {u}]
            \/ /\ ~InShipment(u) /\ Lock(q, <<"item", u>>, Update)
               /\ req' = [req EXCEPT ![q].todo = @ \ {u}, ![q].added = @ \cup {u}]
      BY <2>4 DEF InsertItem
    <3>2. CASE UNCHANGED held /\ req' = [req EXCEPT ![q].todo = @ \ {u}]
      <4>1. LocksGrow(q) /\ \E n : Becomes(q, n, "insert", r.todo \ {u}, r.added)
        BY <2>2, <3>2
      <4> HIDE DEF r
      <4> QED BY <4>1
    <3>3. CASE /\ ~InShipment(u) /\ Lock(q, <<"item", u>>, Update)
               /\ req' = [req EXCEPT ![q].todo = @ \ {u}, ![q].added = @ \cup {u}]
      <4>1. /\ LocksGrow(q) /\ <<<<"item", u>>, Update>> \in held'[q]
            /\ \E n : Becomes(q, n, "insert", r.todo \ {u}, r.added \cup {u})
        BY <2>3, <3>3
      <4> HIDE DEF r
      <4> QED BY <3>3, <4>1
    <3> QED BY <3>1, <3>2, <3>3
  <2> QED BY <2>1, <2>4
<1>3. PICK n :
        /\ n \in RequestRecords /\ req' = [req EXCEPT ![q] = n] /\ Onward(r, n, step)
        /\ n.step = step /\ n.op = r.op /\ n.todo \subseteq r.todo /\ LocksGrow(q)
        /\ \A u \in n.added : u \in r.added \/ (<<<<"item", u>>, Update>> \in held'[q] /\ ~InShipment(u) /\ u \in r.todo)
  BY <1>2 DEF Becomes, Onward
<1>4. RequestFits(n)
  BY <1>1, <1>2, <1>3, Fits
<1>5. InBatch(r) /\ InTheShipment(r) /\ ~InReceipt(n)
  BY <1>1, <1>2, <1>3 DEF InBatch, InTheShipment, InReceipt, Adding, OnShipment, OnItems
<1>6. /\ \A u \in n.todo : unit[u] # "passed"
      /\ \A u \in n.added : \/ u \in r.added
                            \/ <<<<"item", u>>, Update>> \in held'[q] /\ ~InShipment(u) /\ unit[u] # "passed"
  BY <1>1, <1>2, <1>3
<1> HIDE DEF r
<1> QED BY <1>1, <1>2, <1>3, <1>4, <1>5, <1>6, MovesOn DEF r

LEMMA LockReferenceKeeps ==
  ASSUME DocumentsInv, NEW q \in Handlers, LockReference(q)
  PROVE  DocumentsInv'
<1> DEFINE r == req[q]
<1>1. /\ r \in RequestRecords /\ RequestFits(r) /\ r.step = "references" /\ r.op \in Adding
      /\ UNCHANGED dbVars /\ TypeInv /\ LocksCompatible(held) /\ r.added \subseteq Units
  BY DEF LockReference, At, DocumentsInv, TypeInv, LockInv, RequestFits, RequestRecords
<1>2. PICK step \in {"references", "write"} : \E n : Becomes(q, n, step, r.todo, r.added) /\ LocksGrow(q)
  <2>1. CASE Unreferenced(q) = {}
    <3>1. Go(q, "write") /\ LocksGrow(q)
      BY <1>1, <2>1, LocksStay DEF LockReference
    <3>2. \E n : Becomes(q, n, "write", r.todo, r.added)
      BY <1>1, <3>1, GoBecomes DEF Steps
    <3> QED BY <3>1, <3>2
  <2>2. CASE Unreferenced(q) # {}
    <3>1. PICK u \in r.added : Lock(q, <<"unit", u>>, KeyShare) /\ UNCHANGED req
      BY <2>2 DEF LockReference, Unreferenced
    <3>2. <<"unit", u>> \in LockedRows /\ KeyShare \in Modes
      BY <1>1 DEF LockedRows, Modes
    <3>3. LocksGrow(q)
      BY <1>1, <3>1, <3>2, LockGrants
    <3>4. Becomes(q, r, "references", r.todo, r.added)
      BY <1>1, <3>1 DEF Becomes, Onward, TypeInv
    <3> QED BY <3>3, <3>4
  <2> QED BY <2>1, <2>2
<1>3. PICK n : /\ n \in RequestRecords /\ req' = [req EXCEPT ![q] = n] /\ Onward(r, n, step)
               /\ n.added = r.added /\ n.step = step /\ n.op = r.op /\ LocksGrow(q)
  BY <1>2 DEF Becomes, Onward
<1>4. RequestFits(n)
  BY <1>1, <1>2, <1>3, Fits DEF Operations, OnShipment, OnItems, Adding
<1>5. InBatch(r) /\ InTheShipment(r) /\ ~InReceipt(n) /\ n.step # "insert"
  BY <1>1, <1>2, <1>3 DEF InBatch, InTheShipment, InReceipt, Adding, OnShipment, OnItems, OnReceipt
<1> HIDE DEF r
<1> QED BY <1>1, <1>3, <1>4, <1>5, MovesOn DEF r

LEMMA LockReceiptKeeps ==
  ASSUME DocumentsInv, NEW q \in Handlers, LockReceipt(q)
  PROVE  DocumentsInv'
<1> DEFINE r == req[q]
<1>1. /\ r \in RequestRecords /\ RequestFits(r) /\ r.step = "receipt" /\ r.op \in OnReceipt
      /\ UNCHANGED dbVars /\ TypeInv /\ LocksCompatible(held) /\ LocksOf(q) /\ ChecksOf(q)
      /\ Go(q, "write") /\ (AddedQty(r) > 0 => WithinPlan(r))
  BY DEF LockReceipt, At, DocumentsInv, TypeInv, LockInv, RequestFits
<1>2. LocksGrow(q) /\ (r.op # "create_receipt" => Open(r.receipt))
  <2>1. CASE r.op = "create_receipt"
    BY <1>1, <2>1, LocksStay DEF LockReceipt
  <2>2. CASE r.op # "create_receipt"
    <3>1. Lock(q, <<"receipt", r.receipt>>, Update) /\ Open(r.receipt)
      BY <2>2 DEF LockReceipt
    <3>2. <<"receipt", r.receipt>> \in LockedRows /\ Update \in Modes
      BY <1>1, <2>2 DEF LockedRows, Modes, RequestFits, OnReceipt
    <3> QED BY <1>1, <3>1, <3>2, LockGrants
  <2> QED BY <2>1, <2>2
<1>3. PICK n : Becomes(q, n, "write", r.todo, r.added)
  BY <1>1, GoBecomes DEF Steps
<1>4. /\ n \in RequestRecords /\ req' = [req EXCEPT ![q] = n] /\ Onward(r, n, "write") /\ n.added = r.added
      /\ n.step = "write" /\ n.op = r.op /\ n.receipt = r.receipt /\ n.quantity = r.quantity
  BY <1>3 DEF Becomes, Onward
<1>5. RequestFits(n)
  BY <1>1, <1>4, Fits DEF Operations
<1>6. /\ req' \in [Handlers -> RequestRecords] /\ \A o \in Handlers : RequestFits(req'[o])
      /\ req'[q] = n /\ \A o \in Handlers \ {q} : req'[o] = req[o]
  BY <1>1, <1>4, <1>5, NewRequest
<1>7. InBatch(r) /\ ~InTheShipment(n)
  BY <1>1, <1>4 DEF InBatch, InTheShipment, OnShipment, OnItems, OnReceipt
<1>8. LocksOf(q)'
  BY <1>1, <1>2, <1>4, <1>6, <1>7 DEF LocksOf, LocksGrow, Holds
<1>9. ChecksOf(q)'
  <2>1. \A u \in n.added : ~InShipment(u)' /\ unit'[u] # "passed"
    BY <1>1, <1>4, SameRows DEF ChecksOf, dbVars
  <2>2. n.op \notin {"archive", "restore"} => ~batch'.archived
    BY <1>1, <1>4, <1>7 DEF ChecksOf, dbVars
  <2>3. /\ n.op # "create_receipt" => Open(req[q].receipt)'
        /\ AddedQty(req[q])' > 0 => WithinPlan(req[q])'
    <3>1. UNCHANGED <<receipt, Received>>
      BY <1>1, SameReceived DEF dbVars
    <3>2. AddedQty(req[q])' = AddedQty(r)
      BY <1>4, <1>6, <3>1 DEF AddedQty
    <3>3. WithinPlan(req[q])' <=> AddedQty(req[q])' <= Planned - Received'
      BY DEF WithinPlan
    <3> QED BY <1>1, <1>2, <1>4, <1>6, <3>1, <3>2, <3>3 DEF Open, WithinPlan
  <2> QED BY <1>4, <1>6, <1>7, <2>1, <2>2, <2>3 DEF ChecksOf
<1> QED BY <1>1, <1>2, <1>6, <1>8, <1>9, ReadKeeps DEF OthersWait, LocksGrow

-----------------------------------------------------------------------------
(* The commits *)

(* A transaction that writes to its shipment has it locked.                *)
LEMMA ItsShipment ==
  ASSUME DocumentsInv, NEW q \in Handlers, At(q, "write"), req[q].op \in OnShipment
  PROVE  /\ req[q].shipment \in Shipments
         /\ Holds(q, <<"shipment", req[q].shipment>>, Update)
         /\ \/ shipment[req[q].shipment] = "open"
            \/ req[q].op = "void_shipment" /\ shipment[req[q].shipment] = "completed"
         /\ req[q].op = "complete_shipment" => Cardinality(UnitsOf(req[q].shipment)) = req[q].quantity
         /\ ~batch.archived
BY DEF DocumentsInv, TypeInv, LockInv, LocksOf, ChecksOf, RequestFits, At, InTheShipment, InBatch,
       OnShipment, OnItems

LEMMA ItsBatch ==
  ASSUME DocumentsInv, NEW q \in Handlers, At(q, "write"), req[q].op \in OnReceipt \cup OnBatch
  PROVE  Holds(q, <<"batch">>, Update)
BY DEF DocumentsInv, LockInv, LocksOf, At, InBatch, BatchMode

(* Changes of the items of the shipment s.                                 *)
LEMMA OtherShipments ==
  ASSUME NEW s, \A i \in items' : i \in items \/ i.shipment = s,
         \A i \in items : i \in items' \/ i.shipment = s,
         NEW x, x # s
  PROVE  UnitsOf(x)' = UnitsOf(x)
BY DEF UnitsOf, ItemsOf

LEMMA CreateShipmentKeeps ==
  ASSUME DocumentsInv, NEW q \in Handlers, CreateShipment(q)
  PROVE  DocumentsInv'
<1>1. PICK s \in Shipments : shipment[s] = "absent" /\ shipment' = [shipment EXCEPT ![s] = "open"]
  BY DEF CreateShipment
<1>2. End(q) /\ UNCHANGED <<batch, unit, items, receipt>>
  BY DEF CreateShipment
<1>3. /\ shipment' \in [Shipments -> {"absent", "open", "completed", "voided"}]
      /\ shipment'[s] = "open" /\ \A x \in Shipments \ {s} : shipment'[x] = shipment[x]
  BY <1>1 DEF DocumentsInv, TypeInv, Rows
<1>4. Rows'
  BY <1>2, <1>3 DEF DocumentsInv, TypeInv, Rows
<1>5. \A i \in items : i.shipment # s /\ i.shipment \in Shipments
  BY <1>1 DEF DocumentsInv, ItemsHaveShipments, TypeInv, Rows
<1>6. GuardedWrites(q)
  BY <1>1, <1>2, <1>3 DEF GuardedWrites, UnitsOf, ItemsOf, InShipment
<1>7. ItemsHaveShipments'
  BY <1>2, <1>3, <1>5 DEF DocumentsInv, ItemsHaveShipments
<1>8. ShippedWithItsShipment'
  BY <1>2, <1>3, <1>5 DEF DocumentsInv, ShippedWithItsShipment
<1> QED BY <1>2, <1>4, <1>6, <1>7, <1>8, CommitKeeps

(* A unit that is not in a shipment and has left the state "passed" is     *)
(* packed.                                                                 *)
LEMMA AddUnitsKeeps ==
  ASSUME DocumentsInv, NEW q \in Handlers, AddUnits(q)
  PROVE  DocumentsInv'
<1> DEFINE s == req[q].shipment
           new == {[shipment |-> s, unit |-> u, voided |-> FALSE] : u \in req[q].added}
<1>1. /\ End(q) /\ UNCHANGED <<batch, unit, shipment, receipt>> /\ items' = items \cup new
      /\ s \in Shipments /\ Holds(q, <<"shipment", s>>, Update) /\ shipment[s] = "open"
  BY ItsShipment DEF AddUnits, OnShipment, OnItems
<1>2. /\ req[q].added \subseteq Units
      /\ \A u \in req[q].added : ~InShipment(u) /\ unit[u] # "passed" /\ Holds(q, <<"item", u>>, Update)
  BY DEF DocumentsInv, TypeInv, LockInv, RequestRecords, LocksOf, ChecksOf
<1>3. \A i \in new : /\ i.shipment = s /\ i.unit \in req[q].added /\ ~i.voided
                     /\ i \in [shipment : Shipments, unit : Units, voided : BOOLEAN]
                     /\ \A j \in new : i.unit = j.unit => i = j
  <2> TAKE i \in new
  <2>1. PICK u \in req[q].added : i = [shipment |-> s, unit |-> u, voided |-> FALSE]
    OBVIOUS
  <2>2. u \in Units
    BY <1>2
  <2>3. \A j \in new : i.unit = j.unit => i = j
    BY <2>1
  <2> QED BY <1>1, <2>1, <2>2, <2>3
<1> HIDE DEF s, new
<1>4. items \subseteq [shipment : Shipments, unit : Units, voided : BOOLEAN]
  BY DEF DocumentsInv, TypeInv, Rows
<1>5. \A u \in req[q].added : unit[u] = "packed"
  <2> TAKE u \in req[q].added
  <2>1. u \in Units /\ unit[u] \in {"passed", "packed", "shipped"} /\ ~InShipment(u) /\ unit[u] # "passed"
    BY <1>2 DEF DocumentsInv, TypeInv, Rows
  <2>2. unit[u] = "shipped" => InShipment(u)
    BY <2>1 DEF DocumentsInv, ShippedWithItsShipment, InShipment
  <2> QED BY <2>1, <2>2
<1>6. Rows'
  BY <1>1, <1>3, <1>4 DEF DocumentsInv, TypeInv, Rows
<1>7. GuardedWrites(q)
  <2>1. \A x : x # s => UnitsOf(x)' = UnitsOf(x)
    BY <1>1, <1>3, OtherShipments
  <2>2. \A u \in Units : ~InShipment(u) /\ InShipment(u)' => u \in req[q].added
    BY <1>1, <1>3 DEF InShipment
  <2> QED BY <1>1, <1>2, <2>1, <2>2 DEF GuardedWrites
<1>8. ItemsHaveShipments'
  BY <1>1, <1>3 DEF DocumentsInv, ItemsHaveShipments
<1>9. ShippedWithItsShipment'
  <2>1. \A u \in Units : unit'[u] = "shipped" <=>
          \E i \in items' : i.unit = u /\ ~i.voided /\ shipment'[i.shipment] = "completed"
    BY <1>1, <1>3 DEF DocumentsInv, ShippedWithItsShipment
  <2>2. \A i \in items' : i.voided = (shipment'[i.shipment] = "voided")
    BY <1>1, <1>3, <1>4 DEF DocumentsInv, ShippedWithItsShipment
  <2>3. \A i, j \in items' : i.unit = j.unit /\ ~i.voided /\ ~j.voided => i = j
    <3>1. \A i \in items, j \in new : i.unit = j.unit => i.voided
      BY <1>2, <1>3 DEF InShipment
    <3> QED BY <1>1, <1>3, <3>1 DEF DocumentsInv, ShippedWithItsShipment
  <2>4. \A i \in items' : shipment'[i.shipment] = "open" => unit'[i.unit] = "packed"
    BY <1>1, <1>3, <1>5 DEF DocumentsInv, ShippedWithItsShipment
  <2> QED BY <2>1, <2>2, <2>3, <2>4 DEF ShippedWithItsShipment
<1> QED BY <1>1, <1>6, <1>7, <1>8, <1>9, CommitKeeps

LEMMA RemoveUnitKeeps ==
  ASSUME DocumentsInv, NEW q \in Handlers, RemoveUnit(q)
  PROVE  DocumentsInv'
<1> DEFINE s == req[q].shipment
<1>1. /\ End(q) /\ UNCHANGED <<batch, unit, shipment, receipt>>
      /\ s \in Shipments /\ Holds(q, <<"shipment", s>>, Update) /\ shipment[s] = "open"
      /\ items' \subseteq items /\ \A i \in items : i \in items' \/ i.shipment = s
  BY ItsShipment DEF RemoveUnit, OnShipment, OnItems
<1> HIDE DEF s
<1>2. Rows' /\ ItemsHaveShipments'
  BY <1>1 DEF DocumentsInv, TypeInv, Rows, ItemsHaveShipments
<1>3. GuardedWrites(q)
  <2>1. \A x : x # s => UnitsOf(x)' = UnitsOf(x)
    BY <1>1, OtherShipments
  <2>2. \A u \in Units : InShipment(u)' => InShipment(u)
    BY <1>1 DEF InShipment
  <2> QED BY <1>1, <2>1, <2>2 DEF GuardedWrites
<1>4. ShippedWithItsShipment'
  BY <1>1 DEF DocumentsInv, ShippedWithItsShipment
<1> QED BY <1>1, <1>2, <1>3, <1>4, CommitKeeps

LEMMA CompleteShipmentKeeps ==
  ASSUME DocumentsInv, NEW q \in Handlers, CompleteShipment(q)
  PROVE  DocumentsInv'
<1> DEFINE s == req[q].shipment
<1>1. /\ End(q) /\ UNCHANGED <<batch, items, receipt>>
      /\ s \in Shipments /\ Holds(q, <<"shipment", s>>, Update) /\ shipment[s] = "open"
      /\ unit' = Moved(s, "packed", "shipped")
      /\ shipment' = [shipment EXCEPT ![s] = "completed"]
      /\ \A u \in UnitsOf(s) : unit[u] = "packed"
  BY ItsShipment DEF CompleteShipment, OnShipment
<1> HIDE DEF s
<1>2. /\ unit \in [Units -> {"passed", "packed", "shipped"}]
      /\ items \subseteq [shipment : Shipments, unit : Units, voided : BOOLEAN]
      /\ \A u : u \in UnitsOf(s) <=> \E i \in items : i.shipment = s /\ i.unit = u
  BY DEF DocumentsInv, TypeInv, Rows, UnitsOf, ItemsOf
<1>3. \A u \in Units : unit'[u] = IF u \in UnitsOf(s) THEN "shipped" ELSE unit[u]
  BY <1>1, <1>2 DEF Moved
<1>4. /\ unit' \in [Units -> {"passed", "packed", "shipped"}]
      /\ shipment' \in [Shipments -> {"absent", "open", "completed", "voided"}]
      /\ shipment'[s] = "completed" /\ \A x \in Shipments \ {s} : shipment'[x] = shipment[x]
  BY <1>1, <1>2 DEF DocumentsInv, TypeInv, Rows, Moved
<1>5. Rows'
  BY <1>1, <1>4 DEF DocumentsInv, TypeInv, Rows
<1>6. ItemsHaveShipments'
  BY <1>1, <1>2, <1>4 DEF DocumentsInv, ItemsHaveShipments
<1>7. GuardedWrites(q)
  BY <1>1, <1>3, <1>4 DEF GuardedWrites, UnitsOf, ItemsOf, InShipment
<1>8. \A i \in items : i.shipment = s => ~i.voided
  BY <1>1 DEF DocumentsInv, ShippedWithItsShipment
<1>9. ShippedWithItsShipment'
  <2>1. ASSUME NEW u \in Units
        PROVE  unit'[u] = "shipped" <=>
                 \E i \in items' : i.unit = u /\ ~i.voided /\ shipment'[i.shipment] = "completed"
    <3>1. CASE u \in UnitsOf(s)
      BY <1>1, <1>2, <1>3, <1>4, <1>8, <3>1
    <3>2. CASE u \notin UnitsOf(s)
      BY <1>1, <1>2, <1>3, <1>4, <3>2 DEF DocumentsInv, ShippedWithItsShipment
    <3> QED BY <3>1, <3>2
  <2>2. \A i \in items' : i.voided = (shipment'[i.shipment] = "voided")
    BY <1>1, <1>2, <1>4 DEF DocumentsInv, ShippedWithItsShipment
  <2>3. \A i, j \in items' : i.unit = j.unit /\ ~i.voided /\ ~j.voided => i = j
    BY <1>1 DEF DocumentsInv, ShippedWithItsShipment
  <2>4. ASSUME NEW i \in items, shipment'[i.shipment] = "open"
        PROVE  unit'[i.unit] = "packed"
    <3>1. i.shipment # s /\ i.shipment \in Shipments /\ i.unit \in Units
      BY <1>2, <1>4, <2>4
    <3>2. shipment[i.shipment] = "open" /\ unit[i.unit] = "packed" /\ ~i.voided
      BY <1>4, <2>4, <3>1 DEF DocumentsInv, ShippedWithItsShipment
    <3>3. i.unit \notin UnitsOf(s)
      BY <1>2, <1>8, <3>1, <3>2 DEF DocumentsInv, ShippedWithItsShipment
    <3> QED BY <1>3, <3>1, <3>2, <3>3
  <2> QED BY <1>1, <2>1, <2>2, <2>3, <2>4 DEF ShippedWithItsShipment
<1> QED BY <1>1, <1>5, <1>6, <1>7, <1>9, CommitKeeps

LEMMA VoidShipmentKeeps ==
  ASSUME DocumentsInv, NEW q \in Handlers, VoidShipment(q)
  PROVE  DocumentsInv'
<1> DEFINE s == req[q].shipment
           void == {[i EXCEPT !.voided = TRUE] : i \in ItemsOf(s)}
<1>1. /\ End(q) /\ UNCHANGED <<batch, receipt>>
      /\ s \in Shipments /\ Holds(q, <<"shipment", s>>, Update) /\ shipment[s] \in {"open", "completed"}
      /\ unit' = IF shipment[s] = "completed" THEN Moved(s, "shipped", "packed") ELSE unit
      /\ items' = (items \ ItemsOf(s)) \cup void
      /\ shipment' = [shipment EXCEPT ![s] = "voided"]
  BY ItsShipment DEF VoidShipment, OnShipment
<1> HIDE DEF s
<1>2. /\ unit \in [Units -> {"passed", "packed", "shipped"}]
      /\ items \subseteq [shipment : Shipments, unit : Units, voided : BOOLEAN]
      /\ \A u : u \in UnitsOf(s) <=> \E i \in items : i.shipment = s /\ i.unit = u
      /\ \A i : i \in ItemsOf(s) <=> i \in items /\ i.shipment = s
  BY DEF DocumentsInv, TypeInv, Rows, UnitsOf, ItemsOf
<1>3. \A i \in void : /\ i.shipment = s /\ i.voided
                      /\ i \in [shipment : Shipments, unit : Units, voided : BOOLEAN]
  <2> TAKE i \in void
  <2>1. PICK j \in ItemsOf(s) : i = [j EXCEPT !.voided = TRUE]
    OBVIOUS
  <2>2. j \in [shipment : Shipments, unit : Units, voided : BOOLEAN] /\ j.shipment = s
    BY <1>2
  <2> QED BY <2>1, <2>2
<1> HIDE DEF void
<1>4. \A i : i \in items' /\ i.shipment # s <=> i \in items /\ i.shipment # s
  BY <1>1, <1>2, <1>3
<1>5. \A i \in items' : i.shipment = s => i.voided
  BY <1>1, <1>2, <1>3
<1>6. /\ shipment' \in [Shipments -> {"absent", "open", "completed", "voided"}]
      /\ shipment'[s] = "voided" /\ \A x \in Shipments \ {s} : shipment'[x] = shipment[x]
  BY <1>1 DEF DocumentsInv, TypeInv, Rows
<1>7. items' \subseteq [shipment : Shipments, unit : Units, voided : BOOLEAN]
  BY <1>1, <1>2, <1>3
<1>8. \A u \in Units : unit'[u] = IF shipment[s] = "completed" /\ u \in UnitsOf(s) /\ unit[u] = "shipped"
                                  THEN "packed" ELSE unit[u]
  BY <1>1, <1>2 DEF Moved
<1>9. unit' \in [Units -> {"passed", "packed", "shipped"}]
  <2>1. CASE shipment[s] = "completed"
    BY <1>1, <1>2, <2>1 DEF Moved
  <2> QED BY <1>1, <1>2, <2>1
<1>10. Rows'
  BY <1>1, <1>6, <1>7, <1>9 DEF DocumentsInv, TypeInv, Rows
<1>11. ItemsHaveShipments'
  BY <1>4, <1>6, <1>7 DEF DocumentsInv, ItemsHaveShipments
<1>12. GuardedWrites(q)
  <2>1. \A x : x # s => UnitsOf(x)' = UnitsOf(x)
    BY <1>4, OtherShipments
  <2>2. \A u \in Units : InShipment(u)' => InShipment(u)
    BY <1>4, <1>5 DEF InShipment
  <2>3. \A u \in Units : unit[u] # "passed" => unit'[u] # "passed"
    BY <1>8
  <2> QED BY <1>1, <1>6, <2>1, <2>2, <2>3 DEF GuardedWrites
<1>13. \A i \in items : i.shipment = s => ~i.voided
  BY <1>1 DEF DocumentsInv, ShippedWithItsShipment
<1>14. \A i \in items : i.shipment # s /\ ~i.voided => i.unit \notin UnitsOf(s)
  BY <1>2, <1>13 DEF DocumentsInv, ShippedWithItsShipment
<1>15. ShippedWithItsShipment'
  <2>1. ASSUME NEW u \in Units, unit'[u] = "shipped"
        PROVE  \E i \in items' : i.unit = u /\ ~i.voided /\ shipment'[i.shipment] = "completed"
    <3>1. unit[u] = "shipped" /\ ~(shipment[s] = "completed" /\ u \in UnitsOf(s))
      BY <1>8, <2>1
    <3>2. PICK i \in items : i.unit = u /\ ~i.voided /\ shipment[i.shipment] = "completed"
      BY <3>1 DEF DocumentsInv, ShippedWithItsShipment
    <3>3. i.shipment # s /\ i.shipment \in Shipments
      BY <1>2, <3>1, <3>2
    <3> QED BY <1>4, <1>6, <3>2, <3>3
  <2>2. ASSUME NEW u \in Units, NEW i \in items', i.unit = u, ~i.voided, shipment'[i.shipment] = "completed"
        PROVE  unit'[u] = "shipped"
    <3>1. i.shipment # s /\ i.shipment \in Shipments /\ i \in items
      BY <1>4, <1>5, <1>7, <2>2
    <3>2. unit[u] = "shipped" /\ u \notin UnitsOf(s)
      BY <1>6, <1>14, <2>2, <3>1 DEF DocumentsInv, ShippedWithItsShipment
    <3> QED BY <1>8, <3>2
  <2>3. ASSUME NEW i \in items'
        PROVE  i.voided = (shipment'[i.shipment] = "voided")
    <3>1. CASE i.shipment = s
      BY <1>5, <1>6, <1>7, <3>1
    <3>2. CASE i.shipment # s
      BY <1>4, <1>6, <1>7, <3>2 DEF DocumentsInv, ShippedWithItsShipment
    <3> QED BY <3>1, <3>2
  <2>4. ASSUME NEW i \in items', NEW j \in items', i.unit = j.unit, ~i.voided, ~j.voided
        PROVE  i = j
    BY <1>4, <1>5, <2>4 DEF DocumentsInv, ShippedWithItsShipment
  <2>5. ASSUME NEW i \in items', shipment'[i.shipment] = "open"
        PROVE  unit'[i.unit] = "packed"
    <3>1. i.shipment # s /\ i.shipment \in Shipments /\ i \in items /\ i.unit \in Units
      BY <1>4, <1>6, <1>7, <2>5
    <3>2. shipment[i.shipment] = "open" /\ unit[i.unit] = "packed"
      BY <1>6, <2>5, <3>1 DEF DocumentsInv, ShippedWithItsShipment
    <3> QED BY <1>8, <3>1, <3>2
  <2> QED BY <2>1, <2>2, <2>3, <2>4, <2>5 DEF ShippedWithItsShipment
<1> QED BY <1>1, <1>10, <1>11, <1>12, <1>15, CommitKeeps

LEMMA WriteReceiptKeeps ==
  ASSUME DocumentsInv, NEW q \in Handlers, WriteReceipt(q)
  PROVE  DocumentsInv'
<1> DEFINE r == req[q]
<1>1. /\ End(q) /\ UNCHANGED <<batch, unit, shipment, items>> /\ RequestFits(r) /\ r.op \in OnReceipt
      /\ Holds(q, <<"batch">>, Update)
  BY ItsBatch DEF WriteReceipt, DocumentsInv, TypeInv
<1>2. PICK x \in Receipts :
        receipt' = [receipt EXCEPT ![x] =
           IF r.op = "void_receipt" THEN [@ EXCEPT !.status = "voided"]
           ELSE [status |-> "open", quantity |-> r.quantity]]
  BY DEF WriteReceipt
<1>3. r.op # "void_receipt" => r.quantity \in Quantities
  BY <1>1 DEF RequestFits, OnReceipt
<1> HIDE DEF r
<1>4. receipt' \in [Receipts -> [status : {"absent", "open", "voided"}, quantity : {0} \cup Quantities]]
  <2>1. receipt \in [Receipts -> [status : {"absent", "open", "voided"}, quantity : {0} \cup Quantities]]
    BY DEF DocumentsInv, TypeInv, Rows
  <2>2. CASE r.op = "void_receipt"
    BY <1>2, <2>1, <2>2
  <2>3. CASE r.op # "void_receipt"
    BY <1>2, <1>3, <2>1, <2>3
  <2> QED BY <2>2, <2>3
<1>5. Rows' /\ ItemsHaveShipments' /\ ShippedWithItsShipment'
  BY <1>1, <1>4 DEF DocumentsInv, TypeInv, Rows, ItemsHaveShipments, ShippedWithItsShipment
<1>6. GuardedWrites(q)
  BY <1>1 DEF GuardedWrites, UnitsOf, ItemsOf, InShipment
<1> QED BY <1>1, <1>5, <1>6, CommitKeeps

LEMMA WriteBatchKeeps ==
  ASSUME DocumentsInv, NEW q \in Handlers, WriteBatch(q)
  PROVE  DocumentsInv'
<1>1. /\ End(q) /\ UNCHANGED <<unit, shipment, items, receipt>> /\ Holds(q, <<"batch">>, Update)
      /\ \/ batch' = [batch EXCEPT !.completed = TRUE]
         \/ batch' = [batch EXCEPT !.archived = TRUE]
         \/ batch' = [batch EXCEPT !.archived = FALSE]
  <2>1. (req[q].op = "archive") \in BOOLEAN
    OBVIOUS
  <2>2. CASE req[q].op = "archive"
    BY <2>2, ItsBatch DEF WriteBatch
  <2>3. CASE req[q].op # "archive"
    BY <2>3, ItsBatch DEF WriteBatch
  <2> QED BY <2>2, <2>3
<1>2. batch' \in [archived : BOOLEAN, completed : BOOLEAN]
  BY <1>1 DEF DocumentsInv, TypeInv, Rows
<1>3. Rows' /\ ItemsHaveShipments' /\ ShippedWithItsShipment'
  BY <1>1, <1>2 DEF DocumentsInv, TypeInv, Rows, ItemsHaveShipments, ShippedWithItsShipment
<1>4. GuardedWrites(q)
  BY <1>1 DEF GuardedWrites, UnitsOf, ItemsOf, InShipment
<1> QED BY <1>1, <1>3, <1>4, CommitKeeps

(* A unit that is packed leaves the state "passed", and is in no shipment. *)
LEMMA PackKeeps ==
  ASSUME DocumentsInv, NEW u \in Units, Pack(u)
  PROVE  DocumentsInv'
<1>1. /\ unit[u] = "passed" /\ unit' = [unit EXCEPT ![u] = "packed"]
      /\ UNCHANGED <<batch, shipment, items, receipt, held, req>>
  BY DEF Pack
<1>2. /\ unit' \in [Units -> {"passed", "packed", "shipped"}]
      /\ unit'[u] = "packed" /\ \A x \in Units \ {u} : unit'[x] = unit[x]
      /\ items \subseteq [shipment : Shipments, unit : Units, voided : BOOLEAN]
  BY <1>1 DEF DocumentsInv, TypeInv, Rows
<1>3. TypeInv' /\ ItemsHaveShipments'
  BY <1>1, <1>2 DEF DocumentsInv, TypeInv, Rows, ItemsHaveShipments
<1>4. ASSUME NEW q \in Handlers
      PROVE  LocksOf(q)' /\ ChecksOf(q)'
  <2> DEFINE r == req[q]
  <2>1. LocksOf(q) /\ ChecksOf(q) /\ req'[q] = r /\ r.added \subseteq Units /\ r.todo \subseteq Units
    BY <1>1 DEF DocumentsInv, LockInv, TypeInv, RequestRecords
  <2>2. LocksOf(q)'
    BY <1>1, <2>1 DEF LocksOf, Holds
  <2>3. \A x \in r.added : ~InShipment(x)' /\ unit'[x] # "passed"
    BY <1>1, <1>2, <2>1 DEF ChecksOf, InShipment
  <2>4. r.step = "insert" => \A x \in r.todo : unit'[x] # "passed"
    BY <1>1, <1>2, <2>1 DEF ChecksOf
  <2>5. UNCHANGED Received
    BY <1>1, SameReceived
  <2>6. \A s : UnitsOf(s)' = UnitsOf(s)
    BY <1>1 DEF UnitsOf, ItemsOf
  <2>7. AddedQty(req[q])' = AddedQty(req[q]) /\ (Open(req[q].receipt)' <=> Open(req[q].receipt))
    BY <1>1 DEF AddedQty, Open
  <2>8. WithinPlan(req[q])' <=> WithinPlan(req[q])
    BY <2>5, <2>7 DEF WithinPlan
  <2> QED BY <1>1, <2>1, <2>2, <2>3, <2>4, <2>6, <2>7, <2>8 DEF ChecksOf
<1>5. LockInv'
  BY <1>1, <1>4 DEF DocumentsInv, LockInv
<1>6. ShippedWithItsShipment'
  BY <1>1, <1>2 DEF DocumentsInv, ShippedWithItsShipment
<1> QED BY <1>3, <1>5, <1>6 DEF DocumentsInv

-----------------------------------------------------------------------------
(* The invariant holds *)

LEMMA DocumentsInit == Init => DocumentsInv
<1> SUFFICES ASSUME Init PROVE DocumentsInv
  OBVIOUS
<1>1. TypeInv
  BY NoRequestType DEF Init, TypeInv, Rows
<1>2. ASSUME NEW q \in Handlers
      PROVE  LocksOf(q) /\ ChecksOf(q)
  <2>1. req[q].op = "none" /\ req[q].step = "idle" /\ req[q].added = {}
    BY DEF Init, NoRequest
  <2> QED BY <2>1 DEF LocksOf, ChecksOf, InBatch, InTheShipment, InReceipt
<1>3. LockInv
  BY <1>2 DEF Init, LockInv, LocksCompatible
<1> QED BY <1>1, <1>3 DEF Init, DocumentsInv, ItemsHaveShipments, ShippedWithItsShipment

LEMMA StutterKeeps == DocumentsInv /\ UNCHANGED vars => DocumentsInv'
<1> SUFFICES ASSUME DocumentsInv, UNCHANGED vars PROVE DocumentsInv'
  OBVIOUS
<1>1. UNCHANGED <<batch, unit, shipment, items, receipt, held, req>> /\ UNCHANGED dbVars
  BY DEF vars, dbVars
<1>2. TypeInv'
  BY <1>1, SameRows DEF DocumentsInv, TypeInv
<1>3. ASSUME NEW q \in Handlers
      PROVE  LocksOf(q)' /\ ChecksOf(q)'
  <2>1. LocksOf(q) /\ ChecksOf(q)
    BY DEF DocumentsInv, LockInv
  <2>2. LocksOf(q)'
    BY <1>1, <2>1 DEF LocksOf, Holds
  <2>3. UNCHANGED Received
    BY <1>1, SameReceived
  <2>4. AddedQty(req[q])' = AddedQty(req[q]) /\ (Open(req[q].receipt)' <=> Open(req[q].receipt))
    BY <1>1 DEF AddedQty, Open
  <2>5. WithinPlan(req[q])' <=> WithinPlan(req[q])
    BY <2>3, <2>4 DEF WithinPlan
  <2> QED BY <1>1, <2>1, <2>2, <2>4, <2>5, SameRows DEF ChecksOf
<1>4. LockInv'
  BY <1>1, <1>3 DEF DocumentsInv, LockInv
<1> QED BY <1>1, <1>2, <1>4, SameRows DEF DocumentsInv

LEMMA DocumentsStep == DocumentsInv /\ [Next]_vars => DocumentsInv'
<1> SUFFICES ASSUME DocumentsInv, Next PROVE DocumentsInv'
  BY StutterKeeps
<1>1. ASSUME NEW q \in Handlers, Proceed(q)
      PROVE  DocumentsInv'
  BY <1>1, LockBatchKeeps, LockShipmentKeeps, LockUnitKeeps, FindUnitsKeeps, InsertItemKeeps,
     LockReferenceKeeps, LockReceiptKeeps, CreateShipmentKeeps, AddUnitsKeeps, RemoveUnitKeeps,
     CompleteShipmentKeeps, VoidShipmentKeeps, WriteReceiptKeeps, WriteBatchKeeps DEF Proceed
<1> QED BY <1>1, RequestOnShipmentKeeps, RequestOnReceiptKeeps, RequestOnBatchKeeps, RollbackKeeps,
           PackKeeps DEF Next

LEMMA Documents == Spec => []DocumentsInv
BY DocumentsInit, DocumentsStep, PTL DEF Spec

(* The rows are typed, the requests known and the locks compatible.        *)
THEOREM DocumentsAreTyped == Spec => []TypeOK
<1>1. ASSUME DocumentsInv, offered \in Offered
      PROVE  TypeOK
  <2>1. \A q \in Handlers : req[q] \in RequestRecords
    BY <1>1 DEF DocumentsInv, TypeInv
  <2>2. \A q \in Handlers : req[q].op \in Operations \cup {"none"}
    BY <2>1 DEF RequestRecords
  <2> QED BY <1>1, <2>2 DEF TypeOK, DocumentsInv, TypeInv, Rows, LockInv
<1>2. DocumentsInv /\ offered \in Offered => TypeOK
  BY <1>1
<1>3. Init => offered \in Offered
  BY DEF Init
<1>4. offered \in Offered /\ [Next]_vars => (offered \in Offered)'
  BY DEF Next, vars
<1> QED BY <1>2, <1>3, <1>4, Documents, PTL DEF Spec

(* A unit is shipped if and only if it is in a completed shipment, and in  *)
(* no other: for any number of units, shipments and overlapping requests.  *)
THEOREM ShipmentsHoldTheirUnits == Spec => []ShippedWithItsShipment
<1>1. DocumentsInv => ShippedWithItsShipment
  BY DEF DocumentsInv
<1> QED BY <1>1, Documents, PTL

-----------------------------------------------------------------------------
(* What a step never does *)

LEMMA RequestsOnlyRead ==
  ASSUME NEW q \in Handlers, RequestOnShipment(q) \/ RequestOnReceipt(q) \/ RequestOnBatch(q) \/ Rollback(q)
  PROVE  UNCHANGED dbVars
BY DEF RequestOnShipment, RequestOnReceipt, RequestOnBatch, Rollback, Begin

LEMMA LocksOnlyRead ==
  ASSUME NEW q \in Handlers,
         \/ LockBatch(q) \/ LockShipment(q) \/ LockUnit(q) \/ FindUnits(q) \/ InsertItem(q)
         \/ LockReference(q) \/ LockReceipt(q)
  PROVE  UNCHANGED dbVars
BY DEF LockBatch, LockShipment, LockUnit, FindUnits, InsertItem, LockReference, LockReceipt

(* A step of Next reads, packs a unit, or is one of the commits.           *)
Commit(q) ==
  \/ CreateShipment(q) \/ AddUnits(q) \/ RemoveUnit(q) \/ CompleteShipment(q) \/ VoidShipment(q)
  \/ WriteReceipt(q) \/ WriteBatch(q)

LEMMA StepsAre ==
  ASSUME [Next]_vars
  PROVE  UNCHANGED dbVars \/ (\E u \in Units : Pack(u)) \/ (\E q \in Handlers : Commit(q))
<1>1. CASE UNCHANGED vars
  BY <1>1 DEF vars
<1>2. CASE Next
  <2>1. CASE \E u \in Units : Pack(u)
    BY <2>1
  <2>2. ASSUME NEW q \in Handlers,
               \/ RequestOnShipment(q) \/ RequestOnReceipt(q) \/ RequestOnBatch(q)
               \/ Proceed(q) \/ Rollback(q)
        PROVE  UNCHANGED dbVars \/ Commit(q)
    BY <2>2, RequestsOnlyRead, LocksOnlyRead DEF Proceed, Commit
  <2> QED BY <1>2, <2>1, <2>2 DEF Next
<1> QED BY <1>1, <1>2

LeavesOrStays(s) ==
  /\ shipment[s] = "open" /\ shipment'[s] = "completed" =>
       \E q \in Handlers :
         /\ req[q].op = "complete_shipment" /\ req[q].shipment = s
         /\ Cardinality(UnitsOf(s)') = req[q].quantity
  /\ shipment[s] \in {"completed", "voided"} => UnitsOf(s)' = UnitsOf(s)

LEMMA ShipmentsStep ==
  ASSUME DocumentsInv, [Next]_vars, NEW s \in Shipments
  PROVE  LeavesOrStays(s)
<1>1. ASSUME UNCHANGED <<shipment, items>>
      PROVE  LeavesOrStays(s)
  BY <1>1 DEF LeavesOrStays, UnitsOf, ItemsOf
<1>2. ASSUME UNCHANGED dbVars \/ \E u \in Units : Pack(u)
      PROVE  LeavesOrStays(s)
  BY <1>1, <1>2 DEF dbVars, Pack
<1>3. ASSUME NEW q \in Handlers, WriteReceipt(q) \/ WriteBatch(q)
      PROVE  LeavesOrStays(s)
  BY <1>1, <1>3 DEF WriteReceipt, WriteBatch
<1>4. shipment \in [Shipments -> {"absent", "open", "completed", "voided"}]
  BY DEF DocumentsInv, TypeInv, Rows
<1>5. ASSUME NEW q \in Handlers, CreateShipment(q)
      PROVE  LeavesOrStays(s)
  BY <1>4, <1>5 DEF CreateShipment, LeavesOrStays, UnitsOf, ItemsOf
<1>6. ASSUME NEW q \in Handlers, AddUnits(q) \/ RemoveUnit(q)
      PROVE  LeavesOrStays(s)
  <2> DEFINE x == req[q].shipment
  <2>1. /\ x \in Shipments /\ shipment[x] = "open" /\ UNCHANGED shipment
        /\ \A i \in items' : i \in items \/ i.shipment = x
        /\ \A i \in items : i \in items' \/ i.shipment = x
    <3>1. CASE AddUnits(q)
      <4> DEFINE new == {[shipment |-> x, unit |-> u, voided |-> FALSE] : u \in req[q].added}
      <4>1. \A i \in new : i.shipment = x
        OBVIOUS
      <4>2. /\ x \in Shipments /\ shipment[x] = "open" /\ UNCHANGED shipment
            /\ items' = items \cup new
        BY <3>1, ItsShipment DEF AddUnits, OnShipment, OnItems
      <4> HIDE DEF new
      <4> QED BY <4>1, <4>2
    <3>2. CASE RemoveUnit(q)
      BY <3>2, ItsShipment DEF RemoveUnit, OnShipment, OnItems
    <3> QED BY <1>6, <3>1, <3>2
  <2> HIDE DEF x
  <2>2. s # x => UnitsOf(s)' = UnitsOf(s)
    BY <2>1, OtherShipments
  <2> QED BY <2>1, <2>2 DEF LeavesOrStays
<1>7. ASSUME NEW q \in Handlers, CompleteShipment(q)
      PROVE  LeavesOrStays(s)
  <2>1. /\ req[q].op = "complete_shipment" /\ UNCHANGED items
        /\ shipment' = [shipment EXCEPT ![req[q].shipment] = "completed"]
        /\ Cardinality(UnitsOf(req[q].shipment)) = req[q].quantity
    BY <1>7, ItsShipment DEF CompleteShipment, OnShipment
  <2>2. \A t : UnitsOf(t)' = UnitsOf(t)
    BY <2>1 DEF UnitsOf, ItemsOf
  <2> QED BY <1>4, <2>1, <2>2 DEF LeavesOrStays
<1>8. ASSUME NEW q \in Handlers, VoidShipment(q)
      PROVE  LeavesOrStays(s)
  <2> DEFINE x == req[q].shipment
  <2>1. /\ x \in Shipments /\ shipment' = [shipment EXCEPT ![x] = "voided"]
        /\ items' = (items \ ItemsOf(x)) \cup {[i EXCEPT !.voided = TRUE] : i \in ItemsOf(x)}
    BY <1>8, ItsShipment DEF VoidShipment, OnShipment
  <2>2. items \subseteq [shipment : Shipments, unit : Units, voided : BOOLEAN]
    BY DEF DocumentsInv, TypeInv, Rows
  <2> HIDE DEF x
  <2>3. UnitsOf(s)' = UnitsOf(s)
    <3>1. ASSUME NEW u \in UnitsOf(s)
          PROVE  u \in UnitsOf(s)'
      <4>1. PICK i \in items : i.shipment = s /\ i.unit = u
        BY DEF UnitsOf, ItemsOf
      <4>2. CASE s = x
        <5>1. [i EXCEPT !.voided = TRUE] \in items'
          BY <2>1, <4>1, <4>2 DEF ItemsOf
        <5>2. [i EXCEPT !.voided = TRUE].shipment = s /\ [i EXCEPT !.voided = TRUE].unit = u
          BY <2>2, <4>1
        <5> QED BY <5>1, <5>2 DEF UnitsOf, ItemsOf
      <4>3. CASE s # x
        <5>1. i \in items'
          BY <2>1, <4>1, <4>3 DEF ItemsOf
        <5> QED BY <4>1, <5>1 DEF UnitsOf, ItemsOf
      <4> QED BY <4>2, <4>3
    <3>2. ASSUME NEW u \in UnitsOf(s)'
          PROVE  u \in UnitsOf(s)
      <4>1. PICK i \in items' : i.shipment = s /\ i.unit = u
        BY DEF UnitsOf, ItemsOf
      <4>2. PICK j \in items : j.shipment = s /\ j.unit = u
        <5>1. CASE i \in items
          BY <4>1, <5>1
        <5>2. CASE i \notin items
          <6>1. PICK j \in ItemsOf(x) : i = [j EXCEPT !.voided = TRUE]
            BY <2>1, <5>2
          <6>2. j \in items /\ j \in [shipment : Shipments, unit : Units, voided : BOOLEAN]
            BY <2>2, <6>1 DEF ItemsOf
          <6>3. i.shipment = j.shipment /\ i.unit = j.unit
            BY <6>1, <6>2
          <6> QED BY <4>1, <6>2, <6>3
        <5> QED BY <5>1, <5>2
      <4> QED BY <4>2 DEF UnitsOf, ItemsOf
    <3> QED BY <3>1, <3>2
  <2>4. shipment'[s] = "completed" => shipment[s] = "completed"
    BY <1>4, <2>1
  <2> QED BY <2>3, <2>4 DEF LeavesOrStays
<1> QED BY <1>2, <1>3, <1>5, <1>6, <1>7, <1>8, StepsAre DEF Commit

(* A shipment leaves with the number of units its user confirmed, and what *)
(* has left or was voided keeps its units.                                 *)
THEOREM ShipmentsLeaveAsConfirmed == Spec => LeavesAsConfirmed
<1> DEFINE Step == \A s \in Shipments : LeavesOrStays(s)
<1>1. DocumentsInv /\ [Next]_vars => Step
  BY ShipmentsStep
<1>2. Spec => [][Step]_vars
  BY <1>1, Documents, PTL DEF Spec
<1> QED BY <1>2 DEF LeavesAsConfirmed, LeavesOrStays

(* The documents of an archived batch do not change.                       *)
LEMMA ArchivedStep ==
  ASSUME DocumentsInv, [Next]_vars, batch.archived
  PROVE  UNCHANGED <<unit, shipment, items, receipt, batch.completed>>
<1>1. CASE UNCHANGED dbVars \/ \E u \in Units : Pack(u)
  BY <1>1 DEF dbVars, Pack
<1>2. ASSUME NEW q \in Handlers, Commit(q)
      PROVE  UNCHANGED <<unit, shipment, items, receipt, batch.completed>>
  <2>1. req[q].op \in {"archive", "restore"}
    <3>1. ChecksOf(q) /\ InBatch(req[q])
      BY <1>2 DEF DocumentsInv, LockInv, Commit, InBatch, At, CreateShipment, AddUnits, RemoveUnit,
                  CompleteShipment, VoidShipment, WriteReceipt, WriteBatch
    <3> QED BY <3>1 DEF ChecksOf
  <2>2. WriteBatch(q)
    BY <1>2, <2>1 DEF Commit, CreateShipment, AddUnits, RemoveUnit, CompleteShipment, VoidShipment,
                      WriteReceipt, OnReceipt
  <2>3. /\ UNCHANGED <<unit, shipment, items, receipt>>
        /\ batch' = [batch EXCEPT !.archived = req[q].op = "archive"]
    BY <2>1, <2>2 DEF WriteBatch
  <2>4. batch'.completed = batch.completed
    BY <2>3 DEF DocumentsInv, TypeInv, Rows
  <2> QED BY <2>3, <2>4
<1> QED BY <1>1, <1>2, StepsAre

THEOREM ArchivedDocumentsAreFrozen == Spec => ArchivedIsFrozen
<1> DEFINE Step == batch.archived => UNCHANGED <<unit, shipment, items, receipt, batch.completed>>
<1>1. DocumentsInv /\ [Next]_vars => Step
  BY ArchivedStep
<1>2. Spec => [][Step]_vars
  BY <1>1, Documents, PTL DEF Spec
<1> QED BY <1>2 DEF ArchivedIsFrozen

-----------------------------------------------------------------------------
(* Why only the two ways of adding units deadlock.  Whoever waits for the  *)
(* batch holds nothing, and whoever waits for a shipment or a receipt the  *)
(* batch alone; other than to add them, a request locks the units that are *)
(* in its shipment, which is in no other that is open or completed.        *)

WaitingHolds(q) ==
  LET r == req[q]
  IN /\ r.step \in {"idle", "batch"} => held[q] = {}
     /\ r.step \in {"shipment", "receipt"} => \A l \in held[q] : l[1] = <<"batch">>
     /\ r.op \notin Adding =>
          /\ \A u \in Units, m \in Modes :
               Holds(q, <<"unit", u>>, m) => InTheShipment(r) /\ u \in UnitsOf(r.shipment)
          /\ r.step = "units" => r.todo \subseteq UnitsOf(r.shipment)

WaitInv == \A q \in Handlers : WaitingHolds(q)

LEMMA ChangesItsItems ==
  ASSUME DocumentsInv, NEW q \in Handlers, Commit(q)
  PROVE  \/ UNCHANGED items
         \/ /\ Holds(q, <<"shipment", req[q].shipment>>, Update)
            /\ \A i \in items' : i \in items \/ i.shipment = req[q].shipment
            /\ \A i \in items : i \in items' \/ i.shipment = req[q].shipment
<1> DEFINE x == req[q].shipment
<1>1. CASE CreateShipment(q) \/ CompleteShipment(q) \/ WriteReceipt(q) \/ WriteBatch(q)
  BY <1>1 DEF CreateShipment, CompleteShipment, WriteReceipt, WriteBatch
<1>2. CASE AddUnits(q)
  <2> DEFINE new == {[shipment |-> x, unit |-> u, voided |-> FALSE] : u \in req[q].added}
  <2>1. \A i \in new : i.shipment = x
    OBVIOUS
  <2>2. Holds(q, <<"shipment", x>>, Update) /\ items' = items \cup new
    BY <1>2, ItsShipment DEF AddUnits, OnShipment, OnItems
  <2> HIDE DEF new
  <2> QED BY <2>1, <2>2
<1>3. CASE RemoveUnit(q)
  BY <1>3, ItsShipment DEF RemoveUnit, OnShipment, OnItems
<1>4. CASE VoidShipment(q)
  <2>1. /\ Holds(q, <<"shipment", x>>, Update)
        /\ items' = (items \ ItemsOf(x)) \cup {[i EXCEPT !.voided = TRUE] : i \in ItemsOf(x)}
    BY <1>4, ItsShipment DEF VoidShipment, OnShipment
  <2>2. \A i \in ItemsOf(x) : i.shipment = x /\ i \in [shipment : Shipments, unit : Units, voided : BOOLEAN]
    BY DEF DocumentsInv, TypeInv, Rows, ItemsOf
  <2>3. \A i \in ItemsOf(x) : [i EXCEPT !.voided = TRUE].shipment = x
    BY <2>2
  <2> HIDE DEF x
  <2>4. \A i \in items' : i \in items \/ i.shipment = x
    BY <2>1, <2>3
  <2>5. \A i \in items : i \in items' \/ i.shipment = x
    BY <2>1, <2>2
  <2> QED BY <2>1, <2>4, <2>5 DEF x
<1> QED BY <1>1, <1>2, <1>3, <1>4 DEF Commit

(* The units of a shipment that another transaction has locked stay.       *)
LEMMA LockedUnitsStay ==
  ASSUME DocumentsInv, [Next]_vars, NEW o \in Handlers, InTheShipment(req[o]), req'[o] = req[o]
  PROVE  UnitsOf(req[o].shipment)' = UnitsOf(req[o].shipment)
<1> DEFINE s == req[o].shipment
<1>1. CASE UNCHANGED items
  BY <1>1 DEF UnitsOf, ItemsOf
<1>2. ASSUME NEW q \in Handlers, Commit(q), ~UNCHANGED items
      PROVE  UnitsOf(req[o].shipment)' = UnitsOf(req[o].shipment)
  <2>1. /\ Holds(q, <<"shipment", req[q].shipment>>, Update)
        /\ \A i \in items' : i \in items \/ i.shipment = req[q].shipment
        /\ \A i \in items : i \in items' \/ i.shipment = req[q].shipment
    BY <1>2, ChangesItsItems
  <2>2. Holds(o, <<"shipment", s>>, Update)
    BY DEF DocumentsInv, LockInv, LocksOf
  <2>3. q # o
    <3>1. req'[q] = NoRequest
      BY <1>2 DEF Commit, CreateShipment, AddUnits, RemoveUnit, CompleteShipment, VoidShipment,
                  WriteReceipt, WriteBatch, End, DocumentsInv, TypeInv
    <3> QED BY <3>1 DEF NoRequest, InTheShipment
  <2>4. req[q].shipment # s
    BY <2>1, <2>2, <2>3, Excluded DEF Conflict, DocumentsInv, LockInv
  <2>5. \A x : x # req[q].shipment => UnitsOf(x)' = UnitsOf(x)
    BY <2>1, OtherShipments
  <2>6. PICK x : x = s
    OBVIOUS
  <2>7. UnitsOf(x)' = UnitsOf(x)
    BY <2>4, <2>5, <2>6
  <2> QED BY <2>6, <2>7
<1> QED BY <1>1, <1>2, StepsAre DEF dbVars, Pack

LEMMA OthersStillWait ==
  ASSUME DocumentsInv, WaitInv, [Next]_vars, NEW q \in Handlers, OthersWait(q), WaitingHolds(q)'
  PROVE  WaitInv'
<1> SUFFICES ASSUME NEW o \in Handlers \ {q} PROVE WaitingHolds(o)'
  BY DEF WaitInv
<1>1. WaitingHolds(o) /\ req'[o] = req[o] /\ held'[o] = held[o] /\ RequestFits(req[o])
  BY DEF WaitInv, OthersWait, DocumentsInv, TypeInv
<1>2. ASSUME InTheShipment(req[o])
      PROVE  UnitsOf(req[o].shipment)' = UnitsOf(req[o].shipment)
  BY <1>1, <1>2, LockedUnitsStay
<1>3. req[o].op \notin Adding /\ req[o].step = "units" => InTheShipment(req[o])
  BY <1>1 DEF RequestFits, InTheShipment, OnShipment, Adding
<1> QED BY <1>1, <1>2, <1>3 DEF WaitingHolds, Holds

LEMMA LockAdds ==
  ASSUME TypeInv, NEW q \in Handlers, NEW row, NEW mode, Lock(q, row, mode)
  PROVE  /\ held'[q] = held[q] \cup {<<row, mode>>}
         /\ \A o \in Handlers \ {q} : held'[o] = held[o]
BY DEF TypeInv, Lock, Grant

LEMMA GoMoves ==
  ASSUME TypeInv, NEW q \in Handlers, NEW step, Go(q, step)
  PROVE  /\ req'[q].step = step /\ req'[q].op = req[q].op /\ req'[q].shipment = req[q].shipment
         /\ \A o \in Handlers \ {q} : req'[o] = req[o]
<1>1. req[q] \in RequestRecords
  BY DEF TypeInv
<1>2. req' = [req EXCEPT ![q] = [req[q] EXCEPT !.step = step]]
  BY GoIs
<1>3. /\ [req[q] EXCEPT !.step = step].step = step
      /\ [req[q] EXCEPT !.step = step].op = req[q].op
      /\ [req[q] EXCEPT !.step = step].shipment = req[q].shipment
  BY <1>1 DEF RequestRecords
<1> QED BY <1>2, <1>3 DEF TypeInv

LEMMA BeginWaits ==
  ASSUME DocumentsInv, WaitInv, [Next]_vars, NEW q \in Handlers, NEW r, r.step = "batch", Begin(q, r)
  PROVE  WaitInv'
<1>1. held'[q] = {} /\ req'[q] = r /\ OthersWait(q)
  BY DEF Begin, At, WaitInv, WaitingHolds, OthersWait, DocumentsInv, TypeInv
<1>2. WaitingHolds(q)'
  BY <1>1 DEF WaitingHolds, Holds
<1> QED BY <1>1, <1>2, OthersStillWait

LEMMA EndWaits ==
  ASSUME DocumentsInv, WaitInv, [Next]_vars, NEW q \in Handlers, End(q)
  PROVE  WaitInv'
<1>1. held'[q] = {} /\ req'[q] = NoRequest /\ OthersWait(q)
  BY DEF End, ReleaseAll, OthersWait, DocumentsInv, TypeInv
<1>2. WaitingHolds(q)'
  BY <1>1 DEF WaitingHolds, Holds, NoRequest
<1> QED BY <1>1, <1>2, OthersStillWait

LEMMA LockBatchWaits ==
  ASSUME DocumentsInv, WaitInv, [Next]_vars, NEW q \in Handlers, LockBatch(q)
  PROVE  WaitInv'
<1> DEFINE step == CASE req[q].op \in OnShipment -> "shipment"
                     [] req[q].op \in OnReceipt -> "receipt"
                     [] OTHER -> "write"
<1>1. held[q] = {}
  BY DEF LockBatch, At, WaitInv, WaitingHolds
<1>2. held'[q] = {<<<<"batch">>, BatchMode(req[q].op)>>} /\ \A o \in Handlers \ {q} : held'[o] = held[o]
  BY <1>1, LockAdds DEF LockBatch, DocumentsInv
<1>3. Go(q, step) /\ step \in {"shipment", "receipt", "write"}
  BY DEF LockBatch
<1> HIDE DEF step
<1>4. req'[q].step = step /\ \A o \in Handlers \ {q} : req'[o] = req[o]
  BY <1>3, GoMoves DEF DocumentsInv
<1>5. \A u \in Units, m \in Modes : ~Holds(q, <<"unit", u>>, m)'
  BY <1>2 DEF Holds
<1>6. WaitingHolds(q)'
  BY <1>2, <1>3, <1>4, <1>5 DEF WaitingHolds
<1> QED BY <1>2, <1>4, <1>6, OthersStillWait DEF OthersWait

(* What completes or voids a shipment goes on to lock units of it.         *)
LEMMA LockShipmentWaits ==
  ASSUME DocumentsInv, WaitInv, [Next]_vars, NEW q \in Handlers, LockShipment(q)
  PROVE  WaitInv'
<1> DEFINE r == req[q]
<1>1. /\ r \in RequestRecords /\ RequestFits(r) /\ r.step = "shipment" /\ r.op \in OnShipment
      /\ \A l \in held[q] : l[1] = <<"batch">>
      /\ Lock(q, <<"shipment", r.shipment>>, Update) /\ UNCHANGED dbVars
  BY DEF LockShipment, LocksShipment, At, DocumentsInv, TypeInv, RequestFits, WaitInv, WaitingHolds
<1>2. /\ held'[q] = held[q] \cup {<<<<"shipment", r.shipment>>, Update>>}
      /\ \A o \in Handlers \ {q} : held'[o] = held[o]
  BY <1>1, LockAdds DEF DocumentsInv
<1>3. \A u \in Units, m \in Modes : ~Holds(q, <<"unit", u>>, m)'
  BY <1>1, <1>2 DEF Holds
<1>4. /\ req'[q].op = r.op /\ req'[q].shipment = r.shipment
      /\ \A o \in Handlers \ {q} : req'[o] = req[o]
      /\ \/ req'[q].step \in {"find", "write"}
         \/ req'[q].step = "units" /\ r.op \in Adding
         \/ req'[q].step = "units" /\ req'[q].todo \subseteq UnitsOf(r.shipment)
  <2>1. ASSUME NEW us, req' = [req EXCEPT ![q].step = "units", ![q].todo = us]
        PROVE  /\ req'[q].op = r.op /\ req'[q].shipment = r.shipment
               /\ req'[q].step = "units" /\ req'[q].todo = us
               /\ \A o \in Handlers \ {q} : req'[o] = req[o]
    <3>1. req' = [req EXCEPT ![q] = [r EXCEPT !.step = "units", !.todo = us]]
      BY <2>1 DEF DocumentsInv, TypeInv, RequestRecords
    <3> QED BY <1>1, <3>1 DEF DocumentsInv, TypeInv, RequestRecords
  <2>2. CASE r.op = "add_units"
    <3>1. req' = [req EXCEPT ![q].step = "units", ![q].todo = r.units]
      BY <2>2 DEF LockShipment
    <3> QED BY <2>1, <2>2, <3>1 DEF Adding
  <2>3. CASE r.op \in {"add_packed_units", "remove_unit"}
    <3>1. \E step \in {"find", "write"} : Go(q, step)
      BY <2>3 DEF LockShipment
    <3> QED BY <3>1, GoMoves DEF DocumentsInv
  <2>4. CASE r.op \in {"complete_shipment", "void_shipment"}
    <3> DEFINE moved == IF r.op = "void_shipment" /\ shipment[r.shipment] = "open"
                        THEN {} ELSE UnitsOf(r.shipment)
    <3>1. req' = [req EXCEPT ![q].step = "units", ![q].todo = moved]
      BY <2>4 DEF LockShipment
    <3>2. moved \subseteq UnitsOf(r.shipment)
      OBVIOUS
    <3> HIDE DEF moved
    <3>3. PICK us : us = moved
      OBVIOUS
    <3>4. req'[q].todo = us /\ req'[q].step = "units" /\ req'[q].op = r.op
          /\ req'[q].shipment = r.shipment /\ \A o \in Handlers \ {q} : req'[o] = req[o]
      BY <2>1, <3>1, <3>3
    <3> QED BY <3>2, <3>3, <3>4
  <2> QED BY <1>1, <2>2, <2>3, <2>4 DEF OnShipment, OnItems
<1>5. \A s : UnitsOf(s)' = UnitsOf(s)
  BY <1>1, SameRows
<1>6. WaitingHolds(q)'
  BY <1>3, <1>4, <1>5 DEF WaitingHolds
<1> QED BY <1>2, <1>4, <1>6, OthersStillWait DEF OthersWait

LEMMA LockUnitWaits ==
  ASSUME DocumentsInv, WaitInv, [Next]_vars, NEW q \in Handlers, LockUnit(q)
  PROVE  WaitInv'
<1> DEFINE r == req[q]
<1>1. /\ r \in RequestRecords /\ RequestFits(r) /\ r.step = "units" /\ WaitingHolds(q)
      /\ UNCHANGED dbVars /\ TypeInv /\ r.todo \subseteq Units
      /\ InTheShipment(r)
  BY DEF LockUnit, At, DocumentsInv, TypeInv, RequestFits, WaitInv, RequestRecords, InTheShipment,
         OnShipment, OnItems
<1>2. \A s : UnitsOf(s)' = UnitsOf(s)
  BY <1>1, SameRows
<1>3. CASE r.todo = {}
  <2>1. (\E step \in {"find", "write"} : Go(q, step)) /\ UNCHANGED held
    BY <1>3 DEF LockUnit
  <2>2. /\ req'[q].step \in {"find", "write"} /\ req'[q].op = r.op /\ req'[q].shipment = r.shipment
        /\ OthersWait(q)
    BY <1>1, <2>1, GoMoves DEF OthersWait
  <2>3. WaitingHolds(q)'
    BY <1>1, <1>2, <2>1, <2>2 DEF WaitingHolds, Holds, InTheShipment
  <2> QED BY <2>2, <2>3, OthersStillWait
<1>4. CASE r.todo # {}
  <2>1. PICK u \in r.todo, m \in Modes :
          Lock(q, <<"unit", u>>, m) /\ req' = [req EXCEPT ![q].todo = @ \ {u}]
    BY <1>4 DEF LockUnit, Modes
  <2>2. PICK n : Becomes(q, n, r.step, r.todo \ {u}, r.added)
    BY <1>1, <2>1, DoneBecomes
  <2>3. /\ req'[q].step = "units" /\ req'[q].op = r.op /\ req'[q].shipment = r.shipment
        /\ req'[q].todo = r.todo \ {u} /\ \A o \in Handlers \ {q} : req'[o] = req[o]
    BY <1>1, <2>2 DEF Becomes, Onward, TypeInv
  <2>4. /\ held'[q] = held[q] \cup {<<<<"unit", u>>, m>>}
        /\ \A o \in Handlers \ {q} : held'[o] = held[o]
    BY <1>1, <2>1, LockAdds
  <2>5. WaitingHolds(q)'
    <3>1. CASE r.op \in Adding
      BY <2>3, <3>1 DEF WaitingHolds
    <3>2. CASE r.op \notin Adding
      <4>1. r.todo \subseteq UnitsOf(r.shipment)
        BY <1>1, <3>2 DEF WaitingHolds
      <4>2. ASSUME NEW v \in Units, NEW k \in Modes, Holds(q, <<"unit", v>>, k)'
            PROVE  v \in UnitsOf(r.shipment)
        BY <1>1, <2>4, <3>2, <4>1, <4>2 DEF WaitingHolds, Holds
      <4>3. InTheShipment(req'[q])
        BY <1>1, <2>3 DEF InTheShipment
      <4> QED BY <1>2, <2>3, <3>2, <4>1, <4>2, <4>3 DEF WaitingHolds
    <3> QED BY <3>1, <3>2
  <2> QED BY <2>3, <2>4, <2>5, OthersStillWait DEF OthersWait
<1> QED BY <1>3, <1>4

(* A step of a transaction that adds units, once it has its shipment.      *)
LEMMA AddingWaits ==
  ASSUME DocumentsInv, WaitInv, [Next]_vars, NEW q \in Handlers,
         FindUnits(q) \/ InsertItem(q) \/ LockReference(q)
  PROVE  WaitInv'
<1> DEFINE r == req[q]
<1>1. r \in RequestRecords /\ r.op \in Adding /\ TypeInv
  BY DEF FindUnits, InsertItem, LockReference, At, DocumentsInv, TypeInv, RequestFits
<1>2. (UNCHANGED held \/ \E row, m : Lock(q, row, m)) => \A o \in Handlers \ {q} : held'[o] = held[o]
  BY <1>1, LockAdds
<1>3. \A o \in Handlers \ {q} : held'[o] = held[o]
  BY <1>2 DEF FindUnits, InsertItem, LockReference
<1>4. /\ req'[q].step \in {"insert", "references", "write"} /\ req'[q].op = r.op
      /\ \A o \in Handlers \ {q} : req'[o] = req[o]
  <2>1. CASE FindUnits(q)
    <3> DEFINE todo == {u \in IF r.op = "add_units" THEN r.units ELSE Units : Addable(u)}
    <3>1. req' = [req EXCEPT ![q].step = "insert", ![q].todo = todo]
      BY <2>1 DEF FindUnits
    <3> HIDE DEF todo
    <3> QED BY <1>1, <3>1 DEF TypeInv, RequestRecords
  <2>2. CASE InsertItem(q)
    <3>1. r.step = "insert" /\ r.todo \subseteq Units
      BY <1>1, <2>2 DEF InsertItem, At, RequestRecords
    <3>2. ASSUME NEW n, NEW todo, NEW added, Becomes(q, n, "insert", todo, added)
          PROVE  /\ req'[q].step = "insert" /\ req'[q].op = r.op
                 /\ \A o \in Handlers \ {q} : req'[o] = req[o]
      BY <1>1, <3>2 DEF Becomes, Onward, TypeInv
    <3>3. ASSUME NEW u \in r.todo, req' = [req EXCEPT ![q].todo = @ \ {u}]
          PROVE  \E n, todo, added : Becomes(q, n, "insert", todo, added)
      BY <1>1, <3>1, <3>3, DoneBecomes
    <3>4. ASSUME NEW u \in r.todo, req' = [req EXCEPT ![q].todo = @ \ {u}, ![q].added = @ \cup {u}]
          PROVE  \E n, todo, added : Becomes(q, n, "insert", todo, added)
      <4>1. u \in Units
        BY <3>1
      <4>2. \E n : Becomes(q, n, r.step, r.todo \ {u}, r.added \cup {u})
        BY <1>1, <3>4, <4>1, AddedBecomes
      <4> QED BY <3>1, <4>2
    <3>5. CASE r.todo = {}
      BY <1>1, <2>2, <3>5, GoMoves DEF InsertItem
    <3>6. CASE r.todo # {}
      <4>1. \E u \in r.todo : \/ req' = [req EXCEPT ![q].todo = @ \ {u}]
                              \/ req' = [req EXCEPT ![q].todo = @ \ {u}, ![q].added = @ \cup {u}]
        BY <2>2, <3>6 DEF InsertItem
      <4> QED BY <3>2, <3>3, <3>4, <4>1
    <3> QED BY <3>5, <3>6
  <2>3. CASE LockReference(q)
    <3>1. CASE UNCHANGED req
      BY <2>3, <3>1 DEF LockReference, At
    <3>2. CASE Go(q, "write")
      BY <1>1, <3>2, GoMoves
    <3> QED BY <2>3, <3>1, <3>2 DEF LockReference
  <2> QED BY <2>1, <2>2, <2>3
<1>5. WaitingHolds(q)'
  BY <1>1, <1>4 DEF WaitingHolds
<1> QED BY <1>3, <1>4, <1>5, OthersStillWait DEF OthersWait

LEMMA LockReceiptWaits ==
  ASSUME DocumentsInv, WaitInv, [Next]_vars, NEW q \in Handlers, LockReceipt(q)
  PROVE  WaitInv'
<1> DEFINE r == req[q]
<1>1. /\ TypeInv /\ Go(q, "write") /\ \A l \in held[q] : l[1] = <<"batch">>
      /\ UNCHANGED held \/ Lock(q, <<"receipt", r.receipt>>, Update)
  BY DEF LockReceipt, At, DocumentsInv, WaitInv, WaitingHolds
<1>2. /\ held'[q] \subseteq held[q] \cup {<<<<"receipt", r.receipt>>, Update>>}
      /\ \A o \in Handlers \ {q} : held'[o] = held[o]
  BY <1>1, LockAdds
<1>3. req'[q].step = "write" /\ \A o \in Handlers \ {q} : req'[o] = req[o]
  BY <1>1, GoMoves
<1> HIDE DEF r
<1>4. \A u \in Units, m \in Modes : ~Holds(q, <<"unit", u>>, m)'
  BY <1>1, <1>2 DEF Holds
<1>5. WaitingHolds(q)'
  BY <1>3, <1>4 DEF WaitingHolds
<1> QED BY <1>2, <1>3, <1>5, OthersStillWait DEF OthersWait

LEMMA WaitStep == DocumentsInv /\ WaitInv /\ [Next]_vars => WaitInv'
<1> SUFFICES ASSUME DocumentsInv, WaitInv, [Next]_vars PROVE WaitInv'
  OBVIOUS
<1>1. ASSUME NEW q \in Handlers, RequestOnShipment(q) \/ RequestOnReceipt(q) \/ RequestOnBatch(q)
      PROVE  WaitInv'
  <2>1. ASSUME NEW r, r.step = "batch", Begin(q, r)
        PROVE  WaitInv'
    BY <2>1, BeginWaits
  <2>2. CASE RequestOnShipment(q)
    <3>1. PICK s \in Shipments :
            \/ \E op \in {"add_packed_units", "void_shipment"} :
                 Begin(q, [Request(op) EXCEPT !.shipment = s])
            \/ \E us \in (SUBSET Units) \ {{}} :
                 Begin(q, [Request("add_units") EXCEPT !.shipment = s, !.units = us])
            \/ \E u \in Units :
                 Begin(q, [Request("remove_unit") EXCEPT !.shipment = s, !.units = {u}])
            \/ \E n \in 1..Cardinality(Units) :
                 Begin(q, [Request("complete_shipment") EXCEPT !.shipment = s, !.quantity = n])
      BY <2>2 DEF RequestOnShipment
    <3>2. ASSUME NEW op, Begin(q, [Request(op) EXCEPT !.shipment = s])
          PROVE  WaitInv'
      BY <2>1, <3>2 DEF Request, NoRequest
    <3>3. ASSUME NEW op, NEW us, Begin(q, [Request(op) EXCEPT !.shipment = s, !.units = us])
          PROVE  WaitInv'
      BY <2>1, <3>3 DEF Request, NoRequest
    <3>4. ASSUME NEW op, NEW n, Begin(q, [Request(op) EXCEPT !.shipment = s, !.quantity = n])
          PROVE  WaitInv'
      BY <2>1, <3>4 DEF Request, NoRequest
    <3> QED BY <3>1, <3>2, <3>3, <3>4
  <2>3. CASE RequestOnReceipt(q)
    <3>1. PICK r \in Receipts :
            \/ \E n \in Quantities :
                 Begin(q, [Request("update_receipt") EXCEPT !.receipt = r, !.quantity = n])
            \/ Begin(q, [Request("void_receipt") EXCEPT !.receipt = r])
      BY <2>3 DEF RequestOnReceipt
    <3>2. ASSUME NEW op, NEW n, Begin(q, [Request(op) EXCEPT !.receipt = r, !.quantity = n])
          PROVE  WaitInv'
      BY <2>1, <3>2 DEF Request, NoRequest
    <3>3. ASSUME NEW op, Begin(q, [Request(op) EXCEPT !.receipt = r])
          PROVE  WaitInv'
      BY <2>1, <3>3 DEF Request, NoRequest
    <3> QED BY <3>1, <3>2, <3>3
  <2>4. CASE RequestOnBatch(q)
    <3>1. ASSUME NEW op, Begin(q, Request(op))
          PROVE  WaitInv'
      BY <2>1, <3>1 DEF Request, NoRequest
    <3>2. ASSUME NEW op, NEW n, Begin(q, [Request(op) EXCEPT !.quantity = n])
          PROVE  WaitInv'
      BY <2>1, <3>2 DEF Request, NoRequest
    <3> QED BY <2>4, <3>1, <3>2 DEF RequestOnBatch
  <2> QED BY <1>1, <2>2, <2>3, <2>4
<1>2. ASSUME NEW q \in Handlers, Commit(q) \/ Rollback(q)
      PROVE  WaitInv'
  BY <1>2, EndWaits DEF Commit, Rollback, CreateShipment, AddUnits, RemoveUnit, CompleteShipment,
                        VoidShipment, WriteReceipt, WriteBatch
<1>3. ASSUME NEW q \in Handlers, Proceed(q), ~Commit(q)
      PROVE  WaitInv'
  BY <1>3, LockBatchWaits, LockShipmentWaits, LockUnitWaits, AddingWaits, LockReceiptWaits
     DEF Proceed, Commit
<1>4. CASE UNCHANGED <<items, held, req>>
  <2>1. \A s : UnitsOf(s)' = UnitsOf(s)
    BY <1>4 DEF UnitsOf, ItemsOf
  <2> QED BY <1>4, <2>1 DEF WaitInv, WaitingHolds, Holds
<1>5. CASE Next
  BY <1>1, <1>2, <1>3, <1>4, <1>5 DEF Next, Pack
<1> QED BY <1>4, <1>5 DEF vars, dbVars

(* No unit is in two shipments that are being completed or voided.         *)
LEMMA UnitsAreApart ==
  ASSUME DocumentsInv, NEW q \in Handlers, NEW o \in Handlers, q # o,
         InTheShipment(req[q]), InTheShipment(req[o]),
         NEW u \in UnitsOf(req[q].shipment)
  PROVE  u \notin UnitsOf(req[o].shipment)
<1> DEFINE s == req[q].shipment
           t == req[o].shipment
<1>1. /\ Holds(q, <<"shipment", s>>, Update) /\ Holds(o, <<"shipment", t>>, Update)
      /\ shipment[s] # "voided" /\ shipment[t] # "voided"
  BY DEF DocumentsInv, LockInv, LocksOf, ChecksOf
<1>2. s # t
  BY <1>1, Excluded DEF Conflict, DocumentsInv, LockInv
<1>3. PICK i \in items : i.shipment = s /\ i.unit = u
  BY DEF UnitsOf, ItemsOf
<1> HIDE DEF s, t
<1>4. ASSUME NEW j \in items, j.shipment = t, j.unit = u
      PROVE  FALSE
  <2>1. ~i.voided /\ ~j.voided
    <3>1. i.voided = (shipment[i.shipment] = "voided") /\ j.voided = (shipment[j.shipment] = "voided")
      BY <1>3, <1>4 DEF DocumentsInv, ShippedWithItsShipment
    <3> QED BY <1>1, <1>3, <1>4, <3>1
  <2> QED BY <1>2, <1>3, <1>4, <2>1 DEF DocumentsInv, ShippedWithItsShipment
<1>5. u \notin UnitsOf(t)
  BY <1>4 DEF UnitsOf, ItemsOf
<1> QED BY <1>5 DEF t

(* Whatever waits, but for the two ways of adding units, never waits in a  *)
(* circle.                                                                 *)
THEOREM OthersNeverDeadlock == Spec => []OnlyAddingDeadlocks
<1>1. Init => WaitInv
  BY DEF Init, NoRequest, WaitInv, WaitingHolds, Holds
<1>2. DocumentsInv /\ WaitInv => OnlyAddingDeadlocks
  <2> DEFINE Others == {q \in Handlers : req[q].op \notin Adding}
             AtAny(q, names) == req[q].step \in names
             Waiting == {"batch", "shipment", "receipt", "units"}
  <2> SUFFICES ASSUME DocumentsInv, WaitInv, NEW S \in (SUBSET Others) \ {{}}
               PROVE  \E q \in S : \A o \in S : ~WaitsFor(q, o)
    BY DEF OnlyAddingDeadlocks
  <2>1. ASSUME NEW q \in S, NEW o \in S, WaitsFor(q, o)
        PROVE  /\ AtAny(q, Waiting) /\ ~AtAny(o, {"batch"})
               /\ AtAny(q, {"shipment", "receipt"}) => ~AtAny(o, {"shipment", "receipt"})
               /\ AtAny(q, {"units"}) => ~AtAny(o, Waiting)
    <3>1. /\ q \in Handlers /\ o \in Handlers /\ WaitingHolds(o) /\ WaitingHolds(q)
          /\ RequestFits(req[q]) /\ RequestFits(req[o]) /\ req[q].op \notin Adding
          /\ req[o].op \notin Adding /\ req[q] \in RequestRecords
      BY DEF WaitInv, DocumentsInv, TypeInv
    <3>2. PICK w \in Wanted(q), n \in Modes : <<w[1], n>> \in held[o] /\ o # q
      BY <2>1 DEF WaitsFor, Blockers
    <3>3. AtAny(q, Waiting) /\ ~AtAny(o, {"batch"})
      BY <3>1, <3>2 DEF Wanted, WaitingHolds
    <3>4. AtAny(q, {"shipment", "receipt", "units"}) => w[1] # <<"batch">>
      BY <3>2 DEF Wanted
    <3>5. AtAny(q, {"shipment", "receipt", "units"}) => ~AtAny(o, {"shipment", "receipt"})
      BY <3>1, <3>2, <3>4 DEF WaitingHolds
    <3>6. CASE AtAny(q, {"units"}) /\ AtAny(o, {"units"})
      <4>1. PICK u \in req[q].todo : w[1] = <<"unit", u>>
        BY <3>2, <3>6 DEF Wanted
      <4>2. u \in Units /\ u \in UnitsOf(req[q].shipment)
        BY <3>1, <3>6, <4>1 DEF WaitingHolds, RequestRecords
      <4>3. InTheShipment(req[o]) /\ u \in UnitsOf(req[o].shipment)
        BY <3>1, <3>2, <4>1, <4>2 DEF WaitingHolds, Holds
      <4>4. InTheShipment(req[q])
        BY <3>1, <3>6 DEF RequestFits, InTheShipment, OnShipment, Adding
      <4> QED BY <3>1, <3>2, <4>2, <4>3, <4>4, UnitsAreApart
    <3> QED BY <3>3, <3>5, <3>6
  <2>2. CASE \E q \in S : ~AtAny(q, Waiting)
    BY <2>1, <2>2
  <2>3. CASE \A q \in S : AtAny(q, Waiting)
    <3>1. CASE \E q \in S : AtAny(q, {"units"})
      BY <2>1, <2>3, <3>1
    <3>2. CASE (\A q \in S : ~AtAny(q, {"units"})) /\ \E q \in S : AtAny(q, {"shipment", "receipt"})
      BY <2>1, <2>3, <3>2
    <3>3. CASE \A q \in S : AtAny(q, {"batch"})
      BY <2>1, <3>3
    <3> QED BY <2>3, <3>1, <3>2, <3>3
  <2> QED BY <2>2, <2>3
<1> QED BY <1>1, <1>2, Documents, WaitStep, PTL DEF Spec

-----------------------------------------------------------------------------
(* Sums over finite sets.  MapThenSumSet is a recursive function on the    *)
(* subsets of a set: that there is one, and that it does not matter in     *)
(* which order the elements are taken, follows by looking at a smallest    *)
(* set that would contradict it.                                           *)

LEMMA LeastNat ==
  ASSUME NEW T, T \subseteq Nat, T # {}
  PROVE  \E n \in T : \A m \in T : n <= m
<1>1. PICK x \in T : \A y \in T : ~ (<<y, x>> \in OpToRel(<, Nat))
  BY NatLessThanWellFounded, WFMin
<1>2. \A y \in T : ~(y < x)
  BY <1>1 DEF OpToRel
<1> QED BY <1>2

(* Of a set of finite sets, one has no other below it.                     *)
LEMMA SmallestSet ==
  ASSUME NEW C, C # {}, \A S \in C : IsFiniteSet(S)
  PROVE  \E S \in C : \A T \in C : T \subseteq S => T = S
<1> DEFINE sizes == {Cardinality(S) : S \in C}
<1>1. sizes \subseteq Nat /\ sizes # {}
  BY FS_CardinalityType
<1>2. PICK n \in sizes : \A m \in sizes : n <= m
  BY <1>1, LeastNat
<1>3. PICK S \in C : n = Cardinality(S)
  BY <1>2
<1>4. ASSUME NEW T \in C, T \subseteq S
      PROVE  T = S
  <2>1. Cardinality(T) <= Cardinality(S) /\ (Cardinality(S) = Cardinality(T) => S = T)
    BY <1>3, <1>4, FS_Subset
  <2>2. Cardinality(S) <= Cardinality(T)
    BY <1>2, <1>3
  <2>3. Cardinality(S) \in Nat /\ Cardinality(T) \in Nat
    BY <1>3, FS_CardinalityType
  <2> QED BY <2>1, <2>2, <2>3
<1> QED BY <1>3, <1>4

SumOf(f, S) == MapThenSumSet(LAMBDA x : f[x], S)

AnyOf(s) == CHOOSE x \in s : TRUE
Sums(f, S, g) ==
  g = [s \in SUBSET S |-> IF s = {} THEN 0 ELSE f[AnyOf(s)] + g[s \ {AnyOf(s)}]]

LEMMA SumIs == ASSUME NEW f, NEW S PROVE SumOf(f, S) = (CHOOSE g : Sums(f, S, g))[S]
BY DEF SumOf, MapThenSumSet, MapThenFoldSet, Sums, AnyOf

LEMMA SumsAgree ==
  ASSUME NEW f, NEW S, NEW T, IsFiniteSet(S), NEW g, NEW h, Sums(f, S, g), Sums(f, T, h),
         NEW s, s \subseteq S, s \subseteq T
  PROVE  g[s] = h[s]
<1> DEFINE C == {t \in SUBSET s : g[t] # h[t]}
<1> SUFFICES ASSUME C # {} PROVE FALSE
  OBVIOUS
<1>1. \A t \in C : IsFiniteSet(t) /\ t \subseteq s
  BY FS_Subset
<1>2. PICK t \in C : \A T1 \in C : T1 \subseteq t => T1 = t
  <2> HIDE DEF C
  <2> QED BY <1>1, SmallestSet
<1>3. t \in SUBSET S /\ t \in SUBSET T /\ g[t] # h[t] /\ t \in SUBSET s
  BY <1>2
<1> HIDE DEF C
<1>4. CASE t = {}
  BY <1>3, <1>4 DEF Sums
<1>5. CASE t # {}
  <2> DEFINE x == AnyOf(t)
  <2>1. x \in t
    BY <1>5 DEF AnyOf
  <2>2. t \ {x} \notin C /\ t \ {x} \in SUBSET s
    BY <1>2, <1>3, <2>1
  <2>3. g[t \ {x}] = h[t \ {x}]
    BY <2>2 DEF C
  <2>4. g[t] = f[x] + g[t \ {x}] /\ h[t] = f[x] + h[t \ {x}]
    BY <1>3, <1>5 DEF Sums
  <2> QED BY <1>3, <2>3, <2>4
<1> QED BY <1>4, <1>5

LEMMA SumsExist ==
  ASSUME NEW f, NEW S, IsFiniteSet(S)
  PROVE  \E g : Sums(f, S, g)
<1> DEFINE C == {T \in SUBSET S : ~\E g : Sums(f, T, g)}
<1> SUFFICES ASSUME C # {} PROVE FALSE
  OBVIOUS
<1>1. \A t \in C : IsFiniteSet(t) /\ t \subseteq S
  BY FS_Subset
<1>2. PICK t \in C : \A T \in C : T \subseteq t => T = t
  <2> HIDE DEF C
  <2> QED BY <1>1, SmallestSet
<1>3. ASSUME NEW s \in SUBSET t, s # t
      PROVE  \E g : Sums(f, s, g)
  BY <1>2, <1>3
<1>4. IsFiniteSet(t) /\ ~\E g : Sums(f, t, g)
  BY <1>1
<1> HIDE DEF C
<1> DEFINE V(s) == (CHOOSE g : Sums(f, s, g))[s]
           G == [s \in SUBSET t |-> IF s = {} THEN 0 ELSE f[AnyOf(s)] + V(s \ {AnyOf(s)})]
<1>5. ASSUME NEW s \in SUBSET t, s # {}
      PROVE  G[s \ {AnyOf(s)}] = V(s \ {AnyOf(s)})
  <2> DEFINE r == s \ {AnyOf(s)}
  <2>1. r \in SUBSET t /\ r # t
    BY <1>5 DEF AnyOf
  <2>2. PICK g : g = (CHOOSE h : Sums(f, r, h)) /\ Sums(f, r, g)
    BY <1>3, <2>1
  <2> HIDE DEF r
  <2>3. CASE r = {}
    <3>1. g[r] = 0
      BY <2>2, <2>3 DEF Sums
    <3>2. G[r] = 0
      BY <2>1, <2>3
    <3> QED BY <2>2, <3>1, <3>2 DEF r
  <2>4. CASE r # {}
    <3> DEFINE w == r \ {AnyOf(r)}
    <3>1. w \in SUBSET r /\ w # t
      BY <2>1, <2>4 DEF AnyOf
    <3>2. PICK h : h = (CHOOSE k : Sums(f, w, k)) /\ Sums(f, w, h)
      BY <1>3, <2>1, <3>1
    <3>3. g[r] = f[AnyOf(r)] + g[w]
      BY <2>2, <2>4 DEF Sums
    <3>4. G[r] = f[AnyOf(r)] + V(w)
      BY <2>1, <2>4
    <3> HIDE DEF w
    <3>5. g[w] = h[w]
      <4>1. IsFiniteSet(r)
        BY <1>4, <2>1, FS_Subset
      <4> QED BY <4>1, <2>2, <3>1, <3>2, SumsAgree
    <3>6. V(w) = h[w] /\ V(r) = g[r]
      BY <2>2, <3>2
    <3> QED BY <3>3, <3>4, <3>5, <3>6 DEF r
  <2> QED BY <2>3, <2>4
<1> HIDE DEF V
<1>6. Sums(f, t, G)
  <2>1. \A s \in SUBSET t : s # {} => G[s] = f[AnyOf(s)] + G[s \ {AnyOf(s)}]
    BY <1>5
  <2>2. G[{}] = 0
    OBVIOUS
  <2>3. G = [s \in SUBSET t |-> G[s]]
    OBVIOUS
  <2> HIDE DEF G
  <2>4. G = [s \in SUBSET t |-> IF s = {} THEN 0 ELSE f[AnyOf(s)] + G[s \ {AnyOf(s)}]]
    BY <2>1, <2>2, <2>3
  <2> QED BY <2>4 DEF Sums
<1> QED BY <1>4, <1>6

(* The sum over a set of an element more.                                  *)
LEMMA SumUnfolds ==
  ASSUME NEW f, NEW S, IsFiniteSet(S)
  PROVE  /\ S = {} => SumOf(f, S) = 0
         /\ S # {} => SumOf(f, S) = f[AnyOf(S)] + SumOf(f, S \ {AnyOf(S)})
<1> DEFINE T == S \ {AnyOf(S)}
<1>1. PICK g : Sums(f, S, g) /\ SumOf(f, S) = g[S]
  BY SumsExist, SumIs
<1>2. IsFiniteSet(T)
  BY FS_RemoveElement
<1>3. PICK h : Sums(f, T, h) /\ SumOf(f, T) = h[T]
  BY <1>2, SumsExist, SumIs
<1>4. g[T] = h[T]
  BY <1>1, <1>3, SumsAgree
<1>5. S = {} => g[S] = 0
  BY <1>1 DEF Sums
<1>6. S # {} => g[S] = f[AnyOf(S)] + g[T]
  BY <1>1 DEF Sums
<1> HIDE DEF T
<1>7. SumOf(f, S) = g[S] /\ SumOf(f, T) = g[T]
  BY <1>1, <1>3, <1>4
<1> QED BY <1>5, <1>6, <1>7 DEF T

LEMMA SumIsNat ==
  ASSUME NEW D, NEW f \in [D -> Nat], NEW S \in SUBSET D, IsFiniteSet(S)
  PROVE  SumOf(f, S) \in Nat
<1> DEFINE C == {T \in SUBSET S : SumOf(f, T) \notin Nat}
<1> SUFFICES ASSUME C # {} PROVE FALSE
  OBVIOUS
<1>1. \A t \in C : IsFiniteSet(t)
  BY FS_Subset
<1>2. PICK t \in C : \A T \in C : T \subseteq t => T = t
  <2> HIDE DEF C
  <2> QED BY <1>1, SmallestSet
<1>3. IsFiniteSet(t) /\ t \in SUBSET S /\ SumOf(f, t) \notin Nat
  BY <1>1
<1> HIDE DEF C
<1>4. t # {}
  <2>1. SumOf(f, {}) = 0
    BY SumUnfolds, FS_EmptySet
  <2> QED BY <1>3, <2>1
<1> DEFINE x == AnyOf(t)
<1>5. x \in t /\ x \in D
  BY <1>3, <1>4 DEF AnyOf
<1>6. SumOf(f, t \ {x}) \in Nat
  <2>1. t \ {x} \in SUBSET S /\ t \ {x} \subseteq t /\ t \ {x} # t
    BY <1>3, <1>5
  <2> HIDE DEF x
  <2> QED BY <1>2, <2>1 DEF C
<1>7. SumOf(f, t) = f[x] + SumOf(f, t \ {x}) /\ f[x] \in Nat
  BY <1>3, <1>4, <1>5, SumUnfolds
<1> QED BY <1>3, <1>6, <1>7

(* Any element may be taken out of a sum.                                  *)
LEMMA SumWithout ==
  ASSUME NEW D, NEW f \in [D -> Nat], NEW S \in SUBSET D, IsFiniteSet(S), NEW x \in S
  PROVE  SumOf(f, S) = f[x] + SumOf(f, S \ {x})
<1> DEFINE C == {T \in SUBSET S : \E y \in T : SumOf(f, T) # f[y] + SumOf(f, T \ {y})}
<1> SUFFICES ASSUME C # {} PROVE FALSE
  OBVIOUS
<1>1. \A t \in C : IsFiniteSet(t)
  BY FS_Subset
<1>2. PICK t \in C : \A T \in C : T \subseteq t => T = t
  <2> HIDE DEF C
  <2> QED BY <1>1, SmallestSet
<1>3. IsFiniteSet(t) /\ t \in SUBSET S /\ t \subseteq D
  BY <1>1
<1>4. PICK y \in t : SumOf(f, t) # f[y] + SumOf(f, t \ {y})
  BY <1>2
<1> DEFINE p == AnyOf(t)
<1>5. p \in t /\ SumOf(f, t) = f[p] + SumOf(f, t \ {p})
  BY <1>3, <1>4, SumUnfolds DEF AnyOf
<1> HIDE DEF p
<1>6. p # y
  BY <1>4, <1>5
<1>7. \A z \in t : t \ {z} \in SUBSET S /\ t \ {z} \notin C
  BY <1>2, <1>3
<1>8. /\ SumOf(f, t \ {p}) = f[y] + SumOf(f, (t \ {p}) \ {y})
      /\ SumOf(f, t \ {y}) = f[p] + SumOf(f, (t \ {y}) \ {p})
  <2>1. y \in t \ {p} /\ p \in t \ {y} /\ t \ {p} \in SUBSET S /\ t \ {y} \in SUBSET S
    BY <1>4, <1>5, <1>6, <1>7
  <2> QED BY <1>4, <1>5, <1>7, <2>1
<1>9. (t \ {p}) \ {y} = (t \ {y}) \ {p} /\ (t \ {p}) \ {y} \in SUBSET D /\ IsFiniteSet((t \ {p}) \ {y})
  BY <1>3, FS_Subset
<1>10. SumOf(f, (t \ {p}) \ {y}) \in Nat /\ f[p] \in Nat /\ f[y] \in Nat
  BY <1>3, <1>4, <1>5, <1>9, SumIsNat
<1> HIDE DEF C
<1>11. SumOf(f, t) = f[p] + (f[y] + SumOf(f, (t \ {p}) \ {y}))
  BY <1>5, <1>8
<1>12. SumOf(f, t) # f[y] + (f[p] + SumOf(f, (t \ {p}) \ {y}))
  BY <1>4, <1>8, <1>9
<1> QED BY <1>10, <1>11, <1>12

LEMMA SameSum ==
  ASSUME NEW f, NEW g, NEW S, IsFiniteSet(S), \A x \in S : f[x] = g[x]
  PROVE  SumOf(f, S) = SumOf(g, S)
<1> DEFINE C == {T \in SUBSET S : SumOf(f, T) # SumOf(g, T)}
<1> SUFFICES ASSUME C # {} PROVE FALSE
  OBVIOUS
<1>1. \A t \in C : IsFiniteSet(t)
  BY FS_Subset
<1>2. PICK t \in C : \A T \in C : T \subseteq t => T = t
  <2> HIDE DEF C
  <2> QED BY <1>1, SmallestSet
<1>3. IsFiniteSet(t) /\ t \in SUBSET S /\ SumOf(f, t) # SumOf(g, t)
  BY <1>1
<1> HIDE DEF C
<1>4. t # {}
  BY <1>3, SumUnfolds
<1> DEFINE x == AnyOf(t)
<1>5. x \in t /\ f[x] = g[x]
  BY <1>3, <1>4 DEF AnyOf
<1>6. SumOf(f, t \ {x}) = SumOf(g, t \ {x})
  <2>1. t \ {x} \in SUBSET S /\ t \ {x} \subseteq t /\ t \ {x} # t
    BY <1>3, <1>5
  <2> HIDE DEF x
  <2> QED BY <1>2, <2>1 DEF C
<1>7. SumOf(f, t) = f[x] + SumOf(f, t \ {x}) /\ SumOf(g, t) = g[x] + SumOf(g, t \ {x})
  BY <1>3, <1>4, SumUnfolds
<1> QED BY <1>3, <1>5, <1>6, <1>7
-----------------------------------------------------------------------------
(* Receipts and the plan *)

(* What is received and planned is counted, and there are finitely many    *)
(* receipts.                                                               *)
DocumentsAssumption == IsFiniteSet(Receipts) /\ Quantities \subseteq Nat /\ Planned \in Nat

ReceiptRows == [Receipts -> [status : {"absent", "open", "voided"}, quantity : {0} \cup Quantities]]
QuantitiesOf(rows) == [r \in Receipts |-> rows[r].quantity]
OpenOf(rows) == {r \in Receipts : rows[r].status = "open"}
ReceivedOf(rows) == SumOf(QuantitiesOf(rows), OpenOf(rows))

LEMMA ReceivedIs == Received = ReceivedOf(receipt) /\ Received' = ReceivedOf(receipt')
<1>1. Received = ReceivedOf(receipt)
  BY DEF Received, ReceivedOf, QuantitiesOf, OpenOf, SumOf, MapThenSumSet, MapThenFoldSet, Open
<1>2. Received' = ReceivedOf(receipt')
  BY DEF Received, ReceivedOf, QuantitiesOf, OpenOf, SumOf, MapThenSumSet, MapThenFoldSet, Open
<1> QED BY <1>1, <1>2

(* What the receipts but for x add up to.                                  *)
Rest(rows, x) == SumOf(QuantitiesOf(rows), OpenOf(rows) \ {x})

LEMMA ReceivedWithout ==
  ASSUME DocumentsAssumption, NEW rows \in ReceiptRows, NEW x \in Receipts
  PROVE  /\ Rest(rows, x) \in Nat /\ rows[x].quantity \in Nat
         /\ rows[x].status = "open" => ReceivedOf(rows) = rows[x].quantity + Rest(rows, x)
         /\ rows[x].status # "open" => ReceivedOf(rows) = Rest(rows, x)
<1> DEFINE f == QuantitiesOf(rows)
           S == OpenOf(rows)
<1>1. f \in [Receipts -> Nat] /\ f[x] = rows[x].quantity
  <2>1. \A r \in Receipts : rows[r].quantity \in {0} \cup Quantities
    BY DEF ReceiptRows
  <2>2. \A n : n \in {0} \cup Quantities => n \in Nat
    BY DEF DocumentsAssumption
  <2>3. \A r \in Receipts : rows[r].quantity \in Nat
    BY <2>1, <2>2
  <2> QED BY <2>3 DEF QuantitiesOf
<1>2. S \in SUBSET Receipts /\ S \ {x} \in SUBSET Receipts /\ (x \in S <=> rows[x].status = "open")
  BY DEF OpenOf
<1>3. IsFiniteSet(S) /\ IsFiniteSet(S \ {x})
  BY <1>2, FS_Subset DEF DocumentsAssumption
<1> HIDE DEF f, S
<1>4. SumOf(f, S \ {x}) \in Nat /\ f[x] \in Nat
  BY <1>1, <1>2, <1>3, SumIsNat
<1>5. x \in S => SumOf(f, S) = f[x] + SumOf(f, S \ {x})
  BY <1>1, <1>2, <1>3, SumWithout
<1>6. x \notin S => S \ {x} = S
  OBVIOUS
<1> QED BY <1>1, <1>2, <1>4, <1>5, <1>6 DEF Rest, ReceivedOf, f, S

LEMMA OthersAddUpTheSame ==
  ASSUME DocumentsAssumption, NEW rows \in ReceiptRows, NEW x \in Receipts, NEW new \in ReceiptRows,
         \A r \in Receipts \ {x} : new[r] = rows[r]
  PROVE  Rest(new, x) = Rest(rows, x)
<1> DEFINE f == QuantitiesOf(rows)
           g == QuantitiesOf(new)
           S == OpenOf(rows) \ {x}
<1>1. OpenOf(new) \ {x} = S
  BY DEF OpenOf
<1>2. S \in SUBSET Receipts
  BY DEF OpenOf
<1>3. IsFiniteSet(S)
  BY <1>2, FS_Subset DEF DocumentsAssumption
<1>4. \A r \in S : g[r] = f[r]
  BY DEF QuantitiesOf, OpenOf
<1> HIDE DEF f, g, S
<1>5. SumOf(g, S) = SumOf(f, S)
  BY <1>3, <1>4, SameSum
<1> QED BY <1>1, <1>5 DEF Rest, f, g, S

LEMMA ReceiptsStep ==
  ASSUME DocumentsAssumption, DocumentsInv, ReceiptsWithinPlan, [Next]_vars
  PROVE  ReceiptsWithinPlan'
<1>1. CASE UNCHANGED receipt
  BY <1>1, SameReceived DEF ReceiptsWithinPlan
<1>2. ASSUME NEW q \in Handlers, WriteReceipt(q)
      PROVE  ReceiptsWithinPlan'
  <2> DEFINE r == req[q]
  <2>1. /\ RequestFits(r) /\ r.op \in OnReceipt /\ ChecksOf(q) /\ InReceipt(r)
    BY <1>2 DEF WriteReceipt, At, DocumentsInv, TypeInv, LockInv, InReceipt
  <2>2. PICK x \in Receipts :
          /\ IF r.op = "create_receipt" THEN receipt[x].status = "absent" ELSE x = r.receipt
          /\ receipt' = [receipt EXCEPT ![x] =
               IF r.op = "void_receipt" THEN [@ EXCEPT !.status = "voided"]
               ELSE [status |-> "open", quantity |-> r.quantity]]
    BY <1>2 DEF WriteReceipt
  <2>3. receipt \in ReceiptRows /\ receipt' \in ReceiptRows
    BY <1>2, WriteReceiptKeeps DEF DocumentsInv, TypeInv, Rows, ReceiptRows
  <2>4. /\ r.op # "create_receipt" => x = r.receipt /\ receipt[x].status = "open"
        /\ AddedQty(r) > 0 => AddedQty(r) <= Planned - Received
    BY <2>1, <2>2 DEF ChecksOf, Open, WithinPlan
  <2>5. \A y \in Receipts \ {x} : receipt'[y] = receipt[y]
    BY <2>2, <2>3 DEF ReceiptRows
  <2> DEFINE rest == Rest(receipt, x)
  <2>6. rest = Rest(receipt', x)
    BY <2>3, <2>5, OthersAddUpTheSame
  <2>7. /\ rest \in Nat /\ receipt[x].quantity \in Nat /\ receipt'[x].quantity \in Nat
        /\ receipt[x].status = "open" => Received = receipt[x].quantity + rest
        /\ receipt[x].status # "open" => Received = rest
        /\ receipt'[x].status = "open" => Received' = receipt'[x].quantity + rest
        /\ receipt'[x].status # "open" => Received' = rest
    BY <2>3, <2>6, ReceivedWithout, ReceivedIs
  <2> HIDE DEF rest
  <2>8. CASE r.op = "create_receipt"
    <3>1. /\ receipt[x].status = "absent" /\ receipt'[x].status = "open" /\ receipt'[x].quantity = r.quantity
          /\ AddedQty(r) = r.quantity
      BY <2>2, <2>3, <2>8 DEF AddedQty, ReceiptRows
    <3> QED BY <2>4, <2>7, <3>1 DEF ReceiptsWithinPlan, DocumentsAssumption
  <2>9. CASE r.op = "update_receipt"
    <3>1. /\ receipt[x].status = "open" /\ receipt'[x].status = "open" /\ receipt'[x].quantity = r.quantity
          /\ r.quantity > receipt[x].quantity => AddedQty(r) = r.quantity - receipt[x].quantity
      BY <2>2, <2>3, <2>4, <2>9 DEF AddedQty, ReceiptRows
    <3>2. CASE r.quantity > receipt[x].quantity
      BY <2>4, <2>7, <3>1, <3>2 DEF ReceiptsWithinPlan, DocumentsAssumption
    <3>3. CASE ~(r.quantity > receipt[x].quantity)
      BY <2>7, <3>1, <3>3 DEF ReceiptsWithinPlan, DocumentsAssumption
    <3> QED BY <3>2, <3>3
  <2>10. CASE r.op = "void_receipt"
    <3>1. receipt[x].status = "open" /\ receipt'[x].status = "voided"
      BY <2>2, <2>3, <2>4, <2>10 DEF ReceiptRows
    <3> QED BY <2>7, <3>1 DEF ReceiptsWithinPlan, DocumentsAssumption
  <2> QED BY <2>1, <2>8, <2>9, <2>10 DEF OnReceipt
<1>3. ASSUME NEW q \in Handlers, Commit(q), ~WriteReceipt(q)
      PROVE  UNCHANGED receipt
  BY <1>3 DEF Commit, CreateShipment, AddUnits, RemoveUnit, CompleteShipment, VoidShipment, WriteBatch
<1>4. CASE UNCHANGED dbVars \/ \E u \in Units : Pack(u)
  BY <1>1, <1>4 DEF dbVars, Pack
<1> QED BY <1>1, <1>2, <1>3, <1>4, StepsAre

LEMMA ReceiptsInit ==
  ASSUME DocumentsAssumption, Init
  PROVE  ReceiptsWithinPlan
<1>1. OpenOf(receipt) = {}
  BY DEF Init, OpenOf
<1>2. Received = 0
  BY <1>1, ReceivedIs, SumUnfolds, FS_EmptySet DEF ReceivedOf
<1> QED BY <1>2 DEF ReceiptsWithinPlan, DocumentsAssumption

(* What the receipts of a batch that are not voided add up to never        *)
(* exceeds its plan: a receipt is compared with it under the lock of the   *)
(* batch, and written under the same lock.                                 *)
THEOREM ReceiptsNeverExceedThePlan ==
  ASSUME DocumentsAssumption
  PROVE  Spec => []ReceiptsWithinPlan
<1>1. Init => ReceiptsWithinPlan
  BY ReceiptsInit
<1>2. DocumentsInv /\ ReceiptsWithinPlan /\ [Next]_vars => ReceiptsWithinPlan'
  BY ReceiptsStep
<1> QED BY <1>1, <1>2, Documents, PTL DEF Spec
=============================================================================
