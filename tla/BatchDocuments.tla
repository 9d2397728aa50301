--------------------------- MODULE BatchDocuments ---------------------------
(***************************************************************************)
(* The documents of one batch: its shipments with the units in them, and   *)
(* its receipts.  Every change of a shipment takes a shared lock of the    *)
(* batch and then the lock of the shipment; adding units by code locks the *)
(* units next, adding all packed units inserts the items first and locks   *)
(* each unit, for its foreign key, at the end of the statement.  A receipt *)
(* takes the lock of the batch for itself, as archiving it does.           *)
(*                                                                         *)
(* Any transaction may roll back before its commit: a refusal, such as an  *)
(* hour that is over, a deadlock, or a lost connection.                    *)
(***************************************************************************)
EXTENDS Naturals, FiniteSets, FiniteSetsExt, RowLocks

CONSTANTS
  Units,     \* DevEUIs of the batch, as natural numbers: their order matters
  Shipments, Receipts, \* ids
  Quantities, \* the quantities a receipt may name
  Planned,   \* planned_qty of the batch
  Handlers,  \* bound: how many requests overlap
  Offered    \* the sets of operations of which one is requested in a run

VARIABLES
  offered,  \* the operations requested; never changes
  batch,    \* [archived, completed]
  unit,     \* [Units -> "passed", "packed" or "shipped"]
  shipment, \* [Shipments -> its status]
  items,    \* a set of [shipment, unit, voided]
  receipt,  \* [Receipts -> [status, quantity]]
  held,     \* [Handlers -> the locks of its transaction]
  req       \* [Handlers -> the request and its progress]

dbVars == <<batch, unit, shipment, items, receipt>>
vars == <<offered, dbVars, held, req>>

OnItems == {"add_units", "add_packed_units", "remove_unit"}
OnShipment == OnItems \cup {"complete_shipment", "void_shipment"}
OnReceipt == {"create_receipt", "update_receipt", "void_receipt"}
OnBatch == {"archive", "restore", "complete_batch"}
Operations == OnShipment \cup OnReceipt \cup OnBatch \cup {"create_shipment"}

NoShipment == CHOOSE s \in Shipments : TRUE
NoReceipt == CHOOSE r \in Receipts : TRUE
NoRequest == [step |-> "idle", op |-> "none", shipment |-> NoShipment, receipt |-> NoReceipt,
              units |-> {}, quantity |-> 0, todo |-> {}, added |-> {}]

Init ==
  /\ offered \in Offered
  /\ batch = [archived |-> FALSE, completed |-> FALSE]
  /\ unit = [u \in Units |-> "passed"]
  /\ shipment = [s \in Shipments |-> "absent"]
  /\ items = {}
  /\ receipt = [r \in Receipts |-> [status |-> "absent", quantity |-> 0]]
  /\ held = [q \in Handlers |-> {}]
  /\ req = [q \in Handlers |-> NoRequest]

-----------------------------------------------------------------------------
(* Transactions *)

At(q, step) == req[q].step = step
Go(q, step) == req' = [req EXCEPT ![q].step = step]
Lock(q, row, mode) ==
  /\ Grantable(held, q, row, mode)
  /\ held' = Grant(held, q, row, mode)
End(q) == req' = [req EXCEPT ![q] = NoRequest] /\ held' = ReleaseAll(held, q)

Begin(q, r) ==
  /\ At(q, "idle")
  /\ r.op \in offered
  /\ req' = [req EXCEPT ![q] = r]
  /\ UNCHANGED <<dbVars, held>>

Rollback(q) ==
  /\ ~At(q, "idle")
  /\ End(q)
  /\ UNCHANGED dbVars

(* A person picks a shipment or a receipt that is there, and completes a   *)
(* shipment with a count that was in view.                                 *)
Request(op) == [NoRequest EXCEPT !.step = "batch", !.op = op]

RequestOnShipment(q) ==
  \E s \in Shipments : shipment[s] # "absent" /\
    \/ \E op \in {"add_packed_units", "void_shipment"} :
         Begin(q, [Request(op) EXCEPT !.shipment = s])
    \/ \E us \in (SUBSET Units) \ {{}} :
         Begin(q, [Request("add_units") EXCEPT !.shipment = s, !.units = us])
    \/ \E u \in Units :
         Begin(q, [Request("remove_unit") EXCEPT !.shipment = s, !.units = {u}])
    \/ \E n \in 1..Cardinality(Units) :
         Begin(q, [Request("complete_shipment") EXCEPT !.shipment = s, !.quantity = n])

RequestOnReceipt(q) ==
  \E r \in Receipts : receipt[r].status # "absent" /\
    \/ \E n \in Quantities :
         Begin(q, [Request("update_receipt") EXCEPT !.receipt = r, !.quantity = n])
    \/ Begin(q, [Request("void_receipt") EXCEPT !.receipt = r])

RequestOnBatch(q) ==
  \/ \E op \in OnBatch : Begin(q, Request(op))
  \/ Begin(q, Request("create_shipment"))
  \/ \E n \in Quantities : Begin(q, [Request("create_receipt") EXCEPT !.quantity = n])

(* Mutant: a shared lock for every change.                                 *)
AlwaysShared(op) == Share

BatchMode(op) == IF op \in OnReceipt \cup OnBatch THEN Update ELSE Share

(* lock_batch of shipments and _lock_batch of receipts refuse an archived  *)
(* batch; a completed one may ship, but not receive.                       *)
RefusedByBatch(op) ==
  \/ batch.archived /\ op \notin {"archive", "restore"}
  \/ batch.completed /\ op \in {"create_receipt", "complete_batch"}

LockBatch(q) ==
  /\ At(q, "batch")
  /\ ~RefusedByBatch(req[q].op)
  /\ Lock(q, <<"batch">>, BatchMode(req[q].op))
  /\ Go(q, CASE req[q].op \in OnShipment -> "shipment"
             [] req[q].op \in OnReceipt -> "receipt"
             [] OTHER -> "write")
  /\ UNCHANGED dbVars

-----------------------------------------------------------------------------
(* Shipments *)

ItemsOf(s) == {i \in items : i.shipment = s}
UnitsOf(s) == {i.unit : i \in ItemsOf(s)}
InShipment(u) == \E i \in items : i.unit = u /\ ~i.voided

(* Mutant: the shipment is read without a lock.                            *)
Unlocked(q, s) == UNCHANGED held

LocksShipment(q, s) == Lock(q, <<"shipment", s>>, Update)

(* lock_open_shipment, and lock_shipment with the checks of void_shipment; *)
(* _count_items counts under the lock.                                     *)
RefusedByShipment(r) ==
  \/ shipment[r.shipment] \notin {"open"} \cup (IF r.op = "void_shipment" THEN {"completed"} ELSE {})
  \/ r.op = "complete_shipment" /\ Cardinality(UnitsOf(r.shipment)) # r.quantity
  \/ r.op = "remove_unit" /\ ~(r.units \subseteq UnitsOf(r.shipment))

LockShipment(q) ==
  /\ At(q, "shipment")
  /\ LET r == req[q]
         moved == IF r.op = "void_shipment" /\ shipment[r.shipment] = "open"
                  THEN {} ELSE UnitsOf(r.shipment)
     IN /\ LocksShipment(q, r.shipment)
        /\ ~RefusedByShipment(r)
        /\ CASE r.op = "add_units" -> req' = [req EXCEPT ![q].step = "units", ![q].todo = r.units]
             [] r.op = "add_packed_units" -> Go(q, "find")
             [] r.op = "remove_unit" -> Go(q, "write")
             [] OTHER -> req' = [req EXCEPT ![q].step = "units", ![q].todo = moved]
  /\ UNCHANGED dbVars

(* _lock_units takes the units in the order of their DevEUIs, the UPDATE   *)
(* of _move_units in any.                                                  *)
LockUnit(q) ==
  /\ At(q, "units")
  /\ LET r == req[q]
     IN IF r.todo = {}
        THEN Go(q, IF r.op = "add_units" THEN "find" ELSE "write") /\ UNCHANGED held
        ELSE \E u \in r.todo :
               /\ r.op = "add_units" => u = Min(r.todo)
               /\ Lock(q, <<"unit", u>>, IF r.op = "add_units" THEN Update ELSE NoKeyUpdate)
               /\ req' = [req EXCEPT ![q].todo = @ \ {u}]
  /\ UNCHANGED dbVars

(* Mutant: a unit that is not packed yet may be added.                     *)
NotInShipment(u) == ~InShipment(u)

(* _find_rejection, and the WHERE of add_packed_units.                     *)
Addable(u) == unit[u] = "packed" /\ ~InShipment(u)

FindUnits(q) ==
  /\ At(q, "find")
  /\ LET named == IF req[q].op = "add_units" THEN req[q].units ELSE Units
     IN req' = [req EXCEPT ![q].step = "insert", ![q].todo = {u \in named : Addable(u)}]
  /\ UNCHANGED <<dbVars, held>>

(* The partial unique index: an insert waits for a transaction that has    *)
(* inserted an item of the unit, and ON CONFLICT DO NOTHING skips a unit   *)
(* that has one by then.  add_units would be refused by it, which Rollback *)
(* stands for.                                                             *)
InsertItem(q) ==
  /\ At(q, "insert")
  /\ LET r == req[q]
     IN IF r.todo = {}
        THEN Go(q, "references") /\ UNCHANGED held
        ELSE \E u \in r.todo :
               IF InShipment(u)
               THEN /\ r.op = "add_packed_units"
                    /\ req' = [req EXCEPT ![q].todo = @ \ {u}]
                    /\ UNCHANGED held
               ELSE /\ Lock(q, <<"item", u>>, Update)
                    /\ req' = [req EXCEPT ![q].todo = @ \ {u}, ![q].added = @ \cup {u}]
  /\ UNCHANGED dbVars

(* The foreign keys of the items are checked when the statement ends.      *)
Unreferenced(q) == {u \in req[q].added : <<<<"unit", u>>, KeyShare>> \notin held[q]}

LockReference(q) ==
  /\ At(q, "references")
  /\ IF Unreferenced(q) = {}
     THEN Go(q, "write") /\ UNCHANGED held
     ELSE \E u \in Unreferenced(q) : Lock(q, <<"unit", u>>, KeyShare) /\ UNCHANGED req
  /\ UNCHANGED dbVars

CreateShipment(q) ==
  /\ At(q, "write") /\ req[q].op = "create_shipment"
  /\ \E s \in Shipments :
       /\ shipment[s] = "absent"
       /\ shipment' = [shipment EXCEPT ![s] = "open"]
  /\ End(q)
  /\ UNCHANGED <<batch, unit, items, receipt>>

AddUnits(q) ==
  /\ At(q, "write") /\ req[q].op \in {"add_units", "add_packed_units"}
  /\ items' = items \cup {[shipment |-> req[q].shipment, unit |-> u, voided |-> FALSE] :
                            u \in req[q].added}
  /\ End(q)
  /\ UNCHANGED <<batch, unit, shipment, receipt>>

RemoveUnit(q) ==
  /\ At(q, "write") /\ req[q].op = "remove_unit"
  /\ items' = {i \in items : ~(i.shipment = req[q].shipment /\ i.unit \in req[q].units)}
  /\ End(q)
  /\ UNCHANGED <<batch, unit, shipment, receipt>>

(* _move_units: only the units in the source state move.                   *)
Moved(s, source, target) ==
  [u \in Units |-> IF u \in UnitsOf(s) /\ unit[u] = source THEN target ELSE unit[u]]

CompleteShipment(q) ==
  /\ At(q, "write") /\ req[q].op = "complete_shipment"
  /\ LET s == req[q].shipment
     IN /\ \A u \in UnitsOf(s) : unit[u] = "packed"
        /\ unit' = Moved(s, "packed", "shipped")
        /\ shipment' = [shipment EXCEPT ![s] = "completed"]
  /\ End(q)
  /\ UNCHANGED <<batch, items, receipt>>

VoidShipment(q) ==
  /\ At(q, "write") /\ req[q].op = "void_shipment"
  /\ LET s == req[q].shipment
     IN /\ unit' = IF shipment[s] = "completed" THEN Moved(s, "shipped", "packed") ELSE unit
        /\ items' = (items \ ItemsOf(s)) \cup {[i EXCEPT !.voided = TRUE] : i \in ItemsOf(s)}
        /\ shipment' = [shipment EXCEPT ![s] = "voided"]
  /\ End(q)
  /\ UNCHANGED <<batch, receipt>>

-----------------------------------------------------------------------------
(* Receipts and the batch itself *)

Open(r) == receipt[r].status = "open"
Received == MapThenSumSet(LAMBDA r : receipt[r].quantity, {r \in Receipts : Open(r)})

(* Mutant: only a new receipt is compared with the plan.                   *)
AddedWhenCreated(r) == IF r.op = "create_receipt" THEN r.quantity ELSE 0

AddedQty(r) ==
  CASE r.op = "create_receipt" -> r.quantity
    [] r.op = "update_receipt" /\ r.quantity > receipt[r.receipt].quantity ->
         r.quantity - receipt[r.receipt].quantity
    [] OTHER -> 0

WithinPlan(r) == AddedQty(r) <= Planned - Received

(* _lock_editable_receipt and _ensure_within_plan.                         *)
LockReceipt(q) ==
  /\ At(q, "receipt")
  /\ LET r == req[q]
     IN /\ IF r.op = "create_receipt" THEN UNCHANGED held
           ELSE Lock(q, <<"receipt", r.receipt>>, Update) /\ Open(r.receipt)
        /\ AddedQty(r) > 0 => WithinPlan(r)
  /\ Go(q, "write")
  /\ UNCHANGED dbVars

WriteReceipt(q) ==
  /\ At(q, "write") /\ req[q].op \in OnReceipt
  /\ \E r \in Receipts :
       /\ IF req[q].op = "create_receipt" THEN receipt[r].status = "absent"
          ELSE r = req[q].receipt
       /\ receipt' = [receipt EXCEPT ![r] =
            IF req[q].op = "void_receipt" THEN [@ EXCEPT !.status = "voided"]
            ELSE [status |-> "open", quantity |-> req[q].quantity]]
  /\ End(q)
  /\ UNCHANGED <<batch, unit, shipment, items>>

WriteBatch(q) ==
  /\ At(q, "write") /\ req[q].op \in OnBatch
  /\ batch' = IF req[q].op = "complete_batch" THEN [batch EXCEPT !.completed = TRUE]
              ELSE [batch EXCEPT !.archived = req[q].op = "archive"]
  /\ End(q)
  /\ UNCHANGED <<unit, shipment, items, receipt>>

(* Packing, of which OtkLine has the steps: with a shared lock of the      *)
(* batch, the lock of the unit, and no more.                               *)
Pack(u) ==
  /\ unit[u] = "passed" /\ ~batch.archived
  /\ \A q \in Handlers, mode \in Modes :
       /\ <<<<"unit", u>>, mode>> \notin held[q]
       /\ <<<<"batch">>, mode>> \in held[q] => ~Conflict(mode, Share)
  /\ unit' = [unit EXCEPT ![u] = "packed"]
  /\ UNCHANGED <<batch, shipment, items, receipt, held, req>>

Proceed(q) ==
  \/ LockBatch(q) \/ LockShipment(q) \/ LockUnit(q) \/ FindUnits(q) \/ InsertItem(q)
  \/ LockReference(q) \/ LockReceipt(q)
  \/ CreateShipment(q) \/ AddUnits(q) \/ RemoveUnit(q) \/ CompleteShipment(q)
  \/ VoidShipment(q) \/ WriteReceipt(q) \/ WriteBatch(q)

Next ==
  /\ \/ \E q \in Handlers :
          \/ RequestOnShipment(q) \/ RequestOnReceipt(q) \/ RequestOnBatch(q)
          \/ Proceed(q) \/ Rollback(q)
     \/ \E u \in Units : Pack(u)
  /\ UNCHANGED offered

Spec == Init /\ [][Next]_vars

-----------------------------------------------------------------------------
TypeOK ==
  /\ offered \in Offered
  /\ batch \in [archived : BOOLEAN, completed : BOOLEAN]
  /\ unit \in [Units -> {"passed", "packed", "shipped"}]
  /\ shipment \in [Shipments -> {"absent", "open", "completed", "voided"}]
  /\ items \subseteq [shipment : Shipments, unit : Units, voided : BOOLEAN]
  /\ receipt \in [Receipts -> [status : {"absent", "open", "voided"}, quantity : {0} \cup Quantities]]
  /\ \A q \in Handlers : req[q].op \in Operations \cup {"none"}
  /\ LocksCompatible(held)

(* shipments.md, "A shipped unit is always in its completed shipment": the *)
(* units of completed shipments are those that are shipped, each in one    *)
(* shipment, and those of open ones wait there packed; through any overlap *)
(* of adding, completing and voiding.                                      *)
ShippedWithItsShipment ==
  /\ \A u \in Units : unit[u] = "shipped" <=>
       \E i \in items : i.unit = u /\ ~i.voided /\ shipment[i.shipment] = "completed"
  /\ \A i \in items : i.voided = (shipment[i.shipment] = "voided")
  /\ \A i, j \in items : i.unit = j.unit /\ ~i.voided /\ ~j.voided => i = j
  /\ \A i \in items : shipment[i.shipment] = "open" => unit[i.unit] = "packed"

(* A shipment leaves with the number of units its user confirmed, and what *)
(* has left or was voided changes no more but for the voiding itself.      *)
LeavesAsConfirmed ==
  [][\A s \in Shipments :
       /\ shipment[s] = "open" /\ shipment'[s] = "completed" =>
            \E q \in Handlers :
              /\ req[q].op = "complete_shipment" /\ req[q].shipment = s
              /\ Cardinality(UnitsOf(s)') = req[q].quantity
       /\ shipment[s] \in {"completed", "voided"} => UnitsOf(s)' = UnitsOf(s)]_vars

(* batches.md, "Receipts never exceed the plan", however receipts are      *)
(* recorded, corrected and voided beside each other.                       *)
ReceiptsWithinPlan == Received <= Planned

(* The documents of an archived batch do not change, though each request   *)
(* looked at the batch some statements before.                             *)
ArchivedIsFrozen ==
  [][batch.archived => UNCHANGED <<unit, shipment, items, receipt, batch.completed>>]_vars

(* _batch_shipment_item.py:133, "A unit that a concurrent request adds     *)
(* first is skipped, not an error": whoever adds all packed units never    *)
(* waits in a circle with another request, of which PostgreSQL would end   *)
(* one.                                                                    *)
WaitsForItem(q, o) ==
  At(q, "insert") /\ \E u \in req[q].todo : o \in Blockers(held, q, <<"item", u>>, Update)
WaitsForUnit(q, o) ==
  At(q, "references") /\ \E u \in Unreferenced(q) : o \in Blockers(held, q, <<"unit", u>>, KeyShare)
ConcurrentAddIsSkipped ==
  \A q, o \in Handlers : ~(WaitsForItem(q, o) /\ WaitsForUnit(o, q))

(* That is for the two ways of adding units alone: whatever else waits, in  *)
(* some order of batch, then shipment or receipt, then the units of one    *)
(* shipment, never waits in a circle.                                      *)
Adding == {"add_units", "add_packed_units"}
Wanted(q) ==
  LET r == req[q]
  IN CASE r.step = "batch" -> {<<<<"batch">>, BatchMode(r.op)>>}
       [] r.step = "shipment" -> {<<<<"shipment", r.shipment>>, Update>>}
       [] r.step = "receipt" /\ r.op # "create_receipt" -> {<<<<"receipt", r.receipt>>, Update>>}
       [] r.step = "units" -> {<<<<"unit", u>>, NoKeyUpdate>> : u \in r.todo}
       [] OTHER -> {}
WaitsFor(q, o) == \E w \in Wanted(q) : o \in Blockers(held, q, w[1], w[2])
OnlyAddingDeadlocks ==
  \A S \in (SUBSET {q \in Handlers : req[q].op \notin Adding}) \ {{}} :
    \E q \in S : \A o \in S : ~WaitsFor(q, o)
=============================================================================
