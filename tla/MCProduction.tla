---------------------------- MODULE MCProduction ----------------------------
(***************************************************************************)
(* What the assembly line is served with, and what becomes of its units:   *)
(* the creation of batches out of prefixes of DevEUIs and KG versions, the *)
(* documents a batch has from then on, and the catalogs of defects and of  *)
(* checks.  A creation knows nothing of documents, they nothing of         *)
(* prefixes, and the catalogs nothing of either: TLC explores one after    *)
(* the other, and the variables of the others never change.                *)
(***************************************************************************)
EXTENDS DevEuiAllocation, TLC

CONSTANTS
  Units, Shipments, Receipts, ReceiptQuantities, Planned, Offered,
  Groups, Types, Checks, Codes,
  Handlers

VARIABLES
  used,
  offered, batch, unit, shipment, items, receipt, docHeld, docReq,
  group, type, check, steps, catalogHeld, catalogReq

(* The module with the proofs: what it proves holds of the instance.       *)
Docs == INSTANCE BatchDocumentsProofs
        WITH Quantities <- ReceiptQuantities, held <- docHeld, req <- docReq

(* Finitely many receipts, quantities that are numbers.                    *)
ASSUME ProductionAssumption == Docs!DocumentsAssumption

Catalog == INSTANCE DefectCatalog WITH held <- catalogHeld, req <- catalogReq

docVars == <<offered, batch, unit, shipment, items, receipt, docHeld, docReq>>
catalogVars == <<group, type, check, steps, catalogHeld, catalogReq>>
mcVars == <<used, vars, docVars, catalogVars>>

(* Requests about the shipments and the archiving, and requests about the  *)
(* receipts: the two share the batch and nothing else.                     *)
Shipping ==
  {"create_shipment", "add_units", "add_packed_units", "remove_unit", "complete_shipment",
   "void_shipment", "archive", "restore"}
Receiving ==
  {"create_receipt", "update_receipt", "void_receipt", "archive", "restore", "complete_batch"}
ShippingAndReceiving == {Shipping, Receiving}

MCInit ==
  /\ used \in {"creation", "documents", "catalog"}
  /\ Init /\ Docs!Init /\ Catalog!Init
  /\ used # "documents" => offered = Shipping

MCNext ==
  \/ used = "creation" /\ Next /\ UNCHANGED <<used, docVars, catalogVars>>
  \/ used = "documents" /\ Docs!Next /\ UNCHANGED <<used, vars, catalogVars>>
  \/ used = "catalog" /\ Catalog!Next /\ UNCHANGED <<used, vars, docVars>>

MCSpec == MCInit /\ [][MCNext]_mcVars

(* Handlers differ in nothing but their names.                             *)
Symmetry == Permutations(Handlers)

-----------------------------------------------------------------------------
(* shipments.md, "A shipped unit is always in its completed shipment": the *)
(* units of completed shipments are those that are shipped, each in one    *)
(* shipment, through any overlap of adding, completing and voiding.        *)
ShippedWithItsShipment == Docs!ShippedWithItsShipment

(* A shipment leaves with the number of units its user confirmed, and what *)
(* has left or was voided changes no more but for the voiding itself.      *)
LeavesAsConfirmed == Docs!LeavesAsConfirmed

(* batches.md, "Receipts never exceed the plan", however receipts are      *)
(* recorded, corrected and voided beside each other.                       *)
ReceiptsWithinPlan == Docs!ReceiptsWithinPlan

(* The documents of an archived batch do not change, though each request   *)
(* looked at the batch some statements before.                             *)
ArchivedIsFrozen == Docs!ArchivedIsFrozen

(* defects.md, "a type cannot slip into a group while it is being          *)
(* archived": no type in use is of a group that is not; a start of a step  *)
(* records groups in use; and a group that anything refers to is there.    *)
GroupsCanBeReliedOn == Catalog!GroupsCanBeReliedOn
=============================================================================
