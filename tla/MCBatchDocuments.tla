-------------------------- MODULE MCBatchDocuments --------------------------
(* Two requests that add units, to two shipments of one batch.               *)
EXTENDS BatchDocuments

AddingOnly == {{"create_shipment", "add_units", "add_packed_units"}}
=============================================================================
