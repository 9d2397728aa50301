-------------------------- MODULE MCRecordEditing --------------------------
(* One record at first and a second one that another browser may add; all  *)
(* the values of the two differ.                                            *)
EXTENDS RecordEditing

CONSTANTS r1, r2

AllFields == {"login", "name", "role", "code", "kind", "description", "dayPlanQty",
              "engineerAction", "possibleCause"}

OneRecord == <<r1>>
Different == {[r \in Records |-> [f \in AllFields |-> IF r = r1 THEN "a" ELSE "b"]]}

AllDialogs ==
  {EditUser, EditPak, EditBatch, EditProductionOrder, EditKgPrefix, EditKgVersion,
   EditDefectGroup, EditDefectType}

(* Two fields of every form, if it has them: both requests of EditUser, one *)
(* that is chosen, and descriptions that are deleted with spaces.          *)
SomeTexts ==
  [f \in {"name", "role", "code", "kind", "description"} |->
     IF f = "description" THEN {Spaces} ELSE {"b"}]
=============================================================================
