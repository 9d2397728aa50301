----------------------------- MODULE KgLifecycle -----------------------------
(***************************************************************************)
(* What verification and packing promise about each KG unit, without       *)
(* sessions, locks or transactions.  A unit is put on the OTK line, leaves *)
(* it with or without a verdict, and is packed only off the line and with  *)
(* the verdict "passed"; nothing happens to the units of an archived batch *)
(* except that they leave the line.                                        *)
(***************************************************************************)
CONSTANT Units

VARIABLES
    state,      \* KgState
    verdict,    \* KgOtkStatus
    onLine,     \* an OTK-line session of the unit is running
    frozen      \* the unit's batch is archived

vars == <<state, verdict, onLine, frozen>>

Init ==
    /\ state \in [Units -> {"registered", "scrapped"}]
    /\ verdict = [u \in Units |-> "not_verified"]
    /\ onLine = [u \in Units |-> FALSE]
    /\ frozen \in [Units -> BOOLEAN]

Stay(u) ==
    state'[u] = state[u] /\ verdict'[u] = verdict[u] /\ onLine'[u] = onLine[u]

Enter(u) ==
    /\ ~frozen[u] /\ state[u] = "registered"
    /\ onLine'[u] = TRUE
    /\ state'[u] = state[u] /\ verdict'[u] = verdict[u]

Leave(u) ==
    /\ onLine[u] /\ onLine'[u] = FALSE
    /\ verdict'[u] \in {verdict[u], "passed", "failed"}
    /\ state'[u] = state[u]

Pack(u) ==
    /\ ~frozen[u] /\ ~onLine[u]
    /\ state[u] = "registered" /\ verdict[u] = "passed"
    /\ state'[u] = "packed"
    /\ verdict'[u] = verdict[u] /\ onLine'[u] = onLine[u]

(* One unit may leave a slot in the step in which another enters it. *)
Move ==
    /\ \A u \in Units : Stay(u) \/ Enter(u) \/ Leave(u) \/ Pack(u)
    /\ frozen' = frozen

Freeze ==
    /\ frozen' \in [Units -> BOOLEAN]
    /\ UNCHANGED <<state, verdict, onLine>>

Next ==
    /\ state' \in [Units -> {"registered", "packed", "scrapped"}]
    /\ verdict' \in [Units -> {"not_verified", "passed", "failed"}]
    /\ onLine' \in [Units -> BOOLEAN]
    /\ Move \/ Freeze

Spec == Init /\ [][Next]_vars
=============================================================================
