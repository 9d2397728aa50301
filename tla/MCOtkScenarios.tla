--------------------------- MODULE MCOtkScenarios ---------------------------
(***************************************************************************)
(* The instances in which TLC checks OtkLine, one scenario after the other *)
(* in a run.  A scenario says which requests are sent, about which units   *)
(* and from which PAKs, how many sessions they may open and how long the   *)
(* clock goes on; which handler, unit and PAK is left open, and what the   *)
(* system does with the requests is OtkLine's.                             *)
(***************************************************************************)
EXTENDS MCOtkLine

CONSTANT Scenarios

VARIABLE scenario

mcVars == <<vars, scenario>>

AllOperations == {"open", "start", "report", "complete", "pack", "archive", "edit_pak"}

(* One slot of a PAK, one step, any number of overlapping requests.         *)
AnyRequests ==
    [name |-> "everything", operations |-> AllOperations, units |-> Units, paks |-> Paks,
     slots |-> {1}, total |-> 1, checks |-> 1, ids |-> Sessions, opened |-> 3,
     parallel |-> TRUE, clock |-> 2]

(* Two units compete for one slot each of two PAKs.                         *)
Opening ==
    {[AnyRequests EXCEPT !.name = "opening", !.operations = {"open"}, !.clock = 1]}

(* A unit has passed on the OTK line and is verified again, packed, or its  *)
(* batch archived, until the session in between idles.                      *)
Packed ==
    {[AnyRequests EXCEPT !.name = "packing", !.units = {u}, !.ids = {1, 2}, !.clock = 1,
          !.operations = {"open", "complete", "pack", "archive"}] : u \in Units}

(* A session of two steps, its reports and its completion.                  *)
Reports ==
    {[AnyRequests EXCEPT !.name = "reports", !.units = {u}, !.paks = {p}, !.ids = {1},
          !.total = 2, !.checks = 2, !.clock = 0,
          !.operations = {"open", "start", "report", "complete"}] :
        u \in Units, p \in Paks}

(* A PAK becomes an OTK line, or ceases to be one, while it verifies.      *)
Kinds ==
    {[AnyRequests EXCEPT !.name = "kinds", !.units = {u}, !.paks = {p}, !.ids = {1}, !.clock = 0,
          !.operations = {"open", "start", "report", "complete", "edit_pak"}] :
        u \in Units, p \in Paks}

(* All the rest at once, with one session of one step, until it idles.       *)
Everything ==
    {[AnyRequests EXCEPT !.units = {u}, !.paks = {p}, !.ids = {1},
          !.operations = AllOperations \ {"edit_pak"}] : u \in Units, p \in Paks}

SafetyScenarios == Opening \cup Packed \cup Reports \cup Kinds \cup Everything

(* Overlapping requests that wait for each other's locks, over every kind of *)
(* row.                                                                    *)
Waiting ==
    {[AnyRequests EXCEPT !.name = "waiting", !.units = {u1}, !.paks = {p1}, !.opened = 1,
          !.operations = {"open", "complete", "pack", "archive"}, !.clock = 0]}

(* Sessions in both slots of a PAK, opened one after the other, then swept.  *)
Abandoning ==
    {[AnyRequests EXCEPT !.name = "abandoning", !.paks = {p1}, !.slots = {1, 2}, !.opened = 2,
          !.parallel = FALSE, !.operations = {"open", "start"}]}

FairScenarios == Waiting \cup Abandoning

----------------------------------------------------------------------------

(* The scenario of packing begins with the session that passes the unit,    *)
(* one request after the other.                                            *)
Unverified ==
    scenario.name = "packing" /\ session[1].status # "passed"

FirstSession(r) ==
    /\ r.op = IF session[1].status = "absent" THEN "open"
              ELSE IF session[1].steps[1].status = "absent" THEN "start"
              ELSE IF session[1].steps[1].status = "running" THEN "report"
              ELSE "complete"
    /\ r.op = "open" => pakKind[r.pak] = "otk_line" /\ r.total = 1
    /\ r.op \in {"report", "complete"} => r.result = "passed"

(* The request t has just sent belongs to the scenario.                     *)
Offered(t) ==
    LET r == req'[t] IN
    /\ IF Unverified
       THEN FirstSession(r) /\ \A o \in Handlers : pc[o] = "idle"
       ELSE r.op \in scenario.operations
    /\ r.op \in {"open", "pack"} => r.unit \in scenario.units
    /\ r.op \in {"open", "start", "report", "edit_pak"} => r.pak \in scenario.paks
    /\ r.op = "open" => r.total <= scenario.total /\ r.slot \in scenario.slots
    /\ r.op = "open" => Cardinality(Recorded) < scenario.opened
    /\ scenario.parallel \/ \A o \in Handlers : pc[o] = "idle"
    /\ r.op \in {"start", "report"} => r.step <= scenario.total
    /\ r.op = "start" => r.check \in {CHOOSE c \in Checks : TRUE} \/ scenario.checks > 1

(* The ids of the scenario are the bound on its sessions.                   *)
WithinIds ==
    /\ \A s \in Sessions \ scenario.ids : session'[s].status = "absent"
    /\ Unverified => \A s \in Sessions \ {1} : session'[s].status = "absent"

MCInit ==
    /\ Init
    /\ scenario \in Scenarios
    /\ \A u \in Units \ scenario.units : kg[u].state = "registered"
    /\ \A p \in Paks \ scenario.paks : pakKind[p] = "engineering"
    /\ scenario.name \in {"packing", "abandoning"} => \A u \in Units : kg[u].state = "registered"
    /\ scenario.name = "packing" => \E p \in Paks : pakKind[p] = "otk_line"

(* Time passes up to the end of the scenario, and not before it has begun.  *)
MCTick == Tick /\ clock < scenario.clock /\ ~Unverified /\ UNCHANGED scenario

MCNext ==
    \/ \E t \in Handlers : Request(t) /\ Offered(t) /\ UNCHANGED scenario
    \/ \E t \in Tx : Proceed(t) /\ WithinIds /\ UNCHANGED scenario
    \/ \E t \in Tx : Abort(t) /\ UNCHANGED scenario
    \/ \E j \in Jobs : ExpireStale(j) /\ UNCHANGED scenario
    \/ MCTick

MCSpec == MCInit /\ [][MCNext]_mcVars

(* PostgreSQL grants a lock once nobody holds a conflicting one and the     *)
(* handlers wait for nothing else; the worker runs the sweep every minute;  *)
(* time passes.  It is asked of the steps as the scenario has them: its    *)
(* clock ends with it.  Nothing is asked of those who send requests.       *)
MCFairness ==
    /\ \A t \in Tx : WF_mcVars(Proceed(t) /\ WithinIds /\ UNCHANGED scenario)
    /\ \A j \in Jobs : WF_mcVars(ExpireStale(j) /\ UNCHANGED scenario)
    /\ WF_mcVars(MCTick)

MCFairSpec == MCSpec /\ MCFairness
=============================================================================
