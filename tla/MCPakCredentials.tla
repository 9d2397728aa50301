-------------------------- MODULE MCPakCredentials --------------------------
(* Two requests of administrators about one PAK, whose commits may fail.    *)
EXTENDS PakCredentials

UndoneCases == {[requests |-> {"p1", "p2"}, failures |-> {"commit"}]}

-----------------------------------------------------------------------------
(* _pak_device.py:214: "The previous secret stops working at once."  When  *)
(* a rotation that succeeded is answered, Hydra no longer takes the secret *)
(* it replaced.                                                            *)
PreviousSecretStops ==
  \A q \in Requests :
    req[q].step = "answer" /\ req[q].ok /\ req[q].op \in Rotations => hydra.secret # req[q].old
=============================================================================
