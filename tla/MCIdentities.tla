---------------------------- MODULE MCIdentities ----------------------------
(***************************************************************************)
(* What is kept in two places, one of them a service of identities: the    *)
(* users and their identities in Kratos, the PAKs and their clients in     *)
(* Hydra.  They share no state: TLC explores the one and then the other,   *)
(* and the variables of the other never change.                            *)
(***************************************************************************)
EXTENDS MCAdministrators

CONSTANTS PakRequests, PakCases, MaxSecret

VARIABLES used, pakCase, pakRow, inUse, hydra, tokens, secret, rowLock, pakReq, device, session

(* What TLC explores of the credentials.                                   *)
UsualPakCases ==
  {[requests |-> {"p1"}, failures |-> {"commit"}],
   [requests |-> {"p1"}, failures |-> {"call", "answer", "commit", "crash"}],
   [requests |-> {"p1", "p2"}, failures |-> {}]}

Pak == INSTANCE PakCredentials
       WITH Requests <- PakRequests, Cases <- PakCases, case <- pakCase, row <- pakRow, used <- inUse,
            lock <- rowLock, req <- pakReq

pakVars == <<pakCase, pakRow, inUse, hydra, tokens, secret, rowLock, pakReq, device, session>>
mcVars == <<used, vars, pakVars>>

ASSUME IdentitiesAssumption == Pak!CredentialsAssumption

MCInit ==
  /\ used \in {"users", "pak"}
  /\ Init /\ Pak!Init
  /\ used = "users" => pakCase.failures = {} /\ pakRow.exists
  /\ used = "pak" => case = Alone /\ user = [u \in Users |-> IF u = 1 THEN Row("active", "administrator")
                                                                ELSE Absent]

(* Requests about users end; what is explored of the PAKs is bounded.       *)
MayStop == used = "users" => Ended

MCNext ==
  \/ used = "users" /\ Next /\ UNCHANGED <<used, pakVars>>
  \/ used = "pak" /\ Pak!Next /\ UNCHANGED <<used, vars>>
  \/ MayStop /\ UNCHANGED mcVars

MCSpec == MCInit /\ [][MCNext]_mcVars

-----------------------------------------------------------------------------
(* The key the database hands out works (_pak_device.py:235-239 and        *)
(* transactions.md:74-76): after a rotation that no other request          *)
(* overlapped, whatever was lost or failed before it, and whenever nothing *)
(* is under way, if no call of Hydra was lost and no request that          *)
(* overlapped another failed to commit.                                    *)
KeysWork == Pak!KeysWork

(* While a planned rotation is under way the PAK runs no session, though   *)
(* the PAK opens them beside it; after an immediate one has answered, no   *)
(* token of an earlier secret is valid any more, whatever the PAK asked    *)
(* for meanwhile.                                                          *)
RotationModes == Pak!RotationModes
=============================================================================
