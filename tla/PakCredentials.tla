--------------------------- MODULE PakCredentials ---------------------------
(***************************************************************************)
(* The credentials of one PAK, kept in two places: the database holds its  *)
(* row with a copy of its secret, Hydra holds the secret itself and the    *)
(* tokens it gave out for it.  Requests of administrators change both in   *)
(* one unit of work, whose transaction covers the database only: Hydra is  *)
(* called inside the transaction, after its commit or, to undo, after its  *)
(* rollback.  Beside them the PAK obtains tokens and opens verification    *)
(* sessions.  A call, a commit or the whole server may fail on the way.    *)
(* A secret is the number of its making; 0 is that of the PAK's creation.  *)
(***************************************************************************)
EXTENDS Naturals

CONSTANTS
  Requests, \* requests of administrators
  Cases,    \* what is checked, a set of [requests, failures]: those that may
            \*  overlap, and what may fail, of AllFailures
  MaxSecret \* bound, a number: how many secrets are made

Operations ==
  {"create", "activate", "deactivate", "archive", "restore", "rotate_planned",
   "rotate_immediate", "delete"}

(* "call": Hydra does not do what it is asked; "answer": it does, and the  *)
(* answer is lost; "commit": the transaction is rolled back at its end;    *)
(* "crash": the server stops and forgets its requests.                     *)
AllFailures == {"call", "answer", "commit", "crash"}

Nobody == "nobody"
Machine == "machine"

CredentialsAssumption ==
  /\ MaxSecret \in Nat
  /\ Nobody \notin Requests /\ Machine \notin Requests
  /\ \A c \in Cases : c.requests \subseteq Requests /\ c.failures \subseteq AllFailures

VARIABLES
  case,   \* the case of this behaviour
  row,    \* the PAK's row: [exists, active, archived, secret]
  used,   \* the PAK has a verification session, running or finished
  hydra,  \* the OAuth client: [exists, secret]
  tokens, \* the secrets that tokens now valid were given out for
  secret, \* the last secret made
  lock,   \* the request that holds the lock of the row, or Nobody
  req,    \* [Requests -> the progress of each]
  device, \* the PAK: [key, token, step], its secret, its token and its opening of a session
  session \* a verification session of the PAK is running

vars == <<case, row, used, hydra, tokens, secret, lock, req, device, session>>

Rotations == {"rotate_planned", "rotate_immediate"}

NoRequest == [step |-> "idle", op |-> "none", old |-> 0, new |-> 0, undo |-> FALSE, ok |-> FALSE]

AtRest == \A q \in Requests : req[q].step = "idle"

Init ==
  /\ case \in Cases
  /\ \E exists \in BOOLEAN :
       /\ row = [exists |-> exists, active |-> exists, archived |-> FALSE, secret |-> 0]
       /\ hydra = [exists |-> exists, secret |-> 0]
  /\ used = FALSE
  /\ tokens = {}
  /\ secret = 0
  /\ lock = Nobody
  /\ req = [q \in Requests |-> NoRequest]
  /\ device = [key |-> 0, token |-> 0, step |-> "idle"]
  /\ session = FALSE

-----------------------------------------------------------------------------
Unlocked(q) == lock' = IF lock = q THEN Nobody ELSE lock
Go(q, step) == req' = [req EXCEPT ![q].step = step]

(* The service of the request, up to its first call or write.              *)
Begin(q, op) ==
  /\ q \in case.requests
  /\ req[q].step = "idle"
  /\ op = "create" => ~row.exists /\ ~hydra.exists /\ secret = 0 /\ AtRest \* a new PAK
  /\ req' = [req EXCEPT ![q] = [NoRequest EXCEPT !.step = IF op = "create" THEN "call" ELSE "lock",
                                                 !.op = op]]
  /\ UNCHANGED <<case, row, used, hydra, tokens, secret, lock, device, session>>

LockRow(q) == lock = Nobody /\ lock' = q

Refused(op) ==
  \/ ~row.exists
  \/ op \notin {"archive", "restore", "delete"} /\ row.archived
  \/ op = "rotate_planned" /\ session
  \/ op = "delete" /\ used

(* _require(for_update=True) and the checks on what it read.               *)
Require(q) ==
  /\ req[q].step = "lock"
  /\ LockRow(q)
  /\ req' = [req EXCEPT ![q].old = row.secret,
                        ![q].step = IF Refused(req[q].op) THEN "rollback"
                                    ELSE IF req[q].op \in Rotations THEN "call"
                                    ELSE "commit"]
  /\ UNCHANGED <<case, row, used, hydra, tokens, secret, device, session>>

(* on_rollback comes after the call: one that raises registers nothing.    *)
UndoRegistered(succeeded) == succeeded

(* create_client or rotate_client_credentials, inside the transaction.     *)
Call(q, done, answered) ==
  /\ req[q].step = "call"
  /\ secret < MaxSecret \/ req[q].op = "create"
  /\ LET new == IF req[q].op = "create" THEN secret ELSE secret + 1
         works == done /\ (req[q].op = "create" \/ hydra.exists)
     IN /\ secret' = new
        /\ hydra' = IF works THEN [exists |-> TRUE, secret |-> new] ELSE hydra
        /\ req' = [req EXCEPT ![q].step = IF works /\ answered THEN "commit" ELSE "rollback",
                              ![q].new = new,
                              ![q].undo = UndoRegistered(works /\ answered)]
  /\ UNCHANGED <<case, row, used, tokens, lock, device, session>>

-----------------------------------------------------------------------------
(* The unit of work.                                                       *)

(* Mutant: the row keeps the secret it had.                                *)
OldSecret(r) == r.old

NewSecret(r) == r.new

Written(r) ==
  CASE r.op = "create" -> [exists |-> TRUE, active |-> TRUE, archived |-> FALSE, secret |-> NewSecret(r)]
    [] r.op \in {"activate", "deactivate"} -> [row EXCEPT !.active = r.op = "activate"]
    [] r.op = "archive" -> [row EXCEPT !.archived = TRUE, !.active = FALSE]
    [] r.op = "restore" -> [row EXCEPT !.archived = FALSE]
    [] r.op = "delete" -> [row EXCEPT !.exists = FALSE]
    [] OTHER -> [row EXCEPT !.secret = NewSecret(r)]

(* Mutant: a planned rotation is taken for an immediate one and the other  *)
(* way round.                                                              *)
HasEffectSwapped(op) == op \in {"deactivate", "archive", "rotate_planned", "delete"}

(* What was registered to run after the commit.                            *)
HasEffect(op) == op \in {"deactivate", "archive", "rotate_immediate", "delete"}

Commit(q) ==
  /\ req[q].step = "commit"
  /\ row' = Written(req[q])
  /\ Unlocked(q)
  /\ req' = [req EXCEPT ![q].step = IF HasEffect(req[q].op) THEN "effect" ELSE "answer",
                        ![q].ok = TRUE]
  /\ UNCHANGED <<case, used, hydra, tokens, secret, device, session>>

CommitFails(q) ==
  /\ req[q].step = "commit"
  /\ Go(q, "rollback")
  /\ UNCHANGED <<case, row, used, hydra, tokens, secret, lock, device, session>>

(* The transaction ends, and with it the lock, before anything is undone.  *)
Rollback(q) ==
  /\ req[q].step = "rollback"
  /\ Unlocked(q)
  /\ Go(q, IF req[q].undo THEN "undo" ELSE "answer")
  /\ UNCHANGED <<case, row, used, hydra, tokens, secret, device, session>>

(* revoke_client_tokens or delete_client.  Its failure is logged.          *)
Effect(q, done) ==
  /\ req[q].step = "effect"
  /\ Go(q, "answer")
  /\ IF ~done THEN UNCHANGED <<case, hydra, tokens>>
     ELSE /\ tokens' = {}
          /\ hydra' = IF req[q].op = "delete" THEN [hydra EXCEPT !.exists = FALSE] ELSE hydra
  /\ UNCHANGED <<case, row, used, secret, lock, device, session>>

(* delete_client of a PAK that was not created; set_client_secret back to  *)
(* the secret the transaction read.                                        *)
Undo(q, done) ==
  /\ req[q].step = "undo"
  /\ Go(q, "answer")
  /\ hydra' = IF ~done THEN hydra
              ELSE IF req[q].op = "create" THEN [hydra EXCEPT !.exists = FALSE]
              ELSE IF hydra.exists THEN [hydra EXCEPT !.secret = req[q].old]
              ELSE hydra
  /\ tokens' = IF done /\ req[q].op = "create" THEN {} ELSE tokens
  /\ UNCHANGED <<case, row, used, secret, lock, device, session>>

(* The person who created or rotated sets the new key on the PAK.          *)
Answer(q) ==
  /\ req[q].step = "answer"
  /\ req' = [req EXCEPT ![q] = NoRequest]
  /\ device' = IF req[q].ok /\ req[q].op \in Rotations
                 THEN [device EXCEPT !.key = req[q].new] ELSE device
  /\ UNCHANGED <<case, row, used, hydra, tokens, secret, lock, session>>

(* A request of the server that is gone leaves what it has done; the       *)
(* database rolls its transaction back.                                    *)
Crash ==
  /\ ~AtRest
  /\ req' = [q \in Requests |-> NoRequest]
  /\ lock' = Nobody
  /\ device' = [device EXCEPT !.step = "idle"]
  /\ UNCHANGED <<case, row, used, hydra, tokens, secret, session>>

-----------------------------------------------------------------------------
(* The PAK.                                                                *)

ObtainToken ==
  /\ device.step = "idle"
  /\ hydra.exists /\ hydra.secret = device.key
  /\ tokens' = tokens \cup {hydra.secret}
  /\ device' = [device EXCEPT !.token = hydra.secret]
  /\ UNCHANGED <<case, row, used, hydra, secret, lock, req, session>>

TokenExpires(s) ==
  /\ s \in tokens
  /\ tokens' = tokens \ {s}
  /\ UNCHANGED <<case, row, used, hydra, secret, lock, req, device, session>>

(* authorize_machine_access_token: Hydra knows the token.                  *)
Introspect ==
  /\ device.step = "idle"
  /\ device.token \in tokens
  /\ device' = [device EXCEPT !.step = "introspected"]
  /\ UNCHANGED <<case, row, used, hydra, tokens, secret, lock, req, session>>

(* Its row, and whether it may work; otherwise the request ends.           *)
Authorize ==
  /\ device.step = "introspected"
  /\ device' = [device EXCEPT !.step = IF row.exists /\ row.active /\ ~row.archived
                                         THEN "authorized" ELSE "idle"]
  /\ UNCHANGED <<case, row, used, hydra, tokens, secret, lock, req, session>>

(* open_session takes the lock of the row, and reads nothing but its id.   *)
LockPak ==
  /\ device.step = "authorized"
  /\ lock = Nobody
  /\ lock' = Machine
  /\ device' = [device EXCEPT !.step = "locked"]
  /\ UNCHANGED <<case, row, used, hydra, tokens, secret, req, session>>

(* The session's foreign key keeps it from a PAK that is gone.             *)
OpenSession ==
  /\ device.step = "locked"
  /\ lock' = Nobody
  /\ device' = [device EXCEPT !.step = "idle"]
  /\ used' = (used \/ row.exists)
  /\ session' = (session \/ row.exists)
  /\ UNCHANGED <<case, row, hydra, tokens, secret, req>>

CompleteSession ==
  /\ session
  /\ session' = FALSE
  /\ UNCHANGED <<case, row, used, hydra, tokens, secret, lock, req, device>>

-----------------------------------------------------------------------------
May(failure) == failure \in case.failures

Next ==
  \/ \E q \in Requests :
       \/ \E op \in Operations : Begin(q, op)
       \/ Require(q)
       \/ Call(q, TRUE, TRUE)
       \/ May("call") /\ Call(q, FALSE, FALSE)
       \/ May("answer") /\ Call(q, TRUE, FALSE)
       \/ Commit(q)
       \/ May("commit") /\ CommitFails(q)
       \/ Rollback(q)
       \/ Effect(q, TRUE)
       \/ May("call") /\ Effect(q, FALSE)
       \/ Undo(q, TRUE)
       \/ May("call") /\ Undo(q, FALSE)
       \/ Answer(q)
  \/ May("crash") /\ Crash
  \/ ObtainToken
  \/ \E s \in tokens : TokenExpires(s)
  \/ Introspect \/ Authorize \/ LockPak \/ OpenSession \/ CompleteSession

Spec == Init /\ [][Next]_vars

-----------------------------------------------------------------------------
TypeOK ==
  /\ row \in [exists : BOOLEAN, active : BOOLEAN, archived : BOOLEAN, secret : 0..MaxSecret]
  /\ hydra \in [exists : BOOLEAN, secret : 0..MaxSecret]
  /\ tokens \subseteq 0..MaxSecret
  /\ secret \in 0..MaxSecret
  /\ lock \in Requests \cup {Nobody, Machine}
  /\ lock \in Requests => req[lock].step \in {"call", "commit", "rollback"}
  /\ \A q \in Requests :
       /\ req[q].step \in {"idle", "lock", "call", "commit", "rollback", "effect", "undo", "answer"}
       /\ {req[q].old, req[q].new} \subseteq 0..MaxSecret
  /\ device.key \in 0..MaxSecret
  /\ device.step \in {"idle", "introspected", "authorized", "locked"}

OneByOne == \E q \in Requests : case.requests = {q}

(* While nothing is under way the two stores agree: the client of every    *)
(* PAK is there, of no other, and the key the database hands out works.    *)
(* So it is when requests overlap and none fails, and when they come one   *)
(* by one and their commits fail.  It is not when a request that overlaps  *)
(* another fails to commit: its undo comes after its lock is released, and *)
(* may put the old secret over the one the other has set meanwhile         *)
(* (PreviousSecretStops in MCPakCredentials shows that).                   *)
StoresAgree ==
  case.failures = {} \/ (OneByOne /\ case.failures = {"commit"}) =>
    (AtRest => /\ hydra.exists = row.exists
               /\ row.exists => hydra.secret = row.secret)

(* A rotation made alone that succeeds leaves a key that works, whatever   *)
(* earlier requests left behind, lost answers and crashes included         *)
(* (transactions.md: repeating a request repairs).  Of one that overlaps   *)
(* another request this says nothing.                                      *)
RotationRepairs ==
  OneByOne =>
    \A q \in Requests :
      req[q].step = "answer" /\ req[q].ok /\ req[q].op \in Rotations =>
        hydra.secret = row.secret

(* While a planned rotation is under way the PAK runs no session           *)
(* (rotate_access_key: no running session outlives the key it started      *)
(* with).                                                                  *)
PlannedSparesSessions ==
  \A q \in Requests :
    req[q].op = "rotate_planned" /\ req[q].step \in {"call", "commit"} => ~session

(* After an immediate rotation has answered, no token of an earlier secret *)
(* is valid any more: the leaked key gives no access.  A call of Hydra     *)
(* that fails after the commit is logged only, and leaves them; and a       *)
(* commit that fails may restore a secret after another request rotated.   *)
ImmediateEndsOldTokens ==
  "call" \notin case.failures /\ (OneByOne \/ "commit" \notin case.failures) =>
    \A q \in Requests :
      req[q].step = "answer" /\ req[q].ok /\ req[q].op = "rotate_immediate" =>
        \A s \in tokens : s >= req[q].new

(* The key the database hands out works after a rotation made alone, and   *)
(* whenever nothing is under way if no call was lost and no request that   *)
(* overlapped another failed to commit.                                    *)
KeysWork == StoresAgree /\ RotationRepairs

(* The two modes of a rotation keep what they promise about the sessions   *)
(* and the tokens of the key they replace.                                 *)
RotationModes == PlannedSparesSessions /\ ImmediateEndsOldTokens
=============================================================================
