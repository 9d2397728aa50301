------------------------------ MODULE RowLocks ------------------------------
(***************************************************************************)
(* The row-level locks of PostgreSQL, as the services of the backend use   *)
(* them: every SELECT ... FOR ... a service emits takes a lock on a row    *)
(* that lasts until the transaction commits or rolls back.                 *)
(*                                                                         *)
(*   SQLAlchemy                         PostgreSQL                         *)
(*   with_for_update()                  FOR UPDATE                         *)
(*   with_for_update(key_share=True)    FOR NO KEY UPDATE                  *)
(*   with_for_update(read=True)         FOR SHARE                          *)
(*   insert of a referencing row        FOR KEY SHARE on the parent        *)
(*                                                                         *)
(* PostgreSQL is not part of the repository: the module is external to it. *)
(* A transaction holds a set of pairs <<row, mode>>; it may hold several   *)
(* modes of one row, and its own locks never conflict with each other.     *)
(***************************************************************************)

KeyShare    == "KEY SHARE"
Share       == "SHARE"
NoKeyUpdate == "NO KEY UPDATE"
Update      == "UPDATE"
Modes       == {KeyShare, Share, NoKeyUpdate, Update}

(* The conflict table of the PostgreSQL manual, "Row-Level Locks". *)
Conflict(m, n) ==
    \/ Update \in {m, n}
    \/ m = NoKeyUpdate /\ n # KeyShare
    \/ n = NoKeyUpdate /\ m # KeyShare

(* The transactions whose locks keep t from locking row r in mode m. *)
Blockers(held, t, r, m) ==
    {o \in DOMAIN held \ {t} : \E n \in Modes : <<r, n>> \in held[o] /\ Conflict(n, m)}

Grantable(held, t, r, m) == Blockers(held, t, r, m) = {}

Grant(held, t, r, m) == [held EXCEPT ![t] = @ \cup {<<r, m>>}]

ReleaseAll(held, t) == [held EXCEPT ![t] = {}]

Locked(held, t, r) == \E m \in Modes : <<r, m>> \in held[t]

(***************************************************************************)
(* No two transactions hold conflicting locks of one row.                  *)
(***************************************************************************)
LocksCompatible(held) ==
    \A t, o \in DOMAIN held : \A l \in held[t], k \in held[o] :
        t # o /\ l[1] = k[1] => ~Conflict(l[2], k[2])
=============================================================================
