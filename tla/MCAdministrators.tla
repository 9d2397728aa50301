------------------------- MODULE MCAdministrators --------------------------
(* Users of whom any may be an active administrator at first, and the cases  *)
(* of requests about them.                                                   *)
EXTENDS Administrators

Case(requests, operations) ==
  [rows |-> [u \in Users |-> IF u = 3 THEN {Absent} ELSE Rows],
   requests |-> requests, operations |-> operations, failures |-> {}]

AtWork == {Row("active", "administrator"), Row("active", "operator")}

(* Changes of role only; two of any requests; users who leave, with a third  *)
(* administrator in between; and one request with calls that fail.           *)
Roles ==
  [Case({"q1", "q2", "q3"}, {"make_administrator", "make_operator", "make_engineer"}) EXCEPT
     !.rows = [u \in Users |-> IF u = 3 THEN {Absent} ELSE AtWork]]
Pairs == [Case({"q1", "q2"}, AllOperations) EXCEPT !.failures = {"commit"}]
Departures ==
  [Case({"q1", "q2"}, {"make_operator", "deactivate", "archive", "delete"}) EXCEPT
     !.rows = [u \in Users |-> AtWork]]
Alone == [Case({"q1"}, AllOperations) EXCEPT !.failures = {"call", "commit"}]

Stale == Case({"q1", "q2", "q3"}, {"make_administrator", "make_operator", "deactivate"})

UsualCases == {Roles, Pairs, Departures, Alone}
StaleCases == {Stale}
=============================================================================
