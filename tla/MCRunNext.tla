----------------------------- MODULE MCRunNext -----------------------------
(***************************************************************************)
(* A small instance of RunNext: three tasks, so that a skill can be        *)
(* promoted as the server promotes it, one of them with failures; one      *)
(* item and two instances of the agenda.                                   *)
(***************************************************************************)
EXTENDS RunNext

CONSTANTS t1, t2, t3, g, c, d, me, other

Courses(t) ==
    CASE t = t1 -> [causes : {<<c, c, d>>}, checked : {TRUE}, last : {"verified", "decision"}]
      [] t = t2 -> [causes : {<<>>}, checked : BOOLEAN, last : {"rejected"}]
      [] t = t3 -> [causes : {<<>>}, checked : {TRUE}, last : {"verified"}]
      [] t = g -> [causes : {<<>>, <<c>>}, last : {"PASS", "STOP"}]

OptionsOf(t) == IF t \in {t1, g} THEN {1} ELSE {}
OneItem == {1}
Instances == {me, other}

\* Bound: the agenda is used before the tasks, or they before it.
Alone == \A t \in Task : saved # NoItems => trail[t] = <<>>
=============================================================================
