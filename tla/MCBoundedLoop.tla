--------------------------- MODULE MCBoundedLoop ---------------------------
(***************************************************************************)
(* A small instance of BoundedLoop: two verifiers and a contract of every  *)
(* kind.                                                                   *)
(***************************************************************************)
EXTENDS BoundedLoop

CONSTANTS k1, k2, m1, v1, v2

TwoVerifiers == <<v1, v2>>
Asks(checks, manual, kinds, high, iterations, noProgress) ==
    [checks |-> checks, manual |-> manual, kinds |-> kinds, high |-> high,
     stop |-> [iterations |-> iterations, noProgress |-> noProgress, failed |-> 1]]
Reviewed == Asks(<<>>, {}, {}, FALSE, 3, 2)
Checked == Asks(<<k2>>, {}, {}, FALSE, 2, 1)
Contracts == {Reviewed, Checked, Asks(<<k1, k2>>, {}, {}, FALSE, 2, 1),
              Asks(<<>>, {}, {"note"}, FALSE, 2, 2), Asks(<<>>, {m1}, {}, FALSE, 2, 1),
              Asks(<<k1>>, {}, {}, TRUE, 2, 1)}
OneArtifact == {k2}
EditsOf(c) == IF c \in {Reviewed, Checked} THEN 2 ELSE 1
DecisionsOf(c) == IF c.high THEN 2 ELSE 1
=============================================================================
