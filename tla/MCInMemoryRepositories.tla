----------------------- MODULE MCInMemoryRepositories -----------------------
(***************************************************************************)
(* A small instance of InMemoryRepositories for TLC.                       *)
(***************************************************************************)
EXTENDS InMemoryRepositories

CONSTANTS e1, e2, t1, t2, i1, i2, c1, c2
=============================================================================
