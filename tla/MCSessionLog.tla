---------------------------- MODULE MCSessionLog ----------------------------
(* Small instance of SessionLog: ids are interchangeable.                  *)
EXTENDS SessionLog

Symmetric == Permutations(Runs) \cup Permutations(Items)
=============================================================================
