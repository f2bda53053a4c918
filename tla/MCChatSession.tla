--------------------------- MODULE MCChatSession ----------------------------
(* Small instances of ChatSession: ids are interchangeable.                *)
EXTENDS ChatSession, TLC

Symmetric == Permutations(Runs) \cup Permutations(Items)
=============================================================================
