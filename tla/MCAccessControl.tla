---------------------------- MODULE MCAccessControl ----------------------------
EXTENDS AccessControl, TLC

\* Two knowledge bases, a credential and a configuration exist at first.
MCExisting ==
  1 :> "knowledge_base" @@ 2 :> "knowledge_base" @@ 3 :> "credential" @@ 4 :> "config"

RequestSymmetry == Permutations(Requests)
================================================================================
