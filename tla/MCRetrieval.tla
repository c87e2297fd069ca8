----------------------------- MODULE MCRetrieval -----------------------------
(* The instance of Retrieval for TLC: one search while the index changes, two *)
(* searches that meet at the observers and at the reranker, and preparations  *)
(* of a collection without a search.                                          *)
EXTENDS Retrieval

MCSchema == [g \in Generations |-> IF g = 1 THEN {"old", "both"} ELSE {"both"}]

MCChunks == [d \in Docs |-> IF d = 1 THEN 2 ELSE 1]

Request(kind, topK, of, fields, rerank) ==
  [kind |-> kind, topK |-> topK, docs |-> of, fields |-> fields, rerank |-> rerank,
   allowed |-> TRUE]

MCRequests ==
  {Request("plain", 1, {}, {"both"}, FALSE),
   Request("filtered", 1, {}, {"old"}, FALSE),
   Request("documents", 2, {2}, {}, FALSE),
   Request("rerank", 2, {}, {}, TRUE),
   [Request("forbidden", 1, {}, {}, FALSE) EXCEPT !.allowed = FALSE]}

Plan(searches, kinds) ==
  [searches |-> searches, requests |-> kinds, live |-> {1}, ready |-> TRUE,
   foreign |-> FALSE, preparers |-> {}, changes |-> 0, faults |-> 0, cancel |-> FALSE,
   removal |-> FALSE, switches |-> {}]

One == {CHOOSE s \in Searches : TRUE}

MCPlans ==
  \* one search and several changes of the index
  {[Plan(One, {"plain", "documents"}) EXCEPT !.changes = 4],
   [Plan(One, {"rerank", "filtered"}) EXCEPT !.changes = 3],
  \* one search and failures
   [Plan(One, {"plain", "documents", "rerank", "forbidden"})
      EXCEPT !.changes = 1, !.faults = 1, !.cancel = TRUE, !.switches = Switches],
  \* two searches, room for one report and one permit
   [Plan(Searches, {"rerank"}) EXCEPT !.faults = 2],
   [Plan(Searches, {"rerank"}) EXCEPT !.faults = 1, !.cancel = TRUE],
  \* preparations of a collection
   [Plan({}, {}) EXCEPT !.ready = FALSE, !.preparers = Preparers, !.faults = 2],
   [Plan({}, {}) EXCEPT !.ready = FALSE, !.preparers = Preparers, !.changes = 1,
                        !.removal = TRUE],
   [Plan({}, {}) EXCEPT !.ready = FALSE, !.preparers = Preparers, !.foreign = TRUE,
                        !.changes = 1, !.removal = TRUE, !.faults = 1]}
=============================================================================
