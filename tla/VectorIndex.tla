----------------------------- MODULE VectorIndex -----------------------------
(***************************************************************************)
(* The collections of one knowledge base in Qdrant and what                *)
(* AsyncQdrantCollectionClient (indexing/qdrant.py) does to them: the      *)
(* preparation of a generation's collection, which several requests may    *)
(* run at once, its removal, and the writing and checking of points.       *)
(*                                                                         *)
(* Every call to the server is a step.  Its answer may be lost, before or  *)
(* after the server did what it was asked: QdrantTransientError.  A        *)
(* collection that is missing where it should be, or that is not what this *)
(* service would have made, is a QdrantConfigurationError.                 *)
(***************************************************************************)
EXTENDS Naturals, Sequences, FiniteSets, FiniteSetsExt

CONSTANTS
  Generations,  \* 1..n, in the order of their creation
  Indexes,      \* payload indexes of a collection, in the order of their paths
  Preparers,    \* requests that create a generation's collection
  Docs,         \* documents of the knowledge base, one version each
  Chunks,       \* Chunks[d]: how many chunks the manifest of d lists
  MaxFaults     \* bound on lost answers and failures

ASSUME VectorIndexAssumption ==
  /\ Generations \subseteq Nat /\ {1, 2} \subseteq Generations /\ Indexes \subseteq Nat
  /\ Chunks \in [Docs -> Nat \ {0}] /\ MaxFaults \in Nat
  /\ IsFiniteSet(Generations) /\ IsFiniteSet(Docs)

VARIABLES
  collections,  \* collections[g]: the collection named after generation g
  prepare,      \* prepare[c]: the preparation that request c runs
  removal,      \* a delete_collection under way
  writer,       \* an ingestion or a rebuild writing the points of a document
  faults        \* how many calls have failed

indexVars == <<collections, prepare, removal, writer, faults>>

\* The point ids are derived from version, chunk index and chunk hash; the
\* generation stands for the vector, embedded with that generation's snapshot.
PointsOf(g, d) == {<<g, d, k>> : k \in 1..Chunks[d]}
Points == UNION {PointsOf(g, d) : g \in Generations, d \in Docs}

\* kind: "managed" with the metadata and vector configuration that the service
\* gives it, "foreign" with any other.
NoCollection == [kind |-> "absent", indexes |-> {}, points |-> {}]
NewCollection == [NoCollection EXCEPT !.kind = "managed"]

Collection == [kind : {"absent", "foreign", "managed"}, indexes : SUBSET Indexes,
               points : SUBSET Points]

Calls == {"exists", "create", "describe", "readIndexes", "createIndex", "confirm",
          "verify", "count"}
Outcomes == {"ready", "notEmpty", "mismatch", "unavailable"}

\* _managed_info answers, and describe_collection finds the right vectors.
Managed(g) == collections[g].kind = "managed"
Specified(g) == Managed(g) /\ collections[g].indexes = Indexes

-----------------------------------------------------------------------------
(* ensure_collection, ensure_payload_indexes, verify_collection and          *)
(* count_points, in the order in which create_generation calls them          *)

Preparing(c, pc) == prepare[c].pc = pc

To(c, pc) == prepare' = [prepare EXCEPT ![c].pc = pc]

\* The collection stays as it is.
Look(c, pc) == To(c, pc) /\ UNCHANGED <<collections, removal, writer, faults>>

\* Also a retry of a request whose last attempt found Qdrant unavailable.
Prepare(c, g) ==
  /\ prepare[c].pc \in {"idle", "unavailable"}
  /\ prepare' = [prepare EXCEPT ![c] = [pc |-> "exists", gen |-> g, missing |-> {}]]
  /\ UNCHANGED <<collections, removal, writer, faults>>

CollectionExists(c) ==
  /\ Preparing(c, "exists")
  /\ Look(c, IF collections[prepare[c].gen].kind = "absent" THEN "create" ELSE "describe")

\* Mutant of CreateCollection: an answer of 409 is an error like any other.
CreateConflicts(c) ==
  LET g == prepare[c].gen IN
  /\ Preparing(c, "create")
  /\ IF collections[g].kind = "absent"
     THEN /\ collections' = [collections EXCEPT ![g] = NewCollection]
          /\ To(c, "describe")
     ELSE To(c, "mismatch") /\ UNCHANGED collections
  /\ UNCHANGED <<removal, writer, faults>>

\* A collection that another request created in the meantime: 409, and the
\* description decides.
CreateCollection(c) ==
  LET g == prepare[c].gen IN
  /\ Preparing(c, "create")
  /\ IF collections[g].kind = "absent"
     THEN collections' = [collections EXCEPT ![g] = NewCollection]
     ELSE UNCHANGED collections
  /\ To(c, "describe")
  /\ UNCHANGED <<removal, writer, faults>>

DescribeVectors(c) ==
  /\ Preparing(c, "describe")
  /\ Look(c, IF Managed(prepare[c].gen) THEN "readIndexes" ELSE "mismatch")

\* Indexes that are missing are created, one after the other.
ReadIndexes(c) ==
  LET g == prepare[c].gen IN
  /\ Preparing(c, "readIndexes")
  /\ prepare' = [prepare EXCEPT
       ![c].pc = IF Managed(g) THEN "createIndex" ELSE "mismatch",
       ![c].missing = Indexes \ collections[g].indexes]
  /\ UNCHANGED <<collections, removal, writer, faults>>

WithIndex(g, i) ==
  IF collections[g].kind = "absent" THEN collections
  ELSE [collections EXCEPT ![g].indexes = @ \cup {i}]

CreateIndex(c) ==
  LET g == prepare[c].gen
      i == Min(prepare[c].missing)
  IN /\ Preparing(c, "createIndex") /\ prepare[c].missing # {}
     /\ collections' = WithIndex(g, i)
     /\ prepare' = [prepare EXCEPT
          ![c].pc = IF collections[g].kind = "absent" THEN "mismatch"
                    ELSE IF prepare[c].missing = {i} THEN "confirm" ELSE "createIndex",
          ![c].missing = @ \ {i}]
     /\ UNCHANGED <<removal, writer, faults>>

NothingMissing(c) ==
  /\ Preparing(c, "createIndex") /\ prepare[c].missing = {}
  /\ Look(c, "confirm")

ConfirmIndexes(c) ==
  /\ Preparing(c, "confirm")
  /\ Look(c, IF Specified(prepare[c].gen) THEN "verify" ELSE "mismatch")

VerifyCollection(c) ==
  /\ Preparing(c, "verify")
  /\ Look(c, IF Specified(prepare[c].gen) THEN "count" ELSE "mismatch")

CountPoints(c) ==
  LET g == prepare[c].gen IN
  /\ Preparing(c, "count")
  /\ Look(c, IF ~Managed(g) THEN "mismatch"
             ELSE IF collections[g].points = {} THEN "ready" ELSE "notEmpty")

\* What the server may have done although its answer was lost.
Applied(c) ==
  LET g == prepare[c].gen
  IN IF Preparing(c, "create") /\ collections[g].kind = "absent"
     THEN {collections, [collections EXCEPT ![g] = NewCollection]}
     ELSE IF Preparing(c, "createIndex") /\ prepare[c].missing # {}
     THEN {collections, WithIndex(g, Min(prepare[c].missing))}
     ELSE {collections}

CallLost(c) ==
  /\ prepare[c].pc \in Calls /\ faults < MaxFaults
  /\ collections' \in Applied(c)
  /\ To(c, "unavailable")
  /\ faults' = faults + 1
  /\ UNCHANGED <<removal, writer>>

PrepareStep(c) ==
  \/ CollectionExists(c) \/ CreateCollection(c) \/ DescribeVectors(c)
  \/ ReadIndexes(c) \/ CreateIndex(c) \/ NothingMissing(c) \/ ConfirmIndexes(c)
  \/ VerifyCollection(c) \/ CountPoints(c) \/ CallLost(c)

-----------------------------------------------------------------------------
(* delete_collection *)

NoRemoval == [pc |-> "idle", gen |-> 0]

StartRemoval(g) ==
  /\ removal.pc = "idle"
  /\ removal' = [pc |-> "info", gen |-> g]
  /\ UNCHANGED <<collections, prepare, writer, faults>>

\* Missing is as good as deleted, and what is not managed is left alone.
RemovalInfo ==
  /\ removal.pc = "info"
  /\ removal' = IF Managed(removal.gen) THEN [removal EXCEPT !.pc = "delete"]
                ELSE NoRemoval
  /\ UNCHANGED <<collections, prepare, writer, faults>>

RemoveCollection ==
  /\ removal.pc = "delete"
  /\ collections' = [collections EXCEPT ![removal.gen] = NoCollection]
  /\ removal' = NoRemoval
  /\ UNCHANGED <<prepare, writer, faults>>

-----------------------------------------------------------------------------
(* upsert_points, count_version_points and retrieve_version_points, as the   *)
(* indexing and validating stages of an ingestion call them                  *)

NoWriter == [pc |-> "idle", gen |-> 0, doc |-> 0, next |-> 0]

StartWriting(g, d) ==
  /\ writer.pc = "idle"
  /\ writer' = [pc |-> "info", gen |-> g, doc |-> d, next |-> 1]
  /\ UNCHANGED <<collections, prepare, removal, faults>>

WriterTo(pc) == writer' = [writer EXCEPT !.pc = pc]

UpsertInfo ==
  /\ writer.pc = "info"
  /\ WriterTo(IF Managed(writer.gen) THEN "upsert" ELSE "failed")
  /\ UNCHANGED <<collections, prepare, removal, faults>>

WithPoint ==
  IF collections[writer.gen].kind = "absent" THEN collections
  ELSE [collections EXCEPT ![writer.gen].points =
          @ \cup {<<writer.gen, writer.doc, writer.next>>}]

UpsertPoints ==
  /\ writer.pc = "upsert"
  /\ collections' = WithPoint
  /\ writer' = IF collections[writer.gen].kind = "absent" THEN [writer EXCEPT !.pc = "failed"]
               ELSE IF writer.next = Chunks[writer.doc] THEN [writer EXCEPT !.pc = "countVersion"]
               ELSE [writer EXCEPT !.pc = "info", !.next = @ + 1]
  /\ UNCHANGED <<prepare, removal, faults>>

\* The batch is sent again.
UpsertLost ==
  /\ writer.pc = "upsert" /\ faults < MaxFaults
  /\ collections' \in {collections, WithPoint}
  /\ WriterTo("info")
  /\ faults' = faults + 1
  /\ UNCHANGED <<prepare, removal>>

VersionPoints == collections[writer.gen].points \cap PointsOf(writer.gen, writer.doc)

CountVersionPoints ==
  /\ writer.pc = "countVersion"
  /\ WriterTo(IF Managed(writer.gen) /\ Cardinality(VersionPoints) = Chunks[writer.doc]
              THEN "retrieve" ELSE "failed")
  /\ UNCHANGED <<collections, prepare, removal, faults>>

RetrieveVersionPoints ==
  /\ writer.pc = "retrieve"
  /\ WriterTo(IF Managed(writer.gen) /\ VersionPoints = PointsOf(writer.gen, writer.doc)
              THEN "commit" ELSE "failed")
  /\ UNCHANGED <<collections, prepare, removal, faults>>

WriterStep ==
  UpsertInfo \/ UpsertPoints \/ UpsertLost \/ CountVersionPoints \/ RetrieveVersionPoints

=============================================================================
