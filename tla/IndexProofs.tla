----------------------------- MODULE IndexProofs -----------------------------
(***************************************************************************)
(* Proofs about the index: searches with the collections they read, and    *)
(* the generations.  The two components share no variable; each part uses  *)
(* the definitions of its own.  The first part holds for every finite set  *)
(* of searches, whatever they ask for, every finite index and schema and   *)
(* every plan of changes and failures; the second for every set of keys,   *)
(* concurrent requests and reconcilers and every number of interruptions.  *)
(***************************************************************************)
EXTENDS GenerationLifecycle, Retrieval, FiniteSetTheorems, WellFoundedInduction, TLAPS

-----------------------------------------------------------------------------
(* The collections of the index.                                           *)

Preparation == [pc : Calls \cup Outcomes \cup {"idle"}, gen : Generations,
                missing : SUBSET Indexes]

WriterRec == [pc : {"idle", "info", "upsert", "countVersion", "retrieve", "commit", "failed"},
              gen : Generations \cup {0}, doc : Docs \cup {0}, next : Nat]

\* The types of what Qdrant's client works on.
IndexTypes ==
  /\ collections \in [Generations -> Collection]
  /\ prepare \in [Preparers -> Preparation]
  /\ removal \in [pc : {"idle", "info", "delete"}, gen : Generations \cup {0}]
  /\ removal.pc # "idle" => removal.gen \in Generations
  /\ writer \in WriterRec
  /\ writer.pc # "idle" =>
       writer.gen \in Generations /\ writer.doc \in Docs /\ writer.next \in 1 .. Chunks[writer.doc]

\* A collection holds points of its own generation only.
PointsFit == \A g \in Generations : \A p \in collections[g].points : p[1] = g

Kind(g) == collections[g].kind

\* Nothing takes a collection away from those who prepare it.
Undisturbed == ~plan.foreign /\ ~plan.removal /\ kb = "active"

Described == {"describe", "readIndexes", "createIndex", "confirm", "verify", "count"}

\* A request creates indexes of what the service made.  Where nobody interferes,
\* the collection under preparation is there, and has the indexes that its
\* request does not miss.
PreparationFits(p) ==
  /\ p.pc = "createIndex" => Kind(p.gen) # "foreign"
  /\ Undisturbed =>
       /\ p.pc # "mismatch"
       /\ p.pc \in Described => Managed(p.gen)
       /\ p.pc = "createIndex" => Indexes \ p.missing \subseteq collections[p.gen].indexes
       /\ p.pc \in {"confirm", "verify"} => Specified(p.gen)

\* What is not the service's is neither deleted nor written to.
ForeignSafe ==
  /\ removal.pc = "delete" => Kind(removal.gen) # "foreign"
  /\ writer.pc = "upsert" => Kind(writer.gen) # "foreign"

\* Nobody interferes where the plan has no other service and no removal.
Alone == Undisturbed => removal.pc = "idle" /\ \A g \in Generations : Kind(g) # "foreign"

MetadataTypes ==
  /\ kb \in {"active", "deleting", "gone"} /\ activeGen \in Generations
  /\ docs \in [Docs -> {"processing", "active", "failed"}]
  /\ states \in [Generations -> SUBSET Docs] /\ config \subseteq Switches
  /\ plan \in Plans

IndexInv ==
  /\ IndexTypes /\ PointsFit /\ ForeignSafe /\ Alone
  /\ \A c \in Preparers : PreparationFits(prepare[c])

\* A step leaves alone what is not the service's.
ForeignKept ==
  \A g \in Generations :
    /\ Kind(g) = "foreign" => collections'[g] = collections[g]
    /\ Kind(g) # "foreign" => collections'[g].kind # "foreign"

\* A step takes no collection and no index away.
ManagedKept ==
  \A g \in Generations : Managed(g) =>
    Managed(g)' /\ collections[g].indexes \subseteq collections'[g].indexes

\* The points, one by one.
LEMMA PointIs ==
  ASSUME NEW g \in Generations, NEW d \in Docs, NEW k \in 1 .. Chunks[d]
  PROVE  <<g, d, k>> \in Points /\ <<g, d, k>> \in PointsOf(g, d)
<1>1. <<g, d, k>> \in PointsOf(g, d)
  BY DEF PointsOf
<1> QED
  BY <1>1 DEF Points

LEMMA PointParts ==
  ASSUME NEW p \in Points
  PROVE  p[1] \in Generations /\ DocOf(p) \in Docs
<1>1. PICK g \in Generations, d \in Docs : p \in PointsOf(g, d)
  BY DEF Points
<1> QED
  BY <1>1 DEF PointsOf, DocOf

LEMMA LeastIndex ==
  ASSUME NEW S \in SUBSET Nat, S # {}
  PROVE  Min(S) \in S
<1>1. PICK x \in S : \A y \in S : ~(<<y, x>> \in OpToRel(<, Nat))
  BY NatLessThanWellFounded, WFMin
<1>2. \A y \in S : ~(y < x)
  BY <1>1, Zenon DEF OpToRel
<1>3. \E z \in S : \A y \in S : z <= y
  BY <1>2
<1> QED
  BY <1>3 DEF Min

-----------------------------------------------------------------------------
(* What the calls do to a collection.                                      *)

Kept == collections' \in [Generations -> Collection] /\ PointsFit' /\ ForeignKept

LEMMA NothingChanges ==
  ASSUME IndexTypes, PointsFit, UNCHANGED collections
  PROVE  Kept /\ ManagedKept
BY DEF Kept, IndexTypes, PointsFit, ForeignKept, ManagedKept, Kind, Managed

LEMMA CreateOK ==
  ASSUME IndexTypes, PointsFit, NEW g \in Generations, Kind(g) = "absent",
         collections' = [collections EXCEPT ![g] = NewCollection]
  PROVE  Kept /\ ManagedKept /\ Managed(g)'
<1>1. /\ NewCollection \in Collection /\ NewCollection.kind = "managed"
      /\ NewCollection.points = {}
  BY DEF NewCollection, NoCollection, Collection
<1>2. /\ collections'[g] = NewCollection
      /\ \A h \in Generations \ {g} : collections'[h] = collections[h]
  BY DEF IndexTypes
<1> QED
  BY <1>1, <1>2 DEF Kept, IndexTypes, PointsFit, ForeignKept, ManagedKept, Kind, Managed

LEMMA WithIndexOK ==
  ASSUME IndexTypes, PointsFit, NEW g \in Generations, NEW i \in Indexes, Kind(g) # "foreign",
         collections' = WithIndex(g, i)
  PROVE  /\ Kept /\ ManagedKept
         /\ Kind(g) # "absent" =>
              Managed(g)' /\ collections'[g].indexes = collections[g].indexes \cup {i}
<1>1. CASE Kind(g) = "absent"
  BY <1>1, NothingChanges DEF WithIndex, Kind
<1>2. CASE Kind(g) # "absent"
  <2>1. collections' = [collections EXCEPT ![g].indexes = @ \cup {i}]
    BY <1>2 DEF WithIndex, Kind
  <2>2. collections[g] \in Collection /\ collections[g].kind = "managed"
    BY <1>2 DEF IndexTypes, Collection, Kind
  <2>3. /\ collections'[g] \in Collection /\ collections'[g].kind = "managed"
        /\ collections'[g].points = collections[g].points
        /\ collections'[g].indexes = collections[g].indexes \cup {i}
    BY <2>1, <2>2 DEF IndexTypes, Collection
  <2>4. \A h \in Generations \ {g} : collections'[h] = collections[h]
    BY <2>1 DEF IndexTypes
  <2>5. collections' \in [Generations -> Collection]
    BY <2>1, <2>3, <2>4 DEF IndexTypes
  <2> QED
    BY <2>2, <2>3, <2>4, <2>5
       DEF Kept, IndexTypes, PointsFit, ForeignKept, ManagedKept, Kind, Managed
<1> QED
  BY <1>1, <1>2

LEMMA WithPointOK ==
  ASSUME IndexTypes, PointsFit, writer.pc = "upsert", Kind(writer.gen) # "foreign",
         collections' = WithPoint
  PROVE  Kept /\ ManagedKept
<1> DEFINE g == writer.gen
           p == <<writer.gen, writer.doc, writer.next>>
<1>0. g \in Generations /\ p \in Points /\ p[1] = g
  BY PointIs DEF IndexTypes
<1>1. CASE Kind(g) = "absent"
  BY <1>1, NothingChanges DEF WithPoint, Kind
<1>2. CASE Kind(g) # "absent"
  <2>1. collections' = [collections EXCEPT ![g].points = @ \cup {p}]
    BY <1>2 DEF WithPoint, Kind
  <2>2. collections[g] \in Collection /\ collections[g].kind = "managed"
    BY <1>0, <1>2 DEF IndexTypes, Collection, Kind
  <2> HIDE DEF g, p
  <2>3. /\ collections'[g] \in Collection /\ collections'[g].kind = "managed"
        /\ collections'[g].points = collections[g].points \cup {p}
        /\ collections'[g].indexes = collections[g].indexes
    BY <1>0, <2>1, <2>2 DEF IndexTypes, Collection
  <2>4. \A h \in Generations \ {g} : collections'[h] = collections[h]
    BY <2>1 DEF IndexTypes
  <2>5. collections' \in [Generations -> Collection]
    BY <2>1, <2>3, <2>4 DEF IndexTypes
  <2> QED
    BY <1>0, <2>2, <2>3, <2>4, <2>5
       DEF Kept, IndexTypes, PointsFit, ForeignKept, ManagedKept, Kind, Managed
<1> QED
  BY <1>1, <1>2

LEMMA RemoveOK ==
  ASSUME IndexTypes, PointsFit, ForeignSafe, RemoveCollection
  PROVE  Kept
<1> DEFINE g == removal.gen
<1>1. g \in Generations /\ Kind(g) # "foreign"
  BY DEF IndexTypes, ForeignSafe, RemoveCollection
<1>2. NoCollection \in Collection /\ NoCollection.kind = "absent" /\ NoCollection.points = {}
  BY DEF NoCollection, Collection
<1>3. collections' = [collections EXCEPT ![g] = NoCollection]
  BY DEF RemoveCollection
<1> HIDE DEF g
<1>4. /\ collections'[g] = NoCollection
      /\ \A h \in Generations \ {g} : collections'[h] = collections[h]
  BY <1>1, <1>3 DEF IndexTypes
<1> QED
  BY <1>1, <1>2, <1>3, <1>4 DEF Kept, IndexTypes, PointsFit, ForeignKept, Kind

-----------------------------------------------------------------------------
(* The steps of the client.                                                *)

\* The preparation of a request that takes no step.
LEMMA PreparationKept ==
  ASSUME IndexTypes, NEW p \in Preparation, PreparationFits(p), Kept,
         Undisturbed' => Undisturbed /\ ManagedKept
  PROVE  PreparationFits(p)'
<1>0. p.gen \in Generations
  BY DEF Preparation
<1>1. p.pc = "createIndex" => Kind(p.gen)' # "foreign"
  BY <1>0 DEF PreparationFits, Kept, ForeignKept, Kind
<1>2. ASSUME Undisturbed'
      PROVE  /\ p.pc # "mismatch"
             /\ p.pc \in Described => Managed(p.gen)'
             /\ p.pc = "createIndex" => Indexes \ p.missing \subseteq collections'[p.gen].indexes
             /\ p.pc \in {"confirm", "verify"} => Specified(p.gen)'
  <2>1. Undisturbed /\ ManagedKept
    BY <1>2
  <2>2. collections'[p.gen] \in Collection
    BY <1>0 DEF Kept
  <2>3. /\ p.pc # "mismatch"
        /\ p.pc \in Described => Managed(p.gen)
        /\ p.pc = "createIndex" => Indexes \ p.missing \subseteq collections[p.gen].indexes
        /\ p.pc \in {"confirm", "verify"} => Specified(p.gen)
    BY <2>1 DEF PreparationFits
  <2>4. Managed(p.gen) =>
          Managed(p.gen)' /\ collections[p.gen].indexes \subseteq collections'[p.gen].indexes
    BY <1>0, <2>1 DEF ManagedKept
  <2>5. collections'[p.gen].indexes \subseteq Indexes
    BY <2>2 DEF Collection
  <2> QED
    BY <2>3, <2>4, <2>5 DEF Specified, Described
<1> QED
  BY <1>1, <1>2 DEF PreparationFits

\* Who removes or writes, and that nobody interferes, as far as the collections go.
LEMMA OthersKept ==
  ASSUME IndexInv, Kept
  PROVE  /\ removal.pc = "delete" => collections'[removal.gen].kind # "foreign"
         /\ writer.pc = "upsert" => collections'[writer.gen].kind # "foreign"
         /\ Undisturbed => \A g \in Generations : Kind(g)' # "foreign"
BY DEF IndexInv, IndexTypes, ForeignSafe, Alone, Kept, ForeignKept, Kind

\* A request takes a step on its preparation.
LEMMA PrepareKeeps ==
  ASSUME IndexInv, NEW c \in Preparers, NEW p \in Preparation,
         prepare' = [prepare EXCEPT ![c] = p], Kept, ManagedKept, PreparationFits(p)',
         UNCHANGED <<removal, writer, kb, plan>>
  PROVE  IndexInv'
<1>1. IndexTypes' /\ PointsFit'
  BY DEF IndexInv, IndexTypes, Kept
<1>2. Undisturbed' <=> Undisturbed
  BY DEF Undisturbed
<1>3. ForeignSafe' /\ Alone'
  BY <1>2, OthersKept DEF IndexInv, ForeignSafe, Alone, Kind
<1>4. ASSUME NEW x \in Preparers
      PROVE  PreparationFits(prepare[x])'
  <2>1. CASE x = c
    <3>1. prepare'[x] = p
      BY <2>1 DEF IndexInv, IndexTypes
    <3> QED
      BY <3>1 DEF PreparationFits, Kind, Managed, Specified
  <2>2. CASE x # c
    <3>1. PICK y : y = prepare[x]
      OBVIOUS
    <3>2. prepare'[x] = y /\ y \in Preparation /\ PreparationFits(y)
      BY <2>2, <3>1 DEF IndexInv, IndexTypes
    <3>3. PreparationFits(y)'
      BY <1>2, <3>2, PreparationKept DEF IndexInv
    <3> QED
      BY <3>2, <3>3 DEF PreparationFits, Kind, Managed, Specified
  <2> QED BY <2>1, <2>2
<1> QED
  BY <1>1, <1>3, <1>4 DEF IndexInv

Places == Calls \cup Outcomes \cup {"idle"}

\* Where a preparation may stand, given its collection and what it misses.
MayBe(x, g, missing) ==
  /\ x = "createIndex" => Kind(g) # "foreign"
  /\ Undisturbed =>
       /\ x # "mismatch"
       /\ x \in Described => Managed(g)
       /\ x = "createIndex" => Indexes \ missing \subseteq collections[g].indexes
       /\ x \in {"confirm", "verify"} => Specified(g)

\* What a request that is preparing knows.
LEMMA PreparationOf ==
  ASSUME IndexInv, NEW c \in Preparers
  PROVE  /\ prepare[c] \in Preparation /\ prepare[c].gen \in Generations
         /\ prepare[c].missing \in SUBSET Indexes
         /\ MayBe(prepare[c].pc, prepare[c].gen, prepare[c].missing)
         /\ collections[prepare[c].gen] \in Collection
<1>1. prepare[c] \in Preparation /\ PreparationFits(prepare[c])
  BY DEF IndexInv, IndexTypes
<1>2. prepare[c].gen \in Generations /\ prepare[c].missing \in SUBSET Indexes
  BY <1>1 DEF Preparation
<1>3. MayBe(prepare[c].pc, prepare[c].gen, prepare[c].missing)
  BY <1>1 DEF PreparationFits, MayBe
<1> QED
  BY <1>1, <1>2, <1>3 DEF IndexInv, IndexTypes

\* The collection stays as it is.
LEMMA LookKeeps ==
  ASSUME IndexInv, NEW c \in Preparers, NEW x \in Places, Look(c, x),
         MayBe(x, prepare[c].gen, prepare[c].missing), UNCHANGED <<kb, plan>>
  PROVE  IndexInv' /\ ForeignKept
<1>1. PICK p : p = [prepare[c] EXCEPT !.pc = x]
  OBVIOUS
<1>2. prepare[c] \in Preparation
  BY PreparationOf
<1>3. /\ p \in Preparation /\ p.pc = x /\ p.gen = prepare[c].gen
      /\ p.missing = prepare[c].missing
  BY <1>1, <1>2 DEF Preparation, Places
<1>4. prepare' = [prepare EXCEPT ![c] = p]
  BY <1>1 DEF Look, To
<1>5. Kept /\ ManagedKept
  BY NothingChanges DEF IndexInv, Look
<1>6. PreparationFits(p)'
  <2>1. MayBe(x, p.gen, p.missing)'
    BY <1>3 DEF MayBe, Kind, Managed, Specified, Undisturbed, Look
  <2> QED
    BY <1>3, <2>1 DEF PreparationFits, MayBe
<1> QED
  BY <1>3, <1>4, <1>5, <1>6, PrepareKeeps DEF Look, Kept

LEMMA PrepareStarts ==
  ASSUME IndexInv, NEW c \in Preparers, Prepare(c, 2), UNCHANGED <<kb, plan>>
  PROVE  IndexInv' /\ ForeignKept
<1>1. PICK p : p = [pc |-> "exists", gen |-> 2, missing |-> {}]
  OBVIOUS
<1>2. p \in Preparation /\ p.pc = "exists"
  BY <1>1, VectorIndexAssumption DEF Preparation, Calls
<1>3. Kept /\ ManagedKept
  BY NothingChanges DEF IndexInv, Prepare
<1>4. PreparationFits(p)'
  BY <1>2 DEF PreparationFits, Described
<1> QED
  BY <1>1, <1>2, <1>3, <1>4, PrepareKeeps DEF Prepare, Kept

\* A request that creates the collection, or finds it created.
LEMMA CreateKeeps ==
  ASSUME IndexInv, NEW c \in Preparers, Preparing(c, "create"),
         \/ /\ collections[prepare[c].gen].kind = "absent"
            /\ collections' = [collections EXCEPT ![prepare[c].gen] = NewCollection]
         \/ collections[prepare[c].gen].kind # "absent" /\ UNCHANGED collections,
         To(c, "describe"), UNCHANGED <<removal, writer, kb, plan>>
  PROVE  IndexInv' /\ ForeignKept
<1>1. PICK p : p = [prepare[c] EXCEPT !.pc = "describe"]
  OBVIOUS
<1>2. prepare[c] \in Preparation /\ prepare[c].gen \in Generations
  BY PreparationOf
<1>3. /\ p \in Preparation /\ p.pc = "describe" /\ p.gen = prepare[c].gen
      /\ p.missing = prepare[c].missing
  BY <1>1, <1>2 DEF Preparation, Calls, Outcomes
<1>4. prepare' = [prepare EXCEPT ![c] = p]
  BY <1>1 DEF To
<1>5. Kept /\ ManagedKept /\ (Undisturbed => Managed(p.gen)')
  <2>1. CASE /\ collections[prepare[c].gen].kind = "absent"
             /\ collections' = [collections EXCEPT ![prepare[c].gen] = NewCollection]
    BY <1>2, <1>3, <2>1, CreateOK DEF IndexInv, Kind
  <2>2. CASE collections[prepare[c].gen].kind # "absent" /\ UNCHANGED collections
    BY <1>2, <1>3, <2>2, NothingChanges
       DEF IndexInv, IndexTypes, Alone, Collection, Kind, Managed
  <2> QED
    BY <2>1, <2>2
<1>6. PreparationFits(p)'
  BY <1>3, <1>5 DEF PreparationFits, Undisturbed, Described
<1> QED
  BY <1>3, <1>4, <1>5, <1>6, PrepareKeeps DEF Kept

\* A request that creates an index.
LEMMA IndexKeeps ==
  ASSUME IndexInv, NEW c \in Preparers, NEW x \in {"createIndex", "confirm", "mismatch"},
         Preparing(c, "createIndex"), prepare[c].missing # {},
         x = IF collections[prepare[c].gen].kind = "absent" THEN "mismatch"
             ELSE IF prepare[c].missing = {Min(prepare[c].missing)} THEN "confirm"
             ELSE "createIndex",
         collections' = WithIndex(prepare[c].gen, Min(prepare[c].missing)),
         prepare' = [prepare EXCEPT ![c].pc = x, ![c].missing = @ \ {Min(prepare[c].missing)}],
         UNCHANGED <<removal, writer, kb, plan>>
  PROVE  IndexInv' /\ ForeignKept
<1>1. PICK g, missing, i : g = prepare[c].gen /\ missing = prepare[c].missing /\ i = Min(missing)
  OBVIOUS
<1>2. /\ prepare[c] \in Preparation /\ g \in Generations /\ missing \in SUBSET Indexes
      /\ MayBe("createIndex", g, missing) /\ collections[g] \in Collection
  BY <1>1, PreparationOf DEF Preparing
<1>3. i \in missing /\ i \in Indexes
  BY <1>1, <1>2, LeastIndex, VectorIndexAssumption
<1>4. PICK p : p = [prepare[c] EXCEPT !.pc = x, !.missing = missing \ {i}]
  OBVIOUS
<1>5. p \in Preparation /\ p.pc = x /\ p.gen = g /\ p.missing = missing \ {i}
  BY <1>1, <1>2, <1>4 DEF Preparation, Calls, Outcomes
<1>6. prepare' = [prepare EXCEPT ![c] = p]
  BY <1>1, <1>4 DEF IndexInv, IndexTypes, Preparation
<1>7. /\ Kept /\ ManagedKept
      /\ Kind(g) # "absent" =>
           Managed(g)' /\ collections'[g].indexes = collections[g].indexes \cup {i}
  BY <1>1, <1>2, <1>3, WithIndexOK DEF MayBe, IndexInv
<1>8. PreparationFits(p)'
  <2>1. Undisturbed' <=> Undisturbed
    BY DEF Undisturbed
  <2>2. Undisturbed => Managed(g) /\ Indexes \ missing \subseteq collections[g].indexes
    BY <1>2 DEF MayBe, Described
  <2>3. Kind(g) # "foreign" /\ (Managed(g) => Kind(g) # "absent")
    BY <1>2 DEF MayBe, Kind, Managed
  <2>4. collections[g].indexes \subseteq Indexes
    BY <1>2 DEF Collection
  <2>5. x = "mismatch" <=> Kind(g) = "absent"
    BY <1>1 DEF Kind
  <2>6. x = "confirm" => missing = {i}
    BY <1>1
  <2>7. x = "createIndex" => collections'[g].kind # "foreign"
    BY <1>2, <1>7, <2>3 DEF Kept, ForeignKept
  <2>8. ASSUME Undisturbed
        PROVE  /\ x # "mismatch" /\ Managed(g)'
               /\ Indexes \ (missing \ {i}) \subseteq collections'[g].indexes
               /\ x = "confirm" => collections'[g].indexes = Indexes
    <3>1. /\ Managed(g)' /\ collections'[g].indexes = collections[g].indexes \cup {i}
          /\ x # "mismatch"
      BY <1>7, <2>2, <2>3, <2>5, <2>8
    <3>2. Indexes \ missing \subseteq collections[g].indexes
      BY <2>2, <2>8
    <3> QED
      BY <1>3, <2>4, <2>6, <3>1, <3>2
  <2> QED
    BY <1>5, <2>1, <2>7, <2>8 DEF PreparationFits, Kind, Specified, Described
<1> QED
  BY <1>5, <1>6, <1>7, <1>8, PrepareKeeps DEF Kept

\* A request that loses an answer.
LEMMA LostKeeps ==
  ASSUME IndexInv, NEW c \in Preparers, To(c, "unavailable"), Kept, ManagedKept,
         UNCHANGED <<removal, writer, kb, plan>>
  PROVE  IndexInv' /\ ForeignKept
<1>1. PICK p : p = [prepare[c] EXCEPT !.pc = "unavailable"]
  OBVIOUS
<1>2. prepare[c] \in Preparation
  BY PreparationOf
<1>3. p \in Preparation /\ p.pc = "unavailable"
  BY <1>1, <1>2 DEF Preparation, Outcomes
<1>4. prepare' = [prepare EXCEPT ![c] = p]
  BY <1>1 DEF To
<1>5. PreparationFits(p)'
  BY <1>3 DEF PreparationFits, Described
<1> QED
  BY <1>3, <1>4, <1>5, PrepareKeeps DEF Kept

\* ensure_collection, ensure_payload_indexes, verify_collection, count_points.
LEMMA PrepareStepKeeps ==
  ASSUME IndexInv, NEW c \in Preparers, PrepareStep(c), UNCHANGED <<kb, plan>>
  PROVE  IndexInv' /\ ForeignKept
<1>1. PICK g, missing : g = prepare[c].gen /\ missing = prepare[c].missing
  OBVIOUS
<1>2. /\ g \in Generations /\ missing \in SUBSET Indexes /\ collections[g] \in Collection
      /\ MayBe(prepare[c].pc, g, missing)
      /\ Undisturbed => Kind(g) # "foreign"
  BY <1>1, PreparationOf DEF IndexInv, Alone
<1>3. collections[g].kind \in {"absent", "foreign", "managed"}
  BY <1>2 DEF Collection
<1>4. CASE CollectionExists(c)
  <2>1. CASE Kind(g) = "absent"
    <3>1. MayBe("create", g, missing)
      BY DEF MayBe, Described
    <3> QED
      BY <1>1, <1>4, <2>1, <3>1, LookKeeps DEF CollectionExists, Kind, Places, Calls
  <2>2. CASE Kind(g) # "absent"
    <3>1. MayBe("describe", g, missing)
      BY <1>2, <1>3, <2>2 DEF MayBe, Described, Kind, Managed
    <3> QED
      BY <1>1, <1>4, <2>2, <3>1, LookKeeps DEF CollectionExists, Kind, Places, Calls
  <2> QED
    BY <2>1, <2>2
<1>5. CASE CreateCollection(c)
  BY <1>5, CreateKeeps DEF CreateCollection
<1>6. CASE DescribeVectors(c)
  <2>1. CASE Managed(g)
    <3>1. MayBe("readIndexes", g, missing)
      BY <2>1 DEF MayBe, Described
    <3> QED
      BY <1>1, <1>6, <2>1, <3>1, LookKeeps DEF DescribeVectors, Places, Calls
  <2>2. CASE ~Managed(g)
    <3>1. MayBe("mismatch", g, missing)
      BY <1>2, <1>6, <2>2 DEF MayBe, Described, DescribeVectors, Preparing
    <3> QED
      BY <1>1, <1>6, <2>2, <3>1, LookKeeps DEF DescribeVectors, Places, Outcomes
  <2> QED
    BY <2>1, <2>2
<1>7. CASE ReadIndexes(c)
  <2>1. PICK x : x = IF Managed(g) THEN "createIndex" ELSE "mismatch"
    OBVIOUS
  <2>2. PICK p : p = [prepare[c] EXCEPT !.pc = x, !.missing = Indexes \ collections[g].indexes]
    OBVIOUS
  <2>3. /\ p \in Preparation /\ p.pc = x /\ p.gen = g
        /\ p.missing = Indexes \ collections[g].indexes
    BY <1>1, <2>1, <2>2, PreparationOf DEF Preparation, Calls, Outcomes
  <2>4. prepare' = [prepare EXCEPT ![c] = p]
    BY <1>1, <1>7, <2>1, <2>2 DEF ReadIndexes, IndexInv, IndexTypes, Preparation
  <2>5. Kept /\ ManagedKept
    BY <1>7, NothingChanges DEF ReadIndexes, IndexInv
  <2>6. Undisturbed => Managed(g)
    BY <1>2, <1>7 DEF MayBe, Described, ReadIndexes, Preparing
  <2>7. PreparationFits(p)'
    <3>1. collections' = collections /\ (Undisturbed' <=> Undisturbed)
      BY <1>7 DEF ReadIndexes, Undisturbed
    <3>2. Indexes \ (Indexes \ collections[g].indexes) \subseteq collections[g].indexes
      OBVIOUS
    <3> QED
      BY <2>1, <2>3, <2>6, <3>1, <3>2 DEF PreparationFits, Kind, Managed
  <2> QED
    BY <1>7, <2>3, <2>4, <2>5, <2>7, PrepareKeeps DEF ReadIndexes, Kept
<1>8. CASE CreateIndex(c)
  <2>1. PICK x : x = IF collections[prepare[c].gen].kind = "absent" THEN "mismatch"
             ELSE IF prepare[c].missing = {Min(prepare[c].missing)} THEN "confirm"
             ELSE "createIndex"
    OBVIOUS
  <2>2. x \in {"createIndex", "confirm", "mismatch"}
    BY <2>1
  <2>3. prepare' = [prepare EXCEPT ![c].pc = x, ![c].missing = @ \ {Min(prepare[c].missing)}]
    BY <1>8, <2>1 DEF CreateIndex
  <2> QED
    BY <1>8, <2>1, <2>2, <2>3, IndexKeeps DEF CreateIndex
<1>9. CASE NothingMissing(c)
  <2>1. missing = {} /\ prepare[c].pc = "createIndex"
    BY <1>1, <1>9 DEF NothingMissing, Preparing
  <2>2. MayBe("confirm", g, missing)
    BY <1>2, <2>1 DEF MayBe, Described, Specified, Collection
  <2> QED
    BY <1>1, <1>9, <2>2, LookKeeps DEF NothingMissing, Places, Calls
<1>10. CASE ConfirmIndexes(c)
  <2>1. Undisturbed => Specified(g)
    BY <1>2, <1>10 DEF MayBe, ConfirmIndexes, Preparing
  <2>2. MayBe(IF Specified(g) THEN "verify" ELSE "mismatch", g, missing)
    BY <2>1 DEF MayBe, Specified
  <2> QED
    BY <1>1, <1>10, <2>2, LookKeeps DEF ConfirmIndexes, Places, Calls, Outcomes
<1>11. CASE VerifyCollection(c)
  <2>1. Undisturbed => Specified(g)
    BY <1>2, <1>11 DEF MayBe, VerifyCollection, Preparing
  <2>2. MayBe(IF Specified(g) THEN "count" ELSE "mismatch", g, missing)
    BY <2>1 DEF MayBe, Specified
  <2> QED
    BY <1>1, <1>11, <2>2, LookKeeps DEF VerifyCollection, Places, Calls, Outcomes
<1>12. CASE CountPoints(c)
  <2>1. Undisturbed => Managed(g)
    BY <1>2, <1>12 DEF MayBe, CountPoints, Preparing, Described
  <2>2. PICK x : x = IF ~Managed(g) THEN "mismatch"
                     ELSE IF collections[g].points = {} THEN "ready" ELSE "notEmpty"
    OBVIOUS
  <2>3. MayBe(x, g, missing) /\ x \in Places
    BY <2>1, <2>2 DEF MayBe, Described, Places, Outcomes
  <2> QED
    BY <1>1, <1>12, <2>2, <2>3, LookKeeps DEF CountPoints
<1>13. CASE CallLost(c)
  <2>1. Kept /\ ManagedKept
    <3>1. CASE UNCHANGED collections
      BY <3>1, NothingChanges DEF IndexInv
    <3>2. CASE /\ collections[g].kind = "absent"
               /\ collections' = [collections EXCEPT ![g] = NewCollection]
      BY <1>2, <3>2, CreateOK DEF IndexInv, Kind
    <3>3. CASE /\ prepare[c].pc = "createIndex" /\ missing # {}
               /\ collections' = WithIndex(g, Min(missing))
      <4>1. Min(missing) \in Indexes
        BY <1>2, <3>3, LeastIndex, VectorIndexAssumption
      <4>2. Kind(g) # "foreign"
        BY <1>2, <3>3 DEF MayBe
      <4> QED
        BY <1>2, <3>3, <4>1, <4>2, WithIndexOK DEF IndexInv
    <3> QED
      BY <1>1, <1>13, <3>1, <3>2, <3>3 DEF CallLost, Applied, Preparing
  <2> QED
    BY <1>13, <2>1, LostKeeps DEF CallLost
<1> QED
  BY <1>4, <1>5, <1>6, <1>7, <1>8, <1>9, <1>10, <1>11, <1>12, <1>13 DEF PrepareStep

\* The preparations stay as they are while the rest of the index changes.
LEMMA RestKeeps ==
  ASSUME IndexInv, Kept, Undisturbed' => Undisturbed /\ ManagedKept,
         UNCHANGED prepare
  PROVE  \A c \in Preparers : PreparationFits(prepare[c])'
<1> SUFFICES ASSUME NEW c \in Preparers
             PROVE  PreparationFits(prepare[c])'
  OBVIOUS
<1>1. PICK y : y = prepare[c]
  OBVIOUS
<1>2. prepare'[c] = y /\ y \in Preparation /\ PreparationFits(y)
  BY <1>1 DEF IndexInv, IndexTypes
<1>3. PreparationFits(y)'
  BY <1>2, PreparationKept DEF IndexInv
<1> QED
  BY <1>2, <1>3 DEF PreparationFits, Kind, Managed, Specified

\* upsert_points, count_version_points, retrieve_version_points.
LEMMA WriterKeeps ==
  ASSUME IndexInv, WriterStep, UNCHANGED <<kb, plan>>
  PROVE  IndexInv' /\ ForeignKept
<1>0. Undisturbed' <=> Undisturbed
  BY DEF Undisturbed
<1>1. writer \in WriterRec /\ writer.pc # "idle" /\ writer.gen \in Generations
      /\ writer.doc \in Docs /\ writer.next \in 1 .. Chunks[writer.doc]
  BY DEF IndexInv, IndexTypes, WriterStep, UpsertInfo, UpsertPoints, UpsertLost,
         CountVersionPoints, RetrieveVersionPoints
<1>2. UNCHANGED <<prepare, removal>>
  BY DEF WriterStep, UpsertInfo, UpsertPoints, UpsertLost, CountVersionPoints,
         RetrieveVersionPoints
<1>3. Kept /\ ManagedKept
  <2>1. CASE UNCHANGED collections
    BY <2>1, NothingChanges DEF IndexInv
  <2>2. CASE writer.pc = "upsert" /\ collections' = WithPoint
    BY <2>2, WithPointOK DEF IndexInv, ForeignSafe
  <2> QED
    BY <2>1, <2>2 DEF WriterStep, UpsertInfo, UpsertPoints, UpsertLost, CountVersionPoints,
                      RetrieveVersionPoints
<1>4. /\ writer' \in WriterRec /\ writer'.pc # "idle"
      /\ writer'.gen = writer.gen /\ writer'.doc = writer.doc
      /\ writer'.next \in 1 .. Chunks[writer.doc]
      /\ writer'.pc = "upsert" => Managed(writer.gen)
  <2>1. CASE UpsertInfo
    BY <1>1, <2>1 DEF UpsertInfo, WriterTo, WriterRec
  <2>2. CASE UpsertPoints
    <3>0. Chunks[writer.doc] \in Nat
      BY <1>1, VectorIndexAssumption
    <3>1. CASE collections[writer.gen].kind = "absent"
      BY <1>1, <2>2, <3>1 DEF UpsertPoints, WriterRec
    <3>2. CASE collections[writer.gen].kind # "absent" /\ writer.next = Chunks[writer.doc]
      BY <1>1, <2>2, <3>2 DEF UpsertPoints, WriterRec
    <3>3. CASE collections[writer.gen].kind # "absent" /\ writer.next # Chunks[writer.doc]
      <4>1. writer' = [writer EXCEPT !.pc = "info", !.next = @ + 1]
        BY <2>2, <3>3 DEF UpsertPoints
      <4>2. PICK n : n = writer.next + 1
        OBVIOUS
      <4>3. n \in 1 .. Chunks[writer.doc] /\ n \in Nat
        BY <1>1, <3>0, <3>3, <4>2
      <4>4. writer' = [writer EXCEPT !.pc = "info", !.next = n]
        BY <4>1, <4>2
      <4>5. writer' \in WriterRec /\ writer'.next = n
        BY <1>1, <4>3, <4>4 DEF WriterRec
      <4>6. writer'.pc = "info" /\ writer'.gen = writer.gen /\ writer'.doc = writer.doc
        BY <1>1, <4>4 DEF WriterRec
      <4> QED
        BY <4>3, <4>5, <4>6
    <3> QED
      BY <3>1, <3>2, <3>3
  <2>3. CASE UpsertLost
    BY <1>1, <2>3 DEF UpsertLost, WriterTo, WriterRec
  <2>4. CASE CountVersionPoints
    BY <1>1, <2>4 DEF CountVersionPoints, WriterTo, WriterRec
  <2>5. CASE RetrieveVersionPoints
    BY <1>1, <2>5 DEF RetrieveVersionPoints, WriterTo, WriterRec
  <2> QED
    BY <2>1, <2>2, <2>3, <2>4, <2>5 DEF WriterStep
<1>5. IndexTypes' /\ PointsFit'
  BY <1>1, <1>2, <1>3, <1>4 DEF IndexInv, IndexTypes, Kept
<1>6. ForeignSafe'
  <2>1. Managed(writer.gen) => collections'[writer.gen].kind # "foreign"
    BY <1>1, <1>3 DEF ManagedKept, Managed
  <2> QED
    BY <1>2, <1>3, <1>4, <2>1, OthersKept DEF ForeignSafe, Kind
<1>7. Alone'
  BY <1>0, <1>2, <1>3, OthersKept DEF IndexInv, Alone
<1>8. \A c \in Preparers : PreparationFits(prepare[c])'
  BY <1>0, <1>2, <1>3, RestKeeps
<1> QED
  BY <1>3, <1>5, <1>6, <1>7, <1>8 DEF IndexInv, Kept

\* delete_collection.
LEMMA RemovalKeeps ==
  ASSUME IndexInv, RemovalInfo \/ RemoveCollection, UNCHANGED <<kb, plan>>
  PROVE  IndexInv' /\ ForeignKept
<1>0. ~Undisturbed /\ ~Undisturbed'
  BY DEF IndexInv, Alone, Undisturbed, RemovalInfo, RemoveCollection
<1>1. Kept /\ UNCHANGED <<prepare, writer>>
  BY NothingChanges, RemoveOK DEF IndexInv, RemovalInfo, RemoveCollection
<1>2. removal.gen \in Generations
  BY DEF IndexInv, IndexTypes, RemovalInfo, RemoveCollection
<1>3. /\ removal' \in [pc : {"idle", "info", "delete"}, gen : Generations \cup {0}]
      /\ removal'.pc # "idle" => removal'.gen = removal.gen /\ Managed(removal.gen)
      /\ removal'.pc = "delete" => UNCHANGED collections
  BY <1>2 DEF IndexInv, IndexTypes, RemovalInfo, RemoveCollection, NoRemoval
<1>4. IndexTypes' /\ PointsFit'
  BY <1>1, <1>2, <1>3 DEF IndexInv, IndexTypes, Kept
<1>5. ForeignSafe'
  BY <1>1, <1>3, OthersKept DEF ForeignSafe, Kind, Managed
<1>6. \A c \in Preparers : PreparationFits(prepare[c])'
  BY <1>0, <1>1, RestKeeps
<1> QED
  BY <1>0, <1>1, <1>4, <1>5, <1>6 DEF IndexInv, Alone, Kept

\* The collections, and who prepares them, stay as they are.
LEMMA IndexStays ==
  ASSUME IndexInv, UNCHANGED <<collections, prepare>>, Undisturbed' => Undisturbed,
         removal' \in [pc : {"idle", "info", "delete"}, gen : Generations \cup {0}],
         removal'.pc # "idle" => removal'.gen \in Generations,
         removal'.pc = "delete" => UNCHANGED removal,
         Undisturbed' => removal'.pc = "idle",
         writer' \in WriterRec,
         writer'.pc # "idle" => /\ writer'.gen \in Generations /\ writer'.doc \in Docs
                                /\ writer'.next \in 1 .. Chunks[writer'.doc],
         writer'.pc = "upsert" => UNCHANGED writer
  PROVE  IndexInv' /\ ForeignKept
<1>1. Kept /\ ManagedKept
  BY NothingChanges DEF IndexInv
<1>2. IndexTypes' /\ PointsFit'
  BY <1>1 DEF IndexInv, IndexTypes, Kept
<1>3. ForeignSafe' /\ Alone'
  BY DEF IndexInv, ForeignSafe, Alone, Kind
<1>4. \A c \in Preparers : PreparationFits(prepare[c])'
  BY <1>1, RestKeeps
<1> QED
  BY <1>1, <1>2, <1>3, <1>4 DEF IndexInv, Kept

\* The rows of the knowledge base that nothing of this step touches.
LEMMA IndexSame ==
  ASSUME IndexInv, UNCHANGED <<collections, prepare, removal, writer>>,
         Undisturbed' => Undisturbed
  PROVE  IndexInv' /\ ForeignKept
<1>1. /\ removal' \in [pc : {"idle", "info", "delete"}, gen : Generations \cup {0}]
      /\ removal'.pc # "idle" => removal'.gen \in Generations
      /\ Undisturbed' => removal'.pc = "idle"
      /\ writer' \in WriterRec
      /\ writer'.pc # "idle" => /\ writer'.gen \in Generations /\ writer'.doc \in Docs
                                /\ writer'.next \in 1 .. Chunks[writer'.doc]
  BY DEF IndexInv, IndexTypes, Alone
<1> QED
  BY <1>1, IndexStays

\* Every step of the index and of the rows that say which part of it serves.
LEMMA IndexStepKeeps ==
  ASSUME IndexInv, MetadataTypes, IndexStep, UNCHANGED plan
  PROVE  IndexInv' /\ MetadataTypes' /\ ForeignKept
<1> USE DEF metadataVars
<1>1. CASE \E d \in Docs : BeginWriting(d)
  <2>1. PICK d \in Docs : BeginWriting(d)
    BY <1>1
  <2>2. MetadataTypes' /\ (Undisturbed' => Undisturbed)
    BY <2>1 DEF MetadataTypes, BeginWriting, Undisturbed
  <2>3. UNCHANGED <<collections, prepare, removal>> /\ writer'.pc = "info"
        /\ writer'.gen = activeGen /\ writer'.doc = d /\ writer'.next = 1
        /\ writer' \in WriterRec
    BY <2>1 DEF BeginWriting, StartWriting, WriterRec, MetadataTypes
  <2>4. 1 \in 1 .. Chunks[d] /\ activeGen \in Generations
    BY VectorIndexAssumption DEF MetadataTypes
  <2>5. /\ removal' \in [pc : {"idle", "info", "delete"}, gen : Generations \cup {0}]
        /\ removal'.pc # "idle" => removal'.gen \in Generations
        /\ Undisturbed' => removal'.pc = "idle"
    BY <2>2, <2>3 DEF IndexInv, IndexTypes, Alone
  <2> QED
    BY <2>2, <2>3, <2>4, <2>5, IndexStays
<1>2. CASE WriterStep /\ MetadataUnchanged
  BY <1>2, WriterKeeps DEF MetadataUnchanged, MetadataTypes
<1>3. CASE CommitWriting
  <2>1. writer.doc \in Docs
    BY <1>3 DEF CommitWriting, IndexInv, IndexTypes
  <2>2. kb' = kb /\ activeGen' = activeGen /\ config' = config
    BY <1>3 DEF CommitWriting
  <2>3. docs' \in [Docs -> {"processing", "active", "failed"}]
    BY <1>3, <2>1 DEF CommitWriting, MetadataTypes
  <2>4. states' \in [Generations -> SUBSET Docs]
    BY <1>3, <2>1 DEF CommitWriting, MetadataTypes
  <2>5. MetadataTypes' /\ (Undisturbed' => Undisturbed)
    BY <2>2, <2>3, <2>4 DEF MetadataTypes, Undisturbed
  <2>6. UNCHANGED <<collections, prepare, removal>> /\ writer' = NoWriter
    BY <1>3 DEF CommitWriting
  <2>7. writer' \in WriterRec /\ writer'.pc = "idle"
    BY <2>6 DEF NoWriter, WriterRec
  <2>8. /\ removal' \in [pc : {"idle", "info", "delete"}, gen : Generations \cup {0}]
        /\ removal'.pc # "idle" => removal'.gen \in Generations
        /\ Undisturbed' => removal'.pc = "idle"
    BY <2>5, <2>6 DEF IndexInv, IndexTypes, Alone
  <2> QED
    BY <2>5, <2>6, <2>7, <2>8, IndexStays
<1>4. CASE \E c \in Preparers :
             \/ c \in plan.preparers /\ Prepare(c, 2) /\ MetadataUnchanged
             \/ PrepareStep(c) /\ MetadataUnchanged
  BY <1>4, PrepareStarts, PrepareStepKeeps DEF MetadataUnchanged, MetadataTypes
<1>5. CASE Cutover
  <2>1. Live \in SUBSET Docs
    BY DEF Live
  <2>2. MetadataTypes' /\ (Undisturbed' => Undisturbed)
    BY <1>5, <2>1 DEF MetadataTypes, Cutover, Undisturbed
  <2> QED
    BY <1>5, <2>2, IndexSame DEF Cutover, indexVars
<1>6. CASE BeginDeletion \/ PurgeRows \/ SwitchOff
  <2>1. MetadataTypes' /\ (Undisturbed' => Undisturbed)
    BY <1>6 DEF MetadataTypes, BeginDeletion, PurgeRows, SwitchOff, Undisturbed
  <2> QED
    BY <1>6, <2>1, IndexSame DEF BeginDeletion, PurgeRows, SwitchOff, indexVars
<1>7. CASE \E g \in Generations : BeginRemoval(g)
  <2>1. PICK g \in Generations : BeginRemoval(g)
    BY <1>7
  <2>2. MetadataTypes' /\ ~Undisturbed'
    BY <2>1 DEF MetadataTypes, BeginRemoval, Undisturbed
  <2>3. UNCHANGED <<collections, prepare, writer>> /\ removal' = [pc |-> "info", gen |-> g]
    BY <2>1 DEF BeginRemoval, StartRemoval
  <2>4. /\ writer' \in WriterRec
        /\ writer'.pc # "idle" => /\ writer'.gen \in Generations /\ writer'.doc \in Docs
                                  /\ writer'.next \in 1 .. Chunks[writer'.doc]
    BY <2>3 DEF IndexInv, IndexTypes
  <2>5. /\ removal' \in [pc : {"idle", "info", "delete"}, gen : Generations \cup {0}]
        /\ removal'.pc = "info" /\ removal'.gen \in Generations
    BY <2>3
  <2> QED
    BY <2>2, <2>3, <2>4, <2>5, IndexStays
<1>8. CASE (RemovalInfo \/ RemoveCollection) /\ MetadataUnchanged
  BY <1>8, RemovalKeeps DEF MetadataUnchanged, MetadataTypes
<1> QED
  BY <1>1, <1>2, <1>3, <1>4, <1>5, <1>6, <1>7, <1>8 DEF IndexStep

-----------------------------------------------------------------------------
(* A search.                                                               *)

Before == {"idle", "target", "runtime", "documents", "credential", "call", "observe", "report",
           "info", "query"}

Reranking == {"rerankRuntime", "permit", "rerankCall"}

Pcs == Before \cup Reranking \cup {"recheck", "log", "done"}

Codes == {"none", "ok", "notFound", "unavailable", "filter", "error", "embedding",
          "configuration", "retrieval", "noReranker", "cancelled"}

Attempts == {"none", "succeeded", "rate_limited", "timeout", "failed", "cancelled"}

SearchRec ==
  [pc : Pcs, req : Requests \cup {<<>>}, gen : Generations \cup {0}, reranker : BOOLEAN,
   filter : SUBSET Docs, attempt : Attempts, candidates : Seq(Points), visible : Seq(Points),
   results : Seq(Points), code : Codes, status : {"succeeded", "failed", "rejected"},
   degraded : BOOLEAN, cancelled : BOOLEAN, offered : SUBSET Points, shown : SUBSET Points,
   sent : BOOLEAN]

EverRec == [visible : SUBSET (Generations \X Docs), active : SUBSET Generations]

Under(r) == r.pc \notin {"idle", "log", "done"}

\* The generation of a search is one that served.
GenFits(r, e) ==
  /\ r.pc # "idle" => r.req \in Requests
  /\ (Under(r) /\ r.pc # "target") \/ r.status = "succeeded" =>
       r.gen \in Generations /\ r.gen \in e.active

\* Its filter is what was asked for.
FilterFits(r) ==
  /\ r.pc # "idle" => r.filter \subseteq r.req.docs
  /\ Under(r) /\ r.pc \notin {"target", "runtime", "documents"} /\ r.filter = {} => r.req.docs = {}

Wanted(r, p) == p[1] = r.gen /\ (r.req.docs # {} => DocOf(p) \in r.req.docs)

\* The candidates are the nearest of what was offered.
CandidatesFit(r) ==
  /\ r.pc \in Before => r.offered = {}
  /\ r.pc = "recheck" =>
       /\ IsInjective(r.candidates) /\ ToSet(r.candidates) \subseteq r.offered
       /\ Len(r.candidates) = Min({CandidateLimit(r.req.topK), Cardinality(r.offered)})
       /\ \A p \in r.offered : Wanted(r, p)

\* What may be shown is what was asked for and seen, and the results are of it.
ResultsFit(r, e) ==
  /\ r.pc \in Before \cup {"recheck"} => r.visible = <<>>
  /\ r.pc \notin {"log", "done"} => r.results = <<>>
  /\ r.pc \in Reranking => r.visible # <<>> /\ r.req.rerank /\ r.reranker
  /\ IsInjective(r.visible)
  /\ \A p \in ToSet(r.visible) : <<r.gen, DocOf(p)>> \in e.visible /\ Wanted(r, p)
  /\ IsInjective(r.results) /\ ToSet(r.results) \subseteq ToSet(r.visible)
  /\ r.results # <<>> => Len(r.results) <= r.req.topK

\* Points that cannot be shown cost results only where they crowd the others out.
Crowding(r) ==
  /\ r.pc \in {"log", "done"} /\ r.status = "succeeded" /\ r.offered # {} /\ ~r.req.rerank
  /\ Cardinality(r.offered \ r.shown) <= CandidateLimit(r.req.topK) - r.req.topK
  => Len(r.results) >= Min({r.req.topK, Cardinality(r.shown)})

\* How a search ends.
EndFits(r) ==
  /\ r.pc \notin {"log", "done"} => r.status = "failed" /\ r.code = "none"
  /\ r.pc \in {"log", "done"} /\ r.visible # <<>> /\ r.reranker /\ ~r.cancelled =>
       r.status = "succeeded" /\ r.results # <<>>
  /\ r.status = "succeeded" <=> r.code = "ok"
  /\ r.status = "rejected" <=> r.code \in {"notFound", "filter", "noReranker"}
  /\ r.code = "cancelled" => r.cancelled
  /\ r.cancelled => r.pc \in {"observe", "report", "log", "done"}

\* The row of the query log; failed says that a call has.
LogFits(r, l, failed) ==
  /\ r.pc # "done" => l = <<>>
  /\ l = <<>> \/ l = <<[status |-> r.status, degraded |-> r.degraded]>>
  /\ r.pc = "done" /\ l = <<>> => failed \/ (r.cancelled /\ r.code # "cancelled")

Asked == {"call", "observe", "report", "info", "query", "recheck"} \cup Reranking

\* What became of a report: u is the row of provider_usage and the task that
\* writes it.
RowFits(r, u, failed) ==
  /\ u.row = <<>> \/ (u.row = <<r.attempt>> /\ u.task \in {"done", "cut"})
  /\ u.task = "done" /\ u.row = <<>> => failed
  /\ u.task \in {"left", "cut"} => failed \/ (r.cancelled /\ r.attempt # "cancelled")

\* The row of provider_usage.
UsageFits(r, u, failed) ==
  /\ r.pc \in {"idle", "target", "runtime", "documents", "credential"} =>
       ~r.sent /\ r.attempt = "none"
  /\ r.pc \in Asked => r.sent
  /\ r.pc = "call" => r.attempt = "none"
  /\ u.task \in ObserverState
  /\ (u.task # "none") <=> (r.sent /\ r.pc \notin {"call", "observe"})
  /\ (u.task = "running") <=> (r.pc = "report")
  /\ RowFits(r, u, failed)
  /\ r.sent /\ r.pc # "call" => r.attempt # "none"
  /\ r.attempt = "cancelled" => r.cancelled
  /\ r.pc \in Asked \ {"call", "observe", "report"} => r.attempt = "succeeded"
  /\ r.sent /\ r.pc \in {"log", "done"} /\ ~r.cancelled =>
       (r.attempt = "succeeded" <=> r.code # "embedding")

\* A search, what happened since it began, its row in the query log and the one
\* in provider_usage.
SearchFits(r, e, l, u, failed) ==
  /\ r \in SearchRec /\ GenFits(r, e) /\ FilterFits(r) /\ CandidatesFit(r)
  /\ ResultsFit(r, e) /\ Crowding(r) /\ EndFits(r) /\ LogFits(r, l, failed)
  /\ UsageFits(r, u, failed)

\* What two records have in common.
SameRequest(q, r) ==
  q.req = r.req /\ q.gen = r.gen /\ q.reranker = r.reranker /\ q.filter = r.filter

SameFinds(q, r) ==
  /\ q.candidates = r.candidates /\ q.visible = r.visible
  /\ q.offered = r.offered /\ q.shown = r.shown

SameCall(q, r) == q.attempt = r.attempt /\ q.sent = r.sent

\* The search is over, but for the query log.
EndOf(r, st, c) ==
  [r EXCEPT !.pc = "log", !.status = st, !.code = c]

LEMMA EndIs ==
  ASSUME NEW r \in SearchRec, NEW st \in {"succeeded", "failed", "rejected"}, NEW c \in Codes,
         NEW q, q = EndOf(r, st, c)
  PROVE  /\ q \in SearchRec
         /\ q.pc = "log" /\ q.status = st /\ q.code = c
         /\ SameRequest(q, r) /\ SameFinds(q, r) /\ SameCall(q, r)
         /\ q.results = r.results /\ q.degraded = r.degraded /\ q.cancelled = r.cancelled
<1>1. "log" \in Pcs
  BY DEF Pcs, Before, Reranking
<1>2. q \in SearchRec
  BY <1>1, Zenon DEF EndOf, SearchRec
<1>3. q.pc = "log" /\ q.status = st /\ q.code = c
  BY Zenon DEF EndOf, SearchRec
<1>4. SameRequest(q, r) /\ SameFinds(q, r) /\ SameCall(q, r)
  BY Zenon DEF EndOf, SearchRec, SameRequest, SameFinds, SameCall
<1>5. q.results = r.results /\ q.degraded = r.degraded /\ q.cancelled = r.cancelled
  BY Zenon DEF EndOf, SearchRec
<1> QED
  BY <1>2, <1>3, <1>4, <1>5

\* The search goes on as it is.
GotoOf(r, x) ==
  [r EXCEPT !.pc = x]

LEMMA GotoIs ==
  ASSUME NEW r \in SearchRec, NEW x \in Pcs,
         NEW q, q = GotoOf(r, x)
  PROVE  /\ q \in SearchRec
         /\ q.pc = x
         /\ SameRequest(q, r) /\ SameFinds(q, r) /\ SameCall(q, r)
         /\ q.results = r.results /\ q.code = r.code /\ q.status = r.status
         /\ q.degraded = r.degraded
         /\ q.cancelled = r.cancelled
<1>1. q \in SearchRec
  BY Zenon DEF GotoOf, SearchRec
<1>2. q.pc = x
  BY Zenon DEF GotoOf, SearchRec
<1>3. SameRequest(q, r) /\ SameFinds(q, r) /\ SameCall(q, r)
  BY Zenon DEF GotoOf, SearchRec, SameRequest, SameFinds, SameCall
<1>4. q.results = r.results /\ q.code = r.code /\ q.status = r.status /\ q.degraded = r.degraded
  BY Zenon DEF GotoOf, SearchRec
<1>5. q.cancelled = r.cancelled
  BY Zenon DEF GotoOf, SearchRec
<1> QED
  BY <1>1, <1>2, <1>3, <1>4, <1>5

\* ReadTarget found a knowledge base.
TargetOf(r, g, b) ==
  [r EXCEPT !.pc = "runtime", !.gen = g, !.reranker = b]

LEMMA TargetIs ==
  ASSUME NEW r \in SearchRec, NEW g \in Generations, NEW b \in BOOLEAN,
         NEW q, q = TargetOf(r, g, b)
  PROVE  /\ q \in SearchRec
         /\ q.pc = "runtime" /\ q.gen = g /\ q.reranker = b
         /\ SameFinds(q, r) /\ SameCall(q, r)
         /\ q.req = r.req /\ q.filter = r.filter /\ q.results = r.results /\ q.code = r.code
         /\ q.status = r.status /\ q.degraded = r.degraded /\ q.cancelled = r.cancelled
<1>1. "runtime" \in Pcs
  BY DEF Pcs, Before, Reranking
<1>2. q \in SearchRec
  BY <1>1, Zenon DEF TargetOf, SearchRec
<1>3. q.pc = "runtime" /\ q.gen = g /\ q.reranker = b
  BY Zenon DEF TargetOf, SearchRec
<1>4. SameFinds(q, r) /\ SameCall(q, r)
  BY Zenon DEF TargetOf, SearchRec, SameFinds, SameCall
<1>5. q.req = r.req /\ q.filter = r.filter /\ q.results = r.results /\ q.code = r.code
  BY Zenon DEF TargetOf, SearchRec
<1>6. q.status = r.status /\ q.degraded = r.degraded /\ q.cancelled = r.cancelled
  BY Zenon DEF TargetOf, SearchRec
<1> QED
  BY <1>2, <1>3, <1>4, <1>5, <1>6

\* FilterDocuments kept some.
FilterOf(r, F) ==
  [r EXCEPT !.pc = "credential", !.filter = F]

LEMMA FilterIs ==
  ASSUME NEW r \in SearchRec, NEW F \in SUBSET Docs,
         NEW q, q = FilterOf(r, F)
  PROVE  /\ q \in SearchRec
         /\ q.pc = "credential" /\ q.filter = F
         /\ SameFinds(q, r) /\ SameCall(q, r)
         /\ q.req = r.req /\ q.gen = r.gen /\ q.reranker = r.reranker /\ q.results = r.results
         /\ q.code = r.code /\ q.status = r.status /\ q.degraded = r.degraded
         /\ q.cancelled = r.cancelled
<1>1. "credential" \in Pcs
  BY DEF Pcs, Before, Reranking
<1>2. q \in SearchRec
  BY <1>1, Zenon DEF FilterOf, SearchRec
<1>3. q.pc = "credential" /\ q.filter = F
  BY Zenon DEF FilterOf, SearchRec
<1>4. SameFinds(q, r) /\ SameCall(q, r)
  BY Zenon DEF FilterOf, SearchRec, SameFinds, SameCall
<1>5. q.req = r.req /\ q.gen = r.gen /\ q.reranker = r.reranker /\ q.results = r.results
  BY Zenon DEF FilterOf, SearchRec
<1>6. q.code = r.code /\ q.status = r.status /\ q.degraded = r.degraded /\ q.cancelled = r.cancelled
  BY Zenon DEF FilterOf, SearchRec
<1> QED
  BY <1>2, <1>3, <1>4, <1>5, <1>6

\* The query goes out.
CallOf(r) ==
  [r EXCEPT !.pc = "call", !.sent = TRUE]

LEMMA CallIs ==
  ASSUME NEW r \in SearchRec,
         NEW q, q = CallOf(r)
  PROVE  /\ q \in SearchRec
         /\ q.pc = "call" /\ q.sent = TRUE
         /\ SameRequest(q, r) /\ SameFinds(q, r)
         /\ q.attempt = r.attempt /\ q.results = r.results /\ q.code = r.code /\ q.status = r.status
         /\ q.degraded = r.degraded /\ q.cancelled = r.cancelled
<1>1. "call" \in Pcs
  BY DEF Pcs, Before, Reranking
<1>2. q \in SearchRec
  BY <1>1, Zenon DEF CallOf, SearchRec
<1>3. q.pc = "call" /\ q.sent = TRUE
  BY Zenon DEF CallOf, SearchRec
<1>4. SameRequest(q, r) /\ SameFinds(q, r)
  BY Zenon DEF CallOf, SearchRec, SameRequest, SameFinds
<1>5. q.attempt = r.attempt /\ q.results = r.results /\ q.code = r.code /\ q.status = r.status
  BY Zenon DEF CallOf, SearchRec
<1>6. q.degraded = r.degraded /\ q.cancelled = r.cancelled
  BY Zenon DEF CallOf, SearchRec
<1> QED
  BY <1>2, <1>3, <1>4, <1>5, <1>6

\* The attempt ended.
ObserveOf(r, a, b) ==
  [r EXCEPT !.pc = "observe", !.attempt = a, !.degraded = b]

LEMMA ObserveIs ==
  ASSUME NEW r \in SearchRec, NEW a \in Attempts, NEW b \in BOOLEAN,
         NEW q, q = ObserveOf(r, a, b)
  PROVE  /\ q \in SearchRec
         /\ q.pc = "observe" /\ q.attempt = a /\ q.degraded = b
         /\ SameRequest(q, r) /\ SameFinds(q, r)
         /\ q.sent = r.sent /\ q.results = r.results /\ q.code = r.code /\ q.status = r.status
         /\ q.cancelled = r.cancelled
<1>1. "observe" \in Pcs
  BY DEF Pcs, Before, Reranking
<1>2. q \in SearchRec
  BY <1>1, Zenon DEF ObserveOf, SearchRec
<1>3. q.pc = "observe" /\ q.attempt = a /\ q.degraded = b
  BY Zenon DEF ObserveOf, SearchRec
<1>4. SameRequest(q, r) /\ SameFinds(q, r)
  BY Zenon DEF ObserveOf, SearchRec, SameRequest, SameFinds
<1>5. q.sent = r.sent /\ q.results = r.results /\ q.code = r.code /\ q.status = r.status
  BY Zenon DEF ObserveOf, SearchRec
<1>6. q.cancelled = r.cancelled
  BY Zenon DEF ObserveOf, SearchRec
<1> QED
  BY <1>2, <1>3, <1>4, <1>5, <1>6

\* The attempt was cut off.
CutOffOf(r) ==
  [r EXCEPT !.pc = "observe", !.cancelled = TRUE, !.attempt = "cancelled"]

LEMMA CutOffIs ==
  ASSUME NEW r \in SearchRec,
         NEW q, q = CutOffOf(r)
  PROVE  /\ q \in SearchRec
         /\ q.pc = "observe" /\ q.cancelled = TRUE /\ q.attempt = "cancelled"
         /\ SameRequest(q, r) /\ SameFinds(q, r)
         /\ q.sent = r.sent /\ q.results = r.results /\ q.code = r.code /\ q.status = r.status
         /\ q.degraded = r.degraded
<1>1. "observe" \in Pcs
  BY DEF Pcs, Before, Reranking
<1>2. q \in SearchRec
  BY <1>1, Zenon DEF CutOffOf, SearchRec, Attempts
<1>3. q.pc = "observe" /\ q.cancelled = TRUE /\ q.attempt = "cancelled"
  BY Zenon DEF CutOffOf, SearchRec
<1>4. SameRequest(q, r) /\ SameFinds(q, r)
  BY Zenon DEF CutOffOf, SearchRec, SameRequest, SameFinds
<1>5. q.sent = r.sent /\ q.results = r.results /\ q.code = r.code /\ q.status = r.status
  BY Zenon DEF CutOffOf, SearchRec
<1>6. q.degraded = r.degraded
  BY Zenon DEF CutOffOf, SearchRec
<1> QED
  BY <1>2, <1>3, <1>4, <1>5, <1>6

\* The candidates are there.
QueryOf(r, points, O) ==
  [r EXCEPT !.pc = "recheck", !.candidates = points, !.offered = O]

LEMMA QueryIs ==
  ASSUME NEW r \in SearchRec, NEW points \in Seq(Points), NEW O \in SUBSET Points,
         NEW q, q = QueryOf(r, points, O)
  PROVE  /\ q \in SearchRec
         /\ q.pc = "recheck" /\ q.candidates = points /\ q.offered = O
         /\ SameRequest(q, r) /\ SameCall(q, r)
         /\ q.visible = r.visible /\ q.shown = r.shown /\ q.results = r.results /\ q.code = r.code
         /\ q.status = r.status /\ q.degraded = r.degraded /\ q.cancelled = r.cancelled
<1>1. "recheck" \in Pcs
  BY DEF Pcs, Before, Reranking
<1>2. q \in SearchRec
  BY <1>1, Zenon DEF QueryOf, SearchRec
<1>3. q.pc = "recheck" /\ q.candidates = points /\ q.offered = O
  BY Zenon DEF QueryOf, SearchRec
<1>4. SameRequest(q, r) /\ SameCall(q, r)
  BY Zenon DEF QueryOf, SearchRec, SameRequest, SameCall
<1>5. q.visible = r.visible /\ q.shown = r.shown /\ q.results = r.results /\ q.code = r.code
  BY Zenon DEF QueryOf, SearchRec
<1>6. q.status = r.status /\ q.degraded = r.degraded /\ q.cancelled = r.cancelled
  BY Zenon DEF QueryOf, SearchRec
<1> QED
  BY <1>2, <1>3, <1>4, <1>5, <1>6

\* Recheck looked at them.
SeenOf(r, v, sh) ==
  [r EXCEPT !.visible = v, !.shown = sh]

LEMMA SeenIs ==
  ASSUME NEW r \in SearchRec, NEW v \in Seq(Points), NEW sh \in SUBSET Points,
         NEW q, q = SeenOf(r, v, sh)
  PROVE  /\ q \in SearchRec
         /\ q.visible = v /\ q.shown = sh
         /\ SameRequest(q, r) /\ SameCall(q, r)
         /\ q.candidates = r.candidates /\ q.offered = r.offered /\ q.results = r.results
         /\ q.code = r.code /\ q.status = r.status /\ q.degraded = r.degraded
         /\ q.cancelled = r.cancelled /\ q.pc = r.pc
<1>1. q \in SearchRec
  BY Zenon DEF SeenOf, SearchRec
<1>2. q.visible = v /\ q.shown = sh
  BY Zenon DEF SeenOf, SearchRec
<1>3. SameRequest(q, r) /\ SameCall(q, r)
  BY Zenon DEF SeenOf, SearchRec, SameRequest, SameCall
<1>4. /\ q.candidates = r.candidates /\ q.offered = r.offered
      /\ q.results = r.results /\ q.code = r.code
  BY Zenon DEF SeenOf, SearchRec
<1>5. q.status = r.status /\ q.degraded = r.degraded /\ q.cancelled = r.cancelled /\ q.pc = r.pc
  BY Zenon DEF SeenOf, SearchRec
<1> QED
  BY <1>1, <1>2, <1>3, <1>4, <1>5

\* They are the answer.
DoneOf(r, res) ==
  [r EXCEPT !.pc = "log", !.status = "succeeded", !.code = "ok", !.results = res]

LEMMA DoneIs ==
  ASSUME NEW r \in SearchRec, NEW res \in Seq(Points),
         NEW q, q = DoneOf(r, res)
  PROVE  /\ q \in SearchRec
         /\ q.pc = "log" /\ q.status = "succeeded" /\ q.code = "ok" /\ q.results = res
         /\ SameRequest(q, r) /\ SameFinds(q, r) /\ SameCall(q, r)
         /\ q.degraded = r.degraded /\ q.cancelled = r.cancelled
<1>1. "log" \in Pcs
  BY DEF Pcs, Before, Reranking
<1>2. q \in SearchRec
  BY <1>1, Zenon DEF DoneOf, SearchRec, Codes
<1>3. q.pc = "log" /\ q.status = "succeeded" /\ q.code = "ok" /\ q.results = res
  BY Zenon DEF DoneOf, SearchRec
<1>4. SameRequest(q, r) /\ SameFinds(q, r) /\ SameCall(q, r)
  BY Zenon DEF DoneOf, SearchRec, SameRequest, SameFinds, SameCall
<1>5. q.degraded = r.degraded /\ q.cancelled = r.cancelled
  BY Zenon DEF DoneOf, SearchRec
<1> QED
  BY <1>2, <1>3, <1>4, <1>5

\* The search is cancelled.
CancelledOf(r) ==
  [r EXCEPT !.pc = "done", !.cancelled = TRUE]

LEMMA CancelledIs ==
  ASSUME NEW r \in SearchRec,
         NEW q, q = CancelledOf(r)
  PROVE  /\ q \in SearchRec
         /\ q.pc = "done" /\ q.cancelled = TRUE
         /\ SameRequest(q, r) /\ SameFinds(q, r) /\ SameCall(q, r)
         /\ q.results = r.results /\ q.code = r.code /\ q.status = r.status
         /\ q.degraded = r.degraded
<1>0. "done" \in Pcs
  BY DEF Pcs
<1>1. q \in SearchRec
  BY <1>0, Zenon DEF CancelledOf, SearchRec
<1>2. q.pc = "done" /\ q.cancelled = TRUE
  BY Zenon DEF CancelledOf, SearchRec
<1>3. SameRequest(q, r) /\ SameFinds(q, r) /\ SameCall(q, r)
  BY Zenon DEF CancelledOf, SearchRec, SameRequest, SameFinds, SameCall
<1>4. q.results = r.results /\ q.code = r.code /\ q.status = r.status /\ q.degraded = r.degraded
  BY Zenon DEF CancelledOf, SearchRec
<1> QED
  BY <1>1, <1>2, <1>3, <1>4

\* The cancellation is remembered.
NotedOf(r) == [r EXCEPT !.cancelled = TRUE]

LEMMA NotedIs ==
  ASSUME NEW r \in SearchRec,
         NEW q, q = NotedOf(r)
  PROVE  /\ q \in SearchRec
         /\ q.pc = r.pc /\ q.cancelled = TRUE
         /\ SameRequest(q, r) /\ SameFinds(q, r) /\ SameCall(q, r)
         /\ q.results = r.results /\ q.code = r.code /\ q.status = r.status
<1>1. q \in SearchRec
  BY Zenon DEF NotedOf, SearchRec
<1>2. q.pc = r.pc /\ q.cancelled = TRUE
  BY Zenon DEF NotedOf, SearchRec
<1>3. SameRequest(q, r) /\ SameFinds(q, r) /\ SameCall(q, r)
  BY Zenon DEF NotedOf, SearchRec, SameRequest, SameFinds, SameCall
<1>4. q.results = r.results /\ q.code = r.code /\ q.status = r.status
  BY Zenon DEF NotedOf, SearchRec
<1> QED
  BY <1>1, <1>2, <1>3, <1>4

\* The response.
AnswerOf(r, res, b) ==
  [EndOf(r, "succeeded", "ok") EXCEPT !.results = res, !.degraded = @ \/ b]

LEMMA AnswerIs ==
  ASSUME NEW r \in SearchRec, NEW res \in Seq(Points), NEW b \in BOOLEAN,
         NEW q, q = AnswerOf(r, res, b)
  PROVE  /\ q \in SearchRec
         /\ q.pc = "log" /\ q.status = "succeeded" /\ q.code = "ok" /\ q.results = res
         /\ SameRequest(q, r) /\ SameFinds(q, r) /\ SameCall(q, r) /\ q.cancelled = r.cancelled
<1>1. PICK k : k = EndOf(r, "succeeded", "ok")
  OBVIOUS
<1>2. /\ k \in SearchRec /\ k.pc = "log" /\ k.status = "succeeded" /\ k.code = "ok"
      /\ SameRequest(k, r) /\ SameFinds(k, r) /\ SameCall(k, r) /\ k.cancelled = r.cancelled
  BY <1>1, EndIs DEF Codes
<1>3. PICK d \in BOOLEAN : d = (k.degraded \/ b)
  OBVIOUS
<1>4. q = [k EXCEPT !.results = res, !.degraded = d]
  BY <1>1, <1>3, Zenon DEF AnswerOf
<1>5. q \in SearchRec
  BY <1>2, <1>4, Zenon DEF SearchRec
<1>6. q.pc = k.pc /\ q.status = k.status /\ q.code = k.code /\ q.results = res
  BY <1>2, <1>4, Zenon DEF SearchRec
<1>7. SameRequest(q, k) /\ SameFinds(q, k) /\ SameCall(q, k) /\ q.cancelled = k.cancelled
  BY <1>2, <1>4, Zenon DEF SearchRec, SameRequest, SameFinds, SameCall
<1>8. SameRequest(q, r) /\ SameFinds(q, r) /\ SameCall(q, r) /\ q.cancelled = r.cancelled
  BY <1>2, <1>7, Zenon DEF SameRequest, SameFinds, SameCall
<1> QED
  BY <1>2, <1>5, <1>6, <1>8

-----------------------------------------------------------------------------
(* What each step makes of a search.                                       *)

LEMMA Nothing == ToSet(<<>>) = {} /\ IsInjective(<<>>)
BY DEF ToSet, IsInjective

\* A search fails, or is rejected, before it has looked at its candidates.
LEMMA FailsFit ==
  ASSUME NEW r, NEW e, NEW l, NEW u, NEW f \in BOOLEAN, NEW f2 \in BOOLEAN, f => f2,
         SearchFits(r, e, l, u, f),
         r.pc \in {"target", "runtime", "documents", "credential", "info", "query", "recheck"},
         NEW st, NEW c,
         \/ st = "rejected" /\ c = "filter"
         \/ st = "failed" /\ c \in {"unavailable", "error", "configuration", "retrieval"}
         \/ st = "failed" /\ c = "embedding" /\ ~r.sent,
         NEW q, q = EndOf(r, st, c)
  PROVE  SearchFits(q, e, l, u, f2)
<1>1. r \in SearchRec /\ st \in {"succeeded", "failed", "rejected"} /\ c \in Codes
  BY DEF SearchFits, Codes
<1>2. /\ q \in SearchRec /\ q.pc = "log" /\ q.status = st /\ q.code = c
      /\ SameRequest(q, r) /\ SameFinds(q, r) /\ SameCall(q, r)
      /\ q.results = r.results /\ q.degraded = r.degraded /\ q.cancelled = r.cancelled
  BY <1>1, EndIs
<1>3. GenFits(q, e) /\ FilterFits(q)
  BY <1>2 DEF SearchFits, GenFits, FilterFits, SameRequest, Under
<1>4. CandidatesFit(q) /\ Crowding(q)
  BY <1>2 DEF CandidatesFit, Crowding, Before
<1>5. ResultsFit(q, e)
  BY <1>2 DEF SearchFits, ResultsFit, SameRequest, SameFinds, Wanted, Before, Reranking
<1>6. r.visible = <<>> /\ ~r.cancelled
  BY DEF SearchFits, ResultsFit, EndFits, Before
<1>7. EndFits(q)
  BY <1>2, <1>6 DEF EndFits, SameFinds
<1>8. LogFits(q, l, f2)
  BY <1>2 DEF SearchFits, LogFits
<1>9. UsageFits(q, u, f2)
  BY <1>2, <1>6 DEF SearchFits, UsageFits, RowFits, SameCall, Asked, Reranking
<1> QED
  BY <1>2, <1>3, <1>4, <1>5, <1>7, <1>8, <1>9 DEF SearchFits

\* A search goes on, and remembers nothing new.
LEMMA GotoFits ==
  ASSUME NEW r, NEW e, NEW l, NEW u, NEW f, SearchFits(r, e, l, u, f), NEW x,
         \/ r.pc = "runtime" /\ x = "documents"
         \/ r.pc = "runtime" /\ x = "credential" /\ r.req.docs = {}
         \/ r.pc = "info" /\ x = "query"
         \/ r.pc = "rerankRuntime" /\ x = "permit"
         \/ r.pc = "permit" /\ x = "rerankCall",
         NEW q, q = GotoOf(r, x)
  PROVE  SearchFits(q, e, l, u, f)
<1>1. r \in SearchRec /\ x \in Pcs
  BY DEF SearchFits, Pcs, Before, Reranking
<1>2. /\ q \in SearchRec /\ q.pc = x
      /\ SameRequest(q, r) /\ SameFinds(q, r) /\ SameCall(q, r)
      /\ q.results = r.results /\ q.code = r.code /\ q.status = r.status
      /\ q.degraded = r.degraded /\ q.cancelled = r.cancelled
  BY <1>1, GotoIs
<1>3. GenFits(q, e) /\ FilterFits(q)
  BY <1>2 DEF SearchFits, GenFits, FilterFits, SameRequest, Under
<1>4. CandidatesFit(q) /\ Crowding(q)
  BY <1>2 DEF SearchFits, CandidatesFit, Crowding, SameFinds, Before, Reranking
<1>5. ResultsFit(q, e)
  BY <1>2 DEF SearchFits, ResultsFit, SameRequest, SameFinds, Wanted, Before, Reranking
<1>6. EndFits(q) /\ LogFits(q, l, f)
  BY <1>2 DEF SearchFits, EndFits, LogFits, SameFinds
<1>7. UsageFits(q, u, f)
  BY <1>2 DEF SearchFits, UsageFits, RowFits, SameCall, Asked, Reranking
<1> QED
  BY <1>2, <1>3, <1>4, <1>5, <1>6, <1>7 DEF SearchFits

\* A search has found its knowledge base.
LEMMA TargetFits ==
  ASSUME NEW r, NEW e, NEW l, NEW u, NEW f, SearchFits(r, e, l, u, f),
         r.pc = "target", NEW g \in Generations, g \in e.active, NEW b \in BOOLEAN,
         NEW q, q = TargetOf(r, g, b)
  PROVE  SearchFits(q, e, l, u, f)
<1>1. r \in SearchRec
  BY DEF SearchFits
<1>2. /\ q \in SearchRec /\ q.pc = "runtime" /\ q.gen = g /\ q.req = r.req
      /\ q.filter = r.filter /\ SameFinds(q, r) /\ SameCall(q, r)
      /\ q.results = r.results /\ q.code = r.code /\ q.status = r.status
      /\ q.degraded = r.degraded /\ q.cancelled = r.cancelled
  BY <1>1, TargetIs
<1>3. GenFits(q, e) /\ FilterFits(q)
  BY <1>2 DEF SearchFits, GenFits, FilterFits, Under
<1>4. CandidatesFit(q) /\ Crowding(q)
  BY <1>2 DEF SearchFits, CandidatesFit, Crowding, SameFinds, Before, Reranking
<1>5. r.visible = <<>>
  BY DEF SearchFits, ResultsFit, Before
<1>6. ResultsFit(q, e)
  BY <1>2, <1>5, Nothing DEF SearchFits, ResultsFit, SameFinds, Before, Reranking
<1>7. EndFits(q) /\ LogFits(q, l, f)
  BY <1>2 DEF SearchFits, EndFits, LogFits, SameFinds
<1>8. UsageFits(q, u, f)
  BY <1>2 DEF SearchFits, UsageFits, RowFits, SameCall, Asked, Reranking
<1> QED
  BY <1>2, <1>3, <1>4, <1>6, <1>7, <1>8 DEF SearchFits

\* Some of the documents asked for can be seen.
LEMMA FilterKeeps ==
  ASSUME NEW r, NEW e, NEW l, NEW u, NEW f, SearchFits(r, e, l, u, f),
         r.pc = "documents", NEW F \in SUBSET Docs, F \subseteq r.req.docs, F # {},
         NEW q, q = FilterOf(r, F)
  PROVE  SearchFits(q, e, l, u, f)
<1>1. r \in SearchRec
  BY DEF SearchFits
<1>2. /\ q \in SearchRec /\ q.pc = "credential" /\ q.filter = F /\ q.req = r.req
      /\ q.gen = r.gen /\ SameFinds(q, r) /\ SameCall(q, r)
      /\ q.results = r.results /\ q.code = r.code /\ q.status = r.status
      /\ q.degraded = r.degraded /\ q.cancelled = r.cancelled
  BY <1>1, FilterIs
<1>3. GenFits(q, e) /\ FilterFits(q)
  BY <1>2 DEF SearchFits, GenFits, FilterFits, Under
<1>4. CandidatesFit(q) /\ Crowding(q)
  BY <1>2 DEF SearchFits, CandidatesFit, Crowding, SameFinds, Before, Reranking
<1>5. ResultsFit(q, e)
  BY <1>2 DEF SearchFits, ResultsFit, Wanted, SameFinds, Before, Reranking
<1>6. EndFits(q) /\ LogFits(q, l, f)
  BY <1>2 DEF SearchFits, EndFits, LogFits, SameFinds
<1>7. UsageFits(q, u, f)
  BY <1>2 DEF SearchFits, UsageFits, RowFits, SameCall, Asked, Reranking
<1> QED
  BY <1>2, <1>3, <1>4, <1>5, <1>6, <1>7 DEF SearchFits

\* The query goes out.
LEMMA CallFits ==
  ASSUME NEW r, NEW e, NEW l, NEW u, NEW f, SearchFits(r, e, l, u, f),
         r.pc = "credential", NEW q, q = CallOf(r)
  PROVE  SearchFits(q, e, l, u, f)
<1>1. r \in SearchRec
  BY DEF SearchFits
<1>2. /\ q \in SearchRec /\ q.pc = "call" /\ q.sent = TRUE /\ q.attempt = r.attempt
      /\ SameRequest(q, r) /\ SameFinds(q, r)
      /\ q.results = r.results /\ q.code = r.code /\ q.status = r.status
      /\ q.degraded = r.degraded /\ q.cancelled = r.cancelled
  BY <1>1, CallIs
<1>3. GenFits(q, e) /\ FilterFits(q)
  BY <1>2 DEF SearchFits, GenFits, FilterFits, SameRequest, Under
<1>4. CandidatesFit(q) /\ Crowding(q)
  BY <1>2 DEF SearchFits, CandidatesFit, Crowding, SameFinds, Before, Reranking
<1>5. ResultsFit(q, e)
  BY <1>2 DEF SearchFits, ResultsFit, SameRequest, SameFinds, Wanted, Before, Reranking
<1>6. EndFits(q) /\ LogFits(q, l, f)
  BY <1>2 DEF SearchFits, EndFits, LogFits, SameFinds
<1>7. UsageFits(q, u, f)
  BY <1>2 DEF SearchFits, UsageFits, RowFits, Asked, Reranking
<1> QED
  BY <1>2, <1>3, <1>4, <1>5, <1>6, <1>7 DEF SearchFits

\* The attempt ends.
LEMMA ObserveFits ==
  ASSUME NEW r, NEW e, NEW l, NEW u, NEW f \in BOOLEAN, NEW f2 \in BOOLEAN, f => f2,
         SearchFits(r, e, l, u, f), r.pc = "call",
         NEW a \in {"succeeded", "rate_limited", "timeout", "failed"}, NEW b \in BOOLEAN,
         NEW q, q = ObserveOf(r, a, b)
  PROVE  SearchFits(q, e, l, u, f2)
<1>1. r \in SearchRec /\ a \in Attempts
  BY DEF SearchFits, Attempts
<1>2. /\ q \in SearchRec /\ q.pc = "observe" /\ q.attempt = a /\ q.sent = r.sent
      /\ SameRequest(q, r) /\ SameFinds(q, r)
      /\ q.results = r.results /\ q.code = r.code /\ q.status = r.status
      /\ q.cancelled = r.cancelled
  BY <1>1, ObserveIs
<1>3. GenFits(q, e) /\ FilterFits(q)
  BY <1>2 DEF SearchFits, GenFits, FilterFits, SameRequest, Under
<1>4. CandidatesFit(q) /\ Crowding(q)
  BY <1>2 DEF SearchFits, CandidatesFit, Crowding, SameFinds, Before, Reranking
<1>5. ResultsFit(q, e)
  BY <1>2 DEF SearchFits, ResultsFit, SameRequest, SameFinds, Wanted, Before, Reranking
<1>6. EndFits(q) /\ LogFits(q, l, f2)
  BY <1>2 DEF SearchFits, EndFits, LogFits, SameFinds
<1>7. ~r.cancelled
  BY DEF SearchFits, EndFits
<1>8. UsageFits(q, u, f2)
  BY <1>2, <1>7 DEF SearchFits, UsageFits, RowFits, Asked, Reranking
<1> QED
  BY <1>2, <1>3, <1>4, <1>5, <1>6, <1>8 DEF SearchFits

\* The observer begins.
LEMMA BegunFits ==
  ASSUME NEW r, NEW e, NEW l, NEW u, NEW f, SearchFits(r, e, l, u, f), r.pc = "observe",
         NEW u2, u2.row = <<>>, u2.task = "running", NEW q, q = GotoOf(r, "report")
  PROVE  SearchFits(q, e, l, u2, f)
<1>1. r \in SearchRec /\ "report" \in Pcs
  BY DEF SearchFits, Pcs, Before
<1>2. /\ q \in SearchRec /\ q.pc = "report"
      /\ SameRequest(q, r) /\ SameFinds(q, r) /\ SameCall(q, r)
      /\ q.results = r.results /\ q.code = r.code /\ q.status = r.status
      /\ q.degraded = r.degraded /\ q.cancelled = r.cancelled
  BY <1>1, GotoIs
<1>3. GenFits(q, e) /\ FilterFits(q)
  BY <1>2 DEF SearchFits, GenFits, FilterFits, SameRequest, Under
<1>4. CandidatesFit(q) /\ Crowding(q)
  BY <1>2 DEF SearchFits, CandidatesFit, Crowding, SameFinds, Before, Reranking
<1>5. ResultsFit(q, e)
  BY <1>2 DEF SearchFits, ResultsFit, SameRequest, SameFinds, Wanted, Before, Reranking
<1>6. EndFits(q) /\ LogFits(q, l, f)
  BY <1>2 DEF SearchFits, EndFits, LogFits, SameFinds
<1>7. UsageFits(q, u2, f)
  BY <1>2 DEF SearchFits, UsageFits, RowFits, SameCall, Asked, Reranking, ObserverState
<1> QED
  BY <1>2, <1>3, <1>4, <1>5, <1>6, <1>7 DEF SearchFits

\* The report is over, or there was no room for it: an attempt that was cut off
\* or did not succeed ends the search.
LEMMA ReportedFits ==
  ASSUME NEW r, NEW e, NEW l, NEW u, NEW f \in BOOLEAN, NEW f2 \in BOOLEAN, f => f2, NEW u2,
         SearchFits(r, e, l, u, f), r.pc \in {"observe", "report"},
         u2.task \in {"done", "cut", "left", "full"}, RowFits(r, u2, f2),
         NEW q, q = IF r.cancelled THEN EndOf(r, "failed", "cancelled")
                    ELSE IF r.attempt # "succeeded" THEN EndOf(r, "failed", "embedding")
                    ELSE GotoOf(r, "info")
  PROVE  SearchFits(q, e, l, u2, f2)
<1>1. r \in SearchRec
  BY DEF SearchFits
<1>2. /\ q \in SearchRec
      /\ SameRequest(q, r) /\ SameFinds(q, r) /\ SameCall(q, r)
      /\ q.results = r.results /\ q.degraded = r.degraded /\ q.cancelled = r.cancelled
      /\ q.pc \in {"log", "info"}
      /\ q.pc = "log" => q.status = "failed"
      /\ q.pc = "log" /\ r.cancelled => q.code = "cancelled"
      /\ q.pc = "log" /\ ~r.cancelled => q.code = "embedding" /\ r.attempt # "succeeded"
      /\ q.pc = "info" => /\ q.status = r.status /\ q.code = r.code
                          /\ ~r.cancelled /\ r.attempt = "succeeded"
  <2>1. CASE r.cancelled
    <3>1. q = EndOf(r, "failed", "cancelled")
      BY <2>1
    <3>2. /\ q \in SearchRec /\ q.pc = "log" /\ q.status = "failed" /\ q.code = "cancelled"
          /\ SameRequest(q, r) /\ SameFinds(q, r) /\ SameCall(q, r)
          /\ q.results = r.results /\ q.degraded = r.degraded /\ q.cancelled = r.cancelled
      BY <1>1, <3>1, EndIs DEF Codes
    <3> QED
      BY <2>1, <3>2
  <2>2. CASE ~r.cancelled /\ r.attempt # "succeeded"
    BY <1>1, <2>2, EndIs DEF Codes
  <2>3. CASE ~r.cancelled /\ r.attempt = "succeeded"
    BY <1>1, <2>3, GotoIs DEF Pcs, Before
  <2> QED
    BY <2>1, <2>2, <2>3
<1>3. r.visible = <<>> /\ r.results = <<>> /\ r.offered = {} /\ l = <<>> /\ r.sent
  BY DEF SearchFits, ResultsFit, CandidatesFit, LogFits, UsageFits, Asked, Before
<1>4. r.status = "failed" /\ r.code = "none"
  BY DEF SearchFits, EndFits
<1>5. GenFits(q, e) /\ FilterFits(q)
  BY <1>2, <1>4 DEF SearchFits, GenFits, FilterFits, SameRequest, Under
<1>6. CandidatesFit(q) /\ Crowding(q)
  BY <1>2, <1>3 DEF CandidatesFit, Crowding, SameFinds
<1>7. ResultsFit(q, e)
  BY <1>2, <1>3, Nothing DEF ResultsFit, SameFinds, Before, Reranking
<1>8. EndFits(q) /\ LogFits(q, l, f2)
  BY <1>2, <1>3, <1>4 DEF EndFits, LogFits, SameFinds
<1>9. UsageFits(q, u2, f2)
  <2>1. r.attempt # "none" /\ (r.attempt = "cancelled" => r.cancelled)
    BY <1>3 DEF SearchFits, UsageFits
  <2> QED
    BY <1>1, <1>2, <1>3, <2>1 DEF UsageFits, RowFits, SameCall, Asked, Reranking, ObserverState
<1> QED
  BY <1>2, <1>5, <1>6, <1>7, <1>8, <1>9 DEF SearchFits

-----------------------------------------------------------------------------
(* The candidates: how many are asked for, which are kept, which returned. *)

LEMMA MinOfTwo ==
  ASSUME NEW a \in Nat, NEW b \in Nat
  PROVE  Min({a, b}) \in Nat /\ Min({a, b}) <= a /\ Min({a, b}) <= b /\ Min({a, b}) \in {a, b}
<1>1. \E x \in {a, b} : \A y \in {a, b} : x <= y
  OBVIOUS
<1>2. Min({a, b}) \in {a, b} /\ \A y \in {a, b} : Min({a, b}) <= y
  BY <1>1 DEF Min
<1> QED BY <1>2

LEMMA MaxOfTwo ==
  ASSUME NEW a \in Nat, NEW b \in Nat
  PROVE  Max({a, b}) \in Nat
<1>1. \E x \in {a, b} : \A y \in {a, b} : x >= y
  OBVIOUS
<1>2. Max({a, b}) \in {a, b}
  BY <1>1 DEF Max
<1> QED BY <1>2

LEMMA LimitIs ==
  ASSUME NEW k \in Nat
  PROVE  CandidateLimit(k) \in Nat
<1>1. k * Factor \in Nat /\ Floor \in Nat /\ Ceiling \in Nat
  BY RetrievalAssumption
<1>2. Max({k * Factor, Floor}) \in Nat
  BY <1>1, MaxOfTwo
<1> QED
  BY <1>1, <1>2, MinOfTwo DEF CandidateLimit

\* A finite index of finitely many documents.
LEMMA PointsFinite == IsFiniteSet(Points)
<1>1. ASSUME NEW g \in Generations, NEW d \in Docs
      PROVE  IsFiniteSet(PointsOf(g, d))
  <2>1. Chunks[d] \in Nat
    BY VectorIndexAssumption
  <2>2. IsFiniteSet(1 .. Chunks[d])
    BY <2>1, FS_Interval
  <2>3. [k \in 1 .. Chunks[d] |-> <<g, d, k>>] \in Surjection(1 .. Chunks[d], PointsOf(g, d))
    BY DEF PointsOf, Surjection
  <2> QED
    BY <2>2, <2>3, FS_Surjection
<1> DEFINE Shelf(g) == {PointsOf(g, d) : d \in Docs}
           Shelves == {UNION Shelf(g) : g \in Generations}
<1>2. ASSUME NEW g \in Generations
      PROVE  IsFiniteSet(UNION Shelf(g))
  <2>1. [d \in Docs |-> PointsOf(g, d)] \in Surjection(Docs, Shelf(g))
    BY DEF Surjection
  <2>2. IsFiniteSet(Shelf(g))
    BY <2>1, FS_Surjection, VectorIndexAssumption
  <2>3. \A T \in Shelf(g) : IsFiniteSet(T)
    BY <1>1
  <2> QED
    BY <2>2, <2>3, FS_UNION
<1>3. IsFiniteSet(UNION Shelves)
  <2>1. [g \in Generations |-> UNION Shelf(g)] \in Surjection(Generations, Shelves)
    BY DEF Surjection
  <2>2. IsFiniteSet(Shelves)
    BY <2>1, FS_Surjection, VectorIndexAssumption
  <2>3. \A T \in Shelves : IsFiniteSet(T)
    BY <1>2
  <2> QED
    BY <2>2, <2>3, FS_UNION
<1>4. \A p \in Points : p \in UNION Shelves
  <2> SUFFICES ASSUME NEW p \in Points
               PROVE  p \in UNION Shelves
    OBVIOUS
  <2>1. PICK g \in Generations, d \in Docs : p \in PointsOf(g, d)
    BY DEF Points
  <2>2. p \in UNION Shelf(g)
    BY <2>1
  <2> QED
    BY <2>2
<1>5. Points \in SUBSET (UNION Shelves)
  BY <1>4, Zenon
<1> HIDE DEF Shelves
<1> QED
  BY <1>3, <1>5, FS_Subset

\* The first k of a sequence.
LEMMA FirstIs ==
  ASSUME NEW v \in Seq(Points), NEW k \in Nat \ {0}, IsInjective(v)
  PROVE  /\ FirstOf(v, k) \in Seq(Points) /\ IsInjective(FirstOf(v, k))
         /\ ToSet(FirstOf(v, k)) \subseteq ToSet(v)
         /\ Len(FirstOf(v, k)) = Min({k, Len(v)}) /\ Len(FirstOf(v, k)) <= k
         /\ v # <<>> => FirstOf(v, k) # <<>>
<1>1. PICK n : n = Min({k, Len(v)})
  OBVIOUS
<1>2. n \in Nat /\ n <= k /\ n <= Len(v) /\ (v # <<>> => n > 0)
  BY <1>1, MinOfTwo
<1>3. PICK w : w = SubSeq(v, 1, n)
  OBVIOUS
<1>4. w \in Seq(Points) /\ Len(w) = n /\ \A i \in 1 .. n : w[i] = v[i]
  BY <1>2, <1>3
<1>5. IsInjective(w)
  BY <1>2, <1>4 DEF IsInjective
<1>6. ToSet(w) \subseteq ToSet(v)
  BY <1>2, <1>4 DEF ToSet
<1>7. v # <<>> => w # <<>>
  BY <1>2, <1>4
<1> QED
  BY <1>1, <1>2, <1>3, <1>4, <1>5, <1>6, <1>7 DEF FirstOf

Rank(S, x) == Cardinality({y \in S : y <= x})

\* Ranks are positions, and tell the members of a set apart.
LEMMA Ranks ==
  ASSUME NEW S \in SUBSET Nat, IsFiniteSet(S)
  PROVE  /\ \A x \in S : Rank(S, x) \in 1 .. Cardinality(S)
         /\ \A x, y \in S : x < y => Rank(S, x) < Rank(S, y)
         /\ \A x, y \in S : Rank(S, x) = Rank(S, y) => x = y
         /\ \A i \in 1 .. Cardinality(S) : \E x \in S : Rank(S, x) = i
<1> DEFINE n == Cardinality(S)
           Up(x) == {y \in S : y <= x}
<1>0. n \in Nat
  BY FS_CardinalityType
<1>1. ASSUME NEW x \in S
      PROVE  IsFiniteSet(Up(x)) /\ Rank(S, x) \in 1 .. n /\ x \in Up(x)
  <2>1. Up(x) \in SUBSET S /\ x \in Up(x)
    OBVIOUS
  <2>2. IsFiniteSet(Up(x)) /\ Cardinality(Up(x)) <= n
    BY <2>1, FS_Subset
  <2>3. Cardinality(Up(x)) \in Nat /\ Cardinality(Up(x)) # 0
    BY <2>1, <2>2, FS_CardinalityType, FS_EmptySet
  <2> QED
    BY <1>0, <2>1, <2>2, <2>3 DEF Rank
<1>2. ASSUME NEW x \in S, NEW y \in S, x < y
      PROVE  Rank(S, x) < Rank(S, y)
  <2>0. x \in Nat /\ y \in Nat /\ \A z \in S : z \in Nat
    OBVIOUS
  <2>1. Up(x) \in SUBSET Up(y) /\ y \in Up(y) /\ y \notin Up(x)
    <3>1. \A z \in S : z <= x => z <= y
      BY <1>2, <2>0
    <3>2. y <= y /\ ~(y <= x)
      BY <1>2, <2>0
    <3> QED
      BY <3>1, <3>2
  <2>2. Cardinality(Up(x)) <= Cardinality(Up(y)) /\ Cardinality(Up(x)) # Cardinality(Up(y))
    BY <1>1, <2>1, FS_Subset
  <2>3. Rank(S, x) \in Nat /\ Rank(S, y) \in Nat
    <3> HIDE DEF n, Up
    <3> QED BY <1>0, <1>1
  <2> QED
    BY <2>2, <2>3 DEF Rank
<1>3. ASSUME NEW x \in S, NEW y \in S, Rank(S, x) = Rank(S, y)
      PROVE  x = y
  <2>1. Rank(S, x) \in Nat
    <3> HIDE DEF n, Up
    <3> QED BY <1>0, <1>1
  <2>2. ~(x < y) /\ ~(y < x)
    BY <1>2, <1>3, <2>1
  <2> QED
    BY <2>2
<1>4. \A i \in 1 .. n : \E x \in S : Rank(S, x) = i
  <2> DEFINE f == [x \in S |-> Rank(S, x)]
  <2>1. f \in [S -> 1 .. n]
    BY <1>1
  <2>2. f \in Injection(S, 1 .. n)
    BY <1>3, <2>1 DEF Injection, IsInjective
  <2>3. IsFiniteSet(1 .. n) /\ Cardinality(1 .. n) = n
    BY <1>0, FS_Interval
  <2>4. f \in Surjection(S, 1 .. n)
    BY <2>2, <2>3, FS_Injection
  <2> QED
    BY <2>4 DEF Surjection
<1> QED
  BY <1>1, <1>2, <1>3, <1>4

\* Those of the positions of v that are in S, in their order.
Chosen(v, S) ==
  [k \in 1 .. Cardinality(S) |-> v[CHOOSE i \in S : Cardinality({j \in S : j <= i}) = k]]

LEMMA ChosenIs ==
  ASSUME NEW v \in Seq(Points), NEW S \in SUBSET (1 .. Len(v)), IsInjective(v)
  PROVE  /\ Chosen(v, S) \in Seq(Points) /\ IsInjective(Chosen(v, S))
         /\ Cardinality(S) \in Nat /\ Len(Chosen(v, S)) = Cardinality(S)
         /\ \A p \in ToSet(Chosen(v, S)) : \E i \in S : p = v[i]
<1>0. S \in SUBSET Nat /\ IsFiniteSet(S) /\ Cardinality(S) \in Nat
  <2>1. IsFiniteSet(1 .. Len(v))
    BY FS_Interval
  <2>2. IsFiniteSet(S)
    BY <2>1, FS_Subset
  <2> QED
    BY <2>2, FS_CardinalityType
<1> DEFINE n == Cardinality(S)
           w == Chosen(v, S)
           Pos(k) == CHOOSE i \in S : Rank(S, i) = k
<1>1. \A k \in 1 .. n : \E i \in S : Rank(S, i) = k
  BY <1>0, Ranks
<1>2. \A k \in 1 .. n : Pos(k) \in S /\ Rank(S, Pos(k)) = k
  BY <1>1
<1>3. \A k \in 1 .. n : w[k] = v[Pos(k)]
  BY DEF Chosen, Rank
<1>4. DOMAIN w = 1 .. n
  BY DEF Chosen
<1> HIDE DEF Pos
<1>5. \A k \in 1 .. n : w[k] \in Points
  <2>1. \A i \in S : v[i] \in Points
    OBVIOUS
  <2> QED
    BY <1>2, <1>3, <2>1, Zenon
<1>6. w \in [1 .. n -> Points]
  <2>1. w = [k \in 1 .. n |-> w[k]]
    BY <1>4 DEF Chosen
  <2> QED
    BY <1>5, <2>1
<1>7. w \in Seq(Points) /\ Len(w) = n
  <2> HIDE DEF w, n
  <2> QED
    BY <1>0, <1>4, <1>6 DEF n
<1>8. IsInjective(w)
  <2>1. ASSUME NEW a \in 1 .. n, NEW b \in 1 .. n, w[a] = w[b]
        PROVE  a = b
    <3>1. v[Pos(a)] = v[Pos(b)] /\ Pos(a) \in 1 .. Len(v) /\ Pos(b) \in 1 .. Len(v)
      BY <1>2, <1>3, <2>1
    <3>2. Pos(a) = Pos(b)
      BY <3>1 DEF IsInjective
    <3> QED
      BY <1>2, <3>2
  <2> QED
    BY <1>4, <2>1 DEF IsInjective
<1>9. \A p \in ToSet(w) : \E i \in S : p = v[i]
  BY <1>2, <1>3, <1>4 DEF ToSet
<1> QED
  BY <1>0, <1>7, <1>8, <1>9

\* Of the candidates as many can be shown as were asked for, or all there are,
\* unless those that cannot be shown outnumber what is asked for in excess.
LEMMA Enough ==
  ASSUME NEW v \in Seq(Points), IsInjective(v), NEW O \in SUBSET Points, ToSet(v) \subseteq O,
         NEW sh \in SUBSET O, NEW S, S = {i \in DOMAIN v : v[i] \in sh},
         NEW lim \in Nat, NEW k \in Nat, Len(v) = Min({lim, Cardinality(O)}),
         Cardinality(O \ sh) <= lim - k
  PROVE  Cardinality(S) >= k \/ Cardinality(S) >= Cardinality(sh)
<1>1. IsFiniteSet(O)
  BY PointsFinite, FS_Subset
<1>2. /\ IsFiniteSet(O \ sh) /\ IsFiniteSet(sh)
      /\ Cardinality(O \ sh) \in Nat /\ Cardinality(sh) \in Nat /\ Cardinality(O) \in Nat
      /\ Cardinality(O \ sh) = Cardinality(O) - Cardinality(O \cap sh)
  BY <1>1, FS_Subset, FS_Difference, FS_CardinalityType
<1>3. O \cap sh = sh
  OBVIOUS
<1> DEFINE D == 1 .. Len(v)
           R == D \ S
<1>4. DOMAIN v = D /\ Len(v) \in Nat
  OBVIOUS
<1>5. IsFiniteSet(D) /\ Cardinality(D) = Len(v)
  BY <1>4, FS_Interval
<1>6. D \cap S = S /\ S \in SUBSET D
  BY <1>4
<1>7. /\ IsFiniteSet(R) /\ Cardinality(R) = Len(v) - Cardinality(S)
      /\ Cardinality(S) \in Nat /\ Cardinality(R) \in Nat
  <2>1. IsFiniteSet(S) /\ IsFiniteSet(R)
    BY <1>5, <1>6, FS_Subset, FS_Difference
  <2>2. Cardinality(S) \in Nat /\ Cardinality(R) \in Nat
    BY <2>1, FS_CardinalityType
  <2>3. Cardinality(R) = Cardinality(D) - Cardinality(D \cap S)
    BY <1>5, FS_Difference
  <2> HIDE DEF D, R
  <2> QED
    BY <1>5, <1>6, <2>1, <2>2, <2>3
<1>8. Cardinality(R) <= Cardinality(O \ sh)
  <2> DEFINE h == [i \in R |-> v[i]]
  <2>1. \A i \in R : v[i] \in O \ sh
    BY <1>4 DEF ToSet
  <2>2. \A i, j \in R : v[i] = v[j] => i = j
    BY <1>4 DEF IsInjective
  <2> HIDE DEF R
  <2>3. h \in Injection(R, O \ sh)
    BY <2>1, <2>2 DEF Injection, IsInjective
  <2> QED
    BY <1>2, <2>3, FS_Injection
<1>9. Len(v) = lim \/ Len(v) = Cardinality(O)
  BY <1>2, MinOfTwo
<1>10. PICK a, b, c, m, n : /\ a = Cardinality(O) /\ b = Cardinality(sh) /\ c = Cardinality(O \ sh)
                           /\ m = Cardinality(S) /\ n = Cardinality(R)
  OBVIOUS
<1>11. /\ a \in Nat /\ b \in Nat /\ c \in Nat /\ m \in Nat /\ n \in Nat
       /\ c = a - b /\ n = Len(v) - m /\ n <= c /\ c <= lim - k
       /\ Len(v) = lim \/ Len(v) = a
  BY <1>2, <1>3, <1>7, <1>8, <1>9, <1>10
<1>12. m >= k \/ m >= b
  BY <1>4, <1>11
<1> QED
  BY <1>10, <1>12

\* The server has answered.
LEMMA QueryFits ==
  ASSUME NEW r, NEW e, NEW l, NEW u, NEW f, SearchFits(r, e, l, u, f),
         r.pc = "query", NEW O \in SUBSET Points,
         \A p \in O : p[1] = r.gen /\ (r.filter = {} \/ DocOf(p) \in r.filter),
         NEW v \in Seq(Points), IsInjective(v), ToSet(v) \subseteq O,
         Len(v) = Min({CandidateLimit(r.req.topK), Cardinality(O)}),
         NEW q, q = QueryOf(r, v, O)
  PROVE  SearchFits(q, e, l, u, f)
<1>1. r \in SearchRec
  BY DEF SearchFits
<1>2. /\ q \in SearchRec /\ q.pc = "recheck" /\ q.candidates = v /\ q.offered = O
      /\ SameRequest(q, r) /\ SameCall(q, r) /\ q.visible = r.visible
      /\ q.results = r.results /\ q.code = r.code /\ q.status = r.status
      /\ q.degraded = r.degraded /\ q.cancelled = r.cancelled
  BY <1>1, QueryIs
<1>3. GenFits(q, e) /\ FilterFits(q)
  BY <1>2 DEF SearchFits, GenFits, FilterFits, SameRequest, Under
<1>4. \A p \in O : Wanted(q, p)
  <2>1. r.filter \subseteq r.req.docs /\ (r.filter = {} => r.req.docs = {})
    BY DEF SearchFits, FilterFits, Under
  <2> QED
    BY <1>2, <2>1 DEF Wanted, SameRequest
<1>5. CandidatesFit(q) /\ Crowding(q)
  BY <1>2, <1>4 DEF CandidatesFit, Crowding, SameRequest, Before
<1>6. ResultsFit(q, e)
  BY <1>2, Nothing DEF SearchFits, ResultsFit, Before, Reranking
<1>7. EndFits(q) /\ LogFits(q, l, f)
  BY <1>2 DEF SearchFits, EndFits, LogFits
<1>8. UsageFits(q, u, f)
  BY <1>2 DEF SearchFits, UsageFits, RowFits, SameCall, Asked, Reranking
<1> QED
  BY <1>2, <1>3, <1>5, <1>6, <1>7, <1>8 DEF SearchFits

LEMMA RequestIs ==
  ASSUME NEW x \in Requests
  PROVE  x.topK \in Nat \ {0} /\ x.docs \in SUBSET Docs /\ x.rerank \in BOOLEAN
BY RetrievalAssumption, Zenon DEF SearchRequest

KeptOf(r, V) == {i \in DOMAIN r.candidates : DocOf(r.candidates[i]) \in V}

ShownOf(r, V) == {p \in r.offered : DocOf(p) \in V}

\* v may be shown: it was seen and is wanted, and is enough where the points in
\* sh are all that could be shown.
SeenWell(r, e, v, sh) ==
  /\ v \in Seq(Points) /\ IsInjective(v) /\ sh \in SUBSET Points
  /\ \A p \in ToSet(v) : <<r.gen, DocOf(p)>> \in e.visible /\ Wanted(r, p)
  /\ Cardinality(r.offered \ sh) <= CandidateLimit(r.req.topK) - r.req.topK =>
       Len(v) >= r.req.topK \/ Len(v) >= Cardinality(sh)

\* What the search has seen of its candidates: V are the documents of its
\* generation that can be seen.
LEMMA SeenFits ==
  ASSUME NEW r, NEW e, NEW l, NEW u, NEW f, SearchFits(r, e, l, u, f), r.pc = "recheck",
         NEW V, \A d \in V : <<r.gen, d>> \in e.visible,
         NEW S, S = KeptOf(r, V), NEW sh, sh = ShownOf(r, V),
         NEW v, v = Chosen(r.candidates, S)
  PROVE  SeenWell(r, e, v, sh)
<1>0. /\ S = {i \in DOMAIN r.candidates : DocOf(r.candidates[i]) \in V}
      /\ sh = {p \in r.offered : DocOf(p) \in V}
  BY DEF KeptOf, ShownOf
<1>1. r \in SearchRec
  BY DEF SearchFits
<1>2. r.candidates \in Seq(Points) /\ r.offered \in SUBSET Points
  BY <1>1, Zenon DEF SearchRec
<1>3. /\ IsInjective(r.candidates) /\ ToSet(r.candidates) \subseteq r.offered
      /\ Len(r.candidates) = Min({CandidateLimit(r.req.topK), Cardinality(r.offered)})
      /\ \A p \in r.offered : Wanted(r, p)
  BY DEF SearchFits, CandidatesFit
<1>4. S \in SUBSET (1 .. Len(r.candidates)) /\ DOMAIN r.candidates = 1 .. Len(r.candidates)
  BY <1>0, <1>2
<1>5. /\ v \in Seq(Points) /\ IsInjective(v) /\ Len(v) = Cardinality(S)
      /\ \A p \in ToSet(v) : \E i \in S : p = r.candidates[i]
  BY <1>2, <1>3, <1>4, ChosenIs
<1>6. ASSUME NEW p \in ToSet(v)
      PROVE  <<r.gen, DocOf(p)>> \in e.visible /\ Wanted(r, p)
  <2>1. PICK i \in S : p = r.candidates[i]
    BY <1>5
  <2>2. p \in ToSet(r.candidates) /\ DocOf(p) \in V
    BY <1>0, <2>1 DEF ToSet
  <2> QED
    BY <1>3, <2>2
<1>7. sh \in SUBSET r.offered
  BY <1>0
<1>8. S = {i \in DOMAIN r.candidates : r.candidates[i] \in sh}
  BY <1>0, <1>3 DEF ToSet
<1>9. r.req.topK \in Nat \ {0}
  BY RequestIs DEF SearchFits, GenFits
<1>10. CandidateLimit(r.req.topK) \in Nat
  BY <1>9, LimitIs
<1>11. ASSUME Cardinality(r.offered \ sh) <= CandidateLimit(r.req.topK) - r.req.topK
       PROVE  Len(v) >= r.req.topK \/ Len(v) >= Cardinality(sh)
  <2>1. Cardinality(S) >= r.req.topK \/ Cardinality(S) >= Cardinality(sh)
    BY <1>2, <1>3, <1>7, <1>8, <1>9, <1>10, <1>11, Enough
  <2> QED
    BY <1>5, <2>1
<1> QED
  BY <1>2, <1>5, <1>6, <1>7, <1>11 DEF SeenWell

\* The search is answered, rejected for want of a reranker, or goes to it.
LEMMA RecheckFits ==
  ASSUME NEW r, NEW e, NEW l, NEW u, NEW f, SearchFits(r, e, l, u, f), r.pc = "recheck",
         NEW v, NEW sh, SeenWell(r, e, v, sh),
         NEW q,
         \/ ~r.req.rerank /\ q = DoneOf(SeenOf(r, v, sh), FirstOf(v, r.req.topK))
         \/ r.req.rerank /\ ~r.reranker /\ q = EndOf(SeenOf(r, v, sh), "rejected", "noReranker")
         \/ /\ r.req.rerank /\ r.reranker /\ v = <<>>
            /\ q = DoneOf(SeenOf(r, v, sh), FirstOf(v, r.req.topK))
         \/ /\ r.req.rerank /\ r.reranker /\ v # <<>>
            /\ q = GotoOf(SeenOf(r, v, sh), "rerankRuntime")
  PROVE  SearchFits(q, e, l, u, f)
<1>0. /\ v \in Seq(Points) /\ IsInjective(v) /\ sh \in SUBSET Points
      /\ \A p \in ToSet(v) : <<r.gen, DocOf(p)>> \in e.visible /\ Wanted(r, p)
      /\ Cardinality(r.offered \ sh) <= CandidateLimit(r.req.topK) - r.req.topK =>
           Len(v) >= r.req.topK \/ Len(v) >= Cardinality(sh)
  BY DEF SeenWell
<1>1. r \in SearchRec /\ r.req \in Requests
  BY DEF SearchFits, GenFits
<1>2. PICK k : k = SeenOf(r, v, sh)
  OBVIOUS
<1>3. /\ k \in SearchRec /\ k.visible = v /\ k.shown = sh /\ k.offered = r.offered
      /\ SameRequest(k, r) /\ SameCall(k, r) /\ k.results = r.results
      /\ k.degraded = r.degraded /\ k.cancelled = r.cancelled
      /\ k.status = r.status /\ k.code = r.code
  BY <1>0, <1>1, <1>2, SeenIs
<1>4. PICK res : res = FirstOf(v, r.req.topK)
  OBVIOUS
<1>5. r.req.topK \in Nat \ {0}
  BY <1>1, RequestIs
<1>6. /\ res \in Seq(Points) /\ IsInjective(res) /\ ToSet(res) \subseteq ToSet(v)
      /\ Len(res) = Min({r.req.topK, Len(v)}) /\ Len(res) <= r.req.topK
      /\ v # <<>> => res # <<>>
  BY <1>0, <1>4, <1>5, FirstIs
<1>7. /\ r.results = <<>> /\ l = <<>> /\ r.sent /\ r.attempt = "succeeded" /\ ~r.cancelled
      /\ r.status = "failed" /\ r.code = "none"
  BY DEF SearchFits, ResultsFit, LogFits, UsageFits, EndFits, Before, Asked
<1>8. r.gen \in Generations /\ r.gen \in e.active /\ r.filter \subseteq r.req.docs
      /\ (r.filter = {} => r.req.docs = {})
  BY DEF SearchFits, GenFits, FilterFits, Under
<1>9. u.task \in ObserverState /\ u.task # "none" /\ u.task # "running"
  BY <1>7 DEF SearchFits, UsageFits
<1>10. RowFits(r, u, f)
  BY DEF SearchFits, UsageFits
<1>11. CASE /\ ~r.req.rerank \/ v = <<>>
            /\ q = DoneOf(k, res)
            /\ ~r.req.rerank \/ r.reranker
  <2>1. /\ q \in SearchRec
        /\ q.pc = "log" /\ q.status = "succeeded" /\ q.code = "ok" /\ q.results = res
        /\ SameRequest(q, k) /\ SameFinds(q, k) /\ SameCall(q, k)
        /\ q.degraded = k.degraded /\ q.cancelled = k.cancelled
    BY <1>3, <1>6, <1>11, DoneIs
  <2>2. GenFits(q, e) /\ FilterFits(q)
    BY <1>1, <1>3, <1>8, <2>1 DEF GenFits, FilterFits, SameRequest, Under
  <2>3. CandidatesFit(q)
    BY <2>1 DEF CandidatesFit, Before
  <2>4. ResultsFit(q, e)
    BY <1>0, <1>3, <1>6, <2>1 DEF ResultsFit, SameRequest, SameFinds, Wanted, Before, Reranking
  <2>5. Crowding(q)
    <3>1. q.req = r.req /\ q.offered = r.offered /\ q.shown = sh /\ q.results = res
      BY <1>3, <2>1 DEF SameRequest, SameFinds
    <3>2. ASSUME Len(v) >= r.req.topK \/ Len(v) >= Cardinality(sh)
          PROVE  Len(res) >= Min({r.req.topK, Cardinality(sh)})
      <4>1. IsFiniteSet(sh)
        BY <1>0, PointsFinite, FS_Subset
      <4>2. Cardinality(sh) \in Nat
        BY <4>1, FS_CardinalityType
      <4>3. Len(v) \in Nat
        BY <1>0
      <4>4. /\ Min({r.req.topK, Cardinality(sh)}) <= r.req.topK
            /\ Min({r.req.topK, Cardinality(sh)}) <= Cardinality(sh)
            /\ Min({r.req.topK, Cardinality(sh)}) \in Nat
        BY <1>5, <4>2, MinOfTwo
      <4>5. Min({r.req.topK, Len(v)}) \in {r.req.topK, Len(v)}
        BY <1>5, <4>3, MinOfTwo
      <4> QED
        BY <1>5, <1>6, <3>2, <4>2, <4>3, <4>4, <4>5
    <3> QED
      BY <1>0, <3>1, <3>2 DEF Crowding
  <2>6. EndFits(q) /\ LogFits(q, l, f)
    BY <1>3, <1>6, <1>7, <2>1 DEF EndFits, LogFits, SameFinds
  <2>7. UsageFits(q, u, f)
    BY <1>3, <1>7, <1>9, <1>10, <2>1 DEF UsageFits, RowFits, SameCall, Asked, Reranking
  <2> QED
    BY <2>1, <2>2, <2>3, <2>4, <2>5, <2>6, <2>7 DEF SearchFits
<1>12. CASE ~r.reranker /\ q = EndOf(k, "rejected", "noReranker")
  <2>1. /\ q \in SearchRec
        /\ q.pc = "log" /\ q.status = "rejected" /\ q.code = "noReranker"
        /\ SameRequest(q, k) /\ SameFinds(q, k) /\ SameCall(q, k) /\ q.results = k.results
        /\ q.degraded = k.degraded /\ q.cancelled = k.cancelled
    BY <1>3, <1>12, EndIs DEF Codes
  <2>2. GenFits(q, e) /\ FilterFits(q)
    BY <1>1, <1>3, <1>8, <2>1 DEF GenFits, FilterFits, SameRequest, Under
  <2>3. CandidatesFit(q) /\ Crowding(q)
    BY <2>1 DEF CandidatesFit, Before, Crowding
  <2>4. ResultsFit(q, e)
    BY <1>0, <1>3, <1>7, <2>1, Nothing
       DEF ResultsFit, SameRequest, SameFinds, Wanted, Before, Reranking
  <2>5. EndFits(q) /\ LogFits(q, l, f)
    BY <1>3, <1>7, <1>12, <2>1 DEF EndFits, LogFits, SameFinds, SameRequest
  <2>6. UsageFits(q, u, f)
    BY <1>3, <1>7, <1>9, <1>10, <2>1 DEF UsageFits, RowFits, SameCall, Asked, Reranking
  <2> QED
    BY <2>1, <2>2, <2>3, <2>4, <2>5, <2>6 DEF SearchFits
<1>13. CASE r.req.rerank /\ r.reranker /\ v # <<>> /\ q = GotoOf(k, "rerankRuntime")
  <2>1. /\ q \in SearchRec /\ q.pc = "rerankRuntime"
        /\ SameRequest(q, k) /\ SameFinds(q, k) /\ SameCall(q, k) /\ q.results = k.results
        /\ q.code = k.code /\ q.status = k.status
        /\ q.degraded = k.degraded /\ q.cancelled = k.cancelled
    BY <1>3, <1>13, GotoIs DEF Pcs, Reranking
  <2>2. GenFits(q, e) /\ FilterFits(q)
    BY <1>1, <1>3, <1>8, <2>1 DEF GenFits, FilterFits, SameRequest, Under
  <2>3. CandidatesFit(q) /\ Crowding(q)
    BY <2>1 DEF CandidatesFit, Before, Crowding
  <2>4. ResultsFit(q, e)
    <3>1. /\ q.visible = v /\ q.gen = r.gen /\ q.req = r.req /\ q.reranker = r.reranker
          /\ q.results = <<>>
      BY <1>3, <1>7, <2>1 DEF SameRequest, SameFinds
    <3>2. \A p \in ToSet(q.visible) : <<q.gen, DocOf(p)>> \in e.visible /\ Wanted(q, p)
      BY <1>0, <3>1 DEF Wanted
    <3> QED
      BY <1>0, <1>13, <2>1, <3>1, <3>2, Nothing DEF ResultsFit, Before
  <2>5. EndFits(q) /\ LogFits(q, l, f)
    BY <1>3, <1>7, <2>1 DEF EndFits, LogFits, SameFinds
  <2>6. UsageFits(q, u, f)
    BY <1>3, <1>7, <1>9, <1>10, <2>1 DEF UsageFits, RowFits, SameCall, Asked, Reranking
  <2> QED
    BY <2>1, <2>2, <2>3, <2>4, <2>5, <2>6 DEF SearchFits
<1> QED
  BY <1>2, <1>4, <1>11, <1>12, <1>13

\* A search is answered: with nothing, where none of its documents can be seen,
\* or with candidates in the reranker's order or in their own.
LEMMA AnswerFits ==
  ASSUME NEW r, NEW e, NEW l, NEW u, NEW f \in BOOLEAN, NEW f2 \in BOOLEAN, f => f2,
         SearchFits(r, e, l, u, f), NEW res \in Seq(Points), NEW b \in BOOLEAN,
         (r.pc = "documents" /\ res = <<>>) \/ (r.pc \in Reranking /\ res # <<>>),
         IsInjective(res), ToSet(res) \subseteq ToSet(r.visible),
         res # <<>> => Len(res) <= r.req.topK,
         NEW q, q = AnswerOf(r, res, b)
  PROVE  SearchFits(q, e, l, u, f2)
<1>1. r \in SearchRec
  BY DEF SearchFits
<1>2. /\ q \in SearchRec
      /\ q.pc = "log" /\ q.status = "succeeded" /\ q.code = "ok" /\ q.results = res
      /\ SameRequest(q, r) /\ SameFinds(q, r) /\ SameCall(q, r) /\ q.cancelled = r.cancelled
  BY <1>1, AnswerIs
<1>3. GenFits(q, e) /\ FilterFits(q)
  BY <1>2 DEF SearchFits, GenFits, FilterFits, SameRequest, Under, Reranking
<1>4. CandidatesFit(q)
  BY <1>2 DEF CandidatesFit, Before
<1>5. ResultsFit(q, e)
  BY <1>2 DEF SearchFits, ResultsFit, SameRequest, SameFinds, Wanted, Before, Reranking
<1>6. r.offered = {} \/ r.req.rerank
  BY DEF SearchFits, CandidatesFit, ResultsFit, Before
<1>7. Crowding(q)
  BY <1>2, <1>6 DEF Crowding, SameFinds, SameRequest
<1>8. ~r.cancelled /\ l = <<>> /\ (r.pc = "documents" => r.visible = <<>>)
  BY DEF SearchFits, EndFits, LogFits, ResultsFit, Reranking, Before
<1>9. EndFits(q) /\ LogFits(q, l, f2)
  BY <1>2, <1>8 DEF EndFits, LogFits, SameFinds
<1>10. UsageFits(q, u, f2)
  BY <1>2, <1>8 DEF SearchFits, UsageFits, RowFits, SameCall, Asked, Reranking
<1> QED
  BY <1>2, <1>3, <1>4, <1>5, <1>7, <1>9, <1>10 DEF SearchFits

\* The search is in the query log, or a call failed.
LEMMA LoggedFits ==
  ASSUME NEW r, NEW e, NEW l, NEW u, NEW f \in BOOLEAN, NEW f2 \in BOOLEAN, f => f2, NEW l2,
         SearchFits(r, e, l, u, f), r.pc = "log",
         \/ l2 = Append(l, [status |-> r.status, degraded |-> r.degraded])
         \/ l2 = l /\ f2,
         NEW q, q = GotoOf(r, "done")
  PROVE  SearchFits(q, e, l2, u, f2)
<1>1. r \in SearchRec
  BY DEF SearchFits
<1>2. /\ q \in SearchRec /\ q.pc = "done"
      /\ SameRequest(q, r) /\ SameFinds(q, r) /\ SameCall(q, r)
      /\ q.results = r.results /\ q.code = r.code /\ q.status = r.status
      /\ q.degraded = r.degraded /\ q.cancelled = r.cancelled
  BY <1>1, GotoIs DEF Pcs
<1>3. GenFits(q, e) /\ FilterFits(q)
  BY <1>2 DEF SearchFits, GenFits, FilterFits, SameRequest, Under
<1>4. CandidatesFit(q) /\ Crowding(q)
  BY <1>2 DEF SearchFits, CandidatesFit, Crowding, SameFinds, SameRequest, Before
<1>5. ResultsFit(q, e)
  BY <1>2 DEF SearchFits, ResultsFit, SameRequest, SameFinds, Wanted, Before, Reranking
<1>6. EndFits(q)
  BY <1>2 DEF SearchFits, EndFits, SameFinds, SameRequest
<1>7. LogFits(q, l2, f2)
  <2>1. l = <<>>
    BY DEF SearchFits, LogFits
  <2>2. PICK row : row = [status |-> r.status, degraded |-> r.degraded]
    OBVIOUS
  <2>3. row = [status |-> q.status, degraded |-> q.degraded]
    BY <1>2, <2>2
  <2>4. (l2 = <<row>> /\ l2 # <<>>) \/ (l2 = <<>> /\ f2)
    BY <2>1, <2>2
  <2> QED
    BY <1>2, <2>3, <2>4 DEF LogFits
<1>8. UsageFits(q, u, f2)
  BY <1>2 DEF SearchFits, UsageFits, RowFits, SameCall, Asked, Reranking
<1> QED
  BY <1>2, <1>3, <1>4, <1>5, <1>6, <1>7, <1>8 DEF SearchFits

\* A search that is cancelled before its end goes to the query log.
GoneOf(r) == [EndOf(r, "failed", "cancelled") EXCEPT !.cancelled = TRUE]

LEMMA GoneIs ==
  ASSUME NEW r \in SearchRec, NEW q, q = GoneOf(r)
  PROVE  q.pc = "log"
<1>1. PICK k : k = EndOf(r, "failed", "cancelled")
  OBVIOUS
<1>2. k \in SearchRec /\ k.pc = "log"
  BY <1>1, EndIs DEF Codes
<1>3. q = [k EXCEPT !.cancelled = TRUE]
  BY <1>1 DEF GoneOf
<1> QED
  BY <1>2, <1>3, Zenon DEF SearchRec

LEMMA GoneFits ==
  ASSUME NEW r, NEW e, NEW l, NEW u, NEW f, SearchFits(r, e, l, u, f),
         Under(r), r.pc \notin {"call", "observe"}, ~r.cancelled, NEW u2,
         \/ r.pc # "report" /\ u2 = u
         \/ /\ r.pc = "report" /\ u2.task \in {"cut", "left"}
            /\ u2.row = <<>> \/ (u2.row = <<r.attempt>> /\ u2.task = "cut"),
         NEW q, q = GoneOf(r)
  PROVE  SearchFits(q, e, l, u2, f)
<1>1. r \in SearchRec
  BY DEF SearchFits
<1>2. PICK k : k = EndOf(r, "failed", "cancelled")
  OBVIOUS
<1>3. /\ k \in SearchRec /\ k.pc = "log" /\ k.status = "failed" /\ k.code = "cancelled"
      /\ SameRequest(k, r) /\ SameFinds(k, r) /\ SameCall(k, r)
      /\ k.results = r.results /\ k.degraded = r.degraded
  BY <1>1, <1>2, EndIs DEF Codes
<1>4. q = [k EXCEPT !.cancelled = TRUE]
  BY <1>2 DEF GoneOf
<1>5. q \in SearchRec /\ q.cancelled = TRUE
  BY <1>3, <1>4, Zenon DEF SearchRec
<1>6. q.pc = k.pc /\ q.status = k.status /\ q.code = k.code /\ q.results = k.results
  BY <1>3, <1>4, Zenon DEF SearchRec
<1>7. SameRequest(q, k) /\ SameFinds(q, k) /\ SameCall(q, k)
  BY <1>3, <1>4, Zenon DEF SearchRec, SameRequest, SameFinds, SameCall
<1>8. SameRequest(q, r) /\ SameFinds(q, r) /\ SameCall(q, r)
  BY <1>3, <1>7, Zenon DEF SameRequest, SameFinds, SameCall
<1>9. GenFits(q, e) /\ FilterFits(q)
  BY <1>3, <1>6, <1>8 DEF SearchFits, GenFits, FilterFits, SameRequest, Under
<1>10. CandidatesFit(q) /\ Crowding(q)
  BY <1>3, <1>6 DEF CandidatesFit, Crowding, Before
<1>11. ResultsFit(q, e)
  BY <1>3, <1>6, <1>8
     DEF SearchFits, ResultsFit, SameRequest, SameFinds, Wanted, Before, Reranking, Under
<1>12. l = <<>>
  BY DEF SearchFits, LogFits, Under
<1>13. EndFits(q) /\ LogFits(q, l, f)
  BY <1>3, <1>5, <1>6, <1>12 DEF EndFits, LogFits
<1>14. UsageFits(q, u2, f)
  <2>1. r.pc \in Pcs
    BY <1>1, Zenon DEF SearchRec
  <2>2. r.sent => r.attempt # "none" /\ r.attempt # "cancelled"
    BY <2>1 DEF SearchFits, UsageFits, Asked, Under, Pcs, Before, Reranking
  <2>3. q.attempt = r.attempt /\ q.sent = r.sent
    BY <1>8 DEF SameCall
  <2>4. u2.task \in ObserverState /\ (u2.task # "none" <=> r.sent) /\ u2.task # "running"
    BY DEF SearchFits, UsageFits, Asked, Under, ObserverState
  <2>5. r.sent \/ r.attempt # "cancelled"
    BY DEF SearchFits, UsageFits
  <2>6. RowFits(q, u2, f)
    <3>1. CASE r.pc # "report" /\ u2 = u
      BY <1>5, <2>2, <2>3, <2>4, <3>1 DEF SearchFits, UsageFits, RowFits
    <3>2. CASE r.pc = "report"
      <4>1. r.sent
        BY <3>2 DEF SearchFits, UsageFits, Asked
      <4> QED
        BY <1>5, <2>2, <2>3, <3>2, <4>1 DEF RowFits
    <3> QED
      BY <3>1, <3>2
  <2> QED
    BY <1>3, <1>5, <1>6, <2>2, <2>3, <2>4, <2>6 DEF UsageFits, Asked, Reranking
<1> QED
  BY <1>5, <1>9, <1>10, <1>11, <1>13, <1>14 DEF SearchFits

\* The attempt under way is cut off, and will be reported as such.
LEMMA CutOffFits ==
  ASSUME NEW r, NEW e, NEW l, NEW u, NEW f, SearchFits(r, e, l, u, f),
         r.pc = "call", NEW q, q = CutOffOf(r)
  PROVE  SearchFits(q, e, l, u, f)
<1>1. r \in SearchRec
  BY DEF SearchFits
<1>2. /\ q \in SearchRec /\ q.pc = "observe" /\ q.cancelled = TRUE /\ q.attempt = "cancelled"
      /\ SameRequest(q, r) /\ SameFinds(q, r) /\ q.sent = r.sent
      /\ q.results = r.results /\ q.code = r.code /\ q.status = r.status
  BY <1>1, CutOffIs
<1>3. GenFits(q, e) /\ FilterFits(q)
  BY <1>2 DEF SearchFits, GenFits, FilterFits, SameRequest, Under
<1>4. CandidatesFit(q) /\ Crowding(q)
  BY <1>2 DEF SearchFits, CandidatesFit, Crowding, SameFinds, Before
<1>5. ResultsFit(q, e)
  BY <1>2 DEF SearchFits, ResultsFit, SameRequest, SameFinds, Wanted, Before, Reranking
<1>6. EndFits(q) /\ LogFits(q, l, f)
  BY <1>2 DEF SearchFits, EndFits, LogFits
<1>7. UsageFits(q, u, f)
  BY <1>2 DEF SearchFits, UsageFits, RowFits, Asked, Reranking
<1> QED
  BY <1>2, <1>3, <1>4, <1>5, <1>6, <1>7 DEF SearchFits

\* The cancellation comes between the attempt and its report.
LEMMA NotedFits ==
  ASSUME NEW r, NEW e, NEW l, NEW u, NEW f, SearchFits(r, e, l, u, f),
         r.pc = "observe", NEW q, q = NotedOf(r)
  PROVE  SearchFits(q, e, l, u, f)
<1>1. r \in SearchRec
  BY DEF SearchFits
<1>2. /\ q \in SearchRec /\ q.pc = "observe" /\ q.cancelled = TRUE
      /\ SameRequest(q, r) /\ SameFinds(q, r) /\ SameCall(q, r)
      /\ q.results = r.results /\ q.code = r.code /\ q.status = r.status
  BY <1>1, NotedIs
<1>3. GenFits(q, e) /\ FilterFits(q)
  BY <1>2 DEF SearchFits, GenFits, FilterFits, SameRequest, Under
<1>4. CandidatesFit(q) /\ Crowding(q)
  BY <1>2 DEF SearchFits, CandidatesFit, Crowding, SameFinds, Before
<1>5. ResultsFit(q, e)
  BY <1>2 DEF SearchFits, ResultsFit, SameRequest, SameFinds, Wanted, Before, Reranking
<1>6. EndFits(q) /\ LogFits(q, l, f)
  BY <1>2 DEF SearchFits, EndFits, LogFits
<1>7. UsageFits(q, u, f)
  BY <1>2 DEF SearchFits, UsageFits, RowFits, SameCall, Asked, Reranking
<1> QED
  BY <1>2, <1>3, <1>4, <1>5, <1>6, <1>7 DEF SearchFits

\* An observer that was left behind ends.
LEMMA LateFits ==
  ASSUME NEW r, NEW e, NEW l, NEW u, NEW f, SearchFits(r, e, l, u, f), u.task = "left",
         NEW u2, u2.task = "cut", u2.row = <<>> \/ u2.row = <<r.attempt>>
  PROVE  SearchFits(r, e, l, u2, f)
<1>1. UsageFits(r, u2, f)
  BY DEF SearchFits, UsageFits, RowFits, ObserverState
<1> QED
  BY <1>1 DEF SearchFits

\* The cancellation comes while the query log is written.
LEMMA UnloggedFits ==
  ASSUME NEW r, NEW e, NEW l, NEW u, NEW f, SearchFits(r, e, l, u, f),
         r.pc = "log", r.code # "cancelled", NEW q, q = CancelledOf(r)
  PROVE  SearchFits(q, e, l, u, f)
<1>1. r \in SearchRec
  BY DEF SearchFits
<1>2. /\ q \in SearchRec /\ q.pc = "done" /\ q.cancelled = TRUE
      /\ SameRequest(q, r) /\ SameFinds(q, r) /\ SameCall(q, r)
      /\ q.results = r.results /\ q.code = r.code /\ q.status = r.status
      /\ q.degraded = r.degraded
  BY <1>1, CancelledIs
<1>3. GenFits(q, e) /\ FilterFits(q)
  BY <1>2 DEF SearchFits, GenFits, FilterFits, SameRequest, Under
<1>4. CandidatesFit(q) /\ Crowding(q)
  BY <1>2 DEF SearchFits, CandidatesFit, Crowding, SameFinds, SameRequest, Before
<1>5. ResultsFit(q, e)
  BY <1>2 DEF SearchFits, ResultsFit, SameRequest, SameFinds, Wanted, Before, Reranking
<1>6. l = <<>>
  BY DEF SearchFits, LogFits
<1>7. EndFits(q) /\ LogFits(q, l, f)
  BY <1>2, <1>6 DEF SearchFits, EndFits, LogFits
<1>8. UsageFits(q, u, f)
  BY <1>2 DEF SearchFits, UsageFits, RowFits, SameCall, Asked, Reranking
<1> QED
  BY <1>2, <1>3, <1>4, <1>5, <1>7, <1>8 DEF SearchFits

\* A search that has not begun.
LEMMA NewIs ==
  /\ NewSearch \in SearchRec /\ NewSearch.pc = "idle" /\ NewSearch.filter = {}
  /\ NewSearch.attempt = "none" /\ NewSearch.visible = <<>> /\ NewSearch.results = <<>>
  /\ NewSearch.code = "none" /\ NewSearch.status = "failed" /\ NewSearch.cancelled = FALSE
  /\ NewSearch.offered = {} /\ NewSearch.sent = FALSE
<1>1. <<>> \in Seq(Points) /\ {} \in SUBSET Points /\ {} \in SUBSET Docs
  OBVIOUS
<1>2. NewSearch \in SearchRec
  BY <1>1, Zenon DEF NewSearch, SearchRec, Pcs, Before, Codes, Attempts
<1>3. /\ NewSearch.pc = "idle" /\ NewSearch.filter = {}
      /\ NewSearch.attempt = "none" /\ NewSearch.visible = <<>> /\ NewSearch.results = <<>>
      /\ NewSearch.code = "none" /\ NewSearch.status = "failed"
      /\ NewSearch.offered = {}
  BY DEF NewSearch
<1>4. NewSearch.cancelled = FALSE /\ NewSearch.sent = FALSE
  BY Zenon DEF NewSearch
<1> QED
  BY <1>2, <1>3, <1>4

LEMMA NewFits ==
  ASSUME NEW e, NEW f, NEW u, u.row = <<>>, u.task = "none"
  PROVE  SearchFits(NewSearch, e, <<>>, u, f)
<1>1. PICK q : q = NewSearch
  OBVIOUS
<1>2. /\ q \in SearchRec /\ q.pc = "idle" /\ q.filter = {} /\ q.attempt = "none"
      /\ q.visible = <<>> /\ q.results = <<>> /\ q.code = "none" /\ q.status = "failed"
      /\ q.cancelled = FALSE /\ q.offered = {} /\ q.sent = FALSE
  BY <1>1, NewIs
<1>3. GenFits(q, e) /\ FilterFits(q) /\ CandidatesFit(q) /\ Crowding(q)
  BY <1>2 DEF GenFits, FilterFits, Under, CandidatesFit, Crowding
<1>4. ResultsFit(q, e)
  BY <1>2, Nothing DEF ResultsFit, Reranking
<1>5. EndFits(q) /\ LogFits(q, <<>>, f) /\ UsageFits(q, u, f)
  BY <1>2 DEF EndFits, LogFits, UsageFits, RowFits, Asked, Reranking, ObserverState
<1>6. SearchFits(q, e, <<>>, u, f)
  BY <1>2, <1>3, <1>4, <1>5 DEF SearchFits
<1> QED
  BY <1>1, <1>6

\* A request that is let in, and one that is not.
LEMMA SubmitFits ==
  ASSUME NEW r, NEW e, NEW l, NEW u, NEW f, SearchFits(r, e, l, u, f), r.pc = "idle",
         NEW x \in Requests, NEW q,
         \/ q = [NewSearch EXCEPT !.pc = "target", !.req = x]
         \/ q = [NewSearch EXCEPT !.pc = "log", !.req = x, !.status = "rejected",
                                  !.code = "notFound"]
  PROVE  SearchFits(q, e, l, u, f)
<1>1. l = <<>> /\ u.row = <<>> /\ u.task = "none"
  BY DEF SearchFits, LogFits, UsageFits, RowFits
<1>2. PICK n : n = NewSearch
  OBVIOUS
<1>3. /\ n \in SearchRec /\ n.filter = {} /\ n.attempt = "none" /\ n.visible = <<>>
      /\ n.results = <<>> /\ n.code = "none" /\ n.status = "failed" /\ n.cancelled = FALSE
      /\ n.offered = {} /\ n.sent = FALSE
  BY <1>2, NewIs
<1>4. /\ q \in SearchRec /\ q.req = x /\ q.filter = n.filter /\ q.attempt = n.attempt
      /\ q.visible = n.visible /\ q.results = n.results /\ q.cancelled = n.cancelled
      /\ q.offered = n.offered /\ q.sent = n.sent
      /\ \/ q.pc = "target" /\ q.status = n.status /\ q.code = n.code
         \/ q.pc = "log" /\ q.status = "rejected" /\ q.code = "notFound"
  <2>0. "target" \in Pcs /\ "log" \in Pcs /\ "notFound" \in Codes
    BY DEF Pcs, Before, Codes
  <2>1. CASE q = [n EXCEPT !.pc = "target", !.req = x]
    <3>1. q \in SearchRec
      BY <1>3, <2>0, <2>1, Zenon DEF SearchRec
    <3>2. q.req = x /\ q.filter = n.filter /\ q.attempt = n.attempt /\ q.visible = n.visible
      BY <1>3, <2>1, Zenon DEF SearchRec
    <3>3. /\ q.results = n.results /\ q.cancelled = n.cancelled /\ q.offered = n.offered
          /\ q.sent = n.sent /\ q.pc = "target" /\ q.status = n.status /\ q.code = n.code
      BY <1>3, <2>1, Zenon DEF SearchRec
    <3> QED
      BY <3>1, <3>2, <3>3
  <2>2. CASE q = [n EXCEPT !.pc = "log", !.req = x, !.status = "rejected", !.code = "notFound"]
    <3>1. q \in SearchRec
      BY <1>3, <2>0, <2>2, Zenon DEF SearchRec
    <3>2. q.req = x /\ q.filter = n.filter /\ q.attempt = n.attempt /\ q.visible = n.visible
      BY <1>3, <2>2, Zenon DEF SearchRec
    <3>3. /\ q.results = n.results /\ q.cancelled = n.cancelled /\ q.offered = n.offered
          /\ q.sent = n.sent /\ q.pc = "log" /\ q.status = "rejected" /\ q.code = "notFound"
      BY <1>3, <2>2, Zenon DEF SearchRec
    <3> QED
      BY <3>1, <3>2, <3>3
  <2> QED
    BY <1>2, <2>1, <2>2
<1>5. /\ q \in SearchRec /\ q.req = x /\ q.filter = {} /\ q.attempt = "none"
      /\ q.visible = <<>> /\ q.results = <<>> /\ ~q.cancelled
      /\ q.offered = {} /\ ~q.sent
      /\ \/ q.pc = "target" /\ q.status = "failed" /\ q.code = "none"
         \/ q.pc = "log" /\ q.status = "rejected" /\ q.code = "notFound"
  BY <1>3, <1>4
<1>6. GenFits(q, e) /\ FilterFits(q) /\ CandidatesFit(q) /\ Crowding(q)
  BY <1>5 DEF GenFits, FilterFits, Under, CandidatesFit, Crowding
<1>7. ResultsFit(q, e)
  BY <1>5, Nothing DEF ResultsFit, Reranking
<1>8. EndFits(q) /\ LogFits(q, l, f) /\ UsageFits(q, u, f)
  BY <1>1, <1>5 DEF EndFits, LogFits, UsageFits, RowFits, Asked, Reranking, ObserverState
<1> QED
  BY <1>5, <1>6, <1>7, <1>8 DEF SearchFits

\* What happens elsewhere: more has been visible and served, and calls may have
\* failed.
LEMMA StillFits ==
  ASSUME NEW r, NEW e, NEW l, NEW u, NEW f \in BOOLEAN, SearchFits(r, e, l, u, f),
         NEW e2, e.visible \subseteq e2.visible, e.active \subseteq e2.active,
         NEW f2 \in BOOLEAN, f => f2
  PROVE  SearchFits(r, e2, l, u, f2)
<1>1. GenFits(r, e2)
  BY DEF SearchFits, GenFits
<1>2. ResultsFit(r, e2)
  BY DEF SearchFits, ResultsFit
<1>3. LogFits(r, l, f2) /\ UsageFits(r, u, f2)
  BY DEF SearchFits, LogFits, UsageFits, RowFits
<1> QED
  BY <1>1, <1>2, <1>3 DEF SearchFits

-----------------------------------------------------------------------------
(* The searches together.                                                  *)

FaultsFit == faults \in (MaxFaults - plan.faults) .. MaxFaults

\* There are no more observers than there may be, and where a report was dropped
\* that many others had begun.
ObserversFit ==
  /\ Cardinality(InFlight) <= MaxObservers
  /\ \A s \in Searches : observers[s] = "full" => Cardinality(Begun \ {s}) >= MaxObservers

\* The usage row of a search and the task that writes it.
Told(s) == [row |-> usage[s], task |-> observers[s]]

\* What is remembered of a search under way is up to date.
UpToDate(s) ==
  Under(search[s]) =>
    /\ activeGen \in ever[s].active
    /\ \A g \in Generations : \A d \in Visible(g) : <<g, d>> \in ever[s].visible

RecordTypes ==
  /\ search \in [Searches -> SearchRec]
  /\ usage = [s \in Searches |-> usage[s]] /\ queryLog = [s \in Searches |-> queryLog[s]]
  /\ observers = [s \in Searches |-> observers[s]]

SearchOK(s) == SearchFits(search[s], ever[s], queryLog[s], Told(s), CallFailed)

SearchInv ==
  /\ IndexInv /\ MetadataTypes /\ FaultsFit /\ PermitsExact /\ ObserversFit /\ RecordTypes
  /\ \A s \in Searches : UpToDate(s) /\ SearchOK(s)

LEMMA Remembered ==
  ASSUME Remember, NEW s \in Searches
  PROVE  /\ UpToDate(s)'
         /\ ever[s].visible \subseteq ever'[s].visible /\ ever[s].active \subseteq ever'[s].active
<1>1. CASE search'[s].pc \in {"idle", "log", "done"}
  BY <1>1 DEF Remember, UpToDate, Under
<1>2. CASE search'[s].pc \notin {"idle", "log", "done"}
  <2>1. ever'[s] = [visible |-> ever[s].visible \cup VisiblePairs',
                    active |-> ever[s].active \cup {activeGen'}]
    BY <1>2 DEF Remember
  <2>2. \A g \in Generations : \A d \in Visible(g)' : <<g, d>> \in VisiblePairs'
    <3> SUFFICES ASSUME NEW g \in Generations, NEW d \in Visible(g)'
                 PROVE  <<g, d>> \in VisiblePairs'
      OBVIOUS
    <3>1. <<g, d>> \in {g} \X Visible(g)'
      OBVIOUS
    <3> QED
      BY <3>1, Zenon DEF VisiblePairs
  <2> QED
    BY <2>1, <2>2 DEF UpToDate
<1> QED
  BY <1>1, <1>2

LEMMA FailedNow ==
  ASSUME SearchInv, UNCHANGED plan
  PROVE  /\ CallFailed \in BOOLEAN /\ CallFailed' \in BOOLEAN
         /\ plan.faults \in Nat /\ MaxFaults \in Nat /\ faults \in Int
         /\ faults' \in Int /\ faults <= faults' => (CallFailed => CallFailed')
         /\ faults' = faults + 1 => CallFailed'
<1>1. /\ plan.faults \in Nat /\ MaxFaults \in Nat /\ faults \in Int
      /\ faults >= MaxFaults - plan.faults
  BY PlansAssumption, VectorIndexAssumption DEF SearchInv, MetadataTypes, FaultsFit
<1> QED
  BY <1>1 DEF CallFailed

\* Calls fail, and that is all that happens to the index.
Outside ==
  /\ UNCHANGED <<collections, prepare, removal, writer, metadataVars>>
  /\ faults' = faults \/ (faults < MaxFaults /\ faults' = faults + 1)

LEMMA OutsideKeeps ==
  ASSUME SearchInv, Outside, UNCHANGED plan
  PROVE  /\ IndexInv' /\ MetadataTypes' /\ ForeignKept
         /\ (CallFailed => CallFailed') /\ (faults' = faults + 1 => CallFailed')
         /\ faults' \in (MaxFaults - plan.faults) .. MaxFaults
         /\ faults' = faults => (CallFailed' <=> CallFailed)
<1>1. Undisturbed' => Undisturbed
  BY DEF Outside, metadataVars, Undisturbed
<1>2. IndexInv' /\ ForeignKept
  BY <1>1, IndexSame DEF SearchInv, Outside
<1>3. MetadataTypes'
  BY DEF SearchInv, MetadataTypes, Outside, metadataVars
<1>4. plan.faults \in Nat /\ MaxFaults \in Nat /\ faults \in (MaxFaults - plan.faults) .. MaxFaults
  BY PlansAssumption, VectorIndexAssumption DEF SearchInv, MetadataTypes, FaultsFit
<1>5. /\ (CallFailed => CallFailed') /\ (faults' = faults + 1 => CallFailed')
      /\ faults' \in (MaxFaults - plan.faults) .. MaxFaults
      /\ faults' = faults => (CallFailed' <=> CallFailed)
  BY <1>4 DEF Outside, CallFailed
<1> QED
  BY <1>2, <1>3, <1>5

\* A search takes a step.
LEMMA SearchKeeps ==
  ASSUME SearchInv, NEW s \in Searches, NEW q, Become(s, q), Remember, UNCHANGED plan, Outside,
         NEW o2, observers' = [observers EXCEPT ![s] = o2], ObserversFit',
         NEW u2, usage' = [usage EXCEPT ![s] = u2],
         NEW l2, queryLog' = [queryLog EXCEPT ![s] = l2],
         SearchFits(q, ever[s], l2, [row |-> u2, task |-> o2], CallFailed'), PermitsExact'
  PROVE  SearchInv' /\ ForeignKept
<1>1. /\ IndexInv' /\ MetadataTypes' /\ ForeignKept
      /\ CallFailed => CallFailed'
      /\ faults' \in (MaxFaults - plan.faults) .. MaxFaults
  BY OutsideKeeps
<1>2. FaultsFit'
  BY <1>1 DEF FaultsFit
<1>3. q \in SearchRec
  BY DEF SearchFits
<1>4. search' \in [Searches -> SearchRec] /\ search'[s] = q
      /\ \A x \in Searches \ {s} : search'[x] = search[x]
  BY <1>3 DEF Become, SearchInv, RecordTypes
<1>5. /\ observers' = [x \in Searches |-> observers'[x]]
      /\ usage' = [x \in Searches |-> usage'[x]] /\ queryLog' = [x \in Searches |-> queryLog'[x]]
      /\ usage'[s] = u2 /\ queryLog'[s] = l2 /\ observers'[s] = o2
      /\ \A x \in Searches \ {s} : /\ usage'[x] = usage[x] /\ queryLog'[x] = queryLog[x]
                                  /\ observers'[x] = observers[x]
  BY DEF SearchInv, RecordTypes
<1>6. Told(s)' = [row |-> u2, task |-> o2] /\ \A x \in Searches \ {s} : Told(x)' = Told(x)
  BY <1>5 DEF Told
<1>7. RecordTypes'
  BY <1>4, <1>5 DEF RecordTypes
<1>8. CallFailed \in BOOLEAN /\ CallFailed' \in BOOLEAN
  BY FailedNow
<1>9. ASSUME NEW x \in Searches
      PROVE  UpToDate(x)' /\ SearchOK(x)'
  <2>1. /\ UpToDate(x)'
        /\ ever[x].visible \subseteq ever'[x].visible /\ ever[x].active \subseteq ever'[x].active
    BY Remembered
  <2>2. CASE x = s
    <3>1. SearchFits(q, ever'[x], l2, Told(s)', CallFailed')
      BY <1>6, <1>8, <2>1, <2>2, StillFits
    <3> QED
      BY <1>4, <1>5, <2>1, <2>2, <3>1 DEF SearchOK
  <2>3. CASE x # s
    <3>1. SearchFits(search[x], ever[x], queryLog[x], Told(x), CallFailed)
      BY DEF SearchInv, SearchOK
    <3>2. SearchFits(search[x], ever'[x], queryLog[x], Told(x), CallFailed')
      BY <1>1, <1>8, <2>1, <3>1, StillFits
    <3> QED
      BY <1>4, <1>5, <1>6, <2>1, <2>3, <3>2 DEF SearchOK
  <2> QED
    BY <2>2, <2>3
<1> QED
  BY <1>1, <1>2, <1>7, <1>9 DEF SearchInv

\* The observers, as reports begin and end.
LEMMA ObserversFollow ==
  ASSUME SearchInv, NEW s \in Searches, NEW o2, observers' = [observers EXCEPT ![s] = o2],
         \/ o2 = observers[s]
         \/ /\ observers[s] = "none" /\ o2 = "running"
            /\ Cardinality(InFlight) < MaxObservers
         \/ /\ observers[s] = "none" /\ o2 = "full"
            /\ Cardinality(InFlight) >= MaxObservers
         \/ observers[s] \in {"running", "left"} /\ o2 \in {"done", "cut", "left"}
  PROVE  ObserversFit'
<1>1. /\ observers'[s] = o2 /\ \A x \in Searches \ {s} : observers'[x] = observers[x]
      /\ observers = [x \in Searches |-> observers[x]]
  BY DEF SearchInv, RecordTypes
<1>2. /\ IsFiniteSet(InFlight) /\ Cardinality(InFlight) \in Nat
      /\ IsFiniteSet(Begun) /\ IsFiniteSet(Begun') /\ IsFiniteSet(InFlight')
      /\ Cardinality(InFlight') \in Nat /\ MaxObservers \in Nat
  <2>1. InFlight \in SUBSET Searches /\ Begun \in SUBSET Searches
    BY DEF InFlight, Begun
  <2>2. InFlight' \in SUBSET Searches /\ Begun' \in SUBSET Searches
    BY DEF InFlight, Begun
  <2> QED
    BY <2>1, <2>2, RetrievalAssumption, FS_Subset, FS_CardinalityType
<1>3. /\ Cardinality(InFlight) <= MaxObservers
      /\ \A x \in Searches : observers[x] = "full" => Cardinality(Begun \ {x}) >= MaxObservers
  BY DEF SearchInv, ObserversFit
<1>4. ASSUME NEW x \in Searches, Cardinality(Begun \ {x}) >= MaxObservers,
             Begun \subseteq Begun'
      PROVE  Cardinality(Begun' \ {x}) >= MaxObservers
  <2>1. Begun \ {x} \in SUBSET (Begun' \ {x}) /\ Begun \ {x} \in SUBSET Begun
    BY <1>4
  <2>2. IsFiniteSet(Begun' \ {x}) /\ IsFiniteSet(Begun \ {x})
    BY <1>2, <2>1, FS_RemoveElement, FS_Subset
  <2>3. Cardinality(Begun \ {x}) <= Cardinality(Begun' \ {x})
    BY <2>1, <2>2, FS_Subset
  <2>4. Cardinality(Begun \ {x}) \in Nat /\ Cardinality(Begun' \ {x}) \in Nat
    BY <2>2, FS_CardinalityType
  <2> QED
    BY <1>2, <1>4, <2>3, <2>4
<1>5. CASE o2 = observers[s]
  <2>1. observers' = observers
    BY <1>1, <1>5
  <2> QED
    BY <1>3, <2>1 DEF ObserversFit, InFlight, Begun
<1>6. CASE /\ observers[s] = "none" /\ o2 = "running"
           /\ Cardinality(InFlight) < MaxObservers
  <2>1. InFlight' = InFlight \cup {s} /\ s \notin InFlight /\ Begun \subseteq Begun'
    BY <1>1, <1>6 DEF InFlight, Begun
  <2>2. Cardinality(InFlight') = Cardinality(InFlight) + 1
    BY <1>2, <2>1, FS_AddElement
  <2>3. \A x \in Searches : observers'[x] = "full" => observers[x] = "full"
    BY <1>1, <1>6
  <2>4. \A x \in Searches : observers'[x] = "full" => Cardinality(Begun' \ {x}) >= MaxObservers
    BY <1>3, <1>4, <2>1, <2>3
  <2> QED
    BY <1>2, <1>6, <2>2, <2>4 DEF ObserversFit
<1>7. CASE /\ observers[s] = "none" /\ o2 = "full"
           /\ Cardinality(InFlight) >= MaxObservers
  <2>1. InFlight' = InFlight /\ Begun' = Begun
    BY <1>1, <1>7 DEF InFlight, Begun
  <2>2. Cardinality(Begun \ {s}) >= MaxObservers
    <3>1. InFlight \in SUBSET (Begun \ {s})
      BY <1>7 DEF InFlight, Begun
    <3>2. IsFiniteSet(Begun \ {s})
      BY <1>2, FS_RemoveElement
    <3>3. Cardinality(InFlight) <= Cardinality(Begun \ {s}) /\ Cardinality(Begun \ {s}) \in Nat
      BY <3>1, <3>2, FS_Subset, FS_CardinalityType
    <3> QED
      BY <1>2, <1>7, <3>3
  <2>3. \A x \in Searches : observers'[x] = "full" => Cardinality(Begun \ {x}) >= MaxObservers
    BY <1>1, <1>3, <2>2
  <2> QED
    BY <1>3, <2>1, <2>3 DEF ObserversFit
<1>8. CASE observers[s] \in {"running", "left"} /\ o2 \in {"done", "cut", "left"}
  <2>1. InFlight' \in SUBSET InFlight /\ Begun' = Begun
    BY <1>1, <1>8 DEF InFlight, Begun
  <2>2. Cardinality(InFlight') <= Cardinality(InFlight)
    BY <1>2, <2>1, FS_Subset
  <2>3. \A x \in Searches : observers'[x] = "full" => observers[x] = "full"
    BY <1>1, <1>8
  <2> QED
    BY <1>2, <1>3, <2>1, <2>2, <2>3 DEF ObserversFit
<1> QED
  BY <1>5, <1>6, <1>7, <1>8

\* The permits of the reranker, as a search comes and goes.
LEMMA PermitsFollow ==
  ASSUME SearchInv, NEW s \in Searches, NEW q, Become(s, q),
         \/ /\ permits' = permits
            /\ q.pc = "rerankCall" <=> search[s].pc = "rerankCall"
         \/ /\ search[s].pc = "permit" /\ q.pc = "rerankCall"
            /\ permits < MaxRerank /\ permits' = permits + 1
         \/ /\ search[s].pc = "rerankCall" /\ q.pc # "rerankCall"
            /\ permits' = permits - 1
  PROVE  PermitsExact'
<1> DEFINE In == {x \in Searches : search[x].pc = "rerankCall"}
           Now == {x \in Searches : search'[x].pc = "rerankCall"}
<1>1. search'[s] = q /\ \A x \in Searches \ {s} : search'[x] = search[x]
  BY DEF Become, SearchInv, RecordTypes
<1>2. IsFiniteSet(In)
  <2>1. In \in SUBSET Searches
    OBVIOUS
  <2> QED
    BY <2>1, RetrievalAssumption, FS_Subset
<1>3. Cardinality(In) \in Nat /\ permits = Cardinality(In) /\ permits <= MaxRerank
  BY <1>2, FS_CardinalityType DEF SearchInv, PermitsExact
<1>4. MaxRerank \in Nat
  BY RetrievalAssumption
<1>5. CASE permits' = permits /\ (q.pc = "rerankCall" <=> search[s].pc = "rerankCall")
  <2>1. Now = In
    BY <1>1, <1>5
  <2> QED
    BY <1>3, <1>5, <2>1 DEF PermitsExact
<1>6. CASE /\ search[s].pc = "permit" /\ q.pc = "rerankCall"
           /\ permits < MaxRerank /\ permits' = permits + 1
  <2>1. Now = In \cup {s} /\ s \notin In
    BY <1>1, <1>6
  <2>2. Cardinality(Now) = Cardinality(In) + 1
    BY <1>2, <2>1, FS_AddElement
  <2> QED
    BY <1>3, <1>4, <1>6, <2>2 DEF PermitsExact
<1>7. CASE search[s].pc = "rerankCall" /\ q.pc # "rerankCall" /\ permits' = permits - 1
  <2>1. Now = In \ {s} /\ s \in In
    BY <1>1, <1>7
  <2>2. Cardinality(Now) = Cardinality(In) - 1
    BY <1>2, <2>1, FS_RemoveElement
  <2> QED
    BY <1>3, <1>4, <1>7, <2>2 DEF PermitsExact
<1> QED
  BY <1>5, <1>6, <1>7

LEMMA SearchOf ==
  ASSUME SearchInv, NEW s \in Searches
  PROVE  /\ search[s] \in SearchRec /\ UpToDate(s)
         /\ SearchFits(search[s], ever[s], queryLog[s], Told(s), CallFailed)
         /\ queryLog = [queryLog EXCEPT ![s] = queryLog[s]]
         /\ usage = [usage EXCEPT ![s] = usage[s]]
         /\ observers = [observers EXCEPT ![s] = observers[s]]
         /\ Told(s) = [row |-> usage[s], task |-> observers[s]]
         /\ Told(s).row = usage[s] /\ Told(s).task = observers[s]
BY DEF SearchInv, RecordTypes, SearchOK, Told

\* A step that only reads, and one whose call fails.
LEMMA ReadKeeps ==
  ASSUME SearchInv, NEW s \in Searches, NEW q, Become(s, q), Remember, UNCHANGED plan, Reading,
         search[s].pc # "rerankCall", q.pc # "rerankCall",
         SearchFits(q, ever[s], queryLog[s], Told(s), CallFailed)
  PROVE  SearchInv' /\ ForeignKept
<1>1. Outside /\ faults' = faults
  BY DEF Reading, Outside, indexVars
<1>2. CallFailed' <=> CallFailed
  BY <1>1, OutsideKeeps
<1>3. CallFailed \in BOOLEAN /\ CallFailed' \in BOOLEAN
  BY FailedNow
<1>4. SearchFits(q, ever[s], queryLog[s], Told(s), CallFailed')
  BY <1>2, <1>3, StillFits
<1>5. UNCHANGED <<permits, observers, usage, queryLog>>
  BY DEF Reading, Unobserved
<1>6. PermitsExact'
  BY <1>5, PermitsFollow
<1>7. /\ queryLog' = [queryLog EXCEPT ![s] = queryLog[s]]
      /\ usage' = [usage EXCEPT ![s] = usage[s]]
      /\ observers' = [observers EXCEPT ![s] = observers[s]]
      /\ Told(s) = [row |-> usage[s], task |-> observers[s]]
  BY <1>5, SearchOf
<1>8. ObserversFit'
  BY <1>7, ObserversFollow
<1> QED
  BY <1>1, <1>4, <1>6, <1>7, <1>8, SearchKeeps

LEMMA FaultKeeps ==
  ASSUME SearchInv, NEW s \in Searches, NEW q, Become(s, q), Remember, UNCHANGED plan, Fault,
         UNCHANGED <<observers, usage, queryLog>>, PermitsExact',
         SearchFits(q, ever[s], queryLog[s], Told(s), TRUE)
  PROVE  SearchInv' /\ ForeignKept
<1>1. Outside /\ faults' = faults + 1
  BY DEF Fault, Outside
<1>2. CallFailed'
  BY <1>1, OutsideKeeps
<1>3. CallFailed' \in BOOLEAN
  BY FailedNow
<1>4. SearchFits(q, ever[s], queryLog[s], Told(s), CallFailed')
  BY <1>2, <1>3, StillFits
<1>5. /\ queryLog' = [queryLog EXCEPT ![s] = queryLog[s]]
      /\ usage' = [usage EXCEPT ![s] = usage[s]]
      /\ observers' = [observers EXCEPT ![s] = observers[s]]
      /\ Told(s) = [row |-> usage[s], task |-> observers[s]]
  BY SearchOf
<1>6. ObserversFit'
  BY <1>5, ObserversFollow
<1>7. SearchFits(q, ever[s], queryLog[s], [row |-> usage[s], task |-> observers[s]], CallFailed')
  BY <1>4, <1>5
<1> QED
  BY <1>1, <1>5, <1>6, <1>7, SearchKeeps

\* A request arrives.
LEMMA SubmitKeeps ==
  ASSUME SearchInv, NEW s \in Searches, Submit(s), Remember, UNCHANGED plan
  PROVE  SearchInv' /\ ForeignKept
<1>1. PICK x \in Requests :
        Become(s, IF x.allowed THEN [NewSearch EXCEPT !.pc = "target", !.req = x]
                  ELSE [NewSearch EXCEPT !.pc = "log", !.req = x, !.status = "rejected",
                                         !.code = "notFound"])
  BY DEF Submit
<1>2. PICK q : q = IF x.allowed THEN [NewSearch EXCEPT !.pc = "target", !.req = x]
                   ELSE [NewSearch EXCEPT !.pc = "log", !.req = x, !.status = "rejected",
                                          !.code = "notFound"]
  OBVIOUS
<1>3. Become(s, q)
  BY <1>1, <1>2 DEF Become
<1>4. search[s].pc = "idle" /\ Reading
  BY DEF Submit, Reached
<1>5. \/ q = [NewSearch EXCEPT !.pc = "target", !.req = x]
      \/ q = [NewSearch EXCEPT !.pc = "log", !.req = x, !.status = "rejected", !.code = "notFound"]
  BY <1>2
<1>6. SearchFits(q, ever[s], queryLog[s], Told(s), CallFailed)
  BY <1>4, <1>5, SearchOf, SubmitFits
<1>7. q.pc # "rerankCall"
  BY <1>5 DEF NewSearch
<1> QED
  BY <1>3, <1>4, <1>6, <1>7, ReadKeeps

\* A step that fails or rejects the search before its candidates are looked at.
LEMMA FailReads ==
  ASSUME SearchInv, NEW s \in Searches, Remember, UNCHANGED plan, Reading,
         search[s].pc \in {"target", "runtime", "documents", "credential", "info", "query",
                           "recheck"},
         \/ Reject(s, "filter")
         \/ \E c \in {"unavailable", "configuration"} : Fail(s, c)
  PROVE  SearchInv' /\ ForeignKept
<1>1. PICK st, c : /\ Become(s, Ended(s, st, c))
                   /\ \/ st = "rejected" /\ c = "filter"
                      \/ st = "failed" /\ c \in {"unavailable", "configuration"}
  BY DEF Reject, Fail
<1>2. PICK q : q = EndOf(search[s], st, c)
  OBVIOUS
<1>3. Become(s, q)
  BY <1>1, <1>2 DEF Become, Ended, EndOf
<1>4. CallFailed \in BOOLEAN
  BY FailedNow
<1>5. SearchFits(q, ever[s], queryLog[s], Told(s), CallFailed)
  BY <1>1, <1>2, <1>4, SearchOf, FailsFit
<1>6. q.pc = "log"
  BY <1>1, <1>2, SearchOf, EndIs DEF Codes
<1> QED
  BY <1>3, <1>5, <1>6, ReadKeeps

LEMMA FailFaults ==
  ASSUME SearchInv, NEW s \in Searches, Remember, UNCHANGED plan, Fault, Unobserved,
         NEW c, Fail(s, c),
         search[s].pc \in {"target", "runtime", "documents", "credential", "info", "query",
                           "recheck"},
         \/ c \in {"error", "retrieval", "configuration"}
         \/ c = "embedding" /\ search[s].pc = "credential"
  PROVE  SearchInv' /\ ForeignKept
<1>1. PICK q : q = EndOf(search[s], "failed", c)
  OBVIOUS
<1>2. Become(s, q)
  BY <1>1 DEF Become, Fail, Ended, EndOf
<1>3. c \in Codes
  BY DEF Codes
<1>4. search[s].pc = "credential" => ~search[s].sent
  BY SearchOf DEF SearchFits, UsageFits
<1>5. CallFailed \in BOOLEAN
  BY FailedNow
<1>6. SearchFits(q, ever[s], queryLog[s], Told(s), TRUE)
  <2>1. SearchFits(search[s], ever[s], queryLog[s], Told(s), CallFailed)
    BY SearchOf
  <2>2. PICK f2 \in BOOLEAN : f2 = TRUE
    OBVIOUS
  <2>3. SearchFits(q, ever[s], queryLog[s], Told(s), f2)
    BY <1>1, <1>4, <1>5, <2>1, <2>2, FailsFit
  <2> QED
    BY <2>2, <2>3, Zenon
<1>7. q.pc = "log"
  BY <1>1, <1>3, SearchOf, EndIs
<1>8. PermitsExact'
  BY <1>2, <1>7, PermitsFollow DEF Unobserved
<1> QED
  BY <1>2, <1>6, <1>8, FaultKeeps DEF Unobserved

LEMMA GotoKeeps ==
  ASSUME SearchInv, NEW s \in Searches, Remember, UNCHANGED plan, Reading, NEW x, Goto(s, x),
         \/ search[s].pc = "runtime" /\ x = "documents"
         \/ search[s].pc = "runtime" /\ x = "credential" /\ search[s].req.docs = {}
         \/ search[s].pc = "info" /\ x = "query"
         \/ search[s].pc = "rerankRuntime" /\ x = "permit"
  PROVE  SearchInv' /\ ForeignKept
<1>1. PICK q : q = GotoOf(search[s], x)
  OBVIOUS
<1>2. Become(s, q)
  BY <1>1 DEF Goto, Become, GotoOf
<1>3. SearchFits(q, ever[s], queryLog[s], Told(s), CallFailed)
  BY <1>1, SearchOf, GotoFits
<1>4. x \in Pcs
  BY DEF Pcs, Before, Reranking
<1>5. q.pc = x
  BY <1>1, <1>4, SearchOf, GotoIs
<1> QED
  BY <1>2, <1>3, <1>5, ReadKeeps

LEMMA EmptyFits ==
  ASSUME NEW r, NEW e, NEW l, NEW u, NEW f \in BOOLEAN, SearchFits(r, e, l, u, f),
         NEW b \in BOOLEAN, r.pc = "documents", NEW q, q = AnswerOf(r, <<>>, b)
  PROVE  SearchFits(q, e, l, u, f) /\ q.pc = "log"
<1>1. PICK f2 \in BOOLEAN : f2 = f
  OBVIOUS
<1>2. f => f2
  BY <1>1
<1>3. PICK res : res = <<>>
  OBVIOUS
<1>4. res \in Seq(Points)
  BY <1>3
<1>5. IsInjective(res) /\ ToSet(res) = {}
  BY <1>3, Nothing, Zenon
<1>6. ToSet(res) \subseteq ToSet(r.visible)
  BY <1>5
<1>7. q = AnswerOf(r, res, b)
  BY <1>3
<1>8. /\ (r.pc = "documents" /\ res = <<>>) \/ (r.pc \in Reranking /\ res # <<>>)
      /\ res # <<>> => Len(res) <= r.req.topK
  BY <1>3
<1>9. SearchFits(q, e, l, u, f2)
  BY <1>2, <1>4, <1>5, <1>6, <1>7, <1>8, AnswerFits, Zenon
<1>10. r \in SearchRec
  BY DEF SearchFits
<1>11. q.pc = "log"
  BY <1>4, <1>7, <1>10, AnswerIs
<1> QED
  BY <1>1, <1>9, <1>11

LEMMA ReadTargetKeeps ==
  ASSUME SearchInv, NEW s \in Searches, ReadTarget(s), Remember, UNCHANGED plan
  PROVE  SearchInv' /\ ForeignKept
<1>0. search[s].pc = "target" /\ Reading
  BY DEF ReadTarget, Reached
<1>1. CASE Fail(s, "unavailable") \/ Reject(s, "filter")
  BY <1>0, <1>1, FailReads
<1>2. CASE Become(s, [search[s] EXCEPT !.pc = "runtime", !.gen = ActiveTarget.gen,
                                       !.reranker = ActiveTarget.reranker])
  <2>1. ActiveTarget.reranker \in BOOLEAN
    <3>1. ("rerankProfile" \in config) \in BOOLEAN
      OBVIOUS
    <3> QED
      BY <3>1, Zenon DEF ActiveTarget
  <2>2. PICK b \in BOOLEAN : ActiveTarget.reranker = b
    BY <2>1, Zenon
  <2>3. ActiveTarget.gen = activeGen
    BY DEF ActiveTarget
  <2>4. PICK q : q = TargetOf(search[s], activeGen, b)
    OBVIOUS
  <2>5. Become(s, q)
    BY <1>2, <2>2, <2>3, <2>4 DEF Become, TargetOf
  <2>6. activeGen \in Generations /\ activeGen \in ever[s].active
    BY <1>0, SearchOf DEF SearchInv, MetadataTypes, UpToDate, Under
  <2>7. SearchFits(q, ever[s], queryLog[s], Told(s), CallFailed)
    <3>1. SearchFits(search[s], ever[s], queryLog[s], Told(s), CallFailed) /\ b \in BOOLEAN
      BY <2>2, SearchOf
    <3> QED
      BY <1>0, <2>4, <2>6, <3>1, TargetFits
  <2>8. q.pc = "runtime"
    <3>1. search[s] \in SearchRec /\ b \in BOOLEAN
      BY <2>2, SearchOf
    <3> QED
      BY <2>4, <2>6, <3>1, TargetIs
  <2> QED
    BY <1>0, <2>5, <2>7, <2>8, ReadKeeps
<1> QED
  BY <1>1, <1>2 DEF ReadTarget

LEMMA ReadRuntimeKeeps ==
  ASSUME SearchInv, NEW s \in Searches, ReadRuntime(s), Remember, UNCHANGED plan
  PROVE  SearchInv' /\ ForeignKept
<1>0. search[s].pc = "runtime" /\ Reading
  BY DEF ReadRuntime, Reached
<1>1. CASE Fail(s, "unavailable")
  BY <1>0, <1>1, FailReads
<1>2. CASE Goto(s, "credential") /\ search[s].req.docs = {}
  BY <1>0, <1>2, GotoKeeps
<1>3. CASE Goto(s, "documents")
  BY <1>0, <1>3, GotoKeeps
<1> QED
  BY <1>1, <1>2, <1>3 DEF ReadRuntime

LEMMA FilterDocumentsKeeps ==
  ASSUME SearchInv, NEW s \in Searches, FilterDocuments(s), Remember, UNCHANGED plan
  PROVE  SearchInv' /\ ForeignKept
<1>0. search[s].pc = "documents" /\ Reading
  BY DEF FilterDocuments, Reached
<1>1. CASE Answer(s, <<>>, FALSE)
  <2>1. PICK b \in BOOLEAN : b = FALSE
    OBVIOUS
  <2>2. PICK q : q = AnswerOf(search[s], <<>>, b)
    OBVIOUS
  <2>3. Become(s, q)
    BY <1>1, <2>1, <2>2 DEF Answer, Become, AnswerOf, Ended, EndOf
  <2>4. CallFailed \in BOOLEAN
    BY FailedNow
  <2>5. SearchFits(q, ever[s], queryLog[s], Told(s), CallFailed) /\ q.pc = "log"
    <3>1. SearchFits(search[s], ever[s], queryLog[s], Told(s), CallFailed)
      BY SearchOf
    <3> QED
      BY <1>0, <2>2, <2>4, <3>1, EmptyFits
  <2> QED
    BY <1>0, <2>3, <2>5, ReadKeeps
<1>2. CASE /\ VisibleFilter(s) # {}
           /\ Become(s, [search[s] EXCEPT !.pc = "credential", !.filter = VisibleFilter(s)])
  <2>1. PICK F : F = VisibleFilter(s)
    OBVIOUS
  <2>2. F \subseteq search[s].req.docs /\ F # {}
    BY <1>2, <2>1 DEF VisibleFilter
  <2>3. search[s].req \in Requests
    BY <1>0, SearchOf DEF SearchFits, GenFits
  <2>4. F \in SUBSET Docs
    BY <2>2, <2>3, RequestIs
  <2>5. PICK q : q = FilterOf(search[s], F)
    OBVIOUS
  <2>6. Become(s, q)
    BY <1>2, <2>1, <2>5 DEF Become, FilterOf
  <2>7. SearchFits(q, ever[s], queryLog[s], Told(s), CallFailed)
    BY <1>0, <2>2, <2>4, <2>5, SearchOf, FilterKeeps
  <2>8. q.pc = "credential"
    BY <2>4, <2>5, SearchOf, FilterIs
  <2> QED
    BY <1>0, <2>6, <2>7, <2>8, ReadKeeps
<1> QED
  BY <1>1, <1>2 DEF FilterDocuments

LEMMA ReadCredentialKeeps ==
  ASSUME SearchInv, NEW s \in Searches, ReadCredential(s), Remember, UNCHANGED plan
  PROVE  SearchInv' /\ ForeignKept
<1>0. search[s].pc = "credential"
  BY DEF ReadCredential, Reached
<1>1. CASE Become(s, [search[s] EXCEPT !.pc = "call", !.sent = TRUE]) /\ Reading
  <2>1. PICK q : q = CallOf(search[s])
    OBVIOUS
  <2>2. Become(s, q)
    BY <1>1, <2>1 DEF Become, CallOf
  <2>3. SearchFits(q, ever[s], queryLog[s], Told(s), CallFailed)
    BY <1>0, <2>1, SearchOf, CallFits
  <2>4. q.pc = "call"
    <3>1. search[s] \in SearchRec
      BY SearchOf
    <3> QED
      BY <2>1, <3>1, CallIs
  <2> QED
    BY <1>0, <1>1, <2>2, <2>3, <2>4, ReadKeeps
<1>2. CASE Fault /\ Fail(s, "embedding") /\ Unobserved
  BY <1>0, <1>2, FailFaults
<1> QED
  BY <1>1, <1>2 DEF ReadCredential

LEMMA ProviderAnswersKeeps ==
  ASSUME SearchInv, NEW s \in Searches, ProviderAnswers(s), Remember, UNCHANGED plan
  PROVE  SearchInv' /\ ForeignKept
<1>0. search[s].pc = "call"
  BY DEF ProviderAnswers, Reached
<1>1. PICK outcome \in Parsed \cup Refused \cup Unanswered :
        /\ Become(s, [search[s] EXCEPT !.pc = "observe", !.attempt = AttemptStatus(outcome),
                                       !.degraded = outcome = "vectorOnly"])
        /\ IF outcome = "vector" THEN Reading ELSE Fault /\ Unobserved
  BY DEF ProviderAnswers
<1>2. PICK a : a = AttemptStatus(outcome)
  OBVIOUS
<1>3. a \in {"succeeded", "rate_limited", "timeout", "failed"}
  BY <1>2 DEF AttemptStatus, Parsed, Refused, Unanswered
<1>4. PICK b \in BOOLEAN : b = (outcome = "vectorOnly")
  OBVIOUS
<1>5. PICK q : q = ObserveOf(search[s], a, b)
  OBVIOUS
<1>6. Become(s, q)
  BY <1>1, <1>2, <1>4, <1>5, Zenon DEF Become, ObserveOf
<1>7. CallFailed \in BOOLEAN
  BY FailedNow
<1>8. ASSUME NEW f2 \in BOOLEAN, CallFailed => f2
      PROVE  SearchFits(q, ever[s], queryLog[s], Told(s), f2)
  <2>1. SearchFits(search[s], ever[s], queryLog[s], Told(s), CallFailed)
    BY SearchOf
  <2>2. b \in BOOLEAN
    BY <1>4
  <2> QED
    BY <1>0, <1>3, <1>5, <1>7, <1>8, <2>1, <2>2, ObserveFits
<1>9. a \in Attempts
  BY <1>3 DEF Attempts
<1>10. q.pc = "observe"
  <2>1. search[s] \in SearchRec
    BY SearchOf
  <2>2. b \in BOOLEAN
    BY <1>4
  <2> QED
    BY <1>5, <1>9, <2>1, <2>2, ObserveIs
<1>11. CASE Reading
  <2>1. SearchFits(q, ever[s], queryLog[s], Told(s), CallFailed)
    BY <1>7, <1>8
  <2> QED
    BY <1>0, <1>6, <1>10, <1>11, <2>1, ReadKeeps
<1>12. CASE Fault /\ Unobserved
  <2>1. PermitsExact'
    BY <1>0, <1>6, <1>10, <1>12, PermitsFollow DEF Unobserved
  <2>2. SearchFits(q, ever[s], queryLog[s], Told(s), TRUE)
    BY <1>8
  <2> QED
    BY <1>6, <1>12, <2>1, <2>2, FaultKeeps DEF Unobserved
<1> QED
  BY <1>1, <1>11, <1>12

\* What follows the attempt.
LEMMA AfterIs ==
  ASSUME SearchInv, NEW s \in Searches, NEW q, q = AfterAttempt(s)
  PROVE  /\ q = IF search[s].cancelled THEN EndOf(search[s], "failed", "cancelled")
                ELSE IF search[s].attempt # "succeeded" THEN EndOf(search[s], "failed", "embedding")
                ELSE GotoOf(search[s], "info")
         /\ q.pc # "rerankCall"
<1>1. q = IF search[s].cancelled THEN EndOf(search[s], "failed", "cancelled")
          ELSE IF search[s].attempt # "succeeded" THEN EndOf(search[s], "failed", "embedding")
          ELSE GotoOf(search[s], "info")
  BY DEF AfterAttempt, Ended, EndOf, GotoOf
<1>2. q.pc = "log" \/ q.pc = "info"
  BY <1>1, SearchOf, EndIs, GotoIs DEF Codes, Pcs, Before
<1> QED
  BY <1>1, <1>2

\* A step of a report: the task and the row become o2 and u2.
LEMMA ReportKeeps ==
  ASSUME SearchInv, NEW s \in Searches, NEW q, Become(s, q), Remember, UNCHANGED plan, Outside,
         UNCHANGED <<permits, queryLog>>, search[s].pc # "rerankCall", q.pc # "rerankCall",
         NEW u2, usage' = [usage EXCEPT ![s] = u2],
         NEW o2, observers' = [observers EXCEPT ![s] = o2], ObserversFit',
         SearchFits(q, ever[s], queryLog[s], [row |-> u2, task |-> o2], CallFailed')
  PROVE  SearchInv' /\ ForeignKept
<1>1. PermitsExact'
  BY PermitsFollow
<1>2. queryLog' = [queryLog EXCEPT ![s] = queryLog[s]]
  BY SearchOf
<1> QED
  BY <1>1, <1>2, SearchKeeps

LEMMA BeginReportKeeps ==
  ASSUME SearchInv, NEW s \in Searches, BeginReport(s), Remember, UNCHANGED plan
  PROVE  SearchInv' /\ ForeignKept
<1>0. search[s].pc = "observe" /\ UNCHANGED <<indexVars, metadataVars, permits, usage, queryLog>>
  BY DEF BeginReport, Reached
<1>1. SearchFits(search[s], ever[s], queryLog[s], Told(s), CallFailed)
  BY SearchOf
<1>2. usage[s] = <<>> /\ observers[s] = "none"
  BY <1>0, <1>1, SearchOf DEF SearchFits, UsageFits, RowFits
<1>3. Outside /\ faults' = faults
  BY <1>0 DEF Outside, indexVars
<1>4. (CallFailed' <=> CallFailed) /\ CallFailed \in BOOLEAN /\ CallFailed' \in BOOLEAN
  BY <1>3, OutsideKeeps, FailedNow
<1>5. usage' = [usage EXCEPT ![s] = <<>>]
  BY <1>0, <1>2, SearchOf
<1>6. Cardinality(InFlight) \in Nat /\ MaxObservers \in Nat
  <2>1. InFlight \in SUBSET Searches
    BY DEF InFlight
  <2> QED
    BY <2>1, RetrievalAssumption, FS_Subset, FS_CardinalityType
<1>7. CASE Cardinality(InFlight) < MaxObservers
  <2>1. PICK q : q = GotoOf(search[s], "report")
    OBVIOUS
  <2>2. Become(s, q) /\ observers' = [observers EXCEPT ![s] = "running"]
    BY <1>7, <2>1 DEF BeginReport, Goto, Become, GotoOf, ObserverBecomes
  <2>3. ObserversFit'
    BY <1>2, <1>7, <2>2, ObserversFollow
  <2>4. PICK u2 : u2 = [row |-> <<>>, task |-> "running"]
    OBVIOUS
  <2>5. u2.row = <<>> /\ u2.task = "running"
    BY <2>4
  <2>6. SearchFits(q, ever[s], queryLog[s], u2, CallFailed)
    BY <1>0, <1>1, <2>1, <2>5, BegunFits
  <2>7. SearchFits(q, ever[s], queryLog[s], u2, CallFailed')
    BY <1>4, <2>6, StillFits
  <2>8. q.pc = "report"
    BY <2>1, SearchOf, GotoIs DEF Pcs, Before
  <2> QED
    BY <1>0, <1>3, <1>5, <2>2, <2>3, <2>4, <2>7, <2>8, ReportKeeps
<1>8. CASE Cardinality(InFlight) >= MaxObservers
  <2>1. PICK q : q = AfterAttempt(s)
    OBVIOUS
  <2>2. Become(s, q) /\ observers' = [observers EXCEPT ![s] = "full"]
    BY <1>6, <1>8, <2>1 DEF BeginReport, Become, ObserverBecomes
  <2>3. ObserversFit'
    BY <1>2, <1>8, <2>2, ObserversFollow
  <2>4. PICK u2 : u2 = [row |-> <<>>, task |-> "full"]
    OBVIOUS
  <2>5. u2.row = <<>> /\ u2.task = "full"
    BY <2>4
  <2>6. RowFits(search[s], u2, CallFailed')
    BY <2>5 DEF RowFits
  <2>7. SearchFits(q, ever[s], queryLog[s], u2, CallFailed')
    BY <1>0, <1>1, <1>4, <2>1, <2>5, <2>6, AfterIs, ReportedFits
  <2>8. q.pc # "rerankCall"
    BY <2>1, AfterIs
  <2> QED
    BY <1>0, <1>3, <1>5, <2>2, <2>3, <2>4, <2>7, <2>8, ReportKeeps
<1> QED
  BY <1>6, <1>7, <1>8

\* A report under way: nothing is written yet.
LEMMA ReportIs ==
  ASSUME SearchInv, NEW s \in Searches, search[s].pc = "report"
  PROVE  /\ usage[s] = <<>> /\ observers[s] = "running"
         /\ UsageRecorded(s) => usage' = [usage EXCEPT ![s] = <<search[s].attempt>>]
         /\ UNCHANGED usage => usage' = [usage EXCEPT ![s] = <<>>]
<1>1. SearchFits(search[s], ever[s], queryLog[s], Told(s), CallFailed)
  BY SearchOf
<1>2. usage[s] = <<>> /\ observers[s] = "running"
  BY <1>1, SearchOf DEF SearchFits, UsageFits, RowFits
<1>3. UsageRecorded(s) => usage' = [usage EXCEPT ![s] = <<search[s].attempt>>]
  BY <1>2, SearchOf DEF UsageRecorded
<1>4. UNCHANGED usage => usage' = [usage EXCEPT ![s] = <<>>]
  BY <1>2, SearchOf
<1> QED
  BY <1>2, <1>3, <1>4

\* What a cancelled observer leaves.
LEMMA CancelledObserver ==
  ASSUME SearchInv, NEW s \in Searches, search[s].pc = "report", ObserverCancelled(s)
  PROVE  \E u2, o2 : /\ usage' = [usage EXCEPT ![s] = u2]
                     /\ observers' = [observers EXCEPT ![s] = o2]
                     /\ o2 \in {"cut", "left"}
                     /\ u2 = <<>> \/ (u2 = <<search[s].attempt>> /\ o2 = "cut")
<1>1. CASE ObserverBecomes(s, "left") /\ UNCHANGED usage
  BY <1>1, ReportIs DEF ObserverBecomes
<1>2. CASE ObserverBecomes(s, "cut") /\ UsageRecorded(s)
  BY <1>2, ReportIs DEF ObserverBecomes
<1>3. CASE ObserverBecomes(s, "cut") /\ UNCHANGED usage
  BY <1>3, ReportIs DEF ObserverBecomes
<1> QED
  BY <1>1, <1>2, <1>3 DEF ObserverCancelled

LEMMA ReportEndsKeeps ==
  ASSUME SearchInv, NEW s \in Searches, ReportEnds(s), Remember, UNCHANGED plan
  PROVE  SearchInv' /\ ForeignKept
<1>0. search[s].pc = "report" /\ UNCHANGED <<permits, queryLog>>
  BY DEF ReportEnds, Reached
<1>1. SearchFits(search[s], ever[s], queryLog[s], Told(s), CallFailed)
  BY SearchOf
<1>2. Outside
  BY DEF ReportEnds, Fault, Outside, indexVars
<1>3. /\ CallFailed => CallFailed'
      /\ faults' = faults + 1 => CallFailed'
      /\ CallFailed \in BOOLEAN /\ CallFailed' \in BOOLEAN
  BY <1>2, OutsideKeeps, FailedNow
<1>4. PICK q : q = AfterAttempt(s)
  OBVIOUS
<1>5. Become(s, q) /\ observers' = [observers EXCEPT ![s] = "done"]
  BY <1>4 DEF ReportEnds, Become, ObserverBecomes
<1>6. ObserversFit'
  BY <1>0, <1>5, ReportIs, ObserversFollow
<1>7. PICK row : /\ usage' = [usage EXCEPT ![s] = row]
                 /\ row = <<search[s].attempt>> \/ (row = <<>> /\ CallFailed')
  <2>1. CASE UsageRecorded(s)
    BY <1>0, <2>1, ReportIs
  <2>2. CASE Fault /\ UNCHANGED usage
    BY <1>0, <1>3, <2>2, ReportIs DEF Fault
  <2> QED
    BY <2>1, <2>2 DEF ReportEnds
<1>8. PICK u2 : u2 = [row |-> row, task |-> "done"]
  OBVIOUS
<1>9. u2.row = row /\ u2.task = "done"
  BY <1>8
<1>10. RowFits(search[s], u2, CallFailed')
  <2>1. CASE row = <<search[s].attempt>>
    <3>1. u2.row # <<>>
      BY <1>9, <2>1
    <3> QED
      BY <1>9, <2>1, <3>1 DEF RowFits
  <2>2. CASE row = <<>> /\ CallFailed'
    BY <1>9, <2>2 DEF RowFits
  <2> QED
    BY <1>7, <2>1, <2>2
<1>11. SearchFits(q, ever[s], queryLog[s], u2, CallFailed')
  BY <1>0, <1>1, <1>3, <1>4, <1>9, <1>10, AfterIs, ReportedFits
<1>12. q.pc # "rerankCall"
  BY <1>4, AfterIs
<1> QED
  BY <1>0, <1>2, <1>5, <1>6, <1>7, <1>8, <1>11, <1>12, ReportKeeps

LEMMA ReportTimesOutKeeps ==
  ASSUME SearchInv, NEW s \in Searches, ReportTimesOut(s), Remember, UNCHANGED plan
  PROVE  SearchInv' /\ ForeignKept
<1>0. /\ search[s].pc = "report" /\ UNCHANGED <<permits, queryLog>>
      /\ ObserverCancelled(s) /\ Fault
  BY DEF ReportTimesOut, Reached
<1>1. SearchFits(search[s], ever[s], queryLog[s], Told(s), CallFailed)
  BY SearchOf
<1>2. Outside /\ faults' = faults + 1
  BY <1>0 DEF Fault, Outside
<1>3. /\ CallFailed => CallFailed'
      /\ CallFailed'
      /\ CallFailed \in BOOLEAN /\ CallFailed' \in BOOLEAN
  BY <1>2, OutsideKeeps, FailedNow
<1>4. PICK q : q = AfterAttempt(s)
  OBVIOUS
<1>5. Become(s, q)
  BY <1>4 DEF ReportTimesOut, Become
<1>6. PICK row, task : /\ usage' = [usage EXCEPT ![s] = row]
                       /\ observers' = [observers EXCEPT ![s] = task]
                       /\ task \in {"cut", "left"}
                       /\ row = <<>> \/ (row = <<search[s].attempt>> /\ task = "cut")
  BY <1>0, CancelledObserver
<1>7. ObserversFit'
  BY <1>0, <1>6, ReportIs, ObserversFollow
<1>8. PICK u2 : u2 = [row |-> row, task |-> task]
  OBVIOUS
<1>9. u2.row = row /\ u2.task = task
  BY <1>8
<1>10. RowFits(search[s], u2, CallFailed')
  BY <1>3, <1>6, <1>9 DEF RowFits
<1>11. SearchFits(q, ever[s], queryLog[s], u2, CallFailed')
  <2>1. /\ u2.task \in {"done", "cut", "left", "full"}
        /\ search[s].pc \in {"observe", "report"}
    BY <1>0, <1>6, <1>9
  <2>2. q = IF search[s].cancelled THEN EndOf(search[s], "failed", "cancelled")
            ELSE IF search[s].attempt # "succeeded" THEN EndOf(search[s], "failed", "embedding")
            ELSE GotoOf(search[s], "info")
    BY <1>4, AfterIs
  <2>3. PICK f \in BOOLEAN, f2 \in BOOLEAN : f = CallFailed /\ f2 = CallFailed' /\ (f => f2)
    BY <1>3
  <2>4. SearchFits(search[s], ever[s], queryLog[s], Told(s), f) /\ RowFits(search[s], u2, f2)
    BY <1>1, <1>10, <2>3
  <2>5. SearchFits(q, ever[s], queryLog[s], u2, f2)
    BY <2>1, <2>2, <2>3, <2>4, ReportedFits
  <2> QED
    BY <2>3, <2>5
<1>12. q.pc # "rerankCall"
  BY <1>4, AfterIs
<1> QED
  BY <1>0, <1>2, <1>5, <1>6, <1>7, <1>8, <1>11, <1>12, ReportKeeps

LEMMA DatabaseFailsKeeps ==
  ASSUME SearchInv, NEW s \in Searches, DatabaseFails(s), Remember, UNCHANGED plan
  PROVE  SearchInv' /\ ForeignKept
<1>1. /\ search[s].pc \in {"target", "runtime", "documents", "credential", "info", "query",
                           "recheck"}
      /\ Fault /\ Fail(s, "error") /\ Unobserved
  BY DEF DatabaseFails
<1> QED
  BY <1>1, FailFaults

LEMMA CollectionInfoKeeps ==
  ASSUME SearchInv, NEW s \in Searches, CollectionInfo(s), Remember, UNCHANGED plan
  PROVE  SearchInv' /\ ForeignKept
<1>0. search[s].pc = "info" /\ Reading
  BY DEF CollectionInfo, Reached
<1>1. CASE Goto(s, "query")
  BY <1>0, <1>1, GotoKeeps
<1>2. CASE Fail(s, "configuration")
  BY <1>0, <1>2, FailReads
<1> QED
  BY <1>1, <1>2 DEF CollectionInfo

\* What the server may return are points of the collection, as the filter wants
\* them.
LEMMA MatchingIs ==
  ASSUME SearchInv, NEW s \in Searches, search[s].pc = "query"
  PROVE  /\ Matching(s) \in SUBSET Points
         /\ \A p \in Matching(s) :
              /\ p[1] = search[s].gen
              /\ search[s].filter = {} \/ DocOf(p) \in search[s].filter
<1>1. search[s].gen \in Generations
  BY SearchOf DEF SearchFits, GenFits, Under
<1>2. collections[search[s].gen].points \in SUBSET Points
  BY <1>1 DEF SearchInv, IndexInv, IndexTypes, Collection
<1>3. \A p \in collections[search[s].gen].points : p[1] = search[s].gen
  BY <1>1 DEF SearchInv, IndexInv, PointsFit
<1> QED
  BY <1>2, <1>3 DEF Matching

\* The sequences without repetition of the members of a set.
LEMMA PermutationIs ==
  ASSUME NEW O \in SUBSET Points, NEW v \in SetToAllKPermutations(O)
  PROVE  v \in Seq(Points) /\ IsInjective(v) /\ ToSet(v) \subseteq O
<1>1. PICK T \in SUBSET O : v \in SetToSeqs(T)
  BY DEF SetToAllKPermutations
<1>2. IsFiniteSet(T)
  BY PointsFinite, FS_Subset
<1>3. PICK n \in Nat : n = Cardinality(T)
  BY <1>2, FS_CardinalityType
<1>4. v \in [1 .. n -> T] /\ \A i, j \in 1 .. n : i # j => v[i] # v[j]
  BY <1>1, <1>3 DEF SetToSeqs
<1>5. DOMAIN v = 1 .. n /\ \A i \in 1 .. n : v[i] \in O
  BY <1>4
<1>6. v \in [1 .. n -> Points]
  BY <1>4
<1>7. v \in Seq(Points)
  BY <1>6
<1>8. IsInjective(v)
  BY <1>4, <1>5 DEF IsInjective
<1>9. ToSet(v) \subseteq O
  BY <1>5 DEF ToSet
<1> QED
  BY <1>7, <1>8, <1>9

LEMMA QueryPointsKeeps ==
  ASSUME SearchInv, NEW s \in Searches, QueryPoints(s), Remember, UNCHANGED plan
  PROVE  SearchInv' /\ ForeignKept
<1>0. search[s].pc = "query" /\ Reading
  BY DEF QueryPoints, Reached
<1>1. CASE Fail(s, "configuration")
  BY <1>0, <1>1, FailReads
<1>2. CASE \E points \in Nearest(s) :
             Become(s, [search[s] EXCEPT !.pc = "recheck", !.candidates = points,
                                         !.offered = Matching(s)])
  <2>1. PICK v \in Nearest(s) :
          Become(s, [search[s] EXCEPT !.pc = "recheck", !.candidates = v,
                                      !.offered = Matching(s)])
    BY <1>2
  <2>2. PICK O : O = Matching(s)
    OBVIOUS
  <2>3. /\ O \in SUBSET Points
        /\ \A p \in O : /\ p[1] = search[s].gen
                        /\ search[s].filter = {} \/ DocOf(p) \in search[s].filter
    BY <1>0, <2>2, MatchingIs
  <2>4. /\ v \in SetToAllKPermutations(O)
        /\ Len(v) = Min({CandidateLimit(search[s].req.topK), Cardinality(O)})
    BY <2>2 DEF Nearest
  <2>5. v \in Seq(Points) /\ IsInjective(v) /\ ToSet(v) \subseteq O
    BY <2>3, <2>4, PermutationIs
  <2>6. PICK q : q = QueryOf(search[s], v, O)
    OBVIOUS
  <2>7. Become(s, q)
    BY <2>1, <2>2, <2>6 DEF Become, QueryOf
  <2>8. SearchFits(q, ever[s], queryLog[s], Told(s), CallFailed)
    <3>1. SearchFits(search[s], ever[s], queryLog[s], Told(s), CallFailed)
      BY SearchOf
    <3> QED
      BY <1>0, <2>3, <2>4, <2>5, <2>6, <3>1, QueryFits
  <2>9. q.pc = "recheck"
    <3>1. search[s] \in SearchRec
      BY SearchOf
    <3> QED
      BY <2>3, <2>5, <2>6, <3>1, QueryIs
  <2> QED
    BY <1>0, <2>7, <2>8, <2>9, ReadKeeps
<1> QED
  BY <1>1, <1>2 DEF QueryPoints, Queried

LEMMA QueryMalformedKeeps ==
  ASSUME SearchInv, NEW s \in Searches, QueryMalformed(s), Remember, UNCHANGED plan
  PROVE  SearchInv' /\ ForeignKept
<1>1. search[s].pc = "query" /\ Fault /\ Unobserved
  BY DEF QueryMalformed, Reached
<1>2. PICK p \in Matching(s) : Queried(s, <<p, p>>)
  BY DEF QueryMalformed
<1>3. ~IsInjective(<<p, p>>)
  BY DEF IsInjective
<1>4. Fail(s, "configuration")
  BY <1>2, <1>3 DEF Queried, Acceptable
<1> QED
  BY <1>1, <1>4, FailFaults

LEMMA QueryLostKeeps ==
  ASSUME SearchInv, NEW s \in Searches, QueryLost(s), Remember, UNCHANGED plan
  PROVE  SearchInv' /\ ForeignKept
BY FailFaults DEF QueryLost

LEMMA RecheckKeeps ==
  ASSUME SearchInv, NEW s \in Searches, Recheck(s), Remember, UNCHANGED plan
  PROVE  SearchInv' /\ ForeignKept
<1>0. search[s].pc = "recheck" /\ Reading
  BY DEF Recheck, Reached
<1>1. PICK r, e, l, u, f : /\ r = search[s] /\ e = ever[s] /\ l = queryLog[s] /\ u = Told(s)
                           /\ f = CallFailed
  OBVIOUS
<1>2. PICK V : V = Visible(r.gen)
  OBVIOUS
<1>3. PICK S, sh : S = KeptOf(r, V) /\ sh = ShownOf(r, V)
  OBVIOUS
<1>4. PICK v : v = Chosen(r.candidates, S)
  OBVIOUS
<1>5. StillVisible(s, search[s].candidates) = v
  BY <1>1, <1>2, <1>3, <1>4 DEF StillVisible, Chosen, KeptOf
<1>6. SearchFits(r, e, l, u, f) /\ UpToDate(s) /\ r \in SearchRec /\ r.pc = "recheck"
  BY <1>0, <1>1, SearchOf
<1>7. \A d \in V : <<r.gen, d>> \in e.visible
  BY <1>0, <1>1, <1>2, <1>6 DEF UpToDate, Under, SearchFits, GenFits
<1>8. SeenWell(r, e, v, sh)
  BY <1>3, <1>4, <1>6, <1>7, SeenFits
<1>9. PICK q :
        /\ Become(s, q)
        /\ \/ ~r.req.rerank /\ q = DoneOf(SeenOf(r, v, sh), FirstOf(v, r.req.topK))
           \/ r.req.rerank /\ ~r.reranker /\ q = EndOf(SeenOf(r, v, sh), "rejected", "noReranker")
           \/ /\ r.req.rerank /\ r.reranker /\ v = <<>>
              /\ q = DoneOf(SeenOf(r, v, sh), FirstOf(v, r.req.topK))
           \/ /\ r.req.rerank /\ r.reranker /\ v # <<>>
              /\ q = GotoOf(SeenOf(r, v, sh), "rerankRuntime")
  BY <1>1, <1>2, <1>3, <1>5, Zenon DEF Recheck, DoneOf, SeenOf, EndOf, GotoOf, ShownOf
<1>10. SearchFits(q, e, l, u, f)
  BY <1>6, <1>8, <1>9, RecheckFits
<1>11. q.pc # "rerankCall"
  <2>1. PICK k : k = SeenOf(r, v, sh)
    OBVIOUS
  <2>2. k \in SearchRec
    BY <1>6, <1>8, <2>1, SeenIs DEF SeenWell
  <2>3. r.req.topK \in Nat \ {0}
    BY <1>0, <1>1, <1>6, RequestIs DEF SearchFits, GenFits
  <2>4. PICK res \in Seq(Points) : res = FirstOf(v, r.req.topK)
    BY <1>8, <2>3, FirstIs DEF SeenWell
  <2>5. CASE q = DoneOf(k, res)
    BY <2>2, <2>5, DoneIs
  <2>6. CASE q = EndOf(k, "rejected", "noReranker")
    BY <2>2, <2>6, EndIs DEF Codes
  <2>7. CASE q = GotoOf(k, "rerankRuntime")
    BY <2>2, <2>7, GotoIs DEF Pcs, Reranking
  <2> QED
    BY <1>9, <2>1, <2>4, <2>5, <2>6, <2>7
<1> QED
  BY <1>0, <1>1, <1>9, <1>10, <1>11, ReadKeeps

\* A step of a search that reports nothing.
LEMMA QuietKeeps ==
  ASSUME SearchInv, NEW s \in Searches, NEW q, Become(s, q), Remember, UNCHANGED plan, Outside,
         UNCHANGED <<observers, usage, queryLog>>, PermitsExact',
         SearchFits(q, ever[s], queryLog[s], Told(s), CallFailed)
  PROVE  SearchInv' /\ ForeignKept
<1>1. CallFailed => CallFailed'
  BY OutsideKeeps
<1>2. CallFailed \in BOOLEAN /\ CallFailed' \in BOOLEAN
  BY FailedNow
<1>3. SearchFits(q, ever[s], queryLog[s], Told(s), CallFailed')
  BY <1>1, <1>2, StillFits
<1>4. /\ queryLog' = [queryLog EXCEPT ![s] = queryLog[s]]
      /\ usage' = [usage EXCEPT ![s] = usage[s]]
      /\ observers' = [observers EXCEPT ![s] = observers[s]]
      /\ Told(s) = [row |-> usage[s], task |-> observers[s]]
  BY SearchOf
<1>5. ObserversFit'
  BY <1>4, ObserversFollow
<1>6. SearchFits(q, ever[s], queryLog[s], [row |-> usage[s], task |-> observers[s]], CallFailed')
  BY <1>3, <1>4
<1> QED
  BY <1>4, <1>5, <1>6, SearchKeeps

\* What the reranker is asked about.
LEMMA RerankedIs ==
  ASSUME SearchInv, NEW s \in Searches, search[s].pc \in Reranking
  PROVE  /\ search[s].visible \in Seq(Points) /\ IsInjective(search[s].visible)
         /\ search[s].visible # <<>> /\ search[s].req.topK \in Nat \ {0}
<1>1. search[s].visible \in Seq(Points)
  BY SearchOf DEF SearchRec
<1>2. IsInjective(search[s].visible) /\ search[s].visible # <<>>
  BY SearchOf DEF SearchFits, ResultsFit
<1>3. search[s].req \in Requests
  BY SearchOf DEF SearchFits, GenFits, Reranking
<1> QED
  BY <1>1, <1>2, <1>3, RequestIs

\* Some of the candidates, in any order, are the answer.
LEMMA AnsweredFits ==
  ASSUME SearchInv, NEW s \in Searches, search[s].pc \in Reranking, UNCHANGED plan,
         NEW v \in Seq(Points), IsInjective(v), ToSet(v) \subseteq ToSet(search[s].visible),
         v # <<>>, NEW b \in BOOLEAN, Answer(s, FirstOf(v, search[s].req.topK), b)
  PROVE  \E q : /\ Become(s, q) /\ q.pc = "log"
                /\ SearchFits(q, ever[s], queryLog[s], Told(s), CallFailed)
<1>1. PICK r, e, l, u : r = search[s] /\ e = ever[s] /\ l = queryLog[s] /\ u = Told(s)
  OBVIOUS
<1>2. PICK f \in BOOLEAN : f = CallFailed
  BY FailedNow
<1>3. PICK res : res = FirstOf(v, r.req.topK)
  OBVIOUS
<1>4. r.req.topK \in Nat \ {0}
  BY <1>1, RerankedIs
<1>5. /\ res \in Seq(Points) /\ IsInjective(res) /\ ToSet(res) \subseteq ToSet(v)
      /\ Len(res) <= r.req.topK /\ res # <<>>
  BY <1>3, <1>4, FirstIs
<1>6. ToSet(res) \subseteq ToSet(r.visible)
  BY <1>1, <1>5
<1>7. PICK q : q = AnswerOf(r, res, b)
  OBVIOUS
<1>8. Become(s, q)
  BY <1>1, <1>3, <1>7 DEF Answer, Become, AnswerOf, Ended, EndOf
<1>9. SearchFits(r, e, l, u, f) /\ r \in SearchRec
  BY <1>1, <1>2, SearchOf
<1>10. q.pc = "log"
  BY <1>5, <1>7, <1>9, AnswerIs
<1>11. r.pc \in Reranking
  BY <1>1
<1>12. SearchFits(q, e, l, u, f)
  <2>1. PICK f2 \in BOOLEAN : f2 = f
    OBVIOUS
  <2>2. f => f2
    BY <2>1
  <2>3. SearchFits(q, e, l, u, f2)
    BY <1>5, <1>6, <1>7, <1>9, <1>11, <2>2, AnswerFits
  <2> QED
    BY <2>1, <2>3
<1> QED
  BY <1>1, <1>2, <1>8, <1>10, <1>12

LEMMA DegradeFits ==
  ASSUME SearchInv, NEW s \in Searches, search[s].pc \in Reranking, UNCHANGED plan, Degrade(s)
  PROVE  \E q : /\ Become(s, q) /\ q.pc = "log"
                /\ SearchFits(q, ever[s], queryLog[s], Told(s), CallFailed)
<1>1. PICK v : v = search[s].visible
  OBVIOUS
<1>2. v \in Seq(Points) /\ IsInjective(v) /\ v # <<>> /\ ToSet(v) \subseteq ToSet(search[s].visible)
  BY <1>1, RerankedIs
<1>3. PICK b \in BOOLEAN : b = TRUE
  OBVIOUS
<1>4. Answer(s, FirstOf(v, search[s].req.topK), b)
  BY <1>1, <1>3, Zenon DEF Degrade, Dense
<1> QED
  BY <1>2, <1>4, AnsweredFits

LEMMA RerankRuntimeKeeps ==
  ASSUME SearchInv, NEW s \in Searches, RerankRuntime(s), Remember, UNCHANGED plan
  PROVE  SearchInv' /\ ForeignKept
<1>0. search[s].pc = "rerankRuntime" /\ search[s].pc \in Reranking
  BY DEF RerankRuntime, Reached, Reranking
<1>1. CASE Goto(s, "permit") /\ Reading
  BY <1>0, <1>1, GotoKeeps
<1>2. CASE Degrade(s) /\ (Reading \/ (Fault /\ Unobserved))
  <2>1. PICK q : /\ Become(s, q) /\ q.pc = "log"
                 /\ SearchFits(q, ever[s], queryLog[s], Told(s), CallFailed)
    BY <1>0, <1>2, DegradeFits
  <2>2. Outside /\ UNCHANGED <<permits, observers, usage, queryLog>>
    BY <1>2 DEF Reading, Fault, Unobserved, Outside, indexVars
  <2>3. PermitsExact'
    BY <1>0, <2>1, <2>2, PermitsFollow
  <2> QED
    BY <2>1, <2>2, <2>3, QuietKeeps
<1> QED
  BY <1>1, <1>2 DEF RerankRuntime

LEMMA TakePermitKeeps ==
  ASSUME SearchInv, NEW s \in Searches, TakePermit(s), Remember, UNCHANGED plan
  PROVE  SearchInv' /\ ForeignKept
<1>0. search[s].pc = "permit"
  BY DEF TakePermit, Reached
<1>1. PICK q : q = GotoOf(search[s], "rerankCall")
  OBVIOUS
<1>2. Become(s, q)
  BY <1>1 DEF TakePermit, Goto, Become, GotoOf
<1>3. SearchFits(q, ever[s], queryLog[s], Told(s), CallFailed)
  BY <1>0, <1>1, SearchOf, GotoFits
<1>4. q.pc = "rerankCall"
  BY <1>1, SearchOf, GotoIs DEF Pcs, Reranking
<1>5. PermitsExact'
  BY <1>0, <1>2, <1>4, PermitsFollow DEF TakePermit
<1>6. Outside /\ UNCHANGED <<observers, usage, queryLog>>
  BY DEF TakePermit, Outside, indexVars
<1> QED
  BY <1>2, <1>3, <1>5, <1>6, QuietKeeps

\* The reranker's call is over.
LEMMA ReleasedKeeps ==
  ASSUME SearchInv, NEW s \in Searches, search[s].pc = "rerankCall", NEW q, Become(s, q),
         q.pc = "log", SearchFits(q, ever[s], queryLog[s], Told(s), CallFailed),
         Released, Outside, Remember, UNCHANGED plan
  PROVE  SearchInv' /\ ForeignKept
<1>1. PermitsExact'
  BY PermitsFollow DEF Released
<1> QED
  BY <1>1, QuietKeeps DEF Released

LEMMA RerankFailsKeeps ==
  ASSUME SearchInv, NEW s \in Searches, RerankFails(s), Remember, UNCHANGED plan
  PROVE  SearchInv' /\ ForeignKept
<1>0. search[s].pc = "rerankCall" /\ search[s].pc \in Reranking
  BY DEF RerankFails, Reached, Reranking
<1>1. PICK q : /\ Become(s, q) /\ q.pc = "log"
               /\ SearchFits(q, ever[s], queryLog[s], Told(s), CallFailed)
  BY <1>0, DegradeFits DEF RerankFails
<1>2. Outside /\ Released
  BY DEF RerankFails, Fault, Outside
<1> QED
  BY <1>0, <1>1, <1>2, ReleasedKeeps

\* A ranking that is accepted takes some of the candidates, each once.
LEMMA RankedIs ==
  ASSUME NEW v \in Seq(Points), IsInjective(v), NEW ranking \in Rankings(Len(v)),
         ValidRanking(ranking, Len(v)), NEW w, w = [i \in DOMAIN ranking |-> v[ranking[i]]]
  PROVE  /\ w \in Seq(Points) /\ IsInjective(w) /\ w # <<>>
         /\ ToSet(w) \subseteq ToSet(v)
<1>1. PICK m \in 0 .. Len(v) : ranking \in [1 .. m -> 1 .. (Len(v) + 1)]
  BY DEF Rankings
<1>2. DOMAIN ranking = 1 .. m /\ m \in Nat
  BY <1>1
<1>3. /\ \A i \in 1 .. m : ranking[i] \in 1 .. Len(v)
      /\ \A i, j \in 1 .. m : ranking[i] = ranking[j] => i = j
  BY <1>2 DEF ValidRanking, IsInjective
<1>4. m # 0
  BY <1>1 DEF ValidRanking
<1>5. w = [i \in 1 .. m |-> v[ranking[i]]]
  BY <1>2
<1>6. \A i \in 1 .. m : v[ranking[i]] \in Points
  BY <1>3
<1>7. w \in [1 .. m -> Points] /\ DOMAIN w = 1 .. m
  BY <1>5, <1>6
<1>8. w \in Seq(Points) /\ Len(w) = m
  BY <1>2, <1>7
<1>9. w # <<>>
  BY <1>4, <1>8
<1>10. IsInjective(w)
  BY <1>3, <1>5, <1>7 DEF IsInjective
<1>11. ToSet(w) \subseteq ToSet(v)
  BY <1>3, <1>5, <1>7 DEF ToSet
<1> QED
  BY <1>8, <1>9, <1>10, <1>11

LEMMA RerankAnswersKeeps ==
  ASSUME SearchInv, NEW s \in Searches, RerankAnswers(s), Remember, UNCHANGED plan
  PROVE  SearchInv' /\ ForeignKept
<1>0. search[s].pc = "rerankCall" /\ search[s].pc \in Reranking
  BY DEF RerankAnswers, Reached, Reranking
<1>1. Outside /\ Released
  BY DEF RerankAnswers, Outside, indexVars
<1>2. PICK v : v = search[s].visible
  OBVIOUS
<1>3. PICK ranking \in Rankings(Len(v)) :
        IF ValidRanking(ranking, Len(v))
        THEN Answer(s, FirstOf([i \in DOMAIN ranking |-> v[ranking[i]]], search[s].req.topK),
                    FALSE)
        ELSE Degrade(s)
  BY <1>2, Zenon DEF RerankAnswers
<1>4. CASE Degrade(s)
  <2>1. PICK q : /\ Become(s, q) /\ q.pc = "log"
                 /\ SearchFits(q, ever[s], queryLog[s], Told(s), CallFailed)
    BY <1>0, <1>4, DegradeFits
  <2> QED
    BY <1>0, <1>1, <2>1, ReleasedKeeps
<1>5. CASE ValidRanking(ranking, Len(v))
  <2>1. PICK w : w = [i \in DOMAIN ranking |-> v[ranking[i]]]
    OBVIOUS
  <2>2. v \in Seq(Points) /\ IsInjective(v)
    BY <1>0, <1>2, RerankedIs
  <2>3. w \in Seq(Points) /\ IsInjective(w) /\ w # <<>> /\ ToSet(w) \subseteq ToSet(v)
    BY <1>5, <2>1, <2>2, RankedIs
  <2>4. PICK b \in BOOLEAN : b = FALSE
    OBVIOUS
  <2>5. Answer(s, FirstOf(w, search[s].req.topK), b)
    BY <1>3, <1>5, <2>1, <2>4, Zenon
  <2>6. PICK q : /\ Become(s, q) /\ q.pc = "log"
                 /\ SearchFits(q, ever[s], queryLog[s], Told(s), CallFailed)
    BY <1>0, <1>2, <2>3, <2>5, AnsweredFits
  <2> QED
    BY <1>0, <1>1, <2>6, ReleasedKeeps
<1> QED
  BY <1>3, <1>4, <1>5

LEMMA RecordQueryKeeps ==
  ASSUME SearchInv, NEW s \in Searches, RecordQuery(s), Remember, UNCHANGED plan
  PROVE  SearchInv' /\ ForeignKept
<1>0. search[s].pc = "log"
  BY DEF RecordQuery, Reached
<1>1. PICK q : q = GotoOf(search[s], "done")
  OBVIOUS
<1>2. Become(s, q)
  BY <1>1 DEF RecordQuery, Goto, Become, GotoOf
<1>3. q.pc = "done"
  BY <1>1, SearchOf, GotoIs DEF Pcs
<1>4. Outside /\ UNCHANGED <<permits, observers, usage>>
  BY DEF RecordQuery, Fault, Outside, indexVars
<1>5. /\ CallFailed => CallFailed'
      /\ faults' = faults + 1 => CallFailed'
  BY <1>4, OutsideKeeps
<1>6. CallFailed \in BOOLEAN /\ CallFailed' \in BOOLEAN
  BY FailedNow
<1>7. PICK l2 : /\ queryLog' = [queryLog EXCEPT ![s] = l2]
                /\ \/ l2 = Append(queryLog[s], [status |-> search[s].status,
                                                degraded |-> search[s].degraded])
                   \/ l2 = queryLog[s] /\ CallFailed'
  <2>1. CASE queryLog' = [queryLog EXCEPT ![s] = Append(@, Row(s))]
    BY <2>1 DEF Row
  <2>2. CASE Fault /\ UNCHANGED queryLog
    <3>1. queryLog' = [queryLog EXCEPT ![s] = queryLog[s]]
      BY <2>2, SearchOf
    <3>2. CallFailed'
      BY <1>5, <2>2 DEF Fault
    <3> QED
      BY <3>1, <3>2
  <2> QED
    BY <2>1, <2>2 DEF RecordQuery
<1>8. SearchFits(q, ever[s], l2, Told(s), CallFailed')
  <2>1. SearchFits(search[s], ever[s], queryLog[s], Told(s), CallFailed)
    BY SearchOf
  <2> QED
    BY <1>0, <1>1, <1>5, <1>6, <1>7, <2>1, LoggedFits
<1>9. PermitsExact'
  BY <1>0, <1>2, <1>3, <1>4, PermitsFollow
<1>10. /\ usage' = [usage EXCEPT ![s] = usage[s]]
       /\ observers' = [observers EXCEPT ![s] = observers[s]]
       /\ Told(s) = [row |-> usage[s], task |-> observers[s]]
  BY <1>4, SearchOf
<1>11. ObserversFit'
  BY <1>10, ObserversFollow
<1>12. SearchFits(q, ever[s], l2, [row |-> usage[s], task |-> observers[s]], CallFailed')
  BY <1>8, <1>10
<1> QED
  BY <1>2, <1>4, <1>7, <1>9, <1>10, <1>11, <1>12, SearchKeeps

LEMMA CancelKeeps ==
  ASSUME SearchInv, NEW s \in Searches, Cancel(s), Remember, UNCHANGED plan
  PROVE  SearchInv' /\ ForeignKept
<1>0. search[s].pc \notin {"idle", "report", "done"} /\ ~search[s].cancelled
  BY DEF Cancel, Cancellable
<1>1. Outside /\ UNCHANGED <<observers, usage, queryLog>>
  BY DEF Cancel, Outside, indexVars
<1>2. SearchFits(search[s], ever[s], queryLog[s], Told(s), CallFailed) /\ search[s] \in SearchRec
  BY SearchOf
<1>3. PICK q : /\ Become(s, q) /\ q.pc # "rerankCall"
               /\ SearchFits(q, ever[s], queryLog[s], Told(s), CallFailed)
  <2>1. CASE search[s].pc = "call"
    <3>1. PICK q : q = CutOffOf(search[s])
      OBVIOUS
    <3>2. Become(s, q)
      BY <2>1, <3>1 DEF Cancel, Reached, Become, CutOffOf
    <3>3. SearchFits(q, ever[s], queryLog[s], Told(s), CallFailed)
      BY <1>2, <2>1, <3>1, CutOffFits
    <3>4. q.pc = "observe"
      BY <1>2, <3>1, CutOffIs
    <3> QED
      BY <3>2, <3>3, <3>4
  <2>2. CASE search[s].pc = "log"
    <3>1. PICK q : q = CancelledOf(search[s])
      OBVIOUS
    <3>2. Become(s, q)
      BY <2>2, <3>1 DEF Cancel, Reached, Become, CancelledOf
    <3>3. search[s].code # "cancelled"
      BY <1>0, <1>2 DEF SearchFits, EndFits
    <3>4. SearchFits(q, ever[s], queryLog[s], Told(s), CallFailed)
      BY <1>2, <2>2, <3>1, <3>3, UnloggedFits
    <3>5. q.pc = "done"
      BY <1>2, <3>1, CancelledIs
    <3> QED
      BY <3>2, <3>4, <3>5
  <2>3. CASE search[s].pc = "observe"
    <3>1. PICK q : q = NotedOf(search[s])
      OBVIOUS
    <3>2. Become(s, q)
      BY <2>3, <3>1 DEF Cancel, Reached, Become, NotedOf
    <3>3. SearchFits(q, ever[s], queryLog[s], Told(s), CallFailed)
      BY <1>2, <2>3, <3>1, NotedFits
    <3>4. q.pc = "observe"
      BY <1>2, <2>3, <3>1, NotedIs
    <3> QED
      BY <3>2, <3>3, <3>4
  <2>4. CASE search[s].pc \notin {"call", "observe", "log"}
    <3>1. PICK q : q = GoneOf(search[s])
      OBVIOUS
    <3>2. Become(s, q)
      BY <2>4, <3>1 DEF Cancel, CancelledNow, Reached, Become, GoneOf, Ended, EndOf
    <3>3. Under(search[s])
      BY <1>0, <2>4 DEF Under
    <3>4. SearchFits(q, ever[s], queryLog[s], Told(s), CallFailed)
      BY <1>0, <1>2, <2>4, <3>1, <3>3, GoneFits
    <3>5. q.pc = "log"
      BY <1>2, <3>1, GoneIs
    <3> QED
      BY <3>2, <3>4, <3>5
  <2> QED
    BY <2>1, <2>2, <2>3, <2>4
<1>4. PermitsExact'
  <2>1. permits' = IF search[s].pc = "rerankCall" THEN permits - 1 ELSE permits
    BY DEF Cancel, PermitBack, Reached
  <2> QED
    BY <1>3, <2>1, PermitsFollow
<1> QED
  BY <1>1, <1>3, <1>4, QuietKeeps

LEMMA CancelReportKeeps ==
  ASSUME SearchInv, NEW s \in Searches, CancelReport(s), Remember, UNCHANGED plan
  PROVE  SearchInv' /\ ForeignKept
<1>0. /\ search[s].pc = "report" /\ ~search[s].cancelled /\ ObserverCancelled(s)
      /\ UNCHANGED <<indexVars, metadataVars, permits, queryLog>>
  BY DEF CancelReport, Reached
<1>1. SearchFits(search[s], ever[s], queryLog[s], Told(s), CallFailed)
  BY SearchOf
<1>2. Outside /\ faults' = faults
  BY <1>0 DEF Outside, indexVars
<1>3. (CallFailed' <=> CallFailed) /\ CallFailed \in BOOLEAN /\ CallFailed' \in BOOLEAN
  BY <1>2, OutsideKeeps, FailedNow
<1>4. PICK q : q = GoneOf(search[s])
  OBVIOUS
<1>5. Become(s, q)
  BY <1>4 DEF CancelReport, CancelledNow, Become, GoneOf, Ended, EndOf
<1>6. PICK row, task : /\ usage' = [usage EXCEPT ![s] = row]
                       /\ observers' = [observers EXCEPT ![s] = task]
                       /\ task \in {"cut", "left"}
                       /\ row = <<>> \/ (row = <<search[s].attempt>> /\ task = "cut")
  BY <1>0, CancelledObserver
<1>7. ObserversFit'
  BY <1>0, <1>6, ReportIs, ObserversFollow
<1>8. PICK u2 : u2 = [row |-> row, task |-> task]
  OBVIOUS
<1>9. u2.row = row /\ u2.task = task
  BY <1>8
<1>10. Under(search[s])
  BY <1>0 DEF Under
<1>11. SearchFits(q, ever[s], queryLog[s], u2, CallFailed)
  BY <1>0, <1>1, <1>4, <1>6, <1>9, <1>10, GoneFits
<1>12. SearchFits(q, ever[s], queryLog[s], u2, CallFailed')
  BY <1>3, <1>11, StillFits
<1>13. q.pc = "log"
  BY <1>4, SearchOf, GoneIs
<1> QED
  BY <1>0, <1>2, <1>5, <1>6, <1>7, <1>8, <1>12, <1>13, ReportKeeps

\* A task that was left behind ends; its search is elsewhere by now.
LEMMA ObserverEndsKeeps ==
  ASSUME SearchInv, NEW s \in Searches, ObserverEnds(s), Remember, UNCHANGED plan
  PROVE  SearchInv' /\ ForeignKept
<1>0. /\ observers[s] = "left" /\ observers' = [observers EXCEPT ![s] = "cut"]
      /\ UNCHANGED <<indexVars, metadataVars, search, permits, queryLog>>
      /\ UsageRecorded(s) \/ UNCHANGED usage
  BY DEF ObserverEnds, ObserverBecomes
<1>1. SearchFits(search[s], ever[s], queryLog[s], Told(s), CallFailed)
  BY SearchOf
<1>2. Outside /\ faults' = faults
  BY <1>0 DEF Outside, indexVars
<1>3. (CallFailed' <=> CallFailed) /\ CallFailed \in BOOLEAN /\ CallFailed' \in BOOLEAN
  BY <1>2, OutsideKeeps, FailedNow
<1>4. PICK q : q = search[s]
  OBVIOUS
<1>5. Become(s, q)
  BY <1>0, <1>4 DEF Become, SearchInv, RecordTypes
<1>6. usage[s] = <<>>
  BY <1>0, <1>1, SearchOf DEF SearchFits, UsageFits, RowFits
<1>7. PICK row : /\ usage' = [usage EXCEPT ![s] = row]
                 /\ row = <<>> \/ row = <<search[s].attempt>>
  <2>1. CASE UsageRecorded(s)
    <3>1. Append(usage[s], search[s].attempt) = <<search[s].attempt>>
      BY <1>6
    <3>2. usage' = [usage EXCEPT ![s] = Append(usage[s], search[s].attempt)]
      BY <2>1 DEF UsageRecorded
    <3> QED
      BY <3>1, <3>2
  <2>2. CASE UNCHANGED usage
    BY <1>6, <2>2, SearchOf
  <2> QED
    BY <1>0, <2>1, <2>2
<1>8. ObserversFit'
  BY <1>0, ObserversFollow
<1>9. PICK u2 : u2 = [row |-> row, task |-> "cut"]
  OBVIOUS
<1>10. u2.row = row /\ u2.task = "cut"
  BY <1>9
<1>11. SearchFits(q, ever[s], queryLog[s], u2, CallFailed)
  BY <1>0, <1>1, <1>4, <1>7, <1>10, SearchOf, LateFits
<1>12. SearchFits(q, ever[s], queryLog[s], u2, CallFailed')
  BY <1>3, <1>11, StillFits
<1>13. PermitsExact'
  BY <1>0, <1>4, <1>5, PermitsFollow
<1>14. queryLog' = [queryLog EXCEPT ![s] = queryLog[s]]
  BY <1>0, SearchOf
<1> QED
  BY <1>0, <1>2, <1>5, <1>7, <1>8, <1>9, <1>12, <1>13, <1>14, SearchKeeps

-----------------------------------------------------------------------------
(* The steps that are no search's.                                         *)

\* A step that takes no search further.
LEMMA ElsewhereKeeps ==
  ASSUME SearchInv, Remember, UNCHANGED <<plan, search, permits, observers, usage, queryLog>>,
         IndexInv', MetadataTypes', FaultsFit', faults' \in Int, faults <= faults'
  PROVE  SearchInv'
<1>1. CallFailed \in BOOLEAN /\ CallFailed' \in BOOLEAN /\ (CallFailed => CallFailed')
  BY FailedNow
<1>2. PermitsExact' /\ RecordTypes' /\ ObserversFit'
  BY DEF SearchInv, PermitsExact, RecordTypes, ObserversFit, InFlight, Begun
<1>3. ASSUME NEW s \in Searches
      PROVE  UpToDate(s)' /\ SearchOK(s)'
  <2>1. /\ UpToDate(s)'
        /\ ever[s].visible \subseteq ever'[s].visible /\ ever[s].active \subseteq ever'[s].active
    BY Remembered
  <2>2. SearchFits(search[s], ever[s], queryLog[s], Told(s), CallFailed)
    BY SearchOf
  <2>3. SearchFits(search[s], ever'[s], queryLog[s], Told(s), CallFailed')
    BY <1>1, <2>1, <2>2, StillFits
  <2> QED
    BY <2>1, <2>3 DEF SearchOK, Told
<1> QED
  BY <1>2, <1>3 DEF SearchInv

\* A step of the index leaves the searches alone; at most a call fails.
LEMMA IndexStepLeaves ==
  ASSUME IndexStep
  PROVE  /\ UNCHANGED serviceVars
         /\ faults' = faults \/ (faults < MaxFaults /\ faults' = faults + 1)
<1>1. CASE \E d \in Docs : BeginWriting(d)
  BY <1>1 DEF BeginWriting, StartWriting
<1>2. CASE WriterStep /\ MetadataUnchanged
  BY <1>2 DEF MetadataUnchanged, WriterStep, UpsertInfo, UpsertPoints, UpsertLost,
              CountVersionPoints, RetrieveVersionPoints
<1>3. CASE CommitWriting
  BY <1>3 DEF CommitWriting
<1>4. CASE \E c \in Preparers :
             \/ c \in plan.preparers /\ Prepare(c, 2) /\ MetadataUnchanged
             \/ PrepareStep(c) /\ MetadataUnchanged
  <2>1. PICK c \in Preparers :
          \/ c \in plan.preparers /\ Prepare(c, 2) /\ MetadataUnchanged
          \/ PrepareStep(c) /\ MetadataUnchanged
    BY <1>4
  <2>2. UNCHANGED serviceVars
    BY <2>1 DEF MetadataUnchanged
  <2>3. faults' = faults \/ (faults < MaxFaults /\ faults' = faults + 1)
    BY <2>1 DEF Prepare, PrepareStep, Look, CollectionExists, CreateCollection, DescribeVectors,
                ReadIndexes, CreateIndex, NothingMissing, ConfirmIndexes, VerifyCollection,
                CountPoints, CallLost
  <2> QED
    BY <2>2, <2>3
<1>5. CASE Cutover \/ BeginDeletion \/ PurgeRows \/ SwitchOff
  BY <1>5 DEF Cutover, BeginDeletion, PurgeRows, SwitchOff, indexVars
<1>6. CASE \E g \in Generations : BeginRemoval(g)
  BY <1>6 DEF BeginRemoval, StartRemoval
<1>7. CASE (RemovalInfo \/ RemoveCollection) /\ MetadataUnchanged
  BY <1>7 DEF RemovalInfo, RemoveCollection, MetadataUnchanged
<1> QED
  BY <1>1, <1>2, <1>3, <1>4, <1>5, <1>6, <1>7 DEF IndexStep

LEMMA IndexChangesKeep ==
  ASSUME SearchInv, IndexStep, Remember, UNCHANGED plan
  PROVE  SearchInv' /\ ForeignKept
<1>1. IndexInv' /\ MetadataTypes' /\ ForeignKept
  BY IndexStepKeeps DEF SearchInv
<1>2. /\ UNCHANGED <<search, permits, observers, usage, queryLog>>
      /\ faults' = faults \/ (faults < MaxFaults /\ faults' = faults + 1)
  BY IndexStepLeaves DEF serviceVars
<1>3. plan.faults \in Nat /\ MaxFaults \in Nat /\ faults \in (MaxFaults - plan.faults) .. MaxFaults
  BY PlansAssumption, VectorIndexAssumption DEF SearchInv, MetadataTypes, FaultsFit
<1>4. faults' \in (MaxFaults - plan.faults) .. MaxFaults /\ faults <= faults' /\ faults' \in Int
  BY <1>2, <1>3
<1>5. FaultsFit'
  BY <1>4 DEF FaultsFit
<1> QED
  BY <1>1, <1>2, <1>4, <1>5, ElsewhereKeeps

-----------------------------------------------------------------------------
(* The invariant.                                                          *)

LEMMA SearchStarts ==
  ASSUME SearchInit
  PROVE  SearchInv
<1>1. PICK p \in Plans : SearchInitWith(p)
  BY DEF SearchInit
<1>2. p.live \subseteq Docs /\ p.faults \in 0 .. MaxFaults /\ MaxFaults \in Nat /\ plan = p
  BY <1>1, PlansAssumption, VectorIndexAssumption DEF SearchInitWith
<1>3. {1, 2} \subseteq Generations
  BY VectorIndexAssumption
<1>4. MetadataTypes
  BY <1>1, <1>2, <1>3 DEF SearchInitWith, MetadataTypes
<1>5. \A g \in Generations :
        collections[g] \in Collection /\ \A x \in collections[g].points : x[1] = g
  <2> SUFFICES ASSUME NEW g \in Generations
               PROVE  collections[g] \in Collection /\ \A x \in collections[g].points : x[1] = g
    OBVIOUS
  <2>1. CASE g = 1
    <3>1. PICK P : P = UNION {PointsOf(1, d) : d \in p.live}
      OBVIOUS
    <3>2. collections[g] = [kind |-> "managed", indexes |-> Indexes, points |-> P]
      BY <1>1, <2>1, <3>1 DEF SearchInitWith
    <3>3. \A x \in P : x \in Points /\ x[1] = g
      <4> SUFFICES ASSUME NEW x \in P
                   PROVE  x \in Points /\ x[1] = g
        OBVIOUS
      <4>1. PICK d \in p.live : x \in PointsOf(1, d)
        BY <3>1
      <4>2. d \in Docs
        BY <1>2
      <4>3. x \in Points
        BY <1>3, <4>1, <4>2 DEF Points
      <4>4. x[1] = 1
        BY <4>1 DEF PointsOf
      <4> QED
        BY <2>1, <4>3, <4>4
    <3> QED
      BY <3>2, <3>3 DEF Collection
  <2>2. CASE g # 1
    <3>1. collections[g] \in {[NewCollection EXCEPT !.indexes = Indexes],
                              [NoCollection EXCEPT !.kind = "foreign"], NoCollection}
      BY <1>1, <2>2 DEF SearchInitWith
    <3>2. /\ NoCollection \in Collection /\ NoCollection.points = {}
          /\ NewCollection \in Collection /\ NewCollection.points = {}
      BY DEF NewCollection, NoCollection, Collection
    <3>3. PICK n, m : n = NewCollection /\ m = NoCollection
      OBVIOUS
    <3>4. /\ [n EXCEPT !.indexes = Indexes] \in Collection
          /\ [n EXCEPT !.indexes = Indexes].points = n.points
      BY <3>2, <3>3, Zenon DEF Collection
    <3>5. /\ [m EXCEPT !.kind = "foreign"] \in Collection
          /\ [m EXCEPT !.kind = "foreign"].points = m.points
      BY <3>2, <3>3, Zenon DEF Collection
    <3> QED
      BY <3>1, <3>2, <3>3, <3>4, <3>5
  <2> QED
    BY <2>1, <2>2
<1>6. collections \in [Generations -> Collection]
  <2>1. collections = [g \in Generations |-> collections[g]]
    BY <1>1 DEF SearchInitWith
  <2> QED
    BY <1>5, <2>1
<1>7. /\ removal = NoRemoval /\ writer = NoWriter
      /\ prepare = [c \in Preparers |->
           [pc |-> IF p.ready THEN "ready" ELSE "idle", gen |-> 2, missing |-> {}]]
  BY <1>1 DEF SearchInitWith
<1>8. \A c \in Preparers :
        prepare[c] \in Preparation /\ (prepare[c].pc = "ready" \/ prepare[c].pc = "idle")
  BY <1>3, <1>7 DEF Preparation, Calls, Outcomes
<1>9. prepare \in [Preparers -> Preparation]
  BY <1>7, <1>8
<1>10. IndexTypes /\ ForeignSafe
  BY <1>6, <1>7, <1>9 DEF IndexTypes, ForeignSafe, NoRemoval, NoWriter, WriterRec
<1>11. PointsFit
  BY <1>5 DEF PointsFit
<1>12. Alone
  <2>1. removal.pc = "idle"
    BY <1>7 DEF NoRemoval
  <2>2. ASSUME NEW g \in Generations, ~plan.foreign
        PROVE  Kind(g) # "foreign"
    BY <1>1, <1>2, <2>2 DEF SearchInitWith, Kind, NewCollection, NoCollection
  <2> QED
    BY <2>1, <2>2 DEF Alone, Undisturbed
<1>13. \A c \in Preparers : PreparationFits(prepare[c])
  BY <1>8 DEF PreparationFits, Described
<1>14. FaultsFit
  BY <1>1, <1>2 DEF SearchInitWith, FaultsFit
<1>15. search = [s \in Searches |-> NewSearch]
  BY <1>1 DEF SearchInitWith
<1>16. \A s \in Searches : search[s] = NewSearch /\ search[s].pc = "idle"
  BY <1>15, NewIs
<1>17. RecordTypes
  <2>1. search \in [Searches -> SearchRec]
    BY <1>15, NewIs
  <2> QED
    BY <1>1, <2>1 DEF SearchInitWith, RecordTypes
<1>18. PermitsExact
  <2>1. {s \in Searches : search[s].pc = "rerankCall"} = {}
    BY <1>16
  <2>2. Cardinality({s \in Searches : search[s].pc = "rerankCall"}) = 0
    BY <2>1, FS_EmptySet
  <2>3. permits = 0 /\ MaxRerank \in Nat
    BY <1>1, RetrievalAssumption DEF SearchInitWith
  <2> QED
    BY <2>2, <2>3 DEF PermitsExact
<1>19. ASSUME NEW s \in Searches
       PROVE  UpToDate(s) /\ SearchOK(s)
  <2>1. queryLog[s] = <<>> /\ Told(s).row = <<>> /\ Told(s).task = "none"
    BY <1>1 DEF SearchInitWith, Told
  <2> QED
    BY <1>16, <2>1, NewFits DEF UpToDate, Under, SearchOK
<1>20. ObserversFit
  <2>1. \A s \in Searches : observers[s] = "none"
    BY <1>1 DEF SearchInitWith
  <2>2. InFlight = {}
    BY <2>1 DEF InFlight
  <2>3. Cardinality(InFlight) = 0 /\ MaxObservers \in Nat
    BY <2>2, FS_EmptySet, RetrievalAssumption
  <2> QED
    BY <2>1, <2>3 DEF ObserversFit
<1> QED
  BY <1>4, <1>10, <1>11, <1>12, <1>13, <1>14, <1>17, <1>18, <1>19, <1>20 DEF SearchInv, IndexInv

LEMMA NextKeeps ==
  ASSUME SearchInv, SearchNext
  PROVE  SearchInv' /\ ForeignKept
<1>0. Remember /\ UNCHANGED plan
  BY DEF SearchNext
<1>1. ASSUME NEW s \in Searches, SearchStep(s)
      PROVE  SearchInv' /\ ForeignKept
  <2>1. CASE ReadTarget(s) \/ ReadRuntime(s) \/ FilterDocuments(s) \/ DatabaseFails(s)
    BY <1>0, <2>1, ReadTargetKeeps, ReadRuntimeKeeps, FilterDocumentsKeeps, DatabaseFailsKeeps
  <2>2. CASE \/ ReadCredential(s) \/ ProviderAnswers(s)
             \/ BeginReport(s) \/ ReportEnds(s) \/ ReportTimesOut(s)
    BY <1>0, <2>2, ReadCredentialKeeps, ProviderAnswersKeeps, BeginReportKeeps, ReportEndsKeeps,
       ReportTimesOutKeeps
  <2>3. CASE CollectionInfo(s) \/ QueryPoints(s) \/ QueryMalformed(s) \/ QueryLost(s) \/ Recheck(s)
    BY <1>0, <2>3, CollectionInfoKeeps, QueryPointsKeeps, QueryMalformedKeeps, QueryLostKeeps,
       RecheckKeeps
  <2>4. CASE RerankRuntime(s) \/ TakePermit(s) \/ RerankAnswers(s) \/ RerankFails(s)
    BY <1>0, <2>4, RerankRuntimeKeeps, TakePermitKeeps, RerankAnswersKeeps, RerankFailsKeeps
  <2>5. CASE RecordQuery(s)
    BY <1>0, <2>5, RecordQueryKeeps
  <2> QED
    BY <1>1, <2>1, <2>2, <2>3, <2>4, <2>5 DEF SearchStep
<1>2. ASSUME NEW s \in Searches, Submit(s) \/ Cancel(s) \/ CancelReport(s) \/ ObserverEnds(s)
      PROVE  SearchInv' /\ ForeignKept
  BY <1>0, <1>2, SubmitKeeps, CancelKeeps, CancelReportKeeps, ObserverEndsKeeps
<1>3. CASE IndexStep
  BY <1>0, <1>3, IndexChangesKeep
<1> QED
  BY <1>1, <1>2, <1>3 DEF SearchNext

LEMMA SearchStutters ==
  ASSUME SearchInv, UNCHANGED searchVars
  PROVE  SearchInv'
<1> USE DEF searchVars, indexVars, metadataVars, serviceVars
<1>1. IndexInv'
  <2>1. Undisturbed' => Undisturbed
    BY DEF Undisturbed
  <2> QED
    BY <2>1, IndexSame DEF SearchInv
<1>2. MetadataTypes' /\ FaultsFit'
  BY DEF SearchInv, MetadataTypes, FaultsFit, CallFailed
<1>3. PermitsExact' /\ RecordTypes' /\ ObserversFit'
  BY DEF SearchInv, PermitsExact, RecordTypes, ObserversFit, InFlight, Begun
<1>4. ASSUME NEW s \in Searches
      PROVE  UpToDate(s)' /\ SearchOK(s)'
  BY DEF SearchInv, UpToDate, Visible, SearchOK, CallFailed, Told
<1> QED
  BY <1>1, <1>2, <1>3, <1>4 DEF SearchInv

-----------------------------------------------------------------------------
(* Theorems.                                                               *)

\* The inductive invariant holds: the collections are the service's or left
\* alone, every search is where its record says, with the generation that was
\* read once (services.py), candidates of that generation, results that could be
\* seen, its attempt, its report and its rows accounted for, no more observers in
\* flight than there may be, and as many permits taken as searches are in a call
\* of the reranker.
THEOREM SearchInvariant == SearchSpec => []SearchInv
<1>1. SearchInit => SearchInv
  BY SearchStarts
<1>2. SearchInv /\ [SearchNext]_searchVars => SearchInv'
  BY NextKeeps, SearchStutters
<1> QED
  BY <1>1, <1>2, PTL DEF SearchSpec

LEMMA SearchesTyped ==
  ASSUME SearchInv
  PROVE  SearchTypeOK
<1>1. /\ collections \in [Generations -> Collection]
      /\ \A c \in Preparers : prepare[c].pc \in Calls \cup Outcomes \cup {"idle"}
  BY DEF SearchInv, IndexInv, IndexTypes, Preparation
<1>2. \A s \in Searches :
        /\ search[s].status \in {"succeeded", "failed", "rejected"}
        /\ search[s].candidates \in Seq(Points) /\ search[s].results \in Seq(Points)
  <2> SUFFICES ASSUME NEW s \in Searches
               PROVE  /\ search[s].status \in {"succeeded", "failed", "rejected"}
                      /\ search[s].candidates \in Seq(Points) /\ search[s].results \in Seq(Points)
    OBVIOUS
  <2>1. search[s] \in SearchRec
    BY SearchOf
  <2> QED
    BY <2>1, Zenon DEF SearchRec
<1>3. faults \in 0 .. MaxFaults
  <2>1. plan.faults \in 0 .. MaxFaults /\ MaxFaults \in Nat
    BY PlansAssumption, VectorIndexAssumption DEF SearchInv, MetadataTypes
  <2> QED
    BY <2>1 DEF SearchInv, FaultsFit
<1>4. /\ kb \in {"active", "deleting", "gone"} /\ activeGen \in Generations
      /\ docs \in [Docs -> {"processing", "active", "failed"}]
      /\ states \in [Generations -> SUBSET Docs] /\ config \subseteq Switches
  BY DEF SearchInv, MetadataTypes
<1>5. observers \in [Searches -> ObserverState]
  <2>1. \A s \in Searches : observers[s] \in ObserverState
    BY SearchOf DEF SearchFits, UsageFits
  <2> QED
    BY <2>1 DEF SearchInv, RecordTypes
<1> QED
  BY <1>1, <1>2, <1>3, <1>4, <1>5 DEF SearchTypeOK

LEMMA SearchesSound ==
  ASSUME SearchInv
  PROVE  AnswersSound
<1>1. ASSUME NEW s \in Searches, NEW p \in ToSet(search[s].results)
      PROVE  <<search[s].gen, DocOf(p)>> \in ever[s].visible /\ Wanted(search[s], p)
  BY <1>1, SearchOf DEF SearchFits, ResultsFit
<1>2. AnswersWereVisible
  BY <1>1 DEF AnswersWereVisible
<1>3. OneGeneration
  <2>1. ASSUME NEW s \in Searches, Answered(s)
        PROVE  search[s].gen \in ever[s].active
    BY <2>1, SearchOf DEF Answered, SearchFits, GenFits
  <2> QED
    BY <1>1, <2>1 DEF OneGeneration, Wanted
<1>4. CrowdingBounded
  <2>1. ASSUME NEW s \in Searches
        PROVE  Crowding(search[s])
    BY SearchOf DEF SearchFits
  <2> QED
    BY <2>1 DEF CrowdingBounded, Crowding, Answered, Finished
<1>5. AnswersFit
  <2> SUFFICES ASSUME NEW s \in Searches, Answered(s)
               PROVE  /\ Len(search[s].results) <= search[s].req.topK
                      /\ IsInjective(search[s].results)
                      /\ ToSet(search[s].results) \subseteq ToSet(search[s].visible)
                      /\ search[s].req.docs # {} =>
                           \A p \in ToSet(search[s].results) : DocOf(p) \in search[s].req.docs
    BY DEF AnswersFit
  <2>1. /\ IsInjective(search[s].results)
        /\ ToSet(search[s].results) \subseteq ToSet(search[s].visible)
        /\ search[s].results # <<>> => Len(search[s].results) <= search[s].req.topK
    BY SearchOf DEF SearchFits, ResultsFit
  <2>2. search[s].req \in Requests
    BY SearchOf DEF Answered, Finished, SearchFits, GenFits
  <2>3. search[s].req.topK \in Nat
    BY <2>2, RequestIs
  <2>4. Len(search[s].results) <= search[s].req.topK
    <3>1. CASE search[s].results = <<>>
      BY <2>3, <3>1
    <3> QED
      BY <2>1, <3>1
  <2> QED
    BY <1>1, <2>1, <2>4 DEF Wanted
<1>6. RerankNeverFails
  BY SearchOf DEF RerankNeverFails, Finished, SearchFits, EndFits
<1> QED
  BY <1>2, <1>3, <1>4, <1>5, <1>6, SearchesTyped DEF AnswersSound

LEMMA OneRow ==
  ASSUME NEW a, NEW u, u = <<>> \/ u = <<a>>
  PROVE  Len(u) <= 1
<1>1. CASE u = <<>>
  BY <1>1
<1>2. CASE u = <<a>>
  BY <1>2
<1> QED
  BY <1>1, <1>2

LEMMA SearchesOnRecord ==
  ASSUME SearchInv
  PROVE  SearchesRecorded
<1>1. LoggedOnce
  <2> SUFFICES ASSUME NEW s \in Searches
               PROVE  /\ Len(queryLog[s]) <= 1
                      /\ search[s].pc = "done" /\ queryLog[s] = <<>> =>
                           CallFailed \/ search[s].cancelled
                      /\ \A row \in ToSet(queryLog[s]) :
                           /\ search[s].pc = "done"
                           /\ row.status = "succeeded" <=> search[s].code = "ok"
                           /\ row.status = "rejected" <=>
                                search[s].code \in {"notFound", "filter", "noReranker"}
                      /\ search[s].cancelled /\ search[s].pc = "done"
                           /\ search[s].code = "cancelled" =>
                           queryLog[s] # <<>> \/ CallFailed
    BY DEF LoggedOnce
  <2>1. /\ search[s].pc # "done" => queryLog[s] = <<>>
        /\ \/ queryLog[s] = <<>>
           \/ queryLog[s] = <<[status |-> search[s].status, degraded |-> search[s].degraded]>>
        /\ search[s].pc = "done" /\ queryLog[s] = <<>> =>
             CallFailed \/ (search[s].cancelled /\ search[s].code # "cancelled")
    BY SearchOf DEF SearchFits, LogFits
  <2>2. /\ search[s].status = "succeeded" <=> search[s].code = "ok"
        /\ search[s].status = "rejected" <=> search[s].code \in {"notFound", "filter", "noReranker"}
    BY SearchOf DEF SearchFits, EndFits
  <2>3. PICK l : l = queryLog[s]
    OBVIOUS
  <2>4. Len(l) <= 1 /\ \A row \in ToSet(l) : l # <<>> /\ row.status = search[s].status
    <3>1. CASE l = <<>>
      BY <3>1, Nothing
    <3>2. CASE l = <<[status |-> search[s].status, degraded |-> search[s].degraded]>>
      <4>1. PICK row : row = [status |-> search[s].status, degraded |-> search[s].degraded]
        OBVIOUS
      <4>2. l = <<row>> /\ row.status = search[s].status
        BY <3>2, <4>1
      <4>3. Len(l) = 1 /\ ToSet(l) = {row} /\ l # <<>>
        BY <4>2 DEF ToSet
      <4> QED
        BY <4>2, <4>3
    <3> QED
      BY <2>1, <2>3, <3>1, <3>2
  <2> QED
    BY <2>1, <2>2, <2>3, <2>4
<1>2. AttemptsReported
  <2> SUFFICES ASSUME NEW s \in Searches, NEW r, r = search[s], NEW u, u = usage[s],
                      NEW o, o = observers[s]
               PROVE  LET past == r.pc \notin {"idle", "target", "runtime", "documents",
                                               "credential", "call", "observe", "report"}
                      IN /\ Len(u) <= 1
                         /\ u # <<>> => r.sent /\ u = <<r.attempt>>
                         /\ past /\ r.sent => r.attempt # "none"
                         /\ past /\ r.sent /\ u = <<>>
                              => \/ CallFailed
                                 \/ o = "full"
                                 \/ /\ r.cancelled /\ r.attempt # "cancelled"
                                    /\ o \in {"left", "cut"}
                         /\ r.pc \in {"log", "done"} /\ r.sent /\ ~r.cancelled
                              => (r.attempt = "succeeded" <=> r.code # "embedding")
    BY Zenon DEF AttemptsReported, Finished
  <2>1. PICK v : v = Told(s)
    OBVIOUS
  <2>2. UsageFits(r, v, CallFailed) /\ v.row = u /\ v.task = o
    BY <2>1, SearchOf DEF SearchFits
  <2>3. u = <<>> \/ u = <<r.attempt>>
    BY <2>2 DEF UsageFits, RowFits
  <2>4. Len(u) <= 1
    BY <2>3, OneRow
  <2>5. u # <<>> => r.sent
    BY <2>2 DEF UsageFits, RowFits
  <2> QED
    BY <2>2, <2>3, <2>4, <2>5 DEF UsageFits, RowFits, ObserverState
<1>3. ObserversExact
  <2>1. ASSUME NEW s \in Searches
        PROVE  /\ observers[s] = "running" <=> search[s].pc = "report"
               /\ observers[s] \in {"left", "cut"} => CallFailed \/ search[s].cancelled
    BY SearchOf DEF SearchFits, UsageFits, RowFits
  <2> QED
    BY <2>1 DEF SearchInv, ObserversFit, ObserversExact
<1> QED
  BY <1>1, <1>2, <1>3 DEF SearchInv, SearchesRecorded

\* Whatever changes in the index while a search runs, its response holds at most
\* top_k chunks, none twice, of documents asked for and visible at some moment of
\* the search in the one generation the response names; hidden points cost it
\* nothing below candidate_limit's excess, and the reranker never costs it its
\* results (search, _apply_rerank).
THEOREM AnswersAreSound == SearchSpec => []AnswersSound
BY SearchInvariant, SearchesSound, PTL

\* However a search ends, and wherever it is cancelled, its query log row and its
\* usage row say what happened, at most once; its usage row is missing only
\* after a failure, after a cancellation during the report, or where as many
\* other reports had begun as _notify_attempt lets be in flight; observers never
\* exceed that number, and its permit is given back (the finally blocks of
\* search and of the two gateways).
THEOREM SearchesAreRecorded == SearchSpec => []SearchesRecorded
BY SearchInvariant, SearchesOnRecord, PTL

\* Requests that prepare one collection never take each other's half of the work
\* for a mismatch, and no collection that is not the service's is ever changed or
\* deleted (ensure_collection, ensure_payload_indexes, delete_collection).
THEOREM CollectionsAreOwned == SearchSpec => CollectionsOwned
<1> DEFINE NoMismatch == \A c \in Preparers :
             prepare'[c].pc = "mismatch" => plan.foreign \/ plan.removal \/ kb' # "active"
           Untouched == \A g \in Generations :
             collections[g].kind = "foreign" => collections'[g] = collections[g]
<1>1. SearchInv /\ [SearchNext]_searchVars => [NoMismatch]_searchVars
  <2> SUFFICES ASSUME SearchInv, SearchNext
               PROVE  NoMismatch
    OBVIOUS
  <2>1. SearchInv' /\ plan' = plan
    BY NextKeeps DEF SearchNext
  <2> QED
    BY <2>1 DEF SearchInv, IndexInv, PreparationFits, Undisturbed
<1>2. SearchInv /\ [SearchNext]_searchVars => [Untouched]_searchVars
  BY NextKeeps DEF ForeignKept, Kind
<1> HIDE DEF NoMismatch, Untouched
<1>3. SearchSpec => [][NoMismatch]_searchVars /\ [][Untouched]_searchVars
  BY <1>1, <1>2, SearchInvariant, PTL DEF SearchSpec
<1> QED
  BY <1>3 DEF CollectionsOwned, NoFalseMismatch, ForeignUntouched, NoMismatch, Untouched

-----------------------------------------------------------------------------
(* Index generations.                                                      *)

USE NoneAssumption, BoundsAssumption

\* Whoever works on a key has one.
WorkHasKey ==
  /\ \A s \in Sagas : sagas[s].pc # "idle" => sagas[s].key \in Keys
  /\ \A r \in Reconcilers : cleaners[r].pc # "idle" => cleaners[r].key \in Keys

\* The creation requests against the generations they created.
RequestsMatch ==
  /\ \A k \in Keys :
       /\ request[k] = "absent" => gens[k] = "absent"
       /\ request[k] = "building" => gens[k] \in {"building", "failed"}
  /\ status = "gone" => \A k \in Keys : request[k] = "absent"
  /\ status # "gone" =>
       \A s \in Sagas : sagas[s].pc # "idle" => request[sagas[s].key] # "absent"

\* A cleanup claim, held or completed, is a verdict: its generation is dead, and
\* a reconciler about to delete has such a claim behind it even when the lease
\* ran out or another reconciler took it over.
ClaimsAreFinal ==
  /\ \A k \in Keys : claims[k].state # "none" => gens[k] \in {"absent", "failed"}
  /\ \A r \in Reconcilers :
       cleaners[r].pc # "idle" => claims[cleaners[r].key].state # "none"

\* While the knowledge base is active, what serves has its collection, and so
\* has whatever a request found or created and nobody has failed since.
CollectionsKept ==
  status = "active" =>
    /\ \A k \in Keys : gens[k] = "active" => collection[k]
    /\ \A s \in Sagas :
         /\ sagas[s].pc \in {"ensured", "verified"}
         /\ gens[sagas[s].key] \in {"building", "active"}
         => collection[sagas[s].key]

IInv ==
  /\ TypeOK /\ PointersAgree
  /\ WorkHasKey /\ RequestsMatch /\ ClaimsAreFinal /\ CollectionsKept

-----------------------------------------------------------------------------
\* A fresh knowledge base: no generation, no request, no claim, nobody at work.
LEMMA InitIInv == Init => IInv
BY DEF Init, IInv, TypeOK, PointersAgree, WorkHasKey, RequestsMatch, ClaimsAreFinal,
       CollectionsKept, Resting, Unclaimed, Saga, Cleaner, Claim

\* A new build needs a key without request, so without generation and claim.
LEMMA StepReserve ==
  ASSUME IInv, NEW s \in Sagas, NEW k \in Keys, Reserve(s, k)
  PROVE  IInv'
<1> USE DEF IInv, Reserve
<1>1. TypeOK'
  BY DEF TypeOK, Saga
<1>2. PointersAgree'
  BY DEF TypeOK, PointersAgree, RequestsMatch
<1>3. WorkHasKey'
  BY DEF WorkHasKey
<1>4. RequestsMatch'
  BY DEF TypeOK, RequestsMatch
<1>5. ClaimsAreFinal'
  BY DEF ClaimsAreFinal
<1>6. CollectionsKept'
  BY DEF CollectionsKept, RequestsMatch
<1> QED
  BY <1>1, <1>2, <1>3, <1>4, <1>5, <1>6

\* A replay only takes up the key; the generation stays as it is.
LEMMA StepResume ==
  ASSUME IInv, NEW s \in Sagas, NEW k \in Keys, Resume(s, k)
  PROVE  IInv'
<1> USE DEF IInv, Resume, rows
<1>1. TypeOK'
  BY DEF TypeOK, Saga
<1>2. PointersAgree'
  BY DEF PointersAgree
<1>3. WorkHasKey'
  BY DEF WorkHasKey
<1>4. RequestsMatch'
  BY DEF RequestsMatch
<1>5. ClaimsAreFinal'
  BY DEF ClaimsAreFinal
<1>6. CollectionsKept'
  BY DEF CollectionsKept
<1> QED
  BY <1>1, <1>2, <1>3, <1>4, <1>5, <1>6

\* Failing a creation clears the pointer along with the status.
LEMMA StepReplayFails ==
  ASSUME IInv, NEW k \in Keys, ReplayFails(k)
  PROVE  IInv'
<1> USE DEF IInv, ReplayFails, FailCreation
<1>1. TypeOK'
  BY DEF TypeOK
<1>2. PointersAgree'
  BY DEF TypeOK, PointersAgree, RequestsMatch
<1>3. WorkHasKey'
  BY DEF WorkHasKey
<1>4. RequestsMatch'
  BY DEF RequestsMatch
<1>5. ClaimsAreFinal'
  BY DEF ClaimsAreFinal
<1>6. CollectionsKept'
  BY DEF CollectionsKept
<1> QED
  BY <1>1, <1>2, <1>3, <1>4, <1>5, <1>6

\* Creating a collection can only help what serves.
LEMMA StepEnsure ==
  ASSUME IInv, NEW s \in Sagas, EnsureCollection(s)
  PROVE  IInv'
<1> USE DEF IInv, EnsureCollection, Go, rows
<1>1. TypeOK'
  BY DEF TypeOK, Saga
<1>2. PointersAgree'
  BY DEF PointersAgree
<1>3. WorkHasKey'
  BY DEF WorkHasKey
<1>4. RequestsMatch'
  BY DEF RequestsMatch
<1>5. ClaimsAreFinal'
  BY DEF ClaimsAreFinal
<1>6. CollectionsKept'
  BY DEF TypeOK, CollectionsKept, WorkHasKey
<1> QED
  BY <1>1, <1>2, <1>3, <1>4, <1>5, <1>6

\* The probes write nothing but the position of the request.
LEMMA StepVerify ==
  ASSUME IInv, NEW s \in Sagas, Verify(s)
  PROVE  IInv'
<1> USE DEF IInv, Verify, Go, rows
<1>1. TypeOK'
  BY DEF TypeOK, Saga
<1>2. PointersAgree'
  BY DEF PointersAgree
<1>3. WorkHasKey'
  BY DEF WorkHasKey
<1>4. RequestsMatch'
  BY DEF RequestsMatch
<1>5. ClaimsAreFinal'
  BY DEF ClaimsAreFinal
<1>6. CollectionsKept'
  BY DEF CollectionsKept
<1> QED
  BY <1>1, <1>2, <1>3, <1>4, <1>5, <1>6

\* A failed call leaves the rows to _mark_failed.
LEMMA StepSagaFails ==
  ASSUME IInv, NEW s \in Sagas, SagaFails(s)
  PROVE  IInv'
<1> USE DEF IInv, SagaFails, Go, rows
<1>1. TypeOK'
  BY DEF TypeOK, Saga
<1>2. PointersAgree'
  BY DEF PointersAgree
<1>3. WorkHasKey'
  BY DEF WorkHasKey
<1>4. RequestsMatch'
  BY DEF RequestsMatch
<1>5. ClaimsAreFinal'
  BY DEF ClaimsAreFinal
<1>6. CollectionsKept'
  BY DEF CollectionsKept
<1> QED
  BY <1>1, <1>2, <1>3, <1>4, <1>5, <1>6

\* A request that ends in the middle undoes nothing.
LEMMA StepSagaDies ==
  ASSUME IInv, NEW s \in Sagas, SagaDies(s)
  PROVE  IInv'
<1> USE DEF IInv, SagaDies, EndSaga, Resting, rows
<1>1. TypeOK'
  BY DEF TypeOK, Saga
<1>2. PointersAgree'
  BY DEF PointersAgree
<1>3. WorkHasKey'
  BY DEF WorkHasKey
<1>4. RequestsMatch'
  BY DEF RequestsMatch
<1>5. ClaimsAreFinal'
  BY DEF ClaimsAreFinal
<1>6. CollectionsKept'
  BY DEF CollectionsKept
<1> QED
  BY <1>1, <1>2, <1>3, <1>4, <1>5, <1>6

\* _mark_failed leaves answered requests and active generations alone.
LEMMA StepMarkFailed ==
  ASSUME IInv, NEW s \in Sagas, MarkFailed(s)
  PROVE  IInv'
<1> USE DEF IInv, MarkFailed, FailCreation, EndSaga, Resting, rows
<1>1. TypeOK'
  BY DEF TypeOK, Saga
<1>2. PointersAgree'
  BY DEF TypeOK, PointersAgree
<1>3. WorkHasKey'
  BY DEF WorkHasKey
<1>4. RequestsMatch'
  BY DEF TypeOK, RequestsMatch, WorkHasKey
<1>5. ClaimsAreFinal'
  BY DEF TypeOK, ClaimsAreFinal
<1>6. CollectionsKept'
  BY DEF TypeOK, CollectionsKept, WorkHasKey
<1> QED
  BY <1>1, <1>2, <1>3, <1>4, <1>5, <1>6

\* _activate promotes only a building generation without a claim, whose collection
\* CollectionsKept says is there.
LEMMA StepActivate ==
  ASSUME IInv, NEW s \in Sagas, Activate(s)
  PROVE  IInv'
<1> USE DEF IInv, Activate, Promote, StillCurrent, FailCreation, EndSaga, Resting, rows
<1>1. TypeOK'
  <2> DEFINE k == sagas[s].key
  <2>1. k \in Keys
    BY DEF WorkHasKey
  <2>2. sagas' \in [Sagas -> Saga]
    BY DEF TypeOK, Saga
  <2>3. CASE Promote(k)
    BY <2>1, <2>2, <2>3 DEF TypeOK
  <2>4. CASE FailCreation(k)
    BY <2>1, <2>2, <2>4 DEF TypeOK
  <2>5. CASE UNCHANGED rows
    BY <2>1, <2>2, <2>5 DEF TypeOK
  <2> QED
    BY <2>3, <2>4, <2>5
<1>2. PointersAgree'
  BY DEF TypeOK, PointersAgree, RequestsMatch, Claim
<1>3. WorkHasKey'
  BY DEF WorkHasKey
<1>4. RequestsMatch'
  BY DEF TypeOK, RequestsMatch, PointersAgree, WorkHasKey
<1>5. ClaimsAreFinal'
  BY DEF TypeOK, ClaimsAreFinal, PointersAgree
<1>6. CollectionsKept'
  BY DEF TypeOK, CollectionsKept, WorkHasKey
<1> QED
  BY <1>1, <1>2, <1>3, <1>4, <1>5, <1>6

\* Abandoning clears the pointer and leaves the request to its replay.
LEMMA StepAbandon ==
  ASSUME IInv, NEW k \in Keys, Abandon(k)
  PROVE  IInv'
<1> USE DEF IInv, Abandon
<1>1. TypeOK'
  BY DEF TypeOK
<1>2. PointersAgree'
  BY DEF TypeOK, PointersAgree
<1>3. WorkHasKey'
  BY DEF WorkHasKey
<1>4. RequestsMatch'
  BY DEF RequestsMatch
<1>5. ClaimsAreFinal'
  BY DEF ClaimsAreFinal
<1>6. CollectionsKept'
  BY DEF CollectionsKept
<1> QED
  BY <1>1, <1>2, <1>3, <1>4, <1>5, <1>6

\* A new filter schema touches no generation.
LEMMA StepReplaceFilterSchema ==
  ASSUME IInv, ReplaceFilterSchema
  PROVE  IInv'
<1> USE DEF IInv, ReplaceFilterSchema
<1>1. TypeOK'
  BY DEF TypeOK
<1>2. PointersAgree'
  BY DEF PointersAgree
<1>3. WorkHasKey'
  BY DEF WorkHasKey
<1>4. RequestsMatch'
  BY DEF RequestsMatch
<1>5. ClaimsAreFinal'
  BY DEF ClaimsAreFinal
<1>6. CollectionsKept'
  BY DEF CollectionsKept
<1> QED
  BY <1>1, <1>2, <1>3, <1>4, <1>5, <1>6

\* A knowledge base being deleted promises nothing about its collections.
LEMMA StepDelete ==
  ASSUME IInv, DeleteKnowledgeBase
  PROVE  IInv'
<1> USE DEF IInv, DeleteKnowledgeBase
<1>1. TypeOK'
  BY DEF TypeOK
<1>2. PointersAgree'
  BY DEF PointersAgree
<1>3. WorkHasKey'
  BY DEF WorkHasKey
<1>4. RequestsMatch'
  BY DEF RequestsMatch
<1>5. ClaimsAreFinal'
  BY DEF ClaimsAreFinal
<1>6. CollectionsKept'
  BY DEF CollectionsKept
<1> QED
  BY <1>1, <1>2, <1>3, <1>4, <1>5, <1>6

\* The purge leaves claims behind: their generations are gone, as a verdict allows.
LEMMA StepPurge ==
  ASSUME IInv, Purge
  PROVE  IInv'
<1> USE DEF IInv, Purge
<1>1. TypeOK'
  BY DEF TypeOK
<1>2. PointersAgree'
  BY DEF PointersAgree
<1>3. WorkHasKey'
  BY DEF WorkHasKey
<1>4. RequestsMatch'
  BY DEF RequestsMatch
<1>5. ClaimsAreFinal'
  BY DEF ClaimsAreFinal
<1>6. CollectionsKept'
  BY DEF CollectionsKept
<1> QED
  BY <1>1, <1>2, <1>3, <1>4, <1>5, <1>6

\* A claim is made only over a failed or absent generation, with status and claim
\* under one lock.
LEMMA StepClaimCleanup ==
  ASSUME IInv, NEW r \in Reconcilers, NEW k \in Keys, ClaimCleanup(r, k)
  PROVE  IInv'
<1> USE DEF IInv, ClaimCleanup, Unserved, rows
<1>1. TypeOK'
  BY DEF TypeOK, Cleaner, Claim
<1>2. PointersAgree'
  BY DEF PointersAgree
<1>3. WorkHasKey'
  BY DEF WorkHasKey
<1>4. RequestsMatch'
  BY DEF RequestsMatch
<1>5. ClaimsAreFinal'
  BY DEF TypeOK, ClaimsAreFinal
<1>6. CollectionsKept'
  BY DEF CollectionsKept
<1> QED
  BY <1>1, <1>2, <1>3, <1>4, <1>5, <1>6

\* A claim that held until the authorization is a verdict, so the release of a
\* claim over a served collection never happens.
LEMMA StepAuthorize ==
  ASSUME IInv, NEW r \in Reconcilers, Authorize(r)
  PROVE  IInv'
<1> USE DEF IInv, Authorize, Holds, Unserved, At, EndCleaning, Resting, Unclaimed, rows
<1> DEFINE k == cleaners[r].key
<1>a. k \in Keys /\ claims[k].state # "none" /\ Unserved(k)
  BY DEF WorkHasKey, ClaimsAreFinal
<1>b. claims' = claims
  BY <1>a
<1>c. cleaners' = [cleaners EXCEPT ![r].pc = "deleting"]
      \/ cleaners' = [cleaners EXCEPT ![r] = Resting]
  OBVIOUS
<1>1. TypeOK'
  BY <1>b, <1>c DEF TypeOK, Cleaner
<1>2. PointersAgree'
  BY DEF PointersAgree
<1>3. WorkHasKey'
  BY DEF TypeOK, WorkHasKey, Cleaner
<1>4. RequestsMatch'
  BY DEF RequestsMatch
<1>5. ClaimsAreFinal'
  <2>1. \A q \in Reconcilers : cleaners'[q].pc # "idle" =>
          cleaners[q].pc # "idle" /\ cleaners'[q].key = cleaners[q].key
    BY <1>c DEF TypeOK, Cleaner
  <2>2. gens' = gens
    OBVIOUS
  <2> HIDE DEF Authorize
  <2> QED
    BY <1>b, <2>1, <2>2 DEF ClaimsAreFinal
<1>6. CollectionsKept'
  BY DEF CollectionsKept
<1> QED
  BY <1>1, <1>2, <1>3, <1>4, <1>5, <1>6

\* The unlocked delete hits a generation that is dead by ClaimsAreFinal.
LEMMA StepDeleteCollection ==
  ASSUME IInv, NEW r \in Reconcilers, DeleteCollection(r)
  PROVE  IInv'
<1> USE DEF IInv, DeleteCollection, At, rows
<1>1. TypeOK'
  BY DEF TypeOK, Cleaner
<1>2. PointersAgree'
  BY DEF PointersAgree
<1>3. WorkHasKey'
  BY DEF WorkHasKey
<1>4. RequestsMatch'
  BY DEF RequestsMatch
<1>5. ClaimsAreFinal'
  BY DEF ClaimsAreFinal
<1>6. CollectionsKept'
  BY DEF CollectionsKept, ClaimsAreFinal, WorkHasKey
<1> QED
  BY <1>1, <1>2, <1>3, <1>4, <1>5, <1>6

\* A refused delete keeps the claim.
LEMMA StepDeleteRefused ==
  ASSUME IInv, NEW r \in Reconcilers, DeleteRefused(r)
  PROVE  IInv'
<1> USE DEF IInv, DeleteRefused, Interrupt, At, rows
<1>1. TypeOK'
  <2>1. spare' \in 0 .. Interruptions
    BY DEF TypeOK
  <2>2. cleaners' \in [Reconcilers -> Cleaner]
    BY DEF TypeOK, Cleaner
  <2> QED
    BY <2>1, <2>2 DEF TypeOK
<1>2. PointersAgree'
  BY DEF PointersAgree
<1>3. WorkHasKey'
  BY DEF WorkHasKey
<1>4. RequestsMatch'
  BY DEF RequestsMatch
<1>5. ClaimsAreFinal'
  BY DEF ClaimsAreFinal
<1>6. CollectionsKept'
  BY DEF CollectionsKept
<1> QED
  BY <1>1, <1>2, <1>3, <1>4, <1>5, <1>6

\* A completed claim is still a verdict.
LEMMA StepComplete ==
  ASSUME IInv, NEW r \in Reconcilers, CompleteCleanup(r)
  PROVE  IInv'
<1> USE DEF IInv, CompleteCleanup, Holds, EndCleaning, Resting, rows
<1>1. TypeOK'
  <2>1. claims' \in [Keys -> Claim]
    BY SMTT(30) DEF TypeOK, WorkHasKey, Claim
  <2>2. cleaners' \in [Reconcilers -> Cleaner]
    BY DEF TypeOK, Cleaner
  <2> QED
    BY <2>1, <2>2 DEF TypeOK
<1>2. PointersAgree'
  BY DEF PointersAgree
<1>3. WorkHasKey'
  BY DEF WorkHasKey
<1>4. RequestsMatch'
  BY DEF RequestsMatch
<1>5. ClaimsAreFinal'
  BY DEF TypeOK, ClaimsAreFinal, WorkHasKey
<1>6. CollectionsKept'
  BY DEF CollectionsKept
<1> QED
  BY <1>1, <1>2, <1>3, <1>4, <1>5, <1>6

\* An expired claim is still a verdict.
LEMMA StepExpire ==
  ASSUME IInv, NEW r \in Reconcilers, ExpireCleanup(r)
  PROVE  IInv'
<1> USE DEF IInv, ExpireCleanup, Holds, EndCleaning, Resting, rows
<1>1. TypeOK'
  <2>1. claims' \in [Keys -> Claim]
    BY ZenonT(60) DEF TypeOK, Claim
  <2>2. cleaners' \in [Reconcilers -> Cleaner]
    BY DEF TypeOK, Cleaner
  <2> QED
    BY <2>1, <2>2 DEF TypeOK
<1>2. PointersAgree'
  BY DEF PointersAgree
<1>3. WorkHasKey'
  BY DEF WorkHasKey
<1>4. RequestsMatch'
  BY DEF RequestsMatch
<1>5. ClaimsAreFinal'
  BY DEF ClaimsAreFinal
<1>6. CollectionsKept'
  BY DEF CollectionsKept
<1> QED
  BY <1>1, <1>2, <1>3, <1>4, <1>5, <1>6

\* A dead reconciler leaves its claim.
LEMMA StepCleanerDies ==
  ASSUME IInv, NEW r \in Reconcilers, CleanerDies(r)
  PROVE  IInv'
<1> USE DEF IInv, CleanerDies, Interrupt, EndCleaning, Resting, rows
<1>1. TypeOK'
  BY DEF TypeOK, Cleaner
<1>2. PointersAgree'
  BY DEF PointersAgree
<1>3. WorkHasKey'
  BY DEF WorkHasKey
<1>4. RequestsMatch'
  BY DEF RequestsMatch
<1>5. ClaimsAreFinal'
  BY DEF ClaimsAreFinal
<1>6. CollectionsKept'
  BY DEF CollectionsKept
<1> QED
  BY <1>1, <1>2, <1>3, <1>4, <1>5, <1>6

\* A lease running out leaves the claim and the reconciler's work.
LEMMA StepLeaseExpires ==
  ASSUME IInv, NEW k \in Keys, LeaseExpires(k)
  PROVE  IInv'
<1> USE DEF IInv, LeaseExpires, Holds, Interrupt, rows
<1>1. TypeOK'
  <2>1. claims' \in [Keys -> Claim]
    BY ZenonT(60) DEF TypeOK, Claim
  <2>2. spare' \in 0 .. Interruptions
    BY DEF TypeOK
  <2> QED
    BY <2>1, <2>2 DEF TypeOK
<1>2. PointersAgree'
  BY DEF PointersAgree
<1>3. WorkHasKey'
  BY DEF WorkHasKey
<1>4. RequestsMatch'
  BY DEF RequestsMatch
<1>5. ClaimsAreFinal'
  BY DEF ClaimsAreFinal
<1>6. CollectionsKept'
  BY DEF CollectionsKept
<1> QED
  BY <1>1, <1>2, <1>3, <1>4, <1>5, <1>6

-----------------------------------------------------------------------------
\* Every step keeps the invariant.
LEMMA StepIInv == IInv /\ [Next]_vars => IInv'
<1> SUFFICES ASSUME IInv, [Next]_vars PROVE IInv'
  OBVIOUS
<1>1. CASE UNCHANGED vars
  BY <1>1 DEF vars, IInv, TypeOK, PointersAgree, WorkHasKey, RequestsMatch,
              ClaimsAreFinal, CollectionsKept
<1>2. ASSUME NEW s \in Sagas, SagaStep(s) PROVE IInv'
  BY <1>2, StepReserve, StepResume, StepEnsure, StepVerify, StepSagaFails, StepSagaDies,
     StepMarkFailed, StepActivate DEF SagaStep
<1>3. ASSUME NEW k \in Keys, ReplayFails(k) \/ Abandon(k) \/ LeaseExpires(k) PROVE IInv'
  BY <1>3, StepReplayFails, StepAbandon, StepLeaseExpires
<1>4. CASE ReplaceFilterSchema \/ DeleteKnowledgeBase \/ Purge
  BY <1>4, StepReplaceFilterSchema, StepDelete, StepPurge
<1>5. ASSUME NEW r \in Reconcilers, CleanerStep(r) \/ DeleteRefused(r) \/ CleanerDies(r)
      PROVE  IInv'
  BY <1>5, StepClaimCleanup, StepAuthorize, StepDeleteCollection, StepComplete, StepExpire,
     StepDeleteRefused, StepCleanerDies DEF CleanerStep
<1> QED
  BY <1>1, <1>2, <1>3, <1>4, <1>5 DEF Next

\* The inductive invariant holds in every reachable state.
THEOREM Inductive == Spec => []IInv
BY InitIInv, StepIInv, PTL DEF Spec

\* Every variable keeps its type: statuses, pointers, claims and the state of
\* requests and reconcilers.
THEOREM TypeCorrect == Spec => []TypeOK
<1>1. IInv => TypeOK
  BY DEF IInv
<1> QED
  BY <1>1, Inductive, PTL

\* The pointers of the knowledge base name the active and the building
\* generation, for any number of concurrent requests and reconcilers.
THEOREM PointersAgreeAlways == Spec => []PointersAgree
<1>1. IInv => PointersAgree
  BY DEF IInv
<1> QED
  BY <1>1, Inductive, PTL

\* The generation that searches go to has its collection.
THEOREM ServedAlways == Spec => []ServedCollectionExists
<1>1. IInv => ServedCollectionExists
  BY DEF IInv, TypeOK, PointersAgree, CollectionsKept, ServedCollectionExists
<1> QED
  BY <1>1, Inductive, PTL

\* delete_collection of a reconciler only ever hits collections of generations
\* that failed or are gone.
THEOREM OrphansOnly == Spec => OnlyOrphansDeleted
<1> DEFINE Safe == \A k \in Keys :
      collection[k] /\ ~collection'[k] => gens[k] \in {"absent", "failed"} \/ status' = "gone"
<1>1. IInv /\ [Next]_vars => [Safe]_vars
  <2> SUFFICES ASSUME IInv, Next PROVE Safe
    OBVIOUS
  <2>1. ASSUME NEW s \in Sagas, SagaStep(s) PROVE Safe
    BY <2>1 DEF SagaStep, Reserve, Resume, EnsureCollection, Verify, SagaFails,
                SagaDies, MarkFailed, Activate, IInv, TypeOK
  <2>2. ASSUME NEW k \in Keys, ReplayFails(k) \/ Abandon(k) \/ LeaseExpires(k) PROVE Safe
    BY <2>2 DEF ReplayFails, Abandon, LeaseExpires
  <2>3. CASE ReplaceFilterSchema \/ DeleteKnowledgeBase \/ Purge
    BY <2>3 DEF ReplaceFilterSchema, DeleteKnowledgeBase, Purge
  <2>4. ASSUME NEW r \in Reconcilers, DeleteCollection(r) PROVE Safe
    BY <2>4 DEF DeleteCollection, IInv, ClaimsAreFinal
  <2>5. ASSUME NEW r \in Reconcilers, CleanerStep(r) \/ DeleteRefused(r) \/ CleanerDies(r),
               ~DeleteCollection(r)
        PROVE  Safe
    BY <2>5 DEF CleanerStep, ClaimCleanup, Authorize, CompleteCleanup, ExpireCleanup,
                DeleteRefused, CleanerDies
  <2> QED
    BY <2>1, <2>2, <2>3, <2>4, <2>5 DEF Next
<1> QED
  BY <1>1, Inductive, PTL DEF Spec, OnlyOrphansDeleted

\* A failed or abandoned generation and the answer of a failed request stay so.
THEOREM FailuresStay == Spec => FailureIsFinal
<1> DEFINE Final == \A k \in Keys :
      /\ gens[k] = "failed" => gens'[k] = "failed" \/ status' = "gone"
      /\ request[k] = "failed" => request'[k] = "failed" \/ status' = "gone"
<1>1. IInv /\ [Next]_vars => [Final]_vars
  <2> SUFFICES ASSUME IInv, Next PROVE Final
    OBVIOUS
  <2> USE DEF IInv, TypeOK
  <2>1. ASSUME NEW s \in Sagas, NEW k \in Keys, Reserve(s, k) PROVE Final
    BY <2>1 DEF Reserve, RequestsMatch
  <2>2. ASSUME NEW s \in Sagas, Activate(s) PROVE Final
    BY <2>2 DEF Activate, Promote, StillCurrent, FailCreation, PointersAgree, rows
  <2>3. ASSUME NEW s \in Sagas, MarkFailed(s) PROVE Final
    BY <2>3 DEF MarkFailed, FailCreation, rows
  <2>4. ASSUME NEW s \in Sagas, SagaStep(s),
               ~ \E k \in Keys : Reserve(s, k), ~Activate(s), ~MarkFailed(s)
        PROVE  Final
    BY <2>4 DEF SagaStep, Resume, EnsureCollection, Verify, SagaFails, SagaDies, rows
  <2>5. ASSUME NEW k \in Keys, ReplayFails(k) \/ Abandon(k) \/ LeaseExpires(k) PROVE Final
    BY <2>5 DEF ReplayFails, FailCreation, Abandon, LeaseExpires, rows
  <2>6. CASE ReplaceFilterSchema \/ DeleteKnowledgeBase \/ Purge
    BY <2>6 DEF ReplaceFilterSchema, DeleteKnowledgeBase, Purge
  <2>7. ASSUME NEW r \in Reconcilers, CleanerStep(r) \/ DeleteRefused(r) \/ CleanerDies(r)
        PROVE  Final
    BY <2>7 DEF CleanerStep, ClaimCleanup, Authorize, DeleteCollection,
                CompleteCleanup, ExpireCleanup, DeleteRefused, CleanerDies, rows
  <2> QED
    BY <2>1, <2>2, <2>3, <2>4, <2>5, <2>6, <2>7 DEF Next
<1> QED
  BY <1>1, Inductive, PTL DEF Spec, FailureIsFinal

\* The rows of the generations agree with the pointers and with Qdrant, for any
\* number of keys, concurrent requests and reconcilers.
THEOREM ConsistentAlways == Spec => []GenerationsConsistent
<1>1. TypeOK /\ PointersAgree /\ ServedCollectionExists => GenerationsConsistent
  BY DEF GenerationsConsistent
<1> QED
  BY <1>1, TypeCorrect, PointersAgreeAlways, ServedAlways, PTL

\* No late cleanup takes what is in use and no late creation revives what failed.
THEOREM NothingUndoneEver == Spec => NothingUndone
BY OrphansOnly, FailuresStay DEF NothingUndone
=============================================================================
