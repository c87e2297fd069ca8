-------------------------- MODULE KnowledgeBaseProofs --------------------------
(***************************************************************************)
(* Proofs about knowledge bases and who may touch them.  First keys,       *)
(* scopes and idempotent creates (AccessControl), for every finite set of  *)
(* requests and every set of keys, resources, bodies and idempotency keys. *)
(* Then the purge of a deleted knowledge base (KnowledgeBasePurge), for    *)
(* every set of workers, generations and documents and every number of     *)
(* attempts, interruptions and outages.  The two share no variable.        *)
(***************************************************************************)
EXTENDS AccessControl, KnowledgeBasePurge, FiniteSetTheorems, WellFoundedInduction, TLAPS

Fields == {"op", "pc", "actor", "kind", "principal", "target", "key", "fingerprint",
           "etag", "scope", "found", "at", "listed", "stable", "result"}

CreateOps == {"create_knowledge_base", "create_credential", "create_config", "create_profile"}
EditOps == {"grant", "alter", "revoke"}

\* The steps of a command that hold its actor's key row.
CreatePhases == {"create_replay", "create_check", "create_reference", "create_insert"}
KeyPhases == {"key_scopes", "key_rows", "key_write"}
Authorized == CreatePhases \cup KeyPhases \cup
  {"lock_kb", "write_kb", "lock_credential", "write_credential", "key_lock"}

\* The steps of each command.
Phases(op) ==
  CASE op = "none" -> {"idle"}
    [] op \in CreateOps ->
         CreatePhases \cup {"authenticate", "scopes", "refuse", "done", op, "create_found",
                            "create_actor", "create_look", "create_resolve"}
    [] op \in {"update", "delete"} ->
         {"authenticate", "scopes", "refuse", "done", op, "lock_kb", "write_kb"}
    [] op = "rotate" ->
         {"authenticate", "scopes", "refuse", "done", op, "lock_credential", "write_credential"}
    [] op = "issue" -> KeyPhases \cup {"authenticate", "scopes", "refuse", "done", op}
    [] op \in EditOps ->
         KeyPhases \cup {"authenticate", "scopes", "refuse", "done", op, "key_lock"}
    [] op = "list" -> {"authenticate", "scopes", "refuse", "done", op}
    [] OTHER -> {}

\* Every command names the rows it is about, and its step is one of its own.
Shaped(r) ==
  /\ DOMAIN req[r] = Fields
  /\ req[r].op \in CreateOps \cup EditOps \cup {"none", "update", "delete", "rotate", "issue", "list"}
  /\ req[r].pc \in Phases(req[r].op)
  /\ req[r].op # "none" => req[r].actor \in Actors
  /\ req[r].at \in Nat
  /\ req[r].op \in CreateOps =>
       /\ req[r].key \in IdemKeys /\ req[r].fingerprint \in Fingerprints
       /\ req[r].kind \in Kinds
       /\ req[r].kind = "knowledge_base" <=> req[r].actor \in Agents
       /\ req[r].target \in Ids \cup {None}
  /\ req[r].op \notin CreateOps => req[r].key = None
  /\ req[r].op \in {"update", "delete"} => req[r].actor \in Agents /\ req[r].target \in Ids
  /\ req[r].op = "rotate" => req[r].actor \in Admins /\ req[r].target \in Ids
  /\ req[r].op \in EditOps \cup {"issue"} =>
       /\ req[r].actor \in Admins /\ req[r].target \in Agents
       /\ req[r].scope \subseteq Ids /\ req[r].found \subseteq Ids
  /\ req[r].op \in {"grant", "alter"} => req[r].kind \in {"active", "disabled", "unmanaged"}
  /\ req[r].op \in {"alter", "revoke"} => req[r].scope = {} /\ req[r].pc \notin {"key_scopes", "key_rows"}
  /\ req[r].pc # "done" => req[r].result = None

\* What a request holds at each step.
Holds(r) ==
  /\ \A row \in Rows : lock[row] = r =>
       /\ req[r].pc \in Authorized \cup {"refuse"}
       /\ req[r].pc \in {"lock_kb", "key_lock", "lock_credential", "create_check", "create_reference"} =>
            row = req[r].actor
       /\ req[r].pc = "key_scopes" => row \in {req[r].actor, req[r].target}
       /\ req[r].pc = "key_rows" =>
            \/ row \in {req[r].actor, req[r].target}
            \/ row \in req[r].found /\ \A i \in UnlockedScopes(r) : row < i
  /\ req[r].pc \in Authorized => lock[req[r].actor] = r
  /\ req[r].pc = "write_kb" => lock[req[r].target] = r
  /\ req[r].pc \in KeyPhases /\ req[r].op # "issue" => lock[req[r].target] = r
  /\ req[r].pc = "key_write" => \A i \in req[r].scope : lock[i] = r

\* What a request has checked under its locks still holds.
Checked(r) ==
  /\ req[r].pc \in Authorized => Revalidated(req[r].actor)
  /\ req[r].pc = "write_kb" => req[r].target \in keys[req[r].actor].scope
  /\ req[r].pc \in KeyPhases /\ req[r].op # "issue" =>
       keys[req[r].target].revision = req[r].etag /\ keys[req[r].target].status # "revoked"
  /\ req[r].pc = "key_rows" => \A i \in req[r].found : resources[i].kind = "knowledge_base"
  /\ req[r].pc = "key_write" =>
       \A i \in req[r].scope : resources[i].kind = "knowledge_base" /\ resources[i].status = "active"

\* The record a create found is there, the one it will insert is not, and what
\* it answered is on record.
Recorded(r) ==
  /\ req[r].pc \in {"create_found", "create_replay"} => Winner(r) # {}
  /\ req[r].pc \in {"create_reference", "create_insert"} => Winner(r) = {}
  /\ req[r].pc = "create_reference" => req[r].target \in Ids
  /\ req[r].key # None /\ req[r].result \in Ids => Record(r, req[r].result) \in records

\* A key whose revision is still the one its administrator read has lost
\* entries since, and gained none.
Seen(r) ==
  req[r].op \in EditOps =>
    /\ keys[req[r].target].status # "absent"
    /\ req[r].etag \in Nat /\ req[r].etag <= keys[req[r].target].revision
    /\ keys[req[r].target].revision = req[r].etag => keys[req[r].target].scope \subseteq req[r].stable

RequestOK(r) == Shaped(r) /\ Holds(r) /\ Checked(r) /\ Recorded(r) /\ Seen(r)

TablesOK ==
  /\ keys \in [Actors -> [status : {"absent", "active", "disabled", "revoked"}, manage : BOOLEAN,
                          scope : SUBSET Ids, revision : Nat]]
  /\ \A a \in Actors : \A i \in keys[a].scope : resources[i].kind = "knowledge_base"
  /\ resources \in [Ids -> [kind : Kinds \cup {"none"}, revision : Nat, at : Nat,
                            status : {"absent", "active", "deleting", "purged"}]]
  /\ records \subseteq [actor : Actors, kind : Kinds, key : IdemKeys,
                        fingerprint : Fingerprints, id : Ids]
  /\ \A rec \in records : resources[rec.id].kind = rec.kind
  /\ \A x, y \in records : x.actor = y.actor /\ x.kind = y.kind /\ x.key = y.key => x = y
  /\ clock \in Nat
  /\ lock \in [Rows -> Requests \cup {None}]
  /\ DOMAIN req = Requests

IInv == TablesOK /\ \A r \in Requests : RequestOK(r)

-----------------------------------------------------------------------------
(* What the others may do to a request *)

USE KeysAssumption, RowsAssumption, ExistingAssumption, NoneAssumption

\* What a step may change in the tables beside a request that holds rows: a key
\* or a resource it has locked stays, kinds and records are for good, and
\* a key gains entries only with a new revision.
KeysKept(s) ==
  \A a \in Actors : keys[a].status # "absent" =>
    /\ keys'[a].status # "absent"
    /\ keys'[a].revision >= keys[a].revision
    /\ keys'[a].revision = keys[a].revision => keys'[a].scope \subseteq keys[a].scope
    /\ lock[a] = s => /\ keys'[a].status = keys[a].status
                      /\ keys'[a].manage = keys[a].manage
                      /\ keys'[a].revision = keys[a].revision
                      /\ a \in Agents => keys'[a].scope = keys[a].scope

ResourcesKept(s) ==
  \A i \in Ids : resources[i].kind # "none" =>
    /\ resources'[i].kind = resources[i].kind
    /\ resources[i].status = "purged" => resources'[i].status = "purged"
    /\ lock[i] = s => resources'[i].status = resources[i].status

RecordsKept(s) ==
  records \subseteq records' /\ \A rec \in records' : rec \in records \/ lock[rec.actor] # s

Respects(s) ==
  /\ KeysKept(s) /\ ResourcesKept(s) /\ RecordsKept(s)
  /\ \A row \in Rows : lock'[row] = s <=> lock[row] = s

\* A request others respect stays as it should be.
LEMMA Frame ==
  ASSUME IInv, TablesOK', NEW s \in Requests, req'[s] = req[s], Respects(s)
  PROVE  RequestOK(s)'
<1>0. RequestOK(s)
  BY DEF IInv
<1> USE <1>0 DEF RequestOK
<1>1. Shaped(s)'
  BY DEF Shaped
<1>2. \A i \in UnlockedScopes(s)' : i \in Ids /\ (resources[i].kind # "none") => i \in UnlockedScopes(s)
  BY DEF UnlockedScopes, Respects, ResourcesKept, Rows
<1>3. req[s].op # "none" => req[s].actor \in Actors
  BY DEF Shaped
<1>4. req[s].pc \in Authorized \cup {"refuse", "key_rows"} => req[s].op # "none"
  <2>1. req[s].op = "none" => req[s].pc = "idle"
    BY DEF Shaped, Phases, CreateOps, EditOps
  <2> QED
    BY <2>1 DEF Authorized, CreatePhases, KeyPhases
<1>5. req[s].pc = "key_rows" => req[s].found \subseteq Ids
  BY DEF Shaped, Phases, CreatePhases, KeyPhases, CreateOps, EditOps
<1>6. req[s].pc \in KeyPhases => req[s].target \in Agents /\ req[s].scope \subseteq Ids
  BY DEF Shaped, Phases, CreatePhases, KeyPhases, CreateOps, EditOps
<1>7. req[s].pc = "write_kb" => req[s].target \in Ids /\ req[s].actor \in Agents
  BY DEF Shaped, Phases, CreatePhases, KeyPhases, CreateOps, EditOps
<1>8. Holds(s)'
  <2>1. req[s].pc = "key_rows" => \A i \in UnlockedScopes(s)' : i \in UnlockedScopes(s)
    BY <1>2, <1>5 DEF Checked, UnlockedScopes
  <2>2. \A row \in Rows : lock[row] = s /\ req[s].pc = "key_rows" =>
            \/ row \in {req[s].actor, req[s].target}
            \/ row \in req[s].found /\ \A i \in UnlockedScopes(s)' : row < i
    BY <2>1 DEF Holds
  <2> QED
    BY <2>2, <1>3, <1>4, <1>6, <1>7 DEF Holds, Respects, Authorized, KeyPhases, Rows, Actors
<1>9. Checked(s)'
  <2>1. req[s].pc \in Authorized => Revalidated(req[s].actor)'
    BY <1>3, <1>4 DEF Checked, Holds, Respects, KeysKept, Revalidated
  <2>2. req[s].pc = "write_kb" => req[s].target \in keys'[req[s].actor].scope
    BY <1>7 DEF Checked, Holds, Respects, KeysKept, Actors, Authorized, Revalidated
  <2>3. req[s].pc \in KeyPhases /\ req[s].op # "issue" =>
          keys'[req[s].target].revision = req[s].etag /\ keys'[req[s].target].status # "revoked"
    <3>1. req[s].pc \in KeyPhases /\ req[s].op # "issue" => req[s].op \in EditOps
      BY DEF Shaped, Phases, CreatePhases, KeyPhases, CreateOps, EditOps
    <3> QED
      BY <1>6, <3>1 DEF Checked, Holds, Seen, Respects, KeysKept, Actors
  <2>4. req[s].pc = "key_rows" => \A i \in req[s].found : resources'[i].kind = "knowledge_base"
    BY <1>5 DEF Checked, Respects, ResourcesKept
  <2>5. req[s].pc = "key_write" =>
          \A i \in req[s].scope : resources'[i].kind = "knowledge_base" /\ resources'[i].status = "active"
    BY <1>6 DEF Checked, Holds, Respects, ResourcesKept, KeyPhases
  <2> QED
    BY <2>1, <2>2, <2>3, <2>4, <2>5 DEF Checked
<1>10. Recorded(s)'
  <2>1. Winner(s) \subseteq Winner(s)'
    BY DEF Winner, Respects, RecordsKept
  <2>2. req[s].pc \in CreatePhases => Winner(s)' \subseteq Winner(s)
    BY DEF Winner, Respects, RecordsKept, Holds, Authorized
  <2>3. \A i : Record(s, i)' = Record(s, i)
    BY DEF Record
  <2> QED
    BY <2>1, <2>2, <2>3 DEF Recorded, Respects, RecordsKept, CreatePhases
<1>11. Seen(s)'
  <2>1. req[s].op \in EditOps => req[s].target \in Agents
    BY DEF Shaped
  <2>2. \A a \in Actors : keys[a].revision \in Nat /\ keys'[a].revision \in Nat
    BY DEF IInv, TablesOK
  <2> QED
    BY <2>1, <2>2 DEF Seen, Respects, KeysKept, Actors
<1> QED
  BY <1>1, <1>8, <1>9, <1>10, <1>11

\* The steps of a request leave the others alone, and what they do not
\* write is as it was.
Kept(r, changed) ==
  /\ DOMAIN req' = Requests
  /\ \A s \in Requests \ {r} : req'[s] = req[s]
  /\ DOMAIN req'[r] = Fields
  /\ \A f \in Fields \ changed : req'[r][f] = req[r][f]

LEMMA GotoKeeps ==
  ASSUME IInv, NEW r \in Requests, NEW pc, Goto(r, pc)
  PROVE  Kept(r, {"pc"}) /\ req'[r].pc = pc
<1>1. DOMAIN req = Requests /\ DOMAIN req[r] = Fields
  BY DEF IInv, TablesOK, RequestOK, Shaped
<1> QED
  BY <1>1 DEF Kept, Goto, Fields

LEMMA EndKeeps ==
  ASSUME IInv, NEW r \in Requests, NEW result, End(r, result)
  PROVE  /\ Kept(r, {"pc", "result"}) /\ req'[r].pc = "done" /\ req'[r].result = result
         /\ \A row \in Rows : lock[row] = r => lock'[row] = None
         /\ \A row \in Rows : lock[row] # r => lock'[row] = lock[row]
         /\ lock' \in [Rows -> Requests \cup {None}]
<1>1. DOMAIN req = Requests /\ DOMAIN req[r] = Fields /\ lock \in [Rows -> Requests \cup {None}]
  BY DEF IInv, TablesOK, RequestOK, Shaped
<1>2. Kept(r, {"pc", "result"}) /\ req'[r].pc = "done" /\ req'[r].result = result
  BY <1>1 DEF Kept, End, Fields
<1> QED
  BY <1>1, <1>2 DEF End

LEMMA AcquireKeeps ==
  ASSUME IInv, NEW r \in Requests, NEW row \in Rows, Acquire(r, row)
  PROVE  /\ lock' \in [Rows -> Requests \cup {None}]
         /\ lock'[row] = r
         /\ \A x \in Rows \ {row} : lock'[x] = lock[x]
         /\ \A s \in Requests \ {r} : \A x \in Rows : lock'[x] = s <=> lock[x] = s
BY DEF IInv, TablesOK, Acquire

\* A step that leaves tables alone and takes a row nobody has leaves every other
\* request alone.
LEMMA OthersAlone ==
  ASSUME IInv, TablesOK', NEW r \in Requests, NEW changed, Kept(r, changed),
         UNCHANGED <<keys, resources, records>>,
         \A s \in Requests \ {r} : \A x \in Rows : lock'[x] = s <=> lock[x] = s
  PROVE  \A s \in Requests \ {r} : RequestOK(s)'
<1>1. \A a \in Actors : keys[a].revision \in Nat
  BY DEF IInv, TablesOK
<1> TAKE s \in Requests \ {r}
<1>2. Respects(s)
  BY <1>1 DEF Respects, KeysKept, ResourcesKept, RecordsKept
<1> QED
  BY <1>2, Frame DEF Kept

\* A request that has ended holds nothing and is answered for.
LEMMA EndOK ==
  ASSUME IInv, TablesOK', NEW r \in Requests, NEW result, End(r, result), req[r].op # "none",
         req[r].key # None /\ result \in Ids => Record(r, result) \in records',
         Seen(r)'
  PROVE  RequestOK(r)'
<1>1. /\ Kept(r, {"pc", "result"}) /\ req'[r].pc = "done" /\ req'[r].result = result
      /\ \A row \in Rows : lock[row] = r => lock'[row] = None
      /\ \A row \in Rows : lock[row] # r => lock'[row] = lock[row]
  BY EndKeeps
<1>2. Shaped(r)
  BY DEF IInv, RequestOK
<1>3. Shaped(r)'
  <2>1. "done" \in Phases(req[r].op)
    BY <1>2 DEF Shaped, Phases, CreateOps, EditOps
  <2>2. /\ req'[r].op = req[r].op /\ req'[r].actor = req[r].actor /\ req'[r].at = req[r].at
        /\ req'[r].key = req[r].key /\ req'[r].fingerprint = req[r].fingerprint
        /\ req'[r].kind = req[r].kind /\ req'[r].target = req[r].target
        /\ req'[r].scope = req[r].scope /\ req'[r].found = req[r].found
        /\ DOMAIN req'[r] = Fields
    BY <1>1 DEF Kept, Fields
  <2> QED
    BY <2>1, <2>2, <1>1, <1>2 DEF Shaped
<1>4. Holds(r)'
  BY <1>1 DEF Holds, Authorized, CreatePhases, KeyPhases
<1>5. Checked(r)'
  BY <1>1 DEF Checked, Authorized, CreatePhases, KeyPhases
<1>6. Recorded(r)'
  <2>1. /\ req'[r].actor = req[r].actor /\ req'[r].key = req[r].key
        /\ req'[r].fingerprint = req[r].fingerprint /\ req'[r].kind = req[r].kind
    BY <1>1 DEF Kept, Fields
  <2>2. Record(r, result)' = Record(r, result)
    BY <2>1, <1>1 DEF Record
  <2> QED
    BY <2>1, <2>2, <1>1 DEF Recorded, Record
<1> QED
  BY <1>3, <1>4, <1>5, <1>6 DEF RequestOK

\* A request that ends without a change to the tables.
LEMMA QuietEnd ==
  ASSUME IInv, NEW r \in Requests, NEW result, End(r, result), req[r].op # "none",
         UNCHANGED tables, req[r].key # None /\ result \in Ids => Record(r, result) \in records
  PROVE  IInv'
<1>1. /\ Kept(r, {"pc", "result"})
      /\ lock' \in [Rows -> Requests \cup {None}]
      /\ \A s \in Requests \ {r} : \A x \in Rows : lock'[x] = s <=> lock[x] = s
  BY EndKeeps
<1>2. TablesOK'
  BY <1>1 DEF IInv, TablesOK, tables, Kept
<1>3. \A s \in Requests \ {r} : RequestOK(s)'
  BY <1>1, <1>2, OthersAlone DEF tables
<1>4. Seen(r)'
  <2>1. /\ req'[r].op = req[r].op /\ req'[r].target = req[r].target
        /\ req'[r].etag = req[r].etag /\ req'[r].stable = req[r].stable
    BY <1>1 DEF Kept, Fields
  <2> QED
    BY <2>1 DEF IInv, RequestOK, Seen, tables
<1>5. RequestOK(r)'
  BY <1>2, <1>4, EndOK DEF tables
<1> QED
  BY <1>2, <1>3, <1>5 DEF IInv

LEMMA RefuseOK ==
  ASSUME IInv, NEW r \in Requests, req[r].op # "none", Refuse(r)
  PROVE  IInv'
<1>1. Refused \notin Ids
  BY DEF Refused, Rows
<1> QED
  BY <1>1, QuietEnd DEF Refuse

\* A step that changes the request alone, and keeps its locks.
LEMMA QuietStep ==
  ASSUME IInv, NEW r \in Requests, NEW changed, Kept(r, changed), UNCHANGED <<tables, lock>>,
         RequestOK(r)'
  PROVE  IInv'
<1>1. TablesOK'
  BY DEF IInv, TablesOK, tables, Kept
<1>2. \A s \in Requests \ {r} : RequestOK(s)'
  BY <1>1, OthersAlone DEF tables
<1> QED
  BY <1>1, <1>2 DEF IInv

\* A step that takes one row.
LEMMA LockStep ==
  ASSUME IInv, NEW r \in Requests, NEW row \in Rows, NEW changed, Acquire(r, row),
         Kept(r, changed), UNCHANGED tables, RequestOK(r)'
  PROVE  IInv'
<1>1. /\ lock' \in [Rows -> Requests \cup {None}]
      /\ \A s \in Requests \ {r} : \A x \in Rows : lock'[x] = s <=> lock[x] = s
  BY AcquireKeeps
<1>2. TablesOK'
  BY <1>1 DEF IInv, TablesOK, tables, Kept
<1>3. \A s \in Requests \ {r} : RequestOK(s)'
  BY <1>1, <1>2, OthersAlone DEF tables
<1> QED
  BY <1>2, <1>3 DEF IInv

\* The fields a move to another step keeps.
LEMMA Moves ==
  ASSUME IInv, NEW r \in Requests, Kept(r, {"pc"}), req[r].pc # "done",
         req'[r].pc \in Phases(req[r].op), req'[r].pc # "done",
         req[r].op \in {"alter", "revoke"} => req'[r].pc \notin {"key_scopes", "key_rows"}
  PROVE  /\ Shaped(r)'
         /\ \A f \in Fields \ {"pc"} : req'[r][f] = req[r][f]
<1>1. /\ req'[r].op = req[r].op /\ req'[r].actor = req[r].actor /\ req'[r].at = req[r].at
      /\ req'[r].key = req[r].key /\ req'[r].fingerprint = req[r].fingerprint
      /\ req'[r].kind = req[r].kind /\ req'[r].target = req[r].target
      /\ req'[r].scope = req[r].scope /\ req'[r].found = req[r].found
      /\ req'[r].result = req[r].result /\ DOMAIN req'[r] = Fields
  BY DEF Kept, Fields
<1> QED
  BY <1>1 DEF Shaped, IInv, RequestOK, Kept

-----------------------------------------------------------------------------
(* The beginning of a request *)

\* What a command must be when it arrives.
CommandOK(c) ==
  /\ DOMAIN c = Fields
  /\ c.op \in CreateOps \cup EditOps \cup {"update", "delete", "rotate", "issue", "list"}
  /\ c.actor \in Actors
  /\ c.at \in Nat
  /\ c.op \in CreateOps =>
       /\ c.key \in IdemKeys /\ c.fingerprint \in Fingerprints
       /\ c.kind \in Kinds
       /\ c.kind = "knowledge_base" <=> c.actor \in Agents
       /\ c.target \in Ids \cup {None}
  /\ c.op \notin CreateOps => c.key = None
  /\ c.op \in {"update", "delete"} => c.actor \in Agents /\ c.target \in Ids
  /\ c.op = "rotate" => c.actor \in Admins /\ c.target \in Ids
  /\ c.op \in EditOps \cup {"issue"} =>
       c.actor \in Admins /\ c.target \in Agents /\ c.scope \subseteq Ids /\ c.found \subseteq Ids
  /\ c.op \in {"grant", "alter"} => c.kind \in {"active", "disabled", "unmanaged"}
  /\ c.op \in {"alter", "revoke"} => c.scope = {}
  /\ c.result = None
  /\ c.op \in EditOps => /\ keys[c.target].status # "absent"
                         /\ c.etag = keys[c.target].revision
                         /\ c.stable = keys[c.target].scope
  /\ c.op = "list" =>
       c.kind \in Kinds /\ c.listed = << >> /\ c.target = None /\ c.stable = Ids

LEMMA StartOK ==
  ASSUME IInv, NEW r \in Requests, NEW c, CommandOK(c), Start(r, c)
  PROVE  IInv'
<1>1. DOMAIN req = Requests /\ DOMAIN c = Fields
  BY DEF IInv, TablesOK, CommandOK
<1>2. Kept(r, Fields) /\ req'[r].pc = "authenticate" /\ \A f \in Fields \ {"pc"} : req'[r][f] = c[f]
  BY <1>1 DEF Start, Kept, Fields
<1>3. /\ req'[r].op = c.op /\ req'[r].actor = c.actor /\ req'[r].at = c.at
      /\ req'[r].key = c.key /\ req'[r].fingerprint = c.fingerprint
      /\ req'[r].kind = c.kind /\ req'[r].target = c.target /\ req'[r].etag = c.etag
      /\ req'[r].scope = c.scope /\ req'[r].found = c.found /\ req'[r].stable = c.stable
      /\ req'[r].result = c.result
  BY <1>2 DEF Fields
<1>4. Shaped(r)'
  <2>1. "authenticate" \in Phases(c.op)
    BY DEF CommandOK, Phases, CreateOps, EditOps
  <2> QED
    BY <1>2, <1>3, <2>1 DEF Shaped, CommandOK, CreateOps, EditOps, Kept
<1>5. \A row \in Rows : lock[row] # r
  BY DEF IInv, RequestOK, Holds, Start, Authorized, CreatePhases, KeyPhases
<1>6. Holds(r)' /\ Checked(r)'
  BY <1>2, <1>5 DEF Holds, Checked, Authorized, CreatePhases, KeyPhases, Start
<1>7. Recorded(r)'
  BY <1>2, <1>3 DEF Recorded, CommandOK, Rows
<1>8. Seen(r)'
  <2>1. c.op \in EditOps => c.target \in Actors
    BY DEF CommandOK, Actors
  <2>2. \A a \in Actors : keys[a].revision \in Nat
    BY SMTT(30) DEF IInv, TablesOK
  <2> QED
    BY <1>3, <2>1, <2>2 DEF Seen, CommandOK, Start, tables
<1> QED
  BY <1>2, <1>4, <1>6, <1>7, <1>8, QuietStep DEF RequestOK, Start

LEMMA CreateCommand ==
  ASSUME IInv, NEW r \in Requests, StartCreate(r)
  PROVE  \E c : CommandOK(c) /\ Start(r, c)
<1> PICK key \in IdemKeys, f \in Fingerprints :
    \/ \E a \in Issued :
         Start(r, [Idle EXCEPT !.op = "create_knowledge_base", !.actor = a, !.key = key,
                               !.fingerprint = f, !.kind = "knowledge_base"])
    \/ \E a \in Admins :
         \/ Start(r, [Idle EXCEPT !.op = "create_credential", !.actor = a, !.key = key,
                                  !.fingerprint = f, !.kind = "credential"])
         \/ \E kind \in {"config", "profile"}, i \in Ids :
              /\ resources[i].kind = Reference(kind)
              /\ Start(r, [Idle EXCEPT
                   !.op = IF kind = "config" THEN "create_config" ELSE "create_profile",
                   !.actor = a, !.key = key, !.fingerprint = f, !.kind = kind,
                   !.target = i])
  BY DEF StartCreate
<1>1. ASSUME NEW a \in Issued
      PROVE  CommandOK([Idle EXCEPT !.op = "create_knowledge_base", !.actor = a, !.key = key,
                                    !.fingerprint = f, !.kind = "knowledge_base"])
  BY DEF CommandOK, Idle, Fields, CreateOps, EditOps, Kinds, AdminKinds, Actors
<1>2. ASSUME NEW a \in Admins
      PROVE  CommandOK([Idle EXCEPT !.op = "create_credential", !.actor = a, !.key = key,
                                    !.fingerprint = f, !.kind = "credential"])
  BY DEF CommandOK, Idle, Fields, CreateOps, EditOps, Kinds, AdminKinds, Actors
<1>3. ASSUME NEW a \in Admins, NEW kind \in {"config", "profile"}, NEW i \in Ids
      PROVE  CommandOK([Idle EXCEPT
                   !.op = IF kind = "config" THEN "create_config" ELSE "create_profile",
                   !.actor = a, !.key = key, !.fingerprint = f, !.kind = kind,
                   !.target = i])
  BY ZenonT(60) DEF CommandOK, Idle, Fields, CreateOps, EditOps, Kinds, AdminKinds, Actors
<1> QED
  BY <1>1, <1>2, <1>3, ZenonT(60)

LEMMA UpdateCommand ==
  ASSUME IInv, NEW r \in Requests,
         StartUpdate(r) \/ StartUpdateCredential(r) \/ StartIssue(r) \/ StartList(r)
  PROVE  \E c : CommandOK(c) /\ Start(r, c)
<1> USE DEF Fields, CreateOps, EditOps, Actors, Idle
<1>1. CASE StartUpdate(r)
  <2>1. PICK a \in Issued, op \in {"update", "delete"} : \E i \in keys[a].scope :
          Start(r, [Idle EXCEPT !.op = op, !.actor = a, !.target = i,
                                !.etag = resources[i].revision])
    BY <1>1 DEF StartUpdate
  <2>2. PICK i \in keys[a].scope :
          Start(r, [Idle EXCEPT !.op = op, !.actor = a, !.target = i,
                                !.etag = resources[i].revision])
    BY <2>1
  <2>3. i \in Ids
    BY DEF IInv, TablesOK
  <2>4. CommandOK([Idle EXCEPT !.op = op, !.actor = a, !.target = i,
                               !.etag = resources[i].revision])
    BY <2>3 DEF CommandOK
  <2> QED
    BY <2>2, <2>4
<1>2. CASE StartUpdateCredential(r)
  <2>1. PICK m \in Admins, i \in Ids :
          Start(r, [Idle EXCEPT !.op = "rotate", !.actor = m, !.target = i,
                                !.etag = resources[i].revision])
    BY <1>2 DEF StartUpdateCredential
  <2>2. CommandOK([Idle EXCEPT !.op = "rotate", !.actor = m, !.target = i,
                               !.etag = resources[i].revision])
    BY DEF CommandOK
  <2> QED
    BY <2>1, <2>2
<1>3. CASE StartIssue(r)
  <2>1. PICK m \in Admins, a \in Agents, scope \in ScopeArguments :
          Start(r, [Idle EXCEPT !.op = "issue", !.actor = m, !.target = a, !.scope = scope])
    BY <1>3 DEF StartIssue
  <2>2. CommandOK([Idle EXCEPT !.op = "issue", !.actor = m, !.target = a, !.scope = scope])
    BY DEF CommandOK, ScopeArguments
  <2> QED
    BY <2>1, <2>2
<1>4. CASE StartList(r)
  <2>1. ASSUME NEW a \in Actors, NEW kind \in Kinds
        PROVE  CommandOK([Idle EXCEPT !.op = "list", !.actor = a, !.stable = Ids, !.kind = kind])
    BY DEF CommandOK
  <2>2. PICK a \in Actors, kind \in Kinds :
          Start(r, [Idle EXCEPT !.op = "list", !.actor = a, !.stable = Ids, !.kind = kind])
    BY <1>4 DEF StartList, Kinds
  <2> QED
    BY <2>1, <2>2
<1> QED
  BY <1>1, <1>2, <1>3, <1>4

LEMMA KeyCommand ==
  ASSUME IInv, NEW r \in Requests, StartUpdateKey(r)
  PROVE  \E c : CommandOK(c) /\ Start(r, c)
<1> DEFINE Commands == [op : {"grant"}, scope : ScopeArguments, kind : {"active"}]
                        \cup [op : {"alter"}, scope : {{}}, kind : {"active", "disabled", "unmanaged"}]
                        \cup [op : {"revoke"}, scope : {{}}, kind : {"revoked"}]
<1>1. PICK m \in Admins, a \in Agents :
        /\ keys[a].status # "absent"
        /\ \E command \in Commands :
             Start(r, [Idle EXCEPT !.op = command.op, !.actor = m, !.target = a,
                                   !.scope = command.scope, !.kind = command.kind,
                                   !.etag = keys[a].revision, !.stable = keys[a].scope])
  BY DEF StartUpdateKey
<1>2. PICK command \in Commands :
         Start(r, [Idle EXCEPT !.op = command.op, !.actor = m, !.target = a,
                               !.scope = command.scope, !.kind = command.kind,
                               !.etag = keys[a].revision, !.stable = keys[a].scope])
  BY <1>1
<1>3. PICK op, scope, kind : op = command.op /\ scope = command.scope /\ kind = command.kind
  OBVIOUS
<1>4. /\ op \in EditOps /\ scope \subseteq Ids
      /\ op \in {"grant", "alter"} => kind \in {"active", "disabled", "unmanaged"}
      /\ op \in {"alter", "revoke"} => scope = {}
  BY <1>3 DEF EditOps, ScopeArguments
<1> HIDE DEF Commands
<1>5. CommandOK([Idle EXCEPT !.op = op, !.actor = m, !.target = a,
                             !.scope = scope, !.kind = kind,
                             !.etag = keys[a].revision, !.stable = keys[a].scope])
  BY <1>1, <1>4 DEF CommandOK, Fields, CreateOps, EditOps, Actors, Idle
<1> QED
  BY <1>2, <1>3, <1>5

\* A new request is at its first step and holds nothing.
LEMMA BeginsOK ==
  ASSUME IInv, NEW r \in Requests, Begins(r)
  PROVE  IInv'
BY CreateCommand, UpdateCommand, KeyCommand, StartOK DEF Begins

-----------------------------------------------------------------------------
(* The steps of a request *)

\* The step of a request tells its command.
LEMMA Running ==
  ASSUME IInv, NEW r \in Requests
  PROVE  /\ RequestOK(r)
         /\ req[r].pc # "idle" => req[r].op # "none" /\ req[r].actor \in Actors /\ req[r].actor \in Rows
         /\ req[r].pc \in CreateOps \cup CreatePhases \cup
              {"create_found", "create_actor", "create_look", "create_resolve"}
              => req[r].op \in CreateOps
         /\ req[r].pc \in {"update", "delete", "lock_kb", "write_kb"} => req[r].op \in {"update", "delete"}
         /\ req[r].pc \in {"rotate", "lock_credential", "write_credential"} => req[r].op = "rotate"
         /\ req[r].pc = "issue" => req[r].op = "issue"
         /\ req[r].pc \in {"grant", "alter", "revoke", "key_lock"} => req[r].op \in EditOps
         /\ req[r].pc \in KeyPhases => req[r].op \in EditOps \cup {"issue"}
         /\ req[r].pc = "list" => req[r].op = "list"
<1>1. RequestOK(r)
  BY DEF IInv
<1>2. req[r].op = "none" => req[r].pc = "idle"
  BY <1>1 DEF RequestOK, Shaped, Phases, CreateOps, EditOps
<1> QED
  BY <1>1, <1>2 DEF RequestOK, Shaped, Phases, CreateOps, EditOps, CreatePhases, KeyPhases, Rows

LEMMA AuthenticateOK ==
  ASSUME IInv, NEW r \in Requests, Authenticate(r) \/ MaterializePrincipal(r)
  PROVE  IInv'
<1>1. RequestOK(r) /\ req[r].op # "none"
  BY Running DEF Authenticate, MaterializePrincipal
<1>2. CASE Refuse(r)
  BY <1>1, <1>2, RefuseOK
<1>3. CASE ~Refuse(r)
  <2>1. DOMAIN req = Requests /\ DOMAIN req[r] = Fields
    BY <1>1 DEF IInv, TablesOK, RequestOK, Shaped
  <2>2. /\ Kept(r, {"pc", "principal"}) /\ req'[r].pc \in {"scopes", req[r].op}
        /\ req[r].pc \in {"authenticate", "scopes"}
        /\ UNCHANGED <<tables, lock>>
    BY <1>3, <2>1 DEF Authenticate, MaterializePrincipal, Kept, Fields
  <2>3. /\ req'[r].op = req[r].op /\ req'[r].actor = req[r].actor /\ req'[r].at = req[r].at
        /\ req'[r].key = req[r].key /\ req'[r].fingerprint = req[r].fingerprint
        /\ req'[r].kind = req[r].kind /\ req'[r].target = req[r].target
        /\ req'[r].scope = req[r].scope /\ req'[r].found = req[r].found
        /\ req'[r].etag = req[r].etag /\ req'[r].stable = req[r].stable
        /\ req'[r].result = req[r].result /\ DOMAIN req'[r] = Fields
    BY <2>2 DEF Kept, Fields
  <2>4. req'[r].pc \in Phases(req[r].op) /\ req'[r].pc \notin {"done", "key_scopes", "key_rows"}
    BY <1>1, <2>2 DEF RequestOK, Shaped, Phases, CreateOps, EditOps, CreatePhases, KeyPhases
  <2>5. Shaped(r)'
    BY <1>1, <2>2, <2>3, <2>4 DEF RequestOK, Shaped
  <2>6. req'[r].pc \notin Authorized \cup {"refuse", "create_found", "create_replay", "create_reference", "create_insert"}
    BY <1>1, <2>2 DEF RequestOK, Shaped, Authorized, CreateOps, EditOps, CreatePhases, KeyPhases
  <2>7. \A row \in Rows : lock[row] # r
    BY <1>1, <2>2 DEF RequestOK, Holds, Authorized, CreatePhases, KeyPhases
  <2>8. Holds(r)' /\ Checked(r)' /\ Recorded(r)'
    <3>1. req'[r].result = None
      BY <1>1, <2>2, <2>3 DEF RequestOK, Shaped
    <3> QED
    BY <2>2, <2>6, <2>7, <3>1 DEF Holds, Checked, Recorded, Authorized, KeyPhases, CreatePhases, Rows
  <2>9. Seen(r)'
    BY <1>1, <2>2, <2>3 DEF RequestOK, Seen, tables
  <2> QED
    BY <2>2, <2>5, <2>8, <2>9, QuietStep DEF RequestOK
<1> QED
  BY <1>2, <1>3

\* The fields no step of a create, an update or a grant writes.
Same(r) ==
  /\ req'[r].op = req[r].op /\ req'[r].actor = req[r].actor /\ req'[r].kind = req[r].kind
  /\ req'[r].target = req[r].target /\ req'[r].key = req[r].key
  /\ req'[r].fingerprint = req[r].fingerprint /\ req'[r].etag = req[r].etag
  /\ req'[r].scope = req[r].scope /\ req'[r].found = req[r].found
  /\ req'[r].stable = req[r].stable /\ req'[r].result = req[r].result

\* A move to another step of the same command.
LEMMA GotoSame ==
  ASSUME IInv, NEW r \in Requests, NEW pc, Goto(r, pc), req[r].pc # "done",
         pc \in Phases(req[r].op), pc # "done",
         pc \in {"key_scopes", "key_rows"} => req[r].op \notin {"alter", "revoke"}
  PROVE  Kept(r, {"pc"}) /\ req'[r].pc = pc /\ Shaped(r)' /\ Same(r)
<1>1. Kept(r, {"pc"}) /\ req'[r].pc = pc
  BY GotoKeeps
<1>2. Shaped(r)'
  BY <1>1, Moves
<1> QED
  BY <1>1, <1>2 DEF Kept, Same, Fields

LEMMA RefuseLockedOK ==
  ASSUME IInv, NEW r \in Requests, RefuseLocked(r)
  PROVE  IInv'
BY Running, RefuseOK DEF RefuseLocked

\* The lock on the actor's key comes before every other one.
LEMMA LockActorOK ==
  ASSUME IInv, NEW r \in Requests, NEW from, NEW to, LockActor(r, from, to),
         from \notin Authorized, from \notin {"refuse", "done", "idle"}, to \in Phases(req[r].op),
         to \in {"create_replay", "create_check", "lock_kb", "lock_credential", "key_scopes", "key_lock"},
         to = "create_replay" => from = "create_found",
         to = "key_scopes" => req[r].op = "issue"
  PROVE  IInv'
<1> DEFINE pc == IF Revalidated(req[r].actor) THEN to ELSE "refuse"
<1>1. /\ RequestOK(r) /\ req[r].op # "none" /\ req[r].actor \in Rows /\ req[r].actor \in Actors
      /\ req[r].pc = from
  BY Running DEF LockActor
<1>2. PICK p : p = pc
  OBVIOUS
<1>3. p \in Phases(req[r].op) /\ p # "done" /\ Goto(r, p) /\ (p \in {"key_scopes", "key_rows"} => req[r].op \notin {"alter", "revoke"})
  <2>1. "refuse" \in Phases(req[r].op)
    BY <1>1 DEF RequestOK, Shaped, Phases, CreateOps, EditOps
  <2> QED
    BY <1>2, <2>1 DEF LockActor
<1>4. Kept(r, {"pc"}) /\ req'[r].pc = p /\ Shaped(r)' /\ Same(r)
  BY <1>1, <1>3, GotoSame
<1>5. PICK a \in Rows : a = req[r].actor
  BY <1>1
<1>6. /\ Acquire(r, a) /\ UNCHANGED tables
      /\ lock'[a] = r
      /\ \A x \in Rows \ {a} : lock'[x] = lock[x]
  <2>1. Acquire(r, a) /\ UNCHANGED tables
    BY <1>5 DEF LockActor
  <2> QED
    BY <2>1, AcquireKeeps
<1>7. \A x \in Rows : lock'[x] = r <=> x = a
  BY <1>1, <1>6 DEF RequestOK, Holds
<1>8. Holds(r)'
  BY <1>2, <1>4, <1>5, <1>7 DEF Holds, Authorized, KeyPhases, CreatePhases, Same
<1>9. Checked(r)'
  <2>1. p \in Authorized => Revalidated(req[r].actor)
    BY <1>2 DEF Authorized, KeyPhases, CreatePhases
  <2>2. Revalidated(req[r].actor)' <=> Revalidated(req[r].actor)
    BY <1>4, <1>6 DEF Revalidated, Same, tables
  <2>3. p # "write_kb" /\ p \notin {"key_rows", "key_write"} /\ (p \in KeyPhases => req[r].op = "issue")
    BY <1>2 DEF KeyPhases
  <2> QED
    BY <1>4, <2>1, <2>2, <2>3 DEF Checked, Same
<1>10. Recorded(r)'
  <2>1. p = "create_replay" => Winner(r) # {}
    BY <1>1, <1>2 DEF RequestOK, Recorded
  <2>2. Winner(r)' = Winner(r)
    BY <1>4, <1>6 DEF Winner, Same, tables
  <2>3. req[r].result = None
    BY <1>1 DEF RequestOK, Shaped
  <2> QED
    BY <1>2, <1>4, <2>1, <2>2, <2>3 DEF Recorded, Same, Rows
<1>11. Seen(r)'
  BY <1>1, <1>4, <1>6 DEF RequestOK, Seen, Same, tables
<1> QED
  BY <1>4, <1>6, <1>8, <1>9, <1>10, <1>11, LockStep DEF RequestOK

LEMMA ActorOK ==
  ASSUME IInv, NEW r \in Requests,
         \/ FoundActor(r) \/ CreateActor(r) \/ UpdateActor(r) \/ RotateActor(r)
         \/ IssueActor(r) \/ KeyActor(r)
  PROVE  IInv'
<1> USE Running DEF LockActor, Phases, CreateOps, EditOps, CreatePhases, KeyPhases, Authorized
<1>1. CASE FoundActor(r)
  <2>1. req[r].op \in CreateOps /\ LockActor(r, "create_found", "create_replay")
    BY <1>1 DEF FoundActor
  <2> QED
    BY <2>1, LockActorOK
<1>2. CASE CreateActor(r)
  <2>1. req[r].op \in CreateOps /\ LockActor(r, "create_actor", "create_check")
    BY <1>2 DEF CreateActor
  <2> QED
    BY <2>1, LockActorOK
<1>3. CASE UpdateActor(r)
  <2>1. PICK op \in {"update", "delete"} : LockActor(r, op, "lock_kb")
    BY <1>3 DEF UpdateActor
  <2>2. req[r].op \in {"update", "delete"}
    BY <2>1
  <2> QED
    BY <2>1, <2>2, LockActorOK
<1>4. CASE RotateActor(r)
  <2>1. req[r].op = "rotate" /\ LockActor(r, "rotate", "lock_credential")
    BY <1>4 DEF RotateActor
  <2> QED
    BY <2>1, LockActorOK
<1>5. CASE IssueActor(r)
  <2>1. req[r].op = "issue" /\ LockActor(r, "issue", "key_scopes")
    BY <1>5 DEF IssueActor
  <2> QED
    BY <2>1, LockActorOK
<1>6. CASE KeyActor(r)
  <2>1. PICK op \in {"grant", "alter", "revoke"} : LockActor(r, op, "key_lock")
    BY <1>6 DEF KeyActor
  <2>2. req[r].op \in EditOps
    BY <2>1
  <2> QED
    BY <2>1, <2>2, LockActorOK
<1> QED
  BY <1>1, <1>2, <1>3, <1>4, <1>5, <1>6

\* A step of a create that holds nothing yet.
LEMMA BeginOK ==
  ASSUME IInv, NEW r \in Requests, NEW p \in {"create_found", "create_actor"}, Begin(r, p),
         req[r].op \in CreateOps, req[r].pc \notin Authorized,
         req[r].pc \notin {"idle", "done", "refuse"},
         p = "create_found" => Winner(r) # {}
  PROVE  IInv'
<1>1. RequestOK(r) /\ DOMAIN req = Requests /\ DOMAIN req[r] = Fields /\ clock \in Nat
  BY DEF IInv, TablesOK, RequestOK, Shaped
<1>2. Kept(r, {"at", "pc"}) /\ req'[r].pc = p /\ req'[r].at = clock
  BY <1>1 DEF Begin, Kept, Fields
<1>3. Same(r)
  BY <1>2 DEF Kept, Same, Fields
<1>4. UNCHANGED <<keys, resources, records, lock>> /\ clock' \in Nat
  BY <1>1 DEF Begin
<1>5. TablesOK'
  BY <1>2, <1>4 DEF IInv, TablesOK, Kept
<1>6. \A s \in Requests \ {r} : RequestOK(s)'
  BY <1>2, <1>4, <1>5, OthersAlone
<1>7. Shaped(r)'
  <2>1. p \in Phases(req[r].op)
    BY DEF Phases, CreateOps, EditOps, CreatePhases
  <2> QED
    BY <1>1, <1>2, <1>3, <2>1 DEF RequestOK, Shaped, Same, Kept, CreateOps
<1>8. \A x \in Rows : lock[x] # r
  BY <1>1 DEF RequestOK, Holds
<1>9. Holds(r)' /\ Checked(r)'
  BY <1>2, <1>4, <1>8 DEF Holds, Checked, Authorized, KeyPhases, CreatePhases
<1>10. Recorded(r)'
  <2>1. Winner(r)' = Winner(r)
    BY <1>3, <1>4 DEF Winner, Same
  <2>2. req[r].result = None
    BY <1>1 DEF RequestOK, Shaped
  <2> QED
    BY <1>2, <1>3, <2>1, <2>2 DEF Recorded, Same, Rows
<1>11. Seen(r)'
  BY <1>1, <1>3, <1>4 DEF RequestOK, Seen, Same
<1> QED
  BY <1>5, <1>6, <1>7, <1>9, <1>10, <1>11 DEF IInv, RequestOK

LEMMA LookUpOK ==
  ASSUME IInv, NEW r \in Requests,
         \/ LookUpKnowledgeBase(r) \/ LookUpCredential(r) \/ BeginProfile(r)
         \/ LookUpConfig(r) \/ LookOnly(r) \/ ResolveProvider(r)
  PROVE  IInv'
<1> DEFINE early == {"create_knowledge_base", "create_credential", "create_profile",
                     "create_config", "create_look", "create_resolve"}
<1>1. /\ RequestOK(r) /\ req[r].op \in CreateOps /\ req[r].op # "none"
      /\ req[r].pc \in early
      /\ req[r].pc \notin Authorized /\ req[r].pc \notin {"idle", "done", "refuse"}
  <2>1. req[r].pc \in early
    BY DEF LookUpKnowledgeBase, LookUpCredential, BeginProfile, LookUpConfig, LookOnly, ResolveProvider
  <2> QED
    BY <2>1, Running DEF CreateOps, Authorized, CreatePhases, KeyPhases
<1>2. ASSUME NEW p \in {"create_found", "create_actor"}, Begin(r, p),
             p = "create_found" => Winner(r) # {}
      PROVE  IInv'
  BY <1>1, <1>2, BeginOK
<1>3. CASE LookUpKnowledgeBase(r) \/ LookUpCredential(r) \/ BeginProfile(r)
  BY <1>2, <1>3 DEF LookUpKnowledgeBase, LookUpCredential, BeginProfile
<1>4. CASE Refuse(r)
  BY <1>1, <1>4, RefuseOK
<1>5. CASE ResolveProvider(r)
  BY <1>2, <1>4, <1>5 DEF ResolveProvider
<1>6. CASE (LookUpConfig(r) \/ LookOnly(r)) /\ ~Refuse(r)
  <2>1. PICK p \in {"create_found", "create_look", "create_resolve"} :
          Goto(r, p) /\ (p = "create_found" => Winner(r) # {})
    BY <1>6 DEF LookUpConfig, LookOnly
  <2>2. UNCHANGED <<tables, lock>>
    BY <1>6 DEF LookUpConfig, LookOnly
  <2>3. p \in Phases(req[r].op)
    BY <1>1 DEF Phases, CreateOps, EditOps, CreatePhases
  <2>4. Kept(r, {"pc"}) /\ req'[r].pc = p /\ Shaped(r)' /\ Same(r)
    BY <1>1, <2>1, <2>3, GotoSame
  <2>5. \A x \in Rows : lock[x] # r
    BY <1>1 DEF RequestOK, Holds
  <2>6. Holds(r)' /\ Checked(r)'
    BY <2>2, <2>4, <2>5 DEF Holds, Checked, Authorized, KeyPhases, CreatePhases
  <2>7. Recorded(r)'
    <3>1. Winner(r)' = Winner(r)
      BY <2>2, <2>4 DEF Winner, Same, tables
    <3>2. req[r].result = None
      BY <1>1 DEF RequestOK, Shaped
    <3> QED
      BY <2>1, <2>4, <3>1, <3>2 DEF Recorded, Same, Rows
  <2>8. Seen(r)'
    BY <1>1, <2>2, <2>4 DEF RequestOK, Seen, Same, tables
  <2> QED
    BY <2>2, <2>4, <2>6, <2>7, <2>8, QuietStep DEF RequestOK
<1> QED
  BY <1>3, <1>4, <1>5, <1>6

\* Who is answered from a record is answered with what it names.
LEMMA ReplayOK ==
  ASSUME IInv, NEW r \in Requests, req[r].op # "none", Winner(r) # {}, Replay(r)
  PROVE  IInv'
<1>1. PICK rec \in Winner(r) : rec = CHOOSE x \in Winner(r) : TRUE
  OBVIOUS
<1>2. rec \in records /\ rec.actor = req[r].actor /\ rec.kind = req[r].kind /\ rec.key = req[r].key
  BY DEF Winner
<1>3. rec \in [actor : Actors, kind : Kinds, key : IdemKeys, fingerprint : Fingerprints, id : Ids]
  BY <1>2 DEF IInv, TablesOK
<1>4. \/ Refuse(r)
      \/ rec.fingerprint = req[r].fingerprint /\ End(r, rec.id) /\ UNCHANGED tables
  BY <1>1, <1>3 DEF Replay, ReplayKnowledgeBase, ReplayCredential, ReplayConfig, ReplayProfile,
                    Kinds, AdminKinds
<1>5. CASE rec.fingerprint = req[r].fingerprint /\ End(r, rec.id) /\ UNCHANGED tables
  <2>1. PICK i \in Ids : i = rec.id
    BY <1>3
  <2>2. Record(r, i) = rec
    BY <1>2, <1>3, <1>5, <2>1 DEF Record
  <2> QED
    BY <1>2, <1>5, <2>1, <2>2, QuietEnd
<1> QED
  BY <1>4, <1>5, RefuseOK

\* A step of a create that holds its actor and goes on.
LEMMA CreateStepOK ==
  ASSUME IInv, NEW r \in Requests,
         \/ CreateReplay(r) \/ CheckWinner(r) \/ LockReference(r) \/ CreateConflict(r)
  PROVE  IInv'
<1>1. /\ RequestOK(r) /\ req[r].op \in CreateOps /\ req[r].op # "none"
      /\ req[r].pc \in CreatePhases /\ req[r].pc \in Authorized /\ req[r].pc # "done"
  <2>1. req[r].pc \in CreatePhases
    BY DEF CreateReplay, CheckWinner, LockReference, CreateConflict, CreatePhases
  <2> QED
    BY <2>1, Running DEF CreateOps, Authorized, CreatePhases
<1>2. CASE CreateReplay(r)
  BY <1>1, <1>2, ReplayOK DEF CreateReplay, RequestOK, Recorded
<1>3. CASE CreateConflict(r)
  BY <1>1, <1>3, RefuseOK DEF CreateConflict
<1>4. CASE CheckWinner(r) /\ Winner(r) # {}
  BY <1>1, <1>4, ReplayOK DEF CheckWinner
<1>5. ASSUME NEW p \in {"create_reference", "create_insert"}, Goto(r, p), UNCHANGED tables, Winner(r) = {}
      PROVE  /\ Kept(r, {"pc"}) /\ req'[r].pc = p /\ Shaped(r)' /\ Same(r)
             /\ Checked(r)' /\ Winner(r)' = {} /\ Seen(r)'
             /\ req'[r].result = None
  <2>1. p \in Phases(req[r].op)
    BY <1>1 DEF Phases, CreateOps, EditOps, CreatePhases
  <2>2. Kept(r, {"pc"}) /\ req'[r].pc = p /\ Shaped(r)' /\ Same(r)
    BY <1>1, <1>5, <2>1, GotoSame
  <2>3. Revalidated(req[r].actor)'
    BY <1>1, <1>5, <2>2 DEF RequestOK, Checked, Revalidated, Same, tables
  <2>4. Checked(r)' /\ Seen(r)'
    BY <1>1, <1>5, <2>2, <2>3 DEF RequestOK, Checked, Seen, Same, KeyPhases, Revalidated, tables, CreateOps, EditOps
  <2>5. Winner(r)' = {}
    BY <1>5, <2>2 DEF Winner, Same, tables
  <2>6. req'[r].result = None
    BY <1>1, <2>2 DEF RequestOK, Shaped, Same
  <2> QED
    BY <2>2, <2>4, <2>5, <2>6
<1>6. CASE CheckWinner(r) /\ Winner(r) = {}
  <2>1. PICK p \in {"create_reference", "create_insert"} :
          Goto(r, p) /\ (p = "create_reference" => req[r].target # None)
    BY <1>6 DEF CheckWinner
  <2>2. UNCHANGED <<tables, lock>> /\ req[r].pc = "create_check"
    BY <1>6 DEF CheckWinner
  <2>3. /\ Kept(r, {"pc"}) /\ req'[r].pc = p /\ Shaped(r)' /\ Same(r)
        /\ Checked(r)' /\ Winner(r)' = {} /\ Seen(r)' /\ req'[r].result = None
    BY <1>5, <1>6, <2>1, <2>2
  <2>4. Recorded(r)'
    <3>1. p = "create_reference" => req[r].target \in Ids
      BY <1>1, <2>1 DEF RequestOK, Shaped
    <3> QED
      BY <2>3, <3>1 DEF Recorded, Same, Rows
  <2>5. Holds(r)'
    BY <1>1, <2>2, <2>3 DEF RequestOK, Holds, Same, Authorized, CreatePhases, KeyPhases
  <2> QED
    BY <2>2, <2>3, <2>4, <2>5, QuietStep DEF RequestOK
<1>7. CASE LockReference(r)
  <2>1. Goto(r, "create_insert") /\ UNCHANGED tables /\ Winner(r) = {} /\ req[r].target \in Rows
    BY <1>1, <1>7 DEF LockReference, RequestOK, Recorded, Rows
  <2>2. PICK row \in Rows : row = req[r].target
    BY <2>1
  <2>3. Acquire(r, row)
    BY <1>7, <2>2 DEF LockReference
  <2>4. /\ lock'[row] = r
        /\ \A x \in Rows \ {row} : lock'[x] = lock[x]
    BY <2>3, AcquireKeeps
  <2>5. /\ Kept(r, {"pc"}) /\ req'[r].pc = "create_insert" /\ Shaped(r)' /\ Same(r)
        /\ Checked(r)' /\ Winner(r)' = {} /\ Seen(r)' /\ req'[r].result = None
    BY <1>5, <2>1
  <2>6. Recorded(r)'
    BY <2>5 DEF Recorded, Rows
  <2>7. lock'[req[r].actor] = r
    <3>1. lock[req[r].actor] = r /\ req[r].actor \in Rows
      BY <1>1, Running DEF RequestOK, Holds, CreatePhases
    <3> QED
      BY <2>4, <3>1
  <2>8. Holds(r)'
    BY <2>5, <2>7 DEF Holds, Same, Authorized, CreatePhases, KeyPhases
  <2> QED
    BY <2>1, <2>3, <2>5, <2>6, <2>8, LockStep DEF RequestOK
<1> QED
  BY <1>2, <1>3, <1>4, <1>6, <1>7

\* A new row and its record: nobody else can have looked it up in vain, since
\* the actor's key is locked.
LEMMA CreateInsertOK ==
  ASSUME IInv, NEW r \in Requests, CreateInsert(r)
  PROVE  IInv'
<1>1. /\ RequestOK(r) /\ req[r].op \in CreateOps /\ req[r].op # "none" /\ req[r].actor \in Actors
      /\ req[r].pc = "create_insert" /\ lock[req[r].actor] = r /\ Winner(r) = {}
  BY Running DEF CreateInsert, CreateOps, CreatePhases, Authorized, RequestOK, Holds, Recorded
<1>2. PICK i \in Unused : \/ InsertKnowledgeBase(r, i) \/ InsertCredential(r, i)
                          \/ InsertConfig(r, i) \/ InsertProfile(r, i)
  BY DEF CreateInsert
<1>3. i \in Ids /\ resources[i].kind = "none"
  BY DEF Unused
<1>4. Insert(r, i)
  BY <1>2 DEF InsertKnowledgeBase, InsertCredential, InsertConfig, InsertProfile
<1>5. /\ resources' = [resources EXCEPT ![i] = NewRow(r)]
      /\ records' = records \cup {Record(r, i)}
      /\ End(r, i)
      /\ clock' = clock
  BY <1>4 DEF Insert
<1>6. /\ Kept(r, {"pc", "result"}) /\ req'[r].pc = "done" /\ req'[r].result = i
      /\ lock' \in [Rows -> Requests \cup {None}]
      /\ \A s \in Requests \ {r} : \A x \in Rows : lock'[x] = s <=> lock[x] = s
  BY <1>5, EndKeeps
<1>7. /\ req[r].kind \in Kinds /\ req[r].key \in IdemKeys /\ req[r].fingerprint \in Fingerprints
      /\ req[r].at \in Nat /\ (req[r].kind = "knowledge_base" <=> req[r].actor \in Agents)
  BY <1>1 DEF RequestOK, Shaped
<1>8. /\ NewRow(r) \in [kind : Kinds \cup {"none"}, revision : Nat, at : Nat,
                        status : {"absent", "active", "deleting", "purged"}]
      /\ NewRow(r).kind = req[r].kind
  BY <1>7 DEF NewRow
<1>9. /\ Record(r, i) \in [actor : Actors, kind : Kinds, key : IdemKeys,
                           fingerprint : Fingerprints, id : Ids]
      /\ Record(r, i).actor = req[r].actor /\ Record(r, i).kind = req[r].kind
      /\ Record(r, i).key = req[r].key /\ Record(r, i).id = i
  BY <1>1, <1>3, <1>7 DEF Record
<1>10. /\ resources' \in [Ids -> [kind : Kinds \cup {"none"}, revision : Nat, at : Nat,
                                  status : {"absent", "active", "deleting", "purged"}]]
       /\ resources'[i].kind = req[r].kind
       /\ \A j \in Ids \ {i} : resources'[j] = resources[j]
  BY <1>3, <1>5, <1>8 DEF IInv, TablesOK
<1>11. /\ records' \subseteq [actor : Actors, kind : Kinds, key : IdemKeys,
                              fingerprint : Fingerprints, id : Ids]
       /\ \A rec \in records' : resources'[rec.id].kind = rec.kind
       /\ \A x, y \in records' : x.actor = y.actor /\ x.kind = y.kind /\ x.key = y.key => x = y
  <2>1. \A rec \in records : /\ rec.id \in Ids /\ rec.kind # "none"
                             /\ resources[rec.id].kind = rec.kind /\ rec.id # i
    BY <1>3 DEF IInv, TablesOK, Kinds, AdminKinds
  <2>2. \A rec \in records : ~(rec.actor = req[r].actor /\ rec.kind = req[r].kind /\ rec.key = req[r].key)
    BY <1>1 DEF Winner
  <2>3. /\ records \subseteq [actor : Actors, kind : Kinds, key : IdemKeys,
                              fingerprint : Fingerprints, id : Ids]
        /\ \A x, y \in records : x.actor = y.actor /\ x.kind = y.kind /\ x.key = y.key => x = y
    BY DEF IInv, TablesOK
  <2>4. PICK new : new = Record(r, i)
    OBVIOUS
  <2>5. /\ records' = records \cup {new} /\ new.actor = req[r].actor /\ new.kind = req[r].kind
        /\ new.key = req[r].key /\ new.id = i
    BY <1>5, <1>9, <2>4
  <2>6. records' \subseteq [actor : Actors, kind : Kinds, key : IdemKeys,
                              fingerprint : Fingerprints, id : Ids]
    BY <2>3, <2>4, <2>5, <1>9
  <2>7. \A rec \in records' : resources'[rec.id].kind = rec.kind
    BY <1>10, <2>1, <2>5
  <2>8. \A x, y \in records' : x.actor = y.actor /\ x.kind = y.kind /\ x.key = y.key => x = y
    BY <2>2, <2>3, <2>5
  <2> QED
    BY <2>6, <2>7, <2>8
<1>12. /\ keys' \in [Actors -> [status : {"absent", "active", "disabled", "revoked"}, manage : BOOLEAN,
                                scope : SUBSET Ids, revision : Nat]]
       /\ \A a \in Actors \ {req[r].actor} : keys'[a] = keys[a]
       /\ \/ keys'[req[r].actor] = keys[req[r].actor]
          \/ /\ req[r].kind = "knowledge_base"
             /\ keys'[req[r].actor].status = keys[req[r].actor].status
             /\ keys'[req[r].actor].scope = keys[req[r].actor].scope \cup {i}
             /\ keys'[req[r].actor].revision = keys[req[r].actor].revision + 1
  <2> DEFINE KeyRows == [status : {"absent", "active", "disabled", "revoked"}, manage : BOOLEAN,
                         scope : SUBSET Ids, revision : Nat]
  <2>0. keys \in [Actors -> KeyRows]
    BY ZenonT(60) DEF IInv, TablesOK
  <2>1. CASE InsertKnowledgeBase(r, i)
    <3>1. PICK a \in Actors : a = req[r].actor
      BY <1>1
    <3>2. keys' = [keys EXCEPT ![a].scope = @ \cup {i}, ![a].revision = @ + 1]
      BY <2>1, <3>1 DEF InsertKnowledgeBase
    <3>3. keys' \in [Actors -> KeyRows]
      BY <2>0, <3>2, <1>3
    <3>4. /\ \A b \in Actors \ {a} : keys'[b] = keys[b]
          /\ keys'[a].status = keys[a].status
          /\ keys'[a].scope = keys[a].scope \cup {i}
          /\ keys'[a].revision = keys[a].revision + 1
      BY <2>0, <3>2
    <3> QED
      BY <2>1, <3>1, <3>3, <3>4, Zenon DEF InsertKnowledgeBase
  <2>2. CASE keys' = keys
    BY <2>0, <2>2
  <2> QED
    BY <1>2, <2>1, <2>2 DEF InsertCredential, InsertConfig, InsertProfile
<1>13. TablesOK'
  <2>1. \A a \in Actors : \A j \in keys'[a].scope : resources'[j].kind = "knowledge_base"
    <3>1. \A a \in Actors : \A j \in keys[a].scope : j \in Ids /\ resources[j].kind = "knowledge_base" /\ j # i
      BY <1>3 DEF IInv, TablesOK
    <3> QED
      BY <1>10, <1>12, <3>1
  <2> QED
    BY <1>5, <1>6, <1>10, <1>11, <1>12, <2>1 DEF IInv, TablesOK, Kept
<1>14. ASSUME NEW s \in Requests \ {r} PROVE Respects(s)
  <2>1. KeysKept(s)
    <3>1. \A a \in Actors : keys[a].revision \in Nat
      BY DEF IInv, TablesOK
    <3> QED
      BY <1>1, <1>12, <3>1 DEF KeysKept
  <2>2. ResourcesKept(s)
    BY <1>3, <1>10 DEF ResourcesKept
  <2>3. RecordsKept(s)
    BY <1>1, <1>5, <1>9 DEF RecordsKept
  <2> QED
    BY <1>6, <2>1, <2>2, <2>3 DEF Respects
<1>15. \A s \in Requests \ {r} : RequestOK(s)'
  BY <1>6, <1>13, <1>14, Frame DEF Kept
<1>16. Seen(r)'
  BY <1>1, <1>6 DEF Seen, Kept, Fields, CreateOps, EditOps
<1>17. RequestOK(r)'
  BY <1>1, <1>5, <1>13, <1>16, EndOK
<1> QED
  BY <1>13, <1>15, <1>17 DEF IInv

\* A request that holds its actor's key locks the row it is about and moves on.
LEMMA LockTarget ==
  ASSUME IInv, NEW r \in Requests, NEW row \in Rows, row = req[r].target, Acquire(r, row),
         NEW p, Goto(r, p), UNCHANGED tables, p \in Phases(req[r].op),
         req[r].pc \in {"lock_kb", "key_lock", "lock_credential"},
         p \in {"write_kb", "write_credential", "key_scopes", "key_write", "refuse"},
         p = "write_kb" => row \in keys[req[r].actor].scope,
         p = "key_scopes" => req[r].op = "grant",
         p = "key_write" => req[r].scope = {},
         p \in KeyPhases => keys[row].revision = req[r].etag /\ keys[row].status # "revoked"
  PROVE  IInv'
<1>1. RequestOK(r) /\ req[r].op # "none" /\ req[r].actor \in Rows /\ req[r].actor \in Actors
  BY Running
<1>2. Kept(r, {"pc"}) /\ req'[r].pc = p /\ Shaped(r)' /\ Same(r)
  BY GotoSame
<1>3. /\ lock'[row] = r
      /\ \A x \in Rows \ {row} : lock'[x] = lock[x]
  BY DEF Acquire, IInv, TablesOK
<1>4. lock[req[r].actor] = r /\ Revalidated(req[r].actor)
  BY <1>1 DEF RequestOK, Holds, Checked, Authorized
<1>5. \A x \in Rows : lock[x] = r => x = req[r].actor
  BY <1>1 DEF RequestOK, Holds
<1>6. Holds(r)'
  <2>1. \A x \in Rows : lock'[x] = r => x \in {req'[r].actor, req'[r].target}
    BY <1>2, <1>3, <1>5 DEF Same
  <2>2. lock'[req'[r].actor] = r /\ lock'[req'[r].target] = r
    BY <1>1, <1>2, <1>3, <1>4 DEF Same
  <2>3. p \in Authorized \cup {"refuse"} /\ (p = "key_write" => req'[r].scope = {})
    BY <1>2 DEF Authorized, KeyPhases, Same
  <2> QED
    BY <1>2, <2>1, <2>2, <2>3 DEF Holds
<1>7. Checked(r)'
  <2>1. Revalidated(req[r].actor)'
    BY <1>2, <1>4 DEF Revalidated, Same, tables
  <2> QED
    BY <1>2, <2>1 DEF Checked, Same, tables
<1>8. Recorded(r)'
  <2>1. req'[r].result = None
    BY <1>1, <1>2 DEF RequestOK, Shaped, Same
  <2> QED
    BY <1>2, <2>1 DEF Recorded, Rows
<1>9. Seen(r)'
  BY <1>1, <1>2 DEF RequestOK, Seen, Same, tables
<1> QED
  BY <1>2, <1>6, <1>7, <1>8, <1>9, LockStep DEF RequestOK

\* A request that holds its actor's key gives up.
LEMMA TurnBack ==
  ASSUME IInv, NEW r \in Requests, req[r].pc \in Authorized, Goto(r, "refuse"),
         UNCHANGED <<tables, lock>>
  PROVE  IInv'
<1>1. RequestOK(r) /\ req[r].op # "none"
  BY Running DEF Authorized, CreatePhases, KeyPhases
<1>2. Kept(r, {"pc"}) /\ req'[r].pc = "refuse" /\ Shaped(r)' /\ Same(r)
  <2>1. "refuse" \in Phases(req[r].op)
    BY <1>1 DEF RequestOK, Shaped, Phases, CreateOps, EditOps
  <2> QED
    BY <2>1, GotoSame DEF Authorized, CreatePhases, KeyPhases
<1>3. Holds(r)' /\ Checked(r)'
  BY <1>1, <1>2 DEF RequestOK, Holds, Checked, Authorized, CreatePhases, KeyPhases
<1>4. Recorded(r)'
  <2>1. req'[r].result = None
    BY <1>1, <1>2 DEF RequestOK, Shaped, Same, Authorized, CreatePhases, KeyPhases
  <2> QED
    BY <1>2, <2>1 DEF Recorded, Rows
<1>5. Seen(r)'
  BY <1>1, <1>2 DEF RequestOK, Seen, Same, tables
<1> QED
  BY <1>2, <1>3, <1>4, <1>5, QuietStep DEF RequestOK

LEMMA LockRowOK ==
  ASSUME IInv, NEW r \in Requests,
         LockKnowledgeBase(r) \/ LockCredential(r) \/ LockAgentKey(r)
  PROVE  IInv'
<1>1. /\ RequestOK(r) /\ req[r].op # "none" /\ Shaped(r)
      /\ req[r].pc \in {"lock_kb", "key_lock", "lock_credential"}
  BY Running DEF LockKnowledgeBase, LockCredential, LockAgentKey, RequestOK
<1>2. req[r].pc \in Authorized
  BY <1>1 DEF Authorized
<1>3. CASE LockKnowledgeBase(r)
  <2>1. req[r].op \in {"update", "delete"} /\ req[r].target \in Rows
    BY <1>1, <1>3, Running DEF LockKnowledgeBase, Shaped, Rows
  <2>2. CASE req[r].target \in keys[req[r].actor].scope
    <3>1. PICK row \in Rows : row = req[r].target
      BY <2>1
    <3>2. Acquire(r, row) /\ Goto(r, "write_kb") /\ UNCHANGED tables /\ row \in keys[req[r].actor].scope
      BY <1>3, <2>2, <3>1 DEF LockKnowledgeBase
    <3>3. "write_kb" \in Phases(req[r].op)
      BY <2>1 DEF Phases, CreateOps, EditOps
    <3> QED
      BY <1>1, <3>1, <3>2, <3>3, LockTarget DEF KeyPhases
  <2>3. CASE req[r].target \notin keys[req[r].actor].scope
    BY <1>2, <1>3, <2>3, TurnBack DEF LockKnowledgeBase
  <2> QED
    BY <2>2, <2>3
<1>4. CASE LockCredential(r)
  <2>1. req[r].op = "rotate" /\ req[r].target \in Rows
    BY <1>1, <1>4, Running DEF LockCredential, Shaped, Rows
  <2>2. PICK row \in Rows : row = req[r].target
    BY <2>1
  <2>3. PICK p \in {"write_credential", "refuse"} : Goto(r, p)
    BY <1>4 DEF LockCredential
  <2>4. Acquire(r, row) /\ UNCHANGED tables
    BY <1>4, <2>2 DEF LockCredential
  <2>5. p \in Phases(req[r].op)
    BY <2>1 DEF Phases, CreateOps, EditOps
  <2> QED
    BY <1>1, <2>2, <2>3, <2>4, <2>5, LockTarget DEF KeyPhases
<1>5. CASE LockAgentKey(r)
  <2>1. req[r].op \in EditOps /\ req[r].target \in Rows
    BY <1>1, <1>5, Running DEF LockAgentKey, Shaped, Rows, Actors
  <2>2. PICK row \in Rows : row = req[r].target
    BY <2>1
  <2>3. Acquire(r, row) /\ UNCHANGED tables
    BY <1>5, <2>2 DEF LockAgentKey
  <2>4. PICK p \in {"key_scopes", "key_write", "refuse"} :
          /\ Goto(r, p)
          /\ p = "key_scopes" => req[r].op = "grant"
          /\ p = "key_write" => req[r].op # "grant"
          /\ p \in {"key_scopes", "key_write"} => keys[row].revision = req[r].etag /\ keys[row].status # "revoked"
    <3> DEFINE stale == keys[row].revision # req[r].etag \/ keys[row].status = "revoked"
    <3>1. CASE stale
      <4>1. Goto(r, "refuse")
        BY <1>5, <2>2, <3>1 DEF LockAgentKey
      <4> QED
        BY <4>1
    <3>2. CASE ~stale /\ req[r].op = "grant"
      <4>1. Goto(r, "key_scopes")
        BY <1>5, <2>2, <3>2 DEF LockAgentKey
      <4> QED
        BY <3>2, <4>1
    <3>3. CASE ~stale /\ req[r].op # "grant"
      <4>1. Goto(r, "key_write")
        BY <1>5, <2>2, <3>3 DEF LockAgentKey
      <4> QED
        BY <3>3, <4>1
    <3> QED
      BY <3>1, <3>2, <3>3
  <2>5. p = "key_write" => req[r].scope = {}
    BY <1>1, <2>1, <2>4 DEF Shaped, EditOps
  <2>6. p \in Phases(req[r].op)
    BY <2>1, <2>4 DEF Phases, CreateOps, EditOps, KeyPhases
  <2> QED
    BY <1>1, <2>2, <2>3, <2>4, <2>5, <2>6, LockTarget DEF KeyPhases
<1> QED
  BY <1>3, <1>4, <1>5

\* The update or the deletion of a knowledge base: nobody who has it locked is
\* disturbed.
LEMMA WriteKnowledgeBaseOK ==
  ASSUME IInv, NEW r \in Requests, WriteKnowledgeBase(r)
  PROVE  IInv'
<1>1. /\ RequestOK(r) /\ req[r].op \in {"update", "delete"} /\ req[r].op # "none"
      /\ req[r].target \in Ids /\ lock[req[r].target] = r
      /\ req[r].key = None
  BY Running DEF WriteKnowledgeBase, RequestOK, Shaped, Holds, CreateOps
<1>2. PICK i \in Ids : i = req[r].target
  BY <1>1
<1>3. \/ Refuse(r)
      \/ End(r, i) /\ UNCHANGED tables
      \/ /\ resources[i].status # "purged"
         /\ resources' = [resources EXCEPT ![i].revision = @ + 1,
                 ![i].status = IF req[r].op = "delete" THEN "deleting" ELSE @]
         /\ End(r, i) /\ UNCHANGED <<keys, records, clock>>
  BY <1>2 DEF WriteKnowledgeBase
<1>4. CASE Refuse(r)
  BY <1>1, <1>4, RefuseOK
<1>5. CASE End(r, i) /\ UNCHANGED tables
  BY <1>1, <1>5, QuietEnd
<1>6. CASE /\ resources[i].status # "purged"
           /\ resources' = [resources EXCEPT ![i].revision = @ + 1,
                 ![i].status = IF req[r].op = "delete" THEN "deleting" ELSE @]
           /\ End(r, i) /\ UNCHANGED <<keys, records, clock>>
  <2> DEFINE Row == [kind : Kinds \cup {"none"}, revision : Nat, at : Nat,
                     status : {"absent", "active", "deleting", "purged"}]
  <2>1. resources \in [Ids -> Row]
    BY DEF IInv, TablesOK
  <2>2. resources' \in [Ids -> Row]
    <3>1. PICK st \in {"absent", "active", "deleting", "purged"} :
            st = IF req[r].op = "delete" THEN "deleting" ELSE resources[i].status
      BY <2>1
    <3>2. resources' = [resources EXCEPT ![i].revision = @ + 1, ![i].status = st]
      BY <1>6, <2>1, <3>1
    <3>3. /\ resources' = [j \in Ids |-> resources'[j]]
          /\ \A j \in Ids \ {i} : resources'[j] = resources[j]
          /\ resources'[i] = [f \in {"kind", "revision", "at", "status"} |->
                                CASE f = "kind" -> resources[i].kind
                                  [] f = "revision" -> resources[i].revision + 1
                                  [] f = "at" -> resources[i].at
                                  [] f = "status" -> st]
      BY <2>1, <3>2
    <3>4. /\ resources[i].kind \in Kinds \cup {"none"} /\ resources[i].revision + 1 \in Nat
          /\ resources[i].at \in Nat
      BY <2>1
    <3>5. resources'[i] \in Row
      BY <3>1, <3>3, <3>4
    <3> QED
      BY <2>1, <3>3, <3>5
  <2>3. /\ \A j \in Ids \ {i} : resources'[j] = resources[j]
        /\ resources'[i].kind = resources[i].kind
    BY <1>6, <2>1
  <2>4. /\ Kept(r, {"pc", "result"}) /\ req'[r].pc = "done"
        /\ lock' \in [Rows -> Requests \cup {None}]
        /\ \A s \in Requests \ {r} : \A x \in Rows : lock'[x] = s <=> lock[x] = s
    BY <1>6, EndKeeps
  <2>5. TablesOK'
    <3>1. \A j \in Ids : resources'[j].kind = resources[j].kind
      BY <2>3
    <3>2. /\ \A a \in Actors : \A j \in keys'[a].scope : resources'[j].kind = "knowledge_base"
          /\ \A rec \in records' : resources'[rec.id].kind = rec.kind
      BY <1>6, <3>1 DEF IInv, TablesOK
    <3> QED
      BY <1>6, <2>2, <2>4, <3>2 DEF IInv, TablesOK, Kept
  <2>6. ASSUME NEW s \in Requests \ {r} PROVE Respects(s)
    <3>1. KeysKept(s) /\ RecordsKept(s)
      <4>1. \A a \in Actors : keys[a].revision \in Nat
        BY SMTT(30) DEF IInv, TablesOK
      <4> QED
        BY <1>6, <4>1 DEF KeysKept, RecordsKept
    <3>2. ResourcesKept(s)
      BY <1>1, <1>2, <1>6, <2>3 DEF ResourcesKept
    <3> QED
      BY <2>4, <3>1, <3>2 DEF Respects
  <2>7. \A s \in Requests \ {r} : RequestOK(s)'
    BY <2>4, <2>5, <2>6, Frame DEF Kept
  <2>8. Seen(r)'
    BY <1>1, <2>4 DEF Seen, Kept, Fields, EditOps
  <2>9. RequestOK(r)'
    BY <1>1, <1>6, <2>5, <2>8, EndOK
  <2> QED
    BY <2>5, <2>7, <2>9 DEF IInv
<1> QED
  BY <1>3, <1>4, <1>5, <1>6

LEMMA WriteCredentialOK ==
  ASSUME IInv, NEW r \in Requests, WriteCredential(r)
  PROVE  IInv'
<1>1. /\ RequestOK(r) /\ req[r].op = "rotate" /\ req[r].target \in Ids /\ req[r].key = None
  BY Running DEF WriteCredential, RequestOK, Shaped, CreateOps
<1>2. PICK i \in Ids : i = req[r].target
  BY <1>1
<1>3. /\ resources' = [resources EXCEPT ![i].revision = @ + 1]
      /\ End(r, i) /\ UNCHANGED <<keys, records, clock>>
  BY <1>2 DEF WriteCredential
<1> DEFINE Row == [kind : Kinds \cup {"none"}, revision : Nat, at : Nat,
                   status : {"absent", "active", "deleting", "purged"}]
<1>4. resources \in [Ids -> Row]
  BY DEF IInv, TablesOK
<1>5. resources' \in [Ids -> Row]
  BY <1>3, <1>4
<1>6. \A j \in Ids : resources'[j].kind = resources[j].kind /\ resources'[j].status = resources[j].status
  BY <1>3, <1>4
<1>7. /\ Kept(r, {"pc", "result"}) /\ req'[r].pc = "done"
      /\ lock' \in [Rows -> Requests \cup {None}]
      /\ \A s \in Requests \ {r} : \A x \in Rows : lock'[x] = s <=> lock[x] = s
  BY <1>3, EndKeeps
<1>8. TablesOK'
  <2>1. /\ \A a \in Actors : \A j \in keys'[a].scope : resources'[j].kind = "knowledge_base"
        /\ \A rec \in records' : resources'[rec.id].kind = rec.kind
    BY <1>3, <1>6 DEF IInv, TablesOK
  <2> QED
    BY <1>3, <1>5, <1>7, <2>1 DEF IInv, TablesOK, Kept
<1>9. ASSUME NEW s \in Requests \ {r} PROVE Respects(s)
  <2>1. \A a \in Actors : keys[a].revision \in Nat
    BY DEF IInv, TablesOK
  <2> QED
    BY <1>3, <1>6, <1>7, <2>1 DEF Respects, KeysKept, RecordsKept, ResourcesKept
<1>10. \A s \in Requests \ {r} : RequestOK(s)'
  BY <1>7, <1>8, <1>9, Frame DEF Kept
<1>11. Seen(r)'
  BY <1>1, <1>7 DEF Seen, Kept, Fields, EditOps
<1>12. RequestOK(r)'
  BY <1>1, <1>3, <1>8, <1>11, EndOK
<1> QED
  BY <1>8, <1>10, <1>12 DEF IInv

\* The statement that locks the scope starts.
LEMMA FindScopesOK ==
  ASSUME IInv, NEW r \in Requests, FindScopes(r)
  PROVE  IInv'
<1>1. /\ RequestOK(r) /\ req[r].op \in EditOps \cup {"issue"} /\ req[r].pc = "key_scopes"
      /\ req[r].actor \in Admins /\ req[r].target \in Agents /\ req[r].scope \subseteq Ids
      /\ req[r].op \notin {"alter", "revoke"}
  BY Running DEF FindScopes, KeyPhases, RequestOK, Shaped
<1>2. DOMAIN req = Requests /\ DOMAIN req[r] = Fields
  BY <1>1 DEF IInv, TablesOK, RequestOK, Shaped
<1>3. /\ Kept(r, {"pc", "found"}) /\ req'[r].pc = "key_rows" /\ UNCHANGED <<tables, lock>>
      /\ req'[r].found = {i \in req[r].scope : /\ resources[i].kind = "knowledge_base"
                                               /\ resources[i].status # "purged"}
  BY <1>2 DEF FindScopes, Kept, Fields
<1>4. /\ req'[r].op = req[r].op /\ req'[r].actor = req[r].actor /\ req'[r].at = req[r].at
      /\ req'[r].key = req[r].key /\ req'[r].kind = req[r].kind /\ req'[r].target = req[r].target
      /\ req'[r].fingerprint = req[r].fingerprint /\ req'[r].scope = req[r].scope
      /\ req'[r].etag = req[r].etag /\ req'[r].stable = req[r].stable
      /\ req'[r].result = req[r].result /\ DOMAIN req'[r] = Fields
  BY <1>3 DEF Kept, Fields
<1>5. Shaped(r)'
  <2>1. "key_rows" \in Phases(req[r].op)
    BY <1>1 DEF Phases, CreateOps, EditOps, KeyPhases
  <2>2. req'[r].found \subseteq Ids
    BY <1>1, <1>3
  <2> QED
    BY <1>1, <1>3, <1>4, <2>1, <2>2 DEF RequestOK, Shaped
<1>6. Holds(r)'
  <2>1. \A row \in Rows : lock'[row] = r => row \in {req'[r].actor, req'[r].target}
    BY <1>1, <1>3, <1>4 DEF RequestOK, Holds
  <2>2. lock'[req'[r].actor] = r /\ (req[r].op # "issue" => lock'[req'[r].target] = r)
    BY <1>1, <1>3, <1>4 DEF RequestOK, Holds, Authorized, KeyPhases
  <2> QED
    BY <1>3, <1>4, <2>1, <2>2 DEF Holds, Authorized, KeyPhases
<1>7. Checked(r)'
  <2>1. Revalidated(req[r].actor)'
    BY <1>1, <1>3, <1>4 DEF RequestOK, Checked, Revalidated, tables, Authorized, KeyPhases
  <2>2. req[r].op # "issue" => keys[req[r].target].revision = req[r].etag /\ keys[req[r].target].status # "revoked"
    BY <1>1 DEF RequestOK, Checked, KeyPhases
  <2> QED
    BY <1>3, <1>4, <2>1, <2>2 DEF Checked, tables
<1>8. Recorded(r)'
  BY <1>1, <1>3, <1>4 DEF RequestOK, Shaped, Recorded, Rows
<1>9. Seen(r)'
  BY <1>1, <1>3, <1>4 DEF RequestOK, Seen, tables
<1> QED
  BY <1>3, <1>5, <1>6, <1>7, <1>8, <1>9, QuietStep DEF RequestOK

\* A set of rows that is not empty has a least one.
LEMMA LeastRow ==
  ASSUME NEW S, S \subseteq Nat, S # {}
  PROVE  Least(S) \in S /\ \A y \in S : Least(S) <= y
<1>1. PICK x \in S : \A y \in S : ~(<<y, x>> \in OpToRel(<, Nat))
  BY NatLessThanWellFounded, WFMin
<1>2. \A y \in S : ~(y < x)
  BY <1>1, Zenon DEF OpToRel
<1>3. \A y \in S : x <= y
  BY <1>2
<1> QED
  BY <1>3 DEF Least

\* The rows of a scope are locked from the least on.
LEMMA LockScopesOK ==
  ASSUME IInv, NEW r \in Requests, LockScopes(r)
  PROVE  IInv'
<1>1. /\ RequestOK(r) /\ req[r].op \in EditOps \cup {"issue"} /\ req[r].pc = "key_rows"
      /\ req[r].actor \in Admins /\ req[r].target \in Agents /\ req[r].found \subseteq Ids
  BY Running DEF LockScopes, KeyPhases, RequestOK, Shaped
<1>2. UnlockedScopes(r) \subseteq req[r].found /\ UnlockedScopes(r) \subseteq Nat /\ UnlockedScopes(r) # {}
  BY <1>1 DEF UnlockedScopes, Rows, LockScopes
<1>3. PICK row : row = Least(UnlockedScopes(r))
  OBVIOUS
<1>4. row \in UnlockedScopes(r) /\ (\A y \in UnlockedScopes(r) : row <= y) /\ row \in Ids /\ row \in Rows
  <2>1. PICK S : S = UnlockedScopes(r)
    OBVIOUS
  <2>2. Least(S) \in S /\ \A y \in S : Least(S) <= y
    BY <1>2, <2>1, LeastRow
  <2> QED
    BY <1>1, <1>2, <1>3, <2>1, <2>2 DEF Rows
<1>5. Acquire(r, row) /\ UNCHANGED tables /\ req' = req
  BY <1>3 DEF LockScopes
<1>6. /\ lock'[row] = r
      /\ \A x \in Rows \ {row} : lock'[x] = lock[x]
  BY <1>4, <1>5, AcquireKeeps
<1>7. \A i \in UnlockedScopes(r)' : i \in UnlockedScopes(r) /\ i # row
  BY <1>1, <1>5, <1>6 DEF UnlockedScopes, tables, Rows
<1>8. Holds(r)'
  <2>1. \A i \in UnlockedScopes(r)' : row < i
    BY <1>2, <1>4, <1>7
  <2>2. ASSUME NEW x \in Rows, lock'[x] = r
        PROVE  \/ x \in {req[r].actor, req[r].target}
               \/ x \in req[r].found /\ \A i \in UnlockedScopes(r)' : x < i
    <3>1. CASE x = row
      BY <1>2, <1>4, <2>1, <3>1
    <3>2. CASE x # row
      BY <1>1, <1>6, <1>7, <2>2, <3>2 DEF RequestOK, Holds
    <3> QED
      BY <3>1, <3>2
  <2>3. lock'[req[r].actor] = r /\ (req[r].op # "issue" => lock'[req[r].target] = r)
    <3>1. lock[req[r].actor] = r /\ (req[r].op # "issue" => lock[req[r].target] = r)
      BY <1>1 DEF RequestOK, Holds, Authorized, KeyPhases
    <3> QED
      BY <1>1, <1>4, <1>6, <3>1 DEF Rows, Actors
  <2> QED
    BY <1>1, <1>5, <2>2, <2>3 DEF Holds, Authorized, KeyPhases
<1>9. RequestOK(r)'
  <2>1. Winner(r)' = Winner(r)
    BY <1>5 DEF Winner, tables
  <2>2. Shaped(r)' /\ Checked(r)' /\ Recorded(r)' /\ Seen(r)'
    BY <1>1, <1>5, <2>1 DEF RequestOK, Shaped, Checked, Recorded, Record, Seen, Revalidated, tables
  <2> QED
    BY <1>8, <2>2 DEF RequestOK
<1>10. Kept(r, {})
  BY <1>1, <1>5 DEF Kept, IInv, TablesOK, RequestOK, Shaped
<1> QED
  BY <1>4, <1>5, <1>9, <1>10, LockStep

\* Every row of the scope is locked, or the grant is refused.
LEMMA ScopesCheckedOK ==
  ASSUME IInv, NEW r \in Requests, ScopesChecked(r)
  PROVE  IInv'
<1>1. /\ RequestOK(r) /\ req[r].op \in EditOps \cup {"issue"} /\ req[r].pc = "key_rows"
      /\ req[r].pc \in Authorized
  BY Running DEF ScopesChecked, KeyPhases, RequestOK, Authorized
<1>2. CASE ~(\A i \in req[r].scope : i \in req[r].found /\ resources[i].status = "active")
  BY <1>1, <1>2, TurnBack DEF ScopesChecked
<1>3. CASE \A i \in req[r].scope : i \in req[r].found /\ resources[i].status = "active"
  <2>1. Goto(r, "key_write") /\ UNCHANGED <<tables, lock>> /\ UnlockedScopes(r) = {}
    BY <1>3 DEF ScopesChecked
  <2>2. "key_write" \in Phases(req[r].op)
    BY <1>1 DEF Phases, CreateOps, EditOps, KeyPhases
  <2>3. Kept(r, {"pc"}) /\ req'[r].pc = "key_write" /\ Shaped(r)' /\ Same(r)
    BY <1>1, <2>1, <2>2, GotoSame
  <2>4. \A i \in req[r].scope : lock[i] = r /\ resources[i].kind = "knowledge_base"
    BY <1>1, <1>3, <2>1 DEF UnlockedScopes, RequestOK, Checked
  <2>5. lock[req[r].actor] = r /\ (req[r].op # "issue" => lock[req[r].target] = r)
    BY <1>1 DEF RequestOK, Holds, KeyPhases
  <2>6. Holds(r)'
    BY <2>1, <2>3, <2>4, <2>5 DEF Holds, Same, Authorized, KeyPhases
  <2>7. Checked(r)'
    <3>1. Revalidated(req[r].actor)'
      BY <1>1, <2>1, <2>3 DEF RequestOK, Checked, Revalidated, tables, Same
    <3>2. req[r].op # "issue" => keys[req[r].target].revision = req[r].etag /\ keys[req[r].target].status # "revoked"
      BY <1>1 DEF RequestOK, Checked, KeyPhases
    <3> QED
      BY <1>3, <2>1, <2>3, <2>4, <3>1, <3>2 DEF Checked, tables, Same
  <2>8. Recorded(r)'
    <3>1. req'[r].result = None
      BY <1>1, <2>3 DEF RequestOK, Shaped, Same
    <3> QED
      BY <2>3, <3>1 DEF Recorded, Rows
  <2>9. Seen(r)'
    BY <1>1, <2>1, <2>3 DEF RequestOK, Seen, Same, tables
  <2> QED
    BY <2>1, <2>3, <2>6, <2>7, <2>8, <2>9, QuietStep DEF RequestOK
<1> QED
  BY <1>2, <1>3

OnlyKeyWritten(a) ==
  /\ keys' = [b \in Actors |-> IF b = a THEN keys'[a] ELSE keys[b]]
  /\ keys'[a] \in [status : {"absent", "active", "disabled", "revoked"}, manage : BOOLEAN,
                    scope : SUBSET Ids, revision : Nat]

\* A key is written under its own row lock, or is new; whoever read it before
\* read an earlier revision.
LEMMA KeyWritten ==
  ASSUME IInv, NEW r \in Requests, req[r].pc = "key_write", NEW a \in Agents, a = req[r].target,
         End(r, a), UNCHANGED <<resources, records, clock>>,
         OnlyKeyWritten(a),
         \A i \in keys'[a].scope : resources[i].kind = "knowledge_base",
         req[r].op = "issue" => keys[a].status = "absent",
         req[r].op # "issue" => /\ keys'[a].status # "absent"
                                /\ keys'[a].revision = keys[a].revision + 1
  PROVE  IInv'
<1>1. /\ RequestOK(r) /\ req[r].op \in EditOps \cup {"issue"} /\ req[r].op # "none"
      /\ req[r].key = None /\ a \in Actors /\ a \notin Ids
  BY Running DEF KeyPhases, RequestOK, Shaped, CreateOps, EditOps, Actors, Rows
<1>2. /\ Kept(r, {"pc", "result"}) /\ req'[r].pc = "done"
      /\ lock' \in [Rows -> Requests \cup {None}]
      /\ \A s \in Requests \ {r} : \A x \in Rows : lock'[x] = s <=> lock[x] = s
  BY EndKeeps
<1>3. \A b \in Actors \ {a} : keys'[b] = keys[b]
  BY DEF OnlyKeyWritten
<1>4. \A b \in Actors : keys[b].revision \in Nat
  BY DEF IInv, TablesOK
<1>5. TablesOK'
  <2>1. /\ keys \in [Actors -> [status : {"absent", "active", "disabled", "revoked"}, manage : BOOLEAN,
                               scope : SUBSET Ids, revision : Nat]]
        /\ \A b \in Actors : \A i \in keys[b].scope : resources[i].kind = "knowledge_base"
    BY DEF IInv, TablesOK
  <2>2. keys' \in [Actors -> [status : {"absent", "active", "disabled", "revoked"}, manage : BOOLEAN,
                               scope : SUBSET Ids, revision : Nat]]
    BY <1>1, <2>1 DEF OnlyKeyWritten
  <2>3. \A b \in Actors : \A i \in keys'[b].scope : resources'[i].kind = "knowledge_base"
    BY <1>1, <1>3, <2>1
  <2> QED
    BY <1>2, <2>2, <2>3 DEF IInv, TablesOK, Kept
<1>6. ASSUME NEW s \in Requests \ {r} PROVE Respects(s)
  <2>1. req[r].op # "issue" => lock[a] = r
    BY <1>1 DEF RequestOK, Holds, KeyPhases
  <2>2. KeysKept(s)
    BY <1>1, <1>3, <1>4, <2>1 DEF KeysKept
  <2>3. ResourcesKept(s) /\ RecordsKept(s)
    BY DEF ResourcesKept, RecordsKept
  <2> QED
    BY <1>2, <2>2, <2>3 DEF Respects
<1>7. \A s \in Requests \ {r} : RequestOK(s)'
  BY <1>2, <1>5, <1>6, Frame DEF Kept
<1>8. Seen(r)'
  <2>1. /\ req'[r].op = req[r].op /\ req'[r].target = req[r].target
        /\ req'[r].etag = req[r].etag /\ req'[r].stable = req[r].stable
    BY <1>2 DEF Kept, Fields
  <2>2. req[r].op # "issue" => keys[a].revision = req[r].etag
    BY <1>1 DEF RequestOK, Checked, KeyPhases
  <2> QED
    BY <1>1, <1>4, <2>1, <2>2 DEF RequestOK, Seen, EditOps
<1>9. RequestOK(r)'
  BY <1>1, <1>5, <1>8, EndOK
<1> QED
  BY <1>5, <1>7, <1>9 DEF IInv

LEMMA WriteKeyOK ==
  ASSUME IInv, NEW r \in Requests,
         IssueAgentKey(r) \/ UpdateAgentKey(r) \/ RevokeAgentKey(r)
  PROVE  IInv'
<1> DEFINE KeyRow == [status : {"absent", "active", "disabled", "revoked"}, manage : BOOLEAN,
                      scope : SUBSET Ids, revision : Nat]
<1>1. /\ RequestOK(r) /\ req[r].op \in EditOps \cup {"issue"} /\ req[r].op # "none"
      /\ req[r].target \in Agents /\ req[r].scope \subseteq Ids /\ req[r].pc = "key_write"
  BY Running DEF IssueAgentKey, UpdateAgentKey, RevokeAgentKey, KeyPhases, RequestOK, Shaped, EditOps
<1>2. PICK a \in Agents : a = req[r].target
  BY <1>1
<1>3. keys \in [Actors -> KeyRow] /\ a \in Actors
  BY DEF IInv, TablesOK, Actors
<1>4. \A i \in req[r].scope : resources[i].kind = "knowledge_base"
  BY <1>1 DEF RequestOK, Checked
<1>5. \A i \in keys[a].scope : resources[i].kind = "knowledge_base"
  BY <1>3 DEF IInv, TablesOK
<1>6. CASE IssueAgentKey(r)
  <2>1. CASE Refuse(r)
    BY <1>1, <2>1, RefuseOK
  <2>2. CASE ~Refuse(r)
    <3>1. /\ keys[a].status = "absent" /\ req[r].op = "issue"
          /\ keys' = [keys EXCEPT ![a] = [status |-> "active", manage |-> TRUE,
                                          scope |-> req[r].scope, revision |-> 1]]
          /\ End(r, a) /\ UNCHANGED <<resources, records, clock>>
      BY <1>2, <1>6, <2>2 DEF IssueAgentKey
    <3>2. /\ keys'[a] = [status |-> "active", manage |-> TRUE, scope |-> req[r].scope, revision |-> 1]
          /\ keys' = [b \in Actors |-> IF b = a THEN keys'[a] ELSE keys[b]]
      BY <1>3, <3>1
    <3>3. keys'[a] \in KeyRow /\ keys'[a].scope = req[r].scope
      BY <1>1, <3>2
    <3>4. OnlyKeyWritten(a)
      BY <3>2, <3>3 DEF OnlyKeyWritten
    <3> QED
      BY <1>1, <1>2, <1>4, <3>1, <3>3, <3>4, KeyWritten
  <2> QED
    BY <2>1, <2>2
<1>7. CASE UpdateAgentKey(r)
  <2>1. /\ req[r].op \in {"grant", "alter"} /\ req[r].kind \in {"active", "disabled", "unmanaged"}
        /\ keys[a].status # "absent"
    BY <1>1, <1>2, <1>7 DEF UpdateAgentKey, RequestOK, Shaped, Seen, EditOps
  <2>2. PICK st, mg, sc :
          /\ st = IF req[r].kind = "unmanaged" THEN keys[a].status ELSE req[r].kind
          /\ mg = (keys[a].manage /\ req[r].kind # "unmanaged")
          /\ sc = IF req[r].op = "grant" THEN req[r].scope ELSE keys[a].scope
    OBVIOUS
  <2>3. /\ keys' = [keys EXCEPT ![a] = [status |-> st, manage |-> mg, scope |-> sc,
                                        revision |-> keys[a].revision + 1]]
        /\ End(r, a) /\ UNCHANGED <<resources, records, clock>>
    BY <1>2, <1>7, <2>2 DEF UpdateAgentKey
  <2>4. /\ st \in {"absent", "active", "disabled", "revoked"} /\ st # "absent"
        /\ mg \in BOOLEAN /\ sc \in SUBSET Ids
        /\ \A i \in sc : resources[i].kind = "knowledge_base"
    BY <1>1, <1>3, <1>4, <1>5, <2>1, <2>2
  <2>5. /\ keys'[a] = [status |-> st, manage |-> mg, scope |-> sc, revision |-> keys[a].revision + 1]
        /\ keys' = [b \in Actors |-> IF b = a THEN keys'[a] ELSE keys[b]]
    BY <1>3, <2>3
  <2>6. /\ keys'[a] \in KeyRow /\ keys'[a].scope = sc /\ keys'[a].status = st
        /\ keys'[a].revision = keys[a].revision + 1
    BY <1>3, <2>4, <2>5
  <2>7. OnlyKeyWritten(a)
    BY <2>5, <2>6 DEF OnlyKeyWritten
  <2>8. End(r, a) /\ UNCHANGED <<resources, records, clock>>
    BY <2>3
  <2> QED
    BY <1>1, <1>2, <2>1, <2>4, <2>6, <2>7, <2>8, KeyWritten
<1>8. CASE RevokeAgentKey(r)
  <2>1. /\ keys' = [keys EXCEPT ![a].status = "revoked", ![a].revision = @ + 1]
        /\ End(r, a) /\ UNCHANGED <<resources, records, clock>> /\ req[r].op = "revoke"
    BY <1>2, <1>8 DEF RevokeAgentKey
  <2>2. /\ keys' \in [Actors -> KeyRow]
        /\ \A b \in Actors \ {a} : keys'[b] = keys[b]
        /\ keys'[a].status = "revoked" /\ keys'[a].scope = keys[a].scope
        /\ keys'[a].revision = keys[a].revision + 1
    BY <1>3, <2>1
  <2>3. keys' = [b \in Actors |-> IF b = a THEN keys'[a] ELSE keys[b]] /\ keys'[a] \in KeyRow
    BY <1>3, <2>2
  <2>4. OnlyKeyWritten(a)
    BY <2>3 DEF OnlyKeyWritten
  <2>5. End(r, a) /\ UNCHANGED <<resources, records, clock>> /\ req[r].op = "revoke"
    BY <2>1
  <2>6. keys'[a].status # "absent" /\ keys'[a].scope = keys[a].scope
        /\ keys'[a].revision = keys[a].revision + 1
    BY <2>2
  <2> QED
    BY <1>1, <1>2, <1>5, <2>4, <2>5, <2>6, KeyWritten
<1> QED
  BY <1>6, <1>7, <1>8, SMTT(30)

\* What a page request does to its list.
LEMMA PageStep ==
  ASSUME IInv, NEW r \in Requests, ListPage(r)
  PROVE  \E fetched, page :
           /\ fetched = FirstRows({i \in Visible(r) : After(i, req[r].target)}, PageLimit + 1)
           /\ page = SubSeq(fetched, 1, IF Len(fetched) > PageLimit THEN PageLimit ELSE Len(fetched))
           /\ Kept(r, {"listed", "stable", "target", "pc"})
           /\ req'[r].listed = req[r].listed \o page
           /\ req'[r].stable = req[r].stable \cap Visible(r)
           /\ req'[r].target = IF Len(fetched) > PageLimit THEN NextCursor(fetched, page) ELSE None
           /\ req'[r].pc = IF Len(fetched) > PageLimit THEN "authenticate" ELSE "done"
<1>1. DOMAIN req = Requests /\ DOMAIN req[r] = Fields
  BY DEF IInv, TablesOK, RequestOK, Shaped
<1>2. PICK fetched :
        fetched = FirstRows({i \in Visible(r) : After(i, req[r].target)}, PageLimit + 1)
  OBVIOUS
<1>3. PICK page :
        page = SubSeq(fetched, 1, IF Len(fetched) > PageLimit THEN PageLimit ELSE Len(fetched))
  OBVIOUS
<1>4. PICK stable, target, p :
        /\ stable = req[r].stable \cap Visible(r)
        /\ target = IF Len(fetched) > PageLimit THEN NextCursor(fetched, page) ELSE None
        /\ p = IF Len(fetched) > PageLimit THEN "authenticate" ELSE "done"
  OBVIOUS
<1>5. req' = [req EXCEPT ![r].listed = @ \o page,
                         ![r].stable = @ \cap Visible(r),
                         ![r].target = target,
                         ![r].pc = p]
  BY <1>2, <1>3, <1>4, Zenon DEF ListPage
<1>6. /\ Kept(r, {"listed", "stable", "target", "pc"})
      /\ req'[r].listed = req[r].listed \o page
      /\ req'[r].stable = req[r].stable \cap Visible(r)
      /\ req'[r].target = target /\ req'[r].pc = p
  BY <1>1, <1>5 DEF Kept, Fields
<1> QED
  BY <1>2, <1>3, <1>4, <1>6

\* A page of a list: neither rows nor locks change.
LEMMA ListPageOK ==
  ASSUME IInv, NEW r \in Requests, ListPage(r)
  PROVE  IInv'
<1>1. RequestOK(r) /\ req[r].op = "list" /\ req[r].pc = "list" /\ req[r].actor \in Actors
  BY Running DEF ListPage
<1>2. DOMAIN req = Requests /\ DOMAIN req[r] = Fields
  BY <1>1 DEF IInv, TablesOK, RequestOK, Shaped
<1>4. PICK p \in {"authenticate", "done"} :
        Kept(r, {"listed", "stable", "target", "pc"}) /\ req'[r].pc = p
  BY PageStep
<1>5. /\ req'[r].op = "list" /\ req'[r].actor = req[r].actor /\ req'[r].at = req[r].at
      /\ req'[r].key = req[r].key /\ req'[r].result = req[r].result
      /\ DOMAIN req'[r] = Fields
  BY <1>1, <1>4 DEF Kept, Fields
<1>6. UNCHANGED <<tables, lock>>
  BY DEF ListPage
<1>7. Shaped(r)'
  <2>1. p \in Phases("list")
    BY DEF Phases, CreateOps, EditOps
  <2> QED
    BY <1>1, <1>4, <1>5, <2>1 DEF RequestOK, Shaped, CreateOps, EditOps
<1>8. \A x \in Rows : lock[x] # r
  BY <1>1 DEF RequestOK, Holds, Authorized, CreatePhases, KeyPhases
<1>9. Holds(r)' /\ Checked(r)'
  BY <1>4, <1>6, <1>8 DEF Holds, Checked, Authorized, CreatePhases, KeyPhases
<1>10. Recorded(r)' /\ Seen(r)'
  <2>1. req[r].key = None
    BY <1>1 DEF RequestOK, Shaped, CreateOps
  <2> QED
    BY <1>4, <1>5, <2>1 DEF Recorded, Seen, EditOps
<1> QED
  BY <1>4, <1>6, <1>7, <1>9, <1>10, QuietStep DEF RequestOK

-----------------------------------------------------------------------------
(* The purge job and the command line *)

\* Nobody holds an agent's key or the knowledge base while its row goes.
LEMMA PurgeOK ==
  ASSUME IInv, NEW i \in Ids, Purge(i)
  PROVE  IInv'
<1> DEFINE KeyRow == [status : {"absent", "active", "disabled", "revoked"}, manage : BOOLEAN,
                      scope : SUBSET Ids, revision : Nat]
           Row == [kind : Kinds \cup {"none"}, revision : Nat, at : Nat,
                   status : {"absent", "active", "deleting", "purged"}]
<1>1. keys \in [Actors -> KeyRow] /\ resources \in [Ids -> Row]
  BY DEF IInv, TablesOK
<1>2. UNCHANGED <<records, clock, lock, req>>
  BY DEF Purge
<1>3. /\ resources' \in [Ids -> Row]
      /\ \A j \in Ids \ {i} : resources'[j] = resources[j]
      /\ resources'[i].kind = resources[i].kind /\ resources'[i].status = "purged"
  BY <1>1 DEF Purge
<1>4. \A a \in Actors : keys'[a] = [keys[a] EXCEPT !.scope = @ \ {i}]
  BY DEF Purge
<1>5. \A a \in Actors : /\ keys'[a] \in KeyRow
                        /\ keys'[a].status = keys[a].status /\ keys'[a].manage = keys[a].manage
                        /\ keys'[a].revision = keys[a].revision
                        /\ keys'[a].scope = keys[a].scope \ {i}
  <2> SUFFICES ASSUME NEW a \in Actors
               PROVE  /\ keys'[a] \in KeyRow
                      /\ keys'[a].status = keys[a].status /\ keys'[a].manage = keys[a].manage
                      /\ keys'[a].revision = keys[a].revision
                      /\ keys'[a].scope = keys[a].scope \ {i}
    OBVIOUS
  <2>1. PICK k \in KeyRow : k = keys[a]
    BY <1>1
  <2>2. keys'[a] = [k EXCEPT !.scope = @ \ {i}]
    BY <1>4, <2>1
  <2>3. /\ keys'[a].status = k.status /\ keys'[a].manage = k.manage
        /\ keys'[a].revision = k.revision /\ keys'[a].scope = k.scope \ {i}
    BY <2>2
  <2>4. keys'[a] \in KeyRow
    BY <2>2
  <2> QED
    BY <2>1, <2>3, <2>4
<1>6. keys' \in [Actors -> KeyRow]
  <2>1. keys' = [a \in Actors |-> keys'[a]]
    BY DEF Purge
  <2> QED
    BY <1>5, <2>1
<1>7. TablesOK'
  <2>1. \A a \in Actors : \A j \in keys'[a].scope : resources'[j].kind = "knowledge_base"
    BY <1>3, <1>5 DEF IInv, TablesOK
  <2>2. \A rec \in records' : resources'[rec.id].kind = rec.kind
    BY <1>2, <1>3 DEF IInv, TablesOK
  <2> QED
    BY <1>2, <1>3, <1>6, <2>1, <2>2 DEF IInv, TablesOK
<1>8. ASSUME NEW s \in Requests PROVE Respects(s)
  <2>1. KeysKept(s)
    BY <1>1, <1>5 DEF KeysKept, Purge
  <2>2. ResourcesKept(s)
    BY <1>3 DEF ResourcesKept, Purge
  <2> QED
    BY <1>2, <2>1, <2>2 DEF Respects, RecordsKept
<1> QED
  BY <1>2, <1>7, <1>8, Frame DEF IInv

LEMMA RevokeAdminKeyOK ==
  ASSUME IInv, NEW m \in Admins, RevokeAdminKey(m)
  PROVE  IInv'
<1> DEFINE KeyRow == [status : {"absent", "active", "disabled", "revoked"}, manage : BOOLEAN,
                      scope : SUBSET Ids, revision : Nat]
<1>1. keys \in [Actors -> KeyRow] /\ m \in Actors
  BY DEF IInv, TablesOK, Actors
<1>2. UNCHANGED <<resources, records, clock, lock, req>> /\ lock[m] = None
  BY DEF RevokeAdminKey
<1>3. keys' = [keys EXCEPT ![m].status = "revoked", ![m].revision = @ + 1]
  BY DEF RevokeAdminKey
<1>4. /\ keys' \in [Actors -> KeyRow]
      /\ \A b \in Actors \ {m} : keys'[b] = keys[b]
      /\ keys'[m].status = "revoked" /\ keys'[m].scope = keys[m].scope
      /\ keys'[m].revision = keys[m].revision + 1
  BY <1>1, <1>3
<1>5. TablesOK'
  <2>1. \A a \in Actors : \A j \in keys'[a].scope : resources'[j].kind = "knowledge_base"
    BY <1>1, <1>2, <1>4 DEF IInv, TablesOK
  <2> QED
    BY <1>2, <1>4, <2>1 DEF IInv, TablesOK
<1>6. ASSUME NEW s \in Requests PROVE Respects(s)
  <2>1. KeysKept(s)
    BY <1>1, <1>2, <1>4 DEF KeysKept
  <2> QED
    BY <1>2, <2>1 DEF Respects, RecordsKept, ResourcesKept
<1> QED
  BY <1>2, <1>5, <1>6, Frame DEF IInv

-----------------------------------------------------------------------------
(* The invariant *)

LEMMA InitIInv == Init => IInv
<1> SUFFICES ASSUME Init PROVE IInv
  OBVIOUS
<1>1. TablesOK
  <2>1. keys \in [Actors -> [status : {"absent", "active", "disabled", "revoked"}, manage : BOOLEAN,
                             scope : SUBSET Ids, revision : Nat]]
    BY DEF Init
  <2>2. resources \in [Ids -> [kind : Kinds \cup {"none"}, revision : Nat, at : Nat,
                               status : {"absent", "active", "deleting", "purged"}]]
    BY DEF Init
  <2>3. \A a \in Actors : \A i \in keys[a].scope : resources[i].kind = "knowledge_base"
    BY DEF Init
  <2> QED
    BY <2>1, <2>2, <2>3 DEF Init, TablesOK
<1>2. ASSUME NEW r \in Requests PROVE RequestOK(r)
  <2>1. req[r] = Idle /\ \A x \in Rows : lock[x] # r
    BY DEF Init
  <2>2. Shaped(r)
    BY <2>1 DEF Shaped, Idle, Fields, Phases, CreateOps, EditOps
  <2>3. Holds(r) /\ Checked(r) /\ Recorded(r) /\ Seen(r)
    BY <2>1 DEF Holds, Checked, Recorded, Seen, Idle, Authorized, CreatePhases, KeyPhases, EditOps
  <2> QED
    BY <2>2, <2>3 DEF RequestOK
<1> QED
  BY <1>1, <1>2 DEF IInv

LEMMA NextIInv == IInv /\ [Next]_vars => IInv'
<1> SUFFICES ASSUME IInv, [Next]_vars PROVE IInv'
  OBVIOUS
<1>1. ASSUME NEW r \in Requests, Begins(r) PROVE IInv'
  BY <1>1, BeginsOK
<1>2. ASSUME NEW r \in Requests, Progress(r) PROVE IInv'
  BY <1>2, AuthenticateOK, RefuseLockedOK, LookUpOK, ActorOK, CreateStepOK, CreateInsertOK,
     LockRowOK, WriteKnowledgeBaseOK, WriteCredentialOK, FindScopesOK, LockScopesOK,
     ScopesCheckedOK, WriteKeyOK, ListPageOK DEF Progress
<1>3. ASSUME NEW i \in Ids, Purge(i) PROVE IInv'
  BY <1>3, PurgeOK
<1>4. ASSUME NEW m \in Admins, RevokeAdminKey(m) PROVE IInv'
  BY <1>4, RevokeAdminKeyOK
<1>5. CASE UNCHANGED vars
  <2>1. TablesOK'
    BY <1>5 DEF IInv, TablesOK, vars
  <2>2. \A a \in Actors : keys[a].revision \in Nat
    BY DEF IInv, TablesOK
  <2>3. \A s \in Requests : req'[s] = req[s] /\ Respects(s)
    BY <1>5, <2>2 DEF vars, Respects, KeysKept, ResourcesKept, RecordsKept
  <2> QED
    BY <2>1, <2>3, Frame DEF IInv
<1> QED
  BY <1>1, <1>2, <1>3, <1>4, <1>5 DEF Next

LEMMA Invariant == Spec => []IInv
BY InitIInv, NextIInv, PTL DEF Spec

-----------------------------------------------------------------------------
(* Nobody waits in a circle *)

\* The order in which rows are locked: an administrator's key, an agent's key,
\* then resources in the order of id.
Rank(row) == IF row \in Admins THEN 0 ELSE IF row \in Agents THEN 1 ELSE row + 1

\* Whoever waits for a row holds rows of lower rank only.
LEMMA HeldBelowWanted ==
  ASSUME IInv, NEW r \in Requests, Wanted(r) # None
  PROVE  /\ Wanted(r) \in Rows
         /\ \A row \in Rows : lock[row] = r => Rank(row) < Rank(Wanted(r))
<1> DEFINE first == {"create_actor", "create_found", "create_look", "update", "delete",
                     "rotate", "issue", "grant", "alter", "revoke"}
           second == {"lock_kb", "key_lock", "lock_credential", "create_reference"}
<1>0. RequestOK(r) /\ Shaped(r) /\ Holds(r)
  BY Running DEF RequestOK
<1>1. CASE req[r].pc \in first
  <2>1. Wanted(r) = req[r].actor /\ req[r].actor \in Rows
    BY <1>1, Running DEF Wanted
  <2>2. \A row \in Rows : lock[row] # r
    BY <1>0, <1>1 DEF Holds, Authorized, CreatePhases, KeyPhases
  <2> QED
    BY <2>1, <2>2
<1>2. CASE req[r].pc \in second
  <2>1. Wanted(r) = req[r].target
    BY <1>2 DEF Wanted
  <2>2. \A row \in Rows : lock[row] = r => row = req[r].actor
    BY <1>0, <1>2 DEF Holds
  <2>3. CASE req[r].pc = "key_lock"
    <3>1. req[r].actor \in Admins /\ req[r].target \in Agents
      BY <1>0, <2>3, Running DEF Shaped
    <3> QED
      BY <2>1, <2>2, <3>1 DEF Rank, Rows, Actors
  <2>4. CASE req[r].pc # "key_lock"
    <3>1. req[r].actor \in Actors /\ req[r].target \in Ids
      BY <1>0, <1>2, <2>4, Running DEF Shaped, RequestOK, Recorded
    <3>2. Rank(req[r].target) = req[r].target + 1 /\ req[r].target \in Nat \ {0}
      BY <3>1 DEF Rank, Rows, Actors
    <3>3. Rank(req[r].actor) \in {0, 1}
      BY <3>1 DEF Rank, Actors
    <3> QED
      BY <2>1, <2>2, <3>1, <3>2, <3>3 DEF Rows
  <2> QED
    BY <2>3, <2>4
<1>3. CASE req[r].pc = "key_rows" /\ UnlockedScopes(r) # {}
  <2>1. Wanted(r) = Least(UnlockedScopes(r))
    BY <1>3 DEF Wanted
  <2>2. req[r].actor \in Admins /\ req[r].target \in Agents /\ req[r].found \subseteq Ids
    BY <1>0, <1>3, Running DEF Shaped, KeyPhases
  <2>3. PICK S : S = UnlockedScopes(r)
    OBVIOUS
  <2>4. S \subseteq Ids /\ S \subseteq Nat /\ S # {}
    BY <1>3, <2>2, <2>3 DEF UnlockedScopes, Rows
  <2>5. Least(S) \in S
    BY <2>4, LeastRow
  <2>6. /\ Wanted(r) \in S /\ Wanted(r) \in Ids
        /\ Wanted(r) \in Nat \ {0} /\ Rank(Wanted(r)) = Wanted(r) + 1
    BY <2>1, <2>3, <2>4, <2>5 DEF Rank, Rows, Actors
  <2>7. ASSUME NEW row \in Rows, lock[row] = r PROVE Rank(row) < Rank(Wanted(r))
    <3>1. CASE row \in {req[r].actor, req[r].target}
      BY <2>2, <2>6, <3>1 DEF Rank
    <3>2. CASE row \notin {req[r].actor, req[r].target}
      <4>1. row \in Ids /\ row < Wanted(r)
        BY <1>0, <1>3, <2>2, <2>3, <2>6, <2>7, <3>2 DEF Holds
      <4>2. Rank(row) = row + 1 /\ row \in Nat
        BY <4>1 DEF Rank, Rows, Actors
      <4> QED
        BY <2>6, <4>1, <4>2
    <3> QED
      BY <3>1, <3>2
  <2> QED
    BY <2>6, <2>7 DEF Rows
<1> QED
  BY <1>1, <1>2, <1>3 DEF Wanted

\* A finite set has a member of highest rank: otherwise take a least finite set
\* without one, and take a member out of it.
LEMMA HighestMember ==
  ASSUME NEW S, IsFiniteSet(S), S # {}, NEW f \in [S -> Nat]
  PROVE  \E m \in S : \A x \in S : f[x] <= f[m]
<1> DEFINE Bad == {U \in FiniteSubsetsOf(S) : U # {} /\ ~\E m \in U : \A x \in U : f[x] <= f[m]}
<1>1. SUFFICES ASSUME ~\E m \in S : \A x \in S : f[x] <= f[m] PROVE FALSE
  OBVIOUS
<1>2. S \in Bad
  BY <1>1 DEF FiniteSubsetsOf
<1>3. PICK U \in Bad : \A V \in Bad : ~(<<V, U>> \in StrictSubsetOrdering(S))
  <2>1. IsWellFoundedOn(StrictSubsetOrdering(S), FiniteSubsetsOf(S))
    BY FS_StrictSubsetOrderingWellFounded
  <2>2. Bad \subseteq FiniteSubsetsOf(S) /\ Bad # {}
    BY <1>2
  <2> HIDE DEF Bad
  <2> QED
    BY <2>1, <2>2, WFMin
<1>4. U \subseteq S /\ IsFiniteSet(U) /\ U # {} /\ ~\E m \in U : \A x \in U : f[x] <= f[m]
  BY DEF FiniteSubsetsOf
<1>5. PICK y \in U : TRUE
  BY <1>4
<1>6. U \ {y} \notin Bad
  <2>1. <<U \ {y}, U>> \in StrictSubsetOrdering(S)
    BY <1>4, <1>5 DEF StrictSubsetOrdering
  <2> HIDE DEF Bad
  <2> QED
    BY <1>3, <2>1
<1>7. U \ {y} \in FiniteSubsetsOf(S)
  BY <1>4, FS_RemoveElement DEF FiniteSubsetsOf
<1>8. U \ {y} = {} \/ \E m \in U \ {y} : \A x \in U \ {y} : f[x] <= f[m]
  BY <1>6, <1>7
<1>9. \A x \in U : f[x] \in Nat
  BY <1>4
<1>10. CASE U \ {y} = {}
  <2>1. \A x \in U : f[x] <= f[y]
    BY <1>5, <1>9, <1>10
  <2> QED
    BY <1>4, <1>5, <2>1
<1>11. CASE \E m \in U \ {y} : \A x \in U \ {y} : f[x] <= f[m]
  <2>1. PICK m \in U \ {y} : \A x \in U \ {y} : f[x] <= f[m]
    BY <1>11
  <2>2. CASE f[y] <= f[m]
    BY <1>4, <2>1, <2>2
  <2>3. CASE ~(f[y] <= f[m])
    <3>1. \A x \in U : f[x] <= f[y]
      BY <1>5, <1>9, <2>1, <2>3
    <3> QED
      BY <1>4, <1>5, <3>1
  <2> QED
    BY <2>2, <2>3
<1> QED
  BY <1>8, <1>10, <1>11

\* In a circle, whoever holds the row of highest rank that is waited for waits
\* for a higher one.
LEMMA NoCircle == IInv => NoDeadlock
<1> SUFFICES ASSUME IInv, NEW S \in SUBSET Requests, Circle(S) PROVE FALSE
  BY DEF NoDeadlock
<1>1. S # {} /\ \A r \in S : Wanted(r) # None /\ lock[Wanted(r)] \in S \ {r}
  BY DEF Circle
<1>2. \A r \in S : /\ Wanted(r) \in Rows
                   /\ \A row \in Rows : lock[row] = r => Rank(row) < Rank(Wanted(r))
  BY <1>1, HeldBelowWanted
<1>3. \A row \in Rows : Rank(row) \in Nat
  BY DEF Rank
<1>4. PICK f \in [S -> Nat] : \A r \in S : f[r] = Rank(Wanted(r))
  <2>1. [r \in S |-> Rank(Wanted(r))] \in [S -> Nat]
    BY <1>2, <1>3
  <2> QED
    BY <2>1
<1>5. IsFiniteSet(S)
  BY RequestsAssumption, FS_Subset
<1>6. PICK m \in S : \A x \in S : f[x] <= f[m]
  BY <1>1, <1>5, HighestMember
<1>7. PICK s \in S : s = lock[Wanted(m)]
  BY <1>1
<1>8. Rank(Wanted(m)) < Rank(Wanted(s))
  BY <1>2, <1>7
<1> QED
  BY <1>2, <1>3, <1>4, <1>6, <1>8

-----------------------------------------------------------------------------
(* The theorems *)

\* Requests that race for one idempotency key, one name or one row: scopes and
\* records name what they should, locks belong to running requests, one
\* resource is created per key and everybody is answered with it, and the order
\* in which rows are locked lets no requests wait in a circle.
THEOREM RequestsAlwaysConsistent == Spec => []RequestsConsistent
<1>1. IInv => TypeOK
  <2> SUFFICES ASSUME IInv PROVE TypeOK
    OBVIOUS
  <2>1. \A a \in Actors : /\ keys[a].status \in {"absent", "active", "disabled", "revoked"}
                          /\ \A i \in keys[a].scope : resources[i].kind = "knowledge_base"
    BY DEF IInv, TablesOK
  <2>2. lock \in [Rows -> Requests \cup {None}]
    BY DEF IInv, TablesOK
  <2>3. \A row \in Rows : lock[row] # None => req[lock[row]].pc \notin {"idle", "done"}
    BY <2>2 DEF IInv, RequestOK, Holds, Authorized, CreatePhases, KeyPhases
  <2> QED
    BY <2>1, <2>2, <2>3 DEF TypeOK, IInv, TablesOK
<1>2. IInv => CreatedOnce
  <2> SUFFICES ASSUME IInv PROVE CreatedOnce
    OBVIOUS
  <2>1. \A x, y \in records : x.actor = y.actor /\ x.kind = y.kind /\ x.key = y.key => x = y
    BY DEF IInv, TablesOK
  <2>2. ASSUME NEW r \in Requests, NEW s \in Requests,
               req[r].key # None, req[s].key # None,
               req[r].result \in Ids, req[s].result \in Ids,
               req[r].actor = req[s].actor, req[r].kind = req[s].kind, req[r].key = req[s].key
        PROVE  req[r].result = req[s].result /\ req[r].fingerprint = req[s].fingerprint
    <3>1. Record(r, req[r].result) \in records /\ Record(s, req[s].result) \in records
      BY <2>2 DEF IInv, RequestOK, Recorded
    <3>2. Record(r, req[r].result) = Record(s, req[s].result)
      BY <2>1, <2>2, <3>1 DEF Record
    <3>3. /\ Record(r, req[r].result).id = req[r].result
          /\ Record(r, req[r].result).fingerprint = req[r].fingerprint
          /\ Record(s, req[s].result).id = req[s].result
          /\ Record(s, req[s].result).fingerprint = req[s].fingerprint
      BY DEF Record
    <3> QED
      BY <3>2, <3>3
  <2> QED
    BY <2>1, <2>2 DEF CreatedOnce
<1>3. IInv => RequestsConsistent
  BY <1>1, <1>2, NoCircle DEF RequestsConsistent
<1> QED
  BY <1>3, Invariant, PTL

\* The steps that write rows for a request.
Writes(r) ==
  \/ CreateInsert(r) \/ WriteKnowledgeBase(r) \/ WriteCredential(r)
  \/ IssueAgentKey(r) \/ UpdateAgentKey(r) \/ RevokeAgentKey(r)

\* The other ones leave the tables alone.
LEMMA OnlyWritersWrite ==
  ASSUME NEW r \in Requests, Begins(r) \/ Progress(r)
  PROVE  Writes(r) \/ UNCHANGED <<keys, resources, records>>
<1>1. CASE Begins(r)
  BY <1>1, ZenonT(60) DEF Begins, StartCreate, StartUpdate, StartUpdateCredential, StartIssue, StartUpdateKey,
              StartList, Start, tables
<1>2. CASE Authenticate(r) \/ MaterializePrincipal(r) \/ RefuseLocked(r)
  BY <1>2 DEF Authenticate, MaterializePrincipal, RefuseLocked, Refuse, tables
<1>3. CASE \/ LookUpKnowledgeBase(r) \/ LookUpCredential(r) \/ LookUpConfig(r)
           \/ BeginProfile(r) \/ LookOnly(r) \/ ResolveProvider(r)
  BY <1>3 DEF LookUpKnowledgeBase, LookUpCredential, LookUpConfig, BeginProfile, LookOnly,
              ResolveProvider, Begin, Refuse, tables
<1>4. CASE \/ FoundActor(r) \/ CreateActor(r) \/ UpdateActor(r) \/ RotateActor(r)
           \/ IssueActor(r) \/ KeyActor(r)
  BY <1>4 DEF FoundActor, CreateActor, UpdateActor, RotateActor, IssueActor, KeyActor, LockActor, tables
<1>5. CASE CreateReplay(r) \/ CheckWinner(r) \/ LockReference(r) \/ CreateConflict(r)
  BY <1>5 DEF CreateReplay, CheckWinner, LockReference, CreateConflict, Replay, Refuse, tables
<1>6. CASE \/ LockKnowledgeBase(r) \/ LockCredential(r) \/ LockAgentKey(r) \/ FindScopes(r)
           \/ LockScopes(r) \/ ScopesChecked(r) \/ ListPage(r)
  BY <1>6, Zenon DEF LockKnowledgeBase, LockCredential, LockAgentKey, FindScopes, LockScopes,
              ScopesChecked, ListPage, tables
<1> QED
  BY <1>1, <1>2, <1>3, <1>4, <1>5, <1>6 DEF Progress, Writes

\* A request that writes is at its last step, and no other request moves.
LEMMA WriterAlone ==
  ASSUME IInv, NEW r \in Requests, Writes(r)
  PROVE  /\ req[r].pc \in {"create_insert", "write_kb", "write_credential", "key_write"}
         /\ \A s \in Requests \ {r} : req'[s] = req[s]
<1>1. /\ req[r].pc \in {"create_insert", "write_kb", "write_credential", "key_write"}
      /\ \E result : End(r, result)
  BY DEF Writes, CreateInsert, InsertKnowledgeBase, InsertCredential, InsertConfig, InsertProfile,
         Insert, WriteKnowledgeBase, WriteCredential, IssueAgentKey, UpdateAgentKey,
         RevokeAgentKey, Refuse
<1> QED
  BY <1>1, EndKeeps, SMTT(30) DEF Kept

\* Whatever a request commits, its key is active at that moment, an agent's key
\* still manages and still has the knowledge base in its scope.
THEOREM CommitsAlwaysAuthorized == Spec => CommitsAreAuthorized
<1> DEFINE Step == \A r \in Requests :
        /\ req[r].pc # "done" /\ req'[r].pc = "done"
        /\ <<resources, records, keys>>' # <<resources, records, keys>>
        => /\ keys[req[r].actor].status = "active"
           /\ req[r].actor \in Agents => keys[req[r].actor].manage
           /\ req[r].op \in {"update", "delete"} =>
                req[r].target \in keys[req[r].actor].scope
<1>1. IInv /\ [Next]_vars => [Step]_vars
  <2> SUFFICES ASSUME IInv, Next, NEW r \in Requests,
                      req[r].pc # "done", req'[r].pc = "done",
                      <<resources, records, keys>>' # <<resources, records, keys>>
               PROVE  /\ keys[req[r].actor].status = "active"
                      /\ req[r].actor \in Agents => keys[req[r].actor].manage
                      /\ req[r].op \in {"update", "delete"} =>
                           req[r].target \in keys[req[r].actor].scope
    BY DEF vars
  <2>1. PICK q \in Requests : Begins(q) \/ Progress(q)
    BY DEF Next, Purge, RevokeAdminKey
  <2>2. Writes(q)
    BY <2>1, OnlyWritersWrite
  <2>3. q = r /\ req[r].pc \in {"create_insert", "write_kb", "write_credential", "key_write"}
    BY <2>2, WriterAlone
  <2>4. req[r].pc \in Authorized
    BY <2>3 DEF Authorized, CreatePhases, KeyPhases
  <2>5. RequestOK(r) /\ Revalidated(req[r].actor)
    BY <2>4 DEF IInv, RequestOK, Checked
  <2>6. req[r].op \in {"update", "delete"} => req[r].pc = "write_kb"
    BY <2>3, Running DEF CreatePhases, CreateOps, KeyPhases, EditOps
  <2> QED
    BY <2>5, <2>6 DEF Revalidated, RequestOK, Checked
<1> QED
  BY <1>1, Invariant, PTL DEF Spec, CommitsAreAuthorized

\* A PATCH that replaces a scope removes nothing its administrator had not
\* seen, grants nothing that is being deleted, and no key comes back from its
\* revocation.
THEOREM GrantsAlwaysSound == Spec => GrantsSound
<1> DEFINE Unseen == \A r \in Requests :
              req[r].op = "grant" /\ req[r].pc = "key_write" /\ req'[r].pc = "done" =>
                keys[req[r].target].scope \ req[r].scope \subseteq req[r].stable
           Usable == \A r \in Requests :
              req[r].pc = "key_write" /\ req'[r].pc = "done" /\ req'[r].result # Refused =>
                \A i \in req[r].scope : resources[i].status = "active"
           Revoked == \A a \in Actors : keys[a].status = "revoked" => keys'[a].status = "revoked"
<1>1. IInv => Unseen
  <2> SUFFICES ASSUME IInv, NEW r \in Requests, req[r].op = "grant", req[r].pc = "key_write"
               PROVE  keys[req[r].target].scope \ req[r].scope \subseteq req[r].stable
    OBVIOUS
  <2>1. keys[req[r].target].revision = req[r].etag
    BY DEF IInv, RequestOK, Checked, KeyPhases
  <2> QED
    BY <2>1 DEF IInv, RequestOK, Seen, EditOps
<1>2. IInv => Usable
  BY DEF IInv, RequestOK, Checked
<1>3. IInv /\ [Next]_vars => [Revoked]_vars
  <2> SUFFICES ASSUME IInv, Next, NEW a \in Actors, keys[a].status = "revoked"
               PROVE  keys'[a].status = "revoked"
    BY DEF vars
  <2>0. keys \in [Actors -> [status : {"absent", "active", "disabled", "revoked"}, manage : BOOLEAN,
                             scope : SUBSET Ids, revision : Nat]]
    BY DEF IInv, TablesOK
  <2>1. ASSUME NEW r \in Requests, CreateInsert(r) PROVE keys'[a].status = "revoked"
    BY <2>0, <2>1 DEF CreateInsert, InsertKnowledgeBase, InsertCredential, InsertConfig, InsertProfile
  <2>2. ASSUME NEW r \in Requests, WriteKnowledgeBase(r) \/ WriteCredential(r)
        PROVE  keys'[a].status = "revoked"
    BY <2>2 DEF WriteKnowledgeBase, WriteCredential, Refuse, tables
  <2>3. ASSUME NEW r \in Requests, IssueAgentKey(r) PROVE keys'[a].status = "revoked"
    BY <2>0, <2>3 DEF IssueAgentKey, Refuse, tables
  <2>4. ASSUME NEW r \in Requests, UpdateAgentKey(r) PROVE keys'[a].status = "revoked"
    <3>1. keys[req[r].target].status # "revoked"
      BY <2>4 DEF IInv, RequestOK, Checked, UpdateAgentKey, KeyPhases
    <3> QED
      BY <2>0, <2>4, <3>1 DEF UpdateAgentKey
  <2>5. ASSUME NEW r \in Requests, RevokeAgentKey(r) PROVE keys'[a].status = "revoked"
    BY <2>0, <2>5 DEF RevokeAgentKey
  <2>6. ASSUME NEW i \in Ids, Purge(i) PROVE keys'[a].status = "revoked"
    <3>1. keys'[a] = [keys[a] EXCEPT !.scope = @ \ {i}]
      BY <2>6 DEF Purge
    <3> QED
      BY <2>0, <3>1
  <2>7. ASSUME NEW m \in Admins, RevokeAdminKey(m) PROVE keys'[a].status = "revoked"
    BY <2>0, <2>7 DEF RevokeAdminKey
  <2>8. ASSUME NEW r \in Requests, Begins(r) \/ Progress(r) PROVE keys'[a].status = "revoked"
    <3>1. Writes(r) \/ keys' = keys
      BY <2>8, OnlyWritersWrite
    <3> QED
      BY <3>1, <2>1, <2>2, <2>3, <2>4, <2>5 DEF Writes
  <2> QED
    BY <2>6, <2>7, <2>8 DEF Next
<1> QED
  BY <1>1, <1>2, <1>3, Invariant, PTL
     DEF Spec, GrantsSound, GrantsLoseNothingUnseen, GrantsNameUsable, RevokedForGood

-----------------------------------------------------------------------------
(* Lists: the page the database returns *)

\* ORDER BY created_at, id is a total order of the rows that exist.
LEMMA OrderTotal ==
  ASSUME TablesOK, NEW i \in Ids, NEW j \in Ids
  PROVE  /\ Ordered(i, j) \/ Ordered(j, i)
         /\ Ordered(i, j) /\ Ordered(j, i) => i = j
         /\ \A k \in Ids : Ordered(i, j) /\ Ordered(j, k) => Ordered(i, k)
<1>1. \A x \in Ids : resources[x].at \in Nat /\ x \in Nat
  BY DEF TablesOK, Rows
<1> QED
  BY <1>1 DEF Ordered

LEMMA FirstOf ==
  ASSUME TablesOK, NEW S, S \subseteq Ids, S # {}
  PROVE  \E m \in S : \A i \in S : Ordered(m, i)
<1> DEFINE times == {resources[i].at : i \in S}
<1>1. \A x \in Ids : resources[x].at \in Nat /\ x \in Nat
  BY DEF TablesOK, Rows
<1>2. times \subseteq Nat /\ times # {}
  BY <1>1
<1>3. PICK t \in times : \A u \in times : t <= u
  <2> HIDE DEF times
  <2> QED
    BY <1>2, LeastRow
<1> DEFINE earliest == {i \in S : resources[i].at = t}
<1>4. earliest \subseteq Nat /\ earliest # {}
  BY <1>1, <1>3
<1>5. PICK m \in earliest : \A i \in earliest : m <= i
  <2> HIDE DEF earliest
  <2> QED
    BY <1>4, LeastRow
<1>6. \A i \in S : Ordered(m, i)
  <2> SUFFICES ASSUME NEW i \in S PROVE Ordered(m, i)
    OBVIOUS
  <2>1. resources[m].at = t /\ t <= resources[i].at
    BY <1>3, <1>5
  <2>2. resources[i].at = t => m <= i
    BY <1>5
  <2> QED
    BY <1>1, <1>5, <2>1, <2>2 DEF Ordered
<1> QED
  BY <1>5, <1>6

\* The first k rows of S.
AreFirst(S, k, seq) ==
  /\ seq \in [1..k -> S]
  /\ \A x, y \in 1..k : x < y => seq[x] # seq[y] /\ Ordered(seq[x], seq[y])
  /\ \A i \in S : (\E x \in 1..k : seq[x] = i) \/ \A x \in 1..k : Ordered(seq[x], i)

\* When there are more than k rows, the first of the others is the next one.
LEMMA OneRowMore ==
  ASSUME TablesOK, NEW S, S \subseteq Ids, NEW k \in Nat, k < Cardinality(S),
         NEW seq, AreFirst(S, k, seq)
  PROVE  \E longer : AreFirst(S, k + 1, longer)
<1> DEFINE taken == {seq[x] : x \in 1..k}
           rest == S \ taken
<1>1. seq \in [1..k -> S]
  BY DEF AreFirst
<1>2. rest # {}
  <2>1. IsFiniteSet(1..k) /\ Cardinality(1..k) = k
    BY FS_Interval
  <2>2. IsFiniteSet(taken) /\ Cardinality(taken) <= k
    <3>1. seq \in Surjection(1..k, taken)
      BY <1>1 DEF Surjection
    <3> HIDE DEF taken
    <3> QED
      BY <2>1, <3>1, FS_Surjection
  <2>3. rest = {} => S = taken
    BY <1>1
  <2> HIDE DEF taken, rest
  <2>4. Cardinality(taken) \in Nat
    BY <2>2, FS_CardinalityType
  <2> QED
    BY <2>2, <2>3, <2>4
<1>3. PICK m \in rest : \A i \in rest : Ordered(m, i)
  BY <1>2, FirstOf
<1> DEFINE longer == [x \in 1..(k + 1) |-> IF x = k + 1 THEN m ELSE seq[x]]
<1>4. /\ \A x \in 1..k : longer[x] = seq[x] /\ seq[x] \in S /\ seq[x] # m
      /\ longer[k + 1] = m /\ m \in S
  BY <1>1
<1>5. longer \in [1..(k + 1) -> S]
  BY <1>1, <1>3
<1>6. \A x \in 1..k : Ordered(seq[x], m)
  BY <1>4 DEF AreFirst
<1>7. ASSUME NEW x \in 1..(k + 1), NEW y \in 1..(k + 1), x < y
      PROVE  longer[x] # longer[y] /\ Ordered(longer[x], longer[y])
  <2>1. x \in 1..k
    BY <1>7
  <2>2. CASE y = k + 1
    BY <1>4, <1>6, <2>1, <2>2
  <2>3. CASE y \in 1..k
    <3>1. longer[x] = seq[x] /\ longer[y] = seq[y]
      BY <1>4, <2>1, <2>3
    <3>2. seq[x] # seq[y] /\ Ordered(seq[x], seq[y])
      BY <1>7, <2>1, <2>3 DEF AreFirst
    <3> QED
      BY <3>1, <3>2
  <2>4. y \in 1..k \/ y = k + 1
    OBVIOUS
  <2> QED
    BY <2>2, <2>3, <2>4
<1>8. ASSUME NEW i \in S
      PROVE  (\E x \in 1..(k + 1) : longer[x] = i) \/ \A x \in 1..(k + 1) : Ordered(longer[x], i)
  <2>1. CASE i \in taken
    <3>1. PICK x \in 1..k : seq[x] = i
      BY <2>1
    <3>2. x \in 1..(k + 1) /\ longer[x] = i
      BY <1>4, <3>1
    <3> QED
      BY <3>2
  <2>2. CASE i \notin taken
    <3>1. \A x \in 1..k : Ordered(seq[x], i)
      BY <2>2 DEF AreFirst
    <3>2. Ordered(m, i)
      BY <1>3, <2>2
    <3>3. ASSUME NEW x \in 1..(k + 1) PROVE Ordered(longer[x], i)
      <4>1. x \in 1..k \/ x = k + 1
        OBVIOUS
      <4> HIDE DEF longer
      <4> QED
        BY <1>4, <3>1, <3>2, <4>1
    <3> QED
      BY <3>3
  <2> QED
    BY <2>1, <2>2
<1> HIDE DEF longer
<1>9. AreFirst(S, k + 1, longer)
  BY <1>5, <1>7, <1>8 DEF AreFirst
<1> QED
  BY <1>9

\* There always are first k rows: the least k without them would be one more
\* than a k with them.
LEMMA FirstExist ==
  ASSUME TablesOK, NEW S, S \subseteq Ids, NEW k \in Nat, k <= Cardinality(S)
  PROVE  \E seq : AreFirst(S, k, seq)
<1>0. Cardinality(S) \in Nat
  BY IdsAssumption, FS_Subset, FS_CardinalityType
<1> DEFINE Without == {j \in 0..k : ~\E seq : AreFirst(S, j, seq)}
<1>1. SUFFICES ASSUME Without # {} PROVE FALSE
  OBVIOUS
<1>2. PICK j \in Without : \A l \in Without : j <= l
  <2>1. Without \subseteq Nat
    OBVIOUS
  <2> HIDE DEF Without
  <2> QED
    BY <1>1, <2>1, LeastRow
<1>3. CASE j = 0
  <2> DEFINE none == [x \in 1..0 |-> CHOOSE i \in S : TRUE]
  <2>1. 1..0 = {}
    OBVIOUS
  <2>2. none \in [1..0 -> S]
    BY <2>1
  <2>3. AreFirst(S, 0, none)
    BY <2>1, <2>2 DEF AreFirst
  <2> QED
    BY <1>2, <1>3, <2>3
<1>4. CASE j # 0
  <2>1. PICK l \in 0..k : j = l + 1
    <3>1. j - 1 \in 0..k /\ j = (j - 1) + 1
      BY <1>4
    <3> QED
      BY <3>1
  <2>2. l \notin Without
    <3> HIDE DEF Without
    <3>1. ~(j <= l)
      BY <2>1
    <3> QED
      BY <1>2, <3>1
  <2>3. PICK seq : AreFirst(S, l, seq)
    BY <2>2
  <2>4. l \in Nat /\ l < Cardinality(S)
    BY <1>0, <2>1
  <2>5. \E longer : AreFirst(S, l + 1, longer)
    BY <2>3, <2>4, OneRowMore
  <2> QED
    BY <1>2, <2>1, <2>5
<1> QED
  BY <1>3, <1>4

\* What ORDER BY and LIMIT return.
LEMMA FirstRowsAre ==
  ASSUME TablesOK, NEW S, S \subseteq Ids, NEW n \in Nat
  PROVE  \E k \in Nat : /\ AreFirst(S, k, FirstRows(S, n)) /\ k <= n
                        /\ k < n => \A i \in S : \E x \in 1..k : FirstRows(S, n)[x] = i
<1>0. IsFiniteSet(S) /\ Cardinality(S) \in Nat
  BY IdsAssumption, FS_Subset, FS_CardinalityType
<1>1. PICK k \in Nat : k = (IF Cardinality(S) < n THEN Cardinality(S) ELSE n)
  BY <1>0
<1>2. k <= n /\ k <= Cardinality(S) /\ (k < n => k = Cardinality(S))
  BY <1>0, <1>1
<1>3. PICK seq : AreFirst(S, k, seq)
  BY <1>2, FirstExist
<1>4. AreFirst(S, k, FirstRows(S, n))
  <2>1. FirstRows(S, n) = CHOOSE t \in [1..k -> S] :
          /\ \A x, y \in 1..k : x < y => t[x] # t[y] /\ Ordered(t[x], t[y])
          /\ \A i \in S : (\E x \in 1..k : t[x] = i) \/ \A x \in 1..k : Ordered(t[x], i)
    BY <1>1, Zenon DEF FirstRows
  <2>2. seq \in [1..k -> S] /\ AreFirst(S, k, seq)
    BY <1>3 DEF AreFirst
  <2> QED
    BY <2>1, <2>2, Zenon DEF AreFirst
<1>5. PICK rs : rs = FirstRows(S, n)
  OBVIOUS
<1>6. k < n => \A i \in S : \E x \in 1..k : rs[x] = i
  <2> SUFFICES ASSUME k = Cardinality(S) PROVE \A i \in S : \E x \in 1..k : rs[x] = i
    BY <1>2
  <2>1. rs \in [1..k -> S] /\ \A x, y \in 1..k : x < y => rs[x] # rs[y]
    BY <1>4, <1>5 DEF AreFirst
  <2>2. \A x, y \in 1..k : rs[x] = rs[y] => x = y
    BY <2>1
  <2>3. rs \in Injection(1..k, S)
    BY <2>1, <2>2 DEF Injection, IsInjective
  <2>4. Cardinality(1..k) = k
    BY FS_Interval
  <2>5. rs \in Surjection(1..k, S)
    BY <1>0, <2>3, <2>4, FS_Injection
  <2> QED
    BY <2>5 DEF Surjection
<1> QED
  BY <1>2, <1>4, <1>5, <1>6

-----------------------------------------------------------------------------
(* Lists: from page to page *)

\* What a list has returned ends at its cursor, and what was visible on every
\* page so far was returned or is still to come.
Passed(r) ==
  /\ \A x \in 1..Len(req[r].listed) : ~After(req[r].listed[x], req[r].target)
  /\ \A i \in req[r].stable :
       \/ \E x \in 1..Len(req[r].listed) : req[r].listed[x] = i
       \/ After(i, req[r].target)

ListOK(r) ==
  req[r].op = "list" =>
    /\ req[r].kind \in Kinds
    /\ req[r].listed \in Seq(Ids) /\ req[r].stable \subseteq Ids
    /\ \A x \in 1..Len(req[r].listed) : resources[req[r].listed[x]].kind # "none"
    /\ \A x, y \in 1..Len(req[r].listed) : x # y => req[r].listed[x] # req[r].listed[y]
    /\ req[r].pc # "done" /\ req[r].target = None => req[r].listed = << >>
    /\ req[r].pc # "done" /\ req[r].target # None =>
         /\ req[r].target \in Nat \X Nat
         /\ \A i \in req[r].stable : resources[i].kind # "none"
         /\ Passed(r)
    /\ req[r].pc = "done" /\ req[r].result = None =>
         \A i \in req[r].stable : \E x \in 1..Len(req[r].listed) : req[r].listed[x] = i

\* A resource has its time of creation, and its place in the order, for good.
LEMMA RowsStay ==
  ASSUME IInv, [Next]_vars, NEW i \in Ids, resources[i].kind # "none"
  PROVE  resources'[i].kind = resources[i].kind /\ resources'[i].at = resources[i].at
<1>0. resources \in [Ids -> [kind : Kinds \cup {"none"}, revision : Nat, at : Nat,
                             status : {"absent", "active", "deleting", "purged"}]]
  BY DEF IInv, TablesOK
<1>1. ASSUME NEW j \in Ids, Purge(j)
      PROVE  resources'[i].kind = resources[i].kind /\ resources'[i].at = resources[i].at
  BY <1>0, <1>1 DEF Purge
<1>2. ASSUME NEW r \in Requests, CreateInsert(r)
      PROVE  resources'[i].kind = resources[i].kind /\ resources'[i].at = resources[i].at
  BY <1>0, <1>2 DEF CreateInsert, InsertKnowledgeBase, InsertCredential, InsertConfig,
                    InsertProfile, Insert, Unused
<1>3. ASSUME NEW r \in Requests, WriteKnowledgeBase(r) \/ WriteCredential(r)
      PROVE  resources'[i].kind = resources[i].kind /\ resources'[i].at = resources[i].at
  BY <1>0, <1>3 DEF WriteKnowledgeBase, WriteCredential, Refuse, tables
<1>4. ASSUME NEW r \in Requests, IssueAgentKey(r) \/ UpdateAgentKey(r) \/ RevokeAgentKey(r)
      PROVE  resources' = resources
  BY <1>4 DEF IssueAgentKey, UpdateAgentKey, RevokeAgentKey, Refuse, tables
<1>5. ASSUME NEW r \in Requests, Begins(r) \/ Progress(r)
      PROVE  resources'[i].kind = resources[i].kind /\ resources'[i].at = resources[i].at
  <2>1. Writes(r) \/ resources' = resources
    BY <1>5, OnlyWritersWrite
  <2> QED
    BY <2>1, <1>2, <1>3, <1>4 DEF Writes
<1>6. ASSUME NEW m \in Admins, RevokeAdminKey(m) PROVE resources' = resources
  BY <1>6 DEF RevokeAdminKey
<1>7. UNCHANGED vars => resources' = resources
  BY DEF vars
<1> QED
  BY <1>1, <1>5, <1>6, <1>7 DEF Next

\* A list that does not move is as before, whatever the others write.
LEMMA ListFrame ==
  ASSUME IInv, [Next]_vars, NEW s \in Requests, ListOK(s), req'[s] = req[s]
  PROVE  ListOK(s)'
<1> SUFFICES ASSUME req[s].op = "list" PROVE ListOK(s)'
  BY DEF ListOK
<1>1. PICK listed \in Seq(Ids) : listed = req[s].listed
  BY DEF ListOK
<1>2. PICK stable : stable = req[s].stable /\ stable \subseteq Ids
  BY DEF ListOK
<1>3. \A i \in Ids : resources[i].kind # "none" =>
        resources'[i].kind = resources[i].kind /\ resources'[i].at = resources[i].at
  BY RowsStay
<1>4. \A x \in 1..Len(listed) : listed[x] \in Ids
  BY <1>1
<1>5. \A cursor : \A i \in Ids : resources[i].kind # "none" => (After(i, cursor)' <=> After(i, cursor))
  BY <1>3 DEF After
<1>6. \A x \in 1..Len(listed) : resources[listed[x]].kind # "none"
  BY <1>1 DEF ListOK
<1>7. \A x \in 1..Len(listed) : resources'[listed[x]].kind # "none"
  BY <1>3, <1>4, <1>6
<1>8. ASSUME req[s].pc # "done", req[s].target # None
      PROVE  (\A i \in stable : resources'[i].kind # "none") /\ Passed(s)'
  <2>1. /\ \A i \in stable : resources[i].kind # "none" 
        /\ Passed(s)
    BY <1>2, <1>8 DEF ListOK
  <2>2. \A i \in stable : resources'[i].kind # "none"
    BY <1>2, <1>3, <2>1
  <2>3. PICK cursor : cursor = req[s].target
    OBVIOUS
  <2>4. \A x \in 1..Len(listed) : ~After(listed[x], cursor)'
    BY <1>1, <1>4, <1>5, <1>6, <2>1, <2>3 DEF Passed
  <2>5. \A i \in stable : (\E x \in 1..Len(listed) : listed[x] = i) \/ After(i, cursor)'
    BY <1>1, <1>2, <1>5, <2>1, <2>3 DEF Passed
  <2> QED
    BY <1>1, <1>2, <2>2, <2>3, <2>4, <2>5 DEF Passed
<1> QED
  BY <1>1, <1>2, <1>7, <1>8 DEF ListOK

\* One request moves at a time, and keeps its command once it has begun.
LEMMA OneMoves ==
  ASSUME IInv, NEW r \in Requests, Begins(r) \/ Progress(r)
  PROVE  /\ \A s \in Requests \ {r} : req'[s] = req[s]
         /\ Progress(r) => req'[r].op = req[r].op
<1> DEFINE Alone == (\A s \in Requests \ {r} : req'[s] = req[s]) /\ req'[r].op = req[r].op
<1>0. DOMAIN req = Requests /\ DOMAIN req[r] = Fields
  BY DEF IInv, TablesOK, RequestOK, Shaped
<1>1. ASSUME NEW pc, Goto(r, pc) PROVE Alone
  BY <1>1, GotoKeeps DEF Kept, Fields
<1>2. ASSUME NEW result, End(r, result) PROVE Alone
  BY <1>2, EndKeeps DEF Kept, Fields
<1>3. CASE Refuse(r)
  BY <1>2, <1>3 DEF Refuse
<1>4. ASSUME NEW from, NEW to, LockActor(r, from, to) PROVE Alone
  BY <1>1, <1>4 DEF LockActor
<1>5. ASSUME NEW pc, Begin(r, pc) PROVE Alone
  BY <1>0, <1>5 DEF Begin, Fields
<1>6. ASSUME Begins(r) PROVE \A s \in Requests \ {r} : req'[s] = req[s]
  <2>1. \E command : Start(r, command)
    BY <1>6, ZenonT(60) DEF Begins, StartCreate, StartUpdate, StartUpdateCredential, StartIssue,
                            StartUpdateKey, StartList
  <2> QED
    BY <1>0, <2>1 DEF Start
<1>7. CASE Authenticate(r) \/ MaterializePrincipal(r)
  <2>1. Refuse(r) \/ \E principal, pc : req' = [req EXCEPT ![r].principal = principal, ![r].pc = pc]
    BY <1>7, Zenon DEF Authenticate, MaterializePrincipal
  <2> QED
    BY <1>0, <1>3, <2>1 DEF Fields
<1>8. CASE ListPage(r)
  BY <1>8, PageStep DEF Kept, Fields
<1>9. CASE FindScopes(r)
  <2>1. PICK found : req' = [req EXCEPT ![r].pc = "key_rows", ![r].found = found]
    BY <1>9, Zenon DEF FindScopes
  <2> QED
    BY <1>0, <2>1 DEF Fields
<1>10. CASE LookUpKnowledgeBase(r) \/ LookUpCredential(r) \/ BeginProfile(r) \/ ResolveProvider(r)
  BY <1>3, <1>5, <1>10, Zenon DEF LookUpKnowledgeBase, LookUpCredential, BeginProfile, ResolveProvider
<1>11. CASE \/ LookUpConfig(r) \/ LookOnly(r) \/ LockReference(r) \/ LockKnowledgeBase(r)
            \/ LockCredential(r) \/ LockAgentKey(r) \/ ScopesChecked(r)
  BY <1>1, <1>3, <1>11, Zenon DEF LookUpConfig, LookOnly, LockReference, LockKnowledgeBase,
     LockCredential, LockAgentKey, ScopesChecked
<1>12. CASE \/ FoundActor(r) \/ CreateActor(r) \/ UpdateActor(r) \/ RotateActor(r)
            \/ IssueActor(r) \/ KeyActor(r)
  BY <1>4, <1>12, Zenon DEF FoundActor, CreateActor, UpdateActor, RotateActor, IssueActor, KeyActor
<1>13. CASE CreateReplay(r) \/ CheckWinner(r) \/ CreateConflict(r) \/ RefuseLocked(r)
  BY <1>1, <1>2, <1>3, <1>13, Zenon DEF CreateReplay, CheckWinner, CreateConflict, RefuseLocked, Replay
<1>14. CASE LockScopes(r)
  BY <1>14 DEF LockScopes
<1>15. CASE Writes(r)
  <2>1. \E result : End(r, result)
    BY <1>15 DEF Writes, CreateInsert, InsertKnowledgeBase, InsertCredential, InsertConfig,
       InsertProfile, Insert, WriteKnowledgeBase, WriteCredential, IssueAgentKey, UpdateAgentKey,
       RevokeAgentKey, Refuse
  <2> QED
    BY <1>2, <2>1, SMTT(30)
<1> QED
  BY <1>6, <1>7, <1>8, <1>9, <1>10, <1>11, <1>12, <1>13, <1>14, <1>15 DEF Progress, Writes

\* What is visible to a list exists.
LEMMA VisibleExists ==
  ASSUME IInv, NEW r \in Requests, req[r].op = "list", req[r].kind \in Kinds
  PROVE  Visible(r) \subseteq Ids /\ \A i \in Visible(r) : resources[i].kind # "none"
<1>1. req[r].actor \in Actors
  BY DEF IInv, RequestOK, Shaped
<1>2. keys[req[r].actor].scope \subseteq Ids
  BY <1>1 DEF IInv, TablesOK
<1>3. \A i \in keys[req[r].actor].scope : resources[i].kind = "knowledge_base"
  BY <1>1 DEF IInv, TablesOK
<1> QED
  BY <1>2, <1>3 DEF Visible, ListScoped, ListCredentials, ListProviderConfigs, ListModelProfiles,
                    Kinds, AdminKinds

\* The next page: it starts behind the cursor, so it repeats nothing, and its
\* last row is the new cursor, so it skips nothing.
LEMMA NextPage ==
  ASSUME IInv, NEW r \in Requests, ListOK(r), ListPage(r)
  PROVE  ListOK(r)'
<1>1. req[r].pc = "list" /\ req[r].op = "list"
  BY Running DEF ListPage
<1>2. /\ req[r].kind \in Kinds
      /\ req[r].listed \in Seq(Ids) /\ req[r].stable \subseteq Ids
      /\ \A x \in 1..Len(req[r].listed) : resources[req[r].listed[x]].kind # "none"
      /\ \A x, y \in 1..Len(req[r].listed) : x # y => req[r].listed[x] # req[r].listed[y]
      /\ req[r].target = None => req[r].listed = << >>
      /\ req[r].target # None =>
           /\ req[r].target \in Nat \X Nat
           /\ \A i \in req[r].stable : resources[i].kind # "none"
           /\ Passed(r)
  BY <1>1 DEF ListOK
<1>3. PICK old, stable, cursor :
        old = req[r].listed /\ stable = req[r].stable /\ cursor = req[r].target
  OBVIOUS
<1>30. old \in Seq(Ids) /\ stable \subseteq Ids
  BY <1>2, <1>3
<1>31. Len(old) \in Nat
  BY <1>30
<1>4. PICK seen : seen = Visible(r)
  OBVIOUS
<1>5. seen \subseteq Ids /\ \A i \in seen : resources[i].kind # "none"
  BY <1>1, <1>2, <1>4, VisibleExists
<1>6. PICK S : S = {i \in seen : After(i, cursor)}
  OBVIOUS
<1>7. PICK fetched, page :
        /\ fetched = FirstRows(S, PageLimit + 1)
        /\ page = SubSeq(fetched, 1, IF Len(fetched) > PageLimit THEN PageLimit ELSE Len(fetched))
        /\ Kept(r, {"listed", "stable", "target", "pc"})
        /\ req'[r].listed = old \o page
        /\ req'[r].stable = stable \cap seen
        /\ req'[r].target = IF Len(fetched) > PageLimit THEN NextCursor(fetched, page) ELSE None
        /\ req'[r].pc = IF Len(fetched) > PageLimit THEN "authenticate" ELSE "done"
  BY <1>3, <1>4, <1>6, PageStep
<1>8. PICK k \in Nat : /\ AreFirst(S, k, fetched) /\ k <= PageLimit + 1
                       /\ k < PageLimit + 1 => \A i \in S : \E x \in 1..k : fetched[x] = i
  <2>1. TablesOK /\ S \subseteq Ids
    BY <1>5, <1>6 DEF IInv
  <2>2. PICK limit \in Nat : limit = PageLimit + 1
    BY PageLimitAssumption
  <2>3. \E k \in Nat : /\ AreFirst(S, k, FirstRows(S, limit)) /\ k <= limit
                       /\ k < limit => \A i \in S : \E x \in 1..k : FirstRows(S, limit)[x] = i
    BY <2>1, FirstRowsAre
  <2> QED
    BY <1>7, <2>2, <2>3
<1>9. fetched \in Seq(S) /\ Len(fetched) = k /\ \A x \in 1..k : fetched[x] \in S
  BY <1>8 DEF AreFirst
<1>10. PICK n \in Nat : /\ n = IF k > PageLimit THEN PageLimit ELSE k
                        /\ n <= k
  BY <1>8, PageLimitAssumption
<1>11. page \in Seq(S) /\ Len(page) = n /\ \A x \in 1..n : page[x] = fetched[x] /\ page[x] \in S
  <2>1. page = SubSeq(fetched, 1, n)
    BY <1>7, <1>9, <1>10
  <2> QED
    BY <1>9, <1>10, <2>1
<1>12. PICK new \in Seq(Ids) :
         /\ new = old \o page /\ Len(new) = Len(old) + n
         /\ \A x \in 1..Len(old) : new[x] = old[x]
         /\ \A x \in 1..n : new[Len(old) + x] = page[x]
  <2>1. page \in Seq(Ids)
    BY <1>5, <1>6, <1>11
  <2>2. PICK new \in Seq(Ids) : new = old \o page
    <3>1. old \o page \in Seq(Ids)
      BY <1>30, <2>1
    <3> QED
      BY <3>1, Zenon
  <2>3. /\ Len(new) = Len(old) + n
        /\ \A x \in 1..Len(old) : new[x] = old[x]
        /\ \A x \in 1..n : new[Len(old) + x] = page[x]
    BY <1>11, <1>30, <2>1, <2>2
  <2> QED
    BY <2>2, <2>3
<1>13. \A x \in 1..Len(new) : x \in 1..Len(old) \/ (x - Len(old) \in 1..n /\ new[x] = page[x - Len(old)])
  BY <1>12, SMTT(30)
<1>14. UNCHANGED resources
  BY DEF ListPage, tables
<1>15. \A x \in 1..Len(new) : resources[new[x]].kind # "none"
  <2>1. \A x \in 1..n : resources[page[x]].kind # "none"
    BY <1>5, <1>6, <1>11
  <2>2. \A x \in 1..Len(old) : resources[old[x]].kind # "none"
    BY <1>2, <1>3
  <2> QED
    BY <1>12, <1>13, <2>1, <2>2
<1>16. \A i \in Ids : resources[i].at \in Nat /\ i \in Nat
  BY DEF IInv, TablesOK, Rows
<1>17. cursor # None => cursor \in Nat \X Nat /\ \A x \in 1..Len(old) : ~After(old[x], cursor)
  BY <1>2, <1>3 DEF Passed
<1>18. \A x \in 1..Len(old), y \in 1..n : old[x] # page[y]
  <2>1. \A y \in 1..n : After(page[y], cursor)
    BY <1>6, <1>11
  <2>2. cursor = None => Len(old) = 0
    BY <1>2, <1>3
  <2> QED
    BY <1>17, <2>1, <2>2
<1>19. ASSUME NEW x \in 1..Len(new), NEW y \in 1..Len(new), x < y PROVE new[x] # new[y]
  <2>1. CASE y \in 1..Len(old)
    <3>1. x \in 1..Len(old)
      BY <1>12, <1>19, <1>31, <2>1
    <3>2. old[x] # old[y]
      BY <1>2, <1>3, <1>19, <2>1, <3>1
    <3> QED
      BY <1>12, <2>1, <3>1, <3>2
  <2>2. CASE y \notin 1..Len(old) /\ x \in 1..Len(old)
    BY <1>12, <1>13, <1>18, <2>2
  <2>3. CASE y \notin 1..Len(old) /\ x \notin 1..Len(old)
    <3>1. PICK u \in 1..n, v \in 1..n : u < v /\ new[x] = page[u] /\ new[y] = page[v]
      <4>1. x - Len(old) \in 1..n /\ y - Len(old) \in 1..n
        BY <1>13, <2>3
      <4>2. x - Len(old) < y - Len(old)
        BY <1>12, <1>19, <1>31
      <4> QED
        BY <1>13, <2>3, <4>1, <4>2
    <3>2. fetched[u] # fetched[v]
      BY <1>8, <1>10, <3>1 DEF AreFirst
    <3> QED
      BY <1>11, <3>1, <3>2
  <2> QED
    BY <2>1, <2>2, <2>3
<1>20. \A x, y \in 1..Len(new) : x # y => new[x] # new[y]
  <2> SUFFICES ASSUME NEW x \in 1..Len(new), NEW y \in 1..Len(new), x # y PROVE new[x] # new[y]
    OBVIOUS
  <2>1. x < y \/ y < x
    BY <1>12
  <2> QED
    BY <1>19, <2>1
\* What was visible on every page so far.
<1>21. ASSUME NEW i \in stable \cap seen
       PROVE  (\E x \in 1..Len(old) : old[x] = i) \/ i \in S
  <2>1. CASE cursor = None
    BY <1>6, <1>21, <2>1 DEF After
  <2>2. CASE cursor # None
    BY <1>2, <1>3, <1>6, <1>21, <2>2 DEF Passed
  <2> QED
    BY <2>1, <2>2
<1>22. \A x \in 1..Len(old) : x \in 1..Len(new) /\ new[x] = old[x]
  BY <1>10, <1>12, <1>31
<1>23. \A x \in 1..n : Len(old) + x \in 1..Len(new) /\ new[Len(old) + x] = page[x]
  <2>1. Len(new) = Len(old) + n /\ Len(old) \in Nat /\ n \in Nat
    BY <1>10, <1>12, <1>31
  <2>2. \A x \in 1..n : Len(old) + x \in 1..Len(new)
    BY <2>1
  <2> QED
    BY <1>12, <2>2
<1>24. ASSUME Len(fetched) <= PageLimit, NEW i \in stable \cap seen
       PROVE  \E x \in 1..Len(new) : new[x] = i
  <2>1. CASE \E x \in 1..Len(old) : old[x] = i
    BY <1>22, <2>1
  <2>2. CASE i \in S
    <3>1. k < PageLimit + 1 /\ n = k
      BY <1>9, <1>10, <1>24, PageLimitAssumption
    <3>2. PICK x \in 1..n : page[x] = i
      BY <1>8, <1>11, <2>2, <3>1
    <3> QED
      BY <1>23, <3>2
  <2> QED
    BY <1>21, <2>1, <2>2
<1>25. ASSUME Len(fetched) > PageLimit
       PROVE  /\ NextCursor(fetched, page) \in Nat \X Nat
              /\ \A x \in 1..Len(new) : ~After(new[x], NextCursor(fetched, page))
              /\ \A i \in stable \cap seen :
                   (\E x \in 1..Len(new) : new[x] = i) \/ After(i, NextCursor(fetched, page))
  <2>1. n = PageLimit /\ k = PageLimit + 1 /\ n \in 1..n /\ n \in 1..k /\ n # 0
    BY <1>8, <1>9, <1>10, <1>25, PageLimitAssumption
  <2>2. PICK last \in S : last = page[n] /\ last = fetched[n]
    BY <1>11, <2>1
  <2>3. last \in Ids /\ last \in Nat /\ resources[last].at \in Nat
    BY <1>5, <1>6, <1>16, <2>2
  <2>4. PICK at \in Nat : at = resources[last].at
    BY <2>3
  <2>5. NextCursor(fetched, page) = <<at, last>>
    BY <1>11, <2>2, <2>4 DEF NextCursor
  <2>6. <<at, last>> \in Nat \X Nat /\ <<at, last>> # None
    BY <2>3, <2>4, CursorAssumption
  <2>7. ASSUME NEW i \in Ids
        PROVE  After(i, <<at, last>>) <=> ~Ordered(i, last)
    BY <1>16, <2>3, <2>4, <2>6 DEF After, Ordered
  <2>8. \A x \in 1..n : Ordered(page[x], last)
    <3> SUFFICES ASSUME NEW x \in 1..n PROVE Ordered(page[x], last)
      OBVIOUS
    <3>0. Ordered(last, last)
      BY <2>3 DEF Ordered
    <3>1. CASE x = n
      BY <2>2, <3>0, <3>1
    <3>2. CASE x < n
      BY <1>8, <1>10, <1>11, <2>1, <2>2, <3>2 DEF AreFirst
    <3> QED
      BY <3>1, <3>2
  <2>9. \A x \in 1..Len(old) : Ordered(old[x], last)
    <3> SUFFICES ASSUME NEW x \in 1..Len(old) PROVE Ordered(old[x], last)
      OBVIOUS
    <3>1. old[x] \in Ids /\ cursor # None
      BY <1>2, <1>3, <1>30
    <3>2. ~After(old[x], cursor) /\ After(last, cursor) /\ cursor \in Nat \X Nat
      BY <1>6, <1>17, <2>2, <3>1
    <3>3. cursor[1] \in Nat /\ cursor[2] \in Nat
      BY <3>2
    <3>4. PICK i \in Ids : i = old[x]
      BY <3>1
    <3>5. resources[i].at \in Nat /\ i \in Nat
      BY <1>16
    <3>6. Ordered(i, last)
      BY <2>3, <3>1, <3>2, <3>3, <3>4, <3>5, SMTT(30) DEF After, Ordered
    <3> QED
      BY <3>4, <3>6
  <2>10. \A x \in 1..Len(new) : new[x] \in Ids /\ Ordered(new[x], last)
    BY <1>12, <1>13, <2>8, <2>9
  <2>11. ASSUME NEW i \in S
         PROVE  (\E x \in 1..n : page[x] = i) \/ ~Ordered(i, last)
    <3>1. i \in Ids
      BY <1>5, <1>6
    <3>2. CASE \E x \in 1..k : fetched[x] = i
      <4>1. PICK x \in 1..k : fetched[x] = i
        BY <3>2
      <4>2. CASE x \in 1..n
        BY <1>11, <4>1, <4>2
      <4>3. CASE x \notin 1..n
        <5>1. n < x /\ n \in 1..k
          BY <1>10, <2>1, <4>3
        <5>2. fetched[n] # fetched[x] /\ Ordered(fetched[n], fetched[x])
          BY <1>8, <5>1 DEF AreFirst
        <5> QED
          BY <2>2, <2>3, <3>1, <4>1, <5>2, OrderTotal DEF IInv
      <4> QED
        BY <4>2, <4>3
    <3>3. CASE ~\E x \in 1..k : fetched[x] = i
      <4>1. Ordered(fetched[n], i) /\ fetched[n] # i
        BY <1>8, <2>1, <3>3 DEF AreFirst
      <4> QED
        BY <2>2, <2>3, <3>1, <4>1, OrderTotal DEF IInv
    <3> QED
      BY <3>2, <3>3
  <2>12. \A x \in 1..Len(new) : ~After(new[x], <<at, last>>)
    BY <2>7, <2>10
  <2>13. \A i \in stable \cap seen : (\E x \in 1..Len(new) : new[x] = i) \/ After(i, <<at, last>>)
    <3> SUFFICES ASSUME NEW i \in stable \cap seen
                 PROVE  (\E x \in 1..Len(new) : new[x] = i) \/ After(i, <<at, last>>)
      OBVIOUS
    <3>1. i \in Ids
      BY <1>5
    <3>2. (\E x \in 1..Len(old) : old[x] = i) => \E x \in 1..Len(new) : new[x] = i
      BY <1>22
    <3>3. (\E x \in 1..n : page[x] = i) => \E x \in 1..Len(new) : new[x] = i
      BY <1>23
    <3> QED
      BY <1>21, <2>7, <2>11, <3>1, <3>2, <3>3
  <2> QED
    BY <2>5, <2>6, <2>12, <2>13
<1>26. req'[r].op = "list" /\ req'[r].kind = req[r].kind /\ req'[r].result = req[r].result
  BY <1>1, <1>7 DEF Kept, Fields
<1>27. /\ req'[r].listed = new /\ req'[r].stable = stable \cap seen
  BY <1>7, <1>12
<1>28. CASE Len(fetched) <= PageLimit
  <2>1. req'[r].pc = "done"
    BY <1>7, <1>9, <1>28, PageLimitAssumption
  <2> QED
    BY <1>2, <1>14, <1>15, <1>20, <1>24, <1>26, <1>27, <1>28, <2>1 DEF ListOK
<1>29. CASE Len(fetched) > PageLimit
  <2>1. PICK next : next = NextCursor(fetched, page)
    OBVIOUS
  <2>2. req'[r].pc = "authenticate" /\ req'[r].target = next
    BY <1>7, <1>29, <2>1
  <2>3. next \in Nat \X Nat /\ next # None
    BY <1>25, <1>29, <2>1, CursorAssumption
  <2>4. \A i : After(i, next)' <=> After(i, next)
    BY <1>14 DEF After
  <2>5. Passed(r)'
    BY <1>25, <1>27, <1>29, <2>1, <2>2, <2>4 DEF Passed
  <2>6. \A i \in stable \cap seen : resources'[i].kind # "none"
    BY <1>5, <1>14
  <2>7. new \in Seq(Ids) /\ stable \cap seen \subseteq Ids
    BY <1>12, <1>30
  <2>8. req'[r].kind \in Kinds /\ \A x \in 1..Len(new) : resources'[new[x]].kind # "none"
    BY <1>2, <1>14, <1>15, <1>26
  <2> QED
    BY <1>20, <1>26, <1>27, <2>2, <2>3, <2>5, <2>6, <2>7, <2>8 DEF ListOK
<1> QED
  BY <1>9, <1>28, <1>29, PageLimitAssumption, SMTT(30)

\* The steps of a list before its pages, and its refusal.
LEMMA ListMoves ==
  ASSUME IInv, NEW r \in Requests, ListOK(r), req[r].op = "list", Progress(r)
  PROVE  ListOK(r)'
<1>1. RequestOK(r) /\ DOMAIN req = Requests /\ DOMAIN req[r] = Fields
  BY DEF IInv, TablesOK, RequestOK, Shaped
<1>2. req[r].pc \in {"authenticate", "scopes", "refuse", "done", "list"}
  BY <1>1 DEF RequestOK, Shaped, Phases, CreateOps, EditOps
<1>3. Authenticate(r) \/ MaterializePrincipal(r) \/ RefuseLocked(r) \/ ListPage(r)
  BY <1>2 DEF Progress, LookUpKnowledgeBase, LookUpCredential, LookUpConfig, BeginProfile,
     LookOnly, ResolveProvider, FoundActor, CreateReplay, CreateActor, CheckWinner, LockReference,
     CreateInsert, CreateConflict, UpdateActor, LockKnowledgeBase, WriteKnowledgeBase, RotateActor,
     LockCredential, WriteCredential, IssueActor, KeyActor, LockAgentKey, FindScopes, LockScopes,
     ScopesChecked, IssueAgentKey, UpdateAgentKey, RevokeAgentKey, LockActor
<1>4. CASE Refuse(r)
  <2>1. UNCHANGED resources
    BY <1>4 DEF Refuse, tables
  <2>2. Kept(r, {"pc", "result"}) /\ req'[r].pc = "done" /\ req'[r].result = Refused
    BY <1>4, EndKeeps DEF Refuse
  <2>3. /\ req'[r].op = "list" /\ req'[r].kind = req[r].kind /\ req'[r].listed = req[r].listed
        /\ req'[r].stable = req[r].stable
    BY <2>2 DEF Kept, Fields
  <2>4. Refused # None
    BY CursorAssumption DEF Refused
  <2> QED
    BY <2>1, <2>2, <2>3, <2>4 DEF ListOK
<1>5. CASE \E pc \in {"scopes", "list"}, principal \in {keys[req[r].actor].manage, keys[req[r].actor].scope} :
             /\ req[r].pc # "done"
             /\ req' = [req EXCEPT ![r].principal = principal, ![r].pc = pc]
             /\ UNCHANGED resources
  <2>1. /\ req[r].pc # "done" /\ req'[r].pc # "done" /\ UNCHANGED resources
        /\ req'[r].op = "list" /\ req'[r].kind = req[r].kind /\ req'[r].listed = req[r].listed
        /\ req'[r].stable = req[r].stable /\ req'[r].target = req[r].target
    BY <1>1, <1>5 DEF Fields
  <2>2. \A i, cursor : After(i, cursor)' <=> After(i, cursor)
    BY <2>1 DEF After
  <2>3. Passed(r)' <=> Passed(r)
    BY <2>1, <2>2 DEF Passed
  <2> QED
    BY <2>1, <2>3 DEF ListOK
<1>6. CASE Authenticate(r) \/ MaterializePrincipal(r)
  <2>1. CASE ~Refuse(r)
    <3>1. \/ req' = [req EXCEPT ![r].principal = keys[req[r].actor].manage, ![r].pc = "scopes"]
          \/ req' = [req EXCEPT ![r].principal = keys[req[r].actor].scope, ![r].pc = "list"]
      BY <1>6, <2>1 DEF Authenticate, MaterializePrincipal
    <3>2. req[r].pc # "done" /\ UNCHANGED resources
      BY <1>6, <2>1 DEF Authenticate, MaterializePrincipal, tables
    <3> QED
      BY <1>5, <3>1, <3>2
  <2> QED
    BY <1>4, <2>1
<1> QED
  BY <1>3, <1>4, <1>6, NextPage DEF RefuseLocked

\* A list that begins has returned nothing yet.
LEMMA ListBegins ==
  ASSUME IInv, NEW r \in Requests, Begins(r)
  PROVE  ListOK(r)'
<1>1. PICK c : CommandOK(c) /\ Start(r, c)
  BY CreateCommand, UpdateCommand, KeyCommand DEF Begins
<1>2. DOMAIN req = Requests /\ DOMAIN c = Fields
  BY <1>1 DEF IInv, TablesOK, CommandOK
<1>3. /\ req'[r].op = c.op /\ req'[r].kind = c.kind /\ req'[r].listed = c.listed
      /\ req'[r].stable = c.stable /\ req'[r].target = c.target /\ req'[r].pc = "authenticate"
  BY <1>1, <1>2 DEF Start, Fields
<1>4. c.op = "list" => c.kind \in Kinds /\ c.listed = << >> /\ c.target = None /\ c.stable = Ids
  BY <1>1 DEF CommandOK
<1>5. req'[r].op = "list" => /\ req'[r].kind \in Kinds /\ req'[r].listed = << >>
                            /\ req'[r].target = None /\ req'[r].stable = Ids
  BY <1>3, <1>4
<1>6. PICK empty : empty = << >>
  OBVIOUS
<1>7. empty \in Seq(Ids) /\ 1..Len(empty) = {}
  BY <1>6
<1> QED
  BY <1>3, <1>5, <1>6, <1>7 DEF ListOK

\* Paging through a list returns nothing twice, and everything that was visible
\* on each of its page requests, whatever is created, deleted, granted or
\* withdrawn between the pages (list_scoped, list_credentials and the other
\* keyset queries: ORDER BY created_at, id behind the cursor, LIMIT + 1).
THEOREM ListsExact == Spec => []ListedExactlyOnce
<1> DEFINE Lists == \A r \in Requests : ListOK(r)
<1>1. Init => Lists
  BY DEF Init, Idle, ListOK
<1>2. IInv /\ Lists /\ [Next]_vars => Lists'
  <2> SUFFICES ASSUME IInv, Lists, [Next]_vars, NEW s \in Requests PROVE ListOK(s)'
    OBVIOUS
  <2>1. CASE req'[s] = req[s]
    BY <2>1, ListFrame
  <2>2. CASE req'[s] # req[s]
    <3>1. PICK r \in Requests : Begins(r) \/ Progress(r)
      BY <2>2 DEF Next, Purge, RevokeAdminKey, vars
    <3>2. r = s
      BY <2>2, <3>1, OneMoves
    <3>3. CASE Begins(s)
      BY <3>3, ListBegins
    <3>4. CASE Progress(s) /\ req[s].op = "list"
      BY <3>4, ListMoves
    <3>5. CASE Progress(s) /\ req[s].op # "list"
      <4>1. req'[s].op # "list"
        BY <3>5, OneMoves
      <4> QED
        BY <4>1 DEF ListOK
    <3> QED
      BY <3>1, <3>2, <3>3, <3>4, <3>5
  <2> QED
    BY <2>1, <2>2
<1>3. Lists => ListedExactlyOnce
  BY DEF ListOK, ListedExactlyOnce
<1> QED
  BY <1>1, <1>2, <1>3, Invariant, PTL DEF Spec

-----------------------------------------------------------------------------
\* The deletion of one knowledge base.
USE BoundsAssumption

\* Nobody purges a knowledge base that nobody deleted.
DeletedFirst ==
  kb = "active" => /\ job.status = "absent"
                   /\ \A w \in Workers : workers[w].pc = "idle"

\* While there are rows, the row of a generation is there before and as long as
\* its collection: reading the rows finds every collection.
CollectionsRecorded ==
  kb # "gone" =>
    \A g \in Generations : BeingCreated(g) \/ collections[g] # "absent" => g \in gens

\* What a worker has left to delete covers what is left from before the
\* deletion, however many workers are at it.  An object whose own delete failed
\* is passed over.
WorkCovers ==
  \A w \in Workers :
    /\ workers[w].pc = "collections" =>
         \A g \in Generations : collections[g] = "early" => g \in workers[w].names
    /\ workers[w].pc = "objects" =>
         /\ \A g \in Generations : collections[g] # "early"
         /\ spare.outages = Outages =>
              \A d \in Documents : objects[d] = "early" => d \in workers[w].keys

\* A claim that has come as far as the delete turns every new request away: what
\* no request was about to make again stays away.
DeletedForGood ==
  \A g \in Generations :
    claims[g] \in {"deleted", "completed"} /\ g \notin overtaken
      => collections[g] = "absent" /\ ~BeingCreated(g)

PurgeIInv ==
  /\ PurgeTypeOK /\ VectorsGoFirst
  /\ DeletedFirst /\ CollectionsRecorded /\ WorkCovers /\ DeletedForGood

-----------------------------------------------------------------------------
\* The established generations with their collections, and nothing else.
LEMMA InitPurge == PurgeInit => PurgeIInv
BY EstablishedAssumption DEF PurgeInit, PurgeIInv, PurgeTypeOK, VectorsGoFirst, DeletedFirst,
        CollectionsRecorded, WorkCovers, DeletedForGood,
       BeingCreated, IdleWorker, Worker, JobRow, Age, ClaimState

\* The writers: what is born after the deletion began is late, so it is nobody's
\* debt, and before it there is no worker.
LEMMA StepGeneration ==
  ASSUME PurgeIInv, NEW g \in Generations,
         ReserveGeneration(g) \/ EnsureCollection(g) \/ CreationEnds(g) \/ GenerationFails(g)
  PROVE  PurgeIInv'
<1> USE DEF PurgeIInv, databaseRows, cleanup, outside, writers, Age,
        Born, BeingCreated, ReserveGeneration, EnsureCollection, CreationEnds, GenerationFails
<1>1. PurgeTypeOK'
  BY DEF PurgeTypeOK
<1>2. VectorsGoFirst'
  BY DEF PurgeTypeOK, VectorsGoFirst
<1>3. DeletedFirst'
  BY DEF DeletedFirst
<1>4. CollectionsRecorded'
  BY DEF PurgeTypeOK, CollectionsRecorded, BeingCreated
<1>5. WorkCovers'
  BY DEF PurgeTypeOK, WorkCovers, DeletedFirst
<1>6. DeletedForGood'
  BY DEF PurgeTypeOK, DeletedForGood, BeingCreated
<1> QED
  BY <1>1, <1>2, <1>3, <1>4, <1>5, <1>6

\* The reconciler only takes away.
LEMMA StepReconcile ==
  ASSUME PurgeIInv, NEW g \in Generations, ReconcileCollection(g) \/ TakeOverCleanup(g)
  PROVE  PurgeIInv'
<1> USE DEF PurgeIInv, databaseRows, cleanup, outside, writers, Age, ClaimState, Interrupt,
        ReconcileCollection, ClaimCleanup, DeleteOrphan, CompleteCleanup, TakeOverCleanup
<1>1. PurgeTypeOK'
  BY DEF PurgeTypeOK
<1>2. VectorsGoFirst'
  BY DEF PurgeTypeOK, VectorsGoFirst
<1>3. DeletedFirst'
  BY DEF DeletedFirst
<1>4. CollectionsRecorded'
  BY DEF PurgeTypeOK, CollectionsRecorded, BeingCreated
<1>5. WorkCovers'
  BY DEF PurgeTypeOK, WorkCovers
<1>6. DeletedForGood'
  BY DEF PurgeTypeOK, DeletedForGood, BeingCreated
<1> QED
  BY <1>1, <1>2, <1>3, <1>4, <1>5, <1>6

LEMMA StepDocument ==
  ASSUME PurgeIInv, NEW d \in Documents,
         UploadStarts(d) \/ PublishObject(d) \/ ReserveDocument(d) \/ WritingEnds(d)
           \/ ReconcileObject(d)
  PROVE  PurgeIInv'
<1> USE DEF PurgeIInv, databaseRows, cleanup, outside, writers, Age,
        Born, UploadStarts, PublishObject, ReserveDocument,
        WritingEnds, ReconcileObject
<1>1. PurgeTypeOK'
  BY DEF PurgeTypeOK
<1>2. VectorsGoFirst'
  BY DEF PurgeTypeOK, VectorsGoFirst
<1>3. DeletedFirst'
  BY DEF DeletedFirst
<1>4. CollectionsRecorded'
  BY DEF PurgeTypeOK, CollectionsRecorded, BeingCreated
<1>5. WorkCovers'
  BY DEF PurgeTypeOK, WorkCovers, DeletedFirst
<1>6. DeletedForGood'
  BY DEF PurgeTypeOK, DeletedForGood, BeingCreated
<1> QED
  BY <1>1, <1>2, <1>3, <1>4, <1>5, <1>6

\* The job: nobody has begun when it is queued.
LEMMA StepDeleteKnowledgeBase ==
  ASSUME PurgeIInv, DeleteKnowledgeBase
  PROVE  PurgeIInv'
<1> USE DEF PurgeIInv, databaseRows, cleanup, outside, writers,
        DeleteKnowledgeBase
<1>1. PurgeTypeOK'
  BY DEF PurgeTypeOK, JobRow
<1>2. VectorsGoFirst'
  BY DEF PurgeTypeOK, VectorsGoFirst
<1>3. DeletedFirst'
  BY DEF PurgeTypeOK, DeletedFirst
<1>4. CollectionsRecorded'
  BY DEF PurgeTypeOK, CollectionsRecorded, BeingCreated
<1>5. WorkCovers'
  BY DEF PurgeTypeOK, WorkCovers
<1>6. DeletedForGood'
  BY DEF PurgeTypeOK, DeletedForGood, BeingCreated
<1> QED
  BY <1>1, <1>2, <1>3, <1>4, <1>5, <1>6

\* Who claims it has nothing to delete yet.
LEMMA StepClaim ==
  ASSUME PurgeIInv, NEW w \in Workers, Claim(w)
  PROVE  PurgeIInv'
<1> USE DEF PurgeIInv, databaseRows, cleanup, outside, writers, Put,
        IdleWorker, Claim, Claimable
<1>1. PurgeTypeOK'
  <2>1. job' \in JobRow
    BY DEF PurgeTypeOK, JobRow
  <2>2. [IdleWorker EXCEPT !.pc = "start", !.epoch = job.epoch + 1] \in Worker
    <3>1. job.epoch + 1 \in Nat
      BY DEF PurgeTypeOK, JobRow
    <3> QED
      BY <3>1 DEF Worker
  <2>3. workers' \in [Workers -> Worker]
    BY <2>2 DEF PurgeTypeOK
  <2> QED
    BY <2>1, <2>3 DEF PurgeTypeOK
<1>2. VectorsGoFirst'
  BY DEF PurgeTypeOK, VectorsGoFirst
<1>3. DeletedFirst'
  BY DEF PurgeTypeOK, DeletedFirst
<1>4. CollectionsRecorded'
  BY DEF PurgeTypeOK, CollectionsRecorded, BeingCreated
<1>5. WorkCovers'
  BY DEF PurgeTypeOK, WorkCovers
<1>6. DeletedForGood'
  BY DEF PurgeTypeOK, DeletedForGood, BeingCreated
<1> QED
  BY <1>1, <1>2, <1>3, <1>4, <1>5, <1>6

\* The end of the attempts, of a worker or of a lease leaves the debt of the others.
LEMMA StepExhaust ==
  ASSUME PurgeIInv, NEW w \in Workers, Exhaust(w)
  PROVE  PurgeIInv'
<1> USE DEF PurgeIInv, databaseRows, cleanup, outside, writers,
        Exhaust, Claimable
<1>1. PurgeTypeOK'
  BY DEF PurgeTypeOK, JobRow
<1>2. VectorsGoFirst'
  BY DEF PurgeTypeOK, VectorsGoFirst
<1>3. DeletedFirst'
  BY DEF PurgeTypeOK, DeletedFirst
<1>4. CollectionsRecorded'
  BY DEF PurgeTypeOK, CollectionsRecorded, BeingCreated
<1>5. WorkCovers'
  BY DEF PurgeTypeOK, WorkCovers
<1>6. DeletedForGood'
  BY DEF PurgeTypeOK, DeletedForGood, BeingCreated
<1> QED
  BY <1>1, <1>2, <1>3, <1>4, <1>5, <1>6

\* A worker that dies owes nothing.
LEMMA StepCrash ==
  ASSUME PurgeIInv, NEW w \in Workers, Crash(w)
  PROVE  PurgeIInv'
<1> USE DEF PurgeIInv, databaseRows, cleanup, outside, writers, Put,
        IdleWorker, Crash, Interrupt
<1>1. PurgeTypeOK'
  BY DEF PurgeTypeOK, Worker
<1>2. VectorsGoFirst'
  BY DEF PurgeTypeOK, VectorsGoFirst
<1>3. DeletedFirst'
  BY DEF PurgeTypeOK, DeletedFirst
<1>4. CollectionsRecorded'
  BY DEF PurgeTypeOK, CollectionsRecorded, BeingCreated
<1>5. WorkCovers'
  BY DEF PurgeTypeOK, WorkCovers
<1>6. DeletedForGood'
  BY DEF PurgeTypeOK, DeletedForGood, BeingCreated
<1> QED
  BY <1>1, <1>2, <1>3, <1>4, <1>5, <1>6

\* A lease that runs out stops nobody.
LEMMA StepLeaseExpires ==
  ASSUME PurgeIInv, LeaseExpires
  PROVE  PurgeIInv'
<1> USE DEF PurgeIInv, databaseRows, cleanup, outside, writers,
        LeaseExpires, Interrupt, Fence
<1>1. PurgeTypeOK'
  <2>1. job' \in JobRow
    BY DEF PurgeTypeOK, JobRow
  <2>2. spare' \in [interruptions : 0 .. Interruptions, outages : 0 .. Outages]
    BY DEF PurgeTypeOK
  <2> QED
    BY <2>1, <2>2 DEF PurgeTypeOK
<1>2. VectorsGoFirst'
  BY DEF PurgeTypeOK, VectorsGoFirst
<1>3. DeletedFirst'
  BY DEF PurgeTypeOK, DeletedFirst
<1>4. CollectionsRecorded'
  BY DEF PurgeTypeOK, CollectionsRecorded, BeingCreated
<1>5. WorkCovers'
  BY DEF PurgeTypeOK, WorkCovers
<1>6. DeletedForGood'
  BY DEF PurgeTypeOK, DeletedForGood, BeingCreated
<1> QED
  BY <1>1, <1>2, <1>3, <1>4, <1>5, <1>6

\* The names a worker reads are all there are.
LEMMA StepReadCollections ==
  ASSUME PurgeIInv, NEW w \in Workers, ReadCollections(w)
  PROVE  PurgeIInv'
<1> USE DEF PurgeIInv, databaseRows, cleanup, outside, writers, Put,
        ReadCollections
<1>1. PurgeTypeOK'
  <2>1. workers[w] \in Worker /\ gens \subseteq Generations
    BY DEF PurgeTypeOK
  <2>2. workers' \in [Workers -> Worker]
    BY <2>1 DEF PurgeTypeOK, Worker
  <2> QED
    BY <2>2 DEF PurgeTypeOK
<1>2. VectorsGoFirst'
  BY DEF PurgeTypeOK, VectorsGoFirst
<1>3. DeletedFirst'
  BY DEF PurgeTypeOK, DeletedFirst
<1>4. CollectionsRecorded'
  BY DEF PurgeTypeOK, CollectionsRecorded, BeingCreated
<1>5. WorkCovers'
  BY DEF PurgeTypeOK, WorkCovers, CollectionsRecorded, BeingCreated, VectorsGoFirst
<1>6. DeletedForGood'
  BY DEF PurgeTypeOK, DeletedForGood, BeingCreated
<1> QED
  BY <1>1, <1>2, <1>3, <1>4, <1>5, <1>6

\* The keys it lists are all there are.
LEMMA StepListObjects ==
  ASSUME PurgeIInv, NEW w \in Workers, ListObjects(w)
  PROVE  PurgeIInv'
<1> USE DEF PurgeIInv, databaseRows, cleanup, outside, writers, Put,
        ListObjects
<1>1. PurgeTypeOK'
  BY ZenonT(60) DEF PurgeTypeOK, Worker
<1>2. VectorsGoFirst'
  BY DEF PurgeTypeOK, VectorsGoFirst
<1>3. DeletedFirst'
  BY DEF PurgeTypeOK, DeletedFirst
<1>4. CollectionsRecorded'
  BY DEF PurgeTypeOK, CollectionsRecorded, BeingCreated
<1>5. WorkCovers'
  BY DEF PurgeTypeOK, WorkCovers
<1>6. DeletedForGood'
  BY DEF PurgeTypeOK, DeletedForGood, BeingCreated
<1> QED
  BY <1>1, <1>2, <1>3, <1>4, <1>5, <1>6

\* A delete takes from the debt of every worker what is gone.
LEMMA StepDeleteCollection ==
  ASSUME PurgeIInv, NEW w \in Workers, NEW g \in Generations, DeleteCollection(w, g)
  PROVE  PurgeIInv'
<1> USE DEF PurgeIInv, databaseRows, cleanup, outside, writers, Put,
        DeleteCollection
<1>1. PurgeTypeOK'
  <2>1. workers' \in [Workers -> Worker]
    BY DEF PurgeTypeOK, Worker
  <2>2. collections' \in [Generations -> Age]
    BY DEF PurgeTypeOK, Age
  <2> QED
    BY <2>1, <2>2 DEF PurgeTypeOK
<1>2. VectorsGoFirst'
  BY DEF PurgeTypeOK, VectorsGoFirst
<1>3. DeletedFirst'
  BY DEF PurgeTypeOK, DeletedFirst
<1>4. CollectionsRecorded'
  BY DEF PurgeTypeOK, CollectionsRecorded, BeingCreated
<1>5. WorkCovers'
  BY DEF PurgeTypeOK, WorkCovers
<1>6. DeletedForGood'
  BY DEF PurgeTypeOK, DeletedForGood, BeingCreated
<1> QED
  BY <1>1, <1>2, <1>3, <1>4, <1>5, <1>6

\* A delete that fails leaves an object, and is counted.
LEMMA StepDeleteObject ==
  ASSUME PurgeIInv, NEW w \in Workers, NEW d \in Documents, DeleteObject(w, d)
  PROVE  PurgeIInv'
<1> USE DEF PurgeIInv, databaseRows, cleanup, outside, writers, Put,
        DeleteObject
<1>1. PurgeTypeOK'
  BY SMTT(30) DEF PurgeTypeOK, Worker, Age
<1>2. VectorsGoFirst'
  BY DEF PurgeTypeOK, VectorsGoFirst
<1>3. DeletedFirst'
  BY DEF PurgeTypeOK, DeletedFirst
<1>4. CollectionsRecorded'
  BY DEF PurgeTypeOK, CollectionsRecorded, BeingCreated
<1>5. WorkCovers'
  BY DEF PurgeTypeOK, WorkCovers
<1>6. DeletedForGood'
  BY DEF PurgeTypeOK, DeletedForGood, BeingCreated
<1> QED
  BY <1>1, <1>2, <1>3, <1>4, <1>5, <1>6

\* The rows go when nothing is owed any more.
LEMMA StepDeleteRows ==
  ASSUME PurgeIInv, NEW w \in Workers, DeleteRows(w)
  PROVE  PurgeIInv'
<1> USE DEF PurgeIInv, databaseRows, cleanup, outside, writers, Put,
        DeleteRows
<1>1. PurgeTypeOK'
  BY SMTT(30) DEF PurgeTypeOK, Worker
<1>2. VectorsGoFirst'
  BY DEF PurgeTypeOK, VectorsGoFirst, WorkCovers
<1>3. DeletedFirst'
  BY DEF PurgeTypeOK, DeletedFirst
<1>4. CollectionsRecorded'
  BY DEF PurgeTypeOK, CollectionsRecorded, BeingCreated
<1>5. WorkCovers'
  BY DEF PurgeTypeOK, WorkCovers
<1>6. DeletedForGood'
  BY DEF PurgeTypeOK, DeletedForGood, BeingCreated
<1> QED
  BY <1>1, <1>2, <1>3, <1>4, <1>5, <1>6

\* A worker that is done owes nothing.
LEMMA StepFinish ==
  ASSUME PurgeIInv, NEW w \in Workers, Finish(w) \/ RecordFailure(w)
  PROVE  PurgeIInv'
<1> USE DEF PurgeIInv, databaseRows, cleanup, outside, writers, Put,
        IdleWorker, Finish, RecordFailure, Fence
<1>1. PurgeTypeOK'
  <2>1. job' \in JobRow
    BY ZenonT(60) DEF PurgeTypeOK, JobRow
  <2>2. workers' \in [Workers -> Worker]
    BY DEF PurgeTypeOK, Worker
  <2> QED
    BY <2>1, <2>2 DEF PurgeTypeOK
<1>2. VectorsGoFirst'
  BY DEF PurgeTypeOK, VectorsGoFirst
<1>3. DeletedFirst'
  BY DEF PurgeTypeOK, DeletedFirst
<1>4. CollectionsRecorded'
  BY DEF PurgeTypeOK, CollectionsRecorded, BeingCreated
<1>5. WorkCovers'
  BY DEF PurgeTypeOK, WorkCovers
<1>6. DeletedForGood'
  BY DEF PurgeTypeOK, DeletedForGood, BeingCreated
<1> QED
  BY <1>1, <1>2, <1>3, <1>4, <1>5, <1>6

\* A call that fails is counted.
LEMMA StepCallFails ==
  ASSUME PurgeIInv, NEW w \in Workers, CallFails(w)
  PROVE  PurgeIInv'
<1> USE DEF PurgeIInv, databaseRows, cleanup, outside, writers, Put,
        CallFails
<1>1. PurgeTypeOK'
  BY SMTT(30) DEF PurgeTypeOK, Worker
<1>2. VectorsGoFirst'
  BY DEF PurgeTypeOK, VectorsGoFirst
<1>3. DeletedFirst'
  BY DEF PurgeTypeOK, DeletedFirst
<1>4. CollectionsRecorded'
  BY DEF PurgeTypeOK, CollectionsRecorded, BeingCreated
<1>5. WorkCovers'
  BY DEF PurgeTypeOK, WorkCovers
<1>6. DeletedForGood'
  BY DEF PurgeTypeOK, DeletedForGood, BeingCreated
<1> QED
  BY <1>1, <1>2, <1>3, <1>4, <1>5, <1>6

-----------------------------------------------------------------------------
\* The invariant holds throughout.
THEOREM PurgeInductive == PurgeSpec => []PurgeIInv
<1>1. PurgeIInv /\ [PurgeNext]_purgeVars => PurgeIInv'
  <2> SUFFICES ASSUME PurgeIInv, [PurgeNext]_purgeVars PROVE PurgeIInv'
    OBVIOUS
  <2>1. CASE UNCHANGED purgeVars
    BY <2>1 DEF purgeVars, PurgeIInv, PurgeTypeOK, VectorsGoFirst,
        DeletedFirst, CollectionsRecorded, WorkCovers, DeletedForGood, BeingCreated,
        databaseRows, cleanup, outside, writers
  <2>2. CASE PurgeNext
    BY <2>2, StepGeneration, StepReconcile, StepDocument, StepDeleteKnowledgeBase,
       StepClaim, StepExhaust, StepCrash, StepLeaseExpires, StepReadCollections, StepListObjects,
       StepDeleteCollection, StepDeleteObject, StepDeleteRows, StepFinish, StepCallFails
       DEF PurgeNext, PurgeStep
  <2> QED
    BY <2>1, <2>2
<1> QED
  BY <1>1, InitPurge, PTL DEF PurgeSpec

\* The purge keeps its order: the rows, the only record of what is to be
\* destroyed, go when no collection from before the deletion is left, and no
\* object except one whose delete failed, with any number of unfenced workers
\* purging side by side (purge.py, _delete_rows after _delete_objects).  And a
\* collection whose cleanup was completed is there again only when a request was
\* about to make it as it was deleted (claim_collection_cleanup, _reserve).
THEOREM OrderKept == PurgeSpec => []PurgeInOrder
<1>1. PurgeIInv => PurgeInOrder
  BY DEF PurgeIInv, PurgeInOrder, DeletedForGood, OnlyOvertakenEscape
<1> QED
  BY <1>1, PurgeInductive, PTL
================================================================================
