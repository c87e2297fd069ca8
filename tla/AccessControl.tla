----------------------------- MODULE AccessControl -----------------------------
(***************************************************************************)
(* API keys and what they allow (auth/services.py, auth/policies.py), the   *)
(* knowledge bases agents manage (metadata/services.py) and the creation   *)
(* of resources under an idempotency key, for agents (knowledge bases) and *)
(* administrators (provider credentials, provider configurations and model *)
(* profiles, providers/services.py).                                       *)
(*                                                                         *)
(* A request first authenticates, without locks, and acts on the principal *)
(* it obtained; keys are revoked, disabled and re-scoped meanwhile.  As in *)
(* ProviderConfiguration, a transaction is a sequence of lock steps ended  *)
(* by one step that writes and commits.                                    *)
(***************************************************************************)
EXTENDS Integers, Sequences, FiniteSets

CONSTANTS
  Requests,     \* requests in flight
  Agents,       \* rows of api_keys with key_type = 'agent'
  Issued,       \* the agent keys that exist at first
  Admins,       \* rows of api_keys with key_type = 'admin'
  Ids,          \* identifiers of resources, in the order of uuid
  Existing,     \* the kinds of the resources that exist at first
  IdemKeys,     \* values of the Idempotency-Key header
  Fingerprints, \* request bodies, as far as their fingerprint tells them apart
  PageLimit,    \* the limit parameter of a list request
  None

AdminKinds == {"credential", "config", "profile"}
Kinds == AdminKinds \cup {"knowledge_base"}
Actors == Agents \cup Admins
Rows == Actors \cup Ids

ASSUME KeysAssumption == Agents \cap Admins = {} /\ Issued \subseteq Agents
ASSUME RowsAssumption == Rows \subseteq Nat \ {0} /\ Actors \cap Ids = {}
ASSUME ExistingAssumption ==
  DOMAIN Existing \subseteq Ids /\ \A i \in DOMAIN Existing : Existing[i] \in Kinds
ASSUME NoneAssumption ==
  None \notin Requests /\ None \notin Rows /\ None \notin IdemKeys
ASSUME CursorAssumption == None \notin Nat /\ None \notin Nat \X Nat
ASSUME RequestsAssumption == IsFiniteSet(Requests)
ASSUME IdsAssumption == IsFiniteSet(Ids)
ASSUME PageLimitAssumption == PageLimit \in Nat \ {0}

VARIABLES
  keys,       \* keys[a]: status, manage capability, scope, resource_revision
  resources,  \* resources[i]: kind, status, revision, created_at
  records,    \* the idempotency records
  clock,      \* order of the transactions' start times
  lock,       \* lock[row]: the request holding the row FOR UPDATE, or None
  req         \* req[r]: the command, its principal and its progress

vars == <<keys, resources, records, clock, lock, req>>
tables == <<keys, resources, records, clock>>

Idle == [op |-> "none", pc |-> "idle", actor |-> None, kind |-> None,
         principal |-> None, target |-> None, key |-> None, fingerprint |-> None,
         etag |-> 0, scope |-> {}, found |-> {}, at |-> 0, listed |-> << >>,
         stable |-> {}, result |-> None]

Init ==
  /\ keys = [a \in Actors |->
       [status |-> IF a \in Issued \cup Admins THEN "active" ELSE "absent",
        manage |-> a \in Issued,
        scope |-> IF a \in Issued
                  THEN {i \in DOMAIN Existing : Existing[i] = "knowledge_base"} ELSE {},
        revision |-> 1]]
  /\ resources = [i \in Ids |->
       IF i \in DOMAIN Existing
       THEN [kind |-> Existing[i], status |-> "active", revision |-> 1, at |-> 0]
       ELSE [kind |-> "none", status |-> "absent", revision |-> 0, at |-> 0]]
  /\ records = {}
  /\ clock = 1
  /\ lock = [row \in Rows |-> None]
  /\ req = [r \in Requests |-> Idle]

-----------------------------------------------------------------------------
(* Transactions and authentication *)

Acquire(r, row) ==
  /\ lock[row] \in {None, r}
  /\ lock' = [lock EXCEPT ![row] = r]

Goto(r, pc) == req' = [req EXCEPT ![r].pc = pc]

\* The transaction commits or rolls back; its locks go with it.
End(r, result) ==
  /\ lock' = [row \in Rows |-> IF lock[row] = r THEN None ELSE lock[row]]
  /\ req' = [req EXCEPT ![r].pc = "done", ![r].result = result]

Refused == 0

Refuse(r) == End(r, Refused) /\ UNCHANGED tables

\* authenticate: the key row is read, then, in another statement, its scopes.
Authenticate(r) ==
  /\ req[r].pc = "authenticate"
  /\ IF keys[req[r].actor].status # "active" THEN Refuse(r)
     ELSE /\ req' = [req EXCEPT ![r].principal = keys[req[r].actor].manage,
                                ![r].pc = "scopes"]
          /\ UNCHANGED <<tables, lock>>

\* The services refuse a principal without the manage capability at once.
MaterializePrincipal(r) ==
  /\ req[r].pc = "scopes"
  /\ IF req[r].actor \in Agents /\ ~req[r].principal THEN Refuse(r)
     ELSE /\ req' = [req EXCEPT ![r].principal = keys[req[r].actor].scope,
                                ![r].pc = req[r].op]
          /\ UNCHANGED <<tables, lock>>

\* Mutant of Revalidated: what the request authenticated with is enough.
RevalidatedNever(a) == TRUE

\* _lock_and_revalidate_actor and _require_admin_actor: under its row lock the
\* key must still be active and, for an agent, still hold manage.
Revalidated(a) == keys[a].status = "active" /\ (a \in Agents => keys[a].manage)

LockActor(r, from, to) ==
  /\ req[r].pc = from
  /\ Acquire(r, req[r].actor)
  /\ Goto(r, IF Revalidated(req[r].actor) THEN to ELSE "refuse")
  /\ UNCHANGED tables

RefuseLocked(r) == req[r].pc = "refuse" /\ Refuse(r)

Start(r, command) ==
  /\ req[r].pc = "idle"
  /\ req' = [req EXCEPT ![r] = [command EXCEPT !.pc = "authenticate"]]
  /\ UNCHANGED <<tables, lock>>

-----------------------------------------------------------------------------
(* Creation under an idempotency key *)

\* A configuration names its credential, a profile its configuration.
Reference(kind) == IF kind = "config" THEN "credential" ELSE "config"

StartCreate(r) ==
  \E key \in IdemKeys, f \in Fingerprints :
    \/ \E a \in Issued :
         Start(r, [Idle EXCEPT !.op = "create_knowledge_base", !.actor = a, !.key = key,
                               !.fingerprint = f, !.kind = "knowledge_base"])
    \/ \E a \in Admins :
         \/ Start(r, [Idle EXCEPT !.op = "create_credential", !.actor = a, !.key = key,
                                  !.fingerprint = f, !.kind = "credential"])
         \/ \E kind \in {"config", "profile"}, i \in Ids :
              /\ resources[i].kind = Reference(kind)
              /\ Start(r, [Idle EXCEPT
                   !.op = IF kind = "config" THEN "create_config" ELSE "create_profile",
                   !.actor = a, !.key = key, !.fingerprint = f, !.kind = kind,
                   !.target = i])

\* The idempotency record of the request, if one is committed.
Winner(r) ==
  {rec \in records : rec.actor = req[r].actor /\ rec.kind = req[r].kind
                     /\ rec.key = req[r].key}

\* Another body under the same key is a conflict.  A knowledge base is shown
\* only while the agent still has it in its scope; what administrators created
\* is answered from the audit record of its creation.
ReplayKnowledgeBase(r, rec) ==
  rec.fingerprint = req[r].fingerprint /\ rec.id \in keys[rec.actor].scope

ReplayCredential(r, rec) == rec.fingerprint = req[r].fingerprint

ReplayConfig(r, rec) == rec.fingerprint = req[r].fingerprint

ReplayProfile(r, rec) == rec.fingerprint = req[r].fingerprint

Replay(r) ==
  LET rec == CHOOSE x \in Winner(r) : TRUE
      shown == CASE rec.kind = "knowledge_base" -> ReplayKnowledgeBase(r, rec)
                 [] rec.kind = "credential" -> ReplayCredential(r, rec)
                 [] rec.kind = "config" -> ReplayConfig(r, rec)
                 [] rec.kind = "profile" -> ReplayProfile(r, rec)
  IN IF shown THEN End(r, rec.id) /\ UNCHANGED tables ELSE Refuse(r)

\* A transaction that will insert begins: created_at is its start time.
Begin(r, pc) ==
  /\ req' = [req EXCEPT ![r].at = clock, ![r].pc = pc]
  /\ clock' = clock + 1
  /\ UNCHANGED <<keys, resources, records, lock>>

\* Knowledge bases and credentials are looked up before the actor is locked,
\* and what is found decides the rest of the transaction.
LookUpKnowledgeBase(r) ==
  /\ req[r].pc = "create_knowledge_base"
  /\ Begin(r, IF Winner(r) # {} THEN "create_found" ELSE "create_actor")

LookUpCredential(r) ==
  /\ req[r].pc = "create_credential"
  /\ Begin(r, IF Winner(r) # {} THEN "create_found" ELSE "create_actor")

\* A profile's record is looked up under the lock only.
BeginProfile(r) == req[r].pc = "create_profile" /\ Begin(r, "create_actor")

\* A configuration is created in two transactions.  The first one looks for a
\* record, checks its actor and the credential, and ends.
LookUpConfig(r) ==
  /\ req[r].pc = "create_config"
  /\ Goto(r, IF Winner(r) # {} THEN "create_found" ELSE "create_look")
  /\ UNCHANGED <<tables, lock>>

LookOnly(r) ==
  /\ req[r].pc = "create_look"
  /\ lock[req[r].actor] = None
  /\ IF Revalidated(req[r].actor)
     THEN Goto(r, "create_resolve") /\ UNCHANGED <<tables, lock>>
     ELSE Refuse(r)

\* The provider's host is resolved outside any transaction; then the second
\* transaction begins.
ResolveProvider(r) ==
  /\ req[r].pc = "create_resolve"
  /\ Begin(r, "create_actor") \/ Refuse(r)

FoundActor(r) == LockActor(r, "create_found", "create_replay")

CreateReplay(r) == req[r].pc = "create_replay" /\ Replay(r)

CreateActor(r) == LockActor(r, "create_actor", "create_check")

\* Mutant of CheckWinner: nobody looks once more.
CheckWinnerNever(r) ==
  /\ req[r].pc = "create_check"
  /\ Goto(r, IF req[r].target = None THEN "create_insert" ELSE "create_reference")
  /\ UNCHANGED <<tables, lock>>

\* Administrators' resources are looked up once more under the actor's lock.
\* A second knowledge base is inserted, and only its record violates the unique
\* constraint: the savepoint is rolled back and the winner replayed.
CheckWinner(r) ==
  /\ req[r].pc = "create_check"
  /\ IF Winner(r) # {} THEN Replay(r)
     ELSE /\ Goto(r, IF req[r].target = None THEN "create_insert" ELSE "create_reference")
          /\ UNCHANGED <<tables, lock>>

LockReference(r) ==
  /\ req[r].pc = "create_reference"
  /\ Acquire(r, req[r].target)
  /\ Goto(r, "create_insert")
  /\ UNCHANGED tables

NewRow(r) == [kind |-> req[r].kind, status |-> "active", revision |-> 1, at |-> req[r].at]

Record(r, i) ==
  [actor |-> req[r].actor, kind |-> req[r].kind, key |-> req[r].key,
   fingerprint |-> req[r].fingerprint, id |-> i]

Insert(r, i) ==
  /\ resources' = [resources EXCEPT ![i] = NewRow(r)]
  /\ records' = records \cup {Record(r, i)}
  /\ End(r, i)
  /\ UNCHANGED clock

\* Mutant of InsertKnowledgeBase: the key keeps its revision.
InsertKnowledgeBaseSameRevision(r, i) ==
  /\ req[r].kind = "knowledge_base"
  /\ Insert(r, i)
  /\ keys' = [keys EXCEPT ![req[r].actor].scope = @ \cup {i}]

\* The new knowledge base joins the scope of its creator, whose key becomes a
\* new revision.
InsertKnowledgeBase(r, i) ==
  /\ req[r].kind = "knowledge_base"
  /\ Insert(r, i)
  /\ keys' = [keys EXCEPT ![req[r].actor].scope = @ \cup {i},
                          ![req[r].actor].revision = @ + 1]

InsertCredential(r, i) == req[r].kind = "credential" /\ Insert(r, i) /\ UNCHANGED keys

InsertConfig(r, i) == req[r].kind = "config" /\ Insert(r, i) /\ UNCHANGED keys

InsertProfile(r, i) == req[r].kind = "profile" /\ Insert(r, i) /\ UNCHANGED keys

Unused == {i \in Ids : resources[i].kind = "none"}

CreateInsert(r) ==
  /\ req[r].pc = "create_insert"
  /\ \E i \in Unused : \/ InsertKnowledgeBase(r, i) \/ InsertCredential(r, i)
                       \/ InsertConfig(r, i) \/ InsertProfile(r, i)

\* A name is taken, or the identifiers of the bounded model are used up.
CreateConflict(r) == req[r].pc = "create_insert" /\ Refuse(r)

-----------------------------------------------------------------------------
(* PATCH and DELETE of a knowledge base *)

StartUpdate(r) ==
  \E a \in Issued, op \in {"update", "delete"} : \E i \in keys[a].scope :
    Start(r, [Idle EXCEPT !.op = op, !.actor = a, !.target = i,
                          !.etag = resources[i].revision])

UpdateActor(r) == \E op \in {"update", "delete"} : LockActor(r, op, "lock_kb")

\* get_scoped(for_update): the row is found only in the agent's scope.
LockKnowledgeBase(r) ==
  LET i == req[r].target
  IN /\ req[r].pc = "lock_kb"
     /\ IF i \in keys[req[r].actor].scope
        THEN Acquire(r, i) /\ Goto(r, "write_kb")
        ELSE UNCHANGED lock /\ Goto(r, "refuse")
     /\ UNCHANGED tables

WriteKnowledgeBase(r) ==
  LET i == req[r].target
      row == resources[i]
      current == row.revision = req[r].etag /\ row.status # "purged"
  IN /\ req[r].pc = "write_kb"
     /\ CASE ~current \/ (row.status = "deleting" /\ req[r].op = "update") -> Refuse(r)
          [] current /\ row.status = "deleting" /\ req[r].op = "delete" ->
               End(r, i) /\ UNCHANGED tables
          [] OTHER ->
               /\ resources' = [resources EXCEPT ![i].revision = @ + 1,
                    ![i].status = IF req[r].op = "delete" THEN "deleting" ELSE @]
               /\ End(r, i)
               /\ UNCHANGED <<keys, records, clock>>

\* The purge job deletes the scopes of the agent keys, which restrict it, and the
\* row in one transaction (_delete_children, _delete_rows).
Purge(i) ==
  /\ resources[i].kind = "knowledge_base" /\ resources[i].status = "deleting"
  /\ lock[i] = None
  /\ \A a \in Agents : lock[a] = None
  /\ resources' = [resources EXCEPT ![i].status = "purged"]
  /\ keys' = [a \in Actors |-> [keys[a] EXCEPT !.scope = @ \ {i}]]
  /\ UNCHANGED <<records, clock, lock, req>>

\* PATCH of a credential: a new name, a new secret.
StartUpdateCredential(r) ==
  \E m \in Admins, i \in Ids :
    /\ resources[i].kind = "credential"
    /\ Start(r, [Idle EXCEPT !.op = "rotate", !.actor = m, !.target = i,
                             !.etag = resources[i].revision])

RotateActor(r) == LockActor(r, "rotate", "lock_credential")

LockCredential(r) ==
  /\ req[r].pc = "lock_credential"
  /\ Acquire(r, req[r].target)
  /\ Goto(r, IF resources[req[r].target].revision = req[r].etag
             THEN "write_credential" ELSE "refuse")
  /\ UNCHANGED tables

WriteCredential(r) ==
  /\ req[r].pc = "write_credential"
  /\ resources' = [resources EXCEPT ![req[r].target].revision = @ + 1]
  /\ End(r, req[r].target)
  /\ UNCHANGED <<keys, records, clock>>

-----------------------------------------------------------------------------
(* Keys *)

ScopeArguments == SUBSET {i \in Ids : resources[i].kind \in {"knowledge_base", "none"}}

\* POST /api-keys by an administrator.
StartIssue(r) ==
  \E m \in Admins, a \in Agents, scope \in ScopeArguments :
    /\ keys[a].status = "absent"
    /\ Start(r, [Idle EXCEPT !.op = "issue", !.actor = m, !.target = a, !.scope = scope])

\* PATCH of the scope, or of the status or the capabilities alone, against the
\* revision and the scope the administrator last read; and the revocation.
StartUpdateKey(r) ==
  \E m \in Admins, a \in Agents :
    /\ keys[a].status # "absent"
    /\ \E command \in [op : {"grant"}, scope : ScopeArguments, kind : {"active"}]
                        \cup [op : {"alter"}, scope : {{}}, kind : {"active", "disabled", "unmanaged"}]
                        \cup [op : {"revoke"}, scope : {{}}, kind : {"revoked"}] :
         Start(r, [Idle EXCEPT !.op = command.op, !.actor = m, !.target = a,
                               !.scope = command.scope, !.kind = command.kind,
                               !.etag = keys[a].revision, !.stable = keys[a].scope])

IssueActor(r) == LockActor(r, "issue", "key_scopes")

KeyActor(r) == \E op \in {"grant", "alter", "revoke"} : LockActor(r, op, "key_lock")

LockAgentKey(r) ==
  LET a == req[r].target
      current == keys[a].revision = req[r].etag /\ keys[a].status # "revoked"
  IN /\ req[r].pc = "key_lock"
     /\ Acquire(r, a)
     /\ Goto(r, CASE ~current -> "refuse"
                  [] current /\ req[r].op = "grant" -> "key_scopes"
                  [] OTHER -> "key_write")
     /\ UNCHANGED tables

\* _validate_references locks the knowledge bases in one statement, which sees
\* the rows that are committed when it starts and locks them in the order of id.
FindScopes(r) ==
  /\ req[r].pc = "key_scopes"
  /\ req' = [req EXCEPT ![r].pc = "key_rows",
                        ![r].found = {i \in req[r].scope :
                                        /\ resources[i].kind = "knowledge_base"
                                        /\ resources[i].status # "purged"}]
  /\ UNCHANGED <<tables, lock>>

UnlockedScopes(r) == {i \in req[r].found : lock[i] # r /\ resources[i].status # "purged"}

Least(S) == CHOOSE x \in S : \A y \in S : x <= y

LockScopes(r) ==
  /\ req[r].pc = "key_rows"
  /\ UnlockedScopes(r) # {}
  /\ Acquire(r, Least(UnlockedScopes(r)))
  /\ UNCHANGED <<tables, req>>

ScopesChecked(r) ==
  /\ req[r].pc = "key_rows"
  /\ UnlockedScopes(r) = {}
  /\ Goto(r, IF \A i \in req[r].scope : i \in req[r].found /\ resources[i].status = "active"
             THEN "key_write" ELSE "refuse")
  /\ UNCHANGED <<tables, lock>>

IssueAgentKey(r) ==
  /\ req[r].pc = "key_write" /\ req[r].op = "issue"
  /\ IF keys[req[r].target].status # "absent" THEN Refuse(r)
     ELSE /\ keys' = [keys EXCEPT ![req[r].target] =
               [status |-> "active", manage |-> TRUE, scope |-> req[r].scope, revision |-> 1]]
          /\ End(r, req[r].target)
          /\ UNCHANGED <<resources, records, clock>>

UpdateAgentKey(r) ==
  LET row == keys[req[r].target]
  IN /\ req[r].pc = "key_write" /\ req[r].op \in {"grant", "alter"}
     /\ keys' = [keys EXCEPT ![req[r].target] =
          [status |-> IF req[r].kind = "unmanaged" THEN row.status ELSE req[r].kind,
           manage |-> row.manage /\ req[r].kind # "unmanaged",
           scope |-> IF req[r].op = "grant" THEN req[r].scope ELSE row.scope,
           revision |-> row.revision + 1]]
     /\ End(r, req[r].target)
     /\ UNCHANGED <<resources, records, clock>>

RevokeAgentKey(r) ==
  /\ req[r].pc = "key_write" /\ req[r].op = "revoke"
  /\ keys' = [keys EXCEPT ![req[r].target].status = "revoked", ![req[r].target].revision = @ + 1]
  /\ End(r, req[r].target)
  /\ UNCHANGED <<resources, records, clock>>

\* The command line revokes an administrator's key without an actor.
RevokeAdminKey(m) ==
  /\ lock[m] = None
  /\ keys[m].status # "revoked"
  /\ keys' = [keys EXCEPT ![m].status = "revoked", ![m].revision = @ + 1]
  /\ UNCHANGED <<resources, records, clock, lock, req>>

-----------------------------------------------------------------------------
(* Lists, page by page *)

StartList(r) ==
  \/ \E a \in Issued :
       Start(r, [Idle EXCEPT !.op = "list", !.actor = a, !.stable = Ids, !.kind = "knowledge_base"])
  \/ \E m \in Admins, kind \in AdminKinds :
       Start(r, [Idle EXCEPT !.op = "list", !.actor = m, !.stable = Ids, !.kind = kind])

\* list_scoped joins the live scope; what an administrator lists has none.
ListScoped(a) ==
  {i \in keys[a].scope : resources[i].status = "active"}

ListCredentials == {i \in Ids : resources[i].kind = "credential"}

ListProviderConfigs == {i \in Ids : resources[i].kind = "config"}

ListModelProfiles == {i \in Ids : resources[i].kind = "profile"}

Visible(r) ==
  CASE req[r].kind = "knowledge_base" -> ListScoped(req[r].actor)
    [] req[r].kind = "credential" -> ListCredentials
    [] req[r].kind = "config" -> ListProviderConfigs
    [] req[r].kind = "profile" -> ListModelProfiles

\* (created_at, id) > (cursor.created_at, cursor.id)
After(i, cursor) ==
  \/ cursor = None
  \/ resources[i].at > cursor[1]
  \/ resources[i].at = cursor[1] /\ i > cursor[2]

Ordered(i, j) ==
  resources[i].at < resources[j].at \/ (resources[i].at = resources[j].at /\ i <= j)

\* ORDER BY created_at, id LIMIT n
FirstRows(S, n) ==
  LET size == IF Cardinality(S) < n THEN Cardinality(S) ELSE n
  IN CHOOSE seq \in [1..size -> S] :
       /\ \A x, y \in 1..size : x < y => seq[x] # seq[y] /\ Ordered(seq[x], seq[y])
       /\ \A i \in S : (\E x \in 1..size : seq[x] = i) \/ \A x \in 1..size : Ordered(seq[x], i)

\* Mutant of NextCursor: the cursor names the extra row.
CursorAtExtraRow(rows, page) == <<resources[rows[Len(rows)]].at, rows[Len(rows)]>>

\* One row more than the page is fetched, to know whether there is another;
\* the cursor names the last row of the page.
NextCursor(rows, page) == <<resources[page[Len(page)]].at, page[Len(page)]>>

ListPage(r) ==
  LET rows == FirstRows({i \in Visible(r) : After(i, req[r].target)}, PageLimit + 1)
      more == Len(rows) > PageLimit
      page == SubSeq(rows, 1, IF more THEN PageLimit ELSE Len(rows))
  IN /\ req[r].pc = "list"
     /\ req' = [req EXCEPT ![r].listed = @ \o page,
                           ![r].stable = @ \cap Visible(r),
                           ![r].target = IF more THEN NextCursor(rows, page) ELSE None,
                           ![r].pc = IF more THEN "authenticate" ELSE "done"]
     /\ UNCHANGED <<tables, lock>>

-----------------------------------------------------------------------------
\* The row the next step of a request waits for, or None.
Wanted(r) ==
  LET pc == req[r].pc
  IN CASE pc \in {"create_actor", "create_found", "create_look", "update", "delete",
                  "rotate", "issue", "grant", "alter", "revoke"} -> req[r].actor
       [] pc \in {"lock_kb", "key_lock", "lock_credential", "create_reference"} -> req[r].target
       [] pc = "key_rows" /\ UnlockedScopes(r) # {} -> Least(UnlockedScopes(r))
       [] OTHER -> None

Circle(S) ==
  S # {} /\ \A r \in S : Wanted(r) # None /\ lock[Wanted(r)] \in S \ {r}

Begins(r) ==
  \/ StartCreate(r) \/ StartUpdate(r) \/ StartUpdateCredential(r) \/ StartIssue(r)
  \/ StartUpdateKey(r) \/ StartList(r)

Progress(r) ==
  \/ Authenticate(r) \/ MaterializePrincipal(r) \/ RefuseLocked(r)
  \/ LookUpKnowledgeBase(r) \/ LookUpCredential(r) \/ LookUpConfig(r)
  \/ BeginProfile(r) \/ LookOnly(r) \/ ResolveProvider(r) \/ FoundActor(r) \/ CreateReplay(r)
  \/ CreateActor(r) \/ CheckWinner(r) \/ LockReference(r)
  \/ CreateInsert(r) \/ CreateConflict(r)
  \/ UpdateActor(r) \/ LockKnowledgeBase(r) \/ WriteKnowledgeBase(r)
  \/ RotateActor(r) \/ LockCredential(r) \/ WriteCredential(r)
  \/ IssueActor(r) \/ KeyActor(r) \/ LockAgentKey(r) \/ FindScopes(r) \/ LockScopes(r)
  \/ ScopesChecked(r) \/ IssueAgentKey(r) \/ UpdateAgentKey(r) \/ RevokeAgentKey(r)
  \/ ListPage(r)

Next ==
  \/ \E r \in Requests : Begins(r) \/ Progress(r)
  \/ \E i \in Ids : Purge(i)
  \/ \E m \in Admins : RevokeAdminKey(m)

Spec == Init /\ [][Next]_vars

-----------------------------------------------------------------------------
(* Properties *)

\* Scopes name knowledge bases, records name the resource they created, locks
\* belong to running requests.
TypeOK ==
  /\ \A a \in Actors : /\ keys[a].status \in {"absent", "active", "disabled", "revoked"}
                       /\ \A i \in keys[a].scope : resources[i].kind = "knowledge_base"
  /\ \A rec \in records : resources[rec.id].kind = rec.kind
  /\ lock \in [Rows -> Requests \cup {None}]
  /\ \A row \in Rows : lock[row] # None => req[lock[row]].pc \notin {"idle", "done"}

\* Requests that repeat an idempotency key create one resource between them,
\* and whoever is answered is answered with it (create_knowledge_base,
\* create_credential, create_provider_config, create_model_profile).
CreatedOnce ==
  /\ \A x, y \in records : x.actor = y.actor /\ x.kind = y.kind /\ x.key = y.key => x = y
  /\ \A r, s \in Requests :
       /\ req[r].key # None /\ req[s].key # None
       /\ req[r].result \in Ids /\ req[s].result \in Ids
       /\ req[r].actor = req[s].actor /\ req[r].kind = req[s].kind
       /\ req[r].key = req[s].key
       => req[r].result = req[s].result /\ req[r].fingerprint = req[s].fingerprint

\* Whatever a request commits, its key is active at that moment, an agent's
\* still holds manage and still has the knowledge base in its scope, though
\* all of that was read long before, when it authenticated.
CommitsAreAuthorized ==
  [][ \A r \in Requests :
        /\ req[r].pc # "done" /\ req'[r].pc = "done"
        /\ <<resources, records, keys>>' # <<resources, records, keys>>
        => /\ keys[req[r].actor].status = "active"
           /\ req[r].actor \in Agents => keys[req[r].actor].manage
           /\ req[r].op \in {"update", "delete"} =>
                req[r].target \in keys[req[r].actor].scope ]_vars

\* A PATCH that replaces an agent's scope removes no knowledge base its
\* administrator had not seen there: creating one raises the key's revision.
GrantsLoseNothingUnseen ==
  [][ \A r \in Requests :
        req[r].op = "grant" /\ req[r].pc = "key_write" /\ req'[r].pc = "done" =>
          keys[req[r].target].scope \ req[r].scope \subseteq req[r].stable ]_vars

\* A scope is only ever granted on knowledge bases that are not being deleted
\* when the grant commits (update_agent_key against delete_knowledge_base).
GrantsNameUsable ==
  [][ \A r \in Requests :
        req[r].pc = "key_write" /\ req'[r].pc = "done" /\ req'[r].result # Refused =>
          \A i \in req[r].scope : resources[i].status = "active" ]_vars

\* A revoked key stays revoked: no PATCH that was under way reactivates it.
RevokedForGood ==
  [][ \A a \in Actors : keys[a].status = "revoked" => keys'[a].status = "revoked" ]_vars

\* What an administrator grants or withdraws is what stays: nothing unseen is
\* lost, nothing unusable is granted, nothing revoked returns.
GrantsSound == GrantsLoseNothingUnseen /\ GrantsNameUsable /\ RevokedForGood

\* Requests of this module never wait for each other in a circle.
NoDeadlock == \A S \in SUBSET Requests : ~Circle(S)

\* Requests that race for one key, one name or one row get one answer and never
\* block each other for good.
RequestsConsistent == TypeOK /\ CreatedOnce /\ NoDeadlock

\* Paging through the knowledge bases returns none twice, and every one that
\* was visible on each page request, whatever is created, deleted, granted or
\* withdrawn between the pages.
ListedExactlyOnce ==
  \A r \in Requests :
    req[r].op = "list" =>
      /\ \A x, y \in 1..Len(req[r].listed) : x # y => req[r].listed[x] # req[r].listed[y]
      /\ req[r].pc = "done" /\ req[r].result = None =>
           \A i \in req[r].stable : \E x \in 1..Len(req[r].listed) : req[r].listed[x] = i
================================================================================
