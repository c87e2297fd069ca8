------------------------- MODULE ProviderConfiguration -------------------------
(***************************************************************************)
(* The administration of provider configurations and model profiles        *)
(* (providers/services.py) against the two readers that depend on them:    *)
(* the creation of an index generation (indexing/generation_services.py),  *)
(* which copies the embedding configuration into the generation, and the   *)
(* reservation of a repair (indexing/repair.py), which demands that the    *)
(* copy still agrees with the live rows.                                   *)
(*                                                                         *)
(* Every request is a process.  A PostgreSQL transaction under READ        *)
(* COMMITTED is a sequence of steps: each row locked with FOR UPDATE is a  *)
(* step that waits for the row, a plain SELECT reads the committed value,  *)
(* and the last step writes, commits and releases.  Requests that wait for *)
(* each other in a circle are broken by the server, which aborts one.      *)
(***************************************************************************)
EXTENDS Integers, FiniteSets

CONSTANTS
  Requests,        \* the requests in flight, one command each
  Admins,          \* rows of api_keys with key_type = 'admin'
  Creds,           \* rows of provider_credentials
  Configs,         \* rows of provider_configs
  Profiles,        \* rows of model_profiles, created or not yet
  Generations,     \* rows of knowledge_base_index_generations, created or not
  ConfigPatches,   \* the bodies of PATCH /provider-configs/{id}
  ProfilePatches,  \* the bodies of PATCH /model-profiles/{id}
  AdminOf,         \* AdminOf[r]: the administrator who sends request r
  NewProfile,      \* the body of POST /model-profiles, less its provider
  InitConfigs, InitProfiles, InitGenerations,
  None

ASSUME RowsAreOrdered ==
  /\ Admins \cup Creds \cup Configs \cup Profiles \cup Generations \subseteq Nat
  /\ Admins \cap (Creds \cup Configs \cup Profiles \cup Generations) = {}
  /\ Creds \cap (Configs \cup Profiles \cup Generations) = {}
  /\ Configs \cap (Profiles \cup Generations) = {}
  /\ Profiles \cap Generations = {}

ASSUME RequestsAssumption == IsFiniteSet(Requests)

ASSUME NoneAssumption == None \notin Requests \cup Creds \cup Profiles

ASSUME AdminOfAssumption == AdminOf \in [Requests -> Admins]

Rows == Admins \cup Creds \cup Configs \cup Profiles

\* The columns of the rows that a request reads or writes.
ConfigRow ==
  [name : STRING, type : {"openai_compatible", "openrouter", "vendor_specific"},
   url : Int, routing : BOOLEAN, enabled : BOOLEAN,
   credential : Creds \cup {None}, revision : Nat]

ProfileRow ==
  [provider : Configs, model : Int, enabled : BOOLEAN, revision : Nat]

\* A body names columns of its row and gives them values of the row's types; a
\* credential can be replaced and not removed.
ASSUME BodiesAssumption ==
  /\ \A patch \in ConfigPatches :
       /\ DOMAIN patch \subseteq {"name", "type", "url", "routing", "enabled", "credential"}
       /\ "name" \in DOMAIN patch => patch.name \in STRING
       /\ "type" \in DOMAIN patch =>
            patch.type \in {"openai_compatible", "openrouter", "vendor_specific"}
       /\ "url" \in DOMAIN patch => patch.url \in Int
       /\ "routing" \in DOMAIN patch => patch.routing \in BOOLEAN
       /\ "enabled" \in DOMAIN patch => patch.enabled \in BOOLEAN
       /\ "credential" \in DOMAIN patch => patch.credential \in Creds
  /\ \A patch \in ProfilePatches :
       /\ DOMAIN patch \subseteq {"provider", "model", "enabled"}
       /\ "provider" \in DOMAIN patch => patch.provider \in Configs
       /\ "model" \in DOMAIN patch => patch.model \in Int
       /\ "enabled" \in DOMAIN patch => patch.enabled \in BOOLEAN
  /\ NewProfile.model \in Int /\ NewProfile.enabled \in BOOLEAN

\* A generation that is there at the start was built from rows that are there.
ASSUME InitAssumption ==
  /\ InitConfigs \subseteq [Configs -> ConfigRow]
  /\ InitProfiles \subseteq [Profiles -> ProfileRow]
  /\ InitGenerations \subseteq [Generations -> Profiles \cup {None}]
  /\ \A cs \in InitConfigs, ps \in InitProfiles, gs \in InitGenerations :
       \A g \in Generations :
         gs[g] # None => /\ ps[gs[g]].revision > 0
                         /\ cs[ps[gs[g]].provider].credential # None

VARIABLES
  keys,         \* keys[a]: "active" or "revoked"
  configs,      \* the committed configuration rows
  profiles,     \* the committed profile rows; resource_revision 0: not created
  generations,  \* the committed generation rows
  lock,         \* lock[row]: the request holding the row FOR UPDATE, or None
  req           \* req[r]: the command, its progress and what it remembers

vars == <<keys, configs, profiles, generations, lock, req>>

\* seen is the id or url that a PATCH or POST remembers between its steps; source
\* and loaded are the profile a generation is made from and what was read of it.
Idle == [op |-> "none", pc |-> "idle", admin |-> None, target |-> None,
         patch |-> None, etag |-> 0, seen |-> None, source |-> None,
         loaded |-> None, result |-> "none"]

\* The fields of a generation's embedding snapshot: the semantic document of
\* build_embedding_configuration, with the provider and credential it names.
Snapshot(profile, config, credential) ==
  [provider |-> profile.provider, model |-> profile.model,
   type |-> config.type, url |-> config.url, routing |-> config.routing,
   credential |-> credential]

CurrentSnapshot(g) ==
  LET p == profiles[generations[g].profile]
  IN Snapshot(p, configs[p.provider], generations[g].snapshot.credential)

Init ==
  /\ keys = [a \in Admins |-> "active"]
  /\ configs \in InitConfigs
  /\ profiles \in InitProfiles
  /\ \E started \in InitGenerations :
       generations =
         [g \in Generations |->
           IF started[g] = None
           THEN [status |-> "absent", profile |-> None, snapshot |-> None]
           ELSE LET p == profiles[started[g]]
                    c == configs[p.provider]
                IN [status |-> "active", profile |-> started[g],
                    snapshot |-> Snapshot(p, c, c.credential)]]
  /\ lock = [row \in Rows |-> None]
  /\ req = [r \in Requests |-> Idle]

-----------------------------------------------------------------------------
(* Transactions *)

Acquire(r, row) ==
  /\ lock[row] \in {None, r}
  /\ lock' = [lock EXCEPT ![row] = r]

Released(r) == [row \in Rows |-> IF lock[row] = r THEN None ELSE lock[row]]

Goto(r, pc) == req' = [req EXCEPT ![r].pc = pc]

\* The transaction ends: every row it locked is released.
End(r, result) ==
  /\ lock' = Released(r)
  /\ req' = [req EXCEPT ![r].pc = "done", ![r].result = result]

\* A BusinessError inside "async with session.begin()" rolls back.
Refuse(r) ==
  /\ End(r, "refused")
  /\ UNCHANGED <<keys, configs, profiles, generations>>

AdminActive(r) == keys[req[r].admin] = "active"

\* _require_admin_actor: the actor's own key row, locked, must be active.
RequireAdminActor(r, pc) ==
  /\ Acquire(r, req[r].admin)
  /\ AdminActive(r)
  /\ Goto(r, pc)
  /\ UNCHANGED <<keys, configs, profiles, generations>>

RefuseRevokedActor(r) ==
  /\ req[r].pc \in {"config_read", "config_actor", "profile_actor", "create_actor"}
  /\ lock[req[r].admin] \in {None, r}
  /\ ~AdminActive(r)
  /\ Refuse(r)

\* revoke_admin_key, by an administrator outside the modelled requests.
RevokeAdminKey(a) ==
  /\ lock[a] = None
  /\ keys[a] = "active"
  /\ keys' = [keys EXCEPT ![a] = "revoked"]
  /\ UNCHANGED <<configs, profiles, generations, lock, req>>

-----------------------------------------------------------------------------
(* PATCH /provider-configs/{id}: two transactions around a DNS validation *)

Patched(row, patch) ==
  [f \in DOMAIN row |-> IF f \in DOMAIN patch THEN patch[f] ELSE row[f]]

SemanticFields == {"type", "url", "routing"}

ProviderSemanticsChanged(row, patch) ==
  \E f \in SemanticFields \cap DOMAIN patch : patch[f] # row[f]

\* The combinations of provider type and routing options that are refused.
ShapeRefused(row, patch) ==
  IF row.type = "vendor_specific"
  THEN patch # [enabled |-> FALSE]
  ELSE LET new == Patched(row, patch)
       IN \/ new.type = "vendor_specific"
          \/ new.type = "openai_compatible" /\ new.routing

MigratingLegacy(row, patch) == row.credential = None /\ "credential" \in DOMAIN patch

LegacyRefused(row, patch) ==
  row.credential = None /\ "url" \in DOMAIN patch /\ ~MigratingLegacy(row, patch)

RevalidateEndpoint(row, patch) ==
  \/ "url" \in DOMAIN patch /\ patch.url # row.url
  \/ MigratingLegacy(row, patch)

IsReferencedByGeneration(p) == \E g \in Generations : generations[g].profile = p

ProfilesOf(c) == {p \in Profiles : profiles[p].revision > 0 /\ profiles[p].provider = c}

ProviderConfigIsReferencedByGeneration(c) ==
  \E p \in ProfilesOf(c) : IsReferencedByGeneration(p)

\* The ETag a client read with GET before it sends its PATCH.
GetProviderConfig(c) == configs[c].revision

GetModelProfile(p) == profiles[p].revision

StartUpdateConfig(r) ==
  /\ req[r].pc = "idle"
  /\ \E c \in Configs, patch \in ConfigPatches :
       req' = [req EXCEPT ![r] =
                [Idle EXCEPT !.op = "update_config", !.pc = "config_read",
                             !.admin = AdminOf[r], !.target = c, !.patch = patch,
                             !.etag = GetProviderConfig(c)]]
  /\ UNCHANGED <<keys, configs, profiles, generations, lock>>

\* The first transaction only reads; it locks nothing but the actor's key.
ReadConfig(r) ==
  LET c == req[r].target
      row == configs[c]
      patch == req[r].patch
      refused == \/ row.revision # req[r].etag
                 \/ ShapeRefused(row, patch)
                 \/ /\ ProviderSemanticsChanged(row, patch)
                    /\ ProviderConfigIsReferencedByGeneration(c)
                 \/ LegacyRefused(row, patch)
  IN /\ req[r].pc = "config_read"
     /\ lock[req[r].admin] = None
     /\ AdminActive(r)
     /\ IF refused THEN Refuse(r)
        ELSE /\ req' = IF RevalidateEndpoint(row, patch)
                       THEN [req EXCEPT ![r].pc = "config_resolve",
                                        ![r].seen = Patched(row, patch).url]
                       ELSE [req EXCEPT ![r].pc = "config_actor"]
             /\ UNCHANGED <<keys, configs, profiles, generations, lock>>

\* _validate_for_persistence: the name is resolved, outside any transaction,
\* and the addresses may be refused.
ResolveEndpoint(r) ==
  /\ req[r].pc = "config_resolve"
  /\ Goto(r, "config_actor") \/ Goto(r, "refuse")
  /\ UNCHANGED <<keys, configs, profiles, generations, lock>>

ConfigActor(r) == req[r].pc = "config_actor" /\ RequireAdminActor(r, "config_lock")

\* Mutant of LockConfig: nothing is tested again.
LockConfigUnverified(r) ==
  LET row == configs[req[r].target]
  IN /\ req[r].pc = "config_lock"
     /\ Acquire(r, req[r].target)
     /\ Goto(r, IF ProviderSemanticsChanged(row, req[r].patch)
                THEN "config_profiles" ELSE "config_credential")
     /\ UNCHANGED <<keys, configs, profiles, generations>>

\* Second transaction: the row is locked and every condition is tested again.
LockConfig(r) ==
  LET c == req[r].target
      row == configs[c]
      patch == req[r].patch
  IN /\ req[r].pc = "config_lock"
     /\ Acquire(r, c)
     /\ IF row.revision # req[r].etag \/ ShapeRefused(row, patch)
        THEN Goto(r, "refuse")
        ELSE Goto(r, IF ProviderSemanticsChanged(row, patch)
                     THEN "config_profiles" ELSE "config_credential")
     /\ UNCHANGED <<keys, configs, profiles, generations>>

\* Mutant of UnlockedProfiles: no profile is locked.
LockProfilesNever(r) == {}

\* The profiles of the configuration still to be locked, in the order of id.
UnlockedProfiles(r) == {p \in ProfilesOf(req[r].target) : lock[p] # r}

Least(S) == CHOOSE x \in S : \A y \in S : x <= y

LockProfilesOfConfig(r) ==
  /\ req[r].pc = "config_profiles"
  /\ UnlockedProfiles(r) # {}
  /\ Acquire(r, Least(UnlockedProfiles(r)))
  /\ UNCHANGED <<keys, configs, profiles, generations, req>>

CheckFrozenConfig(r) ==
  /\ req[r].pc = "config_profiles"
  /\ UnlockedProfiles(r) = {}
  /\ Goto(r, IF ProviderConfigIsReferencedByGeneration(req[r].target)
             THEN "refuse" ELSE "config_credential")
  /\ UNCHANGED <<keys, configs, profiles, generations, lock>>

LockCredential(r) ==
  /\ req[r].pc = "config_credential"
  /\ IF "credential" \in DOMAIN req[r].patch
     THEN Acquire(r, req[r].patch.credential) ELSE UNCHANGED lock
  /\ Goto(r, "config_write")
  /\ UNCHANGED <<keys, configs, profiles, generations>>

NameTaken(c, patch) ==
  "name" \in DOMAIN patch /\ \E d \in Configs \ {c} : configs[d].name = patch.name

\* update_validated with the audit event; a taken name is an IntegrityError.
WriteConfig(r) ==
  LET c == req[r].target
      row == configs[c]
      patch == req[r].patch
      refused == \/ LegacyRefused(row, patch)
                 \/ /\ RevalidateEndpoint(row, patch)
                    /\ req[r].seen # Patched(row, patch).url
                 \/ NameTaken(c, patch)
  IN /\ req[r].pc = "config_write"
     /\ IF refused THEN Refuse(r)
        ELSE /\ configs' = [configs EXCEPT ![c] =
                             [Patched(row, patch) EXCEPT !.revision = row.revision + 1]]
             /\ End(r, "ok")
             /\ UNCHANGED <<keys, profiles, generations>>

RefuseLocked(r) == req[r].pc = "refuse" /\ Refuse(r)

-----------------------------------------------------------------------------
(* PATCH /model-profiles/{id} *)

StartUpdateProfile(r) ==
  /\ req[r].pc = "idle"
  /\ \E p \in {x \in Profiles : profiles[x].revision > 0},
        patch \in ProfilePatches :
       req' = [req EXCEPT ![r] =
                [Idle EXCEPT !.op = "update_profile", !.pc = "profile_actor",
                             !.admin = AdminOf[r], !.target = p, !.patch = patch,
                             !.etag = GetModelProfile(p)]]
  /\ UNCHANGED <<keys, configs, profiles, generations, lock>>

\* The actor is locked and the row read without a lock, to learn which
\* configurations to lock before the profile itself.
ReadProfile(r) ==
  /\ req[r].pc = "profile_actor"
  /\ Acquire(r, req[r].admin)
  /\ AdminActive(r)
  /\ req' = [req EXCEPT ![r].pc = "profile_configs",
                        ![r].seen = profiles[req[r].target].provider]
  /\ UNCHANGED <<keys, configs, profiles, generations>>

ConfigsToLock(r) ==
  {req[r].seen} \cup
  (IF "provider" \in DOMAIN req[r].patch THEN {req[r].patch.provider} ELSE {})

UnlockedConfigs(r) == {c \in ConfigsToLock(r) : lock[c] # r}

\* Mutant of NextConfigToLock: the current provider before the new one.
CurrentProviderFirst(r) ==
  IF lock[req[r].seen] # r THEN req[r].seen ELSE Least(UnlockedConfigs(r))

\* sorted(provider_ids): configurations are locked in the order of id.
NextConfigToLock(r) == Least(UnlockedConfigs(r))

LockConfigsOfProfile(r) ==
  /\ req[r].pc = "profile_configs"
  /\ UnlockedConfigs(r) # {}
  /\ Acquire(r, NextConfigToLock(r))
  /\ UNCHANGED <<keys, configs, profiles, generations, req>>

LockProfile(r) ==
  /\ req[r].pc = "profile_configs"
  /\ UnlockedConfigs(r) = {}
  /\ Acquire(r, req[r].target)
  /\ Goto(r, "profile_write")
  /\ UNCHANGED <<keys, configs, profiles, generations>>

ProfileSemanticsChanged(row, patch) ==
  \E f \in {"provider", "model"} \cap DOMAIN patch : patch[f] # row[f]

\* _require_profile_provider
ProviderUsable(c) == configs[c].type # "vendor_specific" /\ configs[c].enabled

WriteProfile(r) ==
  LET p == req[r].target
      row == profiles[p]
      patch == req[r].patch
      new == Patched(row, patch)
      enabling == new.enabled /\ ~row.enabled
      refused == \/ row.revision # req[r].etag
                 \/ row.provider # req[r].seen
                 \/ ProfileSemanticsChanged(row, patch) /\ IsReferencedByGeneration(p)
                 \/ /\ new.provider # row.provider \/ enabling
                    /\ ~ProviderUsable(new.provider)
  IN /\ req[r].pc = "profile_write"
     /\ IF refused THEN Refuse(r)
        ELSE /\ profiles' = [profiles EXCEPT ![p] =
                              [new EXCEPT !.revision = row.revision + 1]]
             /\ End(r, "ok")
             /\ UNCHANGED <<keys, configs, generations>>

-----------------------------------------------------------------------------
(* POST /model-profiles *)

StartCreateProfile(r) ==
  /\ req[r].pc = "idle"
  /\ \E c \in Configs, p \in {x \in Profiles : profiles[x].revision = 0} :
       /\ \A s \in Requests : req[s].op = "create_profile" => req[s].target # p
       /\ req' = [req EXCEPT ![r] =
                   [Idle EXCEPT !.op = "create_profile", !.pc = "create_actor",
                                !.admin = AdminOf[r], !.target = p, !.seen = c]]
  /\ UNCHANGED <<keys, configs, profiles, generations, lock>>

CreateActor(r) == req[r].pc = "create_actor" /\ RequireAdminActor(r, "create_write")

WriteNewProfile(r) ==
  LET c == req[r].seen
  IN /\ req[r].pc = "create_write"
     /\ lock[c] \in {None, r}
     /\ IF ~ProviderUsable(c) THEN Refuse(r)
        ELSE /\ profiles' = [profiles EXCEPT ![req[r].target] =
                              [provider |-> c, model |-> NewProfile.model,
                               enabled |-> NewProfile.enabled, revision |-> 1]]
             /\ End(r, "ok")
             /\ UNCHANGED <<keys, configs, generations>>

-----------------------------------------------------------------------------
(* POST /index-generations: reads without locks, reserves, reads again *)

StartCreateGeneration(r) ==
  /\ req[r].pc = "idle"
  /\ \E g \in Generations :
       /\ \A s \in Requests : req[s].target = g => req[s].pc = "done"
       /\ \/ /\ generations[g].status = "absent"
             /\ \E p \in {x \in Profiles : profiles[x].revision > 0} :
                  req' = [req EXCEPT ![r] =
                           [Idle EXCEPT !.op = "create_generation", !.target = g,
                                        !.pc = "source_profile", !.source = p]]
          \* a repeated request finds its own reservation
          \/ /\ generations[g].status = "building"
             /\ req' = [req EXCEPT ![r] =
                         [Idle EXCEPT !.op = "create_generation", !.target = g,
                                      !.pc = "reload", !.source = generations[g].profile]]
  /\ UNCHANGED <<keys, configs, profiles, generations, lock>>

\* load_embedding_source: the profile, then its provider, two plain reads.
LoadProfile(r) ==
  /\ req[r].pc \in {"source_profile", "reload"}
  /\ req' = [req EXCEPT ![r].loaded = profiles[req[r].source],
                        ![r].pc = IF @ = "reload" THEN "reload_provider"
                                  ELSE "source_provider"]
  /\ UNCHANGED <<keys, configs, profiles, generations, lock>>

LoadProvider(r) ==
  LET p == req[r].loaded
      c == configs[p.provider]
  IN /\ req[r].pc = "source_provider"
     /\ IF p.enabled /\ c.enabled /\ c.credential # None
        THEN /\ req' = [req EXCEPT ![r].pc = "reserve",
                                   ![r].loaded = Snapshot(p, c, c.credential)]
             /\ UNCHANGED <<keys, configs, profiles, generations, lock>>
        ELSE Refuse(r)

\* add_generation: the foreign key takes KEY SHARE on the profile row, which
\* waits for a FOR UPDATE holder.
ReserveGeneration(r) ==
  LET g == req[r].target
      p == req[r].source
  IN /\ req[r].pc = "reserve"
     /\ lock[p] = None
     /\ generations' = [generations EXCEPT ![g] =
                         [status |-> "building", profile |-> p, snapshot |-> req[r].loaded]]
     /\ Goto(r, "reload")
     /\ UNCHANGED <<keys, configs, profiles, lock>>

\* _reload_current_embedding: a drifted configuration fails the generation.
CheckDrift(r) ==
  LET g == req[r].target
      p == req[r].loaded
      current == Snapshot(p, configs[p.provider], generations[g].snapshot.credential)
  IN /\ req[r].pc = "reload_provider"
     /\ IF current = generations[g].snapshot
        THEN Goto(r, "activate") /\ UNCHANGED <<generations, lock>>
        ELSE /\ generations' = [generations EXCEPT ![g].status = "failed"]
             /\ End(r, "refused")
     /\ UNCHANGED <<keys, configs, profiles>>

\* The embedding probe between the two may fail for now (the caller retries)
\* or for good; otherwise the generation is activated.
ActivateGeneration(r) ==
  LET g == req[r].target
  IN /\ req[r].pc = "activate"
     /\ \/ generations' = [generations EXCEPT ![g].status = "active"] /\ End(r, "ok")
        \/ generations' = [generations EXCEPT ![g].status = "failed"] /\ End(r, "refused")
        \/ UNCHANGED generations /\ End(r, "refused")
     /\ UNCHANGED <<keys, configs, profiles>>

-----------------------------------------------------------------------------
(* POST /index-generations/{id}/repair: locks the profile, then its provider *)

StartRepair(r) ==
  /\ req[r].pc = "idle"
  /\ \E g \in Generations :
       /\ generations[g].status = "active"
       /\ req' = [req EXCEPT ![r] = [Idle EXCEPT !.op = "repair", !.target = g,
                                                 !.pc = "repair_profile"]]
  /\ UNCHANGED <<keys, configs, profiles, generations, lock>>

LockRepairProfile(r) ==
  /\ req[r].pc = "repair_profile"
  /\ Acquire(r, generations[req[r].target].profile)
  /\ Goto(r, "repair_provider")
  /\ UNCHANGED <<keys, configs, profiles, generations>>

LockRepairProvider(r) ==
  /\ req[r].pc = "repair_provider"
  /\ Acquire(r, profiles[generations[req[r].target].profile].provider)
  /\ Goto(r, "repair_credential")
  /\ UNCHANGED <<keys, configs, profiles, generations>>

LockRepairCredential(r) ==
  /\ req[r].pc = "repair_credential"
  /\ Acquire(r, generations[req[r].target].snapshot.credential)
  /\ Goto(r, "repair_compare")
  /\ UNCHANGED <<keys, configs, profiles, generations>>

CompareConfiguration(r) ==
  /\ req[r].pc = "repair_compare"
  /\ End(r, IF CurrentSnapshot(req[r].target) = generations[req[r].target].snapshot
            THEN "ok" ELSE "refused")
  /\ UNCHANGED <<keys, configs, profiles, generations>>

-----------------------------------------------------------------------------
(* The database server *)

\* The row a request's next step must obtain, or None.
Wanted(r) ==
  LET pc == req[r].pc
  IN CASE pc \in {"config_read", "config_actor", "profile_actor", "create_actor"} ->
            req[r].admin
       [] pc = "config_lock" -> req[r].target
       [] pc = "config_profiles" /\ UnlockedProfiles(r) # {} -> Least(UnlockedProfiles(r))
       [] pc = "config_credential" /\ "credential" \in DOMAIN req[r].patch ->
            req[r].patch.credential
       [] pc = "profile_configs" ->
            IF UnlockedConfigs(r) # {} THEN NextConfigToLock(r) ELSE req[r].target
       [] pc = "create_write" -> req[r].seen
       [] pc = "reserve" -> req[r].source
       [] pc = "repair_profile" -> generations[req[r].target].profile
       [] pc = "repair_provider" -> profiles[generations[req[r].target].profile].provider
       [] pc = "repair_credential" -> generations[req[r].target].snapshot.credential
       [] OTHER -> None

WaitsFor(r, s) == r # s /\ Wanted(r) # None /\ lock[Wanted(r)] = s

\* A set of requests each waiting for another of the set.
Circle(S) == S # {} /\ \A r \in S : \E s \in S : WaitsFor(r, s)

\* PostgreSQL's deadlock detector ends one transaction of a circle.
BreakDeadlock(r) ==
  /\ \E S \in SUBSET Requests : r \in S /\ Circle(S)
  /\ End(r, "aborted")
  /\ UNCHANGED <<keys, configs, profiles, generations>>

-----------------------------------------------------------------------------
Progress(r) ==
  \/ RefuseRevokedActor(r)
  \/ ReadConfig(r) \/ ResolveEndpoint(r) \/ ConfigActor(r) \/ LockConfig(r)
  \/ LockProfilesOfConfig(r) \/ CheckFrozenConfig(r) \/ LockCredential(r)
  \/ WriteConfig(r) \/ RefuseLocked(r)
  \/ ReadProfile(r) \/ LockConfigsOfProfile(r) \/ LockProfile(r) \/ WriteProfile(r)
  \/ CreateActor(r) \/ WriteNewProfile(r)
  \/ LoadProfile(r) \/ LoadProvider(r) \/ ReserveGeneration(r) \/ CheckDrift(r)
  \/ ActivateGeneration(r)
  \/ LockRepairProfile(r) \/ LockRepairProvider(r) \/ LockRepairCredential(r)
  \/ CompareConfiguration(r)
  \/ BreakDeadlock(r)

Start(r) ==
  \/ StartUpdateConfig(r) \/ StartUpdateProfile(r) \/ StartCreateProfile(r)
  \/ StartCreateGeneration(r) \/ StartRepair(r)

Next ==
  \/ \E r \in Requests : Start(r) \/ Progress(r)
  \/ \E a \in Admins : RevokeAdminKey(a)

Spec == Init /\ [][Next]_vars

\* Every request is an HTTP handler the event loop keeps running, and a lock
\* is granted once its holder ends.
FairSpec == Spec /\ \A r \in Requests : WF_vars(Progress(r))
-----------------------------------------------------------------------------
(* Properties *)

\* Rows keep their columns, and a lock is held only by a running request.
TypeOK ==
  /\ keys \in [Admins -> {"active", "revoked"}]
  /\ configs \in [Configs -> ConfigRow]
  /\ profiles \in [Profiles -> ProfileRow]
  /\ \A g \in Generations :
       generations[g].status \in {"absent", "building", "active", "failed"}
  /\ lock \in [Rows -> Requests \cup {None}]
  /\ \A row \in Rows : lock[row] # None => req[lock[row]].pc \notin {"idle", "done"}

\* The copy of the embedding configuration an active generation was built from
\* agrees with the live profile and provider rows: no PATCH slips in between
\* the copy, the reservation and the activation (IMMUTABLE_INDEX_CONFIGURATION,
\* providers/services.py update_provider_config and update_model_profile,
\* against generation_services.py create).
ActiveConfigurationFrozen ==
  \A g \in Generations :
    generations[g].status = "active" => CurrentSnapshot(g) = generations[g].snapshot

\* A repair of an active generation is never refused for a changed embedding
\* configuration (repair.py _embedding_configuration).
RepairNeverConflicts ==
  \A r \in Requests : req[r].op = "repair" => req[r].result # "refused"

\* What an index was built with does not change under it, and a repair finds it
\* as it was.
ConfigurationFrozen == TypeOK /\ ActiveConfigurationFrozen /\ RepairNeverConflicts

\* PATCH and POST requests lock key, configuration, profile and credential rows
\* in one order, so a circle of waiting transactions always contains a repair,
\* which locks the profile before its provider (repair.py:548).
PatchesShareLockOrder ==
  [][\A S \in SUBSET Requests : Circle(S)' => \E r \in S : req'[r].op = "repair"]_vars

\* A PATCH that succeeds replaces exactly the revision its If-Match named, and
\* its administrator's key is still active when it commits, whatever was
\* committed or revoked while it resolved names and waited for rows.
CommittedPatchesAreCurrent ==
  [][ \A r \in Requests :
        req[r].result = "none" /\ req'[r].result = "ok" =>
          CASE req[r].op = "update_config" ->
                 /\ configs[req[r].target].revision = req[r].etag
                 /\ keys[req[r].admin] = "active"
            [] req[r].op = "update_profile" ->
                 /\ profiles[req[r].target].revision = req[r].etag
                 /\ keys[req[r].admin] = "active"
            [] req[r].op = "create_profile" -> keys[req[r].admin] = "active"
            [] OTHER -> TRUE ]_vars

\* Every request that was started ends, and gives back the rows it locked.
EveryRequestEnds ==
  \A r \in Requests : (req[r].pc # "idle") ~> (req[r].pc = "done")

\* Row locks are resolved: only a repair can close a circle, which PostgreSQL
\* then breaks, and everybody gets an answer.
LocksResolve == PatchesShareLockOrder /\ EveryRequestEnds
================================================================================
