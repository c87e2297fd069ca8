---------------------- MODULE ProviderConfigurationProofs ----------------------
(***************************************************************************)
(* Proofs about the administration of providers, for any number of         *)
(* requests, administrators and rows and whatever bodies the clients send. *)
(***************************************************************************)
EXTENDS ProviderConfiguration, FiniteSetTheorems, WellFoundedInduction, TLAPS

USE RowsAreOrdered, NoneAssumption, AdminOfAssumption

SnapshotRow ==
  [provider : Configs, model : Int, type : {"openai_compatible", "openrouter", "vendor_specific"},
   url : Int, routing : BOOLEAN, credential : Creds]

GenerationRow ==
  [status : {"absent", "building", "active", "failed"}, profile : Profiles \cup {None},
   snapshot : SnapshotRow \cup {None}]

ConfigSteps ==
  {"config_read", "config_resolve", "config_actor", "config_lock", "config_profiles",
   "config_credential", "config_write", "refuse"}

ProfileSteps == {"profile_actor", "profile_configs", "profile_write"}

CreateSteps == {"create_actor", "create_write"}

SourceSteps == {"source_profile", "source_provider", "reserve"}

ReloadSteps == {"reload", "reload_provider", "activate"}

RepairSteps == {"repair_profile", "repair_provider", "repair_credential", "repair_compare"}

Request ==
  [op : {"none", "update_config", "update_profile", "create_profile", "create_generation", "repair"},
   pc : {"idle", "done"} \cup ConfigSteps \cup ProfileSteps \cup CreateSteps \cup SourceSteps
          \cup ReloadSteps \cup RepairSteps,
   admin : Admins \cup {None}, target : Rows \cup Generations \cup {None},
   patch : ConfigPatches \cup ProfilePatches \cup {None}, etag : Nat,
   seen : Int \cup {None}, source : Profiles \cup {None},
   loaded : ProfileRow \cup SnapshotRow \cup {None},
   result : {"none", "ok", "refused", "aborted"}]

\* A generation that was reserved names a profile that is there.
RowsOK ==
  /\ generations \in [Generations -> GenerationRow]
  /\ req \in [Requests -> Request]
  /\ \A g \in Generations :
       IF generations[g].status = "absent" THEN generations[g].profile = None
       ELSE /\ generations[g].profile \in Profiles /\ generations[g].snapshot \in SnapshotRow
            /\ profiles[generations[g].profile].revision > 0

\* The administrator's key is locked and has been found active.
ActorHeld(r) ==
  /\ lock[req[r].admin] = r
  /\ keys[req[r].admin] = "active"

\* A PATCH of a configuration: its row stays what it was compared with, and
\* when it changes what generations copy, the profiles of the configuration
\* are all locked and no generation was made from any of them.
ConfigFits(r) ==
  req[r].op = "update_config" =>
    /\ req[r].pc \in ConfigSteps \cup {"done"}
    /\ req[r].admin \in Admins /\ req[r].target \in Configs /\ req[r].patch \in ConfigPatches
    /\ req[r].pc \in {"config_lock", "config_profiles", "config_credential", "config_write"} =>
         ActorHeld(r)
    /\ req[r].pc \in {"config_profiles", "config_credential", "config_write"} =>
         lock[req[r].target] = r /\ configs[req[r].target].revision = req[r].etag
    /\ /\ req[r].pc \in {"config_credential", "config_write"}
       /\ ProviderSemanticsChanged(configs[req[r].target], req[r].patch)
       => \A p \in ProfilesOf(req[r].target) : lock[p] = r /\ ~IsReferencedByGeneration(p)

\* A PATCH of a profile: it is written with the profile and both its providers
\* locked.
ProfileFits(r) ==
  req[r].op = "update_profile" =>
    /\ req[r].pc \in ProfileSteps \cup {"done"}
    /\ req[r].admin \in Admins /\ req[r].target \in Profiles /\ req[r].patch \in ProfilePatches
    /\ profiles[req[r].target].revision > 0
    /\ req[r].pc \in {"profile_configs", "profile_write"} =>
         ActorHeld(r) /\ req[r].seen \in Configs
    /\ req[r].pc = "profile_write" =>
         lock[req[r].target] = r /\ UnlockedConfigs(r) = {}

\* A POST of a profile: the row does not exist before it is written.
CreateFits(r) ==
  req[r].op = "create_profile" =>
    /\ req[r].pc \in CreateSteps \cup {"done"}
    /\ req[r].admin \in Admins /\ req[r].target \in Profiles /\ req[r].seen \in Configs
    /\ req[r].pc # "done" => profiles[req[r].target].revision = 0
    /\ req[r].pc = "create_write" => ActorHeld(r)

\* The creation of a generation: from the reservation on its profile is frozen,
\* so what was read of it in the second look stays, and so does the agreement.
GenerationFits(r) ==
  req[r].op = "create_generation" =>
    /\ req[r].pc \in SourceSteps \cup ReloadSteps \cup {"done"}
    /\ req[r].target \in Generations /\ req[r].source \in Profiles
    /\ profiles[req[r].source].revision > 0
    /\ req[r].pc \in SourceSteps => generations[req[r].target].status = "absent"
    /\ req[r].pc \in ReloadSteps =>
         /\ generations[req[r].target].status = "building"
         /\ generations[req[r].target].profile = req[r].source
    /\ req[r].pc = "source_provider" => req[r].loaded \in ProfileRow
    /\ req[r].pc = "reserve" => req[r].loaded \in SnapshotRow
    /\ req[r].pc = "reload_provider" =>
         /\ req[r].loaded \in ProfileRow
         /\ req[r].loaded.provider = profiles[req[r].source].provider
         /\ req[r].loaded.model = profiles[req[r].source].model
    /\ req[r].pc = "activate" =>
         CurrentSnapshot(req[r].target) = generations[req[r].target].snapshot

\* A repair: its generation is active, and stays so.
RepairFits(r) ==
  req[r].op = "repair" =>
    /\ req[r].pc \in RepairSteps \cup {"done"}
    /\ req[r].target \in Generations /\ generations[req[r].target].status = "active"
    /\ req[r].result # "refused"

Fits(r) ==
  /\ req[r].op = "none" => req[r].pc \in {"idle", "done"}
  /\ ConfigFits(r) /\ ProfileFits(r) /\ CreateFits(r) /\ GenerationFits(r) /\ RepairFits(r)

\* No two requests create the same row.
CreatorsApart ==
  \A r, s \in Requests :
    r # s /\ req[r].op = req[s].op /\ req[r].target = req[s].target =>
      /\ req[r].op # "create_profile"
      /\ req[r].op = "create_generation" => req[r].pc = "done" \/ req[s].pc = "done"

IInv ==
  /\ TypeOK /\ RowsOK /\ ActiveConfigurationFrozen /\ CreatorsApart
  /\ \A r \in Requests : Fits(r)

-----------------------------------------------------------------------------
(* What the proofs of the steps share.                                      *)

Pcs ==
  {"idle", "done"} \cup ConfigSteps \cup ProfileSteps \cup CreateSteps \cup SourceSteps
    \cup ReloadSteps \cup RepairSteps

tables == <<keys, configs, profiles, generations>>

\* A row that was patched is a row, and a body that changes nothing of what
\* generations copy leaves it as it was.
LEMMA PatchedConfig ==
  ASSUME NEW row \in ConfigRow, NEW patch \in ConfigPatches
  PROVE  LET new == [Patched(row, patch) EXCEPT !.revision = row.revision + 1]
         IN /\ new \in ConfigRow
            /\ new.revision = row.revision + 1
            /\ Patched(row, patch).url \in Int
            /\ ~ProviderSemanticsChanged(row, patch) =>
                 new.type = row.type /\ new.url = row.url /\ new.routing = row.routing
<1> DEFINE old == Patched(row, patch)
           new == [old EXCEPT !.revision = row.revision + 1]
<1>1. DOMAIN row = {"name", "type", "url", "routing", "enabled", "credential", "revision"}
  BY DEF ConfigRow
<1>2. /\ row.name \in STRING
      /\ row.type \in {"openai_compatible", "openrouter", "vendor_specific"}
      /\ row.url \in Int /\ row.routing \in BOOLEAN /\ row.enabled \in BOOLEAN
      /\ row.credential \in Creds \cup {None} /\ row.revision \in Nat
  BY DEF ConfigRow
<1>3. DOMAIN patch \subseteq {"name", "type", "url", "routing", "enabled", "credential"}
  BY BodiesAssumption
<1>4. /\ old.name \in STRING
      /\ old.type \in {"openai_compatible", "openrouter", "vendor_specific"}
      /\ old.url \in Int /\ old.routing \in BOOLEAN /\ old.enabled \in BOOLEAN
      /\ old.credential \in Creds \cup {None}
  BY <1>1, <1>2, BodiesAssumption DEF Patched
<1>5. new = [name |-> old.name, type |-> old.type, url |-> old.url, routing |-> old.routing,
             enabled |-> old.enabled, credential |-> old.credential,
             revision |-> row.revision + 1]
  <2>1. new = [f \in {"name", "type", "url", "routing", "enabled", "credential", "revision"} |->
                 IF f = "revision" THEN row.revision + 1 ELSE old[f]]
    BY <1>1 DEF Patched
  <2> HIDE DEF old
  <2> QED
    BY <2>1
<1>6. row.revision + 1 \in Nat
  BY <1>2
<1>7. new \in ConfigRow
  BY <1>4, <1>5, <1>6 DEF ConfigRow
<1>8. ~ProviderSemanticsChanged(row, patch) =>
         old.type = row.type /\ old.url = row.url /\ old.routing = row.routing
  BY <1>1 DEF ProviderSemanticsChanged, SemanticFields, Patched
<1> QED
  BY <1>4, <1>5, <1>7, <1>8

LEMMA PatchedProfile ==
  ASSUME NEW row \in ProfileRow, NEW patch \in ProfilePatches
  PROVE  LET new == [Patched(row, patch) EXCEPT !.revision = row.revision + 1]
         IN /\ new \in ProfileRow
            /\ new.revision = row.revision + 1
            /\ \/ new.provider = row.provider
               \/ "provider" \in DOMAIN patch /\ new.provider = patch.provider
            /\ ~ProfileSemanticsChanged(row, patch) =>
                 new.provider = row.provider /\ new.model = row.model
<1> DEFINE old == Patched(row, patch)
           new == [old EXCEPT !.revision = row.revision + 1]
<1>1. DOMAIN row = {"provider", "model", "enabled", "revision"}
  BY DEF ProfileRow
<1>2. /\ row.provider \in Configs /\ row.model \in Int
      /\ row.enabled \in BOOLEAN /\ row.revision \in Nat
  BY DEF ProfileRow
<1>4. old.provider \in Configs /\ old.model \in Int /\ old.enabled \in BOOLEAN
  BY <1>1, <1>2, BodiesAssumption DEF Patched
<1>5. new = [provider |-> old.provider, model |-> old.model, enabled |-> old.enabled,
             revision |-> row.revision + 1]
  <2>1. new = [f \in {"provider", "model", "enabled", "revision"} |->
                 IF f = "revision" THEN row.revision + 1 ELSE old[f]]
    BY <1>1 DEF Patched
  <2> HIDE DEF old
  <2> QED
    BY <2>1
<1>6. row.revision + 1 \in Nat
  BY <1>2
<1>7. new \in ProfileRow
  BY <1>4, <1>5, <1>6 DEF ProfileRow
<1>8. \/ old.provider = row.provider
      \/ "provider" \in DOMAIN patch /\ old.provider = patch.provider
  BY <1>1 DEF Patched
<1>9. ~ProfileSemanticsChanged(row, patch) =>
         old.provider = row.provider /\ old.model = row.model
  BY <1>1 DEF ProfileSemanticsChanged, Patched
<1> QED
  BY <1>5, <1>7, <1>8, <1>9

\* What a request is doing follows from where it is.
LEMMA OpOf ==
  ASSUME IInv, NEW r \in Requests
  PROVE  /\ req[r] \in Request
         /\ req[r].pc \in ConfigSteps => req[r].op = "update_config"
         /\ req[r].pc \in ProfileSteps => req[r].op = "update_profile"
         /\ req[r].pc \in CreateSteps => req[r].op = "create_profile"
         /\ req[r].pc \in SourceSteps \cup ReloadSteps => req[r].op = "create_generation"
         /\ req[r].pc \in RepairSteps => req[r].op = "repair"
<1>1. req[r] \in Request
  BY DEF IInv, RowsOK
<1>2. req[r].op \in {"none", "update_config", "update_profile", "create_profile",
                    "create_generation", "repair"}
  BY <1>1 DEF Request
<1>3. Fits(r)
  BY DEF IInv
<1> QED
  BY <1>1, <1>2, <1>3
     DEF Fits, ConfigFits, ProfileFits, CreateFits, GenerationFits, RepairFits,
         ConfigSteps, ProfileSteps, CreateSteps, SourceSteps, ReloadSteps, RepairSteps

\* A request goes on to another step and stays itself.
LEMMA GotoOK ==
  ASSUME NEW q \in Request, NEW pc \in Pcs
  PROVE  /\ [q EXCEPT !.pc = pc] \in Request
         /\ \A f \in {"op", "admin", "target", "patch", "etag", "seen", "source", "loaded", "result"} :
              [q EXCEPT !.pc = pc][f] = q[f]
         /\ [q EXCEPT !.pc = pc].pc = pc
BY DEF Request, Pcs

\* The locks of everybody else are as they were.
LocksOf(r) ==
  /\ lock' \in [Rows -> Requests \cup {None}]
  /\ \A x \in Rows : \A s \in Requests : s # r => (lock'[x] = s <=> lock[x] = s)

LEMMA LockTaken ==
  ASSUME TypeOK, NEW r \in Requests, NEW row, Acquire(r, row)
  PROVE  /\ LocksOf(r)
         /\ \A x \in Rows : lock[x] = r => lock'[x] = r
         /\ row \in Rows => lock'[row] = r
BY DEF TypeOK, Acquire, LocksOf

LEMMA LocksReleased ==
  ASSUME TypeOK, NEW r \in Requests, lock' = Released(r)
  PROVE  LocksOf(r) /\ \A x \in Rows : lock'[x] # r
BY DEF TypeOK, Released, LocksOf

LEMMA LocksUnchanged ==
  ASSUME TypeOK, NEW r \in Requests, lock' = lock
  PROVE  LocksOf(r)
BY DEF TypeOK, LocksOf

\* One request changes, and keeps its command and its target.
Becomes(r, v) ==
  /\ v \in Request /\ req' = [req EXCEPT ![r] = v]
  /\ v.op = req[r].op /\ v.target = req[r].target
  /\ req[r].pc # "done" /\ v.pc # "idle"

LEMMA BecomesEffect ==
  ASSUME IInv, NEW r \in Requests, NEW v, Becomes(r, v)
  PROVE  /\ req' \in [Requests -> Request] /\ req'[r] = v
         /\ \A s \in Requests : s # r => req'[s] = req[s]
         /\ CreatorsApart'
<1>1. /\ req' \in [Requests -> Request] /\ req'[r] = v
      /\ \A s \in Requests : s # r => req'[s] = req[s]
  BY DEF Becomes, IInv, RowsOK
<1>2. \A s \in Requests : req'[s].op = req[s].op /\ req'[s].target = req[s].target
  BY <1>1 DEF Becomes
<1>3. \A s \in Requests : req[s].pc = "done" => req'[s].pc = "done"
  BY <1>1 DEF Becomes
<1> QED
  BY <1>1, <1>2, <1>3 DEF IInv, CreatorsApart

\* What a step may do to the tables without disturbing request s: it leaves the
\* rows that s has locked, what generations were made from, and what s creates.
TablesKeep(s) ==
  /\ \A a \in Admins : lock[a] = s => keys'[a] = keys[a]
  /\ \A c \in Configs :
       lock[c] = s => configs'[c] = configs[c] /\ ProfilesOf(c)' \subseteq ProfilesOf(c)
  /\ \A p \in Profiles :
       /\ profiles[p].revision > 0 => profiles'[p].revision > 0
       /\ IsReferencedByGeneration(p) =>
            profiles'[p].provider = profiles[p].provider /\ profiles'[p].model = profiles[p].model
       /\ lock[p] = s /\ IsReferencedByGeneration(p)' => IsReferencedByGeneration(p)
  /\ \A g \in Generations :
       /\ generations[g].status # "absent" => CurrentSnapshot(g)' = CurrentSnapshot(g)
       /\ generations[g].status = "active" => generations'[g].status = "active"
  /\ req[s].op = "create_profile" /\ req[s].pc # "done" =>
       profiles'[req[s].target].revision = 0
  /\ req[s].op = "create_generation" /\ req[s].pc # "done" =>
       generations'[req[s].target] = generations[req[s].target]

LEMMA UnchangedKeep ==
  ASSUME IInv, UNCHANGED tables, NEW s \in Requests
  PROVE  TablesKeep(s)
<1> USE DEF tables
<1>1. /\ \A c : ProfilesOf(c)' = ProfilesOf(c)
      /\ \A p : IsReferencedByGeneration(p)' = IsReferencedByGeneration(p)
      /\ \A g : CurrentSnapshot(g)' = CurrentSnapshot(g)
  BY DEF ProfilesOf, IsReferencedByGeneration, CurrentSnapshot
<1>2. Fits(s) /\ req[s] \in Request
  BY DEF IInv, RowsOK
<1>3. req[s].op = "create_profile" /\ req[s].pc # "done" => profiles[req[s].target].revision = 0
  BY <1>2 DEF Fits, CreateFits
<1> QED
  BY <1>1, <1>3 DEF TablesKeep

\* Then what is known of s stays.
LEMMA OthersFit ==
  ASSUME IInv, NEW s \in Requests, req'[s] = req[s], TablesKeep(s),
         \A x \in Rows : lock[x] = s => lock'[x] = s
  PROVE  Fits(s)'
<1>1. Fits(s) /\ req[s] \in Request
  BY DEF IInv, RowsOK
<1>3. Configs \subseteq Rows /\ Profiles \subseteq Rows /\ Admins \subseteq Rows
  BY DEF Rows
<1>4. req[s].admin \in Admins /\ ActorHeld(s) => ActorHeld(s)'
  BY <1>3 DEF ActorHeld, TablesKeep
<1>6. ConfigFits(s)'
  <2>1. SUFFICES ASSUME req[s].op = "update_config" PROVE ConfigFits(s)'
    BY DEF ConfigFits
  <2>2. req[s].admin \in Admins /\ req[s].target \in Configs /\ req[s].patch \in ConfigPatches
    BY <1>1, <2>1 DEF Fits, ConfigFits
  <2>3. req[s].pc \in {"config_profiles", "config_credential", "config_write"} =>
          /\ lock[req[s].target] = s /\ lock'[req[s].target] = s
          /\ configs'[req[s].target] = configs[req[s].target]
    BY <1>1, <1>3, <2>1, <2>2 DEF Fits, ConfigFits, TablesKeep
  <2>4. ASSUME req[s].pc \in {"config_credential", "config_write"},
               ProviderSemanticsChanged(configs'[req[s].target], req[s].patch),
               NEW p \in ProfilesOf(req[s].target)'
        PROVE  lock'[p] = s /\ ~IsReferencedByGeneration(p)'
    <3>1. lock[req[s].target] = s
      BY <2>3, <2>4
    <3>2. ProviderSemanticsChanged(configs[req[s].target], req[s].patch)
      BY <2>3, <2>4
    <3>3. p \in ProfilesOf(req[s].target) /\ p \in Profiles
      BY <2>2, <2>4, <3>1 DEF TablesKeep, ProfilesOf
    <3>4. lock[p] = s /\ ~IsReferencedByGeneration(p)
      BY <1>1, <2>1, <2>4, <3>2, <3>3 DEF Fits, ConfigFits
    <3> QED
      BY <1>3, <3>3, <3>4 DEF TablesKeep
  <2> QED
    BY <1>1, <1>4, <2>1, <2>2, <2>3, <2>4 DEF Fits, ConfigFits
<1>7. ProfileFits(s)'
  <2>1. SUFFICES ASSUME req[s].op = "update_profile" PROVE ProfileFits(s)'
    BY DEF ProfileFits
  <2>2. req[s].pc = "profile_write" => ConfigsToLock(s) \subseteq Configs
    BY <1>1, <2>1, BodiesAssumption DEF Fits, ProfileFits, ConfigsToLock
  <2>3. req[s].pc = "profile_write" => UnlockedConfigs(s)' = {}
    BY <1>1, <1>3, <2>1, <2>2 DEF Fits, ProfileFits, UnlockedConfigs, ConfigsToLock
  <2>4. profiles'[req[s].target].revision > 0
    BY <1>1, <2>1 DEF Fits, ProfileFits, TablesKeep
  <2> QED
    BY <1>1, <1>3, <1>4, <2>1, <2>3, <2>4 DEF Fits, ProfileFits
<1>8. CreateFits(s)' /\ RepairFits(s)'
  BY <1>1, <1>4 DEF Fits, CreateFits, RepairFits, TablesKeep
<1>9. GenerationFits(s)'
  <2>1. SUFFICES ASSUME req[s].op = "create_generation" PROVE GenerationFits(s)'
    BY DEF GenerationFits
  <2>2. req[s].target \in Generations /\ req[s].source \in Profiles
    BY <1>1, <2>1 DEF Fits, GenerationFits
  <2>3. profiles'[req[s].source].revision > 0
    BY <1>1, <2>1 DEF Fits, GenerationFits, TablesKeep
  <2>4. req[s].pc \in ReloadSteps =>
          /\ profiles'[req[s].source].provider = profiles[req[s].source].provider
          /\ profiles'[req[s].source].model = profiles[req[s].source].model
          /\ CurrentSnapshot(req[s].target)' = CurrentSnapshot(req[s].target)
    BY <1>1, <2>1, <2>2 DEF Fits, GenerationFits, TablesKeep, IsReferencedByGeneration
  <2>5. req[s].pc # "done" => generations'[req[s].target] = generations[req[s].target]
    BY <2>1 DEF TablesKeep
  <2> QED
    BY <1>1, <2>1, <2>2, <2>3, <2>4, <2>5 DEF Fits, GenerationFits, SourceSteps, ReloadSteps
<1> QED
  BY <1>1, <1>6, <1>7, <1>8, <1>9 DEF Fits

\* The tables on their own.
TablesOK ==
  /\ keys \in [Admins -> {"active", "revoked"}]
  /\ configs \in [Configs -> ConfigRow]
  /\ profiles \in [Profiles -> ProfileRow]
  /\ generations \in [Generations -> GenerationRow]
  /\ \A g \in Generations :
       IF generations[g].status = "absent" THEN generations[g].profile = None
       ELSE /\ generations[g].profile \in Profiles /\ generations[g].snapshot \in SnapshotRow
            /\ profiles[generations[g].profile].revision > 0
  /\ ActiveConfigurationFrozen

LEMMA TablesAreOK == IInv => TablesOK
BY DEF IInv, TypeOK, RowsOK, TablesOK

\* A step of one request, whatever it writes.
LEMMA WriteStep ==
  ASSUME IInv, NEW r \in Requests, NEW v, Becomes(r, v), LocksOf(r),
         v.pc = "done" => \A x \in Rows : lock'[x] # r,
         TablesOK', \A s \in Requests : s # r => TablesKeep(s),
         Fits(r)'
  PROVE  IInv'
<1>1. /\ req' \in [Requests -> Request] /\ req'[r] = v
      /\ \A s \in Requests : s # r => req'[s] = req[s]
      /\ CreatorsApart'
  BY BecomesEffect
<1>2. TypeOK'
  <2>1. ASSUME NEW x \in Rows, lock'[x] # None PROVE req'[lock'[x]].pc \notin {"idle", "done"}
    <3>1. CASE lock'[x] = r
      BY <1>1, <3>1 DEF Becomes
    <3>2. CASE lock'[x] # r
      <4>1. lock'[x] \in Requests /\ lock[x] = lock'[x]
        BY <2>1, <3>2 DEF LocksOf
      <4> QED
        BY <1>1, <2>1, <3>2, <4>1 DEF IInv, TypeOK
    <3> QED
      BY <3>1, <3>2
  <2>2. \A g \in Generations : generations'[g].status \in {"absent", "building", "active", "failed"}
    BY DEF TablesOK, GenerationRow
  <2> QED
    BY <2>1, <2>2 DEF TypeOK, TablesOK, LocksOf
<1>3. RowsOK' /\ ActiveConfigurationFrozen'
  BY <1>1 DEF RowsOK, TablesOK
<1>5. \A s \in Requests : Fits(s)'
  <2>1. ASSUME NEW s \in Requests, s # r PROVE Fits(s)'
    <3>1. \A x \in Rows : lock[x] = s => lock'[x] = s
      BY <2>1 DEF LocksOf
    <3> QED
      BY <1>1, <2>1, <3>1, OthersFit
  <2> QED
    BY <2>1
<1> QED
  BY <1>1, <1>2, <1>3, <1>5 DEF IInv

\* A step that leaves the tables alone.
LEMMA QuietStep ==
  ASSUME IInv, NEW r \in Requests, NEW v, Becomes(r, v), LocksOf(r), UNCHANGED tables,
         v.pc = "done" => \A x \in Rows : lock'[x] # r,
         Fits(r)'
  PROVE  IInv'
<1>1. TablesOK'
  BY TablesAreOK DEF tables, TablesOK, ActiveConfigurationFrozen, CurrentSnapshot
<1>2. \A s \in Requests : TablesKeep(s)
  BY UnchangedKeep
<1> QED
  BY <1>1, <1>2, WriteStep

\* A step to another place in the same command.
LEMMA GotoBecomes ==
  ASSUME IInv, NEW r \in Requests, NEW pc \in Pcs \ {"idle"}, Goto(r, pc), req[r].pc # "done"
  PROVE  Becomes(r, [req[r] EXCEPT !.pc = pc])
<1>1. req[r] \in Request
  BY DEF IInv, RowsOK
<1>2. req' = [req EXCEPT ![r] = [req[r] EXCEPT !.pc = pc]]
  BY DEF Goto, IInv, RowsOK
<1> QED
  BY <1>1, <1>2, GotoOK DEF Becomes

\* A request that ends has nothing more to be true of it.
LEMMA EndBecomes ==
  ASSUME IInv, NEW r \in Requests, NEW result \in {"ok", "refused", "aborted"},
         End(r, result), req[r].pc # "done"
  PROVE  /\ LocksOf(r) /\ \A x \in Rows : lock'[x] # r
         /\ \E v : /\ Becomes(r, v) /\ v.pc = "done" /\ v.result = result
                  /\ v.admin = req[r].admin /\ v.patch = req[r].patch /\ v.seen = req[r].seen
                  /\ v.source = req[r].source
<1> DEFINE v == [req[r] EXCEPT !.pc = "done", !.result = result]
<1>1. req[r] \in Request
  BY DEF IInv, RowsOK
<1>2. v \in Request /\ v.op = req[r].op /\ v.target = req[r].target /\ v.pc = "done"
      /\ v.result = result /\ v.admin = req[r].admin /\ v.patch = req[r].patch /\ v.seen = req[r].seen
      /\ v.source = req[r].source
  <2>1. DOMAIN req[r] = {"op", "pc", "admin", "target", "patch", "etag", "seen", "source",
                         "loaded", "result"}
    BY <1>1 DEF Request
  <2>2. /\ v.op = req[r].op /\ v.target = req[r].target /\ v.pc = "done" /\ v.result = result
        /\ v.admin = req[r].admin /\ v.patch = req[r].patch /\ v.seen = req[r].seen
        /\ v.source = req[r].source
    BY <2>1
  <2>3. v \in Request
    <3> DEFINE u == [req[r] EXCEPT !.pc = "done"]
    <3>1. u \in Request
      BY <1>1, GotoOK DEF Pcs
    <3>2. v = [u EXCEPT !.result = result]
      OBVIOUS
    <3> HIDE DEF u, v
    <3>3. [u EXCEPT !.result = result] \in Request
      BY <3>1 DEF Request
    <3> QED
      BY <3>2, <3>3
  <2> QED
    BY <2>2, <2>3
<1>3. req' = [req EXCEPT ![r] = v]
  BY DEF End, IInv, RowsOK
<1>4. LocksOf(r) /\ \A x \in Rows : lock'[x] # r
  BY LocksReleased DEF End, IInv
<1> QED
  BY <1>2, <1>3, <1>4 DEF Becomes

LEMMA EndStep ==
  ASSUME IInv, NEW r \in Requests, NEW result \in {"ok", "refused", "aborted"},
         End(r, result), req[r].pc # "done", UNCHANGED tables,
         req[r].op = "repair" => result # "refused"
  PROVE  IInv'
<1>0. LocksOf(r) /\ \A x \in Rows : lock'[x] # r
  BY EndBecomes
<1>1. PICK v : /\ Becomes(r, v) /\ v.pc = "done" /\ v.result = result
               /\ v.admin = req[r].admin /\ v.patch = req[r].patch /\ v.seen = req[r].seen
        /\ v.source = req[r].source
  BY EndBecomes
<1>2. req'[r] = v
  BY <1>1, BecomesEffect
<1>3. Fits(r)
  BY DEF IInv
<1>4. Fits(r)'
  BY <1>1, <1>2, <1>3
     DEF Becomes, tables, Fits, ConfigFits, ProfileFits, CreateFits, GenerationFits, RepairFits,
         SourceSteps, ReloadSteps
<1> QED
  BY <1>0, <1>1, <1>4, QuietStep

\* What a request remembers is the same after the step.
Remembers(r) ==
  \A f \in {"op", "admin", "target", "patch", "etag", "seen", "source", "loaded", "result"} :
    req'[r][f] = req[r][f]

LEMMA GotoEffect ==
  ASSUME IInv, NEW r \in Requests, NEW pc \in Pcs \ {"idle"}, Goto(r, pc), req[r].pc # "done"
  PROVE  Becomes(r, req'[r]) /\ req'[r].pc = pc /\ Remembers(r)
<1> DEFINE v == [req[r] EXCEPT !.pc = pc]
<1>1. Becomes(r, v)
  BY GotoBecomes
<1>2. req'[r] = v
  BY <1>1, BecomesEffect
<1>3. req[r] \in Request
  BY DEF IInv, RowsOK
<1>4. v.pc = pc /\ \A f \in {"op", "admin", "target", "patch", "etag", "seen", "source",
                             "loaded", "result"} : v[f] = req[r][f]
  BY <1>3, GotoOK
<1> QED
  BY <1>1, <1>2, <1>4 DEF Remembers

-----------------------------------------------------------------------------
(* The steps that leave the tables alone.                                   *)

\* Turning a request away, or aborting it.
LEMMA StepRefuse ==
  ASSUME IInv, NEW r \in Requests,
         RefuseRevokedActor(r) \/ RefuseLocked(r) \/ BreakDeadlock(r)
  PROVE  IInv'
<1>1. CASE RefuseRevokedActor(r) \/ RefuseLocked(r)
  <2>1. req[r].pc \in {"config_read", "config_actor", "profile_actor", "create_actor", "refuse"}
    BY <1>1 DEF RefuseRevokedActor, RefuseLocked
  <2>2. End(r, "refused") /\ UNCHANGED tables
    BY <1>1 DEF RefuseRevokedActor, RefuseLocked, Refuse, tables
  <2>3. req[r].op # "repair"
    BY <2>1, OpOf DEF ConfigSteps, ProfileSteps, CreateSteps
  <2> QED
    BY <2>1, <2>2, <2>3, EndStep
<1>2. CASE BreakDeadlock(r)
  <2>1. req[r].pc # "done"
    BY <1>2, Zenon DEF BreakDeadlock, Circle, WaitsFor, Wanted
  <2>2. End(r, "aborted") /\ UNCHANGED tables
    BY <1>2 DEF BreakDeadlock, tables
  <2> QED
    BY <2>1, <2>2, EndStep
<1> QED
  BY <1>1, <1>2

\* The first transaction of a PATCH of a configuration.
LEMMA StepReadConfig ==
  ASSUME IInv, NEW r \in Requests, ReadConfig(r)
  PROVE  IInv'
<1>1. req[r].pc = "config_read" /\ req[r].op = "update_config" /\ req[r] \in Request
  BY OpOf DEF ReadConfig, ConfigSteps
<1>2. Fits(r)
  BY DEF IInv
<1>3. CASE Refuse(r)
  BY <1>1, <1>3, EndStep DEF Refuse, tables
<1>4. CASE ~Refuse(r)
  <2>0. UNCHANGED tables /\ lock' = lock
    BY <1>4 DEF ReadConfig, tables
  <2>1. LocksOf(r)
    BY <2>0, LocksUnchanged DEF IInv
  <2>2. PICK v : /\ Becomes(r, v) /\ v.pc \in {"config_resolve", "config_actor"}
                 /\ v.patch = req[r].patch /\ v.admin = req[r].admin
    <3>1. CASE Goto(r, "config_actor")
      <4>1. Becomes(r, req'[r]) /\ req'[r].pc = "config_actor" /\ Remembers(r)
        BY <1>1, <3>1, GotoEffect DEF Pcs, ConfigSteps
      <4> QED
        BY <4>1 DEF Remembers
    <3>2. CASE req' = [req EXCEPT ![r].pc = "config_resolve",
                                  ![r].seen = Patched(configs[req[r].target], req[r].patch).url]
      <4> DEFINE u == [req[r] EXCEPT !.pc = "config_resolve"]
                 v == [u EXCEPT !.seen = Patched(configs[req[r].target], req[r].patch).url]
      <4>1. /\ u \in Request /\ u.pc = "config_resolve" /\ u.patch = req[r].patch
            /\ u.admin = req[r].admin /\ u.op = req[r].op /\ u.target = req[r].target
        BY <1>1, GotoOK DEF Pcs, ConfigSteps
      <4>2. req' = [req EXCEPT ![r] = v]
        BY <3>2 DEF IInv, RowsOK
      <4>3. Patched(configs[req[r].target], req[r].patch).url \in Int
        <5>1. configs[req[r].target] \in ConfigRow /\ req[r].patch \in ConfigPatches
          BY <1>1, <1>2 DEF Fits, ConfigFits, IInv, TypeOK
        <5> QED
          BY <5>1, PatchedConfig
      <4> HIDE DEF u
      <4>4. v \in Request /\ v.pc = u.pc /\ v.op = u.op /\ v.target = u.target /\ v.patch = u.patch
            /\ v.admin = u.admin
        BY <4>1, <4>3 DEF Request
      <4> QED
        BY <1>1, <4>1, <4>2, <4>4 DEF Becomes
    <3> QED
      BY <1>4, <3>1, <3>2 DEF ReadConfig, Goto
  <2>3. req'[r] = v
    BY <2>2, BecomesEffect
  <2>4. Fits(r)'
    BY <1>1, <1>2, <2>2, <2>3
       DEF Becomes, Fits, ConfigFits, ProfileFits, CreateFits, GenerationFits, RepairFits, ConfigSteps
  <2> QED
    BY <2>0, <2>1, <2>2, <2>4, QuietStep
<1> QED
  BY <1>3, <1>4

\* The name is resolved or not.
LEMMA StepResolve ==
  ASSUME IInv, NEW r \in Requests, ResolveEndpoint(r)
  PROVE  IInv'
<1>1. req[r].pc = "config_resolve" /\ req[r].op = "update_config"
  BY OpOf DEF ResolveEndpoint, ConfigSteps
<1>2. Fits(r)
  BY DEF IInv
<1>3. Becomes(r, req'[r]) /\ req'[r].pc \in {"config_actor", "refuse"} /\ Remembers(r)
  BY <1>1, GotoEffect DEF ResolveEndpoint, Pcs, ConfigSteps
<1>4. LocksOf(r) /\ UNCHANGED tables
  BY LocksUnchanged DEF ResolveEndpoint, IInv, tables
<1>5. Fits(r)'
  BY <1>1, <1>2, <1>3
     DEF Remembers, Fits, ConfigFits, ProfileFits, CreateFits, GenerationFits, RepairFits, ConfigSteps
<1> QED
  BY <1>3, <1>4, <1>5, QuietStep

\* The actor's key is locked and active.
LEMMA StepActor ==
  ASSUME IInv, NEW r \in Requests, ConfigActor(r) \/ CreateActor(r)
  PROVE  IInv'
<1>1. PICK pc \in {"config_lock", "create_write"} :
        /\ RequireAdminActor(r, pc)
        /\ pc = "config_lock" => req[r].pc = "config_actor" /\ req[r].op = "update_config"
        /\ pc = "create_write" => req[r].pc = "create_actor" /\ req[r].op = "create_profile"
  BY OpOf DEF ConfigActor, CreateActor, ConfigSteps, CreateSteps
<1>2. Fits(r)
  BY DEF IInv
<1>3. Becomes(r, req'[r]) /\ req'[r].pc = pc /\ Remembers(r)
  BY <1>1, GotoEffect DEF RequireAdminActor, Pcs, ConfigSteps, CreateSteps
<1>4. UNCHANGED tables /\ Acquire(r, req[r].admin) /\ AdminActive(r)
  BY <1>1 DEF RequireAdminActor, tables
<1>5. LocksOf(r) /\ (req[r].admin \in Rows => lock'[req[r].admin] = r)
  BY <1>4, LockTaken DEF IInv
<1>6. ActorHeld(r)'
  BY <1>1, <1>2, <1>3, <1>4, <1>5
     DEF Remembers, ActorHeld, AdminActive, tables, Rows, Fits, ConfigFits, CreateFits
<1>7. Fits(r)'
  BY <1>1, <1>2, <1>3, <1>4, <1>6
     DEF Remembers, tables, Fits, ConfigFits, ProfileFits, CreateFits, GenerationFits, RepairFits,
         ConfigSteps, CreateSteps
<1> QED
  BY <1>1, <1>3, <1>4, <1>5, <1>7, QuietStep

\* The row of the configuration is locked and compared.
LEMMA StepLockConfig ==
  ASSUME IInv, NEW r \in Requests, LockConfig(r)
  PROVE  IInv'
<1>1. req[r].pc = "config_lock" /\ req[r].op = "update_config"
  BY OpOf DEF LockConfig, ConfigSteps
<1>2. Fits(r)
  BY DEF IInv
<1>3. PICK pc \in {"refuse", "config_profiles", "config_credential"} :
        /\ Goto(r, pc)
        /\ pc # "refuse" => configs[req[r].target].revision = req[r].etag
        /\ pc = "config_credential" =>
             ~ProviderSemanticsChanged(configs[req[r].target], req[r].patch)
  BY DEF LockConfig
<1>4. Becomes(r, req'[r]) /\ req'[r].pc = pc /\ Remembers(r)
  BY <1>1, <1>3, GotoEffect DEF Pcs, ConfigSteps
<1>5. UNCHANGED tables /\ Acquire(r, req[r].target)
  BY DEF LockConfig, tables
<1>6. /\ LocksOf(r) /\ (req[r].target \in Rows => lock'[req[r].target] = r)
      /\ \A x \in Rows : lock[x] = r => lock'[x] = r
  BY <1>5, LockTaken DEF IInv
<1>7. ActorHeld(r)'
  BY <1>1, <1>2, <1>4, <1>5, <1>6 DEF Remembers, ActorHeld, tables, Rows, Fits, ConfigFits
<1>8. Fits(r)'
  <2>1. lock'[req[r].target] = r
    BY <1>1, <1>2, <1>6 DEF Fits, ConfigFits, Rows
  <2>2. ConfigFits(r)'
    BY <1>1, <1>2, <1>3, <1>4, <1>5, <1>7, <2>1
       DEF Remembers, tables, Fits, ConfigFits, ConfigSteps
  <2> QED
    BY <1>1, <1>4, <2>2 DEF Remembers, Fits, ProfileFits, CreateFits, GenerationFits, RepairFits
<1> QED
  BY <1>3, <1>4, <1>5, <1>6, <1>8, QuietStep

\* One profile after the other is locked, then all of them are looked at.
LEMMA StepProfilesOfConfig ==
  ASSUME IInv, NEW r \in Requests, LockProfilesOfConfig(r) \/ CheckFrozenConfig(r)
  PROVE  IInv'
<1>1. req[r].pc = "config_profiles" /\ req[r].op = "update_config" /\ req[r] \in Request
  BY OpOf DEF LockProfilesOfConfig, CheckFrozenConfig, ConfigSteps
<1>2. Fits(r)
  BY DEF IInv
<1>3. UNCHANGED tables
  BY DEF LockProfilesOfConfig, CheckFrozenConfig, tables
<1>4. CASE LockProfilesOfConfig(r)
  <2>1. Becomes(r, req[r]) /\ req' = req
    BY <1>1, <1>4 DEF Becomes, LockProfilesOfConfig, IInv, RowsOK
  <2>2. LocksOf(r) /\ \A x \in Rows : lock[x] = r => lock'[x] = r
    BY <1>4, LockTaken DEF LockProfilesOfConfig, IInv
  <2>3. ActorHeld(r)'
    BY <1>1, <1>2, <1>3, <2>1, <2>2 DEF ActorHeld, tables, Rows, Fits, ConfigFits
  <2>4. Fits(r)'
    BY <1>1, <1>2, <1>3, <2>1, <2>2, <2>3
       DEF tables, Rows, Fits, ConfigFits, ProfileFits, CreateFits, GenerationFits, RepairFits, ConfigSteps
  <2> QED
    BY <1>1, <1>3, <2>1, <2>2, <2>4, QuietStep
<1>5. CASE CheckFrozenConfig(r)
  <2>1. PICK pc \in {"refuse", "config_credential"} :
          /\ Goto(r, pc)
          /\ pc = "config_credential" => ~ProviderConfigIsReferencedByGeneration(req[r].target)
    BY <1>5 DEF CheckFrozenConfig
  <2>2. Becomes(r, req'[r]) /\ req'[r].pc = pc /\ Remembers(r)
    BY <1>1, <2>1, GotoEffect DEF Pcs, ConfigSteps
  <2>3. LocksOf(r) /\ lock' = lock
    BY <1>5, LocksUnchanged DEF CheckFrozenConfig, IInv
  <2>4. ActorHeld(r)'
    BY <1>1, <1>2, <1>3, <2>2, <2>3 DEF Remembers, ActorHeld, tables, Fits, ConfigFits
  <2>5. pc = "config_credential" =>
          \A p \in ProfilesOf(req[r].target)' : lock'[p] = r /\ ~IsReferencedByGeneration(p)'
    <3>1. \A p \in ProfilesOf(req[r].target) : lock[p] = r
      BY <1>5 DEF CheckFrozenConfig, UnlockedProfiles
    <3>2. /\ \A c : ProfilesOf(c)' = ProfilesOf(c)
          /\ \A p : IsReferencedByGeneration(p)' = IsReferencedByGeneration(p)
      BY <1>3 DEF ProfilesOf, IsReferencedByGeneration, tables
    <3>3. req'[r].target = req[r].target
      BY <2>2 DEF Remembers
    <3> QED
      BY <2>1, <2>3, <3>1, <3>2, <3>3 DEF ProviderConfigIsReferencedByGeneration
  <2>6. ConfigFits(r)'
    BY <1>1, <1>2, <1>3, <2>2, <2>3, <2>4, <2>5
       DEF Remembers, tables, Fits, ConfigFits, ConfigSteps
  <2>7. Fits(r)'
    BY <1>1, <2>2, <2>6 DEF Remembers, Fits, ProfileFits, CreateFits, GenerationFits, RepairFits
  <2> QED
    BY <1>3, <2>1, <2>2, <2>3, <2>7, QuietStep
<1> QED
  BY <1>4, <1>5

\* The credential is locked, if there is a new one.
LEMMA StepLockCredential ==
  ASSUME IInv, NEW r \in Requests, LockCredential(r)
  PROVE  IInv'
<1>1. req[r].pc = "config_credential" /\ req[r].op = "update_config"
  BY OpOf DEF LockCredential, ConfigSteps
<1>2. Fits(r)
  BY DEF IInv
<1>3. Becomes(r, req'[r]) /\ req'[r].pc = "config_write" /\ Remembers(r)
  BY <1>1, GotoEffect DEF LockCredential, Pcs, ConfigSteps
<1>4. UNCHANGED tables
  BY DEF LockCredential, tables
<1>5. LocksOf(r) /\ \A x \in Rows : lock[x] = r => lock'[x] = r
  <2>1. CASE lock' = lock
    BY <2>1, LocksUnchanged DEF IInv
  <2>2. CASE Acquire(r, req[r].patch.credential)
    BY <2>2, LockTaken DEF IInv
  <2> QED
    BY <2>1, <2>2 DEF LockCredential
<1>6. ActorHeld(r)'
  BY <1>1, <1>2, <1>3, <1>4, <1>5 DEF Remembers, ActorHeld, tables, Rows, Fits, ConfigFits
<1>7. ConfigFits(r)'
  <2>1. /\ \A c : ProfilesOf(c)' = ProfilesOf(c) /\ ProfilesOf(c) \subseteq Rows
        /\ \A p : IsReferencedByGeneration(p)' = IsReferencedByGeneration(p)
    BY <1>4 DEF ProfilesOf, IsReferencedByGeneration, tables, Rows
  <2> QED
    BY <1>1, <1>2, <1>3, <1>4, <1>5, <1>6, <2>1
       DEF Remembers, tables, Rows, Fits, ConfigFits, ConfigSteps
<1>8. Fits(r)'
  BY <1>1, <1>3, <1>7 DEF Remembers, Fits, ProfileFits, CreateFits, GenerationFits, RepairFits
<1> QED
  BY <1>3, <1>4, <1>5, <1>8, QuietStep

LEMMA SeenOK ==
  ASSUME NEW q \in Request, NEW x \in Int \cup {None}
  PROVE  /\ [q EXCEPT !.seen = x] \in Request
         /\ \A f \in {"op", "pc", "admin", "target", "patch", "etag", "source", "loaded", "result"} :
              [q EXCEPT !.seen = x][f] = q[f]
         /\ [q EXCEPT !.seen = x].seen = x
BY DEF Request

LEMMA LoadedOK ==
  ASSUME NEW q \in Request, NEW x \in ProfileRow \cup SnapshotRow \cup {None}
  PROVE  /\ [q EXCEPT !.loaded = x] \in Request
         /\ \A f \in {"op", "pc", "admin", "target", "patch", "etag", "seen", "source", "result"} :
              [q EXCEPT !.loaded = x][f] = q[f]
         /\ [q EXCEPT !.loaded = x].loaded = x
BY DEF Request

\* A PATCH of a profile locks the actor and reads which provider to lock.
LEMMA StepReadProfile ==
  ASSUME IInv, NEW r \in Requests, ReadProfile(r)
  PROVE  IInv'
<1>1. req[r].pc = "profile_actor" /\ req[r].op = "update_profile" /\ req[r] \in Request
  BY OpOf DEF ReadProfile, ProfileSteps
<1>2. Fits(r)
  BY DEF IInv
<1>3. profiles[req[r].target].provider \in Configs
  BY <1>1, <1>2 DEF Fits, ProfileFits, IInv, TypeOK, ProfileRow
<1> DEFINE u == [req[r] EXCEPT !.pc = "profile_configs"]
           v == [u EXCEPT !.seen = profiles[req[r].target].provider]
<1>4. /\ u \in Request /\ u.pc = "profile_configs"
      /\ u.op = req[r].op /\ u.target = req[r].target /\ u.admin = req[r].admin
      /\ u.patch = req[r].patch
  BY <1>1, GotoOK DEF Pcs, ProfileSteps
<1>5. req' = [req EXCEPT ![r] = v]
  BY DEF ReadProfile, IInv, RowsOK
<1> HIDE DEF u
<1>6. /\ v \in Request /\ v.pc = u.pc /\ v.op = u.op /\ v.target = u.target /\ v.admin = u.admin
      /\ v.patch = u.patch /\ v.seen \in Configs
  BY <1>3, <1>4, SeenOK
<1> HIDE DEF v
<1>7. Becomes(r, v)
  BY <1>1, <1>4, <1>5, <1>6 DEF Becomes
<1>8. req'[r] = v
  BY <1>7, BecomesEffect
<1>9. UNCHANGED tables /\ Acquire(r, req[r].admin) /\ AdminActive(r)
  BY DEF ReadProfile, tables
<1>10. LocksOf(r) /\ (req[r].admin \in Rows => lock'[req[r].admin] = r)
  BY <1>9, LockTaken DEF IInv
<1>11. ActorHeld(r)'
  BY <1>1, <1>2, <1>4, <1>6, <1>8, <1>9, <1>10
     DEF ActorHeld, AdminActive, tables, Rows, Fits, ProfileFits
<1>12. Fits(r)'
  BY <1>1, <1>2, <1>4, <1>6, <1>8, <1>9, <1>11
     DEF tables, Fits, ConfigFits, ProfileFits, CreateFits, GenerationFits, RepairFits, ProfileSteps
<1> QED
  BY <1>4, <1>6, <1>7, <1>9, <1>10, <1>12, QuietStep

\* The providers are locked one after the other, then the profile.
LEMMA StepLockProfile ==
  ASSUME IInv, NEW r \in Requests, LockConfigsOfProfile(r) \/ LockProfile(r)
  PROVE  IInv'
<1>1. req[r].pc = "profile_configs" /\ req[r].op = "update_profile" /\ req[r] \in Request
  BY OpOf DEF LockConfigsOfProfile, LockProfile, ProfileSteps
<1>2. Fits(r)
  BY DEF IInv
<1>3. UNCHANGED tables
  BY DEF LockConfigsOfProfile, LockProfile, tables
<1>4. LocksOf(r) /\ \A x \in Rows : lock[x] = r => lock'[x] = r
  BY LockTaken DEF LockConfigsOfProfile, LockProfile, IInv
<1>5. CASE LockConfigsOfProfile(r)
  <2>1. Becomes(r, req[r]) /\ req' = req
    BY <1>1, <1>5 DEF Becomes, LockConfigsOfProfile, IInv, RowsOK
  <2>2. ActorHeld(r)'
    BY <1>1, <1>2, <1>3, <1>4, <2>1 DEF ActorHeld, tables, Rows, Fits, ProfileFits
  <2>3. Fits(r)'
    BY <1>1, <1>2, <1>3, <2>1, <2>2
       DEF tables, Fits, ConfigFits, ProfileFits, CreateFits, GenerationFits, RepairFits, ProfileSteps
  <2> QED
    BY <1>1, <1>3, <1>4, <2>1, <2>3, QuietStep
<1>6. CASE LockProfile(r)
  <2>1. Becomes(r, req'[r]) /\ req'[r].pc = "profile_write" /\ Remembers(r)
    BY <1>1, <1>6, GotoEffect DEF LockProfile, Pcs, ProfileSteps
  <2>2. ActorHeld(r)'
    BY <1>1, <1>2, <1>3, <1>4, <2>1 DEF Remembers, ActorHeld, tables, Rows, Fits, ProfileFits
  <2>3. lock'[req[r].target] = r
    BY <1>1, <1>2, <1>6, LockTaken DEF LockProfile, IInv, Fits, ProfileFits, Rows
  <2>4. UnlockedConfigs(r)' = {}
    <3>1. ConfigsToLock(r) \subseteq Rows /\ ConfigsToLock(r)' = ConfigsToLock(r)
      BY <1>1, <1>2, <2>1, BodiesAssumption
         DEF Fits, ProfileFits, ConfigsToLock, Remembers, Rows
    <3>2. \A c \in ConfigsToLock(r) : lock[c] = r
      BY <1>6 DEF LockProfile, UnlockedConfigs
    <3> QED
      BY <1>4, <3>1, <3>2 DEF UnlockedConfigs
  <2>5. ProfileFits(r)'
    BY <1>1, <1>2, <1>3, <2>1, <2>2, <2>3, <2>4
       DEF Remembers, tables, Fits, ProfileFits, ProfileSteps
  <2>6. Fits(r)'
    BY <1>1, <2>1, <2>5 DEF Remembers, Fits, ConfigFits, CreateFits, GenerationFits, RepairFits
  <2> QED
    BY <1>3, <1>4, <2>1, <2>6, QuietStep
<1> QED
  BY <1>5, <1>6

\* The profile of a generation is read, before the reservation or after it.
LEMMA StepLoadProfile ==
  ASSUME IInv, NEW r \in Requests, LoadProfile(r)
  PROVE  IInv'
<1>1. /\ req[r].pc \in {"source_profile", "reload"} /\ req[r].op = "create_generation"
      /\ req[r] \in Request
  BY OpOf DEF LoadProfile, SourceSteps, ReloadSteps
<1>2. Fits(r)
  BY DEF IInv
<1>3. profiles[req[r].source] \in ProfileRow
  BY <1>1, <1>2 DEF Fits, GenerationFits, IInv, TypeOK
<1> DEFINE u == [req[r] EXCEPT !.loaded = profiles[req[r].source]]
           pc == IF req[r].pc = "reload" THEN "reload_provider" ELSE "source_provider"
           v == [u EXCEPT !.pc = pc]
<1>4. /\ u \in Request /\ u.pc = req[r].pc /\ u.op = req[r].op /\ u.target = req[r].target
      /\ u.source = req[r].source /\ u.loaded = profiles[req[r].source]
  BY <1>1, <1>3, LoadedOK
<1>6. req' = [req EXCEPT ![r] = v]
  BY <1>1, <1>4 DEF LoadProfile, IInv, RowsOK
<1> HIDE DEF u
<1>7. pc \in Pcs
  BY DEF Pcs, SourceSteps, ReloadSteps
<1> HIDE DEF pc
<1>8. /\ v \in Request /\ v.pc = pc /\ v.op = req[r].op /\ v.target = req[r].target
      /\ v.source = req[r].source /\ v.loaded = profiles[req[r].source]
  BY <1>4, <1>7, GotoOK
<1> HIDE DEF v
<1>9. Becomes(r, v)
  BY <1>1, <1>6, <1>8 DEF Becomes, pc
<1>10. req'[r] = v
  BY <1>9, BecomesEffect
<1>11. UNCHANGED tables /\ LocksOf(r)
  BY LocksUnchanged DEF LoadProfile, IInv, tables
<1>12. GenerationFits(r)'
  BY <1>1, <1>2, <1>3, <1>8, <1>10, <1>11
     DEF pc, tables, Fits, GenerationFits, SourceSteps, ReloadSteps
<1>13. Fits(r)'
  BY <1>1, <1>8, <1>10, <1>12 DEF Fits, ConfigFits, ProfileFits, CreateFits, RepairFits
<1> QED
  BY <1>8, <1>9, <1>11, <1>13, QuietStep DEF pc

\* The configuration is read and copied.
LEMMA StepLoadProvider ==
  ASSUME IInv, NEW r \in Requests, LoadProvider(r)
  PROVE  IInv'
<1>1. req[r].pc = "source_provider" /\ req[r].op = "create_generation" /\ req[r] \in Request
  BY OpOf DEF LoadProvider, SourceSteps
<1>2. Fits(r)
  BY DEF IInv
<1>3. CASE Refuse(r)
  BY <1>1, <1>3, EndStep DEF Refuse, tables
<1>4. CASE ~Refuse(r)
  <2> DEFINE p == req[r].loaded
             c == configs[p.provider]
             copy == Snapshot(p, c, c.credential)
             u == [req[r] EXCEPT !.pc = "reserve"]
             v == [u EXCEPT !.loaded = copy]
  <2>1. c.credential # None /\ UNCHANGED <<tables, lock>> /\ req' = [req EXCEPT ![r] = v]
    BY <1>4 DEF LoadProvider, IInv, RowsOK, tables
  <2>2. p \in ProfileRow /\ c \in ConfigRow
    <3>1. p \in ProfileRow
      BY <1>1, <1>2 DEF Fits, GenerationFits
    <3> QED
      BY <3>1 DEF ProfileRow, IInv, TypeOK
  <2>3. copy \in SnapshotRow
    BY <2>1, <2>2 DEF Snapshot, SnapshotRow, ProfileRow, ConfigRow
  <2>4. /\ u \in Request /\ u.pc = "reserve" /\ u.op = req[r].op /\ u.target = req[r].target
        /\ u.source = req[r].source
    BY <1>1, GotoOK DEF Pcs, SourceSteps
  <2> HIDE DEF u, copy
  <2>5. /\ v \in Request /\ v.pc = u.pc /\ v.op = u.op /\ v.target = u.target
        /\ v.source = u.source /\ v.loaded \in SnapshotRow
    BY <2>3, <2>4, LoadedOK
  <2> HIDE DEF v
  <2>6. Becomes(r, v)
    BY <1>1, <2>1, <2>4, <2>5 DEF Becomes
  <2>7. req'[r] = v
    BY <2>6, BecomesEffect
  <2>8. LocksOf(r)
    BY <2>1, LocksUnchanged DEF IInv
  <2>9. GenerationFits(r)'
    BY <1>1, <1>2, <2>1, <2>4, <2>5, <2>7
       DEF tables, Fits, GenerationFits, SourceSteps, ReloadSteps
  <2>10. Fits(r)'
    BY <1>1, <2>4, <2>5, <2>7, <2>9 DEF Fits, ConfigFits, ProfileFits, CreateFits, RepairFits
  <2> QED
    BY <2>1, <2>4, <2>5, <2>6, <2>8, <2>10, QuietStep
<1> QED
  BY <1>3, <1>4

\* A repair locks three rows.
LEMMA StepRepairLocks ==
  ASSUME IInv, NEW r \in Requests,
         LockRepairProfile(r) \/ LockRepairProvider(r) \/ LockRepairCredential(r)
  PROVE  IInv'
<1>1. /\ req[r].pc \in {"repair_profile", "repair_provider", "repair_credential"}
      /\ req[r].op = "repair"
  BY OpOf DEF LockRepairProfile, LockRepairProvider, LockRepairCredential, RepairSteps
<1>2. Fits(r)
  BY DEF IInv
<1>3. PICK pc \in {"repair_provider", "repair_credential", "repair_compare"} : Goto(r, pc)
  BY DEF LockRepairProfile, LockRepairProvider, LockRepairCredential
<1>4. Becomes(r, req'[r]) /\ req'[r].pc = pc /\ Remembers(r)
  BY <1>1, <1>3, GotoEffect DEF Pcs, RepairSteps
<1>5. UNCHANGED tables
  BY DEF LockRepairProfile, LockRepairProvider, LockRepairCredential, tables
<1>6. LocksOf(r)
  BY LockTaken DEF LockRepairProfile, LockRepairProvider, LockRepairCredential, IInv
<1>7. Fits(r)'
  BY <1>1, <1>2, <1>4, <1>5
     DEF tables, Remembers, Fits, ConfigFits, ProfileFits, CreateFits, GenerationFits, RepairFits, RepairSteps
<1> QED
  BY <1>4, <1>5, <1>6, <1>7, QuietStep

\* The comparison agrees, because the generation is active.
LEMMA StepCompare ==
  ASSUME IInv, NEW r \in Requests, CompareConfiguration(r)
  PROVE  IInv'
<1>1. req[r].pc = "repair_compare" /\ req[r].op = "repair"
  BY OpOf DEF CompareConfiguration, RepairSteps
<1>2. req[r].target \in Generations /\ generations[req[r].target].status = "active"
  BY <1>1 DEF IInv, Fits, RepairFits
<1>3. CurrentSnapshot(req[r].target) = generations[req[r].target].snapshot
  BY <1>2 DEF IInv, ActiveConfigurationFrozen
<1>4. End(r, "ok") /\ UNCHANGED tables
  BY <1>3 DEF CompareConfiguration, tables
<1> QED
  BY <1>1, <1>4, EndStep

\* A command begins.
LEMMA StepStart ==
  ASSUME IInv, NEW r \in Requests, Start(r)
  PROVE  IInv'
<1> USE DEF tables
<1>1. req[r].pc = "idle" /\ UNCHANGED <<tables, lock>>
  BY DEF Start, StartUpdateConfig, StartUpdateProfile, StartCreateProfile, StartCreateGeneration, StartRepair
<1>2. PICK v : req' = [req EXCEPT ![r] = v] /\ v \in Request /\ v.pc \notin {"idle", "done"}
                 /\ Fits(r)'
                 /\ \A s \in Requests \ {r} :
                      v.op = req[s].op /\ v.target = req[s].target =>
                        /\ v.op # "create_profile"
                        /\ v.op = "create_generation" => req[s].pc = "done"
  <2>0. req \in [Requests -> Request]
    BY DEF IInv, RowsOK
  <2>1. CASE StartUpdateConfig(r)
    <3>1. PICK c \in Configs, patch \in ConfigPatches :
            req' = [req EXCEPT ![r] =
                     [Idle EXCEPT !.op = "update_config", !.pc = "config_read",
                                  !.admin = AdminOf[r], !.target = c, !.patch = patch,
                                  !.etag = GetProviderConfig(c)]]
      BY <2>1 DEF StartUpdateConfig
    <3> DEFINE v == [Idle EXCEPT !.op = "update_config", !.pc = "config_read", !.admin = AdminOf[r],
                              !.target = c, !.patch = patch, !.etag = GetProviderConfig(c)]
    <3>2. req' = [req EXCEPT ![r] = v]
      BY <3>1
    <3>3. GetProviderConfig(c) \in Nat
      BY DEF GetProviderConfig, IInv, TypeOK, ConfigRow
    <3>4. v \in Request
      BY <3>3 DEF Request, ConfigSteps, Rows, Idle
    <3>5. /\ v.op = "update_config" /\ v.pc = "config_read" /\ v.admin = AdminOf[r]
          /\ v.target = c /\ v.patch = patch /\ v.etag = GetProviderConfig(c)
          /\ v.seen = None /\ v.source = None /\ v.loaded = None /\ v.result = "none"
      BY DEF Idle
    <3> HIDE DEF v
    <3>6. req'[r] = v
      BY <2>0, <3>2
    <3>7. Fits(r)'
      BY <3>5, <3>6 DEF Fits, ConfigFits, ProfileFits, CreateFits, GenerationFits, RepairFits, ConfigSteps
    <3> QED
      BY <3>2, <3>4, <3>5, <3>7
  <2>2. CASE StartUpdateProfile(r)
    <3>1. PICK p \in Profiles, patch \in ProfilePatches :
            /\ profiles[p].revision > 0
            /\ req' = [req EXCEPT ![r] =
                        [Idle EXCEPT !.op = "update_profile", !.pc = "profile_actor",
                                     !.admin = AdminOf[r], !.target = p, !.patch = patch,
                                     !.etag = GetModelProfile(p)]]
      BY <2>2 DEF StartUpdateProfile
    <3> DEFINE v == [Idle EXCEPT !.op = "update_profile", !.pc = "profile_actor",
                              !.admin = AdminOf[r], !.target = p, !.patch = patch,
                              !.etag = GetModelProfile(p)]
    <3>2. req' = [req EXCEPT ![r] = v]
      BY <3>1
    <3>3. GetModelProfile(p) \in Nat
      BY DEF GetModelProfile, IInv, TypeOK, ProfileRow
    <3>4. v \in Request
      BY <3>3 DEF Request, ProfileSteps, Rows, Idle
    <3>5. /\ v.op = "update_profile" /\ v.pc = "profile_actor" /\ v.admin = AdminOf[r]
          /\ v.target = p /\ v.patch = patch /\ v.etag = GetModelProfile(p) /\ v.seen = None
          /\ v.source = None /\ v.loaded = None /\ v.result = "none"
      BY DEF Idle
    <3> HIDE DEF v
    <3>6. req'[r] = v
      BY <2>0, <3>2
    <3>7. Fits(r)'
      BY <1>1, <3>1, <3>5, <3>6
         DEF Fits, ConfigFits, ProfileFits, CreateFits, GenerationFits, RepairFits, ProfileSteps
    <3> QED
      BY <3>2, <3>4, <3>5, <3>7
  <2>3. CASE StartCreateProfile(r)
    <3>1. PICK c \in Configs, p \in Profiles :
            /\ profiles[p].revision = 0
            /\ \A s \in Requests : req[s].op = "create_profile" => req[s].target # p
            /\ req' = [req EXCEPT ![r] =
                        [Idle EXCEPT !.op = "create_profile", !.pc = "create_actor",
                                     !.admin = AdminOf[r], !.target = p, !.seen = c]]
      BY <2>3 DEF StartCreateProfile
    <3> DEFINE v == [Idle EXCEPT !.op = "create_profile", !.pc = "create_actor",
                              !.admin = AdminOf[r], !.target = p, !.seen = c]
    <3>2. req' = [req EXCEPT ![r] = v]
      BY <3>1
    <3>3. c \in Int
      OBVIOUS
    <3>4. v \in Request
      BY <3>3 DEF Request, CreateSteps, Rows, Idle
    <3>5. /\ v.op = "create_profile" /\ v.pc = "create_actor" /\ v.admin = AdminOf[r]
          /\ v.target = p /\ v.patch = None /\ v.etag = 0 /\ v.seen = c /\ v.source = None
          /\ v.loaded = None /\ v.result = "none"
      BY DEF Idle
    <3> HIDE DEF v
    <3>6. req'[r] = v
      BY <2>0, <3>2
    <3>7. Fits(r)'
      BY <1>1, <3>1, <3>5, <3>6
         DEF Fits, ConfigFits, ProfileFits, CreateFits, GenerationFits, RepairFits, CreateSteps
    <3> QED
      BY <3>1, <3>2, <3>4, <3>5, <3>7
  <2>4. CASE StartCreateGeneration(r)
    <3>1. PICK g \in Generations, p \in Profiles, pc \in {"source_profile", "reload"} :
            /\ \A s \in Requests : req[s].target = g => req[s].pc = "done"
            /\ profiles[p].revision > 0
            /\ pc = "source_profile" => generations[g].status = "absent"
            /\ pc = "reload" => generations[g].status = "building" /\ generations[g].profile = p
            /\ req' = [req EXCEPT ![r] =
                        [Idle EXCEPT !.op = "create_generation", !.target = g, !.pc = pc,
                                     !.source = p]]
      BY <2>4 DEF StartCreateGeneration, IInv, RowsOK
    <3> DEFINE v == [Idle EXCEPT !.op = "create_generation", !.target = g, !.pc = pc, !.source = p]
    <3>2. req' = [req EXCEPT ![r] = v]
      BY <3>1
    <3>4. v \in Request
      BY DEF Request, SourceSteps, ReloadSteps, Idle
    <3>5. /\ v.op = "create_generation" /\ v.pc = pc /\ v.admin = None /\ v.target = g
          /\ v.patch = None /\ v.etag = 0 /\ v.seen = None /\ v.source = p
          /\ v.loaded = None /\ v.result = "none"
      BY DEF Idle
    <3> HIDE DEF v
    <3>6. req'[r] = v
      BY <2>0, <3>2
    <3>7. Fits(r)'
      BY <1>1, <3>1, <3>5, <3>6
         DEF Fits, ConfigFits, ProfileFits, CreateFits, GenerationFits, RepairFits, SourceSteps, ReloadSteps
    <3>8. v.pc \notin {"idle", "done"} /\ v.op # "create_profile"
      BY <3>5
    <3>9. \A s \in Requests \ {r} : v.target = req[s].target => req[s].pc = "done"
      BY <3>1, <3>5
    <3> QED
      BY <3>2, <3>4, <3>7, <3>8, <3>9, ZenonT(60)
  <2>5. CASE StartRepair(r)
    <3>1. PICK g \in Generations :
            /\ generations[g].status = "active"
            /\ req' = [req EXCEPT ![r] = [Idle EXCEPT !.op = "repair", !.target = g,
                                                      !.pc = "repair_profile"]]
      BY <2>5 DEF StartRepair
    <3> DEFINE v == [Idle EXCEPT !.op = "repair", !.target = g, !.pc = "repair_profile"]
    <3>2. req' = [req EXCEPT ![r] = v]
      BY <3>1
    <3>4. v \in Request
      BY DEF Request, RepairSteps, Idle
    <3>5. /\ v.op = "repair" /\ v.pc = "repair_profile" /\ v.admin = None /\ v.target = g
          /\ v.patch = None /\ v.etag = 0 /\ v.seen = None /\ v.source = None
          /\ v.loaded = None /\ v.result = "none"
      BY DEF Idle
    <3> HIDE DEF v
    <3>6. req'[r] = v
      BY <2>0, <3>2
    <3>7. Fits(r)'
      BY <1>1, <3>1, <3>5, <3>6
         DEF Fits, ConfigFits, ProfileFits, CreateFits, GenerationFits, RepairFits, RepairSteps
    <3> QED
      BY <3>2, <3>4, <3>5, <3>7
  <2> QED
    BY <2>1, <2>2, <2>3, <2>4, <2>5 DEF Start
<1>3. /\ req' \in [Requests -> Request] /\ req'[r] = v
      /\ \A s \in Requests : s # r => req'[s] = req[s]
  BY <1>2 DEF IInv, RowsOK
<1>4. TypeOK'
  BY <1>1, <1>2, <1>3 DEF IInv, TypeOK
<1>5. RowsOK'
  BY <1>1, <1>3 DEF IInv, RowsOK
<1>6. ActiveConfigurationFrozen'
  BY <1>1 DEF IInv, ActiveConfigurationFrozen, CurrentSnapshot
<1>7. CreatorsApart'
  BY <1>2, <1>3 DEF IInv, CreatorsApart
<1>9. \A s \in Requests : Fits(s)'
  <2>1. ASSUME NEW s \in Requests, s # r PROVE Fits(s)'
    <3>1. TablesKeep(s) /\ \A x \in Rows : lock[x] = s => lock'[x] = s
      BY <1>1, <2>1, UnchangedKeep
    <3> QED
      BY <1>3, <2>1, <3>1, OthersFit
  <2> QED
    BY <1>2, <2>1
<1> QED
  BY <1>4, <1>5, <1>6, <1>7, <1>9, ZenonT(60) DEF IInv

-----------------------------------------------------------------------------
(* The steps that write.                                                    *)

\* What an ending step leaves to be shown when it has written.
LEMMA EndWrites ==
  ASSUME IInv, NEW r \in Requests, NEW result \in {"ok", "refused", "aborted"},
         End(r, result), req[r].pc # "done",
         req[r].op \notin {"none", "repair"},
         TablesOK', \A s \in Requests : TablesKeep(s) \/ s = r,
         \A p \in Profiles : profiles[p].revision > 0 => profiles'[p].revision > 0
  PROVE  IInv'
<1>0. LocksOf(r) /\ \A x \in Rows : lock'[x] # r
  BY EndBecomes
<1>1. PICK v : /\ Becomes(r, v) /\ v.pc = "done" /\ v.result = result
               /\ v.admin = req[r].admin /\ v.patch = req[r].patch /\ v.seen = req[r].seen
               /\ v.source = req[r].source
  BY EndBecomes
<1>2. req'[r] = v
  BY <1>1, BecomesEffect
<1>3. Fits(r)
  BY DEF IInv
<1>4. Fits(r)'
  BY <1>1, <1>2, <1>3
     DEF Becomes, Fits, ConfigFits, ProfileFits, CreateFits, GenerationFits, RepairFits,
         SourceSteps, ReloadSteps
<1> QED
  BY <1>0, <1>1, <1>4, WriteStep

\* A profile that a generation was made from is there.
LEMMA ReferencedIsThere ==
  ASSUME IInv, NEW p \in Profiles, IsReferencedByGeneration(p)
  PROVE  profiles[p].revision > 0
BY DEF IInv, RowsOK, IsReferencedByGeneration

\* A configuration changes: nothing that a generation copied, and no row that
\* another request has locked.
LEMMA StepWriteConfig ==
  ASSUME IInv, NEW r \in Requests, WriteConfig(r)
  PROVE  IInv'
<1> DEFINE c == req[r].target
           row == configs[c]
           patch == req[r].patch
           new == [Patched(row, patch) EXCEPT !.revision = row.revision + 1]
<1>1. req[r].pc = "config_write" /\ req[r].op = "update_config"
  BY OpOf DEF WriteConfig, ConfigSteps
<1>2. Fits(r)
  BY DEF IInv
<1>3. CASE Refuse(r)
  BY <1>1, <1>3, EndStep DEF Refuse, tables
<1>4. CASE ~Refuse(r)
  <2>1. /\ configs' = [configs EXCEPT ![c] = new] /\ End(r, "ok")
        /\ UNCHANGED <<keys, profiles, generations>>
    BY <1>4 DEF WriteConfig
  <2>2. c \in Configs /\ patch \in ConfigPatches /\ lock[c] = r
    BY <1>1, <1>2 DEF Fits, ConfigFits
  <2>3. configs \in [Configs -> ConfigRow] /\ profiles \in [Profiles -> ProfileRow]
    BY DEF IInv, TypeOK
  <2>4. /\ new \in ConfigRow
        /\ ~ProviderSemanticsChanged(row, patch) =>
             new.type = row.type /\ new.url = row.url /\ new.routing = row.routing
    BY <2>2, <2>3, PatchedConfig
  <2>5. ProviderSemanticsChanged(row, patch) =>
          \A p \in ProfilesOf(c) : ~IsReferencedByGeneration(p)
    BY <1>1, <1>2 DEF Fits, ConfigFits
  <2> HIDE DEF new
  <2>6. configs' \in [Configs -> ConfigRow] /\ \A d \in Configs : d # c => configs'[d] = configs[d]
    BY <2>1, <2>2, <2>3, <2>4
  <2>7. configs'[c] = new
    BY <2>1, <2>2, <2>3
  <2>8. ASSUME NEW g \in Generations, generations[g].status # "absent"
        PROVE  CurrentSnapshot(g)' = CurrentSnapshot(g)
    <3> DEFINE p == generations[g].profile
               d == profiles[p].provider
    <3>1. p \in Profiles /\ profiles[p].revision > 0
      BY <2>8 DEF IInv, RowsOK
    <3>2. d \in Configs
      BY <2>3, <3>1 DEF ProfileRow
    <3>3. d = c => ~ProviderSemanticsChanged(row, patch)
      BY <2>5, <3>1 DEF ProfilesOf, IsReferencedByGeneration
    <3>4. /\ configs'[d].type = configs[d].type /\ configs'[d].url = configs[d].url
          /\ configs'[d].routing = configs[d].routing
      BY <2>4, <2>6, <2>7, <3>2, <3>3
    <3> QED
      BY <2>1, <3>4 DEF CurrentSnapshot, Snapshot
  <2>9. TablesOK'
    <3>1. ActiveConfigurationFrozen'
      BY <2>1, <2>8 DEF IInv, ActiveConfigurationFrozen
    <3> QED
      BY <2>1, <2>6, <3>1, TablesAreOK DEF TablesOK
  <2>10. ASSUME NEW s \in Requests, s # r PROVE TablesKeep(s)
    <3>1. /\ \A d : ProfilesOf(d)' = ProfilesOf(d)
          /\ \A p : IsReferencedByGeneration(p)' = IsReferencedByGeneration(p)
      BY <2>1 DEF ProfilesOf, IsReferencedByGeneration
    <3>2. req[s].op = "create_profile" /\ req[s].pc # "done" =>
            profiles[req[s].target].revision = 0
      BY DEF IInv, Fits, CreateFits
    <3>3. \A d \in Configs : lock[d] = s => configs'[d] = configs[d]
      BY <2>2, <2>6, <2>10
    <3> QED
      BY <2>1, <2>8, <3>1, <3>2, <3>3 DEF TablesKeep
  <2> QED
    BY <1>1, <2>1, <2>9, <2>10, EndWrites
<1> QED
  BY <1>3, <1>4

\* A profile changes: not its model and provider when a generation was made
\* from it, and it enters no configuration that another request has locked.
LEMMA StepWriteProfile ==
  ASSUME IInv, NEW r \in Requests, WriteProfile(r)
  PROVE  IInv'
<1> DEFINE p == req[r].target
           row == profiles[p]
           patch == req[r].patch
           new == [Patched(row, patch) EXCEPT !.revision = row.revision + 1]
<1>1. req[r].pc = "profile_write" /\ req[r].op = "update_profile"
  BY OpOf DEF WriteProfile, ProfileSteps
<1>2. Fits(r)
  BY DEF IInv
<1>3. CASE Refuse(r)
  BY <1>1, <1>3, EndStep DEF Refuse, tables
<1>4. CASE ~Refuse(r)
  <2>1. /\ profiles' = [profiles EXCEPT ![p] = new] /\ End(r, "ok")
        /\ UNCHANGED <<keys, configs, generations>>
        /\ IsReferencedByGeneration(p) => ~ProfileSemanticsChanged(row, patch)
    BY <1>4 DEF WriteProfile
  <2>2. p \in Profiles /\ patch \in ProfilePatches /\ row.revision > 0
    BY <1>1, <1>2 DEF Fits, ProfileFits
  <2>3. profiles \in [Profiles -> ProfileRow] /\ row \in ProfileRow
    BY <2>2 DEF IInv, TypeOK
  <2>4. /\ new \in ProfileRow /\ new.revision = row.revision + 1
        /\ \/ new.provider = row.provider
           \/ "provider" \in DOMAIN patch /\ new.provider = patch.provider
        /\ ~ProfileSemanticsChanged(row, patch) =>
             new.provider = row.provider /\ new.model = row.model
    BY <2>2, <2>3, PatchedProfile
  <2>5. "provider" \in DOMAIN patch => lock[patch.provider] = r
    BY <1>1, <1>2 DEF Fits, ProfileFits, UnlockedConfigs, ConfigsToLock
  <2> HIDE DEF new
  <2>6. /\ profiles' \in [Profiles -> ProfileRow] /\ profiles'[p] = new
        /\ \A q \in Profiles : q # p => profiles'[q] = profiles[q]
    BY <2>1, <2>2, <2>3, <2>4
  <2>7. \A q \in Profiles : profiles[q].revision > 0 => profiles'[q].revision > 0
    <3>1. row.revision \in Nat
      BY <2>3 DEF ProfileRow
    <3>2. new.revision > 0
      BY <2>4, <3>1
    <3> QED
      BY <2>6, <3>2
  <2>8. \A q \in Profiles :
          IsReferencedByGeneration(q) =>
            profiles'[q].provider = profiles[q].provider /\ profiles'[q].model = profiles[q].model
    BY <2>1, <2>4, <2>6
  <2>9. ASSUME NEW g \in Generations, generations[g].status # "absent"
        PROVE  CurrentSnapshot(g)' = CurrentSnapshot(g)
    <3>1. generations[g].profile \in Profiles
      BY <2>9 DEF IInv, RowsOK
    <3>2. IsReferencedByGeneration(generations[g].profile)
      BY DEF IsReferencedByGeneration
    <3> QED
      BY <2>1, <2>8, <3>1, <3>2 DEF CurrentSnapshot, Snapshot
  <2>10. TablesOK'
    <3>1. ActiveConfigurationFrozen'
      BY <2>1, <2>9 DEF IInv, ActiveConfigurationFrozen
    <3> QED
      BY <2>1, <2>6, <2>7, <3>1, TablesAreOK DEF TablesOK
  <2>11. ASSUME NEW s \in Requests, s # r PROVE TablesKeep(s)
    <3>1. \A q : IsReferencedByGeneration(q)' = IsReferencedByGeneration(q)
      BY <2>1 DEF IsReferencedByGeneration
    <3>2. req[s].op = "create_profile" /\ req[s].pc # "done" =>
            profiles'[req[s].target].revision = 0
      <4>1. SUFFICES ASSUME req[s].op = "create_profile", req[s].pc # "done"
                     PROVE  profiles'[req[s].target].revision = 0
        OBVIOUS
      <4>2. req[s].target \in Profiles /\ profiles[req[s].target].revision = 0
        BY <4>1 DEF IInv, Fits, CreateFits
      <4> QED
        BY <2>2, <2>6, <4>2
    <3>3. ASSUME NEW d \in Configs, lock[d] = s, NEW q \in ProfilesOf(d)'
          PROVE  q \in ProfilesOf(d)
      <4>1. q \in Profiles /\ profiles'[q].provider = d
        BY DEF ProfilesOf
      <4>2. CASE q # p
        BY <2>6, <3>3, <4>1, <4>2 DEF ProfilesOf
      <4>3. CASE q = p
        <5>1. new.provider = row.provider
          BY <2>4, <2>5, <2>6, <2>11, <3>3, <4>1, <4>3
        <5> QED
          BY <2>2, <2>6, <4>1, <4>3, <5>1 DEF ProfilesOf
      <4> QED
        BY <4>2, <4>3
    <3> QED
      BY <2>1, <2>7, <2>8, <2>9, <3>1, <3>2, <3>3 DEF TablesKeep
  <2> QED
    BY <1>1, <2>1, <2>7, <2>10, <2>11, EndWrites
<1> QED
  BY <1>3, <1>4

\* A profile is created, which no generation and no request knows of.
LEMMA StepWriteNewProfile ==
  ASSUME IInv, NEW r \in Requests, WriteNewProfile(r)
  PROVE  IInv'
<1> DEFINE p == req[r].target
           c == req[r].seen
           new == [provider |-> c, model |-> NewProfile.model, enabled |-> NewProfile.enabled,
                   revision |-> 1]
<1>1. req[r].pc = "create_write" /\ req[r].op = "create_profile"
  BY OpOf DEF WriteNewProfile, CreateSteps
<1>2. Fits(r)
  BY DEF IInv
<1>3. CASE Refuse(r)
  BY <1>1, <1>3, EndStep DEF Refuse, tables
<1>4. CASE ~Refuse(r)
  <2>1. /\ profiles' = [profiles EXCEPT ![p] = new] /\ End(r, "ok")
        /\ UNCHANGED <<keys, configs, generations>>
        /\ lock[c] \in {None, r}
    BY <1>4 DEF WriteNewProfile
  <2>2. p \in Profiles /\ c \in Configs /\ profiles[p].revision = 0
    BY <1>1, <1>2 DEF Fits, CreateFits
  <2>3. profiles \in [Profiles -> ProfileRow]
    BY DEF IInv, TypeOK
  <2>4. new \in ProfileRow /\ new.revision = 1 /\ new.provider = c
    BY <2>2, BodiesAssumption DEF ProfileRow
  <2> HIDE DEF new
  <2>6. /\ profiles' \in [Profiles -> ProfileRow] /\ profiles'[p] = new
        /\ \A q \in Profiles : q # p => profiles'[q] = profiles[q]
    BY <2>1, <2>2, <2>3, <2>4
  <2>7. \A q \in Profiles : profiles[q].revision > 0 => profiles'[q].revision > 0
    BY <2>4, <2>6
  <2>8. \A q \in Profiles : IsReferencedByGeneration(q) => profiles'[q] = profiles[q]
    BY <2>2, <2>6, ReferencedIsThere
  <2>9. ASSUME NEW g \in Generations, generations[g].status # "absent"
        PROVE  CurrentSnapshot(g)' = CurrentSnapshot(g)
    <3>1. generations[g].profile \in Profiles
      BY <2>9 DEF IInv, RowsOK
    <3>2. IsReferencedByGeneration(generations[g].profile)
      BY DEF IsReferencedByGeneration
    <3> QED
      BY <2>1, <2>8, <3>1, <3>2 DEF CurrentSnapshot, Snapshot
  <2>10. TablesOK'
    <3>1. ActiveConfigurationFrozen'
      BY <2>1, <2>9 DEF IInv, ActiveConfigurationFrozen
    <3> QED
      BY <2>1, <2>6, <2>7, <3>1, TablesAreOK DEF TablesOK
  <2>11. ASSUME NEW s \in Requests, s # r PROVE TablesKeep(s)
    <3>1. \A q : IsReferencedByGeneration(q)' = IsReferencedByGeneration(q)
      BY <2>1 DEF IsReferencedByGeneration
    <3>2. req[s].op = "create_profile" /\ req[s].pc # "done" =>
            profiles'[req[s].target].revision = 0
      <4>1. SUFFICES ASSUME req[s].op = "create_profile", req[s].pc # "done"
                     PROVE  profiles'[req[s].target].revision = 0
        OBVIOUS
      <4>2. req[s].target \in Profiles /\ profiles[req[s].target].revision = 0
        BY <4>1 DEF IInv, Fits, CreateFits
      <4>3. req[s].target # p
        BY <1>1, <2>11, <4>1 DEF IInv, CreatorsApart
      <4> QED
        BY <2>6, <4>2, <4>3
    <3>3. ASSUME NEW d \in Configs, lock[d] = s, NEW q \in ProfilesOf(d)'
          PROVE  q \in ProfilesOf(d)
      <4>1. q \in Profiles /\ profiles'[q].provider = d
        BY DEF ProfilesOf
      <4>2. q # p
        BY <2>1, <2>4, <2>6, <2>11, <3>3, <4>1
      <4> QED
        BY <2>6, <3>3, <4>1, <4>2 DEF ProfilesOf
    <3> QED
      BY <2>1, <2>7, <2>8, <2>9, <3>1, <3>2, <3>3 DEF TablesKeep
  <2> QED
    BY <1>1, <2>1, <2>7, <2>10, <2>11, EndWrites
<1> QED
  BY <1>3, <1>4


\* A generation is written by the request that creates it: it is reserved for a
\* profile that nobody has locked, or it leaves "building" and keeps the rest.
LEMMA GenerationWritten ==
  ASSUME IInv, NEW r \in Requests, NEW g \in Generations, NEW new \in GenerationRow,
         req[r].op = "create_generation", req[r].pc # "done", req[r].target = g,
         generations' = [generations EXCEPT ![g] = new],
         UNCHANGED <<keys, configs, profiles>>,
         new.status # "absent", new.profile \in Profiles, new.snapshot \in SnapshotRow,
         profiles[new.profile].revision > 0,
         generations[g].status = "absent" => new.status # "active" /\ lock[new.profile] = None,
         generations[g].status # "absent" =>
           /\ generations[g].status = "building"
           /\ new.profile = generations[g].profile /\ new.snapshot = generations[g].snapshot,
         new.status = "active" => CurrentSnapshot(g) = new.snapshot
  PROVE  /\ TablesOK' /\ \A s \in Requests : s # r => TablesKeep(s)
<1>1. /\ generations' \in [Generations -> GenerationRow] /\ generations'[g] = new
      /\ \A h \in Generations : h # g => generations'[h] = generations[h]
  BY DEF IInv, RowsOK
<1>2. ASSUME NEW h \in Generations, generations[h].status # "absent"
      PROVE  CurrentSnapshot(h)' = CurrentSnapshot(h)
  <2>1. generations'[h].profile = generations[h].profile
        /\ generations'[h].snapshot = generations[h].snapshot
    BY <1>1, <1>2
  <2> QED
    BY <2>1 DEF CurrentSnapshot, Snapshot
<1>3. ActiveConfigurationFrozen'
  <2>1. SUFFICES ASSUME NEW h \in Generations, generations'[h].status = "active"
                 PROVE  CurrentSnapshot(h)' = generations'[h].snapshot
    BY DEF ActiveConfigurationFrozen
  <2>2. CASE h = g
    BY <1>1, <1>2, <2>1, <2>2
  <2>3. CASE h # g
    BY <1>1, <1>2, <2>1, <2>3 DEF IInv, ActiveConfigurationFrozen
  <2> QED
    BY <2>2, <2>3
<1>4. TablesOK'
  <2>1. \A h \in Generations :
          IF generations'[h].status = "absent" THEN generations'[h].profile = None
          ELSE /\ generations'[h].profile \in Profiles /\ generations'[h].snapshot \in SnapshotRow
               /\ profiles'[generations'[h].profile].revision > 0
    BY <1>1 DEF IInv, RowsOK
  <2> QED
    BY <1>1, <1>3, <2>1, TablesAreOK DEF TablesOK
<1>5. ASSUME NEW s \in Requests, s # r PROVE TablesKeep(s)
  <2>1. \A d : ProfilesOf(d)' = ProfilesOf(d)
    BY DEF ProfilesOf
  <2>2. ASSUME NEW p \in Profiles, lock[p] = s, IsReferencedByGeneration(p)'
        PROVE  IsReferencedByGeneration(p)
    <3>1. PICK h \in Generations : generations'[h].profile = p
      BY <2>2 DEF IsReferencedByGeneration
    <3>2. generations[h].profile = p
      BY <1>1, <2>2, <3>1
    <3> QED
      BY <3>2 DEF IsReferencedByGeneration
  <2>3. \A h \in Generations : generations[h].status = "active" => generations'[h].status = "active"
    BY <1>1
  <2>4. req[s].op = "create_profile" /\ req[s].pc # "done" => profiles[req[s].target].revision = 0
    BY DEF IInv, Fits, CreateFits
  <2>5. ASSUME req[s].op = "create_generation", req[s].pc # "done"
        PROVE  generations'[req[s].target] = generations[req[s].target]
    <3>1. req[s].target \in Generations
      BY <2>5 DEF IInv, Fits, GenerationFits
    <3>2. req[s].target # g
      BY <1>5, <2>5 DEF IInv, CreatorsApart
    <3> QED
      BY <1>1, <3>1, <3>2
  <2> QED
    BY <1>2, <2>1, <2>2, <2>3, <2>4, <2>5 DEF TablesKeep
<1> QED
  BY <1>4, <1>5

\* The reservation: the snapshot is what was copied before, the profile is
\* there, and its holders, if any, are waited for.
LEMMA StepReserve ==
  ASSUME IInv, NEW r \in Requests, ReserveGeneration(r)
  PROVE  IInv'
<1> DEFINE g == req[r].target
           p == req[r].source
           new == [status |-> "building", profile |-> p, snapshot |-> req[r].loaded]
<1>1. req[r].pc = "reserve" /\ req[r].op = "create_generation"
  BY OpOf DEF ReserveGeneration, SourceSteps
<1>2. Fits(r)
  BY DEF IInv
<1>3. /\ lock[p] = None /\ generations' = [generations EXCEPT ![g] = new]
      /\ Goto(r, "reload") /\ UNCHANGED <<keys, configs, profiles>> /\ lock' = lock
  BY DEF ReserveGeneration
<1>4. /\ g \in Generations /\ p \in Profiles /\ profiles[p].revision > 0
      /\ generations[g].status = "absent" /\ req[r].loaded \in SnapshotRow
  BY <1>1, <1>2 DEF Fits, GenerationFits, SourceSteps
<1>5. /\ new \in GenerationRow /\ new.status = "building" /\ new.profile = p
      /\ new.snapshot = req[r].loaded
  BY <1>4 DEF GenerationRow
<1> HIDE DEF new
<1>6. TablesOK' /\ \A s \in Requests : s # r => TablesKeep(s)
  BY <1>1, <1>3, <1>4, <1>5, GenerationWritten
<1>7. Becomes(r, req'[r]) /\ req'[r].pc = "reload" /\ Remembers(r)
  BY <1>1, <1>3, GotoEffect DEF Pcs, ReloadSteps
<1>8. generations'[g].status = "building" /\ generations'[g].profile = p
  BY <1>3, <1>4, <1>5 DEF IInv, RowsOK
<1>9. Fits(r)'
  BY <1>1, <1>3, <1>4, <1>7, <1>8
     DEF Remembers, Fits, ConfigFits, ProfileFits, CreateFits, GenerationFits, RepairFits,
         SourceSteps, ReloadSteps
<1>10. LocksOf(r)
  BY <1>3, LocksUnchanged DEF IInv
<1> QED
  BY <1>6, <1>7, <1>9, <1>10, WriteStep

\* A generation in the making fails, is activated or waits for a retry.
LEMMA GenerationSettles ==
  ASSUME IInv, NEW r \in Requests, req[r].pc \in ReloadSteps, req[r].op = "create_generation",
         NEW status \in {"active", "failed"}, NEW result \in {"ok", "refused"},
         generations' = [generations EXCEPT ![req[r].target].status = status],
         End(r, result), UNCHANGED <<keys, configs, profiles>>,
         status = "active" => req[r].pc = "activate"
  PROVE  IInv'
<1> DEFINE g == req[r].target
           old == generations[g]
           new == [old EXCEPT !.status = status]
<1>1. Fits(r) /\ req[r].pc # "done"
  BY DEF IInv, ReloadSteps
<1>2. /\ g \in Generations /\ old.status = "building"
      /\ status = "active" => CurrentSnapshot(g) = old.snapshot
  BY <1>1 DEF Fits, GenerationFits
<1>3. /\ old \in GenerationRow /\ old.profile \in Profiles /\ old.snapshot \in SnapshotRow
      /\ profiles[old.profile].revision > 0
  BY <1>2 DEF IInv, RowsOK
<1>4. /\ new \in GenerationRow /\ new.status = status /\ new.profile = old.profile
      /\ new.snapshot = old.snapshot
  BY <1>3 DEF GenerationRow
<1>5. generations' = [generations EXCEPT ![g] = new]
  BY <1>2 DEF IInv, RowsOK
<1> HIDE DEF new
<1>6. TablesOK' /\ \A s \in Requests : s # r => TablesKeep(s)
  <2>1. /\ new.status # "absent" /\ new.profile \in Profiles /\ new.snapshot \in SnapshotRow
        /\ profiles[new.profile].revision > 0
        /\ new.status = "active" => CurrentSnapshot(g) = new.snapshot
    BY <1>2, <1>3, <1>4
  <2>2. /\ generations[g].status = "building"
        /\ new.profile = generations[g].profile /\ new.snapshot = generations[g].snapshot
    BY <1>2, <1>4
  <2> QED
    BY <1>1, <1>2, <1>4, <1>5, <2>1, <2>2, GenerationWritten, ZenonT(60)
<1> QED
  BY <1>1, <1>6, EndWrites

\* The second look: what was read of the profile is still true, so agreement
\* with it is agreement with the live rows.
LEMMA StepCheckDrift ==
  ASSUME IInv, NEW r \in Requests, CheckDrift(r)
  PROVE  IInv'
<1> DEFINE g == req[r].target
           p == req[r].loaded
<1>1. req[r].pc = "reload_provider" /\ req[r].op = "create_generation"
  BY OpOf DEF CheckDrift, ReloadSteps
<1>2. Fits(r)
  BY DEF IInv
<1>3. CASE Goto(r, "activate") /\ UNCHANGED <<generations, lock>>
           /\ Snapshot(p, configs[p.provider], generations[g].snapshot.credential)
                = generations[g].snapshot
  <2>1. UNCHANGED tables /\ LocksOf(r)
    BY <1>3, LocksUnchanged DEF CheckDrift, tables, IInv
  <2>2. Becomes(r, req'[r]) /\ req'[r].pc = "activate" /\ Remembers(r)
    <3>1. "activate" \in Pcs \ {"idle"}
      BY DEF Pcs, ReloadSteps
    <3> QED
      BY <1>1, <1>3, <3>1, GotoEffect
  <2>3. CurrentSnapshot(g) = generations[g].snapshot
    BY <1>1, <1>2, <1>3 DEF Fits, GenerationFits, ReloadSteps, CurrentSnapshot, Snapshot
  <2>4. CurrentSnapshot(g)' = generations'[g].snapshot
    BY <2>1, <2>2, <2>3 DEF tables, CurrentSnapshot, Remembers
  <2>5. Fits(r)'
    BY <1>1, <1>2, <2>1, <2>2, <2>4
       DEF tables, Remembers, Fits, ConfigFits, ProfileFits, CreateFits, GenerationFits, RepairFits,
           SourceSteps, ReloadSteps
  <2> QED
    BY <2>1, <2>2, <2>5, QuietStep
<1>4. CASE generations' = [generations EXCEPT ![g].status = "failed"] /\ End(r, "refused")
  BY <1>1, <1>4, GenerationSettles DEF CheckDrift, ReloadSteps
<1> QED
  BY <1>3, <1>4 DEF CheckDrift

LEMMA StepActivate ==
  ASSUME IInv, NEW r \in Requests, ActivateGeneration(r)
  PROVE  IInv'
<1>1. req[r].pc = "activate" /\ req[r].op = "create_generation"
  BY OpOf DEF ActivateGeneration, ReloadSteps
<1>2. CASE UNCHANGED generations /\ End(r, "refused")
  BY <1>1, <1>2, EndStep DEF ActivateGeneration, tables
<1>3. CASE \/ generations' = [generations EXCEPT ![req[r].target].status = "active"] /\ End(r, "ok")
           \/ generations' = [generations EXCEPT ![req[r].target].status = "failed"]
              /\ End(r, "refused")
  BY <1>1, <1>3, GenerationSettles DEF ActivateGeneration, ReloadSteps
<1> QED
  BY <1>2, <1>3 DEF ActivateGeneration

\* A key is revoked only when no request holds it.
LEMMA StepRevoke ==
  ASSUME IInv, NEW a \in Admins, RevokeAdminKey(a)
  PROVE  IInv'
<1>1. /\ lock[a] = None /\ keys' = [keys EXCEPT ![a] = "revoked"]
      /\ UNCHANGED <<configs, profiles, generations, lock, req>>
  BY DEF RevokeAdminKey
<1>2. /\ \A c : ProfilesOf(c)' = ProfilesOf(c)
      /\ \A p : IsReferencedByGeneration(p)' = IsReferencedByGeneration(p)
      /\ \A g : CurrentSnapshot(g)' = CurrentSnapshot(g)
  BY <1>1 DEF ProfilesOf, IsReferencedByGeneration, CurrentSnapshot
<1>3. TypeOK' /\ RowsOK' /\ ActiveConfigurationFrozen' /\ CreatorsApart'
  BY <1>1, <1>2 DEF IInv, TypeOK, RowsOK, ActiveConfigurationFrozen, CreatorsApart
<1>4. ASSUME NEW s \in Requests PROVE Fits(s)'
  <2>1. \A b \in Admins : lock[b] = s => keys'[b] = keys[b]
    BY <1>1 DEF IInv, TypeOK
  <2>2. req[s].op = "create_profile" /\ req[s].pc # "done" => profiles[req[s].target].revision = 0
    BY DEF IInv, Fits, CreateFits
  <2>3. TablesKeep(s)
    BY <1>1, <1>2, <2>1, <2>2 DEF TablesKeep
  <2> QED
    BY <1>1, <2>3, OthersFit
<1> QED
  BY <1>3, <1>4 DEF IInv

-----------------------------------------------------------------------------
(* The invariant and what follows from it.                                  *)

\* Nothing runs at the start, and the generations that are there agree with
\* the rows they are made from.
LEMMA InitIInv == Init => IInv
<1>1. SUFFICES ASSUME Init PROVE IInv
  OBVIOUS
<1>2. PICK started \in InitGenerations :
        generations =
          [g \in Generations |->
            IF started[g] = None
            THEN [status |-> "absent", profile |-> None, snapshot |-> None]
            ELSE LET p == profiles[started[g]]
                     c == configs[p.provider]
                 IN [status |-> "active", profile |-> started[g],
                     snapshot |-> Snapshot(p, c, c.credential)]]
  BY <1>1 DEF Init
<1>3. /\ configs \in InitConfigs /\ configs \in [Configs -> ConfigRow]
      /\ profiles \in InitProfiles /\ profiles \in [Profiles -> ProfileRow]
      /\ started \in [Generations -> Profiles \cup {None}]
  BY <1>1, InitAssumption DEF Init
<1>4. \A g \in Generations : started[g] # None =>
        profiles[started[g]].revision > 0 /\ configs[profiles[started[g]].provider].credential # None
  BY <1>3, InitAssumption
<1>5. ASSUME NEW g \in Generations
      PROVE  /\ generations[g] \in GenerationRow
             /\ generations[g].status \in {"absent", "active"}
             /\ generations[g].status = "absent" => generations[g].profile = None
             /\ generations[g].status = "active" =>
                  /\ generations[g].profile \in Profiles /\ generations[g].snapshot \in SnapshotRow
                  /\ profiles[generations[g].profile].revision > 0
                  /\ CurrentSnapshot(g) = generations[g].snapshot
  <2>1. CASE started[g] = None
    <3>1. generations[g] = [status |-> "absent", profile |-> None, snapshot |-> None]
      BY <1>2, <2>1
    <3> QED
      BY <3>1 DEF GenerationRow
  <2>2. CASE started[g] # None
    <3> DEFINE p == profiles[started[g]]
               c == configs[p.provider]
               copy == Snapshot(p, c, c.credential)
    <3>1. generations[g] = [status |-> "active", profile |-> started[g], snapshot |-> copy]
      BY <1>2, <2>2
    <3>2. started[g] \in Profiles /\ p \in ProfileRow
      BY <1>3, <2>2
    <3>3. p.provider \in Configs /\ p.model \in Int /\ p.revision > 0
      BY <1>4, <2>2, <3>2 DEF ProfileRow
    <3>4. c \in ConfigRow /\ c.credential # None
      BY <1>3, <1>4, <2>2, <3>3
    <3>5. copy \in SnapshotRow /\ copy.credential = c.credential
      BY <3>3, <3>4 DEF ConfigRow, SnapshotRow, Snapshot
    <3>6. /\ generations[g].status = "active" /\ generations[g].profile = started[g]
          /\ generations[g].snapshot = copy
      BY <3>1
    <3>7. generations[g] \in GenerationRow
      BY <3>1, <3>2, <3>5 DEF GenerationRow
    <3>8. CurrentSnapshot(g) = copy
      BY <3>5, <3>6 DEF CurrentSnapshot
    <3> QED
      BY <3>2, <3>3, <3>5, <3>6, <3>7, <3>8
  <2> QED
    BY <2>1, <2>2
<1>6. Idle \in Request
  BY DEF Idle, Request
<1>7. \A r \in Requests : req[r].op = "none" /\ req[r].pc = "idle" /\ req[r] \in Request
  BY <1>1, <1>6 DEF Init, Idle
<1>8. TypeOK
  BY <1>1, <1>3, <1>5 DEF Init, TypeOK
<1>9. RowsOK
  <2>1. generations \in [Generations -> GenerationRow] /\ req \in [Requests -> Request]
    BY <1>1, <1>2, <1>5, <1>6 DEF Init
  <2> QED
    BY <1>5, <2>1 DEF RowsOK
<1>10. ActiveConfigurationFrozen
  BY <1>5 DEF ActiveConfigurationFrozen
<1>11. CreatorsApart /\ \A r \in Requests : Fits(r)
  BY <1>7 DEF CreatorsApart, Fits, ConfigFits, ProfileFits, CreateFits, GenerationFits, RepairFits
<1> QED
  BY <1>8, <1>9, <1>10, <1>11 DEF IInv

\* Every step keeps it.
LEMMA NextIInv == IInv /\ [Next]_vars => IInv'
<1>1. ASSUME IInv, NEW r \in Requests, Start(r) PROVE IInv'
  BY <1>1, StepStart
<1>2. ASSUME IInv, NEW r \in Requests, Progress(r) PROVE IInv'
  <2>1. CASE RefuseRevokedActor(r) \/ RefuseLocked(r) \/ BreakDeadlock(r)
    BY <1>2, <2>1, StepRefuse
  <2>2. CASE ReadConfig(r) \/ ResolveEndpoint(r)
    BY <1>2, <2>2, StepReadConfig, StepResolve
  <2>3. CASE ConfigActor(r) \/ CreateActor(r)
    BY <1>2, <2>3, StepActor
  <2>4. CASE LockConfig(r) \/ LockProfilesOfConfig(r) \/ CheckFrozenConfig(r)
    BY <1>2, <2>4, StepLockConfig, StepProfilesOfConfig
  <2>5. CASE LockCredential(r) \/ WriteConfig(r)
    BY <1>2, <2>5, StepLockCredential, StepWriteConfig
  <2>6. CASE ReadProfile(r) \/ LockConfigsOfProfile(r) \/ LockProfile(r) \/ WriteProfile(r)
    BY <1>2, <2>6, StepReadProfile, StepLockProfile, StepWriteProfile
  <2>7. CASE WriteNewProfile(r)
    BY <1>2, <2>7, StepWriteNewProfile
  <2>8. CASE LoadProfile(r) \/ LoadProvider(r)
    BY <1>2, <2>8, StepLoadProfile, StepLoadProvider
  <2>9. CASE ReserveGeneration(r) \/ CheckDrift(r) \/ ActivateGeneration(r)
    BY <1>2, <2>9, StepReserve, StepCheckDrift, StepActivate
  <2>10. CASE LockRepairProfile(r) \/ LockRepairProvider(r) \/ LockRepairCredential(r)
    BY <1>2, <2>10, StepRepairLocks
  <2>11. CASE CompareConfiguration(r)
    BY <1>2, <2>11, StepCompare
  <2> QED
    BY <1>2, <2>1, <2>2, <2>3, <2>4, <2>5, <2>6, <2>7, <2>8, <2>9, <2>10, <2>11 DEF Progress
<1>3. ASSUME IInv, NEW a \in Admins, RevokeAdminKey(a) PROVE IInv'
  BY <1>3, StepRevoke, Zenon
<1>4. ASSUME IInv, UNCHANGED vars PROVE IInv'
  BY <1>4
     DEF vars, IInv, TypeOK, RowsOK, ActiveConfigurationFrozen, CurrentSnapshot, CreatorsApart,
         Fits, ConfigFits, ProfileFits, CreateFits, GenerationFits, RepairFits, ActorHeld,
         ProfilesOf, IsReferencedByGeneration, UnlockedConfigs, ConfigsToLock
<1> QED
  BY <1>1, <1>2, <1>3, <1>4 DEF Next

\* Every request of the provider administration keeps the inductive invariant:
\* the rows it compared stay locked until it commits, and what a generation
\* copied stays as it was from the reservation on.
THEOREM ProviderInductive == Spec => []IInv
BY InitIInv, NextIInv, PTL DEF Spec

\* An active generation agrees with the live profile and provider rows, and a
\* repair is never refused for a changed embedding configuration
\* (IMMUTABLE_INDEX_CONFIGURATION, providers/services.py and indexing/repair.py).
THEOREM FrozenAlways == Spec => []ConfigurationFrozen
<1>1. IInv => ConfigurationFrozen
  BY DEF IInv, ConfigurationFrozen, RepairNeverConflicts, Fits, RepairFits
<1> QED
  BY <1>1, ProviderInductive, PTL

\* A step that says "ok" to a request is one of the five that commit it, and
\* the rows it compared are locked, so they are what they were.
LEMMA CommitIsCurrent ==
  ASSUME IInv, Next, NEW r \in Requests, req[r].result = "none", req'[r].result = "ok"
  PROVE  CASE req[r].op = "update_config" ->
                /\ configs[req[r].target].revision = req[r].etag
                /\ keys[req[r].admin] = "active"
           [] req[r].op = "update_profile" ->
                /\ profiles[req[r].target].revision = req[r].etag
                /\ keys[req[r].admin] = "active"
           [] req[r].op = "create_profile" -> keys[req[r].admin] = "active"
           [] OTHER -> TRUE
<1>1. req \in [Requests -> Request] /\ Fits(r) /\ req[r] \in Request
  BY DEF IInv, RowsOK
<1>2. ASSUME NEW s \in Requests, NEW x, End(s, x), s # r \/ x # "ok" PROVE FALSE
  <2>1. req'[r].result = IF s = r THEN x ELSE req[r].result
    BY <1>1, <1>2 DEF End, Request
  <2> QED
    BY <1>2, <2>1
<1>3. ASSUME NEW s \in Requests, NEW pc, Goto(s, pc) PROVE FALSE
  BY <1>1, <1>3 DEF Goto, Request
<1>4. ASSUME req' = req PROVE FALSE
  BY <1>4
<1>5. ASSUME NEW s \in Requests, NEW v, req' = [req EXCEPT ![s] = v], v.result = "none" PROVE FALSE
  BY <1>1, <1>5
<1>6. ASSUME NEW s \in Requests, Start(s) PROVE FALSE
  <2>1. PICK v : req' = [req EXCEPT ![s] = v] /\ v.result = "none"
    <3>1. CASE StartUpdateConfig(s)
      BY <3>1 DEF StartUpdateConfig, Idle
    <3>2. CASE StartUpdateProfile(s)
      BY <3>2 DEF StartUpdateProfile, Idle
    <3>3. CASE StartCreateProfile(s)
      BY <3>3, SMTT(30) DEF StartCreateProfile, Idle
    <3>4. CASE StartCreateGeneration(s)
      <4>1. PICK g \in Generations, p \in Profiles, pc \in {"source_profile", "reload"} :
              req' = [req EXCEPT ![s] =
                       [Idle EXCEPT !.op = "create_generation", !.target = g, !.pc = pc,
                                    !.source = p]]
        BY <3>4 DEF StartCreateGeneration, IInv, RowsOK
      <4> QED
        BY <4>1 DEF Idle
    <3>5. CASE StartRepair(s)
      BY <3>5 DEF StartRepair, Idle
    <3> QED
      BY <1>6, <3>1, <3>2, <3>3, <3>4, <3>5 DEF Start
  <2> QED
    BY <1>5, <2>1
<1>7. ASSUME NEW s \in Requests, Progress(s)
      PROVE  /\ s = r
             /\ \/ WriteConfig(r) /\ ~Refuse(r)
                \/ WriteProfile(r) /\ ~Refuse(r)
                \/ WriteNewProfile(r)
                \/ ActivateGeneration(r)
                \/ CompareConfiguration(r)
  <2>1. ASSUME Refuse(s) \/ BreakDeadlock(s) PROVE FALSE
    BY <1>2, <2>1 DEF Refuse, BreakDeadlock
  <2>2. ~RefuseRevokedActor(s) /\ ~RefuseLocked(s) /\ ~BreakDeadlock(s)
    BY <2>1 DEF RefuseRevokedActor, RefuseLocked
  <2>3. ~ReadConfig(s) /\ ~ResolveEndpoint(s)
    <3>1. ASSUME NEW url, req' = [req EXCEPT ![s].pc = "config_resolve", ![s].seen = url]
          PROVE  FALSE
      BY <1>1, <3>1 DEF Request
    <3>2. ~ReadConfig(s)
      BY <1>3, <2>1, <3>1 DEF ReadConfig, Goto
    <3> QED
      BY <1>3, <3>2 DEF ResolveEndpoint
  <2>4. ~ConfigActor(s) /\ ~CreateActor(s) /\ ~LockConfig(s) /\ ~CheckFrozenConfig(s)
        /\ ~LockCredential(s) /\ ~LockProfile(s) /\ ~ReserveGeneration(s)
    BY <1>3 DEF ConfigActor, CreateActor, RequireAdminActor, LockConfig, CheckFrozenConfig,
                LockCredential, LockProfile, ReserveGeneration
  <2>5. ~LockProfilesOfConfig(s) /\ ~LockConfigsOfProfile(s)
    BY <1>4 DEF LockProfilesOfConfig, LockConfigsOfProfile
  <2>6. ~ReadProfile(s)
    BY <1>1 DEF ReadProfile, Request
  <2>7. ~LoadProfile(s)
    BY <1>1 DEF LoadProfile, Request
  <2>8. ~LoadProvider(s)
    <3>1. ASSUME NEW copy, req' = [req EXCEPT ![s].pc = "reserve", ![s].loaded = copy]
          PROVE  FALSE
      BY <1>1, <3>1 DEF Request
    <3> QED
      BY <2>1, <3>1 DEF LoadProvider
  <2>9. ~CheckDrift(s)
    BY <1>2, <1>3 DEF CheckDrift
  <2>10. ~LockRepairProfile(s) /\ ~LockRepairProvider(s) /\ ~LockRepairCredential(s)
    BY <1>3 DEF LockRepairProfile, LockRepairProvider, LockRepairCredential
  <2>11. \/ WriteConfig(s) \/ WriteProfile(s) \/ WriteNewProfile(s) \/ ActivateGeneration(s)
         \/ CompareConfiguration(s)
    BY <1>7, <2>2, <2>3, <2>4, <2>5, <2>6, <2>7, <2>8, <2>9, <2>10 DEF Progress
  <2>12. \E x : End(s, x)
    BY <2>1, <2>11
       DEF WriteConfig, WriteProfile, WriteNewProfile, ActivateGeneration, CompareConfiguration
  <2> QED
    BY <1>2, <2>1, <2>11, <2>12
<1>8. ASSUME NEW a \in Admins, RevokeAdminKey(a) PROVE FALSE
  BY <1>4, <1>8 DEF RevokeAdminKey
<1>9. \/ WriteConfig(r) /\ ~Refuse(r)
      \/ WriteProfile(r) /\ ~Refuse(r)
      \/ WriteNewProfile(r)
      \/ ActivateGeneration(r)
      \/ CompareConfiguration(r)
  BY <1>6, <1>7, <1>8 DEF Next
<1>10. CASE WriteConfig(r) /\ ~Refuse(r)
  <2>1. req[r].pc = "config_write" /\ req[r].op = "update_config"
    BY <1>10, OpOf DEF WriteConfig, ConfigSteps
  <2> QED
    BY <1>1, <2>1 DEF Fits, ConfigFits, ActorHeld
<1>11. CASE WriteProfile(r) /\ ~Refuse(r)
  <2>1. req[r].pc = "profile_write" /\ req[r].op = "update_profile"
    BY <1>11, OpOf DEF WriteProfile, ProfileSteps
  <2>2. profiles[req[r].target].revision = req[r].etag
    BY <1>11 DEF WriteProfile
  <2> QED
    BY <1>1, <2>1, <2>2 DEF Fits, ProfileFits, ActorHeld
<1>12. CASE WriteNewProfile(r)
  <2>1. req[r].pc = "create_write" /\ req[r].op = "create_profile"
    BY <1>12, OpOf DEF WriteNewProfile, CreateSteps
  <2> QED
    BY <1>1, <2>1 DEF Fits, CreateFits, ActorHeld
<1>13. CASE ActivateGeneration(r) \/ CompareConfiguration(r)
  <2>1. req[r].op \in {"create_generation", "repair"}
    BY <1>13, OpOf DEF ActivateGeneration, CompareConfiguration, ReloadSteps, RepairSteps
  <2> QED
    BY <2>1
<1> QED
  BY <1>9, <1>10, <1>11, <1>12, <1>13

\* A PATCH that succeeds replaces exactly the revision its If-Match named, and
\* the administrator's key is active when it commits (providers/services.py
\* update_provider_config, update_model_profile and create_model_profile).
THEOREM PatchesAlwaysCurrent == Spec => CommittedPatchesAreCurrent
<1> DEFINE Current(r) ==
             req[r].result = "none" /\ req'[r].result = "ok" =>
               CASE req[r].op = "update_config" ->
                      /\ configs[req[r].target].revision = req[r].etag
                      /\ keys[req[r].admin] = "active"
                 [] req[r].op = "update_profile" ->
                      /\ profiles[req[r].target].revision = req[r].etag
                      /\ keys[req[r].admin] = "active"
                 [] req[r].op = "create_profile" -> keys[req[r].admin] = "active"
                 [] OTHER -> TRUE
<1>1. IInv /\ [Next]_vars => [\A r \in Requests : Current(r)]_vars
  BY CommitIsCurrent
<1> QED
  BY <1>1, ProviderInductive, PTL DEF Spec, CommittedPatchesAreCurrent
-----------------------------------------------------------------------------
(* The order of the locks.                                                  *)

Held(r) == {row \in Rows : lock[row] = r}

\* What a request other than a repair holds where it has to wait: nothing
\* before its actor, its actor before the configurations, these before the
\* profiles and all of them before the credential, and of the rows of one table
\* the lower before the higher.
HeldFits(r) ==
  req[r].op # "repair" =>
    /\ req[r].pc \in {"config_read", "config_resolve", "config_actor", "profile_actor",
                      "create_actor"} \cup SourceSteps \cup ReloadSteps => Held(r) = {}
    /\ req[r].pc \in {"config_lock", "create_write"} => Held(r) \subseteq Admins
    /\ req[r].pc \in {"config_profiles", "config_credential"} =>
         Held(r) \subseteq Admins \cup Configs \cup Profiles
    /\ req[r].pc = "config_profiles" =>
         \A p \in Held(r) \cap Profiles : \A q \in ProfilesOf(req[r].target) \ Held(r) : p < q
    /\ req[r].pc = "profile_configs" =>
         /\ Held(r) \subseteq Admins \cup Configs
         /\ \A c \in Held(r) \cap Configs : \A d \in ConfigsToLock(r) \ Held(r) : c < d

HeldInOrder == \A r \in Requests : HeldFits(r)

\* A set of rows that is not empty has a least one.
LEMMA LeastRow ==
  ASSUME NEW S, S \subseteq Nat, S # {}
  PROVE  Least(S) \in S /\ \A y \in S : Least(S) <= y
<1>1. PICK x \in S : \A y \in S : ~(<<y, x>> \in OpToRel(<, Nat))
  BY NatLessThanWellFounded, WFMin
<1>2. \A y \in S : ~(y < x)
  BY <1>1, Zenon DEF OpToRel
<1>3. \A y \in S : x <= y
  BY <1>2
<1> QED
  BY <1>3 DEF Least

LEMMA EmptyHanded ==
  ASSUME NEW r \in Requests, Held(r)' = {}
  PROVE  HeldFits(r)'
BY DEF HeldFits

\* Nobody adds a profile to a configuration that another request has locked.
ProfilesKept(r) ==
  \A s \in Requests \ {r} : \A c \in Configs :
    lock[c] = s => ProfilesOf(c)' \subseteq ProfilesOf(c)

\* A step of one request leaves the others in order.
LEMMA HeldStep ==
  ASSUME IInv, HeldInOrder, NEW r \in Requests,
         \A s \in Requests \ {r} : req'[s] = req[s],
         LocksOf(r), ProfilesKept(r), HeldFits(r)'
  PROVE  HeldInOrder'
<1>1. ASSUME NEW s \in Requests, s # r PROVE HeldFits(s)'
  <2>1. req'[s] = req[s] /\ HeldFits(s) /\ Fits(s)
    BY <1>1 DEF HeldInOrder, IInv
  <2>2. Held(s)' = Held(s)
    BY <1>1 DEF Held, LocksOf
  <2>3. ConfigsToLock(s)' = ConfigsToLock(s)
    BY <2>1 DEF ConfigsToLock
  <2>4. req[s].pc = "config_profiles" =>
          ProfilesOf(req[s].target)' \subseteq ProfilesOf(req[s].target)
    <3> HAVE req[s].pc = "config_profiles"
    <3>1. req[s].op = "update_config"
      BY OpOf DEF ConfigSteps
    <3>2. req[s].target \in Configs /\ lock[req[s].target] = s
      BY <2>1, <3>1 DEF Fits, ConfigFits
    <3>3. ProfilesOf(req[s].target)' = {p \in Profiles : profiles'[p].revision > 0
                                                  /\ profiles'[p].provider = req[s].target}
      BY <2>1 DEF ProfilesOf
    <3>4. PICK c \in Configs : c = req[s].target
      BY <3>2
    <3>5. ProfilesOf(c)' \subseteq ProfilesOf(c)
      BY <1>1, <3>2, <3>4 DEF ProfilesKept
    <3>6. ProfilesOf(c)' = {p \in Profiles : profiles'[p].revision > 0 /\ profiles'[p].provider = c}
      BY DEF ProfilesOf
    <3> QED
      BY <3>3, <3>4, <3>5, <3>6
  <2>5. CASE req[s].op = "repair"
    BY <2>1, <2>5 DEF HeldFits
  <2>6. CASE req[s].op # "repair"
    <3>1. req[s].pc = "config_profiles" =>
            \A p \in Held(s)' \cap Profiles :
              \A q \in ProfilesOf(req[s].target)' \ Held(s)' : p < q
      BY <2>1, <2>2, <2>4, <2>6 DEF HeldFits
    <3> QED
      BY <2>1, <2>2, <2>3, <2>6, <3>1 DEF HeldFits
  <2> QED
    BY <2>5, <2>6
<1> QED
  BY <1>1 DEF HeldInOrder

\* A request that ends, whatever it wrote, holds nothing.
LEMMA HeldAtEnd ==
  ASSUME IInv, HeldInOrder, NEW r \in Requests, NEW result, End(r, result), ProfilesKept(r)
  PROVE  HeldInOrder'
<1>1. LocksOf(r) /\ \A x \in Rows : lock'[x] # r
  BY LocksReleased DEF End, IInv
<1>2. \A s \in Requests \ {r} : req'[s] = req[s]
  BY DEF End, IInv, RowsOK
<1>3. Held(r)' = {}
  BY <1>1 DEF Held
<1> QED
  BY <1>1, <1>2, <1>3, EmptyHanded, HeldStep

\* A request that held nothing and locks nothing.
LEMMA HeldNothing ==
  ASSUME IInv, HeldInOrder, NEW r \in Requests,
         \A s \in Requests \ {r} : req'[s] = req[s],
         UNCHANGED <<lock, profiles>>, Held(r) = {}
  PROVE  HeldInOrder'
<1>1. LocksOf(r)
  BY LocksUnchanged DEF IInv
<1>2. ProfilesKept(r)
  BY DEF ProfilesKept, ProfilesOf
<1>3. Held(r)' = {}
  BY DEF Held
<1> QED
  BY <1>1, <1>2, <1>3, EmptyHanded, HeldStep

\* A request that locks one more row.
LEMMA HeldAfter ==
  ASSUME IInv, NEW r \in Requests, NEW row \in Rows, Acquire(r, row)
  PROVE  LocksOf(r) /\ Held(r)' = Held(r) \cup {row}
<1>1. LocksOf(r)
  BY LockTaken DEF IInv
<1>2. lock \in [Rows -> Requests \cup {None}]
  BY DEF IInv, TypeOK
<1> QED
  BY <1>1, <1>2 DEF Held, Acquire

LEMMA HeldStart ==
  ASSUME IInv, HeldInOrder, NEW r \in Requests, Start(r)
  PROVE  HeldInOrder'
<1>1. req[r].pc = "idle" /\ UNCHANGED <<keys, configs, profiles, generations, lock>>
  BY DEF Start, StartUpdateConfig, StartUpdateProfile, StartCreateProfile, StartCreateGeneration,
         StartRepair
<1>2. \A s \in Requests \ {r} : req'[s] = req[s]
  <2>1. \E v : req' = [req EXCEPT ![r] = v]
    BY Zenon DEF Start, StartUpdateConfig, StartUpdateProfile, StartCreateProfile,
                 StartCreateGeneration, StartRepair
  <2> QED
    BY <2>1 DEF IInv, RowsOK
<1>3. Held(r) = {}
  <2>1. \A row \in Rows : lock[row] = r => req[r].pc # "idle"
    BY DEF IInv, TypeOK
  <2> QED
    BY <1>1, <2>1 DEF Held
<1>4. UNCHANGED <<lock, profiles>>
  BY <1>1
<1> QED
  BY <1>2, <1>3, <1>4, HeldNothing, ZenonT(30)

\* The steps that read before anything is locked.
LEMMA HeldReads ==
  ASSUME IInv, HeldInOrder, NEW r \in Requests,
         \/ ReadConfig(r) /\ ~Refuse(r)
         \/ ResolveEndpoint(r)
         \/ LoadProfile(r)
         \/ LoadProvider(r) /\ ~Refuse(r)
         \/ ReserveGeneration(r)
         \/ CheckDrift(r) /\ ~End(r, "refused")
  PROVE  HeldInOrder'
<1>1. req[r].pc \in {"config_read", "config_resolve"} \cup SourceSteps \cup ReloadSteps
  BY DEF ReadConfig, ResolveEndpoint, LoadProfile, LoadProvider, ReserveGeneration, CheckDrift,
         SourceSteps, ReloadSteps
<1>2. req[r].op # "repair" /\ HeldFits(r)
  BY <1>1, OpOf DEF ConfigSteps, HeldInOrder
<1>3. Held(r) = {}
  BY <1>1, <1>2 DEF HeldFits
<1>4. UNCHANGED <<lock, profiles>>
  BY DEF ReadConfig, ResolveEndpoint, LoadProfile, LoadProvider, ReserveGeneration, CheckDrift
<1>5. \A s \in Requests \ {r} : req'[s] = req[s]
  BY DEF ReadConfig, ResolveEndpoint, LoadProfile, LoadProvider, ReserveGeneration, CheckDrift,
         Goto, IInv, RowsOK
<1> QED
  BY <1>3, <1>4, <1>5, HeldNothing

\* The step that locks the actor's key.
LEMMA HeldActor ==
  ASSUME IInv, HeldInOrder, NEW r \in Requests, ConfigActor(r) \/ CreateActor(r) \/ ReadProfile(r)
  PROVE  HeldInOrder'
<1>1. /\ req[r].pc \in {"config_actor", "create_actor", "profile_actor"}
      /\ Acquire(r, req[r].admin) /\ profiles' = profiles
  BY DEF ConfigActor, CreateActor, ReadProfile, RequireAdminActor
<1>2. /\ \A s \in Requests \ {r} : req'[s] = req[s]
      /\ req'[r].pc \in {"config_lock", "create_write", "profile_configs"}
  BY DEF ConfigActor, CreateActor, ReadProfile, RequireAdminActor, Goto, IInv, RowsOK, Request
<1>3. req[r].op # "repair" /\ HeldFits(r) /\ req[r].admin \in Admins
  BY <1>1, OpOf DEF ConfigSteps, CreateSteps, ProfileSteps, HeldInOrder, IInv, Fits, ConfigFits,
                    CreateFits, ProfileFits
<1>4. Held(r) = {}
  BY <1>1, <1>3 DEF HeldFits
<1>5. LocksOf(r) /\ Held(r)' = {req[r].admin}
  BY <1>1, <1>3, <1>4, HeldAfter DEF Rows
<1>6. Held(r)' \subseteq Admins /\ Held(r)' \cap Configs = {}
  BY <1>3, <1>5
<1>7. HeldFits(r)'
  BY <1>2, <1>6 DEF HeldFits, SourceSteps, ReloadSteps
<1>8. ProfilesKept(r)
  BY <1>1 DEF ProfilesKept, ProfilesOf
<1> QED
  BY <1>2, <1>5, <1>7, <1>8, HeldStep

\* A PATCH of a configuration locks it before its profiles, these from the
\* least on, and its credential last.
LEMMA HeldConfig ==
  ASSUME IInv, HeldInOrder, NEW r \in Requests,
         LockConfig(r) \/ LockProfilesOfConfig(r) \/ CheckFrozenConfig(r) \/ LockCredential(r)
  PROVE  HeldInOrder'
<1>1. /\ req[r].pc \in {"config_lock", "config_profiles", "config_credential"}
      /\ UNCHANGED profiles
  BY DEF LockConfig, LockProfilesOfConfig, CheckFrozenConfig, LockCredential
<1>2. \A s \in Requests \ {r} : req'[s] = req[s]
  BY DEF LockConfig, LockProfilesOfConfig, CheckFrozenConfig, LockCredential, Goto, IInv, RowsOK
<1>3. /\ req[r].op = "update_config" /\ HeldFits(r) /\ Fits(r) /\ req[r].target \in Configs
      /\ req[r].patch \in ConfigPatches /\ req[r] \in Request
  BY <1>1, OpOf DEF ConfigSteps, HeldInOrder, IInv, Fits, ConfigFits
<1>4. ProfilesKept(r)
  BY <1>1 DEF ProfilesKept, ProfilesOf
<1>5. CASE LockConfig(r)
  <2>1. /\ Acquire(r, req[r].target)
        /\ req'[r].pc \in {"refuse", "config_profiles", "config_credential"}
        /\ req[r].pc = "config_lock"
    BY <1>5, <1>3 DEF LockConfig, Goto, IInv, RowsOK, Request
  <2>2. LocksOf(r) /\ Held(r)' = Held(r) \cup {req[r].target}
    BY <1>3, <2>1, HeldAfter DEF Rows
  <2>3. Held(r)' \subseteq Admins \cup Configs /\ Held(r)' \cap Profiles = {}
    BY <1>3, <2>1, <2>2 DEF HeldFits
  <2>4. HeldFits(r)'
    BY <2>1, <2>3 DEF HeldFits, SourceSteps, ReloadSteps
  <2> QED
    BY <1>2, <1>4, <2>2, <2>4, HeldStep
<1>6. CASE LockProfilesOfConfig(r)
  <2> DEFINE S == UnlockedProfiles(r)
             l == Least(S)
  <2>1. /\ req[r].pc = "config_profiles" /\ S # {} /\ Acquire(r, l) /\ req' = req
    BY <1>6 DEF LockProfilesOfConfig
  <2>2. S = ProfilesOf(req[r].target) \ Held(r) /\ S \subseteq Profiles
    BY DEF UnlockedProfiles, Held, ProfilesOf, Rows
  <2>3. l \in S /\ \A y \in S : l <= y
    <3>1. S \subseteq Nat
      BY <2>2
    <3> HIDE DEF S
    <3> QED
      BY <2>1, <3>1, LeastRow
  <2> HIDE DEF S, l
  <2>4. LocksOf(r) /\ Held(r)' = Held(r) \cup {l}
    BY <2>1, <2>2, <2>3, HeldAfter DEF Rows
  <2>5. ProfilesOf(req[r].target)' = ProfilesOf(req[r].target)
    BY <1>1, <2>1 DEF ProfilesOf
  <2>6. ASSUME NEW p \in Held(r)' \cap Profiles, NEW q \in ProfilesOf(req[r].target)' \ Held(r)'
        PROVE  p < q
    <3>1. q \in S /\ q # l /\ q \in Nat /\ l \in Nat
      BY <2>2, <2>3, <2>4, <2>5, <2>6
    <3>2. CASE p = l
      BY <2>3, <3>1, <3>2
    <3>3. CASE p # l
      BY <1>3, <2>1, <2>2, <2>4, <2>6, <3>1, <3>3 DEF HeldFits
    <3> QED
      BY <3>2, <3>3
  <2>7. Held(r)' \subseteq Admins \cup Configs \cup Profiles
    BY <1>3, <2>1, <2>2, <2>3, <2>4 DEF HeldFits
  <2>8. HeldFits(r)'
    BY <2>1, <2>6, <2>7 DEF HeldFits, SourceSteps, ReloadSteps
  <2> QED
    BY <1>2, <1>4, <2>4, <2>8, HeldStep
<1>7. CASE CheckFrozenConfig(r)
  <2>1. /\ lock' = lock /\ req[r].pc = "config_profiles"
        /\ req'[r].pc \in {"refuse", "config_credential"}
    BY <1>3, <1>7 DEF CheckFrozenConfig, Goto, IInv, RowsOK, Request
  <2>2. LocksOf(r) /\ Held(r)' = Held(r)
    BY <2>1, LocksUnchanged DEF IInv, Held
  <2>3. HeldFits(r)'
    BY <1>3, <2>1, <2>2 DEF HeldFits, SourceSteps, ReloadSteps
  <2> QED
    BY <1>2, <1>4, <2>2, <2>3, HeldStep
<1>8. CASE LockCredential(r)
  <2>1. req'[r].pc = "config_write"
    BY <1>3, <1>8 DEF LockCredential, Goto, IInv, RowsOK, Request
  <2>2. LocksOf(r)
    <3>1. CASE "credential" \in DOMAIN req[r].patch
      <4>1. Acquire(r, req[r].patch.credential) /\ req[r].patch.credential \in Rows
        BY <1>3, <1>8, <3>1, BodiesAssumption DEF LockCredential, Rows
      <4> QED
        BY <4>1, HeldAfter
    <3>2. CASE "credential" \notin DOMAIN req[r].patch
      BY <1>8, <3>2, LocksUnchanged DEF LockCredential, IInv
    <3> QED
      BY <3>1, <3>2
  <2>3. HeldFits(r)'
    BY <2>1 DEF HeldFits, SourceSteps, ReloadSteps
  <2> QED
    BY <1>2, <1>4, <2>2, <2>3, HeldStep
<1> QED
  BY <1>5, <1>6, <1>7, <1>8

\* A PATCH of a profile locks its providers from the least on, then the profile.
LEMMA HeldProfile ==
  ASSUME IInv, HeldInOrder, NEW r \in Requests, LockConfigsOfProfile(r) \/ LockProfile(r)
  PROVE  HeldInOrder'
<1>1. req[r].pc = "profile_configs" /\ UNCHANGED profiles
  BY DEF LockConfigsOfProfile, LockProfile
<1>2. \A s \in Requests \ {r} : req'[s] = req[s]
  BY DEF LockConfigsOfProfile, LockProfile, Goto, IInv, RowsOK
<1>3. /\ req[r].op = "update_profile" /\ HeldFits(r) /\ req[r].target \in Profiles
      /\ req[r].patch \in ProfilePatches /\ req[r].seen \in Configs /\ req[r] \in Request
  BY <1>1, OpOf DEF ProfileSteps, HeldInOrder, IInv, Fits, ProfileFits
<1>4. ProfilesKept(r)
  BY <1>1 DEF ProfilesKept, ProfilesOf
<1>5. ConfigsToLock(r) \subseteq Configs
  BY <1>3, BodiesAssumption DEF ConfigsToLock
<1>6. CASE LockConfigsOfProfile(r)
  <2> DEFINE S == UnlockedConfigs(r)
             l == Least(S)
  <2>1. S # {} /\ Acquire(r, l) /\ req' = req
    BY <1>6 DEF LockConfigsOfProfile, NextConfigToLock
  <2>2. S = ConfigsToLock(r) \ Held(r) /\ S \subseteq Configs
    BY <1>5 DEF UnlockedConfigs, Held, Rows
  <2>3. l \in S /\ \A y \in S : l <= y
    <3>1. S \subseteq Nat
      BY <2>2
    <3> HIDE DEF S
    <3> QED
      BY <2>1, <3>1, LeastRow
  <2> HIDE DEF S, l
  <2>4. LocksOf(r) /\ Held(r)' = Held(r) \cup {l}
    BY <2>1, <2>2, <2>3, HeldAfter DEF Rows
  <2>5. ConfigsToLock(r)' = ConfigsToLock(r)
    BY <2>1 DEF ConfigsToLock
  <2>6. ASSUME NEW c \in Held(r)' \cap Configs, NEW d \in ConfigsToLock(r)' \ Held(r)'
        PROVE  c < d
    <3>1. d \in S /\ d # l /\ d \in Nat /\ l \in Nat
      BY <2>2, <2>3, <2>4, <2>5, <2>6
    <3>2. CASE c = l
      BY <2>3, <3>1, <3>2
    <3>3. CASE c # l
      BY <1>1, <1>3, <2>2, <2>4, <2>6, <3>1, <3>3 DEF HeldFits
    <3> QED
      BY <3>2, <3>3
  <2>7. Held(r)' \subseteq Admins \cup Configs
    BY <1>1, <1>3, <2>2, <2>3, <2>4 DEF HeldFits
  <2>8. HeldFits(r)'
    BY <1>1, <2>1, <2>6, <2>7 DEF HeldFits, SourceSteps, ReloadSteps
  <2> QED
    BY <1>2, <1>4, <2>4, <2>8, HeldStep
<1>7. CASE LockProfile(r)
  <2>1. req'[r].pc = "profile_write" /\ Acquire(r, req[r].target)
    BY <1>3, <1>7 DEF LockProfile, Goto, IInv, RowsOK, Request
  <2>2. LocksOf(r)
    BY <1>3, <2>1, HeldAfter DEF Rows
  <2>3. HeldFits(r)'
    BY <2>1 DEF HeldFits, SourceSteps, ReloadSteps
  <2> QED
    BY <1>2, <1>4, <2>2, <2>3, HeldStep
<1> QED
  BY <1>6, <1>7

\* A repair locks in its own order.
LEMMA HeldRepair ==
  ASSUME IInv, HeldInOrder, NEW r \in Requests,
         LockRepairProfile(r) \/ LockRepairProvider(r) \/ LockRepairCredential(r)
  PROVE  HeldInOrder'
<1>1. /\ req[r].pc \in RepairSteps /\ UNCHANGED profiles
      /\ \E row : Acquire(r, row)
  BY DEF LockRepairProfile, LockRepairProvider, LockRepairCredential, RepairSteps
<1>2. /\ \A s \in Requests \ {r} : req'[s] = req[s]
      /\ req'[r].op = req[r].op
  BY DEF LockRepairProfile, LockRepairProvider, LockRepairCredential, Goto, IInv, RowsOK, Request
<1>3. req[r].op = "repair"
  BY <1>1, OpOf
<1>4. LocksOf(r)
  BY <1>1, LockTaken DEF IInv
<1>5. HeldFits(r)'
  BY <1>2, <1>3 DEF HeldFits
<1>6. ProfilesKept(r)
  BY <1>1 DEF ProfilesKept, ProfilesOf
<1> QED
  BY <1>2, <1>4, <1>5, <1>6, HeldStep

\* The steps that end a request; of those only two write profiles, each with
\* the providers it names unlocked by anybody else.
LEMMA HeldEnds ==
  ASSUME IInv, HeldInOrder, NEW r \in Requests,
         \/ Refuse(r) \/ BreakDeadlock(r) \/ WriteConfig(r) \/ WriteProfile(r)
         \/ WriteNewProfile(r) \/ ActivateGeneration(r) \/ CompareConfiguration(r)
         \/ CheckDrift(r) /\ End(r, "refused")
  PROVE  HeldInOrder'
<1>1. \E x : End(r, x)
  BY DEF Refuse, BreakDeadlock, WriteConfig, WriteProfile, WriteNewProfile, ActivateGeneration,
         CompareConfiguration
<1>2. ProfilesKept(r)
  <2>1. CASE profiles' = profiles
    BY <2>1 DEF ProfilesKept, ProfilesOf
  <2>2. CASE WriteProfile(r) /\ ~Refuse(r)
    <3>1. req[r].pc = "profile_write" /\ req[r].op = "update_profile"
      BY <2>2, OpOf DEF WriteProfile, ProfileSteps
    <3>2. /\ req[r].target \in Profiles /\ req[r].patch \in ProfilePatches
          /\ req[r].seen \in Configs /\ UnlockedConfigs(r) = {}
      BY <3>1 DEF IInv, Fits, ProfileFits
    <3> DEFINE row == profiles[req[r].target]
               new == [Patched(row, req[r].patch) EXCEPT !.revision = row.revision + 1]
    <3>3. row \in ProfileRow /\ profiles \in [Profiles -> ProfileRow]
      BY <3>2 DEF IInv, TypeOK
    <3>4. profiles' = [profiles EXCEPT ![req[r].target] = new] /\ row.provider = req[r].seen
      BY <2>2 DEF WriteProfile
    <3>5. \/ new.provider = row.provider
          \/ "provider" \in DOMAIN req[r].patch /\ new.provider = req[r].patch.provider
      <4> HIDE DEF row
      <4>1. PICK patch \in ProfilePatches : patch = req[r].patch
        BY <3>2
      <4>2. LET n == [Patched(row, patch) EXCEPT !.revision = row.revision + 1]
            IN \/ n.provider = row.provider
               \/ "provider" \in DOMAIN patch /\ n.provider = patch.provider
        BY <3>3, PatchedProfile
      <4> QED
        BY <4>1, <4>2
    <3> HIDE DEF new
    <3>6. lock[new.provider] = r
      BY <3>2, <3>4, <3>5 DEF UnlockedConfigs, ConfigsToLock
    <3>7. ASSUME NEW s \in Requests \ {r}, NEW c \in Configs, lock[c] = s
          PROVE  ProfilesOf(c)' \subseteq ProfilesOf(c)
      <4>1. \A p \in Profiles : p # req[r].target => profiles'[p] = profiles[p]
        BY <3>3, <3>4
      <4>2. profiles'[req[r].target].provider # c
        BY <3>2, <3>3, <3>4, <3>6, <3>7
      <4> QED
        BY <4>1, <4>2 DEF ProfilesOf
    <3> QED
      BY <3>7 DEF ProfilesKept
  <2>3. CASE WriteNewProfile(r) /\ ~Refuse(r)
    <3>1. lock[req[r].seen] \in {None, r} /\ profiles \in [Profiles -> ProfileRow]
      BY <2>3 DEF WriteNewProfile, IInv, TypeOK
    <3>2. profiles' = [profiles EXCEPT ![req[r].target] =
                        [provider |-> req[r].seen, model |-> NewProfile.model,
                         enabled |-> NewProfile.enabled, revision |-> 1]]
      BY <2>3 DEF WriteNewProfile
    <3>3. ASSUME NEW s \in Requests \ {r}, NEW c \in Configs, lock[c] = s
          PROVE  ProfilesOf(c)' \subseteq ProfilesOf(c)
      <4>1. \A p \in Profiles : p # req[r].target => profiles'[p] = profiles[p]
        BY <3>1, <3>2
      <4>2. req[r].target \in Profiles => profiles'[req[r].target].provider # c
        BY <3>1, <3>2, <3>3
      <4> QED
        BY <4>1, <4>2 DEF ProfilesOf
    <3> QED
      BY <3>3 DEF ProfilesKept
  <2> QED
    BY <2>1, <2>2, <2>3
       DEF Refuse, BreakDeadlock, WriteConfig, WriteProfile, WriteNewProfile, ActivateGeneration,
           CompareConfiguration, CheckDrift
<1> QED
  BY <1>1, <1>2, HeldAtEnd

LEMMA NextHeld == IInv /\ HeldInOrder /\ [Next]_vars => HeldInOrder'
<1>1. ASSUME IInv, HeldInOrder, NEW r \in Requests, Start(r) PROVE HeldInOrder'
  BY <1>1, HeldStart
<1>2. ASSUME IInv, HeldInOrder, NEW r \in Requests, Progress(r) PROVE HeldInOrder'
  <2>1. CASE Refuse(r)
    BY <1>2, <2>1, HeldEnds
  <2>2. CASE RefuseRevokedActor(r) \/ RefuseLocked(r)
    BY <1>2, <2>2, HeldEnds DEF RefuseRevokedActor, RefuseLocked
  <2>3. CASE \/ BreakDeadlock(r) \/ WriteConfig(r) \/ WriteProfile(r) \/ WriteNewProfile(r)
             \/ ActivateGeneration(r) \/ CompareConfiguration(r)
             \/ (CheckDrift(r) /\ End(r, "refused"))
    BY <1>2, <2>3, HeldEnds
  <2>4. CASE /\ ~Refuse(r)
             /\ \/ ReadConfig(r) \/ ResolveEndpoint(r) \/ LoadProfile(r) \/ LoadProvider(r)
                \/ ReserveGeneration(r) \/ (CheckDrift(r) /\ ~End(r, "refused"))
    BY <1>2, <2>4, HeldReads
  <2>5. CASE ConfigActor(r) \/ CreateActor(r) \/ ReadProfile(r)
    BY <1>2, <2>5, HeldActor
  <2>6. CASE LockConfig(r) \/ LockProfilesOfConfig(r) \/ CheckFrozenConfig(r) \/ LockCredential(r)
    BY <1>2, <2>6, HeldConfig
  <2>7. CASE LockConfigsOfProfile(r) \/ LockProfile(r)
    BY <1>2, <2>7, HeldProfile
  <2>8. CASE LockRepairProfile(r) \/ LockRepairProvider(r) \/ LockRepairCredential(r)
    BY <1>2, <2>8, HeldRepair
  <2> QED
    BY <1>2, <2>1, <2>2, <2>3, <2>4, <2>5, <2>6, <2>7, <2>8 DEF Progress
<1>3. ASSUME HeldInOrder, UNCHANGED <<profiles, lock, req>> PROVE HeldInOrder'
  <2>1. ASSUME NEW r \in Requests PROVE HeldFits(r)'
    <3>1. req' = req /\ HeldFits(r)
      BY <1>3 DEF HeldInOrder
    <3>2. Held(r)' = Held(r) /\ ConfigsToLock(r)' = ConfigsToLock(r)
          /\ ProfilesOf(req[r].target)' = ProfilesOf(req[r].target)
      BY <1>3 DEF Held, ConfigsToLock, ProfilesOf
    <3> QED
      BY <3>1, <3>2 DEF HeldFits
  <2> QED
    BY <2>1 DEF HeldInOrder
<1>4. ASSUME NEW a \in Admins, RevokeAdminKey(a) PROVE UNCHANGED <<profiles, lock, req>>
  BY <1>4 DEF RevokeAdminKey
<1>5. ASSUME UNCHANGED vars PROVE UNCHANGED <<profiles, lock, req>>
  BY <1>5, SMTT(30) DEF vars
<1> QED
  BY <1>1, <1>2, <1>3, <1>4, <1>5 DEF Next

\* Keys before configurations before profiles before credentials.
Table(row) ==
  IF row \in Admins THEN 0 ELSE IF row \in Configs THEN 1 ELSE IF row \in Profiles THEN 2 ELSE 3

Below(x, y) == Table(x) < Table(y) \/ (Table(x) = Table(y) /\ x < y)

\* Whoever waits for a row, unless it is a repair, holds rows below it only.
LEMMA HeldBelowWanted ==
  ASSUME IInv, HeldInOrder, NEW r \in Requests, req[r].op # "repair", Wanted(r) # None
  PROVE  Wanted(r) \in Rows /\ \A row \in Held(r) : Below(row, Wanted(r))
<1>0. HeldFits(r) /\ Fits(r) /\ req[r] \in Request
  BY OpOf DEF HeldInOrder, IInv
<1>1. CASE req[r].pc \in {"config_read", "config_actor", "profile_actor", "create_actor"}
  <2>1. Wanted(r) = req[r].admin
    BY <1>1 DEF Wanted
  <2>2. req[r].admin \in Admins
    BY <1>0, <1>1, OpOf
       DEF ConfigSteps, ProfileSteps, CreateSteps, Fits, ConfigFits, ProfileFits, CreateFits
  <2>3. Held(r) = {}
    BY <1>0, <1>1 DEF HeldFits
  <2> QED
    BY <2>1, <2>2, <2>3 DEF Rows
<1>2. CASE req[r].pc \in {"config_lock", "create_write"}
  <2>1. Wanted(r) = IF req[r].pc = "config_lock" THEN req[r].target ELSE req[r].seen
    BY <1>2 DEF Wanted
  <2>2. Wanted(r) \in Configs
    BY <1>0, <1>2, <2>1, OpOf DEF ConfigSteps, CreateSteps, Fits, ConfigFits, CreateFits
  <2>3. Held(r) \subseteq Admins
    BY <1>0, <1>2 DEF HeldFits
  <2>4. Table(Wanted(r)) = 1 /\ \A row \in Held(r) : Table(row) = 0
    BY <2>2, <2>3 DEF Table
  <2> QED
    BY <2>2, <2>4 DEF Rows, Below
<1>3. CASE req[r].pc = "config_profiles" /\ UnlockedProfiles(r) # {}
  <2> DEFINE S == UnlockedProfiles(r)
  <2>1. Wanted(r) = Least(S)
    BY <1>3 DEF Wanted
  <2>2. S = ProfilesOf(req[r].target) \ Held(r) /\ S \subseteq Profiles
    BY DEF UnlockedProfiles, Held, ProfilesOf, Rows
  <2>3. Wanted(r) \in S
    <3>1. S \subseteq Nat /\ S # {}
      BY <1>3, <2>2
    <3> HIDE DEF S
    <3> QED
      BY <2>1, <3>1, LeastRow
  <2> HIDE DEF S
  <2>4. /\ Held(r) \subseteq Admins \cup Configs \cup Profiles
        /\ \A p \in Held(r) \cap Profiles : p < Wanted(r)
    BY <1>0, <1>3, <2>2, <2>3 DEF HeldFits
  <2>5. Wanted(r) \in Profiles /\ Table(Wanted(r)) = 2
    BY <2>2, <2>3 DEF Table
  <2>6. ASSUME NEW row \in Held(r) PROVE Below(row, Wanted(r))
    <3>1. CASE row \in Profiles
      <4>1. Table(row) = 2
        BY <3>1 DEF Table
      <4> QED
        BY <2>4, <2>5, <3>1, <4>1 DEF Below
    <3>2. CASE row \notin Profiles
      <4>1. Table(row) \in {0, 1}
        BY <2>4, <3>2 DEF Table
      <4> QED
        BY <2>5, <4>1 DEF Below
    <3> QED
      BY <3>1, <3>2
  <2> QED
    BY <2>5, <2>6 DEF Rows
<1>4. CASE req[r].pc = "config_credential" /\ "credential" \in DOMAIN req[r].patch
  <2>1. Wanted(r) = req[r].patch.credential
    BY <1>4 DEF Wanted
  <2>2. Wanted(r) \in Creds
    BY <1>0, <1>4, <2>1, OpOf, BodiesAssumption DEF ConfigSteps, Fits, ConfigFits
  <2>3. Held(r) \subseteq Admins \cup Configs \cup Profiles
    BY <1>0, <1>4 DEF HeldFits
  <2>4. Table(Wanted(r)) = 3 /\ \A row \in Held(r) : Table(row) \in {0, 1, 2}
    BY <2>2, <2>3 DEF Table
  <2> QED
    BY <2>2, <2>4 DEF Rows, Below
<1>5. CASE req[r].pc = "profile_configs"
  <2>1. /\ req[r].target \in Profiles /\ req[r].seen \in Configs /\ req[r].patch \in ProfilePatches
        /\ Held(r) \subseteq Admins \cup Configs
    BY <1>0, <1>5, OpOf DEF ProfileSteps, Fits, ProfileFits, HeldFits
  <2>2. CASE UnlockedConfigs(r) = {}
    <3>1. Wanted(r) = req[r].target
      BY <1>5, <2>2 DEF Wanted
    <3>2. Table(Wanted(r)) = 2 /\ \A row \in Held(r) : Table(row) \in {0, 1}
      BY <2>1, <3>1 DEF Table
    <3> QED
      BY <2>1, <3>1, <3>2 DEF Rows, Below
  <2>3. CASE UnlockedConfigs(r) # {}
    <3> DEFINE S == UnlockedConfigs(r)
    <3>1. Wanted(r) = Least(S)
      BY <1>5, <2>3 DEF Wanted, NextConfigToLock
    <3>2. S = ConfigsToLock(r) \ Held(r) /\ S \subseteq Configs
      <4>1. ConfigsToLock(r) \subseteq Configs
        BY <2>1, BodiesAssumption DEF ConfigsToLock
      <4> QED
        BY <4>1 DEF UnlockedConfigs, Held, Rows
    <3>3. Wanted(r) \in S
      <4>1. S \subseteq Nat /\ S # {}
        BY <2>3, <3>2
      <4> HIDE DEF S
      <4> QED
        BY <3>1, <4>1, LeastRow
    <3> HIDE DEF S
    <3>4. \A c \in Held(r) \cap Configs : c < Wanted(r)
      BY <1>0, <1>5, <3>2, <3>3 DEF HeldFits
    <3>5. Wanted(r) \in Configs /\ Table(Wanted(r)) = 1
      BY <3>2, <3>3 DEF Table
    <3>6. ASSUME NEW row \in Held(r) PROVE Below(row, Wanted(r))
      <4>1. CASE row \in Configs
        <5>1. Table(row) = 1
          BY <4>1 DEF Table
        <5> QED
          BY <3>4, <3>5, <4>1, <5>1 DEF Below
      <4>2. CASE row \notin Configs
        <5>1. Table(row) = 0
          BY <2>1, <4>2 DEF Table
        <5> QED
          BY <3>5, <5>1 DEF Below
      <4> QED
        BY <4>1, <4>2
    <3> QED
      BY <3>5, <3>6 DEF Rows
  <2> QED
    BY <2>2, <2>3
<1>6. CASE req[r].pc = "reserve"
  <2>1. Wanted(r) = req[r].source
    BY <1>6 DEF Wanted
  <2>2. req[r].source \in Profiles
    BY <1>0, <1>6, OpOf DEF SourceSteps, Fits, GenerationFits
  <2>3. Held(r) = {}
    BY <1>0, <1>6 DEF HeldFits, SourceSteps
  <2> QED
    BY <2>1, <2>2, <2>3 DEF Rows
<1>7. req[r].pc \notin RepairSteps
  BY OpOf
<1> QED
  BY <1>1, <1>2, <1>3, <1>4, <1>5, <1>6, <1>7 DEF Wanted, RepairSteps

\* A finite set has a member with the highest number: otherwise take a least
\* finite set without one, and take a member out of it.
LEMMA HighestMember ==
  ASSUME NEW S, IsFiniteSet(S), S # {}, NEW f \in [S -> Nat]
  PROVE  \E m \in S : \A x \in S : f[x] <= f[m]
<1> DEFINE Bad == {U \in FiniteSubsetsOf(S) : U # {} /\ ~\E m \in U : \A x \in U : f[x] <= f[m]}
<1>1. SUFFICES ASSUME ~\E m \in S : \A x \in S : f[x] <= f[m] PROVE FALSE
  OBVIOUS
<1>2. S \in Bad
  BY <1>1 DEF FiniteSubsetsOf
<1>3. PICK U \in Bad : \A V \in Bad : ~(<<V, U>> \in StrictSubsetOrdering(S))
  <2>1. IsWellFoundedOn(StrictSubsetOrdering(S), FiniteSubsetsOf(S))
    BY FS_StrictSubsetOrderingWellFounded
  <2>2. Bad \subseteq FiniteSubsetsOf(S) /\ Bad # {}
    BY <1>2
  <2> HIDE DEF Bad
  <2> QED
    BY <2>1, <2>2, WFMin
<1>4. U \subseteq S /\ IsFiniteSet(U) /\ U # {} /\ ~\E m \in U : \A x \in U : f[x] <= f[m]
  BY DEF FiniteSubsetsOf
<1>5. PICK y \in U : TRUE
  BY <1>4
<1>6. U \ {y} \notin Bad
  <2>1. <<U \ {y}, U>> \in StrictSubsetOrdering(S)
    BY <1>4, <1>5 DEF StrictSubsetOrdering
  <2> HIDE DEF Bad
  <2> QED
    BY <1>3, <2>1
<1>7. U \ {y} \in FiniteSubsetsOf(S)
  BY <1>4, FS_RemoveElement DEF FiniteSubsetsOf
<1>8. U \ {y} = {} \/ \E m \in U \ {y} : \A x \in U \ {y} : f[x] <= f[m]
  BY <1>6, <1>7
<1>9. \A x \in U : f[x] \in Nat
  BY <1>4
<1>10. CASE U \ {y} = {}
  <2>1. \A x \in U : f[x] <= f[y]
    BY <1>5, <1>9, <1>10
  <2> QED
    BY <1>4, <1>5, <2>1
<1>11. CASE \E m \in U \ {y} : \A x \in U \ {y} : f[x] <= f[m]
  <2>1. PICK m \in U \ {y} : \A x \in U \ {y} : f[x] <= f[m]
    BY <1>11
  <2>2. CASE f[y] <= f[m]
    BY <1>4, <2>1, <2>2
  <2>3. CASE ~(f[y] <= f[m])
    <3>1. \A x \in U : f[x] <= f[y]
      BY <1>5, <1>9, <2>1, <2>3
    <3> QED
      BY <1>4, <1>5, <3>1
  <2> QED
    BY <2>2, <2>3
<1> QED
  BY <1>8, <1>10, <1>11

\* Requests without a repair cannot all wait for each other: among those that
\* wait in the last table, the one that waits for the highest row waits for
\* somebody who waits for a higher one.
LEMMA CirclesNeedRepair ==
  ASSUME IInv, HeldInOrder, NEW S \in SUBSET Requests, Circle(S)
  PROVE  \E r \in S : req[r].op = "repair"
<1> SUFFICES ASSUME \A r \in S : req[r].op # "repair" PROVE FALSE
  OBVIOUS
<1>1. S # {} /\ \A r \in S : Wanted(r) # None /\ lock[Wanted(r)] \in S
  BY DEF Circle, WaitsFor
<1>2. \A r \in S : Wanted(r) \in Rows /\ \A row \in Held(r) : Below(row, Wanted(r))
  BY <1>1, HeldBelowWanted
<1>3. \A r \in S : \E s \in S : Below(Wanted(r), Wanted(s))
  BY <1>1, <1>2 DEF Held
<1>4. PICK f \in [S -> Nat] : \A r \in S : f[r] = Table(Wanted(r))
  <2>1. [r \in S |-> Table(Wanted(r))] \in [S -> Nat]
    BY DEF Table
  <2> QED
    BY <2>1
<1>5. PICK g \in [S -> Nat] : \A r \in S : g[r] = Wanted(r)
  <2>1. [r \in S |-> Wanted(r)] \in [S -> Nat]
    BY <1>2 DEF Rows
  <2> QED
    BY <2>1
<1>6. \A r \in S : \E s \in S : f[r] < f[s] \/ (f[r] = f[s] /\ g[r] < g[s])
  BY <1>3, <1>4, <1>5 DEF Below
<1>7. IsFiniteSet(S)
  BY RequestsAssumption, FS_Subset
<1>8. PICK m \in S : \A x \in S : f[x] <= f[m]
  BY <1>1, <1>7, HighestMember
<1> DEFINE T == {x \in S : f[x] = f[m]}
<1>9. T \subseteq S /\ T # {} /\ IsFiniteSet(T)
  BY <1>7, <1>8, FS_Subset
<1>10. PICK h \in [T -> Nat] : \A x \in T : h[x] = g[x]
  <2>1. [x \in T |-> g[x]] \in [T -> Nat]
    BY <1>5
  <2> QED
    BY <2>1
<1>11. PICK n \in T : \A x \in T : h[x] <= h[n]
  <2> HIDE DEF T
  <2> QED
    BY <1>9, HighestMember
<1>12. PICK s \in S : f[n] < f[s] \/ (f[n] = f[s] /\ g[n] < g[s])
  BY <1>6, <1>11
<1>13. f[s] <= f[m] /\ f[n] = f[m] /\ f[s] \in Nat /\ f[m] \in Nat
  BY <1>8, <1>11, <1>12
<1>14. s \in T /\ g[n] < g[s]
  BY <1>12, <1>13
<1>15. g[s] <= g[n] /\ g[s] \in Nat /\ g[n] \in Nat
  BY <1>5, <1>9, <1>10, <1>11, <1>14
<1> QED
  BY <1>14, <1>15

\* The requests that PATCH and POST lock rows in one order, so only a repair,
\* which locks the profile before its provider (repair.py:548), can close a
\* circle of waiting transactions.
THEOREM PatchesNeverCircle == Spec => PatchesShareLockOrder
<1>1. Init => HeldInOrder
  <2> SUFFICES ASSUME Init PROVE HeldInOrder
    OBVIOUS
  <2>1. \A r \in Requests : req[r].pc = "idle"
    BY DEF Init, Idle
  <2> QED
    BY <2>1 DEF HeldInOrder, HeldFits, SourceSteps, ReloadSteps
<1> DEFINE OnlyRepairs ==
             \A S \in SUBSET Requests : Circle(S) => \E r \in S : req[r].op = "repair"
<1>2. IInv /\ HeldInOrder => OnlyRepairs
  BY CirclesNeedRepair
<1>3. OnlyRepairs' =>
        [\A S \in SUBSET Requests : Circle(S)' => \E r \in S : req'[r].op = "repair"]_vars
  OBVIOUS
<1> HIDE DEF OnlyRepairs
<1>4. Spec => []HeldInOrder
  BY <1>1, NextHeld, ProviderInductive, PTL DEF Spec
<1>5. Spec => []OnlyRepairs
  BY <1>2, <1>4, ProviderInductive, PTL
<1> QED
  BY <1>3, <1>5, PTL DEF PatchesShareLockOrder
================================================================================
