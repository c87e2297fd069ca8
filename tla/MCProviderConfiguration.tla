------------------------ MODULE MCProviderConfiguration ------------------------
EXTENDS ProviderConfiguration, TLC

CONSTANTS r1, r2

MCAdminOf == (r1 :> 31) @@ (r2 :> 32)

Config(n, t, u, e, c) ==
  [name |-> n, type |-> t, url |-> u, routing |-> FALSE, enabled |-> e,
   credential |-> c, revision |-> 1]

\* Two providers: the second is enabled, disabled, or a row of the first
\* release, with a secret reference instead of a credential.
MCInitConfigs ==
  { [c \in {1, 2} |-> IF c = 1 THEN Config("a", "openrouter", 0, TRUE, 21) ELSE d] :
      d \in {Config("b", "openrouter", 0, TRUE, 21),
             Config("b", "openrouter", 0, TRUE, None),
             Config("b", "vendor_specific", 0, TRUE, 21)} }

Profile(c, rev) == [provider |-> c, model |-> 0, enabled |-> c = 1, revision |-> rev]

\* The second profile is not created yet, or belongs to the other provider and
\* is disabled.
MCInitProfiles ==
  { [p \in {11, 12} |-> IF p = 11 THEN Profile(1, 1) ELSE d] :
      d \in {Profile(1, 0), Profile(2, 1)} }

MCInitGenerations == { [g \in {41} |-> None], [g \in {41} |-> 11] }

MCConfigPatches ==
  { [url |-> 1], [enabled |-> FALSE], [credential |-> 21, name |-> "a"] }

MCProfilePatches ==
  { [provider |-> 2], [provider |-> 1, enabled |-> TRUE], [model |-> 1] }

MCNewProfile == [model |-> 0, enabled |-> TRUE]
================================================================================
