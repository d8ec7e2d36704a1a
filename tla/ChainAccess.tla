----------------------------- MODULE ChainAccess -----------------------------
(***************************************************************************)
(* What reads the permissions of the authority contract besides the        *)
(* publisher: the authorization cache of the API and the import command.   *)
(* Both meet the administration that grants and revokes at any moment, and *)
(* they do not meet each other.                                            *)
(***************************************************************************)
EXTENDS AuthCache, ImportArks

CONSTANTS
    ImportPair,   \* the authority of the import, and its NAAN
    Scenes        \* bound: requests and imports are tried one at a time

ASSUME AccessAssumption == ImportPair \in Pair /\ Scenes \subseteq {"requests", "import"}

VARIABLE scene

vars == <<permitted, cacheVars, importVars, scene>>

Init == CacheInit /\ ImportInit /\ scene \in Scenes

Allowed == ImportPair \in permitted

\* In the scene of an import the cache is at rest, its history too.
Administer ==
    /\ permitted' = IF Allowed THEN permitted \ {ImportPair} ELSE permitted \cup {ImportPair}
    /\ UNCHANGED <<cacheVars, importVars>>

Next ==
    /\ \/ scene = "requests" /\ CacheNext /\ UNCHANGED importVars
       \/ scene = "import" /\ ImportNext(Allowed) /\ UNCHANGED <<permitted, cacheVars>>
       \/ scene = "import" /\ Administer
    /\ UNCHANGED scene

Spec == Init /\ [][Next]_vars

----------------------------------------------------------------------------
\* Every variable of the two clients has its type, the cache within its size.
TypeOK ==
    /\ CacheTypeOK
    /\ ImportTypeOK
    /\ scene \in Scenes

=============================================================================
