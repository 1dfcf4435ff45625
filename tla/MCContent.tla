------------------------------ MODULE MCContent ------------------------------
(* Small instances of the content of a game and of the host that serves its  *)
(* revisions, two requests at a time, one instance chosen by the initial     *)
(* value of `part`:                                                          *)
(*   store   uploads, pushes, deletions and share links (ContentStore)       *)
(*   doors   one number of the workbench: members who leave, tokens, fronts, *)
(*           a restart (GameHost)                                            *)
(*   mounts  both mounts and two numbers, for a member who stays: one        *)
(*           request of each mount (GameHost)                                *)
(* The module that is not looked at stays as it begins.  Requests, blobs and *)
(* links are interchangeable.                                                *)
EXTENDS ContentStore, GameHost, TLC

CONSTANT Looked  \* the parts to look at

VARIABLE part

\* Every non-empty set of files.
AllManifests == SUBSET Hashes \ {{}}

Within ==
    /\ part = "doors" =>
         rows[2] = 0 /\ \A r \in Reqs : serving[r].mount = "workbench"
    /\ part = "mounts" =>
         /\ fronts = 0 /\ leaves = 0 /\ hour = 0 /\ crashes = 0 /\ token = NoToken
         /\ \A q, r \in {s \in Reqs : serving[s] # Idle} :
              q # r => serving[q].mount # serving[r].mount

ContentInit == part \in Looked /\ Init /\ HostInit

StoreStep == part = "store" /\ Next /\ UNCHANGED <<part, hostVars>>
HostStep == part # "store" /\ HostNext /\ UNCHANGED <<part, vars>> /\ Within'

ContentSpec == ContentInit /\ [][StoreStep \/ HostStep]_<<part, vars, hostVars>>

Symmetry == Permutations(Clients) \union Permutations(Hashes) \union Permutations(Links)
              \union Permutations(Reqs)

=============================================================================
