--------------------------- MODULE MCDocumentSync ----------------------------
(* Small instances of DocumentSync: apps, documents and payloads are        *)
(* interchangeable.                                                         *)
EXTENDS DocumentSync, TLC

CONSTANTS d1, v1

\* One document came with a workspace the apps were in before.
OneImported == d1 :> v1
NoneImported == << >>

Symmetry == Permutations(Apps) \union Permutations(Docs) \union Permutations(Values)

=============================================================================
