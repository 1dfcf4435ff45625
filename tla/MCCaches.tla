------------------------------ MODULE MCCaches -------------------------------
(* Small instances of the two caches of a game's math, one chosen by the     *)
(* initial value of `part`: the directories the server materializes          *)
(* ("disk", Materializer), and the books the engine holds in memory          *)
(* ("memory", BooksCache: three files of two tenants, one of them capped,    *)
(* two modes on the first file).  The other cache stays as it begins.  Tasks *)
(* are interchangeable.                                                      *)
EXTENDS Materializer, BooksCache, TLC

VARIABLE part

Published == [base |-> "books", bonus |-> "books", other |-> "large", guest |-> "guest"]
Hosted == [books |-> "x", large |-> "x", guest |-> "y"]
Sizes == [books |-> 1, large |-> 2, guest |-> 2]
TenantCaps == [x |-> 2]

CachesInit == part \in {"disk", "memory"} /\ Init /\ BooksInit

DiskStep == part = "disk" /\ Next /\ UNCHANGED <<part, booksVars>>
MemoryStep == part = "memory" /\ BooksNext /\ UNCHANGED <<part, vars>>

CachesSpec == CachesInit /\ [][DiskStep \/ MemoryStep]_<<part, vars, booksVars>>

Symmetry == Permutations(Tasks)

=============================================================================
