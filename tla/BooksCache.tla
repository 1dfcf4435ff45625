----------------------------- MODULE BooksCache -----------------------------
(***************************************************************************)
(* The process-wide cache of decompressed books: a OnceCell per mode, which *)
(* holds the index of the mode's books file, a OnceCell per file, shared by *)
(* the modes published against it, and an LRU list of the loaded files      *)
(* under a budget (crates/lgs/src/math_engine.rs).                          *)
(*                                                                          *)
(* Spins load their mode's assets concurrently; a step is what happens      *)
(* between two awaits.  Cells are numbered as they are made: a request may  *)
(* hold a cell that is no longer in its map.  `touch` runs under the lock   *)
(* of the list and is one step.  The list is the set of its entries, each   *)
(* with the time of its last touch: the code keeps them in that order.      *)
(***************************************************************************)
EXTENDS Integers, FiniteSets

CONSTANTS
    Loaders,     \* spins and preloads under way
    Modes,       \* (tenant, game, mode)
    Files,       \* (tenant, path)
    Tenants,
    FileOf,      \* the books file of each mode
    TenantOf,    \* the tenant of each file
    Bytes,       \* its decompressed size
    MaxFiles, MaxBytes,  \* the global budget
    Cap,         \* the share of it of each tenant that has a cap
    MaxLoads     \* bound: calls of load_assets

ASSUME BooksAssumption ==
    /\ FileOf \in [Modes -> Files] /\ TenantOf \in [Files -> Tenants]
    /\ Bytes \in [Files -> Nat] /\ DOMAIN Cap \subseteq Tenants
    /\ \A x \in DOMAIN Cap : Cap[x] \in Nat
    /\ MaxFiles \in Nat /\ MaxBytes \in Nat /\ MaxLoads \in Nat
    /\ "none" \notin Modes

VARIABLES
    modes,      \* modes map: the cell of each mode, 0: none
    assets,     \* the mode cells that are initialised, with the file cell whose index each holds
    files,      \* files map: the cell of each file, 0: none
    ready,      \* file cells that are initialised
    lru,        \* the loaded files' entries
    clock,      \* entries pushed to the list so far
    cells,      \* cells made
    loader,     \* what each loader is doing
    overtaken,  \* history: file cells evicted while a load was on its way to publish them
    loads       \* calls so far

maps == <<modes, assets, files, ready>>
list == <<lru, clock>>
booksVars == <<maps, list, cells, loader, overtaken, loads>>

\* mcell, fcell: the cells the loader has cloned.
NoLoad == [pc |-> "idle", mode |-> "none", mcell |-> 0, fcell |-> 0]

BooksInit ==
    /\ modes = [m \in Modes |-> 0] /\ assets = [c \in {} |-> 0]
    /\ files = [f \in Files |-> 0] /\ ready = {}
    /\ lru = {} /\ clock = 0
    /\ cells = 0
    /\ loader = [t \in Loaders |-> NoLoad]
    /\ overtaken = {}
    /\ loads = 0

-----------------------------------------------------------------------------

Doing(t, step) == loader[t].pc = step

FileAt(t) == FileOf[loader[t].mode]

\* Somebody is initialising the cell.
ModeTaken(c) ==
    \E u \in Loaders :
        loader[u].mcell = c /\ loader[u].pc \in {"weights", "file", "load", "touch", "publish"}
FileTaken(c) == \E u \in Loaders : loader[u].fcell = c /\ Doing(u, "load")

\* A map's cell, made if there is none; cells are numbered as they are made.
CellOf(c) == IF c = 0 THEN cells + 1 ELSE c
CellsWith(c) == IF c = 0 THEN cells + 1 ELSE cells

\* load_assets: the cell of the mode.
LoadAssets(t, m) ==
    /\ Doing(t, "idle")
    /\ loads < MaxLoads
    /\ loads' = loads + 1
    /\ modes' = [modes EXCEPT ![m] = CellOf(@)]
    /\ cells' = CellsWith(modes[m])
    /\ loader' = [loader EXCEPT ![t] =
           [pc |-> "mode", mode |-> m, mcell |-> CellOf(modes[m]), fcell |-> 0]]
    /\ UNCHANGED <<assets, files, ready, list, overtaken>>

Goes(t, step) == loader' = [loader EXCEPT ![t].pc = step]
Ends(t) == loader' = [loader EXCEPT ![t] = NoLoad]
CachesSame == UNCHANGED <<maps, list, cells, overtaken, loads>>

\* get_or_try_init: initialised already,
ModeReady(t) ==
    /\ Doing(t, "mode")
    /\ loader[t].mcell \in DOMAIN assets
    /\ Ends(t) /\ CachesSame

\* or nobody is at it: read the weights.
InitMode(t) ==
    /\ Doing(t, "mode")
    /\ loader[t].mcell \notin DOMAIN assets /\ ~ModeTaken(loader[t].mcell)
    /\ Goes(t, "weights") /\ CachesSame

\* load_books: the cell of the file.
LoadBooks(t) ==
    /\ Doing(t, "weights")
    /\ files' = [files EXCEPT ![FileAt(t)] = CellOf(@)]
    /\ cells' = CellsWith(files[FileAt(t)])
    /\ loader' = [loader EXCEPT ![t] = [pc |-> "file", mode |-> @.mode, mcell |-> @.mcell,
                                        fcell |-> CellOf(files[FileAt(t)])]]
    /\ UNCHANGED <<modes, assets, ready, list, overtaken, loads>>

FileReady(t) ==
    /\ Doing(t, "file")
    /\ loader[t].fcell \in ready
    /\ Goes(t, "touch") /\ CachesSame

InitFile(t) ==
    /\ Doing(t, "file")
    /\ loader[t].fcell \notin ready /\ ~FileTaken(loader[t].fcell)
    /\ Goes(t, "load") /\ CachesSame

\* open_books, on the blocking pool.
Loaded(t) ==
    /\ Doing(t, "load")
    /\ ready' = ready \union {loader[t].fcell}
    /\ Goes(t, "touch")
    /\ UNCHANGED <<modes, assets, files, list, cells, overtaken, loads>>

\* A file that cannot be read or parsed, or a caller that stops waiting: the
\* cell stays empty and the next caller tries again.
LoadFails(t) ==
    /\ loader[t].pc \in {"mode", "weights", "file", "load"}
    /\ Ends(t) /\ CachesSame

\* A caller that stops waiting while the blocking pool loads the file: the
\* cells are free again, the thread goes on and its result is dropped.
CallerGone(t) ==
    /\ Doing(t, "load")
    /\ Goes(t, "gone") /\ CachesSame

ThreadEnds(t) ==
    /\ Doing(t, "gone")
    /\ Ends(t) /\ CachesSame

-----------------------------------------------------------------------------
(* touch and evict, as functions of the list's entries.                     *)

\* The bytes of some entries: each byte is counted with its entry.
BytesIn(e) == {e} \X (1 .. Bytes[e.file])
BytesOf(S) == Cardinality(UNION {BytesIn(e) : e \in S})

OfTenant(S, x) == {e \in S : TenantOf[e.file] = x}

\* What is left of S when the entries before e have gone.
Since(S, e) == {d \in S : d.used >= e.used}

OverCap(S) ==
    Cardinality(S) > 1 /\ (Cardinality(S) > MaxFiles \/ BytesOf(S) > MaxBytes)

\* The tenant keeps the entry just touched, its last, whatever its size.
OverTenant(S, x) ==
    x \in DOMAIN Cap /\ Cardinality(S) > 1 /\ BytesOf(S) > Cap[x]

\* What the tenant keeps, its oldest entries going first, until it fits.
TenantKeeps(S, x) ==
    LET mine == OfTenant(S, x)
    IN  {d \in mine : \E e \in mine : e.used <= d.used /\ ~OverTenant(Since(mine, e), x)}

\* What all the tenants keep, the oldest entries of all going first.
AllKeep(S) == {d \in S : \E e \in S : e.used <= d.used /\ ~OverCap(Since(S, e))}

\* What a touch of one of x's files leaves of the list.
Trimmed(S, x) == AllKeep((S \ OfTenant(S, x)) \union TenantKeeps(S, x))

\* The file cells that a load has, and has not published to its mode yet.
InFlight == {loader[u].fcell : u \in {v \in Loaders : ~Doing(v, "gone")}}

\* Mutant of IsCurrent: a request re-adds a file that was evicted meanwhile.
IsCurrentAlways(t) == TRUE

\* "it must not re-add a phantom LRU entry"
IsCurrent(t) == files[FileAt(t)] = loader[t].fcell

\* Mutant of Unmapped: the entries go, their cells stay.
UnmappedNone(gone) == {}

\* evict: "only if it is still the same cell"
Unmapped(gone) == {f \in Files : \E e \in gone : e.file = f /\ e.cell = files[f]}

\* evict: "then drop every mode entry holding that index"
Dropped(gone) ==
    {m \in Modes : modes[m] \in DOMAIN assets
                     /\ \E e \in gone : e.cell = files[e.file] /\ e.cell = assets[modes[m]]}

TouchBooks(t) ==
    LET entry == [file |-> FileAt(t), cell |-> loader[t].fcell, used |-> clock + 1]
        pushed == {e \in lru : e.file # entry.file} \union {entry}
        kept == Trimmed(pushed, TenantOf[entry.file])
        gone == IF IsCurrent(t) THEN pushed \ kept ELSE {}
    IN  /\ Doing(t, "touch")
        /\ lru' = IF IsCurrent(t) THEN kept ELSE lru
        /\ clock' = IF IsCurrent(t) THEN clock + 1 ELSE clock
        /\ files' = [f \in Files |-> IF f \in Unmapped(gone) THEN 0 ELSE files[f]]
        /\ modes' = [m \in Modes |-> IF m \in Dropped(gone) THEN 0 ELSE modes[m]]
        /\ overtaken' = overtaken \union ({e.cell : e \in gone} \intersect InFlight)
        /\ Goes(t, "publish")
        /\ UNCHANGED <<assets, ready, cells, loads>>

\* The mode's cell is initialised.
Publish(t) ==
    /\ Doing(t, "publish")
    /\ assets' = [c \in DOMAIN assets \union {loader[t].mcell} |->
                    IF c = loader[t].mcell THEN loader[t].fcell ELSE assets[c]]
    /\ Ends(t)
    /\ UNCHANGED <<modes, files, ready, list, cells, overtaken, loads>>

-----------------------------------------------------------------------------

BooksNext == \E t \in Loaders :
    \/ \E m \in Modes : LoadAssets(t, m)
    \/ ModeReady(t) \/ InitMode(t) \/ LoadBooks(t) \/ FileReady(t) \/ InitFile(t)
    \/ Loaded(t) \/ LoadFails(t) \/ CallerGone(t) \/ ThreadEnds(t) \/ TouchBooks(t) \/ Publish(t)

BooksSpec == BooksInit /\ [][BooksNext]_booksVars

-----------------------------------------------------------------------------

BooksTyped ==
    /\ cells \in Nat /\ clock \in Nat /\ loads \in Nat
    /\ modes \in [Modes -> 0 .. cells] /\ files \in [Files -> 0 .. cells]
    /\ DOMAIN assets \subseteq 1 .. cells /\ \A c \in DOMAIN assets : assets[c] \in ready
    /\ ready \subseteq 1 .. cells /\ overtaken \subseteq ready
    /\ lru \subseteq [file : Files, cell : ready, used : 1 .. clock]
    /\ loader \in [Loaders -> [pc : {"idle", "mode", "weights", "file", "load", "touch",
                                       "publish", "gone"},
                               mode : Modes \union {"none"}, mcell : 0 .. cells, fcell : 0 .. cells]]
    /\ \A t \in Loaders : loader[t] = NoLoad \/ (loader[t].mode \in Modes /\ loader[t].mcell # 0)

\* Every entry of the list is the file's current cell: none is a phantom, none
\* is listed twice, no two were touched at a time.
ListIsCurrent ==
    /\ \A e \in lru : files[e.file] = e.cell
    /\ \A d, e \in lru : d.file = e.file \/ d.used = e.used => d = e

\* Every loaded file of the map is in the list, or a load is about to put it
\* there: nothing is kept outside the budget.
LoadedIsListed ==
    \A f \in Files : files[f] \in ready =>
        \/ \E e \in lru : e.file = f
        \/ \E t \in Loaders : Doing(t, "touch") /\ loader[t].fcell = files[f]

\* After every touch the list is within the global budget and each tenant
\* within its own, or there is a single entry to blame.
BooksFit ==
    /\ Cardinality(lru) <= MaxFiles \/ Cardinality(lru) = 1
    /\ BytesOf(lru) <= MaxBytes \/ Cardinality(lru) = 1
    /\ \A x \in DOMAIN Cap :
        BytesOf(OfTenant(lru, x)) <= Cap[x] \/ Cardinality(OfTenant(lru, x)) = 1

\* "the multi-GiB decompress + index happens once": no file is being loaded
\* twice at a time, but for a thread whose caller has gone.
OneLoadPerFile ==
    \A t, u \in Loaders : Doing(t, "load") /\ Doing(u, "load") /\ FileAt(t) = FileAt(u) => t = u

\* A mode only keeps alive an index that is in the map, unless it was evicted
\* while the mode was being loaded.
ModesHoldCached ==
    \A m \in Modes : modes[m] \in DOMAIN assets =>
        assets[modes[m]] = files[FileOf[m]] \/ assets[modes[m]] \in overtaken

\* The books in memory: the list names exactly the current and loaded files, it
\* fits the budgets, a file is loaded once at a time and a mode holds only what
\* is cached (load_assets, load_books, touch, evict in math_engine.rs).
BooksSound ==
    /\ BooksTyped /\ ListIsCurrent /\ LoadedIsListed
    /\ BooksFit /\ OneLoadPerFile /\ ModesHoldCached

(***************************************************************************)
(* What keeps it so.  A cell is made for one mode, or for one file.  Whoever *)
(* loads a file has the cell that is in the map; whoever has a cell on its   *)
(* way to its mode has the one in the map, or one that was evicted under it. *)
(***************************************************************************)
CellsDistinct ==
    /\ \A m, n \in Modes : modes[m] = modes[n] /\ modes[m] # 0 => m = n
    /\ \A f, g \in Files : files[f] = files[g] /\ files[f] # 0 => f = g

LoadersOwn == \A t \in Loaders :
    /\ \A m \in Modes : modes[m] = loader[t].mcell /\ modes[m] # 0 => m = loader[t].mode
    /\ \A f \in Files : files[f] = loader[t].fcell /\ files[f] # 0 => f = FileAt(t)

HasCurrent(t) == loader[t].fcell = files[FileAt(t)]

LoaderCurrent(t) ==
    /\ loader[t].pc \in {"file", "load", "touch", "publish", "gone"} => loader[t].fcell # 0
    /\ loader[t].pc \in {"touch", "publish"} => loader[t].fcell \in ready
    /\ loader[t].pc \in {"file", "touch", "publish"} =>
         HasCurrent(t) \/ loader[t].fcell \in overtaken
    /\ Doing(t, "load") => HasCurrent(t) /\ loader[t].fcell \notin ready

LoadersCurrent ==
    /\ \A t \in Loaders : LoaderCurrent(t)
    /\ \A t, u \in Loaders :
         Doing(t, "load") /\ Doing(u, "load") /\ loader[t].fcell = loader[u].fcell => t = u

BooksInv ==
    /\ BooksSound /\ IsFiniteSet(lru)
    /\ CellsDistinct /\ LoadersOwn /\ LoadersCurrent

=============================================================================
