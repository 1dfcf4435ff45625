------------------------------ MODULE CachesProofs ----------------------------
(***************************************************************************)
(* Proofs about the two caches of a game's math, Materializer and          *)
(* BooksCache, for any number of requests, loads, files and restarts, and  *)
(* about the index of the books, BooksIndex, for files of any length.      *)
(*                                                                         *)
(* The directories: one with a marker has every file of the revision that  *)
(* has its number, no request takes the marker off, and what is served is  *)
(* the revision asked for, unless a removal of the directory met another   *)
(* use of it.  One task at a time builds in a directory (Locked).  As long *)
(* as a directory has not been disturbed, who removes it is alone on it    *)
(* (Solo), so each task may rely on what it has found there (Fits) and what*)
(* is marked is complete (Whole).  What is kept fits the budget, or is yet to*)
(* be scanned, or is counted by whoever is evicting (Budgeted).            *)
(*                                                                         *)
(* The books in memory: the list names what is loaded and current, within  *)
(* the budgets.  The invariant is BooksInv of the module itself; what the  *)
(* eviction leaves is characterised first, then each step preserves it.    *)
(***************************************************************************)
EXTENDS Materializer, BooksCache, BooksIndex, FiniteSetTheorems, WellFoundedInduction, TLAPS

-----------------------------------------------------------------------------
(* The inductive invariant.                                                 *)

Steps ==
    {"idle", "look", "touch", "lock", "relook", "wipe", "create", "manifest", "fetch",
     "mark", "scan", "evict", "evict_dir", "serve", "delete", "delete_dir"}

Deleting == {"delete", "delete_dir"}

\* Who is in here holds the mutex of its directory.
Building == {"relook", "wipe", "create", "manifest", "fetch", "mark"}

\* Who is in here has found, or has completed, its directory.
Found == {"touch", "scan", "evict", "evict_dir", "serve"}

Shaped(r) ==
    /\ DOMAIN r = DOMAIN Idle
    /\ r.pc \in Steps
    /\ IF r.pc = "idle" THEN r.dir = nowhere ELSE r.dir \in Dirs
    /\ r.rev \in Nat
    /\ r.left \subseteq Parts \union {"marker"}
    /\ IF r.pc = "evict_dir" THEN r.victim # r.dir ELSE r.victim = Idle.victim

Typed ==
    /\ rows \in [Dirs -> Nat]
    /\ marked \subseteq Dirs
    /\ parts \in [Dirs -> [Parts -> Nat]]
    /\ lock \in [Dirs -> Tasks \union {nobody}]
    /\ count \in [requests : Nat, pushes : Nat, crashes : Nat]
    /\ DOMAIN task = Tasks
    /\ \A t \in Tasks : Shaped(task[t])

\* One task at a time builds in a directory.
Locked == \A t \in Tasks : task[t].pc \in Building => lock[task[t].dir] = t

Uses(t, d) == task[t].dir = d \/ task[t].victim = d

RemovesDir(t, d) == task[t].victim = d \/ (task[t].dir = d /\ task[t].pc \in Deleting)

\* Nobody else is on a directory that is being removed.
Solo(d) == \A t, u \in Tasks : RemovesDir(t, d) /\ Uses(u, d) => u = t

\* A marked directory is complete; of a deleted revision, it is going.
Whole(d) ==
    d \in marked => BeingRemoved(d) \/ (rows[d] # 0 /\ Complete(d, rows[d]))

\* Task t asked for the revision that still has the number.
Current(t, d) ==
    task[t].dir = d /\ task[t].pc \notin Deleting => task[t].rev = rows[d] /\ rows[d] # 0

\* No marker while t builds.
Unmarked(t, d) ==
    task[t].dir = d /\ task[t].pc \in Building \ {"relook"} => d \notin marked

\* The files t has fetched are there.
Fetched(t, d) ==
    task[t].dir = d /\ task[t].pc \in {"fetch", "mark"} =>
        /\ \A f \in Parts \ task[t].left : parts[d][f] = task[t].rev
        /\ task[t].pc = "mark" => task[t].left = {}

\* What t has found complete stays complete.
Served(t, d) ==
    task[t].dir = d /\ task[t].pc \in Found => d \in marked /\ Complete(d, task[t].rev)

\* Who has listed d to remove it has its marker on the list.
Listed(t, d) ==
    RemovesDir(t, d) /\ task[t].pc # "delete" /\ d \in marked => "marker" \in task[t].left

Fits(t, d) ==
    Current(t, d) /\ Unmarked(t, d) /\ Fetched(t, d) /\ Served(t, d) /\ Listed(t, d)

Sound(d) == Solo(d) /\ Whole(d) /\ \A t \in Tasks : Fits(t, d)

DiskInv == Typed /\ Locked /\ \A d \in Dirs \ disturbed : Sound(d)

-----------------------------------------------------------------------------
(* Steps of one task.                                                       *)

\* Only task t moves.
Moves(t) == DOMAIN task' = Tasks /\ \A u \in Tasks : u # t => task'[u] = task[u]

\* ... and it keeps its directory, its revision and its victim.
Keeps(t) ==
    /\ Moves(t)
    /\ DOMAIN task'[t] = DOMAIN Idle
    /\ task'[t].dir = task[t].dir /\ task'[t].rev = task[t].rev
    /\ task'[t].victim = task[t].victim

LEMMA IdleShaped == Shaped(Idle)
BY DEF Shaped, Idle, Steps, nowhere

LEMMA Shapes ==
    ASSUME Typed
    PROVE  DOMAIN task = Tasks /\ \A t \in Tasks : DOMAIN task[t] = DOMAIN Idle
BY DEF Typed, Shaped

LEMMA GotoKeeps ==
    ASSUME Typed, NEW t \in Tasks, NEW s, Goto(t, s)
    PROVE  Keeps(t) /\ task'[t].pc = s /\ task'[t].left = task[t].left
BY DEF Typed, Shaped, Goto, Keeps, Moves, Idle

LEMMA ManifestKeeps ==
    ASSUME Typed, NEW t \in Tasks, ReadManifest(t)
    PROVE  Keeps(t) /\ task'[t].pc = "fetch" /\ task'[t].left = Parts
BY DEF ReadManifest, Typed, Shaped, Keeps, Moves, Idle

LEMMA ScanKeeps ==
    ASSUME Typed, NEW t \in Tasks, Scan(t)
    PROVE  Keeps(t) /\ task'[t].pc = "evict" /\ task'[t].left = task[t].left
<1>1. PICK victims :
        task' = [task EXCEPT ![t].pc = "evict", ![t].victims = victims,
                             ![t].counted = FilesOf(Counted(t))]
  BY DEF Scan
<1> QED
  BY <1>1 DEF Typed, Shaped, Keeps, Moves, Idle

LEMMA ReleaseMoves ==
    ASSUME Typed, NEW t \in Tasks, Release(t)
    PROVE  Moves(t) /\ task'[t] = Idle
BY DEF Typed, Release, Moves

\* The types, from what the task that moves becomes.
LEMMA TypedMoves ==
    ASSUME Typed, NEW t \in Tasks, Moves(t), Shaped(task'[t]),
           rows' \in [Dirs -> Nat], marked' \subseteq Dirs,
           parts' \in [Dirs -> [Parts -> Nat]], lock' \in [Dirs -> Tasks \union {nobody}],
           count' \in [requests : Nat, pushes : Nat, crashes : Nat]
    PROVE  Typed'
<1>1. ASSUME NEW u \in Tasks PROVE Shaped(task'[u])
  BY DEF Typed, Moves
<1>2. DOMAIN task' = Tasks
  BY DEF Moves
<1> QED
  BY <1>1, <1>2 DEF Typed

\* The same when it keeps its directory and nothing else changes.
LEMMA TypedKeeps ==
    ASSUME Typed, NEW t \in Tasks, Keeps(t), ~At(t, "idle"), ~At(t, "evict_dir"),
           task'[t].pc \in Steps \ {"idle", "evict_dir"},
           task'[t].left \subseteq Parts \union {"marker"},
           UNCHANGED <<rows, lock>>, marked' \subseteq Dirs,
           parts' \in [Dirs -> [Parts -> Nat]],
           count' \in [requests : Nat, pushes : Nat, crashes : Nat]
    PROVE  Typed'
<1>1. Shaped(task[t])
  BY DEF Typed
<1>2. Shaped(task'[t])
  BY <1>1 DEF Shaped, Keeps, At
<1> QED
  BY <1>2, TypedMoves DEF Typed, Keeps

LEMMA MarkerTyped ==
    ASSUME Typed, NEW d \in Dirs, WriteMarker(d)
    PROVE  marked' \subseteq Dirs
BY DEF Typed, WriteMarker

\* The locks of the others stay.
LEMMA LockedMoves ==
    ASSUME Typed, Locked, NEW t \in Tasks, Moves(t),
           task'[t].pc \in Building => lock'[task'[t].dir] = t,
           \A u \in Tasks, d \in Dirs : u # t /\ lock[d] = u => lock'[d] = u
    PROVE  Locked'
<1> SUFFICES ASSUME NEW u \in Tasks, task'[u].pc \in Building
             PROVE  lock'[task'[u].dir] = u
  BY DEF Locked
<1>1. CASE u = t
  BY <1>1
<1>2. CASE u # t
  <2>1. task'[u] = task[u] /\ lock[task[u].dir] = u
    BY <1>2 DEF Moves, Locked
  <2>2. task[u].dir \in Dirs
    BY <2>1 DEF Typed, Shaped, Building
  <2> QED
    BY <1>2, <2>1, <2>2
<1> QED
  BY <1>1, <1>2

LEMMA LockedKeeps ==
    ASSUME Typed, Locked, NEW t \in Tasks, Keeps(t), UNCHANGED lock,
           task'[t].pc \in Building => task[t].pc \in Building
    PROVE  Locked'
BY LockedMoves DEF Keeps, Locked

LEMMA ReleaseLocked ==
    ASSUME Typed, Locked, NEW t \in Tasks, Release(t)
    PROVE  Locked' /\ lock' \in [Dirs -> Tasks \union {nobody}]
<1>1. task'[t].pc \notin Building
  BY ReleaseMoves DEF Idle, Building
<1>2. \A u \in Tasks, d \in Dirs : u # t /\ lock[d] = u => lock'[d] = u
  BY DEF Release
<1> QED
  BY <1>1, <1>2, LockedMoves, ReleaseMoves DEF Release, Typed

-----------------------------------------------------------------------------
(* The types and the locks.                                                 *)

LEMMA InitTyped == Init => Typed /\ Locked
<1> SUFFICES ASSUME Init PROVE Typed /\ Locked
  OBVIOUS
<1>1. \A t \in Tasks : task[t] = Idle
  BY DEF Init
<1>2. \A t \in Tasks : Shaped(task[t])
  BY <1>1, IdleShaped
<1>3. Typed
  BY <1>2 DEF Init, Typed
<1>4. Locked
  BY <1>1 DEF Locked, Idle, Building
<1> QED
  BY <1>3, <1>4

LEMMA EnsureTyped ==
    ASSUME Typed, Locked, NEW t \in Tasks,
           \/ Look(t) \/ Touch(t) \/ Lock(t) \/ Relook(t) \/ Create(t) \/ ReadManifest(t)
           \/ Fetch(t) \/ Mark(t) \/ Scan(t) \/ DeleteCacheDir(t)
    PROVE  Typed' /\ Locked'
<1>1. Shaped(task[t]) /\ (task[t].pc # "idle" => task[t].dir \in Dirs)
  BY DEF Typed, Shaped
<1>2. CASE Look(t)
  <2>1. Keeps(t) /\ task'[t].pc \in {"touch", "lock"} /\ task'[t].left = task[t].left
    BY <1>2, GotoKeeps DEF Look
  <2>2. At(t, "look") /\ UNCHANGED <<rows, disk, lock, history>>
    BY <1>2 DEF Look
  <2> QED
    BY <1>1, <2>1, <2>2, TypedKeeps, LockedKeeps
       DEF At, disk, history, Typed, Shaped, Steps, Building
<1>3. CASE Touch(t)
  <2>1. Keeps(t) /\ task'[t].pc = "serve" /\ task'[t].left = task[t].left
    BY <1>3, GotoKeeps DEF Touch
  <2>2. At(t, "touch") /\ UNCHANGED <<rows, parts, lock, history>> /\ WriteMarker(task[t].dir)
    BY <1>3 DEF Touch
  <2>3. marked' \subseteq Dirs
    BY <1>1, <2>2, MarkerTyped DEF At
  <2> QED
    BY <1>1, <2>1, <2>2, <2>3, TypedKeeps, LockedKeeps
       DEF At, history, Typed, Shaped, Steps, Building
<1>4. CASE Lock(t)
  <2>1. Keeps(t) /\ task'[t].pc = "relook" /\ task'[t].left = task[t].left
    BY <1>4, GotoKeeps DEF Lock
  <2>2. /\ At(t, "lock") /\ UNCHANGED <<rows, disk, history>>
        /\ lock[task[t].dir] = nobody /\ lock' = [lock EXCEPT ![task[t].dir] = t]
    BY <1>4 DEF Lock
  <2>3. task[t].dir \in Dirs /\ lock' \in [Dirs -> Tasks \union {nobody}]
    BY <1>1, <2>2 DEF At, Typed
  <2>4. Shaped(task'[t])
    BY <1>1, <2>1, <2>2 DEF Shaped, Keeps, At, Steps
  <2>5. Typed'
    BY <2>1, <2>2, <2>3, <2>4, TypedMoves DEF Keeps, Typed, disk, history
  <2>6. lock'[task'[t].dir] = t
    BY <2>1, <2>2, <2>3 DEF Keeps, Typed
  <2>7. \A u \in Tasks, d \in Dirs : u # t /\ lock[d] = u => lock'[d] = u
    BY <2>2, MaterializerAssumption DEF Typed, nobody, MaterializerAssumption
  <2> QED
    BY <2>1, <2>5, <2>6, <2>7, LockedMoves DEF Keeps
<1>5. CASE Relook(t)
  <2>1. /\ Keeps(t) /\ task'[t].pc \in {"touch", "wipe", "create"}
        /\ task'[t].left \subseteq Parts \union {"marker"}
    BY <1>5 DEF Relook, Typed, Shaped, Keeps, Moves, Idle, Entries
  <2>2. At(t, "relook") /\ UNCHANGED <<rows, disk, lock, history>>
    BY <1>5 DEF Relook
  <2> QED
    BY <1>1, <2>1, <2>2, TypedKeeps, LockedKeeps
       DEF At, disk, history, Typed, Steps, Building
<1>6. CASE Create(t)
  <2>1. Keeps(t) /\ task'[t].pc = "manifest" /\ task'[t].left = task[t].left
    BY <1>6, GotoKeeps DEF Create
  <2>2. At(t, "create") /\ UNCHANGED <<rows, marked, parts, lock, history>>
    BY <1>6 DEF Create
  <2> QED
    BY <1>1, <2>1, <2>2, TypedKeeps, LockedKeeps
       DEF At, history, Typed, Shaped, Steps, Building
<1>7. CASE ReadManifest(t)
  <2>1. Keeps(t) /\ task'[t].pc = "fetch" /\ task'[t].left = Parts
    BY <1>7, ManifestKeeps
  <2>2. At(t, "manifest") /\ UNCHANGED <<rows, disk, lock, history>>
    BY <1>7 DEF ReadManifest
  <2> QED
    BY <1>1, <2>1, <2>2, TypedKeeps, LockedKeeps
       DEF At, disk, history, Typed, Steps, Building
<1>8. CASE Fetch(t)
  <2>1. PICK f \in task[t].left :
          /\ parts' = [parts EXCEPT ![task[t].dir][f] = task[t].rev]
          /\ task' = [task EXCEPT ![t].left = @ \ {f},
                                  ![t].pc = IF task[t].left = {f} THEN "mark" ELSE @]
    BY <1>8 DEF Fetch
  <2>2. At(t, "fetch") /\ UNCHANGED <<rows, marked, lock, history>>
    BY <1>8 DEF Fetch
  <2>3. /\ Keeps(t) /\ task'[t].pc \in {"fetch", "mark"}
        /\ task'[t].left \subseteq Parts \union {"marker"}
    BY <1>1, <2>1, <2>2 DEF Typed, Shaped, Keeps, Moves, Idle, At
  <2>4. parts' \in [Dirs -> [Parts -> Nat]]
    BY <1>1, <2>1 DEF Typed, Shaped
  <2> QED
    BY <1>1, <2>2, <2>3, <2>4, TypedKeeps, LockedKeeps
       DEF At, history, Typed, Steps, Building
<1>9. CASE Mark(t)
  <2>1. Keeps(t) /\ task'[t].pc = "scan" /\ task'[t].left = task[t].left
    BY <1>9, GotoKeeps DEF Mark
  <2>2. At(t, "mark") /\ UNCHANGED <<rows, parts, lock, history>> /\ WriteMarker(task[t].dir)
    BY <1>9 DEF Mark
  <2>3. marked' \subseteq Dirs
    BY <1>1, <2>2, MarkerTyped DEF At
  <2> QED
    BY <1>1, <2>1, <2>2, <2>3, TypedKeeps, LockedKeeps
       DEF At, history, Typed, Shaped, Steps, Building
<1>10. CASE Scan(t)
  <2>1. Keeps(t) /\ task'[t].pc = "evict" /\ task'[t].left = task[t].left
    BY <1>10, ScanKeeps
  <2>2. At(t, "scan") /\ UNCHANGED <<rows, disk, lock, history>>
    BY <1>10 DEF Scan
  <2> QED
    BY <1>1, <2>1, <2>2, TypedKeeps, LockedKeeps
       DEF At, disk, history, Typed, Shaped, Steps, Building
<1>11. CASE DeleteCacheDir(t)
  <2>1. /\ Keeps(t) /\ task'[t].pc = "delete_dir"
        /\ task'[t].left \subseteq Parts \union {"marker"}
    BY <1>11 DEF DeleteCacheDir, Typed, Shaped, Keeps, Moves, Idle, Entries
  <2>2. At(t, "delete") /\ UNCHANGED <<rows, disk, lock, history>>
    BY <1>11 DEF DeleteCacheDir
  <2> QED
    BY <1>1, <2>1, <2>2, TypedKeeps, LockedKeeps
       DEF At, disk, history, Typed, Steps, Building
<1> QED
  BY <1>2, <1>3, <1>4, <1>5, <1>6, <1>7, <1>8, <1>9, <1>10, <1>11

\* A task ends: by its own, or when its client leaves.
LEMMA EndTyped ==
    ASSUME Typed, Locked, NEW t \in Tasks, EnsureFails(t) \/ Serve(t) \/ ClientLeaves(t)
    PROVE  Typed' /\ Locked'
<1>1. ASSUME Release(t), UNCHANGED <<rows, disk, count>> PROVE Typed' /\ Locked'
  <2>1. Moves(t) /\ Shaped(task'[t])
    BY <1>1, ReleaseMoves, IdleShaped
  <2>2. Locked' /\ lock' \in [Dirs -> Tasks \union {nobody}]
    BY <1>1, ReleaseLocked
  <2> QED
    BY <1>1, <2>1, <2>2, TypedMoves DEF Typed, disk
<1>2. CASE ClientLeaves(t) /\ task[t].pc \in {"scan", "evict", "evict_dir"}
  <2>1. /\ lock' = [lock EXCEPT ![task[t].dir] = nobody] /\ lock[task[t].dir] = t
        /\ UNCHANGED <<rows, disk, task, count>>
    BY <1>2 DEF ClientLeaves
  <2>2. task[t].pc \notin Building /\ Moves(t)
    BY <1>2, <2>1 DEF Building, Moves, Typed
  <2>3. Shaped(task'[t]) /\ lock' \in [Dirs -> Tasks \union {nobody}]
    BY <2>1 DEF Typed
  <2>4. \A u \in Tasks, d \in Dirs : u # t /\ lock[d] = u => lock'[d] = u
    BY <2>1 DEF Typed
  <2> QED
    BY <2>1, <2>2, <2>3, <2>4, TypedMoves, LockedMoves DEF Typed, disk
<1>3. CASE ClientLeaves(t) /\ task[t].pc \notin {"scan", "evict", "evict_dir"}
  BY <1>1, <1>3 DEF ClientLeaves
<1> QED
  BY <1>1, <1>2, <1>3 DEF EnsureFails, Serve, history

LEMMA EvictTyped ==
    ASSUME Typed, Locked, NEW t \in Tasks, Unlink(t) \/ RemoveDirectory(t) \/ EvictNext(t)
    PROVE  Typed' /\ Locked'
<1>1. Shaped(task[t]) /\ (task[t].pc # "idle" => task[t].dir \in Dirs)
  BY DEF Typed, Shaped
<1>2. CASE Unlink(t)
  <2>1. PICK e \in task[t].left :
          /\ task' = [task EXCEPT ![t].left = @ \ {e}]
          /\ marked' = IF e = "marker" THEN marked \ {Target(t)} ELSE marked
          /\ parts' = IF e = "marker" THEN parts ELSE [parts EXCEPT ![Target(t)][e] = 0]
    BY <1>2 DEF Unlink
  <2>2. UNCHANGED <<rows, lock, history>>
    BY <1>2 DEF Unlink
  <2>3. Keeps(t) /\ task'[t].pc = task[t].pc /\ task'[t].left \subseteq task[t].left
    BY <2>1 DEF Typed, Shaped, Keeps, Moves, Idle
  <2>4. Shaped(task'[t])
    BY <1>1, <2>3 DEF Shaped, Keeps
  <2>5. e \in Parts \union {"marker"} /\ marked' \subseteq Dirs
    BY <1>1, <2>1 DEF Shaped, Typed
  <2>6. parts' \in [Dirs -> [Parts -> Nat]]
    <3>1. CASE e = "marker"
      BY <2>1, <3>1 DEF Typed
    <3>2. CASE e # "marker"
      BY <2>1, <2>5, <3>2 DEF Typed
    <3> QED
      BY <3>1, <3>2
  <2>7. Typed'
    BY <2>2, <2>3, <2>4, <2>5, <2>6, TypedMoves DEF Typed, Keeps, history
  <2> QED
    BY <2>2, <2>3, <2>7, LockedKeeps
<1>3. CASE RemoveDirectory(t)
  <2>1. UNCHANGED <<rows, marked, parts, lock, count>>
    BY <1>3 DEF RemoveDirectory
  <2>2. CASE At(t, "wipe") /\ Goto(t, "create")
    <3>1. Keeps(t) /\ task'[t].pc = "create" /\ task'[t].left = task[t].left
      BY <2>2, GotoKeeps
    <3> QED
      BY <1>1, <2>1, <2>2, <3>1, TypedKeeps, LockedKeeps DEF At, Typed, Shaped, Steps, Building
  <2>3. CASE At(t, "delete_dir") /\ task' = [task EXCEPT ![t] = Idle]
    <3>1. Moves(t) /\ task'[t] = Idle
      BY <2>3 DEF Typed, Moves
    <3>2. task'[t].pc \notin Building
      BY <3>1 DEF Idle, Building
    <3> QED
      BY <2>1, <3>1, <3>2, IdleShaped, TypedMoves, LockedMoves DEF Typed
  <2>4. CASE ~At(t, "wipe") /\ ~At(t, "delete_dir")
    <3>1. PICK n : /\ At(t, "evict_dir")
                   /\ task' = [task EXCEPT ![t].pc = "evict", ![t].victim = nowhere,
                                           ![t].counted = n]
      BY <1>3, <2>4 DEF RemoveDirectory
    <3>2. /\ Moves(t) /\ DOMAIN task'[t] = DOMAIN Idle /\ task'[t].pc = "evict"
          /\ task'[t].dir = task[t].dir /\ task'[t].rev = task[t].rev
          /\ task'[t].left = task[t].left /\ task'[t].victim = Idle.victim
      BY <3>1 DEF Typed, Shaped, Moves, Idle
    <3>3. Shaped(task'[t]) /\ task'[t].pc \notin Building
      BY <1>1, <3>1, <3>2 DEF Shaped, At, Steps, Building
    <3> QED
      BY <2>1, <3>2, <3>3, TypedMoves, LockedMoves DEF Typed
  <2> QED
    BY <1>3, <2>2, <2>3, <2>4 DEF RemoveDirectory, At
<1>4. CASE EvictNext(t)
  <2> DEFINE victims == task[t].victims
  <2>1. At(t, "evict") /\ UNCHANGED <<rows, disk, lock, count>>
    BY <1>4 DEF EvictNext
  <2>2. CASE Goto(t, "serve")
    <3>1. Keeps(t) /\ task'[t].pc = "serve" /\ task'[t].left = task[t].left
      BY <2>2, GotoKeeps
    <3> QED
      BY <1>1, <2>1, <3>1, TypedKeeps, LockedKeeps DEF At, Typed, Shaped, Steps, Building, disk
  <2>3. CASE task' = [task EXCEPT ![t].victims = Tail(victims)]
    <3>1. Keeps(t) /\ task'[t].pc = task[t].pc /\ task'[t].left = task[t].left
      BY <2>3 DEF Typed, Shaped, Keeps, Moves, Idle
    <3> QED
      BY <1>1, <2>1, <3>1, TypedKeeps, LockedKeeps DEF At, Typed, Shaped, Steps, Building, disk
  <2>4. CASE /\ Head(victims) # task[t].dir
             /\ task' = [task EXCEPT ![t].pc = "evict_dir", ![t].left = Entries(Head(victims)),
                                     ![t].victims = Tail(victims), ![t].victim = Head(victims)]
    <3>1. /\ Moves(t) /\ DOMAIN task'[t] = DOMAIN Idle /\ task'[t].pc = "evict_dir"
          /\ task'[t].dir = task[t].dir /\ task'[t].rev = task[t].rev
          /\ task'[t].left = Entries(Head(victims)) /\ task'[t].victim = Head(victims)
      BY <2>4 DEF Typed, Shaped, Moves, Idle
    <3>2. Entries(Head(victims)) \subseteq Parts \union {"marker"}
      BY DEF Entries
    <3>3. Shaped(task'[t]) /\ task'[t].pc \notin Building
      BY <1>1, <2>1, <2>4, <3>1, <3>2 DEF Shaped, At, Steps, Building
    <3> QED
      BY <2>1, <3>1, <3>3, TypedMoves, LockedMoves DEF Typed, disk
  <2> QED
    BY <1>4, <2>2, <2>3, <2>4 DEF EvictNext
<1> QED
  BY <1>2, <1>3, <1>4

LEMMA AroundTyped ==
    ASSUME Typed, Locked,
           \/ \E t \in Tasks, d \in Dirs : Request(t, d) \/ DeleteRevision(t, d)
           \/ \E d \in Dirs : PushRevision(d)
           \/ Crash
    PROVE  Typed' /\ Locked'
<1>1. ASSUME NEW t \in Tasks, NEW d \in Dirs, Request(t, d) PROVE Typed' /\ Locked'
  <2>1. /\ Moves(t) /\ DOMAIN task'[t] = DOMAIN Idle /\ task'[t].pc = "look"
        /\ task'[t].dir = d /\ task'[t].rev = rows[d] /\ task'[t].left = {}
        /\ task'[t].victim = Idle.victim
    BY <1>1 DEF Request, Typed, Moves, Idle
  <2>2. Shaped(task'[t]) /\ task'[t].pc \notin Building
    BY <2>1 DEF Shaped, Steps, Building, Typed
  <2>3. UNCHANGED <<rows, disk, lock>> /\ count' = [count EXCEPT !.requests = @ + 1]
    BY <1>1 DEF Request
  <2>4. count' \in [requests : Nat, pushes : Nat, crashes : Nat]
    BY <2>3 DEF Typed
  <2> QED
    BY <2>1, <2>2, <2>3, <2>4, TypedMoves, LockedMoves DEF Typed, disk
<1>2. ASSUME NEW t \in Tasks, NEW d \in Dirs, DeleteRevision(t, d) PROVE Typed' /\ Locked'
  <2>1. /\ Moves(t) /\ DOMAIN task'[t] = DOMAIN Idle /\ task'[t].pc = "delete"
        /\ task'[t].dir = d /\ task'[t].rev = 0 /\ task'[t].left = {}
        /\ task'[t].victim = Idle.victim
    BY <1>2 DEF DeleteRevision, Typed, Moves, Idle
  <2>2. Shaped(task'[t]) /\ task'[t].pc \notin Building
    BY <2>1 DEF Shaped, Steps, Building, Typed
  <2>3. /\ UNCHANGED <<disk, lock>> /\ count' = [count EXCEPT !.requests = @ + 1]
        /\ rows' = [rows EXCEPT ![d] = 0]
    BY <1>2 DEF DeleteRevision
  <2>4. count' \in [requests : Nat, pushes : Nat, crashes : Nat] /\ rows' \in [Dirs -> Nat]
    BY <2>3 DEF Typed
  <2> QED
    BY <2>1, <2>2, <2>3, <2>4, TypedMoves, LockedMoves DEF Typed, disk
<1>3. ASSUME NEW d \in Dirs, PushRevision(d) PROVE Typed' /\ Locked'
  BY <1>3 DEF PushRevision, Typed, Locked, disk
<1>4. CASE Crash
  <2>1. /\ task' = [t \in Tasks |-> Idle] /\ lock' = [d \in Dirs |-> nobody]
        /\ UNCHANGED <<rows, disk>>
    BY <1>4 DEF Crash
  <2>2. count' \in [requests : Nat, pushes : Nat, crashes : Nat]
    BY <1>4 DEF Crash, Typed
  <2>3. \A t \in Tasks : task'[t] = Idle
    BY <2>1
  <2>4. \A t \in Tasks : Shaped(task'[t])
    BY <2>3, IdleShaped
  <2>5. Typed'
    BY <2>1, <2>2, <2>4 DEF Typed, disk
  <2>6. Locked'
    BY <2>3 DEF Locked, Idle, Building
  <2> QED
    BY <2>5, <2>6
<1> QED
  BY <1>1, <1>2, <1>3, <1>4

LEMMA TypedStep == Typed /\ Locked /\ [Next]_vars => Typed' /\ Locked'
<1>1. Typed /\ Locked /\ UNCHANGED vars => Typed' /\ Locked'
  BY DEF vars, disk, history, Typed, Locked
<1> QED
  BY <1>1, EnsureTyped, EndTyped, EvictTyped, AroundTyped DEF Next

-----------------------------------------------------------------------------
(* One directory.                                                           *)

\* What directory d has stays.
SameDir(d) ==
    rows'[d] = rows[d] /\ parts'[d] = parts[d] /\ (d \in marked' <=> d \in marked)

LEMMA OthersFit ==
    ASSUME NEW d \in Dirs, SameDir(d), NEW u \in Tasks, task'[u] = task[u], Fits(u, d)
    PROVE  Fits(u, d)'
BY DEF SameDir, Fits, Current, Unmarked, Fetched, Served, Listed, RemovesDir, Complete

\* A task that is elsewhere relies on nothing.
LEMMA AwayFits ==
    ASSUME NEW d \in Dirs, NEW t \in Tasks, task'[t].dir # d, task'[t].victim # d
    PROVE  Fits(t, d)'
BY DEF Fits, Current, Unmarked, Fetched, Served, Listed, RemovesDir

LEMMA SoloMoves ==
    ASSUME NEW d \in Dirs, Solo(d), NEW t \in Tasks, Moves(t),
           Uses(t, d)' => Uses(t, d), RemovesDir(t, d)' => RemovesDir(t, d)
    PROVE  Solo(d)'
<1>1. \A u \in Tasks : /\ Uses(u, d)' => Uses(u, d)
                       /\ RemovesDir(u, d)' => RemovesDir(u, d)
  BY DEF Moves, Uses, RemovesDir
<1> QED
  BY <1>1 DEF Solo

LEMMA WholeMoves ==
    ASSUME NEW d \in Dirs, SameDir(d), Whole(d), NEW t \in Tasks, Moves(t),
           RemovesDir(t, d) => RemovesDir(t, d)' \/ d \notin marked
    PROVE  Whole(d)'
<1> SUFFICES ASSUME d \in marked PROVE BeingRemoved(d)' \/ (rows[d] # 0 /\ Complete(d, rows[d]))
  BY DEF Whole, SameDir, Complete
<1>1. BeingRemoved(d) => BeingRemoved(d)'
  <2> SUFFICES ASSUME NEW u \in Tasks, RemovesDir(u, d) PROVE BeingRemoved(d)'
    BY DEF BeingRemoved, RemovesDir, Deleting
  <2>1. RemovesDir(u, d)'
    BY DEF Moves, RemovesDir
  <2> QED
    BY <2>1 DEF BeingRemoved, RemovesDir, Deleting
<1> QED
  BY <1>1 DEF Whole

\* What is left to show when task t moves and d stays.
LEMMA SoundMoves ==
    ASSUME NEW d \in Dirs, SameDir(d), Sound(d), NEW t \in Tasks, Moves(t),
           Uses(t, d)' => Uses(t, d), RemovesDir(t, d)' => RemovesDir(t, d),
           RemovesDir(t, d) => RemovesDir(t, d)' \/ d \notin marked,
           Fits(t, d)'
    PROVE  Sound(d)'
<1>1. Solo(d)' /\ Whole(d)'
  BY SoloMoves, WholeMoves DEF Sound
<1>2. ASSUME NEW u \in Tasks PROVE Fits(u, d)'
  BY OthersFit DEF Sound, Moves
<1> QED
  BY <1>1, <1>2 DEF Sound

\* Task t is in ensure, and in no removal of another directory.
Ensuring(r) == r.pc \in Steps \ ({"idle", "evict_dir"} \union Deleting)

LEMMA NoVictim ==
    ASSUME NEW d \in Dirs, NEW r, Shaped(r), r.pc # "evict_dir"
    PROVE  r.victim # d
BY MaterializerAssumption DEF Shaped, Idle, nowhere, MaterializerAssumption

\* ensure goes on: what d has stays, and t finds what it relies on.
LEMMA EnsuringSound ==
    ASSUME Typed, Typed', NEW d \in Dirs, SameDir(d), Sound(d), NEW t \in Tasks, Keeps(t),
           Ensuring(task[t]), Ensuring(task'[t]),
           task[t].dir = d => Unmarked(t, d)' /\ Fetched(t, d)' /\ Served(t, d)'
    PROVE  Sound(d)'
<1>1. task[t].victim # d /\ task'[t].victim # d
  BY NoVictim DEF Ensuring, Typed
<1>2. task[t].pc \notin Deleting /\ task'[t].pc \notin Deleting /\ task'[t].dir = task[t].dir
  BY DEF Ensuring, Keeps
<1>3. ~RemovesDir(t, d) /\ ~RemovesDir(t, d)' /\ (Uses(t, d)' => Uses(t, d)) /\ Moves(t)
  BY <1>1, <1>2 DEF RemovesDir, Uses, Keeps
<1>4. Fits(t, d)'
  <2>1. CASE task[t].dir = d
    <3>1. Current(t, d)' /\ Listed(t, d)'
      BY <1>2, <1>3, <2>1 DEF Current, Listed, Sound, Fits, SameDir, Keeps
    <3> QED
      BY <2>1, <3>1 DEF Fits
  <2>2. CASE task[t].dir # d
    BY <1>1, <1>2, <2>2, AwayFits
  <2> QED
    BY <2>1, <2>2
<1> QED
  BY <1>3, <1>4, SoundMoves

\* Nobody removes the directory that a task is ensuring.
LEMMA NotRemoved ==
    ASSUME Typed, NEW d \in Dirs, Sound(d), NEW t \in Tasks, task[t].dir = d,
           task[t].pc \notin Deleting
    PROVE  ~BeingRemoved(d)
<1>1. task[t].victim # d
  <2>1. Shaped(task[t])
    BY DEF Typed
  <2>2. CASE task[t].pc = "evict_dir"
    BY <2>1, <2>2 DEF Shaped
  <2>3. CASE task[t].pc # "evict_dir"
    BY <2>1, <2>3, NoVictim
  <2> QED
    BY <2>2, <2>3
<1> SUFFICES ASSUME NEW u \in Tasks, RemovesDir(u, d) PROVE FALSE
  BY DEF BeingRemoved, RemovesDir, Deleting
<1>2. u = t
  BY DEF Sound, Solo, Uses
<1> QED
  BY <1>1, <1>2 DEF RemovesDir

\* A marker found is the marker of a complete directory.
LEMMA FoundComplete ==
    ASSUME Typed, NEW d \in Dirs, Sound(d), NEW t \in Tasks, task[t].dir = d,
           task[t].pc \notin Deleting, d \in marked
    PROVE  Complete(d, task[t].rev)
BY NotRemoved DEF Sound, Whole, Fits, Current

LEMMA LookSound ==
    ASSUME Typed, Typed', NEW t \in Tasks, NEW d \in Dirs, Sound(d),
           Look(t) \/ Lock(t) \/ Relook(t)
    PROVE  Sound(d)'
<1>1. SameDir(d) /\ UNCHANGED <<marked, parts>>
  BY DEF Look, Lock, Relook, disk, SameDir
<1>2. /\ Keeps(t) /\ Ensuring(task[t])
      /\ \/ task[t].dir \in marked /\ task'[t].pc = "touch"
         \/ task'[t].pc \in {"lock", "relook"}
         \/ task[t].dir \notin marked /\ task'[t].pc \in {"wipe", "create"}
  <2>1. CASE Look(t)
    BY <2>1, GotoKeeps DEF Look, At, Ensuring, Steps, Deleting
  <2>2. CASE Lock(t)
    BY <2>2, GotoKeeps DEF Lock, At, Ensuring, Steps, Deleting
  <2>3. CASE Relook(t)
    <3>1. /\ Keeps(t)
          /\ task'[t].pc = IF Finished(task[t].dir) THEN "touch"
                           ELSE IF task[t].dir \in made THEN "wipe" ELSE "create"
      BY <2>3 DEF Relook, Typed, Shaped, Keeps, Moves, Idle
    <3> QED
      BY <2>3, <3>1 DEF Relook, Finished, At, Ensuring, Steps, Deleting
  <2> QED
    BY <2>1, <2>2, <2>3
<1>3. Ensuring(task'[t])
  BY <1>2 DEF Ensuring, Steps, Deleting
<1>4. ASSUME task[t].dir = d PROVE Unmarked(t, d)' /\ Fetched(t, d)' /\ Served(t, d)'
  <2>1. d \in marked => Complete(d, task[t].rev)
    BY <1>2, <1>4, FoundComplete DEF Ensuring
  <2>2. task'[t].dir = d /\ task'[t].rev = task[t].rev
    BY <1>2, <1>4 DEF Keeps
  <2> QED
    BY <1>1, <1>2, <1>4, <2>1, <2>2 DEF Unmarked, Fetched, Served, Building, Found, Complete
<1> QED
  BY <1>1, <1>2, <1>3, <1>4, EnsuringSound

\* Steps that leave the disk as it is, or only create the directory.
LEMMA GoOnSound ==
    ASSUME Typed, Typed', NEW t \in Tasks, NEW d \in Dirs, Sound(d),
           Create(t) \/ ReadManifest(t) \/ Scan(t)
    PROVE  Sound(d)'
<1>1. SameDir(d) /\ UNCHANGED <<marked, parts>>
  BY DEF Create, ReadManifest, Scan, disk, SameDir
<1>2. /\ Keeps(t)
      /\ \/ task[t].pc = "create" /\ task'[t].pc = "manifest"
         \/ task[t].pc = "manifest" /\ task'[t].pc = "fetch" /\ task'[t].left = Parts
         \/ task[t].pc = "scan" /\ task'[t].pc = "evict"
  <2>1. CASE Create(t)
    BY <2>1, GotoKeeps DEF Create, At
  <2>2. CASE ReadManifest(t)
    <3>1. Keeps(t) /\ task'[t].pc = "fetch" /\ task'[t].left = Parts
      BY <2>2, ManifestKeeps
    <3> QED
      BY <2>2, <3>1 DEF ReadManifest, At
  <2>3. CASE Scan(t)
    <3>1. Keeps(t) /\ task'[t].pc = "evict"
      BY <2>3, Shapes DEF Scan, Keeps, Moves, Idle
    <3> QED
      BY <2>3, <3>1 DEF Scan, At
  <2> QED
    BY <2>1, <2>2, <2>3
<1>3. Ensuring(task[t]) /\ Ensuring(task'[t])
  BY <1>2 DEF Ensuring, Steps, Deleting
<1>4. ASSUME task[t].dir = d PROVE Unmarked(t, d)' /\ Fetched(t, d)' /\ Served(t, d)'
  <2>1. task'[t].dir = d /\ task'[t].rev = task[t].rev
    BY <1>2, <1>4 DEF Keeps
  <2>2. Unmarked(t, d) /\ Served(t, d)
    BY DEF Sound, Fits
  <2> QED
    BY <1>1, <1>2, <1>4, <2>1, <2>2 DEF Unmarked, Fetched, Served, Building, Found, Complete
<1> QED
  BY <1>1, <1>2, <1>3, <1>4, EnsuringSound

LEMMA TouchSound ==
    ASSUME Typed, Typed', NEW t \in Tasks, NEW d \in Dirs, Sound(d), Touch(t)
    PROVE  Sound(d)'
<1>1. Keeps(t) /\ task[t].pc = "touch" /\ task'[t].pc = "serve"
  BY GotoKeeps DEF Touch, At
<1>2. Served(t, d)
  BY DEF Sound, Fits
<1>3. SameDir(d) /\ parts' = parts
  BY <1>1, <1>2 DEF Touch, WriteMarker, SameDir, Served, Found
<1>4. Ensuring(task[t]) /\ Ensuring(task'[t])
  BY <1>1 DEF Ensuring, Steps, Deleting
<1>5. ASSUME task[t].dir = d PROVE Unmarked(t, d)' /\ Fetched(t, d)' /\ Served(t, d)'
  BY <1>1, <1>2, <1>3, <1>5 DEF Keeps, SameDir, Unmarked, Fetched, Served, Building, Found, Complete
<1> QED
  BY <1>1, <1>3, <1>4, <1>5, EnsuringSound

\* Another task at work in the same directory is the same task.
LEMMA OneBuilder ==
    ASSUME Locked, NEW t \in Tasks, NEW u \in Tasks, task[t].pc \in Building,
           task[u].pc \in Building, task[u].dir = task[t].dir
    PROVE  u = t
BY DEF Locked

\* A file arrives: its directory is not marked, and nobody else builds there.
LEMMA FetchSound ==
    ASSUME Typed, Locked, Typed', NEW t \in Tasks, NEW d \in Dirs, Sound(d), Fetch(t)
    PROVE  Sound(d)'
<1> DEFINE e == task[t].dir
<1>1. PICK f \in task[t].left :
        /\ parts' = [parts EXCEPT ![e][f] = task[t].rev]
        /\ task' = [task EXCEPT ![t].left = @ \ {f},
                                ![t].pc = IF task[t].left = {f} THEN "mark" ELSE @]
  BY DEF Fetch
<1>2. /\ Keeps(t) /\ task[t].pc = "fetch" /\ task'[t].left = task[t].left \ {f}
      /\ task'[t].pc = IF task[t].left = {f} THEN "mark" ELSE "fetch"
  <2>1. Keeps(t) /\ task[t].pc = "fetch" /\ task'[t].left = task[t].left \ {f}
    BY <1>1 DEF Fetch, At, Typed, Shaped, Keeps, Moves, Idle
  <2>2. task'[t].pc = IF task[t].left = {f} THEN "mark" ELSE task[t].pc
    BY <1>1 DEF Typed, Shaped, Idle
  <2> QED
    BY <2>1, <2>2
<1>3. Ensuring(task[t]) /\ Ensuring(task'[t]) /\ UNCHANGED <<rows, marked>>
  BY <1>2 DEF Ensuring, Steps, Deleting, Fetch
<1>4. CASE e # d
  <2>1. SameDir(d)
    BY <1>1, <1>3, <1>4 DEF SameDir, Typed
  <2> QED
    BY <1>2, <1>3, <1>4, <2>1, EnsuringSound
<1>5. CASE e = d
  <2>1. d \notin marked
    BY <1>2, <1>5 DEF Sound, Fits, Unmarked, Building
  <2>2. task[t].victim # d /\ task'[t].victim # d
    BY <1>3, NoVictim DEF Ensuring, Typed
  <2>3. Solo(d)'
    BY <1>2, <1>3, <2>2, SoloMoves DEF Sound, Keeps, Ensuring, Uses, RemovesDir
  <2>4. Whole(d)'
    BY <1>3, <2>1 DEF Whole
  <2>5. ASSUME NEW u \in Tasks, u # t PROVE Fits(u, d)'
    <3>1. task'[u] = task[u] /\ Fits(u, d)
      BY <1>2, <2>5 DEF Keeps, Moves, Sound
    <3>2. task[u].dir = d => task[u].pc \notin Building
      BY <1>2, <1>5, <2>5, OneBuilder DEF Building
    <3>3. Current(u, d)' /\ Unmarked(u, d)' /\ Listed(u, d)'
      BY <1>3, <2>1, <3>1 DEF Fits, Current, Unmarked, Listed
    <3>4. Fetched(u, d)'
      BY <3>1, <3>2 DEF Fetched, Building
    <3>5. Served(u, d)'
      BY <2>1, <3>1 DEF Fits, Served
    <3> QED
      BY <3>3, <3>4, <3>5 DEF Fits
  <2>6. Fits(t, d)'
    <3>1. task'[t].dir = d /\ task'[t].rev = task[t].rev /\ Fits(t, d)
      BY <1>2, <1>5 DEF Keeps, Sound
    <3>2. Current(t, d)' /\ Unmarked(t, d)' /\ Served(t, d)' /\ Listed(t, d)'
      BY <1>2, <1>3, <1>5, <2>1, <3>1
         DEF Fits, Current, Unmarked, Served, Listed, Found, Deleting
    <3>3. Fetched(t, d)'
      <4>1. \A g \in Parts \ task[t].left : parts[d][g] = task[t].rev
        BY <1>2, <1>5, <3>1 DEF Fits, Fetched
      <4>2. \A g \in Parts \ task'[t].left : parts'[d][g] = task[t].rev
        BY <1>1, <1>2, <1>5, <4>1 DEF Typed
      <4>3. task'[t].pc = "mark" => task'[t].left = {}
        BY <1>2
      <4> QED
        BY <3>1, <4>2, <4>3 DEF Fetched
    <3> QED
      BY <3>2, <3>3 DEF Fits
  <2> QED
    BY <2>3, <2>4, <2>5, <2>6 DEF Sound
<1> QED
  BY <1>4, <1>5

\* The marker is written: every file is there.
LEMMA MarkSound ==
    ASSUME Typed, Locked, Typed', NEW t \in Tasks, NEW d \in Dirs, Sound(d), Mark(t)
    PROVE  Sound(d)'
<1>1. Keeps(t) /\ task[t].pc = "mark" /\ task'[t].pc = "scan"
  BY GotoKeeps DEF Mark, At
<1>2. Ensuring(task[t]) /\ Ensuring(task'[t]) /\ UNCHANGED <<rows, parts>>
  BY <1>1 DEF Ensuring, Steps, Deleting, Mark
<1>3. marked' = marked \union {task[t].dir}
  BY DEF Mark, WriteMarker
<1>4. CASE task[t].dir # d
  <2>1. SameDir(d)
    BY <1>2, <1>3, <1>4 DEF SameDir
  <2> QED
    BY <1>1, <1>2, <1>4, <2>1, EnsuringSound
<1>5. CASE task[t].dir = d
  <2>1. d \in marked' /\ task'[t].dir = d /\ task'[t].rev = task[t].rev
    BY <1>1, <1>3, <1>5 DEF Keeps
  <2>2. task[t].victim # d /\ task'[t].victim # d
    BY <1>2, NoVictim DEF Ensuring, Typed
  <2>3. Solo(d)'
    BY <1>1, <1>2, <2>2, SoloMoves DEF Sound, Keeps, Ensuring, Uses, RemovesDir
  <2>4. task[t].rev = rows[d] /\ rows[d] # 0 /\ Complete(d, rows[d])
    BY <1>1, <1>5 DEF Sound, Fits, Current, Fetched, Complete, Deleting
  <2>5. Whole(d)' /\ Complete(d, rows[d])'
    BY <1>2, <2>4 DEF Whole, Complete
  <2>6. ASSUME NEW u \in Tasks, u # t PROVE Fits(u, d)'
    <3>1. task'[u] = task[u] /\ Fits(u, d)
      BY <1>1, <2>6 DEF Keeps, Moves, Sound
    <3>2. task[u].dir = d => task[u].pc \notin Building
      BY <1>1, <1>5, <2>6, OneBuilder DEF Building
    <3>3. ~RemovesDir(u, d)
      BY <1>5, <2>6 DEF Sound, Solo, Uses
    <3>4. Current(u, d)' /\ Fetched(u, d)' /\ Served(u, d)'
      BY <1>2, <2>1, <3>1 DEF Fits, Current, Fetched, Served, Complete
    <3>5. Unmarked(u, d)' /\ Listed(u, d)'
      BY <3>1, <3>2, <3>3 DEF Unmarked, Listed, RemovesDir
    <3> QED
      BY <3>4, <3>5 DEF Fits
  <2>7. Fits(t, d)'
    BY <1>1, <1>2, <2>1, <2>2, <2>4, <2>5
       DEF Fits, Current, Unmarked, Fetched, Served, Listed, RemovesDir, Building, Deleting
  <2> QED
    BY <2>3, <2>5, <2>6, <2>7 DEF Sound
<1> QED
  BY <1>4, <1>5

\* A request ends, or its client leaves.
LEMMA EndSound ==
    ASSUME Typed, Typed', NEW t \in Tasks, NEW d \in Dirs, Sound(d), d \notin disturbed',
           EnsureFails(t) \/ Serve(t) \/ ClientLeaves(t)
    PROVE  Sound(d)'
<1>1. SameDir(d)
  BY DEF EnsureFails, Serve, ClientLeaves, disk, SameDir
<1>2. CASE UNCHANGED task
  <2>1. Moves(t)
    BY <1>2 DEF Moves, Typed
  <2>2. Fits(t, d)'
    BY <1>1, <1>2, OthersFit DEF Sound
  <2>3. (Uses(t, d)' => Uses(t, d)) /\ (RemovesDir(t, d)' <=> RemovesDir(t, d))
    BY <1>2 DEF Uses, RemovesDir
  <2> QED
    BY <1>1, <2>1, <2>2, <2>3, SoundMoves
<1>3. CASE /\ Release(t) /\ task[t].pc \notin {"evict_dir", "delete_dir"}
           /\ task[t].pc = "delete" => task[t].dir # d
  <2>1. Moves(t) /\ task'[t] = Idle
    BY <1>3, ReleaseMoves
  <2>2. task'[t].dir # d /\ task'[t].victim # d
    BY <2>1, MaterializerAssumption DEF Idle, nowhere, MaterializerAssumption
  <2>3. Fits(t, d)' /\ ~Uses(t, d)' /\ ~RemovesDir(t, d)'
    BY <2>2, AwayFits DEF Uses, RemovesDir
  <2>4. task[t].victim # d
    BY <1>3, NoVictim DEF Typed
  <2>5. ~RemovesDir(t, d)
    BY <1>3, <2>4 DEF RemovesDir, Deleting
  <2> QED
    BY <1>1, <2>1, <2>3, <2>5, SoundMoves
<1>4. EnsureFails(t) \/ Serve(t) => Release(t) /\ task[t].pc \notin {"evict_dir", "delete_dir", "delete"}
  BY DEF EnsureFails, Serve, At
<1>5. ClientLeaves(t) =>
        \/ UNCHANGED task
        \/ /\ Release(t) /\ task[t].pc \notin {"evict_dir", "delete_dir"}
           /\ task[t].pc = "delete" => task[t].dir # d
  BY DEF ClientLeaves, At, Disturb
<1> QED
  BY <1>2, <1>3, <1>4, <1>5

-----------------------------------------------------------------------------
(* Removals.                                                                *)

\* Who removes a directory is alone on it.
LEMMA OthersAway ==
    ASSUME NEW d \in Dirs, Sound(d), NEW t \in Tasks, RemovesDir(t, d), Moves(t)
    PROVE  \A u \in Tasks : u # t =>
             ~Uses(u, d) /\ ~Uses(u, d)' /\ ~RemovesDir(u, d)' /\ Fits(u, d)'
<1> SUFFICES ASSUME NEW u \in Tasks, u # t
             PROVE  ~Uses(u, d) /\ ~Uses(u, d)' /\ ~RemovesDir(u, d)' /\ Fits(u, d)'
  OBVIOUS
<1>1. ~Uses(u, d) /\ task'[u] = task[u]
  BY DEF Sound, Solo, Moves
<1>2. task'[u].dir # d /\ task'[u].victim # d
  BY <1>1 DEF Uses
<1> QED
  BY <1>1, <1>2, AwayFits DEF Uses, RemovesDir

LEMMA UnlinkSound ==
    ASSUME Typed, Locked, Typed', NEW t \in Tasks, NEW d \in Dirs, Sound(d), Unlink(t)
    PROVE  Sound(d)'
<1>1. PICK e \in task[t].left :
        /\ task' = [task EXCEPT ![t].left = @ \ {e}]
        /\ marked' = IF e = "marker" THEN marked \ {Target(t)} ELSE marked
        /\ parts' = IF e = "marker" THEN parts ELSE [parts EXCEPT ![Target(t)][e] = 0]
  BY DEF Unlink
<1>2. Keeps(t) /\ task'[t].pc = task[t].pc /\ task'[t].left = task[t].left \ {e}
  BY <1>1 DEF Typed, Shaped, Keeps, Moves, Idle
<1>3. task[t].pc \in {"wipe", "evict_dir", "delete_dir"} /\ UNCHANGED rows
  BY DEF Unlink, Removes
<1>4. /\ RemovesDir(t, d)' <=> RemovesDir(t, d)
      /\ Uses(t, d)' <=> Uses(t, d)
  BY <1>2 DEF Keeps, RemovesDir, Uses
<1>5. Solo(d)'
  BY <1>2, <1>4, SoloMoves DEF Sound, Keeps
<1>6. CASE Target(t) # d
  <2>1. SameDir(d)
    <3>1. parts'[d] = parts[d]
      BY <1>1, <1>6 DEF Typed
    <3> QED
      BY <1>1, <1>3, <1>6, <3>1 DEF SameDir
  <2>2. ~RemovesDir(t, d)
    <3>1. task[t].pc # "evict_dir" => task[t].victim # d /\ task[t].dir # d
      BY <1>3, <1>6, NoVictim DEF Typed, Target, At
    <3>2. task[t].pc = "evict_dir" => task[t].victim # d
      BY <1>6 DEF Target, At
    <3> QED
      BY <3>1, <3>2 DEF RemovesDir, Deleting
  <2>3. Fits(t, d)'
    <3>1. task[t].pc = "wipe" => task[t].dir # d
      BY <1>6 DEF Target, At
    <3>2. Current(t, d) /\ Served(t, d)
      BY DEF Sound, Fits
    <3>3. Current(t, d)' /\ Served(t, d)'
      BY <1>2, <2>1, <3>2 DEF Keeps, SameDir, Current, Served, Complete
    <3>4. Unmarked(t, d)' /\ Fetched(t, d)' /\ Listed(t, d)'
      BY <1>2, <1>3, <1>4, <2>2, <3>1 DEF Keeps, Unmarked, Fetched, Listed, Building
    <3> QED
      BY <3>3, <3>4 DEF Fits
  <2> QED
    BY <1>2, <1>4, <2>1, <2>2, <2>3, SoundMoves DEF Keeps
<1>7. CASE Target(t) = d /\ task[t].pc = "wipe"
  <2>1. task[t].dir = d
    BY <1>7 DEF Target, At
  <2>2. d \notin marked /\ d \notin marked'
    BY <1>1, <1>7, <2>1 DEF Sound, Fits, Unmarked, Building
  <2>3. ASSUME NEW u \in Tasks PROVE Fits(u, d)'
    <3>1. /\ task'[u].dir = task[u].dir /\ task'[u].rev = task[u].rev
          /\ task'[u].pc = task[u].pc /\ Fits(u, d)
      BY <1>2, <2>3 DEF Keeps, Moves, Sound
    <3>2. task[u].dir = d => task[u].pc \notin {"fetch", "mark"}
      BY <1>7, <2>1, OneBuilder DEF Building
    <3>3. Current(u, d)' /\ Unmarked(u, d)' /\ Listed(u, d)' /\ Served(u, d)'
      BY <1>3, <2>2, <3>1 DEF Fits, Current, Unmarked, Listed, Served
    <3>4. Fetched(u, d)'
      BY <3>1, <3>2 DEF Fetched
    <3> QED
      BY <3>3, <3>4 DEF Fits
  <2> QED
    BY <1>5, <2>2, <2>3 DEF Sound, Whole
<1>8. CASE Target(t) = d /\ task[t].pc \in {"evict_dir", "delete_dir"}
  <2>1. RemovesDir(t, d) /\ RemovesDir(t, d)'
    BY <1>4, <1>8 DEF RemovesDir, Target, At, Deleting
  <2>2. task[t].pc = "evict_dir" => task[t].dir # d
    BY <1>8 DEF Typed, Shaped, Target, At
  <2>3. BeingRemoved(d)'
    BY <2>1 DEF BeingRemoved, RemovesDir, Deleting
  <2>4. Whole(d)'
    BY <2>3 DEF Whole
  <2>5. Listed(t, d)'
    <3>1. Listed(t, d)
      BY DEF Sound, Fits
    <3>2. d \in marked' => d \in marked /\ e # "marker"
      BY <1>1, <1>8
    <3> QED
      BY <1>2, <1>8, <2>1, <3>1, <3>2 DEF Listed
  <2>6. Fits(t, d)'
    BY <1>2, <1>8, <2>2, <2>5
       DEF Keeps, Fits, Current, Unmarked, Fetched, Served, Building, Found, Deleting
  <2>7. ASSUME NEW u \in Tasks PROVE Fits(u, d)'
    BY <1>2, <2>1, <2>6, OthersAway DEF Keeps
  <2> QED
    BY <1>5, <2>4, <2>7 DEF Sound
<1> QED
  BY <1>3, <1>6, <1>7, <1>8

LEMMA RemoveDirectorySound ==
    ASSUME Typed, Typed', NEW t \in Tasks, NEW d \in Dirs, Sound(d), RemoveDirectory(t)
    PROVE  Sound(d)'
<1>1. SameDir(d) /\ UNCHANGED <<rows, marked, parts>> /\ task[t].left = {}
  BY DEF RemoveDirectory, SameDir
<1>2. CASE At(t, "wipe") /\ Goto(t, "create")
  <2>1. Keeps(t) /\ task[t].pc = "wipe" /\ task'[t].pc = "create"
    BY <1>2, GotoKeeps DEF At
  <2>2. Ensuring(task[t]) /\ Ensuring(task'[t])
    BY <2>1 DEF Ensuring, Steps, Deleting
  <2>3. ASSUME task[t].dir = d PROVE Unmarked(t, d)' /\ Fetched(t, d)' /\ Served(t, d)'
    BY <1>1, <2>1, <2>3 DEF Sound, Fits, Unmarked, Fetched, Served, Building, Found
  <2> QED
    BY <1>1, <2>1, <2>2, <2>3, EnsuringSound
<1>3. RemovesDir(t, d) /\ task[t].pc # "delete" => d \notin marked
  BY <1>1 DEF Sound, Fits, Listed
<1>4. CASE At(t, "delete_dir") /\ task' = [task EXCEPT ![t] = Idle]
  <2>1. Moves(t) /\ task'[t] = Idle
    BY <1>4 DEF Typed, Moves
  <2>2. task'[t].dir # d /\ task'[t].victim # d
    BY <2>1, MaterializerAssumption DEF Idle, nowhere, MaterializerAssumption
  <2>3. Fits(t, d)' /\ ~Uses(t, d)' /\ ~RemovesDir(t, d)'
    BY <2>2, AwayFits DEF Uses, RemovesDir
  <2>4. RemovesDir(t, d) => d \notin marked
    BY <1>3, <1>4 DEF At
  <2> QED
    BY <1>1, <2>1, <2>3, <2>4, SoundMoves
<1>5. CASE ~At(t, "wipe") /\ ~At(t, "delete_dir")
  <2>1. PICK n : /\ At(t, "evict_dir")
                 /\ task' = [task EXCEPT ![t].pc = "evict", ![t].victim = nowhere,
                                         ![t].counted = n]
    BY <1>5 DEF RemoveDirectory, At
  <2>2. /\ Moves(t) /\ task'[t].pc = "evict" /\ task[t].pc = "evict_dir"
        /\ task'[t].dir = task[t].dir /\ task'[t].rev = task[t].rev
        /\ task'[t].left = task[t].left /\ task'[t].victim = Idle.victim
    BY <2>1 DEF Typed, Shaped, Moves, Idle, At
  <2>3. task'[t].victim # d
    BY <2>2, MaterializerAssumption DEF Idle, nowhere, MaterializerAssumption
  <2>4. ~RemovesDir(t, d)' /\ (Uses(t, d)' => Uses(t, d))
    BY <2>2, <2>3 DEF RemovesDir, Uses, Deleting
  <2>5. RemovesDir(t, d) => d \notin marked
    BY <1>3, <2>2
  <2>6. Fits(t, d)'
    <3>1. Current(t, d) /\ Served(t, d)
      BY DEF Sound, Fits
    <3>2. Current(t, d)' /\ Served(t, d)'
      BY <1>1, <2>2, <3>1 DEF Current, Served, Complete, Found, Deleting
    <3> QED
      BY <2>2, <2>4, <3>2 DEF Fits, Unmarked, Fetched, Listed, Building
  <2> QED
    BY <1>1, <2>2, <2>4, <2>5, <2>6, SoundMoves
<1> QED
  BY <1>2, <1>4, <1>5 DEF RemoveDirectory, At

LEMMA EvictNextSound ==
    ASSUME Typed, Typed', NEW t \in Tasks, NEW d \in Dirs, Sound(d), d \notin disturbed',
           EvictNext(t)
    PROVE  Sound(d)'
<1> DEFINE victims == task[t].victims
           v == Head(victims)
<1>1. SameDir(d) /\ UNCHANGED <<rows, marked, parts>> /\ task[t].pc = "evict"
  BY DEF EvictNext, disk, SameDir, At
<1>2. ASSUME Keeps(t), task'[t].pc \in {"serve", "evict"} PROVE Sound(d)'
  <2>1. Ensuring(task[t]) /\ Ensuring(task'[t])
    BY <1>1, <1>2 DEF Ensuring, Steps, Deleting
  <2>2. Served(t, d)
    BY DEF Sound, Fits
  <2>3. ASSUME task[t].dir = d PROVE Unmarked(t, d)' /\ Fetched(t, d)' /\ Served(t, d)'
    BY <1>1, <1>2, <2>2, <2>3
       DEF Keeps, Unmarked, Fetched, Served, Building, Found, Complete
  <2> QED
    BY <1>1, <1>2, <2>1, <2>3, EnsuringSound
<1>3. CASE Goto(t, "serve")
  BY <1>2, <1>3, GotoKeeps
<1>4. CASE task' = [task EXCEPT ![t].victims = Tail(victims)]
  <2>1. Keeps(t) /\ task'[t].pc = task[t].pc
    BY <1>4 DEF Typed, Shaped, Keeps, Moves, Idle
  <2> QED
    BY <1>1, <1>2, <2>1
<1>5. CASE /\ v # task[t].dir
           /\ task' = [task EXCEPT ![t].pc = "evict_dir", ![t].left = Entries(v),
                                   ![t].victims = Tail(victims), ![t].victim = Head(victims)]
           /\ Disturb(v, InUse(t, v))
  <2>1. /\ Moves(t) /\ task'[t].pc = "evict_dir"
        /\ task'[t].dir = task[t].dir /\ task'[t].rev = task[t].rev
        /\ task'[t].left = Entries(v) /\ task'[t].victim = Head(victims)
    BY <1>5, Shapes DEF Moves, Idle
  <2>2. task'[t].victim = v
    BY <2>1
  <2> HIDE DEF v
  <2>3. task[t].victim # d
    BY <1>1, NoVictim DEF Typed
  <2>4. Served(t, d) /\ Current(t, d) /\ Solo(d)
    BY DEF Sound, Fits
  <2>5. Current(t, d)' /\ Served(t, d)'
    BY <1>1, <2>1, <2>4 DEF Current, Served, Complete, Found, Deleting
  <2>6. Unmarked(t, d)' /\ Fetched(t, d)'
    BY <2>1 DEF Unmarked, Fetched, Building
  <2>7. CASE v # d
    <3>1. ~RemovesDir(t, d)' /\ ~RemovesDir(t, d) /\ (Uses(t, d)' => Uses(t, d))
      BY <1>1, <2>1, <2>2, <2>3, <2>7 DEF RemovesDir, Uses, Deleting
    <3>2. Fits(t, d)'
      BY <2>5, <2>6, <3>1 DEF Fits, Listed
    <3> QED
      BY <1>1, <2>1, <3>1, <3>2, SoundMoves
  <2>8. CASE v = d
    <3>1. \A u \in Tasks : u # t => ~Uses(u, d)
      BY <1>5, <2>8 DEF Disturb, InUse, Uses
    <3>2. \A u \in Tasks : u # t => ~Uses(u, d)' /\ ~RemovesDir(u, d)'
      BY <2>1, <3>1 DEF Moves, Uses, RemovesDir
    <3>3. Solo(d)' /\ RemovesDir(t, d)'
      BY <2>2, <2>8, <3>2 DEF Solo, RemovesDir
    <3>4. BeingRemoved(d)'
      BY <3>3 DEF BeingRemoved, RemovesDir, Deleting
    <3>5. Listed(t, d)'
      BY <1>1, <2>1, <2>8 DEF Listed, Entries
    <3>6. ASSUME NEW u \in Tasks PROVE Fits(u, d)'
      <4>1. CASE u = t
        BY <2>5, <2>6, <3>5, <4>1 DEF Fits
      <4>2. CASE u # t
        BY <3>2, <4>2, AwayFits DEF Uses
      <4> QED
        BY <4>1, <4>2
    <3> QED
      BY <3>3, <3>4, <3>6 DEF Sound, Whole
  <2> QED
    BY <2>7, <2>8
<1> QED
  BY <1>3, <1>4, <1>5 DEF EvictNext

-----------------------------------------------------------------------------
(* Around the cache.                                                        *)

LEMMA RequestSound ==
    ASSUME Typed, Typed', NEW t \in Tasks, NEW e \in Dirs, NEW d \in Dirs, Sound(d),
           d \notin disturbed', Request(t, e)
    PROVE  Sound(d)'
<1>1. /\ SameDir(d) /\ UNCHANGED <<rows, marked, parts>> /\ rows[e] # 0
      /\ task' = [task EXCEPT ![t] = [Idle EXCEPT !.pc = "look", !.dir = e, !.rev = rows[e]]]
      /\ At(t, "idle") /\ Disturb(e, BeingRemoved(e))
  BY DEF Request, disk, SameDir
<1>2. /\ Moves(t) /\ task'[t].pc = "look" /\ task'[t].dir = e /\ task'[t].rev = rows[e]
      /\ task'[t].victim = Idle.victim
  BY <1>1, Shapes DEF Moves, Idle
<1>3. task'[t].victim # d /\ task[t].victim # d /\ task[t].dir # d
  <2>1. Shaped(task[t]) /\ task[t].pc = "idle" /\ task'[t].victim = nowhere
    BY <1>1, <1>2 DEF Typed, At, Idle
  <2>2. task[t].dir = nowhere /\ task[t].victim # d
    BY <2>1, NoVictim DEF Shaped
  <2> QED
    BY <2>1, <2>2, MaterializerAssumption DEF nowhere, MaterializerAssumption
<1>4. ~RemovesDir(t, d) /\ ~RemovesDir(t, d)'
  BY <1>2, <1>3 DEF RemovesDir, Deleting
<1>5. Fits(t, d)'
  BY <1>1, <1>2, <1>4
     DEF Fits, Current, Unmarked, Fetched, Served, Listed, Building, Found
<1>6. CASE e # d
  BY <1>1, <1>2, <1>3, <1>4, <1>5, <1>6, SoundMoves DEF Uses
<1>7. CASE e = d
  <2>1. ~BeingRemoved(d)
    BY <1>1, <1>7 DEF Disturb
  <2>2. \A u \in Tasks : ~RemovesDir(u, d)
    BY <2>1 DEF BeingRemoved, RemovesDir, Deleting
  <2>3. \A u \in Tasks : ~RemovesDir(u, d)'
    BY <1>2, <1>4, <2>2 DEF Moves, RemovesDir
  <2>4. Solo(d)'
    BY <2>3 DEF Solo
  <2>5. Whole(d)'
    BY <1>1, <1>2, <1>4, WholeMoves DEF Sound
  <2>6. ASSUME NEW u \in Tasks PROVE Fits(u, d)'
    BY <1>1, <1>2, <1>5, OthersFit DEF Sound, Moves
  <2> QED
    BY <2>4, <2>5, <2>6 DEF Sound
<1> QED
  BY <1>6, <1>7

LEMMA DeleteRevisionSound ==
    ASSUME Typed, Typed', NEW t \in Tasks, NEW e \in Dirs, NEW d \in Dirs, Sound(d),
           d \notin disturbed', DeleteRevision(t, e)
    PROVE  Sound(d)'
<1>1. /\ UNCHANGED <<marked, parts>> /\ rows' = [rows EXCEPT ![e] = 0]
      /\ task' = [task EXCEPT ![t] = [Idle EXCEPT !.pc = "delete", !.dir = e]]
      /\ At(t, "idle") /\ Disturb(e, InUse(t, e))
  BY DEF DeleteRevision, disk
<1>2. /\ Moves(t) /\ task'[t].pc = "delete" /\ task'[t].dir = e
      /\ task'[t].victim = Idle.victim
  BY <1>1, Shapes DEF Moves, Idle
<1>3. task'[t].victim # d /\ task[t].victim # d /\ task[t].dir # d
  <2>1. Shaped(task[t]) /\ task[t].pc = "idle" /\ task'[t].victim = nowhere
    BY <1>1, <1>2 DEF Typed, At, Idle
  <2>2. task[t].dir = nowhere /\ task[t].victim # d
    BY <2>1, NoVictim DEF Shaped
  <2> QED
    BY <2>1, <2>2, MaterializerAssumption DEF nowhere, MaterializerAssumption
<1>4. Fits(t, d)'
  BY <1>2, <1>3
     DEF Fits, Current, Unmarked, Fetched, Served, Listed, RemovesDir, Building, Found, Deleting
<1>5. CASE e # d
  <2>1. SameDir(d)
    BY <1>1, <1>5 DEF SameDir, Typed
  <2>2. ~RemovesDir(t, d) /\ ~RemovesDir(t, d)' /\ ~Uses(t, d)'
    BY <1>2, <1>3, <1>5 DEF RemovesDir, Uses
  <2> QED
    BY <1>2, <1>4, <2>1, <2>2, SoundMoves
<1>6. CASE e = d
  <2>1. \A u \in Tasks : u # t => ~Uses(u, d)
    BY <1>1, <1>6 DEF Disturb, InUse, Uses
  <2>2. \A u \in Tasks : u # t => ~Uses(u, d)' /\ ~RemovesDir(u, d)'
    BY <1>2, <2>1 DEF Moves, Uses, RemovesDir
  <2>3. Solo(d)' /\ RemovesDir(t, d)'
    BY <1>2, <1>6, <2>2 DEF Solo, RemovesDir, Deleting
  <2>4. BeingRemoved(d)'
    BY <2>3 DEF BeingRemoved, RemovesDir, Deleting
  <2>5. ASSUME NEW u \in Tasks PROVE Fits(u, d)'
    <3>1. CASE u = t
      BY <1>4, <3>1
    <3>2. CASE u # t
      BY <2>2, <3>2, AwayFits DEF Uses
    <3> QED
      BY <3>1, <3>2
  <2> QED
    BY <2>3, <2>4, <2>5 DEF Sound, Whole
<1> QED
  BY <1>5, <1>6

LEMMA DeleteCacheDirSound ==
    ASSUME Typed, Typed', NEW t \in Tasks, NEW d \in Dirs, Sound(d), DeleteCacheDir(t)
    PROVE  Sound(d)'
<1>1. /\ SameDir(d) /\ UNCHANGED <<marked, parts>> /\ task[t].pc = "delete"
      /\ task' = [task EXCEPT ![t].pc = "delete_dir", ![t].left = Entries(task[t].dir)]
  BY DEF DeleteCacheDir, disk, SameDir, At
<1>2. Keeps(t) /\ task'[t].pc = "delete_dir" /\ task'[t].left = Entries(task[t].dir)
  BY <1>1, Shapes DEF Keeps, Moves, Idle
<1>3. (Uses(t, d)' <=> Uses(t, d)) /\ (RemovesDir(t, d)' <=> RemovesDir(t, d))
  BY <1>1, <1>2 DEF Keeps, Uses, RemovesDir, Deleting
<1>4. task[t].victim # d
  BY <1>1, NoVictim DEF Typed
<1>5. Listed(t, d)'
  BY <1>1, <1>2, <1>4 DEF Keeps, Listed, RemovesDir, Entries
<1>6. Fits(t, d)'
  BY <1>2, <1>5 DEF Fits, Current, Unmarked, Fetched, Served, Building, Found, Deleting
<1> QED
  BY <1>1, <1>2, <1>3, <1>6, SoundMoves DEF Keeps

LEMMA PushRevisionSound ==
    ASSUME Typed, Typed', NEW e \in Dirs, NEW d \in Dirs, Sound(d), d \notin disturbed',
           PushRevision(e)
    PROVE  Sound(d)'
<1>1. /\ UNCHANGED <<task, marked, parts>> /\ rows[e] = 0 /\ Disturb(e, BeingRemoved(e))
      /\ rows' = [rows EXCEPT ![e] = count.pushes + 2]
  BY DEF PushRevision, disk
<1>2. Solo(d)'
  BY <1>1 DEF Sound, Solo, Uses, RemovesDir
<1>3. CASE e # d
  <2>1. SameDir(d)
    BY <1>1, <1>3 DEF SameDir, Typed
  <2>2. \A u \in Tasks : Fits(u, d)'
    BY <1>1, <2>1, OthersFit DEF Sound
  <2>3. Whole(d)'
    BY <1>1, <2>1 DEF Sound, Whole, SameDir, Complete, BeingRemoved
  <2> QED
    BY <1>2, <2>2, <2>3 DEF Sound
<1>4. CASE e = d
  <2>1. ~BeingRemoved(d)
    BY <1>1, <1>4 DEF Disturb
  <2>2. d \notin marked
    BY <1>1, <1>4, <2>1 DEF Sound, Whole
  <2>3. Whole(d)'
    BY <1>1, <2>2 DEF Whole
  <2>4. ASSUME NEW u \in Tasks PROVE Fits(u, d)'
    <3>1. Fits(u, d)
      BY DEF Sound
    <3>2. Current(u, d)'
      BY <1>1, <1>4, <3>1 DEF Fits, Current
    <3>3. Unmarked(u, d)' /\ Fetched(u, d)' /\ Served(u, d)' /\ Listed(u, d)'
      BY <1>1, <3>1 DEF Fits, Unmarked, Fetched, Served, Listed, Complete, RemovesDir
    <3> QED
      BY <3>2, <3>3 DEF Fits
  <2> QED
    BY <1>2, <2>3, <2>4 DEF Sound
<1> QED
  BY <1>3, <1>4

LEMMA CrashSound ==
    ASSUME Typed, NEW d \in Dirs, Sound(d), d \notin disturbed', Crash
    PROVE  Sound(d)'
<1>1. UNCHANGED <<rows, marked, parts>> /\ task' = [t \in Tasks |-> Idle] /\ ~BeingRemoved(d)
  BY DEF Crash, disk
<1>2. ASSUME NEW u \in Tasks PROVE task'[u].dir # d /\ task'[u].victim # d
  BY <1>1, MaterializerAssumption DEF Idle, nowhere, MaterializerAssumption
<1>3. Solo(d)'
  BY <1>2 DEF Solo, Uses
<1>4. Whole(d)'
  BY <1>1 DEF Sound, Whole, Complete
<1>5. \A u \in Tasks : Fits(u, d)'
  BY <1>2, AwayFits
<1> QED
  BY <1>3, <1>4, <1>5 DEF Sound

-----------------------------------------------------------------------------

\* What was disturbed stays so.
LEMMA DisturbedStays == [Next]_vars => disturbed \subseteq disturbed'
<1> SUFFICES ASSUME [Next]_vars PROVE disturbed \subseteq disturbed'
  OBVIOUS
<1>1. ASSUME NEW d, NEW met, Disturb(d, met) PROVE disturbed \subseteq disturbed'
  BY <1>1 DEF Disturb
<1>2. ASSUME NEW t \in Tasks,
             \/ Look(t) \/ Touch(t) \/ Lock(t) \/ Relook(t) \/ Create(t) \/ ReadManifest(t)
             \/ Fetch(t) \/ Mark(t) \/ EnsureFails(t) \/ Serve(t) \/ Unlink(t)
             \/ RemoveDirectory(t) \/ Scan(t) \/ DeleteCacheDir(t)
      PROVE  disturbed' = disturbed
  BY <1>2 DEF Look, Touch, Lock, Relook, Create, ReadManifest, Fetch, Mark, EnsureFails, Serve,
              Unlink, RemoveDirectory, Scan, DeleteCacheDir, history
<1>3. ASSUME NEW t \in Tasks, ClientLeaves(t) \/ EvictNext(t) PROVE disturbed \subseteq disturbed'
  BY <1>1, <1>3 DEF ClientLeaves, EvictNext
<1>4. ASSUME NEW d \in Dirs,
             PushRevision(d) \/ \E t \in Tasks : Request(t, d) \/ DeleteRevision(t, d)
      PROVE  disturbed \subseteq disturbed'
  BY <1>1, <1>4 DEF PushRevision, Request, DeleteRevision
<1>5. CASE Crash
  BY <1>5 DEF Crash
<1>6. CASE UNCHANGED vars
  BY <1>6 DEF vars, history
<1> QED
  BY <1>2, <1>3, <1>4, <1>5, <1>6 DEF Next

LEMMA SoundStep ==
    ASSUME Typed, Locked, Typed', [Next]_vars, NEW d \in Dirs, Sound(d), d \notin disturbed'
    PROVE  Sound(d)'
<1>1. ASSUME NEW t \in Tasks,
             \/ Look(t) \/ Touch(t) \/ Lock(t) \/ Relook(t) \/ Create(t) \/ ReadManifest(t)
             \/ Fetch(t) \/ Mark(t) \/ EnsureFails(t) \/ Serve(t) \/ ClientLeaves(t)
             \/ Scan(t)
      PROVE  Sound(d)'
  BY <1>1, LookSound, GoOnSound, TouchSound, FetchSound, MarkSound, EndSound
<1>2. ASSUME NEW t \in Tasks,
             Unlink(t) \/ RemoveDirectory(t) \/ EvictNext(t) \/ DeleteCacheDir(t)
      PROVE  Sound(d)'
  BY <1>2, UnlinkSound, RemoveDirectorySound, EvictNextSound, DeleteCacheDirSound
<1>3. ASSUME NEW e \in Dirs,
             PushRevision(e) \/ \E t \in Tasks : Request(t, e) \/ DeleteRevision(t, e)
      PROVE  Sound(d)'
  BY <1>3, PushRevisionSound, RequestSound, DeleteRevisionSound
<1>4. CASE UNCHANGED vars
  BY <1>4 DEF vars, disk, Sound, Solo, Whole, Fits, Current, Unmarked, Fetched, Served, Listed,
              Uses, RemovesDir, BeingRemoved, Complete
<1> QED
  BY <1>1, <1>2, <1>3, <1>4, CrashSound DEF Next

LEMMA DiskInvAlways == Spec => []DiskInv
<1>1. Init => DiskInv
  <2> SUFFICES ASSUME Init, NEW d \in Dirs PROVE Sound(d)
    BY InitTyped DEF DiskInv
  <2>1. \A t \in Tasks : task[t].dir # d /\ task[t].victim # d
    BY MaterializerAssumption DEF Init, Idle, nowhere, MaterializerAssumption
  <2> QED
    BY <2>1 DEF Init, Sound, Solo, Whole, Fits, Current, Unmarked, Fetched, Served, Listed,
                Uses, RemovesDir
<1>2. DiskInv /\ [Next]_vars => DiskInv'
  <2> SUFFICES ASSUME DiskInv, [Next]_vars PROVE DiskInv'
    OBVIOUS
  <2>1. Typed' /\ Locked'
    BY TypedStep DEF DiskInv
  <2>2. ASSUME NEW d \in Dirs \ disturbed' PROVE Sound(d)'
    BY <2>1, DisturbedStays, SoundStep DEF DiskInv
  <2> QED
    BY <2>1, <2>2 DEF DiskInv
<1> QED
  BY <1>1, <1>2, PTL DEF Spec

-----------------------------------------------------------------------------

\* The marker's "presence short-circuits re-materialization": a directory that
\* has one has every file of the revision with its number, whatever crashed or
\* failed while it was built (materialize.rs: "Marker last").
THEOREM MarkersTellTruth == Spec => []MarkedComplete
<1>1. DiskInv => MarkedComplete
  BY DEF DiskInv, Typed, Sound, Whole, MarkedComplete
<1> QED
  BY <1>1, DiskInvAlways, PTL

\* What a request is answered from is the revision it asked for.
THEOREM RequestsGetTheirRevision == Spec => ServesRevision
<1>1. DiskInv /\ [Next]_vars =>
        [\A t \in Tasks : Serve(t) /\ task[t].dir \notin disturbed =>
           task[t].dir \in marked /\ Complete(task[t].dir, task[t].rev)]_vars
  <2> SUFFICES ASSUME DiskInv, NEW t \in Tasks, Serve(t), task[t].dir \notin disturbed
               PROVE  task[t].dir \in marked /\ Complete(task[t].dir, task[t].rev)
    OBVIOUS
  <2>1. task[t].pc = "serve" /\ task[t].dir \in Dirs
    BY DEF DiskInv, Typed, Shaped, Serve, At
  <2> QED
    BY <2>1 DEF DiskInv, Sound, Fits, Served, Found
<1> QED
  BY <1>1, DiskInvAlways, PTL DEF Spec, ServesRevision

\* No request takes the marker off a directory that another one has completed
\* (materialize.rs: the second look, under the lock).
THEOREM DownloadsAreKept == Spec => NeverUndone
<1>1. DiskInv /\ [Next]_vars =>
        [\A d \in Dirs \ disturbed : d \in marked /\ d \notin marked' => BeingRemoved(d)]_vars
  <2> SUFFICES ASSUME DiskInv, Next, NEW d \in Dirs \ disturbed, d \in marked, d \notin marked'
               PROVE  BeingRemoved(d)
    OBVIOUS
  <2>1. PICK t \in Tasks : Unlink(t)
    <3>1. ASSUME NEW t \in Tasks,
                 \/ Look(t) \/ Lock(t) \/ Relook(t) \/ Create(t) \/ ReadManifest(t)
                 \/ Fetch(t) \/ EnsureFails(t) \/ Serve(t) \/ ClientLeaves(t)
                 \/ RemoveDirectory(t) \/ Scan(t) \/ EvictNext(t) \/ DeleteCacheDir(t)
                 \/ \E e \in Dirs : Request(t, e) \/ DeleteRevision(t, e)
          PROVE  marked' = marked
      BY <3>1 DEF Look, Lock, Relook, Create, ReadManifest, Fetch, EnsureFails, Serve, ClientLeaves,
                  RemoveDirectory, Scan, EvictNext, DeleteCacheDir, Request, DeleteRevision, disk
    <3>2. ASSUME NEW t \in Tasks, Touch(t) \/ Mark(t) PROVE marked \subseteq marked'
      BY <3>2 DEF Touch, Mark, WriteMarker
    <3>3. Crash \/ (\E e \in Dirs : PushRevision(e)) => marked' = marked
      BY DEF Crash, PushRevision, disk
    <3> QED
      BY <3>1, <3>2, <3>3 DEF Next
  <2>2. d = Target(t) /\ task[t].pc \in {"wipe", "evict_dir", "delete_dir"}
    BY <2>1 DEF Unlink, Removes
  <2>3. task[t].pc # "wipe"
    BY <2>2 DEF DiskInv, Sound, Fits, Unmarked, Building, Target, At
  <2> QED
    BY <2>2, <2>3 DEF BeingRemoved, Target, At
<1> QED
  BY <1>1, DiskInvAlways, PTL DEF Spec, NeverUndone

-----------------------------------------------------------------------------
(* The directories' types and their budget.  Whoever is evicting has counted *)
(* every file that is kept, and every directory kept is still on its list,   *)
(* is the one it removes or is its own; whoever has written a marker has     *)
(* still to scan (Budgeted).                                                 *)

Places ==
    /\ made \subseteq Dirs /\ marked \subseteq made /\ IsFiniteSet(made)
    /\ FilesOf(Dirs \ made) = {}
    /\ disturbed \subseteq Dirs /\ lapsed \in BOOLEAN

Numbers ==
    /\ rows \in [Dirs -> 0 .. MaxPushes + 1]
    /\ parts \in [Dirs -> [Parts -> 0 .. MaxPushes + 1]]
    /\ \A t \in Tasks : task[t].rev \in 0 .. MaxPushes + 1
    /\ count.pushes \in 0 .. MaxPushes

Counts ==
    \A t \in Tasks :
        /\ task[t].victims \in Seq(Dirs)
        /\ task[t].counted \subseteq Dirs \X Parts /\ IsFiniteSet(task[t].counted)

Kept == marked \ disturbed

Evicts(t) ==
    /\ task[t].pc \in {"evict", "evict_dir"}
    /\ FilesOf(Kept) \subseteq task[t].counted
    /\ \A d \in Kept :
         \/ d \in {task[t].dir, task[t].victim}
         \/ \E i \in DOMAIN task[t].victims : task[t].victims[i] = d

Fit == Cardinality(FilesOf(Kept)) <= Budget \/ \E d \in Dirs : Kept = {d}

Budgeted == lapsed \/ Fit \/ \E t \in Tasks : At(t, "scan") \/ Evicts(t)

BudgetInv == DiskInv /\ Places /\ Numbers /\ MarkersOrdered /\ Counts /\ Budgeted

-----------------------------------------------------------------------------

\* What a task keeps of itself when it neither starts nor counts.
LEMMA GoesOn ==
    ASSUME Typed, NEW t \in Tasks,
           \/ Look(t) \/ Touch(t) \/ Lock(t) \/ Relook(t) \/ Create(t) \/ ReadManifest(t)
           \/ Fetch(t) \/ Mark(t) \/ EnsureFails(t) \/ Serve(t) \/ ClientLeaves(t)
           \/ Unlink(t) \/ EvictNext(t) \/ DeleteCacheDir(t)
    PROVE  /\ Moves(t)
           /\ task'[t].rev \in {task[t].rev, 0}
           /\ task'[t].counted \in {task[t].counted, {}}
           /\ \/ task'[t].victims \in {task[t].victims, <<>>}
              \/ task[t].victims # <<>> /\ task'[t].victims = Tail(task[t].victims)
<1> DEFINE Stays == /\ task'[t].rev = task[t].rev /\ task'[t].counted = task[t].counted
                    /\ task'[t].victims = task[t].victims
<1>1. ASSUME Release(t) PROVE Moves(t) /\ task'[t].rev = 0 /\ task'[t].counted = {} /\ task'[t].victims = <<>>
  BY <1>1, ReleaseMoves DEF Idle
<1>2. ASSUME NEW s, Goto(t, s)
      PROVE  Moves(t) /\ Stays
  BY <1>2 DEF Goto, Typed, Shaped, Moves, Idle
<1>3. ASSUME Relook(t) \/ ReadManifest(t) \/ DeleteCacheDir(t)
      PROVE  Moves(t) /\ Stays
  BY <1>3 DEF Relook, ReadManifest, DeleteCacheDir, Typed, Shaped, Moves, Idle
<1>4. ASSUME Fetch(t) \/ Unlink(t)
      PROVE  Moves(t) /\ Stays
  <2>1. CASE Fetch(t)
    <3>1. PICK f \in task[t].left :
            task' = [task EXCEPT ![t].left = @ \ {f},
                                 ![t].pc = IF task[t].left = {f} THEN "mark" ELSE @]
      BY <2>1 DEF Fetch
    <3> QED
      BY <3>1 DEF Typed, Shaped, Moves, Idle
  <2>2. CASE Unlink(t)
    <3>1. PICK e \in task[t].left : task' = [task EXCEPT ![t].left = @ \ {e}]
      BY <2>2 DEF Unlink
    <3> QED
      BY <3>1 DEF Typed, Shaped, Moves, Idle
  <2> QED
    BY <1>4, <2>1, <2>2
<1>5. CASE EvictNext(t)
  <2>1. CASE Goto(t, "serve")
    BY <1>2, <2>1
  <2> DEFINE victims == task[t].victims
  <2>2. CASE task' = [task EXCEPT ![t].victims = Tail(victims)] /\ victims # <<>>
    <3>1. Moves(t) /\ task'[t].rev = task[t].rev /\ task'[t].counted = task[t].counted
          /\ task'[t].victims = Tail(victims)
      BY <2>2 DEF Typed, Shaped, Moves, Idle
    <3> QED
      BY <2>2, <3>1
  <2>3. CASE /\ task' = [task EXCEPT ![t].pc = "evict_dir", ![t].left = Entries(Head(victims)),
                                     ![t].victims = Tail(victims), ![t].victim = Head(victims)]
             /\ victims # <<>>
    <3>1. Moves(t) /\ task'[t].rev = task[t].rev /\ task'[t].counted = task[t].counted
          /\ task'[t].victims = Tail(victims)
      BY <2>3 DEF Typed, Shaped, Moves, Idle
    <3> QED
      BY <2>3, <3>1
  <2> QED
    BY <1>5, <2>1, <2>2, <2>3 DEF EvictNext
<1>6. CASE ClientLeaves(t)
  BY <1>1, <1>6 DEF ClientLeaves, Typed, Moves
<1>7. CASE Look(t) \/ Touch(t) \/ Lock(t) \/ Create(t) \/ Mark(t)
  BY <1>2, <1>7 DEF Look, Touch, Lock, Create, Mark
<1>8. CASE EnsureFails(t) \/ Serve(t)
  BY <1>1, <1>8 DEF EnsureFails, Serve
<1> QED
  BY <1>3, <1>4, <1>5, <1>6, <1>7, <1>8

LEMMA StartMoves ==
    ASSUME Typed, NEW t \in Tasks, NEW d \in Dirs, Request(t, d) \/ DeleteRevision(t, d)
    PROVE  /\ Moves(t)
           /\ task'[t].rev \in {rows[d], 0} /\ task'[t].counted = {} /\ task'[t].victims = <<>>
           /\ ~At(t, "scan") /\ ~Evicts(t)
<1>1. CASE Request(t, d)
  <2>1. Moves(t) /\ task'[t].rev = rows[d] /\ task'[t].counted = {} /\ task'[t].victims = <<>>
    BY <1>1 DEF Request, Typed, Moves, Idle
  <2> QED
    BY <1>1, <2>1 DEF Request, At, Evicts
<1>2. CASE DeleteRevision(t, d)
  <2>1. Moves(t) /\ task'[t].rev = 0 /\ task'[t].counted = {} /\ task'[t].victims = <<>>
    BY <1>2 DEF DeleteRevision, Typed, Moves, Idle
  <2> QED
    BY <1>2, <2>1 DEF DeleteRevision, At, Evicts
<1> QED
  BY <1>1, <1>2

LEMMA ScanCounts ==
    ASSUME Typed, NEW t \in Tasks, Scan(t)
    PROVE  /\ Moves(t) /\ task'[t].pc = "evict" /\ task'[t].rev = task[t].rev
           /\ task'[t].counted = FilesOf(marked)
           /\ task'[t].victims \in OldestFirst(marked)
           /\ \A d \in marked : \E i \in DOMAIN task'[t].victims : task'[t].victims[i] = d
<1>1. PICK victims \in OldestFirst(marked) :
        task' = [task EXCEPT ![t].pc = "evict", ![t].victims = victims,
                             ![t].counted = FilesOf(marked)]
  BY DEF Scan, Counted
<1>2. \A d \in marked : \E i \in DOMAIN victims : victims[i] = d
  BY DEF OldestFirst
<1>3. task'[t].victims = victims
  BY <1>1 DEF Typed, Shaped, Idle
<1>4. /\ Moves(t) /\ task'[t].pc = "evict" /\ task'[t].rev = task[t].rev
      /\ task'[t].counted = FilesOf(marked)
  BY <1>1 DEF Typed, Shaped, Moves, Idle
<1> QED
  BY <1>2, <1>3, <1>4

LEMMA RemovalCounts ==
    ASSUME Typed, NEW t \in Tasks, RemoveDirectory(t)
    PROVE  /\ Moves(t) /\ task'[t].rev \in {task[t].rev, 0}
           /\ task'[t].victims \in {task[t].victims, <<>>}
           /\ \/ task'[t].counted \in {task[t].counted, {}}
              \/ task'[t].counted = {u \in task[t].counted : u[1] # Target(t)}
<1> QED
  BY DEF RemoveDirectory, Goto, Typed, Shaped, Moves, Idle, At, Target
-----------------------------------------------------------------------------

LEMMA DirOf ==
    ASSUME Typed, NEW t \in Tasks, ~At(t, "idle")
    PROVE  task[t].dir \in Dirs
BY DEF Typed, Shaped, At

\* What has just been written is the newest, and the others stay in order.
LEMMA MarkerOrdered ==
    ASSUME Typed, MarkersOrdered, NEW d \in Dirs, WriteMarker(d)
    PROVE  MarkersOrdered'
<1>1. CASE d \in made
  <2>1. /\ marked' = marked \union {d} /\ marked \subseteq Dirs
        /\ older' = [e \in Dirs |-> IF e = d THEN Dirs \ {d} ELSE older[e] \ {d}]
    BY <1>1 DEF WriteMarker, Typed
  <2>2. older' \in [Dirs -> SUBSET Dirs]
    BY <2>1 DEF MarkersOrdered
  <2>3. \A b, c \in Dirs : b \in older'[c] => c \notin older'[b]
    BY <2>1 DEF MarkersOrdered
  <2>4. \A b, c, e \in Dirs : b \in older'[c] /\ c \in older'[e] => b \in older'[e]
    BY <2>1 DEF MarkersOrdered
  <2>5. \A b, c \in marked' : b = c \/ b \in older'[c] \/ c \in older'[b]
    BY <2>1 DEF MarkersOrdered
  <2> QED
    BY <2>2, <2>3, <2>4, <2>5 DEF MarkersOrdered
<1>2. CASE d \notin made
  BY <1>2 DEF WriteMarker, MarkersOrdered
<1> QED
  BY <1>1, <1>2

LEMMA MarkersStep ==
    ASSUME Typed, MarkersOrdered, [Next]_vars
    PROVE  MarkersOrdered'
<1>1. ASSUME NEW t \in Tasks, Touch(t) \/ Mark(t) PROVE MarkersOrdered'
  <2>1. task[t].dir \in Dirs /\ WriteMarker(task[t].dir)
    BY <1>1, DirOf DEF Touch, Mark, At
  <2> QED
    BY <2>1, MarkerOrdered
<1>2. ASSUME older' = older, marked' \subseteq marked PROVE MarkersOrdered'
  BY <1>2 DEF MarkersOrdered
<1>3. ASSUME NEW t \in Tasks,
             \/ Look(t) \/ Lock(t) \/ Relook(t) \/ Create(t) \/ ReadManifest(t)
             \/ Fetch(t) \/ EnsureFails(t) \/ Serve(t) \/ ClientLeaves(t)
             \/ Unlink(t) \/ RemoveDirectory(t) \/ Scan(t) \/ EvictNext(t) \/ DeleteCacheDir(t)
             \/ \E d \in Dirs : Request(t, d) \/ DeleteRevision(t, d)
      PROVE  older' = older /\ marked' \subseteq marked
  BY <1>3 DEF Look, Lock, Relook, Create, ReadManifest, Fetch, EnsureFails, Serve, ClientLeaves,
              Unlink, RemoveDirectory, Scan, EvictNext, DeleteCacheDir, Request, DeleteRevision, disk
<1>4. CASE Crash \/ (\E d \in Dirs : PushRevision(d)) \/ UNCHANGED vars
  BY <1>2, <1>4 DEF Crash, PushRevision, vars, disk
<1> QED
  BY <1>1, <1>2, <1>3, <1>4 DEF Next

\* Files are in directories that exist, markers too.
LEMMA PlacesStep ==
    ASSUME Typed, Places, Counts, [Next]_vars
    PROVE  Places'
<1>1. ASSUME NEW d \in Dirs, NEW met, Disturb(d, met) PROVE disturbed' \subseteq Dirs
  BY <1>1 DEF Disturb, Places
<1>2. ASSUME made' \subseteq Dirs, marked' \subseteq made', IsFiniteSet(made'),
             \A d \in Dirs \ made', f \in Parts : parts'[d][f] = 0,
             disturbed' \subseteq Dirs, lapsed' \in BOOLEAN
      PROVE  Places'
  <2>1. FilesOf(Dirs \ made)' = {}
    BY <1>2 DEF FilesOf
  <2> QED
    BY <1>2, <2>1 DEF Places
<1>3. \A d \in Dirs \ made, f \in Parts : parts[d][f] = 0
  <2> TAKE d \in Dirs \ made, f \in Parts
  <2>1. <<d, f>> \notin FilesOf(Dirs \ made)
    BY DEF Places
  <2> QED
    BY <2>1 DEF FilesOf
<1>4. ASSUME NEW t \in Tasks, Touch(t) \/ Mark(t) PROVE Places'
  <2>1. marked' \subseteq made /\ UNCHANGED <<made, parts, disturbed, lapsed>>
    BY <1>4 DEF Touch, Mark, WriteMarker, history, Places
  <2> QED
    BY <1>2, <1>3, <2>1 DEF Places
<1>5. ASSUME NEW t \in Tasks, Create(t) \/ Fetch(t) PROVE Places'
  <2> DEFINE d == task[t].dir
  <2>1. d \in Dirs /\ made' = made \union {d} /\ UNCHANGED <<marked, disturbed, lapsed>>
    BY <1>5, DirOf DEF Create, Fetch, At, history
  <2>2. IsFiniteSet(made')
    BY <2>1, FS_AddElement DEF Places
  <2>3. \A e \in Dirs \ {d}, f \in Parts : parts'[e][f] = parts[e][f]
    BY <1>5, <2>1 DEF Create, Fetch, Typed
  <2> HIDE DEF d
  <2> QED
    BY <1>2, <1>3, <2>1, <2>2, <2>3 DEF Places
<1>6. ASSUME NEW t \in Tasks, Unlink(t) PROVE Places'
  <2>1. marked' \subseteq marked /\ UNCHANGED <<made, disturbed, lapsed>>
    BY <1>6 DEF Unlink, history
  <2>2. \A d \in Dirs, f \in Parts : parts'[d][f] \in {parts[d][f], 0}
    BY <1>6 DEF Unlink, Typed
  <2> QED
    BY <1>2, <1>3, <2>1, <2>2 DEF Places
<1>7. ASSUME NEW t \in Tasks, RemoveDirectory(t) PROVE Places'
  <2> DEFINE d == Target(t)
  <2>1. /\ UNCHANGED <<marked, parts, disturbed>> /\ lapsed' \in BOOLEAN
        /\ made' = made \/ (made' = made \ {d} /\ Entries(d) = {})
    BY <1>7 DEF RemoveDirectory, Places
  <2>2. Entries(d) = {} => d \notin marked /\ \A f \in Parts : parts[d][f] = 0
    BY DEF Entries
  <2>3. IsFiniteSet(made')
    BY <2>1, FS_RemoveElement DEF Places
  <2> HIDE DEF d
  <2> QED
    BY <1>2, <1>3, <2>1, <2>2, <2>3 DEF Places
<1>8. ASSUME NEW t \in Tasks,
             \/ Look(t) \/ Lock(t) \/ Relook(t) \/ ReadManifest(t) \/ EnsureFails(t) \/ Serve(t)
             \/ ClientLeaves(t) \/ Scan(t) \/ EvictNext(t) \/ DeleteCacheDir(t)
             \/ \E d \in Dirs : Request(t, d) \/ DeleteRevision(t, d)
      PROVE  Places'
  <2>1. UNCHANGED <<made, marked, parts, lapsed>>
    BY <1>8 DEF Look, Lock, Relook, ReadManifest, EnsureFails, Serve, ClientLeaves, Scan, EvictNext,
                DeleteCacheDir, Request, DeleteRevision, disk, history
  <2>2. disturbed' \subseteq Dirs
    <3>1. CASE ClientLeaves(t)
      BY <1>1, <3>1, DirOf DEF ClientLeaves, Places
    <3>2. CASE EvictNext(t)
      <4>1. task[t].victims # <<>> => Head(task[t].victims) \in Dirs
        BY DEF Counts
      <4> QED
        BY <1>1, <3>2, <4>1 DEF EvictNext, Places
    <3>3. CASE \E d \in Dirs : Request(t, d) \/ DeleteRevision(t, d)
      BY <1>1, <3>3 DEF Request, DeleteRevision
    <3>4. CASE \/ Look(t) \/ Lock(t) \/ Relook(t) \/ ReadManifest(t) \/ EnsureFails(t)
               \/ Serve(t) \/ Scan(t) \/ DeleteCacheDir(t)
      BY <3>4 DEF Look, Lock, Relook, ReadManifest, EnsureFails, Serve, Scan, DeleteCacheDir,
                  history, Places
    <3> QED
      BY <1>8, <3>1, <3>2, <3>3, <3>4
  <2> QED
    BY <1>2, <1>3, <2>1, <2>2 DEF Places
<1>9. ASSUME NEW d \in Dirs, PushRevision(d) PROVE Places'
  BY <1>1, <1>2, <1>3, <1>9 DEF PushRevision, Places, disk
<1>10. CASE Crash
  BY <1>2, <1>3, <1>10 DEF Crash, Places, disk
<1>11. CASE UNCHANGED vars
  BY <1>2, <1>3, <1>11 DEF vars, disk, history, Places
<1> QED
  BY <1>4, <1>5, <1>6, <1>7, <1>8, <1>9, <1>10, <1>11 DEF Next
\* Revisions are numbered from 1 up to the pushes that are bounded.
LEMMA NumbersStep ==
    ASSUME Typed, Numbers, [Next]_vars
    PROVE  Numbers'
<1> DEFINE Nums == 0 .. MaxPushes + 1
<1>a. MaxPushes \in Nat /\ 0 \in Nums
  BY MaterializerAssumption DEF MaterializerAssumption
<1>b. ASSUME NEW t \in Tasks, Moves(t), task'[t].rev \in Nums
      PROVE  \A u \in Tasks : task'[u].rev \in Nums
  BY <1>b DEF Moves, Numbers
<1>1. ASSUME NEW t \in Tasks,
             \/ Look(t) \/ Touch(t) \/ Lock(t) \/ Relook(t) \/ Create(t) \/ ReadManifest(t)
             \/ Mark(t) \/ EnsureFails(t) \/ Serve(t) \/ ClientLeaves(t)
             \/ RemoveDirectory(t) \/ Scan(t) \/ EvictNext(t) \/ DeleteCacheDir(t)
      PROVE  Numbers'
  <2>1. UNCHANGED <<rows, parts, count>>
    BY <1>1 DEF Look, Touch, Lock, Relook, Create, ReadManifest, Mark, EnsureFails, Serve,
                ClientLeaves, RemoveDirectory, Scan, EvictNext, DeleteCacheDir, disk, history
  <2>2. Moves(t) /\ task'[t].rev \in {task[t].rev, 0}
    BY <1>1, GoesOn, ScanCounts, RemovalCounts
  <2>3. task'[t].rev \in Nums
    BY <1>a, <2>2 DEF Numbers
  <2> HIDE DEF Nums
  <2>4. \A u \in Tasks : task'[u].rev \in Nums
    BY <1>b, <2>2, <2>3
  <2> QED
    BY <2>1, <2>4 DEF Numbers, Nums
<1>2. ASSUME NEW t \in Tasks, Fetch(t) \/ Unlink(t) PROVE Numbers'
  <2>1. UNCHANGED <<rows, count>>
    BY <1>2 DEF Fetch, Unlink, history
  <2>2. Moves(t) /\ task'[t].rev \in Nums
    BY <1>2, <1>a, GoesOn DEF Numbers
  <2>3. parts' \in [Dirs -> [Parts -> Nums]]
    <3>1. CASE Fetch(t)
      <4>1. task[t].rev \in Nums
        BY DEF Numbers
      <4>2. PICK f \in task[t].left : parts' = [parts EXCEPT ![task[t].dir][f] = task[t].rev]
        BY <3>1 DEF Fetch
      <4> HIDE DEF Nums
      <4> QED
        BY <4>1, <4>2 DEF Numbers, Nums
    <3>2. CASE Unlink(t)
      <4>0. task[t].left \subseteq Parts \union {"marker"}
        BY DEF Typed, Shaped
      <4>1. PICK e \in Parts \union {"marker"} :
              parts' = parts \/ (e \in Parts /\ parts' = [parts EXCEPT ![Target(t)][e] = 0])
        BY <3>2, <4>0 DEF Unlink
      <4>2. parts \in [Dirs -> [Parts -> Nums]] /\ 0 \in Nums
        BY <1>a DEF Numbers
      <4> HIDE DEF Nums
      <4>3. CASE e \in Parts /\ parts' = [parts EXCEPT ![Target(t)][e] = 0]
        BY <4>2, <4>3
      <4> QED
        BY <4>1, <4>2, <4>3
    <3> QED
      BY <1>2, <3>1, <3>2
  <2> HIDE DEF Nums
  <2>4. \A u \in Tasks : task'[u].rev \in Nums
    BY <1>b, <2>2
  <2> QED
    BY <2>1, <2>3, <2>4 DEF Numbers, Nums
<1>3. ASSUME NEW t \in Tasks, NEW d \in Dirs, Request(t, d) \/ DeleteRevision(t, d)
      PROVE  Numbers'
  <2>1. parts' = parts /\ count'.pushes = count.pushes
    BY <1>3 DEF Request, DeleteRevision, disk, Typed
  <2>2. rows' \in [Dirs -> Nums]
    BY <1>3, <1>a DEF Request, DeleteRevision, Numbers
  <2>3. Moves(t) /\ task'[t].rev \in Nums
    BY <1>3, <1>a, StartMoves DEF Numbers
  <2> HIDE DEF Nums
  <2>4. \A u \in Tasks : task'[u].rev \in Nums
    BY <1>b, <2>3
  <2> QED
    BY <2>1, <2>2, <2>4 DEF Numbers, Nums
<1>4. ASSUME NEW d \in Dirs, PushRevision(d) PROVE Numbers'
  <2>1. /\ UNCHANGED <<parts, task>> /\ rows' = [rows EXCEPT ![d] = count.pushes + 2]
        /\ count.pushes < MaxPushes /\ count' = [count EXCEPT !.pushes = @ + 1]
    BY <1>4 DEF PushRevision, disk
  <2>2. count.pushes \in 0 .. MaxPushes /\ count'.pushes = count.pushes + 1
    BY <2>1 DEF Typed, Numbers
  <2>3. count'.pushes \in 0 .. MaxPushes /\ count.pushes + 2 \in Nums
    BY <1>a, <2>1, <2>2
  <2> HIDE DEF Nums
  <2>4. rows' \in [Dirs -> Nums]
    BY <2>1, <2>3 DEF Numbers, Nums
  <2> QED
    BY <2>1, <2>3, <2>4 DEF Numbers, Nums
<1>5. CASE Crash
  <2>1. UNCHANGED <<rows, parts>> /\ count'.pushes = count.pushes
    BY <1>5 DEF Crash, disk, Typed
  <2>2. \A u \in Tasks : task'[u].rev = 0
    BY <1>5 DEF Crash, Idle
  <2> QED
    BY <1>a, <2>1, <2>2 DEF Numbers
<1>6. CASE UNCHANGED vars
  BY <1>6 DEF vars, disk, history, Numbers
<1> QED
  BY <1>1, <1>2, <1>3, <1>4, <1>5, <1>6 DEF Next

\* What an eviction has counted and has to look at.
LEMMA CountsStep ==
    ASSUME Typed, Places, Counts, [Next]_vars
    PROVE  Counts'
<1> DEFINE Tallied(t) == /\ task[t].victims \in Seq(Dirs)
                         /\ task[t].counted \subseteq Dirs \X Parts
                         /\ IsFiniteSet(task[t].counted)
<1>0. \A t \in Tasks : Tallied(t)
  BY DEF Counts
<1>a. <<>> \in Seq(Dirs) /\ IsFiniteSet({})
  BY FS_EmptySet
<1>b. ASSUME NEW t \in Tasks, Moves(t), Tallied(t)' PROVE Counts'
  BY <1>b DEF Moves, Counts
<1>c. ASSUME NEW S, NEW R \in SUBSET S, IsFiniteSet(S) PROVE IsFiniteSet(R)
  BY <1>c, FS_Subset
<1>1. ASSUME NEW t \in Tasks,
             \/ Look(t) \/ Touch(t) \/ Lock(t) \/ Relook(t) \/ Create(t) \/ ReadManifest(t)
             \/ Fetch(t) \/ Mark(t) \/ EnsureFails(t) \/ Serve(t) \/ ClientLeaves(t)
             \/ Unlink(t) \/ EvictNext(t) \/ DeleteCacheDir(t)
      PROVE  Counts'
  <2>1. /\ Moves(t) /\ task'[t].counted \in {task[t].counted, {}}
        /\ \/ task'[t].victims \in {task[t].victims, <<>>}
           \/ task[t].victims # <<>> /\ task'[t].victims = Tail(task[t].victims)
    BY <1>1, GoesOn
  <2>2. task'[t].victims \in Seq(Dirs)
    <3> DEFINE victims == task[t].victims
    <3>1. victims \in Seq(Dirs)
      BY <1>0
    <3> HIDE DEF victims
    <3>2. victims # <<>> => Tail(victims) \in Seq(Dirs)
      BY <3>1
    <3> QED
      BY <1>a, <2>1, <3>1, <3>2 DEF victims
  <2>3. task'[t].counted \subseteq Dirs \X Parts /\ IsFiniteSet(task'[t].counted)
    BY <1>0, <1>a, <2>1
  <2> QED
    BY <1>b, <2>1, <2>2, <2>3
<1>2. ASSUME NEW t \in Tasks, Scan(t) PROVE Counts'
  <2>1. /\ Moves(t) /\ task'[t].counted = FilesOf(marked)
        /\ task'[t].victims \in OldestFirst(marked)
    BY <1>2, ScanCounts
  <2>2. IsFiniteSet(marked) /\ marked \subseteq Dirs
    BY <1>c DEF Places, Typed
  <2>3. Cardinality(marked) \in Nat
    BY <2>2, FS_CardinalityType
  <2>4. task'[t].victims \in Seq(Dirs)
    BY <2>1, <2>2, <2>3 DEF OldestFirst
  <2>5. IsFiniteSet(marked \X Parts)
    BY <2>2, FS_Product, MaterializerAssumption DEF MaterializerAssumption
  <2>6. FilesOf(marked) \subseteq marked \X Parts
    BY DEF FilesOf
  <2>7. IsFiniteSet(FilesOf(marked))
    BY <1>c, <2>5, <2>6
  <2> QED
    BY <1>b, <2>1, <2>2, <2>4, <2>6, <2>7
<1>3. ASSUME NEW t \in Tasks, RemoveDirectory(t) PROVE Counts'
  <2>1. /\ Moves(t) /\ task'[t].victims \in {task[t].victims, <<>>}
        /\ task'[t].counted \subseteq task[t].counted
    BY <1>3, RemovalCounts
  <2>2. IsFiniteSet(task'[t].counted)
    BY <1>0, <1>c, <2>1
  <2> QED
    BY <1>0, <1>a, <1>b, <2>1, <2>2
<1>4. ASSUME NEW t \in Tasks, NEW d \in Dirs, Request(t, d) \/ DeleteRevision(t, d)
      PROVE  Counts'
  <2>1. Moves(t) /\ task'[t].counted = {} /\ task'[t].victims = <<>>
    BY <1>4, StartMoves
  <2> QED
    BY <1>a, <1>b, <2>1
<1>5. CASE Crash
  <2>1. \A u \in Tasks : task'[u].counted = {} /\ task'[u].victims = <<>>
    BY <1>5 DEF Crash, Idle
  <2> QED
    BY <1>a, <2>1 DEF Counts
<1>6. CASE (\E d \in Dirs : PushRevision(d)) \/ UNCHANGED vars
  BY <1>6 DEF PushRevision, vars, Counts
<1> QED
  BY <1>1, <1>2, <1>3, <1>4, <1>5, <1>6 DEF Next
-----------------------------------------------------------------------------

\* Nothing comes to what is kept until a marker is written.
LEMMA KeptShrinks ==
    ASSUME DiskInv, DiskInv', [Next]_vars, \A t \in Tasks : ~Mark(t)
    PROVE  Kept' \subseteq Kept /\ FilesOf(Kept)' \subseteq FilesOf(Kept)
<1>1. disturbed \subseteq disturbed'
  BY DisturbedStays
<1>2. ASSUME NEW d \in Kept'
      PROVE  d \in marked /\ \A f \in Parts : parts'[d][f] # 0 => parts[d][f] # 0
  <2>1. d \in Dirs /\ d \in marked' /\ d \notin disturbed
    BY <1>1, <1>2 DEF Kept, DiskInv, Typed
  <2>2. Sound(d)
    BY <2>1 DEF DiskInv
  <2>3. ASSUME NEW t \in Tasks, Touch(t) PROVE d \in marked /\ parts' = parts
    <3>1. /\ WriteMarker(task[t].dir) /\ parts' = parts /\ task[t].pc = "touch"
      BY <2>3 DEF Touch, At
    <3>2. task[t].dir = d => d \in marked
      BY <2>2, <3>1 DEF Sound, Fits, Served, Found
    <3>3. d \in marked
      BY <2>1, <3>1, <3>2 DEF WriteMarker
    <3> QED
      BY <3>1, <3>3
  <2>4. ASSUME NEW t \in Tasks, Fetch(t)
        PROVE  marked' = marked /\ \A f \in Parts : parts'[d][f] = parts[d][f]
    <3>1. task[t].pc = "fetch" /\ marked' = marked
      BY <2>4 DEF Fetch, At
    <3>2. task[t].dir # d
      BY <2>1, <2>2, <3>1 DEF Sound, Fits, Unmarked, Building
    <3> QED
      BY <2>1, <2>4, <3>1, <3>2 DEF Fetch, DiskInv, Typed
  <2>5. ASSUME NEW t \in Tasks, Unlink(t)
        PROVE  marked' \subseteq marked /\ \A f \in Parts : parts'[d][f] \in {parts[d][f], 0}
    <3>1. PICK e : /\ marked' = IF e = "marker" THEN marked \ {Target(t)} ELSE marked
                   /\ parts' = IF e = "marker" THEN parts ELSE [parts EXCEPT ![Target(t)][e] = 0]
      BY <2>5 DEF Unlink
    <3> QED
      BY <2>1, <3>1 DEF DiskInv, Typed
  <2>6. ASSUME NEW t \in Tasks,
               \/ Look(t) \/ Lock(t) \/ Relook(t) \/ Create(t) \/ ReadManifest(t)
               \/ EnsureFails(t) \/ Serve(t) \/ ClientLeaves(t)
               \/ RemoveDirectory(t) \/ Scan(t) \/ EvictNext(t) \/ DeleteCacheDir(t)
               \/ \E e \in Dirs : Request(t, e) \/ DeleteRevision(t, e)
        PROVE  UNCHANGED <<marked, parts>>
    BY <2>6 DEF Look, Lock, Relook, Create, ReadManifest, EnsureFails, Serve, ClientLeaves,
                RemoveDirectory, Scan, EvictNext, DeleteCacheDir, Request, DeleteRevision, disk
  <2>7. CASE Crash \/ (\E e \in Dirs : PushRevision(e)) \/ UNCHANGED vars
    BY <2>1, <2>7 DEF Crash, PushRevision, vars, disk
  <2>8. CASE \E t \in Tasks : Touch(t) \/ Fetch(t) \/ Unlink(t)
    BY <2>1, <2>3, <2>4, <2>5, <2>8
  <2> QED
    BY <2>1, <2>6, <2>7, <2>8 DEF Next
<1> QED
  BY <1>1, <1>2 DEF Kept, FilesOf
\* The files of finitely many directories can be counted.
LEMMA FilesCounted ==
    ASSUME NEW ds, IsFiniteSet(ds), NEW F \in SUBSET (ds \X Parts)
    PROVE  IsFiniteSet(F) /\ Cardinality(F) \in Nat
<1>1. IsFiniteSet(ds \X Parts)
  BY FS_Product, MaterializerAssumption DEF MaterializerAssumption
<1>2. IsFiniteSet(F)
  BY <1>1, FS_Subset
<1> QED
  BY <1>2, FS_CardinalityType

LEMMA KeptFinite ==
    ASSUME Places
    PROVE  IsFiniteSet(FilesOf(Kept)) /\ Cardinality(FilesOf(Kept)) \in Nat
<1>1. IsFiniteSet(Kept)
  BY FS_Subset DEF Places, Kept
<1>2. FilesOf(Kept) \subseteq Kept \X Parts
  BY DEF FilesOf
<1> QED
  BY <1>1, <1>2, FilesCounted

\* Nothing, or one directory, fits, whatever it takes.
LEMMA OneFits ==
    ASSUME Places, NEW d, Kept \subseteq {d}
    PROVE  Fit
<1>1. CASE Kept = {}
  <2>1. FilesOf(Kept) = {}
    BY <1>1 DEF FilesOf
  <2> QED
    BY <2>1, FS_EmptySet, MaterializerAssumption DEF Fit, MaterializerAssumption
<1>2. CASE Kept # {}
  <2>1. Kept = {d} /\ d \in Dirs
    BY <1>2 DEF Places, Kept
  <2> QED
    BY <2>1 DEF Fit
<1> QED
  BY <1>1, <1>2

LEMMA FewerFilesFit ==
    ASSUME Places, Kept' \subseteq Kept, FilesOf(Kept)' \subseteq FilesOf(Kept), Fit
    PROVE  Fit'
<1> DEFINE S == FilesOf(Kept)
           R == FilesOf(Kept)'
<1>1. CASE Cardinality(S) <= Budget
  <2>1. IsFiniteSet(S) /\ Cardinality(S) \in Nat /\ R \subseteq S
    BY KeptFinite
  <2> HIDE DEF S, R
  <2>2. Cardinality(R) \in Nat /\ Cardinality(R) <= Cardinality(S)
    BY <2>1, FS_Subset, FS_CardinalityType
  <2>3. Cardinality(R) <= Budget
    BY <1>1, <2>1, <2>2, MaterializerAssumption DEF MaterializerAssumption
  <2> QED
    BY <2>3 DEF R, Fit
<1>2. CASE \E d \in Dirs : Kept = {d}
  <2>1. CASE Kept' = Kept
    BY <1>2, <2>1 DEF Fit
  <2>2. CASE Kept' # Kept
    <3>1. Kept' = {}
      BY <1>2, <2>2
    <3>2. R = {}
      BY <3>1 DEF FilesOf
    <3> QED
      BY <3>2, FS_EmptySet, MaterializerAssumption DEF Fit, MaterializerAssumption
  <2> QED
    BY <2>1, <2>2
<1> QED
  BY <1>1, <1>2 DEF Fit

LEMMA EvictsStays ==
    ASSUME Kept' \subseteq Kept, FilesOf(Kept)' \subseteq FilesOf(Kept),
           NEW t \in Tasks, Evicts(t), task'[t].pc \in {"evict", "evict_dir"},
           task'[t].dir = task[t].dir, task'[t].victim = task[t].victim,
           task'[t].victims = task[t].victims, task'[t].counted = task[t].counted
    PROVE  Evicts(t)'
BY DEF Evicts

LEMMA HeadOrTail ==
    ASSUME NEW S, NEW q \in Seq(S), q # <<>>, NEW i \in DOMAIN q
    PROVE  q[i] = Head(q) \/ \E j \in DOMAIN Tail(q) : Tail(q)[j] = q[i]
<1>1. CASE i = 1
  BY <1>1
<1>2. CASE i # 1
  <2>1. i - 1 \in DOMAIN Tail(q) /\ Tail(q)[i - 1] = q[i]
    BY <1>2
  <2> QED
    BY <2>1
<1> QED
  BY <1>1, <1>2
-----------------------------------------------------------------------------

\* A step of the eviction whose task has counted all that is kept.
LEMMA EvictNextBudgeted ==
    ASSUME DiskInv, Places, Counts, NEW t \in Tasks, EvictNext(t), Evicts(t),
           Kept' \subseteq Kept, FilesOf(Kept)' \subseteq FilesOf(Kept)
    PROVE  Fit \/ Evicts(t)'
<1> DEFINE victims == task[t].victims
           d == Head(victims)
<1>1. /\ task[t].pc = "evict" /\ task[t].victim = nowhere /\ nowhere \notin Dirs
      /\ Kept \subseteq Dirs /\ victims \in Seq(Dirs)
  BY MaterializerAssumption
     DEF EvictNext, At, DiskInv, Typed, Shaped, Idle, nowhere, Kept, Counts, MaterializerAssumption
<1>2. \A e \in Kept : e = task[t].dir \/ \E i \in DOMAIN victims : victims[i] = e
  BY <1>1 DEF Evicts
<1>3. CASE Cardinality(task[t].counted) <= Budget
  <2> DEFINE S == task[t].counted
             R == FilesOf(Kept)
  <2>1. IsFiniteSet(S) /\ R \subseteq S
    BY DEF Counts, Evicts
  <2> HIDE DEF S, R
  <2>2. Cardinality(R) \in Nat /\ Cardinality(S) \in Nat /\ Cardinality(R) <= Cardinality(S)
    BY <2>1, FS_Subset, FS_CardinalityType
  <2>3. Cardinality(R) <= Budget
    BY <1>3, <2>2, MaterializerAssumption DEF S, MaterializerAssumption
  <2> QED
    BY <2>3 DEF R, Fit
<1>4. CASE victims = <<>>
  <2>1. Kept \subseteq {task[t].dir}
    BY <1>2, <1>4
  <2> QED
    BY <2>1, OneFits
<1>5. CASE ~(Cardinality(task[t].counted) <= Budget) /\ victims # <<>>
  <2>1. \A e \in Kept :
          e \in {task[t].dir, d} \/ \E i \in DOMAIN Tail(victims) : Tail(victims)[i] = e
    <3> TAKE e \in Kept
    <3> HIDE DEF victims
    <3> QED
      BY <1>1, <1>2, <1>5, HeadOrTail
  <2>2. CASE d = task[t].dir
    <3>1. task' = [task EXCEPT ![t].victims = Tail(victims)]
      BY <1>5, <2>2 DEF EvictNext
    <3>2. /\ task'[t].pc = "evict" /\ task'[t].dir = task[t].dir
          /\ task'[t].victims = Tail(victims) /\ task'[t].counted = task[t].counted
      BY <1>1, <3>1 DEF DiskInv, Typed, Shaped, Idle
    <3> QED
      BY <2>1, <2>2, <3>2 DEF Evicts
  <2>3. CASE d # task[t].dir
    <3>1. task' = [task EXCEPT ![t].pc = "evict_dir", ![t].left = Entries(d),
                               ![t].victims = Tail(victims), ![t].victim = d]
      BY <1>5, <2>3 DEF EvictNext
    <3>2. /\ task'[t].pc = "evict_dir" /\ task'[t].dir = task[t].dir /\ task'[t].victim = d
          /\ task'[t].victims = Tail(victims) /\ task'[t].counted = task[t].counted
      BY <3>1 DEF DiskInv, Typed, Shaped, Idle
    <3> QED
      BY <2>1, <3>2 DEF Evicts
  <2> QED
    BY <2>2, <2>3
<1> QED
  BY <1>3, <1>4, <1>5

LEMMA EvictedBudgeted ==
    ASSUME DiskInv, NEW t \in Tasks, RemoveDirectory(t), Evicts(t),
           Kept' \subseteq Kept, FilesOf(Kept)' \subseteq FilesOf(Kept)
    PROVE  lapsed' \/ Evicts(t)'
<1> DEFINE d == task[t].victim
<1>1. task[t].pc = "evict_dir" /\ Target(t) = d
  BY DEF RemoveDirectory, Removes, Evicts, Target, At
<1> SUFFICES ASSUME ~lapsed' PROVE Evicts(t)'
  OBVIOUS
<1>2. Entries(d) = {}
  BY <1>1 DEF RemoveDirectory, At
<1>3. d \notin marked /\ marked' = marked
  BY <1>2 DEF Entries, RemoveDirectory
<1>4. PICK rest : /\ task' = [task EXCEPT ![t].pc = "evict", ![t].victim = nowhere,
                                           ![t].counted = rest]
                  /\ rest \in {task[t].counted, {u \in task[t].counted : u[1] # d}}
  BY <1>1 DEF RemoveDirectory, At
<1>5. /\ task'[t].pc = "evict" /\ task'[t].dir = task[t].dir
      /\ task'[t].victims = task[t].victims /\ task'[t].counted = rest
  BY <1>4 DEF DiskInv, Typed, Shaped, Idle
<1>6. d \notin Kept /\ d \notin Kept'
  BY <1>3 DEF Kept
<1>7. \A u \in FilesOf(Kept)' : u[1] # d /\ u \in task[t].counted
  BY <1>6 DEF FilesOf, Evicts
<1>8. FilesOf(Kept)' \subseteq rest
  BY <1>4, <1>7
<1> QED
  BY <1>5, <1>6, <1>8 DEF Evicts

LEMMA ScanBudgeted ==
    ASSUME DiskInv, NEW t \in Tasks, Scan(t)
    PROVE  Evicts(t)'
<1>1. /\ task'[t].pc = "evict" /\ task'[t].counted = FilesOf(marked)
      /\ \A d \in marked : \E i \in DOMAIN task'[t].victims : task'[t].victims[i] = d
  BY ScanCounts DEF DiskInv
<1>2. UNCHANGED <<marked, parts, disturbed>>
  BY DEF Scan, disk, history
<1>3. Kept' \subseteq marked /\ FilesOf(Kept)' \subseteq FilesOf(marked)
  BY <1>2 DEF Kept, FilesOf
<1> QED
  BY <1>1, <1>3 DEF Evicts
\* What a task in an eviction can do.
LEMMA EvictionSteps ==
    ASSUME DiskInv, NEW t \in Tasks, task[t].pc \in {"scan", "evict", "evict_dir"},
           \/ Look(t) \/ Touch(t) \/ Lock(t) \/ Relook(t) \/ Create(t) \/ ReadManifest(t)
           \/ Fetch(t) \/ Mark(t) \/ EnsureFails(t) \/ Serve(t) \/ ClientLeaves(t)
           \/ Unlink(t) \/ RemoveDirectory(t) \/ Scan(t) \/ EvictNext(t) \/ DeleteCacheDir(t)
           \/ \E d \in Dirs : Request(t, d) \/ DeleteRevision(t, d)
    PROVE  \/ At(t, "scan") /\ Scan(t)
           \/ ~At(t, "scan") /\ (EvictNext(t) \/ RemoveDirectory(t) \/ Unlink(t))
           \/ task' = task
BY DEF At, Look, Touch, Lock, Relook, Create, ReadManifest, Fetch, Mark, EnsureFails, Serve,
       ClientLeaves, Unlink, RemoveDirectory, Scan, EvictNext, DeleteCacheDir, Request,
       DeleteRevision, Removes

LEMMA EvictionStays ==
    ASSUME DiskInv, Places, Counts, NEW t \in Tasks, At(t, "scan") \/ Evicts(t),
           Kept' \subseteq Kept, FilesOf(Kept)' \subseteq FilesOf(Kept),
           \/ Look(t) \/ Touch(t) \/ Lock(t) \/ Relook(t) \/ Create(t) \/ ReadManifest(t)
           \/ Fetch(t) \/ Mark(t) \/ EnsureFails(t) \/ Serve(t) \/ ClientLeaves(t)
           \/ Unlink(t) \/ RemoveDirectory(t) \/ Scan(t) \/ EvictNext(t) \/ DeleteCacheDir(t)
           \/ \E d \in Dirs : Request(t, d) \/ DeleteRevision(t, d)
    PROVE  lapsed' \/ Fit \/ At(t, "scan")' \/ Evicts(t)'
<1>1. \/ At(t, "scan") /\ Scan(t)
      \/ ~At(t, "scan") /\ (EvictNext(t) \/ RemoveDirectory(t) \/ Unlink(t))
      \/ task' = task
  BY EvictionSteps DEF At, Evicts
<1>2. CASE Scan(t)
  BY <1>2, ScanBudgeted
<1>3. CASE Evicts(t) /\ EvictNext(t)
  BY <1>3, EvictNextBudgeted
<1>4. CASE Evicts(t) /\ RemoveDirectory(t)
  BY <1>4, EvictedBudgeted
<1>5. CASE Evicts(t) /\ Unlink(t)
  <2>1. PICK e : task' = [task EXCEPT ![t].left = @ \ {e}]
    BY <1>5 DEF Unlink
  <2>2. /\ task'[t].pc = task[t].pc /\ task'[t].dir = task[t].dir
        /\ task'[t].victim = task[t].victim /\ task'[t].victims = task[t].victims
        /\ task'[t].counted = task[t].counted
    BY <2>1 DEF DiskInv, Typed, Shaped, Idle
  <2> QED
    BY <1>5, <2>2, EvictsStays DEF Evicts
<1>6. CASE task' = task
  BY <1>6, EvictsStays DEF At, Evicts
<1> QED
  BY <1>1, <1>2, <1>3, <1>4, <1>5, <1>6

LEMMA MoverMoves ==
    ASSUME Typed, NEW t \in Tasks,
           \/ Look(t) \/ Touch(t) \/ Lock(t) \/ Relook(t) \/ Create(t) \/ ReadManifest(t)
           \/ Fetch(t) \/ Mark(t) \/ EnsureFails(t) \/ Serve(t) \/ ClientLeaves(t)
           \/ Unlink(t) \/ RemoveDirectory(t) \/ Scan(t) \/ EvictNext(t) \/ DeleteCacheDir(t)
           \/ \E d \in Dirs : Request(t, d) \/ DeleteRevision(t, d)
    PROVE  Moves(t)
BY GoesOn, ScanCounts, RemovalCounts, StartMoves

LEMMA LapsedStays == [Next]_vars /\ lapsed => lapsed'
<1> SUFFICES ASSUME [Next]_vars, lapsed PROVE lapsed'
  OBVIOUS
<1>1. ASSUME NEW t \in Tasks,
             \/ Look(t) \/ Touch(t) \/ Lock(t) \/ Relook(t) \/ Create(t) \/ ReadManifest(t)
             \/ Fetch(t) \/ Mark(t) \/ EnsureFails(t) \/ Serve(t) \/ ClientLeaves(t)
             \/ Unlink(t) \/ Scan(t) \/ EvictNext(t) \/ DeleteCacheDir(t)
             \/ \E d \in Dirs : Request(t, d) \/ DeleteRevision(t, d)
      PROVE  lapsed' = lapsed
  BY <1>1 DEF Look, Touch, Lock, Relook, Create, ReadManifest, Fetch, Mark, EnsureFails, Serve,
              ClientLeaves, Unlink, Scan, EvictNext, DeleteCacheDir, Request, DeleteRevision, history
<1>2. ASSUME NEW t \in Tasks, RemoveDirectory(t) PROVE lapsed'
  BY <1>2 DEF RemoveDirectory
<1>3. CASE Crash \/ (\E d \in Dirs : PushRevision(d)) \/ UNCHANGED vars
  BY <1>3 DEF Crash, PushRevision, vars, history
<1> QED
  BY <1>1, <1>2, <1>3 DEF Next

LEMMA BudgetedStep ==
    ASSUME BudgetInv, DiskInv', [Next]_vars
    PROVE  Budgeted'
<1> USE DEF BudgetInv
<1>1. ASSUME NEW t \in Tasks, Mark(t) PROVE Budgeted'
  <2>1. task'[t].pc = "scan"
    BY <1>1, GotoKeeps DEF Mark, DiskInv
  <2> QED
    BY <2>1 DEF Budgeted, At
<1> SUFFICES ASSUME \A t \in Tasks : ~Mark(t), ~lapsed' PROVE Budgeted'
  BY <1>1 DEF Budgeted
<1>2. Kept' \subseteq Kept /\ FilesOf(Kept)' \subseteq FilesOf(Kept)
  BY KeptShrinks
<1>3. Fit => Budgeted'
  BY <1>2, FewerFilesFit DEF Budgeted
<1>4. ASSUME NEW u \in Tasks, At(u, "scan") \/ Evicts(u) PROVE Budgeted'
  <2>1. ASSUME NEW t \in Tasks,
               \/ Look(t) \/ Touch(t) \/ Lock(t) \/ Relook(t) \/ Create(t) \/ ReadManifest(t)
               \/ Fetch(t) \/ Mark(t) \/ EnsureFails(t) \/ Serve(t) \/ ClientLeaves(t)
               \/ Unlink(t) \/ RemoveDirectory(t) \/ Scan(t) \/ EvictNext(t) \/ DeleteCacheDir(t)
               \/ \E d \in Dirs : Request(t, d) \/ DeleteRevision(t, d)
        PROVE  Budgeted'
    <3>1. CASE t = u
      <4>1. lapsed' \/ Fit \/ At(u, "scan")' \/ Evicts(u)'
        BY <1>2, <1>4, <2>1, <3>1, EvictionStays
      <4> QED
        BY <1>3, <4>1 DEF Budgeted
    <3>2. CASE t # u
      <4>1. task'[u] = task[u]
        BY <2>1, <3>2, MoverMoves DEF Moves, DiskInv
      <4>2. At(u, "scan")' \/ Evicts(u)'
        BY <1>2, <1>4, <4>1, EvictsStays DEF At, Evicts
      <4> QED
        BY <4>2 DEF Budgeted
    <3> QED
      BY <3>1, <3>2
  <2>2. CASE (\E d \in Dirs : PushRevision(d)) \/ UNCHANGED vars
    <3>1. task' = task
      BY <2>2 DEF PushRevision, vars
    <3>2. At(u, "scan")' \/ Evicts(u)'
      BY <1>2, <1>4, <3>1, EvictsStays DEF At, Evicts
    <3> QED
      BY <3>2 DEF Budgeted
  <2>3. ~Crash
    BY <1>4 DEF Crash, At, Evicts
  <2> QED
    BY <2>1, <2>2, <2>3 DEF Next
<1> QED
  BY <1>3, <1>4, LapsedStays DEF Budgeted

LEMMA BudgetInvAlways == Spec => []BudgetInv
<1>1. Init /\ DiskInv => BudgetInv
  <2> SUFFICES ASSUME Init, DiskInv PROVE BudgetInv
    OBVIOUS
  <2>1. MaxPushes \in Nat /\ Budget \in Nat /\ 1 \in 0 .. MaxPushes + 1
    BY MaterializerAssumption DEF MaterializerAssumption
  <2>2. Places
    BY FS_EmptySet DEF Init, Places, FilesOf
  <2>3. Numbers
    BY <2>1 DEF Init, Numbers, Idle
  <2>4. MarkersOrdered
    BY DEF Init, MarkersOrdered
  <2>5. Counts
    <3>1. <<>> \in Seq(Dirs) /\ IsFiniteSet({})
      BY FS_EmptySet
    <3>2. \A t \in Tasks : task[t].victims = <<>> /\ task[t].counted = {}
      BY DEF Init, Idle
    <3> QED
      BY <3>1, <3>2 DEF Counts
  <2>6. Kept \subseteq {nowhere}
    BY DEF Init, Kept
  <2> QED
    BY <2>2, <2>3, <2>4, <2>5, <2>6, OneFits DEF BudgetInv, Budgeted
<1>2. BudgetInv /\ DiskInv' /\ [Next]_vars => BudgetInv'
  BY BudgetedStep, PlacesStep, NumbersStep, MarkersStep, CountsStep DEF BudgetInv, DiskInv
<1> QED
  BY <1>1, <1>2, DiskInvAlways, PTL DEF Spec

\* The directories are of their type, those with the marker are whole, and
\* between requests they fit the budget or are a single one, whatever was
\* downloaded, removed or evicted at a time, unless an eviction failed or was
\* cut short (materialize.rs: ensure, evict_blocking).
THEOREM DirectoriesAreSound == Spec => []DirectoriesSound
<1>1. BudgetInv => TypeOK
  BY DEF BudgetInv, DiskInv, Typed, Shaped, Places, Numbers, Counts, TypeOK
<1>2. BudgetInv => BudgetHeld
  <2> SUFFICES ASSUME BudgetInv, \A t \in Tasks : At(t, "idle"), ~lapsed
               PROVE  Cardinality(FilesOf(Kept)) <= Budget \/ Cardinality(Kept) = 1
    BY DEF BudgetHeld, Kept
  <2>1. Fit
    BY DEF BudgetInv, Budgeted, At, Evicts
  <2> QED
    BY <2>1, FS_Singleton DEF Fit
<1> QED
  BY <1>1, <1>2, BudgetInvAlways, MarkersTellTruth, PTL DEF DirectoriesSound

-----------------------------------------------------------------------------
(* The books in memory. *)

Entry == [file : Files, cell : Nat, used : Nat]

\* The bytes of some entries are finitely many.
LEMMA BytesFinite ==
    ASSUME BooksAssumption, NEW S \in SUBSET Entry, IsFiniteSet(S)
    PROVE  IsFiniteSet(UNION {BytesIn(e) : e \in S})
  <1> DEFINE T == {BytesIn(e) : e \in S}
             f == [e \in S |-> BytesIn(e)]
  <1>1. f \in Surjection(S, T)
    BY DEF Surjection
  <1> HIDE DEF T, f
  <1>2. IsFiniteSet(T)
    BY <1>1, FS_Surjection
  <1> USE DEF T
  <1>3. \A e \in S : IsFiniteSet(BytesIn(e))
    <2> TAKE e \in S
    <2>1. Bytes[e.file] \in Nat
      BY DEF Entry, BooksAssumption
    <2>2. IsFiniteSet({e})
      BY FS_Singleton
    <2>3. IsFiniteSet(1 .. Bytes[e.file])
      BY <2>1, FS_Interval
    <2> QED
      BY <2>2, <2>3, FS_Product DEF BytesIn
  <1> QED
    BY <1>2, <1>3, FS_UNION

\* Fewer entries have no more bytes, and none have none.
LEMMA BytesGrow ==
    ASSUME BooksAssumption, NEW S \in SUBSET Entry, IsFiniteSet(S), NEW R \in SUBSET S
    PROVE  /\ BytesOf(R) \in Nat /\ BytesOf(S) \in Nat /\ BytesOf(R) <= BytesOf(S)
           /\ R = {} => BytesOf(R) = 0
  <1> DEFINE U == UNION {BytesIn(e) : e \in S}
             V == UNION {BytesIn(e) : e \in R}
  <1>1. IsFiniteSet(U)
    BY BytesFinite
  <1>2. V \subseteq U
    OBVIOUS
  <1>3. IsFiniteSet(V) /\ Cardinality(V) <= Cardinality(U)
    BY <1>1, <1>2, FS_Subset
  <1>4. Cardinality(U) \in Nat /\ Cardinality(V) \in Nat
    BY <1>1, <1>3, FS_CardinalityType
  <1>5. R = {} => V = {}
    OBVIOUS
  <1>6. R = {} => Cardinality(V) = 0
    BY <1>5, FS_EmptySet
  <1> QED
    BY <1>3, <1>4, <1>6 DEF BytesOf

LEMMA LessIsRelated ==
    ASSUME NEW y \in Nat, NEW m \in Nat, y < m
    PROVE  <<y, m>> \in OpToRel(<, Nat)
  BY DEF OpToRel

LEMMA LeastExists ==
    ASSUME NEW S \in SUBSET Nat, S # {}
    PROVE  \E x \in S : \A y \in S : x <= y
  <1>1. \E m \in S : \A y \in S : ~ (<<y, m>> \in OpToRel(<, Nat))
    BY NatLessThanWellFounded, WFMin
  <1>2. PICK m \in S : \A y \in S : ~ (<<y, m>> \in OpToRel(<, Nat))
    BY <1>1
  <1>3. \A y \in S : ~(y < m)
    BY <1>2, LessIsRelated
  <1> QED
    BY <1>3

\* Of some entries, one is the oldest.
LEMMA OldestExists ==
    ASSUME NEW S \in SUBSET Entry, S # {}
    PROVE  \E e \in S : \A d \in S : e.used <= d.used
  <1> DEFINE U == {e.used : e \in S}
  <1>1. U \subseteq Nat /\ U # {}
    BY DEF Entry
  <1> HIDE DEF U
  <1>2. PICK m \in U : \A y \in U : m <= y
    BY <1>1, LeastExists
  <1> USE DEF U
  <1> QED
    BY <1>2

\* What all the tenants keep fits the global budget, or is one entry.
LEMMA AllKeepFits ==
    ASSUME NEW S \in SUBSET Entry
    PROVE  ~OverCap(AllKeep(S))
  <1> DEFINE K == AllKeep(S)
  <1>1. CASE K = {}
    BY <1>1, FS_EmptySet DEF OverCap
  <1>2. CASE K # {}
    <2>1. K \subseteq S
      BY DEF AllKeep
    <2>2. PICK d \in K : \A c \in K : d.used <= c.used
      BY <1>2, <2>1, OldestExists
    <2>3. PICK e \in S : e.used <= d.used /\ ~OverCap(Since(S, e))
      BY <2>2 DEF AllKeep
    <2>4. K \subseteq Since(S, e)
      <3>1. \A c \in K : c \in S /\ c.used \in Nat /\ d.used \in Nat /\ e.used \in Nat
        BY <2>1 DEF Entry
      <3> QED
        BY <2>2, <2>3, <3>1 DEF Since
    <2>5. Since(S, e) \subseteq K
      <3>1. \A c \in S : c.used >= e.used => e.used <= c.used
        BY DEF Entry
      <3> QED
        BY <2>3, <3>1 DEF Since, AllKeep
    <2>6. K = Since(S, e)
      BY <2>4, <2>5
    <2> QED
      BY <2>3, <2>6
  <1> QED
    BY <1>1, <1>2

\* What a tenant keeps fits its cap, or is one entry.
LEMMA TenantKeepsFits ==
    ASSUME NEW S \in SUBSET Entry, NEW x
    PROVE  ~OverTenant(TenantKeeps(S, x), x)
  <1> DEFINE K == TenantKeeps(S, x)
             M == OfTenant(S, x)
  <1>0. M \in SUBSET Entry
    BY DEF OfTenant
  <1>1. CASE K = {}
    BY <1>1, FS_EmptySet DEF OverTenant
  <1>2. CASE K # {}
    <2>1. K \subseteq M
      BY DEF TenantKeeps
    <2>2. PICK d \in K : \A c \in K : d.used <= c.used
      BY <1>0, <1>2, <2>1, OldestExists
    <2>3. PICK e \in M : e.used <= d.used /\ ~OverTenant(Since(M, e), x)
      BY <2>2 DEF TenantKeeps
    <2>4. K \subseteq Since(M, e)
      <3>1. \A c \in K : c \in M /\ c.used \in Nat /\ d.used \in Nat /\ e.used \in Nat
        BY <1>0, <2>1 DEF Entry
      <3> QED
        BY <2>2, <2>3, <3>1 DEF Since
    <2>5. Since(M, e) \subseteq K
      <3>1. \A c \in M : c.used >= e.used => e.used <= c.used
        BY <1>0 DEF Entry
      <3> QED
        BY <2>3, <3>1 DEF Since, TenantKeeps
    <2>6. K = Since(M, e)
      BY <2>4, <2>5
    <2> QED
      BY <2>3, <2>6
  <1> QED
    BY <1>1, <1>2

\* The entry just touched stays.
LEMMA NewestStays ==
    ASSUME NEW S \in SUBSET Entry, NEW n \in S, \A d \in S : d # n => d.used < n.used
    PROVE  /\ n \in AllKeep(S)
           /\ n \in TenantKeeps(S, TenantOf[n.file])
  <1>1. n.used \in Nat /\ n.used <= n.used
    BY DEF Entry
  <1>2. \A d \in S : d.used >= n.used => d = n
    BY DEF Entry
  <1>3. Since(S, n) = {n}
    BY <1>1, <1>2 DEF Since
  <1>4. Cardinality({n}) = 1
    BY FS_Singleton
  <1>5. ~OverCap(Since(S, n))
    BY <1>3, <1>4 DEF OverCap
  <1>6. n \in AllKeep(S)
    BY <1>1, <1>5 DEF AllKeep
  <1> DEFINE x == TenantOf[n.file]
             M == OfTenant(S, x)
  <1>7. n \in M /\ Since(M, n) = {n}
    BY <1>1, <1>2 DEF Since, OfTenant
  <1>8. ~OverTenant(Since(M, n), x)
    BY <1>4, <1>7 DEF OverTenant
  <1>9. n \in TenantKeeps(S, x)
    BY <1>1, <1>7, <1>8 DEF TenantKeeps
  <1> QED
    BY <1>6, <1>9

FitsTenant(S, x) == BytesOf(OfTenant(S, x)) <= Cap[x] \/ Cardinality(OfTenant(S, x)) = 1

\* What a touch leaves of the list: some of its entries, the one just touched
\* among them, within the global budget and the tenant's.
LEMMA TrimmedFits ==
    ASSUME BooksAssumption, NEW S \in SUBSET Entry, IsFiniteSet(S),
           NEW n \in S, \A d \in S : d # n => d.used < n.used
    PROVE  LET x == TenantOf[n.file]
               K == Trimmed(S, x)
           IN  /\ K \subseteq S /\ n \in K
               /\ Cardinality(K) <= MaxFiles \/ Cardinality(K) = 1
               /\ BytesOf(K) <= MaxBytes \/ Cardinality(K) = 1
               /\ x \in DOMAIN Cap => FitsTenant(K, x)
  <1> DEFINE x == TenantOf[n.file]
             R == (S \ OfTenant(S, x)) \union TenantKeeps(S, x)
             K == Trimmed(S, x)
  <1>1. R \subseteq S /\ n \in R
    BY NewestStays DEF TenantKeeps, OfTenant
  <1>2. K = AllKeep(R)
    BY DEF Trimmed
  <1>3. K \subseteq R
    BY <1>2 DEF AllKeep
  <1>4. n \in K
    BY <1>1, <1>2, NewestStays
  <1>5. IsFiniteSet(K) /\ Cardinality(K) \in Nat /\ Cardinality(K) # 0
    <2>1. IsFiniteSet(K)
      BY <1>1, <1>3, FS_Subset
    <2> QED
      BY <1>4, <2>1, FS_CardinalityType, FS_EmptySet
  <1>6. BytesOf(K) \in Nat
    BY <1>1, <1>3, <1>5, BytesGrow
  <1>7. ~OverCap(K)
    BY <1>1, <1>2, AllKeepFits
  <1>8. /\ Cardinality(K) <= MaxFiles \/ Cardinality(K) = 1
        /\ BytesOf(K) <= MaxBytes \/ Cardinality(K) = 1
    BY <1>5, <1>6, <1>7 DEF OverCap, BooksAssumption
  <1>9. ASSUME x \in DOMAIN Cap  PROVE FitsTenant(K, x)
    <2> DEFINE A == TenantKeeps(S, x)
               B == OfTenant(K, x)
    <2>1. A \subseteq S /\ B \subseteq A /\ n \in B
      BY <1>3, <1>4 DEF TenantKeeps, OfTenant
    <2>2. IsFiniteSet(A) /\ Cardinality(A) \in Nat
      BY <2>1, FS_Subset, FS_CardinalityType
    <2>3. IsFiniteSet(B) /\ Cardinality(B) \in Nat /\ Cardinality(B) <= Cardinality(A)
      BY <2>1, <2>2, FS_Subset, FS_CardinalityType
    <2>4. Cardinality(B) # 0
      BY <2>1, <2>3, FS_EmptySet
    <2>5. BytesOf(A) \in Nat /\ BytesOf(B) \in Nat /\ BytesOf(B) <= BytesOf(A)
      BY <2>1, <2>2, BytesGrow
    <2>6. Cardinality(A) <= 1 \/ BytesOf(A) <= Cap[x]
      BY <1>9, <2>2, <2>5, TenantKeepsFits DEF OverTenant, BooksAssumption
    <2> QED
      BY <1>9, <2>2, <2>3, <2>4, <2>5, <2>6 DEF FitsTenant, BooksAssumption
  <1> QED
    BY <1>1, <1>3, <1>4, <1>8, <1>9

\* Fewer entries of a tenant fit if its entries did.
LEMMA FewerFit ==
    ASSUME BooksAssumption, NEW S \in SUBSET Entry, IsFiniteSet(S), NEW R, NEW x \in DOMAIN Cap,
           OfTenant(R, x) \subseteq OfTenant(S, x), FitsTenant(S, x)
    PROVE  FitsTenant(R, x)
  <1> DEFINE A == OfTenant(S, x)
             B == OfTenant(R, x)
  <1>1. A \subseteq S /\ B \subseteq A
    BY DEF OfTenant
  <1>2. IsFiniteSet(A) /\ Cardinality(A) \in Nat
    BY <1>1, FS_Subset, FS_CardinalityType
  <1>3. IsFiniteSet(B) /\ Cardinality(B) \in Nat /\ Cardinality(B) <= Cardinality(A)
    BY <1>1, <1>2, FS_Subset, FS_CardinalityType
  <1>4. BytesOf(A) \in Nat /\ BytesOf(B) \in Nat /\ BytesOf(B) <= BytesOf(A)
        /\ (B = {} => BytesOf(B) = 0)
    BY <1>1, <1>2, BytesGrow
  <1>5. Cardinality(B) = 0 => B = {}
    BY <1>3, FS_EmptySet
  <1> QED
    BY <1>2, <1>3, <1>4, <1>5 DEF FitsTenant, BooksAssumption

-----------------------------------------------------------------------------
(* The steps.                                                               *)

Pcs == {"idle", "mode", "weights", "file", "load", "touch", "publish", "gone"}

LoadType == [pc : Pcs, mode : Modes \union {"none"}, mcell : 0 .. cells, fcell : 0 .. cells]

\* A loader that goes on with the cells it has, or ends; the caches stay.
LEMMA LoaderMoves ==
    ASSUME BooksAssumption, BooksInv, NEW t \in Loaders, NEW s \in Pcs \ {"idle"}, CachesSame,
           \/ Ends(t) /\ ~Doing(t, "touch")
           \/ /\ Goes(t, s) /\ loader[t] # NoLoad
              /\ ~Doing(t, "touch")
              /\ s = "mode" \/ s = "weights" \/ (s = "touch" /\ Doing(t, "file") /\ loader[t].fcell \in ready)
                   \/ (s = "load" /\ InitFile(t)) \/ (s = "gone" /\ Doing(t, "load"))
    PROVE  BooksInv'
  <1> USE DEF BooksInv, BooksSound
  <1>0. /\ modes' = modes /\ assets' = assets /\ files' = files /\ ready' = ready /\ lru' = lru
        /\ clock' = clock /\ cells' = cells /\ overtaken' = overtaken /\ loads' = loads
    BY DEF CachesSame, maps, list
  <1>1. loader \in [Loaders -> LoadType] /\ cells \in Nat /\ NoLoad \in LoadType
    BY DEF BooksTyped, LoadType, Pcs, NoLoad
  <1>2. \A u \in Loaders : u # t => loader'[u] = loader[u]
    BY <1>1 DEF Ends, Goes
  <1>3. \/ loader'[t] = NoLoad
        \/ /\ loader'[t] = [loader[t] EXCEPT !.pc = s]
           /\ loader'[t] \in LoadType
           /\ loader'[t].pc = s /\ loader'[t].mode = loader[t].mode
           /\ loader'[t].mcell = loader[t].mcell /\ loader'[t].fcell = loader[t].fcell
    <2>1. CASE Ends(t)
      BY <1>1, <2>1 DEF Ends
    <2>2. CASE Goes(t, s)
      BY <1>1, <2>2 DEF Goes, LoadType
    <2> QED
      BY <2>1, <2>2
  <1>4. NoLoad.pc = "idle" /\ NoLoad.mcell = 0 /\ NoLoad.fcell = 0 /\ NoLoad.mode = "none"
    BY DEF NoLoad
  <1>5. BooksTyped'
    <2>1. loader' \in [Loaders -> LoadType]
      BY <1>1, <1>3 DEF Ends, Goes
    <2>2. \A u \in Loaders : loader'[u] = NoLoad \/ (loader'[u].mode \in Modes /\ loader'[u].mcell # 0)
      BY <1>2, <1>3, <1>4 DEF BooksTyped, Ends, Goes
    <2> QED
      BY <1>0, <2>1, <2>2 DEF BooksTyped, LoadType, Pcs
  <1>6. ListIsCurrent' /\ BooksFit' /\ CellsDistinct' /\ IsFiniteSet(lru)' /\ ModesHoldCached'
    BY <1>0 DEF ListIsCurrent, BooksFit, CellsDistinct, ModesHoldCached, BytesOf, BytesIn, OfTenant
  <1>7. LoadedIsListed'
    BY <1>0, <1>2 DEF LoadedIsListed, Doing
  <1>8. LoadersOwn'
    BY <1>0, <1>2, <1>3, <1>4 DEF LoadersOwn, FileAt, BooksTyped
  <1>9. \A u \in Loaders : LoaderCurrent(u)'
    <2> TAKE u \in Loaders
    <2>1. CASE u # t
      BY <1>0, <1>2, <2>1 DEF LoadersCurrent, LoaderCurrent, HasCurrent, FileAt, Doing
    <2>2. CASE u = t /\ loader'[t] = NoLoad
      BY <1>4, <2>2 DEF LoaderCurrent, Doing
    <2>3. CASE u = t /\ loader'[t] # NoLoad
      <3>1. loader'[t].pc = s /\ loader'[t].mode = loader[t].mode /\ loader'[t].fcell = loader[t].fcell
        BY <1>3, <2>3
      <3>2. LoaderCurrent(t)
        BY DEF LoadersCurrent
      <3>3. HasCurrent(t)' = HasCurrent(t)
        BY <1>0, <3>1 DEF HasCurrent, FileAt
      <3>4. overtaken \subseteq ready
        BY DEF BooksTyped
      <3>5. Goes(t, s)
        BY <1>1, <2>3 DEF Ends
      <3>6. s = "load" => Doing(t, "file") /\ loader[t].fcell \notin ready
        BY <3>5, <1>1, <2>3 DEF Ends, InitFile
      <3>7. s = "touch" => Doing(t, "file") /\ loader[t].fcell \in ready
        BY <3>5, <1>1, <2>3 DEF Ends
      <3>8. s = "gone" => Doing(t, "load")
        BY <1>1, <2>3 DEF Ends
      <3>9. s \in {"mode", "weights", "load", "touch", "gone"}
        BY <1>1, <2>3 DEF Ends
      <3> QED
        BY <1>0, <2>3, <3>1, <3>2, <3>3, <3>4, <3>6, <3>7, <3>8, <3>9 DEF LoaderCurrent, Doing
    <2> QED
      BY <2>1, <2>2, <2>3
  <1>10. \A u, w \in Loaders :
           Doing(u, "load")' /\ Doing(w, "load")' /\ loader'[u].fcell = loader'[w].fcell => u = w
    <2>1. \A u, w \in Loaders :
            Doing(u, "load") /\ Doing(w, "load") /\ loader[u].fcell = loader[w].fcell => u = w
      BY DEF LoadersCurrent
    <2>2. CASE Doing(t, "load")'
      <3>1. InitFile(t) /\ loader'[t].fcell = loader[t].fcell
        BY <1>1, <1>3, <1>4, <2>2 DEF Doing, Goes, Ends
      <3>2. \A u \in Loaders : Doing(u, "load") => loader[u].fcell # loader[t].fcell
        BY <3>1 DEF InitFile, FileTaken
      <3> QED
        BY <1>2, <2>1, <3>1, <3>2 DEF Doing
    <2>3. CASE ~Doing(t, "load")'
      BY <1>2, <2>1, <2>3 DEF Doing
    <2> QED
      BY <2>2, <2>3
  <1>11. OneLoadPerFile'
    <2> SUFFICES ASSUME NEW u \in Loaders, NEW w \in Loaders, Doing(u, "load")', Doing(w, "load")',
                        FileAt(u)' = FileAt(w)'
                 PROVE  u = w
      BY DEF OneLoadPerFile
    <2>1. HasCurrent(u)' /\ HasCurrent(w)'
      BY <1>9 DEF LoaderCurrent
    <2> QED
      BY <1>10, <2>1 DEF HasCurrent
  <1> QED
    BY <1>5, <1>6, <1>7, <1>8, <1>9, <1>10, <1>11 DEF LoadersCurrent

\* The numbers that are in use.
LEMMA CellNumbers ==
    ASSUME BooksTyped
    PROVE  /\ cells \in Nat /\ cells + 1 \in Nat
           /\ \A m \in Modes : modes[m] \in 0 .. cells /\ modes[m] # cells + 1
           /\ \A f \in Files : files[f] \in 0 .. cells /\ files[f] # cells + 1
           /\ \A u \in Loaders : /\ loader[u].mcell \in 0 .. cells /\ loader[u].mcell # cells + 1
                                 /\ loader[u].fcell \in 0 .. cells /\ loader[u].fcell # cells + 1
           /\ cells + 1 \notin DOMAIN assets /\ cells + 1 \notin ready
           /\ 0 \notin DOMAIN assets /\ 0 \notin ready /\ 0 \notin overtaken
  <1>1. cells \in Nat
    BY DEF BooksTyped
  <1>2. \A c \in 0 .. cells : c # cells + 1
    BY <1>1
  <1>3. \A m \in Modes : modes[m] \in 0 .. cells
    BY DEF BooksTyped
  <1>4. \A f \in Files : files[f] \in 0 .. cells
    BY DEF BooksTyped
  <1>5. \A u \in Loaders : loader[u].mcell \in 0 .. cells /\ loader[u].fcell \in 0 .. cells
    BY DEF BooksTyped
  <1>6. \A c \in 1 .. cells : c # cells + 1 /\ c # 0
    BY <1>1
  <1>7. DOMAIN assets \subseteq 1 .. cells /\ ready \subseteq 1 .. cells /\ overtaken \subseteq ready
    BY DEF BooksTyped
  <1> QED
    BY <1>1, <1>2, <1>3, <1>4, <1>5, <1>6, <1>7

\* A loader's file is a file.
LEMMA FileTyped ==
    ASSUME BooksAssumption, BooksTyped, NEW t \in Loaders, loader[t] # NoLoad
    PROVE  loader[t].mode \in Modes /\ FileAt(t) \in Files /\ loader[t].mcell # 0
  BY DEF BooksTyped, FileAt, BooksAssumption

LEMMA NoLoadIdle ==
    ASSUME BooksTyped, NEW t \in Loaders, ~Doing(t, "idle")
    PROVE  loader[t] # NoLoad
  BY DEF Doing, NoLoad

LEMMA LoadAssetsSound ==
    ASSUME BooksAssumption, BooksInv, NEW t \in Loaders, NEW m \in Modes, LoadAssets(t, m)
    PROVE  BooksInv'
  <1> USE DEF BooksInv, BooksSound
  <1> DEFINE fresh == CellOf(modes[m])
  <1>0. /\ assets' = assets /\ files' = files /\ ready' = ready /\ lru' = lru
        /\ clock' = clock /\ overtaken' = overtaken /\ loads' = loads + 1
    BY DEF LoadAssets, list
  <1>1. /\ cells' \in Nat /\ cells <= cells' /\ fresh \in 1 .. cells'
        /\ modes' = [modes EXCEPT ![m] = fresh] /\ modes \in [Modes -> 0 .. cells]
        /\ fresh = modes[m] \/ fresh = cells + 1
    BY CellNumbers DEF LoadAssets, CellOf, CellsWith, BooksTyped
  <1>2. \A c \in 0 .. cells : c \in 0 .. cells'
    BY <1>1, CellNumbers
  <1>3. /\ \A u \in Loaders : u # t => loader'[u] = loader[u]
        /\ loader'[t] = [pc |-> "mode", mode |-> m, mcell |-> fresh, fcell |-> 0]
        /\ loader' = [loader EXCEPT ![t] = [pc |-> "mode", mode |-> m, mcell |-> fresh, fcell |-> 0]]
        /\ Doing(t, "idle")
    BY DEF LoadAssets, BooksTyped
  <1>4. loader \in [Loaders -> LoadType]
    BY DEF BooksTyped, LoadType, Pcs
  <1>5. BooksTyped'
    <2>1. modes' \in [Modes -> 0 .. cells'] /\ files' \in [Files -> 0 .. cells']
      BY <1>0, <1>1, <1>2 DEF BooksTyped
    <2>2. DOMAIN assets' \subseteq 1 .. cells' /\ ready' \subseteq 1 .. cells'
      BY <1>0, <1>1, CellNumbers DEF BooksTyped
    <2>3. LoadType \subseteq LoadType'
      BY <1>2 DEF LoadType
    <2>4. [pc |-> "mode", mode |-> m, mcell |-> fresh, fcell |-> 0] \in LoadType'
      BY <1>1 DEF LoadType, Pcs
    <2>5. loader' \in [Loaders -> LoadType']
      BY <1>3, <1>4, <2>3, <2>4
    <2>6. \A u \in Loaders : loader'[u] = NoLoad \/ (loader'[u].mode \in Modes /\ loader'[u].mcell # 0)
      BY <1>1, <1>3 DEF BooksTyped
    <2>7. loads' \in Nat
      BY <1>0 DEF BooksTyped
    <2> QED
      BY <1>0, <1>1, <2>1, <2>2, <2>5, <2>6, <2>7 DEF BooksTyped, LoadType, Pcs
  <1>6. ListIsCurrent' /\ BooksFit' /\ IsFiniteSet(lru)'
    BY <1>0 DEF ListIsCurrent, BooksFit, BytesOf, BytesIn, OfTenant
  <1>7. LoadedIsListed'
    BY <1>0, <1>3 DEF LoadedIsListed, Doing
  <1>8. ModesHoldCached'
    <2> SUFFICES ASSUME NEW n \in Modes, modes'[n] \in DOMAIN assets
                 PROVE  assets[modes'[n]] = files[FileOf[n]] \/ assets[modes'[n]] \in overtaken
      BY <1>0 DEF ModesHoldCached
    <2>1. modes'[n] = modes[n]
      BY <1>1, CellNumbers
    <2> QED
      BY <2>1 DEF ModesHoldCached
  <1>9. CellsDistinct'
    BY <1>0, <1>1, CellNumbers DEF CellsDistinct
  <1>10. LoadersOwn'
    <2> SUFFICES ASSUME NEW u \in Loaders
                 PROVE  /\ \A n \in Modes : modes'[n] = loader'[u].mcell /\ modes'[n] # 0 => n = loader'[u].mode
                        /\ \A f \in Files : files'[f] = loader'[u].fcell /\ files'[f] # 0
                                              => f = FileOf[loader'[u].mode]
      BY DEF LoadersOwn, FileAt
    <2>1. CASE u = t
      <3>1. \A n \in Modes : modes'[n] = fresh => n = m
        BY <1>1, CellNumbers DEF CellsDistinct
      <3> QED
        BY <1>3, <2>1, <3>1
    <2>2. CASE u # t
      <3>1. /\ \A n \in Modes : modes[n] = loader[u].mcell /\ modes[n] # 0 => n = loader[u].mode
            /\ \A f \in Files : files[f] = loader[u].fcell /\ files[f] # 0 => f = FileAt(u)
        BY DEF LoadersOwn
      <3>2. \A n \in Modes : modes'[n] = modes[n] \/ modes'[n] = cells + 1
        BY <1>1
      <3> QED
        BY <1>0, <1>3, <2>2, <3>1, <3>2, CellNumbers DEF FileAt
    <2> QED
      BY <2>1, <2>2
  <1>11. LoadersCurrent' /\ OneLoadPerFile'
    <2>1. \A u \in Loaders : LoaderCurrent(u)'
      <3> TAKE u \in Loaders
      <3>1. CASE u = t
        BY <1>3, <3>1 DEF LoaderCurrent, Doing
      <3>2. CASE u # t
        BY <1>0, <1>3, <3>2 DEF LoadersCurrent, LoaderCurrent, HasCurrent, FileAt, Doing
      <3> QED
        BY <3>1, <3>2
    <2>2. \A u \in Loaders : Doing(u, "load")' => u # t /\ Doing(u, "load")
      BY <1>3 DEF Doing
    <2> QED
      BY <1>3, <2>1, <2>2 DEF LoadersCurrent, OneLoadPerFile, FileAt
  <1> QED
    BY <1>5, <1>6, <1>7, <1>8, <1>9, <1>10, <1>11

LEMMA LoadBooksSound ==
    ASSUME BooksAssumption, BooksInv, NEW t \in Loaders, LoadBooks(t)
    PROVE  BooksInv'
  <1> USE DEF BooksInv, BooksSound
  <1> DEFINE g == FileAt(t)
             fresh == CellOf(files[g])
  <1>0. /\ assets' = assets /\ modes' = modes /\ ready' = ready /\ lru' = lru
        /\ clock' = clock /\ overtaken' = overtaken /\ loads' = loads
    BY DEF LoadBooks, list
  <1>g. g \in Files /\ loader[t] # NoLoad /\ Doing(t, "weights")
    BY FileTyped, NoLoadIdle DEF LoadBooks, Doing
  <1>1. /\ cells' \in Nat /\ cells <= cells' /\ fresh \in 0 .. cells' /\ fresh # 0
        /\ files' = [files EXCEPT ![g] = fresh] /\ files \in [Files -> 0 .. cells]
        /\ fresh = files[g] \/ (files[g] = 0 /\ fresh = cells + 1)
    BY <1>g, CellNumbers DEF LoadBooks, CellOf, CellsWith, BooksTyped
  <1>2. \A c \in 0 .. cells : c \in 0 .. cells'
    BY <1>1, CellNumbers
  <1>4. loader \in [Loaders -> LoadType]
    BY DEF BooksTyped, LoadType, Pcs
  <1>3. /\ \A u \in Loaders : u # t => loader'[u] = loader[u]
        /\ loader'[t].pc = "file" /\ loader'[t].mode = loader[t].mode
        /\ loader'[t].mcell = loader[t].mcell /\ loader'[t].fcell = fresh
        /\ loader' \in [Loaders -> LoadType']
    <2>1. LoadType \subseteq LoadType'
      BY <1>2 DEF LoadType
    <2>2. loader' = [loader EXCEPT ![t] = [pc |-> "file", mode |-> loader[t].mode,
                                           mcell |-> loader[t].mcell, fcell |-> fresh]]
      BY <1>4 DEF LoadBooks
    <2>3. loader[t] \in LoadType'
      BY <1>4, <2>1
    <2>4. [pc |-> "file", mode |-> loader[t].mode, mcell |-> loader[t].mcell, fcell |-> fresh] \in LoadType'
      BY <1>1, <2>3 DEF LoadType, Pcs
    <2> QED
      BY <1>4, <2>1, <2>2, <2>4
  <1>5. BooksTyped'
    <2>1. modes' \in [Modes -> 0 .. cells'] /\ files' \in [Files -> 0 .. cells']
      BY <1>0, <1>1, <1>2 DEF BooksTyped
    <2>2. DOMAIN assets' \subseteq 1 .. cells' /\ ready' \subseteq 1 .. cells'
      BY <1>0, <1>1, CellNumbers DEF BooksTyped
    <2>6. \A u \in Loaders : loader'[u] = NoLoad \/ (loader'[u].mode \in Modes /\ loader'[u].mcell # 0)
      BY <1>3, <1>g DEF BooksTyped
    <2> QED
      BY <1>0, <1>1, <1>3, <2>1, <2>2, <2>6 DEF BooksTyped, LoadType, Pcs
  <1>6. ListIsCurrent'
    <2>1. \A e \in lru : e.file \in Files /\ e.cell # 0
      BY CellNumbers DEF BooksTyped
    <2>2. \A e \in lru : files'[e.file] = files[e.file]
      BY <1>1, <2>1 DEF ListIsCurrent
    <2> QED
      BY <1>0, <2>2 DEF ListIsCurrent
  <1>7. LoadedIsListed'
    <2> SUFFICES ASSUME NEW f \in Files, files'[f] \in ready
                 PROVE  \/ \E e \in lru : e.file = f
                        \/ \E u \in Loaders : Doing(u, "touch")' /\ loader'[u].fcell = files'[f]
      BY <1>0 DEF LoadedIsListed
    <2>1. files'[f] = files[f]
      BY <1>1, CellNumbers
    <2> QED
      BY <1>3, <1>g, <2>1 DEF LoadedIsListed, Doing
  <1>8. ModesHoldCached'
    <2> SUFFICES ASSUME NEW n \in Modes, modes[n] \in DOMAIN assets
                 PROVE  assets[modes[n]] = files'[FileOf[n]] \/ assets[modes[n]] \in overtaken
      BY <1>0 DEF ModesHoldCached
    <2>1. assets[modes[n]] \in ready /\ FileOf[n] \in Files
      BY DEF BooksTyped, BooksAssumption
    <2>2. assets[modes[n]] = files[FileOf[n]] \/ assets[modes[n]] \in overtaken
      BY DEF ModesHoldCached
    <2> QED
      BY <1>1, <2>1, <2>2, CellNumbers
  <1>9. CellsDistinct'
    BY <1>0, <1>1, CellNumbers DEF CellsDistinct
  <1>10. LoadersOwn'
    <2> SUFFICES ASSUME NEW u \in Loaders
                 PROVE  /\ \A n \in Modes : modes'[n] = loader'[u].mcell /\ modes'[n] # 0 => n = loader'[u].mode
                        /\ \A f \in Files : files'[f] = loader'[u].fcell /\ files'[f] # 0
                                              => f = FileOf[loader'[u].mode]
      BY DEF LoadersOwn, FileAt
    <2>0. /\ \A n \in Modes : modes[n] = loader[u].mcell /\ modes[n] # 0 => n = loader[u].mode
          /\ \A f \in Files : files[f] = loader[u].fcell /\ files[f] # 0 => f = FileOf[loader[u].mode]
      BY DEF LoadersOwn, FileAt
    <2>1. CASE u = t
      <3>1. \A f \in Files : files'[f] = fresh => f = g
        BY <1>1, <1>g, CellNumbers DEF CellsDistinct
      <3> QED
        BY <1>0, <1>3, <2>0, <2>1, <3>1 DEF FileAt
    <2>2. CASE u # t
      <3>2. \A f \in Files : files'[f] = files[f] \/ files'[f] = cells + 1
        BY <1>1
      <3> QED
        BY <1>0, <1>3, <2>0, <2>2, <3>2, CellNumbers
    <2> QED
      BY <2>1, <2>2
  <1>11. \A u \in Loaders : LoaderCurrent(u)'
    <2> TAKE u \in Loaders
    <2>1. CASE u = t
      BY <1>1, <1>3, <1>g, <2>1 DEF LoaderCurrent, HasCurrent, FileAt, Doing
    <2>2. CASE u # t
      <3>1. LoaderCurrent(u)
        BY DEF LoadersCurrent
      <3>2. loader'[u] = loader[u] /\ FileAt(u)' = FileAt(u)
        BY <1>3, <2>2 DEF FileAt
      <3>3. loader[u].fcell # 0 /\ HasCurrent(u) => HasCurrent(u)'
        BY <1>1, <3>2 DEF HasCurrent
      <3>4. loader[u].pc \in {"file", "touch", "publish", "load"} => loader[u].fcell # 0
        BY <3>1 DEF LoaderCurrent
      <3> QED
        BY <1>0, <3>1, <3>2, <3>3, <3>4 DEF LoaderCurrent, Doing
    <2> QED
      BY <2>1, <2>2
  <1>12. LoadersCurrent' /\ OneLoadPerFile'
    <2>2. \A u \in Loaders : Doing(u, "load")' => u # t /\ Doing(u, "load")
      BY <1>3 DEF Doing
    <2> QED
      BY <1>3, <1>11, <2>2 DEF LoadersCurrent, OneLoadPerFile, FileAt
  <1>13. BooksFit' /\ IsFiniteSet(lru)'
    BY <1>0 DEF BooksFit, BytesOf, BytesIn, OfTenant
  <1> QED
    BY <1>5, <1>6, <1>7, <1>8, <1>9, <1>10, <1>12, <1>13

\* A loader goes on from a step to another with the cells it has.
LEMMA Advances ==
    ASSUME BooksTyped, NEW t \in Loaders, NEW s \in Pcs, Goes(t, s), loader[t] # NoLoad, cells' = cells
    PROVE  /\ \A u \in Loaders : u # t => loader'[u] = loader[u]
           /\ \A u \in Loaders : /\ loader'[u].mode = loader[u].mode
                                 /\ loader'[u].mcell = loader[u].mcell /\ loader'[u].fcell = loader[u].fcell
                                 /\ FileAt(u)' = FileAt(u)
           /\ loader'[t].pc = s
           /\ loader' \in [Loaders -> LoadType']
           /\ \A u \in Loaders : loader'[u] = NoLoad \/ (loader'[u].mode \in Modes /\ loader'[u].mcell # 0)
  <1>1. loader \in [Loaders -> LoadType] /\ LoadType' = LoadType
    BY DEF BooksTyped, LoadType, Pcs
  <1>2. /\ [loader[t] EXCEPT !.pc = s] \in LoadType
        /\ [loader[t] EXCEPT !.pc = s].pc = s
        /\ [loader[t] EXCEPT !.pc = s].mode = loader[t].mode
        /\ [loader[t] EXCEPT !.pc = s].mcell = loader[t].mcell
        /\ [loader[t] EXCEPT !.pc = s].fcell = loader[t].fcell
    BY <1>1 DEF LoadType
  <1>3. loader' = [loader EXCEPT ![t] = [loader[t] EXCEPT !.pc = s]]
    BY DEF Goes
  <1>4. loader' \in [Loaders -> LoadType] /\ loader'[t] = [loader[t] EXCEPT !.pc = s]
    BY <1>1, <1>2, <1>3
  <1>5. \A u \in Loaders : u # t => loader'[u] = loader[u]
    BY <1>1, <1>3
  <1>6. \A u \in Loaders : /\ loader'[u].mode = loader[u].mode
                           /\ loader'[u].mcell = loader[u].mcell /\ loader'[u].fcell = loader[u].fcell
    BY <1>2, <1>4, <1>5
  <1>7. \A u \in Loaders : loader'[u] = NoLoad \/ (loader'[u].mode \in Modes /\ loader'[u].mcell # 0)
    <2> TAKE u \in Loaders
    <2>1. loader[u] = NoLoad \/ (loader[u].mode \in Modes /\ loader[u].mcell # 0)
      BY DEF BooksTyped
    <2> QED
      BY <1>5, <1>6, <2>1
  <1> QED
    BY <1>1, <1>2, <1>4, <1>5, <1>6, <1>7 DEF FileAt

LEMMA LoadedSound ==
    ASSUME BooksAssumption, BooksInv, NEW t \in Loaders, Loaded(t)
    PROVE  BooksInv'
  <1> USE DEF BooksInv, BooksSound
  <1> DEFINE c == loader[t].fcell
  <1>0. /\ assets' = assets /\ modes' = modes /\ files' = files /\ lru' = lru /\ cells' = cells
        /\ clock' = clock /\ overtaken' = overtaken /\ loads' = loads
        /\ ready' = ready \union {c} /\ Goes(t, "touch") /\ Doing(t, "load")
    BY DEF Loaded, list
  <1>1. loader[t] # NoLoad /\ "touch" \in Pcs
    BY <1>0, NoLoadIdle DEF Doing, Pcs
  <1>2. /\ \A u \in Loaders : u # t => loader'[u] = loader[u]
        /\ \A u \in Loaders : /\ loader'[u].mode = loader[u].mode
                              /\ loader'[u].mcell = loader[u].mcell /\ loader'[u].fcell = loader[u].fcell
                              /\ FileAt(u)' = FileAt(u)
        /\ loader'[t].pc = "touch"
        /\ loader' \in [Loaders -> LoadType']
        /\ \A u \in Loaders : loader'[u] = NoLoad \/ (loader'[u].mode \in Modes /\ loader'[u].mcell # 0)
    BY <1>0, <1>1, Advances
  <1>3. c \in 1 .. cells /\ c = files[FileAt(t)] /\ c \notin ready
    BY <1>0, CellNumbers DEF LoadersCurrent, LoaderCurrent, HasCurrent, Doing
  <1>4. BooksTyped'
    <2>1. ready' \subseteq 1 .. cells /\ ready \subseteq ready'
      BY <1>0, <1>3 DEF BooksTyped
    <2> QED
      BY <1>0, <1>2, <2>1 DEF BooksTyped, LoadType, Pcs
  <1>5. /\ ListIsCurrent' /\ BooksFit' /\ CellsDistinct' /\ IsFiniteSet(lru)' /\ ModesHoldCached'
        /\ LoadersOwn'
    BY <1>0, <1>2 DEF ListIsCurrent, BooksFit, CellsDistinct, ModesHoldCached, BytesOf, BytesIn, OfTenant,
                      LoadersOwn
  <1>6. LoadedIsListed'
    <2> SUFFICES ASSUME NEW f \in Files, files[f] \in ready'
                 PROVE  \/ \E e \in lru : e.file = f
                        \/ \E u \in Loaders : Doing(u, "touch")' /\ loader'[u].fcell = files[f]
      BY <1>0 DEF LoadedIsListed
    <2>1. CASE files[f] = c
      BY <1>2, <2>1 DEF Doing
    <2>2. CASE files[f] \in ready
      <3>1. ASSUME NEW u \in Loaders, Doing(u, "touch")  PROVE Doing(u, "touch")'
        BY <1>0, <1>2, <3>1 DEF Doing
      <3> QED
        BY <1>2, <2>2, <3>1 DEF LoadedIsListed
    <2> QED
      BY <1>0, <2>1, <2>2
  <1>7. \A u \in Loaders : LoaderCurrent(u)'
    <2> TAKE u \in Loaders
    <2>1. LoaderCurrent(u) /\ LoaderCurrent(t)
      BY DEF LoadersCurrent
    <2>2. HasCurrent(u)' = HasCurrent(u)
      BY <1>0, <1>2 DEF HasCurrent
    <2>3. CASE u = t
      BY <1>0, <1>2, <1>3, <2>1, <2>2, <2>3, CellNumbers DEF LoaderCurrent, Doing
    <2>4. CASE u # t
      <3>1. Doing(u, "load") => loader[u].fcell # c
        BY <1>0, <2>4 DEF LoadersCurrent
      <3> QED
        BY <1>0, <1>2, <2>1, <2>2, <2>4, <3>1 DEF LoaderCurrent, Doing
    <2> QED
      BY <2>3, <2>4
  <1>8. LoadersCurrent' /\ OneLoadPerFile'
    <2>1. \A u \in Loaders : Doing(u, "load")' => Doing(u, "load")
      BY <1>0, <1>2 DEF Doing
    <2> QED
      BY <1>2, <1>7, <2>1 DEF LoadersCurrent, OneLoadPerFile
  <1> QED
    BY <1>4, <1>5, <1>6, <1>7, <1>8

LEMMA PublishSound ==
    ASSUME BooksAssumption, BooksInv, NEW t \in Loaders, Publish(t)
    PROVE  BooksInv'
  <1> USE DEF BooksInv, BooksSound
  <1> DEFINE c == loader[t].fcell
             a == loader[t].mcell
  <1>0. /\ modes' = modes /\ files' = files /\ lru' = lru /\ cells' = cells
        /\ clock' = clock /\ overtaken' = overtaken /\ loads' = loads /\ ready' = ready
        /\ Ends(t) /\ Doing(t, "publish")
        /\ assets' = [b \in DOMAIN assets \union {a} |-> IF b = a THEN c ELSE assets[b]]
    BY DEF Publish, list
  <1>1. loader[t] # NoLoad
    BY <1>0, NoLoadIdle DEF Doing
  <1>2. /\ \A u \in Loaders : u # t => loader'[u] = loader[u]
        /\ loader'[t] = NoLoad
        /\ loader' \in [Loaders -> LoadType]
        /\ NoLoad.pc = "idle" /\ NoLoad.mcell = 0 /\ NoLoad.fcell = 0
    BY <1>0 DEF Ends, BooksTyped, NoLoad, LoadType, Pcs
  <1>3. a \in 1 .. cells /\ a # 0 /\ c \in ready /\ (HasCurrent(t) \/ c \in overtaken)
    BY <1>0, <1>1, CellNumbers, FileTyped DEF LoadersCurrent, LoaderCurrent, Doing
  <1>4. BooksTyped'
    BY <1>0, <1>2, <1>3 DEF BooksTyped, LoadType, Pcs
  <1>5. ListIsCurrent' /\ BooksFit' /\ CellsDistinct' /\ IsFiniteSet(lru)'
    BY <1>0 DEF ListIsCurrent, BooksFit, CellsDistinct, BytesOf, BytesIn, OfTenant
  <1>6. LoadedIsListed'
    BY <1>0, <1>2 DEF LoadedIsListed, Doing
  <1>7. ModesHoldCached'
    <2> SUFFICES ASSUME NEW n \in Modes, modes[n] \in DOMAIN assets'
                 PROVE  assets'[modes[n]] = files[FileOf[n]] \/ assets'[modes[n]] \in overtaken
      BY <1>0 DEF ModesHoldCached
    <2>1. CASE modes[n] = a
      <3>1. n = loader[t].mode
        BY <1>3, <2>1 DEF LoadersOwn
      <3> QED
        BY <1>0, <1>3, <2>1, <3>1 DEF HasCurrent, FileAt
    <2>2. CASE modes[n] # a
      BY <1>0, <2>2 DEF ModesHoldCached
    <2> QED
      BY <2>1, <2>2
  <1>8. LoadersOwn'
    BY <1>0, <1>2 DEF LoadersOwn, FileAt
  <1>9. \A u \in Loaders : LoaderCurrent(u)'
    <2> TAKE u \in Loaders
    <2>1. CASE u = t
      BY <1>2, <2>1 DEF LoaderCurrent, Doing
    <2>2. CASE u # t
      BY <1>0, <1>2, <2>2 DEF LoadersCurrent, LoaderCurrent, HasCurrent, FileAt, Doing
    <2> QED
      BY <2>1, <2>2
  <1>10. LoadersCurrent' /\ OneLoadPerFile'
    <2>1. \A u \in Loaders : Doing(u, "load")' => Doing(u, "load") /\ u # t
      BY <1>2 DEF Doing
    <2> QED
      BY <1>2, <1>9, <2>1 DEF LoadersCurrent, OneLoadPerFile, FileAt
  <1> QED
    BY <1>4, <1>5, <1>6, <1>7, <1>8, <1>10

\* The caller holds a cell that is no longer in the map: the list stays.
LEMMA StaleTouchSound ==
    ASSUME BooksAssumption, BooksInv, NEW t \in Loaders, TouchBooks(t), ~IsCurrent(t)
    PROVE  BooksInv'
  <1> USE DEF BooksInv, BooksSound
  <1>1. Unmapped({}) = {} /\ Dropped({}) = {}
    BY DEF Unmapped, Dropped
  <1>0. /\ assets' = assets /\ lru' = lru /\ cells' = cells
        /\ clock' = clock /\ loads' = loads /\ ready' = ready
        /\ modes' = modes /\ files' = files /\ overtaken' = overtaken
        /\ Goes(t, "publish") /\ Doing(t, "touch")
    BY <1>1 DEF TouchBooks, BooksTyped
  <1>2. loader[t] # NoLoad /\ "publish" \in Pcs
    BY <1>0, NoLoadIdle DEF Doing, Pcs
  <1>3. /\ \A u \in Loaders : u # t => loader'[u] = loader[u]
        /\ \A u \in Loaders : /\ loader'[u].mode = loader[u].mode
                              /\ loader'[u].mcell = loader[u].mcell /\ loader'[u].fcell = loader[u].fcell
                              /\ FileAt(u)' = FileAt(u)
        /\ loader'[t].pc = "publish"
        /\ loader' \in [Loaders -> LoadType']
        /\ \A u \in Loaders : loader'[u] = NoLoad \/ (loader'[u].mode \in Modes /\ loader'[u].mcell # 0)
    BY <1>0, <1>2, Advances
  <1>4. BooksTyped'
    BY <1>0, <1>3 DEF BooksTyped, LoadType, Pcs
  <1>5. /\ ListIsCurrent' /\ BooksFit' /\ CellsDistinct' /\ IsFiniteSet(lru)' /\ ModesHoldCached'
        /\ LoadersOwn'
    BY <1>0, <1>3 DEF ListIsCurrent, BooksFit, CellsDistinct, ModesHoldCached, BytesOf, BytesIn, OfTenant,
                      LoadersOwn
  <1>6. LoadedIsListed'
    <2>1. \A f \in Files : files[f] \in ready => files[f] # loader[t].fcell
      <3> SUFFICES ASSUME NEW f \in Files, files[f] \in ready, files[f] = loader[t].fcell
                   PROVE  FALSE
        OBVIOUS
      <3>1. f = FileAt(t)
        BY CellNumbers DEF LoadersOwn
      <3> QED
        BY <3>1 DEF IsCurrent
    <2> QED
      BY <1>0, <1>3, <2>1 DEF LoadedIsListed, Doing
  <1>7. \A u \in Loaders : LoaderCurrent(u)'
    <2> TAKE u \in Loaders
    <2>1. LoaderCurrent(u)
      BY DEF LoadersCurrent
    <2>2. HasCurrent(u)' = HasCurrent(u)
      BY <1>0, <1>3 DEF HasCurrent
    <2> QED
      BY <1>0, <1>3, <2>1, <2>2 DEF LoaderCurrent, Doing
  <1>8. LoadersCurrent' /\ OneLoadPerFile'
    <2>1. \A u \in Loaders : Doing(u, "load")' => Doing(u, "load")
      BY <1>3 DEF Doing
    <2> QED
      BY <1>3, <1>7, <2>1 DEF LoadersCurrent, OneLoadPerFile
  <1> QED
    BY <1>4, <1>5, <1>6, <1>8

\* The list with the file's entry moved to its end.
Pushed(t) ==
    {e \in lru : e.file # FileAt(t)}
      \union {[file |-> FileAt(t), cell |-> loader[t].fcell, used |-> clock + 1]}

\* What the touch leaves of it.
TouchKeeps(t) == Trimmed(Pushed(t), TenantOf[FileAt(t)])

\* What a touch makes of the list.
LEMMA TouchTrims ==
    ASSUME BooksAssumption, BooksInv, NEW t \in Loaders, Doing(t, "touch"), IsCurrent(t)
    PROVE  /\ Pushed(t) \subseteq [file : Files, cell : ready, used : 1 .. clock + 1]
           /\ IsFiniteSet(Pushed(t))
           /\ \A e \in Pushed(t) : files[e.file] = e.cell
           /\ \A d, e \in Pushed(t) : d.file = e.file \/ d.used = e.used => d = e
           /\ TouchKeeps(t) \subseteq Pushed(t)
           /\ \E e \in TouchKeeps(t) : e.file = FileAt(t)
           /\ Cardinality(TouchKeeps(t)) <= MaxFiles \/ Cardinality(TouchKeeps(t)) = 1
           /\ BytesOf(TouchKeeps(t)) <= MaxBytes \/ Cardinality(TouchKeeps(t)) = 1
           /\ \A x \in DOMAIN Cap : FitsTenant(TouchKeeps(t), x)
  <1> USE DEF BooksInv, BooksSound
  <1> DEFINE g == FileAt(t)
             n == [file |-> FileAt(t), cell |-> loader[t].fcell, used |-> clock + 1]
             S == Pushed(t)
             K == TouchKeeps(t)
  <1>0. g \in Files /\ loader[t].fcell \in ready /\ loader[t].fcell = files[g] /\ clock \in Nat
    BY NoLoadIdle, FileTyped DEF LoadersCurrent, LoaderCurrent, Doing, IsCurrent, BooksTyped
  <1>1. n \in [file : Files, cell : ready, used : 1 .. clock + 1] /\ n \in S
    BY <1>0 DEF Pushed
  <1>2. \A e \in S : e = n \/ (e \in lru /\ e.file # g)
    BY DEF Pushed
  <1>3. \A e \in lru : /\ e \in [file : Files, cell : ready, used : 1 .. clock + 1]
                       /\ e.used < clock + 1
    <2> TAKE e \in lru
    <2>1. e \in [file : Files, cell : ready, used : 1 .. clock]
      BY DEF BooksTyped
    <2>2. 1 .. clock \subseteq 1 .. clock + 1 /\ \A i \in 1 .. clock : i < clock + 1
      BY <1>0
    <2> QED
      BY <2>1, <2>2
  <1>4. S \subseteq [file : Files, cell : ready, used : 1 .. clock + 1]
    BY <1>1, <1>2, <1>3
  <1>5. S \in SUBSET Entry
    <2>1. ready \subseteq Nat /\ 1 .. clock + 1 \subseteq Nat
      BY <1>0 DEF BooksTyped
    <2> QED
      BY <1>4, <2>1 DEF Entry
  <1>6. IsFiniteSet(S)
    <2>1. IsFiniteSet({e \in lru : e.file # g})
      BY FS_Subset
    <2> QED
      BY <2>1, FS_AddElement DEF Pushed
  <1>7. \A e \in S : files[e.file] = e.cell
    BY <1>0, <1>2 DEF ListIsCurrent
  <1>8. \A d \in S : d # n => d.used < n.used
    BY <1>2, <1>3
  <1>9. \A d, e \in S : d.file = e.file \/ d.used = e.used => d = e
    <2> SUFFICES ASSUME NEW d \in S, NEW e \in S, d.file = e.file \/ d.used = e.used
                 PROVE  d = e
      OBVIOUS
    <2>1. CASE d = n /\ e # n
      <3>1. e \in lru /\ e.file # g /\ e.used < n.used /\ e.used \in 1 .. clock + 1
        BY <1>2, <1>3, <2>1
      <3> QED
        BY <1>0, <2>1, <3>1
    <2>2. CASE e = n /\ d # n
      <3>1. d \in lru /\ d.file # g /\ d.used < n.used /\ d.used \in 1 .. clock + 1
        BY <1>2, <1>3, <2>2
      <3> QED
        BY <1>0, <2>2, <3>1
    <2>3. CASE d # n /\ e # n
      BY <1>2, <2>3 DEF ListIsCurrent
    <2> QED
      BY <2>1, <2>2, <2>3
  <1>10. n.file = g /\ K = Trimmed(S, TenantOf[n.file])
    BY DEF TouchKeeps
  <1> HIDE DEF S, K, n
  <1>11. /\ K \subseteq S /\ n \in K
         /\ Cardinality(K) <= MaxFiles \/ Cardinality(K) = 1
         /\ BytesOf(K) <= MaxBytes \/ Cardinality(K) = 1
         /\ TenantOf[n.file] \in DOMAIN Cap => FitsTenant(K, TenantOf[n.file])
    BY <1>1, <1>5, <1>6, <1>8, <1>10, TrimmedFits
  <1>12. ASSUME NEW x \in DOMAIN Cap, x # TenantOf[g]
         PROVE  FitsTenant(K, x)
    <2>1. OfTenant(K, x) \subseteq OfTenant(lru, x)
      BY <1>2, <1>10, <1>11, <1>12 DEF OfTenant
    <2>2. FitsTenant(lru, x)
      BY DEF BooksFit, FitsTenant
    <2>3. lru \in SUBSET Entry
      <3>1. ready \subseteq Nat /\ 1 .. clock \subseteq Nat
        BY <1>0 DEF BooksTyped
      <3> QED
        BY <3>1 DEF Entry, BooksTyped
    <2> QED
      BY <2>1, <2>2, <2>3, FewerFit
  <1>13. \A x \in DOMAIN Cap : FitsTenant(K, x)
    BY <1>10, <1>11, <1>12
  <1>14. \E e \in K : e.file = FileAt(t)
    BY <1>10, <1>11
  <1> QED
    BY <1>4, <1>6, <1>7, <1>9, <1>11, <1>13, <1>14 DEF S, K

\* The caller's cell is the map's: its file goes to the end of the list, and
\* what no longer fits is evicted.
LEMMA CurrentTouchSound ==
    ASSUME BooksAssumption, BooksInv, NEW t \in Loaders, TouchBooks(t), IsCurrent(t)
    PROVE  BooksInv'
  <1> USE DEF BooksInv, BooksSound
  <1> DEFINE S == Pushed(t)
             K == TouchKeeps(t)
             gone == S \ K
  <1>0. /\ assets' = assets /\ cells' = cells /\ loads' = loads /\ ready' = ready
        /\ clock' = clock + 1 /\ lru' = K
        /\ modes' = [m \in Modes |-> IF m \in Dropped(gone) THEN 0 ELSE modes[m]]
        /\ files' = [f \in Files |-> IF f \in Unmapped(gone) THEN 0 ELSE files[f]]
        /\ overtaken' = overtaken \union ({e.cell : e \in gone} \intersect InFlight)
        /\ Goes(t, "publish") /\ Doing(t, "touch")
    BY DEF TouchBooks, Pushed, TouchKeeps
  <1>2. loader[t] # NoLoad /\ "publish" \in Pcs
    BY <1>0, NoLoadIdle DEF Doing, Pcs
  <1>3. /\ \A u \in Loaders : u # t => loader'[u] = loader[u]
        /\ \A u \in Loaders : /\ loader'[u].mode = loader[u].mode
                              /\ loader'[u].mcell = loader[u].mcell /\ loader'[u].fcell = loader[u].fcell
                              /\ FileAt(u)' = FileAt(u)
        /\ loader'[t].pc = "publish"
        /\ loader' \in [Loaders -> LoadType']
        /\ \A u \in Loaders : loader'[u] = NoLoad \/ (loader'[u].mode \in Modes /\ loader'[u].mcell # 0)
    BY <1>0, <1>2, Advances
  <1>4. /\ S \subseteq [file : Files, cell : ready, used : 1 .. clock + 1]
        /\ IsFiniteSet(S)
        /\ \A e \in S : files[e.file] = e.cell
        /\ \A d, e \in S : d.file = e.file \/ d.used = e.used => d = e
        /\ K \subseteq S
        /\ \E e \in K : e.file = FileAt(t)
        /\ Cardinality(K) <= MaxFiles \/ Cardinality(K) = 1
        /\ BytesOf(K) <= MaxBytes \/ Cardinality(K) = 1
        /\ \A x \in DOMAIN Cap : FitsTenant(K, x)
    BY <1>0, TouchTrims
  <1>5. \A f \in Files : f \in Unmapped(gone) <=> \E e \in gone : e.file = f
    BY <1>4 DEF Unmapped
  <1>6. /\ \A f \in Files : files'[f] = 0 \/ (files'[f] = files[f] /\ f \notin Unmapped(gone))
        /\ \A m \in Modes : modes'[m] = 0 \/ (modes'[m] = modes[m] /\ m \notin Dropped(gone))
    BY <1>0
  <1>7. \A e \in gone : e.cell \in ready /\ e.file \in Files /\ e.cell = files[e.file]
    BY <1>4
  <1>8. \A e \in K : e.file \in Files /\ e.file \notin Unmapped(gone) /\ files'[e.file] = files[e.file]
    <2> TAKE e \in K
    <2>1. e \in S /\ e.file \in Files
      BY <1>4
    <2>2. e.file \notin Unmapped(gone)
      <3> SUFFICES ASSUME e.file \in Unmapped(gone) PROVE FALSE
        OBVIOUS
      <3>1. PICK d \in gone : d.file = e.file
        BY <1>5, <2>1
      <3>2. d = e
        BY <1>4, <2>1, <3>1
      <3> QED
        BY <3>1, <3>2
    <2> QED
      BY <1>0, <2>1, <2>2
  <1>9. BooksTyped'
    <2>1. modes' \in [Modes -> 0 .. cells] /\ files' \in [Files -> 0 .. cells]
      BY <1>0, CellNumbers DEF BooksTyped
    <2>2. overtaken' \subseteq ready
      BY <1>0, <1>7 DEF BooksTyped
    <2>3. lru' \subseteq [file : Files, cell : ready, used : 1 .. clock']
      BY <1>0, <1>4
    <2> QED
      BY <1>0, <1>3, <2>1, <2>2, <2>3 DEF BooksTyped, LoadType, Pcs
  <1>10. ListIsCurrent'
    <2>1. \A e \in K : files'[e.file] = e.cell
      BY <1>4, <1>8
    <2>2. \A d, e \in K : d.file = e.file \/ d.used = e.used => d = e
      BY <1>4
    <2> QED
      BY <1>0, <2>1, <2>2 DEF ListIsCurrent
  <1>11. LoadedIsListed'
    <2> SUFFICES ASSUME NEW f \in Files, files'[f] \in ready
                 PROVE  \/ \E e \in K : e.file = f
                        \/ \E u \in Loaders : Doing(u, "touch")' /\ loader'[u].fcell = files'[f]
      BY <1>0 DEF LoadedIsListed
    <2>1. files'[f] = files[f] /\ f \notin Unmapped(gone)
      BY <1>6, CellNumbers
    <2>2. CASE f = FileAt(t)
      BY <1>4, <2>2
    <2>3. CASE f # FileAt(t)
      <3>1. CASE \E e \in lru : e.file = f
        <4>1. PICK e \in lru : e.file = f
          BY <3>1
        <4>2. e \in S
          BY <2>3, <4>1 DEF Pushed
        <4>3. e \in K
          BY <1>5, <2>1, <4>1, <4>2
        <4> QED
          BY <4>1, <4>3
      <3>2. CASE \E u \in Loaders : Doing(u, "touch") /\ loader[u].fcell = files[f]
        <4>1. PICK u \in Loaders : Doing(u, "touch") /\ loader[u].fcell = files[f]
          BY <3>2
        <4>2. f = FileAt(u)
          BY <2>1, <4>1, CellNumbers DEF LoadersOwn
        <4>3. u # t
          BY <2>3, <4>2
        <4> QED
          BY <1>3, <2>1, <4>1, <4>3 DEF Doing
      <3> QED
        BY <2>1, <3>1, <3>2 DEF LoadedIsListed
    <2> QED
      BY <2>2, <2>3
  <1>12. BooksFit' /\ IsFiniteSet(lru)'
    <2>1. IsFiniteSet(K)
      BY <1>4, FS_Subset
    <2> QED
      BY <1>0, <1>4, <2>1 DEF BooksFit, FitsTenant, BytesOf, BytesIn, OfTenant
  <1>13. ModesHoldCached'
    <2> SUFFICES ASSUME NEW n \in Modes, modes'[n] \in DOMAIN assets
                 PROVE  assets[modes'[n]] = files'[FileOf[n]] \/ assets[modes'[n]] \in overtaken'
      BY <1>0 DEF ModesHoldCached
    <2>1. modes'[n] = modes[n] /\ n \notin Dropped(gone) /\ FileOf[n] \in Files
      BY <1>6, CellNumbers DEF BooksAssumption
    <2>2. assets[modes[n]] = files[FileOf[n]] \/ assets[modes[n]] \in overtaken
      BY <2>1 DEF ModesHoldCached
    <2>3. ASSUME assets[modes[n]] = files[FileOf[n]], FileOf[n] \in Unmapped(gone)
          PROVE  FALSE
      <3>1. PICK e \in gone : e.file = FileOf[n]
        BY <1>5, <2>1, <2>3
      <3> QED
        BY <1>7, <2>1, <2>3, <3>1 DEF Dropped
    <2> QED
      BY <1>0, <2>1, <2>2, <2>3
  <1>14. CellsDistinct' /\ LoadersOwn'
    <2>1. CellsDistinct'
      BY <1>6 DEF CellsDistinct
    <2>2. LoadersOwn'
      BY <1>3, <1>6 DEF LoadersOwn
    <2> QED
      BY <2>1, <2>2
  <1>15. \A u \in Loaders : LoaderCurrent(u)'
    <2> TAKE u \in Loaders
    <2>1. LoaderCurrent(u)
      BY DEF LoadersCurrent
    <2>2. loader[u].pc \in {"file", "load", "touch", "publish"} => FileAt(u) \in Files
      BY NoLoadIdle, FileTyped DEF Doing
    <2>3. ASSUME loader[u].pc \in {"file", "load", "touch", "publish"}, HasCurrent(u)
          PROVE  HasCurrent(u)' \/ (loader[u].fcell \in overtaken' /\ loader[u].fcell \in ready)
      <3>1. CASE FileAt(u) \in Unmapped(gone)
        <4>1. PICK e \in gone : e.file = FileAt(u)
          BY <1>5, <2>2, <2>3, <3>1
        <4>2. loader[u].fcell = e.cell
          BY <1>7, <2>3, <4>1 DEF HasCurrent
        <4>3. loader[u].fcell \in InFlight
          BY <2>3 DEF InFlight, Doing
        <4> QED
          BY <1>0, <1>7, <4>2, <4>3
      <3>2. CASE FileAt(u) \notin Unmapped(gone)
        BY <1>0, <1>3, <2>2, <2>3, <3>2 DEF HasCurrent
      <3> QED
        BY <3>1, <3>2
    <2>4. overtaken \subseteq overtaken'
      BY <1>0
    <2>5. CASE u = t
      BY <1>0, <1>3, <2>1, <2>3, <2>4, <2>5 DEF LoaderCurrent, Doing
    <2>6. CASE u # t
      BY <1>0, <1>3, <2>1, <2>3, <2>4, <2>6 DEF LoaderCurrent, Doing
    <2> QED
      BY <2>5, <2>6
  <1>16. LoadersCurrent' /\ OneLoadPerFile'
    <2>1. \A u \in Loaders : Doing(u, "load")' => Doing(u, "load")
      BY <1>3 DEF Doing
    <2> QED
      BY <1>3, <1>15, <2>1 DEF LoadersCurrent, OneLoadPerFile
  <1> QED
    BY <1>9, <1>10, <1>11, <1>12, <1>13, <1>14, <1>16

LEMMA BooksStart == BooksInit /\ BooksAssumption => BooksInv
  <1> SUFFICES ASSUME BooksInit, BooksAssumption  PROVE BooksInv
    OBVIOUS
  <1>1. \A t \in Loaders : loader[t] = NoLoad
    BY DEF BooksInit
  <1>2. NoLoad.pc = "idle" /\ NoLoad.fcell = 0 /\ NoLoad.mcell = 0
    BY DEF NoLoad
  <1>3. BooksTyped
    BY DEF BooksInit, BooksTyped, NoLoad
  <1>4. ListIsCurrent /\ LoadedIsListed /\ OneLoadPerFile /\ ModesHoldCached /\ IsFiniteSet(lru)
    BY <1>1, <1>2, FS_EmptySet DEF BooksInit, ListIsCurrent, LoadedIsListed, OneLoadPerFile, ModesHoldCached,
                                    Doing
  <1>5. BooksFit
    <2>1. Cardinality(lru) = 0 /\ \A x : OfTenant(lru, x) = lru
      BY FS_EmptySet DEF BooksInit, OfTenant
    <2>2. UNION {BytesIn(e) : e \in lru} = {}
      BY DEF BooksInit
    <2>3. BytesOf(lru) = 0
      BY <2>2, FS_EmptySet DEF BytesOf
    <2> QED
      BY <2>1, <2>3 DEF BooksFit, BooksAssumption
  <1>6. CellsDistinct /\ LoadersOwn /\ LoadersCurrent
    BY <1>1, <1>2 DEF BooksInit, CellsDistinct, LoadersOwn, LoadersCurrent, LoaderCurrent, Doing
  <1> QED
    BY <1>3, <1>4, <1>5, <1>6 DEF BooksInv, BooksSound

LEMMA BooksSame ==
    ASSUME BooksInv, UNCHANGED booksVars
    PROVE  BooksInv'
  <1>1. /\ modes' = modes /\ assets' = assets /\ files' = files /\ ready' = ready /\ lru' = lru
        /\ clock' = clock /\ cells' = cells /\ overtaken' = overtaken /\ loads' = loads
        /\ loader' = loader
    BY DEF booksVars, maps, list
  <1> QED
    BY <1>1 DEF BooksInv, BooksSound, BooksTyped, ListIsCurrent, LoadedIsListed, BooksFit, OneLoadPerFile,
                ModesHoldCached, CellsDistinct, LoadersOwn, LoadersCurrent, LoaderCurrent, HasCurrent,
                FileAt, Doing, BytesOf, BytesIn, OfTenant

LEMMA BooksStep ==
    ASSUME BooksAssumption, BooksInv, [BooksNext]_booksVars
    PROVE  BooksInv'
  <1>1. CASE UNCHANGED booksVars
    BY <1>1, BooksSame
  <1>2. CASE BooksNext
    <2>1. PICK t \in Loaders :
            \/ \E m \in Modes : LoadAssets(t, m)
            \/ ModeReady(t) \/ InitMode(t) \/ LoadBooks(t) \/ FileReady(t) \/ InitFile(t)
            \/ Loaded(t) \/ LoadFails(t) \/ CallerGone(t) \/ ThreadEnds(t) \/ TouchBooks(t) \/ Publish(t)
      BY <1>2 DEF BooksNext
    <2>0. BooksTyped
      BY DEF BooksInv, BooksSound
    <2>2. CASE \E m \in Modes : LoadAssets(t, m)
      BY <2>2, LoadAssetsSound
    <2>3. CASE ModeReady(t) \/ LoadFails(t) \/ ThreadEnds(t)
      <3>1. Ends(t) /\ ~Doing(t, "touch") /\ CachesSame /\ "mode" \in Pcs \ {"idle"}
        BY <2>3 DEF ModeReady, LoadFails, ThreadEnds, Doing, Pcs
      <3> QED
        BY <3>1, LoaderMoves
    <2>4. CASE InitMode(t)
      <3>1. /\ Goes(t, "weights") /\ ~Doing(t, "touch") /\ CachesSame /\ "weights" \in Pcs \ {"idle"}
            /\ loader[t] # NoLoad
        BY <2>0, <2>4, NoLoadIdle DEF InitMode, Doing, Pcs
      <3> QED
        BY <3>1, LoaderMoves
    <2>5. CASE FileReady(t)
      <3>1. /\ Goes(t, "touch") /\ ~Doing(t, "touch") /\ CachesSame /\ "touch" \in Pcs \ {"idle"}
            /\ loader[t] # NoLoad /\ Doing(t, "file") /\ loader[t].fcell \in ready
        BY <2>0, <2>5, NoLoadIdle DEF FileReady, Doing, Pcs
      <3> QED
        BY <3>1, LoaderMoves
    <2>6. CASE InitFile(t)
      <3>1. /\ Goes(t, "load") /\ ~Doing(t, "touch") /\ CachesSame /\ "load" \in Pcs \ {"idle"}
            /\ loader[t] # NoLoad
        BY <2>0, <2>6, NoLoadIdle DEF InitFile, Doing, Pcs
      <3> QED
        BY <2>6, <3>1, LoaderMoves
    <2>7. CASE CallerGone(t)
      <3>1. /\ Goes(t, "gone") /\ ~Doing(t, "touch") /\ CachesSame /\ "gone" \in Pcs \ {"idle"}
            /\ loader[t] # NoLoad /\ Doing(t, "load")
        BY <2>0, <2>7, NoLoadIdle DEF CallerGone, Doing, Pcs
      <3> QED
        BY <3>1, LoaderMoves
    <2>8. CASE LoadBooks(t)
      BY <2>8, LoadBooksSound
    <2>9. CASE Loaded(t)
      BY <2>9, LoadedSound
    <2>10. CASE TouchBooks(t)
      BY <2>10, StaleTouchSound, CurrentTouchSound
    <2>11. CASE Publish(t)
      BY <2>11, PublishSound
    <2> QED
      BY <2>1, <2>2, <2>3, <2>4, <2>5, <2>6, <2>7, <2>8, <2>9, <2>10, <2>11
  <1> QED
    BY <1>1, <1>2

\* The books in memory (load_assets, load_books, touch and evict in
\* math_engine.rs): whoever loads, fails, leaves or is overtaken by an eviction,
\* the list names exactly the current and loaded files, it fits the global and
\* the tenants' budgets after every touch, a file is loaded once at a time, and
\* a mode holds only what is cached or was evicted while it was being loaded.
THEOREM BooksAreSound == BooksSpec => []BooksSound
  <1>1. BooksInit => BooksInv
    BY BooksAssumption, BooksStart
  <1>2. BooksInv /\ [BooksNext]_booksVars => BooksInv'
    BY BooksAssumption, BooksStep
  <1>3. BooksInv => BooksSound
    BY DEF BooksInv
  <1> QED
    BY <1>1, <1>2, <1>3, PTL DEF BooksSpec


-----------------------------------------------------------------------------
(***************************************************************************)
(* The books' index.  What a file of whole records looks like, token by    *)
(* token: between two records, and after the last, a record ends (Starts,  *)
(* Ended), within one nothing is solid before its beginning (Begun), and   *)
(* two records are on different lines or touch (Parted).  Then either way  *)
(* of indexing finds whole records: a line that passes the line index      *)
(* holds one record, and the JSON scan cuts after each.                    *)
(***************************************************************************)
Positions == 1..Len(layout)
Solid == {p \in Positions : Kind(p) \notin Spaces}
Closes == {p \in Positions : Kind(p) = "close"}
Opens == {p \in Positions : Kind(p) = "open"}

\* An open token has an id, and no other has one.
Tokens ==
    {Open(id) : id \in Ids}
    \cup {Token(k) : k \in {"close", "in", "out", "text", "line", "blank"}}

TokensTyped ==
    /\ IndexTypeOK
    /\ layout \in Seq(Tokens)

Starts ==
    \A q \in Opens, t \in Solid : t < q => \E c \in Closes : t <= c /\ c < q

Begun ==
    \A t \in Solid, c \in Closes \cup {0} : c < t => \E p \in Opens : c < p /\ p <= t

Ended ==
    /\ depth = 0 => \A t \in Solid : \E c \in Closes : t <= c
    /\ depth # 0 => \E p \in Opens : \A c \in Closes : c < p

Parted ==
    \A p \in Opens, c \in Closes :
      c < p => \/ \E q \in Positions : c < q /\ q < p /\ Kind(q) = "line"
               \/ Kind(p - 1) = "close"

IndexInv == TokensTyped /\ Starts /\ Begun /\ Ended /\ Parted

LEMMA TokenKinds ==
    ASSUME 0 \notin Ids, NEW tok \in Tokens
    PROVE  /\ tok.k = "open" <=> tok.id \in Ids
           /\ tok.k # "open" => tok.id = 0
           /\ tok.k = "open" => tok = Open(tok.id)
  BY DEF Tokens, Open, Token

\* What appending a token does to the positions.
LEMMA AfterPut ==
    ASSUME MaxLength \in Nat, TokensTyped, NEW tok \in Tokens, NEW d \in 0..2, Put(tok, d)
    PROVE  /\ TokensTyped'
           /\ Len(layout) \in Nat
           /\ Len(layout)' = Len(layout) + 1
           /\ \A p \in Positions : Kind(p)' = Kind(p)
           /\ Positions' = Positions \cup {Len(layout) + 1}
           /\ Solid' = Solid \cup {p \in {Len(layout) + 1} : tok.k \notin Spaces}
           /\ Closes' = Closes \cup {p \in {Len(layout) + 1} : tok.k = "close"}
           /\ Opens' = Opens \cup {p \in {Len(layout) + 1} : tok.k = "open"}
  <1>1. layout \in Seq(Tokens) /\ layout' = Append(layout, tok) /\ Len(layout) < MaxLength
    BY DEF TokensTyped, Put
  <1>2. Len(layout) \in Nat /\ layout' \in Seq(Tokens) /\ Len(layout') = Len(layout) + 1
    BY <1>1
  <1>3. \A p \in 1..Len(layout) : layout'[p] = layout[p]
    BY <1>1
  <1>4. layout'[Len(layout) + 1] = tok
    BY <1>1
  <1>5. depth' = d
    BY DEF Put
  <1>6. Len(layout') <= MaxLength
    BY <1>1, <1>2 DEF TokensTyped, IndexTypeOK
  <1>7. Positions' = Positions \cup {Len(layout) + 1}
    BY <1>2 DEF Positions
  <1>8. TokensTyped'
    BY <1>2, <1>5, <1>6 DEF TokensTyped, IndexTypeOK
  <1>9. \A p \in Positions : Kind(p)' = Kind(p)
    BY <1>3 DEF Kind, Positions
  <1>10. \A p \in {Len(layout) + 1} : Kind(p)' = tok.k
    BY <1>4 DEF Kind
  <1>11. \A p \in Positions : p # Len(layout) + 1
    BY <1>2 DEF Positions
  <1>12. Solid' = Solid \cup {p \in {Len(layout) + 1} : tok.k \notin Spaces}
    BY <1>7, <1>9, <1>10, <1>11 DEF Solid
  <1>13. Closes' = Closes \cup {p \in {Len(layout) + 1} : tok.k = "close"}
    BY <1>7, <1>9, <1>10, <1>11 DEF Closes
  <1>14. Opens' = Opens \cup {p \in {Len(layout) + 1} : tok.k = "open"}
    BY <1>7, <1>9, <1>10, <1>11 DEF Opens
  <1> QED
    BY <1>2, <1>7, <1>8, <1>9, <1>12, <1>13, <1>14

LEMMA PositionsAre ==
    ASSUME TokensTyped
    PROVE  /\ Len(layout) \in Nat
           /\ \A p \in Positions : p \in Nat /\ 1 <= p /\ p <= Len(layout)
           /\ Solid \subseteq Positions /\ Closes \subseteq Solid /\ Opens \subseteq Solid
           /\ Closes \cap Opens = {}
  <1>1. Len(layout) \in Nat
    BY DEF TokensTyped
  <1> QED
    BY <1>1 DEF Positions, Solid, Closes, Opens, Spaces

LEMMA IndexStarts ==
    ASSUME MaxLength \in Nat, IndexInit
    PROVE  IndexInv
  BY DEF IndexInit, IndexInv, TokensTyped, IndexTypeOK, Starts, Begun, Ended, Parted, Positions,
     Solid, Closes, Opens

\* Lines and blanks are in no record's way.
LEMMA SpaceKeeps ==
    ASSUME MaxLength \in Nat, IndexInv, NEW k \in Spaces, Space(k)
    PROVE  IndexInv'
  <1> DEFINE tok == Token(k)
             n == Len(layout) + 1
  <1>1. tok \in Tokens /\ tok.k = k
    BY DEF Tokens, Token, Spaces
  <1>2. TokensTyped /\ depth \in 0..2 /\ Put(tok, depth) /\ depth' = depth
    BY DEF IndexInv, TokensTyped, IndexTypeOK, Space, Put
  <1> HIDE DEF tok
  <1>3. /\ TokensTyped'
        /\ \A p \in Positions : Kind(p)' = Kind(p)
        /\ Positions' = Positions \cup {n}
        /\ Solid' = Solid /\ Closes' = Closes /\ Opens' = Opens
    BY <1>1, <1>2, AfterPut DEF Spaces
  <1>4. Starts' /\ Begun' /\ Ended'
    BY <1>2, <1>3 DEF IndexInv, Starts, Begun, Ended
  <1>5. Parted'
    <2> SUFFICES ASSUME NEW p \in Opens, NEW c \in Closes, c < p
                 PROVE  \/ \E q \in Positions' : c < q /\ q < p /\ Kind(q)' = "line"
                        \/ Kind(p - 1)' = "close"
      BY <1>3 DEF Parted
    <2>1. p - 1 \in Positions
      BY <1>2, PositionsAre DEF Positions
    <2> QED
      BY <1>3, <2>1 DEF IndexInv, Parted
  <1> QED
    BY <1>3, <1>4, <1>5 DEF IndexInv

\* What a record holds comes after its beginning, and does not end it.
LEMMA RecordGoesOn ==
    ASSUME MaxLength \in Nat, IndexInv, depth # 0,
           NEW k \in {"in", "out", "text"}, NEW d \in 1..2, Put(Token(k), d)
    PROVE  IndexInv'
  <1> DEFINE tok == Token(k)
             n == Len(layout) + 1
  <1>1. tok \in Tokens /\ tok.k = k
    BY DEF Tokens, Token
  <1>2. TokensTyped /\ d \in 0..2 /\ Put(tok, d) /\ depth' = d
    BY DEF IndexInv, Put
  <1> HIDE DEF tok
  <1>3. /\ TokensTyped'
        /\ Len(layout) \in Nat
        /\ \A p \in Positions : Kind(p)' = Kind(p)
        /\ Positions' = Positions \cup {n}
        /\ Solid' = Solid \cup {n} /\ Closes' = Closes /\ Opens' = Opens
    BY <1>1, <1>2, AfterPut DEF Spaces
  <1>4. \A p \in Solid \cup Closes \cup Opens : p \in Nat /\ p < n
    BY <1>2, <1>3, PositionsAre
  <1>5. Starts'
    BY <1>3, <1>4 DEF IndexInv, Starts
  <1>6. Begun' /\ Ended'
    <2>1. PICK p \in Opens : \A c \in Closes : c < p
      BY DEF IndexInv, Ended
    <2>2. 0 < p
      BY <1>2, PositionsAre
    <2> QED
      BY <1>2, <1>3, <1>4, <2>1, <2>2 DEF IndexInv, Begun, Ended
  <1>7. Parted'
    <2> SUFFICES ASSUME NEW p \in Opens, NEW c \in Closes, c < p
                 PROVE  \/ \E q \in Positions' : c < q /\ q < p /\ Kind(q)' = "line"
                        \/ Kind(p - 1)' = "close"
      BY <1>3 DEF Parted
    <2>1. p - 1 \in Positions
      BY <1>2, PositionsAre DEF Positions
    <2> QED
      BY <1>3, <2>1 DEF IndexInv, Parted
  <1> QED
    BY <1>3, <1>5, <1>6, <1>7 DEF IndexInv

\* A record ends: everything solid so far is in a record that has ended.
LEMMA RecordEnds ==
    ASSUME MaxLength \in Nat, IndexInv, EndRecord
    PROVE  IndexInv'
  <1> DEFINE tok == Token("close")
             n == Len(layout) + 1
  <1>1. tok \in Tokens /\ tok.k = "close"
    BY DEF Tokens, Token
  <1>2. TokensTyped /\ 0 \in 0..2 /\ Put(tok, 0) /\ depth = 1 /\ depth' = 0
    BY DEF IndexInv, EndRecord, Put
  <1> HIDE DEF tok
  <1>3. /\ TokensTyped'
        /\ Len(layout) \in Nat
        /\ \A p \in Positions : Kind(p)' = Kind(p)
        /\ Positions' = Positions \cup {n}
        /\ Solid' = Solid \cup {n} /\ Closes' = Closes \cup {n} /\ Opens' = Opens
    BY <1>1, <1>2, AfterPut DEF Spaces
  <1>4. \A p \in Solid \cup Closes \cup Opens : p \in Nat /\ p < n
    BY <1>2, <1>3, PositionsAre
  <1>5. Starts'
    BY <1>3, <1>4 DEF IndexInv, Starts
  <1>6. Begun' /\ Ended'
    <2>1. PICK p \in Opens : \A c \in Closes : c < p
      BY <1>2 DEF IndexInv, Ended
    <2>2. 0 < p
      BY <1>2, PositionsAre
    <2> QED
      BY <1>2, <1>3, <1>4, <2>1, <2>2 DEF IndexInv, Begun, Ended
  <1>7. Parted'
    <2> SUFFICES ASSUME NEW p \in Opens, NEW c \in Closes, c < p
                 PROVE  \/ \E q \in Positions' : c < q /\ q < p /\ Kind(q)' = "line"
                        \/ Kind(p - 1)' = "close"
      BY <1>3, <1>4 DEF Parted
    <2>1. p - 1 \in Positions
      BY <1>2, PositionsAre DEF Positions
    <2> QED
      BY <1>3, <2>1 DEF IndexInv, Parted
  <1> QED
    BY <1>3, <1>5, <1>6, <1>7 DEF IndexInv

\* A record begins after the end of the one before, next to it or on a line
\* of its own.
LEMMA RecordBegins ==
    ASSUME MaxLength \in Nat, ~BlankBetween, IndexInv, NEW id \in Ids, BeginRecord(id)
    PROVE  IndexInv'
  <1> DEFINE tok == Open(id)
             n == Len(layout) + 1
  <1>1. tok \in Tokens /\ tok.k = "open"
    BY DEF Tokens, Open
  <1>2. TokensTyped /\ 1 \in 0..2 /\ Put(tok, 1) /\ depth = 0 /\ depth' = 1
    BY DEF IndexInv, BeginRecord, Put
  <1> HIDE DEF tok
  <1>3. /\ TokensTyped'
        /\ Len(layout) \in Nat
        /\ \A p \in Positions : Kind(p)' = Kind(p)
        /\ Positions' = Positions \cup {n}
        /\ Solid' = Solid \cup {n} /\ Closes' = Closes /\ Opens' = Opens \cup {n}
    BY <1>1, <1>2, AfterPut DEF Spaces
  <1>4. \A p \in Solid \cup Closes \cup Opens : p \in Nat /\ p < n
    BY <1>2, <1>3, PositionsAre
  <1>5. Starts'
    BY <1>2, <1>3, <1>4 DEF IndexInv, Starts, Ended
  <1>6. Begun' /\ Ended'
    BY <1>2, <1>3, <1>4 DEF IndexInv, Begun, Ended
  <1>7. Parted'
    <2> SUFFICES ASSUME NEW p \in Opens \cup {n}, NEW c \in Closes, c < p
                 PROVE  \/ \E q \in Positions' : c < q /\ q < p /\ Kind(q)' = "line"
                        \/ Kind(p - 1)' = "close"
      BY <1>3 DEF Parted
    <2>1. CASE p \in Opens
      <3>1. p - 1 \in Positions
        BY <1>2, <2>1, PositionsAre DEF Positions
      <3> QED
        BY <1>3, <2>1, <3>1 DEF IndexInv, Parted
    <2>2. CASE p = n
      <3>1. c \in Positions /\ c \in Nat /\ c <= Len(layout) /\ 1 <= c
        BY <1>2, PositionsAre
      <3>2. n - 1 \in Positions /\ layout # <<>>
        BY <1>3, <3>1 DEF Positions
      <3>3. Kind(n - 1) \in {"close", "line", "blank"}
        <4>1. CASE n - 1 \in Solid
          <5>1. PICK e \in Closes : n - 1 <= e
            BY <1>2, <4>1 DEF IndexInv, Ended
          <5>2. e = n - 1
            BY <1>3, <1>4, <5>1
          <5> QED
            BY <5>1, <5>2 DEF Closes
        <4>2. CASE n - 1 \notin Solid
          BY <3>2, <4>2 DEF Solid, Spaces
        <4> QED
          BY <4>1, <4>2
      <3>4. CASE Kind(n - 1) = "close"
        BY <1>3, <2>2, <3>2, <3>4
      <3>5. CASE Kind(n - 1) = "line"
        <4>1. c # n - 1
          BY <3>5 DEF Closes
        <4> QED
          BY <1>3, <2>2, <3>1, <3>2, <3>5, <4>1
      <3>6. CASE Kind(n - 1) = "blank"
        <4>1. Last = "blank"
          BY <1>3, <3>2, <3>6 DEF Last, Kind
        <4>2. PICK q \in c..Len(layout) : Kind(q) = "line"
          BY <3>1, <4>1 DEF BeginRecord, Positions, Closes
        <4>3. q \in Positions /\ q # c
          BY <1>3, <3>1, <4>2 DEF Positions, Closes
        <4> QED
          BY <1>3, <2>2, <3>1, <4>2, <4>3
      <3> QED
        BY <3>3, <3>4, <3>5, <3>6
    <2> QED
      BY <2>1, <2>2
  <1> QED
    BY <1>3, <1>5, <1>6, <1>7 DEF IndexInv

LEMMA IndexStep ==
    ASSUME MaxLength \in Nat, ~BlankBetween, IndexInv, [IndexNext]_indexVars
    PROVE  IndexInv'
  <1>1. CASE \E id \in Ids : BeginRecord(id)
    BY <1>1, RecordBegins
  <1>2. CASE EndRecord
    BY <1>2, RecordEnds
  <1>3. CASE Nest
    BY <1>3, RecordGoesOn DEF Nest
  <1>4. CASE Unnest
    BY <1>4, RecordGoesOn DEF Unnest
  <1>5. CASE Text
    <2>1. depth \in 1..2 /\ depth # 0
      BY <1>5 DEF Text, IndexInv, TokensTyped, IndexTypeOK
    <2> QED
      BY <1>5, <2>1, RecordGoesOn DEF Text
  <1>6. CASE \E k \in Spaces : Space(k)
    BY <1>6, SpaceKeeps
  <1>7. CASE UNCHANGED indexVars
    <2>1. layout' = layout /\ depth' = depth
      BY <1>7 DEF indexVars
    <2>2. /\ \A p : Kind(p)' = Kind(p)
          /\ Positions' = Positions
      BY <2>1 DEF Kind, Positions
    <2>3. Solid' = Solid /\ Closes' = Closes /\ Opens' = Opens
      BY <2>2 DEF Solid, Closes, Opens
    <2> QED
      BY <2>1, <2>2, <2>3 DEF IndexInv, TokensTyped, IndexTypeOK, Starts, Begun, Ended, Parted
  <1> QED
    BY <1>1, <1>2, <1>3, <1>4, <1>5, <1>6, <1>7 DEF IndexNext

\* The least and the greatest of some positions.
LEMMA FirstIs ==
    ASSUME NEW S \in SUBSET Nat, NEW p \in S, \A q \in S : p <= q
    PROVE  Lowest(S) = p
  <1>1. \A q \in S : (\A r \in S : q <= r) => q = p
    OBVIOUS
  <1> QED
    BY <1>1 DEF Lowest

LEMMA FinalIs ==
    ASSUME NEW S \in SUBSET Nat, NEW p \in S, \A q \in S : p >= q
    PROVE  Highest(S) = p
  <1>1. \A q \in S : (\A r \in S : q >= r) => q = p
    OBVIOUS
  <1> QED
    BY <1>1 DEF Highest

LEMMA GreatestExists ==
    ASSUME NEW S \in SUBSET Nat, NEW b \in Nat, S # {}, \A y \in S : y <= b
    PROVE  \E x \in S : \A y \in S : y <= x
  <1> DEFINE T == {b - y : y \in S}
  <1>1. T \in SUBSET Nat /\ T # {}
    <2>1. \A y \in S : b - y \in Nat
      OBVIOUS
    <2> QED
      BY <2>1
  <1> HIDE DEF T
  <1>2. PICK m \in T : \A y \in T : m <= y
    BY <1>1, LeastExists
  <1> USE DEF T
  <1>3. PICK x \in S : m = b - x
    BY <1>2
  <1>4. \A y \in S : b - x <= b - y
    BY <1>2, <1>3
  <1> QED
    BY <1>4

LEMMA FirstOf ==
    ASSUME NEW S \in SUBSET Nat, S # {}
    PROVE  Lowest(S) \in S /\ \A q \in S : Lowest(S) <= q
  BY LeastExists, FirstIs

LEMMA FinalOf ==
    ASSUME NEW S \in SUBSET Nat, NEW b \in Nat, S # {}, \A y \in S : y <= b
    PROVE  Highest(S) \in S /\ \A q \in S : q <= Highest(S)
  <1>1. PICK x \in S : \A y \in S : y <= x
    BY GreatestExists
  <1> QED
    BY <1>1, FinalIs

LEMMA InsideIs ==
    ASSUME TokensTyped, NEW a \in Nat, NEW b \in 0..Len(layout)
    PROVE  /\ Inside(a, b) \in SUBSET Nat
           /\ \A p : p \in Inside(a, b) <=> p \in Solid /\ a < p /\ p <= b
  <1>1. Len(layout) \in Nat
    BY DEF TokensTyped
  <1> QED
    BY <1>1 DEF Inside, Solid, Positions

LEMMA IdsAreOpen ==
    ASSUME 0 \notin Ids, TokensTyped, NEW p \in Positions
    PROVE  /\ Kind(p) = "open" <=> layout[p].id \in Ids
           /\ Kind(p) # "open" => layout[p].id = 0
  <1>1. layout[p] \in Tokens
    BY DEF TokensTyped, Positions
  <1> QED
    BY <1>1, TokenKinds DEF Kind

LEMMA LinesAre ==
    ASSUME TokensTyped, NEW l \in Lines
    PROVE  /\ l[1] \in Nat /\ l[2] - 1 \in 0..Len(layout) /\ l[2] \in Nat
           /\ l[1] < l[2]
           /\ \A p \in Positions : Kind(p) = "line" => ~(l[1] < p /\ p < l[2])
  <1>1. Len(layout) \in Nat
    BY DEF TokensTyped
  <1>2. l[1] \in Breaks /\ l[2] \in Breaks
    BY DEF Lines
  <1>3. \A p \in Breaks : p \in 0..Len(layout) + 1
    BY <1>1 DEF Breaks
  <1>4. l[1] < l[2] /\ ~\E p \in Breaks : l[1] < p /\ p < l[2]
    BY DEF Lines
  <1> QED
    BY <1>1, <1>2, <1>3, <1>4 DEF Positions, Breaks

\* Every solid token is on a line.
LEMMA LineOf ==
    ASSUME TokensTyped, NEW p \in Solid
    PROVE  \E l \in Filled : p \in Inside(l[1], l[2] - 1)
  <1>1. Len(layout) \in Nat /\ p \in 1..Len(layout) /\ p \in Nat /\ Kind(p) # "line"
    BY DEF TokensTyped, Solid, Positions, Spaces
  <1>2. Breaks \subseteq 0..Len(layout) + 1 /\ p \notin Breaks
    BY <1>1 DEF Breaks
  <1> DEFINE Before == {b \in Breaks : b < p}
             After == {b \in Breaks : p < b}
  <1>3. 0 \in Before /\ Before \in SUBSET Nat /\ \A b \in Before : b <= p
    BY <1>1, <1>2 DEF Breaks
  <1>4. Len(layout) + 1 \in After /\ After \in SUBSET Nat
    BY <1>1, <1>2 DEF Breaks
  <1> HIDE DEF Before, After
  <1>5. PICK x \in Before : \A y \in Before : y <= x
    BY <1>1, <1>3, GreatestExists
  <1>6. PICK z \in After : \A y \in After : z <= y
    BY <1>4, LeastExists
  <1> USE DEF Before, After
  <1>7. x \in Breaks /\ z \in Breaks /\ x < p /\ p < z
    BY <1>5, <1>6
  <1>8. \A y \in Breaks : ~(x < y /\ y < z)
    BY <1>1, <1>2, <1>5, <1>6, <1>7
  <1> HIDE DEF Before, After
  <1> DEFINE l == <<x, z>>
  <1>9. l \in Lines
    BY <1>1, <1>2, <1>7, <1>8 DEF Lines
  <1>10. p \in Inside(l[1], l[2] - 1)
    BY <1>1, <1>2, <1>7, InsideIs
  <1> QED
    BY <1>9, <1>10 DEF Filled

\* If every line passes, each ends with the end of a record: what would follow
\* a nested object is the rest of its record, on a line that does not pass.
LEMMA LinesEndRecords ==
    ASSUME 0 \notin Ids, IndexInv, depth = 0, LineIndexComplete, NEW l \in Filled
    PROVE  Kind(Highest(Inside(l[1], l[2] - 1))) = "close"
  <1> DEFINE S == Inside(l[1], l[2] - 1)
             t == Highest(S)
  <1>1. TokensTyped /\ l \in Lines /\ S # {} /\ Clean(l)
    BY DEF IndexInv, LineIndexComplete, Filled
  <1>2. /\ S \in SUBSET Nat
        /\ \A p : p \in S <=> p \in Solid /\ l[1] < p /\ p <= l[2] - 1
    BY <1>1, LinesAre, InsideIs
  <1>3. t \in S /\ \A q \in S : q <= t
    <2>1. l[2] - 1 \in Nat
      BY <1>1, LinesAre
    <2> QED
      BY <1>1, <1>2, <2>1, FinalOf
  <1> HIDE DEF S, t
  <1>4. Kind(t) \in {"close", "out"}
    BY <1>1 DEF Clean, S, t
  <1>5. CASE Kind(t) = "out"
    <2> DEFINE Rest == {u \in Solid : t < u}
    <2>1. PICK c \in Closes : t <= c
      BY <1>2, <1>3 DEF IndexInv, Ended
    <2>2. c \in Rest
      BY <1>1, <1>2, <1>3, <1>5, <2>1, PositionsAre DEF Closes
    <2>3. Rest \in SUBSET Nat
      BY <1>1, PositionsAre
    <2> HIDE DEF Rest
    <2>4. PICK u \in Rest : \A r \in Rest : u <= r
      BY <2>2, <2>3, LeastExists
    <2> USE DEF Rest
    <2>5. u \in Solid /\ t < u /\ u \in Nat
      BY <2>3, <2>4
    <2>6. PICK m \in Filled : u \in Inside(m[1], m[2] - 1)
      BY <1>1, <2>5, LineOf
    <2> DEFINE M == Inside(m[1], m[2] - 1)
    <2>7. /\ m \in Lines /\ Clean(m)
          /\ M \in SUBSET Nat
          /\ \A p : p \in M <=> p \in Solid /\ m[1] < p /\ p <= m[2] - 1
      BY <1>1, LinesAre, InsideIs DEF LineIndexComplete, Filled
    <2>8. \A q \in M : u <= q
      <3> SUFFICES ASSUME NEW q \in M, q < u
                   PROVE  FALSE
        BY <2>5, <2>7
      <3>1. q \in Solid /\ q \in Nat /\ q <= t /\ t \in Nat
        BY <1>2, <1>3, <2>4, <2>5, <2>7
      <3>2. m[1] < t /\ t <= m[2] - 1
        BY <1>1, <2>5, <2>6, <2>7, <3>1, LinesAre
      <3>3. m[1] \in Breaks /\ m[2] \in Breaks /\ l[1] \in Breaks /\ l[2] \in Breaks
        BY <1>1, <2>7 DEF Lines
      <3>4. l[1] < t /\ t < l[2] /\ t < m[2]
        BY <1>1, <1>2, <1>3, <2>7, <3>2, LinesAre
      <3>5. ~(m[1] < l[2] /\ l[2] < m[2])
        BY <2>7, <3>3 DEF Lines
      <3>6. u <= l[2] - 1
        BY <1>1, <2>5, <2>6, <2>7, <3>1, <3>2, <3>4, <3>5, LinesAre
      <3>7. u \in S
        BY <1>1, <1>2, <2>5, <3>1, <3>4, <3>6, LinesAre
      <3> QED
        BY <1>2, <1>3, <2>5, <3>7
    <2>9. Lowest(M) = u
      BY <2>6, <2>7, <2>8, FirstIs
    <2>10. layout[u].id # 0
      BY <2>6, <2>7, <2>9 DEF Clean, IdAt
    <2>11. u \in Opens
      BY <1>1, <2>5, <2>10, IdsAreOpen DEF Opens, Solid
    <2>12. PICK e \in Closes : t <= e /\ e < u
      BY <1>2, <1>3, <2>5, <2>11 DEF IndexInv, Starts
    <2>13. e \in Rest
      BY <1>1, <1>2, <1>3, <1>5, <2>12, PositionsAre DEF Closes
    <2> QED
      BY <2>3, <2>4, <2>12, <2>13
  <1> QED
    BY <1>4, <1>5 DEF t, S

\* Then a line holds one record.
LEMMA LinesAreRecords ==
    ASSUME 0 \notin Ids, IndexInv, depth = 0, LineIndexComplete, NEW l \in Filled
    PROVE  Reads(<<IdAt(l[1], l[2] - 1), l[1], l[2] - 1>>)
  <1> DEFINE S == Inside(l[1], l[2] - 1)
             a == Lowest(S)
             t == Highest(S)
  <1>1. TokensTyped /\ l \in Lines /\ S # {} /\ Clean(l)
    BY DEF IndexInv, LineIndexComplete, Filled
  <1>2. /\ S \in SUBSET Nat
        /\ \A p : p \in S <=> p \in Solid /\ l[1] < p /\ p <= l[2] - 1
    BY <1>1, LinesAre, InsideIs
  <1>3. t \in S /\ \A q \in S : q <= t
    <2>1. l[2] - 1 \in Nat
      BY <1>1, LinesAre
    <2> QED
      BY <1>1, <1>2, <2>1, FinalOf
  <1>4. a \in S
    BY <1>1, <1>2, FirstOf
  <1>5. IdAt(l[1], l[2] - 1) = layout[a].id /\ layout[a].id # 0
    BY <1>1 DEF IdAt, Clean
  <1>6. a \in Positions
    BY <1>2, <1>4 DEF Solid
  <1>7. Kind(a) = "open"
    BY <1>1, <1>5, <1>6, IdsAreOpen
  <1>8. Kind(t) = "close"
    BY LinesEndRecords
  <1>9. ASSUME NEW p \in S, Kind(p) = "close"
        PROVE  p = t
    <2> SUFFICES ASSUME p < t
                 PROVE  FALSE
      BY <1>2, <1>3
    <2>1. p \in Closes /\ t \in Solid /\ p \in Positions
      BY <1>2, <1>3, <1>9 DEF Closes, Solid
    <2>2. PICK q \in Opens : p < q /\ q <= t
      BY <2>1 DEF IndexInv, Begun
    <2>3. q \in Nat /\ p \in Nat /\ t \in Nat /\ q \in Positions
      BY <1>1, <2>1, <2>2, PositionsAre
    <2>4. l[1] < p /\ t <= l[2] - 1
      BY <1>2, <1>3
    <2>5. l[1] \in Nat /\ l[2] \in Nat
      BY <1>1, LinesAre
    <2>6. ~\E x \in Positions : p < x /\ x < q /\ Kind(x) = "line"
      <3> SUFFICES ASSUME NEW x \in Positions, p < x, x < q, Kind(x) = "line"
                   PROVE  FALSE
        OBVIOUS
      <3>1. x \in Nat
        BY <1>1, PositionsAre
      <3>2. l[1] < x /\ x < l[2]
        BY <2>2, <2>3, <2>4, <2>5, <3>1
      <3> QED
        BY <1>1, <3>2, LinesAre
    <2>7. Kind(q - 1) = "close"
      BY <2>1, <2>2, <2>6 DEF IndexInv, Parted
    <2>8. q - 1 \in l[1] + 1 .. l[2] - 2
      BY <2>2, <2>3, <2>4, <2>5
    <2>9. Kind((q - 1) + 1) = "open"
      BY <2>2, <2>3 DEF Opens
    <2> QED
      BY <1>1, <2>7, <2>8, <2>9 DEF Clean, Adjacent
  <1> QED
    BY <1>5, <1>7, <1>8, <1>9 DEF Reads

\* What the JSON scan finds at a record's beginning is that record.
LEMMA ValuesAreRecords ==
    ASSUME 0 \notin Ids, IndexInv, depth = 0, NEW id \in Ids, Used(id)
    PROVE  \E r \in JsonIndex : r[1] = id /\ Reads(r)
  <1>1. TokensTyped /\ Len(layout) \in Nat
    BY DEF IndexInv, TokensTyped
  <1>2. PICK p \in Positions : layout[p] = Open(id)
    BY DEF Used, Positions
  <1>3. Kind(p) = "open" /\ layout[p].id = id
    BY <1>2 DEF Open, Kind
  <1>4. p \in Opens /\ p \in Solid /\ p \in Nat /\ 1 <= p /\ p <= Len(layout)
    BY <1>1, <1>3, PositionsAre DEF Opens, Solid, Spaces
  <1>5. ValueEnds = {0} \cup Closes
    BY DEF ValueEnds, Closes, Positions
  <1>6. \A e \in ValueEnds : e \in Nat /\ e <= Len(layout)
    BY <1>1, <1>5, PositionsAre
  <1> DEFINE Before == {e \in ValueEnds : e < p}
             After == {e \in Closes : p < e}
  <1>7. 0 \in Before /\ Before \in SUBSET Nat /\ \A e \in Before : e <= p
    <2>1. 0 \in ValueEnds /\ 0 < p
      BY <1>4, <1>5
    <2>2. \A e \in Before : e \in Nat /\ e <= p
      BY <1>4, <1>6
    <2> QED
      BY <2>1, <2>2
  <1>8. After # {} /\ After \in SUBSET Nat
    <2>1. PICK c \in Closes : p <= c
      BY <1>4 DEF IndexInv, Ended
    <2>2. c # p /\ c \in Nat
      BY <1>1, <1>3, <2>1, PositionsAre DEF Closes
    <2>3. c \in After
      BY <1>4, <2>1, <2>2
    <2>4. \A e \in After : e \in Nat
      BY <1>1, PositionsAre
    <2> QED
      BY <2>3, <2>4
  <1> HIDE DEF Before, After
  <1>9. PICK x \in Before : \A y \in Before : y <= x
    BY <1>4, <1>7, GreatestExists
  <1>10. PICK z \in After : \A y \in After : z <= y
    BY <1>8, LeastExists
  <1> USE DEF Before, After
  <1>11. x \in ValueEnds /\ z \in Closes /\ z \in ValueEnds /\ x < p /\ p < z
    BY <1>5, <1>9, <1>10
  <1>12. x \in Nat /\ z \in Nat /\ z \in 0..Len(layout)
    BY <1>6, <1>11
  <1>13. p \notin ValueEnds
    BY <1>3, <1>4, <1>5 DEF Closes
  <1>14. \A y \in ValueEnds : ~(x < y /\ y < z)
    <2> SUFFICES ASSUME NEW y \in ValueEnds, x < y, y < z
                 PROVE  FALSE
      OBVIOUS
    <2>1. y \in Nat /\ y # p
      BY <1>6, <1>13
    <2>2. CASE y < p
      BY <1>9, <1>12, <2>1, <2>2
    <2>3. CASE p < y
      BY <1>4, <1>5, <1>10, <1>12, <2>1, <2>3
    <2> QED
      BY <1>4, <2>1, <2>2, <2>3
  <1> HIDE DEF Before, After
  <1> DEFINE S == Inside(x, z)
             r == <<IdAt(x, z), x, z>>
  <1>15. r \in JsonIndex
    <2> DEFINE e == <<x, z>>
    <2>1. e \in ValueEnds \X ValueEnds /\ e[1] < e[2] /\ ~\E y \in ValueEnds : e[1] < y /\ y < e[2]
      <3>1. e[1] = x /\ e[2] = z /\ e \in ValueEnds \X ValueEnds
        BY <1>11
      <3>2. x < z
        BY <1>4, <1>11, <1>12
      <3> QED
        BY <1>14, <3>1, <3>2
    <2>2. r = <<IdAt(e[1], e[2]), e[1], e[2]>>
      OBVIOUS
    <2> HIDE DEF e, r
    <2> QED
      BY <2>1, <2>2 DEF JsonIndex
  <1>16. S \in SUBSET Nat /\ \A q : q \in S <=> q \in Solid /\ x < q /\ q <= z
    BY <1>1, <1>12, InsideIs
  <1>17. p \in S /\ z \in S
    <2>1. z \in Solid
      BY <1>1, <1>11, PositionsAre
    <2> QED
      BY <1>4, <1>11, <1>12, <1>16, <2>1
  <1> HIDE DEF S
  <1>18. Lowest(S) = p
    <2>1. \A q \in S : p <= q
      <3> SUFFICES ASSUME NEW q \in S, q < p
                   PROVE  FALSE
        BY <1>4, <1>16
      <3>1. PICK c \in Closes : q <= c /\ c < p
        BY <1>4, <1>16 DEF IndexInv, Starts
      <3>2. c \in ValueEnds /\ x < c /\ c < z
        BY <1>4, <1>5, <1>6, <1>11, <1>12, <1>16, <3>1
      <3> QED
        BY <1>14, <3>2
    <2> QED
      BY <1>16, <1>17, <2>1, FirstIs
  <1>19. Highest(S) = z
    <2>1. \A q \in S : z >= q
      BY <1>12, <1>16
    <2> QED
      BY <1>16, <1>17, <2>1, FinalIs
  <1>20. IdAt(x, z) = id
    BY <1>3, <1>17, <1>18 DEF IdAt, S
  <1>21. ASSUME NEW q \in S, Kind(q) = "close"
         PROVE  q = z
    <2>1. q \in ValueEnds /\ x < q /\ q <= z
      BY <1>5, <1>16, <1>21 DEF Closes, Solid
    <2> QED
      BY <1>6, <1>12, <1>14, <2>1
  <1>22. Kind(z) = "close"
    BY <1>11 DEF Closes
  <1>23. Reads(r)
    BY <1>3, <1>18, <1>19, <1>20, <1>21, <1>22 DEF Reads, S
  <1> QED
    BY <1>15, <1>20, <1>23

LEMMA IndexReads ==
    ASSUME 0 \notin Ids, IndexInv
    PROVE  RecordsSound
  <1>1. IndexTypeOK
    BY DEF IndexInv, TokensTyped
  <1>2. ASSUME depth = 0, NEW required \in SUBSET {id \in Ids : Used(id)}, NEW id \in required
        PROVE  \E r \in BuildIndex(required) : r[1] = id /\ Reads(r)
    <2>1. CASE LineIndexComplete /\ Covers(LineIndex, required)
      <3>1. PICK r \in LineIndex : r[1] = id
        BY <1>2, <2>1 DEF Covers
      <3>2. PICK l \in Filled : r = <<IdAt(l[1], l[2] - 1), l[1], l[2] - 1>>
        BY <3>1 DEF LineIndex
      <3>3. Reads(r)
        BY <1>2, <2>1, <3>2, LinesAreRecords
      <3> QED
        BY <2>1, <3>1, <3>3 DEF BuildIndex
    <2>2. CASE ~(LineIndexComplete /\ Covers(LineIndex, required))
      <3>1. BuildIndex(required) = JsonIndex
        BY <2>2 DEF BuildIndex
      <3>2. id \in Ids /\ Used(id)
        BY <1>2
      <3> QED
        BY <1>2, <3>1, <3>2, ValuesAreRecords
    <2> QED
      BY <2>1, <2>2
  <1> QED
    BY <1>1, <1>2 DEF RecordsSound, DrawsAreRead

(* However the records are laid out, on a line each, on one or over several,
   an index of the file leads from every id to its own whole record, whichever
   way build_index takes (math_engine.rs:1003).  A record on the line of
   another has no blank before it, for there the code loses it. *)
THEOREM RecordsAreRead ==
    ASSUME ~BlankBetween
    PROVE  IndexSpec => []RecordsSound
  <1>1. IndexInit => IndexInv
    BY IndexAssumption, IndexStarts
  <1>2. IndexInv /\ [IndexNext]_indexVars => IndexInv'
    BY IndexAssumption, IndexStep
  <1>3. IndexInv => RecordsSound
    BY IndexAssumption, IndexReads
  <1> QED
    BY <1>1, <1>2, <1>3, PTL DEF IndexSpec

=============================================================================
