---------------------------- MODULE Materializer ----------------------------
(***************************************************************************)
(* The disk cache of the hosted game server: revisions materialized from    *)
(* the object store into one directory each, completed by a marker written  *)
(* last, reused while the marker is there, evicted least recently used      *)
(* first (crates/server/src/lgs_host/materialize.rs).                       *)
(*                                                                          *)
(* Every await and every file operation of `ensure` is a step; so is the    *)
(* unlinking of each entry by remove_dir_all, which the eviction, the wipe  *)
(* of a partial directory and the deletion of a revision call without a     *)
(* common lock.  A directory is named by the game and the revision's        *)
(* number, which is given out again once the head is deleted: a file on     *)
(* disk is known by the revision whose bytes it has.                        *)
(***************************************************************************)
EXTENDS Integers, Sequences, FiniteSets

CONSTANTS
    Tasks,        \* requests under way
    Dirs,         \* number directories
    Parts,        \* the files of a revision, one unit each
    Budget,       \* SERVER_MATH_CACHE_BYTES
    MaxRequests,  \* bound: requests and deletions
    MaxPushes,    \* bound: revisions pushed under a number that was deleted
    MaxCrashes    \* bound: restarts of the server

ASSUME MaterializerAssumption ==
    /\ Budget \in Nat /\ MaxRequests \in Nat /\ MaxPushes \in Nat /\ MaxCrashes \in Nat
    /\ IsFiniteSet(Parts) /\ "marker" \notin Parts
    /\ "nowhere" \notin Dirs /\ "nobody" \notin Tasks

VARIABLES
    rows,       \* revisions table: the revision that has the number, 0: none
    made,       \* directories that exist
    marked,     \* directories with a `.complete` marker
    parts,      \* files in each directory: the revision they belong to, 0: absent
    older,      \* mtimes: the directories whose marker is older than that of each
    lock,       \* the task that holds the directory's mutex
    task,       \* what each task is doing
    disturbed,  \* history: a removal of the directory met another use of it, or
                \* was given up, or a client left in the middle of its work
    lapsed,     \* history: an eviction has failed or been cut short
    count       \* requests, pushes and crashes so far

disk == <<made, marked, parts, older>>
history == <<disturbed, lapsed, count>>
vars == <<rows, disk, lock, task, history>>

nobody == "nobody"
nowhere == "nowhere"

\* left: files still to fetch, or entries still to unlink.  victims: the
\* directories the eviction has still to look at, victim: the one it removes.
\* counted: the files it has counted, by directory, and has not removed since;
\* the code's total is their number.
Idle == [pc |-> "idle", dir |-> nowhere, rev |-> 0, left |-> {},
         victims |-> <<>>, victim |-> nowhere, counted |-> {}]

Init ==
    /\ rows = [d \in Dirs |-> 1]
    /\ made = {} /\ marked = {}
    /\ parts = [d \in Dirs |-> [f \in Parts |-> 0]]
    /\ older = [d \in Dirs |-> {}]
    /\ lock = [d \in Dirs |-> nobody]
    /\ task = [t \in Tasks |-> Idle]
    /\ disturbed = {} /\ lapsed = FALSE
    /\ count = [requests |-> 0, pushes |-> 0, crashes |-> 0]

-----------------------------------------------------------------------------

At(t, step) == task[t].pc = step

Goto(t, step) == task' = [task EXCEPT ![t].pc = step]

\* Somebody else works on d.
InUse(t, d) == \E u \in Tasks \ {t} : d \in {task[u].dir, task[u].victim}

\* d is being evicted, or its revision has been deleted and it goes next.
BeingRemoved(d) ==
    \E t \in Tasks :
        \/ task[t].victim = d
        \/ task[t].dir = d /\ task[t].pc \in {"delete", "delete_dir"}

Disturb(d, met) == disturbed' = IF met THEN disturbed \union {d} ELSE disturbed

\* The files of some directories.
FilesOf(ds) == {u \in ds \X Parts : parts[u[1]][u[2]] # 0}

Entries(d) == {f \in Parts : parts[d][f] # 0} \union (IF d \in marked THEN {"marker"} ELSE {})

Complete(d, r) == \A f \in Parts : parts[d][f] = r

\* fs::write: the marker is created if it is gone, its directory is not.
WriteMarker(d) ==
    /\ marked' = marked \union ({d} \intersect made)
    /\ older' = IF d \in made
                THEN [e \in Dirs |-> IF e = d THEN Dirs \ {d} ELSE older[e] \ {d}]
                ELSE older

-----------------------------------------------------------------------------
(* ensure                                                                   *)

\* The revision is resolved by dispatch.
Request(t, d) ==
    /\ At(t, "idle")
    /\ count.requests < MaxRequests
    /\ rows[d] # 0
    /\ count' = [count EXCEPT !.requests = @ + 1]
    /\ task' = [task EXCEPT ![t] = [Idle EXCEPT !.pc = "look", !.dir = d, !.rev = rows[d]]]
    /\ Disturb(d, BeingRemoved(d))
    /\ UNCHANGED <<rows, disk, lock, lapsed>>

\* The fast path.
Look(t) ==
    /\ At(t, "look")
    /\ Goto(t, IF task[t].dir \in marked THEN "touch" ELSE "lock")
    /\ UNCHANGED <<rows, disk, lock, history>>

Touch(t) ==
    /\ At(t, "touch")
    /\ WriteMarker(task[t].dir)
    /\ Goto(t, "serve")
    /\ UNCHANGED <<rows, made, parts, lock, history>>

Lock(t) ==
    /\ At(t, "lock")
    /\ lock[task[t].dir] = nobody
    /\ lock' = [lock EXCEPT ![task[t].dir] = t]
    /\ Goto(t, "relook")
    /\ UNCHANGED <<rows, disk, history>>

\* Mutant of Finished: no second look under the lock.
FinishedNever(d) == FALSE

\* "another task may have just finished"
Finished(d) == d \in marked

\* Under the lock: look again, then wipe what a crash has left.
Relook(t) ==
    LET d == task[t].dir
    IN  /\ At(t, "relook")
        /\ task' = [task EXCEPT
              ![t].pc = IF Finished(d) THEN "touch" ELSE IF d \in made THEN "wipe" ELSE "create",
              ![t].left = IF Finished(d) THEN {} ELSE Entries(d)]
        /\ UNCHANGED <<rows, disk, lock, history>>

\* Mutant of Create: the marker is written first.
CreateMarked(t) ==
    /\ At(t, "create")
    /\ made' = made \union {task[t].dir}
    /\ marked' = marked \union {task[t].dir}
    /\ Goto(t, "manifest")
    /\ UNCHANGED <<rows, parts, older, lock, history>>

Create(t) ==
    /\ At(t, "create")
    /\ made' = made \union {task[t].dir}
    /\ Goto(t, "manifest")
    /\ UNCHANGED <<rows, marked, parts, older, lock, history>>

\* The files of a revision go with its row; without any, ensure fails.
ReadManifest(t) ==
    /\ At(t, "manifest")
    /\ rows[task[t].dir] = task[t].rev
    /\ task' = [task EXCEPT ![t].pc = "fetch", ![t].left = Parts]
    /\ UNCHANGED <<rows, disk, lock, history>>

\* create_dir_all of the parent, then stream_verify.
Fetch(t) ==
    LET d == task[t].dir
    IN  /\ At(t, "fetch")
        /\ \E f \in task[t].left :
             /\ parts' = [parts EXCEPT ![d][f] = task[t].rev]
             /\ task' = [task EXCEPT ![t].left = @ \ {f},
                                     ![t].pc = IF task[t].left = {f} THEN "mark" ELSE @]
        /\ made' = made \union {d}
        /\ UNCHANGED <<rows, marked, older, lock, history>>

\* "Marker last"
Mark(t) ==
    /\ At(t, "mark")
    /\ task[t].dir \in made
    /\ WriteMarker(task[t].dir)
    /\ Goto(t, "scan")
    /\ UNCHANGED <<rows, made, parts, lock, history>>

Release(t) ==
    /\ lock' = [d \in Dirs |-> IF lock[d] = t THEN nobody ELSE lock[d]]
    /\ task' = [task EXCEPT ![t] = Idle]

\* The revision is gone, the store fails, the bytes are not those of the hash,
\* the disk is full, or the directory was removed.
EnsureFails(t) ==
    /\ task[t].pc \in {"manifest", "fetch", "mark"}
    /\ Release(t)
    /\ UNCHANGED <<rows, disk, history>>

Serve(t) ==
    /\ At(t, "serve")
    /\ Release(t)
    /\ UNCHANGED <<rows, disk, history>>

\* The handler is dropped with its guard.  A file operation that it had under
\* way may still happen, whoever has the lock then; so does a whole eviction.
ClientLeaves(t) ==
    LET d == task[t].dir
    IN  /\ ~At(t, "idle") /\ ~At(t, "delete_dir")
        /\ IF task[t].pc \in {"scan", "evict", "evict_dir"}
           THEN /\ lock[d] = t /\ lock' = [lock EXCEPT ![d] = nobody]
                /\ UNCHANGED <<task, disturbed>>
           ELSE /\ Release(t)
                /\ Disturb(d, task[t].pc \in {"touch", "wipe", "create", "fetch", "mark", "delete"})
        /\ UNCHANGED <<rows, disk, lapsed, count>>

-----------------------------------------------------------------------------
(* remove_dir_all, entry by entry.                                          *)

Removes(t) == task[t].pc \in {"wipe", "evict_dir", "delete_dir"}

Target(t) == IF At(t, "evict_dir") THEN task[t].victim ELSE task[t].dir

Unlink(t) ==
    LET d == Target(t)
    IN  /\ Removes(t)
        /\ \E e \in task[t].left :
             /\ task' = [task EXCEPT ![t].left = @ \ {e}]
             /\ marked' = IF e = "marker" THEN marked \ {d} ELSE marked
             /\ parts' = IF e = "marker" THEN parts ELSE [parts EXCEPT ![d][e] = 0]
        /\ UNCHANGED <<rows, made, older, lock, history>>

\* rmdir fails when an entry has appeared since the directory was listed.
RemoveDirectory(t) ==
    LET d == Target(t)
        empty == Entries(d) = {}
    IN  /\ Removes(t) /\ task[t].left = {}
        /\ made' = IF empty THEN made \ {d} ELSE made
        /\ lapsed' = (lapsed \/ (At(t, "evict_dir") /\ ~empty))
        /\ \/ At(t, "wipe") /\ Goto(t, "create")
           \/ At(t, "delete_dir") /\ task' = [task EXCEPT ![t] = Idle]
           \/ /\ At(t, "evict_dir")
              /\ task' = [task EXCEPT
                    ![t].pc = "evict", ![t].victim = nowhere,
                    ![t].counted = IF empty /\ d \in made THEN {u \in @ : u[1] # d} ELSE @]
        /\ UNCHANGED <<rows, marked, parts, older, lock, disturbed, count>>

-----------------------------------------------------------------------------
(* evict_blocking                                                           *)

\* Mutant of Counted: what has just been written is not counted.
CountedOthers(t) == marked \ {task[t].dir}

Counted(t) == marked

\* The lists of some directories, least recently used first: there is one.
OldestFirst(ds) ==
    {s \in [1 .. Cardinality(ds) -> ds] :
        /\ \A d \in ds : \E i \in DOMAIN s : s[i] = d
        /\ \A i, j \in DOMAIN s : i < j => s[i] \in older[s[j]]}

\* scan_completed.
Scan(t) ==
    /\ At(t, "scan")
    /\ \E victims \in OldestFirst(Counted(t)) :
         task' = [task EXCEPT ![t].pc = "evict", ![t].victims = victims,
                              ![t].counted = FilesOf(Counted(t))]
    /\ UNCHANGED <<rows, disk, lock, history>>

EvictNext(t) ==
    LET victims == task[t].victims
        d == Head(victims)
    IN  /\ At(t, "evict")
        /\ IF Cardinality(task[t].counted) <= Budget \/ victims = <<>>
           THEN Goto(t, "serve") /\ UNCHANGED disturbed
           ELSE IF d = task[t].dir
           THEN task' = [task EXCEPT ![t].victims = Tail(victims)] /\ UNCHANGED disturbed
           ELSE /\ task' = [task EXCEPT ![t].pc = "evict_dir", ![t].left = Entries(d),
                                        ![t].victims = Tail(victims), ![t].victim = d]
                /\ Disturb(d, InUse(t, d))
        /\ UNCHANGED <<rows, disk, lock, lapsed, count>>

-----------------------------------------------------------------------------
(* What happens to revisions and to the server meanwhile.                   *)

\* delete_revision: the row, then, once that is committed, the directory.
DeleteRevision(t, d) ==
    /\ At(t, "idle")
    /\ count.requests < MaxRequests
    /\ rows[d] # 0
    /\ rows' = [rows EXCEPT ![d] = 0]
    /\ count' = [count EXCEPT !.requests = @ + 1]
    /\ task' = [task EXCEPT ![t] = [Idle EXCEPT !.pc = "delete", !.dir = d]]
    /\ Disturb(d, InUse(t, d))
    /\ UNCHANGED <<disk, lock, lapsed>>

DeleteCacheDir(t) ==
    /\ At(t, "delete")
    /\ task' = [task EXCEPT ![t].pc = "delete_dir", ![t].left = Entries(task[t].dir)]
    /\ UNCHANGED <<rows, disk, lock, history>>

\* The number of a deleted head is given out again.
PushRevision(d) ==
    /\ rows[d] = 0
    /\ count.pushes < MaxPushes
    /\ count' = [count EXCEPT !.pushes = @ + 1]
    /\ rows' = [rows EXCEPT ![d] = count.pushes + 2]
    /\ Disturb(d, BeingRemoved(d))
    /\ UNCHANGED <<disk, lock, task, lapsed>>

\* The server stops and starts again: only what is on disk is left.
Crash ==
    /\ \E t \in Tasks : ~At(t, "idle")
    /\ count.crashes < MaxCrashes
    /\ count' = [count EXCEPT !.crashes = @ + 1]
    /\ disturbed' = disturbed \union {d \in Dirs : BeingRemoved(d)}
    /\ lapsed' = (lapsed \/ \E t \in Tasks : task[t].pc \in {"scan", "evict", "evict_dir"})
    /\ lock' = [d \in Dirs |-> nobody]
    /\ task' = [t \in Tasks |-> Idle]
    /\ UNCHANGED <<rows, disk>>

-----------------------------------------------------------------------------

Next ==
    \/ \E t \in Tasks :
         \/ Look(t) \/ Touch(t) \/ Lock(t) \/ Relook(t) \/ Create(t) \/ ReadManifest(t)
         \/ Fetch(t) \/ Mark(t) \/ EnsureFails(t) \/ Serve(t) \/ ClientLeaves(t)
         \/ Unlink(t) \/ RemoveDirectory(t) \/ Scan(t) \/ EvictNext(t) \/ DeleteCacheDir(t)
         \/ \E d \in Dirs : Request(t, d) \/ DeleteRevision(t, d)
    \/ \E d \in Dirs : PushRevision(d)
    \/ Crash

Spec == Init /\ [][Next]_vars

-----------------------------------------------------------------------------

\* A marker is older than another that was written later.
MarkersOrdered ==
    /\ older \in [Dirs -> SUBSET Dirs]
    /\ \A d, e \in Dirs : d \in older[e] => e \notin older[d]
    /\ \A c, d, e \in Dirs : c \in older[d] /\ d \in older[e] => c \in older[e]
    /\ \A d, e \in marked : d = e \/ d \in older[e] \/ e \in older[d]

TypeOK ==
    /\ made \subseteq Dirs /\ marked \subseteq made
    /\ FilesOf(Dirs \ made) = {}
    /\ parts \in [Dirs -> [Parts -> 0 .. MaxPushes + 1]]
    /\ rows \in [Dirs -> 0 .. MaxPushes + 1]
    /\ MarkersOrdered
    /\ lock \in [Dirs -> Tasks \union {nobody}]
    /\ \A t \in Tasks :
         /\ DOMAIN task[t] = DOMAIN Idle
         /\ task[t].dir \in Dirs \union {nowhere} /\ task[t].rev \in 0 .. MaxPushes + 1
         /\ task[t].left \subseteq Parts \union {"marker"}
         /\ task[t].counted \subseteq Dirs \X Parts
    /\ disturbed \subseteq Dirs /\ lapsed \in BOOLEAN

\* "Its presence short-circuits re-materialization": a directory with a marker
\* has every file of the revision that has its number, whatever crashed or
\* failed while it was built.
MarkedComplete ==
    \A d \in marked \ disturbed :
        BeingRemoved(d) \/ rows[d] = 0 \/ Complete(d, rows[d])

\* A request is answered from the files of the revision it asked for.
ServesRevision ==
    [][\A t \in Tasks : Serve(t) /\ task[t].dir \notin disturbed =>
          task[t].dir \in marked /\ Complete(task[t].dir, task[t].rev)]_vars

\* "concurrent first requests download exactly once": no request takes the
\* marker off a directory another one has completed.
NeverUndone ==
    [][\A d \in Dirs \ disturbed : d \in marked /\ d \notin marked' => BeingRemoved(d)]_vars

\* Between requests, the completed directories fit the budget, or there is one.
BudgetHeld ==
    (\A t \in Tasks : At(t, "idle")) /\ ~lapsed =>
        LET kept == marked \ disturbed
        IN  Cardinality(FilesOf(kept)) <= Budget \/ Cardinality(kept) = 1

\* The directories are of their type, whole where they bear the marker, and fit
\* the budget between requests (ensure, evict_blocking).
DirectoriesSound == TypeOK /\ MarkedComplete /\ BudgetHeld

=============================================================================
