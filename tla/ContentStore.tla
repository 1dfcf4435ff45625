----------------------------- MODULE ContentStore -----------------------------
(***************************************************************************)
(* The content of one game in the cloud server: math revisions and front   *)
(* bundles made of content-addressed blobs, the share links that pin them, *)
(* and the collection of blobs nothing refers to any more                  *)
(* (crates/server/src/api/math.rs, api/shares.rs, blobs.rs).               *)
(*                                                                         *)
(* A blob is a row in Postgres and an object in the store.  Requests run   *)
(* concurrently, as statements (READ COMMITTED: each sees what is committed *)
(* and its own transaction's changes) and object-store calls.  What a      *)
(* transaction has written is staged in tx until it commits; rows it is    *)
(* deleting make others wait.  A push locks the game row FOR UPDATE; the   *)
(* foreign keys of bundles and links lock it FOR KEY SHARE.                *)
(***************************************************************************)
EXTENDS Integers, FiniteSets, FiniteSetsExt

CONSTANTS
    Clients,     \* requests under way at a time
    Hashes,      \* blobs, one unit of storage each
    Manifests,   \* file sets a client pushes
    Links,       \* slugs of share links
    Kinds,       \* the endpoints clients call
    Keep,        \* revisions and bundles the plan keeps; 0: all
    Quota,       \* the plan's storage
    MaxCalls     \* bound: requests

ASSUME ContentAssumption ==
    /\ Manifests \subseteq SUBSET Hashes
    /\ Keep \in Nat /\ Quota \in Nat /\ MaxCalls \in Nat

VARIABLES
    objects,     \* object store: keys that have bytes
    blobs,       \* blobs table
    revs,        \* revisions and revision_files, by number
    bundles,     \* front_bundles, by created_at
    links,       \* share_links
    clock,       \* ids and transaction start times given out
    pc,          \* the step each request is at
    req,         \* the request, and the row ids it has read
    tx,          \* what its transaction has written
    todo,        \* objects it has still to delete
    overlapped,  \* history: two requests have been under way at once
    removed,     \* history: some content has been removed
    abandoned,   \* history: objects whose removal failed or was never reached
    calls        \* requests so far

database == <<blobs, revs, bundles, links>>
request == <<req, tx, todo>>
history == <<overlapped, removed, abandoned, calls>>
vars == <<objects, database, clock, pc, request, history>>

Steps == {"idle", "put_store", "put_check", "put_undo", "put_record",
          "rev_lock", "rev_write", "bundle_begin", "bundle_write",
          "delete_revision", "delete_bundle", "share_insert", "share_update",
          "commit", "delete_objects"}

\* target: a revision number, or the parent of a push; 0 is none.  A bundle of
\* 0 is none.
NoRequest == [kind |-> "none", files |-> {}, target |-> 0, bundle |-> 0, link |-> "none"]

\* number and id: the revision or bundle inserted.
NoTx == [number |-> 0, id |-> 0, gone |-> {}, stale |-> {}, unpin |-> {}, doomed |-> {}]

\* A pin of 0 tracks the latest.
NoLink == [live |-> FALSE, rev |-> 0, bundle |-> 0]

Init ==
    /\ objects = {} /\ blobs = {}
    /\ revs = [n \in {} |-> {}] /\ bundles = [b \in {} |-> {}]
    /\ links = [l \in Links |-> NoLink]
    /\ clock = 0
    /\ pc = [p \in Clients |-> "idle"]
    /\ req = [p \in Clients |-> NoRequest]
    /\ tx = [p \in Clients |-> NoTx]
    /\ todo = [p \in Clients |-> {}]
    /\ overlapped = FALSE /\ removed = FALSE /\ abandoned = {}
    /\ calls = 0

Numbers == DOMAIN revs
Bundles == DOMAIN bundles

\* COALESCE(MAX(number), 0)
Head == Max({0} \union Numbers)

-----------------------------------------------------------------------------
(* Steps the handlers are made of.  A request that an early return refuses *)
(* changes nothing, so it is no step.                                      *)

Goto(p, step) == pc' = [pc EXCEPT ![p] = step]

Busy(p) == pc[p] # "idle"

Receive(p, r, step) ==
    /\ ~Busy(p)
    /\ r.kind \in Kinds
    /\ calls < MaxCalls
    /\ calls' = calls + 1
    /\ overlapped' = (overlapped \/ \E q \in Clients : Busy(q))
    /\ req' = [req EXCEPT ![p] = r]
    /\ Goto(p, step)
    /\ UNCHANGED <<objects, database, clock, tx, todo, removed, abandoned>>

\* The request is answered.
Finish(p) ==
    /\ Goto(p, "idle")
    /\ req' = [req EXCEPT ![p] = NoRequest]
    /\ tx' = [tx EXCEPT ![p] = NoTx]
    /\ todo' = [todo EXCEPT ![p] = {}]

\* The requests p may have to wait for: they have written and not committed.
Writers(p) == {q \in Clients \ {p} : pc[q] = "commit"}

\* The game row is locked by a push ...
GameLocked(p) ==
    \E q \in Clients \ {p} : req[q].kind = "push" /\ pc[q] \in {"rev_write", "commit"}

\* ... or by the foreign key of a bundle being inserted.
GameShared(p) == \E q \in Writers(p) : req[q].kind = "bundle"

\* The blobs that the content of the game refers to once t has committed.
Referenced(files, t) ==
    (IF t.id \in t.stale THEN {} ELSE files)
        \union (UNION {revs[n].files : n \in Numbers \ t.gone})
        \union (UNION {bundles[b] : b \in Bundles \ t.stale})

\* Mutant of Orphans: the manifests of the front bundles are not looked at.
OrphansOfRevisions(files, t) ==
    blobs \ (files \union UNION {revs[n].files : n \in Numbers \ t.gone})

\* gc_orphaned_blobs
Orphans(files, t) == blobs \ Referenced(files, t)

\* The last statements of a transaction: what it removes must not be under
\* removal by another one, whose row locks it waits for.
Write(p, t, collects) ==
    LET written == [t EXCEPT !.doomed = IF collects THEN Orphans(req[p].files, t) ELSE {}]
    IN  /\ \A q \in Writers(p) :
             /\ tx[q].gone \intersect written.gone = {}
             /\ tx[q].stale \intersect written.stale = {}
             /\ tx[q].doomed \intersect written.doomed = {}
        /\ tx' = [tx EXCEPT ![p] = written]
        /\ Goto(p, "commit")
        /\ UNCHANGED <<objects, database, clock, req, todo, history>>

Commit(p) ==
    LET t == tx[p]
    IN  /\ pc[p] = "commit"
        /\ blobs' = blobs \ t.doomed
        /\ revs' = [n \in (Numbers \ t.gone) \union ({t.number} \ {0}) |->
                       IF n = t.number THEN [id |-> t.id, files |-> req[p].files]
                                       ELSE revs[n]]
        /\ bundles' = [b \in (IF req[p].kind = "bundle" THEN Bundles \union {t.id}
                                                        ELSE Bundles) \ t.stale |->
                          IF b = t.id THEN req[p].files ELSE bundles[b]]
        /\ links' = [l \in Links |->
                        [links[l] EXCEPT !.rev = IF l \in t.unpin THEN 0 ELSE @,
                                         !.bundle = IF @ \in t.stale THEN 0 ELSE @]]
        /\ removed' = (removed \/ t.gone \union t.stale \union t.doomed # {})
        /\ IF t.doomed = {}
           THEN Finish(p)
           ELSE /\ Goto(p, "delete_objects")
                /\ todo' = [todo EXCEPT ![p] = t.doomed]
                /\ tx' = [tx EXCEPT ![p] = NoTx]
                /\ req' = [req EXCEPT ![p] = NoRequest]
        /\ UNCHANGED <<objects, clock, overlapped, abandoned, calls>>

\* Best-effort: a delete of the store that fails is only logged.
Remove(keys) ==
    \/ objects' = objects \ keys /\ UNCHANGED abandoned
    \/ abandoned' = abandoned \union keys /\ UNCHANGED objects

\* delete_blob_objects, after the commit
DeleteObject(p) ==
    /\ pc[p] = "delete_objects"
    /\ \E h \in todo[p] :
         /\ Remove({h})
         /\ IF todo[p] = {h}
            THEN Finish(p)
            ELSE todo' = [todo EXCEPT ![p] = @ \ {h}] /\ UNCHANGED <<pc, req, tx>>
    /\ UNCHANGED <<database, clock, overlapped, removed, calls>>

\* The objects only this request knows of.
Holding(p) ==
    IF pc[p] \in {"put_check", "put_undo", "put_record"} THEN req[p].files ELSE todo[p]

\* The handler is dropped at one of its awaits: its client has gone, a
\* statement or a store call has failed, or the server has stopped.  A
\* transaction under way is rolled back.
Fail(p) ==
    /\ Busy(p)
    /\ abandoned' = abandoned \union Holding(p)
    /\ Finish(p)
    /\ UNCHANGED <<objects, database, clock, overlapped, removed, calls>>

-----------------------------------------------------------------------------
(* PUT blobs/:hash.  The declared length is optional, so the quota may only *)
(* be checked once the bytes are in the store.                              *)

PutBlob(p, h) ==
    /\ h \notin blobs
    /\ Receive(p, [NoRequest EXCEPT !.kind = "put", !.files = {h}], "put_store")

PutStore(p) ==
    /\ pc[p] = "put_store"
    /\ objects' = objects \union req[p].files
    /\ Goto(p, "put_check")
    /\ UNCHANGED <<database, clock, request, history>>

\* Mutant of PutUndo: the bytes of a refused upload are left in the store.
PutRefused(p) ==
    /\ pc[p] = "put_undo"
    /\ removed' = TRUE
    /\ Finish(p)
    /\ UNCHANGED <<objects, database, clock, overlapped, abandoned, calls>>

PutCheck(p) ==
    /\ pc[p] = "put_check"
    /\ Goto(p, IF Cardinality(blobs) + 1 > Quota THEN "put_undo" ELSE "put_record")
    /\ UNCHANGED <<objects, database, clock, request, history>>

PutUndo(p) ==
    /\ pc[p] = "put_undo"
    /\ Remove(req[p].files)
    /\ removed' = TRUE
    /\ Finish(p)
    /\ UNCHANGED <<database, clock, overlapped, calls>>

\* Mutant of PutRecord: the row is inserted whatever the store did.
PutRecordFirst(p) ==
    /\ pc[p] = "put_store"
    /\ blobs' = blobs \union req[p].files
    /\ Finish(p)
    /\ UNCHANGED <<objects, revs, bundles, links, clock, history>>

\* INSERT .. ON CONFLICT DO NOTHING waits for a transaction that deletes the row.
PutRecord(p) ==
    /\ pc[p] = "put_record"
    /\ \A q \in Writers(p) : req[p].files \intersect tx[q].doomed = {}
    /\ blobs' = blobs \union req[p].files
    /\ Finish(p)
    /\ UNCHANGED <<objects, revs, bundles, links, clock, history>>

-----------------------------------------------------------------------------
(* POST revisions: create_revision.                                        *)

\* A push that names its parent names the head its author knew of.
NoParent == -1

\* "Every referenced blob must already exist in this workspace."
CreateRevision(p, files, parent) ==
    /\ files \subseteq blobs
    /\ Cardinality(blobs) <= Quota
    /\ Receive(p, [NoRequest EXCEPT !.kind = "push", !.files = files, !.target = parent],
               "rev_lock")

\* Mutant of LockGame: SELECT without FOR UPDATE.
ReadGame(p) ==
    /\ pc[p] = "rev_lock"
    /\ req[p].target \in {NoParent, Head}
    /\ clock' = clock + 1
    /\ tx' = [tx EXCEPT ![p] = [NoTx EXCEPT !.number = Head + 1, !.id = clock + 1]]
    /\ Goto(p, "rev_write")
    /\ UNCHANGED <<objects, database, req, todo, history>>

\* SELECT .. FOR UPDATE of the game, then the head and the next number.
LockGame(p) ==
    /\ pc[p] = "rev_lock"
    /\ ~GameLocked(p) /\ ~GameShared(p)
    /\ req[p].target \in {NoParent, Head}
    /\ clock' = clock + 1
    /\ tx' = [tx EXCEPT ![p] = [NoTx EXCEPT !.number = Head + 1, !.id = clock + 1]]
    /\ Goto(p, "rev_write")
    /\ UNCHANGED <<objects, database, req, todo, history>>

StaleParent(p) ==
    /\ pc[p] = "rev_lock"
    /\ ~GameLocked(p) /\ ~GameShared(p)
    /\ req[p].target \notin {NoParent, Head}
    /\ Finish(p)
    /\ UNCHANGED <<objects, database, clock, history>>

\* Mutant of Pruned: one more than the plan keeps.
PrunedLate(number) == IF Keep = 0 THEN {} ELSE {n \in Numbers : n < number - Keep}

\* The revisions a new one pushes out of the plan's history.
Pruned(number) == IF Keep = 0 THEN {} ELSE {n \in Numbers : n <= number - Keep}

\* Mutant of Unpinned: links stay pinned to what is pruned.
UnpinnedNone(number) == {}

\* "Share links pinned to a pruned number fall back to tracking latest"
Unpinned(number) ==
    IF Keep = 0 THEN {} ELSE {l \in Links : links[l].rev \in 1 .. number - Keep}

WriteRevision(p) ==
    LET t == [tx[p] EXCEPT !.gone = Pruned(tx[p].number),
                            !.unpin = Unpinned(tx[p].number)]
    IN  /\ pc[p] = "rev_write"
        /\ Write(p, t, t.gone # {})

-----------------------------------------------------------------------------
(* POST front-bundles: create_front_bundle.                                *)

CreateFrontBundle(p, files) ==
    /\ files \subseteq blobs
    /\ Receive(p, [NoRequest EXCEPT !.kind = "bundle", !.files = files], "bundle_begin")

\* Mutant of BeginBundle: the id given out is not taken.
BeginUntimed(p) ==
    /\ pc[p] = "bundle_begin"
    /\ tx' = [tx EXCEPT ![p].id = clock + 1]
    /\ Goto(p, "bundle_write")
    /\ UNCHANGED <<objects, database, clock, req, todo, history>>

\* created_at is the time its transaction began.
BeginBundle(p) ==
    /\ pc[p] = "bundle_begin"
    /\ clock' = clock + 1
    /\ tx' = [tx EXCEPT ![p].id = clock + 1]
    /\ Goto(p, "bundle_write")
    /\ UNCHANGED <<objects, database, req, todo, history>>

\* Mutant of Outdated: one more than the plan keeps.
OutdatedLate(ids) ==
    IF Keep = 0 THEN {} ELSE {b \in ids : Cardinality({c \in ids : c > b}) > Keep}

\* ORDER BY created_at DESC OFFSET keep
Outdated(ids) ==
    IF Keep = 0 THEN {} ELSE {b \in ids : Cardinality({c \in ids : c > b}) >= Keep}

WriteBundle(p) ==
    LET t == [tx[p] EXCEPT !.stale = Outdated(Bundles \union {tx[p].id})]
    IN  /\ pc[p] = "bundle_write"
        /\ ~GameLocked(p)
        /\ Write(p, t, t.stale # {})

-----------------------------------------------------------------------------
(* DELETE revisions/:number and front-bundles/:id.  The guards are read    *)
(* before the transaction.                                                 *)

DeleteRevision(p, n) ==
    /\ n \in Numbers
    /\ \A l \in Links : links[l].rev # n
    /\ Receive(p, [NoRequest EXCEPT !.kind = "delete_revision", !.target = revs[n].id],
               "delete_revision")

DeleteRevisionRow(p) ==
    /\ pc[p] = "delete_revision"
    /\ Write(p, [NoTx EXCEPT !.gone = {n \in Numbers : revs[n].id = req[p].target}], TRUE)

DeleteFrontBundle(p, b) ==
    /\ b \in Bundles
    /\ \A l \in Links : links[l].bundle # b
    /\ Cardinality(Bundles) > 1 \/ \A l \in Links : ~links[l].live
    /\ Receive(p, [NoRequest EXCEPT !.kind = "delete_bundle", !.bundle = b],
               "delete_bundle")

DeleteBundleRow(p) ==
    /\ pc[p] = "delete_bundle"
    /\ Write(p, [NoTx EXCEPT !.stale = {req[p].bundle} \intersect Bundles], TRUE)

-----------------------------------------------------------------------------
(* Share links.                                                            *)

\* ensure_revision_exists, ensure_bundle_belongs
PinsExist(rev, bundle) == rev \in Numbers \union {0} /\ bundle \in Bundles \union {0}

CreateShare(p, l, rev, bundle) ==
    /\ PinsExist(rev, bundle)
    /\ Receive(p, [NoRequest EXCEPT !.kind = "share", !.link = l, !.target = rev,
                                    !.bundle = bundle], "share_insert")

UpdateShare(p, l, rev, bundle) ==
    /\ links[l].live
    /\ PinsExist(rev, bundle)
    /\ Receive(p, [NoRequest EXCEPT !.kind = "share", !.link = l, !.target = rev,
                                    !.bundle = bundle], "share_update")

\* Mutant of Pin: front_bundle_id is no foreign key.
PinAnything(p, allowed) ==
    /\ links' = IF allowed
                THEN [links EXCEPT ![req[p].link] =
                         [live |-> TRUE, rev |-> req[p].target, bundle |-> req[p].bundle]]
                ELSE links
    /\ Finish(p)
    /\ UNCHANGED <<objects, blobs, revs, bundles, clock, history>>

\* The foreign key of a pinned bundle: it waits for a transaction that is
\* deleting the row, and fails when the row is gone.
Pin(p, allowed) ==
    /\ \A q \in Writers(p) : req[p].bundle \notin tx[q].stale
    /\ links' = IF allowed /\ req[p].bundle \in Bundles \union {0}
                THEN [links EXCEPT ![req[p].link] =
                         [live |-> TRUE, rev |-> req[p].target, bundle |-> req[p].bundle]]
                ELSE links
    /\ Finish(p)
    /\ UNCHANGED <<objects, blobs, revs, bundles, clock, history>>

\* The foreign key to the game waits for a push, the slug must be free.
InsertShare(p) ==
    /\ pc[p] = "share_insert"
    /\ ~GameLocked(p)
    /\ Pin(p, ~links[req[p].link].live)

\* A pin of the link is being dropped by a transaction that has not committed.
LinkLocked(p, l) ==
    \E q \in Writers(p) : l \in tx[q].unpin \/ links[l].bundle \in tx[q].stale

SetPins(p) ==
    /\ pc[p] = "share_update"
    /\ ~LinkLocked(p, req[p].link)
    /\ Pin(p, links[req[p].link].live)

DeleteShare(p, l) ==
    /\ ~Busy(p)
    /\ "share" \in Kinds
    /\ links[l].live
    /\ ~LinkLocked(p, l)
    /\ calls < MaxCalls
    /\ calls' = calls + 1
    /\ overlapped' = (overlapped \/ \E q \in Clients : Busy(q))
    /\ links' = [links EXCEPT ![l] = NoLink]
    /\ UNCHANGED <<objects, blobs, revs, bundles, clock, pc, request, removed, abandoned>>

-----------------------------------------------------------------------------

Receives(p) ==
    \/ \E h \in Hashes : PutBlob(p, h)
    \/ \E files \in Manifests :
         \/ \E parent \in {NoParent, Head} : CreateRevision(p, files, parent)
         \/ CreateFrontBundle(p, files)
    \/ \E n \in Numbers : DeleteRevision(p, n)
    \/ \E b \in Bundles : DeleteFrontBundle(p, b)
    \/ \E l \in Links :
         \/ \E rev \in 0 .. clock, bundle \in {0} \union Bundles :
              CreateShare(p, l, rev, bundle) \/ UpdateShare(p, l, rev, bundle)
         \/ DeleteShare(p, l)

Advance(p) ==
    \/ PutStore(p) \/ PutCheck(p) \/ PutUndo(p) \/ PutRecord(p)
    \/ LockGame(p) \/ StaleParent(p) \/ WriteRevision(p)
    \/ BeginBundle(p) \/ WriteBundle(p)
    \/ DeleteRevisionRow(p) \/ DeleteBundleRow(p)
    \/ InsertShare(p) \/ SetPins(p)
    \/ Commit(p) \/ DeleteObject(p)

Next == \E p \in Clients : Receives(p) \/ Advance(p) \/ Fail(p)

Spec == Init /\ [][Next]_vars

-----------------------------------------------------------------------------

TypeOK ==
    /\ objects \subseteq Hashes /\ blobs \subseteq Hashes
    /\ clock \in Nat
    /\ Numbers \subseteq 1 .. clock /\ Bundles \subseteq 1 .. clock
    /\ \A n \in Numbers : revs[n].id \in 1 .. clock /\ revs[n].files \subseteq Hashes
    /\ \A b \in Bundles : bundles[b] \subseteq Hashes
    /\ links \in [Links -> [live : BOOLEAN, rev : 0 .. clock, bundle : 0 .. clock]]
    /\ pc \in [Clients -> Steps]
    /\ \A p \in Clients :
         /\ req[p].files \subseteq Hashes /\ req[p].target \in -1 .. clock
         /\ tx[p].number \in 0 .. clock /\ tx[p].id \in 0 .. clock
         /\ tx[p].gone \union tx[p].stale \subseteq 1 .. clock
         /\ tx[p].unpin \subseteq Links
         /\ tx[p].doomed \union todo[p] \subseteq Hashes
    /\ overlapped \in BOOLEAN /\ removed \in BOOLEAN /\ abandoned \subseteq Hashes
    /\ calls \in 0 .. MaxCalls

\* Pushes of the game are serialized: a new revision is numbered above all
\* others, and if it names a parent, nothing newer than that parent is there.
PushesInOrder ==
    [][\A p \in Clients : Commit(p) /\ req[p].kind = "push" =>
         \A n \in Numbers : n < tx[p].number /\ (req[p].target # NoParent => n <= req[p].target)]_vars

\* "keep only the newest `keep` revisions", however pushes and deletions overlap.
RevisionsCapped == Keep > 0 => Cardinality(Numbers) <= Keep

\* A link only pins a bundle that is there (front_bundle_id is a foreign key).
BundlePinsResolve == \A l \in Links : links[l].bundle \in Bundles \union {0}

\* The three promises below hold as long as requests do not overlap, and even
\* then as long as nothing is removed.
Calm == ~overlapped \/ ~removed

\* "Record the blob only after the store write fully succeeds": a row in
\* `blobs` has its bytes in the store.
BytesBehindRows == Calm => blobs \subseteq objects \union UNION {todo[p] : p \in Clients}

\* An object without a row is "an unreferenced orphan the GC never reaches":
\* there is none, but for what a request holds, or has failed to remove.
NoOrphanObjects ==
    objects \subseteq blobs \union abandoned \union UNION {Holding(p) : p \in Clients}

\* "bytes deduped with another revision or a front bundle survive": what a
\* revision or a bundle is made of is in `blobs`.
ContentComplete ==
    /\ \A n \in Numbers : revs[n].files \subseteq blobs
    /\ \A b \in Bundles : bundles[b] \subseteq blobs

ContentCompleteCalm == Calm => ContentComplete

\* A link only pins a revision that is there.
RevisionPinsResolve == Calm => \A l \in Links : links[l].rev \in Numbers \union {0}

\* "keep only the newest `keep` bundles", as long as requests do not overlap.
BundlesCapped == ~overlapped /\ Keep > 0 => Cardinality(Bundles) <= Keep

\* Pruning keeps what the plan keeps, of revisions and of bundles.
Capped == RevisionsCapped /\ BundlesCapped

\* The pins of share links lead to rows that exist.
PinsResolve == BundlePinsResolve /\ RevisionPinsResolve

\* A removal never leaves an object behind that no row or request holds, nor,
\* when removals and requests do not overlap, takes content that is listed.
ContentKept == TypeOK /\ NoOrphanObjects /\ ContentCompleteCalm

=============================================================================
