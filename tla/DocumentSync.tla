---------------------------- MODULE DocumentSync -----------------------------
(***************************************************************************)
(* Desktop apps keeping their local profiles and saved rounds in step with *)
(* a workspace: crates/desktop/src/cloud/sync.rs over DocumentStore.       *)
(*                                                                         *)
(* `sync` pulls the rows past the app's cursor, applies them, moves the    *)
(* cursor, and then pushes every local document with put_lww, which        *)
(* answers a conflict by trying once more on top of the server's revision. *)
(* The rows and the new cursor come from two queries of the server.        *)
(* Between any two steps the user edits local documents, and other apps    *)
(* call the server.                                                        *)
(***************************************************************************)
EXTENDS DocumentStore, FiniteSets, FiniteSetsExt, Functions

CONSTANTS
    Imported,   \* what every app already has, from another workspace: a
                \* function from some documents to their payloads
    MaxCalls,   \* bound: calls started by the users
    MaxEdits,   \* bound: local changes made by the users
    Flaky       \* apps whose transactions may fail and whose replies may get lost

ASSUME SyncAssumption ==
    /\ DOMAIN Imported \subseteq Docs /\ Range(Imported) \subseteq Values
    /\ MaxCalls \in Nat /\ MaxEdits \in Nat /\ Flaky \subseteq Apps

VARIABLES
    local,     \* the local profiles and saved rounds of each app
    cursor,    \* workspaces.json: seqs, the last synced seq
    page,      \* the rows of the pull; their revisions are the push's bases
    latest,    \* latest_seq of the pull
    mine,      \* the local documents the push has still to send
    born,      \* keys taken so far (they are fresh UUIDs)
    touched,   \* history: the user changed or shared the local copy since
    overlapped, \* history: two apps have had calls under way at once
    calls,     \* calls so far
    edits      \* local changes so far

app == <<local, cursor, page, latest, mine>>
history == <<born, touched, overlapped, calls, edits>>
vars == <<server, pc, request, app, history>>

Steps == StoreSteps \union {"idle", "list_max", "apply", "read", "push"}

Copies == Values \union {"none"}

NoPage == [d \in Docs |-> NoRow]
NoCopies == [d \in Docs |-> "none"]

Init ==
    /\ StoreInit
    /\ pc = [a \in Apps |-> "idle"]
    /\ local = [a \in Apps |-> [d \in Docs |->
                    IF d \in DOMAIN Imported THEN Imported[d] ELSE "none"]]
    /\ born = DOMAIN Imported
    /\ cursor = [a \in Apps |-> 0]
    /\ page = [a \in Apps |-> NoPage]
    /\ latest = [a \in Apps |-> 0]
    /\ mine = [a \in Apps |-> NoCopies]
    /\ touched = [a \in Apps |-> {}]
    /\ overlapped = FALSE
    /\ calls = 0
    /\ edits = 0

-----------------------------------------------------------------------------
(* The user's changes to the local stores.                                 *)

Change(a, d, v) ==
    /\ edits < MaxEdits
    /\ edits' = edits + 1
    /\ local' = [local EXCEPT ![a][d] = v]
    /\ touched' = [touched EXCEPT ![a] = @ \union {d}]
    /\ UNCHANGED <<server, pc, request, cursor, page, latest, mine, overlapped, calls>>

\* A new document gets a new id.
Create(a, d, v) ==
    /\ d \notin born
    /\ born' = born \union {d}
    /\ Change(a, d, v)

Edit(a, d, v) ==
    /\ local[a][d] \notin {"none", v}
    /\ Change(a, d, v)
    /\ UNCHANGED born

\* Deleting a profile or a bookmark locally does not reach the workspace.
Discard(a, d) ==
    /\ local[a][d] # "none"
    /\ Change(a, d, "none")
    /\ UNCHANGED born

-----------------------------------------------------------------------------
(* The calls.                                                              *)

StartCall(a) ==
    /\ pc[a] = "idle"
    /\ overlapped' = (overlapped \/ \E b \in Apps : pc[b] # "idle")
    /\ calls < MaxCalls
    /\ calls' = calls + 1

\* The call of app a is over; what it had read is gone.
EndCall(a) ==
    /\ Forget(a)
    /\ pc' = [pc EXCEPT ![a] = "idle"]
    /\ page' = [page EXCEPT ![a] = NoPage]
    /\ latest' = [latest EXCEPT ![a] = 0]
    /\ mine' = [mine EXCEPT ![a] = NoCopies]

\* Mutant: the pull leaves the tombstones out.
ListLiveRows(a) ==
    /\ StartCall(a)
    /\ page' = [page EXCEPT ![a] =
                   [d \in Docs |-> IF rows[d].seq > cursor[a] /\ rows[d].state = "live"
                                   THEN rows[d] ELSE NoRow]]
    /\ pc' = [pc EXCEPT ![a] = "list_max"]
    /\ UNCHANGED <<server, request, local, cursor, latest, mine, born, touched, edits>>

\* sync: list(None, Some(cursor)), the first query of list_documents.
ListRows(a) ==
    /\ StartCall(a)
    /\ page' = [page EXCEPT ![a] =
                   [d \in Docs |-> IF rows[d].seq > cursor[a] THEN rows[d] ELSE NoRow]]
    /\ pc' = [pc EXCEPT ![a] = "list_max"]
    /\ UNCHANGED <<server, request, local, cursor, latest, mine, born, touched, edits>>

\* ... and the second one: the newest seq of the workspace.
ListLatest(a) ==
    /\ pc[a] = "list_max"
    /\ latest' = [latest EXCEPT ![a] = Max({0} \union {rows[d].seq : d \in Docs})]
    /\ pc' = [pc EXCEPT ![a] = "apply"]
    /\ UNCHANGED <<server, request, local, cursor, page, mine, history>>

\* Pulled keys.
Pulled(a) == {d \in Docs : page[a][d].state # "none"}

\* What an app shows of a row.
Shown(row) == IF row.state = "live" THEN row.data ELSE "none"

\* Mutant: a pull keeps the local copy it finds.
ApplyToMissing(a) ==
    /\ pc[a] = "apply"
    /\ local' = [local EXCEPT ![a] =
                    [d \in Docs |-> IF d \in Pulled(a) /\ (page[a][d].state = "dead"
                                                           \/ local[a][d] = "none")
                                    THEN Shown(page[a][d]) ELSE local[a][d]]]
    /\ cursor' = [cursor EXCEPT ![a] = Max({@, latest[a]})]
    /\ touched' = [touched EXCEPT ![a] = @ \ Pulled(a)]
    /\ pc' = [pc EXCEPT ![a] = "read"]
    /\ UNCHANGED <<server, request, page, latest, mine, born,
                   overlapped, calls, edits>>

\* apply_pulled on each row of the page, then set_last_seq.
Apply(a) ==
    /\ pc[a] = "apply"
    /\ local' = [local EXCEPT ![a] =
                    [d \in Docs |-> IF d \in Pulled(a)
                                    THEN Shown(page[a][d]) ELSE local[a][d]]]
    /\ cursor' = [cursor EXCEPT ![a] = Max({@, latest[a]})]
    /\ touched' = [touched EXCEPT ![a] = @ \ Pulled(a)]
    /\ pc' = [pc EXCEPT ![a] = "read"]
    /\ UNCHANGED <<server, request, page, latest, mine, born,
                   overlapped, calls, edits>>

\* profiles::list and saved_rounds::list: what the push sends.
ReadLocal(a) ==
    /\ pc[a] = "read"
    /\ mine' = [mine EXCEPT ![a] = local[a]]
    /\ pc' = [pc EXCEPT ![a] = "push"]
    /\ UNCHANGED <<server, request, local, cursor, page, latest, history>>

\* put_lww on the next document, based on the page's revision if it has one.
Push(a) ==
    /\ pc[a] = "push"
    /\ \E d \in Docs :
         /\ mine[a][d] # "none"
         /\ Send(a, Request("put", d, mine[a][d], page[a][d].revision, 1))
    /\ UNCHANGED <<server, pending, app, history>>

PushEnd(a) ==
    /\ pc[a] = "push"
    /\ mine[a] = NoCopies
    /\ EndCall(a)
    /\ UNCHANGED <<server, pending, local, cursor, history>>

Answered(a, op, outcomes) ==
    pc[a] = "reply" /\ req[a].op = op /\ answer[a].outcome \in outcomes

\* Mutant: the retry is not limited to one.
RetryAlways(a) ==
    /\ Answered(a, "put", {"conflict"})
    /\ Send(a, [req[a] EXCEPT !.base = answer[a].revision, !.try = @ + 1])
    /\ UNCHANGED <<server, pending, app, history>>

\* "Keep mine: retry once against the fresh server revision."
Retry(a) ==
    /\ Answered(a, "put", {"conflict"})
    /\ req[a].try = 1
    /\ Send(a, Request("put", Doc(a), req[a].data, answer[a].revision, 2))
    /\ UNCHANGED <<server, pending, app, history>>

\* The document is stored, or given up after a second conflict: the next one.
Pushed(a) ==
    /\ Answered(a, "put", {"ok", "conflict"})
    /\ answer[a].outcome = "ok" \/ req[a].try = 2
    /\ Forget(a)
    /\ pc' = [pc EXCEPT ![a] = "push"]
    /\ mine' = [mine EXCEPT ![a][Doc(a)] = "none"]
    /\ touched' = IF answer[a].outcome = "ok" /\ local[a][Doc(a)] = req[a].data
                  THEN [touched EXCEPT ![a] = @ \ {Doc(a)}] ELSE touched
    /\ UNCHANGED <<server, pending, local, cursor, page, latest, born,
                   overlapped, calls, edits>>

\* Any other failure ends the call.
PushFailed(a) ==
    /\ Answered(a, "put", {"error"})
    /\ EndCall(a)
    /\ UNCHANGED <<server, pending, local, cursor, history>>

\* push_profile: the user shares a local document, based on the live row.
Share(a, d) ==
    /\ StartCall(a)
    /\ local[a][d] # "none"
    /\ page' = [page EXCEPT ![a][d] = IF rows[d].state = "live" THEN rows[d] ELSE NoRow]
    /\ mine' = [mine EXCEPT ![a][d] = local[a][d]]
    /\ touched' = [touched EXCEPT ![a] = @ \union {d}]
    /\ pc' = [pc EXCEPT ![a] = "push"]
    /\ UNCHANGED <<server, request, local, cursor, latest, born, edits>>

\* remove_from_catalog: read the live row, delete it at that revision.
Remove(a, d) ==
    /\ StartCall(a)
    /\ rows[d].state = "live"
    /\ Send(a, Request("delete", d, "none", rows[d].revision, 1))
    /\ UNCHANGED <<server, pending, app, born, touched, edits>>

RemoveEnd(a) ==
    /\ Answered(a, "delete", Outcomes)
    /\ EndCall(a)
    /\ UNCHANGED <<server, pending, local, cursor, history>>

\* What an app does on its own once its user has called it.
Advance(a) ==
    \/ ListLatest(a) \/ Apply(a) \/ ReadLocal(a)
    \/ Push(a) \/ PushEnd(a) \/ Retry(a) \/ Pushed(a) \/ PushFailed(a)
    \/ RemoveEnd(a)
    \/ Transact(a) /\ UNCHANGED <<app, history>>

Fail(a) ==
    /\ a \in Flaky
    /\ Rollback(a) \/ LoseReply(a)
    /\ UNCHANGED <<app, history>>

UserStep(a) ==
    \/ ListRows(a)
    \/ \E d \in Docs : Share(a, d) \/ Remove(a, d) \/ Discard(a, d)
    \/ \E d \in Docs, v \in Values : Create(a, d, v) \/ Edit(a, d, v)

Next == \E a \in Apps : UserStep(a) \/ Advance(a) \/ Fail(a)

Spec == Init /\ [][Next]_vars

\* The server's runtime and the app's run on, and Postgres hands a row lock to
\* the transactions waiting for it in turn.
FairSpec == Spec /\ \A a \in Apps : WF_vars(Advance(a))

-----------------------------------------------------------------------------

TypeOK ==
    /\ rows \in [Docs -> RowType]
    /\ locks \in [Docs -> Apps \union {"nobody"}]
    /\ counter \in Nat
    /\ pc \in [Apps -> Steps]
    /\ req \in [Apps -> RequestType]
    /\ pending \in [Apps -> RowType]
    /\ answer \in [Apps -> [outcome : Outcomes, revision : Nat]]
    /\ local \in [Apps -> [Docs -> Copies]]
    /\ cursor \in [Apps -> Nat]
    /\ page \in [Apps -> [Docs -> RowType]]
    /\ latest \in [Apps -> Nat]
    /\ mine \in [Apps -> [Docs -> Copies]]
    /\ born \subseteq Docs
    /\ touched \in [Apps -> SUBSET Docs]
    /\ overlapped \in BOOLEAN
    /\ calls \in 0 .. MaxCalls
    /\ edits \in 0 .. MaxEdits

\* "a PUT/DELETE carries base_revision and only applies when it equals the
\* document's current revision": of overlapping transactions, those that
\* commit do so on the very row they were based on.
CompareAndSwap ==
    [][\A a \in Apps : Commit(a) =>
         LET row == rows[Doc(a)]
         IN  row.state # "none" => req[a].base = row.revision]_vars

\* Each document, whatever transactions overlap, fail or lose their replies,
\* is a versioned register: see VersionedDocument.
Register(d) == INSTANCE VersionedDocument WITH row <- rows[d]

KeepsVersions ==
    /\ \A d \in Docs : Register(d)!Init
    /\ [][\A d \in Docs : [Register(d)!Next]_(rows[d])]_vars

\* "pull newer documents": an app that has seen a row's seq shows the row,
\* until its user changes the local copy.
CopiesCurrent ==
    \A a \in Apps, d \in Docs :
        rows[d].state # "none" /\ rows[d].seq <= cursor[a] /\ d \notin touched[a]
            => local[a][d] = Shown(rows[d])

\* The same, as long as no two apps ever had calls under way at once; lost
\* replies and failed transactions are allowed for.
CopiesCurrentApart == ~overlapped => CopiesCurrent

\* The apps' state is of its type, and what apps whose calls do not overlap hold
\* is current.
AppsSound == TypeOK /\ CopiesCurrentApart

\* "tombstones included so deletions propagate": a document removed from the
\* workspace comes back only through a user who changed or shared it, as long
\* as calls do not overlap.
RemovalsLast ==
    [][\A a \in Apps : ~overlapped /\ Commit(a) /\ rows[Doc(a)].state = "dead"
         => Doc(a) \in touched[a]]_vars

\* "last-write-wins": a sync never overwrites what another user wrote with a
\* copy that its own user has not changed, as long as calls do not overlap.
StaleCopyNeverWins ==
    [][\A a \in Apps :
         /\ ~overlapped
         /\ Commit(a) /\ req[a].op = "put" /\ rows[Doc(a)].state = "live"
         => req[a].data = rows[Doc(a)].data \/ Doc(a) \in touched[a]]_vars

\* Every call comes to an end, no transaction waits for a row for ever: as at
\* most MaxCalls are made, all apps are at rest in the end.
CallsEnd == []<>(\A a \in Apps : pc[a] = "idle")

=============================================================================
