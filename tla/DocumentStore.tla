---------------------------- MODULE DocumentStore ----------------------------
(***************************************************************************)
(* The document endpoints of the cloud server                              *)
(* (crates/server/src/api/documents.rs) over its Postgres table.           *)
(*                                                                         *)
(* PUT and DELETE run in a transaction: lock and read the row, decide,     *)
(* take a value of the workspace-wide sequence, write, commit.  Each of    *)
(* these is an action, since the transactions of two apps overlap.  A row  *)
(* written but not committed is only seen by its own transaction; whoever  *)
(* wants to lock it, or to insert the same key, waits.  The sequence is    *)
(* not transactional: a value is taken when the write is made, and is not  *)
(* given back.                                                             *)
(***************************************************************************)
EXTENDS Integers

CONSTANTS
    Apps,     \* clients of the workspace, one request each at a time
    Docs,     \* document keys (kind, doc_id)
    Values    \* payloads the clients write

ASSUME StoreAssumption ==
    /\ "none" \notin Values \union Docs
    /\ "nobody" \notin Apps

VARIABLES
    rows,      \* the committed documents table
    locks,     \* the transaction that locked or wrote a key, or "nobody"
    counter,   \* the sequence behind documents.seq
    pc,        \* the step each app's current call is at
    req,       \* the request it has sent
    pending,   \* the row its transaction has written
    answer     \* the reply: the outcome, and on a conflict the revision

server == <<rows, locks, counter>>
request == <<req, pending, answer>>

Row(state, revision, seq, data) ==
    [state |-> state, revision |-> revision, seq |-> seq, data |-> data]

NoRow == Row("none", 0, 0, "none")

RowType ==
    [state : {"none", "live", "dead"}, revision : Nat, seq : Nat,
     data : Values \union {"none"}]

\* base 0 is a base_revision of null.
Request(op, d, v, base, try) ==
    [op |-> op, doc |-> d, data |-> v, base |-> base, try |-> try]

NoRequest == Request("put", "none", "none", 0, 1)

RequestType ==
    [op : {"put", "delete"}, doc : Docs \union {"none"}, data : Values \union {"none"},
     base : Nat, try : 1 .. 2]

Outcomes == {"none", "ok", "conflict", "missing", "error"}

Answer(outcome, revision) == [outcome |-> outcome, revision |-> revision]

NoAnswer == Answer("none", 0)

StoreSteps == {"lock", "insert", "update", "commit", "reply"}

StoreInit ==
    /\ rows = [d \in Docs |-> NoRow]
    /\ locks = [d \in Docs |-> "nobody"]
    /\ counter = 0
    /\ pending = [a \in Apps |-> NoRow]
    /\ req = [a \in Apps |-> NoRequest]
    /\ answer = [a \in Apps |-> NoAnswer]

-----------------------------------------------------------------------------
(* The client side of a request.                                           *)

Send(a, r) ==
    /\ req' = [req EXCEPT ![a] = r]
    /\ answer' = [answer EXCEPT ![a] = NoAnswer]
    /\ pc' = [pc EXCEPT ![a] = "lock"]

\* The reply has been dealt with.
Forget(a) ==
    /\ req' = [req EXCEPT ![a] = NoRequest]
    /\ answer' = [answer EXCEPT ![a] = NoAnswer]

-----------------------------------------------------------------------------
(* The transaction of request req[a].                                      *)

Doc(a) == req[a].doc

\* put_document refuses any base but the current revision; delete_document
\* accepts a missing base.
Matches(r, row) ==
    \/ r.base = row.revision
    \/ r.op = "delete" /\ r.base = 0

Reply(a, outcome, revision) ==
    /\ answer' = [answer EXCEPT ![a] = Answer(outcome, revision)]
    /\ pc' = [pc EXCEPT ![a] = "reply"]

\* current_row finds no row: FOR UPDATE has nothing to lock.
LockNothing(a) ==
    /\ pc[a] = "lock"
    /\ rows[Doc(a)].state = "none"
    /\ IF req[a].op = "put"
       THEN pc' = [pc EXCEPT ![a] = "insert"] /\ UNCHANGED answer
       ELSE Reply(a, "missing", 0)
    /\ UNCHANGED <<server, req, pending>>

\* Mutant: SELECT without FOR UPDATE: the row is read, checked and not locked.
LockRowUnlocked(a) ==
    /\ pc[a] = "lock"
    /\ rows[Doc(a)].state # "none"
    /\ IF Matches(req[a], rows[Doc(a)])
       THEN pc' = [pc EXCEPT ![a] = "update"] /\ UNCHANGED answer
       ELSE Reply(a, "conflict", rows[Doc(a)].revision)
    /\ UNCHANGED <<server, req, pending>>

\* Mutant: a conflict leaves the transaction open.
LockRowLeaked(a) ==
    /\ pc[a] = "lock"
    /\ rows[Doc(a)].state # "none"
    /\ locks[Doc(a)] = "nobody"
    /\ locks' = [locks EXCEPT ![Doc(a)] = a]
    /\ IF Matches(req[a], rows[Doc(a)])
       THEN pc' = [pc EXCEPT ![a] = "update"] /\ UNCHANGED answer
       ELSE Reply(a, "conflict", rows[Doc(a)].revision)
    /\ UNCHANGED <<rows, counter, req, pending>>

\* current_row locks the row, waiting for its holder; a base that does not
\* match ends the transaction with the current revision.
LockRow(a) ==
    /\ pc[a] = "lock"
    /\ rows[Doc(a)].state # "none"
    /\ locks[Doc(a)] = "nobody"
    /\ IF Matches(req[a], rows[Doc(a)])
       THEN /\ locks' = [locks EXCEPT ![Doc(a)] = a]
            /\ pc' = [pc EXCEPT ![a] = "update"]
            /\ UNCHANGED answer
       ELSE /\ Reply(a, "conflict", rows[Doc(a)].revision)
            /\ UNCHANGED locks
    /\ UNCHANGED <<rows, counter, req, pending>>

\* INSERT: the primary key waits for another insert of the key, and fails when
\* that one committed.  The failed insert has used up its sequence value.
Insert(a) ==
    /\ pc[a] = "insert"
    /\ locks[Doc(a)] = "nobody"
    /\ counter' = counter + 1
    /\ IF rows[Doc(a)].state = "none"
       THEN /\ locks' = [locks EXCEPT ![Doc(a)] = a]
            /\ pending' = [pending EXCEPT ![a] =
                              Row("live", 1, counter + 1, req[a].data)]
            /\ pc' = [pc EXCEPT ![a] = "commit"]
            /\ UNCHANGED answer
       ELSE Reply(a, "error", 0) /\ UNCHANGED <<locks, pending>>
    /\ UNCHANGED <<rows, req>>

\* Mutant: a tombstone that restarts the revision of a recreated document.
UpdatedAnew(r, row, seq) ==
    IF r.op = "put"
    THEN Row("live", IF row.state = "dead" THEN 1 ELSE row.revision + 1, seq, r.data)
    ELSE Row("dead", row.revision + 1, seq, row.data)

\* UPDATE of the locked row: a write makes it live, a deletion a tombstone
\* that keeps its data.
Updated(r, row, seq) ==
    IF r.op = "put"
    THEN Row("live", row.revision + 1, seq, r.data)
    ELSE Row("dead", row.revision + 1, seq, row.data)

Update(a) ==
    /\ pc[a] = "update"
    /\ counter' = counter + 1
    /\ pending' = [pending EXCEPT ![a] =
                      Updated(req[a], rows[Doc(a)], counter + 1)]
    /\ pc' = [pc EXCEPT ![a] = "commit"]
    /\ UNCHANGED <<rows, locks, req, answer>>

Commit(a) ==
    /\ pc[a] = "commit"
    /\ rows' = [rows EXCEPT ![Doc(a)] = pending[a]]
    /\ locks' = [locks EXCEPT ![Doc(a)] = "nobody"]
    /\ pending' = [pending EXCEPT ![a] = NoRow]
    /\ Reply(a, "ok", pending[a].revision)
    /\ UNCHANGED <<counter, req>>

\* The transaction fails, or its client goes away, before the commit.
Rollback(a) ==
    /\ pc[a] \in {"lock", "insert", "update", "commit"}
    /\ locks' = [d \in Docs |-> IF locks[d] = a THEN "nobody" ELSE locks[d]]
    /\ pending' = [pending EXCEPT ![a] = NoRow]
    /\ Reply(a, "error", 0)
    /\ UNCHANGED <<rows, counter, req>>

\* The reply never arrives: the client sees an error.
LoseReply(a) ==
    /\ pc[a] = "reply" /\ answer[a].outcome # "error"
    /\ answer' = [answer EXCEPT ![a] = Answer("error", 0)]
    /\ UNCHANGED <<server, pc, req, pending>>

Transact(a) ==
    LockNothing(a) \/ LockRow(a) \/ Insert(a) \/ Update(a) \/ Commit(a)

=============================================================================
