-------------------------- MODULE DocumentSyncProofs --------------------------
(***************************************************************************)
(* Proofs about DocumentSync, for any number of apps, documents and calls: *)
(* whatever transactions overlap, fail or lose their replies, a document   *)
(* is only ever changed on top of the revision its writer named, and each  *)
(* change implements one step of VersionedDocument.                        *)
(*                                                                         *)
(* The argument: a transaction that has decided holds the lock of its key  *)
(* (Holders), so the row it decided on is still there when it commits      *)
(* (Decided, Written); and the sequence value it took lies past the row's  *)
(* (Numbered).                                                             *)
(*                                                                         *)
(* The second part is about what apps hold and send, as long as no two of  *)
(* them have had calls under way at once: the rows of a pull are those     *)
(* past the cursor, which covers every row once they are applied (Pulls),  *)
(* so a push sends what the workspace has, or what its user changed or     *)
(* shared (Founded).                                                       *)
(***************************************************************************)
EXTENDS DocumentSync, WellFoundedInduction, TLAPS

-----------------------------------------------------------------------------
(* The inductive invariant. *)

AnswerType == [outcome : Outcomes, revision : Nat]

\* The types of what a transaction depends on.
ServerTypes ==
    /\ rows \in [Docs -> RowType]
    /\ locks \in [Docs -> Apps \union {"nobody"}]
    /\ counter \in Nat
    /\ pc \in [Apps -> Steps]
    /\ req \in [Apps -> RequestType]
    /\ pending \in [Apps -> RowType]
    /\ answer \in [Apps -> AnswerType]
    /\ local \in [Apps -> [Docs -> Copies]]
    /\ page \in [Apps -> [Docs -> RowType]]
    /\ mine \in [Apps -> [Docs -> Copies]]

InTransaction(a) == pc[a] \in {"lock", "insert", "update", "commit"}

\* A request names a document, a put its data, and a deletion the revision it
\* is based on.
Addressed ==
    \A a \in Apps :
        /\ pc[a] \in StoreSteps => Doc(a) \in Docs
        /\ pc[a] \in StoreSteps /\ req[a].op = "put" => req[a].data \in Values
        /\ pc[a] = "insert" => req[a].op = "put"
        /\ req[a].op = "delete" => req[a].base > 0

\* FOR UPDATE: who has decided to write, or has written, holds the lock.
Holders == \A a \in Apps : pc[a] \in {"update", "commit"} => locks[Doc(a)] = a

\* A row has a revision from its first commit on, and its seq was taken from
\* the sequence.
Numbered ==
    \A d \in Docs :
        /\ rows[d].state # "none" => rows[d].revision > 0
        /\ rows[d].state = "none" => rows[d].revision = 0
        /\ rows[d].seq <= counter

\* The row a transaction decided on is the row that is there.
Decided ==
    \A a \in Apps : pc[a] = "update" =>
        rows[Doc(a)].state # "none" /\ Matches(req[a], rows[Doc(a)])

\* What a transaction has written is the next version of the row there.
NextVersion(row, new) ==
    /\ new.revision = row.revision + 1
    /\ new.seq > row.seq
    /\ new.state \in {"live", "dead"}
    /\ new.state = "dead" => row.state # "none" /\ new.data = row.data

Written ==
    \A a \in Apps : pc[a] = "commit" =>
        /\ NextVersion(rows[Doc(a)], pending[a])
        /\ pending[a].seq <= counter
        /\ rows[Doc(a)].state # "none" => Matches(req[a], rows[Doc(a)])

IInv == ServerTypes /\ Addressed /\ Holders /\ Numbered /\ Decided /\ Written

-----------------------------------------------------------------------------

LEMMA InitIInv == Init => IInv
<1> SUFFICES ASSUME Init PROVE IInv
  OBVIOUS
<1> USE DEF Init, StoreInit, NoRow, Row, RowType
<1>1. ServerTypes
  <2>1. local \in [Apps -> [Docs -> Copies]]
    BY SyncAssumption DEF Copies, SyncAssumption, Range
  <2> QED
    BY <2>1, SyncAssumption, StoreAssumption
       DEF ServerTypes, Steps, StoreSteps, RequestType, NoRequest, Request, Outcomes,
           NoAnswer, Answer, AnswerType, NoPage, NoCopies, Copies
<1>2. Addressed /\ Holders /\ Numbered /\ Decided /\ Written
  BY DEF Addressed, Holders, Numbered, Decided, Written, StoreSteps, NoRequest, Request, Doc
<1> QED
  BY <1>1, <1>2 DEF IInv

-----------------------------------------------------------------------------
(* The steps of a transaction.                                              *)

LEMMA ReplyType ==
    ASSUME ServerTypes, NEW a \in Apps, NEW o \in Outcomes, NEW n \in Nat, Reply(a, o, n)
    PROVE  pc' \in [Apps -> Steps] /\ answer' \in [Apps -> AnswerType]
BY DEF ServerTypes, Reply, Answer, AnswerType, Steps, StoreSteps

LEMMA LockNothingKeeps ==
    ASSUME IInv, NEW a \in Apps, LockNothing(a), UNCHANGED app
    PROVE  IInv'
<1> USE DEF LockNothing, IInv, Reply, server, app
<1>1. ServerTypes'
  <2>1. CASE req[a].op = "put"
    BY <2>1 DEF ServerTypes, Steps, StoreSteps
  <2>2. CASE req[a].op # "put"
    <3>1. pc' \in [Apps -> Steps] /\ answer' \in [Apps -> AnswerType]
      BY <2>2, ReplyType DEF Outcomes
    <3> QED
      BY <3>1 DEF ServerTypes
  <2> QED
    BY <2>1, <2>2
<1>2. Addressed'
  BY DEF ServerTypes, Addressed, StoreSteps, Doc
<1>3. Holders' /\ Numbered' /\ Decided' /\ Written'
  BY DEF ServerTypes, Holders, Numbered, Decided, Written, Doc
<1> QED
  BY <1>1, <1>2, <1>3

LEMMA LockRowKeeps ==
    ASSUME IInv, NEW a \in Apps, LockRow(a), UNCHANGED app
    PROVE  IInv'
<1> USE DEF LockRow, IInv, Reply, app
<1>1. Doc(a) \in Docs
  BY DEF Addressed, StoreSteps
<1>2. ServerTypes'
  <2>1. CASE Matches(req[a], rows[Doc(a)])
    BY <1>1, <2>1 DEF ServerTypes, Steps, StoreSteps
  <2>2. CASE ~Matches(req[a], rows[Doc(a)])
    <3>1. rows[Doc(a)].revision \in Nat
      BY <1>1 DEF ServerTypes, RowType
    <3>2. pc' \in [Apps -> Steps] /\ answer' \in [Apps -> AnswerType]
      BY <2>2, <3>1, ReplyType DEF Outcomes
    <3> QED
      BY <2>2, <3>2 DEF ServerTypes
  <2> QED
    BY <2>1, <2>2
<1>3. Addressed'
  BY DEF ServerTypes, Addressed, StoreSteps, Doc
<1>4. Holders'
  <2>1. ASSUME locks[Doc(a)] = "nobody", NEW b \in Apps, pc[b] \in {"update", "commit"}
        PROVE  Doc(b) # Doc(a)
    BY <2>1, StoreAssumption DEF Holders, StoreAssumption
  <2>2. ASSUME NEW b \in Apps, pc'[b] \in {"update", "commit"}
        PROVE  locks'[Doc(b)'] = b
    <3>1. CASE b = a
      BY <1>1, <2>2, <3>1 DEF ServerTypes, Doc
    <3>2. CASE b # a
      <4>1. pc'[b] = pc[b] /\ Doc(b)' = Doc(b) /\ locks[Doc(b)] = b
        BY <2>2, <3>2 DEF ServerTypes, Holders, Doc
      <4>2. Doc(b) \in Docs /\ Doc(b) # Doc(a)
        BY <2>1, <2>2, <4>1 DEF Addressed, StoreSteps
      <4>3. locks'[Doc(b)] = locks[Doc(b)]
        BY <4>2 DEF ServerTypes
      <4> QED
        BY <4>1, <4>3
    <3> QED
      BY <3>1, <3>2
  <2> QED
    BY <2>2 DEF Holders, Doc
<1>5. Numbered' /\ Decided' /\ Written'
  BY <1>1 DEF ServerTypes, Numbered, Decided, Written, Doc, Matches
<1> QED
  BY <1>2, <1>3, <1>4, <1>5

LEMMA InsertKeeps ==
    ASSUME IInv, NEW a \in Apps, Insert(a), UNCHANGED app
    PROVE  IInv'
<1> USE DEF Insert, IInv, Reply, app
<1>1. Doc(a) \in Docs
  BY DEF Addressed, StoreSteps
<1>2. ServerTypes'
  <2>1. CASE rows[Doc(a)].state = "none"
    <3>1. Row("live", 1, counter + 1, req[a].data) \in RowType
      BY DEF ServerTypes, Addressed, StoreSteps, Row, RowType
    <3>2. locks' \in [Docs -> Apps \union {"nobody"}] /\ pending' \in [Apps -> RowType]
      BY <2>1, <3>1 DEF ServerTypes
    <3>3. pc' = [pc EXCEPT ![a] = "commit"] /\ counter' = counter + 1
      BY <2>1
    <3>4. pc' \in [Apps -> Steps] /\ counter' \in Nat
      BY <3>3 DEF ServerTypes, Steps, StoreSteps
    <3>5. UNCHANGED <<rows, req, answer>>
      BY <2>1
    <3> QED
      BY <3>2, <3>4, <3>5 DEF ServerTypes
  <2>2. CASE rows[Doc(a)].state # "none"
    <3>1. pc' \in [Apps -> Steps] /\ answer' \in [Apps -> AnswerType]
      BY <2>2, ReplyType DEF Outcomes
    <3> QED
      BY <2>2, <3>1 DEF ServerTypes
  <2> QED
    BY <2>1, <2>2
<1>3. Addressed'
  BY DEF ServerTypes, Addressed, StoreSteps, Doc
<1>4. Holders'
  <2>1. ASSUME locks[Doc(a)] = "nobody", NEW b \in Apps, pc[b] \in {"update", "commit"}
        PROVE  Doc(b) # Doc(a)
    BY <2>1, StoreAssumption DEF Holders, StoreAssumption
  <2>2. ASSUME NEW b \in Apps, pc'[b] \in {"update", "commit"}
        PROVE  locks'[Doc(b)'] = b
    <3>1. CASE b = a
      BY <1>1, <2>2, <3>1 DEF ServerTypes, Doc
    <3>2. CASE b # a
      <4>1. pc'[b] = pc[b] /\ Doc(b)' = Doc(b) /\ locks[Doc(b)] = b
        BY <2>2, <3>2 DEF ServerTypes, Holders, Doc
      <4>2. Doc(b) \in Docs /\ Doc(b) # Doc(a)
        BY <2>1, <2>2, <4>1 DEF Addressed, StoreSteps
      <4>3. locks'[Doc(b)] = locks[Doc(b)]
        BY <4>2 DEF ServerTypes
      <4> QED
        BY <4>1, <4>3
    <3> QED
      BY <3>1, <3>2
  <2> QED
    BY <2>2 DEF Holders, Doc
<1>5. Numbered' /\ Decided'
  BY <1>1 DEF ServerTypes, Numbered, Decided, Doc, RowType
<1>6. Written'
  BY <1>1 DEF ServerTypes, Numbered, Written, NextVersion, Doc, Row, RowType
<1> QED
  BY <1>2, <1>3, <1>4, <1>5, <1>6

LEMMA UpdateKeeps ==
    ASSUME IInv, NEW a \in Apps, Update(a), UNCHANGED app
    PROVE  IInv'
<1> USE DEF Update, IInv, app
<1>1. Doc(a) \in Docs
  BY DEF Addressed, StoreSteps
<1>2. ServerTypes'
  <2>1. Updated(req[a], rows[Doc(a)], counter + 1) \in RowType
    BY <1>1 DEF ServerTypes, Addressed, StoreSteps, Updated, Row, RowType, RequestType
  <2> QED
    BY <2>1 DEF ServerTypes, Steps, StoreSteps
<1>3. Addressed' /\ Holders'
  BY DEF ServerTypes, Addressed, Holders, StoreSteps, Doc
<1>4. Numbered' /\ Decided'
  BY DEF ServerTypes, Numbered, Decided, Doc, RowType
<1>5. Written'
  BY <1>1 DEF ServerTypes, Numbered, Decided, Written, NextVersion, Updated, Doc, Row, RowType
<1> QED
  BY <1>2, <1>3, <1>4, <1>5

LEMMA CommitKeeps ==
    ASSUME IInv, NEW a \in Apps, Commit(a), UNCHANGED app
    PROVE  IInv'
<1> USE DEF Commit, IInv, Reply, app
<1>1. Doc(a) \in Docs /\ locks[Doc(a)] = a
  BY DEF Addressed, StoreSteps, Holders
<1>2. ServerTypes'
  BY <1>1 DEF ServerTypes, Steps, StoreSteps, Answer, AnswerType, Outcomes, NoRow, Row, RowType
<1>3. Addressed'
  BY DEF ServerTypes, Addressed, StoreSteps, Doc
<1>4. ASSUME NEW b \in Apps, b # a, pc[b] \in {"update", "commit"}
      PROVE  Doc(b) # Doc(a)
  BY <1>1, <1>4 DEF Holders
<1>5. Holders'
  BY <1>1, <1>4 DEF ServerTypes, Holders, Doc
<1>6. Numbered'
  BY <1>1 DEF ServerTypes, Numbered, Written, NextVersion, RowType, Doc
<1>7. Decided' /\ Written'
  BY <1>1, <1>4 DEF ServerTypes, Decided, Written, Doc, Matches
<1> QED
  BY <1>2, <1>3, <1>5, <1>6, <1>7

LEMMA RollbackKeeps ==
    ASSUME IInv, NEW a \in Apps, Rollback(a), UNCHANGED app
    PROVE  IInv'
<1> USE DEF Rollback, IInv, Reply, app
<1>1. ServerTypes'
  BY DEF ServerTypes, Steps, StoreSteps, Answer, AnswerType, Outcomes, NoRow, Row, RowType
<1>2. Addressed'
  BY DEF ServerTypes, Addressed, StoreSteps, Doc
<1>3. Holders'
  BY DEF ServerTypes, Addressed, Holders, Doc, StoreSteps
<1>4. Numbered' /\ Decided' /\ Written'
  BY DEF ServerTypes, Numbered, Decided, Written, Doc, Matches
<1> QED
  BY <1>1, <1>2, <1>3, <1>4

LEMMA LoseReplyKeeps ==
    ASSUME IInv, NEW a \in Apps, LoseReply(a), UNCHANGED app
    PROVE  IInv'
<1> USE DEF LoseReply, IInv, server, app
<1>1. ServerTypes'
  BY DEF ServerTypes, Answer, AnswerType, Outcomes
<1>2. Addressed' /\ Holders' /\ Numbered' /\ Decided' /\ Written'
  BY DEF Addressed, Holders, Numbered, Decided, Written, Doc, Matches
<1> QED
  BY <1>1, <1>2

LEMMA TransactKeeps ==
    ASSUME IInv, NEW a \in Apps, Transact(a) \/ Rollback(a) \/ LoseReply(a), UNCHANGED app
    PROVE  IInv'
BY LockNothingKeeps, LockRowKeeps, InsertKeeps, UpdateKeeps, CommitKeeps,
   RollbackKeeps, LoseReplyKeeps DEF Transact

-----------------------------------------------------------------------------
(* The steps outside of transactions.                                       *)

\* A step of the app or its user: the server's part stays, and nobody but
\* app a moves, from outside a transaction to outside one.
Outside(a) ==
    /\ UNCHANGED <<rows, locks, counter, pending>>
    /\ pc' \in [Apps -> Steps]
    /\ ~InTransaction(a) /\ ~InTransaction(a)'
    /\ \A b \in Apps : b # a => pc'[b] = pc[b] /\ req'[b] = req[b]

LEMMA OutsideKeeps ==
    ASSUME IInv, NEW a \in Apps, Outside(a)
    PROVE  Holders' /\ Numbered' /\ Decided' /\ Written'
<1> USE DEF IInv, Outside, InTransaction
<1>1. \A b \in Apps : pc'[b] \in {"update", "commit"} => b # a /\ pc'[b] = pc[b] /\ req'[b] = req[b]
  OBVIOUS
<1> QED
  BY <1>1 DEF Holders, Numbered, Decided, Written, Doc, Matches

\* An app sends a request.
LEMMA SendKeeps ==
    ASSUME IInv, NEW a \in Apps, ~InTransaction(a),
           NEW r \in RequestType, Send(a, r),
           r.doc \in Docs, r.op = "put" => r.data \in Values, r.op = "delete" => r.base > 0,
           UNCHANGED <<server, pending, local, page, mine>>
    PROVE  IInv'
<1> USE DEF IInv, Send, server
<1>1. ServerTypes'
  BY DEF ServerTypes, Steps, StoreSteps, NoAnswer, Answer, AnswerType, Outcomes
<1>2. Addressed'
  BY DEF ServerTypes, Addressed, Doc, StoreSteps
<1>3. \A b \in Apps : pc'[b] \in {"update", "commit"} => pc'[b] = pc[b] /\ req'[b] = req[b]
  BY DEF ServerTypes
<1>4. Holders' /\ Numbered' /\ Decided' /\ Written'
  BY <1>3 DEF Holders, Numbered, Decided, Written, Doc, Matches
<1> QED
  BY <1>1, <1>2, <1>4

\* A step outside of transactions that keeps the requests.
LEMMA AppKeeps ==
    ASSUME IInv, NEW a \in Apps, Outside(a),
           pc'[a] \in StoreSteps => pc[a] \in StoreSteps,
           \/ UNCHANGED <<req, answer>>
           \/ Forget(a) /\ pc'[a] \notin StoreSteps,
           local' \in [Apps -> [Docs -> Copies]], page' \in [Apps -> [Docs -> RowType]],
           mine' \in [Apps -> [Docs -> Copies]]
    PROVE  IInv'
<1>1. ServerTypes'
  <2>1. NoRequest \in RequestType /\ NoAnswer \in AnswerType
    BY DEF NoRequest, Request, RequestType, NoAnswer, Answer, AnswerType, Outcomes
  <2>2. req' \in [Apps -> RequestType] /\ answer' \in [Apps -> AnswerType]
    BY <2>1 DEF IInv, ServerTypes, Forget
  <2> QED
    BY <2>2 DEF IInv, Outside, ServerTypes
<1>2. Addressed'
  BY DEF IInv, Outside, ServerTypes, Addressed, Forget, NoRequest, Request, StoreSteps, Doc, InTransaction
<1> QED
  BY <1>1, <1>2, OutsideKeeps DEF IInv

LEMMA UserStepKeeps ==
    ASSUME IInv, NEW a \in Apps, UserStep(a)
    PROVE  IInv'
<1>1. CASE ListRows(a)
  <2>1. page' \in [Apps -> [Docs -> RowType]]
    BY <1>1 DEF ListRows, IInv, ServerTypes, NoRow, Row, RowType
  <2> QED
    BY <1>1, <2>1, AppKeeps
       DEF ListRows, StartCall, IInv, ServerTypes, Outside, InTransaction, Steps, StoreSteps, server, request
<1>2. ASSUME NEW d \in Docs, NEW v \in Copies, Change(a, d, v)
      PROVE  IInv'
  <2>1. local' \in [Apps -> [Docs -> Copies]]
    BY <1>2 DEF Change, IInv, ServerTypes
  <2>2. UNCHANGED <<server, pc, request, page, mine>>
    BY <1>2 DEF Change
  <2> QED
    BY <2>1, <2>2 DEF IInv, ServerTypes, Addressed, Holders, Numbered, Decided, Written,
                      NextVersion, Doc, Matches, server, request
<1>3. ASSUME NEW d \in Docs, Share(a, d)
      PROVE  IInv'
  <2>1. page' \in [Apps -> [Docs -> RowType]] /\ mine' \in [Apps -> [Docs -> Copies]]
    BY <1>3 DEF Share, IInv, ServerTypes, NoRow, Row, RowType
  <2> QED
    BY <1>3, <2>1, AppKeeps
       DEF Share, StartCall, IInv, ServerTypes, Outside, InTransaction, Steps, StoreSteps, server, request
<1>4. ASSUME NEW d \in Docs, Remove(a, d)
      PROVE  IInv'
  <2>1. /\ Request("delete", d, "none", rows[d].revision, 1) \in RequestType
        /\ rows[d].revision > 0
    BY <1>4 DEF Remove, IInv, ServerTypes, Numbered, Request, RequestType, RowType
  <2> QED
    BY <1>4, <2>1, SendKeeps DEF Remove, StartCall, Request, InTransaction, app
<1> QED
  BY <1>1, <1>2, <1>3, <1>4 DEF UserStep, Create, Edit, Discard, Copies

LEMMA AdvanceKeeps ==
    ASSUME IInv, NEW a \in Apps, Advance(a)
    PROVE  IInv'
<1> USE DEF IInv, ServerTypes, Outside, InTransaction, Steps, StoreSteps, server, request, Answered
<1>1. CASE ListLatest(a)
  BY <1>1, AppKeeps DEF ListLatest
<1>2. CASE Apply(a)
  <2>1. local' \in [Apps -> [Docs -> Copies]]
    BY <1>2 DEF Apply, Shown, Copies, RowType
  <2> QED
    BY <1>2, <2>1, AppKeeps DEF Apply
<1>3. CASE ReadLocal(a)
  BY <1>3, AppKeeps DEF ReadLocal
<1>4. CASE Push(a)
  <2>1. PICK d \in Docs : mine[a][d] # "none"
                        /\ Send(a, Request("put", d, mine[a][d], page[a][d].revision, 1))
    BY <1>4 DEF Push
  <2>2. mine[a][d] \in Values /\ page[a][d].revision \in Nat
    BY <2>1 DEF Copies, RowType
  <2>3. Request("put", d, mine[a][d], page[a][d].revision, 1) \in RequestType
    BY <2>2 DEF Request, RequestType
  <2> QED
    BY <1>4, <2>1, <2>2, <2>3, SendKeeps DEF Push, Request, app
<1>5. CASE PushEnd(a) \/ PushFailed(a) \/ RemoveEnd(a)
  <2>1. NoPage \in [Docs -> RowType] /\ NoCopies \in [Docs -> Copies]
    BY DEF NoPage, NoCopies, Copies, NoRow, Row, RowType
  <2>2. /\ EndCall(a) /\ UNCHANGED <<server, pending, local>>
        /\ pc[a] \in {"push", "reply"}
    BY <1>5 DEF PushEnd, PushFailed, RemoveEnd
  <2>3. Outside(a) /\ Forget(a) /\ pc'[a] \notin StoreSteps
    <3>1. Forget(a) /\ pc' = [pc EXCEPT ![a] = "idle"]
      BY <2>2 DEF EndCall
    <3> QED
      BY <2>2, <3>1 DEF Forget
  <2>4. local' \in [Apps -> [Docs -> Copies]] /\ page' \in [Apps -> [Docs -> RowType]]
        /\ mine' \in [Apps -> [Docs -> Copies]]
    BY <2>1, <2>2 DEF EndCall
  <2> HIDE DEF Outside, StoreSteps
  <2> QED
    BY <2>3, <2>4, AppKeeps
<1>6. CASE Retry(a)
  <2>1. Doc(a) \in Docs /\ req[a].data \in Values /\ answer[a].revision \in Nat
    BY <1>6 DEF Retry, Addressed, AnswerType
  <2>2. Request("put", Doc(a), req[a].data, answer[a].revision, 2) \in RequestType
    BY <2>1 DEF Request, RequestType
  <2>3. /\ Send(a, Request("put", Doc(a), req[a].data, answer[a].revision, 2))
        /\ UNCHANGED <<server, pending, app>> /\ pc[a] = "reply"
    BY <1>6 DEF Retry
  <2> QED
    BY <2>1, <2>2, <2>3, SendKeeps DEF Request, app
<1>7. CASE Pushed(a)
  <2>1. mine' \in [Apps -> [Docs -> Copies]]
    BY <1>7 DEF Pushed, Copies
  <2>2. Outside(a) /\ Forget(a) /\ pc'[a] \notin StoreSteps /\ UNCHANGED <<local, page>>
    BY <1>7 DEF Pushed, Forget
  <2> HIDE DEF Outside, StoreSteps
  <2> QED
    BY <2>1, <2>2, AppKeeps
<1>8. CASE Transact(a) /\ UNCHANGED <<app, history>>
  BY <1>8, TransactKeeps
<1> QED
  BY <1>1, <1>2, <1>3, <1>4, <1>5, <1>6, <1>7, <1>8 DEF Advance

LEMMA StepKeeps == IInv /\ [Next]_vars => IInv'
<1> SUFFICES ASSUME IInv, [Next]_vars PROVE IInv'
  OBVIOUS
<1>1. ASSUME NEW a \in Apps, UserStep(a) \/ Advance(a) \/ Fail(a)
      PROVE  IInv'
  BY <1>1, UserStepKeeps, AdvanceKeeps, TransactKeeps DEF Fail
<1>2. CASE UNCHANGED vars
  BY <1>2 DEF vars, server, request, app, history, IInv, ServerTypes, Addressed, Holders, Numbered,
              Decided, Written, NextVersion, Doc, Matches
<1> QED
  BY <1>1, <1>2 DEF Next

LEMMA Invariance == Spec => []IInv
BY InitIInv, StepKeeps, PTL DEF Spec

-----------------------------------------------------------------------------

\* Of overlapping transactions those that commit do so on the very row they
\* were based on (documents.rs: current_row FOR UPDATE, then the check of
\* base_revision).
THEOREM WritesCompareAndSwap == Spec => CompareAndSwap
<1>1. IInv /\ [Next]_vars =>
        [\A a \in Apps : Commit(a) =>
           (rows[Doc(a)].state # "none" => req[a].base = rows[Doc(a)].revision)]_vars
  <2> SUFFICES ASSUME IInv, NEW a \in Apps, Commit(a), rows[Doc(a)].state # "none"
               PROVE  req[a].base = rows[Doc(a)].revision
    OBVIOUS
  <2>1. Matches(req[a], rows[Doc(a)]) /\ (req[a].op = "delete" => req[a].base > 0)
    BY DEF IInv, Written, Addressed, Commit
  <2> QED
    BY <2>1 DEF Matches
<1> QED
  BY <1>1, Invariance, PTL DEF Spec, CompareAndSwap

\* Every change of a row, by whatever transaction of whatever app, is one step
\* of the versioned register.
LEMMA RowSteps ==
    ASSUME IInv, [Next]_vars, NEW d \in Docs
    PROVE  [Register(d)!Next]_(rows[d])
<1>1. ASSUME NEW a \in Apps, Commit(a)
      PROVE  [Register(d)!Next]_(rows[d])
  <2>1. CASE d # Doc(a)
    BY <1>1, <2>1 DEF Commit, IInv, ServerTypes
  <2>2. CASE d = Doc(a)
    <3>1. rows'[d] = pending[a] /\ NextVersion(rows[d], pending[a])
      BY <1>1, <2>2 DEF Commit, IInv, ServerTypes, Written
    <3> QED
      BY <3>1 DEF NextVersion, Register!Next, Register!Create, Register!Write, Register!Remove,
                  Register!Advances
  <2> QED
    BY <2>1, <2>2
<1>2. ASSUME NEW a \in Apps, UserStep(a) \/ (Advance(a) /\ ~Commit(a)) \/ Fail(a)
      PROVE  UNCHANGED rows
  BY <1>2 DEF UserStep, Advance, Fail, Transact, ListRows, Share, Remove, Discard, Create, Edit, Change,
     ListLatest, Apply, ReadLocal, Push, PushEnd, Retry, Pushed, PushFailed, RemoveEnd, LockNothing,
     LockRow, Insert, Update, Rollback, LoseReply, server
<1>3. CASE UNCHANGED vars
  BY <1>3 DEF vars, server
<1> QED
  BY <1>1, <1>2, <1>3 DEF Next, Advance, Transact

\* The table implements a versioned register per document (KeepsVersions).
THEOREM DocumentsAreVersioned == Spec => KeepsVersions
<1>1. Init => \A d \in Docs : Register(d)!Init
  BY DEF Init, StoreInit, NoRow, Row, Register!Init
<1>2. IInv /\ [Next]_vars => [\A d \in Docs : [Register(d)!Next]_(rows[d])]_vars
  BY RowSteps
<1> QED
  BY <1>1, <1>2, Invariance, PTL DEF Spec, KeepsVersions

-----------------------------------------------------------------------------
(* Apps whose calls do not overlap: the invariant.                          *)

\* The types of the history and of what an app has been told of the sequence.
Rest ==
    /\ cursor \in [Apps -> Nat]
    /\ latest \in [Apps -> Nat]
    /\ born \subseteq Docs
    /\ touched \in [Apps -> SUBSET Docs]
    /\ overlapped \in BOOLEAN
    /\ calls \in 0 .. MaxCalls
    /\ edits \in 0 .. MaxEdits

\* A cursor, and the newest seq of a pull, were taken from the sequence.
Seen == \A a \in Apps : cursor[a] <= counter /\ latest[a] <= counter

\* A put sends the copy the push has read, and writes what it sends; an app
\* that is not pushing has nothing left to send.
Carried ==
    \A a \in Apps :
        /\ pc[a] \in {"idle", "list_max", "apply", "read"} => mine[a] = NoCopies
        /\ pc[a] \in StoreSteps /\ req[a].op = "delete" => mine[a] = NoCopies
        /\ pc[a] \in StoreSteps /\ req[a].op = "put" => mine[a][Doc(a)] = req[a].data
        /\ pc[a] = "commit" /\ req[a].op = "put" =>
              pending[a].state = "live" /\ pending[a].data = req[a].data

\* What holds however calls overlap.
Kept == IInv /\ Rest /\ Seen /\ Carried

\* At most one app has a call under way.
Alone == \A a, b \in Apps : pc[a] # "idle" /\ pc[b] # "idle" => a = b

\* The rows of a pull are those past the cursor, and its newest seq covers all
\* the rows: so does the cursor, once they have been applied.
Pulls(a) ==
    \A d \in Docs :
        /\ pc[a] \in {"list_max", "apply"} =>
              page[a][d] = IF rows[d].seq > cursor[a] THEN rows[d] ELSE NoRow
        /\ pc[a] = "apply" => rows[d].seq <= latest[a]
        /\ pc[a] = "read" => rows[d].seq <= cursor[a]

\* No app has seen what is not committed yet.
Unseen(a) == pc[a] = "commit" => \A b \in Apps : cursor[b] < pending[a].seq

\* A deletion finds the live row it has read.
Removing(a) ==
    InTransaction(a) /\ req[a].op = "delete" => rows[Doc(a)].state = "live"

\* A put that succeeded has stored its data.
Stored(a) ==
    pc[a] = "reply" /\ answer[a].outcome = "ok" /\ req[a].op = "put" =>
        rows[Doc(a)].state = "live" /\ rows[Doc(a)].data = req[a].data

\* A push sends what the workspace has, or what its user changed or shared.
Founded(a) ==
    \A d \in Docs :
        mine[a][d] # "none" /\ rows[d].state # "none" /\ d \notin touched[a] =>
            mine[a][d] = Shown(rows[d])

CallSound(a) == Pulls(a) /\ Unseen(a) /\ Removing(a) /\ Stored(a) /\ Founded(a)

Calm == Alone /\ (\A a \in Apps : CallSound(a)) /\ CopiesCurrent

SyncInv == Kept /\ (~overlapped => Calm)

-----------------------------------------------------------------------------
(* The largest of a bounded set of numbers.                                 *)

LEMMA LessIsRelated ==
    ASSUME NEW y \in Nat, NEW m \in Nat, y < m
    PROVE  <<y, m>> \in OpToRel(<, Nat)
BY DEF OpToRel

\* Max of a set of numbers up to c, by the least distance from c.
LEMMA MaxOfBounded ==
    ASSUME NEW c \in Nat, NEW S \in SUBSET (0 .. c), S # {}
    PROVE  Max(S) \in S /\ \A y \in S : Max(S) >= y
<1> DEFINE T == {c - x : x \in S}
<1>1. T \subseteq Nat
  OBVIOUS
<1>2. T # {}
  <2>1. PICK x : x \in S
    OBVIOUS
  <2>2. c - x \in T
    BY <2>1
  <2> QED
    BY <2>2
<1>3. \E m \in T : \A y \in T : ~ (<<y, m>> \in OpToRel(<, Nat))
  BY <1>1, <1>2, NatLessThanWellFounded, WFMin
<1>4. PICK m \in T : \A y \in T : ~(y < m)
  BY <1>1, <1>3, LessIsRelated
<1>5. PICK x \in S : m = c - x
  OBVIOUS
<1>6. \A y \in S : x >= y
  <2> SUFFICES ASSUME NEW y \in S PROVE x >= y
    OBVIOUS
  <2>1. ~(c - y < m)
    BY <1>4
  <2> QED
    BY <1>5, <2>1
<1> QED
  BY <1>6 DEF Max

LEMMA MaxOfTwo ==
    ASSUME NEW m \in Nat, NEW n \in Nat
    PROVE  Max({m, n}) \in {m, n} /\ Max({m, n}) >= m /\ Max({m, n}) >= n
<1>1. \E x \in {m, n} : \A y \in {m, n} : x >= y
  <2>1. CASE m >= n
    BY <2>1
  <2>2. CASE n >= m
    BY <2>2
  <2> QED
    BY <2>1, <2>2
<1> QED
  BY <1>1 DEF Max

\* The newest seq of the workspace was taken from the sequence.
LEMMA NewestSeq ==
    ASSUME ServerTypes, Numbered
    PROVE  LET n == Max({0} \union {rows[d].seq : d \in Docs})
           IN  n \in 0 .. counter /\ \A d \in Docs : rows[d].seq <= n
<1> DEFINE S == {0} \union {rows[d].seq : d \in Docs}
<1>1. \A d \in Docs : rows[d].seq \in 0 .. counter
  BY DEF ServerTypes, Numbered, RowType
<1>2. S \in SUBSET (0 .. counter) /\ S # {} /\ counter \in Nat
  BY <1>1 DEF ServerTypes
<1>3. Max(S) \in S /\ \A y \in S : Max(S) >= y
  BY <1>2, MaxOfBounded
<1>4. \A d \in Docs : rows[d].seq \in S
  OBVIOUS
<1> HIDE DEF S
<1>5. Max(S) \in 0 .. counter /\ \A d \in Docs : rows[d].seq <= Max(S)
  BY <1>1, <1>2, <1>3, <1>4
<1> QED
  BY <1>5 DEF S

-----------------------------------------------------------------------------
(* What holds however calls overlap.                                        *)

LEMMA InitKept == Init => Kept
<1> SUFFICES ASSUME Init PROVE Kept
  OBVIOUS
<1>1. Rest
  <2>1. overlapped \in BOOLEAN
    BY Zenon DEF Init
  <2> QED
    BY <2>1, SyncAssumption DEF Init, Rest, SyncAssumption
<1>2. Seen /\ Carried
  BY DEF Init, StoreInit, Seen, Carried, StoreSteps
<1> QED
  BY <1>1, <1>2, InitIInv DEF Kept

\* A call starts: the bound on calls is kept.
LEMMA StartRest ==
    ASSUME Rest, NEW a \in Apps, StartCall(a)
    PROVE  overlapped' \in BOOLEAN /\ calls' \in 0 .. MaxCalls
<1>1. overlapped' \in BOOLEAN
  BY Zenon DEF StartCall
<1>2. calls' \in 0 .. MaxCalls
  BY SyncAssumption DEF StartCall, Rest, SyncAssumption
<1> QED
  BY <1>1, <1>2

LEMMA ApplyRest ==
    ASSUME Rest, NEW a \in Apps, Apply(a)
    PROVE  /\ cursor' \in [Apps -> Nat]
           /\ cursor'[a] >= cursor[a] /\ cursor'[a] >= latest[a]
           /\ cursor'[a] \in {cursor[a], latest[a]}
           /\ \A b \in Apps : b # a => cursor'[b] = cursor[b]
<1> DEFINE n == Max({cursor[a], latest[a]})
<1>1. cursor[a] \in Nat /\ latest[a] \in Nat
  BY DEF Rest
<1>2. n \in {cursor[a], latest[a]} /\ n >= cursor[a] /\ n >= latest[a]
  BY <1>1, MaxOfTwo
<1>3. cursor' = [cursor EXCEPT ![a] = n]
  BY DEF Apply
<1> HIDE DEF n
<1> QED
  BY <1>1, <1>2, <1>3 DEF Rest

LEMMA RestStep == IInv /\ Rest /\ [Next]_vars => Rest'
<1> SUFFICES ASSUME IInv, Rest, [Next]_vars PROVE Rest'
  OBVIOUS
<1>1. ASSUME NEW a \in Apps, UserStep(a) PROVE Rest'
  <2>1. ASSUME ListRows(a) PROVE Rest'
    BY <2>1, StartRest DEF ListRows, Rest
  <2>2. ASSUME NEW d \in Docs, NEW v, Change(a, d, v), born' \subseteq Docs PROVE Rest'
    BY <2>2, SyncAssumption DEF Change, Rest, SyncAssumption
  <2>3. ASSUME NEW d \in Docs, Share(a, d) PROVE Rest'
    BY <2>3, StartRest DEF Share, Rest
  <2>4. ASSUME NEW d \in Docs, Remove(a, d) PROVE Rest'
    BY <2>4, StartRest DEF Remove, Rest, app
  <2> QED
    BY <1>1, <2>1, <2>2, <2>3, <2>4 DEF UserStep, Create, Edit, Discard, Rest
<1>2. ASSUME NEW a \in Apps, Advance(a) PROVE Rest'
  <2>1. CASE ListLatest(a)
    <3>1. Max({0} \union {rows[d].seq : d \in Docs}) \in Nat
      BY NewestSeq DEF IInv, ServerTypes
    <3> QED
      BY <2>1, <3>1 DEF ListLatest, Rest, history
  <2>2. CASE Apply(a)
    BY <2>2, ApplyRest DEF Apply, Rest
  <2>3. CASE ReadLocal(a) \/ Push(a) \/ Retry(a)
    BY <2>3 DEF ReadLocal, Push, Retry, Rest, history, app
  <2>4. CASE PushEnd(a) \/ PushFailed(a) \/ RemoveEnd(a)
    BY <2>4 DEF PushEnd, PushFailed, RemoveEnd, EndCall, Rest, history
  <2>5. CASE Pushed(a)
    BY <2>5 DEF Pushed, Rest
  <2>6. CASE Transact(a) /\ UNCHANGED <<app, history>>
    BY <2>6 DEF Rest, app, history
  <2> QED
    BY <1>2, <2>1, <2>2, <2>3, <2>4, <2>5, <2>6 DEF Advance
<1>3. ASSUME NEW a \in Apps, Fail(a) PROVE Rest'
  BY <1>3 DEF Fail, Rest, app, history
<1>4. CASE UNCHANGED vars
  BY <1>4 DEF vars, Rest, app, history
<1> QED
  BY <1>1, <1>2, <1>3, <1>4 DEF Next

\* The sequence only grows.
LEMMA CounterGrows == IInv /\ [Next]_vars => counter' \in Nat /\ counter <= counter'
<1> SUFFICES ASSUME IInv, [Next]_vars PROVE counter' \in Nat /\ counter <= counter'
  OBVIOUS
<1>1. ASSUME NEW a \in Apps, Insert(a) \/ Update(a) PROVE counter' = counter + 1
  BY <1>1 DEF Insert, Update
<1>2. ASSUME NEW a \in Apps, UserStep(a) \/ (Advance(a) /\ ~Insert(a) /\ ~Update(a)) \/ Fail(a)
      PROVE  UNCHANGED counter
  BY <1>2 DEF UserStep, Advance, Fail, Transact, ListRows, Share, Remove, Discard, Create, Edit, Change,
     ListLatest, Apply, ReadLocal, Push, PushEnd, Retry, Pushed, PushFailed, RemoveEnd, LockNothing,
     LockRow, Commit, Rollback, LoseReply, server
<1>3. CASE UNCHANGED vars
  BY <1>3 DEF vars, server, IInv, ServerTypes
<1> QED
  BY <1>1, <1>2, <1>3 DEF Next, Advance, Transact, IInv, ServerTypes

LEMMA SeenStep == IInv /\ Rest /\ Seen /\ [Next]_vars => Seen'
<1> SUFFICES ASSUME IInv, Rest, Seen, [Next]_vars PROVE Seen'
  OBVIOUS
<1>1. ASSUME \A b \in Apps : cursor'[b] \in 0 .. counter /\ latest'[b] \in 0 .. counter
      PROVE  Seen'
  BY <1>1, CounterGrows DEF Seen, IInv, ServerTypes
<1>2. \A b \in Apps : cursor[b] \in 0 .. counter /\ latest[b] \in 0 .. counter
  BY DEF Rest, Seen, IInv, ServerTypes
<1>3. ASSUME NEW a \in Apps, ListLatest(a) PROVE Seen'
  <2> DEFINE n == Max({0} \union {rows[d].seq : d \in Docs})
  <2>1. n \in 0 .. counter
    BY NewestSeq DEF IInv
  <2>2. latest' = [latest EXCEPT ![a] = n] /\ cursor' = cursor
    BY <1>3 DEF ListLatest
  <2> HIDE DEF n
  <2> QED
    BY <1>1, <1>2, <2>1, <2>2 DEF Rest
<1>4. ASSUME NEW a \in Apps, Apply(a) PROVE Seen'
  <2>1. latest' = latest
    BY <1>4 DEF Apply
  <2>2. \A b \in Apps : cursor'[b] \in {cursor[b], latest[b]}
    BY <1>4, ApplyRest
  <2> QED
    BY <1>1, <1>2, <2>1, <2>2
<1>5. ASSUME NEW a \in Apps, PushEnd(a) \/ PushFailed(a) \/ RemoveEnd(a) PROVE Seen'
  <2>1. latest' = [latest EXCEPT ![a] = 0] /\ cursor' = cursor
    BY <1>5 DEF PushEnd, PushFailed, RemoveEnd, EndCall
  <2>2. \A b \in Apps : latest'[b] \in {latest[b], 0} /\ cursor'[b] = cursor[b]
    BY <2>1 DEF Rest
  <2>3. 0 \in 0 .. counter
    BY DEF IInv, ServerTypes
  <2> QED
    BY <1>1, <1>2, <2>2, <2>3
<1>6. ASSUME UNCHANGED <<cursor, latest>> PROVE Seen'
  BY <1>1, <1>2, <1>6
<1>7. ASSUME NEW a \in Apps,
             \/ UserStep(a) \/ Fail(a) \/ ReadLocal(a) \/ Push(a) \/ Retry(a) \/ Pushed(a)
             \/ UNCHANGED app
      PROVE  UNCHANGED <<cursor, latest>>
  BY <1>7 DEF UserStep, Fail, ListRows, Share, Remove, Discard, Create, Edit, Change, ReadLocal,
     Push, Retry, Pushed, app
<1>8. CASE UNCHANGED vars
  BY <1>6, <1>8 DEF vars, app
<1> QED
  BY <1>3, <1>4, <1>5, <1>6, <1>7, <1>8 DEF Next, Advance

\* What app a carries, when it alone moves.
LEMMA OthersCarry ==
    ASSUME Carried, NEW a \in Apps,
           \A b \in Apps : b # a => /\ pc'[b] = pc[b] /\ req'[b] = req[b]
                                    /\ mine'[b] = mine[b] /\ pending'[b] = pending[b],
           pc'[a] \in {"idle", "list_max", "apply", "read"} => mine'[a] = NoCopies,
           pc'[a] \in StoreSteps /\ req'[a].op = "delete" => mine'[a] = NoCopies,
           pc'[a] \in StoreSteps /\ req'[a].op = "put" => mine'[a][Doc(a)'] = req'[a].data,
           pc'[a] = "commit" /\ req'[a].op = "put" =>
              pending'[a].state = "live" /\ pending'[a].data = req'[a].data
    PROVE  Carried'
<1> SUFFICES ASSUME NEW b \in Apps
             PROVE  /\ pc'[b] \in {"idle", "list_max", "apply", "read"} => mine'[b] = NoCopies
                    /\ pc'[b] \in StoreSteps /\ req'[b].op = "delete" => mine'[b] = NoCopies
                    /\ pc'[b] \in StoreSteps /\ req'[b].op = "put" =>
                          mine'[b][Doc(b)'] = req'[b].data
                    /\ pc'[b] = "commit" /\ req'[b].op = "put" =>
                          pending'[b].state = "live" /\ pending'[b].data = req'[b].data
  BY DEF Carried
<1>1. CASE b = a
  BY <1>1
<1>2. CASE b # a
  BY <1>2 DEF Carried, Doc
<1> QED
  BY <1>1, <1>2

LEMMA TransactCarries ==
    ASSUME IInv, Carried, NEW a \in Apps, Transact(a) \/ Rollback(a) \/ LoseReply(a),
           UNCHANGED <<app, history>>
    PROVE  Carried'
<1> USE DEF IInv, ServerTypes, Reply, server, app, history
<1>1. CASE LockNothing(a)
  BY <1>1 DEF LockNothing, Carried, StoreSteps, Doc
<1>2. CASE LockRow(a)
  BY <1>2 DEF LockRow, Carried, StoreSteps, Doc
<1>3. CASE Insert(a)
  <2>1. mine'[a] = mine[a] /\ req'[a] = req[a] /\ pc[a] \in StoreSteps /\ pc'[a] \in StoreSteps
    BY <1>3 DEF Insert, StoreSteps
  <2>2. \A b \in Apps : b # a => /\ pc'[b] = pc[b] /\ req'[b] = req[b]
                                 /\ mine'[b] = mine[b] /\ pending'[b] = pending[b]
    BY <1>3 DEF Insert
  <2>3. pc'[a] = "commit" => pending'[a].state = "live" /\ pending'[a].data = req'[a].data
    BY <1>3 DEF Insert, Row
  <2> QED
    BY <2>1, <2>2, <2>3, OthersCarry DEF Carried, Doc, StoreSteps
<1>4. CASE Update(a)
  <2>1. /\ mine'[a] = mine[a] /\ req'[a] = req[a] /\ pc[a] \in StoreSteps
        /\ pc'[a] = "commit"
    BY <1>4 DEF Update, StoreSteps
  <2>2. \A b \in Apps : b # a => /\ pc'[b] = pc[b] /\ req'[b] = req[b]
                                 /\ mine'[b] = mine[b] /\ pending'[b] = pending[b]
    BY <1>4 DEF Update
  <2>3. req[a].op = "put" => pending'[a].state = "live" /\ pending'[a].data = req'[a].data
    BY <1>4 DEF Update, Updated, Row
  <2> QED
    BY <2>1, <2>2, <2>3, OthersCarry DEF Carried, Doc, StoreSteps
<1>5. CASE Commit(a)
  BY <1>5 DEF Commit, Carried, StoreSteps, Doc
<1>6. CASE Rollback(a)
  BY <1>6 DEF Rollback, Carried, StoreSteps, Doc
<1>7. CASE LoseReply(a)
  BY <1>7 DEF LoseReply, Carried, StoreSteps, Doc
<1> QED
  BY <1>1, <1>2, <1>3, <1>4, <1>5, <1>6, <1>7 DEF Transact

LEMMA CarriedStep == IInv /\ Carried /\ [Next]_vars => Carried'
<1> SUFFICES ASSUME IInv, Carried, [Next]_vars PROVE Carried'
  OBVIOUS
<1> USE DEF IInv, ServerTypes, server, request, StoreSteps
<1>1. ASSUME NEW a \in Apps, ListRows(a) PROVE Carried'
  BY <1>1 DEF ListRows, StartCall, Carried, Doc
<1>2. ASSUME NEW a \in Apps, NEW d, NEW v, Change(a, d, v) PROVE Carried'
  BY <1>2 DEF Change, Carried, Doc
<1>3. ASSUME NEW a \in Apps, NEW d \in Docs, Share(a, d) PROVE Carried'
  BY <1>3 DEF Share, StartCall, Carried, Doc
<1>4. ASSUME NEW a \in Apps, NEW d \in Docs, Remove(a, d) PROVE Carried'
  BY <1>4 DEF Remove, StartCall, Send, Request, Carried, Doc, app
<1>5. ASSUME NEW a \in Apps, ListLatest(a) \/ Apply(a) \/ ReadLocal(a) PROVE Carried'
  BY <1>5 DEF ListLatest, Apply, ReadLocal, Carried, Doc
<1>6. ASSUME NEW a \in Apps, Push(a) PROVE Carried'
  BY <1>6 DEF Push, Send, Request, Carried, Doc, app
<1>7. ASSUME NEW a \in Apps, PushEnd(a) \/ PushFailed(a) \/ RemoveEnd(a) PROVE Carried'
  <2>1. EndCall(a) /\ UNCHANGED pending
    BY <1>7 DEF PushEnd, PushFailed, RemoveEnd
  <2> QED
    BY <2>1 DEF EndCall, Forget, Carried, Doc
<1>8. ASSUME NEW a \in Apps, Retry(a) PROVE Carried'
  BY <1>8 DEF Retry, Answered, Send, Request, Carried, Doc, app
<1>9. ASSUME NEW a \in Apps, Pushed(a) PROVE Carried'
  BY <1>9 DEF Pushed, Forget, Carried, Doc
<1>10. ASSUME NEW a \in Apps, Transact(a) \/ Rollback(a) \/ LoseReply(a),
              UNCHANGED <<app, history>>
       PROVE  Carried'
  BY <1>10, TransactCarries
<1>11. CASE UNCHANGED vars
  BY <1>11 DEF vars, app, history, Carried, Doc
<1> QED
  BY <1>1, <1>2, <1>3, <1>4, <1>5, <1>6, <1>7, <1>8, <1>9, <1>10, <1>11
     DEF Next, UserStep, Create, Edit, Discard, Advance, Fail

LEMMA KeptStep == Kept /\ [Next]_vars => Kept'
BY StepKeeps, RestStep, SeenStep, CarriedStep DEF Kept

-----------------------------------------------------------------------------
(* Calls that do not overlap.                                               *)

LEMMA OverlapStays == [Next]_vars /\ overlapped => overlapped'
<1> SUFFICES ASSUME [Next]_vars, overlapped PROVE overlapped'
  OBVIOUS
<1>1. ASSUME NEW a \in Apps, StartCall(a) PROVE overlapped'
  BY <1>1, Zenon DEF StartCall
<1>2. ASSUME UNCHANGED overlapped PROVE overlapped'
  BY <1>2, Zenon
<1>3. ASSUME NEW a \in Apps, UserStep(a) PROVE StartCall(a) \/ UNCHANGED overlapped
  BY <1>3 DEF UserStep, ListRows, Share, Remove, Create, Edit, Discard, Change
<1>4. ASSUME NEW a \in Apps, Advance(a) \/ Fail(a) PROVE UNCHANGED overlapped
  BY <1>4 DEF Advance, Fail, ListLatest, Apply, ReadLocal, Push, PushEnd, Retry, Pushed, PushFailed,
     RemoveEnd, history
<1>5. UNCHANGED vars => UNCHANGED overlapped
  BY DEF vars, history
<1>6. CASE UNCHANGED vars
  BY <1>2, <1>5, <1>6
<1>7. ASSUME NEW a \in Apps, UserStep(a) PROVE overlapped'
  BY <1>1, <1>2, <1>3, <1>7
<1>8. ASSUME NEW a \in Apps, Advance(a) \/ Fail(a) PROVE overlapped'
  BY <1>2, <1>4, <1>8
<1> QED
  BY <1>6, <1>7, <1>8 DEF Next

\* A call that starts while no other is under way.
LEMMA StartsAlone ==
    ASSUME NEW a \in Apps, StartCall(a), ~overlapped'
    PROVE  \A b \in Apps : pc[b] = "idle"
BY Zenon DEF StartCall

\* An app with no call under way.
LEMMA IdleSound ==
    ASSUME Kept', NEW b \in Apps, pc'[b] = "idle"
    PROVE  CallSound(b)'
<1>1. mine'[b] = NoCopies
  BY DEF Kept, Carried
<1>2. \A d \in Docs : mine'[b][d] = "none"
  BY <1>1 DEF NoCopies
<1> QED
  BY <1>2 DEF CallSound, Pulls, Unseen, Removing, Stored, Founded, InTransaction

\* When all the other apps are idle.
LEMMA OneMoves ==
    ASSUME Kept', NEW a \in Apps, \A b \in Apps : b # a => pc'[b] = "idle",
           CallSound(a)', CopiesCurrent'
    PROVE  Calm'
<1>1. Alone'
  BY DEF Alone
<1>2. ASSUME NEW b \in Apps PROVE CallSound(b)'
  BY <1>2, IdleSound
<1> QED
  BY <1>1, <1>2 DEF Calm

\* Rows, copies, cursors and what was touched stay.
LEMMA CopiesStay ==
    ASSUME CopiesCurrent, UNCHANGED <<rows, local, cursor, touched>>
    PROVE  CopiesCurrent'
BY DEF CopiesCurrent

\* The app in its call is the only one that is not idle.
LEMMA OthersIdle ==
    ASSUME Alone, NEW a \in Apps, pc[a] # "idle"
    PROVE  \A b \in Apps : b # a => pc[b] = "idle"
BY DEF Alone

-----------------------------------------------------------------------------
(* The pull.                                                                *)

LEMMA ListRowsCalm ==
    ASSUME Kept, Calm, Kept', NEW a \in Apps, ListRows(a), ~overlapped'
    PROVE  Calm'
<1>1. \A b \in Apps : pc[b] = "idle"
  BY StartsAlone DEF ListRows
<1>2. pc'[a] = "list_max" /\ \A b \in Apps : b # a => pc'[b] = "idle"
  BY <1>1 DEF ListRows, Kept, IInv, ServerTypes
<1>3. CopiesCurrent'
  BY CopiesStay DEF ListRows, Calm, server
<1>4. Pulls(a)'
  BY <1>2 DEF ListRows, Pulls, Kept, IInv, ServerTypes, server
<1>5. Founded(a)'
  BY <1>2 DEF Founded, Kept, Carried, NoCopies
<1>6. CallSound(a)'
  BY <1>2, <1>4, <1>5 DEF CallSound, Unseen, Removing, Stored, InTransaction
<1> QED
  BY <1>2, <1>3, <1>6, OneMoves

LEMMA ListLatestCalm ==
    ASSUME Kept, Calm, Kept', NEW a \in Apps, ListLatest(a)
    PROVE  Calm'
<1>1. pc'[a] = "apply" /\ \A b \in Apps : b # a => pc'[b] = "idle"
  BY OthersIdle DEF ListLatest, Calm, Kept, IInv, ServerTypes
<1>2. CopiesCurrent'
  BY CopiesStay DEF ListLatest, Calm, server, history
<1>3. \A d \in Docs : rows[d].seq <= latest'[a]
  BY NewestSeq DEF ListLatest, Kept, IInv, Rest
<1>4. Pulls(a)'
  BY <1>1, <1>3 DEF ListLatest, Pulls, Calm, CallSound, server
<1>5. Founded(a)'
  BY <1>1 DEF Founded, Kept, Carried, NoCopies
<1>6. CallSound(a)'
  BY <1>1, <1>4, <1>5 DEF CallSound, Unseen, Removing, Stored, InTransaction
<1> QED
  BY <1>1, <1>2, <1>6, OneMoves

LEMMA ApplyCalm ==
    ASSUME Kept, Calm, Kept', NEW a \in Apps, Apply(a)
    PROVE  Calm'
<1>1. pc'[a] = "read" /\ \A b \in Apps : b # a => pc'[b] = "idle"
  BY OthersIdle DEF Apply, Calm, Kept, IInv, ServerTypes
<1>2. UNCHANGED rows /\ Pulls(a) /\ pc[a] = "apply"
  BY DEF Apply, server, Calm, CallSound
<1>3. \A b \in Apps : cursor'[b] \in Nat /\ cursor[b] \in Nat
  BY ApplyRest DEF Kept, Rest
<1>4. /\ \A d \in Docs : rows[d].seq \in Nat
      /\ latest[a] \in Nat
  BY DEF Kept, Rest, IInv, ServerTypes, RowType
<1>5. Pulls(a)'
  BY <1>1, <1>2, <1>3, <1>4, ApplyRest DEF Pulls, Kept
<1>6. CopiesCurrent'
  <2> SUFFICES ASSUME NEW b \in Apps, NEW d \in Docs, rows[d].state # "none",
                      rows[d].seq <= cursor'[b], d \notin touched'[b]
               PROVE  local'[b][d] = Shown(rows[d])
    BY <1>2 DEF CopiesCurrent, Shown
  <2>1. CASE b # a
    <3>1. cursor'[b] = cursor[b]
      BY <2>1, ApplyRest DEF Kept
    <3>2. touched'[b] = touched[b] /\ local'[b] = local[b]
      BY <2>1 DEF Apply, Kept, Rest, IInv, ServerTypes
    <3> QED
      BY <3>1, <3>2 DEF Calm, CopiesCurrent
  <2>2. CASE b = a
    <3>1. local'[a] = [e \in Docs |-> IF e \in Pulled(a) THEN Shown(page[a][e]) ELSE local[a][e]]
          /\ touched'[a] = touched[a] \ Pulled(a)
      BY DEF Apply, Kept, Rest, IInv, ServerTypes
    <3>2. CASE rows[d].seq > cursor[a]
      <4>1. page[a][d] = rows[d]
        BY <1>2, <3>2 DEF Pulls
      <4> QED
        BY <2>2, <3>1, <4>1 DEF Pulled
    <3>3. CASE ~(rows[d].seq > cursor[a])
      <4>1. d \notin Pulled(a)
        BY <1>2, <3>3 DEF Pulls, Pulled, NoRow, Row
      <4>2. rows[d].seq <= cursor[a]
        BY <1>3, <1>4, <3>3
      <4> QED
        BY <2>2, <3>1, <4>1, <4>2 DEF Calm, CopiesCurrent
    <3> QED
      BY <3>2, <3>3
  <2> QED
    BY <2>1, <2>2
<1>7. Founded(a)'
  BY <1>1 DEF Founded, Kept, Carried, NoCopies
<1>8. CallSound(a)'
  BY <1>1, <1>5, <1>7 DEF CallSound, Unseen, Removing, Stored, InTransaction
<1> QED
  BY <1>1, <1>6, <1>8, OneMoves

-----------------------------------------------------------------------------
(* The push, sharing and removing.                                          *)

LEMMA ReadLocalCalm ==
    ASSUME Kept, Calm, Kept', NEW a \in Apps, ReadLocal(a)
    PROVE  Calm'
<1>1. pc'[a] = "push" /\ \A b \in Apps : b # a => pc'[b] = "idle"
  BY OthersIdle DEF ReadLocal, Calm, Kept, IInv, ServerTypes
<1>2. CopiesCurrent'
  BY CopiesStay DEF ReadLocal, Calm, server, history
<1>3. Founded(a)'
  <2>1. mine'[a] = local[a] /\ UNCHANGED <<rows, touched>> /\ pc[a] = "read"
    BY DEF ReadLocal, Kept, IInv, ServerTypes, server, history
  <2>2. \A d \in Docs : rows[d].seq <= cursor[a]
    BY <2>1 DEF Calm, CallSound, Pulls
  <2> QED
    BY <2>1, <2>2 DEF Founded, Calm, CopiesCurrent
<1>4. CallSound(a)'
  BY <1>1, <1>3 DEF CallSound, Pulls, Unseen, Removing, Stored, InTransaction
<1> QED
  BY <1>1, <1>2, <1>4, OneMoves

\* The next request of a push, or its retry.
LEMMA SendCalm ==
    ASSUME Kept, Calm, Kept', NEW a \in Apps, Push(a) \/ Retry(a)
    PROVE  Calm'
<1>1. /\ pc'[a] = "lock" /\ req'[a].op = "put" /\ \A b \in Apps : b # a => pc'[b] = "idle"
      /\ UNCHANGED <<server, pending, app, history>>
  BY OthersIdle DEF Push, Retry, Answered, Send, Request, Calm, Kept, IInv, ServerTypes
<1>2. CopiesCurrent'
  BY <1>1, CopiesStay DEF Calm, server, app, history
<1>3. Founded(a)'
  BY <1>1 DEF Founded, Calm, CallSound, server, app, history
<1>4. CallSound(a)'
  BY <1>1, <1>3 DEF CallSound, Pulls, Unseen, Removing, Stored, InTransaction
<1> QED
  BY <1>1, <1>2, <1>4, OneMoves

LEMMA EndCalm ==
    ASSUME Kept, Calm, Kept', NEW a \in Apps, PushEnd(a) \/ PushFailed(a) \/ RemoveEnd(a)
    PROVE  Calm'
<1>1. /\ pc[a] # "idle" /\ EndCall(a)
      /\ UNCHANGED <<server, pending, local, cursor, history>>
  BY DEF PushEnd, PushFailed, RemoveEnd, Answered
<1>2. pc'[a] = "idle" /\ \A b \in Apps : b # a => pc'[b] = "idle"
  BY <1>1, OthersIdle DEF EndCall, Calm, Kept, IInv, ServerTypes
<1>3. CopiesCurrent'
  BY <1>1, CopiesStay DEF Calm, server, history
<1>4. CallSound(a)'
  BY <1>2, IdleSound
<1> QED
  BY <1>2, <1>3, <1>4, OneMoves

LEMMA PushedCalm ==
    ASSUME Kept, Calm, Kept', NEW a \in Apps, Pushed(a)
    PROVE  Calm'
<1>1. pc'[a] = "push" /\ \A b \in Apps : b # a => pc'[b] = "idle"
  BY OthersIdle DEF Pushed, Answered, Calm, Kept, IInv, ServerTypes
<1>2. /\ pc[a] = "reply" /\ req[a].op = "put" /\ Doc(a) \in Docs
      /\ UNCHANGED <<rows, local, cursor>>
      /\ mine' = [mine EXCEPT ![a][Doc(a)] = "none"]
  BY DEF Pushed, Answered, server, Kept, IInv, Addressed, StoreSteps
<1>3. \/ UNCHANGED touched
      \/ /\ answer[a].outcome = "ok" /\ local[a][Doc(a)] = req[a].data
         /\ touched' = [touched EXCEPT ![a] = @ \ {Doc(a)}]
  BY DEF Pushed
<1>4. CopiesCurrent'
  <2> SUFFICES ASSUME NEW b \in Apps, NEW d \in Docs, rows[d].state # "none",
                      rows[d].seq <= cursor[b], d \notin touched'[b]
               PROVE  local[b][d] = Shown(rows[d])
    BY <1>2 DEF CopiesCurrent, Shown
  <2>1. CASE d \notin touched[b]
    BY <2>1 DEF Calm, CopiesCurrent
  <2>2. CASE d \in touched[b]
    <3>1. /\ b = a /\ d = Doc(a)
          /\ answer[a].outcome = "ok" /\ local[a][Doc(a)] = req[a].data
      BY <1>3, <2>2 DEF Kept, Rest
    <3>2. rows[d].state = "live" /\ rows[d].data = req[a].data
      BY <1>2, <3>1 DEF Calm, CallSound, Stored
    <3> QED
      BY <3>1, <3>2 DEF Shown
  <2> QED
    BY <2>1, <2>2
<1>5. Founded(a)'
  <2> SUFFICES ASSUME NEW d \in Docs, mine'[a][d] # "none", rows[d].state # "none",
                      d \notin touched'[a]
               PROVE  mine'[a][d] = Shown(rows[d])
    BY <1>2 DEF Founded, Shown
  <2>1. d # Doc(a) /\ mine'[a][d] = mine[a][d]
    BY <1>2 DEF Kept, IInv, ServerTypes
  <2>2. d \notin touched[a]
    BY <1>3, <2>1 DEF Kept, Rest
  <2> QED
    BY <2>1, <2>2 DEF Calm, CallSound, Founded
<1>6. CallSound(a)'
  BY <1>1, <1>5 DEF CallSound, Pulls, Unseen, Removing, Stored, InTransaction
<1> QED
  BY <1>1, <1>4, <1>6, OneMoves

LEMMA ShareCalm ==
    ASSUME Kept, Calm, Kept', NEW a \in Apps, NEW d \in Docs, Share(a, d), ~overlapped'
    PROVE  Calm'
<1>1. \A b \in Apps : pc[b] = "idle"
  BY StartsAlone DEF Share
<1>2. pc'[a] = "push" /\ \A b \in Apps : b # a => pc'[b] = "idle"
  BY <1>1 DEF Share, Kept, IInv, ServerTypes
<1>3. /\ UNCHANGED <<rows, local, cursor>>
      /\ touched' = [touched EXCEPT ![a] = @ \union {d}]
  BY DEF Share, server
<1>4. CopiesCurrent'
  BY <1>3 DEF Calm, CopiesCurrent, Kept, Rest
<1>5. Founded(a)'
  <2>1. mine[a] = NoCopies
    BY <1>1 DEF Kept, Carried
  <2>2. \A e \in Docs : e # d => mine'[a][e] = "none"
    BY <2>1 DEF Share, Kept, IInv, ServerTypes, NoCopies
  <2> QED
    BY <1>3, <2>2 DEF Founded, Kept, Rest
<1>6. CallSound(a)'
  BY <1>2, <1>5 DEF CallSound, Pulls, Unseen, Removing, Stored, InTransaction
<1> QED
  BY <1>2, <1>4, <1>6, OneMoves

LEMMA RemoveCalm ==
    ASSUME Kept, Calm, Kept', NEW a \in Apps, NEW d \in Docs, Remove(a, d), ~overlapped'
    PROVE  Calm'
<1>1. \A b \in Apps : pc[b] = "idle"
  BY StartsAlone DEF Remove
<1>2. /\ pc'[a] = "lock" /\ Doc(a)' = d /\ req'[a].op = "delete"
      /\ \A b \in Apps : b # a => pc'[b] = "idle"
  BY <1>1 DEF Remove, Send, Request, Doc, Kept, IInv, ServerTypes
<1>3. UNCHANGED <<rows, local, cursor, touched>> /\ rows[d].state = "live"
  BY DEF Remove, server, app
<1>4. CopiesCurrent'
  BY <1>3, CopiesStay DEF Calm
<1>5. Founded(a)'
  BY <1>2 DEF Founded, Kept, Carried, NoCopies, StoreSteps
<1>6. CallSound(a)'
  BY <1>2, <1>3, <1>5 DEF CallSound, Pulls, Unseen, Removing, Stored, InTransaction
<1> QED
  BY <1>2, <1>4, <1>6, OneMoves

\* A local change by the user, whatever call is under way.
LEMMA ChangeCalm ==
    ASSUME Kept, Calm, NEW a \in Apps, NEW d \in Docs, NEW v, Change(a, d, v)
    PROVE  Calm'
<1>1. /\ UNCHANGED <<rows, pc, req, pending, answer, cursor, page, latest, mine>>
      /\ local' = [local EXCEPT ![a][d] = v]
      /\ touched' = [touched EXCEPT ![a] = @ \union {d}]
  BY DEF Change, server, request
<1>2. CopiesCurrent'
  BY <1>1 DEF Calm, CopiesCurrent, Kept, Rest, IInv, ServerTypes
<1>3. Alone'
  BY <1>1 DEF Calm, Alone
<1>4. ASSUME NEW b \in Apps PROVE CallSound(b)'
  <2>1. Founded(b)'
    BY <1>1 DEF Calm, CallSound, Founded, Kept, Rest
  <2>2. (Pulls(b) /\ Unseen(b) /\ Removing(b) /\ Stored(b))'
    BY <1>1 DEF Calm, CallSound, Pulls, Unseen, Removing, Stored, InTransaction, Doc
  <2> QED
    BY <2>1, <2>2 DEF CallSound
<1> QED
  BY <1>2, <1>3, <1>4 DEF Calm

-----------------------------------------------------------------------------
(* The transaction.                                                         *)

\* A step of a transaction that leaves the table as it is.
LEMMA TableStays ==
    ASSUME Kept, Calm, Kept', NEW a \in Apps, pc[a] # "idle",
           \A b \in Apps : b # a => pc'[b] = pc[b],
           pc'[a] \in {"insert", "update", "commit", "reply"},
           UNCHANGED <<rows, req, app, history>>,
           pc'[a] = "commit" => \A b \in Apps : cursor[b] < pending'[a].seq,
           InTransaction(a)' /\ req[a].op = "delete" => InTransaction(a),
           pc'[a] = "reply" => answer'[a].outcome # "ok" \/ (pc[a] = "reply" /\ answer'[a] = answer[a])
    PROVE  Calm'
<1>1. \A b \in Apps : b # a => pc'[b] = "idle"
  BY OthersIdle DEF Calm
<1>2. CopiesCurrent'
  BY CopiesStay DEF Calm, app, history
<1>3. Founded(a)'
  BY DEF Calm, CallSound, Founded, app, history
<1>4. Removing(a)'
  BY DEF Calm, CallSound, Removing, Doc
<1>5. Stored(a)'
  BY DEF Calm, CallSound, Stored, Doc
<1>6. CallSound(a)'
  BY <1>3, <1>4, <1>5 DEF CallSound, Pulls, Unseen, app
<1> QED
  BY <1>1, <1>2, <1>6, OneMoves

\* A row just written carries the newest value of the sequence.
LEMMA NewestUnseen ==
    ASSUME Kept, NEW a \in Apps, NEW n, n = counter + 1
    PROVE  \A b \in Apps : cursor[b] < n
BY DEF Kept, Seen, Rest, IInv, ServerTypes

LEMMA WritingCalm ==
    ASSUME Kept, Calm, Kept', NEW a \in Apps,
           LockNothing(a) \/ LockRow(a) \/ Insert(a) \/ Update(a) \/ Rollback(a) \/ LoseReply(a),
           UNCHANGED <<app, history>>
    PROVE  Calm'
<1> USE DEF Reply, InTransaction
<1>1. UNCHANGED <<rows, req>> /\ pc \in [Apps -> Steps] /\ answer \in [Apps -> AnswerType]
      /\ pending \in [Apps -> RowType]
  BY DEF LockNothing, LockRow, Insert, Update, Rollback, LoseReply, server, Kept, IInv, ServerTypes
<1>2. CASE LockNothing(a)
  <2>1. /\ pc[a] = "lock" /\ pc'[a] \in {"insert", "reply"}
        /\ \A b \in Apps : b # a => pc'[b] = pc[b]
        /\ pc'[a] = "reply" => answer'[a].outcome # "ok"
    BY <1>1, <1>2 DEF LockNothing, Answer
  <2> QED
    BY <1>1, <2>1, TableStays
<1>3. CASE LockRow(a)
  <2>1. /\ pc[a] = "lock" /\ pc'[a] \in {"update", "reply"}
        /\ \A b \in Apps : b # a => pc'[b] = pc[b]
        /\ pc'[a] = "reply" => answer'[a].outcome # "ok"
    BY <1>1, <1>3 DEF LockRow, Answer
  <2> QED
    BY <1>1, <2>1, TableStays
<1>4. CASE Insert(a)
  <2>1. /\ pc[a] = "insert" /\ pc'[a] \in {"commit", "reply"}
        /\ \A b \in Apps : b # a => pc'[b] = pc[b]
        /\ pc'[a] = "reply" => answer'[a].outcome # "ok"
        /\ pc'[a] = "commit" => pending'[a].seq = counter + 1
    BY <1>1, <1>4 DEF Insert, Answer, Row
  <2>2. pc'[a] = "commit" => \A b \in Apps : cursor[b] < pending'[a].seq
    BY <2>1, NewestUnseen
  <2> QED
    BY <1>1, <2>1, <2>2, TableStays
<1>5. CASE Update(a)
  <2>1. /\ pc[a] = "update" /\ pc'[a] = "commit"
        /\ \A b \in Apps : b # a => pc'[b] = pc[b]
        /\ pending'[a].seq = counter + 1
    BY <1>1, <1>5 DEF Update, Updated, Row
  <2>2. \A b \in Apps : cursor[b] < pending'[a].seq
    BY <2>1, NewestUnseen
  <2> QED
    BY <1>1, <2>1, <2>2, TableStays
<1>6. CASE Rollback(a)
  <2>1. /\ pc[a] # "idle" /\ pc'[a] = "reply" /\ answer'[a].outcome = "error"
        /\ \A b \in Apps : b # a => pc'[b] = pc[b]
    BY <1>1, <1>6 DEF Rollback, Answer
  <2> QED
    BY <1>1, <2>1, TableStays
<1>7. CASE LoseReply(a)
  <2>1. /\ pc[a] = "reply" /\ pc' = pc /\ answer'[a].outcome = "error"
    BY <1>1, <1>7 DEF LoseReply, Answer
  <2> QED
    BY <1>1, <2>1, TableStays
<1> QED
  BY <1>2, <1>3, <1>4, <1>5, <1>6, <1>7

LEMMA CommitCalm ==
    ASSUME Kept, Calm, Kept', NEW a \in Apps, Commit(a), UNCHANGED <<app, history>>
    PROVE  Calm'
<1>1. /\ pc[a] = "commit" /\ pc'[a] = "reply" /\ Doc(a) \in Docs
      /\ UNCHANGED <<req, local, cursor, mine, touched>>
      /\ rows' = [rows EXCEPT ![Doc(a)] = pending[a]]
  BY DEF Commit, Reply, Kept, IInv, ServerTypes, Addressed, StoreSteps, app, history
<1>2. \A b \in Apps : b # a => pc'[b] = "idle"
  BY <1>1, OthersIdle DEF Commit, Reply, Calm, Kept, IInv, ServerTypes
<1>3. /\ \A d \in Docs : d # Doc(a) => rows'[d] = rows[d]
      /\ rows'[Doc(a)] = pending[a]
  BY <1>1 DEF Kept, IInv, ServerTypes
<1>4. \A b \in Apps : cursor[b] < pending[a].seq
  BY <1>1 DEF Calm, CallSound, Unseen
<1>5. CopiesCurrent'
  <2> SUFFICES ASSUME NEW b \in Apps, NEW d \in Docs, rows'[d].state # "none",
                      rows'[d].seq <= cursor[b], d \notin touched[b]
               PROVE  local[b][d] = Shown(rows'[d])
    BY <1>1 DEF CopiesCurrent, Shown
  <2>1. d # Doc(a)
    <3>1. cursor[b] \in Nat /\ pending[a].seq \in Nat
      BY DEF Kept, Rest, IInv, ServerTypes, RowType
    <3> QED
      BY <1>3, <1>4, <3>1
  <2> QED
    BY <1>3, <2>1 DEF Calm, CopiesCurrent
<1>6. req[a].op = "put" => /\ rows'[Doc(a)].state = "live" /\ rows'[Doc(a)].data = req[a].data
                           /\ mine[a][Doc(a)] = req[a].data
  BY <1>1, <1>3 DEF Kept, Carried, StoreSteps
<1>7. req[a].op = "delete" => mine[a] = NoCopies
  BY <1>1 DEF Kept, Carried, StoreSteps
<1>8. req[a].op \in {"put", "delete"}
  BY DEF Kept, IInv, ServerTypes, RequestType
<1>9. Founded(a)'
  <2> SUFFICES ASSUME NEW d \in Docs, mine[a][d] # "none", rows'[d].state # "none", d \notin touched[a]
               PROVE  mine[a][d] = Shown(rows'[d])
    BY <1>1 DEF Founded, Shown
  <2>1. req[a].op = "put"
    BY <1>7, <1>8 DEF NoCopies
  <2>2. CASE d = Doc(a)
    BY <1>6, <2>1, <2>2 DEF Shown
  <2>3. CASE d # Doc(a)
    BY <1>3, <2>3 DEF Calm, CallSound, Founded
  <2> QED
    BY <2>2, <2>3
<1>10. Stored(a)'
  BY <1>1, <1>6 DEF Stored, Doc
<1>11. CallSound(a)'
  BY <1>1, <1>9, <1>10 DEF CallSound, Pulls, Unseen, Removing, InTransaction
<1> QED
  BY <1>2, <1>5, <1>11, OneMoves

-----------------------------------------------------------------------------

LEMMA CalmStep ==
    ASSUME Kept, Kept', Calm, [Next]_vars, ~overlapped'
    PROVE  Calm'
<1>1. ASSUME NEW a \in Apps, UserStep(a) PROVE Calm'
  BY <1>1, ListRowsCalm, ShareCalm, RemoveCalm, ChangeCalm DEF UserStep, Create, Edit, Discard
<1>2. ASSUME NEW a \in Apps, Advance(a) PROVE Calm'
  BY <1>2, ListLatestCalm, ApplyCalm, ReadLocalCalm, SendCalm, EndCalm, PushedCalm, WritingCalm,
     CommitCalm DEF Advance, Transact
<1>3. ASSUME NEW a \in Apps, Fail(a) PROVE Calm'
  BY <1>3, WritingCalm DEF Fail
<1>4. CASE UNCHANGED vars
  BY <1>4 DEF vars, server, request, app, history, Calm, Alone, CallSound, CopiesCurrent, Pulls,
     Unseen, Removing, Stored, Founded, InTransaction, Doc
<1> QED
  BY <1>1, <1>2, <1>3, <1>4 DEF Next

LEMMA SyncInvAlways == Spec => []SyncInv
<1>1. Init => SyncInv
  <2> SUFFICES ASSUME Init PROVE SyncInv
    OBVIOUS
  <2>1. Kept
    BY InitKept
  <2>2. \A a \in Apps : pc[a] = "idle" /\ mine[a] = NoCopies
    BY DEF Init
  <2>3. \A d \in Docs : rows[d].state = "none"
    BY DEF Init, StoreInit, NoRow, Row
  <2>4. Alone /\ CopiesCurrent /\ \A a \in Apps : CallSound(a)
    BY <2>2, <2>3 DEF Alone, CopiesCurrent, CallSound, Pulls, Unseen, Removing, Stored, Founded,
       InTransaction
  <2> QED
    BY <2>1, <2>4 DEF SyncInv, Calm
<1>2. SyncInv /\ [Next]_vars => SyncInv'
  <2> SUFFICES ASSUME SyncInv, [Next]_vars PROVE SyncInv'
    OBVIOUS
  <2>1. Kept /\ Kept'
    BY KeptStep DEF SyncInv
  <2>2. ASSUME ~overlapped' PROVE Calm'
    <3>1. ~overlapped
      BY <2>2, OverlapStays
    <3>2. Calm
      BY <3>1, Zenon DEF SyncInv
    <3> QED
      BY <2>1, <2>2, <3>2, CalmStep
  <2> QED
    BY <2>1, <2>2, Zenon DEF SyncInv
<1> QED
  BY <1>1, <1>2, PTL DEF Spec

-----------------------------------------------------------------------------

\* An app shows what it has been told of, as long as no two apps had calls under
\* way at once, whatever replies got lost and whatever its user did meanwhile
\* (sync.rs: apply_pulled, then set_last_seq).
THEOREM CopiesStayCurrent == Spec => []AppsSound
<1>1. SyncInv => AppsSound
  <2> SUFFICES ASSUME SyncInv PROVE AppsSound
    OBVIOUS
  <2>1. TypeOK
    BY DEF SyncInv, Kept, IInv, ServerTypes, Rest, TypeOK, AnswerType
  <2>2. CopiesCurrentApart
    BY Zenon DEF SyncInv, Calm, CopiesCurrentApart
  <2> QED
    BY <2>1, <2>2 DEF AppsSound
<1> QED
  BY <1>1, SyncInvAlways, PTL

\* A put that commits: its data is the copy the push has read.
LEMMA CommitsFounded ==
    ASSUME Kept, Calm, NEW a \in Apps, Commit(a), req[a].op = "put",
           rows[Doc(a)].state # "none", Doc(a) \notin touched[a]
    PROVE  /\ req[a].data = Shown(rows[Doc(a)])
           /\ req[a].data # "none"
<1>1. Doc(a) \in Docs /\ req[a].data \in Values /\ mine[a][Doc(a)] = req[a].data
  BY DEF Commit, Kept, IInv, Addressed, Carried, StoreSteps
<1>2. req[a].data # "none"
  BY <1>1, StoreAssumption DEF StoreAssumption
<1> QED
  BY <1>1, <1>2 DEF Calm, CallSound, Founded

\* What was removed from the workspace comes back only through a user who
\* changed or shared it (sync.rs: tombstones are pulled before the push).
THEOREM RemovedStaysRemoved == Spec => RemovalsLast
<1>1. SyncInv /\ [Next]_vars =>
        [\A a \in Apps : ~overlapped /\ Commit(a) /\ rows[Doc(a)].state = "dead"
           => Doc(a) \in touched[a]]_vars
  <2> SUFFICES ASSUME SyncInv, NEW a \in Apps, ~overlapped, Commit(a),
                      rows[Doc(a)].state = "dead", Doc(a) \notin touched[a]
               PROVE  FALSE
    BY Zenon
  <2>1. Kept /\ Calm
    BY Zenon DEF SyncInv
  <2>2. req[a].op # "delete"
    BY <2>1 DEF Calm, CallSound, Removing, InTransaction, Commit
  <2>3. req[a].op = "put"
    BY <2>1, <2>2 DEF Kept, IInv, ServerTypes, RequestType
  <2> QED
    BY <2>1, <2>3, CommitsFounded DEF Shown
<1> QED
  BY <1>1, SyncInvAlways, PTL DEF Spec, RemovalsLast

\* A sync never overwrites another user's version with a copy its own user has
\* not changed (sync.rs: the push follows the pull and sends what it left).
THEOREM UnchangedCopiesGiveWay == Spec => StaleCopyNeverWins
<1>1. SyncInv /\ [Next]_vars =>
        [\A a \in Apps :
           /\ ~overlapped
           /\ Commit(a) /\ req[a].op = "put" /\ rows[Doc(a)].state = "live"
           => req[a].data = rows[Doc(a)].data \/ Doc(a) \in touched[a]]_vars
  <2> SUFFICES ASSUME SyncInv, NEW a \in Apps, ~overlapped, Commit(a), req[a].op = "put",
                      rows[Doc(a)].state = "live", Doc(a) \notin touched[a]
               PROVE  req[a].data = rows[Doc(a)].data
    BY Zenon
  <2>1. Kept /\ Calm
    BY Zenon DEF SyncInv
  <2> QED
    BY <2>1, CommitsFounded DEF Shown
<1> QED
  BY <1>1, SyncInvAlways, PTL DEF Spec, StaleCopyNeverWins

=============================================================================
