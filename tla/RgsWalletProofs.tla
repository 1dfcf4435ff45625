--------------------------- MODULE RgsWalletProofs ---------------------------
(***************************************************************************)
(* Proofs about RgsWallet, for any number of threads, sessions, modes,     *)
(* events and rounds, with or without restarts, faults and overlapping     *)
(* requests.                                                               *)
(***************************************************************************)
EXTENDS RgsWallet, TLAPS

-----------------------------------------------------------------------------
(* What the methods of the store return. *)

\* A session without a round, history or last event is a session.
LEMMA FreshType ==
    ASSUME NEW b \in Balances
    PROVE  Fresh(b) \in SessionStates
BY DEF Fresh, SessionStates, Rounds, NoRound

LEMMA AbsentType == Absent \in SessionStates
BY StoreAssumption DEF Absent, SessionStates, Rounds, NoRound, Balances,
                       StoreAssumption

\* The guard of deduct_bet is what keeps the balance from wrapping.
LEMMA DeductType ==
    ASSUME NEW s \in SessionStates, NEW amount \in Nat, amount <= s.balance
    PROVE  Deduct(s, amount) \in SessionStates
BY StoreAssumption DEF Deduct, SessionStates, Balances, StoreAssumption

LEMMA AddWinningsType ==
    ASSUME NEW s \in SessionStates, NEW amount \in Nat
    PROVE  AddWinnings(s, amount) \in SessionStates
BY StoreAssumption DEF AddWinnings, SessionStates, Balances, StoreAssumption

LEMMA SetRoundType ==
    ASSUME NEW s \in SessionStates, NEW r \in Rounds
    PROVE  SetRound(s, r) \in SessionStates
BY DEF SetRound, SessionStates

LEMMA SetLastType ==
    ASSUME NEW s \in SessionStates, NEW e \in Events
    PROVE  SetLast(s, e) \in SessionStates
BY DEF SetLast, SessionStates

LEMMA PushEventType ==
    ASSUME NEW s \in SessionStates, NEW e \in Entries
    PROVE  PushEvent(s, e) \in SessionStates
<1> DEFINE h == <<e>> \o s.history
<1>1. h \in Seq(Entries)
  BY DEF SessionStates
<1>2. Capped(h) \in Seq(Entries)
  BY <1>1, StoreAssumption DEF Capped, StoreAssumption
<1> QED
  BY <1>2 DEF PushEvent, SessionStates

LEMMA StoredType ==
    ASSUME NEW s \in SessionStates
    PROVE  Stored(s) \in SessionStates
<1> DEFINE b == IF s.balance > MaxI64 THEN MaxI64 ELSE s.balance
<1>1. b \in Balances
  BY StoreAssumption DEF SessionStates, Balances, StoreAssumption
<1> HIDE DEF b
<1>2. [s EXCEPT !.balance = b] \in SessionStates
  BY <1>1 DEF SessionStates
<1> QED
  BY <1>2 DEF Stored, b

\* Of all the methods only set_active_round changes the round.
LEMMA RoundKept ==
    ASSUME NEW s \in SessionStates
    PROVE  /\ \A amount : Deduct(s, amount).round = s.round
           /\ \A amount : AddWinnings(s, amount).round = s.round
           /\ \A e : SetLast(s, e).round = s.round
           /\ \A e : PushEvent(s, e).round = s.round
           /\ Stored(s).round = s.round
           /\ \A r : SetRound(s, r).round = r
BY DEF SessionStates, Deduct, AddWinnings, SetLast, PushEvent, Stored, SetRound

-----------------------------------------------------------------------------
(* Type correctness. *)

\* A thread that puts a session of the right type keeps the types.
LEMMA PutType ==
    ASSUME TypeOK, NEW p \in Procs, NEW s \in Sessions,
           NEW session \in SessionStates, NEW next \in Continuations,
           Put(p, s, session, next)
    PROVE  /\ sessions' \in [Sessions -> SessionStates]
           /\ clone' \in [Procs -> SessionStates]
           /\ after' \in [Procs -> Continuations]
           /\ pc' \in [Procs -> Steps]
BY DEF TypeOK, Put, Goto, Steps, Continuations

LEMMA UpdateType ==
    ASSUME TypeOK, NEW p \in Procs, NEW session \in SessionStates,
           NEW next \in Continuations, Update(p, session, next)
    PROVE  /\ sessions' \in [Sessions -> SessionStates]
           /\ clone' \in [Procs -> SessionStates]
           /\ after' \in [Procs -> Continuations]
           /\ pc' \in [Procs -> Steps]
<1>1. CASE sessions[sid[p]].live
  BY <1>1, PutType DEF Update, TypeOK
<1>2. CASE ~sessions[sid[p]].live
  BY <1>2 DEF Update, TypeOK, Goto, Steps, Continuations
<1> QED
  BY <1>1, <1>2

LEMMA CreditType ==
    ASSUME TypeOK, NEW p \in Procs, NEW next \in Continuations, Credit(p, next)
    PROVE  TypeOK'
<1>1. AddWinnings(sessions[sid[p]], seen[p].payout) \in SessionStates
  BY AddWinningsType DEF TypeOK, Rounds
<1>2. /\ sessions' \in [Sessions -> SessionStates]
      /\ clone' \in [Procs -> SessionStates]
      /\ after' \in [Procs -> Continuations]
      /\ pc' \in [Procs -> Steps]
  BY <1>1, UpdateType DEF Credit
<1>3. credits' \in [1 .. MaxBets -> 0 .. 2]
  <2>1. \A n \in 0 .. 2 : (IF n < 2 THEN n + 1 ELSE n) \in 0 .. 2
    OBVIOUS
  <2>2. [credits EXCEPT ![seen[p].id] = IF @ < 2 THEN @ + 1 ELSE @]
          \in [1 .. MaxBets -> 0 .. 2]
    <3>1. CASE seen[p].id \in 1 .. MaxBets
      BY <2>1, <3>1 DEF TypeOK
    <3>2. CASE seen[p].id \notin 1 .. MaxBets
      BY <3>2 DEF TypeOK
    <3> QED
      BY <3>1, <3>2
  <2> QED
    BY <2>2 DEF Credit, TypeOK
<1>4. seen' \in [Procs -> Rounds]
  BY DEF Credit, TypeOK, Rounds, NoRound
<1> QED
  BY <1>2, <1>3, <1>4 DEF Credit, TypeOK

\* The steps of the handlers and of the server.
LEMMA StepType ==
    ASSUME TypeOK, DrawnKept, NEW p \in Procs, Step(p)
    PROVE  TypeOK'
<1> USE DEF history, local, store
<1>1. CASE Save(p)
  <2>1. Stored(clone[p]) \in SessionStates
    BY StoredType DEF TypeOK
  <2> QED
    BY <1>1, <2>1, AbsentType DEF Save, Goto, TypeOK, Steps, Continuations
<1>2. CASE AuthenticateCreate(p)
  <2>1. Fresh(InitialBalance) \in SessionStates
    BY FreshType, WalletAssumption DEF WalletAssumption
  <2> QED
    BY <1>2, <2>1, PutType DEF AuthenticateCreate, TypeOK, Steps, Continuations
<1>3. CASE PrepareUpsert(p)
  <2>1. PICK b \in Openings \union {InitialBalance} : Put(p, sid[p], Fresh(b), "idle")
    BY <1>3 DEF PrepareUpsert
  <2>2. Fresh(b) \in SessionStates
    BY FreshType, WalletAssumption DEF WalletAssumption
  <2> QED
    BY <1>3, <2>1, <2>2, PutType DEF PrepareUpsert, TypeOK, Steps, Continuations
<1>4. CASE PlayCredit(p)
  BY <1>4, CreditType DEF PlayCredit, Continuations
<1>5. CASE PlayDeduct(p)
  <2>1. Cost[mode[p]] \in Nat /\ sessions[sid[p]] \in SessionStates
    BY WalletAssumption DEF WalletAssumption, TypeOK
  <2>2. Deduct(sessions[sid[p]], Cost[mode[p]]) \in SessionStates
    BY <1>5, <2>1, DeductType DEF PlayDeduct
  <2> QED
    BY <1>5, <2>2, PutType DEF PlayDeduct, TypeOK, Steps, Continuations
<1>6. CASE PlayInsufficientBalance(p)
  BY <1>6 DEF PlayInsufficientBalance, Goto, TypeOK, Steps, Continuations
<1>7. CASE PlayDraw(p)
  BY <1>7 DEF PlayDraw, Goto, TypeOK, Steps, Continuations
<1>8. CASE PlayEngineFails(p)
  BY <1>8 DEF PlayEngineFails, Goto, TypeOK, Steps, Continuations
<1>9. CASE PlayLast(p)
  <2>1. drawn[p] \in Events
    BY <1>9 DEF PlayLast, DrawnKept, At
  <2>2. SetLast(sessions[sid[p]], drawn[p]) \in SessionStates
    BY <2>1, SetLastType DEF TypeOK
  <2> QED
    BY <1>9, <2>2, UpdateType DEF PlayLast, TypeOK, Steps, Continuations
<1>10. CASE PlayPush(p)
  <2> DEFINE entry == [event |-> drawn[p], forced |-> forced.mode = mode[p]]
  <2>1. drawn[p] \in Events
    BY <1>10 DEF PlayPush, DrawnKept, At
  <2>2. entry \in Entries
    BY <2>1 DEF Entries
  <2>3. PushEvent(sessions[sid[p]], entry) \in SessionStates
    BY <2>2, PushEventType DEF TypeOK
  <2> QED
    BY <1>10, <2>3, UpdateType DEF PlayPush, TypeOK, Steps, Continuations
<1>11. CASE PlayBetId(p)
  BY <1>11, WalletAssumption DEF PlayBetId, Goto, TypeOK, Steps, Continuations, WalletAssumption
<1>12. CASE PlayRound(p)
  <2> DEFINE r == [id |-> bet[p], payout |-> Payout[drawn[p]]]
  <2>1. drawn[p] \in Events
    BY <1>12 DEF PlayRound, DrawnKept, At
  <2>2. r \in Rounds
    BY <2>1, StoreAssumption DEF Rounds, TypeOK, StoreAssumption
  <2>3. SetRound(sessions[sid[p]], r) \in SessionStates
    BY <2>2, SetRoundType DEF TypeOK
  <2> QED
    BY <1>12, <2>3, UpdateType DEF PlayRound, TypeOK, Steps, Continuations
<1>13. CASE EndCredit(p)
  BY <1>13, CreditType DEF EndCredit, Continuations
<1>14. CASE EndClear(p)
  <2>1. SetRound(sessions[sid[p]], NoRound) \in SessionStates
    BY SetRoundType DEF TypeOK, Rounds, NoRound
  <2> QED
    BY <1>14, <2>1, UpdateType DEF EndClear, TypeOK, Steps, Continuations
<1>15. CASE ResetRows(p)
  BY <1>15, AbsentType DEF ResetRows, Goto, TypeOK, Steps, Continuations
<1> QED
  BY <1>1, <1>2, <1>3, <1>4, <1>5, <1>6, <1>7, <1>8, <1>9, <1>10, <1>11, <1>12,
     <1>13, <1>14, <1>15 DEF Step

LEMMA RequestType ==
    ASSUME TypeOK, NEW p \in Procs, Request(p)
    PROVE  TypeOK'
<1> USE DEF history, local, store, Take, Goto
<1>1. ASSUME NEW s \in Sessions, Authenticate(p, s) PROVE TypeOK'
  BY <1>1 DEF Authenticate, TypeOK, Steps, Continuations
<1>2. ASSUME NEW s \in Sessions, PrepareExisting(p, s) PROVE TypeOK'
  <2>1. sessions[s] \in SessionStates
    BY DEF TypeOK
  <2> QED
    BY <1>2, <2>1, PutType DEF PrepareExisting, TypeOK, Steps, Continuations
<1>3. ASSUME NEW s \in Sessions, PrepareMissing(p, s) PROVE TypeOK'
  BY <1>3 DEF PrepareMissing, TypeOK, Steps, Continuations
<1>4. \A s \in Sessions : Pending(sessions[s]) \in Rounds
  BY DEF Pending, TypeOK, SessionStates, Rounds, NoRound
<1>5. ASSUME NEW s \in Sessions, Play(p, s) PROVE TypeOK'
  BY <1>4, <1>5 DEF Play, TypeOK, Steps, Continuations
<1>6. ASSUME NEW s \in Sessions, EndRound(p, s) PROVE TypeOK'
  BY <1>4, <1>6 DEF EndRound, TypeOK, Steps, Continuations
<1>7. CASE ResetSessions(p)
  BY <1>7, AbsentType DEF ResetSessions, TypeOK, Steps, Continuations
<1> QED
  BY <1>1, <1>2, <1>3, <1>5, <1>6, <1>7 DEF Request

LEMMA RestartType ==
    ASSUME TypeOK, Restart
    PROVE  TypeOK'
<1>1. restarts' \in 0 .. MaxRestarts
  BY WalletAssumption DEF Restart, TypeOK, WalletAssumption
<1>2. credits' \in [1 .. MaxBets -> 0 .. 2]
  BY DEF Restart, TypeOK
<1> QED
  BY <1>1, <1>2, AbsentType DEF Restart, TypeOK, Steps, Continuations, Rounds, NoRound

\* No step leaves a drawn event behind before its round is stored.
LEMMA DrawnKeptStep ==
    ASSUME TypeOK, DrawnKept, Next
    PROVE  DrawnKept'
<1> USE DEF DrawnKept, At, TypeOK, Goto, store, local, history
<1>1. ASSUME NEW p \in Procs, Step(p) PROVE DrawnKept'
  <2> USE DEF Update, Put
  <2>1. CASE Save(p)
    BY <2>1 DEF Save
  <2>2. CASE AuthenticateCreate(p) \/ PrepareUpsert(p)
    BY <2>2 DEF AuthenticateCreate, PrepareUpsert
  <2>3. CASE PlayCredit(p) \/ EndCredit(p)
    BY <2>3 DEF PlayCredit, EndCredit, Credit
  <2>4. CASE PlayDeduct(p) \/ PlayInsufficientBalance(p) \/ PlayEngineFails(p)
    BY <2>4 DEF PlayDeduct, PlayInsufficientBalance, PlayEngineFails
  <2>5. CASE PlayDraw(p)
    BY <2>5 DEF PlayDraw
  <2>6. CASE PlayLast(p)
    BY <2>6 DEF PlayLast
  <2>7. CASE PlayPush(p)
    <3>1. PICK session : Update(p, session, "play_id")
      BY <2>7 DEF PlayPush
    <3>2. pc[p] = "play_push" /\ drawn' = drawn
      BY <2>7 DEF PlayPush
    <3> QED
      BY <3>1, <3>2
  <2>8. CASE PlayBetId(p)
    BY <2>8 DEF PlayBetId
  <2>9. CASE PlayRound(p) \/ EndClear(p)
    BY <2>9 DEF PlayRound, EndClear
  <2>10. CASE ResetRows(p)
    BY <2>10 DEF ResetRows
  <2> QED
    BY <1>1, <2>1, <2>2, <2>3, <2>4, <2>5, <2>6, <2>7, <2>8, <2>9, <2>10 DEF Step
<1>2. ASSUME NEW p \in Procs, Request(p) PROVE DrawnKept'
  <2> USE DEF Take, Put
  <2>1. ASSUME NEW s \in Sessions, Authenticate(p, s) \/ PrepareMissing(p, s)
        PROVE  DrawnKept'
    BY <2>1 DEF Authenticate, PrepareMissing
  <2>2. ASSUME NEW s \in Sessions, PrepareExisting(p, s) PROVE DrawnKept'
    BY <2>2 DEF PrepareExisting
  <2>3. ASSUME NEW s \in Sessions, Play(p, s) \/ EndRound(p, s) PROVE DrawnKept'
    BY <2>3 DEF Play, EndRound
  <2>4. CASE ResetSessions(p)
    BY <2>4 DEF ResetSessions
  <2> QED
    BY <1>2, <2>1, <2>2, <2>3, <2>4 DEF Request
<1>3. CASE ForceEvent \/ Restart
  BY <1>3 DEF ForceEvent, Restart
<1> QED
  BY <1>1, <1>2, <1>3 DEF Next

\* The wallet keeps its types: in particular no interleaving of plays, resets
\* and restarts makes a balance negative, since deduct_bet compares and
\* subtracts under one lock (session.rs, deduct_bet).
THEOREM TypeCorrect == Spec => [](TypeOK /\ DrawnKept)
<1>1. Init => TypeOK /\ DrawnKept
  BY AbsentType, WalletAssumption
     DEF Init, TypeOK, DrawnKept, At, Steps, Continuations, Rounds, NoRound, WalletAssumption
<1>2. TypeOK /\ DrawnKept /\ [Next]_vars => (TypeOK /\ DrawnKept)'
  <2> SUFFICES ASSUME TypeOK, DrawnKept, [Next]_vars
               PROVE  TypeOK' /\ DrawnKept'
    OBVIOUS
  <2>1. CASE Next
    <3>1. ForceEvent => TypeOK'
      BY DEF ForceEvent, TypeOK, local, history
    <3> QED
      BY <2>1, <3>1, StepType, RequestType, RestartType, DrawnKeptStep DEF Next
  <2>2. CASE UNCHANGED vars
    BY <2>2 DEF vars, store, local, history, TypeOK, DrawnKept, At
  <2> QED
    BY <2>1, <2>2
<1> QED
  BY <1>1, <1>2, PTL DEF Spec

-----------------------------------------------------------------------------
(* Bet ids. *)

BetIdsInv == TypeOK /\ BetIdsDistinct /\ BetIdsIssued /\ CloneWhileSaving

\* A step that shows no id it did not show before, except "no round".
NoNewId ==
    /\ betCounter' >= betCounter
    /\ \A s \in Sessions : BetIdsOf(s)' \subseteq BetIdsOf(s) \union {0}

\* Bet ids are natural numbers.
LEMMA BetIdsType ==
    ASSUME TypeOK, NEW s \in Sessions
    PROVE  BetIdsOf(s) \subseteq Nat
BY DEF TypeOK, BetIdsOf, SessionStates, Rounds

LEMMA NoNewIdKeeps ==
    ASSUME TypeOK, TypeOK', BetIdsDistinct, BetIdsIssued, NoNewId
    PROVE  BetIdsDistinct' /\ BetIdsIssued'
<1>1. BetIdsDistinct'
  BY DEF BetIdsDistinct, NoNewId
<1>2. BetIdsIssued'
  <2> SUFFICES ASSUME NEW s \in Sessions, NEW i \in BetIdsOf(s)'
               PROVE  i <= betCounter'
    BY DEF BetIdsIssued
  <2>1. i \in BetIdsOf(s) \union {0}
    BY DEF NoNewId
  <2>2. i \in Nat /\ (i = 0 \/ i <= betCounter)
    BY <2>1, BetIdsType DEF BetIdsIssued
  <2> QED
    BY <2>2 DEF NoNewId, TypeOK
<1> QED
  BY <1>1, <1>2

\* A thread that puts back a session with a round it found, or no round.
LEMMA PutIds ==
    ASSUME TypeOK, NEW p \in Procs, NEW session, NEW next,
           Put(p, sid[p], session, next),
           session.round.id \in BetIdsOf(sid[p]) \union {0},
           rows' = rows, sid' = sid, betCounter' = betCounter,
           \A q \in Procs : q # p => bet'[q] = bet[q]
    PROVE  NoNewId
<1> SUFFICES ASSUME NEW s \in Sessions, NEW i \in BetIdsOf(s)'
             PROVE  i \in BetIdsOf(s) \union {0}
  BY DEF NoNewId, TypeOK
<1>1. CASE i = sessions'[s].round.id
  BY <1>1 DEF Put, TypeOK, BetIdsOf
<1>2. CASE i = rows'[s].round.id
  BY <1>2 DEF BetIdsOf
<1>3. ASSUME NEW q \in Procs, sid'[q] = s, i = clone'[q].round.id
      PROVE  i \in BetIdsOf(s) \union {0}
  BY <1>3 DEF Put, TypeOK, BetIdsOf
<1>4. ASSUME NEW q \in Procs, sid'[q] = s, pc'[q] = "play_round", i = bet'[q]
      PROVE  i \in BetIdsOf(s) \union {0}
  BY <1>4 DEF Put, Goto, TypeOK, BetIdsOf
<1> QED
  BY <1>1, <1>2, <1>3, <1>4 DEF BetIdsOf

\* A thread that goes on without a change to the store.
LEMMA GotoIds ==
    ASSUME TypeOK, NEW p \in Procs, NEW next, Goto(p, next),
           next # "play_round",
           sessions' = sessions, rows' = rows, clone' = clone,
           sid' = sid, betCounter' = betCounter,
           \A q \in Procs : q # p => bet'[q] = bet[q]
    PROVE  NoNewId
<1> SUFFICES ASSUME NEW s \in Sessions, NEW i \in BetIdsOf(s)'
             PROVE  i \in BetIdsOf(s)
  BY DEF NoNewId, TypeOK
<1>1. \A q \in Procs : pc'[q] = "play_round" => q # p /\ pc[q] = "play_round"
  BY DEF Goto, TypeOK
<1> QED
  BY <1>1 DEF BetIdsOf

LEMMA UpdateIds ==
    ASSUME TypeOK, NEW p \in Procs, NEW session, NEW next,
           Update(p, session, next),
           next # "play_round",
           session.round.id \in BetIdsOf(sid[p]) \union {0},
           rows' = rows, sid' = sid, betCounter' = betCounter,
           \A q \in Procs : q # p => bet'[q] = bet[q]
    PROVE  NoNewId
BY PutIds, GotoIds DEF Update

\* A thread that takes a request drops nothing and brings nothing: it was
\* idle, so it carried no clone and no bet.
LEMMA TakeIds ==
    ASSUME TypeOK, CloneWhileSaving, NEW p \in Procs, NEW s0 \in Sessions,
           NEW request, NEW next, Take(p, s0, request), Goto(p, next),
           next # "play_round",
           sessions' = sessions, rows' = rows, clone' = clone,
           betCounter' = betCounter, bet' = bet
    PROVE  NoNewId
<1> SUFFICES ASSUME NEW s \in Sessions, NEW i \in BetIdsOf(s)'
             PROVE  i \in BetIdsOf(s) \union {0}
  BY DEF NoNewId, TypeOK
<1>1. clone[p].round.id = 0
  BY DEF CloneWhileSaving, Take, Idle, Absent, NoRound
<1>2. \A q \in Procs : q # p => sid'[q] = sid[q] /\ pc'[q] = pc[q]
  BY DEF Take, Goto, TypeOK
<1>3. pc'[p] # "play_round"
  BY DEF Goto, TypeOK
<1> QED
  BY <1>1, <1>2, <1>3 DEF BetIdsOf

\* A prepare of an existing session clones it as it is.
LEMMA PrepareIds ==
    ASSUME TypeOK, CloneWhileSaving, NEW p \in Procs, NEW s0 \in Sessions,
           PrepareExisting(p, s0)
    PROVE  NoNewId
<1> SUFFICES ASSUME NEW s \in Sessions, NEW i \in BetIdsOf(s)'
             PROVE  i \in BetIdsOf(s) \union {0}
  BY DEF NoNewId, TypeOK, PrepareExisting
<1>1. sessions' = sessions /\ rows' = rows /\ bet' = bet
  BY DEF PrepareExisting, Put, TypeOK, history
<1>2. \A q \in Procs : q # p =>
        sid'[q] = sid[q] /\ pc'[q] = pc[q] /\ clone'[q] = clone[q]
  BY DEF PrepareExisting, Put, Take, Goto, TypeOK
<1>3. sid'[p] = s0 /\ pc'[p] = "save" /\ clone'[p].round.id = sessions[s0].round.id
  BY DEF PrepareExisting, Put, Take, Goto, TypeOK
<1> QED
  BY <1>1, <1>2, <1>3 DEF BetIdsOf

\* next_bet_id issues an id that nobody has seen.
LEMMA BetIdFresh ==
    ASSUME BetIdsInv, NEW p \in Procs, PlayBetId(p)
    PROVE  BetIdsDistinct' /\ BetIdsIssued'
<1> DEFINE n == betCounter + 1
<1>1. /\ betCounter \in Nat /\ n \in Nat /\ betCounter' = n
      /\ sid' = sid /\ sessions' = sessions /\ rows' = rows /\ clone' = clone
      /\ bet'[p] = n
      /\ pc'[p] = "play_round"
      /\ \A q \in Procs : q # p => bet'[q] = bet[q] /\ pc'[q] = pc[q]
  BY DEF BetIdsInv, TypeOK, PlayBetId, Goto, history
<1>2. \A s \in Sessions : s # sid[p] => BetIdsOf(s)' \subseteq BetIdsOf(s)
  BY <1>1 DEF BetIdsOf
<1>3. \A s \in Sessions : BetIdsOf(s)' \subseteq BetIdsOf(s) \union {n}
  BY <1>1 DEF BetIdsOf
<1>4. \A s \in Sessions : \A i \in BetIdsOf(s) : i \in Nat /\ i <= betCounter
  BY BetIdsType DEF BetIdsInv, BetIdsIssued
<1>5. \A s \in Sessions : n \notin BetIdsOf(s)
  BY <1>1, <1>4
<1> HIDE DEF n
<1>6. BetIdsDistinct'
  BY <1>2, <1>3, <1>5 DEF BetIdsDistinct, BetIdsInv
<1>7. \A i \in Nat : i <= betCounter => i <= n
  BY <1>1 DEF n
<1>8. BetIdsIssued'
  <2> SUFFICES ASSUME NEW s \in Sessions, NEW i \in BetIdsOf(s)'
               PROVE  i <= betCounter'
    BY DEF BetIdsIssued
  <2>1. i \in BetIdsOf(s) \/ i = n
    BY <1>2, <1>3
  <2> QED
    BY <2>1, <1>1, <1>4, <1>7
<1> QED
  BY <1>6, <1>8

\* from_storage starts from the rows, and its counter covers them.
LEMMA RestartIds ==
    ASSUME TypeOK, Restart, BetIdsDistinct
    PROVE  BetIdsDistinct' /\ BetIdsIssued'
<1>1. \A s \in Sessions : BetIdsOf(s)' \subseteq {rows[s].round.id, 0}
  <2>1. /\ sessions' = rows /\ rows' = rows
        /\ \A p \in Procs : clone'[p] = Absent /\ bet'[p] = 0
    BY DEF Restart
  <2> QED
    BY <2>1 DEF BetIdsOf, Absent, NoRound
<1>2. \A s \in Sessions : rows[s].round.id \in BetIdsOf(s)
  BY DEF BetIdsOf
<1>3. BetIdsDistinct'
  BY <1>1, <1>2 DEF BetIdsDistinct
<1>4. betCounter' \in Nat /\ \A s \in Sessions : rows[s].round.id <= betCounter'
  BY WalletAssumption DEF Restart, IsCounterOf, WalletAssumption
<1>5. BetIdsIssued'
  BY <1>1, <1>4 DEF BetIdsIssued
<1> QED
  BY <1>3, <1>5

\* Every other step of a handler shows no new id.
LEMMA StepIds ==
    ASSUME TypeOK, DrawnKept, CloneWhileSaving, NEW p \in Procs, Step(p),
           ~PlayBetId(p)
    PROVE  NoNewId
<1> USE DEF history, local, store
<1> DEFINE current == sessions[sid[p]]
<1>1. current \in SessionStates /\ current.round.id \in BetIdsOf(sid[p])
  BY DEF TypeOK, BetIdsOf
<1>2. CASE Save(p)
  <2>1. Stored(clone[p]).round.id = clone[p].round.id
    BY RoundKept DEF TypeOK
  <2>2. /\ rows' = [rows EXCEPT ![sid[p]] = Stored(clone[p])]
        /\ sessions' = sessions /\ sid' = sid /\ bet' = bet
        /\ betCounter' = betCounter
        /\ clone' = [clone EXCEPT ![p] = Absent]
        /\ pc' = [pc EXCEPT ![p] = after[p]]
    BY <1>2 DEF Save, Goto
  <2>3. after[p] # "play_round"
    BY DEF TypeOK, Continuations
  <2>4. NoNewId
    <3> SUFFICES ASSUME NEW s \in Sessions, NEW i \in BetIdsOf(s)'
                 PROVE  i \in BetIdsOf(s) \union {0}
      BY <2>2 DEF NoNewId, TypeOK
    <3>1. CASE i = rows'[s].round.id
      BY <2>1, <2>2, <3>1 DEF BetIdsOf, TypeOK
    <3>2. CASE i = sessions'[s].round.id
      BY <2>2, <3>2 DEF BetIdsOf
    <3>3. ASSUME NEW q \in Procs, sid'[q] = s, i = clone'[q].round.id
          PROVE  i \in BetIdsOf(s) \union {0}
      BY <2>2, <3>3 DEF BetIdsOf, Absent, NoRound, TypeOK
    <3>4. ASSUME NEW q \in Procs, sid'[q] = s, pc'[q] = "play_round", i = bet'[q]
          PROVE  i \in BetIdsOf(s)
      BY <2>2, <2>3, <3>4 DEF BetIdsOf, TypeOK
    <3> QED
      BY <3>1, <3>2, <3>3, <3>4 DEF BetIdsOf
  <2> QED
    BY <2>4
<1>3. CASE AuthenticateCreate(p) \/ PrepareUpsert(p)
  <2>1. PICK b : Put(p, sid[p], Fresh(b), "idle")
    BY <1>3 DEF AuthenticateCreate, PrepareUpsert
  <2>2. Fresh(b).round.id = 0
    BY DEF Fresh, NoRound
  <2> QED
    BY <1>3, <2>1, <2>2, PutIds DEF AuthenticateCreate, PrepareUpsert
<1>4. CASE PlayCredit(p) \/ EndCredit(p)
  <2>1. PICK next \in {"play_deduct", "end_clear"} : Credit(p, next)
    BY <1>4 DEF PlayCredit, EndCredit
  <2>2. AddWinnings(current, seen[p].payout).round.id \in BetIdsOf(sid[p])
    BY <1>1, RoundKept
  <2> QED
    BY <2>1, <2>2, UpdateIds DEF Credit
<1>5. CASE PlayDeduct(p)
  <2>1. Deduct(current, Cost[mode[p]]).round.id \in BetIdsOf(sid[p])
    BY <1>1, RoundKept
  <2> QED
    BY <1>5, <2>1, PutIds DEF PlayDeduct
<1>6. CASE PlayInsufficientBalance(p) \/ PlayEngineFails(p)
  BY <1>6, GotoIds DEF PlayInsufficientBalance, PlayEngineFails
<1>7. CASE PlayDraw(p)
  BY <1>7, GotoIds DEF PlayDraw
<1>8. CASE PlayLast(p)
  <2>1. SetLast(current, drawn[p]).round.id \in BetIdsOf(sid[p])
    BY <1>1, RoundKept
  <2> QED
    BY <1>8, <2>1, UpdateIds DEF PlayLast
<1>9. CASE PlayPush(p)
  <2>1. PICK entry : Update(p, PushEvent(current, entry), "play_id")
    BY <1>9 DEF PlayPush
  <2>2. PushEvent(current, entry).round.id \in BetIdsOf(sid[p])
    BY <1>1, RoundKept
  <2>3. rows' = rows /\ sid' = sid /\ betCounter' = betCounter /\ bet' = bet
    BY <1>9 DEF PlayPush
  <2> QED
    BY <2>1, <2>2, <2>3, UpdateIds
<1>10. CASE PlayRound(p)
  <2> DEFINE r == [id |-> bet[p], payout |-> Payout[drawn[p]]]
  <2>1. SetRound(current, r).round.id = bet[p]
    BY <1>1, RoundKept
  <2>2. bet[p] \in BetIdsOf(sid[p])
    BY <1>10 DEF PlayRound, BetIdsOf
  <2> QED
    BY <1>10, <2>1, <2>2, UpdateIds DEF PlayRound, TypeOK
<1>11. CASE EndClear(p)
  <2>1. SetRound(current, NoRound).round.id = 0
    BY <1>1, RoundKept DEF NoRound
  <2> QED
    BY <1>11, <2>1, UpdateIds DEF EndClear
<1>12. CASE ResetRows(p)
  BY <1>12 DEF ResetRows, Goto, NoNewId, TypeOK, BetIdsOf, Absent, NoRound
<1> QED
  BY <1>2, <1>3, <1>4, <1>5, <1>6, <1>7, <1>8, <1>9, <1>10, <1>11, <1>12 DEF Step

LEMMA RequestIds ==
    ASSUME TypeOK, CloneWhileSaving, NEW p \in Procs, Request(p)
    PROVE  NoNewId
<1> USE DEF history, local, store
<1>1. ASSUME NEW s \in Sessions, Authenticate(p, s) \/ PrepareMissing(p, s)
      PROVE  NoNewId
  BY <1>1, TakeIds DEF Authenticate, PrepareMissing
<1>2. ASSUME NEW s \in Sessions, Play(p, s) \/ EndRound(p, s)
      PROVE  NoNewId
  <2>1. PICK next \in {"play_credit", "play_deduct", "end_credit", "end_clear"} :
          Goto(p, next)
    BY <1>2 DEF Play, EndRound
  <2> QED
    BY <1>2, <2>1, TakeIds DEF Play, EndRound
<1>3. CASE ResetSessions(p)
  BY <1>3 DEF ResetSessions, Goto, NoNewId, TypeOK, BetIdsOf, Absent, NoRound
<1> QED
  BY <1>1, <1>2, <1>3, PrepareIds DEF Request

LEMMA CloneWhileSavingStep ==
    ASSUME TypeOK, CloneWhileSaving, Next
    PROVE  CloneWhileSaving'
<1> USE DEF CloneWhileSaving, TypeOK, Goto, store, local, history
<1>1. ASSUME NEW p \in Procs, Step(p) PROVE CloneWhileSaving'
  <2> USE DEF Update, Put
  <2>1. CASE Save(p)
    BY <2>1 DEF Save
  <2>2. CASE AuthenticateCreate(p) \/ PrepareUpsert(p)
    BY <2>2 DEF AuthenticateCreate, PrepareUpsert
  <2>3. CASE PlayCredit(p) \/ EndCredit(p)
    BY <2>3 DEF PlayCredit, EndCredit, Credit
  <2>4. CASE PlayDeduct(p) \/ PlayInsufficientBalance(p) \/ PlayEngineFails(p)
    BY <2>4 DEF PlayDeduct, PlayInsufficientBalance, PlayEngineFails
  <2>5. CASE PlayDraw(p)
    BY <2>5 DEF PlayDraw
  <2>6. CASE PlayLast(p)
    BY <2>6 DEF PlayLast
  <2>7. CASE PlayPush(p)
    <3>1. PICK session : Update(p, session, "play_id")
      BY <2>7 DEF PlayPush
    <3>2. pc[p] = "play_push"
      BY <2>7 DEF PlayPush
    <3> QED
      BY <3>1, <3>2
  <2>8. CASE PlayBetId(p)
    BY <2>8 DEF PlayBetId
  <2>9. CASE PlayRound(p) \/ EndClear(p)
    BY <2>9 DEF PlayRound, EndClear
  <2>10. CASE ResetRows(p)
    BY <2>10 DEF ResetRows
  <2> QED
    BY <1>1, <2>1, <2>2, <2>3, <2>4, <2>5, <2>6, <2>7, <2>8, <2>9, <2>10 DEF Step
<1>2. ASSUME NEW p \in Procs, Request(p) PROVE CloneWhileSaving'
  <2> USE DEF Take, Put, Idle
  <2>1. ASSUME NEW s \in Sessions, Authenticate(p, s) \/ PrepareMissing(p, s)
        PROVE  CloneWhileSaving'
    BY <2>1 DEF Authenticate, PrepareMissing
  <2>2. ASSUME NEW s \in Sessions, PrepareExisting(p, s) PROVE CloneWhileSaving'
    BY <2>2 DEF PrepareExisting
  <2>3. ASSUME NEW s \in Sessions, Play(p, s) \/ EndRound(p, s)
        PROVE  CloneWhileSaving'
    BY <2>3 DEF Play, EndRound
  <2>4. CASE ResetSessions(p)
    BY <2>4 DEF ResetSessions
  <2> QED
    BY <1>2, <2>1, <2>2, <2>3, <2>4 DEF Request
<1>3. CASE ForceEvent \/ Restart
  BY <1>3 DEF ForceEvent, Restart
<1> QED
  BY <1>1, <1>2, <1>3 DEF Next

\* Every step keeps the ids apart.
LEMMA BetIdsAlways == Spec => []BetIdsInv
<1>1. Init => BetIdsInv
  <2> SUFFICES ASSUME Init PROVE BetIdsInv
    OBVIOUS
  <2>1. TypeOK
    BY AbsentType, WalletAssumption
       DEF Init, TypeOK, Steps, Continuations, Rounds, NoRound, WalletAssumption
  <2>2. \A s \in Sessions : BetIdsOf(s) \subseteq {0}
    BY DEF Init, BetIdsOf, Absent, NoRound
  <2> QED
    BY <2>1, <2>2
       DEF Init, BetIdsInv, BetIdsDistinct, BetIdsIssued, CloneWhileSaving
<1>2. BetIdsInv /\ TypeOK' /\ DrawnKept /\ [Next]_vars => BetIdsInv'
  <2> SUFFICES ASSUME BetIdsInv, TypeOK', DrawnKept, [Next]_vars
               PROVE  BetIdsDistinct' /\ BetIdsIssued' /\ CloneWhileSaving'
    BY DEF BetIdsInv
  <2> USE DEF BetIdsInv
  <2>1. CASE Next
    <3>1. ASSUME NEW p \in Procs, Step(p) PROVE BetIdsDistinct' /\ BetIdsIssued'
      BY <3>1, BetIdFresh, StepIds, NoNewIdKeeps
    <3>2. ASSUME NEW p \in Procs, Request(p) PROVE BetIdsDistinct' /\ BetIdsIssued'
      BY <3>2, RequestIds, NoNewIdKeeps
    <3>3. CASE ForceEvent
      <4>1. NoNewId
        BY <3>3 DEF ForceEvent, NoNewId, BetIdsOf, TypeOK, local
      <4> QED
        BY <4>1, <2>1, NoNewIdKeeps, CloneWhileSavingStep
    <3> QED
      BY <2>1, <3>1, <3>2, <3>3, RestartIds, CloneWhileSavingStep DEF Next
  <2>2. CASE UNCHANGED vars
    <3>1. NoNewId
      BY <2>2 DEF vars, store, local, history, NoNewId, BetIdsOf, TypeOK
    <3>2. CloneWhileSaving'
      BY <2>2 DEF vars, local, CloneWhileSaving
    <3> QED
      BY <3>1, <3>2, NoNewIdKeeps
  <2> QED
    BY <2>1, <2>2
<1> QED
  BY <1>1, <1>2, TypeCorrect, PTL DEF Spec

\* No two sessions ever hold rounds with the same bet id: not in memory, not
\* in the table, not on the way there, and not after any number of restarts,
\* although from_storage only counts the rounds that are still active in rows
\* that may be stale (session.rs, next_bet_id and from_storage).
THEOREM BetIdsNeverCollide == Spec => []BetIdsDistinct
<1>1. BetIdsInv => BetIdsDistinct
  BY DEF BetIdsInv
<1> QED
  BY <1>1, BetIdsAlways, PTL

-----------------------------------------------------------------------------
(***************************************************************************)
(* Clients that wait for replies (Serial): what the table, the history and *)
(* the balance of a session have to do with each other.                    *)
(*                                                                         *)
(* The argument is the same throughout.  A step of one thread leaves every *)
(* other busy thread, and the session of each, alone; so a fact about the  *)
(* threads and sessions needs a look only at the thread that moves and the *)
(* session it works on.                                                    *)
(***************************************************************************)

\* No two busy threads share a session, and none is busy during a reset.
Exclusive ==
    \A p, q \in Procs :
        p # q /\ ~Idle(p) /\ ~Idle(q) => sid[p] # sid[q] /\ pc[p] # "reset_rows"

Creating == {"auth_create", "prepare_upsert"}

\* A thread creates a session that is absent and works on one that is there.
OnLive ==
    \A p \in Procs :
        /\ pc[p] \in Creating => ~sessions[sid[p]].live
        /\ pc[p] \notin Creating \union {"idle", "reset_rows"} => sessions[sid[p]].live

\* The clone a thread is about to save is the session.
ClonesCurrent ==
    \A p \in Procs : pc[p] = "save" => clone[p] = sessions[sid[p]]

\* Some thread still has to write the row of s.
RowPending(s) ==
    \E p \in Procs : pc[p] = "reset_rows" \/ (pc[p] = "save" /\ sid[p] = s)

RowsFollow ==
    \A s \in Sessions : rows[s] = Stored(sessions[s]) \/ RowPending(s)

\* A row holds a balance that SQLite can hold.
RowsStored == \A s \in Sessions : Stored(rows[s]) = rows[s]

\* reset_all empties the map before it empties the table.
ResetEmpties ==
    \A p \in Procs : pc[p] = "reset_rows" => \A s \in Sessions : sessions[s] = Absent

SerialInv ==
    /\ Exclusive /\ OnLive /\ ClonesCurrent /\ RowsFollow /\ RowsStored /\ ResetEmpties

-----------------------------------------------------------------------------
(* One thread moves. *)

\* A step of thread p that touches no other thread and no other session.
Alone(p) ==
    /\ \A q \in Procs \ {p} :
         /\ pc'[q] = pc[q] /\ after'[q] = after[q] /\ sid'[q] = sid[q]
         /\ mode'[q] = mode[q] /\ seen'[q] = seen[q] /\ drawn'[q] = drawn[q]
         /\ bet'[q] = bet[q] /\ clone'[q] = clone[q]
    /\ \A t \in Sessions \ {sid'[p]} :
         sessions'[t] = sessions[t] /\ rows'[t] = rows[t]
    /\ Idle(p) \/ sid'[p] = sid[p]
    /\ pc[p] # "reset_rows" /\ pc'[p] # "reset_rows"

\* Nobody else is busy on the session p works on, or resetting.
Apart(p) ==
    \A q \in Procs \ {p} : ~Idle(q) => sid[q] # sid'[p] /\ pc[q] # "reset_rows"

\* What it does with that session: it walks on (or takes a request for it)
\* without a change, changes it in the map, or saves its clone.
Walks(p) ==
    /\ pc[p] # "save" /\ pc'[p] # "save"
    /\ sessions'[sid'[p]] = sessions[sid'[p]]
    /\ rows'[sid'[p]] = rows[sid'[p]]
    /\ pc'[p] \in Creating => ~sessions[sid'[p]].live
    /\ pc'[p] \notin Creating \union {"idle"} => sessions[sid'[p]].live

Changes(p) ==
    /\ pc[p] # "save" /\ pc'[p] = "save"
    /\ sessions'[sid'[p]].live
    /\ clone'[p] = sessions'[sid'[p]]
    /\ rows'[sid'[p]] = rows[sid'[p]]

Saves(p) ==
    /\ pc[p] = "save" /\ pc'[p] \notin Creating \union {"save"}
    /\ sessions'[sid'[p]] = sessions[sid'[p]]
    /\ rows'[sid'[p]] = Stored(clone[p])

Moves(p) == Alone(p) /\ Apart(p) /\ (Walks(p) \/ Changes(p) \/ Saves(p))

\* Where a store call finds its session, Update puts the new one.
LEMMA UpdatePuts ==
    ASSUME SerialInv, NEW p \in Procs, NEW session, NEW next, Update(p, session, next),
           pc[p] \notin Creating \union {"idle", "reset_rows"}
    PROVE  Put(p, sid[p], session, next)
BY DEF SerialInv, OnLive, Update

\* A thread that puts its session back changes it, and moves alone.
LEMMA PutMoves ==
    ASSUME TypeOK, SerialInv, NEW p \in Procs, NEW session, NEW next,
           Put(p, sid[p], session, next), session.live,
           pc[p] \notin {"idle", "save", "reset_rows"},
           sid' = sid, rows' = rows, mode' = mode,
           \A q \in Procs \ {p} :
             seen'[q] = seen[q] /\ drawn'[q] = drawn[q] /\ bet'[q] = bet[q]
    PROVE  Moves(p)
<1>1. Alone(p)
  BY DEF Alone, Put, Goto, TypeOK
<1>2. Apart(p)
  BY DEF Apart, SerialInv, Exclusive, Idle
<1>3. Changes(p)
  BY DEF Changes, Put, Goto, TypeOK
<1> QED
  BY <1>1, <1>2, <1>3 DEF Moves

\* A thread that goes on without a change.
LEMMA GotoMoves ==
    ASSUME TypeOK, SerialInv, NEW p \in Procs, NEW next, Goto(p, next),
           pc[p] \notin Creating \union {"idle", "save", "reset_rows"},
           next \notin Creating \union {"save", "reset_rows"},
           sid' = sid, rows' = rows, sessions' = sessions, clone' = clone,
           after' = after, mode' = mode,
           \A q \in Procs \ {p} :
             seen'[q] = seen[q] /\ drawn'[q] = drawn[q] /\ bet'[q] = bet[q]
    PROVE  Moves(p)
<1>1. Alone(p)
  BY DEF Alone, Goto, TypeOK
<1>2. Apart(p)
  BY DEF Apart, SerialInv, Exclusive, Idle
<1>3. Walks(p)
  BY DEF Walks, Goto, TypeOK, SerialInv, OnLive
<1> QED
  BY <1>1, <1>2, <1>3 DEF Moves

\* Only the creating steps touch `live`.
LEMMA LiveKept ==
    ASSUME NEW s \in SessionStates
    PROVE  /\ \A amount : Deduct(s, amount).live = s.live
           /\ \A amount : AddWinnings(s, amount).live = s.live
           /\ \A e : SetLast(s, e).live = s.live
           /\ \A e : PushEvent(s, e).live = s.live
           /\ \A r : SetRound(s, r).live = s.live
BY DEF SessionStates, Deduct, AddWinnings, SetLast, PushEvent, SetRound

LEMMA StepMoves ==
    ASSUME TypeOK, SerialInv, NEW p \in Procs, Step(p), ~ResetRows(p)
    PROVE  Moves(p)
<1> USE DEF history, local, store
<1> DEFINE current == sessions[sid[p]]
<1>1. current \in SessionStates
  BY DEF TypeOK
<1>2. pc[p] \notin Creating \union {"idle", "reset_rows"} => current.live
  BY DEF SerialInv, OnLive
<1>3. CASE Save(p)
  <2>1. Alone(p)
    BY <1>3 DEF Save, Goto, Alone, TypeOK, Continuations
  <2>2. Apart(p)
    BY <1>3 DEF Save, Apart, SerialInv, Exclusive, Idle
  <2>3. Saves(p)
    BY <1>3 DEF Save, Goto, Saves, TypeOK, Continuations, Creating
  <2> QED
    BY <2>1, <2>2, <2>3 DEF Moves
<1>4. CASE AuthenticateCreate(p) \/ PrepareUpsert(p)
  <2>1. PICK b : Put(p, sid[p], Fresh(b), "idle")
    BY <1>4 DEF AuthenticateCreate, PrepareUpsert
  <2>2. Fresh(b).live
    BY DEF Fresh
  <2> QED
    BY <1>4, <2>1, <2>2, PutMoves DEF AuthenticateCreate, PrepareUpsert
<1>5. CASE PlayCredit(p) \/ EndCredit(p)
  <2>1. PICK next \in {"play_deduct", "end_clear"} : Credit(p, next)
    BY <1>5 DEF PlayCredit, EndCredit
  <2>2. pc[p] \in {"play_credit", "end_credit"}
    BY <1>5 DEF PlayCredit, EndCredit
  <2>3. Put(p, sid[p], AddWinnings(current, seen[p].payout), next)
    BY <2>1, <2>2, UpdatePuts DEF Credit, Creating
  <2>4. AddWinnings(current, seen[p].payout).live
    BY <1>1, <1>2, <2>2, LiveKept DEF Creating
  <2>5. \A q \in Procs \ {p} : seen'[q] = seen[q]
    BY <2>1 DEF Credit, TypeOK
  <2> QED
    BY <2>1, <2>2, <2>3, <2>4, <2>5, PutMoves DEF Credit
<1>6. CASE PlayDeduct(p)
  <2>1. Deduct(current, Cost[mode[p]]).live
    BY <1>1, <1>6, LiveKept DEF PlayDeduct
  <2> QED
    BY <1>6, <2>1, PutMoves DEF PlayDeduct
<1>7. CASE PlayInsufficientBalance(p) \/ PlayEngineFails(p)
  BY <1>7, GotoMoves DEF PlayInsufficientBalance, PlayEngineFails, Creating
<1>8. CASE PlayDraw(p)
  <2>1. \A q \in Procs \ {p} : drawn'[q] = drawn[q]
    BY <1>8 DEF PlayDraw, TypeOK
  <2> QED
    BY <1>8, <2>1, GotoMoves DEF PlayDraw, Creating
<1>9. CASE PlayLast(p)
  <2>1. Put(p, sid[p], SetLast(current, drawn[p]), "play_push")
    BY <1>9, UpdatePuts DEF PlayLast, Creating
  <2>2. SetLast(current, drawn[p]).live
    BY <1>1, <1>2, <1>9, LiveKept DEF PlayLast, Creating
  <2> QED
    BY <1>9, <2>1, <2>2, PutMoves DEF PlayLast
<1>10. CASE PlayPush(p)
  <2>1. PICK entry : Update(p, PushEvent(current, entry), "play_id")
    BY <1>10 DEF PlayPush
  <2>2. Put(p, sid[p], PushEvent(current, entry), "play_id")
    BY <1>10, <2>1, UpdatePuts DEF PlayPush, Creating
  <2>3. PushEvent(current, entry).live
    BY <1>1, <1>2, <1>10, LiveKept DEF PlayPush, Creating
  <2>4. /\ pc[p] = "play_push" /\ rows' = rows /\ sid' = sid /\ mode' = mode
        /\ seen' = seen /\ drawn' = drawn /\ bet' = bet
    BY <1>10 DEF PlayPush
  <2> QED
    BY <2>2, <2>3, <2>4, PutMoves
<1>11. CASE PlayBetId(p)
  <2>1. \A q \in Procs \ {p} : bet'[q] = bet[q]
    BY <1>11 DEF PlayBetId, TypeOK
  <2> QED
    BY <1>11, <2>1, GotoMoves DEF PlayBetId, Creating
<1>12. CASE PlayRound(p)
  <2> DEFINE r == [id |-> bet[p], payout |-> Payout[drawn[p]]]
  <2>1. Put(p, sid[p], SetRound(current, r), "idle")
    BY <1>12, UpdatePuts DEF PlayRound, Creating
  <2>2. SetRound(current, r).live
    BY <1>1, <1>2, <1>12, LiveKept DEF PlayRound, Creating
  <2>3. \A q \in Procs \ {p} : drawn'[q] = drawn[q] /\ bet'[q] = bet[q]
    BY <1>12 DEF PlayRound, TypeOK
  <2> QED
    BY <1>12, <2>1, <2>2, <2>3, PutMoves DEF PlayRound
<1>13. CASE EndClear(p)
  <2>1. Put(p, sid[p], SetRound(current, NoRound), "idle")
    BY <1>13, UpdatePuts DEF EndClear, Creating
  <2>2. SetRound(current, NoRound).live
    BY <1>1, <1>2, <1>13, LiveKept DEF EndClear, Creating
  <2> QED
    BY <1>13, <2>1, <2>2, PutMoves DEF EndClear
<1> QED
  BY <1>3, <1>4, <1>5, <1>6, <1>7, <1>8, <1>9, <1>10, <1>11, <1>12, <1>13 DEF Step

\* A client that waits for its replies takes a session nobody is busy with.
LEMMA TakeApart ==
    ASSUME TypeOK, Serial, NEW p \in Procs, NEW s \in Sessions, NEW request,
           Take(p, s, request)
    PROVE  Apart(p) /\ Idle(p) /\ sid'[p] = s
BY DEF Take, Apart, Idle, TypeOK

LEMMA RequestMoves ==
    ASSUME TypeOK, Serial, SerialInv, NEW p \in Procs, Request(p), ~ResetSessions(p)
    PROVE  Moves(p)
<1> USE DEF history, local, store
<1>1. ASSUME NEW s \in Sessions, Authenticate(p, s) \/ PrepareMissing(p, s)
      PROVE  Moves(p)
  <2>1. Apart(p) /\ Idle(p) /\ sid'[p] = s
    BY <1>1, TakeApart DEF Authenticate, PrepareMissing
  <2>2. Alone(p)
    BY <1>1, <2>1 DEF Authenticate, PrepareMissing, Take, Goto, Alone, Idle, TypeOK
  <2>3. Walks(p)
    BY <1>1, <2>1 DEF Authenticate, PrepareMissing, Goto, Walks, Idle, TypeOK, Creating
  <2> QED
    BY <2>1, <2>2, <2>3 DEF Moves
<1>2. ASSUME NEW s \in Sessions, PrepareExisting(p, s) PROVE Moves(p)
  <2>1. Apart(p) /\ Idle(p) /\ sid'[p] = s
    BY <1>2, TakeApart DEF PrepareExisting
  <2>2. Alone(p)
    BY <1>2, <2>1 DEF PrepareExisting, Take, Put, Goto, Alone, Idle, TypeOK
  <2>3. Changes(p)
    BY <1>2, <2>1 DEF PrepareExisting, Put, Goto, Changes, Idle, TypeOK
  <2> QED
    BY <2>1, <2>2, <2>3 DEF Moves
<1>3. ASSUME NEW s \in Sessions, Play(p, s) \/ EndRound(p, s) PROVE Moves(p)
  <2>1. Apart(p) /\ Idle(p) /\ sid'[p] = s
    BY <1>3, TakeApart DEF Play, EndRound
  <2>2. PICK next \in {"play_credit", "play_deduct", "end_credit", "end_clear"} :
          Goto(p, next)
    BY <1>3 DEF Play, EndRound
  <2>3. /\ sessions[s].live /\ sessions' = sessions /\ rows' = rows
        /\ sid' = [sid EXCEPT ![p] = s]
        /\ after' = after /\ drawn' = drawn /\ bet' = bet /\ clone' = clone
        /\ \A q \in Procs \ {p} : mode'[q] = mode[q] /\ seen'[q] = seen[q]
    BY <1>3 DEF Play, EndRound, Take, TypeOK
  <2>4. Alone(p)
    BY <2>1, <2>2, <2>3 DEF Goto, Alone, Idle, TypeOK
  <2>5. Walks(p)
    BY <2>1, <2>2, <2>3 DEF Goto, Walks, Idle, TypeOK, Creating
  <2> QED
    BY <2>1, <2>4, <2>5 DEF Moves
<1> QED
  BY <1>1, <1>2, <1>3 DEF Request

-----------------------------------------------------------------------------
(* The table follows the map. *)

LEMMA StoredTwice ==
    ASSUME NEW s \in SessionStates
    PROVE  Stored(Stored(s)) = Stored(s)
BY StoreAssumption DEF Stored, SessionStates, Balances, StoreAssumption

LEMMA StoredAbsent == Stored(Absent) = Absent
<1>1. (IF 0 > MaxI64 THEN MaxI64 ELSE 0) = 0
  BY StoreAssumption DEF StoreAssumption
<1>2. Absent.balance = 0
  BY DEF Absent
<1>3. [Absent EXCEPT !.balance = Absent.balance] = Absent
  BY AbsentType DEF SessionStates
<1> QED
  BY <1>1, <1>2, <1>3 DEF Stored

LEMMA MovesKeepExclusive ==
    ASSUME SerialInv, NEW p \in Procs, Moves(p)
    PROVE  Exclusive'
BY DEF SerialInv, Exclusive, Moves, Alone, Apart, Idle

LEMMA MovesKeepLive ==
    ASSUME TypeOK', SerialInv, NEW p \in Procs, Moves(p)
    PROVE  OnLive'
<1> SUFFICES ASSUME NEW q \in Procs
             PROVE  /\ pc'[q] \in Creating => ~sessions'[sid'[q]].live
                    /\ pc'[q] \notin Creating \union {"idle", "reset_rows"}
                         => sessions'[sid'[q]].live
  BY DEF OnLive
<1>1. CASE q = p
  <2>1. CASE Walks(p)
    BY <1>1, <2>1 DEF Walks
  <2>2. CASE Changes(p)
    BY <1>1, <2>2 DEF Changes, Creating
  <2>3. CASE Saves(p)
    BY <1>1, <2>3 DEF Saves, Moves, Alone, Idle, SerialInv, OnLive, Creating
  <2> QED
    BY <2>1, <2>2, <2>3 DEF Moves
<1>2. CASE q # p /\ Idle(q)
  BY <1>2 DEF Moves, Alone, Idle, Creating
<1>3. CASE q # p /\ ~Idle(q)
  <2>1. pc'[q] = pc[q] /\ sid'[q] = sid[q] /\ sid[q] # sid'[p]
    BY <1>3 DEF Moves, Alone, Apart
  <2>2. sid'[q] \in Sessions
    BY DEF TypeOK
  <2>3. sessions'[sid'[q]] = sessions[sid[q]]
    BY <2>1, <2>2 DEF Moves, Alone
  <2> QED
    BY <2>1, <2>3 DEF SerialInv, OnLive
<1> QED
  BY <1>1, <1>2, <1>3

LEMMA MovesKeepClones ==
    ASSUME TypeOK', SerialInv, NEW p \in Procs, Moves(p)
    PROVE  ClonesCurrent'
<1> SUFFICES ASSUME NEW q \in Procs, pc'[q] = "save"
             PROVE  clone'[q] = sessions'[sid'[q]]
  BY DEF ClonesCurrent
<1>1. CASE q = p
  BY <1>1 DEF Moves, Walks, Changes, Saves
<1>2. CASE q # p
  <2>1. pc[q] = "save" /\ sid'[q] = sid[q] /\ clone'[q] = clone[q] /\ sid[q] # sid'[p]
    BY <1>2 DEF Moves, Alone, Apart, Idle
  <2>2. sid'[q] \in Sessions
    BY DEF TypeOK
  <2>3. sessions'[sid'[q]] = sessions[sid[q]]
    BY <2>1, <2>2 DEF Moves, Alone
  <2> QED
    BY <2>1, <2>3 DEF SerialInv, ClonesCurrent
<1> QED
  BY <1>1, <1>2

LEMMA MovesKeepRows ==
    ASSUME TypeOK, TypeOK', SerialInv, NEW p \in Procs, Moves(p)
    PROVE  RowsFollow' /\ RowsStored'
<1>1. ASSUME NEW s \in Sessions, s # sid'[p]
      PROVE  rows'[s] = Stored(sessions'[s]) \/ RowPending(s)'
  <2>1. rows'[s] = rows[s] /\ sessions'[s] = sessions[s]
    BY <1>1 DEF Moves, Alone
  <2>2. ASSUME NEW q \in Procs, pc[q] = "save", sid[q] = s
        PROVE  pc'[q] = "save" /\ sid'[q] = s
    BY <1>1, <2>2 DEF Moves, Alone, Idle
  <2>3. ASSUME NEW q \in Procs, pc[q] = "reset_rows"
        PROVE  pc'[q] = "reset_rows"
    BY <2>3 DEF Moves, Alone
  <2> QED
    BY <2>1, <2>2, <2>3 DEF SerialInv, RowsFollow, RowPending
<1>2. ASSUME NEW s \in Sessions, s = sid'[p]
      PROVE  rows'[s] = Stored(sessions'[s]) \/ RowPending(s)'
  <2>1. CASE Changes(p)
    BY <1>2, <2>1 DEF Changes, RowPending
  <2>2. CASE Saves(p)
    BY <1>2, <2>2 DEF Saves, Moves, Alone, Idle, SerialInv, ClonesCurrent
  <2>3. CASE Walks(p)
    <3>1. ~RowPending(s)
      BY <1>2, <2>3 DEF RowPending, Walks, Moves, Alone, Apart, Idle
    <3> QED
      BY <1>2, <2>3, <3>1 DEF Walks, SerialInv, RowsFollow
  <2> QED
    BY <2>1, <2>2, <2>3 DEF Moves
<1>3. RowsFollow'
  BY <1>1, <1>2 DEF RowsFollow
<1>4. RowsStored'
  <2> SUFFICES ASSUME NEW s \in Sessions PROVE Stored(rows'[s]) = rows'[s]
    BY DEF RowsStored
  <2>1. CASE rows'[s] = rows[s]
    BY <2>1 DEF SerialInv, RowsStored
  <2>2. CASE rows'[s] # rows[s]
    <3>1. s = sid'[p] /\ rows'[s] = Stored(clone[p])
      BY <2>2 DEF Moves, Alone, Walks, Changes, Saves
    <3> QED
      BY <3>1, StoredTwice DEF TypeOK
  <2> QED
    BY <2>1, <2>2
<1> QED
  BY <1>3, <1>4

LEMMA MovesKeep ==
    ASSUME TypeOK, TypeOK', SerialInv, NEW p \in Procs, Moves(p)
    PROVE  SerialInv'
<1>1. ResetEmpties'
  BY DEF ResetEmpties, SerialInv, Moves, Alone, Apart, Idle
<1> QED
  BY <1>1, MovesKeepExclusive, MovesKeepLive, MovesKeepClones, MovesKeepRows DEF SerialInv

\* reset_all first empties the map ...
LEMMA ResetSessionsKeeps ==
    ASSUME TypeOK, Serial, SerialInv, NEW p \in Procs, ResetSessions(p)
    PROVE  SerialInv'
<1>1. /\ \A q \in Procs : pc'[q] = IF q = p THEN "reset_rows" ELSE "idle"
      /\ \A s \in Sessions : sessions'[s] = Absent
      /\ rows' = rows
  BY DEF ResetSessions, Goto, Idle, TypeOK
<1>2. pc'[p] = "reset_rows"
  BY <1>1
<1>3. Exclusive' /\ OnLive' /\ ClonesCurrent' /\ ResetEmpties'
  BY <1>1 DEF Exclusive, OnLive, ClonesCurrent, ResetEmpties, Idle, Creating
<1>4. RowsFollow' /\ RowsStored'
  BY <1>1, <1>2 DEF RowsFollow, RowPending, SerialInv, RowsStored
<1> QED
  BY <1>3, <1>4 DEF SerialInv

\* ... and then the table, while no request is under way.
LEMMA ResetRowsKeeps ==
    ASSUME TypeOK, SerialInv, NEW p \in Procs, ResetRows(p)
    PROVE  SerialInv'
<1>1. /\ \A q \in Procs : pc'[q] = "idle"
      /\ \A s \in Sessions : sessions'[s] = Absent /\ rows'[s] = Absent
  BY DEF ResetRows, Goto, Idle, TypeOK, SerialInv, Exclusive, ResetEmpties
<1> QED
  BY <1>1, StoredAbsent
     DEF SerialInv, Exclusive, OnLive, ClonesCurrent, RowsFollow, RowPending, RowsStored,
         ResetEmpties, Idle, Creating

\* A restart reads the rows, and a row is what it would be stored as.
LEMMA RestartKeeps ==
    ASSUME SerialInv, Restart
    PROVE  SerialInv'
<1>1. /\ \A q \in Procs : pc'[q] = "idle"
      /\ sessions' = rows /\ rows' = rows
  BY DEF Restart
<1> QED
  BY <1>1
     DEF SerialInv, Exclusive, OnLive, ClonesCurrent, RowsFollow, RowPending, RowsStored,
         ResetEmpties, Idle, Creating

\* A step that only touches the forced event, the counters or nothing.
LEMMA StillKeeps ==
    ASSUME SerialInv,
           sessions' = sessions, rows' = rows, pc' = pc, sid' = sid, clone' = clone
    PROVE  SerialInv'
BY DEF SerialInv, Exclusive, OnLive, ClonesCurrent, RowsFollow, RowPending, RowsStored,
       ResetEmpties, Idle

\* Every step is one thread moving alone, a reset, a restart, or neither.
LEMMA StepKinds ==
    ASSUME TypeOK, Serial, SerialInv, [Next]_vars
    PROVE  \/ \E p \in Procs : (Step(p) \/ Request(p)) /\ Moves(p)
           \/ \E p \in Procs : ResetSessions(p) \/ ResetRows(p)
           \/ ForceEvent \/ Restart \/ UNCHANGED vars
BY StepMoves, RequestMoves DEF Next

LEMMA SerialStep ==
    ASSUME TypeOK, TypeOK', Serial, SerialInv, [Next]_vars
    PROVE  SerialInv'
<1>1. CASE ForceEvent
  BY <1>1, StillKeeps DEF ForceEvent, local
<1>2. CASE UNCHANGED vars
  BY <1>2, StillKeeps DEF vars, store, local
<1> QED
  BY <1>1, <1>2, StepKinds, MovesKeep, ResetSessionsKeeps, ResetRowsKeeps, RestartKeeps

LEMMA SerialInit == Init => SerialInv
BY StoredAbsent
   DEF Init, SerialInv, Exclusive, OnLive, ClonesCurrent, RowsFollow, RowPending, RowsStored,
       ResetEmpties, Idle, Creating

LEMMA SerialAlways ==
    ASSUME Serial
    PROVE  Spec => []SerialInv
<1>1. TypeOK /\ TypeOK' /\ SerialInv /\ [Next]_vars => SerialInv'
  BY SerialStep
<1> QED
  BY <1>1, SerialInit, TypeCorrect, PTL DEF Spec

\* "A restart resumes the active round, balance, and event history": when the
\* clients of a session wait for their replies, then between requests its row
\* is the session (clamped to what SQLite holds), although every handler saves
\* clones outside the lock, resets clear the map and the table in two steps,
\* plays fail half-way and the server restarts at any point (session.rs,
\* persist_session, reset_all and from_storage).
THEOREM RowsFollowSessions ==
    ASSUME Serial
    PROVE  Spec => []RowsCurrent
<1>1. SerialInv => RowsCurrent
  <2> SUFFICES ASSUME SerialInv, NEW s \in Sessions, Quiet(s)
               PROVE  rows[s] = Stored(sessions[s])
    BY DEF RowsCurrent
  <2>1. ~RowPending(s)
    BY DEF RowPending, Quiet, Idle
  <2> QED
    BY <2>1 DEF SerialInv, RowsFollow
<1> QED
  BY <1>1, SerialAlways, PTL

-----------------------------------------------------------------------------
(* No winning round is dropped unpaid. *)

\* Where a request has paid the round it found (see Settled), and where it is
\* about to.
Settling == {"play_deduct", "play_draw", "play_last", "play_push",
             "play_id", "play_round", "end_clear"}

Crediting == {"play_credit", "end_credit"}

\* Only a round with a bet id can win, in memory and in the table.
WinsHaveIds ==
    \A s \in Sessions :
        /\ sessions[s].round.payout > 0 => sessions[s].round.id > 0
        /\ rows[s].round.payout > 0 => rows[s].round.id > 0

BetTaken == \A p \in Procs : pc[p] = "play_round" => bet[p] > 0

\* What a thread is about to pay is the round in the slot.
SeenCurrent ==
    \A p \in Procs : pc[p] \in Crediting =>
        seen[p] = sessions[sid[p]].round /\ seen[p].payout > 0

SettledPaid ==
    \A s \in Sessions :
        Settled(s) /\ sessions[s].round.payout > 0 => credits[sessions[s].round.id] > 0

SettledInv == WinsHaveIds /\ BetTaken /\ SeenCurrent /\ SettledPaid

\* The request on the session of the thread that moves is that thread's, and
\* the requests on other sessions are as they were.
LEMMA SettledFrame ==
    ASSUME NEW p \in Procs, Moves(p), NEW s \in Sessions
    PROVE  /\ s # sid'[p] => (Settled(s)' <=> Settled(s))
           /\ s = sid'[p] => (Settled(s)' <=> At(p)' \in Settling)
           /\ s = sid'[p] => (Settled(s) <=> At(p) \in Settling)
<1>1. ASSUME NEW q \in Procs, q # p
      PROVE  At(q)' = At(q) /\ sid'[q] = sid[q]
  BY <1>1 DEF Moves, Alone, At
<1>2. ASSUME NEW q \in Procs, q # p, sid[q] = sid'[p]
      PROVE  At(q) \notin Settling
  BY <1>2 DEF Moves, Apart, Idle, At, Settling
<1>3. Idle(p) => At(p) \notin Settling
  BY DEF Idle, At, Settling
<1>4. Idle(p) \/ sid'[p] = sid[p]
  BY DEF Moves, Alone
<1>5. /\ Settled(s) <=> \E q \in Procs : sid[q] = s /\ At(q) \in Settling
      /\ Settled(s)' <=> \E q \in Procs : sid'[q] = s /\ At(q)' \in Settling
  BY DEF Settled, On, Settling
<1> QED
  BY <1>1, <1>2, <1>3, <1>4, <1>5

\* A store call leaves the thread at the step that follows it.
LEMMA PutOwn ==
    ASSUME TypeOK, NEW p \in Procs, NEW session, NEW next, Put(p, sid[p], session, next)
    PROVE  /\ sessions'[sid[p]] = session
           /\ pc'[p] = "save" /\ At(p)' = next
BY DEF TypeOK, Put, Goto, At

\* Only add_winnings pays, and it pays the round in the slot.
PaysOwn(p) ==
    \/ credits' = credits
    \/ /\ pc[p] \in Crediting /\ sid' = sid
       /\ sessions[sid[p]].round.id > 0
       /\ credits' = [credits EXCEPT ![sessions[sid[p]].round.id]
                                        = IF @ < 2 THEN @ + 1 ELSE @]

LEMMA CreditOwn ==
    ASSUME TypeOK, SerialInv, SettledInv, NEW p \in Procs, NEW next, Credit(p, next),
           pc[p] \in Crediting
    PROVE  /\ Put(p, sid[p], AddWinnings(sessions[sid[p]], sessions[sid[p]].round.payout), next)
           /\ sessions[sid[p]].live
           /\ sessions[sid[p]].round.payout > 0
           /\ sessions[sid[p]].round.id > 0
           /\ sid' = sid /\ rows' = rows
           /\ credits' = [credits EXCEPT ![sessions[sid[p]].round.id]
                                            = IF @ < 2 THEN @ + 1 ELSE @]
<1>1. seen[p] = sessions[sid[p]].round /\ seen[p].payout > 0 /\ sid[p] \in Sessions
  BY DEF SettledInv, SeenCurrent, TypeOK
<1>2. sessions[sid[p]].live
  BY DEF SerialInv, OnLive, Crediting, Creating
<1>3. sessions[sid[p]].round.id > 0
  BY <1>1 DEF SettledInv, WinsHaveIds
<1>4. Update(p, AddWinnings(sessions[sid[p]], seen[p].payout), next)
  BY DEF Credit
<1>5. Put(p, sid[p], AddWinnings(sessions[sid[p]], seen[p].payout), next)
  BY <1>2, <1>4 DEF Update
<1> QED
  BY <1>1, <1>2, <1>3, <1>5 DEF Credit

LEMMA MovesPayOwn ==
    ASSUME TypeOK, SerialInv, SettledInv, NEW p \in Procs, Step(p) \/ Request(p)
    PROVE  PaysOwn(p)
<1> USE DEF history
<1>1. CASE PlayCredit(p) \/ EndCredit(p)
  <2>1. pc[p] \in Crediting /\ \E next : Credit(p, next)
    BY <1>1 DEF PlayCredit, EndCredit, Crediting
  <2> QED
    BY <2>1, CreditOwn DEF PaysOwn
<1>2. CASE Step(p) /\ ~(PlayCredit(p) \/ EndCredit(p))
  BY <1>2 DEF Step, Save, AuthenticateCreate, PrepareUpsert, PlayDeduct,
     PlayInsufficientBalance, PlayDraw, PlayEngineFails, PlayLast, PlayPush,
     PlayBetId, PlayRound, EndClear, ResetRows, PaysOwn
<1>3. CASE Request(p)
  BY <1>3 DEF Request, Authenticate, PrepareExisting, PrepareMissing, Play, EndRound,
     ResetSessions, PaysOwn
<1> QED
  BY <1>1, <1>2, <1>3

\* The id of a round that can be paid is one the server issued.
LEMMA WinIssued ==
    ASSUME BetIdsInv, NEW s \in Sessions, sessions[s].round.id > 0
    PROVE  sessions[s].round.id \in 1 .. MaxBets
<1>1. sessions[s].round.id \in BetIdsOf(s) /\ sessions[s].round.id \in Nat
  BY DEF BetIdsOf, BetIdsInv, TypeOK, SessionStates, Rounds
<1>2. sessions[s].round.id <= betCounter
  BY <1>1 DEF BetIdsInv, BetIdsIssued
<1> QED
  BY <1>1, <1>2, WalletAssumption DEF BetIdsInv, TypeOK, WalletAssumption

\* A bet id that was paid stays paid while the server runs.
LEMMA CreditsGrow ==
    ASSUME TypeOK, NEW p \in Procs, PaysOwn(p), NEW i \in 1 .. MaxBets, credits[i] > 0
    PROVE  credits'[i] > 0
<1>1. credits[i] \in 0 .. 2
  BY DEF TypeOK
<1>2. credits'[i] = credits[i] \/ credits'[i] = IF credits[i] < 2 THEN credits[i] + 1 ELSE credits[i]
  BY DEF PaysOwn, TypeOK
<1> QED
  BY <1>1, <1>2

\* What is left to show of a step: the thread and the session it moves.
OwnSettled(p) ==
    /\ pc'[p] = "play_round" => bet'[p] > 0
    /\ pc'[p] \in Crediting =>
         /\ seen'[p] = sessions'[sid'[p]].round
         /\ seen'[p].payout > 0
    /\ sessions'[sid'[p]].round.payout > 0 => sessions'[sid'[p]].round.id > 0
    /\ rows'[sid'[p]].round.payout > 0 => rows'[sid'[p]].round.id > 0
    /\ At(p)' \in Settling /\ sessions'[sid'[p]].round.payout > 0
         => credits'[sessions'[sid'[p]].round.id] > 0

LEMMA OwnSettledKeeps ==
    ASSUME TypeOK', BetIdsInv, SettledInv, NEW p \in Procs, Moves(p), PaysOwn(p),
           OwnSettled(p)
    PROVE  SettledInv'
<1>1. WinsHaveIds'
  <2> SUFFICES ASSUME NEW s \in Sessions
               PROVE  /\ sessions'[s].round.payout > 0 => sessions'[s].round.id > 0
                      /\ rows'[s].round.payout > 0 => rows'[s].round.id > 0
    BY DEF WinsHaveIds
  <2>1. CASE s = sid'[p]
    BY <2>1 DEF OwnSettled
  <2>2. CASE s # sid'[p]
    BY <2>2 DEF Moves, Alone, SettledInv, WinsHaveIds
  <2> QED
    BY <2>1, <2>2
<1>2. BetTaken'
  BY DEF BetTaken, SettledInv, OwnSettled, Moves, Alone
<1>3. SeenCurrent'
  <2> SUFFICES ASSUME NEW q \in Procs, q # p, pc'[q] \in Crediting
               PROVE  seen'[q] = sessions'[sid'[q]].round /\ seen'[q].payout > 0
    BY DEF SeenCurrent, OwnSettled
  <2>1. /\ pc[q] \in Crediting /\ sid'[q] = sid[q] /\ seen'[q] = seen[q]
        /\ sid[q] # sid'[p]
    BY DEF Moves, Alone, Apart, Idle, Crediting
  <2>2. sid'[q] \in Sessions
    BY DEF TypeOK
  <2>3. sessions'[sid'[q]] = sessions[sid[q]]
    BY <2>1, <2>2 DEF Moves, Alone
  <2> QED
    BY <2>1, <2>3 DEF SettledInv, SeenCurrent
<1>4. SettledPaid'
  <2> SUFFICES ASSUME NEW s \in Sessions, Settled(s)', sessions'[s].round.payout > 0
               PROVE  credits'[sessions'[s].round.id] > 0
    BY DEF SettledPaid
  <2>1. CASE s = sid'[p]
    BY <2>1, SettledFrame DEF OwnSettled
  <2>2. CASE s # sid'[p]
    <3>1. Settled(s) /\ sessions'[s] = sessions[s]
      BY <2>2, SettledFrame DEF Moves, Alone
    <3>2. credits[sessions[s].round.id] > 0 /\ sessions[s].round.id \in 1 .. MaxBets
      BY <3>1, WinIssued DEF SettledInv, SettledPaid, WinsHaveIds
    <3> QED
      BY <3>1, <3>2, CreditsGrow DEF BetIdsInv
  <2> QED
    BY <2>1, <2>2
<1> QED
  BY <1>1, <1>2, <1>3, <1>4 DEF SettledInv

\* The rows hold rounds that were in the slot.
LEMMA RowRound ==
    ASSUME TypeOK, NEW s \in Sessions
    PROVE  /\ rows[s] \in SessionStates /\ sessions[s] \in SessionStates
           /\ Stored(sessions[s]).round = sessions[s].round
BY RoundKept DEF TypeOK

LEMMA StepSettledOwn ==
    ASSUME TypeOK, DrawnKept, SerialInv, SettledInv, BetIdsInv, NEW p \in Procs, Step(p),
           ~ResetRows(p)
    PROVE  OwnSettled(p)
<1> USE DEF history, local
<1> DEFINE cur == sessions[sid[p]]
<1>1. /\ sid[p] \in Sessions
      /\ cur \in SessionStates
      /\ cur.round.payout > 0 => cur.round.id > 0
      /\ rows[sid[p]].round.payout > 0 => rows[sid[p]].round.id > 0
  BY DEF TypeOK, SettledInv, WinsHaveIds
<1>2. At(p) \in Settling /\ cur.round.payout > 0 => credits[cur.round.id] > 0
  <2>1. At(p) \in Settling => Settled(sid[p])
    BY DEF Settled, On, Settling
  <2> QED
    BY <1>1, <2>1 DEF SettledInv, SettledPaid
<1>3. pc[p] \notin Creating \union {"idle", "reset_rows"} => cur.live
  BY DEF SerialInv, OnLive
\* The steps that put the session back with the same round.
<1>4. ASSUME NEW session, NEW next, Put(p, sid[p], session, next),
             session.round = cur.round, At(p) \in Settling,
             sid' = sid, rows' = rows, credits' = credits
      PROVE  OwnSettled(p)
  BY <1>1, <1>2, <1>4, PutOwn DEF OwnSettled, Crediting
\* The steps that only go on.
<1>5. ASSUME NEW next, Goto(p, next), next \notin Crediting \union {"play_round", "save"},
             next \in Settling => At(p) \in Settling,
             sid' = sid, rows' = rows, sessions' = sessions, credits' = credits
      PROVE  OwnSettled(p)
  <2>1. pc'[p] = next /\ At(p)' = next
    BY <1>5 DEF Goto, At, TypeOK
  <2> QED
    BY <1>1, <1>2, <1>5, <2>1 DEF OwnSettled
<1>6. CASE Save(p)
  <2>1. /\ sid' = sid /\ sessions' = sessions /\ credits' = credits
        /\ rows'[sid[p]] = Stored(cur)
        /\ pc'[p] = after[p]
    BY <1>1, <1>6 DEF Save, Goto, SerialInv, ClonesCurrent, TypeOK
  <2>2. after[p] \in Continuations /\ At(p) = after[p] /\ At(p)' = after[p]
    BY <1>6, <2>1 DEF Save, At, TypeOK, Continuations
  <2>3. pc'[p] \notin Crediting \union {"play_round"}
    BY <2>1, <2>2 DEF Continuations, Crediting
  <2> QED
    BY <1>1, <1>2, <2>1, <2>2, <2>3, RowRound DEF OwnSettled
<1>7. CASE AuthenticateCreate(p) \/ PrepareUpsert(p)
  <2>1. PICK b : Put(p, sid[p], Fresh(b), "idle")
    BY <1>7 DEF AuthenticateCreate, PrepareUpsert
  <2>2. Fresh(b).round.payout = 0
    BY DEF Fresh, NoRound
  <2> QED
    BY <1>1, <1>7, <2>1, <2>2, PutOwn
       DEF OwnSettled, AuthenticateCreate, PrepareUpsert, Crediting
<1>8. CASE PlayCredit(p) \/ EndCredit(p)
  <2>1. PICK next \in Settling : pc[p] \in Crediting /\ Credit(p, next)
    BY <1>8 DEF PlayCredit, EndCredit, Crediting, Settling
  <2> DEFINE i == cur.round.id
  <2>2. /\ Put(p, sid[p], AddWinnings(cur, cur.round.payout), next)
        /\ i > 0 /\ sid' = sid /\ rows' = rows
        /\ credits' = [credits EXCEPT ![i] = IF @ < 2 THEN @ + 1 ELSE @]
    BY <2>1, CreditOwn
  <2>3. AddWinnings(cur, cur.round.payout).round = cur.round
    BY <1>1, RoundKept
  <2>4. credits'[i] > 0
    <3>1. i \in 1 .. MaxBets
      BY <1>1, <2>2, WinIssued
    <3>2. credits[i] \in 0 .. 2
      BY <3>1 DEF TypeOK
    <3>3. credits'[i] = IF credits[i] < 2 THEN credits[i] + 1 ELSE credits[i]
      BY <2>2, <3>1 DEF TypeOK
    <3> QED
      BY <3>2, <3>3
  <2> QED
    BY <1>1, <2>2, <2>3, <2>4, PutOwn DEF OwnSettled, Crediting
<1>9. CASE PlayDeduct(p)
  <2>1. At(p) \in Settling /\ Deduct(cur, Cost[mode[p]]).round = cur.round
    BY <1>1, <1>9, RoundKept DEF PlayDeduct, At, Settling
  <2> QED
    BY <1>4, <1>9, <2>1 DEF PlayDeduct
<1>10. CASE PlayInsufficientBalance(p) \/ PlayEngineFails(p)
  BY <1>5, <1>10 DEF PlayInsufficientBalance, PlayEngineFails, Crediting, Settling, store
<1>11. CASE PlayDraw(p)
  BY <1>5, <1>11 DEF PlayDraw, Crediting, At, Settling, store
<1>12. CASE PlayLast(p)
  <2>1. At(p) \in Settling /\ SetLast(cur, drawn[p]).round = cur.round
    BY <1>1, <1>12, RoundKept DEF PlayLast, At, Settling
  <2>2. Put(p, sid[p], SetLast(cur, drawn[p]), "play_push")
    BY <1>12, UpdatePuts DEF PlayLast, Creating
  <2> QED
    BY <1>4, <1>12, <2>1, <2>2 DEF PlayLast
<1>13. CASE PlayPush(p)
  <2>1. PICK entry : Update(p, PushEvent(cur, entry), "play_id")
    BY <1>13 DEF PlayPush
  <2>2. At(p) \in Settling /\ PushEvent(cur, entry).round = cur.round
    BY <1>1, <1>13, RoundKept DEF PlayPush, At, Settling
  <2>3. Put(p, sid[p], PushEvent(cur, entry), "play_id")
    BY <1>13, <2>1, UpdatePuts DEF PlayPush, Creating
  <2>4. sid' = sid /\ rows' = rows /\ credits' = credits
    BY <1>13 DEF PlayPush
  <2> QED
    BY <1>4, <2>2, <2>3, <2>4
<1>14. CASE PlayBetId(p)
  <2>1. pc'[p] = "play_round" /\ At(p)' = "play_round" /\ At(p) \in Settling
    BY <1>14 DEF PlayBetId, Goto, At, TypeOK, Settling
  <2>2. bet'[p] > 0 /\ sid' = sid /\ rows' = rows /\ sessions' = sessions /\ credits' = credits
    BY <1>14 DEF PlayBetId, TypeOK
  <2> QED
    BY <1>1, <1>2, <2>1, <2>2 DEF OwnSettled, Crediting
<1>15. CASE PlayRound(p)
  <2> DEFINE r == [id |-> bet[p], payout |-> Payout[drawn[p]]]
             new == SetRound(cur, r)
  <2>1. Put(p, sid[p], new, "idle") /\ sid' = sid /\ rows' = rows
    BY <1>15, UpdatePuts DEF PlayRound, Creating
  <2>2. new.round.id > 0
    BY <1>1, <1>15, RoundKept DEF PlayRound, SettledInv, BetTaken
  <2> HIDE DEF new
  <2>3. sessions'[sid[p]] = new /\ pc'[p] = "save" /\ At(p)' = "idle"
    BY <2>1, PutOwn
  <2> QED
    BY <1>1, <2>1, <2>2, <2>3 DEF OwnSettled, Crediting, Settling
<1>16. CASE EndClear(p)
  <2> DEFINE new == SetRound(cur, NoRound)
  <2>1. Put(p, sid[p], new, "idle") /\ sid' = sid /\ rows' = rows
    BY <1>16, UpdatePuts DEF EndClear, Creating
  <2>2. new.round.payout = 0
    BY <1>1, RoundKept DEF NoRound
  <2> HIDE DEF new
  <2>3. sessions'[sid[p]] = new /\ pc'[p] = "save" /\ At(p)' = "idle"
    BY <2>1, PutOwn
  <2> QED
    BY <1>1, <2>1, <2>2, <2>3 DEF OwnSettled, Crediting, Settling
<1> QED
  BY <1>6, <1>7, <1>8, <1>9, <1>10, <1>11, <1>12, <1>13, <1>14, <1>15, <1>16 DEF Step

LEMMA RequestSettledOwn ==
    ASSUME TypeOK, Serial, SettledInv, NEW p \in Procs, Request(p), ~ResetSessions(p)
    PROVE  OwnSettled(p)
<1> USE DEF history, local, store
<1> SUFFICES ASSUME NEW s \in Sessions,
                    \/ Authenticate(p, s) \/ PrepareExisting(p, s) \/ PrepareMissing(p, s)
                    \/ Play(p, s) \/ EndRound(p, s)
             PROVE  OwnSettled(p)
  BY DEF Request
<1>1. /\ sessions[s] \in SessionStates
      /\ sessions[s].round.payout > 0 => sessions[s].round.id > 0
      /\ rows[s].round.payout > 0 => rows[s].round.id > 0
  BY DEF TypeOK, SettledInv, WinsHaveIds
<1>2. sid'[p] = s
  BY TakeApart DEF Authenticate, PrepareExisting, PrepareMissing, Play, EndRound
<1>3. CASE Authenticate(p, s) \/ PrepareMissing(p, s)
  <2>1. pc'[p] \notin Crediting \union {"play_round"} /\ At(p)' \notin Settling
    BY <1>3 DEF Authenticate, PrepareMissing, Goto, At, TypeOK, Crediting, Settling
  <2> QED
    BY <1>1, <1>2, <1>3, <2>1 DEF Authenticate, PrepareMissing, OwnSettled
<1>4. CASE PrepareExisting(p, s)
  <2>1. /\ pc'[p] \notin Crediting \union {"play_round"} /\ At(p)' \notin Settling
        /\ sessions'[s] = sessions[s] /\ rows' = rows
    BY <1>4 DEF PrepareExisting, Put, Goto, At, TypeOK, Crediting, Settling
  <2> QED
    BY <1>1, <1>2, <2>1 DEF OwnSettled
<1>5. CASE Play(p, s) \/ EndRound(p, s)
  <2>1. /\ seen'[p] = Pending(sessions[s]) /\ sessions' = sessions /\ rows' = rows
        /\ credits' = credits
    BY <1>5 DEF Play, EndRound, TypeOK
  <2>2. CASE sessions[s].round.payout > 0
    <3>1. pc'[p] \in Crediting /\ At(p)' \notin Settling
      BY <1>5, <2>2 DEF Play, EndRound, Goto, At, TypeOK, Crediting, Settling
    <3> QED
      BY <1>1, <1>2, <2>1, <2>2, <3>1 DEF Pending, OwnSettled, Crediting
  <2>3. CASE ~(sessions[s].round.payout > 0)
    <3>1. pc'[p] \notin Crediting \union {"play_round"}
      BY <1>5, <2>3 DEF Play, EndRound, Goto, TypeOK, Crediting
    <3> QED
      BY <1>1, <1>2, <2>1, <2>3, <3>1 DEF OwnSettled
  <2> QED
    BY <2>2, <2>3
<1> QED
  BY <1>3, <1>4, <1>5

LEMMA SettledStep ==
    ASSUME TypeOK, TypeOK', DrawnKept, Serial, SerialInv, BetIdsInv, SettledInv,
           [Next]_vars
    PROVE  SettledInv'
<1> USE DEF store, local, history
<1>1. ASSUME NEW p \in Procs, Step(p) \/ Request(p), ~ResetRows(p), ~ResetSessions(p)
      PROVE  SettledInv'
  BY <1>1, StepMoves, RequestMoves, MovesPayOwn, StepSettledOwn, RequestSettledOwn,
     OwnSettledKeeps
<1>2. ASSUME NEW p \in Procs, ResetSessions(p) \/ ResetRows(p) PROVE SettledInv'
  <2>1. \A q \in Procs : pc'[q] \in {"idle", "reset_rows"}
    BY <1>2 DEF ResetSessions, ResetRows, Goto, Idle, TypeOK, SerialInv, Exclusive
  <2>2. /\ sessions' = [s \in Sessions |-> Absent] \/ sessions' = sessions
        /\ rows' = [s \in Sessions |-> Absent] \/ rows' = rows
    BY <1>2 DEF ResetSessions, ResetRows
  <2>3. \A s \in Sessions : ~Settled(s)'
    BY <2>1 DEF Settled, On, At
  <2>4. WinsHaveIds'
    BY <2>2 DEF SettledInv, WinsHaveIds, Absent, NoRound
  <2> QED
    BY <2>1, <2>3, <2>4 DEF SettledInv, BetTaken, SeenCurrent, SettledPaid, Crediting
<1>3. CASE Restart
  <2>1. \A q \in Procs : pc'[q] = "idle"
    BY <1>3 DEF Restart
  <2>2. \A s \in Sessions : ~Settled(s)'
    BY <2>1 DEF Settled, On, At
  <2>3. WinsHaveIds'
    BY <1>3 DEF Restart, SettledInv, WinsHaveIds
  <2> QED
    BY <2>1, <2>2, <2>3 DEF SettledInv, BetTaken, SeenCurrent, SettledPaid, Crediting
<1>4. CASE ForceEvent \/ UNCHANGED vars
  BY <1>4 DEF ForceEvent, vars, SettledInv, WinsHaveIds, BetTaken, SeenCurrent,
     SettledPaid, Settled, On, At
<1> QED
  BY <1>1, <1>2, <1>3, <1>4 DEF Next

LEMMA SettledInit == Init => SettledInv
BY DEF Init, SettledInv, WinsHaveIds, BetTaken, SeenCurrent, SettledPaid, Settled, On, At,
       Crediting, Absent, NoRound

LEMMA SettledAlways ==
    ASSUME Serial
    PROVE  Spec => []SettledInv
<1>1. /\ TypeOK /\ TypeOK' /\ DrawnKept /\ SerialInv /\ BetIdsInv
      /\ SettledInv /\ [Next]_vars
      => SettledInv'
  BY SettledStep
<1> QED
  BY <1>1, SettledInit, TypeCorrect, SerialAlways, BetIdsAlways, PTL DEF Spec

\* A winning round leaves the slot of a session that lives on only after its
\* payout was added to the balance: /play pays the round it replaces and
\* /end-round the one it clears, each from a copy it read several store calls
\* before, whatever other players, failing plays and restarts do in between
\* (routes.rs, play and end_round).
THEOREM WinsArePaidFirst ==
    ASSUME Serial
    PROVE  Spec => NoUnpaidRoundDropped
<1> DEFINE Dropped ==
      \A p \in Procs, s \in Sessions :
        /\ PlayRound(p) \/ EndClear(p)
        /\ sessions[s].round.payout > 0
        /\ sessions'[s].round # sessions[s].round
        => credits[sessions[s].round.id] > 0
<1>1. TypeOK /\ SerialInv /\ SettledInv => Dropped
  <2> SUFFICES ASSUME TypeOK, SerialInv, SettledInv,
                      NEW p \in Procs, NEW s \in Sessions,
                      PlayRound(p) \/ EndClear(p),
                      sessions[s].round.payout > 0,
                      sessions'[s].round # sessions[s].round
               PROVE  credits[sessions[s].round.id] > 0
    OBVIOUS
  <2>1. Step(p) /\ ~ResetRows(p)
    BY DEF Step, PlayRound, EndClear, ResetRows
  <2>2. s = sid[p]
    BY <2>1, StepMoves DEF Moves, Alone, PlayRound, EndClear, Idle
  <2>3. Settled(s)
    BY <2>2 DEF Settled, On, At, PlayRound, EndClear
  <2> QED
    BY <2>3 DEF SettledInv, SettledPaid
<1>2. TypeOK /\ SerialInv /\ SettledInv => [Dropped]_vars
  BY <1>1
<1> QED
  BY <1>2, TypeCorrect, SerialAlways, SettledAlways, PTL DEF NoUnpaidRoundDropped

-----------------------------------------------------------------------------
(* No round is paid twice.  That needs more of the environment: a play that  *)
(* pays the round before it and then gives up (the balance does not cover    *)
(* the stake, or the engine fails) leaves the round in the slot, and so does *)
(* a restart between the payout and the clear.                               *)

Gentle == Serial /\ Careful /\ ~Faults /\ MaxRestarts = 0

\* The balance covers the stake of a play, also after the credit before it.
Affordable ==
    \A p \in Procs : At(p) \in {"play_credit", "play_deduct"} =>
        Cost[mode[p]] <= sessions[sid[p]].balance

\* The round in the slot has not been paid, unless a request just did.
OpenUnpaid ==
    \A s \in Sessions :
        ~Settled(s) /\ sessions[s].round.id # 0 => credits[sessions[s].round.id] = 0

\* Ids that were not issued, or are not in a slot yet, have not been paid.
FutureUnpaid == \A i \in 1 .. MaxBets : i > betCounter => credits[i] = 0

BetUnpaid ==
    \A p \in Procs : pc[p] = "play_round" =>
        bet[p] \in 1 .. MaxBets /\ credits[bet[p]] = 0

OnceInv == Affordable /\ OpenUnpaid /\ FutureUnpaid /\ BetUnpaid /\ PaidOnce

\* What is left to show of a step: the thread and the session it moves.
OwnOnce(p) ==
    /\ At(p)' \in {"play_credit", "play_deduct"} =>
         Cost[mode'[p]] <= sessions'[sid'[p]].balance
    /\ At(p)' \notin Settling /\ sessions'[sid'[p]].round.id # 0 =>
         credits'[sessions'[sid'[p]].round.id] = 0
    /\ pc'[p] = "play_round" => bet'[p] \in 1 .. MaxBets /\ credits'[bet'[p]] = 0

\* A payment is the first one, and of a round of the thread's own session.
LEMMA PaysFirst ==
    ASSUME BetIdsInv, OnceInv, SerialInv, NEW p \in Procs, PaysOwn(p), credits' # credits
    PROVE  /\ sid[p] \in Sessions
           /\ sessions[sid[p]].round.id \in 1 .. betCounter
           /\ sessions[sid[p]].round.id \in 1 .. MaxBets
           /\ sessions[sid[p]].round.id \in BetIdsOf(sid[p])
           /\ credits' = [credits EXCEPT ![sessions[sid[p]].round.id] = 1]
<1> DEFINE i == sessions[sid[p]].round.id
<1>1. /\ sid[p] \in Sessions /\ i > 0 /\ pc[p] \in Crediting
      /\ credits' = [credits EXCEPT ![i] = IF @ < 2 THEN @ + 1 ELSE @]
  BY DEF PaysOwn, BetIdsInv, TypeOK
<1>2. i \in 1 .. MaxBets
  BY <1>1, WinIssued
<1>3. i \in BetIdsOf(sid[p]) /\ i \in 1 .. betCounter
  BY <1>1, <1>2 DEF BetIdsOf, BetIdsInv, BetIdsIssued, TypeOK
<1>4. ~Settled(sid[p])
  <2> SUFFICES ASSUME NEW q \in Procs, sid[q] = sid[p]
               PROVE  At(q) \notin Settling
    BY DEF Settled, On, Settling
  <2>1. CASE q = p
    BY <1>1, <2>1 DEF At, Crediting, Settling
  <2>2. CASE q # p
    BY <1>1, <2>2 DEF SerialInv, Exclusive, Idle, At, Crediting, Settling
  <2> QED
    BY <2>1, <2>2
<1>5. credits[i] = 0
  BY <1>1, <1>4 DEF OnceInv, OpenUnpaid
<1> QED
  BY <1>1, <1>2, <1>3, <1>5

LEMMA OwnOnceKeeps ==
    ASSUME TypeOK', SerialInv, BetIdsInv, OnceInv, NEW p \in Procs, Moves(p), PaysOwn(p),
           OwnOnce(p), betCounter' \in Nat, betCounter' >= betCounter
    PROVE  OnceInv'
<1>1. ASSUME NEW q \in Procs, q # p, ~Idle(q)
      PROVE  /\ sid[q] # sid'[p] /\ sid'[q] = sid[q] /\ sid[q] \in Sessions
             /\ sessions'[sid[q]] = sessions[sid[q]]
             /\ At(q)' = At(q) /\ pc'[q] = pc[q] /\ mode'[q] = mode[q] /\ bet'[q] = bet[q]
  <2>1. /\ sid[q] # sid'[p] /\ sid'[q] = sid[q]
        /\ At(q)' = At(q) /\ pc'[q] = pc[q] /\ mode'[q] = mode[q] /\ bet'[q] = bet[q]
    BY <1>1 DEF Moves, Alone, Apart, At
  <2>2. sid[q] \in Sessions
    BY DEF BetIdsInv, TypeOK
  <2> QED
    BY <2>1, <2>2 DEF Moves, Alone
<1>2. ASSUME NEW q \in Procs, Idle(q), q # p
      PROVE  At(q)' = "idle" /\ pc'[q] = "idle"
  BY <1>2 DEF Moves, Alone, At, Idle
\* An id of another session is not the one that is paid.
<1>3. ASSUME NEW s \in Sessions, s # sid[p], NEW i \in BetIdsOf(s), i # 0, credits[i] = 0
      PROVE  credits'[i] = 0
  <2>1. CASE credits' = credits
    BY <1>3, <2>1
  <2>2. CASE credits' # credits
    <3>1. /\ sid[p] \in Sessions
          /\ sessions[sid[p]].round.id \in BetIdsOf(sid[p])
          /\ credits' = [credits EXCEPT ![sessions[sid[p]].round.id] = 1]
      BY <2>2, PaysFirst
    <3>2. i # sessions[sid[p]].round.id
      BY <1>3, <3>1 DEF BetIdsInv, BetIdsDistinct
    <3> QED
      BY <1>3, <3>1, <3>2
  <2> QED
    BY <2>1, <2>2
<1>4. Affordable'
  BY <1>1, <1>2 DEF Affordable, OnceInv, OwnOnce
<1>5. OpenUnpaid'
  <2> SUFFICES ASSUME NEW s \in Sessions, ~Settled(s)', sessions'[s].round.id # 0
               PROVE  credits'[sessions'[s].round.id] = 0
    BY DEF OpenUnpaid
  <2>1. CASE s = sid'[p]
    BY <2>1, SettledFrame DEF OwnOnce
  <2>2. CASE s # sid'[p]
    <3>1. ~Settled(s) /\ sessions'[s] = sessions[s]
      BY <2>2, SettledFrame DEF Moves, Alone
    <3>2. credits[sessions[s].round.id] = 0 /\ sessions[s].round.id \in BetIdsOf(s)
      BY <3>1 DEF OnceInv, OpenUnpaid, BetIdsOf
    <3>3. CASE Idle(p)
      <4>1. credits' = credits
        BY <3>3 DEF PaysOwn, Idle, Crediting
      <4> QED
        BY <3>1, <3>2, <4>1
    <3>4. CASE ~Idle(p)
      BY <1>3, <2>2, <3>1, <3>2, <3>4 DEF Moves, Alone
    <3> QED
      BY <3>3, <3>4
  <2> QED
    BY <2>1, <2>2
<1>6. FutureUnpaid'
  <2> SUFFICES ASSUME NEW i \in 1 .. MaxBets, i > betCounter'
               PROVE  credits'[i] = 0
    BY DEF FutureUnpaid
  <2>1. betCounter \in Nat /\ i > betCounter
    BY DEF BetIdsInv, TypeOK
  <2>2. credits[i] = 0
    BY <2>1 DEF OnceInv, FutureUnpaid
  <2>3. CASE credits' # credits
    <3>1. /\ sessions[sid[p]].round.id \in 1 .. betCounter
          /\ credits' = [credits EXCEPT ![sessions[sid[p]].round.id] = 1]
      BY <2>3, PaysFirst
    <3>2. i # sessions[sid[p]].round.id
      BY <2>1, <3>1
    <3> QED
      BY <2>2, <3>1, <3>2
  <2> QED
    BY <2>2, <2>3
<1>7. BetUnpaid'
  <2> SUFFICES ASSUME NEW q \in Procs, q # p, pc'[q] = "play_round"
               PROVE  bet'[q] \in 1 .. MaxBets /\ credits'[bet'[q]] = 0
    BY DEF BetUnpaid, OwnOnce
  <2>1. ~Idle(q) /\ pc[q] = "play_round" /\ bet'[q] = bet[q] /\ sid[q] \in Sessions
    BY <1>1, <1>2
  <2>2. bet[q] \in BetIdsOf(sid[q]) /\ bet[q] \in 1 .. MaxBets /\ credits[bet[q]] = 0
    BY <2>1 DEF BetIdsOf, OnceInv, BetUnpaid
  <2>3. CASE Idle(p)
    BY <2>1, <2>2, <2>3 DEF PaysOwn, Idle, Crediting
  <2>4. CASE ~Idle(p)
    <3>1. sid[q] # sid[p]
      BY <2>1, <2>4 DEF SerialInv, Exclusive
    <3> QED
      BY <1>3, <2>1, <2>2, <3>1
  <2> QED
    BY <2>3, <2>4
<1>8. PaidOnce'
  <2>1. CASE credits' # credits
    <3>1. credits \in [1 .. MaxBets -> 0 .. 2]
      BY DEF BetIdsInv, TypeOK
    <3>2. PICK i : credits' = [credits EXCEPT ![i] = 1]
      BY <2>1, PaysFirst
    <3> QED
      BY <3>1, <3>2 DEF PaidOnce, OnceInv
  <2> QED
    BY <2>1 DEF PaidOnce, OnceInv
<1> QED
  BY <1>4, <1>5, <1>6, <1>7, <1>8 DEF OnceInv

\* The counter only goes back in a restart.
LEMMA CounterGrows ==
    ASSUME TypeOK, NEW p \in Procs, Step(p) \/ Request(p)
    PROVE  betCounter' \in Nat /\ betCounter' >= betCounter
<1> USE DEF store
<1>1. CASE PlayBetId(p)
  BY <1>1 DEF PlayBetId, TypeOK
<1>2. CASE Step(p) /\ ~PlayBetId(p)
  <2>1. betCounter' = betCounter
    BY <1>2 DEF Step, Save, AuthenticateCreate, PrepareUpsert, PlayCredit, PlayDeduct,
       PlayInsufficientBalance, PlayDraw, PlayEngineFails, PlayLast, PlayPush,
       PlayRound, EndCredit, EndClear, ResetRows, Credit
  <2> QED
    BY <2>1 DEF TypeOK
<1>3. CASE Request(p)
  <2>1. betCounter' = betCounter
    BY <1>3 DEF Request, Authenticate, PrepareExisting, PrepareMissing, Play, EndRound,
       ResetSessions
  <2> QED
    BY <2>1 DEF TypeOK
<1> QED
  BY <1>1, <1>2, <1>3

\* add_winnings never takes money away, saturated or not.
LEMMA AddWinningsGrows ==
    ASSUME NEW s \in SessionStates, NEW amount \in Nat
    PROVE  AddWinnings(s, amount).balance >= s.balance
BY StoreAssumption DEF AddWinnings, SessionStates, Balances, StoreAssumption

LEMMA StepOnceOwn ==
    ASSUME Gentle, TypeOK, SerialInv, SettledInv, BetIdsInv, OnceInv,
           NEW p \in Procs, Step(p), ~ResetRows(p)
    PROVE  OwnOnce(p)
<1> USE DEF history, local, store
<1> DEFINE cur == sessions[sid[p]]
           Paying == {"play_credit", "play_deduct"}
<1>1. /\ sid[p] \in Sessions
      /\ cur \in SessionStates
      /\ At(p) \in Paying => Cost[mode[p]] <= cur.balance
      /\ pc[p] = "play_round" => bet[p] \in 1 .. MaxBets /\ credits[bet[p]] = 0
  BY DEF TypeOK, OnceInv, Affordable, BetUnpaid
<1>2. At(p) \notin Settling /\ cur.round.id # 0 /\ pc[p] # "idle" => credits[cur.round.id] = 0
  <2> SUFFICES ASSUME At(p) \notin Settling, cur.round.id # 0, pc[p] # "idle"
               PROVE  credits[cur.round.id] = 0
    OBVIOUS
  <2>1. ~Settled(sid[p])
    <3> SUFFICES ASSUME NEW q \in Procs, sid[q] = sid[p]
                 PROVE  At(q) \notin Settling
      BY DEF Settled, On, Settling
    <3>1. q = p \/ Idle(q)
      BY DEF SerialInv, Exclusive, Idle
    <3> QED
      BY <3>1 DEF Idle, At, Settling
  <2> QED
    BY <1>1, <2>1 DEF OnceInv, OpenUnpaid
<1>3. pc[p] \notin Creating \union {"idle", "reset_rows"} => cur.live
  BY DEF SerialInv, OnLive
\* Inside a request that has settled, only where it ends matters.
<1>4. ASSUME NEW next, next \in Settling \ Paying, At(p)' = next,
             pc'[p] # "play_round"
      PROVE  OwnOnce(p)
  BY <1>4 DEF OwnOnce
<1>5. CASE Save(p)
  <2>1. /\ sid' = sid /\ sessions' = sessions /\ credits' = credits /\ mode' = mode
        /\ pc'[p] = after[p] /\ after[p] \in Continuations /\ pc[p] = "save"
    BY <1>5 DEF Save, Goto, TypeOK
  <2>2. At(p)' = At(p) /\ pc'[p] # "play_round"
    BY <2>1 DEF At, Continuations
  <2> QED
    BY <1>1, <1>2, <2>1, <2>2 DEF OwnOnce
<1>6. CASE AuthenticateCreate(p) \/ PrepareUpsert(p)
  <2>1. PICK new : Put(p, sid[p], new, "idle") /\ \E b : new = Fresh(b)
    BY <1>6 DEF AuthenticateCreate, PrepareUpsert
  <2>2. new.round.id = 0 /\ sid' = sid
    BY <1>6, <2>1 DEF Fresh, NoRound, AuthenticateCreate, PrepareUpsert
  <2>3. sessions'[sid[p]] = new /\ pc'[p] = "save" /\ At(p)' = "idle"
    BY <2>1, PutOwn
  <2> QED
    BY <2>2, <2>3 DEF OwnOnce
<1>7. CASE PlayCredit(p)
  <2>1. pc[p] \in Crediting /\ Credit(p, "play_deduct") /\ At(p) \in Paying /\ mode' = mode
    BY <1>7 DEF PlayCredit, Crediting, At, Credit
  <2> DEFINE new == AddWinnings(cur, cur.round.payout)
  <2>2. Put(p, sid[p], new, "play_deduct") /\ sid' = sid
    BY <2>1, CreditOwn
  <2>3. new.balance >= cur.balance /\ new.balance \in Nat /\ cur.balance \in Nat
    <3>1. cur.round.payout \in Nat
      BY <1>1 DEF SessionStates, Rounds
    <3>2. new.balance >= cur.balance /\ new \in SessionStates
      BY <1>1, <3>1, AddWinningsGrows, AddWinningsType
    <3> HIDE DEF new
    <3> QED
      BY <1>1, <3>2, StoreAssumption DEF SessionStates, Balances, StoreAssumption
  <2>4. Cost[mode[p]] \in Nat /\ Cost[mode[p]] <= cur.balance
    BY <1>1, <2>1, WalletAssumption DEF TypeOK, WalletAssumption
  <2> HIDE DEF new
  <2>5. sessions'[sid[p]] = new /\ pc'[p] = "save" /\ At(p)' = "play_deduct"
    BY <2>2, PutOwn
  <2>6. Cost[mode[p]] <= new.balance
    BY <2>3, <2>4
  <2> QED
    BY <2>1, <2>2, <2>5, <2>6 DEF OwnOnce, Settling
<1>8. CASE EndCredit(p)
  <2>1. pc[p] \in Crediting /\ Credit(p, "end_clear")
    BY <1>8 DEF EndCredit, Crediting
  <2>2. At(p)' = "end_clear" /\ pc'[p] = "save"
    BY <2>1, CreditOwn, PutOwn
  <2> QED
    BY <1>4, <2>2 DEF Settling
<1>9. CASE PlayDeduct(p)
  <2>1. At(p)' = "play_draw" /\ pc'[p] = "save"
    BY <1>9, PutOwn DEF PlayDeduct
  <2> QED
    BY <1>4, <2>1 DEF Settling
\* A client that stakes what it has is not refused.
<1>10. ~PlayInsufficientBalance(p)
  BY <1>1, <1>3 DEF PlayInsufficientBalance, At, Creating
<1>11. ~PlayEngineFails(p)
  BY DEF PlayEngineFails, Gentle
<1>12. CASE PlayDraw(p)
  <2>1. At(p)' = "play_last" /\ pc'[p] = "play_last"
    BY <1>12 DEF PlayDraw, Goto, At, TypeOK
  <2> QED
    BY <1>4, <2>1 DEF Settling
<1>13. CASE PlayLast(p)
  <2>1. Put(p, sid[p], SetLast(cur, drawn[p]), "play_push")
    BY <1>13, UpdatePuts DEF PlayLast, Creating
  <2>2. At(p)' = "play_push" /\ pc'[p] = "save"
    BY <2>1, PutOwn
  <2> QED
    BY <1>4, <2>2 DEF Settling
<1>14. CASE PlayPush(p)
  <2>1. PICK new : Update(p, new, "play_id")
    BY <1>14 DEF PlayPush
  <2>2. Put(p, sid[p], new, "play_id")
    BY <1>14, <2>1, UpdatePuts DEF PlayPush, Creating
  <2>3. At(p)' = "play_id" /\ pc'[p] = "save"
    BY <2>2, PutOwn
  <2> QED
    BY <1>4, <2>3 DEF Settling
<1>15. CASE PlayBetId(p)
  <2>1. /\ pc'[p] = "play_round" /\ At(p)' = "play_round"
        /\ bet'[p] = betCounter + 1 /\ betCounter \in Nat /\ betCounter < MaxBets
        /\ credits' = credits
    BY <1>15 DEF PlayBetId, Goto, At, TypeOK
  <2>2. betCounter + 1 \in 1 .. MaxBets
    BY <2>1, WalletAssumption DEF WalletAssumption
  <2>3. credits[betCounter + 1] = 0
    BY <2>1, <2>2 DEF OnceInv, FutureUnpaid
  <2> QED
    BY <2>1, <2>2, <2>3 DEF OwnOnce, Settling
<1>16. CASE PlayRound(p)
  <2> DEFINE r == [id |-> bet[p], payout |-> Payout[drawn[p]]]
             new == SetRound(cur, r)
  <2>1. Put(p, sid[p], new, "idle") /\ sid' = sid /\ credits' = credits
    BY <1>16, UpdatePuts DEF PlayRound, Creating
  <2>2. new.round.id = bet[p] /\ credits[bet[p]] = 0
    BY <1>1, <1>16, RoundKept DEF PlayRound
  <2> HIDE DEF new
  <2>3. sessions'[sid[p]] = new /\ pc'[p] = "save" /\ At(p)' = "idle"
    BY <2>1, PutOwn
  <2> QED
    BY <2>1, <2>2, <2>3 DEF OwnOnce
<1>17. CASE EndClear(p)
  <2> DEFINE new == SetRound(cur, NoRound)
  <2>1. Put(p, sid[p], new, "idle") /\ sid' = sid
    BY <1>17, UpdatePuts DEF EndClear, Creating
  <2>2. new.round.id = 0
    BY <1>1, RoundKept DEF NoRound
  <2> HIDE DEF new
  <2>3. sessions'[sid[p]] = new /\ pc'[p] = "save" /\ At(p)' = "idle"
    BY <2>1, PutOwn
  <2> QED
    BY <2>1, <2>2, <2>3 DEF OwnOnce
<1> QED
  BY <1>5, <1>6, <1>7, <1>8, <1>9, <1>10, <1>11, <1>12, <1>13, <1>14, <1>15, <1>16, <1>17
     DEF Step

LEMMA RequestOnceOwn ==
    ASSUME Gentle, TypeOK, SerialInv, OnceInv, NEW p \in Procs, Request(p),
           ~ResetSessions(p)
    PROVE  OwnOnce(p)
<1> USE DEF history, local, store
<1> SUFFICES ASSUME NEW s \in Sessions,
                    \/ Authenticate(p, s) \/ PrepareExisting(p, s) \/ PrepareMissing(p, s)
                    \/ Play(p, s) \/ EndRound(p, s)
             PROVE  OwnOnce(p)
  BY DEF Request
<1>1. Apart(p) /\ Idle(p) /\ sid'[p] = s
  BY TakeApart DEF Authenticate, PrepareExisting, PrepareMissing, Play, EndRound, Gentle
<1>2. sessions'[s] = sessions[s] /\ credits' = credits
  BY DEF Authenticate, PrepareExisting, PrepareMissing, Play, EndRound, Put, TypeOK
<1>3. ~Settled(s)
  <2> SUFFICES ASSUME NEW q \in Procs, sid[q] = s
               PROVE  At(q) \notin Settling
    BY DEF Settled, On, Settling
  <2>1. Idle(q)
    BY <1>1 DEF Apart
  <2> QED
    BY <2>1 DEF Idle, At, Settling
<1>4. sessions[s].round.id # 0 => credits[sessions[s].round.id] = 0
  BY <1>3 DEF OnceInv, OpenUnpaid
<1>5. pc'[p] # "play_round"
  BY DEF Authenticate, PrepareExisting, PrepareMissing, Play, EndRound, Put, Goto, TypeOK
<1>6. CASE Play(p, s)
  <2>1. Cost[mode'[p]] <= sessions[s].balance
    BY <1>6 DEF Play, Gentle, TypeOK
  <2> QED
    BY <1>1, <1>2, <1>4, <1>5, <2>1 DEF OwnOnce
<1>7. CASE ~Play(p, s)
  <2>1. At(p)' \notin {"play_credit", "play_deduct"}
    BY <1>7 DEF Authenticate, PrepareExisting, PrepareMissing, EndRound, Put, Goto, At, TypeOK
  <2> QED
    BY <1>1, <1>2, <1>4, <1>5, <2>1 DEF OwnOnce
<1> QED
  BY <1>6, <1>7

LEMMA OnceStep ==
    ASSUME Gentle, TypeOK, TypeOK', SerialInv, BetIdsInv, SettledInv, OnceInv, [Next]_vars
    PROVE  OnceInv'
<1> USE DEF store, local, history
<1>1. ASSUME NEW p \in Procs, Step(p) \/ Request(p), ~ResetRows(p), ~ResetSessions(p)
      PROVE  OnceInv'
  <2>1. Moves(p)
    BY <1>1, StepMoves, RequestMoves DEF Gentle
  <2>2. OwnOnce(p)
    BY <1>1, StepOnceOwn, RequestOnceOwn
  <2> QED
    BY <1>1, <2>1, <2>2, MovesPayOwn, CounterGrows, OwnOnceKeeps
<1>2. ASSUME NEW p \in Procs, ResetSessions(p) \/ ResetRows(p) PROVE OnceInv'
  <2>1. \A q \in Procs : pc'[q] \in {"idle", "reset_rows"}
    BY <1>2 DEF ResetSessions, ResetRows, Goto, Idle, TypeOK, SerialInv, Exclusive, Gentle
  <2>2. /\ \A s \in Sessions : sessions'[s] = Absent
        /\ credits' = credits /\ betCounter' = betCounter
    BY <1>2 DEF ResetSessions, ResetRows, SerialInv, ResetEmpties
  <2>3. \A q \in Procs : At(q)' \in {"idle", "reset_rows"} /\ pc'[q] # "play_round"
    BY <2>1 DEF At
  <2>4. Affordable' /\ OpenUnpaid' /\ BetUnpaid'
    BY <2>2, <2>3 DEF Affordable, OpenUnpaid, BetUnpaid, Absent, NoRound
  <2> QED
    BY <2>2, <2>4 DEF OnceInv, FutureUnpaid, PaidOnce
<1>3. ~Restart
  BY DEF Restart, Gentle, TypeOK
<1>4. CASE ForceEvent \/ UNCHANGED vars
  BY <1>4 DEF ForceEvent, vars, OnceInv, Affordable, OpenUnpaid, FutureUnpaid, BetUnpaid,
     PaidOnce, Settled, On, At
<1> QED
  BY <1>1, <1>2, <1>3, <1>4 DEF Next

LEMMA OnceInit == Init => OnceInv
BY DEF Init, OnceInv, Affordable, OpenUnpaid, FutureUnpaid, BetUnpaid, PaidOnce, At,
       Absent, NoRound

LEMMA OnceAlways ==
    ASSUME Gentle
    PROVE  Spec => []OnceInv
<1>1. /\ TypeOK /\ TypeOK' /\ SerialInv /\ BetIdsInv /\ SettledInv
      /\ OnceInv /\ [Next]_vars
      => OnceInv'
  BY OnceStep
<1>2. Serial
  BY DEF Gentle
<1>3. Spec => []SerialInv
  BY <1>2, SerialAlways
<1>4. Spec => []SettledInv
  BY <1>2, SettledAlways
<1> QED
  BY <1>1, <1>3, <1>4, OnceInit, TypeCorrect, BetIdsAlways, PTL DEF Spec

\* "/end-round credits the payout", and /play credits it before it replaces
\* the round: the payout of a round is added to a balance at most once, for
\* clients that wait for their replies and stake what their balance covers,
\* on a server that neither fails a play half-way nor restarts (routes.rs,
\* play and end_round).  Without Careful the claim is false: the run
\* wallet_double_credit shows a refused play that has paid the round before
\* it and leaves it to be paid again.
THEOREM RoundsArePaidOnce ==
    ASSUME Gentle
    PROVE  Spec => []PaidOnce
<1>1. OnceInv => PaidOnce
  BY DEF OnceInv
<1> QED
  BY <1>1, OnceAlways, PTL

-----------------------------------------------------------------------------
(* The last event is the newest entry of the history.  A play writes the two *)
(* in two store calls, and a restart between them keeps only the first.      *)

Newest(session) ==
    IF session.history = << >>
    THEN session.last = "none"
    ELSE session.last = session.history[1].event

LastFollows ==
    \A s \in Sessions :
        Newest(sessions[s]) \/ \E p \in Procs : sid[p] = s /\ At(p) = "play_push"

LastDrawn ==
    \A p \in Procs : At(p) = "play_push" => sessions[sid[p]].last = drawn[p]

LastInv == LastFollows /\ LastDrawn

\* What is left to show of a step: the thread and the session it moves.
OwnLast(p) ==
    /\ Newest(sessions'[sid'[p]]) \/ At(p)' = "play_push"
    /\ At(p)' = "play_push" => sessions'[sid'[p]].last = drawn'[p]

\* The entry that is pushed is the first of the history, whatever is cut off.
LEMMA PushedIsFirst ==
    ASSUME NEW s \in SessionStates, NEW e \in Entries
    PROVE  /\ PushEvent(s, e).history # << >>
           /\ PushEvent(s, e).history[1] = e
           /\ PushEvent(s, e).last = s.last
<1> DEFINE h == <<e>> \o s.history
<1>1. h \in Seq(Entries) /\ Len(h) >= 1 /\ h[1] = e
  BY DEF SessionStates
<1>2. HistoryCap \in Nat /\ HistoryCap >= 1
  BY StoreAssumption DEF StoreAssumption
<1> HIDE DEF h
<1>3. Capped(h) # << >> /\ Capped(h)[1] = e
  <2>1. CASE Len(h) > HistoryCap
    <3>1. /\ SubSeq(h, 1, HistoryCap) \in Seq(Entries)
          /\ Len(SubSeq(h, 1, HistoryCap)) = HistoryCap
          /\ SubSeq(h, 1, HistoryCap)[1] = h[1]
      BY <1>1, <1>2, <2>1
    <3> QED
      BY <1>1, <1>2, <2>1, <3>1 DEF Capped
  <2>2. CASE ~(Len(h) > HistoryCap)
    BY <1>1, <2>2 DEF Capped
  <2> QED
    BY <2>1, <2>2
<1> QED
  BY <1>3 DEF PushEvent, h, SessionStates

\* The methods that touch neither.
LEMMA ShownKept ==
    ASSUME NEW s \in SessionStates
    PROVE  /\ \A amount : /\ Deduct(s, amount).last = s.last
                          /\ Deduct(s, amount).history = s.history
           /\ \A amount : /\ AddWinnings(s, amount).last = s.last
                          /\ AddWinnings(s, amount).history = s.history
           /\ \A r : /\ SetRound(s, r).last = s.last
                     /\ SetRound(s, r).history = s.history
BY DEF SessionStates, Deduct, AddWinnings, SetRound

LEMMA OwnLastKeeps ==
    ASSUME TypeOK', SerialInv, LastInv, NEW p \in Procs, Moves(p), OwnLast(p)
    PROVE  LastInv'
<1>1. LastFollows'
  <2> SUFFICES ASSUME NEW s \in Sessions
               PROVE  \/ Newest(sessions'[s])
                      \/ \E q \in Procs : sid'[q] = s /\ At(q)' = "play_push"
    BY DEF LastFollows, Newest
  <2>1. CASE s = sid'[p]
    BY <2>1 DEF OwnLast
  <2>2. CASE s # sid'[p] /\ Newest(sessions[s])
    BY <2>2 DEF Moves, Alone
  <2>3. CASE s # sid'[p] /\ ~Newest(sessions[s])
    <3>1. PICK q \in Procs : sid[q] = s /\ At(q) = "play_push"
      BY <2>3 DEF LastInv, LastFollows
    <3>2. q # p
      BY <2>3, <3>1 DEF Moves, Alone, Idle, At
    <3> QED
      BY <3>1, <3>2 DEF Moves, Alone, At
  <2> QED
    BY <2>1, <2>2, <2>3
<1>2. LastDrawn'
  <2> SUFFICES ASSUME NEW q \in Procs, q # p, At(q)' = "play_push"
               PROVE  sessions'[sid'[q]].last = drawn'[q]
    BY DEF LastDrawn, OwnLast
  <2>1. /\ At(q) = "play_push" /\ drawn'[q] = drawn[q] /\ sid'[q] = sid[q]
        /\ sid[q] # sid'[p]
    BY DEF Moves, Alone, Apart, Idle, At
  <2>2. sid'[q] \in Sessions
    BY DEF TypeOK
  <2>3. sessions'[sid'[q]] = sessions[sid[q]]
    BY <2>1, <2>2 DEF Moves, Alone
  <2> QED
    BY <2>1, <2>3 DEF LastInv, LastDrawn
<1> QED
  BY <1>1, <1>2 DEF LastInv

\* A busy thread is the only one on its session.
LEMMA NewestOwn ==
    ASSUME TypeOK, SerialInv, LastInv, NEW p \in Procs, ~Idle(p), At(p) # "play_push"
    PROVE  Newest(sessions[sid[p]])
<1>1. ASSUME NEW q \in Procs, sid[q] = sid[p], At(q) = "play_push"
      PROVE  FALSE
  <2>1. q # p /\ ~Idle(q)
    BY <1>1 DEF Idle, At
  <2> QED
    BY <1>1, <2>1 DEF SerialInv, Exclusive
<1> QED
  BY <1>1 DEF TypeOK, LastInv, LastFollows

LEMMA StepLastOwn ==
    ASSUME TypeOK, DrawnKept, SerialInv, LastInv, NEW p \in Procs, Step(p), ~ResetRows(p)
    PROVE  OwnLast(p)
<1> USE DEF history, local, store
<1> DEFINE cur == sessions[sid[p]]
<1>1. sid[p] \in Sessions /\ cur \in SessionStates
  BY DEF TypeOK
<1>2. ~Idle(p)
  BY DEF Step, Idle, Save, AuthenticateCreate, PrepareUpsert, PlayCredit, PlayDeduct,
     PlayInsufficientBalance, PlayDraw, PlayEngineFails, PlayLast, PlayPush, PlayBetId,
     PlayRound, EndCredit, EndClear
<1>3. At(p) # "play_push" => Newest(cur)
  BY <1>2, NewestOwn
\* The store calls that leave the history and the last event alone.
<1>4. ASSUME NEW new, NEW next, Put(p, sid[p], new, next), sid' = sid,
             new.last = cur.last, new.history = cur.history,
             At(p) # "play_push", next # "play_push"
      PROVE  OwnLast(p)
  BY <1>3, <1>4, PutOwn DEF OwnLast, Newest
\* The steps without a store call.
<1>5. ASSUME NEW next, Goto(p, next), next \notin {"play_push", "save"},
             sid' = sid, sessions' = sessions, At(p) # "play_push"
      PROVE  OwnLast(p)
  BY <1>3, <1>5 DEF OwnLast, Goto, At, TypeOK
<1>6. CASE Save(p)
  <2>1. /\ sid' = sid /\ sessions' = sessions /\ drawn' = drawn
        /\ pc'[p] = after[p] /\ after[p] \in Continuations /\ pc[p] = "save"
    BY <1>6 DEF Save, Goto, TypeOK
  <2>2. At(p)' = At(p)
    BY <2>1 DEF At, Continuations
  <2> QED
    BY <1>1, <1>3, <2>1, <2>2 DEF OwnLast, LastInv, LastDrawn
<1>7. CASE AuthenticateCreate(p) \/ PrepareUpsert(p)
  <2>1. PICK new : Put(p, sid[p], new, "idle") /\ \E b : new = Fresh(b)
    BY <1>7 DEF AuthenticateCreate, PrepareUpsert
  <2>2. Newest(new) /\ sid' = sid
    BY <1>7, <2>1 DEF Fresh, Newest, AuthenticateCreate, PrepareUpsert
  <2>3. sessions'[sid[p]] = new /\ At(p)' = "idle"
    BY <2>1, PutOwn
  <2> QED
    BY <2>2, <2>3 DEF OwnLast
<1>8. CASE PlayCredit(p) \/ EndCredit(p)
  <2>1. PICK next \in {"play_deduct", "end_clear"} : Credit(p, next)
    BY <1>8 DEF PlayCredit, EndCredit
  <2>2. PICK new : /\ Update(p, new, next) /\ sid' = sid
                   /\ new = AddWinnings(cur, seen[p].payout)
    BY <2>1 DEF Credit
  <2>3. Put(p, sid[p], new, next)
    BY <1>8, <2>2, UpdatePuts DEF PlayCredit, EndCredit, Creating
  <2>4. new.last = cur.last /\ new.history = cur.history
    BY <1>1, <2>2, ShownKept
  <2>5. At(p) # "play_push"
    BY <1>8 DEF PlayCredit, EndCredit, At
  <2> QED
    BY <1>4, <2>2, <2>3, <2>4, <2>5
<1>9. CASE PlayDeduct(p)
  <2>1. PICK new : /\ Put(p, sid[p], new, "play_draw") /\ sid' = sid
                   /\ new = Deduct(cur, Cost[mode[p]])
    BY <1>9 DEF PlayDeduct
  <2>2. new.last = cur.last /\ new.history = cur.history
    BY <1>1, <2>1, ShownKept
  <2>3. At(p) # "play_push"
    BY <1>9 DEF PlayDeduct, At
  <2> QED
    BY <1>4, <2>1, <2>2, <2>3
<1>10. CASE PlayInsufficientBalance(p) \/ PlayEngineFails(p)
  BY <1>5, <1>10 DEF PlayInsufficientBalance, PlayEngineFails, At
<1>11. CASE PlayDraw(p)
  BY <1>5, <1>11 DEF PlayDraw, At
<1>12. CASE PlayLast(p)
  <2>1. PICK new : /\ Update(p, new, "play_push") /\ sid' = sid /\ drawn' = drawn
                   /\ new = SetLast(cur, drawn[p])
    BY <1>12 DEF PlayLast
  <2>2. Put(p, sid[p], new, "play_push")
    BY <1>12, <2>1, UpdatePuts DEF PlayLast, Creating
  <2>3. new.last = drawn[p]
    BY <1>1, <2>1 DEF SetLast, SessionStates
  <2>4. sessions'[sid[p]] = new /\ At(p)' = "play_push"
    BY <2>2, PutOwn
  <2> QED
    BY <2>1, <2>3, <2>4 DEF OwnLast
<1>13. CASE PlayPush(p)
  <2> DEFINE entry == [event |-> drawn[p], forced |-> forced.mode = mode[p]]
  <2>1. PICK new : /\ Update(p, new, "play_id") /\ sid' = sid
                   /\ new = PushEvent(cur, entry)
    BY <1>13 DEF PlayPush
  <2>2. Put(p, sid[p], new, "play_id")
    BY <1>13, <2>1, UpdatePuts DEF PlayPush, Creating
  <2>3. At(p) = "play_push" /\ drawn[p] \in Events /\ cur.last = drawn[p]
    BY <1>13 DEF PlayPush, At, DrawnKept, LastInv, LastDrawn
  <2>4. entry \in Entries /\ entry.event = drawn[p]
    BY <2>3 DEF Entries
  <2> HIDE DEF entry
  <2>5. new.history # << >> /\ new.history[1] = entry /\ new.last = cur.last
    BY <1>1, <2>1, <2>4, PushedIsFirst
  <2>6. sessions'[sid[p]] = new /\ At(p)' = "play_id"
    BY <2>2, PutOwn
  <2> QED
    BY <2>1, <2>3, <2>4, <2>5, <2>6 DEF OwnLast, Newest
<1>14. CASE PlayBetId(p)
  BY <1>5, <1>14 DEF PlayBetId, At
<1>15. CASE PlayRound(p)
  <2>1. PICK new : Update(p, new, "idle") /\ sid' = sid /\ \E r : new = SetRound(cur, r)
    BY <1>15 DEF PlayRound
  <2>2. Put(p, sid[p], new, "idle")
    BY <1>15, <2>1, UpdatePuts DEF PlayRound, Creating
  <2>3. new.last = cur.last /\ new.history = cur.history
    BY <1>1, <2>1, ShownKept
  <2>4. At(p) # "play_push"
    BY <1>15 DEF PlayRound, At
  <2> QED
    BY <1>4, <2>1, <2>2, <2>3, <2>4
<1>16. CASE EndClear(p)
  <2>1. PICK new : Update(p, new, "idle") /\ sid' = sid /\ \E r : new = SetRound(cur, r)
    BY <1>16 DEF EndClear
  <2>2. Put(p, sid[p], new, "idle")
    BY <1>16, <2>1, UpdatePuts DEF EndClear, Creating
  <2>3. new.last = cur.last /\ new.history = cur.history
    BY <1>1, <2>1, ShownKept
  <2>4. At(p) # "play_push"
    BY <1>16 DEF EndClear, At
  <2> QED
    BY <1>4, <2>1, <2>2, <2>3, <2>4
<1> QED
  BY <1>6, <1>7, <1>8, <1>9, <1>10, <1>11, <1>12, <1>13, <1>14, <1>15, <1>16 DEF Step

LEMMA RequestLastOwn ==
    ASSUME TypeOK, Serial, LastInv, NEW p \in Procs, Request(p), ~ResetSessions(p)
    PROVE  OwnLast(p)
<1> USE DEF history, local, store
<1> SUFFICES ASSUME NEW s \in Sessions,
                    \/ Authenticate(p, s) \/ PrepareExisting(p, s) \/ PrepareMissing(p, s)
                    \/ Play(p, s) \/ EndRound(p, s)
             PROVE  OwnLast(p)
  BY DEF Request
<1>1. Apart(p) /\ Idle(p) /\ sid'[p] = s
  BY TakeApart DEF Authenticate, PrepareExisting, PrepareMissing, Play, EndRound
<1>2. sessions'[s] = sessions[s]
  BY DEF Authenticate, PrepareExisting, PrepareMissing, Play, EndRound, Put, TypeOK
<1>3. At(p)' # "play_push"
  BY DEF Authenticate, PrepareExisting, PrepareMissing, Play, EndRound, Put, Goto, At, TypeOK
<1>4. Newest(sessions[s])
  <2>1. \A q \in Procs : sid[q] = s => At(q) # "play_push"
    BY <1>1 DEF Apart, Idle, At
  <2> QED
    BY <2>1 DEF LastInv, LastFollows
<1> QED
  BY <1>1, <1>2, <1>3, <1>4 DEF OwnLast

LEMMA LastStep ==
    ASSUME TypeOK, TypeOK', DrawnKept, Serial, MaxRestarts = 0, SerialInv, LastInv,
           [Next]_vars
    PROVE  LastInv'
<1> USE DEF store, local, history
<1>1. ASSUME NEW p \in Procs, Step(p) \/ Request(p), ~ResetRows(p), ~ResetSessions(p)
      PROVE  LastInv'
  BY <1>1, StepMoves, RequestMoves, StepLastOwn, RequestLastOwn, OwnLastKeeps
<1>2. ASSUME NEW p \in Procs, ResetSessions(p) \/ ResetRows(p) PROVE LastInv'
  <2>1. \A q \in Procs : pc'[q] \in {"idle", "reset_rows"}
    BY <1>2 DEF ResetSessions, ResetRows, Goto, Idle, TypeOK, SerialInv, Exclusive
  <2>2. \A s \in Sessions : sessions'[s] = Absent
    BY <1>2 DEF ResetSessions, ResetRows, SerialInv, ResetEmpties
  <2>3. \A q \in Procs : At(q)' # "play_push"
    BY <2>1 DEF At
  <2> QED
    BY <2>2, <2>3 DEF LastInv, LastFollows, LastDrawn, Newest, Absent
<1>3. ~Restart
  BY DEF Restart, TypeOK
<1>4. CASE ForceEvent \/ UNCHANGED vars
  BY <1>4 DEF ForceEvent, vars, LastInv, LastFollows, LastDrawn, Newest, At
<1> QED
  BY <1>1, <1>2, <1>3, <1>4 DEF Next

LEMMA LastInit == Init => LastInv
BY DEF Init, LastInv, LastFollows, LastDrawn, Newest, At, Absent

\* Between requests the row of a session is the session and the last event the
\* test view shows is the newest entry of its history, although a play stores
\* them in two calls with other players' requests in between (session.rs,
\* set_last_event and push_event).  A restart between the two calls really
\* breaks the second half, so it is excluded here.
THEOREM HistoryStaysCurrent ==
    ASSUME Serial, MaxRestarts = 0
    PROVE  Spec => []HistoryCurrent
<1>1. /\ TypeOK /\ TypeOK' /\ DrawnKept /\ SerialInv
      /\ LastInv /\ [Next]_vars
      => LastInv'
  BY LastStep
<1>2. LastInv => LastIsNewest
  <2> SUFFICES ASSUME LastInv, NEW s \in Sessions, Quiet(s)
               PROVE  Newest(sessions[s])
    BY DEF LastIsNewest, Newest
  <2> QED
    BY DEF LastInv, LastFollows, Quiet, Idle, At
<1> QED
  BY <1>1, <1>2, LastInit, TypeCorrect, SerialAlways, RowsFollowSessions, PTL
     DEF Spec, HistoryCurrent

-----------------------------------------------------------------------------
(* Every player sees WalletLedger.                                           *)

\* The stakes and wins of a run of MaxBets rounds that pay at most P each never
\* reach the largest balance, so add_winnings does not saturate.
Affords(P) ==
    /\ P \in Nat
    /\ \A e \in Events : Payout[e] <= P
    /\ \A b \in Openings \union {InitialBalance} : b + MaxBets * P <= MaxU64

Staking == {"play_draw", "play_last", "play_push", "play_id", "play_round"}

Owed(s) == IF Settled(s) THEN 0 ELSE sessions[s].round.payout

\* A play on s has a bet id, and its round is not in the slot yet.
Rolling(s) == \E p \in Procs : sid[p] = s /\ pc[p] = "play_round"

\* The most a session can still win: the rounds that have no bet id yet, the
\* round of the play that has one, and what it is owed.
Ahead(P) == (MaxBets - betCounter) * P

BudgetKept(P) ==
    \A s \in Sessions : sessions[s].live =>
        sessions[s].balance + Owed(s) + (IF Rolling(s) THEN P ELSE 0) + Ahead(P) <= MaxU64

LEMMA RollingFrame ==
    ASSUME NEW p \in Procs, Moves(p), NEW s \in Sessions
    PROVE  /\ s # sid'[p] => (Rolling(s)' <=> Rolling(s))
           /\ s = sid'[p] => (Rolling(s)' <=> pc'[p] = "play_round")
           /\ s = sid'[p] => (Rolling(s) <=> pc[p] = "play_round")
BY DEF Rolling, Moves, Alone, Apart, Idle

\* The stake under way on a session is the one of the thread that is there.
LEMMA StakedFrame ==
    ASSUME NEW p \in Procs, Moves(p), NEW s \in Sessions
    PROVE  /\ s # sid'[p] => Staked(s)' = Staked(s)
           /\ s = sid'[p] =>
                Staked(s)' = IF At(p)' \in Staking THEN Cost[mode'[p]] ELSE 0
           /\ s = sid'[p] =>
                Staked(s) = IF At(p) \in Staking THEN Cost[mode[p]] ELSE 0
<1> DEFINE Bought == {q \in Procs : sid[q] = s /\ At(q) \in Staking}
           BoughtNext == {q \in Procs : sid'[q] = s /\ At(q)' \in Staking}
<1>1. /\ Staked(s) = IF Bought = {} THEN 0 ELSE Cost[mode[CHOOSE q \in Bought : TRUE]]
      /\ Staked(s)' = IF BoughtNext = {} THEN 0
                      ELSE Cost[mode'[CHOOSE q \in BoughtNext : TRUE]]
  <2>1. /\ {q \in On(s) : At(q) \in Staking} = Bought
        /\ {q \in On(s)' : At(q)' \in Staking} = BoughtNext
    BY DEF On
  <2> DEFINE B == {q \in On(s) : At(q) \in Staking}
             BN == {q \in On(s)' : At(q)' \in Staking}
  <2>2. Staked(s) = IF B = {} THEN 0 ELSE Cost[mode[CHOOSE q \in B : TRUE]]
    BY DEF Staked, Staking
  <2>3. Staked(s)' = IF BN = {} THEN 0 ELSE Cost[mode'[CHOOSE q \in BN : TRUE]]
    BY DEF Staked, Staking
  <2> HIDE DEF B, BN, Bought, BoughtNext
  <2>4. B = Bought /\ BN = BoughtNext
    BY <2>1 DEF B, BN
  <2> QED
    BY <2>2, <2>3, <2>4
<1>2. \A q \in Procs : q # p =>
        At(q)' = At(q) /\ sid'[q] = sid[q] /\ mode'[q] = mode[q]
  BY DEF Moves, Alone, At
<1>3. \A q \in Procs : q # p /\ sid[q] = sid'[p] => At(q) \notin Staking
  BY DEF Moves, Apart, Idle, At, Staking
<1>4. Idle(p) => At(p) \notin Staking
  BY DEF Idle, At, Staking
<1>5. Idle(p) \/ sid'[p] = sid[p]
  BY DEF Moves, Alone
<1>6. CASE s # sid'[p]
  <2>1. BoughtNext = Bought /\ p \notin Bought
    BY <1>2, <1>4, <1>5, <1>6
  <2>2. Bought # {} => (CHOOSE q \in Bought : TRUE) \in Bought
    OBVIOUS
  <2>3. ASSUME NEW q \in Bought PROVE mode'[q] = mode[q]
    BY <1>2, <2>1, <2>3
  <2> HIDE DEF Bought, BoughtNext
  <2> QED
    BY <1>1, <1>6, <2>1, <2>2, <2>3
<1>7. CASE s = sid'[p]
  <2>1. Bought = IF At(p) \in Staking THEN {p} ELSE {}
    BY <1>3, <1>4, <1>5, <1>7
  <2>2. BoughtNext = IF At(p)' \in Staking THEN {p} ELSE {}
    BY <1>2, <1>3, <1>7
  <2>3. (CHOOSE q \in {p} : TRUE) = p
    OBVIOUS
  <2> HIDE DEF Bought, BoughtNext
  <2> QED
    BY <1>1, <1>7, <2>1, <2>2, <2>3
<1> QED
  BY <1>6, <1>7

\* What a step of thread p does to the player of the session it works on:
\* nothing the player can tell, ...
Shows(p) ==
    /\ sessions'[sid'[p]].live = sessions[sid'[p]].live
    /\ sessions'[sid'[p]].balance = sessions[sid'[p]].balance
    /\ sessions'[sid'[p]].round = sessions[sid'[p]].round
    /\ betCounter' = betCounter /\ pc'[p] # "play_round"
    /\ (At(p)' \in Settling <=> At(p) \in Settling) \/ sessions[sid'[p]].round.payout = 0
    /\ At(p)' \in Staking <=> At(p) \in Staking
    /\ At(p) \in Staking => mode'[p] = mode[p]

\* ... open the session, ...
Opens(p) ==
    /\ ~sessions[sid[p]].live /\ sessions'[sid[p]].live
    /\ sessions'[sid[p]].balance \in Openings \union {InitialBalance}
    /\ sessions'[sid[p]].round = NoRound
    /\ sid' = sid /\ betCounter' = betCounter
    /\ At(p) \notin Staking \union Settling /\ At(p)' = "idle" /\ pc'[p] = "save"

\* ... pay the round in the slot, ...
Pays(p) ==
    /\ sessions[sid[p]].live
    /\ sessions'[sid[p]] = AddWinnings(sessions[sid[p]], sessions[sid[p]].round.payout)
    /\ sid' = sid /\ betCounter' = betCounter
    /\ At(p) \in Crediting /\ At(p)' \in {"play_deduct", "end_clear"} /\ pc'[p] = "save"

\* ... take the stake, ...
Stakes(p) ==
    /\ sessions[sid[p]].live
    /\ Cost[mode[p]] <= sessions[sid[p]].balance
    /\ sessions'[sid[p]] = Deduct(sessions[sid[p]], Cost[mode[p]])
    /\ sid' = sid /\ mode' = mode /\ betCounter' = betCounter
    /\ At(p) = "play_deduct" /\ At(p)' = "play_draw" /\ pc'[p] = "save"

\* ... take a bet id, ...
Numbers(p) ==
    /\ sessions' = sessions /\ sid' = sid /\ mode' = mode
    /\ betCounter < MaxBets /\ betCounter' = betCounter + 1
    /\ At(p) = "play_id" /\ At(p)' = "play_round" /\ pc'[p] = "play_round"

\* ... put the round in the slot, ...
Rolls(p) ==
    /\ sessions[sid[p]].live
    /\ \E e \in Events, id \in Nat :
         sessions'[sid[p]] = SetRound(sessions[sid[p]], [id |-> id, payout |-> Payout[e]])
    /\ sid' = sid /\ mode' = mode /\ betCounter' = betCounter
    /\ pc[p] = "play_round" /\ At(p)' = "idle" /\ pc'[p] = "save"

\* ... or clear the slot.
Clears(p) ==
    /\ sessions'[sid[p]] = SetRound(sessions[sid[p]], NoRound)
    /\ sid' = sid /\ betCounter' = betCounter
    /\ At(p) = "end_clear" /\ At(p)' = "idle" /\ pc'[p] = "save"

Effects(p) ==
    \/ Shows(p) \/ Opens(p) \/ Pays(p) \/ Stakes(p) \/ Numbers(p) \/ Rolls(p) \/ Clears(p)

\* The store calls of a play between the stake and the bet id.
LEMMA PutShows ==
    ASSUME TypeOK, NEW p \in Procs, NEW new, NEW next, Put(p, sid[p], new, next),
           new.live = sessions[sid[p]].live, new.balance = sessions[sid[p]].balance,
           new.round = sessions[sid[p]].round,
           sid' = sid, mode' = mode, betCounter' = betCounter,
           At(p) \in Staking \ {"play_round"}, next \in Staking \ {"play_round"}
    PROVE  Shows(p)
<1>1. sessions'[sid[p]] = new /\ pc'[p] = "save" /\ At(p)' = next
  BY PutOwn
<1>2. Staking \subseteq Settling
  BY DEF Staking, Settling
<1> QED
  BY <1>1, <1>2 DEF Shows

LEMMA StepEffects ==
    ASSUME Gentle, TypeOK, DrawnKept, SerialInv, SettledInv, OnceInv,
           NEW p \in Procs, Step(p), ~ResetRows(p)
    PROVE  Effects(p)
<1> USE DEF history, local, store
<1> DEFINE cur == sessions[sid[p]]
<1>1. sid[p] \in Sessions /\ cur \in SessionStates
  BY DEF TypeOK
<1>2. pc[p] \notin Creating \union {"idle", "reset_rows"} => cur.live
  BY DEF SerialInv, OnLive
<1>3. CASE Save(p)
  <2>1. /\ sid' = sid /\ sessions' = sessions /\ mode' = mode /\ betCounter' = betCounter
        /\ pc'[p] = after[p] /\ after[p] \in Continuations /\ pc[p] = "save"
    BY <1>3 DEF Save, Goto, TypeOK
  <2>2. At(p)' = At(p) /\ pc'[p] # "play_round"
    BY <2>1 DEF At, Continuations
  <2> QED
    BY <2>1, <2>2 DEF Effects, Shows
<1>4. CASE AuthenticateCreate(p) \/ PrepareUpsert(p)
  <2>1. PICK b \in Openings \union {InitialBalance} : Put(p, sid[p], Fresh(b), "idle")
    BY <1>4 DEF AuthenticateCreate, PrepareUpsert
  <2> DEFINE new == Fresh(b)
  <2>2. new.live /\ new.balance = b /\ new.round = NoRound
    BY DEF Fresh
  <2> HIDE DEF new
  <2>3. sessions'[sid[p]] = new /\ pc'[p] = "save" /\ At(p)' = "idle"
    BY <2>1, PutOwn DEF new
  <2>4. ~cur.live /\ At(p) \notin Staking \union Settling
    BY <1>4 DEF AuthenticateCreate, PrepareUpsert, SerialInv, OnLive, Creating, At,
       Staking, Settling
  <2>5. sid' = sid /\ betCounter' = betCounter
    BY <1>4 DEF AuthenticateCreate, PrepareUpsert
  <2> QED
    BY <2>2, <2>3, <2>4, <2>5 DEF Effects, Opens
<1>5. CASE PlayCredit(p) \/ EndCredit(p)
  <2>1. PICK next \in {"play_deduct", "end_clear"} : Credit(p, next)
    BY <1>5 DEF PlayCredit, EndCredit
  <2>2. pc[p] \in Crediting /\ At(p) \in Crediting
    BY <1>5 DEF PlayCredit, EndCredit, Crediting, At
  <2>3. PICK new : /\ Put(p, sid[p], new, next) /\ cur.live /\ sid' = sid
                   /\ new = AddWinnings(cur, cur.round.payout)
    BY <2>1, <2>2, CreditOwn
  <2>4. sessions'[sid[p]] = new /\ pc'[p] = "save" /\ At(p)' = next
    BY <2>3, PutOwn
  <2>5. betCounter' = betCounter
    BY <2>1 DEF Credit
  <2> QED
    BY <2>2, <2>3, <2>4, <2>5 DEF Effects, Pays
<1>6. CASE PlayDeduct(p)
  <2>1. PICK new : /\ Put(p, sid[p], new, "play_draw")
                   /\ new = Deduct(cur, Cost[mode[p]])
    BY <1>6 DEF PlayDeduct
  <2>2. sessions'[sid[p]] = new /\ pc'[p] = "save" /\ At(p)' = "play_draw"
    BY <2>1, PutOwn
  <2>3. /\ cur.live /\ Cost[mode[p]] <= cur.balance /\ At(p) = "play_deduct"
        /\ sid' = sid /\ mode' = mode /\ betCounter' = betCounter
    BY <1>6 DEF PlayDeduct, At
  <2> QED
    BY <2>1, <2>2, <2>3 DEF Effects, Stakes
\* A client that stakes what it has is not refused.
<1>7. ~PlayInsufficientBalance(p)
  <2>1. At(p) = "play_deduct" => Cost[mode[p]] <= cur.balance
    BY DEF OnceInv, Affordable
  <2> QED
    BY <1>2, <2>1 DEF PlayInsufficientBalance, At, Creating
<1>8. ~PlayEngineFails(p)
  BY DEF PlayEngineFails, Gentle
<1>9. CASE PlayDraw(p)
  <2>1. /\ At(p) = "play_draw" /\ At(p)' = "play_last" /\ pc'[p] = "play_last"
        /\ sessions' = sessions /\ sid' = sid /\ mode' = mode /\ betCounter' = betCounter
    BY <1>9 DEF PlayDraw, Goto, At, TypeOK
  <2> QED
    BY <2>1 DEF Effects, Shows, Settling, Staking
<1>10. CASE PlayLast(p)
  <2>1. PICK new : Update(p, new, "play_push") /\ new = SetLast(cur, drawn[p])
    BY <1>10 DEF PlayLast
  <2>2. Put(p, sid[p], new, "play_push")
    BY <1>10, <2>1, UpdatePuts DEF PlayLast, Creating
  <2>3. new.live = cur.live /\ new.balance = cur.balance /\ new.round = cur.round
    BY <1>1, <2>1 DEF SetLast, SessionStates
  <2>4. /\ At(p) = "play_last" /\ sid' = sid /\ mode' = mode /\ betCounter' = betCounter
    BY <1>10 DEF PlayLast, At
  <2> QED
    BY <2>2, <2>3, <2>4, PutShows DEF Effects, Staking
<1>11. CASE PlayPush(p)
  <2>1. PICK new : Update(p, new, "play_id") /\ \E e : new = PushEvent(cur, e)
    BY <1>11 DEF PlayPush
  <2>2. Put(p, sid[p], new, "play_id")
    BY <1>11, <2>1, UpdatePuts DEF PlayPush, Creating
  <2>3. new.live = cur.live /\ new.balance = cur.balance /\ new.round = cur.round
    BY <1>1, <2>1 DEF PushEvent, SessionStates
  <2>4. /\ At(p) = "play_push" /\ sid' = sid /\ mode' = mode /\ betCounter' = betCounter
    BY <1>11 DEF PlayPush, At
  <2> QED
    BY <2>2, <2>3, <2>4, PutShows DEF Effects, Staking
<1>12. CASE PlayBetId(p)
  BY <1>12 DEF PlayBetId, Goto, At, TypeOK, Effects, Numbers
<1>13. CASE PlayRound(p)
  <2> DEFINE r == [id |-> bet[p], payout |-> Payout[drawn[p]]]
  <2>1. PICK new : Update(p, new, "idle") /\ new = SetRound(cur, r)
    BY <1>13 DEF PlayRound
  <2>2. Put(p, sid[p], new, "idle") /\ cur.live
    BY <1>2, <1>13, <2>1, UpdatePuts DEF PlayRound, Creating
  <2>3. sessions'[sid[p]] = new /\ pc'[p] = "save" /\ At(p)' = "idle"
    BY <2>2, PutOwn
  <2>4. /\ drawn[p] \in Events /\ bet[p] \in Nat /\ pc[p] = "play_round"
        /\ sid' = sid /\ mode' = mode /\ betCounter' = betCounter
    BY <1>13 DEF PlayRound, DrawnKept, At, TypeOK
  <2> QED
    BY <2>1, <2>2, <2>3, <2>4 DEF Effects, Rolls
<1>14. CASE EndClear(p)
  <2>1. PICK new : Update(p, new, "idle") /\ new = SetRound(cur, NoRound)
    BY <1>14 DEF EndClear
  <2>2. Put(p, sid[p], new, "idle")
    BY <1>14, <2>1, UpdatePuts DEF EndClear, Creating
  <2>3. sessions'[sid[p]] = new /\ pc'[p] = "save" /\ At(p)' = "idle"
    BY <2>2, PutOwn
  <2>4. At(p) = "end_clear" /\ sid' = sid /\ betCounter' = betCounter
    BY <1>14 DEF EndClear, At
  <2> QED
    BY <2>1, <2>3, <2>4 DEF Effects, Clears
<1> QED
  BY <1>3, <1>4, <1>5, <1>6, <1>7, <1>8, <1>9, <1>10, <1>11, <1>12, <1>13, <1>14 DEF Step

\* A request that is taken shows the player nothing: a play or an end of a
\* round goes on to the payment only if there is something to pay.
LEMMA RequestEffects ==
    ASSUME Gentle, TypeOK, NEW p \in Procs, Request(p), ~ResetSessions(p)
    PROVE  Effects(p)
<1> USE DEF history, local, store
<1> SUFFICES ASSUME NEW s \in Sessions,
                    \/ Authenticate(p, s) \/ PrepareExisting(p, s) \/ PrepareMissing(p, s)
                    \/ Play(p, s) \/ EndRound(p, s)
             PROVE  Shows(p)
  BY DEF Request, Effects
<1>1. Idle(p) /\ sid'[p] = s
  BY TakeApart DEF Authenticate, PrepareExisting, PrepareMissing, Play, EndRound, Gentle
<1>2. sessions'[s] = sessions[s] /\ betCounter' = betCounter
  BY DEF Authenticate, PrepareExisting, PrepareMissing, Play, EndRound, Put, TypeOK
<1>3. At(p) \notin Settling /\ At(p) \notin Staking
  BY <1>1 DEF Idle, At, Settling, Staking
<1>4. At(p)' \notin Staking /\ pc'[p] # "play_round"
  BY DEF Authenticate, PrepareExisting, PrepareMissing, Play, EndRound, Put, Goto, At,
     TypeOK, Staking
<1>5. CASE Play(p, s) \/ EndRound(p, s)
  <2>1. sessions[s].round.payout \in Nat
    BY DEF TypeOK, SessionStates, Rounds
  <2>2. CASE sessions[s].round.payout > 0
    <3>1. At(p)' \in Crediting
      BY <1>5, <2>2 DEF Play, EndRound, Goto, At, TypeOK, Crediting
    <3> QED
      BY <1>1, <1>2, <1>3, <1>4, <3>1 DEF Shows, Crediting, Settling
  <2>3. CASE ~(sessions[s].round.payout > 0)
    BY <1>1, <1>2, <1>3, <1>4, <2>1, <2>3 DEF Shows
  <2> QED
    BY <2>2, <2>3
<1>6. CASE Authenticate(p, s) \/ PrepareExisting(p, s) \/ PrepareMissing(p, s)
  <2>1. At(p)' \notin Settling
    BY <1>6 DEF Authenticate, PrepareExisting, PrepareMissing, Put, Goto, At, TypeOK, Settling
  <2> QED
    BY <1>1, <1>2, <1>3, <1>4, <2>1 DEF Shows
<1> QED
  BY <1>5, <1>6

LEMMA TimesGrows ==
    ASSUME NEW a \in Nat, NEW b \in Nat, NEW P \in Nat, a <= b
    PROVE  a * P \in Nat /\ b * P \in Nat /\ a * P <= b * P
OBVIOUS

LEMMA TimesNext ==
    ASSUME NEW a \in Int, NEW P \in Int
    PROVE  (a - 1) * P = a * P - P
OBVIOUS

LEMMA AheadArithmetic ==
    ASSUME NEW m \in Nat, NEW c \in Nat, NEW d \in Nat, NEW P \in Nat, c <= d, d <= m
    PROVE  /\ (m - c) * P \in Nat /\ (m - d) * P \in Nat /\ (m - d) * P <= (m - c) * P
           /\ d = c + 1 => (m - d) * P = (m - c) * P - P
           /\ (m - c) * P <= m * P
<1> DEFINE a == m - c
           b == m - d
<1>1. a \in Nat /\ b \in Nat /\ b <= a /\ a <= m
  OBVIOUS
<1>2. d = c + 1 => b = a - 1
  OBVIOUS
<1> HIDE DEF a, b
<1>3. a * P \in Nat /\ b * P \in Nat /\ b * P <= a * P /\ a * P <= m * P
  BY <1>1, TimesGrows
<1>4. d = c + 1 => b * P = a * P - P
  BY <1>1, <1>2, TimesNext
<1> QED
  BY <1>3, <1>4 DEF a, b

\* A bet id takes one win from what is ahead, and nothing else adds to it.
LEMMA AheadFalls ==
    ASSUME TypeOK, TypeOK', NEW P \in Nat, betCounter' >= betCounter
    PROVE  /\ Ahead(P) \in Nat /\ Ahead(P)' \in Nat /\ Ahead(P)' <= Ahead(P)
           /\ betCounter' = betCounter + 1 => Ahead(P)' = Ahead(P) - P
           /\ Ahead(P) <= MaxBets * P
<1>1. /\ betCounter \in Nat /\ betCounter' \in Nat /\ MaxBets \in Nat
      /\ betCounter <= betCounter' /\ betCounter' <= MaxBets
  BY WalletAssumption DEF TypeOK, WalletAssumption
<1> QED
  BY <1>1, AheadArithmetic DEF Ahead

\* What is left to show of a step: the session the thread works on.
LEMMA OwnBudget ==
    ASSUME TypeOK, TypeOK', NEW P, Affords(P), BudgetKept(P),
           NEW p \in Procs, Moves(p), Effects(p), betCounter' >= betCounter,
           NEW s \in Sessions, s = sid'[p], sessions'[s].live
    PROVE  sessions'[s].balance + Owed(s)' + (IF Rolling(s)' THEN P ELSE 0) + Ahead(P)'
             <= MaxU64
<1> DEFINE cur == sessions[s]
           new == sessions'[s]
<1>1. /\ cur \in SessionStates /\ cur.balance \in Nat /\ cur.round.payout \in Nat
      /\ new.balance \in Nat /\ new.round.payout \in Nat
      /\ P \in Nat /\ MaxU64 \in Nat
  <2>1. cur \in SessionStates /\ new \in SessionStates
    BY DEF TypeOK
  <2> HIDE DEF cur, new
  <2> QED
    BY <2>1, StoreAssumption DEF SessionStates, Rounds, Balances, Affords, StoreAssumption
<1>2. /\ Ahead(P) \in Nat /\ Ahead(P)' \in Nat /\ Ahead(P)' <= Ahead(P)
      /\ betCounter' = betCounter + 1 => Ahead(P)' = Ahead(P) - P
      /\ Ahead(P) <= MaxBets * P
  BY <1>1, AheadFalls
<1>3. /\ Owed(s)' = IF At(p)' \in Settling THEN 0 ELSE new.round.payout
      /\ Owed(s) = IF At(p) \in Settling THEN 0 ELSE cur.round.payout
  BY SettledFrame DEF Owed
<1>4. (Rolling(s)' <=> pc'[p] = "play_round") /\ (Rolling(s) <=> pc[p] = "play_round")
  BY RollingFrame
<1>5. cur.live =>
        cur.balance + Owed(s) + (IF Rolling(s) THEN P ELSE 0) + Ahead(P) <= MaxU64
  BY DEF BudgetKept
<1> HIDE DEF Moves
<1>6. CASE Shows(p)
  <2>1. /\ new.live = cur.live /\ new.balance = cur.balance
        /\ new.round.payout = cur.round.payout
        /\ pc'[p] # "play_round"
        /\ Owed(s)' = Owed(s)
    BY <1>3, <1>6 DEF Shows
  <2> HIDE DEF cur, new
  <2>2. Owed(s) \in Nat
    BY <1>1, <1>3
  <2> QED
    BY <1>1, <1>2, <1>4, <1>5, <2>1, <2>2 DEF new
<1>7. CASE Opens(p)
  <2>1. /\ new.balance \in Openings \union {InitialBalance} /\ new.round.payout = 0
        /\ pc'[p] # "play_round"
    BY <1>7 DEF Opens, NoRound
  <2>2. new.balance + MaxBets * P <= MaxU64
    BY <2>1 DEF Affords
  <2>3. Owed(s)' = 0 /\ ~Rolling(s)'
    BY <1>3, <1>4, <2>1
  <2>4. MaxBets * P \in Nat
    BY <1>1, WalletAssumption, TimesGrows DEF WalletAssumption
  <2> HIDE DEF new
  <2> QED
    BY <1>1, <1>2, <2>2, <2>3, <2>4 DEF new
<1>8. CASE Pays(p)
  <2>1. /\ s = sid[p] /\ cur.live /\ new = AddWinnings(cur, cur.round.payout)
        /\ pc'[p] # "play_round" /\ At(p)' \in Settling /\ At(p) \notin Settling
    BY <1>8 DEF Pays, Settling, Crediting
  <2>2. new.balance = IF cur.balance + cur.round.payout > MaxU64 THEN MaxU64
                      ELSE cur.balance + cur.round.payout
    BY <1>1, <2>1 DEF AddWinnings, SessionStates
  <2>3. Owed(s)' = 0 /\ Owed(s) = cur.round.payout /\ ~Rolling(s)'
    BY <1>3, <1>4, <2>1
  <2> HIDE DEF cur, new
  <2> QED
    BY <1>1, <1>2, <1>5, <2>1, <2>2, <2>3 DEF new
<1>9. CASE Stakes(p)
  <2>1. /\ s = sid[p] /\ cur.live /\ new = Deduct(cur, Cost[mode[p]])
        /\ pc'[p] # "play_round" /\ At(p)' \in Settling /\ At(p) \in Settling
    BY <1>9 DEF Stakes, Settling
  <2>2. new.balance = cur.balance - Cost[mode[p]] /\ Cost[mode[p]] \in Nat
    BY <1>1, <2>1, WalletAssumption DEF Deduct, SessionStates, WalletAssumption, TypeOK
  <2>3. Owed(s)' = 0 /\ Owed(s) = 0 /\ ~Rolling(s)'
    BY <1>3, <1>4, <2>1
  <2> HIDE DEF cur, new
  <2> QED
    BY <1>1, <1>2, <1>5, <2>1, <2>2, <2>3 DEF new
<1>10. CASE Numbers(p)
  <2>1. /\ s = sid[p] /\ new = cur /\ betCounter' = betCounter + 1
        /\ pc[p] # "play_round" /\ At(p)' \in Settling /\ At(p) \in Settling
    BY <1>10 DEF Numbers, Settling, At
  <2>2. Owed(s)' = 0 /\ Owed(s) = 0 /\ ~Rolling(s)
    BY <1>3, <1>4, <2>1
  <2>3. cur.live
    BY <2>1
  <2> HIDE DEF cur, new
  <2> QED
    BY <1>1, <1>2, <1>5, <2>1, <2>2, <2>3 DEF new
<1>11. CASE Rolls(p)
  <2>1. /\ s = sid[p] /\ cur.live /\ pc[p] = "play_round" /\ pc'[p] # "play_round"
        /\ At(p)' \notin Settling /\ At(p) \in Settling
    BY <1>11 DEF Rolls, Settling, At
  <2>2. new.balance = cur.balance /\ new.round.payout <= P
    BY <1>1, <1>11, <2>1 DEF Rolls, SetRound, SessionStates, Affords
  <2>3. Owed(s)' = new.round.payout /\ Owed(s) = 0 /\ Rolling(s) /\ ~Rolling(s)'
    BY <1>3, <1>4, <2>1
  <2> HIDE DEF cur, new
  <2> QED
    BY <1>1, <1>2, <1>5, <2>1, <2>2, <2>3 DEF new
<1>12. CASE Clears(p)
  <2>1. /\ s = sid[p] /\ new = SetRound(cur, NoRound)
        /\ pc'[p] # "play_round" /\ At(p)' \notin Settling /\ At(p) \in Settling
    BY <1>12 DEF Clears, Settling
  <2>2. new.balance = cur.balance /\ new.live = cur.live /\ new.round.payout = 0
    <3>1. new.round = NoRound
      BY <1>1, <2>1, RoundKept
    <3>2. new.balance = cur.balance /\ new.live = cur.live
      BY <1>1, <2>1 DEF SetRound, SessionStates
    <3>3. NoRound.payout = 0
      BY DEF NoRound
    <3> HIDE DEF cur, new
    <3> QED
      BY <3>1, <3>2, <3>3
  <2>3. Owed(s)' = 0 /\ Owed(s) = 0 /\ ~Rolling(s)'
    BY <1>3, <1>4, <2>1, <2>2
  <2> HIDE DEF cur, new
  <2> QED
    BY <1>1, <1>2, <1>5, <2>1, <2>2, <2>3 DEF new
<1> QED
  BY <1>6, <1>7, <1>8, <1>9, <1>10, <1>11, <1>12 DEF Effects

\* Every step that is not a reset moves one thread with a known effect.
LEMMA MovesEffects ==
    ASSUME Gentle, TypeOK, DrawnKept, SerialInv, SettledInv, OnceInv,
           NEW p \in Procs, Step(p) \/ Request(p), ~ResetRows(p), ~ResetSessions(p)
    PROVE  Moves(p) /\ Effects(p) /\ betCounter' \in Nat /\ betCounter' >= betCounter
BY StepMoves, RequestMoves, StepEffects, RequestEffects, CounterGrows DEF Gentle

LEMMA BudgetStep ==
    ASSUME Gentle, TypeOK, TypeOK', DrawnKept, SerialInv, SettledInv, OnceInv,
           NEW P, Affords(P), BudgetKept(P), [Next]_vars
    PROVE  BudgetKept(P)'
<1> SUFFICES ASSUME NEW s \in Sessions, sessions'[s].live
             PROVE  sessions'[s].balance + Owed(s)' + (IF Rolling(s)' THEN P ELSE 0)
                      + Ahead(P)' <= MaxU64
  BY DEF BudgetKept
<1>1. ASSUME NEW p \in Procs, Step(p) \/ Request(p), ~ResetRows(p), ~ResetSessions(p)
      PROVE  sessions'[s].balance + Owed(s)' + (IF Rolling(s)' THEN P ELSE 0)
               + Ahead(P)' <= MaxU64
  <2>1. Moves(p) /\ Effects(p) /\ betCounter' >= betCounter
    BY <1>1, MovesEffects
  <2>2. CASE s = sid'[p]
    BY <2>1, <2>2, OwnBudget
  <2>3. CASE s # sid'[p]
    <3>1. /\ sessions'[s] = sessions[s]
          /\ Settled(s)' <=> Settled(s)
          /\ Rolling(s)' <=> Rolling(s)
      BY <2>1, <2>3, SettledFrame, RollingFrame DEF Moves, Alone
    <3>2. Owed(s)' = Owed(s)
      BY <3>1 DEF Owed
    <3>3. sessions[s].balance + Owed(s) + (IF Rolling(s) THEN P ELSE 0) + Ahead(P) <= MaxU64
      BY <3>1 DEF BudgetKept
    <3>4. /\ sessions[s].balance \in Nat /\ Owed(s) \in Nat
          /\ P \in Nat /\ MaxU64 \in Nat
      <4>1. sessions[s] \in SessionStates
        BY DEF TypeOK
      <4> QED
        BY <4>1, StoreAssumption
           DEF SessionStates, Balances, Rounds, Owed, Affords, StoreAssumption
    <3>5. Ahead(P) \in Nat /\ Ahead(P)' \in Nat /\ Ahead(P)' <= Ahead(P)
      BY <2>1, <3>4, AheadFalls
    <3> QED
      BY <3>1, <3>2, <3>3, <3>4, <3>5
  <2> QED
    BY <2>2, <2>3
<1>2. ASSUME NEW p \in Procs, ResetSessions(p) \/ ResetRows(p) PROVE FALSE
  <2>1. sessions'[s] = Absent
    BY <1>2 DEF ResetSessions, ResetRows, SerialInv, ResetEmpties
  <2> QED
    BY <2>1 DEF Absent
<1>3. ~Restart
  BY DEF Restart, Gentle, TypeOK
<1>4. CASE ForceEvent \/ UNCHANGED vars
  <2>1. /\ sessions' = sessions /\ betCounter' = betCounter /\ pc' = pc
        /\ after' = after /\ sid' = sid
    BY <1>4 DEF ForceEvent, vars, store, local
  <2>2. Owed(s)' = Owed(s) /\ (Rolling(s)' <=> Rolling(s)) /\ Ahead(P)' = Ahead(P)
    BY <2>1 DEF Owed, Settled, On, At, Rolling, Ahead
  <2> QED
    BY <2>1, <2>2 DEF BudgetKept
<1> QED
  BY <1>1, <1>2, <1>3, <1>4 DEF Next

LEMMA BudgetAlways ==
    ASSUME Gentle, NEW P, Affords(P)
    PROVE  Spec => []BudgetKept(P)
<1>1. Init => BudgetKept(P)
  BY DEF Init, BudgetKept, Absent
<1>2. /\ TypeOK /\ TypeOK' /\ DrawnKept /\ SerialInv /\ SettledInv /\ OnceInv
      /\ BudgetKept(P) /\ [Next]_vars
      => BudgetKept(P)'
  BY BudgetStep
<1>3. Spec => []SerialInv /\ []SettledInv
  BY SerialAlways, SettledAlways, PTL DEF Gentle
<1> QED
  BY <1>1, <1>2, <1>3, OnceAlways, TypeCorrect, PTL DEF Spec

\* A player sees a step of the thread on its session as a step of the ledger.
LEMMA OwnLedger ==
    ASSUME TypeOK, TypeOK', NEW P, Affords(P), BudgetKept(P),
           NEW p \in Procs, Moves(p), Effects(p), NEW s \in Sessions, s = sid'[p]
    PROVE  [Ledger(s)!Next]_(Ledger(s)!ledger)
<1> DEFINE cur == sessions[s]
           new == sessions'[s]
           balance == cur.balance + Staked(s)
           balanceNext == new.balance + Staked(s)'
<1>1. /\ cur \in SessionStates /\ cur.balance \in Nat /\ cur.round.payout \in Nat
      /\ new.balance \in Nat /\ new.round.payout \in Nat
      /\ MaxU64 \in Nat
  <2>1. cur \in SessionStates /\ new \in SessionStates
    BY DEF TypeOK
  <2> HIDE DEF cur, new
  <2> QED
    BY <2>1, StoreAssumption DEF SessionStates, Rounds, Balances, StoreAssumption
<1>2. /\ Owed(s)' = IF At(p)' \in Settling THEN 0 ELSE new.round.payout
      /\ Owed(s) = IF At(p) \in Settling THEN 0 ELSE cur.round.payout
  BY SettledFrame DEF Owed
<1>3. /\ Staked(s)' = IF At(p)' \in Staking THEN Cost[mode'[p]] ELSE 0
      /\ Staked(s) = IF At(p) \in Staking THEN Cost[mode[p]] ELSE 0
  BY StakedFrame
<1>4. mode[p] \in Modes /\ Cost[mode[p]] \in Nat
  BY WalletAssumption DEF TypeOK, WalletAssumption
<1>5. Staking \subseteq Settling /\ Staking \intersect Crediting = {}
  BY DEF Staking, Settling, Crediting
\* The variables and actions of the ledger of s.
<1>6. /\ new.live = cur.live /\ balanceNext = balance /\ Owed(s)' = Owed(s)
         => [Ledger(s)!Next]_(Ledger(s)!ledger)
      /\ /\ ~cur.live /\ new.live
         /\ balanceNext \in Openings \union {InitialBalance} /\ Owed(s)' = 0
         => Ledger(s)!Next
      /\ /\ cur.live /\ new.live
         /\ balanceNext = balance + Owed(s) /\ Owed(s)' = 0
         => Ledger(s)!Next
      /\ /\ cur.live /\ new.live /\ Owed(s) = 0
         /\ \E m \in Modes, e \in Events :
              /\ Cost[m] <= balance
              /\ balanceNext = balance - Cost[m]
              /\ Owed(s)' = Payout[e]
         => Ledger(s)!Next
  BY DEF Ledger!Next, Ledger!Open, Ledger!Settle, Ledger!Bet, Ledger!ledger, Owed
<1> HIDE DEF balance, balanceNext
<1>7. CASE Shows(p)
  <2>1. /\ new.live = cur.live /\ new.balance = cur.balance
        /\ Staked(s)' = Staked(s) /\ Owed(s)' = Owed(s)
    BY <1>2, <1>3, <1>7 DEF Shows
  <2>2. balanceNext = balance
    BY <2>1 DEF balance, balanceNext
  <2> QED
    BY <1>6, <2>1, <2>2
<1>8. CASE Opens(p)
  <2>1. /\ ~cur.live /\ new.live /\ new.balance \in Openings \union {InitialBalance}
        /\ new.round.payout = 0 /\ Staked(s)' = 0
    BY <1>3, <1>8 DEF Opens, NoRound, Staking
  <2>2. balanceNext = new.balance /\ Owed(s)' = 0
    BY <1>1, <1>2, <2>1 DEF balanceNext
  <2> QED
    BY <1>6, <2>1, <2>2
<1>9. CASE Pays(p)
  <2>1. /\ s = sid[p] /\ cur.live /\ new = AddWinnings(cur, cur.round.payout)
        /\ At(p) \in Crediting /\ At(p)' \in Settling
    BY <1>9 DEF Pays, Settling
  <2>2. At(p) \notin Settling /\ At(p) \notin Staking /\ At(p)' \notin Staking
    BY <1>9 DEF Pays, Crediting, Settling, Staking
  <2>3. Owed(s)' = 0 /\ Owed(s) = cur.round.payout /\ Staked(s)' = 0 /\ Staked(s) = 0
    BY <1>2, <1>3, <2>1, <2>2
  \* The balance has room for what is owed.
  <2>4. cur.balance + cur.round.payout <= MaxU64
    <3>1. cur.balance + Owed(s) + (IF Rolling(s) THEN P ELSE 0) + Ahead(P) <= MaxU64
      BY <2>1 DEF BudgetKept
    <3>2. P \in Nat /\ Ahead(P) \in Nat
      <4>1. P \in Nat /\ MaxBets \in Nat /\ betCounter \in Nat /\ betCounter <= MaxBets
        BY WalletAssumption DEF Affords, TypeOK, WalletAssumption
      <4> QED
        BY <4>1, AheadArithmetic DEF Ahead
    <3> HIDE DEF cur
    <3> QED
      BY <1>1, <2>3, <3>1, <3>2
  <2>5. new.live /\ new.balance = cur.balance + cur.round.payout
    <3>1. new.live = cur.live
      BY <1>1, <2>1, LiveKept
    <3>2. new.balance = IF cur.balance + cur.round.payout > MaxU64 THEN MaxU64
                        ELSE cur.balance + cur.round.payout
      BY <1>1, <2>1 DEF AddWinnings, SessionStates
    <3> HIDE DEF cur, new
    <3> QED
      BY <1>1, <2>1, <2>4, <3>1, <3>2
  <2>6. balanceNext = balance + Owed(s)
    BY <1>1, <2>3, <2>5 DEF balance, balanceNext
  <2> QED
    BY <1>6, <2>1, <2>3, <2>5, <2>6
<1>10. CASE Stakes(p)
  <2>1. /\ s = sid[p] /\ cur.live /\ new = Deduct(cur, Cost[mode[p]]) /\ mode'[p] = mode[p]
        /\ At(p)' \in Settling /\ At(p) \in Settling
        /\ At(p)' \in Staking /\ At(p) \notin Staking
    BY <1>10 DEF Stakes, Settling, Staking
  <2>2. new.live = cur.live /\ new.balance = cur.balance - Cost[mode[p]]
    BY <1>1, <2>1 DEF Deduct, SessionStates
  <2>3. Owed(s)' = Owed(s) /\ Staked(s)' = Cost[mode[p]] /\ Staked(s) = 0
    BY <1>2, <1>3, <2>1
  <2>4. balanceNext = balance
    BY <1>1, <1>4, <2>2, <2>3 DEF balance, balanceNext
  <2> QED
    BY <1>6, <2>2, <2>3, <2>4
<1>11. CASE Numbers(p)
  <2>1. /\ new = cur /\ mode'[p] = mode[p]
        /\ At(p)' \in Settling /\ At(p) \in Settling
        /\ At(p)' \in Staking /\ At(p) \in Staking
    BY <1>11 DEF Numbers, Settling, Staking
  <2>2. Owed(s)' = Owed(s) /\ Staked(s)' = Staked(s)
    BY <1>2, <1>3, <2>1
  <2>3. balanceNext = balance
    BY <2>1, <2>2 DEF balance, balanceNext
  <2> QED
    BY <1>6, <2>1, <2>2, <2>3
<1>12. CASE Rolls(p)
  <2>1. /\ s = sid[p] /\ cur.live
        /\ At(p)' \notin Settling /\ At(p) \in Settling
        /\ At(p)' \notin Staking /\ At(p) \in Staking
    BY <1>12 DEF Rolls, Settling, Staking, At
  <2>2. PICK e \in Events, id \in Nat :
          new = SetRound(cur, [id |-> id, payout |-> Payout[e]])
    BY <1>12, <2>1 DEF Rolls
  <2>3. /\ new.live = cur.live /\ new.balance = cur.balance
        /\ new.round.payout = Payout[e]
    BY <1>1, <2>2 DEF SetRound, SessionStates
  <2>4. /\ Owed(s)' = Payout[e] /\ Owed(s) = 0
        /\ Staked(s)' = 0 /\ Staked(s) = Cost[mode[p]]
    BY <1>2, <1>3, <2>1, <2>3
  <2>5. Cost[mode[p]] <= balance /\ balanceNext = balance - Cost[mode[p]]
    BY <1>1, <1>4, <2>3, <2>4 DEF balance, balanceNext
  <2> QED
    BY <1>4, <1>6, <2>1, <2>3, <2>4, <2>5
<1>13. CASE Clears(p)
  <2>1. /\ s = sid[p] /\ new = SetRound(cur, NoRound)
        /\ At(p)' \notin Settling /\ At(p) \in Settling
        /\ At(p)' \notin Staking /\ At(p) \notin Staking
    BY <1>13 DEF Clears, Settling, Staking
  <2>2. new.round = NoRound /\ new.live = cur.live /\ new.balance = cur.balance
    BY <1>1, <2>1 DEF SetRound, SessionStates
  <2>3. NoRound.payout = 0
    BY DEF NoRound
  <2>4. Owed(s)' = Owed(s) /\ Staked(s)' = Staked(s)
    BY <1>2, <1>3, <2>1, <2>2, <2>3
  <2>5. balanceNext = balance
    BY <2>2, <2>4 DEF balance, balanceNext
  <2> QED
    BY <1>6, <2>2, <2>4, <2>5
<1> QED
  BY <1>7, <1>8, <1>9, <1>10, <1>11, <1>12, <1>13 DEF Effects

\* A reset closes every session, and the second half of it shows nothing.
LEMMA ResetLedger ==
    ASSUME Gentle, TypeOK, SerialInv, NEW p \in Procs, ResetSessions(p) \/ ResetRows(p),
           NEW s \in Sessions
    PROVE  [Ledger(s)!Next]_(Ledger(s)!ledger)
<1>1. \A q \in Procs : pc'[q] \in {"idle", "reset_rows"}
  BY DEF ResetSessions, ResetRows, Goto, Idle, TypeOK, SerialInv, Exclusive, Gentle
<1>2. \A q \in Procs : At(q)' \in {"idle", "reset_rows"}
  BY <1>1 DEF At
<1>3. Staked(s)' = 0
  BY <1>2 DEF Staked, On
<1>4. sessions'[s] = Absent
  BY DEF ResetSessions, ResetRows, SerialInv, ResetEmpties
<1>5. (IF Settled(s) THEN 0 ELSE sessions[s].round.payout)' = 0
  BY <1>4 DEF Absent, NoRound
<1>6. Ledger(s)!Close
  BY <1>3, <1>4, <1>5 DEF Ledger!Close, Absent
<1> QED
  BY <1>6 DEF Ledger!Next

LEMMA LedgerStep ==
    ASSUME Gentle, TypeOK, TypeOK', DrawnKept, SerialInv, SettledInv, OnceInv,
           NEW P, Affords(P), BudgetKept(P), [Next]_vars, NEW s \in Sessions
    PROVE  [Ledger(s)!Next]_(Ledger(s)!ledger)
<1>1. ASSUME NEW p \in Procs, Step(p) \/ Request(p), ~ResetRows(p), ~ResetSessions(p)
      PROVE  [Ledger(s)!Next]_(Ledger(s)!ledger)
  <2>1. Moves(p) /\ Effects(p)
    BY <1>1, MovesEffects
  <2>2. CASE s = sid'[p]
    BY <2>1, <2>2, OwnLedger
  <2>3. CASE s # sid'[p]
    <3>1. /\ sessions'[s] = sessions[s] /\ Staked(s)' = Staked(s)
          /\ Settled(s)' <=> Settled(s)
      BY <2>1, <2>3, SettledFrame, StakedFrame DEF Moves, Alone
    <3> QED
      BY <3>1 DEF Ledger!ledger
  <2> QED
    BY <2>2, <2>3
<1>2. CASE ForceEvent \/ UNCHANGED vars
  <2>1. /\ sessions' = sessions /\ pc' = pc /\ after' = after /\ sid' = sid /\ mode' = mode
    BY <1>2 DEF ForceEvent, vars, store, local
  <2>2. Staked(s)' = Staked(s) /\ (Settled(s)' <=> Settled(s))
    BY <2>1 DEF Staked, Settled, On, At
  <2> QED
    BY <2>1, <2>2 DEF Ledger!ledger
<1>3. ~Restart
  BY DEF Restart, Gentle, TypeOK
<1> QED
  BY <1>1, <1>2, <1>3, ResetLedger DEF Next

\* Every player sees the contract the handlers' comments state, WalletLedger:
\* a bet leaves the balance at once, what the round won is owed, and it is
\* paid exactly once, when the round ends or before the next bet replaces it;
\* although the handlers take a round apart into store calls with every other
\* player's requests, resets and forced events in between (routes.rs, play and
\* end_round).  Assumed: clients that wait for replies and stake what they
\* have, no failing play, no restart, and amounts that stay below 2^64.
THEOREM PlayersSeeTheLedger ==
    ASSUME Gentle, NEW P, Affords(P)
    PROVE  Spec => KeepsLedger
<1>1. Init => \A s \in Sessions : Ledger(s)!Init
  <2> SUFFICES ASSUME Init, NEW s \in Sessions PROVE Ledger(s)!Init
    OBVIOUS
  <2>1. sessions[s] = Absent /\ Staked(s) = 0
    BY DEF Init, Staked, On, At
  <2> QED
    BY <2>1 DEF Ledger!Init, Absent, NoRound
<1>2. /\ TypeOK /\ TypeOK' /\ DrawnKept /\ SerialInv /\ SettledInv /\ OnceInv
      /\ BudgetKept(P) /\ [Next]_vars
      => [\A s \in Sessions : [Ledger(s)!Next]_(Ledger(s)!ledger)]_vars
  BY LedgerStep
<1>3. Spec => []SerialInv /\ []SettledInv
  BY SerialAlways, SettledAlways, PTL DEF Gentle
<1> QED
  BY <1>1, <1>2, <1>3, OnceAlways, BudgetAlways, TypeCorrect, PTL DEF Spec, KeepsLedger

=============================================================================
