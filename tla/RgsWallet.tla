------------------------------ MODULE RgsWallet ------------------------------
(***************************************************************************)
(* The wallet endpoints of the local game server over one SessionStore:    *)
(* crates/lgs/src/routes.rs, devtool.rs and session.rs.                    *)
(*                                                                         *)
(* Handlers run on a pool of threads.  A call on the store is atomic on    *)
(* the session it touches (the DashMap entry), but a handler makes several *)
(* of them, and each one takes a clone under the entry's lock and saves it *)
(* to SQLite after the lock is gone.  So every store call is an action of  *)
(* its own, followed by a Save action.                                     *)
(***************************************************************************)
EXTENDS SessionStore

CONSTANTS
    Procs,           \* threads that run handlers
    Modes,           \* bet modes
    Cost,            \* GameMode::total_bet of the player's stake, by mode
    InitialBalance,  \* config::INITIAL_BALANCE
    Openings,        \* balances a prepared session may ask for
    Requests,        \* the endpoints the clients call
    Serial,          \* a client waits for a reply before its next request
    Careful,         \* a client only stakes what its balance covers
    Faults,          \* the math engine may fail to produce a round
    MaxBets,         \* bound: rounds issued
    MaxRestarts      \* bound: restarts of the server

ASSUME WalletAssumption ==
    /\ Cost \in [Modes -> Nat]
    /\ InitialBalance \in Balances
    /\ Openings \subseteq Balances
    /\ Serial \in BOOLEAN /\ Careful \in BOOLEAN /\ Faults \in BOOLEAN
    /\ MaxBets \in Nat /\ MaxRestarts \in Nat
    /\ "none" \notin Modes

VARIABLES
    sessions,     \* SessionStore.sessions: DashMap<String, Session>
    rows,         \* the sessions table
    betCounter,   \* SessionStore.bet_counter
    forced,       \* AppState.forced_event
    pc,           \* the handler step each thread is at
    after,        \* where a thread goes on once its clone is saved
    sid,          \* the session of a thread's request
    mode,         \* the mode of a thread's /play
    seen,         \* the active round a thread read with `get`
    drawn,        \* the event a thread's /play drew
    bet,          \* the bet id a thread's /play took
    clone,        \* the session a thread is about to save
    restarts,     \* restarts so far
    credits       \* history: how often a bet id was paid (2: more than once)

store   == <<sessions, rows, betCounter, forced>>
local   == <<after, sid, mode, seen, drawn, bet, clone>>
history == <<restarts, credits>>
vars    == <<store, pc, local, history>>

Free == [mode |-> "none", event |-> "none"]

Steps == {"idle", "save", "auth_create", "prepare_upsert",
          "play_credit", "play_deduct", "play_draw", "play_last", "play_push",
          "play_id", "play_round", "end_credit", "end_clear", "reset_rows"}

\* What a handler does next when a store call has been saved.
Continuations == {"idle", "play_deduct", "play_draw", "play_push", "play_id",
                  "end_clear"}

Init ==
    /\ sessions = [s \in Sessions |-> Absent]
    /\ rows = [s \in Sessions |-> Absent]
    /\ betCounter = 0
    /\ forced = Free
    /\ pc = [p \in Procs |-> "idle"]
    /\ after = [p \in Procs |-> "idle"]
    /\ sid \in [Procs -> Sessions]
    /\ mode \in [Procs -> Modes]
    /\ seen = [p \in Procs |-> NoRound]
    /\ drawn = [p \in Procs |-> "none"]
    /\ bet = [p \in Procs |-> 0]
    /\ clone = [p \in Procs |-> Absent]
    /\ restarts = 0
    /\ credits = [i \in 1 .. MaxBets |-> 0]

-----------------------------------------------------------------------------
(* Steps the handlers are made of. *)

Goto(p, step) == pc' = [pc EXCEPT ![p] = step]

Idle(p) == pc[p] = "idle"

\* A thread takes a request for session s.
Take(p, s, request) ==
    /\ request \in Requests
    /\ Idle(p)
    /\ Serial => \A q \in Procs : pc[q] = "reset_rows" \/ sid[q] = s => Idle(q)
    /\ sid' = [sid EXCEPT ![p] = s]

\* Change the entry of the map, clone it, and go and save the clone.
Put(p, s, session, next) ==
    /\ sessions' = [sessions EXCEPT ![s] = session]
    /\ clone' = [clone EXCEPT ![p] = session]
    /\ after' = [after EXCEPT ![p] = next]
    /\ Goto(p, "save")

\* `get_mut(session_id)?`: the store call does nothing if a reset removed it.
Update(p, session, next) ==
    IF sessions[sid[p]].live
    THEN Put(p, sid[p], session, next)
    ELSE Goto(p, next) /\ UNCHANGED <<sessions, clone, after>>

\* SessionStore::persist_session and SessionDb::save_session
Save(p) ==
    /\ pc[p] = "save"
    /\ rows' = [rows EXCEPT ![sid[p]] = Stored(clone[p])]
    /\ Goto(p, after[p])
    /\ clone' = [clone EXCEPT ![p] = Absent]
    /\ after' = [after EXCEPT ![p] = "idle"]
    /\ UNCHANGED <<sessions, betCounter, forced, sid, mode, seen, drawn, bet,
                   history>>

\* add_winnings of the round the thread has read
Credit(p, next) ==
    /\ Update(p, AddWinnings(sessions[sid[p]], seen[p].payout), next)
    /\ credits' = IF sessions[sid[p]].live
                  THEN [credits EXCEPT ![seen[p].id] = IF @ < 2 THEN @ + 1 ELSE @]
                  ELSE credits
    /\ seen' = [seen EXCEPT ![p] = NoRound]
    /\ UNCHANGED <<rows, betCounter, forced, sid, mode, drawn, bet, restarts>>

-----------------------------------------------------------------------------
(* POST wallet/authenticate: get_or_create looks, then creates. *)

Authenticate(p, s) ==
    /\ Take(p, s, "authenticate")
    /\ ~sessions[s].live
    /\ Goto(p, "auth_create")
    /\ UNCHANGED <<store, after, mode, seen, drawn, bet, clone, history>>

AuthenticateCreate(p) ==
    /\ pc[p] = "auth_create"
    /\ Put(p, sid[p], Fresh(InitialBalance), "idle")
    /\ UNCHANGED <<rows, betCounter, forced, sid, mode, seen, drawn, bet,
                   history>>

(* POST devtool/sessions/prepare: an existing session keeps its wallet. *)

PrepareExisting(p, s) ==
    /\ Take(p, s, "prepare")
    /\ sessions[s].live
    /\ Put(p, s, sessions[s], "idle")
    /\ UNCHANGED <<rows, betCounter, forced, mode, seen, drawn, bet, history>>

PrepareMissing(p, s) ==
    /\ Take(p, s, "prepare")
    /\ ~sessions[s].live
    /\ Goto(p, "prepare_upsert")
    /\ UNCHANGED <<store, after, mode, seen, drawn, bet, clone, history>>

PrepareUpsert(p) ==
    /\ pc[p] = "prepare_upsert"
    /\ \E balance \in Openings \union {InitialBalance} :
         Put(p, sid[p], Fresh(balance), "idle")
    /\ UNCHANGED <<rows, betCounter, forced, sid, mode, seen, drawn, bet,
                   history>>

-----------------------------------------------------------------------------
(* POST wallet/play *)

\* `Some(round) if round.payout > 0`: the round the handler will pay
Pending(session) == IF session.round.payout > 0 THEN session.round ELSE NoRound

\* Mutant of Play: the round that is still active is not looked at.
PlayIgnoringRound(p, s) ==
    /\ Take(p, s, "play")
    /\ sessions[s].live
    /\ \E m \in Modes :
         /\ Careful => Cost[m] <= sessions[s].balance
         /\ mode' = [mode EXCEPT ![p] = m]
    /\ seen' = [seen EXCEPT ![p] = NoRound]
    /\ Goto(p, "play_deduct")
    /\ UNCHANGED <<store, after, drawn, bet, clone, history>>

Play(p, s) ==
    /\ Take(p, s, "play")
    /\ sessions[s].live
    /\ \E m \in Modes :
         /\ Careful => Cost[m] <= sessions[s].balance
         /\ mode' = [mode EXCEPT ![p] = m]
    /\ seen' = [seen EXCEPT ![p] = Pending(sessions[s])]
    /\ Goto(p, IF sessions[s].round.payout > 0 THEN "play_credit" ELSE "play_deduct")
    /\ UNCHANGED <<store, after, drawn, bet, clone, history>>

\* A previous round is still active: pay it before it is overwritten.
PlayCredit(p) ==
    /\ pc[p] = "play_credit"
    /\ Credit(p, "play_deduct")

\* Mutant of PlayDeduct: the balance is not compared under the lock.
PlayDeductUnchecked(p) ==
    /\ pc[p] = "play_deduct"
    /\ sessions[sid[p]].live
    /\ Put(p, sid[p], Deduct(sessions[sid[p]], Cost[mode[p]]), "play_draw")
    /\ UNCHANGED <<rows, betCounter, forced, sid, mode, seen, drawn, bet,
                   history>>

\* deduct_bet: compares and subtracts under the entry's lock
PlayDeduct(p) ==
    /\ pc[p] = "play_deduct"
    /\ sessions[sid[p]].live /\ Cost[mode[p]] <= sessions[sid[p]].balance
    /\ Put(p, sid[p], Deduct(sessions[sid[p]], Cost[mode[p]]), "play_draw")
    /\ UNCHANGED <<rows, betCounter, forced, sid, mode, seen, drawn, bet,
                   history>>

PlayInsufficientBalance(p) ==
    /\ pc[p] = "play_deduct"
    /\ ~(sessions[sid[p]].live /\ Cost[mode[p]] <= sessions[sid[p]].balance)
    /\ Goto(p, "idle")
    /\ UNCHANGED <<store, local, history>>

\* play_forced when an event is forced for the mode, play_spin otherwise
PlayDraw(p) ==
    /\ pc[p] = "play_draw"
    /\ \E e \in Events :
         /\ forced.mode = mode[p] => e = forced.event
         /\ drawn' = [drawn EXCEPT ![p] = e]
    /\ Goto(p, "play_last")
    /\ UNCHANGED <<store, after, sid, mode, seen, bet, clone, history>>

\* total_bet_cost fails before the deduction, play_spin or play_forced after it
PlayEngineFails(p) ==
    /\ Faults
    /\ pc[p] \in {"play_deduct", "play_draw"}
    /\ Goto(p, "idle")
    /\ UNCHANGED <<store, local, history>>

PlayLast(p) ==
    /\ pc[p] = "play_last"
    /\ Update(p, SetLast(sessions[sid[p]], drawn[p]), "play_push")
    /\ UNCHANGED <<rows, betCounter, forced, sid, mode, seen, drawn, bet,
                   history>>

\* The forced flag of the history entry is read again, after the draw.
PlayPush(p) ==
    /\ pc[p] = "play_push"
    /\ Update(p, PushEvent(sessions[sid[p]],
                           [event |-> drawn[p], forced |-> forced.mode = mode[p]]),
              "play_id")
    /\ UNCHANGED <<rows, betCounter, forced, sid, mode, seen, drawn, bet,
                   history>>

PlayBetId(p) ==
    /\ pc[p] = "play_id"
    /\ betCounter < MaxBets
    /\ betCounter' = betCounter + 1
    /\ bet' = [bet EXCEPT ![p] = betCounter + 1]
    /\ Goto(p, "play_round")
    /\ UNCHANGED <<sessions, rows, forced, after, sid, mode, seen, drawn, clone,
                   history>>

\* Mutant of PlayRound: the payout is added at once, and again at the end.
PlayRoundPaying(p) ==
    /\ pc[p] = "play_round"
    /\ Update(p, AddWinnings(SetRound(sessions[sid[p]],
                                     [id |-> bet[p], payout |-> Payout[drawn[p]]]),
                             Payout[drawn[p]]), "idle")
    /\ drawn' = [drawn EXCEPT ![p] = "none"]
    /\ bet' = [bet EXCEPT ![p] = 0]
    /\ UNCHANGED <<rows, betCounter, forced, sid, mode, seen, history>>

PlayRound(p) ==
    /\ pc[p] = "play_round"
    /\ Update(p, SetRound(sessions[sid[p]],
                          [id |-> bet[p], payout |-> Payout[drawn[p]]]), "idle")
    /\ drawn' = [drawn EXCEPT ![p] = "none"]
    /\ bet' = [bet EXCEPT ![p] = 0]
    /\ UNCHANGED <<rows, betCounter, forced, sid, mode, seen, history>>

-----------------------------------------------------------------------------
(* POST wallet/end-round *)

EndRound(p, s) ==
    /\ Take(p, s, "end_round")
    /\ sessions[s].live
    /\ seen' = [seen EXCEPT ![p] = Pending(sessions[s])]
    /\ Goto(p, IF sessions[s].round.payout > 0 THEN "end_credit" ELSE "end_clear")
    /\ UNCHANGED <<store, after, mode, drawn, bet, clone, history>>

EndCredit(p) ==
    /\ pc[p] = "end_credit"
    /\ Credit(p, "end_clear")

\* Mutant of EndClear: the round stays in the slot.
EndWithoutClear(p) ==
    /\ pc[p] = "end_clear"
    /\ Goto(p, "idle")
    /\ UNCHANGED <<store, local, history>>

\* Mutant of EndClear: the cleared slot is not saved.
EndClearUnsaved(p) ==
    /\ pc[p] = "end_clear"
    /\ sessions' = [sessions EXCEPT ![sid[p]] = SetRound(@, NoRound)]
    /\ Goto(p, "idle")
    /\ UNCHANGED <<rows, betCounter, forced, local, history>>

EndClear(p) ==
    /\ pc[p] = "end_clear"
    /\ Update(p, SetRound(sessions[sid[p]], NoRound), "idle")
    /\ UNCHANGED <<rows, betCounter, forced, sid, mode, seen, drawn, bet,
                   history>>

-----------------------------------------------------------------------------
(* DELETE devtool/sessions: reset_all clears the map, then the table. *)

ResetSessions(p) ==
    /\ "reset" \in Requests
    /\ Idle(p)
    /\ Serial => \A q \in Procs : Idle(q)
    /\ sessions' = [s \in Sessions |-> Absent]
    /\ Goto(p, "reset_rows")
    /\ UNCHANGED <<rows, betCounter, forced, local, history>>

ResetRows(p) ==
    /\ pc[p] = "reset_rows"
    /\ rows' = [s \in Sessions |-> Absent]
    /\ Goto(p, "idle")
    /\ UNCHANGED <<sessions, betCounter, forced, local, history>>

(* POST and DELETE devtool/force-event *)

ForceEvent ==
    /\ "force" \in Requests
    /\ forced' \in [mode : Modes, event : Events] \union {Free}
    /\ UNCHANGED <<sessions, rows, betCounter, pc, local, history>>

(* The server stops at any point and starts again: from_storage. *)

Restart ==
    /\ restarts < MaxRestarts
    /\ restarts' = restarts + 1
    /\ sessions' = rows
    /\ betCounter' \in 0 .. MaxBets /\ IsCounterOf(betCounter', rows)
    /\ forced' = Free
    /\ pc' = [p \in Procs |-> "idle"]
    /\ after' = [p \in Procs |-> "idle"]
    /\ clone' = [p \in Procs |-> Absent]
    /\ seen' = [p \in Procs |-> NoRound]
    /\ drawn' = [p \in Procs |-> "none"]
    /\ bet' = [p \in Procs |-> 0]
    /\ credits' = [i \in 1 .. MaxBets |-> IF i > betCounter' THEN 0 ELSE credits[i]]
    /\ UNCHANGED <<rows, sid, mode>>

-----------------------------------------------------------------------------

Step(p) ==
    \/ Save(p)
    \/ AuthenticateCreate(p) \/ PrepareUpsert(p)
    \/ PlayCredit(p) \/ PlayDeduct(p) \/ PlayInsufficientBalance(p)
    \/ PlayDraw(p) \/ PlayEngineFails(p) \/ PlayLast(p) \/ PlayPush(p)
    \/ PlayBetId(p) \/ PlayRound(p)
    \/ EndCredit(p) \/ EndClear(p)
    \/ ResetRows(p)

Request(p) ==
    \/ \E s \in Sessions :
         \/ Authenticate(p, s) \/ PrepareExisting(p, s) \/ PrepareMissing(p, s)
         \/ Play(p, s) \/ EndRound(p, s)
    \/ ResetSessions(p)

Next ==
    \/ \E p \in Procs : Step(p) \/ Request(p)
    \/ ForceEvent
    \/ Restart

Spec == Init /\ [][Next]_vars

-----------------------------------------------------------------------------
(* Properties. *)

\* The handler step a thread is at, or will be at once its clone is saved.
At(p) == IF pc[p] = "save" THEN after[p] ELSE pc[p]

\* The type of every variable.  A balance that went below zero would show
\* here: the subtraction of deduct_bet is on a u64.
TypeOK ==
    /\ sessions \in [Sessions -> SessionStates]
    /\ rows \in [Sessions -> SessionStates]
    /\ betCounter \in 0 .. MaxBets
    /\ forced \in [mode : Modes, event : Events] \union {Free}
    /\ pc \in [Procs -> Steps]
    /\ after \in [Procs -> Continuations]
    /\ sid \in [Procs -> Sessions]
    /\ mode \in [Procs -> Modes]
    /\ seen \in [Procs -> Rounds]
    /\ drawn \in [Procs -> Events \union {"none"}]
    /\ bet \in [Procs -> Nat]
    /\ clone \in [Procs -> SessionStates]
    /\ restarts \in 0 .. MaxRestarts
    /\ credits \in [1 .. MaxBets -> 0 .. 2]

\* What makes TypeOK inductive: a /play that has drawn still has its event.
DrawnKept ==
    \A p \in Procs :
        At(p) \in {"play_last", "play_push", "play_id", "play_round"}
            => drawn[p] \in Events

\* The bet ids a session can show now, after the saves under way, or after a
\* restart: its round in memory, its row, and what its requests carry.
BetIdsOf(s) ==
    {sessions[s].round.id, rows[s].round.id}
        \union {clone[p].round.id : p \in {q \in Procs : sid[q] = s}}
        \union {bet[p] : p \in {q \in Procs : sid[q] = s /\ pc[q] = "play_round"}}

\* next_bet_id and from_storage together: no two sessions ever hold a round
\* with the same bet id, whatever is overwritten, saved late or lost in a
\* crash (0 is no round).
BetIdsDistinct ==
    \A s, t \in Sessions : s # t => BetIdsOf(s) \intersect BetIdsOf(t) \subseteq {0}

\* "/end-round credits the payout", and /play credits it before it replaces
\* the round: no round is ever paid twice.
PaidOnce == \A i \in 1 .. MaxBets : credits[i] <= 1

\* ... and none is dropped unpaid: a winning round leaves the slot of a
\* session that lives on only after its payout was added to the balance.
NoUnpaidRoundDropped ==
    [][\A p \in Procs, s \in Sessions :
         /\ PlayRound(p) \/ EndClear(p)
         /\ sessions[s].round.payout > 0
         /\ sessions'[s].round # sessions[s].round
         => credits[sessions[s].round.id] > 0]_vars

\* What makes BetIdsDistinct inductive: every id in sight has been issued, and
\* a thread carries a clone only while it is saving it.
BetIdsIssued == \A s \in Sessions : \A i \in BetIdsOf(s) : i <= betCounter

CloneWhileSaving == \A p \in Procs : pc[p] # "save" => clone[p] = Absent

\* No request on session s is under way.
Quiet(s) == \A p \in Procs : pc[p] = "reset_rows" \/ sid[p] = s => Idle(p)

\* "A restart resumes the active round, balance, and event history": between
\* requests the row of a session is the session.
RowsCurrent ==
    \A s \in Sessions : Quiet(s) => rows[s] = Stored(sessions[s])

\* The last event the test view shows is the newest entry of the history.
LastIsNewest ==
    \A s \in Sessions : Quiet(s) =>
        IF sessions[s].history = << >>
        THEN sessions[s].last = "none"
        ELSE sessions[s].last = sessions[s].history[1].event

\* Between requests the row of a session is the session, and the last event is
\* the newest entry of its history.
HistoryCurrent == RowsCurrent /\ LastIsNewest

-----------------------------------------------------------------------------
(* The contract each player sees: WalletLedger, one session at a time.     *)
(* A stake leaves the contract's balance when the round that it bought     *)
(* takes the slot, and a round is settled when its payout is added.        *)

On(s) == {p \in Procs : sid[p] = s}

\* The stakes of plays under way on s that have been deducted.
Staked(s) ==
    LET bought == {p \in On(s) : At(p) \in {"play_draw", "play_last", "play_push",
                                            "play_id", "play_round"}}
    IN  IF bought = {} THEN 0 ELSE Cost[mode[CHOOSE p \in bought : TRUE]]

\* A request under way on s has paid the round it found.
Settled(s) ==
    \E p \in On(s) : At(p) \in {"play_deduct", "play_draw", "play_last", "play_push",
                                "play_id", "play_round", "end_clear"}

Ledger(s) == INSTANCE WalletLedger WITH
    Stakes   <- {Cost[m] : m \in Modes},
    Wins     <- {Payout[e] : e \in Events},
    Openings <- Openings \union {InitialBalance},
    open     <- sessions[s].live,
    balance  <- sessions[s].balance + Staked(s),
    owed     <- IF Settled(s) THEN 0 ELSE sessions[s].round.payout

\* Players whose clients wait for replies and stake what they have see the
\* contract, on every session, while other players' requests interleave.
KeepsLedger ==
    /\ \A s \in Sessions : Ledger(s)!Init
    /\ [][\A s \in Sessions : [Ledger(s)!Next]_(Ledger(s)!ledger)]_vars

=============================================================================
