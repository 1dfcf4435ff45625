---------------------------- MODULE SessionStore ----------------------------
(***************************************************************************)
(* The data of the wallet of the local game server: a session, the round   *)
(* it may hold, and what each method of SessionStore                       *)
(* (crates/lgs/src/session.rs) makes of them.  RgsWallet says when.        *)
(*                                                                         *)
(* Abstracted: the game, language, currency and creation time of a session *)
(* (no method reads them back into the wallet), the JSON of a round, and   *)
(* the bet amount of a history entry.                                      *)
(***************************************************************************)
EXTENDS Integers, Sequences

CONSTANTS
    Sessions,        \* session ids
    Events,          \* ids of the simulated rounds a spin can draw
    Payout,          \* what the round drawn for an event pays
    HistoryCap,      \* HISTORY_CAP
    MaxU64,          \* the largest balance in memory
    MaxI64           \* the largest balance a row of SQLite holds

ASSUME StoreAssumption ==
    /\ Payout \in [Events -> Nat]
    /\ HistoryCap \in Nat \ {0}
    /\ MaxU64 \in Nat /\ MaxI64 \in Nat /\ MaxI64 <= MaxU64
    /\ "none" \notin Events

-----------------------------------------------------------------------------

Balances == 0 .. MaxU64

\* Bet ids start at 1, so the round with id 0 stands for `active_round: None`.
NoRound == [id |-> 0, payout |-> 0]

Rounds == [id : Nat, payout : Nat]

\* "none" is the event of a session that has not been played.
Entries == [event : Events, forced : BOOLEAN]

SessionStates ==
    [live    : BOOLEAN,
     balance : Balances,
     round   : Rounds,
     last    : Events \union {"none"},
     history : Seq(Entries)]

\* No entry in the map (or no row in the table) for an id.
Absent ==
    [live |-> FALSE, balance |-> 0, round |-> NoRound,
     last |-> "none", history |-> << >>]

\* SessionStore::upsert
Fresh(balance) ==
    [live |-> TRUE, balance |-> balance, round |-> NoRound,
     last |-> "none", history |-> << >>]

\* SessionStore::deduct_bet, when the balance covers the amount
Deduct(s, amount) == [s EXCEPT !.balance = @ - amount]

\* SessionStore::add_winnings: u64::saturating_add
AddWinnings(s, amount) ==
    [s EXCEPT !.balance = IF @ + amount > MaxU64 THEN MaxU64 ELSE @ + amount]

\* SessionStore::set_active_round
SetRound(s, r) == [s EXCEPT !.round = r]

\* SessionStore::set_last_event
SetLast(s, e) == [s EXCEPT !.last = e]

\* Mutant of Capped: truncation drops the newest entry instead of the oldest.
CappedOldest(h) == IF Len(h) > HistoryCap THEN SubSeq(h, 2, HistoryCap + 1) ELSE h

\* Vec::insert(0, ..) followed by Vec::truncate(HISTORY_CAP)
Capped(h) == IF Len(h) > HistoryCap THEN SubSeq(h, 1, HistoryCap) ELSE h

\* SessionStore::push_event
PushEvent(s, entry) == [s EXCEPT !.history = Capped(<<entry>> \o @)]

\* SessionDb::save_session then session_from_row: u64_to_i64 clamps
Stored(s) == [s EXCEPT !.balance = IF @ > MaxI64 THEN MaxI64 ELSE @]

\* Mutant of IsCounterOf: the counter restarts from zero.
IsCounterZero(n, rows) == n = 0

\* SessionStore::from_storage: the counter restarts from the rounds still
\* active in the rows.
IsCounterOf(n, rows) ==
    /\ n = 0 \/ \E s \in Sessions : n = rows[s].round.id
    /\ \A s \in Sessions : rows[s].round.id <= n

=============================================================================
