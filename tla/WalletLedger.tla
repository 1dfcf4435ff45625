---------------------------- MODULE WalletLedger ----------------------------
(***************************************************************************)
(* What the wallet promises one player: the RGS contract as the handlers'  *)
(* comments state it (crates/lgs/src/routes.rs).  A bet leaves the balance *)
(* at once, what the round won is owed to the player, and it is paid       *)
(* exactly once: when the round ends, or before the next bet replaces it.  *)
(***************************************************************************)
EXTENDS Integers

CONSTANTS
    Stakes,      \* what a bet may cost
    Wins,        \* what a round may pay
    Openings     \* balances a session may start with

VARIABLES
    open,        \* the session exists
    balance,     \* the money the player can spend
    owed         \* what the player's active round will pay

ledger == <<open, balance, owed>>

Init == open = FALSE /\ balance = 0 /\ owed = 0

Open ==
    /\ ~open
    /\ open' = TRUE
    /\ balance' \in Openings
    /\ owed' = 0

\* A bet replaces the round before it, which must have been paid.
Bet ==
    /\ open /\ owed = 0
    /\ \E stake \in Stakes, win \in Wins :
         /\ stake <= balance
         /\ balance' = balance - stake
         /\ owed' = win
    /\ UNCHANGED open

Settle ==
    /\ open
    /\ balance' = balance + owed
    /\ owed' = 0
    /\ UNCHANGED open

\* The developer wipes the stored sessions.
Close == open' = FALSE /\ balance' = 0 /\ owed' = 0

Next == Open \/ Bet \/ Settle \/ Close

Spec == Init /\ [][Next]_ledger

=============================================================================
