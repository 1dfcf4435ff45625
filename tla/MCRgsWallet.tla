----------------------------- MODULE MCRgsWallet -----------------------------
(* Small instances of RgsWallet: two threads, one or two sessions, a base    *)
(* mode and an expensive one, a losing event and a winning one.              *)
EXTENDS RgsWallet, TLC

MCModes == {"base", "bonus"}
MCCost == [m \in MCModes |-> IF m = "base" THEN 1 ELSE 2]
MCEvents == {"lose", "win"}
MCPayout == [e \in MCEvents |-> IF e = "win" THEN 1 ELSE 0]

\* A base mode and one winning event, for the runs about overlapping requests.
OneMode == {"base"}
OneCost == [m \in OneMode |-> 1]
OneEvent == {"win"}
OnePayout == [e \in OneEvent |-> 1]

\* The session and the mode of a thread's last request are left over once it
\* is done with them: states that only differ there are the same state.
Playing == {"play_credit", "play_deduct", "play_draw", "play_last", "play_push",
            "play_id", "play_round"}

LiveState ==
    <<store, pc, after, seen, drawn, bet, clone, history,
      [p \in Procs |-> IF pc[p] \in {"idle", "reset_rows"} THEN "none" ELSE sid[p]],
      [p \in Procs |-> IF At(p) \in Playing THEN mode[p] ELSE "none"]>>

\* Threads and players are interchangeable.
Symmetry == Permutations(Procs) \union Permutations(Sessions)

=============================================================================
