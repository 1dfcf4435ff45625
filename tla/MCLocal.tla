-------------------------------- MODULE MCLocal --------------------------------
(* Small instances of what runs on the developer's machine, one chosen by the
   initial value of `part`:
     sync       two apps' calls on the workspace's documents (for CallsEnd)
     settings, rounds, profiles, cache   one local file, tasks of two processes
     stream     two workspaces, events of one kind, no connection lost
     reconnect  one workspace, two events, a lost connection
     cli, front, desktop   this client's pushes and pulls
     shell      start, stop and certificates, two commands at a time
     cloud, github   the sign-in dialog and `sdt login`
     open, crash, sealed   two opens of one books file: with edits, with a
                crash, in a folder that cannot be written
     records    every books file of seven tokens
     tables     every lookup table of three rows, every index of ids
   Every module keeps its variables, which rest in the other parts; only the
   documents and the tables take the slots v1..v16, in the order
   they are declared, and the slots a part does not use stay 0.  pc has a slot
   of its own, since a liveness formula reads it in every part. *)
EXTENDS MathTransfer, AppShell, DeviceLogin, LocalFiles, Sidecars, LiveStream, BooksIndex, TLC

CONSTANTS a1, a2

VARIABLES part, pc,
          v1, v2, v3, v4, v5, v6, v7, v8, v9, v10, v11, v12, v13, v14, v15, v16

slots == <<v1, v2, v3, v4, v5, v6, v7, v8, v9, v10, v11, v12, v13, v14, v15, v16>>
vars == <<part, pc, slots, transferVars, shellVars, loginVars, localVars, sidecarVars, liveVars, indexVars>>

Apps == {a1, a2}

\* What a colleague pushes.
Everything == {[f \in Files |-> "b"]}

\* Two tasks of the app, one of the local game server.
ProcessOf == [a |-> "app", b |-> "app", c |-> "lgs"]

\* Every version of the books has its own size.
OwnSize == [v \in 1..2 |-> v]

ThroughGithub == INSTANCE DeviceLogin WITH Via <- "github"
Sealed == INSTANCE Sidecars WITH ReadOnly <- TRUE

Sync == INSTANCE DocumentSync WITH
  Docs <- {"d1", "d2"}, Values <- {"x", "y"}, Imported <- ("d1" :> "x"), MaxCalls <- 2,
  MaxEdits <- 1, Flaky <- {a1, a2},
  rows <- v1, locks <- v2, counter <- v3, req <- v4, pending <- v5, answer <- v6,
  local <- v7, cursor <- v8, page <- v9, latest <- v10, mine <- v11, born <- v12,
  touched <- v13, overlapped <- v14, calls <- v15, edits <- v16

Tables == INSTANCE LookupTables WITH
  Weights <- 0..3, Payouts <- {0, 1, 2, 4, 6}, MaxRows <- 3, MaxWord <- 15,
  Edges <- <<0, 1, 3, 5>>, TopTail <- <<1, 4>>, MaxOdds <- 4, table <- v1, entered <- v2

Lives == {"stream", "reconnect"}
Opens == {"open", "crash", "sealed"}
Slotless == Clients \cup Stores \cup Lives \cup Opens \cup {"shell", "cloud", "github", "records"}

Zero3 == /\ v3 = 0 /\ v4 = 0 /\ v5 = 0 /\ v6 = 0 /\ v7 = 0 /\ v8 = 0 /\ v9 = 0 /\ v10 = 0
         /\ v11 = 0 /\ v12 = 0 /\ v13 = 0 /\ v14 = 0 /\ v15 = 0 /\ v16 = 0
Same3 == UNCHANGED <<v3, v4, v5, v6, v7, v8, v9, v10, v11, v12, v13, v14, v15, v16>>

Init ==
  /\ TransferInit /\ ShellInit /\ LoginInit /\ LocalInit /\ SidecarInit /\ LiveInit /\ IndexInit
  /\ part = "stream" \/ active = "w1"
  /\ \/ part = "sync" /\ Sync!Init
     \/ /\ pc = [a \in Apps |-> "idle"] /\ Zero3
        /\ \/ part \in Slotless /\ v1 = 0 /\ v2 = 0
           \/ part = "tables" /\ Tables!TableInit

\* A step of one part leaves the variables of the others alone.
Resting == UNCHANGED <<transferVars, shellVars, loginVars, localVars, sidecarVars, liveVars, indexVars>>
Unused == UNCHANGED <<part, pc, slots>>

SyncStep == part = "sync" /\ Sync!Next /\ UNCHANGED part /\ Resting
RecordsStep ==
  /\ part = "records" /\ IndexNext /\ Unused
  /\ UNCHANGED <<transferVars, shellVars, loginVars, localVars, sidecarVars, liveVars>>
TablesStep == part = "tables" /\ Tables!TableNext /\ Same3 /\ UNCHANGED <<part, pc>> /\ Resting

ClientStep(c) ==
  /\ TransferNext /\ \A d \in Clients \ {c} : folder'[d] = folder[d] /\ job'[d] = job[d]
  /\ UNCHANGED <<shellVars, loginVars, localVars, sidecarVars, liveVars, indexVars>>
TransferStep(c) == part = c /\ ClientStep(c) /\ Unused
ShellStep ==
  /\ part = "shell" /\ ShellNext /\ Unused
  /\ UNCHANGED <<transferVars, loginVars, localVars, sidecarVars, liveVars, indexVars>>
SignInStep ==
  /\ \/ part = "cloud" /\ LoginNext
     \/ part = "github" /\ ThroughGithub!LoginNext
  /\ Unused /\ UNCHANGED <<transferVars, shellVars, localVars, sidecarVars, liveVars, indexVars>>

\* Every change is of the file f.
FileStep(f) ==
  /\ part = f /\ LocalNext
  /\ \A t \in Writers : \A i \in DOMAIN writer'[t].todo : writer'[t].todo[i].f = f
  /\ f = "cache" => changes' <= 2
  /\ Unused /\ UNCHANGED <<transferVars, shellVars, loginVars, sidecarVars, liveVars, indexVars>>

BooksStep ==
  /\ \/ part = "open" /\ SidecarNext /\ UNCHANGED cuts
     \/ part = "crash" /\ SidecarNext /\ UNCHANGED <<replaced, deletes>>
     \/ part = "sealed" /\ Sealed!SidecarNext /\ UNCHANGED <<deletes, cuts>>
  /\ Unused /\ UNCHANGED <<transferVars, shellVars, loginVars, localVars, liveVars, indexVars>>

StreamStep ==
  /\ \/ part = "stream" /\ LiveNext /\ UNCHANGED drops /\ events' <= 1
     \/ /\ part = "reconnect" /\ LiveNext /\ acts' <= 2
        /\ active' = "w1" /\ docs'["w2"] = 0 /\ call'[2] = NoCall /\ stream'[3] = NoStream
  /\ Unused /\ UNCHANGED <<transferVars, shellVars, loginVars, localVars, sidecarVars, indexVars>>

Next ==
  \/ SyncStep \/ ShellStep \/ SignInStep \/ RecordsStep \/ TablesStep \/ BooksStep \/ StreamStep
  \/ \E c \in Clients : TransferStep(c)
  \/ \E f \in Stores : FileStep(f)

\* The runtimes of the apps and of the server run on, and so does a program
\* until its command has ended.
Fairness ==
  /\ \A a \in Apps : WF_vars(part = "sync" /\ Sync!Advance(a) /\ UNCHANGED part /\ Resting)
  /\ \A c \in Clients :
       WF_vars(part = c /\ Proceeds(c) /\ Unused
               /\ UNCHANGED <<shellVars, loginVars, localVars, sidecarVars, liveVars, indexVars>>)
Spec == Init /\ [][Next]_vars /\ Fairness

(* Every call on the workspace's documents ends: the user's "sync" is not stuck
   behind a row lock (documents.rs, sync.rs). *)
CallsEnd == part = "sync" => Sync!CallsEnd

(* Rows are drawn by weight, ids are found, and the analysis of a table agrees
   with its definitions (math_engine.rs, stats_analysis.rs). *)
TablesExact == part = "tables" =>
  Tables!TableTypeOK /\ Tables!SearchesExact /\ Tables!AnalysisExact
================================================================================
