-------------------------------- MODULE AppShell --------------------------------
(***************************************************************************)
(* The local game server the desktop app starts and stops, and the         *)
(* certificates it serves: the commands run concurrently, AppState.running *)
(* is locked only around its reads and writes, and the four PEM files are  *)
(* made on first use and read ever after.                                  *)
(*                                                                         *)
(* A generation stands for a CA and the leaf it signed.                    *)
(***************************************************************************)
EXTENDS Naturals, FiniteSets

CONSTANTS Tasks, Ports, MaxServers, MaxOps, MaxCrashes

ASSUME ShellAssumption == MaxServers \in Nat

VARIABLES running,  \* AppState.running: a server, 0: None
          lgs,      \* the servers started so far
          file,     \* the files on disk: their generation (0: absent) and whether complete
          trusted,  \* the CAs of the user's trust store
          task,     \* the commands under way
          gens, ops, crashes,
          calm      \* history: no two commands made certificates at once

shellVars == <<running, lgs, file, trusted, task, gens, ops, crashes, calm>>

Servers == 1..MaxServers
Pem == 1..4   \* in the order written: rootCA, rootCA.key, localhost, localhost.key
RootCA == 1
Leaf == 3
LeafKey == 4
Idle == [pc |-> "idle", cmd |-> "none", port |-> "none", gen |-> 0, todo |-> {}, server |-> 0]
NoServer == [st |-> "none", port |-> "none", leaf |-> 0]
At(t, pc) == task' = [task EXCEPT ![t].pc = pc]
Done(t) == task' = [task EXCEPT ![t] = Idle]

Steps == {"idle", "load", "write", "loaded", "store", "join"}
Commands == {"none", "status", "install", "start", "stop"}

Task == [pc : Steps, cmd : Commands, port : Ports \cup {"none"}, gen : 0..gens,
         todo : SUBSET Pem, server : 0..MaxServers]

ShellTypeOK ==
  /\ gens \in Nat /\ calm \in BOOLEAN
  /\ running \in 0..MaxServers
  /\ lgs \in [Servers -> [st : {"none", "up", "closing", "down"}, port : Ports \cup {"none"},
                         leaf : 0..gens]]
  /\ file \in [Pem -> [gen : 0..gens, whole : BOOLEAN]]
  /\ trusted \subseteq 1..gens
  /\ task \in [Tasks -> Task]

ShellInit ==
  /\ running = 0 /\ lgs = [s \in Servers |-> NoServer]
  /\ file = [i \in Pem |-> [gen |-> 0, whole |-> FALSE]]
  /\ trusted = {} /\ task = [t \in Tasks |-> Idle]
  /\ gens = 0 /\ ops = 0 /\ crashes = 0 /\ calm = TRUE

(***************************************************************************)
(* The certificates                                                        *)
(***************************************************************************)
Command(t, cmd, port, pc) ==
  /\ task[t].pc = "idle" /\ ops < MaxOps
  /\ ops' = ops + 1
  /\ task' = [task EXCEPT ![t] = [Idle EXCEPT !.pc = pc, !.cmd = cmd, !.port = port]]
  /\ UNCHANGED <<running, lgs, file, trusted, gens, crashes, calm>>

CaStatus(t) == Command(t, "status", "none", "load")
InstallCa(t) == Command(t, "install", "none", "load")

(* Deleting by name removes one or all of the CAs, by platform. *)
UninstallCa(t) ==
  /\ task[t].pc = "idle" /\ ops < MaxOps
  /\ ops' = ops + 1
  /\ trusted' \in SUBSET trusted /\ (trusted # {} => trusted' # trusted)
  /\ task' = [task EXCEPT ![t] = [Idle EXCEPT !.pc = "load", !.cmd = "status"]]
  /\ UNCHANGED <<running, lgs, file, gens, crashes, calm>>

AllExist == \A i \in Pem : file[i].gen # 0

LoadExisting(t) ==
  /\ task[t].pc = "load" /\ AllExist
  /\ task' = [task EXCEPT ![t].pc = "loaded",
                          ![t].gen = IF file[Leaf] = file[LeafKey] /\ file[Leaf].whole
                                     THEN file[Leaf].gen ELSE 0]
  /\ UNCHANGED <<running, lgs, file, trusted, gens, ops, crashes, calm>>

Creating == {t \in Tasks : task[t].pc = "write"}

(* Repairing only what is absent would keep the CA of an earlier generation. *)
ToWrite_Absent == {i \in Pem : file[i].gen = 0}

ToWrite == Pem

GenerateCaAndLeaf(t) ==
  /\ task[t].pc = "load" /\ ~AllExist
  /\ gens' = gens + 1
  /\ task' = [task EXCEPT ![t].pc = "write", ![t].gen = gens + 1, ![t].todo = ToWrite]
  /\ calm' = (calm /\ Creating = {})
  /\ UNCHANGED <<running, lgs, file, trusted, ops, crashes>>

First(t) == CHOOSE i \in task[t].todo : \A j \in task[t].todo : i <= j

(* fs::write creates or empties the file, then fills it. *)
WriteFile(t) ==
  /\ task[t].pc = "write"
  /\ LET i == First(t)
         begun == file[i] = [gen |-> task[t].gen, whole |-> FALSE]
         left == IF begun THEN task[t].todo \ {i} ELSE task[t].todo
     IN  /\ file' = [file EXCEPT ![i] = [gen |-> task[t].gen, whole |-> begun]]
         /\ task' = [task EXCEPT ![t].todo = left,
                                 ![t].pc = IF left = {} THEN "loaded" ELSE "write"]
  /\ UNCHANGED <<running, lgs, trusted, gens, ops, crashes, calm>>

(* The store is given the path, and takes what the file holds by then. *)
CaLoaded(t) ==
  /\ task[t].pc = "loaded" /\ task[t].cmd \in {"status", "install"}
  /\ trusted' = IF task[t].cmd = "install" /\ file[RootCA].whole
                THEN trusted \cup {file[RootCA].gen} ELSE trusted
  /\ Done(t)
  /\ UNCHANGED <<running, lgs, file, gens, ops, crashes, calm>>

(***************************************************************************)
(* The server                                                              *)
(***************************************************************************)
(* start_lgs looks under the lock, and lets it go. *)
StartLgs(t, port) == running = 0 /\ Command(t, "start", port, "load")

Taken(port) == \E s \in Servers : lgs[s].st \in {"up", "closing"} /\ lgs[s].port = port
FreshServer == Cardinality({s \in Servers : lgs[s].st # "none"}) + 1

(* A leaf and a key that do not belong together are refused, then a port in use. *)
StartFails(t) ==
  /\ task[t].pc = "loaded" /\ task[t].cmd = "start"
  /\ task[t].gen = 0 \/ Taken(task[t].port)
  /\ Done(t)
  /\ UNCHANGED <<running, lgs, file, trusted, gens, ops, crashes, calm>>

Serve(t) ==
  /\ task[t].pc = "loaded" /\ task[t].cmd = "start"
  /\ task[t].gen # 0 /\ ~Taken(task[t].port) /\ FreshServer \in Servers
  /\ lgs' = [lgs EXCEPT ![FreshServer] = [st |-> "up", port |-> task[t].port, leaf |-> task[t].gen]]
  /\ task' = [task EXCEPT ![t].pc = "store", ![t].server = FreshServer]
  /\ UNCHANGED <<running, file, trusted, gens, ops, crashes, calm>>

(* The task that waits for the shutdown signal goes on when the sender is dropped. *)
Told_OnlySent(s, sent) == sent

Told(s, sent) == TRUE

ShutDown(s, sent) ==
  IF s # 0 /\ Told(s, sent) /\ lgs[s].st = "up"
  THEN [lgs EXCEPT ![s].st = "closing"] ELSE lgs

StoreRunning(t) ==
  /\ task[t].pc = "store"
  /\ running' = task[t].server
  /\ lgs' = ShutDown(running, FALSE)
  /\ Done(t)
  /\ UNCHANGED <<file, trusted, gens, ops, crashes, calm>>

StopLgs(t) ==
  /\ task[t].pc = "idle" /\ ops < MaxOps
  /\ ops' = ops + 1
  /\ running' = 0
  /\ lgs' = ShutDown(running, TRUE)
  /\ task' = [task EXCEPT ![t] = [Idle EXCEPT !.pc = "join", !.cmd = "stop", !.server = running]]
  /\ UNCHANGED <<file, trusted, gens, crashes, calm>>

Joined(t) ==
  /\ task[t].pc = "join"
  /\ task[t].server # 0 => lgs[task[t].server].st = "down"
  /\ Done(t)
  /\ UNCHANGED <<running, lgs, file, trusted, gens, ops, crashes, calm>>

(* A graceful shutdown ends within five seconds. *)
Drained(s) ==
  /\ lgs[s].st = "closing"
  /\ lgs' = [lgs EXCEPT ![s].st = "down"]
  /\ UNCHANGED <<running, file, trusted, task, gens, ops, crashes, calm>>

AppDies ==
  /\ crashes < MaxCrashes
  /\ crashes' = crashes + 1
  /\ running' = 0 /\ task' = [t \in Tasks |-> Idle]
  /\ lgs' = [s \in Servers |-> IF lgs[s].st = "none" THEN NoServer
                                  ELSE [lgs[s] EXCEPT !.st = "down"]]
  /\ UNCHANGED <<file, trusted, gens, ops, calm>>

ShellNext ==
  \/ \E t \in Tasks :
       \/ CaStatus(t) \/ InstallCa(t) \/ UninstallCa(t)
       \/ LoadExisting(t) \/ GenerateCaAndLeaf(t) \/ WriteFile(t) \/ CaLoaded(t)
       \/ StartFails(t) \/ Serve(t) \/ StoreRunning(t) \/ StopLgs(t) \/ Joined(t)
       \/ \E p \in Ports : StartLgs(t, p)
  \/ \E s \in Servers : Drained(s)
  \/ AppDies

ShellSpec == ShellInit /\ [][ShellNext]_shellVars

(* Every server that accepts connections is the one the app can stop, or is
   about to be: of two starts that both found none running, the one whose
   handle is overwritten is shut down. *)
KnownServers ==
  \A s \in Servers : lgs[s].st = "up" =>
    running = s \/ \E t \in Tasks : task[t].pc = "store" /\ task[t].server = s

(* What the trust store holds is what the servers present: a launch that died
   between two of the four files leaves no CA beside another CA's leaf, unless
   two commands made certificates at once. *)
TrustedServer ==
  \A s \in Servers : calm /\ lgs[s].st = "up" /\ trusted # {} => lgs[s].leaf \in trusted

(* What the shell promises of its servers: each can be stopped, and serves a
   certificate the installed CA signed. *)
ShellSound == ShellTypeOK /\ KnownServers /\ TrustedServer
===============================================================================
