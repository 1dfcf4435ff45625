------------------------------- MODULE LocalFiles -------------------------------
(***************************************************************************)
(* The JSON files on a developer's machine: the settings and saved rounds  *)
(* of the local game server, the profiles of the desktop app and its cache *)
(* of workspaces.  The desktop app and a standalone game server are two    *)
(* processes over the same files.                                          *)
(*                                                                         *)
(* Every change loads a file, changes it and writes it whole, truncating   *)
(* it first; a process can die between any two steps.  The first two files *)
(* have a lock in each process, the others none.                           *)
(*                                                                         *)
(* A file is its keys' values, 0 for a key it does not have: a built-in    *)
(* and a custom resolution, a round, a profile, and for the one workspace  *)
(* whether it is listed, whether it is active and its cursor.              *)
(***************************************************************************)
EXTENDS Naturals, Sequences

CONSTANTS Stores,     \* a subset of {"settings", "rounds", "profiles", "cache"}
          Writers, Process, \* the process of each task
          MaxChanges, MaxDeaths

ASSUME LocalAssumption ==
  /\ Stores \subseteq {"settings", "rounds", "profiles", "cache"}
  /\ "none" \notin Writers

VARIABLES disk,    \* what is on disk, or Torn
          lock,    \* file -> process -> the task that has it
          writer,    \* operations a task has still to do, and its place in the first
          acked,   \* history: the file as the acknowledged changes make it
          spoiled, \* history: files a crash cut short or two changes met in
                   \* that no lock keeps apart
          changes, deaths

localVars == <<disk, lock, writer, acked, spoiled, changes, deaths>>

Processes == {Process[t] : t \in Writers}
Torn == [torn |-> 1]
Default(f) ==
  CASE f = "settings" -> [builtin |-> 1, custom |-> 0]
    [] f \in {"rounds", "profiles"} -> [item |-> 0]
    [] f = "cache" -> [listed |-> 0, active |-> 0, seq |-> 0]
AtRest == [pc |-> "idle", todo |-> <<>>, buf |-> Torn]
Op(t) == Head(writer[t].todo)
Working(t) == writer[t].todo # <<>>

Valid(f) ==
  CASE f = "settings" -> [builtin : 0..2, custom : 0..2]
    [] f \in {"rounds", "profiles"} -> [item : 0..2]
    [] f = "cache" -> [listed : 0..2, active : 0..2, seq : 0..2]
Doing(f) ==
  CASE f = "settings" -> {"toggle", "add", "replace", "delete"}
    [] f \in {"rounds", "profiles"} -> {"put", "update", "delete"}
    [] f = "cache" -> {"list", "active", "seq", "detach"}
Operations == {o \in [f : Stores, do : UNION {Doing(f) : f \in Stores}, v : 0..2] : o.do \in Doing(o.f)}
Storing(t, f) == writer[t].pc \in {"truncate", "write"} /\ Op(t).f = f

LocalTypeOK ==
  /\ disk = [f \in Stores |-> disk[f]] /\ \A f \in Stores : disk[f] \in Valid(f) \cup {Torn}
  /\ lock \in [Stores -> [Processes -> Writers \cup {"none"}]]
  /\ writer = [t \in Writers |-> [pc |-> writer[t].pc, todo |-> writer[t].todo, buf |-> writer[t].buf]]
  /\ \A t \in Writers :
       /\ writer[t].pc \in {"idle", "enter", "load", "truncate", "write"}
       /\ writer[t].todo \in Seq(Operations) /\ (Working(t) <=> writer[t].pc # "idle")
       /\ \A f \in Stores : Storing(t, f) => writer[t].buf \in Valid(f)
  /\ acked = [f \in Stores |-> acked[f]] /\ spoiled \subseteq Stores

LocalInit ==
  /\ disk = [f \in Stores |-> Default(f)]
  /\ lock = [f \in Stores |-> [p \in Processes |-> "none"]]
  /\ writer = [t \in Writers |-> AtRest]
  /\ acked = disk /\ spoiled = {}
  /\ changes = 0 /\ deaths = 0

(***************************************************************************)
(* The operations.  A change is the new content, or Torn where the store   *)
(* reports "not found" and writes nothing.                                 *)
(***************************************************************************)
Start(t, queue) ==
  /\ ~Working(t) /\ changes < MaxChanges /\ queue[1].f \in Stores
  /\ changes' = changes + 1
  /\ writer' = [writer EXCEPT ![t] = [AtRest EXCEPT !.pc = "enter", !.todo = queue]]
  /\ UNCHANGED <<disk, lock, acked, spoiled, deaths>>

Do(f, what, v) == [f |-> f, do |-> what, v |-> v]
Single(t, f, what, v) == Start(t, <<Do(f, what, v)>>)

Toggle(t, v) == Single(t, "settings", "toggle", v)
AddCustom(t) == Single(t, "settings", "add", 1)
ReplaceAll(t, v) == Single(t, "settings", "replace", v)
DeleteCustom(t) == Single(t, "settings", "delete", 0)

ChangeSettings(o, c) ==
  CASE o.do = "toggle"  -> [c EXCEPT !.builtin = o.v]
    [] o.do = "add"     -> [c EXCEPT !.custom = o.v]
    [] o.do = "replace" -> [builtin |-> o.v, custom |-> o.v]
    [] o.do = "delete"  -> IF c.custom = 0 THEN Torn ELSE [c EXCEPT !.custom = 0]

CreateRound(t) == Single(t, "rounds", "put", 1)
UpdateDescription(t) == Single(t, "rounds", "update", 2)
UpsertRawRound(t) == Single(t, "rounds", "put", 2)
DeleteRound(t) == Single(t, "rounds", "delete", 0)

UpsertProfile(t) == Single(t, "profiles", "put", 1)
UpsertRawProfile(t) == Single(t, "profiles", "put", 2)
SetTeam(t) == Single(t, "profiles", "update", 2)
DeleteProfile(t) == Single(t, "profiles", "delete", 0)

ChangeItem(o, c) ==
  IF o.do # "put" /\ c.item = 0 THEN Torn ELSE [item |-> o.v]

(* A file that does not parse is an error; the cache starts over. *)
Content(f) == IF disk[f] = Torn /\ f = "cache" THEN Default(f) ELSE disk[f]

(* What list() learnt from the server before it loads the cache. *)
ListWorkspaces(t, v) == Single(t, "cache", "list", v)
SetActive(t, v) == Single(t, "cache", "active", v)
SetLastSeq(t, v) == Single(t, "cache", "seq", v)

(* The server is asked first; the refresh may fail and is not waited for. *)
CreateWorkspace(t) ==
  \/ Start(t, <<Do("cache", "list", 1), Do("cache", "active", 1)>>)
  \/ SetActive(t, 1)
JoinWorkspace(t) == CreateWorkspace(t)

(* The id is resolved first, by a refresh if the cache does not have it. *)
LeaveWorkspace(t) ==
  \/ Single(t, "cache", "detach", 0)
  \/ "cache" \in Stores /\ Content("cache").listed = 0
     /\ Start(t, <<Do("cache", "list", 1), Do("cache", "detach", 0)>>)
DeleteWorkspace(t) == LeaveWorkspace(t)

(* Pruned, with the active pointer moved where it dangles. *)
Listed(c, v) == [c EXCEPT !.listed = v, !.active = IF v = 0 THEN 0 ELSE 1]

ChangeCache(o, c) ==
  CASE o.do = "list"   -> Listed(c, o.v)
    [] o.do = "active" -> [c EXCEPT !.active = o.v]
    [] o.do = "seq"    -> [c EXCEPT !.seq = o.v]
    [] o.do = "detach" -> Default("cache")

Change(o, c) ==
  CASE o.f = "settings" -> ChangeSettings(o, c)
    [] o.f = "cache"    -> ChangeCache(o, c)
    [] OTHER            -> ChangeItem(o, c)

(* Loading heals: built-ins that are missing come back. *)
Healed(f, c) == IF f = "settings" /\ c.builtin = 0 THEN [c EXCEPT !.builtin = 1] ELSE c

(***************************************************************************)
(* A change, step by step                                                  *)
(***************************************************************************)
Locked_Settings == {"settings"}

Locked == {"settings", "rounds"}

Enter(t) ==
  LET f == Op(t).f
      p == Process[t]
  IN  /\ writer[t].pc = "enter"
      /\ f \in Locked => lock[f][p] = "none"
      /\ lock' = IF f \in Locked THEN [lock EXCEPT ![f][p] = t] ELSE lock
      /\ writer' = [writer EXCEPT ![t].pc = "load"]
      /\ UNCHANGED <<disk, acked, spoiled, changes, deaths>>

Released(t) == [f \in Stores |-> [p \in Processes |-> IF lock[f][p] = t THEN "none" ELSE lock[f][p]]]

Ended(t) ==
  /\ lock' = Released(t)
  /\ LET rest == Tail(writer[t].todo)
     IN  writer' = [writer EXCEPT ![t] = IF rest = <<>> THEN AtRest
                                     ELSE [AtRest EXCEPT !.pc = "enter", !.todo = rest]]

(* Two changes of f that nothing keeps apart. *)
Meets(t, f) == \E u \in Writers \ {t} :
  /\ Storing(u, f)
  /\ f \in {"profiles", "cache"} \/ Process[u] # Process[t]

Load(t) ==
  LET o == Op(t)
      c == IF Content(o.f) = Torn THEN Torn ELSE Healed(o.f, Content(o.f))
      new == IF o.do = "replace" THEN Change(o, Default(o.f)) ELSE
             IF c = Torn THEN Torn ELSE Change(o, c)
  IN  /\ writer[t].pc = "load"
      /\ spoiled' = IF Meets(t, o.f) THEN spoiled \cup {o.f} ELSE spoiled
      /\ IF new = Torn THEN Ended(t)
         ELSE writer' = [writer EXCEPT ![t].pc = "truncate", ![t].buf = new] /\ UNCHANGED lock
      /\ UNCHANGED <<disk, acked, changes, deaths>>

(* fs::write: create, which truncates, then write. *)
Truncate(t) ==
  /\ writer[t].pc = "truncate"
  /\ disk' = [disk EXCEPT ![Op(t).f] = Torn]
  /\ writer' = [writer EXCEPT ![t].pc = "write"]
  /\ UNCHANGED <<lock, acked, spoiled, changes, deaths>>

Write(t) ==
  LET o == Op(t)
  IN  /\ writer[t].pc = "write"
      /\ disk' = [disk EXCEPT ![o.f] = writer[t].buf]
      /\ acked' = [acked EXCEPT ![o.f] = Change(o, Healed(o.f, @))]
      /\ Ended(t)
      /\ UNCHANGED <<spoiled, changes, deaths>>

Dies(p) ==
  LET dead == {t \in Writers : Process[t] = p /\ Working(t)}
  IN  /\ deaths < MaxDeaths /\ dead # {}
      /\ deaths' = deaths + 1
      /\ writer' = [t \in Writers |-> IF t \in dead THEN AtRest ELSE writer[t]]
      /\ lock' = [f \in Stores |-> [lock[f] EXCEPT ![p] = "none"]]
      /\ spoiled' = spoiled \cup {Op(t).f : t \in {u \in dead : writer[u].pc = "write"}}
      /\ UNCHANGED <<disk, acked, changes>>

LocalNext ==
  \/ \E t \in Writers :
       \/ \E v \in {1, 2} : Toggle(t, v)
       \/ \E v \in {0, 1} : ReplaceAll(t, v) \/ ListWorkspaces(t, v) \/ SetActive(t, v)
       \/ \E v \in {1, 2} : SetLastSeq(t, v)
       \/ AddCustom(t) \/ DeleteCustom(t)
       \/ CreateRound(t) \/ UpdateDescription(t) \/ UpsertRawRound(t) \/ DeleteRound(t)
       \/ UpsertProfile(t) \/ UpsertRawProfile(t) \/ SetTeam(t) \/ DeleteProfile(t)
       \/ CreateWorkspace(t) \/ JoinWorkspace(t) \/ LeaveWorkspace(t) \/ DeleteWorkspace(t)
       \/ Enter(t) \/ Load(t) \/ Truncate(t) \/ Write(t)
  \/ \E p \in Processes : Dies(p)

LocalSpec == LocalInit /\ [][LocalNext]_localVars

(* A change that was acknowledged is in the file, with every one before it
   and nothing else, unless a crash cut a write short or two changes met that
   no lock keeps apart: of the settings and saved rounds, changes of two
   processes; of the profiles and the cache, any two. *)
AckedKept == \A f \in Stores \ spoiled :
  (\A t \in Writers : Working(t) /\ Op(t).f = f => writer[t].pc # "write") => disk[f] = acked[f]

(* What the local files promise. *)
StoresKept == LocalTypeOK /\ AckedKept
===============================================================================
