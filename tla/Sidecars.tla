-------------------------------- MODULE Sidecars --------------------------------
(***************************************************************************)
(* The two files the local game server keeps beside a compressed books     *)
(* file: the decompressed bytes and the index of the records in them.      *)
(* Both are written under a temporary name and renamed, and reused by every *)
(* later open.  Opens run on blocking threads that outlive the server that  *)
(* started them, and in several processes.                                  *)
(*                                                                         *)
(* A file is an inode of Chunks parts; a part holds the version of the     *)
(* books it was made from, 0 where nothing was written.  A name leads to an *)
(* inode, and a file open under a name goes on being that inode.           *)
(***************************************************************************)
EXTENDS Naturals, FiniteSets

CONSTANTS Openers, Chunks, Lengths,  \* Lengths[v]: the decompressed size of version v
          MaxInodes, MaxReplaced, MaxDeletes, MaxCuts, ReadOnly

ASSUME SidecarAssumptions ==
  /\ Chunks \in Nat \ {0} /\ MaxInodes \in Nat /\ MaxReplaced \in Nat /\ ReadOnly \in BOOLEAN

VARIABLES zst,    \* the version of the compressed file
          inode,  \* parts of every inode
          name,   \* "raw", "idx" and their temporary names -> an inode, 0: absent
          opener,
          used, replaced, deletes, cuts,
          single    \* history: no two opens wrote the same file at once

sidecarVars == <<zst, inode, name, opener, used, replaced, deletes, cuts, single>>

Versions == 1..MaxReplaced + 1
Inodes == 1..MaxInodes
Names == {"raw", "raw.tmp", "idx", "idx.tmp"}
Tmp(k) == IF k = "raw" THEN "raw.tmp" ELSE "idx.tmp"
Blank == [c \in 1..Chunks |-> 0]
Whole(v) == [c \in 1..Chunks |-> v]
NotOpen == [pc |-> "idle", kind |-> "raw", from |-> 0, out |-> 0, at |-> 0, buf |-> Blank, map |-> 0,
            idx |-> 0, seen |-> 0]   \* seen, history: the compressed file when the open began

Parts == 0..MaxReplaced + 1
Opener == [pc : {"idle", "create", "write", "rename", "index", "open"}, kind : {"raw", "idx"},
           from : Parts, out : 0..MaxInodes, at : 0..Chunks, buf : [1..Chunks -> Parts],
           map : 0..MaxInodes, idx : Parts, seen : Parts]

SidecarTypeOK ==
  /\ zst = replaced + 1 /\ replaced \in 0..MaxReplaced
  /\ inode \in [Inodes -> [1..Chunks -> Parts]]
  /\ name \in [Names -> 0..MaxInodes] /\ used \in 0..MaxInodes
  /\ opener \in [Openers -> Opener] /\ single \in BOOLEAN

SidecarInit ==
  /\ zst = 1 /\ inode = [i \in Inodes |-> Blank] /\ name = [n \in Names |-> 0]
  /\ opener = [t \in Openers |-> NotOpen]
  /\ used = 0 /\ replaced = 0 /\ deletes = 0 /\ cuts = 0 /\ single = TRUE

Keep == UNCHANGED <<zst, used, replaced, deletes, cuts, single>>
Becomes(t, new) == opener' = [opener EXCEPT ![t] = new]

(* What a mapping shows now: a mapped inode can still be written. *)
View(t) == IF opener[t].map # 0 THEN inode[opener[t].map] ELSE opener[t].buf

(* A file of no bytes reads as absent. *)
Mappable(n) == name[n] # 0 /\ inode[name[n]] # Blank

(* open_books: decompressed bytes that exist are taken as they are. *)
OpenBooks(t) ==
  /\ opener[t].pc = "idle"
  /\ Becomes(t, IF Mappable("raw") THEN [NotOpen EXCEPT !.pc = "index", !.map = name["raw"], !.seen = zst]
                ELSE [NotOpen EXCEPT !.pc = "create", !.from = zst, !.seen = zst])
  /\ UNCHANGED <<inode, name>> /\ Keep

Target_InPlace(k) == k

Target(k) == Tmp(k)

(* File::create empties the file the name leads to, if any. *)
CreateFile(t) ==
  /\ opener[t].pc = "create" /\ ~ReadOnly
  /\ LET n == Target(opener[t].kind)
         i == IF name[n] # 0 THEN name[n] ELSE used + 1
     IN  /\ i \in Inodes
         /\ used' = IF name[n] # 0 THEN used ELSE used + 1
         /\ name' = [name EXCEPT ![n] = i]
         /\ inode' = [inode EXCEPT ![i] = Blank]
         /\ Becomes(t, [opener[t] EXCEPT !.pc = "write", !.out = i, !.at = 1])
  /\ single' = (single /\ \A o \in Openers \ {t} :
                  opener[o].pc \in {"write", "rename"} => opener[o].kind # opener[t].kind)
  /\ UNCHANGED <<zst, replaced, deletes, cuts>>

(* A folder that cannot be written: a temporary file, and an index in memory. *)
CreateFails(t) ==
  /\ opener[t].pc = "create" /\ ReadOnly
  /\ Becomes(t, IF opener[t].kind = "raw"
                THEN [opener[t] EXCEPT !.pc = "index", !.buf = Whole(opener[t].from)]
                ELSE [opener[t] EXCEPT !.pc = "open"])
  /\ UNCHANGED <<inode, name>> /\ Keep

(* Every writer has its own offset. *)
WriteChunk(t) ==
  /\ opener[t].pc = "write"
  /\ inode' = [inode EXCEPT ![opener[t].out][opener[t].at] = opener[t].from]
  /\ Becomes(t, IF opener[t].at = Chunks THEN [opener[t] EXCEPT !.pc = "rename"]
                ELSE [opener[t] EXCEPT !.at = @ + 1])
  /\ UNCHANGED name /\ Keep

Published(t) ==
  LET new == name[Target(opener[t].kind)]
  IN  IF opener[t].kind = "raw" THEN [opener[t] EXCEPT !.pc = "index", !.map = new]
      ELSE [opener[t] EXCEPT !.pc = "open"]

(* The rename takes whatever has the temporary name by now; if nothing has,
   decompressing fails, and an index stays in memory. *)
Rename(t) ==
  /\ opener[t].pc = "rename"
  /\ LET k == opener[t].kind
     IN  IF name[Target(k)] = 0
         THEN /\ Becomes(t, IF k = "raw" THEN NotOpen ELSE [opener[t] EXCEPT !.pc = "open"])
              /\ UNCHANGED name
         ELSE /\ Becomes(t, Published(t))
              /\ name' = IF Target(k) = k THEN name
                         ELSE [name EXCEPT ![k] = name[Tmp(k)], ![Tmp(k)] = 0]
  /\ UNCHANGED inode /\ Keep

(* The header holds the length of the buffer the index is of. *)
IndexUsable_AnyLength(v, buffer) == TRUE

IndexUsable(v, buffer) == Lengths[v] = Lengths[buffer[Chunks]]

Usable(t) ==
  /\ Mappable("idx") /\ View(t)[Chunks] # 0
  /\ LET idx == inode[name["idx"]]
     IN  idx[1] # 0 /\ idx[Chunks] # 0 /\ IndexUsable(idx[1], View(t))

(* A buffer with a gap has no JSON to index, the open fails. *)
OpenIndex(t) ==
  /\ opener[t].pc = "index"
  /\ Becomes(t, IF Usable(t) THEN [opener[t] EXCEPT !.pc = "open", !.idx = inode[name["idx"]][1]]
                ELSE IF \E c \in 1..Chunks : View(t)[c] = 0 THEN NotOpen
                ELSE [opener[t] EXCEPT !.pc = "create", !.kind = "idx",
                                       !.from = View(t)[1], !.idx = View(t)[1]])
  /\ UNCHANGED <<inode, name>> /\ Keep

(* The cache drops the books, or the server stops. *)
Close(t) ==
  /\ opener[t].pc = "open"
  /\ Becomes(t, NotOpen)
  /\ UNCHANGED <<inode, name>> /\ Keep

(* A pull of a later revision, or a new publish, replaces the compressed file. *)
ReplaceBooks ==
  /\ replaced < MaxReplaced
  /\ replaced' = replaced + 1 /\ zst' = zst + 1
  /\ UNCHANGED <<inode, name, opener, used, deletes, cuts, single>>

(* Somebody frees the room the decompressed bytes take. *)
DeleteRaw ==
  /\ deletes < MaxDeletes /\ name["raw"] # 0
  /\ deletes' = deletes + 1 /\ name' = [name EXCEPT !["raw"] = 0]
  /\ UNCHANGED <<zst, inode, opener, used, replaced, cuts, single>>

CutShort(t) ==
  /\ cuts < MaxCuts /\ opener[t].pc # "idle"
  /\ cuts' = cuts + 1
  /\ Becomes(t, NotOpen)
  /\ UNCHANGED <<zst, inode, name, used, replaced, deletes, single>>

SidecarNext ==
  \/ \E t \in Openers :
       \/ OpenBooks(t) \/ CreateFile(t) \/ CreateFails(t) \/ WriteChunk(t) \/ Rename(t)
       \/ OpenIndex(t) \/ Close(t) \/ CutShort(t)
  \/ ReplaceBooks \/ DeleteRaw

Opened == {t \in Openers : opener[t].pc = "open"}

SidecarSpec == SidecarInit /\ [][SidecarNext]_sidecarVars

(* "a crash never leaves a half-written file that a later run would trust":
   what has a sidecar's name is complete, unless two opens wrote it at once. *)
RawWhole ==
  single => \A k \in {"raw", "idx"} : name[k] # 0 => \E v \in Versions : inode[name[k]] = Whole(v)

(* An index is used only with the bytes it was made from: after the bytes were
   made again from other books the old index is refused. *)
IndexDescribesBuffer == single => \A t \in Opened : View(t) = Whole(opener[t].idx)

(* Decompressed books are whole and their index is of their bytes
   (math_engine.rs). *)
SidecarsSound == SidecarTypeOK /\ RawWhole /\ IndexDescribesBuffer

(* "a sidecar can only be stale if it does not match the buffer it indexes,
   which the header check below catches": books that were opened after the
   compressed file was replaced are the new ones. *)
SidecarsCurrent == single => \A t \in Opened : \E v \in Versions : v >= opener[t].seen /\ View(t) = Whole(v)
===============================================================================
