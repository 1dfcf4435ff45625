------------------------------ MODULE LocalProofs ------------------------------
(***************************************************************************)
(* Proofs about what runs on the developer's machine: MathTransfer, for    *)
(* any clients, files, contents and number of revisions; DeviceLogin, for  *)
(* any number of codes, dialogs and polls; AppShell, for any number of     *)
(* commands, servers and crashes; LocalFiles, for any stores, writers and  *)
(* deaths; Sidecars, for any openers, chunks and versions of a file; and   *)
(* LiveStream, for any workspaces, commands and number of events.          *)
(***************************************************************************)
EXTENDS MathTransfer, DeviceLogin, AppShell, LocalFiles, Sidecars, LiveStream, FiniteSetTheorems,
        WellFoundedInduction, TLAPS

-----------------------------------------------------------------------------
(***************************************************************************)
(* Transfers.  A push or pull that reports success moved the folder as it  *)
(* is, and a push commits once.  A step moves one client's command and its *)
(* folder, or the server; so the invariant is about a command and its      *)
(* folder (Sound), and about the server's types.                           *)
(***************************************************************************)
Folders == [Files -> Bytes \cup {"none"}]

(* What a command j knows of its folder dir.  While a push hashes, a file
   that nobody edited is in the manifest as it is, or still to be hashed;
   while a pull writes, what is not still to be written is as in the
   manifest. *)
Agrees(j, dir, files) == \A f \in files \ j.edited : dir[f] = j.man[f]
Lists(j, dir, files) == \A f \in Files \ j.edited : dir[f] # "none" => f \in files

Pushed(j, dir) ==
  /\ j.pc \in {"hash", "check", "upload", "ok"} => Agrees(j, dir, DOMAIN j.man)
  /\ j.pc = "hash" => Lists(j, dir, DOMAIN j.man \cup j.todo)
  /\ j.pc \in {"check", "upload", "ok"} => Lists(j, dir, DOMAIN j.man)
Pulled(j, dir) ==
  /\ j.pc = "pull" => Agrees(j, dir, DOMAIN j.man \ j.todo)
  /\ j.pc = "pulled" => Agrees(j, dir, DOMAIN j.man)

(* A command commits in its last step. *)
Commits(j) ==
  /\ j.pc \notin {"ok", "error"} => j.made = 0
  /\ j.pc = "ok" => j.made = 1
  /\ j.made <= 1

Sound(j, dir) ==
  /\ j \in Job
  /\ j.pc \in {"upload", "pull"} => j.todo \subseteq DOMAIN j.man
  /\ Pushed(j, dir) /\ Pulled(j, dir) /\ Commits(j)

ServerTyped ==
  /\ blobs \subseteq Bytes
  /\ DOMAIN revs \subseteq 1..MaxNumber /\ \A n \in DOMAIN revs : revs[n] \in Manifests(Bytes)
  /\ bundles \subseteq Manifests(Bytes)

TransferInv ==
  /\ folder \in [Clients -> Folders] /\ job \in [Clients -> Job]
  /\ ServerTyped
  /\ \A c \in Clients : Sound(job[c], folder[c])

-----------------------------------------------------------------------------
(* Manifests *)

LEMMA ManifestTyped ==
  ASSUME NEW m \in Manifests(Bytes)
  PROVE  DOMAIN m \subseteq Files /\ \A f \in DOMAIN m : m[f] \in Bytes
  BY DEF Manifests

LEMMA ManifestIs ==
  ASSUME NEW S \in SUBSET Files, NEW m \in [S -> Bytes]
  PROVE  m \in Manifests(Bytes)
  BY DEF Manifests

LEMMA WithTyped ==
  ASSUME NEW m \in Manifests(Bytes), NEW f \in Files, NEW v \in Bytes
  PROVE  With(m, f, v) \in Manifests(Bytes) /\ DOMAIN With(m, f, v) = DOMAIN m \cup {f}
<1>1. DOMAIN m \cup {f} \in SUBSET Files /\ \A x \in DOMAIN m : m[x] \in Bytes
  BY ManifestTyped
<1>2. With(m, f, v) \in [DOMAIN m \cup {f} -> Bytes]
  BY <1>1 DEF With
<1>. QED BY <1>1, <1>2, ManifestIs DEF With

LEMMA FreshSound ==
  ASSUME NEW dir \in Folders
  PROVE  Sound(Fresh, dir)
<1>1. Empty \in Manifests(Bytes)
  <2>1. Empty \in [{} -> Bytes]
    BY DEF Empty
  <2>. QED BY <2>1, ManifestIs
<1>2. Fresh \in Job
  BY <1>1, TransferAssumptions DEF Fresh, Job, Over
<1>. QED BY <1>2 DEF Sound, Fresh, Pushed, Pulled, Commits

-----------------------------------------------------------------------------
(* What each change of a command keeps *)

LEMMA FailSound ==
  ASSUME NEW dir, NEW there, NEW j, Sound(j, dir), j.pc \notin Over
  PROVE  Sound([j EXCEPT !.pc = "error"], there)
  BY DEF Sound, Job, Over, Pushed, Pulled, Commits

LEMMA ScanSound ==
  ASSUME NEW dir \in Folders, NEW S, S = {f \in Files : dir[f] # "none"}, NEW parent \in Nat
  PROVE  /\ Sound([Fresh EXCEPT !.pc = "hash", !.todo = S], dir)
         /\ Sound([Fresh EXCEPT !.pc = "hash", !.todo = S, !.parent = parent], dir)
         /\ Sound([Fresh EXCEPT !.pc = "error"], dir)
         /\ Sound([Fresh EXCEPT !.pc = "error", !.parent = parent], dir)
         /\ Sound([Fresh EXCEPT !.pc = "detail", !.num = parent], dir)
<1>1. Fresh \in Job /\ DOMAIN Fresh.man = {} /\ Fresh.made = 0
  BY FreshSound DEF Sound, Fresh, Empty
<1>2. S \in SUBSET Files
  OBVIOUS
<1>3. Sound([Fresh EXCEPT !.pc = "hash", !.todo = S], dir)
  <2>. DEFINE k == [Fresh EXCEPT !.pc = "hash", !.todo = S]
  <2>1. /\ k \in Job /\ k.pc = "hash" /\ k.todo = S /\ k.man = Fresh.man /\ k.made = 0
    BY <1>1, <1>2 DEF Sound, Job, Over
  <2>2. Sound(k, dir)
    BY <1>1, <1>2, <2>1 DEF Sound, Pushed, Pulled, Commits, Agrees, Lists
  <2>. QED BY <2>2
<1>4. Sound([Fresh EXCEPT !.pc = "hash", !.todo = S, !.parent = parent], dir)
  <2>. DEFINE k == [Fresh EXCEPT !.pc = "hash", !.todo = S, !.parent = parent]
  <2>1. /\ k \in Job /\ k.pc = "hash" /\ k.todo = S /\ k.man = Fresh.man /\ k.made = 0
    BY <1>1, <1>2 DEF Sound, Job, Over
  <2>2. Sound(k, dir)
    BY <1>1, <1>2, <2>1 DEF Sound, Pushed, Pulled, Commits, Agrees, Lists
  <2>. QED BY <2>2
<1>5. Sound([Fresh EXCEPT !.pc = "error"], dir)
  BY <1>1 DEF Sound, Job, Over, Pushed, Pulled, Commits
<1>6. Sound([Fresh EXCEPT !.pc = "error", !.parent = parent], dir)
  <2>. DEFINE k == [Fresh EXCEPT !.pc = "error", !.parent = parent]
  <2>1. /\ k \in Job /\ k.pc = "error" /\ k.made = 0
    BY <1>1 DEF Sound, Job, Over
  <2>2. Sound(k, dir)
    BY <2>1 DEF Sound, Pushed, Pulled, Commits
  <2>. QED BY <2>2
<1>7. Sound([Fresh EXCEPT !.pc = "detail", !.num = parent], dir)
  <2>. DEFINE k == [Fresh EXCEPT !.pc = "detail", !.num = parent]
  <2>1. /\ k \in Job /\ k.pc = "detail" /\ k.made = 0
    BY <1>1 DEF Sound, Job, Over
  <2>2. Sound(k, dir)
    BY <2>1 DEF Sound, Pushed, Pulled, Commits
  <2>. QED BY <2>2
<1>. QED BY <1>3, <1>4, <1>5, <1>6, <1>7

LEMMA HashSound ==
  ASSUME NEW dir \in Folders, NEW j, Sound(j, dir), j.pc = "hash"
  PROVE  /\ j.todo = {} => Sound([j EXCEPT !.pc = "check"], dir)
         /\ \A f \in j.todo : dir[f] # "none" =>
              Sound([j EXCEPT !.man = With(@, f, dir[f]), !.todo = @ \ {f}], dir)
<1>1. ASSUME j.todo = {}
      PROVE  Sound([j EXCEPT !.pc = "check"], dir)
  BY <1>1 DEF Sound, Job, Over, Pushed, Pulled, Commits, Agrees, Lists
<1>2. ASSUME NEW f \in j.todo, dir[f] # "none"
      PROVE  Sound([j EXCEPT !.man = With(@, f, dir[f]), !.todo = @ \ {f}], dir)
  <2>. DEFINE m == With(j.man, f, dir[f])
              k == [j EXCEPT !.man = m, !.todo = @ \ {f}]
  <2>1. j \in Job /\ f \in Files /\ dir[f] \in Bytes
    BY <1>2 DEF Sound, Job, Folders
  <2>2. /\ m \in Manifests(Bytes) /\ DOMAIN m = DOMAIN j.man \cup {f}
        /\ \A x \in DOMAIN j.man \cup {f} : m[x] = IF x = f THEN dir[f] ELSE j.man[x]
    <3>1. j.man \in Manifests(Bytes)
      BY <2>1 DEF Job
    <3>2. m \in Manifests(Bytes) /\ DOMAIN m = DOMAIN j.man \cup {f}
      BY <2>1, <3>1, WithTyped
    <3>. QED BY <3>2 DEF With
  <2>3. /\ k \in Job /\ k.pc = "hash" /\ k.man = m /\ k.todo = j.todo \ {f}
        /\ k.edited = j.edited /\ k.made = j.made
    BY <2>1, <2>2 DEF Job
  <2>4. Agrees(k, dir, DOMAIN k.man)
    BY <2>1, <2>2, <2>3 DEF Sound, Pushed, Agrees
  <2>5. Lists(k, dir, DOMAIN k.man \cup k.todo)
    BY <2>2, <2>3 DEF Sound, Pushed, Lists
  <2>6. Sound(k, dir)
    BY <2>3, <2>4, <2>5 DEF Sound, Pushed, Pulled, Commits
  <2>. QED BY <2>6
<1>. QED BY <1>1, <1>2

LEMMA UploadSound ==
  ASSUME NEW dir, NEW j, Sound(j, dir), j.pc \in {"check", "upload"}, NEW T \in SUBSET DOMAIN j.man
  PROVE  LET u == [j EXCEPT !.pc = "upload", !.todo = T, !.tries = Fresh.tries]
         IN  Sound(u, dir) /\ Sound([u EXCEPT !.again = TRUE], dir)
<1>1. DOMAIN j.man \subseteq Files
  BY ManifestTyped DEF Sound, Job
<1>2. Fresh.tries \in [Files -> 0..MaxAttempts]
  BY TransferAssumptions DEF Fresh
<1>. QED BY <1>1, <1>2 DEF Sound, Job, Over, Pushed, Pulled, Commits, Agrees, Lists

LEMMA UploadedSound ==
  ASSUME NEW dir, NEW j, Sound(j, dir), j.pc = "upload", NEW f \in j.todo
  PROVE  /\ Sound([j EXCEPT !.todo = @ \ {f}], dir)
         /\ Sound([j EXCEPT !.todo = @ \ {f}, !.failed = TRUE], dir)
         /\ ~(j.tries[f] + 1 >= MaxAttempts) => Sound([j EXCEPT !.tries[f] = @ + 1], dir)
<1>1. /\ Sound([j EXCEPT !.todo = @ \ {f}], dir)
      /\ Sound([j EXCEPT !.todo = @ \ {f}, !.failed = TRUE], dir)
  BY DEF Sound, Job, Over, Pushed, Pulled, Commits, Agrees, Lists
<1>2. ASSUME ~(j.tries[f] + 1 >= MaxAttempts)
      PROVE  Sound([j EXCEPT !.tries[f] = @ + 1], dir)
  <2>1. j.tries \in [Files -> 0..MaxAttempts] /\ f \in Files
    BY DEF Sound, Job
  <2>. DEFINE k == [j EXCEPT !.tries[f] = @ + 1]
  <2>2. [j.tries EXCEPT ![f] = @ + 1] \in [Files -> 0..MaxAttempts]
    BY <1>2, <2>1, TransferAssumptions
  <2>3. /\ k \in Job /\ k.pc = j.pc /\ k.man = j.man /\ k.todo = j.todo
        /\ k.edited = j.edited /\ k.made = j.made
    BY <2>2 DEF Sound, Job
  <2>4. Sound(k, dir)
    BY <2>3 DEF Sound, Pushed, Pulled, Commits, Agrees, Lists
  <2>. QED BY <2>4
<1>. QED BY <1>1, <1>2

LEMMA CommitSound ==
  ASSUME NEW dir, NEW j, Sound(j, dir), j.pc = "upload", NEW n \in Nat
  PROVE  /\ Sound([j EXCEPT !.pc = "ok", !.num = n, !.made = @ + 1], dir)
         /\ Sound([j EXCEPT !.pc = "error", !.made = @ + 1], dir)
<1>1. j.made = 0 /\ j.made + 1 = 1 /\ 1 \in Nat
  BY DEF Sound, Commits
<1>2. Sound([j EXCEPT !.pc = "ok", !.num = n, !.made = @ + 1], dir)
  <2>. DEFINE k == [j EXCEPT !.pc = "ok", !.num = n, !.made = @ + 1]
  <2>1. /\ k \in Job /\ k.pc = "ok" /\ k.man = j.man /\ k.edited = j.edited /\ k.made = 1
    BY <1>1 DEF Sound, Job, Over
  <2>2. Sound(k, dir)
    BY <2>1 DEF Sound, Pushed, Pulled, Commits, Agrees, Lists
  <2>. QED BY <2>2
<1>3. Sound([j EXCEPT !.pc = "error", !.made = @ + 1], dir)
  <2>. DEFINE k == [j EXCEPT !.pc = "error", !.made = @ + 1]
  <2>1. /\ k \in Job /\ k.pc = "error" /\ k.made = 1
    BY <1>1 DEF Sound, Job, Over
  <2>2. Sound(k, dir)
    BY <2>1 DEF Sound, Pushed, Pulled, Commits
  <2>. QED BY <2>2
<1>. QED BY <1>2, <1>3

LEMMA PullSound ==
  ASSUME NEW dir \in Folders, NEW j, Sound(j, dir)
  PROVE  /\ j.pc = "detail" => \A m \in Manifests(Bytes) :
              Sound([j EXCEPT !.pc = "pull", !.man = m, !.todo = DOMAIN m], dir)
         /\ j.pc = "pull" => \A f \in j.todo :
              /\ dir[f] = j.man[f] => Sound([j EXCEPT !.todo = @ \ {f}], dir)
              /\ Sound([j EXCEPT !.todo = @ \ {f}, !.edited = @ \ {f}], [dir EXCEPT ![f] = j.man[f]])
         /\ j.pc = "pull" /\ j.todo = {} => Sound([j EXCEPT !.pc = "pulled"], dir)
<1>1. ASSUME j.pc = "detail", NEW m \in Manifests(Bytes)
      PROVE  Sound([j EXCEPT !.pc = "pull", !.man = m, !.todo = DOMAIN m], dir)
  <2>1. DOMAIN m \subseteq Files
    BY ManifestTyped
  <2>. QED BY <1>1, <2>1 DEF Sound, Job, Over, Pushed, Pulled, Commits, Agrees, Lists
<1>2. ASSUME j.pc = "pull", NEW f \in j.todo, dir[f] = j.man[f]
      PROVE  Sound([j EXCEPT !.todo = @ \ {f}], dir)
  BY <1>2 DEF Sound, Job, Over, Pushed, Pulled, Commits, Agrees
<1>3. ASSUME j.pc = "pull", NEW f \in j.todo
      PROVE  Sound([j EXCEPT !.todo = @ \ {f}, !.edited = @ \ {f}], [dir EXCEPT ![f] = j.man[f]])
  <2>. DEFINE k == [j EXCEPT !.todo = @ \ {f}, !.edited = @ \ {f}]
              there == [dir EXCEPT ![f] = j.man[f]]
  <2>1. /\ k \in Job /\ k.pc = "pull" /\ k.man = j.man /\ k.todo = j.todo \ {f}
        /\ k.edited = j.edited \ {f} /\ k.made = j.made
    BY <1>3 DEF Sound, Job
  <2>2. f \in Files /\ there[f] = j.man[f] /\ \A x \in Files \ {f} : there[x] = dir[x]
    BY <1>3 DEF Sound, Job, Folders
  <2>3. DOMAIN j.man \subseteq Files
    BY ManifestTyped DEF Sound, Job
  <2>4. Agrees(k, there, DOMAIN k.man \ k.todo)
    BY <1>3, <2>1, <2>2, <2>3 DEF Sound, Pulled, Agrees
  <2>5. Sound(k, there)
    BY <1>3, <2>1, <2>4 DEF Sound, Pushed, Pulled, Commits
  <2>. QED BY <2>5
<1>4. ASSUME j.pc = "pull", j.todo = {}
      PROVE  Sound([j EXCEPT !.pc = "pulled"], dir)
  BY <1>4 DEF Sound, Job, Over, Pushed, Pulled, Commits, Agrees
<1>. QED BY <1>1, <1>2, <1>3, <1>4

LEMMA EditSound ==
  ASSUME NEW dir \in Folders, NEW j, Sound(j, dir), NEW f \in Files, NEW v
  PROVE  Sound([j EXCEPT !.edited = @ \cup {f}], [dir EXCEPT ![f] = v])
<1>. DEFINE k == [j EXCEPT !.edited = @ \cup {f}]
            there == [dir EXCEPT ![f] = v]
<1>1. /\ k \in Job /\ k.pc = j.pc /\ k.man = j.man /\ k.todo = j.todo
      /\ k.edited = j.edited \cup {f} /\ k.made = j.made
  BY DEF Sound, Job
<1>2. \A x \in Files \ {f} : there[x] = dir[x]
  BY DEF Folders
<1>3. DOMAIN j.man \subseteq Files
  BY ManifestTyped DEF Sound, Job
<1>4. \A S \in SUBSET Files : (Agrees(j, dir, S) => Agrees(k, there, S))
                              /\ (Lists(j, dir, S) => Lists(k, there, S))
  BY <1>1, <1>2 DEF Agrees, Lists
<1>5. DOMAIN j.man \cup j.todo \in SUBSET Files /\ DOMAIN j.man \ j.todo \in SUBSET Files
  BY <1>3 DEF Sound, Job
<1>6. Pushed(k, there) /\ Pulled(k, there)
  BY <1>1, <1>3, <1>4, <1>5 DEF Sound, Pushed, Pulled
<1>7. Sound(k, there)
  BY <1>1, <1>6 DEF Sound, Commits
<1>. QED BY <1>7


-----------------------------------------------------------------------------
(* The server *)

(* A set of natural numbers below a bound has a largest element. *)
LEMMA LessIsRelated ==
  ASSUME NEW x \in Nat, NEW y \in Nat
  PROVE  x < y <=> <<x, y>> \in OpToRel(<, Nat)
  BY DEF OpToRel

LEMMA HeadTyped ==
  ASSUME ServerTyped
  PROVE  HeadRevision \in 0..MaxNumber
<1>1. CASE DOMAIN revs = {}
  BY <1>1, TransferAssumptions DEF HeadRevision
<1>2. CASE DOMAIN revs # {}
  <2>. DEFINE S == DOMAIN revs
              T == {MaxNumber - n : n \in S}
  <2>1. S \subseteq 1..MaxNumber /\ S # {}
    BY <1>2 DEF ServerTyped
  <2>2. T \subseteq Nat /\ T # {}
    BY <2>1, TransferAssumptions
  <2>3. PICK m \in T : \A y \in T : <<y, m>> \notin OpToRel(<, Nat)
    <3>. HIDE DEF T
    <3>. QED BY <2>2, NatLessThanWellFounded, WFMin
  <2>4. \A y \in T : ~(y < m)
    BY <2>2, <2>3, LessIsRelated
  <2>5. PICK x \in S : m = MaxNumber - x
    BY <2>3
  <2>6. \A y \in S : y <= x
    <3>1. SUFFICES ASSUME NEW y \in S PROVE y <= x
      OBVIOUS
    <3>2. ~(MaxNumber - y < MaxNumber - x)
      BY <2>4, <2>5
    <3>. QED BY <2>1, <3>2, TransferAssumptions
  <2>7. HeadRevision \in S
    <3>1. \E n \in S : \A y \in S : y <= n
      BY <2>6
    <3>. QED BY <1>2, <3>1 DEF HeadRevision
  <2>. QED BY <2>1, <2>7, TransferAssumptions
<1>. QED BY <1>1, <1>2

LEMMA CommitTyped ==
  ASSUME ServerTyped, NEW m \in Manifests(Bytes), HeadRevision < MaxNumber,
         revs' = With(revs, HeadRevision + 1, m), bundles' = bundles, blobs' \subseteq Bytes
  PROVE  ServerTyped'
<1>1. HeadRevision + 1 \in 1..MaxNumber
  BY HeadTyped, TransferAssumptions
<1>2. DOMAIN revs' = DOMAIN revs \cup {HeadRevision + 1}
  BY DEF With
<1>3. \A n \in DOMAIN revs' : revs'[n] \in Manifests(Bytes)
  BY <1>2 DEF ServerTyped, With
<1>. QED BY <1>1, <1>2, <1>3 DEF ServerTyped

-----------------------------------------------------------------------------
(* The steps *)

LEMMA Moves ==
  ASSUME TransferInv, ServerTyped', NEW c \in Clients, NEW k, NEW dir \in Folders, Sound(k, dir),
         job' = [job EXCEPT ![c] = k], folder' = [folder EXCEPT ![c] = dir]
  PROVE  TransferInv'
<1>1. folder' \in [Clients -> Folders] /\ job' \in [Clients -> Job]
  BY DEF TransferInv, Sound
<1>2. \A d \in Clients : Sound(job'[d], folder'[d])
  <2>1. job'[c] = k /\ folder'[c] = dir
    BY DEF TransferInv
  <2>2. \A d \in Clients \ {c} : job'[d] = job[d] /\ folder'[d] = folder[d]
    BY DEF TransferInv
  <2>. QED BY <2>1, <2>2 DEF TransferInv
<1>. QED BY <1>1, <1>2 DEF TransferInv

LEMMA JobMoves ==
  ASSUME TransferInv, ServerTyped', NEW c \in Clients, NEW k, Sound(k, folder[c]),
         job' = [job EXCEPT ![c] = k], folder' = folder
  PROVE  TransferInv'
<1>1. folder' = [folder EXCEPT ![c] = folder[c]] /\ folder[c] \in Folders
  BY DEF TransferInv
<1>. QED BY <1>1, Moves

LEMMA JobFails ==
  ASSUME TransferInv, ServerTyped', NEW c \in Clients, job[c].pc \notin Over, Fail(c), folder' = folder
  PROVE  TransferInv'
<1>1. Sound([job[c] EXCEPT !.pc = "error"], folder[c])
  BY FailSound DEF TransferInv
<1>. QED BY <1>1, JobMoves DEF Fail, Set

LEMMA SameServer == ASSUME ServerTyped, UNCHANGED Server PROVE ServerTyped'
  BY DEF ServerTyped, Server

LEMMA BeginStep ==
  ASSUME TransferInv, NEW c \in Clients, NEW k, Begin(c, k), Sound(k, folder[c])
  PROVE  TransferInv'
<1>1. ServerTyped'
  BY SameServer DEF Begin, TransferInv
<1>. QED BY <1>1, JobMoves DEF Begin, Set

LEMMA PushBegins ==
  ASSUME TransferInv, NEW c \in Clients, NEW parent \in Nat,
         Begin(c, Scanned(c)) \/ Begin(c, [Scanned(c) EXCEPT !.parent = parent])
  PROVE  TransferInv'
<1>. DEFINE S == Present(c)
<1>1. folder[c] \in Folders /\ S = {f \in Files : folder[c][f] # "none"}
  BY DEF TransferInv, Present
<1>2. Sound(Scanned(c), folder[c])
  <2>1. /\ Sound([Fresh EXCEPT !.pc = "hash", !.todo = S], folder[c])
        /\ Sound([Fresh EXCEPT !.pc = "error"], folder[c])
    BY <1>1, ScanSound
  <2>. QED BY <2>1 DEF Scanned
<1>3. Sound([Scanned(c) EXCEPT !.parent = parent], folder[c])
  <2>1. /\ Sound([Fresh EXCEPT !.pc = "hash", !.todo = S, !.parent = parent], folder[c])
        /\ Sound([Fresh EXCEPT !.pc = "error", !.parent = parent], folder[c])
    BY <1>1, ScanSound
  <2>2. CASE Index \in S
    <3>1. [Scanned(c) EXCEPT !.parent = parent] = [Fresh EXCEPT !.pc = "hash", !.todo = S, !.parent = parent]
      BY <2>2 DEF Scanned, Fresh
    <3>. QED BY <2>1, <3>1
  <2>3. CASE Index \notin S
    <3>1. [Scanned(c) EXCEPT !.parent = parent] = [Fresh EXCEPT !.pc = "error", !.parent = parent]
      BY <2>3 DEF Scanned, Fresh
    <3>. QED BY <2>1, <3>1
  <2>. QED BY <2>2, <2>3
<1>. QED BY <1>2, <1>3, BeginStep

LEMMA PullBegins ==
  ASSUME TransferInv, NEW c \in Clients, ResolveHead(c)
  PROVE  TransferInv'
<1>1. PICK n \in DOMAIN revs : Begin(c, [Fresh EXCEPT !.pc = "detail", !.num = n])
  BY DEF ResolveHead
<1>2. n \in Nat /\ folder[c] \in Folders
  BY <1>1 DEF TransferInv, ServerTyped
<1>3. Sound([Fresh EXCEPT !.pc = "detail", !.num = n], folder[c])
  BY <1>2, ScanSound
<1>. QED BY <1>1, <1>3, BeginStep

LEMMA HashStep ==
  ASSUME TransferInv, NEW c \in Clients, HashFile(c)
  PROVE  TransferInv'
<1>1. /\ ServerTyped' /\ folder' = folder /\ job[c].pc = "hash"
      /\ Sound(job[c], folder[c]) /\ folder[c] \in Folders
  BY SameServer DEF HashFile, TransferInv
<1>2. CASE job[c].todo = {} /\ Set(c, [job[c] EXCEPT !.pc = "check"])
  <2>1. Sound([job[c] EXCEPT !.pc = "check"], folder[c])
    BY <1>1, <1>2, HashSound
  <2>. QED BY <1>1, <1>2, <2>1, JobMoves DEF Set
<1>3. ASSUME NEW f \in job[c].todo, folder[c][f] = "none", Fail(c)
      PROVE  TransferInv'
  BY <1>1, <1>3, JobFails DEF Over
<1>4. ASSUME NEW f \in job[c].todo, folder[c][f] # "none",
             Set(c, [job[c] EXCEPT !.man = With(@, f, folder[c][f]), !.todo = @ \ {f}])
      PROVE  TransferInv'
  <2>1. Sound([job[c] EXCEPT !.man = With(@, f, folder[c][f]), !.todo = @ \ {f}], folder[c])
    BY <1>1, <1>4, HashSound
  <2>. QED BY <1>1, <1>4, <2>1, JobMoves DEF Set
<1>. QED BY <1>2, <1>3, <1>4 DEF HashFile

LEMMA UploadBegins ==
  ASSUME TransferInv, NEW c \in Clients, job[c].pc \in {"check", "upload"}
  PROVE  Sound(Uploading(c), folder[c]) /\ Sound([Uploading(c) EXCEPT !.again = TRUE], folder[c])
<1>1. SelectUploads(c, Missing(c)) \in SUBSET DOMAIN job[c].man
  BY DEF SelectUploads
<1>2. Sound(job[c], folder[c])
  BY DEF TransferInv
<1>. QED BY <1>1, <1>2, UploadSound DEF Uploading

LEMMA CheckStep ==
  ASSUME TransferInv, NEW c \in Clients, CheckFiles(c)
  PROVE  TransferInv'
<1>1. ServerTyped' /\ folder' = folder /\ job[c].pc = "check"
  BY SameServer DEF CheckFiles, TransferInv
<1>2. CASE Set(c, Uploading(c))
  BY <1>1, <1>2, UploadBegins, JobMoves DEF Set
<1>3. CASE Fail(c)
  BY <1>1, <1>3, JobFails DEF Over
<1>. QED BY <1>2, <1>3 DEF CheckFiles

LEMMA UploadStep ==
  ASSUME TransferInv, NEW c \in Clients, NEW f \in Files, UploadOne(c, f)
  PROVE  TransferInv'
<1>. DEFINE j == job[c]
<1>1. j.pc = "upload" /\ f \in j.todo /\ folder' = folder /\ revs' = revs /\ bundles' = bundles
  BY DEF UploadOne
<1>2. Sound(j, folder[c]) /\ ServerTyped
  BY DEF TransferInv
<1>3. j.man[f] \in Bytes
  BY <1>1, <1>2, ManifestTyped DEF Sound, Job
<1>4. ServerTyped'
  BY <1>1, <1>2, <1>3 DEF UploadOne, ServerTyped
<1>5. \/ Set(c, [j EXCEPT !.todo = @ \ {f}])
      \/ Set(c, GaveUp(c, f))
      \/ ~(j.tries[f] + 1 >= MaxAttempts) /\ Set(c, [j EXCEPT !.tries[f] = @ + 1])
  BY DEF UploadOne, GivesUp
<1>6. /\ Sound([j EXCEPT !.todo = @ \ {f}], folder[c])
      /\ Sound([j EXCEPT !.todo = @ \ {f}, !.failed = TRUE], folder[c])
      /\ ~(j.tries[f] + 1 >= MaxAttempts) => Sound([j EXCEPT !.tries[f] = @ + 1], folder[c])
  BY <1>1, <1>2, UploadedSound
<1>7. Sound([j EXCEPT !.pc = "error"], folder[c])
  BY <1>1, <1>2, FailSound DEF Over
<1>8. Sound(GaveUp(c, f), folder[c])
  BY <1>6, <1>7 DEF GaveUp
<1>. QED BY <1>1, <1>4, <1>5, <1>6, <1>8, JobMoves DEF Set

LEMMA UploadsFailStep ==
  ASSUME TransferInv, NEW c \in Clients, UploadsFail(c)
  PROVE  TransferInv'
<1>1. ServerTyped' /\ folder' = folder /\ job[c].pc = "upload"
  BY SameServer DEF UploadsFail, TransferInv
<1>. QED BY <1>1, JobFails DEF UploadsFail, Over

(* The commit: the server lacks blobs, makes the version, or refuses. *)
LEMMA MissingStep ==
  ASSUME TransferInv, NEW c \in Clients, Ready(c), MissingBlobs(c) \/ Refused(c), folder' = folder
  PROVE  TransferInv'
<1>1. ServerTyped' /\ job[c].pc = "upload"
  BY SameServer DEF MissingBlobs, Refused, Ready, TransferInv
<1>2. CASE Fail(c)
  BY <1>1, <1>2, JobFails DEF Over
<1>3. CASE Set(c, [Uploading(c) EXCEPT !.again = TRUE])
  BY <1>1, <1>3, UploadBegins, JobMoves DEF Set
<1>. QED BY <1>2, <1>3 DEF MissingBlobs, Refused

LEMMA RepliedStep ==
  ASSUME TransferInv, ServerTyped', NEW c \in Clients, NEW n \in Nat, Ready(c), Replied(c, n), folder' = folder
  PROVE  TransferInv'
<1>1. Sound(job[c], folder[c]) /\ job[c].pc = "upload"
  BY DEF TransferInv, Ready
<1>2. /\ Sound([job[c] EXCEPT !.pc = "ok", !.num = n, !.made = @ + 1], folder[c])
      /\ Sound([job[c] EXCEPT !.pc = "error", !.made = @ + 1], folder[c])
  BY <1>1, CommitSound
<1>. QED BY <1>2, JobMoves DEF Replied, AfterLost, Set

LEMMA RevisionStep ==
  ASSUME TransferInv, NEW c \in Clients, Ready(c), CreateRevision(c), folder' = folder
  PROVE  TransferInv'
<1>1. job[c].man \in Manifests(Bytes) /\ ServerTyped
  BY DEF TransferInv, Job
<1>2. ServerTyped' /\ HeadRevision + 1 \in Nat
  BY <1>1, CommitTyped, HeadTyped DEF CreateRevision, ServerTyped
<1>. QED BY <1>2, RepliedStep DEF CreateRevision

LEMMA BundleStep ==
  ASSUME TransferInv, "front" \in Clients, Ready("front"), CreateFrontBundle, folder' = folder
  PROVE  TransferInv'
<1>1. job["front"].man \in Manifests(Bytes) /\ ServerTyped
  BY DEF TransferInv, Job
<1>2. ServerTyped'
  BY <1>1 DEF CreateFrontBundle, ServerTyped
<1>. QED BY <1>2, RepliedStep DEF CreateFrontBundle

LEMMA DetailStep ==
  ASSUME TransferInv, NEW c \in Clients, Detail(c)
  PROVE  TransferInv'
<1>1. ServerTyped' /\ folder' = folder /\ job[c].pc = "detail"
  BY SameServer DEF Detail, TransferInv
<1>2. CASE Fail(c)
  BY <1>1, <1>2, JobFails DEF Over
<1>3. ASSUME NEW n \in DOMAIN revs,
             Set(c, [job[c] EXCEPT !.pc = "pull", !.man = revs[n], !.todo = DOMAIN revs[n]])
      PROVE  TransferInv'
  <2>1. revs[n] \in Manifests(Bytes) /\ Sound(job[c], folder[c]) /\ folder[c] \in Folders
    BY <1>3 DEF TransferInv, ServerTyped
  <2>2. Sound([job[c] EXCEPT !.pc = "pull", !.man = revs[n], !.todo = DOMAIN revs[n]], folder[c])
    BY <1>1, <2>1, PullSound
  <2>. QED BY <1>1, <1>3, <2>2, JobMoves DEF Set
<1>. QED BY <1>2, <1>3 DEF Detail

LEMMA DownloadStep ==
  ASSUME TransferInv, NEW c \in Clients, NEW f \in Files, DownloadFile(c, f)
  PROVE  TransferInv'
<1>. DEFINE j == job[c]
            v == Served(c, f)
            mine == folder[c]
<1>1. /\ ServerTyped' /\ ServerTyped /\ j.pc = "pull" /\ f \in j.todo
      /\ Sound(j, mine) /\ mine \in Folders
  BY SameServer DEF DownloadFile, TransferInv
<1>2. v \in Bytes \cup {"none"}
  <2>1. ASSUME NEW n \in DOMAIN revs, NEW g \in DOMAIN revs[n]
        PROVE  revs[n][g] \in Bytes
    BY <1>1, <2>1, ManifestTyped DEF ServerTyped
  <2>. QED BY <2>1 DEF Served
<1>3. CASE Skips(c, f) /\ Set(c, [j EXCEPT !.todo = @ \ {f}]) /\ UNCHANGED folder
  <2>1. Sound([j EXCEPT !.todo = @ \ {f}], mine)
    BY <1>1, <1>3, PullSound DEF Skips
  <2>. QED BY <1>1, <1>3, <2>1, JobMoves DEF Set
<1>4. CASE UNCHANGED folder /\ Fail(c)
  BY <1>1, <1>4, JobFails DEF Over
<1>5. ASSUME NEW w \in Bytes \cup {"none"}, Landed(c, f, w), Fail(c)
      PROVE  TransferInv'
  <2>. DEFINE dir == [mine EXCEPT ![f] = w]
  <2>1. folder' = [folder EXCEPT ![c] = dir] /\ dir \in Folders
    BY <1>1, <1>5 DEF Landed, Folders
  <2>2. Sound([j EXCEPT !.pc = "error"], dir)
    BY <1>1, FailSound DEF Over
  <2>. QED BY <1>1, <1>5, <2>1, <2>2, Moves DEF Fail, Set
<1>6. CASE v # "none" /\ v = j.man[f] /\ Landed(c, f, v)
           /\ Set(c, [j EXCEPT !.todo = @ \ {f}, !.edited = @ \ {f}])
  <2>. DEFINE dir == [mine EXCEPT ![f] = j.man[f]]
  <2>1. folder' = [folder EXCEPT ![c] = dir] /\ dir \in Folders
    BY <1>1, <1>2, <1>6 DEF Landed, Folders
  <2>2. Sound([j EXCEPT !.todo = @ \ {f}, !.edited = @ \ {f}], dir)
    BY <1>1, PullSound
  <2>. QED BY <1>1, <1>6, <2>1, <2>2, Moves DEF Set
<1>7. "torn" \in Bytes
  BY DEF Bytes
<1>. QED BY <1>2, <1>3, <1>4, <1>5, <1>6, <1>7 DEF DownloadFile

LEMMA PullEndStep ==
  ASSUME TransferInv, NEW c \in Clients, PullEnds(c)
  PROVE  TransferInv'
<1>1. /\ ServerTyped' /\ folder' = folder /\ job[c].pc = "pull" /\ job[c].todo = {}
      /\ Sound(job[c], folder[c]) /\ folder[c] \in Folders
  BY SameServer DEF PullEnds, TransferInv
<1>2. Sound([job[c] EXCEPT !.pc = "pulled"], folder[c])
  BY <1>1, PullSound
<1>. QED BY <1>1, <1>2, JobMoves DEF PullEnds, Set

LEMMA EditStep ==
  ASSUME TransferInv, NEW c \in Clients, NEW f \in Files, NEW v \in Contents \cup {"none"}, Edit(c, f, v)
  PROVE  TransferInv'
<1>. DEFINE dir == [folder[c] EXCEPT ![f] = v]
<1>1. ServerTyped' /\ Sound(job[c], folder[c]) /\ folder[c] \in Folders
  BY SameServer DEF Edit, TransferInv
<1>2. folder' = [folder EXCEPT ![c] = dir] /\ dir \in Folders
  BY <1>1 DEF Edit, Folders, Bytes
<1>3. Sound([job[c] EXCEPT !.edited = @ \cup {f}], dir)
  BY <1>1, EditSound
<1>. QED BY <1>1, <1>2, <1>3, Moves DEF Edit, Set

(* Steps of the server and of colleagues. *)
LEMMA ServerStep ==
  ASSUME TransferInv, UNCHANGED <<folder, job>>,
         \/ \E m \in Others : OtherPush(m)
         \/ \E b \in Bytes : Collect(b)
         \/ \E n \in 1..MaxNumber : DeleteRevision(n)
  PROVE  TransferInv'
<1>1. ServerTyped
  BY DEF TransferInv
<1>2. ASSUME NEW m \in Others, OtherPush(m)
      PROVE  ServerTyped'
  <2>1. m \in Manifests(Bytes)
    <3>1. PICK S \in SUBSET Files : m \in [S -> Contents]
      BY TransferAssumptions DEF Manifests
    <3>2. m \in [S -> Bytes]
      BY <3>1 DEF Bytes
    <3>. QED BY <3>2, ManifestIs
  <2>2. \A b \in Range(m) : b \in Bytes
    BY <2>1, ManifestTyped DEF Range
  <2>. QED BY <1>1, <1>2, <2>1, <2>2, CommitTyped DEF OtherPush, ServerTyped
<1>3. ASSUME NEW b \in Bytes, Collect(b)
      PROVE  ServerTyped'
  BY <1>1, <1>3 DEF Collect, ServerTyped
<1>4. ASSUME NEW n \in 1..MaxNumber, DeleteRevision(n)
      PROVE  ServerTyped'
  BY <1>1, <1>4 DEF DeleteRevision, ServerTyped, Restrict
<1>5. ServerTyped'
  BY <1>2, <1>3, <1>4
<1>. QED BY <1>5 DEF TransferInv

LEMMA WorkStep ==
  ASSUME TransferInv, NEW c \in Clients, Works(c)
  PROVE  TransferInv'
  BY HashStep, CheckStep, UploadsFailStep, DetailStep, PullEndStep, UploadStep, DownloadStep DEF Works

LEMMA ClientStep ==
  ASSUME TransferInv, CliNext \/ FrontNext \/ DesktopNext
  PROVE  TransferInv'
<1>1. CASE CliNext
  <2>1. "cli" \in Clients /\ 0 \in Nat /\ HeadRevision \in Nat
    BY <1>1, HeadTyped DEF CliNext, TransferInv
  <2>2. ASSUME NEW p \in {0, HeadRevision}, PushFolder(p)
        PROVE  TransferInv'
    BY <2>1, <2>2, PushBegins DEF PushFolder
  <2>3. CASE ExecutePush
    BY <2>1, <2>3, MissingStep, RevisionStep DEF ExecutePush
  <2>. QED BY <1>1, <2>1, <2>2, <2>3, PullBegins DEF CliNext
<1>2. CASE FrontNext
  <2>1. "front" \in Clients /\ 0 \in Nat
    BY <1>2 DEF FrontNext
  <2>2. CASE PushFrontFolder
    BY <2>1, <2>2, PushBegins DEF PushFrontFolder
  <2>3. CASE ExecuteFrontPush
    BY <2>1, <2>3, MissingStep, BundleStep DEF ExecuteFrontPush
  <2>. QED BY <1>2, <2>2, <2>3 DEF FrontNext
<1>3. CASE DesktopNext
  <2>1. "desktop" \in Clients /\ 0 \in Nat
    BY <1>3 DEF DesktopNext
  <2>2. CASE DesktopPush
    BY <2>1, <2>2, PushBegins DEF DesktopPush
  <2>3. CASE ExecuteDesktopPush
    BY <2>1, <2>3, MissingStep, RevisionStep DEF ExecuteDesktopPush
  <2>. QED BY <1>3, <2>1, <2>2, <2>3, PullBegins DEF DesktopNext
<1>. QED BY <1>1, <1>2, <1>3

LEMMA TransferInvStep ==
  ASSUME TransferInv, [TransferNext]_transferVars
  PROVE  TransferInv'
<1>1. CASE UNCHANGED transferVars
  BY <1>1 DEF transferVars, TransferInv, ServerTyped
<1>2. ASSUME NEW m \in Others, OtherPush(m)
      PROVE  TransferInv'
  BY <1>2, ServerStep DEF OtherPush
<1>3. ASSUME NEW b \in Bytes, Collect(b)
      PROVE  TransferInv'
  BY <1>3, ServerStep DEF Collect
<1>4. ASSUME NEW n \in 1..MaxNumber, DeleteRevision(n)
      PROVE  TransferInv'
  BY <1>4, ServerStep DEF DeleteRevision
<1>. QED BY <1>1, <1>2, <1>3, <1>4, ClientStep, WorkStep, EditStep DEF TransferNext

LEMMA InitTransferInv == ASSUME TransferInit PROVE TransferInv
<1>1. \A c \in Clients : job[c] = Fresh /\ folder[c] \in Folders
  BY TransferAssumptions DEF TransferInit, Folders, Bytes
<1>2. Fresh \in Job /\ \A c \in Clients : Sound(job[c], folder[c])
  <2>1. [f \in Files |-> "none"] \in Folders
    BY DEF Folders
  <2>2. Fresh \in Job
    BY <2>1, FreshSound DEF Sound
  <2>. QED BY <1>1, <2>2, FreshSound
<1>3. ServerTyped
  BY DEF TransferInit, ServerTyped, Empty
<1>4. folder \in [Clients -> Folders] /\ job \in [Clients -> Job]
  BY <1>1, <1>2 DEF TransferInit
<1>. QED BY <1>2, <1>3, <1>4 DEF TransferInv

(* A push or pull that reports success moved exactly the files that nobody
   edited meanwhile, and a push makes at most one version: for the command
   line's push.rs, front.rs and pull.rs and the desktop's math.rs, whatever
   uploads fail, blobs are collected, revisions deleted or replies lost. *)
THEOREM TransfersAreSafe == TransferSpec => []TransfersSafe
<1>1. TransferInit => TransferInv
  BY InitTransferInv
<1>2. TransferInv /\ [TransferNext]_transferVars => TransferInv'
  BY TransferInvStep
<1>3. TransferInv => TransfersSafe
  <2>1. TransferInv => TransferTypeOK
    BY DEF TransferInv, TransferTypeOK, ServerTyped, Folders
  <2>2. ASSUME TransferInv, NEW c \in Clients
        PROVE  LET kept == Files \ job[c].edited
               IN  /\ job[c].pc \in {"ok", "pulled"} =>
                        \A f \in kept \cap DOMAIN job[c].man : folder[c][f] = job[c].man[f]
                   /\ job[c].pc = "ok" => kept \cap Present(c) \subseteq DOMAIN job[c].man
    BY <2>2 DEF TransferInv, Sound, Pushed, Pulled, Agrees, Lists, Present
  <2>3. TransferInv => CommittedOnce
    BY DEF TransferInv, Sound, Commits, CommittedOnce
  <2>. QED BY <2>1, <2>2, <2>3 DEF TransfersSafe, TransfersFaithful
<1>. QED BY <1>1, <1>2, <1>3, PTL DEF TransferSpec

-----------------------------------------------------------------------------
(***************************************************************************)
(* Signing in.  The codes are given out in order, each to one of the two   *)
(* who ask (Apart), so that the code of `sdt login` is gone only when its  *)
(* time ran out or its own token was made; and as long as no dialog was    *)
(* opened over another's request, whatever goes on in the dialog goes on   *)
(* alone: one timer, one flow or one poll (Alone).                         *)
(***************************************************************************)
InDialog(d) ==
  dialog.code = d \/ (\E f \in Flows : flow[f].code = d) \/ \E p \in Polls : poll[p].code = d

Issued(k) == \A d \in Codes : row[d] # "none" <=> d <= k

Unheld == \A d \in Codes : row[d] = "none" => minted[d] = 0 /\ cli.code # d /\ ~InDialog(d)

Apart == cli.code # 0 => ~InDialog(cli.code)

Rows == (\E k \in 0..MaxCodes : Issued(k)) /\ Unheld /\ Apart

(* What the code of `sdt login` has come to. *)
Excused == cli.code \in expired \cup lost

CliSound ==
  /\ cli.pc = "start" <=> cli.code = 0
  /\ cli.pc \notin {"idle", "stored"}
  /\ cli.code # 0 => (row[cli.code] = "gone" =>
       Excused \/ cli.pc = "done" \/ (cli.pc = "reply" /\ cli.reply = "token"))
  /\ cli.pc = "reply" => cli.reply # "none" /\ (cli.reply = "expired_token" => Excused)
  /\ BlipsSurvived

Asking == {f \in Flows : flow[f].pc # "idle"}

Alone ==
  /\ \A p \in Polls : poll[p].pc # "idle" => poll[p].code # 0
  /\ ~dialog.open => ~dialog.timer
  /\ dialog.open \/ dialog.cancelled \/ (Asking = {} /\ Busy = {})
  /\ raced \/ /\ \A p, q \in Busy : p = q
              /\ \A f, g \in Asking : f = g
              /\ Asking = {} \/ Busy = {}
              /\ dialog.timer => Asking = {} /\ Busy = {}

Minted ==
  /\ \A d \in Codes : minted[d] > 0 => row[d] = "gone"
  /\ cli.pc = "mint" => minted[cli.code] = 0
  /\ raced \/ \A p \in Polls : poll[p].pc = "mint" => minted[poll[p].code] = 0
  /\ OneTokenPerSignIn

LoginInv == LoginTypeOK /\ Rows /\ CliSound /\ Alone /\ Minted

(* The next code to be given out is the first that nobody has. *)
LEMMA FreshCode ==
  ASSUME LoginTypeOK, NEW k \in 0..MaxCodes, Issued(k)
  PROVE  NextCode = k + 1
<1>1. {d \in Codes : row[d] # "none"} = 1..k
  BY LoginAssumption DEF Issued, Codes
<1>2. Cardinality(1..k) = k
  BY FS_Interval
<1>. QED BY <1>1, <1>2 DEF NextCode

LEMMA RowsFrame ==
  ASSUME LoginTypeOK, Rows, cli'.code = cli.code,
         \A d \in Codes : /\ row'[d] = "none" <=> row[d] = "none"
                          /\ row[d] = "none" => minted'[d] = minted[d]
                          /\ InDialog(d)' => InDialog(d)
  PROVE  Rows'
<1>1. PICK k \in 0..MaxCodes : Issued(k)
  BY DEF Rows
<1>2. Issued(k)'
  BY <1>1 DEF Issued
<1>3. Unheld'
  BY DEF Rows, Unheld
<1>4. Apart'
  <2>1. cli.code # 0 => cli.code \in Codes
    BY DEF LoginTypeOK, Poll, Codes
  <2>. QED BY <2>1 DEF Rows, Apart
<1>. QED BY <1>2, <1>3, <1>4 DEF Rows

Dialogs == [open : BOOLEAN, code : 0..MaxCodes, cancelled : BOOLEAN, timer : BOOLEAN]

LEMMA DialogTyped ==
  ASSUME LoginTypeOK
  PROVE  /\ Closed(FALSE) \in Dialogs /\ Closed(~dialog.open) \in Dialogs
         /\ Scheduled \in Dialogs
<1>. dialog \in Dialogs /\ 0 \in 0..MaxCodes
  BY LoginAssumption DEF LoginTypeOK, Dialogs
<1>1. \A b \in BOOLEAN : [dialog EXCEPT !.timer = b] \in Dialogs
  BY DEF Dialogs
<1>2. \A c \in 0..MaxCodes :
        [dialog EXCEPT !.open = FALSE, !.cancelled = TRUE, !.timer = FALSE, !.code = c] \in Dialogs
  BY DEF Dialogs
<1>3. dialog.code \in 0..MaxCodes
  BY DEF Dialogs
<1>4. Closed(FALSE) \in Dialogs
  BY <1>2 DEF Closed
<1>5. Closed(TRUE) \in Dialogs
  BY <1>2, <1>3 DEF Closed
<1>6. Closed(~dialog.open) \in Dialogs
  <2>1. dialog.open \in BOOLEAN
    BY DEF Dialogs
  <2>2. CASE dialog.open = TRUE
    BY <1>2, <2>2 DEF Closed
  <2>3. CASE dialog.open = FALSE
    BY <1>2, <1>3 DEF Closed
  <2>. QED BY <2>1, <2>2, <2>3
<1>7. Scheduled \in Dialogs
  <2>1. (~dialog.cancelled) \in BOOLEAN
    OBVIOUS
  <2>. QED BY <1>1 DEF Scheduled
<1>. QED BY <1>4, <1>6, <1>7

LEMMA ReadTyped ==
  ASSUME LoginTypeOK, NEW q \in Poll, q.code # 0
  PROVE  /\ Read(q) \in Poll /\ Read(q).code = q.code /\ Read(q).pc \in {"mint", "reply"}
         /\ Read(q).pc = "mint" => row[q.code] = "approved"
  BY DEF Poll, Polling, Replies, Read

LEMMA GivenTyped ==
  ASSUME LoginTypeOK, NEW q \in Poll
  PROVE  Given(q) \in Poll /\ Given(q).code = q.code /\ Given(q).pc = "reply" /\ Given(q).reply = "token"
  BY DEF Poll, Polling, Replies, Given

LEMMA MintTyped ==
  ASSUME LoginTypeOK, NEW d \in Codes, Mint(d)
  PROVE  minted' \in [Codes -> Nat]
  BY DEF LoginTypeOK, Mint

LEMMA LoginStep ==
  ASSUME LoginInv, [LoginNext]_loginVars
  PROVE  LoginInv'
<1>. USE LoginAssumption
<1>t. LoginTypeOK /\ Rows /\ CliSound /\ Alone /\ Minted
  BY DEF LoginInv
<1>w. /\ cli.pc # "start" => cli.code \in Codes
      /\ \A p \in Polls : poll[p].pc # "idle" => poll[p].code \in Codes
  BY <1>t DEF LoginTypeOK, Poll, CliSound, Alone, Codes
<1>n. PICK k \in 0..MaxCodes : Issued(k) /\ NextCode = k + 1
  BY <1>t, FreshCode DEF Rows
<1>1. ASSUME NEW c \in Codes, Expire(c) PROVE LoginInv'
  <2>1. LoginTypeOK'
    BY <1>1, <1>t, <1>w DEF LoginTypeOK, Poll, Replies, Polling, NoPoll, NoFlow, Expire, server, stored
  <2>2. \A d \in Codes : InDialog(d)' => InDialog(d)
    BY <1>1 DEF InDialog, Expire
  <2>3. Rows'
    <3>1. /\ \A d \in Codes : /\ row'[d] = "none" <=> row[d] = "none"
                              /\ row[d] = "none" => minted'[d] = minted[d]
          /\ cli'.code = cli.code
      BY <1>1, <1>t DEF Expire
    <3>. QED BY <3>1, <2>2, <1>t, RowsFrame
  <2>4. CliSound'
    BY <1>1, <1>t, <2>1 DEF LoginTypeOK, Poll, Replies, Rows, Unheld, Apart, InDialog, Alone, CliSound,
       BlipsSurvived, Excused, Codes, Expire, server, stored
  <2>5. Alone'
    BY <1>1, <1>t, <2>1 DEF LoginTypeOK, Poll, Alone, Busy, Asking, NoPoll, NoFlow, Codes, Expire,
       server, stored
  <2>6. Minted'
    BY <1>1, <1>t, <2>1 DEF LoginTypeOK, Poll, Rows, Unheld, Apart, InDialog, Alone, Busy, CliSound,
       Minted, OneTokenPerSignIn, NoPoll, Codes, Expire, server, stored
  <2>. QED BY <2>1, <2>3, <2>4, <2>5, <2>6 DEF LoginInv
<1>2. ASSUME NEW c \in Codes, NEW yes \in BOOLEAN, ApproveDevice(c, yes) PROVE LoginInv'
  <2>1. LoginTypeOK'
    BY <1>2, <1>t, <1>w DEF LoginTypeOK, Poll, Replies, Polling, NoPoll, NoFlow, ApproveDevice, server,
       stored
  <2>2. \A d \in Codes : InDialog(d)' => InDialog(d)
    BY <1>2 DEF InDialog, ApproveDevice
  <2>3. Rows'
    <3>1. /\ \A d \in Codes : /\ row'[d] = "none" <=> row[d] = "none"
                              /\ row[d] = "none" => minted'[d] = minted[d]
          /\ cli'.code = cli.code
      BY <1>2, <1>t DEF ApproveDevice
    <3>. QED BY <3>1, <2>2, <1>t, RowsFrame
  <2>4. CliSound'
    BY <1>2, <1>t, <2>1 DEF LoginTypeOK, Poll, Replies, Rows, Unheld, Apart, InDialog, Alone, CliSound,
       BlipsSurvived, Excused, Codes, ApproveDevice, server, stored
  <2>5. Alone'
    BY <1>2, <1>t, <2>1 DEF LoginTypeOK, Poll, Alone, Busy, Asking, NoPoll, NoFlow, Codes,
       ApproveDevice, server, stored
  <2>6. Minted'
    BY <1>2, <1>t, <2>1 DEF LoginTypeOK, Poll, Rows, Unheld, Apart, InDialog, Alone, Busy, CliSound,
       Minted, OneTokenPerSignIn, NoPoll, Codes, ApproveDevice, server, stored
  <2>. QED BY <2>1, <2>3, <2>4, <2>5, <2>6 DEF LoginInv
<1>3. CASE CliStart
  <2>1. LoginTypeOK'
    <3>k. k + 1 \in 0..MaxCodes
      BY <1>3, <1>n DEF CliStart, CreateCode, Codes
    <3>1. row' \in [Codes -> {"none", "pending", "approved", "denied", "gone"}] /\ lost' \subseteq Codes /\ expired' \subseteq Codes
      BY <1>3, <1>t, <1>w, <1>n, FreshCode DEF LoginTypeOK, CliStart, CreateCode
    <3>2. minted' \in [Codes -> Nat] /\ cli' \in Poll
      BY <1>3, <1>t, <1>n, <3>k DEF LoginTypeOK, Poll, Polling, CliStart
    <3>3. poll' \in [Polls -> Poll] /\ \A x \in Polls : poll'[x].pc = "idle" <=> poll'[x] = NoPoll
      BY <1>3, <1>t, <1>w, <1>n, FreshCode DEF LoginTypeOK, CliStart
    <3>4. /\ dialog' \in [open : BOOLEAN, code : 0..MaxCodes, cancelled : BOOLEAN, timer : BOOLEAN]
          /\ flow' \in [Flows -> [pc : {"idle", "request", "granted", "browser"}, code : 0..MaxCodes]]
          /\ keyring' \in 0..MaxCodes /\ signedIn' \in 0..MaxCodes /\ raced' \in BOOLEAN
      BY <1>3, <1>t, <1>w, <1>n, FreshCode
         DEF LoginTypeOK, Poll, Replies, Polling, NoPoll, NoFlow, Codes, CliStart, CreateCode, server,
         stored
    <3>. QED BY <3>1, <3>2, <3>3, <3>4 DEF LoginTypeOK
  <2>2. \A d \in Codes : InDialog(d)' => InDialog(d)
    BY <1>3 DEF InDialog, CliStart
  <2>3. Rows'
    <3>1. row[k + 1] = "none" /\ k + 1 \in Codes /\ row' = [row EXCEPT ![k + 1] = "pending"] /\ minted' = minted
      BY <1>3, <1>n DEF Issued, CliStart, CreateCode
    <3>2. Issued(k + 1)' /\ k + 1 \in 0..MaxCodes
      BY <3>1, <1>t, <1>n DEF LoginTypeOK, Issued, Codes
    <3>3. Unheld'
      BY <1>3, <3>1, <2>2, <1>t, <1>n DEF LoginTypeOK, Poll, Rows, Unheld, Codes, CliStart, CreateCode,
         server, stored
    <3>4. Apart'
      BY <1>3, <3>1, <2>2, <1>t, <1>n DEF LoginTypeOK, Poll, Rows, Unheld, Apart, Codes, CliStart,
         CreateCode, server, stored
    <3>. QED BY <3>2, <3>3, <3>4 DEF Rows
  <2>4. CliSound'
    BY <1>3, <1>t, <2>1, <1>n, FreshCode
       DEF LoginTypeOK, CliSound, BlipsSurvived, Codes, CliStart, CreateCode, server, stored
  <2>5. Alone'
    BY <1>3, <1>t, <2>1 DEF Alone, Busy, Asking, CliStart, stored
  <2>6. Minted'
    <3>1. row[k + 1] = "none" /\ k + 1 \in Codes /\ row' = [row EXCEPT ![k + 1] = "pending"] /\ minted' = minted
      BY <1>3, <1>n DEF Issued, CliStart, CreateCode
    <3>2. minted[k + 1] = 0
      BY <3>1, <1>t DEF Rows, Unheld
    <3>3. UNCHANGED <<poll, raced>> /\ cli'.pc = "sleep"
      BY <1>3 DEF CliStart, stored
    <3>. QED BY <3>1, <3>3, <1>t DEF Minted, OneTokenPerSignIn
  <2>. QED BY <2>1, <2>3, <2>4, <2>5, <2>6 DEF LoginInv
<1>4. CASE CliPoll
  <2>1. LoginTypeOK'
    BY <1>4, <1>t, <1>w DEF LoginTypeOK, Poll, Replies, Polling, NoPoll, NoFlow, CliPoll, server, stored
  <2>2. \A d \in Codes : InDialog(d)' => InDialog(d)
    BY <1>4 DEF InDialog, CliPoll
  <2>3. Rows'
    <3>1. /\ \A d \in Codes : /\ row'[d] = "none" <=> row[d] = "none"
                              /\ row[d] = "none" => minted'[d] = minted[d]
          /\ cli'.code = cli.code
      BY <1>4, <1>t DEF CliPoll, server
    <3>. QED BY <3>1, <2>2, <1>t, RowsFrame
  <2>4. CliSound'
    BY <1>4, <1>t, <2>1 DEF LoginTypeOK, Poll, Replies, Rows, Unheld, Apart, InDialog, Alone, CliSound,
       BlipsSurvived, Excused, Codes, CliPoll, server, stored
  <2>5. Alone'
    BY <1>4, <1>t, <2>1 DEF LoginTypeOK, Poll, Alone, Busy, Asking, NoPoll, NoFlow, Codes, CliPoll,
       server, stored
  <2>6. Minted'
    BY <1>4, <1>t, <2>1 DEF LoginTypeOK, Poll, Rows, Unheld, Apart, InDialog, Alone, Busy, CliSound,
       Minted, OneTokenPerSignIn, NoPoll, Codes, CliPoll, server, stored
  <2>. QED BY <2>1, <2>3, <2>4, <2>5, <2>6 DEF LoginInv
<1>5. CASE CliRead
  <2>1. LoginTypeOK'
    BY <1>5, <1>t, <1>w DEF LoginTypeOK, Poll, Replies, Polling, NoPoll, NoFlow, CliRead, Read, server,
       stored
  <2>2. \A d \in Codes : InDialog(d)' => InDialog(d)
    BY <1>5 DEF InDialog, CliRead
  <2>3. Rows'
    <3>1. /\ \A d \in Codes : /\ row'[d] = "none" <=> row[d] = "none"
                              /\ row[d] = "none" => minted'[d] = minted[d]
          /\ cli'.code = cli.code
      BY <1>5, <1>t DEF LoginTypeOK, Poll, Rows, Unheld, Alone, CliSound, InDialog, Codes, CliRead,
         Read, server, stored
    <3>. QED BY <3>1, <2>2, <1>t, RowsFrame
  <2>4. CliSound'
    BY <1>5, <1>t, <2>1 DEF LoginTypeOK, Poll, Replies, Rows, Unheld, Apart, InDialog, Alone, CliSound,
       BlipsSurvived, Excused, Codes, CliRead, Read, server, stored
  <2>5. Alone'
    BY <1>5, <1>t, <2>1 DEF Alone, Busy, Asking, CliRead, stored
  <2>6. Minted'
    BY <1>5, <1>t, <2>1 DEF LoginTypeOK, Poll, Rows, Unheld, Apart, InDialog, Alone, Busy, CliSound,
       Minted, OneTokenPerSignIn, NoPoll, Codes, CliRead, Read, server, stored
  <2>. QED BY <2>1, <2>3, <2>4, <2>5, <2>6 DEF LoginInv
<1>6. CASE CliMint
  <2>1. LoginTypeOK'
    <3>1. row' \in [Codes -> {"none", "pending", "approved", "denied", "gone"}] /\ lost' \subseteq Codes /\ expired' \subseteq Codes
      BY <1>6, <1>t, <1>w DEF LoginTypeOK, CliMint, Mint, stored
    <3>2. minted' \in [Codes -> Nat] /\ cli' \in Poll
      BY <1>6, <1>t, <1>w, MintTyped, GivenTyped DEF LoginTypeOK, CliMint
    <3>3. poll' \in [Polls -> Poll] /\ \A x \in Polls : poll'[x].pc = "idle" <=> poll'[x] = NoPoll
      BY <1>6, <1>t, <1>w DEF LoginTypeOK, CliMint, stored
    <3>4. /\ dialog' \in [open : BOOLEAN, code : 0..MaxCodes, cancelled : BOOLEAN, timer : BOOLEAN]
          /\ flow' \in [Flows -> [pc : {"idle", "request", "granted", "browser"}, code : 0..MaxCodes]]
          /\ keyring' \in 0..MaxCodes /\ signedIn' \in 0..MaxCodes /\ raced' \in BOOLEAN
      BY <1>6, <1>t, <1>w DEF LoginTypeOK, CliMint, stored
    <3>. QED BY <3>1, <3>2, <3>3, <3>4 DEF LoginTypeOK
  <2>2. \A d \in Codes : InDialog(d)' => InDialog(d)
    BY <1>6, <1>t DEF LoginTypeOK, InDialog, NoPoll, NoFlow, Codes, CliMint, Mint, Given, server, stored
  <2>3. Rows'
    <3>1. /\ \A d \in Codes : /\ row'[d] = "none" <=> row[d] = "none"
                              /\ row[d] = "none" => minted'[d] = minted[d]
          /\ cli'.code = cli.code
      BY <1>6, <1>t DEF LoginTypeOK, Poll, Rows, Unheld, Alone, CliSound, InDialog, Codes, CliMint,
         Mint, Given, server, stored
    <3>. QED BY <3>1, <2>2, <1>t, RowsFrame
  <2>4. CliSound'
    BY <1>6, <1>t, <2>1 DEF CliSound, BlipsSurvived, Codes, CliMint, Mint, Given, server, stored
  <2>5. Alone'
    BY <1>6, <1>t, <2>1 DEF Alone, Busy, Asking, CliMint, server, stored
  <2>6. Minted'
    BY <1>6, <1>t, <2>1 DEF LoginTypeOK, Poll, Rows, Unheld, Apart, InDialog, Alone, Busy, CliSound,
       Minted, OneTokenPerSignIn, NoPoll, Codes, CliMint, Mint, Given, server, stored
  <2>. QED BY <2>1, <2>3, <2>4, <2>5, <2>6 DEF LoginInv
<1>7. CASE CliReply
  <2>1. LoginTypeOK'
    BY <1>7, <1>t, <1>w DEF LoginTypeOK, Poll, Replies, Polling, NoPoll, NoFlow, CliReply, server,
       stored
  <2>2. \A d \in Codes : InDialog(d)' => InDialog(d)
    BY <1>7 DEF InDialog, CliReply
  <2>3. Rows'
    <3>1. /\ \A d \in Codes : /\ row'[d] = "none" <=> row[d] = "none"
                              /\ row[d] = "none" => minted'[d] = minted[d]
          /\ cli'.code = cli.code
      BY <1>7, <1>t DEF CliReply, server
    <3>. QED BY <3>1, <2>2, <1>t, RowsFrame
  <2>4. CliSound'
    BY <1>7, <1>t, <2>1 DEF LoginTypeOK, Poll, Replies, Rows, Unheld, Apart, InDialog, Alone, CliSound,
       BlipsSurvived, Excused, Codes, CliReply, server, stored
  <2>5. Alone'
    BY <1>7, <1>t, <2>1 DEF LoginTypeOK, Poll, Alone, Busy, Asking, NoPoll, NoFlow, Codes, CliReply,
       server, stored
  <2>6. Minted'
    BY <1>7, <1>t, <2>1 DEF LoginTypeOK, Poll, Rows, Unheld, Apart, InDialog, Alone, Busy, CliSound,
       Minted, OneTokenPerSignIn, NoPoll, Codes, CliReply, server, stored
  <2>. QED BY <2>1, <2>3, <2>4, <2>5, <2>6 DEF LoginInv
<1>8. CASE CliBlip
  <2>1. LoginTypeOK'
    <3>1. row' \in [Codes -> {"none", "pending", "approved", "denied", "gone"}] /\ lost' \subseteq Codes /\ expired' \subseteq Codes
      BY <1>8, <1>t, <1>w DEF LoginTypeOK, CliBlip, Losing, server, stored
    <3>2. minted' \in [Codes -> Nat] /\ cli' \in Poll
      BY <1>8, <1>t, <1>w DEF LoginTypeOK, Poll, Replies, Polling, NoPoll, NoFlow, Codes, CliBlip,
         Blip, Losing, AfterBlip, server, stored
    <3>3. poll' \in [Polls -> Poll] /\ \A x \in Polls : poll'[x].pc = "idle" <=> poll'[x] = NoPoll
      BY <1>8, <1>t, <1>w DEF LoginTypeOK, CliBlip, server, stored
    <3>4. /\ dialog' \in [open : BOOLEAN, code : 0..MaxCodes, cancelled : BOOLEAN, timer : BOOLEAN]
          /\ flow' \in [Flows -> [pc : {"idle", "request", "granted", "browser"}, code : 0..MaxCodes]]
          /\ keyring' \in 0..MaxCodes /\ signedIn' \in 0..MaxCodes /\ raced' \in BOOLEAN
      BY <1>8, <1>t, <1>w DEF LoginTypeOK, CliBlip, server, stored
    <3>. QED BY <3>1, <3>2, <3>3, <3>4 DEF LoginTypeOK
  <2>2. \A d \in Codes : InDialog(d)' => InDialog(d)
    BY <1>8, <1>t DEF InDialog, CliBlip
  <2>3. Rows'
    <3>1. /\ \A d \in Codes : /\ row'[d] = "none" <=> row[d] = "none"
                              /\ row[d] = "none" => minted'[d] = minted[d]
          /\ cli'.code = cli.code
      BY <1>8, <1>t DEF CliBlip, AfterBlip, server, stored
    <3>. QED BY <3>1, <2>2, <1>t, RowsFrame
  <2>4. CliSound'
    BY <1>8, <1>t, <2>1 DEF LoginTypeOK, Poll, Replies, Rows, Unheld, Apart, InDialog, Alone, CliSound,
       BlipsSurvived, Excused, Codes, CliBlip, Blip, Losing, AfterBlip, server, stored
  <2>5. Alone'
    BY <1>8, <1>t, <2>1 DEF Alone, Busy, Asking, CliBlip, AfterBlip, server, stored
  <2>6. Minted'
    BY <1>8, <1>t, <2>1 DEF LoginTypeOK, Poll, Rows, Unheld, Apart, InDialog, Alone, Busy, CliSound,
       Minted, OneTokenPerSignIn, NoPoll, Codes, CliBlip, Blip, Losing, AfterBlip, server, stored
  <2>. QED BY <2>1, <2>3, <2>4, <2>5, <2>6 DEF LoginInv
<1>9. CASE CliTimesOut
  <2>1. LoginTypeOK'
    BY <1>9, <1>t, <1>w DEF LoginTypeOK, Poll, Replies, Polling, NoPoll, NoFlow, CliTimesOut, server,
       stored
  <2>2. \A d \in Codes : InDialog(d)' => InDialog(d)
    BY <1>9 DEF InDialog, CliTimesOut
  <2>3. Rows'
    <3>1. /\ \A d \in Codes : /\ row'[d] = "none" <=> row[d] = "none"
                              /\ row[d] = "none" => minted'[d] = minted[d]
          /\ cli'.code = cli.code
      BY <1>9, <1>t DEF CliTimesOut, server
    <3>. QED BY <3>1, <2>2, <1>t, RowsFrame
  <2>4. CliSound'
    BY <1>9, <1>t, <2>1 DEF LoginTypeOK, Poll, Replies, Rows, Unheld, Apart, InDialog, Alone, CliSound,
       BlipsSurvived, Excused, Codes, CliTimesOut, server, stored
  <2>5. Alone'
    BY <1>9, <1>t, <2>1 DEF LoginTypeOK, Poll, Alone, Busy, Asking, NoPoll, NoFlow, Codes, CliTimesOut,
       server, stored
  <2>6. Minted'
    BY <1>9, <1>t, <2>1 DEF LoginTypeOK, Poll, Rows, Unheld, Apart, InDialog, Alone, Busy, CliSound,
       Minted, OneTokenPerSignIn, NoPoll, Codes, CliTimesOut, server, stored
  <2>. QED BY <2>1, <2>3, <2>4, <2>5, <2>6 DEF LoginInv
<1>10. ASSUME NEW f \in Flows, OpenDialog(f) PROVE LoginInv'
  <2>1. LoginTypeOK'
    BY <1>10, <1>t, <1>w DEF LoginTypeOK, Poll, Replies, Polling, NoPoll, NoFlow, OpenDialog, server,
       stored
  <2>2. \A d \in Codes : InDialog(d)' => InDialog(d)
    BY <1>10 DEF InDialog, OpenDialog
  <2>3. Rows'
    <3>1. /\ \A d \in Codes : /\ row'[d] = "none" <=> row[d] = "none"
                              /\ row[d] = "none" => minted'[d] = minted[d]
          /\ cli'.code = cli.code
      BY <1>10, <1>t DEF OpenDialog, server
    <3>. QED BY <3>1, <2>2, <1>t, RowsFrame
  <2>4. CliSound'
    BY <1>10, <1>t, <2>1 DEF LoginTypeOK, Poll, Replies, Rows, Unheld, Apart, InDialog, Alone,
       CliSound, BlipsSurvived, Excused, Codes, OpenDialog, server, stored
  <2>5. Alone'
    BY <1>10, <1>t, <2>1 DEF LoginTypeOK, Alone, Busy, Asking, OpenDialog
  <2>6. Minted'
    BY <1>10, <1>t, <2>1 DEF LoginTypeOK, Poll, Rows, Unheld, Apart, InDialog, Alone, Busy, CliSound,
       Minted, OneTokenPerSignIn, NoPoll, Codes, OpenDialog, server, stored
  <2>. QED BY <2>1, <2>3, <2>4, <2>5, <2>6 DEF LoginInv
<1>11. ASSUME NEW f \in Flows, RequestDeviceCode(f) PROVE LoginInv'
  <2>1. LoginTypeOK'
    <3>1. row' \in [Codes -> {"none", "pending", "approved", "denied", "gone"}] /\ lost' \subseteq Codes /\ expired' \subseteq Codes
      BY <1>11, <1>t, <1>w, <1>n, FreshCode DEF LoginTypeOK, RequestDeviceCode, CreateCode
    <3>2. minted' \in [Codes -> Nat] /\ cli' \in Poll
      BY <1>11, <1>t, <1>w, <1>n, FreshCode DEF LoginTypeOK, RequestDeviceCode
    <3>3. poll' \in [Polls -> Poll] /\ \A x \in Polls : poll'[x].pc = "idle" <=> poll'[x] = NoPoll
      BY <1>11, <1>t, <1>w, <1>n, FreshCode DEF LoginTypeOK, RequestDeviceCode
    <3>4. /\ dialog' \in [open : BOOLEAN, code : 0..MaxCodes, cancelled : BOOLEAN, timer : BOOLEAN]
          /\ flow' \in [Flows -> [pc : {"idle", "request", "granted", "browser"}, code : 0..MaxCodes]]
          /\ keyring' \in 0..MaxCodes /\ signedIn' \in 0..MaxCodes /\ raced' \in BOOLEAN
      BY <1>11, <1>t, <1>w, <1>n, FreshCode
         DEF LoginTypeOK, Poll, Replies, Polling, NoPoll, NoFlow, Codes, RequestDeviceCode, CreateCode,
         server, stored
    <3>. QED BY <3>1, <3>2, <3>3, <3>4 DEF LoginTypeOK
  <2>2. \A d \in Codes : InDialog(d)' => InDialog(d) \/ d = NextCode
    BY <1>11 DEF InDialog, RequestDeviceCode
  <2>3. Rows'
    <3>1. row[k + 1] = "none" /\ k + 1 \in Codes /\ row' = [row EXCEPT ![k + 1] = "pending"] /\ minted' = minted
      BY <1>11, <1>n DEF Issued, RequestDeviceCode, CreateCode
    <3>2. Issued(k + 1)' /\ k + 1 \in 0..MaxCodes
      BY <3>1, <1>t, <1>n DEF LoginTypeOK, Issued, Codes
    <3>3. Unheld'
      BY <1>11, <3>1, <2>2, <1>t, <1>n DEF LoginTypeOK, Poll, Rows, Unheld, Codes, RequestDeviceCode,
         CreateCode, server, stored
    <3>4. Apart'
      BY <1>11, <3>1, <2>2, <1>t, <1>n
         DEF LoginTypeOK, Poll, Rows, Unheld, Apart, Codes, RequestDeviceCode, CreateCode, server,
         stored
    <3>. QED BY <3>2, <3>3, <3>4 DEF Rows
  <2>4. CliSound'
    BY <1>11, <1>t, <2>1, <1>n, FreshCode
       DEF LoginTypeOK, Poll, Replies, Rows, Unheld, Apart, InDialog, Alone, CliSound, BlipsSurvived,
       Excused, Codes, RequestDeviceCode, CreateCode, server, stored
  <2>5. Alone'
    BY <1>11, <1>t, <2>1 DEF Alone, Busy, Asking, RequestDeviceCode, stored
  <2>6. Minted'
    <3>1. row[k + 1] = "none" /\ k + 1 \in Codes /\ row' = [row EXCEPT ![k + 1] = "pending"] /\ minted' = minted
      BY <1>11, <1>n DEF Issued, RequestDeviceCode, CreateCode
    <3>2. minted[k + 1] = 0
      BY <3>1, <1>t DEF Rows, Unheld
    <3>3. UNCHANGED <<poll, raced, cli>>
      BY <1>11 DEF RequestDeviceCode, stored
    <3>. QED BY <3>1, <3>3, <1>t DEF Minted, OneTokenPerSignIn
  <2>. QED BY <2>1, <2>3, <2>4, <2>5, <2>6 DEF LoginInv
<1>12. ASSUME NEW f \in Flows, RequestFails(f) PROVE LoginInv'
  <2>1. LoginTypeOK'
    <3>1. row' \in [Codes -> {"none", "pending", "approved", "denied", "gone"}] /\ lost' \subseteq Codes /\ expired' \subseteq Codes
      BY <1>12, <1>t, <1>w DEF LoginTypeOK, Poll, Replies, Polling, NoPoll, NoFlow, Codes,
         RequestFails, Blip, Closed, server, stored
    <3>2. minted' \in [Codes -> Nat] /\ cli' \in Poll
      BY <1>12, <1>t, <1>w DEF LoginTypeOK, Poll, Replies, Polling, NoPoll, NoFlow, Codes,
         RequestFails, Blip, Closed, server, stored
    <3>3. poll' \in [Polls -> Poll] /\ \A x \in Polls : poll'[x].pc = "idle" <=> poll'[x] = NoPoll
      BY <1>12, <1>t, <1>w DEF LoginTypeOK, RequestFails, stored
    <3>d. dialog' \in Dialogs
      BY <1>12, <1>t, DialogTyped DEF LoginTypeOK, Dialogs, RequestFails
    <3>4. /\ flow' \in [Flows -> [pc : {"idle", "request", "granted", "browser"}, code : 0..MaxCodes]]
          /\ keyring' \in 0..MaxCodes /\ signedIn' \in 0..MaxCodes /\ raced' \in BOOLEAN
      BY <1>12, <1>t, <1>w DEF LoginTypeOK, NoFlow, RequestFails, stored
    <3>. QED BY <3>1, <3>2, <3>3, <3>d, <3>4 DEF LoginTypeOK, Dialogs
  <2>2. \A d \in Codes : InDialog(d)' => InDialog(d)
    BY <1>12, <1>t DEF LoginTypeOK, InDialog, NoPoll, NoFlow, Codes, RequestFails, Blip, Closed,
       server, stored
  <2>3. Rows'
    <3>1. /\ \A d \in Codes : /\ row'[d] = "none" <=> row[d] = "none"
                              /\ row[d] = "none" => minted'[d] = minted[d]
          /\ cli'.code = cli.code
      BY <1>12, <1>t DEF RequestFails, server, stored
    <3>. QED BY <3>1, <2>2, <1>t, RowsFrame
  <2>4. CliSound'
    BY <1>12, <1>t, <2>1 DEF LoginTypeOK, Poll, Replies, Rows, Unheld, Apart, InDialog, Alone,
       CliSound, BlipsSurvived, Excused, Codes, RequestFails, Blip, Closed, server, stored
  <2>5. Alone'
    BY <1>12, <1>t, <2>1 DEF LoginTypeOK, Poll, Alone, Busy, Asking, NoPoll, NoFlow, Codes,
       RequestFails, Blip, Closed, server, stored
  <2>6. Minted'
    BY <1>12, <1>t, <2>1 DEF LoginTypeOK, Poll, Rows, Unheld, Apart, InDialog, Alone, Busy, CliSound,
       Minted, OneTokenPerSignIn, NoPoll, Codes, RequestFails, Blip, Closed, server, stored
  <2>. QED BY <2>1, <2>3, <2>4, <2>5, <2>6 DEF LoginInv
<1>13. ASSUME NEW f \in Flows, ShowCode(f) PROVE LoginInv'
  <2>1. LoginTypeOK'
    BY <1>13, <1>t, <1>w DEF LoginTypeOK, Poll, Replies, Polling, NoPoll, NoFlow, ShowCode, server,
       stored
  <2>2. \A d \in Codes : InDialog(d)' => InDialog(d)
    BY <1>13 DEF InDialog, Codes, ShowCode
  <2>3. Rows'
    <3>1. /\ \A d \in Codes : /\ row'[d] = "none" <=> row[d] = "none"
                              /\ row[d] = "none" => minted'[d] = minted[d]
          /\ cli'.code = cli.code
      BY <1>13, <1>t DEF ShowCode, server
    <3>. QED BY <3>1, <2>2, <1>t, RowsFrame
  <2>4. CliSound'
    BY <1>13, <1>t, <2>1 DEF LoginTypeOK, Poll, Replies, Rows, Unheld, Apart, InDialog, Alone,
       CliSound, BlipsSurvived, Excused, Codes, ShowCode, server, stored
  <2>5. Alone'
    BY <1>13, <1>t, <2>1 DEF LoginTypeOK, Poll, Alone, Busy, Asking, NoPoll, NoFlow, Codes, ShowCode,
       server, stored
  <2>6. Minted'
    BY <1>13, <1>t, <2>1 DEF LoginTypeOK, Poll, Rows, Unheld, Apart, InDialog, Alone, Busy, CliSound,
       Minted, OneTokenPerSignIn, NoPoll, Codes, ShowCode, server, stored
  <2>. QED BY <2>1, <2>3, <2>4, <2>5, <2>6 DEF LoginInv
<1>14. ASSUME NEW f \in Flows, FirstPoll(f) PROVE LoginInv'
  <2>1. LoginTypeOK'
    <3>1. row' \in [Codes -> {"none", "pending", "approved", "denied", "gone"}] /\ lost' \subseteq Codes /\ expired' \subseteq Codes
      BY <1>14, <1>t, <1>w DEF LoginTypeOK, FirstPoll, server
    <3>2. minted' \in [Codes -> Nat] /\ cli' \in Poll
      BY <1>14, <1>t, <1>w DEF LoginTypeOK, FirstPoll, server
    <3>3. poll' \in [Polls -> Poll] /\ \A x \in Polls : poll'[x].pc = "idle" <=> poll'[x] = NoPoll
      BY <1>14, <1>t, <1>w DEF LoginTypeOK, FirstPoll
    <3>d. dialog' \in Dialogs
      BY <1>14, <1>t, DialogTyped DEF FirstPoll
    <3>4. /\ flow' \in [Flows -> [pc : {"idle", "request", "granted", "browser"}, code : 0..MaxCodes]]
          /\ keyring' \in 0..MaxCodes /\ signedIn' \in 0..MaxCodes /\ raced' \in BOOLEAN
      BY <1>14, <1>t, <1>w DEF LoginTypeOK, Poll, Replies, Polling, NoPoll, NoFlow, Codes, FirstPoll,
         Scheduled, server, stored
    <3>. QED BY <3>1, <3>2, <3>3, <3>d, <3>4 DEF LoginTypeOK, Dialogs
  <2>2. \A d \in Codes : InDialog(d)' => InDialog(d)
    BY <1>14 DEF InDialog, NoFlow, Codes, FirstPoll, Scheduled
  <2>3. Rows'
    <3>1. /\ \A d \in Codes : /\ row'[d] = "none" <=> row[d] = "none"
                              /\ row[d] = "none" => minted'[d] = minted[d]
          /\ cli'.code = cli.code
      BY <1>14, <1>t DEF LoginTypeOK, Poll, Rows, Unheld, Alone, CliSound, InDialog, Codes, FirstPoll,
         Scheduled, server, stored
    <3>. QED BY <3>1, <2>2, <1>t, RowsFrame
  <2>4. CliSound'
    BY <1>14, <1>t, <2>1 DEF LoginTypeOK, Poll, Replies, Rows, Unheld, Apart, InDialog, Alone,
       CliSound, BlipsSurvived, Excused, Codes, FirstPoll, Scheduled, server, stored
  <2>5. Alone'
    BY <1>14, <1>t, <2>1 DEF LoginTypeOK, Alone, Busy, Asking, NoFlow, FirstPoll, Scheduled, stored
  <2>6. Minted'
    BY <1>14, <1>t, <2>1 DEF LoginTypeOK, Poll, Rows, Unheld, Apart, InDialog, Alone, Busy, CliSound,
       Minted, OneTokenPerSignIn, NoPoll, Codes, FirstPoll, Scheduled, server, stored
  <2>. QED BY <2>1, <2>3, <2>4, <2>5, <2>6 DEF LoginInv
<1>15. ASSUME NEW p \in Polls, PollOnce(p) PROVE LoginInv'
  <2>1. LoginTypeOK'
    BY <1>15, <1>t, <1>w DEF LoginTypeOK, Poll, Replies, Polling, NoPoll, NoFlow, PollOnce,
       TimerDuringPoll, server, stored
  <2>2. \A d \in Codes : InDialog(d)' => InDialog(d)
    BY <1>15 DEF InDialog, PollOnce
  <2>3. Rows'
    <3>1. /\ \A d \in Codes : /\ row'[d] = "none" <=> row[d] = "none"
                              /\ row[d] = "none" => minted'[d] = minted[d]
          /\ cli'.code = cli.code
      BY <1>15, <1>t DEF LoginTypeOK, Poll, Rows, Unheld, Alone, CliSound, InDialog, Codes, PollOnce,
         TimerDuringPoll, server, stored
    <3>. QED BY <3>1, <2>2, <1>t, RowsFrame
  <2>4. CliSound'
    BY <1>15, <1>t, <2>1 DEF LoginTypeOK, Poll, Replies, Rows, Unheld, Apart, InDialog, Alone,
       CliSound, BlipsSurvived, Excused, Codes, PollOnce, TimerDuringPoll, server, stored
  <2>5. Alone'
    BY <1>15, <1>t, <2>1 DEF Alone, Busy, Asking, PollOnce, TimerDuringPoll, stored
  <2>6. Minted'
    BY <1>15, <1>t, <2>1 DEF LoginTypeOK, Poll, Rows, Unheld, Apart, InDialog, Alone, Busy, CliSound,
       Minted, OneTokenPerSignIn, NoPoll, Codes, PollOnce, TimerDuringPoll, server, stored
  <2>. QED BY <2>1, <2>3, <2>4, <2>5, <2>6 DEF LoginInv
<1>16. ASSUME NEW p \in Polls, PollRead(p) PROVE LoginInv'
  <2>r. PICK new \in Poll :
          /\ poll' = [poll EXCEPT ![p] = new] /\ new.code = poll[p].code /\ new.pc \in {"mint", "reply"}
          /\ new.pc = "mint" => row[new.code] = "approved"
    <3>1. poll[p] \in Poll /\ poll[p].code # 0
      BY <1>16, <1>t, <1>w DEF LoginTypeOK, Codes, PollRead
    <3>2. poll' = [poll EXCEPT ![p] = Read(poll[p])]
      BY <1>16 DEF PollRead
    <3>3. /\ Read(poll[p]) \in Poll /\ Read(poll[p]).code = poll[p].code
          /\ Read(poll[p]).pc \in {"mint", "reply"}
          /\ Read(poll[p]).pc = "mint" => row[poll[p].code] = "approved"
      BY <3>1, <1>t, ReadTyped
    <3>. QED BY <3>2, <3>3
  <2>1. LoginTypeOK'
    <3>1. row' \in [Codes -> {"none", "pending", "approved", "denied", "gone"}] /\ lost' \subseteq Codes /\ expired' \subseteq Codes
      BY <1>16, <1>t, <1>w DEF LoginTypeOK, PollRead, server
    <3>2. minted' \in [Codes -> Nat] /\ cli' \in Poll
      BY <1>16, <1>t, <1>w DEF LoginTypeOK, PollRead, server
    <3>3. poll' \in [Polls -> Poll] /\ \A x \in Polls : poll'[x].pc = "idle" <=> poll'[x] = NoPoll
      BY <2>r, <1>t DEF LoginTypeOK, NoPoll
    <3>4. /\ dialog' \in [open : BOOLEAN, code : 0..MaxCodes, cancelled : BOOLEAN, timer : BOOLEAN]
          /\ flow' \in [Flows -> [pc : {"idle", "request", "granted", "browser"}, code : 0..MaxCodes]]
          /\ keyring' \in 0..MaxCodes /\ signedIn' \in 0..MaxCodes /\ raced' \in BOOLEAN
      BY <1>16, <1>t, <1>w DEF LoginTypeOK, Poll, Replies, Polling, NoPoll, NoFlow, Codes, PollRead,
         Read, server, stored
    <3>. QED BY <3>1, <3>2, <3>3, <3>4 DEF LoginTypeOK
  <2>2. \A d \in Codes : InDialog(d)' => InDialog(d)
    BY <1>16 DEF InDialog, PollRead, Read
  <2>3. Rows'
    <3>1. /\ \A d \in Codes : /\ row'[d] = "none" <=> row[d] = "none"
                              /\ row[d] = "none" => minted'[d] = minted[d]
          /\ cli'.code = cli.code
      BY <1>16, <1>t DEF LoginTypeOK, Poll, Rows, Unheld, Alone, CliSound, InDialog, Codes, PollRead,
         Read, server, stored
    <3>. QED BY <3>1, <2>2, <1>t, RowsFrame
  <2>4. CliSound'
    BY <1>16, <1>t, <2>1 DEF LoginTypeOK, Poll, Replies, Rows, Unheld, Apart, InDialog, Alone,
       CliSound, BlipsSurvived, Excused, Codes, PollRead, Read, server, stored
  <2>5. Alone'
    BY <1>16, <1>t, <2>1 DEF Alone, Busy, Asking, PollRead, Read, stored
  <2>6. Minted'
    BY <2>r, <1>16, <1>t, <1>w DEF LoginTypeOK, Minted, OneTokenPerSignIn, PollRead, server, stored
  <2>. QED BY <2>1, <2>3, <2>4, <2>5, <2>6 DEF LoginInv
<1>17. ASSUME NEW p \in Polls, PollMint(p) PROVE LoginInv'
  <2>1. LoginTypeOK'
    <3>1. row' \in [Codes -> {"none", "pending", "approved", "denied", "gone"}] /\ lost' \subseteq Codes /\ expired' \subseteq Codes
      BY <1>17, <1>t, <1>w DEF LoginTypeOK, PollMint, Mint, stored
    <3>2. minted' \in [Codes -> Nat] /\ cli' \in Poll
      BY <1>17, <1>t, <1>w DEF LoginTypeOK, PollMint, Mint, stored
    <3>3. poll' \in [Polls -> Poll] /\ \A x \in Polls : poll'[x].pc = "idle" <=> poll'[x] = NoPoll
      BY <1>17, <1>t, <1>w DEF LoginTypeOK, Poll, Replies, Polling, NoPoll, PollMint, Given, stored
    <3>4. /\ dialog' \in [open : BOOLEAN, code : 0..MaxCodes, cancelled : BOOLEAN, timer : BOOLEAN]
          /\ flow' \in [Flows -> [pc : {"idle", "request", "granted", "browser"}, code : 0..MaxCodes]]
          /\ keyring' \in 0..MaxCodes /\ signedIn' \in 0..MaxCodes /\ raced' \in BOOLEAN
      BY <1>17, <1>t, <1>w DEF LoginTypeOK, PollMint, stored
    <3>. QED BY <3>1, <3>2, <3>3, <3>4 DEF LoginTypeOK
  <2>2. \A d \in Codes : InDialog(d)' => InDialog(d)
    BY <1>17, <1>t DEF LoginTypeOK, InDialog, NoPoll, NoFlow, Codes, PollMint, Mint, Given, server,
       stored
  <2>3. Rows'
    <3>1. /\ \A d \in Codes : /\ row'[d] = "none" <=> row[d] = "none"
                              /\ row[d] = "none" => minted'[d] = minted[d]
          /\ cli'.code = cli.code
      BY <1>17, <1>t DEF Rows, Unheld, InDialog, PollMint, Mint, server, stored
    <3>. QED BY <3>1, <2>2, <1>t, RowsFrame
  <2>4. CliSound'
    BY <1>17, <1>t, <2>1 DEF LoginTypeOK, Poll, Replies, Rows, Unheld, Apart, InDialog, Alone,
       CliSound, BlipsSurvived, Excused, Codes, PollMint, Mint, Given, server, stored
  <2>5. Alone'
    BY <1>17, <1>t, <2>1 DEF LoginTypeOK, Poll, Alone, Busy, Asking, NoPoll, NoFlow, Codes, PollMint,
       Mint, Given, server, stored
  <2>6. Minted'
    BY <1>17, <1>t, <2>1 DEF LoginTypeOK, Poll, Rows, Unheld, Apart, InDialog, Alone, Busy, CliSound,
       Minted, OneTokenPerSignIn, NoPoll, Codes, PollMint, Mint, Given, server, stored
  <2>. QED BY <2>1, <2>3, <2>4, <2>5, <2>6 DEF LoginInv
<1>18. ASSUME NEW p \in Polls, GithubAnswers(p) PROVE LoginInv'
  <2>r. PICK new \in Poll :
          /\ poll' = [poll EXCEPT ![p] = new] /\ new.code = poll[p].code /\ new.pc = "reply"
          /\ \/ UNCHANGED <<row, minted>>
             \/ row[new.code] = "approved" /\ Mint(new.code)
    <3>1. CASE row[poll[p].code] = "approved"
      BY <1>18, <3>1, <1>t, GivenTyped DEF LoginTypeOK, GithubAnswers
    <3>2. CASE row[poll[p].code] # "approved"
      <4>r. poll[p] \in Poll /\ poll[p].code # 0
        BY <1>18, <1>t, <1>w DEF LoginTypeOK, Codes, GithubAnswers
      <4>1. Read(poll[p]).pc = "reply"
        <5>1. /\ Read(poll[p]).pc \in {"mint", "reply"}
              /\ Read(poll[p]).pc = "mint" => row[poll[p].code] = "approved"
          BY <4>r, <1>t, ReadTyped
        <5>. QED BY <5>1, <3>2
      <4>2. Read(poll[p]) \in Poll /\ Read(poll[p]).code = poll[p].code
        BY <4>r, <1>t, ReadTyped
      <4>3. UNCHANGED <<row, minted>> /\ poll' = [poll EXCEPT ![p] = Read(poll[p])]
        BY <1>18, <3>2 DEF GithubAnswers
      <4>. QED BY <4>1, <4>2, <4>3
    <3>. QED BY <3>1, <3>2
  <2>u. UNCHANGED <<expired, lost, cli, dialog, flow, keyring, signedIn, opens, raced, blips>> /\ poll[p].pc = "sent"
    BY <1>18 DEF GithubAnswers, stored
  <2>c. new.code \in Codes
    BY <2>r, <2>u, <1>w
  <2>1. LoginTypeOK'
    <3>1. row' \in [Codes -> {"none", "pending", "approved", "denied", "gone"}] /\ lost' \subseteq Codes /\ expired' \subseteq Codes
      BY <1>18, <1>t, <1>w DEF LoginTypeOK, GithubAnswers, Mint, server, stored
    <3>2. minted' \in [Codes -> Nat] /\ cli' \in Poll
      BY <1>18, <1>t, <1>w DEF LoginTypeOK, GithubAnswers, Mint, server, stored
    <3>3. poll' \in [Polls -> Poll] /\ \A x \in Polls : poll'[x].pc = "idle" <=> poll'[x] = NoPoll
      BY <2>r, <1>t DEF LoginTypeOK, NoPoll
    <3>4. /\ dialog' \in [open : BOOLEAN, code : 0..MaxCodes, cancelled : BOOLEAN, timer : BOOLEAN]
          /\ flow' \in [Flows -> [pc : {"idle", "request", "granted", "browser"}, code : 0..MaxCodes]]
          /\ keyring' \in 0..MaxCodes /\ signedIn' \in 0..MaxCodes /\ raced' \in BOOLEAN
      BY <1>18, <1>t, <1>w DEF LoginTypeOK, GithubAnswers, server, stored
    <3>. QED BY <3>1, <3>2, <3>3, <3>4 DEF LoginTypeOK
  <2>2. \A d \in Codes : InDialog(d)' => InDialog(d)
    BY <2>r, <2>u DEF InDialog
  <2>3. Rows'
    <3>1. /\ \A d \in Codes : /\ row'[d] = "none" <=> row[d] = "none"
                              /\ row[d] = "none" => minted'[d] = minted[d]
          /\ cli'.code = cli.code
      BY <1>18, <1>t DEF LoginTypeOK, GithubAnswers, Mint, Read, server, stored
    <3>. QED BY <3>1, <2>2, <1>t, RowsFrame
  <2>4. CliSound'
    BY <1>18, <1>t, <2>1 DEF LoginTypeOK, Poll, Replies, Rows, Unheld, Apart, InDialog, Alone,
       CliSound, BlipsSurvived, Excused, Codes, GithubAnswers, Mint, Given, Read, server, stored
  <2>5. Alone'
    BY <2>r, <2>u, <1>t DEF Alone, Busy, Asking
  <2>6. Minted'
    <3>1. CASE UNCHANGED <<row, minted>>
      BY <3>1, <2>r, <2>u, <1>t DEF Minted, OneTokenPerSignIn
    <3>2. CASE row[new.code] = "approved" /\ Mint(new.code)
      <4>1. minted[new.code] = 0
        <5>1. minted[new.code] \in Nat /\ ~(minted[new.code] > 0)
          BY <3>2, <2>c, <1>t DEF LoginTypeOK, Minted
        <5>. QED BY <5>1
      <4>m. minted' = [minted EXCEPT ![new.code] = 1] /\ row' = [row EXCEPT ![new.code] = "gone"]
        BY <3>2, <4>1 DEF Mint
      <4>2. cli.code # new.code
        BY <2>r, <2>c, <1>t DEF Rows, Apart, InDialog, Codes
      <4>3. raced \/ \A q \in Polls : poll'[q].pc = "mint" => FALSE
        BY <2>r, <2>u, <1>t DEF Alone, Busy
      <4>. QED BY <4>m, <4>2, <4>3, <2>u, <1>t DEF LoginTypeOK, Minted, OneTokenPerSignIn
    <3>. QED BY <3>1, <3>2, <2>r
  <2>. QED BY <2>1, <2>3, <2>4, <2>5, <2>6 DEF LoginInv
<1>19. ASSUME NEW p \in Polls, FetchMe(p) PROVE LoginInv'
  <2>1. LoginTypeOK'
    BY <1>19, <1>t, <1>w DEF LoginTypeOK, Poll, Replies, Polling, NoPoll, NoFlow, FetchMe, server,
       stored
  <2>2. \A d \in Codes : InDialog(d)' => InDialog(d)
    BY <1>19 DEF InDialog, FetchMe
  <2>3. Rows'
    <3>1. /\ \A d \in Codes : /\ row'[d] = "none" <=> row[d] = "none"
                              /\ row[d] = "none" => minted'[d] = minted[d]
          /\ cli'.code = cli.code
      BY <1>19, <1>t DEF FetchMe, server
    <3>. QED BY <3>1, <2>2, <1>t, RowsFrame
  <2>4. CliSound'
    BY <1>19, <1>t, <2>1 DEF LoginTypeOK, Poll, Replies, Rows, Unheld, Apart, InDialog, Alone,
       CliSound, BlipsSurvived, Excused, Codes, FetchMe, server, stored
  <2>5. Alone'
    BY <1>19, <1>t, <2>1 DEF Alone, Busy, Asking, FetchMe
  <2>6. Minted'
    BY <1>19, <1>t, <2>1 DEF LoginTypeOK, Poll, Rows, Unheld, Apart, InDialog, Alone, Busy, CliSound,
       Minted, OneTokenPerSignIn, NoPoll, Codes, FetchMe, server, stored
  <2>. QED BY <2>1, <2>3, <2>4, <2>5, <2>6 DEF LoginInv
<1>20. ASSUME NEW p \in Polls, SignedIn(p) PROVE LoginInv'
  <2>1. LoginTypeOK'
    <3>1. row' \in [Codes -> {"none", "pending", "approved", "denied", "gone"}] /\ lost' \subseteq Codes /\ expired' \subseteq Codes
      BY <1>20, <1>t, <1>w DEF LoginTypeOK, SignedIn, server
    <3>2. minted' \in [Codes -> Nat] /\ cli' \in Poll
      BY <1>20, <1>t, <1>w DEF LoginTypeOK, SignedIn, server
    <3>3. poll' \in [Polls -> Poll] /\ \A x \in Polls : poll'[x].pc = "idle" <=> poll'[x] = NoPoll
      BY <1>20, <1>t, <1>w DEF LoginTypeOK, Poll, Replies, Polling, NoPoll, SignedIn
    <3>d. dialog' \in Dialogs
      BY <1>20, <1>t, DialogTyped DEF SignedIn
    <3>4. /\ flow' \in [Flows -> [pc : {"idle", "request", "granted", "browser"}, code : 0..MaxCodes]]
          /\ keyring' \in 0..MaxCodes /\ signedIn' \in 0..MaxCodes /\ raced' \in BOOLEAN
      BY <1>20, <1>t, <1>w DEF LoginTypeOK, Codes, SignedIn
    <3>. QED BY <3>1, <3>2, <3>3, <3>d, <3>4 DEF LoginTypeOK, Dialogs
  <2>2. \A d \in Codes : InDialog(d)' => InDialog(d)
    BY <1>20 DEF InDialog, NoPoll, Codes, SignedIn, Closed
  <2>3. Rows'
    <3>1. /\ \A d \in Codes : /\ row'[d] = "none" <=> row[d] = "none"
                              /\ row[d] = "none" => minted'[d] = minted[d]
          /\ cli'.code = cli.code
      BY <1>20, <1>t DEF LoginTypeOK, Poll, Rows, Unheld, Alone, CliSound, InDialog, Codes, SignedIn,
         Closed, server, stored
    <3>. QED BY <3>1, <2>2, <1>t, RowsFrame
  <2>4. CliSound'
    BY <1>20, <1>t, <2>1 DEF LoginTypeOK, Poll, Replies, Rows, Unheld, Apart, InDialog, Alone,
       CliSound, BlipsSurvived, Excused, Codes, SignedIn, Closed, server, stored
  <2>5. Alone'
    BY <1>20, <1>t, <2>1 DEF Alone, Busy, Asking, NoPoll, SignedIn, Closed, stored
  <2>6. Minted'
    BY <1>20, <1>t, <2>1 DEF LoginTypeOK, Poll, Rows, Unheld, Apart, InDialog, Alone, Busy, CliSound,
       Minted, OneTokenPerSignIn, NoPoll, Codes, SignedIn, Closed, server, stored
  <2>. QED BY <2>1, <2>3, <2>4, <2>5, <2>6 DEF LoginInv
<1>21. ASSUME NEW p \in Polls, StillPending(p) PROVE LoginInv'
  <2>1. LoginTypeOK'
    <3>1. row' \in [Codes -> {"none", "pending", "approved", "denied", "gone"}] /\ lost' \subseteq Codes /\ expired' \subseteq Codes
      BY <1>21, <1>t, <1>w DEF LoginTypeOK, StillPending, server
    <3>2. minted' \in [Codes -> Nat] /\ cli' \in Poll
      BY <1>21, <1>t, <1>w DEF LoginTypeOK, StillPending, server
    <3>3. poll' \in [Polls -> Poll] /\ \A x \in Polls : poll'[x].pc = "idle" <=> poll'[x] = NoPoll
      BY <1>21, <1>t, <1>w DEF LoginTypeOK, Poll, Replies, Polling, NoPoll, StillPending
    <3>4. /\ dialog' \in [open : BOOLEAN, code : 0..MaxCodes, cancelled : BOOLEAN, timer : BOOLEAN]
          /\ flow' \in [Flows -> [pc : {"idle", "request", "granted", "browser"}, code : 0..MaxCodes]]
          /\ keyring' \in 0..MaxCodes /\ signedIn' \in 0..MaxCodes /\ raced' \in BOOLEAN
      BY <1>21, <1>t, <1>w DEF LoginTypeOK, Poll, Replies, Polling, NoPoll, NoFlow, Codes,
         StillPending, Scheduled, server, stored
    <3>. QED BY <3>1, <3>2, <3>3, <3>4 DEF LoginTypeOK
  <2>2. \A d \in Codes : InDialog(d)' => InDialog(d)
    BY <1>21 DEF InDialog, NoPoll, Codes, StillPending, Scheduled
  <2>3. Rows'
    <3>1. /\ \A d \in Codes : /\ row'[d] = "none" <=> row[d] = "none"
                              /\ row[d] = "none" => minted'[d] = minted[d]
          /\ cli'.code = cli.code
      BY <1>21, <1>t DEF LoginTypeOK, Poll, Rows, Unheld, Alone, CliSound, InDialog, Codes,
         StillPending, Scheduled, server, stored
    <3>. QED BY <3>1, <2>2, <1>t, RowsFrame
  <2>4. CliSound'
    BY <1>21, <1>t, <2>1 DEF LoginTypeOK, Poll, Replies, Rows, Unheld, Apart, InDialog, Alone,
       CliSound, BlipsSurvived, Excused, Codes, StillPending, Scheduled, server, stored
  <2>5. Alone'
    BY <1>21, <1>t, <2>1 DEF LoginTypeOK, Alone, Busy, Asking, StillPending, Scheduled, stored
  <2>6. Minted'
    BY <1>21, <1>t, <2>1 DEF LoginTypeOK, Poll, Rows, Unheld, Apart, InDialog, Alone, Busy, CliSound,
       Minted, OneTokenPerSignIn, NoPoll, Codes, StillPending, Scheduled, server, stored
  <2>. QED BY <2>1, <2>3, <2>4, <2>5, <2>6 DEF LoginInv
<1>22. ASSUME NEW p \in Polls, PollFails(p) PROVE LoginInv'
  <2>1. LoginTypeOK'
    <3>1. row' \in [Codes -> {"none", "pending", "approved", "denied", "gone"}] /\ lost' \subseteq Codes /\ expired' \subseteq Codes
      BY <1>22, <1>t, <1>w DEF LoginTypeOK, PollFails, Losing, server, stored
    <3>2. minted' \in [Codes -> Nat] /\ cli' \in Poll
      BY <1>22, <1>t, <1>w DEF LoginTypeOK, PollFails, server, stored
    <3>3. poll' \in [Polls -> Poll] /\ \A x \in Polls : poll'[x].pc = "idle" <=> poll'[x] = NoPoll
      BY <1>22, <1>t, <1>w DEF LoginTypeOK, Poll, Replies, Polling, NoPoll, PollFails, server, stored
    <3>d. dialog' \in Dialogs
      BY <1>22, <1>t, DialogTyped DEF PollFails
    <3>4. /\ flow' \in [Flows -> [pc : {"idle", "request", "granted", "browser"}, code : 0..MaxCodes]]
          /\ keyring' \in 0..MaxCodes /\ signedIn' \in 0..MaxCodes /\ raced' \in BOOLEAN
      BY <1>22, <1>t, <1>w DEF LoginTypeOK, PollFails, server, stored
    <3>. QED BY <3>1, <3>2, <3>3, <3>d, <3>4 DEF LoginTypeOK, Dialogs
  <2>2. \A d \in Codes : InDialog(d)' => InDialog(d)
    BY <1>22, <1>t DEF InDialog, NoPoll, Codes, PollFails, Closed
  <2>3. Rows'
    <3>1. /\ \A d \in Codes : /\ row'[d] = "none" <=> row[d] = "none"
                              /\ row[d] = "none" => minted'[d] = minted[d]
          /\ cli'.code = cli.code
      BY <1>22, <1>t DEF PollFails, Closed, server, stored
    <3>. QED BY <3>1, <2>2, <1>t, RowsFrame
  <2>4. CliSound'
    BY <1>22, <1>t, <2>1 DEF LoginTypeOK, Poll, Replies, Rows, Unheld, Apart, InDialog, Alone,
       CliSound, BlipsSurvived, Excused, Codes, PollFails, Losing, Blip, Closed, server, stored
  <2>5. Alone'
    BY <1>22, <1>t, <2>1 DEF Alone, Busy, Asking, NoPoll, PollFails, Closed, server, stored
  <2>6. Minted'
    BY <1>22, <1>t, <2>1 DEF LoginTypeOK, Poll, Rows, Unheld, Apart, InDialog, Alone, Busy, CliSound,
       Minted, OneTokenPerSignIn, NoPoll, Codes, PollFails, Losing, Blip, Closed, server, stored
  <2>. QED BY <2>1, <2>3, <2>4, <2>5, <2>6 DEF LoginInv
<1>23. CASE CloseDialog
  <2>1. LoginTypeOK'
    <3>1. row' \in [Codes -> {"none", "pending", "approved", "denied", "gone"}] /\ lost' \subseteq Codes /\ expired' \subseteq Codes
      BY <1>23, <1>t, <1>w DEF LoginTypeOK, CloseDialog, server
    <3>2. minted' \in [Codes -> Nat] /\ cli' \in Poll
      BY <1>23, <1>t, <1>w DEF LoginTypeOK, CloseDialog, server
    <3>3. poll' \in [Polls -> Poll] /\ \A x \in Polls : poll'[x].pc = "idle" <=> poll'[x] = NoPoll
      BY <1>23, <1>t, <1>w DEF LoginTypeOK, CloseDialog
    <3>d. dialog' \in Dialogs
      BY <1>23, <1>t, DialogTyped DEF CloseDialog
    <3>4. /\ flow' \in [Flows -> [pc : {"idle", "request", "granted", "browser"}, code : 0..MaxCodes]]
          /\ keyring' \in 0..MaxCodes /\ signedIn' \in 0..MaxCodes /\ raced' \in BOOLEAN
      BY <1>23, <1>t, <1>w DEF LoginTypeOK, Poll, Replies, Polling, NoPoll, NoFlow, Codes, CloseDialog,
         Closed, server, stored
    <3>. QED BY <3>1, <3>2, <3>3, <3>d, <3>4 DEF LoginTypeOK, Dialogs
  <2>2. \A d \in Codes : InDialog(d)' => InDialog(d)
    BY <1>23 DEF InDialog, Codes, CloseDialog, Closed
  <2>3. Rows'
    <3>1. /\ \A d \in Codes : /\ row'[d] = "none" <=> row[d] = "none"
                              /\ row[d] = "none" => minted'[d] = minted[d]
          /\ cli'.code = cli.code
      BY <1>23, <1>t DEF LoginTypeOK, Poll, Rows, Unheld, Alone, CliSound, InDialog, Codes,
         CloseDialog, Closed, server, stored
    <3>. QED BY <3>1, <2>2, <1>t, RowsFrame
  <2>4. CliSound'
    BY <1>23, <1>t, <2>1 DEF LoginTypeOK, Poll, Replies, Rows, Unheld, Apart, InDialog, Alone,
       CliSound, BlipsSurvived, Excused, Codes, CloseDialog, Closed, server, stored
  <2>5. Alone'
    BY <1>23, <1>t, <2>1 DEF Alone, Busy, Asking, CloseDialog, Closed, stored
  <2>6. Minted'
    BY <1>23, <1>t, <2>1 DEF LoginTypeOK, Poll, Rows, Unheld, Apart, InDialog, Alone, Busy, CliSound,
       Minted, OneTokenPerSignIn, NoPoll, Codes, CloseDialog, Closed, server, stored
  <2>. QED BY <2>1, <2>3, <2>4, <2>5, <2>6 DEF LoginInv
<1>24. CASE ClearToken
  <2>1. LoginTypeOK'
    BY <1>24, <1>t, <1>w DEF LoginTypeOK, Poll, Replies, Polling, NoPoll, NoFlow, ClearToken, server,
       stored
  <2>2. \A d \in Codes : InDialog(d)' => InDialog(d)
    BY <1>24 DEF InDialog, ClearToken
  <2>3. Rows'
    <3>1. /\ \A d \in Codes : /\ row'[d] = "none" <=> row[d] = "none"
                              /\ row[d] = "none" => minted'[d] = minted[d]
          /\ cli'.code = cli.code
      BY <1>24, <1>t DEF ClearToken, server
    <3>. QED BY <3>1, <2>2, <1>t, RowsFrame
  <2>4. CliSound'
    BY <1>24, <1>t, <2>1 DEF LoginTypeOK, Poll, Replies, Rows, Unheld, Apart, InDialog, Alone,
       CliSound, BlipsSurvived, Excused, Codes, ClearToken, server, stored
  <2>5. Alone'
    BY <1>24, <1>t, <2>1 DEF Alone, Busy, Asking, ClearToken
  <2>6. Minted'
    BY <1>24, <1>t, <2>1 DEF LoginTypeOK, Poll, Rows, Unheld, Apart, InDialog, Alone, Busy, CliSound,
       Minted, OneTokenPerSignIn, NoPoll, Codes, ClearToken, server, stored
  <2>. QED BY <2>1, <2>3, <2>4, <2>5, <2>6 DEF LoginInv
<1>25. CASE UNCHANGED loginVars
  BY <1>25 DEF loginVars, server, stored, LoginInv, LoginTypeOK, Rows, Issued, Unheld, Apart, InDialog,
     CliSound, Excused,
     BlipsSurvived, Alone, Busy, Asking, Minted, OneTokenPerSignIn
<1>. QED
  BY <1>1, <1>2, <1>3, <1>4, <1>5, <1>6, <1>7, <1>8, <1>9, <1>10, <1>11, <1>12, <1>13, <1>14, <1>15,
     <1>16, <1>17, <1>18, <1>19, <1>20, <1>21, <1>22, <1>23, <1>24, <1>25 DEF LoginNext

(* However answers are lost and the browser and the dialog's commands interleave:
   `sdt login` fails only when its code ran out, was denied, or the one answer
   that carried its token was lost (login.rs), and unless two polls of the
   dialog raced, a sign-in makes at most one token (api/auth.rs, commands.rs). *)
THEOREM SignInIsSound == LoginSpec => []SignInSound
<1>1. LoginInit => LoginInv
  <2>. SUFFICES ASSUME LoginInit PROVE LoginInv
    OBVIOUS
  <2>. USE LoginAssumption DEF LoginInit
  <2>1. LoginTypeOK
    <3>1. \A p \in Polls : poll[p] = NoPoll /\ NoPoll.pc = "idle"
      BY DEF NoPoll
    <3>2. cli \in Poll /\ NoPoll \in Poll
      BY DEF Poll, Replies, Polling, NoPoll
    <3>3. poll \in [Polls -> Poll] /\ \A p \in Polls : poll[p].pc = "idle" <=> poll[p] = NoPoll
      BY <3>1, <3>2
    <3>4. /\ dialog \in [open : BOOLEAN, code : 0..MaxCodes, cancelled : BOOLEAN, timer : BOOLEAN]
          /\ flow \in [Flows -> [pc : {"idle", "request", "granted", "browser"}, code : 0..MaxCodes]]
      BY DEF NoFlow
    <3>. QED BY <3>2, <3>3, <3>4 DEF LoginTypeOK
  <2>2. Rows
    <3>1. Issued(0) /\ 0 \in 0..MaxCodes
      BY DEF Issued, Codes
    <3>2. Unheld /\ Apart
      BY DEF Unheld, Apart, InDialog, NoPoll, NoFlow, Codes
    <3>. QED BY <3>1, <3>2 DEF Rows
  <2>3. CliSound
    BY DEF CliSound, BlipsSurvived
  <2>4. Alone
    BY DEF Alone, Busy, Asking, NoPoll, NoFlow
  <2>5. Minted
    BY DEF Minted, OneTokenPerSignIn, NoPoll
  <2>. QED BY <2>1, <2>2, <2>3, <2>4, <2>5 DEF LoginInv
<1>2. LoginInv /\ [LoginNext]_loginVars => LoginInv'
  BY LoginStep
<1>3. LoginInv => SignInSound
  BY DEF LoginInv, SignInSound, CliSound, Minted
<1>. QED BY <1>1, <1>2, <1>3, PTL DEF LoginSpec

-----------------------------------------------------------------------------
(***************************************************************************)
(* The local server's shell.  As long as no two commands make certificates *)
(* at once, the four files are those of one generation as soon as the last *)
(* of them is there (OnDisk), and that generation is then the only one     *)
(* that is trusted or served (Presented).                                     *)
(***************************************************************************)
G == file[LeafKey].gen

\* The files of the task that writes them: those before the k-th are written.
Writing(t, k) ==
  /\ gens # 0 /\ task[t].gen = gens /\ task[t].todo = k..4
  /\ \A i \in Pem : i < k => file[i].gen = gens
  /\ G # 0 => k = 4 /\ G = gens

\* What a generation's number marks was made.
Marked ==
  /\ \A i \in Pem : file[i].whole => file[i].gen # 0
  /\ \A t \in Creating : task[t].gen # 0

OnDisk == calm =>
  /\ \A t, u \in Creating : t = u
  /\ \A t \in Creating : \E k \in Pem : Writing(t, k)
  /\ \A i, j \in Pem : i < j /\ file[i].gen = 0 => file[j].gen = 0
  /\ G # 0 => \A i \in Pem : file[i].gen = G

Presented == calm =>
  /\ \A t \in Tasks : task[t].pc \in {"loaded", "store"} => G # 0 /\ task[t].gen \in {0, G}
  /\ trusted \subseteq {G}
  /\ \A s \in Servers : lgs[s].st = "up" => lgs[s].leaf = G /\ G # 0

ShellInv == ShellTypeOK /\ Marked /\ KnownServers /\ OnDisk /\ Presented

(* What a step must leave alone. *)
LEMMA KnownFrame ==
  ASSUME KnownServers, running' = running,
         \A s \in Servers : lgs'[s].st = "up" => lgs[s].st = "up",
         \A t \in Tasks : task[t].pc = "store" => task'[t] = task[t]
  PROVE  KnownServers'
  BY DEF KnownServers

LEMMA DiskFrame ==
  ASSUME OnDisk, UNCHANGED <<file, gens>>, calm' => calm,
         \A t \in Tasks : task'[t].pc = "write" => task'[t] = task[t]
  PROVE  OnDisk'
<1>. SUFFICES ASSUME calm' PROVE OnDisk'
  BY DEF OnDisk
<1>1. \A t \in Creating' : t \in Creating /\ task'[t] = task[t]
  BY DEF Creating
<1>2. \A t \in Creating' : \E k \in Pem : Writing(t, k)'
  <2>. TAKE t \in Creating'
  <2>1. PICK k \in Pem : Writing(t, k)
    BY <1>1 DEF OnDisk
  <2>2. Writing(t, k)'
    BY <1>1, <2>1 DEF Writing, G
  <2>. QED BY <2>2
<1>. QED BY <1>1, <1>2 DEF OnDisk, G

LEMMA MarkedFrame ==
  ASSUME Marked, file' = file, \A t \in Tasks : task'[t].pc = "write" => task'[t] = task[t]
  PROVE  Marked'
  BY DEF Marked, Creating

LEMMA PresentedFrame ==
  ASSUME Presented, file' = file, calm' => calm,
         calm => trusted' \subseteq {G},
         \A t \in Tasks : calm /\ task'[t].pc \in {"loaded", "store"} => G # 0 /\ task'[t].gen \in {0, G},
         \A s \in Servers : lgs'[s].st = "up" => lgs'[s] = lgs[s]
  PROVE  Presented'
<1>. G' = G
  BY DEF G
<1>. QED BY DEF Presented

(* A task moves on to a step that neither writes nor has started a server. *)
LEMMA MovesOn ==
  ASSUME ShellInv, NEW t \in Tasks, NEW new \in Task,
         task' = [task EXCEPT ![t] = new], UNCHANGED <<running, lgs, file, gens, calm>>,
         task[t].pc \notin {"write", "store"}, new.pc \notin {"write", "store"},
         calm /\ new.pc = "loaded" => G # 0 /\ new.gen \in {0, G},
         trusted' \subseteq 1..gens, calm => trusted' \subseteq {G}
  PROVE  ShellInv'
<1>. ShellTypeOK /\ Marked /\ KnownServers /\ OnDisk /\ Presented
  BY DEF ShellInv
<1>1. ShellTypeOK'
  BY DEF ShellTypeOK, Task
<1>m. Marked'
  BY MarkedFrame DEF ShellTypeOK
<1>2. KnownServers'
  BY KnownFrame DEF ShellTypeOK
<1>3. OnDisk'
  BY DiskFrame DEF ShellTypeOK
<1>4. \A u \in Tasks : calm /\ task'[u].pc \in {"loaded", "store"} => G # 0 /\ task'[u].gen \in {0, G}
  BY DEF ShellTypeOK, Presented
<1>5. Presented'
  BY <1>4, PresentedFrame
<1>. QED BY <1>1, <1>m, <1>2, <1>3, <1>5 DEF ShellInv

LEMMA IdleTyped == ShellTypeOK => Idle \in Task
  BY ShellAssumption DEF ShellTypeOK, Task, Idle, Steps, Commands

LEMMA CommandStep ==
  ASSUME ShellInv, NEW t \in Tasks, NEW cmd \in Commands, NEW port \in Ports \cup {"none"},
         task[t].pc = "idle",
         task' = [task EXCEPT ![t] = [Idle EXCEPT !.pc = "load", !.cmd = cmd, !.port = port]],
         UNCHANGED <<running, lgs, file, gens, calm>>, trusted' \subseteq trusted
  PROVE  ShellInv'
<1>. DEFINE new == [Idle EXCEPT !.pc = "load", !.cmd = cmd, !.port = port]
<1>. ShellTypeOK /\ Presented
  BY DEF ShellInv
<1>1. new \in Task /\ new.pc = "load"
  BY IdleTyped DEF Task, Steps, Idle
<1>2. trusted' \subseteq 1..gens /\ (calm => trusted' \subseteq {G})
  BY DEF ShellTypeOK, Presented
<1>3. task' = [task EXCEPT ![t] = new]
  OBVIOUS
<1>. HIDE DEF new
<1>. QED BY <1>1, <1>2, <1>3, MovesOn

(* A task is done. *)
LEMMA DoneStep ==
  ASSUME ShellInv, NEW t \in Tasks, Done(t), task[t].pc \notin {"write", "store"},
         UNCHANGED <<running, lgs, file, gens, calm>>,
         trusted' \subseteq 1..gens, calm => trusted' \subseteq {G}
  PROVE  ShellInv'
<1>1. Idle \in Task /\ Idle.pc = "idle"
  BY IdleTyped DEF ShellInv, Idle
<1>2. task' = [task EXCEPT ![t] = Idle]
  BY DEF Done
<1>. QED BY <1>1, <1>2, MovesOn

(* Once all files are there, they are of one generation. *)
LEMMA AllOfOne ==
  ASSUME ShellTypeOK, OnDisk, calm
  PROVE  AllExist <=> G # 0
<1>1. LeafKey \in Pem /\ \A i \in Pem : i = LeafKey \/ i < LeafKey
  BY DEF Pem, LeafKey
<1>. QED BY <1>1 DEF AllExist, OnDisk, G

LEMMA LoadStep ==
  ASSUME ShellInv, NEW t \in Tasks, LoadExisting(t)
  PROVE  ShellInv'
<1>. ShellTypeOK /\ OnDisk /\ Presented
  BY DEF ShellInv
<1>. DEFINE g == IF file[Leaf] = file[LeafKey] /\ file[Leaf].whole THEN file[Leaf].gen ELSE 0
            new == [task[t] EXCEPT !.pc = "loaded", !.gen = g]
<1>1. task[t].pc = "load" /\ AllExist /\ task' = [task EXCEPT ![t] = new]
      /\ UNCHANGED <<running, lgs, file, trusted, gens, calm>>
  BY DEF LoadExisting
<1>2. g \in {0, G} /\ g \in 0..gens
  BY DEF G, ShellTypeOK, Pem, Leaf, LeafKey
<1>. HIDE DEF g
<1>3. new \in Task /\ new.pc = "loaded" /\ new.gen = g
  BY <1>2 DEF ShellTypeOK, Task, Steps
<1>4. calm => G # 0
  BY <1>1, AllOfOne
<1>5. trusted' \subseteq 1..gens /\ (calm => trusted' \subseteq {G})
  BY <1>1 DEF ShellTypeOK, Presented
<1>. HIDE DEF new
<1>. QED BY <1>1, <1>2, <1>3, <1>4, <1>5, MovesOn

LEMMA CaLoadedStep ==
  ASSUME ShellInv, NEW t \in Tasks, CaLoaded(t)
  PROVE  ShellInv'
<1>. ShellTypeOK /\ OnDisk /\ Presented
  BY DEF ShellInv
<1>1. /\ task[t].pc = "loaded" /\ Done(t) /\ UNCHANGED <<running, lgs, file, gens, calm>>
      /\ trusted' = trusted \/ (file[RootCA].whole /\ trusted' = trusted \cup {file[RootCA].gen})
  BY DEF CaLoaded
<1>2. calm => G # 0 /\ file[RootCA].gen = G
  BY <1>1 DEF Presented, OnDisk, Pem, RootCA
<1>3. calm => trusted' \subseteq {G}
  BY <1>1, <1>2 DEF Presented
<1>4. file[RootCA].whole => file[RootCA].gen \in 1..gens
  BY DEF ShellInv, Marked, ShellTypeOK, Pem, RootCA
<1>. QED BY <1>1, <1>3, <1>4, DoneStep DEF ShellTypeOK

LEMMA GenerateStep ==
  ASSUME ShellInv, NEW t \in Tasks, GenerateCaAndLeaf(t)
  PROVE  ShellInv'
<1>. ShellTypeOK /\ Marked /\ KnownServers /\ OnDisk /\ Presented
  BY DEF ShellInv
<1>. DEFINE new == [task[t] EXCEPT !.pc = "write", !.gen = gens + 1, !.todo = Pem]
<1>1. /\ task[t].pc = "load" /\ ~AllExist /\ gens' = gens + 1
      /\ task' = [task EXCEPT ![t] = new] /\ calm' = (calm /\ Creating = {})
      /\ UNCHANGED <<running, lgs, file, trusted>>
  BY DEF GenerateCaAndLeaf, ToWrite
<1>2. gens \in Nat /\ 0..gens \subseteq 0..gens' /\ 1..gens \subseteq 1..gens'
      /\ calm' \in BOOLEAN
  BY <1>1 DEF ShellTypeOK
<1>3. task[t] \in Task /\ Task \subseteq Task'
  <2>1. Task \subseteq Task'
    BY <1>2 DEF Task
  <2>. QED BY <2>1 DEF ShellTypeOK
<1>4. new \in Task' /\ new.pc = "write" /\ new.gen = gens + 1 /\ new.todo = Pem
  <2>1. PICK own \in Task' : own = task[t]
    BY <1>3
  <2>2. gens + 1 \in 0..gens'
    BY <1>1, <1>2
  <2>3. new = [own EXCEPT !.pc = "write", !.gen = gens + 1, !.todo = Pem]
    BY <2>1
  <2>. HIDE DEF new
  <2>. QED BY <2>2, <2>3 DEF Task, Steps
<1>. HIDE DEF new
<1>5. ShellTypeOK'
  <2>1. task' \in [Tasks -> Task']
    BY <1>1, <1>3, <1>4 DEF ShellTypeOK
  <2>2. lgs' \in [Servers -> [st : {"none", "up", "closing", "down"},
                              port : Ports \cup {"none"}, leaf : 0..gens']]
    BY <1>1, <1>2 DEF ShellTypeOK
  <2>3. file' \in [Pem -> [gen : 0..gens', whole : BOOLEAN]]
    BY <1>1, <1>2 DEF ShellTypeOK
  <2>. QED BY <1>1, <1>2, <2>1, <2>2, <2>3 DEF ShellTypeOK
<1>6. Marked'
  BY <1>1, <1>2, <1>4 DEF Marked, Creating, ShellTypeOK
<1>7. KnownServers'
  BY <1>1, KnownFrame DEF ShellTypeOK
<1>8. G' = G /\ (calm' => calm /\ G = 0 /\ Creating' \subseteq {t})
  BY <1>1, AllOfOne DEF G, Creating, ShellTypeOK
<1>9. OnDisk'
  <2>. SUFFICES ASSUME calm' PROVE OnDisk'
    BY DEF OnDisk
  <2>1. Writing(t, 1)'
    BY <1>1, <1>2, <1>4, <1>8 DEF Writing, Pem, ShellTypeOK
  <2>2. \A u \in Creating' : \E k \in Pem : Writing(u, k)'
    BY <1>8, <2>1 DEF Pem
  <2>. QED BY <1>1, <1>8, <2>2 DEF OnDisk
<1>10. Presented'
  BY <1>1, <1>4, <1>8 DEF Presented, ShellTypeOK
<1>. QED BY <1>5, <1>6, <1>7, <1>9, <1>10 DEF ShellInv

LEMMA FirstIs ==
  ASSUME NEW t \in Tasks, NEW k \in Pem, task[t].todo = k..4
  PROVE  First(t) = k
  BY DEF First, Pem

LEMMA WriteStep ==
  ASSUME ShellInv, NEW t \in Tasks, WriteFile(t)
  PROVE  ShellInv'
<1>. ShellTypeOK /\ Marked /\ KnownServers /\ OnDisk /\ Presented
  BY DEF ShellInv
<1>. DEFINE i == First(t)
            begun == file[i] = [gen |-> task[t].gen, whole |-> FALSE]
            left == IF begun THEN task[t].todo \ {i} ELSE task[t].todo
            new == [task[t] EXCEPT !.todo = left, !.pc = IF left = {} THEN "loaded" ELSE "write"]
            made == [gen |-> task[t].gen, whole |-> begun]
<1>1. /\ task[t].pc = "write" /\ task' = [task EXCEPT ![t] = new]
      /\ file' = [file EXCEPT ![i] = made]
      /\ UNCHANGED <<running, lgs, trusted, gens, calm>>
  BY DEF WriteFile
<1>2. /\ begun \in BOOLEAN /\ left \subseteq Pem /\ task[t] \in Task
      /\ task[t].gen \in 0..gens /\ task[t].gen # 0
  BY <1>1 DEF ShellTypeOK, Task, Marked, Creating
<1>3. /\ new \in Task /\ new.gen = task[t].gen /\ new.todo = left
      /\ new.pc = IF left = {} THEN "loaded" ELSE "write"
  BY <1>2 DEF Task, Steps
<1>4. made \in [gen : 0..gens, whole : BOOLEAN] /\ made.gen = task[t].gen
  BY <1>2
<1>5. calm => \E k \in Pem :
        /\ Writing(t, k) /\ i = k /\ left = IF begun THEN (k + 1)..4 ELSE k..4
        /\ begun => file[k].gen = gens
  <2>. SUFFICES ASSUME calm PROVE \E k \in Pem : Writing(t, k) /\ i = k
                /\ left = (IF begun THEN (k + 1)..4 ELSE k..4) /\ (begun => file[k].gen = gens)
    OBVIOUS
  <2>1. PICK k \in Pem : Writing(t, k)
    BY <1>1 DEF OnDisk, Creating
  <2>2. i = k /\ task[t].todo = k..4 /\ task[t].gen = gens
    BY <2>1, FirstIs DEF Writing
  <2>3. (k..4) \ {k} = (k + 1)..4
    BY DEF Pem
  <2>4. begun => file[k].gen = gens
    BY <2>2
  <2>. HIDE DEF begun, i
  <2>5. left = IF begun THEN (k + 1)..4 ELSE k..4
    BY <2>2, <2>3
  <2>. QED BY <2>1, <2>2, <2>4, <2>5
<1>. HIDE DEF i, begun, left, new, made
<1>6. ShellTypeOK'
  <2>1. file' \in [Pem -> [gen : 0..gens, whole : BOOLEAN]]
    BY <1>1, <1>4 DEF ShellTypeOK
  <2>2. task' \in [Tasks -> Task]
    BY <1>1, <1>3 DEF ShellTypeOK
  <2>3. Task' = Task
    BY <1>1 DEF Task
  <2>. QED BY <1>1, <2>1, <2>2, <2>3 DEF ShellTypeOK
<1>7. Marked'
  BY <1>1, <1>2, <1>3, <1>4 DEF Marked, Creating, ShellTypeOK
<1>8. KnownServers'
  BY <1>1, KnownFrame DEF ShellTypeOK
<1>9. ASSUME calm PROVE OnDisk' /\ Presented'
  <2>1. PICK k \in Pem :
          /\ Writing(t, k) /\ i = k /\ left = IF begun THEN (k + 1)..4 ELSE k..4
          /\ begun => file[k].gen = gens
    BY <1>5, <1>9
  <2>2. /\ k \in 1..4 /\ gens # 0 /\ task[t].gen = gens /\ made.gen = gens
        /\ \A j \in Pem : j < k => file[j].gen = gens
        /\ G # 0 => k = 4 /\ G = gens
    BY <2>1, <1>4 DEF Writing, Pem
  <2>3. \A j \in Pem : file'[j].gen = IF j = k THEN gens ELSE file[j].gen
    BY <1>1, <2>1, <2>2 DEF ShellTypeOK
  <2>4. G' = (IF k = 4 THEN gens ELSE 0) /\ G \in {0, G'} /\ Pem = 1..4
    BY <2>2, <2>3 DEF G, Pem, LeafKey
  <2>5. Creating = {t} /\ Creating' \subseteq {t}
    BY <1>1, <1>9 DEF OnDisk, Creating, ShellTypeOK
  <2>6. ASSUME t \in Creating' PROVE \E n \in Pem : Writing(t, n)'
    <3>1. task'[t] = new /\ new.pc = "write"
      BY <1>1, <1>3, <2>6 DEF Creating, ShellTypeOK
    <3>2. left # {} /\ task'[t].todo = left /\ task'[t].gen = gens
      BY <3>1, <1>3, <2>2
    <3>3. PICK n \in 1..5 : n = IF begun THEN k + 1 ELSE k
      BY <2>2
    <3>4. left = n..4
      BY <2>1, <3>3
    <3>5. n \in 1..4 /\ (k = 4 => n = 4)
      BY <2>2, <3>2, <3>3, <3>4
    <3>6. \A j \in Pem : j < n => file'[j].gen = gens
      BY <2>2, <2>3, <2>4, <3>3, <3>5
    <3>7. Writing(t, n)'
      BY <1>1, <2>2, <2>4, <3>2, <3>4, <3>5, <3>6 DEF Writing
    <3>. QED BY <2>4, <3>5, <3>7
  <2>7. \A a, b \in Pem : a < b /\ file'[a].gen = 0 => file'[b].gen = 0
    BY <1>9, <2>2, <2>3 DEF OnDisk, Pem
  <2>8. G' # 0 => \A j \in Pem : file'[j].gen = G'
    BY <2>2, <2>3, <2>4
  <2>9. OnDisk'
    BY <2>5, <2>6, <2>7, <2>8 DEF OnDisk
  <2>10. \A u \in Tasks : task'[u].pc \in {"loaded", "store"} => G' # 0 /\ task'[u].gen \in {0, G'}
    <3>. SUFFICES ASSUME NEW u \in Tasks, task'[u].pc \in {"loaded", "store"}
                  PROVE  G' # 0 /\ task'[u].gen \in {0, G'}
      OBVIOUS
    <3>1. CASE u = t
      <4>1. task'[t] = new /\ left = {}
        BY <1>1, <1>3, <3>1 DEF ShellTypeOK
      <4>2. 4 \notin left
        BY <4>1
      <4>3. 4 \in k..4 /\ (k # 4 => 4 \in (k + 1)..4)
        BY <2>2
      <4>4. k = 4
        BY <4>2, <4>3, <2>1
      <4>. QED BY <4>1, <4>4, <1>3, <2>2, <2>4, <3>1
    <3>2. CASE u # t
      BY <1>1, <1>9, <2>2, <2>4, <3>2 DEF Presented, ShellTypeOK
    <3>. QED BY <3>1, <3>2
  <2>11. trusted' \subseteq {G'}
    BY <1>1, <1>9, <2>4 DEF Presented, ShellTypeOK
  <2>12. \A s \in Servers : lgs'[s].st = "up" => lgs'[s].leaf = G' /\ G' # 0
    BY <1>1, <1>9, <2>4 DEF Presented
  <2>. QED BY <2>9, <2>10, <2>11, <2>12 DEF Presented
<1>. QED BY <1>1, <1>6, <1>7, <1>8, <1>9 DEF ShellInv, OnDisk, Presented

LEMMA ServeStep ==
  ASSUME ShellInv, NEW t \in Tasks, Serve(t)
  PROVE  ShellInv'
<1>. ShellTypeOK /\ Marked /\ KnownServers /\ OnDisk /\ Presented
  BY DEF ShellInv
<1>. DEFINE s == FreshServer
            new == [task[t] EXCEPT !.pc = "store", !.server = s]
            made == [st |-> "up", port |-> task[t].port, leaf |-> task[t].gen]
<1>1. /\ task[t].pc = "loaded" /\ task[t].gen # 0 /\ s \in Servers
      /\ lgs' = [lgs EXCEPT ![s] = made] /\ task' = [task EXCEPT ![t] = new]
      /\ UNCHANGED <<running, file, trusted, gens, calm>>
  BY DEF Serve
<1>. HIDE DEF s
<1>2. /\ made \in [st : {"none", "up", "closing", "down"}, port : Ports \cup {"none"}, leaf : 0..gens]
      /\ made.st = "up" /\ made.leaf = task[t].gen
  BY DEF ShellTypeOK, Task
<1>3. new \in Task /\ new.pc = "store" /\ new.server = s /\ new.gen = task[t].gen
  <2>1. PICK own \in Task : own = task[t]
    BY DEF ShellTypeOK
  <2>2. new = [own EXCEPT !.pc = "store", !.server = s] /\ s \in 0..MaxServers
    BY <1>1, <2>1 DEF Servers
  <2>. HIDE DEF new
  <2>. QED BY <2>1, <2>2 DEF Task, Steps
<1>. HIDE DEF new, made
<1>4. ShellTypeOK'
  <2>1. task' \in [Tasks -> Task] /\ Task' = Task
    BY <1>1, <1>3 DEF ShellTypeOK, Task
  <2>. QED BY <1>1, <1>2, <2>1 DEF ShellTypeOK
<1>5. Marked'
  BY <1>1, <1>3, MarkedFrame DEF ShellTypeOK
<1>6. KnownServers'
  BY <1>1, <1>3 DEF KnownServers, ShellTypeOK
<1>7. OnDisk'
  BY <1>1, <1>3, DiskFrame DEF ShellTypeOK
<1>8. G' = G
  BY <1>1 DEF G
<1>9. calm => G # 0 /\ task[t].gen = G
  BY <1>1 DEF Presented
<1>10. ASSUME calm PROVE \A u \in Tasks : task'[u].pc \in {"loaded", "store"}
                           => G # 0 /\ task'[u].gen \in {0, G}
  BY <1>1, <1>3, <1>9, <1>10 DEF Presented, ShellTypeOK
<1>11. ASSUME calm PROVE \A r \in Servers : lgs'[r].st = "up" => lgs'[r].leaf = G /\ G # 0
  BY <1>1, <1>2, <1>9, <1>11 DEF Presented, ShellTypeOK
<1>12. Presented'
  BY <1>1, <1>8, <1>10, <1>11 DEF Presented
<1>. QED BY <1>4, <1>5, <1>6, <1>7, <1>12 DEF ShellInv

(* Shutting a server down leaves the others as they are. *)
LEMMA ShutDownOne ==
  ASSUME ShellTypeOK, NEW sent \in BOOLEAN
  PROVE  /\ ShutDown(running, sent) \in [Servers -> [st : {"none", "up", "closing", "down"},
                                          port : Ports \cup {"none"}, leaf : 0..gens]]
         /\ \A s \in Servers : ShutDown(running, sent)[s].st = "up" =>
              s # running /\ ShutDown(running, sent)[s] = lgs[s]
  BY DEF ShutDown, Told, ShellTypeOK, Servers

LEMMA StoreStep ==
  ASSUME ShellInv, NEW t \in Tasks, StoreRunning(t)
  PROVE  ShellInv'
<1>. ShellTypeOK /\ Marked /\ KnownServers /\ OnDisk /\ Presented
  BY DEF ShellInv
<1>1. /\ task[t].pc = "store" /\ running' = task[t].server
      /\ task' = [task EXCEPT ![t] = Idle] /\ UNCHANGED <<file, trusted, gens, calm>>
  BY DEF StoreRunning, Done
<1>2. /\ lgs' \in [Servers -> [st : {"none", "up", "closing", "down"},
                               port : Ports \cup {"none"}, leaf : 0..gens]]
      /\ \A s \in Servers : lgs'[s].st = "up" => s # running /\ lgs'[s] = lgs[s]
  BY ShutDownOne DEF StoreRunning
<1>3. Idle \in Task /\ Idle.pc = "idle"
  BY IdleTyped DEF Idle
<1>4. ShellTypeOK'
  <2>1. task' \in [Tasks -> Task] /\ Task' = Task /\ running' \in 0..MaxServers
    BY <1>1, <1>3 DEF ShellTypeOK, Task
  <2>. QED BY <1>1, <1>2, <2>1 DEF ShellTypeOK
<1>5. Marked'
  BY <1>1, <1>3, MarkedFrame DEF ShellTypeOK
<1>6. KnownServers'
  BY <1>1, <1>2, <1>3 DEF KnownServers, ShellTypeOK
<1>7. OnDisk'
  BY <1>1, <1>3, DiskFrame DEF ShellTypeOK
<1>8. \A u \in Tasks : calm /\ task'[u].pc \in {"loaded", "store"} => G # 0 /\ task'[u].gen \in {0, G}
  BY <1>1, <1>3 DEF Presented, ShellTypeOK
<1>9. Presented'
  BY <1>1, <1>2, <1>8, PresentedFrame DEF Presented
<1>. QED BY <1>4, <1>5, <1>6, <1>7, <1>9 DEF ShellInv

LEMMA StopStep ==
  ASSUME ShellInv, NEW t \in Tasks, StopLgs(t)
  PROVE  ShellInv'
<1>. ShellTypeOK /\ Marked /\ KnownServers /\ OnDisk /\ Presented
  BY DEF ShellInv
<1>. DEFINE new == [Idle EXCEPT !.pc = "join", !.cmd = "stop", !.server = running]
<1>1. /\ task[t].pc = "idle" /\ running' = 0
      /\ task' = [task EXCEPT ![t] = new] /\ UNCHANGED <<file, trusted, gens, calm>>
  BY DEF StopLgs
<1>2. /\ lgs' \in [Servers -> [st : {"none", "up", "closing", "down"},
                               port : Ports \cup {"none"}, leaf : 0..gens]]
      /\ \A s \in Servers : lgs'[s].st = "up" => s # running /\ lgs'[s] = lgs[s]
  BY ShutDownOne DEF StopLgs
<1>3. new \in Task /\ new.pc = "join"
  BY IdleTyped DEF Task, Steps, Commands, Idle, ShellTypeOK
<1>. HIDE DEF new
<1>4. ShellTypeOK'
  <2>1. task' \in [Tasks -> Task] /\ Task' = Task /\ running' \in 0..MaxServers
    BY <1>1, <1>3, ShellAssumption DEF ShellTypeOK, Task
  <2>. QED BY <1>1, <1>2, <2>1 DEF ShellTypeOK
<1>5. Marked'
  BY <1>1, <1>3, MarkedFrame DEF ShellTypeOK
<1>6. KnownServers'
  BY <1>1, <1>2, <1>3 DEF KnownServers, ShellTypeOK
<1>7. OnDisk'
  BY <1>1, <1>3, DiskFrame DEF ShellTypeOK
<1>8. \A u \in Tasks : calm /\ task'[u].pc \in {"loaded", "store"} => G # 0 /\ task'[u].gen \in {0, G}
  BY <1>1, <1>3 DEF Presented, ShellTypeOK
<1>9. Presented'
  BY <1>1, <1>2, <1>8, PresentedFrame DEF Presented
<1>. QED BY <1>4, <1>5, <1>6, <1>7, <1>9 DEF ShellInv

LEMMA DrainedStep ==
  ASSUME ShellInv, NEW s \in Servers, Drained(s)
  PROVE  ShellInv'
<1>. ShellTypeOK /\ Marked /\ KnownServers /\ OnDisk /\ Presented
  BY DEF ShellInv
<1>1. /\ lgs' \in [Servers -> [st : {"none", "up", "closing", "down"},
                               port : Ports \cup {"none"}, leaf : 0..gens]]
      /\ \A r \in Servers : lgs'[r].st = "up" => lgs'[r] = lgs[r]
      /\ UNCHANGED <<running, file, trusted, task, gens, calm>>
  BY DEF Drained, ShellTypeOK
<1>2. ShellTypeOK'
  BY <1>1 DEF ShellTypeOK, Task
<1>3. Marked' /\ KnownServers' /\ OnDisk'
  BY <1>1, MarkedFrame, KnownFrame, DiskFrame
<1>4. Presented'
  BY <1>1, PresentedFrame DEF Presented
<1>. QED BY <1>2, <1>3, <1>4 DEF ShellInv

LEMMA DiesStep ==
  ASSUME ShellInv, AppDies
  PROVE  ShellInv'
<1>. ShellTypeOK /\ Marked /\ KnownServers /\ OnDisk /\ Presented
  BY DEF ShellInv
<1>1. /\ running' = 0 /\ task' = [t \in Tasks |-> Idle] /\ UNCHANGED <<file, trusted, gens, calm>>
      /\ lgs' = [s \in Servers |-> IF lgs[s].st = "none" THEN NoServer
                                     ELSE [lgs[s] EXCEPT !.st = "down"]]
  BY DEF AppDies
<1>2. lgs' \in [Servers -> [st : {"none", "up", "closing", "down"},
                            port : Ports \cup {"none"}, leaf : 0..gens]]
      /\ \A s \in Servers : lgs'[s].st # "up"
  BY <1>1 DEF ShellTypeOK, NoServer
<1>3. Idle \in Task /\ Idle.pc = "idle"
  BY IdleTyped DEF Idle
<1>4. ShellTypeOK'
  <2>1. task' \in [Tasks -> Task] /\ Task' = Task /\ running' \in 0..MaxServers
    BY <1>1, <1>3, ShellAssumption DEF ShellTypeOK, Task
  <2>. QED BY <1>1, <1>2, <2>1 DEF ShellTypeOK
<1>5. Marked' /\ KnownServers' /\ OnDisk'
  BY <1>1, <1>2, <1>3, MarkedFrame, DiskFrame DEF KnownServers
<1>6. Presented'
  BY <1>1, <1>2, <1>3, PresentedFrame DEF Presented
<1>. QED BY <1>4, <1>5, <1>6 DEF ShellInv

LEMMA ShellStep == ShellInv /\ [ShellNext]_shellVars => ShellInv'
<1>. SUFFICES ASSUME ShellInv, [ShellNext]_shellVars PROVE ShellInv'
  OBVIOUS
<1>1. ASSUME NEW t \in Tasks, CaStatus(t) \/ InstallCa(t) PROVE ShellInv'
  BY <1>1, CommandStep DEF CaStatus, InstallCa, Command, Commands
<1>2. ASSUME NEW t \in Tasks, UninstallCa(t) PROVE ShellInv'
  <2>1. task' = [task EXCEPT ![t] = [Idle EXCEPT !.pc = "load", !.cmd = "status", !.port = "none"]]
    <3>1. \A r \in Task : r.port = "none" =>
            [r EXCEPT !.pc = "load", !.cmd = "status"]
              = [r EXCEPT !.pc = "load", !.cmd = "status", !.port = "none"]
      BY DEF Task
    <3>2. Idle \in Task /\ Idle.port = "none"
      BY IdleTyped DEF ShellInv, Idle
    <3>. QED BY <1>2, <3>1, <3>2 DEF UninstallCa
  <2>. QED BY <1>2, <2>1, CommandStep DEF UninstallCa, Commands
<1>3. ASSUME NEW t \in Tasks, NEW p \in Ports, StartLgs(t, p) PROVE ShellInv'
  BY <1>3, CommandStep DEF StartLgs, Command, Commands
<1>4. ASSUME NEW t \in Tasks, StartFails(t) \/ Joined(t) PROVE ShellInv'
  BY <1>4, DoneStep DEF StartFails, Joined, ShellInv, ShellTypeOK, Presented
<1>5. CASE \E s \in Servers : Drained(s)
  BY <1>5, DrainedStep
<1>6. CASE AppDies
  BY <1>6, DiesStep
<1>7. CASE UNCHANGED shellVars
  BY <1>7 DEF shellVars, ShellInv, ShellTypeOK, Task, Marked, Creating, KnownServers, OnDisk,
              Writing, G, Presented
<1>. QED
  BY <1>1, <1>2, <1>3, <1>4, <1>5, <1>6, <1>7, LoadStep, GenerateStep, WriteStep, CaLoadedStep,
     ServeStep, StoreStep, StopStep DEF ShellNext

LEMMA ShellInitInv == ShellInit => ShellInv
<1>. SUFFICES ASSUME ShellInit PROVE ShellInv
  OBVIOUS
<1>1. ShellTypeOK
  <2>1. gens = 0 /\ task = [t \in Tasks |-> Idle] /\ running \in 0..MaxServers
    BY ShellAssumption DEF ShellInit
  <2>2. Idle \in Task
    BY <2>1, ShellAssumption DEF Task, Idle, Steps, Commands
  <2>. QED BY <2>1, <2>2 DEF ShellInit, ShellTypeOK, NoServer
<1>. QED BY <1>1 DEF ShellInit, ShellInv, Marked, Creating, KnownServers, OnDisk, Presented, G,
                      Idle, NoServer, Pem, LeafKey

(* Whatever commands run at once and whenever the app dies: every server that
   accepts connections is the one the app can stop or is about to be
   (start_lgs, stop_lgs), and as long as no two commands made certificates at
   once it presents a leaf of the CA that the trust store holds
   (certs::load_or_generate). *)
THEOREM ServersAreSound == ShellSpec => []ShellSound
<1>1. ShellInv => ShellSound
  BY DEF ShellInv, ShellSound, TrustedServer, Presented
<1>. QED BY <1>1, ShellInitInv, ShellStep, PTL DEF ShellSpec

-----------------------------------------------------------------------------
(***************************************************************************)
(* The local files.  A change holds its lock from load to write (HasLock), *)
(* so as long as nothing spoiled a file at most one change is past its     *)
(* load (Rewrites), and what it is about to write is its change of what    *)
(* was acknowledged (Upheld).                                              *)
(***************************************************************************)
HasLock == \A t \in Writers : writer[t].pc \in {"load", "truncate", "write"} /\ Op(t).f \in Locked =>
  lock[Op(t).f][Process[t]] = t

Rewrites(f) == {t \in Writers : Storing(t, f)}

Upheld(f) ==
  /\ \A t, u \in Rewrites(f) : t = u
  /\ \A t \in Rewrites(f) : writer[t].buf = Change(Op(t), Healed(f, acked[f]))
  /\ acked[f] \in Valid(f)
  /\ (\A t \in Rewrites(f) : writer[t].pc # "write") => disk[f] = acked[f]

FilesInv == LocalTypeOK /\ HasLock /\ \A f \in Stores \ spoiled : Upheld(f)

LEMMA ContentTyped ==
  ASSUME NEW f \in Stores
  PROVE  /\ Torn \notin Valid(f) /\ Default(f) \in Valid(f)
         /\ \A c \in Valid(f) : Healed(f, c) \in Valid(f)
<1>1. CASE f = "settings"
  BY <1>1 DEF Torn, Valid, Default, Healed
<1>2. CASE f \in {"rounds", "profiles"}
  <2>1. Valid(f) = [item : 0..2] /\ Default(f) = [item |-> 0] /\ \A c : Healed(f, c) = c
    BY <1>2 DEF Valid, Default, Healed
  <2>2. Torn \notin [item : 0..2]
    BY DEF Torn
  <2>. QED BY <2>1, <2>2
<1>3. CASE f = "cache"
  BY <1>3 DEF Torn, Valid, Default, Healed
<1>. QED BY <1>1, <1>2, <1>3, LocalAssumption

LEMMA ChangeTyped ==
  ASSUME NEW o \in Operations, NEW c \in Valid(o.f)
  PROVE  Change(o, c) \in Valid(o.f) \cup {Torn}
<1>1. o.f \in Stores /\ o.v \in 0..2 /\ o.do \in Doing(o.f)
  BY DEF Operations
<1>2. CASE o.f = "settings"
  BY <1>1, <1>2 DEF Valid, Change, ChangeSettings, Doing
<1>3. CASE o.f \in {"rounds", "profiles"}
  BY <1>1, <1>3 DEF Valid, Change, ChangeItem, Doing
<1>4. CASE o.f = "cache"
  <2>1. Valid(o.f) = [listed : 0..2, active : 0..2, seq : 0..2] /\ Change(o, c) = ChangeCache(o, c)
    BY <1>4 DEF Valid, Change
  <2>2. Listed(c, o.v) \in Valid(o.f)
    <3>. DEFINE a == IF o.v = 0 THEN 0 ELSE 1
    <3>1. Listed(c, o.v) = [c EXCEPT !.listed = o.v, !.active = a] /\ a \in 0..2
      BY DEF Listed
    <3>. HIDE DEF a
    <3>. QED BY <1>1, <2>1, <3>1
  <2>3. Default("cache") \in Valid(o.f)
    BY <2>1 DEF Default
  <2>4. o.do \in {"list", "active", "seq", "detach"}
    BY <1>1, <1>4 DEF Doing
  <2>. QED BY <1>1, <2>1, <2>2, <2>3, <2>4 DEF ChangeCache
<1>. QED BY <1>1, <1>2, <1>3, <1>4, LocalAssumption

(* Replacing does not depend on what is there. *)
LEMMA ReplaceIgnores ==
  ASSUME NEW o \in Operations, o.do = "replace", NEW c, NEW d
  PROVE  Change(o, c) = Change(o, d)
<1>1. o.f \in Stores /\ o.do \in Doing(o.f)
  BY DEF Operations
<1>2. o.f = "settings"
  BY <1>1, LocalAssumption DEF Doing
<1>. QED BY <1>2 DEF Change, ChangeSettings

(* The operation at the head of a busy task's queue. *)
LEMMA OpTyped ==
  ASSUME LocalTypeOK, NEW t \in Writers, writer[t].pc # "idle"
  PROVE  /\ Op(t) \in Operations /\ Op(t).f \in Stores
         /\ Tail(writer[t].todo) \in Seq(Operations)
<1>1. writer[t].todo \in Seq(Operations) /\ writer[t].todo # <<>>
  BY DEF LocalTypeOK, Working
<1>2. Head(writer[t].todo) \in Operations /\ Tail(writer[t].todo) \in Seq(Operations)
  BY <1>1
<1>3. \A o \in Operations : o.f \in Stores
  BY DEF Operations
<1>. QED BY <1>2, <1>3 DEF Op

(* A task's record, changed. *)
Places == {"idle", "enter", "load", "truncate", "write"}

LEMMA AtRestFilled ==
  ASSUME NEW todo
  PROVE  [AtRest EXCEPT !.pc = "enter", !.todo = todo] = [pc |-> "enter", todo |-> todo, buf |-> Torn]
<1>. DEFINE S == [pc : Places, todo : {<<>>, todo}, buf : {Torn}]
<1>1. PICK r \in S : r = AtRest
  BY DEF AtRest, Places
<1>2. PICK k \in S : k = [r EXCEPT !.pc = "enter", !.todo = todo]
  BY DEF Places
<1>3. k.pc = "enter" /\ k.todo = todo /\ k.buf = r.buf /\ r.buf = Torn
  BY <1>2
<1>4. k = [pc |-> k.pc, todo |-> k.todo, buf |-> k.buf]
  OBVIOUS
<1>. QED BY <1>1, <1>2, <1>3, <1>4

LEMMA Loaded ==
  ASSUME NEW r, r = [pc |-> r.pc, todo |-> r.todo, buf |-> r.buf], NEW buf
  PROVE  [r EXCEPT !.pc = "truncate", !.buf = buf] = [pc |-> "truncate", todo |-> r.todo, buf |-> buf]
<1>. DEFINE S == [pc : {r.pc, "truncate"}, todo : {r.todo}, buf : {r.buf, buf}]
<1>1. PICK s \in S : s = r
  OBVIOUS
<1>2. PICK k \in S : k = [s EXCEPT !.pc = "truncate", !.buf = buf]
  OBVIOUS
<1>3. k.pc = "truncate" /\ k.todo = s.todo /\ k.buf = buf
  BY <1>2
<1>4. k = [pc |-> k.pc, todo |-> k.todo, buf |-> k.buf]
  OBVIOUS
<1>. QED BY <1>1, <1>2, <1>3, <1>4

(* A step of t that leaves the other tasks alone. *)
Alters(t, new) ==
  /\ writer' = [writer EXCEPT ![t] = new]
  /\ new = [pc |-> new.pc, todo |-> new.todo, buf |-> new.buf]

LEMMA OthersStay ==
  ASSUME LocalTypeOK, NEW t \in Writers, NEW new, Alters(t, new)
  PROVE  /\ writer' = [u \in Writers |-> [pc |-> writer'[u].pc, todo |-> writer'[u].todo, buf |-> writer'[u].buf]]
         /\ writer'[t] = new
         /\ \A u \in Writers \ {t} : writer'[u] = writer[u]
  BY DEF LocalTypeOK, Alters

LEMMA TypedThen ==
  ASSUME LocalTypeOK, NEW t \in Writers, NEW new, Alters(t, new),
         new.pc \in {"idle", "enter", "load", "truncate", "write"},
         new.todo \in Seq(Operations), new.todo # <<>> <=> new.pc # "idle",
         \A f \in Stores : Storing(t, f)' => new.buf \in Valid(f),
         disk' = [f \in Stores |-> disk'[f]], \A f \in Stores : disk'[f] \in Valid(f) \cup {Torn},
         lock' \in [Stores -> [Processes -> Writers \cup {"none"}]],
         acked' = [f \in Stores |-> acked'[f]], spoiled' \subseteq Stores
  PROVE  LocalTypeOK'
<1>. /\ writer' = [u \in Writers |-> [pc |-> writer'[u].pc, todo |-> writer'[u].todo, buf |-> writer'[u].buf]]
     /\ writer'[t] = new /\ \A u \in Writers \ {t} : writer'[u] = writer[u]
  BY OthersStay
<1>1. ASSUME NEW u \in Writers
      PROVE  /\ writer'[u].pc \in {"idle", "enter", "load", "truncate", "write"}
             /\ writer'[u].todo \in Seq(Operations) /\ (Working(u)' <=> writer'[u].pc # "idle")
             /\ \A f \in Stores : Storing(u, f)' => writer'[u].buf \in Valid(f)
  <2>1. CASE u = t
    BY <2>1 DEF Working
  <2>2. CASE u # t
    BY <2>2 DEF LocalTypeOK, Working, Storing, Op
  <2>. QED BY <2>1, <2>2
<1>. QED BY <1>1 DEF LocalTypeOK

(* A task that is not past its load, before or after. *)
LEMMA UpheldFrame ==
  ASSUME LocalTypeOK, NEW t \in Writers, NEW new, Alters(t, new), NEW f \in Stores, Upheld(f),
         ~Storing(t, f), ~Storing(t, f)', disk'[f] = disk[f], acked'[f] = acked[f]
  PROVE  Upheld(f)'
<1>1. \A u \in Writers \ {t} : writer'[u] = writer[u]
  BY OthersStay
<1>2. Rewrites(f)' = Rewrites(f) /\ t \notin Rewrites(f)
  BY <1>1 DEF Rewrites, Storing, Op
<1>3. \A u \in Rewrites(f) : writer'[u] = writer[u]
  BY <1>1, <1>2 DEF Rewrites
<1>. QED BY <1>2, <1>3 DEF Upheld, Op

LEMMA StartStep ==
  ASSUME FilesInv, NEW t \in Writers, NEW queue \in Seq(Operations), queue # <<>>, Start(t, queue)
  PROVE  FilesInv'
<1>. LocalTypeOK /\ HasLock
  BY DEF FilesInv
<1>. DEFINE new == [pc |-> "enter", todo |-> queue, buf |-> Torn]
<1>0. [AtRest EXCEPT !.pc = "enter", !.todo = queue] = new
  BY AtRestFilled
<1>1. /\ Alters(t, new) /\ new.pc = "enter" /\ new.todo = queue /\ writer[t].pc = "idle"
      /\ UNCHANGED <<disk, lock, acked, spoiled>>
  BY <1>0 DEF Start, Alters, LocalTypeOK
<1>. HIDE DEF new
<1>2. writer'[t] = new /\ \A u \in Writers \ {t} : writer'[u] = writer[u]
  BY <1>1, OthersStay
<1>3. \A f \in Stores : ~Storing(t, f) /\ ~Storing(t, f)'
  BY <1>1, <1>2 DEF Storing
<1>4. LocalTypeOK'
  <2>. DEFINE d == disk
  <2>1. /\ disk' = [f \in Stores |-> disk'[f]] /\ \A f \in Stores : disk'[f] \in Valid(f) \cup {Torn}
        /\ lock' \in [Stores -> [Processes -> Writers \cup {"none"}]]
        /\ acked' = [f \in Stores |-> acked'[f]] /\ spoiled' \subseteq Stores
    BY <1>1 DEF LocalTypeOK
  <2>. QED BY <1>1, <1>3, <2>1, TypedThen
<1>5. HasLock'
  BY <1>1, <1>2 DEF HasLock, Op
<1>6. \A f \in Stores \ spoiled' : Upheld(f)'
  BY <1>1, <1>3, UpheldFrame DEF FilesInv
<1>. QED BY <1>4, <1>5, <1>6 DEF FilesInv

LEMMA EnterStep ==
  ASSUME FilesInv, NEW t \in Writers, Enter(t)
  PROVE  FilesInv'
<1>. LocalTypeOK /\ HasLock
  BY DEF FilesInv
<1>. DEFINE new == [writer[t] EXCEPT !.pc = "load"]
            f0 == Op(t).f
<1>1. /\ Alters(t, new) /\ new.pc = "load" /\ new.todo = writer[t].todo /\ writer[t].pc = "enter"
      /\ UNCHANGED <<disk, acked, spoiled>>
      /\ lock' = IF f0 \in Locked THEN [lock EXCEPT ![f0][Process[t]] = t] ELSE lock
      /\ f0 \in Locked => lock[f0][Process[t]] = "none"
  BY DEF Enter, Alters, LocalTypeOK
<1>. HIDE DEF new
<1>2. writer'[t] = new /\ \A u \in Writers \ {t} : writer'[u] = writer[u]
  BY <1>1, OthersStay
<1>3. \A f \in Stores : ~Storing(t, f) /\ ~Storing(t, f)'
  BY <1>1, <1>2 DEF Storing
<1>4. f0 \in Stores /\ Process[t] \in Processes /\ Op(t)' = Op(t)
  BY <1>1, <1>2, OpTyped DEF Processes, Op
<1>5. LocalTypeOK'
  <2>1. /\ disk' = [f \in Stores |-> disk'[f]] /\ \A f \in Stores : disk'[f] \in Valid(f) \cup {Torn}
        /\ acked' = [f \in Stores |-> acked'[f]] /\ spoiled' \subseteq Stores
    BY <1>1 DEF LocalTypeOK
  <2>2. lock' \in [Stores -> [Processes -> Writers \cup {"none"}]]
    BY <1>1, <1>4 DEF LocalTypeOK
  <2>3. new.todo \in Seq(Operations) /\ new.todo # <<>>
    BY <1>1 DEF LocalTypeOK, Working
  <2>. QED BY <1>1, <1>3, <2>1, <2>2, <2>3, TypedThen
<1>6. HasLock'
  <2>. SUFFICES ASSUME NEW u \in Writers, writer'[u].pc \in {"load", "truncate", "write"},
                       Op(u)'.f \in Locked
                PROVE  lock'[Op(u)'.f][Process[u]] = u
    BY DEF HasLock
  <2>1. CASE u = t
    BY <1>1, <1>4, <2>1 DEF LocalTypeOK
  <2>2. CASE u # t
    <3>1. writer'[u] = writer[u] /\ Op(u)' = Op(u) /\ Op(u).f \in Stores /\ Process[u] \in Processes
      BY <1>2, <2>2, OpTyped DEF Op, Processes
    <3>2. lock[Op(u).f][Process[u]] = u /\ u # "none"
      BY <3>1, LocalAssumption DEF HasLock
    <3>. QED BY <1>1, <1>4, <3>1, <3>2 DEF LocalTypeOK
  <2>. QED BY <2>1, <2>2
<1>7. \A f \in Stores \ spoiled' : Upheld(f)'
  BY <1>1, <1>3, UpheldFrame DEF FilesInv
<1>. QED BY <1>5, <1>6, <1>7 DEF FilesInv

(* What is left of a task that ended its operation. *)
LEMMA EndedThen ==
  ASSUME LocalTypeOK, HasLock, NEW t \in Writers, writer[t].pc # "idle", Ended(t)
  PROVE  \E new : /\ Alters(t, new) /\ new.pc \in {"idle", "enter"} /\ new.todo \in Seq(Operations)
                  /\ new.todo # <<>> <=> new.pc # "idle"
                  /\ lock' \in [Stores -> [Processes -> Writers \cup {"none"}]]
                  /\ HasLock'
<1>. DEFINE rest == Tail(writer[t].todo)
            new == IF rest = <<>> THEN AtRest ELSE [AtRest EXCEPT !.pc = "enter", !.todo = rest]
<1>1. rest \in Seq(Operations)
  BY OpTyped
<1>2. writer' = [writer EXCEPT ![t] = new] /\ lock' = Released(t)
  BY DEF Ended
<1>. HIDE DEF rest
<1>3. /\ new = [pc |-> new.pc, todo |-> new.todo, buf |-> new.buf] /\ new.pc \in {"idle", "enter"}
      /\ new.todo \in Seq(Operations) /\ (new.todo # <<>> <=> new.pc # "idle")
  BY <1>1 DEF AtRest
<1>. HIDE DEF new
<1>4. Alters(t, new)
  BY <1>2, <1>3 DEF Alters
<1>5. writer'[t] = new /\ \A u \in Writers \ {t} : writer'[u] = writer[u]
  BY <1>4, OthersStay
<1>6. lock' \in [Stores -> [Processes -> Writers \cup {"none"}]]
  BY <1>2 DEF Released, LocalTypeOK
<1>7. HasLock'
  <2>. SUFFICES ASSUME NEW u \in Writers, writer'[u].pc \in {"load", "truncate", "write"},
                       Op(u)'.f \in Locked
                PROVE  lock'[Op(u)'.f][Process[u]] = u
    BY DEF HasLock
  <2>1. u # t
    BY <1>3, <1>5
  <2>2. writer'[u] = writer[u] /\ Op(u)' = Op(u) /\ Op(u).f \in Stores /\ Process[u] \in Processes
    BY <1>5, <2>1, OpTyped DEF Op, Processes
  <2>3. lock[Op(u).f][Process[u]] = u
    BY <2>2 DEF HasLock
  <2>. QED BY <1>2, <2>1, <2>2, <2>3 DEF Released
<1>. QED BY <1>3, <1>4, <1>6, <1>7

LEMMA LoadedStep ==
  ASSUME FilesInv, NEW t \in Writers, Load(t)
  PROVE  FilesInv'
<1>. LocalTypeOK /\ HasLock
  BY DEF FilesInv
<1>. DEFINE o == Op(t)
            read == Content(o.f)
            c == IF read = Torn THEN Torn ELSE Healed(o.f, read)
            res == IF o.do = "replace" THEN Change(o, Default(o.f))
                   ELSE IF c = Torn THEN Torn ELSE Change(o, c)
<1>1. /\ writer[t].pc = "load" /\ UNCHANGED <<disk, acked>>
      /\ spoiled' = IF Meets(t, o.f) THEN spoiled \cup {o.f} ELSE spoiled
      /\ IF res = Torn THEN Ended(t)
         ELSE writer' = [writer EXCEPT ![t] = [writer[t] EXCEPT !.pc = "truncate", !.buf = res]] /\ UNCHANGED lock
  BY DEF Load
<1>2. o \in Operations /\ o.f \in Stores
  BY <1>1, OpTyped
<1>3. res \in Valid(o.f) \cup {Torn} /\ Torn \notin Valid(o.f)
  <2>1. read \in Valid(o.f) \cup {Torn}
    BY <1>2, ContentTyped DEF LocalTypeOK, Content
  <2>2. c \in Valid(o.f) \cup {Torn} /\ Default(o.f) \in Valid(o.f) /\ Torn \notin Valid(o.f)
    BY <1>2, <2>1, ContentTyped
  <2>. HIDE DEF c, o
  <2>. QED BY <1>2, <2>2, ChangeTyped
<1>4. ASSUME o.f \notin spoiled', res # Torn
      PROVE  Rewrites(o.f) = {} /\ res = Change(o, Healed(o.f, acked[o.f]))
  <2>1. ~Meets(t, o.f) /\ o.f \in Stores \ spoiled
    BY <1>1, <1>2, <1>4
  <2>2. Upheld(o.f)
    BY <2>1 DEF FilesInv
  <2>3. ASSUME NEW u \in Rewrites(o.f) PROVE FALSE
    <3>1. u \in Writers /\ writer[u].pc \in {"truncate", "write"} /\ Op(u).f = o.f /\ Storing(u, o.f)
      BY DEF Rewrites, Storing
    <3>2. u # t
      BY <1>1, <3>1
    <3>3. o.f \notin {"profiles", "cache"} /\ Process[u] = Process[t]
      BY <2>1, <3>1, <3>2 DEF Meets
    <3>4. o.f \in Locked
      BY <1>2, <3>3, LocalAssumption DEF Locked
    <3>5. lock[o.f][Process[t]] = t /\ lock[o.f][Process[t]] = u
      BY <1>1, <3>1, <3>3, <3>4 DEF HasLock
    <3>. QED BY <3>2, <3>5
  <2>4. disk[o.f] = acked[o.f] /\ acked[o.f] \in Valid(o.f)
    BY <2>2, <2>3 DEF Upheld
  <2>5. c = Healed(o.f, acked[o.f])
    BY <1>2, <2>4, ContentTyped DEF Content
  <2>6. CASE o.do = "replace"
    <3>1. res = Change(o, Default(o.f))
      BY <2>6
    <3>2. Rewrites(o.f) = {}
      BY <2>3
    <3>. HIDE DEF res, o
    <3>. QED BY <1>2, <2>6, <3>1, <3>2, ReplaceIgnores
  <2>7. CASE o.do # "replace"
    <3>1. c # Torn
      BY <1>2, <2>4, <2>5, ContentTyped
    <3>2. res = Change(o, c)
      BY <2>7, <3>1
    <3>3. Rewrites(o.f) = {}
      BY <2>3
    <3>. HIDE DEF res, o, c
    <3>. QED BY <2>5, <3>2, <3>3
  <2>. QED BY <2>6, <2>7
<1>. HIDE DEF res
<1>t. /\ disk' = [f \in Stores |-> disk'[f]] /\ \A f \in Stores : disk'[f] \in Valid(f) \cup {Torn}
      /\ acked' = [f \in Stores |-> acked'[f]] /\ spoiled' \subseteq Stores
  BY <1>1, <1>2 DEF LocalTypeOK
<1>5. CASE res = Torn
  <2>1. PICK new : /\ Alters(t, new) /\ new.pc \in {"idle", "enter"} /\ new.todo \in Seq(Operations)
                   /\ new.todo # <<>> <=> new.pc # "idle"
                   /\ lock' \in [Stores -> [Processes -> Writers \cup {"none"}]]
                   /\ HasLock'
    BY <1>1, <1>5, EndedThen
  <2>2. writer'[t] = new
    BY <2>1, OthersStay
  <2>3. \A f \in Stores : ~Storing(t, f) /\ ~Storing(t, f)'
    BY <1>1, <2>1, <2>2 DEF Storing
  <2>4. LocalTypeOK'
    BY <1>t, <2>1, <2>3, TypedThen
  <2>5. \A f \in Stores \ spoiled' : Upheld(f)'
    BY <1>1, <2>1, <2>3, UpheldFrame DEF FilesInv
  <2>. QED BY <2>1, <2>4, <2>5 DEF FilesInv
<1>6. CASE res # Torn
  <2>. DEFINE new == [pc |-> "truncate", todo |-> writer[t].todo, buf |-> res]
  <2>0. writer[t] = [pc |-> writer[t].pc, todo |-> writer[t].todo, buf |-> writer[t].buf]
    BY DEF LocalTypeOK
  <2>1. [writer[t] EXCEPT !.pc = "truncate", !.buf = res] = new
    BY <2>0, Loaded
  <2>a. Alters(t, new) /\ new.pc = "truncate" /\ new.todo = writer[t].todo /\ new.buf = res /\ lock' = lock
    BY <1>1, <1>6, <2>1 DEF Alters
  <2>. HIDE DEF new
  <2>2. writer'[t] = new /\ \A u \in Writers \ {t} : writer'[u] = writer[u]
    BY <2>a, OthersStay
  <2>3. Op(t)' = Op(t) /\ \A f \in Stores : ~Storing(t, f) /\ (Storing(t, f)' <=> f = o.f)
    BY <1>1, <2>a, <2>2 DEF Storing, Op
  <2>4. LocalTypeOK'
    <3>1. \A f \in Stores : Storing(t, f)' => new.buf \in Valid(f)
      BY <1>3, <1>6, <2>a, <2>3
    <3>2. new.todo \in Seq(Operations) /\ new.todo # <<>>
      BY <1>1, <2>a DEF LocalTypeOK, Working
    <3>3. lock' \in [Stores -> [Processes -> Writers \cup {"none"}]]
      BY <2>a DEF LocalTypeOK
    <3>. QED BY <1>t, <2>a, <3>1, <3>2, <3>3, TypedThen
  <2>5. HasLock'
    BY <1>1, <2>a, <2>2, <2>3 DEF HasLock, Op
  <2>6. ASSUME NEW f \in Stores \ spoiled' PROVE Upheld(f)'
    <3>1. CASE f # o.f
      BY <1>1, <2>a, <2>3, <3>1, UpheldFrame DEF FilesInv
    <3>2. CASE f = o.f
      <4>1. Rewrites(f) = {} /\ res = Change(o, Healed(f, acked[f])) /\ Upheld(f)
        BY <1>1, <1>4, <1>6, <3>2 DEF FilesInv
      <4>2. Rewrites(f)' = {t}
        BY <2>2, <2>3, <3>2, <4>1 DEF Rewrites, Storing, Op
      <4>3. acked'[f] \in Valid(f) /\ disk'[f] = acked'[f] /\ acked'[f] = acked[f]
        BY <1>1, <4>1 DEF Upheld
      <4>. QED BY <2>a, <2>2, <2>3, <4>1, <4>2, <4>3 DEF Upheld
    <3>. QED BY <3>1, <3>2
  <2>. QED BY <2>4, <2>5, <2>6 DEF FilesInv
<1>. QED BY <1>5, <1>6

LEMMA TruncateStep ==
  ASSUME FilesInv, NEW t \in Writers, Truncate(t)
  PROVE  FilesInv'
<1>. LocalTypeOK /\ HasLock
  BY DEF FilesInv
<1>. DEFINE new == [writer[t] EXCEPT !.pc = "write"]
            f0 == Op(t).f
<1>1. /\ Alters(t, new) /\ new.pc = "write" /\ new.todo = writer[t].todo /\ new.buf = writer[t].buf
      /\ writer[t].pc = "truncate" /\ UNCHANGED <<lock, acked, spoiled>>
      /\ disk' = [disk EXCEPT ![f0] = Torn]
  BY DEF Truncate, Alters, LocalTypeOK
<1>. HIDE DEF new
<1>2. writer'[t] = new /\ \A u \in Writers \ {t} : writer'[u] = writer[u]
  BY <1>1, OthersStay
<1>3. f0 \in Stores /\ Op(t)' = Op(t)
      /\ \A f \in Stores : (Storing(t, f) <=> f = f0) /\ (Storing(t, f)' <=> f = f0)
  BY <1>1, <1>2, OpTyped DEF Storing, Op
<1>4. LocalTypeOK'
  <2>1. /\ disk' = [f \in Stores |-> disk'[f]] /\ \A f \in Stores : disk'[f] \in Valid(f) \cup {Torn}
        /\ acked' = [f \in Stores |-> acked'[f]] /\ spoiled' \subseteq Stores
        /\ lock' \in [Stores -> [Processes -> Writers \cup {"none"}]]
    BY <1>1, <1>3 DEF LocalTypeOK
  <2>2. new.todo \in Seq(Operations) /\ new.todo # <<>>
    BY <1>1 DEF LocalTypeOK, Working
  <2>3. \A f \in Stores : Storing(t, f)' => new.buf \in Valid(f)
    BY <1>1, <1>3 DEF LocalTypeOK
  <2>. QED BY <1>1, <2>1, <2>2, <2>3, TypedThen
<1>5. HasLock'
  BY <1>1, <1>2, <1>3 DEF HasLock, Op
<1>6. ASSUME NEW f \in Stores \ spoiled' PROVE Upheld(f)'
  <2>1. Upheld(f) /\ acked' = acked /\ t \in Writers
    BY <1>1 DEF FilesInv
  <2>2. CASE f # f0
    <3>1. disk'[f] = disk[f]
      BY <1>1, <2>2 DEF LocalTypeOK
    <3>. QED BY <1>1, <1>3, <2>1, <2>2, <3>1, UpheldFrame
  <2>3. CASE f = f0
    <3>1. Rewrites(f)' = Rewrites(f) /\ t \in Rewrites(f)
      BY <1>2, <1>3, <2>3 DEF Rewrites, Storing, Op
    <3>2. \A u \in Rewrites(f)' : u = t
      BY <2>1, <3>1 DEF Upheld
    <3>. QED BY <1>1, <1>2, <1>3, <2>1, <2>3, <3>1, <3>2 DEF Upheld
  <2>. QED BY <2>2, <2>3
<1>. QED BY <1>4, <1>5, <1>6 DEF FilesInv

LEMMA WrittenStep ==
  ASSUME FilesInv, NEW t \in Writers, Write(t)
  PROVE  FilesInv'
<1>. LocalTypeOK /\ HasLock
  BY DEF FilesInv
<1>. DEFINE f0 == Op(t).f
<1>1. /\ writer[t].pc = "write" /\ disk' = [disk EXCEPT ![f0] = writer[t].buf]
      /\ acked' = [acked EXCEPT ![f0] = Change(Op(t), Healed(f0, acked[f0]))]
      /\ Ended(t) /\ spoiled' = spoiled
  BY DEF Write
<1>2. PICK new : /\ Alters(t, new) /\ new.pc \in {"idle", "enter"} /\ new.todo \in Seq(Operations)
                 /\ new.todo # <<>> <=> new.pc # "idle"
                 /\ lock' \in [Stores -> [Processes -> Writers \cup {"none"}]]
                 /\ HasLock'
  BY <1>1, EndedThen
<1>3. writer'[t] = new /\ \A u \in Writers \ {t} : writer'[u] = writer[u]
  BY <1>2, OthersStay
<1>4. f0 \in Stores /\ \A f \in Stores : (Storing(t, f) <=> f = f0) /\ ~Storing(t, f)'
  BY <1>1, <1>2, <1>3, OpTyped DEF Storing
<1>5. writer[t].buf \in Valid(f0)
  BY <1>4 DEF LocalTypeOK
<1>6. LocalTypeOK'
  <2>1. /\ disk' = [f \in Stores |-> disk'[f]] /\ \A f \in Stores : disk'[f] \in Valid(f) \cup {Torn}
        /\ acked' = [f \in Stores |-> acked'[f]] /\ spoiled' \subseteq Stores
    BY <1>1, <1>4, <1>5 DEF LocalTypeOK
  <2>. QED BY <1>2, <1>4, <2>1, TypedThen
<1>7. ASSUME NEW f \in Stores \ spoiled' PROVE Upheld(f)'
  <2>1. Upheld(f)
    BY <1>1 DEF FilesInv
  <2>2. CASE f # f0
    <3>1. disk'[f] = disk[f] /\ acked'[f] = acked[f]
      BY <1>1, <2>2 DEF LocalTypeOK
    <3>. QED BY <1>2, <1>4, <2>1, <2>2, <3>1, UpheldFrame
  <2>3. CASE f = f0
    <3>1. t \in Rewrites(f) /\ \A u \in Rewrites(f) : u = t
      BY <1>4, <2>1, <2>3 DEF Upheld, Rewrites
    <3>2. Rewrites(f)' = {}
      BY <1>3, <1>4, <2>3, <3>1 DEF Rewrites, Storing, Op
    <3>3. disk'[f] = writer[t].buf /\ acked'[f] = writer[t].buf
      BY <1>1, <2>1, <2>3, <3>1 DEF Upheld, LocalTypeOK
    <3>. QED BY <1>5, <2>3, <3>2, <3>3 DEF Upheld
  <2>. QED BY <2>2, <2>3
<1>. QED BY <1>2, <1>6, <1>7 DEF FilesInv

LEMMA DiedStep ==
  ASSUME FilesInv, NEW p \in Processes, Dies(p)
  PROVE  FilesInv'
<1>. LocalTypeOK /\ HasLock
  BY DEF FilesInv
<1>. DEFINE dead == {t \in Writers : Process[t] = p /\ Working(t)}
<1>1. /\ writer' = [t \in Writers |-> IF t \in dead THEN AtRest ELSE writer[t]]
      /\ lock' = [f \in Stores |-> [lock[f] EXCEPT ![p] = "none"]]
      /\ spoiled' = spoiled \cup {Op(t).f : t \in {u \in dead : writer[u].pc = "write"}}
      /\ UNCHANGED <<disk, acked>>
  BY DEF Dies
<1>2. \A t \in Writers : /\ t \in dead => writer'[t] = AtRest
                         /\ t \notin dead => writer'[t] = writer[t]
  BY <1>1
<1>3. \A t \in dead : writer[t].pc # "idle" /\ Process[t] = p
  BY DEF LocalTypeOK
<1>4. \A t \in Writers : t \in dead \/ writer[t].pc = "idle" \/ Process[t] # p
  BY DEF LocalTypeOK
<1>. HIDE DEF dead
<1>5. LocalTypeOK'
  <2>1. writer' = [t \in Writers |-> [pc |-> writer'[t].pc, todo |-> writer'[t].todo, buf |-> writer'[t].buf]]
    BY <1>1, <1>2 DEF AtRest, LocalTypeOK
  <2>2. ASSUME NEW t \in Writers
        PROVE  /\ writer'[t].pc \in {"idle", "enter", "load", "truncate", "write"}
               /\ writer'[t].todo \in Seq(Operations) /\ (Working(t)' <=> writer'[t].pc # "idle")
               /\ \A f \in Stores : Storing(t, f)' => writer'[t].buf \in Valid(f)
    <3>1. CASE t \in dead
      <4>1. writer'[t].pc = "idle" /\ writer'[t].todo = <<>>
        BY <1>2, <3>1 DEF AtRest
      <4>2. <<>> \in Seq(Operations)
        OBVIOUS
      <4>. QED BY <4>1, <4>2 DEF Working, Storing
    <3>2. CASE t \notin dead
      BY <1>2, <3>2 DEF LocalTypeOK, Working, Storing, Op
    <3>. QED BY <3>1, <3>2
  <2>3. spoiled' \subseteq Stores
    <3>1. \A t \in dead : t \in Writers /\ Op(t).f \in Stores
      BY <1>3, OpTyped DEF dead
    <3>. QED BY <1>1, <3>1 DEF LocalTypeOK
  <2>4. lock' \in [Stores -> [Processes -> Writers \cup {"none"}]]
    BY <1>1 DEF LocalTypeOK
  <2>. QED BY <1>1, <2>1, <2>2, <2>3, <2>4 DEF LocalTypeOK
<1>6. HasLock'
  <2>. SUFFICES ASSUME NEW u \in Writers, writer'[u].pc \in {"load", "truncate", "write"},
                       Op(u)'.f \in Locked
                PROVE  lock'[Op(u)'.f][Process[u]] = u
    BY DEF HasLock
  <2>1. u \notin dead /\ writer'[u] = writer[u] /\ Op(u)' = Op(u)
    BY <1>2 DEF AtRest, Op
  <2>2. Process[u] # p /\ Process[u] \in Processes /\ Op(u).f \in Stores /\ lock[Op(u).f][Process[u]] = u
    BY <1>4, <2>1, OpTyped DEF HasLock, Processes
  <2>. QED BY <1>1, <2>1, <2>2 DEF LocalTypeOK
<1>7. ASSUME NEW f \in Stores \ spoiled' PROVE Upheld(f)'
  <2>1. Upheld(f) /\ acked' = acked /\ disk' = disk
    BY <1>1 DEF FilesInv
  <2>2. \A t \in Rewrites(f)' : t \in Rewrites(f) /\ writer'[t] = writer[t] /\ Op(t)' = Op(t)
    BY <1>2 DEF Rewrites, Storing, Op, AtRest
  <2>3. \A t \in Rewrites(f) : writer[t].pc = "write" => t \in Rewrites(f)'
    <3>. SUFFICES ASSUME NEW t \in Rewrites(f), writer[t].pc = "write" PROVE t \in Rewrites(f)'
      OBVIOUS
    <3>1. t \in Writers /\ Op(t).f = f
      BY DEF Rewrites, Storing
    <3>2. t \notin dead
      BY <1>1, <3>1
    <3>. QED BY <1>2, <3>1, <3>2 DEF Rewrites, Storing, Op
  <2>. QED BY <2>1, <2>2, <2>3 DEF Upheld
<1>. QED BY <1>5, <1>6, <1>7 DEF FilesInv

(* Every command's queue is of its store's operations. *)
LEMMA SingleStep ==
  ASSUME FilesInv, NEW t \in Writers, NEW f, NEW what \in Doing(f), NEW v \in 0..2, Single(t, f, what, v)
  PROVE  FilesInv'
<1>1. Start(t, <<Do(f, what, v)>>) /\ f \in Stores
  BY DEF Single, Start, Do
<1>2. Do(f, what, v) \in Operations
  BY <1>1 DEF Do, Operations
<1>3. <<Do(f, what, v)>> \in Seq(Operations) /\ <<Do(f, what, v)>> # <<>>
  BY <1>2
<1>. QED BY <1>1, <1>3, StartStep

LEMMA CacheStep ==
  ASSUME FilesInv, NEW t \in Writers, NEW a, NEW b, a.f = "cache", a \in Operations \/ a.f \notin Stores,
         b \in Operations \/ "cache" \notin Stores, Start(t, <<a, b>>)
  PROVE  FilesInv'
<1>1. a.f \in Stores
  BY DEF Start
<1>2. <<a, b>> \in Seq(Operations) /\ <<a, b>> # <<>>
  BY <1>1
<1>. QED BY <1>2, StartStep

LEMMA DoTyped ==
  ASSUME NEW what \in {"list", "active", "seq", "detach"}, NEW v \in 0..2
  PROVE  Do("cache", what, v).f = "cache" /\ ("cache" \in Stores => Do("cache", what, v) \in Operations)
  BY DEF Do, Operations, Doing

LEMMA FilesStep == FilesInv /\ [LocalNext]_localVars => FilesInv'
<1>. SUFFICES ASSUME FilesInv, [LocalNext]_localVars PROVE FilesInv'
  OBVIOUS
<1>. 0 \in 0..2 /\ 1 \in 0..2 /\ 2 \in 0..2
  OBVIOUS
<1>1. ASSUME NEW t \in Writers, NEW v \in {0, 1, 2},
             \/ Toggle(t, v) \/ ReplaceAll(t, v) \/ AddCustom(t) \/ DeleteCustom(t)
      PROVE  FilesInv'
  BY <1>1, SingleStep DEF Toggle, ReplaceAll, AddCustom, DeleteCustom, Doing
<1>2. ASSUME NEW t \in Writers,
             \/ CreateRound(t) \/ UpdateDescription(t) \/ UpsertRawRound(t) \/ DeleteRound(t)
             \/ UpsertProfile(t) \/ UpsertRawProfile(t) \/ SetTeam(t) \/ DeleteProfile(t)
      PROVE  FilesInv'
  BY <1>2, SingleStep DEF CreateRound, UpdateDescription, UpsertRawRound, DeleteRound,
     UpsertProfile, UpsertRawProfile, SetTeam, DeleteProfile, Doing
<1>3. ASSUME NEW t \in Writers, NEW v \in {0, 1, 2},
             \/ ListWorkspaces(t, v) \/ SetActive(t, v) \/ SetLastSeq(t, v)
      PROVE  FilesInv'
  BY <1>3, SingleStep DEF ListWorkspaces, SetActive, SetLastSeq, Doing
<1>4. ASSUME NEW t \in Writers, CreateWorkspace(t) \/ LeaveWorkspace(t)
      PROVE  FilesInv'
  <2>1. CASE Start(t, <<Do("cache", "list", 1), Do("cache", "active", 1)>>)
    BY <2>1, DoTyped, CacheStep
  <2>2. CASE Start(t, <<Do("cache", "list", 1), Do("cache", "detach", 0)>>)
    BY <2>2, DoTyped, CacheStep
  <2>3. CASE SetActive(t, 1)
    BY <1>3, <2>3
  <2>4. CASE Single(t, "cache", "detach", 0)
    BY <2>4, SingleStep DEF Doing
  <2>. QED BY <1>4, <2>1, <2>2, <2>3, <2>4 DEF CreateWorkspace, LeaveWorkspace
<1>5. ASSUME NEW t \in Writers, JoinWorkspace(t) \/ DeleteWorkspace(t)
      PROVE  FilesInv'
  BY <1>4, <1>5 DEF JoinWorkspace, DeleteWorkspace
<1>6. CASE \E p \in Processes : Dies(p)
  BY <1>6, DiedStep
<1>7. CASE UNCHANGED localVars
  BY <1>7 DEF localVars, FilesInv, LocalTypeOK, Working, Storing, Op, HasLock, Upheld, Rewrites
<1>. QED BY <1>1, <1>2, <1>3, <1>4, <1>5, <1>6, <1>7, EnterStep, LoadedStep, TruncateStep, WrittenStep
         DEF LocalNext

(* What settings.rs, saved_rounds.rs, profiles.rs and workspaces.rs report as
   saved stays in the file, whatever the tasks and processes that change it and
   whenever one dies, as long as no crash cut a write short and no two changes
   met that no lock keeps apart. *)
THEOREM StoresAreKept == LocalSpec => []StoresKept
<1>1. LocalInit => FilesInv
  <2>. SUFFICES ASSUME LocalInit PROVE FilesInv
    OBVIOUS
  <2>1. \A t \in Writers : writer[t] = AtRest /\ ~Working(t) /\ \A f \in Stores : ~Storing(t, f)
    BY DEF LocalInit, AtRest, Working, Storing
  <2>2. \A f \in Stores : disk[f] \in Valid(f) /\ acked[f] = disk[f]
    BY ContentTyped DEF LocalInit
  <2>3. LocalTypeOK
    <3>1. writer = [t \in Writers |-> [pc |-> writer[t].pc, todo |-> writer[t].todo, buf |-> writer[t].buf]]
      BY <2>1 DEF LocalInit, AtRest
    <3>2. \A t \in Writers : writer[t].pc = "idle" /\ writer[t].todo \in Seq(Operations)
      <4>1. <<>> \in Seq(Operations)
        OBVIOUS
      <4>2. AtRest.pc = "idle" /\ AtRest.todo = <<>>
        BY DEF AtRest
      <4>. QED BY <2>1, <4>1, <4>2
    <3>. QED BY <2>1, <2>2, <3>1, <3>2 DEF LocalInit, LocalTypeOK
  <2>4. HasLock
    BY <2>1 DEF HasLock, AtRest
  <2>5. \A f \in Stores : Upheld(f)
    BY <2>1, <2>2 DEF Upheld, Rewrites
  <2>. QED BY <2>3, <2>4, <2>5 DEF FilesInv
<1>2. FilesInv => StoresKept
  <2>. SUFFICES ASSUME FilesInv, NEW f \in Stores \ spoiled,
                       \A t \in Writers : Working(t) /\ Op(t).f = f => writer[t].pc # "write"
                PROVE  disk[f] = acked[f]
    BY DEF FilesInv, StoresKept, AckedKept
  <2>1. \A t \in Rewrites(f) : writer[t].pc # "write"
    BY DEF Rewrites, Storing, FilesInv, LocalTypeOK
  <2>. QED BY <2>1 DEF FilesInv, Upheld
<1>. QED BY <1>1, <1>2, FilesStep, PTL DEF LocalSpec

-----------------------------------------------------------------------------
(***************************************************************************)
(* The sidecars.  An inode that is being filled has the temporary name, so *)
(* it is neither a sidecar nor mapped (Inodal); as long as no two opens    *)
(* filled the same file, what is a sidecar or mapped is whole (Sides,      *)
(* Shows), and what is being filled is whole up to its writer's place      *)
(* (Fills).                                                                *)
(***************************************************************************)
(* Books of another version have another size: the header of an index holds
   the size of what it is of, and nothing else tells them apart. *)
LengthsTell == \A v, w \in Versions : Lengths[v] = Lengths[w] => v = w

Made(i) == \E v \in Versions : inode[i] = Whole(v)

Inodal ==
  /\ \A m, n \in Names : m # n /\ name[m] # 0 => name[m] # name[n]
  /\ \A n \in Names : name[n] <= used

(* An open o, however many there are. *)
Rests(o) ==
  /\ o.pc \in {"create", "write", "rename"} => o.from \in Versions
  /\ o.pc = "write" => o.at # 0
  /\ o.pc = "index" => o.kind = "raw" /\ (o.map = 0 => \E v \in Versions : o.buf = Whole(v))
  /\ o.map <= used /\ (o.map # 0 => o.map # name["raw.tmp"] /\ o.map # name["idx.tmp"])

Showing(o) == IF o.map # 0 THEN inode[o.map] ELSE o.buf
Indexed(o) == o.pc = "open" \/ (o.kind = "idx" /\ o.pc \in {"create", "write", "rename"})
Shows(o) ==
  /\ o.map # 0 => Made(o.map)
  /\ Indexed(o) => o.idx \in Versions /\ Showing(o) = Whole(o.idx)

Filling(o) == o.pc \in {"write", "rename"}
Fills(o) == Filling(o) =>
  /\ name[Tmp(o.kind)] = o.out /\ o.out # 0
  /\ \A c \in 1..Chunks : inode[o.out][c] = IF c < o.at \/ o.pc = "rename" THEN o.from ELSE 0

Lone == \A t, u \in Openers :
  Filling(opener[t]) /\ Filling(opener[u]) /\ opener[t].kind = opener[u].kind => t = u
Sides == \A k \in {"raw", "idx"} : name[k] # 0 => Made(name[k])

SidecarInv ==
  /\ SidecarTypeOK /\ Inodal
  /\ \A t \in Openers : Rests(opener[t])
  /\ single => Lone /\ Sides /\ \A t \in Openers : Shows(opener[t]) /\ Fills(opener[t])

LEMMA PartsTyped ==
  /\ Blank \in [1..Chunks -> Parts] /\ NotOpen \in Opener
  /\ \A v \in Versions : v \in Parts /\ v # 0 /\ Whole(v) \in [1..Chunks -> Parts]
  /\ \A v \in Versions : \A c \in 1..Chunks : Whole(v)[c] = v
  /\ 1 \in 1..Chunks /\ Chunks \in 1..Chunks
<1>. USE SidecarAssumptions
<1>1. Blank \in [1..Chunks -> Parts]
  BY DEF Blank, Parts
<1>2. NotOpen \in Opener
  BY <1>1 DEF NotOpen, Opener, Parts
<1>3. \A v \in Versions : v \in Parts /\ v # 0
  BY DEF Versions, Parts
<1>4. \A v \in Versions : Whole(v) \in [1..Chunks -> Parts]
  BY <1>3 DEF Whole
<1>. QED BY <1>1, <1>2, <1>3, <1>4 DEF Whole

LEMMA RestsIdle == ASSUME SidecarTypeOK PROVE Rests(NotOpen) /\ Shows(NotOpen) /\ ~Filling(NotOpen)
  BY DEF Rests, Shows, Indexed, NotOpen, Filling, SidecarTypeOK

(* One open becomes new. *)
LEMMA OpenerThen ==
  ASSUME SidecarTypeOK, NEW t \in Openers, NEW new \in Opener, Becomes(t, new)
  PROVE  /\ opener' \in [Openers -> Opener] /\ opener'[t] = new
         /\ \A u \in Openers \ {t} : opener'[u] = opener[u]
  BY DEF SidecarTypeOK, Becomes

(* A step that touches no file. *)
LEMMA QuietStep ==
  ASSUME SidecarInv, NEW t \in Openers, NEW new \in Opener, Becomes(t, new), Rests(new),
         single => Shows(new), ~Filling(new),
         UNCHANGED <<inode, name, used, single, zst, replaced>>
  PROVE  SidecarInv'
<1>1. /\ opener' \in [Openers -> Opener] /\ opener'[t] = new
      /\ \A u \in Openers \ {t} : opener'[u] = opener[u]
  BY OpenerThen DEF SidecarInv
<1>5. Inodal' /\ (Sides' <=> Sides)
  BY DEF SidecarInv, Inodal, Sides, Made
<1>6. SidecarTypeOK'
  BY <1>1 DEF SidecarInv, SidecarTypeOK
<1>7. \A u \in Openers : Rests(opener[u])'
  BY <1>1 DEF SidecarInv, Rests
<1>8. ASSUME single'
      PROVE  Lone' /\ Sides' /\ \A u \in Openers : Shows(opener[u])' /\ Fills(opener[u])'
  <2>0. Shows(new) /\ \A u \in Openers : Shows(opener[u]) /\ Fills(opener[u])
    BY <1>8 DEF SidecarInv
  <2>1. ASSUME NEW u \in Openers
        PROVE  Shows(opener[u])' /\ Fills(opener[u])'
    <3>1. CASE u = t
      BY <1>1, <2>0, <3>1 DEF Shows, Showing, Indexed, Made, Fills, Filling
    <3>2. CASE u # t
      <4>1. opener'[u] = opener[u] /\ Shows(opener[u]) /\ Fills(opener[u])
        BY <1>1, <2>0, <3>2
      <4>. QED BY <4>1 DEF Shows, Showing, Indexed, Made, Fills, Filling
    <3>. QED BY <3>1, <3>2
  <2>2. Lone'
    BY <1>1, <1>8 DEF SidecarInv, Lone
  <2>. QED BY <1>5, <1>8, <2>1, <2>2 DEF SidecarInv
<1>. QED BY <1>5, <1>6, <1>7, <1>8 DEF SidecarInv

LEMMA OpenBooksStep ==
  ASSUME SidecarInv, NEW t \in Openers, OpenBooks(t)
  PROVE  SidecarInv'
<1>. DEFINE mapped == [NotOpen EXCEPT !.pc = "index", !.map = name["raw"], !.seen = zst]
            making == [NotOpen EXCEPT !.pc = "create", !.from = zst, !.seen = zst]
<1>1. zst \in Versions /\ zst \in Parts /\ name["raw"] \in 0..MaxInodes
  BY SidecarAssumptions DEF SidecarInv, SidecarTypeOK, Versions, Parts, Names
<1>2. /\ mapped \in Opener /\ mapped.pc = "index" /\ mapped.map = name["raw"] /\ mapped.kind = "raw"
      /\ making \in Opener /\ making.pc = "create" /\ making.from = zst /\ making.kind = "raw" /\ making.map = 0
  <2>1. NotOpen \in Opener /\ NotOpen.kind = "raw" /\ NotOpen.map = 0
    BY PartsTyped DEF NotOpen
  <2>. QED BY <1>1, <2>1 DEF Opener
<1>. HIDE DEF mapped, making
<1>3. UNCHANGED <<inode, name, used, single, zst, replaced>>
  BY DEF OpenBooks, Keep
<1>4. CASE Mappable("raw")
  <2>1. Rests(mapped)
    BY <1>2, <1>4 DEF Rests, Mappable, SidecarInv, Inodal, Names
  <2>2. single => Shows(mapped)
    BY <1>2, <1>4 DEF Shows, Indexed, SidecarInv, Sides, Mappable
  <2>3. Becomes(t, mapped) /\ ~Filling(mapped)
    BY <1>2, <1>4 DEF OpenBooks, mapped, Filling
  <2>. QED BY <1>2, <1>3, <2>1, <2>2, <2>3, QuietStep
<1>5. CASE ~Mappable("raw")
  <2>1. Rests(making)
    BY <1>1, <1>2 DEF Rests, SidecarInv, SidecarTypeOK
  <2>2. Shows(making)
    BY <1>2 DEF Shows, Indexed
  <2>3. Becomes(t, making) /\ ~Filling(making)
    BY <1>2, <1>5 DEF OpenBooks, making, Filling
  <2>. QED BY <1>2, <1>3, <2>1, <2>2, <2>3, QuietStep
<1>. QED BY <1>4, <1>5

LEMMA IdleAgain ==
  ASSUME SidecarInv, NEW t \in Openers, Becomes(t, NotOpen),
         UNCHANGED <<inode, name, used, single, zst, replaced>>
  PROVE  SidecarInv'
<1>1. Rests(NotOpen) /\ Shows(NotOpen) /\ ~Filling(NotOpen) /\ NotOpen \in Opener
  BY RestsIdle, PartsTyped DEF SidecarInv
<1>. QED BY <1>1, QuietStep

LEMMA CreateFailsStep ==
  ASSUME SidecarInv, NEW t \in Openers, CreateFails(t)
  PROVE  SidecarInv'
<1>1. PICK own \in Opener : own = opener[t]
  BY DEF SidecarInv, SidecarTypeOK
<1>2. /\ own.pc = "create" /\ Rests(own) /\ (single => Shows(own)) /\ own.from \in Versions
      /\ UNCHANGED <<inode, name, used, single, zst, replaced>>
  BY <1>1 DEF CreateFails, Keep, SidecarInv, Rests
<1>3. Whole(own.from) \in [1..Chunks -> Parts]
  BY <1>2, PartsTyped
<1>. DEFINE inMemory == [own EXCEPT !.pc = "index", !.buf = Whole(own.from)]
            opened == [own EXCEPT !.pc = "open"]
<1>4. CASE own.kind = "raw"
  <2>1. /\ inMemory \in Opener /\ inMemory.pc = "index" /\ inMemory.kind = "raw"
        /\ inMemory.map = own.map /\ inMemory.buf = Whole(own.from)
    BY <1>3, <1>4 DEF Opener
  <2>2. Becomes(t, inMemory)
    BY <1>1, <1>4 DEF CreateFails
  <2>. HIDE DEF inMemory
  <2>3. Rests(inMemory) /\ ~Filling(inMemory)
    BY <1>2, <2>1 DEF Rests, Filling
  <2>4. single => Shows(inMemory)
    BY <1>2, <2>1 DEF Shows, Indexed
  <2>. QED BY <1>2, <2>1, <2>2, <2>3, <2>4, QuietStep
<1>5. CASE own.kind # "raw"
  <2>1. /\ opened \in Opener /\ opened.pc = "open" /\ opened.kind = own.kind
        /\ opened.map = own.map /\ opened.buf = own.buf /\ opened.idx = own.idx /\ own.kind = "idx"
    BY <1>5 DEF Opener
  <2>2. Becomes(t, opened)
    BY <1>1, <1>5 DEF CreateFails
  <2>. HIDE DEF opened
  <2>3. Rests(opened) /\ ~Filling(opened)
    BY <1>2, <2>1 DEF Rests, Filling
  <2>4. single => Shows(opened)
    BY <1>2, <2>1 DEF Shows, Indexed, Showing
  <2>. QED BY <1>2, <2>1, <2>2, <2>3, <2>4, QuietStep
<1>. QED BY <1>4, <1>5

LEMMA OpenIndexStep ==
  ASSUME LengthsTell, SidecarInv, NEW t \in Openers, OpenIndex(t)
  PROVE  SidecarInv'
<1>1. PICK own \in Opener : own = opener[t]
  BY DEF SidecarInv, SidecarTypeOK
<1>2. /\ own.pc = "index" /\ own.kind = "raw" /\ Rests(own) /\ (single => Shows(own))
      /\ UNCHANGED <<inode, name, used, single, zst, replaced>>
  BY <1>1 DEF OpenIndex, Keep, SidecarInv, Rests
<1>3. /\ View(t) = Showing(own) /\ Showing(own) \in [1..Chunks -> Parts]
      /\ single => \E v \in Versions : Showing(own) = Whole(v)
  <2>1. View(t) = Showing(own)
    BY <1>1 DEF View, Showing
  <2>2. Showing(own) \in [1..Chunks -> Parts]
    <3>1. own.map # 0 => own.map \in Inodes
      BY SidecarAssumptions DEF Opener, Inodes
    <3>. QED BY <3>1 DEF Showing, SidecarInv, SidecarTypeOK, Opener
  <2>3. single => \E v \in Versions : Showing(own) = Whole(v)
    BY <1>2 DEF Rests, Shows, Showing, Made
  <2>. QED BY <2>1, <2>2, <2>3
<1>. DEFINE old == inode[name["idx"]][1]
            found == [own EXCEPT !.pc = "open", !.idx = old]
            making == [own EXCEPT !.pc = "create", !.kind = "idx", !.from = View(t)[1], !.idx = View(t)[1]]
<1>4. CASE Usable(t)
  <2>1. name["idx"] \in Inodes /\ inode[name["idx"]] \in [1..Chunks -> Parts]
    BY <1>4, SidecarAssumptions DEF Usable, Mappable, SidecarInv, SidecarTypeOK, Names, Inodes
  <2>2. old \in Parts
    BY <2>1, PartsTyped
  <2>. HIDE DEF old
  <2>3. /\ found \in Opener /\ found.pc = "open" /\ found.map = own.map /\ found.buf = own.buf /\ found.idx = old
    BY <2>2 DEF Opener
  <2>4. Becomes(t, found)
    BY <1>1, <1>4 DEF OpenIndex, old
  <2>. HIDE DEF found
  <2>5. Rests(found) /\ ~Filling(found)
    BY <1>2, <2>3 DEF Rests, Filling
  <2>6. ASSUME single PROVE Shows(found)
    <3>1. PICK v \in Versions : Showing(own) = Whole(v)
      BY <1>3, <2>6
    <3>2. PICK w \in Versions : inode[name["idx"]] = Whole(w)
      BY <1>4, <2>6 DEF Usable, Mappable, SidecarInv, Sides, Made
    <3>3. old = w /\ View(t)[Chunks] = v /\ inode[name["idx"]][1] = w
      BY <1>3, <3>1, <3>2, PartsTyped DEF old
    <3>4. Lengths[w] = Lengths[v]
      BY <1>4, <3>3 DEF Usable, IndexUsable
    <3>5. v = w
      BY <3>4 DEF LengthsTell
    <3>6. own.map # 0 => Made(own.map)
      BY <1>2, <2>6 DEF Shows
    <3>7. Showing(found) = Showing(own)
      BY <2>3 DEF Showing
    <3>. QED BY <2>3, <3>1, <3>3, <3>5, <3>6, <3>7 DEF Shows
  <2>. QED BY <1>2, <2>3, <2>4, <2>5, <2>6, QuietStep
<1>5. CASE ~Usable(t) /\ \E c \in 1..Chunks : View(t)[c] = 0
  BY <1>2, <1>5, IdleAgain DEF OpenIndex
<1>6. CASE ~Usable(t) /\ ~\E c \in 1..Chunks : View(t)[c] = 0
  <2>1. View(t)[1] \in Versions
    BY <1>3, <1>6, PartsTyped, SidecarAssumptions DEF Parts, Versions
  <2>2. /\ making \in Opener /\ making.pc = "create" /\ making.kind = "idx" /\ making.map = own.map
        /\ making.buf = own.buf /\ making.idx = View(t)[1] /\ making.from = View(t)[1]
    BY <2>1, PartsTyped DEF Opener
  <2>3. Becomes(t, making)
    BY <1>1, <1>6 DEF OpenIndex
  <2>. HIDE DEF making
  <2>4. Rests(making) /\ ~Filling(making)
    BY <1>2, <2>1, <2>2 DEF Rests, Filling
  <2>5. ASSUME single PROVE Shows(making)
    <3>1. PICK v \in Versions : Showing(own) = Whole(v)
      BY <1>3, <2>5
    <3>2. View(t)[1] = v
      BY <1>3, <3>1, PartsTyped
    <3>3. own.map # 0 => Made(own.map)
      BY <1>2, <2>5 DEF Shows
    <3>4. Showing(making) = Showing(own)
      BY <2>2 DEF Showing
    <3>. QED BY <2>2, <3>1, <3>2, <3>3, <3>4 DEF Shows
  <2>. QED BY <1>2, <2>2, <2>3, <2>4, <2>5, QuietStep
<1>. QED BY <1>4, <1>5, <1>6

(* What a step on the inode i alone leaves: everything but who fills it. *)
LEMMA CreateFileStep ==
  ASSUME SidecarInv, NEW t \in Openers, CreateFile(t)
  PROVE  SidecarInv'
<1>1. PICK own \in Opener : own = opener[t]
  BY DEF SidecarInv, SidecarTypeOK
<1>. DEFINE n == Tmp(own.kind)
            i == IF name[n] # 0 THEN name[n] ELSE used + 1
            new == [own EXCEPT !.pc = "write", !.out = i, !.at = 1]
<1>2. /\ own.pc = "create" /\ Rests(own) /\ (single => Shows(own)) /\ own.from \in Versions
      /\ zst' = zst /\ replaced' = replaced /\ i \in Inodes
      /\ used' = (IF name[n] # 0 THEN used ELSE used + 1)
      /\ name' = [name EXCEPT ![n] = i] /\ inode' = [inode EXCEPT ![i] = Blank] /\ Becomes(t, new)
      /\ single' = (single /\ \A o \in Openers \ {t} : Filling(opener[o]) => opener[o].kind # own.kind)
  BY <1>1 DEF CreateFile, Target, SidecarInv, Rests, Filling
<1>3. /\ n \in {"raw.tmp", "idx.tmp"} /\ n \in Names /\ used \in 0..MaxInodes /\ i \in 1..MaxInodes
      /\ \A m \in Names : name[m] \in 0..MaxInodes /\ name[m] <= used
      /\ \A m \in Names \ {n} : name[m] # i
      /\ used' \in 0..MaxInodes /\ used <= used' /\ i <= used'
  <2>1. n \in {"raw.tmp", "idx.tmp"} /\ n \in Names
    BY DEF Tmp, Names
  <2>2. used \in 0..MaxInodes /\ \A m \in Names : name[m] \in 0..MaxInodes /\ name[m] <= used
    BY DEF SidecarInv, SidecarTypeOK, Inodal
  <2>3. i \in 1..MaxInodes
    BY <1>2 DEF Inodes
  <2>. HIDE DEF n
  <2>4. \A m \in Names \ {n} : name[m] # i
    BY <2>1, <2>2, SidecarAssumptions DEF SidecarInv, Inodal
  <2>5. used' \in 0..MaxInodes /\ used <= used' /\ i <= used'
    BY <1>2, <2>1, <2>2, <2>3, SidecarAssumptions
  <2>. QED BY <2>1, <2>2, <2>3, <2>4, <2>5
<1>4. /\ new \in Opener /\ new.pc = "write" /\ new.out = i /\ new.at = 1 /\ new.kind = own.kind
      /\ new.from = own.from /\ new.map = own.map /\ new.buf = own.buf /\ new.idx = own.idx
  <2>1. i \in 0..MaxInodes /\ 1 \in 0..Chunks
    BY <1>3, SidecarAssumptions
  <2>. HIDE DEF i
  <2>. QED BY <2>1 DEF Opener
<1>. HIDE DEF new, i, n
<1>5. /\ opener' \in [Openers -> Opener] /\ opener'[t] = new
      /\ \A u \in Openers \ {t} : opener'[u] = opener[u]
  BY <1>2, <1>4, OpenerThen DEF SidecarInv
<1>6. /\ inode' \in [Inodes -> [1..Chunks -> Parts]] /\ inode'[i] = Blank
      /\ \A j \in Inodes \ {i} : inode'[j] = inode[j]
  BY <1>2, PartsTyped DEF SidecarInv, SidecarTypeOK
<1>7. name' \in [Names -> 0..MaxInodes] /\ name'[n] = i /\ \A m \in Names \ {n} : name'[m] = name[m]
  BY <1>2, <1>3 DEF SidecarInv, SidecarTypeOK
<1>8. SidecarTypeOK'
  BY <1>2, <1>3, <1>5, <1>6, <1>7 DEF SidecarInv, SidecarTypeOK
<1>9. Inodal'
  <2>1. \A m \in Names : name'[m] <= used'
    BY <1>3, <1>7
  <2>2. \A m, k \in Names : m # k /\ name'[m] # 0 => name'[m] # name'[k]
    BY <1>3, <1>7 DEF SidecarInv, Inodal
  <2>. QED BY <2>1, <2>2 DEF Inodal
\* Nobody has mapped the inode.
<1>10. \A u \in Openers : /\ opener[u].map \in 0..MaxInodes /\ opener[u].map <= used
                          /\ opener[u].map # i /\ (opener[u].map # 0 => opener[u].map \in Inodes)
  <2>. TAKE u \in Openers
  <2>1. opener[u] \in Opener /\ Rests(opener[u])
    BY DEF SidecarInv, SidecarTypeOK
  <2>2. opener[u].map \in 0..MaxInodes /\ opener[u].map <= used
    BY <2>1 DEF Opener, Rests
  <2>3. opener[u].map # i
    BY <1>3, <2>1, <2>2 DEF Rests, i
  <2>. QED BY <2>2, <2>3 DEF Inodes
<1>11. ASSUME NEW u \in Openers
       PROVE  Rests(opener[u])'
  <2>1. CASE u = t
    BY <1>1, <1>2, <1>3, <1>4, <1>5, <1>7, <1>10, <2>1 DEF Rests, Names
  <2>2. CASE u # t
    BY <1>3, <1>5, <1>7, <1>10, <2>2 DEF SidecarInv, Rests, Names
  <2>. QED BY <2>1, <2>2
<1>12. ASSUME single'
       PROVE  Lone' /\ Sides' /\ \A u \in Openers : Shows(opener[u])' /\ Fills(opener[u])'
  <2>1. single /\ \A o \in Openers \ {t} : Filling(opener[o]) => opener[o].kind # own.kind
    BY <1>2, <1>12
  <2>2. Lone /\ Sides /\ \A u \in Openers : Shows(opener[u]) /\ Fills(opener[u])
    BY <2>1 DEF SidecarInv
  <2>3. Lone'
    BY <1>4, <1>5, <2>1, <2>2 DEF Lone
  <2>4. Sides'
    <3>. SUFFICES ASSUME NEW k \in {"raw", "idx"}, name'[k] # 0 PROVE Made(name[k])'
      BY DEF Sides
    <3>1. k \in Names \ {n} /\ name'[k] = name[k] /\ name[k] \in Inodes \ {i}
      BY <1>3, <1>7 DEF Names, Inodes
    <3>. QED BY <1>6, <2>2, <3>1 DEF Sides, Made
  <2>5. ASSUME NEW u \in Openers PROVE Shows(opener[u])'
    <3>1. opener[u].map # 0 => inode'[opener[u].map] = inode[opener[u].map]
      BY <1>6, <1>10
    <3>2. CASE u = t
      <4>1. Shows(own) /\ own.pc = "create"
        BY <1>1, <1>2, <2>1
      <4>. QED BY <1>1, <1>4, <1>5, <3>1, <3>2, <4>1 DEF Shows, Showing, Indexed, Made
    <3>3. CASE u # t
      <4>1. Shows(opener[u]) /\ opener'[u] = opener[u]
        BY <1>5, <2>2, <3>3
      <4>. QED BY <3>1, <4>1 DEF Shows, Showing, Indexed, Made
    <3>. QED BY <3>2, <3>3
  <2>6. ASSUME NEW u \in Openers, Filling(opener'[u]) PROVE Fills(opener[u])'
    <3>1. CASE u = t
      <4>1. \A c \in 1..Chunks : Blank[c] = 0 /\ ~(c < 1)
        BY DEF Blank
      <4>. QED BY <1>3, <1>4, <1>5, <1>6, <1>7, <3>1, <4>1 DEF Fills, n
    <3>2. CASE u # t
      <4>1. opener'[u] = opener[u] /\ opener[u].kind # own.kind /\ opener[u] \in Opener /\ Fills(opener[u])
        BY <1>5, <2>1, <2>2, <2>6, <3>2 DEF SidecarInv, SidecarTypeOK
      <4>2. Tmp(opener[u].kind) \in Names \ {n}
        BY <1>1, <4>1 DEF Opener, Tmp, n, Names
      <4>3. name'[Tmp(opener[u].kind)] = opener[u].out /\ opener[u].out # 0 /\ opener[u].out \in Inodes \ {i}
        <5>1. name[Tmp(opener[u].kind)] = opener[u].out /\ opener[u].out # 0
          BY <2>6, <4>1 DEF Fills
        <5>2. PICK m \in Names \ {n} : m = Tmp(opener[u].kind)
          BY <4>2
        <5>3. name'[m] = name[m] /\ name[m] \in 0..MaxInodes /\ name[m] # i
          BY <1>3, <1>7
        <5>4. name[m] \in Inodes \ {i}
          BY <5>1, <5>2, <5>3, SidecarAssumptions DEF Inodes
        <5>. QED BY <5>1, <5>2, <5>3, <5>4
      <4>. QED BY <1>6, <4>1, <4>3 DEF Fills
    <3>. QED BY <3>1, <3>2
  <2>7. \A u \in Openers : Fills(opener[u])'
    BY <2>6 DEF Fills, Filling
  <2>. QED BY <2>3, <2>4, <2>5, <2>7
<1>. QED BY <1>8, <1>9, <1>11, <1>12 DEF SidecarInv

LEMMA WriteChunkStep ==
  ASSUME SidecarInv, NEW t \in Openers, WriteChunk(t)
  PROVE  SidecarInv'
<1>1. PICK own \in Opener : own = opener[t]
  BY DEF SidecarInv, SidecarTypeOK
<1>. DEFINE i == own.out
            new == IF own.at = Chunks THEN [own EXCEPT !.pc = "rename"] ELSE [own EXCEPT !.at = @ + 1]
<1>2. /\ own.pc = "write" /\ Rests(own) /\ (single => Shows(own) /\ Fills(own))
      /\ own.from \in Versions /\ own.at \in 1..Chunks
      /\ UNCHANGED <<name, used, single, zst, replaced>>
      /\ inode' = [inode EXCEPT ![i] = [inode[i] EXCEPT ![own.at] = own.from]] /\ Becomes(t, new)
  <2>1. own.pc = "write" /\ Rests(own) /\ (single => Shows(own) /\ Fills(own))
    BY <1>1 DEF WriteChunk, SidecarInv
  <2>2. own.from \in Versions /\ own.at \in 1..Chunks
    BY <2>1, SidecarAssumptions DEF Rests, Opener
  <2>. QED BY <1>1, <2>1, <2>2 DEF WriteChunk, Keep
<1>3. /\ new \in Opener /\ new.kind = own.kind /\ new.out = i /\ new.from = own.from /\ new.map = own.map
      /\ new.buf = own.buf /\ new.idx = own.idx
      /\ \/ own.at = Chunks /\ new.pc = "rename"
         \/ own.at # Chunks /\ new.pc = "write" /\ new.at = own.at + 1
  <2>1. CASE own.at = Chunks
    BY <2>1 DEF Opener
  <2>2. CASE own.at # Chunks
    <3>1. own.at + 1 \in 0..Chunks
      BY <1>2, <2>2, SidecarAssumptions
    <3>. QED BY <1>2, <2>2, <3>1 DEF Opener
  <2>. QED BY <2>1, <2>2
<1>. HIDE DEF new
<1>4. /\ opener' \in [Openers -> Opener] /\ opener'[t] = new
      /\ \A u \in Openers \ {t} : opener'[u] = opener[u]
  BY <1>2, <1>3, OpenerThen DEF SidecarInv
<1>5. /\ inode' \in [Inodes -> [1..Chunks -> Parts]]
      /\ \A j \in Inodes \ {i} : inode'[j] = inode[j]
      /\ \A c \in 1..Chunks : i \in Inodes => inode'[i][c] = IF c = own.at THEN own.from ELSE inode[i][c]
  BY <1>2, PartsTyped DEF SidecarInv, SidecarTypeOK
<1>6. SidecarTypeOK' /\ Inodal'
  BY <1>2, <1>4, <1>5 DEF SidecarInv, SidecarTypeOK, Inodal
<1>7. ASSUME NEW u \in Openers
      PROVE  Rests(opener[u])'
  <2>1. CASE u = t
    BY <1>2, <1>3, <1>4, <2>1, SidecarAssumptions DEF Rests
  <2>2. CASE u # t
    BY <1>2, <1>4, <2>2 DEF SidecarInv, Rests
  <2>. QED BY <2>1, <2>2
<1>8. ASSUME single'
      PROVE  Lone' /\ Sides' /\ \A u \in Openers : Shows(opener[u])' /\ Fills(opener[u])'
  <2>1. Lone /\ Sides /\ \A u \in Openers : Shows(opener[u]) /\ Fills(opener[u])
    BY <1>2, <1>8 DEF SidecarInv
  <2>2. Lone'
    BY <1>1, <1>2, <1>3, <1>4, <2>1 DEF Lone, Filling
  \* What is being filled has the temporary name.
  <2>3. /\ name[Tmp(own.kind)] = i /\ i # 0 /\ i \in Inodes /\ Tmp(own.kind) \in {"raw.tmp", "idx.tmp"}
        /\ \A m \in Names : m # Tmp(own.kind) => name[m] # i
        /\ \A c \in 1..Chunks : inode[i][c] = IF c < own.at THEN own.from ELSE 0
    <3>1. /\ name[Tmp(own.kind)] = i /\ i # 0
          /\ \A c \in 1..Chunks : inode[i][c] = IF c < own.at THEN own.from ELSE 0
      BY <1>2, <1>8 DEF Fills, Filling
    <3>2. Tmp(own.kind) \in {"raw.tmp", "idx.tmp"} /\ Tmp(own.kind) \in Names
      BY DEF Tmp, Names
    <3>3. i \in Inodes
      BY <3>1, SidecarAssumptions DEF Opener, Inodes
    <3>4. \A m \in Names : m # Tmp(own.kind) => name[m] # i
      BY <3>1, <3>2 DEF SidecarInv, Inodal
    <3>. QED BY <3>1, <3>2, <3>3, <3>4
  <2>4. Sides'
    <3>. SUFFICES ASSUME NEW k \in {"raw", "idx"}, name'[k] # 0 PROVE Made(name[k])'
      BY DEF Sides
    <3>1. k \in Names /\ k # Tmp(own.kind)
      BY <2>3 DEF Names
    <3>2. name[k] \in 0..MaxInodes /\ name[k] # 0 /\ name'[k] = name[k] /\ name[k] # i
      BY <1>2, <2>3, <3>1 DEF SidecarInv, SidecarTypeOK
    <3>3. name[k] \in Inodes \ {i}
      BY <3>2, SidecarAssumptions DEF Inodes
    <3>. QED BY <1>5, <2>1, <3>2, <3>3 DEF Sides, Made
  <2>5. ASSUME NEW u \in Openers PROVE Shows(opener[u])'
    <3>1. opener[u].map # 0 => inode'[opener[u].map] = inode[opener[u].map]
      <4>1. opener[u] \in Opener /\ Rests(opener[u])
        BY DEF SidecarInv, SidecarTypeOK
      <4>2. opener[u].map # 0 => opener[u].map \in Inodes /\ opener[u].map # i
        BY <2>3, <4>1, SidecarAssumptions DEF Rests, Opener, Inodes
      <4>. QED BY <1>5, <4>2
    <3>2. CASE u = t
      <4>1. Shows(own) /\ own.pc = "write"
        BY <1>2, <1>8
      <4>. QED BY <1>1, <1>3, <1>4, <3>1, <3>2, <4>1 DEF Shows, Showing, Indexed, Made
    <3>3. CASE u # t
      <4>1. Shows(opener[u]) /\ opener'[u] = opener[u]
        BY <1>4, <2>1, <3>3
      <4>. QED BY <3>1, <4>1 DEF Shows, Showing, Indexed, Made
    <3>. QED BY <3>2, <3>3
  <2>6. ASSUME NEW u \in Openers, Filling(opener'[u]) PROVE Fills(opener[u])'
    <3>1. CASE u = t
      <4>1. name'[Tmp(new.kind)] = new.out /\ new.out # 0
        BY <1>2, <1>3, <2>3
      <4>2. \A c \in 1..Chunks :
              inode'[i][c] = IF c < new.at \/ new.pc = "rename" THEN new.from ELSE 0
        BY <1>2, <1>3, <1>5, <2>3, SidecarAssumptions
      <4>. QED BY <1>3, <1>4, <3>1, <4>1, <4>2 DEF Fills
    <3>2. CASE u # t
      <4>1. opener'[u] = opener[u] /\ opener[u].kind # own.kind /\ opener[u] \in Opener /\ Fills(opener[u])
        BY <1>1, <1>2, <1>4, <2>1, <2>6, <3>2 DEF SidecarInv, SidecarTypeOK, Lone, Filling
      <4>2. name[Tmp(opener[u].kind)] = opener[u].out /\ opener[u].out # 0
        BY <2>6, <4>1 DEF Fills
      <4>3. Tmp(opener[u].kind) \in Names /\ Tmp(opener[u].kind) # Tmp(own.kind)
        BY <4>1 DEF Opener, Tmp, Names
      <4>4. opener[u].out \in Inodes \ {i}
        BY <2>3, <4>1, <4>2, <4>3, SidecarAssumptions DEF Opener, Inodes
      <4>. QED BY <1>2, <1>5, <4>1, <4>2, <4>4 DEF Fills
    <3>. QED BY <3>1, <3>2
  <2>7. \A u \in Openers : Fills(opener[u])'
    BY <2>6 DEF Fills, Filling
  <2>. QED BY <2>2, <2>4, <2>5, <2>7
<1>. QED BY <1>6, <1>7, <1>8 DEF SidecarInv

LEMMA RenameStep ==
  ASSUME SidecarInv, NEW t \in Openers, Rename(t)
  PROVE  SidecarInv'
<1>1. PICK own \in Opener : own = opener[t]
  BY DEF SidecarInv, SidecarTypeOK
<1>2. own.pc = "rename" /\ Rests(own) /\ UNCHANGED <<inode, zst, used, single, replaced>>
  BY <1>1 DEF Rename, Keep, SidecarInv
<1>. DEFINE k == own.kind
            i == name[Tmp(k)]
            opened == [own EXCEPT !.pc = "open"]
            mapped == [own EXCEPT !.pc = "index", !.map = i]
<1>3. /\ opened \in Opener /\ opened.pc = "open" /\ opened.kind = own.kind
      /\ opened.map = own.map /\ opened.buf = own.buf /\ opened.idx = own.idx
  BY DEF Opener
<1>4. i \in 0..MaxInodes /\ i <= used /\ Tmp(k) \in {"raw.tmp", "idx.tmp"} /\ k \in {"raw", "idx"}
  BY DEF SidecarInv, SidecarTypeOK, Inodal, Names, Tmp, Opener
<1>5. /\ mapped \in Opener /\ mapped.pc = "index" /\ mapped.kind = own.kind /\ mapped.map = i
  BY <1>4 DEF Opener
<1>6. Rests(opened) /\ ~Filling(opened) /\ ~Filling(mapped)
  BY <1>2, <1>3, <1>5 DEF Rests, Filling
<1>7. single /\ k = "idx" => Shows(opened)
  <2>1. single => Shows(own)
    BY <1>1 DEF SidecarInv
  <2>. QED BY <1>2, <1>3, <2>1 DEF Shows, Showing, Indexed
<1>. HIDE DEF opened, mapped
<1>8. CASE i = 0 /\ k = "raw"
  BY <1>1, <1>2, <1>8, IdleAgain DEF Rename, Target
<1>9. CASE i = 0 /\ k = "idx"
  <2>1. Becomes(t, opened) /\ name' = name
    BY <1>1, <1>9 DEF Rename, Target, opened
  <2>. QED BY <1>2, <1>3, <1>6, <1>7, <1>9, <2>1, QuietStep
<1>10. CASE i # 0
  <2>. DEFINE new == IF k = "raw" THEN mapped ELSE opened
  <2>1. /\ Becomes(t, new) /\ name' = [name EXCEPT ![k] = i, ![Tmp(k)] = 0]
    <3>1. Target(k) # k /\ Target(k) = Tmp(k)
      BY <1>4 DEF Target, Tmp
    <3>. QED BY <1>1, <1>10, <3>1 DEF Rename, Published, mapped, opened
  <2>2. new \in Opener /\ ~Filling(new)
    BY <1>3, <1>5, <1>6
  <2>3. /\ opener' \in [Openers -> Opener] /\ opener'[t] = new
        /\ \A u \in Openers \ {t} : opener'[u] = opener[u]
    BY <2>1, <2>2, OpenerThen DEF SidecarInv
  <2>4. /\ name' \in [Names -> 0..MaxInodes] /\ name'[k] = i /\ name'[Tmp(k)] = 0
        /\ \A m \in Names \ {k, Tmp(k)} : name'[m] = name[m]
        /\ k \in Names /\ Tmp(k) \in Names /\ k # Tmp(k)
    <3>1. k \in Names /\ Tmp(k) \in Names /\ k # Tmp(k) /\ 0 \in 0..MaxInodes
      BY <1>4, SidecarAssumptions DEF Names
    <3>. HIDE DEF i, k
    <3>. QED BY <1>4, <2>1, <3>1 DEF SidecarInv, SidecarTypeOK
  <2>5. SidecarTypeOK'
    BY <1>2, <2>3, <2>4 DEF SidecarInv, SidecarTypeOK
  <2>6. Inodal'
    <3>1. \A m \in Names : name'[m] <= used'
      <4>1. 0 <= used /\ used' = used /\ \A m \in Names : name[m] <= used
        BY <1>2, SidecarAssumptions DEF SidecarInv, SidecarTypeOK, Inodal
      <4>. HIDE DEF i, k
      <4>2. \A m \in Names : name'[m] \in {i, 0, name[m]}
        BY <2>4
      <4>. QED BY <1>4, <4>1, <4>2
    <3>2. \A m \in Names \ {Tmp(k)} : name[m] # i
      BY <1>10, <2>4 DEF SidecarInv, Inodal
    <3>. HIDE DEF i, k
    <3>3. \A m, n \in Names : m # n /\ name'[m] # 0 => name'[m] # name'[n]
      BY <1>10, <2>4, <3>2 DEF SidecarInv, Inodal
    <3>. QED BY <3>1, <3>3 DEF Inodal
  <2>7. ASSUME NEW u \in Openers
        PROVE  Rests(opener[u])'
    <3>1. name'["raw.tmp"] \in {name["raw.tmp"], 0} /\ name'["idx.tmp"] \in {name["idx.tmp"], 0}
      BY <1>4, <2>4 DEF Names
    <3>2. CASE u = t /\ k = "raw"
      <4>1. opener'[u] = mapped /\ name'["raw.tmp"] = 0 /\ name'["idx.tmp"] = name["idx.tmp"]
        BY <2>3, <2>4, <3>2 DEF Tmp, Names
      <4>2. name["idx.tmp"] # i
        BY <1>10, <3>2 DEF SidecarInv, Inodal, Tmp, Names
      <4>. HIDE DEF i
      <4>. QED BY <1>2, <1>4, <1>5, <1>10, <3>2, <4>1, <4>2 DEF Rests
    <3>3. CASE u = t /\ k # "raw"
      BY <1>2, <1>6, <2>3, <3>1, <3>3 DEF Rests
    <3>4. CASE u # t
      BY <1>2, <2>3, <3>1, <3>4 DEF SidecarInv, Rests
    <3>. QED BY <3>2, <3>3, <3>4
  <2>8. ASSUME single'
        PROVE  Lone' /\ Sides' /\ \A u \in Openers : Shows(opener[u])' /\ Fills(opener[u])'
    <3>1. Lone /\ Sides /\ \A u \in Openers : Shows(opener[u]) /\ Fills(opener[u])
      BY <1>2, <2>8 DEF SidecarInv
    <3>2. Lone'
      BY <2>2, <2>3, <3>1 DEF Lone, Filling
    <3>3. Made(i)
      <4>1. i = own.out /\ i \in Inodes /\ own.from \in Versions /\ \A c \in 1..Chunks : inode[i][c] = own.from
        BY <1>1, <1>2, <1>4, <1>10, <3>1, SidecarAssumptions DEF Fills, Filling, Rests, Inodes
      <4>2. inode[i] \in [1..Chunks -> Parts]
        BY <4>1 DEF SidecarInv, SidecarTypeOK
      <4>3. inode[i] = Whole(own.from)
        BY <4>1, <4>2 DEF Whole
      <4>. QED BY <4>1, <4>3 DEF Made
    <3>4. Sides'
      <4>. SUFFICES ASSUME NEW m \in {"raw", "idx"}, name'[m] # 0 PROVE Made(name[m])'
        BY DEF Sides
      <4>1. m = k \/ name'[m] = name[m]
        BY <1>4, <2>4 DEF Names
      <4>2. Made(name'[m])
        BY <2>4, <3>1, <3>3, <4>1 DEF Sides
      <4>. QED BY <1>2, <4>2 DEF Made
    <3>5. ASSUME NEW u \in Openers PROVE Shows(opener[u])'
      <4>1. Shows(opener'[u])
        <5>1. CASE u # t
          BY <2>3, <3>1, <5>1
        <5>2. CASE u = t /\ k = "raw"
          BY <1>5, <2>3, <3>3, <5>2 DEF Shows, Indexed
        <5>3. CASE u = t /\ k # "raw"
          BY <1>2, <1>4, <1>7, <2>3, <2>8, <5>3
        <5>. QED BY <5>1, <5>2, <5>3
      <4>. QED BY <1>2, <4>1 DEF Shows, Showing, Indexed, Made
    <3>6. ASSUME NEW u \in Openers, Filling(opener'[u]) PROVE Fills(opener[u])'
      <4>1. u # t /\ opener'[u] = opener[u] /\ opener[u] \in Opener /\ Fills(opener[u])
        BY <2>2, <2>3, <3>1, <3>6 DEF SidecarInv, SidecarTypeOK
      <4>2. opener[u].kind # k
        BY <1>1, <1>2, <3>1, <3>6, <4>1 DEF Lone, Filling
      <4>3. Tmp(opener[u].kind) \in Names \ {k, Tmp(k)}
        BY <1>4, <4>1, <4>2 DEF Opener, Tmp, Names
      <4>4. name'[Tmp(opener[u].kind)] = name[Tmp(opener[u].kind)]
        BY <2>4, <4>3
      <4>. QED BY <1>2, <3>6, <4>1, <4>4 DEF Fills
    <3>7. \A u \in Openers : Fills(opener[u])'
      BY <3>6 DEF Fills, Filling
    <3>. QED BY <3>2, <3>4, <3>5, <3>7
  <2>. QED BY <2>5, <2>6, <2>7, <2>8 DEF SidecarInv
<1>. QED BY <1>4, <1>8, <1>9, <1>10

LEMMA AroundStep ==
  ASSUME SidecarInv, ReplaceBooks \/ DeleteRaw
  PROVE  SidecarInv'
<1>1. /\ UNCHANGED <<inode, opener, used, single>>
      /\ name' \in [Names -> 0..MaxInodes] /\ \A m \in Names : name'[m] \in {name[m], 0}
  BY SidecarAssumptions DEF ReplaceBooks, DeleteRaw, SidecarInv, SidecarTypeOK, Names
<1>2. SidecarTypeOK'
  BY <1>1, SidecarAssumptions DEF ReplaceBooks, DeleteRaw, SidecarInv, SidecarTypeOK
<1>3. Inodal'
  BY <1>1 DEF SidecarInv, SidecarTypeOK, Inodal
<1>4. \A t \in Openers : Rests(opener[t])'
  BY <1>1 DEF SidecarInv, Rests, Names
<1>5. ASSUME single'
      PROVE  Lone' /\ Sides' /\ \A t \in Openers : Shows(opener[t])' /\ Fills(opener[t])'
  <2>1. Lone /\ Sides /\ \A t \in Openers : Shows(opener[t]) /\ Fills(opener[t])
    BY <1>1, <1>5 DEF SidecarInv
  <2>2. Lone' /\ Sides'
    BY <1>1, <2>1 DEF Lone, Sides, Made, Names
  <2>3. name'["raw.tmp"] = name["raw.tmp"] /\ name'["idx.tmp"] = name["idx.tmp"]
    BY DEF ReplaceBooks, DeleteRaw, SidecarInv, SidecarTypeOK, Names
  <2>4. \A t \in Openers : Shows(opener[t])' /\ Fills(opener[t])'
    BY <1>1, <2>1, <2>3 DEF Shows, Showing, Indexed, Made, Fills, Filling, Tmp
  <2>. QED BY <2>2, <2>4
<1>. QED BY <1>2, <1>3, <1>4, <1>5 DEF SidecarInv

LEMMA SidecarStep == ASSUME LengthsTell, SidecarInv, [SidecarNext]_sidecarVars PROVE SidecarInv'
<1>1. ASSUME NEW t \in Openers, OpenBooks(t) \/ CreateFile(t) \/ CreateFails(t) \/ WriteChunk(t) \/ Rename(t)
      PROVE  SidecarInv'
  BY <1>1, OpenBooksStep, CreateFileStep, CreateFailsStep, WriteChunkStep, RenameStep
<1>2. ASSUME NEW t \in Openers, OpenIndex(t)
      PROVE  SidecarInv'
  BY <1>2, OpenIndexStep
<1>3. ASSUME NEW t \in Openers, Close(t) \/ CutShort(t)
      PROVE  SidecarInv'
  BY <1>3, IdleAgain DEF Close, CutShort, Keep
<1>4. CASE ReplaceBooks \/ DeleteRaw
  BY <1>4, AroundStep
<1>5. CASE UNCHANGED sidecarVars
  BY <1>5 DEF sidecarVars, SidecarInv, SidecarTypeOK, Inodal, Rests, Shows, Showing, Indexed, Made,
     Fills,
              Filling, Lone, Sides
<1>. QED BY <1>1, <1>2, <1>3, <1>4, <1>5 DEF SidecarNext

(* However opens, crashes, deletions and new books interleave: as long as no two
   opens filled the same file at once, what has a sidecar's name is whole, and
   every index in use is of the bytes it is used with (open_books,
   decompress_to_file, load_or_build_index), where books of two versions differ
   in size. *)
THEOREM SidecarsAreSound ==
  ASSUME LengthsTell
  PROVE  SidecarSpec => []SidecarsSound
<1>1. SidecarInit => SidecarInv
  <2>. SUFFICES ASSUME SidecarInit PROVE SidecarInv
    OBVIOUS
  <2>1. NotOpen.pc = "idle" /\ NotOpen.map = 0
    BY DEF NotOpen
  <2>2. SidecarTypeOK
    BY PartsTyped, SidecarAssumptions DEF SidecarInit, SidecarTypeOK
  <2>3. Inodal /\ \A t \in Openers : Rests(opener[t])
    BY <2>1, <2>2 DEF SidecarInit, Inodal, Rests
  <2>4. Lone /\ Sides /\ \A t \in Openers : Shows(opener[t]) /\ Fills(opener[t])
    BY <2>1 DEF SidecarInit, Lone, Sides, Shows, Indexed, Fills, Filling, Names
  <2>. QED BY <2>2, <2>3, <2>4 DEF SidecarInv
<1>2. SidecarInv => SidecarsSound
  BY DEF SidecarInv, SidecarsSound, RawWhole, Sides, Made, IndexDescribesBuffer, Opened, View, Shows,
     Showing, Indexed
<1>3. SidecarInv /\ [SidecarNext]_sidecarVars => SidecarInv'
  BY SidecarStep
<1>. QED BY <1>1, <1>2, <1>3, PTL DEF SidecarSpec

-----------------------------------------------------------------------------
(***************************************************************************)
(* The live stream.  Tasks are numbered as they are spawned (Started); the *)
(* hub sends to those that are answered or open, and to no other (Heard);  *)
(* and while the launcher has a stream open it shows the catalogue as it   *)
(* is, or something that will make it read the catalogue anew is on its    *)
(* way (Coming), unless what it missed is in the history (Informed).           *)
(***************************************************************************)
Started(k) ==
  /\ \A s \in Streams : stream[s].pc # "none" <=> s <= k
  /\ handle <= k /\ \A c \in Calls : call[c].prev <= k

Hears(s) == stream[s].pc \in {"answered", "open"}
Heard ==
  /\ \A s \in Streams : stream[s].pc # "none" => stream[s].ws \in Workspaces
  /\ \A s \in Streams : Hears(s) => s \in chan[stream[s].ws].to
  /\ \A w \in Workspaces : \A s \in chan[w].to : Hears(s) /\ stream[s].ws = w

Streaming == (\E k \in 0..MaxStreams : Started(k)) /\ Heard /\ NeverEvicted /\ OneStream

CatalogRead == \A w \in Workspaces :
  /\ docs[w] <= events /\ shown[w] <= docs[w]
  /\ \A r \in Refreshes : refresh[r].seen[w] <= docs[w]

Carries(q) == \E i \in 1..Len(q) : q[i] = "profile"
Reading(w) == \E r \in Refreshes :
  refresh[r].pc \in {"list", "read"} \/ (refresh[r].pc = "show" /\ refresh[r].seen[w] = docs[w])
Coming(w) == pub[w] = "profile" \/ Carries(stream[handle].queue) \/ Reading(w) \/ shown[w] = docs[w]
Informed ==
  page.at = "launcher" /\ missed = {} /\ handle # 0 /\ stream[handle].pc = "open" => Coming(stream[handle].ws)

LiveInv == LiveTypeOK /\ Streaming /\ CatalogRead /\ Informed

-----------------------------------------------------------------------------
(* Queues *)

LEMMA PushedIs ==
  ASSUME NEW q \in Seq(Kinds), Len(q) <= Capacity, NEW k \in Kinds
  PROVE  /\ Enqueued(q, k) \in Seq(Kinds) /\ Len(Enqueued(q, k)) <= Capacity
         /\ k = "profile" => Carries(Enqueued(q, k))
         /\ Carries(q) /\ ~(Len(q) = Capacity /\ Head(q) = "profile") => Carries(Enqueued(q, k))
<1>. USE LiveAssumptions
<1>1. CASE Len(q) < Capacity
  <2>1. Enqueued(q, k) = Append(q, k)
    BY <1>1 DEF Enqueued
  <2>2. /\ Append(q, k) \in Seq(Kinds) /\ Len(Append(q, k)) = Len(q) + 1 /\ Len(q) \in Nat
        /\ \A i \in 1..Len(q) : Append(q, k)[i] = q[i]
        /\ Append(q, k)[Len(q) + 1] = k
    OBVIOUS
  <2>. QED BY <1>1, <2>1, <2>2 DEF Carries
<1>2. CASE ~(Len(q) < Capacity)
  <2>1. Enqueued(q, k) = Append(Tail(q), k) /\ Len(q) = Capacity /\ q # <<>> /\ Len(q) \in Nat
    BY <1>2 DEF Enqueued
  <2>. DEFINE p == Tail(q)
  <2>2. /\ p \in Seq(Kinds) /\ Len(p) = Len(q) - 1 /\ \A i \in 1..Len(p) : p[i] = q[i + 1]
    BY <2>1
  <2>3. Head(q) = q[1]
    BY <2>1
  <2>. HIDE DEF p
  <2>4. /\ Append(p, k) \in Seq(Kinds) /\ Len(Append(p, k)) = Len(p) + 1
        /\ \A i \in 1..Len(p) : Append(p, k)[i] = p[i]
        /\ Append(p, k)[Len(p) + 1] = k
    BY <2>2
  <2>5. k = "profile" => Carries(Append(p, k))
    BY <2>1, <2>2, <2>4 DEF Carries
  <2>6. ASSUME Carries(q), ~(Len(q) = Capacity /\ Head(q) = "profile") PROVE Carries(Append(p, k))
    <3>1. PICK i \in 1..Len(q) : q[i] = "profile"
      BY <2>6 DEF Carries
    <3>2. i # 1
      BY <2>1, <2>3, <2>6, <3>1
    <3>3. i - 1 \in 1..Len(p) /\ p[i - 1] = "profile"
      BY <2>1, <2>2, <3>1, <3>2
    <3>. QED BY <2>1, <2>2, <2>4, <3>3 DEF Carries
  <2>. QED BY <2>1, <2>2, <2>4, <2>5, <2>6 DEF p
<1>. QED BY <1>1, <1>2

LEMMA TailIs ==
  ASSUME NEW q \in Seq(Kinds), q # <<>>, Len(q) <= Capacity
  PROVE  /\ Tail(q) \in Seq(Kinds) /\ Len(Tail(q)) <= Capacity /\ Head(q) \in Kinds
         /\ Carries(q) /\ Head(q) # "profile" => Carries(Tail(q))
<1>. USE LiveAssumptions
<1>1. /\ Tail(q) \in Seq(Kinds) /\ Len(Tail(q)) = Len(q) - 1 /\ Head(q) = q[1] /\ Len(q) \in Nat /\ Len(q) # 0
      /\ \A i \in 1..Len(Tail(q)) : Tail(q)[i] = q[i + 1]
  OBVIOUS
<1>2. q[1] \in Kinds
  BY <1>1
<1>3. ASSUME Carries(q), Head(q) # "profile" PROVE Carries(Tail(q))
  <2>1. PICK i \in 1..Len(q) : q[i] = "profile"
    BY <1>3 DEF Carries
  <2>2. i - 1 \in 1..Len(Tail(q)) /\ Tail(q)[i - 1] = "profile"
    BY <1>1, <1>3, <2>1
  <2>. QED BY <2>2 DEF Carries
<1>. QED BY <1>1, <1>2, <1>3

LEMMA NoStreamTyped ==
  ASSUME NEW w \in Named, NEW p \in {"none", "connect", "answered", "open", "backoff", "aborted"}
  PROVE  /\ NoStream \in Stream /\ NoStream.pc = "none" /\ ~NoStream.closed
         /\ \E k \in Stream : /\ k = [NoStream EXCEPT !.ws = w, !.pc = p]
                              /\ k.ws = w /\ k.pc = p /\ ~k.closed /\ k.queue = <<>>
<1>1. <<>> \in Seq(Kinds)
  OBVIOUS
<1>2. NoStream \in Stream /\ NoStream.pc = "none" /\ NoStream.closed = FALSE /\ NoStream.queue = <<>>
  BY <1>1 DEF NoStream, Stream, Named
<1>3. PICK o \in Stream : o = NoStream
  BY <1>2
<1>4. PICK k \in Stream : k = [o EXCEPT !.ws = w, !.pc = p]
  BY DEF Stream
<1>5. k.ws = w /\ k.pc = p /\ k.closed = o.closed /\ k.queue = o.queue
  BY <1>4 DEF Stream
<1>. QED BY <1>2, <1>3, <1>4, <1>5

-----------------------------------------------------------------------------
(* The page *)

(* A refresh is started, or not. *)
Grows ==
  /\ refresh' \in [Refreshes -> Refresh]
  /\ \A r \in Refreshes : \/ refresh'[r] = refresh[r]
                          \/ /\ refresh[r].pc = "idle" /\ refresh'[r].pc = "list"
                             /\ \A w \in Workspaces : refresh'[r].seen[w] = 0

LEMMA NoRefreshTyped ==
  /\ NoRefresh \in Refresh /\ NoRefresh.pc = "idle"
  /\ \A w \in Workspaces : NoRefresh.seen[w] = 0
<1>1. 0 \in 0..MaxEvents
  BY LiveAssumptions
<1>2. [w \in Workspaces |-> 0] \in [Workspaces -> 0..MaxEvents]
  BY <1>1
<1>3. NoRefresh \in Refresh
  BY <1>2 DEF NoRefresh, Refresh
<1>4. NoRefresh.pc = "idle" /\ NoRefresh.seen = [w \in Workspaces |-> 0]
  BY DEF NoRefresh
<1>. QED BY <1>3, <1>4

LEMMA StartRefreshIs ==
  ASSUME LiveTypeOK, StartRefresh
  PROVE  Grows /\ \E r \in Refreshes : refresh'[r].pc = "list"
<1>1. PICK r \in FreeRefreshes : refresh' = [refresh EXCEPT ![r] = [NoRefresh EXCEPT !.pc = "list"]]
  BY DEF StartRefresh
<1>2. PICK o \in Refresh : o = NoRefresh
  BY NoRefreshTyped
<1>3. PICK k \in Refresh : k = [o EXCEPT !.pc = "list"]
  BY DEF Refresh
<1>4. k.pc = "list" /\ \A w \in Workspaces : k.seen[w] = 0
  BY <1>2, <1>3, NoRefreshTyped DEF Refresh
<1>5. r \in Refreshes /\ refresh[r].pc = "idle" /\ refresh' = [refresh EXCEPT ![r] = k]
  BY <1>1, <1>2, <1>3 DEF FreeRefreshes
<1>. QED BY <1>4, <1>5 DEF LiveTypeOK, Grows

LEMMA GrowsSame == ASSUME LiveTypeOK, refresh' = refresh PROVE Grows
  BY DEF LiveTypeOK, Grows

LEMMA GrowsReads ==
  ASSUME LiveTypeOK, Grows, docs' = docs
  PROVE  \A w \in Workspaces : Reading(w) => Reading(w)'
  BY DEF Grows, Reading

LEMMA OnEventIs ==
  ASSUME LiveTypeOK, NEW k, OnEvent(k)
  PROVE  /\ Grows /\ missed \subseteq missed' /\ missed' \subseteq {"lag", "busy", "failed", "overtaken"}
         /\ Relevant(k) /\ page.at = "launcher" /\ missed' = {} => \E r \in Refreshes : refresh'[r].pc = "list"
<1>1. CASE ~Relevant(k) \/ page.at # "launcher"
  BY <1>1, GrowsSame DEF OnEvent, LiveTypeOK
<1>2. CASE ~(~Relevant(k) \/ page.at # "launcher") /\ page.busy
  BY <1>2, GrowsSame DEF OnEvent, LiveTypeOK
<1>3. CASE ~(~Relevant(k) \/ page.at # "launcher") /\ ~page.busy
  BY <1>3, StartRefreshIs DEF OnEvent, LiveTypeOK
<1>. QED BY <1>1, <1>2, <1>3

LEMMA CallingIs ==
  ASSUME LiveTypeOK, NEW w \in Named, Calling(w)
  PROVE  /\ call' \in [Calls -> AppCall]
         /\ \A c \in Calls : call'[c] = call[c] \/ (call[c].pc = "idle" /\ call'[c].pc = "resolve" /\ call'[c].prev = 0)
<1>1. PICK c \in Calls : call[c].pc = "idle" /\ call' = [call EXCEPT ![c] = [pc |-> "resolve", ws |-> w, prev |-> 0]]
  BY DEF Calling
<1>2. [pc |-> "resolve", ws |-> w, prev |-> 0] \in AppCall
  BY LiveAssumptions DEF AppCall
<1>. QED BY <1>1, <1>2 DEF LiveTypeOK

-----------------------------------------------------------------------------
(* Frames *)

LEMMA ReadFrame ==
  ASSUME LiveTypeOK, CatalogRead, Grows, UNCHANGED <<docs, shown, events>>
  PROVE  CatalogRead'
<1>. SUFFICES ASSUME NEW w \in Workspaces
              PROVE  /\ docs[w] <= events /\ shown[w] <= docs[w]
                     /\ \A r \in Refreshes : refresh'[r].seen[w] <= docs[w]
  BY DEF CatalogRead
<1>1. docs[w] \in 0..MaxEvents /\ 0 <= docs[w]
  BY DEF LiveTypeOK
<1>. QED BY <1>1 DEF CatalogRead, Grows

LEMMA ToldFrame ==
  ASSUME Informed, UNCHANGED <<docs, shown, handle>>, missed \subseteq missed',
         page'.at = "launcher" => page.at = "launcher",
         \A w \in Workspaces : Reading(w) => Reading(w)',
         \A w \in Workspaces : pub[w] = "profile" => pub'[w] = "profile",
         handle # 0 /\ stream'[handle].pc = "open" =>
           /\ stream[handle].pc = "open" /\ stream'[handle].ws = stream[handle].ws
           /\ stream[handle].ws \in Workspaces
           /\ Carries(stream[handle].queue) => Carries(stream'[handle].queue)
  PROVE  Informed'
<1>. SUFFICES ASSUME page'.at = "launcher", missed' = {}, handle # 0, stream'[handle].pc = "open"
              PROVE  Coming(stream[handle].ws)'
  BY DEF Informed
<1>1. PICK w \in Workspaces : w = stream[handle].ws /\ w = stream'[handle].ws
  OBVIOUS
<1>2. Coming(w)
  BY <1>1 DEF Informed
<1>3. (Carries(stream[handle].queue) => Carries(stream[handle].queue)') /\ (Reading(w) => Reading(w)')
  <2>1. Carries(stream[handle].queue)' <=> Carries(stream'[handle].queue)
    BY DEF Carries
  <2>. QED BY <2>1
<1>4. Coming(w)'
  BY <1>2, <1>3 DEF Coming
<1>. QED BY <1>1, <1>4

(* A step that changes neither which streams hear nor who may run. *)
LEMMA StreamingFrame ==
  ASSUME LiveTypeOK, Streaming, UNCHANGED <<chan, handle>>,
         \A s \in Streams : /\ stream'[s].ws = stream[s].ws /\ stream'[s].closed = stream[s].closed
                            /\ stream'[s].pc = "none" <=> stream[s].pc = "none"
                            /\ stream[s].pc = "aborted" => stream'[s].pc = "aborted"
                            /\ Hears(s)' <=> Hears(s),
         \A c \in Calls : call'[c] = call[c] \/ (call[c].pc # "abort" /\ call'[c].prev = 0)
  PROVE  Streaming'
<1>1. PICK k \in 0..MaxStreams : Started(k)
  BY DEF Streaming
<1>2. Started(k)'
  BY <1>1, LiveAssumptions DEF Started
<1>3. Heard' /\ NeverEvicted'
  <2>1. \A w \in Workspaces : chan[w].to \subseteq Streams
    BY DEF LiveTypeOK
  <2>. QED BY <2>1 DEF Streaming, Heard, NeverEvicted
<1>4. OneStream'
  BY DEF Streaming, OneStream, Live
<1>. QED BY <1>1, <1>2, <1>3, <1>4 DEF Streaming

LEMMA HubTyped ==
  ASSUME Heard', \A w \in Workspaces : chan'[w].to \subseteq Streams
  PROVE  \A w \in Workspaces : chan'[w].to \subseteq Live'
  BY DEF Heard, Hears, Live

-----------------------------------------------------------------------------
(* The hub *)

LEMMA CommitStep ==
  ASSUME LiveInv, NEW w \in Workspaces, NEW k \in Kinds, Commit(w, k)
  PROVE  LiveInv'
<1>. LiveTypeOK /\ Streaming /\ CatalogRead /\ Informed
  BY DEF LiveInv
<1>1. /\ events' = events + 1 /\ events < MaxEvents /\ pub' = [pub EXCEPT ![w] = k]
      /\ docs' = IF k = "profile" THEN [docs EXCEPT ![w] = @ + 1] ELSE docs
      /\ UNCHANGED <<chan, stream, handle, call, active, page, refresh, shown, missed>>
  BY DEF Commit, app, ui
<1>2. /\ docs \in [Workspaces -> 0..MaxEvents] /\ events \in 0..MaxEvents /\ docs[w] <= events
      /\ \A x \in Workspaces : docs[x] <= events /\ shown[x] <= docs[x]
      /\ \A x \in Workspaces : \A r \in Refreshes : refresh[r].seen[x] <= docs[x]
      /\ shown \in [Workspaces -> 0..MaxEvents]
      /\ \A x \in Workspaces : \A r \in Refreshes : refresh[r].seen[x] \in 0..MaxEvents
  BY DEF LiveTypeOK, CatalogRead, Refresh
<1>3. /\ docs' \in [Workspaces -> 0..MaxEvents] /\ events' \in 0..MaxEvents
      /\ \A x \in Workspaces : docs[x] <= docs'[x] /\ docs'[x] <= events'
  BY <1>1, <1>2, LiveAssumptions
<1>4. Streaming'
  <2>1. \A s \in Streams : Hears(s)' <=> Hears(s)
    BY <1>1 DEF Hears
  <2>. QED BY <1>1, <2>1, StreamingFrame
<1>5. LiveTypeOK'
  BY <1>1, <1>3 DEF LiveTypeOK, Live
<1>6. CatalogRead'
  <2>. SUFFICES ASSUME NEW x \in Workspaces
                PROVE  /\ docs'[x] <= events' /\ shown[x] <= docs'[x]
                       /\ \A r \in Refreshes : refresh[r].seen[x] <= docs'[x]
    BY <1>1 DEF CatalogRead
  <2>1. docs[x] \in 0..MaxEvents /\ docs'[x] \in 0..MaxEvents /\ shown[x] \in 0..MaxEvents
    BY <1>2, <1>3
  <2>. QED BY <1>2, <1>3, <2>1
<1>7. Informed'
  <2>1. CASE k # "profile"
    <3>1. \A x \in Workspaces : Reading(x) => Reading(x)'
      BY <1>1, <2>1 DEF Reading
    <3>2. \A x \in Workspaces : pub[x] = "profile" => pub'[x] = "profile"
      BY <1>1 DEF LiveTypeOK, Commit
    <3>3. handle # 0 /\ stream'[handle].pc = "open" => stream[handle].ws \in Workspaces
      BY <1>1, LiveAssumptions DEF Streaming, Heard, LiveTypeOK, Streams
    <3>. QED BY <1>1, <2>1, <3>1, <3>2, <3>3, ToldFrame
  <2>2. CASE k = "profile"
    <3>1. pub'[w] = "profile" /\ \A x \in Workspaces \ {w} : docs'[x] = docs[x] /\ pub'[x] = pub[x]
      BY <1>1, <1>2, <2>2 DEF LiveTypeOK
    <3>. SUFFICES ASSUME page.at = "launcher", missed = {}, handle # 0, stream[handle].pc = "open"
                  PROVE  Coming(stream[handle].ws)'
      BY <1>1 DEF Informed
    <3>2. PICK x \in Workspaces : x = stream[handle].ws
      BY LiveAssumptions DEF Streaming, Heard, LiveTypeOK, Streams
    <3>3. Coming(x)
      BY <3>2 DEF Informed
    <3>4. Coming(x)'
      BY <1>1, <3>1, <3>3 DEF Coming, Reading, Carries
    <3>. QED BY <1>1, <3>2, <3>4
  <2>. QED BY <2>1, <2>2
<1>. QED BY <1>4, <1>5, <1>6, <1>7 DEF LiveInv

LEMMA PublishStep ==
  ASSUME LiveInv, NEW w \in Workspaces, Publish(w)
  PROVE  LiveInv'
<1>. LiveTypeOK /\ Streaming /\ CatalogRead /\ Informed
  BY DEF LiveInv
<1>. DEFINE k == pub[w]
<1>1. /\ k \in Kinds
      /\ pub' = [pub EXCEPT ![w] = IF chan[w].up /\ chan[w].to = {} THEN "reclaim" ELSE "idle"]
      /\ stream' = [s \in Streams |-> IF s \in chan[w].to
                                      THEN [stream[s] EXCEPT !.queue = Enqueued(stream[s].queue, k)] ELSE stream[s]]
      /\ missed' = IF \E s \in chan[w].to : Loses(s) THEN missed \cup {"lag"} ELSE missed
      /\ UNCHANGED <<docs, events, chan, handle, call, active, page, refresh, shown>>
  BY DEF Publish, app
<1>2. \A s \in Streams : /\ stream[s] \in Stream /\ stream[s].queue \in Seq(Kinds)
                         /\ Len(stream[s].queue) <= Capacity
  BY DEF LiveTypeOK, Stream
<1>. HIDE DEF k
<1>3. \A s \in Streams : /\ stream'[s] \in Stream /\ Len(stream'[s].queue) <= Capacity
                         /\ stream'[s].ws = stream[s].ws /\ stream'[s].closed = stream[s].closed
                         /\ stream'[s].pc = stream[s].pc
                         /\ stream'[s].queue = IF s \in chan[w].to THEN Enqueued(stream[s].queue, k) ELSE stream[s].queue
  <2>. TAKE s \in Streams
  <2>1. CASE s \in chan[w].to
    <3>1. Enqueued(stream[s].queue, k) \in Seq(Kinds) /\ Len(Enqueued(stream[s].queue, k)) <= Capacity
      BY <1>1, <1>2, PushedIs
    <3>2. stream'[s] = [stream[s] EXCEPT !.queue = Enqueued(stream[s].queue, k)]
      BY <1>1, <2>1
    <3>. QED BY <1>2, <2>1, <3>1, <3>2 DEF Stream
  <2>2. CASE s \notin chan[w].to
    BY <1>1, <1>2, <2>2
  <2>. QED BY <2>1, <2>2
<1>4. Streaming'
  <2>1. \A s \in Streams : Hears(s)' <=> Hears(s)
    BY <1>3 DEF Hears
  <2>. QED BY <1>1, <1>3, <2>1, StreamingFrame
<1>5. LiveTypeOK'
  <2>1. pub' \in [Workspaces -> Kinds \cup {"idle", "reclaim"}]
    BY <1>1 DEF LiveTypeOK
  <2>2. stream' \in [Streams -> Stream]
    BY <1>1, <1>3
  <2>3. missed' \subseteq {"lag", "busy", "failed", "overtaken"}
    BY <1>1 DEF LiveTypeOK
  <2>4. \A x \in Workspaces : chan'[x].to \subseteq Live'
    BY <1>1, <1>3 DEF LiveTypeOK, Live
  <2>. QED BY <1>1, <1>3, <2>1, <2>2, <2>3, <2>4 DEF LiveTypeOK
<1>6. CatalogRead'
  BY <1>1, GrowsSame, ReadFrame
<1>7. Informed'
  <2>. SUFFICES ASSUME page.at = "launcher", missed' = {}, handle # 0, stream[handle].pc = "open", handle \in Streams
                PROVE  Coming(stream[handle].ws)'
    BY <1>1, <1>3, LiveAssumptions DEF Informed, LiveTypeOK, Streams
  <2>1. PICK x \in Workspaces : x = stream[handle].ws
    BY DEF Streaming, Heard
  <2>2. Coming(x) /\ missed = {} /\ \A s \in chan[w].to : ~Loses(s)
    BY <1>1, <2>1 DEF Informed
  <2>3. CASE x = w
    <3>1. handle \in chan[w].to
      BY <2>1, <2>3 DEF Streaming, Heard, Hears
    <3>2. stream'[handle].queue = Enqueued(stream[handle].queue, k)
      BY <1>3, <3>1
    <3>3. /\ k = "profile" => Carries(stream'[handle].queue)
          /\ Carries(stream[handle].queue) => Carries(stream'[handle].queue)
      BY <1>1, <1>2, <2>2, <3>1, <3>2, PushedIs DEF Loses
    <3>4. Carries(stream[handle].queue)' <=> Carries(stream'[handle].queue)
      BY <1>1 DEF Carries
    <3>. QED BY <1>1, <1>3, <2>1, <2>2, <2>3, <3>3, <3>4 DEF Coming, Reading, k
  <2>4. CASE x # w
    <3>1. handle \notin chan[w].to /\ pub'[x] = pub[x]
      BY <1>1, <2>1, <2>4 DEF Streaming, Heard, LiveTypeOK
    <3>2. stream'[handle].queue = stream[handle].queue /\ stream'[handle].ws = x
      BY <1>3, <2>1, <3>1
    <3>. QED BY <1>1, <2>1, <2>2, <3>1, <3>2 DEF Coming, Reading, Carries
  <2>. QED BY <2>3, <2>4
<1>. QED BY <1>4, <1>5, <1>6, <1>7 DEF LiveInv

LEMMA ReclaimStep ==
  ASSUME LiveInv, NEW w \in Workspaces, Reclaim(w)
  PROVE  LiveInv'
<1>. LiveTypeOK /\ Streaming /\ CatalogRead /\ Informed
  BY DEF LiveInv
<1>1. /\ pub[w] = "reclaim" /\ pub' = [pub EXCEPT ![w] = "idle"]
      /\ UNCHANGED <<docs, events, handle, call, active, page, refresh, shown, missed>>
  BY DEF Reclaim, app, ui
<1>2. /\ stream' = stream
      /\ chan' = chan \/ (chan[w].to = {} /\ chan' = [chan EXCEPT ![w] = [up |-> FALSE, to |-> {}]])
  <2>1. CASE Reclaimable(w)
    <3>1. stream' = [s \in Streams |-> stream[s]]
      BY <2>1 DEF Reclaim, Reclaimable
    <3>. QED BY <2>1, <3>1 DEF Reclaim, Reclaimable, LiveTypeOK
  <2>2. CASE ~Reclaimable(w)
    BY <2>2 DEF Reclaim
  <2>. QED BY <2>1, <2>2
<1>3. /\ chan' \in [Workspaces -> [up : BOOLEAN, to : SUBSET Streams]]
      /\ \A x \in Workspaces : chan'[x].to = chan[x].to /\ (chan'[x].to # {} => chan'[x].up)
  <2>1. CASE chan' = chan
    BY <2>1 DEF LiveTypeOK
  <2>2. CASE chan[w].to = {} /\ chan' = [chan EXCEPT ![w] = [up |-> FALSE, to |-> {}]]
    <3>1. [up |-> FALSE, to |-> {}] \in [up : BOOLEAN, to : SUBSET Streams]
      OBVIOUS
    <3>. QED BY <2>2, <3>1 DEF LiveTypeOK
  <2>. QED BY <1>2, <2>1, <2>2
<1>4. Streaming'
  BY <1>1, <1>2, <1>3 DEF Streaming, Started, Heard, Hears, NeverEvicted, OneStream, Live
<1>5. LiveTypeOK'
  <2>1. pub' \in [Workspaces -> Kinds \cup {"idle", "reclaim"}]
    BY <1>1 DEF LiveTypeOK
  <2>. QED BY <1>1, <1>2, <1>3, <2>1 DEF LiveTypeOK, Live
<1>6. CatalogRead'
  BY <1>1, GrowsSame, ReadFrame
<1>7. Informed'
  <2>1. \A x \in Workspaces : Reading(x) => Reading(x)'
    BY <1>1 DEF Reading
  <2>2. \A x \in Workspaces : pub[x] = "profile" => pub'[x] = "profile"
    BY <1>1 DEF LiveTypeOK
  <2>3. handle # 0 /\ stream[handle].pc = "open" => stream[handle].ws \in Workspaces
    BY LiveAssumptions DEF Streaming, Heard, LiveTypeOK, Streams
  <2>. QED BY <1>1, <1>2, <2>1, <2>2, <2>3, ToldFrame
<1>. QED BY <1>4, <1>5, <1>6, <1>7 DEF LiveInv

-----------------------------------------------------------------------------
(* The SSE task *)

(* A step of the task s that leaves the hub alone. *)
LEMMA TaskQuiet ==
  ASSUME LiveInv, NEW s \in Streams, NEW new \in Stream, Len(new.queue) <= Capacity,
         stream' = [stream EXCEPT ![s] = new], new.ws = stream[s].ws, ~new.closed,
         new.pc \notin {"none", "aborted"}, stream[s].pc \notin {"none", "aborted"},
         new.pc \in {"answered", "open"} <=> Hears(s),
         UNCHANGED <<docs, chan, pub, events, handle, call, active, page, shown>>,
         Grows, missed \subseteq missed', missed' \subseteq {"lag", "busy", "failed", "overtaken"},
         s = handle /\ page.at = "launcher" /\ missed' = {} /\ new.pc = "open" =>
           \/ \E r \in Refreshes : refresh'[r].pc = "list"
           \/ stream[s].pc = "open" /\ (Carries(stream[s].queue) => Carries(new.queue))
  PROVE  LiveInv'
<1>. LiveTypeOK /\ Streaming /\ CatalogRead /\ Informed
  BY DEF LiveInv
<1>1. /\ stream' \in [Streams -> Stream] /\ stream'[s] = new
      /\ \A u \in Streams \ {s} : stream'[u] = stream[u]
  BY DEF LiveTypeOK
<1>2. /\ ~stream[s].closed /\ stream[s].closed \in BOOLEAN /\ new.closed \in BOOLEAN
  BY DEF Streaming, NeverEvicted, LiveTypeOK, Stream
<1>3. Streaming'
  <2>1. \A u \in Streams : /\ stream'[u].ws = stream[u].ws /\ stream'[u].closed = stream[u].closed
                           /\ stream'[u].pc = "none" <=> stream[u].pc = "none"
                           /\ stream[u].pc = "aborted" => stream'[u].pc = "aborted"
                           /\ Hears(u)' <=> Hears(u)
    BY <1>1, <1>2 DEF Hears
  <2>. QED BY <2>1, StreamingFrame
<1>4. LiveTypeOK'
  <2>1. \A x \in Workspaces : chan'[x].to \subseteq Live'
    <3>1. \A x \in Workspaces : chan'[x].to \subseteq Streams
      BY DEF LiveTypeOK
    <3>. QED BY <1>3, <3>1, HubTyped DEF Streaming
  <2>2. \A u \in Streams : Len(stream'[u].queue) <= Capacity
    BY <1>1 DEF LiveTypeOK
  <2>3. refresh' \in [Refreshes -> Refresh]
    BY DEF Grows
  <2>. QED BY <1>1, <2>1, <2>2, <2>3 DEF LiveTypeOK
<1>5. CatalogRead'
  BY ReadFrame
<1>6. Informed'
  <2>1. CASE s = handle /\ page.at = "launcher" /\ missed' = {} /\ \E r \in Refreshes : refresh'[r].pc = "list"
    <3>1. \A x \in Workspaces : Reading(x)'
      BY <2>1 DEF Reading
    <3>2. handle # 0 /\ stream'[handle].pc = "open" => stream'[handle].ws \in Workspaces
      BY <1>1, <2>1 DEF Streaming, Heard
    <3>3. \A x \in Workspaces : Coming(x)'
      BY <3>1 DEF Coming
    <3>. QED BY <3>2, <3>3 DEF Informed
  <2>2. CASE ~(s = handle /\ page.at = "launcher" /\ missed' = {})
    <3>1. CASE s = handle
      BY <2>2, <3>1 DEF Informed
    <3>2. CASE s # handle
      <4>1. handle # 0 /\ stream'[handle].pc = "open" => stream[handle].ws \in Workspaces /\ stream'[handle] = stream[handle]
        BY <1>1, <3>2, LiveAssumptions DEF Streaming, Heard, LiveTypeOK, Streams
      <4>2. \A x \in Workspaces : Reading(x) => Reading(x)'
        BY GrowsReads
      <4>. QED BY <4>1, <4>2, ToldFrame
    <3>. QED BY <3>1, <3>2
  <2>3. CASE s = handle /\ ~(new.pc = "open")
    BY <1>1, <2>3 DEF Informed
  <2>4. CASE s = handle /\ stream[s].pc = "open" /\ (Carries(stream[s].queue) => Carries(new.queue))
    <3>1. stream[handle].ws \in Workspaces
      BY <2>4 DEF Streaming, Heard
    <3>2. \A x \in Workspaces : Reading(x) => Reading(x)'
      BY GrowsReads
    <3>. QED BY <1>1, <2>4, <3>1, <3>2, ToldFrame
  <2>. QED BY <2>1, <2>2, <2>3, <2>4
<1>. QED BY <1>3, <1>4, <1>5, <1>6 DEF LiveInv

(* A task that goes to another step, its queue as it is. *)
LEMMA OntoIs ==
  ASSUME LiveTypeOK, NEW s \in Streams, NEW p \in {"connect", "answered", "open", "backoff"}, Onto(s, p)
  PROVE  \E new \in Stream :
           /\ stream' = [stream EXCEPT ![s] = new] /\ new.pc = p /\ new.ws = stream[s].ws
           /\ new.closed = stream[s].closed /\ new.queue = stream[s].queue
<1>1. PICK o \in Stream : o = stream[s]
  BY DEF LiveTypeOK
<1>2. [o EXCEPT !.pc = p] \in Stream
  BY DEF Stream
<1>3. PICK new \in Stream : new = [o EXCEPT !.pc = p]
  BY <1>2
<1>4. new.pc = p /\ new.ws = o.ws /\ new.closed = o.closed /\ new.queue = o.queue
  BY <1>3 DEF Stream
<1>5. stream' = [stream EXCEPT ![s] = new]
  BY <1>1, <1>3 DEF Onto
<1>. QED BY <1>1, <1>4, <1>5

LEMMA TaskStep ==
  ASSUME LiveInv, NEW s \in Streams, ConnectFails(s) \/ Retry(s) \/ Reconnected(s)
  PROVE  LiveInv'
<1>. LiveTypeOK /\ Streaming /\ CatalogRead /\ Informed
  BY DEF LiveInv
<1>1. ~stream[s].closed /\ Len(stream[s].queue) <= Capacity
  BY DEF Streaming, NeverEvicted, LiveTypeOK
<1>2. missed \subseteq {"lag", "busy", "failed", "overtaken"}
  BY DEF LiveTypeOK
<1>3. CASE ConnectFails(s)
  <2>1. PICK new \in Stream : /\ stream' = [stream EXCEPT ![s] = new] /\ new.pc = "backoff" /\ new.ws = stream[s].ws
                              /\ new.closed = stream[s].closed /\ new.queue = stream[s].queue
    BY <1>3, OntoIs DEF ConnectFails
  <2>2. /\ stream[s].pc = "connect" /\ ~Hears(s) /\ Grows
        /\ UNCHANGED <<docs, chan, pub, events, handle, call, active, page, shown, missed>>
    BY <1>3, GrowsSame DEF ConnectFails, hub, app, ui, Hears
  <2>. QED BY <1>1, <1>2, <2>1, <2>2, TaskQuiet
<1>4. CASE Retry(s)
  <2>1. PICK new \in Stream : /\ stream' = [stream EXCEPT ![s] = new] /\ new.pc = "connect" /\ new.ws = stream[s].ws
                              /\ new.closed = stream[s].closed /\ new.queue = stream[s].queue
    BY <1>4, OntoIs DEF Retry
  <2>2. /\ stream[s].pc = "backoff" /\ ~Hears(s) /\ Grows
        /\ UNCHANGED <<docs, chan, pub, events, handle, call, active, page, shown, missed>>
    BY <1>4, GrowsSame DEF Retry, hub, app, ui, Hears
  <2>. QED BY <1>1, <1>2, <2>1, <2>2, TaskQuiet
<1>5. CASE Reconnected(s)
  <2>1. PICK new \in Stream : /\ stream' = [stream EXCEPT ![s] = new] /\ new.pc = "open" /\ new.ws = stream[s].ws
                              /\ new.closed = stream[s].closed /\ new.queue = stream[s].queue
    BY <1>5, OntoIs DEF Reconnected
  <2>2. /\ stream[s].pc = "answered" /\ Hears(s)
        /\ UNCHANGED <<docs, chan, pub, events, handle, call, active, page, shown>>
    BY <1>5 DEF Reconnected, hub, app, Hears
  <2>3. /\ Grows /\ missed \subseteq missed' /\ missed' \subseteq {"lag", "busy", "failed", "overtaken"}
        /\ page.at = "launcher" /\ missed' = {} => \E r \in Refreshes : refresh'[r].pc = "list"
    BY <1>5, OnEventIs DEF Reconnected, Relevant
  <2>. QED BY <1>1, <2>1, <2>2, <2>3, TaskQuiet
<1>. QED BY <1>3, <1>4, <1>5

LEMMA DeliverStep ==
  ASSUME LiveInv, NEW s \in Streams, Deliver(s)
  PROVE  LiveInv'
<1>. LiveTypeOK /\ Streaming /\ CatalogRead /\ Informed
  BY DEF LiveInv
<1>1. PICK o \in Stream : o = stream[s]
  BY DEF LiveTypeOK
<1>2. /\ o.pc = "open" /\ o.queue # <<>> /\ o.queue \in Seq(Kinds) /\ Len(o.queue) <= Capacity /\ ~o.closed
      /\ stream' = [stream EXCEPT ![s] = [o EXCEPT !.queue = Tail(o.queue)]] /\ OnEvent(Head(o.queue))
      /\ UNCHANGED <<docs, chan, pub, events, handle, call, active, page, shown>>
  BY <1>1 DEF Deliver, hub, app, Stream, LiveTypeOK, Streaming, NeverEvicted
<1>3. /\ Tail(o.queue) \in Seq(Kinds) /\ Len(Tail(o.queue)) <= Capacity
      /\ Carries(o.queue) /\ Head(o.queue) # "profile" => Carries(Tail(o.queue))
  BY <1>2, TailIs
<1>4. PICK new \in Stream : new = [o EXCEPT !.queue = Tail(o.queue)]
  BY <1>3 DEF Stream
<1>5. new.pc = "open" /\ new.ws = o.ws /\ new.closed = o.closed /\ new.queue = Tail(o.queue)
  BY <1>2, <1>4 DEF Stream
<1>6. /\ Grows /\ missed \subseteq missed' /\ missed' \subseteq {"lag", "busy", "failed", "overtaken"}
      /\ Head(o.queue) = "profile" /\ page.at = "launcher" /\ missed' = {} => \E r \in Refreshes : refresh'[r].pc = "list"
  BY <1>2, OnEventIs DEF Relevant
<1>7. Hears(s)
  BY <1>1, <1>2 DEF Hears
<1>. QED BY <1>1, <1>2, <1>3, <1>4, <1>5, <1>6, <1>7, TaskQuiet

(* The handler subscribes the task before it answers. *)
LEMMA ConnectStep ==
  ASSUME LiveInv, NEW s \in Streams, Connect(s)
  PROVE  LiveInv'
<1>. LiveTypeOK /\ Streaming /\ CatalogRead /\ Informed
  BY DEF LiveInv
<1>1. PICK new \in Stream : /\ stream' = [stream EXCEPT ![s] = new] /\ new.pc = "answered" /\ new.ws = stream[s].ws
                            /\ new.closed = stream[s].closed /\ new.queue = stream[s].queue
  BY OntoIs DEF Connect
<1>2. PICK w \in Workspaces : w = stream[s].ws
  BY DEF Connect, Streaming, Heard
<1>3. /\ stream[s].pc = "connect" /\ chan' = [chan EXCEPT ![w] = [up |-> TRUE, to |-> chan[w].to \cup {s}]]
      /\ UNCHANGED <<docs, pub, events, handle, call, active, page, refresh, shown, missed>>
  BY <1>2 DEF Connect, Subscribe, app, ui
<1>4. /\ stream' \in [Streams -> Stream] /\ stream'[s] = new
      /\ \A u \in Streams \ {s} : stream'[u] = stream[u]
  BY <1>1 DEF LiveTypeOK
<1>5. /\ chan' \in [Workspaces -> [up : BOOLEAN, to : SUBSET Streams]]
      /\ chan'[w].to = chan[w].to \cup {s} /\ chan'[w].up
      /\ \A x \in Workspaces \ {w} : chan'[x] = chan[x]
  <2>1. chan[w].to \subseteq Streams /\ [up |-> TRUE, to |-> chan[w].to \cup {s}] \in [up : BOOLEAN, to : SUBSET Streams]
    BY DEF LiveTypeOK
  <2>. QED BY <1>3, <2>1 DEF LiveTypeOK
<1>6. Streaming'
  <2>1. PICK k \in 0..MaxStreams : Started(k)
    BY DEF Streaming
  <2>2. Started(k)'
    BY <1>1, <1>3, <1>4, <2>1 DEF Started
  <2>3. Heard'
    BY <1>1, <1>2, <1>3, <1>4, <1>5 DEF Streaming, Heard, Hears, LiveTypeOK
  <2>4. NeverEvicted' /\ OneStream'
    BY <1>1, <1>3, <1>4 DEF Streaming, NeverEvicted, OneStream, Live
  <2>. QED BY <2>2, <2>3, <2>4 DEF Streaming
<1>7. LiveTypeOK'
  <2>1. \A x \in Workspaces : chan'[x].to \subseteq Streams /\ (chan'[x].to # {} => chan'[x].up)
    BY <1>5 DEF LiveTypeOK
  <2>2. \A x \in Workspaces : chan'[x].to \subseteq Live'
    BY <1>6, <2>1, HubTyped DEF Streaming
  <2>3. \A u \in Streams : Len(stream'[u].queue) <= Capacity
    BY <1>1, <1>4 DEF LiveTypeOK
  <2>. QED BY <1>3, <1>4, <1>5, <2>1, <2>2, <2>3 DEF LiveTypeOK
<1>8. CatalogRead'
  BY <1>3, GrowsSame, ReadFrame
<1>9. Informed'
  <2>1. \A x \in Workspaces : Reading(x) => Reading(x)'
    BY <1>3 DEF Reading
  <2>2. handle # 0 /\ stream'[handle].pc = "open" => stream[handle].ws \in Workspaces /\ stream'[handle] = stream[handle]
    BY <1>1, <1>4, LiveAssumptions DEF Streaming, Heard, LiveTypeOK, Streams
  <2>. QED BY <1>3, <2>1, <2>2, ToldFrame
<1>. QED BY <1>6, <1>7, <1>8, <1>9 DEF LiveInv

(* The task s stops listening: it starts anew or is aborted. *)
LEMMA SilentThen ==
  ASSUME LiveInv, NEW s \in Streams, NEW p \in {"backoff", "aborted"}, stream[s].pc # "none",
         stream' = Anew(s, p), chan' = Unsubscribed(s)
  PROVE  /\ stream' \in [Streams -> Stream] /\ stream'[s].pc = p
         /\ \A u \in Streams : Len(stream'[u].queue) <= Capacity
         /\ \A u \in Streams \ {s} : stream'[u] = stream[u]
         /\ chan' \in [Workspaces -> [up : BOOLEAN, to : SUBSET Streams]]
         /\ \A w \in Workspaces : chan'[w].to # {} => chan'[w].up
         /\ Heard' /\ NeverEvicted' /\ \A w \in Workspaces : chan'[w].to \subseteq Live'
         /\ \A k \in 0..MaxStreams : \A u \in Streams : (stream[u].pc # "none" <=> u <= k) => (stream'[u].pc # "none" <=> u <= k)
<1>. LiveTypeOK /\ Streaming
  BY DEF LiveInv
<1>1. stream[s].ws \in Workspaces /\ stream[s].ws \in Named
  BY DEF Streaming, Heard, Named
<1>2. PICK new \in Stream : /\ new = [NoStream EXCEPT !.ws = stream[s].ws, !.pc = p]
                            /\ new.pc = p /\ new.ws = stream[s].ws /\ ~new.closed /\ new.queue = <<>>
  <2>1. PICK w \in Named : w = stream[s].ws
    BY <1>1
  <2>2. \E k \in Stream : /\ k = [NoStream EXCEPT !.ws = w, !.pc = p]
                          /\ k.ws = w /\ k.pc = p /\ ~k.closed /\ k.queue = <<>>
    <3>1. \E k \in Stream : /\ k = [NoStream EXCEPT !.ws = w, !.pc = "backoff"]
                            /\ k.ws = w /\ k.pc = "backoff" /\ ~k.closed /\ k.queue = <<>>
      BY NoStreamTyped
    <3>2. \E k \in Stream : /\ k = [NoStream EXCEPT !.ws = w, !.pc = "aborted"]
                            /\ k.ws = w /\ k.pc = "aborted" /\ ~k.closed /\ k.queue = <<>>
      BY NoStreamTyped
    <3>3. CASE p = "backoff"
      BY <3>1, <3>3
    <3>4. CASE p = "aborted"
      BY <3>2, <3>4
    <3>. QED BY <3>3, <3>4
  <2>. QED BY <2>1, <2>2
<1>3. /\ stream' = [stream EXCEPT ![s] = new]
  BY <1>2 DEF Anew
<1>4. /\ stream' \in [Streams -> Stream] /\ stream'[s] = new
      /\ \A u \in Streams \ {s} : stream'[u] = stream[u]
  BY <1>3 DEF LiveTypeOK
<1>5. \A u \in Streams : Len(stream'[u].queue) <= Capacity
  <2>1. Len(new.queue) = 0
    BY <1>2
  <2>2. \A u \in Streams \ {s} : Len(stream'[u].queue) <= Capacity
    BY <1>4 DEF LiveTypeOK
  <2>3. Len(stream'[s].queue) <= Capacity
    BY <1>4, <2>1, LiveAssumptions
  <2>. QED BY <2>2, <2>3
<1>6. /\ chan' \in [Workspaces -> [up : BOOLEAN, to : SUBSET Streams]]
      /\ \A w \in Workspaces : chan'[w].to = chan[w].to \ {s} /\ chan'[w].up = chan[w].up
  <2>1. \A w \in Workspaces : /\ chan[w] \in [up : BOOLEAN, to : SUBSET Streams]
                              /\ chan'[w] = [chan[w] EXCEPT !.to = chan[w].to \ {s}]
    BY DEF LiveTypeOK, Unsubscribed
  <2>2. \A w \in Workspaces : /\ chan'[w] \in [up : BOOLEAN, to : SUBSET Streams]
                              /\ chan'[w].to = chan[w].to \ {s} /\ chan'[w].up = chan[w].up
    <3>. TAKE w \in Workspaces
    <3>1. PICK o \in [up : BOOLEAN, to : SUBSET Streams] : o = chan[w]
      BY <2>1
    <3>2. o.to \ {s} \in SUBSET Streams
      OBVIOUS
    <3>3. chan'[w] = [o EXCEPT !.to = o.to \ {s}]
      BY <2>1, <3>1
    <3>. QED BY <3>1, <3>2, <3>3
  <2>3. chan' = [w \in Workspaces |-> chan'[w]]
    BY DEF Unsubscribed
  <2>. QED BY <2>2, <2>3
<1>7. Heard'
  <2>1. \A u \in Streams : stream'[u].pc # "none" => stream'[u].ws \in Workspaces
    BY <1>1, <1>2, <1>4 DEF Streaming, Heard
  <2>2. ASSUME NEW u \in Streams, Hears(u)'
        PROVE  u \in chan'[stream'[u].ws].to
    <3>1. u # s /\ stream'[u] = stream[u] /\ Hears(u)
      BY <1>2, <1>4, <2>2 DEF Hears
    <3>2. u \in chan[stream[u].ws].to /\ stream[u].ws \in Workspaces
      BY <3>1 DEF Streaming, Heard, Hears
    <3>. QED BY <1>6, <3>1, <3>2
  <2>3. ASSUME NEW w \in Workspaces, NEW u \in chan'[w].to
        PROVE  Hears(u)' /\ stream'[u].ws = w
    <3>1. u \in chan[w].to /\ u # s /\ u \in Streams
      BY <1>6, <2>3 DEF LiveTypeOK
    <3>2. stream'[u] = stream[u] /\ Hears(u) /\ stream[u].ws = w
      BY <1>4, <3>1 DEF Streaming, Heard
    <3>. QED BY <3>2 DEF Hears
  <2>. QED BY <2>1, <2>2, <2>3 DEF Heard
<1>8. NeverEvicted'
  BY <1>2, <1>4 DEF Streaming, NeverEvicted
<1>9. \A w \in Workspaces : chan'[w].to \subseteq Streams /\ (chan'[w].to # {} => chan'[w].up)
  BY <1>6 DEF LiveTypeOK
<1>10. \A w \in Workspaces : chan'[w].to \subseteq Live'
  BY <1>7, <1>9, HubTyped
<1>. QED BY <1>2, <1>4, <1>5, <1>6, <1>7, <1>8, <1>9, <1>10

LEMMA StreamEndsStep ==
  ASSUME LiveInv, NEW s \in Streams, StreamEnds(s)
  PROVE  LiveInv'
<1>. LiveTypeOK /\ Streaming /\ CatalogRead /\ Informed
  BY DEF LiveInv
<1>1. /\ Hears(s) /\ stream[s].pc # "none" /\ stream[s].pc # "aborted" /\ stream' = Anew(s, "backoff") /\ chan' = Unsubscribed(s)
      /\ UNCHANGED <<docs, pub, events, handle, call, active, page, refresh, shown, missed>>
  BY DEF StreamEnds, app, ui, Hears
<1>2. /\ stream' \in [Streams -> Stream] /\ stream'[s].pc = "backoff"
      /\ \A u \in Streams : Len(stream'[u].queue) <= Capacity
      /\ \A u \in Streams \ {s} : stream'[u] = stream[u]
      /\ chan' \in [Workspaces -> [up : BOOLEAN, to : SUBSET Streams]]
      /\ \A w \in Workspaces : chan'[w].to # {} => chan'[w].up
      /\ Heard' /\ NeverEvicted' /\ \A w \in Workspaces : chan'[w].to \subseteq Live'
  BY <1>1, SilentThen
<1>3. Streaming'
  <2>1. PICK k \in 0..MaxStreams : Started(k)
    BY DEF Streaming
  <2>2. Started(k)'
    BY <1>1, <1>2, <2>1 DEF Started
  <2>3. OneStream'
    BY <1>1, <1>2 DEF Streaming, OneStream, Live
  <2>. QED BY <1>2, <2>2, <2>3 DEF Streaming
<1>4. LiveTypeOK'
  BY <1>1, <1>2 DEF LiveTypeOK
<1>5. CatalogRead'
  BY <1>1, GrowsSame, ReadFrame
<1>6. Informed'
  <2>1. \A x \in Workspaces : Reading(x) => Reading(x)'
    BY <1>1 DEF Reading
  <2>2. handle # 0 /\ stream'[handle].pc = "open" => stream[handle].ws \in Workspaces /\ stream'[handle] = stream[handle]
    BY <1>2, LiveAssumptions DEF Streaming, Heard, LiveTypeOK, Streams
  <2>. QED BY <1>1, <2>1, <2>2, ToldFrame
<1>. QED BY <1>3, <1>4, <1>5, <1>6 DEF LiveInv

-----------------------------------------------------------------------------
(* The commands *)

LEMMA AbortingIs ==
  ASSUME NEW o \in AppCall, NEW h \in 0..MaxStreams
  PROVE  \E n \in AppCall : n = [o EXCEPT !.pc = "abort", !.prev = h] /\ n.pc = "abort" /\ n.prev = h
<1>1. PICK n \in AppCall : n = [o EXCEPT !.pc = "abort", !.prev = h]
  BY DEF AppCall
<1>2. n.pc = "abort" /\ n.prev = h
  BY <1>1 DEF AppCall
<1>. QED BY <1>1, <1>2

LEMMA SpawnStep ==
  ASSUME LiveInv, NEW c \in Calls, Spawn(c)
  PROVE  LiveInv'
<1>. LiveTypeOK /\ Streaming /\ CatalogRead /\ Informed
  BY DEF LiveInv
<1>1. PICK k \in 0..MaxStreams : Started(k)
  BY DEF Streaming
<1>2. Spawned = k
  <2>1. {s \in Streams : stream[s].pc # "none"} = 1..k
    BY <1>1, LiveAssumptions DEF Started, Streams
  <2>2. Cardinality(1..k) = k
    BY FS_Interval, LiveAssumptions
  <2>. QED BY <2>1, <2>2 DEF Spawned
<1>3. /\ k + 1 \in Streams /\ stream[k + 1].pc = "none" /\ k + 1 \in 0..MaxStreams
      /\ call[c].pc = "resolve" /\ call[c].ws \in Workspaces
  <2>1. k < MaxStreams
    BY <1>2 DEF Spawn
  <2>2. k + 1 \in Streams /\ k + 1 \in 0..MaxStreams
    BY <2>1, LiveAssumptions DEF Streams
  <2>3. stream[k + 1].pc = "none"
    BY <1>1, <2>2, LiveAssumptions DEF Started
  <2>4. call[c].pc = "resolve" /\ call[c].ws \in Workspaces
    BY DEF Spawn, LiveTypeOK, AppCall, Named
  <2>. QED BY <2>2, <2>3, <2>4
<1>4. PICK new \in Stream : /\ stream' = [stream EXCEPT ![k + 1] = new]
                            /\ new.pc = "connect" /\ new.ws = call[c].ws /\ ~new.closed /\ new.queue = <<>>
  <2>1. PICK w \in Named : w = call[c].ws
    BY <1>3 DEF Named
  <2>2. \E o \in Stream : /\ o = [NoStream EXCEPT !.ws = w, !.pc = "connect"]
                          /\ o.ws = w /\ o.pc = "connect" /\ ~o.closed /\ o.queue = <<>>
    BY NoStreamTyped
  <2>. QED BY <1>2, <2>1, <2>2 DEF Spawn
<1>5. /\ handle' = k + 1
      /\ call' = [call EXCEPT ![c] = [call[c] EXCEPT !.pc = "abort", !.prev = handle]]
      /\ UNCHANGED <<docs, chan, pub, events, active, page, refresh, shown, missed>>
  BY <1>2 DEF Spawn, hub, ui
<1>6. /\ stream' \in [Streams -> Stream] /\ stream'[k + 1] = new
      /\ \A u \in Streams \ {k + 1} : stream'[u] = stream[u]
  <2>1. PICK n \in Streams : n = k + 1
    BY <1>3
  <2>2. stream' = [stream EXCEPT ![n] = new]
    BY <1>4, <2>1
  <2>3. stream' \in [Streams -> Stream] /\ stream'[n] = new /\ \A u \in Streams \ {n} : stream'[u] = stream[u]
    BY <2>2 DEF LiveTypeOK
  <2>. QED BY <2>1, <2>3
<1>7. /\ call' \in [Calls -> AppCall] /\ call'[c].pc = "abort" /\ call'[c].prev = handle
      /\ \A d \in Calls \ {c} : call'[d] = call[d]
  <2>1. PICK o \in AppCall : o = call[c]
    BY DEF LiveTypeOK
  <2>2. PICK n \in AppCall : n = [o EXCEPT !.pc = "abort", !.prev = handle] /\ n.pc = "abort" /\ n.prev = handle
    BY AbortingIs DEF LiveTypeOK
  <2>. QED BY <1>5, <2>1, <2>2 DEF LiveTypeOK
<1>8. Streaming'
  <2>1. Started(k + 1)'
    <3>1. \A u \in Streams : stream'[u].pc # "none" <=> u <= k + 1
      BY <1>1, <1>4, <1>6, LiveAssumptions DEF Started, Streams
    <3>2. \A d \in Calls : call'[d].prev <= k + 1
      <4>1. k \in Nat /\ handle <= k /\ handle \in Nat /\ \A d \in Calls : call[d].prev <= k
        BY <1>1, LiveAssumptions DEF Started, LiveTypeOK
      <4>2. \A d \in Calls : call'[d].prev \in 0..MaxStreams
        BY <1>7 DEF AppCall
      <4>3. \A d \in Calls : call'[d].prev <= k
        BY <1>7, <4>1
      <4>. QED BY <4>1, <4>2, <4>3, LiveAssumptions
    <3>. QED BY <1>5, <3>1, <3>2 DEF Started
  <2>2. Heard'
    <3>1. \A w \in Workspaces : k + 1 \notin chan[w].to /\ chan[w].to \subseteq Streams
      BY <1>3 DEF Streaming, Heard, Hears, LiveTypeOK
    <3>. QED BY <1>3, <1>4, <1>5, <1>6, <3>1 DEF Streaming, Heard, Hears
  <2>3. NeverEvicted'
    BY <1>4, <1>6 DEF Streaming, NeverEvicted
  <2>4. OneStream'
    <3>. SUFFICES ASSUME NEW u \in Live', u # k + 1
                  PROVE  \E d \in Calls : call'[d].pc = "abort" /\ call'[d].prev = u
      BY <1>5 DEF OneStream
    <3>1. u \in Live
      BY <1>6 DEF Live
    <3>2. CASE u = handle
      BY <1>7, <3>2
    <3>3. CASE u # handle
      <4>1. PICK d \in Calls : call[d].pc = "abort" /\ call[d].prev = u
        BY <3>1, <3>3 DEF Streaming, OneStream
      <4>. QED BY <1>3, <1>7, <4>1
    <3>. QED BY <3>2, <3>3
  <2>. QED BY <1>3, <2>1, <2>2, <2>3, <2>4 DEF Streaming
<1>9. LiveTypeOK'
  <2>1. \A x \in Workspaces : chan'[x].to \subseteq Live'
    <3>1. \A x \in Workspaces : chan'[x].to \subseteq Streams
      BY <1>5 DEF LiveTypeOK
    <3>. QED BY <1>8, <3>1, HubTyped DEF Streaming
  <2>2. \A u \in Streams : Len(stream'[u].queue) <= Capacity
    <3>1. Len(new.queue) = 0
      BY <1>4
    <3>2. Len(stream'[k + 1].queue) <= Capacity
      BY <1>6, <3>1, LiveAssumptions
    <3>. QED BY <1>6, <3>2 DEF LiveTypeOK
  <2>. QED BY <1>3, <1>5, <1>6, <1>7, <2>1, <2>2 DEF LiveTypeOK
<1>10. CatalogRead'
  BY <1>5, GrowsSame, ReadFrame
<1>11. Informed'
  BY <1>4, <1>5, <1>6 DEF Informed
<1>. QED BY <1>8, <1>9, <1>10, <1>11 DEF LiveInv

LEMMA TakeStep ==
  ASSUME LiveInv, NEW c \in Calls, Take(c)
  PROVE  LiveInv'
<1>. LiveTypeOK /\ Streaming /\ CatalogRead /\ Informed
  BY DEF LiveInv
<1>1. /\ call[c].pc = "resolve" /\ handle' = 0
      /\ call' = [call EXCEPT ![c] = [call[c] EXCEPT !.pc = "abort", !.prev = handle]]
      /\ UNCHANGED <<docs, chan, pub, events, stream, active, page, refresh, shown, missed>>
  BY DEF Take, hub, ui
<1>2. /\ call' \in [Calls -> AppCall] /\ call'[c].pc = "abort" /\ call'[c].prev = handle
      /\ \A d \in Calls \ {c} : call'[d] = call[d]
  <2>1. PICK o \in AppCall : o = call[c]
    BY DEF LiveTypeOK
  <2>2. PICK n \in AppCall : n = [o EXCEPT !.pc = "abort", !.prev = handle] /\ n.pc = "abort" /\ n.prev = handle
    BY AbortingIs DEF LiveTypeOK
  <2>. QED BY <1>1, <2>1, <2>2 DEF LiveTypeOK
<1>3. Streaming'
  <2>1. PICK k \in 0..MaxStreams : Started(k)
    BY DEF Streaming
  <2>2. Started(k)'
    BY <1>1, <1>2, <2>1 DEF Started
  <2>3. Heard' /\ NeverEvicted'
    BY <1>1 DEF Streaming, Heard, Hears, NeverEvicted
  <2>4. OneStream'
    <3>. SUFFICES ASSUME NEW u \in Live
                  PROVE  \E d \in Calls : call'[d].pc = "abort" /\ call'[d].prev = u
      BY <1>1 DEF OneStream, Live
    <3>1. CASE u = handle
      BY <1>2, <3>1
    <3>2. CASE u # handle
      <4>1. PICK d \in Calls : call[d].pc = "abort" /\ call[d].prev = u
        BY <3>2 DEF Streaming, OneStream
      <4>. QED BY <1>1, <1>2, <4>1
    <3>. QED BY <3>1, <3>2
  <2>. QED BY <2>2, <2>3, <2>4 DEF Streaming
<1>4. LiveTypeOK'
  <2>1. 0 \in 0..MaxStreams
    BY LiveAssumptions
  <2>. QED BY <1>1, <1>2, <2>1 DEF LiveTypeOK, Live
<1>5. CatalogRead'
  BY <1>1, GrowsSame, ReadFrame
<1>6. Informed'
  BY <1>1 DEF Informed
<1>. QED BY <1>3, <1>4, <1>5, <1>6 DEF LiveInv

LEMMA AbortStep ==
  ASSUME LiveInv, NEW c \in Calls, Abort(c)
  PROVE  LiveInv'
<1>. LiveTypeOK /\ Streaming /\ CatalogRead /\ Informed
  BY DEF LiveInv
<1>. DEFINE s == call[c].prev
<1>1. /\ call[c].pc = "abort" /\ call' = [call EXCEPT ![c] = NoCall]
      /\ IF s # 0 THEN stream' = Anew(s, "aborted") /\ chan' = Unsubscribed(s) ELSE UNCHANGED <<stream, chan>>
      /\ page' = IF call[c].ws = "none" THEN [page EXCEPT !.signed = "no"] ELSE page
      /\ UNCHANGED <<docs, pub, events, handle, active, refresh, shown, missed>>
  BY DEF Abort, Aborts
<1>2. PICK k \in 0..MaxStreams : Started(k)
  BY DEF Streaming
<1>3. s \in 0..MaxStreams /\ (s # 0 => s \in Streams /\ stream[s].pc # "none")
  <2>1. s \in 0..MaxStreams
    BY DEF LiveTypeOK, AppCall
  <2>2. s <= k
    BY <1>2 DEF Started
  <2>. HIDE DEF s
  <2>. QED BY <1>2, <2>1, <2>2, LiveAssumptions DEF Started, Streams
<1>4. /\ call' \in [Calls -> AppCall] /\ call'[c].pc = "idle" /\ call'[c].prev = 0
      /\ \A d \in Calls \ {c} : call'[d] = call[d]
  <2>1. NoCall \in AppCall /\ NoCall.pc = "idle" /\ NoCall.prev = 0
    BY LiveAssumptions DEF NoCall, AppCall, Named
  <2>. QED BY <1>1, <2>1 DEF LiveTypeOK
<1>5. page' \in Page /\ page'.at = page.at
  <2>1. page \in Page
    BY DEF LiveTypeOK
  <2>. QED BY <1>1, <2>1 DEF Page
<1>6. /\ stream' \in [Streams -> Stream] /\ \A u \in Streams : Len(stream'[u].queue) <= Capacity
      /\ \A u \in Streams : (u = s /\ stream'[u].pc = "aborted") \/ stream'[u] = stream[u]
      /\ s # 0 => stream'[s].pc = "aborted"
      /\ chan' \in [Workspaces -> [up : BOOLEAN, to : SUBSET Streams]]
      /\ \A w \in Workspaces : chan'[w].to # {} => chan'[w].up
      /\ Heard' /\ NeverEvicted' /\ \A w \in Workspaces : chan'[w].to \subseteq Live'
  <2>1. CASE s # 0
    <3>. HIDE DEF s
    <3>. QED BY <1>1, <1>3, <2>1, SilentThen
  <2>2. CASE s = 0
    BY <1>1, <2>2 DEF Streaming, Heard, Hears, NeverEvicted, LiveTypeOK, Live
  <2>. QED BY <2>1, <2>2
<1>. HIDE DEF s
<1>7. Streaming'
  <2>1. Started(k)'
    BY <1>1, <1>2, <1>3, <1>4, <1>6, LiveAssumptions DEF Started
  <2>2. OneStream'
    <3>. SUFFICES ASSUME NEW u \in Live', u # handle
                  PROVE  \E d \in Calls : call'[d].pc = "abort" /\ call'[d].prev = u
      BY <1>1 DEF OneStream
    <3>1. u \in Live /\ u # s
      <4>1. u \in Streams /\ stream'[u].pc # "aborted" /\ stream'[u].pc # "none"
        BY DEF Live
      <4>2. stream'[u] = stream[u]
        BY <1>6, <4>1
      <4>3. u # 0
        BY <4>1, LiveAssumptions DEF Streams
      <4>. QED BY <1>6, <4>1, <4>2, <4>3 DEF Live
    <3>2. PICK d \in Calls : call[d].pc = "abort" /\ call[d].prev = u
      BY <3>1 DEF Streaming, OneStream
    <3>. QED BY <1>4, <3>1, <3>2 DEF s
  <2>. QED BY <1>6, <2>1, <2>2 DEF Streaming
<1>8. LiveTypeOK'
  BY <1>1, <1>4, <1>5, <1>6 DEF LiveTypeOK
<1>9. CatalogRead'
  BY <1>1, GrowsSame, ReadFrame
<1>10. Informed'
  <2>1. \A x \in Workspaces : Reading(x) => Reading(x)'
    BY <1>1 DEF Reading
  <2>2. handle # 0 /\ stream'[handle].pc = "open" => stream[handle].ws \in Workspaces /\ stream'[handle] = stream[handle]
    BY <1>6, LiveAssumptions DEF Streaming, Heard, LiveTypeOK, Streams
  <2>. QED BY <1>1, <1>5, <2>1, <2>2, ToldFrame
<1>. QED BY <1>7, <1>8, <1>9, <1>10 DEF LiveInv

(* A command that starts or fails; what the user does. *)
LEMMA UiStep ==
  ASSUME LiveInv, UNCHANGED <<docs, chan, pub, events, stream, handle, shown>>,
         Grows, missed \subseteq missed', missed' \subseteq {"lag", "busy", "failed", "overtaken"},
         page' \in Page, active' \in Workspaces, call' \in [Calls -> AppCall],
         \A c \in Calls : call'[c] = call[c] \/ (call[c].pc # "abort" /\ call'[c].prev = 0),
         \/ page'.at = "launcher" => page.at = "launcher"
         \/ \E r \in Refreshes : refresh'[r].pc = "list"
  PROVE  LiveInv'
<1>. LiveTypeOK /\ Streaming /\ CatalogRead /\ Informed
  BY DEF LiveInv
<1>1. Streaming'
  <2>1. \A u \in Streams : Hears(u)' <=> Hears(u)
    BY DEF Hears
  <2>. QED BY <2>1, StreamingFrame
<1>2. LiveTypeOK'
  BY DEF LiveTypeOK, Live, Grows
<1>3. CatalogRead'
  BY ReadFrame
<1>4. Informed'
  <2>1. handle # 0 /\ stream[handle].pc = "open" => stream[handle].ws \in Workspaces
    BY LiveAssumptions DEF Streaming, Heard, LiveTypeOK, Streams
  <2>2. CASE page'.at = "launcher" => page.at = "launcher"
    <3>1. \A x \in Workspaces : Reading(x) => Reading(x)'
      BY GrowsReads
    <3>. QED BY <2>1, <2>2, <3>1, ToldFrame
  <2>3. CASE \E r \in Refreshes : refresh'[r].pc = "list"
    <3>1. \A x \in Workspaces : Reading(x)'
      BY <2>3 DEF Reading
    <3>2. \A x \in Workspaces : Coming(x)'
      BY <3>1 DEF Coming
    <3>. QED BY <2>1, <3>2 DEF Informed
  <2>. QED BY <2>2, <2>3
<1>. QED BY <1>1, <1>2, <1>3, <1>4 DEF LiveInv

LEMMA UserStep ==
  ASSUME LiveInv, (\E b \in BOOLEAN : SetBusy(b)) \/ SignIn \/ SignOut \/ OpenTeams \/ OpenLauncher
                  \/ (\E w \in Workspaces : Activate(w)) \/ (\E c \in Calls : ResolveFails(c))
  PROVE  LiveInv'
<1>. LiveTypeOK
  BY DEF LiveInv
<1>1. /\ page \in Page /\ active \in Workspaces /\ active \in Named /\ "none" \in Named
      /\ missed \subseteq {"lag", "busy", "failed", "overtaken"} /\ call \in [Calls -> AppCall]
  BY DEF LiveTypeOK, Named
<1>. USE <1>1
<1>2. ASSUME NEW b \in BOOLEAN, SetBusy(b) PROVE LiveInv'
  <2>1. page' \in Page /\ page'.at = page.at
    BY <1>2 DEF SetBusy, Page
  <2>. QED BY <1>2, <2>1, GrowsSame, UiStep DEF SetBusy, hub, app
<1>3. CASE SignIn
  <2>1. page' \in Page /\ page'.at = page.at
    BY <1>3 DEF SignIn, Page
  <2>. QED BY <1>3, <2>1, StartRefreshIs, UiStep DEF SignIn, hub, app
<1>4. CASE SignOut
  <2>1. page' \in Page /\ page'.at = page.at
    BY <1>4 DEF SignOut, Page
  <2>2. /\ call' \in [Calls -> AppCall]
        /\ \A c \in Calls : call'[c] = call[c] \/ (call[c].pc # "abort" /\ call'[c].prev = 0)
    BY <1>4, CallingIs DEF SignOut
  <2>. QED BY <1>4, <2>1, <2>2, GrowsSame, UiStep DEF SignOut, hub
<1>5. CASE OpenTeams
  <2>1. page' \in Page /\ page'.at = "teams"
    BY <1>5 DEF OpenTeams, Page
  <2>2. /\ call' \in [Calls -> AppCall]
        /\ \A c \in Calls : call'[c] = call[c] \/ (call[c].pc # "abort" /\ call'[c].prev = 0)
    BY <1>5, CallingIs DEF OpenTeams
  <2>. QED BY <1>5, <2>1, <2>2, GrowsSame, UiStep DEF OpenTeams, hub
<1>6. CASE OpenLauncher
  <2>1. page' \in Page
    BY <1>6 DEF OpenLauncher, Page, Named
  <2>. QED BY <1>6, <2>1, StartRefreshIs, UiStep DEF OpenLauncher, hub, app
<1>7. ASSUME NEW w \in Workspaces, Activate(w) PROVE LiveInv'
  <2>1. /\ call' \in [Calls -> AppCall]
        /\ \A c \in Calls : call'[c] = call[c] \/ (call[c].pc # "abort" /\ call'[c].prev = 0)
    BY <1>7, CallingIs DEF Activate, Named
  <2>. QED BY <1>7, <2>1, GrowsSame, UiStep DEF Activate, hub
<1>8. ASSUME NEW c \in Calls, ResolveFails(c) PROVE LiveInv'
  <2>1. NoCall \in AppCall /\ NoCall.prev = 0
    BY LiveAssumptions DEF NoCall, AppCall, Named
  <2>2. /\ call' \in [Calls -> AppCall]
        /\ \A d \in Calls : call'[d] = call[d] \/ (call[d].pc # "abort" /\ call'[d].prev = 0)
    BY <1>8, <2>1 DEF ResolveFails
  <2>. QED BY <1>8, <2>2, GrowsSame, UiStep DEF ResolveFails, hub, ui
<1>. QED BY <1>2, <1>3, <1>4, <1>5, <1>6, <1>7, <1>8

-----------------------------------------------------------------------------
(* The refresh *)

LEMMA RefreshThen ==
  ASSUME LiveTypeOK, NEW r \in Refreshes, NEW new \in Refresh, refresh' = [refresh EXCEPT ![r] = new]
  PROVE  /\ refresh' \in [Refreshes -> Refresh] /\ refresh'[r] = new
         /\ \A q \in Refreshes \ {r} : refresh'[q] = refresh[q]
  BY DEF LiveTypeOK

LEMMA ListTeamsStep ==
  ASSUME LiveInv, NEW r \in Refreshes, ListTeams(r)
  PROVE  LiveInv'
<1>. LiveTypeOK /\ Streaming /\ CatalogRead /\ Informed
  BY DEF LiveInv
<1>1. PICK o \in Refresh : o = refresh[r]
  BY DEF LiveTypeOK
<1>2. PICK new \in Refresh : new = [o EXCEPT !.pc = "read"]
  BY DEF Refresh
<1>3. /\ new.pc = "read" /\ new.seen = o.seen /\ refresh[r].pc = "list"
      /\ refresh' = [refresh EXCEPT ![r] = new]
      /\ UNCHANGED <<docs, chan, pub, events, stream, handle, active, shown, missed>>
  BY <1>1, <1>2 DEF ListTeams, hub, Refresh
<1>4. /\ refresh' \in [Refreshes -> Refresh] /\ refresh'[r] = new
      /\ \A q \in Refreshes \ {r} : refresh'[q] = refresh[q]
  BY <1>3, RefreshThen
<1>5. /\ page' \in Page /\ page'.at = page.at /\ call' \in [Calls -> AppCall]
      /\ \A c \in Calls : call'[c] = call[c] \/ (call[c].pc # "abort" /\ call'[c].prev = 0)
  <2>1. page \in Page /\ active \in Workspaces /\ active \in Named /\ call \in [Calls -> AppCall]
    BY DEF LiveTypeOK, Named
  <2>2. CASE active = page.subscribed
    BY <2>1, <2>2 DEF ListTeams, EnsureSubscribed
  <2>3. CASE active # page.subscribed
    <3>1. page' = [page EXCEPT !.subscribed = active] /\ Calling(active)
      BY <2>3 DEF ListTeams, EnsureSubscribed
    <3>2. page' \in Page /\ page'.at = page.at
      BY <2>1, <3>1 DEF Page
    <3>. QED BY <2>1, <3>1, <3>2, CallingIs
  <2>. QED BY <2>2, <2>3
<1>6. Streaming'
  <2>1. \A u \in Streams : Hears(u)' <=> Hears(u)
    BY <1>3 DEF Hears
  <2>. QED BY <1>3, <1>5, <2>1, StreamingFrame
<1>7. LiveTypeOK'
  BY <1>3, <1>4, <1>5 DEF LiveTypeOK, Live
<1>8. CatalogRead'
  BY <1>1, <1>3, <1>4 DEF CatalogRead
<1>9. Informed'
  <2>1. \A x \in Workspaces : Reading(x) => Reading(x)'
    BY <1>3, <1>4 DEF Reading
  <2>2. handle # 0 /\ stream[handle].pc = "open" => stream[handle].ws \in Workspaces
    BY LiveAssumptions DEF Streaming, Heard, LiveTypeOK, Streams
  <2>. QED BY <1>3, <1>5, <2>1, <2>2, ToldFrame
<1>. QED BY <1>6, <1>7, <1>8, <1>9 DEF LiveInv

LEMMA ReadCatalogsStep ==
  ASSUME LiveInv, NEW r \in Refreshes, ReadCatalogs(r)
  PROVE  LiveInv'
<1>. LiveTypeOK /\ Streaming /\ CatalogRead /\ Informed
  BY DEF LiveInv
<1>1. PICK new \in Refresh : new = [pc |-> "show", seen |-> docs]
  BY DEF LiveTypeOK, Refresh
<1>2. /\ new.pc = "show" /\ new.seen = docs /\ refresh' = [refresh EXCEPT ![r] = new] /\ missed' = {}
      /\ UNCHANGED <<docs, chan, pub, events, stream, handle, call, active, page, shown>>
  BY <1>1 DEF ReadCatalogs, hub, app
<1>3. /\ refresh' \in [Refreshes -> Refresh] /\ refresh'[r] = new
      /\ \A q \in Refreshes \ {r} : refresh'[q] = refresh[q]
  BY <1>2, RefreshThen
<1>4. Streaming'
  BY <1>2 DEF Streaming, Started, Heard, Hears, NeverEvicted, OneStream, Live
<1>5. LiveTypeOK'
  BY <1>2, <1>3 DEF LiveTypeOK, Live
<1>6. CatalogRead'
  <2>. SUFFICES ASSUME NEW x \in Workspaces, NEW q \in Refreshes PROVE refresh'[q].seen[x] <= docs[x]
    BY <1>2 DEF CatalogRead
  <2>1. docs[x] <= docs[x]
    BY DEF LiveTypeOK
  <2>. QED BY <1>2, <1>3, <2>1 DEF CatalogRead
<1>7. Informed'
  <2>1. \A x \in Workspaces : Reading(x)'
    BY <1>2, <1>3 DEF Reading
  <2>2. \A x \in Workspaces : Coming(x)'
    BY <2>1 DEF Coming
  <2>3. handle # 0 /\ stream[handle].pc = "open" => stream[handle].ws \in Workspaces
    BY LiveAssumptions DEF Streaming, Heard, LiveTypeOK, Streams
  <2>. QED BY <1>2, <2>2, <2>3 DEF Informed
<1>. QED BY <1>4, <1>5, <1>6, <1>7 DEF LiveInv

LEMMA RefreshFailsStep ==
  ASSUME LiveInv, NEW r \in Refreshes, RefreshFails(r)
  PROVE  LiveInv'
<1>. LiveTypeOK /\ Streaming /\ CatalogRead /\ Informed
  BY DEF LiveInv
<1>1. /\ refresh' = [refresh EXCEPT ![r] = NoRefresh] /\ missed' = missed \cup {"failed"}
      /\ UNCHANGED <<docs, chan, pub, events, stream, handle, call, active, page, shown>>
  BY DEF RefreshFails, hub, app
<1>2. /\ refresh' \in [Refreshes -> Refresh] /\ refresh'[r] = NoRefresh
      /\ \A q \in Refreshes \ {r} : refresh'[q] = refresh[q]
  BY <1>1, RefreshThen, NoRefreshTyped
<1>3. Streaming'
  BY <1>1 DEF Streaming, Started, Heard, Hears, NeverEvicted, OneStream, Live
<1>4. LiveTypeOK'
  BY <1>1, <1>2 DEF LiveTypeOK, Live
<1>5. CatalogRead'
  <2>. SUFFICES ASSUME NEW x \in Workspaces, NEW q \in Refreshes PROVE refresh'[q].seen[x] <= docs[x]
    BY <1>1 DEF CatalogRead
  <2>1. 0 <= docs[x]
    BY DEF LiveTypeOK
  <2>. QED BY <1>1, <1>2, <2>1, NoRefreshTyped DEF CatalogRead
<1>6. Informed'
  BY <1>1 DEF Informed
<1>. QED BY <1>3, <1>4, <1>5, <1>6 DEF LiveInv

LEMMA ShowCatalogStep ==
  ASSUME LiveInv, NEW r \in Refreshes, ShowCatalog(r)
  PROVE  LiveInv'
<1>. LiveTypeOK /\ Streaming /\ CatalogRead /\ Informed
  BY DEF LiveInv
<1>1. /\ refresh[r].pc = "show" /\ shown' = refresh[r].seen /\ refresh' = [refresh EXCEPT ![r] = NoRefresh]
      /\ missed' = IF \E w \in Workspaces : refresh[r].seen[w] < shown[w]
                   THEN missed \cup {"overtaken"} ELSE missed
      /\ UNCHANGED <<docs, chan, pub, events, stream, handle, call, active, page>>
  BY DEF ShowCatalog, hub, app
<1>2. /\ refresh' \in [Refreshes -> Refresh] /\ refresh'[r] = NoRefresh
      /\ \A q \in Refreshes \ {r} : refresh'[q] = refresh[q]
  BY <1>1, RefreshThen, NoRefreshTyped
<1>3. Streaming'
  BY <1>1 DEF Streaming, Started, Heard, Hears, NeverEvicted, OneStream, Live
<1>4. shown' \in [Workspaces -> 0..MaxEvents] /\ \A x \in Workspaces : shown'[x] <= docs[x]
  BY <1>1 DEF LiveTypeOK, Refresh, CatalogRead
<1>5. LiveTypeOK'
  BY <1>1, <1>2, <1>4 DEF LiveTypeOK, Live
<1>6. CatalogRead'
  <2>. SUFFICES ASSUME NEW x \in Workspaces, NEW q \in Refreshes PROVE refresh'[q].seen[x] <= docs[x]
    BY <1>1, <1>4 DEF CatalogRead
  <2>1. 0 <= docs[x]
    BY DEF LiveTypeOK
  <2>. QED BY <1>1, <1>2, <2>1, NoRefreshTyped DEF CatalogRead
<1>7. Informed'
  <2>. SUFFICES ASSUME page.at = "launcher", missed' = {}, handle # 0, stream[handle].pc = "open"
                PROVE  Coming(stream[handle].ws)'
    BY <1>1 DEF Informed
  <2>1. PICK x \in Workspaces : x = stream[handle].ws
    BY LiveAssumptions DEF Streaming, Heard, LiveTypeOK, Streams
  <2>2. Coming(x) /\ ~(refresh[r].seen[x] < shown[x])
    BY <1>1, <2>1 DEF Informed
  <2>3. docs[x] \in Nat /\ shown[x] \in Nat /\ refresh[r].seen[x] \in Nat /\ refresh[r].seen[x] <= docs[x]
    BY LiveAssumptions DEF LiveTypeOK, Refresh, CatalogRead
  <2>4. CASE pub[x] = "profile" \/ Carries(stream[handle].queue)
    BY <1>1, <2>1, <2>4 DEF Coming, Carries
  <2>5. CASE shown[x] = docs[x]
    <3>1. shown'[x] = docs'[x]
      BY <1>1, <2>2, <2>3, <2>5
    <3>. QED BY <1>1, <2>1, <3>1 DEF Coming
  <2>6. CASE Reading(x)
    <3>1. PICK q \in Refreshes : \/ refresh[q].pc \in {"list", "read"}
                                 \/ refresh[q].pc = "show" /\ refresh[q].seen[x] = docs[x]
      BY <2>6 DEF Reading
    <3>2. CASE q = r
      <4>1. shown'[x] = docs'[x]
        BY <1>1, <3>1, <3>2
      <4>. QED BY <1>1, <2>1, <4>1 DEF Coming
    <3>3. CASE q # r
      <4>1. Reading(x)'
        BY <1>1, <1>2, <3>1, <3>3 DEF Reading
      <4>. QED BY <1>1, <2>1, <4>1 DEF Coming
    <3>. QED BY <3>2, <3>3
  <2>. QED BY <2>2, <2>4, <2>5, <2>6 DEF Coming
<1>. QED BY <1>3, <1>5, <1>6, <1>7 DEF LiveInv

-----------------------------------------------------------------------------
LEMMA LiveStep == ASSUME LiveInv, [LiveNext]_liveVars PROVE LiveInv'
<1>1. ASSUME NEW w \in Workspaces, Publish(w) \/ Reclaim(w) \/ \E k \in Kinds : Commit(w, k)
      PROVE  LiveInv'
  BY <1>1, PublishStep, ReclaimStep, CommitStep
<1>2. ASSUME NEW s \in Streams, \/ Connect(s) \/ ConnectFails(s) \/ Reconnected(s) \/ Deliver(s)
                                \/ StreamEnds(s) \/ Retry(s)
      PROVE  LiveInv'
  BY <1>2, ConnectStep, TaskStep, DeliverStep, StreamEndsStep
<1>3. ASSUME NEW c \in Calls, Spawn(c) \/ Take(c) \/ Abort(c)
      PROVE  LiveInv'
  BY <1>3, SpawnStep, TakeStep, AbortStep
<1>4. ASSUME NEW r \in Refreshes, ListTeams(r) \/ ReadCatalogs(r) \/ RefreshFails(r) \/ ShowCatalog(r)
      PROVE  LiveInv'
  BY <1>4, ListTeamsStep, ReadCatalogsStep, RefreshFailsStep, ShowCatalogStep
<1>5. CASE UNCHANGED liveVars
  <2>1. LiveTypeOK' /\ Streaming' /\ CatalogRead'
    BY <1>5 DEF liveVars, LiveInv, LiveTypeOK, Live, Streaming, Started, Heard, Hears, NeverEvicted,
       OneStream,
                CatalogRead
  <2>2. Informed'
    BY <1>5 DEF liveVars, LiveInv, Informed, Coming, Carries, Reading
  <2>. QED BY <2>1, <2>2 DEF LiveInv
<1>. QED BY <1>1, <1>2, <1>3, <1>4, <1>5, UserStep DEF LiveNext

LEMMA LiveInitInv == LiveInit => LiveInv
<1>. SUFFICES ASSUME LiveInit PROVE LiveInv
  OBVIOUS
<1>. USE LiveAssumptions
<1>1. NoStream \in Stream /\ NoStream.pc = "none" /\ ~NoStream.closed /\ NoStream.queue = <<>>
  <2>1. <<>> \in Seq(Kinds)
    OBVIOUS
  <2>. QED BY <2>1 DEF NoStream, Stream, Named
<1>2. /\ stream \in [Streams -> Stream] /\ \A s \in Streams : stream[s].pc = "none" /\ ~stream[s].closed
      /\ \A s \in Streams : Len(stream[s].queue) <= Capacity
  <2>1. Len(NoStream.queue) = 0
    BY <1>1
  <2>. QED BY <1>1, <2>1 DEF LiveInit
<1>3. NoCall \in AppCall /\ NoCall.prev = 0 /\ NoCall.pc = "idle"
  BY DEF NoCall, AppCall, Named
<1>4. chan \in [Workspaces -> [up : BOOLEAN, to : SUBSET Streams]] /\ \A w \in Workspaces : chan[w].to = {}
  BY DEF LiveInit
<1>5. LiveTypeOK
  <2>1. docs \in [Workspaces -> 0..MaxEvents] /\ shown \in [Workspaces -> 0..MaxEvents]
    BY DEF LiveInit
  <2>2. page \in Page /\ pub \in [Workspaces -> Kinds \cup {"idle", "reclaim"}]
    BY DEF LiveInit, Page, Named
  <2>3. refresh \in [Refreshes -> Refresh] /\ call \in [Calls -> AppCall]
    BY <1>3, NoRefreshTyped DEF LiveInit
  <2>. QED BY <1>2, <1>4, <2>1, <2>2, <2>3 DEF LiveInit, LiveTypeOK
<1>6. Streaming
  <2>1. Started(0) /\ 0 \in 0..MaxStreams
    <3>1. \A s \in Streams : ~(s <= 0)
      BY DEF Streams
    <3>2. \A c \in Calls : call[c].pc = "idle" /\ call[c].prev = 0
      BY <1>3 DEF LiveInit, NoCall
    <3>3. handle = 0
      BY DEF LiveInit
    <3>. QED BY <1>2, <3>1, <3>2, <3>3 DEF Started
  <2>2. Heard /\ NeverEvicted /\ OneStream
    BY <1>2, <1>4 DEF Heard, Hears, NeverEvicted, OneStream, Live
  <2>. QED BY <2>1, <2>2 DEF Streaming
<1>7. CatalogRead
  BY NoRefreshTyped DEF LiveInit, CatalogRead
<1>8. Informed
  BY DEF LiveInit, Informed
<1>. QED BY <1>5, <1>6, <1>7, <1>8 DEF LiveInv

(* However commits, connections, commands of the app and refreshes of the page
   interleave: with its stream open and nothing left to deliver the launcher
   shows the workspace as it is, unless it ignored an event while busy, lagged,
   failed to refresh or showed an older refresh last; the hub evicts no
   subscriber, and one stream runs (documents.rs, sse.rs, +page.svelte). *)
THEOREM LauncherIsCurrent == LiveSpec => []LauncherSound
<1>1. LiveInv => LauncherSound
  <2>. SUFFICES ASSUME LiveInv PROVE ShownCurrent
    BY DEF LiveInv, Streaming, LauncherSound
  <2>. SUFFICES ASSUME handle # 0, page.at = "launcher", missed = {}, stream[handle].pc = "open",
                       Quiet(stream[handle].ws)
                PROVE  shown[stream[handle].ws] = docs[stream[handle].ws]
    BY DEF ShownCurrent
  <2>1. stream[handle].ws \in Workspaces
    BY LiveAssumptions DEF LiveInv, Streaming, Heard, LiveTypeOK, Streams
  <2>2. Coming(stream[handle].ws)
    BY DEF LiveInv, Informed
  <2>3. ~Reading(stream[handle].ws)
    BY DEF Quiet, FreeRefreshes, Reading
  <2>4. pub[stream[handle].ws] # "profile" /\ ~Carries(stream[handle].queue)
    <3>1. stream[handle].queue = <<>> /\ pub[stream[handle].ws] \notin Kinds
      BY DEF Quiet
    <3>2. pub[stream[handle].ws] \in Kinds \cup {"idle", "reclaim"}
      BY <2>1 DEF LiveInv, LiveTypeOK
    <3>3. pub[stream[handle].ws] # "profile"
      BY <3>1, <3>2
    <3>4. \A i \in 1..Len(stream[handle].queue) : FALSE
      BY <3>1
    <3>. QED BY <3>3, <3>4 DEF Carries
  <2>. QED BY <2>2, <2>3, <2>4 DEF Coming
<1>. QED BY <1>1, LiveInitInv, LiveStep, PTL DEF LiveSpec
================================================================================
