------------------------------ MODULE MathTransfer ------------------------------
(***************************************************************************)
(* Math and front files between a folder on a developer's machine and the  *)
(* server: `sdt push`, `sdt push-front`, `sdt pull` and the desktop's push *)
(* and pull.                                                               *)
(*                                                                         *)
(* A push scans the folder, hashes file after file, asks which blobs the   *)
(* server lacks, uploads those (opening each file again), then commits.    *)
(* The folder can be edited, blobs collected and revisions deleted between *)
(* any two of these steps, and every reply can be lost.                    *)
(*                                                                         *)
(* A file's content stands for its bytes, its size and its hash; "torn" is *)
(* what a broken download leaves.  Index stands for index.json and         *)
(* index.html.                                                             *)
(***************************************************************************)
EXTENDS Naturals, FiniteSets, Functions

CONSTANTS Clients,     \* a subset of {"cli", "front", "desktop"}, a folder each
          Files, Index, Contents,
          MaxAttempts, \* MAX_UPLOAD_ATTEMPTS
          Others,      \* the manifests colleagues push
          MaxNumber, MaxEdits, MaxStarts

Manifests(B) == UNION {[S -> B] : S \in SUBSET Files}

(* What colleagues push went through the same checks. *)
ASSUME TransferAssumptions ==
  /\ Clients \subseteq {"cli", "front", "desktop"}
  /\ Index \in Files /\ Contents # {} /\ {"none", "torn"} \cap Contents = {}
  /\ Others \subseteq Manifests(Contents)
  /\ MaxAttempts \in Nat \ {0}
  /\ MaxNumber \in Nat

VARIABLES folder,  \* client -> file -> content
          blobs,   \* blobs of the workspace
          revs,    \* number -> manifest
          bundles, \* the front bundles, newest last
          job,     \* the client's command
          edits, starts

transferVars == <<folder, blobs, revs, bundles, job, edits, starts>>

Bytes == Contents \cup {"torn"}
Empty == [f \in {} |-> "none"]
Present(c) == {f \in Files : folder[c][f] # "none"}

(* made, edited: what the job's requests made on the server and which files
   were edited since it began (history). *)
Fresh == [pc |-> "idle", man |-> Empty, todo |-> {}, tries |-> [f \in Files |-> 0],
          parent |-> 0, num |-> 0, again |-> FALSE, failed |-> FALSE,
          made |-> 0, edited |-> {}]
Over == {"idle", "ok", "pulled", "error"}

Running(c) == job[c].pc \notin Over

Job == [pc : Over \cup {"hash", "check", "upload", "detail", "pull"},
        man : Manifests(Bytes), todo : SUBSET Files, tries : [Files -> 0..MaxAttempts],
        parent : Nat, num : Nat, again : BOOLEAN, failed : BOOLEAN,
        made : Nat, edited : SUBSET Files]

TransferTypeOK ==
  /\ folder \in [Clients -> [Files -> Bytes \cup {"none"}]]
  /\ blobs \subseteq Bytes
  /\ DOMAIN revs \subseteq 1..MaxNumber /\ \A n \in DOMAIN revs : revs[n] \in Manifests(Bytes)
  /\ bundles \subseteq Manifests(Bytes)
  /\ job \in [Clients -> Job]

TransferInit ==
  /\ folder = [c \in Clients |->
                [f \in Files |-> IF f = Index THEN CHOOSE v \in Contents : TRUE ELSE "none"]]
  /\ blobs = {} /\ revs = Empty /\ bundles = {}
  /\ job = [c \in Clients |-> Fresh]
  /\ edits = 0 /\ starts = 0

Server == <<blobs, revs, bundles>>
Set(c, j) == job' = [job EXCEPT ![c] = j]
Fail(c) == Set(c, [job[c] EXCEPT !.pc = "error"])
With(m, k, v) == [x \in DOMAIN m \cup {k} |-> IF x = k THEN v ELSE m[x]]

(***************************************************************************)
(* The folder and the rest of the server                                   *)
(***************************************************************************)
Edit(c, f, v) ==
  /\ edits < MaxEdits /\ v # folder[c][f]
  /\ folder' = [folder EXCEPT ![c][f] = v]
  /\ edits' = edits + 1
  /\ Set(c, [job[c] EXCEPT !.edited = @ \cup {f}])
  /\ UNCHANGED <<Server, starts>>

HeadRevision == IF DOMAIN revs = {} THEN 0 ELSE CHOOSE n \in DOMAIN revs : \A m \in DOMAIN revs : m <= n

Collect(b) ==
  /\ b \in blobs /\ \A m \in Range(revs) \cup bundles : b \notin Range(m)
  /\ blobs' = blobs \ {b}
  /\ UNCHANGED <<folder, revs, bundles, job, edits, starts>>

DeleteRevision(n) ==
  /\ n \in DOMAIN revs
  /\ revs' = Restrict(revs, DOMAIN revs \ {n})
  /\ UNCHANGED <<folder, blobs, bundles, job, edits, starts>>

(* A colleague's push. *)
OtherPush(m) ==
  /\ HeadRevision < MaxNumber
  /\ revs' = With(revs, HeadRevision + 1, m)
  /\ blobs' = blobs \cup Range(m)
  /\ UNCHANGED <<folder, bundles, job, edits, starts>>

(***************************************************************************)
(* Push                                                                    *)
(***************************************************************************)
(* The scan lists the files; a folder without the index is refused. *)
Begin(c, j) ==
  /\ job[c].pc \in Over /\ starts < MaxStarts
  /\ starts' = starts + 1
  /\ Set(c, j)
  /\ UNCHANGED <<folder, Server, edits>>

Scanned(c) == IF Index \in Present(c) THEN [Fresh EXCEPT !.pc = "hash", !.todo = Present(c)]
                                      ELSE [Fresh EXCEPT !.pc = "error"]

PushFolder(parent) == Begin("cli", [Scanned("cli") EXCEPT !.parent = parent])
PushFrontFolder == Begin("front", Scanned("front"))
DesktopPush == Begin("desktop", Scanned("desktop"))

(* One file after the other; a file that is gone by then fails the push. *)
HashFile(c) ==
  /\ job[c].pc = "hash"
  /\ \/ job[c].todo = {} /\ Set(c, [job[c] EXCEPT !.pc = "check"])
     \/ \E f \in job[c].todo :
          IF folder[c][f] = "none" THEN Fail(c)
          ELSE Set(c, [job[c] EXCEPT !.man = With(@, f, folder[c][f]), !.todo = @ \ {f}])
  /\ UNCHANGED <<folder, Server, edits, starts>>

SelectUploads(c, hashes) == {f \in DOMAIN job[c].man : job[c].man[f] \in hashes}
Missing(c) == Range(job[c].man) \ blobs
Uploading(c) ==
  [job[c] EXCEPT !.pc = "upload", !.todo = SelectUploads(c, Missing(c)), !.tries = Fresh.tries]

CheckFiles(c) ==
  /\ job[c].pc = "check"
  /\ Set(c, Uploading(c)) \/ Fail(c)
  /\ UNCHANGED <<folder, Server, edits, starts>>

IsRetryable(e) == e \in {"transport", "server"}

GivesUp(c, f, e) == job[c].tries[f] + 1 >= MaxAttempts \/ ~IsRetryable(e)

(* A file that cannot be opened counts as a transport failure.  The body is
   what the file holds now, and the server takes it only if it has the hash. *)
Sent(c, f) ==
  IF folder[c][f] = "none" THEN {"transport"}
  ELSE {"transport", "server", IF folder[c][f] = job[c].man[f] THEN "stored" ELSE "refused"}

(* What is left of the uploads after f gave up: the command line waits for
   the others, the desktop drops them. *)
GaveUp(c, f) ==
  IF c = "desktop" THEN [job[c] EXCEPT !.pc = "error"]
  ELSE [job[c] EXCEPT !.todo = @ \ {f}, !.failed = TRUE]

UploadOne(c, f) ==
  /\ job[c].pc = "upload" /\ f \in job[c].todo
  /\ \E e \in Sent(c, f), lost \in BOOLEAN :
       LET err == IF e = "stored" THEN "transport" ELSE e
       IN  /\ blobs' = IF e = "stored" THEN blobs \cup {job[c].man[f]} ELSE blobs
           /\ lost => e = "stored"
           /\ IF e = "stored" /\ ~lost THEN Set(c, [job[c] EXCEPT !.todo = @ \ {f}])
              ELSE IF GivesUp(c, f, err) THEN Set(c, GaveUp(c, f))
              ELSE Set(c, [job[c] EXCEPT !.tries[f] = @ + 1])
  /\ UNCHANGED <<folder, revs, bundles, edits, starts>>

UploadsFail(c) ==
  /\ job[c].pc = "upload" /\ job[c].todo = {} /\ job[c].failed
  /\ Fail(c)
  /\ UNCHANGED <<folder, Server, edits, starts>>

Ready(c) == job[c].pc = "upload" /\ job[c].todo = {} /\ ~job[c].failed

(* The commit makes the version, and its reply can be lost: the push then
   fails, and is not sent again. *)
AfterLost(c) == [job[c] EXCEPT !.pc = "error", !.made = @ + 1]

Replied(c, n) ==
  \/ Set(c, [job[c] EXCEPT !.pc = "ok", !.num = n, !.made = @ + 1])
  \/ Set(c, AfterLost(c))

(* A 409 that lists missing blobs: they are uploaded and the commit is tried
   once more. *)
Retried_Never(c) == FALSE

Retried(c) == job[c].again

MissingBlobs(c) ==
  /\ Missing(c) # {}
  /\ IF Retried(c) THEN Fail(c) ELSE Set(c, [Uploading(c) EXCEPT !.again = TRUE])
  /\ UNCHANGED Server

CreateRevision(c) ==
  /\ Missing(c) = {} /\ job[c].parent \in {0, HeadRevision} /\ HeadRevision < MaxNumber
  /\ revs' = With(revs, HeadRevision + 1, job[c].man)
  /\ Replied(c, HeadRevision + 1)
  /\ UNCHANGED <<blobs, bundles>>

(* A stale parent, a quota, or no answer at all. *)
Refused(c) == Fail(c) /\ UNCHANGED Server

ExecutePush ==
  /\ Ready("cli")
  /\ MissingBlobs("cli") \/ CreateRevision("cli") \/ Refused("cli")
  /\ UNCHANGED <<folder, edits, starts>>

ExecuteDesktopPush ==
  /\ Ready("desktop")
  /\ MissingBlobs("desktop") \/ CreateRevision("desktop") \/ Refused("desktop")
  /\ UNCHANGED <<folder, edits, starts>>

CreateFrontBundle ==
  /\ Missing("front") = {}
  /\ bundles' = bundles \cup {job["front"].man}
  /\ Replied("front", 0)
  /\ UNCHANGED <<blobs, revs>>

ExecuteFrontPush ==
  /\ Ready("front")
  /\ MissingBlobs("front") \/ CreateFrontBundle \/ Refused("front")
  /\ UNCHANGED <<folder, edits, starts>>

(***************************************************************************)
(* Pull                                                                    *)
(***************************************************************************)
(* The number is given, or that of the head when the pull begins. *)
ResolveHead(c) == \E n \in DOMAIN revs : Begin(c, [Fresh EXCEPT !.pc = "detail", !.num = n])

GuardDestination(c, force) == force \/ Present(c) = {}

Detail(c) ==
  /\ job[c].pc = "detail"
  /\ \E force \in BOOLEAN :
       IF job[c].num \in DOMAIN revs /\ (c = "cli" => GuardDestination(c, force))
       THEN LET m == revs[job[c].num]
            IN  Set(c, [job[c] EXCEPT !.pc = "pull", !.man = m, !.todo = DOMAIN m])
       ELSE Fail(c)
  /\ UNCHANGED <<folder, Server, edits, starts>>

(* The desktop keeps a file that has the size and the hash. *)
Skips_BySize(c, f) == c = "desktop" /\ folder[c][f] \notin {"none", "torn"}

Skips(c, f) == c = "desktop" /\ folder[c][f] = job[c].man[f]

Served(c, f) ==
  LET n == job[c].num
  IN  IF n \in DOMAIN revs /\ f \in DOMAIN revs[n] THEN revs[n][f] ELSE "none"

Landed(c, f, v) == folder' = [folder EXCEPT ![c][f] = v]

(* The file is overwritten in place; the number may name another revision by
   now, and a content that does not match the hash fails the pull.  Only the
   command line removes it. *)
DownloadFile(c, f) ==
  LET v == Served(c, f)
  IN  /\ job[c].pc = "pull" /\ f \in job[c].todo
      /\ \/ Skips(c, f) /\ Set(c, [job[c] EXCEPT !.todo = @ \ {f}]) /\ UNCHANGED folder
         \/ ~Skips(c, f) /\ UNCHANGED folder /\ Fail(c)
         \/ ~Skips(c, f) /\ v # "none" /\ Landed(c, f, "torn") /\ Fail(c)
         \/ ~Skips(c, f) /\ v # "none" /\ v = job[c].man[f]
            /\ Landed(c, f, v)
            /\ Set(c, [job[c] EXCEPT !.todo = @ \ {f}, !.edited = @ \ {f}])
         \/ ~Skips(c, f) /\ v # "none" /\ v # job[c].man[f]
            /\ Landed(c, f, IF c = "cli" THEN "none" ELSE v) /\ Fail(c)
      /\ UNCHANGED <<Server, edits, starts>>

PullEnds(c) ==
  /\ job[c].pc = "pull" /\ job[c].todo = {}
  /\ Set(c, [job[c] EXCEPT !.pc = "pulled"])
  /\ UNCHANGED <<folder, Server, edits, starts>>

CliNext ==
  /\ "cli" \in Clients
  /\ \/ \E p \in {0, HeadRevision} : PushFolder(p)
     \/ ExecutePush \/ ResolveHead("cli")
FrontNext == "front" \in Clients /\ (PushFrontFolder \/ ExecuteFrontPush)
DesktopNext == "desktop" \in Clients /\ (DesktopPush \/ ExecuteDesktopPush \/ ResolveHead("desktop"))

Works(c) ==
  \/ HashFile(c) \/ CheckFiles(c) \/ UploadsFail(c) \/ Detail(c) \/ PullEnds(c)
  \/ \E f \in Files : UploadOne(c, f) \/ DownloadFile(c, f)

TransferNext ==
  \/ CliNext \/ FrontNext \/ DesktopNext
  \/ \E c \in Clients : Works(c)
  \/ \E c \in Clients, f \in Files, v \in Contents \cup {"none"} : Edit(c, f, v)
  \/ \E m \in Others : OtherPush(m)
  \/ \E b \in Bytes : Collect(b)
  \/ \E n \in 1..MaxNumber : DeleteRevision(n)

TransferSpec == TransferInit /\ [][TransferNext]_transferVars

Proceeds(c) ==
  \/ Works(c)
  \/ c = "cli" /\ ExecutePush
  \/ c = "front" /\ ExecuteFrontPush
  \/ c = "desktop" /\ ExecuteDesktopPush

(* A push or pull that reports success moved exactly the folder's files that
   nobody edited meanwhile: what it committed is what they hold, and what it
   wrote is the revision asked for, whatever an earlier broken transfer, a
   deleted revision or a number used again put in the way. *)
TransfersFaithful == \A c \in Clients :
  LET kept == Files \ job[c].edited
  IN  /\ job[c].pc \in {"ok", "pulled"} =>
           \A f \in kept \cap DOMAIN job[c].man : folder[c][f] = job[c].man[f]
      /\ job[c].pc = "ok" => kept \cap Present(c) \subseteq DOMAIN job[c].man

(* However often uploads are retried and the commit sent again, a push makes
   at most one version, and one that reports success made one. *)
CommittedOnce == \A c \in Clients :
  job[c].made <= 1 /\ (job[c].pc = "ok" => job[c].made = 1)

(* What a push or pull promises: it moved the folder as it is, and committed
   once. *)
TransfersSafe == TransferTypeOK /\ TransfersFaithful /\ CommittedOnce

(* A push or pull ends, with a result or an error, even when its file is gone
   or the server fails every time; as at most MaxStarts are started, all clients
   are at rest in the end. *)
TransfersEnd == []<>(\A c \in Clients : ~Running(c))

(* The folder a pull of the latest revision keeps "mirrors" it: nothing is
   there that the revision does not have (the comment of cloud_math_root). *)
PullMirrors == \A c \in Clients :
  job[c].pc = "pulled" /\ job[c].edited = {} => Present(c) = DOMAIN job[c].man
===============================================================================
