-------------------------------- MODULE GameHost --------------------------------
(***************************************************************************)
(* One game hosted by the cloud server: the two mounts of a revision's     *)
(* engine (the workbench of the members, by session or by token, and the   *)
(* public share), the registry of engines behind each, the background      *)
(* warm-up, and the mount of the game's front.                             *)
(*                                                                         *)
(* A request is authorized, materialized, registered and forwarded in      *)
(* steps of their own; the membership, the rows, the directories and the   *)
(* process can change between any two.  A directory, a tenant and a file   *)
(* of settings are named by the revision's NUMBER; what is in them is      *)
(* known here by the revision itself.  Materializer has the steps of       *)
(* materialization.                                                        *)
(***************************************************************************)
EXTENDS Naturals, FiniteSets

CONSTANTS Reqs, Mounts, RevNumbers, MaxRevs, MaxFronts, MaxLeaves, MaxCrashes, Hours

ASSUME HostAssumption ==
  /\ "workbench" \in Mounts /\ Mounts \subseteq {"workbench", "share"} /\ RevNumbers \subseteq Nat
  /\ MaxRevs \in Nat /\ MaxFronts \in Nat /\ Hours \in Nat

VARIABLES rows,     \* number -> revision, 0: none
          born,     \* revisions made so far
          names,    \* history: how many revisions each number has named
          member,   \* the user's membership
          token,    \* the user's workbench token
          hour,
          disk,     \* mount -> number -> revision of the complete directory, 0: none
          engine,   \* mount -> number -> revision its caches hold, Cold, or NoTenant
          warming,  \* numbers whose warm-up was kicked off
          preload,  \* warm-ups under way
          fronts,   \* front bundles of the game, by age
          serving, leaves, crashes

hostVars == <<rows, born, names, member, token, hour, disk, engine, warming,
              preload, fronts, serving, leaves, crashes>>
world == <<rows, born, names, member, token, hour, fronts, leaves, crashes>>
process == <<engine, warming, preload>>

NoTenant == MaxRevs + 1
Cold == 0
NoToken == [rev |-> 0, until |-> 0]
Idle == [pc |-> "idle", mount |-> "workbench", number |-> 0, rev |-> 0, ever |-> FALSE]

HostTypeOK ==
  /\ rows \in [RevNumbers -> 0..born] /\ born <= MaxRevs /\ names \in [RevNumbers -> 0..MaxRevs]
  /\ disk \in [Mounts -> [RevNumbers -> 0..born]]
  /\ engine \in [Mounts -> [RevNumbers -> 0..MaxRevs + 1]]
  /\ warming \subseteq RevNumbers /\ preload \subseteq RevNumbers
  /\ token.rev <= born /\ token.until <= 2 * Hours

HostInit ==
  /\ rows = [n \in RevNumbers |-> 0] /\ born = 0 /\ names = [n \in RevNumbers |-> 0]
  /\ member = TRUE /\ token = NoToken /\ hour = 0
  /\ disk = [m \in Mounts |-> [n \in RevNumbers |-> 0]]
  /\ engine = [m \in Mounts |-> [n \in RevNumbers |-> NoTenant]]
  /\ warming = {} /\ preload = {}
  /\ fronts = 0
  /\ serving = [r \in Reqs |-> Idle]
  /\ leaves = 0 /\ crashes = 0

(***************************************************************************)
(* Around the host                                                         *)
(***************************************************************************)
(* The next number is one more than the highest left. *)
Push(n) ==
  /\ born < MaxRevs /\ rows[n] = 0
  /\ \A k \in RevNumbers : (k > n => rows[k] = 0) /\ (k + 1 = n => rows[k] # 0)
  /\ rows' = [rows EXCEPT ![n] = born + 1]
  /\ born' = born + 1
  /\ names' = [names EXCEPT ![n] = @ + 1]
  /\ UNCHANGED <<member, token, hour, disk, process, fronts, serving, leaves, crashes>>

(* The row takes its tokens with it; the workbench directory is removed if it
   can be, the share's is not. *)
DropRevision(n) ==
  /\ rows[n] # 0
  /\ rows' = [rows EXCEPT ![n] = 0]
  /\ token' = IF token.rev = rows[n] THEN NoToken ELSE token
  /\ disk' \in {disk, [disk EXCEPT !["workbench"][n] = 0]}
  /\ UNCHANGED <<born, names, member, hour, process, fronts, serving, leaves, crashes>>

Seen == [r \in Reqs |-> [serving[r] EXCEPT !.ever = TRUE]]

Leave ==
  /\ member /\ leaves < MaxLeaves
  /\ member' = FALSE /\ leaves' = leaves + 1
  /\ UNCHANGED <<rows, born, names, token, hour, disk, process, fronts, serving, crashes>>

Rejoin ==
  /\ ~member
  /\ member' = TRUE /\ serving' = Seen
  /\ UNCHANGED <<rows, born, names, token, hour, disk, process, fronts, leaves, crashes>>

PushFront ==
  /\ fronts < MaxFronts
  /\ fronts' = fronts + 1
  /\ UNCHANGED <<rows, born, names, member, token, hour, disk, process, serving, leaves, crashes>>

EvictWorkbench(n) ==
  /\ disk["workbench"][n] # 0
  /\ disk' = [disk EXCEPT !["workbench"][n] = 0]
  /\ UNCHANGED <<world, process, serving>>

(* Each tree has a budget of its own. *)
EvictShare(n) ==
  /\ "share" \in Mounts /\ disk["share"][n] # 0
  /\ disk' = [disk EXCEPT !["share"][n] = 0]
  /\ UNCHANGED <<world, process, serving>>

Tick ==
  /\ hour < Hours
  /\ hour' = hour + 1
  /\ UNCHANGED <<rows, born, names, member, token, disk, process, fronts, serving, leaves, crashes>>

(* The registries, with their engines and routers, are the process's. *)
Restart ==
  /\ crashes < MaxCrashes
  /\ crashes' = crashes + 1
  /\ engine' = [m \in Mounts |-> [n \in RevNumbers |-> NoTenant]]
  /\ warming' = {} /\ preload' = {}
  /\ serving' = [r \in Reqs |-> Idle]
  /\ UNCHANGED <<rows, born, names, member, token, hour, disk, fronts, leaves>>

(***************************************************************************)
(* Authorization                                                           *)
(***************************************************************************)
(* mint: expired rows are swept, the membership and the rows looked up. *)
Mint(n) ==
  /\ member /\ rows[n] # 0
  /\ token' = [rev |-> rows[n], until |-> hour + Hours]
  /\ UNCHANGED <<rows, born, names, member, hour, disk, process, fronts, serving, leaves, crashes>>

Arrive(r, pc, m, n, rev) ==
  /\ serving[r].pc = "idle"
  /\ serving' = [serving EXCEPT ![r] = [pc |-> pc, mount |-> m, number |-> n, rev |-> rev, ever |-> member]]
  /\ UNCHANGED <<world, disk, process>>

To(r, pc) == serving' = [serving EXCEPT ![r].pc = pc]

Number(v) == CHOOSE n \in RevNumbers : rows[n] = v

(* /api/ws/:slug/g/:game/r/:number/*rest *)
Dispatch(r, n) == Arrive(r, "member", "workbench", n, 0)

(* resolve: the token's row, joined with the game and the revision. *)
Granted == token.rev # 0 /\ hour < token.until /\ \E n \in RevNumbers : rows[n] = token.rev

(* /api/wb/:token/*rest *)
DispatchWorkbench(r) ==
  /\ Granted
  /\ Arrive(r, "granted", "workbench", Number(token.rev), token.rev)

(* A share link has no member behind it. *)
DispatchShare(r, n) ==
  /\ "share" \in Mounts /\ rows[n] # 0
  /\ Arrive(r, "ensure", "share", n, rows[n])

ServeFront(r) == Arrive(r, "front_member", "workbench", 0, 0)
ServePinnedFront(r, b) == Arrive(r, "front_member", "workbench", b, 0)

RequireMembership_NotForTokens(r) == serving[r].pc = "granted" \/ member

RequireMembership(r) == member

CheckMember(r) ==
  /\ serving[r].pc \in {"member", "granted", "front_member"}
  /\ \/ ~RequireMembership(r) /\ To(r, "refused")
     \/ /\ RequireMembership(r)
        /\ \/ serving[r].pc = "member" /\ To(r, "resolve")
           \/ serving[r].pc = "granted" /\ To(r, "ensure")
           \/ serving[r].pc = "front_member" /\ To(r, "front")
  /\ UNCHANGED <<world, disk, process>>

ResolveGameAndRevision(r) ==
  LET v == rows[serving[r].number]
  IN  /\ serving[r].pc = "resolve"
      /\ serving' = [serving EXCEPT ![r].pc = IF v = 0 THEN "refused" ELSE "ensure", ![r].rev = v]
      /\ UNCHANGED <<world, disk, process>>

(* The newest bundle, or the one asked for. *)
FrontManifest(r) ==
  /\ serving[r].pc = "front"
  /\ To(r, IF fronts = 0 \/ serving[r].number > fronts THEN "refused" ELSE "stream")
  /\ UNCHANGED <<world, disk, process>>

(* The blob can be gone when it is read. *)
StreamEntry(r) ==
  /\ serving[r].pc = "stream"
  /\ To(r, "served") \/ To(r, "refused")
  /\ UNCHANGED <<world, disk, process>>

(***************************************************************************)
(* The host                                                                *)
(***************************************************************************)
(* Materialized: what the directory has is taken as it is; otherwise the
   revision's files are fetched, if its row is still there. *)
EnsureWorkbench(r) ==
  LET n == serving[r].number
      gone == disk["workbench"][n] = 0 /\ rows[n] # serving[r].rev
  IN  /\ serving[r].pc = "ensure" /\ serving[r].mount = "workbench"
      /\ To(r, IF gone THEN "refused" ELSE "register")
      /\ disk' = IF ~gone /\ disk["workbench"][n] = 0
                 THEN [disk EXCEPT !["workbench"][n] = serving[r].rev] ELSE disk
      /\ UNCHANGED <<world, process>>

EnsureShare(r) ==
  LET n == serving[r].number
      gone == disk["share"][n] = 0 /\ rows[n] # serving[r].rev
  IN  /\ serving[r].pc = "ensure" /\ serving[r].mount = "share"
      /\ To(r, IF gone THEN "refused" ELSE "register")
      /\ disk' = IF ~gone /\ disk["share"][n] = 0
                 THEN [disk EXCEPT !["share"][n] = serving[r].rev] ELSE disk
      /\ UNCHANGED <<world, process>>

(* The tenant of a revision; a mutant gives one to the whole game. *)
Tenant_OfGame(n) == CHOOSE k \in RevNumbers : \A j \in RevNumbers : k <= j

Tenant(n) == n

GetOrCreate(m, t) ==
  engine' = IF engine[m][t] = NoTenant THEN [engine EXCEPT ![m][t] = Cold] ELSE engine

(* The workbench starts the warm-up of the tenant, once. *)
RegisterWorkbench(r) ==
  LET t == Tenant(serving[r].number)
  IN  /\ serving[r].pc = "register" /\ serving[r].mount = "workbench"
      /\ GetOrCreate("workbench", t)
      /\ preload' = IF t \in warming THEN preload ELSE preload \cup {t}
      /\ warming' = warming \cup {t}
      /\ To(r, "forward")
      /\ UNCHANGED <<world, disk>>

RegisterShare(r) ==
  LET t == Tenant(serving[r].number)
  IN  /\ serving[r].pc = "register" /\ serving[r].mount = "share"
      /\ GetOrCreate("share", t)
      /\ To(r, "forward")
      /\ UNCHANGED <<world, disk, warming, preload>>

(* What an engine has read it keeps; what it has not, it reads from the
   directory of its number. *)
Loaded(m, t) == IF engine[m][t] = Cold THEN disk[m][t] ELSE engine[m][t]

Forward(r) ==
  LET m == serving[r].mount
      t == Tenant(serving[r].number)
  IN  /\ serving[r].pc = "forward"
      /\ engine' = [engine EXCEPT ![m][t] = Loaded(m, t)]
      /\ To(r, IF Loaded(m, t) = Cold THEN "failed" ELSE "served")
      /\ UNCHANGED <<world, disk, warming, preload>>

PreloadFails_KeepsMark(t) == warming

PreloadFails(t) == warming \ {t}

(* preload: a failure releases the tenant. *)
WarmBooks(t) ==
  /\ t \in preload
  /\ preload' = preload \ {t}
  /\ engine' = [engine EXCEPT !["workbench"][t] = Loaded("workbench", t)]
  /\ warming' = IF Loaded("workbench", t) = Cold THEN PreloadFails(t) ELSE warming
  /\ UNCHANGED <<world, disk, serving>>

Answer(r) ==
  /\ serving[r].pc \in {"served", "refused", "failed"}
  /\ serving' = [serving EXCEPT ![r] = Idle]
  /\ UNCHANGED <<world, disk, process>>

HostNext ==
  \/ \E n \in RevNumbers : Push(n) \/ DropRevision(n) \/ Mint(n)
  \/ Leave \/ Rejoin \/ PushFront \/ Tick \/ Restart
  \/ \E n \in RevNumbers : EvictWorkbench(n) \/ EvictShare(n)
  \/ \E t \in RevNumbers : WarmBooks(t)
  \/ \E r \in Reqs :
       \/ \E n \in RevNumbers : Dispatch(r, n) \/ DispatchShare(r, n)
       \/ \E b \in 1..MaxFronts : ServePinnedFront(r, b)
       \/ DispatchWorkbench(r) \/ ServeFront(r)
       \/ CheckMember(r) \/ ResolveGameAndRevision(r) \/ FrontManifest(r) \/ StreamEntry(r)
       \/ EnsureWorkbench(r) \/ EnsureShare(r) \/ RegisterWorkbench(r) \/ RegisterShare(r)
       \/ Forward(r) \/ Answer(r)

HostSpec == HostInit /\ [][HostNext]_hostVars

(* "losing workspace access closes both doors immediately": what a user asks
   the workbench or the front for while not a member is never served, by the
   session or by a token minted before. *)
DoorsClosed == \A r \in Reqs :
  serving[r].pc \in {"served", "failed"} /\ serving[r].mount = "workbench" => serving[r].ever

(* A revision is answered from its own math, unless its number has named
   another revision whose directory or engine was still there. *)
ServesOwnMath == \A r \in Reqs :
  serving[r].pc = "served" /\ serving[r].rev # 0 /\ names[serving[r].number] = 1 =>
    engine[serving[r].mount][Tenant(serving[r].number)] = serving[r].rev

(* The host's state is of its type, its doors are closed to who lost access,
   and who gets in gets what was asked for. *)
HostsServeRight == HostTypeOK /\ DoorsClosed /\ ServesOwnMath

(* A tenant whose warm-up was kicked off is warm or being warmed: a failed
   warm-up never leaves it "permanently cold". *)
NeverLeftCold == \A t \in warming : t \in preload \/ engine["workbench"][t] \in 1..MaxRevs

(* "harmless": the directory a deletion could not remove is never what a
   request of the workbench is answered from, "a request for the deleted
   revision 404s" (revision_cache_dir). *)
StaleCacheHarmless == \A r \in Reqs :
  serving[r].pc = "served" /\ serving[r].mount = "workbench" /\ serving[r].rev # 0 =>
    engine["workbench"][Tenant(serving[r].number)] = serving[r].rev
===============================================================================
