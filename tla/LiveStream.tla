------------------------------- MODULE LiveStream -------------------------------
(***************************************************************************)
(* The live workspace stream, end to end: the server's hub of broadcast    *)
(* channels, the SSE connection of the desktop app with its reconnects, the *)
(* commands that start and stop it, and the launcher page that refreshes   *)
(* its catalogue when an event comes.                                      *)
(*                                                                         *)
(* An event carries no data: the page reads the catalogue anew.  A channel *)
(* keeps the last Capacity events a receiver has not taken.                *)
(***************************************************************************)
EXTENDS Naturals, Sequences, FiniteSets

CONSTANTS Workspaces, Kinds, \* a subset of {"profile", "round"}
          Capacity,          \* CHANNEL_CAPACITY
          Calls,             \* subscribe and unsubscribe commands at a time
          Refreshes,         \* refreshes of the page at a time
          MaxStreams, MaxEvents, MaxActs, MaxDrops

ASSUME LiveAssumptions ==
  /\ "none" \notin Workspaces /\ Kinds \subseteq {"profile", "round"}
  /\ Capacity \in Nat \ {0} /\ MaxStreams \in Nat /\ MaxEvents \in Nat

VARIABLES docs,    \* what the catalogue of a workspace is made of: its changes so far
          chan,    \* the hub: workspace -> its channel and who receives from it
          pub,     \* workspace -> the publish under way
          stream,  \* the app's SSE tasks, by age
          handle,  \* the task AppState.cloud_sse holds, 0: none
          call,    \* the commands under way
          active,  \* the active workspace, in the local cache
          page, refresh, shown,
          missed,  \* history: why the page may be behind since its last read
          events, acts, drops

liveVars == <<docs, chan, pub, stream, handle, call, active, page, refresh, shown,
              missed, events, acts, drops>>
hub == <<docs, chan, pub, events>>
app == <<handle, call, active>>
ui == <<page, refresh, shown, missed>>

Streams == 1..MaxStreams
NoStream == [ws |-> "none", pc |-> "none", closed |-> FALSE, queue |-> <<>>]
NoCall == [pc |-> "idle", ws |-> "none", prev |-> 0]
NoRefresh == [pc |-> "idle", seen |-> [w \in Workspaces |-> 0]]
Live == {s \in Streams : stream[s].pc \notin {"none", "aborted"}}

Named == Workspaces \cup {"none"}
Stream == [ws : Named, closed : BOOLEAN, queue : Seq(Kinds),
           pc : {"none", "connect", "answered", "open", "backoff", "aborted"}]
AppCall == [pc : {"idle", "resolve", "abort"}, ws : Named, prev : 0..MaxStreams]
Refresh == [pc : {"idle", "list", "read", "show"}, seen : [Workspaces -> 0..MaxEvents]]
Page == [at : {"launcher", "teams"}, signed : {"no", "yes", "leaving"}, busy : BOOLEAN, subscribed : Named]

LiveTypeOK ==
  /\ docs \in [Workspaces -> 0..MaxEvents] /\ shown \in [Workspaces -> 0..MaxEvents]
  /\ chan \in [Workspaces -> [up : BOOLEAN, to : SUBSET Streams]]
  /\ \A w \in Workspaces : chan[w].to \subseteq Live /\ (chan[w].to # {} => chan[w].up)
  /\ pub \in [Workspaces -> Kinds \cup {"idle", "reclaim"}]
  /\ stream \in [Streams -> Stream] /\ \A s \in Streams : Len(stream[s].queue) <= Capacity
  /\ handle \in 0..MaxStreams
  /\ call \in [Calls -> AppCall] /\ active \in Workspaces
  /\ page \in Page /\ refresh \in [Refreshes -> Refresh]
  /\ missed \subseteq {"lag", "busy", "failed", "overtaken"} /\ events \in 0..MaxEvents

LiveInit ==
  /\ docs = [w \in Workspaces |-> 0]
  /\ chan = [w \in Workspaces |-> [up |-> FALSE, to |-> {}]]
  /\ pub = [w \in Workspaces |-> "idle"]
  /\ stream = [s \in Streams |-> NoStream]
  /\ handle = 0 /\ call = [c \in Calls |-> NoCall]
  /\ active \in Workspaces
  /\ page = [at |-> "launcher", signed |-> "no", busy |-> FALSE, subscribed |-> "none"]
  /\ refresh = [r \in Refreshes |-> NoRefresh]
  /\ shown = docs /\ missed = {}
  /\ events = 0 /\ acts = 0 /\ drops = 0

(***************************************************************************)
(* The hub                                                                 *)
(***************************************************************************)
(* A document or a revision is committed first and published after. *)
Commit(w, k) ==
  /\ pub[w] = "idle" /\ events < MaxEvents
  /\ events' = events + 1
  /\ docs' = IF k = "profile" THEN [docs EXCEPT ![w] = @ + 1] ELSE docs
  /\ pub' = [pub EXCEPT ![w] = k]
  /\ UNCHANGED <<chan, stream, app, ui, acts, drops>>

(* A receiver that is behind loses its oldest event and is not told. *)
Enqueued(q, k) == IF Len(q) < Capacity THEN Append(q, k) ELSE Append(Tail(q), k)
Loses(s) == Len(stream[s].queue) = Capacity /\ Head(stream[s].queue) = "profile"

Publish(w) ==
  /\ pub[w] \in Kinds
  /\ pub' = [pub EXCEPT ![w] = IF chan[w].up /\ chan[w].to = {} THEN "reclaim" ELSE "idle"]
  /\ stream' = [s \in Streams |-> IF s \in chan[w].to
                                  THEN [stream[s] EXCEPT !.queue = Enqueued(@, pub[w])] ELSE stream[s]]
  /\ missed' = IF \E s \in chan[w].to : Loses(s) THEN missed \cup {"lag"} ELSE missed
  /\ UNCHANGED <<docs, chan, app, page, refresh, shown, events, acts, drops>>

Reclaimable_Unchecked(w) == TRUE

Reclaimable(w) == chan[w].to = {}

(* A dropped sender closes the receivers it still has. *)
Reclaim(w) ==
  /\ pub[w] = "reclaim"
  /\ pub' = [pub EXCEPT ![w] = "idle"]
  /\ IF Reclaimable(w)
     THEN /\ chan' = [chan EXCEPT ![w] = [up |-> FALSE, to |-> {}]]
          /\ stream' = [s \in Streams |-> IF s \in chan[w].to
                                          THEN [stream[s] EXCEPT !.closed = TRUE] ELSE stream[s]]
     ELSE UNCHANGED <<chan, stream>>
  /\ UNCHANGED <<docs, app, ui, events, acts, drops>>

Subscribe(s) == chan' = [chan EXCEPT ![stream[s].ws] = [up |-> TRUE, to |-> @.to \cup {s}]]
Unsubscribed(s) == [w \in Workspaces |-> [chan[w] EXCEPT !.to = @ \ {s}]]

(***************************************************************************)
(* The page                                                                *)
(***************************************************************************)
FreeRefreshes == {r \in Refreshes : refresh[r].pc = "idle"}

StartRefresh == \E r \in FreeRefreshes : refresh' = [refresh EXCEPT ![r] = [NoRefresh EXCEPT !.pc = "list"]]

Relevant_NotReconnected(k) == k = "profile"

Relevant(k) == k \in {"reconnected", "profile"}

(* onWorkspaceEvent: a page that is busy, or another page, does nothing. *)
OnEvent(k) ==
  IF ~Relevant(k) \/ page.at # "launcher" THEN UNCHANGED <<refresh, missed>>
  ELSE IF page.busy THEN missed' = missed \cup {"busy"} /\ UNCHANGED refresh
  ELSE StartRefresh /\ UNCHANGED missed

(***************************************************************************)
(* The SSE task                                                            *)
(***************************************************************************)
Anew(s, pc) == [stream EXCEPT ![s] = [NoStream EXCEPT !.ws = stream[s].ws, !.pc = pc]]
Onto(s, pc) == stream' = [stream EXCEPT ![s].pc = pc]

(* events: the handler subscribes before it answers. *)
Connect(s) ==
  /\ stream[s].pc = "connect" /\ page.signed # "no"
  /\ Onto(s, "answered")
  /\ Subscribe(s)
  /\ UNCHANGED <<docs, pub, app, ui, events, acts, drops>>

ConnectFails(s) ==
  /\ stream[s].pc = "connect"
  /\ page.signed = "no" \/ drops < MaxDrops
  /\ drops' = IF page.signed = "no" THEN drops ELSE drops + 1
  /\ Onto(s, "backoff")
  /\ UNCHANGED <<hub, app, ui, events, acts>>

Reconnected(s) ==
  /\ stream[s].pc = "answered"
  /\ Onto(s, "open")
  /\ OnEvent("reconnected")
  /\ UNCHANGED <<hub, app, page, shown, acts, drops>>

Deliver(s) ==
  /\ stream[s].pc = "open" /\ stream[s].queue # <<>>
  /\ stream' = [stream EXCEPT ![s].queue = Tail(@)]
  /\ OnEvent(Head(stream[s].queue))
  /\ UNCHANGED <<hub, app, page, shown, acts, drops>>

StreamEnds(s) ==
  /\ stream[s].pc \in {"answered", "open"}
  /\ \/ drops < MaxDrops /\ drops' = drops + 1
     \/ stream[s].closed /\ stream[s].queue = <<>> /\ UNCHANGED drops
  /\ stream' = Anew(s, "backoff")
  /\ chan' = Unsubscribed(s)
  /\ UNCHANGED <<docs, pub, app, ui, events, acts>>

Retry(s) ==
  /\ stream[s].pc = "backoff"
  /\ Onto(s, "connect")
  /\ UNCHANGED <<hub, app, ui, acts, drops>>

(***************************************************************************)
(* The commands                                                            *)
(***************************************************************************)
Calling(w) == \E c \in Calls :
  /\ call[c].pc = "idle"
  /\ call' = [call EXCEPT ![c] = [pc |-> "resolve", ws |-> w, prev |-> 0]]

Spawned == Cardinality({s \in Streams : stream[s].pc # "none"})

(* cloud_subscribe: the slug is looked up, the new task replaces the old one,
   which is aborted then. *)
Spawn(c) ==
  /\ call[c].pc = "resolve" /\ call[c].ws # "none" /\ Spawned < MaxStreams
  /\ stream' = [stream EXCEPT ![Spawned + 1] = [NoStream EXCEPT !.ws = call[c].ws, !.pc = "connect"]]
  /\ handle' = Spawned + 1
  /\ call' = [call EXCEPT ![c].pc = "abort", ![c].prev = handle]
  /\ UNCHANGED <<hub, active, ui, acts, drops>>

ResolveFails(c) ==
  /\ call[c].pc = "resolve" /\ call[c].ws # "none" /\ drops < MaxDrops
  /\ drops' = drops + 1
  /\ call' = [call EXCEPT ![c] = NoCall]
  /\ UNCHANGED <<hub, stream, handle, active, ui, acts>>

(* cloud_unsubscribe *)
Take(c) ==
  /\ call[c].pc = "resolve" /\ call[c].ws = "none"
  /\ handle' = 0
  /\ call' = [call EXCEPT ![c].pc = "abort", ![c].prev = handle]
  /\ UNCHANGED <<hub, stream, active, ui, acts, drops>>

(* A task whose handle is merely dropped goes on. *)
Aborts_Drops(c) == FALSE

Aborts(c) == call[c].prev # 0

Abort(c) ==
  /\ call[c].pc = "abort"
  /\ call' = [call EXCEPT ![c] = NoCall]
  /\ IF Aborts(c)
     THEN stream' = Anew(call[c].prev, "aborted") /\ chan' = Unsubscribed(call[c].prev)
     ELSE UNCHANGED <<stream, chan>>
  /\ page' = IF call[c].ws = "none" THEN [page EXCEPT !.signed = "no"] ELSE page
  /\ UNCHANGED <<docs, pub, handle, active, refresh, shown, missed, events, acts, drops>>

(***************************************************************************)
(* What the user does, and the refresh                                     *)
(***************************************************************************)
Act == acts < MaxActs /\ acts' = acts + 1

SignIn ==
  /\ Act /\ page.signed = "no" /\ page.at = "launcher"
  /\ page' = [page EXCEPT !.signed = "yes"]
  /\ StartRefresh
  /\ UNCHANGED <<hub, stream, app, shown, missed, drops>>

(* signOutCloud: the stream is stopped, then the token removed. *)
SignOut ==
  /\ Act /\ page.signed = "yes" /\ page.at = "launcher"
  /\ page' = [page EXCEPT !.signed = "leaving"]
  /\ Calling("none")
  /\ UNCHANGED <<hub, stream, handle, active, refresh, shown, missed, drops>>

SetBusy(b) ==
  /\ Act /\ page.busy = ~b
  /\ page' = [page EXCEPT !.busy = b]
  /\ UNCHANGED <<hub, stream, app, refresh, shown, missed, drops>>

(* Another page subscribes whatever is active when it opens. *)
OpenTeams ==
  /\ Act /\ page.at = "launcher" /\ page.signed = "yes" /\ ~page.busy /\ FreeRefreshes = Refreshes
  /\ page' = [page EXCEPT !.at = "teams"]
  /\ Calling(active)
  /\ UNCHANGED <<hub, stream, handle, active, refresh, shown, missed, drops>>

Activate(w) ==
  /\ Act /\ page.at = "teams"
  /\ active' = w
  /\ Calling(w)
  /\ UNCHANGED <<hub, stream, handle, page, refresh, shown, missed, drops>>

OpenLauncher ==
  /\ Act /\ page.at = "teams"
  /\ page' = [page EXCEPT !.at = "launcher", !.subscribed = "none"]
  /\ StartRefresh
  /\ UNCHANGED <<hub, stream, app, shown, missed, drops>>

EnsureSubscribed(w) ==
  IF w = page.subscribed THEN UNCHANGED <<page, call>>
  ELSE page' = [page EXCEPT !.subscribed = w] /\ Calling(w)

(* refreshTeamsAndCatalog *)
ListTeams(r) ==
  /\ refresh[r].pc = "list" /\ page.signed # "no"
  /\ EnsureSubscribed(active)
  /\ refresh' = [refresh EXCEPT ![r].pc = "read"]
  /\ UNCHANGED <<hub, stream, handle, active, shown, missed, acts, drops>>

ReadCatalogs(r) ==
  /\ refresh[r].pc = "read" /\ page.signed # "no"
  /\ refresh' = [refresh EXCEPT ![r] = [pc |-> "show", seen |-> docs]]
  /\ missed' = {}
  /\ UNCHANGED <<hub, stream, app, page, shown, acts, drops>>

RefreshFails(r) ==
  /\ refresh[r].pc \in {"list", "read"}
  /\ page.signed = "no" \/ drops < MaxDrops
  /\ drops' = IF page.signed = "no" THEN drops ELSE drops + 1
  /\ refresh' = [refresh EXCEPT ![r] = NoRefresh]
  /\ missed' = missed \cup {"failed"}
  /\ UNCHANGED <<hub, stream, app, page, shown, acts>>

(* Refreshes that overlap can finish in any order. *)
ShowCatalog(r) ==
  /\ refresh[r].pc = "show"
  /\ shown' = refresh[r].seen
  /\ missed' = IF \E w \in Workspaces : refresh[r].seen[w] < shown[w]
               THEN missed \cup {"overtaken"} ELSE missed
  /\ refresh' = [refresh EXCEPT ![r] = NoRefresh]
  /\ UNCHANGED <<hub, stream, app, page, acts, drops>>

LiveNext ==
  \/ \E w \in Workspaces :
       Publish(w) \/ Reclaim(w) \/ Activate(w) \/ \E k \in Kinds : Commit(w, k)
  \/ \E s \in Streams :
       Connect(s) \/ ConnectFails(s) \/ Reconnected(s) \/ Deliver(s) \/ StreamEnds(s) \/ Retry(s)
  \/ \E c \in Calls : Spawn(c) \/ ResolveFails(c) \/ Take(c) \/ Abort(c)
  \/ \E r \in Refreshes : ListTeams(r) \/ ReadCatalogs(r) \/ RefreshFails(r) \/ ShowCatalog(r)
  \/ \E b \in BOOLEAN : SetBusy(b)
  \/ SignIn \/ SignOut \/ OpenTeams \/ OpenLauncher

LiveSpec == LiveInit /\ [][LiveNext]_liveVars

Quiet(w) ==
  /\ pub[w] \notin Kinds /\ stream[handle].queue = <<>>
  /\ FreeRefreshes = Refreshes /\ \A c \in Calls : call[c].pc = "idle"

(* The launcher with a stream open and nothing left to deliver shows the
   workspace as it is, whatever was changed while the stream was connecting,
   dropped or replaced, unless it ignored an event while busy, lagged, failed
   to refresh or showed an older refresh last. *)
ShownCurrent ==
  handle # 0 /\ page.at = "launcher" /\ missed = {} =>
    LET w == stream[handle].ws
    IN  stream[handle].pc = "open" /\ Quiet(w) => shown[w] = docs[w]

(* "a subscriber that just arrived is never evicted": reclaiming an idle
   channel never closes one that has a receiver by then. *)
NeverEvicted == \A s \in Streams : ~stream[s].closed

(* Only the task the app holds runs, but for one a command is about to abort:
   no replaced or stopped stream goes on delivering. *)
OneStream == Live \subseteq {handle} \cup {call[c].prev : c \in {d \in Calls : call[d].pc = "abort"}}

(* What the launcher shows of the active workspace follows its events, on one
   stream that the hub does not drop (documents.rs, sse.rs, +page.svelte). *)
LauncherSound == LiveTypeOK /\ ShownCurrent /\ NeverEvicted /\ OneStream

(* The launcher's note is "the workspace we currently hold an SSE subscription
   for": it names one only while the app holds a stream or is starting one. *)
SubscriptionHeld ==
  page.subscribed # "none" /\ page.signed = "yes" =>
    handle # 0 \/ \E c \in Calls : call[c].pc = "resolve"
===============================================================================
