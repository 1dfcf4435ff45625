-------------------------------- MODULE Shares --------------------------------
(***************************************************************************)
(* Share links of one game and what visitors do on them: the links' rows   *)
(* and the plan's rules for them, and the share host's memory: the live    *)
(* visitor sessions, their limiter, the unlocked browsers, the last round  *)
(* of every visitor, the memo of the plan's lifetime for links.            *)
(*                                                                         *)
(* A handler's database statements are steps of their own, and so are the  *)
(* look at the session map and the insert: the map has no lock over both.  *)
(* Database errors that the code logs and passes over are left out, and    *)
(* so are the play counters, which nothing reads back.                     *)
(*                                                                         *)
(* Bounds: days end at LastDay, revisions at MaxRev, feedback at MaxNotes  *)
(* (the code's 500), a limiter's window holds MaxNew (60 sessions, 10      *)
(* entries), Cap is every link's session cap.                              *)
(***************************************************************************)
EXTENDS Naturals, FiniteSets

CONSTANTS Links, Visitors, Callers,
          Orders,    \* what links are created with: pin, days, pw, feedback
          Patches,   \* what a PATCH asks: a record of the fields it sets
          Plans,     \* "free", "unlimited" or a number of seats by its name
          Quota,     \* max_active_share_links of each
          Entries,   \* ids of feedback
          FreeDays, LastDay, MaxRev, Cap, MaxNew, MaxNotes

(* What a link is created with; what a PATCH may ask. *)
Order == [pin : Nat, days : Nat, pw : Nat, feedback : BOOLEAN]
Fields == [pin |-> Nat, days |-> Nat, pw |-> Nat, feedback |-> BOOLEAN, state |-> {"live", "revoked"}]

(* Every plan allows a link, and clamp_sessions a session. *)
ASSUME SharesAssumptions ==
  /\ Orders \subseteq Order
  /\ \A p \in Patches : DOMAIN p \subseteq DOMAIN Fields /\ \A f \in DOMAIN p : p[f] \in Fields[f]
  /\ Quota \in [Plans -> Nat \ {0}] /\ "free" \in Plans
  /\ FreeDays \in Nat /\ LastDay \in Nat /\ MaxRev \in Nat /\ MaxNew \in Nat /\ MaxNotes \in Nat
  /\ Cap \in Nat \ {0}
  /\ IsFiniteSet(Callers) /\ Callers # {}

VARIABLES links,     \* rows of share_links; a link is "new" until inserted
          revs,      \* the game's revision numbers
          plan, day,
          memo,      \* SHARE_TTL_CACHE for the workspace
          live, window, unlocks, rounds,   \* the ShareRuntime
          notes,     \* rows of share_feedback
          call,        \* the requests under way
          excused,   \* history: why a link may be one too many
          counts,    \* sessions_count: the bumps for each session that lives
          odd        \* history: sessions refused, overlapped or gone half-way

shareVars == <<links, revs, plan, day, memo, live, window, unlocks, rounds, notes,
               call, excused, counts, odd>>

NoExpiry == LastDay + 1
NoRound == 0
Unbounded == plan = "unlimited"   \* Plan::Unbounded: billing is disabled
Lasting == plan # "free"          \* max_share_link_days is None
NewLink == [state |-> "new", born |-> 0, expires |-> NoExpiry, pw |-> 0, pin |-> 0,
            feedback |-> FALSE]
Rows == {l \in Links : links[l].state \in {"live", "revoked"}}
Newest == CHOOSE n \in revs : \A m \in revs : n >= m
NoCall == [do |-> "idle"]
Sids == Links \X Visitors
Windows == {"session", "feedback"} \X Links

(* ShareRuntime::new: nobody has called yet. *)
NewRuntime(sessions, windows, cookies, played) ==
  sessions = {} /\ windows = [w \in Windows |-> 0] /\ cookies = {} /\ played = [s \in Sids |-> NoRound]

ShareInit ==
  /\ links = [l \in Links |-> NewLink]
  /\ revs = {1}
  /\ plan = "free" /\ day = 0
  /\ memo = "none"
  /\ NewRuntime(live, window, unlocks, rounds)
  /\ notes = {}
  /\ call = [r \in Callers |-> NoCall]
  /\ excused = {}
  /\ counts = [s \in Sids |-> 0] /\ odd = {}

Start(r, rec) == call[r] = NoCall /\ call' = [call EXCEPT ![r] = rec]
Goes(r, next) == call' = [call EXCEPT ![r].do = next]
Reply(r) == call' = [call EXCEPT ![r] = NoCall]
RuntimeSame == UNCHANGED <<live, window, unlocks, rounds, counts, odd>>

-----------------------------------------------------------------------------
(* The owner's side *)

(* plan_expiry: a capped plan bounds every link's life; beyond it is refused. *)
WithinPlan(days) == Lasting \/ days <= FreeDays
PlanExpiry(days) ==
  IF days > 0 THEN day + days ELSE IF Lasting THEN NoExpiry ELSE day + FreeDays

(* active_link_count: links past their plan's lifetime do not count. *)
InTime(l) == Lasting \/ links[l].born + FreeDays > day
Active == {l \in Rows : links[l].state = "live" /\ links[l].expires > day /\ InTime(l)}

(* ensure_revision_exists; 0 tracks the latest. *)
PinExists(n) == n = 0 \/ n \in revs

LinkRoom_offByOne == Unbounded \/ Cardinality(Active) <= Quota[plan]

LinkRoom == Unbounded \/ Cardinality(Active) < Quota[plan]

CreateRead(r, o) ==
  /\ LinkRoom
  /\ PinExists(o.pin) /\ WithinPlan(o.days)
  /\ Start(r, [do |-> "insert", order |-> o, expires |-> PlanExpiry(o.days),
               alone |-> \A q \in Callers : call[q].do # "insert"])
  /\ UNCHANGED <<links, revs, plan, day, memo, notes, excused>> /\ RuntimeSame

(* insert_share: a taken slug is a conflict, and no link. *)
CreateInsert(r, l) ==
  /\ call[r].do = "insert"
  /\ links[l].state = "new"
  /\ links' = [links EXCEPT ![l] =
                 [state |-> "live", born |-> day, expires |-> call[r].expires, pw |-> call[r].order.pw,
                  pin |-> call[r].order.pin, feedback |-> call[r].order.feedback]]
  /\ excused' = IF call[r].alone THEN excused ELSE excused \cup {<<"raced", l>>}
  /\ Reply(r)
  /\ UNCHANGED <<revs, plan, day, memo, notes>> /\ RuntimeSame

CreateConflicts(r, l) ==
  /\ call[r].do = "insert" /\ l \in Rows
  /\ Reply(r)
  /\ UNCHANGED <<links, revs, plan, day, memo, notes, excused>> /\ RuntimeSame

(* update_share: the fields asked for, in one transaction.  Nothing counts
   the links again when one is restored or its expiry moved. *)
Asked(p, field) == field \in DOMAIN p
New(p, field, old) == IF Asked(p, field) THEN p[field] ELSE old
Patched(row, p) ==
  [row EXCEPT !.state = New(p, "state", @), !.pin = New(p, "pin", @), !.pw = New(p, "pw", @),
              !.feedback = New(p, "feedback", @),
              !.expires = IF Asked(p, "days") THEN PlanExpiry(p.days) ELSE @]

UpdateShare(l, p) ==
  /\ l \in Rows
  /\ Asked(p, "pin") => PinExists(p.pin)
  /\ Asked(p, "days") => WithinPlan(p.days)
  /\ links' = [links EXCEPT ![l] = Patched(@, p)]
  /\ excused' = IF Asked(p, "days") \/ (Asked(p, "state") /\ p.state = "live")
                THEN excused \cup {<<"restored", l>>} ELSE excused
  /\ UNCHANGED <<revs, plan, day, memo, notes, call>> /\ RuntimeSame

DeleteShare(l) ==
  /\ l \in Rows
  /\ links' = [links EXCEPT ![l].state = "gone"]
  /\ notes' = {n \in notes : n.link # l}
  /\ UNCHANGED <<revs, plan, day, memo, call, excused>> /\ RuntimeSame

DeleteFeedback(n) ==
  /\ n \in notes
  /\ notes' = notes \ {n}
  /\ UNCHANGED <<links, revs, plan, day, memo, call, excused>> /\ RuntimeSame

(* Pushes, the plan and time move on. *)
Push ==
  /\ Newest < MaxRev
  /\ revs' = revs \cup {Newest + 1}
  /\ UNCHANGED <<links, plan, day, memo, notes, call, excused>> /\ RuntimeSame

PlanChanges ==
  /\ \E p \in Plans \ {plan} : plan' = p
  /\ excused' = excused \cup ({"plan"} \X Rows)
  /\ UNCHANGED <<links, revs, day, memo, notes, call>> /\ RuntimeSame

DayPasses ==
  /\ day < LastDay
  /\ day' = day + 1
  /\ memo' = "none"
  /\ live' = {} /\ counts' = [s \in Sids |-> 0] /\ unlocks' = {} /\ rounds' = [s \in Sids |-> NoRound]
  /\ window' = [w \in Windows |-> 0]
  /\ odd' = odd \cup {call[r].sid : r \in {q \in Callers : call[q].do \in {"admit", "count"}}}
  /\ UNCHANGED <<links, revs, plan, notes, call, excused>>

-----------------------------------------------------------------------------
(* The visitor's side *)

(* resolve: neither unknown, revoked nor expired; a link old enough to be
   bounded asks the memoised lifetime. *)
Old(l) == links[l].born + FreeDays <= day
Asks(l) == IF memo # "none" THEN memo ELSE plan
Resolves(l) ==
  /\ l \in Rows /\ links[l].state = "live" /\ links[l].expires > day
  /\ memo' = IF Old(l) THEN Asks(l) ELSE memo
  /\ Old(l) => Asks(l) # "free"

IsUnlocked(s) == s \in unlocks
Unlocked(s) == links[s[1]].pw = 0 \/ IsUnlocked(s)

StoreUnlock(s) == unlocks \cup {s}

(* unlock: the right password stores a token for the browser. *)
Unlock(s, pw) ==
  /\ Resolves(s[1])
  /\ links[s[1]].pw = pw /\ pw # 0
  /\ unlocks' = StoreUnlock(s)
  /\ UNCHANGED <<links, revs, plan, day, live, window, rounds, notes, call, excused, counts, odd>>

(* allow_new_session and allow_feedback: fixed windows of each link. *)
Allows(what, l) == window[<<what, l>>] < MaxNew
Charged(what, l) == [window EXCEPT ![<<what, l>>] = @ + 1]

LiveOn(l) == {s \in live : s[1] = l}

OverCap_offByOne(l) == Cardinality(LiveOn(l)) > Cap

(* note_session up to the insert: known, refused at the cap, or new. *)
OverCap(l) == Cardinality(LiveOn(l)) >= Cap

Noted_new(s) == "admit"

Noted(s) == IF s \in live THEN "forward" ELSE "admit"

(* rgs_entry *)
Admitted(s) == Resolves(s[1]) /\ Unlocked(s)

Wallet(r, s) ==
  /\ Admitted(s)
  /\ s \in live \/ ~OverCap(s[1])
  /\ Start(r, [do |-> Noted(s), sid |-> s])
  /\ UNCHANGED <<links, revs, plan, day, live, window, unlocks, rounds, notes, excused, counts, odd>>

Sharing(r, s) == \E q \in Callers \ {r} : call[q].do \in {"admit", "count"} /\ call[q].sid = s

(* The insert, then allow_new_session; a session the limiter refuses has
   been inserted by then, and its next request is a known one. *)
Admit(r) ==
  LET s == call[r].sid
      allowed == Allows("session", s[1])
  IN  /\ call[r].do = "admit"
      /\ live' = live \cup {s}
      /\ window' = IF allowed THEN Charged("session", s[1]) ELSE window
      /\ call' = [call EXCEPT ![r] = IF allowed THEN [@ EXCEPT !.do = "count"] ELSE NoCall]
      /\ odd' = IF ~allowed \/ Sharing(r, s) THEN odd \cup {s} ELSE odd
      /\ UNCHANGED <<links, revs, plan, day, memo, unlocks, rounds, notes, excused, counts>>

(* increment_sessions; `counts` is sessions_count by session. *)
CountSession(r) ==
  /\ call[r].do = "count"
  /\ counts' = [counts EXCEPT ![call[r].sid] = @ + 1]
  /\ Goes(r, "forward")
  /\ UNCHANGED <<links, revs, plan, day, memo, live, window, unlocks, rounds, notes, excused, odd>>

(* tenant_router resolves the revision anew for every request. *)
Serves(l) == IF links[l].pin = 0 THEN Newest ELSE links[l].pin

Forward(r, play) ==
  /\ call[r].do = "forward"
  /\ call' = [call EXCEPT ![r] = IF play THEN [do |-> "account", sid |-> @.sid, rev |-> Serves(@.sid[1])]
                             ELSE NoCall]
  /\ UNCHANGED <<links, revs, plan, day, memo, notes, excused>> /\ RuntimeSame

(* account_play: after the link's play counters, the visitor's last round. *)
NoteRound(s, rev) == [rounds EXCEPT ![s] = rev]
LastRound(s) == rounds[s]

AccountPlay(r) ==
  /\ call[r].do = "account"
  /\ rounds' = NoteRound(call[r].sid, call[r].rev)
  /\ Reply(r)
  /\ UNCHANGED <<links, revs, plan, day, memo, live, window, unlocks, notes, excused, counts, odd>>

(* Thirty minutes without a call; a minute's window of new sessions. *)
SessionLapses(s) ==
  /\ s \in live
  /\ live' = live \ {s}
  /\ counts' = [counts EXCEPT ![s] = 0]
  /\ odd' = IF \E r \in Callers : call[r].do \in {"admit", "count"} /\ call[r].sid = s
            THEN odd \cup {s} ELSE odd \ {s}
  /\ UNCHANGED <<links, revs, plan, day, memo, window, unlocks, rounds, notes, call, excused>>

WindowPasses(w) ==
  /\ window[w] > 0
  /\ window' = [window EXCEPT ![w] = 0]
  /\ UNCHANGED <<links, revs, plan, day, memo, live, unlocks, rounds, notes, call, excused, counts, odd>>

(* feedback::submit: its limiter, the last round if there was one, the
   revision served now, the count of entries; then the insert. *)
NotesOn(l) == {n \in notes : n.link = l}

FeedbackRead(r, s) ==
  /\ Resolves(s[1]) /\ Unlocked(s)
  /\ links[s[1]].feedback
  /\ Allows("feedback", s[1])
  /\ window' = Charged("feedback", s[1])
  /\ IF Cardinality(NotesOn(s[1])) < MaxNotes
     THEN Start(r, [do |-> "note", link |-> s[1], stamp |-> Serves(s[1]),
                    played |-> LastRound(s)])
     ELSE call[r] = NoCall /\ UNCHANGED call
  /\ UNCHANGED <<links, revs, plan, day, live, unlocks, rounds, notes, excused, counts, odd>>

Unused == {i \in Entries : \A n \in notes : n.id # i}

FeedbackStore(r) ==
  /\ call[r].do = "note" /\ Unused # {}
  /\ notes' = IF call[r].link \in Rows
              THEN notes \cup {[id |-> CHOOSE i \in Unused : TRUE, link |-> call[r].link,
                                played |-> call[r].played, stamp |-> call[r].stamp]}
              ELSE notes
  /\ Reply(r)
  /\ UNCHANGED <<links, revs, plan, day, memo, excused>> /\ RuntimeSame

(* The server stops: the rows remain. *)
Restart ==
  /\ memo' = "none"
  /\ NewRuntime(live', window', unlocks', rounds')
  /\ call' = [r \in Callers |-> NoCall]
  /\ counts' = [s \in Sids |-> 0] /\ odd' = {}
  /\ UNCHANGED <<links, revs, plan, day, notes, excused>>

-----------------------------------------------------------------------------
OwnerStep ==
  \/ \E r \in Callers, o \in Orders : CreateRead(r, o)
  \/ \E r \in Callers, l \in Links : CreateInsert(r, l) \/ CreateConflicts(r, l)
  \/ \E l \in Links : DeleteShare(l) \/ \E p \in Patches : UpdateShare(l, p)
  \/ \E n \in notes : DeleteFeedback(n)
  \/ Push \/ PlanChanges \/ DayPasses

VisitorStep ==
  \/ \E r \in Callers :
       \/ \E s \in Sids : Wallet(r, s) \/ FeedbackRead(r, s)
       \/ Admit(r) \/ CountSession(r) \/ AccountPlay(r) \/ FeedbackStore(r)
       \/ \E play \in BOOLEAN : Forward(r, play)
  \/ \E s \in Sids : SessionLapses(s) \/ \E pw \in 1..2 : Unlock(s, pw)
  \/ \E w \in Windows : WindowPasses(w)
  \/ Restart

ShareNext == OwnerStep \/ VisitorStep
ShareSpec == ShareInit /\ [][ShareNext]_shareVars

-----------------------------------------------------------------------------
(* Properties *)

(* The quota of create_share: no more active links than the plan allows,
   but for links whose creation overlapped another, and links that update_share
   restored or a plan left behind. *)
Excused(why) == {l \in Links : <<why, l>> \in excused}
Pardoned == Excused("raced") \cup Excused("restored") \cup Excused("plan")
LinksWithinPlan ==
  Unbounded \/ Cardinality(Active \ Pardoned) <= Quota[plan]

(* create_share's refusal, "this plan allows at most {max} active share
   link(s)", for links created one at a time on a plan that stays: update_share
   restores a revoked link, or renews an expired one, without counting. *)
QuotaHolds ==
  Unbounded \/ Cardinality(Active \ (Excused("raced") \cup Excused("plan"))) <= Quota[plan]

(* note_session looks at the length of the map and inserts later, and submit
   counts entries and inserts later: requests at once overshoot a cap by no
   more than the others there are. *)
Overshoot ==
  \A l \in Links :
    /\ Cardinality(LiveOn(l)) < Cap + Cardinality(Callers)
    /\ Cardinality(NotesOn(l)) < MaxNotes + Cardinality(Callers)

(* A live session has bumped sessions_count exactly once, unless the limiter
   refused it, or two of its first calls overlapped, or it lapsed meanwhile. *)
Counting(s) == \E r \in Callers : call[r].do = "count" /\ call[r].sid = s
SessionsCounted == \A s \in live : s \in odd \/ Counting(s) \/ counts[s] = 1

(* submit stamps "the revision the link is currently serving, so the round
   stays addressable": the round was played in the revision of the stamp. *)
StampAddressesRound == \A n \in notes : n.played \in {NoRound, n.stamp}

(* The two rules for links together: a link stays within the plan that created
   it, and counts the sessions it served. *)
LinksSettled == LinksWithinPlan /\ SessionsCounted

===============================================================================
