------------------------------ MODULE SharesProofs ------------------------------
(***************************************************************************)
(* Proofs about Shares: for any number of links, visitors, requests and    *)
(* days, links stay within the plan that created them, a link counts the   *)
(* sessions it served, and requests at once overshoot a cap by less than   *)
(* their number.                                                           *)
(***************************************************************************)
EXTENDS Shares, FiniteSetTheorems, TLAPS

Row == [state : {"new", "live", "revoked", "gone"}, born : Nat, expires : Nat, pw : Nat,
        pin : Nat, feedback : BOOLEAN]
Inserting == [do : {"insert"}, order : Orders, expires : Nat, alone : BOOLEAN]
Playing == [do : {"admit", "count", "forward"}, sid : Sids]

(* What a request holds at each of its steps. *)
Tasked(o) ==
  \/ o = NoCall
  \/ o \in Inserting
  \/ o \in Playing
  \/ o.do = "account" /\ o.sid \in Sids
  \/ o.do = "note" /\ o.link \in Links

Typed ==
  /\ links \in [Links -> Row] /\ day \in Nat /\ plan \in Plans
  /\ live \subseteq Sids /\ counts \in [Sids -> Nat]
  /\ call = [r \in Callers |-> call[r]] /\ \A r \in Callers : Tasked(call[r])

Finite == IsFiniteSet(Rows) /\ IsFiniteSet(live) /\ IsFiniteSet(notes)

(* Creations that overlapped no other one, and the links the quota is about. *)
Lone == {r \in Callers : call[r].do = "insert" /\ call[r].alone}
Kept == Active \ Pardoned

(* A lone creation has a place of its own until it inserts. *)
QuotaKept ==
  /\ \A q, r \in Lone : q = r
  /\ ~Unbounded => /\ Cardinality(Kept) <= Quota[plan]
                   /\ Lone # {} => Cardinality(Kept) < Quota[plan]

(* Requests that have seen a place below the cap and not yet taken it. *)
Admitting(l) == {r \in Callers : call[r].do = "admit" /\ call[r].sid[1] = l}
Noting(l) == {r \in Callers : call[r].do = "note" /\ call[r].link = l}

CapsKept == \A l \in Links :
  /\ Cardinality(LiveOn(l)) + Cardinality(Admitting(l)) < Cap + Cardinality(Callers)
  /\ Cardinality(NotesOn(l)) + Cardinality(Noting(l)) < MaxNotes + Cardinality(Callers)

(* Of a session that is not odd: nobody counts it unless it lives; while it
   lives nobody inserts it again and one request at most has it to count, and
   until then it is not counted. *)
At(r, pc, s) == call[r].do = pc /\ call[r].sid = s
CountsKept == \A s \in Sids \ odd :
  /\ s \notin live => counts[s] = 0 /\ ~Counting(s)
  /\ s \in live =>
       /\ \A r \in Callers : ~At(r, "admit", s)
       /\ \A q, r \in Callers : At(q, "count", s) /\ At(r, "count", s) => q = r
       /\ counts[s] = IF Counting(s) THEN 0 ELSE 1

ShareInv == Typed /\ Finite /\ QuotaKept /\ CapsKept /\ CountsKept

-----------------------------------------------------------------------------
(* Types *)

LEMMA InitTyped == ASSUME ShareInit PROVE Typed
  BY SharesAssumptions DEF ShareInit, Typed, Row, NewLink, NoExpiry, NewRuntime, Tasked

(* What the request's step does to the requests. *)
LEMMA TaskedThen ==
  ASSUME Typed, NEW r \in Callers, NEW o, call' = [call EXCEPT ![r] = o], Tasked(o)
  PROVE  /\ call' = [q \in Callers |-> call'[q]] /\ \A q \in Callers : Tasked(call'[q])
         /\ call'[r] = o /\ \A q \in Callers \ {r} : call'[q] = call[q]
<1>1. call' = [q \in Callers |-> IF q = r THEN o ELSE call[q]]
  BY DEF Typed
<1>2. \A q \in Callers : Tasked(call[q])
  BY DEF Typed
<1>3. \A q \in Callers : call'[q] = IF q = r THEN o ELSE call[q]
  BY <1>1
<1>. QED BY <1>1, <1>2, <1>3

LEMMA OwnerTyped == ASSUME Typed, OwnerStep PROVE Typed'
<1>. USE SharesAssumptions
<1>1. ASSUME NEW r \in Callers, NEW o \in Orders, CreateRead(r, o)
      PROVE  Typed'
  <2>1. PlanExpiry(o.days) \in Nat
    BY DEF PlanExpiry, Typed, Order, NoExpiry
  <2>2. PICK b \in BOOLEAN : call' = [call EXCEPT ![r] = [do |-> "insert", order |-> o,
                                     expires |-> PlanExpiry(o.days), alone |-> b]]
    BY <1>1 DEF CreateRead, Start
  <2>3. Tasked([do |-> "insert", order |-> o, expires |-> PlanExpiry(o.days), alone |-> b])
    BY <2>1 DEF Tasked, Inserting
  <2>4. call' = [q \in Callers |-> call'[q]] /\ \A q \in Callers : Tasked(call'[q])
    BY <2>2, <2>3, TaskedThen
  <2>. QED BY <1>1, <2>4 DEF CreateRead, RuntimeSame, Typed
<1>2. ASSUME NEW r \in Callers, NEW l \in Links, CreateInsert(r, l)
      PROVE  Typed'
  <2>1. call[r] \in Inserting
    BY <1>2 DEF CreateInsert, Typed, Tasked, NoCall, Playing
  <2>2. [state |-> "live", born |-> day, expires |-> call[r].expires, pw |-> call[r].order.pw,
         pin |-> call[r].order.pin, feedback |-> call[r].order.feedback] \in Row
    BY <2>1 DEF Typed, Row, Inserting, Order
  <2>3. links' \in [Links -> Row]
    BY <1>2, <2>2 DEF CreateInsert, Typed
  <2>4. call' = [q \in Callers |-> call'[q]] /\ \A q \in Callers : Tasked(call'[q])
    BY <1>2, TaskedThen DEF CreateInsert, Reply, Tasked
  <2>. QED BY <1>2, <2>3, <2>4 DEF CreateInsert, RuntimeSame, Typed
<1>3. ASSUME NEW r \in Callers, NEW l \in Links, CreateConflicts(r, l)
      PROVE  Typed'
  <2>4. call' = [q \in Callers |-> call'[q]] /\ \A q \in Callers : Tasked(call'[q])
    BY <1>3, TaskedThen DEF CreateConflicts, Reply, Tasked
  <2>. QED BY <1>3, <2>4 DEF CreateConflicts, RuntimeSame, Typed
<1>4. ASSUME NEW l \in Links, NEW p \in Patches, UpdateShare(l, p)
      PROVE  Typed'
  <2>1. DOMAIN p \subseteq DOMAIN Fields /\ \A f \in DOMAIN p : p[f] \in Fields[f]
    OBVIOUS
  <2>2. /\ Asked(p, "state") => p.state \in {"live", "revoked"}
        /\ Asked(p, "days") => p.days \in Nat
        /\ Asked(p, "pin") => p.pin \in Nat
        /\ Asked(p, "pw") => p.pw \in Nat
        /\ Asked(p, "feedback") => p.feedback \in BOOLEAN
    BY <2>1 DEF Asked, Fields
  <2>3. Asked(p, "days") => PlanExpiry(p.days) \in Nat
    BY <2>2 DEF PlanExpiry, Typed, NoExpiry
  <2>4. links[l] \in Row
    BY DEF Typed
  <2>5. /\ New(p, "state", links[l].state) \in {"new", "live", "revoked", "gone"}
        /\ New(p, "pin", links[l].pin) \in Nat /\ New(p, "pw", links[l].pw) \in Nat
        /\ New(p, "feedback", links[l].feedback) \in BOOLEAN
    BY <2>2, <2>4 DEF New, Row, Asked
  <2>6. Patched(links[l], p) \in Row
    BY <2>3, <2>4, <2>5 DEF Patched, Row
  <2>7. links' \in [Links -> Row]
    BY <1>4, <2>6 DEF UpdateShare, Typed
  <2>. QED BY <1>4, <2>7 DEF UpdateShare, RuntimeSame, Typed
<1>5. ASSUME NEW l \in Links, DeleteShare(l)
      PROVE  Typed'
  BY <1>5 DEF DeleteShare, RuntimeSame, Typed, Row
<1>6. ASSUME NEW n, DeleteFeedback(n)
      PROVE  Typed'
  BY <1>6 DEF DeleteFeedback, RuntimeSame, Typed
<1>7. CASE Push
  BY <1>7 DEF Push, RuntimeSame, Typed
<1>8. CASE PlanChanges
  BY <1>8 DEF PlanChanges, RuntimeSame, Typed
<1>9. CASE DayPasses
  BY <1>9 DEF DayPasses, Typed
<1>. QED BY <1>1, <1>2, <1>3, <1>4, <1>5, <1>6, <1>7, <1>8, <1>9 DEF OwnerStep

LEMMA VisitorTyped == ASSUME Typed, VisitorStep PROVE Typed'
<1>. USE SharesAssumptions
<1>1. ASSUME NEW r \in Callers, NEW s \in Sids, Wallet(r, s)
      PROVE  Typed'
  <2>1. Tasked([do |-> Noted(s), sid |-> s])
    BY DEF Noted, Tasked, Playing
  <2>2. call' = [q \in Callers |-> call'[q]] /\ \A q \in Callers : Tasked(call'[q])
    BY <1>1, <2>1, TaskedThen DEF Wallet, Start
  <2>. QED BY <1>1, <2>2 DEF Wallet, Typed
<1>2. ASSUME NEW r \in Callers, NEW s \in Sids, FeedbackRead(r, s)
      PROVE  Typed'
  <2>1. s[1] \in Links
    BY DEF Sids
  <2>2. Tasked([do |-> "note", link |-> s[1], stamp |-> Serves(s[1]), played |-> LastRound(s)])
    BY <2>1 DEF Tasked
  <2>3. call' = [q \in Callers |-> call'[q]] /\ \A q \in Callers : Tasked(call'[q])
    <3>1. CASE Cardinality(NotesOn(s[1])) < MaxNotes
      BY <1>2, <2>2, <3>1, TaskedThen DEF FeedbackRead, Start
    <3>2. CASE ~(Cardinality(NotesOn(s[1])) < MaxNotes)
      BY <1>2, <3>2 DEF FeedbackRead, Typed
    <3>. QED BY <3>1, <3>2
  <2>. QED BY <1>2, <2>3 DEF FeedbackRead, Typed
<1>3. ASSUME NEW r \in Callers, Admit(r)
      PROVE  Typed'
  <2>1. call[r] \in Playing
    BY <1>3 DEF Admit, Typed, Tasked, NoCall, Inserting
  <2>2. Tasked([call[r] EXCEPT !.do = "count"]) /\ Tasked(NoCall)
    BY <2>1 DEF Tasked, Playing
  <2>3. call' = [q \in Callers |-> call'[q]] /\ \A q \in Callers : Tasked(call'[q])
    BY <1>3, <2>2, TaskedThen DEF Admit
  <2>. QED BY <1>3, <2>1, <2>3 DEF Admit, Typed, Playing
<1>4. ASSUME NEW r \in Callers, CountSession(r)
      PROVE  Typed'
  <2>1. call[r] \in Playing
    BY <1>4 DEF CountSession, Typed, Tasked, NoCall, Inserting
  <2>2. Tasked([call[r] EXCEPT !.do = "forward"])
    BY <2>1 DEF Tasked, Playing
  <2>3. call' = [call EXCEPT ![r] = [call[r] EXCEPT !.do = "forward"]]
    BY <1>4 DEF CountSession, Goes
  <2>4. call' = [q \in Callers |-> call'[q]] /\ \A q \in Callers : Tasked(call'[q])
    BY <2>2, <2>3, TaskedThen
  <2>. QED BY <1>4, <2>1, <2>4 DEF CountSession, Typed, Playing
<1>5. ASSUME NEW r \in Callers, AccountPlay(r)
      PROVE  Typed'
  <2>1. call' = [q \in Callers |-> call'[q]] /\ \A q \in Callers : Tasked(call'[q])
    BY <1>5, TaskedThen DEF AccountPlay, Reply, Tasked
  <2>. QED BY <1>5, <2>1 DEF AccountPlay, Typed
<1>6. ASSUME NEW r \in Callers, FeedbackStore(r)
      PROVE  Typed'
  <2>1. call' = [q \in Callers |-> call'[q]] /\ \A q \in Callers : Tasked(call'[q])
    BY <1>6, TaskedThen DEF FeedbackStore, Reply, Tasked
  <2>. QED BY <1>6, <2>1 DEF FeedbackStore, RuntimeSame, Typed
<1>7. ASSUME NEW r \in Callers, NEW play \in BOOLEAN, Forward(r, play)
      PROVE  Typed'
  <2>1. call[r] \in Playing
    BY <1>7 DEF Forward, Typed, Tasked, NoCall, Inserting
  <2>2. Tasked([do |-> "account", sid |-> call[r].sid, rev |-> Serves(call[r].sid[1])]) /\ Tasked(NoCall)
    BY <2>1 DEF Tasked, Playing
  <2>3. call' = [q \in Callers |-> call'[q]] /\ \A q \in Callers : Tasked(call'[q])
    BY <1>7, <2>2, TaskedThen DEF Forward
  <2>. QED BY <1>7, <2>3 DEF Forward, RuntimeSame, Typed
<1>8. ASSUME NEW s \in Sids, SessionLapses(s)
      PROVE  Typed'
  BY <1>8 DEF SessionLapses, Typed
<1>9. ASSUME NEW s \in Sids, NEW pw, Unlock(s, pw)
      PROVE  Typed'
  BY <1>9 DEF Unlock, Typed
<1>10. ASSUME NEW w \in Windows, WindowPasses(w)
       PROVE  Typed'
  BY <1>10 DEF WindowPasses, Typed
<1>11. CASE Restart
  BY <1>11 DEF Restart, NewRuntime, Typed, Tasked
<1>. QED BY <1>1, <1>2, <1>3, <1>4, <1>5, <1>6, <1>7, <1>8, <1>9, <1>10, <1>11 DEF VisitorStep

LEMMA TypedStep == ASSUME Typed, [ShareNext]_shareVars PROVE Typed'
<1>1. CASE UNCHANGED shareVars
  BY <1>1 DEF shareVars, Typed
<1>. QED BY <1>1, OwnerTyped, VisitorTyped DEF ShareNext

-----------------------------------------------------------------------------
(* Links within the plan *)

LEMMA Smaller ==
  ASSUME NEW S, NEW T, IsFiniteSet(S), T \subseteq S
  PROVE  /\ IsFiniteSet(T) /\ Cardinality(T) \in Nat /\ Cardinality(S) \in Nat
         /\ Cardinality(T) <= Cardinality(S)
  BY FS_Subset, FS_CardinalityType

LEMMA RowsActive == Rows \subseteq Links /\ Active \subseteq Rows /\ Kept \subseteq Active
  BY DEF Rows, Active, Kept

(* A step that makes no link active and begins no lone creation. *)
LEMMA QuotaFrame ==
  ASSUME Typed, Finite, QuotaKept, plan' = plan, Kept' \subseteq Kept, Lone' \subseteq Lone
  PROVE  QuotaKept'
<1>1. /\ Cardinality(Kept) \in Nat /\ Cardinality(Kept') \in Nat
      /\ Cardinality(Kept') <= Cardinality(Kept)
  BY RowsActive, Smaller DEF Finite
<1>2. Quota[plan] \in Nat
  BY SharesAssumptions DEF Typed
<1>3. Unbounded' <=> Unbounded
  BY DEF Unbounded
<1>4. \A q, r \in Lone' : q = r
  BY DEF QuotaKept
<1>5. ASSUME ~Unbounded
      PROVE  Cardinality(Kept') <= Quota[plan] /\ (Lone' # {} => Cardinality(Kept') < Quota[plan])
  <2>1. Cardinality(Kept) <= Quota[plan] /\ (Lone # {} => Cardinality(Kept) < Quota[plan])
    BY <1>5 DEF QuotaKept
  <2>. QED BY <1>1, <1>2, <2>1
<1>. QED BY <1>3, <1>4, <1>5 DEF QuotaKept

(* A request's step, of whatever kind but a creation, leaves the lone ones. *)
LEMMA LoneFrame ==
  ASSUME Typed, NEW r \in Callers, NEW o, call' = [call EXCEPT ![r] = o], o.do # "insert"
  PROVE  Lone' \subseteq Lone
  BY DEF Typed, Lone

LEMMA OwnerQuota == ASSUME Typed, Finite, QuotaKept, OwnerStep PROVE QuotaKept'
<1>. USE SharesAssumptions
<1>0. Quota[plan] \in Nat /\ NoCall.do # "insert"
  BY DEF Typed, NoCall
<1>1. ASSUME NEW r \in Callers, NEW o \in Orders, CreateRead(r, o)
      PROVE  QuotaKept'
  <2>. DEFINE alone == \A q \in Callers : call[q].do # "insert"
  <2>1. /\ Kept' = Kept /\ (Unbounded' <=> Unbounded) /\ plan' = plan
    BY <1>1 DEF CreateRead, RuntimeSame, Kept, Active, Rows, InTime, Lasting, Pardoned, Excused, Unbounded
  <2>2. call' = [q \in Callers |-> IF q = r THEN [do |-> "insert", order |-> o,
                expires |-> PlanExpiry(o.days), alone |-> alone] ELSE call[q]]
    BY <1>1 DEF CreateRead, Start, Typed
  <2>3. CASE ~alone
    <3>1. Lone' \subseteq Lone
      BY <2>2, <2>3 DEF Lone
    <3>. QED BY <2>1, <3>1, QuotaFrame
  <2>4. CASE alone
    <3>1. Lone' \subseteq {r}
      BY <2>2, <2>4 DEF Lone
    <3>2. ASSUME ~Unbounded
          PROVE  Cardinality(Kept) < Quota[plan]
      <4>1. Cardinality(Active) < Quota[plan]
        BY <1>1, <3>2 DEF CreateRead, LinkRoom
      <4>2. IsFiniteSet(Active)
        BY RowsActive, Smaller DEF Finite
      <4>3. Cardinality(Kept) <= Cardinality(Active) /\ Cardinality(Kept) \in Nat /\ Cardinality(Active) \in Nat
        BY <4>2, RowsActive, Smaller
      <4>. QED BY <4>1, <4>3, <1>0
    <3>3. Cardinality(Kept) \in Nat
      BY RowsActive, Smaller DEF Finite
    <3>. QED BY <2>1, <3>1, <3>2, <3>3, <1>0 DEF QuotaKept
  <2>. QED BY <2>3, <2>4
<1>2. ASSUME NEW r \in Callers, NEW l \in Links, CreateInsert(r, l)
      PROVE  QuotaKept'
  <2>1. /\ call' = [call EXCEPT ![r] = NoCall] /\ call[r].do = "insert" /\ plan' = plan /\ day' = day
        /\ links' = [links EXCEPT ![l] = links'[l]]
    BY <1>2 DEF CreateInsert, Reply, RuntimeSame, Typed
  <2>2. Lone' = Lone \ {r}
    BY <2>1, <1>0 DEF Lone, Typed
  <2>3. Pardoned \subseteq Pardoned' /\ (~call[r].alone => l \in Pardoned')
    BY <1>2 DEF CreateInsert, Pardoned, Excused
  <2>4. Kept' \subseteq Kept \cup {l}
    BY <2>1, <2>3 DEF Kept, Active, Rows, InTime, Lasting, Typed
  <2>5. CASE r \notin Lone
    <3>1. l \notin Kept'
      BY <2>1, <2>3, <2>5 DEF Kept, Lone
    <3>. QED BY <2>1, <2>2, <2>4, <3>1, QuotaFrame
  <2>6. CASE r \in Lone
    <3>1. Lone' = {}
      BY <2>2, <2>6 DEF QuotaKept
    <3>2. IsFiniteSet(Kept)
      BY RowsActive, Smaller DEF Finite
    <3>3. /\ IsFiniteSet(Kept \cup {l})
          /\ Cardinality(Kept \cup {l}) <= Cardinality(Kept) + 1
      <4>1. /\ IsFiniteSet(Kept \cup {l})
            /\ Cardinality(Kept \cup {l}) = IF l \in Kept THEN Cardinality(Kept) ELSE Cardinality(Kept) + 1
        BY <3>2, FS_AddElement
      <4>2. Cardinality(Kept) \in Nat
        BY <3>2, FS_CardinalityType
      <4>. QED BY <4>1, <4>2
    <3>4. /\ Cardinality(Kept') <= Cardinality(Kept \cup {l})
          /\ Cardinality(Kept') \in Nat /\ Cardinality(Kept \cup {l}) \in Nat
      BY <2>4, <3>3, Smaller
    <3>5. Cardinality(Kept) \in Nat
      BY <3>2, FS_CardinalityType
    <3>6. ~Unbounded => Cardinality(Kept) < Quota[plan]
      BY <2>6 DEF QuotaKept
    <3>7. ~Unbounded => Cardinality(Kept') <= Quota[plan]
      BY <3>3, <3>4, <3>5, <3>6, <1>0
    <3>. QED BY <2>1, <3>1, <3>7 DEF QuotaKept, Unbounded
  <2>. QED BY <2>5, <2>6
<1>3. ASSUME NEW r \in Callers, NEW l \in Links, CreateConflicts(r, l)
      PROVE  QuotaKept'
  <2>1. Lone' \subseteq Lone
    BY <1>3, <1>0, LoneFrame DEF CreateConflicts, Reply
  <2>2. plan' = plan /\ Kept' = Kept
    BY <1>3 DEF CreateConflicts, RuntimeSame, Kept, Active, Rows, InTime, Lasting, Pardoned, Excused
  <2>. QED BY <2>1, <2>2, QuotaFrame
<1>4. ASSUME NEW l \in Links, NEW p \in Patches, UpdateShare(l, p)
      PROVE  QuotaKept'
  <2>1. /\ links' = [links EXCEPT ![l] = Patched(links[l], p)]
        /\ day' = day /\ plan' = plan /\ call' = call /\ l \in Rows
    BY <1>4 DEF UpdateShare, RuntimeSame, Typed
  <2>2. Lone' = Lone
    BY <2>1 DEF Lone
  <2>3. Pardoned \subseteq Pardoned'
    BY <1>4 DEF UpdateShare, Pardoned, Excused
  <2>4. Asked(p, "days") \/ (Asked(p, "state") /\ p.state = "live") => l \in Pardoned'
    BY <1>4 DEF UpdateShare, Pardoned, Excused
  <2>5. ASSUME ~(Asked(p, "days") \/ (Asked(p, "state") /\ p.state = "live")), l \in Active'
        PROVE  l \in Active
    <3>1. links[l] \in Row
      BY DEF Typed
    <3>2. /\ links'[l].expires = links[l].expires /\ links'[l].born = links[l].born
          /\ links'[l].state = "live" => links[l].state = "live"
      BY <2>1, <2>5, <3>1 DEF Patched, New, Row, Typed
    <3>. QED BY <2>1, <2>5, <3>2 DEF Active, Rows, InTime, Lasting
  <2>6. Active' \ {l} \subseteq Active
    BY <2>1 DEF Active, Rows, InTime, Lasting, Typed
  <2>7. Kept' \subseteq Kept
    BY <2>3, <2>4, <2>5, <2>6 DEF Kept
  <2>. QED BY <2>1, <2>2, <2>7, QuotaFrame
<1>5. ASSUME NEW l \in Links, DeleteShare(l)
      PROVE  QuotaKept'
  <2>1. Lone' = Lone /\ plan' = plan
    BY <1>5 DEF DeleteShare, Lone
  <2>2. Kept' \subseteq Kept
    BY <1>5 DEF DeleteShare, RuntimeSame, Kept, Active, Rows, InTime, Lasting, Pardoned, Excused, Typed, Row
  <2>. QED BY <2>1, <2>2, QuotaFrame
<1>6. ASSUME NEW n, DeleteFeedback(n)
      PROVE  QuotaKept'
  <2>1. Lone' = Lone /\ plan' = plan /\ Kept' = Kept
    BY <1>6 DEF DeleteFeedback, RuntimeSame, Lone, Kept, Active, Rows, InTime, Lasting, Pardoned, Excused
  <2>. QED BY <2>1, QuotaFrame
<1>7. CASE Push
  <2>1. Lone' = Lone /\ plan' = plan /\ Kept' = Kept
    BY <1>7 DEF Push, RuntimeSame, Lone, Kept, Active, Rows, InTime, Lasting, Pardoned, Excused
  <2>. QED BY <2>1, QuotaFrame
<1>8. CASE PlanChanges
  <2>1. Lone' = Lone /\ plan' \in Plans
    BY <1>8 DEF PlanChanges, Lone
  <2>2. Rows' \subseteq Pardoned'
    BY <1>8 DEF PlanChanges, Rows, Pardoned, Excused
  <2>3. Kept' = {}
    BY <2>2 DEF Kept, Active
  <2>4. Cardinality(Kept') = 0 /\ Quota[plan'] \in Nat \ {0}
    BY <2>1, <2>3, FS_EmptySet
  <2>. QED BY <2>1, <2>4 DEF QuotaKept
<1>9. CASE DayPasses
  <2>1. Lone' = Lone /\ plan' = plan
    BY <1>9 DEF DayPasses, Lone
  <2>2. \A l \in Links : links[l].expires \in Nat /\ links[l].born \in Nat
    BY DEF Typed, Row
  <2>3. Kept' \subseteq Kept
    BY <1>9, <2>2 DEF DayPasses, Kept, Active, Rows, InTime, Lasting, Pardoned, Excused, Typed
  <2>. QED BY <2>1, <2>3, QuotaFrame
<1>. QED BY <1>1, <1>2, <1>3, <1>4, <1>5, <1>6, <1>7, <1>8, <1>9 DEF OwnerStep

(* No visitor's step touches the rows, the plan or a creation. *)
LEMMA VisitorQuota == ASSUME Typed, Finite, QuotaKept, VisitorStep PROVE QuotaKept'
<1>0. UNCHANGED <<links, plan, day, excused>>
  BY DEF VisitorStep, Wallet, FeedbackRead, Admit, CountSession, AccountPlay, FeedbackStore, Forward,
         SessionLapses, Unlock, WindowPasses, Restart
<1>1. Lone' \subseteq Lone
  <2>0. NoCall.do # "insert"
    BY DEF NoCall
  <2>1. ASSUME NEW r \in Callers, NEW s \in Sids, Wallet(r, s)
        PROVE  Lone' \subseteq Lone
    <3>. DEFINE o == [do |-> Noted(s), sid |-> s]
    <3>1. call' = [call EXCEPT ![r] = o]
      BY <2>1 DEF Wallet, Start
    <3>2. o.do # "insert"
      BY DEF Noted
    <3>. QED BY <3>1, <3>2, LoneFrame
  <2>2. ASSUME NEW r \in Callers, NEW s \in Sids, FeedbackRead(r, s)
        PROVE  Lone' \subseteq Lone
    <3>. DEFINE o == [do |-> "note", link |-> s[1], stamp |-> Serves(s[1]), played |-> LastRound(s)]
    <3>1. call' = call \/ call' = [call EXCEPT ![r] = o]
      BY <2>2 DEF FeedbackRead, Start
    <3>2. o.do # "insert"
      OBVIOUS
    <3>. QED BY <3>1, <3>2, LoneFrame DEF Lone
  <2>3. ASSUME NEW r \in Callers, Admit(r)
        PROVE  Lone' \subseteq Lone
    <3>1. call[r] \in Playing
      BY <2>3 DEF Admit, Typed, Tasked, NoCall, Inserting
    <3>2. [call[r] EXCEPT !.do = "count"].do # "insert"
      BY <3>1 DEF Playing
    <3>. QED BY <2>0, <2>3, <3>2, LoneFrame DEF Admit
  <2>4. ASSUME NEW r \in Callers, CountSession(r)
        PROVE  Lone' \subseteq Lone
    <3>1. call[r] \in Playing
      BY <2>4 DEF CountSession, Typed, Tasked, NoCall, Inserting
    <3>2. [call[r] EXCEPT !.do = "forward"].do # "insert"
      BY <3>1 DEF Playing
    <3>3. call' = [call EXCEPT ![r] = [call[r] EXCEPT !.do = "forward"]]
      BY <2>4 DEF CountSession, Goes
    <3>. QED BY <3>2, <3>3, LoneFrame
  <2>5. ASSUME NEW r \in Callers, AccountPlay(r) \/ FeedbackStore(r)
        PROVE  Lone' \subseteq Lone
    BY <2>0, <2>5, LoneFrame DEF AccountPlay, FeedbackStore, Reply
  <2>6. ASSUME NEW r \in Callers, NEW play \in BOOLEAN, Forward(r, play)
        PROVE  Lone' \subseteq Lone
    <3>. DEFINE o == [do |-> "account", sid |-> call[r].sid, rev |-> Serves(call[r].sid[1])]
    <3>1. call' = [call EXCEPT ![r] = NoCall] \/ call' = [call EXCEPT ![r] = o]
      BY <2>6 DEF Forward
    <3>2. o.do # "insert"
      OBVIOUS
    <3>. QED BY <2>0, <3>1, <3>2, LoneFrame
  <2>7. CASE Restart
    BY <2>0, <2>7 DEF Restart, Lone
  <2>8. ASSUME UNCHANGED call
        PROVE  Lone' \subseteq Lone
    BY <2>8 DEF Lone
  <2>. QED BY <2>1, <2>2, <2>3, <2>4, <2>5, <2>6, <2>7, <2>8 DEF VisitorStep, SessionLapses, Unlock, WindowPasses
<1>2. Kept' = Kept
  BY <1>0 DEF Kept, Active, Rows, InTime, Lasting, Pardoned, Excused
<1>. QED BY <1>0, <1>1, <1>2, QuotaFrame

-----------------------------------------------------------------------------
(* Finiteness *)

LEMMA FiniteStep == ASSUME Typed, Finite, [ShareNext]_shareVars PROVE Finite'
<1>1. ASSUME NEW r \in Callers, NEW l \in Links, CreateInsert(r, l)
      PROVE  Finite'
  <2>1. Rows' \subseteq Rows \cup {l} /\ live' = live /\ notes' = notes
    BY <1>1 DEF CreateInsert, RuntimeSame, Rows, Typed
  <2>2. IsFiniteSet(Rows \cup {l})
    BY FS_AddElement DEF Finite
  <2>. QED BY <2>1, <2>2, Smaller DEF Finite
<1>2. ASSUME NEW l \in Links, NEW p \in Patches, UpdateShare(l, p)
      PROVE  Finite'
  <2>1. Rows' \subseteq Rows /\ live' = live /\ notes' = notes
    BY <1>2 DEF UpdateShare, RuntimeSame, Rows, Typed
  <2>. QED BY <2>1, Smaller DEF Finite
<1>3. ASSUME NEW l \in Links, DeleteShare(l)
      PROVE  Finite'
  <2>1. Rows' \subseteq Rows /\ live' = live /\ notes' \subseteq notes
    BY <1>3 DEF DeleteShare, RuntimeSame, Rows, Typed, Row
  <2>. QED BY <2>1, Smaller DEF Finite
<1>4. ASSUME NEW n, DeleteFeedback(n)
      PROVE  Finite'
  <2>1. Rows' = Rows /\ live' = live /\ notes' \subseteq notes
    BY <1>4 DEF DeleteFeedback, RuntimeSame, Rows
  <2>. QED BY <2>1, Smaller DEF Finite
<1>5. CASE DayPasses
  <2>1. Rows' = Rows /\ live' = {} /\ notes' = notes
    BY <1>5 DEF DayPasses, Rows
  <2>. QED BY <2>1, FS_EmptySet DEF Finite
<1>6. ASSUME NEW r \in Callers, Admit(r)
      PROVE  Finite'
  <2>1. Rows' = Rows /\ live' = live \cup {call[r].sid} /\ notes' = notes
    BY <1>6 DEF Admit, Rows
  <2>. QED BY <2>1, FS_AddElement DEF Finite
<1>7. ASSUME NEW r \in Callers, FeedbackStore(r)
      PROVE  Finite'
  <2>1. Rows' = Rows /\ live' = live
    BY <1>7 DEF FeedbackStore, RuntimeSame, Rows
  <2>2. PICK n : notes' \subseteq notes \cup {n}
    BY <1>7 DEF FeedbackStore
  <2>3. IsFiniteSet(notes \cup {n})
    BY FS_AddElement DEF Finite
  <2>. QED BY <2>1, <2>2, <2>3, Smaller DEF Finite
<1>8. ASSUME NEW s \in Sids, SessionLapses(s)
      PROVE  Finite'
  <2>1. Rows' = Rows /\ live' \subseteq live /\ notes' = notes
    BY <1>8 DEF SessionLapses, Rows
  <2>. QED BY <2>1, Smaller DEF Finite
<1>9. CASE Restart
  <2>1. Rows' = Rows /\ live' = {} /\ notes' = notes
    BY <1>9 DEF Restart, NewRuntime, Rows
  <2>. QED BY <2>1, FS_EmptySet DEF Finite
<1>10. ASSUME UNCHANGED <<links, live, notes>>
       PROVE  Finite'
  BY <1>10 DEF Finite, Rows
<1>. QED
  BY <1>1, <1>2, <1>3, <1>4, <1>5, <1>6, <1>7, <1>8, <1>9, <1>10
  DEF ShareNext, shareVars, OwnerStep, VisitorStep, CreateRead, CreateConflicts, Push, PlanChanges, RuntimeSame,
      Wallet, FeedbackRead, CountSession, AccountPlay, Forward, Unlock, WindowPasses

-----------------------------------------------------------------------------
(* Caps and the requests that overshoot them *)

(* Counting down: both sets can only shrink. *)
LEMMA SumShrinks ==
  ASSUME NEW S, NEW T, NEW A, NEW B, IsFiniteSet(S), IsFiniteSet(A), T \subseteq S, B \subseteq A,
         NEW k \in Nat, Cardinality(S) + Cardinality(A) < k
  PROVE  Cardinality(T) + Cardinality(B) < k
<1>1. /\ Cardinality(T) \in Nat /\ Cardinality(S) \in Nat /\ Cardinality(T) <= Cardinality(S)
      /\ Cardinality(B) \in Nat /\ Cardinality(A) \in Nat /\ Cardinality(B) <= Cardinality(A)
  BY Smaller
<1>. QED BY <1>1

(* One that took its place: what one set loses the other gains. *)
LEMMA SumMoves ==
  ASSUME NEW S, NEW T, NEW A, NEW B, IsFiniteSet(S), IsFiniteSet(A),
         NEW x, T \subseteq S \cup {x}, NEW r \in A, B \subseteq A \ {r},
         NEW k \in Nat, Cardinality(S) + Cardinality(A) < k
  PROVE  Cardinality(T) + Cardinality(B) < k
<1>1. /\ IsFiniteSet(S \cup {x})
      /\ Cardinality(S \cup {x}) = IF x \in S THEN Cardinality(S) ELSE Cardinality(S) + 1
  BY FS_AddElement
<1>2. /\ IsFiniteSet(A \ {r})
      /\ Cardinality(A \ {r}) = Cardinality(A) - 1
  BY FS_RemoveElement
<1>3. /\ Cardinality(T) <= Cardinality(S \cup {x}) /\ Cardinality(B) <= Cardinality(A \ {r})
      /\ Cardinality(T) \in Nat /\ Cardinality(B) \in Nat
  BY <1>1, <1>2, Smaller
<1>4. Cardinality(S) \in Nat /\ Cardinality(A) \in Nat
  BY FS_CardinalityType
<1>. QED BY <1>1, <1>2, <1>3, <1>4

(* One more that saw a place: all requests together are not too many. *)
LEMMA SumGrows ==
  ASSUME NEW S, NEW A, IsFiniteSet(S), A \subseteq Callers, NEW c \in Nat, Cardinality(S) < c
  PROVE  Cardinality(S) + Cardinality(A) < c + Cardinality(Callers)
<1>1. Cardinality(A) <= Cardinality(Callers) /\ Cardinality(A) \in Nat /\ Cardinality(Callers) \in Nat
  BY SharesAssumptions, Smaller
<1>2. Cardinality(S) \in Nat
  BY FS_CardinalityType
<1>. QED BY <1>1, <1>2

LEMMA Sizes ==
  ASSUME Finite, NEW l \in Links
  PROVE  /\ IsFiniteSet(LiveOn(l)) /\ IsFiniteSet(NotesOn(l))
         /\ IsFiniteSet(Admitting(l)) /\ IsFiniteSet(Noting(l))
         /\ Admitting(l) \subseteq Callers /\ Noting(l) \subseteq Callers
         /\ Cap + Cardinality(Callers) \in Nat /\ MaxNotes + Cardinality(Callers) \in Nat
<1>1. Admitting(l) \subseteq Callers /\ Noting(l) \subseteq Callers /\ LiveOn(l) \subseteq live /\ NotesOn(l) \subseteq notes
  BY DEF Admitting, Noting, LiveOn, NotesOn
<1>2. IsFiniteSet(Callers) /\ Cardinality(Callers) \in Nat /\ Cap \in Nat /\ MaxNotes \in Nat
  BY SharesAssumptions, FS_CardinalityType
<1>. QED BY <1>1, <1>2, Smaller DEF Finite

LEMMA CapsFrame ==
  ASSUME Finite, CapsKept,
         \A l \in Links : /\ LiveOn(l)' \subseteq LiveOn(l) /\ Admitting(l)' \subseteq Admitting(l)
                          /\ NotesOn(l)' \subseteq NotesOn(l) /\ Noting(l)' \subseteq Noting(l)
  PROVE  CapsKept'
<1>1. ASSUME NEW l \in Links
      PROVE  /\ Cardinality(LiveOn(l)') + Cardinality(Admitting(l)') < Cap + Cardinality(Callers)
             /\ Cardinality(NotesOn(l)') + Cardinality(Noting(l)') < MaxNotes + Cardinality(Callers)
  <2>1. /\ Cardinality(LiveOn(l)) + Cardinality(Admitting(l)) < Cap + Cardinality(Callers)
        /\ Cardinality(NotesOn(l)) + Cardinality(Noting(l)) < MaxNotes + Cardinality(Callers)
    BY DEF CapsKept
  <2>2. Cardinality(LiveOn(l)') + Cardinality(Admitting(l)') < Cap + Cardinality(Callers)
    BY <2>1, Sizes, SumShrinks
  <2>3. Cardinality(NotesOn(l)') + Cardinality(Noting(l)') < MaxNotes + Cardinality(Callers)
    BY <2>1, Sizes, SumShrinks
  <2>. QED BY <2>2, <2>3
<1>. QED BY <1>1 DEF CapsKept

(* A step of a request that takes no new place. *)
LEMMA PlacesFrame ==
  ASSUME Typed, NEW r \in Callers, NEW o, call' = [call EXCEPT ![r] = o], o.do \notin {"admit", "note"}, NEW l \in Links
  PROVE  Admitting(l)' \subseteq Admitting(l) \ {r} /\ Noting(l)' \subseteq Noting(l) \ {r}
  BY DEF Typed, Admitting, Noting

LEMMA OwnerCaps == ASSUME Typed, Finite, CapsKept, OwnerStep PROVE CapsKept'
<1>0. live' \subseteq live /\ notes' \subseteq notes
  BY DEF OwnerStep, CreateRead, CreateInsert, CreateConflicts, UpdateShare, DeleteShare, DeleteFeedback, Push,
         PlanChanges, DayPasses, RuntimeSame
<1>1. ASSUME NEW l \in Links
      PROVE  Admitting(l)' \subseteq Admitting(l) /\ Noting(l)' \subseteq Noting(l)
  <2>1. ASSUME NEW r \in Callers, NEW o \in Orders, CreateRead(r, o)
        PROVE  Admitting(l)' \subseteq Admitting(l) /\ Noting(l)' \subseteq Noting(l)
    <3>1. PICK b \in BOOLEAN : call' = [call EXCEPT ![r] = [do |-> "insert", order |-> o,
                                       expires |-> PlanExpiry(o.days), alone |-> b]]
      BY <2>1 DEF CreateRead, Start
    <3>. QED BY <3>1, PlacesFrame
  <2>2. ASSUME NEW r \in Callers, NEW m \in Links, CreateInsert(r, m) \/ CreateConflicts(r, m)
        PROVE  Admitting(l)' \subseteq Admitting(l) /\ Noting(l)' \subseteq Noting(l)
    BY <2>2, PlacesFrame DEF CreateInsert, CreateConflicts, Reply, NoCall
  <2>3. ASSUME UNCHANGED call
        PROVE  Admitting(l)' \subseteq Admitting(l) /\ Noting(l)' \subseteq Noting(l)
    BY <2>3 DEF Admitting, Noting
  <2>. QED BY <2>1, <2>2, <2>3 DEF OwnerStep, UpdateShare, DeleteShare, DeleteFeedback, Push, PlanChanges, DayPasses
<1>2. \A l \in Links : LiveOn(l)' \subseteq LiveOn(l) /\ NotesOn(l)' \subseteq NotesOn(l)
  BY <1>0 DEF LiveOn, NotesOn
<1>. QED BY <1>1, <1>2, CapsFrame

LEMMA VisitorCaps == ASSUME Typed, Finite, CapsKept, VisitorStep PROVE CapsKept'
<1>. USE DEF CapsKept
<1>0. /\ Cap \in Nat /\ MaxNotes \in Nat
  BY SharesAssumptions
<1>1. ASSUME NEW r \in Callers, NEW s \in Sids, Wallet(r, s)
      PROVE  CapsKept'
  <2>. DEFINE o == [do |-> Noted(s), sid |-> s]
  <2>1. call[r] = NoCall /\ call' = [call EXCEPT ![r] = o] /\ live' = live /\ notes' = notes /\ s[1] \in Links
    BY <1>1 DEF Wallet, Start, Sids
  <2>2. ASSUME NEW l \in Links
        PROVE  LiveOn(l)' = LiveOn(l) /\ NotesOn(l)' = NotesOn(l)
    BY <2>1 DEF LiveOn, NotesOn
  <2>3. CASE s \in live
    <3>1. o.do = "forward"
      BY <2>3 DEF Noted
    <3>2. \A l \in Links : Admitting(l)' \subseteq Admitting(l) /\ Noting(l)' \subseteq Noting(l)
      BY <2>1, <3>1, PlacesFrame
    <3>. QED BY <2>2, <3>2, CapsFrame
  <2>4. CASE s \notin live
    <3>1. ASSUME NEW l \in Links
          PROVE  Noting(l)' = Noting(l) /\ Admitting(l)' \subseteq Callers /\ (l # s[1] => Admitting(l)' = Admitting(l))
      <4>1. call' = [q \in Callers |-> IF q = r THEN o ELSE call[q]] /\ o.do \in {"admit", "forward"} /\ o.sid = s
        BY <2>1 DEF Typed, Noted
      <4>2. call[r].do = "idle"
        BY <2>1 DEF NoCall
      <4>3. Admitting(l)' \subseteq Callers
        BY DEF Admitting
      <4>4. Noting(l)' = Noting(l)
        BY <4>1, <4>2 DEF Noting
      <4>5. l # s[1] => Admitting(l)' = Admitting(l)
        BY <4>1, <4>2 DEF Admitting
      <4>. QED BY <4>3, <4>4, <4>5
    <3>2. ASSUME NEW l \in Links
          PROVE  Cardinality(LiveOn(l)') + Cardinality(Admitting(l)') < Cap + Cardinality(Callers)
      <4>1. CASE l # s[1]
        BY <2>2, <3>1, <4>1
      <4>2. CASE l = s[1]
        <5>1. ~(Cardinality(LiveOn(l)) >= Cap) /\ Cardinality(LiveOn(l)) \in Nat
          BY <1>1, <2>4, <4>2, Sizes, FS_CardinalityType DEF Wallet, OverCap
        <5>2. Cardinality(LiveOn(l)) < Cap
          BY <5>1, <1>0
        <5>. QED BY <2>2, <3>1, <5>2, <1>0, Sizes, SumGrows
      <4>. QED BY <4>1, <4>2
    <3>. QED BY <2>2, <3>1, <3>2
  <2>. QED BY <2>3, <2>4
<1>2. ASSUME NEW r \in Callers, NEW s \in Sids, FeedbackRead(r, s)
      PROVE  CapsKept'
  <2>. DEFINE o == [do |-> "note", link |-> s[1], stamp |-> Serves(s[1]), played |-> LastRound(s)]
  <2>1. call[r] = NoCall /\ live' = live /\ notes' = notes /\ s[1] \in Links
    BY <1>2 DEF FeedbackRead, Start, Sids
  <2>2. ASSUME NEW l \in Links
        PROVE  LiveOn(l)' = LiveOn(l) /\ NotesOn(l)' = NotesOn(l)
    BY <2>1 DEF LiveOn, NotesOn
  <2>3. CASE ~(Cardinality(NotesOn(s[1])) < MaxNotes)
    <3>1. call' = call
      BY <1>2, <2>3 DEF FeedbackRead
    <3>2. \A l \in Links : Admitting(l)' = Admitting(l) /\ Noting(l)' = Noting(l)
      BY <3>1 DEF Admitting, Noting
    <3>. QED BY <2>2, <3>2
  <2>4. CASE Cardinality(NotesOn(s[1])) < MaxNotes
    <3>1. call' = [q \in Callers |-> IF q = r THEN o ELSE call[q]]
      BY <1>2, <2>4 DEF FeedbackRead, Start, Typed
    <3>2. call[r].do = "idle"
      BY <2>1 DEF NoCall
    <3>3. ASSUME NEW l \in Links
          PROVE  Admitting(l)' = Admitting(l) /\ Noting(l)' \subseteq Callers /\ (l # s[1] => Noting(l)' = Noting(l))
      <4>1. Noting(l)' \subseteq Callers
        BY DEF Noting
      <4>2. Admitting(l)' = Admitting(l)
        BY <3>1, <3>2 DEF Admitting
      <4>3. l # s[1] => Noting(l)' = Noting(l)
        BY <3>1, <3>2 DEF Noting
      <4>. QED BY <4>1, <4>2, <4>3
    <3>4. ASSUME NEW l \in Links
          PROVE  Cardinality(NotesOn(l)') + Cardinality(Noting(l)') < MaxNotes + Cardinality(Callers)
      <4>1. CASE l # s[1]
        BY <2>2, <3>3, <4>1
      <4>2. CASE l = s[1]
        BY <2>2, <2>4, <3>3, <4>2, <1>0, Sizes, SumGrows
      <4>. QED BY <4>1, <4>2
    <3>. QED BY <2>2, <3>3, <3>4
  <2>. QED BY <2>3, <2>4
<1>3. ASSUME NEW r \in Callers, Admit(r)
      PROVE  CapsKept'
  <2>0. call[r] \in Playing /\ call[r].sid \in Sids /\ call[r].do = "admit"
    BY <1>3 DEF Admit, Typed, Tasked, NoCall, Inserting, Playing
  <2>1. PICK o : o.do \notin {"admit", "note"} /\ call' = [call EXCEPT ![r] = o]
    <3>1. [call[r] EXCEPT !.do = "count"].do = "count" /\ NoCall.do = "idle"
      BY <2>0 DEF Playing, NoCall
    <3>2. CASE Allows("session", call[r].sid[1])
      <4>. WITNESS [call[r] EXCEPT !.do = "count"]
      <4>. QED BY <1>3, <3>1, <3>2 DEF Admit
    <3>3. CASE ~Allows("session", call[r].sid[1])
      <4>. WITNESS NoCall
      <4>. QED BY <1>3, <3>1, <3>3 DEF Admit
    <3>. QED BY <3>2, <3>3
  <2>2. live' = live \cup {call[r].sid} /\ notes' = notes
    BY <1>3 DEF Admit
  <2>3. ASSUME NEW l \in Links
        PROVE  /\ Cardinality(LiveOn(l)') + Cardinality(Admitting(l)') < Cap + Cardinality(Callers)
               /\ Cardinality(NotesOn(l)') + Cardinality(Noting(l)') < MaxNotes + Cardinality(Callers)
    <3>1. Admitting(l)' \subseteq Admitting(l) \ {r} /\ Noting(l)' \subseteq Noting(l) \ {r}
      BY <2>1, PlacesFrame
    <3>2. NotesOn(l)' = NotesOn(l)
      BY <2>2 DEF NotesOn
    <3>3. Cardinality(NotesOn(l)') + Cardinality(Noting(l)') < MaxNotes + Cardinality(Callers)
      BY <3>1, <3>2, Sizes, SumShrinks
    <3>4. CASE l # call[r].sid[1]
      <4>1. LiveOn(l)' = LiveOn(l)
        BY <2>2, <3>4 DEF LiveOn
      <4>. QED BY <3>1, <3>3, <4>1, Sizes, SumShrinks
    <3>5. CASE l = call[r].sid[1]
      <4>1. LiveOn(l)' \subseteq LiveOn(l) \cup {call[r].sid}
        BY <2>2 DEF LiveOn
      <4>2. r \in Admitting(l)
        BY <2>0, <3>5 DEF Admitting
      <4>3. Cardinality(LiveOn(l)') + Cardinality(Admitting(l)') < Cap + Cardinality(Callers)
        BY <3>1, <4>1, <4>2, Sizes, SumMoves
      <4>. QED BY <3>3, <4>3
    <3>. QED BY <3>4, <3>5
  <2>. QED BY <2>3
<1>4. ASSUME NEW r \in Callers, FeedbackStore(r)
      PROVE  CapsKept'
  <2>1. call' = [call EXCEPT ![r] = NoCall] /\ NoCall.do \notin {"admit", "note"} /\ live' = live /\ call[r].do = "note"
    BY <1>4 DEF FeedbackStore, Reply, RuntimeSame, NoCall
  <2>2. PICK n : n.link = call[r].link /\ notes' \subseteq notes \cup {n}
    BY <1>4 DEF FeedbackStore
  <2>3. ASSUME NEW l \in Links
        PROVE  /\ Cardinality(LiveOn(l)') + Cardinality(Admitting(l)') < Cap + Cardinality(Callers)
               /\ Cardinality(NotesOn(l)') + Cardinality(Noting(l)') < MaxNotes + Cardinality(Callers)
    <3>1. Admitting(l)' \subseteq Admitting(l) \ {r} /\ Noting(l)' \subseteq Noting(l) \ {r}
      BY <2>1, PlacesFrame
    <3>2. LiveOn(l)' = LiveOn(l)
      BY <2>1 DEF LiveOn
    <3>3. Cardinality(LiveOn(l)') + Cardinality(Admitting(l)') < Cap + Cardinality(Callers)
      BY <3>1, <3>2, Sizes, SumShrinks
    <3>4. CASE l # call[r].link
      <4>1. NotesOn(l)' \subseteq NotesOn(l)
        BY <2>2, <3>4 DEF NotesOn
      <4>. QED BY <3>1, <3>3, <4>1, Sizes, SumShrinks
    <3>5. CASE l = call[r].link
      <4>1. NotesOn(l)' \subseteq NotesOn(l) \cup {n}
        BY <2>2 DEF NotesOn
      <4>2. r \in Noting(l)
        BY <2>1, <3>5 DEF Noting
      <4>3. Cardinality(NotesOn(l)') + Cardinality(Noting(l)') < MaxNotes + Cardinality(Callers)
        BY <3>1, <4>1, <4>2, Sizes, SumMoves
      <4>. QED BY <3>3, <4>3
    <3>. QED BY <3>4, <3>5
  <2>. QED BY <2>3
<1>5. ASSUME NEW r \in Callers, NEW o, call' = [call EXCEPT ![r] = o], o.do \notin {"admit", "note"},
             live' = live, notes' = notes
      PROVE  CapsKept'
  <2>1. \A l \in Links : Admitting(l)' \subseteq Admitting(l) /\ Noting(l)' \subseteq Noting(l)
    BY <1>5, PlacesFrame
  <2>2. \A l \in Links : LiveOn(l)' = LiveOn(l) /\ NotesOn(l)' = NotesOn(l)
    BY <1>5 DEF LiveOn, NotesOn
  <2>. QED BY <2>1, <2>2, CapsFrame
<1>6. ASSUME NEW r \in Callers, CountSession(r)
      PROVE  CapsKept'
  <2>1. call[r] \in Playing
    BY <1>6 DEF CountSession, Typed, Tasked, NoCall, Inserting
  <2>2. [call[r] EXCEPT !.do = "forward"].do = "forward"
    BY <2>1 DEF Playing
  <2>3. call' = [call EXCEPT ![r] = [call[r] EXCEPT !.do = "forward"]] /\ live' = live /\ notes' = notes
    BY <1>6 DEF CountSession, Goes
  <2>. QED BY <2>2, <2>3, <1>5
<1>7. ASSUME NEW r \in Callers, AccountPlay(r)
      PROVE  CapsKept'
  BY <1>5, <1>7 DEF AccountPlay, Reply, NoCall
<1>8. ASSUME NEW r \in Callers, NEW play \in BOOLEAN, Forward(r, play)
      PROVE  CapsKept'
  <2>1. call' = [call EXCEPT ![r] = NoCall]
        \/ call' = [call EXCEPT ![r] = [do |-> "account", sid |-> call[r].sid, rev |-> Serves(call[r].sid[1])]]
    BY <1>8 DEF Forward
  <2>2. live' = live /\ notes' = notes
    BY <1>8 DEF Forward, RuntimeSame
  <2>3. NoCall.do = "idle"
    BY DEF NoCall
  <2>4. [do |-> "account", sid |-> call[r].sid, rev |-> Serves(call[r].sid[1])].do = "account"
    OBVIOUS
  <2>. QED BY <2>1, <2>2, <2>3, <2>4, <1>5
<1>9. CASE Restart
  <2>1. \A l \in Links : Admitting(l)' = {} /\ Noting(l)' = {}
    BY <1>9 DEF Restart, Admitting, Noting, NoCall
  <2>2. \A l \in Links : LiveOn(l)' = {} /\ NotesOn(l)' = NotesOn(l)
    BY <1>9 DEF Restart, NewRuntime, LiveOn, NotesOn
  <2>. QED BY <2>1, <2>2, CapsFrame
<1>10. ASSUME live' \subseteq live, UNCHANGED <<call, notes>>
       PROVE  CapsKept'
  BY <1>10, CapsFrame DEF LiveOn, NotesOn, Admitting, Noting
<1>. QED
  BY <1>1, <1>2, <1>3, <1>4, <1>6, <1>7, <1>8, <1>9, <1>10 DEF VisitorStep, SessionLapses, Unlock, WindowPasses

-----------------------------------------------------------------------------
(* Sessions and their count *)

(* What a step must leave alone for the sessions' count. *)
LEMMA CountsFrame ==
  ASSUME CountsKept, live' = live, counts' = counts, odd \subseteq odd',
         \A s \in Sids, q \in Callers : /\ At(q, "count", s)' <=> At(q, "count", s)
                                        /\ s \in live => (At(q, "admit", s)' => At(q, "admit", s))
  PROVE  CountsKept'
<1>1. \A s \in Sids : Counting(s)' <=> Counting(s)
  BY DEF Counting, At
<1>2. ASSUME NEW s \in Sids \ odd', s \notin live'
      PROVE  counts'[s] = 0 /\ ~Counting(s)'
  BY <1>1, <1>2 DEF CountsKept
<1>3. ASSUME NEW s \in Sids \ odd', s \in live'
      PROVE  /\ \A r \in Callers : ~At(r, "admit", s)'
             /\ \A q, r \in Callers : At(q, "count", s)' /\ At(r, "count", s)' => q = r
             /\ counts'[s] = IF Counting(s)' THEN 0 ELSE 1
  <2>1. s \in Sids \ odd /\ s \in live
    BY <1>3
  <2>2. /\ \A r \in Callers : ~At(r, "admit", s)
        /\ \A q, r \in Callers : At(q, "count", s) /\ At(r, "count", s) => q = r
        /\ counts[s] = IF Counting(s) THEN 0 ELSE 1
    BY <2>1 DEF CountsKept
  <2>3. \A r \in Callers : ~At(r, "admit", s)'
    BY <2>1, <2>2
  <2>4. \A q, r \in Callers : At(q, "count", s)' /\ At(r, "count", s)' => q = r
    BY <2>1, <2>2
  <2>5. counts'[s] = IF Counting(s)' THEN 0 ELSE 1
    BY <1>1, <2>1, <2>2
  <2>. QED BY <2>3, <2>4, <2>5
<1>. QED BY <1>2, <1>3 DEF CountsKept

(* A request's step that is no admission and no count, nor becomes one. *)
LEMMA StepsAside ==
  ASSUME Typed, NEW r \in Callers, NEW o, call' = [call EXCEPT ![r] = o],
         call[r].do \notin {"admit", "count"}, o.do \notin {"admit", "count"}
  PROVE  \A s \in Sids, q \in Callers : (At(q, "count", s)' <=> At(q, "count", s))
                                     /\ (At(q, "admit", s)' <=> At(q, "admit", s))
  BY DEF Typed, At

LEMMA OwnerCounts == ASSUME Typed, CountsKept, OwnerStep PROVE CountsKept'
<1>1. ASSUME NEW r \in Callers, NEW o \in Orders, CreateRead(r, o)
      PROVE  CountsKept'
  <2>1. PICK b \in BOOLEAN : call' = [call EXCEPT ![r] = [do |-> "insert", order |-> o,
                                     expires |-> PlanExpiry(o.days), alone |-> b]]
    BY <1>1 DEF CreateRead, Start
  <2>2. call[r].do = "idle"
    BY <1>1 DEF CreateRead, Start, NoCall
  <2>3. live' = live /\ counts' = counts /\ odd' = odd
    BY <1>1 DEF CreateRead, RuntimeSame
  <2>4. [do |-> "insert", order |-> o, expires |-> PlanExpiry(o.days), alone |-> b].do = "insert"
    OBVIOUS
  <2>5. \A s \in Sids, q \in Callers : (At(q, "count", s)' <=> At(q, "count", s))
                                    /\ (At(q, "admit", s)' <=> At(q, "admit", s))
    BY <2>1, <2>2, <2>4, StepsAside
  <2>. QED BY <2>3, <2>5, CountsFrame
<1>2. ASSUME NEW r \in Callers, NEW l \in Links, CreateInsert(r, l) \/ CreateConflicts(r, l)
      PROVE  CountsKept'
  <2>1. call' = [call EXCEPT ![r] = NoCall] /\ call[r].do = "insert" /\ NoCall.do = "idle"
    BY <1>2 DEF CreateInsert, CreateConflicts, Reply, NoCall
  <2>2. live' = live /\ counts' = counts /\ odd' = odd
    BY <1>2 DEF CreateInsert, CreateConflicts, RuntimeSame
  <2>3. \A s \in Sids, q \in Callers : (At(q, "count", s)' <=> At(q, "count", s))
                                    /\ (At(q, "admit", s)' <=> At(q, "admit", s))
    BY <2>1, StepsAside
  <2>. QED BY <2>2, <2>3, CountsFrame
<1>3. CASE DayPasses
  <2>1. live' = {} /\ counts' = [s \in Sids |-> 0] /\ call' = call
    BY <1>3 DEF DayPasses
  <2>2. ASSUME NEW s \in Sids \ odd'
        PROVE  ~Counting(s)'
    BY <1>3, <2>1 DEF DayPasses, Counting
  <2>. QED BY <2>1, <2>2 DEF CountsKept
<1>4. ASSUME UNCHANGED <<call, live, counts, odd>>
      PROVE  CountsKept'
  BY <1>4, CountsFrame DEF At
<1>. QED BY <1>1, <1>2, <1>3, <1>4
         DEF OwnerStep, UpdateShare, DeleteShare, DeleteFeedback, Push, PlanChanges, RuntimeSame

LEMMA VisitorCounts == ASSUME Typed, CountsKept, VisitorStep PROVE CountsKept'
<1>1. ASSUME NEW r \in Callers, NEW s \in Sids, Wallet(r, s)
      PROVE  CountsKept'
  <2>. DEFINE o == [do |-> Noted(s), sid |-> s]
  <2>1. call[r].do = "idle" /\ call' = [q \in Callers |-> IF q = r THEN o ELSE call[q]]
    BY <1>1 DEF Wallet, Start, NoCall, Typed
  <2>2. live' = live /\ counts' = counts /\ odd' = odd
    BY <1>1 DEF Wallet
  <2>3. o.do = (IF s \in live THEN "forward" ELSE "admit") /\ o.sid = s
    BY DEF Noted
  <2>4. ASSUME NEW x \in Sids, NEW q \in Callers
        PROVE  /\ At(q, "count", x)' <=> At(q, "count", x)
               /\ x \in live => (At(q, "admit", x)' => At(q, "admit", x))
    BY <2>1, <2>3 DEF At
  <2>. QED BY <2>2, <2>4, CountsFrame
<1>2. ASSUME NEW r \in Callers, NEW s \in Sids, FeedbackRead(r, s)
      PROVE  CountsKept'
  <2>. DEFINE o == [do |-> "note", link |-> s[1], stamp |-> Serves(s[1]), played |-> LastRound(s)]
  <2>1. call[r].do = "idle" /\ o.do = "note" /\ (call' = call \/ call' = [call EXCEPT ![r] = o])
    BY <1>2 DEF FeedbackRead, Start, NoCall
  <2>2. live' = live /\ counts' = counts /\ odd' = odd
    BY <1>2 DEF FeedbackRead
  <2>3. CASE call' = call
    BY <2>2, <2>3, CountsFrame DEF At
  <2>4. CASE call' = [call EXCEPT ![r] = o]
    <3>1. \A x \in Sids, q \in Callers : (At(q, "count", x)' <=> At(q, "count", x))
                                      /\ (At(q, "admit", x)' <=> At(q, "admit", x))
      BY <2>1, <2>4, StepsAside
    <3>. QED BY <2>2, <3>1, CountsFrame
  <2>. QED BY <2>1, <2>3, <2>4
<1>3. ASSUME NEW r \in Callers, Admit(r)
      PROVE  CountsKept'
  <2>. DEFINE s == call[r].sid
  <2>1. call[r] \in Playing /\ s \in Sids /\ At(r, "admit", s)
    BY <1>3 DEF Admit, Typed, Tasked, NoCall, Inserting, Playing, At
  <2>2. live' = live \cup {s} /\ counts' = counts /\ odd \subseteq odd'
    BY <1>3 DEF Admit
  <2>3. Allows("session", s[1]) \/ s \in odd'
    BY <1>3 DEF Admit
  <2>4. Sharing(r, s) => s \in odd'
    BY <1>3 DEF Admit
  <2>5. PICK o : /\ call' = [q \in Callers |-> IF q = r THEN o ELSE call[q]]
                 /\ o.do = (IF Allows("session", s[1]) THEN "count" ELSE "idle")
                 /\ o.do = "count" => o.sid = s
    <3>1. CASE Allows("session", s[1])
      <4>1. [call[r] EXCEPT !.do = "count"].do = "count" /\ [call[r] EXCEPT !.do = "count"].sid = s
        BY <2>1 DEF Playing
      <4>. WITNESS [call[r] EXCEPT !.do = "count"]
      <4>. QED BY <1>3, <3>1, <4>1 DEF Admit, Typed
    <3>2. CASE ~Allows("session", s[1])
      <4>. WITNESS NoCall
      <4>. QED BY <1>3, <3>2 DEF Admit, Typed, NoCall
    <3>. QED BY <3>1, <3>2
  <2>6. ASSUME NEW x \in Sids \ odd'
        PROVE  /\ x \notin live' => counts'[x] = 0 /\ ~Counting(x)'
               /\ x \in live' =>
                    /\ \A q \in Callers : ~At(q, "admit", x)'
                    /\ \A p, q \in Callers : At(p, "count", x)' /\ At(q, "count", x)' => p = q
                    /\ counts'[x] = IF Counting(x)' THEN 0 ELSE 1
    <3>1. CASE x # s
      <4>1. \A q \in Callers : (At(q, "count", x)' <=> At(q, "count", x))
                            /\ (At(q, "admit", x)' => At(q, "admit", x))
        BY <2>1, <2>5, <3>1 DEF At
      <4>2. Counting(x)' <=> Counting(x)
        BY <4>1 DEF Counting, At
      <4>3. x \in Sids \ odd /\ (x \in live' <=> x \in live)
        BY <2>2, <3>1
      <4>. QED BY <2>2, <4>1, <4>2, <4>3 DEF CountsKept
    <3>2. CASE x = s
      <4>1. Allows("session", s[1]) /\ ~Sharing(r, s) /\ x \in Sids \ odd
        BY <2>2, <2>3, <2>4, <3>2
      <4>2. s \notin live
        BY <2>1, <3>2, <4>1 DEF CountsKept
      <4>3. counts[s] = 0
        BY <3>2, <4>1, <4>2 DEF CountsKept
      <4>4. \A q \in Callers \ {r} : ~At(q, "admit", s) /\ ~At(q, "count", s)
        BY <4>1 DEF Sharing, At
      <4>5. \A q \in Callers \ {r} : ~At(q, "admit", x)' /\ ~At(q, "count", x)'
        BY <2>5, <3>2, <4>4 DEF At
      <4>6. ~At(r, "admit", x)' /\ At(r, "count", x)'
        BY <2>5, <3>2, <4>1 DEF At
      <4>7. Counting(x)'
        BY <4>6 DEF Counting, At
      <4>8. \A q \in Callers : ~At(q, "admit", x)'
        BY <4>5, <4>6
      <4>9. \A p, q \in Callers : At(p, "count", x)' /\ At(q, "count", x)' => p = q
        BY <4>5
      <4>. QED BY <2>2, <3>2, <4>3, <4>7, <4>8, <4>9
    <3>. QED BY <3>1, <3>2
  <2>. QED BY <2>6 DEF CountsKept
<1>4. ASSUME NEW r \in Callers, CountSession(r)
      PROVE  CountsKept'
  <2>. DEFINE s == call[r].sid
  <2>1. call[r] \in Playing /\ s \in Sids /\ At(r, "count", s)
    BY <1>4 DEF CountSession, Typed, Tasked, NoCall, Inserting, Playing, At
  <2>2. live' = live /\ odd' = odd /\ counts' = [counts EXCEPT ![s] = @ + 1]
    BY <1>4 DEF CountSession
  <2>3. [call[r] EXCEPT !.do = "forward"].do = "forward"
    BY <2>1 DEF Playing
  <2>4. call' = [q \in Callers |-> IF q = r THEN [call[r] EXCEPT !.do = "forward"] ELSE call[q]]
    BY <1>4 DEF CountSession, Goes, Typed
  <2>5. ASSUME NEW x \in Sids \ odd'
        PROVE  /\ x \notin live' => counts'[x] = 0 /\ ~Counting(x)'
               /\ x \in live' =>
                    /\ \A q \in Callers : ~At(q, "admit", x)'
                    /\ \A p, q \in Callers : At(p, "count", x)' /\ At(q, "count", x)' => p = q
                    /\ counts'[x] = IF Counting(x)' THEN 0 ELSE 1
    <3>1. CASE x # s
      <4>1. \A q \in Callers : (At(q, "count", x)' <=> At(q, "count", x))
                            /\ (At(q, "admit", x)' => At(q, "admit", x))
        BY <2>1, <2>3, <2>4, <3>1 DEF At
      <4>2. Counting(x)' <=> Counting(x)
        BY <4>1 DEF Counting, At
      <4>3. counts'[x] = counts[x]
        BY <2>2, <3>1 DEF Typed
      <4>. QED BY <2>2, <4>1, <4>2, <4>3 DEF CountsKept
    <3>2. CASE x = s
      <4>1. Counting(s) /\ x \in Sids \ odd
        BY <2>1, <2>2, <3>2 DEF Counting, At
      <4>2. s \in live
        BY <3>2, <4>1 DEF CountsKept
      <4>3. /\ \A q \in Callers : ~At(q, "admit", s)
            /\ \A q \in Callers : At(q, "count", s) => q = r
            /\ counts[s] = 0
        BY <2>1, <3>2, <4>1, <4>2 DEF CountsKept
      <4>4. \A q \in Callers : ~At(q, "admit", x)' /\ ~At(q, "count", x)'
        BY <2>3, <2>4, <3>2, <4>3 DEF At
      <4>5. ~Counting(x)'
        BY <4>4 DEF Counting, At
      <4>6. counts'[s] = 1
        BY <2>1, <2>2, <4>3 DEF Typed
      <4>. QED BY <2>2, <3>2, <4>2, <4>4, <4>5, <4>6
    <3>. QED BY <3>1, <3>2
  <2>. QED BY <2>5 DEF CountsKept
<1>5. ASSUME NEW r \in Callers, NEW o, call' = [call EXCEPT ![r] = o], call[r].do \notin {"admit", "count"},
             o.do \notin {"admit", "count"}, UNCHANGED <<live, counts, odd>>
      PROVE  CountsKept'
  <2>1. \A x \in Sids, q \in Callers : (At(q, "count", x)' <=> At(q, "count", x))
                                    /\ (At(q, "admit", x)' <=> At(q, "admit", x))
    BY <1>5, StepsAside
  <2>. QED BY <1>5, <2>1, CountsFrame
<1>6. ASSUME NEW r \in Callers, AccountPlay(r) \/ FeedbackStore(r)
      PROVE  CountsKept'
  <2>1. call' = [call EXCEPT ![r] = NoCall] /\ call[r].do \in {"account", "note"} /\ NoCall.do = "idle"
        /\ UNCHANGED <<live, counts, odd>>
    BY <1>6 DEF AccountPlay, FeedbackStore, Reply, NoCall, RuntimeSame
  <2>. QED BY <2>1, <1>5
<1>7. ASSUME NEW r \in Callers, NEW play \in BOOLEAN, Forward(r, play)
      PROVE  CountsKept'
  <2>1. call' = [call EXCEPT ![r] = NoCall]
        \/ call' = [call EXCEPT ![r] = [do |-> "account", sid |-> call[r].sid, rev |-> Serves(call[r].sid[1])]]
    BY <1>7 DEF Forward
  <2>2. call[r].do = "forward" /\ UNCHANGED <<live, counts, odd>> /\ NoCall.do = "idle"
    BY <1>7 DEF Forward, RuntimeSame, NoCall
  <2>3. [do |-> "account", sid |-> call[r].sid, rev |-> Serves(call[r].sid[1])].do = "account"
    OBVIOUS
  <2>. QED BY <2>1, <2>2, <2>3, <1>5
<1>8. ASSUME NEW s \in Sids, SessionLapses(s)
      PROVE  CountsKept'
  <2>1. live' = live \ {s} /\ counts' = [counts EXCEPT ![s] = 0] /\ call' = call
    BY <1>8 DEF SessionLapses
  <2>2. s \notin odd' => ~Counting(s)
    BY <1>8 DEF SessionLapses, Counting
  <2>3. odd \ {s} \subseteq odd'
    BY <1>8 DEF SessionLapses
  <2>4. ASSUME NEW x \in Sids \ odd'
        PROVE  /\ x \notin live' => counts'[x] = 0 /\ ~Counting(x)'
               /\ x \in live' =>
                    /\ \A q \in Callers : ~At(q, "admit", x)'
                    /\ \A p, q \in Callers : At(p, "count", x)' /\ At(q, "count", x)' => p = q
                    /\ counts'[x] = IF Counting(x)' THEN 0 ELSE 1
    <3>0. /\ Counting(x)' <=> Counting(x)
          /\ \A q \in Callers : (At(q, "admit", x)' <=> At(q, "admit", x)) /\ (At(q, "count", x)' <=> At(q, "count", x))
      BY <2>1 DEF Counting, At
    <3>1. CASE x = s
      <4>1. x \notin live' /\ counts'[x] = 0
        BY <2>1, <3>1 DEF Typed
      <4>. QED BY <2>2, <3>0, <3>1, <4>1
    <3>2. CASE x # s
      <4>1. x \in Sids \ odd /\ (x \in live' <=> x \in live) /\ counts'[x] = counts[x]
        BY <2>1, <2>3, <3>2 DEF Typed
      <4>. QED BY <3>0, <4>1 DEF CountsKept
    <3>. QED BY <3>1, <3>2
  <2>. QED BY <2>4 DEF CountsKept
<1>9. CASE Restart
  <2>1. live' = {} /\ counts' = [s \in Sids |-> 0] /\ \A r \in Callers : call'[r].do = "idle"
    BY <1>9 DEF Restart, NewRuntime, NoCall
  <2>2. \A s \in Sids : ~Counting(s)'
    BY <2>1 DEF Counting
  <2>. QED BY <2>1, <2>2 DEF CountsKept
<1>10. ASSUME UNCHANGED <<call, live, counts, odd>>
       PROVE  CountsKept'
  BY <1>10, CountsFrame DEF At
<1>. QED BY <1>1, <1>2, <1>3, <1>4, <1>6, <1>7, <1>8, <1>9, <1>10 DEF VisitorStep, Unlock, WindowPasses

-----------------------------------------------------------------------------
(* The theorems *)

LEMMA InitShareInv == ASSUME ShareInit PROVE ShareInv
<1>. USE SharesAssumptions
<1>1. Rows = {} /\ live = {} /\ notes = {}
  BY DEF ShareInit, NewRuntime, Rows, NewLink
<1>2. Finite
  BY <1>1, FS_EmptySet DEF Finite
<1>3. call = [r \in Callers |-> NoCall] /\ NoCall.do = "idle"
  BY DEF ShareInit, NoCall
<1>4. QuotaKept
  <2>1. Lone = {}
    BY <1>3 DEF Lone
  <2>2. Kept = {} /\ plan \in Plans
    BY <1>1 DEF Kept, Active, ShareInit
  <2>3. Cardinality(Kept) = 0 /\ Quota[plan] \in Nat
    BY <2>2, FS_EmptySet
  <2>4. Cardinality(Kept) <= Quota[plan]
    BY <2>3
  <2>. QED BY <2>1, <2>4 DEF QuotaKept
<1>5. CapsKept
  <2>1. Cardinality(Callers) \in Nat /\ Cardinality(Callers) # 0
    BY FS_CardinalityType, FS_EmptySet
  <2>2. ASSUME NEW l \in Links
        PROVE  LiveOn(l) = {} /\ NotesOn(l) = {} /\ Admitting(l) = {} /\ Noting(l) = {}
    BY <1>1, <1>3 DEF LiveOn, NotesOn, Admitting, Noting
  <2>3. Cardinality({}) = 0
    BY FS_EmptySet
  <2>. QED BY <2>1, <2>2, <2>3 DEF CapsKept
<1>6. CountsKept
  <2>1. \A s \in Sids : counts[s] = 0 /\ ~Counting(s)
    BY <1>3 DEF ShareInit, Counting
  <2>. QED BY <1>1, <2>1 DEF CountsKept
<1>. QED BY <1>2, <1>4, <1>5, <1>6, InitTyped DEF ShareInv

LEMMA ShareInvStep == ASSUME ShareInv, [ShareNext]_shareVars PROVE ShareInv'
<1>1. CASE UNCHANGED shareVars
  BY <1>1 DEF ShareInv, shareVars, Typed, Finite, QuotaKept, CapsKept, CountsKept, Rows, Lone, Kept, Active,
              InTime, Lasting, Unbounded, Pardoned, Excused, Admitting, Noting, LiveOn, NotesOn, At, Counting
<1>2. CASE OwnerStep
  BY <1>2, TypedStep, FiniteStep, OwnerQuota, OwnerCaps, OwnerCounts DEF ShareInv, ShareNext
<1>3. CASE VisitorStep
  BY <1>3, TypedStep, FiniteStep, VisitorQuota, VisitorCaps, VisitorCounts DEF ShareInv, ShareNext
<1>. QED BY <1>1, <1>2, <1>3 DEF ShareNext

LEMMA ShareInvHolds == ShareSpec => []ShareInv
<1>1. ShareInit => ShareInv
  BY InitShareInv
<1>2. ShareInv /\ [ShareNext]_shareVars => ShareInv'
  BY ShareInvStep
<1>. QED BY <1>1, <1>2, PTL DEF ShareSpec

(* create_share's quota holds for every link but those that the code excuses:
   creations that overlapped, links a PATCH restored and links from before a
   change of plan; and sessions_count was bumped exactly once by every live
   session that the limiter let pass and that met no other first call. *)
THEOREM LinksAreSettled == ShareSpec => []LinksSettled
<1>1. ShareInv => LinksSettled
  <2>1. ShareInv => LinksWithinPlan
    BY DEF ShareInv, QuotaKept, Kept, LinksWithinPlan
  <2>2. ASSUME ShareInv, NEW s \in live
        PROVE  s \in odd \/ Counting(s) \/ counts[s] = 1
    BY <2>2 DEF ShareInv, Typed, CountsKept
  <2>. QED BY <2>1, <2>2 DEF LinksSettled, SessionsCounted
<1>. QED BY <1>1, ShareInvHolds, PTL

(* note_session and submit look first and insert later: however many requests
   do so at once, a cap is overshot by less than their number. *)
THEOREM CapsAreOvershotByFew == ShareSpec => []Overshoot
<1>1. ShareInv => Overshoot
  <2>1. ASSUME ShareInv, NEW l \in Links
        PROVE  /\ Cardinality(LiveOn(l)) < Cap + Cardinality(Callers)
               /\ Cardinality(NotesOn(l)) < MaxNotes + Cardinality(Callers)
    <3>1. /\ Cardinality(LiveOn(l)) + Cardinality(Admitting(l)) < Cap + Cardinality(Callers)
          /\ Cardinality(NotesOn(l)) + Cardinality(Noting(l)) < MaxNotes + Cardinality(Callers)
      BY <2>1 DEF ShareInv, CapsKept
    <3>2. /\ Cardinality(LiveOn(l)) \in Nat /\ Cardinality(Admitting(l)) \in Nat
          /\ Cardinality(NotesOn(l)) \in Nat /\ Cardinality(Noting(l)) \in Nat
      BY <2>1, Sizes, FS_CardinalityType DEF ShareInv
    <3>. QED BY <3>1, <3>2, Sizes, <2>1 DEF ShareInv
  <2>. QED BY <2>1 DEF Overshoot
<1>. QED BY <1>1, ShareInvHolds, PTL
===============================================================================
