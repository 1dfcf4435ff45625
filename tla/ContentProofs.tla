----------------------------- MODULE ContentProofs -----------------------------
(***************************************************************************)
(* Proofs about the content store and the game host above it, which share  *)
(* no variable.                                                            *)
(*                                                                         *)
(* Of ContentStore, for any number of requests, blobs, manifests and links *)
(* and any plan: what a row refers to is there, and no more is kept than   *)
(* the plan keeps.  The invariant has three layers.  Typed says what a     *)
(* request and its transaction look like at each step.  Serialized is what *)
(* the lock of the game row gives the pushes, however much else goes on.   *)
(* CalmInv is what a request has read and may still rely on when no other  *)
(* request has been under way, or, for most of it, when nothing has been   *)
(* removed.                                                                *)
(***************************************************************************)
EXTENDS ContentStore, GameHost, FiniteSetTheorems, WellFoundedInduction, TLAPS

RequestKinds ==
    {"none", "put", "push", "bundle", "delete_revision", "delete_bundle", "share"}

\* Requests and transactions whose ids and numbers are at most c.
Requests(c) ==
    [kind : RequestKinds, files : SUBSET Hashes, target : -1 .. c, bundle : 0 .. c,
     link : Links \union {"none"}]

Transactions(c) ==
    [number : 0 .. c, id : 0 .. c, gone : SUBSET (1 .. c), stale : SUBSET (1 .. c),
     unpin : SUBSET Links, doomed : SUBSET Hashes]

Putting == {"put_store", "put_check", "put_undo", "put_record"}
Writing == {"rev_write", "bundle_write", "commit"}

\* Which step belongs to which kind of request.
KindFits(step, kind) ==
    /\ step \in {"idle", "delete_objects"} <=> kind = "none"
    /\ step \in Putting <=> kind = "put"
    /\ step \in {"rev_lock", "rev_write"} => kind = "push"
    /\ step \in {"bundle_begin", "bundle_write"} => kind = "bundle"
    /\ step = "delete_revision" => kind = "delete_revision"
    /\ step = "delete_bundle" => kind = "delete_bundle"
    /\ step \in {"share_insert", "share_update"} <=> kind = "share"

\* What one request may look like: its step, the request, the transaction and
\* the objects left to delete.
Fits(step, r, t, d, c) ==
    /\ step \in Steps /\ r \in Requests(c) /\ t \in Transactions(c) /\ d \subseteq Hashes
    /\ KindFits(step, r.kind)
    /\ step # "delete_objects" => d = {}
    /\ step \notin Writing => t = NoTx
    /\ r.kind = "none" => r = NoRequest
    /\ r.kind = "share" => r.target >= 0 /\ r.link \in Links
    /\ r.kind # "push" => t.number = 0 /\ t.unpin = {}
    /\ r.kind \notin {"push", "bundle"} => t.id = 0
    /\ r.kind \in {"push", "delete_revision"} => t.stale = {}
    /\ r.kind \in {"bundle", "delete_bundle"} => t.gone = {}
    /\ r.kind = "push" /\ step \in Writing => t.number # 0 /\ t.id # 0
    /\ r.kind = "bundle" /\ step \in Writing => t.id # 0

Own(p) == Fits(pc[p], req[p], tx[p], todo[p], clock)

PerClient ==
    /\ pc = [p \in Clients |-> pc[p]] /\ req = [p \in Clients |-> req[p]]
    /\ tx = [p \in Clients |-> tx[p]] /\ todo = [p \in Clients |-> todo[p]]

Shared ==
    /\ objects \subseteq Hashes /\ blobs \subseteq Hashes
    /\ clock \in Nat
    /\ Numbers \subseteq 1 .. clock /\ Bundles \subseteq 1 .. clock
    /\ \A n \in Numbers : revs[n].id \in 1 .. clock /\ revs[n].files \subseteq Hashes
    /\ \A b \in Bundles : bundles[b] \subseteq Hashes
    /\ links \in [Links -> [live : BOOLEAN, rev : 0 .. clock, bundle : 0 .. clock]]
    /\ overlapped \in BOOLEAN /\ removed \in BOOLEAN /\ abandoned \subseteq Hashes
    /\ calls \in 0 .. MaxCalls

Typed == Shared /\ PerClient /\ \A p \in Clients : Own(p)

-----------------------------------------------------------------------------
(* What the lock of the game row gives the pushes. *)

Pushing(p) == req[p].kind = "push" /\ pc[p] \in {"rev_write", "commit"}

OnePusher == \A p, q \in Clients : Pushing(p) /\ Pushing(q) => p = q

NumberedNext ==
    \A p \in Clients : Pushing(p) =>
        \A n \in Numbers :
            /\ n < tx[p].number
            /\ req[p].target # NoParent => n <= req[p].target

IdsUnique ==
    /\ \A m, n \in Numbers : revs[m].id = revs[n].id => m = n
    /\ \A p \in Clients : Pushing(p) => \A n \in Numbers : revs[n].id # tx[p].id

\* The numbers that are left lie in a window as wide as the plan keeps ...
Windowed == Keep > 0 => \A m, n \in Numbers : m - n < Keep

\* ... because a push removes what would fall out of it.
PrunesEnough ==
    Keep > 0 =>
        \A p \in Clients : Pushing(p) /\ pc[p] = "commit" =>
            \A n \in Numbers : n <= tx[p].number - Keep => n \in tx[p].gone

Serialized == OnePusher /\ NumberedNext /\ IdsUnique /\ Windowed /\ PrunesEnough

-----------------------------------------------------------------------------
(* What a request may rely on while nothing interferes. *)

\* A request that is alone stays alone until another one comes in.
Solo == ~overlapped => \A p, q \in Clients : Busy(p) /\ Busy(q) => p = q

DeletesAreRemovals == \A p \in Clients : pc[p] = "delete_objects" => removed

\* What the database refers to is there.
Whole ==
    /\ blobs \subseteq objects
    /\ ContentComplete
    /\ \A l \in Links : links[l].rev \in Numbers \union {0}

\* What request p has written or read and still is there, unless it is removed.
Holds(p) ==
    /\ pc[p] \in Putting \ {"put_store"} => req[p].files \subseteq objects
    /\ req[p].kind \in {"push", "bundle"} => req[p].files \subseteq blobs
    /\ req[p].kind = "share" => req[p].target \in Numbers \union {0}

\* What request p relies on when it removes something.  The bytes it takes back
\* have no row, a revision about to be deleted is not pinned, one about to be
\* pruned will not be, and what is collected is not what is kept.
Knows(p) ==
    /\ todo[p] \intersect blobs = {}
    /\ pc[p] \in Putting => req[p].files \intersect blobs = {}
    /\ pc[p] = "delete_revision" =>
         \A n \in Numbers : revs[n].id = req[p].target => \A l \in Links : links[l].rev # n
    /\ pc[p] = "commit" =>
         /\ tx[p].doomed \intersect Referenced(req[p].files, tx[p]) = {}
         /\ \A l \in Links : links[l].rev \in tx[p].gone => l \in tx[p].unpin
         /\ req[p].kind = "bundle" => tx[p].stale = Outdated(Bundles \union {tx[p].id})

CalmInv ==
    /\ Solo /\ DeletesAreRemovals
    /\ Calm => Whole /\ \A p \in Clients : Holds(p)
    /\ ~overlapped => BundlesCapped /\ \A p \in Clients : Knows(p)

-----------------------------------------------------------------------------
(* The newest revision, and how much a window of numbers can hold. *)

LEMMA LessIsRelated ==
    ASSUME NEW y \in Nat, NEW m \in Nat, y < m
    PROVE  <<y, m>> \in OpToRel(<, Nat)
  BY DEF OpToRel

\* A bounded set of natural numbers has a largest element.
LEMMA LargestExists ==
    ASSUME NEW c \in Nat, NEW S \in SUBSET (0 .. c), S # {}
    PROVE  \E x \in S : \A y \in S : x >= y
  <1> DEFINE T == {c - x : x \in S}
  <1>1. T \subseteq Nat
    OBVIOUS
  <1>0. T # {}
    <2>1. PICK x : x \in S
      OBVIOUS
    <2>2. c - x \in T
      BY <2>1
    <2> QED
      BY <2>2
  <1>2. \E m \in T : \A y \in T : ~ (<<y, m>> \in OpToRel(<, Nat))
    BY <1>0, <1>1, NatLessThanWellFounded, WFMin
  <1>3. PICK m \in T : \A y \in T : ~ (<<y, m>> \in OpToRel(<, Nat))
    BY <1>2
  <1>4. \A y \in T : ~(y < m)
    BY <1>1, <1>3, LessIsRelated
  <1>5. PICK x \in S : m = c - x
    OBVIOUS
  <1>6. \A y \in S : x >= y
    <2> SUFFICES ASSUME NEW y \in S
                 PROVE  x >= y
      OBVIOUS
    <2>1. ~(c - y < m)
      BY <1>4
    <2> QED
      BY <1>5, <2>1
  <1> QED
    BY <1>6

\* A set of natural numbers that is not empty has a least element.
LEMMA LeastExists ==
    ASSUME NEW S \in SUBSET Nat, S # {}
    PROVE  \E x \in S : \A y \in S : x <= y
  <1>1. \E m \in S : \A y \in S : ~ (<<y, m>> \in OpToRel(<, Nat))
    BY NatLessThanWellFounded, WFMin
  <1>2. PICK m \in S : \A y \in S : ~ (<<y, m>> \in OpToRel(<, Nat))
    BY <1>1
  <1>3. \A y \in S : ~(y < m)
    BY <1>2, LessIsRelated
  <1> QED
    BY <1>3

\* The head is the largest number, 0 when there is none.
LEMMA HeadTyped ==
    ASSUME clock \in Nat, Numbers \subseteq 1 .. clock
    PROVE  /\ Head \in 0 .. clock
           /\ Head \in {0} \union Numbers
           /\ \A n \in Numbers : n <= Head
  <1> DEFINE S == {0} \union Numbers
  <1>1. S \in SUBSET (0 .. clock) /\ S # {}
    OBVIOUS
  <1>2. \E x \in S : \A y \in S : x >= y
    BY <1>1, LargestExists
  <1>3. Head \in S /\ \A y \in S : Head >= y
    BY <1>2 DEF Head, Max
  <1> QED
    BY <1>1, <1>3

\* A window of numbers holds no more than its width.
LEMMA WindowHolds ==
    ASSUME NEW S \in SUBSET Nat, NEW k \in Nat, k > 0, \A m, n \in S : m - n < k
    PROVE  IsFiniteSet(S) /\ Cardinality(S) <= k
  <1>1. CASE S = {}
    BY <1>1, FS_EmptySet
  <1>2. CASE S # {}
    <2>1. PICK a \in S : \A y \in S : a <= y
      BY <1>2, LeastExists
    <2>2. S \subseteq a .. (a + k - 1)
      BY <2>1
    <2>3. /\ IsFiniteSet(a .. (a + k - 1))
          /\ Cardinality(a .. (a + k - 1)) =
               IF a > a + k - 1 THEN 0 ELSE (a + k - 1) - a + 1
      BY FS_Interval
    <2>4. Cardinality(a .. (a + k - 1)) = k
      BY <2>3
    <2>5. IsFiniteSet(S) /\ Cardinality(S) <= Cardinality(a .. (a + k - 1))
      BY <2>2, <2>3, FS_Subset
    <2> QED
      BY <2>4, <2>5
  <1> QED
    BY <1>1, <1>2

\* A set loses all but k elements with what k others or more are above.
LEMMA NewestHold ==
    ASSUME NEW c \in Nat, NEW S \in SUBSET (0 .. c), NEW k \in Nat, k > 0
    PROVE  Cardinality(S \ {b \in S : Cardinality({x \in S : x > b}) >= k}) <= k
  <1> DEFINE T == S \ {b \in S : Cardinality({x \in S : x > b}) >= k}
  <1>1. IsFiniteSet(S)
    <2>1. IsFiniteSet(0 .. c)
      BY FS_Interval
    <2> QED
      BY <2>1, FS_Subset
  <1>2. CASE T = {}
    <2> HIDE DEF T
    <2>1. Cardinality(T) = 0
      BY <1>2, FS_EmptySet
    <2>2. Cardinality(T) <= k
      BY <2>1
    <2> QED
      BY <2>2 DEF T
  <1>3. CASE T # {}
    <2>1. T \in SUBSET Nat
      <3>1. T \subseteq S
        OBVIOUS
      <3> HIDE DEF T
      <3> QED
        BY <3>1
    <2>2. PICK a \in T : \A y \in T : a <= y
      BY <1>3, <2>1, LeastExists
    <2> DEFINE U == {x \in S : x > a}
    <2>3. IsFiniteSet(U) /\ Cardinality(U) \in Nat
      BY <1>1, FS_Subset, FS_CardinalityType
    <2>4. ~(Cardinality(U) >= k)
      BY <2>2
    <2>5. T \subseteq U \union {a}
      BY <2>1, <2>2
    <2>6. a \notin U
      BY <2>2
    <2>7. IsFiniteSet(U \union {a}) /\ Cardinality(U \union {a}) = Cardinality(U) + 1
      BY <2>3, <2>6, FS_AddElement
    <2> HIDE DEF T, U
    <2>8. IsFiniteSet(T) /\ Cardinality(T) <= Cardinality(U \union {a})
      BY <2>5, <2>7, FS_Subset
    <2>9. Cardinality(T) \in Nat
      BY <2>8, FS_CardinalityType
    <2>10. Cardinality(T) <= k
      BY <2>3, <2>4, <2>7, <2>8, <2>9
    <2> QED
      BY <2>10 DEF T
  <1> QED
    BY <1>2, <1>3

-----------------------------------------------------------------------------
(* One request moves. *)

OthersKeep(p) ==
    \A q \in Clients \ {p} :
        pc'[q] = pc[q] /\ req'[q] = req[q] /\ tx'[q] = tx[q] /\ todo'[q] = todo[q]

LEMMA TypedIsTypeOK == Typed => TypeOK
  BY DEF Typed, Shared, PerClient, Own, Fits, TypeOK, Requests, Transactions

LEMMA NothingFits ==
    ASSUME NEW c \in Nat
    PROVE  Fits("idle", NoRequest, NoTx, {}, c)
  BY DEF Fits, Steps, Requests, Transactions, NoRequest, NoTx, RequestKinds, KindFits, Putting, Writing

LEMMA FitsLater ==
    ASSUME NEW step, NEW r, NEW t, NEW d, NEW c \in Nat, NEW e \in Nat, c <= e,
           Fits(step, r, t, d, c)
    PROVE  Fits(step, r, t, d, e)
  <1>1. r \in Requests(e)
    BY DEF Fits, Requests
  <1>2. 1 .. c \subseteq 1 .. e /\ 0 .. c \subseteq 0 .. e
    OBVIOUS
  <1>3. t \in Transactions(e)
    BY <1>2 DEF Fits, Transactions
  <1> QED
    BY <1>1, <1>3 DEF Fits

LEMMA FinishFits ==
    ASSUME Typed, NEW p \in Clients, Finish(p), clock' = clock
    PROVE  PerClient' /\ (\A q \in Clients : Own(q)') /\ OthersKeep(p)
  <1>1. PerClient' /\ OthersKeep(p)
    BY DEF Typed, PerClient, Finish, Goto, OthersKeep
  <1>2. Own(p)'
    BY NothingFits DEF Typed, Shared, PerClient, Finish, Goto, Own
  <1>3. \A q \in Clients \ {p} : Own(q)'
    BY <1>1 DEF Typed, OthersKeep, Own
  <1> QED
    BY <1>1, <1>2, <1>3

LEMMA OthersFit ==
    ASSUME Typed, NEW p \in Clients, OthersKeep(p), clock' \in Nat, clock <= clock'
    PROVE  \A q \in Clients \ {p} : Own(q)'
  BY FitsLater DEF Typed, Shared, OthersKeep, Own

\* A request that comes in.
Incoming(r, step) ==
    /\ step \in (Steps \ Writing) \ (Putting \ {"put_store"})
    /\ step \notin {"idle", "delete_objects"}
    /\ r \in Requests(clock) /\ KindFits(step, r.kind)
    /\ r.kind = "share" => r.target >= 0 /\ r.link \in Links

LEMMA ReceiveFits ==
    ASSUME Typed, NEW p \in Clients, NEW r, NEW step,
           Incoming(r, step), Receive(p, r, step)
    PROVE  Typed' /\ OthersKeep(p)
  <1>1. PerClient' /\ OthersKeep(p)
    BY DEF Typed, PerClient, Receive, Goto, OthersKeep
  <1>2. Own(p)'
    <2>1. /\ pc'[p] = step /\ req'[p] = r /\ tx'[p] = tx[p] /\ todo'[p] = todo[p]
          /\ clock' = clock
      BY DEF Typed, PerClient, Receive, Goto
    <2>2. tx[p] = NoTx /\ todo[p] = {} /\ tx[p] \in Transactions(clock)
      BY DEF Typed, Own, Fits, Receive, Busy, Writing
    <2>3. r.kind # "none"
      BY DEF Incoming, KindFits
    <2>4. NoTx.number = 0 /\ NoTx.id = 0 /\ NoTx.gone = {} /\ NoTx.stale = {} /\ NoTx.unpin = {}
      BY DEF NoTx
    <2> QED
      BY <2>1, <2>2, <2>3, <2>4 DEF Own, Fits, Incoming
  <1>3. \A q \in Clients \ {p} : Own(q)'
    BY <1>1 DEF Typed, OthersKeep, Own, Receive
  <1>4. Shared'
    BY ContentAssumption
    DEF Typed, Shared, Receive, database, Numbers, Bundles
  <1> QED
    BY <1>1, <1>2, <1>3, <1>4 DEF Typed

LEMMA NoRequestTyped ==
    ASSUME NEW c \in Nat
    PROVE  NoRequest \in Requests(c)
  BY DEF NoRequest, Requests, RequestKinds

\* What the handler of a request has read when it goes on.
Read(r) ==
    /\ r.kind = "put" => r.files \intersect blobs = {}
    /\ r.kind \in {"push", "bundle"} => r.files \subseteq blobs
    /\ r.kind = "share" => r.target \in Numbers \union {0}
    /\ r.kind = "delete_revision" =>
         \E n \in Numbers : r.target = revs[n].id /\ \A l \in Links : links[l].rev # n

\* The requests that come in are well formed.
LEMMA ReceivesIncoming ==
    ASSUME Typed, NEW p \in Clients, Receives(p)
    PROVE  \/ \E r, step : Incoming(r, step) /\ Read(r) /\ Receive(p, r, step)
           \/ \E l \in Links : DeleteShare(p, l)
  <1>0. /\ clock \in Nat /\ Numbers \subseteq 1 .. clock /\ Bundles \subseteq 1 .. clock
        /\ \A n \in Numbers : revs[n].id \in 1 .. clock
        /\ blobs \subseteq Hashes
    BY DEF Typed, Shared
  <1>1. CASE \E h \in Hashes : PutBlob(p, h)
    <2>1. PICK h \in Hashes : PutBlob(p, h)
      BY <1>1
    <2> DEFINE r == [NoRequest EXCEPT !.kind = "put", !.files = {h}]
    <2>2. {h} \in SUBSET Hashes
      OBVIOUS
    <2>3. Receive(p, r, "put_store")
      BY <2>1 DEF PutBlob
    <2>4. r \in Requests(clock)
      BY <1>0, <2>2, NoRequestTyped DEF Requests, RequestKinds
    <2>5. r.kind = "put" /\ r.files = {h}
      BY <1>0, NoRequestTyped DEF Requests
    <2> HIDE DEF r
    <2>6. Incoming(r, "put_store")
      BY <2>4, <2>5 DEF Incoming, KindFits, Steps, Writing, Putting
    <2>7. Read(r)
      BY <2>1, <2>5 DEF Read, PutBlob
    <2> QED
      BY <2>3, <2>6, <2>7
  <1>2. CASE \E files \in Manifests, parent \in {NoParent, Head} :
                CreateRevision(p, files, parent)
    <2>1. PICK files \in Manifests, parent \in {NoParent, Head} :
                CreateRevision(p, files, parent)
      BY <1>2
    <2> DEFINE r == [NoRequest EXCEPT !.kind = "push", !.files = files, !.target = parent]
    <2>2. parent \in -1 .. clock /\ files \in SUBSET Hashes
      BY <1>0, <2>1, HeadTyped DEF NoParent, CreateRevision
    <2>3. Receive(p, r, "rev_lock")
      BY <2>1 DEF CreateRevision
    <2>4. r \in Requests(clock)
      BY <1>0, <2>2, NoRequestTyped DEF Requests, RequestKinds
    <2>5. r.kind = "push" /\ r.files = files
      BY <1>0, NoRequestTyped DEF Requests
    <2> HIDE DEF r
    <2>6. Incoming(r, "rev_lock")
      BY <2>4, <2>5 DEF Incoming, KindFits, Steps, Writing, Putting
    <2>7. Read(r)
      BY <2>1, <2>5 DEF Read, CreateRevision
    <2> QED
      BY <2>3, <2>6, <2>7
  <1>3. CASE \E files \in Manifests : CreateFrontBundle(p, files)
    <2>1. PICK files \in Manifests : CreateFrontBundle(p, files)
      BY <1>3
    <2> DEFINE r == [NoRequest EXCEPT !.kind = "bundle", !.files = files]
    <2>2. files \in SUBSET Hashes
      BY <1>0, <2>1 DEF CreateFrontBundle
    <2>3. Receive(p, r, "bundle_begin")
      BY <2>1 DEF CreateFrontBundle
    <2>4. r \in Requests(clock)
      BY <1>0, <2>2, NoRequestTyped DEF Requests, RequestKinds
    <2>5. r.kind = "bundle" /\ r.files = files
      BY <1>0, NoRequestTyped DEF Requests
    <2> HIDE DEF r
    <2>6. Incoming(r, "bundle_begin")
      BY <2>4, <2>5 DEF Incoming, KindFits, Steps, Writing, Putting
    <2>7. Read(r)
      BY <2>1, <2>5 DEF Read, CreateFrontBundle
    <2> QED
      BY <2>3, <2>6, <2>7
  <1>4. CASE \E n \in Numbers : DeleteRevision(p, n)
    <2>1. PICK n \in Numbers : DeleteRevision(p, n)
      BY <1>4
    <2> DEFINE r == [NoRequest EXCEPT !.kind = "delete_revision", !.target = revs[n].id]
    <2>2. revs[n].id \in -1 .. clock
      BY <1>0
    <2>3. Receive(p, r, "delete_revision")
      BY <2>1 DEF DeleteRevision
    <2>4. r \in Requests(clock)
      BY <1>0, <2>2, NoRequestTyped DEF Requests, RequestKinds
    <2>5. r.kind = "delete_revision" /\ r.target = revs[n].id
      BY <1>0, NoRequestTyped DEF Requests
    <2> HIDE DEF r
    <2>6. Incoming(r, "delete_revision")
      BY <2>4, <2>5 DEF Incoming, KindFits, Steps, Writing, Putting
    <2>7. Read(r)
      BY <2>1, <2>5 DEF Read, DeleteRevision
    <2> QED
      BY <2>3, <2>6, <2>7
  <1>5. CASE \E b \in Bundles : DeleteFrontBundle(p, b)
    <2>1. PICK b \in Bundles : DeleteFrontBundle(p, b)
      BY <1>5
    <2> DEFINE r == [NoRequest EXCEPT !.kind = "delete_bundle", !.bundle = b]
    <2>2. b \in 0 .. clock
      BY <1>0
    <2>3. Receive(p, r, "delete_bundle")
      BY <2>1 DEF DeleteFrontBundle
    <2>4. r \in Requests(clock)
      BY <1>0, <2>2, NoRequestTyped DEF Requests, RequestKinds
    <2>5. r.kind = "delete_bundle"
      BY <1>0, NoRequestTyped DEF Requests
    <2> HIDE DEF r
    <2>6. Incoming(r, "delete_bundle")
      BY <2>4, <2>5 DEF Incoming, KindFits, Steps, Writing, Putting
    <2>7. Read(r)
      BY <2>1, <2>5 DEF Read, DeleteFrontBundle
    <2> QED
      BY <2>3, <2>6, <2>7
  <1>6. CASE \E l \in Links, rev \in 0 .. clock, bundle \in {0} \union Bundles :
                CreateShare(p, l, rev, bundle) \/ UpdateShare(p, l, rev, bundle)
    <2>1. PICK l \in Links, rev \in 0 .. clock, bundle \in {0} \union Bundles :
                CreateShare(p, l, rev, bundle) \/ UpdateShare(p, l, rev, bundle)
      BY <1>6
    <2> DEFINE r == [NoRequest EXCEPT !.kind = "share", !.link = l, !.target = rev,
                                      !.bundle = bundle]
    <2>2. rev \in -1 .. clock /\ bundle \in 0 .. clock
      BY <1>0
    <2>3. Receive(p, r, "share_insert") \/ Receive(p, r, "share_update")
      BY <2>1 DEF CreateShare, UpdateShare
    <2>4. r \in Requests(clock)
      BY <1>0, <2>2, NoRequestTyped DEF Requests, RequestKinds
    <2>5. r.kind = "share" /\ r.target = rev /\ r.target >= 0 /\ r.link \in Links
      BY <1>0, NoRequestTyped DEF Requests
    <2> HIDE DEF r
    <2>6. Incoming(r, "share_insert") /\ Incoming(r, "share_update")
      BY <2>4, <2>5 DEF Incoming, KindFits, Steps, Writing, Putting
    <2>7. Read(r)
      BY <2>1, <2>5 DEF Read, CreateShare, UpdateShare, PinsExist
    <2> QED
      BY <2>3, <2>6, <2>7
  <1>7. CASE \E l \in Links : DeleteShare(p, l)
    BY <1>7
  <1> QED
    BY <1>1, <1>2, <1>3, <1>4, <1>5, <1>6, <1>7 DEF Receives

LEMMA ReceivesTyped ==
    ASSUME Typed, NEW p \in Clients, Receives(p)
    PROVE  Typed' /\ OthersKeep(p)
  <1>1. CASE \E r, step : Incoming(r, step) /\ Read(r) /\ Receive(p, r, step)
    BY <1>1, ReceiveFits
  <1>2. CASE \E l \in Links : DeleteShare(p, l)
    <2>1. PICK l \in Links : DeleteShare(p, l)
      BY <1>2
    <2>2. OthersKeep(p) /\ PerClient' /\ \A q \in Clients : Own(q)'
      BY <2>1 DEF DeleteShare, request, OthersKeep, Typed, PerClient, Own
    <2>3. Shared'
      BY <2>1, ContentAssumption DEF DeleteShare, Typed, Shared, NoLink, Numbers, Bundles
    <2> QED
      BY <2>2, <2>3 DEF Typed
  <1> QED
    BY <1>1, <1>2, ReceivesIncoming

\* A transaction that writes is typed as one whose objects are not yet chosen.
LEMMA WriteFits ==
    ASSUME Typed, NEW p \in Clients, NEW t, NEW collects \in BOOLEAN,
           Write(p, t, collects), Fits("commit", req[p], t, {}, clock), todo[p] = {}
    PROVE  Typed' /\ OthersKeep(p)
  <1> DEFINE w == [t EXCEPT !.doomed = IF collects THEN Orphans(req[p].files, t) ELSE {}]
  <1>1. tx' = [tx EXCEPT ![p] = w] /\ pc' = [pc EXCEPT ![p] = "commit"]
        /\ UNCHANGED <<objects, database, clock, req, todo, history>>
    BY DEF Write, Goto
  <1>2. PerClient' /\ OthersKeep(p)
    BY <1>1 DEF Typed, PerClient, OthersKeep
  <1>3. Shared'
    BY <1>1 DEF Typed, Shared, database, history, Numbers, Bundles
  <1>4. \A q \in Clients \ {p} : Own(q)'
    BY <1>1, <1>2 DEF Typed, OthersKeep, Own
  <1>5. Own(p)'
    <2>1. t \in Transactions(clock)
      BY DEF Fits
    <2>2. Orphans(req[p].files, t) \in SUBSET Hashes
      BY DEF Typed, Shared, Orphans
    <2>3. w \in Transactions(clock)
      BY <2>1, <2>2 DEF Transactions
    <2>4. /\ w.number = t.number /\ w.id = t.id /\ w.unpin = t.unpin
          /\ w.gone = t.gone /\ w.stale = t.stale
      BY <2>1 DEF Transactions
    <2> HIDE DEF w
    <2>5. /\ pc'[p] = "commit" /\ req'[p] = req[p] /\ tx'[p] = w /\ todo'[p] = {}
          /\ clock' = clock
      BY <1>1 DEF Typed, PerClient
    <2>6. Fits("commit", req[p], w, {}, clock)
      BY <2>3, <2>4 DEF Fits, Writing
    <2> QED
      BY <2>5, <2>6 DEF Own
  <1> QED
    BY <1>2, <1>3, <1>4, <1>5 DEF Typed

\* What a request does to its own step alone.
LEMMA GotoFits ==
    ASSUME Typed, NEW p \in Clients, NEW step, step \in Steps \ Writing,
           pc[p] \notin Writing, step # "delete_objects", pc[p] # "delete_objects",
           Goto(p, step), KindFits(step, req[p].kind),
           UNCHANGED <<request, clock>>
    PROVE  PerClient' /\ (\A q \in Clients : Own(q)') /\ OthersKeep(p)
  <1>1. PerClient' /\ OthersKeep(p)
    BY DEF Typed, PerClient, OthersKeep, Goto, request
  <1>2. \A q \in Clients \ {p} : Own(q)'
    BY <1>1 DEF Typed, OthersKeep, Own
  <1>3. /\ pc'[p] = step /\ req'[p] = req[p] /\ tx'[p] = tx[p] /\ todo'[p] = todo[p]
        /\ clock' = clock
    BY DEF Typed, PerClient, Goto, request
  <1>4. Fits(pc[p], req[p], tx[p], todo[p], clock)
    BY DEF Typed, Own
  <1>5. Fits(step, req[p], tx[p], todo[p], clock)
    BY <1>4 DEF Fits
  <1>6. Own(p)'
    BY <1>3, <1>5 DEF Own
  <1> QED
    BY <1>1, <1>2, <1>6

LEMMA PutsTyped ==
    ASSUME Typed, NEW p \in Clients,
           PutStore(p) \/ PutCheck(p) \/ PutUndo(p) \/ PutRecord(p)
    PROVE  Typed' /\ OthersKeep(p)
  <1>0. /\ Fits(pc[p], req[p], tx[p], todo[p], clock)
        /\ req[p].files \in SUBSET Hashes
    BY DEF Typed, Own, Fits, Requests
  <1>1. CASE PutStore(p)
    <2>1. Shared'
      BY <1>0, <1>1 DEF PutStore, Typed, Shared, database, history, Numbers, Bundles
    <2>2. KindFits("put_check", req[p].kind)
      BY <1>0, <1>1 DEF PutStore, Fits, KindFits, Putting
    <2> QED
      BY <1>1, <2>1, <2>2, GotoFits DEF PutStore, Typed, Steps, Writing, request
  <1>2. CASE PutCheck(p)
    <2> DEFINE step == IF Cardinality(blobs) + 1 > Quota THEN "put_undo" ELSE "put_record"
    <2>1. Shared'
      BY <1>2 DEF PutCheck, Typed, Shared, database, history, Numbers, Bundles
    <2>2. KindFits(step, req[p].kind)
      BY <1>0, <1>2 DEF PutCheck, Fits, KindFits, Putting
    <2>3. step \in Steps \ Writing /\ step # "delete_objects"
      BY DEF Steps, Writing
    <2>4. Goto(p, step) /\ UNCHANGED <<request, clock>> /\ pc[p] = "put_check"
      BY <1>2 DEF PutCheck
    <2> HIDE DEF step
    <2>5. pc[p] \notin Writing
      BY <2>4 DEF Writing
    <2> QED
      BY <2>1, <2>2, <2>3, <2>4, <2>5, GotoFits DEF Typed
  <1>3. CASE PutUndo(p)
    <2>1. Shared'
      BY <1>0, <1>3 DEF PutUndo, Remove, Typed, Shared, database, Numbers, Bundles
    <2>2. Finish(p) /\ clock' = clock
      BY <1>3 DEF PutUndo
    <2> QED
      BY <2>1, <2>2, FinishFits DEF Typed
  <1>4. CASE PutRecord(p)
    <2>1. Shared'
      BY <1>0, <1>4 DEF PutRecord, Typed, Shared, history, Numbers, Bundles
    <2>2. Finish(p) /\ clock' = clock
      BY <1>4 DEF PutRecord
    <2> QED
      BY <2>1, <2>2, FinishFits DEF Typed
  <1> QED
    BY <1>1, <1>2, <1>3, <1>4

LEMMA PinsTyped ==
    ASSUME Typed, NEW p \in Clients, InsertShare(p) \/ SetPins(p)
    PROVE  Typed' /\ OthersKeep(p)
  <1>1. PICK allowed : Pin(p, allowed)
    BY DEF InsertShare, SetPins
  <1>2. req[p].kind = "share"
    BY DEF InsertShare, SetPins, Typed, Own, Fits, KindFits
  <1>3. req[p].target \in 0 .. clock /\ req[p].bundle \in 0 .. clock /\ req[p].link \in Links
    BY <1>2 DEF Typed, Own, Fits, Requests
  <1>4. Shared'
    <2>1. links' \in [Links -> [live : BOOLEAN, rev : 0 .. clock, bundle : 0 .. clock]]
      BY <1>1, <1>3 DEF Pin, Typed, Shared
    <2> QED
      BY <1>1, <2>1 DEF Pin, Typed, Shared, history, Numbers, Bundles
  <1> QED
    BY <1>1, <1>4, FinishFits DEF Pin, Typed

LEMMA WritesTyped ==
    ASSUME Typed, NEW p \in Clients,
           \/ WriteRevision(p) \/ WriteBundle(p)
           \/ DeleteRevisionRow(p) \/ DeleteBundleRow(p)
    PROVE  Typed' /\ OthersKeep(p)
  <1>0. /\ Fits(pc[p], req[p], tx[p], todo[p], clock)
        /\ req[p] \in Requests(clock) /\ tx[p] \in Transactions(clock)
        /\ clock \in Nat /\ Numbers \subseteq 1 .. clock /\ Bundles \subseteq 1 .. clock
    BY DEF Typed, Shared, Own, Fits
  <1>00. NoTx \in Transactions(clock)
    BY <1>0 DEF NoTx, Transactions
  <1>1. CASE WriteRevision(p)
    <2> DEFINE t == [tx[p] EXCEPT !.gone = Pruned(tx[p].number),
                                  !.unpin = Unpinned(tx[p].number)]
    <2>1. pc[p] = "rev_write" /\ Write(p, t, t.gone # {})
      BY <1>1 DEF WriteRevision
    <2>2. Pruned(tx[p].number) \in SUBSET (1 .. clock)
          /\ Unpinned(tx[p].number) \in SUBSET Links
      BY <1>0 DEF Pruned, Unpinned
    <2>3. t \in Transactions(clock)
      BY <1>0, <2>2 DEF Transactions
    <2>4. t.number = tx[p].number /\ t.id = tx[p].id /\ t.stale = tx[p].stale
      BY <1>0 DEF Transactions
    <2>5. req[p].kind = "push" /\ todo[p] = {}
      BY <1>0, <2>1 DEF Fits, KindFits
    <2>6. (t.gone # {}) \in BOOLEAN
      OBVIOUS
    <2> HIDE DEF t
    <2>7. Fits("commit", req[p], t, {}, clock)
      BY <1>0, <2>1, <2>3, <2>4, <2>5 DEF Fits, KindFits, Steps, Writing, Putting
    <2> QED
      BY <2>1, <2>5, <2>6, <2>7, WriteFits
  <1>2. CASE WriteBundle(p)
    <2> DEFINE t == [tx[p] EXCEPT !.stale = Outdated(Bundles \union {tx[p].id})]
    <2>1. pc[p] = "bundle_write" /\ Write(p, t, t.stale # {})
      BY <1>2 DEF WriteBundle
    <2>2. req[p].kind = "bundle" /\ todo[p] = {}
      BY <1>0, <2>1 DEF Fits, KindFits
    <2>3. tx[p].id \in 1 .. clock
      BY <1>0, <2>1, <2>2 DEF Fits, Writing, Transactions
    <2>4. Outdated(Bundles \union {tx[p].id}) \in SUBSET (1 .. clock)
      BY <1>0, <2>3 DEF Outdated
    <2>5. t \in Transactions(clock)
      BY <1>0, <2>4 DEF Transactions
    <2>6. /\ t.number = tx[p].number /\ t.id = tx[p].id
          /\ t.gone = tx[p].gone /\ t.unpin = tx[p].unpin
      BY <1>0 DEF Transactions
    <2>7. (t.stale # {}) \in BOOLEAN
      OBVIOUS
    <2> HIDE DEF t
    <2>8. Fits("commit", req[p], t, {}, clock)
      BY <1>0, <2>1, <2>2, <2>5, <2>6 DEF Fits, KindFits, Steps, Writing, Putting
    <2> QED
      BY <2>1, <2>2, <2>7, <2>8, WriteFits
  <1>3. CASE DeleteRevisionRow(p)
    <2> DEFINE t == [NoTx EXCEPT !.gone = {n \in Numbers : revs[n].id = req[p].target}]
    <2>1. pc[p] = "delete_revision" /\ Write(p, t, TRUE)
      BY <1>3 DEF DeleteRevisionRow
    <2>2. req[p].kind = "delete_revision" /\ todo[p] = {}
      BY <1>0, <2>1 DEF Fits, KindFits
    <2>3. t \in Transactions(clock)
      BY <1>0, <1>00 DEF Transactions
    <2>4. t.number = 0 /\ t.id = 0 /\ t.stale = {} /\ t.unpin = {}
      BY DEF NoTx
    <2> HIDE DEF t
    <2>5. Fits("commit", req[p], t, {}, clock)
      BY <1>0, <2>1, <2>2, <2>3, <2>4 DEF Fits, KindFits, Steps, Writing, Putting
    <2> QED
      BY <2>1, <2>2, <2>5, WriteFits
  <1>4. CASE DeleteBundleRow(p)
    <2> DEFINE t == [NoTx EXCEPT !.stale = {req[p].bundle} \intersect Bundles]
    <2>1. pc[p] = "delete_bundle" /\ Write(p, t, TRUE)
      BY <1>4 DEF DeleteBundleRow
    <2>2. req[p].kind = "delete_bundle" /\ todo[p] = {}
      BY <1>0, <2>1 DEF Fits, KindFits
    <2>3. t \in Transactions(clock)
      BY <1>0, <1>00 DEF Transactions
    <2>4. t.number = 0 /\ t.id = 0 /\ t.gone = {} /\ t.unpin = {}
      BY DEF NoTx
    <2> HIDE DEF t
    <2>5. Fits("commit", req[p], t, {}, clock)
      BY <1>0, <2>1, <2>2, <2>3, <2>4 DEF Fits, KindFits, Steps, Writing, Putting
    <2> QED
      BY <2>1, <2>2, <2>5, WriteFits
  <1> QED
    BY <1>1, <1>2, <1>3, <1>4

LEMMA BeginsTyped ==
    ASSUME Typed, NEW p \in Clients, LockGame(p) \/ BeginBundle(p) \/ StaleParent(p)
    PROVE  Typed' /\ OthersKeep(p)
  <1>0. /\ Fits(pc[p], req[p], tx[p], todo[p], clock)
        /\ req[p] \in Requests(clock) /\ tx[p] \in Transactions(clock)
        /\ clock \in Nat /\ Numbers \subseteq 1 .. clock /\ Bundles \subseteq 1 .. clock
    BY DEF Typed, Shared, Own, Fits
  <1>1. CASE StaleParent(p)
    <2>1. Shared'
      BY <1>1 DEF StaleParent, Typed, Shared, database, history, Numbers, Bundles
    <2> QED
      BY <1>1, <2>1, FinishFits DEF StaleParent, Typed
  <1>2. ASSUME LockGame(p) \/ BeginBundle(p)
        PROVE  Typed' /\ OthersKeep(p)
    <2> DEFINE t == tx'[p]
    <2>1. Shared'
      BY <1>2 DEF LockGame, BeginBundle, Typed, Shared, database, history, Numbers, Bundles
    <2>2. PerClient' /\ OthersKeep(p)
      BY <1>2 DEF LockGame, BeginBundle, Goto, Typed, PerClient, OthersKeep
    <2>3. clock' = clock + 1 /\ clock' \in Nat /\ clock <= clock'
      BY <1>0, <1>2 DEF LockGame, BeginBundle
    <2>4. \A q \in Clients \ {p} : Own(q)'
      BY <2>2, <2>3, OthersFit
    <2>5. Fits(pc[p], req[p], tx[p], todo[p], clock')
      BY <1>0, <2>3, FitsLater
    <2>6. NoTx \in Transactions(clock')
      BY <2>3 DEF NoTx, Transactions
    <2>7. CASE LockGame(p)
      <3> DEFINE w == [NoTx EXCEPT !.number = Head + 1, !.id = clock + 1]
      <3>1. pc[p] = "rev_lock" /\ pc'[p] = "rev_write" /\ tx'[p] = w
            /\ req'[p] = req[p] /\ todo'[p] = todo[p]
        BY <2>7 DEF LockGame, Goto, Typed, PerClient
      <3>2. Head + 1 \in 0 .. clock' /\ Head + 1 # 0
        BY <1>0, <2>3, HeadTyped
      <3>3. clock + 1 \in 0 .. clock' /\ clock + 1 # 0
        BY <1>0, <2>3
      <3>4. w \in Transactions(clock')
        BY <2>6, <3>2, <3>3 DEF Transactions
      <3>5. w.number # 0 /\ w.id # 0 /\ w.stale = {}
        BY <3>2, <3>3 DEF NoTx
      <3>6. req[p].kind = "push" /\ todo[p] = {}
        BY <1>0, <3>1 DEF Fits, KindFits
      <3> HIDE DEF w
      <3>7. Fits("rev_write", req[p], w, {}, clock')
        BY <2>5, <3>4, <3>5, <3>6 DEF Fits, KindFits, Steps, Writing, Putting
      <3>8. Own(p)'
        BY <3>1, <3>6, <3>7 DEF Own
      <3> QED
        BY <2>1, <2>2, <2>4, <3>8 DEF Typed
    <2>8. CASE BeginBundle(p)
      <3> DEFINE w == [tx[p] EXCEPT !.id = clock + 1]
      <3>1. pc[p] = "bundle_begin" /\ pc'[p] = "bundle_write" /\ tx'[p] = w
            /\ req'[p] = req[p] /\ todo'[p] = todo[p]
        BY <2>8 DEF BeginBundle, Goto, Typed, PerClient
      <3>2. tx[p] = NoTx
        BY <1>0, <3>1 DEF Fits, Writing
      <3>3. clock + 1 \in 1 .. clock'
        BY <1>0, <2>3
      <3>4. w \in Transactions(clock')
        BY <2>6, <3>2, <3>3 DEF Transactions
      <3>5. w.number = 0 /\ w.id # 0 /\ w.unpin = {} /\ w.gone = {}
        BY <3>2, <3>3 DEF NoTx
      <3>6. req[p].kind = "bundle" /\ todo[p] = {}
        BY <1>0, <3>1 DEF Fits, KindFits
      <3> HIDE DEF w
      <3>7. Fits("bundle_write", req[p], w, {}, clock')
        BY <2>5, <3>4, <3>5, <3>6 DEF Fits, KindFits, Steps, Writing, Putting
      <3>8. Own(p)'
        BY <3>1, <3>6, <3>7 DEF Own
      <3> QED
        BY <2>1, <2>2, <2>4, <3>8 DEF Typed
    <2> QED
      BY <1>2, <2>7, <2>8
  <1> QED
    BY <1>1, <1>2

LEMMA CommitTyped ==
    ASSUME Typed, NEW p \in Clients, Commit(p)
    PROVE  Typed' /\ OthersKeep(p)
  <1> DEFINE t == tx[p]
  <1>0. /\ Fits("commit", req[p], t, todo[p], clock) /\ pc[p] = "commit"
        /\ t \in Transactions(clock) /\ req[p] \in Requests(clock)
        /\ clock \in Nat /\ Numbers \subseteq 1 .. clock /\ Bundles \subseteq 1 .. clock
    BY DEF Typed, Shared, Own, Fits, Commit
  <1>1. t.id # 0 => t.id \in 1 .. clock
    BY <1>0 DEF Transactions
  <1>2. req[p].kind = "bundle" => t.id # 0
    BY <1>0 DEF Fits, Writing
  <1>3. t.number # 0 => t.id # 0 /\ t.number \in 1 .. clock
    BY <1>0 DEF Fits, Writing, Transactions
  <1>4. req[p].files \in SUBSET Hashes /\ t.doomed \in SUBSET Hashes
    BY <1>0 DEF Requests, Transactions
  <1>5. Shared'
    <2>1. revs' = [n \in (Numbers \ t.gone) \union ({t.number} \ {0}) |->
                      IF n = t.number THEN [id |-> t.id, files |-> req[p].files]
                                      ELSE revs[n]]
      BY DEF Commit
    <2>2. bundles' = [b \in (IF req[p].kind = "bundle" THEN Bundles \union {t.id}
                                                       ELSE Bundles) \ t.stale |->
                         IF b = t.id THEN req[p].files ELSE bundles[b]]
      BY DEF Commit
    <2>3. Numbers' \subseteq 1 .. clock
          /\ \A n \in Numbers' : revs'[n].id \in 1 .. clock /\ revs'[n].files \subseteq Hashes
      BY <1>0, <1>1, <1>3, <1>4, <2>1 DEF Numbers, Typed, Shared
    <2>4. Bundles' \subseteq 1 .. clock /\ \A b \in Bundles' : bundles'[b] \subseteq Hashes
      BY <1>0, <1>1, <1>2, <1>4, <2>2 DEF Bundles, Typed, Shared
    <2>5. links' \in [Links -> [live : BOOLEAN, rev : 0 .. clock, bundle : 0 .. clock]]
      <3>1. \A l \in Links : links[l] \in [live : BOOLEAN, rev : 0 .. clock, bundle : 0 .. clock]
        BY DEF Typed, Shared
      <3>2. links' = [l \in Links |->
                        [links[l] EXCEPT !.rev = IF l \in t.unpin THEN 0 ELSE @,
                                         !.bundle = IF @ \in t.stale THEN 0 ELSE @]]
        BY DEF Commit
      <3>3. 0 \in 0 .. clock
        BY <1>0
      <3> QED
        BY <3>1, <3>2, <3>3
    <2>6. /\ blobs' = blobs \ t.doomed /\ removed' \in BOOLEAN
          /\ UNCHANGED <<objects, clock, overlapped, abandoned, calls>>
      BY DEF Commit
    <2> QED
      BY <2>3, <2>4, <2>5, <2>6 DEF Typed, Shared
  <1>6. clock' = clock
    BY DEF Commit
  <1>7. CASE t.doomed = {}
    <2>1. Finish(p)
      BY <1>7 DEF Commit
    <2> QED
      BY <1>5, <1>6, <2>1, FinishFits DEF Typed
  <1>8. CASE t.doomed # {}
    <2>1. /\ Goto(p, "delete_objects")
          /\ todo' = [todo EXCEPT ![p] = t.doomed]
          /\ tx' = [tx EXCEPT ![p] = NoTx]
          /\ req' = [req EXCEPT ![p] = NoRequest]
      BY <1>8 DEF Commit
    <2>2. PerClient' /\ OthersKeep(p)
      BY <2>1 DEF Typed, PerClient, OthersKeep, Goto
    <2>3. \A q \in Clients \ {p} : Own(q)'
      BY <1>0, <1>6, <2>2, OthersFit
    <2>4. /\ pc'[p] = "delete_objects" /\ todo'[p] = t.doomed
          /\ tx'[p] = NoTx /\ req'[p] = NoRequest
      BY <2>1 DEF Typed, PerClient, Goto
    <2>5. Fits("delete_objects", NoRequest, NoTx, t.doomed, clock)
      <3>1. Fits("idle", NoRequest, NoTx, {}, clock)
        BY <1>0, NothingFits
      <3> QED
        BY <1>4, <3>1 DEF Fits, KindFits, Steps, Writing, Putting
    <2>6. Own(p)'
      BY <1>6, <2>4, <2>5 DEF Own
    <2> QED
      BY <1>5, <2>2, <2>3, <2>6 DEF Typed
  <1> QED
    BY <1>7, <1>8

LEMMA DeletesTyped ==
    ASSUME Typed, NEW p \in Clients, DeleteObject(p)
    PROVE  Typed' /\ OthersKeep(p)
  <1>0. /\ Fits("delete_objects", req[p], tx[p], todo[p], clock)
        /\ pc[p] = "delete_objects" /\ todo[p] \subseteq Hashes /\ clock \in Nat
    BY DEF Typed, Shared, Own, Fits, DeleteObject
  <1>1. PICK h \in todo[p] :
            /\ Remove({h})
            /\ IF todo[p] = {h}
               THEN Finish(p)
               ELSE todo' = [todo EXCEPT ![p] = @ \ {h}] /\ UNCHANGED <<pc, req, tx>>
    BY DEF DeleteObject
  <1>2. UNCHANGED <<database, clock, overlapped, removed, calls>>
    BY DEF DeleteObject
  <1>3. Shared'
    BY <1>0, <1>1, <1>2 DEF Remove, Typed, Shared, database, Numbers, Bundles
  <1>4. CASE todo[p] = {h}
    BY <1>1, <1>2, <1>3, <1>4, FinishFits DEF Typed
  <1>5. CASE todo[p] # {h}
    <2>1. PerClient' /\ OthersKeep(p)
      BY <1>1, <1>5 DEF Typed, PerClient, OthersKeep
    <2>2. \A q \in Clients \ {p} : Own(q)'
      BY <1>0, <1>2, <2>1, OthersFit
    <2>3. /\ pc'[p] = "delete_objects" /\ todo'[p] = todo[p] \ {h}
          /\ tx'[p] = tx[p] /\ req'[p] = req[p]
      BY <1>0, <1>1, <1>5 DEF Typed, PerClient
    <2>4. Fits("delete_objects", req[p], tx[p], todo[p] \ {h}, clock)
      BY <1>0 DEF Fits
    <2>5. Own(p)'
      BY <1>2, <2>3, <2>4 DEF Own
    <2> QED
      BY <1>3, <2>1, <2>2, <2>5 DEF Typed
  <1> QED
    BY <1>4, <1>5

LEMMA FailTyped ==
    ASSUME Typed, NEW p \in Clients, Fail(p)
    PROVE  Typed' /\ OthersKeep(p)
  <1>0. Fits(pc[p], req[p], tx[p], todo[p], clock)
    BY DEF Typed, Own
  <1>1. Holding(p) \subseteq Hashes
    BY <1>0 DEF Fits, Requests, Holding
  <1>2. Shared'
    BY <1>1 DEF Fail, Typed, Shared, database, Numbers, Bundles
  <1> QED
    BY <1>2, FinishFits DEF Fail, Typed

\* A step of one request keeps everything typed and leaves the others alone.
LEMMA StepTyped ==
    ASSUME Typed, NEW p \in Clients, Receives(p) \/ Advance(p) \/ Fail(p)
    PROVE  Typed' /\ OthersKeep(p)
  BY ReceivesTyped, PutsTyped, PinsTyped, WritesTyped, BeginsTyped, CommitTyped,
     DeletesTyped, FailTyped
  DEF Advance

LEMMA InitTyped == Init => Typed
  <1> SUFFICES ASSUME Init
               PROVE  Typed
    OBVIOUS
  <1>1. Shared
    <2>1. Numbers = {} /\ Bundles = {} /\ clock = 0
      BY DEF Init, Numbers, Bundles
    <2>2. NoLink \in [live : BOOLEAN, rev : 0 .. clock, bundle : 0 .. clock]
      BY <2>1 DEF NoLink
    <2>3. links \in [Links -> [live : BOOLEAN, rev : 0 .. clock, bundle : 0 .. clock]]
      BY <2>2 DEF Init
    <2>4. calls \in 0 .. MaxCalls
      BY ContentAssumption DEF Init
    <2>5. /\ objects = {} /\ blobs = {} /\ abandoned = {}
          /\ overlapped = FALSE /\ removed = FALSE
      BY DEF Init
    <2> QED
      BY <2>1, <2>3, <2>4, <2>5 DEF Shared
  <1>2. PerClient
    BY DEF Init, PerClient
  <1>3. \A p \in Clients : Own(p)
    BY NothingFits DEF Init, Own
  <1> QED
    BY <1>1, <1>2, <1>3 DEF Typed

LEMMA StutterTyped == Typed /\ UNCHANGED vars => Typed'
  BY DEF vars, database, request, history, Typed, Shared, PerClient, Own, Numbers, Bundles

LEMMA TypedAlways == Spec => []Typed
  <1>1. Typed /\ [Next]_vars => Typed'
    BY StepTyped, StutterTyped DEF Next
  <1> QED
    BY InitTyped, <1>1, PTL DEF Spec

(***************************************************************************)
(* Every state a reachable one of the content store is of the types that   *)
(* TypeOK states: ids and numbers never exceed the clock they come from.   *)
(***************************************************************************)
THEOREM ContentTypes == Spec => []TypeOK
  BY TypedAlways, TypedIsTypeOK, PTL

-----------------------------------------------------------------------------
(* Pushes, one after the other. *)

\* Steps of p that neither write revisions nor leave p with the game row.
LEMMA QuietStep ==
    ASSUME Typed, NEW p \in Clients, Receives(p) \/ Advance(p) \/ Fail(p),
           ~LockGame(p), ~WriteRevision(p), ~Commit(p)
    PROVE  revs' = revs /\ ~Pushing(p)'
  <1>0. /\ Fits(pc[p], req[p], tx[p], todo[p], clock)
        /\ pc = [q \in Clients |-> pc[q]] /\ req = [q \in Clients |-> req[q]]
    BY DEF Typed, Own, PerClient
  <1>1. CASE \E r, step : Incoming(r, step) /\ Read(r) /\ Receive(p, r, step)
    <2>1. PICK r, step : Incoming(r, step) /\ Receive(p, r, step)
      BY <1>1
    <2>2. revs' = revs /\ pc'[p] = step
      BY <1>0, <2>1 DEF Receive, Goto, database
    <2> QED
      BY <2>1, <2>2 DEF Incoming, Writing, Pushing
  <1>2. CASE \E l \in Links : DeleteShare(p, l)
    BY <1>0, <1>2 DEF DeleteShare, Busy, request, Pushing
  <1>3. ASSUME Finish(p)
        PROVE  ~Pushing(p)'
    BY <1>0, <1>3 DEF Finish, Goto, Pushing
  <1>4. CASE PutUndo(p) \/ PutRecord(p) \/ StaleParent(p) \/ InsertShare(p) \/ SetPins(p) \/ Fail(p)
    BY <1>3, <1>4 DEF PutUndo, PutRecord, StaleParent, InsertShare, SetPins, Pin, Fail, database
  <1>5. CASE PutStore(p) \/ PutCheck(p) \/ BeginBundle(p)
    BY <1>0, <1>5 DEF PutStore, PutCheck, BeginBundle, Goto, database, Pushing
  <1>6. CASE WriteBundle(p) \/ DeleteRevisionRow(p) \/ DeleteBundleRow(p)
    <2>1. req[p].kind # "push" /\ req' = req
      BY <1>0, <1>6
      DEF WriteBundle, DeleteRevisionRow, DeleteBundleRow, Write, Fits, KindFits
    <2> QED
      BY <1>6, <2>1
      DEF WriteBundle, DeleteRevisionRow, DeleteBundleRow, Write, database, Pushing
  <1>7. CASE DeleteObject(p)
    <2>1. req[p].kind = "none" /\ revs' = revs
      BY <1>0, <1>7 DEF DeleteObject, Fits, KindFits, database
    <2> QED
      BY <1>3, <1>7, <2>1 DEF DeleteObject, Pushing
  <1> QED
    BY <1>1, <1>2, <1>4, <1>5, <1>6, <1>7, ReceivesIncoming DEF Advance

LEMMA SerializedStep ==
    ASSUME Typed, Serialized, NEW p \in Clients, Receives(p) \/ Advance(p) \/ Fail(p)
    PROVE  Serialized'
  <1>0. /\ Fits(pc[p], req[p], tx[p], todo[p], clock)
        /\ clock \in Nat /\ Numbers \subseteq 1 .. clock
        /\ \A n \in Numbers : revs[n].id \in 1 .. clock
        /\ tx[p] \in Transactions(clock)
        /\ pc = [q \in Clients |-> pc[q]] /\ req = [q \in Clients |-> req[q]]
        /\ tx = [q \in Clients |-> tx[q]]
    BY DEF Typed, Shared, Own, PerClient, Fits
  <1>00. OthersKeep(p)
    BY StepTyped
  <1>1. \A q \in Clients \ {p} : (Pushing(q)' <=> Pushing(q)) /\ tx'[q] = tx[q]
            /\ req'[q] = req[q] /\ pc'[q] = pc[q]
    BY <1>00 DEF OthersKeep, Pushing
  <1>2. CASE ~LockGame(p) /\ ~WriteRevision(p) /\ ~Commit(p)
    <2>1. revs' = revs /\ ~Pushing(p)' /\ Numbers' = Numbers
      BY <1>2, QuietStep DEF Numbers
    <2>2. OnePusher'
      BY <1>1, <2>1 DEF Serialized, OnePusher
    <2>3. NumberedNext'
      BY <1>1, <2>1 DEF Serialized, NumberedNext
    <2>4. IdsUnique'
      BY <1>1, <2>1 DEF Serialized, IdsUnique
    <2>5. Windowed' /\ PrunesEnough'
      BY <1>1, <2>1 DEF Serialized, Windowed, PrunesEnough
    <2> QED
      BY <2>2, <2>3, <2>4, <2>5 DEF Serialized
  <1>3. CASE LockGame(p)
    <2>1. /\ revs' = revs /\ Numbers' = Numbers /\ req' = req
          /\ \A q \in Clients \ {p} : ~Pushing(q)'
          /\ pc'[p] = "rev_write"
          /\ tx'[p] = [NoTx EXCEPT !.number = Head + 1, !.id = clock + 1]
          /\ req[p].target \in {NoParent, Head}
      BY <1>0, <1>1, <1>3 DEF LockGame, GameLocked, Goto, database, Numbers, Pushing
    <2>2. tx'[p].number = Head + 1 /\ tx'[p].id = clock + 1
      BY <2>1 DEF NoTx
    <2>3. Head \in Nat /\ \A n \in Numbers : n <= Head
      BY <1>0, HeadTyped
    <2>4. OnePusher'
      BY <2>1 DEF OnePusher
    <2>5. NumberedNext'
      <3>1. req'[p].target # NoParent => req'[p].target = Head
        BY <2>1
      <3>2. \A n \in Numbers' : n < tx'[p].number
                /\ (req'[p].target # NoParent => n <= req'[p].target)
        BY <1>0, <2>1, <2>2, <2>3, <3>1
      <3> QED
        BY <2>1, <3>2 DEF NumberedNext
    <2>6. IdsUnique'
      <3>1. \A n \in Numbers' : revs'[n].id # tx'[p].id
        BY <1>0, <2>1, <2>2
      <3> QED
        BY <2>1, <3>1 DEF Serialized, IdsUnique
    <2>7. Windowed' /\ PrunesEnough'
      BY <2>1 DEF Serialized, Windowed, PrunesEnough
    <2> QED
      BY <2>4, <2>5, <2>6, <2>7 DEF Serialized
  <1>4. CASE WriteRevision(p)
    <2> DEFINE t == [tx[p] EXCEPT !.gone = Pruned(tx[p].number),
                                  !.unpin = Unpinned(tx[p].number)]
    <2>1. /\ revs' = revs /\ Numbers' = Numbers /\ req' = req
          /\ pc[p] = "rev_write" /\ Write(p, t, t.gone # {})
      BY <1>4 DEF WriteRevision, Write, database, Numbers
    <2>2. req[p].kind = "push" /\ Pushing(p)
      BY <1>0, <2>1 DEF Fits, KindFits, Pushing
    <2>3. tx'[p].number = tx[p].number /\ tx'[p].id = tx[p].id
          /\ tx'[p].gone = Pruned(tx[p].number)
      BY <1>0, <2>1 DEF Write, Transactions
    <2>4. OnePusher'
      BY <1>1, <2>2 DEF Serialized, OnePusher
    <2>5. NumberedNext'
      BY <1>1, <2>1, <2>2, <2>3 DEF Serialized, NumberedNext
    <2>6. IdsUnique'
      BY <1>1, <2>1, <2>2, <2>3 DEF Serialized, IdsUnique
    <2>7. Windowed'
      BY <2>1 DEF Serialized, Windowed
    <2>8. PrunesEnough'
      BY <1>1, <2>1, <2>3, ContentAssumption DEF Serialized, PrunesEnough, Pruned
    <2> QED
      BY <2>4, <2>5, <2>6, <2>7, <2>8 DEF Serialized
  <1>5. CASE Commit(p)
    <2> DEFINE t == tx[p]
    <2>1. /\ pc[p] = "commit"
          /\ revs' = [n \in (Numbers \ t.gone) \union ({t.number} \ {0}) |->
                       IF n = t.number THEN [id |-> t.id, files |-> req[p].files]
                                       ELSE revs[n]]
      BY <1>5 DEF Commit
    <2>2. Numbers' = (Numbers \ t.gone) \union ({t.number} \ {0})
      BY <2>1 DEF Numbers
    <2>3. ~Pushing(p)'
      BY <1>0, <1>5 DEF Commit, Finish, Goto, Pushing
    <2>4. t.number # 0 => Pushing(p)
      BY <1>0, <2>1 DEF Fits, Pushing
    <2>5. OnePusher'
      BY <1>1, <2>3 DEF Serialized, OnePusher
    <2>6. NumberedNext'
      BY <1>1, <2>2, <2>3, <2>4 DEF Serialized, NumberedNext, OnePusher
    <2>7. IdsUnique'
      <3>1. \A n \in Numbers' : n # t.number => n \in Numbers /\ revs'[n] = revs[n]
        BY <2>1, <2>2
      <3>2. t.number \in Numbers' => t.number # 0 /\ revs'[t.number].id = t.id
        BY <1>0, <2>1, <2>2
      <3>3. t.number # 0 => \A n \in Numbers : revs[n].id # t.id
        BY <2>4 DEF Serialized, IdsUnique
      <3>4. \A m, n \in Numbers' : revs'[m].id = revs'[n].id => m = n
        BY <3>1, <3>2, <3>3 DEF Serialized, IdsUnique
      <3>5. ASSUME NEW q \in Clients, Pushing(q)'
            PROVE  \A n \in Numbers' : revs'[n].id # tx'[q].id
        <4>1. q # p /\ Pushing(q) /\ tx'[q] = tx[q]
          BY <1>1, <2>3, <3>5
        <4>2. t.number = 0
          BY <2>4, <4>1 DEF Serialized, OnePusher
        <4> QED
          BY <3>1, <3>2, <4>1, <4>2 DEF Serialized, IdsUnique
      <3> QED
        BY <3>4, <3>5 DEF IdsUnique
    <2>8. Windowed'
      <3> SUFFICES ASSUME Keep > 0, NEW m \in Numbers', NEW n \in Numbers'
                   PROVE  m - n < Keep
        BY DEF Windowed
      <3>1. Keep \in Nat /\ t.number \in Nat
        BY <1>0, ContentAssumption DEF Transactions
      <3>2. CASE t.number = 0
        BY <2>2, <3>2 DEF Serialized, Windowed
      <3>3. CASE t.number # 0
        <4>1. Pushing(p) /\ pc[p] = "commit"
          BY <2>1, <2>4, <3>3
        <4>2. \A k \in Numbers : k < t.number
          BY <4>1 DEF Serialized, NumberedNext
        <4>3. \A k \in Numbers \ t.gone : ~(k <= t.number - Keep)
          BY <4>1 DEF Serialized, PrunesEnough
        <4>4. m \in Nat /\ m <= t.number
          BY <1>0, <2>2, <3>1, <4>2
        <4>5. n \in Nat /\ n > t.number - Keep
          BY <1>0, <2>2, <3>1, <4>3
        <4> QED
          BY <3>1, <4>4, <4>5
      <3> QED
        BY <3>2, <3>3
    <2>9. PrunesEnough'
      BY <1>1, <2>2, <2>3, <2>4 DEF Serialized, PrunesEnough, OnePusher
    <2> QED
      BY <2>5, <2>6, <2>7, <2>8, <2>9 DEF Serialized
  <1> QED
    BY <1>2, <1>3, <1>4, <1>5

LEMMA SerializedAlways == Spec => [](Typed /\ Serialized)
  <1>1. Init => Serialized
    BY DEF Init, Serialized, OnePusher, NumberedNext, IdsUnique, Windowed, PrunesEnough,
           Numbers, Pushing, NoRequest
  <1>2. Serialized /\ UNCHANGED vars => Serialized'
    BY DEF vars, database, request, history, Serialized, OnePusher, NumberedNext, IdsUnique,
           Windowed, PrunesEnough, Numbers, Pushing
  <1>3. Typed /\ Serialized /\ [Next]_vars => Serialized'
    BY <1>2, SerializedStep DEF Next
  <1> QED
    BY TypedAlways, <1>1, <1>3, PTL DEF Spec

(***************************************************************************)
(* The lock of the game row serializes the pushes of a game, whatever else *)
(* is under way: a revision is numbered above all that are there when it   *)
(* is committed, and a push that names its parent finds nothing newer.     *)
(***************************************************************************)
THEOREM PushesAreSerialized == Spec => PushesInOrder
  <1>1. Serialized =>
            \A p \in Clients : Commit(p) /\ req[p].kind = "push" =>
                \A n \in Numbers :
                    n < tx[p].number /\ (req[p].target # NoParent => n <= req[p].target)
    BY DEF Commit, Serialized, NumberedNext, Pushing
  <1> QED
    BY SerializedAlways, <1>1, PTL DEF PushesInOrder

-----------------------------------------------------------------------------
(* Other requests. *)

\* What the history variables say of a step.
LEMMA HistoryGrows ==
    ASSUME Typed, NEW p \in Clients, Receives(p) \/ Advance(p) \/ Fail(p)
    PROVE  /\ overlapped => overlapped'
           /\ removed => removed'
           /\ ~Busy(p) /\ ~overlapped' => \A q \in Clients : ~Busy(q)
  <1>0. overlapped \in BOOLEAN /\ removed \in BOOLEAN
    BY DEF Typed, Shared
  <1>1. CASE \E r, step : Incoming(r, step) /\ Read(r) /\ Receive(p, r, step)
    <2>1. /\ overlapped' = (overlapped \/ \E q \in Clients : Busy(q))
          /\ removed' = removed
      BY <1>1 DEF Receive
    <2> QED
      BY <1>0, <2>1, Zenon
  <1>2. CASE \E l \in Links : DeleteShare(p, l)
    <2>1. /\ overlapped' = (overlapped \/ \E q \in Clients : Busy(q))
          /\ removed' = removed
      BY <1>2 DEF DeleteShare
    <2> QED
      BY <1>0, <2>1, Zenon
  <1>3. CASE Advance(p) \/ Fail(p)
    <2>1. Busy(p)
      BY <1>3
      DEF Busy, Advance, Fail, PutStore, PutCheck, PutUndo, PutRecord, LockGame, StaleParent,
          WriteRevision, BeginBundle, WriteBundle, DeleteRevisionRow, DeleteBundleRow,
          InsertShare, SetPins, Commit, DeleteObject
    <2>2. CASE Commit(p)
      <3>1. /\ overlapped' = overlapped
            /\ removed' = (removed \/ tx[p].gone \union tx[p].stale \union tx[p].doomed # {})
        BY <2>2 DEF Commit
      <3> QED
        BY <1>0, <2>1, <3>1, Zenon
    <2>3. CASE ~Commit(p)
      BY <1>0, <1>3, <2>1, <2>3
      DEF Advance, Fail, PutStore, PutCheck, PutUndo, PutRecord, LockGame, StaleParent,
          WriteRevision, BeginBundle, WriteBundle, DeleteRevisionRow, DeleteBundleRow,
          InsertShare, SetPins, DeleteObject, Write, Pin, history
    <2> QED
      BY <2>2, <2>3
  <1> QED
    BY <1>1, <1>2, <1>3, ReceivesIncoming

\* While requests have not overlapped, all others are idle.
LEMMA OthersIdle ==
    ASSUME Typed, Solo, NEW p \in Clients, Receives(p) \/ Advance(p) \/ Fail(p), ~overlapped'
    PROVE  ~overlapped /\ \A q \in Clients \ {p} : ~Busy(q) /\ ~Busy(q)'
  <1>1. ~overlapped
    BY HistoryGrows
  <1>2. \A q \in Clients \ {p} : ~Busy(q)
    BY <1>1, HistoryGrows DEF Solo
  <1>3. \A q \in Clients \ {p} : ~Busy(q)'
    BY <1>2, StepTyped DEF OthersKeep, Busy
  <1> QED
    BY <1>1, <1>2, <1>3

LEMMA SoloStep ==
    ASSUME Typed, Solo, NEW p \in Clients, Receives(p) \/ Advance(p) \/ Fail(p)
    PROVE  Solo'
  BY OthersIdle DEF Solo

\* While nothing is removed, rows and objects only come in addition.
LEMMA NothingGoes ==
    ASSUME Typed, DeletesAreRemovals, NEW p \in Clients,
           Receives(p) \/ Advance(p) \/ Fail(p), ~removed'
    PROVE  objects \subseteq objects' /\ blobs \subseteq blobs' /\ Numbers \subseteq Numbers'
  <1>1. CASE \E r, step : Incoming(r, step) /\ Read(r) /\ Receive(p, r, step)
    BY <1>1 DEF Receive, database, Numbers
  <1>2. CASE \E l \in Links : DeleteShare(p, l)
    BY <1>2 DEF DeleteShare, Numbers
  <1>3. CASE PutUndo(p) \/ DeleteObject(p)
    BY <1>3 DEF PutUndo, DeleteObject, DeletesAreRemovals
  <1>4. CASE Commit(p)
    <2>1. tx[p].gone = {} /\ tx[p].doomed = {}
      BY <1>4 DEF Commit
    <2>2. /\ blobs' = blobs \ tx[p].doomed /\ objects' = objects
          /\ Numbers' = (Numbers \ tx[p].gone) \union ({tx[p].number} \ {0})
      BY <1>4 DEF Commit, Numbers
    <2> QED
      BY <2>1, <2>2
  <1>5. CASE PutStore(p) \/ PutCheck(p) \/ PutRecord(p) \/ LockGame(p) \/ StaleParent(p)
             \/ BeginBundle(p) \/ Fail(p)
    BY <1>5 DEF PutStore, PutCheck, PutRecord, LockGame, StaleParent, BeginBundle, Fail,
                database, Numbers
  <1>6. CASE WriteRevision(p) \/ WriteBundle(p) \/ DeleteRevisionRow(p) \/ DeleteBundleRow(p)
             \/ InsertShare(p) \/ SetPins(p)
    BY <1>6 DEF WriteRevision, WriteBundle, DeleteRevisionRow, DeleteBundleRow, InsertShare,
                SetPins, Write, Pin, database, Numbers
  <1> QED
    BY <1>1, <1>2, <1>3, <1>4, <1>5, <1>6, ReceivesIncoming DEF Advance

LEMMA DeletesRemoveStep ==
    ASSUME Typed, DeletesAreRemovals, NEW p \in Clients, Receives(p) \/ Advance(p) \/ Fail(p)
    PROVE  DeletesAreRemovals'
  <1>0. /\ pc = [q \in Clients |-> pc[q]]
        /\ removed => removed' /\ OthersKeep(p)
    BY HistoryGrows, StepTyped DEF Typed, PerClient
  <1>1. pc'[p] = "delete_objects" => removed'
    <2>1. CASE \E r, step : Incoming(r, step) /\ Read(r) /\ Receive(p, r, step)
      BY <1>0, <2>1 DEF Receive, Goto, Incoming
    <2>2. CASE \E l \in Links : DeleteShare(p, l)
      BY <1>0, <2>2 DEF DeleteShare, Busy
    <2>3. CASE Commit(p)
      BY <1>0, <2>3 DEF Commit, Finish, Goto
    <2>4. CASE DeleteObject(p)
      BY <2>4 DEF DeleteObject, DeletesAreRemovals
    <2>5. CASE PutStore(p) \/ PutCheck(p) \/ PutUndo(p) \/ PutRecord(p) \/ LockGame(p)
               \/ StaleParent(p) \/ BeginBundle(p) \/ Fail(p)
      BY <1>0, <2>5 DEF PutStore, PutCheck, PutUndo, PutRecord, LockGame, StaleParent,
                        BeginBundle, Fail, Finish, Goto
    <2>6. CASE WriteRevision(p) \/ WriteBundle(p) \/ DeleteRevisionRow(p) \/ DeleteBundleRow(p)
               \/ InsertShare(p) \/ SetPins(p)
      BY <1>0, <2>6
      DEF WriteRevision, WriteBundle, DeleteRevisionRow, DeleteBundleRow, InsertShare, SetPins,
          Write, Pin, Finish, Goto
    <2> QED
      BY <2>1, <2>2, <2>3, <2>4, <2>5, <2>6, ReceivesIncoming DEF Advance
  <1>2. ASSUME NEW q \in Clients \ {p}, pc'[q] = "delete_objects"
        PROVE  removed'
    <2>1. pc[q] = "delete_objects"
      BY <1>2, StepTyped DEF OthersKeep
    <2>2. removed
      BY <2>1, Zenon DEF DeletesAreRemovals
    <2> QED
      BY <1>0, <2>2, Zenon
  <1> QED
    BY <1>1, <1>2 DEF DeletesAreRemovals

\* What the other requests hold, and know, survives the step.
LEMMA OthersHold ==
    ASSUME Typed, CalmInv, NEW p \in Clients, Receives(p) \/ Advance(p) \/ Fail(p)
    PROVE  \A q \in Clients \ {p} : /\ Calm' => Holds(q)'
                                    /\ ~overlapped' => Knows(q)'
  <1> SUFFICES ASSUME NEW q \in Clients \ {p}
               PROVE  (Calm' => Holds(q)') /\ (~overlapped' => Knows(q)')
    OBVIOUS
  <1>1. Typed' /\ OthersKeep(p)
    BY StepTyped
  <1>2. CASE ~overlapped'
    <2>1. ~Busy(q)'
      BY <1>2, OthersIdle DEF CalmInv
    <2>2. Fits("idle", req'[q], tx'[q], todo'[q], clock') /\ pc'[q] = "idle"
      BY <1>1, <2>1 DEF Typed, Own, Busy
    <2>3. req'[q].kind = "none" /\ todo'[q] = {}
      BY <2>2 DEF Fits, KindFits
    <2> QED
      BY <2>2, <2>3 DEF Holds, Knows, Putting
  <1>3. CASE overlapped' /\ ~removed'
    <2>1. ~removed /\ Holds(q)
      BY <1>3, HistoryGrows DEF CalmInv, Calm
    <2>2. objects \subseteq objects' /\ blobs \subseteq blobs' /\ Numbers \subseteq Numbers'
      BY <1>3, NothingGoes DEF CalmInv
    <2>3. pc'[q] = pc[q] /\ req'[q] = req[q]
      BY <1>1 DEF OthersKeep
    <2>4. Holds(q)'
      BY <2>1, <2>2, <2>3 DEF Holds
    <2> QED
      BY <1>3, <2>4
  <1> QED
    BY <1>2, <1>3 DEF Calm

-----------------------------------------------------------------------------
(* The request that moves. *)

\* The frame of the proofs below: p moves, and the state was as it should be.
Moves(p) ==
    /\ Typed /\ Serialized /\ CalmInv
    /\ Receives(p) \/ Advance(p) \/ Fail(p)

\* What has to be shown of it.
Kept(p) ==
    /\ Calm' => Whole' /\ Holds(p)'
    /\ ~overlapped' => Knows(p)' /\ BundlesCapped'

LEMMA MovesGive ==
    ASSUME NEW p \in Clients, Moves(p)
    PROVE  /\ Fits(pc[p], req[p], tx[p], todo[p], clock)
           /\ Typed' /\ OthersKeep(p)
           /\ Calm' => Calm /\ Whole /\ Holds(p)
           /\ ~overlapped' => Knows(p) /\ BundlesCapped /\ ~overlapped
           /\ pc = [q \in Clients |-> pc[q]] /\ req = [q \in Clients |-> req[q]]
           /\ tx = [q \in Clients |-> tx[q]] /\ todo = [q \in Clients |-> todo[q]]
  <1>1. Typed' /\ OthersKeep(p)
    BY StepTyped DEF Moves
  <1>2. (overlapped => overlapped') /\ (removed => removed')
    BY HistoryGrows DEF Moves
  <1>3. Calm' => Calm
    BY <1>2, Zenon DEF Calm
  <1>4. ~overlapped' => ~overlapped
    BY <1>2, Zenon
  <1>5. Calm' => Whole /\ Holds(p)
    BY <1>3, Zenon DEF Moves, CalmInv
  <1>6. ~overlapped' => Knows(p) /\ BundlesCapped
    BY <1>4, Zenon DEF Moves, CalmInv
  <1>7. Fits(pc[p], req[p], tx[p], todo[p], clock)
    BY DEF Moves, Typed, Own
  <1> QED
    BY <1>1, <1>3, <1>4, <1>5, <1>6, <1>7 DEF Moves, Typed, PerClient

\* Nothing in the database or the store has changed.
DataKept == UNCHANGED <<objects, blobs, revs, bundles, links>>

LEMMA DataKeptKeeps ==
    ASSUME DataKept
    PROVE  /\ Whole => Whole'
           /\ BundlesCapped /\ ~overlapped => BundlesCapped'
           /\ Numbers' = Numbers /\ Bundles' = Bundles
  BY DEF DataKept, Whole, ContentComplete, BundlesCapped, Numbers, Bundles

\* A request that is answered holds nothing.
LEMMA FinishedHolds ==
    ASSUME NEW p \in Clients, Moves(p), Finish(p)
    PROVE  Holds(p)' /\ Knows(p)'
  <1>1. /\ pc'[p] = "idle" /\ req'[p] = NoRequest /\ todo'[p] = {}
    BY MovesGive DEF Finish, Goto
  <1> QED
    BY <1>1 DEF Holds, Knows, NoRequest, Putting

LEMMA KeptByAnswers ==
    ASSUME NEW p \in Clients, Moves(p), Finish(p), DataKept
    PROVE  Kept(p)
  BY FinishedHolds, DataKeptKeeps, MovesGive DEF Kept

LEMMA KeptByReceives ==
    ASSUME NEW p \in Clients, Moves(p), NEW r, NEW step,
           Incoming(r, step), Read(r), Receive(p, r, step)
    PROVE  Kept(p)
  <1>1. /\ pc'[p] = step /\ req'[p] = r /\ tx'[p] = tx[p] /\ todo'[p] = todo[p]
        /\ DataKept /\ pc[p] = "idle"
    BY MovesGive DEF Receive, Goto, database, DataKept, Busy
  <1>2. todo[p] = {}
    BY <1>1, MovesGive DEF Fits
  <1>3. Holds(p)'
    BY <1>1 DEF Holds, Incoming, Read, Numbers, DataKept, Writing
  <1>4. Knows(p)'
    <2>1. step \in Putting => r.files \intersect blobs = {}
      BY DEF Incoming, Read, KindFits
    <2>2. step # "commit"
      BY DEF Incoming, Writing
    <2>3. step = "delete_revision" =>
            \A n \in Numbers : revs[n].id = r.target => \A l \in Links : links[l].rev # n
      BY DEF Incoming, Read, KindFits, Moves, Serialized, IdsUnique
    <2> QED
      BY <1>1, <1>2, <2>1, <2>2, <2>3 DEF Knows, DataKept, Numbers
  <1> QED
    BY <1>1, <1>3, <1>4, DataKeptKeeps, MovesGive DEF Kept

LEMMA KeptByDeleteShare ==
    ASSUME NEW p \in Clients, Moves(p), NEW l \in Links, DeleteShare(p, l)
    PROVE  Kept(p)
  <1>1. /\ pc[p] = "idle" /\ pc' = pc /\ req' = req /\ tx' = tx /\ todo' = todo
        /\ links' = [links EXCEPT ![l] = NoLink]
        /\ UNCHANGED <<objects, blobs, revs, bundles>>
    BY DEF DeleteShare, Busy, request
  <1>2. todo[p] = {} /\ req[p].kind = "none"
    BY <1>1, MovesGive DEF Fits, KindFits
  <1>3. Holds(p)' /\ Knows(p)'
    BY <1>1, <1>2 DEF Holds, Knows, Putting
  <1>4. links \in [Links -> [live : BOOLEAN, rev : 0 .. clock, bundle : 0 .. clock]]
    BY DEF Moves, Typed, Shared
  <1>5. Whole => Whole'
    BY <1>1, <1>4 DEF Whole, ContentComplete, Numbers, Bundles, NoLink
  <1>6. BundlesCapped /\ ~overlapped => BundlesCapped'
    BY <1>1 DEF BundlesCapped, Bundles
  <1> QED
    BY <1>3, <1>5, <1>6, MovesGive DEF Kept

LEMMA KeptByPuts ==
    ASSUME NEW p \in Clients, Moves(p),
           PutStore(p) \/ PutCheck(p) \/ PutUndo(p) \/ PutRecord(p)
    PROVE  Kept(p)
  <1>0. req[p].kind = "put" /\ todo[p] = {} /\ pc[p] \in Putting
    BY MovesGive DEF PutStore, PutCheck, PutUndo, PutRecord, Fits, KindFits, Putting
  <1>1. CASE PutStore(p)
    <2>1. /\ pc'[p] = "put_check" /\ req' = req /\ todo' = todo /\ tx' = tx
          /\ objects' = objects \union req[p].files
          /\ UNCHANGED <<blobs, revs, bundles, links>>
      BY <1>1, MovesGive DEF PutStore, Goto, request, database
    <2>2. Holds(p)'
      BY <1>0, <2>1 DEF Holds
    <2>3. Knows(p) => Knows(p)'
      BY <1>0, <2>1 DEF Knows
    <2>4. Whole => Whole'
      BY <2>1 DEF Whole, ContentComplete, Numbers, Bundles
    <2>5. BundlesCapped /\ ~overlapped => BundlesCapped'
      BY <2>1 DEF BundlesCapped, Bundles
    <2> QED
      BY <2>2, <2>3, <2>4, <2>5, MovesGive DEF Kept
  <1>2. CASE PutCheck(p)
    <2>1. /\ pc'[p] \in {"put_undo", "put_record"} /\ req' = req /\ todo' = todo /\ tx' = tx
          /\ DataKept /\ pc[p] = "put_check"
      BY <1>2, MovesGive DEF PutCheck, Goto, request, database, DataKept
    <2>2. Holds(p) => Holds(p)'
      BY <1>0, <2>1 DEF Holds, DataKept, Putting
    <2>3. Knows(p) => Knows(p)'
      BY <1>0, <2>1 DEF Knows, DataKept
    <2> QED
      BY <2>1, <2>2, <2>3, DataKeptKeeps, MovesGive DEF Kept
  <1>3. CASE PutUndo(p)
    <2>1. /\ removed' = TRUE /\ Finish(p)
          /\ UNCHANGED <<blobs, revs, bundles, links>>
          /\ objects \ req[p].files \subseteq objects'
      BY <1>3 DEF PutUndo, Remove, database
    <2>2. Calm' => ~overlapped'
      BY <2>1 DEF Calm
    <2>3. Knows(p) /\ Whole => Whole'
      BY <1>0, <2>1 DEF Knows, Whole, ContentComplete, Numbers, Bundles
    <2>4. BundlesCapped /\ ~overlapped => BundlesCapped'
      BY <2>1 DEF BundlesCapped, Bundles
    <2> QED
      BY <2>1, <2>2, <2>3, <2>4, FinishedHolds, MovesGive DEF Kept
  <1>4. CASE PutRecord(p)
    <2>1. /\ Finish(p) /\ pc[p] = "put_record" /\ blobs' = blobs \union req[p].files
          /\ UNCHANGED <<objects, revs, bundles, links>>
      BY <1>4 DEF PutRecord
    <2>2. Holds(p) /\ Whole => Whole'
      BY <2>1 DEF Holds, Whole, ContentComplete, Numbers, Bundles, Putting
    <2>3. BundlesCapped /\ ~overlapped => BundlesCapped'
      BY <2>1 DEF BundlesCapped, Bundles
    <2> QED
      BY <2>1, <2>2, <2>3, FinishedHolds, MovesGive DEF Kept
  <1> QED
    BY <1>1, <1>2, <1>3, <1>4

LEMMA KeptByBegins ==
    ASSUME NEW p \in Clients, Moves(p), LockGame(p) \/ BeginBundle(p)
    PROVE  Kept(p)
  <1>1. /\ req' = req /\ todo' = todo /\ DataKept /\ pc'[p] \in {"rev_write", "bundle_write"}
    BY MovesGive DEF LockGame, BeginBundle, Goto, database, DataKept
  <1>2. Holds(p) => Holds(p)'
    BY <1>1 DEF Holds, DataKept, Putting, Numbers
  <1>3. Knows(p) => Knows(p)'
    BY <1>1 DEF Knows, DataKept, Putting
  <1> QED
    BY <1>1, <1>2, <1>3, DataKeptKeeps, MovesGive DEF Kept

\* What a transaction collects is nothing that it leaves.
LEMMA KeptByWrite ==
    ASSUME NEW p \in Clients, Moves(p), NEW t, NEW collects, Write(p, t, collects),
           t \in Transactions(clock), todo[p] = {}, req[p].kind \notin {"put", "share"},
           ~overlapped' => \A l \in Links : links[l].rev \in t.gone => l \in t.unpin,
           req[p].kind = "bundle" => t.stale = Outdated(Bundles \union {t.id})
    PROVE  Kept(p)
  <1> DEFINE w == [t EXCEPT !.doomed = IF collects THEN Orphans(req[p].files, t) ELSE {}]
  <1>1. /\ pc'[p] = "commit" /\ tx'[p] = w /\ req' = req /\ todo' = todo /\ DataKept
    BY MovesGive DEF Write, Goto, database, DataKept
  <1>2. /\ w.gone = t.gone /\ w.stale = t.stale /\ w.unpin = t.unpin /\ w.id = t.id
        /\ w.doomed = IF collects THEN Orphans(req[p].files, t) ELSE {}
    BY DEF Transactions
  <1> HIDE DEF w
  <1>3. Holds(p) => Holds(p)'
    BY <1>1 DEF Holds, DataKept, Putting, Numbers
  <1>4. ~overlapped' => Knows(p)'
    <2>1. w.doomed \intersect Referenced(req[p].files, t) = {}
      BY <1>2 DEF Orphans
    <2>2. Referenced(req[p].files, w) = Referenced(req[p].files, t)
      BY <1>2 DEF Referenced
    <2>3. Referenced(req[p].files, tx[p])' = Referenced(req[p].files, w)
      BY <1>1 DEF Referenced, DataKept, Numbers, Bundles
    <2>4. tx'[p].doomed \intersect Referenced(req[p].files, tx[p])' = {}
      BY <1>1, <2>1, <2>2, <2>3
    <2>5. ASSUME ~overlapped', NEW l \in Links, links'[l].rev \in tx'[p].gone
          PROVE  l \in tx'[p].unpin
      BY <1>1, <1>2, <2>5 DEF DataKept
    <2>6. req'[p].kind = "bundle" => tx'[p].stale = Outdated(Bundles' \union {tx'[p].id})
      BY <1>1, <1>2 DEF DataKept, Bundles
    <2>7. todo'[p] = {} /\ pc'[p] = "commit"
      BY <1>1
    <2> QED
      BY <2>4, <2>5, <2>6, <2>7 DEF Knows, Putting
  <1> QED
    BY <1>1, <1>3, <1>4, DataKeptKeeps, MovesGive DEF Kept

LEMMA KeptByWrites ==
    ASSUME NEW p \in Clients, Moves(p),
           \/ WriteRevision(p) \/ WriteBundle(p)
           \/ DeleteRevisionRow(p) \/ DeleteBundleRow(p)
    PROVE  Kept(p)
  <1>0. /\ Fits(pc[p], req[p], tx[p], todo[p], clock)
        /\ tx[p] \in Transactions(clock) /\ NoTx \in Transactions(clock)
        /\ clock \in Nat /\ Numbers \subseteq 1 .. clock /\ Bundles \subseteq 1 .. clock
    BY MovesGive DEF Moves, Typed, Shared, Fits, NoTx, Transactions
  <1>1. CASE WriteRevision(p)
    <2> DEFINE t == [tx[p] EXCEPT !.gone = Pruned(tx[p].number),
                                  !.unpin = Unpinned(tx[p].number)]
    <2>1. pc[p] = "rev_write" /\ Write(p, t, t.gone # {})
      BY <1>1 DEF WriteRevision
    <2>2. Pruned(tx[p].number) \in SUBSET (1 .. clock)
          /\ Unpinned(tx[p].number) \in SUBSET Links
      BY <1>0 DEF Pruned, Unpinned
    <2>3. t \in Transactions(clock)
      BY <1>0, <2>2 DEF Transactions
    <2>4. t.gone = Pruned(tx[p].number) /\ t.unpin = Unpinned(tx[p].number)
      BY <1>0 DEF Transactions
    <2>5. req[p].kind = "push" /\ todo[p] = {}
      BY <1>0, <2>1 DEF Fits, KindFits
    <2>6. tx[p].number \in Nat
      BY <1>0 DEF Transactions
    <2>7. \A l \in Links : links[l].rev \in t.gone => l \in t.unpin
      BY <1>0, <2>4, <2>6, ContentAssumption DEF Pruned, Unpinned
    <2> HIDE DEF t
    <2> QED
      BY <2>1, <2>3, <2>5, <2>7, KeptByWrite
  <1>2. CASE WriteBundle(p)
    <2> DEFINE t == [tx[p] EXCEPT !.stale = Outdated(Bundles \union {tx[p].id})]
    <2>1. pc[p] = "bundle_write" /\ Write(p, t, t.stale # {})
      BY <1>2 DEF WriteBundle
    <2>2. req[p].kind = "bundle" /\ todo[p] = {}
      BY <1>0, <2>1 DEF Fits, KindFits
    <2>3. tx[p].id \in 1 .. clock
      BY <1>0, <2>1, <2>2 DEF Fits, Writing, Transactions
    <2>4. Outdated(Bundles \union {tx[p].id}) \in SUBSET (1 .. clock)
      BY <1>0, <2>3 DEF Outdated
    <2>5. t \in Transactions(clock)
      BY <1>0, <2>4 DEF Transactions
    <2>6. t.id = tx[p].id /\ t.gone = tx[p].gone
          /\ t.stale = Outdated(Bundles \union {tx[p].id})
      BY <1>0 DEF Transactions
    <2>7. tx[p].gone = {}
      BY <1>0, <2>2 DEF Fits
    <2> HIDE DEF t
    <2> QED
      BY <2>1, <2>2, <2>5, <2>6, <2>7, KeptByWrite
  <1>3. CASE DeleteRevisionRow(p)
    <2> DEFINE t == [NoTx EXCEPT !.gone = {n \in Numbers : revs[n].id = req[p].target}]
    <2>1. pc[p] = "delete_revision" /\ Write(p, t, TRUE)
      BY <1>3 DEF DeleteRevisionRow
    <2>2. req[p].kind = "delete_revision" /\ todo[p] = {}
      BY <1>0, <2>1 DEF Fits, KindFits
    <2>3. t \in Transactions(clock)
      BY <1>0 DEF Transactions
    <2>4. t.gone = {n \in Numbers : revs[n].id = req[p].target}
      BY <1>0 DEF Transactions
    <2>5. ~overlapped' => \A l \in Links : links[l].rev \in t.gone => l \in t.unpin
      BY <2>1, <2>4, MovesGive DEF Knows
    <2> HIDE DEF t
    <2> QED
      BY <2>1, <2>2, <2>3, <2>5, KeptByWrite
  <1>4. CASE DeleteBundleRow(p)
    <2> DEFINE t == [NoTx EXCEPT !.stale = {req[p].bundle} \intersect Bundles]
    <2>1. pc[p] = "delete_bundle" /\ Write(p, t, TRUE)
      BY <1>4 DEF DeleteBundleRow
    <2>2. req[p].kind = "delete_bundle" /\ todo[p] = {}
      BY <1>0, <2>1 DEF Fits, KindFits
    <2>3. t \in Transactions(clock)
      BY <1>0 DEF Transactions
    <2>4. t.gone = {}
      BY DEF NoTx
    <2> HIDE DEF t
    <2> QED
      BY <2>1, <2>2, <2>3, <2>4, KeptByWrite
  <1> QED
    BY <1>1, <1>2, <1>3, <1>4

LEMMA KeptByPins ==
    ASSUME NEW p \in Clients, Moves(p), InsertShare(p) \/ SetPins(p)
    PROVE  Kept(p)
  <1>1. PICK allowed : Pin(p, allowed)
    BY DEF InsertShare, SetPins
  <1>2. req[p].kind = "share"
    BY MovesGive DEF InsertShare, SetPins, Fits, KindFits
  <1>3. links \in [Links -> [live : BOOLEAN, rev : 0 .. clock, bundle : 0 .. clock]]
    BY DEF Moves, Typed, Shared
  <1>4. Holds(p) /\ Whole => Whole'
    <2>1. /\ UNCHANGED <<objects, blobs, revs, bundles>>
          /\ \/ links' = links
             \/ links' = [links EXCEPT ![req[p].link] =
                            [live |-> TRUE, rev |-> req[p].target, bundle |-> req[p].bundle]]
      BY <1>1 DEF Pin
    <2>2. Numbers' = Numbers /\ Bundles' = Bundles
      BY <2>1 DEF Numbers, Bundles
    <2>3. ASSUME Holds(p), Whole, NEW l \in Links
          PROVE  links'[l].rev \in Numbers \union {0}
      BY <1>2, <1>3, <2>1, <2>3 DEF Holds, Whole
    <2> QED
      BY <2>1, <2>2, <2>3 DEF Whole, ContentComplete
  <1>5. BundlesCapped /\ ~overlapped => BundlesCapped'
    BY <1>1 DEF Pin, BundlesCapped, Bundles
  <1> QED
    BY <1>1, <1>4, <1>5, FinishedHolds, MovesGive DEF Pin, Kept

LEMMA KeptByDeletes ==
    ASSUME NEW p \in Clients, Moves(p), DeleteObject(p)
    PROVE  Kept(p)
  <1>1. PICK h \in todo[p] :
            /\ Remove({h})
            /\ IF todo[p] = {h}
               THEN Finish(p)
               ELSE todo' = [todo EXCEPT ![p] = @ \ {h}] /\ UNCHANGED <<pc, req, tx>>
    BY DEF DeleteObject
  <1>2. /\ UNCHANGED <<blobs, revs, bundles, links, removed>> /\ pc[p] = "delete_objects"
        /\ objects \ {h} \subseteq objects'
    BY <1>1 DEF DeleteObject, database, Remove
  <1>3. removed'
    BY <1>2, Zenon DEF Moves, CalmInv, DeletesAreRemovals
  <1>4. Calm' => ~overlapped'
    BY <1>3, Zenon DEF Calm
  <1>5. Knows(p) /\ Whole => Whole'
    BY <1>1, <1>2 DEF Knows, Whole, ContentComplete, Numbers, Bundles
  <1>6. BundlesCapped /\ ~overlapped => BundlesCapped'
    BY <1>2 DEF BundlesCapped, Bundles
  <1>7. Knows(p) => Holds(p)' /\ Knows(p)'
    <2>1. CASE todo[p] = {h}
      BY <1>1, <2>1, FinishedHolds
    <2>2. CASE todo[p] # {h}
      <3>1. todo'[p] = todo[p] \ {h} /\ UNCHANGED <<pc, req, tx>>
        BY <1>1, <2>2, MovesGive
      <3>2. req[p].kind = "none"
        BY <1>2, MovesGive DEF Fits, KindFits
      <3> QED
        BY <1>2, <3>1, <3>2 DEF Holds, Knows, Putting
    <2> QED
      BY <2>1, <2>2
  <1> QED
    BY <1>4, <1>5, <1>6, <1>7, MovesGive DEF Kept

LEMMA KeptByCommit ==
    ASSUME NEW p \in Clients, Moves(p), Commit(p)
    PROVE  Kept(p)
  <1> DEFINE t == tx[p]
  <1>0. /\ Fits("commit", req[p], t, todo[p], clock) /\ pc[p] = "commit" /\ todo[p] = {}
        /\ t \in Transactions(clock)
        /\ clock \in Nat /\ Numbers \subseteq 1 .. clock /\ Bundles \subseteq 1 .. clock
        /\ links \in [Links -> [live : BOOLEAN, rev : 0 .. clock, bundle : 0 .. clock]]
    <2>1. pc[p] = "commit" /\ Fits(pc[p], req[p], t, todo[p], clock)
      BY MovesGive DEF Commit
    <2>2. todo[p] = {} /\ t \in Transactions(clock)
      BY <2>1 DEF Fits
    <2> QED
      BY <2>1, <2>2 DEF Moves, Typed, Shared
  <1>1. /\ revs' = [n \in (Numbers \ t.gone) \union ({t.number} \ {0}) |->
                      IF n = t.number THEN [id |-> t.id, files |-> req[p].files]
                                      ELSE revs[n]]
        /\ bundles' = [b \in (IF req[p].kind = "bundle" THEN Bundles \union {t.id}
                                                        ELSE Bundles) \ t.stale |->
                         IF b = t.id THEN req[p].files ELSE bundles[b]]
        /\ blobs' = blobs \ t.doomed /\ objects' = objects /\ overlapped' = overlapped
        /\ removed' = (removed \/ t.gone \union t.stale \union t.doomed # {})
    BY DEF Commit
  <1>2. /\ Numbers' = (Numbers \ t.gone) \union ({t.number} \ {0})
        /\ Bundles' = (IF req[p].kind = "bundle" THEN Bundles \union {t.id}
                                                 ELSE Bundles) \ t.stale
    BY <1>1 DEF Numbers, Bundles
  <1>3. \A l \in Links : links'[l].rev = IF l \in t.unpin THEN 0 ELSE links[l].rev
    <2>1. links' = [l \in Links |->
                       [links[l] EXCEPT !.rev = IF l \in t.unpin THEN 0 ELSE @,
                                        !.bundle = IF @ \in t.stale THEN 0 ELSE @]]
      BY DEF Commit
    <2> QED
      BY <1>0, <2>1
  <1>4. Holds(p)'
    <2>1. pc'[p] \in {"idle", "delete_objects"} /\ req'[p] = NoRequest
      BY MovesGive DEF Commit, Finish, Goto
    <2> QED
      BY <2>1 DEF Holds, NoRequest, Putting
  <1>5. Knows(p)'
    <2>1. /\ pc'[p] \in {"idle", "delete_objects"}
          /\ todo'[p] = t.doomed
      BY <1>0, MovesGive DEF Commit, Finish, Goto
    <2> QED
      BY <1>1, <2>1 DEF Knows, Putting
  <1>7. Calm' => ~overlapped' \/ (t.gone = {} /\ t.stale = {} /\ t.doomed = {})
    <2>1. ASSUME ~removed'
          PROVE  t.gone \union t.stale \union t.doomed = {}
      BY <1>1, <2>1, Zenon
    <2> QED
      BY <2>1 DEF Calm
  <1>8. ASSUME Calm'
        PROVE  Whole'
    <2>0. /\ Whole /\ Holds(p) /\ ContentComplete
          /\ \/ Knows(p)
             \/ t.gone = {} /\ t.stale = {} /\ t.doomed = {}
      BY <1>7, <1>8, MovesGive, Zenon DEF Whole
    <2>1. blobs' \subseteq objects'
      BY <1>1, <2>0 DEF Whole
    <2>2. t.doomed \intersect Referenced(req[p].files, t) = {}
      BY <1>0, <2>0 DEF Knows
    <2>3. \A n \in Numbers \ t.gone : revs[n].files \subseteq blobs'
      BY <1>1, <2>0, <2>2 DEF ContentComplete, Referenced
    <2>4. \A b \in Bundles \ t.stale : bundles[b] \subseteq blobs'
      BY <1>1, <2>0, <2>2 DEF ContentComplete, Referenced
    <2>5. req[p].kind \in {"push", "bundle"} /\ t.id \notin t.stale
              => req[p].files \subseteq blobs'
      BY <1>1, <2>0, <2>2 DEF Holds, Referenced
    <2>6. \A n \in Numbers' : revs'[n].files \subseteq blobs'
      <3>1. t.number # 0 => req[p].kind = "push" /\ t.stale = {}
        BY <1>0 DEF Fits
      <3>2. t.number # 0 => req[p].files \subseteq blobs'
        BY <2>5, <3>1
      <3> SUFFICES ASSUME NEW n \in Numbers'
                   PROVE  revs'[n].files \subseteq blobs'
        OBVIOUS
      <3>3. CASE n = t.number
        <4>1. n # 0
          BY <1>0, <1>2, <3>3
        <4> QED
          BY <1>1, <1>2, <3>2, <3>3, <4>1
      <3>4. CASE n # t.number
        BY <1>1, <1>2, <2>3, <3>4
      <3> QED
        BY <3>3, <3>4
    <2>7. \A b \in Bundles' : bundles'[b] \subseteq blobs'
      <3> SUFFICES ASSUME NEW b \in Bundles'
                   PROVE  bundles'[b] \subseteq blobs'
        OBVIOUS
      <3>1. CASE b = t.id
        <4>1. b # 0
          BY <1>0, <1>2, <3>1 DEF Fits, Writing
        <4>2. req[p].kind \in {"push", "bundle"} /\ t.id \notin t.stale
          BY <1>0, <1>2, <3>1, <4>1 DEF Fits
        <4> QED
          BY <1>1, <1>2, <2>5, <3>1, <4>2
      <3>2. CASE b # t.id
        BY <1>1, <1>2, <2>4, <3>2
      <3> QED
        BY <3>1, <3>2
    <2>8. \A l \in Links : links'[l].rev \in Numbers' \union {0}
      <3> SUFFICES ASSUME NEW l \in Links
                   PROVE  links'[l].rev \in Numbers' \union {0}
        OBVIOUS
      <3>1. links[l].rev \in Numbers \union {0}
        BY <2>0 DEF Whole
      <3>2. links[l].rev \in t.gone => l \in t.unpin
        BY <1>0, <2>0 DEF Knows
      <3> QED
        BY <1>2, <1>3, <3>1, <3>2
    <2> QED
      BY <2>1, <2>6, <2>7, <2>8 DEF Whole, ContentComplete
  <1>9. ASSUME ~overlapped'
        PROVE  BundlesCapped'
    <2>0. Knows(p) /\ BundlesCapped /\ ~overlapped
      BY <1>9, MovesGive
    <2>1. IsFiniteSet(Bundles)
      <3>1. IsFiniteSet(1 .. clock)
        BY <1>0, FS_Interval
      <3> QED
        BY <1>0, <3>1, FS_Subset
    <2> SUFFICES ASSUME Keep > 0
                 PROVE  Cardinality(Bundles') <= Keep
      BY DEF BundlesCapped
    <2>2. CASE req[p].kind = "bundle"
      <3> DEFINE S == Bundles \union {t.id}
      <3>1. S \in SUBSET (0 .. clock)
        <4>1. t.id \in 0 .. clock
          BY <1>0 DEF Transactions
        <4>2. Bundles \subseteq 0 .. clock
          BY <1>0
        <4> QED
          BY <4>1, <4>2
      <3>2. t.stale = Outdated(S)
        BY <1>0, <2>0, <2>2 DEF Knows
      <3>3. Outdated(S) = {b \in S : Cardinality({x \in S : x > b}) >= Keep}
        BY DEF Outdated
      <3>4. Bundles' = S \ Outdated(S)
        BY <1>2, <2>2, <3>2
      <3> HIDE DEF S
      <3> QED
        BY <1>0, <3>1, <3>3, <3>4, NewestHold, ContentAssumption
    <2>3. CASE req[p].kind # "bundle"
      <3>1. Bundles' \subseteq Bundles
        BY <1>2, <2>3
      <3>2. Cardinality(Bundles') <= Cardinality(Bundles) /\ IsFiniteSet(Bundles')
        BY <2>1, <3>1, FS_Subset
      <3>3. Cardinality(Bundles) \in Nat /\ Cardinality(Bundles') \in Nat
        BY <2>1, <3>2, FS_CardinalityType
      <3>4. Cardinality(Bundles) <= Keep
        BY <2>0 DEF BundlesCapped
      <3> QED
        BY <3>2, <3>3, <3>4, ContentAssumption
    <2> QED
      BY <2>2, <2>3
  <1> QED
    BY <1>4, <1>5, <1>8, <1>9 DEF Kept

LEMMA KeptByStep ==
    ASSUME NEW p \in Clients, Moves(p)
    PROVE  Kept(p)
  <1>1. CASE StaleParent(p) \/ Fail(p)
    <2>1. Finish(p) /\ DataKept
      BY <1>1 DEF StaleParent, Fail, database, DataKept
    <2> QED
      BY <2>1, KeptByAnswers
  <1>2. CASE Receives(p)
    BY <1>2, ReceivesIncoming, KeptByReceives, KeptByDeleteShare DEF Moves
  <1> QED
    BY <1>1, <1>2, KeptByPuts, KeptByBegins, KeptByWrites, KeptByPins, KeptByCommit,
       KeptByDeletes
    DEF Moves, Advance

LEMMA CalmStep ==
    ASSUME NEW p \in Clients, Moves(p)
    PROVE  CalmInv'
  <1>1. Kept(p)
    BY KeptByStep
  <1>2. Solo' /\ DeletesAreRemovals'
    BY SoloStep, DeletesRemoveStep DEF Moves, CalmInv
  <1>3. \A q \in Clients \ {p} : (Calm' => Holds(q)') /\ (~overlapped' => Knows(q)')
    BY OthersHold DEF Moves
  <1>4. Calm' => Whole' /\ \A q \in Clients : Holds(q)'
    BY <1>1, <1>3 DEF Kept
  <1>5. ~overlapped' => BundlesCapped' /\ \A q \in Clients : Knows(q)'
    BY <1>1, <1>3 DEF Kept
  <1> QED
    BY <1>2, <1>4, <1>5 DEF CalmInv

LEMMA InitCalm == Init => CalmInv
  <1> SUFFICES ASSUME Init
               PROVE  CalmInv
    OBVIOUS
  <1>1. /\ objects = {} /\ blobs = {} /\ Numbers = {} /\ Bundles = {}
        /\ \A p \in Clients : pc[p] = "idle" /\ req[p] = NoRequest /\ todo[p] = {}
        /\ \A l \in Links : links[l].rev = 0
    BY DEF Init, Numbers, Bundles, NoLink
  <1>2. Solo /\ DeletesAreRemovals
    BY <1>1 DEF Solo, DeletesAreRemovals, Busy
  <1>3. Whole
    BY <1>1 DEF Whole, ContentComplete
  <1>4. \A p \in Clients : Holds(p) /\ Knows(p)
    BY <1>1 DEF Holds, Knows, NoRequest, Putting
  <1>5. BundlesCapped
    BY <1>1, FS_EmptySet, ContentAssumption DEF BundlesCapped
  <1> QED
    BY <1>2, <1>3, <1>4, <1>5 DEF CalmInv

LEMMA StutterCalm == CalmInv /\ UNCHANGED vars => CalmInv'
  <1> SUFFICES ASSUME CalmInv, UNCHANGED vars
               PROVE  CalmInv'
    OBVIOUS
  <1>1. /\ UNCHANGED <<objects, blobs, revs, bundles, links, pc, req, tx, todo>>
        /\ UNCHANGED <<overlapped, removed>>
    BY DEF vars, database, request, history
  <1>2. Numbers' = Numbers /\ Bundles' = Bundles
    BY <1>1 DEF Numbers, Bundles
  <1>3. Solo' = Solo /\ DeletesAreRemovals' = DeletesAreRemovals /\ Calm' = Calm
    BY <1>1 DEF Solo, DeletesAreRemovals, Busy, Calm
  <1>4. Whole' = Whole /\ BundlesCapped' = BundlesCapped
    BY <1>1, <1>2 DEF Whole, ContentComplete, BundlesCapped
  <1>5. \A p \in Clients : Holds(p)' = Holds(p)
    BY <1>1, <1>2 DEF Holds
  <1>6. \A p \in Clients : Knows(p)' = Knows(p)
    BY <1>1, <1>2 DEF Knows, Referenced, Outdated
  <1> QED
    BY <1>1, <1>3, <1>4, <1>5, <1>6 DEF CalmInv

LEMMA CalmAlways == Spec => [](Typed /\ Serialized /\ CalmInv)
  <1>1. Typed /\ Serialized /\ CalmInv /\ [Next]_vars => CalmInv'
    BY CalmStep, StutterCalm DEF Next, Moves
  <1> QED
    BY SerializedAlways, InitCalm, <1>1, PTL DEF Spec

-----------------------------------------------------------------------------
(* The theorems. *)

(***************************************************************************)
(* Pruning keeps what the plan keeps: no interleaving of pushes and        *)
(* deletions leaves more revisions than that, and one request at a time no *)
(* more bundles.                                                           *)
(***************************************************************************)
THEOREM PlanIsKept == Spec => []Capped
  <1>1. Typed /\ Serialized /\ CalmInv => Capped
    <2> SUFFICES ASSUME Typed, Serialized, CalmInv
                 PROVE  Capped
      OBVIOUS
    <2>1. RevisionsCapped
      <3> SUFFICES ASSUME Keep > 0
                   PROVE  Cardinality(Numbers) <= Keep
        BY DEF RevisionsCapped
      <3>1. Numbers \in SUBSET Nat
        BY DEF Typed, Shared
      <3>2. \A m, n \in Numbers : m - n < Keep
        BY DEF Serialized, Windowed
      <3> HIDE DEF Numbers
      <3> QED
        BY <3>1, <3>2, WindowHolds, ContentAssumption
    <2>2. BundlesCapped
      BY DEF CalmInv, BundlesCapped
    <2> QED
      BY <2>1, <2>2 DEF Capped
  <1> QED
    BY CalmAlways, <1>1, PTL

(***************************************************************************)
(* A row of the blobs table has its bytes in the store, or a request is    *)
(* taking them back, while requests do not overlap or nothing is removed.  *)
(***************************************************************************)
THEOREM RowsHaveBytes == Spec => []BytesBehindRows
  <1>1. CalmInv => BytesBehindRows
    BY DEF CalmInv, Whole, BytesBehindRows
  <1> QED
    BY CalmAlways, <1>1, PTL

\* The foreign key of a link's bundle needs no calm.
LEMMA BundlePinsStep ==
    ASSUME Typed, BundlePinsResolve, NEW p \in Clients, Receives(p) \/ Advance(p) \/ Fail(p)
    PROVE  BundlePinsResolve'
  <1>0. links \in [Links -> [live : BOOLEAN, rev : 0 .. clock, bundle : 0 .. clock]]
    BY DEF Typed, Shared
  <1>1. CASE UNCHANGED <<bundles, links>>
    BY <1>1 DEF BundlePinsResolve, Bundles
  <1>2. CASE \E l \in Links : DeleteShare(p, l)
    BY <1>0, <1>2 DEF DeleteShare, BundlePinsResolve, Bundles, NoLink
  <1>3. CASE InsertShare(p) \/ SetPins(p)
    BY <1>0, <1>3 DEF InsertShare, SetPins, Pin, BundlePinsResolve, Bundles
  <1>4. CASE Commit(p)
    <2>1. Bundles' = (IF req[p].kind = "bundle" THEN Bundles \union {tx[p].id}
                                                ELSE Bundles) \ tx[p].stale
      BY <1>4 DEF Commit, Bundles
    <2>2. \A l \in Links :
            links'[l].bundle = IF links[l].bundle \in tx[p].stale THEN 0 ELSE links[l].bundle
      <3>1. links' = [l \in Links |->
                       [links[l] EXCEPT !.rev = IF l \in tx[p].unpin THEN 0 ELSE @,
                                        !.bundle = IF @ \in tx[p].stale THEN 0 ELSE @]]
        BY <1>4 DEF Commit
      <3> QED
        BY <1>0, <3>1
    <2> QED
      BY <2>1, <2>2 DEF BundlePinsResolve
  <1>5. CASE \E r, step : Incoming(r, step) /\ Read(r) /\ Receive(p, r, step)
    BY <1>1, <1>5 DEF Receive, database
  <1>6. CASE PutStore(p) \/ PutCheck(p) \/ PutUndo(p) \/ PutRecord(p) \/ LockGame(p)
             \/ StaleParent(p) \/ BeginBundle(p) \/ DeleteObject(p) \/ Fail(p)
    BY <1>1, <1>6 DEF PutStore, PutCheck, PutUndo, PutRecord, LockGame, StaleParent,
                      BeginBundle, DeleteObject, Fail, database
  <1>7. CASE WriteRevision(p) \/ WriteBundle(p) \/ DeleteRevisionRow(p) \/ DeleteBundleRow(p)
    BY <1>1, <1>7 DEF WriteRevision, WriteBundle, DeleteRevisionRow, DeleteBundleRow, Write,
                      database
  <1> QED
    BY <1>2, <1>3, <1>4, <1>5, <1>6, <1>7, ReceivesIncoming DEF Advance

(***************************************************************************)
(* The pins of share links resolve: a pinned bundle is always there, a     *)
(* pinned revision while requests do not overlap or nothing is removed.    *)
(***************************************************************************)
THEOREM LinksResolve == Spec => []PinsResolve
  <1>1. Init => BundlePinsResolve
    BY DEF Init, BundlePinsResolve, NoLink
  <1>2. Typed /\ BundlePinsResolve /\ [Next]_vars => BundlePinsResolve'
    <2>1. BundlePinsResolve /\ UNCHANGED vars => BundlePinsResolve'
      BY DEF vars, database, BundlePinsResolve, Bundles
    <2> QED
      BY <2>1, BundlePinsStep DEF Next
  <1>3. CalmInv => RevisionPinsResolve
    BY DEF CalmInv, Whole, RevisionPinsResolve
  <1> QED
    BY CalmAlways, TypedAlways, <1>1, <1>2, <1>3, PTL DEF Spec, PinsResolve

-----------------------------------------------------------------------------
(* Objects without a row. *)

\* Whatever p adds to the store, takes from the table or lets go of is in the
\* table, abandoned or held by p afterwards.
Accounted(p) ==
    \A h \in objects' :
        h \notin objects \/ h \in blobs \/ h \in abandoned \/ h \in Holding(p) =>
            h \in blobs' \/ h \in abandoned' \/ h \in Holding(p)'

LEMMA AccountedByStep ==
    ASSUME Typed, NEW p \in Clients, Receives(p) \/ Advance(p) \/ Fail(p)
    PROVE  Accounted(p)
  <1>0. /\ Fits(pc[p], req[p], tx[p], todo[p], clock)
        /\ pc = [q \in Clients |-> pc[q]] /\ req = [q \in Clients |-> req[q]]
        /\ todo = [q \in Clients |-> todo[q]]
    BY DEF Typed, Own, PerClient
  <1>1. ASSUME objects' = objects, blobs' = blobs, abandoned \subseteq abandoned',
               Holding(p) \subseteq Holding(p)' \union abandoned'
        PROVE  Accounted(p)
    BY <1>1 DEF Accounted
  <1>2. pc[p] # "delete_objects" => todo[p] = {}
    BY <1>0 DEF Fits
  <1>3. CASE \E r, step : Incoming(r, step) /\ Read(r) /\ Receive(p, r, step)
    <2>1. pc[p] = "idle" /\ UNCHANGED <<objects, blobs, abandoned>>
      BY <1>3 DEF Receive, Busy, database
    <2>2. Holding(p) = {}
      BY <1>2, <2>1 DEF Holding
    <2> QED
      BY <1>1, <2>1, <2>2
  <1>4. CASE \E l \in Links : DeleteShare(p, l)
    <2>1. UNCHANGED <<objects, blobs, abandoned, pc, req, todo>>
      BY <1>4 DEF DeleteShare, request
    <2> QED
      BY <1>1, <2>1 DEF Holding
  <1>5. CASE PutStore(p)
    BY <1>0, <1>2, <1>5 DEF PutStore, Goto, request, database, history, Accounted, Holding
  <1>6. CASE PutCheck(p)
    BY <1>0, <1>6 DEF PutCheck, Goto, request, database, history, Accounted, Holding
  <1>7. CASE PutUndo(p)
    BY <1>7 DEF PutUndo, Remove, database, Accounted, Holding
  <1>8. CASE PutRecord(p)
    BY <1>8 DEF PutRecord, history, Accounted, Holding
  <1>9. CASE StaleParent(p) \/ InsertShare(p) \/ SetPins(p)
    <2>1. /\ UNCHANGED <<objects, blobs, abandoned>>
          /\ pc[p] \in {"rev_lock", "share_insert", "share_update"}
      BY <1>9 DEF StaleParent, InsertShare, SetPins, Pin, database, history
    <2>2. Holding(p) = {}
      BY <1>2, <2>1 DEF Holding
    <2> QED
      BY <1>1, <2>1, <2>2
  <1>10. CASE LockGame(p) \/ BeginBundle(p) \/ WriteRevision(p) \/ WriteBundle(p)
              \/ DeleteRevisionRow(p) \/ DeleteBundleRow(p)
    <2>1. /\ UNCHANGED <<objects, blobs, abandoned>>
          /\ pc[p] \in {"rev_lock", "bundle_begin", "rev_write", "bundle_write",
                        "delete_revision", "delete_bundle"}
      BY <1>10 DEF LockGame, BeginBundle, WriteRevision, WriteBundle, DeleteRevisionRow,
                   DeleteBundleRow, Write, database, history
    <2>2. Holding(p) = {}
      BY <1>2, <2>1 DEF Holding
    <2> QED
      BY <1>1, <2>1, <2>2
  <1>11. CASE Commit(p)
    <2>1. /\ pc[p] = "commit" /\ objects' = objects /\ abandoned' = abandoned
          /\ blobs' = blobs \ tx[p].doomed
          /\ pc'[p] \in {"idle", "delete_objects"} /\ todo'[p] = tx[p].doomed
      BY <1>0, <1>11 DEF Commit, Finish, Goto
    <2>2. Holding(p) = {} /\ Holding(p)' = tx[p].doomed
      BY <1>2, <2>1 DEF Holding
    <2> QED
      BY <2>1, <2>2 DEF Accounted
  <1>12. CASE DeleteObject(p)
    <2>1. PICK h \in todo[p] :
              /\ Remove({h})
              /\ IF todo[p] = {h}
                 THEN Finish(p)
                 ELSE todo' = [todo EXCEPT ![p] = @ \ {h}] /\ UNCHANGED <<pc, req, tx>>
      BY <1>12 DEF DeleteObject
    <2>2. blobs' = blobs /\ pc[p] = "delete_objects"
      BY <1>12 DEF DeleteObject, database
    <2>3. Holding(p) = todo[p] /\ Holding(p)' = todo[p] \ {h}
      <3>1. CASE todo[p] = {h}
        BY <1>0, <2>1, <2>2, <3>1 DEF Holding, Finish, Goto
      <3>2. CASE todo[p] # {h}
        BY <1>0, <2>1, <2>2, <3>2 DEF Holding
      <3> QED
        BY <3>1, <3>2
    <2> QED
      BY <2>1, <2>2, <2>3 DEF Remove, Accounted
  <1>13. CASE Fail(p)
    BY <1>1, <1>13 DEF Fail, database
  <1> QED
    BY <1>3, <1>4, <1>5, <1>6, <1>7, <1>8, <1>9, <1>10, <1>11, <1>12, <1>13, ReceivesIncoming
    DEF Advance

LEMMA NoOrphansStep ==
    ASSUME Typed, NoOrphanObjects, NEW p \in Clients, Receives(p) \/ Advance(p) \/ Fail(p)
    PROVE  NoOrphanObjects'
  <1> SUFFICES ASSUME NEW h \in objects'
               PROVE  h \in blobs' \union abandoned'
                          \/ \E q \in Clients : h \in Holding(q)'
    BY DEF NoOrphanObjects
  <1>1. \A q \in Clients \ {p} : Holding(q)' = Holding(q)
    BY StepTyped DEF OthersKeep, Holding
  <1>2. CASE h \notin objects \/ h \in blobs \/ h \in abandoned \/ h \in Holding(p)
    BY <1>2, AccountedByStep DEF Accounted
  <1>3. CASE h \in objects /\ h \notin blobs /\ h \notin abandoned /\ h \notin Holding(p)
    <2>1. PICK q \in Clients : h \in Holding(q)
      BY <1>3 DEF NoOrphanObjects
    <2> QED
      BY <1>1, <1>3, <2>1
  <1> QED
    BY <1>2, <1>3

(***************************************************************************)
(* What a game is made of is kept, and nothing else is: an object of the   *)
(* store without a row is held by a request, or its removal has failed;    *)
(* and the files of every revision and bundle are recorded while requests  *)
(* do not overlap or nothing is removed.                                   *)
(***************************************************************************)
THEOREM ContentStaysWhole == Spec => []ContentKept
  <1>1. Init => NoOrphanObjects
    BY DEF Init, NoOrphanObjects
  <1>2. Typed /\ NoOrphanObjects /\ [Next]_vars => NoOrphanObjects'
    <2>1. NoOrphanObjects /\ UNCHANGED vars => NoOrphanObjects'
      BY DEF vars, database, request, history, NoOrphanObjects, Holding
    <2> QED
      BY <2>1, NoOrphansStep DEF Next
  <1>3. CalmInv => ContentCompleteCalm
    BY DEF CalmInv, Whole, ContentCompleteCalm
  <1> QED
    BY CalmAlways, TypedAlways, ContentTypes, <1>1, <1>2, <1>3, PTL DEF Spec, ContentKept

-----------------------------------------------------------------------------
(***************************************************************************)
(* What the store's content is for: the hosted games.  That nobody gets    *)
(* through the doors of one without access, and that a revision is         *)
(* answered from its own math, for any number of requests, revisions and   *)
(* mounts.                                                                 *)
(*                                                                         *)
(* What a step may do is said once per variable: a request moves on within *)
(* its kind (Sound), whoever is past a door was a member while asking      *)
(* (Entered), and whatever bears the number of a revision bears a revision *)
(* the number has named (Named).                                           *)
(***************************************************************************)

HostSteps == {"idle", "member", "granted", "resolve", "front_member", "front", "stream",
          "ensure", "register", "forward", "served", "refused", "failed"}

HostRequests == [pc : HostSteps, mount : Mounts, number : Nat, rev : Nat, ever : BOOLEAN]

HostTyped ==
  /\ born \in Nat /\ born <= MaxRevs
  /\ rows \in [RevNumbers -> 0 .. born] /\ names \in [RevNumbers -> 0 .. born]
  /\ member \in BOOLEAN /\ hour \in 0 .. Hours
  /\ token \in [rev : 0 .. born, until : 0 .. 2 * Hours]
  /\ disk \in [Mounts -> [RevNumbers -> 0 .. born]]
  /\ engine \in [Mounts -> [RevNumbers -> 0 .. MaxRevs + 1]]
  /\ warming \subseteq RevNumbers /\ preload \subseteq RevNumbers
  /\ fronts \in Nat
  /\ serving \in [Reqs -> HostRequests]
  /\ \A r \in Reqs : serving[r].rev <= born

(* What a request is about at each of its steps: those for the front have no
   revision, those in the host have one, and an engine from the registration. *)
Sound(r) ==
  LET q == serving[r] IN
  /\ q.pc \in {"idle", "front_member", "front", "stream"} => q.rev = 0
  /\ q.pc \in {"member", "granted", "resolve", "front_member", "front", "stream"}
       => q.mount = "workbench"
  /\ q.pc \in {"granted", "ensure", "register", "forward"} => q.rev # 0
  /\ q.pc \in {"member", "resolve"} => q.number \in RevNumbers
  /\ q.rev # 0 => q.number \in RevNumbers
  /\ q.pc = "forward" => engine[q.mount][q.number] # NoTenant
  /\ q.pc = "served" /\ q.rev # 0 => engine[q.mount][q.number] \in 1 .. MaxRevs

AllSound == \A r \in Reqs : Sound(r)

(* A member has been one while each of the requests was under way, and whoever
   is past the check of the membership has been one. *)
Entered == \A r \in Reqs :
  /\ member /\ serving[r].pc # "idle" => serving[r].ever
  /\ /\ serving[r].mount = "workbench"
     /\ serving[r].pc \notin {"idle", "member", "granted", "front_member", "refused"}
     => serving[r].ever

(* Revision v is, or is being served, under number n. *)
Bears(n, v) ==
  /\ v # 0
  /\ \/ v = rows[n]
     \/ \E m \in Mounts : v = disk[m][n]
     \/ \E m \in Mounts : v = engine[m][n] /\ v # NoTenant
     \/ \E r \in Reqs : v = serving[r].rev /\ serving[r].number = n

(* A number that has named one revision bears no other. *)
Named ==
  \A n \in RevNumbers :
    /\ names[n] = 0 => \A v \in Nat : ~Bears(n, v)
    /\ names[n] = 1 => \A v, w \in Nat : Bears(n, v) /\ Bears(n, w) => v = w

(* A warm-up under way has its tenant, and a tenant that was warmed up and is
   not being warmed up has its books. *)
Warmed ==
  /\ \A t \in preload : engine["workbench"][t] # NoTenant
  /\ \A t \in warming : t \in preload \/ engine["workbench"][t] \in 1 .. MaxRevs

HostInv == HostTyped /\ AllSound /\ Entered /\ Named /\ Warmed

-----------------------------------------------------------------------------

LEMMA HostInitial ==
  ASSUME HostInit
  PROVE  HostInv
<1> USE HostAssumption DEF HostInit, Idle, NoToken, NoTenant, Cold
<1>1. HostTyped
  BY DEF HostTyped, HostRequests, HostSteps
<1>2. AllSound /\ Entered
  BY DEF AllSound, Sound, Entered
<1>3. Named
  BY DEF Named, Bears
<1>4. Warmed
  BY DEF Warmed
<1> QED
  BY <1>1, <1>2, <1>3, <1>4 DEF HostInv

-----------------------------------------------------------------------------
(* The type, action by action.                                             *)

LEMMA ArriveTyped ==
  ASSUME HostTyped,
         NEW r \in Reqs, NEW step \in HostSteps, NEW m \in Mounts, NEW n \in Nat,
         NEW v \in 0 .. born, Arrive(r, step, m, n, v)
  PROVE  HostTyped'
BY HostAssumption DEF HostTyped, HostRequests, Arrive, world, process

LEMMA MovesTyped ==
  ASSUME HostTyped, UNCHANGED world,
         NEW r \in Reqs, NEW step \in HostSteps, To(r, step),
         disk' \in [Mounts -> [RevNumbers -> 0 .. born]],
         engine' \in [Mounts -> [RevNumbers -> 0 .. MaxRevs + 1]],
         warming' \subseteq RevNumbers, preload' \subseteq RevNumbers
  PROVE  HostTyped'
BY HostAssumption DEF HostTyped, HostRequests, To, world

(* What happens around the requests; n is the number it is about, if any. *)
AroundSteps(n) ==
  \/ /\ n \in RevNumbers
     /\ Push(n) \/ DropRevision(n) \/ Mint(n) \/ EvictWorkbench(n) \/ EvictShare(n)
  \/ Leave \/ Rejoin \/ PushFront \/ Tick \/ Restart

LEMMA AroundTyped ==
  ASSUME HostTyped, NEW n, AroundSteps(n)
  PROVE  HostTyped'
<1> USE HostAssumption DEF HostTyped
<1>1. CASE n \in RevNumbers /\ Push(n)
  BY <1>1 DEF Push, process, HostRequests
<1>2. CASE n \in RevNumbers /\ DropRevision(n)
  BY <1>2 DEF DropRevision, process, NoToken
<1>3. CASE n \in RevNumbers /\ Mint(n)
  BY <1>3 DEF Mint, process
<1>4. CASE Leave
  BY <1>4 DEF Leave, process
<1>5. CASE Rejoin
  BY <1>5 DEF Rejoin, Seen, HostRequests, process
<1>6. CASE PushFront
  BY <1>6 DEF PushFront, process
<1>7. CASE Tick
  BY <1>7 DEF Tick, process
<1>8. CASE Restart
  BY <1>8 DEF Restart, Idle, NoTenant, HostRequests, HostSteps
<1>9. CASE n \in RevNumbers /\ EvictWorkbench(n)
  BY <1>9 DEF EvictWorkbench, world, process
<1>10. CASE n \in RevNumbers /\ EvictShare(n)
  BY <1>10 DEF EvictShare, world, process
<1> QED
  BY <1>1, <1>2, <1>3, <1>4, <1>5, <1>6, <1>7, <1>8, <1>9, <1>10 DEF AroundSteps

LEMMA LoadedTyped ==
  ASSUME HostTyped, NEW m \in Mounts, NEW t \in RevNumbers
  PROVE  /\ Loaded(m, t) \in 0 .. MaxRevs + 1
         /\ engine[m][t] # NoTenant => Loaded(m, t) \in 0 .. MaxRevs
BY HostAssumption DEF HostTyped, Loaded, NoTenant, Cold

LEMMA RegisterTyped ==
  ASSUME HostTyped, NEW m \in Mounts, NEW t \in RevNumbers, GetOrCreate(m, t)
  PROVE  /\ engine' \in [Mounts -> [RevNumbers -> 0 .. MaxRevs + 1]]
         /\ engine'[m][t] # NoTenant
         /\ \A k \in Mounts, j \in RevNumbers :
              engine'[k][j] = engine[k][j] \/ (engine[k][j] = NoTenant /\ engine'[k][j] = Cold)
BY HostAssumption DEF HostTyped, GetOrCreate, NoTenant, Cold

(* A token leads to the number its revision has now. *)
LEMMA GrantedNumber ==
  ASSUME HostTyped, Granted
  PROVE  /\ Number(token.rev) \in RevNumbers
         /\ rows[Number(token.rev)] = token.rev
         /\ token.rev \in 1 .. born
<1>1. \E n \in RevNumbers : rows[n] = token.rev
  BY DEF Granted
<1>2. token.rev \in 0 .. born /\ token.rev # 0 /\ born \in Nat
  BY DEF Granted, HostTyped
<1> QED
  BY <1>1, <1>2 DEF Number

LEMMA RequestTyped ==
  ASSUME HostTyped, AllSound, NEW r \in Reqs,
         \/ \E n \in RevNumbers : Dispatch(r, n) \/ DispatchShare(r, n)
         \/ \E b \in 1 .. MaxFronts : ServePinnedFront(r, b)
         \/ DispatchWorkbench(r) \/ ServeFront(r)
         \/ CheckMember(r) \/ ResolveGameAndRevision(r) \/ FrontManifest(r) \/ StreamEntry(r)
         \/ EnsureWorkbench(r) \/ EnsureShare(r) \/ RegisterWorkbench(r) \/ RegisterShare(r)
         \/ Forward(r) \/ Answer(r)
  PROVE  HostTyped'
<1>t. /\ serving[r] \in HostRequests /\ serving[r].rev <= born /\ born \in Nat
      /\ "workbench" \in Mounts /\ 0 \in 0 .. born /\ 0 \in Nat /\ RevNumbers \subseteq Nat
      /\ serving[r].rev \in 0 .. born
  BY HostAssumption DEF HostTyped, HostRequests
<1>s. Sound(r)
  BY DEF AllSound
<1>u. /\ disk \in [Mounts -> [RevNumbers -> 0 .. born]]
      /\ engine \in [Mounts -> [RevNumbers -> 0 .. MaxRevs + 1]]
      /\ warming \subseteq RevNumbers /\ preload \subseteq RevNumbers
  BY DEF HostTyped
<1>1. ASSUME NEW n \in RevNumbers, Dispatch(r, n) PROVE HostTyped'
  <2>1. Arrive(r, "member", "workbench", n, 0)
    BY <1>1 DEF Dispatch
  <2> QED
    BY <2>1, <1>t, ArriveTyped DEF HostSteps
<1>2. ASSUME NEW n \in RevNumbers, DispatchShare(r, n) PROVE HostTyped'
  <2>1. Arrive(r, "ensure", "share", n, rows[n]) /\ "share" \in Mounts
    BY <1>2 DEF DispatchShare
  <2>2. rows[n] \in 0 .. born
    BY DEF HostTyped
  <2> QED
    BY <2>1, <2>2, <1>t, ArriveTyped DEF HostSteps
<1>3. ASSUME NEW b \in 1 .. MaxFronts, ServePinnedFront(r, b) PROVE HostTyped'
  <2>1. Arrive(r, "front_member", "workbench", b, 0) /\ b \in Nat
    BY <1>3, HostAssumption DEF ServePinnedFront
  <2> QED
    BY <2>1, <1>t, ArriveTyped DEF HostSteps
<1>4. CASE DispatchWorkbench(r)
  <2>1. Arrive(r, "granted", "workbench", Number(token.rev), token.rev) /\ Granted
    BY <1>4 DEF DispatchWorkbench
  <2>2. Number(token.rev) \in RevNumbers /\ token.rev \in 0 .. born
    BY <2>1, GrantedNumber DEF HostTyped
  <2> QED
    BY <2>1, <2>2, <1>t, ArriveTyped DEF HostSteps
<1>5. CASE ServeFront(r)
  <2>1. Arrive(r, "front_member", "workbench", 0, 0)
    BY <1>5 DEF ServeFront
  <2> QED
    BY <2>1, <1>t, ArriveTyped DEF HostSteps
<1>6. CASE CheckMember(r) \/ FrontManifest(r) \/ StreamEntry(r)
  <2>1. UNCHANGED <<world, disk, process>> /\ \E step \in HostSteps : To(r, step)
    BY <1>6 DEF CheckMember, FrontManifest, StreamEntry, HostSteps
  <2> QED
    BY <2>1, <1>u, MovesTyped DEF process
<1>7. CASE ResolveGameAndRevision(r)
  <2>1. serving[r].number \in RevNumbers
    BY <1>7, <1>s DEF ResolveGameAndRevision, Sound
  <2>2. rows[serving[r].number] \in 0 .. born
    BY <2>1 DEF HostTyped
  <2>3. /\ UNCHANGED <<world, disk, process>>
        /\ serving' = [serving EXCEPT ![r].pc = IF rows[serving[r].number] = 0 THEN "refused" ELSE "ensure",
                             ![r].rev = rows[serving[r].number]]
    BY <1>7 DEF ResolveGameAndRevision
  <2> DEFINE v == rows[serving[r].number]
             moved == [serving[r] EXCEPT !.pc = IF v = 0 THEN "refused" ELSE "ensure", !.rev = v]
  <2>a. v \in Nat /\ v <= born
    BY <2>2, <1>t
  <2>b. moved \in HostRequests /\ moved.rev = v
    BY <2>a, <1>t DEF HostRequests, HostSteps
  <2>c. serving' = [serving EXCEPT ![r] = moved]
    BY <2>3
  <2> HIDE DEF moved, v
  <2>4. serving' \in [Reqs -> HostRequests] /\ \A q \in Reqs : serving'[q].rev <= born
    BY <2>a, <2>b, <2>c DEF HostTyped
  <2> QED
    BY <2>3, <2>4 DEF HostTyped, world, process
<1>8. CASE EnsureWorkbench(r)
  <2>1. /\ UNCHANGED <<world, process>> /\ \E step \in HostSteps : To(r, step)
        /\ disk' = disk \/ disk' = [disk EXCEPT !["workbench"][serving[r].number] = serving[r].rev]
    BY <1>8 DEF EnsureWorkbench, HostSteps
  <2> DEFINE m == "workbench"
             kept == [disk[m] EXCEPT ![serving[r].number] = serving[r].rev]
  <2>m. m \in Mounts => kept \in [RevNumbers -> 0 .. born]
    BY <1>t, <1>u
  <2>e. [disk EXCEPT ![m][serving[r].number] = serving[r].rev] = [disk EXCEPT ![m] = kept]
    OBVIOUS
  <2>k. [disk EXCEPT ![m] = kept] \in [Mounts -> [RevNumbers -> 0 .. born]]
    <3> HIDE DEF kept, m
    <3> QED
      BY <2>m, <1>u
  <2>2. disk' \in [Mounts -> [RevNumbers -> 0 .. born]]
    BY <2>1, <2>e, <2>k, <1>u
  <2> QED
    BY <2>1, <2>2, <1>u, MovesTyped DEF process
<1>9. CASE EnsureShare(r)
  <2>1. /\ UNCHANGED <<world, process>> /\ \E step \in HostSteps : To(r, step)
        /\ disk' = disk \/ disk' = [disk EXCEPT !["share"][serving[r].number] = serving[r].rev]
    BY <1>9 DEF EnsureShare, HostSteps
  <2> DEFINE m == "share"
             kept == [disk[m] EXCEPT ![serving[r].number] = serving[r].rev]
  <2>m. m \in Mounts => kept \in [RevNumbers -> 0 .. born]
    BY <1>t, <1>u
  <2>e. [disk EXCEPT ![m][serving[r].number] = serving[r].rev] = [disk EXCEPT ![m] = kept]
    OBVIOUS
  <2>k. [disk EXCEPT ![m] = kept] \in [Mounts -> [RevNumbers -> 0 .. born]]
    <3> HIDE DEF kept, m
    <3> QED
      BY <2>m, <1>u
  <2>2. disk' \in [Mounts -> [RevNumbers -> 0 .. born]]
    BY <2>1, <2>e, <2>k, <1>u
  <2> QED
    BY <2>1, <2>2, <1>u, MovesTyped DEF process
<1>10. CASE RegisterWorkbench(r)
  <2>1. serving[r].number \in RevNumbers
    BY <1>10, <1>s DEF RegisterWorkbench, Sound
  <2>2. /\ GetOrCreate("workbench", serving[r].number) /\ To(r, "forward") /\ UNCHANGED <<world, disk>>
        /\ preload' \subseteq preload \cup {serving[r].number}
        /\ warming' = warming \cup {serving[r].number}
    BY <1>10 DEF RegisterWorkbench, Tenant
  <2>3. engine' \in [Mounts -> [RevNumbers -> 0 .. MaxRevs + 1]]
    BY <2>1, <2>2, <1>t, RegisterTyped
  <2>4. warming' \subseteq RevNumbers /\ preload' \subseteq RevNumbers
    BY <2>1, <2>2, <1>u
  <2> QED
    BY <2>2, <2>3, <2>4, <1>u, MovesTyped DEF HostSteps
<1>11. CASE RegisterShare(r)
  <2>1. serving[r].number \in RevNumbers /\ "share" \in Mounts
    BY <1>11, <1>s, <1>t DEF RegisterShare, Sound, HostRequests
  <2>2. /\ GetOrCreate("share", serving[r].number) /\ To(r, "forward")
        /\ UNCHANGED <<world, disk, warming, preload>>
    BY <1>11 DEF RegisterShare, Tenant
  <2>3. engine' \in [Mounts -> [RevNumbers -> 0 .. MaxRevs + 1]]
    BY <2>1, <2>2, RegisterTyped
  <2> QED
    BY <2>2, <2>3, <1>u, MovesTyped DEF HostSteps
<1>12. CASE Forward(r)
  <2> DEFINE m == serving[r].mount
             t == serving[r].number
  <2>1. m \in Mounts /\ t \in RevNumbers
    BY <1>12, <1>s, <1>t DEF Forward, Sound, HostRequests
  <2>2. /\ engine' = [engine EXCEPT ![m][t] = Loaded(m, t)]
        /\ UNCHANGED <<world, disk, warming, preload>>
        /\ \E step \in HostSteps : To(r, step)
    BY <1>12 DEF Forward, Tenant, HostSteps
  <2>3. Loaded(m, t) \in 0 .. MaxRevs + 1
    BY <2>1, LoadedTyped
  <2>4. engine' \in [Mounts -> [RevNumbers -> 0 .. MaxRevs + 1]]
    BY <2>1, <2>2, <2>3, <1>u
  <2> QED
    BY <2>2, <2>4, <1>u, MovesTyped
<1>13. CASE Answer(r)
  BY <1>13, <1>t DEF Answer, HostTyped, HostRequests, Idle, HostSteps, world, process
<1> QED
  BY <1>1, <1>2, <1>3, <1>4, <1>5, <1>6, <1>7, <1>8, <1>9, <1>10, <1>11, <1>12, <1>13

-----------------------------------------------------------------------------
(* What engines and requests keep.                                         *)

(* No engine loses its tenant, nor the books it has read. *)
EnginesKept ==
  \A m \in Mounts, n \in RevNumbers :
    /\ engine[m][n] # NoTenant => engine'[m][n] # NoTenant
    /\ engine[m][n] \in 1 .. MaxRevs => engine'[m][n] = engine[m][n]

LEMMA SoundKept ==
  ASSUME HostTyped, EnginesKept, NEW q \in Reqs, Sound(q),
         serving'[q] = serving[q] \/ serving'[q] = [serving[q] EXCEPT !.ever = TRUE]
  PROVE  Sound(q)'
<1>1. /\ serving'[q].pc = serving[q].pc /\ serving'[q].mount = serving[q].mount
      /\ serving'[q].number = serving[q].number /\ serving'[q].rev = serving[q].rev
      /\ serving[q].mount \in Mounts
  BY DEF HostTyped, HostRequests
<1> QED
  BY <1>1 DEF Sound, EnginesKept

LEMMA LoadKeeps ==
  ASSUME HostTyped, NEW m \in Mounts, NEW t \in RevNumbers,
         engine' = [engine EXCEPT ![m][t] = Loaded(m, t)]
  PROVE  /\ EnginesKept
         /\ engine'[m][t] = Loaded(m, t)
         /\ engine[m][t] # NoTenant => Loaded(m, t) = Cold \/ Loaded(m, t) \in 1 .. MaxRevs
         /\ \A k \in Mounts, j \in RevNumbers :
              engine'[k][j] = engine[k][j] \/ engine'[k][j] = disk[k][j]
<1>1. engine[m][t] # NoTenant => Loaded(m, t) # NoTenant
  BY LoadedTyped, HostAssumption DEF NoTenant
<1>2. engine[m][t] \in 1 .. MaxRevs => Loaded(m, t) = engine[m][t]
  BY DEF Loaded, Cold
<1>3. /\ engine'[m][t] = Loaded(m, t)
      /\ \A k \in Mounts, j \in RevNumbers :
           k # m \/ j # t => engine'[k][j] = engine[k][j]
  BY DEF HostTyped
<1>4. EnginesKept
  BY <1>1, <1>2, <1>3 DEF EnginesKept
<1>5. Loaded(m, t) = engine[m][t] \/ Loaded(m, t) = disk[m][t]
  BY DEF Loaded
<1>6. engine[m][t] # NoTenant => Loaded(m, t) = Cold \/ Loaded(m, t) \in 1 .. MaxRevs
  BY LoadedTyped, HostAssumption DEF Cold
<1> QED
  BY <1>3, <1>4, <1>5, <1>6

LEMMA RegisterKeeps ==
  ASSUME HostTyped, NEW m \in Mounts, NEW t \in RevNumbers, GetOrCreate(m, t)
  PROVE  EnginesKept
<1>1. \A k \in Mounts, j \in RevNumbers :
        engine'[k][j] = engine[k][j] \/ (engine[k][j] = NoTenant /\ engine'[k][j] = Cold)
  BY RegisterTyped
<1>2. NoTenant \notin 1 .. MaxRevs
  BY HostAssumption DEF NoTenant
<1>3. ASSUME NEW k \in Mounts, NEW j \in RevNumbers
      PROVE  /\ engine[k][j] # NoTenant => engine'[k][j] # NoTenant
             /\ engine[k][j] \in 1 .. MaxRevs => engine'[k][j] = engine[k][j]
  BY <1>1, <1>2
<1> QED
  BY <1>3 DEF EnginesKept

(* Each action on a request leaves the others and the engines what they had. *)
RequestSteps(r) ==
  \/ \E n \in RevNumbers : Dispatch(r, n) \/ DispatchShare(r, n)
  \/ \E b \in 1 .. MaxFronts : ServePinnedFront(r, b)
  \/ DispatchWorkbench(r) \/ ServeFront(r)
  \/ CheckMember(r) \/ ResolveGameAndRevision(r) \/ FrontManifest(r) \/ StreamEntry(r)
  \/ EnsureWorkbench(r) \/ EnsureShare(r) \/ RegisterWorkbench(r) \/ RegisterShare(r)
  \/ Forward(r) \/ Answer(r)

LEMMA Place ==
  ASSUME HostTyped, AllSound, NEW r \in Reqs
  PROVE  /\ serving[r].mount \in Mounts /\ serving[r].rev \in Nat /\ Sound(r)
         /\ serving[r].pc \in {"ensure", "register", "forward"} => serving[r].number \in RevNumbers
BY DEF HostTyped, AllSound, Sound, HostRequests

LEMMA OthersKept ==
  ASSUME HostTyped, AllSound, NEW r \in Reqs, RequestSteps(r)
  PROVE  /\ EnginesKept
         /\ \A q \in Reqs \ {r} : serving'[q] = serving[q]
<1>0. engine' = engine => EnginesKept
  BY DEF EnginesKept
<1>p. /\ serving[r].mount \in Mounts
      /\ serving[r].pc \in {"ensure", "register", "forward"} => serving[r].number \in RevNumbers
  BY Place
<1>1. CASE \E n \in RevNumbers : Dispatch(r, n) \/ DispatchShare(r, n)
  BY <1>1, <1>0 DEF Dispatch, DispatchShare, Arrive, process, HostTyped
<1>2. CASE \E b \in 1 .. MaxFronts : ServePinnedFront(r, b)
  BY <1>2, <1>0 DEF ServePinnedFront, Arrive, process, HostTyped
<1>3. CASE DispatchWorkbench(r) \/ ServeFront(r)
  BY <1>3, <1>0 DEF DispatchWorkbench, ServeFront, Arrive, process, HostTyped
<1>4. CASE CheckMember(r) \/ ResolveGameAndRevision(r) \/ FrontManifest(r) \/ StreamEntry(r)
           \/ Answer(r)
  BY <1>4, <1>0 DEF CheckMember, ResolveGameAndRevision, FrontManifest, StreamEntry, Answer,
     To, process, HostTyped
<1>5. CASE EnsureWorkbench(r) \/ EnsureShare(r)
  BY <1>5, <1>0 DEF EnsureWorkbench, EnsureShare, To, process, HostTyped
<1>6. CASE RegisterWorkbench(r)
  <2>1. GetOrCreate("workbench", serving[r].number) /\ serving[r].number \in RevNumbers
    BY <1>6, <1>p DEF RegisterWorkbench, Tenant
  <2>2. EnginesKept
    BY <2>1, RegisterKeeps, HostAssumption
  <2> QED
    BY <1>6, <2>2 DEF RegisterWorkbench, To, HostTyped
<1>7. CASE RegisterShare(r)
  <2>1. GetOrCreate("share", serving[r].number) /\ serving[r].number \in RevNumbers /\ "share" \in Mounts
    BY <1>7, <1>p DEF RegisterShare, Tenant
  <2>2. EnginesKept
    BY <2>1, RegisterKeeps
  <2> QED
    BY <1>7, <2>2 DEF RegisterShare, To, HostTyped
<1>8. CASE Forward(r)
  <2>1. /\ engine' = [engine EXCEPT ![serving[r].mount][serving[r].number]
                                      = Loaded(serving[r].mount, serving[r].number)]
        /\ serving[r].number \in RevNumbers
    BY <1>8, <1>p DEF Forward, Tenant
  <2>2. EnginesKept
    BY <2>1, <1>p, LoadKeeps
  <2> QED
    BY <1>8, <2>2 DEF Forward, To, HostTyped
<1> QED
  BY <1>1, <1>2, <1>3, <1>4, <1>5, <1>6, <1>7, <1>8 DEF RequestSteps

-----------------------------------------------------------------------------
(* HostRequests stay sound.                                                    *)

LEMMA RequestSound ==
  ASSUME HostTyped, AllSound, NEW r \in Reqs, RequestSteps(r)
  PROVE  AllSound'
<1>1. EnginesKept /\ \A q \in Reqs \ {r} : serving'[q] = serving[q]
  BY OthersKept
<1>2. \A q \in Reqs \ {r} : Sound(q)'
  BY <1>1, SoundKept DEF AllSound
<1>p. /\ serving[r].mount \in Mounts /\ Sound(r) /\ serving[r] \in HostRequests
      /\ serving[r].pc \in {"ensure", "register", "forward"} => serving[r].number \in RevNumbers
  BY Place DEF HostTyped
<1>3. Sound(r)'
  <2>1. ASSUME NEW n \in RevNumbers, Dispatch(r, n) \/ DispatchShare(r, n) PROVE Sound(r)'
    BY <2>1 DEF Dispatch, DispatchShare, Arrive, Sound, HostTyped
  <2>2. CASE \E b \in 1 .. MaxFronts : ServePinnedFront(r, b)
    BY <2>2 DEF ServePinnedFront, Arrive, Sound, HostTyped
  <2>3. CASE ServeFront(r)
    BY <2>3 DEF ServeFront, Arrive, Sound, HostTyped
  <2>4. CASE DispatchWorkbench(r)
    <3>1. /\ Arrive(r, "granted", "workbench", Number(token.rev), token.rev)
          /\ Number(token.rev) \in RevNumbers /\ token.rev # 0
      BY <2>4, GrantedNumber DEF DispatchWorkbench, Granted
    <3> QED
      BY <3>1 DEF Arrive, Sound, HostTyped
  <2>5. CASE CheckMember(r)
    BY <2>5, <1>p DEF CheckMember, To, Sound, HostTyped, HostRequests
  <2>6. CASE ResolveGameAndRevision(r)
    BY <2>6, <1>p DEF ResolveGameAndRevision, Sound, HostTyped, HostRequests
  <2>7. CASE FrontManifest(r) \/ StreamEntry(r)
    BY <2>7, <1>p DEF FrontManifest, StreamEntry, To, Sound, HostTyped, HostRequests
  <2>8. CASE EnsureWorkbench(r) \/ EnsureShare(r)
    <3>1. /\ engine' = engine /\ serving[r].rev # 0 /\ serving[r].number \in RevNumbers
          /\ To(r, "register") \/ To(r, "refused")
      BY <2>8, <1>p DEF EnsureWorkbench, EnsureShare, Sound, process
    <3>2. /\ serving'[r].pc \in {"register", "refused"}
          /\ serving'[r].number = serving[r].number /\ serving'[r].rev = serving[r].rev
      BY <3>1, <1>p DEF To, HostTyped, HostRequests
    <3> QED
      BY <3>1, <3>2 DEF Sound
  <2>9. CASE RegisterWorkbench(r)
    <3>1. /\ GetOrCreate("workbench", serving[r].number) /\ serving[r].number \in RevNumbers
          /\ To(r, "forward") /\ serving[r].mount = "workbench" /\ serving[r].rev # 0
      BY <2>9, <1>p DEF RegisterWorkbench, Tenant, Sound
    <3>2. engine'["workbench"][serving[r].number] # NoTenant
      BY <3>1, RegisterTyped, HostAssumption
    <3> QED
      BY <3>1, <3>2 DEF To, Sound, HostTyped, HostRequests
  <2>10. CASE RegisterShare(r)
    <3>1. /\ GetOrCreate("share", serving[r].number) /\ serving[r].number \in RevNumbers
          /\ To(r, "forward") /\ serving[r].mount = "share" /\ serving[r].rev # 0
          /\ "share" \in Mounts
      BY <2>10, <1>p DEF RegisterShare, Tenant, Sound
    <3>2. engine'["share"][serving[r].number] # NoTenant
      BY <3>1, RegisterTyped
    <3> QED
      BY <3>1, <3>2 DEF To, Sound, HostTyped, HostRequests
  <2>11. CASE Forward(r)
    <3> DEFINE m == serving[r].mount
               t == serving[r].number
               l == Loaded(m, t)
    <3>1. /\ engine' = [engine EXCEPT ![m][t] = l] /\ t \in RevNumbers /\ engine[m][t] # NoTenant
          /\ serving[r].rev # 0
          /\ To(r, IF l = Cold THEN "failed" ELSE "served")
      BY <2>11, <1>p DEF Forward, Tenant, Sound
    <3>2. engine'[m][t] = l /\ (l = Cold \/ l \in 1 .. MaxRevs)
      BY <3>1, <1>p, LoadKeeps
    <3>3. /\ serving'[r].pc = IF l = Cold THEN "failed" ELSE "served"
          /\ serving'[r].mount = m /\ serving'[r].number = t /\ serving'[r].rev = serving[r].rev
      BY <3>1 DEF To, HostTyped, HostRequests
    <3> HIDE DEF m, t, l
    <3> QED
      BY <3>1, <3>2, <3>3 DEF Sound
  <2>12. CASE Answer(r)
    BY <2>12 DEF Answer, Idle, Sound, HostTyped
  <2> QED
    BY <2>1, <2>2, <2>3, <2>4, <2>5, <2>6, <2>7, <2>8, <2>9, <2>10, <2>11, <2>12
    DEF RequestSteps
<1> QED
  BY <1>2, <1>3 DEF AllSound

LEMMA AroundSound ==
  ASSUME HostTyped, AllSound, NEW n, AroundSteps(n)
  PROVE  AllSound'
<1>1. CASE Rejoin
  <2>1. /\ EnginesKept
        /\ \A q \in Reqs : serving'[q] = [serving[q] EXCEPT !.ever = TRUE]
    BY <1>1 DEF Rejoin, Seen, process, EnginesKept
  <2> QED
    BY <2>1, SoundKept DEF AllSound
<1>2. CASE Restart
  BY <1>2 DEF Restart, Idle, AllSound, Sound
<1>3. CASE UNCHANGED <<engine, serving>>
  BY <1>3 DEF AllSound, Sound
<1>4. Rejoin \/ Restart \/ UNCHANGED <<engine, serving>>
  BY DEF AroundSteps, Push, DropRevision, Mint, Leave, PushFront, Tick, EvictWorkbench,
     EvictShare, process
<1> QED
  BY <1>1, <1>2, <1>3, <1>4

LEMMA WarmSound ==
  ASSUME HostTyped, AllSound, NEW t \in RevNumbers, WarmBooks(t)
  PROVE  AllSound' /\ HostTyped' /\ EnginesKept
<1>1. "workbench" \in Mounts
  BY HostAssumption
<1>2. EnginesKept /\ Loaded("workbench", t) \in 0 .. MaxRevs + 1
  BY <1>1, LoadKeeps, LoadedTyped DEF WarmBooks
<1>3. AllSound'
  BY <1>2, SoundKept DEF AllSound, WarmBooks
<1>4. HostTyped'
  BY <1>1, <1>2 DEF HostTyped, WarmBooks, PreloadFails, world, HostRequests
<1> QED
  BY <1>2, <1>3, <1>4

-----------------------------------------------------------------------------
(* The doors.                                                              *)

LEMMA RequestEntered ==
  ASSUME HostTyped, AllSound, Entered, NEW r \in Reqs, RequestSteps(r)
  PROVE  Entered'
<1>1. /\ \A q \in Reqs \ {r} : serving'[q] = serving[q]
      /\ member' = member
  BY OthersKept DEF RequestSteps, Dispatch, DispatchShare, ServePinnedFront, ServeFront,
     DispatchWorkbench, Arrive, CheckMember, ResolveGameAndRevision, FrontManifest, StreamEntry,
     EnsureWorkbench, EnsureShare, RegisterWorkbench, RegisterShare, Forward, Answer, world
<1>p. /\ Sound(r) /\ serving[r] \in HostRequests
      /\ member /\ serving[r].pc # "idle" => serving[r].ever
      /\ /\ serving[r].mount = "workbench"
         /\ serving[r].pc \notin {"idle", "member", "granted", "front_member", "refused"}
         => serving[r].ever
  BY DEF AllSound, Entered, HostTyped
<1>2. ASSUME serving'[r].pc # "idle"
      PROVE  /\ member => serving'[r].ever
             /\ /\ serving'[r].mount = "workbench"
                /\ serving'[r].pc \notin {"member", "granted", "front_member", "refused"}
                => serving'[r].ever
  <2>1. CASE serving[r].pc = "idle"
    <3>1. \E n, v : \E step \in {"member", "granted", "front_member", "ensure"}, m \in {"workbench", "share"} :
            Arrive(r, step, m, n, v) /\ (step = "ensure" => m = "share")
      BY <2>1 DEF RequestSteps, Dispatch, DispatchShare, ServePinnedFront, ServeFront,
         DispatchWorkbench, CheckMember, ResolveGameAndRevision, FrontManifest, StreamEntry,
         EnsureWorkbench, EnsureShare, RegisterWorkbench, RegisterShare, Forward, Answer
    <3> QED
      BY <3>1 DEF Arrive, HostTyped
  <2>2. CASE CheckMember(r)
    <3>1. /\ serving'[r].ever = serving[r].ever
          /\ serving'[r].pc = "refused" \/ (member /\ serving[r].pc # "idle")
      BY <2>2 DEF CheckMember, RequireMembership, To, HostTyped, HostRequests
    <3> QED
      BY <2>2, <3>1, <1>p DEF CheckMember
  <2>3. CASE serving[r].pc \notin {"idle", "member", "granted", "front_member"}
    <3>1. /\ serving'[r].ever = serving[r].ever /\ serving'[r].mount = serving[r].mount
          /\ serving[r].pc \in {"refused", "served", "failed"} => serving'[r].pc = "idle"
      <4>1. CASE ResolveGameAndRevision(r) \/ FrontManifest(r) \/ StreamEntry(r)
        BY <4>1 DEF ResolveGameAndRevision, FrontManifest, StreamEntry, To, HostTyped, HostRequests
      <4>2. CASE EnsureWorkbench(r) \/ EnsureShare(r)
        BY <4>2 DEF EnsureWorkbench, EnsureShare, To, HostTyped, HostRequests
      <4>3. CASE RegisterWorkbench(r) \/ RegisterShare(r) \/ Forward(r)
        BY <4>3 DEF RegisterWorkbench, RegisterShare, Forward, To, HostTyped, HostRequests
      <4>4. CASE Answer(r)
        BY <4>4, <1>2 DEF Answer, Idle, HostTyped
      <4> QED
        BY <2>3, <4>1, <4>2, <4>3, <4>4 DEF RequestSteps, Dispatch, DispatchShare,
           ServePinnedFront, ServeFront, DispatchWorkbench, Arrive, CheckMember
    <3> QED
      BY <2>3, <3>1, <1>2, <1>p
  <2>4. CASE serving[r].pc \in {"member", "granted", "front_member"} /\ ~CheckMember(r)
    BY <2>4 DEF RequestSteps, Dispatch, DispatchShare, ServePinnedFront, ServeFront,
       DispatchWorkbench, Arrive, ResolveGameAndRevision, FrontManifest, StreamEntry,
       EnsureWorkbench, EnsureShare, RegisterWorkbench, RegisterShare, Forward, Answer
  <2> QED
    BY <2>1, <2>2, <2>3, <2>4
<1> QED
  BY <1>1, <1>2 DEF Entered

LEMMA AroundEntered ==
  ASSUME HostTyped, Entered, NEW n, AroundSteps(n)
  PROVE  Entered'
<1>1. CASE Rejoin
  BY <1>1 DEF Rejoin, Seen, Entered, HostTyped, HostRequests
<1>2. CASE Restart
  BY <1>2 DEF Restart, Idle, Entered
<1>3. CASE serving' = serving /\ (member' => member)
  BY <1>3 DEF Entered
<1>4. Rejoin \/ Restart \/ (serving' = serving /\ (member' => member))
  BY DEF AroundSteps, Push, DropRevision, Mint, Leave, PushFront, Tick, EvictWorkbench,
     EvictShare, world
<1> QED
  BY <1>1, <1>2, <1>3, <1>4

-----------------------------------------------------------------------------
(* The numbers.                                                            *)

(* Nothing bears a number's name that did not. *)
NothingNew == \A n \in RevNumbers, v \in Nat : Bears(n, v)' => Bears(n, v)

LEMMA NamedKept ==
  ASSUME Named, NothingNew, names' = names
  PROVE  Named'
BY DEF Named, NothingNew

(* What requests, directories and engines are about after the step was
   about the same number before it. *)
LEMMA NothingNewWhen ==
  ASSUME HostTyped,
         rows' = rows,
         \A m \in Mounts, n \in RevNumbers, v \in Nat :
           v # 0 /\ (v = disk'[m][n] \/ (v = engine'[m][n] /\ v # NoTenant)) => Bears(n, v),
         \A r \in Reqs, v \in Nat :
           v # 0 /\ v = serving'[r].rev /\ serving'[r].number \in RevNumbers => Bears(serving'[r].number, v)
  PROVE  NothingNew
<1> SUFFICES ASSUME NEW n \in RevNumbers, NEW v \in Nat, Bears(n, v)'
             PROVE  Bears(n, v)
  BY DEF NothingNew
<1>1. v # 0 /\ NoTenant' = NoTenant
  BY DEF Bears, NoTenant
<1>2. CASE v = rows'[n]
  BY <1>1, <1>2 DEF Bears
<1>3. CASE \E m \in Mounts : v = disk'[m][n] \/ (v = engine'[m][n] /\ v # NoTenant)
  BY <1>1, <1>3
<1>4. CASE \E r \in Reqs : v = serving'[r].rev /\ serving'[r].number = n
  BY <1>1, <1>4
<1> QED
  BY <1>1, <1>2, <1>3, <1>4 DEF Bears

LEMMA BearsAll ==
  ASSUME HostTyped, NEW n \in RevNumbers, NEW v \in Nat, v # 0
  PROVE  /\ v = rows[n] => Bears(n, v)
         /\ \A m \in Mounts : v = disk[m][n] => Bears(n, v)
         /\ \A m \in Mounts : v = engine[m][n] /\ v # NoTenant => Bears(n, v)
         /\ \A r \in Reqs : v = serving[r].rev /\ serving[r].number = n => Bears(n, v)
BY DEF Bears

LEMMA RequestNamed ==
  ASSUME HostTyped, AllSound, Named, NEW r \in Reqs, RequestSteps(r)
  PROVE  Named'
<1>1. /\ \A q \in Reqs \ {r} : serving'[q] = serving[q]
      /\ rows' = rows /\ names' = names
  BY OthersKept DEF RequestSteps, Dispatch, DispatchShare, ServePinnedFront, ServeFront,
     DispatchWorkbench, Arrive, CheckMember, ResolveGameAndRevision, FrontManifest, StreamEntry,
     EnsureWorkbench, EnsureShare, RegisterWorkbench, RegisterShare, Forward, Answer, world
<1>p. /\ serving[r].mount \in Mounts /\ Sound(r) /\ serving[r] \in HostRequests /\ serving[r].rev \in Nat
      /\ serving[r].pc \in {"ensure", "register", "forward"} => serving[r].number \in RevNumbers
  BY Place DEF HostTyped
<1>2. \A m \in Mounts, n \in RevNumbers, v \in Nat : v # 0 /\ v = disk'[m][n] => Bears(n, v)
  <2>1. CASE disk' = disk
    BY <2>1, BearsAll
  <2>2. CASE EnsureWorkbench(r) \/ EnsureShare(r)
    <3>1. serving[r].number \in RevNumbers
      BY <2>2, <1>p DEF EnsureWorkbench, EnsureShare
    <3>2. \A m \in Mounts, n \in RevNumbers :
            disk'[m][n] = disk[m][n] \/ (n = serving[r].number /\ disk'[m][n] = serving[r].rev)
      <4>0. disk \in [Mounts -> [RevNumbers -> 0 .. born]] /\ "workbench" \in Mounts
        BY HostAssumption DEF HostTyped
      <4>1. CASE EnsureWorkbench(r)
        BY <3>1, <4>0, <4>1 DEF EnsureWorkbench
      <4>2. CASE EnsureShare(r)
        <5>1. "share" \in Mounts
          BY <1>p, <4>2 DEF EnsureShare
        <5> QED
          BY <3>1, <4>0, <4>2, <5>1 DEF EnsureShare
      <4> QED
        BY <2>2, <4>1, <4>2
    <3> QED
      BY <3>1, <3>2, <1>p, BearsAll DEF Bears
  <2> QED
    BY <2>1, <2>2 DEF RequestSteps, Dispatch, DispatchShare, ServePinnedFront, ServeFront,
       DispatchWorkbench, Arrive, CheckMember, ResolveGameAndRevision, FrontManifest,
       StreamEntry, RegisterWorkbench, RegisterShare, Forward, Answer
<1>3. \A m \in Mounts, n \in RevNumbers, v \in Nat :
        v # 0 /\ v = engine'[m][n] /\ v # NoTenant => Bears(n, v)
  <2>1. CASE engine' = engine
    BY <2>1, BearsAll
  <2>2. CASE RegisterWorkbench(r) \/ RegisterShare(r)
    <3>1. \A k \in Mounts, j \in RevNumbers :
            engine'[k][j] = engine[k][j] \/ engine'[k][j] = Cold
      BY <2>2, <1>p, RegisterTyped DEF RegisterWorkbench, RegisterShare, Tenant
    <3> QED
      BY <3>1, BearsAll DEF Cold
  <2>3. CASE Forward(r)
    <3>1. \A k \in Mounts, j \in RevNumbers :
            engine'[k][j] = engine[k][j] \/ engine'[k][j] = disk[k][j]
      BY <2>3, <1>p, LoadKeeps DEF Forward, Tenant
    <3> QED
      BY <3>1, BearsAll
  <2> QED
    BY <2>1, <2>2, <2>3 DEF RequestSteps, Dispatch, DispatchShare, ServePinnedFront, ServeFront,
       DispatchWorkbench, Arrive, CheckMember, ResolveGameAndRevision, FrontManifest,
       StreamEntry, EnsureWorkbench, EnsureShare, Answer, process
<1>4. \A v \in Nat :
        v # 0 /\ v = serving'[r].rev /\ serving'[r].number \in RevNumbers => Bears(serving'[r].number, v)
  <2>1. CASE serving'[r].rev = serving[r].rev /\ serving'[r].number = serving[r].number
    BY <2>1, BearsAll
  <2>2. CASE serving'[r].rev = 0
    BY <2>2
  <2>3. CASE serving'[r].number \in RevNumbers /\ serving'[r].rev = rows[serving'[r].number]
    BY <2>3, BearsAll
  <2>4. \/ serving'[r].rev = serving[r].rev /\ serving'[r].number = serving[r].number
        \/ serving'[r].rev = 0
        \/ serving'[r].number \in RevNumbers /\ serving'[r].rev = rows[serving'[r].number]
    <3>1. ASSUME NEW n \in RevNumbers, Dispatch(r, n) \/ DispatchShare(r, n)
          PROVE  serving'[r].rev = 0 \/ (serving'[r].number \in RevNumbers /\ serving'[r].rev = rows[serving'[r].number])
      BY <3>1 DEF Dispatch, DispatchShare, Arrive, HostTyped
    <3>2. CASE ServeFront(r) \/ \E b \in 1 .. MaxFronts : ServePinnedFront(r, b)
      BY <3>2 DEF ServeFront, ServePinnedFront, Arrive, HostTyped
    <3>3. CASE DispatchWorkbench(r)
      <4>1. /\ Arrive(r, "granted", "workbench", Number(token.rev), token.rev)
            /\ Number(token.rev) \in RevNumbers /\ rows[Number(token.rev)] = token.rev
        BY <3>3, GrantedNumber DEF DispatchWorkbench
      <4> QED
        BY <4>1 DEF Arrive, HostTyped
    <3>4. CASE ResolveGameAndRevision(r)
      BY <3>4, <1>p DEF ResolveGameAndRevision, Sound, HostTyped, HostRequests
    <3>5. CASE Answer(r)
      BY <3>5 DEF Answer, Idle, HostTyped
    <3>6. CASE \E step : To(r, step)
      BY <3>6, <1>p DEF To, HostTyped, HostRequests
    <3> QED
      BY <3>1, <3>2, <3>3, <3>4, <3>5, <3>6 DEF RequestSteps, CheckMember, FrontManifest,
         StreamEntry, EnsureWorkbench, EnsureShare, RegisterWorkbench, RegisterShare, Forward
  <2> QED
    BY <2>1, <2>2, <2>3, <2>4
<1>5. \A q \in Reqs, v \in Nat :
        v # 0 /\ v = serving'[q].rev /\ serving'[q].number \in RevNumbers => Bears(serving'[q].number, v)
  BY <1>1, <1>4, BearsAll
<1>6. NothingNew
  BY <1>1, <1>2, <1>3, <1>5, NothingNewWhen
<1> QED
  BY <1>1, <1>6, NamedKept

(* A push names a number anew; whatever was left under it, it has named two. *)
LEMMA PushNamed ==
  ASSUME HostTyped, Named, NEW n \in RevNumbers, Push(n)
  PROVE  Named'
<1>1. /\ \A k \in RevNumbers \ {n} : rows'[k] = rows[k] /\ names'[k] = names[k]
      /\ rows'[n] = born + 1 /\ names'[n] = names[n] + 1
      /\ UNCHANGED <<disk, engine, serving>>
      /\ born \in Nat /\ names[n] \in Nat
  BY DEF Push, process, HostTyped
<1>2. \A k \in RevNumbers \ {n}, v \in Nat : Bears(k, v)' => Bears(k, v)
  BY <1>1 DEF Bears, NoTenant
<1>3. \A v \in Nat : Bears(n, v)' => Bears(n, v) \/ v = born + 1
  BY <1>1 DEF Bears, NoTenant
<1>4. ASSUME NEW k \in RevNumbers \ {n}
      PROVE  /\ names'[k] = 0 => \A v \in Nat : ~Bears(k, v)'
             /\ names'[k] = 1 => \A v, w \in Nat : Bears(k, v)' /\ Bears(k, w)' => v = w
  BY <1>1, <1>2 DEF Named
<1>5. /\ names'[n] # 0
      /\ names'[n] = 1 => \A v, w \in Nat : Bears(n, v)' /\ Bears(n, w)' => v = w
  <2>1. names'[n] = 1 => names[n] = 0
    BY <1>1
  <2> QED
    BY <1>1, <1>3, <2>1 DEF Named
<1> QED
  BY <1>4, <1>5 DEF Named

LEMMA AroundNamed ==
  ASSUME HostTyped, Named, NEW n, AroundSteps(n)
  PROVE  Named'
<1>1. CASE n \in RevNumbers /\ Push(n)
  BY <1>1, PushNamed
<1>2. CASE n \in RevNumbers /\ (DropRevision(n) \/ EvictWorkbench(n) \/ EvictShare(n))
  <2>1. /\ \A k \in RevNumbers : rows'[k] = rows[k] \/ rows'[k] = 0
        /\ \A m \in Mounts, k \in RevNumbers : disk'[m][k] = disk[m][k] \/ disk'[m][k] = 0
        /\ UNCHANGED <<engine, serving, names>>
    <3>1. CASE DropRevision(n)
      BY <3>1, HostAssumption DEF DropRevision, process, HostTyped
    <3>2. CASE EvictWorkbench(n) \/ EvictShare(n)
      BY <3>2, HostAssumption DEF EvictWorkbench, EvictShare, world, process, HostTyped
    <3> QED
      BY <1>2, <3>1, <3>2
  <2>2. NothingNew
    BY <2>1 DEF NothingNew, Bears, NoTenant
  <2> QED
    BY <2>1, <2>2, NamedKept
<1>3. CASE Restart
  <2>1. /\ \A m \in Mounts, k \in RevNumbers : engine'[m][k] = NoTenant
        /\ \A q \in Reqs : serving'[q].rev = 0
        /\ UNCHANGED <<rows, disk, names>>
    BY <1>3 DEF Restart, Idle
  <2>2. NothingNew
    BY <2>1 DEF NothingNew, Bears, NoTenant
  <2> QED
    BY <2>1, <2>2, NamedKept
<1>4. CASE Rejoin
  <2>1. /\ \A q \in Reqs : serving'[q].rev = serving[q].rev /\ serving'[q].number = serving[q].number
        /\ UNCHANGED <<rows, disk, engine, names>>
    BY <1>4 DEF Rejoin, Seen, process, HostTyped, HostRequests
  <2>2. NothingNew
    BY <2>1 DEF NothingNew, Bears, NoTenant
  <2> QED
    BY <2>1, <2>2, NamedKept
<1>5. CASE UNCHANGED <<rows, disk, engine, serving, names>>
  BY <1>5 DEF Named, Bears, NoTenant
<1>6. CASE Mint(n) \/ Leave \/ PushFront \/ Tick
  BY <1>5, <1>6 DEF Mint, Leave, PushFront, Tick, process
<1> QED
  BY <1>1, <1>2, <1>3, <1>4, <1>6 DEF AroundSteps

LEMMA WarmNamed ==
  ASSUME HostTyped, Named, NEW t \in RevNumbers, WarmBooks(t)
  PROVE  Named'
<1>1. \A k \in Mounts, j \in RevNumbers : engine'[k][j] = engine[k][j] \/ engine'[k][j] = disk[k][j]
  BY LoadKeeps, HostAssumption DEF WarmBooks
<1>2. UNCHANGED <<rows, names, disk, serving>>
  BY DEF WarmBooks, world
<1>3. NothingNew
  BY <1>1, <1>2 DEF NothingNew, Bears, NoTenant
<1> QED
  BY <1>2, <1>3, NamedKept

-----------------------------------------------------------------------------
(* The warm-up.                                                            *)

LEMMA WarmedKept ==
  ASSUME Warmed, EnginesKept, preload \subseteq RevNumbers, warming \subseteq RevNumbers,
         UNCHANGED <<preload, warming>>
  PROVE  Warmed'
BY HostAssumption DEF Warmed, EnginesKept

LEMMA RequestWarmed ==
  ASSUME HostTyped, AllSound, Warmed, NEW r \in Reqs, RequestSteps(r)
  PROVE  Warmed'
<1>1. EnginesKept /\ preload \subseteq RevNumbers /\ warming \subseteq RevNumbers
  BY OthersKept DEF HostTyped
<1>2. CASE RegisterWorkbench(r)
  <2> DEFINE t == serving[r].number
  <2>1. /\ t \in RevNumbers /\ GetOrCreate("workbench", t) /\ "workbench" \in Mounts
        /\ preload' = (IF t \in warming THEN preload ELSE preload \cup {t})
        /\ warming' = warming \cup {t}
    BY <1>2, Place, HostAssumption DEF RegisterWorkbench, Tenant
  <2>2. engine'["workbench"][t] # NoTenant
    BY <2>1, RegisterTyped
  <2> HIDE DEF t
  <2>3. ASSUME NEW u \in preload'
        PROVE  engine'["workbench"][u] # NoTenant
    BY <1>1, <2>1, <2>2 DEF Warmed, EnginesKept
  <2>4. ASSUME NEW u \in warming'
        PROVE  u \in preload' \/ engine'["workbench"][u] \in 1 .. MaxRevs
    BY <1>1, <2>1 DEF Warmed, EnginesKept
  <2> QED
    BY <2>3, <2>4 DEF Warmed, NoTenant
<1>3. CASE ~RegisterWorkbench(r)
  <2>1. UNCHANGED <<preload, warming>>
    BY <1>3 DEF RequestSteps, Dispatch, DispatchShare, ServePinnedFront, ServeFront,
       DispatchWorkbench, Arrive, CheckMember, ResolveGameAndRevision, FrontManifest,
       StreamEntry, EnsureWorkbench, EnsureShare, RegisterShare, Forward, Answer, process
  <2> QED
    BY <1>1, <2>1, WarmedKept
<1> QED
  BY <1>2, <1>3

LEMMA AroundWarmed ==
  ASSUME HostTyped, Warmed, NEW n, AroundSteps(n)
  PROVE  Warmed'
<1>1. CASE Restart
  BY <1>1 DEF Restart, Warmed
<1>2. CASE UNCHANGED <<engine, preload, warming>>
  BY <1>2 DEF Warmed, NoTenant
<1> QED
  BY <1>1, <1>2 DEF AroundSteps, Push, DropRevision, Mint, Leave, Rejoin, PushFront, Tick,
     EvictWorkbench, EvictShare, process

LEMMA WarmWarmed ==
  ASSUME HostTyped, Warmed, NEW t \in RevNumbers, WarmBooks(t)
  PROVE  Warmed'
<1> DEFINE l == Loaded("workbench", t)
<1>1. "workbench" \in Mounts /\ t \in preload /\ engine["workbench"][t] # NoTenant
  BY HostAssumption DEF WarmBooks, Warmed
<1>2. /\ EnginesKept /\ engine'["workbench"][t] = l
      /\ l = Cold \/ l \in 1 .. MaxRevs
  BY <1>1, LoadKeeps DEF WarmBooks
<1>3. /\ preload' = preload \ {t}
      /\ warming' = IF l = Cold THEN warming \ {t} ELSE warming
      /\ preload \subseteq RevNumbers /\ warming \subseteq RevNumbers
  BY DEF WarmBooks, PreloadFails, HostTyped
<1> HIDE DEF l
<1>4. ASSUME NEW u \in preload'
      PROVE  engine'["workbench"][u] # NoTenant
  BY <1>1, <1>2, <1>3 DEF Warmed, EnginesKept
<1>5. ASSUME NEW u \in warming'
      PROVE  u \in preload' \/ engine'["workbench"][u] \in 1 .. MaxRevs
  BY <1>1, <1>2, <1>3 DEF Warmed, EnginesKept
<1> QED
  BY <1>4, <1>5 DEF Warmed, NoTenant

-----------------------------------------------------------------------------
(* The invariant, and what it is for.                                      *)

LEMMA HostStep ==
  ASSUME HostInv, [HostNext]_hostVars
  PROVE  HostInv'
<1> USE DEF HostInv
<1>1. ASSUME NEW r \in Reqs, RequestSteps(r)
      PROVE  HostInv'
  <2>1. HostTyped'
    BY <1>1, RequestTyped DEF RequestSteps
  <2> QED
    BY <1>1, <2>1, RequestSound, RequestEntered, RequestNamed, RequestWarmed
<1>2. ASSUME NEW n, AroundSteps(n)
      PROVE  HostInv'
  <2>1. HostTyped'
    BY <1>2, AroundTyped DEF AroundSteps
  <2> QED
    BY <1>2, <2>1, AroundSound, AroundEntered, AroundNamed, AroundWarmed
<1>3. ASSUME NEW t \in RevNumbers, WarmBooks(t)
      PROVE  HostInv'
  <2>1. AllSound' /\ HostTyped' /\ Named' /\ Warmed'
    BY <1>3, WarmSound, WarmNamed, WarmWarmed
  <2>2. Entered'
    BY <1>3 DEF WarmBooks, world, Entered
  <2> QED
    BY <2>1, <2>2
<1>4. CASE UNCHANGED hostVars
  BY <1>4 DEF hostVars, HostTyped, AllSound, Sound, Entered, Named, Bears, Warmed, NoTenant
<1> QED
  BY <1>1, <1>2, <1>3, <1>4 DEF HostNext, RequestSteps, AroundSteps

LEMMA HostInvariant ==
  HostSpec => []HostInv
<1>1. HostInit => HostInv
  BY HostInitial
<1>2. HostInv /\ [HostNext]_hostVars => HostInv'
  BY HostStep
<1> QED
  BY <1>1, <1>2, PTL DEF HostSpec

LEMMA HostTypes ==
  ASSUME HostTyped
  PROVE  HostTypeOK
BY HostAssumption DEF HostTypeOK, HostTyped

(* Whoever is answered has passed the check of the membership (ws.rs,
   require_membership, before the game, the revision and the token's). *)
LEMMA DoorsAreClosed == Entered => DoorsClosed
BY DEF Entered, DoorsClosed

(* The revision asked for and the one in the engine bear the same number. *)
LEMMA OwnMathIsServed ==
  ASSUME HostTyped, AllSound, Named
  PROVE  ServesOwnMath
<1> SUFFICES ASSUME NEW r \in Reqs,
                    serving[r].pc = "served", serving[r].rev # 0, names[serving[r].number] = 1
             PROVE  engine[serving[r].mount][Tenant(serving[r].number)] = serving[r].rev
  BY DEF ServesOwnMath
<1> DEFINE n == serving[r].number
           m == serving[r].mount
           e == engine[m][n]
<1>1. /\ n \in RevNumbers /\ e \in 1 .. MaxRevs
      /\ m \in Mounts /\ serving[r].rev \in Nat
  BY DEF AllSound, Sound, HostTyped, HostRequests
<1>2. e \in Nat /\ e # 0 /\ e # NoTenant
  BY <1>1, HostAssumption DEF NoTenant
<1>3. Bears(n, e)
  BY <1>1, <1>2, BearsAll
<1>4. Bears(n, serving[r].rev)
  BY <1>1, BearsAll
<1> QED
  BY <1>1, <1>2, <1>3, <1>4 DEF Named, Tenant

(* "losing workspace access closes both doors immediately": what a user asks
   the workbench or the front for while not a member is not served, by the
   session or by a token minted before; and a revision is answered from its own
   math, although its directory, its engine and its settings go by a number
   that deletions give out again, in requests that look at the rows, the
   directory and the registry at different times (ws.rs, wb.rs, tenants.rs). *)
THEOREM HostsAreSound ==
  HostSpec => []HostsServeRight
<1>1. HostInv => HostsServeRight
  BY HostTypes, DoorsAreClosed, OwnMathIsServed DEF HostInv, HostsServeRight
<1> QED
  BY <1>1, HostInvariant, PTL

(* A failed warm-up never leaves a tenant "permanently cold": its mark is only
   there while it is being warmed up or has its books, whatever is evicted or
   deleted meanwhile (tenants.rs, preload). *)
THEOREM ColdIsTriedAgain ==
  HostSpec => []NeverLeftCold
<1>1. HostInv => NeverLeftCold
  BY DEF HostInv, Warmed, NeverLeftCold
<1> QED
  BY <1>1, HostInvariant, PTL

===============================================================================
