---------------------------- MODULE WorkspacesProofs ----------------------------
(***************************************************************************)
(* What the members, the invites and the plan of a workspace keep, for any *)
(* number of users, requests, invites, subscriptions and events.           *)
(*                                                                         *)
(* The first part is about types; the second about the statements of one   *)
(* handler with another's in between: what a request has judged still holds *)
(* when it writes, unless its reads are old; the third about the row of a  *)
(* workspace and the subscriptions of Stripe.  The last is about its       *)
(* custom domain.                                                          *)
(***************************************************************************)
EXTENDS Workspaces, CustomDomains, FiniteSetTheorems, TLAPS

(* The items of a subscription: at least one of the two prices. *)
ItemSets ==
  [{"seat"} -> 0 .. MaxSeats] \cup [{"storage"} -> 0 .. MaxUnits]
  \cup {it \in [{"seat", "storage"} -> Nat] : it["seat"] <= MaxSeats /\ it["storage"] <= MaxUnits}

Statuses == Live \cup {"canceled"}

Subscriptions == [status : Statuses, items : ItemSets, end : Nat, cancel : BOOLEAN]

Snapshots == [sub : Subs, status : Statuses, items : ItemSets, end : Nat, cancel : BOOLEAN]

Rows == [sub : Subs, status : Statuses \cup {"storage_only"}, seats : 0 .. MaxSeats,
         units : 0 .. MaxUnits, end : Nat, cancel : BOOLEAN]

BillTyped ==
  /\ stripe \in [Subs -> Subscriptions \cup {NoSub}]
  /\ outbox \in Seq(Snapshots) /\ Len(outbox) <= MaxEvents
  /\ ledger \in [1 .. MaxEvents -> {"absent", "recorded", "processed", "error"}]
  /\ handling \subseteq Events /\ acked \subseteq Events
  /\ row \in Rows \cup {NoRow}
  /\ override \in Overrides \cup {NoOverride}
  /\ now \in Nat

Invites == [role : Roles, max : Nat, uses : Nat, expires : Nat, revoked : BOOLEAN]

RoleRequests ==
  [op : {"role"}, pc : {"count", "write"}, who : Users, target : Users, to : Roles \cup {"none"}]
AcceptRequests == [op : {"accept"}, pc : {"limits", "join"}, who : Users, invite : Nat]
SeatRequests == [op : {"seats"}, pc : {"stripe", "write"}, sub : Subs, seats : 1 .. MaxSeats]

Requests == {Idle} \cup RoleRequests \cup AcceptRequests \cup SeatRequests

TeamTyped ==
  /\ members \in [Users -> Roles \cup {"none"}]
  /\ invites \in Seq(Invites) /\ joined \in Seq(Nat)
  /\ Len(joined) = Len(invites) /\ Len(invites) <= MaxInvites
  /\ req \in [Reqs -> Requests]
  /\ \A r \in Reqs : req[r].op = "accept" => req[r].invite \in MadeInvites
  /\ \A r \in Reqs : req[r].op = "seats" => row # NoRow
  /\ stale \subseteq Reading /\ raced \in BOOLEAN

Typed == BillTyped /\ TeamTyped

-----------------------------------------------------------------------------
(* Requests. *)

(* What a request at a step has read, and no other has written since, holds:
   an owner who goes is not the last one, and a new member is within the cap. *)
Judged(r) ==
  r \notin stale =>
    /\ /\ req[r].op = "role" /\ req[r].pc = "write"
       /\ OwnerGoes(req[r].target, req[r].to)
       => Cardinality(Owners) >= 2
    /\ req[r].op = "accept" /\ req[r].pc = "join" => WithinCap

TeamInv ==
  /\ KeepsOwnerUnraced
  /\ UsesCounted
  /\ \A r \in Reqs : Judged(r)

-----------------------------------------------------------------------------
(* Stripe and the row. *)

HasSeat(e) == Carries(outbox[e].items, "seat")
HasStorage(e) == Carries(outbox[e].items, "storage")
Processed(e) == ledger[e] = "processed"

LastSeat(e) == e \in Events /\ HasSeat(e) /\ \A f \in Events : HasSeat(f) => f <= e
LastStorage(e) == e \in Events /\ HasStorage(e) /\ \A f \in Events : HasStorage(f) => f <= e

(* Whatever is in the outbox is absent, being handled, or processed. *)
LedgerKept ==
  /\ \A e \in 1 .. MaxEvents : e \notin Events => ledger[e] = "absent"
  /\ \A e \in Events : ledger[e] # "error" /\ (ledger[e] = "recorded" => e \in handling)
  /\ \A e \in acked : ledger[e] # "absent"

(* The last event of a subscription says what Stripe holds, and every one of
   them carries the same prices. *)
Mirrored(s) ==
  \/ stripe[s] = NoSub /\ \A f \in Events : outbox[f].sub # s
  \/ /\ stripe[s] # NoSub
     /\ \E e \in Events :
          /\ outbox[e].sub = s
          /\ outbox[e].status = stripe[s].status /\ outbox[e].items = stripe[s].items
          /\ outbox[e].end = stripe[s].end /\ outbox[e].cancel = stripe[s].cancel
          /\ \A f \in Events : outbox[f].sub = s =>
               f <= e /\ DOMAIN outbox[f].items = DOMAIN stripe[s].items

(* Of each price there is a last event, if there is one at all. *)
LastsExist ==
  /\ (\E f \in Events : HasSeat(f)) => \E e \in Events : LastSeat(e)
  /\ (\E f \in Events : HasStorage(f)) => \E e \in Events : LastStorage(e)

(* The last event about storage is of the subscription that bills it. *)
LiveIsLast ==
  \A s \in Subs : stripe[s].status \in Live /\ Carries(stripe[s].items, "storage")
    => \E e \in Events : LastStorage(e) /\ outbox[e].sub = s

(* What a row takes from a snapshot x: the plan, and the units of storage. *)
SaysPlan(r, x) ==
  /\ r.sub = x.sub /\ r.status = x.status /\ r.seats = Larger(1, x.items["seat"])
  /\ r.end = x.end /\ r.cancel = x.cancel

UnitsOf(x) == IF x.status \in Live THEN x.items["storage"] ELSE 0

(* With every event about seats processed the row says what the last of them
   says, with none of them it grants nothing; and so with storage. *)
SeatsFollow ==
  /\ \A e \in Events : LastSeat(e) /\ (\A f \in Events : HasSeat(f) => Processed(f)) => SaysPlan(row, outbox[e])
  /\ (\A f \in Events : HasSeat(f) => ~Processed(f)) => row.status \notin Live
UnitsFollow ==
  /\ \A e \in Events :
       LastStorage(e) /\ (\A f \in Events : HasStorage(f) => Processed(f)) => row.units = UnitsOf(outbox[e])
  /\ (\A f \in Events : HasStorage(f) => ~Processed(f)) => row.units = 0

Follows ==
  /\ ~Twins(stripe)
  /\ LedgerKept
  /\ \A s \in Subs : Mirrored(s)
  /\ LastsExist
  /\ LiveIsLast
  /\ SeatsFollow
  /\ UnitsFollow

RowInv == mishaps = {} => Follows

-----------------------------------------------------------------------------
(* Every step of a subscription is an event with its snapshot. *)

(* Subscription s goes to sub: a checkout of one that was not there, or a
   change of one that is live, with the same prices unless storage is dropped. *)
Emission(s, sub, more) ==
  /\ s \in Subs /\ sub \in Subscriptions
  /\ Emit(s, sub, more)
  /\ (stripe[s] = NoSub /\ sub.status \in Live) \/ stripe[s].status \in Live
  /\ more = {} => stripe[s] = NoSub \/ DOMAIN sub.items = DOMAIN stripe[s].items

Snapshot(s, sub) ==
  [sub |-> s, status |-> sub.status, items |-> sub.items, end |-> sub.end, cancel |-> sub.cancel]

LEMMA ItemFacts ==
  ASSUME NEW it \in ItemSets
  PROVE  /\ DOMAIN it \in {{"seat"}, {"storage"}, {"seat", "storage"}}
         /\ Carries(it, "seat") => it["seat"] \in 0 .. MaxSeats
         /\ Carries(it, "storage") => it["storage"] \in 0 .. MaxUnits
         /\ Carries(it, "seat") \/ Carries(it, "storage")
BY BillingAssumption DEF ItemSets, Carries

LEMMA NotNoSub ==
  ASSUME NEW sub \in Subscriptions
  PROVE  sub # NoSub /\ sub.status \in Statuses /\ sub.items \in ItemSets
BY DEF Subscriptions, NoSub, Statuses, Live

LEMMA LiveSub ==
  ASSUME BillTyped, NEW s \in Subs, stripe[s].status \in Live \/ stripe[s] # NoSub
  PROVE  stripe[s] \in Subscriptions
BY DEF BillTyped, NoSub, Live

LEMMA EmissionTyped ==
  ASSUME BillTyped, NEW s, NEW sub, NEW more, Emission(s, sub, more)
  PROVE  /\ stripe' \in [Subs -> Subscriptions \cup {NoSub}]
         /\ outbox' \in Seq(Snapshots) /\ Len(outbox') <= MaxEvents
         /\ Len(outbox') = Len(outbox) + 1
         /\ Len(outbox) + 1 \in Events' /\ Len(outbox) + 1 \notin Events
         /\ Events' = Events \cup {Len(outbox) + 1}
         /\ \A e \in Events : outbox'[e] = outbox[e] /\ Len(outbox) + 1 > e
         /\ outbox'[Len(outbox) + 1] = Snapshot(s, sub)
         /\ stripe'[s] = sub /\ \A t \in Subs \ {s} : stripe'[t] = stripe[t]
<1> DEFINE new == Snapshot(s, sub)
<1>1. new \in Snapshots
  BY DEF Emission, Snapshot, Subscriptions, Snapshots
<1>2. /\ outbox' = Append(outbox, new) /\ Len(outbox) < MaxEvents
      /\ stripe' = [stripe EXCEPT ![s] = sub]
      /\ s \in Subs /\ sub \in Subscriptions
  BY DEF Emission, Emit, Snapshot
<1> HIDE DEF new
<1>3. outbox \in Seq(Snapshots) /\ Len(outbox) \in Nat /\ MaxEvents \in Nat
      /\ stripe \in [Subs -> Subscriptions \cup {NoSub}]
  BY BillingAssumption DEF BillTyped
<1>4. /\ outbox' \in Seq(Snapshots) /\ Len(outbox') = Len(outbox) + 1
      /\ \A e \in 1 .. Len(outbox) : outbox'[e] = outbox[e]
      /\ outbox'[Len(outbox) + 1] = new
  BY <1>1, <1>2, <1>3
<1>5. /\ stripe' \in [Subs -> Subscriptions \cup {NoSub}]
      /\ stripe'[s] = sub /\ \A t \in Subs \ {s} : stripe'[t] = stripe[t]
  BY <1>2, <1>3
<1>6. /\ Events' = 1 .. Len(outbox) + 1 /\ Events = 1 .. Len(outbox)
  BY <1>4 DEF Events
<1> QED
  BY <1>2, <1>3, <1>4, <1>5, <1>6 DEF new

LEMMA CheckoutItemsTyped ==
  ASSUME NEW n \in 0 .. MaxSeats, NEW u \in 0 .. MaxUnits, n + u > 0
  PROVE  CheckoutItems(n, u) \in ItemSets
<1>1. CASE u = 0
  BY <1>1, BillingAssumption DEF CheckoutItems, ItemSets
<1>2. CASE u # 0 /\ n = 0
  BY <1>2, BillingAssumption DEF CheckoutItems, ItemSets
<1>3. CASE u # 0 /\ n # 0
  <2> DEFINE both == [p \in {"seat", "storage"} |-> IF p = "seat" THEN n ELSE u]
  <2>1. both \in [{"seat", "storage"} -> Nat] /\ both["seat"] = n /\ both["storage"] = u
    BY BillingAssumption
  <2>2. n <= MaxSeats /\ u <= MaxUnits
    BY BillingAssumption
  <2>3. CheckoutItems(n, u) = both
    BY <1>3 DEF CheckoutItems
  <2> QED
    BY <2>1, <2>2, <2>3 DEF ItemSets
<1> QED
  BY <1>1, <1>2, <1>3

LEMMA StripeEmits ==
  ASSUME BillTyped, StripeSteps
  PROVE  /\ \E s \in Subs, sub \in Subscriptions, more \in {{}, {"dropped"}} : Emission(s, sub, more)
         /\ UNCHANGED <<acked, ledger, handling, row, override, now>>
<1>1. PICK s \in Subs :
        \/ \E n \in 0 .. MaxSeats, u \in 0 .. MaxUnits : Checkout(s, n, u)
        \/ PortalCancel(s) \/ PeriodEnds(s) \/ DropStorage(s)
  BY DEF StripeSteps
<1>2. ASSUME NEW n \in 0 .. MaxSeats, NEW u \in 0 .. MaxUnits, Checkout(s, n, u)
      PROVE  \E sub \in Subscriptions : Emission(s, sub, {})
  <2> DEFINE sub == [status |-> "active", items |-> CheckoutItems(n, u),
                     end |-> now + Period, cancel |-> FALSE]
  <2>1. sub \in Subscriptions
    BY <1>2, CheckoutItemsTyped, BillingAssumption DEF Checkout, Subscriptions, Statuses, Live, BillTyped
  <2>2. Emit(s, sub, {}) /\ stripe[s] = NoSub
    BY <1>2 DEF Checkout
  <2>3. sub.status \in Live
    BY DEF Live
  <2> HIDE DEF sub
  <2> QED
    BY <2>1, <2>2, <2>3 DEF Emission
<1>3. ASSUME stripe[s].status \in Live
      PROVE  /\ stripe[s] \in Subscriptions
             /\ \A sub \in Subscriptions :
                  Emit(s, sub, {}) /\ sub.items = stripe[s].items => Emission(s, sub, {})
  BY <1>3, LiveSub DEF Emission
<1>4. CASE PortalCancel(s)
  <2>1. Emit(s, [stripe[s] EXCEPT !.cancel = TRUE], {}) /\ stripe[s].status \in Live
    BY <1>4 DEF PortalCancel
  <2>2. /\ [stripe[s] EXCEPT !.cancel = TRUE] \in Subscriptions
        /\ [stripe[s] EXCEPT !.cancel = TRUE].items = stripe[s].items
    BY <2>1, <1>3 DEF Subscriptions
  <2>3. Emission(s, [stripe[s] EXCEPT !.cancel = TRUE], {})
    BY <2>1, <2>2, <1>3
  <2> QED
    BY <2>2, <2>3, <1>4 DEF PortalCancel
<1>5. CASE PeriodEnds(s)
  <2>1. stripe[s].status \in Live /\ now + Period \in Nat
    BY <1>5, BillingAssumption DEF PeriodEnds, BillTyped
  <2>2. stripe[s] \in Subscriptions
    BY <2>1, <1>3
  <2> DEFINE ends(sub) == sub \in Subscriptions /\ sub.items = stripe[s].items
  <2>3. /\ ends([stripe[s] EXCEPT !.status = "active", !.end = now + Period])
        /\ ends([stripe[s] EXCEPT !.status = "past_due"])
        /\ ends([stripe[s] EXCEPT !.status = "canceled"])
    BY <2>1, <2>2 DEF Subscriptions, Statuses, Live
  <2>4. \/ Emit(s, [stripe[s] EXCEPT !.status = "active", !.end = now + Period], {})
        \/ Emit(s, [stripe[s] EXCEPT !.status = "past_due"], {})
        \/ Emit(s, [stripe[s] EXCEPT !.status = "canceled"], {})
    BY <1>5 DEF PeriodEnds
  <2>5. \E sub \in Subscriptions : Emission(s, sub, {})
    BY <2>1, <2>3, <2>4, <1>3
  <2> QED
    BY <2>5, <1>5 DEF PeriodEnds
<1>6. CASE DropStorage(s)
  <2> DEFINE rest == [p \in {"seat"} |-> stripe[s].items["seat"]]
  <2>1. stripe[s].status \in Live /\ stripe[s] \in Subscriptions /\ Carries(stripe[s].items, "seat")
    BY <1>3, <1>6 DEF DropStorage
  <2>2. rest \in ItemSets
    BY <2>1, ItemFacts, NotNoSub DEF ItemSets
  <2>3. Emit(s, [stripe[s] EXCEPT !.items = rest], {"dropped"})
    BY <1>6, <2>1 DEF DropStorage, Subscriptions
  <2> HIDE DEF rest
  <2>4. [stripe[s] EXCEPT !.items = rest] \in Subscriptions
    BY <2>1, <2>2 DEF Subscriptions
  <2> QED
    BY <2>1, <2>3, <2>4, <1>6 DEF Emission, DropStorage
<1> QED
  BY <1>1, <1>2, <1>4, <1>5, <1>6 DEF Checkout

LEMMA QuantityEmits ==
  ASSUME BillTyped, NEW s \in Subs, NEW n \in 1 .. MaxSeats,
         stripe[s].status \in Live, Carries(stripe[s].items, "seat"),
         Emit(s, [stripe[s] EXCEPT !.items["seat"] = n], {})
  PROVE  /\ Emission(s, [stripe[s] EXCEPT !.items["seat"] = n], {})
<1> DEFINE sub == stripe[s]
           items == [sub.items EXCEPT !["seat"] = n]
<1>1. sub \in Subscriptions /\ sub.items \in ItemSets
  BY LiveSub, NotNoSub
<1>2. items \in ItemSets /\ DOMAIN items = DOMAIN sub.items
  <2>1. n \in 0 .. MaxSeats /\ n \in Nat /\ n <= MaxSeats
    BY BillingAssumption
  <2>2. CASE sub.items \in [{"seat"} -> 0 .. MaxSeats]
    BY <2>1, <2>2 DEF ItemSets
  <2>3. CASE sub.items \in [{"storage"} -> 0 .. MaxUnits]
    BY <2>3 DEF Carries
  <2>4. CASE sub.items \in {it \in [{"seat", "storage"} -> Nat] :
                             it["seat"] <= MaxSeats /\ it["storage"] <= MaxUnits}
    BY <2>1, <2>4 DEF ItemSets
  <2> QED
    BY <1>1, <2>2, <2>3, <2>4 DEF ItemSets
<1>3. [sub EXCEPT !.items["seat"] = n] = [sub EXCEPT !.items = items]
  BY <1>1 DEF Subscriptions
<1> HIDE DEF items
<1>4. [sub EXCEPT !.items = items] \in Subscriptions /\ [sub EXCEPT !.items = items].items = items
  BY <1>1, <1>2 DEF Subscriptions
<1> QED
  BY <1>2, <1>3, <1>4 DEF Emission
-----------------------------------------------------------------------------
(* What the webhook makes of the row. *)

LEMMA RowAfterFacts ==
  ASSUME NEW r \in Rows \cup {NoRow}, NEW x \in Snapshots
  PROVE  /\ RowAfter(r, x) \in Rows \cup {NoRow}
         /\ r # NoRow => RowAfter(r, x) # NoRow
         /\ Carries(x.items, "seat") => SaysPlan(RowAfter(r, x), x)
         /\ ~Carries(x.items, "seat") =>
              /\ RowAfter(r, x).status \in {r.status, "storage_only"}
              /\ r # NoRow => /\ RowAfter(r, x).sub = r.sub /\ RowAfter(r, x).status = r.status
                              /\ RowAfter(r, x).seats = r.seats /\ RowAfter(r, x).end = r.end
                              /\ RowAfter(r, x).cancel = r.cancel
         /\ RowAfter(r, x).units = IF Carries(x.items, "storage") THEN UnitsOf(x) ELSE r.units
<1> DEFINE it == ParseItems(x.items)
           units == IF x.status \in Live THEN it.units ELSE 0
<1>1. /\ x.sub \in Subs /\ x.sub # "none" /\ x.status \in Statuses /\ x.end \in Nat
      /\ x.cancel \in BOOLEAN /\ x.items \in ItemSets
  BY BillingAssumption DEF Snapshots
<1>2. /\ it.storage = Carries(x.items, "storage")
      /\ it.seats = IF Carries(x.items, "seat") THEN Larger(1, x.items["seat"]) ELSE 0
      /\ it.units = IF Carries(x.items, "storage") THEN x.items["storage"] ELSE 0
  BY DEF ParseItems
<1>3. /\ it.seats \in 0 .. MaxSeats /\ it.units \in 0 .. MaxUnits
      /\ (it.seats > 0) = Carries(x.items, "seat")
  BY <1>1, <1>2, ItemFacts, BillingAssumption DEF Larger, Carries
<1>4. /\ units \in 0 .. MaxUnits
      /\ Carries(x.items, "storage") => units = UnitsOf(x)
  BY <1>2, <1>3, BillingAssumption DEF UnitsOf
<1>5. RowAfter(r, x) = IF it.seats > 0 THEN UpsertPlan(r, x, it.seats, it.storage, units)
                       ELSE IF it.storage THEN UpsertStorageOnly(r, x, units)
                       ELSE r
  BY DEF RowAfter
<1>6. Carries(x.items, "seat") \/ Carries(x.items, "storage")
  BY <1>1, ItemFacts
<1>7. /\ NoRow.units = 0 /\ NoRow.status = "none" /\ 0 \in 0 .. MaxUnits /\ 1 \in 0 .. MaxSeats
      /\ r.units \in 0 .. MaxUnits
  BY BillingAssumption DEF NoRow, Rows
<1>8. CASE Carries(x.items, "seat")
  <2>1. RowAfter(r, x) = UpsertPlan(r, x, it.seats, it.storage, units)
    BY <1>3, <1>5, <1>8
  <2> HIDE DEF it, units
  <2>2. /\ RowAfter(r, x) \in Rows
        /\ RowAfter(r, x).sub = x.sub /\ RowAfter(r, x).status = x.status
        /\ RowAfter(r, x).seats = it.seats
        /\ RowAfter(r, x).end = x.end /\ RowAfter(r, x).cancel = x.cancel
        /\ RowAfter(r, x).units = IF it.storage THEN units ELSE r.units
    BY <2>1, <1>1, <1>3, <1>4, <1>7 DEF UpsertPlan, Rows
  <2>3. SaysPlan(RowAfter(r, x), x)
    BY <1>2, <1>8, <2>2 DEF SaysPlan
  <2>4. RowAfter(r, x) # NoRow
    BY <1>1, <2>2 DEF NoRow
  <2>5. RowAfter(r, x).units = IF Carries(x.items, "storage") THEN UnitsOf(x) ELSE r.units
    BY <1>2, <1>4, <2>2
  <2> QED
    BY <1>8, <2>2, <2>3, <2>4, <2>5
<1>9. CASE ~Carries(x.items, "seat")
  <2>1. RowAfter(r, x) = UpsertStorageOnly(r, x, units) /\ Carries(x.items, "storage")
    BY <1>2, <1>3, <1>5, <1>6, <1>9
  <2> HIDE DEF it, units
  <2>2. CASE r # NoRow
    <3>1. RowAfter(r, x) = [r EXCEPT !.units = units] /\ r \in Rows
      BY <2>1, <2>2 DEF UpsertStorageOnly
    <3>2. /\ RowAfter(r, x) \in Rows
          /\ RowAfter(r, x).sub = r.sub /\ RowAfter(r, x).status = r.status
          /\ RowAfter(r, x).seats = r.seats /\ RowAfter(r, x).end = r.end
          /\ RowAfter(r, x).cancel = r.cancel /\ RowAfter(r, x).units = units
      BY <3>1, <1>4 DEF Rows
    <3>3. RowAfter(r, x) # NoRow
      BY <3>2, BillingAssumption DEF NoRow, Rows
    <3> QED
      BY <3>2, <3>3, <2>1, <1>4, <1>9
  <2>3. CASE r = NoRow /\ units = 0
    BY <2>1, <2>3, <1>4, <1>7, <1>9 DEF UpsertStorageOnly
  <2>4. CASE r = NoRow /\ units # 0
    <3>1. RowAfter(r, x) = [sub |-> x.sub, status |-> "storage_only", seats |-> 1, units |-> units,
                            end |-> x.end, cancel |-> FALSE]
      BY <2>1, <2>4 DEF UpsertStorageOnly
    <3>2. RowAfter(r, x) \in Rows
      BY <3>1, <1>1, <1>4, <1>7 DEF Rows
    <3>3. RowAfter(r, x).units = units /\ RowAfter(r, x).status = "storage_only"
      BY <3>1
    <3> QED
      BY <3>2, <3>3, <2>1, <2>4, <1>4, <1>9
  <2> QED
    BY <2>2, <2>3, <2>4
<1> QED
  BY <1>8, <1>9

-----------------------------------------------------------------------------
(* Types, the steps of Billing. *)

LEMMA EventFacts ==
  ASSUME BillTyped, NEW e \in Events
  PROVE  e \in 1 .. MaxEvents /\ e \in Nat /\ outbox[e] \in Snapshots
BY BillingAssumption DEF BillTyped, Events

LEMMA StripeTyped ==
  ASSUME BillTyped, NEW s, NEW sub, NEW more, Emission(s, sub, more),
         UNCHANGED <<acked, ledger, handling, override, now>>, row' \in Rows \cup {NoRow}
  PROVE  BillTyped'
BY EmissionTyped DEF BillTyped

LEMMA WebhookTyped ==
  ASSUME BillTyped, NEW e \in Events, Deliver(e) \/ Process(e) \/ ProcessFails(e)
  PROVE  BillTyped' /\ (row # NoRow => row' # NoRow)
<1>1. e \in 1 .. MaxEvents /\ outbox[e] \in Snapshots /\ row \in Rows \cup {NoRow}
  BY EventFacts DEF BillTyped
<1>2. outbox' = outbox /\ Events' = Events /\ stripe' = stripe /\ override' = override /\ now' = now
  BY DEF Deliver, Process, ProcessFails, Events
<1>3. row' = row \/ row' = RowAfter(row, outbox[e])
  BY DEF Deliver, Process, ProcessFails
<1>4. row' \in Rows \cup {NoRow} /\ (row # NoRow => row' # NoRow)
  BY <1>1, <1>3, RowAfterFacts
<1>5. /\ ledger' \in [1 .. MaxEvents -> {"absent", "recorded", "processed", "error"}]
      /\ handling' \subseteq Events /\ acked' \subseteq Events
  <2>1. ledger \in [1 .. MaxEvents -> {"absent", "recorded", "processed", "error"}]
        /\ handling \subseteq Events /\ acked \subseteq Events
    BY DEF BillTyped
  <2>2. CASE Deliver(e)
    BY <1>1, <2>1, <2>2 DEF Deliver, Mark
  <2>3. CASE Process(e)
    BY <1>1, <2>1, <2>3 DEF Process, Mark
  <2>4. CASE ProcessFails(e)
    BY <1>1, <2>1, <2>4 DEF ProcessFails, Mark
  <2> QED
    BY <2>2, <2>3, <2>4
<1> QED
  BY <1>2, <1>4, <1>5 DEF BillTyped

LEMMA PlanTyped ==
  ASSUME BillTyped, PlanStep
  PROVE  BillTyped' /\ (row # NoRow => row' # NoRow)
<1>1. CASE StripeSteps
  <2>1. PICK s \in Subs, sub \in Subscriptions, more \in {{}, {"dropped"}} : Emission(s, sub, more)
    BY <1>1, StripeEmits
  <2>2. UNCHANGED <<acked, ledger, handling, row, override, now>>
    BY <1>1, StripeEmits
  <2>3. row' \in Rows \cup {NoRow}
    BY <2>2 DEF BillTyped
  <2> QED
    BY <2>1, <2>2, <2>3, StripeTyped
<1>2. CASE WebhookSteps
  BY <1>2, WebhookTyped DEF WebhookSteps
<1>3. CASE Tick
  BY <1>3 DEF Tick, BillTyped, Events
<1>4. ASSUME NEW o \in Overrides \cup {NoOverride}, SetOverride(o)
      PROVE  BillTyped' /\ (row # NoRow => row' # NoRow)
  BY <1>4 DEF SetOverride, BillTyped, Events
<1> QED
  BY <1>1, <1>2, <1>3, <1>4 DEF PlanStep
-----------------------------------------------------------------------------
(* Types, the requests. *)

LEMMA RequestFacts ==
  ASSUME NEW q \in Requests
  PROVE  /\ q.op = "role" => q \in RoleRequests
         /\ q.op = "accept" => q \in AcceptRequests
         /\ q.op = "seats" => q \in SeatRequests
         /\ q # Idle <=> q.op \in {"role", "accept", "seats"}
         /\ q.op \in {"idle", "role", "accept", "seats"}
BY DEF Requests, RoleRequests, AcceptRequests, SeatRequests, Idle

(* The requests after one of them has moved to rec, and the ones reading. *)
LEMMA RequestMoves ==
  ASSUME TeamTyped, NEW r \in Reqs, NEW rec \in Requests, Busy(r, rec),
         rec.op = "accept" => rec.invite \in MadeInvites,
         rec.op = "seats" => row # NoRow,
         Len(invites') = Len(invites), row # NoRow => row' # NoRow
  PROVE  /\ req' \in [Reqs -> Requests] /\ req'[r] = rec
         /\ \A q \in Reqs \ {r} : req'[q] = req[q]
         /\ \A q \in Reqs : req'[q].op = "accept" => req'[q].invite \in MadeInvites'
         /\ \A q \in Reqs : req'[q].op = "seats" => row' # NoRow
         /\ rec = Idle => Reading' = Reading \ {r}
         /\ rec # Idle => Reading' = Reading \cup {r}
<1>1. req \in [Reqs -> Requests] /\ req' = [req EXCEPT ![r] = rec] /\ MadeInvites' = MadeInvites
  BY DEF TeamTyped, Busy, MadeInvites
<1>2. req' \in [Reqs -> Requests] /\ req'[r] = rec /\ \A q \in Reqs \ {r} : req'[q] = req[q]
  BY <1>1
<1>3. /\ \A q \in Reqs : req'[q].op = "accept" => req'[q].invite \in MadeInvites'
      /\ \A q \in Reqs : req'[q].op = "seats" => row' # NoRow
  BY <1>1, <1>2 DEF TeamTyped
<1>4. /\ rec = Idle => Reading' = Reading \ {r}
      /\ rec # Idle => Reading' = Reading \cup {r}
  BY <1>2 DEF Reading
<1> QED
  BY <1>2, <1>3, <1>4

LEMMA IdleMoves ==
  ASSUME TeamTyped, NEW r \in Reqs, Done(r),
         Len(invites') = Len(invites), row # NoRow => row' # NoRow
  PROVE  /\ req' \in [Reqs -> Requests] /\ req'[r] = Idle
         /\ \A q \in Reqs \ {r} : req'[q] = req[q]
         /\ \A q \in Reqs : req'[q].op = "accept" => req'[q].invite \in MadeInvites'
         /\ \A q \in Reqs : req'[q].op = "seats" => row' # NoRow
         /\ Reading' = Reading \ {r}
BY RequestMoves DEF Done, Busy, Requests, Idle

LEMMA NoWriteTyped ==
  ASSUME TeamTyped, NEW r \in Reqs, Done(r), NoWrite(r), row # NoRow => row' # NoRow
  PROVE  TeamTyped'
<1>1. stale' \subseteq Reading' /\ invites' = invites
  BY IdleMoves DEF NoWrite, TeamTyped
<1> QED
  BY <1>1, IdleMoves DEF TeamTyped, NoWrite, MadeInvites

LEMMA MovedTyped ==
  ASSUME TeamTyped, NEW r \in Reqs, NEW rec \in Requests, Busy(r, rec), rec # Idle,
         rec.op = "accept" => rec.invite \in MadeInvites,
         rec.op = "seats" => row # NoRow, row # NoRow => row' # NoRow,
         UNCHANGED <<members, invites, stale, raced, joined>>
  PROVE  TeamTyped'
<1>1. stale' \subseteq Reading'
  BY RequestMoves DEF TeamTyped
<1> QED
  BY <1>1, RequestMoves DEF TeamTyped, MadeInvites

LEMMA WroteTyped ==
  ASSUME TeamTyped, NEW r \in Reqs, Done(r), Overlap(r) \/ stale' = stale \ {r},
         members' \in [Users -> Roles \cup {"none"}],
         invites' \in Seq(Invites), joined' \in Seq(Nat),
         Len(invites') = Len(invites), Len(joined') = Len(joined),
         raced' = (raced \/ r \in stale), row # NoRow => row' # NoRow
  PROVE  TeamTyped'
<1>1. stale' \subseteq Reading'
  BY IdleMoves DEF TeamTyped, Overlap
<1>2. raced' \in BOOLEAN
  OBVIOUS
<1> QED
  BY <1>1, <1>2, IdleMoves DEF TeamTyped

LEMMA BillingKept ==
  ASSUME BillTyped, UNCHANGED billingVars
  PROVE  BillTyped' /\ row' = row
BY DEF BillTyped, billingVars, Events

LEMMA CountOwnersTyped ==
  ASSUME Typed, NEW r \in Reqs, CountOwners(r)
  PROVE  Typed'
<1>1. BillTyped' /\ row' = row
  BY BillingKept DEF Typed, CountOwners
<1>2. CASE Done(r) /\ NoWrite(r)
  BY <1>1, <1>2, NoWriteTyped DEF Typed
<1>3. CASE /\ Busy(r, [req[r] EXCEPT !.pc = "write"])
           /\ UNCHANGED <<members, invites, stale, raced, joined>>
  <2>1. req[r] \in RoleRequests
    BY RequestFacts DEF CountOwners, Typed, TeamTyped
  <2>2. /\ [req[r] EXCEPT !.pc = "write"] \in RoleRequests
        /\ [req[r] EXCEPT !.pc = "write"].op = "role"
    BY <2>1 DEF RoleRequests
  <2>3. [req[r] EXCEPT !.pc = "write"] \in Requests /\ [req[r] EXCEPT !.pc = "write"] # Idle
    BY <2>2, RequestFacts DEF Requests
  <2> QED
    BY <1>1, <1>3, <2>2, <2>3, MovedTyped DEF Typed
<1> QED
  BY <1>2, <1>3 DEF CountOwners

LEMMA WriteRoleTyped ==
  ASSUME Typed, NEW r \in Reqs, WriteRole(r)
  PROVE  Typed'
<1>1. BillTyped' /\ row' = row
  BY BillingKept DEF Typed, WriteRole
<1>2. req[r] \in RoleRequests
  BY RequestFacts DEF WriteRole, Typed, TeamTyped
<1>3. members' \in [Users -> Roles \cup {"none"}]
  BY <1>2 DEF WriteRole, Typed, TeamTyped, RoleRequests
<1> QED
  BY <1>1, <1>3, WroteTyped DEF WriteRole, Typed, TeamTyped

LEMMA CheckCapTyped ==
  ASSUME Typed, NEW r \in Reqs, CheckCap(r)
  PROVE  Typed'
<1>1. BillTyped' /\ row' = row
  BY BillingKept DEF Typed, CheckCap
<1>2. CASE Done(r) /\ NoWrite(r)
  BY <1>1, <1>2, NoWriteTyped DEF Typed
<1>3. CASE /\ Busy(r, [req[r] EXCEPT !.pc = "join"])
           /\ UNCHANGED <<members, invites, stale, raced, joined>>
  <2>1. req[r] \in AcceptRequests /\ req[r].invite \in MadeInvites
    BY RequestFacts DEF CheckCap, Typed, TeamTyped
  <2>2. /\ [req[r] EXCEPT !.pc = "join"] \in AcceptRequests
        /\ [req[r] EXCEPT !.pc = "join"].op = "accept"
        /\ [req[r] EXCEPT !.pc = "join"].invite \in MadeInvites
    BY <2>1 DEF AcceptRequests
  <2>3. [req[r] EXCEPT !.pc = "join"] \in Requests /\ [req[r] EXCEPT !.pc = "join"] # Idle
    BY <2>2, RequestFacts DEF Requests
  <2> QED
    BY <1>1, <1>3, <2>2, <2>3, MovedTyped DEF Typed
<1> QED
  BY <1>2, <1>3 DEF CheckCap

LEMMA JoinTyped ==
  ASSUME Typed, NEW r \in Reqs, Join(r)
  PROVE  Typed'
<1> DEFINE i == req[r].invite
           u == req[r].who
<1>1. BillTyped' /\ row' = row /\ Done(r)
  BY BillingKept DEF Typed, Join
<1>2. u \in Users /\ i \in MadeInvites /\ i \in 1 .. Len(joined) /\ i \in 1 .. Len(invites)
  BY RequestFacts DEF Join, Typed, TeamTyped, AcceptRequests, MadeInvites
<1>3. CASE Usable(i) /\ members[u] = "none"
  <2>1. /\ invites' = [invites EXCEPT ![i].uses = @ + 1]
        /\ members' = [members EXCEPT ![u] = invites[i].role]
        /\ joined' = [joined EXCEPT ![i] = @ + 1]
        /\ raced' = (raced \/ r \in stale) /\ Overlap(r)
    BY <1>3 DEF Join
  <2>2. invites \in Seq(Invites) /\ joined \in Seq(Nat) /\ members \in [Users -> Roles \cup {"none"}]
    BY DEF Typed, TeamTyped
  <2> HIDE DEF i, u
  <2>3. invites[i] \in Invites /\ joined[i] \in Nat
    BY <1>2, <2>2
  <2>4. /\ invites' \in Seq(Invites) /\ Len(invites') = Len(invites)
    <3> DEFINE up == [invites[i] EXCEPT !.uses = @ + 1]
    <3>1. up \in Invites
      BY <2>3 DEF Invites
    <3>2. invites' = [invites EXCEPT ![i] = up]
      BY <2>1
    <3> HIDE DEF up
    <3> QED
      BY <1>2, <2>2, <3>1, <3>2
  <2>5. joined' \in Seq(Nat) /\ Len(joined') = Len(joined)
    <3> DEFINE up == joined[i] + 1
    <3>1. up \in Nat /\ joined' = [joined EXCEPT ![i] = up]
      BY <2>1, <2>3
    <3> HIDE DEF up
    <3> QED
      BY <1>2, <2>2, <3>1
  <2>6. members' \in [Users -> Roles \cup {"none"}]
    BY <2>1, <2>2, <2>3 DEF Invites
  <2> QED
    BY <1>1, <2>1, <2>4, <2>5, <2>6, WroteTyped DEF Typed
<1>4. CASE ~(Usable(i) /\ members[u] = "none")
  <2>1. NoWrite(r)
    BY <1>4 DEF Join
  <2> QED
    BY <1>1, <2>1, NoWriteTyped DEF Typed
<1> QED
  BY <1>3, <1>4

LEMMA ChangeQuantityTyped ==
  ASSUME Typed, NEW r \in Reqs, ChangeQuantity(r)
  PROVE  Typed' /\ row' = row
<1>1. req[r] \in SeatRequests /\ row # NoRow /\ row' = row /\ row' \in Rows \cup {NoRow}
  BY RequestFacts DEF ChangeQuantity, Typed, TeamTyped, BillTyped
<1>2. CASE Done(r) /\ NoWrite(r) /\ UNCHANGED <<stripe, outbox, mishaps>>
  <2>1. BillTyped'
    BY <1>2 DEF ChangeQuantity, Typed, BillTyped, Events
  <2> QED
    BY <1>1, <1>2, <2>1, NoWriteTyped DEF Typed
<1>3. CASE /\ stripe[req[r].sub].status \in Live /\ Carries(stripe[req[r].sub].items, "seat")
           /\ Emit(req[r].sub, [stripe[req[r].sub] EXCEPT !.items["seat"] = req[r].seats], {})
           /\ Busy(r, [req[r] EXCEPT !.pc = "write"])
           /\ UNCHANGED <<members, invites, stale, raced, joined>>
  <2>1. /\ [req[r] EXCEPT !.pc = "write"] \in SeatRequests
        /\ [req[r] EXCEPT !.pc = "write"].op = "seats"
    BY <1>1 DEF SeatRequests
  <2>2. [req[r] EXCEPT !.pc = "write"] \in Requests /\ [req[r] EXCEPT !.pc = "write"] # Idle
    BY <2>1, RequestFacts DEF Requests
  <2>3. TeamTyped'
    BY <1>1, <1>3, <2>1, <2>2, MovedTyped DEF Typed
  <2>4. req[r].sub \in Subs /\ req[r].seats \in 1 .. MaxSeats
    BY <1>1 DEF SeatRequests
  <2>5. Emission(req[r].sub, [stripe[req[r].sub] EXCEPT !.items["seat"] = req[r].seats], {})
    BY <1>3, <2>4, QuantityEmits DEF Typed
  <2>6. UNCHANGED <<acked, ledger, handling, override, now>>
    BY DEF ChangeQuantity
  <2>7. BillTyped'
    BY <1>1, <2>5, <2>6, StripeTyped DEF Typed
  <2> QED
    BY <1>1, <2>3, <2>7 DEF Typed
<1> QED
  BY <1>2, <1>3 DEF ChangeQuantity

LEMMA WriteSeatsTyped ==
  ASSUME Typed, NEW r \in Reqs, WriteSeats(r)
  PROVE  Typed'
<1>1. req[r] \in SeatRequests /\ row # NoRow /\ row \in Rows
  BY RequestFacts DEF WriteSeats, Typed, TeamTyped, BillTyped
<1>2. req[r].seats \in 0 .. MaxSeats
  BY <1>1, BillingAssumption DEF SeatRequests
<1>3. row' \in Rows /\ row' # NoRow
  <2>1. row' = [row EXCEPT !.seats = req[r].seats]
    BY DEF WriteSeats
  <2>2. row' \in Rows
    BY <1>1, <1>2, <2>1 DEF Rows
  <2> QED
    BY <2>2, BillingAssumption DEF Rows, NoRow
<1>4. BillTyped'
  BY <1>3 DEF WriteSeats, Typed, BillTyped, Events
<1> QED
  BY <1>3, <1>4, WroteTyped DEF WriteSeats, Typed, TeamTyped
LEMMA ReadRolesTyped ==
  ASSUME Typed, NEW r \in Reqs, NEW who \in Users, NEW target \in Users, NEW to \in AskedRoles,
         ReadRoles(r, who, target, to)
  PROVE  Typed'
<1>1. BillTyped' /\ row' = row
  BY BillingKept DEF Typed, ReadRoles
<1>2. UNCHANGED <<members, invites, stale, raced, joined>>
  BY DEF ReadRoles
<1> DEFINE rec == [op |-> "role", pc |-> IF OwnerGoes(target, to) THEN "count" ELSE "write",
                   who |-> who, target |-> target, to |-> to]
<1>3. rec \in RoleRequests /\ rec.op = "role"
  BY TeamAssumption DEF RoleRequests, Roles
<1>4. Busy(r, rec)
  BY DEF ReadRoles
<1> HIDE DEF rec
<1> QED
  BY <1>1, <1>2, <1>3, <1>4, MovedTyped, RequestFacts DEF Typed, Requests

LEMMA LockInviteTyped ==
  ASSUME Typed, NEW r \in Reqs, NEW who \in Users, NEW i \in MadeInvites,
         LockInvite(r, who, i)
  PROVE  Typed'
<1>1. BillTyped' /\ row' = row
  BY BillingKept DEF Typed, LockInvite
<1>2. UNCHANGED <<members, invites, stale, raced, joined>>
  BY DEF LockInvite
<1> DEFINE rec == [op |-> "accept", pc |-> "limits", who |-> who, invite |-> i]
<1>3. rec \in AcceptRequests /\ rec.op = "accept" /\ rec.invite \in MadeInvites
  BY DEF AcceptRequests, MadeInvites
<1>4. Busy(r, rec)
  BY DEF LockInvite
<1> HIDE DEF rec
<1> QED
  BY <1>1, <1>2, <1>3, <1>4, MovedTyped, RequestFacts DEF Typed, Requests

LEMMA CheckSeatsTyped ==
  ASSUME Typed, NEW r \in Reqs, NEW who \in Users, NEW n \in 1 .. MaxSeats,
         CheckSeats(r, who, n)
  PROVE  Typed'
<1>1. BillTyped' /\ row' = row
  BY BillingKept DEF Typed, CheckSeats
<1>2. UNCHANGED <<members, invites, stale, raced, joined>>
  BY DEF CheckSeats
<1> DEFINE rec == [op |-> "seats", pc |-> "stripe", sub |-> row.sub, seats |-> n]
<1>3. row # NoRow /\ row \in Rows
  BY DEF CheckSeats, Grants, NoRow, Typed, BillTyped
<1>4. rec \in SeatRequests /\ rec.op = "seats"
  BY <1>3 DEF SeatRequests, Rows
<1>5. Busy(r, rec)
  BY DEF CheckSeats
<1> HIDE DEF rec
<1> QED
  BY <1>1, <1>2, <1>3, <1>4, <1>5, MovedTyped, RequestFacts DEF Typed, Requests

LEMMA CreateInviteTyped ==
  ASSUME Typed, NEW who \in Users, NEW k \in InviteKinds, CreateInvite(who, k.role, k.uses, k.days)
  PROVE  Typed' /\ Len(invites') = Len(invites) + 1
<1> DEFINE new == [role |-> k.role, max |-> k.uses, uses |-> 0, expires |-> now + k.days,
                   revoked |-> FALSE]
<1>1. new \in Invites
  BY TeamAssumption DEF Invites, Roles, Typed, BillTyped
<1>2. invites' = Append(invites, new) /\ joined' = Append(joined, 0)
      /\ UNCHANGED <<billingVars, members, req, stale, raced>> /\ Len(invites) < MaxInvites
  BY DEF CreateInvite
<1> HIDE DEF new
<1>3. invites \in Seq(Invites) /\ joined \in Seq(Nat) /\ MaxInvites \in Nat
  BY TeamAssumption DEF Typed, TeamTyped
<1>4. /\ invites' \in Seq(Invites) /\ Len(invites') = Len(invites) + 1
      /\ joined' \in Seq(Nat) /\ Len(joined') = Len(joined) + 1
      /\ Len(invites) \in Nat
  BY <1>1, <1>2, <1>3
<1>5. MadeInvites \subseteq MadeInvites'
  BY <1>4 DEF MadeInvites
<1>6. BillTyped' /\ row' = row
  BY <1>2, BillingKept DEF Typed
<1>7. Reading' = Reading
  BY <1>2 DEF Reading
<1>8. TeamTyped'
  BY <1>2, <1>3, <1>4, <1>5, <1>6, <1>7 DEF Typed, TeamTyped
<1> QED
  BY <1>4, <1>6, <1>8 DEF Typed

LEMMA RevokeInviteTyped ==
  ASSUME Typed, NEW who \in Users, NEW i \in MadeInvites, RevokeInvite(who, i)
  PROVE  Typed' /\ Len(invites') = Len(invites)
<1> DEFINE new == [invites[i] EXCEPT !.revoked = TRUE]
<1>1. invites \in Seq(Invites) /\ i \in 1 .. Len(invites) /\ invites[i] \in Invites
  BY DEF Typed, TeamTyped, MadeInvites
<1>2. new \in Invites
  BY <1>1 DEF Invites
<1>3. invites' = [invites EXCEPT ![i] = new] /\ UNCHANGED <<billingVars, members, req, stale, raced, joined>>
  BY DEF RevokeInvite
<1> HIDE DEF new
<1>4. invites' \in Seq(Invites) /\ Len(invites') = Len(invites)
  BY <1>1, <1>2, <1>3
<1>5. BillTyped' /\ row' = row
  BY <1>3, BillingKept DEF Typed
<1>6. Reading' = Reading /\ MadeInvites' = MadeInvites
  BY <1>3, <1>4 DEF Reading, MadeInvites
<1>7. TeamTyped'
  BY <1>3, <1>4, <1>5, <1>6 DEF Typed, TeamTyped
<1> QED
  BY <1>4, <1>5, <1>7 DEF Typed

LEMMA AroundTyped ==
  ASSUME Typed, PlanStep \/ Crash \/ UNCHANGED vars
  PROVE  Typed'
<1>1. CASE PlanStep
  <2>1. BillTyped' /\ (row # NoRow => row' # NoRow)
    BY <1>1, PlanTyped DEF Typed
  <2>2. Reading' = Reading /\ stale' \subseteq Reading /\ MadeInvites' = MadeInvites
    BY <1>1 DEF PlanStep, Reading, Typed, TeamTyped, MadeInvites
  <2> QED
    BY <1>1, <2>1, <2>2 DEF PlanStep, Typed, TeamTyped
<1>2. CASE Crash
  <2>1. BillTyped' /\ row' = row
    BY <1>2 DEF Crash, BillingCrash, Typed, BillTyped, Events
  <2> QED
    BY <1>2, <2>1 DEF Crash, Typed, TeamTyped, Requests, Idle, MadeInvites
<1>3. CASE UNCHANGED vars
  <2>1. BillTyped' /\ row' = row
    BY <1>3, BillingKept DEF Typed, vars
  <2>2. TeamTyped'
    BY <1>3, <2>1 DEF vars, teamVars, Typed, TeamTyped, MadeInvites, Reading
  <2> QED
    BY <2>1, <2>2 DEF Typed
<1> QED
  BY <1>1, <1>2, <1>3

LEMMA FinishTyped ==
  ASSUME Typed, NEW r \in Reqs, Finish(r)
  PROVE  Typed'
<1>1. CASE PoolTimeout(r)
  BY <1>1, BillingKept, NoWriteTyped DEF Typed, PoolTimeout
<1> QED
  BY <1>1, CountOwnersTyped, WriteRoleTyped, CheckCapTyped, JoinTyped, ChangeQuantityTyped,
     WriteSeatsTyped DEF Finish

LEMMA InitTyped ==
  ASSUME Init
  PROVE  Typed
<1>1. BillTyped
  BY BillingAssumption DEF Init, BillingInit, BillTyped, Events
<1>2. /\ req = [r \in Reqs |-> Idle] /\ stale = {} /\ raced = FALSE
      /\ invites = <<>> /\ joined = <<>>
      /\ members = [u \in Users |-> IF u = Creator THEN "owner" ELSE "none"]
  BY DEF Init, TeamInit
<1>3. /\ req \in [Reqs -> Requests] /\ \A r \in Reqs : req[r].op = "idle"
  BY <1>2 DEF Requests, Idle
<1>4. /\ invites \in Seq(Invites) /\ joined \in Seq(Nat) /\ Len(invites) = 0 /\ Len(joined) = 0
  BY <1>2
<1>5. members \in [Users -> Roles \cup {"none"}]
  BY <1>2 DEF Roles
<1>6. raced \in BOOLEAN /\ stale \subseteq Reading
  BY <1>2
<1>7. /\ \A r \in Reqs : req[r].op = "accept" => req[r].invite \in MadeInvites
      /\ \A r \in Reqs : req[r].op = "seats" => row # NoRow
  BY <1>3
<1>8. TeamTyped
  BY <1>3, <1>4, <1>5, <1>6, <1>7, TeamAssumption DEF TeamTyped
<1> QED
  BY <1>1, <1>8 DEF Typed

(* One step of one of its actors: the disjuncts of Next. *)
RequestSteps(r) ==
  \/ Finish(r)
  \/ \E who \in Users, target \in Users, to \in AskedRoles : ReadRoles(r, who, target, to)
  \/ \E who \in Users, i \in MadeInvites : LockInvite(r, who, i)
  \/ \E who \in Users, n \in 1 .. MaxSeats : CheckSeats(r, who, n)

InviteSteps ==
  \E who \in Users :
    \/ \E k \in InviteKinds : CreateInvite(who, k.role, k.uses, k.days)
    \/ \E i \in MadeInvites : RevokeInvite(who, i)

LEMMA NextSteps ==
  ASSUME [Next]_vars
  PROVE  \/ PlanStep \/ Crash \/ UNCHANGED vars
         \/ \E r \in Reqs : RequestSteps(r)
         \/ InviteSteps
BY DEF Next, RequestSteps, InviteSteps

LEMMA TypedStep ==
  ASSUME Typed, [Next]_vars
  PROVE  Typed'
BY NextSteps, AroundTyped, FinishTyped, ReadRolesTyped, LockInviteTyped, CheckSeatsTyped,
   CreateInviteTyped, RevokeInviteTyped DEF RequestSteps, InviteSteps
-----------------------------------------------------------------------------
(* What a request has judged. *)

LEMMA CapIsNat ==
  ASSUME BillTyped
  PROVE  LimitsFor.members \in Nat
<1>1. PlanFor.seats \in Nat
  <2>1. \A n \in Nat : ClampSeats(n) \in Nat
    BY BillingAssumption DEF ClampSeats
  <2>2. CASE OverrideActive
    <3>1. override.seats \in Nat
      BY <2>2, BillingAssumption DEF OverrideActive, BillTyped
    <3> QED
      BY <2>1, <2>2, <3>1 DEF PlanFor, OverridePlan, Unlimited, Paid
  <2>3. CASE ~OverrideActive
    <3>1. row.seats \in Nat
      BY BillingAssumption DEF BillTyped, Rows, NoRow
    <3> QED
      BY <2>1, <2>3, <3>1 DEF PlanFor, ResolvePlan, Free, Paid
  <2> QED
    BY <2>2, <2>3
<1>2. LimitsFor.members = PlanFor.seats
  BY DEF LimitsFor, WithUnits, Limits
<1> QED
  BY <1>1, <1>2

LEMMA PeopleFinite ==
  /\ IsFiniteSet(People) /\ Cardinality(People) \in Nat
  /\ IsFiniteSet(Owners) /\ Cardinality(Owners) \in Nat
<1>1. People \in SUBSET Users /\ Owners \in SUBSET Users
  BY DEF People, Owners
<1> QED
  BY <1>1, TeamAssumption, FS_Subset, FS_CardinalityType

(* The other requests keep what they judged, or learn that it is old. *)
LEMMA OthersJudged ==
  ASSUME TeamTyped, NEW r, \A q \in Reqs : Judged(q),
         \A q \in Reqs \ {r} : req'[q] = req[q],
         Overlap(r) \/ (members' = members /\ LimitsFor' = LimitsFor /\ stale \ {r} \subseteq stale')
  PROVE  \A q \in Reqs \ {r} : Judged(q)'
<1> SUFFICES ASSUME NEW q \in Reqs \ {r}
             PROVE  Judged(q)'
  OBVIOUS
<1>1. req'[q] = req[q]
  OBVIOUS
<1>2. CASE Overlap(r)
  <2>1. CASE req[q] = Idle
    BY <1>1, <2>1 DEF Judged, Idle
  <2>2. CASE req[q] # Idle
    BY <1>2, <2>2 DEF Judged, Overlap, Reading
  <2> QED
    BY <2>1, <2>2
<1>3. CASE members' = members /\ LimitsFor' = LimitsFor /\ stale \ {r} \subseteq stale'
  <2>1. Owners' = Owners /\ (WithinCap' <=> WithinCap)
    BY <1>3 DEF Owners, WithinCap, People
  <2>2. OwnerGoes(req[q].target, req[q].to)' <=> OwnerGoes(req[q].target, req[q].to)
    BY <1>1, <1>3 DEF OwnerGoes
  <2>3. Judged(q) /\ (q \in stale => q \in stale')
    BY <1>3
  <2> QED
    BY <1>1, <2>1, <2>2, <2>3 DEF Judged
<1> QED
  BY <1>2, <1>3

LEMMA PlanUnchanged ==
  ASSUME UNCHANGED <<row, override, now>>
  PROVE  LimitsFor' = LimitsFor
BY DEF LimitsFor, PlanFor, OverrideActive, OverridePlan, ResolvePlan, Grants

LEMMA CountOwnersJudged ==
  ASSUME Typed, TeamInv, NEW r \in Reqs, CountOwners(r)
  PROVE  TeamInv'
<1>1. members' = members /\ UNCHANGED <<invites, joined, raced>> /\ LimitsFor' = LimitsFor
  BY PlanUnchanged DEF CountOwners, NoWrite, billingVars
<1>2. req \in [Reqs -> Requests]
  BY DEF Typed, TeamTyped
<1>3. \A q \in Reqs \ {r} : req'[q] = req[q]
  BY <1>2 DEF CountOwners, Done, Busy
<1>4. \A q \in Reqs \ {r} : Judged(q)'
  BY <1>1, <1>3, OthersJudged DEF CountOwners, NoWrite, TeamInv, Typed
<1>5. Judged(r)'
  <2>1. CASE Done(r)
    BY <1>2, <2>1 DEF Done, Judged, Idle
  <2>2. CASE ~LastOwner /\ Busy(r, [req[r] EXCEPT !.pc = "write"])
    <3>1. req'[r].op = "role"
      BY <1>2, <2>2, RequestFacts DEF Busy, CountOwners, RoleRequests
    <3>2. Cardinality(Owners) >= 2
      BY <2>2, PeopleFinite DEF LastOwner
    <3>3. Owners' = Owners
      BY <1>1 DEF Owners
    <3> QED
      BY <3>1, <3>2, <3>3 DEF Judged
  <2> QED
    BY <2>1, <2>2 DEF CountOwners
<1>6. KeepsOwnerUnraced' /\ UsesCounted'
  BY <1>1 DEF TeamInv, KeepsOwnerUnraced, Owners, UsesCounted, MadeInvites
<1> QED
  BY <1>4, <1>5, <1>6 DEF TeamInv

LEMMA WriteRoleJudged ==
  ASSUME Typed, TeamInv, NEW r \in Reqs, WriteRole(r)
  PROVE  TeamInv'
<1> DEFINE t == req[r].target
           to == req[r].to
<1>1. /\ members \in [Users -> Roles \cup {"none"}] /\ t \in Users /\ to \in Roles \cup {"none"}
      /\ req \in [Reqs -> Requests] /\ req[r].op = "role" /\ req[r].pc = "write"
  BY RequestFacts DEF WriteRole, Typed, TeamTyped, RoleRequests
<1>2. /\ members' = [members EXCEPT ![t] = IF @ = "none" THEN "none" ELSE to]
      /\ raced' = (raced \/ r \in stale) /\ UNCHANGED <<invites, joined, billingVars>>
      /\ req' = [req EXCEPT ![r] = Idle]
      /\ Overlap(r) \/ (members' = members /\ stale' = stale \ {r})
  BY DEF WriteRole, Done, Busy
<1>3. LimitsFor' = LimitsFor /\ \A q \in Reqs \ {r} : req'[q] = req[q]
  BY <1>1, <1>2, PlanUnchanged DEF billingVars
<1>4. \A q \in Reqs \ {r} : Judged(q)'
  BY <1>2, <1>3, OthersJudged DEF TeamInv, Typed
<1>5. Judged(r)'
  BY <1>1, <1>2 DEF Judged, Idle
<1>6. KeepsOwnerUnraced'
  <2>1. SUFFICES ASSUME ~raced, r \notin stale
                 PROVE  Owners' # {}
    BY <1>2 DEF KeepsOwnerUnraced
  <2>2. Owners # {}
    BY <2>1 DEF TeamInv, KeepsOwnerUnraced
  <2> HIDE DEF t, to
  <2>3. \A u \in Users \ {t} : members'[u] = members[u]
    BY <1>1, <1>2
  <2>4. CASE members[t] = "owner" /\ to # "owner"
    <3>1. Cardinality(Owners) >= 2
      BY <1>1, <2>1, <2>4 DEF TeamInv, Judged, OwnerGoes, t, to
    <3>2. Owners # {t}
      BY <3>1, FS_Singleton
    <3>3. PICK u \in Owners : u # t
      BY <2>2, <3>2
    <3> QED
      BY <2>3, <3>3 DEF Owners
  <2>5. CASE members[t] = "owner" /\ to = "owner"
    BY <1>1, <1>2, <2>5 DEF Owners
  <2>6. CASE members[t] # "owner"
    BY <2>2, <2>3, <2>6 DEF Owners
  <2> QED
    BY <2>4, <2>5, <2>6
<1>7. UsesCounted'
  BY <1>2 DEF TeamInv, UsesCounted, MadeInvites
<1> QED
  BY <1>4, <1>5, <1>6, <1>7 DEF TeamInv

LEMMA CheckCapJudged ==
  ASSUME Typed, TeamInv, NEW r \in Reqs, CheckCap(r)
  PROVE  TeamInv'
<1>1. members' = members /\ UNCHANGED <<invites, joined, raced>> /\ LimitsFor' = LimitsFor
  BY PlanUnchanged DEF CheckCap, NoWrite, billingVars
<1>2. req \in [Reqs -> Requests]
  BY DEF Typed, TeamTyped
<1>3. \A q \in Reqs \ {r} : req'[q] = req[q]
  BY <1>2 DEF CheckCap, Done, Busy
<1>4. \A q \in Reqs \ {r} : Judged(q)'
  BY <1>1, <1>3, OthersJudged DEF CheckCap, NoWrite, TeamInv, Typed
<1>5. Judged(r)'
  <2>1. CASE Done(r)
    BY <1>2, <2>1 DEF Done, Judged, Idle
  <2>2. CASE WithinCap /\ Busy(r, [req[r] EXCEPT !.pc = "join"])
    <3>1. req'[r].op = "accept"
      BY <1>2, <2>2, RequestFacts DEF Busy, CheckCap, AcceptRequests
    <3>2. WithinCap'
      BY <1>1, <2>2 DEF WithinCap, People
    <3> QED
      BY <3>1, <3>2 DEF Judged
  <2> QED
    BY <2>1, <2>2 DEF CheckCap
<1>6. KeepsOwnerUnraced' /\ UsesCounted'
  BY <1>1 DEF TeamInv, KeepsOwnerUnraced, Owners, UsesCounted, MadeInvites
<1> QED
  BY <1>4, <1>5, <1>6 DEF TeamInv

(* A request that ends without a write, and one that starts. *)
LEMMA QuietJudged ==
  ASSUME Typed, TeamInv, NEW r, req' \in [Reqs -> Requests],
         \A q \in Reqs \ {r} : req'[q] = req[q],
         r \in Reqs => \/ req'[r].op \in {"idle", "seats"}
                       \/ req'[r].op = "accept" /\ req'[r].pc = "limits"
                       \/ req'[r].op = "role" /\ ~OwnerGoes(req[r].target, req[r].to)'
                       \/ req'[r].op = "role" /\ req'[r].pc = "count",
         UNCHANGED <<members, invites, joined, raced>>,
         Overlap(r) \/ (LimitsFor' = LimitsFor /\ stale \ {r} \subseteq stale')
  PROVE  TeamInv'
<1>1. \A q \in Reqs \ {r} : Judged(q)'
  BY OthersJudged DEF TeamInv, Typed
<1>2. r \in Reqs => Judged(r)'
  BY DEF Judged
<1>3. KeepsOwnerUnraced' /\ UsesCounted'
  BY DEF TeamInv, KeepsOwnerUnraced, Owners, UsesCounted, MadeInvites
<1> QED
  BY <1>1, <1>2, <1>3 DEF TeamInv

LEMMA JoinJudged ==
  ASSUME Typed, TeamInv, NEW r \in Reqs, Join(r)
  PROVE  /\ TeamInv'
         /\ members' # members /\ r \notin stale =>
              LimitsFor.members = 0 \/ Cardinality(People') <= LimitsFor.members
<1> DEFINE i == req[r].invite
           u == req[r].who
<1>1. /\ req \in [Reqs -> Requests] /\ members \in [Users -> Roles \cup {"none"}]
      /\ invites \in Seq(Invites) /\ joined \in Seq(Nat) /\ Len(joined) = Len(invites)
      /\ u \in Users /\ i \in 1 .. Len(invites) /\ req[r].op = "accept" /\ req[r].pc = "join"
  BY RequestFacts DEF Join, Typed, TeamTyped, AcceptRequests, MadeInvites
<1>2. /\ req' = [req EXCEPT ![r] = Idle] /\ LimitsFor' = LimitsFor
  BY PlanUnchanged DEF Join, Done, Busy, billingVars
<1>3. \A q \in Reqs \ {r} : req'[q] = req[q]
  BY <1>1, <1>2
<1>4. CASE NoWrite(r)
  <2>1. /\ members' = members /\ stale \ {r} \subseteq stale'
        /\ UNCHANGED <<invites, joined, raced>>
    BY <1>4 DEF NoWrite
  <2>2. req' \in [Reqs -> Requests] /\ req'[r].op = "idle"
    BY <1>1, <1>2 DEF Requests, Idle
  <2> QED
    BY <1>2, <1>3, <2>1, <2>2, QuietJudged
<1>5. CASE Usable(i) /\ members[u] = "none" /\ ~NoWrite(r)
  <2>1. /\ invites' = [invites EXCEPT ![i].uses = @ + 1]
        /\ members' = [members EXCEPT ![u] = invites[i].role]
        /\ joined' = [joined EXCEPT ![i] = @ + 1]
        /\ raced' = (raced \/ r \in stale) /\ Overlap(r)
    BY <1>5 DEF Join
  <2>2. /\ invites[i] \in Invites /\ joined[i] \in Nat
        /\ invites[i].max = 0 \/ invites[i].uses < invites[i].max
    BY <1>1, <1>5 DEF Usable
  <2>3. \A q \in Reqs : Judged(q)'
    <3>1. \A q \in Reqs \ {r} : Judged(q)'
      BY <1>3, <2>1, OthersJudged DEF TeamInv, Typed
    <3>2. Judged(r)'
      BY <1>1, <1>2 DEF Judged, Idle
    <3> QED
      BY <3>1, <3>2
  <2> HIDE DEF i, u
  <2>4. UsesCounted'
    <3>1. /\ Len(invites') = Len(invites)
          /\ \A j \in 1 .. Len(invites) :
               /\ invites'[j].uses = IF j = i THEN invites[j].uses + 1 ELSE invites[j].uses
               /\ invites'[j].max = invites[j].max
               /\ joined'[j] = IF j = i THEN joined[j] + 1 ELSE joined[j]
      <4> DEFINE up == [invites[i] EXCEPT !.uses = @ + 1]
      <4>1. up.uses = invites[i].uses + 1 /\ up.max = invites[i].max
        BY <2>2 DEF Invites
      <4>2. invites' = [invites EXCEPT ![i] = up]
        BY <2>1
      <4> HIDE DEF up
      <4> QED
        BY <1>1, <2>1, <2>2, <4>1, <4>2
    <3>2. \A j \in 1 .. Len(invites) :
            /\ invites[j].uses = joined[j] /\ (invites[j].max # 0 => joined[j] <= invites[j].max)
      BY DEF TeamInv, UsesCounted, MadeInvites
    <3>3. /\ invites[i].max \in Nat /\ invites[i].uses \in Nat
      BY <2>2 DEF Invites
    <3>4. ASSUME NEW j \in 1 .. Len(invites)
          PROVE  /\ invites'[j].uses = joined'[j]
                 /\ invites'[j].max # 0 => joined'[j] <= invites'[j].max
      <4>1. CASE j # i
        BY <3>1, <3>2, <4>1
      <4>2. CASE j = i
        <5>1. /\ invites'[j].uses = invites[i].uses + 1 /\ joined'[j] = joined[i] + 1
              /\ invites'[j].max = invites[i].max /\ invites[i].uses = joined[i]
          BY <3>1, <3>2, <4>2
        <5> QED
          BY <2>2, <3>3, <5>1
      <4> QED
        BY <4>1, <4>2
    <3> QED
      BY <3>1, <3>4 DEF UsesCounted, MadeInvites
  <2>5. KeepsOwnerUnraced'
    <3>1. \A o \in Owners : o \in Owners'
      BY <1>1, <1>5, <2>1 DEF Owners, u
    <3> QED
      BY <2>1, <3>1 DEF TeamInv, KeepsOwnerUnraced
  <2>6. r \notin stale => LimitsFor.members = 0 \/ Cardinality(People') <= LimitsFor.members
    <3>1. SUFFICES ASSUME r \notin stale, LimitsFor.members # 0
                   PROVE  Cardinality(People') <= LimitsFor.members
      OBVIOUS
    <3>2. Cardinality(People) < LimitsFor.members
      BY <1>1, <3>1 DEF TeamInv, Judged, WithinCap
    <3>3. invites[i].role # "none"
      BY <2>2 DEF Invites, Roles
    <3>4. People' = People \cup {u} /\ u \notin People
      BY <1>1, <1>5, <2>1, <3>3 DEF People, u
    <3>5. Cardinality(People') = Cardinality(People) + 1
      BY <3>4, PeopleFinite, FS_AddElement
    <3> QED
      BY <3>2, <3>5, PeopleFinite, CapIsNat DEF Typed
  <2> QED
    BY <2>3, <2>4, <2>5, <2>6 DEF TeamInv
<1> QED
  BY <1>4, <1>5 DEF Join

LEMMA SeatsJudged ==
  ASSUME Typed, TeamInv, NEW r \in Reqs, ChangeQuantity(r) \/ WriteSeats(r) \/ PoolTimeout(r)
  PROVE  TeamInv' /\ members' = members
<1>1. /\ req' \in [Reqs -> Requests] /\ UNCHANGED <<members, invites, joined>>
  BY ChangeQuantityTyped, WriteSeatsTyped, FinishTyped DEF Typed, TeamTyped, ChangeQuantity,
     WriteSeats, PoolTimeout, NoWrite, Finish
<1>2. req \in [Reqs -> Requests] /\ \A q \in Reqs \ {r} : req'[q] = req[q]
  BY DEF ChangeQuantity, WriteSeats, PoolTimeout, Done, Busy, Typed, TeamTyped
<1>3. CASE ChangeQuantity(r)
  <2>1. req'[r].op \in {"idle", "seats"}
    BY <1>2, <1>3, RequestFacts DEF ChangeQuantity, Done, Busy, Idle, SeatRequests
  <2>2. LimitsFor' = LimitsFor /\ stale \ {r} \subseteq stale' /\ raced' = raced
    BY <1>3, PlanUnchanged DEF ChangeQuantity, NoWrite
  <2> QED
    BY <1>1, <1>2, <2>1, <2>2, QuietJudged
<1>4. CASE PoolTimeout(r)
  <2>1. req'[r].op = "idle"
    BY <1>2, <1>4 DEF PoolTimeout, Done, Idle
  <2>2. LimitsFor' = LimitsFor /\ stale \ {r} \subseteq stale' /\ raced' = raced
    BY <1>4, PlanUnchanged DEF PoolTimeout, NoWrite, billingVars
  <2> QED
    BY <1>1, <1>2, <2>1, <2>2, QuietJudged
<1>5. CASE WriteSeats(r)
  <2>1. req'[r].op = "idle" /\ Overlap(r) /\ raced' = (raced \/ r \in stale)
    BY <1>2, <1>5 DEF WriteSeats, Done, Idle
  <2>2. \A q \in Reqs : Judged(q)'
    <3>1. \A q \in Reqs \ {r} : Judged(q)'
      BY <1>2, <2>1, OthersJudged DEF TeamInv, Typed
    <3>2. Judged(r)'
      BY <2>1 DEF Judged
    <3> QED
      BY <3>1, <3>2
  <2>3. KeepsOwnerUnraced' /\ UsesCounted'
    BY <1>1, <2>1 DEF TeamInv, KeepsOwnerUnraced, Owners, UsesCounted, MadeInvites
  <2> QED
    BY <1>1, <2>2, <2>3 DEF TeamInv
<1> QED
  BY <1>3, <1>4, <1>5

LEMMA StartJudged ==
  ASSUME Typed, TeamInv, NEW r \in Reqs, Typed',
         \/ \E who \in Users, target \in Users, to \in AskedRoles : ReadRoles(r, who, target, to)
         \/ \E who \in Users, i \in MadeInvites : LockInvite(r, who, i)
         \/ \E who \in Users, n \in 1 .. MaxSeats : CheckSeats(r, who, n)
  PROVE  TeamInv' /\ members' = members
<1>1. UNCHANGED <<billingVars, members, invites, stale, raced, joined>>
  BY DEF ReadRoles, LockInvite, CheckSeats
<1>2. /\ req' \in [Reqs -> Requests] /\ \A q \in Reqs \ {r} : req'[q] = req[q]
      /\ LimitsFor' = LimitsFor
  BY <1>1, PlanUnchanged DEF ReadRoles, LockInvite, CheckSeats, Busy, Typed, TeamTyped, billingVars
<1>3. \/ req'[r].op \in {"idle", "seats"}
      \/ req'[r].op = "accept" /\ req'[r].pc = "limits"
      \/ req'[r].op = "role" /\ ~OwnerGoes(req[r].target, req[r].to)'
      \/ req'[r].op = "role" /\ req'[r].pc = "count"
  <2>1. req \in [Reqs -> Requests]
    BY DEF Typed, TeamTyped
  <2>2. ASSUME NEW who \in Users, NEW target \in Users, NEW to \in AskedRoles,
               ReadRoles(r, who, target, to)
        PROVE  /\ req'[r].op = "role"
               /\ req'[r].pc = "count" \/ ~OwnerGoes(req[r].target, req[r].to)'
    BY <1>1, <2>1, <2>2 DEF ReadRoles, Busy, OwnerGoes
  <2>3. ASSUME NEW who \in Users, NEW i \in MadeInvites, LockInvite(r, who, i)
        PROVE  req'[r].op = "accept" /\ req'[r].pc = "limits"
    BY <2>1, <2>3 DEF LockInvite, Busy
  <2>4. ASSUME NEW who \in Users, NEW n \in 1 .. MaxSeats, CheckSeats(r, who, n)
        PROVE  req'[r].op = "seats"
    BY <2>1, <2>4 DEF CheckSeats, Busy
  <2> QED
    BY <2>2, <2>3, <2>4
<1> QED
  BY <1>1, <1>2, <1>3, QuietJudged

LEMMA InviteJudged ==
  ASSUME Typed, TeamInv, InviteSteps
  PROVE  TeamInv' /\ members' = members
<1>1. UNCHANGED <<billingVars, members, req, stale, raced>>
  BY DEF InviteSteps, CreateInvite, RevokeInvite
<1>2. LimitsFor' = LimitsFor
  BY <1>1, PlanUnchanged DEF billingVars
<1>3. \A q \in Reqs : Judged(q)'
  BY <1>1, <1>2 DEF TeamInv, Judged, OwnerGoes, Owners, WithinCap, People
<1>4. KeepsOwnerUnraced'
  BY <1>1 DEF TeamInv, KeepsOwnerUnraced, Owners
<1>5. /\ invites \in Seq(Invites) /\ joined \in Seq(Nat) /\ Len(joined) = Len(invites)
      /\ \A j \in 1 .. Len(invites) :
           /\ invites[j].uses = joined[j] /\ (invites[j].max # 0 => joined[j] <= invites[j].max)
  BY DEF Typed, TeamTyped, TeamInv, UsesCounted, MadeInvites
<1>6. ASSUME NEW who \in Users, NEW k \in InviteKinds, CreateInvite(who, k.role, k.uses, k.days)
      PROVE  UsesCounted'
  <2> DEFINE new == [role |-> k.role, max |-> k.uses, uses |-> 0, expires |-> now + k.days,
                     revoked |-> FALSE]
  <2>1. invites' = Append(invites, new) /\ joined' = Append(joined, 0)
    BY <1>6 DEF CreateInvite
  <2>2. new.uses = 0 /\ new.max \in Nat
    BY TeamAssumption
  <2>3. new \in Invites
    BY TeamAssumption DEF Invites, Roles, Typed, BillTyped
  <2> HIDE DEF new
  <2> QED
    BY <1>5, <2>1, <2>2, <2>3 DEF UsesCounted, MadeInvites
<1>7. ASSUME NEW who \in Users, NEW i \in MadeInvites, RevokeInvite(who, i)
      PROVE  UsesCounted'
  <2> DEFINE new == [invites[i] EXCEPT !.revoked = TRUE]
  <2>1. i \in 1 .. Len(invites) /\ invites[i] \in Invites
    BY <1>5 DEF MadeInvites
  <2>2. new.uses = invites[i].uses /\ new.max = invites[i].max /\ new \in Invites
    BY <2>1 DEF Invites
  <2>3. invites' = [invites EXCEPT ![i] = new] /\ joined' = joined
    BY <1>7 DEF RevokeInvite
  <2> HIDE DEF new
  <2>4. Len(invites') = Len(invites)
        /\ \A j \in 1 .. Len(invites) : invites'[j] = IF j = i THEN new ELSE invites[j]
    BY <1>5, <2>1, <2>2, <2>3
  <2> QED
    BY <1>5, <2>2, <2>3, <2>4 DEF UsesCounted, MadeInvites
<1> QED
  BY <1>1, <1>3, <1>4, <1>6, <1>7 DEF InviteSteps, TeamInv

LEMMA AroundJudged ==
  ASSUME Typed, TeamInv, PlanStep \/ Crash \/ UNCHANGED vars
  PROVE  TeamInv' /\ members' = members
<1>1. UNCHANGED <<members, invites, raced, joined>>
  BY DEF PlanStep, Crash, vars, teamVars
<1>2. KeepsOwnerUnraced' /\ UsesCounted'
  BY <1>1 DEF TeamInv, KeepsOwnerUnraced, Owners, UsesCounted, MadeInvites
<1>3. ASSUME NEW q \in Reqs
      PROVE  Judged(q)'
  <2>1. CASE Crash
    BY <2>1 DEF Crash, Judged, Idle
  <2>2. CASE PlanStep /\ LimitsFor' # LimitsFor
    <3>1. req' = req /\ stale' = stale \cup Reading
      BY <2>2 DEF PlanStep
    <3> QED
      BY <3>1 DEF Judged, Reading, Idle
  <2>3. CASE LimitsFor' = LimitsFor /\ req' = req /\ stale' = stale
    BY <1>1, <2>3 DEF TeamInv, Judged, OwnerGoes, Owners, WithinCap, People
  <2>4. UNCHANGED vars => LimitsFor' = LimitsFor /\ req' = req /\ stale' = stale
    BY PlanUnchanged DEF vars, teamVars, billingVars
  <2> QED
    BY <2>1, <2>2, <2>3, <2>4 DEF PlanStep
<1> QED
  BY <1>1, <1>2, <1>3 DEF TeamInv

LEMMA TeamStep ==
  ASSUME Typed, TeamInv, [Next]_vars
  PROVE  TeamInv'
BY NextSteps, TypedStep, AroundJudged, InviteJudged, StartJudged, SeatsJudged, CheckCapJudged,
   CountOwnersJudged, WriteRoleJudged, JoinJudged DEF RequestSteps, Finish

LEMMA JoinStep ==
  ASSUME Typed, TeamInv, [Next]_vars
  PROVE  JoinWithinCap
<1> SUFFICES ASSUME NEW r \in Reqs, req[r].op = "accept", req'[r] = Idle,
                    members' # members, r \notin stale
             PROVE  LimitsFor.members = 0 \/ Cardinality(People') <= LimitsFor.members
  BY DEF JoinWithinCap
<1>1. PICK q \in Reqs : CountOwners(q) \/ WriteRole(q) \/ CheckCap(q) \/ Join(q)
  BY NextSteps, TypedStep, AroundJudged, InviteJudged, StartJudged, SeatsJudged
     DEF RequestSteps, Finish
<1>2. WriteRole(q) \/ Join(q)
  BY <1>1 DEF CountOwners, CheckCap, NoWrite
<1>3. req \in [Reqs -> Requests] /\ req' = [req EXCEPT ![q] = Idle]
  BY <1>2 DEF WriteRole, Join, Done, Typed, TeamTyped
<1>4. q = r
  BY <1>3 DEF Idle
<1>5. Join(r)
  BY <1>2, <1>4 DEF WriteRole
<1> QED
  BY <1>5, JoinJudged

LEMMA TeamStarts ==
  ASSUME Init
  PROVE  TeamInv
<1>1. /\ members = [u \in Users |-> IF u = Creator THEN "owner" ELSE "none"]
      /\ invites = <<>> /\ req = [r \in Reqs |-> Idle]
  BY DEF Init, TeamInit
<1>2. Creator \in Owners
  BY <1>1, TeamAssumption DEF Owners
<1>3. UsesCounted
  BY <1>1 DEF UsesCounted, MadeInvites
<1>4. \A r \in Reqs : Judged(r)
  BY <1>1 DEF Judged, Idle
<1> QED
  BY <1>2, <1>3, <1>4 DEF TeamInv, KeepsOwnerUnraced

LEMMA TypedIsTypeOK ==
  ASSUME Typed
  PROVE  TypeOK
<1>1. row.units \in 0 .. MaxUnits /\ row.seats \in 0 .. MaxSeats
  BY BillingAssumption DEF Typed, BillTyped, Rows, NoRow
<1> QED
  BY <1>1 DEF Typed, BillTyped, TeamTyped, TypeOK

(* For any users, requests, invites and plans: the team's state keeps its
   types; it keeps an owner as long as no request has written on old reads
   (update_member, remove_member); and an invite's uses are the memberships it
   made, never more than its maximum (accept). *)
THEOREM MembersAreSettled == Spec => []MembersSettled
<1>1. Init => Typed /\ TeamInv
  BY InitTyped, TeamStarts
<1>2. Typed /\ TeamInv /\ [Next]_vars => (Typed /\ TeamInv)'
  BY TypedStep, TeamStep
<1>3. Typed /\ TeamInv => MembersSettled
  BY TypedIsTypeOK DEF MembersSettled, TeamInv
<1> QED
  BY <1>1, <1>2, <1>3, PTL DEF Spec

(* For any of them: a member who joins on reads that still hold fits in the
   plan of the moment (accept's limits_for and count). *)
THEOREM JoinsAreCapped == Spec => JoinsWithinCap
<1>1. Init => Typed /\ TeamInv
  BY InitTyped, TeamStarts
<1>2. Typed /\ TeamInv /\ [Next]_vars => (Typed /\ TeamInv)'
  BY TypedStep, TeamStep
<1>3. Typed /\ TeamInv /\ [Next]_vars => [JoinWithinCap]_vars
  BY JoinStep
<1> QED
  BY <1>1, <1>2, <1>3, PTL DEF Spec, JoinsWithinCap
-----------------------------------------------------------------------------
(* The row and the subscriptions.  One lemma for each kind of step: an event
   that Stripe emits, and the three ends of a delivery; then a seat change. *)

LEMMA EmissionFollows ==
  ASSUME BillTyped, RowInv, NEW s, NEW sub, NEW more, Emission(s, sub, more),
         UNCHANGED <<acked, ledger, handling, row>>
  PROVE  RowInv'
<1> SUFFICES ASSUME mishaps' = {}
             PROVE  Follows'
  BY DEF RowInv
<1>n. PICK n : n = Len(outbox) + 1
  OBVIOUS
<1>1. mishaps = {} /\ more = {} /\ ~Twins(stripe')
  BY DEF Emission, Emit
<1>2. Follows
  BY <1>1 DEF RowInv
<1>3. /\ n \in Events' /\ n \notin Events /\ Events' = Events \cup {n} /\ n \in 1 .. MaxEvents
      /\ \A e \in Events : outbox'[e] = outbox[e] /\ n > e /\ e \in Nat
      /\ outbox'[n] = Snapshot(s, sub)
      /\ stripe'[s] = sub /\ \A t \in Subs \ {s} : stripe'[t] = stripe[t]
  BY <1>n, EmissionTyped, EventFacts, BillingAssumption DEF Events, BillTyped
<1>4. /\ s \in Subs /\ sub \in Subscriptions /\ sub # NoSub
      /\ outbox'[n].sub = s /\ outbox'[n].status = sub.status /\ outbox'[n].items = sub.items
      /\ outbox'[n].end = sub.end /\ outbox'[n].cancel = sub.cancel
      /\ (stripe[s] = NoSub /\ sub.status \in Live) \/ stripe[s].status \in Live
      /\ stripe[s] = NoSub \/ DOMAIN sub.items = DOMAIN stripe[s].items
  BY <1>1, <1>3, NotNoSub DEF Emission, Snapshot
<1>5. /\ \A e \in Events : HasSeat(e)' = HasSeat(e) /\ HasStorage(e)' = HasStorage(e)
      /\ \A e : Processed(e)' = Processed(e)
      /\ ~Processed(n)
  <2>1. ledger[n] = "absent" /\ ledger' = ledger
    BY <1>2, <1>3 DEF Follows, LedgerKept
  <2> QED
    BY <1>3, <2>1 DEF HasSeat, HasStorage, Processed
<1>6. LedgerKept'
  BY <1>2, <1>3 DEF Follows, LedgerKept
<1>7. \A t \in Subs : Mirrored(t)'
  <2>1. Mirrored(s)'
    <3>1. ASSUME NEW f \in Events', outbox'[f].sub = s
          PROVE  f <= n /\ DOMAIN outbox'[f].items = DOMAIN stripe'[s].items
      <4>1. CASE f = n
        BY <1>3, <1>4, <4>1
      <4>2. CASE f \in Events
        <5>1. outbox[f].sub = s /\ Mirrored(s)
          BY <1>2, <1>3, <1>4, <3>1, <4>2 DEF Follows
        <5>2. DOMAIN outbox[f].items = DOMAIN stripe[s].items /\ stripe[s] # NoSub
          BY <4>2, <5>1 DEF Mirrored
        <5> QED
          BY <1>3, <1>4, <4>2, <5>2
      <4> QED
        BY <1>3, <4>1, <4>2
    <3> QED
      BY <1>3, <1>4, <3>1 DEF Mirrored
  <2>2. ASSUME NEW t \in Subs \ {s}
        PROVE  Mirrored(t)'
    <3>1. Mirrored(t) /\ stripe'[t] = stripe[t] /\ outbox'[n].sub # t
      BY <1>2, <1>3, <1>4 DEF Follows
    <3> QED
      BY <1>3, <3>1 DEF Mirrored
  <2> QED
    BY <2>1, <2>2
<1>8. ASSUME NEW e \in Events
      PROVE  /\ ~HasSeat(n)' => (LastSeat(e)' <=> LastSeat(e))
             /\ ~HasStorage(n)' => (LastStorage(e)' <=> LastStorage(e))
  <2>1. e \in Events'
    BY <1>3
  <2>2. ~HasSeat(n)' => (LastSeat(e)' <=> LastSeat(e))
    BY <1>3, <1>5, <2>1 DEF LastSeat
  <2>3. ~HasStorage(n)' => (LastStorage(e)' <=> LastStorage(e))
    BY <1>3, <1>5, <2>1 DEF LastStorage
  <2> QED
    BY <2>2, <2>3
<1>9. /\ HasSeat(n)' => LastSeat(n)' /\ \A e \in Events : ~LastSeat(e)'
      /\ HasStorage(n)' => LastStorage(n)' /\ \A e \in Events : ~LastStorage(e)'
      /\ ~HasSeat(n)' => ~LastSeat(n)'
      /\ ~HasStorage(n)' => ~LastStorage(n)'
  <2>1. \A f \in Events' : f <= n /\ (f # n => ~(n <= f))
    BY <1>3
  <2>2. HasSeat(n)' => LastSeat(n)' /\ \A e \in Events : ~LastSeat(e)'
    BY <1>3, <2>1 DEF LastSeat
  <2>3. HasStorage(n)' => LastStorage(n)' /\ \A e \in Events : ~LastStorage(e)'
    BY <1>3, <2>1 DEF LastStorage
  <2> QED
    BY <2>2, <2>3 DEF LastSeat, LastStorage
<1>10. LastsExist'
  <2>1. (\E f \in Events' : HasSeat(f)') => \E e \in Events' : LastSeat(e)'
    BY <1>2, <1>3, <1>5, <1>8, <1>9 DEF Follows, LastsExist
  <2>2. (\E f \in Events' : HasStorage(f)') => \E e \in Events' : LastStorage(e)'
    BY <1>2, <1>3, <1>5, <1>8, <1>9 DEF Follows, LastsExist
  <2> QED
    BY <2>1, <2>2 DEF LastsExist
<1>11. LiveIsLast'
  <2> SUFFICES ASSUME NEW t \in Subs, stripe'[t].status \in Live, Carries(stripe'[t].items, "storage")
               PROVE  \E e \in Events' : LastStorage(e)' /\ outbox'[e].sub = t
    BY DEF LiveIsLast
  <2>1. CASE t = s
    <3>1. HasStorage(n)'
      BY <1>3, <1>4, <2>1 DEF HasStorage
    <3> QED
      BY <1>3, <1>4, <1>9, <2>1, <3>1
  <2>2. CASE t # s
    <3>1. stripe[t].status \in Live /\ Carries(stripe[t].items, "storage")
      BY <1>3, <2>2
    <3>2. PICK e \in Events : LastStorage(e) /\ outbox[e].sub = t
      BY <1>2, <3>1 DEF Follows, LiveIsLast
    <3>3. ~Carries(sub.items, "storage")
      <4> SUFFICES ASSUME Carries(sub.items, "storage")
                   PROVE  FALSE
        OBVIOUS
      <4>1. CASE sub.status \in Live
        BY <1>1, <1>3, <1>4, <2>2, <4>1 DEF Twins
      <4>2. CASE stripe[s].status \in Live /\ stripe[s] # NoSub
        <5>1. Carries(stripe[s].items, "storage")
          BY <1>4, <4>2 DEF Carries
        <5> QED
          BY <1>2, <1>4, <2>2, <3>1, <4>2, <5>1 DEF Follows, Twins
      <4>3. stripe[s] # NoSub \/ stripe[s].status \notin Live
        BY DEF NoSub, Live
      <4> QED
        BY <1>4, <4>1, <4>2, <4>3
    <3>4. ~HasStorage(n)'
      BY <1>4, <3>3 DEF HasStorage
    <3> QED
      BY <1>3, <1>8, <3>2, <3>4
  <2> QED
    BY <2>1, <2>2
<1>12. SeatsFollow'
  <2>1. ASSUME NEW e \in Events', LastSeat(e)', \A f \in Events' : HasSeat(f)' => Processed(f)'
        PROVE  SaysPlan(row', outbox'[e])
    <3>1. ~HasSeat(n)' /\ e # n /\ e \in Events
      BY <1>3, <1>5, <1>9, <2>1
    <3>2. LastSeat(e) /\ \A f \in Events : HasSeat(f) => Processed(f)
      BY <1>3, <1>5, <1>8, <2>1, <3>1
    <3>3. SaysPlan(row, outbox[e])
      BY <1>2, <3>1, <3>2 DEF Follows, SeatsFollow
    <3> QED
      BY <1>3, <3>1, <3>3
  <2>2. (\A f \in Events' : HasSeat(f)' => ~Processed(f)') => row'.status \notin Live
    BY <1>2, <1>3, <1>5 DEF Follows, SeatsFollow
  <2> QED
    BY <2>1, <2>2 DEF SeatsFollow
<1>13. UnitsFollow'
  <2>1. ASSUME NEW e \in Events', LastStorage(e)', \A f \in Events' : HasStorage(f)' => Processed(f)'
        PROVE  row'.units = UnitsOf(outbox'[e])
    <3>1. ~HasStorage(n)' /\ e # n /\ e \in Events
      BY <1>3, <1>5, <1>9, <2>1
    <3>2. LastStorage(e) /\ \A f \in Events : HasStorage(f) => Processed(f)
      BY <1>3, <1>5, <1>8, <2>1, <3>1
    <3>3. row.units = UnitsOf(outbox[e])
      BY <1>2, <3>1, <3>2 DEF Follows, UnitsFollow
    <3> QED
      BY <1>3, <3>1, <3>3
  <2>2. (\A f \in Events' : HasStorage(f)' => ~Processed(f)') => row'.units = 0
    BY <1>2, <1>3, <1>5 DEF Follows, UnitsFollow
  <2> QED
    BY <2>1, <2>2 DEF UnitsFollow
<1> QED
  BY <1>1, <1>6, <1>7, <1>10, <1>11, <1>12, <1>13 DEF Follows

(* A step that leaves Stripe's side alone leaves what it says. *)
LEMMA OutboxKept ==
  ASSUME UNCHANGED <<stripe, outbox>>
  PROVE  /\ Events' = Events
         /\ Twins(stripe') <=> Twins(stripe)
         /\ (\A s \in Subs : Mirrored(s)) => \A s \in Subs : Mirrored(s)'
         /\ LastsExist => LastsExist'
         /\ LiveIsLast => LiveIsLast'
         /\ \A e : /\ HasSeat(e)' = HasSeat(e) /\ HasStorage(e)' = HasStorage(e)
                   /\ LastSeat(e)' = LastSeat(e) /\ LastStorage(e)' = LastStorage(e)
<1>1. Events' = Events /\ \A e : HasSeat(e)' = HasSeat(e) /\ HasStorage(e)' = HasStorage(e)
  BY DEF Events, HasSeat, HasStorage
<1>2. \A e : LastSeat(e)' = LastSeat(e) /\ LastStorage(e)' = LastStorage(e)
  BY <1>1 DEF LastSeat, LastStorage
<1>3. (\A s \in Subs : Mirrored(s)) => \A s \in Subs : Mirrored(s)'
  BY <1>1 DEF Mirrored
<1>4. /\ LastsExist => LastsExist'
      /\ LiveIsLast => LiveIsLast'
  BY <1>1, <1>2 DEF LastsExist, LiveIsLast
<1> QED
  BY <1>1, <1>2, <1>3, <1>4

(* A step that leaves the row and what is processed alone, too. *)
LEMMA RowKept ==
  ASSUME Follows, UNCHANGED <<stripe, outbox, row>>, LedgerKept',
         \A e \in Events : Processed(e)' <=> Processed(e)
  PROVE  Follows'
<1>1. SeatsFollow'
  <2>1. ASSUME NEW e \in Events, LastSeat(e), \A f \in Events : HasSeat(f) => Processed(f)'
        PROVE  SaysPlan(row, outbox[e])
    BY <2>1 DEF Follows, SeatsFollow
  <2>2. (\A f \in Events : HasSeat(f) => ~Processed(f)') => row.status \notin Live
    BY DEF Follows, SeatsFollow
  <2> QED
    BY <2>1, <2>2, OutboxKept DEF SeatsFollow
<1>2. UnitsFollow'
  <2>1. ASSUME NEW e \in Events, LastStorage(e), \A f \in Events : HasStorage(f) => Processed(f)'
        PROVE  row.units = UnitsOf(outbox[e])
    BY <2>1 DEF Follows, UnitsFollow
  <2>2. (\A f \in Events : HasStorage(f) => ~Processed(f)') => row.units = 0
    BY DEF Follows, UnitsFollow
  <2> QED
    BY <2>1, <2>2, OutboxKept DEF UnitsFollow
<1> QED
  BY <1>1, <1>2, OutboxKept DEF Follows

LEMMA DeliverFollows ==
  ASSUME BillTyped, RowInv, NEW e \in Events, Deliver(e)
  PROVE  RowInv'
<1> SUFFICES ASSUME mishaps' = {}
             PROVE  Follows'
  BY DEF RowInv
<1>1. Follows /\ UNCHANGED <<stripe, outbox, row>> /\ Events' = Events
  BY DEF Deliver, RowInv, Events
<1>2. /\ ledger \in [1 .. MaxEvents -> {"absent", "recorded", "processed", "error"}]
      /\ e \in 1 .. MaxEvents
  BY EventFacts DEF BillTyped
<1>3. CASE FirstSeen(e)
  <2>1. ledger' = [ledger EXCEPT ![e] = "recorded"] /\ handling' = handling \cup {e} /\ acked' = acked
        /\ ledger[e] = "absent"
    BY <1>3 DEF Deliver, Mark, FirstSeen
  <2>2. LedgerKept'
    <3>1. \A f \in 1 .. MaxEvents : ledger'[f] = IF f = e THEN "recorded" ELSE ledger[f]
      BY <1>2, <2>1
    <3>2. LedgerKept /\ acked \subseteq Events /\ \A f \in Events : f \in 1 .. MaxEvents
      BY <1>1, EventFacts DEF Follows, BillTyped
    <3>3. \A f \in Events : ledger'[f] # "error" /\ (ledger'[f] = "recorded" => f \in handling')
      BY <2>1, <3>1, <3>2 DEF LedgerKept
    <3>4. \A f \in acked' : ledger'[f] # "absent"
      BY <2>1, <3>1, <3>2 DEF LedgerKept
    <3>5. \A f \in 1 .. MaxEvents : f \notin Events' => ledger'[f] = "absent"
      BY <1>1, <3>1, <3>2 DEF LedgerKept
    <3> QED
      BY <1>1, <3>3, <3>4, <3>5 DEF LedgerKept
  <2>3. \A f \in Events : Processed(f)' <=> Processed(f)
    BY <1>2, <2>1, EventFacts DEF Processed
  <2> QED
    BY <1>1, <2>2, <2>3, RowKept
<1>4. CASE ~FirstSeen(e)
  <2>1. ledger' = ledger /\ handling' = handling /\ acked' = acked \cup {e} /\ ledger[e] # "absent"
    BY <1>4 DEF Deliver, FirstSeen
  <2>2. LedgerKept'
    BY <1>1, <2>1 DEF Follows, LedgerKept
  <2> QED
    BY <1>1, <2>1, <2>2, RowKept DEF Processed
<1> QED
  BY <1>3, <1>4

(* Not overtaken, an event that is processed is the last of its price that is;
   the row takes from it what is about the price, and only that. *)
LEMMA ProcessFollows ==
  ASSUME BillTyped, RowInv, NEW e \in Events, Process(e)
  PROVE  RowInv'
<1> SUFFICES ASSUME mishaps' = {}
             PROVE  Follows'
  BY DEF RowInv
<1>1. /\ mishaps = {} /\ ~Overtaken(e) /\ e \in handling
      /\ row' = RowAfter(row, outbox[e])
      /\ ledger' = [ledger EXCEPT ![e] = "processed"]
      /\ handling' = handling \ {e} /\ acked' = acked \cup {e}
      /\ UNCHANGED <<stripe, outbox>> /\ Events' = Events
  BY DEF Process, Mark, Events
<1>2. Follows
  BY <1>1 DEF RowInv
<1>3. /\ ledger \in [1 .. MaxEvents -> {"absent", "recorded", "processed", "error"}]
      /\ e \in 1 .. MaxEvents /\ e \in Nat /\ \A f \in Events : f \in Nat /\ f \in 1 .. MaxEvents
      /\ outbox[e] \in Snapshots /\ row \in Rows \cup {NoRow}
  BY EventFacts DEF BillTyped
<1>4. /\ \A f : f # e => (Processed(f)' <=> Processed(f))
      /\ Processed(e)'
      /\ \A f \in Events : f > e => ~Processed(f)'
  <2>1. \A f \in Events : f > e => ledger[f] # "processed"
    BY <1>1 DEF Overtaken
  <2> QED
    BY <1>1, <1>3, <2>1 DEF Processed
<1>5. LedgerKept'
  <2>1. \A f \in 1 .. MaxEvents : ledger'[f] = IF f = e THEN "processed" ELSE ledger[f]
    BY <1>1, <1>3
  <2>2. LedgerKept /\ acked \subseteq Events
    BY <1>2 DEF Follows, BillTyped
  <2>3. \A f \in Events : ledger'[f] # "error" /\ (ledger'[f] = "recorded" => f \in handling')
    BY <1>1, <1>3, <2>1, <2>2 DEF LedgerKept
  <2>4. \A f \in acked' : ledger'[f] # "absent"
    BY <1>1, <1>3, <2>1, <2>2 DEF LedgerKept
  <2>5. \A f \in 1 .. MaxEvents : f \notin Events' => ledger'[f] = "absent"
    BY <1>1, <2>1, <2>2 DEF LedgerKept
  <2> QED
    BY <1>1, <2>3, <2>4, <2>5 DEF LedgerKept
<1>6. SeatsFollow'
  <2>1. CASE HasSeat(e)
    <3>1. SaysPlan(row', outbox[e])
      BY <1>1, <1>3, <2>1, RowAfterFacts DEF HasSeat
    <3>2. ASSUME NEW f \in Events, LastSeat(f), \A g \in Events : HasSeat(g) => Processed(g)'
          PROVE  f = e
      <4>1. e <= f /\ HasSeat(f)
        BY <2>1, <3>2 DEF LastSeat
      <4>2. ~(f > e)
        BY <1>4, <3>2, <4>1
      <4> QED
        BY <1>3, <4>1, <4>2
    <3> QED
      BY <1>1, <1>4, <2>1, <3>1, <3>2, OutboxKept DEF SeatsFollow
  <2>2. CASE ~HasSeat(e)
    <3>1. /\ row'.status \in {row.status, "storage_only"}
          /\ row # NoRow => /\ row'.sub = row.sub /\ row'.status = row.status
                            /\ row'.seats = row.seats /\ row'.end = row.end
                            /\ row'.cancel = row.cancel
      BY <1>1, <1>3, <2>2, RowAfterFacts DEF HasSeat
    <3>2. ASSUME NEW f \in Events, LastSeat(f), \A g \in Events : HasSeat(g) => Processed(g)'
          PROVE  SaysPlan(row', outbox[f])
      <4>1. \A g \in Events : HasSeat(g) => Processed(g)
        BY <1>4, <2>2, <3>2
      <4>2. SaysPlan(row, outbox[f])
        BY <1>2, <3>2, <4>1 DEF Follows, SeatsFollow
      <4>3. row # NoRow
        BY <4>2, EventFacts, BillingAssumption DEF SaysPlan, NoRow, Snapshots
      <4> QED
        BY <3>1, <4>2, <4>3 DEF SaysPlan
    <3>3. ASSUME \A f \in Events : HasSeat(f) => ~Processed(f)'
          PROVE  row'.status \notin Live
      <4>1. \A f \in Events : HasSeat(f) => ~Processed(f)
        BY <1>4, <2>2, <3>3
      <4>2. row.status \notin Live
        BY <1>2, <4>1 DEF Follows, SeatsFollow
      <4> QED
        BY <3>1, <4>2 DEF Live
    <3> QED
      BY <1>1, <3>2, <3>3, OutboxKept DEF SeatsFollow
  <2> QED
    BY <2>1, <2>2
<1>7. UnitsFollow'
  <2>1. CASE HasStorage(e)
    <3>1. row'.units = UnitsOf(outbox[e])
      BY <1>1, <1>3, <2>1, RowAfterFacts DEF HasStorage
    <3>2. ASSUME NEW f \in Events, LastStorage(f), \A g \in Events : HasStorage(g) => Processed(g)'
          PROVE  f = e
      <4>1. e <= f /\ HasStorage(f)
        BY <2>1, <3>2 DEF LastStorage
      <4>2. ~(f > e)
        BY <1>4, <3>2, <4>1
      <4> QED
        BY <1>3, <4>1, <4>2
    <3> QED
      BY <1>1, <1>4, <2>1, <3>1, <3>2, OutboxKept DEF UnitsFollow
  <2>2. CASE ~HasStorage(e)
    <3>1. row'.units = row.units
      BY <1>1, <1>3, <2>2, RowAfterFacts DEF HasStorage
    <3>2. \A f \in Events : HasStorage(f) => (Processed(f)' <=> Processed(f))
      BY <1>4, <2>2
    <3>3. ASSUME NEW f \in Events, LastStorage(f), \A g \in Events : HasStorage(g) => Processed(g)'
          PROVE  row'.units = UnitsOf(outbox[f])
      BY <1>2, <3>1, <3>2, <3>3 DEF Follows, UnitsFollow
    <3>4. (\A f \in Events : HasStorage(f) => ~Processed(f)') => row'.units = 0
      BY <1>2, <3>1, <3>2 DEF Follows, UnitsFollow
    <3> QED
      BY <1>1, <3>3, <3>4, OutboxKept DEF UnitsFollow
  <2> QED
    BY <2>1, <2>2
<1> QED
  BY <1>1, <1>2, <1>5, <1>6, <1>7, OutboxKept DEF Follows

(* The seats written are the ones the last event has: what was processed last
   is what Stripe holds. *)
LEMMA WriteSeatsFollows ==
  ASSUME Typed, RowInv, NEW r \in Reqs, WriteSeats(r)
  PROVE  RowInv'
<1> SUFFICES ASSUME mishaps' = {}
             PROVE  Follows'
  BY DEF RowInv
<1>1. /\ mishaps = {} /\ ~Late(r) /\ row' = [row EXCEPT !.seats = req[r].seats]
      /\ UNCHANGED <<stripe, outbox, acked, ledger, handling>>
  BY DEF WriteSeats
<1>2. Follows
  BY <1>1 DEF RowInv
<1>3. /\ row \in Rows /\ req[r].seats \in 1 .. MaxSeats /\ req[r].sub \in Subs
      /\ row.sub = req[r].sub /\ stripe[req[r].sub].items["seat"] = req[r].seats
  BY <1>1, RequestFacts DEF Late, WriteSeats, Typed, TeamTyped, BillTyped, SeatRequests
<1>4. /\ row'.sub = row.sub /\ row'.status = row.status /\ row'.end = row.end
      /\ row'.cancel = row.cancel /\ row'.units = row.units /\ row'.seats = req[r].seats
  BY <1>1, <1>3 DEF Rows
<1>5. \A e : Processed(e)' <=> Processed(e)
  BY <1>1 DEF Processed
<1>6. LedgerKept'
  BY <1>1, <1>2 DEF Follows, LedgerKept, Events
<1>7. ASSUME NEW e \in Events, LastSeat(e), \A f \in Events : HasSeat(f) => Processed(f)
      PROVE  SaysPlan(row', outbox[e])
  <2> DEFINE s == req[r].sub
  <2>1. SaysPlan(row, outbox[e])
    BY <1>2, <1>7 DEF Follows, SeatsFollow
  <2>2. outbox[e].sub = s /\ Mirrored(s)
    BY <1>2, <1>3, <2>1 DEF SaysPlan, Follows
  <2>3. PICK g \in Events : /\ outbox[g].items = stripe[s].items
                            /\ e <= g /\ DOMAIN outbox[e].items = DOMAIN stripe[s].items
    BY <1>7, <2>2 DEF Mirrored
  <2>4. HasSeat(g)
    BY <1>7, <2>3 DEF LastSeat, HasSeat, Carries
  <2>5. g = e
    BY <1>7, <2>3, <2>4, EventFacts DEF LastSeat, Typed
  <2>6. outbox[e].items["seat"] = req[r].seats
    BY <1>3, <2>3, <2>5
  <2>7. Larger(1, req[r].seats) = req[r].seats
    BY <1>3, BillingAssumption DEF Larger
  <2> QED
    BY <1>4, <2>1, <2>6, <2>7 DEF SaysPlan
<1>8. SeatsFollow'
  <2>1. (\A f \in Events : HasSeat(f) => ~Processed(f)) => row'.status \notin Live
    BY <1>2, <1>4 DEF Follows, SeatsFollow
  <2> QED
    BY <1>1, <1>5, <1>7, <2>1, OutboxKept DEF SeatsFollow
<1>9. UnitsFollow'
  <2>1. ASSUME NEW e \in Events, LastStorage(e), \A f \in Events : HasStorage(f) => Processed(f)
        PROVE  row'.units = UnitsOf(outbox[e])
    BY <1>2, <1>4, <2>1 DEF Follows, UnitsFollow
  <2>2. (\A f \in Events : HasStorage(f) => ~Processed(f)) => row'.units = 0
    BY <1>2, <1>4 DEF Follows, UnitsFollow
  <2> QED
    BY <1>1, <1>5, <2>1, <2>2, OutboxKept DEF UnitsFollow
<1> QED
  BY <1>1, <1>2, <1>6, <1>8, <1>9, OutboxKept DEF Follows

LEMMA QuietFollows ==
  ASSUME RowInv, UNCHANGED <<stripe, outbox, acked, ledger, row>>,
         handling' = handling \/ (handling = {} /\ handling' = {}) \/ mishaps' # {},
         mishaps \subseteq mishaps'
  PROVE  RowInv'
<1> SUFFICES ASSUME mishaps' = {}
             PROVE  Follows'
  BY DEF RowInv
<1>1. Follows /\ handling' = handling /\ Events' = Events
  BY DEF RowInv, Events
<1>2. LedgerKept'
  BY <1>1 DEF Follows, LedgerKept
<1> QED
  BY <1>1, <1>2, RowKept DEF Processed

LEMMA RowStep ==
  ASSUME Typed, RowInv, [Next]_vars
  PROVE  RowInv'
<1>1. CASE PlanStep
  <2>1. CASE StripeSteps
    BY <2>1, StripeEmits, EmissionFollows DEF Typed
  <2>2. ASSUME NEW e \in Events, ProcessFails(e)
        PROVE  RowInv'
    BY <2>2 DEF ProcessFails, RowInv
  <2>3. CASE WebhookSteps
    BY <2>2, <2>3, DeliverFollows, ProcessFollows DEF WebhookSteps, Typed
  <2>4. ASSUME Tick \/ \E o \in Overrides \cup {NoOverride} : SetOverride(o)
        PROVE  RowInv'
    BY <2>4, QuietFollows DEF Tick, SetOverride
  <2> QED
    BY <1>1, <2>1, <2>3, <2>4 DEF PlanStep
<1>2. CASE Crash
  <2>1. /\ UNCHANGED <<stripe, outbox, acked, ledger, row>> /\ handling' = {}
        /\ mishaps' = IF handling = {} THEN mishaps ELSE mishaps \cup {"crashed"}
    BY <1>2 DEF Crash, BillingCrash
  <2>2. handling = {} \/ mishaps' # {}
    BY <2>1
  <2> QED
    BY <2>1, <2>2, QuietFollows
<1>3. CASE UNCHANGED billingVars
  BY <1>3, QuietFollows DEF billingVars
<1>4. ASSUME NEW r \in Reqs, ChangeQuantity(r)
      PROVE  RowInv'
  <2>1. CASE UNCHANGED <<stripe, outbox, mishaps>>
    BY <1>4, <2>1, QuietFollows DEF ChangeQuantity
  <2>2. CASE /\ stripe[req[r].sub].status \in Live /\ Carries(stripe[req[r].sub].items, "seat")
             /\ Emit(req[r].sub, [stripe[req[r].sub] EXCEPT !.items["seat"] = req[r].seats], {})
    <3>1. req[r].sub \in Subs /\ req[r].seats \in 1 .. MaxSeats
      BY <1>4, RequestFacts DEF ChangeQuantity, Typed, TeamTyped, SeatRequests
    <3>2. Emission(req[r].sub, [stripe[req[r].sub] EXCEPT !.items["seat"] = req[r].seats], {})
      BY <2>2, <3>1, QuantityEmits DEF Typed
    <3> QED
      BY <1>4, <3>2, EmissionFollows DEF ChangeQuantity, Typed
  <2> QED
    BY <1>4, <2>1, <2>2 DEF ChangeQuantity
<1>5. ASSUME NEW r \in Reqs, RequestSteps(r)
      PROVE  RowInv'
  <2>1. \/ UNCHANGED billingVars \/ ChangeQuantity(r) \/ WriteSeats(r)
    BY <1>5 DEF RequestSteps, Finish, CountOwners, WriteRole, CheckCap, PoolTimeout, Join,
       ReadRoles, LockInvite, CheckSeats
  <2> QED
    BY <2>1, <1>3, <1>4, WriteSeatsFollows
<1>6. InviteSteps => UNCHANGED billingVars
  BY DEF InviteSteps, CreateInvite, RevokeInvite
<1>7. UNCHANGED vars => UNCHANGED billingVars
  BY DEF vars
<1> QED
  BY <1>1, <1>2, <1>3, <1>5, <1>6, <1>7, NextSteps

LEMMA RowStarts ==
  ASSUME Init
  PROVE  RowInv
<1>1. /\ stripe = [s \in Subs |-> NoSub] /\ outbox = <<>> /\ acked = {} /\ row = NoRow
      /\ ledger = [e \in 1 .. MaxEvents |-> "absent"]
  BY DEF Init, BillingInit
<1>2. Events = {}
  BY <1>1 DEF Events
<1>3. \A s \in Subs : stripe[s] = NoSub /\ stripe[s].status \notin Live
  BY <1>1 DEF NoSub, Live
<1>4. ~Twins(stripe) /\ LiveIsLast
  BY <1>3 DEF Twins, LiveIsLast
<1>5. LedgerKept
  BY <1>1, <1>2 DEF LedgerKept
<1>6. (\A s \in Subs : Mirrored(s)) /\ LastsExist
  BY <1>2, <1>3 DEF Mirrored, LastsExist
<1>7. SeatsFollow /\ UnitsFollow
  BY <1>1, <1>2 DEF SeatsFollow, UnitsFollow, NoRow, Live
<1> QED
  BY <1>4, <1>5, <1>6, <1>7 DEF Follows, RowInv

-----------------------------------------------------------------------------
(* A row that follows agrees, once every event has been answered. *)

LEMMA LastEventIs ==
  ASSUME BillTyped, NEW s \in Subs, Mirrored(s), stripe[s] # NoSub
  PROVE  /\ LastEvent(s) \in Events /\ outbox[LastEvent(s)].sub = s
         /\ outbox[LastEvent(s)].status = stripe[s].status
         /\ outbox[LastEvent(s)].items = stripe[s].items
         /\ outbox[LastEvent(s)].end = stripe[s].end
         /\ outbox[LastEvent(s)].cancel = stripe[s].cancel
         /\ \A f \in Events : outbox[f].sub = s =>
              f <= LastEvent(s) /\ DOMAIN outbox[f].items = DOMAIN stripe[s].items
<1> DEFINE ends(e) == outbox[e].sub = s /\ \A f \in Events : f > e => outbox[f].sub # s
<1>1. PICK e \in Events :
        /\ outbox[e].sub = s
        /\ outbox[e].status = stripe[s].status /\ outbox[e].items = stripe[s].items
        /\ outbox[e].end = stripe[s].end /\ outbox[e].cancel = stripe[s].cancel
        /\ \A f \in Events : outbox[f].sub = s =>
             f <= e /\ DOMAIN outbox[f].items = DOMAIN stripe[s].items
  BY DEF Mirrored
<1>2. \A f \in Events : f \in Nat
  BY EventFacts
<1>3. ends(e)
  BY <1>1, <1>2
<1>4. LastEvent(s) \in Events /\ ends(LastEvent(s))
  BY <1>3 DEF LastEvent
<1>5. LastEvent(s) = e
  <2>1. LastEvent(s) <= e /\ ~(e > LastEvent(s))
    BY <1>1, <1>4
  <2> QED
    BY <1>2, <1>4, <2>1
<1> QED
  BY <1>1, <1>5

LEMMA EventOfSub ==
  ASSUME BillTyped, Follows, NEW e \in Events
  PROVE  LET s == outbox[e].sub
         IN  /\ s \in Subs /\ stripe[s] # NoSub /\ stripe[s].status # "none"
             /\ HasSeat(e) <=> Carries(stripe[s].items, "seat")
             /\ HasStorage(e) <=> Carries(stripe[s].items, "storage")
             /\ e <= LastEvent(s)
<1>1. outbox[e].sub \in Subs
  BY EventFacts DEF Snapshots
<1>2. stripe[outbox[e].sub] # NoSub
  BY <1>1 DEF Follows, Mirrored
<1>3. stripe[outbox[e].sub].status # "none"
  BY <1>1, <1>2, LiveSub DEF Subscriptions, Statuses, Live
<1> QED
  BY <1>1, <1>2, <1>3, LastEventIs DEF Follows, HasSeat, HasStorage, Carries

LEMMA RowAgrees ==
  ASSUME BillTyped, Follows, Settled
  PROVE  Agrees
<1>1. \A e \in Events : Processed(e)
  <2>1. ASSUME NEW e \in Events
        PROVE  ledger[e] \in {"absent", "recorded", "processed", "error"}
    BY EventFacts DEF BillTyped
  <2> QED
    BY <2>1 DEF Settled, Follows, LedgerKept, Processed
<1>2. row.units = LiveUnits
  <2> DEFINE billed == {t \in Subs : stripe[t].status \in Live /\ Carries(stripe[t].items, "storage")}
  <2>1. LiveUnits = IF billed = {} THEN 0 ELSE stripe[CHOOSE t \in billed : TRUE].items["storage"]
    BY DEF LiveUnits
  <2>2. CASE billed # {}
    <3> DEFINE t == CHOOSE u \in billed : TRUE
    <3>1. t \in billed
      BY <2>2
    <3> HIDE DEF t
    <3>2. t \in Subs /\ stripe[t] # NoSub
      BY <3>1 DEF NoSub, Live
    <3>3. PICK e \in Events : LastStorage(e) /\ outbox[e].sub = t
      BY <3>1 DEF Follows, LiveIsLast
    <3>4. row.units = UnitsOf(outbox[e])
      BY <1>1, <3>3 DEF Follows, UnitsFollow
    <3>5. LastEvent(t) = e
      <4>1. /\ LastEvent(t) \in Events /\ e <= LastEvent(t)
            /\ outbox[LastEvent(t)].items = stripe[t].items
        BY <3>2, <3>3, LastEventIs DEF Follows
      <4>2. LastEvent(t) <= e
        BY <3>1, <3>3, <4>1 DEF LastStorage, HasStorage
      <4> QED
        BY <4>1, <4>2, EventFacts
    <3>6. outbox[e].status = stripe[t].status /\ outbox[e].items = stripe[t].items
      BY <3>2, <3>5, LastEventIs DEF Follows
    <3>7. row.units = stripe[t].items["storage"]
      BY <3>1, <3>4, <3>6 DEF UnitsOf
    <3> QED
      BY <2>1, <2>2, <3>7 DEF t
  <2>3. CASE billed = {} /\ \E f \in Events : HasStorage(f)
    <3>1. PICK e \in Events : LastStorage(e)
      BY <2>3 DEF Follows, LastsExist
    <3> DEFINE s == outbox[e].sub
    <3>2. row.units = UnitsOf(outbox[e])
      BY <1>1, <3>1 DEF Follows, UnitsFollow
    <3>3. /\ s \in Subs /\ stripe[s] # NoSub /\ Carries(stripe[s].items, "storage")
          /\ e <= LastEvent(s) /\ LastEvent(s) \in Events
          /\ outbox[LastEvent(s)].items = stripe[s].items
          /\ outbox[LastEvent(s)].status = stripe[s].status
      BY <3>1, EventOfSub, LastEventIs DEF LastStorage, Follows
    <3>4. LastEvent(s) <= e
      BY <3>1, <3>3 DEF LastStorage, HasStorage
    <3>5. LastEvent(s) = e
      BY <3>3, <3>4, EventFacts
    <3>6. outbox[e].status \notin Live
      BY <2>3, <3>3, <3>5
    <3> QED
      BY <2>1, <2>3, <3>2, <3>6 DEF UnitsOf
  <2>4. CASE billed = {} /\ ~\E f \in Events : HasStorage(f)
    <3>1. row.units = 0
      BY <2>4 DEF Follows, UnitsFollow
    <3> QED
      BY <2>1, <2>4, <3>1
  <2> QED
    BY <2>2, <2>3, <2>4
<1>3. ASSUME NEW t \in PlanSubs
      PROVE  /\ t \in Subs /\ stripe[t] # NoSub /\ LastEvent(t) \in Events /\ HasSeat(LastEvent(t))
             /\ outbox[LastEvent(t)].sub = t
  <2>1. t \in Subs /\ stripe[t] # NoSub /\ Carries(stripe[t].items, "seat")
    BY <1>3 DEF PlanSubs, NoSub
  <2> QED
    BY <2>1, LastEventIs DEF Follows, HasSeat
<1>4. PlanSubs = {} => ~Grants(row, now)
  <2>1. SUFFICES ASSUME PlanSubs = {}
                 PROVE  ~Grants(row, now)
    OBVIOUS
  <2>2. \A f \in Events : ~HasSeat(f)
    BY <2>1, EventOfSub DEF PlanSubs
  <2>3. row.status \notin Live
    BY <2>2 DEF Follows, SeatsFollow
  <2> QED
    BY <2>3 DEF Grants, Live
<1>5. ASSUME PlanSubs # {}
      PROVE  LET s == LatestPlan
             IN  /\ row.sub = s /\ row.status = stripe[s].status
                 /\ row.seats = Larger(1, stripe[s].items["seat"])
                 /\ row.end = stripe[s].end /\ row.cancel = stripe[s].cancel
  <2>1. PICK e \in Events : LastSeat(e)
    BY <1>3, <1>5 DEF Follows, LastsExist
  <2> DEFINE s == outbox[e].sub
             latest(t) == \A u \in PlanSubs : LastEvent(u) <= LastEvent(t)
  <2>2. SaysPlan(row, outbox[e])
    BY <1>1, <2>1 DEF Follows, SeatsFollow
  <2>3. s \in PlanSubs /\ e <= LastEvent(s)
    BY <2>1, EventOfSub DEF LastSeat, PlanSubs
  <2>4. \A t \in PlanSubs : LastEvent(t) <= e
    BY <1>3, <2>1 DEF LastSeat
  <2>5. LastEvent(s) = e
    BY <1>3, <2>3, <2>4, EventFacts
  <2>6. latest(s)
    BY <2>4, <2>5
  <2>7. LatestPlan \in PlanSubs /\ latest(LatestPlan)
    BY <2>3, <2>6 DEF LatestPlan
  <2>8. LastEvent(LatestPlan) = e
    <3>1. LastEvent(LatestPlan) <= e /\ e <= LastEvent(LatestPlan) /\ LastEvent(LatestPlan) \in Events
      BY <1>3, <2>3, <2>4, <2>5, <2>7
    <3> QED
      BY <3>1, EventFacts
  <2>9. LatestPlan = s
    BY <1>3, <2>7, <2>8
  <2>10. /\ outbox[e].status = stripe[s].status /\ outbox[e].items = stripe[s].items
         /\ outbox[e].end = stripe[s].end /\ outbox[e].cancel = stripe[s].cancel
    BY <1>3, <2>3, <2>5, LastEventIs DEF Follows
  <2> QED
    BY <2>2, <2>9, <2>10 DEF SaysPlan
<1> QED
  BY <1>2, <1>4, <1>5 DEF Agrees

(* For any subscriptions, events and deliveries: once Stripe has been answered
   for every event, and none of the named mishaps happened on the way, the
   workspace's row says what Stripe says (webhook.rs, upsert_plan,
   upsert_storage_only and update_seats). *)
THEOREM RowAlwaysFollows == Spec => []RowFollowsStripe
<1>1. Init => Typed /\ RowInv
  BY InitTyped, RowStarts
<1>2. Typed /\ RowInv /\ [Next]_vars => (Typed /\ RowInv)'
  BY TypedStep, RowStep
<1>3. Typed /\ RowInv => RowFollowsStripe
  BY RowAgrees DEF RowFollowsStripe, RowInv, Typed
<1> QED
  BY <1>1, <1>2, <1>3, PTL DEF Spec

-----------------------------------------------------------------------------
(* Custom domains: what a lookup found, and no change has marked old since, is
   still who owns the domain. *)

Lookup ==
  {NoLookup} \cup [do : {"read"}, suffix : Names]
  \cup [do : {"put"}, suffix : Names, found : Workspaces \cup {"nobody"}, old : BOOLEAN]

FreshInv ==
  /\ lookup \in [Lookups -> Lookup]
  /\ \A q \in Lookups : lookup[q].do = "put" /\ ~lookup[q].old => lookup[q].found = Owner(lookup[q].suffix)
  /\ DomainFresh

LEMMA FreshStep == FreshInv /\ [DomainNext]_domainVars => FreshInv'
<1> SUFFICES ASSUME FreshInv, [DomainNext]_domainVars PROVE FreshInv'
  OBVIOUS
<1>1. CASE \E q \in Lookups, d \in Names : CacheMiss(q, d)
  <2>1. PICK q \in Lookups, d \in Names : CacheMiss(q, d)
    BY <1>1
  <2> QED
    BY <2>1 DEF CacheMiss, FreshInv, DomainFresh, Owner, Lookup, NoLookup
<1>2. CASE \E q \in Lookups : ReadOwner(q)
  <2>1. PICK q \in Lookups : ReadOwner(q)
    BY <1>2
  <2>2. lookup[q].suffix \in Names
    BY <2>1 DEF ReadOwner, FreshInv, Lookup, NoLookup
  <2>3. \A d : Owner(d) \in Workspaces \cup {"nobody"}
    BY DEF Owner
  <2>4. lookup' = [lookup EXCEPT ![q] = [do |-> "put", suffix |-> lookup[q].suffix,
                                         found |-> Owner(lookup[q].suffix), old |-> FALSE]]
    BY <2>1 DEF ReadOwner
  <2>5. \A d : Owner(d)' = Owner(d)
    BY <2>1 DEF ReadOwner, Owner
  <2>6. lookup' \in [Lookups -> Lookup]
    BY <2>2, <2>3, <2>4 DEF FreshInv, Lookup
  <2>7. DomainFresh'
    BY <2>1, <2>5 DEF ReadOwner, FreshInv, DomainFresh
  <2> QED
    BY <2>4, <2>5, <2>6, <2>7 DEF FreshInv
<1>3. CASE \E q \in Lookups : Put(q)
  <2>1. PICK q \in Lookups : Put(q)
    BY <1>3
  <2>2. \A d : Owner(d)' = Owner(d)
    BY <2>1 DEF Put, Owner
  <2>3. lookup' = [lookup EXCEPT ![q] = NoLookup] /\ NoLookup.do # "put"
    BY <2>1 DEF Put, NoLookup
  <2>4. DomainFresh'
    BY <2>1, <2>2 DEF Put, FreshInv, DomainFresh
  <2> QED
    BY <2>2, <2>3, <2>4 DEF FreshInv, Lookup
<1>4. CASE \E q \in Lookups : LookupFails(q)
  <2>1. PICK q \in Lookups : LookupFails(q)
    BY <1>4
  <2> QED
    BY <2>1 DEF LookupFails, FreshInv, DomainFresh, Owner, Lookup, NoLookup
<1>5. CASE \E d \in Names : Lapses(d)
  BY <1>5 DEF Lapses, FreshInv, DomainFresh, Owner
<1>6. CASE \E s \in Setters : ClearCache(s)
  <2>1. DOMAIN cache' = {}
    BY <1>6 DEF ClearCache, AfterChange, NoEntries
  <2> QED
    BY <1>6, <2>1 DEF ClearCache, FreshInv, DomainFresh, Owner
<1>7. CASE \E s \in Setters, w \in Workspaces, d \in Names \cup {"none"} : WriteDomain(w, d, s)
  <2>1. setting' # {}
    BY <1>7 DEF WriteDomain
  <2>2. \A q \in Lookups : lookup[q].do = "put" =>
          [lookup[q] EXCEPT !.old = TRUE] \in Lookup /\ [lookup[q] EXCEPT !.old = TRUE].old
    <3> SUFFICES ASSUME NEW q \in Lookups, lookup[q].do = "put"
                 PROVE  [lookup[q] EXCEPT !.old = TRUE] \in Lookup /\ [lookup[q] EXCEPT !.old = TRUE].old
      OBVIOUS
    <3>1. lookup[q] \in [do : {"put"}, suffix : Names, found : Workspaces \cup {"nobody"}, old : BOOLEAN]
      BY DEF FreshInv, Lookup, NoLookup
    <3> QED
      BY <3>1, Zenon DEF Lookup
  <2>3. \A q \in Lookups : lookup'[q] = IF lookup[q].do = "put" THEN [lookup[q] EXCEPT !.old = TRUE]
                                        ELSE lookup[q]
    BY <1>7 DEF WriteDomain
  <2>4. lookup' \in [Lookups -> Lookup]
    BY <1>7, <2>2 DEF WriteDomain, FreshInv
  <2>5. \A q \in Lookups : lookup'[q].do = "put" => lookup'[q].old
    <3> SUFFICES ASSUME NEW q \in Lookups, lookup'[q].do = "put" PROVE lookup'[q].old
      OBVIOUS
    <3>1. CASE lookup[q].do = "put"
      BY <2>2, <2>3, <3>1
    <3>2. CASE lookup[q].do # "put"
      BY <2>3, <3>2
    <3> QED
      BY <3>1, <3>2
  <2> QED
    BY <2>1, <2>4, <2>5 DEF FreshInv, DomainFresh
<1>8. CASE UNCHANGED domainVars
  BY <1>8 DEF domainVars, FreshInv, DomainFresh, Owner
<1> QED
  BY <1>1, <1>2, <1>3, <1>4, <1>5, <1>6, <1>7, <1>8 DEF DomainNext, HostDispatch, TlsCheck

(* Once a change of a domain is answered, what the cache says of any domain is
   who owns it, unless a lookup that a change overtook put it there: for any
   workspaces, domains, lookups and changes at once (share/domains.rs). *)
THEOREM DomainsAreFresh == DomainSpec => []DomainFresh
<1>1. DomainInit => FreshInv
  BY DEF DomainInit, FreshInv, DomainFresh, Lookup, NoLookup, NoEntries
<1>2. FreshInv => DomainFresh
  BY DEF FreshInv
<1> QED
  BY <1>1, <1>2, FreshStep, PTL DEF DomainSpec

=============================================================================
