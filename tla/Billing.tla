------------------------------- MODULE Billing -------------------------------
(***************************************************************************)
(* The paid plan of one workspace: Stripe's subscriptions (external), the  *)
(* webhook that copies them into the workspace's row of `subscriptions`    *)
(* through the idempotency ledger `billing_events`, the operator's plan    *)
(* override, and the plan the rest of the server reads.                    *)
(*                                                                         *)
(* Stripe delivers every event at least once, in any order, until it is    *)
(* answered 200.  Billing is configured: without Stripe every route here   *)
(* answers 404 and every plan is unlimited.                                *)
(*                                                                         *)
(* Bounds: MaxSeats and MaxUnits stand for the 100 of a checkout,          *)
(* MaxEvents caps what Stripe does, Horizon the days that pass.            *)
(***************************************************************************)
EXTENDS Naturals, FiniteSets, Sequences

CONSTANTS Subs,       \* ids of Stripe subscriptions
          MaxSeats, MaxUnits, MaxEvents,
          Horizon,    \* the last day
          GraceDays,  \* days a past-due plan outlives its period
          Period,     \* days in a billing period
          Overrides   \* the overrides an operator sets

ASSUME BillingAssumption ==
  /\ MaxSeats \in Nat \ {0} /\ MaxUnits \in Nat /\ MaxEvents \in Nat
  /\ Horizon \in Nat /\ GraceDays \in Nat /\ Period \in Nat
  /\ "none" \notin Subs
  /\ \A o \in Overrides :
       DOMAIN o = {"plan", "seats", "expires"}
       /\ o.plan \in {"paid", "unlimited"} /\ o.seats \in Nat /\ o.expires \in Nat

VARIABLES stripe,     \* Stripe's subscriptions (external)
          outbox,     \* Stripe's events, a subscription's snapshot each
          acked,      \* events Stripe was answered 200 for
          ledger,     \* the marks of billing_events, by event
          handling,   \* events between insert_event and the mark
          row,        \* the workspace's row of subscriptions
          override,   \* the workspace's row of plan_overrides
          now,        \* the day
          mishaps     \* history: what went wrong on the way to the row

billingVars == <<stripe, outbox, acked, ledger, handling, row, override, now, mishaps>>

-----------------------------------------------------------------------------
(* Rows *)

NoSub == [status |-> "none", items |-> <<>>, end |-> 0, cancel |-> FALSE]
NoRow == [sub |-> "none", status |-> "none", seats |-> 0, units |-> 0, end |-> 0, cancel |-> FALSE]
NoOverride == [plan |-> "none", seats |-> 0, expires |-> 0]
Never == Horizon + 1

Live == {"active", "past_due"}
Larger(a, b) == IF a >= b THEN a ELSE b

(* parse_items: the seat item's quantity, at least 1 (0: no seat price), and
   the storage units with whether the storage price appears at all. *)
Carries(items, price) == price \in DOMAIN items

ParseItems_sumsAll(items) ==
  [seats   |-> IF Carries(items, "seat")
               THEN items["seat"] + (IF Carries(items, "storage") THEN items["storage"] ELSE 0) ELSE 0,
   units   |-> IF Carries(items, "storage") THEN items["storage"] ELSE 0,
   storage |-> Carries(items, "storage")]

ParseItems(items) ==
  [seats   |-> IF Carries(items, "seat") THEN Larger(1, items["seat"]) ELSE 0,
   units   |-> IF Carries(items, "storage") THEN items["storage"] ELSE 0,
   storage |-> Carries(items, "storage")]

UpsertPlan_zeroesUnits(r, e, seats, setUnits, units) ==
  [sub |-> e.sub, status |-> e.status, seats |-> seats, end |-> e.end, cancel |-> e.cancel,
   units |-> units]

(* upsert_plan: a subscription that carries storage sets the units with the
   rest; one that does not leaves a separately bought add-on alone. *)
UpsertPlan(r, e, seats, setUnits, units) ==
  [sub |-> e.sub, status |-> e.status, seats |-> seats, end |-> e.end, cancel |-> e.cancel,
   units |-> IF setUnits THEN units ELSE r.units]

(* upsert_storage_only: no units only clears the column of a row that exists;
   units touch one column, or insert a placeholder no plan is granted for. *)
UpsertStorageOnly(r, e, units) ==
  IF r # NoRow THEN [r EXCEPT !.units = units]
  ELSE IF units = 0 THEN NoRow
  ELSE [sub |-> e.sub, status |-> "storage_only", seats |-> 1, units |-> units,
        end |-> e.end, cancel |-> FALSE]

(* process_event: a deletion is canceled whatever it says, a status that is
   not live counts no storage, a subscription with neither price is refused. *)
RowAfter(r, e) ==
  LET it    == ParseItems(e.items)
      units == IF e.status \in Live THEN it.units ELSE 0
  IN  IF it.seats > 0 THEN UpsertPlan(r, e, it.seats, it.storage, units)
      ELSE IF it.storage THEN UpsertStorageOnly(r, e, units)
      ELSE r

-----------------------------------------------------------------------------
(* Plans.  0 members stands for no limit. *)

Unlimited == [plan |-> "unlimited", seats |-> 0]
Free      == [plan |-> "free", seats |-> 1]
Paid(n)   == [plan |-> "paid", seats |-> n]

ClampSeats(n) == IF n < 1 THEN 1 ELSE IF n > MaxSeats THEN MaxSeats ELSE n

(* active_override: an expired one is ignored, never cleaned up. *)
OverrideActive == override # NoOverride /\ override.expires > now
OverridePlan == IF override.plan = "unlimited" THEN Unlimited ELSE Paid(ClampSeats(override.seats))

(* active_plan: active, or past due and still within the grace. *)
Grants(r, day) ==
  \/ r.status = "active"
  \/ r.status = "past_due" /\ day < r.end + GraceDays

ResolvePlan(r, day) == IF Grants(r, day) THEN Paid(ClampSeats(r.seats)) ELSE Free

(* plan_for: the override first, then the subscription, else the solo tier. *)
PlanFor == IF OverrideActive THEN OverridePlan ELSE ResolvePlan(row, now)

(* limits: what each tier allows; only what the models read is kept. *)
Limits(plan) ==
  [members |-> plan.seats,
   links   |-> IF plan.plan = "free" THEN 1 ELSE IF plan.plan = "paid" THEN 5 * plan.seats ELSE 0,
   storage |-> IF plan.plan = "free" THEN 5 ELSE IF plan.plan = "paid" THEN 10 * plan.seats ELSE 0,
   capped  |-> plan.plan = "free"]

(* limits_for: the storage add-on raises a storage limit, never creates one. *)
WithUnits(l, units) == IF l.storage > 0 THEN [l EXCEPT !.storage = @ + 10 * units] ELSE l
LimitsFor == WithUnits(Limits(PlanFor), row.units)

-----------------------------------------------------------------------------
BillingInit ==
  /\ stripe = [s \in Subs |-> NoSub]
  /\ outbox = <<>>
  /\ acked = {}
  /\ ledger = [e \in 1..MaxEvents |-> "absent"]
  /\ handling = {}
  /\ row = NoRow
  /\ override = NoOverride
  /\ now = 0
  /\ mishaps = {}

(* Two live subscriptions that carry the same price: one row cannot hold both. *)
Twins(st) == \E s, t \in Subs, p \in {"seat", "storage"} :
  /\ s # t
  /\ st[s].status \in Live /\ st[t].status \in Live
  /\ Carries(st[s].items, p) /\ Carries(st[t].items, p)

(* Stripe changes subscription s and emits an event with its snapshot. *)
Emit(s, sub, more) ==
  /\ Len(outbox) < MaxEvents
  /\ stripe' = [stripe EXCEPT ![s] = sub]
  /\ outbox' = Append(outbox, [sub |-> s, status |-> sub.status, items |-> sub.items,
                               end |-> sub.end, cancel |-> sub.cancel])
  /\ mishaps' = mishaps \cup more \cup (IF Twins(stripe') THEN {"twins"} ELSE {})

(* The line items of a checkout: seats, and storage when units were asked for
   (checkout); storage alone (buy_storage). *)
CheckoutItems(seats, units) ==
  IF units = 0 THEN [p \in {"seat"} |-> seats]
  ELSE IF seats = 0 THEN [p \in {"storage"} |-> units]
  ELSE [p \in {"seat", "storage"} |-> IF p = "seat" THEN seats ELSE units]

(* checkout and buy_storage hand the owner a Stripe page; the subscription it
   creates names the workspace in its metadata.  Nothing refuses a second one. *)
Checkout(s, seats, units) ==
  /\ seats + units > 0
  /\ stripe[s] = NoSub
  /\ Emit(s, [status |-> "active", items |-> CheckoutItems(seats, units),
              end |-> now + Period, cancel |-> FALSE], {})
  /\ UNCHANGED <<acked, ledger, handling, row, override, now>>

(* portal: the customer schedules the end of the subscription.  The page is
   only offered once the webhook has stored a customer. *)
PortalCancel(s) ==
  /\ row # NoRow
  /\ stripe[s].status \in Live /\ ~stripe[s].cancel
  /\ Emit(s, [stripe[s] EXCEPT !.cancel = TRUE], {})
  /\ UNCHANGED <<acked, ledger, handling, row, override, now>>

(* Stripe at the end of a period: renewed, payment failed, or ended. *)
PeriodEnds(s) ==
  /\ stripe[s].status \in Live /\ now >= stripe[s].end
  /\ \/ ~stripe[s].cancel /\ Emit(s, [stripe[s] EXCEPT !.status = "active", !.end = now + Period], {})
     \/ ~stripe[s].cancel /\ stripe[s].status = "active"
        /\ Emit(s, [stripe[s] EXCEPT !.status = "past_due"], {})
     \/ Emit(s, [stripe[s] EXCEPT !.status = "canceled"], {})
  /\ UNCHANGED <<acked, ledger, handling, row, override, now>>

(* The storage item is taken off a subscription that also carries seats. *)
DropStorage(s) ==
  /\ stripe[s].status \in Live
  /\ Carries(stripe[s].items, "seat") /\ Carries(stripe[s].items, "storage")
  /\ Emit(s, [stripe[s] EXCEPT !.items = [p \in {"seat"} |-> @["seat"]]], {"dropped"})
  /\ UNCHANGED <<acked, ledger, handling, row, override, now>>

-----------------------------------------------------------------------------
(* The webhook.  handle verifies the signature, stores the event, processes
   it, marks it and answers 200. *)

Events == 1..Len(outbox)

(* insert_event: the primary key tells a first delivery from a later one. *)
FirstSeen(e) == ledger[e] = "absent"
Mark(e, how) == ledger' = [ledger EXCEPT ![e] = how]

(* handle, to the insert: a first delivery stores the event; a later one finds
   it and is answered 200 whatever became of the first. *)
Deliver(e) ==
  /\ e \notin acked
  /\ IF FirstSeen(e)
     THEN /\ Mark(e, "recorded")
          /\ handling' = handling \cup {e}
          /\ UNCHANGED acked
     ELSE /\ acked' = acked \cup {e}
          /\ UNCHANGED <<ledger, handling>>
  /\ UNCHANGED <<stripe, outbox, row, override, now, mishaps>>

(* An event handled after one that Stripe emitted later. *)
Overtaken(e) == \E f \in Events : f > e /\ ledger[f] = "processed"

(* process_event, then mark_processed or mark_error, then the 200. *)
Process(e) ==
  /\ e \in handling
  /\ row' = RowAfter(row, outbox[e])
  /\ Mark(e, "processed")
  /\ handling' = handling \ {e}
  /\ acked' = acked \cup {e}
  /\ mishaps' = mishaps \cup (IF Overtaken(e) THEN {"overtaken"} ELSE {})
  /\ UNCHANGED <<stripe, outbox, override, now>>

(* The row could not be written: the event keeps the error, and Stripe its 200. *)
ProcessFails(e) ==
  /\ e \in handling
  /\ Mark(e, "error")
  /\ handling' = handling \ {e}
  /\ acked' = acked \cup {e}
  /\ mishaps' = mishaps \cup {"unwritten"}
  /\ UNCHANGED <<stripe, outbox, row, override, now>>

(* The server stops: what it was handling stays recorded and unprocessed. *)
BillingCrash ==
  /\ handling' = {}
  /\ mishaps' = IF handling = {} THEN mishaps ELSE mishaps \cup {"crashed"}
  /\ UNCHANGED <<stripe, outbox, acked, ledger, row, override, now>>

(* set_override: comps a plan, replaces one, or (NoOverride) clears it. *)
SetOverride(o) ==
  /\ o # override
  /\ override' = o
  /\ UNCHANGED <<stripe, outbox, acked, ledger, handling, row, now, mishaps>>

Tick == now < Horizon /\ now' = now + 1
        /\ UNCHANGED <<stripe, outbox, acked, ledger, handling, row, override, mishaps>>

StripeSteps ==
  \E s \in Subs :
    \/ \E n \in 0..MaxSeats, u \in 0..MaxUnits : Checkout(s, n, u)
    \/ PortalCancel(s) \/ PeriodEnds(s) \/ DropStorage(s)

WebhookSteps == \E e \in Events : Deliver(e) \/ Process(e) \/ ProcessFails(e)

-----------------------------------------------------------------------------
(* Properties *)

(* What the row would say if it held exactly what Stripe holds. *)
PlanSubs == {s \in Subs : stripe[s].status # "none" /\ Carries(stripe[s].items, "seat")}
LastEvent(s) == CHOOSE e \in Events : outbox[e].sub = s /\ \A f \in Events : f > e => outbox[f].sub # s
LatestPlan == CHOOSE s \in PlanSubs : \A t \in PlanSubs : LastEvent(t) <= LastEvent(s)
LiveUnits ==
  LET s == {t \in Subs : stripe[t].status \in Live /\ Carries(stripe[t].items, "storage")}
  IN  IF s = {} THEN 0 ELSE stripe[CHOOSE t \in s : TRUE].items["storage"]

Agrees ==
  /\ row.units = LiveUnits
  /\ PlanSubs # {} =>
       LET s == LatestPlan
       IN  /\ row.sub = s
           /\ row.status = stripe[s].status
           /\ row.seats = Larger(1, stripe[s].items["seat"])
           /\ row.end = stripe[s].end
           /\ row.cancel = stripe[s].cancel
  /\ PlanSubs = {} => ~Grants(row, now)

Settled == handling = {} /\ \A e \in Events : e \in acked

(* Once Stripe has been answered for every event, the workspace's row says
   what Stripe says (the seats that grant its plan, the state and end of the
   period, and the storage add-on, whichever subscription carries it), unless
   one of the named mishaps of webhook.rs and update_seats happened on the
   way: a crash or a failed write between the ledger and the row, an event
   handled after a later one, two live subscriptions for one price, a storage
   item taken off a mixed subscription, or a seat change written late. *)
RowFollowsStripe == Settled /\ mishaps = {} => Agrees

=============================================================================
