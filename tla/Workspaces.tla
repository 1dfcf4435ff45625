------------------------------ MODULE Workspaces ------------------------------
(***************************************************************************)
(* One workspace of the cloud server: its members and their roles, its     *)
(* invites, and the requests that change them, over the plan that Billing  *)
(* grants.  Each handler is a few statements on the database without a     *)
(* lock between them, so a request's reads and its write are separate      *)
(* steps; accepting an invite is one transaction that locks the invite,    *)
(* and asks the pool for a second connection while it holds the first.     *)
(*                                                                         *)
(* Bounds: MaxInvites invites are ever made, MaxPool stands for the        *)
(* connections of the pool; the workspace has its first owner already.     *)
(***************************************************************************)
EXTENDS Billing

CONSTANTS Users,       \* accounts
          Creator,     \* the user who created the workspace
          Reqs,        \* requests that can be under way at once
          MaxInvites,
          InviteKinds, \* the role, uses and days an invite is asked for with
          AskedRoles,  \* the roles a change asks for; "none" removes
          MaxPool

ASSUME TeamAssumption ==
  /\ IsFiniteSet(Users) /\ Creator \in Users
  /\ MaxInvites \in Nat /\ MaxPool \in Nat
  /\ AskedRoles \subseteq {"owner", "admin", "member", "none"}
  /\ \A k \in InviteKinds :
       k.role \in {"owner", "admin", "member"} /\ k.uses \in Nat /\ k.days \in Nat

VARIABLES members,     \* the memberships: user -> role, or "none"
          invites,     \* invites made so far
          req,         \* the requests under way
          stale,       \* history: requests whose reads no longer hold
          raced,       \* history: a stale request wrote
          joined       \* history: memberships each invite made

teamVars == <<members, invites, req, stale, raced, joined>>
vars == <<billingVars, teamVars>>

Roles == {"owner", "admin", "member"}
Idle == [op |-> "idle"]

People == {u \in Users : members[u] # "none"}
Owners == {u \in Users : members[u] = "owner"}
IsAdmin(u) == members[u] \in {"owner", "admin"}

(* A write on what the other requests have read makes their reads old. *)
Reading == {r \in Reqs : req[r] # Idle}
Overlap(r) == stale' = (stale \cup Reading) \ {r}

Busy(r, rec) == req' = [req EXCEPT ![r] = rec]
Done(r) == req' = [req EXCEPT ![r] = Idle]
NoWrite(r) == UNCHANGED <<members, invites, raced, joined>> /\ stale' = stale \ {r}

TeamInit ==
  /\ members = [u \in Users |-> IF u = Creator THEN "owner" ELSE "none"]
  /\ invites = <<>>
  /\ req = [r \in Reqs |-> Idle]
  /\ stale = {}
  /\ raced = FALSE
  /\ joined = <<>>

Init == BillingInit /\ TeamInit

-----------------------------------------------------------------------------
(* update_member and remove_member: two roles are read and judged, an owner
   who goes counts the owners, and then the row is written as read. *)

MayChangeRole(who, target, to) ==
  /\ IsAdmin(who)
  /\ members[target] # "none"
  /\ members[target] = "owner" => who = target
  /\ to = "owner" => members[who] = "owner"

MayRemove(who, target) ==
  /\ members[who] # "none" /\ members[target] # "none"
  /\ who = target \/ IsAdmin(who)
  /\ members[target] = "owner" => who = target

(* An owner goes when a role below owner, or no role, replaces the role. *)
OwnerGoes(target, to) == members[target] = "owner" /\ to # "owner"

ReadRoles(r, who, target, to) ==
  /\ req[r] = Idle
  /\ IF to = "none" THEN MayRemove(who, target) ELSE MayChangeRole(who, target, to)
  /\ Busy(r, [op |-> "role", pc |-> IF OwnerGoes(target, to) THEN "count" ELSE "write",
              who |-> who, target |-> target, to |-> to])
  /\ UNCHANGED <<billingVars, members, invites, stale, raced, joined>>

LastOwner_never == FALSE

(* count_owners: the last owner is refused with last_owner. *)
LastOwner == Cardinality(Owners) <= 1

CountOwners(r) ==
  /\ req[r].op = "role" /\ req[r].pc = "count"
  /\ \/ LastOwner /\ Done(r) /\ NoWrite(r)
     \/ /\ ~LastOwner
        /\ Busy(r, [req[r] EXCEPT !.pc = "write"])
        /\ UNCHANGED <<members, invites, stale, raced, joined>>
  /\ UNCHANGED billingVars

(* The UPDATE, or the DELETE when the role is "none": by workspace and user
   alone, and of no row when the member has gone. *)
WriteRole(r) ==
  /\ req[r].op = "role" /\ req[r].pc = "write"
  /\ members' = [members EXCEPT ![req[r].target] = IF @ = "none" THEN "none" ELSE req[r].to]
  /\ raced' = (raced \/ r \in stale)
  /\ IF members' = members THEN stale' = stale \ {r} ELSE Overlap(r)
  /\ Done(r)
  /\ UNCHANGED <<billingVars, invites, joined>>

-----------------------------------------------------------------------------
(* Invites *)

MadeInvites == 1..Len(invites)

(* create: an admin, a role below owner, a positive life, uses 0 for any. *)
CreateInvite(who, role, uses, days) ==
  /\ IsAdmin(who)
  /\ role # "owner" /\ days > 0
  /\ Len(invites) < MaxInvites
  /\ invites' = Append(invites, [role |-> role, max |-> uses, uses |-> 0,
                                 expires |-> now + days, revoked |-> FALSE])
  /\ joined' = Append(joined, 0)
  /\ UNCHANGED <<billingVars, members, req, stale, raced>>

Locked(i) == \E r \in Reqs : req[r].op = "accept" /\ req[r].invite = i

(* revoke: an UPDATE, which waits for a transaction that holds the invite. *)
RevokeInvite(who, i) ==
  /\ IsAdmin(who)
  /\ ~Locked(i) /\ ~invites[i].revoked
  /\ invites' = [invites EXCEPT ![i].revoked = TRUE]
  /\ UNCHANGED <<billingVars, members, req, stale, raced, joined>>

(* preview's `valid`, and what accept asks of the invite it has locked. *)
Usable(i) ==
  /\ ~invites[i].revoked
  /\ invites[i].expires > now
  /\ invites[i].max = 0 \/ invites[i].uses < invites[i].max

(* The connections that transactions hold between their steps. *)
InTx == {r \in Reqs : req[r].op = "accept"}
FreeConn == Cardinality(InTx) < MaxPool

(* accept, to the lock: an existing member is answered at once, a new one
   needs a usable invite. *)
LockInvite(r, who, i) ==
  /\ req[r] = Idle
  /\ FreeConn /\ ~Locked(i)
  /\ members[who] = "none" /\ Usable(i)
  /\ Busy(r, [op |-> "accept", pc |-> "limits", who |-> who, invite |-> i])
  /\ UNCHANGED <<billingVars, members, invites, stale, raced, joined>>

WithinCap_offByOne == LimitsFor.members = 0 \/ Cardinality(People) <= LimitsFor.members

(* limits_for on a second connection, then the count of the members: the
   plan's cap refuses, and the transaction with it. *)
WithinCap == LimitsFor.members = 0 \/ Cardinality(People) < LimitsFor.members

CheckCap(r) ==
  /\ req[r].op = "accept" /\ req[r].pc = "limits"
  /\ FreeConn
  /\ \/ ~WithinCap /\ Done(r) /\ NoWrite(r)
     \/ /\ WithinCap
        /\ Busy(r, [req[r] EXCEPT !.pc = "join"])
        /\ UNCHANGED <<members, invites, stale, raced, joined>>
  /\ UNCHANGED billingVars

PoolTimeout_none(r) == FALSE /\ UNCHANGED vars

(* No second connection within the pool's timeout: an error, rolled back. *)
PoolTimeout(r) ==
  /\ req[r].op = "accept" /\ req[r].pc = "limits"
  /\ ~FreeConn
  /\ Done(r) /\ NoWrite(r)
  /\ UNCHANGED billingVars

Join_keepsUse(r) ==
  LET i == req[r].invite
      u == req[r].who
  IN  /\ req[r].op = "accept" /\ req[r].pc = "join"
      /\ IF Usable(i)
         THEN /\ invites' = [invites EXCEPT ![i].uses = @ + 1]
              /\ members' = [members EXCEPT ![u] = IF @ = "none" THEN invites[i].role ELSE @]
              /\ joined' = [joined EXCEPT ![i] = IF members[u] = "none" THEN @ + 1 ELSE @]
              /\ raced' = (raced \/ r \in stale)
              /\ Overlap(r)
         ELSE NoWrite(r)
      /\ Done(r)
      /\ UNCHANGED billingVars

(* The guarded increment, the membership, the commit.  A member who came in
   by another invite meanwhile is a key conflict, which undoes the use. *)
Join(r) ==
  LET i == req[r].invite
      u == req[r].who
  IN  /\ req[r].op = "accept" /\ req[r].pc = "join"
      /\ IF Usable(i) /\ members[u] = "none"
         THEN /\ invites' = [invites EXCEPT ![i].uses = @ + 1]
              /\ members' = [members EXCEPT ![u] = invites[i].role]
              /\ joined' = [joined EXCEPT ![i] = @ + 1]
              /\ raced' = (raced \/ r \in stale)
              /\ Overlap(r)
         ELSE NoWrite(r)
      /\ Done(r)
      /\ UNCHANGED billingVars

-----------------------------------------------------------------------------
(* update_seats: the row must grant a plan and the seats cover the members;
   Stripe's quantity is changed, and then the row, before any webhook. *)

OwnerContext(who) == members[who] = "owner"

CheckSeats(r, who, seats) ==
  /\ req[r] = Idle
  /\ OwnerContext(who)
  /\ Grants(row, now)
  /\ seats >= Cardinality(People) /\ seats # row.seats
  /\ Busy(r, [op |-> "seats", pc |-> "stripe", sub |-> row.sub, seats |-> seats])
  /\ UNCHANGED <<billingVars, members, invites, stale, raced, joined>>

(* fetch_seat_item and update_seat_quantity; Stripe may refuse either. *)
ChangeQuantity(r) ==
  /\ req[r].op = "seats" /\ req[r].pc = "stripe"
  /\ \/ LET s == req[r].sub
        IN  /\ stripe[s].status \in Live /\ Carries(stripe[s].items, "seat")
            /\ Emit(s, [stripe[s] EXCEPT !.items["seat"] = req[r].seats], {})
            /\ Busy(r, [req[r] EXCEPT !.pc = "write"])
            /\ UNCHANGED <<members, invites, stale, raced, joined>>
     \/ Done(r) /\ NoWrite(r) /\ UNCHANGED <<stripe, outbox, mishaps>>
  /\ UNCHANGED <<acked, ledger, handling, row, override, now>>

(* The optimistic UPDATE, of whatever row the workspace has by now. *)
Late(r) ==
  LET s == req[r].sub
  IN  row.sub # s \/ stripe[s].items["seat"] # req[r].seats

WriteSeats(r) ==
  /\ req[r].op = "seats" /\ req[r].pc = "write"
  /\ row' = [row EXCEPT !.seats = req[r].seats]
  /\ mishaps' = mishaps \cup (IF Late(r) THEN {"late"} ELSE {})
  /\ raced' = (raced \/ r \in stale)
  /\ Overlap(r)
  /\ Done(r)
  /\ UNCHANGED <<stripe, outbox, acked, ledger, handling, override, now, members, invites, joined>>

-----------------------------------------------------------------------------
(* A plan that changed under a request makes what it read of it old. *)
PlanStep ==
  /\ \/ StripeSteps \/ WebhookSteps \/ Tick
     \/ \E o \in Overrides \cup {NoOverride} : SetOverride(o)
  /\ stale' = IF LimitsFor' = LimitsFor THEN stale ELSE stale \cup Reading
  /\ UNCHANGED <<members, invites, req, raced, joined>>

(* The server stops: the webhook's and every request's work is dropped, and
   the transactions roll back. *)
Crash ==
  /\ BillingCrash
  /\ req' = [r \in Reqs |-> Idle]
  /\ stale' = {}
  /\ UNCHANGED <<members, invites, raced, joined>>

Finish(r) == CountOwners(r) \/ WriteRole(r) \/ CheckCap(r) \/ PoolTimeout(r) \/ Join(r)
             \/ ChangeQuantity(r) \/ WriteSeats(r)

Next ==
  \/ PlanStep
  \/ Crash
  \/ \E r \in Reqs : Finish(r)
  \/ \E r \in Reqs, who \in Users :
       \/ \E target \in Users, to \in AskedRoles : ReadRoles(r, who, target, to)
       \/ \E i \in MadeInvites : LockInvite(r, who, i)
       \/ \E n \in 1..MaxSeats : CheckSeats(r, who, n)
  \/ \E who \in Users :
       \/ \E k \in InviteKinds : CreateInvite(who, k.role, k.uses, k.days)
       \/ \E i \in MadeInvites : RevokeInvite(who, i)

Fairness == \A r \in Reqs : WF_vars(Finish(r))

Spec == Init /\ [][Next]_vars /\ Fairness

-----------------------------------------------------------------------------
(* Properties *)

TypeOK ==
  /\ members \in [Users -> Roles \cup {"none"}]
  /\ Len(invites) <= MaxInvites /\ Len(joined) = Len(invites)
  /\ stale \subseteq Reading
  /\ ledger \in [1..MaxEvents -> {"absent", "recorded", "processed", "error"}]
  /\ row.units \in 0..MaxUnits /\ row.seats \in 0..MaxSeats

(* update_member and remove_member promise that a workspace keeps an owner
   (the last_owner refusal, and the comments above update_member's check).
   Two owners who step down at once, or an admin who removes a member while
   that member becomes the only owner, leave none: the check and the write
   are separate statements. *)
KeepsOwner == Owners # {}

(* The check does hold where nothing came between it and the write: as long
   as no request has written on reads that another write had made old, the
   workspace has an owner. *)
KeepsOwnerUnraced == raced \/ Owners # {}

(* Uses count members: an invite's `uses` is the number of memberships made
   with it, whatever expired, was revoked or conflicted between the lock and
   the commit, and never passes its maximum. *)
UsesCounted ==
  \A i \in MadeInvites :
    /\ invites[i].uses = joined[i]
    /\ invites[i].max # 0 => joined[i] <= invites[i].max

(* The team's state is of its type, it keeps an owner as far as the check can
   see to it, and uses count members. *)
MembersSettled == TypeOK /\ KeepsOwnerUnraced /\ UsesCounted

(* A new member fits in the plan of the moment unless the plan or the members
   changed after the request had looked: accepts of two invites at once, a
   lapse of the plan, fewer seats. *)
JoinWithinCap ==
  \A r \in Reqs :
    req[r].op = "accept" /\ req'[r] = Idle /\ members' # members /\ r \notin stale
      => LimitsFor.members = 0 \/ Cardinality(People') <= LimitsFor.members
JoinsWithinCap == [][JoinWithinCap]_vars

(* A request ends.  An accept asks for a second connection while it holds one,
   so accepts can take the whole pool and wait for each other; the pool's
   timeout is what ends that. *)
RequestsEnd == \A r \in Reqs : req[r] # Idle ~> req[r] = Idle

=============================================================================
