------------------------------- MODULE MCServer -------------------------------
(* Small instances of the cloud server's parts, one chosen by the initial
   value of `part`.  The team and its plan (Workspaces and Billing), two
   requests at a time:
     teams     two members, every role change, one invite, overrides
     joiners   three accounts, two invites, a plan that comes and goes
     payers    one owner, two subscriptions, seat changes; a history ends at
               its first mishap
     crowded   two accepts fill a smaller pool's connections
   Accounts:
     logins    one account, resets and logins at once
     pairing   one device code, two polls
     newcomers two addresses, one identity, sign-up by password or provider
   CustomDomains:
     domains   two workspaces, one domain, two lookups, two changes
   Shares:
     renters   two links, two requests, one plan
     sellers   three links, one request, a plan that comes and goes
     visits    one link with room for one visitor, two at once
     rush      the same link, three visitors, of whom nobody plays or leaves
     lapsed    one link of a workspace whose plan comes and goes, one visitor
     notes     one protected link that follows pushes, two visitors
   What a part does not look at stays as it begins. *)
EXTENDS Workspaces, Accounts, CustomDomains, Shares

CONSTANTS Third,  \* the account that only joins in "joiners"
          Passer, \* the visitor that only comes in "rush"
          Looked  \* the parts to look at

VARIABLE part

serverVars == <<part, vars, accountVars, domainVars, shareVars>>

\* An operator's override for two members, for one day.
Comp == {[plan |-> "paid", seats |-> 2, expires |-> 1]}

\* An invite for one new member, for one day.
Once == {[role |-> "member", uses |-> 1, days |-> 1]}

AllRoles == Roles \cup {"none"}

Crowded == INSTANCE Workspaces WITH MaxPool <- 2

Follow == [pin |-> 0, days |-> 0, pw |-> 0, feedback |-> FALSE]
Protected == [Follow EXCEPT !.pw = 1, !.feedback = TRUE]
BothOrders == {Follow, Protected}
Changes == {[state |-> "revoked"], [state |-> "live"], [days |-> 1], [pin |-> 1]}
TwoPlans == [free |-> 1, paid |-> 2]

Wants(kind) == \E r \in Reqs : req[r].op = kind

Calling(kinds) == \E r \in Calls : op[r].do \in kinds

(* What a part leaves out. *)
Within ==
  /\ part = "teams" =>
       /\ outbox = <<>> /\ now = 0
       /\ members[Third] = "none" /\ Len(invites) <= 1
  /\ part = "joiners" =>
       /\ Len(outbox) <= 1 /\ \A e \in Events : ~Carries(outbox[e].items, "storage")
       /\ ~Wants("role")
  /\ part = "payers" =>
       /\ override = NoOverride /\ invites = <<>>
       /\ ~Wants("role")
       /\ \/ \E r \in Reqs : req[r] = Idle
          \/ \E s \in Subs : stripe[s] = NoSub
  /\ part = "crowded" => outbox = <<>> /\ ~Wants("role")
  /\ part = "logins" =>
       /\ tokens = <<>> /\ ~Calling({"known", "link", "create"})
       /\ \A e \in Emails \ {Founder} : ~Exists(e) /\ failures[e] = 0
       /\ \A c \in Codes : codes[c].state = "none"
  /\ part = "pairing" =>
       /\ mails = <<>> /\ Cardinality(sessions) <= 1
       /\ ~Calling({"login", "fail", "create", "admin"})
  /\ part = "newcomers" =>
       /\ tokens = <<>> /\ Cardinality(sessions) <= 1 /\ ~Calling({"login", "fail"})
       /\ \A c \in Codes : codes[c].state = "none"

(* What the parts of Shares leave out; links are made in the order of their ids. *)
Bound(used, busy, days, newest, paid) ==
  [links |-> used, busy |-> busy, days |-> days, newest |-> newest, paid |-> paid]
Bounds == [renters |-> Bound(2, 2, 1, 1, FALSE), sellers |-> Bound(3, 1, 1, 1, TRUE),
           visits  |-> Bound(1, 2, 0, 1, FALSE), lapsed  |-> Bound(1, 1, 1, 1, TRUE),
           notes   |-> Bound(1, 1, 0, 2, FALSE), rush   |-> Bound(1, 2, 0, 1, FALSE)]

Doing(kinds) == {r \in Callers : call[r].do \in kinds}

SharesWithin ==
  LET b == Bounds[part]
      used == {l \in Links : links[l].state # "new"}
  IN  /\ used \subseteq 1..b.links /\ \A l \in used : 1..l \subseteq used
      /\ \A r \in Callers : call[r] # NoCall => r <= b.busy
      /\ day <= b.days /\ Newest <= b.newest /\ (plan = "paid" => b.paid)
      /\ \A r \in Doing({"insert"}) : call[r].order = IF part = "notes" THEN Protected ELSE Follow
      /\ part \in {"renters", "sellers"} => Doing({"admit", "count", "forward", "account"}) = {}
      /\ part = "lapsed" =>
           \A q, r \in Doing({"admit", "count", "forward", "account"}), s \in live :
             call[q].sid = call[r].sid /\ call[q].sid = s
      /\ part = "sellers" => Excused("restored") = {}
      /\ part = "rush" => Doing({"account", "note"}) = {}
      /\ part = "visits" => Doing({"account"}) = {}
      /\ part # "rush" =>
           \A s \in unlocks \cup {call[r].sid : r \in Doing({"admit", "forward"})} : s[2] # Passer
      /\ part \in {"visits", "rush", "lapsed", "notes"} =>
           Excused("restored") = {} /\ \A l \in Links : links[l].state # "revoked"
      /\ part # "notes" => \A l \in Links : links[l].pin = 0

ServerInit ==
  part \in Looked /\ Init /\ AccountInit /\ DomainInit /\ ShareInit

OnlyTeam == UNCHANGED <<part, accountVars, domainVars, shareVars>>
OnlyAccounts == UNCHANGED <<part, vars, domainVars, shareVars>>
OnlyDomains == UNCHANGED <<part, vars, accountVars, shareVars>>
OnlyShares == UNCHANGED <<part, vars, accountVars, domainVars>>

TeamStep ==
  /\ part \in {"teams", "joiners", "payers"} /\ Next /\ OnlyTeam
  /\ part = "payers" => mishaps = {}
  /\ Within'
CrowdedStep == part = "crowded" /\ Crowded!Next /\ OnlyTeam /\ Within'
AccountsStep ==
  /\ part \in {"logins", "pairing", "newcomers"} /\ AccountNext /\ OnlyAccounts
  /\ Within'
DomainsStep == part = "domains" /\ DomainNext /\ OnlyDomains
SharesStep ==
  /\ part \in DOMAIN Bounds /\ ShareNext /\ OnlyShares
  /\ part = "rush" => live \subseteq live'
  /\ SharesWithin'

ServerNext ==
  \/ TeamStep \/ CrowdedStep
  \/ AccountsStep
  \/ DomainsStep
  \/ SharesStep

CrowdProceeds == \A r \in Reqs :
  WF_serverVars(part = "crowded" /\ Crowded!Finish(r) /\ OnlyTeam /\ Within')
ServerSpec == ServerInit /\ [][ServerNext]_serverVars /\ CrowdProceeds

(* The modules' properties, each of the instances whose bounds are made for it. *)

(* Workspaces: a request ends, though accepts can take the whole pool. *)
CrowdEnds == part = "crowded" => RequestsEnd

===============================================================================
