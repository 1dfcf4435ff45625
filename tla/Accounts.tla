------------------------------- MODULE Accounts -------------------------------
(***************************************************************************)
(* Accounts of the cloud server: sign-up, password and OAuth login,        *)
(* sessions, mailed reset and verification links, device pairing and its   *)
(* tokens, login budgets and the instance's admins.  Email is configured.  *)
(*                                                                         *)
(* A handler's statements are separate steps where something can come      *)
(* between them that matters: a password is verified, then a session is    *)
(* made; an approved code is read, a token minted, the code deleted.       *)
(*                                                                         *)
(* Bounds: MaxMails links are ever mailed, MaxTokens minted, MaxSessions   *)
(* live at once, MaxFailures stands for the budget of failed logins.       *)
(***************************************************************************)
EXTENDS Naturals, FiniteSets, Sequences

CONSTANTS Emails, Founder, Identities, Codes,
          Calls,       \* requests that can be under way at once
          MaxMails, MaxTokens, MaxSessions, MaxFailures

ASSUME AccountAssumption ==
  /\ Founder \in Emails /\ "none" \notin Emails /\ "own" \notin Codes
  /\ IsFiniteSet(Calls)
  /\ MaxFailures \in Nat \ {0}

VARIABLES users,      \* rows of users, by email
          sessions,   \* rows of sessions
          mails,      \* rows of password_resets and email_verifications
          codes,      \* rows of device_codes
          tokens,     \* rows of api_tokens
          idents,     \* rows of github_identities and discord_identities
          failures,   \* the account limiter's window
          op,         \* the requests under way
          behind      \* history: requests whose reads no longer hold

accountVars == <<users, sessions, mails, codes, tokens, idents, failures, op, behind>>

NoUser == [pw |-> 0, verified |-> FALSE, admin |-> FALSE]
Exists(e) == users[e] # NoUser
NoPassword == 0   \* with a verified address: an account made by a provider
Passwords == 1..2
Own == "own"     \* the code of a token that no device code minted
Resting == [do |-> "idle"]

(* LoginRateLimiter: nobody has failed yet. *)
NoFailures == [e \in Emails |-> 0]

AccountInit ==
  /\ users = [e \in Emails |-> IF e = Founder THEN [pw |-> 1, verified |-> TRUE, admin |-> TRUE] ELSE NoUser]
  /\ sessions = {}
  /\ mails = <<>>
  /\ codes = [c \in Codes |-> [state |-> "none", user |-> Founder]]
  /\ tokens = <<>>
  /\ idents = [i \in Identities |-> "none"]
  /\ failures = NoFailures
  /\ op = [r \in Calls |-> Resting]
  /\ behind = {}

Begin(r, rec) == op[r] = Resting /\ op' = [op EXCEPT ![r] = rec]
End(r) == op' = [op EXCEPT ![r] = Resting] /\ behind' = behind \ {r}
Under(r, what) == op[r].do = what

-----------------------------------------------------------------------------
(* Sessions and links *)

(* create_session.  `under` is the password it was made with, 0 for a
   provider or a fresh account; `late` remembers that the reads were old. *)
Room == Cardinality(sessions) < MaxSessions
NewSession(e, under, late) == sessions' = sessions \cup {[user |-> e, under |-> under, late |-> late]}

(* lookup_session with authenticate: what a browser is signed in as. *)
SignedIn(e) == \E s \in sessions : s.user = e

(* logout *)
DeleteSession(s) ==
  /\ sessions' = sessions \ {s}
  /\ UNCHANGED <<users, mails, codes, tokens, idents, failures, op, behind>>

(* create_reset and create_verification: a live token for the address. *)
Mailed(m, kind, e) == Append(m, [kind |-> kind, user |-> e, state |-> "live"])

(* register: the unique address, an unverified account, a link, a session. *)
Register(e, p) ==
  /\ ~Exists(e) /\ Room /\ Len(mails) < MaxMails
  /\ users' = [users EXCEPT ![e] = [pw |-> p, verified |-> FALSE, admin |-> FALSE]]
  /\ mails' = Mailed(mails, "verify", e)
  /\ NewSession(e, p, FALSE)
  /\ UNCHANGED <<codes, tokens, idents, failures, op, behind>>

(* forgot_password answers the same whether the account exists or not. *)
ForgotPassword(e) ==
  /\ Exists(e) /\ Len(mails) < MaxMails
  /\ mails' = Mailed(mails, "reset", e)
  /\ UNCHANGED <<users, sessions, codes, tokens, idents, failures, op, behind>>

(* resend_verification: signed in, and not verified yet. *)
ResendVerification(e) ==
  /\ SignedIn(e) /\ ~users[e].verified /\ Len(mails) < MaxMails
  /\ mails' = Mailed(mails, "verify", e)
  /\ UNCHANGED <<users, sessions, codes, tokens, idents, failures, op, behind>>

Expire(i) ==
  /\ mails[i].state = "live"
  /\ mails' = [mails EXCEPT ![i].state = "expired"]
  /\ UNCHANGED <<users, sessions, codes, tokens, idents, failures, op, behind>>

(* The guarded UPDATE that claims a link: at most one redeems it. *)
Claims(i, kind) == mails[i].kind = kind /\ mails[i].state = "live"
Claimed(i) == mails' = [mails EXCEPT ![i].state = "used"]

SessionsAfterReset_all(e) == sessions

(* reset_password: one transaction claims the link, sets the password and
   deletes every session of the account. *)
SessionsAfterReset(e) == {s \in sessions : s.user # e}

ResetPassword(i, p) ==
  LET e == mails[i].user
  IN  /\ Claims(i, "reset") /\ p # users[e].pw
      /\ Claimed(i)
      /\ users' = [users EXCEPT ![e].pw = p]
      /\ sessions' = SessionsAfterReset(e)
      /\ behind' = behind \cup {r \in Calls : Under(r, "login") /\ op[r].user = e}
      /\ UNCHANGED <<codes, tokens, idents, failures, op>>

(* verify_email *)
VerifyEmail(i) ==
  /\ Claims(i, "verify")
  /\ Claimed(i)
  /\ users' = [users EXCEPT ![mails[i].user].verified = TRUE]
  /\ UNCHANGED <<sessions, codes, tokens, idents, failures, op, behind>>

-----------------------------------------------------------------------------
(* Login *)

LoginBlocked_late(e) == failures[e] > MaxFailures

(* is_blocked and is_account_blocked: asked before any other work. *)
LoginBlocked(e) == failures[e] >= MaxFailures

(* The row is read and the password verified: right or wrong. *)
LoginRead(r, e, p) ==
  /\ ~LoginBlocked(e)
  /\ IF Exists(e) /\ users[e].pw = p
     THEN Begin(r, [do |-> "login", user |-> e, pw |-> p])
     ELSE Begin(r, [do |-> "fail", user |-> e])
  /\ UNCHANGED <<users, sessions, mails, codes, tokens, idents, failures, behind>>

(* A login that succeeds clears the budget and makes a session, whatever
   became of the password it verified. *)
LoginSession(r) ==
  /\ Under(r, "login") /\ Room
  /\ failures' = [failures EXCEPT ![op[r].user] = 0]
  /\ NewSession(op[r].user, op[r].pw, r \in behind)
  /\ End(r)
  /\ UNCHANGED <<users, mails, codes, tokens, idents>>

(* record_failure, record_account_failure *)
LoginFails(r) ==
  /\ Under(r, "fail")
  /\ failures' = [failures EXCEPT ![op[r].user] = @ + 1]
  /\ End(r)
  /\ UNCHANGED <<users, sessions, mails, codes, tokens, idents>>

(* The fixed window ends: the next failure opens a fresh one. *)
WindowEnds(e) ==
  /\ failures[e] > 0
  /\ failures' = [failures EXCEPT ![e] = 0]
  /\ UNCHANGED <<users, sessions, mails, codes, tokens, idents, op, behind>>

AfterLink_unverified(e) == users

AfterLink(e) == [users EXCEPT ![e].verified = TRUE]

(* resolve_github_user, resolve_discord_user: a known identity is its user;
   a known address links the identity; else an account is made. *)
OAuthRead(r, i, e) ==
  /\ \/ idents[i] # "none" /\ Begin(r, [do |-> "known", user |-> idents[i], ident |-> i])
     \/ idents[i] = "none" /\ Begin(r, [do |-> IF Exists(e) THEN "link" ELSE "create", user |-> e, ident |-> i])
  /\ UNCHANGED <<users, sessions, mails, codes, tokens, idents, failures, behind>>

(* The insert conflicts when the address or the identity came in meanwhile:
   an error, and no session. *)
OAuthWrite(r) ==
  LET e == op[r].user
      i == op[r].ident
  IN  /\ \/ /\ Under(r, "known") /\ Room
            /\ NewSession(e, 0, FALSE)
            /\ UNCHANGED <<users, idents>>
         \/ /\ Under(r, "link") /\ Room
            /\ idents' = [idents EXCEPT ![i] = IF @ = "none" THEN e ELSE @]
            /\ users' = AfterLink(e)
            /\ NewSession(e, 0, FALSE)
         \/ /\ Under(r, "create") /\ Room
            /\ ~Exists(e) /\ idents[i] = "none"
            /\ users' = [users EXCEPT ![e] = [pw |-> NoPassword, verified |-> TRUE, admin |-> FALSE]]
            /\ idents' = [idents EXCEPT ![i] = e]
            /\ NewSession(e, 0, FALSE)
         \/ /\ Under(r, "create")
            /\ Exists(e) \/ idents[i] # "none"
            /\ UNCHANGED <<users, idents, sessions>>
      /\ End(r)
      /\ UNCHANGED <<mails, codes, tokens, failures>>

-----------------------------------------------------------------------------
(* Device pairing *)

DeviceCode(c) ==
  /\ codes[c].state = "none"
  /\ codes' = [codes EXCEPT ![c].state = "pending"]
  /\ UNCHANGED <<users, sessions, mails, tokens, idents, failures, op, behind>>

(* approve_device: approves or denies a code that has not expired, again if
   asked again; the last answer stands. *)
ApproveDevice(c, e, yes) ==
  /\ SignedIn(e)
  /\ codes[c].state \in {"pending", "approved", "denied"}
  /\ codes' = [codes EXCEPT ![c] = [state |-> IF yes THEN "approved" ELSE "denied", user |-> e]]
  /\ UNCHANGED <<users, sessions, mails, tokens, idents, failures, op, behind>>

(* A code past its expiry answers no poll. *)
CodeExpires(c) ==
  /\ codes[c].state \in {"pending", "approved", "denied"}
  /\ codes' = [codes EXCEPT ![c].state = "gone"]
  /\ UNCHANGED <<users, sessions, mails, tokens, idents, failures, op, behind>>

(* poll_device reads the row; of an approved one the poll goes on. *)
Polling(c) == {r \in Calls : op[r].do \in {"mint", "forget"} /\ op[r].code = c}

PollRead(r, c) ==
  /\ codes[c].state = "approved"
  /\ Begin(r, [do |-> "mint", code |-> c, user |-> codes[c].user])
  /\ behind' = IF Polling(c) = {} THEN behind ELSE behind \cup {r} \cup Polling(c)
  /\ UNCHANGED <<users, sessions, mails, codes, tokens, idents, failures>>

(* create_token *)
Mint(r) ==
  /\ Under(r, "mint") /\ Len(tokens) < MaxTokens
  /\ tokens' = Append(tokens, [user |-> op[r].user, code |-> op[r].code,
                               overlapped |-> r \in behind, revoked |-> FALSE])
  /\ op' = [op EXCEPT ![r].do = "forget"]
  /\ UNCHANGED <<users, sessions, mails, codes, idents, failures, behind>>

CodesAfterPoll_kept(c) == codes

(* The DELETE that keeps a repeated poll from minting again, and the answer. *)
CodesAfterPoll(c) == [codes EXCEPT ![c].state = "gone"]

Forget(r) ==
  /\ Under(r, "forget")
  /\ codes' = CodesAfterPoll(op[r].code)
  /\ End(r)
  /\ UNCHANGED <<users, sessions, mails, tokens, idents, failures>>

(* The result of the DELETE is not looked at: the code may stay approved. *)
Doubtful(c) == [t \in DOMAIN tokens |-> [tokens[t] EXCEPT !.overlapped = @ \/ tokens[t].code = c]]

ForgetFails(r) ==
  /\ Under(r, "forget")
  /\ tokens' = Doubtful(op[r].code)
  /\ End(r)
  /\ UNCHANGED <<users, sessions, mails, codes, idents, failures>>

(* create: a browser's session mints a token of its own. *)
CreateToken(e) ==
  /\ SignedIn(e) /\ Len(tokens) < MaxTokens
  /\ tokens' = Append(tokens, [user |-> e, code |-> Own, overlapped |-> FALSE, revoked |-> FALSE])
  /\ UNCHANGED <<users, sessions, mails, codes, idents, failures, op, behind>>

(* revoke_token *)
RevokeToken(t) ==
  /\ ~tokens[t].revoked /\ SignedIn(tokens[t].user)
  /\ tokens' = [tokens EXCEPT ![t].revoked = TRUE]
  /\ UNCHANGED <<users, sessions, mails, codes, idents, failures, op, behind>>

-----------------------------------------------------------------------------
(* Administration *)

Admins == {e \in Emails : users[e].admin}

(* set_admin: only one's own flag is counted before it is dropped. *)
MaySetAdmin(who, target, flag) ==
  /\ who \in Admins /\ SignedIn(who) /\ Exists(target)
  /\ ~flag /\ target = who => Cardinality(Admins) > 1

SetAdminRead(r, who, target, flag) ==
  /\ MaySetAdmin(who, target, flag)
  /\ Begin(r, [do |-> "admin", user |-> target, flag |-> flag])
  /\ UNCHANGED <<users, sessions, mails, codes, tokens, idents, failures, behind>>

SetAdminWrite(r) ==
  /\ Under(r, "admin")
  /\ users' = [users EXCEPT ![op[r].user].admin = op[r].flag]
  /\ End(r)
  /\ UNCHANGED <<sessions, mails, codes, tokens, idents, failures>>

(* The server stops.  Budgets are in memory; a poll that minted and had not
   deleted leaves its code approved. *)
ServerStops ==
  /\ op' = [r \in Calls |-> Resting]
  /\ failures' = NoFailures
  /\ behind' = {}
  /\ tokens' = [t \in DOMAIN tokens |->
                  [tokens[t] EXCEPT !.overlapped =
                     @ \/ \E r \in Calls : Under(r, "forget") /\ op[r].code = tokens[t].code]]
  /\ UNCHANGED <<users, sessions, mails, codes, idents>>

-----------------------------------------------------------------------------
AccountStep ==
  \/ \E e \in Emails :
       \/ \E p \in Passwords : Register(e, p)
       \/ ForgotPassword(e) \/ ResendVerification(e) \/ WindowEnds(e) \/ CreateToken(e)
       \/ \E c \in Codes, yes \in BOOLEAN : ApproveDevice(c, e, yes)
  \/ \E s \in sessions : DeleteSession(s)
  \/ \E i \in DOMAIN mails :
       Expire(i) \/ VerifyEmail(i) \/ \E p \in Passwords : ResetPassword(i, p)
  \/ \E c \in Codes : DeviceCode(c) \/ CodeExpires(c)
  \/ \E t \in DOMAIN tokens : RevokeToken(t)
  \/ ServerStops

RequestStep(r) ==
  \/ \E e \in Emails, p \in Passwords : LoginRead(r, e, p)
  \/ LoginSession(r) \/ LoginFails(r)
  \/ \E i \in Identities, e \in Emails : OAuthRead(r, i, e)
  \/ OAuthWrite(r)
  \/ \E c \in Codes : PollRead(r, c)
  \/ Mint(r) \/ Forget(r) \/ ForgetFails(r)
  \/ \E who, target \in Emails, flag \in BOOLEAN : SetAdminRead(r, who, target, flag)
  \/ SetAdminWrite(r)

AccountNext == AccountStep \/ \E r \in Calls : RequestStep(r)
AccountSpec == AccountInit /\ [][AccountNext]_accountVars

-----------------------------------------------------------------------------
(* Properties *)

(* consume_reset promises that a reset locks the old password out everywhere:
   every session made by a password was made by the account's present one,
   except where the login had verified the old password and inserted its
   session after the reset had deleted the others. *)
ResetLocksOut == \A s \in sessions : s.under \in {0, users[s.user].pw} \/ s.late

(* A provider vouches for the address it gave: whatever came between the
   lookups and the inserts of a callback, an identity is linked to an account
   that exists and is verified, as is every account that has no password. *)
IdentitiesSettled ==
  /\ \A i \in Identities : idents[i] # "none" => Exists(idents[i]) /\ users[idents[i]].verified
  /\ \A e \in Emails : Exists(e) /\ users[e].pw = NoPassword => users[e].verified

(* poll_device promises a token "returned exactly once": an approved code
   mints one token, unless two polls had read the approved row, or the server
   stopped or the delete failed after the mint. *)
OneTokenPerCode ==
  \A t, u \in DOMAIN tokens :
    t # u /\ tokens[t].code = tokens[u].code /\ tokens[t].code # Own => tokens[t].overlapped \/ tokens[u].overlapped

(* The budget is checked before the password and charged after it, so logins
   under way can overshoot it, by no more than there are requests at once. *)
BudgetOvershoot ==
  \A e \in Emails : failures[e] < MaxFailures + Cardinality(Calls)

(* A reset locks every older session out, an identity settles on one user, a
   device code gives one token, and the login budget is overshot by no more
   than the requests under way. *)
AccountsSettled == ResetLocksOut /\ IdentitiesSettled /\ OneTokenPerCode /\ BudgetOvershoot

=============================================================================
