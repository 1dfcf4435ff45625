---------------------------- MODULE AccountsProofs ----------------------------
(***************************************************************************)
(* What the accounts keep, for any number of addresses, identities, device *)
(* codes and requests: a reset locks older sessions out, an identity       *)
(* settles on one verified account, a code gives one token, and the login  *)
(* budget is overshot by no more than the requests under way.              *)
(*                                                                         *)
(* Accounts are never deleted (Known), a login has verified the password   *)
(* of the moment unless a reset overtook it (Verified), a code that polls  *)
(* have not overlapped on has at most one token and then is forgotten      *)
(* (Paired), and failures that are charged late count with those that are  *)
(* on their way (Charged).                                                 *)
(***************************************************************************)
EXTENDS Accounts, FiniteSetTheorems, TLAPS

-----------------------------------------------------------------------------
(* Types *)

UserRows == [pw : 0..2, verified : BOOLEAN, admin : BOOLEAN]
Sessions == [user : Emails, under : 0..2, late : BOOLEAN]
Links == [kind : {"verify", "reset"}, user : Emails, state : {"live", "used", "expired"}]
CodeRows == [state : {"none", "pending", "approved", "denied", "gone"}, user : Emails]
TokenRows == [user : Emails, code : Codes \cup {Own}, overlapped : BOOLEAN, revoked : BOOLEAN]

Requests ==
  {Resting}
  \cup [do : {"login"}, user : Emails, pw : Passwords]
  \cup [do : {"fail"}, user : Emails]
  \cup [do : {"known", "link", "create"}, user : Emails, ident : Identities]
  \cup [do : {"mint", "forget"}, code : Codes, user : Emails]
  \cup [do : {"admin"}, user : Emails, flag : BOOLEAN]

OpTyped == op \in [Calls -> Requests] /\ behind \subseteq Calls

RowsTyped ==
  /\ users \in [Emails -> UserRows]
  /\ sessions \subseteq Sessions
  /\ mails \in Seq(Links)
  /\ codes \in [Codes -> CodeRows]
  /\ tokens \in Seq(TokenRows)
  /\ idents \in [Identities -> Emails \cup {"none"}]
  /\ failures \in [Emails -> Nat]

Typed == OpTyped /\ RowsTyped

LEMMA Kinds ==
  ASSUME Typed, NEW r \in Calls
  PROVE  /\ op[r].do = "idle" => op[r] = Resting
         /\ op[r] # Resting => op[r].user \in Emails
         /\ Under(r, "login") => op[r].pw \in Passwords
         /\ op[r].do \in {"known", "link", "create"} => op[r].ident \in Identities
         /\ op[r].do \in {"mint", "forget"} => op[r].code \in Codes
         /\ Under(r, "admin") => op[r].flag \in BOOLEAN
<1>1. op[r] \in Requests
  BY DEF Typed, OpTyped
<1> QED
  BY <1>1 DEF Requests, Resting, Under

LEMMA Parts ==
  ASSUME Typed, NEW r \in Calls
  PROVE  /\ op[r].do # "idle" => op[r].user \in Emails
         /\ op[r].do = "login" => op[r].pw \in 0..2
         /\ op[r].do \in {"known", "link", "create"} => op[r].ident \in Identities
         /\ op[r].do = "admin" => op[r].flag \in BOOLEAN
BY Kinds DEF Under, Resting, Passwords

LEMMA OAuthKinds ==
  ASSUME NEW r, OAuthWrite(r)
  PROVE  /\ op[r].do \in {"known", "link", "create"} /\ op[r].do # "idle"
         /\ NewSession(op[r].user, 0, FALSE) \/ sessions' = sessions
         /\ users' \in {users, AfterLink(op[r].user),
                        [users EXCEPT ![op[r].user] = [pw |-> 0, verified |-> TRUE, admin |-> FALSE]]}
BY DEF OAuthWrite, Under, NoPassword

LEMMA LinkUsers ==
  ASSUME Typed, NEW i \in DOMAIN mails
  PROVE  mails[i].user \in Emails
<1>1. mails[i] \in Links
  BY DEF Typed, RowsTyped
<1> QED
  BY <1>1 DEF Links

LEMMA Begins ==
  ASSUME OpTyped, NEW r \in Calls, NEW rec \in Requests, Begin(r, rec)
  PROVE  op' \in [Calls -> Requests]
BY DEF Begin, OpTyped

LEMMA Ends ==
  ASSUME OpTyped, NEW r \in Calls, End(r)
  PROVE  OpTyped'
BY DEF End, OpTyped, Requests

(* The operations that no request is needed for keep the requests' records. *)
LEMMA OpStep == Typed /\ [AccountNext]_accountVars => OpTyped'
<1> SUFFICES ASSUME Typed, [AccountNext]_accountVars PROVE OpTyped'
  OBVIOUS
<1>1. CASE UNCHANGED <<op, behind>>
  BY <1>1 DEF Typed, OpTyped
<1>2. CASE ServerStops
  BY <1>2 DEF ServerStops, OpTyped, Requests
<1>3. CASE \E i \in DOMAIN mails, p \in Passwords : ResetPassword(i, p)
  BY <1>3 DEF ResetPassword, Typed, OpTyped
<1>4. CASE \E r \in Calls : RequestStep(r)
  <2>1. PICK r \in Calls : RequestStep(r)
    BY <1>4
  <2>2. CASE \E e \in Emails, p \in Passwords : LoginRead(r, e, p)
    <3>1. PICK e \in Emails, p \in Passwords : LoginRead(r, e, p)
      BY <2>2
    <3>2. [do |-> "login", user |-> e, pw |-> p] \in Requests /\ [do |-> "fail", user |-> e] \in Requests
      BY DEF Requests
    <3>3. op' \in [Calls -> Requests]
      BY <3>1, <3>2, Begins DEF LoginRead, Typed
    <3> QED
      BY <3>1, <3>3 DEF LoginRead, Typed, OpTyped
  <2>3. CASE \E i \in Identities, e \in Emails : OAuthRead(r, i, e)
    <3>1. PICK i \in Identities, e \in Emails : OAuthRead(r, i, e)
      BY <2>3
    <3>2. \A d \in {"known", "link", "create"}, u \in Emails : [do |-> d, user |-> u, ident |-> i] \in Requests
      BY DEF Requests
    <3>3. idents[i] # "none" => idents[i] \in Emails
      BY DEF Typed, RowsTyped
    <3>4. \E d \in {"known", "link", "create"}, u \in Emails : Begin(r, [do |-> d, user |-> u, ident |-> i])
      BY <3>1, <3>3 DEF OAuthRead
    <3>5. op' \in [Calls -> Requests]
      BY <3>2, <3>4, Begins DEF Typed
    <3> QED
      BY <3>1, <3>5 DEF OAuthRead, Typed, OpTyped
  <2>4. CASE \E c \in Codes : PollRead(r, c)
    <3>1. PICK c \in Codes : PollRead(r, c)
      BY <2>4
    <3>2. [do |-> "mint", code |-> c, user |-> codes[c].user] \in Requests
      BY DEF Requests, Typed, RowsTyped, CodeRows
    <3>3. op' \in [Calls -> Requests]
      BY <3>1, <3>2, Begins DEF PollRead, Typed
    <3>4. behind' \subseteq Calls
      BY <3>1 DEF PollRead, Polling, Typed, OpTyped
    <3> QED
      BY <3>3, <3>4 DEF OpTyped
  <2>5. CASE Mint(r)
    <3>1. op[r] \in [do : {"mint", "forget"}, code : Codes, user : Emails]
      BY <2>5 DEF Mint, Under, Typed, OpTyped, Requests, Resting
    <3>2. [op[r] EXCEPT !.do = "forget"] \in [do : {"mint", "forget"}, code : Codes, user : Emails]
      BY <3>1
    <3>3. [op[r] EXCEPT !.do = "forget"] \in Requests
      BY <3>2, Zenon DEF Requests
    <3> QED
      BY <2>5, <3>3 DEF Mint, Typed, OpTyped
  <2>6. CASE \E who, target \in Emails, flag \in BOOLEAN : SetAdminRead(r, who, target, flag)
    <3>1. PICK who \in Emails, target \in Emails, flag \in BOOLEAN : SetAdminRead(r, who, target, flag)
      BY <2>6
    <3>2. [do |-> "admin", user |-> target, flag |-> flag] \in Requests
      BY DEF Requests
    <3>3. op' \in [Calls -> Requests]
      BY <3>1, <3>2, Begins DEF SetAdminRead, Typed
    <3> QED
      BY <3>1, <3>3 DEF SetAdminRead, Typed, OpTyped
  <2>7. CASE LoginSession(r) \/ LoginFails(r) \/ OAuthWrite(r) \/ Forget(r) \/ ForgetFails(r) \/ SetAdminWrite(r)
    BY <2>7, Ends DEF LoginSession, LoginFails, OAuthWrite, Forget, ForgetFails, SetAdminWrite, Typed
  <2> QED
    BY <2>1, <2>2, <2>3, <2>4, <2>5, <2>6, <2>7 DEF RequestStep
<1>5. CASE AccountStep /\ ~ServerStops /\ ~\E i \in DOMAIN mails, p \in Passwords : ResetPassword(i, p)
  BY <1>1, <1>5 DEF AccountStep, Register, ForgotPassword, ResendVerification, WindowEnds, CreateToken,
     ApproveDevice, DeleteSession, Expire, VerifyEmail, DeviceCode, CodeExpires, RevokeToken
<1>6. CASE UNCHANGED accountVars
  BY <1>1, <1>6 DEF accountVars
<1> QED
  BY <1>2, <1>3, <1>4, <1>5, <1>6 DEF AccountNext

-----------------------------------------------------------------------------
(* The rows, table by table. *)

LEMMA OneMore ==
  ASSUME NEW S, NEW q \in Seq(S), NEW x \in S
  PROVE  Append(q, x) \in Seq(S)
OBVIOUS

LEMMA OneChanged ==
  ASSUME NEW S, NEW q \in Seq(S), NEW i \in DOMAIN q, NEW x \in S
  PROVE  [q EXCEPT ![i] = x] \in Seq(S)
OBVIOUS

LEMMA AllChanged ==
  ASSUME NEW S, NEW q \in Seq(S), NEW f, DOMAIN f = DOMAIN q, f = [t \in DOMAIN f |-> f[t]],
         \A t \in DOMAIN q : f[t] \in S
  PROVE  f \in Seq(S)
<1>1. PICK n \in Nat : DOMAIN q = 1..n
  OBVIOUS
<1>2. f \in [1..n -> S]
  BY <1>1
<1> QED
  BY <1>2

LEMMA MailsTyped ==
  ASSUME Typed, [AccountNext]_accountVars
  PROVE  mails' \in Seq(Links)
<1>1. mails \in Seq(Links)
  BY DEF Typed, RowsTyped
<1>2. \A kind \in {"verify", "reset"}, e \in Emails : Mailed(mails, kind, e) \in Seq(Links)
  <2> SUFFICES ASSUME NEW kind \in {"verify", "reset"}, NEW e \in Emails
               PROVE  Mailed(mails, kind, e) \in Seq(Links)
    OBVIOUS
  <2>1. [kind |-> kind, user |-> e, state |-> "live"] \in Links
    BY DEF Links
  <2> QED
    BY <1>1, <2>1, OneMore DEF Mailed
<1>3. \A i \in DOMAIN mails, s \in {"used", "expired"} : [mails EXCEPT ![i].state = s] \in Seq(Links)
  <2> SUFFICES ASSUME NEW i \in DOMAIN mails, NEW s \in {"used", "expired"}
               PROVE  [mails EXCEPT ![i].state = s] \in Seq(Links)
    OBVIOUS
  <2>1. mails[i] \in Links
    BY <1>1
  <2>2. [mails[i] EXCEPT !.state = s] \in Links
    BY <2>1 DEF Links
  <2> QED
    BY <1>1, <2>2, OneChanged
<1>4. CASE \E e \in Emails : (\E p \in Passwords : Register(e, p)) \/ ForgotPassword(e) \/ ResendVerification(e)
  BY <1>2, <1>4 DEF Register, ForgotPassword, ResendVerification
<1>5. CASE \E i \in DOMAIN mails : Expire(i) \/ VerifyEmail(i) \/ \E p \in Passwords : ResetPassword(i, p)
  BY <1>3, <1>5 DEF Expire, VerifyEmail, ResetPassword, Claimed
<1>6. CASE UNCHANGED mails
  BY <1>1, <1>6
<1>7. CASE \E r \in Calls : RequestStep(r)
  BY <1>6, <1>7 DEF RequestStep, LoginRead, LoginSession, LoginFails, OAuthRead, OAuthWrite, PollRead,
     Mint, Forget, ForgetFails, SetAdminRead, SetAdminWrite
<1> QED
  BY <1>4, <1>5, <1>6, <1>7 DEF AccountNext, AccountStep, accountVars, WindowEnds, CreateToken, ApproveDevice,
     DeleteSession, DeviceCode, CodeExpires, RevokeToken, ServerStops

LEMMA CodesTyped ==
  ASSUME Typed, [AccountNext]_accountVars
  PROVE  codes' \in [Codes -> CodeRows]
<1>1. codes \in [Codes -> CodeRows]
  BY DEF Typed, RowsTyped
<1>2. \A c \in Codes, s \in {"pending", "gone"} : [codes EXCEPT ![c].state = s] \in [Codes -> CodeRows]
  BY <1>1 DEF CodeRows
<1>3. CASE \E c \in Codes, e \in Emails, yes \in BOOLEAN : ApproveDevice(c, e, yes)
  BY <1>1, <1>3 DEF ApproveDevice, CodeRows
<1>4. CASE \E c \in Codes : DeviceCode(c) \/ CodeExpires(c)
  BY <1>2, <1>4 DEF DeviceCode, CodeExpires
<1>5. CASE UNCHANGED codes
  BY <1>1, <1>5
<1>6. CASE \E r \in Calls : Forget(r)
  <2>1. PICK r \in Calls : Forget(r)
    BY <1>6
  <2>2. op[r].code \in Codes
    BY <2>1, Kinds DEF Forget, Under
  <2> QED
    BY <1>2, <2>1, <2>2 DEF Forget, CodesAfterPoll
<1>7. CASE \E r \in Calls : RequestStep(r)
  BY <1>5, <1>6, <1>7 DEF RequestStep, LoginRead, LoginSession, LoginFails, OAuthRead, OAuthWrite, PollRead,
     Mint, ForgetFails, SetAdminRead, SetAdminWrite
<1> QED
  BY <1>3, <1>4, <1>5, <1>7 DEF AccountNext, AccountStep, accountVars, Register, ForgotPassword,
     ResendVerification, WindowEnds, CreateToken, DeleteSession, Expire, VerifyEmail, ResetPassword,
     RevokeToken, ServerStops

LEMMA TokensTyped ==
  ASSUME Typed, [AccountNext]_accountVars
  PROVE  tokens' \in Seq(TokenRows)
<1>1. tokens \in Seq(TokenRows)
  BY DEF Typed, RowsTyped
<1>2. CASE \E r \in Calls : Mint(r)
  <2>1. PICK r \in Calls : Mint(r)
    BY <1>2
  <2>2. [user |-> op[r].user, code |-> op[r].code, overlapped |-> r \in behind, revoked |-> FALSE] \in TokenRows
    BY <2>1, Kinds DEF Mint, Under, Resting, TokenRows
  <2> QED
    BY <1>1, <2>1, <2>2, OneMore DEF Mint
<1>3. CASE \E e \in Emails : CreateToken(e)
  <2>1. PICK e \in Emails : CreateToken(e)
    BY <1>3
  <2>2. [user |-> e, code |-> Own, overlapped |-> FALSE, revoked |-> FALSE] \in TokenRows
    BY DEF TokenRows
  <2> QED
    BY <1>1, <2>1, <2>2, OneMore DEF CreateToken
<1>4. CASE \E t \in DOMAIN tokens : RevokeToken(t)
  <2>1. PICK t \in DOMAIN tokens : RevokeToken(t)
    BY <1>4
  <2>2. tokens[t] \in TokenRows
    BY <1>1
  <2>3. [tokens[t] EXCEPT !.revoked = TRUE] \in TokenRows
    BY <2>2 DEF TokenRows
  <2> QED
    BY <1>1, <2>1, <2>3, OneChanged DEF RevokeToken
<1>5. \A t \in DOMAIN tokens, b \in BOOLEAN : [tokens[t] EXCEPT !.overlapped = b] \in TokenRows
  <2> SUFFICES ASSUME NEW t \in DOMAIN tokens, NEW b \in BOOLEAN
               PROVE  [tokens[t] EXCEPT !.overlapped = b] \in TokenRows
    OBVIOUS
  <2>1. tokens[t] \in TokenRows
    BY <1>1
  <2> QED
    BY <2>1 DEF TokenRows
<1>b. \A t \in DOMAIN tokens : tokens[t].overlapped \in BOOLEAN
  <2> SUFFICES ASSUME NEW t \in DOMAIN tokens PROVE tokens[t].overlapped \in BOOLEAN
    OBVIOUS
  <2>1. tokens[t] \in TokenRows
    BY <1>1
  <2> QED
    BY <2>1 DEF TokenRows
<1>6. CASE \E r \in Calls : ForgetFails(r)
  <2>1. PICK r \in Calls : ForgetFails(r)
    BY <1>6
  <2>2. tokens' = [t \in DOMAIN tokens |->
                     [tokens[t] EXCEPT !.overlapped = tokens[t].overlapped \/ tokens[t].code = op[r].code]]
    BY <2>1 DEF ForgetFails, Doubtful
  <2>3. \A t \in DOMAIN tokens : tokens'[t] \in TokenRows
    BY <2>2, <1>5, <1>b
  <2> QED
    BY <1>1, <2>2, <2>3, AllChanged
<1>7. CASE ServerStops
  <2>2. tokens' = [t \in DOMAIN tokens |->
                     [tokens[t] EXCEPT !.overlapped = tokens[t].overlapped
                        \/ \E r \in Calls : Under(r, "forget") /\ op[r].code = tokens[t].code]]
    BY <1>7 DEF ServerStops
  <2>3. \A t \in DOMAIN tokens : tokens'[t] \in TokenRows
    BY <2>2, <1>5, <1>b
  <2> QED
    BY <1>1, <2>2, <2>3, AllChanged
<1>8. CASE UNCHANGED tokens
  BY <1>1, <1>8
<1>9. CASE \E r \in Calls : RequestStep(r)
  BY <1>2, <1>6, <1>8, <1>9 DEF RequestStep, LoginRead, LoginSession, LoginFails, OAuthRead, OAuthWrite,
     PollRead, Forget, SetAdminRead, SetAdminWrite
<1> QED
  BY <1>3, <1>4, <1>7, <1>8, <1>9 DEF AccountNext, AccountStep, accountVars, Register, ForgotPassword,
     ResendVerification, WindowEnds, ApproveDevice, DeleteSession, Expire, VerifyEmail, ResetPassword,
     DeviceCode, CodeExpires

LEMMA FailuresTyped ==
  ASSUME Typed, [AccountNext]_accountVars
  PROVE  failures' \in [Emails -> Nat]
<1>1. failures \in [Emails -> Nat]
  BY DEF Typed, RowsTyped
<1>2. CASE UNCHANGED failures
  BY <1>1, <1>2
<1>3. CASE ServerStops \/ \E e \in Emails : WindowEnds(e)
  BY <1>1, <1>3 DEF ServerStops, WindowEnds, NoFailures
<1>4. CASE \E r \in Calls : LoginSession(r) \/ LoginFails(r)
  BY <1>1, <1>4, Kinds DEF LoginSession, LoginFails, Under, Resting
<1>5. CASE \E r \in Calls : RequestStep(r)
  BY <1>2, <1>4, <1>5 DEF RequestStep, LoginRead, OAuthRead, OAuthWrite, PollRead, Mint, Forget,
     ForgetFails, SetAdminRead, SetAdminWrite
<1> QED
  BY <1>2, <1>3, <1>5 DEF AccountNext, AccountStep, accountVars, Register, ForgotPassword,
     ResendVerification, CreateToken, ApproveDevice, DeleteSession, Expire, VerifyEmail, ResetPassword,
     DeviceCode, CodeExpires, RevokeToken

LEMMA UsersTyped ==
  ASSUME Typed, [AccountNext]_accountVars
  PROVE  users' \in [Emails -> UserRows]
<1>1. users \in [Emails -> UserRows]
  BY DEF Typed, RowsTyped
<1>2. \A e \in Emails, p \in 0..2, v, a \in BOOLEAN :
        [users EXCEPT ![e] = [pw |-> p, verified |-> v, admin |-> a]] \in [Emails -> UserRows]
  BY <1>1 DEF UserRows
<1>3. CASE \E e \in Emails, p \in Passwords : Register(e, p)
  <2>1. PICK e \in Emails, p \in Passwords : Register(e, p)
    BY <1>3
  <2>2. p \in 0..2
    BY DEF Passwords
  <2>3. users' = [users EXCEPT ![e] = [pw |-> p, verified |-> FALSE, admin |-> FALSE]]
    BY <2>1 DEF Register
  <2> QED
    BY <1>2, <2>2, <2>3
<1>4. CASE \E i \in DOMAIN mails : VerifyEmail(i)
  <2>1. PICK i \in DOMAIN mails : VerifyEmail(i)
    BY <1>4
  <2>2. mails[i].user \in Emails
    BY LinkUsers
  <2>3. users' = [users EXCEPT ![mails[i].user].verified = TRUE]
    BY <2>1 DEF VerifyEmail
  <2> QED
    BY <1>1, <2>2, <2>3 DEF UserRows
<1>5. CASE \E i \in DOMAIN mails, p \in Passwords : ResetPassword(i, p)
  <2>1. PICK i \in DOMAIN mails, p \in Passwords : ResetPassword(i, p)
    BY <1>5
  <2>2. mails[i].user \in Emails /\ p \in 0..2
    BY LinkUsers DEF Passwords
  <2>3. users' = [users EXCEPT ![mails[i].user].pw = p]
    BY <2>1 DEF ResetPassword
  <2> QED
    BY <1>1, <2>2, <2>3 DEF UserRows
<1>6. CASE \E r \in Calls : OAuthWrite(r)
  <2>1. PICK r \in Calls : OAuthWrite(r)
    BY <1>6
  <2>2. op[r].user \in Emails
    BY <2>1, OAuthKinds, Parts
  <2>3. AfterLink(op[r].user) \in [Emails -> UserRows]
    BY <1>1, <2>2 DEF AfterLink, UserRows
  <2>4. [users EXCEPT ![op[r].user] = [pw |-> 0, verified |-> TRUE, admin |-> FALSE]] \in [Emails -> UserRows]
    BY <1>1, <2>2 DEF UserRows
  <2> QED
    BY <1>1, <2>1, <2>3, <2>4, OAuthKinds
<1>7. CASE \E r \in Calls : SetAdminWrite(r)
  <2>1. PICK r \in Calls : SetAdminWrite(r)
    BY <1>7
  <2>2. op[r].flag \in BOOLEAN /\ op[r].user \in Emails
    BY <2>1, Parts DEF SetAdminWrite, Under
  <2>3. users' = [users EXCEPT ![op[r].user].admin = op[r].flag]
    BY <2>1 DEF SetAdminWrite
  <2> QED
    BY <1>1, <2>2, <2>3 DEF UserRows
<1>8. CASE UNCHANGED users
  BY <1>1, <1>8
<1>9. CASE \E r \in Calls : RequestStep(r)
  BY <1>6, <1>7, <1>8, <1>9 DEF RequestStep, LoginRead, LoginSession, LoginFails, OAuthRead, PollRead,
     Mint, Forget, ForgetFails, SetAdminRead
<1> QED
  BY <1>3, <1>4, <1>5, <1>8, <1>9 DEF AccountNext, AccountStep, accountVars, ForgotPassword,
     ResendVerification, WindowEnds, CreateToken, ApproveDevice, DeleteSession, Expire,
     DeviceCode, CodeExpires, RevokeToken, ServerStops

LEMMA SessionsTyped ==
  ASSUME Typed, [AccountNext]_accountVars
  PROVE  sessions' \subseteq Sessions
<1>1. sessions \subseteq Sessions
  BY DEF Typed, RowsTyped
<1>2. \A e \in Emails, p \in 0..2, late \in BOOLEAN : NewSession(e, p, late) => sessions' \subseteq Sessions
  BY <1>1 DEF NewSession, Sessions
<1>3. CASE \E e \in Emails, p \in Passwords : Register(e, p)
  <2>1. PICK e \in Emails, p \in Passwords : Register(e, p)
    BY <1>3
  <2>2. p \in 0..2
    BY DEF Passwords
  <2>3. NewSession(e, p, FALSE)
    BY <2>1 DEF Register
  <2> QED
    BY <1>2, <2>2, <2>3
<1>4. CASE \E r \in Calls : LoginSession(r)
  <2>1. PICK r \in Calls : LoginSession(r)
    BY <1>4
  <2>2. op[r].pw \in 0..2 /\ op[r].user \in Emails
    BY <2>1, Parts DEF LoginSession, Under
  <2>3. [user |-> op[r].user, under |-> op[r].pw, late |-> r \in behind] \in Sessions
    BY <2>2 DEF Sessions
  <2> QED
    BY <1>1, <2>1, <2>3 DEF LoginSession, NewSession
<1>5. CASE \E r \in Calls : OAuthWrite(r)
  <2>1. PICK r \in Calls : OAuthWrite(r)
    BY <1>5
  <2>2. op[r].user \in Emails
    BY <2>1, OAuthKinds, Parts
  <2>3. NewSession(op[r].user, 0, FALSE) \/ sessions' = sessions
    BY <2>1, OAuthKinds
  <2>4. sessions' \in {sessions, sessions \cup {[user |-> op[r].user, under |-> 0, late |-> FALSE]}}
    BY <2>3 DEF NewSession
  <2>5. [user |-> op[r].user, under |-> 0, late |-> FALSE] \in Sessions
    BY <2>2 DEF Sessions
  <2> QED
    BY <1>1, <2>4, <2>5
<1>6. CASE sessions' \subseteq sessions
  BY <1>1, <1>6
<1>7. CASE \E r \in Calls : RequestStep(r)
  BY <1>4, <1>5, <1>6, <1>7 DEF RequestStep, LoginRead, LoginFails, OAuthRead, PollRead,
     Mint, Forget, ForgetFails, SetAdminRead, SetAdminWrite
<1> QED
  BY <1>3, <1>6, <1>7 DEF AccountNext, AccountStep, accountVars, ForgotPassword, ResendVerification,
     WindowEnds, CreateToken, ApproveDevice, DeleteSession, Expire, VerifyEmail, ResetPassword,
     SessionsAfterReset, DeviceCode, CodeExpires, RevokeToken, ServerStops

LEMMA IdentsTyped ==
  ASSUME Typed, [AccountNext]_accountVars
  PROVE  idents' \in [Identities -> Emails \cup {"none"}]
<1>1. idents \in [Identities -> Emails \cup {"none"}]
  BY DEF Typed, RowsTyped
<1>2. CASE \E r \in Calls : OAuthWrite(r)
  <2>1. PICK r \in Calls : OAuthWrite(r)
    BY <1>2
  <2>2. op[r].user \in Emails /\ op[r].ident \in Identities
    BY <2>1, OAuthKinds, Parts
  <2> QED
    BY <1>1, <2>1, <2>2 DEF OAuthWrite
<1>3. CASE UNCHANGED idents
  BY <1>1, <1>3
<1>4. CASE \E r \in Calls : RequestStep(r)
  BY <1>2, <1>3, <1>4 DEF RequestStep, LoginRead, LoginSession, LoginFails, OAuthRead, PollRead,
     Mint, Forget, ForgetFails, SetAdminRead, SetAdminWrite
<1> QED
  BY <1>3, <1>4 DEF AccountNext, AccountStep, accountVars, Register, ForgotPassword, ResendVerification,
     WindowEnds, CreateToken, ApproveDevice, DeleteSession, Expire, VerifyEmail, ResetPassword,
     DeviceCode, CodeExpires, RevokeToken, ServerStops

LEMMA TypedAtInit == AccountInit => Typed
<1> SUFFICES ASSUME AccountInit PROVE Typed
  OBVIOUS
<1>1. OpTyped
  BY DEF AccountInit, OpTyped, Requests
<1>2. users \in [Emails -> UserRows]
  BY DEF AccountInit, UserRows, NoUser
<1>3. codes \in [Codes -> CodeRows]
  BY AccountAssumption DEF AccountInit, CodeRows
<1>4. failures \in [Emails -> Nat]
  BY DEF AccountInit, NoFailures
<1> QED
  BY <1>1, <1>2, <1>3, <1>4 DEF AccountInit, Typed, RowsTyped

LEMMA TypedStep == Typed /\ [AccountNext]_accountVars => Typed'
BY OpStep, UsersTyped, SessionsTyped, MailsTyped, CodesTyped, TokensTyped, IdentsTyped, FailuresTyped
   DEF Typed, RowsTyped

-----------------------------------------------------------------------------
(* What the accounts keep. *)

Known ==
  /\ \A s \in sessions : Exists(s.user)
  /\ \A i \in DOMAIN mails : Exists(mails[i].user)
  /\ \A r \in Calls : op[r].do \in {"login", "known", "link", "admin"} => Exists(op[r].user)
  /\ IdentitiesSettled

Verified ==
  /\ ResetLocksOut
  /\ \A r \in Calls : Under(r, "login") /\ r \notin behind => users[op[r].user].pw = op[r].pw

(* The tokens that show a code minted more than once. *)
Fresh(c) == {t \in DOMAIN tokens : tokens[t].code = c /\ ~tokens[t].overlapped}

Alone(c) == \A r, q \in Polling(c) : r # q => r \in behind
NotYet(c) == \A r \in Polling(c) : Under(r, "mint") /\ r \notin behind => Fresh(c) = {}
ToForget(c) == Fresh(c) # {} /\ codes[c].state # "gone" => \E r \in Polling(c) : Under(r, "forget")
OneFresh(c) == \A t, u \in Fresh(c) : t = u
PairedFor(c) == Alone(c) /\ NotYet(c) /\ ToForget(c) /\ OneFresh(c)
Paired == \A c \in Codes : PairedFor(c)

BeingCharged(e) == {r \in Calls : Under(r, "fail") /\ op[r].user = e}
Charged == \A e \in Emails : failures[e] + Cardinality(BeingCharged(e)) < MaxFailures + Cardinality(Calls)

-----------------------------------------------------------------------------
(* Accounts stay. *)

(* What a step may do to the row of e: nothing; make an account, verified if
   it has no password; verify it; change its admin flag; set a password. *)
ExistsThen(e) == users'[e] # NoUser

Stays(e) ==
  /\ Exists(e) => ExistsThen(e) /\ (users[e].verified => users'[e].verified)
  /\ ExistsThen(e) /\ users'[e].pw = NoPassword => users'[e].verified

SamePassword(e) == Exists(e) => users'[e].pw = users[e].pw

LEMMA UsersStay ==
  ASSUME Typed, Known, [AccountNext]_accountVars
  PROVE  /\ \A e \in Emails : Stays(e)
         /\ (\A e \in Emails : SamePassword(e)) \/ \E i \in DOMAIN mails, p \in Passwords : ResetPassword(i, p)
<1>1. \A e \in Emails : Exists(e) /\ users[e].pw = 0 => users[e].verified
  BY DEF Known, IdentitiesSettled, NoPassword
<1>2. users \in [Emails -> UserRows]
  BY DEF Typed, RowsTyped
<1>a. \A e \in Emails : /\ users[e] = [pw |-> users[e].pw, verified |-> users[e].verified, admin |-> users[e].admin]
                        /\ users[e].pw \in 0..2 /\ users[e].verified \in BOOLEAN /\ users[e].admin \in BOOLEAN
  <2> SUFFICES ASSUME NEW e \in Emails
               PROVE  /\ users[e] = [pw |-> users[e].pw, verified |-> users[e].verified, admin |-> users[e].admin]
                      /\ users[e].pw \in 0..2 /\ users[e].verified \in BOOLEAN /\ users[e].admin \in BOOLEAN
    OBVIOUS
  <2>1. users[e] \in UserRows
    BY <1>2
  <2> QED
    BY <2>1 DEF UserRows
<1>3. CASE \E e \in Emails, p \in Passwords : Register(e, p)
  <2>1. PICK d \in Emails, p \in Passwords : Register(d, p)
    BY <1>3
  <2>2. ~Exists(d) /\ users' = [users EXCEPT ![d] = [pw |-> p, verified |-> FALSE, admin |-> FALSE]] /\ p # 0
    BY <2>1 DEF Register, Passwords
  <2> QED
    BY <1>1, <1>2, <1>a, <2>2 DEF Exists, ExistsThen, Stays, SamePassword, NoPassword, NoUser
<1>4. CASE \E i \in DOMAIN mails : VerifyEmail(i)
  <2>1. PICK i \in DOMAIN mails : VerifyEmail(i)
    BY <1>4
  <2>2. mails[i].user \in Emails /\ Exists(mails[i].user)
    BY LinkUsers DEF Known
  <2>3. users' = [users EXCEPT ![mails[i].user].verified = TRUE]
    BY <2>1 DEF VerifyEmail
  <2> QED
    BY <1>1, <1>2, <1>a, <2>2, <2>3 DEF Exists, ExistsThen, Stays, SamePassword, NoPassword, NoUser
<1>5. CASE \E i \in DOMAIN mails, p \in Passwords : ResetPassword(i, p)
  <2>1. PICK i \in DOMAIN mails, p \in Passwords : ResetPassword(i, p)
    BY <1>5
  <2>2. mails[i].user \in Emails /\ Exists(mails[i].user) /\ p # 0
    BY LinkUsers DEF Known, Passwords
  <2>3. users' = [users EXCEPT ![mails[i].user].pw = p]
    BY <2>1 DEF ResetPassword
  <2>4. \A e \in Emails : users'[e] = IF e = mails[i].user THEN [users[e] EXCEPT !.pw = p] ELSE users[e]
    BY <1>2, <2>3
  <2>5. \A e \in Emails : Stays(e)
    <3> SUFFICES ASSUME NEW e \in Emails PROVE Stays(e)
      OBVIOUS
    <3>1. CASE e # mails[i].user
      BY <1>1, <2>4, <3>1 DEF Exists, ExistsThen, Stays, NoPassword
    <3>2. CASE e = mails[i].user
      <4>1. users'[e].pw = p /\ users'[e].verified = users[e].verified
        BY <1>a, <2>4, <3>2
      <4> QED
        BY <2>2, <4>1 DEF Exists, ExistsThen, Stays, NoPassword, NoUser
    <3> QED
      BY <3>1, <3>2
  <2> QED
    BY <1>5, <2>5
<1>6. CASE \E r \in Calls : OAuthWrite(r)
  <2>1. PICK r \in Calls : OAuthWrite(r)
    BY <1>6
  <2>2. op[r].user \in Emails
    BY <2>1, OAuthKinds, Parts
  <2>3. CASE UNCHANGED users
    BY <1>1, <1>2, <1>a, <2>3 DEF Exists, ExistsThen, Stays, SamePassword, NoPassword, NoUser
  <2>4. CASE Exists(op[r].user) /\ users' = AfterLink(op[r].user)
    <3>1. users' = [users EXCEPT ![op[r].user].verified = TRUE]
      BY <2>4 DEF AfterLink
    <3> QED
      BY <1>1, <1>2, <1>a, <2>2, <2>4, <3>1 DEF Exists, ExistsThen, Stays, SamePassword, NoPassword, NoUser
  <2>5. CASE /\ ~Exists(op[r].user)
             /\ users' = [users EXCEPT ![op[r].user] = [pw |-> 0, verified |-> TRUE, admin |-> FALSE]]
    BY <1>1, <1>2, <1>a, <2>2, <2>5 DEF Exists, ExistsThen, Stays, SamePassword, NoPassword, NoUser
  <2>6. Under(r, "link") => Exists(op[r].user)
    BY DEF Known, Under
  <2> QED
    BY <2>1, <2>3, <2>4, <2>5, <2>6 DEF OAuthWrite, NoPassword
<1>7. CASE \E r \in Calls : SetAdminWrite(r)
  <2>1. PICK r \in Calls : SetAdminWrite(r)
    BY <1>7
  <2>2. op[r].flag \in BOOLEAN /\ op[r].user \in Emails /\ Exists(op[r].user)
    BY <2>1, Parts DEF SetAdminWrite, Under, Known
  <2>3. users' = [users EXCEPT ![op[r].user].admin = op[r].flag]
    BY <2>1 DEF SetAdminWrite
  <2>4. \A e \in Emails : /\ users'[e].pw = users[e].pw /\ users'[e].verified = users[e].verified
                          /\ e # op[r].user => users'[e] = users[e]
    BY <1>2, <1>a, <2>3
  <2>5. users[op[r].user].pw # 0 \/ users[op[r].user].verified
    BY <1>1, <2>2
  <2> QED
    BY <1>1, <1>a, <2>2, <2>4, <2>5 DEF Exists, ExistsThen, Stays, SamePassword, NoPassword, NoUser
<1>8. CASE UNCHANGED users
  BY <1>1, <1>2, <1>a, <1>8 DEF Exists, ExistsThen, Stays, SamePassword, NoPassword, NoUser
<1>9. CASE \E r \in Calls : RequestStep(r)
  BY <1>6, <1>7, <1>8, <1>9 DEF RequestStep, LoginRead, LoginSession, LoginFails, OAuthRead, PollRead,
     Mint, Forget, ForgetFails, SetAdminRead
<1> QED
  BY <1>3, <1>4, <1>5, <1>8, <1>9 DEF AccountNext, AccountStep, accountVars, ForgotPassword,
     ResendVerification, WindowEnds, CreateToken, ApproveDevice, DeleteSession, Expire,
     DeviceCode, CodeExpires, RevokeToken, ServerStops

LEMMA SessionsKnown ==
  ASSUME Typed, Known, [AccountNext]_accountVars, \A e \in Emails : Stays(e)
  PROVE  \A s \in sessions' : ExistsThen(s.user)
<1>1. \A s \in sessions : s.user \in Emails /\ Exists(s.user)
  BY DEF Typed, RowsTyped, Sessions, Known
<1>2. \A s \in sessions : ExistsThen(s.user)
  BY <1>1 DEF Stays
<1>t. users \in [Emails -> UserRows]
  BY DEF Typed, RowsTyped
<1>3. CASE \E e \in Emails, p \in Passwords : Register(e, p)
  <2>1. PICK e \in Emails, p \in Passwords : Register(e, p)
    BY <1>3
  <2>2. /\ sessions' = sessions \cup {[user |-> e, under |-> p, late |-> FALSE]}
        /\ users' = [users EXCEPT ![e] = [pw |-> p, verified |-> FALSE, admin |-> FALSE]]
        /\ p # 0
    BY <2>1 DEF Register, NewSession, Passwords
  <2>3. ExistsThen(e)
    BY <1>t, <2>2 DEF Exists, ExistsThen, NoUser
  <2> QED
    BY <1>2, <2>2, <2>3
<1>4. CASE \E r \in Calls : LoginSession(r)
  <2>1. PICK r \in Calls : LoginSession(r)
    BY <1>4
  <2>2. op[r].user \in Emails /\ Exists(op[r].user)
    BY <2>1, Parts DEF LoginSession, Under, Known
  <2>3. sessions' = sessions \cup {[user |-> op[r].user, under |-> op[r].pw, late |-> r \in behind]}
    BY <2>1 DEF LoginSession, NewSession
  <2>4. ExistsThen(op[r].user)
    BY <2>2 DEF Stays
  <2> QED
    BY <1>2, <2>3, <2>4
<1>5. CASE \E r \in Calls : OAuthWrite(r)
  <2>1. PICK r \in Calls : OAuthWrite(r)
    BY <1>5
  <2>2. op[r].user \in Emails
    BY <2>1, OAuthKinds, Parts
  <2>3. CASE sessions' = sessions
    BY <1>2, <2>3
  <2>4. CASE NewSession(op[r].user, 0, FALSE) /\ ExistsThen(op[r].user)
    BY <1>2, <2>4 DEF NewSession
  <2>5. CASE Exists(op[r].user) /\ NewSession(op[r].user, 0, FALSE)
    BY <2>2, <2>4, <2>5 DEF Stays
  <2>6. CASE users' = [users EXCEPT ![op[r].user] = [pw |-> NoPassword, verified |-> TRUE, admin |-> FALSE]]
             /\ NewSession(op[r].user, 0, FALSE)
    BY <1>t, <2>2, <2>4, <2>6 DEF Exists, ExistsThen, NoUser
  <2>7. Under(r, "known") \/ Under(r, "link") => Exists(op[r].user)
    BY DEF Known, Under
  <2> QED
    BY <2>1, <2>3, <2>5, <2>6, <2>7 DEF OAuthWrite
<1>6. CASE sessions' \subseteq sessions
  BY <1>2, <1>6
<1>7. CASE \E r \in Calls : RequestStep(r)
  BY <1>4, <1>5, <1>6, <1>7 DEF RequestStep, LoginRead, LoginFails, OAuthRead, PollRead,
     Mint, Forget, ForgetFails, SetAdminRead, SetAdminWrite
<1> QED
  BY <1>3, <1>6, <1>7 DEF AccountNext, AccountStep, accountVars, ForgotPassword, ResendVerification,
     WindowEnds, CreateToken, ApproveDevice, DeleteSession, Expire, VerifyEmail, ResetPassword,
     SessionsAfterReset, DeviceCode, CodeExpires, RevokeToken, ServerStops

LEMMA MailsKnown ==
  ASSUME Typed, Known, [AccountNext]_accountVars, \A e \in Emails : Stays(e)
  PROVE  \A i \in DOMAIN mails' : ExistsThen(mails'[i].user)
<1>t. users \in [Emails -> UserRows] /\ mails \in Seq(Links)
  BY DEF Typed, RowsTyped
<1>1. \A i \in DOMAIN mails : mails[i].user \in Emails /\ Exists(mails[i].user)
  BY LinkUsers DEF Known
<1>2. \A i \in DOMAIN mails : ExistsThen(mails[i].user)
  BY <1>1 DEF Stays
<1>3. \A kind, e : mails' = Mailed(mails, kind, e) /\ ExistsThen(e) => \A i \in DOMAIN mails' : ExistsThen(mails'[i].user)
  <2> SUFFICES ASSUME NEW kind, NEW e, mails' = Mailed(mails, kind, e), ExistsThen(e), NEW i \in DOMAIN mails'
               PROVE  ExistsThen(mails'[i].user)
    OBVIOUS
  <2>1. (i \in DOMAIN mails /\ mails'[i] = mails[i]) \/ mails'[i] = [kind |-> kind, user |-> e, state |-> "live"]
    BY <1>t DEF Mailed
  <2> QED
    BY <1>2, <2>1
<1>4. CASE \E e \in Emails, p \in Passwords : Register(e, p)
  <2>1. PICK e \in Emails, p \in Passwords : Register(e, p)
    BY <1>4
  <2>2. /\ mails' = Mailed(mails, "verify", e)
        /\ users' = [users EXCEPT ![e] = [pw |-> p, verified |-> FALSE, admin |-> FALSE]]
        /\ p # 0
    BY <2>1 DEF Register, Passwords
  <2>3. ExistsThen(e)
    BY <1>t, <2>2 DEF Exists, ExistsThen, NoUser
  <2> QED
    BY <1>3, <2>2, <2>3
<1>5. CASE \E e \in Emails : ForgotPassword(e) \/ ResendVerification(e)
  <2>1. PICK e \in Emails : ForgotPassword(e) \/ ResendVerification(e)
    BY <1>5
  <2>2. Exists(e)
    BY <2>1 DEF ForgotPassword, ResendVerification, SignedIn, Known
  <2>3. ExistsThen(e)
    BY <2>2 DEF Stays
  <2>4. \E kind \in {"reset", "verify"} : mails' = Mailed(mails, kind, e)
    BY <2>1 DEF ForgotPassword, ResendVerification
  <2> QED
    BY <1>3, <2>3, <2>4
<1>6. CASE \E i \in DOMAIN mails : Expire(i) \/ VerifyEmail(i) \/ \E p \in Passwords : ResetPassword(i, p)
  <2>1. PICK i \in DOMAIN mails, s \in {"used", "expired"} : mails' = [mails EXCEPT ![i].state = s]
    BY <1>6 DEF Expire, VerifyEmail, ResetPassword, Claimed
  <2>2. \A k \in DOMAIN mails' : k \in DOMAIN mails /\ mails'[k].user = mails[k].user
    <3> SUFFICES ASSUME NEW k \in DOMAIN mails' PROVE k \in DOMAIN mails /\ mails'[k].user = mails[k].user
      OBVIOUS
    <3>1. k \in DOMAIN mails /\ mails'[k] = IF k = i THEN [mails[k] EXCEPT !.state = s] ELSE mails[k]
      BY <1>t, <2>1
    <3>2. mails[k] \in Links
      BY <1>t, <3>1
    <3> QED
      BY <3>1, <3>2 DEF Links
  <2> QED
    BY <1>2, <2>2
<1>7. CASE UNCHANGED mails
  BY <1>2, <1>7
<1>8. CASE \E r \in Calls : RequestStep(r)
  BY <1>7, <1>8 DEF RequestStep, LoginRead, LoginSession, LoginFails, OAuthRead, OAuthWrite, PollRead,
     Mint, Forget, ForgetFails, SetAdminRead, SetAdminWrite
<1> QED
  BY <1>4, <1>5, <1>6, <1>7, <1>8 DEF AccountNext, AccountStep, accountVars, WindowEnds, CreateToken, ApproveDevice,
     DeleteSession, DeviceCode, CodeExpires, RevokeToken, ServerStops

(* A request's record stays, is cleared, or is what one of its reads began. *)
LEMMA OpMoves ==
  ASSUME Typed, [AccountNext]_accountVars, NEW q \in Calls
  PROVE  \/ op'[q] \in {op[q], Resting}
         \/ Mint(q)
         \/ \E e \in Emails, p \in Passwords : LoginRead(q, e, p)
         \/ \E i \in Identities, e \in Emails : OAuthRead(q, i, e)
         \/ \E c \in Codes : PollRead(q, c)
         \/ \E who, target \in Emails, flag \in BOOLEAN : SetAdminRead(q, who, target, flag)
<1>1. op \in [Calls -> Requests]
  BY DEF Typed, OpTyped
<1>2. CASE UNCHANGED op
  BY <1>2
<1>3. CASE ServerStops
  BY <1>3 DEF ServerStops
<1>4. CASE \E r \in Calls : RequestStep(r)
  <2>1. PICK r \in Calls : RequestStep(r)
    BY <1>4
  <2>2. CASE q = r
    <3>1. CASE LoginSession(q) \/ LoginFails(q) \/ OAuthWrite(q) \/ Forget(q) \/ ForgetFails(q) \/ SetAdminWrite(q)
      BY <1>1, <3>1 DEF LoginSession, LoginFails, OAuthWrite, Forget, ForgetFails, SetAdminWrite, End
    <3> QED
      BY <2>1, <2>2, <3>1 DEF RequestStep
  <2>3. CASE q # r
    <3>1. \E rec : op' = [op EXCEPT ![r] = rec]
      BY <2>1 DEF RequestStep, LoginRead, LoginSession, LoginFails, OAuthRead, OAuthWrite, PollRead,
         Mint, Forget, ForgetFails, SetAdminRead, SetAdminWrite, Begin, End
    <3> QED
      BY <1>1, <2>3, <3>1
  <2> QED
    BY <2>2, <2>3
<1>5. CASE AccountStep /\ ~ServerStops
  BY <1>2, <1>5 DEF AccountStep, Register, ForgotPassword, ResendVerification, WindowEnds, CreateToken,
     ApproveDevice, DeleteSession, Expire, VerifyEmail, ResetPassword, DeviceCode, CodeExpires, RevokeToken
<1> QED
  BY <1>2, <1>3, <1>4, <1>5 DEF AccountNext, accountVars

LEMMA OpsKnown ==
  ASSUME Typed, Known, [AccountNext]_accountVars, \A e \in Emails : Stays(e),
         NEW q \in Calls, op'[q].do \in {"login", "known", "link", "admin"}
  PROVE  ExistsThen(op'[q].user)
<1>1. op \in [Calls -> Requests]
  BY DEF Typed, OpTyped
<1>2. CASE op'[q] = op[q]
  <2>1. op[q].user \in Emails /\ Exists(op[q].user)
    BY <1>2, Parts DEF Known
  <2> QED
    BY <1>2, <2>1 DEF Stays
<1>3. CASE op'[q] = Resting
  BY <1>3 DEF Resting
<1>4. CASE Mint(q)
  <2>1. op[q] \in [do : {"mint", "forget"}, code : Codes, user : Emails]
    BY <1>1, <1>4 DEF Mint, Under, Requests, Resting
  <2>2. op'[q] = [op[q] EXCEPT !.do = "forget"]
    BY <1>1, <1>4 DEF Mint
  <2> QED
    BY <2>1, <2>2
<1>5. CASE \E e \in Emails, p \in Passwords : LoginRead(q, e, p)
  <2>1. PICK e \in Emails, p \in Passwords : LoginRead(q, e, p)
    BY <1>5
  <2>2. UNCHANGED users
    BY <2>1 DEF LoginRead
  <2>3. CASE Exists(e) /\ Begin(q, [do |-> "login", user |-> e, pw |-> p])
    BY <1>1, <2>2, <2>3 DEF Begin, Exists, ExistsThen
  <2>4. CASE Begin(q, [do |-> "fail", user |-> e])
    BY <1>1, <2>4 DEF Begin
  <2> QED
    BY <2>1, <2>3, <2>4 DEF LoginRead
<1>6. CASE \E i \in Identities, e \in Emails : OAuthRead(q, i, e)
  <2>1. PICK i \in Identities, e \in Emails : OAuthRead(q, i, e)
    BY <1>6
  <2>2. UNCHANGED users
    BY <2>1 DEF OAuthRead
  <2>3. CASE idents[i] # "none" /\ Begin(q, [do |-> "known", user |-> idents[i], ident |-> i])
    <3>1. Exists(idents[i])
      BY <2>3 DEF Known, IdentitiesSettled
    <3> QED
      BY <1>1, <2>2, <2>3, <3>1 DEF Begin, Exists, ExistsThen
  <2>4. CASE Begin(q, [do |-> IF Exists(e) THEN "link" ELSE "create", user |-> e, ident |-> i])
    BY <1>1, <2>2, <2>4 DEF Begin, Exists, ExistsThen
  <2> QED
    BY <2>1, <2>3, <2>4 DEF OAuthRead
<1>7. CASE \E c \in Codes : PollRead(q, c)
  BY <1>1, <1>7 DEF PollRead, Begin
<1>8. CASE \E who, target \in Emails, flag \in BOOLEAN : SetAdminRead(q, who, target, flag)
  <2>1. PICK who \in Emails, target \in Emails, flag \in BOOLEAN : SetAdminRead(q, who, target, flag)
    BY <1>8
  <2> QED
    BY <1>1, <2>1 DEF SetAdminRead, MaySetAdmin, Begin, Exists, ExistsThen
<1> QED
  BY <1>2, <1>3, <1>4, <1>5, <1>6, <1>7, <1>8, OpMoves

LEMMA IdentitiesStep ==
  ASSUME Typed, Known, [AccountNext]_accountVars, \A e \in Emails : Stays(e)
  PROVE  IdentitiesSettled'
<1>1. idents \in [Identities -> Emails \cup {"none"}] /\ users \in [Emails -> UserRows]
  BY DEF Typed, RowsTyped
<1>2. \A e \in Emails : Exists(e)' /\ users'[e].pw = NoPassword => users'[e].verified
  BY DEF Stays, Exists, ExistsThen
<1>3. \A i \in Identities : idents[i] # "none" => ExistsThen(idents[i]) /\ users'[idents[i]].verified
  BY <1>1 DEF Known, IdentitiesSettled, Stays
<1>4. \A i \in Identities : idents'[i] # "none" => ExistsThen(idents'[i]) /\ users'[idents'[i]].verified
  <2>1. CASE UNCHANGED idents
    BY <1>3, <2>1
  <2>2. CASE \E r \in Calls : OAuthWrite(r)
    <3>1. PICK r \in Calls : OAuthWrite(r)
      BY <2>2
    <3>2. op[r].user \in Emails /\ op[r].ident \in Identities
      BY <3>1, OAuthKinds, Parts
    <3>3. CASE UNCHANGED idents
      BY <1>3, <3>3
    <3>4. CASE /\ \A i \in Identities : idents'[i] \in {idents[i], op[r].user}
               /\ ExistsThen(op[r].user) /\ users'[op[r].user].verified
      BY <1>3, <3>4
    <3>5. CASE /\ Under(r, "link")
               /\ idents' = [idents EXCEPT ![op[r].ident] =
                               IF idents[op[r].ident] = "none" THEN op[r].user ELSE idents[op[r].ident]]
               /\ users' = AfterLink(op[r].user)
      <4>1. Exists(op[r].user)
        BY <3>5 DEF Known, Under
      <4>2. ExistsThen(op[r].user)
        BY <3>2, <4>1 DEF Stays
      <4>3. users'[op[r].user] = [users[op[r].user] EXCEPT !.verified = TRUE] /\ users[op[r].user] \in UserRows
        BY <1>1, <3>2, <3>5 DEF AfterLink
      <4>4. users'[op[r].user].verified
        BY <4>3 DEF UserRows
      <4> QED
        BY <1>1, <3>4, <3>5, <4>2, <4>4
    <3>6. CASE /\ idents' = [idents EXCEPT ![op[r].ident] = op[r].user]
               /\ users' = [users EXCEPT ![op[r].user] = [pw |-> NoPassword, verified |-> TRUE, admin |-> FALSE]]
      BY <1>1, <3>2, <3>4, <3>6 DEF ExistsThen, NoUser
    <3> QED
      BY <3>1, <3>3, <3>5, <3>6 DEF OAuthWrite
  <2>3. CASE \E r \in Calls : RequestStep(r)
    BY <2>1, <2>2, <2>3 DEF RequestStep, LoginRead, LoginSession, LoginFails, OAuthRead, PollRead,
       Mint, Forget, ForgetFails, SetAdminRead, SetAdminWrite
  <2> QED
    BY <2>1, <2>3 DEF AccountNext, AccountStep, accountVars, Register, ForgotPassword, ResendVerification,
       WindowEnds, CreateToken, ApproveDevice, DeleteSession, Expire, VerifyEmail, ResetPassword,
       DeviceCode, CodeExpires, RevokeToken, ServerStops
<1> QED
  BY <1>2, <1>4 DEF IdentitiesSettled, Exists, ExistsThen

LEMMA KnownStep == Typed /\ Known /\ [AccountNext]_accountVars => Known'
<1> SUFFICES ASSUME Typed, Known, [AccountNext]_accountVars PROVE Known'
  OBVIOUS
<1>1. \A e \in Emails : Stays(e)
  BY UsersStay
<1>2. /\ \A s \in sessions' : ExistsThen(s.user)
      /\ \A i \in DOMAIN mails' : ExistsThen(mails'[i].user)
      /\ \A r \in Calls : op'[r].do \in {"login", "known", "link", "admin"} => ExistsThen(op'[r].user)
      /\ IdentitiesSettled'
  BY <1>1, SessionsKnown, MailsKnown, OpsKnown, IdentitiesStep
<1> QED
  BY <1>2 DEF Known, Exists, ExistsThen

-----------------------------------------------------------------------------
(* A reset locks the old password out. *)

(* What a request's reads no longer hold is forgotten with the request. *)
LEMMA BehindStays ==
  ASSUME Typed, [AccountNext]_accountVars, NEW q \in Calls, q \in behind, q \notin behind'
  PROVE  op'[q] = Resting
<1>1. op \in [Calls -> Requests]
  BY DEF Typed, OpTyped
<1>2. CASE ServerStops
  BY <1>2 DEF ServerStops
<1>3. CASE \E r \in Calls : RequestStep(r)
  <2>1. PICK r \in Calls : RequestStep(r)
    BY <1>3
  <2>2. CASE End(r)
    BY <1>1, <2>2 DEF End
  <2>3. behind \subseteq behind' \/ End(r)
    BY <2>1 DEF RequestStep, LoginRead, LoginSession, LoginFails, OAuthRead, OAuthWrite, PollRead,
       Mint, Forget, ForgetFails, SetAdminRead, SetAdminWrite
  <2> QED
    BY <2>2, <2>3
<1>4. CASE AccountStep /\ ~ServerStops
  BY <1>4 DEF AccountStep, Register, ForgotPassword, ResendVerification, WindowEnds, CreateToken,
     ApproveDevice, DeleteSession, Expire, VerifyEmail, ResetPassword, DeviceCode, CodeExpires, RevokeToken
<1> QED
  BY <1>2, <1>3, <1>4 DEF AccountNext, accountVars

LEMMA VerifiedStep == Typed /\ Known /\ Verified /\ [AccountNext]_accountVars => Verified'
<1> SUFFICES ASSUME Typed, Known, Verified, [AccountNext]_accountVars PROVE Verified'
  OBVIOUS
<1>t. users \in [Emails -> UserRows] /\ op \in [Calls -> Requests]
  BY DEF Typed, OpTyped, RowsTyped
<1>1. \A s \in sessions : s.user \in Emails /\ Exists(s.user) /\ (s.under \in {0, users[s.user].pw} \/ s.late)
  BY DEF Typed, RowsTyped, Sessions, Known, Verified, ResetLocksOut
<1>2. \A r \in Calls : op[r].do = "login" => op[r].user \in Emails /\ Exists(op[r].user)
  BY Parts DEF Known
<1>3. \A r \in Calls : op[r].do = "login" /\ r \notin behind => users[op[r].user].pw = op[r].pw
  BY DEF Verified, Under
<1>4. CASE \E i \in DOMAIN mails, p \in Passwords : ResetPassword(i, p)
  <2>1. PICK i \in DOMAIN mails, p \in Passwords : ResetPassword(i, p)
    BY <1>4
  <2>2. \A e \in Emails : e # mails[i].user => users'[e] = users[e]
    BY <1>t, <2>1 DEF ResetPassword
  <2>3. \A s \in sessions' : s.under \in {0, users'[s.user].pw} \/ s.late
    BY <1>1, <2>1, <2>2 DEF ResetPassword, SessionsAfterReset
  <2>4. \A r \in Calls : op'[r].do = "login" /\ r \notin behind' => users'[op'[r].user].pw = op'[r].pw
    <3> SUFFICES ASSUME NEW r \in Calls, op'[r].do = "login", r \notin behind'
                 PROVE  users'[op'[r].user].pw = op'[r].pw
      OBVIOUS
    <3>1. op' = op /\ r \notin behind /\ op[r].user # mails[i].user
      BY <2>1 DEF ResetPassword, Under
    <3> QED
      BY <1>2, <1>3, <2>2, <3>1
  <2> QED
    BY <2>3, <2>4 DEF Verified, ResetLocksOut, Under
<1>5. CASE \A e \in Emails : SamePassword(e)
  <2>1. \A s \in sessions : s.under \in {0, users'[s.user].pw} \/ s.late
    BY <1>1, <1>5 DEF SamePassword
  <2>2. \A s \in sessions' : s.under \in {0, users'[s.user].pw} \/ s.late
    <3>1. CASE sessions' \subseteq sessions
      BY <2>1, <3>1
    <3>2. CASE \E e \in Emails, p \in Passwords : Register(e, p)
      <4>1. PICK e \in Emails, p \in Passwords : Register(e, p)
        BY <3>2
      <4>2. /\ sessions' = sessions \cup {[user |-> e, under |-> p, late |-> FALSE]}
            /\ users'[e].pw = p
        BY <1>t, <4>1 DEF Register, NewSession
      <4> QED
        BY <2>1, <4>2
    <3>3. CASE \E r \in Calls : LoginSession(r)
      <4>1. PICK r \in Calls : LoginSession(r)
        BY <3>3
      <4>2. op[r].do = "login" /\ users' = users
            /\ sessions' = sessions \cup {[user |-> op[r].user, under |-> op[r].pw, late |-> r \in behind]}
        BY <4>1 DEF LoginSession, NewSession, Under
      <4>3. CASE r \in behind
        <5>1. \A s \in sessions' : s \in sessions \/ s = [user |-> op[r].user, under |-> op[r].pw, late |-> TRUE]
          BY <4>2, <4>3
        <5> QED
          BY <2>1, <5>1
      <4>4. CASE r \notin behind
        <5>1. users[op[r].user].pw = op[r].pw
          BY <1>3, <4>2, <4>4
        <5> QED
          BY <2>1, <4>2, <5>1
      <4> QED
        BY <4>3, <4>4
    <3>4. CASE \E r \in Calls : OAuthWrite(r)
      <4>1. PICK r \in Calls : OAuthWrite(r)
        BY <3>4
      <4>2. sessions' \in {sessions, sessions \cup {[user |-> op[r].user, under |-> 0, late |-> FALSE]}}
        BY <4>1, OAuthKinds DEF NewSession
      <4> QED
        BY <2>1, <4>2
    <3>5. CASE \E r \in Calls : RequestStep(r)
      BY <3>1, <3>3, <3>4, <3>5 DEF RequestStep, LoginRead, LoginFails, OAuthRead, PollRead,
         Mint, Forget, ForgetFails, SetAdminRead, SetAdminWrite
    <3> QED
      BY <3>1, <3>2, <3>5 DEF AccountNext, AccountStep, accountVars, ForgotPassword, ResendVerification,
         WindowEnds, CreateToken, ApproveDevice, DeleteSession, Expire, VerifyEmail, ResetPassword,
         SessionsAfterReset, DeviceCode, CodeExpires, RevokeToken, ServerStops
  <2>3. \A r \in Calls : op'[r].do = "login" /\ r \notin behind' => users'[op'[r].user].pw = op'[r].pw
    <3> SUFFICES ASSUME NEW r \in Calls, op'[r].do = "login", r \notin behind'
                 PROVE  users'[op'[r].user].pw = op'[r].pw
      OBVIOUS
    <3>1. op'[r] # Resting
      BY DEF Resting
    <3>2. CASE op'[r] = op[r]
      <4>1. r \notin behind
        BY <3>1, BehindStays
      <4> QED
        BY <1>2, <1>3, <1>5, <3>2, <4>1 DEF SamePassword
    <3>3. CASE Mint(r)
      <4>1. op[r] \in [do : {"mint", "forget"}, code : Codes, user : Emails]
        BY <1>t, <3>3 DEF Mint, Under, Requests, Resting
      <4>2. op'[r] = [op[r] EXCEPT !.do = "forget"]
        BY <1>t, <3>3 DEF Mint
      <4> QED
        BY <4>1, <4>2
    <3>4. CASE \E e \in Emails, p \in Passwords : LoginRead(r, e, p)
      <4>1. PICK e \in Emails, p \in Passwords : LoginRead(r, e, p)
        BY <3>4
      <4>2. CASE users[e].pw = p /\ Begin(r, [do |-> "login", user |-> e, pw |-> p])
        BY <1>t, <4>1, <4>2 DEF Begin, LoginRead
      <4>3. CASE Begin(r, [do |-> "fail", user |-> e])
        BY <1>t, <4>3 DEF Begin
      <4> QED
        BY <4>1, <4>2, <4>3 DEF LoginRead
    <3>5. CASE \E i \in Identities, e \in Emails : OAuthRead(r, i, e)
      BY <1>t, <3>5 DEF OAuthRead, Begin
    <3>6. CASE \E c \in Codes : PollRead(r, c)
      BY <1>t, <3>6 DEF PollRead, Begin
    <3>7. CASE \E who, target \in Emails, flag \in BOOLEAN : SetAdminRead(r, who, target, flag)
      BY <1>t, <3>7 DEF SetAdminRead, Begin
    <3> QED
      BY <3>1, <3>2, <3>3, <3>4, <3>5, <3>6, <3>7, OpMoves
  <2> QED
    BY <2>2, <2>3 DEF Verified, ResetLocksOut, Under
<1> QED
  BY <1>4, <1>5, UsersStay

-----------------------------------------------------------------------------
(* One token per code. *)

LEMMA PollMoves ==
  ASSUME Typed, [AccountNext]_accountVars, NEW c \in Codes, NEW q \in Calls,
         op'[q].do \in {"mint", "forget"}, op'[q].code = c
  PROVE  \/ op'[q] = op[q]
         \/ Mint(q) /\ Under(q, "mint") /\ op[q].code = c /\ op'[q].do = "forget"
         \/ PollRead(q, c)
<1>1. op \in [Calls -> Requests]
  BY DEF Typed, OpTyped
<1>2. CASE op'[q] = Resting
  BY <1>2 DEF Resting
<1>3. CASE Mint(q)
  <2>1. op[q] \in [do : {"mint", "forget"}, code : Codes, user : Emails]
    BY <1>1, <1>3 DEF Mint, Under, Requests, Resting
  <2>2. op'[q] = [op[q] EXCEPT !.do = "forget"]
    BY <1>1, <1>3 DEF Mint
  <2>3. op'[q].do = "forget" /\ op'[q].code = op[q].code
    BY <2>1, <2>2
  <2> QED
    BY <1>3, <2>3 DEF Mint
<1>4. CASE \E e \in Emails, p \in Passwords : LoginRead(q, e, p)
  <2>1. PICK e \in Emails, p \in Passwords : \/ Begin(q, [do |-> "login", user |-> e, pw |-> p])
                                             \/ Begin(q, [do |-> "fail", user |-> e])
    BY <1>4 DEF LoginRead
  <2> QED
    BY <1>1, <2>1 DEF Begin
<1>5. CASE \E i \in Identities, e \in Emails : OAuthRead(q, i, e)
  BY <1>1, <1>5 DEF OAuthRead, Begin
<1>6. CASE \E d \in Codes : PollRead(q, d)
  <2>1. PICK d \in Codes : PollRead(q, d)
    BY <1>6
  <2>2. op'[q].code = d
    BY <1>1, <2>1 DEF PollRead, Begin
  <2> QED
    BY <2>1, <2>2
<1>7. CASE \E who, target \in Emails, flag \in BOOLEAN : SetAdminRead(q, who, target, flag)
  BY <1>1, <1>7 DEF SetAdminRead, Begin
<1> QED
  BY <1>2, <1>3, <1>4, <1>5, <1>6, <1>7, OpMoves

LEMMA GoneStays ==
  ASSUME Typed, [AccountNext]_accountVars, NEW c \in Codes, codes[c].state = "gone"
  PROVE  codes'[c].state = "gone"
<1>1. codes \in [Codes -> CodeRows]
  BY DEF Typed, RowsTyped
<1>2. CASE \E d \in Codes : DeviceCode(d) \/ CodeExpires(d) \/ \E e \in Emails, yes \in BOOLEAN : ApproveDevice(d, e, yes)
  <2>1. PICK d \in Codes : DeviceCode(d) \/ CodeExpires(d) \/ \E e \in Emails, yes \in BOOLEAN : ApproveDevice(d, e, yes)
    BY <1>2
  <2>2. d # c
    BY <2>1 DEF DeviceCode, CodeExpires, ApproveDevice
  <2> QED
    BY <1>1, <2>1, <2>2 DEF DeviceCode, CodeExpires, ApproveDevice
<1>3. CASE UNCHANGED codes
  BY <1>3
<1>4. CASE \E r \in Calls : Forget(r)
  <2>1. PICK r \in Calls : Forget(r)
    BY <1>4
  <2>2. codes' = [codes EXCEPT ![op[r].code].state = "gone"]
    BY <2>1 DEF Forget, CodesAfterPoll
  <2>3. codes'[c] = codes[c] \/ codes'[c] = [codes[c] EXCEPT !.state = "gone"]
    BY <1>1, <2>2
  <2>4. codes[c] \in CodeRows
    BY <1>1
  <2> QED
    BY <2>3, <2>4 DEF CodeRows
<1>5. CASE \E r \in Calls : RequestStep(r)
  BY <1>3, <1>4, <1>5 DEF RequestStep, LoginRead, LoginSession, LoginFails, OAuthRead, OAuthWrite, PollRead,
     Mint, ForgetFails, SetAdminRead, SetAdminWrite
<1> QED
  BY <1>2, <1>3, <1>5 DEF AccountNext, AccountStep, accountVars, Register, ForgotPassword,
     ResendVerification, WindowEnds, CreateToken, DeleteSession, Expire, VerifyEmail, ResetPassword,
     RevokeToken, ServerStops

(* Only a mint makes a token that shows its code minted. *)
LEMMA FreshStays ==
  ASSUME Typed, [AccountNext]_accountVars, NEW c \in Codes, ~\E r \in Calls : Mint(r)
  PROVE  Fresh(c)' \subseteq Fresh(c)
<1>1. tokens \in Seq(TokenRows)
  BY DEF Typed, RowsTyped
<1>2. \A t \in DOMAIN tokens : /\ tokens[t] = [user |-> tokens[t].user, code |-> tokens[t].code,
                                               overlapped |-> tokens[t].overlapped, revoked |-> tokens[t].revoked]
                               /\ tokens[t].overlapped \in BOOLEAN
  <2> SUFFICES ASSUME NEW t \in DOMAIN tokens
               PROVE  /\ tokens[t] = [user |-> tokens[t].user, code |-> tokens[t].code,
                                      overlapped |-> tokens[t].overlapped, revoked |-> tokens[t].revoked]
                      /\ tokens[t].overlapped \in BOOLEAN
    OBVIOUS
  <2>1. tokens[t] \in TokenRows
    BY <1>1
  <2> QED
    BY <2>1 DEF TokenRows
<1>3. CASE \E e \in Emails : CreateToken(e)
  <2>1. PICK e \in Emails : tokens' = Append(tokens, [user |-> e, code |-> Own, overlapped |-> FALSE, revoked |-> FALSE])
    BY <1>3 DEF CreateToken
  <2>2. c # Own
    BY AccountAssumption DEF Own
  <2>3. \A t \in DOMAIN tokens' : (t \in DOMAIN tokens /\ tokens'[t] = tokens[t]) \/ tokens'[t].code = Own
    BY <1>1, <2>1
  <2> QED
    BY <2>2, <2>3 DEF Fresh
<1>4. CASE \E t \in DOMAIN tokens : RevokeToken(t)
  <2>1. PICK t \in DOMAIN tokens : tokens' = [tokens EXCEPT ![t].revoked = TRUE]
    BY <1>4 DEF RevokeToken
  <2>2. \A u \in DOMAIN tokens' : u \in DOMAIN tokens /\ tokens'[u] \in {tokens[u], [tokens[u] EXCEPT !.revoked = TRUE]}
    BY <1>1, <2>1
  <2>3. \A u \in DOMAIN tokens' : tokens'[u].code = tokens[u].code /\ tokens'[u].overlapped = tokens[u].overlapped
    BY <1>2, <2>2
  <2> QED
    BY <2>2, <2>3 DEF Fresh
<1>6. CASE \E r \in Calls : ForgetFails(r)
  <2>1. PICK r \in Calls : ForgetFails(r)
    BY <1>6
  <2>2. \A t \in DOMAIN tokens' : /\ t \in DOMAIN tokens /\ tokens'[t].code = tokens[t].code
                                  /\ tokens'[t].overlapped = (tokens[t].overlapped \/ tokens[t].code = op[r].code)
    BY <1>2, <2>1 DEF ForgetFails, Doubtful
  <2> QED
    BY <1>2, <2>2 DEF Fresh
<1>7. CASE ServerStops
  <2>2. \A t \in DOMAIN tokens' : /\ t \in DOMAIN tokens /\ tokens'[t].code = tokens[t].code
                                  /\ tokens[t].overlapped => tokens'[t].overlapped
    BY <1>2, <1>7 DEF ServerStops
  <2> QED
    BY <1>2, <2>2 DEF Fresh
<1>8. CASE UNCHANGED tokens
  BY <1>8 DEF Fresh
<1>9. CASE \E r \in Calls : RequestStep(r)
  BY <1>6, <1>8, <1>9 DEF RequestStep, LoginRead, LoginSession, LoginFails, OAuthRead, OAuthWrite,
     PollRead, Forget, SetAdminRead, SetAdminWrite
<1> QED
  BY <1>3, <1>4, <1>7, <1>8, <1>9 DEF AccountNext, AccountStep, accountVars, Register, ForgotPassword,
     ResendVerification, WindowEnds, ApproveDevice, DeleteSession, Expire, VerifyEmail, ResetPassword,
     DeviceCode, CodeExpires

(* A step that no poll of c takes part in, but for the end of a poll that the
   code no longer needs, keeps what is claimed of c. *)
Quiet(c) ==
  /\ Fresh(c)' \subseteq Fresh(c)
  /\ \A q \in Polling(c)' : op'[q] = op[q]
  /\ Fresh(c)' # {} /\ codes'[c].state # "gone" => \A q \in Polling(c) : Under(q, "forget") => op'[q] = op[q]

LEMMA QuietKeeps ==
  ASSUME Typed, [AccountNext]_accountVars, NEW c \in Codes, PairedFor(c), Quiet(c)
  PROVE  PairedFor(c)'
<1>1. \A q \in Polling(c)' : q \in Calls /\ q \in Polling(c) /\ op'[q] = op[q] /\ op'[q] # Resting
  BY DEF Quiet, Polling, Resting
<1>2. \A q \in Polling(c)' : q \in behind => q \in behind'
  BY <1>1, BehindStays
<1>3. Alone(c)'
  BY <1>1, <1>2 DEF Alone, PairedFor
<1>4. NotYet(c)'
  <2> SUFFICES ASSUME NEW q \in Polling(c)', Under(q, "mint")', q \notin behind' PROVE Fresh(c)' = {}
    BY DEF NotYet
  <2>1. q \in Polling(c) /\ Under(q, "mint") /\ q \notin behind
    BY <1>1, <1>2 DEF Under
  <2> QED
    BY <2>1 DEF PairedFor, NotYet, Quiet
<1>5. ToForget(c)'
  <2> SUFFICES ASSUME Fresh(c)' # {}, codes'[c].state # "gone" PROVE \E q \in Polling(c)' : op'[q].do = "forget"
    BY DEF ToForget, Under
  <2>1. Fresh(c) # {} /\ codes[c].state # "gone"
    BY GoneStays DEF Quiet
  <2>2. PICK q \in Polling(c) : Under(q, "forget")
    BY <2>1 DEF PairedFor, ToForget
  <2>3. op'[q] = op[q]
    BY <2>2 DEF Quiet
  <2> QED
    BY <2>2, <2>3 DEF Polling, Under
<1>6. OneFresh(c)'
  BY DEF OneFresh, PairedFor, Quiet
<1> QED
  BY <1>3, <1>4, <1>5, <1>6 DEF PairedFor

LEMMA PollReadKeeps ==
  ASSUME Typed, [AccountNext]_accountVars, NEW c \in Codes, PairedFor(c), NEW r \in Calls, PollRead(r, c)
  PROVE  PairedFor(c)'
<1>1. op \in [Calls -> Requests]
  BY DEF Typed, OpTyped
<1>2. /\ op'[r].do = "mint" /\ op'[r].code = c /\ op[r] = Resting
      /\ \A q \in Calls : q # r => op'[q] = op[q]
      /\ codes[c].state = "approved" /\ codes' = codes /\ tokens' = tokens
  BY <1>1 DEF PollRead, Begin
<1>3. Polling(c)' = Polling(c) \cup {r} /\ r \notin Polling(c) /\ Polling(c) \subseteq Calls
  BY <1>2 DEF Polling, Resting
<1>4. Fresh(c)' = Fresh(c)
  BY <1>2 DEF Fresh
<1>5. CASE Polling(c) = {}
  <2>1. Fresh(c) = {}
    BY <1>2, <1>5 DEF PairedFor, ToForget
  <2> QED
    BY <1>3, <1>4, <1>5, <2>1 DEF PairedFor, Alone, NotYet, ToForget, OneFresh
<1>6. CASE Polling(c) # {}
  <2>1. behind' = behind \cup {r} \cup Polling(c)
    BY <1>6 DEF PollRead
  <2>2. Alone(c)' /\ NotYet(c)'
    BY <1>3, <2>1 DEF Alone, NotYet
  <2>3. ToForget(c)'
    BY <1>2, <1>3, <1>4 DEF ToForget, PairedFor, Under, Polling
  <2> QED
    BY <1>4, <2>2, <2>3 DEF PairedFor, OneFresh
<1> QED
  BY <1>5, <1>6

LEMMA MintKeeps ==
  ASSUME Typed, [AccountNext]_accountVars, NEW c \in Codes, PairedFor(c), NEW r \in Calls, Mint(r), op[r].code = c
  PROVE  PairedFor(c)'
<1>1. op \in [Calls -> Requests] /\ tokens \in Seq(TokenRows)
  BY DEF Typed, OpTyped, RowsTyped
<1>2. op[r] \in [do : {"mint", "forget"}, code : Codes, user : Emails]
  BY <1>1 DEF Mint, Under, Requests, Resting
<1>3. /\ op'[r].do = "forget" /\ op'[r].code = c /\ op[r].do = "mint"
      /\ \A q \in Calls : q # r => op'[q] = op[q]
      /\ codes' = codes /\ behind' = behind
  BY <1>1, <1>2 DEF Mint, Under
<1>4. Polling(c)' = Polling(c) /\ r \in Polling(c)
  BY <1>3 DEF Polling
<1>5. Alone(c)'
  BY <1>3, <1>4 DEF PairedFor, Alone
<1>6. ToForget(c)'
  BY <1>3, <1>4 DEF ToForget, Under
<1>7. /\ DOMAIN tokens' = 1..(Len(tokens) + 1) /\ DOMAIN tokens = 1..Len(tokens) /\ Len(tokens) \in Nat
      /\ \A t \in DOMAIN tokens : tokens'[t] = tokens[t]
      /\ tokens'[Len(tokens) + 1].overlapped = (r \in behind)
  BY <1>1 DEF Mint
<1>8. CASE r \in behind
  <2>1. Fresh(c)' \subseteq Fresh(c)
    <3> SUFFICES ASSUME NEW t \in DOMAIN tokens', tokens'[t].code = c, ~tokens'[t].overlapped
                 PROVE  t \in DOMAIN tokens /\ tokens[t].code = c /\ ~tokens[t].overlapped
      BY DEF Fresh
    <3>1. t # Len(tokens) + 1
      BY <1>7, <1>8
    <3> QED
      BY <1>7, <3>1
  <2>2. NotYet(c)'
    BY <1>3, <1>4, <2>1 DEF PairedFor, NotYet, Under, Polling
  <2> QED
    BY <1>5, <1>6, <2>1, <2>2 DEF PairedFor, OneFresh
<1>9. CASE r \notin behind
  <2>1. Fresh(c) = {}
    BY <1>3, <1>4, <1>9 DEF PairedFor, NotYet, Under
  <2>2. Fresh(c)' \subseteq {Len(tokens) + 1}
    BY <1>7, <2>1 DEF Fresh
  <2>3. Polling(c) = {r}
    BY <1>4, <1>9 DEF PairedFor, Alone
  <2>4. NotYet(c)'
    BY <1>3, <1>4, <2>3 DEF NotYet, Under
  <2> QED
    BY <1>5, <1>6, <2>2, <2>4 DEF PairedFor, OneFresh
<1> QED
  BY <1>8, <1>9

LEMMA PairedStep == Typed /\ Paired /\ [AccountNext]_accountVars => Paired'
<1> SUFFICES ASSUME Typed, Paired, [AccountNext]_accountVars, NEW c \in Codes
             PROVE  PairedFor(c)'
  BY DEF Paired
<1>t. op \in [Calls -> Requests]
  BY DEF Typed, OpTyped
<1>p. PairedFor(c)
  BY DEF Paired
<1>1. CASE \E r \in Calls : PollRead(r, c)
  BY <1>1, <1>p, PollReadKeeps
<1>2. CASE \E r \in Calls : Mint(r) /\ op[r].code = c
  BY <1>2, <1>p, MintKeeps
<1>3. CASE ~(\E r \in Calls : PollRead(r, c)) /\ ~\E r \in Calls : Mint(r) /\ op[r].code = c
  <2>1. \A q \in Polling(c)' : op'[q] = op[q]
    BY <1>3, PollMoves DEF Polling
  <2>2. Fresh(c)' \subseteq Fresh(c)
    <3>1. CASE ~\E r \in Calls : Mint(r)
      BY <3>1, FreshStays
    <3>2. CASE \E r \in Calls : Mint(r)
      <4>1. PICK r \in Calls : Mint(r)
        BY <3>2
      <4>2. tokens \in Seq(TokenRows) /\ op[r].code # c
        BY <1>3, <4>1 DEF Typed, RowsTyped
      <4>3. \A t \in DOMAIN tokens' : (t \in DOMAIN tokens /\ tokens'[t] = tokens[t]) \/ tokens'[t].code = op[r].code
        BY <4>1, <4>2 DEF Mint
      <4> QED
        BY <4>2, <4>3 DEF Fresh
    <3> QED
      BY <3>1, <3>2
  <2>3. ASSUME Fresh(c)' # {}, codes'[c].state # "gone", NEW q \in Polling(c), Under(q, "forget")
        PROVE  op'[q] = op[q]
    <3>q. q \in Calls /\ op[q].do = "forget" /\ op[q].code = c
      BY <2>3 DEF Polling, Under
    <3>1. CASE ServerStops
      <4>1. PICK t \in DOMAIN tokens' : tokens'[t].code = c /\ ~tokens'[t].overlapped
        BY <2>3 DEF Fresh
      <4>2. t \in DOMAIN tokens /\ tokens \in Seq(TokenRows)
        BY <3>1, <4>1 DEF ServerStops, Typed, RowsTyped
      <4>3. tokens[t] \in TokenRows
        BY <4>2
      <4>4. /\ tokens'[t].code = tokens[t].code
            /\ (\E r \in Calls : Under(r, "forget") /\ op[r].code = tokens[t].code) => tokens'[t].overlapped
        BY <3>1, <4>2, <4>3 DEF ServerStops, TokenRows
      <4> QED
        BY <2>3, <3>q, <4>1, <4>4
    <3>2. CASE \E r \in Calls : RequestStep(r)
      <4>1. PICK r \in Calls : RequestStep(r)
        BY <3>2
      <4>2. CASE r # q
        <5>1. \E rec : op' = [op EXCEPT ![r] = rec]
          BY <4>1 DEF RequestStep, LoginRead, LoginSession, LoginFails, OAuthRead, OAuthWrite, PollRead,
             Mint, Forget, ForgetFails, SetAdminRead, SetAdminWrite, Begin, End
        <5> QED
          BY <1>t, <3>q, <4>2, <5>1
      <4>3. CASE r = q
        <5>1. op[q] # Resting
          BY <3>q DEF Resting
        <5>2. Forget(q) \/ ForgetFails(q)
          BY <3>q, <4>1, <4>3, <5>1 DEF RequestStep, LoginRead, LoginSession, LoginFails, OAuthRead, OAuthWrite,
             PollRead, Mint, SetAdminRead, SetAdminWrite, Begin, Under
        <5>3. CASE Forget(q)
          <6>1. codes \in [Codes -> CodeRows] /\ codes[c] \in CodeRows
            BY DEF Typed, RowsTyped
          <6>2. codes'[c] = [codes[c] EXCEPT !.state = "gone"]
            BY <3>q, <5>3, <6>1 DEF Forget, CodesAfterPoll
          <6>3. codes'[c].state = "gone"
            BY <6>1, <6>2 DEF CodeRows
          <6> QED
            BY <2>3, <6>3
        <5>4. CASE ForgetFails(q)
          <6>1. PICK t \in DOMAIN tokens' : tokens'[t].code = c /\ ~tokens'[t].overlapped
            BY <2>3 DEF Fresh
          <6>2. t \in DOMAIN tokens /\ tokens \in Seq(TokenRows)
            BY <5>4, <6>1 DEF ForgetFails, Doubtful, Typed, RowsTyped
          <6>3. tokens[t] \in TokenRows
            BY <6>2
          <6>4. /\ tokens'[t].code = tokens[t].code
                /\ tokens[t].code = c => tokens'[t].overlapped
            BY <3>q, <5>4, <6>2, <6>3 DEF ForgetFails, Doubtful, TokenRows
          <6> QED
            BY <6>1, <6>4
        <5> QED
          BY <5>2, <5>3, <5>4
      <4> QED
        BY <4>2, <4>3
    <3>3. CASE AccountStep /\ ~ServerStops
      BY <3>3 DEF AccountStep, Register, ForgotPassword, ResendVerification, WindowEnds, CreateToken,
         ApproveDevice, DeleteSession, Expire, VerifyEmail, ResetPassword, DeviceCode, CodeExpires, RevokeToken
    <3> QED
      BY <3>1, <3>2, <3>3 DEF AccountNext, accountVars
  <2> QED
    BY <1>p, <2>1, <2>2, <2>3, QuietKeeps DEF Quiet
<1> QED
  BY <1>1, <1>2, <1>3

-----------------------------------------------------------------------------
(* The budget of failed logins. *)

LEMMA Charges ==
  ASSUME NEW e
  PROVE  /\ IsFiniteSet(BeingCharged(e)) /\ BeingCharged(e) \subseteq Calls
         /\ Cardinality(BeingCharged(e)) \in Nat /\ Cardinality(Calls) \in Nat
         /\ Cardinality(BeingCharged(e)) <= Cardinality(Calls)
<1>1. BeingCharged(e) \subseteq Calls
  BY DEF BeingCharged
<1> QED
  BY <1>1, FS_Subset, FS_CardinalityType, AccountAssumption

LEMMA ChargeMoves ==
  ASSUME Typed, [AccountNext]_accountVars, NEW e \in Emails, NEW q \in Calls,
         op'[q].do = "fail", op'[q].user = e
  PROVE  op'[q] = op[q] \/ (~LoginBlocked(e) /\ failures' = failures)
<1>1. op \in [Calls -> Requests]
  BY DEF Typed, OpTyped
<1>2. CASE op'[q] = Resting
  BY <1>2 DEF Resting
<1>3. CASE Mint(q)
  <2>1. op[q] \in [do : {"mint", "forget"}, code : Codes, user : Emails]
    BY <1>1, <1>3 DEF Mint, Under, Requests, Resting
  <2>2. op'[q] = [op[q] EXCEPT !.do = "forget"]
    BY <1>1, <1>3 DEF Mint
  <2> QED
    BY <2>1, <2>2
<1>4. CASE \E d \in Emails, p \in Passwords : LoginRead(q, d, p)
  <2>1. PICK d \in Emails, p \in Passwords : LoginRead(q, d, p)
    BY <1>4
  <2>2. CASE Begin(q, [do |-> "login", user |-> d, pw |-> p])
    BY <1>1, <2>2 DEF Begin
  <2>3. CASE Begin(q, [do |-> "fail", user |-> d])
    <3>1. d = e
      BY <1>1, <2>3 DEF Begin
    <3> QED
      BY <2>1, <3>1 DEF LoginRead
  <2> QED
    BY <2>1, <2>2, <2>3 DEF LoginRead
<1>5. CASE \E i \in Identities, d \in Emails : OAuthRead(q, i, d)
  <2>1. PICK kind \in {"known", "link", "create"} : \E d, j : Begin(q, [do |-> kind, user |-> d, ident |-> j])
    BY <1>5 DEF OAuthRead
  <2> QED
    BY <1>1, <2>1 DEF Begin
<1>6. CASE \E d \in Codes : PollRead(q, d)
  BY <1>1, <1>6 DEF PollRead, Begin
<1>7. CASE \E who, target \in Emails, flag \in BOOLEAN : SetAdminRead(q, who, target, flag)
  BY <1>1, <1>7 DEF SetAdminRead, Begin
<1> QED
  BY <1>2, <1>3, <1>4, <1>5, <1>6, <1>7, OpMoves

LEMMA ChargedStep == Typed /\ Charged /\ [AccountNext]_accountVars => Charged'
<1> SUFFICES ASSUME Typed, Charged, [AccountNext]_accountVars, NEW e \in Emails
             PROVE  failures'[e] + Cardinality(BeingCharged(e)') < MaxFailures + Cardinality(Calls)
  BY DEF Charged
<1> DEFINE Before == BeingCharged(e)
           After == BeingCharged(e)'
<1>s. SUFFICES failures'[e] + Cardinality(After) < MaxFailures + Cardinality(Calls)
  OBVIOUS
<1>t. op \in [Calls -> Requests] /\ failures \in [Emails -> Nat] /\ MaxFailures \in Nat \ {0}
  BY AccountAssumption DEF Typed, OpTyped, RowsTyped
<1>c. /\ IsFiniteSet(Before) /\ Cardinality(Before) \in Nat /\ Cardinality(Calls) \in Nat
      /\ Before \subseteq Calls
  BY Charges
<1>d. /\ IsFiniteSet(After) /\ Cardinality(After) \in Nat /\ Cardinality(After) <= Cardinality(Calls)
      /\ After = {q \in Calls : op'[q].do = "fail" /\ op'[q].user = e}
  <2>1. After = {q \in Calls : op'[q].do = "fail" /\ op'[q].user = e}
    BY DEF BeingCharged, Under
  <2>2. After \subseteq Calls
    BY <2>1
  <2> QED
    BY <2>1, <2>2, FS_Subset, FS_CardinalityType, AccountAssumption
<1>i. failures[e] + Cardinality(Before) < MaxFailures + Cardinality(Calls)
  BY DEF Charged
<1>1. CASE failures'[e] = 0
  <2> HIDE DEF Before, After
  <2> QED
    BY <1>1, <1>t, <1>c, <1>d
<1>2. CASE ~LoginBlocked(e) /\ failures' = failures
  <2> HIDE DEF Before, After
  <2> QED
    BY <1>2, <1>t, <1>c, <1>d DEF LoginBlocked
<1>3. CASE After \subseteq Before /\ failures'[e] = failures[e]
  <2>1. Cardinality(After) <= Cardinality(Before)
    BY <1>3, <1>c, FS_Subset
  <2> HIDE DEF Before, After
  <2> QED
    BY <1>3, <2>1, <1>t, <1>c, <1>d, <1>i
<1>4. CASE \E r \in Calls : LoginFails(r) /\ op[r].user = e
  <2>1. PICK r \in Calls : LoginFails(r) /\ op[r].user = e
    BY <1>4
  <2>2. r \in Before
    BY <2>1 DEF LoginFails, BeingCharged
  <2>3. op' = [op EXCEPT ![r] = Resting] /\ failures'[e] = failures[e] + 1
    BY <2>1, <1>t DEF LoginFails, End
  <2>4. After = Before \ {r}
    <3>1. \A q \in Calls : op'[q].do = "fail" /\ op'[q].user = e <=> q # r /\ op[q].do = "fail" /\ op[q].user = e
      BY <2>3, <1>t DEF Resting
    <3> QED
      BY <1>d, <3>1 DEF BeingCharged, Under
  <2>5. Cardinality(After) = Cardinality(Before) - 1
    BY <2>2, <2>4, <1>c, FS_RemoveElement
  <2> HIDE DEF Before, After
  <2> QED
    BY <2>3, <2>5, <1>t, <1>c, <1>d, <1>i
<1>5. After \subseteq Before \/ (~LoginBlocked(e) /\ failures' = failures)
  <2>1. SUFFICES ASSUME ~(~LoginBlocked(e) /\ failures' = failures), NEW q \in After
                 PROVE  q \in Before
    OBVIOUS
  <2>2. op'[q] = op[q]
    BY <1>d, <2>1, ChargeMoves
  <2> QED
    BY <1>d, <2>2 DEF BeingCharged, Under
<1>6. failures'[e] \in {0, failures[e]} \/ \E r \in Calls : LoginFails(r) /\ op[r].user = e
  <2>1. CASE \E r \in Calls : LoginSession(r) \/ LoginFails(r)
    <3>1. PICK r \in Calls : LoginSession(r) \/ LoginFails(r)
      BY <2>1
    <3>2. op[r].user \in Emails
      BY <3>1, Parts DEF LoginSession, LoginFails, Under
    <3>3. CASE LoginSession(r)
      BY <1>t, <3>2, <3>3 DEF LoginSession
    <3>4. CASE LoginFails(r) /\ op[r].user # e
      BY <1>t, <3>2, <3>4 DEF LoginFails
    <3> QED
      BY <3>1, <3>3, <3>4
  <2>2. CASE ServerStops \/ \E d \in Emails : WindowEnds(d)
    BY <1>t, <2>2 DEF ServerStops, WindowEnds, NoFailures
  <2>3. CASE UNCHANGED failures
    BY <2>3
  <2>4. CASE \E r \in Calls : RequestStep(r)
    BY <2>1, <2>3, <2>4 DEF RequestStep, LoginRead, OAuthRead, OAuthWrite, PollRead, Mint, Forget,
       ForgetFails, SetAdminRead, SetAdminWrite
  <2> QED
    BY <2>2, <2>3, <2>4 DEF AccountNext, AccountStep, accountVars, Register, ForgotPassword,
       ResendVerification, CreateToken, ApproveDevice, DeleteSession, Expire, VerifyEmail, ResetPassword,
       DeviceCode, CodeExpires, RevokeToken
<1> QED
  BY <1>1, <1>2, <1>3, <1>4, <1>5, <1>6

-----------------------------------------------------------------------------
AccountInv == Typed /\ Known /\ Verified /\ Paired /\ Charged

LEMMA AccountInvAtInit == AccountInit => AccountInv
<1> SUFFICES ASSUME AccountInit PROVE AccountInv
  OBVIOUS
<1>1. Typed
  BY TypedAtInit
<1>2. Known
  BY AccountAssumption DEF AccountInit, Known, IdentitiesSettled, Exists, NoUser, Resting, NoPassword
<1>3. Verified
  BY DEF AccountInit, Verified, ResetLocksOut, Under, Resting
<1>4. Paired
  BY DEF AccountInit, Paired, PairedFor, Alone, NotYet, ToForget, OneFresh, Fresh, Polling, Resting
<1>5. Charged
  <2> SUFFICES ASSUME NEW e \in Emails
               PROVE  failures[e] + Cardinality(BeingCharged(e)) < MaxFailures + Cardinality(Calls)
    BY DEF Charged
  <2>1. failures[e] = 0
    BY DEF AccountInit, NoFailures
  <2>2. MaxFailures \in Nat \ {0}
    BY AccountAssumption
  <2> QED
    BY <2>1, <2>2, Charges
<1> QED
  BY <1>1, <1>2, <1>3, <1>4, <1>5 DEF AccountInv

LEMMA AccountInvSettles == AccountInv => AccountsSettled
<1> SUFFICES ASSUME AccountInv PROVE AccountsSettled
  OBVIOUS
<1>1. OneTokenPerCode
  <2> SUFFICES ASSUME NEW t \in DOMAIN tokens, NEW u \in DOMAIN tokens, t # u, tokens[t].code = tokens[u].code,
                      tokens[t].code # Own, ~tokens[t].overlapped, ~tokens[u].overlapped
               PROVE  FALSE
    BY DEF OneTokenPerCode
  <2>1. tokens[t] \in TokenRows
    BY DEF AccountInv, Typed, RowsTyped
  <2>2. PICK c \in Codes : tokens[t].code = c
    BY <2>1 DEF TokenRows
  <2>3. t \in Fresh(c) /\ u \in Fresh(c)
    BY <2>2 DEF Fresh
  <2> QED
    BY <2>3 DEF AccountInv, Paired, PairedFor, OneFresh
<1>2. BudgetOvershoot
  <2> SUFFICES ASSUME NEW e \in Emails PROVE failures[e] < MaxFailures + Cardinality(Calls)
    BY DEF BudgetOvershoot
  <2>1. failures[e] \in Nat /\ failures[e] + Cardinality(BeingCharged(e)) < MaxFailures + Cardinality(Calls)
    BY DEF AccountInv, Typed, RowsTyped, Charged
  <2>2. MaxFailures \in Nat
    BY AccountAssumption
  <2> QED
    BY <2>1, <2>2, Charges
<1> QED
  BY <1>1, <1>2 DEF AccountInv, AccountsSettled, Verified, Known

(* Whatever logins, provider callbacks, polls and administrators have under
   way together, and whenever the server stops: a session that a login made
   after its password was reset is one that had verified it before, an
   identity is linked to a verified account, a code gives one token unless
   polls overlapped or its delete was lost, and the budget of failed logins is
   overshot by fewer than the requests under way. *)
THEOREM AccountsAreSettled == AccountSpec => []AccountsSettled
<1>1. AccountInv /\ [AccountNext]_accountVars => AccountInv'
  BY TypedStep, KnownStep, VerifiedStep, PairedStep, ChargedStep DEF AccountInv
<1> QED
  BY <1>1, AccountInvAtInit, AccountInvSettles, PTL DEF AccountSpec

===============================================================================
