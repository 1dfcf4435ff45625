------------------------------ MODULE DeviceLogin ------------------------------
(***************************************************************************)
(* Signing in with a device code: `sdt login`, and the dialog of the       *)
(* desktop app with the commands behind it, against the cloud server or    *)
(* against GitHub.                                                          *)
(*                                                                         *)
(* Time is abstracted to its order: `slow_down` and `authorization_pending` *)
(* both mean another poll later.                                           *)
(***************************************************************************)
EXTENDS Naturals, FiniteSets

CONSTANTS Via,       \* whom the dialog asks: "cloud" or "github"
          Flows,     \* runs of the dialog whose request or browser call may overlap
          Polls,     \* polls of the dialog under way at a time
          MaxCodes, MaxOpens, MaxBlips

ASSUME LoginAssumption == MaxCodes \in Nat

VARIABLES row,      \* device_codes, by age
          expired,  \* history: the codes that ran out
          minted,   \* history: tokens made for a code
          lost,     \* history: the codes whose token never reached the client
          cli, dialog, flow, poll,
          keyring, signedIn,  \* the code whose token is stored, whose user the page shows
          opens, blips,
          raced     \* history: the dialog was opened again while a poll was under way

loginVars == <<row, expired, minted, lost, cli, dialog, flow, poll, keyring, signedIn, opens, blips, raced>>
server == <<row, expired, minted>>
stored == <<keyring, signedIn, opens, raced>>

Codes == 1..MaxCodes
NoPoll == [pc |-> "idle", code |-> 0, reply |-> "none"]
NoFlow == [pc |-> "idle", code |-> 0]

Replies == {"none", "token", "authorization_pending", "expired_token", "access_denied"}
Polling == {"idle", "start", "sleep", "sent", "mint", "reply", "stored", "done", "failed"}
Poll == [pc : Polling, code : 0..MaxCodes, reply : Replies]

LoginTypeOK ==
  /\ row \in [Codes -> {"none", "pending", "approved", "denied", "gone"}]
  /\ minted \in [Codes -> Nat] /\ lost \subseteq Codes /\ expired \subseteq Codes
  /\ cli \in Poll /\ poll \in [Polls -> Poll]
  /\ dialog \in [open : BOOLEAN, code : 0..MaxCodes, cancelled : BOOLEAN, timer : BOOLEAN]
  /\ flow \in [Flows -> [pc : {"idle", "request", "granted", "browser"}, code : 0..MaxCodes]]
  /\ keyring \in 0..MaxCodes /\ signedIn \in 0..MaxCodes /\ raced \in BOOLEAN
  /\ \A p \in Polls : poll[p].pc = "idle" <=> poll[p] = NoPoll

LoginInit ==
  /\ row = [d \in Codes |-> "none"] /\ expired = {} /\ minted = [d \in Codes |-> 0] /\ lost = {}
  /\ cli = [pc |-> "start", code |-> 0, reply |-> "none"]
  /\ dialog = [open |-> FALSE, code |-> 0, cancelled |-> FALSE, timer |-> FALSE]
  /\ flow = [f \in Flows |-> NoFlow] /\ poll = [p \in Polls |-> NoPoll]
  /\ keyring = 0 /\ signedIn = 0 /\ opens = 0 /\ blips = 0 /\ raced = FALSE

(***************************************************************************)
(* The server                                                              *)
(***************************************************************************)
NextCode == Cardinality({d \in Codes : row[d] # "none"}) + 1
CreateCode == NextCode \in Codes /\ row' = [row EXCEPT ![NextCode] = "pending"]

ApproveDevice(d, yes) ==
  /\ row[d] \in {"pending", "approved", "denied"}
  /\ row' = [row EXCEPT ![d] = IF yes THEN "approved" ELSE "denied"]
  /\ UNCHANGED <<expired, minted, lost, cli, dialog, flow, poll, stored, blips>>

Expire(d) ==
  /\ row[d] \in {"pending", "approved", "denied"}
  /\ row' = [row EXCEPT ![d] = "gone"] /\ expired' = expired \cup {d}
  /\ UNCHANGED <<minted, lost, cli, dialog, flow, poll, stored, blips>>

(* poll_device reads the row; an approved one is a token made, then a row deleted. *)
Read(q) ==
  [q EXCEPT !.pc = IF row[q.code] = "approved" THEN "mint" ELSE "reply",
            !.reply = CASE row[q.code] = "gone" -> "expired_token"
                        [] row[q.code] = "denied" -> "access_denied"
                        [] OTHER -> "authorization_pending"]

Mint(d) == minted' = [minted EXCEPT ![d] = @ + 1] /\ row' = [row EXCEPT ![d] = "gone"]
Given(q) == [q EXCEPT !.pc = "reply", !.reply = "token"]

Blip == blips < MaxBlips /\ blips' = blips + 1

Losing(q) == IF q.reply = "token" THEN lost \cup {q.code} ELSE lost

(***************************************************************************)
(* sdt login                                                               *)
(***************************************************************************)
CliStart ==
  /\ cli.pc = "start" /\ CreateCode
  /\ cli' = [cli EXCEPT !.pc = "sleep", !.code = NextCode]
  /\ UNCHANGED <<expired, minted, lost, dialog, flow, poll, stored, blips>>

CliPoll ==
  /\ cli.pc = "sleep"
  /\ cli' = [cli EXCEPT !.pc = "sent"]
  /\ UNCHANGED <<server, lost, dialog, flow, poll, stored, blips>>

CliRead ==
  /\ cli.pc = "sent" /\ cli' = Read(cli)
  /\ UNCHANGED <<server, lost, dialog, flow, poll, stored, blips>>

CliMint ==
  /\ cli.pc = "mint" /\ Mint(cli.code) /\ cli' = Given(cli)
  /\ UNCHANGED <<expired, lost, dialog, flow, poll, stored, blips>>

CliReply ==
  /\ cli.pc = "reply"
  /\ cli' = [cli EXCEPT !.pc = CASE cli.reply = "token" -> "done"
                                 [] cli.reply = "authorization_pending" -> "sleep"
                                 [] OTHER -> "failed"]
  /\ UNCHANGED <<server, lost, dialog, flow, poll, stored, blips>>

AfterBlip_Fails == "failed"

AfterBlip == "sleep"

(* The request or its answer is lost: the loop goes on. *)
CliBlip ==
  /\ cli.pc \in {"sent", "reply"} /\ Blip
  /\ lost' = Losing(cli)
  /\ cli' = [cli EXCEPT !.pc = AfterBlip, !.reply = "none"]
  /\ UNCHANGED <<server, dialog, flow, poll, stored>>

(* Past its own deadline the command gives up after a poll without a token. *)
CliTimesOut ==
  /\ cli.pc = "sleep" /\ cli.code \in expired
  /\ cli' = [cli EXCEPT !.pc = "failed"]
  /\ UNCHANGED <<server, lost, dialog, flow, poll, stored, blips>>

(***************************************************************************)
(* The dialog                                                              *)
(***************************************************************************)
Busy == {p \in Polls : poll[p].pc # "idle"}

(* The button is on the page of a user who is signed out. *)
OpenDialog(f) ==
  /\ signedIn = 0 /\ ~dialog.open /\ flow[f].pc = "idle" /\ opens < MaxOpens
  /\ opens' = opens + 1
  /\ dialog' = [dialog EXCEPT !.open = TRUE, !.cancelled = FALSE]
  /\ flow' = [flow EXCEPT ![f].pc = "request"]
  /\ raced' = (raced \/ Busy # {} \/ \E g \in Flows : flow[g].pc # "idle")
  /\ UNCHANGED <<server, lost, cli, poll, keyring, signedIn, blips>>

Closed(keep) == [dialog EXCEPT !.open = FALSE, !.cancelled = TRUE, !.timer = FALSE,
                               !.code = IF keep THEN @ ELSE 0]

CloseDialog ==
  /\ dialog.open /\ dialog' = Closed(FALSE)
  /\ UNCHANGED <<server, lost, cli, flow, poll, stored, blips>>

RequestDeviceCode(f) ==
  /\ flow[f].pc = "request" /\ CreateCode
  /\ flow' = [flow EXCEPT ![f] = [pc |-> "granted", code |-> NextCode]]
  /\ UNCHANGED <<expired, minted, lost, cli, dialog, poll, stored, blips>>

RequestFails(f) ==
  /\ flow[f].pc \in {"request", "granted"} /\ Blip
  /\ flow' = [flow EXCEPT ![f] = NoFlow]
  /\ dialog' = IF dialog.open THEN Closed(FALSE) ELSE dialog
  /\ UNCHANGED <<server, lost, cli, poll, stored>>

(* The code is shown and the browser is opened before the first poll is set. *)
ShowCode(f) ==
  /\ flow[f].pc = "granted"
  /\ dialog' = [dialog EXCEPT !.code = flow[f].code]
  /\ flow' = [flow EXCEPT ![f] = [pc |-> "browser", code |-> 0]]
  /\ UNCHANGED <<server, lost, cli, poll, stored, blips>>

Scheduled == [dialog EXCEPT !.timer = ~dialog.cancelled]

FirstPoll(f) ==
  /\ flow[f].pc = "browser"
  /\ flow' = [flow EXCEPT ![f] = NoFlow]
  /\ dialog' = Scheduled
  /\ UNCHANGED <<server, lost, cli, poll, stored, blips>>

TimerDuringPoll_Kept == TRUE

TimerDuringPoll == FALSE

PollOnce(p) ==
  /\ dialog.timer /\ poll[p].pc = "idle"
  /\ dialog' = [dialog EXCEPT !.timer = TimerDuringPoll]
  /\ poll' = IF dialog.cancelled \/ dialog.code = 0 THEN poll
             ELSE [poll EXCEPT ![p] = [NoPoll EXCEPT !.pc = "sent", !.code = dialog.code]]
  /\ UNCHANGED <<server, lost, cli, flow, stored, blips>>

PollRead(p) ==
  /\ Via = "cloud" /\ poll[p].pc = "sent"
  /\ poll' = [poll EXCEPT ![p] = Read(@)]
  /\ UNCHANGED <<server, lost, cli, dialog, flow, stored, blips>>

PollMint(p) ==
  /\ poll[p].pc = "mint" /\ Mint(poll[p].code)
  /\ poll' = [poll EXCEPT ![p] = Given(@)]
  /\ UNCHANGED <<expired, lost, cli, dialog, flow, stored, blips>>

(* GitHub gives the token of a code once. *)
GithubAnswers(p) ==
  /\ Via = "github" /\ poll[p].pc = "sent"
  /\ IF row[poll[p].code] = "approved"
     THEN Mint(poll[p].code) /\ poll' = [poll EXCEPT ![p] = Given(@)]
     ELSE UNCHANGED <<minted, row>> /\ poll' = [poll EXCEPT ![p] = Read(@)]
  /\ UNCHANGED <<expired, lost, cli, dialog, flow, stored, blips>>

(* The account behind the token is fetched before the token is kept. *)
FetchMe(p) ==
  /\ poll[p].pc = "reply" /\ poll[p].reply = "token"
  /\ keyring' = poll[p].code
  /\ poll' = [poll EXCEPT ![p].pc = "stored"]
  /\ UNCHANGED <<server, lost, cli, dialog, flow, signedIn, opens, raced, blips>>

(* The page takes the result even of a dialog that was closed meanwhile. *)
SignedIn(p) ==
  /\ poll[p].pc = "stored"
  /\ poll' = [poll EXCEPT ![p] = NoPoll]
  /\ signedIn' = poll[p].code
  /\ dialog' = Closed(~dialog.open)
  /\ UNCHANGED <<server, lost, cli, flow, keyring, opens, raced, blips>>

StillPending(p) ==
  /\ poll[p].pc = "reply" /\ poll[p].reply = "authorization_pending"
  /\ poll' = [poll EXCEPT ![p] = NoPoll]
  /\ dialog' = Scheduled
  /\ UNCHANGED <<server, lost, cli, flow, stored, blips>>

(* Any error ends the sign-in, a lost answer too. *)
PollFails(p) ==
  /\ \/ poll[p].pc = "reply" /\ poll[p].reply \in {"expired_token", "access_denied"}
        /\ UNCHANGED blips
     \/ poll[p].pc \in {"sent", "reply"} /\ Blip
  /\ lost' = Losing(poll[p])
  /\ poll' = [poll EXCEPT ![p] = NoPoll]
  /\ dialog' = Closed(~dialog.open)
  /\ UNCHANGED <<server, cli, flow, stored>>

(* cloud_sign_out, github_logout *)
ClearToken ==
  /\ signedIn # 0 /\ ~dialog.open
  /\ keyring' = 0 /\ signedIn' = 0
  /\ UNCHANGED <<server, lost, cli, dialog, flow, poll, opens, raced, blips>>

LoginNext ==
  \/ \E d \in Codes : Expire(d) \/ \E yes \in BOOLEAN : ApproveDevice(d, yes)
  \/ CliStart \/ CliPoll \/ CliRead \/ CliMint \/ CliReply \/ CliBlip \/ CliTimesOut
  \/ \E f \in Flows : OpenDialog(f) \/ RequestDeviceCode(f) \/ RequestFails(f)
                      \/ ShowCode(f) \/ FirstPoll(f)
  \/ \E p \in Polls : \/ PollOnce(p) \/ PollRead(p) \/ PollMint(p) \/ GithubAnswers(p)
                      \/ FetchMe(p) \/ SignedIn(p) \/ StillPending(p) \/ PollFails(p)
  \/ CloseDialog \/ ClearToken

LoginSpec == LoginInit /\ [][LoginNext]_loginVars

(* "A transient network blip shouldn't kill a login mid-approval": sdt login
   fails only when its code ran out or was denied, or when the one answer that
   carried its token was lost. *)
BlipsSurvived ==
  cli.pc = "failed" => cli.code \in expired \cup lost \/ cli.reply = "access_denied"

(* One sign-in makes one token: the server would make one for each of two polls
   that both find the code approved, and a client polls a code again only after
   the answer, unless its dialog was opened anew with a poll or a request out. *)
OneTokenPerSignIn == raced \/ \A d \in Codes : minted[d] <= 1

(* What signing in promises: a lost answer does not end it, and it makes one
   token. *)
SignInSound == LoginTypeOK /\ BlipsSurvived /\ OneTokenPerSignIn
===============================================================================
