------------------------------- MODULE DeviceLogin ------------------------------
(***************************************************************************)
(* weread/lib/qr_login.lua of the plugin: the QR login on the device.      *)
(*                                                                         *)
(* Everything runs on the UI loop: a callback runs to its end, requests    *)
(* included, and what it leaves to later is scheduled.  What a callback    *)
(* finds may therefore belong to another login than the one that scheduled *)
(* it.  A login is named by the generation at its start; its uid and its   *)
(* cookies go by that name too.  Tasks of runOnlineTask all wait 0.1 s and *)
(* run in their order; polls, buttons and further starts come between them *)
(* in any order.                                                           *)
(***************************************************************************)
EXTENDS Naturals, Sequences, LoginService

CONSTANT MaxLogins \* bound on the generation at which a login may be started

ASSUME MaxLoginsAssumption == MaxLogins \in Nat \ {0}

VARIABLES
    generation,
    login_cookies, \* the logins whose cookies are in the jar
    qr_dialog,     \* the login whose code is shown, or 0
    late,          \* started_at is more than 300 s ago
    tasks,         \* scheduled by runOnlineTask: [kind, gen, otp]
    polls,         \* how many polls are scheduled for a login
    asked,         \* turns over with every poll that times out: that it was run shows
    otp_dialogs,   \* the logins with a dialog that asks for the code
    phase,         \* the logins at the service
    auth           \* the account in the settings, and whose cookies

login == <<generation, login_cookies, qr_dialog, late>>
vars == <<login, tasks, polls, asked, otp_dialogs, phase, auth>>

Logins == 1..MaxLogins
NoAuth == [account |-> 0, cookies |-> {}]

(*------------------------------- helpers -------------------------------*)

\* cancel()
Cancel ==
    /\ generation' = generation + 1
    /\ login_cookies' = {} /\ late' = FALSE /\ qr_dialog' = 0

\* runOnlineTask: without a network nothing is scheduled, and nobody is called back.
Scheduled(queue, kind, g, otp) ==
    tasks' \in {queue, Append(queue, [kind |-> kind, gen |-> g, otp |-> otp])}

\* A task whose turn it is.
Turn(kind) == tasks # <<>> /\ Head(tasks).kind = kind
Rest == Tail(tasks)

\* An answer may bring cookies, which go into the jar (merge_response_cookies).
Merge(g) == login_cookies' \in {login_cookies, login_cookies \union {g}}

PollGone(g) == polls' = [polls EXCEPT ![g] = @ - 1]

(*------------------------------ operations ------------------------------*)

\* start(), from the menu, or 0.2 s after something that needs an account was asked for.
\* The dialog for the code is modal, and those 0.2 s are over before it can come up.
Start ==
    /\ generation < MaxLogins /\ otp_dialogs = {}
    /\ Cancel
    /\ Scheduled(tasks, "begin", generation + 1, NoCode)
    /\ UNCHANGED <<polls, asked, otp_dialogs, phase, auth>>

\* _begin_protocol starts from an empty jar.
NewJar(g) == {g}

\* The task of start(): the cookies of the session are kept whether or not the login is
\* still wanted; only then the generation is compared.  Otherwise the requests failed.
Begin ==
    /\ Turn("begin") /\ tasks' = Rest
    /\ LET g == Head(tasks).gen IN
       \/ /\ phase' = [phase EXCEPT ![g] = "scan"] /\ login_cookies' = NewJar(g)
          /\ IF g = generation
             THEN qr_dialog' = g /\ polls' = [polls EXCEPT ![g] = @ + 1]
             ELSE UNCHANGED <<qr_dialog, polls>>
       \/ UNCHANGED <<phase, login_cookies, qr_dialog, polls>>
    /\ UNCHANGED <<generation, late, asked, otp_dialogs, auth>>

\* Nothing came within 5 s: the poll is scheduled again.
TimesOut == asked' = ~asked /\ UNCHANGED <<login, tasks, polls, otp_dialogs, phase>>

\* Every answer takes the code from the screen; one that is an error, or unknown, ends
\* the login.
Answered(g) ==
    \E answer \in LoginInfo(phase[g], NoCode) \union {"error"} :
      /\ PollGone(g) /\ UNCHANGED <<asked, phase>>
      /\ CASE answer = "succeed" ->
                /\ qr_dialog' = 0 /\ Merge(g) /\ Scheduled(tasks, "complete", g, NoCode)
                /\ UNCHANGED <<generation, late, otp_dialogs>>
           [] answer \in {"NEED_OTP", "OTP_NOT_MATCH"} ->
                /\ qr_dialog' = 0 /\ Merge(g) /\ otp_dialogs' = otp_dialogs \union {g}
                /\ UNCHANGED <<generation, late, tasks>>
           [] OTHER -> Cancel /\ UNCHANGED <<tasks, otp_dialogs>>

\* Mutants: the 300 s are not looked at; a poll that timed out is the last one.
PollLiveForever(g) == TimesOut \/ Answered(g)
PollLiveOnce(g) ==
    \/ late /\ Cancel /\ PollGone(g) /\ UNCHANGED <<asked, tasks, otp_dialogs, phase>>
    \/ ~late /\ PollGone(g) /\ asked' = ~asked /\ UNCHANGED <<login, tasks, otp_dialogs, phase>>
    \/ ~late /\ Answered(g)

\* _poll of the login whose code is shown.
PollLive(g) ==
    \/ late /\ Cancel /\ PollGone(g) /\ UNCHANGED <<asked, tasks, otp_dialogs, phase>>
    \/ ~late /\ (TimesOut \/ Answered(g))

\* A scheduled poll; one whose code is no longer shown does nothing.
Poll(g) ==
    /\ polls[g] > 0
    /\ IF g = generation /\ qr_dialog # 0 THEN PollLive(g)
       ELSE PollGone(g) /\ UNCHANGED <<login, asked, tasks, otp_dialogs, phase>>
    /\ UNCHANGED auth

\* A tap on the code, or a key.
Dismiss ==
    /\ qr_dialog # 0 /\ Cancel
    /\ UNCHANGED <<tasks, polls, asked, otp_dialogs, phase, auth>>

\* The buttons of the dialog for the code; neither looks at the generation.
OtpCancel(g) ==
    /\ g \in otp_dialogs /\ otp_dialogs' = otp_dialogs \ {g}
    /\ Cancel
    /\ UNCHANGED <<tasks, polls, asked, phase, auth>>

OtpVerify(g, otp) ==
    /\ g \in otp_dialogs /\ otp_dialogs' = otp_dialogs \ {g}
    /\ Scheduled(tasks, "verify", g, otp)
    /\ UNCHANGED <<login, polls, asked, phase, auth>>

AskAgain == {"timeout", "NEED_OTP", "OTP_NOT_MATCH"}

\* The task of "Verify": the code is sent, and cookies are taken, before the generation is
\* compared.  An answer that is lost may have been given.
Verify ==
    /\ Turn("verify")
    /\ LET g == Head(tasks).gen
           otp == Head(tasks).otp
       IN  \E answer \in LoginInfo(phase[g], otp) \union {"error", "timeout"} :
             /\ \/ phase' = [phase EXCEPT ![g] = AfterInfo(@, otp)]
                \/ answer \in {"error", "timeout"} /\ UNCHANGED phase
             /\ \/ /\ g # generation
                   /\ tasks' = Rest /\ Merge(g)
                   /\ UNCHANGED <<generation, late, qr_dialog, otp_dialogs>>
                \/ /\ g = generation /\ answer = "succeed"
                   /\ Scheduled(Rest, "complete", g, NoCode) /\ Merge(g)
                   /\ UNCHANGED <<generation, late, qr_dialog, otp_dialogs>>
                \/ /\ g = generation /\ answer \in AskAgain
                   /\ tasks' = Rest /\ Merge(g) /\ otp_dialogs' = otp_dialogs \union {g}
                   /\ UNCHANGED <<generation, late, qr_dialog>>
                \/ /\ g = generation /\ answer \notin AskAgain \union {"succeed"}
                   /\ tasks' = Rest /\ Cancel /\ UNCHANGED otp_dialogs
    /\ UNCHANGED <<polls, asked, auth>>

\* Mutant: the generation is not compared before the account is stored.
CompleteAnyway ==
    /\ Turn("complete") /\ tasks' = Rest
    /\ LET g == Head(tasks).gen IN
       /\ auth' = [account |-> g, cookies |-> login_cookies \union {g}]
       /\ login_cookies' = {} /\ UNCHANGED <<generation, late, qr_dialog>>
    /\ UNCHANGED <<polls, asked, otp_dialogs, phase>>

\* _complete_protocol: with the answer's credentials added to the jar, the user and the API
\* key are asked for; the generation is compared last.
Complete ==
    /\ Turn("complete") /\ tasks' = Rest
    /\ LET g == Head(tasks).gen IN
       \/ /\ g = generation
          /\ auth' = [account |-> g, cookies |-> login_cookies \union {g}]
          /\ login_cookies' = {} /\ UNCHANGED <<generation, late, qr_dialog>>
       \/ g = generation /\ Cancel /\ UNCHANGED auth
       \/ g # generation /\ UNCHANGED <<login, auth>>
    /\ UNCHANGED <<polls, asked, otp_dialogs, phase>>

\* confirmClearAccount; its dialog does not come up beside those of a login.
ClearAccount ==
    /\ generation < MaxLogins /\ qr_dialog = 0 /\ otp_dialogs = {}
    /\ Cancel /\ auth' = NoAuth
    /\ UNCHANGED <<tasks, polls, asked, otp_dialogs, phase>>

\* 300 s go by.
Clock ==
    /\ qr_dialog # 0 /\ late' = TRUE
    /\ UNCHANGED <<generation, login_cookies, qr_dialog, tasks, polls, asked, otp_dialogs, phase, auth>>

Phone(g) ==
    /\ \E next \in Moves(phase[g]) : phase' = [phase EXCEPT ![g] = next]
    /\ UNCHANGED <<login, tasks, polls, asked, otp_dialogs, auth>>

\* The account of before, if there is one, is named 0.
Init ==
    /\ generation = 0 /\ login_cookies = {} /\ qr_dialog = 0 /\ late = FALSE
    /\ tasks = <<>> /\ polls = [g \in Logins |-> 0] /\ asked = FALSE /\ otp_dialogs = {}
    /\ phase = [g \in Logins |-> "unknown"]
    /\ auth \in {NoAuth, [account |-> 0, cookies |-> {0}]}

Next ==
    \/ Start \/ Begin \/ Verify \/ Complete
    \/ \E g \in Logins :
         Poll(g) \/ OtpCancel(g) \/ (\E otp \in Codes : OtpVerify(g, otp)) \/ Phone(g)
    \/ Dismiss \/ ClearAccount \/ Clock

Spec == Init /\ [][Next]_vars

\* The UI loop runs the polls that are due, and time passes.  A poll that is run may time
\* out, each time: nothing is asked of the phone, of the service or of the network.
FairSpec == Spec /\ (\A g \in Logins : WF_vars(Poll(g))) /\ WF_vars(Clock)

(*------------------------------ properties ------------------------------*)

\* What is stored belongs to the login that is going on, not to one that was cancelled or
\* started again, and its cookies are of that login alone (_complete_protocol, lines
\* 247-249: none of an account that was signed in before).
StoredIsThisLogin ==
    [][auth' # auth => auth' \in {NoAuth, [account |-> generation, cookies |-> {generation}]}]_vars

\* A code on the screen is that of the login that is going on, and exactly one poll asks
\* for it: it is neither stuck there nor asked about twice (_schedule_poll, line 383).
ShownIsPolled ==
    qr_dialog # 0 => qr_dialog = generation /\ polls[qr_dialog] = 1

\* No code stays on the screen for ever (_poll, line 392).
ShownGoesAway == \A g \in Logins : qr_dialog = g ~> qr_dialog # g

================================================================================
