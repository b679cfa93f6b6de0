--------------------------------- MODULE QrLogin --------------------------------
(***************************************************************************)
(* verify_qr_login.py: one run of the script that goes through a QR login  *)
(* and shows that the credentials it yields work.  The picture of the QR   *)
(* code is a temporary file that outlives the library call that makes it,  *)
(* so the script has to remove it itself.                                  *)
(*                                                                         *)
(* A step is one request, one answer at the prompt or one operation on the *)
(* file.  What the script prints is left out.                              *)
(***************************************************************************)
EXTENDS Naturals, LoginService

CONSTANT MaxFaults \* bound on the requests and calls that fail

ASSUME MaxFaultsAssumption == MaxFaults \in Nat

Running == 255

VARIABLES
    open_browser, \* --open-browser
    stage,        \* what comes next
    phase,        \* the login at the service
    otp,          \* the code the next getLoginInfo sends
    qr,           \* the temporary file: "none", "empty", "image"
    qr_path,      \* whether main() knows it
    cookies,      \* the names installed in the session
    pending,      \* the outcome that waits for the finally clause
    faults,
    outcome,      \* the exit status
    excused       \* observer: why the file may have stayed

vars == <<open_browser, stage, phase, otp, qr, qr_path, cookies, pending, faults, outcome, excused>>
file == <<qr, qr_path, excused>>
session == <<phase, otp, cookies>>

\* The stages of the try block.
InTry == {"poll", "prompt", "install", "userInfo", "apikeyGet", "renewal"}
Opening == {"tempfile", "make", "save", "open"}

Fault == faults < MaxFaults /\ faults' = faults + 1

Go(s) == stage' = s /\ UNCHANGED <<pending, outcome>>
Exit(code) == stage' = "done" /\ outcome' = code /\ UNCHANGED pending

\* Mutant: no finally clause.
RaiseAtOnce(code) == Exit(code)

\* An exception in the try block goes by the finally clause; one before it ends the run.
\* Status 1 is that of an exception __main__ reports and of one it does not.
Raise(code) ==
    IF stage \in InTry THEN stage' = "finally" /\ pending' = code /\ UNCHANGED outcome
    ELSE Exit(code)

\* No connection, a timeout, an HTTP error, or JSON of another shape (request_json).
Broken == Fault /\ Raise(1)

\* One exchange, and what is next when it went well.
Exchange(s, next) == stage = s /\ ((Go(next) /\ UNCHANGED faults) \/ Broken)

SkillsPage ==
    /\ Exchange("page", "getLoginUid")
    /\ UNCHANGED <<open_browser, session, file>>

LoginUid ==
    /\ Exchange("getLoginUid", IF open_browser THEN "import" ELSE "poll")
    /\ UNCHANGED <<open_browser, session, file>>

\* Without qrcode there is no file either.
ImportQrcode ==
    /\ Exchange("import", "tempfile")
    /\ UNCHANGED <<open_browser, session, file>>

\* open_qr_image: the file is made first, then filled and shown; its name is only known
\* to main() when the last of these succeeded.
OpenQrImage ==
    /\ stage \in Opening
    /\ \/ /\ UNCHANGED faults
          /\ CASE stage = "tempfile" -> Go("make") /\ qr' = "empty" /\ UNCHANGED qr_path
               [] stage = "make" -> Go("save") /\ UNCHANGED <<qr, qr_path>>
               [] stage = "save" -> Go("open") /\ qr' = "image" /\ UNCHANGED qr_path
               [] stage = "open" -> Go("poll") /\ qr_path' = TRUE /\ UNCHANGED qr
          /\ UNCHANGED excused
       \/ Broken /\ excused' = TRUE /\ UNCHANGED <<qr, qr_path>>
    /\ UNCHANGED <<open_browser, session>>

\* Mutant: the answer to a wrong code is not turned into a question for another one.
AfterPollStuck(answer) ==
    CASE answer = "succeed" -> Go("install")
      [] answer = "NEED_OTP" -> Go("prompt")
      [] answer = "OTP_NOT_MATCH" -> Go("poll")
      [] OTHER -> Raise(1)

\* wait_for_login
AfterPoll(answer) ==
    CASE answer = "succeed" -> Go("install")
      [] answer \in {"NEED_OTP", "OTP_NOT_MATCH"} -> Go("prompt")
      [] OTHER -> Raise(1)

\* A request nobody answers times out after 70 s.
Poll ==
    /\ stage = "poll"
    /\ \/ \E answer \in LoginInfo(phase, otp) :
            AfterPoll(answer) /\ phase' = AfterInfo(phase, otp) /\ UNCHANGED <<otp, faults>>
       \/ phase = "scan" /\ Raise(1) /\ UNCHANGED <<phase, otp, faults>>
       \/ Fault /\ (\/ AfterPoll("other")
                    \/ Raise(1))
                /\ UNCHANGED <<phase, otp>>
    /\ UNCHANGED <<open_browser, cookies, file>>

\* The prompt is repeated until it is given four digits; they are sent once.
TypeCode(code) ==
    /\ stage = "prompt"
    /\ otp' = code /\ Go("poll")
    /\ UNCHANGED <<open_browser, phase, cookies, faults, file>>

\* The end of the input is an EOFError.
EndInput ==
    /\ stage = "prompt" /\ Broken
    /\ UNCHANGED <<open_browser, session, file>>

\* The refresh token may be missing, the user and the access token not.
InstallLoginCookies ==
    /\ stage = "install"
    /\ \/ \E refresh \in {{}, {"wr_rt"}} :
            cookies' = {"wr_vid", "wr_skey", "wr_ql"} \union refresh
          /\ Go("userInfo") /\ UNCHANGED faults
       \/ Broken /\ UNCHANGED cookies
    /\ UNCHANGED <<open_browser, phase, otp, file>>

UserInfo ==
    /\ Exchange("userInfo", "apikeyGet")
    /\ UNCHANGED <<open_browser, session, file>>

\* An account without an API key counts as a failure.
ApikeyGet ==
    /\ Exchange("apikeyGet", "renewal")
    /\ UNCHANGED <<open_browser, session, file>>

\* Whether the renewal says it succeeded is only printed.
Renewal ==
    /\ stage = "renewal"
    /\ \/ /\ stage' = "finally" /\ pending' = 0 /\ UNCHANGED <<faults, outcome>>
       \/ Broken
    /\ UNCHANGED <<open_browser, session, file>>

\* An error of unlink is ignored.
Finally ==
    /\ stage = "finally"
    /\ IF qr_path
       THEN \/ qr' = "none" /\ UNCHANGED <<faults, excused>>
            \/ Fault /\ excused' = TRUE /\ UNCHANGED qr
       ELSE UNCHANGED <<qr, faults, excused>>
    /\ stage' = "done" /\ outcome' = pending
    /\ UNCHANGED <<open_browser, session, qr_path, pending>>

\* Ctrl-C, at any moment; before main() knows the file and in the finally clause it stays.
Interrupt ==
    /\ stage # "done" /\ Fault
    /\ Raise(130)
    /\ excused' = (excused \/ stage \in Opening \union {"finally"})
    /\ UNCHANGED <<open_browser, session, qr, qr_path>>

Kill ==
    /\ stage # "done" /\ Fault
    /\ Exit(137) /\ excused' = TRUE
    /\ UNCHANGED <<open_browser, session, qr, qr_path>>

Phone ==
    /\ stage # "done"
    /\ phase' \in Moves(phase)
    /\ UNCHANGED <<open_browser, stage, otp, cookies, pending, faults, outcome, file>>

Init ==
    /\ open_browser \in BOOLEAN
    /\ stage = "page" /\ phase = "scan" /\ otp = NoCode
    /\ qr = "none" /\ qr_path = FALSE
    /\ cookies = {} /\ pending = 0 /\ faults = 0
    /\ outcome = Running /\ excused = FALSE

Step ==
    \/ SkillsPage \/ LoginUid \/ ImportQrcode \/ OpenQrImage
    \/ Poll \/ InstallLoginCookies \/ UserInfo \/ ApikeyGet \/ Renewal \/ Finally

Next == Step \/ (\E code \in Codes : TypeCode(code)) \/ EndInput \/ Interrupt \/ Kill \/ Phone

Spec == Init /\ [][Next]_vars

\* The script does not stop by itself, no fault has to happen, and whoever is asked for
\* the code types the right one sooner or later.
FairSpec == Spec /\ WF_vars(Step /\ UNCHANGED faults) /\ SF_vars(TypeCode("right"))

(*------------------------------ properties ------------------------------*)

\* The picture is gone when the script ends, however it ends, once open_qr_image has
\* returned (lines 307-321): it stays only if that call failed after it had made the
\* file, if the file could not be removed, or if Ctrl-C or a kill came in these places.
QrFileIsRemoved == stage = "done" /\ qr # "none" => excused

\* Every run ends (wait_for_login, lines 142-162): no state of the login is polled or
\* asked about for ever, though a wrong code may be typed any number of times.
Ends == <>(stage = "done")

================================================================================
