------------------------------ MODULE LoginService ------------------------------
(***************************************************************************)
(* The service and the phone behind a QR login, as far as the clients in   *)
(* src/ rely on them: getLoginUid opens a login, somebody scans and        *)
(* confirms it on the phone, possibly after a code of four digits was      *)
(* typed on the client, and getLoginInfo tells how far that is.            *)
(***************************************************************************)

Phases == {"scan", "code", "confirmed", "expired"}

\* The codes of four digits that may be typed where one is asked for.
Codes == {"right", "wrong"}
NoCode == "none"

\* The answers of getLoginInfo.  A login nobody has scanned is not answered: the request
\* is held, and the client gives up on it first.
LoginInfo(phase, otp) ==
    CASE phase = "scan" -> {}
      [] phase = "code" -> {CASE otp = NoCode -> "NEED_OTP" [] otp = "right" -> "succeed"
                              [] OTHER -> "OTP_NOT_MATCH"}
      [] phase = "confirmed" -> {"succeed"}
      [] phase = "expired" -> {"LOGIN_TIMEOUT", "OTP_EXPIRED"}

\* What the phone and the clock do to a login.
Moves(phase) ==
    CASE phase = "scan" -> {"code", "confirmed", "expired"}
      [] phase = "code" -> {"expired"}
      [] OTHER -> {}

\* A code that is accepted confirms the login.
AfterInfo(phase, otp) == IF phase = "code" /\ otp = "right" THEN "confirmed" ELSE phase

================================================================================
