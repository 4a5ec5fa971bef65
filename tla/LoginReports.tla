---------------------------- MODULE LoginReports ----------------------------
(***************************************************************************)
(* What a session may be told about its login: the promise UserManager     *)
(* makes to GameService, whose variable login this is.                     *)
(***************************************************************************)
EXTENDS Sequences

VARIABLES
  login,   \* none, inflight, loggedin or over
  reports  \* what the session has been told

Told(r) == reports' = Append(reports, r)

Init == login = "none" /\ reports = <<>>

Login == login = "none" /\ login' = "inflight" /\ UNCHANGED reports

\* A login that has failed may still succeed later.
LoginFailed ==
  login = "inflight" /\ login' \in {"inflight", "over"} /\ Told("loginFailed")

LoginOk == login = "inflight" /\ login' = "loggedin" /\ Told("loginOk")

KeepAliveFailed ==
  login = "loggedin" /\ login' = "over" /\ Told("keepAliveFailed")

Next == Login \/ LoginFailed \/ LoginOk \/ KeepAliveFailed

Spec == Init /\ [][Next]_<<login, reports>>
=============================================================================
