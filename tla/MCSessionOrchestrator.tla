----------------------- MODULE MCSessionOrchestrator -----------------------
(***************************************************************************)
(* Instances of SessionOrchestrator.  A loop that retries at every tick is *)
(* driven by the app alone; one that gives up before its first retry makes *)
(* its attempts when the path comes back.                                  *)
(***************************************************************************)
EXTENDS SessionOrchestrator

Script(calls, transports, retry, timeout) ==
  [calls |-> calls, transports |-> transports,
   policy |-> [retry |-> retry, timeout |-> timeout]]

AppCalls == CallNames \ {"path"}
Driven == Script(AppCalls, {"tcp"}, 1, 2)
Woken == Script(CallNames, {"tcp", "quic"}, 2, 2)

SafetyScripts == {Driven, Woken}
LiveScripts == {Script({"connect", "cancel"}, {"tcp"}, 1, 2),
                Script({"connect", "path"}, {"tcp"}, 2, 2)}
CancelScripts == {Driven}
=============================================================================
