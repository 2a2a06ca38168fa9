-------------------------- MODULE MCConnectResume --------------------------
(* Routes for model checking: a relay, a relay with a warm standby, and a   *)
(* STUN peer with a cross-family relay under grants below and above the     *)
(* STUN window.                                                             *)
EXTENDS ConnectResume

StunWindow == 16      \* STUN_RESUME_GIVE_UP_WINDOW

RoutesForTLC ==
  {[grace |-> 5, clamp |-> NoClamp, cross |-> FALSE, standby |-> s] : s \in BOOLEAN}
    \cup {[grace |-> g, clamp |-> StunWindow, cross |-> TRUE, standby |-> FALSE] :
            g \in {2, 5, 18}}
=============================================================================
