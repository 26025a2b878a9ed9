---------------------------- MODULE MCTransport ----------------------------
(* One connection with its packets; the filter alone, with packets that    *)
(* are repeated, broken and out of order; and a client whose attempts to   *)
(* log in are refused.                                                     *)
EXTENDS Transport, LoginRetry, TLC

VARIABLE scene

vars == <<trVars, lrVars, scene>>

Init ==
    /\ TrInit /\ LrInit
    /\ scene \in {"traffic", "silence", "replay", "login"}
    /\ scene # "login" => lrCodes /\ ~lrSpared /\ lrCause = "none"

(* Packets on a network that works, until one side ends it; no packets, on *)
(* a network that may break, with nobody to end it.                        *)
Traffic == scene = "traffic" /\ (Common \/ Endings \/ Packets) /\ UNCHANGED <<lrVars, scene>>
Quiet   == scene = "silence" /\ (Common \/ Beating) /\ UNCHANGED <<lrVars, scene>>
Replay == scene = "replay" /\ ReplayNext /\ UNCHANGED <<dialVars, connVars, restVars, lrVars, scene>>
Login == scene = "login" /\ LrNext /\ UNCHANGED <<trVars, scene>>

Next == Traffic \/ Quiet \/ Replay \/ Login

Of(A) == A /\ UNCHANGED <<lrVars, scene>>

(* The goroutines run; nothing makes a user stop, the network break or a   *)
(* packet come.                                                            *)
Fairness ==
    /\ \A e \in Ends : /\ WF_vars(Of(Reading(e))) /\ WF_vars(Of(Writing(e)))
                       /\ WF_vars(Of(Heartbeat(e))) /\ WF_vars(Of(CloseEnds(e)))
    /\ WF_vars(Of(ClientStep \/ HandshakeTimeout)) /\ WF_vars(Of(ServerStep))

Spec == Init /\ [][Next]_vars /\ Fairness
=============================================================================
