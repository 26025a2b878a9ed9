------------------------------ MODULE MCClient ------------------------------
(***************************************************************************)
(* One run for the three models of the client, which share no variable:    *)
(* scene says which of them this behaviour is about, and the variables of  *)
(* the others keep their initial values.                                   *)
(***************************************************************************)
EXTENDS ClientGui, ClientEngine, ClientPolicy

VARIABLE scene

vars == <<guiVars, engVars, polVars, scene>>

(* The first prefix contains the first gateway. *)
Inside == [p1 |-> {"g1"}]

Init ==
    /\ scene \in {"gui", "engine", "policy"}
    /\ GuiInit /\ EngInit /\ PolInit
    /\ scene # "engine" => ~flags.failFast
    /\ scene # "policy" => ~lans

Gui(A) == scene = "gui" /\ A /\ UNCHANGED <<engVars, polVars, scene>>
(* The callers of Stop are alike: "s1" is the first one to call it.        *)
Eng(A) == /\ scene = "engine" /\ A /\ UNCHANGED <<guiVars, polVars, scene>>
          /\ stop["s1"] = "idle" => stop'["s2"] = "idle"
Pol(A) == scene = "policy" /\ A /\ UNCHANGED <<guiVars, engVars, scene>>

Next == Gui(GuiNext) \/ Eng(EngNext) \/ Pol(PolNext)

Fairness ==
    /\ WF_vars(Gui(Background))
    /\ WF_vars(Eng(LoopStep))
    /\ WF_vars(Eng(CloseStep))
    /\ WF_vars(Eng(StopGoesOn))

Spec == Init /\ [][Next]_vars /\ Fairness

(* The type invariants of the three models, and one operation of the       *)
(* desktop at a time.                                                      *)
ClientTypeOK == GuiTypeOK /\ EngTypeOK /\ PolTypeOK
=============================================================================
