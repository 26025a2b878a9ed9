----------------------------- MODULE MCServices -----------------------------
(***************************************************************************)
(* One run for the models of the server's services, which share no         *)
(* variable: scene says which of them this behaviour is about, and the     *)
(* variables of the others keep their initial values.                      *)
(***************************************************************************)
EXTENDS LanRegistry, WebAuth, ProbeGuard, PolicyTables, TLC

(* The same values serve as requests of each service, and as tokens,       *)
(* accounts and connections: fewer permutations for TLC to compare.        *)
CONSTANTS r1, r2, u1, u2, w1

VARIABLE scene

vars == <<lanVars, waVars, pgVars, ptVars, scene>>

Scenes == {"lan", "accounts", "logins", "guard", "tables"}

(* Of three connections, two are the via's.                                *)
Owners == [c \in {u1, u2, w1} |-> IF c = w1 THEN "m" ELSE "v"]
(* A prefix with a second address in it.                                   *)
Contents == [e \in {"x", "net"} |-> IF e = "x" THEN {"x"} ELSE {"x", "y"}]
Trimmed == [s \in {"n", " n"} |-> "n"]

Init ==
    /\ scene \in Scenes
    /\ LanInit /\ WaInit /\ PgInit /\ PtInit
    /\ scene # "guard" => pgAllowed = {}
    /\ scene # "tables" => ptTopic = "dns"

(* A restart and one more of the events that the exceptions are about.     *)
Lan(A) == /\ scene = "lan" /\ A /\ UNCHANGED <<waVars, pgVars, ptVars, scene>>
          /\ Cardinality(lanSlips' \ {"restart"}) <= 1
(* Requests that change accounts, with no clock; logins, failures and the  *)
(* clock, with one session at a time.                                      *)
Web(A) == /\ scene \in {"accounts", "logins"} /\ A /\ UNCHANGED <<lanVars, pgVars, ptVars, scene>>
          /\ scene = "accounts" => \A r \in Requests : waReq'[r].op # "tunnel" /\ waReq'[r].pw <= MaxPw
          /\ scene = "logins" => /\ Cardinality({t \in Tokens : waSess'[t] # NoSess}) <= 1
                                 /\ \A r \in Requests : waReq'[r].op \notin {"reset", "enable", "delete"}
(* Two requests cross each other, or one crosses a reject being recorded.  *)
Guard(A) == /\ scene = "guard" /\ A /\ UNCHANGED <<lanVars, waVars, ptVars, scene>>
            /\ (\A c \in Clerks : pgClerks'[c] # NoClerk) => \A w \in Watchers : pgTasks'[w] = NoTask
(* Two edits under way are of different kinds, those of lists are of the   *)
(* first row.                                                              *)
Tab(A) == /\ scene = "tables" /\ A /\ UNCHANGED <<lanVars, waVars, pgVars, scene>>
          /\ \A e, f \in Editors : e # f /\ ptEdits'[e].op = ptEdits'[f].op => ptEdits'[e].op = "none"
          /\ \A e \in Editors : ptEdits'[e].op \in {"members", "excludes"} => ptEdits'[e].id <= 1

Clock == scene = "logins" /\ Tick

Next == Lan(LanNext) \/ Web(WaStep) \/ Web(Clock) \/ Guard(PgNext) \/ Tab(PtNext)

Spec == Init /\ [][Next]_vars

Symmetry == Permutations({r1, r2}) \cup Permutations({u1, u2})

(* The type invariants of the models.                                      *)
ServicesTypeOK ==
    CASE scene = "lan" -> LanTypeOK
      [] scene = "guard" -> PgTypeOK
      [] scene = "tables" -> PtTypeOK
      [] OTHER -> WaTypeOK
=============================================================================
