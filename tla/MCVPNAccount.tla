---------------------------- MODULE MCVPNAccount ----------------------------
(* Instances of VPNAccount for TLC. *)
EXTENDS VPNAccount, TLC

CONSTANTS c1, c2, c3

FixedWith(ip) == [state |-> "yes", mode |-> "fixed", ip |-> ip]
InSession   == [state |-> "yes", mode |-> "session", ip |-> NoIP]
InLease     == [state |-> "yes", mode |-> "lease", ip |-> NoIP]
Absent      == [state |-> "no", mode |-> "fixed", ip |-> NoIP]
Deleted     == [state |-> "gone", mode |-> "fixed", ip |-> NoIP]

Twice2Once3 == c1 :> 2 @@ c2 :> 2 @@ c3 :> 3
Twice2Once1 == c1 :> 2 @@ c2 :> 2 @@ c3 :> 1
Once1Once2  == c1 :> 1 @@ c2 :> 2 @@ c3 :> NoUser
Once1       == c1 :> 1 @@ c2 :> NoUser @@ c3 :> NoUser
Nobody      == [c \in Conns |-> NoUser]

(* With restarts and with failing calls of the database, or in peace. *)
Scenario(accounts, logins, ops, troubles) ==
    [accounts |-> accounts, logins |-> logins, admin |-> ops, cleaning |-> FALSE,
     crashes |-> troubles, failures |-> troubles]

(* A dynamic_session account logs in while a fixed one is created and logs *)
(* in, and a third keeps its address; two dynamic_lease accounts log in;   *)
(* an administrator sends any sequence of requests while nobody logs in.   *)
Calm == {Scenario(<<Absent, InSession, FixedWith(3)>>, Twice2Once1, {"create"}, 1),
         Scenario(<<FixedWith(2), InLease, InLease>>, Twice2Once3, {}, 1),
         Scenario(<<FixedWith(2), FixedWith(3), Absent>>, Nobody,
                  {"create", "manual", "dynamic", "patch", "delete"}, 0),
         Scenario(<<FixedWith(2), Absent, Deleted>>, Nobody, {"manual", "patch", "delete"}, 1)}

(* The cleaner is at work while leased accounts log in, one of them new;   *)
(* fixed accounts are created, moved and deleted while they log in.        *)
Busy == {[Scenario(<<FixedWith(2), InLease, Absent>>, Twice2Once3, {"dynamic"}, 1)
          EXCEPT !.cleaning = TRUE],
         Scenario(<<FixedWith(2), Absent, Deleted>>, Once1Once2,
                  {"create", "manual", "rebind", "delete"}, 0),
         [Scenario(<<FixedWith(2), Absent, Deleted>>, Once1, {"manual", "rebind", "delete"}, 1)
          EXCEPT !.crashes = 0]}

AllScenes == Calm \cup Busy
=============================================================================
