------------------------------ MODULE ConnLife ------------------------------
(***************************************************************************)
(* What the session table promises about the session of a connection: it   *)
(* comes online at most once, at the cost of the account's other session;  *)
(* it leaves once and never comes back; and its departure is reported to   *)
(* the disconnect handler at most once, after it has left.                 *)
(***************************************************************************)
CONSTANTS Users, Conns, UserOf

VARIABLE life

LifeType == life \in [Conns -> {"new", "online", "left", "reported"}]

LifeInit == life = [c \in Conns |-> "new"]

Enter(c) ==
    /\ life[c] = "new"
    /\ life' = [d \in Conns |->
          IF d = c THEN "online"
          ELSE IF life[d] = "online" /\ UserOf[d] = UserOf[c] THEN "left" ELSE life[d]]

Leave(c) == life[c] = "online" /\ life' = [life EXCEPT ![c] = "left"]

Report(c) == life[c] = "left" /\ life' = [life EXCEPT ![c] = "reported"]

LifeNext == \E c \in Conns : Enter(c) \/ Leave(c) \/ Report(c)

LifeSpec == LifeInit /\ [][LifeNext]_life
=============================================================================
