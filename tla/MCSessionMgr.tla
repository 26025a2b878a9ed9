---------------------------- MODULE MCSessionMgr ----------------------------
(* Instances of SessionMgr for TLC. *)
EXTENDS SessionMgr, TLC

CONSTANTS c1, c2, u1, u2, h1, h2, a1, d1

(* Two logins of one account from two hosts, with its one address. *)
OneUser  == [c \in Conns |-> u1]
TwoHosts == c1 :> h1 @@ c2 :> h2
OneIP    == [c \in Conns |-> a1]

(* Nobody advertises a LAN, or u2 does and u1 has a managed route to it. *)
NoLans   == [u \in Users |-> {}]
NoRoutes == [u \in Users |-> {}]
ViaLans  == u1 :> {} @@ u2 :> {d1}
ViaRoute == u1 :> {<<d1, u2>>} @@ u2 :> {}
=============================================================================
