-------------------------- MODULE MCSessionTraffic --------------------------
(* Instances of SessionTraffic for TLC. *)
EXTENDS SessionTraffic, TLC

CONSTANTS c1, c2, c3, u1, u2, u3, h1, a1, a2, d1

OneUser  == [c \in Conns |-> u1]
OneHost  == [c \in Conns |-> h1]
OneIP    == [c \in Conns |-> a1]
TwoIPs   == c1 :> a1 @@ c2 :> a2
NoLans   == [u \in Users |-> {}]
NoRoutes == [u \in Users |-> {}]

(* The second account advertises a LAN to which the first has a managed    *)
(* route; the third gets the second's address after it.                    *)
ThreeUsers    == c1 :> u1 @@ c2 :> u2 @@ c3 :> u3
HandedOver    == c1 :> a1 @@ c2 :> a2 @@ c3 :> a2
FirstBySecond == [u \in Users |-> IF u = u1 THEN {<<d1, u2>>} ELSE {}]
SecondHasLan  == [u \in Users |-> IF u = u2 THEN {d1} ELSE {}]

Symmetric == Permutations({c1, c2})
=============================================================================
