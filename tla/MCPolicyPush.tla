---------------------------- MODULE MCPolicyPush ----------------------------
(* Instances of PolicyPush for TLC. *)
EXTENDS PolicyPush, TLC

CONSTANTS u1, u2

(* The accounts themselves are changed while their peer access is. *)
Each == {{"route"}, {"dns"}, {"access", "account"}}

Symmetric == Permutations(Users)
=============================================================================
