-------------------------- MODULE SessionMgrProofs --------------------------
(***************************************************************************)
(* Proofs about SessionMgr: for any accounts, connections and schedule.    *)
(***************************************************************************)
EXTENDS SessionMgr, TLAPS

BeforeMount == {"none", "auth", "ensure", "registry", "policy", "load", "lock",
                "drain", "wait", "mount"}

(* A session belongs to the account it is filed under. *)
OwnSession == \A u \in Users : sessions[u] # NoConn => UserOf[sessions[u]] = u

(* The calls that still owe a disconnect report for a session. *)
Owes(c) == pc[c] = "undo" \/ cb[c] = "disconnect" \/ kick[c] \in {"close", "wait"}

(* Before it is mounted nothing knows the session. *)
Unmounted ==
    \A c \in Conns : pc[c] \in BeforeMount =>
        ~IsCurrent(c) /\ ~onClose[c] /\ ~Owes(c) /\ kick[c] = "no" /\ reports[c] = 0

(* A current session is owed no report and got none. *)
CurrentUnreported ==
    \A c \in Conns : IsCurrent(c) => ~Owes(c) /\ kick[c] = "no" /\ reports[c] = 0

(* One call at most owes the report, and none does once it was made. *)
OneReporter ==
    \A c \in Conns :
        /\ reports[c] \in {0, 1}
        /\ Owes(c) => reports[c] = 0
        /\ pc[c] = "undo" => cb[c] # "disconnect" /\ kick[c] \notin {"close", "wait"}
        /\ cb[c] = "disconnect" => kick[c] \notin {"close", "wait"}

(* The callback of Close, and who is able to miss it. *)
CallbackOrder ==
    \A c \in Conns :
        /\ pc[c] = "none" => cst[c] = "none"
        /\ cb[c] # "idle" => cst[c] = "closed"
        /\ cb[c] \in {"remove", "disconnect"} => onClose[c]
        /\ IsCurrent(c) => pc[c] = "setclose" \/ onClose[c]
        /\ pc[c] \in {"check", "sendok", "switch", "run", "undo"} => onClose[c]
        /\ kick[c] # "no" => Mounted(c)

(* From EnsureVPNIP until the report the address of a connection is the    *)
(* account's in the index: what keeps two holders of one address apart.    *)
HoldsAddress(c) ==
    \/ pc[c] \in {"registry", "policy", "load", "lock", "drain", "wait", "mount"}
    \/ Mounted(c) /\ reports[c] = 0

AddressHeld == \A c \in Conns : HoldsAddress(c) => vpnIndex[IPOf[c]] = UserOf[c]

TableInv ==
    /\ OwnSession
    /\ Unmounted
    /\ CurrentUnreported
    /\ OneReporter
    /\ CallbackOrder
    /\ SessionReachable
    /\ SessionIndexed
    /\ SessionHasCrypto
    /\ NoZombieSession
    /\ AddressHeld

(* What does not speak of the index of addresses. *)
SessionInv ==
    /\ OwnSession
    /\ Unmounted
    /\ CurrentUnreported
    /\ OneReporter
    /\ CallbackOrder
    /\ SessionReachable
    /\ SessionHasCrypto
    /\ NoZombieSession

IInv == TypeOK /\ TableInv

-----------------------------------------------------------------------------
(* A RemoveIfConn leaves a well-typed table. *)
LEMMA RemoveType ==
  ASSUME TypeOK, NEW c \in Conns, RemoveIfConn(c)
  PROVE  /\ sessions' \in [Users -> Conns \cup {NoConn}]
         /\ byIP' \in [IPs -> Conns \cup {NoConn}]
         /\ viaIndex' \subseteq Dests \X Users
<1> USE Constants DEF ConnAssumption, TypeOK
<1>1. CASE IsCurrent(c)
  <2>1. Unlink(c) /\ viaIndex' = ViaOf(sessions')
    BY <1>1 DEF RemoveIfConn
  <2>q. QED BY <2>1 DEF Unlink, ViaOf
<1>2. CASE ~IsCurrent(c)
  BY <1>2 DEF RemoveIfConn, tableVars
<1>q. QED BY <1>1, <1>2

(* Every variable keeps its type. *)
LEMMA TypeStep == TypeOK /\ [Next]_vars => TypeOK'
<1> SUFFICES ASSUME TypeOK, [Next]_vars PROVE TypeOK'
  OBVIOUS
<1> USE Constants DEF ConnAssumption, TypeOK, Labels, Goto, tableVars, objVars, connVars
<1>1. CASE UNCHANGED vars
  BY <1>1 DEF vars
<1>2. ASSUME NEW c \in Conns, Accept(c) PROVE TypeOK'
  BY <1>2 DEF Accept
<1>3. ASSUME NEW c \in Conns, PeerGone(c) PROVE TypeOK'
  BY <1>3 DEF PeerGone, StartClose
<1>4. ASSUME NEW c \in Conns, Handshake(c) PROVE TypeOK'
  <2>1. CASE Authenticate(c)
    BY <2>1 DEF Authenticate
  <2>2. CASE EnsureVPNIP(c)
    BY <2>2 DEF EnsureVPNIP
  <2>3. CASE ApplyLANRegistry(c)
    BY <2>3 DEF ApplyLANRegistry
  <2>4. CASE ResolveClientPolicy(c)
    <3>1. {r \in Managed[UserOf[c]] : r[1] \in registry[r[2]]} \in SUBSET (Dests \X Users)
      BY Managed[UserOf[c]] \in SUBSET (Dests \X Users)
    <3>2. viaRoutes' \in [Conns -> SUBSET (Dests \X Users)]
      BY <2>4, <3>1 DEF ResolveClientPolicy
    <3>q. QED BY <2>4, <3>2 DEF ResolveClientPolicy
  <2>5. CASE LoadExitLANs(c)
    BY <2>5 DEF LoadExitLANs
  <2>6. CASE RegisterFree(c)
    BY <2>6 DEF RegisterFree
  <2>7. CASE RegisterRefused(c)
    BY <2>7 DEF RegisterRefused
  <2>8. CASE RegisterDisplace(c)
    BY <2>8 DEF RegisterDisplace, Unlink
  <2>9. CASE DrainOldConn(c)
    BY <2>9 DEF DrainOldConn, StartClose
  <2>10. CASE DrainReturns(c)
    BY <2>10 DEF DrainReturns
  <2>11. CASE Mount(c)
    BY <2>11 DEF Mount, ViaOf
  <2>12. CASE SetOnClose(c)
    BY <2>12 DEF SetOnClose
  <2>13. CASE CheckState(c)
    <3>1. sessions' \in [Users -> Conns \cup {NoConn}] /\ byIP' \in [IPs -> Conns \cup {NoConn}]
          /\ viaIndex' \subseteq Dests \X Users
      BY <2>13, RemoveType DEF CheckState
    <3>q. QED BY <2>13, <3>1 DEF CheckState
  <2>14. CASE SendOK(c)
    <3>1. sessions' \in [Users -> Conns \cup {NoConn}] /\ byIP' \in [IPs -> Conns \cup {NoConn}]
          /\ viaIndex' \subseteq Dests \X Users
      BY <2>14, RemoveType DEF SendOK
    <3>q. QED BY <2>14, <3>1 DEF SendOK
  <2>15. CASE Undo(c)
    BY <2>15 DEF Undo, OnDisconnect
  <2>16. CASE SwitchToForwarding(c)
    BY <2>16 DEF SwitchToForwarding
  <2>17. CASE ReadLoopEnds(c)
    BY <2>17 DEF ReadLoopEnds
  <2>18. CASE Shut(c)
    BY <2>18 DEF Shut, StartClose
  <2>q. QED BY <1>4, <2>1, <2>2, <2>3, <2>4, <2>5, <2>6, <2>7, <2>8, <2>9, <2>10, <2>11, <2>12, <2>13, <2>14, <2>15, <2>16, <2>17, <2>18 DEF Handshake
<1>5. ASSUME NEW c \in Conns, Closing(c) PROVE TypeOK'
  <2>1. CASE CloseReadsCallback(c)
    BY <2>1 DEF CloseReadsCallback
  <2>2. CASE CloseRemoves(c)
    BY <2>2, RemoveType DEF CloseRemoves
  <2>3. CASE CloseDisconnects(c)
    BY <2>3 DEF CloseDisconnects, OnDisconnect
  <2>q. QED BY <1>5, <2>1, <2>2, <2>3 DEF Closing
<1>6. ASSUME NEW c \in Conns, Kicking(c) PROVE TypeOK'
  <2>1. CASE KickCloses(c)
    BY <2>1 DEF KickCloses, StartClose
  <2>2. CASE KickDisconnects(c)
    BY <2>2 DEF KickDisconnects, OnDisconnect
  <2>q. QED BY <1>6, <2>1, <2>2 DEF Kicking
<1>7. ASSUME NEW u \in Users, KickUser(u) PROVE TypeOK'
  BY <1>7 DEF KickUser, Unlink, ViaOf
<1>8. ASSUME NEW u \in Users, NEW ip \in IPs, PlaceOnAddress(u, ip) PROVE TypeOK'
  BY <1>8 DEF PlaceOnAddress
<1>q. QED BY <1>1, <1>2, <1>3, <1>4, <1>5, <1>6, <1>7, <1>8 DEF Next

(* TypeOK is an invariant. *)
THEOREM TypeCorrect == Spec => []TypeOK
<1>1. Init => TypeOK
  BY Constants DEF ConnAssumption, Init, TypeOK, Labels
<1>q. QED BY <1>1, TypeStep, PTL DEF Spec

(* Every step of the table keeps the sessions in order. *)
LEMMA SessionStep == IInv /\ [Next]_vars => SessionInv'
<1> SUFFICES ASSUME TypeOK, TableInv, [Next]_vars PROVE SessionInv'
  BY DEF IInv
<1> USE Constants DEF ConnAssumption, TypeOK, Labels, Goto, tableVars, objVars, connVars,
        TableInv, SessionInv, OwnSession, Unmounted, CurrentUnreported, OneReporter, CallbackOrder, SessionReachable,
        SessionIndexed, SessionHasCrypto, NoZombieSession, BeforeMount, Owes, IsCurrent, Mounted
<1>1. CASE UNCHANGED vars
  BY <1>1 DEF vars
<1>2. ASSUME NEW c \in Conns, Accept(c) PROVE SessionInv'
  BY <1>2 DEF Accept
<1>3. ASSUME NEW c \in Conns, PeerGone(c) PROVE SessionInv'
  BY <1>3 DEF PeerGone, StartClose
<1>4. ASSUME NEW c \in Conns, Handshake(c) PROVE SessionInv'
  <2>1. CASE Authenticate(c)
    <3>1. CASE Goto(c, "ensure")
      BY <2>1, <3>1 DEF Authenticate
    <3>2. CASE Goto(c, "shut")
      BY <2>1, <3>2 DEF Authenticate
    <3>q. QED BY <2>1, <3>1, <3>2 DEF Authenticate
  <2>2. CASE EnsureVPNIP(c)
    <3>1. CASE Goto(c, "registry")
      BY <2>2, <3>1 DEF EnsureVPNIP
    <3>2. CASE Goto(c, "shut")
      BY <2>2, <3>2 DEF EnsureVPNIP
    <3>q. QED BY <2>2, <3>1, <3>2 DEF EnsureVPNIP
  <2>3. CASE ApplyLANRegistry(c)
    BY <2>3 DEF ApplyLANRegistry
  <2>4. CASE ResolveClientPolicy(c)
    <3>1. CASE Goto(c, "load")
      BY <2>4, <3>1 DEF ResolveClientPolicy
    <3>2. CASE Goto(c, "shut")
      BY <2>4, <3>2 DEF ResolveClientPolicy
    <3>q. QED BY <2>4, <3>1, <3>2 DEF ResolveClientPolicy
  <2>5. CASE LoadExitLANs(c)
    BY <2>5 DEF LoadExitLANs
  <2>6. CASE RegisterFree(c)
    BY <2>6 DEF RegisterFree
  <2>7. CASE RegisterRefused(c)
    BY <2>7 DEF RegisterRefused
  <2>8. CASE RegisterDisplace(c)
    BY <2>8 DEF RegisterDisplace, Unlink
  <2>9. CASE DrainOldConn(c)
    BY <2>9 DEF DrainOldConn, StartClose
  <2>10. CASE DrainReturns(c)
    BY <2>10 DEF DrainReturns
  <2>11. CASE Mount(c)
    <3>1. \A u \in Users : sessions[u] # NoConn /\ IPOf[sessions[u]] = IPOf[c] => u = UserOf[c]
      BY <2>11 DEF Mount, AddressHeld, HoldsAddress
    <3>q. QED BY <2>11, <3>1 DEF Mount
  <2>12. CASE SetOnClose(c)
    BY <2>12 DEF SetOnClose
  <2>13. CASE CheckState(c)
    <3>1. CASE Goto(c, "sendok") /\ UNCHANGED tableVars
      BY <2>13, <3>1 DEF CheckState
    <3>2. CASE RemoveIfConn(c) /\ IsCurrent(c) /\ Goto(c, "undo")
      <4>1. Unlink(c)
        BY <3>2 DEF RemoveIfConn
      <4>q. QED BY <2>13, <3>2, <4>1 DEF CheckState, Unlink
    <3>3. CASE RemoveIfConn(c) /\ ~IsCurrent(c) /\ Goto(c, "shut")
      BY <2>13, <3>3 DEF CheckState, RemoveIfConn
    <3>q. QED BY <2>13, <3>1, <3>2, <3>3 DEF CheckState
  <2>14. CASE SendOK(c)
    <3>1. CASE Goto(c, "switch") /\ UNCHANGED tableVars
      BY <2>14, <3>1 DEF SendOK
    <3>2. CASE RemoveIfConn(c) /\ IsCurrent(c) /\ Goto(c, "undo")
      <4>1. Unlink(c)
        BY <3>2 DEF RemoveIfConn
      <4>q. QED BY <2>14, <3>2, <4>1 DEF SendOK, Unlink
    <3>3. CASE RemoveIfConn(c) /\ ~IsCurrent(c) /\ Goto(c, "shut")
      BY <2>14, <3>3 DEF SendOK, RemoveIfConn
    <3>q. QED BY <2>14, <3>1, <3>2, <3>3 DEF SendOK
  <2>15. CASE Undo(c)
    BY <2>15 DEF Undo, OnDisconnect
  <2>16. CASE SwitchToForwarding(c)
    BY <2>16 DEF SwitchToForwarding
  <2>17. CASE ReadLoopEnds(c)
    BY <2>17 DEF ReadLoopEnds
  <2>18. CASE Shut(c)
    BY <2>18 DEF Shut, StartClose
  <2>q. QED BY <1>4, <2>1, <2>2, <2>3, <2>4, <2>5, <2>6, <2>7, <2>8, <2>9, <2>10, <2>11, <2>12, <2>13, <2>14, <2>15, <2>16, <2>17, <2>18 DEF Handshake
<1>5. ASSUME NEW c \in Conns, Closing(c) PROVE SessionInv'
  <2>1. CASE CloseReadsCallback(c)
    BY <2>1 DEF CloseReadsCallback
  <2>2. CASE CloseRemoves(c)
    <3>1. CASE IsCurrent(c)
      <4>1. Unlink(c)
        BY <2>2, <3>1 DEF CloseRemoves, RemoveIfConn
      <4>q. QED BY <2>2, <3>1, <4>1 DEF CloseRemoves, Unlink
    <3>2. CASE ~IsCurrent(c)
      BY <2>2, <3>2 DEF CloseRemoves, RemoveIfConn
    <3>q. QED BY <3>1, <3>2
  <2>3. CASE CloseDisconnects(c)
    BY <2>3 DEF CloseDisconnects, OnDisconnect
  <2>q. QED BY <1>5, <2>1, <2>2, <2>3 DEF Closing
<1>6. ASSUME NEW c \in Conns, Kicking(c) PROVE SessionInv'
  <2>1. CASE KickCloses(c)
    BY <2>1 DEF KickCloses, StartClose
  <2>2. CASE KickDisconnects(c)
    BY <2>2 DEF KickDisconnects, OnDisconnect
  <2>q. QED BY <1>6, <2>1, <2>2 DEF Kicking
<1>7. ASSUME NEW u \in Users, KickUser(u) PROVE SessionInv'
  BY <1>7 DEF KickUser, Unlink
<1>8. ASSUME NEW u \in Users, NEW ip \in IPs, PlaceOnAddress(u, ip) PROVE SessionInv'
  BY <1>8 DEF PlaceOnAddress
<1>q. QED BY <1>1, <1>2, <1>3, <1>4, <1>5, <1>6, <1>7, <1>8 DEF Next

(* A step that writes nothing of an address, and after which nobody holds  *)
(* one who did not before.                                                 *)
LEMMA HeldSame ==
  ASSUME AddressHeld, UNCHANGED vpnIndex,
         \A d \in Conns : HoldsAddress(d)' => HoldsAddress(d)
  PROVE  AddressHeld'
  BY DEF AddressHeld

(* A step that writes an address under an account, for a connection of the *)
(* account or nobody.                                                      *)
LEMMA HeldWritten ==
  ASSUME TypeOK, AddressHeld, NEW ip \in IPs, NEW u \in Users,
         vpnIndex[ip] \in {u, NoUser}, vpnIndex' = [vpnIndex EXCEPT ![ip] = u],
         \A d \in Conns : HoldsAddress(d)' => HoldsAddress(d) \/ (UserOf[d] = u /\ IPOf[d] = ip)
  PROVE  AddressHeld'
  BY Constants DEF AddressHeld, ConnAssumption, TypeOK

(* The report that a call owes is the first of its session.                *)
LEMMA ReportMade ==
  ASSUME IInv, NEW c \in Conns, OnDisconnect(c), Owes(c)
  PROVE  reports[c] = 0 /\ reports' = [reports EXCEPT ![c] = 1]
<1>1. reports[c] = 0
  BY DEF IInv, TableInv, OneReporter
<1>2. reports' = [reports EXCEPT ![c] = reports[c] + 1]
  BY DEF OnDisconnect
<1>q. QED BY <1>1, <1>2

(* The disconnect handler gives up an address that nobody else holds.      *)
LEMMA HeldReported ==
  ASSUME IInv, NEW c \in Conns, OnDisconnect(c), Owes(c),
         \A d \in Conns \ {c} : HoldsAddress(d)' => HoldsAddress(d),
         HoldsAddress(c)' => FALSE
  PROVE  AddressHeld'
<1> USE Constants DEF ConnAssumption, TypeOK, IInv, TableInv
<1>1. CASE UserOf[c] \notin Dynamic
  BY <1>1 DEF OnDisconnect, AddressHeld
<1>2. CASE UserOf[c] \in Dynamic
  <2>1. HoldsAddress(c)
    BY DEF Owes, OneReporter, CallbackOrder, HoldsAddress, Mounted
  <2>2. ASSUME NEW d \in Conns \ {c}, HoldsAddress(d) PROVE IPOf[d] # IPOf[c]
    BY <1>2, <2>1, <2>2 DEF AddressHeld, AddressAssumption
  <2>q. QED BY <1>2, <2>2 DEF OnDisconnect, AddressHeld
<1>q. QED BY <1>1, <1>2

LEMMA HeldStep == IInv /\ [Next]_vars => AddressHeld'
<1> SUFFICES ASSUME IInv, [Next]_vars PROVE AddressHeld'
  OBVIOUS
<1> DEFINE Keeps == \A d \in Conns : HoldsAddress(d)' => HoldsAddress(d)
<1> USE Constants DEF ConnAssumption, TypeOK, IInv, Labels, Goto, tableVars, objVars, connVars, Mounted
<1>1. CASE UNCHANGED vars
  BY <1>1, HeldSame DEF vars, HoldsAddress, TableInv
<1>2. ASSUME NEW c \in Conns, Accept(c) \/ PeerGone(c) \/ KickCloses(c) PROVE AddressHeld'
  <2>1. Keeps /\ UNCHANGED vpnIndex
    BY <1>2 DEF Accept, PeerGone, KickCloses, HoldsAddress
  <2>q. QED BY <2>1, HeldSame DEF TableInv
<1>3. ASSUME NEW c \in Conns, KickDisconnects(c) PROVE AddressHeld'
  <2>1. OnDisconnect(c) /\ Owes(c) /\ UNCHANGED <<pc, onClose>>
    BY <1>3 DEF KickDisconnects, Owes
  <2>2. reports[c] = 0 /\ reports' = [reports EXCEPT ![c] = 1]
    BY <2>1, ReportMade
  <2>3. pc[c] \notin BeforeMount
    BY <2>1 DEF TableInv, Unmounted
  <2>q. QED BY <2>1, <2>2, <2>3, HeldReported DEF HoldsAddress, BeforeMount
<1>4. ASSUME NEW c \in Conns, Closing(c) PROVE AddressHeld'
  <2>1. CASE CloseReadsCallback(c) \/ CloseRemoves(c)
    <3>1. Keeps /\ UNCHANGED vpnIndex
      BY <2>1 DEF CloseReadsCallback, CloseRemoves, HoldsAddress
    <3>q. QED BY <3>1, HeldSame DEF TableInv
  <2>2. CASE CloseDisconnects(c)
    <3>1. OnDisconnect(c) /\ Owes(c) /\ UNCHANGED <<pc, onClose>>
      BY <2>2 DEF CloseDisconnects, Owes
    <3>2. reports[c] = 0 /\ reports' = [reports EXCEPT ![c] = 1]
      BY <3>1, ReportMade
    <3>3. pc[c] \notin BeforeMount
      BY <3>1 DEF TableInv, Unmounted
    <3>q. QED BY <3>1, <3>2, <3>3, HeldReported DEF HoldsAddress, BeforeMount
  <2>q. QED BY <1>4, <2>1, <2>2 DEF Closing
<1>5. ASSUME NEW c \in Conns, Handshake(c) PROVE AddressHeld'
  <2>1. CASE Authenticate(c) \/ ApplyLANRegistry(c) \/ ResolveClientPolicy(c) \/ LoadExitLANs(c)
    <3>1. Keeps /\ UNCHANGED vpnIndex
      BY <2>1 DEF Authenticate, ApplyLANRegistry, ResolveClientPolicy, LoadExitLANs, HoldsAddress
    <3>q. QED BY <3>1, HeldSame DEF TableInv
  <2>2. CASE RegisterFree(c) \/ RegisterRefused(c) \/ RegisterDisplace(c) \/ DrainOldConn(c) \/ DrainReturns(c)
    <3>1. Keeps /\ UNCHANGED vpnIndex
      BY <2>2 DEF RegisterFree, RegisterRefused, RegisterDisplace, DrainOldConn, DrainReturns, HoldsAddress
    <3>q. QED BY <3>1, HeldSame DEF TableInv
  <2>3. CASE SetOnClose(c) \/ CheckState(c) \/ SendOK(c) \/ SwitchToForwarding(c) \/ ReadLoopEnds(c) \/ Shut(c)
    <3>1. Keeps /\ UNCHANGED vpnIndex
      BY <2>3 DEF SetOnClose, CheckState, SendOK, SwitchToForwarding, ReadLoopEnds, Shut, HoldsAddress
    <3>q. QED BY <3>1, HeldSame DEF TableInv
  <2>4. CASE EnsureVPNIP(c)
    <3>1. CASE Goto(c, "shut") /\ UNCHANGED vpnIndex
      <4>1. Keeps
        BY <2>4, <3>1 DEF EnsureVPNIP, HoldsAddress
      <4>q. QED BY <3>1, <4>1, HeldSame DEF TableInv
    <3>2. CASE ~(Goto(c, "shut") /\ UNCHANGED vpnIndex)
      <4>1. /\ vpnIndex[IPOf[c]] \in {UserOf[c], NoUser}
            /\ vpnIndex' = [vpnIndex EXCEPT ![IPOf[c]] = UserOf[c]]
        BY <2>4, <3>2 DEF EnsureVPNIP
      <4>2. \A d \in Conns : HoldsAddress(d)' => HoldsAddress(d) \/ d = c
        BY <2>4, <3>2 DEF EnsureVPNIP, HoldsAddress
      <4>5. \A d \in Conns : HoldsAddress(d)' => HoldsAddress(d) \/ (UserOf[d] = UserOf[c] /\ IPOf[d] = IPOf[c])
        BY ONLY <4>2
      <4>3. UserOf[c] \in Users /\ IPOf[c] \in IPs
        OBVIOUS
      <4>4. TypeOK /\ AddressHeld
        BY DEF TableInv
      <4>q. QED BY ONLY <4>1, <4>3, <4>4, <4>5, HeldWritten
    <3>q. QED BY <3>1, <3>2
  <2>5. CASE Mount(c)
    <3>1. pc[c] = "mount" /\ vpnIndex' = [vpnIndex EXCEPT ![IPOf[c]] = UserOf[c]]
      BY <2>5 DEF Mount
    <3>2. vpnIndex[IPOf[c]] = UserOf[c]
      BY <3>1 DEF TableInv, AddressHeld, HoldsAddress
    <3>3. Keeps
      BY <2>5 DEF Mount, HoldsAddress
    <3>4. UserOf[c] \in Users /\ IPOf[c] \in IPs
      OBVIOUS
    <3>q. QED BY <3>1, <3>2, <3>3, <3>4, HeldWritten DEF TableInv
  <2>6. CASE Undo(c)
    <3>1. OnDisconnect(c) /\ Owes(c) /\ UNCHANGED onClose /\ pc' = [pc EXCEPT ![c] = "shut"]
      BY <2>6 DEF Undo, Owes
    <3>2. reports[c] = 0 /\ reports' = [reports EXCEPT ![c] = 1]
      BY <3>1, ReportMade
    <3>q. QED BY <3>1, <3>2, HeldReported DEF HoldsAddress
  <2>q. QED BY <1>5, <2>1, <2>2, <2>3, <2>4, <2>5, <2>6 DEF Handshake
<1>6. ASSUME NEW u \in Users, KickUser(u) PROVE AddressHeld'
  <2>1. Keeps /\ UNCHANGED vpnIndex
    BY <1>6 DEF KickUser, HoldsAddress
  <2>q. QED BY <2>1, HeldSame DEF TableInv
<1>7. ASSUME NEW u \in Users, NEW ip \in IPs, PlaceOnAddress(u, ip) PROVE AddressHeld'
  <2>1. Keeps /\ vpnIndex[ip] = NoUser /\ vpnIndex' = [vpnIndex EXCEPT ![ip] = u]
    BY <1>7 DEF PlaceOnAddress, HoldsAddress
  <2>q. QED BY <2>1, HeldWritten DEF TableInv
<1>q. QED BY <1>1, <1>2, <1>3, <1>4, <1>5, <1>6, <1>7 DEF Next, Kicking

(* A mounted session that nobody has reported holds its address: it is in  *)
(* the index.                                                              *)
LEMMA TableStep == IInv /\ [Next]_vars => TableInv'
<1> SUFFICES ASSUME IInv, [Next]_vars PROVE TableInv'
  OBVIOUS
<1>1. TypeOK' /\ SessionInv' /\ AddressHeld'
  BY TypeStep, SessionStep, HeldStep DEF IInv
<1>2. SessionIndexed'
  BY <1>1, Constants DEF ConnAssumption, TypeOK, SessionInv, OwnSession, CurrentUnreported, CallbackOrder,
     AddressHeld, HoldsAddress, SessionIndexed, IsCurrent, Mounted
<1>q. QED BY <1>1, <1>2 DEF SessionInv, TableInv

-----------------------------------------------------------------------------
LEMMA InvInit == Init => IInv
<1> SUFFICES ASSUME Init PROVE IInv
  OBVIOUS
<1>1. TypeOK
  BY Constants DEF ConnAssumption, Init, TypeOK, Labels
<1>2. TableInv
  BY Constants DEF ConnAssumption, Init, TableInv, OwnSession, Unmounted, CurrentUnreported, OneReporter,
     CallbackOrder, SessionReachable, SessionIndexed, SessionHasCrypto, NoZombieSession, BeforeMount,
     Owes, IsCurrent, Mounted, AddressHeld, HoldsAddress
<1>q. QED BY <1>1, <1>2 DEF IInv

(* The strengthened invariant. *)
THEOREM TableCorrect == Spec => []IInv
<1>1. IInv /\ [Next]_vars => IInv'
  BY TypeStep, TableStep DEF IInv
<1>q. QED BY InvInit, <1>1, PTL DEF Spec

(* RouteOutbound finds every online session under its address. *)
THEOREM Reachable == Spec => []SessionReachable
<1>1. IInv => SessionReachable
  BY DEF IInv, TableInv
<1>q. QED BY TableCorrect, <1>1, PTL

(* The lateral-access check knows the owner of every online address. *)
THEOREM Indexed == Spec => []SessionIndexed
<1>1. IInv => SessionIndexed
  BY DEF IInv, TableInv
<1>q. QED BY TableCorrect, <1>1, PTL

(* No session survives the Close of its connection unnoticed. *)
THEOREM NoZombie == Spec => []NoZombieSession
<1>1. IInv => NoZombieSession
  BY DEF IInv, TableInv
<1>q. QED BY TableCorrect, <1>1, PTL

(* The disconnect handler runs at most once for a session. *)
THEOREM Reported == Spec => []ReportedOnce
<1>1. IInv => ReportedOnce
  BY DEF IInv, TableInv, OneReporter, CurrentUnreported, ReportedOnce
<1>q. QED BY TableCorrect, <1>1, PTL

-----------------------------------------------------------------------------
(* No step of Close or of another handshake takes a healthy session away. *)
LEMMA CauseStep == IInv /\ Next => \A u \in Users : LeavesForCause(u)
<1> SUFFICES ASSUME IInv, Next, NEW u \in Users, sessions[u] # NoConn, sessions'[u] # sessions[u]
             PROVE  LeavesForCause(u)
  BY DEF LeavesForCause
<1> USE Constants DEF ConnAssumption, TypeOK, IInv, TableInv, OwnSession, CurrentUnreported, CallbackOrder,
        LeavesForCause, Goto, Labels, IsCurrent, tableVars
<1>1. ASSUME NEW c \in Conns, Accept(c) \/ PeerGone(c) \/ Kicking(c) PROVE LeavesForCause(u)
  BY <1>1 DEF Accept, PeerGone, Kicking, KickCloses, KickDisconnects
<1>2. ASSUME NEW c \in Conns, Handshake(c) PROVE LeavesForCause(u)
  <2>1. CASE RegisterDisplace(c)
    BY <2>1 DEF RegisterDisplace, Unlink
  <2>2. CASE Mount(c)
    BY <2>2 DEF Mount
  <2>3. CASE CheckState(c) \/ SendOK(c)
    BY <2>3 DEF CheckState, SendOK, RemoveIfConn, Unlink
  <2>4. CASE Authenticate(c) \/ EnsureVPNIP(c) \/ ApplyLANRegistry(c) \/ ResolveClientPolicy(c)
    BY <2>4 DEF Authenticate, EnsureVPNIP, ApplyLANRegistry, ResolveClientPolicy
  <2>5. CASE LoadExitLANs(c) \/ RegisterFree(c) \/ RegisterRefused(c) \/ DrainOldConn(c) \/ DrainReturns(c)
    BY <2>5 DEF LoadExitLANs, RegisterFree, RegisterRefused, DrainOldConn, DrainReturns
  <2>6. CASE SetOnClose(c) \/ Undo(c) \/ SwitchToForwarding(c) \/ ReadLoopEnds(c) \/ Shut(c)
    BY <2>6 DEF SetOnClose, Undo, SwitchToForwarding, ReadLoopEnds, Shut
  <2>q. QED BY <1>2, <2>1, <2>2, <2>3, <2>4, <2>5, <2>6 DEF Handshake
<1>3. ASSUME NEW c \in Conns, Closing(c) PROVE LeavesForCause(u)
  <2>1. CASE CloseRemoves(c)
    BY <2>1 DEF CloseRemoves, RemoveIfConn, Unlink
  <2>2. CASE CloseReadsCallback(c) \/ CloseDisconnects(c)
    BY <2>2 DEF CloseReadsCallback, CloseDisconnects
  <2>q. QED BY <1>3, <2>1, <2>2 DEF Closing
<1>4. ASSUME NEW v \in Users, KickUser(v) PROVE LeavesForCause(u)
  BY <1>4 DEF KickUser, Unlink
<1>5. ASSUME NEW v \in Users, NEW ip \in IPs, PlaceOnAddress(v, ip) PROVE LeavesForCause(u)
  BY <1>5 DEF PlaceOnAddress
<1>q. QED BY <1>1, <1>2, <1>3, <1>4, <1>5 DEF Next

(* A session only leaves the table for a cause of its own or of a login. *)
THEOREM ForCause == Spec => RemovedForCause
<1>1. IInv /\ [Next]_vars => [\A u \in Users : LeavesForCause(u)]_vars
  BY CauseStep
<1>q. QED BY TableCorrect, <1>1, PTL DEF Spec, RemovedForCause

-----------------------------------------------------------------------------
(* The index of the vias.                                                  *)

(* A RegisterVPN has displaced a session and has not mounted its own. *)
Displacing(c) == pc[c] \in {"drain", "wait", "mount"} /\ victim[c] # NoConn

(* A step that leaves sessions, routes and index alone keeps the index     *)
(* exact, unless it ends a displacement.                                   *)
LEMMA ViaSame ==
  ASSUME ViaIndexExact, UNCHANGED <<sessions, viaIndex, viaRoutes>>,
         \A c \in Conns : Displacing(c) => Displacing(c)'
  PROVE  ViaIndexExact'
  BY DEF ViaIndexExact, ViaOf, Displacing

(* A step that rebuilds the index, or removes nobody. *)
LEMMA ViaRebuilt ==
  ASSUME UNCHANGED viaRoutes, viaIndex' = ViaOf(sessions')
  PROVE  ViaIndexExact'
  BY DEF ViaIndexExact, ViaOf

LEMMA ViaRemove ==
  ASSUME ViaIndexExact, NEW c \in Conns, RemoveIfConn(c), UNCHANGED viaRoutes,
         \A d \in Conns : Displacing(d) => Displacing(d)'
  PROVE  ViaIndexExact'
<1>1. CASE IsCurrent(c)
  BY <1>1, ViaRebuilt DEF RemoveIfConn
<1>2. CASE ~IsCurrent(c)
  BY <1>2, ViaSame DEF RemoveIfConn, tableVars
<1>q. QED BY <1>1, <1>2

(* The routes of a handshake's session are not in the index before it is   *)
(* mounted: writing them changes nothing.                                  *)
LEMMA ViaResolve ==
  ASSUME IInv, ViaIndexExact, NEW c \in Conns, ResolveClientPolicy(c)
  PROVE  ViaIndexExact'
<1> USE Constants DEF ConnAssumption, TypeOK, IInv
<1>1. \A u \in Users : sessions[u] # c
  BY DEF TableInv, OwnSession, Unmounted, BeforeMount, IsCurrent, ResolveClientPolicy
<1>2. \A d \in Conns \ {c} : viaRoutes'[d] = viaRoutes[d]
  BY DEF ResolveClientPolicy
<1>3. ViaOf(sessions)' = ViaOf(sessions)
  <2>1. UNCHANGED sessions
    BY DEF ResolveClientPolicy, tableVars
  <2>2. \A u \in Users : sessions[u] # NoConn => viaRoutes'[sessions[u]] = viaRoutes[sessions[u]]
    BY <1>1, <1>2
  <2>q. QED BY <2>1, <2>2 DEF ViaOf
<1>4. \A d \in Conns : Displacing(d) => Displacing(d)'
  BY DEF Displacing, ResolveClientPolicy, Goto, Labels
<1>q. QED BY <1>3, <1>4 DEF ViaIndexExact, Displacing, ResolveClientPolicy, tableVars

LEMMA ViaStep == IInv /\ ViaIndexExact /\ [Next]_vars => ViaIndexExact'
<1> SUFFICES ASSUME IInv, ViaIndexExact, [Next]_vars PROVE ViaIndexExact'
  OBVIOUS
<1> DEFINE Keeps == \A d \in Conns : Displacing(d) => Displacing(d)'
<1> USE Constants DEF ConnAssumption, TypeOK, IInv, Labels, Goto, tableVars, objVars, connVars
<1>1. CASE UNCHANGED vars
  <2>1. Keeps
    BY <1>1 DEF vars, Displacing
  <2>q. QED BY <1>1, <2>1, ViaSame DEF vars
<1>2. ASSUME NEW c \in Conns, Accept(c) \/ PeerGone(c) PROVE ViaIndexExact'
  <2>1. Keeps
    BY <1>2 DEF Accept, PeerGone, Displacing
  <2>q. QED BY <1>2, <2>1, ViaSame DEF Accept, PeerGone
<1>3. ASSUME NEW c \in Conns, Handshake(c) PROVE ViaIndexExact'
  <2>1. CASE Authenticate(c) \/ EnsureVPNIP(c) \/ ApplyLANRegistry(c) \/ LoadExitLANs(c)
    <3>1. Keeps
      BY <2>1 DEF Authenticate, EnsureVPNIP, ApplyLANRegistry, LoadExitLANs, Displacing
    <3>q. QED BY <2>1, <3>1, ViaSame DEF Authenticate, EnsureVPNIP, ApplyLANRegistry, LoadExitLANs
  <2>2. CASE ResolveClientPolicy(c)
    BY <2>2, ViaResolve
  <2>3. CASE RegisterFree(c) \/ RegisterRefused(c) \/ DrainOldConn(c) \/ DrainReturns(c)
    <3>1. Keeps
      BY <2>3 DEF RegisterFree, RegisterRefused, DrainOldConn, DrainReturns, Displacing
    <3>q. QED BY <2>3, <3>1, ViaSame DEF RegisterFree, RegisterRefused, DrainOldConn, DrainReturns
  <2>4. CASE RegisterDisplace(c)
    <3>1. pc'[c] = "drain" /\ victim'[c] # NoConn
      BY <2>4 DEF RegisterDisplace
    <3>q. QED BY <3>1 DEF ViaIndexExact
  <2>5. CASE Mount(c)
    BY <2>5, ViaRebuilt DEF Mount
  <2>6. CASE CheckState(c) \/ SendOK(c)
    <3>1. Keeps /\ UNCHANGED viaRoutes
      BY <2>6 DEF CheckState, SendOK, Displacing
    <3>2. RemoveIfConn(c) \/ UNCHANGED tableVars
      BY <2>6 DEF CheckState, SendOK
    <3>q. QED BY <3>1, <3>2, ViaSame, ViaRemove
  <2>7. CASE SetOnClose(c) \/ Undo(c) \/ SwitchToForwarding(c) \/ ReadLoopEnds(c) \/ Shut(c)
    <3>1. Keeps
      BY <2>7 DEF SetOnClose, Undo, SwitchToForwarding, ReadLoopEnds, Shut, Displacing
    <3>q. QED BY <2>7, <3>1, ViaSame DEF SetOnClose, Undo, SwitchToForwarding, ReadLoopEnds, Shut
  <2>q. QED BY <1>3, <2>1, <2>2, <2>3, <2>4, <2>5, <2>6, <2>7 DEF Handshake
<1>4. ASSUME NEW c \in Conns, Closing(c) \/ Kicking(c) PROVE ViaIndexExact'
  <2>1. Keeps /\ UNCHANGED viaRoutes
    BY <1>4 DEF Closing, CloseReadsCallback, CloseRemoves, CloseDisconnects, Kicking, KickCloses,
                KickDisconnects, Displacing
  <2>2. RemoveIfConn(c) \/ UNCHANGED tableVars
    BY <1>4 DEF Closing, CloseReadsCallback, CloseRemoves, CloseDisconnects, Kicking, KickCloses, KickDisconnects
  <2>q. QED BY <2>1, <2>2, ViaSame, ViaRemove
<1>5. ASSUME NEW u \in Users, KickUser(u) PROVE ViaIndexExact'
  BY <1>5, ViaRebuilt DEF KickUser
<1>6. ASSUME NEW u \in Users, NEW ip \in IPs, PlaceOnAddress(u, ip) PROVE ViaIndexExact'
  <2>1. Keeps
    BY <1>6 DEF PlaceOnAddress, Displacing
  <2>q. QED BY <1>6, <2>1, ViaSame DEF PlaceOnAddress
<1>q. QED BY <1>1, <1>2, <1>3, <1>4, <1>5, <1>6 DEF Next

(* The index of the vias is what the sessions on the table say, except     *)
(* while a displacement is between its two critical sections.              *)
THEOREM ViaExact == Spec => []ViaIndexExact
<1>1. Init => ViaIndexExact
  BY DEF Init, ViaIndexExact, ViaOf
<1>q. QED BY <1>1, ViaStep, TableCorrect, PTL DEF Spec

-----------------------------------------------------------------------------
(* The refinement of ConnLife.                                             *)

lives == [c \in Conns |-> LifeOf(c)]

(* A step that changes nothing LifeOf(d) looks at. *)
SameLife(d) ==
    /\ IsCurrent(d)' <=> IsCurrent(d)
    /\ Mounted(d)' <=> Mounted(d)
    /\ reports'[d] = reports[d]

(* What the invariant leaves of the cases of LifeOf. *)
LEMMA LifeCases ==
  ASSUME IInv, NEW c \in Conns
  PROVE  /\ IsCurrent(c) => LifeOf(c) = "online"
         /\ ~IsCurrent(c) /\ reports[c] = 1 => LifeOf(c) = "reported"
         /\ ~IsCurrent(c) /\ reports[c] = 0 /\ Mounted(c) => LifeOf(c) = "left"
         /\ ~IsCurrent(c) /\ reports[c] = 0 /\ ~Mounted(c) => LifeOf(c) = "new"
  BY DEF LifeOf

(* The same facts one step later. *)
LEMMA LifeCasesNext ==
  ASSUME IInv', NEW c \in Conns
  PROVE  /\ IsCurrent(c)' => LifeOf(c)' = "online"
         /\ ~IsCurrent(c)' /\ reports'[c] = 1 => LifeOf(c)' = "reported"
         /\ ~IsCurrent(c)' /\ reports'[c] = 0 /\ Mounted(c)' => LifeOf(c)' = "left"
         /\ ~IsCurrent(c)' /\ reports'[c] = 0 /\ ~Mounted(c)' => LifeOf(c)' = "new"
  BY DEF LifeOf

LEMMA SameStep ==
  ASSUME IInv, IInv', NEW d \in Conns, SameLife(d)
  PROVE  LifeOf(d)' = LifeOf(d)
<1>1. reports[d] \in {0, 1}
  BY DEF IInv, TableInv, OneReporter
<1>q. QED BY <1>1, LifeCases, LifeCasesNext DEF SameLife

(* The three kinds of step that are not stuttering. *)
LEMMA LeaveStep ==
  ASSUME IInv, IInv', NEW c \in Conns, \A d \in Conns \ {c} : SameLife(d),
         IsCurrent(c), ~IsCurrent(c)', reports'[c] = reports[c], Mounted(c)'
  PROVE  Life!Leave(c)
<1>1. reports[c] = 0
  BY DEF IInv, TableInv, CurrentUnreported
<1>2. lives[c] = "online" /\ lives'[c] = "left"
  BY <1>1, LifeCases, LifeCasesNext DEF lives
<1>3. \A d \in Conns \ {c} : lives'[d] = lives[d]
  BY SameStep DEF lives
<1>q. QED BY <1>2, <1>3 DEF Life!Leave, lives

LEMMA ReportStep ==
  ASSUME IInv, IInv', NEW c \in Conns, \A d \in Conns \ {c} : SameLife(d),
         ~IsCurrent(c), ~IsCurrent(c)', reports[c] = 0, reports'[c] = 1, Mounted(c)
  PROVE  Life!Report(c)
<1>1. lives[c] = "left" /\ lives'[c] = "reported"
  BY LifeCases, LifeCasesNext DEF lives
<1>2. \A d \in Conns \ {c} : lives'[d] = lives[d]
  BY SameStep DEF lives
<1>q. QED BY <1>1, <1>2 DEF Life!Report, lives

LEMMA StutterStep ==
  ASSUME IInv, IInv', \A d \in Conns : SameLife(d)
  PROVE  UNCHANGED lives
  BY SameStep DEF lives

LEMMA EnterStep ==
  ASSUME IInv, IInv', NEW c \in Conns, Mount(c)
  PROVE  Life!Enter(c)
<1> USE Constants DEF ConnAssumption, TypeOK, IInv
<1>1. ~IsCurrent(c) /\ reports[c] = 0 /\ ~Mounted(c)
  BY DEF TableInv, Unmounted, BeforeMount, Mount, Mounted, Labels
<1>2. IsCurrent(c)' /\ UNCHANGED <<reports, onClose>> /\ pc' = [pc EXCEPT ![c] = "setclose"]
  BY DEF Mount, Goto, IsCurrent, connVars
<1>3. lives[c] = "new" /\ lives'[c] = "online"
  BY <1>1, <1>2, LifeCases, LifeCasesNext DEF lives
<1>4. ASSUME NEW d \in Conns \ {c}
      PROVE  lives'[d] = IF lives[d] = "online" /\ UserOf[d] = UserOf[c] THEN "left" ELSE lives[d]
  <2>1. reports[d] \in {0, 1} /\ (Mounted(d)' <=> Mounted(d)) /\ reports'[d] = reports[d]
    BY <1>2 DEF TableInv, OneReporter, Mounted, Labels
  <2>2. CASE UserOf[d] = UserOf[c] /\ IsCurrent(d)
    <3>1. ~IsCurrent(d)' /\ reports[d] = 0 /\ Mounted(d)
      BY <2>2, <1>2 DEF TableInv, CurrentUnreported, CallbackOrder, Mounted, IsCurrent
    <3>2. lives[d] = "online" /\ lives'[d] = "left"
      BY <2>1, <2>2, <3>1, LifeCases, LifeCasesNext DEF lives
    <3>q. QED BY <2>2, <3>2
  <2>3. CASE UserOf[d] = UserOf[c] /\ ~IsCurrent(d)
    <3>1. ~IsCurrent(d)'
      BY <2>3, <1>2 DEF IsCurrent
    <3>2. lives'[d] = lives[d] /\ lives[d] # "online"
      BY <2>1, <2>3, <3>1, LifeCases, LifeCasesNext DEF lives
    <3>q. QED BY <3>2
  <2>4. CASE UserOf[d] # UserOf[c]
    <3>1. IsCurrent(d)' <=> IsCurrent(d)
      BY <2>4 DEF Mount, IsCurrent
    <3>2. lives'[d] = lives[d]
      BY <2>1, <3>1, SameStep DEF lives, SameLife
    <3>q. QED BY <2>4, <3>2
  <2>q. QED BY <2>2, <2>3, <2>4
<1>q. QED BY <1>3, <1>4 DEF Life!Enter, lives

(* Every step is a step of ConnLife or leaves the lives as they are. *)
LEMMA LifeStep == IInv /\ IInv' /\ [Next]_vars => [Life!LifeNext]_lives
<1> SUFFICES ASSUME IInv, IInv', [Next]_vars PROVE [Life!LifeNext]_lives
  OBVIOUS
<1> DEFINE Step == Life!LifeNext \/ UNCHANGED lives
<1> HIDE DEF Step
<1> USE Constants DEF ConnAssumption, TypeOK, IInv, TableInv, Labels, Goto, tableVars, connVars, SameLife,
        IsCurrent, Mounted
<1>1. CASE UNCHANGED vars
  BY <1>1, StutterStep DEF vars, Step
<1>2. ASSUME NEW c \in Conns, Accept(c) \/ PeerGone(c) \/ KickCloses(c) PROVE Step
  BY <1>2, StutterStep DEF Accept, PeerGone, KickCloses, Step
<1>3. ASSUME NEW c \in Conns, KickDisconnects(c) PROVE Step
  <2>1. Life!Report(c)
    BY <1>3, ReportStep DEF KickDisconnects, OnDisconnect, CurrentUnreported, OneReporter, Owes, CallbackOrder
  <2>q. QED BY <2>1 DEF Step, Life!LifeNext
<1>4. ASSUME NEW c \in Conns, Handshake(c) PROVE Step
  <2>1. CASE RegisterDisplace(c)
    <3>1. PICK old \in Conns : old = sessions[UserOf[c]] /\ IsCurrent(old) /\ UserOf[old] = UserOf[c]
      BY <2>1 DEF RegisterDisplace, OwnSession
    <3>2. Life!Leave(old)
      <4>1. /\ sessions' = [sessions EXCEPT ![UserOf[old]] = NoConn] /\ pc' = [pc EXCEPT ![c] = "drain"]
            /\ UNCHANGED <<onClose, reports>> /\ ~onClose[c] /\ pc[c] = "lock"
        BY <2>1, <3>1 DEF RegisterDisplace, Unlink, Unmounted, BeforeMount
      <4>2. ~IsCurrent(old)' /\ reports'[old] = reports[old] /\ Mounted(old)'
        BY <4>1, <3>1 DEF CallbackOrder, Unmounted, BeforeMount
      <4>3. \A d \in Conns \ {old} : SameLife(d)
        BY <4>1, <3>1
      <4>q. QED BY <3>1, <4>2, <4>3, LeaveStep
    <3>q. QED BY <3>2 DEF Step, Life!LifeNext
  <2>2. CASE Mount(c)
    BY <2>2, EnterStep DEF Step, Life!LifeNext
  <2>3. CASE (CheckState(c) \/ SendOK(c)) /\ IsCurrent(c) /\ Unlink(c) /\ Goto(c, "undo")
    <3>1. Life!Leave(c)
      BY <2>3, LeaveStep DEF CheckState, SendOK, Unlink, CallbackOrder
    <3>q. QED BY <3>1 DEF Step, Life!LifeNext
  <2>4. CASE (CheckState(c) \/ SendOK(c)) /\ ~(IsCurrent(c) /\ Unlink(c) /\ Goto(c, "undo"))
    <3>1. UNCHANGED sessions /\ pc'[c] \in {"sendok", "switch", "shut"} /\ onClose[c]
      BY <2>4 DEF CheckState, SendOK, RemoveIfConn, CallbackOrder
    <3>q. QED BY <2>4, <3>1, StutterStep DEF CheckState, SendOK, Step
  <2>5. CASE Undo(c)
    <3>1. Life!Report(c)
      <4>1. /\ reports' = [reports EXCEPT ![c] = @ + 1] /\ pc' = [pc EXCEPT ![c] = "shut"]
            /\ UNCHANGED <<sessions, onClose>> /\ pc[c] = "undo"
        BY <2>5 DEF Undo, OnDisconnect
      <4>2. ~IsCurrent(c) /\ ~IsCurrent(c)' /\ Mounted(c)
        BY <4>1 DEF CurrentUnreported, Owes
      <4>3. reports[c] = 0 /\ reports'[c] = 1
        BY <4>1 DEF OneReporter, Owes
      <4>4. \A d \in Conns \ {c} : SameLife(d)
        BY <4>1
      <4>q. QED BY <4>2, <4>3, <4>4, ReportStep
    <3>q. QED BY <3>1 DEF Step, Life!LifeNext
  <2>6. CASE SetOnClose(c) \/ SwitchToForwarding(c) \/ ReadLoopEnds(c) \/ Shut(c)
    BY <2>6, StutterStep DEF SetOnClose, SwitchToForwarding, ReadLoopEnds, Shut, CallbackOrder, Step
  <2>7. CASE Authenticate(c) \/ EnsureVPNIP(c) \/ ApplyLANRegistry(c) \/ ResolveClientPolicy(c)
    BY <2>7, StutterStep DEF Authenticate, EnsureVPNIP, ApplyLANRegistry, ResolveClientPolicy, Step
  <2>8. CASE LoadExitLANs(c) \/ RegisterFree(c) \/ RegisterRefused(c) \/ DrainOldConn(c) \/ DrainReturns(c)
    BY <2>8, StutterStep DEF LoadExitLANs, RegisterFree, RegisterRefused, DrainOldConn, DrainReturns, Step
  <2>q. QED BY <1>4, <2>1, <2>2, <2>3, <2>4, <2>5, <2>6, <2>7, <2>8 DEF Handshake
<1>5. ASSUME NEW c \in Conns, Closing(c) PROVE Step
  <2>1. CASE CloseReadsCallback(c)
    BY <2>1, StutterStep DEF CloseReadsCallback, Step
  <2>2. CASE CloseRemoves(c) /\ IsCurrent(c)
    <3>1. Life!Leave(c)
      BY <2>2, LeaveStep DEF CloseRemoves, RemoveIfConn, Unlink, CallbackOrder
    <3>q. QED BY <3>1 DEF Step, Life!LifeNext
  <2>3. CASE CloseRemoves(c) /\ ~IsCurrent(c)
    BY <2>3, StutterStep DEF CloseRemoves, RemoveIfConn, Step
  <2>4. CASE CloseDisconnects(c)
    <3>1. Life!Report(c)
      BY <2>4, ReportStep DEF CloseDisconnects, OnDisconnect, CurrentUnreported, OneReporter, Owes, CallbackOrder
    <3>q. QED BY <3>1 DEF Step, Life!LifeNext
  <2>q. QED BY <1>5, <2>1, <2>2, <2>3, <2>4 DEF Closing
<1>6. ASSUME NEW u \in Users, KickUser(u) PROVE Step
  <2>1. PICK c \in Conns : c = sessions[u] /\ IsCurrent(c) /\ UserOf[c] = u
    BY <1>6 DEF KickUser, OwnSession
  <2>2. Life!Leave(c)
    <3>1. sessions' = [sessions EXCEPT ![u] = NoConn] /\ UNCHANGED <<pc, onClose, reports>>
      BY <1>6, <2>1 DEF KickUser, Unlink
    <3>2. ~IsCurrent(c)' /\ reports'[c] = reports[c] /\ Mounted(c)'
      BY <3>1, <2>1 DEF CallbackOrder
    <3>3. \A d \in Conns \ {c} : SameLife(d)
      BY <3>1, <2>1
    <3>q. QED BY <2>1, <3>2, <3>3, LeaveStep
  <2>q. QED BY <2>2 DEF Step, Life!LifeNext
<1>7. ASSUME NEW u \in Users, NEW ip \in IPs, PlaceOnAddress(u, ip) PROVE Step
  BY <1>7, StutterStep DEF PlaceOnAddress, Step
<1>q. QED BY <1>1, <1>2, <1>3, <1>4, <1>5, <1>6, <1>7 DEF Next, Kicking, Step

(* The session table keeps the promise of ConnLife. *)
THEOREM Refinement == Spec => RefinesConnLife
<1>1. Init => Life!LifeInit
  <2> SUFFICES ASSUME Init, NEW c \in Conns PROVE LifeOf(c) = "new"
    BY DEF Life!LifeInit
  <2>1. IInv
    BY InvInit
  <2>2. ~IsCurrent(c) /\ reports[c] = 0 /\ ~Mounted(c)
    BY Constants DEF ConnAssumption, Init, IsCurrent, Mounted
  <2>q. QED BY <2>1, <2>2, LifeCases
<1>2. IInv /\ IInv' /\ [Next]_vars => [Life!LifeNext]_lives
  BY LifeStep
<1>q. QED BY TableCorrect, <1>1, <1>2, PTL DEF Spec, RefinesConnLife, Life!LifeSpec, lives
=============================================================================
