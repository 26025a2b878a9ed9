------------------------ MODULE SessionTrafficProofs ------------------------
(***************************************************************************)
(* Proofs about SessionTraffic: whose frames a session decrypts and whose  *)
(* packets it is sent, for any accounts, connections, routes and rights.   *)
(* And about FlowMon, which counts those packets, for any number of flows, *)
(* shards and forwarding goroutines.                                       *)
(***************************************************************************)
EXTENDS SessionTraffic, SessionMgrProofs, FlowMon, FiniteSetTheorems

(* What Isolation allows to be sent to the session of t. *)
Permitted(from, to, t) ==
    \/ LateralAllowed(from, UserOf[t])
    \/ to = NoUser /\ WasVia(from)
    \/ to # NoUser /\ LateralAllowed(from, to) /\ Handed(IPOf[t], to, UserOf[t])

(* An address has had this account for its owner. *)
Owned(ip, u) == \E d \in Conns : UserOf[d] = u /\ IPOf[d] = ip

(* A reader is inside HandleInbound only while its connection forwards,    *)
(* past the identity check it works for its own session, and what its      *)
(* lookups told it was true when it looked.                                *)
ReaderOK(c) ==
    /\ rd[c] # "idle" => pc[c] = "run"
    /\ rd[c] \notin {"idle", "check", "panic"} => ps[c] = c
    /\ rd[c] \notin {"peer", "send", "encrypt", "panic"} => checked[c] = NoUser
    /\ rd[c] = "return" => WasVia(UserOf[c])
    /\ rd[c] = "peer" => /\ checked[c] \in Users /\ LateralAllowed(UserOf[c], checked[c])
                         /\ Owned(dst[c], checked[c])
    /\ rd[c] \in {"send", "encrypt"} =>
          target[c] \in Conns /\ Permitted(UserOf[c], checked[c], target[c])

(* Routes, of a session or in the index, are managed routes of somebody,   *)
(* and those of a session do not change once it has them.                  *)
BeforePolicy == {"none", "auth", "ensure", "registry", "policy"}

Routed(r) == \E c \in Conns : r \in viaRoutes[c]

RoutesManaged ==
    /\ \A c \in Conns : viaRoutes[c] \subseteq Managed[UserOf[c]]
    /\ \A c \in Conns : pc[c] \in BeforePolicy => viaRoutes[c] = {}
    /\ \A r \in viaIndex : Routed(r)

(* An address is indexed under an account that has had it, and a session   *)
(* is found under its own address.                                         *)
Addressed ==
    /\ \A ip \in IPs : vpnIndex[ip] # NoUser => Owned(ip, vpnIndex[ip])
    /\ \A ip \in IPs : byIP[ip] # NoConn => IPOf[byIP[ip]] = ip

PacketInv ==
    /\ TrafficTypeOK
    /\ \A c \in Conns : ReaderOK(c)
    /\ Isolation
    /\ OwnFramesOnly

TrafficInv ==
    /\ IInv
    /\ RoutesManaged
    /\ Addressed
    /\ PacketInv

-----------------------------------------------------------------------------
(* The table. A reader that panics ends its connection: the one step that  *)
(* SessionMgr does not have.                                               *)
LEMMA PanicKeepsTable ==
  ASSUME IInv, NEW c \in Conns, pc[c] = "run", ReaderPanics(c)
  PROVE  IInv'
<1>1. /\ pc' = [pc EXCEPT ![c] = "end"]
      /\ cst' = IF cst[c] = "connected" THEN [cst EXCEPT ![c] = "disconnecting"] ELSE cst
      /\ UNCHANGED <<onClose, cb, onData, victim, sessions, byIP, viaIndex, vpnIndex,
                     crypto, viaRoutes, exitLANs, registry, kick, reports>>
  BY DEF ReaderPanics, StartClose, Goto, tableVars, objVars
<1> USE Constants, <1>1 DEF ConnAssumption, IInv, TypeOK, Labels
<1>2. TypeOK'
  OBVIOUS
<1>3. SessionInv'
  BY DEF TableInv, SessionInv, OwnSession, Unmounted, CurrentUnreported, OneReporter, CallbackOrder, SessionReachable,
         SessionHasCrypto, NoZombieSession, BeforeMount, Owes, IsCurrent, Mounted
<1>4. AddressHeld' /\ SessionIndexed'
  BY DEF TableInv, AddressHeld, HoldsAddress, Mounted, SessionIndexed
<1>q. QED BY <1>2, <1>3, <1>4 DEF TableInv, SessionInv

(* What a step is: one of SessionMgr or none of its, for a reader that     *)
(* goes on or one that panics.                                             *)
LEMMA StepOfTable ==
  ASSUME [TNext]_tvars
  PROVE  \/ Next
         \/ UNCHANGED vars
         \/ \E c \in Conns : ReaderPanics(c)
<1>1. CASE Table
  <2>1. CASE \E c \in Leavers : PeerGone(c)
    BY <2>1, Peers DEF Next
  <2>2. CASE \E u \in Kicked : KickUser(u)
    BY <2>2, Peers DEF Next
  <2>q. QED BY <1>1, <2>1, <2>2 DEF Table, Next
<1>2. CASE UNCHANGED tvars \/ TunRoute \/ TunSend \/ TunEncrypt
  BY <1>2 DEF tvars, TunRoute, TunSend, TunEncrypt
<1>3. ASSUME NEW c \in Conns, Inbound(c), ~ReaderPanics(c)
      PROVE  UNCHANGED vars
  BY <1>3 DEF Inbound, FrameArrives, InboundCheck, InboundDecrypt, InboundRecheck, InboundParse, InboundIsVia,
              InboundReturn, InboundOwner, InboundRights, InboundPeer, InboundVia, InboundSend, InboundEncrypt
<1>q. QED BY <1>1, <1>2, <1>3 DEF TNext

LEMMA TrafficTableStep == TrafficInv /\ [TNext]_tvars => IInv'
<1> SUFFICES ASSUME TrafficInv, [TNext]_tvars PROVE IInv'
  OBVIOUS
<1>1. CASE [Next]_vars
  BY <1>1, TypeStep, TableStep DEF TrafficInv, IInv
<1>2. ASSUME NEW c \in Conns, ReaderPanics(c) PROVE IInv'
  BY <1>2, PanicKeepsTable DEF TrafficInv, PacketInv, ReaderOK, ReaderPanics
<1>q. QED BY <1>1, <1>2, StepOfTable

-----------------------------------------------------------------------------
(* Routes and addresses.                                                   *)

(* Only ResolveClientPolicy writes routes, of a session that has none.     *)
RoutesOnly ==
    \/ UNCHANGED viaRoutes
    \/ \E c \in Conns : ResolveClientPolicy(c)

(* The index of vias is rebuilt from the routes of the sessions or kept.   *)
ViaOnly == viaIndex' \in {viaIndex, ViaOf(sessions')}

(* What is written to the index of addresses: a connection's address, for  *)
(* its account or nobody, or the one a fixed account is placed on.         *)
IndexOnly ==
    \/ UNCHANGED vpnIndex
    \/ \E c \in Conns : \/ vpnIndex' = [vpnIndex EXCEPT ![IPOf[c]] = UserOf[c]]
                        \/ vpnIndex' = [vpnIndex EXCEPT ![IPOf[c]] = NoUser]
    \/ \E ip \in IPs, u \in Users : Owned(ip, u) /\ vpnIndex' = [vpnIndex EXCEPT ![ip] = u]

(* A session is put under its own address only.                            *)
ByIPOnly ==
    \/ UNCHANGED byIP
    \/ \E c \in Conns : \/ byIP' = [byIP EXCEPT ![IPOf[c]] = c]
                        \/ byIP' = [byIP EXCEPT ![IPOf[c]] = NoConn]

(* Nobody comes back to where a session gets its routes.                   *)
PolicyOnly == \A c \in Conns : pc'[c] \in BeforePolicy => pc[c] \in BeforePolicy

Written == RoutesOnly /\ ViaOnly /\ IndexOnly /\ ByIPOnly /\ PolicyOnly

LEMMA RemovedOnly ==
  ASSUME TypeOK, NEW c \in Conns, RemoveIfConn(c)
  PROVE  ViaOnly /\ ByIPOnly
  BY DEF RemoveIfConn, Unlink, tableVars, ViaOnly, ByIPOnly

LEMMA WrittenBy ==
  ASSUME TypeOK, TableInv, Next
  PROVE  Written
<1> USE Constants DEF ConnAssumption, TypeOK, objVars, tableVars, Goto, RoutesOnly, ViaOnly, IndexOnly, ByIPOnly, PolicyOnly,
        Written, BeforePolicy
<1>1. ASSUME NEW c \in Conns, Accept(c) \/ PeerGone(c) \/ KickCloses(c) \/ CloseReadsCallback(c)
      PROVE  Written
  BY <1>1 DEF Accept, PeerGone, KickCloses, CloseReadsCallback
<1>2. ASSUME NEW c \in Conns, KickDisconnects(c) \/ CloseDisconnects(c) \/ Undo(c)
      PROVE  Written
  BY <1>2 DEF KickDisconnects, CloseDisconnects, Undo, OnDisconnect
<1>3. ASSUME NEW c \in Conns, Authenticate(c) \/ EnsureVPNIP(c) \/ ApplyLANRegistry(c)
             \/ ResolveClientPolicy(c) \/ LoadExitLANs(c) \/ RegisterFree(c)
      PROVE  Written
  BY <1>3 DEF Authenticate, EnsureVPNIP, ApplyLANRegistry, ResolveClientPolicy, LoadExitLANs, RegisterFree
<1>4. ASSUME NEW c \in Conns, RegisterRefused(c) \/ DrainOldConn(c) \/ DrainReturns(c) \/ SetOnClose(c)
      PROVE  Written
  BY <1>4 DEF RegisterRefused, DrainOldConn, DrainReturns, SetOnClose
<1>5. ASSUME NEW c \in Conns, RegisterDisplace(c)
      PROVE  Written
  BY <1>5 DEF RegisterDisplace, Unlink
<1>6. ASSUME NEW c \in Conns, Mount(c)
      PROVE  Written
  BY <1>6 DEF Mount
<1>7. ASSUME NEW c \in Conns, CloseRemoves(c)
      PROVE  Written
  BY <1>7, RemovedOnly DEF CloseRemoves
<1>8. ASSUME NEW c \in Conns, CheckState(c) \/ SendOK(c)
      PROVE  Written
  <2>1. ViaOnly /\ ByIPOnly
    BY <1>8, RemovedOnly DEF CheckState, SendOK
  <2>2. UNCHANGED <<viaRoutes, vpnIndex>> /\ \E l \in {"sendok", "switch", "undo", "shut"} : pc' = [pc EXCEPT ![c] = l]
    BY <1>8 DEF CheckState, SendOK
  <2>q. QED BY <2>1, <2>2
<1>9. ASSUME NEW c \in Conns, SwitchToForwarding(c) \/ ReadLoopEnds(c) \/ Shut(c)
      PROVE  Written
  BY <1>9 DEF SwitchToForwarding, ReadLoopEnds, Shut
<1>10. ASSUME NEW u \in Users, KickUser(u)
      PROVE  Written
  BY <1>10 DEF KickUser, Unlink
<1>11. ASSUME NEW u \in Users, NEW ip \in IPs, PlaceOnAddress(u, ip)
      PROVE  Written
  BY <1>11 DEF PlaceOnAddress, Owned
<1>q. QED BY <1>1, <1>2, <1>3, <1>4, <1>5, <1>6, <1>7, <1>8, <1>9, <1>10, <1>11 DEF Next, Handshake, Closing, Kicking

(* The routes of a session stay, and what they told of an account.         *)
LEMMA RoutesGrow ==
  ASSUME TypeOK, RoutesManaged, RoutesOnly
  PROVE  \A c \in Conns : viaRoutes[c] \subseteq viaRoutes'[c]
  BY DEF RoutesOnly, RoutesManaged, BeforePolicy, ResolveClientPolicy, TypeOK

LEMMA WasViaStays ==
  ASSUME \A c \in Conns : viaRoutes[c] \subseteq viaRoutes'[c], NEW u
  PROVE  WasVia(u) => WasVia(u)'
  BY DEF WasVia

LEMMA RoutesStep ==
  ASSUME TrafficInv, Next
  PROVE  RoutesManaged' /\ Addressed' /\ \A c \in Conns : viaRoutes[c] \subseteq viaRoutes'[c]
<1> USE Constants DEF ConnAssumption
<1>0. Written /\ TypeOK /\ RoutesManaged /\ Addressed
  BY WrittenBy DEF TrafficInv, IInv
<1>1. \A c \in Conns : viaRoutes[c] \subseteq viaRoutes'[c]
  BY <1>0, RoutesGrow DEF Written
<1>2. \A c \in Conns : viaRoutes'[c] \subseteq Managed[UserOf[c]]
  BY <1>0 DEF RoutesManaged, Written, RoutesOnly, ResolveClientPolicy, TypeOK
<1>3. \A c \in Conns : pc'[c] \in BeforePolicy => viaRoutes'[c] = {}
  BY <1>0 DEF RoutesManaged, Written, RoutesOnly, PolicyOnly, ResolveClientPolicy, Goto, BeforePolicy, TypeOK
<1>4. \A r \in viaIndex' : Routed(r)
  <2>1. CASE viaIndex' = viaIndex
    BY <1>0, <2>1 DEF RoutesManaged
  <2>2. ASSUME viaIndex' = ViaOf(sessions'), NEW r \in viaIndex' PROVE Routed(r)
    <3>1. PICK u \in Users : sessions'[u] # NoConn /\ r \in viaRoutes[sessions'[u]]
      BY <2>2 DEF ViaOf
    <3>2. sessions'[u] \in Conns
      BY <3>1, TrafficInv, TypeStep DEF TrafficInv, IInv, TypeOK
    <3>q. QED BY <3>1, <3>2 DEF Routed
  <2>q. QED BY <1>0, <2>1, <2>2 DEF Written, ViaOnly
<1>5. RoutesManaged'
  BY <1>1, <1>2, <1>3, <1>4 DEF RoutesManaged, Routed
<1>6. Addressed'
  <2>1. \A ip \in IPs : vpnIndex'[ip] # NoUser => Owned(ip, vpnIndex'[ip])
    BY <1>0 DEF Addressed, Written, IndexOnly, Owned, TypeOK
  <2>2. \A ip \in IPs : byIP'[ip] # NoConn => IPOf[byIP'[ip]] = ip
    BY <1>0 DEF Addressed, Written, ByIPOnly, TypeOK
  <2>q. QED BY <2>1, <2>2 DEF Addressed, Owned
<1>q. QED BY <1>1, <1>5, <1>6

(* The same for every step: of the others only the panic writes pc.        *)
LEMMA TablePart ==
  TrafficInv /\ [TNext]_tvars =>
      RoutesManaged' /\ Addressed' /\ \A c \in Conns : viaRoutes[c] \subseteq viaRoutes'[c]
<1> SUFFICES ASSUME TrafficInv, [TNext]_tvars
             PROVE  RoutesManaged' /\ Addressed' /\ \A c \in Conns : viaRoutes[c] \subseteq viaRoutes'[c]
  OBVIOUS
<1>1. CASE UNCHANGED <<viaRoutes, viaIndex, vpnIndex, byIP>> /\ PolicyOnly
  BY <1>1 DEF TrafficInv, RoutesManaged, Addressed, Routed, Owned, PolicyOnly
<1>2. CASE UNCHANGED vars
  BY <1>1, <1>2 DEF vars, PolicyOnly
<1>3. ASSUME NEW c \in Conns, ReaderPanics(c)
      PROVE  UNCHANGED <<viaRoutes, viaIndex, vpnIndex, byIP>> /\ PolicyOnly
  BY <1>3 DEF ReaderPanics, objVars, tableVars, Goto, PolicyOnly, BeforePolicy, TrafficInv, IInv, TypeOK
<1>q. QED BY <1>1, <1>2, <1>3, RoutesStep, StepOfTable

-----------------------------------------------------------------------------
(* Packets.                                                                *)

(* What was permitted stays so: the rights are constants and the routes    *)
(* stay.                                                                   *)
LEMMA PermittedStays ==
  ASSUME \A c \in Conns : viaRoutes[c] \subseteq viaRoutes'[c], NEW u, NEW v, NEW t,
         Permitted(u, v, t)
  PROVE  Permitted(u, v, t)'
  BY WasViaStays DEF Permitted, LateralAllowed, Handed

(* A reader whose place and locals a step leaves alone.                    *)
LEMMA ReaderKept ==
  ASSUME \A c \in Conns : viaRoutes[c] \subseteq viaRoutes'[c], NEW d \in Conns, ReaderOK(d),
         rd'[d] = rd[d], ps'[d] = ps[d], dst'[d] = dst[d], checked'[d] = checked[d], target'[d] = target[d],
         rd[d] # "idle" => pc'[d] = pc[d]
  PROVE  ReaderOK(d)'
<1>1. WasVia(UserOf[d]) => WasVia(UserOf[d])'
  BY WasViaStays
<1>2. ASSUME NEW v, NEW t, Permitted(UserOf[d], v, t) PROVE Permitted(UserOf[d], v, t)'
  BY <1>2, PermittedStays
<1>q. QED BY <1>1, <1>2 DEF ReaderOK, LateralAllowed, Owned, Permitted, Handed, WasVia

(* A packet that its session may be sent.                                  *)
LEMMA IsolationStays ==
  ASSUME \A c \in Conns : viaRoutes[c] \subseteq viaRoutes'[c], inbox \in [Conns -> SUBSET Packets],
         Isolation, NEW t \in Conns, NEW p \in Packets, Permitted(p.from, p.to, t),
         inbox' = inbox \/ inbox' = [inbox EXCEPT ![t] = @ \cup {p}]
  PROVE  inbox' \in [Conns -> SUBSET Packets] /\ Isolation'
<1>1. inbox' \in [Conns -> SUBSET Packets]
  OBVIOUS
<1>2. ASSUME NEW s \in Conns, NEW q \in inbox'[s] PROVE Permitted(q.from, q.to, s)'
  <2>1. Permitted(q.from, q.to, s)
    BY <1>2 DEF Isolation, Permitted
  <2>q. QED BY <2>1, PermittedStays
<1>q. QED BY <1>1, <1>2 DEF Isolation, Permitted

LEMMA IsolationSame ==
  ASSUME \A c \in Conns : viaRoutes[c] \subseteq viaRoutes'[c], Isolation, UNCHANGED inbox
  PROVE  Isolation'
<1>1. ASSUME NEW s \in Conns, NEW q \in inbox'[s] PROVE Permitted(q.from, q.to, s)'
  <2>1. Permitted(q.from, q.to, s)
    BY <1>1 DEF Isolation, Permitted
  <2>q. QED BY <2>1, PermittedStays
<1>q. QED BY <1>1 DEF Isolation, Permitted

(* The rest of the packets' state, which one reader's step leaves alone.   *)
Others(c) ==
    /\ \A d \in Conns \ {c} : /\ rd'[d] = rd[d] /\ ps'[d] = ps[d] /\ dst'[d] = dst[d]
                              /\ checked'[d] = checked[d] /\ target'[d] = target[d] /\ pc'[d] = pc[d]
    /\ UNCHANGED <<tun, tunTarget>>

Same == UNCHANGED <<fed, inbox>>

(* A step of one reader keeps the invariant when it is right for that      *)
(* reader.                                                                 *)
LEMMA ReaderStep ==
  ASSUME TrafficInv, [TNext]_tvars, NEW c \in Conns, Others(c), Same, TrafficTypeOK', ReaderOK(c)'
  PROVE  PacketInv'
<1>1. \A d \in Conns : viaRoutes[d] \subseteq viaRoutes'[d]
  BY TablePart
<1>2. ASSUME NEW d \in Conns \ {c} PROVE ReaderOK(d)'
  BY <1>1, ReaderKept DEF Others, TrafficInv, PacketInv
<1>3. Isolation'
  BY <1>1, IsolationSame DEF TrafficInv, PacketInv, Same
<1>q. QED BY <1>2, <1>3 DEF PacketInv, TrafficInv, OwnFramesOnly, Same

(* HandleInbound returns.                                                  *)
LEMMA Returned ==
  ASSUME TrafficInv, NEW c \in Conns, Return(c), \A d \in Conns \ {c} : pc'[d] = pc[d],
         UNCHANGED <<tun, tunTarget, fed>>
  PROVE  Others(c) /\ ReaderOK(c)' /\ (UNCHANGED inbox => TrafficTypeOK')
<1> USE DEF TrafficInv, PacketInv, TrafficTypeOK, Return, At
<1>1. rd'[c] = "idle" /\ checked'[c] = NoUser
  OBVIOUS
<1>2. ReaderOK(c)'
  BY <1>1 DEF ReaderOK
<1>3. Others(c)
  BY DEF Others
<1>q. QED BY <1>2, <1>3

(* A reader goes on to its next lookup and has learnt nothing new.         *)
LEMMA WentOn ==
  ASSUME TrafficInv, NEW c \in Conns, UNCHANGED <<vars, tun, tunTarget, fed, inbox>>,
         NEW l \in {"check", "decrypt", "recheck", "route", "via", "return", "owner", "rights", "routes"},
         GoOn(c, l), l = "check" \/ ps[c] = c, pc[c] = "run", checked[c] = NoUser,
         l = "return" => WasVia(UserOf[c])
  PROVE  Others(c) /\ Same /\ ReaderOK(c)' /\ TrafficTypeOK'
<1> USE DEF TrafficInv, PacketInv, TrafficTypeOK, GoOn, At, locals, vars
<1>1. rd'[c] = l /\ UNCHANGED <<ps, dst, checked, target, pc, viaRoutes>>
  OBVIOUS
<1>2. ReaderOK(c)'
  BY <1>1 DEF ReaderOK, WasVia
<1>q. QED BY <1>1, <1>2 DEF Others, Same

(* A reader has found a session that it may send to.                       *)
LEMMA Found ==
  ASSUME TrafficInv, NEW c \in Conns, UNCHANGED <<vars, tun, tunTarget, fed, inbox>>,
         NEW t \in Conns, SendTo(c, t), ps[c] = c, pc[c] = "run", Permitted(UserOf[c], checked[c], t)
  PROVE  Others(c) /\ Same /\ ReaderOK(c)' /\ TrafficTypeOK'
<1> USE DEF TrafficInv, PacketInv, TrafficTypeOK, SendTo, At, vars
<1>1. rd'[c] = "send" /\ target'[c] = t /\ UNCHANGED <<ps, dst, checked, pc, viaRoutes>>
  OBVIOUS
<1>2. ReaderOK(c)'
  BY <1>1 DEF ReaderOK, Permitted, LateralAllowed, WasVia, Handed
<1>q. QED BY <1>1, <1>2 DEF Others, Same

(* One step of a reader, before it has found a session to send to ...      *)
LEMMA LookupStep ==
  ASSUME TrafficInv, [TNext]_tvars, NEW c \in Conns,
         \/ FrameArrives(c) \/ InboundCheck(c) \/ InboundRecheck(c) \/ InboundParse(c)
         \/ InboundIsVia(c) \/ InboundOwner(c) \/ InboundRights(c)
  PROVE  PacketInv'
<1> USE Constants DEF ConnAssumption
<1>0. TrafficTypeOK /\ ReaderOK(c) /\ TypeOK /\ RoutesManaged /\ Addressed
  BY DEF TrafficInv, PacketInv, IInv
<1>1. ASSUME Return(c), Same, UNCHANGED <<vars, tun, tunTarget>> PROVE PacketInv'
  <2>1. Others(c) /\ ReaderOK(c)' /\ TrafficTypeOK'
    BY <1>1, Returned DEF Same, vars
  <2>q. QED BY <1>1, <2>1, ReaderStep
<1>2. ASSUME NEW l \in {"check", "decrypt", "recheck", "route", "via", "return", "owner", "rights", "routes"},
             GoOn(c, l), l = "check" \/ ps[c] = c, pc[c] = "run", checked[c] = NoUser,
             l = "return" => WasVia(UserOf[c]), Same, UNCHANGED <<vars, tun, tunTarget>>
      PROVE  PacketInv'
  <2>1. Others(c) /\ Same /\ ReaderOK(c)' /\ TrafficTypeOK'
    BY <1>2, WentOn DEF Same
  <2>q. QED BY <2>1, ReaderStep
<1>3. CASE FrameArrives(c)
  BY <1>0, <1>2, <1>3 DEF FrameArrives, ReaderOK, Same
<1>4. CASE InboundCheck(c)
  <2>1. CASE ~(sessions[UserOf[c]] = c /\ crypto[c])
    BY <1>1, <1>4, <2>1 DEF InboundCheck, Same
  <2>2. CASE sessions[UserOf[c]] = c /\ crypto[c]
    <3>1. /\ rd' = [rd EXCEPT ![c] = "decrypt"] /\ ps' = [ps EXCEPT ![c] = c]
          /\ UNCHANGED <<dst, checked, target, vars, tun, tunTarget, fed, inbox>> /\ rd[c] = "check"
      BY <1>4, <2>2 DEF InboundCheck, At
    <3>2. ReaderOK(c)'
      BY <1>0, <3>1 DEF ReaderOK, TrafficTypeOK, vars
    <3>q. QED BY <1>0, <3>1, <3>2, ReaderStep DEF Others, Same, TrafficTypeOK, vars
  <2>q. QED BY <2>1, <2>2
<1>5. CASE InboundRecheck(c)
  BY <1>0, <1>1, <1>2, <1>5 DEF InboundRecheck, ReaderOK, Same
<1>6. CASE InboundParse(c)
  <2>1. /\ \E ip \in IPs \cup {Elsewhere} : dst' = [dst EXCEPT ![c] = ip]
        /\ \E l \in {"owner", "via"} : rd' = [rd EXCEPT ![c] = l]
        /\ UNCHANGED <<ps, checked, target, vars, tun, tunTarget, fed, inbox>> /\ rd[c] = "route"
    BY <1>6 DEF InboundParse, At
  <2>2. ReaderOK(c)'
    BY <1>0, <2>1 DEF ReaderOK, TrafficTypeOK, vars
  <2>q. QED BY <1>0, <2>1, <2>2, ReaderStep DEF Others, Same, TrafficTypeOK, vars
<1>7. CASE InboundIsVia(c)
  <2>1. IsActiveVia(UserOf[c]) => WasVia(UserOf[c])
    BY <1>0 DEF IsActiveVia, WasVia, RoutesManaged, Routed
  <2>2. CASE IsActiveVia(UserOf[c])
    BY <1>0, <1>2, <1>7, <2>1, <2>2 DEF InboundIsVia, ReaderOK, Same
  <2>3. CASE ~IsActiveVia(UserOf[c])
    BY <1>0, <1>2, <1>7, <2>3 DEF InboundIsVia, ReaderOK, Same
  <2>q. QED BY <2>2, <2>3
<1>8. CASE InboundOwner(c)
  BY <1>0, <1>1, <1>2, <1>8 DEF InboundOwner, ReaderOK, Same
<1>9. CASE InboundRights(c)
  <2>1. CASE Return(c)
    BY <1>1, <1>9, <2>1 DEF InboundRights, Same
  <2>2. CASE ~Return(c)
    <3> DEFINE owner == OwnerOf(dst[c])
    <3>1. /\ owner # NoUser /\ LateralAllowed(UserOf[c], owner)
          /\ checked' = [checked EXCEPT ![c] = owner] /\ rd' = [rd EXCEPT ![c] = "peer"]
          /\ UNCHANGED <<ps, dst, target, vars, tun, tunTarget, fed, inbox>> /\ rd[c] = "rights"
      BY <1>9, <2>2 DEF InboundRights, At
    <3>2. dst[c] \in IPs /\ owner = vpnIndex[dst[c]] /\ owner \in Users
      BY <1>0, <3>1 DEF OwnerOf, TypeOK
    <3>3. Owned(dst[c], owner)
      BY <1>0, <3>1, <3>2 DEF Addressed
    <3> HIDE DEF owner
    <3>4. rd'[c] = "peer" /\ checked'[c] = owner /\ UNCHANGED <<dst, ps, pc>>
      BY <1>0, <3>1 DEF TrafficTypeOK, vars
    <3>5. ReaderOK(c)'
      BY <1>0, <3>1, <3>2, <3>3, <3>4 DEF ReaderOK, LateralAllowed, Owned
    <3>q. QED BY <1>0, <3>1, <3>2, <3>5, ReaderStep DEF Others, Same, TrafficTypeOK, vars
  <2>q. QED BY <2>1, <2>2
<1>q. QED BY <1>3, <1>4, <1>5, <1>6, <1>7, <1>8, <1>9

(* ... and when it finds one: by the address as a via, by the address as   *)
(* one of the peers it may reach, by the account of a route.               *)
LEMMA FoundStep ==
  ASSUME TrafficInv, [TNext]_tvars, NEW c \in Conns,
         InboundReturn(c) \/ InboundPeer(c) \/ InboundVia(c) \/ InboundSend(c)
  PROVE  PacketInv'
<1> USE Constants DEF ConnAssumption
<1>0. TrafficTypeOK /\ ReaderOK(c) /\ TypeOK /\ RoutesManaged /\ Addressed /\ OwnSession
  BY DEF TrafficInv, PacketInv, IInv, TableInv
<1>1. ASSUME Return(c), Same, UNCHANGED <<vars, tun, tunTarget>> PROVE PacketInv'
  <2>1. Others(c) /\ ReaderOK(c)' /\ TrafficTypeOK'
    BY <1>1, Returned DEF Same, vars
  <2>q. QED BY <1>1, <2>1, ReaderStep
<1>2. ASSUME NEW t \in Conns, SendTo(c, t), ps[c] = c, pc[c] = "run", Permitted(UserOf[c], checked[c], t),
             Same, UNCHANGED <<vars, tun, tunTarget>>
      PROVE  PacketInv'
  <2>1. Others(c) /\ Same /\ ReaderOK(c)' /\ TrafficTypeOK'
    BY <1>2, Found DEF Same
  <2>q. QED BY <2>1, ReaderStep
<1>3. CASE InboundReturn(c)
  <2> DEFINE t == OnlineAt(dst[c])
  <2>1. WasVia(UserOf[c]) /\ checked[c] = NoUser /\ ps[c] = c /\ pc[c] = "run"
    BY <1>0, <1>3 DEF InboundReturn, ReaderOK
  <2>2. CASE t # NoConn /\ UserOf[t] # UserOf[c]
    <3>1. t \in Conns
      BY <1>0, <2>2 DEF OnlineAt, TypeOK
    <3>2. Permitted(UserOf[c], checked[c], t)
      BY <2>1 DEF Permitted
    <3>q. QED BY <1>2, <1>3, <2>1, <2>2, <3>1, <3>2 DEF InboundReturn, Same
  <2>3. CASE ~(t # NoConn /\ UserOf[t] # UserOf[c])
    <3>1. GoOn(c, "owner") /\ UNCHANGED <<vars, tun, tunTarget, fed, inbox>>
      BY <1>3, <2>3 DEF InboundReturn
    <3>2. Others(c) /\ Same /\ ReaderOK(c)' /\ TrafficTypeOK'
      BY <2>1, <3>1, WentOn
    <3>q. QED BY <3>2, ReaderStep
  <2>q. QED BY <2>2, <2>3
<1>4. CASE InboundPeer(c)
  <2> DEFINE t == OnlineAt(dst[c])
  <2>1. CASE t # NoConn
    <3>1. t \in Conns /\ IPOf[t] = dst[c]
      BY <1>0, <2>1 DEF OnlineAt, TypeOK, Addressed
    <3>2. /\ checked[c] \in Users /\ LateralAllowed(UserOf[c], checked[c]) /\ Owned(dst[c], checked[c])
          /\ ps[c] = c /\ pc[c] = "run"
      BY <1>0, <1>4 DEF InboundPeer, ReaderOK
    <3>3. Permitted(UserOf[c], checked[c], t)
      BY <3>1, <3>2 DEF Permitted, Handed, Owned
    <3>q. QED BY <1>2, <1>4, <2>1, <3>1, <3>2, <3>3 DEF InboundPeer, Same
  <2>2. CASE t = NoConn
    BY <1>1, <1>4, <2>2 DEF InboundPeer, Same
  <2>q. QED BY <2>1, <2>2
<1>5. CASE InboundVia(c)
  <2>1. CASE Return(c)
    BY <1>1, <1>5, <2>1 DEF InboundVia, Same
  <2>2. ASSUME NEW r \in viaRoutes[ps[c]], sessions[r[2]] # NoConn, SendTo(c, sessions[r[2]]) PROVE PacketInv'
    <3>1. ps[c] = c /\ pc[c] = "run"
      BY <1>0, <1>5 DEF InboundVia, ReaderOK
    <3>2. r \in Managed[UserOf[c]] /\ r[2] \in Users
      BY <1>0, <2>2, <3>1 DEF RoutesManaged
    <3>3. sessions[r[2]] \in Conns /\ UserOf[sessions[r[2]]] = r[2]
      BY <1>0, <2>2, <3>2 DEF TypeOK, OwnSession
    <3>4. Permitted(UserOf[c], checked[c], sessions[r[2]])
      BY <3>2, <3>3 DEF Permitted, LateralAllowed
    <3>q. QED BY <1>2, <1>5, <2>2, <3>1, <3>3, <3>4 DEF InboundVia, Same
  <2>q. QED BY <1>5, <2>1, <2>2 DEF InboundVia
<1>6. CASE InboundSend(c)
  <2>1. CASE MaySend(target[c])
    <3>1. /\ rd' = [rd EXCEPT ![c] = "encrypt"] /\ rd[c] = "send"
          /\ UNCHANGED <<vars, ps, dst, checked, target, tun, tunTarget, fed, inbox>>
      BY <1>6, <2>1 DEF InboundSend, GoOn, At, locals
    <3>2. /\ rd'[c] = "encrypt"
          /\ UNCHANGED <<ps, dst, checked, target, pc, viaRoutes>>
      BY <1>0, <3>1 DEF TrafficTypeOK, vars, objVars
    <3>3. ReaderOK(c)'
      BY <1>0, <3>1, <3>2 DEF ReaderOK, Permitted, LateralAllowed, WasVia, Handed
    <3>q. QED BY <1>0, <3>1, <3>3, ReaderStep DEF Others, Same, TrafficTypeOK, vars
  <2>2. CASE ~MaySend(target[c])
    BY <1>1, <1>6, <2>2 DEF InboundSend, Same
  <2>q. QED BY <2>1, <2>2
<1>q. QED BY <1>3, <1>4, <1>5, <1>6

(* The readers' use of a Crypto, and the panic.                            *)
LEMMA CryptoStep ==
  ASSUME TrafficInv, [TNext]_tvars, NEW c \in Conns,
         InboundDecrypt(c) \/ InboundEncrypt(c) \/ ReaderPanics(c)
  PROVE  PacketInv'
<1> USE Constants DEF ConnAssumption
<1>0. /\ TrafficTypeOK /\ ReaderOK(c) /\ TypeOK /\ \A d \in Conns : ReaderOK(d)
      /\ OwnFramesOnly /\ Isolation /\ UserOf[c] \in Users
      /\ \A d \in Conns : viaRoutes[d] \subseteq viaRoutes'[d]
  BY TablePart DEF TrafficInv, PacketInv, IInv
<1>1. ASSUME Others(c), ReaderOK(c)' PROVE \A d \in Conns : ReaderOK(d)'
  <2>1. ASSUME NEW d \in Conns \ {c} PROVE ReaderOK(d)'
    BY <1>0, <1>1, ReaderKept DEF Others
  <2>q. QED BY <1>1, <2>1
<1>2. CASE InboundDecrypt(c)
  <2>1. ps[c] = c /\ pc[c] = "run" /\ checked[c] = NoUser
    BY <1>0, <1>2 DEF InboundDecrypt, ReaderOK
  <2>2. \E l \in {"recheck", "panic"} : rd' = [rd EXCEPT ![c] = l]
    BY <1>2 DEF InboundDecrypt, At
  <2>3. fed' = fed \/ fed' = [fed EXCEPT ![c] = @ \cup {c}]
    BY <1>2, <2>1 DEF InboundDecrypt
  <2>4. UNCHANGED <<vars, locals, tun, tunTarget, inbox>>
    BY <1>2 DEF InboundDecrypt
  <2>5. fed' \in [Conns -> SUBSET Conns] /\ OwnFramesOnly'
    BY <1>0, <2>3 DEF TrafficTypeOK, OwnFramesOnly
  <2>6. Others(c) /\ ReaderOK(c)' /\ TrafficTypeOK'
    <3>1. UNCHANGED <<ps, dst, checked, target, tun, tunTarget, pc, inbox>>
      BY <2>4 DEF locals, vars
    <3>2. rd'[c] \in {"recheck", "panic"} /\ \A d \in Conns \ {c} : rd'[d] = rd[d]
      BY <1>0, <2>2 DEF TrafficTypeOK
    <3>3. Others(c)
      BY <3>1, <3>2 DEF Others
    <3>4. ReaderOK(c)'
      BY <2>1, <3>1, <3>2 DEF ReaderOK
    <3>5. TrafficTypeOK
      BY <1>0
    <3>6. rd' \in [Conns -> {"idle", "check", "decrypt", "recheck", "route", "via", "return", "owner",
                             "rights", "peer", "routes", "send", "encrypt", "panic"}]
      BY ONLY <2>2, <3>5 DEF TrafficTypeOK
    <3>7. TrafficTypeOK'
      BY ONLY <2>5, <3>1, <3>5, <3>6 DEF TrafficTypeOK
    <3>q. QED BY <3>3, <3>4, <3>7
  <2>7. Isolation'
    BY <1>0, <2>4, IsolationSame
  <2>q. QED BY <1>1, <2>5, <2>6, <2>7 DEF PacketInv
<1>3. CASE InboundEncrypt(c)
  <2> DEFINE p == [from |-> UserOf[c], to |-> checked[c]]
             t == target[c]
  <2>1. t \in Conns /\ Permitted(UserOf[c], checked[c], t) /\ pc[c] = "run"
    BY <1>0, <1>3 DEF InboundEncrypt, ReaderOK
  <2>2. p \in Packets /\ Permitted(p.from, p.to, t)
    BY <1>0, <2>1 DEF Packets, TrafficTypeOK
  <2>3. inbox' = inbox \/ inbox' = [inbox EXCEPT ![t] = @ \cup {p}]
    BY <1>3 DEF InboundEncrypt
  <2>4. UNCHANGED <<vars, tun, tunTarget, fed>>
    BY <1>3 DEF InboundEncrypt
  <2>5. inbox' \in [Conns -> SUBSET Packets] /\ Isolation'
    <3> HIDE DEF p, t
    <3>1. inbox \in [Conns -> SUBSET Packets]
      BY <1>0 DEF TrafficTypeOK
    <3>q. QED BY <1>0, <2>1, <2>2, <2>3, <3>1, IsolationStays
  <2>6. Others(c) /\ ReaderOK(c)' /\ TrafficTypeOK'
    <3>1. CASE Return(c)
      <4>1. rd'[c] = "idle" /\ checked'[c] = NoUser
        BY <1>0, <3>1 DEF Return, At, TrafficTypeOK
      <4>q. QED BY <1>0, <2>4, <2>5, <3>1, <4>1 DEF Others, ReaderOK, TrafficTypeOK, Return, At, vars
    <3>2. CASE GoOn(c, "panic")
      BY <1>0, <2>1, <2>4, <2>5, <3>2 DEF Others, ReaderOK, TrafficTypeOK, GoOn, At, locals, vars
    <3>q. QED BY <1>3, <3>1, <3>2 DEF InboundEncrypt
  <2>7. OwnFramesOnly'
    BY <1>0, <2>4 DEF OwnFramesOnly
  <2>q. QED BY <1>1, <2>5, <2>6, <2>7 DEF PacketInv
<1>4. CASE ReaderPanics(c)
  <2>1. Return(c) /\ Same /\ UNCHANGED <<tun, tunTarget>> /\ pc' = [pc EXCEPT ![c] = "end"]
    BY <1>4 DEF ReaderPanics, Goto, Same
  <2>2. \A d \in Conns \ {c} : pc'[d] = pc[d]
    BY <1>0, <2>1 DEF TypeOK
  <2>3. Others(c) /\ ReaderOK(c)' /\ TrafficTypeOK'
    BY <2>1, <2>2, Returned DEF Same
  <2>q. QED BY <2>1, <2>3, ReaderStep
<1>q. QED BY <1>2, <1>3, <1>4

(* A step of the table leaves the readers' places alone.                   *)
LEMMA PlacesStay ==
  ASSUME TrafficInv, Table
  PROVE  \A d \in Conns : rd[d] # "idle" => pc'[d] = pc[d]
<1> USE DEF TrafficInv, IInv, TypeOK, PacketInv, ReaderOK
<1>1. ASSUME NEW c \in Conns, Accept(c) PROVE \A d \in Conns : rd[d] # "idle" => pc'[d] = pc[d]
  BY <1>1 DEF Accept, Goto
<1>2. ASSUME NEW c \in Conns, PeerGone(c) \/ Closing(c) \/ Kicking(c) PROVE UNCHANGED pc
  BY <1>2 DEF PeerGone, Closing, CloseReadsCallback, CloseRemoves, CloseDisconnects, Kicking, KickCloses,
              KickDisconnects
<1>3. ASSUME NEW c \in Conns, Handshake(c) PROVE \A d \in Conns \ {c} : pc'[d] = pc[d]
  <2>1. \E l \in Labels : pc' = [pc EXCEPT ![c] = l]
    BY <1>3 DEF Labels, Handshake, Authenticate, EnsureVPNIP, ApplyLANRegistry, ResolveClientPolicy, LoadExitLANs,
         RegisterFree, RegisterRefused, RegisterDisplace, DrainOldConn, DrainReturns, Mount, SetOnClose,
         CheckState, SendOK, Undo, SwitchToForwarding, ReadLoopEnds, Shut, Goto
  <2>q. QED BY <2>1
<1>4. ASSUME NEW u \in Users, KickUser(u) PROVE UNCHANGED pc
  BY <1>4 DEF KickUser
<1>5. ASSUME NEW u \in Users, NEW ip \in IPs, PlaceOnAddress(u, ip) PROVE UNCHANGED pc
  BY <1>5 DEF PlaceOnAddress
<1>q. QED BY <1>1, <1>2, <1>3, <1>4, <1>5, Peers DEF Table

LEMMA PacketStep == TrafficInv /\ [TNext]_tvars => PacketInv'
<1> SUFFICES ASSUME TrafficInv, [TNext]_tvars PROVE PacketInv'
  OBVIOUS
<1>1. ASSUME UNCHANGED <<rd, locals, fed, inbox>>, tun' \in {"idle", "send", "encrypt", "dead"},
             tunTarget' \in Conns \cup {NoConn}, \A d \in Conns : rd[d] # "idle" => pc'[d] = pc[d]
      PROVE  PacketInv'
  <2>1. \A d \in Conns : viaRoutes[d] \subseteq viaRoutes'[d]
    BY TablePart
  <2>2. ASSUME NEW d \in Conns PROVE ReaderOK(d)'
    BY <1>1, <2>1, ReaderKept DEF TrafficInv, PacketInv, locals
  <2>3. Isolation'
    BY <1>1, <2>1, IsolationSame DEF TrafficInv, PacketInv
  <2>4. TrafficTypeOK' /\ OwnFramesOnly'
    BY <1>1 DEF TrafficInv, PacketInv, TrafficTypeOK, OwnFramesOnly, locals
  <2>q. QED BY <2>2, <2>3, <2>4 DEF PacketInv
<1>2. tun \in {"idle", "send", "encrypt", "dead"} /\ tunTarget \in Conns \cup {NoConn}
  BY DEF TrafficInv, PacketInv, TrafficTypeOK
<1>3. CASE UNCHANGED tvars
  BY <1>1, <1>2, <1>3 DEF tvars, vars, traffic
<1>4. CASE Table
  BY <1>1, <1>2, <1>4, PlacesStay DEF Table, traffic
<1>5. CASE TunRoute \/ TunSend \/ TunEncrypt
  BY <1>1, <1>2, <1>5 DEF TunRoute, TunSend, TunEncrypt, vars
<1>6. CASE \E c \in Conns : Inbound(c)
  BY <1>6, LookupStep, FoundStep, CryptoStep DEF Inbound
<1>q. QED BY <1>3, <1>4, <1>5, <1>6 DEF TNext

-----------------------------------------------------------------------------
LEMMA TrafficInit == TInit => TrafficInv
<1> SUFFICES ASSUME TInit PROVE TrafficInv
  OBVIOUS
<1> USE Constants DEF ConnAssumption, TInit
<1>1. IInv
  BY InvInit
<1>2. RoutesManaged
  BY DEF Init, RoutesManaged
<1>3. Addressed
  BY DEF Init, Addressed, Owned
<1>4. PacketInv
  BY DEF PacketInv, TrafficTypeOK, ReaderOK, Isolation, OwnFramesOnly
<1>q. QED BY <1>1, <1>2, <1>3, <1>4 DEF TrafficInv

(* The strengthened invariant of table and packets. *)
THEOREM TrafficCorrect == TSpec => []TrafficInv
<1>1. TrafficInv /\ [TNext]_tvars => TrafficInv'
  BY TrafficTableStep, TablePart, PacketStep DEF TrafficInv
<1>q. QED BY TrafficInit, <1>1, PTL DEF TSpec

(* No session ever decrypts a frame of another connection, whatever        *)
(* displacements and kicks come between the two lookups of HandleInbound.  *)
THEOREM FramesStayOwn == TSpec => []OwnFramesOnly
<1>1. TrafficInv => OwnFramesOnly
  BY DEF TrafficInv, PacketInv
<1>q. QED BY TrafficCorrect, <1>1, PTL

(* Packets cross between accounts only by peer access, along a managed     *)
(* route, as the answers of an account that was a via, or to an address    *)
(* that has had an owner the sender may reach: each lookup of HandleInbound *)
(* under a read lock of its own.                                           *)
THEOREM Isolated == TSpec => []Isolation
<1>1. TrafficInv => Isolation
  BY DEF TrafficInv, PacketInv
<1>q. QED BY TrafficCorrect, <1>1, PTL

(* With packets and panicking readers the table keeps its invariant, and   *)
(* with it the properties of SessionMgr.                                   *)
THEOREM TableCorrectWithTraffic == TSpec => [](SessionReachable /\ SessionIndexed /\ NoZombieSession)
<1>1. TrafficInv => SessionReachable /\ SessionIndexed /\ NoZombieSession
  BY DEF TrafficInv, IInv, TableInv
<1>q. QED BY TrafficCorrect, <1>1, PTL

-----------------------------------------------------------------------------
(***************************************************************************)
(* The flow table.  A new flow is counted against the limit with all the   *)
(* locks held, from the recheck to the insertion (Alone); until then       *)
(* nobody else comes to the table.                                         *)
(***************************************************************************)
Pcs     == {"idle", "hot", "lock", "recheck", "evict", "put"}
Behind  == {"recheck", "evict", "put"}
FmWorks == [pc : Pcs, flow : Flows \cup {"none"}, now : Nat]
FmFlows == [packets : Nat, last : Nat]

TableOK == fmTable \in [Flows -> FmFlows] /\ fmCounted \in [Flows -> Nat]
WorkOK ==
    /\ fmWork \in [Forwarders -> FmWorks]
    /\ \A f \in Forwarders : fmWork[f].pc # "idle" => fmWork[f].flow \in Flows
RestOK ==
    /\ fmHeld \in [Forwarders -> SUBSET Shards]
    /\ fmSeen \in [Shards -> 0..Every - 1]
    /\ fmList \in [shard : 0..LastShard + 1, cutoff : Nat, rows : SUBSET Flows]
    /\ fmTime \in Nat /\ fmPackets \in Nat

(* Whose locks are whose.                                                  *)
Exclusive == \A f, g \in Forwarders : f # g => fmHeld[f] \cap fmHeld[g] = {}
AllHeld   == \A f \in Forwarders : fmWork[f].pc \in Behind => fmHeld[f] = Shards
NoneHeld  == \A f \in Forwarders : fmWork[f].pc \in {"idle", "hot"} => fmHeld[f] = {}

(* What the holder of all the locks has found is so still.                 *)
FoundNone == \A f \in Forwarders : fmWork[f].pc \in {"evict", "put"} => fmTable[fmWork[f].flow].packets = 0
RoomLeft ==
    \A f \in Forwarders : fmWork[f].pc = "put" =>
        Cardinality(FlowsOf(UserOfFlow[fmWork[f].flow])) < MaxPerUser

FlowInv ==
    /\ TableOK /\ WorkOK /\ RestOK
    /\ LocksAscend /\ Exclusive /\ AllHeld /\ NoneHeld
    /\ FoundNone /\ RoomLeft /\ FlowLimit /\ PacketsCounted

LEMMA FlowsFinite == \A u : IsFiniteSet(FlowsOf(u)) /\ Cardinality(FlowsOf(u)) \in Nat
<1>1. \A u : FlowsOf(u) \subseteq Flows
  BY DEF FlowsOf, LiveFlows
<1>. QED BY <1>1, FlowAssumption, FS_Subset, FS_CardinalityType

(* Who holds all the locks is alone with the table. *)
LEMMA Alone ==
  ASSUME RestOK, Exclusive, AllHeld, NEW f \in Forwarders, fmWork[f].pc \in Behind
  PROVE  /\ \A i \in Shards : ~Unlocked(i)
         /\ \A g \in Forwarders : g # f => fmWork[g].pc \notin Behind
<1>1. 0 \in Shards
  BY FlowAssumption DEF Shards
<1>2. fmHeld[f] = Shards
  BY DEF AllHeld
<1>3. ASSUME NEW g \in Forwarders, g # f, fmWork[g].pc \in Behind PROVE FALSE
  BY <1>1, <1>2, <1>3 DEF AllHeld, Exclusive
<1>. QED BY <1>2, <1>3 DEF Unlocked

(* No flow of anybody comes to be.                                         *)
Shrinks == \A k \in Flows : fmTable[k].packets = 0 => fmTable'[k].packets = 0

LEMMA ShrinkKeeps ==
  ASSUME TableOK, TableOK', Shrinks
  PROVE  /\ \A u : Cardinality(FlowsOf(u)') <= Cardinality(FlowsOf(u))
         /\ FlowLimit => FlowLimit'
<1>1. ASSUME NEW u PROVE Cardinality(FlowsOf(u)') <= Cardinality(FlowsOf(u))
  <2>1. FlowsOf(u)' \subseteq FlowsOf(u)
    <3>1. ASSUME NEW k \in Flows, fmTable'[k].packets > 0 PROVE fmTable[k].packets > 0
      <4>1. fmTable[k].packets \in Nat
        BY DEF TableOK, FmFlows
      <4>. QED BY <3>1, <4>1 DEF Shrinks
    <3>. QED BY <3>1 DEF FlowsOf, LiveFlows
  <2>. QED BY <2>1, FlowsFinite, FS_Subset
<1>2. ASSUME FlowLimit PROVE FlowLimit'
  <2>1. ASSUME NEW k \in Flows PROVE Cardinality(FlowsOf(UserOfFlow[k])') <= MaxPerUser
    <3>1. PICK n \in Nat : n = Cardinality(FlowsOf(UserOfFlow[k])) /\ n <= MaxPerUser
      BY <1>2, FlowsFinite DEF FlowLimit
    <3>2. PICK m \in Nat : m = Cardinality(FlowsOf(UserOfFlow[k])')
      <4>1. FlowsOf(UserOfFlow[k])' \subseteq Flows
        BY DEF FlowsOf, LiveFlows
      <4>. QED BY <4>1, FlowAssumption, FS_Subset, FS_CardinalityType
    <3>3. m <= n
      BY <1>1, <3>1, <3>2
    <3>. QED BY <3>1, <3>2, <3>3, FlowAssumption
  <2>. QED BY <2>1 DEF FlowLimit
<1>. QED BY <1>1, <1>2

(* What a step does to the table: nothing, or flows go, or one counts a    *)
(* packet that was there; a forwarder behind the locks keeps all of it.    *)
LEMMA GoneIs ==
  ASSUME TableOK, PacketsCounted, NEW gone \in SUBSET Flows, FlowsGone(gone)
  PROVE  TableOK' /\ PacketsCounted' /\ Shrinks
<1>1. \A k \in Flows : /\ fmTable'[k] = IF k \in gone THEN NoFlow ELSE fmTable[k]
                       /\ fmCounted'[k] = IF k \in gone THEN 0 ELSE fmCounted[k]
  BY DEF FlowsGone
<1>2. NoFlow \in FmFlows /\ NoFlow.packets = 0
  BY DEF NoFlow, FmFlows
<1>3. \A k \in Flows : fmTable[k] \in FmFlows /\ fmCounted[k] \in Nat
  BY DEF TableOK
<1>4. TableOK'
  <2>1. fmTable' = [k \in Flows |-> fmTable'[k]] /\ fmCounted' = [k \in Flows |-> fmCounted'[k]]
    BY DEF FlowsGone
  <2>. QED BY <1>1, <1>2, <1>3, <2>1 DEF TableOK
<1>5. PacketsCounted'
  BY <1>1, <1>2 DEF PacketsCounted
<1>6. Shrinks
  BY <1>1, <1>2 DEF Shrinks
<1>. QED BY <1>4, <1>5, <1>6

(* The same, and then a flow that is there counts a packet. *)
LEMMA BumpIs ==
  ASSUME TableOK, PacketsCounted, NEW gone \in SUBSET Flows, NEW k \in Flows, NEW now \in Nat,
         fmTable[k].packets > 0, k \notin gone,
         fmTable' = Bumped([j \in Flows |-> IF j \in gone THEN NoFlow ELSE fmTable[j]], k, now),
         fmCounted' = [[j \in Flows |-> IF j \in gone THEN 0 ELSE fmCounted[j]] EXCEPT ![k] = fmCounted[k] + 1]
  PROVE  TableOK' /\ PacketsCounted' /\ Shrinks
<1>1. \A j \in Flows : fmTable[j] \in FmFlows /\ fmCounted[j] \in Nat
  BY DEF TableOK
<1>2. NoFlow \in FmFlows /\ NoFlow.packets = 0
  BY DEF NoFlow, FmFlows
<1>3. PICK r : r = [packets |-> fmTable[k].packets + 1, last |-> now]
  OBVIOUS
<1>4. r \in FmFlows /\ r.packets = fmTable[k].packets + 1
  BY <1>1, <1>3 DEF FmFlows
<1>5. fmTable' = [[j \in Flows |-> IF j \in gone THEN NoFlow ELSE fmTable[j]] EXCEPT ![k] = r]
  BY <1>3 DEF Bumped
<1>6. /\ fmTable'[k] = r /\ fmCounted'[k] = fmCounted[k] + 1
      /\ \A j \in Flows : j # k => /\ fmTable'[j] = IF j \in gone THEN NoFlow ELSE fmTable[j]
                                   /\ fmCounted'[j] = IF j \in gone THEN 0 ELSE fmCounted[j]
  BY <1>5
<1>7. fmTable' \in [Flows -> FmFlows]
  BY <1>1, <1>2, <1>4, <1>5
<1>8. fmCounted' \in [Flows -> Nat]
  BY <1>1
<1>9. PacketsCounted'
  BY <1>1, <1>2, <1>4, <1>6 DEF PacketsCounted
<1>10. Shrinks
  <2>1. fmTable[k].packets # 0
    OBVIOUS
  <2>. QED BY <1>2, <1>6, <2>1 DEF Shrinks
<1>. QED BY <1>7, <1>8, <1>9, <1>10 DEF TableOK

(* Where a forwarder is. *)
LEMMA WorkIs ==
  ASSUME WorkOK, NEW f \in Forwarders, NEW label \in Pcs, FmGoto(f, label), fmWork[f].pc # "idle"
  PROVE  /\ WorkOK' /\ fmWork'[f].pc = label /\ fmWork'[f].flow = fmWork[f].flow
         /\ \A g \in Forwarders : g # f => fmWork'[g] = fmWork[g]
<1>1. PICK w \in FmWorks : w = fmWork[f]
  BY DEF WorkOK
<1>2. [w EXCEPT !.pc = label] \in FmWorks /\ [w EXCEPT !.pc = label].pc = label /\ [w EXCEPT !.pc = label].flow = w.flow
  BY DEF FmWorks
<1>3. fmWork' = [fmWork EXCEPT ![f] = [w EXCEPT !.pc = label]]
  BY <1>1 DEF FmGoto
<1>4. fmWork'[f] = [w EXCEPT !.pc = label] /\ \A g \in Forwarders : g # f => fmWork'[g] = fmWork[g]
  BY <1>3 DEF WorkOK
<1>5. fmWork' \in [Forwarders -> FmWorks]
  BY <1>2, <1>3 DEF WorkOK
<1>. QED BY <1>1, <1>2, <1>4, <1>5 DEF WorkOK

LEMMA DoneIs ==
  ASSUME WorkOK, NEW f \in Forwarders, fmWork' = [fmWork EXCEPT ![f] = NoPacket]
  PROVE  WorkOK' /\ fmWork'[f].pc = "idle" /\ \A g \in Forwarders : g # f => fmWork'[g] = fmWork[g]
<1>1. NoPacket \in FmWorks /\ NoPacket.pc = "idle"
  BY DEF NoPacket, FmWorks, Pcs
<1>2. fmWork'[f] = NoPacket /\ \A g \in Forwarders : g # f => fmWork'[g] = fmWork[g]
  BY DEF WorkOK
<1>3. fmWork' \in [Forwarders -> FmWorks]
  BY <1>1 DEF WorkOK
<1>. QED BY <1>1, <1>2, <1>3 DEF WorkOK

(* What the conjuncts about locks and about the holder ask of a step of f. *)
LEMMA LocksStay ==
  ASSUME FlowInv, RestOK', UNCHANGED fmHeld, NEW f \in Forwarders,
         \A g \in Forwarders : g # f => fmWork'[g] = fmWork[g],
         fmWork'[f].pc \in Behind => fmWork[f].pc \in Behind,
         fmWork'[f].pc \in {"idle", "hot"} => fmWork[f].pc \in {"idle", "hot"}
  PROVE  LocksAscend' /\ Exclusive' /\ AllHeld' /\ NoneHeld'
BY DEF FlowInv, LocksAscend, Exclusive, AllHeld, NoneHeld

LEMMA LocksGo ==
  ASSUME FlowInv, NEW f \in Forwarders, fmHeld' = [fmHeld EXCEPT ![f] = {}], fmWork'[f].pc = "idle",
         \A g \in Forwarders : g # f => fmWork'[g] = fmWork[g]
  PROVE  fmHeld' \in [Forwarders -> SUBSET Shards] /\ LocksAscend' /\ Exclusive' /\ AllHeld' /\ NoneHeld'
<1>1. fmHeld'[f] = {} /\ \A g \in Forwarders : g # f => fmHeld'[g] = fmHeld[g]
  BY DEF FlowInv, RestOK
<1>2. fmHeld' \in [Forwarders -> SUBSET Shards]
  BY DEF FlowInv, RestOK
<1>3. LocksAscend'
  <2>1. {} = 0..0 - 1 /\ 0 \in 0..LastShard + 1
    BY FlowAssumption
  <2>. QED BY <1>1, <2>1 DEF FlowInv, LocksAscend
<1>. QED BY <1>1, <1>2, <1>3 DEF FlowInv, Exclusive, AllHeld, NoneHeld, Behind

(* The step of a forwarder that has looked at its flow's shard. *)
LEMMA HotIs ==
  ASSUME FlowInv, NEW f \in Forwarders, HotPath(f)
  PROVE  FlowInv'
<1>0. /\ TableOK /\ WorkOK /\ RestOK /\ LocksAscend /\ Exclusive /\ AllHeld /\ NoneHeld
      /\ FoundNone /\ RoomLeft /\ FlowLimit /\ PacketsCounted
  BY DEF FlowInv
<1>1. fmWork[f].pc = "hot" /\ UNCHANGED <<fmHeld, fmList, fmTime, fmPackets>>
  BY DEF HotPath
<1>2. PICK k \in Flows : k = fmWork[f].flow
  BY <1>0, <1>1 DEF WorkOK
<1>3. PICK now \in Nat : now = fmWork[f].now
  BY <1>0 DEF WorkOK, FmWorks
<1>4. PICK i \in Shards : i = ShardOf[k]
  BY FlowAssumption DEF Shards
<1>5. PICK gone \in SUBSET Flows : gone = IF (fmSeen[i] + 1) % Every = 0 THEN Stale(i, now) ELSE {}
  BY DEF Stale, InShard, LiveFlows
<1>6. PICK table : table = [j \in Flows |-> IF j \in gone THEN NoFlow ELSE fmTable[j]]
  OBVIOUS
<1>7. PICK counted : counted = [j \in Flows |-> IF j \in gone THEN 0 ELSE fmCounted[j]]
  OBVIOUS
<1>8. /\ Unlocked(i) /\ fmSeen' = [fmSeen EXCEPT ![i] = (fmSeen[i] + 1) % Every]
      /\ IF table[k].packets > 0
         THEN /\ fmTable' = Bumped(table, k, now)
              /\ fmCounted' = [counted EXCEPT ![k] = counted[k] + 1]
              /\ fmWork' = [fmWork EXCEPT ![f] = NoPacket]
         ELSE fmTable' = table /\ fmCounted' = counted /\ FmGoto(f, "lock")
  BY <1>2, <1>3, <1>4, <1>5, <1>6, <1>7 DEF HotPath
<1>9. RestOK'
  <2>1. fmSeen[i] \in Nat
    BY <1>0, FlowAssumption DEF RestOK
  <2>2. (fmSeen[i] + 1) % Every \in 0..Every - 1
    BY <2>1, FlowAssumption
  <2>. QED BY <1>0, <1>1, <1>8, <2>2 DEF RestOK
<1>10. /\ TableOK' /\ PacketsCounted' /\ Shrinks
       /\ WorkOK' /\ fmWork'[f].pc \in {"idle", "lock"} /\ \A g \in Forwarders : g # f => fmWork'[g] = fmWork[g]
  <2>1. CASE table[k].packets > 0
    <3>1. k \notin gone /\ fmTable[k].packets > 0
      <4>1. table[k] = IF k \in gone THEN NoFlow ELSE fmTable[k]
        BY <1>6
      <4>2. ~(NoFlow.packets > 0)
        BY DEF NoFlow
      <4>. QED BY <2>1, <4>1, <4>2
    <3>2. fmTable' = Bumped([j \in Flows |-> IF j \in gone THEN NoFlow ELSE fmTable[j]], k, now)
      BY <1>6, <1>8, <2>1
    <3>3. counted[k] = fmCounted[k]
      BY <1>7, <3>1
    <3>4. fmCounted' = [[j \in Flows |-> IF j \in gone THEN 0 ELSE fmCounted[j]] EXCEPT ![k] = fmCounted[k] + 1]
      BY <1>7, <1>8, <2>1, <3>3
    <3>5. TableOK' /\ PacketsCounted' /\ Shrinks
      BY <1>0, <3>1, <3>2, <3>4, BumpIs
    <3>6. fmWork' = [fmWork EXCEPT ![f] = NoPacket]
      BY <1>8, <2>1
    <3>. QED BY <1>0, <3>5, <3>6, DoneIs
  <2>2. CASE ~(table[k].packets > 0)
    <3>1. FlowsGone(gone) /\ FmGoto(f, "lock")
      BY <1>6, <1>7, <1>8, <2>2 DEF FlowsGone
    <3>2. TableOK' /\ PacketsCounted' /\ Shrinks
      BY <1>0, <3>1, GoneIs
    <3>3. "lock" \in Pcs
      BY DEF Pcs
    <3>4. WorkOK' /\ fmWork'[f].pc = "lock" /\ \A g \in Forwarders : g # f => fmWork'[g] = fmWork[g]
      BY <1>0, <1>1, <3>1, <3>3, WorkIs
    <3>. QED BY <3>2, <3>4
  <2>. QED BY <2>1, <2>2
<1>11. LocksAscend' /\ Exclusive' /\ AllHeld' /\ NoneHeld'
  BY <1>1, <1>9, <1>10, LocksStay DEF Behind
<1>12. \A g \in Forwarders : fmWork[g].pc \notin Behind
  <2>1. ASSUME NEW g \in Forwarders, fmWork[g].pc \in Behind PROVE FALSE
    BY <1>0, <1>8, <2>1, Alone
  <2>. QED BY <2>1
<1>13. \A g \in Forwarders : fmWork'[g].pc \notin Behind
  BY <1>10, <1>12 DEF Behind
<1>14. FoundNone' /\ RoomLeft'
  BY <1>13 DEF FoundNone, RoomLeft, Behind
<1>15. FlowLimit'
  BY <1>0, <1>10, ShrinkKeeps
<1>. QED BY <1>9, <1>10, <1>11, <1>14, <1>15 DEF FlowInv

(* Flows go, and nobody who holds all the locks minds.                     *)
LEMMA ListIs ==
  ASSUME FlowInv, ListShard
  PROVE  FlowInv'
<1>0. /\ TableOK /\ WorkOK /\ RestOK /\ LocksAscend /\ Exclusive /\ AllHeld /\ NoneHeld
      /\ FoundNone /\ RoomLeft /\ FlowLimit /\ PacketsCounted
  BY DEF FlowInv
<1>1. PICK gone \in SUBSET Flows : gone = Stale(fmList.shard, fmList.cutoff)
  BY DEF Stale, InShard, LiveFlows
<1>2. /\ fmList.shard <= LastShard /\ Unlocked(fmList.shard) /\ FlowsGone(gone)
      /\ fmList' = [fmList EXCEPT !.shard = fmList.shard + 1, !.rows = fmList.rows \cup (InShard(fmList.shard) \ gone)]
      /\ UNCHANGED <<fmSeen, fmWork, fmHeld, fmTime, fmPackets>>
  BY <1>1 DEF ListShard
<1>3. fmList.shard \in Shards
  BY <1>0, <1>2, FlowAssumption DEF RestOK, Shards
<1>4. RestOK'
  <2>1. InShard(fmList.shard) \subseteq Flows
    BY DEF InShard, LiveFlows
  <2>2. PICK n \in 0..LastShard + 1 : n = fmList.shard + 1
    BY <1>0, <1>2, FlowAssumption DEF RestOK
  <2>3. PICK l \in [shard : 0..LastShard + 1, cutoff : Nat, rows : SUBSET Flows] : l = fmList
    BY <1>0 DEF RestOK
  <2>4. fmList' = [l EXCEPT !.shard = n, !.rows = l.rows \cup (InShard(l.shard) \ gone)]
    BY <1>2, <2>2, <2>3
  <2>5. l.rows \cup (InShard(l.shard) \ gone) \in SUBSET Flows
    BY <2>1, <2>3
  <2>6. fmList' \in [shard : 0..LastShard + 1, cutoff : Nat, rows : SUBSET Flows]
    BY <2>4, <2>5
  <2>. QED BY <1>0, <1>2, <2>6 DEF RestOK
<1>5. TableOK' /\ PacketsCounted' /\ Shrinks
  BY <1>0, <1>2, GoneIs
<1>6. FlowLimit'
  BY <1>0, <1>5, ShrinkKeeps
<1>7. \A g \in Forwarders : fmWork[g].pc \notin Behind
  <2>1. ASSUME NEW g \in Forwarders, fmWork[g].pc \in Behind PROVE FALSE
    BY <1>0, <1>2, <1>3, <2>1, Alone
  <2>. QED BY <2>1
<1>8. FoundNone' /\ RoomLeft'
  BY <1>2, <1>7 DEF FoundNone, RoomLeft, Behind
<1>9. WorkOK' /\ LocksAscend' /\ Exclusive' /\ AllHeld' /\ NoneHeld'
  BY <1>0, <1>2 DEF WorkOK, LocksAscend, Exclusive, AllHeld, NoneHeld
<1>. QED BY <1>4, <1>5, <1>6, <1>8, <1>9 DEF FlowInv

LEMMA ObserveIs ==
  ASSUME FlowInv, NEW f \in Forwarders, Observe(f)
  PROVE  FlowInv'
<1>0. /\ TableOK /\ WorkOK /\ RestOK /\ LocksAscend /\ Exclusive /\ AllHeld /\ NoneHeld
      /\ FoundNone /\ RoomLeft /\ FlowLimit /\ PacketsCounted
  BY DEF FlowInv
<1>1. PICK k \in Flows : fmWork' = [fmWork EXCEPT ![f] = [pc |-> "hot", flow |-> k, now |-> fmTime]]
  BY DEF Observe
<1>2. /\ fmWork[f].pc = "idle" /\ fmPackets' = fmPackets + 1
      /\ UNCHANGED <<fmTable, fmSeen, fmHeld, fmList, fmTime, fmCounted>>
  BY DEF Observe
<1>3. PICK w : w = [pc |-> "hot", flow |-> k, now |-> fmTime]
  OBVIOUS
<1>4. w \in FmWorks /\ w.pc = "hot" /\ w.flow = k
  BY <1>0, <1>3 DEF FmWorks, Pcs, RestOK
<1>5. fmWork' = [fmWork EXCEPT ![f] = w]
  BY <1>1, <1>3
<1>6. fmWork'[f] = w /\ \A g \in Forwarders : g # f => fmWork'[g] = fmWork[g]
  BY <1>0, <1>5 DEF WorkOK
<1>7. fmWork' \in [Forwarders -> FmWorks]
  BY <1>0, <1>4, <1>5 DEF WorkOK
<1>8. WorkOK'
  BY <1>0, <1>4, <1>6, <1>7 DEF WorkOK
<1>9. RestOK'
  BY <1>0, <1>2 DEF RestOK
<1>10. LocksAscend' /\ Exclusive' /\ AllHeld' /\ NoneHeld'
  BY <1>2, <1>4, <1>6, <1>9, LocksStay DEF Behind
<1>11. TableOK' /\ PacketsCounted' /\ FlowLimit'
  BY <1>0, <1>2 DEF TableOK, PacketsCounted, FlowLimit, FlowsOf, LiveFlows
<1>12. FoundNone'
  BY <1>0, <1>2, <1>4, <1>6 DEF FoundNone
<1>13. RoomLeft'
  <2>1. ASSUME NEW g \in Forwarders, fmWork'[g].pc = "put"
        PROVE  Cardinality(FlowsOf(UserOfFlow[fmWork[g].flow])) < MaxPerUser /\ fmWork'[g] = fmWork[g]
    BY <1>0, <1>4, <1>6, <2>1 DEF RoomLeft
  <2>2. \A u : FlowsOf(u)' = FlowsOf(u)
    BY <1>2 DEF FlowsOf, LiveFlows
  <2>. QED BY <2>1, <2>2 DEF RoomLeft
<1>. QED BY <1>8, <1>9, <1>10, <1>11, <1>12, <1>13 DEF FlowInv

(* The locks are taken from the lowest, and the last makes a holder of f.  *)
LEMMA LockIs ==
  ASSUME FlowInv, NEW f \in Forwarders, LockNext(f)
  PROVE  FlowInv'
<1>0. /\ TableOK /\ WorkOK /\ RestOK /\ LocksAscend /\ Exclusive /\ AllHeld /\ NoneHeld
      /\ FoundNone /\ RoomLeft /\ FlowLimit /\ PacketsCounted
  BY DEF FlowInv
<1>1. PICK i \in Shards \ fmHeld[f] :
        /\ \A j \in Shards \ fmHeld[f] : i <= j
        /\ Unlocked(i)
        /\ fmHeld' = [fmHeld EXCEPT ![f] = fmHeld[f] \cup {i}]
        /\ IF fmHeld'[f] = Shards THEN FmGoto(f, "recheck") ELSE UNCHANGED fmWork
  BY DEF LockNext, Wanted
<1>2. fmWork[f].pc = "lock" /\ UNCHANGED <<fmTable, fmSeen, fmList, fmTime, fmPackets, fmCounted>>
  BY DEF LockNext
<1>3. fmHeld'[f] = fmHeld[f] \cup {i} /\ \A g \in Forwarders : g # f => fmHeld'[g] = fmHeld[g]
  BY <1>0, <1>1 DEF RestOK
<1>4. PICK n \in 0..LastShard + 1 : fmHeld[f] = 0..n - 1
  BY <1>0 DEF LocksAscend
<1>5. n \in Shards /\ i = n
  <2>1. n \notin fmHeld[f]
    BY <1>4, FlowAssumption
  <2>2. i \in 0..LastShard /\ ~(i <= n - 1)
    BY <1>1, <1>4, FlowAssumption DEF Shards
  <2>3. n \in Shards
    BY <2>2, <1>4, FlowAssumption DEF Shards
  <2>. QED BY <1>1, <2>1, <2>2, <2>3, FlowAssumption
<1>6. fmHeld'[f] = 0..(n + 1) - 1 /\ n + 1 \in 0..LastShard + 1
  <2>1. 0..(n + 1) - 1 = (0..n - 1) \cup {n}
    BY FlowAssumption
  <2>2. n + 1 \in 0..LastShard + 1
    BY <1>5, FlowAssumption DEF Shards
  <2>. QED BY <1>3, <1>4, <1>5, <2>1, <2>2
<1>7. LocksAscend'
  BY <1>0, <1>3, <1>6 DEF LocksAscend
<1>8. Exclusive'
  BY <1>0, <1>1, <1>3 DEF Exclusive, Unlocked
<1>9. WorkOK' /\ fmWork'[f].flow = fmWork[f].flow /\ \A g \in Forwarders : g # f => fmWork'[g] = fmWork[g]
  <2>1. CASE fmHeld'[f] = Shards
    <3>1. "recheck" \in Pcs
      BY DEF Pcs
    <3>. QED BY <1>0, <1>1, <1>2, <2>1, <3>1, WorkIs
  <2>2. CASE fmHeld'[f] # Shards
    BY <1>0, <1>1, <2>2 DEF WorkOK
  <2>. QED BY <2>1, <2>2
<1>10. IF fmHeld'[f] = Shards THEN fmWork'[f].pc = "recheck" ELSE fmWork'[f].pc = "lock"
  <2>1. CASE fmHeld'[f] = Shards
    <3>1. "recheck" \in Pcs
      BY DEF Pcs
    <3>. QED BY <1>0, <1>1, <1>2, <2>1, <3>1, WorkIs
  <2>2. CASE fmHeld'[f] # Shards
    BY <1>1, <1>2, <2>2
  <2>. QED BY <2>1, <2>2
<1>11. AllHeld' /\ NoneHeld'
  BY <1>0, <1>3, <1>9, <1>10 DEF AllHeld, NoneHeld, Behind
<1>12. RestOK'
  <2>1. fmHeld' \in [Forwarders -> SUBSET Shards]
    BY <1>0, <1>1 DEF RestOK
  <2>. QED BY <1>0, <1>2, <2>1 DEF RestOK
<1>13. TableOK' /\ PacketsCounted' /\ FlowLimit'
  BY <1>0, <1>2 DEF TableOK, PacketsCounted, FlowLimit, FlowsOf, LiveFlows
<1>14. FoundNone'
  BY <1>0, <1>2, <1>9, <1>10 DEF FoundNone
<1>15. RoomLeft'
  <2>1. ASSUME NEW g \in Forwarders, fmWork'[g].pc = "put"
        PROVE  Cardinality(FlowsOf(UserOfFlow[fmWork[g].flow])) < MaxPerUser /\ fmWork'[g] = fmWork[g]
    BY <1>0, <1>9, <1>10, <2>1 DEF RoomLeft
  <2>2. \A u : FlowsOf(u)' = FlowsOf(u)
    BY <1>2 DEF FlowsOf, LiveFlows
  <2>. QED BY <2>1, <2>2 DEF RoomLeft
<1>. QED BY <1>7, <1>8, <1>9, <1>11, <1>12, <1>13, <1>14, <1>15 DEF FlowInv

(* Someone else has put the flow in, or it is not there and stays away.    *)
LEMMA RecheckIs ==
  ASSUME FlowInv, NEW f \in Forwarders, Recheck(f)
  PROVE  FlowInv'
<1>0. /\ TableOK /\ WorkOK /\ RestOK /\ LocksAscend /\ Exclusive /\ AllHeld /\ NoneHeld
      /\ FoundNone /\ RoomLeft /\ FlowLimit /\ PacketsCounted
  BY DEF FlowInv
<1>1. fmWork[f].pc = "recheck" /\ UNCHANGED <<fmSeen, fmList, fmTime, fmPackets>>
  BY DEF Recheck
<1>2. PICK k \in Flows : k = fmWork[f].flow
  BY <1>0, <1>1 DEF WorkOK
<1>3. PICK now \in Nat : now = fmWork[f].now
  BY <1>0 DEF WorkOK, FmWorks
<1>4. \A g \in Forwarders : g # f => fmWork[g].pc \notin Behind
  BY <1>0, <1>1, Alone DEF Behind
<1>5. CASE fmTable[k].packets > 0
  <2>1. /\ fmTable' = Bumped(fmTable, k, now)
        /\ fmCounted' = [fmCounted EXCEPT ![k] = fmCounted[k] + 1]
        /\ fmWork' = [fmWork EXCEPT ![f] = NoPacket]
        /\ fmHeld' = [fmHeld EXCEPT ![f] = {}]
    BY <1>2, <1>3, <1>5 DEF Recheck, CountPacket
  <2>2. /\ fmTable = [j \in Flows |-> IF j \in {} THEN NoFlow ELSE fmTable[j]]
        /\ fmCounted = [j \in Flows |-> IF j \in {} THEN 0 ELSE fmCounted[j]]
    BY <1>0 DEF TableOK
  <2>3. {} \in SUBSET Flows /\ k \notin {}
    OBVIOUS
  <2>4. TableOK' /\ PacketsCounted' /\ Shrinks
    BY <1>0, <1>5, <2>1, <2>2, <2>3, BumpIs
  <2>5. WorkOK' /\ fmWork'[f].pc = "idle" /\ \A g \in Forwarders : g # f => fmWork'[g] = fmWork[g]
    BY <1>0, <2>1, DoneIs
  <2>6. fmHeld' \in [Forwarders -> SUBSET Shards] /\ LocksAscend' /\ Exclusive' /\ AllHeld' /\ NoneHeld'
    BY <2>1, <2>5, LocksGo
  <2>7. RestOK'
    BY <1>0, <1>1, <2>6 DEF RestOK
  <2>8. FoundNone' /\ RoomLeft'
    BY <1>4, <2>5 DEF FoundNone, RoomLeft, Behind
  <2>9. FlowLimit'
    BY <1>0, <2>4, ShrinkKeeps
  <2>. QED BY <2>4, <2>5, <2>6, <2>7, <2>8, <2>9 DEF FlowInv
<1>6. CASE ~(fmTable[k].packets > 0)
  <2>1. FmGoto(f, "evict") /\ UNCHANGED <<fmTable, fmCounted, fmHeld>>
    BY <1>2, <1>6 DEF Recheck
  <2>2. "evict" \in Pcs
    BY DEF Pcs
  <2>3. /\ WorkOK' /\ fmWork'[f].pc = "evict" /\ fmWork'[f].flow = k
        /\ \A g \in Forwarders : g # f => fmWork'[g] = fmWork[g]
    BY <1>0, <1>1, <1>2, <2>1, <2>2, WorkIs
  <2>4. RestOK'
    BY <1>0, <1>1, <2>1 DEF RestOK
  <2>5. LocksAscend' /\ Exclusive' /\ AllHeld' /\ NoneHeld'
    BY <1>1, <2>1, <2>3, <2>4, LocksStay DEF Behind
  <2>6. fmTable[k].packets = 0
    <3>1. fmTable[k].packets \in Nat
      BY <1>0 DEF TableOK, FmFlows
    <3>. QED BY <1>6, <3>1
  <2>7. FoundNone' /\ RoomLeft'
    BY <1>4, <2>1, <2>3, <2>6 DEF FoundNone, RoomLeft, Behind
  <2>8. TableOK' /\ PacketsCounted' /\ FlowLimit'
    BY <1>0, <2>1 DEF TableOK, PacketsCounted, FlowLimit, FlowsOf, LiveFlows
  <2>. QED BY <2>3, <2>4, <2>5, <2>7, <2>8 DEF FlowInv
<1>. QED BY <1>5, <1>6

(* Only flows of the table go, so the flow that was missing stays missing. *)
LEMMA EvictIs ==
  ASSUME FlowInv, NEW f \in Forwarders, Evict(f)
  PROVE  FlowInv'
<1>0. /\ TableOK /\ WorkOK /\ RestOK /\ LocksAscend /\ Exclusive /\ AllHeld /\ NoneHeld
      /\ FoundNone /\ RoomLeft /\ FlowLimit /\ PacketsCounted
  BY DEF FlowInv
<1>1. fmWork[f].pc = "evict" /\ UNCHANGED <<fmSeen, fmHeld, fmList, fmTime, fmPackets>>
  BY DEF Evict
<1>2. PICK k \in Flows : k = fmWork[f].flow
  BY <1>0, <1>1 DEF WorkOK
<1>3. RestOK'
  BY <1>0, <1>1 DEF RestOK
<1>4. \A g \in Forwarders : g # f => fmWork[g].pc \notin Behind
  BY <1>0, <1>1, Alone DEF Behind
<1>5. fmTable[k].packets = 0
  BY <1>0, <1>1, <1>2 DEF FoundNone
<1>6. CASE Cardinality(FlowsOf(UserOfFlow[k])) >= MaxPerUser
  <2>1. PICK old \in FlowsOf(UserOfFlow[k]) : FlowsGone({old})
    BY <1>2, <1>6 DEF Evict
  <2>2. {old} \in SUBSET Flows
    BY DEF FlowsOf, LiveFlows
  <2>3. TableOK' /\ PacketsCounted' /\ Shrinks
    BY <1>0, <2>1, <2>2, GoneIs
  <2>4. UNCHANGED fmWork
    BY <1>2, <1>6 DEF Evict
  <2>5. fmTable'[k].packets = 0
    BY <1>5, <2>3 DEF Shrinks
  <2>6. FoundNone' /\ RoomLeft'
    BY <1>1, <1>2, <1>4, <2>4, <2>5 DEF FoundNone, RoomLeft, Behind
  <2>7. FlowLimit'
    BY <1>0, <2>3, ShrinkKeeps
  <2>8. WorkOK' /\ LocksAscend' /\ Exclusive' /\ AllHeld' /\ NoneHeld'
    BY <1>0, <1>1, <2>4 DEF WorkOK, LocksAscend, Exclusive, AllHeld, NoneHeld
  <2>. QED BY <1>3, <2>3, <2>6, <2>7, <2>8 DEF FlowInv
<1>7. CASE ~(Cardinality(FlowsOf(UserOfFlow[k])) >= MaxPerUser)
  <2>1. FmGoto(f, "put") /\ UNCHANGED <<fmTable, fmCounted>>
    BY <1>2, <1>7 DEF Evict
  <2>2. "put" \in Pcs
    BY DEF Pcs
  <2>3. /\ WorkOK' /\ fmWork'[f].pc = "put" /\ fmWork'[f].flow = k
        /\ \A g \in Forwarders : g # f => fmWork'[g] = fmWork[g]
    BY <1>0, <1>1, <1>2, <2>1, <2>2, WorkIs
  <2>4. LocksAscend' /\ Exclusive' /\ AllHeld' /\ NoneHeld'
    BY <1>1, <1>3, <2>3, LocksStay DEF Behind
  <2>5. Cardinality(FlowsOf(UserOfFlow[k])) < MaxPerUser
    <3>1. PICK n \in Nat : n = Cardinality(FlowsOf(UserOfFlow[k]))
      BY FlowsFinite
    <3>. QED BY <1>7, <3>1, FlowAssumption
  <2>6. \A u : FlowsOf(u)' = FlowsOf(u)
    BY <2>1 DEF FlowsOf, LiveFlows
  <2>7. RoomLeft'
    BY <1>4, <2>3, <2>5, <2>6 DEF RoomLeft, Behind
  <2>8. FoundNone'
    BY <1>4, <1>5, <2>1, <2>3 DEF FoundNone, Behind
  <2>9. TableOK' /\ PacketsCounted' /\ FlowLimit'
    BY <1>0, <2>1 DEF TableOK, PacketsCounted, FlowLimit, FlowsOf, LiveFlows
  <2>. QED BY <1>3, <2>3, <2>4, <2>7, <2>8, <2>9 DEF FlowInv
<1>. QED BY <1>6, <1>7

(* There was room for the flow, and none of its packets was counted.       *)
LEMMA PutIs ==
  ASSUME FlowInv, NEW f \in Forwarders, Put(f)
  PROVE  FlowInv'
<1>0. /\ TableOK /\ WorkOK /\ RestOK /\ LocksAscend /\ Exclusive /\ AllHeld /\ NoneHeld
      /\ FoundNone /\ RoomLeft /\ FlowLimit /\ PacketsCounted
  BY DEF FlowInv
<1>1. fmWork[f].pc = "put" /\ UNCHANGED <<fmSeen, fmList, fmTime, fmPackets>>
  BY DEF Put
<1>2. PICK k \in Flows : k = fmWork[f].flow
  BY <1>0, <1>1 DEF WorkOK
<1>3. PICK now \in Nat : now = fmWork[f].now
  BY <1>0 DEF WorkOK, FmWorks
<1>4. PICK r : r = [packets |-> 1, last |-> now]
  OBVIOUS
<1>5. r \in FmFlows /\ r.packets = 1
  BY <1>4 DEF FmFlows
<1>6. /\ fmTable' = [fmTable EXCEPT ![k] = r]
      /\ fmCounted' = [fmCounted EXCEPT ![k] = fmCounted[k] + 1]
      /\ fmWork' = [fmWork EXCEPT ![f] = NoPacket]
      /\ fmHeld' = [fmHeld EXCEPT ![f] = {}]
  BY <1>2, <1>3, <1>4 DEF Put
<1>7. fmCounted[k] = 0
  BY <1>0, <1>1, <1>2 DEF FoundNone, PacketsCounted
<1>8. /\ fmTable'[k] = r /\ fmCounted'[k] = 1
      /\ \A j \in Flows : j # k => fmTable'[j] = fmTable[j] /\ fmCounted'[j] = fmCounted[j]
  BY <1>0, <1>6, <1>7 DEF TableOK
<1>9. TableOK'
  BY <1>0, <1>5, <1>6 DEF TableOK
<1>10. PacketsCounted'
  BY <1>0, <1>5, <1>8 DEF PacketsCounted
<1>11. WorkOK' /\ fmWork'[f].pc = "idle" /\ \A g \in Forwarders : g # f => fmWork'[g] = fmWork[g]
  BY <1>0, <1>6, DoneIs
<1>12. fmHeld' \in [Forwarders -> SUBSET Shards] /\ LocksAscend' /\ Exclusive' /\ AllHeld' /\ NoneHeld'
  BY <1>6, <1>11, LocksGo
<1>13. RestOK'
  BY <1>0, <1>1, <1>12 DEF RestOK
<1>14. \A g \in Forwarders : g # f => fmWork[g].pc \notin Behind
  BY <1>0, <1>1, Alone DEF Behind
<1>15. FoundNone' /\ RoomLeft'
  BY <1>11, <1>14 DEF FoundNone, RoomLeft, Behind
<1>16. FlowLimit'
  <2>1. ASSUME NEW x \in Flows PROVE Cardinality(FlowsOf(UserOfFlow[x])') <= MaxPerUser
    <3>1. PICK n \in Nat : n = Cardinality(FlowsOf(UserOfFlow[x]))
      BY FlowsFinite
    <3>2. IsFiniteSet(FlowsOf(UserOfFlow[x]))
      BY FlowsFinite
    <3>3. FlowsOf(UserOfFlow[x])' \subseteq FlowsOf(UserOfFlow[x]) \cup {k}
      BY <1>8 DEF FlowsOf, LiveFlows
    <3>4. n <= MaxPerUser
      BY <1>0, <3>1 DEF FlowLimit
    <3>5. CASE UserOfFlow[x] = UserOfFlow[k]
      <4>1. n < MaxPerUser
        BY <1>0, <1>1, <1>2, <3>1, <3>5 DEF RoomLeft
      <4>2. PICK m \in Nat : m = Cardinality(FlowsOf(UserOfFlow[x]) \cup {k}) /\ m <= n + 1
        <5>1. PICK room : room = FlowsOf(UserOfFlow[x])
          OBVIOUS
        <5>2. Cardinality(room \cup {k}) = IF k \in room THEN n ELSE n + 1
          BY <3>1, <3>2, <5>1, FS_AddElement
        <5>. QED BY <5>1, <5>2
      <4>3. IsFiniteSet(FlowsOf(UserOfFlow[x]) \cup {k})
        BY <3>2, FS_AddElement
      <4>4. Cardinality(FlowsOf(UserOfFlow[x])') <= m /\ Cardinality(FlowsOf(UserOfFlow[x])') \in Nat
        BY <3>3, <4>2, <4>3, FS_Subset, FS_CardinalityType
      <4>. QED BY <4>1, <4>2, <4>4, FlowAssumption
    <3>6. CASE UserOfFlow[x] # UserOfFlow[k]
      <4>1. FlowsOf(UserOfFlow[x])' \subseteq FlowsOf(UserOfFlow[x])
        BY <3>3, <3>6 DEF FlowsOf
      <4>2. Cardinality(FlowsOf(UserOfFlow[x])') <= n /\ Cardinality(FlowsOf(UserOfFlow[x])') \in Nat
        BY <3>1, <3>2, <4>1, FS_Subset, FS_CardinalityType
      <4>. QED BY <3>4, <4>2, FlowAssumption
    <3>. QED BY <3>5, <3>6
  <2>. QED BY <2>1 DEF FlowLimit
<1>. QED BY <1>9, <1>10, <1>11, <1>12, <1>13, <1>15, <1>16 DEF FlowInv

LEMMA FlowStarts == FmInit => FlowInv
<1>. SUFFICES ASSUME FmInit PROVE FlowInv
  OBVIOUS
<1>1. \A k \in Flows : fmTable[k].packets = 0 /\ fmCounted[k] = 0
  BY DEF FmInit, NoFlow
<1>2. TableOK
  BY DEF FmInit, NoFlow, FmFlows, TableOK
<1>3. \A f \in Forwarders : fmWork[f].pc = "idle" /\ fmHeld[f] = {}
  BY DEF FmInit, NoPacket
<1>4. WorkOK
  BY DEF FmInit, NoPacket, FmWorks, Pcs, WorkOK
<1>5. RestOK
  <2>1. NotListing \in [shard : 0..LastShard + 1, cutoff : Nat, rows : SUBSET Flows]
    BY FlowAssumption DEF NotListing
  <2>2. 0 \in 0..Every - 1
    BY FlowAssumption
  <2>. QED BY <2>1, <2>2 DEF FmInit, RestOK
<1>6. LocksAscend
  <2>1. {} = 0..0 - 1 /\ 0 \in 0..LastShard + 1
    BY FlowAssumption
  <2>. QED BY <1>3, <2>1 DEF LocksAscend
<1>7. Exclusive /\ AllHeld /\ NoneHeld /\ FoundNone /\ RoomLeft /\ PacketsCounted
  BY <1>1, <1>3 DEF Exclusive, AllHeld, NoneHeld, FoundNone, RoomLeft, PacketsCounted, Behind
<1>8. FlowLimit
  <2>1. \A u : FlowsOf(u) = {}
    BY <1>1 DEF FlowsOf, LiveFlows
  <2>. QED BY <2>1, FS_EmptySet, FlowAssumption DEF FlowLimit
<1>. QED BY <1>2, <1>4, <1>5, <1>6, <1>7, <1>8 DEF FlowInv

LEMMA FlowSteps == FlowInv /\ [FmNext]_fmVars => FlowInv'
<1>. SUFFICES ASSUME FlowInv, [FmNext]_fmVars PROVE FlowInv'
  OBVIOUS
<1>1. ASSUME NEW f \in Forwarders, Forwarding(f) PROVE FlowInv'
  BY <1>1, ObserveIs, HotIs, LockIs, RecheckIs, EvictIs, PutIs DEF Forwarding
<1>2. ASSUME UNCHANGED <<fmTable, fmWork, fmHeld, fmCounted>>, RestOK' PROVE FlowInv'
  <2>1. \A u : FlowsOf(u)' = FlowsOf(u)
    BY <1>2 DEF FlowsOf, LiveFlows
  <2>. QED BY <1>2, <2>1 DEF FlowInv, TableOK, WorkOK, LocksAscend, Exclusive, AllHeld, NoneHeld,
                           FoundNone, RoomLeft, FlowLimit, PacketsCounted
<1>3. CASE ListStarts
  <2>1. [shard |-> 0, cutoff |-> fmTime, rows |-> {}] \in [shard : 0..LastShard + 1, cutoff : Nat, rows : SUBSET Flows]
    BY FlowAssumption DEF FlowInv, RestOK
  <2>2. RestOK'
    BY <1>3, <2>1 DEF ListStarts, FlowInv, RestOK
  <2>. QED BY <1>2, <1>3, <2>2 DEF ListStarts
<1>4. CASE FlowClock
  <2>1. RestOK'
    BY <1>4 DEF FlowClock, FlowInv, RestOK
  <2>. QED BY <1>2, <1>4, <2>1 DEF FlowClock
<1>5. CASE UNCHANGED fmVars
  <2>1. RestOK'
    BY <1>5 DEF fmVars, FlowInv, RestOK
  <2>. QED BY <1>2, <1>5, <2>1 DEF fmVars
<1>. QED BY <1>1, <1>3, <1>4, <1>5, ListIs DEF FmNext

(* flowmon/tracker.go, ObservePacket, for every number of shards, flows    *)
(* and forwarding goroutines: no account is ever above its limit, every    *)
(* packet is counted once, and the locks are always held from the lowest   *)
(* up, so that no two goroutines wait for each other.                      *)
THEOREM FlowsKept == FmSpec => []FlowsTrue
<1>1. FlowInv => FlowsTrue
  BY DEF FlowInv, FlowsTrue
<1>. QED BY FlowStarts, FlowSteps, <1>1, PTL DEF FmSpec

=============================================================================
