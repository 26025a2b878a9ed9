--------------------------- MODULE SessionTraffic ---------------------------
(***************************************************************************)
(* Packets through the session table of SessionMgr: HandleInbound on the   *)
(* goroutine that reads a connection, RouteOutbound on the TUN goroutine,  *)
(* and sendToAccount, which both end in. They look sessions up under the   *)
(* read lock and use what they found after releasing it.                   *)
(***************************************************************************)
EXTENDS SessionMgr

CONSTANTS
    PeerAccess,     \* pairs <<a, b>>: a may reach the VPN address of b
    Elsewhere,      \* a destination that is nobody's VPN address
    Readers,        \* bound: the connections whose frames are followed
    Leavers,        \* bound: the connections whose peers go away
    Kicked,         \* bound: the accounts whose sessions are kicked
    Outbound        \* bound: whether packets from the TUN device are

ASSUME Peers ==
    /\ PeerAccess \subseteq Users \X Users /\ Elsewhere \notin IPs
    /\ Readers \subseteq Conns /\ Leavers \subseteq Conns /\ Kicked \subseteq Users
    /\ Outbound \in BOOLEAN

VARIABLES
    rd,         \* where the reader of a connection is inside HandleInbound
    ps,         \* the session its lookup found
    dst,        \* the destination of the packet
    checked,    \* the owner of dst whose rights lateralPeerAllowed looked at
    target,     \* the session it sends to
    tun,        \* the TUN goroutine; "dead" once it has panicked
    tunTarget,
    fed,        \* the connections whose frames a session has decrypted
    inbox       \* the packets a session was sent: the account they are from,
                \* and the one it was allowed to send them to (or NoUser)

locals == <<ps, dst, checked, target>>
traffic == <<rd, locals, tun, tunTarget, fed, inbox>>
tvars == <<vars, traffic>>

Packets == [from : Users, to : Users \cup {NoUser}]

TrafficTypeOK ==
    /\ rd \in [Conns -> {"idle", "check", "decrypt", "recheck", "route", "via", "return", "owner",
                         "rights", "peer", "routes", "send", "encrypt", "panic"}]
    /\ ps \in [Conns -> Conns \cup {NoConn}] /\ target \in [Conns -> Conns \cup {NoConn}]
    /\ dst \in [Conns -> IPs \cup {Elsewhere}] /\ checked \in [Conns -> Users \cup {NoUser}]
    /\ tun \in {"idle", "send", "encrypt", "dead"}
    /\ tunTarget \in Conns \cup {NoConn}
    /\ fed \in [Conns -> SUBSET Conns] /\ inbox \in [Conns -> SUBSET Packets]

TInit ==
    /\ Init
    /\ rd = [c \in Conns |-> "idle"]
    /\ ps = [c \in Conns |-> NoConn] /\ target = [c \in Conns |-> NoConn]
    /\ dst = [c \in Conns |-> Elsewhere] /\ checked = [c \in Conns |-> NoUser]
    /\ tun = "idle" /\ tunTarget = NoConn
    /\ fed = [c \in Conns |-> {}] /\ inbox = [c \in Conns |-> {}]

At(c, label) == rd' = [rd EXCEPT ![c] = label]

(* HandleInbound returns: its locals are gone. *)
Return(c) ==
    /\ At(c, "idle")
    /\ ps' = [ps EXCEPT ![c] = NoConn] /\ target' = [target EXCEPT ![c] = NoConn]
    /\ dst' = [dst EXCEPT ![c] = Elsewhere] /\ checked' = [checked EXCEPT ![c] = NoUser]

(* A lookup that changes none of them. *)
GoOn(c, label) == At(c, label) /\ UNCHANGED locals

-----------------------------------------------------------------------------
(* readLoop dispatches a Data frame. The rest of a decoded batch is still  *)
(* dispatched after the connection has been closed.                        *)
FrameArrives(c) ==
    /\ c \in Readers /\ pc[c] = "run" /\ rd[c] = "idle" /\ onData[c] = "inbound"
    /\ GoOn(c, "check")
    /\ UNCHANGED <<vars, tun, tunTarget, fed, inbox>>

(* Mutant of InboundCheck: no identity check. *)
CheckAnySession(c) ==
    LET found == sessions[UserOf[c]] IN
    /\ rd[c] = "check"
    /\ IF found # NoConn /\ crypto[found]
       THEN At(c, "decrypt") /\ ps' = [ps EXCEPT ![c] = found] /\ UNCHANGED <<dst, checked, target>>
       ELSE Return(c)
    /\ UNCHANGED <<vars, tun, tunTarget, fed, inbox>>

(* The first lookup, the Crypto check and the identity check. *)
InboundCheck(c) ==
    LET found == sessions[UserOf[c]] IN
    /\ rd[c] = "check"
    /\ IF found = c /\ crypto[c]
       THEN At(c, "decrypt") /\ ps' = [ps EXCEPT ![c] = found] /\ UNCHANGED <<dst, checked, target>>
       ELSE Return(c)
    /\ UNCHANGED <<vars, tun, tunTarget, fed, inbox>>

(* ps.Crypto is read again, without the lock: a displacement in between    *)
(* has made it nil.                                                        *)
InboundDecrypt(c) ==
    /\ rd[c] = "decrypt"
    /\ IF crypto[ps[c]]
       THEN At(c, "recheck") /\ fed' = [fed EXCEPT ![ps[c]] = @ \cup {c}]
       ELSE At(c, "panic") /\ UNCHANGED fed
    /\ UNCHANGED <<vars, locals, tun, tunTarget, inbox>>

(* The session must still be the one the frame was decrypted for. *)
InboundRecheck(c) ==
    /\ rd[c] = "recheck"
    /\ IF sessions[UserOf[c]] = ps[c] THEN GoOn(c, "route") ELSE Return(c)
    /\ UNCHANGED <<vars, tun, tunTarget, fed, inbox>>

-----------------------------------------------------------------------------
(* Where the packet goes. Every lookup takes and gives up the read lock of *)
(* its own; what the reader knows of the packet and of its session (source *)
(* and rights, both read from ps) does not change in between.              *)

(* Nobody, for an address that is not in the map. *)
OwnerOf(ip) == IF ip \in IPs THEN vpnIndex[ip] ELSE NoUser
OnlineAt(ip) == IF ip \in IPs THEN byIP[ip] ELSE NoConn

(* The packet has some destination, and its source is allowed: the         *)
(* account's own address, or one of its ExitLANs.                          *)
InboundParse(c) ==
    /\ rd[c] = "route"
    /\ \E ip \in IPs \cup {Elsewhere} : dst' = [dst EXCEPT ![c] = ip]
    /\ \/ At(c, "owner")
       \/ exitLANs[ps[c]] # {} /\ At(c, "via")
    /\ UNCHANGED <<vars, ps, checked, target, tun, tunTarget, fed, inbox>>

(* Mutant: whoever advertises LANs is taken for a via. *)
AnyoneIsVia(u) == TRUE

(* sessionIsActiveVia *)
IsActiveVia(u) == \E r \in viaIndex : r[2] = u

InboundIsVia(c) ==
    /\ rd[c] = "via"
    /\ GoOn(c, IF IsActiveVia(UserOf[c]) THEN "return" ELSE "owner")
    /\ UNCHANGED <<vars, tun, tunTarget, fed, inbox>>

SendTo(c, t) ==
    target' = [target EXCEPT ![c] = t] /\ At(c, "send") /\ UNCHANGED <<ps, dst, checked>>

(* The return traffic of a via: lookupOnlineByVPNIP. *)
InboundReturn(c) ==
    LET t == OnlineAt(dst[c]) IN
    /\ rd[c] = "return"
    /\ IF t # NoConn /\ UserOf[t] # UserOf[c] THEN SendTo(c, t) ELSE GoOn(c, "owner")
    /\ UNCHANGED <<vars, tun, tunTarget, fed, inbox>>

(* isOtherAccountVPNIP; dstAllowed (whether the AllowedIPs cover the       *)
(* destination is left open) drops the packet or lets it go on.            *)
InboundOwner(c) ==
    /\ rd[c] = "owner"
    /\ IF OwnerOf(dst[c]) \notin {UserOf[c], NoUser}
       THEN GoOn(c, "rights") ELSE GoOn(c, "routes") \/ Return(c)
    /\ UNCHANGED <<vars, tun, tunTarget, fed, inbox>>

(* PeerAccess, or ViaPeers: the vias of the account's routes. *)
LateralAllowed(u, owner) ==
    <<u, owner>> \in PeerAccess \/ \E r \in Managed[u] : r[2] = owner

(* lateralPeerAllowed looks the owner up again; dstAllowed as above. *)
InboundRights(c) ==
    LET owner == OwnerOf(dst[c]) IN
    /\ rd[c] = "rights"
    /\ \/ /\ owner # NoUser /\ LateralAllowed(UserOf[c], owner)
          /\ checked' = [checked EXCEPT ![c] = owner]
          /\ At(c, "peer") /\ UNCHANGED <<ps, dst, target>>
       \/ Return(c)
    /\ UNCHANGED <<vars, tun, tunTarget, fed, inbox>>

(* Lateral traffic: lookupOnlineByVPNIP, whoever has the address by now. *)
InboundPeer(c) ==
    LET t == OnlineAt(dst[c]) IN
    /\ rd[c] = "peer"
    /\ IF t # NoConn THEN SendTo(c, t) ELSE Return(c)
    /\ UNCHANGED <<vars, tun, tunTarget, fed, inbox>>

(* lookupViaSession: the online via of a route of the session that covers  *)
(* the destination; without one, the packet is written to the TUN device.  *)
InboundVia(c) ==
    /\ rd[c] = "routes"
    /\ \/ \E r \in viaRoutes[ps[c]] : sessions[r[2]] # NoConn /\ SendTo(c, sessions[r[2]])
       \/ Return(c)
    /\ UNCHANGED <<vars, tun, tunTarget, fed, inbox>>

(* sendToAccount: Crypto and table are checked ... *)
MaySend(t) == crypto[t] /\ IsCurrent(t)

InboundSend(c) ==
    /\ rd[c] = "send"
    /\ IF MaySend(target[c]) THEN GoOn(c, "encrypt") ELSE Return(c)
    /\ UNCHANGED <<vars, tun, tunTarget, fed, inbox>>

(* ... and the Crypto is used, read once more, after the lock. *)
InboundEncrypt(c) ==
    /\ rd[c] = "encrypt"
    /\ IF crypto[target[c]]
       THEN /\ Return(c)
            /\ inbox' = [inbox EXCEPT ![target[c]] = @ \cup {[from |-> UserOf[c], to |-> checked[c]]}]
       ELSE GoOn(c, "panic") /\ UNCHANGED inbox
    /\ UNCHANGED <<vars, tun, tunTarget, fed>>

(* GoSafe recovers; the deferred Close of readLoop still runs. *)
ReaderPanics(c) ==
    /\ rd[c] = "panic"
    /\ StartClose(c) /\ Goto(c, "end") /\ Return(c)
    /\ UNCHANGED <<onClose, cb, onData, victim, tableVars, vpnIndex, objVars, registry, kick, reports>>
    /\ UNCHANGED <<tun, tunTarget, fed, inbox>>

-----------------------------------------------------------------------------
(* RouteOutbound: the session with the address, else the online via of a   *)
(* route that covers it.                                                   *)
TunRoute ==
    /\ Outbound /\ tun = "idle"
    /\ \E t \in Conns :
          /\ (\E ip \in IPs : byIP[ip] = t) \/ (\E r \in viaIndex : sessions[r[2]] = t)
          /\ tunTarget' = t
    /\ tun' = "send"
    /\ UNCHANGED <<vars, rd, locals, fed, inbox>>

TunSend ==
    /\ tun = "send"
    /\ tun' = IF MaySend(tunTarget) THEN "encrypt" ELSE "idle"
    /\ UNCHANGED <<vars, rd, locals, tunTarget, fed, inbox>>

(* A panic ends the goroutine; nothing starts it again. *)
TunEncrypt ==
    /\ tun = "encrypt"
    /\ tun' = IF crypto[tunTarget] THEN "idle" ELSE "dead"
    /\ UNCHANGED <<vars, rd, locals, tunTarget, fed, inbox>>

-----------------------------------------------------------------------------
Inbound(c) ==
    \/ FrameArrives(c) \/ InboundCheck(c) \/ InboundDecrypt(c) \/ InboundRecheck(c)
    \/ InboundParse(c) \/ InboundIsVia(c) \/ InboundReturn(c) \/ InboundOwner(c)
    \/ InboundRights(c) \/ InboundPeer(c) \/ InboundVia(c)
    \/ InboundSend(c) \/ InboundEncrypt(c) \/ ReaderPanics(c)

(* The reader runs the handshake and HandleInbound one after the other. *)
Table ==
    /\ \/ \E c \in Conns : \/ Accept(c) \/ Closing(c) \/ Kicking(c)
                           \/ rd[c] = "idle" /\ Handshake(c)
       \/ \E c \in Leavers : PeerGone(c)
       \/ \E u \in Kicked : KickUser(u)
       \/ \E u \in Users, ip \in IPs : PlaceOnAddress(u, ip)
    /\ UNCHANGED traffic

TNext == Table \/ (\E c \in Conns : Inbound(c)) \/ TunRoute \/ TunSend \/ TunEncrypt

TSpec == TInit /\ [][TNext]_tvars

-----------------------------------------------------------------------------
(* Late frames of a displaced connection never reach the replay window of  *)
(* another session of the account ("ascending replay").                    *)
OwnFramesOnly == \A c \in Conns : fed[c] \subseteq {c}

(* An account's packets reach another account's client only by peer        *)
(* access, along a managed route, or as the return traffic of an account   *)
(* that was the via of somebody's session.  Exception: between             *)
(* lateralPeerAllowed and lookupOnlineByVPNIP the address may pass from an *)
(* account that the sender may reach to another one; nothing else lets a   *)
(* packet astray.                                                          *)
WasVia(u) == \E c \in Conns : \E r \in viaRoutes[c] : r[2] = u

Handed(ip, from, to) ==
    /\ from # to
    /\ \E c \in Conns : UserOf[c] = from /\ IPOf[c] = ip

Isolation ==
    \A t \in Conns : \A p \in inbox[t] :
        \/ LateralAllowed(p.from, UserOf[t])
        \/ p.to = NoUser /\ WasVia(p.from)
        \/ p.to # NoUser /\ LateralAllowed(p.from, p.to) /\ Handed(IPOf[t], p.to, UserOf[t])

(* manager.go: the exported methods are safe for concurrent use. No reader *)
(* and not the TUN goroutine may use a session's Crypto after it became    *)
(* nil.                                                                    *)
NoNilCrypto == tun # "dead" /\ \A c \in Conns : rd[c] # "panic"
=============================================================================
