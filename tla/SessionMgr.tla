----------------------------- MODULE SessionMgr -----------------------------
(***************************************************************************)
(* The server's table of online VPN sessions and every thread that touches *)
(* it: the handshake of a connection (tunnel/server_handshake_session.go), *)
(* RegisterVPN with its two critical sections, the closing of a transport  *)
(* connection and its callback (transport/transport.go), RemoveIfConn,     *)
(* KickUser and the disconnect handler (serverapp/boot_session.go).        *)
(*                                                                         *)
(* A connection performs at most one handshake and the AccountSession that *)
(* RegisterVPN builds belongs to exactly that connection, so the session   *)
(* object is named by its connection: sessions[u] = c reads "the current   *)
(* session of u is the one whose Conn is c".                               *)
(*                                                                         *)
(* pc[c] is the position of the goroutine that reads connection c (the     *)
(* handshake runs inside its onData callback); cb[c] is the position of    *)
(* Close inside closeOnce; kick[c] that of a KickUser that took session c. *)
(***************************************************************************)
EXTENDS Naturals, FiniteSets

CONSTANTS
    Users,      \* accounts
    Conns,      \* TLS connections, each of one handshake
    Hosts,      \* normalised remote hosts
    IPs,        \* VPN addresses
    Dests,      \* LAN CIDRs a via client can advertise
    NoConn, NoUser,
    UserOf,     \* the account that logs in on a connection
    HostOf,     \* the remote host of a connection
    IPOf,       \* the address EnsureVPNIP returns to the handshake of a connection
    Dynamic,    \* the accounts with ip_mode dynamic_session
    LansOf,     \* the local_lans an account may advertise
    Managed,    \* the managed routes <<dest, via account>> of an account
    Policy,     \* session_policy
    Grace       \* reconnect_grace > 0

ConnAssumption ==
    /\ UserOf \in [Conns -> Users] /\ HostOf \in [Conns -> Hosts]
    /\ IPOf \in [Conns -> IPs]     /\ Dynamic \subseteq Users
    /\ NoConn \notin Conns         /\ NoUser \notin Users
    /\ LansOf \in [Users -> SUBSET Dests]
    /\ Managed \in [Users -> SUBSET (Dests \X Users)]
    /\ Policy \in {"reject_second", "kick_previous"} /\ Grace \in BOOLEAN

(* An address has one fixed account, and the pool's cursor gives it out    *)
(* once; but an address that a dynamic_session login has given back can be *)
(* made that of a fixed account.                                           *)
AddressAssumption ==
    \A c, d \in Conns : c # d /\ IPOf[c] = IPOf[d] =>
        \/ UserOf[c] = UserOf[d] /\ UserOf[c] \notin Dynamic
        \/ UserOf[c] \in Dynamic /\ UserOf[d] \notin Dynamic
        \/ UserOf[d] \in Dynamic /\ UserOf[c] \notin Dynamic

ASSUME Constants == ConnAssumption /\ AddressAssumption

VARIABLES
    cst,        \* transport.Conn.state
    onClose,    \* SetOnClose(RemoveIfConn) was called
    cb,         \* progress of Close past the TLS close
    onData,     \* the onData callback: doHandshake, HandleInbound, or nil
    pc,         \* the goroutine reading the connection
    victim,     \* RegisterVPN's oldConn
    sessions,   \* Manager.sessions
    byIP,       \* Manager.byIP
    vpnIndex,   \* Manager.vpnIndex
    viaIndex,   \* Manager.viaIndex, as a set of <<dest, via account>>
    crypto,     \* AccountSession.Crypto # nil
    viaRoutes,  \* AccountSession.ViaRoutes
    exitLANs,   \* AccountSession.ExitLANs
    registry,   \* table client_lan_registry
    kick,       \* the KickUser call that removed a session
    reports     \* how often onDisconnect ran for a session

connVars  == <<cst, onClose, cb>>
tableVars == <<sessions, byIP, viaIndex>>
objVars   == <<crypto, viaRoutes, exitLANs>>
vars == <<cst, onClose, cb, onData, pc, victim, sessions, byIP, vpnIndex,
          viaIndex, crypto, viaRoutes, exitLANs, registry, kick, reports>>

Labels == {"none", "auth", "ensure", "registry", "policy", "load", "lock",
           "drain", "wait", "mount", "setclose", "check", "sendok", "switch",
           "run", "undo", "shut", "end"}

TypeOK ==
    /\ cst \in [Conns -> {"none", "connected", "disconnecting", "closed"}]
    /\ onClose \in [Conns -> BOOLEAN]
    /\ cb \in [Conns -> {"idle", "remove", "disconnect", "done"}]
    /\ onData \in [Conns -> {"nil", "handshake", "inbound"}]
    /\ pc \in [Conns -> Labels]
    /\ victim \in [Conns -> Conns \cup {NoConn}]
    /\ sessions \in [Users -> Conns \cup {NoConn}]
    /\ byIP \in [IPs -> Conns \cup {NoConn}]
    /\ vpnIndex \in [IPs -> Users \cup {NoUser}]
    /\ viaIndex \subseteq Dests \X Users
    /\ crypto \in [Conns -> BOOLEAN]
    /\ viaRoutes \in [Conns -> SUBSET (Dests \X Users)]
    /\ exitLANs \in [Conns -> SUBSET Dests]
    /\ registry \in [Users -> SUBSET Dests]
    /\ kick \in [Conns -> {"no", "close", "wait", "done"}]
    /\ reports \in [Conns -> Nat]

(* The pool's address: a dynamic_session login gets it. *)
OfPool(ip) == \E c \in Conns : UserOf[c] \in Dynamic /\ IPOf[c] = ip

(* New and LoadVPNIPIndex: nobody online; the index knows the addresses of *)
(* the fixed accounts whose row holds one, which may be any of them: the   *)
(* administrator gives the others theirs later. Nothing clears             *)
(* client_lan_registry at boot: it has the rows the last process left.     *)
Init ==
    /\ cst = [c \in Conns |-> "none"]
    /\ onClose = [c \in Conns |-> FALSE]
    /\ cb = [c \in Conns |-> "idle"]
    /\ onData = [c \in Conns |-> "nil"]
    /\ pc = [c \in Conns |-> "none"]
    /\ victim = [c \in Conns |-> NoConn]
    /\ sessions = [u \in Users |-> NoConn]
    /\ byIP = [ip \in IPs |-> NoConn]
    /\ vpnIndex \in [IPs -> Users \cup {NoUser}]
    /\ \A ip \in IPs, u \in Users :
          vpnIndex[ip] = u => /\ u \notin Dynamic /\ ~OfPool(ip)
                              /\ \E c \in Conns : UserOf[c] = u /\ IPOf[c] = ip
    /\ viaIndex = {}
    /\ crypto = [c \in Conns |-> FALSE]
    /\ viaRoutes = [c \in Conns |-> {}]
    /\ exitLANs = [c \in Conns |-> {}]
    /\ registry \in [Users -> SUBSET Dests]
    /\ \A u \in Users : registry[u] \subseteq LansOf[u]
    /\ kick = [c \in Conns |-> "no"]
    /\ reports = [c \in Conns |-> 0]

-----------------------------------------------------------------------------
(* The table under Manager.mu.                                             *)

Goto(c, label) == pc' = [pc EXCEPT ![c] = label]

IsCurrent(c) == sessions[UserOf[c]] = c

(* rebuildViaIndexLocked: the routes of every online session. *)
ViaOf(table) ==
    UNION {viaRoutes[table[u]] : u \in {v \in Users : table[v] # NoConn}}

(* delete(m.sessions, u); delete(m.byIP, ps.VPNIP): both keys go, whatever *)
(* byIP holds under the second.                                            *)
Unlink(c) ==
    /\ sessions' = [sessions EXCEPT ![UserOf[c]] = NoConn]
    /\ byIP' = [byIP EXCEPT ![IPOf[c]] = NoConn]

(* Mutants of RemoveIfConn: no identity check; the address entry deleted   *)
(* before the check; viaIndex not rebuilt.                                 *)
RemoveWhoever(c) == Unlink(c) /\ viaIndex' = ViaOf(sessions')

RemoveAddressFirst(c) ==
    /\ byIP' = [byIP EXCEPT ![IPOf[c]] = NoConn]
    /\ IF IsCurrent(c)
       THEN /\ sessions' = [sessions EXCEPT ![UserOf[c]] = NoConn]
            /\ viaIndex' = ViaOf(sessions')
       ELSE UNCHANGED <<sessions, viaIndex>>

RemoveKeepsVia(c) ==
    IF IsCurrent(c) THEN Unlink(c) /\ UNCHANGED viaIndex ELSE UNCHANGED tableVars

(* The critical section of RemoveIfConn: nothing unless c is current. *)
RemoveIfConn(c) ==
    IF IsCurrent(c)
    THEN Unlink(c) /\ viaIndex' = ViaOf(sessions')
    ELSE UNCHANGED tableVars

(* Mutant of OnDisconnect: every address of the account is unregistered. *)
OnDisconnectForgetsAccount(c) ==
    LET u == UserOf[c] IN
    /\ registry' = [registry EXCEPT ![u] = {}]
    /\ vpnIndex' = [ip \in IPs |-> IF vpnIndex[ip] = u THEN NoUser ELSE vpnIndex[ip]]
    /\ reports' = [reports EXCEPT ![c] = @ + 1]

(* The disconnect handler: clear the account's LAN registry, then release  *)
(* a dynamic_session address: to the pool, in ip_allocations and, last, in *)
(* vpnIndex.  Here an address is free when the index does not have it.     *)
OnDisconnect(c) ==
    LET u == UserOf[c] IN
    /\ registry' = [registry EXCEPT ![u] = {}]
    /\ vpnIndex' = IF u \in Dynamic THEN [vpnIndex EXCEPT ![IPOf[c]] = NoUser]
                                    ELSE vpnIndex
    /\ reports' = [reports EXCEPT ![c] = @ + 1]

(* The first call of Close: the others wait in closeOnce until cb is done. *)
StartClose(c) ==
    cst' = IF cst[c] = "connected" THEN [cst EXCEPT ![c] = "disconnecting"] ELSE cst

-----------------------------------------------------------------------------
(* The handshake, on the goroutine that reads the connection.              *)

(* handleConn -> AcceptConn -> Attach. *)
Accept(c) ==
    /\ pc[c] = "none"
    /\ cst' = [cst EXCEPT ![c] = "connected"]
    /\ onData' = [onData EXCEPT ![c] = "handshake"]
    /\ Goto(c, "auth")
    /\ UNCHANGED <<onClose, cb, victim, tableVars, vpnIndex, objVars, registry, kick, reports>>

(* handshakeAuth and ValidateVPNAccess: go on, or rejectHandshake. *)
Authenticate(c) ==
    /\ pc[c] = "auth"
    /\ Goto(c, "ensure") \/ Goto(c, "shut")
    /\ UNCHANGED <<connVars, onData, victim, tableVars, vpnIndex, objVars, registry, kick, reports>>

(* EnsureVPNIP: a dynamic account gets a free address from the pool and    *)
(* registers it in vpnIndex at once (OnRegisterIP), a fixed one has that   *)
(* of its row; it can also fail.                                           *)
EnsureVPNIP(c) ==
    /\ pc[c] = "ensure"
    /\ \/ /\ Goto(c, "registry")
          /\ vpnIndex[IPOf[c]] = IF UserOf[c] \in Dynamic THEN NoUser ELSE UserOf[c]
          /\ vpnIndex' = [vpnIndex EXCEPT ![IPOf[c]] = UserOf[c]]
       \/ Goto(c, "shut") /\ UNCHANGED vpnIndex
    /\ UNCHANGED <<connVars, onData, victim, tableVars, objVars, registry, kick, reports>>

(* applyLANRegistry: the account's rows become the list of this handshake. *)
ApplyLANRegistry(c) ==
    /\ pc[c] = "registry"
    /\ \E lans \in SUBSET LansOf[UserOf[c]] :
          registry' = [registry EXCEPT ![UserOf[c]] = lans]
    /\ Goto(c, "policy")
    /\ UNCHANGED <<connVars, onData, victim, tableVars, vpnIndex, objVars, kick, reports>>

(* ResolveClientPolicy: a managed route whose dest its via does not        *)
(* advertise is Stale and stays out of the session's ViaRoutes. The query, *)
(* or crypto.NewSession after it, can fail.                                *)
ResolveClientPolicy(c) ==
    /\ pc[c] = "policy"
    /\ \/ /\ Goto(c, "load")
          /\ viaRoutes' = [viaRoutes EXCEPT ![c] =
                {r \in Managed[UserOf[c]] : r[1] \in registry[r[2]]}]
       \/ Goto(c, "shut") /\ UNCHANGED viaRoutes
    /\ UNCHANGED <<connVars, onData, victim, tableVars, vpnIndex, crypto, exitLANs, registry, kick, reports>>

(* RegisterVPN before its first lock: loadExitLANs. *)
LoadExitLANs(c) ==
    /\ pc[c] = "load"
    /\ exitLANs' = [exitLANs EXCEPT ![c] = registry[UserOf[c]]]
    /\ Goto(c, "lock")
    /\ UNCHANGED <<connVars, onData, victim, tableVars, vpnIndex, crypto, viaRoutes, registry, kick, reports>>

(* May the session of old be displaced by c? peerActivityStale depends on  *)
(* the clock and on heartbeats only: stale is any Boolean.                 *)
MayDisplace(old, c, stale) ==
    \/ Policy = "kick_previous"
    \/ Grace /\ (HostOf[old] = HostOf[c] \/ stale)

(* The first critical section: no old session, ErrAccountAlreadyOnline, or *)
(* the old one is taken off the table (viaIndex is not rebuilt here).      *)
RegisterFree(c) ==
    /\ pc[c] = "lock"
    /\ sessions[UserOf[c]] = NoConn
    /\ Goto(c, "mount")
    /\ UNCHANGED <<connVars, onData, victim, tableVars, vpnIndex, objVars, registry, kick, reports>>

RegisterRefused(c) ==
    /\ pc[c] = "lock"
    /\ sessions[UserOf[c]] # NoConn
    /\ \E stale \in BOOLEAN : ~MayDisplace(sessions[UserOf[c]], c, stale)
    /\ Goto(c, "shut")
    /\ UNCHANGED <<connVars, onData, victim, tableVars, vpnIndex, objVars, registry, kick, reports>>

RegisterDisplace(c) ==
    LET old == sessions[UserOf[c]] IN
    /\ pc[c] = "lock"
    /\ old # NoConn
    /\ \E stale \in BOOLEAN : MayDisplace(old, c, stale)
    /\ Unlink(old)
    /\ crypto' = [crypto EXCEPT ![old] = FALSE]
    /\ victim' = [victim EXCEPT ![c] = old]
    /\ Goto(c, "drain")
    /\ UNCHANGED <<connVars, onData, viaIndex, vpnIndex, viaRoutes, exitLANs, registry, kick, reports>>

(* Mutant: the displaced connection is left open. *)
DrainWithoutClose(c) ==
    /\ pc[c] = "drain"
    /\ onData' = [onData EXCEPT ![victim[c]] = "nil"]
    /\ Goto(c, "wait")
    /\ UNCHANGED <<connVars, victim, tableVars, vpnIndex, objVars, registry, kick, reports>>

(* drainOldConn: SetOnData(nil) and Close ...                              *)
DrainOldConn(c) ==
    /\ pc[c] = "drain"
    /\ onData' = [onData EXCEPT ![victim[c]] = "nil"]
    /\ StartClose(victim[c])
    /\ Goto(c, "wait")
    /\ UNCHANGED <<onClose, cb, victim, tableVars, vpnIndex, objVars, registry, kick, reports>>

(* ... Close returns once the callback has run; Done is closed by then, so *)
(* the select never waits for its 2 s.                                     *)
DrainReturns(c) ==
    /\ pc[c] = "wait"
    /\ cb[victim[c]] = "done"
    /\ Goto(c, "mount")
    /\ UNCHANGED <<connVars, onData, victim, tableVars, vpnIndex, objVars, registry, kick, reports>>

(* The second critical section: the new session replaces whatever the      *)
(* table now holds.                                                        *)
Mount(c) ==
    LET u == UserOf[c] IN
    /\ pc[c] = "mount"
    /\ sessions' = [sessions EXCEPT ![u] = c]
    /\ byIP' = [byIP EXCEPT ![IPOf[c]] = c]
    /\ vpnIndex' = [vpnIndex EXCEPT ![IPOf[c]] = u]
    /\ viaIndex' = ViaOf(sessions')
    /\ crypto' = [crypto EXCEPT ![c] = TRUE]
    /\ Goto(c, "setclose")
    /\ UNCHANGED <<connVars, onData, victim, viaRoutes, exitLANs, registry, kick, reports>>

SetOnClose(c) ==
    /\ pc[c] = "setclose"
    /\ onClose' = [onClose EXCEPT ![c] = TRUE]
    /\ Goto(c, "check")
    /\ UNCHANGED <<cst, cb, onData, victim, tableVars, vpnIndex, objVars, registry, kick, reports>>

(* Mutant: the state of the connection is not looked at again. *)
NoStateCheck(c) ==
    /\ pc[c] = "check"
    /\ Goto(c, "sendok")
    /\ UNCHANGED <<connVars, onData, victim, tableVars, vpnIndex, objVars, registry, kick, reports>>

(* conn.State() != StateConnected: the callback may have been missed, so   *)
(* the session is removed here.                                            *)
CheckState(c) ==
    /\ pc[c] = "check"
    /\ \/ /\ cst[c] = "connected"
          /\ Goto(c, "sendok") /\ UNCHANGED tableVars
       \/ /\ cst[c] # "connected"
          /\ RemoveIfConn(c)
          /\ Goto(c, IF IsCurrent(c) THEN "undo" ELSE "shut")
    /\ UNCHANGED <<connVars, onData, victim, vpnIndex, objVars, registry, kick, reports>>

(* EncodeHandshakeOKWithKey or SendRaw can fail (a full send queue; a      *)
(* closed connection does not make it fail): the session is rolled back.   *)
SendOK(c) ==
    /\ pc[c] = "sendok"
    /\ \/ Goto(c, "switch") /\ UNCHANGED tableVars
       \/ /\ RemoveIfConn(c)
          /\ Goto(c, IF IsCurrent(c) THEN "undo" ELSE "shut")
    /\ UNCHANGED <<connVars, onData, victim, vpnIndex, objVars, registry, kick, reports>>

(* The rest of a RemoveIfConn that removed the session. *)
Undo(c) ==
    /\ pc[c] = "undo"
    /\ OnDisconnect(c)
    /\ Goto(c, "shut")
    /\ UNCHANGED <<connVars, onData, victim, tableVars, objVars, kick>>

(* Stage 7: SetOnHandshake and SetOnData(HandleInbound). *)
SwitchToForwarding(c) ==
    /\ pc[c] = "switch"
    /\ onData' = [onData EXCEPT ![c] = "inbound"]
    /\ Goto(c, "run")
    /\ UNCHANGED <<connVars, victim, tableVars, vpnIndex, objVars, registry, kick, reports>>

(* readLoop sees the closed connection. *)
ReadLoopEnds(c) ==
    /\ pc[c] = "run"
    /\ cst[c] # "connected"
    /\ Goto(c, "shut")
    /\ UNCHANGED <<connVars, onData, victim, tableVars, vpnIndex, objVars, registry, kick, reports>>

(* The Close of rejectHandshake and readLoop's deferred Close. *)
Shut(c) ==
    /\ pc[c] = "shut"
    /\ StartClose(c)
    /\ Goto(c, "end")
    /\ UNCHANGED <<onClose, cb, onData, victim, tableVars, vpnIndex, objVars, registry, kick, reports>>

-----------------------------------------------------------------------------
(* Close, whoever called it first.                                         *)

(* The peer went away: a read or write error or the heartbeat timeout. *)
PeerGone(c) ==
    /\ cst[c] = "connected"
    /\ StartClose(c)
    /\ UNCHANGED <<onClose, cb, onData, pc, victim, tableVars, vpnIndex, objVars, registry, kick, reports>>

(* tls.Close has returned: StateClosed, then onClose is read under mu. *)
CloseReadsCallback(c) ==
    /\ cst[c] = "disconnecting"
    /\ cst' = [cst EXCEPT ![c] = "closed"]
    /\ cb' = [cb EXCEPT ![c] = IF onClose[c] THEN "remove" ELSE "done"]
    /\ UNCHANGED <<onClose, onData, pc, victim, tableVars, vpnIndex, objVars, registry, kick, reports>>

(* Mutant: the disconnect handler runs whether or not c was current. *)
CloseAlwaysReports(c) ==
    /\ cb[c] = "remove"
    /\ RemoveIfConn(c)
    /\ cb' = [cb EXCEPT ![c] = "disconnect"]
    /\ UNCHANGED <<cst, onClose, onData, pc, victim, vpnIndex, objVars, registry, kick, reports>>

(* onClose: RemoveIfConn, its critical section and then its callbacks. *)
CloseRemoves(c) ==
    /\ cb[c] = "remove"
    /\ RemoveIfConn(c)
    /\ cb' = [cb EXCEPT ![c] = IF IsCurrent(c) THEN "disconnect" ELSE "done"]
    /\ UNCHANGED <<cst, onClose, onData, pc, victim, vpnIndex, objVars, registry, kick, reports>>

CloseDisconnects(c) ==
    /\ cb[c] = "disconnect"
    /\ OnDisconnect(c)
    /\ cb' = [cb EXCEPT ![c] = "done"]
    /\ UNCHANGED <<cst, onClose, onData, pc, victim, tableVars, objVars, kick>>

-----------------------------------------------------------------------------
(* KickUser (administrator, policy change, delete, disable).               *)

KickUser(u) ==
    LET c == sessions[u] IN
    /\ c # NoConn
    /\ Unlink(c)
    /\ viaIndex' = ViaOf(sessions')
    /\ kick' = [kick EXCEPT ![c] = "close"]
    /\ UNCHANGED <<connVars, onData, pc, victim, vpnIndex, objVars, registry, reports>>

KickCloses(c) ==
    /\ kick[c] = "close"
    /\ StartClose(c)
    /\ kick' = [kick EXCEPT ![c] = "wait"]
    /\ UNCHANGED <<onClose, cb, onData, pc, victim, tableVars, vpnIndex, objVars, registry, reports>>

KickDisconnects(c) ==
    /\ kick[c] = "wait"
    /\ cb[c] = "done"
    /\ OnDisconnect(c)
    /\ kick' = [kick EXCEPT ![c] = "done"]
    /\ UNCHANGED <<connVars, onData, pc, victim, tableVars, objVars>>

-----------------------------------------------------------------------------
(* The administrator places a fixed account on a free address, which the   *)
(* pool may have given to a dynamic account before (ProvisionWebAccount,   *)
(* RebindFixedVPNIP): bound in the pool, then OnRegisterIP. Bound: not     *)
(* between the calls of a release, and the account logs in afterwards      *)
(* (VPNAccount has every crossing).                                        *)
PlaceOnAddress(u, ip) ==
    /\ u \notin Dynamic /\ \E c \in Conns : UserOf[c] = u /\ IPOf[c] = ip
    /\ vpnIndex[ip] = NoUser
    /\ vpnIndex' = [vpnIndex EXCEPT ![ip] = u]
    /\ UNCHANGED <<connVars, onData, pc, victim, tableVars, objVars, registry, kick, reports>>

-----------------------------------------------------------------------------
(* One step of the goroutine that reads c, of Close, or of KickUser.       *)
Handshake(c) ==
    \/ Authenticate(c) \/ EnsureVPNIP(c) \/ ApplyLANRegistry(c)
    \/ ResolveClientPolicy(c) \/ LoadExitLANs(c)
    \/ RegisterFree(c) \/ RegisterRefused(c) \/ RegisterDisplace(c)
    \/ DrainOldConn(c) \/ DrainReturns(c) \/ Mount(c)
    \/ SetOnClose(c) \/ CheckState(c) \/ SendOK(c) \/ Undo(c)
    \/ SwitchToForwarding(c) \/ ReadLoopEnds(c) \/ Shut(c)

Closing(c) == CloseReadsCallback(c) \/ CloseRemoves(c) \/ CloseDisconnects(c)

Kicking(c) == KickCloses(c) \/ KickDisconnects(c)

Next ==
    \/ \E c \in Conns : Accept(c) \/ Handshake(c) \/ PeerGone(c) \/ Closing(c) \/ Kicking(c)
    \/ \E u \in Users : KickUser(u)
    \/ \E u \in Users, ip \in IPs : PlaceOnAddress(u, ip)

Spec == Init /\ [][Next]_vars

(* Goroutines keep running: no step of theirs waits for anything outside   *)
(* the server for ever (every TLS call has a deadline). New connections,   *)
(* failing peers and kicks are the environment's.                          *)
Fairness == \A c \in Conns :
    /\ WF_vars(Handshake(c)) /\ WF_vars(Closing(c)) /\ WF_vars(Kicking(c))

FairSpec == Spec /\ Fairness

-----------------------------------------------------------------------------
(* Properties.                                                             *)

(* RouteOutbound finds a session by address: whoever is in sessions is in  *)
(* byIP under its own address, so no removal of an older session of the    *)
(* account (or of anybody else) has taken the entry away.                  *)
SessionReachable ==
    \A u \in Users : sessions[u] # NoConn => byIP[IPOf[sessions[u]]] = sessions[u]

(* The lateral-access check relies on vpnIndex: the address of an online   *)
(* session is always indexed under its owner, although the disconnect      *)
(* handler of an earlier session unregisters addresses outside the lock.   *)
SessionIndexed ==
    \A u \in Users : sessions[u] # NoConn => vpnIndex[IPOf[sessions[u]]] = u

(* A session that is on the table has a Crypto; displacement clears the    *)
(* Crypto of the session it takes off, never that of a mounted one.        *)
SessionHasCrypto ==
    \A u \in Users : sessions[u] # NoConn => crypto[sessions[u]]

(* No zombie: a session may only outlive the Close of its connection while *)
(* its handshake has still to set the callback or to check the state.      *)
NoZombieSession ==
    \A c \in Conns : IsCurrent(c) /\ cb[c] = "done" => pc[c] \in {"setclose", "check"}

(* viaIndex lags only while a RegisterVPN is between its critical sections *)
(* after displacing a session; otherwise it is what the sessions say.      *)
ViaIndexExact ==
    (\A c \in Conns : pc[c] \in {"drain", "wait", "mount"} => victim[c] = NoConn)
        => viaIndex = ViaOf(sessions)

(* The disconnect handler (IP release, LAN registry clearing) runs at most *)
(* once for a session, and only after the session has left the table.      *)
ReportedOnce ==
    \A c \in Conns : reports[c] <= 1 /\ (reports[c] = 1 => ~IsCurrent(c))

(* "Avoid deleting the new session by mistake": a session leaves the table *)
(* without a successor only because its own connection is going down, its  *)
(* own handshake rolls back, it is kicked, or it is displaced.             *)
LeavesForCause(u) ==
    LET c == sessions[u] IN
    c # NoConn /\ sessions'[u] # c =>
        \/ cst[c] # "connected"
        \/ pc'[c] # pc[c]
        \/ kick'[c] # kick[c]
        \/ \E d \in Conns : UserOf[d] = u /\ pc[d] \in {"lock", "mount"} /\ pc'[d] # pc[d]

RemovedForCause == [][\A u \in Users : LeavesForCause(u)]_vars

(* The life of a connection's session, and the promise it refines: online  *)
(* once, gone for good, reported once after it has left.                   *)
Mounted(c) ==
    pc[c] \in {"setclose", "check", "sendok", "switch", "run", "undo"} \/ onClose[c]

LifeOf(c) ==
    CASE IsCurrent(c)                      -> "online"
      [] ~IsCurrent(c) /\ reports[c] > 1   -> "reported twice"
      [] ~IsCurrent(c) /\ reports[c] = 1   -> "reported"
      [] ~IsCurrent(c) /\ reports[c] = 0 /\ Mounted(c)  -> "left"
      [] ~IsCurrent(c) /\ reports[c] = 0 /\ ~Mounted(c) -> "new"

Life == INSTANCE ConnLife WITH life <- [c \in Conns |-> LifeOf(c)]

RefinesConnLife == Life!LifeSpec

(* Every session whose connection went down leaves the table. *)
DeadSessionLeaves ==
    \A c \in Conns : (cst[c] # "none" /\ cst[c] # "connected") ~> ~IsCurrent(c)

(* A displaced or kicked client is told: the connection ends up closed.    *)
KickedConnCloses ==
    \A c \in Conns : (kick[c] # "no" \/ \E d \in Conns : victim[d] = c) ~> cst[c] = "closed"

(* sessionmgr/doc.go: at most one live connection per account.             *)
Live(c) ==
    /\ pc[c] = "run" /\ cst[c] = "connected" /\ kick[c] = "no"
    /\ \A d \in Conns : victim[d] # c

OneLiveConn ==
    \A c, d \in Conns : Live(c) /\ Live(d) /\ UserOf[c] = UserOf[d] => c = d
=============================================================================
