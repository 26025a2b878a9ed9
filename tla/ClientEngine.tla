---------------------------- MODULE ClientEngine ----------------------------
(***************************************************************************)
(* One client engine after Start: the reconnect loop of the transport,     *)
(* the handshake callback that runs in it, the OnClose callbacks of its    *)
(* connections, the Windows kill switch, and Stop, which several           *)
(* goroutines may call at once.  A critical section of e.mu is one step;   *)
(* activeMu, r.mu, rt.mu and the closeOnce of a connection are held across *)
(* steps.  What applyPolicy does to the system is the set dp: ClientPolicy *)
(* has the inside.                                                         *)
(***************************************************************************)
EXTENDS Naturals, FiniteSets

CONSTANTS MaxConn,     \* connections dialled, at most
          MaxRejects,  \* accountOnlineMaxRetries
          Stoppers,    \* goroutines that call Stop
          KillSwitch   \* security.kill_switch

ASSUME EngineAssumption ==
    MaxConn \in Nat /\ MaxRejects \in Nat \ {0} /\ KillSwitch \in BOOLEAN

VARIABLES
    state,     \* e.state
    flags,     \* stopping, cancelled, authOK, failFast, onlineRejects, reconnect # nil, ksOK
    active,    \* e.activeConn, 0 for nil
    closing,   \* per connection: not dialled, open, Close begun, OnClose holds activeMu, over
    hooked,    \* the connections with the engine's OnClose
    loop,      \* where the reconnect loop is: pc, its connection, r.conn
    halt,      \* r.stop is closed
    stop,      \* where each caller of Stop is
    dp,        \* what the engine has done to the system: TUN, and routes with DNS
    allowed,   \* rt.allowedCIDRs is not empty
    ks,        \* the kill switch's filters are installed
    slips      \* what the exceptions of the properties are about

engVars == <<state, flags, active, closing, hooked, loop, halt, stop, dp, allowed, ks, slips>>

Conns == 1..MaxConn
Dataplane == {"tun", "routes"}

EngInit ==
    /\ state = "connecting"
    /\ \E fast \in BOOLEAN :
          flags = [stopping |-> FALSE, cancelled |-> FALSE, authOK |-> FALSE, failFast |-> fast,
                   rejects |-> 0, reconnect |-> TRUE, ksOK |-> TRUE]
    /\ active = 0
    /\ closing = [c \in Conns |-> "none"]
    /\ hooked = {}
    /\ loop = [pc |-> "top", conn |-> 0, mine |-> 0]
    /\ halt = FALSE
    /\ stop = [s \in Stoppers |-> "idle"]
    /\ dp = {} /\ allowed = FALSE /\ ks = FALSE
    /\ slips = {}

----------------------------------------------------------------------------
(* Locks and helpers *)

ActiveMuFree == \A c \in Conns : closing[c] # "held"
(* Mutant of RtMuFree: applyPolicy's lock is held until the connection was *)
(* compared again.                                                         *)
RtMuFreeLate == loop.pc \notin {"policy", "applied"}

RtMuFree == loop.pc # "policy"
RMuFree == \A s \in Stoppers : stop[s] # "close"

Close(c) == closing' = IF c # 0 /\ closing[c] = "open" THEN [closing EXCEPT ![c] = "begun"]
                       ELSE closing
(* closeOnce: a second caller of Close waits for the first one's OnClose.  *)
Closed(c) == c # 0 => closing[c] = "over"

Goto(pc) == loop' = [loop EXCEPT !.pc = pc]

(* enableKillSwitchIfConfigured: it fails with no prefix, or in WFP.       *)
EnableFilters ==
    \/ allowed /\ ks' = TRUE /\ flags' = [flags EXCEPT !.ksOK = TRUE]
    \/ ks' \in {ks, FALSE} /\ flags' = [flags EXCEPT !.ksOK = FALSE]

DisableFilters ==
    \/ ks' = FALSE /\ flags' = [flags EXCEPT !.ksOK = TRUE]
    \/ UNCHANGED ks /\ flags' = [flags EXCEPT !.ksOK = FALSE]

Protect == IF KillSwitch THEN EnableFilters ELSE UNCHANGED <<ks, flags>>

----------------------------------------------------------------------------
(* A connection ends, and its OnClose *)

NetworkLost(c) ==
    /\ closing[c] = "open"
    /\ Close(c)
    /\ UNCHANGED <<state, flags, active, hooked, loop, halt, stop, dp, allowed, ks, slips>>

OnClose(c) ==
    /\ closing[c] = "begun"
    /\ c \in hooked => ActiveMuFree
    /\ IF c \in hooked /\ active = c
       THEN active' = 0 /\ closing' = [closing EXCEPT ![c] = "held"]
       ELSE closing' = [closing EXCEPT ![c] = "over"] /\ UNCHANGED active
    /\ UNCHANGED <<state, flags, hooked, loop, halt, stop, dp, allowed, ks, slips>>

(* protectForReconnect needs rt.mu for the prefixes, with activeMu held.   *)
OnCloseProtects(c) ==
    /\ closing[c] = "held"
    /\ KillSwitch => RtMuFree
    /\ Protect
    /\ state' = "reconnecting"
    /\ closing' = [closing EXCEPT ![c] = "over"]
    /\ slips' = (slips \ {"gap"}) \cup
          (IF loop.pc \in {"failing", "failed", "selfstop", "selfwait", "done"}
           THEN {"lateClose"} ELSE {})
    /\ UNCHANGED <<active, hooked, loop, halt, stop, dp, allowed>>

----------------------------------------------------------------------------
(* ReconnectClient.loop *)

(* stopReconnectOnly from the loop: rc.Stop waits for this very loop.      *)
SelfStop(otherwise) == IF flags.reconnect THEN "selfstop" ELSE otherwise

(* reportFirstFailure *)
GivesUp(fatal) == fatal \/ (flags.failFast /\ ~flags.authOK)

Top ==
    /\ loop.pc = "top"
    /\ Goto(IF halt THEN "done" ELSE "dial")
    /\ UNCHANGED <<state, flags, active, closing, hooked, halt, stop, dp, allowed, ks, slips>>

(* A failed Dial and onDialError; the backoff ends at the top.             *)
DialFails(fatal) ==
    /\ loop.pc = "dial"
    /\ LET stays == IF fatal THEN "done" ELSE "top"
           ends == IF flags.authOK THEN fatal ELSE GivesUp(fatal)
       IN  /\ state' = IF ends THEN "idle" ELSE state
           /\ Goto(IF ends THEN SelfStop(stays) ELSE stays)
    /\ UNCHANGED <<flags, active, closing, hooked, halt, stop, dp, allowed, ks, slips>>

(* A connection that arrives after stop is discarded.                      *)
Dialled(c) ==
    /\ loop.pc = "dial"
    /\ closing[c] = "none" /\ \A d \in Conns : d < c => closing[d] # "none"
    /\ closing' = [closing EXCEPT ![c] = IF halt THEN "over" ELSE "open"]
    /\ loop' = [loop EXCEPT !.pc = IF halt THEN "done" ELSE "dialled", !.conn = c]
    /\ UNCHANGED <<state, flags, active, hooked, halt, stop, dp, allowed, ks, slips>>

Keep ==
    /\ loop.pc = "dialled" /\ RMuFree
    /\ loop' = [loop EXCEPT !.pc = "kept", !.mine = loop.conn]
    /\ UNCHANGED <<state, flags, active, closing, hooked, halt, stop, dp, allowed, ks, slips>>

(* The last check of stop before onConnect, and its first statement.       *)
Connecting ==
    /\ loop.pc = "kept"
    /\ IF halt
       THEN Close(loop.conn) /\ Goto("closing") /\ UNCHANGED state
       ELSE state' = "connecting" /\ Goto("handshake") /\ UNCHANGED closing
    /\ UNCHANGED <<flags, active, hooked, halt, stop, dp, allowed, ks, slips>>

(* The handshake fails: the account is online elsewhere (tried again, at   *)
(* most MaxRejects times before the first success), or another failure,    *)
(* fatal or not.                                                           *)
HandshakeFails ==
    /\ loop.pc = "handshake"
    /\ \E fatal \in BOOLEAN, online \in BOOLEAN :
          /\ online => fatal = (~flags.authOK /\ state # "reconnecting"
                                  /\ flags.rejects + 1 >= MaxRejects)
          /\ flags' = IF online /\ ~flags.authOK /\ state # "reconnecting"
                      THEN [flags EXCEPT !.rejects = IF @ < MaxRejects THEN @ + 1 ELSE @]
                      ELSE flags
          /\ state' = IF GivesUp(fatal) THEN "idle" ELSE state
          /\ Goto(IF GivesUp(fatal) THEN SelfStop("wait") ELSE "wait")
    /\ Close(loop.conn)
    /\ UNCHANGED <<active, hooked, halt, stop, dp, allowed, ks, slips>>

HandshakeOK ==
    /\ loop.pc = "handshake"
    /\ flags' = [flags EXCEPT !.rejects = 0]
    /\ hooked' = hooked \cup {loop.conn}
    /\ Goto("hooked")
    /\ UNCHANGED <<state, active, closing, halt, stop, dp, allowed, ks, slips>>

(* The connection becomes the active one; markAuthOK and                   *)
(* signalFirstResult(nil), which only this loop reads.                     *)
Activate ==
    /\ loop.pc = "hooked" /\ ActiveMuFree
    /\ active' = loop.conn
    /\ flags' = [flags EXCEPT !.authOK = TRUE, !.failFast = FALSE]
    /\ Goto("authed")
    /\ UNCHANGED <<state, closing, hooked, halt, stop, dp, allowed, ks, slips>>

(* applyPolicy takes rt.mu and gives up at once when Stop has cancelled.   *)
StartPolicy ==
    /\ loop.pc = "authed"
    /\ Goto(IF flags.cancelled THEN "wait" ELSE "policy")
    /\ UNCHANGED <<state, flags, active, closing, hooked, halt, stop, dp, allowed, ks, slips>>

PolicyApplied ==
    /\ loop.pc = "policy"
    /\ dp' = Dataplane
    /\ allowed' \in BOOLEAN
    /\ Goto("applied")
    /\ UNCHANGED <<state, flags, active, closing, hooked, halt, stop, ks, slips>>

(* It fails, or is aborted because Stop cancelled: with isStopping the     *)
(* engine keeps quiet, otherwise dataplaneFailed begins.                   *)
PolicyFails ==
    /\ loop.pc = "policy"
    /\ dp' \in {dp \cup more : more \in SUBSET Dataplane}
    /\ allowed' \in {allowed, "tun" \in dp'}
    /\ IF flags.stopping THEN Goto("wait") /\ UNCHANGED state
       ELSE Goto("failing") /\ state' = "idle"
    /\ UNCHANGED <<flags, active, closing, hooked, halt, stop, ks, slips>>

(* protectThenClearRoutes: the routes stay when the kill switch failed.    *)
FailRoutes ==
    /\ loop.pc = "failing"
    /\ Protect
    /\ dp' = IF flags'.ksOK \/ ~KillSwitch THEN dp \cap {"tun"} ELSE dp
    /\ Close(loop.conn)
    /\ Goto("failed")
    /\ UNCHANGED <<state, active, hooked, halt, stop, allowed, slips>>

DataplaneDown ==
    /\ loop.pc = "failed" /\ Closed(loop.conn)
    /\ Goto(SelfStop("wait"))
    /\ UNCHANGED <<state, flags, active, closing, hooked, halt, stop, dp, allowed, ks, slips>>

(* The connection is compared again after applyPolicy.                     *)
StillActive == active = loop.conn /\ closing[loop.conn] = "open"

Connected ==
    /\ loop.pc = "applied" /\ ActiveMuFree
    /\ IF StillActive
       THEN state' = "connected" /\ Goto("connected") /\ UNCHANGED active
       ELSE /\ active' = IF active = loop.conn THEN 0 ELSE active
            /\ Goto("abandoned")
            /\ UNCHANGED state
    /\ UNCHANGED <<flags, closing, hooked, halt, stop, dp, allowed, ks, slips>>

(* Mutant of Abandoned: the kill switch is forgotten.                      *)
AbandonedOpen ==
    /\ loop.pc = "abandoned"
    /\ state' = IF flags.stopping THEN state ELSE "reconnecting"
    /\ Goto("wait")
    /\ UNCHANGED <<flags, active, closing, hooked, halt, stop, dp, allowed, ks, slips>>

Abandoned ==
    /\ loop.pc = "abandoned"
    /\ IF flags.stopping THEN UNCHANGED <<state, ks, flags>>
       ELSE Protect /\ state' = "reconnecting"
    /\ Goto("wait")
    /\ UNCHANGED <<active, closing, hooked, halt, stop, dp, allowed, slips>>

(* ks.Disable, after activeMu was released.                                *)
Unprotect ==
    /\ loop.pc = "connected"
    /\ IF KillSwitch THEN DisableFilters ELSE UNCHANGED <<ks, flags>>
    /\ slips' = slips \cup (IF state = "reconnecting" THEN {"gap"} ELSE {})
    /\ Goto("wait")
    /\ UNCHANGED <<state, active, closing, hooked, halt, stop, dp, allowed>>

(* Wait for stop or for the end of the connection, whichever comes first.  *)
WaitEnds ==
    /\ loop.pc = "wait"
    /\ \/ halt /\ Close(loop.conn) /\ Goto("closing")
       \/ /\ closing[loop.conn] # "open" /\ RMuFree
          /\ loop' = [pc |-> "top", conn |-> 0, mine |-> 0]
          /\ UNCHANGED closing
    /\ UNCHANGED <<state, flags, active, hooked, halt, stop, dp, allowed, ks, slips>>

LoopReturns ==
    /\ loop.pc = "closing" /\ Closed(loop.conn)
    /\ Goto("done")
    /\ UNCHANGED <<state, flags, active, closing, hooked, halt, stop, dp, allowed, ks, slips>>

(* rc.Stop called by the loop: 45 s pass, then the callback returns into a *)
(* loop that finds stop closed.                                            *)
LoopStopsItself ==
    /\ \/ /\ loop.pc = "selfstop" /\ RMuFree
          /\ halt' = TRUE
          /\ Close(loop.mine)
          /\ Goto("selfwait")
       \/ /\ loop.pc = "selfwait" /\ Closed(loop.mine)
          /\ Goto("done")
          /\ UNCHANGED <<halt, closing>>
    /\ UNCHANGED <<state, flags, active, hooked, stop, dp, allowed, ks, slips>>

LoopStep ==
    \/ Top \/ DialFails(TRUE) \/ DialFails(FALSE) \/ (\E c \in Conns : Dialled(c)) \/ Keep
    \/ Connecting \/ HandshakeFails \/ HandshakeOK \/ Activate
    \/ StartPolicy \/ PolicyApplied \/ PolicyFails \/ FailRoutes \/ DataplaneDown
    \/ Connected \/ Abandoned \/ Unprotect \/ WaitEnds \/ LoopReturns \/ LoopStopsItself

----------------------------------------------------------------------------
(* Engine.stop *)

At(s, pc) == stop[s] = pc
Step(s, pc) == stop' = [stop EXCEPT ![s] = pc]

(* The second caller finds e.reconnect nil and does not wait for the loop. *)
StopBegins(s) ==
    /\ At(s, "idle")
    /\ flags' = [flags EXCEPT !.stopping = TRUE, !.reconnect = FALSE]
    /\ state' = "idle"
    /\ Step(s, IF flags.reconnect THEN "cancel" ELSE "clear2")
    /\ UNCHANGED <<active, closing, hooked, loop, halt, dp, allowed, ks, slips>>

Cancel(s) ==
    /\ At(s, "cancel")
    /\ flags' = [flags EXCEPT !.cancelled = TRUE]
    /\ Step(s, "clear")
    /\ UNCHANGED <<state, active, closing, hooked, loop, halt, dp, allowed, ks, slips>>

ClearActive(s) ==
    /\ stop[s] \in {"clear", "clear2"} /\ ActiveMuFree
    /\ active' = 0
    /\ Step(s, IF At(s, "clear") THEN "halt" ELSE "dataplane")
    /\ UNCHANGED <<state, flags, closing, hooked, loop, halt, dp, allowed, ks, slips>>

(* rc.Stop: close(stop), then r.conn.Close under r.mu.                     *)
StopLoop(s) ==
    /\ \/ /\ At(s, "halt") /\ halt' = TRUE /\ Step(s, "lock") /\ UNCHANGED closing
       \/ /\ At(s, "lock") /\ RMuFree
          /\ Close(loop.mine)
          /\ Step(s, "close")
          /\ UNCHANGED halt
       \/ /\ At(s, "close") /\ Closed(loop.mine)
          /\ Step(s, "wait")
          /\ UNCHANGED <<halt, closing>>
    /\ UNCHANGED <<state, flags, active, hooked, loop, dp, allowed, ks, slips>>

(* It waits for the loop, for 45 s: less than Dial or applyPolicy may take. *)
LoopGone(s) ==
    /\ At(s, "wait")
    /\ \/ loop.pc = "done" /\ UNCHANGED slips
       \/ loop.pc \in {"dial", "policy"} /\ slips' = slips \cup {"timeout"}
    /\ Step(s, "dataplane")
    /\ UNCHANGED <<state, flags, active, closing, hooked, loop, halt, dp, allowed, ks>>

(* Mutant of CloseDataplane: it does not wait for applyPolicy.             *)
CloseUnlocked(s) ==
    /\ At(s, "dataplane")
    /\ dp' = {} /\ allowed' = FALSE
    /\ Step(s, "filters")
    /\ UNCHANGED <<state, flags, active, closing, hooked, loop, halt, ks, slips>>

CloseDataplane(s) ==
    /\ At(s, "dataplane") /\ RtMuFree
    /\ dp' = {} /\ allowed' = FALSE
    /\ Step(s, "filters")
    /\ UNCHANGED <<state, flags, active, closing, hooked, loop, halt, ks, slips>>

RemoveFilters(s) ==
    /\ At(s, "filters")
    /\ DisableFilters
    /\ Step(s, "stopped")
    /\ UNCHANGED <<state, active, closing, hooked, loop, halt, dp, allowed, slips>>

StopStep(s) ==
    \/ StopBegins(s) \/ Cancel(s) \/ ClearActive(s) \/ StopLoop(s) \/ LoopGone(s)
    \/ CloseDataplane(s) \/ RemoveFilters(s)

----------------------------------------------------------------------------

CloseStep == \E c \in Conns : OnClose(c) \/ OnCloseProtects(c)

EngNext == LoopStep \/ CloseStep \/ (\E c \in Conns : NetworkLost(c))
             \/ (\E s \in Stoppers : StopStep(s))

EngSpec == EngInit /\ [][EngNext]_engVars

(* What runs goes on: a goroutine is scheduled, Dial and applyPolicy end   *)
(* and a timer fires, so LoopStep, CloseStep and StopGoesOn are weakly     *)
(* fair.  The network and the callers of Stop promise nothing.             *)
StopGoesOn == \E s \in Stoppers : stop[s] # "idle" /\ StopStep(s)

----------------------------------------------------------------------------
(* Properties *)

LoopPCs == {"top", "dial", "dialled", "kept", "handshake", "hooked", "authed",
            "policy", "failing", "failed", "applied", "abandoned", "connected", "wait",
            "closing", "selfstop", "selfwait", "done"}

EngTypeOK ==
    /\ state \in {"idle", "connecting", "connected", "reconnecting"}
    /\ flags \in [stopping : BOOLEAN, cancelled : BOOLEAN, authOK : BOOLEAN,
                  failFast : BOOLEAN, rejects : 0..MaxRejects, reconnect : BOOLEAN,
                  ksOK : BOOLEAN]
    /\ active \in 0..MaxConn
    /\ closing \in [Conns -> {"none", "open", "begun", "held", "over"}]
    /\ hooked \subseteq Conns
    /\ loop \in [pc : LoopPCs, conn : 0..MaxConn, mine : 0..MaxConn]
    /\ stop \in [Stoppers -> {"idle", "cancel", "clear", "clear2", "halt", "lock", "close",
                             "wait", "dataplane", "filters", "stopped"}]
    /\ dp \subseteq Dataplane
    /\ {halt, allowed, ks} \subseteq BOOLEAN
    /\ slips \subseteq {"gap", "lateClose", "timeout"}

StopsOver == /\ \E s \in Stoppers : At(s, "stopped")
             /\ \A s \in Stoppers : stop[s] \in {"idle", "stopped"}

(* When every Stop that was called has returned, the machine is as it was: *)
(* no TUN, route or DNS server of the engine is left, no block filter      *)
(* unless its removal failed, no tunnel to upload to, whatever the loop    *)
(* was doing; and the loop has ended, so that the next engine can start    *)
(* ("须等 loop 退出"), unless Stop gave up waiting for it after 45 s.      *)
StoppedIsClean ==
    StopsOver => /\ dp = {}
                 /\ active # 0 => closing[active] # "open"
                 /\ ks => ~flags.ksOK
                 /\ "timeout" \in slips \/ loop.pc = "done"

(* With the kill switch configured and KillSwitchOK reported, the filters  *)
(* are in place while the engine is reconnecting and gone once it is       *)
(* connected.  The exception: a connection that ends after activeMu was    *)
(* released and before ks.Disable loses the filters OnClose has installed. *)
KillSwitchFollows ==
    KillSwitch /\ flags.ksOK /\ ~flags.stopping =>
        /\ state = "reconnecting" => ks \/ "gap" \in slips
        /\ state = "connected" /\ loop.pc = "wait" => ~ks

(* An engine that shows "connecting" or "reconnecting" has a loop that     *)
(* dials ("否则 GUI 会卡在「重连中」").  The exception: OnClose runs when  *)
(* the loop has already given up, as it does for dataplaneFailed.          *)
ReconnectingHasLoop ==
    state \in {"connecting", "reconnecting"} /\ ~flags.stopping
        => loop.pc # "done" \/ "lateClose" \in slips

(* What the state of an engine says of the machine and of its loop.        *)
StatusTrue == KillSwitchFollows /\ ReconnectingHasLoop

(* Stop returns, whatever holds activeMu, r.mu and rt.mu.                  *)
StopReturns == \A s \in Stoppers : At(s, "clear") \/ At(s, "clear2") ~> At(s, "stopped")

=============================================================================
