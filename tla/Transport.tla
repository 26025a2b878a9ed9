----------------------------- MODULE Transport -----------------------------
(***************************************************************************)
(* One tunnel connection: the refusals before TLS, the read, write and     *)
(* heartbeat goroutines of both transport.Conn, the handshake on top of    *)
(* them, and packets from several goroutines of the server to the client.  *)
(* A heartbeat behind one that is still on its way is not sent again:      *)
(* bound of the model.  Half a frame stays in the Decoder: net is the      *)
(* sequence of whole frames.                                               *)
(***************************************************************************)
EXTENDS ReplayWindow, Sequences

CONSTANTS QueueSize,   \* MaxQueueSize
          PipeSize,    \* frames TCP takes before Write blocks
          Silence,     \* HeartbeatTimeout, in heartbeat intervals
          Senders      \* goroutines of the server with a packet for the client

ASSUME TransportAssumption == QueueSize \in Nat /\ PipeSize \in Nat /\ Silence \in Nat

VARIABLES
    cl,        \* where the client is: Dial, runRaw, onConnect
    sv,        \* where the server is: handleConn, doHandshake
    preface,   \* what the server wrote before TLS
    dialErr,   \* what Dial says
    st,        \* Conn.state, and "closing" from Close to its callback
    cb,        \* the callbacks of an end: onData, onHandshake, onClose
    sendQ,     \* queued frames of an end
    net,       \* frames of an end on the way
    rd,        \* the read goroutine: reading, with a batch, in the handshake, gone
    batch,     \* decoded frames not yet dispatched
    quiet,     \* intervals since touchHB, and since the last Read
    cut,       \* the network drops everything
    paused,    \* hbPause of the client
    registered,\* the session is in the server's table
    decision,  \* what the server decided about the handshake
    answer,    \* what runRaw's callback was told
    held,      \* the packet a sender has sealed and not yet sent
    lost       \* frames dispatched to nobody, or to the wrong callback

dialVars == <<cl, sv, preface, dialErr>>
connVars == <<st, cb, sendQ, net, rd, batch, quiet>>
restVars == <<cut, paused, registered, decision, answer, held, lost>>
trVars == <<dialVars, connVars, restVars, replayVars>>

Ends == {"cli", "srv"}
Peer(e) == IF e = "cli" THEN "srv" ELSE "cli"
Refusals == {"banned", "denied"}
Frame(t) == [t |-> t, ctr |-> 0]
NoCallbacks == [data |-> "none", hs |-> "none", close |-> "none"]

TransportTypeOK ==
    /\ cl \in {"peek", "tls", "ask", "wait", "setup", "policy", "run", "end"}
    /\ sv \in Refusals \cup {"accept", "tls", "accepted", "attached", "auth", "register", "hook",
                             "answer", "switch", "reject", "serve", "over", "gone"}
    /\ preface \in Refusals \cup {"none"}
    /\ dialErr \in Refusals \cup {"none", "closed", "plaintext", "tls"}
    /\ st \in [Ends -> {"none", "open", "closing", "closed"}]
    /\ cb \in [Ends -> [data : {"none", "once", "fired", "tunnel"}, hs : {"none", "answer", "postAuth"},
                        close : {"none", "remove"}]]
    /\ \A e \in Ends : Len(sendQ[e]) <= QueueSize /\ Len(net[e]) <= PipeSize
    /\ rd \in [Ends -> {"read", "batch", "handshake", "gone"}]
    /\ quiet \in [Ends -> [hb : 0..Silence + 1, read : 0..Silence + 1]]
    /\ cut \in BOOLEAN /\ paused \in BOOLEAN /\ registered \in BOOLEAN
    /\ decision \in {"none", "accepted", "refused"} /\ answer \in {"none", "ok", "err"}
    /\ held \in [Senders -> 0..Limit] /\ lost \subseteq {"ask", "up", "down", "answer"}
    /\ ReplayTypeOK

TrInit ==
    /\ cl = "peek" /\ sv = "accept" /\ preface = "none" /\ dialErr = "none"
    /\ st = [e \in Ends |-> "none"] /\ cb = [e \in Ends |-> NoCallbacks]
    /\ sendQ = [e \in Ends |-> <<>>] /\ net = [e \in Ends |-> <<>>]
    /\ rd = [e \in Ends |-> "read"] /\ batch = [e \in Ends |-> <<>>]
    /\ quiet = [e \in Ends |-> [hb |-> 0, read |-> 0]]
    /\ cut = FALSE /\ paused = FALSE /\ registered = FALSE
    /\ decision = "none" /\ answer = "none"
    /\ held = [s \in Senders |-> 0] /\ lost = {}
    /\ ReplayInit

-----------------------------------------------------------------------------
(* Before TLS *)

(* handleConn asks the probe guard; a refusal is written, or the write     *)
(* fails, and the socket is closed.                                        *)
CheckAccept ==
    /\ sv = "accept"
    /\ sv' \in Refusals \cup {"tls"}
    /\ UNCHANGED <<cl, preface, dialErr, connVars, restVars, replayVars>>

WriteRejectBanner ==
    /\ sv \in Refusals
    /\ preface' \in {sv, "none"}
    /\ sv' = "gone"
    /\ UNCHANGED <<cl, dialErr, connVars, restVars, replayVars>>

(* Mutant of PeekOutcome: a close without a banner is taken for a ban.     *)
PeekGuess == IF preface # "none" THEN preface ELSE "banned"

PeekOutcome == IF preface # "none" THEN preface ELSE "closed"

(* readProbeRejectBanner: a banner, or the end of the stream, within the   *)
(* time it waits; else TLS begins.                                         *)
Peek ==
    /\ cl = "peek"
    /\ \/ sv = "gone" /\ dialErr' = PeekOutcome /\ cl' = "end"
       \/ cl' = "tls" /\ UNCHANGED dialErr
    /\ UNCHANGED <<sv, preface, connVars, restVars, replayVars>>

(* The TLS handshake fails for the client, by a banner that came late or   *)
(* for any other reason, or for the server.                                *)
ClientTLSFails ==
    /\ cl = "tls"
    /\ sv \in {"tls", "gone"}
    /\ dialErr' = IF preface # "none" THEN "plaintext" ELSE "tls"
    /\ cl' = "end" /\ sv' = "gone"
    /\ UNCHANGED <<preface, connVars, restVars, replayVars>>

ServerTLSFails ==
    /\ sv = "tls" /\ cl # "tls"
    /\ sv' = "gone"
    /\ UNCHANGED <<cl, preface, dialErr, connVars, restVars, replayVars>>

(* Both Conn start their goroutines ...                                    *)
Connected ==
    /\ cl = "tls" /\ sv = "tls"
    /\ cl' = "ask" /\ sv' = "accepted"
    /\ st' = [e \in Ends |-> "open"]
    /\ UNCHANGED <<preface, dialErr, cb, sendQ, net, rd, batch, quiet, restVars, replayVars>>

SetCallback(e, which, fn) == cb' = [cb EXCEPT ![e][which] = fn]

(* ... and only then does the server's onConn set onData.                  *)
Attach ==
    /\ sv = "accepted"
    /\ sv' = "attached"
    /\ SetCallback("srv", "data", "once")
    /\ UNCHANGED <<cl, preface, dialErr, st, sendQ, net, rd, batch, quiet, restVars, replayVars>>

-----------------------------------------------------------------------------
(* The goroutines of a Conn *)

BeginClose(e) == st' = IF st[e] = "open" THEN [st EXCEPT ![e] = "closing"] ELSE st

Room(e) == Len(sendQ[e]) < QueueSize

(* SendRaw: it does not wait, and it does not look at the state.           *)
Enqueue(e, f) == sendQ' = [sendQ EXCEPT ![e] = Append(@, f)]

RunOnClose(e) == registered' = (registered /\ cb[e].close # "remove")

(* Close: the socket is closed, then the callback runs (RemoveIfConn on    *)
(* the server).                                                            *)
CloseEnds(e) ==
    /\ st[e] = "closing"
    /\ st' = [st EXCEPT ![e] = "closed"]
    /\ sendQ' = [sendQ EXCEPT ![e] = <<>>]
    /\ net' = [net EXCEPT ![Peer(e)] = <<>>]
    /\ RunOnClose(e)
    /\ UNCHANGED <<dialVars, cb, rd, batch, quiet, cut, paused, decision, answer, held, lost, replayVars>>

(* writeLoop; a frame written to a broken or a closed path is lost.        *)
WriteFrame(e) ==
    /\ st[e] \in {"open", "closing"} /\ sendQ[e] # <<>>
    /\ cut \/ st[Peer(e)] = "closed" \/ Len(net[e]) < PipeSize
    /\ sendQ' = [sendQ EXCEPT ![e] = Tail(@)]
    /\ net' = IF cut \/ st[Peer(e)] = "closed" THEN net ELSE [net EXCEPT ![e] = Append(@, Head(sendQ[e]))]
    /\ UNCHANGED <<dialVars, st, cb, rd, batch, quiet, restVars, replayVars>>

(* WriteTimeout, or an error of the socket. *)
WriteFails(e) ==
    /\ st[e] = "open" /\ sendQ[e] # <<>>
    /\ cut \/ st[Peer(e)] = "closed" \/ Len(net[e]) = PipeSize
    /\ BeginClose(e)
    /\ UNCHANGED <<dialVars, cb, sendQ, net, rd, batch, quiet, restVars, replayVars>>

OnItsWay(e, f) == \E i \in 1..Len(sendQ[e]) : sendQ[e][i] = f
InPipe(e, f) == \E i \in 1..Len(net[e]) : net[e][i] = f

(* heartbeatLoop: a heartbeat if there is room, then the look at lastHB.   *)
(* An interval is longer than it takes to write and read a frame.          *)
Heartbeat(e) ==
    LET older == [hb |-> IF quiet[e].hb > Silence THEN quiet[e].hb ELSE quiet[e].hb + 1,
                  read |-> IF quiet[e].read > Silence THEN quiet[e].read ELSE quiet[e].read + 1]
        beat == Frame("beat")
    IN  /\ st[e] = "open"
        /\ net = [d \in Ends |-> <<>>] /\ rd[e] # "batch"
        /\ quiet' = [quiet EXCEPT ![e] = older]
        /\ IF Room(e) /\ ~OnItsWay(e, beat) THEN Enqueue(e, beat) ELSE UNCHANGED sendQ
        /\ IF older.hb > Silence /\ ~(e = "cli" /\ paused) THEN BeginClose(e) ELSE UNCHANGED st
        /\ UNCHANGED <<dialVars, cb, net, rd, batch, restVars, replayVars>>

(* tls.Read and Decoder.Feed: one frame, or all there are.                 *)
Read(e) ==
    LET in == net[Peer(e)] IN
    /\ rd[e] = "read" /\ st[e] \in {"open", "closing"} /\ in # <<>>
    /\ \E k \in {1, Len(in)} :
          /\ batch' = [batch EXCEPT ![e] = SubSeq(in, 1, k)]
          /\ net' = [net EXCEPT ![Peer(e)] = SubSeq(in, k + 1, Len(in))]
    /\ rd' = [rd EXCEPT ![e] = "batch"]
    /\ quiet' = [quiet EXCEPT ![e].read = 0]
    /\ UNCHANGED <<dialVars, st, cb, sendQ, restVars, replayVars>>

(* The end of the stream, the read deadline (which knows no hbPause), or   *)
(* Close: the loop returns, and closes.                                    *)
ReadEnds(e) ==
    /\ rd[e] = "read" /\ st[e] # "none"
    /\ \/ st[e] # "open"
       \/ net[Peer(e)] = <<>> /\ (st[Peer(e)] = "closed" \/ quiet[e].read > Silence)
    /\ rd' = [rd EXCEPT ![e] = "gone"]
    /\ BeginClose(e)
    /\ UNCHANGED <<dialVars, cb, sendQ, net, batch, quiet, restVars, replayVars>>

(* The next frame of the batch; a batch is dispatched to its end even when *)
(* the connection is closed meanwhile.                                     *)
TakeFrame(e) ==
    /\ batch' = [batch EXCEPT ![e] = Tail(@)]
    /\ quiet' = [quiet EXCEPT ![e].hb = 0]

Resume(e, rest) == rd' = [rd EXCEPT ![e] = IF rest = <<>> THEN "read" ELSE "batch"]

Dispatching(e, t) == rd[e] = "batch" /\ batch[e] # <<>> /\ Head(batch[e]).t = t

Lose(what) == lost' = lost \cup {what}

DispatchBeat(e) ==
    /\ Dispatching(e, "beat")
    /\ TakeFrame(e) /\ Resume(e, Tail(batch[e]))
    /\ UNCHANGED <<dialVars, st, cb, sendQ, net, restVars, replayVars>>

(* What a frame that is neither data nor a heartbeat is given to; before   *)
(* authentication also what data are given to (Attach's once).             *)
Hands(e) == IF cb[e].hs # "none" THEN cb[e].hs ELSE cb[e].data

(* The request: the first frame starts the handshake on this goroutine.    *)
DispatchAsk ==
    /\ Dispatching("srv", "ask")
    /\ TakeFrame("srv")
    /\ IF Hands("srv") = "once"
       THEN /\ rd' = [rd EXCEPT !["srv"] = "handshake"]
            /\ SetCallback("srv", "data", "fired")
            /\ sv' = "auth" /\ UNCHANGED lost
       ELSE Resume("srv", Tail(batch["srv"])) /\ Lose("ask") /\ UNCHANGED <<sv, cb>>
    /\ UNCHANGED <<cl, preface, dialErr, st, sendQ, net, cut, paused, registered, decision, answer,
                   held, replayVars>>

(* The answer: it is for runRaw's callback, which takes the first.         *)
DispatchAnswer ==
    /\ \E t \in {"ok", "err"} :
          /\ Dispatching("cli", t)
          /\ IF Hands("cli") = "answer"
             THEN answer' = (IF answer = "none" THEN t ELSE answer) /\ UNCHANGED lost
             ELSE UNCHANGED answer /\ Lose("answer")
    /\ TakeFrame("cli") /\ Resume("cli", Tail(batch["cli"]))
    /\ UNCHANGED <<dialVars, st, cb, sendQ, net, cut, paused, registered, decision, held, replayVars>>

(* A packet of the client: HandleInbound, once the server has switched.    *)
DispatchUp ==
    /\ Dispatching("srv", "data")
    /\ TakeFrame("srv") /\ Resume("srv", Tail(batch["srv"]))
    /\ IF registered /\ cb["srv"].data # "tunnel" THEN Lose("up") ELSE UNCHANGED lost
    /\ UNCHANGED <<dialVars, st, cb, sendQ, net, cut, paused, registered, decision, answer, held, replayVars>>

(* A packet of the server: decrypted when the client has set onData.       *)
DispatchDown ==
    /\ Dispatching("cli", "data")
    /\ TakeFrame("cli") /\ Resume("cli", Tail(batch["cli"]))
    /\ IF cb["cli"].data = "tunnel"
       THEN Decrypt(Head(batch["cli"]).ctr, TRUE) /\ UNCHANGED lost
       ELSE Lose("down") /\ UNCHANGED replayVars
    /\ UNCHANGED <<dialVars, st, cb, sendQ, net, cut, paused, registered, decision, answer, held>>

-----------------------------------------------------------------------------
(* The client: runRaw and onConnect *)

Ask ==
    /\ cl = "ask"
    /\ SetCallback("cli", "hs", "answer")
    /\ IF Room("cli")
       THEN Enqueue("cli", Frame("ask")) /\ cl' = "wait" /\ UNCHANGED st
       ELSE cl' = "end" /\ BeginClose("cli") /\ UNCHANGED sendQ
    /\ UNCHANGED <<sv, preface, dialErr, net, rd, batch, quiet, restVars, replayVars>>

Answered ==
    /\ cl = "wait" /\ answer # "none"
    /\ SetCallback("cli", "hs", "none")
    /\ IF answer = "ok" THEN cl' = "setup" /\ UNCHANGED st ELSE cl' = "end" /\ BeginClose("cli")
    /\ UNCHANGED <<sv, preface, dialErr, sendQ, net, rd, batch, quiet, restVars, replayVars>>

(* The timer is all that ends the wait of a connection that was closed.    *)
HandshakeTimeout ==
    /\ cl = "wait"
    /\ cl' = "end" /\ BeginClose("cli")
    /\ UNCHANGED <<sv, preface, dialErr, cb, sendQ, net, rd, batch, quiet, restVars, replayVars>>

Setup ==
    /\ cl = "setup"
    /\ SetCallback("cli", "data", "tunnel")
    /\ cl' = "policy" /\ paused' = TRUE
    /\ UNCHANGED <<sv, preface, dialErr, st, sendQ, net, rd, batch, quiet>>
    /\ UNCHANGED <<cut, registered, decision, answer, held, lost, replayVars>>

(* applyPolicy returns: SetHeartbeatTimeoutPaused(false) touches lastHB.   *)
PolicyDone ==
    /\ cl = "policy"
    /\ paused' = FALSE /\ quiet' = [quiet EXCEPT !["cli"].hb = 0]
    /\ cl' = IF st["cli"] = "open" THEN "run" ELSE "end"
    /\ UNCHANGED <<sv, preface, dialErr, st, cb, sendQ, net, rd, batch>>
    /\ UNCHANGED <<cut, registered, decision, answer, held, lost, replayVars>>

(* A packet from the client's TUN: Send looks at the state first.          *)
SendUp ==
    /\ cl \in {"policy", "run"} /\ st["cli"] = "open" /\ Room("cli")
    /\ ~OnItsWay("cli", Frame("data")) /\ ~InPipe("cli", Frame("data"))
    /\ Enqueue("cli", Frame("data"))
    /\ UNCHANGED <<dialVars, st, cb, net, rd, batch, quiet, restVars, replayVars>>

(* Stop, or the connection's end in the reconnect loop; runRaw and         *)
(* applyPolicy do not notice.                                              *)
ClientStops ==
    /\ cl \in {"wait", "setup", "policy", "run"}
    /\ cl' = IF cl \in {"wait", "policy"} THEN cl ELSE "end"
    /\ BeginClose("cli")
    /\ UNCHANGED <<sv, preface, dialErr, cb, sendQ, net, rd, batch, quiet, restVars, replayVars>>

-----------------------------------------------------------------------------
(* The server: doHandshake, on the goroutine that reads *)

HandshakeEnds(where) == sv' = where /\ Resume("srv", batch["srv"]) /\ UNCHANGED batch

Authenticate ==
    /\ sv = "auth"
    /\ sv' \in {"register", "reject"}
    /\ UNCHANGED <<cl, preface, dialErr, connVars, restVars, replayVars>>

(* RegisterVPN: from here on other goroutines find the session.            *)
Register ==
    /\ sv = "register"
    /\ \/ registered' = TRUE /\ sv' = "hook"
       \/ UNCHANGED registered /\ sv' = "reject"
    /\ UNCHANGED <<cl, preface, dialErr, connVars, cut, paused, decision, answer, held, lost, replayVars>>

(* Mutant of StateAfterHook: nobody looks whether the connection lives.    *)
NeverMind == TRUE

StateAfterHook == st["srv"] = "open"

(* SetOnClose, then the state.                                             *)
Hook ==
    /\ sv = "hook"
    /\ SetCallback("srv", "close", "remove")
    /\ IF StateAfterHook
       THEN sv' = "answer" /\ UNCHANGED <<registered, rd, batch>>
       ELSE registered' = FALSE /\ HandshakeEnds("over")
    /\ UNCHANGED <<cl, preface, dialErr, st, sendQ, net, quiet>>
    /\ UNCHANGED <<cut, paused, decision, answer, held, lost, replayVars>>

(* handshake_ok waits in the queue like any frame, behind the packets that *)
(* were sent since the registration, or finds it full.                     *)
SendOK ==
    /\ sv = "answer"
    /\ \/ /\ Room("srv")
          /\ Enqueue("srv", Frame("ok")) /\ decision' = "accepted" /\ sv' = "switch"
          /\ UNCHANGED <<registered, st, rd, batch>>
       \/ /\ ~Room("srv")
          /\ registered' = FALSE /\ BeginClose("srv") /\ HandshakeEnds("over")
          /\ UNCHANGED <<sendQ, decision>>
    /\ UNCHANGED <<cl, preface, dialErr, cb, net, quiet, cut, paused, answer, held, lost, replayVars>>

Switch ==
    /\ sv = "switch"
    /\ cb' = [cb EXCEPT !["srv"].data = "tunnel", !["srv"].hs = "postAuth"]
    /\ HandshakeEnds("serve")
    /\ UNCHANGED <<cl, preface, dialErr, st, sendQ, net, quiet, restVars, replayVars>>

(* rejectHandshake: past the queue, or not at all, and Close.              *)
Reject ==
    /\ sv = "reject"
    /\ decision' = "refused"
    /\ \/ /\ st["srv"] = "open" /\ ~cut /\ st["cli"] # "closed" /\ Len(net["srv"]) < PipeSize
          /\ net' = [net EXCEPT !["srv"] = Append(@, Frame("err"))]
       \/ /\ st["srv"] # "open" \/ cut \/ st["cli"] = "closed" \/ Len(net["srv"]) = PipeSize
          /\ UNCHANGED net
    /\ BeginClose("srv") /\ HandshakeEnds("over")
    /\ UNCHANGED <<cl, preface, dialErr, cb, sendQ, quiet>>
    /\ UNCHANGED <<cut, paused, registered, answer, held, lost, replayVars>>

(* The session is displaced: drainOldConn.                                 *)
Displaced ==
    /\ registered /\ sv \in {"answer", "switch", "serve"}
    /\ registered' = FALSE
    /\ SetCallback("srv", "data", "none") /\ BeginClose("srv")
    /\ UNCHANGED <<dialVars, sendQ, net, rd, batch, quiet>>
    /\ UNCHANGED <<cut, paused, decision, answer, held, lost, replayVars>>

(* sendToAccount of a goroutine: Encrypt ...                               *)
Seal(s) ==
    /\ registered /\ held[s] = 0
    /\ Encrypt
    /\ held' = [held EXCEPT ![s] = sendCounter + 1]
    /\ UNCHANGED <<dialVars, connVars, cut, paused, registered, decision, answer, lost>>

(* ... and Send, when others may have sealed and sent in between.          *)
SendDown(s) ==
    /\ held[s] # 0
    /\ held' = [held EXCEPT ![s] = 0]
    /\ IF st["srv"] = "open" /\ Room("srv")
       THEN Enqueue("srv", [t |-> "data", ctr |-> held[s] - 1])
       ELSE UNCHANGED sendQ
    /\ UNCHANGED <<dialVars, st, cb, net, rd, batch, quiet>>
    /\ UNCHANGED <<cut, paused, registered, decision, answer, lost, replayVars>>

(* Nothing passes any more, and nobody is told.                            *)
NetworkCut ==
    /\ ~cut /\ \E e \in Ends : st[e] = "open"
    /\ cut' = TRUE /\ net' = [e \in Ends |-> <<>>]
    /\ UNCHANGED <<dialVars, st, cb, sendQ, rd, batch, quiet>>
    /\ UNCHANGED <<paused, registered, decision, answer, held, lost, replayVars>>

-----------------------------------------------------------------------------
Dialling == CheckAccept \/ WriteRejectBanner \/ Peek \/ ClientTLSFails \/ ServerTLSFails \/ Connected \/ Attach
ClientStep == Ask \/ Answered \/ Setup \/ PolicyDone
Reading(e) == Read(e) \/ ReadEnds(e) \/ DispatchBeat(e)
              \/ (e = "srv" /\ (DispatchAsk \/ DispatchUp)) \/ (e = "cli" /\ (DispatchAnswer \/ DispatchDown))
Writing(e) == WriteFrame(e) \/ WriteFails(e)
ServerStep == Authenticate \/ Register \/ Hook \/ SendOK \/ Switch \/ Reject
Packets == SendUp \/ \E s \in Senders : Seal(s) \/ SendDown(s)

Beating == NetworkCut \/ \E e \in Ends : Heartbeat(e)
Endings == ClientStops \/ Displaced

(* What goes on in every connection.                                       *)
Common ==
    \/ Dialling \/ ClientStep \/ HandshakeTimeout \/ ServerStep
    \/ \E e \in Ends : Reading(e) \/ Writing(e) \/ CloseEnds(e)

TrNext == Common \/ Endings \/ Packets \/ Beating

TrSpec == TrInit /\ [][TrNext]_trVars

-----------------------------------------------------------------------------
(* What the client concludes is what the server decided: "banned" only     *)
(* after a ban, plain text before TLS only after a refusal, ok and err as  *)
(* decided; an answer is never taken for data, nor data for an answer, and *)
(* no packet of a registered client meets another callback than            *)
(* HandleInbound.                                                          *)
AnswersTrue ==
    /\ dialErr \in Refusals => preface = dialErr
    /\ dialErr = "plaintext" => preface # "none"
    /\ dialErr # "none" => st["cli"] = "none"
    /\ answer = "ok" => decision = "accepted"
    /\ answer = "err" => decision = "refused"
    /\ lost \cap {"up", "answer"} = {}
    /\ registered => decision # "refused"

(* The session of a connection does not outlive it: when either end has    *)
(* closed, or the network was cut, both close, and the table forgets the   *)
(* session, for good.                                                      *)
DeadConnNoticed ==
    (cut \/ \E e \in Ends : st[e] = "closed") ~> [](~registered /\ \A e \in Ends : st[e] = "closed")
=============================================================================
