-------------------------- MODULE TransportProofs --------------------------
(***************************************************************************)
(* For windows and limits of any size, the packets of ReplayWindow are     *)
(* delivered once (ReplayInv).  For queues, pipes and numbers of senders   *)
(* of any size: the packets of Transport live the life of ReplayWindow     *)
(* (Sealed), every variable keeps its type, and what the client concludes  *)
(* is what the server decided (AnswersInv).  And for any number of         *)
(* attempts: a refusal ends those of LoginRetry exactly when it should     *)
(* (RefusalsInv).                                                          *)
(***************************************************************************)
EXTENDS Transport, LoginRetry, TLAPS

----------------------------------------------------------------------------
(* ReplayWindow *)

(* The filter has marked what was delivered and nothing else, and its      *)
(* highest counter is a delivered one.                                     *)
FilterExact ==
    /\ \A c \in Counters : got[c] = IF c \in marked THEN 1 ELSE 0
    /\ \A c \in marked : c <= last /\ c < sendCounter
    /\ last = 0 \/ last \in marked

ReplayInv == ReplayTypeOK /\ FilterExact /\ RefusedForCause

LEMMA ReplayInitial == ReplayInit => ReplayInv
BY ReplayAssumption DEF ReplayInit, ReplayInv, ReplayTypeOK, FilterExact, RefusedForCause, Counters

(* Delivering a packet keeps what was said about the refused ones: counts  *)
(* only grow.                                                              *)
LEMMA AcceptKeeps ==
  ASSUME ReplayInv, NEW c \in Counters, c < sendCounter, Accept(c)
  PROVE  ReplayInv'
<1>1. c \notin marked /\ got[c] = 0 /\ marked' = marked \cup {c}
  BY DEF ReplayInv, FilterExact, Accept, Fresh, Mark
<1>2. got' = [got EXCEPT ![c] = 1] /\ UNCHANGED <<sendCounter, refused>>
  BY <1>1 DEF Accept, ReplayInv, ReplayTypeOK
<1>3. ReplayTypeOK'
  BY <1>1, <1>2 DEF ReplayInv, ReplayTypeOK, Accept, Mark, Counters
<1>4. FilterExact'
  <2>1. \A d \in Counters : got'[d] = IF d \in marked' THEN 1 ELSE 0
    BY <1>1, <1>2 DEF ReplayInv, ReplayTypeOK, FilterExact
  <2>2. \A d \in marked' : d <= last' /\ d < sendCounter'
    BY <1>1, <1>2, ReplayAssumption DEF ReplayInv, ReplayTypeOK, FilterExact, Accept, Mark, Counters
  <2>3. last' = 0 \/ last' \in marked'
    BY <1>1 DEF ReplayInv, FilterExact, Accept, Mark
  <2>. QED BY <2>1, <2>2, <2>3 DEF FilterExact
<1>5. RefusedForCause'
  <2>. SUFFICES ASSUME NEW d \in refused
                PROVE  got'[d] = 1 \/ \E e \in Counters : e > d + Window /\ got'[e] = 1
    BY <1>2 DEF RefusedForCause
  <2>1. \A e \in Counters : got[e] = 1 => got'[e] = 1
    BY <1>2 DEF ReplayInv, ReplayTypeOK
  <2>2. d \in Counters
    BY DEF ReplayInv, ReplayTypeOK
  <2>. QED BY <2>1, <2>2 DEF ReplayInv, RefusedForCause
<1>. QED BY <1>3, <1>4, <1>5 DEF ReplayInv

(* A refused genuine packet is either marked, hence delivered, or more     *)
(* than a window below the highest counter, which is.                      *)
LEMMA RefuseKeeps ==
  ASSUME ReplayInv, NEW c \in Counters, c < sendCounter, Refuse(c, TRUE)
  PROVE  ReplayInv'
<1>1. UNCHANGED <<sendCounter, last, marked, got>> /\ refused' = refused \cup {c}
  BY DEF Refuse
<1>2. ReplayTypeOK' /\ FilterExact'
  BY <1>1 DEF ReplayInv, ReplayTypeOK, FilterExact
<1>3. got[c] = 1 \/ \E d \in Counters : d > c + Window /\ got[d] = 1
  <2>1. CASE c \in marked
    BY <2>1 DEF ReplayInv, FilterExact
  <2>2. CASE c \notin marked
    <3>1. c < Limit
      BY ReplayAssumption DEF ReplayInv, ReplayTypeOK, Counters
    <3>2. last > c + Window
      BY <2>2, <3>1, ReplayAssumption DEF Refuse, Fresh, ReplayInv, ReplayTypeOK, Counters
    <3>3. last \in marked
      BY <3>2, ReplayAssumption DEF ReplayInv, ReplayTypeOK, FilterExact, Counters
    <3>. QED BY <3>2, <3>3 DEF ReplayInv, ReplayTypeOK, FilterExact
  <2>. QED BY <2>1, <2>2
<1>4. RefusedForCause'
  BY <1>1, <1>3 DEF ReplayInv, RefusedForCause
<1>. QED BY <1>2, <1>4 DEF ReplayInv

LEMMA ReplayStep == ReplayInv /\ [ReplayNext]_replayVars => ReplayInv'
<1>. SUFFICES ASSUME ReplayInv, [ReplayNext]_replayVars PROVE ReplayInv'
  OBVIOUS
<1>1. CASE Encrypt
  BY <1>1, ReplayAssumption
  DEF Encrypt, filterVars, ReplayInv, ReplayTypeOK, FilterExact, RefusedForCause, Counters
<1>2. ASSUME NEW c \in Counters, c < sendCounter, Decrypt(c, TRUE)
      PROVE  ReplayInv'
  BY <1>2, AcceptKeeps, RefuseKeeps DEF Decrypt
<1>3. ASSUME NEW c \in Counters, Decrypt(c, FALSE)
      PROVE  ReplayInv'
  <2>1. UNCHANGED replayVars
    BY <1>3 DEF Decrypt, Refuse, Rollback, replayVars
  <2>. QED BY <2>1 DEF replayVars, ReplayInv, ReplayTypeOK, FilterExact, RefusedForCause
<1>4. CASE UNCHANGED replayVars
  BY <1>4 DEF replayVars, ReplayInv, ReplayTypeOK, FilterExact, RefusedForCause
<1>. QED BY <1>1, <1>2, <1>3, <1>4 DEF ReplayNext

(* Whatever arrives, in whatever order: no packet is delivered twice, none *)
(* that the peer has not sealed, and a genuine packet is refused only as a *)
(* repetition or behind the window (wg_crypto.go, Decrypt).                *)
THEOREM FilterCorrect == ReplaySpec => []PacketsOnce
<1>1. ReplayInv => PacketsOnce
  BY DEF ReplayInv, ReplayTypeOK, FilterExact, PacketsOnce, NeverTwice, Counters
<1>. QED BY <1>1, ReplayInitial, ReplayStep, PTL DEF ReplaySpec

----------------------------------------------------------------------------
(* Transport *)

Kinds == {"ask", "ok", "err", "beat", "data"}
Frames == [t : Kinds, ctr : Nat]

(* A packet of the server has been sealed.                                 *)
Sent(e) == {f \in Frames : e = "srv" /\ f.t = "data" => f.ctr < sendCounter}

(* What is queued, on the way, or read by the other end.                   *)
Sealed ==
    /\ sendQ \in [Ends -> Seq(Frames)] /\ net \in [Ends -> Seq(Frames)] /\ batch \in [Ends -> Seq(Frames)]
    /\ \A e \in Ends : /\ sendQ[e] \in Seq(Sent(e)) /\ net[e] \in Seq(Sent(e))
                       /\ batch[Peer(e)] \in Seq(Sent(e))
    /\ held \in [Senders -> Nat] /\ \A s \in Senders : held[s] <= sendCounter
    /\ sendCounter \in 0..Limit

Packet == <<sendQ, net, batch, held>>

LEMMA SealedInitial == TrInit => Sealed
BY ReplayAssumption DEF TrInit, ReplayInit, Sealed, Ends, Peer, Sent, Frames

LEMMA FrameSent ==
  ASSUME NEW e, NEW t \in Kinds, e = "srv" => t # "data"
  PROVE  Frame(t) \in Sent(e)
<1>1. Frame(t) \in Frames
  BY DEF Frame, Frames
<1>. QED BY <1>1 DEF Frame, Sent

(* A step that moves no frame and seals none.                              *)
LEMMA SealedStays == Sealed /\ UNCHANGED <<Packet, sendCounter>> => Sealed'
BY DEF Sealed, Packet, Sent

LEMMA SealedEnqueue ==
  ASSUME Sealed, NEW e \in Ends, NEW f \in Sent(e), Enqueue(e, f),
         UNCHANGED <<net, batch, held, sendCounter>>
  PROVE  Sealed'
BY DEF Sealed, Enqueue, Sent, Ends, Peer

LEMMA SealedDequeue ==
  ASSUME Sealed, NEW e \in Ends, WriteFrame(e) PROVE Sealed'
<1>1. sendQ[e] \in Seq(Sent(e)) /\ sendQ[e] # <<>> /\ net[e] \in Seq(Sent(e))
  BY DEF Sealed, WriteFrame
<1>2. Tail(sendQ[e]) \in Seq(Sent(e)) /\ Head(sendQ[e]) \in Sent(e)
  BY <1>1
<1>3. Append(net[e], Head(sendQ[e])) \in Seq(Sent(e))
  BY <1>1, <1>2
<1>4. \A q : q \in Seq(Sent(e)) => q \in Seq(Frames)
  BY DEF Sent
<1>. QED BY <1>1, <1>2, <1>3, <1>4 DEF Sealed, WriteFrame, Sent, Ends, Peer, replayVars, restVars

LEMMA SealedRead ==
  ASSUME Sealed, NEW e \in Ends, Read(e) PROVE Sealed'
<1>1. PICK k \in {1, Len(net[Peer(e)])} :
        /\ batch' = [batch EXCEPT ![e] = SubSeq(net[Peer(e)], 1, k)]
        /\ net' = [net EXCEPT ![Peer(e)] = SubSeq(net[Peer(e)], k + 1, Len(net[Peer(e)]))]
  BY DEF Read
<1>2. Peer(e) \in Ends /\ Peer(Peer(e)) = e
  BY DEF Ends, Peer
<1>3. net[Peer(e)] \in Seq(Sent(Peer(e))) /\ net[Peer(e)] # <<>>
  BY <1>2 DEF Sealed, Read
<1>4. k \in 1..Len(net[Peer(e)])
  BY <1>3
<1>5. /\ SubSeq(net[Peer(e)], 1, k) \in Seq(Sent(Peer(e)))
      /\ SubSeq(net[Peer(e)], k + 1, Len(net[Peer(e)])) \in Seq(Sent(Peer(e)))
  BY <1>3, <1>4
<1>6. \A q : q \in Seq(Sent(Peer(e))) => q \in Seq(Frames)
  BY DEF Sent
<1>7. UNCHANGED <<sendQ, held, sendCounter>>
  BY DEF Read, restVars, replayVars
<1>. QED BY <1>1, <1>2, <1>5, <1>6, <1>7 DEF Sealed, Sent, Ends, Peer

(* A frame leaves the batch.                                               *)
LEMMA SealedTake ==
  ASSUME Sealed, NEW e \in Ends, TakeFrame(e), batch[e] # <<>>,
         UNCHANGED <<sendQ, net, held, sendCounter>>
  PROVE  Sealed'
<1>1. PICK d \in Ends : e = Peer(d)
  BY DEF Ends, Peer
<1>2. batch[e] \in Seq(Sent(d)) /\ Tail(batch[e]) \in Seq(Sent(d)) /\ Tail(batch[e]) \in Seq(Frames)
  BY <1>1 DEF Sealed, Sent
<1>. QED BY <1>1, <1>2 DEF Sealed, TakeFrame, Sent, Ends, Peer

(* Neither does the sealing of a packet unseal those that are on the way.  *)
LEMMA SealedSeal ==
  ASSUME Sealed, NEW s \in Senders, Seal(s)
  PROVE  Sealed'
<1>1. /\ sendCounter' = sendCounter + 1 /\ sendCounter < Limit
      /\ held' = [held EXCEPT ![s] = sendCounter + 1]
      /\ UNCHANGED <<sendQ, net, batch>>
  BY DEF Seal, Encrypt, connVars
<1>2. \A e \in Ends : \A q : q \in Seq(Sent(e)) => q \in Seq(Sent(e))'
  BY <1>1, ReplayAssumption DEF Sealed, Sent, Frames
<1>3. sendCounter' \in 0..Limit /\ held' \in [Senders -> Nat] /\ \A r \in Senders : held'[r] <= sendCounter'
  BY <1>1, ReplayAssumption DEF Sealed
<1>4. \A e \in Ends : /\ sendQ[e] \in Seq(Sent(e))' /\ net[e] \in Seq(Sent(e))'
                       /\ batch[Peer(e)] \in Seq(Sent(e))'
  BY <1>2 DEF Sealed
<1>. QED BY <1>1, <1>3, <1>4 DEF Sealed

(* An empty pipe, or one with an answer more, carries what is sealed.      *)
LEMMA SealedPipe ==
  ASSUME Sealed, NEW e \in Ends, NEW n, n = <<>> \/ \E f \in Sent(e) : n = Append(net[e], f),
         net' = [net EXCEPT ![e] = n], UNCHANGED <<batch, held, sendCounter>>,
         sendQ' = sendQ \/ sendQ' = [sendQ EXCEPT ![Peer(e)] = <<>>]
  PROVE  Sealed'
<1>1. n \in Seq(Sent(e))
  <2>1. CASE n = <<>>
    BY <2>1
  <2>2. ASSUME NEW f \in Sent(e), n = Append(net[e], f)
        PROVE  n \in Seq(Sent(e))
    <3>1. net[e] \in Seq(Sent(e))
      BY DEF Sealed
    <3>. QED BY <2>2, <3>1
  <2>. QED BY <2>1, <2>2
<1>3. n \in Seq(Frames)
  BY <1>1 DEF Sent
<1>2. Peer(e) \in Ends
  BY DEF Ends, Peer
<1>4. net' \in [Ends -> Seq(Frames)] /\ \A d \in Ends : net'[d] \in Seq(Sent(d))
  BY <1>1, <1>3 DEF Sealed
<1>5. sendQ' \in [Ends -> Seq(Frames)] /\ \A d \in Ends : sendQ'[d] \in Seq(Sent(d))
  <2>1. <<>> \in Seq(Frames) /\ \A d \in Ends : <<>> \in Seq(Sent(d))
    OBVIOUS
  <2>. QED BY <1>2, <2>1 DEF Sealed
<1>. QED BY <1>4, <1>5 DEF Sealed, Sent

LEMMA SealedStep == Sealed /\ [TrNext]_trVars => Sealed'
<1>. SUFFICES ASSUME Sealed, [TrNext]_trVars PROVE Sealed'
  OBVIOUS
<1>. USE DEF Ends
<1>1. CASE Dialling
  BY <1>1, SealedStays DEF Dialling, CheckAccept, WriteRejectBanner, Peek, ClientTLSFails, ServerTLSFails,
     Connected, Attach, Packet, connVars, restVars, replayVars
<1>2. CASE ClientStep \/ HandshakeTimeout \/ Endings
  <2>1. CASE Ask
    <3>1. Frame("ask") \in Sent("cli")
      BY FrameSent DEF Kinds
    <3>. QED BY <2>1, <3>1, SealedEnqueue, SealedStays DEF Ask, Packet, restVars, replayVars
  <2>2. CASE Answered \/ Setup \/ PolicyDone \/ HandshakeTimeout \/ ClientStops \/ Displaced
    BY <2>2, SealedStays DEF Answered, Setup, PolicyDone, HandshakeTimeout, ClientStops, Displaced,
       Packet, restVars, replayVars
  <2>. QED BY <1>2, <2>1, <2>2 DEF ClientStep, Endings
<1>3. CASE ServerStep
  <2>1. CASE Authenticate \/ Register \/ Hook \/ Switch
    BY <2>1, SealedStays DEF Authenticate, Register, Hook, Switch, HandshakeEnds, Packet, connVars, restVars, replayVars
  <2>2. CASE SendOK
    <3>1. Frame("ok") \in Sent("srv")
      BY FrameSent DEF Kinds
    <3>. QED BY <2>2, <3>1, SealedEnqueue, SealedStays DEF SendOK, HandshakeEnds, Packet, restVars, replayVars
  <2>3. CASE Reject
    <3>1. Frame("err") \in Sent("srv")
      BY FrameSent DEF Kinds
    <3>2. UNCHANGED <<sendQ, batch, held, sendCounter>>
      BY <2>3 DEF Reject, HandshakeEnds, replayVars
    <3>3. net' = net \/ net' = [net EXCEPT !["srv"] = Append(net["srv"], Frame("err"))]
      BY <2>3 DEF Reject
    <3>. QED BY <3>1, <3>2, <3>3, SealedPipe, SealedStays DEF Packet
  <2>. QED BY <1>3, <2>1, <2>2, <2>3 DEF ServerStep
<1>4. ASSUME NEW e \in Ends, Reading(e) \/ Writing(e) \/ CloseEnds(e)
      PROVE  Sealed'
  <2>1. CASE ReadEnds(e) \/ WriteFails(e)
    BY <2>1, SealedStays DEF ReadEnds, WriteFails, Packet, restVars, replayVars
  <2>2. CASE DispatchBeat(e)
    BY <2>2, SealedTake DEF Dispatching, DispatchBeat, restVars, replayVars
  <2>3. CASE e = "srv" /\ (DispatchAsk \/ DispatchUp)
    BY <2>3, SealedTake DEF Dispatching, DispatchAsk, DispatchUp, replayVars
  <2>4. CASE e = "cli" /\ DispatchAnswer
    BY <2>4, SealedTake DEF Dispatching, DispatchAnswer, replayVars
  <2>5. CASE e = "cli" /\ DispatchDown
    <3>1. UNCHANGED sendCounter
      BY <2>5 DEF DispatchDown, Decrypt, Refuse, Accept, Rollback, replayVars
    <3>. QED BY <2>5, <3>1, SealedTake DEF DispatchDown, Dispatching
  <2>6. CASE CloseEnds(e)
    <3>1. Peer(e) \in Ends /\ Peer(Peer(e)) = e
      BY DEF Peer
    <3>. QED BY <2>6, <3>1, SealedPipe DEF CloseEnds, replayVars
  <2>. QED BY <1>4, <2>1, <2>2, <2>3, <2>4, <2>5, <2>6, SealedDequeue, SealedRead DEF Reading, Writing
<1>5. CASE Packets
  <2>1. CASE SendUp
    <3>1. Frame("data") \in Sent("cli")
      BY FrameSent DEF Kinds
    <3>. QED BY <2>1, <3>1, SealedEnqueue DEF SendUp, restVars, replayVars
  <2>2. ASSUME NEW s \in Senders, SendDown(s)
        PROVE  Sealed'
    <3>1. [t |-> "data", ctr |-> held[s] - 1] \in Sent("srv")
      <4>1. held[s] - 1 \in Nat /\ held[s] - 1 < sendCounter
        BY <2>2, ReplayAssumption DEF Sealed, SendDown
      <4>. QED BY <4>1 DEF Sent, Frames, Kinds
    <3>2. Sealed /\ UNCHANGED <<net, batch, sendCounter>>
      BY <2>2 DEF SendDown, replayVars
    <3>3. held' \in [Senders -> Nat] /\ \A r \in Senders : held'[r] <= sendCounter
      BY <2>2, ReplayAssumption DEF Sealed, SendDown
    <3>4. /\ sendQ' \in [Ends -> Seq(Frames)]
          /\ \A e \in Ends : sendQ'[e] \in Seq(Sent(e))
      <4>1. CASE sendQ' = sendQ
        BY <4>1 DEF Sealed
      <4>2. CASE Enqueue("srv", [t |-> "data", ctr |-> held[s] - 1])
        BY <4>2, <3>1 DEF Sealed, Enqueue, Sent
      <4>. QED BY <2>2, <4>1, <4>2 DEF SendDown
    <3>. QED BY <3>2, <3>3, <3>4 DEF Sealed, Sent
  <2>3. ASSUME NEW s \in Senders, Seal(s)
        PROVE  Sealed'
    BY <2>3, SealedSeal
  <2>. QED BY <1>5, <2>1, <2>2, <2>3 DEF Packets
<1>6. CASE Beating
  <2>1. CASE NetworkCut
    <3>1. UNCHANGED <<sendQ, batch, held, sendCounter>> /\ net' = [e \in Ends |-> <<>>]
      BY <2>1 DEF NetworkCut, replayVars
    <3>. QED BY <3>1 DEF Sealed, Sent
  <2>2. ASSUME NEW e \in Ends, Heartbeat(e)
        PROVE  Sealed'
    <3>1. Frame("beat") \in Sent(e)
      BY FrameSent DEF Kinds
    <3>2. UNCHANGED <<net, batch, held, sendCounter>> /\ (Enqueue(e, Frame("beat")) \/ UNCHANGED sendQ)
      BY <2>2 DEF Heartbeat, restVars, replayVars
    <3>. QED BY <3>1, <3>2, SealedEnqueue, SealedStays DEF Packet
  <2>. QED BY <1>6, <2>1, <2>2 DEF Beating
<1>7. CASE UNCHANGED trVars
  BY <1>7, SealedStays DEF trVars, connVars, restVars, replayVars, Packet
<1>. QED BY <1>1, <1>2, <1>3, <1>4, <1>5, <1>6, <1>7 DEF TrNext, Common

(* A step seals a packet, opens one that was sealed, or is none of the     *)
(* filter's.                                                               *)
LEMMA StepImplements == Sealed /\ [TrNext]_trVars => [ReplayNext]_replayVars
<1>. SUFFICES ASSUME Sealed, [TrNext]_trVars, ~UNCHANGED replayVars PROVE ReplayNext
  OBVIOUS
<1>1. (\E s \in Senders : Seal(s)) \/ DispatchDown
  <2>1. ~UNCHANGED trVars
    BY DEF trVars
  <2>2. ~(Dialling \/ ClientStep \/ HandshakeTimeout \/ ServerStep \/ Endings \/ Beating)
    BY DEF Dialling, CheckAccept, WriteRejectBanner, Peek, ClientTLSFails, ServerTLSFails, Connected, Attach,
       ClientStep, Ask, Answered, Setup, PolicyDone, HandshakeTimeout, ServerStep, Authenticate, Register,
       Hook, SendOK, Switch, Reject, Endings, ClientStops, Displaced, Beating, NetworkCut, Heartbeat
  <2>3. \A e \in Ends : ~(Read(e) \/ ReadEnds(e) \/ DispatchBeat(e) \/ Writing(e) \/ CloseEnds(e))
    BY DEF Read, ReadEnds, DispatchBeat, Writing, WriteFrame, WriteFails, CloseEnds
  <2>4. ~(DispatchAsk \/ DispatchUp \/ DispatchAnswer \/ SendUp) /\ \A s \in Senders : ~SendDown(s)
    BY DEF DispatchAsk, DispatchUp, DispatchAnswer, SendUp, SendDown
  <2>. QED BY <2>1, <2>2, <2>3, <2>4 DEF TrNext, Common, Reading, Packets
<1>2. ASSUME NEW s \in Senders, Seal(s) PROVE ReplayNext
  BY <1>2 DEF Seal, ReplayNext
<1>3. CASE DispatchDown
  <2>. DEFINE f == Head(batch["cli"])
  <2>1. Decrypt(f.ctr, TRUE) /\ f.t = "data" /\ batch["cli"] # <<>>
    <3>1. Decrypt(f.ctr, TRUE) /\ f.t = "data"
      BY <1>3 DEF DispatchDown, Dispatching
    <3>. QED BY <1>3, <3>1 DEF DispatchDown, Dispatching
  <2>2. batch["cli"] \in Seq(Sent("srv"))
    BY DEF Sealed, Ends, Peer
  <2>3. f \in Sent("srv")
    BY <2>1, <2>2
  <2>4. f.ctr \in Counters /\ f.ctr < sendCounter
    BY <2>1, <2>3, ReplayAssumption DEF Sent, Frames, Counters, Sealed
  <2>. QED BY <2>1, <2>4 DEF ReplayNext
<1>. QED BY <1>1, <1>2, <1>3

(* The connection, with its queues, pipes and goroutines, implements the   *)
(* filter's specification: what sendToAccount seals and the client opens   *)
(* is a packet's life there (route.go, wg_crypto.go).                      *)
THEOREM TransportImplements == TrSpec => ReplaySpec
<1>1. TrInit => ReplayInit
  BY DEF TrInit
<1>. QED BY <1>1, SealedInitial, SealedStep, StepImplements, PTL DEF TrSpec, ReplaySpec

(* So every packet of the server reaches the client's TUN at most once.    *)
THEOREM TransportPacketsOnce == TrSpec => []PacketsOnce
BY TransportImplements, FilterCorrect, PTL

-----------------------------------------------------------------------------
(* Types, variable by variable: the callbacks, the queues and pipes, the   *)
(* clocks, and the rest.                                                   *)
Callbacks == [data : {"none", "once", "fired", "tunnel"}, hs : {"none", "answer", "postAuth"},
              close : {"none", "remove"}]
CallbacksOK == cb \in [Ends -> Callbacks]

RoomOK == \A e \in Ends : Len(sendQ[e]) <= QueueSize /\ Len(net[e]) <= PipeSize

ClocksOK == quiet \in [Ends -> [hb : 0..Silence + 1, read : 0..Silence + 1]]

ClientOK  == cl \in {"peek", "tls", "ask", "wait", "setup", "policy", "run", "end"}
ServerOK  == sv \in Refusals \cup {"accept", "tls", "accepted", "attached", "auth", "register", "hook",
                                  "answer", "switch", "reject", "serve", "over", "gone"}
PrefaceOK == preface \in Refusals \cup {"none"}
DialErrOK == dialErr \in Refusals \cup {"none", "closed", "plaintext", "tls"}
StatesOK  == st \in [Ends -> {"none", "open", "closing", "closed"}]
ReadersOK == rd \in [Ends -> {"read", "batch", "handshake", "gone"}]
FlagsOK   == cut \in BOOLEAN /\ paused \in BOOLEAN /\ registered \in BOOLEAN
OutcomesOK == decision \in {"none", "accepted", "refused"} /\ answer \in {"none", "ok", "err"}
LostOK    == lost \subseteq {"ask", "up", "down", "answer"}

PlainOK ==
    /\ ClientOK /\ ServerOK /\ PrefaceOK /\ DialErrOK /\ StatesOK
    /\ ReadersOK /\ FlagsOK /\ OutcomesOK /\ LostOK

HeldOK == held \in [Senders -> 0..Limit]

LEMMA TypesAre ==
  TransportTypeOK <=> PlainOK /\ CallbacksOK /\ RoomOK /\ ClocksOK /\ HeldOK /\ ReplayTypeOK
BY DEF TransportTypeOK, PlainOK, ClientOK, ServerOK, PrefaceOK, DialErrOK, StatesOK, ReadersOK, FlagsOK,
       OutcomesOK, LostOK, CallbacksOK, Callbacks, RoomOK, ClocksOK, HeldOK

LEMMA SetCallbackTypes ==
  ASSUME CallbacksOK, NEW e, NEW which, NEW fn, SetCallback(e, which, fn),
         \/ which = "data" /\ fn \in {"none", "once", "fired", "tunnel"}
         \/ which = "hs" /\ fn \in {"none", "answer", "postAuth"}
         \/ which = "close" /\ fn = "remove"
  PROVE  CallbacksOK'
<1>1. \A c \in Callbacks : [c EXCEPT ![which] = fn] \in Callbacks
  BY DEF Callbacks
<1>. QED BY <1>1 DEF CallbacksOK, SetCallback

LEMMA CallbacksStep == CallbacksOK /\ [TrNext]_trVars => CallbacksOK'
<1>. SUFFICES ASSUME CallbacksOK, [TrNext]_trVars PROVE CallbacksOK'
  OBVIOUS
<1>1. CASE UNCHANGED cb
  BY <1>1 DEF CallbacksOK
<1>2. CASE Attach \/ Ask \/ Answered \/ Setup \/ Hook \/ Displaced
  BY <1>2, SetCallbackTypes DEF Attach, Ask, Answered, Setup, Hook, Displaced
<1>3. CASE DispatchAsk
  BY <1>1, <1>3, SetCallbackTypes DEF DispatchAsk
<1>4. CASE Switch
  <2>1. \A c \in Callbacks : [c EXCEPT !.data = "tunnel", !.hs = "postAuth"] \in Callbacks
    BY DEF Callbacks
  <2>2. cb' = [cb EXCEPT !["srv"] = [cb["srv"] EXCEPT !.data = "tunnel", !.hs = "postAuth"]]
    BY <1>4 DEF Switch, CallbacksOK, Ends
  <2>. QED BY <2>1, <2>2 DEF CallbacksOK, Ends
<1>5. CASE Dialling /\ ~Attach
  BY <1>1, <1>5 DEF Dialling, CheckAccept, WriteRejectBanner, Peek, ClientTLSFails, ServerTLSFails, Connected, connVars
<1>6. CASE PolicyDone \/ HandshakeTimeout \/ ClientStops \/ Authenticate \/ Register \/ SendOK \/ Reject
  BY <1>1, <1>6 DEF PolicyDone, HandshakeTimeout, ClientStops, Authenticate, Register, SendOK, Reject, connVars
<1>7. ASSUME NEW e \in Ends, Reading(e) \/ Writing(e) \/ CloseEnds(e), ~DispatchAsk PROVE CallbacksOK'
  BY <1>1, <1>7 DEF Reading, Writing, Read, ReadEnds, DispatchBeat, DispatchUp, DispatchAnswer, DispatchDown,
     WriteFrame, WriteFails, CloseEnds
<1>8. CASE Packets \/ Beating
  BY <1>1, <1>8 DEF Packets, SendUp, Seal, SendDown, Beating, NetworkCut, Heartbeat, connVars
<1>9. CASE UNCHANGED trVars
  BY <1>1, <1>9 DEF trVars, connVars
<1>. QED BY <1>2, <1>3, <1>4, <1>5, <1>6, <1>7, <1>8, <1>9
         DEF TrNext, Common, ClientStep, ServerStep, Endings

LEMMA ClocksStep == ClocksOK /\ [TrNext]_trVars => ClocksOK'
<1>. SUFFICES ASSUME ClocksOK, [TrNext]_trVars PROVE ClocksOK'
  OBVIOUS
<1>1. CASE UNCHANGED quiet
  BY <1>1 DEF ClocksOK
<1>2. ASSUME NEW e \in Ends, TakeFrame(e) PROVE ClocksOK'
  <2>1. \A q \in [hb : 0..Silence + 1, read : 0..Silence + 1] :
          [q EXCEPT !.hb = 0] \in [hb : 0..Silence + 1, read : 0..Silence + 1]
    BY TransportAssumption
  <2>. QED BY <1>2, <2>1 DEF TakeFrame, ClocksOK
<1>3. ASSUME NEW e \in Ends, Heartbeat(e) PROVE ClocksOK'
  <2>. DEFINE older == [hb |-> IF quiet[e].hb > Silence THEN quiet[e].hb ELSE quiet[e].hb + 1,
                        read |-> IF quiet[e].read > Silence THEN quiet[e].read ELSE quiet[e].read + 1]
  <2>1. older \in [hb : 0..Silence + 1, read : 0..Silence + 1]
    BY TransportAssumption DEF ClocksOK
  <2>2. quiet' = [quiet EXCEPT ![e] = older]
    BY <1>3 DEF Heartbeat
  <2>. QED BY <2>1, <2>2 DEF ClocksOK
<1>4. CASE Dialling \/ ServerStep \/ Endings
  BY <1>1, <1>4 DEF Dialling, CheckAccept, WriteRejectBanner, Peek, ClientTLSFails, ServerTLSFails, Connected, Attach,
     ServerStep, Authenticate, Register, Hook, SendOK, Switch, Reject, Endings, ClientStops, Displaced, connVars
<1>5. CASE ClientStep \/ HandshakeTimeout
  <2>1. CASE PolicyDone
    BY <2>1, TransportAssumption DEF PolicyDone, ClocksOK, Ends
  <2>. QED BY <1>1, <1>5, <2>1 DEF ClientStep, Ask, Answered, Setup, HandshakeTimeout
<1>6. ASSUME NEW e \in Ends, Reading(e) \/ Writing(e) \/ CloseEnds(e) PROVE ClocksOK'
  <2>1. CASE Read(e)
    BY <2>1, TransportAssumption DEF Read, ClocksOK
  <2>2. CASE ReadEnds(e) \/ Writing(e) \/ CloseEnds(e)
    BY <1>1, <2>2 DEF ReadEnds, Writing, WriteFrame, WriteFails, CloseEnds
  <2>. QED BY <1>2, <1>6, <2>1, <2>2 DEF Reading, DispatchBeat, DispatchAsk, DispatchUp, DispatchAnswer, DispatchDown, Ends
<1>7. CASE Packets \/ NetworkCut
  BY <1>1, <1>7 DEF Packets, SendUp, Seal, SendDown, NetworkCut, connVars
<1>8. CASE UNCHANGED trVars
  BY <1>1, <1>8 DEF trVars, connVars
<1>. QED BY <1>3, <1>4, <1>5, <1>6, <1>7, <1>8 DEF TrNext, Common, Beating

(* The rest, which every action may set. *)
LEMMA PlainStep == PlainOK /\ [TrNext]_trVars => PlainOK'
<1>. SUFFICES ASSUME PlainOK, [TrNext]_trVars PROVE PlainOK'
  OBVIOUS
<1>. USE DEF TrNext, Common, Dialling, ClientStep, ServerStep, Reading, Writing, Packets, Beating, Endings,
        CheckAccept, WriteRejectBanner, Peek, PeekOutcome, ClientTLSFails, ServerTLSFails, Connected, Attach,
        Ask, Answered, Setup, PolicyDone, HandshakeTimeout, ClientStops, Authenticate, Register, Hook, SendOK,
        Switch, Reject, HandshakeEnds, Displaced, Read, ReadEnds, DispatchBeat, DispatchAsk, DispatchUp,
        DispatchAnswer, DispatchDown, Resume, Lose, WriteFrame, WriteFails, CloseEnds, RunOnClose, BeginClose,
        SendUp, Seal, SendDown, NetworkCut, Heartbeat, Refusals, dialVars, connVars, restVars, trVars
<1>1. ClientOK'
  BY ZenonT(60) DEF PlainOK, ClientOK
<1>2. ServerOK'
  BY DEF PlainOK, ServerOK
<1>3. PrefaceOK'
  BY DEF PlainOK, PrefaceOK
<1>4. DialErrOK'
  BY DEF PlainOK, PrefaceOK, DialErrOK
<1>5. StatesOK'
  BY DEF PlainOK, StatesOK
<1>6. ReadersOK'
  BY DEF PlainOK, ReadersOK
<1>7. FlagsOK'
  BY ZenonT(60) DEF PlainOK, FlagsOK
<1>8. OutcomesOK'
  BY DEF PlainOK, OutcomesOK
<1>9. LostOK'
  BY DEF PlainOK, LostOK
<1>. QED BY <1>1, <1>2, <1>3, <1>4, <1>5, <1>6, <1>7, <1>8, <1>9 DEF PlainOK

LEMMA HeldStep == Sealed /\ HeldOK /\ [TrNext]_trVars => HeldOK'
<1>. SUFFICES ASSUME Sealed, HeldOK, [TrNext]_trVars PROVE HeldOK'
  OBVIOUS
<1>1. CASE UNCHANGED held
  BY <1>1 DEF HeldOK
<1>2. ASSUME NEW s \in Senders, Seal(s) \/ SendDown(s) PROVE HeldOK'
  <2>1. \E k \in 0..Limit : held' = [held EXCEPT ![s] = k]
    BY <1>2, ReplayAssumption DEF Seal, SendDown, Encrypt, Sealed
  <2>. QED BY <2>1 DEF HeldOK
<1>3. CASE Dialling \/ ClientStep \/ HandshakeTimeout \/ Endings \/ ServerStep
  BY <1>1, <1>3 DEF Dialling, CheckAccept, WriteRejectBanner, Peek, ClientTLSFails, ServerTLSFails, Connected, Attach,
     ClientStep, Ask, Answered, Setup, PolicyDone, HandshakeTimeout, Endings, ClientStops, Displaced,
     ServerStep, Authenticate, Register, Hook, SendOK, Switch, Reject, restVars
<1>4. ASSUME NEW e \in Ends, Reading(e) \/ Writing(e) \/ CloseEnds(e) PROVE HeldOK'
  BY <1>1, <1>4 DEF Reading, Writing, Read, ReadEnds, DispatchBeat, DispatchAsk, DispatchUp, DispatchAnswer, DispatchDown,
     WriteFrame, WriteFails, CloseEnds, restVars
<1>5. CASE SendUp \/ Beating \/ UNCHANGED trVars
  BY <1>1, <1>5 DEF SendUp, Beating, NetworkCut, Heartbeat, trVars, restVars
<1>. QED BY <1>2, <1>3, <1>4, <1>5 DEF TrNext, Common, Packets

LEMMA EnqueueRoom ==
  ASSUME Sealed, RoomOK, NEW e \in Ends, NEW f \in Frames, Room(e), Enqueue(e, f), UNCHANGED net
  PROVE  RoomOK'
<1>1. \A d \in Ends : sendQ[d] \in Seq(Frames) /\ Len(sendQ[d]) <= QueueSize
  BY DEF Sealed, RoomOK
<1>2. Len(Append(sendQ[e], f)) = Len(sendQ[e]) + 1
  BY <1>1
<1>. QED BY <1>1, <1>2, TransportAssumption DEF Room, Enqueue, Sealed, RoomOK

LEMMA RoomStep == Sealed /\ RoomOK /\ [TrNext]_trVars => RoomOK'
<1>. SUFFICES ASSUME Sealed, RoomOK, [TrNext]_trVars PROVE RoomOK'
  OBVIOUS
<1>0. CASE UNCHANGED <<sendQ, net>>
  BY <1>0 DEF RoomOK
<1>1. \A d \in Ends : sendQ[d] \in Seq(Frames) /\ net[d] \in Seq(Frames)
  BY DEF Sealed
<1>2. CASE Dialling \/ HandshakeTimeout \/ Endings \/ UNCHANGED trVars
  BY <1>0, <1>2 DEF Dialling, CheckAccept, WriteRejectBanner, Peek, ClientTLSFails, ServerTLSFails, Connected, Attach,
     HandshakeTimeout, Endings, ClientStops, Displaced, connVars, trVars
<1>3. CASE ClientStep \/ SendUp
  <2>1. Frame("ask") \in Frames /\ Frame("data") \in Frames
    BY DEF Frame, Frames, Kinds
  <2>. QED BY <1>0, <1>3, <2>1, EnqueueRoom DEF ClientStep, Ask, Answered, Setup, PolicyDone, SendUp, Ends
<1>4. CASE ServerStep
  <2>1. Frame("ok") \in Frames /\ Frame("err") \in Frames
    BY DEF Frame, Frames, Kinds
  <2>2. CASE Reject
    <3>1. Len(Append(net["srv"], Frame("err"))) = Len(net["srv"]) + 1
      BY <1>1, <2>1 DEF Ends
    <3>2. UNCHANGED sendQ /\ (UNCHANGED net \/ (Len(net["srv"]) < PipeSize
                                               /\ net' = [net EXCEPT !["srv"] = Append(@, Frame("err"))]))
      BY <2>2 DEF Reject
    <3>. QED BY <1>1, <3>1, <3>2, TransportAssumption DEF RoomOK, Ends, Sealed
  <2>. QED BY <1>0, <1>4, <2>1, <2>2, EnqueueRoom DEF ServerStep, Authenticate, Register, Hook, SendOK, Switch, connVars, Ends
<1>5. ASSUME NEW e \in Ends, Writing(e) PROVE RoomOK'
  <2>1. CASE WriteFrame(e)
    <3>1. sendQ[e] # <<>> /\ Len(Tail(sendQ[e])) = Len(sendQ[e]) - 1
          /\ Len(Append(net[e], Head(sendQ[e]))) = Len(net[e]) + 1
      BY <1>1, <2>1 DEF WriteFrame
    <3>2. \A d \in Ends : Len(sendQ'[d]) <= QueueSize
      BY <1>1, <2>1, <3>1, TransportAssumption DEF WriteFrame, RoomOK, Sealed
    <3>3. UNCHANGED net \/ (Len(net[e]) < PipeSize /\ net' = [net EXCEPT ![e] = Append(@, Head(sendQ[e]))])
      BY <2>1 DEF WriteFrame
    <3>4. \A d \in Ends : Len(net'[d]) <= PipeSize
      <4>1. CASE UNCHANGED net
        BY <4>1 DEF RoomOK
      <4>2. CASE Len(net[e]) < PipeSize /\ net' = [net EXCEPT ![e] = Append(@, Head(sendQ[e]))]
        <5>1. Len(net[e]) + 1 <= PipeSize
          BY <1>1, <4>2, TransportAssumption
        <5>2. net'[e] = Append(net[e], Head(sendQ[e])) /\ \A d \in Ends \ {e} : net'[d] = net[d]
          BY <4>2 DEF Sealed
        <5>. QED BY <3>1, <5>1, <5>2 DEF RoomOK
      <4>. QED BY <3>3, <4>1, <4>2
    <3>. QED BY <3>2, <3>4 DEF RoomOK
  <2>. QED BY <1>0, <1>5, <2>1 DEF Writing, WriteFails
<1>6. ASSUME NEW e \in Ends, CloseEnds(e) PROVE RoomOK'
  BY <1>6, TransportAssumption DEF CloseEnds, RoomOK, Sealed
<1>7. ASSUME NEW e \in Ends, Reading(e) PROVE RoomOK'
  <2>1. CASE Read(e)
    <3>1. PICK k \in {1, Len(net[Peer(e)])} :
            net' = [net EXCEPT ![Peer(e)] = SubSeq(net[Peer(e)], k + 1, Len(net[Peer(e)]))]
      BY <2>1 DEF Read
    <3>2. net[Peer(e)] \in Seq(Frames) /\ net[Peer(e)] # <<>> /\ UNCHANGED sendQ
      BY <1>1, <2>1 DEF Read, Ends, Peer
    <3>3. Len(SubSeq(net[Peer(e)], k + 1, Len(net[Peer(e)]))) <= Len(net[Peer(e)])
      BY <3>2
    <3>. QED BY <1>1, <3>1, <3>2, <3>3, TransportAssumption DEF RoomOK, Sealed, Ends, Peer
  <2>. QED BY <1>0, <1>7, <2>1 DEF Reading, ReadEnds, DispatchBeat, DispatchAsk, DispatchUp, DispatchAnswer, DispatchDown
<1>8. ASSUME NEW s \in Senders, Seal(s) \/ SendDown(s) PROVE RoomOK'
  <2>1. CASE SendDown(s) /\ sendQ' # sendQ
    <3>1. [t |-> "data", ctr |-> held[s] - 1] \in Frames
      BY <2>1, ReplayAssumption DEF SendDown, Sealed, Frames, Kinds
    <3>. QED BY <2>1, <3>1, EnqueueRoom DEF SendDown, Ends
  <2>. QED BY <1>0, <1>8, <2>1 DEF Seal, SendDown, connVars
<1>9. CASE Beating
  <2>1. Frame("beat") \in Frames
    BY DEF Frame, Frames, Kinds
  <2>2. CASE NetworkCut
    BY <2>2, TransportAssumption DEF NetworkCut, RoomOK, Sealed
  <2>. QED BY <1>0, <1>9, <2>1, <2>2, EnqueueRoom DEF Beating, Heartbeat
<1>. QED BY <1>2, <1>3, <1>4, <1>5, <1>6, <1>7, <1>8, <1>9 DEF TrNext, Common, Packets

(* Whatever the parties and the network do, every variable has its type,   *)
(* and no queue or pipe holds more than it may.                            *)
LEMMA TypesStep ==
  TransportTypeOK /\ Sealed /\ ReplayInv /\ [TrNext]_trVars => (TransportTypeOK /\ Sealed /\ ReplayInv)'
<1>. SUFFICES ASSUME TransportTypeOK, Sealed, ReplayInv, [TrNext]_trVars
             PROVE  TransportTypeOK' /\ Sealed' /\ ReplayInv'
  OBVIOUS
<1>1. Sealed' /\ ReplayInv'
  BY SealedStep, StepImplements, ReplayStep
<1>2. ReplayTypeOK'
  BY <1>1 DEF ReplayInv
<1>3. PlainOK' /\ CallbacksOK' /\ RoomOK' /\ ClocksOK' /\ HeldOK'
  BY TypesAre, PlainStep, CallbacksStep, RoomStep, ClocksStep, HeldStep
<1>4. TransportTypeOK'
  BY <1>2, <1>3 DEF TransportTypeOK, PlainOK, ClientOK, ServerOK, PrefaceOK, DialErrOK, StatesOK, ReadersOK, FlagsOK,
       OutcomesOK, LostOK, CallbacksOK, Callbacks, RoomOK, ClocksOK, HeldOK
<1>. QED BY <1>1, <1>4

LEMMA TypesInitial == TrInit => TransportTypeOK /\ Sealed /\ ReplayInv
<1>. SUFFICES ASSUME TrInit PROVE TransportTypeOK
  BY SealedInitial, ReplayInitial DEF TrInit
<1>1. PlainOK
  BY DEF TrInit, PlainOK, ClientOK, ServerOK, PrefaceOK, DialErrOK, StatesOK, ReadersOK, FlagsOK, OutcomesOK, LostOK
<1>4. CallbacksOK /\ HeldOK
  BY ReplayAssumption DEF TrInit, CallbacksOK, Callbacks, NoCallbacks, HeldOK
<1>2. RoomOK /\ ClocksOK
  BY TransportAssumption DEF TrInit, RoomOK, ClocksOK
<1>3. ReplayTypeOK
  BY ReplayInitial DEF TrInit, ReplayInv
<1>. QED BY <1>1, <1>2, <1>3, <1>4, TypesAre

(* The goroutines of both ends keep their states, and what SendRaw queues  *)
(* and the sockets hold stays within its bounds (conn.go).                 *)
THEOREM TransportTyped == TrSpec => []TransportTypeOK
BY TypesInitial, TypesStep, PTL DEF TrSpec

-----------------------------------------------------------------------------
(***************************************************************************)
(* Answers.  The decision is taken once, by the handshake on the reading   *)
(* goroutine (OneDecision); it is announced by one frame, which is on its  *)
(* way at one place or has been read, by a client that had asked           *)
(* (OneAnswer); and the client sends packets only after an ok, which the   *)
(* server reads when it has switched (the last conjuncts of both).         *)
(***************************************************************************)
Deciding == {"auth", "register", "hook", "answer", "switch", "reject"}

IsAnswer(f) == f.t \in {"ok", "err"}

Carries(q, t) == \E i \in 1..Len(q) : q[i].t = t
HasAnswer(q)  == \E i \in 1..Len(q) : IsAnswer(q[i])
OneIn(q)      == \A i, j \in 1..Len(q) : IsAnswer(q[i]) /\ IsAnswer(q[j]) => i = j

(* A frame of an end is queued, in the pipe, or read.                      *)
OnWay(e, t) == Carries(sendQ[e], t) \/ Carries(net[e], t) \/ Carries(batch[Peer(e)], t)

AnswerOnWay == OnWay("srv", "ok") \/ OnWay("srv", "err")

AtMostOne ==
    /\ OneIn(sendQ["srv"]) /\ OneIn(net["srv"]) /\ OneIn(batch["cli"])
    /\ HasAnswer(sendQ["srv"]) => ~HasAnswer(net["srv"]) /\ ~HasAnswer(batch["cli"])
    /\ HasAnswer(net["srv"]) => ~HasAnswer(batch["cli"])

Asked == cb["cli"].hs = "answer" \/ answer # "none"

DialTold ==
    /\ cl \in {"peek", "tls"} => st["cli"] = "none"
    /\ dialErr # "none" =>
        /\ cl = "end" /\ sv = "gone" /\ st["cli"] = "none"
        /\ dialErr \in Refusals => preface = dialErr
        /\ dialErr = "plaintext" => preface # "none"

OneDecision ==
    /\ decision = "accepted" <=> sv \in {"switch", "serve"}
    /\ decision = "refused" => sv = "over"
    /\ cb["srv"].data = "once" => sv = "attached"
    /\ registered => sv \in {"hook", "answer", "switch", "serve"}
    /\ sv \in Deciding => rd["srv"] = "handshake"
    /\ registered /\ sv = "serve" => cb["srv"].data = "tunnel"

OneAnswer ==
    /\ OnWay("cli", "ask") \/ sv \in Deciding \cup {"serve", "over"} => Asked
    /\ OnWay("srv", "ok") \/ answer = "ok" => decision = "accepted"
    /\ OnWay("srv", "err") \/ answer = "err" => decision = "refused"
    /\ AnswerOnWay => answer = "none"
    /\ OnWay("cli", "data") \/ cl \in {"setup", "policy", "run"} => answer = "ok"

NothingLost == lost \cap {"up", "answer"} = {}

AnswersInv == DialTold /\ OneDecision /\ AtMostOne /\ OneAnswer /\ NothingLost

(* What happens to the frames of a sequence that loses its first one, gets *)
(* one more, or is cut in two.                                             *)
LEMMA TailFrames ==
  ASSUME NEW q \in Seq(Frames), q # <<>>
  PROVE  /\ \A t : Carries(Tail(q), t) => Carries(q, t)
         /\ Carries(q, Head(q).t)
         /\ HasAnswer(Tail(q)) => HasAnswer(q)
         /\ OneIn(q) => OneIn(Tail(q))
         /\ OneIn(q) /\ IsAnswer(Head(q)) => ~HasAnswer(Tail(q))
<1>1. Len(Tail(q)) = Len(q) - 1 /\ Len(q) \in Nat /\ Len(q) >= 1 /\ Head(q) = q[1]
  BY DEF Frames
<1>2. \A i \in 1..Len(Tail(q)) : Tail(q)[i] = q[i + 1] /\ i + 1 \in 1..Len(q)
  BY <1>1
<1>. QED BY <1>1, <1>2 DEF Carries, HasAnswer, OneIn

LEMMA AppendFrame ==
  ASSUME NEW q \in Seq(Frames), NEW f \in Frames
  PROVE  /\ \A t : Carries(Append(q, f), t) => Carries(q, t) \/ f.t = t
         /\ HasAnswer(Append(q, f)) => HasAnswer(q) \/ IsAnswer(f)
         /\ OneIn(q) /\ (IsAnswer(f) => ~HasAnswer(q)) => OneIn(Append(q, f))
<1>1. Len(Append(q, f)) = Len(q) + 1 /\ Len(q) \in Nat /\ Append(q, f)[Len(q) + 1] = f
  OBVIOUS
<1>2. \A i \in 1..Len(q) + 1 : (i \in 1..Len(q) /\ Append(q, f)[i] = q[i]) \/ i = Len(q) + 1
  BY <1>1
<1>. QED BY <1>1, <1>2 DEF Carries, HasAnswer, OneIn

LEMMA CutFrames ==
  ASSUME NEW q \in Seq(Frames), NEW k \in 1..Len(q)
  PROVE  LET a == SubSeq(q, 1, k)
             b == SubSeq(q, k + 1, Len(q))
         IN  /\ \A t : Carries(a, t) \/ Carries(b, t) => Carries(q, t)
             /\ HasAnswer(a) \/ HasAnswer(b) => HasAnswer(q)
             /\ OneIn(q) => OneIn(a) /\ OneIn(b) /\ ~(HasAnswer(a) /\ HasAnswer(b))
<1>. DEFINE a == SubSeq(q, 1, k)
            b == SubSeq(q, k + 1, Len(q))
<1>1. Len(a) = k /\ \A i \in 1..Len(a) : a[i] = q[i] /\ i \in 1..Len(q) /\ i <= k
  OBVIOUS
<1>2. Len(b) = Len(q) - k /\ \A i \in 1..Len(b) : b[i] = q[i + k] /\ i + k \in 1..Len(q) /\ i + k > k
  OBVIOUS
<1>. HIDE DEF a, b
<1>3. \A i \in 1..Len(b), j \in 1..Len(b) : i + k = j + k => i = j
  BY <1>2
<1>4. /\ \A t : Carries(a, t) \/ Carries(b, t) => Carries(q, t)
      /\ HasAnswer(a) \/ HasAnswer(b) => HasAnswer(q)
  BY <1>1, <1>2 DEF Carries, HasAnswer
<1>5. ASSUME OneIn(q) PROVE OneIn(a) /\ OneIn(b) /\ ~(HasAnswer(a) /\ HasAnswer(b))
  <2>1. OneIn(a)
    BY <1>1, <1>5 DEF OneIn
  <2>2. OneIn(b)
    <3> SUFFICES ASSUME NEW i \in 1..Len(b), NEW j \in 1..Len(b), IsAnswer(b[i]), IsAnswer(b[j]) PROVE i = j
      BY DEF OneIn
    <3>1. i + k = j + k
      BY <1>2, <1>5 DEF OneIn
    <3>. QED BY <1>3, <3>1
  <2>3. ASSUME NEW i \in 1..Len(a), NEW j \in 1..Len(b), IsAnswer(a[i]), IsAnswer(b[j]) PROVE FALSE
    <3>1. i = j + k
      BY <1>1, <1>2, <1>5, <2>3 DEF OneIn
    <3>. QED BY <1>1, <1>2, <3>1
  <2>. QED BY <2>1, <2>2, <2>3 DEF HasAnswer
<1>. QED BY <1>4, <1>5 DEF a, b

LEMMA NoFrames == HasAnswer(<<>>) = FALSE /\ OneIn(<<>>) /\ \A t : ~Carries(<<>>, t)
BY DEF HasAnswer, OneIn, Carries

(* No step but an enqueueing one puts a frame on its way.                  *)
NoNewFrame ==
    /\ \A d \in Ends : \A t : (OnWay(d, t))' => OnWay(d, t)
    /\ AtMostOne => AtMostOne'

LEMMA FramesStay == UNCHANGED <<sendQ, net, batch>> => NoNewFrame
BY DEF NoNewFrame, OnWay, AtMostOne

LEMMA FramesWritten ==
  ASSUME Sealed, NEW e \in Ends, WriteFrame(e)
  PROVE  NoNewFrame
<1>. DEFINE f == Head(sendQ[e])
<1>1. sendQ[e] \in Seq(Frames) /\ sendQ[e] # <<>> /\ net[e] \in Seq(Frames) /\ f \in Frames
  BY DEF Sealed, WriteFrame
<1>2. /\ sendQ' = [sendQ EXCEPT ![e] = Tail(sendQ[e])] /\ UNCHANGED batch
      /\ UNCHANGED net \/ net' = [net EXCEPT ![e] = Append(net[e], f)]
  BY DEF WriteFrame
<1>3. /\ \A d \in Ends \ {e} : sendQ'[d] = sendQ[d] /\ net'[d] = net[d]
      /\ sendQ'[e] = Tail(sendQ[e]) /\ (net'[e] = net[e] \/ net'[e] = Append(net[e], f))
  BY <1>2 DEF Sealed
<1>4. IsAnswer(f) => HasAnswer(sendQ[e])
  BY <1>1, TailFrames DEF HasAnswer, Carries, IsAnswer
<1>t. /\ \A t : Carries(Tail(sendQ[e]), t) => Carries(sendQ[e], t)
      /\ Carries(sendQ[e], f.t)
      /\ HasAnswer(Tail(sendQ[e])) => HasAnswer(sendQ[e])
      /\ OneIn(sendQ[e]) => OneIn(Tail(sendQ[e])) /\ (IsAnswer(f) => ~HasAnswer(Tail(sendQ[e])))
  BY <1>1, TailFrames
<1>a. /\ \A t : Carries(Append(net[e], f), t) => Carries(net[e], t) \/ f.t = t
      /\ HasAnswer(Append(net[e], f)) => HasAnswer(net[e]) \/ IsAnswer(f)
      /\ OneIn(net[e]) /\ (IsAnswer(f) => ~HasAnswer(net[e])) => OneIn(Append(net[e], f))
  BY <1>1, AppendFrame
<1>5. \A d \in Ends : \A t : (OnWay(d, t))' => OnWay(d, t)
  <2> SUFFICES ASSUME NEW d \in Ends, NEW t, (OnWay(d, t))' PROVE OnWay(d, t)
    OBVIOUS
  <2>1. CASE d = e
    BY <1>2, <1>3, <1>t, <1>a, <2>1 DEF OnWay
  <2>2. CASE d # e
    BY <1>2, <1>3, <2>2 DEF OnWay
  <2>. QED BY <2>1, <2>2
<1>6. AtMostOne => AtMostOne'
  <2>1. CASE e = "srv"
    BY <1>2, <1>3, <1>4, <1>t, <1>a, <2>1 DEF AtMostOne
  <2>2. CASE e # "srv"
    BY <1>2, <1>3, <2>2 DEF AtMostOne, Ends
  <2>. QED BY <2>1, <2>2
<1>. QED BY <1>5, <1>6 DEF NoNewFrame

LEMMA FramesRead ==
  ASSUME Sealed, NEW e \in Ends, Read(e)
  PROVE  NoNewFrame
<1>. DEFINE p == Peer(e)
            q == net[p]
<1>1. p \in Ends /\ Peer(p) = e /\ (e = "cli" <=> p = "srv") /\ \A d \in Ends \ {p} : Peer(d) # e
  BY DEF Ends, Peer
<1>2. q \in Seq(Frames) /\ q # <<>>
  BY <1>1 DEF Sealed, Read
<1>3. PICK k \in 1..Len(q) : /\ batch' = [batch EXCEPT ![e] = SubSeq(q, 1, k)]
                             /\ net' = [net EXCEPT ![p] = SubSeq(q, k + 1, Len(q))]
  <2>1. 1 \in 1..Len(q) /\ Len(q) \in 1..Len(q)
    BY <1>2
  <2>2. PICK k \in {1, Len(q)} : /\ batch' = [batch EXCEPT ![e] = SubSeq(q, 1, k)]
                                 /\ net' = [net EXCEPT ![p] = SubSeq(q, k + 1, Len(q))]
    BY DEF Read
  <2>. QED BY <2>1, <2>2
<1>c. /\ \A t : Carries(SubSeq(q, 1, k), t) \/ Carries(SubSeq(q, k + 1, Len(q)), t) => Carries(q, t)
      /\ HasAnswer(SubSeq(q, 1, k)) \/ HasAnswer(SubSeq(q, k + 1, Len(q))) => HasAnswer(q)
      /\ OneIn(q) => /\ OneIn(SubSeq(q, 1, k)) /\ OneIn(SubSeq(q, k + 1, Len(q)))
                     /\ ~(HasAnswer(SubSeq(q, 1, k)) /\ HasAnswer(SubSeq(q, k + 1, Len(q))))
  BY <1>2, CutFrames
<1>4. /\ batch'[e] = SubSeq(q, 1, k) /\ net'[p] = SubSeq(q, k + 1, Len(q))
      /\ \A d \in Ends \ {e} : batch'[d] = batch[d]
      /\ \A d \in Ends \ {p} : net'[d] = net[d]
      /\ UNCHANGED sendQ
  BY <1>1, <1>3 DEF Read, Sealed
<1>5. \A d \in Ends : Peer(d) \in Ends
  BY DEF Ends, Peer
<1>6. \A d \in Ends : \A t : (OnWay(d, t))' => OnWay(d, t)
  <2> SUFFICES ASSUME NEW d \in Ends, NEW t, (OnWay(d, t))' PROVE OnWay(d, t)
    OBVIOUS
  <2>1. CASE d = p
    BY <1>1, <1>4, <1>c, <2>1 DEF OnWay
  <2>2. CASE d # p
    BY <1>1, <1>4, <1>5, <2>2 DEF OnWay
  <2>. QED BY <2>1, <2>2
<1>7. AtMostOne => AtMostOne'
  <2>1. CASE e = "cli"
    BY <1>1, <1>4, <1>c, <2>1 DEF AtMostOne
  <2>2. CASE e # "cli"
    BY <1>1, <1>4, <2>2 DEF AtMostOne, Ends
  <2>. QED BY <2>1, <2>2
<1>. QED BY <1>6, <1>7 DEF NoNewFrame

LEMMA FrameTaken ==
  ASSUME Sealed, NEW e \in Ends, TakeFrame(e), batch[e] # <<>>, UNCHANGED <<sendQ, net>>
  PROVE  /\ NoNewFrame
         /\ \A d \in Ends : e = Peer(d) => OnWay(d, Head(batch[e]).t)
         /\ AtMostOne /\ e = "cli" /\ IsAnswer(Head(batch[e])) => ~AnswerOnWay'
<1>1. batch[e] \in Seq(Frames) /\ batch'[e] = Tail(batch[e]) /\ \A d \in Ends \ {e} : batch'[d] = batch[d]
  BY DEF Sealed, TakeFrame
<1>2. \A d \in Ends : Peer(d) \in Ends
  BY DEF Ends, Peer
<1>3. \A d \in Ends : \A t : (OnWay(d, t))' => OnWay(d, t)
  BY <1>1, <1>2, TailFrames DEF OnWay
<1>4. AtMostOne => AtMostOne'
  <2>1. CASE e = "cli"
    BY <1>1, <2>1, TailFrames DEF AtMostOne
  <2>2. CASE e # "cli"
    BY <1>1, <2>2 DEF AtMostOne, Ends
  <2>. QED BY <2>1, <2>2
<1>5. \A d \in Ends : e = Peer(d) => OnWay(d, Head(batch[e]).t)
  BY <1>1, TailFrames DEF OnWay
<1>6. ASSUME AtMostOne, e = "cli", IsAnswer(Head(batch[e])) PROVE ~AnswerOnWay'
  <2>1. HasAnswer(batch["cli"]) /\ ~HasAnswer(batch'["cli"])
    BY <1>1, <1>6, TailFrames DEF AtMostOne, HasAnswer, Carries, IsAnswer
  <2>2. ~HasAnswer(sendQ["srv"]) /\ ~HasAnswer(net["srv"])
    BY <1>6, <2>1 DEF AtMostOne
  <2>. QED BY <2>1, <2>2 DEF AnswerOnWay, OnWay, Carries, HasAnswer, IsAnswer, Peer
<1>. QED BY <1>3, <1>4, <1>5, <1>6 DEF NoNewFrame

LEMMA FramesDropped ==
  ASSUME Sealed, UNCHANGED batch,
         \A d \in Ends : sendQ'[d] = sendQ[d] \/ sendQ'[d] = <<>>,
         \A d \in Ends : net'[d] = net[d] \/ net'[d] = <<>>
  PROVE  NoNewFrame
<1>1. \A d \in Ends : \A t : (OnWay(d, t))' => OnWay(d, t)
  BY NoFrames DEF OnWay
<1>2. AtMostOne => AtMostOne'
  BY NoFrames DEF AtMostOne, Ends
<1>. QED BY <1>1, <1>2 DEF NoNewFrame

(* A frame is enqueued, or written past the queue.                         *)
NewFrame(e, f) ==
    /\ \A d \in Ends : \A t : (OnWay(d, t))' => OnWay(d, t) \/ (d = e /\ f.t = t)
    /\ AtMostOne /\ (e = "srv" /\ IsAnswer(f) => ~AnswerOnWay) => AtMostOne'

LEMMA FrameAdded ==
  ASSUME Sealed, NEW e \in Ends, NEW f \in Frames, UNCHANGED batch,
         \/ Enqueue(e, f) /\ UNCHANGED net
         \/ net' = [net EXCEPT ![e] = Append(@, f)] /\ UNCHANGED sendQ
  PROVE  NewFrame(e, f)
<1>1. sendQ[e] \in Seq(Frames) /\ net[e] \in Seq(Frames)
  BY DEF Sealed
<1>2. /\ \A d \in Ends \ {e} : sendQ'[d] = sendQ[d] /\ net'[d] = net[d]
      /\ \/ sendQ'[e] = Append(sendQ[e], f) /\ net'[e] = net[e]
         \/ net'[e] = Append(net[e], f) /\ sendQ'[e] = sendQ[e]
  BY DEF Sealed, Enqueue
<1>3. \A d \in Ends : \A t : (OnWay(d, t))' => OnWay(d, t) \/ (d = e /\ f.t = t)
  <2>1. \A q \in {sendQ[e], net[e]} : \A t : Carries(Append(q, f), t) => Carries(q, t) \/ f.t = t
    BY <1>1, AppendFrame
  <2>. QED BY <1>2, <2>1 DEF OnWay
<1>4. ~AnswerOnWay => ~HasAnswer(sendQ["srv"]) /\ ~HasAnswer(net["srv"]) /\ ~HasAnswer(batch["cli"])
  BY DEF AnswerOnWay, OnWay, Carries, HasAnswer, IsAnswer, Peer
<1>5. ASSUME AtMostOne, e = "srv" /\ IsAnswer(f) => ~AnswerOnWay PROVE AtMostOne'
  <2>1. CASE e = "srv"
    BY <1>1, <1>2, <1>4, <1>5, <2>1, AppendFrame DEF AtMostOne
  <2>2. CASE e # "srv"
    BY <1>2, <1>5, <2>2 DEF AtMostOne, Ends
  <2>. QED BY <2>1, <2>2
<1>. QED BY <1>3, <1>5 DEF NewFrame

LEMMA AnswersInitial == TrInit => AnswersInv
BY NoFrames DEF TrInit, NoCallbacks, AnswersInv, DialTold, OneDecision, Deciding, AtMostOne, OneAnswer, NothingLost, Asked,
       OnWay, AnswerOnWay, Ends, Peer, Refusals

(* The handshake begins with the callback of Attach, and only once.        *)
LEMMA OnceCalled ==
  ASSUME CallbacksOK, OneDecision, Hands("srv") = "once"
  PROVE  sv = "attached" /\ cb["srv"].data = "once"
BY DEF CallbacksOK, Callbacks, OneDecision, Hands, Ends

LEMMA CallbackSet ==
  ASSUME CallbacksOK, NEW e \in Ends, NEW which \in {"data", "hs", "close"}, NEW fn, SetCallback(e, which, fn)
  PROVE  /\ cb'[e].data = (IF which = "data" THEN fn ELSE cb[e].data)
         /\ cb'[e].hs = (IF which = "hs" THEN fn ELSE cb[e].hs)
         /\ \A d \in Ends \ {e} : cb'[d] = cb[d]
BY DEF CallbacksOK, Callbacks, SetCallback

LEMMA CallbacksSwitched ==
  CallbacksOK /\ Switch => cb'["srv"].data = "tunnel" /\ cb'["cli"] = cb["cli"]
BY DEF CallbacksOK, Callbacks, Switch, Ends

(* What Dial said stays true.                                              *)
LEMMA DialToldStep == PlainOK /\ CallbacksOK /\ OneDecision /\ DialTold /\ [TrNext]_trVars => DialTold'
<1>. SUFFICES ASSUME PlainOK, CallbacksOK, OneDecision, DialTold, [TrNext]_trVars PROVE DialTold'
  OBVIOUS
<1>. USE DEF TrNext, Common, Dialling, ClientStep, ServerStep, Reading, Writing, Packets, Beating, Endings,
        CheckAccept, WriteRejectBanner, Peek, PeekOutcome, ClientTLSFails, ServerTLSFails, Connected, Attach,
        Ask, Answered, Setup, PolicyDone, HandshakeTimeout, ClientStops, Authenticate, Register, Hook, SendOK,
        Switch, Reject, HandshakeEnds, Displaced, Read, ReadEnds, DispatchBeat, DispatchAsk, DispatchUp,
        DispatchAnswer, DispatchDown, WriteFrame, WriteFails, CloseEnds, BeginClose,
        SendUp, Seal, SendDown, NetworkCut, Heartbeat, Refusals, dialVars, connVars, restVars, trVars
<1>3. (cl \in {"peek", "tls"} => st["cli"] = "none")'
  BY DEF DialTold, PlainOK, ClientOK, StatesOK, Ends
<1>1. CASE dialErr = "none"
  <2>1. dialErr' # "none" => Peek \/ ClientTLSFails
    BY <1>1
  <2>2. CASE Peek \/ ClientTLSFails
    BY <1>1, <2>2 DEF PlainOK, PrefaceOK, StatesOK, DialTold, Ends
  <2>. QED BY <1>3, <2>1, <2>2 DEF DialTold
<1>2. CASE dialErr # "none"
  <2>1. UNCHANGED <<cl, sv, dialErr, preface>>
    BY <1>2, OnceCalled DEF DialTold
  <2>2. st'["cli"] = "none"
    BY <1>2 DEF DialTold, PlainOK, StatesOK, Ends
  <2>. QED BY <1>2, <2>1, <2>2 DEF DialTold
<1>. QED BY <1>1, <1>2

(* The decision is taken once, on the goroutine that reads.                *)
LEMMA OneDecisionStep == PlainOK /\ CallbacksOK /\ OneDecision /\ [TrNext]_trVars => OneDecision'
<1>. SUFFICES ASSUME PlainOK, CallbacksOK, OneDecision, [TrNext]_trVars PROVE OneDecision'
  OBVIOUS
<1>. USE DEF TrNext, Common, Dialling, ClientStep, ServerStep, Reading, Writing, Packets, Beating, Endings,
        CheckAccept, WriteRejectBanner, Peek, PeekOutcome, ClientTLSFails, ServerTLSFails, Connected, Attach,
        Ask, Answered, Setup, PolicyDone, HandshakeTimeout, ClientStops, Authenticate, Register, Hook, SendOK,
        Switch, Reject, HandshakeEnds, Displaced, Read, ReadEnds, DispatchBeat, DispatchAsk, DispatchUp,
        DispatchAnswer, DispatchDown, Resume, WriteFrame, WriteFails, CloseEnds, RunOnClose, BeginClose,
        SendUp, Seal, SendDown, NetworkCut, Heartbeat, Refusals, SetCallback, Deciding, dialVars, connVars, restVars, trVars
<1>1. (decision = "accepted" <=> sv \in {"switch", "serve"})'
  BY ZenonT(60), OnceCalled DEF OneDecision
<1>2. (decision = "refused" => sv = "over")'
  BY ZenonT(60), OnceCalled DEF OneDecision
<1>. HIDE DEF SetCallback
<1>3. (cb["srv"].data = "once" => sv = "attached")'
  <2>1. CASE DispatchAsk
    BY <2>1, OnceCalled, CallbackSet DEF OneDecision, Ends
  <2>2. CASE ~DispatchAsk /\ ~Attach
    <3>1. sv = "attached" => sv' = "attached"
      BY <2>2
    <3>2. \/ UNCHANGED cb
          \/ Switch
          \/ \E e \in Ends : \E fn : SetCallback(e, "hs", fn)
          \/ \E e \in Ends : SetCallback(e, "close", "remove")
          \/ \E e \in Ends : \E fn \in {"none", "tunnel"} : SetCallback(e, "data", fn)
      BY <2>2 DEF Ends
    <3>3. cb'["srv"].data = "once" => cb["srv"].data = "once"
      BY ZenonT(60), <3>2, CallbackSet, CallbacksSwitched DEF Ends
    <3>. QED BY <3>1, <3>3 DEF OneDecision
  <2>. QED BY <2>1, <2>2
<1>4. (registered => sv \in {"hook", "answer", "switch", "serve"})'
  BY ZenonT(60), OnceCalled DEF OneDecision
<1>5. (sv \in Deciding => rd["srv"] = "handshake")'
  <2>1. CASE sv \notin Deciding
    BY ZenonT(60), <2>1, OnceCalled DEF PlainOK, ReadersOK, Ends
  <2>2. CASE sv \in Deciding /\ sv' \in Deciding
    <3>1. rd["srv"] = "handshake"
      BY <2>2 DEF OneDecision
    <3>2. CASE \E e \in Ends : Read(e) \/ ReadEnds(e) \/ DispatchBeat(e)
      BY <3>1, <3>2 DEF Dispatching, PlainOK, ReadersOK, Ends
    <3>3. CASE DispatchAsk \/ DispatchUp \/ DispatchAnswer \/ DispatchDown
      BY <3>1, <3>3 DEF Dispatching, PlainOK, ReadersOK, Ends
    <3>4. CASE UNCHANGED rd
      BY <3>1, <3>4
    <3>. QED BY ZenonT(60), <2>2, <3>2, <3>3, <3>4
  <2>. QED BY <2>1, <2>2
<1>6. (registered /\ sv = "serve" => cb["srv"].data = "tunnel")'
  <2>1. CASE Switch
    BY <2>1, CallbacksSwitched
  <2>2. CASE ~Switch /\ ~DispatchAsk
    <3>1. sv' = "serve" => sv = "serve"
      BY <2>2
    <3>2. sv = "serve" /\ registered' => registered
      BY <2>2
    <3>3. sv = "serve" /\ registered' => cb'["srv"].data = cb["srv"].data
      BY <2>2, CallbackSet DEF Ends
    <3>. QED BY <3>1, <3>2, <3>3 DEF OneDecision
  <2>3. CASE DispatchAsk
    BY <2>3, OnceCalled DEF OneDecision
  <2>. QED BY <2>1, <2>2, <2>3
<1>. QED BY <1>1, <1>2, <1>3, <1>4, <1>5, <1>6 DEF OneDecision

(* Who has asked has, until it is answered.                                *)
LEMMA AskedStays == PlainOK /\ CallbacksOK /\ [TrNext]_trVars /\ Asked => Asked'
<1>. SUFFICES ASSUME PlainOK, CallbacksOK, [TrNext]_trVars, Asked PROVE Asked'
  OBVIOUS
<1>. USE DEF TrNext, Common, Dialling, ClientStep, ServerStep, Reading, Writing, Packets, Beating, Endings,
        CheckAccept, WriteRejectBanner, Peek, PeekOutcome, ClientTLSFails, ServerTLSFails, Connected, Attach,
        Ask, Answered, Setup, PolicyDone, HandshakeTimeout, ClientStops, Authenticate, Register, Hook, SendOK,
        Switch, Reject, HandshakeEnds, Displaced, Read, ReadEnds, DispatchBeat, DispatchAsk, DispatchUp,
        DispatchAnswer, DispatchDown, Resume, WriteFrame, WriteFails, CloseEnds, RunOnClose, BeginClose,
        SendUp, Seal, SendDown, NetworkCut, Heartbeat, Refusals, SetCallback, Deciding, dialVars, connVars, restVars, trVars
<1>. HIDE DEF SetCallback
<1>1. CASE answer # "none"
  BY <1>1 DEF Asked, PlainOK, OutcomesOK
<1>2. CASE Answered
  BY <1>1, <1>2
<1>3. CASE ~Answered
  <2>1. \/ UNCHANGED cb
        \/ Switch
        \/ SetCallback("cli", "hs", "answer")
        \/ \E e \in Ends : SetCallback(e, "close", "remove")
        \/ \E e \in Ends : \E fn \in {"once", "fired", "none", "tunnel"} : SetCallback(e, "data", fn)
    BY <1>3 DEF Ends
  <2>2. cb["cli"].hs = "answer" => cb'["cli"].hs = "answer"
    BY <2>1, CallbackSet, CallbacksSwitched DEF Ends
  <2>. QED BY <1>1, <2>2 DEF Asked
<1>. QED BY <1>2, <1>3

(* What the handshake and the client do, as far as answers are concerned.  *)
Steady ==
    /\ sv' \in Deciding \cup {"serve", "over"} => sv \in Deciding \cup {"serve", "over"} \/ Asked
    /\ cl' \in {"setup", "policy", "run"} => cl \in {"setup", "policy", "run"} \/ answer = "ok"
    /\ UNCHANGED answer

(* If f is the only frame that is newly on its way, one of end e.          *)
LEMMA FrameAnswers ==
  ASSUME OneAnswer, AtMostOne, NEW e \in Ends, NEW f \in Frames, NewFrame(e, f), Asked => Asked', Steady,
         e = "cli" /\ f.t = "ask" => Asked',
         e = "cli" /\ f.t = "data" => answer = "ok",
         e = "srv" /\ IsAnswer(f) =>
            /\ decision = "none" /\ answer = "none"
            /\ decision' = IF f.t = "ok" THEN "accepted" ELSE "refused",
         ~(e = "srv" /\ IsAnswer(f)) => UNCHANGED decision
  PROVE  OneAnswer' /\ AtMostOne'
<1>1. e = "srv" /\ IsAnswer(f) => ~AnswerOnWay
  BY DEF OneAnswer, AnswerOnWay
<1>2. AtMostOne'
  BY <1>1 DEF NewFrame
<1>3. \A d \in Ends : \A t : (OnWay(d, t))' => OnWay(d, t) \/ (d = e /\ f.t = t)
  BY DEF NewFrame
<1>4. /\ (OnWay("cli", "ask"))' => OnWay("cli", "ask") \/ (e = "cli" /\ f.t = "ask")
      /\ (OnWay("cli", "data"))' => OnWay("cli", "data") \/ (e = "cli" /\ f.t = "data")
      /\ (OnWay("srv", "ok"))' => OnWay("srv", "ok") \/ (e = "srv" /\ f.t = "ok")
      /\ (OnWay("srv", "err"))' => OnWay("srv", "err") \/ (e = "srv" /\ f.t = "err")
  BY <1>3 DEF Ends
<1>5. (OnWay("cli", "ask") \/ sv \in Deciding \cup {"serve", "over"} => Asked)'
  BY <1>4 DEF OneAnswer, Steady, Deciding
<1>6. (OnWay("srv", "ok") \/ answer = "ok" => decision = "accepted")'
  BY <1>4 DEF OneAnswer, Steady, IsAnswer
<1>7. (OnWay("srv", "err") \/ answer = "err" => decision = "refused")'
  BY <1>4 DEF OneAnswer, Steady, IsAnswer
<1>8. (AnswerOnWay => answer = "none")'
  BY <1>4 DEF OneAnswer, Steady, IsAnswer, AnswerOnWay
<1>9. (OnWay("cli", "data") \/ cl \in {"setup", "policy", "run"} => answer = "ok")'
  BY <1>4 DEF OneAnswer, Steady
<1>. QED BY <1>2, <1>5, <1>6, <1>7, <1>8, <1>9 DEF OneAnswer

LEMMA NoFrameAnswers ==
  ASSUME OneAnswer, AtMostOne, NoNewFrame, Asked => Asked', Steady, UNCHANGED decision
  PROVE  OneAnswer' /\ AtMostOne'
<1>1. Frame("beat") \in Frames /\ "cli" \in Ends /\ Frame("beat").t = "beat"
  BY DEF Frame, Frames, Kinds, Ends
<1>2. NewFrame("cli", Frame("beat"))
  BY DEF NewFrame, NoNewFrame
<1>. QED BY <1>1, <1>2, FrameAnswers

(* The decision is announced by one frame, which is read as what it is.    *)
LEMMA OneAnswerStep ==
  ASSUME PlainOK, CallbacksOK, Sealed, OneDecision, OneAnswer, AtMostOne, NothingLost, [TrNext]_trVars
  PROVE  OneAnswer' /\ AtMostOne' /\ NothingLost'
<1>1. Asked => Asked'
  BY AskedStays
<1>2. \A t \in Kinds : Frame(t) \in Frames /\ Frame(t).t = t
  BY DEF Frame, Frames
<1>3. ASSUME UNCHANGED <<sendQ, net, batch, sv, cl, answer, decision, lost>>
      PROVE  OneAnswer' /\ AtMostOne' /\ NothingLost'
  BY <1>1, <1>3, FramesStay, NoFrameAnswers DEF Steady, NothingLost
<1>4. CASE Dialling \/ Setup \/ PolicyDone \/ Answered \/ HandshakeTimeout \/ Endings \/ Authenticate \/ Register
           \/ Hook \/ Switch \/ UNCHANGED trVars \/ (\E s \in Senders : Seal(s))
  <2>1. UNCHANGED <<sendQ, net, batch, answer, decision, lost>>
    BY <1>4 DEF Dialling, CheckAccept, WriteRejectBanner, Peek, ClientTLSFails, ServerTLSFails, Connected, Attach,
       Setup, PolicyDone, Answered, HandshakeTimeout, Endings, ClientStops, Displaced, Authenticate, Register,
       Hook, HandshakeEnds, Switch, Seal, dialVars, connVars, restVars, trVars
  <2>2. sv' \in Deciding \cup {"serve", "over"} => sv \in Deciding \cup {"serve", "over"}
    BY <1>4 DEF Dialling, CheckAccept, WriteRejectBanner, Peek, ClientTLSFails, ServerTLSFails, Connected, Attach,
       Setup, PolicyDone, Answered, HandshakeTimeout, Endings, ClientStops, Displaced, Authenticate, Register,
       Hook, HandshakeEnds, Switch, Seal, Deciding, Refusals, dialVars, connVars, restVars, trVars
  <2>3. cl' \in {"setup", "policy", "run"} => cl \in {"setup", "policy", "run"} \/ answer = "ok"
    BY <1>4 DEF Dialling, CheckAccept, WriteRejectBanner, Peek, ClientTLSFails, ServerTLSFails, Connected, Attach,
       Setup, PolicyDone, Answered, HandshakeTimeout, Endings, ClientStops, Displaced, Authenticate, Register,
       Hook, HandshakeEnds, Switch, Seal, dialVars, connVars, restVars, trVars
  <2>. QED BY <1>1, <2>1, <2>2, <2>3, FramesStay, NoFrameAnswers DEF Steady, NothingLost
<1>5. CASE Ask
  <2>1. Asked'
    BY <1>5, CallbackSet DEF Ask, Asked, Ends
  <2>2. Steady /\ UNCHANGED <<batch, net, decision, lost>>
    BY <1>5 DEF Ask, Steady, restVars
  <2>3. CASE Enqueue("cli", Frame("ask"))
    <3>1. NewFrame("cli", Frame("ask"))
      BY <1>2, <2>2, <2>3, FrameAdded DEF Kinds, Ends
    <3>. QED BY <1>1, <1>2, <2>1, <2>2, <3>1, FrameAnswers DEF Kinds, Ends, NothingLost
  <2>4. CASE UNCHANGED sendQ
    BY <1>1, <2>2, <2>4, FramesStay, NoFrameAnswers DEF NothingLost
  <2>. QED BY <1>5, <2>3, <2>4 DEF Ask
<1>6. CASE SendUp
  <2>1. Steady /\ answer = "ok" /\ UNCHANGED <<batch, net, decision, lost>> /\ Enqueue("cli", Frame("data"))
    BY <1>6 DEF SendUp, Steady, OneAnswer, dialVars, restVars
  <2>2. NewFrame("cli", Frame("data"))
    BY <1>2, <2>1, FrameAdded DEF Kinds, Ends
  <2>. QED BY <1>1, <1>2, <2>1, <2>2, FrameAnswers DEF Kinds, Ends, NothingLost
<1>7. CASE SendOK \/ Reject
  <2>1. decision = "none"
    BY <1>7 DEF SendOK, Reject, OneDecision, PlainOK, OutcomesOK
  <2>2. answer = "none"
    BY <2>1 DEF OneAnswer, PlainOK, OutcomesOK
  <2>3. Steady /\ UNCHANGED <<batch, lost>>
    BY <1>7 DEF SendOK, Reject, HandshakeEnds, Steady, Deciding
  <2>4. CASE Enqueue("srv", Frame("ok")) /\ decision' = "accepted" /\ UNCHANGED net
    <3>1. NewFrame("srv", Frame("ok"))
      BY <1>2, <2>3, <2>4, FrameAdded DEF Kinds, Ends
    <3>. QED BY <1>1, <1>2, <2>1, <2>2, <2>3, <2>4, <3>1, FrameAnswers DEF Kinds, IsAnswer, Ends, NothingLost
  <2>5. CASE net' = [net EXCEPT !["srv"] = Append(@, Frame("err"))] /\ decision' = "refused" /\ UNCHANGED sendQ
    <3>1. NewFrame("srv", Frame("err"))
      BY <1>2, <2>3, <2>5, FrameAdded DEF Kinds, Ends
    <3>. QED BY <1>1, <1>2, <2>1, <2>2, <2>3, <2>5, <3>1, FrameAnswers DEF Kinds, IsAnswer, Ends, NothingLost
  <2>6. CASE UNCHANGED <<sendQ, net>>
    <3>1. NoNewFrame
      BY <2>3, <2>6, FramesStay
    <3>2. ~OnWay("srv", "ok") /\ ~OnWay("srv", "err")
      BY <2>1 DEF OneAnswer
    <3>3. ~(OnWay("srv", "ok"))' /\ ~(OnWay("srv", "err"))'
      BY <3>1, <3>2 DEF NoNewFrame, Ends
    <3>4. /\ (OnWay("cli", "ask"))' => OnWay("cli", "ask")
          /\ (OnWay("cli", "data"))' => OnWay("cli", "data")
      BY <3>1 DEF NoNewFrame, Ends
    <3>5. (OnWay("cli", "ask") \/ sv \in Deciding \cup {"serve", "over"} => Asked)'
      BY <1>1, <2>3, <3>4 DEF OneAnswer, Steady
    <3>6. (OnWay("cli", "data") \/ cl \in {"setup", "policy", "run"} => answer = "ok")'
      BY <2>3, <3>4 DEF OneAnswer, Steady
    <3>. QED BY <2>2, <2>3, <3>1, <3>3, <3>5, <3>6 DEF OneAnswer, NoNewFrame, Steady, NothingLost, AnswerOnWay
  <2>. QED BY <1>7, <2>4, <2>5, <2>6 DEF SendOK, Reject
<1>8. CASE (\E s \in Senders : SendDown(s)) \/ (\E e \in Ends : Heartbeat(e))
  <2>1. Steady /\ UNCHANGED <<batch, net, decision, lost>>
    BY <1>8 DEF SendDown, Heartbeat, Steady, dialVars, restVars
  <2>2. \/ UNCHANGED sendQ
        \/ \E e \in Ends : Enqueue(e, Frame("beat"))
        \/ \E s \in Senders : held[s] # 0 /\ Enqueue("srv", [t |-> "data", ctr |-> held[s] - 1])
    BY <1>8 DEF SendDown, Heartbeat
  <2>3. CASE UNCHANGED sendQ
    BY <1>1, <2>1, <2>3, FramesStay, NoFrameAnswers DEF NothingLost
  <2>4. ASSUME NEW e \in Ends, NEW f \in Frames, Enqueue(e, f), ~IsAnswer(f), e = "cli" => f.t = "beat"
        PROVE  OneAnswer' /\ AtMostOne' /\ NothingLost'
    <3>1. NewFrame(e, f)
      BY <2>1, <2>4, FrameAdded
    <3>. QED BY <1>1, <2>1, <2>4, <3>1, FrameAnswers DEF NothingLost
  <2>5. \A e \in Ends : Enqueue(e, Frame("beat")) => OneAnswer' /\ AtMostOne' /\ NothingLost'
    BY <1>2, <2>4 DEF Kinds, IsAnswer
  <2>6. ASSUME NEW s \in Senders, held[s] # 0, Enqueue("srv", [t |-> "data", ctr |-> held[s] - 1])
        PROVE  OneAnswer' /\ AtMostOne' /\ NothingLost'
    <3>1. [t |-> "data", ctr |-> held[s] - 1] \in Frames
      BY <2>6, ReplayAssumption DEF Sealed, Frames, Kinds
    <3>. QED BY <2>4, <2>6, <3>1 DEF IsAnswer, Ends
  <2>. QED BY <2>2, <2>3, <2>5, <2>6
<1>9. CASE NetworkCut \/ \E e \in Ends : Read(e) \/ ReadEnds(e) \/ Writing(e) \/ CloseEnds(e)
  <2>1. Steady /\ UNCHANGED <<decision, lost>>
    BY <1>9 DEF NetworkCut, Read, ReadEnds, Writing, WriteFrame, WriteFails, CloseEnds, Steady, dialVars, restVars
  <2>2. CASE NetworkCut \/ \E e \in Ends : CloseEnds(e)
    <3>1. /\ UNCHANGED batch
          /\ \A d \in Ends : sendQ'[d] = sendQ[d] \/ sendQ'[d] = <<>>
          /\ \A d \in Ends : net'[d] = net[d] \/ net'[d] = <<>>
      BY <2>2 DEF NetworkCut, CloseEnds, Sealed, Ends, Peer
    <3>. QED BY <1>1, <2>1, <3>1, FramesDropped, NoFrameAnswers DEF NothingLost
  <2>3. CASE \E e \in Ends : ReadEnds(e) \/ WriteFails(e)
    <3>1. UNCHANGED <<sendQ, net, batch>>
      BY <2>3 DEF ReadEnds, WriteFails
    <3>. QED BY <1>1, <2>1, <3>1, FramesStay, NoFrameAnswers DEF NothingLost
  <2>4. ASSUME NEW e \in Ends, Read(e) \/ WriteFrame(e) PROVE OneAnswer' /\ AtMostOne' /\ NothingLost'
    BY <1>1, <2>1, <2>4, FramesRead, FramesWritten, NoFrameAnswers DEF NothingLost
  <2>. QED BY <1>9, <2>2, <2>3, <2>4 DEF Writing
<1>10. ASSUME NEW e \in Ends,
              DispatchBeat(e) \/ (e = "srv" /\ (DispatchAsk \/ DispatchUp)) \/ (e = "cli" /\ DispatchDown)
       PROVE  OneAnswer' /\ AtMostOne' /\ NothingLost'
  <2>1. TakeFrame(e) /\ batch[e] # <<>> /\ UNCHANGED <<sendQ, net, cl, answer, decision>>
    BY <1>10 DEF DispatchBeat, DispatchAsk, DispatchUp, DispatchDown, Dispatching, dialVars, restVars
  <2>2. NoNewFrame /\ \A d \in Ends : e = Peer(d) => OnWay(d, Head(batch[e]).t)
    BY <2>1, FrameTaken
  <2>3. DispatchAsk => Asked
    <3>1. DispatchAsk => OnWay("cli", "ask")
      BY FrameTaken DEF DispatchAsk, Dispatching, Ends, Peer
    <3>. QED BY <3>1 DEF OneAnswer
  <2>4. Steady
    BY <1>10, <2>1, <2>3 DEF DispatchBeat, DispatchAsk, DispatchUp, DispatchDown, Steady, dialVars
  <2>5. DispatchUp /\ registered => cb["srv"].data = "tunnel"
    <3> SUFFICES ASSUME DispatchUp, registered PROVE cb["srv"].data = "tunnel"
      OBVIOUS
    <3>1. OnWay("cli", "data") /\ rd["srv"] = "batch"
      BY FrameTaken DEF DispatchUp, Dispatching, Ends, Peer
    <3>2. sv \in {"switch", "serve"}
      BY <3>1 DEF OneAnswer, OneDecision
    <3>3. sv = "serve"
      BY <3>1, <3>2 DEF OneDecision, Deciding
    <3>. QED BY <3>3 DEF OneDecision
  <2>6. NothingLost'
    BY <1>10, <2>5 DEF DispatchBeat, DispatchAsk, DispatchUp, DispatchDown, Lose, NothingLost, restVars
  <2>. QED BY <1>1, <2>1, <2>2, <2>4, <2>6, NoFrameAnswers
<1>11. CASE DispatchAnswer
  <2>. DEFINE f == Head(batch["cli"])
  <2>1. /\ Dispatching("cli", "ok") \/ Dispatching("cli", "err")
        /\ TakeFrame("cli") /\ batch["cli"] # <<>> /\ IsAnswer(f) /\ UNCHANGED <<sendQ, net, cl, sv, cb, decision>>
    BY <1>11 DEF DispatchAnswer, Dispatching, IsAnswer, dialVars
  <2>2. NoNewFrame /\ OnWay("srv", f.t) /\ ~AnswerOnWay'
    BY <2>1, FrameTaken DEF Ends, Peer
  <2>3. answer = "none" /\ decision = (IF f.t = "ok" THEN "accepted" ELSE "refused")
    BY <2>1, <2>2 DEF OneAnswer, AnswerOnWay, IsAnswer
  <2>4. cb["cli"].hs = "answer"
    BY <2>3 DEF OneDecision, OneAnswer, Asked, Deciding
  <2>5. answer' = f.t /\ UNCHANGED lost
    BY <1>11, <2>3, <2>4 DEF DispatchAnswer, Dispatching, Hands
  <2>6. /\ (OnWay("cli", "ask"))' => OnWay("cli", "ask")
        /\ (OnWay("cli", "data"))' => OnWay("cli", "data")
        /\ ~(OnWay("srv", "ok"))' /\ ~(OnWay("srv", "err"))'
    BY <2>2 DEF NoNewFrame, AnswerOnWay, Ends
  <2>7. (OnWay("cli", "ask") \/ sv \in Deciding \cup {"serve", "over"} => Asked)'
    BY <1>1, <2>1, <2>6 DEF OneAnswer
  <2>8. (OnWay("cli", "data") \/ cl \in {"setup", "policy", "run"} => answer = "ok")'
    BY <2>1, <2>3, <2>6 DEF OneAnswer
  <2>9. AtMostOne' /\ NothingLost'
    BY <2>2, <2>5 DEF NoNewFrame, NothingLost
  <2>. QED BY <2>1, <2>2, <2>3, <2>5, <2>6, <2>7, <2>8, <2>9 DEF OneAnswer, IsAnswer
<1>. QED BY <1>4, <1>5, <1>6, <1>7, <1>8, <1>9, <1>10, <1>11
         DEF TrNext, Common, ClientStep, ServerStep, Reading, Packets, Beating, Ends

LEMMA AnswersStep ==
  TransportTypeOK /\ Sealed /\ AnswersInv /\ [TrNext]_trVars => AnswersInv'
BY TypesAre, DialToldStep, OneDecisionStep, OneAnswerStep DEF AnswersInv

(* What the client concludes is what the server decided, and no frame      *)
(* meets the wrong callback, for queues and pipes of any size and any      *)
(* number of senders.                                                      *)
THEOREM AnswersKept == TrSpec => []AnswersTrue
<1>1. AnswersInv /\ OutcomesOK => AnswersTrue
  BY DEF AnswersInv, AnswersTrue, DialTold, OneDecision, OneAnswer, NothingLost, Refusals
<1>2. TransportTypeOK => OutcomesOK
  BY TypesAre DEF PlainOK
<1>. QED BY <1>1, <1>2, AnswersInitial, AnswersStep, TypesInitial, TypesStep, PTL DEF TrSpec

-----------------------------------------------------------------------------
(***************************************************************************)
(* Refusals.  Which errors end the attempts is a matter of the errors      *)
(* alone: of those of a dial (DialErrors), and of what arrives of the      *)
(* answer to a handshake (AnswerFatal, AnswerKept).  The client's state    *)
(* then only has to remember the last of them (RefusalsInv).               *)
(***************************************************************************)
Answer(cause) == ErrFromResponse(HandshakeResponse(Error(cause)))

AttemptsLeft ==
    /\ lrPc \in {"dial", "asked", "pause", "up"} /\ ~lrFlags.authOK => lrFlags.online < MaxOnline
    /\ lrPc = "up" => lrWhy = "none"

LrTypes ==
    /\ lrCodes \in BOOLEAN /\ lrHeard \in BOOLEAN
    /\ lrCause \in Reasons
    /\ lrFlags \in [fast : BOOLEAN, authOK : BOOLEAN, online : Nat]

RefusalsInv == LrTypes /\ AttemptsLeft /\ RefusalsTold

LEMMA SaysWhat ==
  /\ Says["bad_credentials"] = "wrong password" /\ Says["login_locked"] = "too many failures"
  /\ Says["account_online"] = "online elsewhere" /\ Says["source_denied"] = "not in the list"
  /\ \A s \in {"must_change_password", "no_vpn", "ip_banned", "plaintext_before_tls", "closed_before_tls", "network"} :
        Says[s] = "unknown"
  /\ \A s \in Unsentinel \ Sentinels : Says[s] = "unknown"
BY DEF Says, Sentinels, FatalAuth, BeforeTLS

(* A dial that fails for the network is tried again, a banner ends it.     *)
LEMMA DialErrors ==
  /\ ~ShouldStopOnDial(Text("network")) /\ ~IsAccountOnline(Text("network"))
  /\ ~ShouldStopOnDial(Error("network")) /\ ~ShouldStopOnDial(Error("closed_before_tls"))
  /\ \A e \in BeforeTLS : ShouldStopOnDial(Error(e)) /\ Error(e).is = e
BY SaysWhat DEF ShouldStopOnDial, IsFatalDialError, IsFatalHandshakeError, IsFatalAuth, IsSourceDenied, IsIPBanned,
   IsAccountOnline, Classify, Error, Text, Sentinels, FatalAuth, BeforeTLS

(* What reaches the client of an answer, with its code or by its words.    *)
LEMMA AnswerIs ==
  ASSUME NEW cause \in Reasons \ {"none"}
  PROVE  /\ cause \in Sentinels \ {"closed_before_tls"} =>
               /\ Answer(cause).is = (IF lrCodes THEN cause ELSE "none")
               /\ Answer(cause).says = Says[cause]
         /\ cause \in Unsentinel => Answer(cause).is = "none" /\ Answer(cause).says = "unknown"
<1>1. \A e : /\ HandshakeResponse(e).code = (IF lrCodes THEN HandshakeCode(e) ELSE "")
             /\ HandshakeResponse(e).error = e.says
  BY DEF HandshakeResponse
<1>2. /\ Answer(cause).is = FromHandshakeCode(HandshakeResponse(Error(cause)).code)
      /\ Answer(cause).says = Error(cause).says
  BY <1>1 DEF Answer, ErrFromResponse
<1>3. FromHandshakeCode("") = "none" /\ FromHandshakeCode("handshake_reject") = "none"
  BY DEF FromHandshakeCode, Sentinels, FatalAuth, BeforeTLS
<1>4. ASSUME cause \in Sentinels \ {"closed_before_tls"}
      PROVE  Answer(cause).is = (IF lrCodes THEN cause ELSE "none") /\ Answer(cause).says = Says[cause]
  <2>1. Error(cause).is = cause /\ Error(cause).says = Says[cause]
    BY <1>4 DEF Error
  <2>2. HandshakeCode(Error(cause)) = cause /\ FromHandshakeCode(cause) = cause
    BY <1>4, <2>1 DEF HandshakeCode, FromHandshakeCode
  <2>. QED BY <1>1, <1>2, <1>3, <2>1, <2>2
<1>5. ASSUME cause \in Unsentinel
      PROVE  Answer(cause).is = "none" /\ Answer(cause).says = "unknown"
  <2>1. cause \notin Sentinels /\ Error(cause).is = "none" /\ Error(cause).says = "unknown"
    BY <1>5, SaysWhat, LoginRetryAssumption DEF Error, Text
  <2>2. HandshakeCode(Error(cause)) = "handshake_reject"
    BY <2>1 DEF HandshakeCode, Classify, IsIPBanned, IsAccountOnline, IsSourceDenied, Sentinels, FatalAuth, BeforeTLS
  <2>. QED BY <1>1, <1>2, <1>3, <2>1, <2>2
<1>. QED BY <1>4, <1>5

LEMMA AnswerErrors ==
  ASSUME NEW cause \in Reasons \ {"none"}
  PROVE  LET e == Answer(cause) IN
         /\ IsAccountOnline(e) => cause = "account_online"
         /\ ShouldStopOnDial(e) /\ ~IsAccountOnline(e) => cause \in Lasting
         /\ lrCodes /\ cause \in Lasting => ShouldStopOnDial(e) /\ e.is = cause
         /\ cause \in Lasting => ~IsAccountOnline(e)
         /\ cause \in Lasting /\ ~ShouldStopOnDial(e) => Says[cause] = "unknown"
<1>. DEFINE e == Answer(cause)
<1>. USE DEF ShouldStopOnDial, IsFatalDialError, IsFatalHandshakeError, IsFatalAuth, IsSourceDenied, IsIPBanned,
       IsAccountOnline, Classify, FatalAuth, BeforeTLS, Lasting
<1>1. CASE cause \in Unsentinel
  <2>1. cause \notin Sentinels
    BY <1>1, LoginRetryAssumption
  <2>2. e.is = "none" /\ e.says = "unknown" /\ cause \notin Lasting
    BY <1>1, <2>1, AnswerIs DEF Sentinels
  <2>3. ~ShouldStopOnDial(e) /\ ~IsAccountOnline(e)
    BY <2>2
  <2>. QED BY <2>2, <2>3
<1>2. ASSUME cause \in FatalAuth \cup {"account_online", "source_denied"}, lrCodes
      PROVE  /\ IsAccountOnline(e) <=> cause = "account_online"
             /\ cause \in Lasting => ShouldStopOnDial(e) /\ e.is = cause
             /\ ~(cause \in Lasting) => cause = "account_online"
  <2>1. e.is = cause /\ e.says = Says[cause]
    BY <1>2, AnswerIs DEF Sentinels
  <2>2. Says[cause] = "online elsewhere" <=> cause = "account_online"
    BY <1>2, SaysWhat
  <2>. QED BY <1>2, <2>1, <2>2
<1>3. ASSUME cause \in FatalAuth \cup {"account_online", "source_denied"}, ~lrCodes
      PROVE  /\ IsAccountOnline(e) <=> cause = "account_online"
             /\ cause \in Lasting /\ ~ShouldStopOnDial(e) => Says[cause] = "unknown"
             /\ ~(cause \in Lasting) => cause = "account_online"
  <2>1. e.is = "none" /\ e.says = Says[cause]
    BY <1>3, AnswerIs DEF Sentinels
  <2>2. Says[cause] = "online elsewhere" <=> cause = "account_online"
    BY <1>3, SaysWhat
  <2>3. cause \in {"bad_credentials", "login_locked"} => ShouldStopOnDial(e)
    BY <2>1, SaysWhat
  <2>4. cause = "source_denied" => ShouldStopOnDial(e)
    BY <2>1, SaysWhat
  <2>. QED BY <1>3, <2>1, <2>2, <2>3, <2>4, SaysWhat
<1>. HIDE DEF e
<1>. QED BY <1>1, <1>2, <1>3 DEF Reasons, e

(* The attempts of a client that have not failed for good (Report).        *)
LEMMA DialFailed ==
  ASSUME LrTypes, AttemptsLeft, lrPc = "dial", NEW e, OnDialError(e), UNCHANGED lrCodes,
         ShouldStopOnDial(e) => lrWhy' \in Lasting,
         lrWhy' \in Lasting /\ lrHeard' => ShouldStopOnDial(e),
         lrWhy' \in Lasting /\ lrHeard' => e.is = lrWhy' \/ (e.is = "plaintext_before_tls" /\ lrWhy' \in BeforeTLS)
  PROVE  AttemptsLeft' /\ RefusalsTold'
<1>1. /\ UNCHANGED lrFlags
      /\ lrPc' \in {"stopped", "pause"}
      /\ lrPc' = "stopped" => lrErr' = e /\ (ShouldStopOnDial(e) \/ (lrFlags.fast /\ ~lrFlags.authOK))
      /\ lrPc' = "pause" => ~ShouldStopOnDial(e)
  BY DEF OnDialError, Report
<1>. QED BY <1>1 DEF AttemptsLeft, RefusalsTold, GivesUpForCause, DoesNotInsist, ReasonShown

LEMMA HandshakeFailed ==
  ASSUME LrTypes, AttemptsLeft, lrPc = "asked", NEW e, OnHandshakeError(e), UNCHANGED lrCodes,
         IsAccountOnline(e) => lrWhy' = "account_online",
         ShouldStopOnDial(e) /\ ~IsAccountOnline(e) => lrWhy' \in Lasting,
         lrWhy' \in Lasting /\ lrHeard' => ~IsAccountOnline(e),
         lrWhy' \in Lasting /\ lrHeard' /\ lrCodes => ShouldStopOnDial(e) /\ e.is = lrWhy',
         lrWhy' \in Lasting /\ lrHeard' /\ ~ShouldStopOnDial(e) => Says[lrWhy'] = "unknown"
  PROVE  AttemptsLeft' /\ RefusalsTold' /\ lrFlags' \in [fast : BOOLEAN, authOK : BOOLEAN, online : Nat]
<1>1. CASE IsAccountOnline(e) /\ lrFlags.authOK
  <2>1. UNCHANGED lrFlags /\ lrPc' = "pause" /\ lrWhy' \notin Lasting
    BY <1>1 DEF OnHandshakeError, Report, Lasting, FatalAuth
  <2>. QED BY <1>1, <2>1 DEF LrTypes, AttemptsLeft, RefusalsTold, GivesUpForCause, DoesNotInsist, ReasonShown
<1>2. CASE IsAccountOnline(e) /\ ~lrFlags.authOK
  <2>. DEFINE n == lrFlags.online + 1
  <2>1. /\ lrFlags' = [lrFlags EXCEPT !.online = n]
        /\ lrPc' = (IF n >= MaxOnline \/ lrFlags.fast THEN "stopped" ELSE "pause")
        /\ lrWhy' = "account_online" /\ lrWhy' \notin Lasting
    BY <1>2 DEF OnHandshakeError, Report, Lasting, FatalAuth
  <2>2. /\ lrFlags'.fast = lrFlags.fast /\ ~lrFlags'.authOK /\ lrFlags'.online = n /\ n \in Nat /\ n <= MaxOnline
        /\ lrFlags' \in [fast : BOOLEAN, authOK : BOOLEAN, online : Nat]
    BY <1>2, <2>1, LoginRetryAssumption DEF LrTypes, AttemptsLeft
  <2>3. AttemptsLeft'
    BY <2>1, <2>2, LoginRetryAssumption DEF AttemptsLeft
  <2>4. GivesUpForCause'
    BY <2>1, <2>2, LoginRetryAssumption DEF GivesUpForCause
  <2>. QED BY <2>1, <2>2, <2>3, <2>4 DEF RefusalsTold, DoesNotInsist, ReasonShown
<1>3. CASE ~IsAccountOnline(e)
  <2>1. /\ UNCHANGED lrFlags /\ lrErr' = e
        /\ lrPc' \in {"stopped", "pause"}
        /\ lrPc' = "stopped" => ShouldStopOnDial(e) \/ (lrFlags.fast /\ ~lrFlags.authOK)
        /\ lrPc' = "pause" => ~ShouldStopOnDial(e)
    BY <1>3 DEF OnHandshakeError, Report
  <2>. QED BY <1>3, <2>1 DEF LrTypes, AttemptsLeft, RefusalsTold, GivesUpForCause, DoesNotInsist, ReasonShown
<1>. QED BY <1>1, <1>2, <1>3

LEMMA RefusalsStep == RefusalsInv /\ [LrNext]_lrVars => RefusalsInv'
<1>. SUFFICES ASSUME LrTypes, AttemptsLeft, RefusalsTold, [LrNext]_lrVars
             PROVE  LrTypes' /\ AttemptsLeft' /\ RefusalsTold'
  BY DEF RefusalsInv
<1>1. CASE Stop \/ LetIn \/ Dropped \/ Redial \/ CauseChanges \/ WindowMoves \/ BanEnds \/ UNCHANGED lrVars
  <2>1. UNCHANGED <<lrCodes, lrFlags, lrErr, lrWhy, lrHeard>> /\ lrCause' \in Reasons
    BY <1>1 DEF Stop, LetIn, Dropped, Redial, CauseChanges, WindowMoves, BanEnds, lrVars, srvVars, cliVars, LrTypes
  <2>2. \/ UNCHANGED lrPc
        \/ lrPc' = "idle"
        \/ lrPc \in {"dial", "pause"} /\ lrPc' \in {"asked", "dial"}
        \/ lrPc = "up" /\ lrPc' = "pause"
    BY <1>1 DEF Stop, LetIn, Dropped, Redial, CauseChanges, WindowMoves, BanEnds, lrVars, srvVars, cliVars
  <2>. QED BY <2>1, <2>2 DEF LrTypes, AttemptsLeft, RefusalsTold, GivesUpForCause, DoesNotInsist, ReasonShown,
                            Lasting, FatalAuth
<1>2. CASE Start
  <2>1. PICK fast \in BOOLEAN : lrFlags' = [fast |-> fast, authOK |-> FALSE, online |-> 0]
    BY <1>2 DEF Start
  <2>2. lrPc' = "dial" /\ lrHeard' = TRUE /\ UNCHANGED <<lrCodes, lrCause>>
    BY <1>2 DEF Start, Refused, srvVars
  <2>. QED BY <2>1, <2>2, LoginRetryAssumption
           DEF LrTypes, AttemptsLeft, RefusalsTold, GivesUpForCause, DoesNotInsist, ReasonShown
<1>3. CASE DialFails
  <2>1. /\ lrPc = "dial" /\ OnDialError(Text("network")) /\ lrWhy' = "network" /\ lrHeard' = TRUE
        /\ UNCHANGED <<lrCodes, lrCause, lrFlags>> /\ lrWhy' \notin Lasting
    BY <1>3 DEF DialFails, OnDialError, Refused, srvVars, Lasting, FatalAuth
  <2>. QED BY <2>1, DialErrors, DialFailed DEF LrTypes
<1>4. CASE TurnedAway
  <2>1. PICK why \in {"ip_banned", "source_denied"} :
             \E s \in {why, "plaintext_before_tls", "closed_before_tls", "network"} :
                OnDialError(Error(s)) /\ Refused(why, s \in BeforeTLS)
    BY <1>4 DEF TurnedAway
  <2>0. PICK s \in {why, "plaintext_before_tls", "closed_before_tls", "network"} :
             OnDialError(Error(s)) /\ Refused(why, s \in BeforeTLS)
    BY <2>1
  <2>2. /\ lrPc = "dial" /\ lrWhy' = why /\ lrHeard' = (s \in BeforeTLS) /\ why \in Lasting \cap BeforeTLS
        /\ UNCHANGED <<lrCodes, lrCause, lrFlags>>
    BY <1>4, <2>0 DEF TurnedAway, OnDialError, Refused, Lasting, BeforeTLS
  <2>3. /\ ShouldStopOnDial(Error(s)) <=> s \in BeforeTLS
        /\ s \in BeforeTLS => Error(s).is = s /\ s \in {why, "plaintext_before_tls"}
    BY DialErrors DEF BeforeTLS
  <2>4. /\ ShouldStopOnDial(Error(s)) => lrWhy' \in Lasting
        /\ lrWhy' \in Lasting /\ lrHeard' =>
              /\ ShouldStopOnDial(Error(s))
              /\ Error(s).is = lrWhy' \/ (Error(s).is = "plaintext_before_tls" /\ lrWhy' \in BeforeTLS)
    BY <2>2, <2>3
  <2>5. AttemptsLeft' /\ RefusalsTold'
    BY <2>0, <2>2, <2>4, DialFailed
  <2>6. LrTypes'
    BY <2>2 DEF LrTypes
  <2>. QED BY <2>5, <2>6
<1>5. CASE Rejected
  <2>1. lrPc = "asked" /\ lrCause \in Reasons \ {"none"} /\ UNCHANGED <<lrCodes, lrCause>>
    BY <1>5 DEF Rejected, LrTypes
  <2>2. PICK heard \in BOOLEAN :
          /\ OnHandshakeError(IF heard THEN Answer(lrCause) ELSE Text("network"))
          /\ Refused(lrCause, heard)
    BY <1>5 DEF Rejected, Answer
  <2>3. lrWhy' = lrCause /\ lrHeard' = heard
    BY <2>2 DEF Refused
  <2>4. CASE heard
    BY <2>1, <2>2, <2>3, <2>4, AnswerErrors, HandshakeFailed DEF LrTypes
  <2>5. CASE ~heard
    BY <2>1, <2>2, <2>3, <2>5, DialErrors, HandshakeFailed DEF LrTypes
  <2>. QED BY <2>4, <2>5
<1>6. CASE Accepted
  <2>1. CASE lrPc' = "up" /\ lrFlags' = [fast |-> FALSE, authOK |-> TRUE, online |-> 0] /\ Refused("none", TRUE)
    BY <1>6, <2>1 DEF Accepted, Refused, srvVars, LrTypes, AttemptsLeft, RefusalsTold, GivesUpForCause, DoesNotInsist,
       ReasonShown
  <2>2. CASE OnHandshakeError(Text("network")) /\ Refused("network", TRUE)
    <3>1. lrPc = "asked" /\ lrWhy' = "network" /\ lrHeard' = TRUE /\ lrWhy' \notin Lasting
          /\ UNCHANGED <<lrCodes, lrCause>>
      BY <1>6, <2>2 DEF Accepted, Refused, srvVars, Lasting, FatalAuth
    <3>. QED BY <2>2, <3>1, DialErrors, HandshakeFailed DEF LrTypes
  <2>. QED BY <1>6, <2>1, <2>2 DEF Accepted
<1>. QED BY <1>1, <1>2, <1>3, <1>4, <1>5, <1>6 DEF LrNext

(* Whatever the server refuses, with or without codes, heard or not, a     *)
(* refusal ends the attempts exactly when it should, for any number of     *)
(* attempts on an account that is in use.                                  *)
THEOREM RefusalsKept == LrSpec => []RefusalsTold
<1>1. LrInit => RefusalsInv
  BY LoginRetryAssumption DEF LrInit, RefusalsInv, LrTypes, AttemptsLeft, RefusalsTold, GivesUpForCause, DoesNotInsist,
     ReasonShown
<1>. QED BY <1>1, RefusalsStep, PTL DEF LrSpec, RefusalsInv
=============================================================================
