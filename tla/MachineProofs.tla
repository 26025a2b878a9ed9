---------------------------- MODULE MachineProofs ----------------------------
(***************************************************************************)
(* The two programs and the machine they run on, for any number of logging *)
(* goroutines, processes, accounts, addresses and adapters: what the end of *)
(* the server leaves (ServerLife), that one process of the client has an   *)
(* engine and what it writes can be read again (ClientHost), and to whom   *)
(* shared connections and addresses of the adapter belong (NetShare).      *)
(***************************************************************************)
EXTENDS ServerLife, ClientHost, NetShare, FiniteSetTheorems, TLAPS

-----------------------------------------------------------------------------
(***************************************************************************)
(* The server process.  A stage of the shutdown is reached when what the   *)
(* stages before it close is closed; the machine is changed by one stage   *)
(* of the boot and restored by one of the shutdown.                        *)
(***************************************************************************)
Lines == 0..MaxEntries
LogStates == [nested : 0..MaxNested + 1, step : {"idle", "enqueue", "print"}]

(* Before the NAT is set up, and after what has been closed.               *)
BeforeNat == {"log", "bind", "store", "history", "check", "key", "admin", "pool", "session", "tun", "nat"}
StoreClosed   == {"closeLog"}
HistoryClosedBy == {"closeStore"} \cup StoreClosed
LeaseClosed   == {"closeHistory", "flush"} \cup HistoryClosedBy
NatUndone     == {"stopLease"} \cup LeaseClosed
TunClosed     == {"wait", "closeTun", "teardown"} \cup NatUndone
TunnelClosed  == {"stopTun"} \cup TunClosed
ApiClosed     == {"stopTunnel"} \cup TunnelClosed

ClosedInOrder ==
    /\ slPc = "log" => slOpen = {}
    /\ slPc \in ApiClosed => "api" \notin slOpen
    /\ slPc \in TunnelClosed => "tunnel" \notin slOpen
    /\ slPc \in TunClosed => "tun" \notin slOpen
    /\ slPc \in LeaseClosed => "lease" \notin slOpen
    /\ slPc \in HistoryClosedBy => "history" \notin slOpen
    /\ slPc \in StoreClosed => "store" \notin slOpen
MachineUndone ==
    /\ slPc \in BeforeNat => slMachine = {}
    /\ slPc \in NatUndone => "nat" \notin slMachine

(* A line that Close owes is in the queue until the writer has drained it. *)
Owed ==
    /\ slQueue \in Seq(Lines)
    /\ slOwed \subseteq slStored \cup slGone \cup ToSet(slQueue)
    /\ slPc # "flush" \/ slWriter = "done" => slOwed \subseteq slStored \cup slGone
    /\ slPc \notin {"flush"} \cup HistoryClosedBy \cup {"over"} => slOwed = {}

SlInv == SlTypeOK /\ ClosedInOrder /\ MachineUndone /\ Owed /\ (slEnd = "running" <=> slPc # "over") /\ ExitsClean

LEMMA Drained ==
  ASSUME NEW S, NEW q \in Seq(S), q # <<>>
  PROVE  Tail(q) \in Seq(S) /\ Head(q) \in S /\ ToSet(q) \subseteq {Head(q)} \cup ToSet(Tail(q)) /\ Len(Tail(q)) <= Len(q)
<1>1. Tail(q) \in Seq(S) /\ Head(q) \in S /\ Len(Tail(q)) = Len(q) - 1 /\ Len(q) \in Nat
  OBVIOUS
<1>2. \A i \in 1..Len(q) : q[i] = Head(q) \/ (i - 1 \in 1..Len(Tail(q)) /\ q[i] = Tail(q)[i - 1])
  BY <1>1
<1>3. \A s \in Seq(S) : ToSet(s) = {s[i] : i \in 1..Len(s)}
  BY DEF ToSet
<1>4. ToSet(q) = {q[i] : i \in 1..Len(q)} /\ ToSet(Tail(q)) = {Tail(q)[i] : i \in 1..Len(Tail(q))}
  BY <1>1, <1>3
<1>. QED BY <1>1, <1>2, <1>4

LEMMA Queued ==
  ASSUME NEW S, NEW q \in Seq(S), NEW e \in S
  PROVE  Append(q, e) \in Seq(S) /\ ToSet(q) \subseteq ToSet(Append(q, e)) /\ Len(Append(q, e)) = Len(q) + 1
<1>1. Append(q, e) \in Seq(S) /\ Len(Append(q, e)) = Len(q) + 1 /\ Len(q) \in Nat
  OBVIOUS
<1>2. \A i \in 1..Len(q) : i \in 1..Len(Append(q, e)) /\ q[i] = Append(q, e)[i]
  BY <1>1
<1>3. ToSet(q) = {q[i] : i \in 1..Len(q)} /\ ToSet(Append(q, e)) = {Append(q, e)[i] : i \in 1..Len(Append(q, e))}
  BY <1>1 DEF ToSet
<1>. QED BY <1>1, <1>2, <1>3

LEMMA ToSetEmpty == ToSet(<<>>) = {}
BY DEF ToSet

(* A step that moves on, and closes or opens something.                    *)
LEMMA StageSteps ==
  ASSUME SlInv, slEnd = "running", UNCHANGED <<slEnd, slFailed, slSignal, logVars>>,
         slPc' \in Stages \ {"flush"}, slOpen' \subseteq {"log", "store", "history", "lease", "tun", "reader", "tunnel", "api", "retention"},
         slMachine' \subseteq {"forward", "nat"}, ClosedInOrder', MachineUndone',
         slPc = "flush" => slWriter = "done",
         slPc' \notin HistoryClosedBy => slPc \notin {"flush"} \cup HistoryClosedBy
  PROVE  SlInv'
<1>1. SlTypeOK'
  BY DEF SlInv, SlTypeOK, logVars
<1>2. Owed'
  BY DEF SlInv, Owed, logVars, HistoryClosedBy, StoreClosed, Stages
<1>3. ExitsClean'
  BY DEF ExitsClean
<1>. QED BY <1>1, <1>2, <1>3 DEF SlInv, Stages

(* A step that ends the process.                                           *)
LEMMA EndSteps ==
  ASSUME SlInv, slPc' = "over", slEnd' \in {"exit", "fatal", "killed"}, UNCHANGED <<slSignal, slLog, slNext, slOwed>>,
         slFailed' \in Stages \cup {"none"}, slMachine' \subseteq {"forward", "nat"}, slOpen' \subseteq slOpen,
         UNCHANGED <<slQueue, slWriter, slStored, slGone>>, slPc # "flush",
         ExitsClean'
  PROVE  SlInv'
<1>1. SlTypeOK'
  BY DEF SlInv, SlTypeOK
<1>2. Owed'
  BY DEF SlInv, Owed
<1>. QED BY <1>1, <1>2 DEF SlInv, ClosedInOrder, MachineUndone, ApiClosed, TunnelClosed, TunClosed, NatUndone,
             LeaseClosed, HistoryClosedBy, StoreClosed, BeforeNat

LEMMA SlTyped ==
  ASSUME SlInv
  PROVE  /\ slOpen \subseteq {"log", "store", "history", "lease", "tun", "reader", "tunnel", "api", "retention"}
         /\ slMachine \subseteq {"forward", "nat"} /\ MachineUndone
         /\ slPc = "log" => slOpen = {}
         /\ slSignal \in BOOLEAN
BY DEF SlInv, SlTypeOK, MachineUndone, ClosedInOrder

(* The steps of the boot that go on.                                       *)
LEMMA OpensIs ==
  ASSUME SlInv, InitGlobal \/ OpenStore \/ SelfCheck \/ OpenTun \/ ListenTunnel \/ NewShutdown \/ BootAPI,
         slEnd' = "running"
  PROVE  SlInv'
<1>1. /\ slEnd = "running" /\ UNCHANGED <<slMachine, slEnd, slFailed, slSignal, logVars>>
      /\ slPc \in BeforeNat \cup {"tunnel", "shutdown", "api"}
      /\ slPc' \in (BeforeNat \ {"log"}) \cup {"tunnel", "shutdown", "api", "run"}
      /\ slPc' \in BeforeNat => slPc \in BeforeNat
  BY DEF InitGlobal, OpenStore, SelfCheck, OpenTun, ListenTunnel, NewShutdown, BootAPI, BootStep, Passes,
         AtStage, Running, ProcessEnds, BeforeNat, Opens
<1>2. slOpen' \subseteq slOpen \cup {"log", "store", "lease", "tun", "reader", "tunnel", "api", "retention"}
  BY DEF InitGlobal, OpenStore, SelfCheck, OpenTun, ListenTunnel, NewShutdown, BootAPI, BootStep, Passes,
         ProcessEnds, Opens
<1>3. slPc' \in Stages \ ({"flush"} \cup ApiClosed) /\ slPc \notin {"flush"} \cup HistoryClosedBy
  BY <1>1 DEF Stages, ApiClosed, TunnelClosed, TunClosed, NatUndone, LeaseClosed, HistoryClosedBy, StoreClosed, BeforeNat
<1>4. ClosedInOrder' /\ MachineUndone'
  BY <1>1, <1>3, SlTyped DEF ClosedInOrder, MachineUndone, ApiClosed, TunnelClosed, TunClosed, NatUndone, LeaseClosed,
     HistoryClosedBy, StoreClosed, BeforeNat
<1>. QED BY <1>1, <1>2, <1>3, <1>4, StageSteps, SlTyped

LEMMA OpenHistoryIs ==
  ASSUME SlInv, OpenHistory
  PROVE  SlInv'
<1>1. /\ slPc = "history" /\ slEnd = "running" /\ slPc' = "check" /\ slOpen' = slOpen \cup {"history"}
      /\ slWriter' = "loop"
      /\ UNCHANGED <<slMachine, slEnd, slFailed, slSignal, slLog, slQueue, slNext, slStored, slGone, slOwed>>
  BY DEF OpenHistory, AtStage, Running, Opens
<1>2. SlTypeOK'
  BY <1>1 DEF SlInv, SlTypeOK, Stages
<1>3. ClosedInOrder' /\ MachineUndone'
  BY <1>1, SlTyped DEF ClosedInOrder, MachineUndone, ApiClosed, TunnelClosed, TunClosed, NatUndone, LeaseClosed,
     HistoryClosedBy, StoreClosed, BeforeNat
<1>4. Owed'
  BY <1>1 DEF SlInv, Owed, HistoryClosedBy, StoreClosed
<1>. QED BY <1>1, <1>2, <1>3, <1>4 DEF SlInv, ExitsClean

LEMMA PersistFailsIs ==
  ASSUME SlInv, PersistFails
  PROVE  SlInv'
<1>1. /\ slPc \in {"store", "history", "check", "key", "admin"} /\ slEnd = "running"
      /\ slPc' = "over" /\ slEnd' = "fatal" /\ slFailed' = slPc /\ slOpen' \subseteq slOpen
      /\ UNCHANGED <<slMachine, slSignal, slLog, slNext, slGone, slOwed>>
  BY DEF PersistFails, Fatal, ProcessEnds, Running
<1>2. slOwed = {} /\ slMachine = {}
  BY <1>1, SlTyped DEF SlInv, Owed, MachineUndone, BeforeNat, HistoryClosedBy, StoreClosed
<1>3. /\ slWriter' \in {slWriter, "done"} /\ slStored' \subseteq slStored \cup ToSet(slQueue)
      /\ slQueue' \in {slQueue, <<>>}
  BY DEF PersistFails
<1>4. ToSet(slQueue) \subseteq Lines
  BY DEF SlInv, Owed, ToSet
<1>5. SlTypeOK'
  <2>1. Len(slQueue') <= QueueLen
    BY <1>3, LogAssumption DEF SlInv, SlTypeOK
  <2>. QED BY <1>1, <1>3, <1>4, <2>1 DEF SlInv, SlTypeOK, Stages, Lines
<1>6. Owed'
  <2>1. slQueue' \in Seq(Lines)
    <3>1. <<>> \in Seq(Lines) /\ slQueue \in Seq(Lines)
      BY DEF SlInv, Owed
    <3>. QED BY <1>3, <3>1
  <2>. QED BY <1>1, <1>2, <2>1 DEF Owed
<1>7. ClosedInOrder' /\ MachineUndone' /\ ExitsClean'
  BY <1>1, <1>2 DEF ClosedInOrder, MachineUndone, ExitsClean, ApiClosed, TunnelClosed, TunClosed, NatUndone, LeaseClosed,
     HistoryClosedBy, StoreClosed, BeforeNat
<1>. QED BY <1>1, <1>5, <1>6, <1>7 DEF SlInv

(* The failures that end the process.                                      *)
LEMMA FailsIs ==
  ASSUME SlInv, (InitGlobal /\ slEnd' # "running") \/ StepFails \/ (NoTun /\ slEnd' # "running")
                  \/ (SetupNat /\ slEnd' # "running")
  PROVE  SlInv'
<1>1. /\ slPc \in BeforeNat \cup {"tunnel"} /\ slEnd = "running" /\ slPc' = "over" /\ slEnd' \in {"exit", "fatal"}
      /\ slFailed' = slPc /\ slOpen' \subseteq slOpen /\ (slEnd' = "exit" => slPc = "log")
      /\ UNCHANGED <<slSignal, logVars>>
  BY DEF InitGlobal, StepFails, NoTun, SetupNat, Fatal, ProcessEnds, BeforeNat, Running, AtStage, BootStep
<1>2. /\ slMachine' \subseteq {"forward", "nat"}
      /\ "nat" \in slMachine' => slFailed' \in {"nat", "tunnel"}
  BY <1>1, SlTyped DEF InitGlobal, StepFails, NoTun, SetupNat, Fatal, ProcessEnds, Running, AtStage, BootStep,
     MachineUndone, BeforeNat
<1>3. slOwed = {} /\ slPc # "flush"
  BY <1>1 DEF SlInv, Owed, BeforeNat, HistoryClosedBy, StoreClosed
<1>4. ExitsClean'
  BY <1>1, <1>2, <1>3, SlTyped DEF ExitsClean, BeforeNat, logVars
<1>5. slFailed' \in Stages \cup {"none"}
  BY <1>1 DEF BeforeNat, Stages
<1>. QED BY <1>1, <1>2, <1>3, <1>4, <1>5, EndSteps DEF logVars

(* The device and the NAT, when the boot goes on.                          *)
LEMMA NatIs ==
  ASSUME SlInv, NoTun \/ SetupNat, slEnd' = "running"
  PROVE  SlInv'
<1>1. /\ slPc \in {"tun", "nat"} /\ slEnd = "running" /\ slPc' = "tunnel"
      /\ UNCHANGED <<slOpen, slEnd, slFailed, slSignal, logVars>>
  BY DEF NoTun, SetupNat, Fatal, ProcessEnds, Running, AtStage
<1>2. slMachine' \subseteq {"forward", "nat"}
  BY SlTyped DEF NoTun, SetupNat, Fatal, ProcessEnds
<1>3. ClosedInOrder' /\ MachineUndone'
  BY <1>1, SlTyped DEF ClosedInOrder, MachineUndone, ApiClosed, TunnelClosed, TunClosed, NatUndone, LeaseClosed,
     HistoryClosedBy, StoreClosed, BeforeNat
<1>. QED BY <1>1, <1>2, <1>3, StageSteps, SlTyped DEF Stages, HistoryClosedBy, StoreClosed

LEMMA BootingIs == SlInv /\ Booting => SlInv'
<1>. SUFFICES ASSUME SlInv, Booting PROVE SlInv'
  OBVIOUS
<1>1. slEnd' = "running" \/ InitGlobal \/ PersistFails \/ StepFails \/ NoTun \/ SetupNat
  BY DEF Booting, OpenStore, OpenHistory, SelfCheck, OpenTun, ListenTunnel, NewShutdown, BootAPI, BootStep, Passes,
         AtStage, Running
<1>. QED BY <1>1, OpensIs, OpenHistoryIs, PersistFailsIs, FailsIs, NatIs DEF Booting, StepFails, Fatal, ProcessEnds

(* The steps of the shutdown that go on.                                   *)
LEMMA ClosingIs ==
  ASSUME SlInv, ShutdownServer \/ WaitGoroutines \/ Teardown \/ Deferred \/ HistoryClosed
  PROVE  SlInv'
<1>. USE DEF AtStage, Running, Closes, Passes, ApiClosed, TunnelClosed, TunClosed, NatUndone, LeaseClosed,
             HistoryClosedBy, StoreClosed
<1>1. slEnd = "running" /\ UNCHANGED <<slEnd, slFailed, slSignal, logVars>>
  BY DEF ShutdownServer, WaitGoroutines, Teardown, Deferred, HistoryClosed
<1>2. slOpen' \subseteq slOpen /\ slMachine' \subseteq slMachine
  BY DEF ShutdownServer, WaitGoroutines, Teardown, Deferred, HistoryClosed
<1>3. \/ slPc = "run" /\ slPc' = "stopApi"
      \/ slPc = "stopApi" /\ slPc' = "stopTunnel" /\ "api" \notin slOpen'
      \/ slPc = "stopTunnel" /\ slPc' = "stopTun" /\ "tunnel" \notin slOpen'
      \/ slPc = "stopTun" /\ slPc' = "wait" /\ "tun" \notin slOpen'
      \/ slPc = "wait" /\ slPc' = "closeTun"
      \/ slPc = "closeTun" /\ slPc' = "teardown"
      \/ slPc = "teardown" /\ slPc' = "stopLease" /\ slMachine' = slMachine \ {"nat"}
      \/ slPc = "stopLease" /\ slPc' \in {"closeHistory", "closeStore"} /\ "lease" \notin slOpen'
            /\ (slPc' = "closeStore" => "history" \notin slOpen')
      \/ slPc = "flush" /\ slPc' = "closeStore" /\ "history" \notin slOpen' /\ slWriter = "done"
      \/ slPc = "closeStore" /\ slPc' = "closeLog" /\ "store" \notin slOpen'
  BY DEF ShutdownServer, WaitGoroutines, Teardown, Deferred, HistoryClosed
<1>4. ClosedInOrder'
  BY <1>2, <1>3 DEF SlInv, ClosedInOrder
<1>5. MachineUndone'
  BY <1>2, <1>3 DEF SlInv, MachineUndone, BeforeNat
<1>6. slPc' \in Stages \ {"flush"} /\ (slPc = "flush" => slWriter = "done")
      /\ (slPc' \notin HistoryClosedBy => slPc \notin {"flush"} \cup HistoryClosedBy)
  BY <1>3 DEF Stages
<1>. QED BY <1>1, <1>2, <1>4, <1>5, <1>6, StageSteps, SlTyped

LEMMA SignalIs ==
  ASSUME SlInv, Signal
  PROVE  SlInv'
<1>1. UNCHANGED <<slOpen, slMachine, slFailed, logVars>>
  BY DEF Signal
<1>2. CASE Signalled
  <2>1. UNCHANGED <<slPc, slEnd>> /\ slSignal' = TRUE
    BY <1>2 DEF Signal
  <2>. QED BY <1>1, <2>1 DEF SlInv, SlTypeOK, ClosedInOrder, MachineUndone, Owed, ExitsClean, logVars
<1>3. CASE ~Signalled
  <2>1. slPc' = "over" /\ slEnd' = "killed" /\ UNCHANGED slSignal
    BY <1>3 DEF Signal, ProcessEnds
  <2>2. slPc # "flush" /\ ExitsClean'
    BY <1>3, <2>1 DEF Signalled, ExitsClean
  <2>. QED BY <1>1, <2>1, <2>2, EndSteps DEF SlInv, SlTypeOK, logVars
<1>. QED BY <1>2, <1>3

LEMMA ReaderEndsIs ==
  ASSUME SlInv, ReaderEnds
  PROVE  SlInv'
<1>1. slEnd = "running" /\ slOpen' \subseteq slOpen /\ UNCHANGED <<slPc, slMachine, slEnd, slFailed, slSignal, logVars>>
  BY DEF ReaderEnds, Running
<1>2. ClosedInOrder'
  BY <1>1 DEF SlInv, ClosedInOrder
<1>. QED BY <1>1, <1>2 DEF SlInv, SlTypeOK, MachineUndone, Owed, ExitsClean, logVars

LEMMA CloseHistoryIs ==
  ASSUME SlInv, CloseHistory
  PROVE  SlInv'
<1>1. /\ slPc = "closeHistory" /\ slEnd = "running" /\ slWriter = "loop" /\ slPc' = "flush"
      /\ slOwed' = slStored \cup ToSet(slQueue)
      /\ UNCHANGED <<slOpen, slMachine, slEnd, slFailed, slSignal, slLog, slQueue, slWriter, slNext, slStored, slGone>>
  BY DEF CloseHistory, AtStage, Running
<1>2. ToSet(slQueue) \subseteq Lines
  BY DEF SlInv, Owed, ToSet
<1>3. SlTypeOK'
  BY <1>1, <1>2 DEF SlInv, SlTypeOK, Stages, Lines
<1>4. Owed'
  BY <1>1 DEF SlInv, Owed
<1>5. ClosedInOrder' /\ MachineUndone'
  BY <1>1 DEF SlInv, ClosedInOrder, MachineUndone, ApiClosed, TunnelClosed, TunClosed, NatUndone, LeaseClosed,
     HistoryClosedBy, StoreClosed, BeforeNat
<1>. QED BY <1>1, <1>3, <1>4, <1>5 DEF SlInv, ExitsClean

LEMMA CloseLogIs ==
  ASSUME SlInv, CloseLog
  PROVE  SlInv'
<1>1. /\ slPc = "closeLog" /\ slPc' = "over" /\ slEnd' = "exit" /\ slOpen' = slOpen \ {"log", "reader", "retention"}
      /\ UNCHANGED <<slMachine, slFailed, slSignal, logVars>>
  BY DEF CloseLog, AtStage, ProcessEnds
<1>2. slOpen' = {} /\ "nat" \notin slMachine
  BY <1>1, SlTyped DEF MachineUndone, SlInv, ClosedInOrder, ApiClosed, TunnelClosed, TunClosed, NatUndone, LeaseClosed,
     HistoryClosedBy, StoreClosed
<1>3. slOwed \subseteq slStored \cup slGone
  BY <1>1 DEF SlInv, Owed
<1>4. ExitsClean'
  BY <1>1, <1>2, <1>3 DEF ExitsClean, logVars
<1>. QED BY <1>1, <1>4, EndSteps DEF SlInv, SlTypeOK, logVars

(* The log.                                                                *)
LEMMA LoggingIs ==
  ASSUME SlInv, slEnd = "running", UNCHANGED <<bootVars, slOwed>>,
         slLog' \in [Loggers -> LogStates], Len(slQueue') <= QueueLen, slWriter' \in {"none", "loop", "drain", "done"},
         slNext' \in Lines, slStored' \subseteq Lines, slQueue' \in Seq(Lines),
         slStored \cup slGone \cup ToSet(slQueue) \subseteq slStored' \cup slGone' \cup ToSet(slQueue'),
         slStored \cup slGone \subseteq slStored' \cup slGone',
         slWriter' = "done" => slWriter = "done" \/ (ToSet(slQueue) = {} /\ UNCHANGED <<slStored, slGone>>)
  PROVE  SlInv'
<1>1. SlTypeOK'
  BY DEF SlInv, SlTypeOK, bootVars, LogStates, Lines
<1>2. Owed'
  BY DEF SlInv, Owed, bootVars
<1>3. ClosedInOrder' /\ MachineUndone' /\ ExitsClean'
  BY DEF SlInv, ClosedInOrder, MachineUndone, ExitsClean, bootVars
<1>. QED BY <1>1, <1>2, <1>3 DEF SlInv, bootVars

LEMMA LogTyped ==
  ASSUME SlInv
  PROVE  /\ slLog \in [Loggers -> LogStates] /\ slQueue \in Seq(Lines) /\ Len(slQueue) <= QueueLen
         /\ slNext \in Lines /\ slStored \subseteq Lines /\ slWriter \in {"none", "loop", "drain", "done"}
         /\ \A g \in Loggers : slLog[g].nested \in 0..MaxNested + 1
BY DEF SlInv, SlTypeOK, Owed, Lines, LogStates

LEMMA SpeaksIs ==
  ASSUME SlInv, NEW g \in Loggers, NEW n \in 0..MaxNested + 1, NEW step \in {"idle", "enqueue", "print"},
         Speaks(g, n, step)
  PROVE  slLog' \in [Loggers -> LogStates]
<1>1. [nested |-> n, step |-> step] \in LogStates
  BY DEF LogStates
<1>. QED BY <1>1, LogTyped DEF Speaks

LEMMA SpeakersAre ==
  ASSUME SlInv, NEW g \in Loggers, LogCall(g) \/ Enqueue(g) \/ PrintLine(g)
  PROVE  SlInv'
<1>0. {QueueLen, MaxEntries, MaxNested} \subseteq Nat /\ slLog[g].nested \in 0..MaxNested + 1
  BY LogAssumption, LogTyped
<1>1. CASE LogCall(g)
  <2>1. PICK step \in {"print", "enqueue"} : Speaks(g, 0, step)
    BY <1>1 DEF LogCall
  <2>2. slLog' \in [Loggers -> LogStates]
    BY <1>0, <2>1, SpeaksIs
  <2>. QED BY <1>1, <2>2, LogTyped, LoggingIs DEF LogCall, Running
<1>2. CASE PrintLine(g)
  <2>1. PICK n \in 0..MaxNested + 1, step \in {"print", "idle"} : Speaks(g, n, step)
    BY <1>0, <1>2 DEF PrintLine
  <2>2. slLog' \in [Loggers -> LogStates]
    BY <2>1, SpeaksIs
  <2>. QED BY <1>2, <2>2, LogTyped, LoggingIs DEF PrintLine, Running
<1>3. CASE Enqueue(g)
  <2>1. slNext \in Lines /\ slNext' \in Lines
    BY <1>0, <1>3, LogTyped DEF Enqueue, Lines
  <2>2. CASE Len(slQueue) < QueueLen
    <3>1. slQueue' = Append(slQueue, slNext) /\ Speaks(g, slLog[g].nested, "print") /\ UNCHANGED slGone
      BY <1>3, <2>2 DEF Enqueue
    <3>2. slQueue' \in Seq(Lines) /\ ToSet(slQueue) \subseteq ToSet(slQueue') /\ Len(slQueue') <= QueueLen
      <4>1. Len(slQueue) \in Nat
        BY LogTyped
      <4>. QED BY <1>0, <2>1, <2>2, <3>1, <4>1, Queued, LogTyped
    <3>3. slLog' \in [Loggers -> LogStates]
      BY <1>0, <3>1, SpeaksIs
    <3>. QED BY <1>3, <2>1, <3>1, <3>2, <3>3, LogTyped, LoggingIs DEF Enqueue, Running
  <2>3. CASE ~(Len(slQueue) < QueueLen)
    <3>1. /\ slLog[g].nested <= MaxNested /\ slGone' = slGone \cup {slNext} /\ UNCHANGED slQueue
          /\ Speaks(g, slLog[g].nested + 1, "enqueue")
      BY <1>3, <2>3 DEF Enqueue
    <3>2. slLog' \in [Loggers -> LogStates]
      BY <1>0, <3>1, SpeaksIs
    <3>. QED BY <1>3, <2>1, <3>1, <3>2, LogTyped, LoggingIs DEF Enqueue, Running
  <2>. QED BY <2>2, <2>3
<1>. QED BY <1>1, <1>2, <1>3

LEMMA InsertIs ==
  ASSUME SlInv, InsertOne
  PROVE  SlInv'
<1>1. /\ slQueue # <<>> /\ slQueue' = Tail(slQueue) /\ slEnd = "running"
      /\ UNCHANGED <<bootVars, slLog, slWriter, slNext, slOwed>> /\ slWriter # "done"
  BY DEF InsertOne, Running
<1>2. slStored' \cup slGone' = slStored \cup slGone \cup {Head(slQueue)} /\ slStored' \subseteq slStored \cup {Head(slQueue)}
  BY DEF InsertOne
<1>3. /\ slQueue' \in Seq(Lines) /\ Head(slQueue) \in Lines /\ ToSet(slQueue) \subseteq {Head(slQueue)} \cup ToSet(slQueue')
      /\ Len(slQueue') <= QueueLen
  <2>1. Len(slQueue) \in Nat /\ Len(slQueue') \in Nat
    BY <1>1, LogTyped, Drained
  <2>. QED BY <1>1, <2>1, LogTyped, Drained, LogAssumption
<1>. QED BY <1>1, <1>2, <1>3, LogTyped, LoggingIs

LEMMA WriterIs ==
  ASSUME SlInv, WriterEnds
  PROVE  SlInv'
<1>1. /\ slEnd = "running" /\ slWriter' \in {"drain", "done"} /\ (slWriter' = "done" => slQueue = <<>>)
      /\ UNCHANGED <<bootVars, slLog, slQueue, slNext, slStored, slGone, slOwed>>
  BY DEF WriterEnds, Running
<1>. QED BY <1>1, ToSetEmpty, LogTyped, LoggingIs

LEMMA RetentionIs ==
  ASSUME SlInv, DataRetention
  PROVE  SlInv'
<1>1. /\ slEnd = "running" /\ UNCHANGED <<bootVars, slLog, slQueue, slWriter, slNext, slOwed>>
      /\ slStored' \subseteq slStored /\ slStored \cup slGone \subseteq slStored' \cup slGone'
  BY DEF DataRetention, Running
<1>. QED BY <1>1, LogTyped, LoggingIs

LEMMA SlStarts == SlInit => SlInv
<1>. SUFFICES ASSUME SlInit PROVE SlInv
  OBVIOUS
<1>1. Quiet \in LogStates /\ 0 \in Lines /\ Len(<<>>) <= QueueLen /\ slLog = [g \in Loggers |-> Quiet]
  BY LogAssumption DEF SlInit, Quiet, LogStates, Lines
<1>2. SlTypeOK
  BY <1>1 DEF SlInit, SlTypeOK, LogStates, Lines, Stages
<1>. QED BY <1>2 DEF SlInit, SlInv, ClosedInOrder, MachineUndone, Owed, ExitsClean, ApiClosed, TunnelClosed, TunClosed,
             NatUndone, LeaseClosed, HistoryClosedBy, StoreClosed

LEMMA SlSteps == SlInv /\ [SlNext]_slVars => SlInv'
<1>. SUFFICES ASSUME SlInv, [SlNext]_slVars PROVE SlInv'
  OBVIOUS
<1>1. CASE UNCHANGED slVars
  BY <1>1 DEF slVars, bootVars, logVars, SlInv, SlTypeOK, ClosedInOrder, MachineUndone, Owed, ExitsClean
<1>2. CASE Booting
  BY <1>2, BootingIs
<1>3. CASE Ending
  BY <1>3, ClosingIs, SignalIs, ReaderEndsIs, CloseHistoryIs, CloseLogIs DEF Ending
<1>4. CASE Logging
  BY <1>4, SpeakersAre, InsertIs, WriterIs, RetentionIs DEF Logging
<1>. QED BY <1>1, <1>2, <1>3, <1>4 DEF SlNext

(* serverapp, from Engine.Run to the end of the process, whatever step of  *)
(* the boot fails, whenever a signal comes and however many goroutines log *)
(* meanwhile: a process that ends by itself has closed and undone all, and *)
(* the lines Close owes are in logs.db, or were given to it.               *)
THEOREM EndsClean == SlSpec => []ExitsClean
<1>1. SlInv => ExitsClean
  BY DEF SlInv
<1>. QED BY <1>1, SlStarts, SlSteps, PTL DEF SlSpec

-----------------------------------------------------------------------------
(***************************************************************************)
(* The client's processes.  A process is past its start exactly while it   *)
(* listens on the coordination port; the process of the service is there   *)
(* exactly while the SCM does not call the service stopped, and Execute    *)
(* returns only when the loop in it has closed its engine.                 *)
(***************************************************************************)
Rounds == 0..3
LoopStages == {"load", "start", "up", "close", "done"}
Serving == {"report", "select", "waiting"}

(* A GUI and the command line hold the port from one stage on. *)
PortHeld ==
    /\ \A p \in Guis : hLock = p <=> hPc[p].at = "window"
    /\ hLock = "cli" <=> hPc["cli"].at \in LoopStages
    /\ hLock = "svc" <=> hExec \in Serving

(* A GUI that waits for a free port knows for which time it asks. *)
RoundsKnown ==
    /\ \A p \in HostProcs : hPc[p].round \in Rounds
    /\ \A p \in Guis : hPc[p].at \in {"probe", "occupied", "ask", "stop", "free"} => hPc[p].round # 0

ScmShape(scm) == scm = [installed |-> scm.installed, deleted |-> scm.deleted, asked |-> scm.asked, state |-> scm.state]

(* Execute, its loop and the state of the service. *)
ServiceTold ==
    /\ hExec \in {"off", "acquire", "returned"} \cup Serving
    /\ ScmShape(hScm)
    /\ hScm.state = "stopped" <=> hExec = "off"
    /\ hExec \in {"off", "acquire"} => hPc["svc"].at = "off"
    /\ hExec = "returned" => hPc["svc"].at \in {"off", "done"}

EnginesPlaced ==
    /\ hEngine \subseteq HostProcs
    /\ \A p \in Guis \cap hEngine : hPc[p].at = "window"
    /\ \A p \in Loops \cap hEngine : hPc[p].at \in {"start", "up", "close"}

AloneInv ==
    /\ hPc = [p \in HostProcs |-> hPc[p]] /\ hLock \in HostProcs \cup {Nobody}
    /\ PortHeld /\ RoundsKnown /\ ServiceTold /\ EnginesPlaced

-----------------------------------------------------------------------------
LEMMA NobodyIs == /\ Guis \subseteq HostProcs /\ Loops \subseteq HostProcs
                  /\ HostProcs = {"gui1", "gui2", "cli", "svc"} /\ Guis \cap Loops = {}
                  /\ Nobody \notin HostProcs
BY HostAssumption DEF HostProcs, Guis, Loops

LEMMA MovedTo ==
  ASSUME AloneInv, NEW p \in HostProcs, NEW s, hPc' = [hPc EXCEPT ![p] = s]
  PROVE  hPc' = [q \in HostProcs |-> hPc'[q]] /\ hPc'[p] = s /\ \A q \in HostProcs \ {p} : hPc'[q] = hPc[q]
BY DEF AloneInv

LEMMA FieldChanges ==
  ASSUME NEW scm, ScmShape(scm), NEW x
  PROVE  /\ ScmShape([scm EXCEPT !.installed = x]) /\ [scm EXCEPT !.installed = x].state = scm.state
         /\ ScmShape([scm EXCEPT !.state = x]) /\ [scm EXCEPT !.state = x].state = x
         /\ ScmShape([scm EXCEPT !.asked = x]) /\ [scm EXCEPT !.asked = x].state = scm.state
BY DEF ScmShape

LEMMA ScmChanges ==
  ASSUME NEW scm, ScmShape(scm), NEW state
  PROVE  /\ ScmShape([scm EXCEPT !.installed = TRUE]) /\ [scm EXCEPT !.installed = TRUE].state = scm.state
         /\ ScmShape([scm EXCEPT !.state = state]) /\ [scm EXCEPT !.state = state].state = state
         /\ ScmShape([scm EXCEPT !.asked = (scm.asked \/ scm.state = "running")])
         /\ [scm EXCEPT !.asked = (scm.asked \/ scm.state = "running")].state = scm.state
<1>1. PICK x, y : x = TRUE /\ y = (scm.asked \/ scm.state = "running")
  OBVIOUS
<1>2. /\ [scm EXCEPT !.installed = x] = [scm EXCEPT !.installed = TRUE]
      /\ [scm EXCEPT !.asked = y] = [scm EXCEPT !.asked = (scm.asked \/ scm.state = "running")]
  BY <1>1, Zenon
<1>3. ScmShape([scm EXCEPT !.installed = x]) /\ [scm EXCEPT !.installed = x].state = scm.state
  BY FieldChanges
<1>4. ScmShape([scm EXCEPT !.asked = y]) /\ [scm EXCEPT !.asked = y].state = scm.state
  BY FieldChanges
<1>5. ScmShape([scm EXCEPT !.state = state]) /\ [scm EXCEPT !.state = state].state = state
  BY FieldChanges
<1>. QED BY <1>2, <1>3, <1>4, <1>5, Zenon

(* What the SCM is told without a word about the state of the service. *)
LEMMA ScmTold ==
  ASSUME AloneInv, ScmShape(hScm'), hScm'.state = hScm.state, UNCHANGED <<hPc, hExec, hLock, hEngine>>
  PROVE  AloneInv'
BY DEF AloneInv, PortHeld, RoundsKnown, ServiceTold, EnginesPlaced

(* A GUI on its way to the port. *)
LEMMA GuiMoves ==
  ASSUME AloneInv, NEW p \in Guis, NEW s, s.round \in Rounds,
         hPc' = [hPc EXCEPT ![p] = s], hPc[p].at # "window", s.at # "window",
         s.at \in {"probe", "occupied", "ask", "stop", "free"} => s.round # 0,
         UNCHANGED <<hExec, hLock, hEngine>>, ScmShape(hScm'), hScm'.state = hScm.state
  PROVE  AloneInv'
<1>1. /\ hPc' = [q \in HostProcs |-> hPc'[q]] /\ hPc'[p] = s /\ \A q \in HostProcs \ {p} : hPc'[q] = hPc[q]
      /\ "cli" # p /\ "svc" # p /\ hPc'["cli"] = hPc["cli"] /\ hPc'["svc"] = hPc["svc"]
  BY MovedTo, NobodyIs DEF Guis, Loops
<1>2. PortHeld'
  BY <1>1, NobodyIs DEF AloneInv, PortHeld
<1>3. RoundsKnown'
  BY <1>1, NobodyIs DEF AloneInv, RoundsKnown
<1>4. ServiceTold'
  BY <1>1 DEF AloneInv, ServiceTold
<1>5. EnginesPlaced'
  <2>1. p \notin hEngine
    BY DEF AloneInv, EnginesPlaced
  <2>. QED BY <1>1, <2>1, NobodyIs DEF AloneInv, EnginesPlaced
<1>. QED BY <1>1, <1>2, <1>3, <1>4, <1>5 DEF AloneInv

LEMMA StagesAre ==
  ASSUME NEW at, NEW round
  PROVE  Stage(at, round).at = at /\ Stage(at, round).round = round
BY DEF Stage

LEMMA OffIs == Off.round \in Rounds /\ Off.at = "off"
BY StagesAre DEF Off, Rounds

LEMMA GuiStarts ==
  ASSUME AloneInv, NEW p \in Guis,
         StartGui(p) \/ Probe(p) \/ HandleOccupied(p) \/ AskServiceTakeover(p) \/ WaitStopped(p) \/ WaitSingleInstanceFree(p)
  PROVE  AloneInv'
<1>0. hPc[p].round \in Rounds
  BY NobodyIs DEF AloneInv, RoundsKnown
<1>1. /\ hPc[p].at # "window" /\ UNCHANGED <<hExec, hLock, hEngine>>
  BY OffIs DEF StartGui, Probe, HandleOccupied, AskServiceTakeover, WaitStopped, WaitSingleInstanceFree
<1>2. ScmShape(hScm') /\ hScm'.state = hScm.state
  <2>1. hScm' = hScm \/ hScm' = [hScm EXCEPT !.asked = (hScm.asked \/ hScm.state = "running")]
    BY DEF StartGui, Probe, HandleOccupied, AskServiceTakeover, WaitStopped, WaitSingleInstanceFree, Control, scmVars
  <2>. QED BY <2>1, ScmChanges DEF AloneInv, ServiceTold
<1>s. CASE StartGui(p)
  <2>1. PICK s : s = Stage("probe", 1) /\ hPc' = [hPc EXCEPT ![p] = s]
    BY <1>s DEF StartGui, MovesTo
  <2>2. s.at = "probe" /\ s.round = 1
    BY <2>1 DEF Stage
  <2>3. s.round \in Rounds /\ s.round # 0 /\ s.at # "window"
    BY <2>2 DEF Rounds
  <2>. QED BY <1>1, <1>2, <2>1, <2>3, GuiMoves
<1>. SUFFICES ASSUME ~StartGui(p) PROVE AloneInv'
  BY <1>s
<1>3. PICK at, round : hPc' = [hPc EXCEPT ![p] = Stage(at, round)] /\ round \in Rounds /\ at # "window"
                       /\ (at \in {"probe", "occupied", "ask", "stop", "free"} => round # 0)
  <2>2. CASE Probe(p)
    <3>. hPc[p].round # 0
      BY <2>2 DEF Probe, AloneInv, RoundsKnown
    <3>1. \/ hPc' = [hPc EXCEPT ![p] = Stage("occupied", hPc[p].round)]
          \/ hPc' = [hPc EXCEPT ![p] = Stage("probe", 2)]
          \/ hPc' = [hPc EXCEPT ![p] = Stage("acquire", 2)]
      BY <2>2 DEF Probe, MovesTo
    <3>. QED BY <1>0, <3>1 DEF Rounds
  <2>3. CASE HandleOccupied(p)
    <3>. hPc[p].round # 0
      BY <2>3 DEF HandleOccupied, AloneInv, RoundsKnown
    <3>. QED BY <1>0, <2>3 DEF Off, HandleOccupied, MovesTo, Exits, Rounds
  <2>4. CASE AskServiceTakeover(p)
    <3>. hPc[p].round # 0
      BY <2>4 DEF AskServiceTakeover, AloneInv, RoundsKnown
    <3>. QED BY <1>0, <2>4 DEF Off, AskServiceTakeover, MovesTo, Exits, Rounds
  <2>5. CASE WaitStopped(p)
    <3>. hPc[p].round # 0
      BY <2>5 DEF WaitStopped, AloneInv, RoundsKnown
    <3>. QED BY <1>0, <2>5 DEF Off, WaitStopped, MovesTo, Exits, Rounds
  <2>6. CASE WaitSingleInstanceFree(p)
    <3>. hPc[p].round \in {1, 2, 3}
      BY <1>0, <2>6 DEF WaitSingleInstanceFree, AloneInv, RoundsKnown, Rounds
    <3>. QED BY <1>0, <2>6 DEF Off, WaitSingleInstanceFree, MovesTo, Exits, Rounds
  <2>. QED BY <2>2, <2>3, <2>4, <2>5, <2>6
<1>4. PICK s : s = Stage(at, round) /\ s.at = at /\ s.round = round
  BY StagesAre
<1>. QED BY <1>1, <1>2, <1>3, <1>4, GuiMoves

(* An engine is started or stopped by the process it is in. *)
LEMMA EngineMoves ==
  ASSUME AloneInv, NEW p \in Guis, hPc[p].at = "window", hEngine' \in {hEngine, hEngine \cup {p}, hEngine \ {p}},
         UNCHANGED <<hPc, hExec, hLock, hScm>>
  PROVE  AloneInv'
<1>1. EnginesPlaced'
  BY NobodyIs DEF AloneInv, EnginesPlaced
<1>. QED BY <1>1 DEF AloneInv, PortHeld, RoundsKnown, ServiceTold, ScmShape

LEMMA WindowActs ==
  ASSUME AloneInv, NEW p \in Guis,
         TryConnect(p) \/ LoginAnswered(p) \/ Logout(p) \/ ToggleAutoConnect(p) \/ ToggleSwitch(p)
           \/ SaveServiceCredentials(p) \/ (QuitGui(p) /\ p \in hEngine)
  PROVE  AloneInv'
<1>1. hPc[p].at = "window" /\ UNCHANGED <<hPc, hExec, hLock, hScm>>
  BY DEF TryConnect, LoginAnswered, Logout, ToggleAutoConnect, ToggleSwitch, SaveServiceCredentials, QuitGui,
     Edits, Window, scmVars, procVars
<1>2. hEngine' \in {hEngine, hEngine \cup {p}, hEngine \ {p}}
  BY DEF TryConnect, LoginAnswered, Logout, ToggleAutoConnect, ToggleSwitch, SaveServiceCredentials, QuitGui, procVars
<1>. QED BY <1>1, <1>2, EngineMoves

(* The GUI gets the port, or is told who has it. *)
LEMMA AcquireIs ==
  ASSUME AloneInv, NEW p \in Guis, Acquire(p)
  PROVE  AloneInv'
<1>1. /\ hPc[p].at = "acquire" /\ UNCHANGED <<hExec, hEngine, hScm>>
      /\ \/ hLock = Nobody /\ hLock' = p /\ hPc' = [hPc EXCEPT ![p] = Stage("window", 0)]
         \/ hLock' = hLock /\ hPc' = [hPc EXCEPT ![p] = Stage("occupied", 3)]
         \/ hLock' = hLock /\ hPc' = [hPc EXCEPT ![p] = Off]
  BY DEF Acquire, MovesTo, Exits, scmVars
<1>2. CASE hLock' = hLock
  <2>1. PICK s : hPc' = [hPc EXCEPT ![p] = s] /\ s.at \in {"occupied", "off"} /\ s.round \in {0, 3}
                 /\ (s.at = "occupied" => s.round = 3)
    <3>1. PICK s : s = Stage("occupied", 3)
      OBVIOUS
    <3>2. PICK o : o = Off
      OBVIOUS
    <3>3. s.at = "occupied" /\ s.round = 3 /\ o.at = "off" /\ o.round = 0
      BY <3>1, <3>2 DEF Off, Stage
    <3>4. hPc' = [hPc EXCEPT ![p] = s] \/ hPc' = [hPc EXCEPT ![p] = o]
      BY <1>1, <1>2, <3>1, <3>2, NobodyIs DEF Guis
    <3>. QED BY <3>3, <3>4
  <2>2. s.round \in Rounds /\ s.at # "window" /\ (s.at \in {"probe", "occupied", "ask", "stop", "free"} => s.round # 0)
    BY <2>1 DEF Rounds
  <2>3. ScmShape(hScm') /\ hScm'.state = hScm.state
    BY <1>1 DEF AloneInv, ServiceTold
  <2>. QED BY <1>1, <1>2, <2>1, <2>2, <2>3, GuiMoves
<1>3. CASE hLock' # hLock
  <2>1. PICK s : s = Stage("window", 0) /\ hPc' = [hPc EXCEPT ![p] = s]
    BY <1>1, <1>3
  <2>2. s.at = "window" /\ s.round = 0 /\ s.round \in Rounds
    BY <2>1 DEF Stage, Rounds
  <2>3. /\ hPc' = [q \in HostProcs |-> hPc'[q]] /\ hPc'[p] = s /\ \A q \in HostProcs \ {p} : hPc'[q] = hPc[q]
        /\ "cli" # p /\ "svc" # p /\ hPc'["cli"] = hPc["cli"] /\ hPc'["svc"] = hPc["svc"]
    BY <2>1, MovedTo, NobodyIs DEF Guis, Loops
  <2>4. hLock = Nobody /\ hLock' = p
    BY <1>1, <1>3
  <2>5. PortHeld'
    BY <1>1, <2>2, <2>3, <2>4, NobodyIs DEF AloneInv, PortHeld
  <2>6. RoundsKnown'
    BY <2>2, <2>3, NobodyIs DEF AloneInv, RoundsKnown
  <2>7. ServiceTold'
    BY <1>1, <2>3 DEF AloneInv, ServiceTold
  <2>8. EnginesPlaced'
    BY <1>1, <2>2, <2>3, NobodyIs DEF AloneInv, EnginesPlaced
  <2>. QED BY <2>3, <2>4, <2>5, <2>6, <2>7, <2>8, NobodyIs DEF AloneInv
<1>. QED BY <1>2, <1>3

(* A process that ends gives the port back, if it has it, and its engine goes with it. *)
LEMMA Ends ==
  ASSUME AloneInv, NEW p \in {"gui1", "gui2", "cli"}, hPc' = [hPc EXCEPT ![p] = Off], hEngine' = hEngine \ {p},
         hLock' = (IF hLock = p THEN Nobody ELSE hLock), UNCHANGED <<hExec, hScm>>
  PROVE  AloneInv'
<1>0. PICK s : s = Off
  OBVIOUS
<1>1. s = Off /\ s.at = "off" /\ s.round = 0 /\ s.round \in Rounds
  BY <1>0 DEF Off, Stage, Rounds
<1>2. /\ hPc' = [q \in HostProcs |-> hPc'[q]] /\ hPc'[p] = s /\ \A q \in HostProcs \ {p} : hPc'[q] = hPc[q]
      /\ p \in HostProcs /\ "svc" # p /\ hPc'["svc"] = hPc["svc"]
  BY <1>1, MovedTo, NobodyIs DEF Loops
<1>3. PortHeld'
  <2>1. \A q \in Guis : hLock' = q <=> hPc'[q].at = "window"
    BY <1>1, <1>2, NobodyIs DEF AloneInv, PortHeld
  <2>2. hLock' = "cli" <=> hPc'["cli"].at \in LoopStages
    BY <1>1, <1>2, NobodyIs DEF AloneInv, PortHeld, LoopStages
  <2>3. hLock' = "svc" <=> hExec' \in Serving
    BY <1>2, NobodyIs DEF AloneInv, PortHeld
  <2>. QED BY <2>1, <2>2, <2>3 DEF PortHeld
<1>4. RoundsKnown'
  BY <1>1, <1>2, NobodyIs DEF AloneInv, RoundsKnown
<1>5. ServiceTold'
  BY <1>2 DEF AloneInv, ServiceTold
<1>6. EnginesPlaced'
  BY <1>2, NobodyIs DEF AloneInv, EnginesPlaced
<1>. QED BY <1>2, <1>3, <1>4, <1>5, <1>6 DEF AloneInv

LEMMA GuiEnds ==
  ASSUME AloneInv, NEW p \in Guis, QuitGui(p)
  PROVE  AloneInv'
<1>1. CASE p \in hEngine
  BY <1>1, WindowActs
<1>2. CASE p \notin hEngine
  <2>1. hPc[p].at = "window" /\ hLock' = Nobody /\ hPc' = [hPc EXCEPT ![p] = Off] /\ UNCHANGED <<hEngine, hExec, hScm>>
    BY <1>2 DEF QuitGui, Window, Exits, MovesTo, scmVars
  <2>2. hLock = p /\ hEngine' = hEngine \ {p} /\ p \in {"gui1", "gui2", "cli"}
    BY <1>2, <2>1 DEF AloneInv, PortHeld, Guis
  <2>. QED BY <2>1, <2>2, Ends
<1>. QED BY <1>1, <1>2

-----------------------------------------------------------------------------
(* The command line and the loop in the service. *)
LEMMA LoopMoves ==
  ASSUME AloneInv, NEW p \in Loops, NEW s, hPc' = [hPc EXCEPT ![p] = s], s.round \in Rounds,
         hPc[p].at \in LoopStages, s.at \in LoopStages, UNCHANGED <<hExec, hLock, hScm>>,
         \/ hEngine' = hEngine \ {p}
         \/ s.at \in {"start", "up", "close"} /\ hEngine' \in {hEngine, hEngine \cup {p}},
         p = "svc" => hExec # "returned"
  PROVE  AloneInv'
<1>1. /\ hPc' = [q \in HostProcs |-> hPc'[q]] /\ hPc'[p] = s /\ \A q \in HostProcs \ {p} : hPc'[q] = hPc[q]
      /\ p \notin Guis /\ p \in {"cli", "svc"}
  BY MovedTo, NobodyIs DEF Loops
<1>2. PortHeld'
  BY <1>1, NobodyIs DEF AloneInv, PortHeld, Loops
<1>3. RoundsKnown'
  BY <1>1, NobodyIs DEF AloneInv, RoundsKnown
<1>4. ServiceTold'
  <2>1. CASE p = "svc"
    <3>1. hExec \notin {"off", "acquire", "returned"}
      BY <2>1 DEF AloneInv, ServiceTold, LoopStages
    <3>. QED BY <3>1 DEF AloneInv, ServiceTold
  <2>2. CASE p # "svc"
    BY <1>1, <2>2, NobodyIs DEF AloneInv, ServiceTold
  <2>. QED BY <2>1, <2>2
<1>5. EnginesPlaced'
  BY <1>1, NobodyIs DEF AloneInv, EnginesPlaced, Loops
<1>. QED BY <1>1, <1>2, <1>3, <1>4, <1>5 DEF AloneInv

(* Execute returns when the loop is done, or before there was one. *)
LEMMA NotReturned ==
  ASSUME AloneInv, NEW p \in Loops, hPc[p].at \in {"load", "start", "up", "close"}
  PROVE  p = "svc" => hExec # "returned"
BY DEF AloneInv, ServiceTold

LEMMA LoopActs ==
  ASSUME AloneInv, NEW p \in Loops, LoadBootstrap(p) \/ StartEngine(p) \/ LoopEnds(p) \/ CloseEngine(p)
  PROVE  AloneInv'
<1>1. hPc[p].at \in {"load", "start", "up", "close"} /\ UNCHANGED <<hExec, hLock, hScm>>
  BY DEF LoadBootstrap, StartEngine, LoopEnds, CloseEngine, scmVars
<1>2. \/ hPc' = [hPc EXCEPT ![p] = Stage("start", 0)] /\ hEngine' = hEngine \cup {p}
      \/ hPc' = [hPc EXCEPT ![p] = Stage("up", 0)] /\ hEngine' = hEngine
      \/ hPc' = [hPc EXCEPT ![p] = Stage("close", 0)] /\ hEngine' = hEngine
      \/ hPc' = [hPc EXCEPT ![p] = Stage("done", 0)] /\ hEngine' \in {hEngine, hEngine \ {p}} /\ p \notin hEngine'
  BY DEF LoadBootstrap, StartEngine, LoopEnds, CloseEngine, MovesTo, AloneInv, EnginesPlaced
<1>3. PICK s : hPc' = [hPc EXCEPT ![p] = s] /\ s.round = 0 /\ s.at \in {"start", "up", "close", "done"}
               /\ (hEngine' = hEngine \ {p} \/ (s.at # "done" /\ hEngine' \in {hEngine, hEngine \cup {p}}))
  <2>1. PICK a, b, c, d : a = Stage("start", 0) /\ b = Stage("up", 0) /\ c = Stage("close", 0) /\ d = Stage("done", 0)
    OBVIOUS
  <2>2. /\ a.at = "start" /\ b.at = "up" /\ c.at = "close" /\ d.at = "done"
        /\ a.round = 0 /\ b.round = 0 /\ c.round = 0 /\ d.round = 0
    BY <2>1 DEF Stage
  <2>3. \/ hPc' = [hPc EXCEPT ![p] = a] /\ hEngine' = hEngine \cup {p}
        \/ hPc' = [hPc EXCEPT ![p] = b] /\ hEngine' = hEngine
        \/ hPc' = [hPc EXCEPT ![p] = c] /\ hEngine' = hEngine
        \/ hPc' = [hPc EXCEPT ![p] = d] /\ hEngine' = hEngine \ {p}
    BY <1>2, <2>1
  <2>. QED BY <2>2, <2>3
<1>4. s.round \in Rounds /\ s.at \in LoopStages /\ hPc[p].at \in LoopStages
  BY <1>1, <1>3 DEF Rounds, LoopStages
<1>5. p = "svc" => hExec # "returned"
  BY <1>1, NotReturned
<1>. QED BY <1>1, <1>3, <1>4, <1>5, LoopMoves

LEMMA CliStarts ==
  ASSUME AloneInv, StartCli \/ (AcquireCli /\ hLock = Nobody)
  PROVE  AloneInv'
<1>1. PICK p, s, t : p = "cli" /\ s = Stage("acquire", 0) /\ t = Stage("load", 0)
  OBVIOUS
<1>2. s.at = "acquire" /\ s.round = 0 /\ t.at = "load" /\ t.round = 0 /\ p \in Loops /\ 0 \in Rounds
  BY <1>1 DEF Stage, Loops, Rounds
<1>3. hPc[p].at \in {"off", "acquire"} /\ hLock # p /\ p \notin hEngine
  <2>1. hPc[p].at \in {"off", "acquire"}
    BY <1>1, OffIs DEF StartCli, AcquireCli
  <2>. QED BY <1>1, <1>2, <2>1 DEF AloneInv, PortHeld, LoopStages, EnginesPlaced
<1>4. /\ UNCHANGED <<hExec, hEngine, hScm>>
      /\ \/ hPc' = [hPc EXCEPT ![p] = s] /\ hLock' = hLock
         \/ hPc' = [hPc EXCEPT ![p] = t] /\ hLock = Nobody /\ hLock' = p
  BY <1>1 DEF StartCli, AcquireCli, MovesTo, scmVars
<1>5. PICK n : hPc' = [hPc EXCEPT ![p] = n] /\ n.round = 0
               /\ ((n.at = "acquire" /\ hLock' = hLock) \/ (n.at = "load" /\ hLock = Nobody /\ hLock' = p))
  BY <1>2, <1>4
<1>6. /\ hPc' = [q \in HostProcs |-> hPc'[q]] /\ hPc'[p] = n /\ \A q \in HostProcs \ {p} : hPc'[q] = hPc[q]
      /\ p \in HostProcs /\ p \notin Guis /\ "svc" # p /\ hPc'["svc"] = hPc["svc"]
  BY <1>1, <1>5, MovedTo, NobodyIs DEF Guis, Loops
<1>7. PortHeld'
  <2>1. \A q \in Guis : hLock' = q <=> hPc'[q].at = "window"
    BY <1>5, <1>6, NobodyIs DEF AloneInv, PortHeld
  <2>2. hLock' = "cli" <=> hPc'["cli"].at \in LoopStages
    BY <1>1, <1>3, <1>5, <1>6, NobodyIs DEF AloneInv, LoopStages
  <2>3. hLock' = "svc" <=> hExec' \in Serving
    BY <1>4, <1>5, <1>6, NobodyIs DEF AloneInv, PortHeld
  <2>. QED BY <2>1, <2>2, <2>3 DEF PortHeld
<1>8. RoundsKnown'
  BY <1>2, <1>5, <1>6, NobodyIs DEF AloneInv, RoundsKnown
<1>9. ServiceTold'
  BY <1>4, <1>6 DEF AloneInv, ServiceTold
<1>10. EnginesPlaced'
  BY <1>3, <1>4, <1>6, NobodyIs DEF AloneInv, EnginesPlaced
<1>. QED BY <1>5, <1>6, <1>7, <1>8, <1>9, <1>10 DEF AloneInv

LEMMA CliEnds ==
  ASSUME AloneInv, ReleaseCli \/ (AcquireCli /\ hLock # Nobody)
  PROVE  AloneInv'
<1>1. PICK p : p = "cli"
  OBVIOUS
<1>2. hPc' = [hPc EXCEPT ![p] = Off] /\ hPc[p].at \in {"acquire", "done"} /\ UNCHANGED <<hExec, hEngine, hScm>>
      /\ (hPc[p].at = "acquire" => hLock' = hLock) /\ (hPc[p].at = "done" => hLock' = Nobody)
  BY <1>1 DEF ReleaseCli, AcquireCli, Exits, MovesTo, scmVars
<1>3. (hPc[p].at = "acquire" => hLock # p) /\ (hPc[p].at = "done" => hLock = p) /\ p \notin hEngine
  BY <1>1, <1>2 DEF AloneInv, PortHeld, LoopStages, EnginesPlaced, Loops
<1>. QED BY <1>1, <1>2, <1>3, Ends

-----------------------------------------------------------------------------
(* The service. *)
LEMMA AcquireServiceIs ==
  ASSUME AloneInv, AcquireService
  PROVE  AloneInv'
<1>1. hExec = "acquire" /\ hPc["svc"].at = "off" /\ UNCHANGED <<hEngine, hScm>>
  BY DEF AcquireService, AloneInv, ServiceTold, scmVars
<1>2. CASE hLock = Nobody
  <2>1. PICK p, s : p = "svc" /\ s = Stage("load", 0)
    OBVIOUS
  <2>2. s.at = "load" /\ s.round = 0 /\ s.round \in Rounds
    BY <2>1 DEF Stage, Rounds
  <2>3. hPc' = [hPc EXCEPT ![p] = s] /\ hLock' = p /\ hExec' = "report"
    BY <1>2, <2>1 DEF AcquireService, MovesTo, Exec
  <2>4. /\ hPc' = [q \in HostProcs |-> hPc'[q]] /\ hPc'[p] = s /\ \A q \in HostProcs \ {p} : hPc'[q] = hPc[q]
        /\ p \in HostProcs /\ p \notin Guis /\ "cli" # p /\ hPc'["cli"] = hPc["cli"]
    BY <2>1, <2>3, MovedTo, NobodyIs DEF Guis, Loops
  <2>5. PortHeld'
    <3>1. \A q \in Guis : hLock' = q <=> hPc'[q].at = "window"
      BY <1>2, <2>3, <2>4, NobodyIs DEF AloneInv, PortHeld
    <3>2. hLock' = "cli" <=> hPc'["cli"].at \in LoopStages
      BY <1>2, <2>3, <2>4, NobodyIs DEF AloneInv, PortHeld
    <3>3. hLock' = "svc" <=> hExec' \in Serving
      BY <2>1, <2>3 DEF Serving
    <3>. QED BY <3>1, <3>2, <3>3 DEF PortHeld
  <2>6. RoundsKnown'
    BY <2>2, <2>4, NobodyIs DEF AloneInv, RoundsKnown
  <2>7. ServiceTold'
    BY <1>1, <2>3 DEF AloneInv, ServiceTold, Serving
  <2>8. EnginesPlaced'
    <3>1. p \notin hEngine
      BY <1>1, <2>1 DEF AloneInv, EnginesPlaced, Loops
    <3>. QED BY <1>1, <2>4, <3>1, NobodyIs DEF AloneInv, EnginesPlaced
  <2>. QED BY <2>3, <2>4, <2>5, <2>6, <2>7, <2>8 DEF AloneInv
<1>3. CASE hLock # Nobody
  <2>1. hExec' = "returned" /\ UNCHANGED <<hLock, hPc>>
    BY <1>3 DEF AcquireService, Exec
  <2>2. hLock # "svc"
    BY <1>1 DEF AloneInv, PortHeld, Serving
  <2>. QED BY <1>1, <2>1, <2>2 DEF AloneInv, PortHeld, RoundsKnown, ServiceTold, EnginesPlaced, Serving
<1>. QED BY <1>2, <1>3

LEMMA ServiceSpeaks ==
  ASSUME AloneInv, ReportRunning \/ StopRequested
  PROVE  AloneInv'
<1>1. PICK state : /\ hExec \in Serving /\ hExec' \in Serving /\ state # "stopped"
                   /\ hScm' = [hScm EXCEPT !.state = state] /\ UNCHANGED <<hPc, hLock, hEngine>>
  BY DEF ReportRunning, StopRequested, Exec, Reports, Serving
<1>2. ScmShape(hScm') /\ hScm'.state = state
  BY <1>1, ScmChanges DEF AloneInv, ServiceTold
<1>. QED BY <1>1, <1>2 DEF AloneInv, PortHeld, RoundsKnown, ServiceTold, EnginesPlaced, Serving

LEMMA ExecuteReturns ==
  ASSUME AloneInv, ServiceLoopEnded
  PROVE  AloneInv'
<1>1. /\ hExec \in Serving /\ hPc["svc"].at = "done" /\ hExec' = "returned" /\ hLock' = Nobody
      /\ UNCHANGED <<hPc, hEngine, hScm>>
  BY DEF ServiceLoopEnded, Exec, Serving, scmVars
<1>2. hLock = "svc"
  BY <1>1 DEF AloneInv, PortHeld
<1>3. PortHeld'
  BY <1>1, <1>2, NobodyIs DEF AloneInv, PortHeld, Serving, Guis
<1>. QED BY <1>1, <1>3 DEF AloneInv, RoundsKnown, ServiceTold, EnginesPlaced, Serving

(* The process of the service goes, by itself or killed. *)
LEMMA ServiceGoes ==
  ASSUME AloneInv, hPc' = [hPc EXCEPT !["svc"] = Off], hExec' = "off", LeavesScm, hEngine' = hEngine \ {"svc"},
         hLock' = (IF hLock = "svc" THEN Nobody ELSE hLock)
  PROVE  AloneInv'
<1>1. PICK p, s : p = "svc" /\ s = Off
  OBVIOUS
<1>2. s.at = "off" /\ s.round = 0 /\ s.round \in Rounds
  BY <1>1 DEF Off, Stage, Rounds
<1>3. /\ hPc' = [q \in HostProcs |-> hPc'[q]] /\ hPc'[p] = s /\ \A q \in HostProcs \ {p} : hPc'[q] = hPc[q]
      /\ p \in HostProcs /\ p \notin Guis /\ "cli" # p /\ hPc'["cli"] = hPc["cli"]
  BY <1>1, MovedTo, NobodyIs DEF Guis, Loops
<1>4. ScmShape(hScm') /\ hScm'.state = "stopped"
  BY DEF LeavesScm, ScmShape
<1>5. PortHeld'
  <2>1. \A q \in Guis : hLock' = q <=> hPc'[q].at = "window"
    BY <1>1, <1>3, NobodyIs DEF AloneInv, PortHeld
  <2>2. hLock' = "cli" <=> hPc'["cli"].at \in LoopStages
    BY <1>1, <1>3, NobodyIs DEF AloneInv, PortHeld
  <2>3. hLock' = "svc" <=> hExec' \in Serving
    BY <1>1, <1>3, NobodyIs DEF Serving
  <2>. QED BY <2>1, <2>2, <2>3 DEF PortHeld
<1>6. RoundsKnown'
  BY <1>2, <1>3, NobodyIs DEF AloneInv, RoundsKnown
<1>7. ServiceTold'
  BY <1>1, <1>2, <1>3, <1>4 DEF ServiceTold
<1>8. EnginesPlaced'
  BY <1>1, <1>3, NobodyIs DEF AloneInv, EnginesPlaced
<1>. QED BY <1>3, <1>5, <1>6, <1>7, <1>8 DEF AloneInv

LEMMA ServiceEnds ==
  ASSUME AloneInv, ServiceProcessEnds
  PROVE  AloneInv'
<1>1. /\ hExec = "returned" /\ hPc' = [hPc EXCEPT !["svc"] = Off] /\ hExec' = "off" /\ LeavesScm
      /\ hEngine' = hEngine \ {"svc"} /\ hLock' = hLock
  BY DEF ServiceProcessEnds, Exec, Exits, MovesTo
<1>2. hLock # "svc"
  BY <1>1 DEF AloneInv, PortHeld, Serving
<1>. QED BY <1>1, <1>2, ServiceGoes

(* Whoever asks first starts its process. *)
LEMMA ServiceStarts ==
  ASSUME AloneInv, NEW scm, ScmShape(scm), scm.state = hScm.state, Started(scm), UNCHANGED <<hPc, hLock, hEngine>>
  PROVE  AloneInv'
<1>1. CASE scm.state = "stopped" /\ scm.installed /\ ~scm.deleted
  <2>1. PICK state : state = "starting" /\ hScm' = [scm EXCEPT !.state = state] /\ hExec' = "acquire"
    BY <1>1 DEF Started
  <2>2. ScmShape(hScm') /\ hScm'.state = "starting" /\ hExec = "off"
    <3>1. ScmShape(hScm') /\ hScm'.state = state
      BY <2>1, ScmChanges
    <3>. QED BY <1>1, <2>1, <3>1 DEF AloneInv, ServiceTold
  <2>. QED BY <2>1, <2>2 DEF AloneInv, PortHeld, RoundsKnown, ServiceTold, EnginesPlaced, Serving
<1>2. CASE ~(scm.state = "stopped" /\ scm.installed /\ ~scm.deleted)
  <2>1. hScm' = scm /\ hExec' = hExec
    BY <1>2 DEF Started
  <2>. QED BY <2>1, ScmTold
<1>. QED BY <1>1, <1>2

LEMMA Orders ==
  ASSUME AloneInv,
         \/ InstallService \/ StartService \/ OrderEnds \/ Disabled \/ DataplaneFails
         \/ \E what \in {"stop", "uninstall"} : OrderStop(what)
         \/ \E p \in Guis : EnableService(p) \/ DisableService(p)
  PROVE  AloneInv'
<1>1. UNCHANGED <<hPc, hLock, hEngine>>
  BY DEF InstallService, StartService, OrderEnds, Disabled, DataplaneFails, OrderStop, EnableService, DisableService, procVars
<1>2. ScmShape(hScm) /\ ScmShape(Installed) /\ Installed.state = hScm.state
  <2>1. ScmShape(hScm)
    BY DEF AloneInv, ServiceTold
  <2>. QED BY <2>1, ScmChanges DEF Installed
<1>3. CASE StartService \/ \E p \in Guis : EnableService(p)
  <2>1. Started(hScm) \/ Started(Installed) \/ (hScm' \in {hScm, Installed} /\ hExec' = hExec)
    BY <1>3 DEF StartService, EnableService
  <2>. QED BY <1>1, <1>2, <2>1, ServiceStarts, ScmTold
<1>4. CASE ~(StartService \/ \E p \in Guis : EnableService(p))
  <2>1. /\ hExec' = hExec
        /\ hScm' = hScm \/ hScm' = Installed \/ Control \/ DeleteFromScm
    BY <1>4 DEF InstallService, OrderEnds, Disabled, DataplaneFails, OrderStop, DisableService, procVars, scmVars
  <2>2. ScmShape(hScm') /\ hScm'.state = hScm.state
    <3>1. CASE Control
      BY <1>2, <3>1, ScmChanges DEF Control
    <3>2. CASE DeleteFromScm
      BY <1>2, <3>2 DEF DeleteFromScm, ScmShape
    <3>. QED BY <1>2, <2>1, <3>1, <3>2
  <2>. QED BY <1>1, <2>1, <2>2, ScmTold
<1>. QED BY <1>3, <1>4

LEMMA KillIs ==
  ASSUME AloneInv, NEW p \in HostProcs, Kill(p)
  PROVE  AloneInv'
<1>1. /\ hPc' = [hPc EXCEPT ![p] = Off] /\ hEngine' = hEngine \ {p}
      /\ hLock' = (IF hLock = p THEN Nobody ELSE hLock)
      /\ IF p = "svc" THEN hExec' = "off" /\ LeavesScm ELSE UNCHANGED <<hExec, hScm>>
  BY DEF Kill, Exits, MovesTo, Exec
<1>2. p \in {"gui1", "gui2", "cli"} \/ p = "svc"
  BY NobodyIs
<1>. QED BY <1>1, <1>2, Ends, ServiceGoes

-----------------------------------------------------------------------------
LEMMA HostStarts ==
  ASSUME HostInit
  PROVE  AloneInv
<1>1. PICK o : o = Off
  OBVIOUS
<1>2. o.at = "off" /\ o.round = 0
  BY <1>1 DEF Off, Stage
<1>3. hPc = [q \in HostProcs |-> o] /\ hLock = Nobody /\ hEngine = {} /\ hExec = "off"
  BY <1>1 DEF HostInit
<1>4. ScmShape(hScm) /\ hScm.state = "stopped"
  BY DEF HostInit, ScmShape
<1>. QED BY <1>2, <1>3, <1>4, NobodyIs DEF AloneInv, PortHeld, RoundsKnown, ServiceTold, EnginesPlaced, Serving, LoopStages,
         Rounds, Guis

LEMMA HostSteps ==
  ASSUME AloneInv, [HostNext]_hostVars
  PROVE  AloneInv'
<1>1. CASE UNCHANGED hostVars
  BY <1>1, ScmTold DEF hostVars, procVars, scmVars, AloneInv, ServiceTold
<1>2. CASE HostNext
  <2>1. \A p \in Guis :
          (\/ StartGui(p) \/ Probe(p) \/ HandleOccupied(p) \/ AskServiceTakeover(p) \/ WaitStopped(p)
           \/ WaitSingleInstanceFree(p) \/ Acquire(p)
           \/ TryConnect(p) \/ LoginAnswered(p) \/ Logout(p) \/ ToggleAutoConnect(p) \/ ToggleSwitch(p)
           \/ SaveServiceCredentials(p) \/ QuitGui(p) \/ EnableService(p) \/ DisableService(p)) => AloneInv'
    BY GuiStarts, AcquireIs, WindowActs, GuiEnds, Orders
  <2>2. \A p \in Loops : LoadBootstrap(p) \/ StartEngine(p) \/ LoopEnds(p) \/ CloseEngine(p) => AloneInv'
    BY LoopActs
  <2>3. StartCli \/ AcquireCli \/ DataplaneFails \/ ReleaseCli => AloneInv'
    BY CliStarts, CliEnds, Orders
  <2>4. AcquireService \/ ReportRunning \/ StopRequested \/ ServiceLoopEnded \/ ServiceProcessEnds => AloneInv'
    BY AcquireServiceIs, ServiceSpeaks, ExecuteReturns, ServiceEnds
  <2>5. InstallService \/ StartService \/ OrderEnds \/ Disabled => AloneInv'
    BY Orders
  <2>6. \A what \in {"stop", "uninstall"} : OrderStop(what) => AloneInv'
    BY Orders
  <2>7. \A p \in HostProcs : Kill(p) => AloneInv'
    BY KillIs
  <2>. QED BY <1>2, <2>1, <2>2, <2>3, <2>4, <2>5, <2>6, <2>7 DEF HostNext
<1>. QED BY <1>1, <1>2

(* Whatever programs are started, whoever takes the service over and       *)
(* whoever is killed: one process of the machine has an engine, and it     *)
(* listens on the coordination port (EnginesAlone).                        *)
THEOREM AloneKept == HostSpec => []EnginesAlone
<1>1. AloneInv => EnginesAlone
  <2>. SUFFICES ASSUME AloneInv PROVE EnginesAlone
    OBVIOUS
  <2>1. \A p \in hEngine : hLock = p
    <3>. SUFFICES ASSUME NEW p \in hEngine PROVE hLock = p
      OBVIOUS
    <3>1. p \in Guis => hLock = p
      BY DEF AloneInv, EnginesPlaced, PortHeld
    <3>2. p = "cli" => hLock = p
      BY DEF AloneInv, EnginesPlaced, PortHeld, LoopStages, Loops
    <3>3. p = "svc" => hLock = p
      <4>1. p = "svc" => hExec \in Serving
        BY DEF AloneInv, EnginesPlaced, ServiceTold, Loops
      <4>. QED BY <4>1 DEF AloneInv, PortHeld
    <3>. QED BY <3>1, <3>2, <3>3, NobodyIs DEF AloneInv, EnginesPlaced, Guis
  <2>2. IsFiniteSet(hEngine) /\ Cardinality(hEngine) <= 1
    <3>1. hEngine \subseteq {hLock}
      BY <2>1
    <3>2. IsFiniteSet({hLock}) /\ Cardinality({hLock}) = 1
      BY FS_Singleton
    <3>3. Cardinality(hEngine) <= Cardinality({hLock}) /\ IsFiniteSet(hEngine)
      BY <3>1, <3>2, FS_Subset
    <3>. QED BY <3>2, <3>3
  <2>. QED BY <2>1, <2>2 DEF EnginesAlone
<1>. QED BY <1>1, HostStarts, HostSteps, PTL DEF HostSpec

-----------------------------------------------------------------------------
(***************************************************************************)
(* client.yaml.  What the GUI that has the port edits is as good as the    *)
(* file until Validate has refused something.                              *)
(***************************************************************************)
ConfigShape(c) ==
    c = [user |-> c.user, pass |-> c.pass, remember |-> c.remember, auto |-> c.auto, lans |-> c.lans, ca |-> c.ca]

OwnPassword(c) == c.pass \in {Nobody, c.user}

FilesInv ==
    /\ ConfigShape(hFile) /\ ConfigShape(hCfg)
    /\ FilesTrue /\ OwnPassword(hCfg)
    /\ hLock \in Guis /\ ~hRejected => Validate(hCfg)

LEMMA FieldsAre ==
  ASSUME NEW c, NEW user, NEW pass, NEW remember, NEW auto, NEW lans, NEW ca,
         c = [user |-> user, pass |-> pass, remember |-> remember, auto |-> auto, lans |-> lans, ca |-> ca]
  PROVE  /\ ConfigShape(c) /\ c.user = user /\ c.pass = pass /\ c.remember = remember /\ c.auto = auto
         /\ c.lans = lans /\ c.ca = ca
BY DEF ConfigShape

LEMMA SavedAs ==
  ASSUME NEW c, ConfigShape(c), NEW x, NEW y
  PROVE  [c EXCEPT !.pass = x, !.ca = y] =
           [user |-> c.user, pass |-> x, remember |-> c.remember, auto |-> c.auto, lans |-> c.lans, ca |-> y]
<1>1. [c EXCEPT !.pass = x, !.ca = y] = [[c EXCEPT !.pass = x] EXCEPT !.ca = y]
  OBVIOUS
<1>2. PICK d : d = [c EXCEPT !.pass = x]
  OBVIOUS
<1>3. d = [user |-> c.user, pass |-> x, remember |-> c.remember, auto |-> c.auto, lans |-> c.lans, ca |-> c.ca]
  BY <1>2 DEF ConfigShape
<1>4. [d EXCEPT !.ca = y] =
        [user |-> c.user, pass |-> x, remember |-> c.remember, auto |-> c.auto, lans |-> c.lans, ca |-> y]
  BY <1>3
<1>. QED BY <1>1, <1>2, <1>4

LEMMA SwitchedAs ==
  ASSUME NEW c, ConfigShape(c), NEW x
  PROVE  [c EXCEPT !.auto = x] =
           [user |-> c.user, pass |-> c.pass, remember |-> c.remember, auto |-> x, lans |-> c.lans, ca |-> c.ca]
<1>1. PICK a, b, r, t, l, k : c = [user |-> a, pass |-> b, remember |-> r, auto |-> t, lans |-> l, ca |-> k]
  BY DEF ConfigShape
<1>2. [c EXCEPT !.auto = x] = [user |-> a, pass |-> b, remember |-> r, auto |-> x, lans |-> l, ca |-> k]
  BY <1>1
<1>3. c.user = a /\ c.pass = b /\ c.remember = r /\ c.auto = t /\ c.lans = l /\ c.ca = k
  BY <1>1
<1>. QED BY <1>2, <1>3

Filled(c, x, y, z, w) == [c EXCEPT !.user = x, !.remember = y, !.lans = z, !.pass = w]

LEMMA FilledAs ==
  ASSUME NEW c, ConfigShape(c), NEW x, NEW y, NEW z, NEW w
  PROVE  Filled(c, x, y, z, w) =
           [user |-> x, pass |-> w, remember |-> y, auto |-> c.auto, lans |-> z, ca |-> c.ca]
<1>1. [c EXCEPT !.user = x, !.remember = y, !.lans = z, !.pass = w] =
        [[[[c EXCEPT !.user = x] EXCEPT !.remember = y] EXCEPT !.lans = z] EXCEPT !.pass = w]
  OBVIOUS
<1>2. PICK d : d = [c EXCEPT !.user = x]
  OBVIOUS
<1>3. d = [user |-> x, pass |-> c.pass, remember |-> c.remember, auto |-> c.auto, lans |-> c.lans, ca |-> c.ca]
  BY <1>2 DEF ConfigShape
<1>4. PICK e : e = [d EXCEPT !.remember = y]
  OBVIOUS
<1>5. e = [user |-> x, pass |-> c.pass, remember |-> y, auto |-> c.auto, lans |-> c.lans, ca |-> c.ca]
  BY <1>3, <1>4
<1>6. PICK f : f = [e EXCEPT !.lans = z]
  OBVIOUS
<1>7. f = [user |-> x, pass |-> c.pass, remember |-> y, auto |-> c.auto, lans |-> z, ca |-> c.ca]
  BY <1>5, <1>6
<1>8. [f EXCEPT !.pass = w] = [user |-> x, pass |-> w, remember |-> y, auto |-> c.auto, lans |-> z, ca |-> c.ca]
  BY <1>7
<1>. QED BY <1>1, <1>2, <1>4, <1>6, <1>8 DEF Filled

LEMMA NamedAs ==
  ASSUME NEW c, ConfigShape(c), NEW x
  PROVE  [c EXCEPT !.user = x] =
           [user |-> x, pass |-> c.pass, remember |-> c.remember, auto |-> c.auto, lans |-> c.lans, ca |-> c.ca]
BY DEF ConfigShape

LEMMA UncertifiedAs ==
  ASSUME NEW c, ConfigShape(c), NEW x
  PROVE  [c EXCEPT !.ca = x] =
           [user |-> c.user, pass |-> c.pass, remember |-> c.remember, auto |-> c.auto, lans |-> c.lans, ca |-> x]
<1>1. PICK a, b, r, t, l, k : c = [user |-> a, pass |-> b, remember |-> r, auto |-> t, lans |-> l, ca |-> k]
  BY DEF ConfigShape
<1>2. [c EXCEPT !.ca = x] = [user |-> a, pass |-> b, remember |-> r, auto |-> t, lans |-> l, ca |-> x]
  BY <1>1
<1>3. c.user = a /\ c.pass = b /\ c.remember = r /\ c.auto = t /\ c.lans = l /\ c.ca = k
  BY <1>1
<1>. QED BY <1>2, <1>3

LEMMA TemplateIs ==
  /\ ConfigShape(Template) /\ Template.user = Nobody /\ Template.pass = Nobody /\ Template.lans = "good"
  /\ Template.ca = TRUE /\ Template.auto = FALSE
  /\ ConfigShape(Defaults) /\ Defaults.user = Nobody /\ Defaults.pass = Nobody
<1>1. ConfigShape(Template) /\ Template.user = Nobody /\ Template.pass = Nobody /\ Template.lans = "good"
      /\ Template.ca = TRUE /\ Template.auto = FALSE
  BY DEF Template, ConfigShape
<1>2. PICK f : f = FALSE
  OBVIOUS
<1>3. Defaults = [Template EXCEPT !.ca = f]
  BY <1>2, Zenon DEF Defaults
<1>4. ConfigShape(Defaults) /\ Defaults.user = Template.user /\ Defaults.pass = Template.pass
  <2>1. Defaults = [user |-> Template.user, pass |-> Template.pass, remember |-> Template.remember, auto |-> Template.auto,
                    lans |-> Template.lans, ca |-> f]
    BY <1>1, <1>3, UncertifiedAs
  <2>. QED BY <2>1, FieldsAre
<1>. QED BY <1>1, <1>4

LEMMA NeedsUser ==
  ASSUME NEW c, Validate(c)
  PROVE  c # Defaults /\ c # Template /\ c # NoFile /\ LoadClient(c) = c /\ LoadClientOrDefaults(c) = c
BY TemplateIs DEF Validate, LoadClient, LoadClientOrDefaults, Loads, NoFile

LEMMA Loaded ==
  ASSUME NEW file, ConfigShape(file), OwnPassword(file)
  PROVE  /\ ConfigShape(LoadClient(file)) /\ OwnPassword(LoadClient(file))
         /\ ConfigShape(LoadClientOrDefaults(file)) /\ OwnPassword(LoadClientOrDefaults(file))
         /\ Validate(LoadClientOrDefaults(file)) => Validate(file)
         /\ Validate(file) => Validate(LoadClient(file))
<1>1. ConfigShape(LoadClient(file)) /\ OwnPassword(LoadClient(file))
  BY TemplateIs DEF LoadClient, OwnPassword
<1>2. ConfigShape(LoadClientOrDefaults(file)) /\ OwnPassword(LoadClientOrDefaults(file))
  BY TemplateIs DEF LoadClientOrDefaults, OwnPassword
<1>3. Validate(LoadClientOrDefaults(file)) => Validate(file)
  BY TemplateIs, NeedsUser DEF LoadClientOrDefaults, Loads
<1>4. Validate(file) => Validate(LoadClient(file))
  BY NeedsUser
<1>. QED BY <1>1, <1>2, <1>3, <1>4

LEMMA PatchedIs ==
  ASSUME NEW file, NEW c, ConfigShape(c), OwnPassword(c)
  PROVE  /\ ConfigShape(Patched(file, c)) /\ OwnPassword(Patched(file, c))
         /\ Validate(file) /\ Validate(c) => Validate(Patched(file, c))
<1>1. PICK x, y, d : x = (IF c.remember THEN c.pass ELSE Nobody) /\ y = LoadClient(file).ca
                     /\ d = [c EXCEPT !.pass = x, !.ca = y]
  OBVIOUS
<1>2. Patched(file, c) = d
  BY <1>1, Zenon DEF Patched
<1>3. ConfigShape(d) /\ d.user = c.user /\ d.pass = x /\ d.remember = c.remember /\ d.auto = c.auto /\ d.lans = c.lans /\ d.ca = y
  <2>1. d = [user |-> c.user, pass |-> x, remember |-> c.remember, auto |-> c.auto, lans |-> c.lans, ca |-> y]
    BY <1>1, SavedAs
  <2>. QED BY <2>1, FieldsAre
<1>4. OwnPassword(d)
  BY <1>1, <1>3 DEF OwnPassword
<1>5. ASSUME Validate(file), Validate(c) PROVE Validate(d)
  <2>1. d.ca
    <3>1. LoadClient(file) = file /\ file.ca
      BY <1>5, NeedsUser DEF Validate
    <3>. QED BY <1>1, <1>3, <3>1, Zenon
  <2>2. d.user # Nobody /\ d.lans = "good"
    BY <1>3, <1>5 DEF Validate
  <2>3. d.auto => CanAutoConnect(d)
    <3>. SUFFICES ASSUME d.auto PROVE d.auto /\ d.remember /\ d.pass # Nobody
      BY Zenon DEF CanAutoConnect
    <3>1. c.auto /\ c.remember /\ c.pass # Nobody
      <4>1. c.auto
        BY <1>3, Zenon
      <4>. QED BY <1>5, <4>1, Zenon DEF Validate, CanAutoConnect
    <3>2. x = c.pass
      BY <1>1, <3>1, Zenon
    <3>. QED BY <1>3, <3>1, <3>2, Zenon
  <2>. QED BY <2>1, <2>2, <2>3, Zenon DEF Validate
<1>. QED BY <1>2, <1>3, <1>4, <1>5

(* A write of good settings keeps the file good; one that fails keeps the file. *)
LEMMA SaveKeeps ==
  ASSUME FilesInv, NEW c, ConfigShape(c), OwnPassword(c), ~hRejected => Validate(c), SaveClient(c)
  PROVE  ConfigShape(hFile') /\ OwnPassword(hFile') /\ (~hRejected => Loads(hFile'))
<1>1. ConfigShape(hFile) /\ OwnPassword(hFile) /\ (~hRejected => Validate(hFile))
  BY DEF FilesInv, FilesTrue, OwnPassword, Loads
<1>2. hFile' = Patched(hFile, c) \/ hFile' = LoadClient(hFile)
  BY DEF SaveClient
<1>3. /\ ConfigShape(Patched(hFile, c)) /\ OwnPassword(Patched(hFile, c))
      /\ ~hRejected => Validate(Patched(hFile, c))
  BY <1>1, PatchedIs
<1>4. /\ ConfigShape(LoadClient(hFile)) /\ OwnPassword(LoadClient(hFile))
      /\ ~hRejected => Validate(LoadClient(hFile))
  BY <1>1, Loaded
<1>. QED BY <1>2, <1>3, <1>4 DEF Loads

(* Nothing about the files changes, and no GUI gets the port. *)
LEMMA FilesStay ==
  ASSUME FilesInv, UNCHANGED <<hFile, hCfg, hCreds, hRejected>>, hLock' \in Guis => hLock' = hLock
  PROVE  FilesInv'
BY DEF FilesInv, FilesTrue, Loads, Validate, CanAutoConnect, ConfigShape, OwnPassword

(* A write of what the GUI that has the port works with. *)
LEMMA FilesSaved ==
  ASSUME FilesInv, ConfigShape(hCfg'), OwnPassword(hCfg'), ~hRejected => Validate(hCfg'),
         SaveClient(hCfg') \/ hFile' = hFile, UNCHANGED <<hCreds, hRejected>>
  PROVE  FilesInv'
<1>1. PICK c : c = hCfg'
  OBVIOUS
<1>2. CASE SaveClient(hCfg')
  <2>1. ConfigShape(hFile') /\ OwnPassword(hFile') /\ (~hRejected => Loads(hFile'))
    BY <1>1, <1>2, SaveKeeps
  <2>. QED BY <2>1 DEF FilesInv, FilesTrue, OwnPassword, Loads
<1>3. CASE hFile' = hFile
  BY <1>3 DEF FilesInv, FilesTrue, OwnPassword, Loads
<1>. QED BY <1>2, <1>3

LEMMA HasPort ==
  ASSUME AloneInv, NEW p \in Guis, hPc[p].at = "window"
  PROVE  hLock = p /\ hLock \in Guis
BY DEF AloneInv, PortHeld

LEMMA ConnectFiles ==
  ASSUME AloneInv, FilesInv, NEW p \in Guis, TryConnect(p)
  PROVE  FilesInv'
<1>1. PICK user \in Logins, remember \in BOOLEAN, nets \in {"good", "bad"} :
        /\ hCfg' = [hCfg EXCEPT !.user = user, !.remember = remember, !.lans = nets,
                                !.pass = IF remember THEN user ELSE Nobody]
        /\ IF Validate(hCfg')
           THEN hLogin' = user /\ hEngine' = hEngine \cup {p} /\ UNCHANGED hRejected
           ELSE hRejected' = TRUE /\ UNCHANGED <<hLogin, hEngine>>
  BY Zenon DEF TryConnect
<1>2. PICK pass, keep : pass = (IF remember THEN user ELSE Nobody) /\ keep = remember
  OBVIOUS
<1>3. hCfg' = [hCfg EXCEPT !.user = user, !.remember = keep, !.lans = nets, !.pass = pass]
  BY <1>1, <1>2, Zenon
<1>4. hCfg' = [user |-> user, pass |-> pass, remember |-> keep, auto |-> hCfg.auto, lans |-> nets, ca |-> hCfg.ca]
  <2>1. hCfg' = Filled(hCfg, user, keep, nets, pass)
    BY <1>3, Zenon DEF Filled
  <2>. QED BY <2>1, FilledAs DEF FilesInv
<1>5. ConfigShape(hCfg') /\ hCfg'.user = user /\ hCfg'.pass = pass
  BY <1>4, FieldsAre
<1>6. pass \in {Nobody, user}
  BY <1>2, Zenon
<1>7. OwnPassword(hCfg')
  BY <1>5, <1>6 DEF OwnPassword
<1>8. hFile' = hFile /\ hCreds' = hCreds
  BY DEF TryConnect
<1>9. ~hRejected' => ~hRejected /\ Validate(hCfg')
  BY <1>1
<1>. QED BY <1>5, <1>7, <1>8, <1>9 DEF FilesInv, FilesTrue, Loads, OwnPassword

LEMMA AcquireFiles ==
  ASSUME FilesInv, NEW p \in Guis, Acquire(p)
  PROVE  FilesInv'
<1>1. CASE hLock = Nobody
  <2>1. hFile' = LoadClient(hFile) /\ hCfg' = LoadClientOrDefaults(hFile) /\ (~hRejected' => Validate(hCfg')) /\ hCreds' = hCreds
    BY <1>1 DEF Acquire
  <2>2. ConfigShape(hFile) /\ OwnPassword(hFile)
    BY DEF FilesInv, FilesTrue, OwnPassword
  <2>3. /\ ConfigShape(hFile') /\ OwnPassword(hFile') /\ ConfigShape(hCfg') /\ OwnPassword(hCfg')
        /\ Validate(hCfg') => Validate(hFile')
    BY <2>1, <2>2, Loaded
  <2>. QED BY <2>1, <2>3 DEF FilesInv, FilesTrue, Loads, OwnPassword
<1>2. CASE hLock # Nobody
  BY <1>2, FilesStay DEF Acquire
<1>. QED BY <1>1, <1>2

LEMMA ToggleFiles ==
  ASSUME AloneInv, FilesInv, NEW p \in Guis, ToggleAutoConnect(p)
  PROVE  FilesInv'
<1>1. PICK auto, toggled : auto = ~hCfg.auto /\ toggled = [hCfg EXCEPT !.auto = auto]
  OBVIOUS
<1>2. /\ IF toggled.auto /\ ~CanAutoConnect(toggled)
         THEN UNCHANGED <<hFile, hCfg>>
         ELSE hCfg' = toggled /\ SaveClient(toggled)
      /\ UNCHANGED <<hCreds, hRejected, hLock>> /\ hPc[p].at = "window"
  BY <1>1, Zenon DEF ToggleAutoConnect, Edits, Window, procVars
<1>3. CASE UNCHANGED <<hFile, hCfg>>
  BY <1>2, <1>3, FilesStay
<1>4. CASE ~UNCHANGED <<hFile, hCfg>>
  <2>1. hCfg' = toggled /\ SaveClient(toggled) /\ (toggled.auto => CanAutoConnect(toggled))
    BY <1>2, <1>4
  <2>2. ConfigShape(hCfg) /\ OwnPassword(hCfg) /\ (~hRejected => Validate(hCfg))
    BY <1>2, HasPort DEF FilesInv
  <2>3. toggled = [user |-> hCfg.user, pass |-> hCfg.pass, remember |-> hCfg.remember, auto |-> auto,
                   lans |-> hCfg.lans, ca |-> hCfg.ca]
    BY <1>1, <2>2, SwitchedAs
  <2>4. ConfigShape(toggled) /\ toggled.user = hCfg.user /\ toggled.pass = hCfg.pass /\ toggled.lans = hCfg.lans
        /\ toggled.ca = hCfg.ca
    BY <2>3, FieldsAre
  <2>5. OwnPassword(toggled)
    BY <2>2, <2>4 DEF OwnPassword
  <2>6. ~hRejected => Validate(toggled)
    <3>. SUFFICES ASSUME ~hRejected PROVE Validate(toggled)
      OBVIOUS
    <3>1. hCfg.user # Nobody /\ hCfg.ca /\ hCfg.lans = "good"
      BY <2>2, Zenon DEF Validate
    <3>2. toggled.user # Nobody /\ toggled.ca /\ toggled.lans = "good"
      BY <2>4, <3>1, Zenon
    <3>. QED BY <2>1, <3>2, Zenon DEF Validate
  <2>. QED BY <1>2, <2>1, <2>4, <2>5, <2>6, FilesSaved
<1>. QED BY <1>3, <1>4

LEMMA WindowFiles ==
  ASSUME AloneInv, FilesInv, NEW p \in Guis,
         LoginAnswered(p) \/ Logout(p) \/ ToggleSwitch(p) \/ SaveServiceCredentials(p) \/ EnableService(p) \/ DisableService(p)
  PROVE  FilesInv'
<1>1. UNCHANGED <<hCfg, hRejected, hLock>> /\ hPc[p].at = "window"
  BY DEF LoginAnswered, Logout, ToggleSwitch, SaveServiceCredentials, EnableService, DisableService, Edits, Window,
     procVars, fileVars
<1>2. ConfigShape(hCfg) /\ OwnPassword(hCfg) /\ (~hRejected => Validate(hCfg))
  BY <1>1, HasPort DEF FilesInv
<1>3. CASE LoginAnswered(p) \/ Logout(p) \/ ToggleSwitch(p) \/ DisableService(p)
  <2>1. (SaveClient(hCfg) \/ hFile' = hFile) /\ hCreds' = hCreds
    BY <1>3 DEF LoginAnswered, Logout, ToggleSwitch, DisableService, fileVars
  <2>2. PICK c : c = hCfg
    OBVIOUS
  <2>3. hCfg' = c /\ (SaveClient(hCfg') \/ hFile' = hFile) /\ ConfigShape(hCfg') /\ OwnPassword(hCfg')
        /\ (~hRejected => Validate(hCfg'))
    BY <1>1, <1>2, <2>1, <2>2
  <2>. QED BY <1>1, <2>1, <2>3, FilesSaved
<1>4. CASE SaveServiceCredentials(p)
  <2>1. hFile' = hFile /\ hCreds' = [user |-> hCfg.user, pass |-> hCfg.user]
    BY <1>4 DEF SaveServiceCredentials
  <2>. QED BY <1>1, <2>1 DEF FilesInv, FilesTrue, Loads
<1>5. CASE EnableService(p)
  <2>1. hFile' = hFile /\ \/ hCreds' = hCreds
                          \/ hCreds' = [user |-> hCfg.user, pass |-> hCfg.pass] /\ hCfg.pass # Nobody
    BY <1>5 DEF EnableService
  <2>2. hCreds'.pass = hCreds'.user
    BY <1>2, <2>1 DEF OwnPassword, FilesInv, FilesTrue
  <2>. QED BY <1>1, <2>1, <2>2 DEF FilesInv, FilesTrue, Loads
<1>. QED BY <1>3, <1>4, <1>5

(* A window that is closed leaves nothing to work with. *)
LEMMA WindowGone ==
  ASSUME FilesInv, hCfg' = Defaults, hLock' \notin Guis, UNCHANGED <<hFile, hCreds, hRejected>>
  PROVE  FilesInv'
<1>1. ConfigShape(hCfg') /\ OwnPassword(hCfg')
  BY TemplateIs DEF OwnPassword
<1>. QED BY <1>1 DEF FilesInv, FilesTrue, Loads, OwnPassword

LEMMA GuiFiles ==
  ASSUME AloneInv, FilesInv, NEW p \in Guis,
         QuitGui(p) \/ StartGui(p) \/ Probe(p) \/ HandleOccupied(p) \/ AskServiceTakeover(p) \/ WaitStopped(p)
           \/ WaitSingleInstanceFree(p)
  PROVE  FilesInv'
<1>1. CASE QuitGui(p)
  <2>1. CASE p \in hEngine
    BY <1>1, <2>1, FilesStay DEF QuitGui
  <2>2. CASE p \notin hEngine
    <3>1. hCfg' = Defaults /\ hLock' = Nobody /\ UNCHANGED <<hFile, hCreds, hRejected>>
      BY <1>1, <2>2 DEF QuitGui
    <3>. QED BY <3>1, WindowGone, NobodyIs
  <2>. QED BY <2>1, <2>2
<1>2. CASE ~QuitGui(p)
  BY <1>2, FilesStay DEF StartGui, Probe, HandleOccupied, AskServiceTakeover, WaitStopped, WaitSingleInstanceFree, fileVars
<1>. QED BY <1>1, <1>2

LEMMA LoopFiles ==
  ASSUME FilesInv, NEW p \in Loops, LoadBootstrap(p) \/ StartEngine(p) \/ LoopEnds(p) \/ CloseEngine(p)
  PROVE  FilesInv'
<1>1. CASE LoadBootstrap(p)
  <2>1. hFile' = LoadClient(hFile) /\ UNCHANGED <<hLock, hCfg, hCreds, hRejected>>
    BY <1>1 DEF LoadBootstrap
  <2>2. ConfigShape(hFile) /\ OwnPassword(hFile) /\ (~hRejected => Validate(hFile))
    BY DEF FilesInv, FilesTrue, OwnPassword, Loads
  <2>3. ConfigShape(hFile') /\ OwnPassword(hFile') /\ (~hRejected => Validate(hFile'))
    BY <2>1, <2>2, Loaded
  <2>. QED BY <2>1, <2>3 DEF FilesInv, FilesTrue, Loads, OwnPassword
<1>2. CASE ~LoadBootstrap(p)
  BY <1>2, FilesStay DEF StartEngine, LoopEnds, CloseEngine, fileVars
<1>. QED BY <1>1, <1>2

LEMMA OtherFiles ==
  ASSUME AloneInv, FilesInv,
         \/ StartCli \/ AcquireCli \/ DataplaneFails \/ ReleaseCli
         \/ AcquireService \/ ReportRunning \/ StopRequested \/ ServiceLoopEnded \/ ServiceProcessEnds
         \/ InstallService \/ StartService \/ OrderEnds
         \/ \E what \in {"stop", "uninstall"} : OrderStop(what)
  PROVE  FilesInv'
<1>1. UNCHANGED <<hFile, hCfg, hCreds, hRejected>>
  BY DEF StartCli, AcquireCli, DataplaneFails, ReleaseCli, AcquireService, ReportRunning, StopRequested, ServiceLoopEnded,
     ServiceProcessEnds, InstallService, StartService, OrderEnds, OrderStop, fileVars
<1>2. hLock' \in {hLock, Nobody, "cli", "svc"}
  BY DEF StartCli, AcquireCli, DataplaneFails, ReleaseCli, AcquireService, ReportRunning, StopRequested, ServiceLoopEnded,
     ServiceProcessEnds, InstallService, StartService, OrderEnds, OrderStop, procVars
<1>3. hLock' \in Guis => hLock' = hLock
  BY <1>2, NobodyIs DEF Guis
<1>. QED BY <1>1, <1>3, FilesStay

LEMMA DisabledFiles ==
  ASSUME FilesInv, Disabled
  PROVE  FilesInv'
<1>1. UNCHANGED <<hFile, hCfg, hRejected, hLock>> /\ (hCreds' = hCreds \/ hCreds' = [user |-> Nobody, pass |-> Nobody])
  BY DEF Disabled, procVars
<1>. QED BY <1>1 DEF FilesInv, FilesTrue, Loads

LEMMA KillFiles ==
  ASSUME AloneInv, FilesInv, NEW p \in HostProcs, Kill(p)
  PROVE  FilesInv'
<1>1. UNCHANGED <<hFile, hCreds, hRejected>> /\ hLock' = (IF hLock = p THEN Nobody ELSE hLock)
  BY DEF Kill
<1>2. CASE p \in Guis /\ hPc[p].at = "window"
  <2>1. hCfg' = Defaults /\ hLock' = Nobody
    BY <1>1, <1>2, HasPort DEF Kill
  <2>. QED BY <1>1, <2>1, WindowGone, NobodyIs
<1>3. CASE ~(p \in Guis /\ hPc[p].at = "window")
  <2>1. hCfg' = hCfg
    BY <1>3 DEF Kill
  <2>. QED BY <1>1, <2>1, FilesStay, NobodyIs
<1>. QED BY <1>2, <1>3

LEMMA FilesStart ==
  ASSUME HostInit
  PROVE  FilesInv
<1>1. hLock = Nobody /\ hCfg = Defaults /\ hCreds = [user |-> Nobody, pass |-> Nobody]
      /\ (~hRejected => hFile # NoFile)
  BY DEF HostInit
<1>2. PICK user : user = CHOOSE u \in Logins : TRUE
  OBVIOUS
<1>3. user \in Logins /\ user # Nobody
  BY <1>2, HostAssumption
<1>4. hFile = NoFile \/ hFile = [Template EXCEPT !.user = user]
  BY <1>2 DEF HostInit
<1>5. PICK first : first = [Template EXCEPT !.user = user]
  OBVIOUS
<1>6. first = [user |-> user, pass |-> Template.pass, remember |-> Template.remember, auto |-> Template.auto,
               lans |-> Template.lans, ca |-> Template.ca]
  BY <1>5, NamedAs, TemplateIs
<1>7. ConfigShape(first) /\ first.user = user /\ first.pass = Template.pass /\ first.auto = Template.auto
      /\ first.lans = Template.lans /\ first.ca = Template.ca
  BY <1>6, FieldsAre
<1>8. Validate(first) /\ OwnPassword(first)
  <2>1. first.user # Nobody /\ first.lans = "good" /\ first.pass = Nobody /\ first.ca = TRUE /\ first.auto = FALSE
    BY <1>3, <1>7, TemplateIs
  <2>2. first.ca /\ ~first.auto
    BY <2>1, Zenon
  <2>. QED BY <2>1, <2>2, Zenon DEF Validate, OwnPassword
<1>9. ConfigShape(Defaults) /\ OwnPassword(Defaults) /\ ConfigShape(NoFile) /\ OwnPassword(NoFile)
  BY TemplateIs DEF OwnPassword, NoFile
<1>10. ConfigShape(hFile) /\ OwnPassword(hFile) /\ (~hRejected => Validate(hFile))
  BY <1>1, <1>4, <1>5, <1>7, <1>8, <1>9
<1>. QED BY <1>1, <1>9, <1>10, NobodyIs DEF FilesInv, FilesTrue, Loads, OwnPassword

LEMMA FilesSteps ==
  ASSUME AloneInv, FilesInv, [HostNext]_hostVars
  PROVE  FilesInv'
<1>1. CASE UNCHANGED hostVars
  BY <1>1, FilesStay DEF hostVars, procVars, fileVars
<1>2. CASE HostNext
  <2>1. \A p \in Guis :
          (\/ StartGui(p) \/ Probe(p) \/ HandleOccupied(p) \/ AskServiceTakeover(p) \/ WaitStopped(p)
           \/ WaitSingleInstanceFree(p) \/ Acquire(p)
           \/ TryConnect(p) \/ LoginAnswered(p) \/ Logout(p) \/ ToggleAutoConnect(p) \/ ToggleSwitch(p)
           \/ SaveServiceCredentials(p) \/ QuitGui(p) \/ EnableService(p) \/ DisableService(p)) => FilesInv'
    BY GuiFiles, AcquireFiles, ConnectFiles, ToggleFiles, WindowFiles
  <2>2. \A p \in Loops : LoadBootstrap(p) \/ StartEngine(p) \/ LoopEnds(p) \/ CloseEngine(p) => FilesInv'
    BY LoopFiles
  <2>3. \/ StartCli \/ AcquireCli \/ DataplaneFails \/ ReleaseCli
        \/ AcquireService \/ ReportRunning \/ StopRequested \/ ServiceLoopEnded \/ ServiceProcessEnds
        \/ InstallService \/ StartService \/ OrderEnds \/ Disabled
        \/ (\E p \in Loops : LoadBootstrap(p) \/ StartEngine(p) \/ LoopEnds(p) \/ CloseEngine(p))
        \/ (\E what \in {"stop", "uninstall"} : OrderStop(what))
        \/ (\E p \in HostProcs : Kill(p))
        \/ \E p \in Guis :
             \/ StartGui(p) \/ Probe(p) \/ HandleOccupied(p) \/ AskServiceTakeover(p) \/ WaitStopped(p)
             \/ WaitSingleInstanceFree(p) \/ Acquire(p)
             \/ TryConnect(p) \/ LoginAnswered(p) \/ Logout(p) \/ ToggleAutoConnect(p) \/ ToggleSwitch(p)
             \/ SaveServiceCredentials(p) \/ QuitGui(p) \/ EnableService(p) \/ DisableService(p)
    BY <1>2 DEF HostNext
  <2>. QED BY <2>1, <2>2, <2>3, OtherFiles, DisabledFiles, KillFiles
<1>. QED BY <1>1, <1>2

(* As long as nothing was refused client.yaml loads, and every password is *)
(* kept beside the account it was typed for (FilesTrue).                   *)
THEOREM FilesKept == HostSpec => []FilesTrue
<1>1. FilesInv => FilesTrue
  BY DEF FilesInv
<1>. QED BY <1>1, HostStarts, HostSteps, FilesStart, FilesSteps, PTL DEF HostSpec

-----------------------------------------------------------------------------
(***************************************************************************)
(* The machine of a client that shares its connection.  What is shared     *)
(* belongs to an exit, to one that is being preferred, or has a slip that  *)
(* says who left it (Explained); the pair the process remembers is the one *)
(* that is shared unless reuse_live took another (MisInv).  The address of *)
(* the device and its source are kept beside that (SourceInv).             *)
(***************************************************************************)
RunShape(r) == r = [open |-> r.open, ip |-> r.ip, lans |-> r.lans, preferred |-> r.preferred,
                    ph |-> r.ph, sub |-> r.sub, plan |-> r.plan, via |-> r.via,
                    pref |-> r.pref, cut |-> r.cut]
ShareShape(s) == s = [pub |-> s.pub, prv |-> s.prv, coming |-> s.coming]
ProcShape(p) == p = [warmed |-> p.warmed, snap |-> p.snap, pair |-> p.pair,
                     noWinNat |-> p.noWinNat]
AdapterShape(w) == w = [there |-> w.there, addrs |-> w.addrs, skip |-> w.skip,
                        prefix |-> w.prefix, default |-> w.default]
NetShape == RunShape(run) /\ ShareShape(share) /\ ProcShape(proc) /\ AdapterShape(wintun)

Kept(d, r) == d.open = r.open /\ d.ip = r.ip

LEMMA RunStart ==
    /\ RunShape(NewRun) /\ NewRun.ph = "off" /\ NewRun.via = NoExit /\ NewRun.open = FALSE
    /\ ShareShape(Unshared) /\ ~Shared(Unshared)
    /\ ProcShape(NewProc) /\ NewProc.pair = NoNic
    /\ AdapterShape(NoAdapter) /\ NoAdapter.addrs = {}
    /\ NoExit.mode = "none"
BY DEF RunShape, NewRun, ShareShape, Unshared, Shared, ProcShape, NewProc, AdapterShape, NoAdapter, NoExit

LEMMA RunVia ==
    ASSUME RunShape(run), NEW ph, NEW d, d = NoVia(ph)
    PROVE  RunShape(d) /\ Kept(d, run) /\ d.ph = ph /\ d.via = NoExit
BY DEF NoVia, RunShape, Kept

LEMMA RunBegun ==
    ASSUME RunShape(run), NEW ph, NEW s, NEW d, d = [NoVia(ph) EXCEPT !.sub = s]
    PROVE  RunShape(d) /\ Kept(d, run) /\ d.ph = ph /\ d.via = NoExit
<1>1. PICK e : e = NoVia(ph)
  OBVIOUS
<1>2. RunShape(e) /\ Kept(e, run) /\ e.ph = ph /\ e.via = NoExit
  BY <1>1, RunVia
<1>3. d = [e EXCEPT !.sub = s]
  BY <1>1
<1> QED
  BY <1>2, <1>3 DEF RunShape, Kept

LEMMA RunUp ==
    ASSUME RunShape(run), NEW mode, NEW pref, NEW d, d = Up(mode, pref)
    PROVE  /\ RunShape(d) /\ Kept(d, run) /\ d.ph = "up" /\ d.pref = pref
           /\ d.via.mode = mode /\ d.via.sub = run.sub /\ d.via.plan = run.plan
<1>1. PICK v : v = [mode |-> mode, sub |-> run.sub, plan |-> run.plan]
  OBVIOUS
<1>2. d = [run EXCEPT !.ph = "up", !.via = v, !.sub = NoRule, !.plan = NoNic, !.pref = pref]
  BY <1>1 DEF Up
<1>3. RunShape(d) /\ Kept(d, run) /\ d.ph = "up" /\ d.pref = pref /\ d.via = v
  BY <1>2 DEF RunShape, Kept
<1> QED
  BY <1>1, <1>3

LEMMA RunForward ==
    ASSUME RunShape(run), NEW d, d = OnlyForward
    PROVE  RunShape(d) /\ Kept(d, run) /\ d.ph = "up" /\ d.via.mode = "forward"
<1>1. PICK e : e = Up("forward", "none")
  OBVIOUS
<1>2. /\ RunShape(e) /\ Kept(e, run) /\ e.ph = "up" /\ e.via.mode = "forward"
  BY <1>1, RunUp
<1>3. e.via = [mode |-> "forward", sub |-> run.sub, plan |-> run.plan]
  BY <1>1 DEF Up, RunShape
<1>4. d = [e EXCEPT !.via.plan = NoNic]
  BY <1>1 DEF OnlyForward
<1>5. PICK v : v = [e.via EXCEPT !.plan = NoNic]
  OBVIOUS
<1>6. v.mode = "forward"
  BY <1>3, <1>5
<1>7. d = [e EXCEPT !.via = v]
  BY <1>4, <1>5
<1> QED
  BY <1>2, <1>6, <1>7 DEF RunShape, Kept

LEMMA RunPhase ==
    ASSUME NEW r, RunShape(r), NEW ph, NEW d, d = [r EXCEPT !.ph = ph]
    PROVE  RunShape(d) /\ Kept(d, r) /\ d.ph = ph /\ d.via = r.via /\ d.plan = r.plan /\ d.pref = r.pref
BY DEF RunShape, Kept

LEMMA RunCut ==
    ASSUME NEW r, RunShape(r), NEW d, d = [r EXCEPT !.cut = TRUE]
    PROVE  RunShape(d) /\ Kept(d, r) /\ d.ph = r.ph /\ d.via = r.via /\ d.plan = r.plan /\ d.pref = r.pref
BY DEF RunShape, Kept

LEMMA RunOpened ==
    ASSUME NEW v, NEW lans, NEW nic, NEW d,
           d = [NewRun EXCEPT !.open = TRUE, !.ip = v, !.lans = lans, !.ph = "open", !.preferred = nic]
    PROVE  RunShape(d) /\ d.open = TRUE /\ d.ip = v /\ d.ph = "open" /\ d.via = NoExit
BY RunStart DEF RunShape, NewRun

Tidy(w, v) == v \in w.addrs /\ w.addrs \subseteq {v, Ics}

LEMMA DeletedKeeps ==
    ASSUME NEW w, AdapterShape(w), NEW ips, NEW d, d = Deleted(w, ips)
    PROVE  /\ AdapterShape(d) /\ d.addrs = w.addrs \ ips /\ d.skip = w.skip \ ips
           /\ d.prefix = w.prefix /\ d.default = w.default
<1>1. d = [[w EXCEPT !.addrs = w.addrs \ ips] EXCEPT !.skip = w.skip \ ips]
  BY DEF Deleted, AdapterShape
<1> QED
  BY <1>1 DEF AdapterShape

(* Replace by whether 137 is kept.                                         *)
Beside(w, v, prefix) == Replace(w, v, prefix, TRUE)
Alone(w, v, prefix) == Replace(w, v, prefix, FALSE)
Wanted(k, w, v, prefix) ==
    [k EXCEPT !.addrs = @ \cup {v}, !.prefix = prefix,
              !.skip = IF v \in w.addrs /\ w.prefix = prefix THEN @ ELSE @ \ {v}]

LEMMA WantedSets ==
    ASSUME NEW w, NEW k, AdapterShape(k), NEW v, NEW prefix, NEW d, d = Wanted(k, w, v, prefix)
    PROVE  /\ AdapterShape(d) /\ d.prefix = prefix /\ d.default = k.default
           /\ d.addrs = k.addrs \cup {v}
<1>1. PICK sk : sk = IF v \in w.addrs /\ w.prefix = prefix THEN k.skip ELSE k.skip \ {v}
  OBVIOUS
<1>2. PICK ad : ad = k.addrs \cup {v}
  OBVIOUS
<1>3. d = [k EXCEPT !.addrs = ad, !.prefix = prefix, !.skip = sk]
  BY <1>1, <1>2 DEF AdapterShape, Wanted
<1> QED
  BY <1>2, <1>3 DEF AdapterShape

LEMMA BesideSets ==
    ASSUME NEW w, AdapterShape(w), NEW v, NEW prefix, NEW d, d = Beside(w, v, prefix)
    PROVE  /\ AdapterShape(d) /\ d.prefix = prefix /\ d.default = w.default
           /\ d.addrs = (w.addrs \cap {Ics}) \cup {v}
<1>1. PICK g : g = w.addrs \ {v, Ics}
  OBVIOUS
<1>2. PICK k : k = Deleted(w, g)
  OBVIOUS
<1>3. AdapterShape(k) /\ k.addrs = w.addrs \ g /\ k.default = w.default
  BY <1>2, DeletedKeeps
<1>4. k = Deleted(w, w.addrs \ ({v} \cup {Ics}))
  BY <1>1, <1>2
<1>5. d = Wanted(k, w, v, prefix)
  BY <1>4 DEF Beside, Replace, Wanted
<1> QED
  BY <1>1, <1>3, <1>5, WantedSets

LEMMA AloneSets ==
    ASSUME NEW w, AdapterShape(w), NEW v, NEW prefix, NEW d, d = Alone(w, v, prefix)
    PROVE  AdapterShape(d) /\ d.prefix = prefix /\ d.default = w.default /\ d.addrs = {v}
<1>1. PICK g : g = w.addrs \ {v}
  OBVIOUS
<1>2. PICK k : k = Deleted(w, g)
  OBVIOUS
<1>3. AdapterShape(k) /\ k.addrs = w.addrs \ g /\ k.default = w.default
  BY <1>2, DeletedKeeps
<1>4. k = Deleted(w, w.addrs \ ({v} \cup {}))
  BY <1>1, <1>2
<1>5. d = Wanted(k, w, v, prefix)
  BY <1>4 DEF Alone, Replace, Wanted
<1> QED
  BY <1>1, <1>3, <1>5, WantedSets

LEMMA NetshSets ==
    ASSUME NEW w, AdapterShape(w), NEW v, NEW d, d = Netsh(w, v)
    PROVE  AdapterShape(d) /\ d.addrs = {v} /\ d.default = w.default
BY DEF Netsh, AdapterShape

LEMMA SourcesMark ==
    ASSUME NEW w, AdapterShape(w), NEW v, v # Ics, NEW d, d = Sources(w, v)
    PROVE  /\ AdapterShape(d) /\ d.addrs = w.addrs /\ d.prefix = w.prefix /\ d.default = w.default
           /\ v \notin d.skip /\ (Ics \in w.addrs => Ics \in d.skip)
<1>1. d = [w EXCEPT !.skip = (w.skip \ {v}) \cup (w.addrs \cap {Ics})]
  BY DEF Sources, AdapterShape
<1> QED
  BY <1>1 DEF AdapterShape

LEMMA ScrubClears ==
    ASSUME NEW w, AdapterShape(w), NEW d, d = Scrub(w)
    PROVE  /\ AdapterShape(d) /\ d.addrs = w.addrs /\ d.prefix = w.prefix /\ d.default = FALSE
           /\ d.skip = w.skip
BY DEF Scrub, AdapterShape

(* What Prefer leaves of an adapter.                                       *)
PreferredWell(w, v, x, report) ==
    /\ AdapterShape(x) /\ (Tidy(w, v) => Tidy(x, v))
    /\ Residue(x) => Residue(w) /\ x.prefix = w.prefix
    /\ report # "warn" /\ Residue(x)
         => v \notin x.skip /\ Ics \in x.skip /\ (x.default => report = "route")

LEMMA PreferWell ==
    ASSUME NEW w, AdapterShape(w), NEW v, v # Ics, NEW cut, NEW p \in Prefer(w, v, cut)
    PROVE  PreferredWell(w, v, p[1], p[2])
<1>1. PICK u : u = Scrub(w)
  OBVIOUS
<1>2. AdapterShape(u) /\ u.addrs = w.addrs /\ u.prefix = w.prefix
  BY <1>1, ScrubClears
<1>3. CASE p = <<w, "warn">> \/ p = <<u, "warn">>
  BY <1>2, <1>3 DEF PreferredWell, Tidy, Residue
<1>4. CASE {v, Ics} \subseteq w.addrs /\ p \in Preferred(Sources(w, v))
  <2>1. PICK x : x = Sources(w, v)
    OBVIOUS
  <2>2. /\ AdapterShape(x) /\ x.addrs = w.addrs /\ x.prefix = w.prefix
        /\ v \notin x.skip /\ Ics \in x.skip
    BY <1>4, <2>1, SourcesMark
  <2>3. PICK y : y = Scrub(x)
    OBVIOUS
  <2>4. AdapterShape(y) /\ y.addrs = w.addrs /\ y.prefix = w.prefix /\ y.default = FALSE /\ y.skip = x.skip
    BY <2>2, <2>3, ScrubClears
  <2>5. p = <<x, "route">> \/ p = <<y, "ok">>
    BY <1>4, <2>1, <2>3 DEF Preferred
  <2> QED
    BY <2>2, <2>4, <2>5 DEF PreferredWell, Tidy, Residue
<1>5. CASE ~Residue(w) /\ p \in Preferred(FullPrefer(w, v))
  <2>0. PICK prefix : prefix = IF v \in w.addrs THEN w.prefix ELSE 32
    OBVIOUS
  <2>1. PICK z : z = Beside(w, v, prefix)
    OBVIOUS
  <2>2. AdapterShape(z) /\ v \in z.addrs /\ z.addrs \subseteq {v, Ics} /\ Ics \notin z.addrs
    BY <1>5, <2>1, BesideSets DEF Residue
  <2>3. PICK x : x = Sources(z, v)
    OBVIOUS
  <2>4. AdapterShape(x) /\ x.addrs = z.addrs
    BY <2>2, <2>3, SourcesMark
  <2>5. PICK y : y = Scrub(x)
    OBVIOUS
  <2>6. AdapterShape(y) /\ y.addrs = z.addrs
    BY <2>4, <2>5, ScrubClears
  <2>7. x = FullPrefer(w, v)
    BY <2>0, <2>1, <2>3 DEF FullPrefer, Beside
  <2>8. p = <<x, "route">> \/ p = <<y, "ok">>
    BY <1>5, <2>5, <2>7 DEF Preferred
  <2> QED
    BY <2>2, <2>4, <2>6, <2>8 DEF PreferredWell, Tidy, Residue
<1> QED
  BY <1>1, <1>3, <1>4, <1>5 DEF Prefer

(* What a script that ends sharing may have done.                          *)
Eased(w, x) == AdapterShape(x) /\ (x = w \/ x.addrs = w.addrs \ {Ics})
Unshares(s, d) == ShareShape(d.s) /\ d.slip \in {{}, {"failed"}} /\ (Shared(d.s) => d.slip = {"failed"})

LEMMA EasedTwice ==
    ASSUME NEW w, NEW x, NEW y, Eased(w, x), Eased(x, y)
    PROVE  Eased(w, y)
BY DEF Eased

LEMMA UnsetEases ==
    ASSUME NEW w, AdapterShape(w), NEW x \in Unset(w)
    PROVE  Eased(w, x)
BY DeletedKeeps DEF Unset, Eased

LEMMA AllUnshares ==
    ASSUME NEW w, AdapterShape(w), NEW s, ShareShape(s), NEW d \in DisableAll(w, s)
    PROVE  Eased(w, d.w) /\ Unshares(s, d)
<1>1. CASE \E x \in Unset(w) : d = [w |-> x, s |-> Unshared, slip |-> {}]
  <2>1. PICK x \in Unset(w) : d = [w |-> x, s |-> Unshared, slip |-> {}]
    BY <1>1
  <2>2. d.w = x /\ d.s = Unshared /\ d.slip = {}
    BY <2>1
  <2> QED
    BY <2>2, UnsetEases, RunStart DEF Unshares
<1>2. CASE d = [w |-> w, s |-> s, slip |-> {"failed"}]
  <2>1. d.w = w /\ d.s = s /\ d.slip = {"failed"}
    BY <1>2
  <2> QED
    BY <2>1 DEF Unshares, Eased
<1> QED
  BY <1>1, <1>2 DEF DisableAll

LEMMA PairUnshares ==
    ASSUME NEW w, AdapterShape(w), NEW s, ShareShape(s), NEW pub, NEW d \in DisablePair(w, s, pub)
    PROVE  /\ Eased(w, d.w) /\ ShareShape(d.s) /\ d.slip \in {{}, {"failed"}}
           /\ Shared(d.s) => d.slip = {"failed"} \/ (Shared(s) /\ s.pub # pub)
<1>0. PICK t : t = [pub |-> IF s.pub = pub THEN NoNic ELSE s.pub, prv |-> FALSE, coming |-> FALSE]
  OBVIOUS
<1>1. CASE \E x \in Unset(w) : d = [w |-> x, s |-> t, slip |-> {}]
  <2>1. PICK x \in Unset(w) : d = [w |-> x, s |-> t, slip |-> {}]
    BY <1>1
  <2>2. d.w = x /\ d.s = t /\ d.slip = {}
    BY <2>1
  <2>3. ShareShape(t) /\ t.prv = FALSE /\ (s.pub = pub => t.pub = NoNic) /\ (s.pub # pub => t.pub = s.pub)
    BY <1>0 DEF ShareShape
  <2> QED
    BY <2>2, <2>3, UnsetEases DEF Shared
<1>2. CASE d = [w |-> w, s |-> s, slip |-> {"failed"}]
  <2>1. d.w = w /\ d.s = s /\ d.slip = {"failed"}
    BY <1>2
  <2> QED
    BY <2>1 DEF Eased
<1> QED
  BY <1>0, <1>1, <1>2 DEF DisablePair

(* What is still shared after DisableICSSessionContext has a script that   *)
(* failed, or is not the pair that was remembered.                         *)
LEMMA SessionUnshares ==
    ASSUME NEW w, AdapterShape(w), NEW s, ShareShape(s), NEW pair, NEW cut,
           NEW d \in DisableSession(w, s, pair, cut)
    PROVE  /\ Eased(w, d.w) /\ ShareShape(d.s) /\ d.slip \in {{}, {"failed"}}
           /\ Shared(d.s) => d.slip = {"failed"} \/ (Shared(s) /\ pair \notin {NoNic, s.pub})
<1>1. CASE pair = NoNic
  BY <1>1, AllUnshares DEF DisableSession, Unshares
<1>2. CASE pair # NoNic
  <2>1. PICK e \in DisablePair(w, s, pair) :
           d \in IF Residue(e.w) THEN DisableAll(e.w, e.s) ELSE {e}
    BY <1>2 DEF DisableSession
  <2>2. /\ Eased(w, e.w) /\ ShareShape(e.s) /\ e.slip \in {{}, {"failed"}}
        /\ Shared(e.s) => e.slip = {"failed"} \/ (Shared(s) /\ s.pub # pair)
    BY <2>1, PairUnshares
  <2>3. CASE Residue(e.w) /\ d \in DisableAll(e.w, e.s)
    <3>1. PICK x, t : x = e.w /\ t = e.s
      OBVIOUS
    <3>2. Eased(x, d.w) /\ Unshares(t, d)
      BY <2>2, <2>3, <3>1, AllUnshares DEF Eased
    <3> QED
      BY <2>2, <3>1, <3>2, EasedTwice DEF Unshares
  <2>4. CASE d = e
    BY <1>2, <2>2, <2>4
  <2> QED
    BY <2>1, <2>3, <2>4
<1> QED
  BY <1>1, <1>2

-----------------------------------------------------------------------------
(* Tearing an exit down                                                    *)

(* The part of the invariant that says why something is shared.            *)
Explained(s, r, sl) == Shared(s) \/ r # NoRule => sl \cap Excused # {}

LEMMA SettledExplains ==
    ASSUME NEW s, NEW r, NEW sl, Explained(s, r, sl)
    PROVE  Explained(s, r, Settled(sl, s, r))
BY DEF Explained, Settled

LEMMA SettledKeeps ==
    ASSUME NEW s, NEW r, NEW sl
    PROVE  /\ Settled(sl, s, r) \subseteq sl
           /\ \A x \in sl : x \in Settled(sl, s, r) \/ (x \in Excused /\ ~Shared(s))
BY DEF Settled

MisInv(s, pair, sl) == Shared(s) /\ pair \notin {NoNic, s.pub} => "mispaired" \in sl

LEMMA TeardownExplains ==
    ASSUME NetShape, NEW preserve \in BOOLEAN, NEW thenRun,
           HasExit \/ Explained(share, rule, slips), MisInv(share, proc.pair, slips),
           TeardownVia(preserve, thenRun)
    PROVE  /\ run' = thenRun /\ ShareShape(share') /\ ProcShape(proc') /\ Eased(wintun, wintun')
           /\ Explained(share', rule', slips') /\ MisInv(share', proc'.pair, slips')
           /\ preserve = TRUE => wintun' = wintun
           /\ \A x \in {"stale", "narrow", "late"} : x \in slips <=> x \in slips'
<1>1. CASE ~HasExit
  BY <1>1 DEF TeardownVia, NetShape, Eased
<1>2. CASE HasExit
  <2>1. PICK ds : ds = IF preserve THEN {[w |-> wintun, s |-> share, slip |-> {}]}
                       ELSE DisableSession(wintun, share, proc.pair, run.cut)
    OBVIOUS
  <2>2. PICK lost : lost = IF rule' # NoRule THEN {"failed"} ELSE {}
    OBVIOUS
  <2>3. PICK held : held = IF preserve /\ Shared(share) THEN {"kept"} ELSE {}
    OBVIOUS
  <2>4. /\ run' = thenRun
        /\ proc' = [proc EXCEPT !.pair = IF preserve THEN @ ELSE NoNic]
        /\ \E d \in ds : /\ wintun' = d.w /\ share' = d.s
                         /\ slips' = Settled(slips \cup d.slip \cup lost \cup held, d.s, rule')
    BY <1>2, <2>1, <2>2, <2>3 DEF TeardownVia
  <2>5. PICK d \in ds : /\ wintun' = d.w /\ share' = d.s
                        /\ slips' = Settled(slips \cup d.slip \cup lost \cup held, d.s, rule')
    BY <2>4
  <2>6. PICK sl : sl = slips \cup d.slip \cup lost \cup held
    OBVIOUS
  <2>7. /\ Eased(wintun, d.w) /\ ShareShape(d.s) /\ d.slip \in {{}, {"failed"}}
        /\ preserve = TRUE => d.w = wintun /\ d.s = share
        /\ preserve = FALSE /\ Shared(d.s)
             => d.slip = {"failed"} \/ (Shared(share) /\ proc.pair \notin {NoNic, share.pub})
    <3>1. CASE preserve = TRUE
      <4>1. d = [w |-> wintun, s |-> share, slip |-> {}]
        BY <2>1, <3>1
      <4>2. d.w = wintun /\ d.s = share /\ d.slip = {}
        BY <4>1
      <4> QED
        BY <3>1, <4>2 DEF NetShape, Eased
    <3>2. CASE preserve = FALSE
      <4>1. PICK pair, c : pair = proc.pair /\ c = run.cut
        OBVIOUS
      <4>2. d \in DisableSession(wintun, share, pair, c)
        BY <2>1, <3>2, <4>1
      <4> QED
        BY <3>2, <4>1, <4>2, SessionUnshares DEF NetShape
    <3> QED
      BY <3>1, <3>2
  <2>8. Explained(d.s, rule', sl)
    BY <2>2, <2>3, <2>6, <2>7 DEF Explained, MisInv, Excused, Owned
  <2>9. slips' = Settled(sl, share', rule') /\ Explained(share', rule', sl)
    BY <2>5, <2>6, <2>8
  <2>10. PICK pair : pair = IF preserve THEN proc.pair ELSE NoNic
    OBVIOUS
  <2>11. proc' = [proc EXCEPT !.pair = pair]
    BY <2>4, <2>10 DEF NetShape, ProcShape
  <2>12. ProcShape(proc') /\ proc'.pair = pair
    BY <2>11 DEF NetShape, ProcShape
  <2>13. MisInv(share', pair, sl)
    BY <2>5, <2>6, <2>7, <2>10 DEF MisInv
  <2>14. MisInv(share', pair, slips')
    BY <2>9, <2>13, SettledKeeps DEF MisInv
  <2>15. \A x \in {"stale", "narrow", "late"} : x \in slips <=> x \in sl
    BY <2>2, <2>3, <2>6, <2>7
  <2>16. \A x \in {"stale", "narrow", "late"} : x \in sl <=> x \in slips'
    BY <2>9, SettledKeeps DEF Excused, Owned
  <2> QED
    BY <2>4, <2>5, <2>7, <2>9, <2>12, <2>14, <2>15, <2>16, SettledExplains
<1> QED
  BY <1>1, <1>2

-----------------------------------------------------------------------------
(* Setting the address                                                     *)

LEMMA HalfEmpties ==
    ASSUME NEW w, AdapterShape(w), NEW v, NEW h \in HalfReplaced(w, v)
    PROVE  AdapterShape(h) /\ h.default = w.default
BY DeletedKeeps DEF HalfReplaced

AssignedWell(x, v, bad) ==
    /\ AdapterShape(x) /\ bad \subseteq {"narrow", "stale"}
    /\ "stale" \notin bad => Tidy(x, v) /\ (Residue(x) => x.prefix = 24 \/ "narrow" \in bad)

LEMMA AssignWell ==
    ASSUME NEW w, AdapterShape(w), NEW v, v # Ics, NEW a \in Assign(w, v)
    PROVE  AssignedWell(a[1], v, a[2])
<1>1. CASE a = <<SetOnIndex(w, v), {}>>
  <2>1. PICK prefix : prefix = IF Residue(w) THEN 24 ELSE 32
    OBVIOUS
  <2>2. PICK x : x = SetOnIndex(w, v)
    OBVIOUS
  <2>3. CASE Residue(w)
    <3>0. Residue(w) = TRUE
      BY <2>3 DEF Residue
    <3>1. x = Beside(w, v, prefix)
      BY <2>1, <2>2, <3>0, Zenon DEF SetOnIndex, Beside, Alone
    <3>2. /\ AdapterShape(x) /\ x.prefix = prefix /\ v \in x.addrs /\ x.addrs \subseteq {v, Ics}
          /\ Ics \in x.addrs => Ics \in w.addrs
      BY <3>1, BesideSets
    <3>3. a[1] = x /\ a[2] = {}
      BY <1>1, <2>2
    <3> QED
      BY <2>1, <2>3, <3>2, <3>3 DEF AssignedWell, Tidy, Residue
  <2>4. CASE ~Residue(w)
    <3>0. Residue(w) = FALSE
      BY <2>4 DEF Residue
    <3>1. x = Alone(w, v, prefix)
      BY <2>1, <2>2, <3>0, Zenon DEF SetOnIndex, Beside, Alone
    <3>2. /\ AdapterShape(x) /\ x.prefix = prefix /\ v \in x.addrs /\ x.addrs \subseteq {v, Ics}
          /\ Ics \in x.addrs => Ics \in w.addrs
      BY <3>1, AloneSets
    <3>3. a[1] = x /\ a[2] = {}
      BY <1>1, <2>2
    <3> QED
      BY <2>4, <3>2, <3>3 DEF AssignedWell, Tidy, Residue
  <2> QED
    BY <2>3, <2>4
<1>2. CASE \E h \in HalfReplaced(w, v) :
             a \in {<<Netsh(h, v), {}>>,
                    <<AssignPS(h, v), IF Residue(h) THEN {"narrow"} ELSE {}>>,
                    <<h, {"stale"}>>}
  <2>1. PICK h \in HalfReplaced(w, v) :
             a \in {<<Netsh(h, v), {}>>,
                    <<AssignPS(h, v), IF Residue(h) THEN {"narrow"} ELSE {}>>,
                    <<h, {"stale"}>>}
    BY <1>2
  <2>2. AdapterShape(h)
    BY HalfEmpties
  <2>3. CASE a = <<Netsh(h, v), {}>>
    <3>1. PICK x : x = Netsh(h, v)
      OBVIOUS
    <3>2. AdapterShape(x) /\ x.addrs = {v}
      BY <2>2, <3>1, NetshSets
    <3>3. a[1] = x /\ a[2] = {}
      BY <2>3, <3>1
    <3> QED
      BY <3>2, <3>3 DEF AssignedWell, Tidy, Residue
  <2>4. CASE a = <<AssignPS(h, v), IF Residue(h) THEN {"narrow"} ELSE {}>>
    <3>0. PICK prefix : prefix = 32
      OBVIOUS
    <3>1. PICK x : x = Beside(h, v, prefix)
      OBVIOUS
    <3>2. /\ AdapterShape(x) /\ v \in x.addrs /\ x.addrs \subseteq {v, Ics}
          /\ Ics \in x.addrs => Ics \in h.addrs
      BY <2>2, <3>1, BesideSets
    <3>3. a[1] = x /\ a[2] = IF Residue(h) THEN {"narrow"} ELSE {}
      BY <2>4, <3>0, <3>1 DEF AssignPS, Beside
    <3> QED
      BY <3>2, <3>3 DEF AssignedWell, Tidy, Residue
  <2>5. CASE a = <<h, {"stale"}>>
    BY <2>2, <2>5 DEF AssignedWell
  <2> QED
    BY <2>1, <2>3, <2>4, <2>5
<1> QED
  BY <1>1, <1>2, Zenon DEF Assign

-----------------------------------------------------------------------------
(* The steps and what is shared                                            *)

ShareInv ==
    /\ NetShape
    /\ (run.open = TRUE) <=> (run.ph # "off")
    /\ (run.open = TRUE) => run.ip # Ics
    /\ run.ph \notin {"up", "failed"} => run.via = NoExit
    /\ HasExit \/ run.ph = "prefer" \/ Explained(share, rule, slips)
    /\ MisInv(share, proc.pair, slips)
    /\ run.ph = "prefer" /\ "mispaired" \notin slips => share.pub = run.plan /\ share.prv
    /\ run.via.mode = "ics" /\ "mispaired" \notin slips
         => share.pub = run.via.plan /\ share.prv
    /\ run.via.mode = "rule" => rule = run.via.sub

LEMMA ShareWarm ==
    ASSUME ShareInv, Warmup
    PROVE  ShareInv'
<1>1. AdapterShape(wintun')
  BY DEF Warmup, ShareInv, NetShape, AdapterShape
<1>2. ProcShape(proc') /\ proc'.pair = proc.pair
  BY DEF Warmup, ShareInv, NetShape, ProcShape
<1> QED
  BY <1>1, <1>2 DEF Warmup, ShareInv, NetShape, HasExit

LEMMA WarmLost ==
    ASSUME NetShape, proc' = [proc EXCEPT !.warmed = FALSE]
    PROVE  ProcShape(proc') /\ proc'.pair = proc.pair
BY DEF NetShape, ProcShape

LEMMA ShareOpens ==
    ASSUME ShareInv, NEW v, v # Ics, OpenDevice(v)
    PROVE  ShareInv'
<1>1. PICK a \in Assign(wintun, v), lans \in BOOLEAN, preferred \in Nics \cup {NoNic} :
         /\ wintun' = [a[1] EXCEPT !.there = TRUE]
         /\ slips' = (slips \ {"stale", "narrow", "late"}) \cup a[2]
         /\ run' = IF v \in a[1].addrs
                   THEN [NewRun EXCEPT !.open = TRUE, !.ip = v, !.lans = lans, !.ph = "open",
                                       !.preferred = IF lans THEN preferred ELSE NoNic]
                   ELSE NewRun
  BY Zenon DEF OpenDevice
<1>2. PICK x, bad : x = a[1] /\ bad = a[2]
  OBVIOUS
<1>3. AdapterShape(x) /\ bad \subseteq {"narrow", "stale"}
  BY <1>2, AssignWell DEF ShareInv, NetShape, AssignedWell
<1>4. wintun' = [x EXCEPT !.there = TRUE] /\ slips' = (slips \ {"stale", "narrow", "late"}) \cup bad
  BY <1>1, <1>2
<1>5. AdapterShape(wintun')
  BY <1>3, <1>4 DEF AdapterShape
<1>6. /\ RunShape(run') /\ run'.via = NoExit
      /\ (run'.open = TRUE) <=> (run'.ph # "off")
      /\ (run'.open = TRUE) => run'.ip # Ics
      /\ run'.ph \in {"off", "open"}
  <2>1. PICK nic, la : nic = (IF lans THEN preferred ELSE NoNic) /\ la = lans
    OBVIOUS
  <2>2. PICK d : d = [NewRun EXCEPT !.open = TRUE, !.ip = v, !.lans = la, !.ph = "open", !.preferred = nic]
    OBVIOUS
  <2>3. RunShape(d) /\ d.open = TRUE /\ d.ip = v /\ d.ph = "open" /\ d.via = NoExit
    BY <2>2, RunStart DEF RunShape, NewRun
  <2>4. run' = d \/ run' = NewRun
    BY <1>1, <2>1, <2>2
  <2> QED
    BY <2>3, <2>4, RunStart
<1>7. proc' = [proc EXCEPT !.warmed = FALSE] /\ run.ph = "off" /\ UNCHANGED <<share, rule>>
  BY DEF OpenDevice
<1>8. ProcShape(proc') /\ proc'.pair = proc.pair
  BY <1>7, WarmLost DEF ShareInv
<1>9. Explained(share', rule', slips') /\ MisInv(share', proc'.pair, slips')
  BY <1>3, <1>4, <1>7, <1>8, RunStart DEF ShareInv, Explained, MisInv, HasExit, Excused, Owned
<1>10. NetShape'
  BY <1>5, <1>6, <1>7, <1>8 DEF ShareInv, NetShape
<1>11. run'.via.mode = "none" /\ run'.ph # "prefer"
  BY <1>6, RunStart
<1> QED
  BY <1>6, <1>9, <1>10, <1>11 DEF ShareInv

LEMMA ShareOpenFails ==
    ASSUME ShareInv, OpenFails
    PROVE  ShareInv'
<1>1. AdapterShape(wintun')
  BY RunStart DEF OpenFails, ShareInv, NetShape
<1>2. ProcShape(proc') /\ proc'.pair = proc.pair
  BY WarmLost DEF OpenFails, ShareInv
<1> QED
  BY <1>1, <1>2 DEF OpenFails, ShareInv, NetShape, HasExit

LEMMA ShareSoftMove ==
    ASSUME ShareInv, NEW v, v # Ics, SoftMove(v)
    PROVE  ShareInv'
<1>1. RunShape(run) /\ AdapterShape(wintun) /\ run.ph \in {"open", "up"} /\ UNCHANGED <<share, rule, proc>>
  BY DEF SoftMove, ShareInv, NetShape
<1>2. CASE \E p \in Prefer(Replace(wintun, v, IF Residue(wintun) THEN 24 ELSE 32, TRUE), v, FALSE) :
            /\ wintun' = p[1]
            /\ run' = [run EXCEPT !.ip = v, !.pref = p[2]]
            /\ slips' = slips \ {"stale", "narrow", "late"}
  <2>0. PICK prefix : prefix = IF Residue(wintun) THEN 24 ELSE 32
    OBVIOUS
  <2>1. PICK x : x = Beside(wintun, v, prefix)
    OBVIOUS
  <2>2. AdapterShape(x) /\ Tidy(x, v)
    BY <1>1, <2>1, BesideSets DEF Tidy
  <2>3. PICK p \in Prefer(x, v, FALSE) :
            /\ wintun' = p[1]
            /\ run' = [run EXCEPT !.ip = v, !.pref = p[2]]
            /\ slips' = slips \ {"stale", "narrow", "late"}
    BY <1>2, <2>0, <2>1 DEF Beside
  <2>4. PreferredWell(x, v, p[1], p[2])
    BY <2>2, PreferWell
  <2>5. PICK pref : pref = p[2]
    OBVIOUS
  <2>6. RunShape(run') /\ run'.open = run.open /\ run'.ip = v /\ run'.ph = run.ph /\ run'.via = run.via
    <3>1. run' = [run EXCEPT !.ip = v, !.pref = pref]
      BY <2>3, <2>5
    <3> QED
      BY <1>1, <3>1 DEF RunShape
  <2>7. /\ Explained(share, rule, slips) => Explained(share', rule', slips')
        /\ MisInv(share', proc'.pair, slips')
        /\ "mispaired" \in slips => "mispaired" \in slips'
    BY <1>1, <2>3 DEF Explained, MisInv, ShareInv, Excused, Owned
  <2> QED
    BY <1>1, <2>3, <2>4, <2>6, <2>7 DEF ShareInv, NetShape, HasExit, PreferredWell
<1>3. CASE /\ wintun' \in HalfReplaced(wintun, v)
           /\ run' = [run EXCEPT !.ph = "failed"]
           /\ slips' = slips \cup {"stale"}
  <2>1. AdapterShape(wintun')
    BY <1>1, <1>3, HalfEmpties
  <2>2. RunShape(run') /\ Kept(run', run) /\ run'.ph = "failed" /\ run'.via = run.via
    BY <1>1, <1>3, RunPhase
  <2>3. /\ Explained(share, rule, slips) => Explained(share', rule', slips')
        /\ MisInv(share', proc'.pair, slips')
    BY <1>1, <1>3 DEF Explained, MisInv, ShareInv
  <2> QED
    BY <1>1, <1>3, <2>1, <2>2, <2>3 DEF Kept, ShareInv, NetShape, HasExit
<1> QED
  BY <1>2, <1>3 DEF SoftMove

(* A step after which the runtime has no exit.                             *)
LEMMA ShareNoExit ==
    ASSUME ShareInv, NetShape', run'.via = NoExit, run'.ph # "prefer",
           (run'.open = TRUE) <=> (run'.ph # "off"), (run'.open = TRUE) => run'.ip # Ics,
           Explained(share', rule', slips'), MisInv(share', proc'.pair, slips')
    PROVE  ShareInv'
<1>1. run'.via.mode = "none"
  BY RunStart
<1> QED
  BY <1>1 DEF ShareInv

LEMMA ShareViaOff ==
    ASSUME ShareInv, ViaOff
    PROVE  ShareInv'
<1>1. /\ run.ph = "open" /\ run.via = NoExit /\ run' = [run EXCEPT !.ph = "up"]
      /\ UNCHANGED <<rule, proc>>
  BY DEF ViaOff, ShareInv
<1>2. RunShape(run') /\ Kept(run', run) /\ run'.ph = "up" /\ run'.via = NoExit
  BY <1>1, RunPhase DEF ShareInv, NetShape
<1>3. Explained(share, rule, slips)
  BY <1>1, RunStart DEF ShareInv, HasExit
<1>4. /\ AdapterShape(wintun') /\ ShareShape(share')
      /\ Explained(share', rule', slips') /\ MisInv(share', proc'.pair, slips')
  <2>1. CASE UNCHANGED <<wintun, share, slips>>
    BY <1>1, <1>3, <2>1 DEF ShareInv, NetShape, Explained, MisInv
  <2>2. CASE /\ share' = Unshared
             /\ wintun' = Replace(wintun, run.ip, wintun.prefix, FALSE)
             /\ slips' = Settled(slips, Unshared, rule)
    <3>1. PICK v, prefix : v = run.ip /\ prefix = wintun.prefix
      OBVIOUS
    <3>2. wintun' = Alone(wintun, v, prefix)
      BY <2>2, <3>1 DEF Alone
    <3>3. AdapterShape(wintun')
      BY <3>2, AloneSets DEF ShareInv, NetShape
    <3>4. Explained(Unshared, rule, slips)
      BY <1>3, RunStart DEF Explained
    <3> QED
      BY <1>1, <2>2, <3>3, <3>4, SettledExplains, RunStart DEF MisInv
  <2>3. CASE slips' = slips \cup {"failed"} /\ UNCHANGED <<wintun, share>>
    BY <1>1, <1>3, <2>3 DEF ShareInv, NetShape, Explained, MisInv
  <2> QED
    BY <2>1, <2>2, <2>3 DEF ViaOff
<1> QED
  BY <1>1, <1>2, <1>4, ShareNoExit DEF ShareInv, NetShape, Kept

LEMMA ShareTeardown ==
    ASSUME ShareInv, run.ph # "prefer", NEW preserve \in BOOLEAN, NEW thenRun,
           TeardownVia(preserve, thenRun), RunShape(thenRun),
           thenRun.via = NoExit, thenRun.ph # "prefer",
           (thenRun.open = TRUE) <=> (thenRun.ph # "off"), (thenRun.open = TRUE) => thenRun.ip # Ics
    PROVE  ShareInv'
<1>1. /\ run' = thenRun /\ ShareShape(share') /\ ProcShape(proc') /\ Eased(wintun, wintun')
      /\ Explained(share', rule', slips') /\ MisInv(share', proc'.pair, slips')
  BY TeardownExplains DEF ShareInv
<1>2. NetShape'
  BY <1>1 DEF NetShape, Eased
<1> QED
  BY <1>1, <1>2, ShareNoExit

LEMMA ShareBegins ==
    ASSUME ShareInv, NEW s, BeginVia(s)
    PROVE  ShareInv'
<1>1. PICK d : d = [NoVia("setup") EXCEPT !.sub = s]
  OBVIOUS
<1>2. run.ph \in {"open", "up"} /\ TeardownVia(TRUE, d)
  BY <1>1 DEF BeginVia
<1>3. RunShape(d) /\ Kept(d, run) /\ d.ph = "setup" /\ d.via = NoExit
  BY <1>1, RunBegun DEF ShareInv, NetShape
<1>4. (d.open = TRUE) <=> (d.ph # "off")
  BY <1>2, <1>3 DEF Kept, ShareInv
<1>5. (d.open = TRUE) => d.ip # Ics
  BY <1>3 DEF Kept, ShareInv
<1>6. run.ph # "prefer" /\ d.ph # "prefer"
  BY <1>2, <1>3
<1> QED
  BY <1>2, <1>3, <1>4, <1>5, <1>6, ShareTeardown

LEMMA ShareClears ==
    ASSUME ShareInv, ClearFailed
    PROVE  ShareInv'
<1>1. PICK d : d = NoVia("aborted")
  OBVIOUS
<1>2. run.ph = "failed" /\ TeardownVia(FALSE, d)
  BY <1>1 DEF ClearFailed
<1>3. RunShape(d) /\ Kept(d, run) /\ d.ph = "aborted" /\ d.via = NoExit
  BY <1>1, RunVia DEF ShareInv, NetShape
<1>4. (d.open = TRUE) <=> (d.ph # "off")
  BY <1>2, <1>3 DEF Kept, ShareInv
<1>5. (d.open = TRUE) => d.ip # Ics
  BY <1>3 DEF Kept, ShareInv
<1>6. run.ph # "prefer" /\ d.ph # "prefer"
  BY <1>2, <1>3
<1> QED
  BY <1>2, <1>3, <1>4, <1>5, <1>6, ShareTeardown

LEMMA ShareStops ==
    ASSUME ShareInv, NEW preserve \in BOOLEAN, Stop(preserve)
    PROVE  ShareInv'
<1>1. run.ph # "prefer" /\ TeardownVia(preserve, NewRun)
  BY DEF Stop, Busy
<1>2. (NewRun.open = TRUE) <=> (NewRun.ph # "off")
  BY RunStart
<1> QED
  BY <1>1, <1>2, RunStart, ShareTeardown

(* Setup ends with no exit and nothing else done.                          *)
LEMMA ShareGivesUp ==
    ASSUME ShareInv, ForwardFails \/ SetupCut
    PROVE  ShareInv'
<1>1. PICK ph : ph \in {"failed", "aborted"} /\ run' = NoVia(ph)
  BY DEF ForwardFails, SetupCut, Aborted
<1>2. run.ph = "setup" /\ UNCHANGED <<wintun, share, rule, proc, slips>>
  BY DEF ForwardFails, SetupCut
<1>3. RunShape(run') /\ Kept(run', run) /\ run'.ph = ph /\ run'.via = NoExit
  BY <1>1, RunVia DEF ShareInv, NetShape
<1>4. Explained(share', rule', slips') /\ MisInv(share', proc'.pair, slips')
  BY <1>2, RunStart DEF ShareInv, HasExit, Explained, MisInv
<1>5. NetShape'
  BY <1>2, <1>3 DEF ShareInv, NetShape
<1>6. ((run'.open = TRUE) <=> (run'.ph # "off")) /\ ((run'.open = TRUE) => run'.ip # Ics) /\ run'.ph # "prefer"
  BY <1>1, <1>2, <1>3 DEF ShareInv, Kept
<1> QED
  BY <1>3, <1>4, <1>5, <1>6, ShareNoExit

(* A step after which an exit is up.                                       *)
LEMMA ShareExitUp ==
    ASSUME ShareInv, NetShape', Kept(run', run), run.ph # "off", run'.ph = "up",
           run'.via.mode # "none", MisInv(share', proc'.pair, slips'),
           run'.via.mode = "ics" /\ "mispaired" \notin slips'
             => share'.pub = run'.via.plan /\ share'.prv,
           run'.via.mode = "rule" => rule' = run'.via.sub
    PROVE  ShareInv'
BY DEF ShareInv, HasExit, Kept

LEMMA ShareWinNAT ==
    ASSUME ShareInv, WinNAT
    PROVE  ShareInv'
<1>1. RunShape(run) /\ run.ph = "setup" /\ UNCHANGED <<wintun, share>>
  BY DEF WinNAT, ShareInv, NetShape
<1>2. CASE /\ rule' = run.sub
           /\ run' = Up("rule", "none")
           /\ slips' = slips \ Owned
           /\ UNCHANGED proc
  <2>1. /\ RunShape(run') /\ Kept(run', run) /\ run'.ph = "up"
        /\ run'.via.mode = "rule" /\ run'.via.sub = run.sub
    BY <1>1, <1>2, RunUp
  <2>2. MisInv(share', proc'.pair, slips')
    BY <1>1, <1>2 DEF ShareInv, MisInv, Owned
  <2>3. NetShape'
    BY <1>1, <1>2, <2>1 DEF ShareInv, NetShape
  <2> QED
    BY <1>1, <1>2, <2>1, <2>2, <2>3, ShareExitUp
<1>3. CASE /\ rule' \in {rule, NoRule}
           /\ \E class \in {"unavailable", "other"} :
                /\ proc' = [proc EXCEPT !.noWinNat = class = "unavailable"]
                /\ run' = IF class = "other" THEN OnlyForward ELSE run
           /\ slips' = IF rule' # NoRule THEN slips \cup {"failed"} ELSE slips
  <2>1. PICK class \in {"unavailable", "other"} :
                /\ proc' = [proc EXCEPT !.noWinNat = class = "unavailable"]
                /\ run' = IF class = "other" THEN OnlyForward ELSE run
    BY <1>3
  <2>2. PICK none : none = (class = "unavailable")
    OBVIOUS
  <2>3. proc' = [proc EXCEPT !.noWinNat = none]
    BY <2>1, <2>2
  <2>4. ProcShape(proc') /\ proc'.pair = proc.pair
    BY <2>3 DEF ShareInv, NetShape, ProcShape
  <2>5. MisInv(share', proc'.pair, slips')
    BY <1>1, <1>3, <2>4 DEF ShareInv, MisInv
  <2>6. CASE run' = OnlyForward
    <3>1. RunShape(run') /\ Kept(run', run) /\ run'.ph = "up" /\ run'.via.mode = "forward"
      BY <1>1, <2>6, RunForward
    <3>2. NetShape'
      BY <1>1, <2>4, <3>1 DEF ShareInv, NetShape
    <3> QED
      BY <1>1, <2>5, <3>1, <3>2, ShareExitUp
  <2>7. CASE run' = run
    <3>1. NetShape'
      BY <1>1, <2>4, <2>7 DEF ShareInv, NetShape
    <3>2. run.via = NoExit /\ Explained(share, rule, slips)
      BY <1>1, RunStart DEF ShareInv, HasExit
    <3>3. Explained(share', rule', slips')
      BY <1>1, <1>3, <3>2 DEF Explained, Excused
    <3> QED
      BY <1>1, <2>5, <2>7, <3>1, <3>2, <3>3, ShareNoExit DEF ShareInv
  <2> QED
    BY <2>1, <2>6, <2>7
<1> QED
  BY <1>2, <1>3 DEF WinNAT

LEMMA ShareNoWinNAT ==
    ASSUME ShareInv, NoWinNAT
    PROVE  ShareInv'
<1>1. ProcShape(proc') /\ proc'.pair = proc.pair
  BY DEF NoWinNAT, ShareInv, NetShape, ProcShape
<1> QED
  BY <1>1 DEF NoWinNAT, ShareInv, NetShape, HasExit

LEMMA ShareIcsPlan ==
    ASSUME ShareInv, IcsPlan
    PROVE  ShareInv'
<1>1. RunShape(run) /\ run.ph = "setup" /\ UNCHANGED <<wintun, share, rule>>
  BY DEF IcsPlan, ShareInv, NetShape
<1>2. run.via = NoExit /\ Explained(share, rule, slips)
  BY <1>1, RunStart DEF ShareInv, HasExit
<1>3. PICK snap, plan :
        LET resolved == [proc EXCEPT !.snap = snap]
        IN  \/ /\ run' = OnlyForward /\ proc' = resolved
               /\ slips' = slips \ Owned
            \/ ReuseLive(snap, plan)
            \/ /\ run' = [run EXCEPT !.ph = "cold", !.plan = plan] /\ proc' = resolved
               /\ UNCHANGED slips
  BY Zenon DEF IcsPlan
<1>4. CASE proc' = [proc EXCEPT !.snap = snap] /\ run' = OnlyForward /\ slips' = slips \ Owned
  <2>1. RunShape(run') /\ Kept(run', run) /\ run'.ph = "up" /\ run'.via.mode = "forward"
    BY <1>1, <1>4, RunForward
  <2>2. ProcShape(proc') /\ proc'.pair = proc.pair
    BY <1>4 DEF ShareInv, NetShape, ProcShape
  <2>3. NetShape'
    BY <1>1, <2>1, <2>2 DEF ShareInv, NetShape
  <2>4. MisInv(share', proc'.pair, slips')
    BY <1>1, <1>4, <2>2 DEF ShareInv, MisInv, Owned
  <2> QED
    BY <1>1, <2>1, <2>3, <2>4, ShareExitUp
<1>5. CASE ReuseLive(snap, plan)
  <2>1. run' = [run EXCEPT !.ph = "prefer", !.plan = plan]
    BY <1>5 DEF ReuseLive
  <2>2. RunShape(run') /\ Kept(run', run) /\ run'.ph = "prefer" /\ run'.via = NoExit /\ run'.plan = plan
    BY <1>1, <1>2, <2>1 DEF RunShape, Kept
  <2>3. ProcShape(proc') /\ proc'.pair = plan
    BY <1>5 DEF ReuseLive, ShareInv, NetShape, ProcShape
  <2>4. NetShape'
    BY <1>1, <2>2, <2>3 DEF ShareInv, NetShape
  <2>5. /\ slips' = (slips \ {"mispaired"})
                       \cup (IF share.pub = plan /\ share.prv THEN {} ELSE {"mispaired"})
    BY <1>5 DEF ReuseLive
  <2>6. MisInv(share', proc'.pair, slips')
    BY <1>1, <2>3, <2>5 DEF MisInv
  <2>7. "mispaired" \notin slips' => share'.pub = run'.plan /\ share'.prv
    BY <1>1, <2>2, <2>5
  <2>8. run'.via.mode = "none"
    BY <2>2, RunStart
  <2> QED
    BY <1>1, <2>2, <2>4, <2>6, <2>7, <2>8 DEF ShareInv, Kept
<1>6. CASE /\ run' = [run EXCEPT !.ph = "cold", !.plan = plan] /\ proc' = [proc EXCEPT !.snap = snap]
           /\ UNCHANGED slips
  <2>1. RunShape(run') /\ Kept(run', run) /\ run'.ph = "cold" /\ run'.via = NoExit
    BY <1>1, <1>2, <1>6 DEF RunShape, Kept
  <2>2. ProcShape(proc') /\ proc'.pair = proc.pair
    BY <1>6 DEF ShareInv, NetShape, ProcShape
  <2>3. NetShape'
    BY <1>1, <2>1, <2>2 DEF ShareInv, NetShape
  <2>4. MisInv(share', proc'.pair, slips') /\ Explained(share', rule', slips')
    BY <1>1, <1>2, <1>6, <2>2 DEF ShareInv, MisInv, Explained
  <2>5. ((run'.open = TRUE) <=> (run'.ph # "off")) /\ ((run'.open = TRUE) => run'.ip # Ics)
    BY <1>1, <2>1 DEF ShareInv, Kept
  <2> QED
    BY <2>1, <2>3, <2>4, <2>5, ShareNoExit
<1> QED
  BY <1>3, <1>4, <1>5, <1>6

LEMMA ShareCold ==
    ASSUME ShareInv, EnableCold
    PROVE  ShareInv'
<1>1. PICK plan : plan = run.plan
  OBVIOUS
<1>2. /\ RunShape(run) /\ run.ph = "cold" /\ share' = Enabled(plan)
      /\ proc' = [proc EXCEPT !.pair = plan] /\ run' = [run EXCEPT !.ph = "prefer"]
      /\ UNCHANGED <<wintun, rule>>
  BY <1>1 DEF EnableCold, ShareInv, NetShape
<1>3. /\ RunShape(run') /\ Kept(run', run) /\ run'.ph = "prefer" /\ run'.via = run.via
      /\ run'.plan = plan
  BY <1>1, <1>2, RunPhase
<1>4. ProcShape(proc') /\ proc'.pair = plan
  BY <1>2 DEF ShareInv, NetShape, ProcShape
<1>5. ShareShape(share') /\ share'.pub = plan /\ share'.prv = TRUE
  BY <1>2 DEF Enabled, ShareShape
<1>6. NetShape'
  BY <1>2, <1>3, <1>4, <1>5 DEF ShareInv, NetShape
<1>7. run.via = NoExit /\ run'.via.mode = "none"
  BY <1>2, <1>3, RunStart DEF ShareInv
<1> QED
  BY <1>2, <1>3, <1>4, <1>5, <1>6, <1>7 DEF ShareInv, MisInv, Kept

LEMMA SharesShaped ==
    \A pub : /\ ShareShape(Public(pub)) /\ ShareShape(Enabled(pub)) /\ ShareShape(Private)
BY DEF ShareShape, Public, Enabled, Private

LEMMA MispairedMarks ==
    ASSUME NEW s, NEW pair, NEW sl, Mispaired(s, pair) \subseteq sl
    PROVE  MisInv(s, pair, sl)
BY DEF Mispaired, MisInv

LEMMA ShareEnableFails ==
    ASSUME ShareInv, EnableFails
    PROVE  ShareInv'
<1>1. /\ RunShape(run) /\ run.ph = "cold" /\ run' = OnlyForward
      /\ share' \in {share, Unshared, Public(run.plan)}
      /\ slips' = (slips \ Owned) \cup Mispaired(share', proc.pair)
      /\ UNCHANGED <<wintun, rule, proc>>
  BY DEF EnableFails, ShareInv, NetShape
<1>2. RunShape(run') /\ Kept(run', run) /\ run'.ph = "up" /\ run'.via.mode = "forward"
  BY <1>1, RunForward
<1>3. ShareShape(share')
  BY <1>1, SharesShaped, RunStart DEF ShareInv, NetShape
<1>4. MisInv(share', proc'.pair, slips')
  <2>1. Mispaired(share', proc.pair) \subseteq slips'
    BY <1>1
  <2> QED
    BY <1>1, <2>1, MispairedMarks
<1>5. NetShape'
  BY <1>1, <1>2, <1>3 DEF ShareInv, NetShape
<1> QED
  BY <1>1, <1>2, <1>4, <1>5, ShareExitUp

LEMMA ShareKilled ==
    ASSUME ShareInv, EnableKilled
    PROVE  ShareInv'
<1>1. PICK sl : sl = slips \cup {"cut"} \cup Mispaired(share', proc.pair)
  OBVIOUS
<1>2. /\ run.ph = "cold" /\ run' = NoVia("aborted")
      /\ share' \in {share, Unshared, Public(run.plan), Private, Enabled(run.plan)}
      /\ slips' = Settled(sl, share', rule)
      /\ UNCHANGED <<wintun, rule, proc>>
  BY <1>1 DEF EnableKilled, Aborted
<1>3. RunShape(run') /\ Kept(run', run) /\ run'.ph = "aborted" /\ run'.via = NoExit
  BY <1>2, RunVia DEF ShareInv, NetShape
<1>4. ShareShape(share')
  BY <1>2, SharesShaped, RunStart DEF ShareInv, NetShape
<1>5. MisInv(share', proc.pair, sl)
  BY <1>1, MispairedMarks
<1>6. MisInv(share', proc'.pair, slips')
  BY <1>2, <1>5, SettledKeeps DEF MisInv
<1>7. Explained(share', rule, sl)
  BY <1>1 DEF Explained, Excused, Owned
<1>8. Explained(share', rule', slips')
  BY <1>2, <1>7, SettledExplains
<1>9. NetShape'
  BY <1>2, <1>3, <1>4 DEF ShareInv, NetShape
<1>10. ((run'.open = TRUE) <=> (run'.ph # "off")) /\ ((run'.open = TRUE) => run'.ip # Ics)
  BY <1>2, <1>3 DEF ShareInv, Kept
<1> QED
  BY <1>3, <1>6, <1>8, <1>9, <1>10, ShareNoExit

LEMMA SharePrefers ==
    ASSUME ShareInv, PreferVPN
    PROVE  ShareInv'
<1>1. PICK p \in Prefer(wintun, run.ip, run.cut) : wintun' = p[1] /\ run' = Up("ics", p[2])
  BY DEF PreferVPN
<1>2. PICK v, cut, pref : v = run.ip /\ cut = run.cut /\ pref = p[2]
  OBVIOUS
<1>3. /\ RunShape(run) /\ run.ph = "prefer" /\ slips' = slips \ (Owned \cup {"late"})
      /\ v # Ics /\ UNCHANGED <<share, rule, proc>>
  BY <1>2 DEF PreferVPN, ShareInv, NetShape
<1>4. PreferredWell(wintun, v, p[1], pref)
  <2>1. p \in Prefer(wintun, v, cut)
    BY <1>2
  <2> QED
    BY <1>2, <1>3, <2>1, PreferWell DEF ShareInv, NetShape
<1>5. run' = Up("ics", pref)
  BY <1>1, <1>2
<1>6. /\ RunShape(run') /\ Kept(run', run) /\ run'.ph = "up"
      /\ run'.via.mode = "ics" /\ run'.via.plan = run.plan
  BY <1>3, <1>5, RunUp
<1>7. NetShape'
  BY <1>1, <1>3, <1>4, <1>6 DEF ShareInv, NetShape, PreferredWell
<1>8. MisInv(share', proc'.pair, slips') /\ ("mispaired" \in slips => "mispaired" \in slips')
  BY <1>3 DEF ShareInv, MisInv, Owned
<1>9. "mispaired" \notin slips' => share'.pub = run'.via.plan /\ share'.prv
  BY <1>3, <1>6, <1>8 DEF ShareInv
<1> QED
  BY <1>3, <1>6, <1>7, <1>8, <1>9, ShareExitUp

LEMMA ShareCancelled ==
    ASSUME ShareInv, Cancel
    PROVE  ShareInv'
<1>1. RunShape(run) /\ run' = [run EXCEPT !.cut = TRUE] /\ UNCHANGED <<wintun, share, rule, proc, slips>>
  BY DEF Cancel, ShareInv, NetShape
<1>2. RunShape(run') /\ Kept(run', run) /\ run'.ph = run.ph /\ run'.via = run.via /\ run'.plan = run.plan
  BY <1>1, RunCut
<1> QED
  BY <1>1, <1>2 DEF ShareInv, NetShape, HasExit, Kept

LEMMA ShareEnds ==
    ASSUME ShareInv, ClientEnds
    PROVE  ShareInv'
<1>1. PICK sl : sl = IF HasExit \/ Busy THEN slips \cup {"killed"} ELSE slips
  OBVIOUS
<1>2. /\ proc' = NewProc /\ run' = NewRun /\ UNCHANGED rule /\ slips' = Settled(sl, share', rule)
      /\ \/ UNCHANGED <<wintun, share>>
         \/ wintun' = NoAdapter /\ share' = [share EXCEPT !.prv = FALSE, !.coming = FALSE]
  BY <1>1 DEF ClientEnds
<1>3. ShareShape(share') /\ (Shared(share') => Shared(share))
  BY <1>2 DEF ShareInv, NetShape, ShareShape, Shared
<1>4. NetShape'
  BY <1>2, <1>3, RunStart DEF ShareInv, NetShape
<1>5. Explained(share', rule, sl)
  BY <1>1, <1>3 DEF ShareInv, Explained, Busy, Excused, Owned
<1>6. Explained(share', rule', slips')
  BY <1>2, <1>5, SettledExplains
<1>7. MisInv(share', proc'.pair, slips')
  BY <1>2, RunStart DEF MisInv
<1>8. run'.via = NoExit /\ run'.ph = "off" /\ run'.open = FALSE
  BY <1>2, RunStart
<1> QED
  BY <1>4, <1>6, <1>7, <1>8, ShareNoExit

LEMMA ShareArrives ==
    ASSUME ShareInv, IcsArrives
    PROVE  ShareInv'
<1>1. /\ share' = [share EXCEPT !.coming = FALSE] /\ UNCHANGED <<rule, proc, run>>
      /\ \/ slips' = slips
         \/ slips' = slips \cup {"late"}
  BY DEF IcsArrives
<1>2. ShareShape(share') /\ share'.pub = share.pub /\ share'.prv = share.prv
  BY <1>1 DEF ShareInv, NetShape, ShareShape
<1>3. PICK ad, sk : ad = wintun.addrs \cup {Ics} /\ sk = wintun.skip \ {Ics}
  OBVIOUS
<1>4. wintun' = [wintun EXCEPT !.addrs = ad, !.skip = sk, !.prefix = 24, !.default = TRUE]
  BY <1>3 DEF IcsArrives, ShareInv, NetShape, AdapterShape
<1>5. AdapterShape(wintun')
  BY <1>4 DEF ShareInv, NetShape, AdapterShape
<1>6. (Shared(share') <=> Shared(share)) /\ ("mispaired" \in slips <=> "mispaired" \in slips')
  BY <1>1, <1>2 DEF Shared
<1>7. MisInv(share', proc'.pair, slips')
  BY <1>1, <1>2, <1>6 DEF ShareInv, MisInv
<1>8. HasExit' \/ run'.ph = "prefer" \/ Explained(share', rule', slips')
  BY <1>1, <1>6 DEF ShareInv, Explained, HasExit
<1> QED
  BY <1>1, <1>2, <1>5, <1>6, <1>7, <1>8 DEF ShareInv, NetShape

LEMMA ShareStep ==
    ASSUME ShareInv, NetAssumption, [NetNext]_netVars
    PROVE  ShareInv'
<1>1. CASE UNCHANGED netVars
  BY <1>1 DEF netVars, ShareInv, NetShape, HasExit, Explained, MisInv, Shared
<1>2. CASE \E v \in VpnIPs : OpenDevice(v) \/ SoftMove(v)
  <2>1. PICK v \in VpnIPs : OpenDevice(v) \/ SoftMove(v)
    BY <1>2
  <2>2. v # Ics
    BY DEF NetAssumption, Ics
  <2> QED
    BY <2>1, <2>2, ShareOpens, ShareSoftMove
<1>3. CASE NicMoves
  BY <1>3 DEF NicMoves, ShareInv, NetShape, HasExit, Explained, MisInv, Shared
<1> QED
  BY <1>1, <1>2, <1>3, ShareWarm, ShareOpenFails, ShareViaOff, ShareBegins, ShareGivesUp,
     ShareWinNAT, ShareNoWinNAT, ShareIcsPlan, ShareCold, ShareEnableFails, ShareKilled,
     SharePrefers, ShareCancelled, ShareClears, ShareStops, ShareEnds, ShareArrives
  DEF NetNext

LEMMA NetStart == NetInit => ShareInv
BY RunStart DEF NetInit, ShareInv, NetShape, Shared, HasExit, Explained, MisInv

LEMMA ShareMeans == ShareInv => ShareTrue
BY DEF ShareInv, ShareTrue, Explained, HasExit, Busy

(* setupViaExitLocked, teardownViaExitLocked and what a cancellation, a    *)
(* failed script or a killed process leaves of them, for any addresses and *)
(* adapters: what is shared has an owner that will end it, with the        *)
(* exceptions ShareTrue names, and an ICS exit shares the adapter of its plan. *)
THEOREM ShareKept == NetSpec => []ShareTrue
<1>1. NetInit => ShareInv
  BY NetStart
<1>2. ShareInv /\ [NetNext]_netVars => ShareInv'
  BY ShareStep, NetAssumption
<1>3. ShareInv => ShareTrue
  BY ShareMeans
<1> QED
  BY <1>1, <1>2, <1>3, PTL DEF NetSpec

-----------------------------------------------------------------------------
(* The address and its source                                              *)

AddrOK(w, ip, sl) ==
    "stale" \notin sl => Tidy(w, ip) /\ (Residue(w) => w.prefix = 24 \/ "narrow" \in sl)

MarkOK(w, ip, pref, sl) ==
    pref # "warn" /\ {"late", "stale"} \cap sl = {} /\ Residue(w)
      => ip \notin w.skip /\ Ics \in w.skip /\ (w.default => pref = "route")

SourceInv ==
    /\ run.open = TRUE => AddrOK(wintun, run.ip, slips)
    /\ run.via.mode = "ics" => MarkOK(wintun, run.ip, run.pref, slips)

SameSlips == \A x \in {"stale", "narrow", "late"} : x \in slips <=> x \in slips'

(* A step that leaves the adapter alone.                                   *)
LEMMA SourceSame ==
    ASSUME SourceInv, wintun' = wintun, Kept(run', run), SameSlips,
           run'.via.mode = "ics" => run.via = run'.via /\ run'.pref = run.pref
    PROVE  SourceInv'
BY DEF SourceInv, Kept, SameSlips, AddrOK, MarkOK

(* A step after which there is no exit and no open device.                 *)
LEMMA SourceClosed ==
    ASSUME run'.open = FALSE, run'.via = NoExit
    PROVE  SourceInv'
BY RunStart DEF SourceInv

LEMMA SourceQuiet ==
    ASSUME ShareInv, SourceInv,
           ForwardFails \/ SetupCut \/ WinNAT \/ NoWinNAT \/ IcsPlan \/ EnableCold
             \/ EnableFails \/ EnableKilled \/ Cancel
    PROVE  SourceInv'
<1>1. RunShape(run) /\ wintun' = wintun
  BY DEF ShareInv, NetShape, ForwardFails, SetupCut, WinNAT, NoWinNAT, IcsPlan, EnableCold, EnableFails,
         EnableKilled, Cancel
<1>2. CASE ForwardFails \/ SetupCut
  <2>1. PICK ph : run' = NoVia(ph)
    BY <1>2 DEF ForwardFails, SetupCut, Aborted
  <2>2. Kept(run', run) /\ run'.via = NoExit
    BY <1>1, <2>1, RunVia
  <2>3. slips' = slips
    BY <1>2 DEF ForwardFails, SetupCut
  <2> QED
    BY <1>1, <2>2, <2>3, SourceSame, RunStart DEF SameSlips
<1>3. CASE WinNAT
  <2>1. SameSlips
    BY <1>3 DEF WinNAT, SameSlips, Owned
  <2>2. run' = Up("rule", "none") \/ run' = OnlyForward \/ run' = run
    BY <1>3 DEF WinNAT
  <2>3. CASE run' = Up("rule", "none")
    <3>1. Kept(run', run) /\ run'.via.mode = "rule"
      BY <1>1, <2>3, RunUp
    <3> QED
      BY <1>1, <2>1, <3>1, SourceSame
  <2>4. CASE run' = OnlyForward
    <3>1. Kept(run', run) /\ run'.via.mode = "forward"
      BY <1>1, <2>4, RunForward
    <3> QED
      BY <1>1, <2>1, <3>1, SourceSame
  <2>5. CASE run' = run
    BY <1>1, <2>1, <2>5, SourceSame DEF Kept
  <2> QED
    BY <2>2, <2>3, <2>4, <2>5
<1>4. CASE NoWinNAT
  <2>1. SameSlips /\ run' = run
    BY <1>4 DEF NoWinNAT, SameSlips
  <2> QED
    BY <1>1, <2>1, SourceSame DEF Kept
<1>5. CASE IcsPlan
  <2>1. run.via = NoExit
    BY <1>5 DEF IcsPlan, ShareInv
  <2>2. PICK snap, plan :
          \/ run' = OnlyForward /\ slips' = slips \ Owned
          \/ ReuseLive(snap, plan)
          \/ run' = [run EXCEPT !.ph = "cold", !.plan = plan] /\ UNCHANGED slips
    BY <1>5, Zenon DEF IcsPlan
  <2>3. SameSlips
    BY <2>2 DEF ReuseLive, SameSlips, Owned
  <2>4. PICK ph : run' = OnlyForward \/ run' = [run EXCEPT !.ph = ph, !.plan = plan]
    BY <2>2 DEF ReuseLive
  <2>5. CASE run' = OnlyForward
    <3>1. Kept(run', run) /\ run'.via.mode = "forward"
      BY <1>1, <2>5, RunForward
    <3> QED
      BY <1>1, <2>3, <3>1, SourceSame
  <2>6. CASE run' = [run EXCEPT !.ph = ph, !.plan = plan]
    <3>1. Kept(run', run) /\ run'.via = run.via
      BY <1>1, <2>6 DEF RunShape, Kept
    <3> QED
      BY <1>1, <2>1, <2>3, <3>1, SourceSame, RunStart
  <2> QED
    BY <2>4, <2>5, <2>6
<1>6. CASE EnableCold
  <2>1. Kept(run', run) /\ run'.via = run.via /\ run'.pref = run.pref
    BY <1>1, <1>6, RunPhase DEF EnableCold
  <2>2. SameSlips
    BY <1>6 DEF EnableCold, SameSlips
  <2> QED
    BY <1>1, <2>1, <2>2, SourceSame
<1>7. CASE EnableFails
  <2>1. Kept(run', run) /\ run'.via.mode = "forward"
    BY <1>1, <1>7, RunForward DEF EnableFails
  <2>2. SameSlips
    BY <1>7 DEF EnableFails, SameSlips, Owned, Mispaired
  <2> QED
    BY <1>1, <2>1, <2>2, SourceSame
<1>8. CASE EnableKilled
  <2>1. Kept(run', run) /\ run'.via = NoExit
    BY <1>1, <1>8, RunVia DEF EnableKilled, Aborted
  <2>2. PICK sl : sl = slips \cup {"cut"} \cup Mispaired(share', proc.pair)
    OBVIOUS
  <2>3. slips' = Settled(sl, share', rule)
    BY <1>8, <2>2 DEF EnableKilled
  <2>4. \A x \in {"stale", "narrow", "late"} : x \in slips <=> x \in sl
    BY <2>2 DEF Mispaired
  <2>5. SameSlips
    BY <2>3, <2>4, SettledKeeps DEF SameSlips, Excused, Owned
  <2> QED
    BY <1>1, <2>1, <2>5, SourceSame, RunStart
<1>9. CASE Cancel
  <2>1. Kept(run', run) /\ run'.via = run.via /\ run'.pref = run.pref
    BY <1>1, <1>9, RunCut DEF Cancel
  <2>2. SameSlips
    BY <1>9 DEF Cancel, SameSlips
  <2> QED
    BY <1>1, <2>1, <2>2, SourceSame
<1> QED
  BY <1>2, <1>3, <1>4, <1>5, <1>6, <1>7, <1>8, <1>9

LEMMA SourceTeardown ==
    ASSUME ShareInv, SourceInv, run.ph # "prefer", NEW preserve \in BOOLEAN, NEW thenRun,
           TeardownVia(preserve, thenRun), thenRun.via = NoExit,
           Kept(thenRun, run) \/ thenRun.open = FALSE
    PROVE  SourceInv'
<1>1. run' = thenRun /\ Eased(wintun, wintun') /\ SameSlips
  BY TeardownExplains DEF ShareInv, SameSlips
<1>2. run'.via.mode = "none"
  BY <1>1, RunStart
<1>3. CASE thenRun.open = FALSE
  BY <1>1, <1>3, SourceClosed
<1>4. CASE Kept(thenRun, run)
  BY <1>1, <1>2, <1>4 DEF SourceInv, ShareInv, Kept, SameSlips, AddrOK, Eased, Tidy, Residue
<1> QED
  BY <1>3, <1>4

LEMMA SourceOpens ==
    ASSUME ShareInv, NEW v, v # Ics, OpenDevice(v)
    PROVE  SourceInv'
<1>1. PICK a \in Assign(wintun, v), lans \in BOOLEAN, preferred \in Nics \cup {NoNic} :
         /\ wintun' = [a[1] EXCEPT !.there = TRUE]
         /\ slips' = (slips \ {"stale", "narrow", "late"}) \cup a[2]
         /\ run' = IF v \in a[1].addrs
                   THEN [NewRun EXCEPT !.open = TRUE, !.ip = v, !.lans = lans, !.ph = "open",
                                       !.preferred = IF lans THEN preferred ELSE NoNic]
                   ELSE NewRun
  BY Zenon DEF OpenDevice
<1>2. PICK x, bad : x = a[1] /\ bad = a[2]
  OBVIOUS
<1>3. AssignedWell(x, v, bad)
  BY <1>2, AssignWell DEF ShareInv, NetShape
<1>4. wintun' = [x EXCEPT !.there = TRUE] /\ slips' = (slips \ {"stale", "narrow", "late"}) \cup bad
  BY <1>1, <1>2
<1>5. wintun'.addrs = x.addrs /\ wintun'.prefix = x.prefix
  BY <1>3, <1>4 DEF AdapterShape, AssignedWell
<1>6. run' = NewRun \/ (run'.ip = v /\ run'.via = NoExit)
  <2>1. PICK nic, la : nic = (IF lans THEN preferred ELSE NoNic) /\ la = lans
    OBVIOUS
  <2>2. PICK d : d = [NewRun EXCEPT !.open = TRUE, !.ip = v, !.lans = la, !.ph = "open", !.preferred = nic]
    OBVIOUS
  <2>3. d.ip = v /\ d.via = NoExit
    BY <2>2, RunStart DEF RunShape, NewRun
  <2>4. run' = d \/ run' = NewRun
    BY <1>1, <2>1, <2>2
  <2>5. CASE run' = d
    BY <2>3, <2>5
  <2>6. CASE run' = NewRun
    BY <2>6
  <2> QED
    BY <2>4, <2>5, <2>6
<1>7. CASE run' = NewRun
  BY <1>7, SourceClosed, RunStart
<1>8. CASE run'.ip = v /\ run'.via = NoExit
  BY <1>3, <1>4, <1>5, <1>8, RunStart DEF SourceInv, AddrOK, AssignedWell, Tidy, Residue
<1> QED
  BY <1>6, <1>7, <1>8

LEMMA SourceMoves ==
    ASSUME ShareInv, SourceInv, NEW v, v # Ics, SoftMove(v)
    PROVE  SourceInv'
<1>1. RunShape(run) /\ AdapterShape(wintun)
  BY DEF ShareInv, NetShape
<1>2. CASE \E p \in Prefer(Replace(wintun, v, IF Residue(wintun) THEN 24 ELSE 32, TRUE), v, FALSE) :
            /\ wintun' = p[1]
            /\ run' = [run EXCEPT !.ip = v, !.pref = p[2]]
            /\ slips' = slips \ {"stale", "narrow", "late"}
  <2>0. PICK prefix : prefix = IF Residue(wintun) THEN 24 ELSE 32
    OBVIOUS
  <2>1. PICK x : x = Beside(wintun, v, prefix)
    OBVIOUS
  <2>2. AdapterShape(x) /\ Tidy(x, v) /\ x.prefix = prefix /\ (Residue(x) => Residue(wintun))
    BY <1>1, <2>1, BesideSets DEF Tidy, Residue
  <2>3. PICK p \in Prefer(x, v, FALSE) :
            /\ wintun' = p[1]
            /\ run' = [run EXCEPT !.ip = v, !.pref = p[2]]
            /\ slips' = slips \ {"stale", "narrow", "late"}
    BY <1>2, <2>0, <2>1 DEF Beside
  <2>4. PreferredWell(x, v, p[1], p[2])
    BY <2>2, PreferWell
  <2>5. PICK pref : pref = p[2]
    OBVIOUS
  <2>6. run'.ip = v /\ run'.pref = pref
    <3>1. run' = [run EXCEPT !.ip = v, !.pref = pref]
      BY <2>3, <2>5
    <3> QED
      BY <1>1, <3>1 DEF RunShape
  <2>7. AddrOK(wintun', v, slips')
    BY <2>0, <2>2, <2>3, <2>4 DEF AddrOK, PreferredWell
  <2>8. MarkOK(wintun', v, pref, slips')
    BY <2>3, <2>4, <2>5 DEF MarkOK, PreferredWell
  <2> QED
    BY <2>6, <2>7, <2>8 DEF SourceInv
<1>3. CASE slips' = slips \cup {"stale"}
  BY <1>3 DEF SourceInv, AddrOK, MarkOK
<1> QED
  BY <1>2, <1>3 DEF SoftMove

LEMMA SourceViaOff ==
    ASSUME ShareInv, SourceInv, ViaOff
    PROVE  SourceInv'
<1>1. run.via = NoExit /\ run' = [run EXCEPT !.ph = "up"]
  BY DEF ViaOff, ShareInv
<1>2. Kept(run', run) /\ run'.via = NoExit
  BY <1>1, RunPhase DEF ShareInv, NetShape
<1>3. CASE UNCHANGED <<wintun, share, slips>> \/ (slips' = slips \cup {"failed"} /\ wintun' = wintun)
  BY <1>2, <1>3, SourceSame, RunStart DEF SameSlips
<1>4. CASE /\ wintun' = Replace(wintun, run.ip, wintun.prefix, FALSE)
           /\ slips' = Settled(slips, Unshared, rule)
  <2>1. PICK v, prefix : v = run.ip /\ prefix = wintun.prefix
    OBVIOUS
  <2>2. wintun' = Alone(wintun, v, prefix)
    BY <1>4, <2>1 DEF Alone
  <2>3. wintun'.addrs = {v}
    BY <2>2, AloneSets DEF ShareInv, NetShape
  <2> QED
    BY <1>2, <2>1, <2>3, RunStart DEF SourceInv, ShareInv, Kept, AddrOK, Tidy, Residue
<1> QED
  BY <1>3, <1>4 DEF ViaOff

LEMMA SourcePrefers ==
    ASSUME ShareInv, SourceInv, PreferVPN
    PROVE  SourceInv'
<1>1. PICK p \in Prefer(wintun, run.ip, run.cut) : wintun' = p[1] /\ run' = Up("ics", p[2])
  BY DEF PreferVPN
<1>2. PICK v, cut, pref : v = run.ip /\ cut = run.cut /\ pref = p[2]
  OBVIOUS
<1>3. /\ RunShape(run) /\ run.ph = "prefer" /\ slips' = slips \ (Owned \cup {"late"})
      /\ v # Ics /\ run.open = TRUE
  BY <1>2 DEF PreferVPN, ShareInv, NetShape
<1>4. PreferredWell(wintun, v, p[1], pref)
  <2>1. p \in Prefer(wintun, v, cut)
    BY <1>2
  <2> QED
    BY <1>2, <1>3, <2>1, PreferWell DEF ShareInv, NetShape
<1>5. run' = Up("ics", pref)
  BY <1>1, <1>2
<1>6. run'.ip = v /\ run'.pref = pref
  BY <1>2, <1>3, <1>5, RunUp DEF Kept
<1>7. AddrOK(wintun', v, slips')
  BY <1>1, <1>2, <1>3, <1>4 DEF AddrOK, PreferredWell, SourceInv, Owned
<1>8. MarkOK(wintun', v, pref, slips')
  BY <1>1, <1>2, <1>4 DEF MarkOK, PreferredWell
<1> QED
  BY <1>6, <1>7, <1>8 DEF SourceInv

LEMMA SourceArrives ==
    ASSUME ShareInv, SourceInv, IcsArrives
    PROVE  SourceInv'
<1>1. PICK ad, sk : ad = wintun.addrs \cup {Ics} /\ sk = wintun.skip \ {Ics}
  OBVIOUS
<1>2. wintun' = [wintun EXCEPT !.addrs = ad, !.skip = sk, !.prefix = 24, !.default = TRUE]
  BY <1>1 DEF IcsArrives, ShareInv, NetShape, AdapterShape
<1>3. wintun'.addrs = ad /\ wintun'.prefix = 24
  BY <1>2 DEF ShareInv, NetShape, AdapterShape
<1>4. run' = run /\ slips' = (IF run.ph \in {"cold", "prefer"} THEN slips ELSE slips \cup {"late"})
  BY DEF IcsArrives
<1>5. AddrOK(wintun', run.ip, slips') \/ run.open # TRUE
  BY <1>1, <1>3, <1>4 DEF SourceInv, AddrOK, Tidy, Residue
<1>6. run.via.mode = "ics" => "late" \in slips'
  BY <1>4, RunStart DEF ShareInv
<1> QED
  BY <1>4, <1>5, <1>6 DEF SourceInv, MarkOK

LEMMA SourceStep ==
    ASSUME ShareInv, SourceInv, NetAssumption, [NetNext]_netVars
    PROVE  SourceInv'
<1>1. CASE UNCHANGED netVars
  BY <1>1, SourceSame DEF netVars, Kept, SameSlips
<1>2. CASE Warmup \/ OpenFails
  <2>1. run' = run /\ run.open # TRUE /\ run.via = NoExit
    BY <1>2 DEF Warmup, OpenFails, ShareInv
  <2> QED
    BY <2>1, RunStart DEF SourceInv
<1>3. CASE \E v \in VpnIPs : OpenDevice(v) \/ SoftMove(v)
  <2>1. PICK v \in VpnIPs : OpenDevice(v) \/ SoftMove(v)
    BY <1>3
  <2>2. v # Ics
    BY DEF NetAssumption, Ics
  <2> QED
    BY <2>1, <2>2, SourceOpens, SourceMoves
<1>4. CASE \E s \in VpnSubnets : BeginVia(s)
  <2>1. PICK s : BeginVia(s)
    BY <1>4
  <2>2. PICK d : d = [NoVia("setup") EXCEPT !.sub = s]
    OBVIOUS
  <2>3. run.ph # "prefer" /\ TeardownVia(TRUE, d)
    BY <2>1, <2>2 DEF BeginVia
  <2>4. Kept(d, run) /\ d.via = NoExit
    BY <2>2, RunBegun DEF ShareInv, NetShape
  <2> QED
    BY <2>3, <2>4, SourceTeardown
<1>5. CASE ClearFailed
  <2>1. PICK d : d = NoVia("aborted")
    OBVIOUS
  <2>2. run.ph # "prefer" /\ TeardownVia(FALSE, d)
    BY <1>5, <2>1 DEF ClearFailed
  <2>3. Kept(d, run) /\ d.via = NoExit
    BY <2>1, RunVia DEF ShareInv, NetShape
  <2> QED
    BY <2>2, <2>3, SourceTeardown
<1>6. CASE (\E p \in BOOLEAN : Stop(p)) \/ ClientEnds
  <2>1. run' = NewRun
    BY <1>6 DEF Stop, ClientEnds, TeardownVia
  <2> QED
    BY <2>1, SourceClosed, RunStart
<1>7. CASE NicMoves
  BY <1>7, SourceSame DEF NicMoves, Kept, SameSlips
<1> QED
  BY <1>1, <1>2, <1>3, <1>4, <1>5, <1>6, <1>7, SourceQuiet, SourceViaOff, SourcePrefers, SourceArrives
  DEF NetNext

LEMMA SourceStart == NetInit => SourceInv
BY RunStart DEF NetInit, SourceInv

LEMMA SourceMeans == ShareInv /\ SourceInv => SourceTrue
BY RunStart DEF ShareInv, SourceInv, SourceTrue, AddrOK, MarkOK, Tidy

(* AssignAddress, Clear4, UpdateAddress and PreferVpnSource, in whatever order *)
(* engines, moves of the address and ICS call them: an open device has the *)
(* policy's address and none of an earlier one, and beside the address of ICS *)
(* the VPN's stays the source, with the exceptions SourceTrue names.       *)
THEOREM SourceKept == NetSpec => []SourceTrue
<1>1. NetInit => ShareInv /\ SourceInv
  BY NetStart, SourceStart
<1>2. (ShareInv /\ SourceInv) /\ [NetNext]_netVars => (ShareInv /\ SourceInv)'
  BY ShareStep, SourceStep, NetAssumption
<1>3. ShareInv /\ SourceInv => SourceTrue
  BY SourceMeans
<1> QED
  BY <1>1, <1>2, <1>3, PTL DEF NetSpec

=============================================================================
