----------------------------- MODULE ServerLife -----------------------------
(***************************************************************************)
(* The server process from Engine.Run to its end: what each step of the    *)
(* boot opens, what a failure closes (logger.Fatal leaves the process      *)
(* without the deferred calls), what a signal does before and after        *)
(* somebody listens for it; and the history of the log, which goroutines   *)
(* fill through a queue that one writer empties into logs.db.              *)
(***************************************************************************)
EXTENDS Naturals, Sequences, SequencesExt

CONSTANTS Loggers,      \* goroutines with something to log
          QueueLen,     \* room in Store.ch
          MaxEntries,   \* bound: lines logged
          MaxNested     \* bound: Warn inside Enqueue inside Warn ...

ASSUME LogAssumption == {QueueLen, MaxEntries, MaxNested} \subseteq Nat

VARIABLES
    slCfg,      \* log.history_enabled, vpn.require_tun, nat.enabled
    slPc,       \* where Engine.Run is
    slOpen,     \* what the process has open
    slMachine,  \* what it has changed on the machine
    slEnd,      \* how the process ended
    slFailed,   \* the step that failed
    slSignal,   \* the root context is cancelled
    slLog,      \* the calls of log under way: nested Warn, and the step
    slQueue, slWriter, slNext,  \* Store.ch, writerLoop, the next line's number
    slStored, slGone,  \* rows of logs.db; lines dropped, failed or pruned
    slOwed      \* lines that were in the queue or in logs.db when Close began

bootVars == <<slPc, slOpen, slMachine, slEnd, slFailed, slSignal>>
logVars == <<slLog, slQueue, slWriter, slNext, slStored, slGone, slOwed>>
slVars == <<slCfg, bootVars, logVars>>

Stages == {"log", "bind", "store", "history", "check", "key", "admin", "pool", "session", "tun",
           "nat", "tunnel", "shutdown", "api", "run", "stopApi", "stopTunnel", "stopTun", "wait",
           "closeTun", "teardown", "stopLease", "closeHistory", "flush", "closeStore", "closeLog"}

SlTypeOK ==
    /\ slPc \in Stages \cup {"over"}
    /\ slOpen \subseteq {"log", "store", "history", "lease", "tun", "reader", "tunnel", "api", "retention"}
    /\ slMachine \subseteq {"forward", "nat"}
    /\ slEnd \in {"running", "exit", "fatal", "killed"} /\ slFailed \in Stages \cup {"none"}
    /\ slSignal \in BOOLEAN
    /\ slLog \in [Loggers -> [nested : 0..MaxNested + 1, step : {"idle", "enqueue", "print"}]]
    /\ Len(slQueue) <= QueueLen /\ slWriter \in {"none", "loop", "drain", "done"}
    /\ slNext \in 0..MaxEntries /\ slStored \subseteq 0..MaxEntries /\ slOwed \subseteq 0..MaxEntries

Quiet == [nested |-> 0, step |-> "idle"]

SlInit ==
    /\ slCfg \in [history : BOOLEAN, requireTun : BOOLEAN, nat : BOOLEAN]
    /\ slPc = "log" /\ slOpen = {} /\ slMachine = {}
    /\ slEnd = "running" /\ slFailed = "none" /\ slSignal = FALSE
    /\ slLog = [g \in Loggers |-> Quiet]
    /\ slQueue = <<>> /\ slWriter = "none" /\ slNext = 0
    /\ slStored = {} /\ slGone = {} /\ slOwed = {}

-----------------------------------------------------------------------------
(* The boot *)

Running == slEnd = "running"
AtStage(stage) == Running /\ slPc = stage
Opens(what) == slOpen' = slOpen \cup {what}

ProcessEnds(how) == slEnd' = how /\ slPc' = "over"

(* logger.Fatal: os.Exit, no deferred call is made.                        *)
Fatal == ProcessEnds("fatal") /\ slFailed' = slPc /\ UNCHANGED <<slMachine, slSignal>>

(* The next step of the boot, which opens something.                       *)
BootStep(stage, what, then) ==
    /\ AtStage(stage)
    /\ Opens(what) /\ slPc' = then
    /\ UNCHANGED <<slMachine, slEnd, slFailed, slSignal, logVars>>

Passes(stage, then) ==
    /\ AtStage(stage) /\ slPc' = then
    /\ UNCHANGED <<slOpen, slMachine, slEnd, slFailed, slSignal, logVars>>

InitGlobal ==
    \/ BootStep("log", "log", "bind")
    \/ /\ AtStage("log") /\ ProcessEnds("exit") /\ slFailed' = "log"
       /\ UNCHANGED <<slOpen, slMachine, slSignal, logVars>>

OpenStore == BootStep("store", "store", IF slCfg.history THEN "history" ELSE "check")

(* logstore.Open and SetHistoryWriter.                                     *)
OpenHistory ==
    /\ AtStage("history")
    /\ Opens("history") /\ slPc' = "check" /\ slWriter' = "loop"
    /\ UNCHANGED <<slMachine, slEnd, slFailed, slSignal, slLog, slQueue, slNext, slStored, slGone, slOwed>>

(* bootPersist gives back what it has opened before it fails: the history  *)
(* is flushed, and stays the logger's history writer.                      *)
PersistFails ==
    /\ Running /\ slPc \in {"store", "history", "check", "key", "admin"}
    /\ IF "history" \in slOpen
       THEN slWriter' = "done" /\ slStored' = slStored \cup ToSet(slQueue) /\ slQueue' = <<>>
       ELSE UNCHANGED <<slWriter, slStored, slQueue>>
    /\ slOpen' = slOpen \ {"history", "store"}
    /\ Fatal
    /\ UNCHANGED <<slLog, slNext, slGone, slOwed>>

(* BindCheck, bootIPPool and bootSession; bootTunnel when the TUN and the  *)
(* NAT are already there.                                                  *)
StepFails ==
    /\ Running /\ slPc \in {"bind", "pool", "session", "tunnel"}
    /\ Fatal /\ UNCHANGED <<slOpen, logVars>>

SelfCheck ==
    \/ Passes("bind", "store") \/ Passes("check", "key") \/ Passes("key", "admin")
    \/ BootStep("admin", "lease", "pool") \/ Passes("pool", "session") \/ Passes("session", "tun")

OpenTun == BootStep("tun", "tun", "nat")

NoTun ==
    /\ AtStage("tun")
    /\ IF slCfg.requireTun THEN Fatal ELSE slPc' = "tunnel" /\ UNCHANGED <<slMachine, slEnd, slFailed, slSignal>>
    /\ UNCHANGED <<slOpen, logVars>>

(* Mutant of SetupNat: Run returns the error of a failing Setup.  The calls *)
(* deferred so far are made, and the Teardown is not one of them yet.      *)
SetupReturns ==
    /\ AtStage("nat")
    /\ \/ /\ slMachine' \in IF slCfg.nat THEN {{"forward"}, {"forward", "nat"}} ELSE {{}}
          /\ slPc' = "tunnel" /\ UNCHANGED <<slOpen, slEnd, slFailed, slSignal>>
       \/ /\ slCfg.nat /\ slMachine' \in {{}, {"forward"}, {"forward", "nat"}}
          /\ slOpen' = {}
          /\ ProcessEnds("exit") /\ slFailed' = slPc /\ UNCHANGED slSignal
    /\ UNCHANGED logVars

(* netstack Setup, only with nat.enabled: forwarding is switched on, then  *)
(* there is a rule or a shared connection for each LAN.  It may fail       *)
(* before both, between them or with some of the rules in place, and       *)
(* bootTUNNetstack then closes the device and undoes nothing; with         *)
(* forward_only the boot goes on after all.                                *)
SetupNat ==
    /\ AtStage("nat")
    /\ \/ /\ slMachine' \in IF slCfg.nat THEN {{"forward"}, {"forward", "nat"}} ELSE {{}}
          /\ slPc' = "tunnel" /\ UNCHANGED <<slOpen, slEnd, slFailed, slSignal>>
       \/ /\ slCfg.nat /\ slMachine' \in {{}, {"forward"}, {"forward", "nat"}}
          /\ slOpen' = slOpen \ {"tun"}
          /\ ProcessEnds("fatal") /\ slFailed' = slPc /\ UNCHANGED slSignal
    /\ UNCHANGED logVars

ListenTunnel == BootStep("tunnel", "tunnel", "shutdown")

(* NewShutdown: from here on a signal cancels the context.                 *)
NewShutdown == Passes("shutdown", "api")

(* Listeners that cannot be bound are left out; the reader of the TUN is   *)
(* the one goroutine the shutdown waits for.                               *)
BootAPI ==
    /\ AtStage("api")
    /\ slOpen' = slOpen \cup {"api", "retention"} \cup (IF "tun" \in slOpen THEN {"reader"} ELSE {})
    /\ slPc' = "run"
    /\ UNCHANGED <<slMachine, slEnd, slFailed, slSignal, logVars>>

-----------------------------------------------------------------------------
(* Its end *)

Signalled == slPc \notin {"log", "bind", "store", "history", "check", "key", "admin", "pool", "session",
                          "tun", "nat", "tunnel", "shutdown", "over"}

Signal ==
    /\ Running
    /\ IF Signalled
       THEN ~slSignal /\ slSignal' = TRUE /\ UNCHANGED <<slPc, slEnd>>
       ELSE ProcessEnds("killed") /\ UNCHANGED slSignal
    /\ UNCHANGED <<slOpen, slMachine, slFailed, logVars>>

(* The device is closed, or broke.                                         *)
ReaderEnds ==
    /\ Running /\ "reader" \in slOpen
    /\ slOpen' = slOpen \ {"reader"}
    /\ UNCHANGED <<slPc, slMachine, slEnd, slFailed, slSignal, logVars>>

Closes(stage, what, then) ==
    /\ AtStage(stage)
    /\ slOpen' = slOpen \ {what} /\ slPc' = then
    /\ UNCHANGED <<slMachine, slEnd, slFailed, slSignal, logVars>>

(* shutdownServer.                                                         *)
ShutdownServer ==
    \/ slSignal /\ Passes("run", "stopApi")
    \/ Closes("stopApi", "api", "stopTunnel")
    \/ Closes("stopTunnel", "tunnel", "stopTun")
    \/ Closes("stopTun", "tun", "wait")

(* Wait returns when the reader has ended, or after its timeout.           *)
WaitGoroutines == Passes("wait", "closeTun")

(* Rules and sharing go, forwarding stays on.                              *)
Teardown ==
    /\ AtStage("teardown")
    /\ slMachine' = slMachine \ {"nat"} /\ slPc' = "stopLease"
    /\ UNCHANGED <<slOpen, slEnd, slFailed, slSignal, logVars>>

(* The deferred calls, the last one first.                                 *)
Deferred ==
    \/ Closes("closeTun", "tun", "teardown")
    \/ Closes("stopLease", "lease", IF "history" \in slOpen THEN "closeHistory" ELSE "closeStore")
    \/ Closes("closeStore", "store", "closeLog")

CloseHistory ==
    /\ AtStage("closeHistory")
    /\ slWriter = "loop" /\ slPc' = "flush"
    /\ slOwed' = slStored \cup ToSet(slQueue)
    /\ UNCHANGED <<slOpen, slMachine, slEnd, slFailed, slSignal, slLog, slQueue, slWriter, slNext, slStored, slGone>>

HistoryClosed ==
    /\ AtStage("flush") /\ slWriter = "done"
    /\ slOpen' = slOpen \ {"history"} /\ slPc' = "closeStore"
    /\ UNCHANGED <<slMachine, slEnd, slFailed, slSignal, logVars>>

(* main returns, with whatever goroutines there are.                       *)
CloseLog ==
    /\ AtStage("closeLog")
    /\ slOpen' = slOpen \ {"log", "reader", "retention"} /\ ProcessEnds("exit")
    /\ UNCHANGED <<slMachine, slFailed, slSignal, logVars>>

-----------------------------------------------------------------------------
(* The log *)

Speaks(g, nested, step) == slLog' = [slLog EXCEPT ![g] = [nested |-> nested, step |-> step]]

LogCall(g) ==
    /\ Running /\ "log" \in slOpen /\ slLog[g].step = "idle" /\ slNext < MaxEntries
    /\ Speaks(g, 0, IF slWriter = "none" THEN "print" ELSE "enqueue")
    /\ UNCHANGED <<bootVars, slQueue, slWriter, slNext, slStored, slGone, slOwed>>

(* Enqueue does not wait.  When the queue is full it drops the line, and   *)
(* logs a warning: log calls the history writer, which is Enqueue.         *)
Enqueue(g) ==
    /\ Running /\ slLog[g].step = "enqueue" /\ slNext < MaxEntries
    /\ IF Len(slQueue) < QueueLen
       THEN slQueue' = Append(slQueue, slNext) /\ Speaks(g, slLog[g].nested, "print") /\ UNCHANGED slGone
       ELSE /\ slLog[g].nested <= MaxNested
            /\ slGone' = slGone \cup {slNext}
            /\ Speaks(g, slLog[g].nested + 1, "enqueue") /\ UNCHANGED slQueue
    /\ slNext' = slNext + 1
    /\ UNCHANGED <<bootVars, slWriter, slStored, slOwed>>

(* Its own line is printed, then the line whose warning it was.            *)
PrintLine(g) ==
    /\ Running /\ slLog[g].step = "print"
    /\ IF slLog[g].nested > 0 THEN Speaks(g, slLog[g].nested - 1, "print") ELSE Speaks(g, 0, "idle")
    /\ UNCHANGED <<bootVars, slQueue, slWriter, slNext, slStored, slGone, slOwed>>

(* writerLoop; an INSERT that fails is not tried again.                    *)
InsertOne ==
    /\ Running /\ slWriter \in {"loop", "drain"} /\ slQueue # <<>>
    /\ slQueue' = Tail(slQueue)
    /\ \/ slStored' = slStored \cup {Head(slQueue)} /\ UNCHANGED slGone
       \/ slGone' = slGone \cup {Head(slQueue)} /\ UNCHANGED slStored
    /\ UNCHANGED <<bootVars, slLog, slWriter, slNext, slOwed>>

(* On Close the writer stores what is in the queue, and ends.              *)
WriterEnds ==
    /\ Running /\ slPc = "flush" /\ slWriter \in {"loop", "drain"}
    /\ slWriter' = IF slWriter = "drain" /\ slQueue = <<>> THEN "done" ELSE "drain"
    /\ slWriter' # slWriter
    /\ UNCHANGED <<bootVars, slLog, slQueue, slNext, slStored, slGone, slOwed>>

(* RunDataRetention, at the start and once a day, also while the process   *)
(* ends: the calls on a closed database fail.                              *)
DataRetention ==
    /\ Running /\ {"retention", "history"} \subseteq slOpen
    /\ \E old \in SUBSET slStored : /\ old # {} /\ \A x \in old, y \in slStored \ old : x < y
                                    /\ slStored' = slStored \ old /\ slGone' = slGone \cup old
    /\ UNCHANGED <<bootVars, slLog, slQueue, slWriter, slNext, slOwed>>

-----------------------------------------------------------------------------
Booting ==
    \/ InitGlobal \/ OpenStore \/ OpenHistory \/ PersistFails \/ StepFails \/ SelfCheck
    \/ OpenTun \/ NoTun \/ SetupNat \/ ListenTunnel \/ NewShutdown \/ BootAPI
Ending ==
    \/ Signal \/ ReaderEnds \/ ShutdownServer \/ WaitGoroutines \/ Teardown \/ Deferred
    \/ CloseHistory \/ HistoryClosed \/ CloseLog
Logging ==
    \/ \E g \in Loggers : LogCall(g) \/ Enqueue(g) \/ PrintLine(g)
    \/ InsertOne \/ WriterEnds \/ DataRetention

SlNext == (Booting \/ Ending \/ Logging) /\ UNCHANGED slCfg

SlSpec == SlInit /\ [][SlNext]_slVars

-----------------------------------------------------------------------------
(* A process that ends by itself has closed everything and taken back its  *)
(* rules and shared connections (forwarding, which Teardown does not touch, *)
(* stays on), and every line that was in the queue when the history was    *)
(* closed has been given to logs.db (logstore.go: Close flushes the        *)
(* queue).  Rules or sharing are left only by a signal that comes before   *)
(* anybody listens for it, by a Setup that fails when it has some of them, *)
(* or when the tunnel cannot listen (Fatal makes no deferred call).        *)
ExitsClean ==
    /\ slEnd = "exit" => slOpen = {} /\ "nat" \notin slMachine /\ slOwed \subseteq slStored \cup slGone
    /\ slEnd # "running" /\ "nat" \in slMachine => slEnd = "killed" \/ slFailed \in {"nat", "tunnel"}
=============================================================================
