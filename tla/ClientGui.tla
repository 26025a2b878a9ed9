----------------------------- MODULE ClientGui -----------------------------
(***************************************************************************)
(* The desktop client's engine operations: login, logout, quit and manual  *)
(* reconnection, their queue (engOpBusy, opGen, pendingIntent), and the    *)
(* background goroutines that stop and start engines for them.  What runs  *)
(* on the UI thread is one step.  An engine is what the desktop sees of    *)
(* clientapp.Engine: not started, up, or stopped, and whether it has set   *)
(* up Windows connection sharing (ICS); ClientEngine has the inside.       *)
(***************************************************************************)
EXTENDS Naturals, Sequences, FiniteSets, SequencesExt

CONSTANTS MaxEngines,   \* engines created, at most
          MaxClicks,    \* requests of the user and failures, at most
          Sharing       \* local_lans is set: an engine sets up ICS

ASSUME GuiAssumption == MaxEngines \in Nat /\ MaxClicks \in Nat /\ Sharing \in BOOLEAN

VARIABLES
    queue,     \* engOpBusy, opGen, pendingIntent
    mounted,   \* u.eng, 0 for nil
    engine,    \* per engine: "none", "new", "up", "down"
    via,       \* the engines that have set up ICS and not torn it down
    shared,    \* ICS is on
    window,    \* windows shown and what the tray menu offers
    tasks,     \* background goroutines with the continuation on the UI thread
    late,      \* engines whose Start ran after their Stop
    unserved,  \* an operation that does not look at the queue ended with an intent in it
    kept,      \* ICS was kept by a HardRestart whose new engine has not set it up
    quit,      \* the program has ended
    clicks     \* bound

guiVars == <<queue, mounted, engine, via, shared, window, tasks, late, unserved, kept, quit,
             clicks>>

Engines == 1..MaxEngines
Intents == {"none", "logout", "quit", "reconnect"}

Present(e) == IF e = 0 THEN <<>> ELSE <<e>>       \* 0 is nil

(* A goroutine that stops engines one after the other, then does then.     *)
StopTask(list, then) == [kind |-> "stop", todo |-> list, then |-> then, gen |-> 0]
(* HardRestart: todo is the old engine, then the stage; a new engine is    *)
(* added to todo when it has started.                                      *)
RestartTask(old, stage, gen) == [kind |-> "restart", todo |-> Present(old), then |-> stage,
                                 gen |-> gen]
LoginTask(e, stage) == [kind |-> "login", todo |-> <<e>>, then |-> stage, gen |-> 0]

GuiInit ==
    /\ queue = [busy |-> FALSE, gen |-> 0, pending |-> "none"]
    /\ mounted = 0
    /\ engine = [e \in Engines |-> "none"]
    /\ via = {}
    /\ shared = FALSE
    /\ window = [login |-> TRUE, connect |-> TRUE, main |-> FALSE, tray |-> "login"]
    /\ tasks = {}
    /\ late = {}
    /\ unserved = FALSE
    /\ kept = FALSE
    /\ quit = FALSE
    /\ clicks = 0

----------------------------------------------------------------------------
(* engineOpQueue *)

ShouldAbort(gen) == queue.gen # gen \/ queue.pending \in {"logout", "quit"}

(* Mutant of SetPending: it does not look whether an operation runs. *)
SetPendingIdle(intent) ==
    queue' = [queue EXCEPT !.pending = intent, !.gen = @ + 1]

SetPending(intent) ==
    /\ queue.busy
    /\ queue' = IF queue.pending \in {"quit", "logout"} /\ intent = "reconnect"
                THEN queue
                ELSE [queue EXCEPT !.pending = intent, !.gen = @ + 1]

(* Mutant of EndOp: the queue stays busy. *)
EndNothing == UNCHANGED <<queue, unserved>>

(* endEngineOp without takePendingIntent: what is queued stays queued.     *)
EndOp == /\ queue' = [queue EXCEPT !.busy = FALSE]
         /\ unserved' = (unserved \/ queue.pending # "none")

(* The tray menu is rebuilt from u.eng, the connect button follows busy.   *)
TrayMenu == IF mounted = 0 THEN "login" ELSE "main"
WhenBusy == [window EXCEPT !.connect = FALSE, !.tray = TrayMenu]
WhenIdle == [window EXCEPT !.connect = TRUE]
LoginPage == [login |-> TRUE, connect |-> TRUE, main |-> FALSE, tray |-> TrayMenu]

(* Mutant of Orphaned: the engine that a HardRestart has started is left.  *)
OnlyMounted(orphan) == Present(mounted)

(* The engines a dispatched intent stops.                                  *)
Orphaned(orphan) == Present(mounted) \o Present(orphan)

(* takePendingIntent and dispatchPendingWithOrphan; t is the task that ends. *)
Dispatch(t, orphan) ==
    /\ queue' = [queue EXCEPT !.pending = "none"]
    /\ mounted' = 0
    /\ window' = WhenBusy
    /\ tasks' = (tasks \ {t}) \cup
          {StopTask(Orphaned(orphan),
                    CASE queue.pending = "logout" -> "login"
                      [] queue.pending = "quit" -> "quit"
                      [] queue.pending = "reconnect" -> "restart")}
    /\ UNCHANGED <<unserved, quit>>

----------------------------------------------------------------------------
(* The user *)

Click == ~quit /\ clicks < MaxClicks /\ clicks' = clicks + 1

(* tryConnect with no engine mounted: PrepareEngine, and a goroutine that  *)
(* starts it.  An operation may be running.                                *)
Launch(e) ==
    /\ engine[e] = "none" /\ \A d \in Engines : d < e => engine[d] # "none"
    /\ engine' = [engine EXCEPT ![e] = "new"]
    /\ mounted' = e
    /\ window' = [window EXCEPT !.connect = FALSE, !.tray = "main"]

Connect ==
    /\ Click /\ window.login /\ window.connect /\ ~queue.busy
    /\ \/ /\ mounted = 0
          /\ \E e \in Engines : Launch(e) /\ tasks' = tasks \cup {LoginTask(e, "start")}
          /\ UNCHANGED queue
       \/ /\ mounted # 0
          /\ queue' = [queue EXCEPT !.busy = TRUE]
          /\ mounted' = 0
          /\ window' = WhenBusy
          /\ tasks' = tasks \cup {StopTask(Present(mounted), "retry")}
          /\ UNCHANGED engine
    /\ UNCHANGED <<via, shared, late, unserved, kept, quit>>

(* A request that finds the queue idle takes the engine and stops it in    *)
(* the background; one that finds it busy is queued.                       *)
Operate(intent, task) ==
    /\ \/ /\ ~queue.busy
          /\ queue' = [queue EXCEPT !.busy = TRUE]
          /\ mounted' = 0
          /\ window' = WhenBusy
          /\ tasks' = tasks \cup {task}
       \/ SetPending(intent) /\ UNCHANGED <<mounted, window, tasks>>
    /\ UNCHANGED <<engine, via, shared, late, unserved, kept, quit>>

MainMenu == window.main \/ window.tray = "main"

Logout == Click /\ MainMenu /\ Operate("logout", StopTask(Present(mounted), "loggedOut"))
Quit == Click /\ Operate("quit", StopTask(Present(mounted), "leave"))
Reconnect == Click /\ MainMenu /\ Operate("reconnect", RestartTask(mounted, "stop", queue.gen))

(* 显示登录窗口 in the tray menu. *)
ShowLogin ==
    /\ Click /\ window.tray = "login" /\ ~window.login
    /\ window' = [window EXCEPT !.login = TRUE]
    /\ UNCHANGED <<queue, mounted, engine, via, shared, tasks, late, unserved, kept, quit>>

(* The hook of a mounted engine whose data plane fails logs out.           *)
DataplaneFailed ==
    /\ Click /\ mounted # 0 /\ engine[mounted] = "up"
    /\ Operate("logout", StopTask(Present(mounted), "loggedOut"))

----------------------------------------------------------------------------
(* Engine.Start, Engine.Stop and setupViaExit, as the goroutines call them *)

Started(e) == /\ engine' = [engine EXCEPT ![e] = "up"]
              /\ late' = IF engine[e] = "down" THEN late \cup {e} ELSE late

(* Mutant of Stopped: sharing is left on. *)
StoppedSharing(e, ics) ==
    /\ engine' = [engine EXCEPT ![e] = "down"]
    /\ via' = via \ {e}
    /\ UNCHANGED <<shared, kept>>

Stopped(e, ics) ==
    /\ engine' = [engine EXCEPT ![e] = "down"]
    /\ via' = via \ {e}
    /\ shared' = (shared /\ ~(e \in via /\ ics = "disable"))
    /\ kept' = (kept \/ (e \in via /\ ics = "preserve"))

SetUpVia(e) ==
    /\ ~quit /\ Sharing /\ engine[e] = "up" /\ e \notin via
    /\ via' = via \cup {e}
    /\ shared' = TRUE
    /\ kept' = FALSE
    /\ UNCHANGED <<queue, mounted, engine, window, tasks, late, unserved, quit, clicks>>

----------------------------------------------------------------------------
(* stopEnginesSerial *)

StopNext(t) ==
    /\ t.kind = "stop" /\ t.todo # <<>>
    /\ Stopped(Head(t.todo), "disable")
    /\ tasks' = (tasks \ {t}) \cup {[t EXCEPT !.todo = Tail(@)]}
    /\ UNCHANGED <<queue, mounted, window, late, unserved, quit, clicks>>

(* The program ends: finishQuitApp, and shutdown stops what is mounted.    *)
Leave(t) ==
    /\ quit' = TRUE
    /\ tasks' = {}
    /\ engine' = [e \in Engines |-> IF e = mounted THEN "down" ELSE engine[e]]
    /\ mounted' = 0
    /\ EndOp
    /\ UNCHANGED window

StopDone(t) ==
    /\ t.kind = "stop" /\ t.todo = <<>>
    /\ \/ /\ t.then \in {"loggedOut", "leave"} /\ queue.pending # "none"
          /\ Dispatch(t, 0) /\ UNCHANGED engine
       \/ /\ t.then \in {"leave", "quit"} /\ (t.then = "leave" => queue.pending = "none")
          /\ Leave(t)
       \/ /\ t.then \in {"loggedOut", "login"}
          /\ (t.then = "loggedOut" => queue.pending = "none")
          /\ EndOp
          /\ window' = LoginPage
          /\ tasks' = tasks \ {t}
          /\ UNCHANGED <<mounted, quit, engine>>
       \/ /\ t.then = "restart"
          /\ tasks' = (tasks \ {t}) \cup {RestartTask(0, "stop", queue.gen)}
          /\ UNCHANGED <<queue, mounted, window, unserved, quit, engine>>
       \/ /\ t.then = "idle"
          /\ EndOp
          /\ window' = [WhenIdle EXCEPT !.tray = TrayMenu]
          /\ tasks' = tasks \ {t}
          /\ UNCHANGED <<mounted, quit, engine>>
       \/ /\ t.then = "retry"
          /\ EndOp
          /\ \/ \E e \in Engines :
                    Launch(e) /\ tasks' = (tasks \ {t}) \cup {LoginTask(e, "start")}
             \/ /\ \A e \in Engines : engine[e] # "none"
                /\ window' = WhenIdle
                /\ tasks' = tasks \ {t}
                /\ UNCHANGED <<mounted, engine>>
          /\ UNCHANGED quit
    /\ UNCHANGED <<via, shared, late, kept, clicks>>

----------------------------------------------------------------------------
(* HardRestart *)

(* StopKeepICS of the old engine, the wait for DNS, and the three checks   *)
(* of abort, the last right before Start.                                  *)
RestartStage(t) ==
    /\ t.kind = "restart" /\ t.then \in {"stop", "stopped", "waited"}
    /\ \/ /\ t.then = "stop"
          /\ \/ t.todo # <<>> /\ Stopped(Head(t.todo), "preserve")
             \/ t.todo = <<>> /\ UNCHANGED <<engine, via, shared, kept>>
          /\ tasks' = (tasks \ {t}) \cup {RestartTask(0, "stopped", t.gen)}
       \/ /\ t.then # "stop"
          /\ tasks' = (tasks \ {t}) \cup
                {RestartTask(0, IF ShouldAbort(t.gen) THEN "aborted"
                                ELSE IF t.then = "stopped" THEN "waited" ELSE "start", t.gen)}
          /\ UNCHANGED <<engine, via, shared, kept>>
    /\ UNCHANGED <<queue, mounted, window, late, unserved, quit, clicks>>

(* Start fails before anything runs, or the engine is up.                  *)
RestartStart(t) ==
    /\ t.kind = "restart" /\ t.then = "start"
    /\ \/ \E e \in Engines :
             /\ engine[e] = "none" /\ \A d \in Engines : d < e => engine[d] # "none"
             /\ \/ /\ Started(e)
                   /\ tasks' = (tasks \ {t}) \cup {RestartTask(e, "up", t.gen)}
                \/ /\ engine' = [engine EXCEPT ![e] = "new"]
                   /\ tasks' = (tasks \ {t}) \cup {RestartTask(e, "failed", t.gen)}
                   /\ UNCHANGED late
       \/ /\ \A e \in Engines : engine[e] # "none"
          /\ tasks' = (tasks \ {t}) \cup {RestartTask(0, "failed", t.gen)}
          /\ UNCHANGED <<engine, late>>
    /\ UNCHANGED <<queue, mounted, window, via, shared, kept, unserved, quit, clicks>>

(* finishHardRestartUI: mounted only when nothing has been queued since.   *)
RestartDone(t) ==
    LET new == IF t.todo = <<>> THEN 0 ELSE Head(t.todo)
        mount == queue.gen = t.gen /\ t.then = "up"
    IN  /\ t.kind = "restart" /\ t.then \in {"aborted", "up", "failed"}
        /\ \/ queue.pending # "none" /\ Dispatch(t, new)
           \/ /\ queue.pending = "none" /\ mount
              /\ mounted' = new
              /\ queue' = [queue EXCEPT !.busy = FALSE]
              /\ window' = [WhenIdle EXCEPT !.tray = "main"]
              /\ tasks' = tasks \ {t}
              /\ UNCHANGED <<unserved, quit>>
           \/ /\ queue.pending = "none" /\ ~mount /\ new # 0
              /\ window' = [window EXCEPT !.tray = TrayMenu]
              /\ tasks' = (tasks \ {t}) \cup {StopTask(<<new>>, "idle")}
              /\ UNCHANGED <<queue, mounted, unserved, quit>>
           \/ /\ queue.pending = "none" /\ ~mount /\ new = 0
              /\ queue' = [queue EXCEPT !.busy = FALSE]
              /\ window' = WhenIdle
              /\ tasks' = tasks \ {t}
              /\ UNCHANGED <<mounted, unserved, quit>>
        /\ UNCHANGED <<engine, via, shared, late, kept, clicks>>

----------------------------------------------------------------------------
(* The goroutine of a login: StartAndWaitFirstAuth, then the UI            *)

LoginStart(t) ==
    /\ t.kind = "login" /\ t.then = "start"
    /\ Started(t.todo[1])
    /\ tasks' = (tasks \ {t}) \cup {LoginTask(t.todo[1], "wait")}
    /\ UNCHANGED <<queue, mounted, window, via, shared, kept, unserved, quit, clicks>>

(* WaitConnected fails (also for an engine stopped meanwhile): Stop.       *)
LoginRefused(t) ==
    /\ t.kind = "login" /\ t.then = "wait"
    /\ Stopped(t.todo[1], "disable")
    /\ tasks' = (tasks \ {t}) \cup {LoginTask(t.todo[1], "refused")}
    /\ UNCHANGED <<queue, mounted, window, late, unserved, quit, clicks>>

(* finishLoginFailure, if the engine is still the mounted one.             *)
LoginFailed(t) ==
    /\ t.kind = "login" /\ t.then = "refused"
    /\ \/ /\ mounted # t.todo[1]
          /\ tasks' = tasks \ {t}
          /\ UNCHANGED <<queue, mounted, window>>
       \/ /\ mounted = t.todo[1] /\ ~queue.busy
          /\ mounted' = 0
          /\ queue' = [queue EXCEPT !.busy = TRUE]
          /\ window' = [window EXCEPT !.connect = FALSE, !.tray = "login"]
          /\ tasks' = (tasks \ {t}) \cup {StopTask(t.todo, "idle")}
    /\ UNCHANGED <<engine, via, shared, late, unserved, kept, quit, clicks>>

LoginOK(t) ==
    /\ t.kind = "login" /\ t.then = "wait" /\ engine[t.todo[1]] = "up"
    /\ window' = IF mounted = t.todo[1]
                 THEN [window EXCEPT !.login = FALSE, !.main = TRUE, !.tray = "main"]
                 ELSE window
    /\ tasks' = tasks \ {t}
    /\ UNCHANGED <<queue, mounted, engine, via, shared, late, unserved, kept, quit, clicks>>

----------------------------------------------------------------------------

User == Connect \/ Logout \/ Quit \/ Reconnect \/ ShowLogin \/ DataplaneFailed

Background == \E t \in tasks :
    StopNext(t) \/ StopDone(t) \/ RestartStage(t) \/ RestartStart(t) \/ RestartDone(t)
      \/ LoginStart(t) \/ LoginRefused(t) \/ LoginFailed(t) \/ LoginOK(t)

GuiNext == User \/ Background \/ \E e \in Engines : SetUpVia(e)

GuiSpec == GuiInit /\ [][GuiNext]_guiVars

----------------------------------------------------------------------------
(* Properties *)

GuiTypeOK ==
    /\ queue \in [busy : BOOLEAN, gen : 0..MaxClicks, pending : Intents]
    /\ mounted \in 0..MaxEngines
    /\ engine \in [Engines -> {"none", "new", "up", "down"}]
    /\ via \subseteq Engines /\ late \subseteq Engines
    /\ {shared, unserved, kept, quit} \subseteq BOOLEAN
    /\ window \in [login : BOOLEAN, connect : BOOLEAN, main : BOOLEAN, tray : {"login", "main"}]
    /\ Cardinality({t \in tasks : t.kind # "login"}) <= 1    \* one operation at a time

(* Nothing dials behind the user's back, and never two engines at once     *)
(* (two TUN devices, two sets of routes): an engine that runs is mounted,  *)
(* or a goroutine still has it that will stop it, mount it or report to    *)
(* the UI.  The exception is a login that is cancelled early: tryConnect   *)
(* mounts the engine before its goroutine has called Start, a logout in    *)
(* between stops it first, and nobody stops it after that Start.           *)
EnginesOwned ==
    LET up == {e \in Engines : engine[e] = "up" /\ e \notin late}
    IN  ~quit => /\ Cardinality(up) <= 1
                 /\ \A e \in up : e = mounted \/ \E t \in tasks : Contains(t.todo, e)

(* When no operation runs no request is waiting: setPending promises that  *)
(* the operation under way will do it ("将在当前清理完成后退出").  The     *)
(* operations that never look at the queue when they end (the logout of a  *)
(* dispatched intent, a login's cleanup) are the exception: the request is *)
(* left for whatever operation comes next.                                 *)
IntentServed == ~queue.busy /\ queue.pending # "none" => unserved

(* With no engine and no operation under way ICS is off: a logout tears    *)
(* sharing down.  The exception: a HardRestart keeps ICS for its successor *)
(* and is then aborted, or its engine stopped before it had set up ICS.    *)
LoggedOutUnshared ==
    ~quit /\ tasks = {} /\ mounted = 0 /\ (\A e \in Engines : engine[e] # "up") /\ shared
      => kept

(* An operation ends, whatever is queued behind it meanwhile: the buttons  *)
(* are enabled again or the program has ended.                             *)
BusyEnds == queue.busy ~> (~queue.busy \/ quit)
=============================================================================
