----------------------------- MODULE ClientHost -----------------------------
(***************************************************************************)
(* The client's processes on one Windows machine: two starts of the GUI,   *)
(* one of the command line, and the service, of which only the holder of   *)
(* the coordination port may run an engine; the service control manager    *)
(* and the commands given to it; client.yaml, the copy of it the GUI edits *)
(* and the service's credentials.  A password is the name of the account   *)
(* it was typed for.  The environment names no account.                    *)
(***************************************************************************)
EXTENDS FiniteSets, Naturals

CONSTANTS Logins,     \* names of accounts
          Nobody,     \* no account, no password, no process
          MaxStarts,  \* bound: programs started and orders given to the SCM
          MaxForms    \* bound: logins tried and settings toggled

ASSUME HostAssumption == /\ Logins # {} /\ Nobody \notin Logins \cup {"gui1", "gui2", "cli", "svc"}
                         /\ {MaxStarts, MaxForms} \subseteq Nat

VARIABLES
    hPc,       \* main of a GUI, runClient of the command line and the service
    hExec,     \* clientService.Execute
    hLock,     \* who listens on the coordination port
    hEngine,   \* the processes that have an engine
    hStop,     \* cliShutdown of the command line and the service
    hScm,      \* the service as the SCM knows it
    hOp,       \* a stop or uninstall that is waiting, by the process that gave it
    hFile,     \* client.yaml
    hCfg,      \* u.cfg of the GUI that has a window
    hLogin,    \* a login of that GUI is waiting for the answer
    hCreds,    \* the service's credentials
    hRejected, \* u.cfg has been, since client.yaml was last good, one Validate refuses
    hStarts, hForms

scmVars == <<hScm, hOp>>
fileVars == <<hFile, hCfg, hLogin, hCreds, hRejected, hForms>>
procVars == <<hPc, hExec, hLock, hEngine, hStop>>
hostVars == <<procVars, scmVars, fileVars, hStarts>>

Guis == {"gui1", "gui2"}
Loops == {"cli", "svc"}
HostProcs == Guis \cup Loops

NameOrNone == Logins \cup {Nobody}
Settings == [user : NameOrNone, pass : NameOrNone, remember : BOOLEAN, auto : BOOLEAN,
             lans : {"good", "bad"}, ca : BOOLEAN]
Stage(stage, round) == [at |-> stage, round |-> round]
Off == Stage("off", 0)

HostTypeOK ==
    /\ hPc \in [HostProcs -> [at : {"off", "probe", "occupied", "ask", "stop", "free", "acquire", "window",
                                    "load", "start", "up", "close", "done"}, round : 0..3]]
    /\ hExec \in {"off", "acquire", "report", "select", "waiting", "returned"}
    /\ hLock \in HostProcs \cup {Nobody} /\ hEngine \subseteq HostProcs
    /\ hStop \in [Loops -> {"unset", "set", "cancelled"}]
    /\ hScm \in [installed : BOOLEAN, deleted : BOOLEAN, asked : BOOLEAN,
                 state : {"stopped", "starting", "running", "stopping"}]
    /\ hOp \in [{"cmd", "gui"} -> {"idle", "stop", "uninstall"}]
    /\ hFile \in Settings /\ hCfg \in Settings /\ hLogin \in NameOrNone
    /\ hCreds \in [user : NameOrNone, pass : NameOrNone]
    /\ hRejected \in BOOLEAN /\ hStarts \in 0..MaxStarts /\ hForms \in 0..MaxForms

-----------------------------------------------------------------------------
(* client.yaml *)

(* The file the program writes when there is none, and what the GUI works  *)
(* with when the file does not load.                                       *)
Template == [user |-> Nobody, pass |-> Nobody, remember |-> FALSE, auto |-> FALSE, lans |-> "good", ca |-> TRUE]
Defaults == [Template EXCEPT !.ca = FALSE]
(* Every file names a CA.                                                  *)
NoFile == Defaults

CanAutoConnect(c) == c.auto /\ c.remember /\ c.pass # Nobody

Validate(c) ==
    /\ c.user # Nobody /\ c.ca /\ c.lans = "good"
    /\ c.auto => CanAutoConnect(c)

LoadClient(file) == IF file = NoFile THEN Template ELSE file
Loads(file) == Validate(file)
LoadClientOrDefaults(file) == IF Loads(file) THEN file ELSE Defaults

(* Mutant of Patched: a password that is not to be kept stays in the file. *)
PatchedOver(file, c) ==
    [c EXCEPT !.pass = IF c.remember THEN c.pass ELSE file.pass,
              !.ca = LoadClient(file).ca]

(* patchClientYAML: the account, the networks and the switches are         *)
(* replaced, the rest of the file stays as it is.                          *)
Patched(file, c) ==
    [c EXCEPT !.pass = IF c.remember THEN c.pass ELSE Nobody,
              !.ca = LoadClient(file).ca]

(* The atomic write, or none: the disk is full, or the process is killed.  *)
SaveClient(c) == hFile' \in {Patched(hFile, c), LoadClient(hFile)}

HostInit ==
    /\ hPc = [p \in HostProcs |-> Off] /\ hExec = "off"
    /\ hLock = Nobody /\ hEngine = {} /\ hStop = [p \in Loops |-> "unset"]
    /\ hScm \in [installed : BOOLEAN, deleted : {FALSE}, asked : {FALSE}, state : {"stopped"}]
    /\ hOp = [w \in {"cmd", "gui"} |-> "idle"]
    /\ hFile \in {NoFile, [Template EXCEPT !.user = CHOOSE u \in Logins : TRUE]}
    /\ hCfg = Defaults /\ hLogin = Nobody
    /\ hCreds = [user |-> Nobody, pass |-> Nobody]
    /\ hRejected = (hFile = NoFile) /\ hStarts = 0 /\ hForms = 0

-----------------------------------------------------------------------------
(* A GUI, from its start to its window *)

MovesTo(p, at) == hPc' = [hPc EXCEPT ![p] = at]
Exits(p) == MovesTo(p, Off)
Begins == hStarts < MaxStarts /\ hStarts' = hStarts + 1

StartGui(p) ==
    /\ p \in Guis /\ hPc[p] = Off /\ Begins
    /\ MovesTo(p, Stage("probe", 1))
    /\ UNCHANGED <<hExec, hLock, hEngine, hStop, scmVars, fileVars>>

(* ClientAlreadyRunning, at the start and after the question for more      *)
(* rights: a GUI that gets them is a new process that begins again.        *)
Probe(p) ==
    /\ hPc[p].at = "probe"
    /\ MovesTo(p, IF hLock # Nobody THEN Stage("occupied", hPc[p].round)
               ELSE IF hPc[p].round = 1 THEN Stage("probe", 2) ELSE Stage("acquire", 2))
    /\ UNCHANGED <<hExec, hLock, hEngine, hStop, scmVars, fileVars, hStarts>>

(* The owner is the service, or a message is shown and the process ends.   *)
HandleOccupied(p) ==
    /\ hPc[p].at = "occupied"
    /\ IF hScm.installed /\ hScm.state = "running" THEN MovesTo(p, Stage("ask", hPc[p].round)) ELSE Exits(p)
    /\ UNCHANGED <<hExec, hLock, hEngine, hStop, scmVars, fileVars, hStarts>>

(* What Control(Stop) does: only a service that runs accepts it.           *)
Control == hScm' = [hScm EXCEPT !.asked = (@ \/ hScm.state = "running")]

Stopped == ~hScm.installed \/ hScm.state = "stopped"

AskServiceTakeover(p) ==
    /\ hPc[p].at = "ask"
    /\ \/ Exits(p) /\ UNCHANGED hScm
       \/ IF Stopped THEN MovesTo(p, Stage("free", hPc[p].round)) /\ UNCHANGED hScm
                     ELSE MovesTo(p, Stage("stop", hPc[p].round)) /\ Control
    /\ UNCHANGED <<hExec, hLock, hEngine, hStop, hOp, fileVars, hStarts>>

(* waitServiceStopped and WaitSingleInstanceFree, and their timeouts.      *)
WaitStopped(p) ==
    /\ hPc[p].at = "stop"
    /\ \/ Stopped /\ MovesTo(p, Stage("free", hPc[p].round))
       \/ ~Stopped /\ Exits(p)
    /\ UNCHANGED <<hExec, hLock, hEngine, hStop, scmVars, fileVars, hStarts>>

WaitSingleInstanceFree(p) ==
    /\ hPc[p].at = "free"
    /\ \/ hLock = Nobody /\ MovesTo(p, CASE hPc[p].round = 1 -> Stage("probe", 2)
                                    [] hPc[p].round = 2 -> Stage("acquire", 2)
                                    [] hPc[p].round = 3 -> Stage("acquire", 3))
       \/ hLock # Nobody /\ Exits(p)
    /\ UNCHANGED <<hExec, hLock, hEngine, hStop, scmVars, fileVars, hStarts>>

(* AcquireClient, and Run with the file as it is now; a lock lost at the   *)
(* last moment is asked for once more.                                     *)
Acquire(p) ==
    /\ hPc[p].at = "acquire" /\ p \in Guis
    /\ IF hLock = Nobody
       THEN /\ hLock' = p /\ MovesTo(p, Stage("window", 0))
            /\ hFile' = LoadClient(hFile) /\ hCfg' = LoadClientOrDefaults(hFile)
            /\ hRejected' = ~Validate(hCfg')
       ELSE /\ IF hPc[p].round = 2 THEN MovesTo(p, Stage("occupied", 3)) ELSE Exits(p)
            /\ UNCHANGED <<hLock, hFile, hCfg, hRejected>>
    /\ UNCHANGED <<hExec, hEngine, hStop, scmVars, hLogin, hCreds, hForms, hStarts>>

-----------------------------------------------------------------------------
(* Its window *)

(* One thing at a time is done by the UI's goroutine.                      *)
Window(p) == p \in Guis /\ hPc[p].at = "window" /\ hOp["gui"] = "idle"
Edits(p) == Window(p) /\ hForms < MaxForms /\ hForms' = hForms + 1

(* tryConnect: the form is in u.cfg before Validate has looked at it.      *)
TryConnect(p) ==
    /\ Edits(p) /\ hLogin = Nobody /\ p \notin hEngine
    /\ \E user \in Logins, remember \in BOOLEAN, nets \in {"good", "bad"} :
         /\ hCfg' = [hCfg EXCEPT !.user = user, !.remember = remember, !.lans = nets,
                                 !.pass = IF remember THEN user ELSE Nobody]
         /\ IF Validate(hCfg')
            THEN hLogin' = user /\ hEngine' = hEngine \cup {p} /\ UNCHANGED hRejected
            ELSE hRejected' = TRUE /\ UNCHANGED <<hLogin, hEngine>>
    /\ UNCHANGED <<hPc, hExec, hLock, hStop, scmVars, hFile, hCreds, hStarts>>

(* The answer to it: the settings are saved, or the engine is stopped.     *)
LoginAnswered(p) ==
    /\ Window(p) /\ hLogin # Nobody
    /\ \/ SaveClient(hCfg) /\ UNCHANGED hEngine
       \/ hEngine' = hEngine \ {p} /\ UNCHANGED hFile
    /\ hLogin' = Nobody
    /\ UNCHANGED <<hPc, hExec, hLock, hStop, scmVars, hCfg, hCreds, hRejected, hForms, hStarts>>

Logout(p) ==
    /\ Window(p) /\ hLogin = Nobody /\ p \in hEngine
    /\ hEngine' = hEngine \ {p}
    /\ UNCHANGED <<hPc, hExec, hLock, hStop, scmVars, fileVars, hStarts>>

ToggleAutoConnect(p) ==
    /\ Edits(p)
    /\ LET toggled == [hCfg EXCEPT !.auto = ~@] IN
         IF toggled.auto /\ ~CanAutoConnect(toggled)
         THEN UNCHANGED <<hFile, hCfg>>
         ELSE hCfg' = toggled /\ SaveClient(toggled)
    /\ UNCHANGED <<procVars, scmVars, hLogin, hCreds, hRejected, hStarts>>

(* toggleStartMinimized and toggleKillSwitch: everything else in u.cfg is  *)
(* saved with the switch.                                                  *)
ToggleSwitch(p) ==
    /\ Edits(p) /\ SaveClient(hCfg)
    /\ UNCHANGED <<procVars, scmVars, hCfg, hLogin, hCreds, hRejected, hStarts>>

(* The button of the main window: the form it reads is the last one tried. *)
SaveServiceCredentials(p) ==
    /\ Window(p) /\ p \in hEngine /\ hLogin = Nobody
    /\ hCreds' = [user |-> hCfg.user, pass |-> hCfg.user]
    /\ UNCHANGED <<procVars, scmVars, hFile, hCfg, hLogin, hRejected, hForms, hStarts>>

(* ui.shutdown stops the engine, then the deferred Release.                *)
QuitGui(p) ==
    /\ Window(p)
    /\ IF p \in hEngine
       THEN hEngine' = hEngine \ {p} /\ hLogin' = Nobody /\ UNCHANGED <<hPc, hLock, hCfg>>
       ELSE hLock' = Nobody /\ Exits(p) /\ hCfg' = Defaults /\ UNCHANGED <<hEngine, hLogin>>
    /\ UNCHANGED <<hExec, hStop, scmVars, hFile, hCreds, hRejected, hForms, hStarts>>

-----------------------------------------------------------------------------
(* runClient, of the command line and of the service *)

StartCli ==
    /\ hPc["cli"] = Off /\ Begins
    /\ MovesTo("cli", Stage("acquire", 0))
    /\ UNCHANGED <<hExec, hLock, hEngine, hStop, scmVars, fileVars>>

AcquireCli ==
    /\ hPc["cli"].at = "acquire"
    /\ IF hLock = Nobody
       THEN hLock' = "cli" /\ MovesTo("cli", Stage("load", 0))
       ELSE Exits("cli") /\ UNCHANGED hLock
    /\ UNCHANGED <<hExec, hEngine, hStop, scmVars, fileVars, hStarts>>

(* ResolveCredentials: the file's password, the one saved for the service, *)
(* or (the command line) the one that is typed.                            *)
CanLogIn(p) == Loads(hFile) /\ (hFile.pass # Nobody \/ hCreds.pass # Nobody \/ p = "cli")

LoadBootstrap(p) ==
    /\ p \in Loops /\ hPc[p].at = "load"
    /\ hFile' = LoadClient(hFile)
    /\ IF CanLogIn(p)
       THEN MovesTo(p, Stage("start", 0)) /\ hEngine' = hEngine \cup {p}
       ELSE MovesTo(p, Stage("done", 0)) /\ UNCHANGED hEngine
    /\ UNCHANGED <<hExec, hLock, hStop, scmVars, hCfg, hLogin, hCreds, hRejected, hForms, hStarts>>

(* startClientEngine: only now can the loop be stopped.                    *)
StartEngine(p) ==
    /\ p \in Loops /\ hPc[p].at = "start"
    /\ \/ MovesTo(p, Stage("up", 0)) /\ hStop' = [hStop EXCEPT ![p] = "set"] /\ UNCHANGED hEngine
       \/ MovesTo(p, Stage("done", 0)) /\ hEngine' = hEngine \ {p} /\ UNCHANGED hStop
    /\ UNCHANGED <<hExec, hLock, scmVars, fileVars, hStarts>>

StopCLI(p) == hStop' = [hStop EXCEPT ![p] = IF @ = "set" THEN "cancelled" ELSE @]

(* OnDataplaneFail of the command line, and a signal once it is heard.     *)
DataplaneFails ==
    /\ hPc["cli"].at \in {"start", "up"} /\ StopCLI("cli")
    /\ UNCHANGED <<hPc, hExec, hLock, hEngine, scmVars, fileVars, hStarts>>

LoopEnds(p) ==
    /\ p \in Loops /\ hPc[p].at = "up" /\ hStop[p] = "cancelled"
    /\ MovesTo(p, Stage("close", 0))
    /\ UNCHANGED <<hExec, hLock, hEngine, hStop, scmVars, fileVars, hStarts>>

(* The deferred calls of runClient: cliShutdown is forgotten, the engine   *)
(* is stopped.                                                             *)
CloseEngine(p) ==
    /\ p \in Loops /\ hPc[p].at = "close"
    /\ hStop' = [hStop EXCEPT ![p] = "unset"] /\ hEngine' = hEngine \ {p}
    /\ MovesTo(p, Stage("done", 0))
    /\ UNCHANGED <<hExec, hLock, scmVars, fileVars, hStarts>>

ReleaseCli ==
    /\ hPc["cli"].at = "done"
    /\ Exits("cli") /\ hLock' = Nobody
    /\ UNCHANGED <<hExec, hEngine, hStop, scmVars, fileVars, hStarts>>

-----------------------------------------------------------------------------
(* The service *)

Exec(at) == hExec' = at
Reports(state) == hScm' = [hScm EXCEPT !.state = state]

(* A service deleted while its process is there goes with the process.     *)
LeavesScm == hScm' = [installed |-> hScm.installed /\ ~hScm.deleted, deleted |-> FALSE,
                 asked |-> FALSE, state |-> "stopped"]

AcquireService ==
    /\ hExec = "acquire"
    /\ IF hLock = Nobody
       THEN hLock' = "svc" /\ Exec("report") /\ MovesTo("svc", Stage("load", 0))
       ELSE Exec("returned") /\ UNCHANGED <<hLock, hPc>>
    /\ UNCHANGED <<hEngine, hStop, scmVars, fileVars, hStarts>>

ReportRunning ==
    /\ hExec = "report"
    /\ Exec("select") /\ Reports("running")
    /\ UNCHANGED <<hPc, hLock, hEngine, hStop, hOp, fileVars, hStarts>>

StopRequested ==
    /\ hExec = "select" /\ hScm.asked
    /\ Exec("waiting") /\ Reports("stopping") /\ StopCLI("svc")
    /\ UNCHANGED <<hPc, hLock, hEngine, hOp, fileVars, hStarts>>

(* Mutant of ServiceLoopEnded: a stop does not wait for the loop. *)
ServiceLoopLeft ==
    /\ hExec \in {"select", "waiting"} /\ (hPc["svc"].at = "done" \/ hExec = "waiting")
    /\ Exec("returned") /\ hLock' = Nobody
    /\ UNCHANGED <<hPc, hEngine, hStop, scmVars, fileVars, hStarts>>

(* errCh: Execute returns, and releases the port.                          *)
ServiceLoopEnded ==
    /\ hExec \in {"select", "waiting"} /\ hPc["svc"].at = "done"
    /\ Exec("returned") /\ hLock' = Nobody
    /\ UNCHANGED <<hPc, hEngine, hStop, scmVars, fileVars, hStarts>>

ServiceProcessEnds ==
    /\ hExec = "returned"
    /\ Exec("off") /\ MovesTo("svc", Off) /\ LeavesScm
    /\ hEngine' = hEngine \ {"svc"} /\ hStop' = [hStop EXCEPT !["svc"] = "unset"]
    /\ UNCHANGED <<hLock, hOp, fileVars, hStarts>>

-----------------------------------------------------------------------------
(* Orders to the SCM *)

(* serviceInstall leaves a service that is there with its state.           *)
Installed == [hScm EXCEPT !.installed = TRUE]

(* The process of the service is started by whoever asks first.            *)
Started(scm) ==
    IF scm.state = "stopped" /\ scm.installed /\ ~scm.deleted
    THEN hScm' = [scm EXCEPT !.state = "starting"] /\ hExec' = "acquire"
    ELSE hScm' = scm /\ UNCHANGED hExec

InstallService ==
    /\ Begins /\ hScm' = Installed
    /\ UNCHANGED <<procVars, hOp, fileVars>>

(* The command, or the SCM when the machine starts.                        *)
StartService ==
    /\ Begins /\ hScm.installed /\ Started(hScm)
    /\ UNCHANGED <<hPc, hLock, hEngine, hStop, hOp, fileVars>>

(* DeleteService of the SCM: a service is deleted once.                    *)
DeleteFromScm ==
    LET runs == hScm.state # "stopped" IN hScm' = [hScm EXCEPT !.installed = runs, !.deleted = runs]

(* --service stop and uninstall: ask, wait, and delete all the same.       *)
OrderStop(what) ==
    /\ Begins /\ hOp["cmd"] = "idle" /\ hScm.installed
    /\ Control /\ hOp' = [hOp EXCEPT !["cmd"] = what]
    /\ UNCHANGED <<procVars, fileVars>>

OrderEnds ==
    /\ hOp["cmd"] # "idle"
    /\ hOp' = [hOp EXCEPT !["cmd"] = "idle"]
    /\ IF hOp["cmd"] = "uninstall" /\ hScm.installed /\ ~hScm.deleted THEN DeleteFromScm ELSE UNCHANGED hScm
    /\ UNCHANGED <<procVars, fileVars, hStarts>>

(* toggleServiceAutostart: on, with the account of u.cfg; or off.          *)
EnableService(p) ==
    /\ Window(p) /\ ~hScm.installed /\ Begins
    /\ IF hCfg.user # Nobody /\ hCfg.pass # Nobody
       THEN /\ hCreds' = [user |-> hCfg.user, pass |-> hCfg.pass]
            /\ IF p \in hEngine THEN hScm' = Installed /\ UNCHANGED hExec ELSE Started(Installed)
       ELSE UNCHANGED <<hCreds, hScm, hExec>>
    /\ UNCHANGED <<hPc, hLock, hEngine, hStop, hOp, hFile, hCfg, hLogin, hRejected, hForms>>

DisableService(p) ==
    /\ Window(p) /\ hScm.installed /\ Begins
    /\ Control /\ hOp' = [hOp EXCEPT !["gui"] = "uninstall"]
    /\ UNCHANGED <<procVars, fileVars>>

(* The credentials go when the service could be deleted.                   *)
Disabled ==
    /\ hOp["gui"] = "uninstall"
    /\ hOp' = [hOp EXCEPT !["gui"] = "idle"]
    /\ IF hScm.deleted
       THEN UNCHANGED <<hScm, hCreds>>
       ELSE /\ IF hScm.installed THEN DeleteFromScm ELSE UNCHANGED hScm
            /\ hCreds' = [user |-> Nobody, pass |-> Nobody]
    /\ UNCHANGED <<procVars, hFile, hCfg, hLogin, hRejected, hForms, hStarts>>

(* Any process can be killed: the OS closes its port, nothing is undone.   *)
Kill(p) ==
    /\ hPc[p] # Off \/ (p = "svc" /\ hExec # "off")
    /\ Exits(p) /\ hEngine' = hEngine \ {p}
    /\ hLock' = IF hLock = p THEN Nobody ELSE hLock
    /\ hStop' = IF p \in Loops THEN [hStop EXCEPT ![p] = "unset"] ELSE hStop
    /\ IF p = "svc" THEN Exec("off") /\ LeavesScm ELSE UNCHANGED <<hExec, hScm>>
    /\ IF p \in Guis /\ hPc[p].at = "window"
       THEN hCfg' = Defaults /\ hLogin' = Nobody /\ hOp' = [hOp EXCEPT !["gui"] = "idle"]
       ELSE UNCHANGED <<hCfg, hLogin, hOp>>
    /\ UNCHANGED <<hFile, hCreds, hRejected, hForms, hStarts>>

-----------------------------------------------------------------------------
HostNext ==
    \/ \E p \in Guis :
         \/ StartGui(p) \/ Probe(p) \/ HandleOccupied(p) \/ AskServiceTakeover(p) \/ WaitStopped(p)
         \/ WaitSingleInstanceFree(p) \/ Acquire(p)
         \/ TryConnect(p) \/ LoginAnswered(p) \/ Logout(p) \/ ToggleAutoConnect(p) \/ ToggleSwitch(p)
         \/ SaveServiceCredentials(p) \/ QuitGui(p) \/ EnableService(p) \/ DisableService(p)
    \/ \E p \in Loops : LoadBootstrap(p) \/ StartEngine(p) \/ LoopEnds(p) \/ CloseEngine(p)
    \/ StartCli \/ AcquireCli \/ DataplaneFails \/ ReleaseCli
    \/ AcquireService \/ ReportRunning \/ StopRequested \/ ServiceLoopEnded \/ ServiceProcessEnds
    \/ InstallService \/ StartService \/ OrderEnds \/ Disabled
    \/ \E what \in {"stop", "uninstall"} : OrderStop(what)
    \/ \E p \in HostProcs : Kill(p)

HostSpec == HostInit /\ [][HostNext]_hostVars

-----------------------------------------------------------------------------
(* At most one process of the machine has an engine, and it listens on the *)
(* coordination port (singleinstance/lock.go): also while the service is   *)
(* being taken over by a GUI, and after a kill.                            *)
EnginesAlone ==
    /\ Cardinality(hEngine) <= 1
    /\ \A p \in hEngine : hLock = p

(* As long as Validate has refused none of the GUI's settings, client.yaml *)
(* loads: neither a switch nor a failed write makes it a file the next     *)
(* start refuses.  And whatever was typed, a password in client.yaml or    *)
(* among the service's credentials is the one of the account beside it.    *)
FilesTrue ==
    /\ ~hRejected => Loads(hFile)
    /\ hFile.pass \in {Nobody, hFile.user}
    /\ hCreds.pass = hCreds.user
=============================================================================
