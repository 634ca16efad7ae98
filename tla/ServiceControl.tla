--------------------------- MODULE ServiceControl ---------------------------
(***************************************************************************)
(* The two programs that install, start and control the driver: the shaper *)
(* command (win-shaper/exe/exe.cpp) and the dialog                         *)
(* (win-shaper/gui/WinShaperDlg.cpp), with what the service control manager*)
(* and the driver's control device do for them.  Several may run at once;  *)
(* every call of one into the system is a step, and may fail.              *)
(***************************************************************************)
EXTENDS Integers, Sequences, FiniteSets, SequencesExt

CONSTANTS
  Dialogs, Shells, \* the dialog; the prompts that the command is run from
  Commands,        \* <<verb, options>>; an option is <<name, value>>
  Profiles,        \* connection profiles: the rtt, and a value for the rest
  MaxStart,        \* polls of a starting service (600 in both programs)
  MaxStop          \* of a stopping one: 600 in the command, 10 in the dialog

Tools == Dialogs \cup Shells

ASSUME ControlAssumption ==
  /\ Dialogs \cap Shells = {}
  /\ \A c \in Commands : /\ c[1] \in {"install", "remove", "set", "reset"}
                         /\ c[2] \in Seq(STRING \X Nat)
  /\ \A f \in Profiles : f.rtt \in Nat
  /\ MaxStart \in Nat \ {0} /\ MaxStop \in [Tools -> Nat \ {0}]

VARIABLES
  svc,     \* the service record of the service control manager; denied: that it
           \* once refused to open or delete, although it is there
  opened,  \* the tools that hold a handle to the service
  flag,    \* traffic_shaping_enabled, FALSE when the driver is not loaded
  params,  \* the parameters of the queues
  asked,   \* who made the last successful request, and to enable, what for
  device,  \* the tools that have the control device open
  file,    \* winShaper.sys exists
  job,     \* of each tool: <<verb, options or profile>>
  step,    \* what it does next
  count,   \* polls made in the loop it is in, 0 outside of one
  enabled_, path_, \* of each dialog; driver_path_ is not empty
  missed   \* dialogs that lost touch: DISABLE failed, or the process was killed

driver == <<flag, params, asked>>
scm == <<svc, opened>>
dialog == <<enabled_, path_, missed>>
tool == <<job, step, count>>
vars == <<scm, driver, device, file, tool, dialog>>

None == <<"none", <<>>>>
NoService == [registered |-> FALSE, marked |-> FALSE, denied |-> FALSE,
              state |-> "STOPPED", image |-> "none"]

----------------------------------------------------------------------------
(* Parameters.                                                              *)

DefaultSettings ==
  [plr |-> 0, inBps |-> 0, outBps |-> 0, inLatency |-> 0, outLatency |-> 0,
   inBufferBytes |-> 150000, outBufferBytes |-> 150000]

HalvesEven(s, rtt) ==   \* mutant: the odd millisecond is lost
  [s EXCEPT !.inLatency = rtt \div 2, !.outLatency = rtt \div 2]
Halves(s, rtt) ==
  [s EXCEPT !.inLatency = (rtt \div 2) + (rtt % 2), !.outLatency = rtt \div 2]

\* The set command takes its options in order; one it does not know spoils it.
\* The loss rate, given in whole percent, is kept in hundredths of a percent,
\* (unsigned short)(atof(value) * 100.0).
Option(s, o) ==
  IF o[1] = "rtt" THEN Halves(s, o[2])
  ELSE IF o[1] = "plr" THEN [s EXCEPT !.plr = (100 * o[2]) % 65536]
  ELSE [s EXCEPT ![o[1]] = o[2]]
CommandSettings(options) == FoldLeft(Option, DefaultSettings, options)
Understood(options) ==
  \A k \in DOMAIN options :
    options[k][1] \in {"rtt", "plr", "inBps", "outBps", "inBufferBytes", "outBufferBytes"}

ProfileSettings(f) == Halves([DefaultSettings EXCEPT !.inBps = f.bps], f.rtt)

SettingsOf(p) ==
  IF p \in Dialogs THEN ProfileSettings(job[p][2]) ELSE CommandSettings(job[p][2])

----------------------------------------------------------------------------
Init ==
  /\ svc = NoService /\ opened = {}
  /\ flag = FALSE /\ params = DefaultSettings /\ asked = [by |-> "none", for |-> None]
  /\ device = {}
  /\ file = FALSE
  /\ job = [p \in Tools |-> None]
  /\ step = [p \in Tools |-> "idle"]
  /\ count = [p \in Tools |-> 0]
  /\ enabled_ = [d \in Dialogs |-> FALSE]
  /\ path_ = [d \in Dialogs |-> FALSE]
  /\ missed = {}

GoTo(p, s) == step' = [step EXCEPT ![p] = s] /\ UNCHANGED job

\* The command returns, or the dialog's handler does.
Finish(p) ==
  /\ step' = [step EXCEPT ![p] = "idle"]
  /\ job' = [job EXCEPT ![p] = None]

\* The dialog is no more, nor are its members.
Closed(p) ==
  /\ step' = [step EXCEPT ![p] = "closed"]
  /\ job' = [job EXCEPT ![p] = None]
  /\ enabled_' = [enabled_ EXCEPT ![p] = FALSE]
  /\ path_' = [path_ EXCEPT ![p] = FALSE]

\* A marked service goes once it is stopped and nobody has it open.
Settled(s, handles) ==
  IF s.marked /\ s.state = "STOPPED" /\ handles = {} THEN NoService ELSE s

OpenService(p) == opened' = opened \cup {p}
CloseServiceHandle(p, s) == opened' = opened \ {p} /\ svc' = Settled(s, opened')

----------------------------------------------------------------------------
(* Where each routine leads, by the job it is part of.                      *)

\* Only Remove looks at the result of Stop.
AfterStopUnlinked(p, ok) ==   \* mutant: the dialog gives up on the service
  IF ok THEN GoTo(p, "delete")
  ELSE IF job[p][1] = "close" THEN GoTo(p, "unlink")
  ELSE IF job[p][1] = "install" THEN GoTo(p, "install") ELSE Finish(p)
AfterStop(p, ok) ==
  IF ok \/ job[p][1] = "close" THEN GoTo(p, "delete")
  ELSE IF job[p][1] = "install" THEN GoTo(p, "install") ELSE Finish(p)

AfterDelete(p) ==
  CASE job[p][1] = "close" -> GoTo(p, "unlink")
    [] job[p][1] = "install" -> GoTo(p, "install")
    [] OTHER -> Finish(p)

AfterStart(p, ok) ==
  CASE job[p][1] = "set" -> GoTo(p, "reopen")
    [] job[p][1] = "enable" /\ ok -> GoTo(p, "open")
    [] OTHER -> Finish(p)

\* A command closes its handle to the driver, the dialog keeps it.
AfterRequestLeak(p, ok) ==    \* mutant: the handle is closed on success only
  IF p \in Shells /\ ok THEN GoTo(p, "close_handle") ELSE Finish(p)
AfterRequest(p, ok) ==
  IF p \in Shells THEN GoTo(p, "close_handle") ELSE Finish(p)

----------------------------------------------------------------------------
(* main, OnBnClickedEnable, OnClose.                                        *)

FirstStep(c) ==
  CASE c[1] \in {"install", "remove"} -> "stop"
    [] c[1] = "set" -> IF Understood(c[2]) THEN "open" ELSE "idle"
    [] c[1] = "reset" -> "open"
    [] c[1] = "enable" -> "install"
    [] c[1] \in {"disable", "close"} -> "disable"

Take(p, c) ==
  /\ step[p] = "idle"
  /\ FirstStep(c) # "idle"
  /\ job' = [job EXCEPT ![p] = c]
  /\ step' = [step EXCEPT ![p] = FirstStep(c)]
  /\ UNCHANGED <<scm, driver, device, file, count, dialog>>

main(p) == p \in Shells /\ \E c \in Commands : Take(p, c)

OnBnClickedEnable(p) ==
  p \in Dialogs /\ (IF enabled_[p] THEN Take(p, <<"disable", <<>>>>)
                    ELSE \E f \in Profiles : Take(p, <<"enable", f>>))

OnClose(p) == p \in Dialogs /\ Take(p, <<"close", <<>>>>)

\* The dialog is run again.
Launch(p) ==
  /\ step[p] = "closed"
  /\ GoTo(p, "idle")
  /\ UNCHANGED <<scm, driver, device, file, count, dialog>>

\* The system closes the handles of a process that is killed.
Kill(p) ==
  /\ step[p] # "closed"
  /\ CloseServiceHandle(p, svc)
  /\ device' = device \ {p}
  /\ count' = [count EXCEPT ![p] = 0]
  /\ IF p \in Dialogs THEN Closed(p) /\ missed' = missed \cup {p}
     ELSE Finish(p) /\ UNCHANGED dialog
  /\ UNCHANGED <<driver, file>>

----------------------------------------------------------------------------
(* Stop and Remove, Uninstall.                                              *)

Stop(p) ==
  /\ step[p] = "stop"
  /\ \/ svc.registered /\ svc.state = "RUNNING" /\ OpenService(p) /\ GoTo(p, "stop_call")
     \/ svc.registered /\ svc.state # "RUNNING" /\ AfterStop(p, TRUE) /\ UNCHANGED opened
     \/ AfterStop(p, FALSE) /\ UNCHANGED opened
  /\ UNCHANGED <<svc, driver, device, file, count, dialog>>

ControlStop(p) ==
  /\ step[p] = "stop_call"
  /\ \/ /\ svc.state = "RUNNING"
        /\ svc' = [svc EXCEPT !.state = "STOP_PENDING"]
        /\ GoTo(p, "stop_wait")
        /\ UNCHANGED opened
     \/ CloseServiceHandle(p, svc) /\ AfterStop(p, FALSE)
  /\ UNCHANGED <<driver, device, file, count, dialog>>

PollsLeftOneMore(n, max) == n <= max  \* mutant: off by one
PollsLeft(n, max) == n < max

CountRestarted(n) == 1  \* mutant: set to 0 inside the loop
CountUp(n) == n + 1

\* A query that fails leaves the status as it was: the one seen before.
Seen(p, before, pending) ==
  {svc.state, IF count[p] = 0 THEN before ELSE pending}

WaitStopped(p) ==
  /\ step[p] = "stop_wait"
  /\ \E s \in Seen(p, "RUNNING", "STOP_PENDING") :
       IF s = "STOP_PENDING" /\ PollsLeft(CountUp(count[p]), MaxStop[p])
       THEN /\ count' = [count EXCEPT ![p] = CountUp(count[p])]
            /\ UNCHANGED <<scm, job, step>>
       ELSE /\ CloseServiceHandle(p, svc)
            /\ AfterStop(p, s = "STOPPED")
            /\ count' = [count EXCEPT ![p] = 0]
  /\ UNCHANGED <<driver, device, file, dialog>>

\* DeleteService marks a service that is not marked yet.
DeleteService(p) ==
  /\ step[p] = "delete"
  /\ \/ /\ svc.registered /\ ~svc.marked
        /\ svc' = Settled([svc EXCEPT !.marked = TRUE], opened)
        /\ AfterDelete(p)
     \/ /\ svc' = [svc EXCEPT !.denied = svc.registered]
        /\ IF job[p][1] = "remove" THEN Finish(p) ELSE AfterDelete(p)
  /\ UNCHANGED <<opened, driver, device, file, count, dialog>>

\* The file of a driver that is loaded cannot be deleted.
DeleteDriverFile(p) ==
  /\ step[p] = "unlink"
  /\ file' \in IF ~path_[p] \/ (svc.image = "dialog" /\ svc.state # "STOPPED")
               THEN {file} ELSE {file, FALSE}
  /\ Closed(p)
  /\ UNCHANGED <<scm, driver, device, count, missed>>

----------------------------------------------------------------------------
(* Install, ExtractDriver.                                                  *)

Install(p) ==
  /\ step[p] = "install"
  /\ \/ svc.registered /\ GoTo(p, "start") /\ UNCHANGED svc
     \/ /\ svc' = [svc EXCEPT !.denied = svc.registered]
        /\ GoTo(p, IF p \in Dialogs /\ ~path_[p] THEN "extract" ELSE "create")
     \/ Finish(p) /\ UNCHANGED svc
  /\ UNCHANGED <<opened, driver, device, file, count, dialog>>

\* A file left from before is deleted first.
ExtractDriver(p) ==
  /\ step[p] = "extract"
  /\ \/ /\ file' = TRUE
        /\ path_' = [path_ EXCEPT ![p] = TRUE]
        /\ GoTo(p, "create")
     \/ file' \in {file, FALSE} /\ Finish(p) /\ UNCHANGED path_
  /\ UNCHANGED <<scm, driver, device, count, enabled_, missed>>

CreateService(p) ==
  /\ step[p] = "create"
  /\ \/ /\ ~svc.registered
        /\ svc' = [NoService EXCEPT !.registered = TRUE,
                     !.image = IF p \in Dialogs THEN "dialog" ELSE "shell"]
        /\ GoTo(p, "start")
     \/ Finish(p) /\ UNCHANGED svc
  /\ UNCHANGED <<opened, driver, device, file, count, dialog>>

----------------------------------------------------------------------------
(* Start.  Whatever is not stopped counts as started.                       *)

Start(p) ==
  /\ step[p] = "start"
  /\ \/ svc.registered /\ svc.state = "STOPPED" /\ OpenService(p) /\ GoTo(p, "start_call")
     \/ svc.registered /\ svc.state # "STOPPED" /\ AfterStart(p, TRUE) /\ UNCHANGED opened
     \/ AfterStart(p, FALSE) /\ UNCHANGED opened
  /\ UNCHANGED <<svc, driver, device, file, count, dialog>>

StartService(p) ==
  /\ step[p] = "start_call"
  /\ \/ /\ svc.state = "STOPPED" /\ ~svc.marked
        /\ svc.image = "dialog" => file
        /\ svc' = [svc EXCEPT !.state = "START_PENDING"]
        /\ GoTo(p, "start_wait")
        /\ UNCHANGED opened
     \/ CloseServiceHandle(p, svc) /\ AfterStart(p, FALSE)
  /\ UNCHANGED <<driver, device, file, count, dialog>>

WaitStarted(p) ==
  /\ step[p] = "start_wait"
  /\ \E s \in Seen(p, "STOPPED", "START_PENDING") :
       IF s = "START_PENDING" /\ PollsLeft(CountUp(count[p]), MaxStart)
       THEN /\ count' = [count EXCEPT ![p] = CountUp(count[p])]
            /\ UNCHANGED <<scm, job, step>>
       ELSE /\ CloseServiceHandle(p, svc)
            /\ AfterStart(p, s = "RUNNING")
            /\ count' = [count EXCEPT ![p] = 0]
  /\ UNCHANGED <<driver, device, file, dialog>>

----------------------------------------------------------------------------
(* Set, Reset, Enable, Disable: requests to the driver.                     *)

\* The control device can be opened while the driver is loaded and no stop has
\* been asked for.  Set starts the service and tries once more.
OpenDriver(p) ==
  /\ step[p] \in {"open", "reopen"}
  /\ \/ /\ p \in device \/ svc.state = "RUNNING"
        /\ device' = device \cup {p}
        /\ GoTo(p, "request")
     \/ /\ p \notin device
        /\ IF step[p] = "open" /\ job[p][1] = "set" THEN GoTo(p, "start") ELSE Finish(p)
        /\ UNCHANGED device
  /\ UNCHANGED <<scm, driver, file, count, dialog>>

\* SHAPER_IOCTL_ENABLE, SHAPER_IOCTL_DISABLE.  The parameters do not count, and
\* are not kept here, while shaping is off.
EvtDeviceIOCtl(p, on) ==
  /\ flag' = on
  /\ params' = IF on THEN SettingsOf(p) ELSE DefaultSettings
  /\ asked' = [by |-> p, for |-> IF on THEN job[p] ELSE None]

EnabledAnyway(p, ok) == TRUE   \* mutant: whatever the driver says
Enabled(p, ok) == ok \/ enabled_[p]

Request(p) ==
  /\ step[p] = "request"
  /\ \E ok \in BOOLEAN :
       /\ IF ok THEN EvtDeviceIOCtl(p, job[p][1] # "reset") ELSE UNCHANGED driver
       /\ IF p \in Dialogs
          THEN /\ enabled_' = [enabled_ EXCEPT ![p] = Enabled(p, ok)]
               /\ missed' = IF ok THEN missed \ {p} ELSE missed
          ELSE UNCHANGED <<enabled_, missed>>
       /\ AfterRequest(p, ok)
  /\ UNCHANGED <<scm, device, file, count, path_>>

\* The handle is closed whether or not the driver has done as it was told.
Disable(p) ==
  /\ step[p] = "disable"
  /\ \/ /\ p \in device
        /\ EvtDeviceIOCtl(p, FALSE)
        /\ enabled_' = [enabled_ EXCEPT ![p] = FALSE]
        /\ GoTo(p, "close_handle")
        /\ UNCHANGED missed
     \/ /\ p \in device
        /\ missed' = missed \cup {p}
        /\ GoTo(p, "close_handle")
        /\ UNCHANGED <<driver, enabled_>>
     \/ /\ p \notin device
        /\ enabled_' = [enabled_ EXCEPT ![p] = FALSE]
        /\ IF job[p][1] = "close" THEN GoTo(p, "stop") ELSE Finish(p)
        /\ UNCHANGED <<driver, missed>>
  /\ UNCHANGED <<scm, device, file, count, path_>>

CloseHandle(p) ==
  /\ step[p] = "close_handle"
  /\ device' = device \ {p}
  /\ IF job[p][1] = "close" THEN GoTo(p, "stop") ELSE Finish(p)
  /\ UNCHANGED <<scm, driver, file, count, dialog>>

----------------------------------------------------------------------------
(* The service control manager.  DriverEntry ends well or badly, and may    *)
(* take longer than anyone polls; a driver is unloaded once nobody has its  *)
(* device open.                                                             *)
StartEnds ==
  /\ svc.state = "START_PENDING"
  /\ \E s \in {"RUNNING", "STOPPED"} :
       svc' = Settled([svc EXCEPT !.state = s], opened)
  /\ UNCHANGED <<opened, driver, device, file, tool, dialog>>

StopEnds ==
  /\ svc.state = "STOP_PENDING" /\ device = {}
  /\ svc' = Settled([svc EXCEPT !.state = "STOPPED"], opened)
  /\ flag' = FALSE /\ params' = DefaultSettings
  /\ asked' = [asked EXCEPT !.for = None]
  /\ UNCHANGED <<opened, device, file, tool, dialog>>

Step(p) ==
  \/ Stop(p) \/ ControlStop(p) \/ WaitStopped(p) \/ DeleteService(p)
  \/ DeleteDriverFile(p) \/ Install(p) \/ ExtractDriver(p) \/ CreateService(p)
  \/ Start(p) \/ StartService(p) \/ WaitStarted(p)
  \/ OpenDriver(p) \/ Request(p) \/ Disable(p) \/ CloseHandle(p)

Next ==
  \/ \E p \in Tools : Step(p) \/ main(p) \/ OnBnClickedEnable(p) \/ OnClose(p)
                        \/ Launch(p) \/ Kill(p)
  \/ StartEnds \/ StopEnds

(* A tool that has been given something to do is scheduled.  Nothing is     *)
(* assumed of the service control manager.                                  *)
Spec == Init /\ [][Next]_vars /\ \A p \in Tools : WF_vars(Step(p))

----------------------------------------------------------------------------
AtRest(p) == step[p] \in {"idle", "closed"}

Steps ==
  {"idle", "closed", "stop", "stop_call", "stop_wait", "delete", "unlink",
   "install", "extract", "create", "start", "start_call", "start_wait",
   "open", "reopen", "request", "disable", "close_handle"}

(* The types of the variables; no loop polls more often than it may.        *)
TypeOK ==
  /\ svc \in [registered : BOOLEAN, marked : BOOLEAN, denied : BOOLEAN,
              state : {"STOPPED", "START_PENDING", "RUNNING", "STOP_PENDING"},
              image : {"none", "dialog", "shell"}]
  /\ opened \subseteq Tools /\ device \subseteq Tools /\ missed \subseteq Dialogs
  /\ flag \in BOOLEAN /\ file \in BOOLEAN
  /\ DOMAIN params = DOMAIN DefaultSettings
  /\ step \in [Tools -> Steps]
  /\ DOMAIN job = Tools /\ \A p \in Tools : job[p] = None <=> AtRest(p)
  /\ count \in [Tools -> Nat]
  /\ \A p \in Tools : step[p] = "stop_wait" => count[p] < MaxStop[p]
  /\ \A p \in Tools : step[p] = "start_wait" => count[p] < MaxStart
  /\ enabled_ \in [Dialogs -> BOOLEAN] /\ path_ \in [Dialogs -> BOOLEAN]

(* What the dialog shows is what the driver does, as far as it is the last  *)
(* that spoke to it: shown on, the driver shapes and its handle keeps it    *)
(* loaded; shown off, the driver does not shape.  Unless a DISABLE failed   *)
(* (Disable drops its handle all the same), or the dialog was killed.       *)
ShownIsShaped ==
  \A d \in Dialogs \ missed : AtRest(d) =>
    /\ enabled_[d] => d \in device
    /\ asked.by = d => (flag <=> enabled_[d])

(* A service that will be started from the dialog's file finds it there:    *)
(* Uninstall deletes the file after the service, unless the system would    *)
(* not let it open or delete the service (Install, ExtractDriver,           *)
(* Uninstall).                                                              *)
FileBehindService ==
  svc.registered /\ ~svc.marked /\ ~svc.denied /\ svc.image = "dialog" => file

(* However its calls fail, a tool at rest has no handle to the service open,*)
(* which would keep a deleted service from going, and a command that has    *)
(* returned none to the driver, which would keep it from being unloaded.    *)
HandlesClosed ==
  \A p \in Tools : AtRest(p) =>
    /\ p \notin opened
    /\ p \in Shells \/ step[p] = "closed" => p \notin device

\* The round-trip time a tool was asked for: the last rtt option, a profile's.
AskedRtt(p, c) ==
  IF p \in Dialogs THEN c[2].rtt
  ELSE LET rtts == {k \in DOMAIN c[2] : c[2][k][1] = "rtt"}
       IN IF rtts = {} THEN 0 ELSE c[2][Max(rtts)][2]

(* While shaping is on, the two latencies make up the whole round-trip time *)
(* that was asked for last, and no command with an option that was not      *)
(* understood, or that did not ask for shaping, has come through to here.   *)
SettingsMeant ==
  flag =>
    /\ params.inLatency + params.outLatency = AskedRtt(asked.by, asked.for)
    /\ params.inLatency - params.outLatency \in {0, 1}
    /\ asked.for[1] = "enable" \/ (asked.for[1] = "set" /\ Understood(asked.for[2]))

(* Whether or not the driver ever starts or stops, and whatever the other   *)
(* tools do to the service meanwhile, each command returns, and so does each*)
(* handler of the dialog (the polling loops of Start and Stop).             *)
ToolsReturn == \A p \in Tools : ~AtRest(p) ~> AtRest(p)
=============================================================================
