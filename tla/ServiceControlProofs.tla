------------------------- MODULE ServiceControlProofs -------------------------
(***************************************************************************)
(* Proofs about ServiceControl, for any commands, profiles and numbers of  *)
(* polls: the tools leave no handle open, and, with one dialog, the driver *)
(* file stays as long as a service that needs it.                          *)
(***************************************************************************)
EXTENDS ServiceControl, TLAPS

(* The steps during which a tool has the service open, a command the driver,*)
(* and those of a dialog that is being closed.                              *)
ServiceSteps == {"stop_call", "stop_wait", "start_call", "start_wait"}
DriverSteps == {"request", "close_handle"}
CloseSteps ==
  {"disable", "close_handle", "stop", "stop_call", "stop_wait", "delete", "unlink"}

ToolTypes ==
  /\ DOMAIN step = Tools /\ DOMAIN job = Tools
  /\ opened \subseteq Tools /\ device \subseteq Tools

ToolHandles(p) ==
  /\ p \in opened => step[p] \in ServiceSteps
  /\ p \in device /\ p \in Shells => step[p] \in DriverSteps
  /\ p \in device => step[p] # "closed"
  /\ p \in device /\ job[p][1] = "close" => step[p] \in {"disable", "close_handle"}
  /\ job[p][1] = "close" => p \in Dialogs /\ step[p] \in CloseSteps
  /\ step[p] = "unlink" => job[p][1] = "close"
  /\ step[p] = "extract" => p \in Dialogs

HandlesInv == ToolTypes /\ \A p \in Tools : ToolHandles(p)

Services ==
  [registered : BOOLEAN, marked : BOOLEAN, denied : BOOLEAN,
   state : {"STOPPED", "START_PENDING", "RUNNING", "STOP_PENDING"},
   image : {"none", "dialog", "shell"}]

(* The service would be started from the dialog's file.                     *)
FromFile(s) == s.registered /\ ~s.marked /\ ~s.denied /\ s.image = "dialog"
Exposed == FromFile(svc)

(* A dialog knows the file only while it is there, makes a service of it    *)
(* only then, and deletes it, or replaces it, only when no service needs it.*)
DialogFile(d) ==
  /\ path_[d] => file
  /\ step[d] = "create" => path_[d]
  /\ step[d] = "extract" => ~path_[d]
  /\ step[d] \in {"extract", "unlink"} => ~Exposed

FileInv ==
  /\ svc \in Services /\ DOMAIN step = Tools /\ DOMAIN path_ = Dialogs
  /\ FileBehindService
  /\ \A d \in Dialogs : DialogFile(d)

----------------------------------------------------------------------------
\* Tool p goes on to step s, with j to do.
Goes(p, s, j) ==
  /\ DOMAIN step' = Tools /\ DOMAIN job' = Tools
  /\ step' = [step EXCEPT ![p] = s]
  /\ step'[p] = s /\ job'[p] = j
  /\ \A q \in Tools \ {p} : step'[q] = step[q] /\ job'[q] = job[q]

LEMMA Ways ==
  ASSUME ToolTypes, NEW p \in Tools
  PROVE  /\ \A s : GoTo(p, s) => Goes(p, s, job[p])
         /\ Finish(p) => Goes(p, "idle", None)
         /\ Closed(p) => Goes(p, "closed", None)
         /\ None[1] = "none"
  BY DEF ToolTypes, GoTo, Finish, Closed, Goes, None

LEMMA WayAfterStop ==
  ASSUME ToolTypes, NEW p \in Tools, NEW ok \in BOOLEAN, AfterStop(p, ok)
  PROVE  \/ Goes(p, "delete", job[p])
         \/ job[p][1] # "close" /\ (Goes(p, "install", job[p]) \/ Goes(p, "idle", None))
  BY Ways DEF AfterStop

LEMMA WayAfterDelete ==
  ASSUME ToolTypes, NEW p \in Tools, AfterDelete(p)
  PROVE  \/ job[p][1] = "close" /\ Goes(p, "unlink", job[p])
         \/ job[p][1] # "close" /\ (Goes(p, "install", job[p]) \/ Goes(p, "idle", None))
  BY Ways DEF AfterDelete

LEMMA WayAfterStart ==
  ASSUME ToolTypes, NEW p \in Tools, NEW ok \in BOOLEAN, AfterStart(p, ok)
  PROVE  \/ Goes(p, "reopen", job[p]) \/ Goes(p, "open", job[p])
         \/ Goes(p, "idle", None)
  BY Ways DEF AfterStart

LEMMA WayAfterRequest ==
  ASSUME ToolTypes, NEW p \in Tools, NEW ok \in BOOLEAN, AfterRequest(p, ok)
  PROVE  \/ p \in Shells /\ Goes(p, "close_handle", job[p])
         \/ p \notin Shells /\ Goes(p, "idle", None)
  BY Ways DEF AfterRequest

(* The invariant is about one tool at a time.                               *)
LEMMA OneTool ==
  ASSUME HandlesInv, NEW p \in Tools, NEW s, NEW j, Goes(p, s, j),
         opened' \ {p} = opened \ {p}, device' \ {p} = device \ {p},
         p \in opened' => s \in ServiceSteps,
         p \in device' /\ p \in Shells => s \in DriverSteps,
         p \in device' => s # "closed",
         p \in device' /\ j[1] = "close" => s \in {"disable", "close_handle"},
         j[1] = "close" => p \in Dialogs /\ s \in CloseSteps,
         s = "unlink" => j[1] = "close", s = "extract" => p \in Dialogs
  PROVE  HandlesInv'
<1>1. ToolTypes'
  BY DEF HandlesInv, ToolTypes, Goes
<1>2. ToolHandles(p)'
  BY DEF ToolHandles, Goes
<1>3. ASSUME NEW q \in Tools \ {p} PROVE ToolHandles(q)'
  <2>1. /\ step'[q] = step[q] /\ job'[q] = job[q]
        /\ q \in opened' <=> q \in opened
        /\ q \in device' <=> q \in device
    BY DEF Goes
  <2> QED
    BY <2>1 DEF HandlesInv, ToolHandles
<1> QED
  BY <1>1, <1>2, <1>3 DEF HandlesInv

(* What the invariant says of a tool that is at a given step.               *)
LEMMA AtStep ==
  ASSUME HandlesInv, NEW p \in Tools
  PROVE  /\ ToolTypes /\ ToolHandles(p)
         /\ step[p] \notin ServiceSteps => p \notin opened
         /\ step[p] \notin CloseSteps \/ p \notin Dialogs => job[p][1] # "close"
         /\ step[p] \notin DriverSteps \cup {"disable"} /\ job[p][1] = "close" => p \notin device
         /\ p \in device /\ p \in Shells => step[p] \in DriverSteps
  BY DEF HandlesInv, ToolHandles, DriverSteps

LEMMA StopHandles ==
  ASSUME HandlesInv, NEW p \in Tools, Stop(p) \/ ControlStop(p) \/ WaitStopped(p)
  PROVE  HandlesInv'
<1> USE AtStep, Ways DEF ServiceSteps, CloseSteps, DriverSteps
<1>1. CASE Stop(p)
  <2>1. step[p] = "stop" /\ device' = device
    BY <1>1 DEF Stop
  <2>2. CASE OpenService(p) /\ GoTo(p, "stop_call")
    BY <2>1, <2>2, OneTool DEF OpenService
  <2>3. CASE opened' = opened /\ \E ok \in BOOLEAN : AfterStop(p, ok)
    BY <2>1, <2>3, WayAfterStop, OneTool
  <2> QED
    BY <1>1, <2>2, <2>3 DEF Stop
<1>2. CASE ControlStop(p)
  <2>1. step[p] = "stop_call" /\ device' = device
    BY <1>2 DEF ControlStop
  <2>2. CASE GoTo(p, "stop_wait") /\ UNCHANGED opened
    BY <2>1, <2>2, OneTool
  <2>3. CASE opened' = opened \ {p} /\ AfterStop(p, FALSE)
    BY <2>1, <2>3, WayAfterStop, OneTool
  <2> QED
    BY <1>2, <2>2, <2>3 DEF ControlStop, CloseServiceHandle
<1>3. CASE WaitStopped(p)
  <2>1. step[p] = "stop_wait" /\ device' = device
    BY <1>3 DEF WaitStopped
  <2>2. CASE UNCHANGED <<opened, job, step>>
    BY <2>1, <2>2 DEF HandlesInv, ToolTypes, ToolHandles
  <2>3. CASE opened' = opened \ {p} /\ \E ok \in BOOLEAN : AfterStop(p, ok)
    BY <2>1, <2>3, WayAfterStop, OneTool
  <2> QED
    BY <1>3, <2>2, <2>3 DEF WaitStopped, CloseServiceHandle, scm
<1> QED
  BY <1>1, <1>2, <1>3

LEMMA StartHandles ==
  ASSUME HandlesInv, NEW p \in Tools, Start(p) \/ StartService(p) \/ WaitStarted(p)
  PROVE  HandlesInv'
<1> USE AtStep, Ways DEF ServiceSteps, CloseSteps, DriverSteps
<1>1. CASE Start(p)
  <2>1. step[p] = "start" /\ device' = device
    BY <1>1 DEF Start
  <2>2. CASE OpenService(p) /\ GoTo(p, "start_call")
    BY <2>1, <2>2, OneTool DEF OpenService
  <2>3. CASE opened' = opened /\ \E ok \in BOOLEAN : AfterStart(p, ok)
    BY <2>1, <2>3, WayAfterStart, OneTool
  <2> QED
    BY <1>1, <2>2, <2>3 DEF Start
<1>2. CASE StartService(p)
  <2>1. step[p] = "start_call" /\ device' = device
    BY <1>2 DEF StartService
  <2>2. CASE GoTo(p, "start_wait") /\ UNCHANGED opened
    BY <2>1, <2>2, OneTool
  <2>3. CASE opened' = opened \ {p} /\ AfterStart(p, FALSE)
    BY <2>1, <2>3, WayAfterStart, OneTool
  <2> QED
    BY <1>2, <2>2, <2>3 DEF StartService, CloseServiceHandle
<1>3. CASE WaitStarted(p)
  <2>1. step[p] = "start_wait" /\ device' = device
    BY <1>3 DEF WaitStarted
  <2>2. CASE UNCHANGED <<opened, job, step>>
    BY <2>1, <2>2 DEF HandlesInv, ToolTypes, ToolHandles
  <2>3. CASE opened' = opened \ {p} /\ \E ok \in BOOLEAN : AfterStart(p, ok)
    BY <2>1, <2>3, WayAfterStart, OneTool
  <2> QED
    BY <1>3, <2>2, <2>3 DEF WaitStarted, CloseServiceHandle, scm
<1> QED
  BY <1>1, <1>2, <1>3

LEMMA InstallHandles ==
  ASSUME HandlesInv, NEW p \in Tools,
         \/ DeleteService(p) \/ DeleteDriverFile(p) \/ Install(p)
         \/ ExtractDriver(p) \/ CreateService(p)
  PROVE  HandlesInv'
<1> USE AtStep, Ways DEF ServiceSteps, CloseSteps, DriverSteps
<1>1. CASE DeleteService(p)
  <2>1. step[p] = "delete" /\ device' = device /\ opened' = opened
        /\ (AfterDelete(p) \/ (job[p][1] = "remove" /\ Finish(p)))
    BY <1>1 DEF DeleteService
  <2> QED
    BY <2>1, WayAfterDelete, OneTool
<1>2. CASE DeleteDriverFile(p)
  <2>1. step[p] = "unlink" /\ device' = device /\ opened' = opened /\ Closed(p)
    BY <1>2 DEF DeleteDriverFile, scm
  <2>2. p \notin device /\ p \notin opened
    BY <2>1 DEF ToolHandles
  <2> QED
    BY <2>1, <2>2, OneTool
<1>3. CASE Install(p) \/ ExtractDriver(p) \/ CreateService(p)
  <2>1. /\ step[p] \in {"install", "extract", "create"}
        /\ device' = device /\ opened' = opened
        /\ \/ Finish(p)
           \/ \E s \in {"extract", "create", "start"} :
                GoTo(p, s) /\ (s = "extract" => p \in Dialogs)
    BY <1>3 DEF Install, ExtractDriver, CreateService, scm
  <2> QED
    BY <2>1, OneTool
<1> QED
  BY <1>1, <1>2, <1>3

LEMMA RequestHandles ==
  ASSUME HandlesInv, NEW p \in Tools,
         OpenDriver(p) \/ Request(p) \/ Disable(p) \/ CloseHandle(p)
  PROVE  HandlesInv'
<1> USE AtStep, Ways DEF ServiceSteps, CloseSteps, DriverSteps
<1>1. CASE OpenDriver(p)
  <2>1. step[p] \in {"open", "reopen"} /\ opened' = opened
    BY <1>1 DEF OpenDriver, scm
  <2>2. CASE device' = device \cup {p} /\ GoTo(p, "request")
    BY <2>1, <2>2, OneTool
  <2>3. CASE /\ p \notin device /\ device' = device
             /\ GoTo(p, "start") \/ Finish(p)
    BY <2>1, <2>3, OneTool
  <2> QED
    BY <1>1, <2>2, <2>3 DEF OpenDriver
<1>2. CASE Request(p)
  <2>1. /\ step[p] = "request" /\ opened' = opened /\ device' = device
        /\ \E ok \in BOOLEAN : AfterRequest(p, ok)
    BY <1>2 DEF Request, scm
  <2> QED
    BY <2>1, WayAfterRequest, OneTool
<1>3. CASE Disable(p)
  <2>1. step[p] = "disable" /\ opened' = opened /\ device' = device
    BY <1>3 DEF Disable, scm
  <2>2. CASE GoTo(p, "close_handle")
    BY <2>1, <2>2, OneTool
  <2>3. CASE p \notin device /\ (GoTo(p, "stop") \/ Finish(p))
    BY <2>1, <2>3, OneTool
  <2> QED
    BY <1>3, <2>2, <2>3 DEF Disable
<1>4. CASE CloseHandle(p)
  <2>1. /\ step[p] = "close_handle" /\ opened' = opened /\ device' = device \ {p}
        /\ GoTo(p, "stop") \/ Finish(p)
    BY <1>4 DEF CloseHandle, scm
  <2> QED
    BY <2>1, OneTool
<1> QED
  BY <1>1, <1>2, <1>3, <1>4

\* A dialog has the driver open between its handlers; so only closing it is
\* a job that must find its way to CloseHandle.
LEMMA TakeHandles ==
  ASSUME HandlesInv, NEW p \in Tools,
         main(p) \/ OnBnClickedEnable(p) \/ OnClose(p) \/ Launch(p) \/ Kill(p)
  PROVE  HandlesInv'
<1> USE AtStep, Ways DEF ServiceSteps, CloseSteps, DriverSteps
<1>1. ASSUME NEW c, Take(p, c), c[1] = "close" => p \in Dialogs,
             c[1] \in {"install", "remove", "set", "reset", "enable", "disable", "close"}
      PROVE  HandlesInv'
  <2>1. /\ step[p] = "idle" /\ opened' = opened /\ device' = device
        /\ Goes(p, FirstStep(c), c)
    BY <1>1 DEF Take, scm, ToolTypes, Goes
  <2>2. /\ FirstStep(c) \in {"stop", "open", "idle", "install", "disable"}
        /\ c[1] = "close" => FirstStep(c) = "disable"
    BY <1>1 DEF FirstStep
  <2>3. p \notin opened /\ (p \in Shells => p \notin device)
    BY <2>1
  <2> QED
    BY <1>1, <2>1, <2>2, <2>3, OneTool
<1>2. CASE main(p)
  <2>1. PICK c \in Commands : Take(p, c)
    BY <1>2 DEF main
  <2> QED
    BY <1>1, <2>1, ControlAssumption
<1>3. CASE OnBnClickedEnable(p)
  <2>1. Take(p, <<"disable", <<>>>>) \/ \E f \in Profiles : Take(p, <<"enable", f>>)
    BY <1>3 DEF OnBnClickedEnable
  <2> QED
    BY <1>1, <2>1
<1>4. CASE OnClose(p)
  BY <1>1, <1>4 DEF OnClose
<1>5. CASE Launch(p)
  <2>1. /\ step[p] = "closed" /\ opened' = opened /\ device' = device
        /\ GoTo(p, "idle")
    BY <1>5 DEF Launch, scm
  <2> QED
    BY <2>1, OneTool DEF ToolHandles
<1>6. CASE Kill(p)
  <2>1. /\ opened' = opened \ {p} /\ device' = device \ {p}
        /\ Closed(p) \/ Finish(p)
    BY <1>6 DEF Kill, CloseServiceHandle
  <2> QED
    BY <2>1, OneTool
<1> QED
  BY <1>2, <1>3, <1>4, <1>5, <1>6

LEMMA HandlesStep ==
  ASSUME HandlesInv, [Next]_vars
  PROVE  HandlesInv'
<1>1. ASSUME NEW p \in Tools, Step(p) PROVE HandlesInv'
  BY <1>1, StopHandles, StartHandles, InstallHandles, RequestHandles DEF Step
<1>2. CASE StartEnds \/ StopEnds \/ UNCHANGED vars
  <2>1. UNCHANGED <<opened, device, job, step>>
    BY <1>2 DEF StartEnds, StopEnds, vars, scm, tool
  <2> QED
    BY <2>1 DEF HandlesInv, ToolTypes, ToolHandles
<1> QED
  BY <1>1, <1>2, TakeHandles DEF Next

(* Whichever of its calls fail, and wherever it is killed, a tool at rest    *)
(* has neither the service open nor, a command or a dialog that is closed,   *)
(* the driver.                                                               *)
THEOREM HandlesClosedCorrect == Spec => []HandlesClosed
<1>1. Init => HandlesInv
  BY DEF Init, HandlesInv, ToolTypes, ToolHandles, None
<1>2. HandlesInv /\ [Next]_vars => HandlesInv'
  BY HandlesStep
<1>3. HandlesInv => HandlesClosed
  BY DEF HandlesInv, ToolHandles, HandlesClosed, AtRest, ServiceSteps, DriverSteps
<1> QED
  BY <1>1, <1>2, <1>3, PTL DEF Spec

----------------------------------------------------------------------------
\* Nothing makes a service be started from the dialog's file but CreateService.
NoMoreExposed == svc' \in Services /\ (Exposed' => Exposed)

LEMMA ServiceFields ==
  ASSUME NEW s \in Services
  PROVE  /\ s.registered \in BOOLEAN /\ s.marked \in BOOLEAN /\ s.denied \in BOOLEAN
         /\ \A t \in {"STOPPED", "START_PENDING", "RUNNING", "STOP_PENDING"} :
              /\ [s EXCEPT !.state = t] \in Services
              /\ FromFile([s EXCEPT !.state = t]) <=> FromFile(s)
         /\ [s EXCEPT !.marked = TRUE] \in Services
         /\ ~FromFile([s EXCEPT !.marked = TRUE])
         /\ [s EXCEPT !.denied = s.registered] \in Services
         /\ ~FromFile([s EXCEPT !.denied = s.registered])
         /\ NoService \in Services /\ ~FromFile(NoService)
         /\ \A i \in {"dialog", "shell"} :
              /\ [NoService EXCEPT !.registered = TRUE, !.image = i] \in Services
              /\ FromFile([NoService EXCEPT !.registered = TRUE, !.image = i]) => i = "dialog"
<1>1. s.registered \in BOOLEAN /\ s.marked \in BOOLEAN /\ s.denied \in BOOLEAN
  BY DEF Services
<1>2. ASSUME NEW t \in {"STOPPED", "START_PENDING", "RUNNING", "STOP_PENDING"}
      PROVE  /\ [s EXCEPT !.state = t] \in Services
             /\ FromFile([s EXCEPT !.state = t]) <=> FromFile(s)
  <2>1. [s EXCEPT !.state = t] \in Services
    BY DEF Services
  <2>2. FromFile([s EXCEPT !.state = t]) <=> FromFile(s)
    BY DEF Services, FromFile
  <2> QED
    BY <2>1, <2>2
<1>3. [s EXCEPT !.marked = TRUE] \in Services /\ ~FromFile([s EXCEPT !.marked = TRUE])
  BY DEF Services, FromFile
<1>4. [s EXCEPT !.denied = s.registered] \in Services
  BY DEF Services
<1>5. ~FromFile([s EXCEPT !.denied = s.registered])
  BY DEF Services, FromFile
<1>6. NoService \in Services /\ ~FromFile(NoService)
  BY DEF Services, FromFile, NoService
<1>7. ASSUME NEW i \in {"dialog", "shell"}
      PROVE  /\ [NoService EXCEPT !.registered = TRUE, !.image = i] \in Services
             /\ FromFile([NoService EXCEPT !.registered = TRUE, !.image = i]) => i = "dialog"
  BY DEF Services, FromFile, NoService
<1> QED
  BY <1>1, <1>2, <1>3, <1>4, <1>5, <1>6, <1>7

LEMMA SettledOr ==
  ASSUME NEW s, NEW h
  PROVE  Settled(s, h) = s \/ Settled(s, h) = NoService
  BY DEF Settled

LEMMA ExposedBySettled ==
  ASSUME svc \in Services, NEW h, svc' = Settled(svc, h)
  PROVE  NoMoreExposed
<1>1. svc' = svc \/ svc' = NoService
  BY SettledOr
<1> QED
  BY <1>1, ServiceFields DEF Exposed, NoMoreExposed

LEMMA ExposedByState ==
  ASSUME svc \in Services, NEW h,
         NEW t \in {"STOPPED", "START_PENDING", "RUNNING", "STOP_PENDING"},
         svc' = [svc EXCEPT !.state = t] \/ svc' = Settled([svc EXCEPT !.state = t], h)
  PROVE  NoMoreExposed
<1>1. svc' = [svc EXCEPT !.state = t] \/ svc' = NoService
  BY SettledOr
<1>2. /\ [svc EXCEPT !.state = t] \in Services
      /\ FromFile([svc EXCEPT !.state = t]) <=> FromFile(svc)
      /\ NoService \in Services /\ ~FromFile(NoService)
  BY ServiceFields
<1> QED
  BY <1>1, <1>2 DEF Exposed, NoMoreExposed

LEMMA ExposedSame ==
  ASSUME svc \in Services, svc' = svc
  PROVE  NoMoreExposed
  BY DEF Exposed, NoMoreExposed

(* A step of a tool to where it neither makes the file nor deletes it.      *)
LEMMA FileKept ==
  ASSUME FileInv, NoMoreExposed, UNCHANGED <<file, path_>>, NEW p \in Tools,
         \/ UNCHANGED step
         \/ \E s, j : Goes(p, s, j) /\ s \notin {"create", "extract", "unlink"}
  PROVE  FileInv'
<1>1. /\ DOMAIN step' = Tools
      /\ \A d \in Dialogs : step'[d] \in {"create", "extract", "unlink"} => step'[d] = step[d]
  BY DEF FileInv, Goes, Tools
<1>2. FileBehindService'
  BY DEF FileInv, FileBehindService, Exposed, FromFile, NoMoreExposed
<1>3. ASSUME NEW d \in Dialogs PROVE DialogFile(d)'
  BY <1>1 DEF FileInv, DialogFile, NoMoreExposed
<1> QED
  BY <1>1, <1>2, <1>3 DEF FileInv, NoMoreExposed

LEMMA StopFile ==
  ASSUME ToolTypes, FileInv, NEW p \in Tools, Stop(p) \/ ControlStop(p) \/ WaitStopped(p)
  PROVE  FileInv'
<1>1. UNCHANGED <<file, path_>>
  BY DEF Stop, ControlStop, WaitStopped, dialog
<1>2. NoMoreExposed
  BY ExposedSame, ExposedByState, ExposedBySettled
  DEF Stop, ControlStop, WaitStopped, scm, CloseServiceHandle, FileInv
<1>3. \/ UNCHANGED step \/ GoTo(p, "stop_call") \/ GoTo(p, "stop_wait")
      \/ \E ok \in BOOLEAN : AfterStop(p, ok)
  BY DEF Stop, ControlStop, WaitStopped
<1> QED
  BY <1>1, <1>2, <1>3, Ways, WayAfterStop, FileKept

LEMMA StartFile ==
  ASSUME ToolTypes, FileInv, NEW p \in Tools, Start(p) \/ StartService(p) \/ WaitStarted(p)
  PROVE  FileInv'
<1>1. UNCHANGED <<file, path_>>
  BY DEF Start, StartService, WaitStarted, dialog
<1>2. NoMoreExposed
  BY ExposedSame, ExposedByState, ExposedBySettled
  DEF Start, StartService, WaitStarted, scm, CloseServiceHandle, FileInv
<1>3. \/ UNCHANGED step \/ GoTo(p, "start_call") \/ GoTo(p, "start_wait")
      \/ \E ok \in BOOLEAN : AfterStart(p, ok)
  BY DEF Start, StartService, WaitStarted
<1> QED
  BY <1>1, <1>2, <1>3, Ways, WayAfterStart, FileKept

LEMMA RequestFile ==
  ASSUME ToolTypes, FileInv, NEW p \in Tools,
         OpenDriver(p) \/ Request(p) \/ Disable(p) \/ CloseHandle(p)
  PROVE  FileInv'
<1>1. UNCHANGED <<file, path_>> /\ svc' = svc
  BY DEF OpenDriver, Request, Disable, CloseHandle, dialog, scm
<1>2. \/ \E s \in {"request", "start", "close_handle", "stop"} : GoTo(p, s)
      \/ Finish(p)
      \/ \E ok \in BOOLEAN : AfterRequest(p, ok)
  BY DEF OpenDriver, Request, Disable, CloseHandle
<1> QED
  BY <1>1, <1>2, ExposedSame, Ways, WayAfterRequest, FileKept DEF FileInv

(* To be closed, and to be killed, is to forget the file.                   *)
LEMMA ClosedFile ==
  ASSUME ToolTypes, FileInv, NoMoreExposed, NEW p \in Dialogs, Closed(p),
         \A d \in Dialogs : d = p, file' = file \/ ~Exposed
  PROVE  FileInv'
<1>1. Goes(p, "closed", None) /\ p \in Tools
  BY Ways DEF Tools
<1>2. DOMAIN step' = Tools /\ DOMAIN path_' = Dialogs /\ ~path_'[p]
  BY <1>1 DEF Closed, FileInv, Goes
<1>3. FileBehindService'
  BY DEF FileInv, FileBehindService, Exposed, FromFile, NoMoreExposed
<1>4. ASSUME NEW d \in Dialogs PROVE DialogFile(d)'
  BY <1>1, <1>2 DEF DialogFile, Goes
<1> QED
  BY <1>2, <1>3, <1>4 DEF FileInv, NoMoreExposed

LEMMA TakeFile ==
  ASSUME ToolTypes, FileInv, NEW p \in Tools, \A c, d \in Dialogs : c = d,
         main(p) \/ OnBnClickedEnable(p) \/ OnClose(p) \/ Launch(p) \/ Kill(p)
  PROVE  FileInv'
<1>1. ASSUME NEW c, Take(p, c),
             c[1] \in {"install", "remove", "set", "reset", "enable", "disable", "close"}
      PROVE  FileInv'
  <2>1. UNCHANGED <<file, path_>> /\ svc' = svc /\ Goes(p, FirstStep(c), c)
    BY <1>1 DEF Take, scm, dialog, ToolTypes, Goes
  <2>2. FirstStep(c) \in {"stop", "open", "idle", "install", "disable"}
    BY <1>1 DEF FirstStep
  <2> QED
    BY <2>1, <2>2, ExposedSame, FileKept DEF FileInv
<1>2. CASE main(p)
  BY <1>1, <1>2, ControlAssumption DEF main
<1>3. CASE OnBnClickedEnable(p)
  <2>1. Take(p, <<"disable", <<>>>>) \/ \E f \in Profiles : Take(p, <<"enable", f>>)
    BY <1>3 DEF OnBnClickedEnable
  <2> QED
    BY <1>1, <2>1
<1>4. CASE OnClose(p)
  BY <1>1, <1>4 DEF OnClose
<1>5. CASE Launch(p)
  <2>1. UNCHANGED <<file, path_>> /\ svc' = svc /\ GoTo(p, "idle")
    BY <1>5 DEF Launch, scm, dialog
  <2> QED
    BY <2>1, ExposedSame, Ways, FileKept DEF FileInv
<1>6. CASE Kill(p)
  <2>1. file' = file /\ NoMoreExposed
    BY <1>6, ExposedBySettled DEF Kill, CloseServiceHandle, FileInv
  <2>2. CASE p \in Dialogs
    BY <1>6, <2>1, <2>2, ClosedFile DEF Kill
  <2>3. CASE p \notin Dialogs
    <3>1. path_' = path_ /\ Goes(p, "idle", None)
      BY <1>6, <2>3, Ways DEF Kill, dialog
    <3> QED
      BY <2>1, <3>1, FileKept
  <2> QED
    BY <2>2, <2>3
<1> QED
  BY <1>2, <1>3, <1>4, <1>5, <1>6

\* DeleteService and Install go on only when the service is marked, is gone or
\* could not be opened or deleted.
LEMMA InstallFile ==
  ASSUME HandlesInv, FileInv, NEW p \in Tools, \A c, d \in Dialogs : c = d,
         \/ DeleteService(p) \/ DeleteDriverFile(p) \/ Install(p)
         \/ ExtractDriver(p) \/ CreateService(p)
  PROVE  FileInv'
<1> ToolTypes
  BY DEF HandlesInv
<1>1. ASSUME NEW s, NEW j, Goes(p, s, j), UNCHANGED <<file, path_>>,
             svc' \in Services, ~Exposed',
             s = "create" => p \notin Dialogs \/ path_[p],
             s = "extract" => p \notin Dialogs \/ ~path_[p]
      PROVE  FileInv'
  <2>1. DOMAIN step' = Tools /\ DOMAIN path_' = Dialogs /\ FileBehindService'
    BY <1>1 DEF Goes, FileInv, FileBehindService, Exposed, FromFile
  <2>2. ASSUME NEW d \in Dialogs PROVE DialogFile(d)'
    <3>1. CASE d = p
      BY <1>1, <3>1 DEF FileInv, DialogFile, Goes
    <3>2. CASE d # p
      BY <1>1, <3>2 DEF FileInv, DialogFile, Goes, Tools
    <3> QED
      BY <3>1, <3>2
  <2> QED
    BY <1>1, <2>1, <2>2 DEF FileInv
<1>2. CASE DeleteService(p)
  <2> DEFINE deleted == [svc EXCEPT !.marked = TRUE]
             refused == [svc EXCEPT !.denied = svc.registered]
  <2>0. svc' \in {deleted, refused, NoService} /\ UNCHANGED <<file, path_>>
    BY <1>2, SettledOr DEF DeleteService, dialog
  <2>1. svc' \in Services /\ ~Exposed'
    <3>1. deleted \in Services /\ refused \in Services /\ NoService \in Services
      <4>1. svc \in Services
        BY DEF FileInv
      <4> QED
        BY <4>1, ServiceFields
    <3>2. ~FromFile(deleted) /\ ~FromFile(refused) /\ ~FromFile(NoService)
      BY ServiceFields DEF FileInv
    <3> QED
      BY <2>0, <3>1, <3>2 DEF Exposed
  <2>2. \E s, j : Goes(p, s, j) /\ s \notin {"create", "extract"}
    BY <1>2, Ways, WayAfterDelete DEF DeleteService
  <2> QED
    BY <1>1, <2>0, <2>1, <2>2
<1>3. CASE DeleteDriverFile(p)
  <2>1. p \in Dialogs
    BY <1>3 DEF DeleteDriverFile, HandlesInv, ToolHandles
  <2> QED
    BY <1>3, <2>1, ClosedFile, ExposedSame DEF DeleteDriverFile, scm, FileInv, DialogFile
<1>4. CASE Install(p)
  <2>1. UNCHANGED <<file, path_>>
    BY <1>4 DEF Install, dialog
  <2>2. CASE svc' = svc /\ (GoTo(p, "start") \/ Finish(p))
    BY <2>1, <2>2, Ways, ExposedSame, FileKept DEF FileInv
  <2>3. CASE /\ svc' = [svc EXCEPT !.denied = svc.registered]
             /\ GoTo(p, IF p \in Dialogs /\ ~path_[p] THEN "extract" ELSE "create")
    <3>1. svc' \in Services /\ ~Exposed'
      BY <2>3, ServiceFields DEF Exposed, FileInv
    <3> QED
      BY <1>1, <2>1, <2>3, <3>1, Ways
  <2> QED
    BY <1>4, <2>2, <2>3 DEF Install
<1>5. CASE ExtractDriver(p)
  <2>0. p \in Dialogs
    BY <1>5 DEF ExtractDriver, HandlesInv, ToolHandles
  <2>1. /\ svc' \in Services /\ step[p] = "extract" /\ (Exposed' <=> Exposed)
        /\ \/ GoTo(p, "create") /\ file' = TRUE /\ path_' = [path_ EXCEPT ![p] = TRUE]
           \/ Finish(p) /\ path_' = path_
    BY <1>5 DEF ExtractDriver, scm, FileInv, Exposed
  <2>2. /\ Goes(p, "create", job[p]) \/ Goes(p, "idle", None)
        /\ Goes(p, "create", job[p]) => file' = TRUE
        /\ Goes(p, "idle", None) => path_' = path_
        /\ DOMAIN path_' = Dialogs
        /\ Goes(p, "create", job[p]) => path_'[p]
    BY <2>0, <2>1, Ways DEF FileInv, Goes
  <2>3. ~Exposed' /\ ~path_[p]
    BY <2>0, <2>1 DEF FileInv, DialogFile
  <2>4. DOMAIN step' = Tools /\ FileBehindService'
    BY <2>2, <2>3 DEF Goes, FileBehindService, Exposed, FromFile
  <2>5. DialogFile(p)'
    BY <2>2, <2>3 DEF DialogFile, Goes
  <2> QED
    BY <2>0, <2>1, <2>2, <2>4, <2>5 DEF FileInv
<1>6. CASE CreateService(p)
  <2>1. UNCHANGED <<file, path_>> /\ step[p] = "create"
        /\ \E s \in {"start", "idle"} : \E j : Goes(p, s, j)
    BY <1>6, Ways DEF CreateService, dialog
  <2>2. CASE p \notin Dialogs
    <3>1. NoMoreExposed
      BY <1>6, <2>2, ServiceFields DEF CreateService, NoMoreExposed, Exposed, FileInv
    <3> QED
      BY <2>1, <3>1, FileKept
  <2>3. CASE p \in Dialogs
    <3>1. svc' \in Services /\ file
      BY <1>6, <2>1, <2>3, ServiceFields DEF CreateService, FileInv, DialogFile
    <3>2. DialogFile(p)'
      BY <2>1, <2>3, <3>1 DEF DialogFile, Goes
    <3>3. DOMAIN step' = Tools /\ DOMAIN path_' = Dialogs /\ FileBehindService'
      BY <2>1, <3>1 DEF Goes, FileInv, FileBehindService
    <3> QED
      BY <2>3, <3>1, <3>2, <3>3 DEF FileInv
  <2> QED
    BY <2>2, <2>3
<1> QED
  BY <1>2, <1>3, <1>4, <1>5, <1>6

(* With one dialog, a service that would be started from the dialog's file   *)
(* finds it there: whichever calls fail, and whatever the prompts do to the  *)
(* service meanwhile, the dialog deletes the file, or replaces it, only once *)
(* the service is gone, marked, or could not be opened or deleted.           *)
THEOREM FileBehindServiceCorrect ==
  ASSUME \A c, d \in Dialogs : c = d
  PROVE  Spec => []FileBehindService
<1> DEFINE Inv == HandlesInv /\ FileInv
<1>1. Init => Inv
  <2> SUFFICES ASSUME Init PROVE Inv
    OBVIOUS
  <2>1. HandlesInv
    BY DEF Init, HandlesInv, ToolTypes, ToolHandles, None
  <2>2. svc \in Services /\ ~Exposed
    BY DEF Init, Services, FromFile, Exposed, NoService
  <2>3. FileInv
    BY <2>2 DEF Init, FileInv, DialogFile, FileBehindService, Exposed, FromFile, Tools
  <2> QED
    BY <2>1, <2>3
<1>2. Inv /\ [Next]_vars => Inv'
  <2> SUFFICES ASSUME Inv, [Next]_vars PROVE FileInv'
    BY HandlesStep
  <2>1. ToolTypes
    BY DEF HandlesInv
  <2>2. ASSUME NEW p \in Tools, Step(p) PROVE FileInv'
    BY <2>1, <2>2, StopFile, StartFile, InstallFile, RequestFile DEF Step
  <2>3. CASE StartEnds \/ StopEnds \/ UNCHANGED vars
    <3>1. UNCHANGED <<file, path_, step>>
      BY <2>3 DEF StartEnds, StopEnds, vars, scm, tool, dialog
    <3>2. NoMoreExposed
      BY <2>3, ExposedSame, ExposedByState DEF StartEnds, StopEnds, vars, scm, FileInv
    <3> QED
      BY <3>1, <3>2 DEF FileInv, FileBehindService, Exposed, FromFile, DialogFile,
                        NoMoreExposed
  <2> QED
    BY <2>1, <2>2, <2>3, TakeFile DEF Next
<1>3. Inv => FileBehindService
  BY DEF FileInv
<1> QED
  BY <1>1, <1>2, <1>3, PTL DEF Spec
=============================================================================
