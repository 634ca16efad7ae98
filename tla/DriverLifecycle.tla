-------------------------- MODULE DriverLifecycle --------------------------
(***************************************************************************)
(* win-shaper/driver/wdm_driver.c: DriverEntry, which acquires what the    *)
(* driver needs stage by stage, and Cleanup, which releases it when a      *)
(* stage of the load has failed or the driver unloads; with the calls of   *)
(* ShaperClassify (wfp_callout.c) that run while the filters are in force. *)
(* Any call into the framework or the filter engine may fail.              *)
(***************************************************************************)
EXTENDS Integers, Sequences, FiniteSets, SequencesExt

CONSTANTS
  Callouts,    \* the callouts, in the order RegisterCallouts registers them
  CleanupOrder,\* the same, in the order Cleanup unregisters them
  Handles,     \* the injection handles
  Calls,       \* calls of ShaperClassify
  CalloutOf,   \* the callout each of them is a call of
  MaxWait      \* polls of the filter engine's state (1200 in the code)

CalloutSet == ToSet(Callouts)

ASSUME LifecycleAssumption ==
  /\ Callouts \in Seq(CalloutSet) /\ Callouts # <<>>
  /\ \A j, k \in DOMAIN Callouts : Callouts[j] = Callouts[k] => j = k
  /\ CleanupOrder \in Seq(CalloutSet)
  /\ ToSet(CleanupOrder) = CalloutSet
  /\ CalloutOf \in [Calls -> CalloutSet]
  /\ MaxWait \in Nat \ {0}

VARIABLES
  step,                \* what DriverEntry or the unload routine does next
  status,              \* NT_SUCCESS(status)
  failed,              \* the stages that returned a failure so far
  count,               \* polls left in WaitForWFP
  bfe_running,         \* the base filtering engine has started
  wdm_device,          \* TRUE when it is not NULL
  handles,             \* the injection handles that are not NULL
  queues_initialized,
  timer_handle,        \* TRUE when it is not NULL
  engine_handle,       \* TRUE when it is not NULL
  pending,             \* callouts whose filter the open transaction adds
  filters,             \* callouts whose filter is in force
  ids,                 \* callouts whose id is not 0
  registered,          \* callouts registered with the filter engine
  next,                \* index of the callout being dealt with
  driver_unloading,
  call                 \* of each ShaperClassify: "new", "running", "returned"

loadVars == <<status, failed, count, bfe_running, wdm_device>>
queueVars == <<queues_initialized, timer_handle>>
engineVars == <<engine_handle, pending, filters>>
calloutVars == <<ids, registered, next>>
vars == <<step, loadVars, queueVars, engineVars, calloutVars, handles,
          driver_unloading, call>>

Init ==
  /\ step = "wait"
  /\ status = TRUE
  /\ failed = {}
  /\ count = MaxWait
  /\ bfe_running \in BOOLEAN
  /\ wdm_device = FALSE
  /\ handles = {}
  /\ queues_initialized = FALSE
  /\ timer_handle = FALSE
  /\ engine_handle = FALSE
  /\ pending = {}
  /\ filters = {}
  /\ ids = {}
  /\ registered = {}
  /\ next = 1
  /\ driver_unloading = FALSE
  /\ call = [c \in Calls |-> "new"]

GoTo(s) == step' = s

\* A stage of DriverEntry returns ok or a failure.
Return(stage, ok) ==
  /\ status' = ok
  /\ failed' = IF ok THEN failed ELSE failed \cup {stage}

----------------------------------------------------------------------------
(* DriverEntry.  A stage is skipped when an earlier one has failed.         *)

CountStays(n) == n             \* mutant: the polls are not counted
CountDown(n) == n - 1
PollsLeftAtZero(n) == n >= 0   \* mutant: always true of an unsigned count
PollsLeft(n) == n > 0

\* WaitForWFP: a poll finds the engine running, or not; the last one gives up.
WaitForWFP ==
  /\ step = "wait"
  /\ \/ bfe_running /\ Return("wait", TRUE) /\ GoTo("objects") /\ UNCHANGED count
     \/ /\ ~bfe_running /\ PollsLeft(count)
        /\ count' = CountDown(count)
        /\ UNCHANGED <<step, status, failed>>
     \/ /\ ~bfe_running /\ ~PollsLeft(count)
        /\ Return("wait", FALSE) /\ GoTo("callouts") /\ UNCHANGED count
  /\ UNCHANGED <<bfe_running, wdm_device, queueVars, engineVars, calloutVars,
                 handles, driver_unloading, call>>

\* FwpmBfeStateGet reports FWPM_SERVICE_RUNNING from now on.
BfeStarts ==
  /\ ~bfe_running
  /\ bfe_running' = TRUE
  /\ UNCHANGED <<step, status, failed, count, wdm_device, queueVars,
                 engineVars, calloutVars, handles, driver_unloading, call>>

\* A failure after WdfDeviceCreate, which has used pInit up and set it to NULL,
\* ends in WdfDeviceInitFree(NULL): the framework stops the machine.
ShaperInitDriverObjects ==
  /\ step = "objects"
  /\ \/ Return("objects", TRUE) /\ wdm_device' = TRUE /\ GoTo("handles")
     \/ /\ Return("objects", FALSE)
        /\ UNCHANGED wdm_device
        /\ GoTo("callouts") \/ GoTo("bugcheck")
  /\ UNCHANGED <<count, bfe_running, queueVars, engineVars, calloutVars, handles,
                 driver_unloading, call>>

\* The results are ignored.
CreateHandles ==
  /\ step = "handles"
  /\ handles' \in SUBSET Handles
  /\ GoTo("queues")
  /\ UNCHANGED <<loadVars, queueVars, engineVars, calloutVars,
                 driver_unloading, call>>

InitializePacketQueues ==
  /\ step = "queues"
  /\ queues_initialized' = TRUE
  /\ \E created \in BOOLEAN :
       Return("queues", created) /\ timer_handle' = created
  /\ GoTo("callouts")
  /\ UNCHANGED <<count, bfe_running, wdm_device, engineVars, calloutVars, handles,
                 driver_unloading, call>>

----------------------------------------------------------------------------
(* RegisterCallouts.  DriverEntry's if before it has no braces, so that it  *)
(* is called whatever has failed, and its result replaces the status.       *)

\* FwpmEngineOpen, a dynamic session.
OpenEngine ==
  /\ step = "callouts"
  /\ \/ Return("callouts", TRUE) /\ engine_handle' = TRUE /\ GoTo("begin")
     \/ Return("callouts", FALSE) /\ GoTo("end") /\ UNCHANGED engine_handle
  /\ next' = 1
  /\ UNCHANGED <<count, bfe_running, wdm_device, queueVars, pending, filters, ids,
                 registered, handles, driver_unloading, call>>

\* FwpmTransactionBegin and FwpmSubLayerAdd.
BeginTransaction ==
  /\ step = "begin"
  /\ \/ Return("callouts", TRUE) /\ GoTo("register")
     \/ Return("callouts", FALSE) /\ (GoTo("close") \/ GoTo("abort"))
  /\ UNCHANGED <<count, bfe_running, wdm_device, queueVars, engineVars, calloutVars,
                 handles, driver_unloading, call>>

IdKept(set, c) == set     \* mutant: *calloutId is not set to 0 on failure
IdReset(set, c) == set \ {c}

\* RegisterCallout, RegisterIPCallout: FwpsCalloutRegister, which needs a
\* device, then FwpmCalloutAdd and FwpmFilterAdd in the transaction; when one of
\* these fails the callout is unregistered at once.
RegisterCallout ==
  LET c == Callouts[next] IN
  /\ step = "register"
  /\ \/ /\ wdm_device
        /\ Return("callouts", TRUE)
        /\ ids' = ids \cup {c}
        /\ registered' = registered \cup {c}
        /\ pending' = pending \cup {c}
        /\ next' = next + 1
        /\ GoTo(IF next = Len(Callouts) THEN "commit" ELSE "register")
     \/ /\ Return("callouts", FALSE)
        /\ \/ wdm_device /\ ids' = IdReset(ids \cup {c}, c)
           \/ UNCHANGED ids
        /\ GoTo("abort")
        /\ UNCHANGED <<registered, pending, next>>
  /\ UNCHANGED <<count, bfe_running, wdm_device, queueVars, engine_handle, filters,
                 handles, driver_unloading, call>>

\* FwpmTransactionCommit puts the filters in force, all of them at once.
CommitTransaction ==
  /\ step = "commit"
  /\ \/ /\ Return("callouts", TRUE)
        /\ filters' = pending
        /\ pending' = {}
        /\ GoTo("end")
     \/ Return("callouts", FALSE) /\ GoTo("abort") /\ UNCHANGED <<filters, pending>>
  /\ UNCHANGED <<count, bfe_running, wdm_device, queueVars, engine_handle, calloutVars,
                 handles, driver_unloading, call>>

\* FwpmTransactionAbort.
AbortTransaction ==
  /\ step = "abort"
  /\ pending' = {}
  /\ GoTo("close")
  /\ UNCHANGED <<loadVars, queueVars, engine_handle, filters, calloutVars,
                 handles, driver_unloading, call>>

CloseEngine ==
  /\ step = "close"
  /\ engine_handle' = FALSE
  /\ GoTo("end")
  /\ UNCHANGED <<loadVars, queueVars, pending, filters, calloutVars, handles,
                 driver_unloading, call>>

EndDriverEntry ==
  /\ step = "end"
  /\ GoTo(IF status THEN "loaded" ELSE "destroy")
  /\ UNCHANGED <<loadVars, queueVars, engineVars, calloutVars, handles,
                 driver_unloading, call>>

----------------------------------------------------------------------------
(* ShaperEvtDriverUnload and Cleanup.                                       *)

Unload ==
  /\ step = "loaded"
  /\ driver_unloading' = TRUE
  /\ GoTo("destroy")
  /\ UNCHANGED <<loadVars, queueVars, engineVars, calloutVars, handles, call>>

AfterQueuesCallouts == "unregister"  \* mutant: callouts before the session
AfterQueues == "close_session"

DestroyPacketQueues ==
  /\ step = "destroy"
  /\ queues_initialized' = FALSE
  /\ timer_handle' = (timer_handle /\ ~queues_initialized)
  /\ next' = 1
  /\ GoTo(AfterQueues)
  /\ UNCHANGED <<loadVars, engineVars, ids, registered, handles,
                 driver_unloading, call>>

AfterSessionHandles == "destroy_handles"  \* mutant: handles before callouts
AfterSession == "unregister"

\* FwpmEngineClose: the filters of a dynamic session go with it.
CloseSession ==
  /\ step = "close_session"
  /\ engine_handle' = FALSE
  /\ filters' = {}
  /\ GoTo(AfterSession)
  /\ UNCHANGED <<loadVars, queueVars, pending, calloutVars, handles,
                 driver_unloading, call>>

UnregisteredButFirst(c) ==             \* mutant: one callout is forgotten
  IF next = 1 THEN registered ELSE registered \ {c}
Unregistered(c) == registered \ {c}

Running == {p \in Calls : call[p] = "running"}

\* FwpsCalloutUnregisterById returns once no call of the callout is running.
UnregisterCallout ==
  LET c == CleanupOrder[next] IN
  /\ step = "unregister"
  /\ c \in ids => \A p \in Running : CalloutOf[p] # c
  /\ registered' = IF c \in ids THEN Unregistered(c) ELSE registered
  /\ ids' = ids \ {c}
  /\ next' = next + 1
  /\ GoTo(IF next = Len(CleanupOrder) THEN "destroy_handles" ELSE "unregister")
  /\ UNCHANGED <<loadVars, queueVars, engineVars, handles, driver_unloading,
                 call>>

DestroyHandles ==
  /\ step = "destroy_handles"
  /\ handles' = {}
  /\ GoTo(IF driver_unloading THEN "unloaded" ELSE "not_loaded")
  /\ UNCHANGED <<loadVars, queueVars, engineVars, calloutVars,
                 driver_unloading, call>>

----------------------------------------------------------------------------
(* ShaperClassify, called as long as the filter of its callout is in force: *)
(* it takes its injection handle, asks the engine about the packet with it, *)
(* and hands it to ShaperQueuePacket, which may inject other packets, before*)
(* it returns.                                                              *)
BeginClassify(p) ==
  /\ CalloutOf[p] \in filters
  /\ call[p] = "new"
  /\ call' = [call EXCEPT ![p] = "running"]
  /\ UNCHANGED <<step, loadVars, queueVars, engineVars, calloutVars, handles,
                 driver_unloading>>

EndClassify(p) ==
  /\ call[p] = "running"
  /\ call' = [call EXCEPT ![p] = "returned"]
  /\ UNCHANGED <<step, loadVars, queueVars, engineVars, calloutVars, handles,
                 driver_unloading>>

RegisterCallouts ==
  OpenEngine \/ BeginTransaction \/ RegisterCallout \/ CommitTransaction
    \/ AbortTransaction \/ CloseEngine

DriverEntry ==
  WaitForWFP \/ ShaperInitDriverObjects \/ CreateHandles
    \/ InitializePacketQueues \/ RegisterCallouts \/ EndDriverEntry

Cleanup ==
  DestroyPacketQueues \/ CloseSession \/ UnregisterCallout \/ DestroyHandles

\* The driver may stay loaded; it is out of the way, or the machine stopped.
Rest ==
  step \in {"loaded", "not_loaded", "unloaded", "bugcheck"} /\ UNCHANGED vars

Next ==
  \/ DriverEntry \/ Unload \/ Cleanup \/ BfeStarts
  \/ \E p \in Calls : BeginClassify(p) \/ EndClassify(p)
  \/ Rest

Spec == Init /\ [][Next]_vars

(* DriverEntry and Cleanup run on a system thread that is scheduled, and a  *)
(* classify call returns; nothing says that the filtering engine ever       *)
(* starts or that the driver is unloaded.                                   *)
Fairness ==
  /\ WF_vars(DriverEntry \/ Cleanup)
  /\ \A p \in Calls : WF_vars(EndClassify(p))

FairSpec == Spec /\ Fairness

----------------------------------------------------------------------------
Stages == {"wait", "objects", "queues", "callouts"}
Steps == {"wait", "objects", "handles", "queues", "callouts", "begin",
          "register", "commit", "abort", "close", "end", "loaded", "destroy",
          "close_session", "unregister", "destroy_handles", "not_loaded",
          "unloaded", "bugcheck"}

(* The types of the variables, and that the index of the callout being      *)
(* registered or unregistered is one (RegisterCallouts, Cleanup).           *)
TypeOK ==
  /\ step \in Steps
  /\ status \in BOOLEAN /\ failed \subseteq Stages
  /\ count \in 0..MaxWait /\ bfe_running \in BOOLEAN
  /\ wdm_device \in BOOLEAN
  /\ handles \subseteq Handles
  /\ queues_initialized \in BOOLEAN /\ timer_handle \in BOOLEAN
  /\ engine_handle \in BOOLEAN
  /\ pending \subseteq CalloutSet /\ filters \subseteq CalloutSet
  /\ ids \subseteq CalloutSet /\ registered \subseteq CalloutSet
  /\ next \in Nat \ {0}
  /\ step = "register" => next \in DOMAIN Callouts
  /\ step = "unregister" => next \in DOMAIN CleanupOrder
  /\ driver_unloading \in BOOLEAN
  /\ call \in [Calls -> {"new", "running", "returned"}]

(* However far DriverEntry came before a call failed, and after every       *)
(* unload, nothing the driver acquired is left: no callout, filter, engine  *)
(* session or transaction, injection handle or timer (Cleanup and the error *)
(* paths of RegisterCallout and RegisterCallouts).                          *)
NothingLeft ==
  step \in {"not_loaded", "unloaded"} =>
    /\ registered = {} /\ ids = {} /\ filters = {} /\ pending = {}
    /\ handles = {}
    /\ ~engine_handle /\ ~timer_handle

(* The callout ids, which Cleanup goes by, are 0 exactly for the callouts   *)
(* that are not registered: none is unregistered twice or forgotten.        *)
IdsTrue == ids = registered

(* The filters come into force together, and while they are no callout they *)
(* refer to is missing and the queues they feed exist, unless the driver is *)
(* unloading, when ShaperClassify feeds them no more.                       *)
FiltersBacked ==
  filters # {} =>
    /\ filters = CalloutSet
    /\ registered = CalloutSet
    /\ engine_handle
    /\ queues_initialized \/ driver_unloading

(* The injection handles change only while no ShaperClassify call, which    *)
(* reads one and uses it to its end, is running (DriverEntry, Cleanup).     *)
HandlesStable == [][handles' # handles => Running = {}]_vars

(* Under Fairness loading comes to an end even when the filtering engine    *)
(* never starts (WaitForWFP), and Cleanup does, although it waits for the   *)
(* classify calls that are running.                                         *)
RoutinesReturn ==
  /\ step = "wait" ~> step \in {"loaded", "not_loaded", "bugcheck"}
  /\ step = "destroy" ~> step \in {"not_loaded", "unloaded"}

(* README.md:44: the failure of any stage of the initialisation leads to    *)
(* the cleanup path.                                                        *)
FailedStageFailsLoad == step = "loaded" => failed = {}
=============================================================================
