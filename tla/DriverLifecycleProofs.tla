------------------------ MODULE DriverLifecycleProofs ------------------------
(***************************************************************************)
(* Proofs about DriverLifecycle, for any callouts, handles, calls and      *)
(* number of polls: wherever a load fails, and whenever the driver is      *)
(* unloaded, what was acquired is released, in an order that leaves        *)
(* nothing in use without what it needs.                                   *)
(***************************************************************************)
EXTENDS DriverLifecycle, TLAPS

BeforeCallouts == {"wait", "objects", "handles", "queues"}
Registering == {"callouts", "begin", "register", "commit", "abort", "close"}
Unregistering == {"unregister", "destroy_handles"}
Gone == {"not_loaded", "unloaded"}

RegisteredSoFar == {Callouts[k] : k \in 1..(next - 1)}
UnregisteredSoFar == {CleanupOrder[k] : k \in 1..(next - 1)}

(* What is registered at each point of the load and the cleanup.            *)
CalloutProgress ==
  /\ step \in BeforeCallouts \cup {"callouts", "begin", "destroy_handles"} \cup Gone =>
       registered = {}
  /\ step \in {"begin", "close_session"} => next = 1
  /\ step = "register" => registered = RegisteredSoFar /\ pending = registered
  /\ step = "commit" => registered = CalloutSet /\ pending = registered
  /\ step = "unregister" => registered \cap UnregisteredSoFar = {}
  /\ step \in {"register", "commit"} /\ registered # {} => wdm_device

(* What the engine holds for the driver.                                    *)
EngineProgress ==
  /\ pending # {} => step \in {"register", "commit", "abort"}
  /\ step \in {"begin", "register", "commit"} => engine_handle
  /\ step \in Unregistering \cup Gone => ~engine_handle
  /\ step \in Gone => handles = {}

(* The queues and the timer are there together, after the device and before *)
(* the cleanup.                                                             *)
QueueProgress ==
  /\ wdm_device => step \notin {"wait", "objects"}
  /\ wdm_device /\ step \in Registering => queues_initialized
  /\ timer_handle => queues_initialized
  /\ step \in {"close_session"} \cup Unregistering \cup Gone => ~timer_handle

(* When filters are in force, and what is there with them.                  *)
FilterProgress ==
  filters # {} =>
    /\ step \in {"end", "loaded", "destroy", "close_session"}
    /\ filters = CalloutSet /\ registered = CalloutSet /\ engine_handle
    /\ step = "end" => status
    /\ step \in {"end", "loaded"} => queues_initialized
    /\ step \in {"destroy", "close_session"} => driver_unloading

(* A ShaperClassify call that is running is one of a registered callout.    *)
RunningRegistered == \A p \in Running : CalloutOf[p] \in registered

LifecycleInv ==
  /\ TypeOK /\ IdsTrue
  /\ CalloutProgress /\ EngineProgress /\ QueueProgress /\ FilterProgress
  /\ RunningRegistered

(* A step is one of these.                                                  *)
LEMMA StepCases ==
  ASSUME [Next]_vars
  PROVE  \/ WaitForWFP \/ ShaperInitDriverObjects \/ CreateHandles
         \/ InitializePacketQueues \/ OpenEngine \/ BeginTransaction
         \/ RegisterCallout \/ CommitTransaction \/ AbortTransaction
         \/ CloseEngine \/ EndDriverEntry \/ Unload \/ DestroyPacketQueues
         \/ CloseSession \/ UnregisterCallout \/ DestroyHandles \/ BfeStarts
         \/ \E p \in Calls : BeginClassify(p) \/ EndClassify(p)
         \/ UNCHANGED vars
  BY DEF Next, DriverEntry, RegisterCallouts, Cleanup, Rest

LEMMA NextCallout ==
  ASSUME NEW k \in DOMAIN Callouts
  PROVE  /\ Callouts[k] \in CalloutSet
         /\ k # Len(Callouts) => k + 1 \in DOMAIN Callouts
  BY LifecycleAssumption

LEMMA NextCleanup ==
  ASSUME NEW k \in DOMAIN CleanupOrder
  PROVE  /\ CleanupOrder[k] \in CalloutSet
         /\ k # Len(CleanupOrder) => k + 1 \in DOMAIN CleanupOrder
  BY LifecycleAssumption

(* The first callout, in either order.                                      *)
LEMMA FirstCallout == 1 \in DOMAIN Callouts /\ 1 \in DOMAIN CleanupOrder
<1>1. Len(Callouts) \in Nat /\ Len(Callouts) # 0
  BY LifecycleAssumption
<1>2. 1 \in DOMAIN Callouts
  BY <1>1, LifecycleAssumption
<1>3. CalloutSet # {}
  BY <1>2, LifecycleAssumption
<1>4. CleanupOrder # <<>>
  BY <1>3, LifecycleAssumption DEF ToSet
<1> QED
  BY <1>2, <1>4, LifecycleAssumption


(* So that the sets themselves need not be expanded.                        *)
LEMMA Names ==
  /\ "wait" \in Steps /\ "objects" \in Steps /\ "handles" \in Steps
  /\ "queues" \in Steps /\ "callouts" \in Steps /\ "begin" \in Steps
  /\ "register" \in Steps /\ "commit" \in Steps /\ "abort" \in Steps
  /\ "close" \in Steps /\ "end" \in Steps /\ "loaded" \in Steps
  /\ "destroy" \in Steps /\ "close_session" \in Steps /\ "unregister" \in Steps
  /\ "destroy_handles" \in Steps /\ "not_loaded" \in Steps
  /\ "unloaded" \in Steps /\ "bugcheck" \in Steps
  /\ "wait" \in Stages /\ "objects" \in Stages /\ "queues" \in Stages
  /\ "callouts" \in Stages
  BY DEF Steps, Stages

LEMMA InitInv == Init => LifecycleInv
<1> SUFFICES ASSUME Init PROVE LifecycleInv
  OBVIOUS
<1>1. TypeOK
  <2>1. call \in [Calls -> {"new", "running", "returned"}]
    BY DEF Init
  <2>2. count \in 0..MaxWait /\ step \in Steps
    BY Names, LifecycleAssumption DEF Init
  <2>3. UNION {handles, pending, filters, ids, registered, failed} = {}
    BY DEF Init
  <2>4. /\ step # "register" /\ step # "unregister" /\ next \in Nat \ {0}
        /\ bfe_running \in BOOLEAN
        /\ status = TRUE /\ wdm_device = FALSE /\ queues_initialized = FALSE
        /\ timer_handle = FALSE /\ engine_handle = FALSE /\ driver_unloading = FALSE
    BY DEF Init
  <2> QED
    BY <2>1, <2>2, <2>3, <2>4 DEF TypeOK
<1>2. IdsTrue /\ CalloutProgress /\ EngineProgress /\ QueueProgress
      /\ FilterProgress
  BY DEF Init, IdsTrue, CalloutProgress, EngineProgress, QueueProgress,
     FilterProgress, BeforeCallouts, Registering, Unregistering, Gone
<1>3. RunningRegistered
  BY DEF Init, RunningRegistered, Running
<1> QED
  BY <1>1, <1>2, <1>3 DEF LifecycleInv

LEMMA TypeStep ==
  ASSUME TypeOK, CalloutProgress, [Next]_vars
  PROVE  TypeOK'
<1> USE DEF loadVars, queueVars, engineVars, calloutVars, GoTo, Return
<1> USE Names
<1>1. CASE WaitForWFP
  <2>1. status' \in BOOLEAN /\ failed' \subseteq Stages
    BY <1>1 DEF WaitForWFP, TypeOK
  <2>2. step' \in {"wait", "objects", "callouts"} /\ count' \in 0..MaxWait
    BY <1>1, LifecycleAssumption DEF WaitForWFP, PollsLeft, CountDown, TypeOK
  <2> QED
    BY <1>1, <2>1, <2>2 DEF WaitForWFP, TypeOK
<1>2. CASE ShaperInitDriverObjects \/ CreateHandles \/ InitializePacketQueues
  BY <1>2 DEF ShaperInitDriverObjects, CreateHandles, InitializePacketQueues, TypeOK
<1>3. CASE OpenEngine
  <2>1. status' \in BOOLEAN /\ failed' \subseteq Stages
    BY <1>3 DEF OpenEngine, TypeOK
  <2>2. step' \in {"begin", "end"} /\ engine_handle' \in BOOLEAN /\ next' = 1
    BY <1>3 DEF OpenEngine, TypeOK
  <2> QED
    BY <1>3, <2>1, <2>2 DEF OpenEngine, TypeOK
<1>4. CASE BeginTransaction
  BY <1>4, FirstCallout DEF BeginTransaction, TypeOK, CalloutProgress
<1>5. CASE RegisterCallout
  <2>1. status' \in BOOLEAN /\ failed' \subseteq Stages
    BY <1>5 DEF RegisterCallout, TypeOK
  <2>2. next \in DOMAIN Callouts /\ Callouts[next] \in CalloutSet
    BY <1>5, NextCallout DEF RegisterCallout, TypeOK
  <2>3. /\ ids' \subseteq CalloutSet /\ registered' \subseteq CalloutSet
        /\ pending' \subseteq CalloutSet
    BY <1>5, <2>2 DEF RegisterCallout, IdReset, TypeOK
  <2>4. /\ step' \in {"register", "commit", "abort"} /\ next' \in Nat \ {0}
        /\ step' = "register" => next' \in DOMAIN Callouts
    <3>1. next + 1 \in Nat \ {0}
      BY DEF TypeOK
    <3>2. next # Len(Callouts) => next + 1 \in DOMAIN Callouts
      BY <2>2, NextCallout
    <3>3. \/ step' = "abort" /\ next' = next
          \/ next' = next + 1 /\ step' = IF next = Len(Callouts) THEN "commit" ELSE "register"
      BY <1>5 DEF RegisterCallout
    <3> QED
      BY <3>1, <3>2, <3>3 DEF TypeOK
  <2> QED
    BY <1>5, <2>1, <2>3, <2>4 DEF RegisterCallout, TypeOK
<1>6. CASE CommitTransaction \/ AbortTransaction \/ CloseEngine
  BY <1>6 DEF CommitTransaction, AbortTransaction, CloseEngine, TypeOK
<1>7. CASE EndDriverEntry \/ Unload
  BY <1>7 DEF EndDriverEntry, Unload, TypeOK
<1>8. CASE DestroyPacketQueues
  <2>1. timer_handle' \in BOOLEAN
    BY <1>8 DEF DestroyPacketQueues
  <2>2. /\ step' = "close_session" /\ next' = 1 /\ queues_initialized' \in BOOLEAN
        /\ UNCHANGED <<loadVars, engineVars, ids, registered, handles,
                       driver_unloading, call>>
    BY <1>8 DEF DestroyPacketQueues, AfterQueues
  <2> QED
    BY <2>1, <2>2 DEF TypeOK
<1>13. CASE DestroyHandles
  BY <1>13 DEF DestroyHandles, TypeOK
<1>9. CASE CloseSession
  BY <1>9, FirstCallout DEF CloseSession, AfterSession, TypeOK, CalloutProgress
<1>10. CASE UnregisterCallout
  BY <1>10, NextCleanup DEF UnregisterCallout, Unregistered, TypeOK
<1>11. CASE BfeStarts \/ UNCHANGED vars
  BY <1>11 DEF BfeStarts, vars, TypeOK
<1>12. CASE \E p \in Calls : BeginClassify(p) \/ EndClassify(p)
  BY <1>12 DEF BeginClassify, EndClassify, TypeOK
<1> QED
  BY <1>1, <1>2, <1>3, <1>4, <1>5, <1>6, <1>7, <1>8, <1>9, <1>10, <1>11, <1>12,
     <1>13, StepCases

(* The ids follow the registration: RegisterCallout sets an id and, when it *)
(* fails, sets it back to 0, where it was, as each callout comes up once.   *)
LEMMA IdsStep ==
  ASSUME LifecycleInv, [Next]_vars
  PROVE  IdsTrue'
<1> USE DEF loadVars, queueVars, engineVars, calloutVars, LifecycleInv, IdsTrue
<1>1. CASE RegisterCallout
  <2>1. next \in DOMAIN Callouts /\ step = "register"
    BY <1>1 DEF RegisterCallout, TypeOK
  <2>2. Callouts[next] \notin RegisteredSoFar
    BY <2>1, LifecycleAssumption DEF RegisteredSoFar
  <2>3. Callouts[next] \notin ids
    BY <2>1, <2>2 DEF CalloutProgress
  <2> QED
    BY <1>1, <2>3 DEF RegisterCallout, IdReset
<1>2. CASE UnregisterCallout
  BY <1>2 DEF UnregisterCallout, Unregistered
<1>3. ASSUME ~RegisterCallout, ~UnregisterCallout
      PROVE  UNCHANGED <<ids, registered>>
  BY <1>3, StepCases DEF WaitForWFP, ShaperInitDriverObjects, CreateHandles,
     InitializePacketQueues, OpenEngine, BeginTransaction, CommitTransaction,
     AbortTransaction, CloseEngine, EndDriverEntry, Unload, DestroyPacketQueues,
     CloseSession, DestroyHandles, BfeStarts, BeginClassify, EndClassify, vars
<1> QED
  BY <1>1, <1>2, <1>3

(* The callouts are registered in one order and unregistered in another.    *)
LEMMA CalloutStep ==
  ASSUME LifecycleInv, [Next]_vars
  PROVE  CalloutProgress'
<1> USE DEF loadVars, queueVars, engineVars, calloutVars, GoTo, LifecycleInv,
       CalloutProgress, BeforeCallouts, Gone
<1>1. CASE \/ WaitForWFP \/ ShaperInitDriverObjects \/ CreateHandles
           \/ InitializePacketQueues
  BY <1>1 DEF WaitForWFP, ShaperInitDriverObjects, CreateHandles,
     InitializePacketQueues
<1>2. CASE OpenEngine
  BY <1>2 DEF OpenEngine
<1>3. CASE BeginTransaction
  <2>1. registered' = {} /\ pending' = {} /\ next' = 1
    BY <1>3 DEF BeginTransaction, EngineProgress
  <2>2. RegisteredSoFar' = {}
    BY <2>1 DEF RegisteredSoFar
  <2>3. step' \in {"register", "close", "abort"}
    BY <1>3 DEF BeginTransaction
  <2> QED
    BY <2>1, <2>2, <2>3
<1>4. CASE RegisterCallout
  <2>1. next \in DOMAIN Callouts /\ next \in Nat \ {0}
    BY <1>4 DEF RegisterCallout, TypeOK
  <2>2. CASE step' = "abort"
    BY <2>2
  <2>3. CASE step' # "abort"
    <3>1. /\ registered' = registered \cup {Callouts[next]}
          /\ pending' = pending \cup {Callouts[next]}
          /\ next' = next + 1 /\ wdm_device'
          /\ step' = IF next = Len(Callouts) THEN "commit" ELSE "register"
          /\ registered = RegisteredSoFar /\ pending = registered
      BY <1>4, <2>3 DEF RegisterCallout
    <3>2. RegisteredSoFar' = RegisteredSoFar \cup {Callouts[next]}
      <4>1. 1..(next' - 1) = 1..(next - 1) \cup {next}
        BY <2>1, <3>1
      <4> QED
        BY <4>1 DEF RegisteredSoFar
    <3>3. next = Len(Callouts) => RegisteredSoFar' = CalloutSet
      <4>1. ASSUME next = Len(Callouts) PROVE 1..(next' - 1) = DOMAIN Callouts
        BY <2>1, <3>1, <4>1, LifecycleAssumption
      <4> QED
        BY <4>1 DEF RegisteredSoFar, CalloutSet, ToSet
    <3> QED
      BY <3>1, <3>2, <3>3
  <2> QED
    BY <2>2, <2>3
<1>5. CASE \/ CommitTransaction \/ AbortTransaction \/ CloseEngine
           \/ EndDriverEntry \/ Unload
  BY <1>5 DEF CommitTransaction, AbortTransaction, CloseEngine, EndDriverEntry,
     Unload
<1>6. CASE DestroyPacketQueues
  BY <1>6 DEF DestroyPacketQueues, AfterQueues
<1>7. CASE CloseSession
  <2>1. next' = 1 /\ step' = "unregister"
    BY <1>7 DEF CloseSession, AfterSession
  <2>2. UnregisteredSoFar' = {}
    BY <2>1 DEF UnregisteredSoFar
  <2> QED
    BY <2>1, <2>2
<1>8. CASE UnregisterCallout
  <2>1. next \in DOMAIN CleanupOrder /\ next \in Nat \ {0}
    BY <1>8 DEF UnregisterCallout, TypeOK
  <2>2. /\ registered' = registered \ {CleanupOrder[next]}
        /\ registered \cap UnregisteredSoFar = {}
        /\ next' = next + 1
        /\ step' = IF next = Len(CleanupOrder) THEN "destroy_handles" ELSE "unregister"
    BY <1>8 DEF UnregisterCallout, Unregistered, IdsTrue
  <2>3. UnregisteredSoFar' = UnregisteredSoFar \cup {CleanupOrder[next]}
    <3>1. 1..(next' - 1) = 1..(next - 1) \cup {next}
      BY <2>1, <2>2
    <3> QED
      BY <3>1 DEF UnregisteredSoFar
  <2>4. registered' \cap UnregisteredSoFar' = {}
    BY <2>2, <2>3
  <2>5. ASSUME next = Len(CleanupOrder) PROVE registered' = {}
    <3>1. 1..(next' - 1) = DOMAIN CleanupOrder
      BY <2>1, <2>2, <2>5, LifecycleAssumption
    <3>2. UnregisteredSoFar' = CalloutSet
      BY <3>1, LifecycleAssumption DEF UnregisteredSoFar, ToSet
    <3> QED
      BY <2>2, <2>4, <3>2 DEF TypeOK
  <2> QED
    BY <2>2, <2>4, <2>5
<1>9. CASE DestroyHandles
  BY <1>9 DEF DestroyHandles
<1>10. CASE BfeStarts \/ UNCHANGED vars
  BY <1>10 DEF BfeStarts, vars, RegisteredSoFar, UnregisteredSoFar
<1>11. CASE \E p \in Calls : BeginClassify(p) \/ EndClassify(p)
  BY <1>11 DEF BeginClassify, EndClassify, RegisteredSoFar, UnregisteredSoFar
<1> QED
  BY <1>1, <1>2, <1>3, <1>4, <1>5, <1>6, <1>7, <1>8, <1>9, <1>10, <1>11, StepCases

LEMMA EngineStep ==
  ASSUME LifecycleInv, [Next]_vars
  PROVE  EngineProgress'
<1> USE DEF loadVars, queueVars, engineVars, calloutVars, GoTo, LifecycleInv,
       EngineProgress, Unregistering, Gone
<1>1. CASE \/ WaitForWFP \/ ShaperInitDriverObjects \/ CreateHandles
           \/ InitializePacketQueues
  BY <1>1 DEF WaitForWFP, ShaperInitDriverObjects, CreateHandles,
     InitializePacketQueues
<1>2. CASE OpenEngine \/ BeginTransaction
  BY <1>2 DEF OpenEngine, BeginTransaction
<1>3. CASE RegisterCallout
  BY <1>3 DEF RegisterCallout
<1>4. CASE CommitTransaction
  BY <1>4 DEF CommitTransaction
<1>5. CASE AbortTransaction \/ CloseEngine \/ EndDriverEntry \/ Unload
  BY <1>5 DEF AbortTransaction, CloseEngine, EndDriverEntry, Unload
<1>6. CASE DestroyPacketQueues
  BY <1>6 DEF DestroyPacketQueues, AfterQueues
<1>7. CASE CloseSession
  BY <1>7 DEF CloseSession, AfterSession
<1>8. CASE UnregisterCallout \/ DestroyHandles
  BY <1>8 DEF UnregisterCallout, DestroyHandles
<1>9. CASE BfeStarts \/ UNCHANGED vars
  BY <1>9 DEF BfeStarts, vars
<1>10. CASE \E p \in Calls : BeginClassify(p) \/ EndClassify(p)
  BY <1>10 DEF BeginClassify, EndClassify
<1> QED
  BY <1>1, <1>2, <1>3, <1>4, <1>5, <1>6, <1>7, <1>8, <1>9, <1>10, StepCases

LEMMA QueueStep ==
  ASSUME LifecycleInv, [Next]_vars
  PROVE  QueueProgress'
<1> USE DEF loadVars, queueVars, engineVars, calloutVars, GoTo, LifecycleInv,
       QueueProgress, Registering, Unregistering, Gone
<1>1. CASE WaitForWFP
  <2>1. ~wdm_device' /\ UNCHANGED queueVars /\ step' \in {"wait", "objects", "callouts"}
    BY <1>1 DEF WaitForWFP
  <2> QED
    BY <2>1
<1>12. CASE ShaperInitDriverObjects
  <2>1. ~wdm_device
    BY <1>12 DEF ShaperInitDriverObjects
  <2>2. UNCHANGED queueVars /\ step' \in {"handles", "callouts", "bugcheck"}
    BY <1>12 DEF ShaperInitDriverObjects
  <2>3. step' # "handles" => UNCHANGED wdm_device
    BY <1>12 DEF ShaperInitDriverObjects
  <2> QED
    BY <2>1, <2>2, <2>3
<1>13. CASE CreateHandles
  BY <1>13 DEF CreateHandles
<1>2. CASE InitializePacketQueues
  BY <1>2 DEF InitializePacketQueues
<1>3. CASE OpenEngine \/ BeginTransaction
  <2>1. /\ UNCHANGED <<wdm_device, queueVars>> /\ step \in Registering
        /\ step' \in {"begin", "end", "register", "close", "abort"}
    BY <1>3 DEF OpenEngine, BeginTransaction
  <2> QED
    BY <2>1
<1>4. CASE RegisterCallout
  BY <1>4 DEF RegisterCallout
<1>5. CASE CommitTransaction \/ AbortTransaction \/ CloseEngine
  <2>1. /\ UNCHANGED <<wdm_device, queueVars>> /\ step \in Registering
        /\ step' \in {"abort", "close", "end"}
    BY <1>5 DEF CommitTransaction, AbortTransaction, CloseEngine
  <2> QED
    BY <2>1
<1>6. CASE EndDriverEntry \/ Unload
  BY <1>6 DEF EndDriverEntry, Unload
<1>7. CASE DestroyPacketQueues
  <2>1. ~timer_handle'
    BY <1>7 DEF DestroyPacketQueues
  <2>2. step' = "close_session"
    BY <1>7 DEF DestroyPacketQueues, AfterQueues
  <2> QED
    BY <2>1, <2>2
<1>8. CASE CloseSession
  BY <1>8 DEF CloseSession, AfterSession
<1>9. CASE UnregisterCallout \/ DestroyHandles
  BY <1>9 DEF UnregisterCallout, DestroyHandles
<1>10. CASE BfeStarts \/ UNCHANGED vars
  BY <1>10 DEF BfeStarts, vars
<1>11. CASE \E p \in Calls : BeginClassify(p) \/ EndClassify(p)
  BY <1>11 DEF BeginClassify, EndClassify
<1> QED
  BY <1>1, <1>2, <1>3, <1>4, <1>5, <1>6, <1>7, <1>8, <1>9, <1>10, <1>11, <1>12,
     <1>13, StepCases

(* The commit is where the filters come into force: the callouts could not  *)
(* have been registered without the device, nor the device have been there  *)
(* without the queues.  Only an unload leads from there to Cleanup.         *)
LEMMA FilterStep ==
  ASSUME LifecycleInv, [Next]_vars
  PROVE  FilterProgress'
<1> USE DEF loadVars, queueVars, engineVars, calloutVars, GoTo, LifecycleInv,
       FilterProgress
<1>1. CASE \/ WaitForWFP \/ ShaperInitDriverObjects \/ CreateHandles
           \/ InitializePacketQueues
  BY <1>1 DEF WaitForWFP, ShaperInitDriverObjects, CreateHandles,
     InitializePacketQueues
<1>2. CASE OpenEngine \/ BeginTransaction \/ RegisterCallout
  BY <1>2 DEF OpenEngine, BeginTransaction, RegisterCallout
<1>3. CASE CommitTransaction
  <2>1. CASE filters' = filters
    BY <1>3, <2>1 DEF CommitTransaction
  <2>2. CASE filters' # filters
    <3>1. /\ step = "commit" /\ step' = "end" /\ status'
          /\ filters' = registered /\ registered = CalloutSet /\ registered' = registered
      BY <1>3, <2>2 DEF CommitTransaction, Return, CalloutProgress
    <3>2. engine_handle' /\ queues_initialized' = queues_initialized
      BY <1>3, <3>1 DEF CommitTransaction, EngineProgress
    <3>3. filters' # {} => queues_initialized
      BY <3>1 DEF CalloutProgress, QueueProgress, Registering
    <3> QED
      BY <3>1, <3>2, <3>3
  <2> QED
    BY <2>1, <2>2
<1>4. CASE AbortTransaction \/ CloseEngine
  BY <1>4 DEF AbortTransaction, CloseEngine
<1>5. CASE EndDriverEntry \/ Unload
  BY <1>5 DEF EndDriverEntry, Unload
<1>6. CASE DestroyPacketQueues
  BY <1>6 DEF DestroyPacketQueues, AfterQueues
<1>7. CASE CloseSession \/ UnregisterCallout \/ DestroyHandles
  BY <1>7 DEF CloseSession, UnregisterCallout, DestroyHandles
<1>8. CASE BfeStarts \/ UNCHANGED vars
  BY <1>8 DEF BfeStarts, vars
<1>9. CASE \E p \in Calls : BeginClassify(p) \/ EndClassify(p)
  BY <1>9 DEF BeginClassify, EndClassify
<1> QED
  BY <1>1, <1>2, <1>3, <1>4, <1>5, <1>6, <1>7, <1>8, <1>9, StepCases

(* A call begins while its filter is in force, and FwpsCalloutUnregisterById *)
(* waits for it to end.                                                      *)
LEMMA RunningStep ==
  ASSUME LifecycleInv, [Next]_vars
  PROVE  RunningRegistered'
<1> USE DEF LifecycleInv, RunningRegistered, Running
<1>1. ASSUME NEW p \in Calls, BeginClassify(p) \/ EndClassify(p)
      PROVE  RunningRegistered'
  <2>1. registered' = registered /\ call \in [Calls -> {"new", "running", "returned"}]
    BY <1>1 DEF BeginClassify, EndClassify, TypeOK, calloutVars
  <2>2. BeginClassify(p) => CalloutOf[p] \in registered
    BY DEF BeginClassify, FilterProgress
  <2>3. \A q \in Calls \ {p} : call'[q] = call[q]
    BY <1>1, <2>1 DEF BeginClassify, EndClassify
  <2>4. EndClassify(p) => call'[p] = "returned"
    BY <2>1 DEF EndClassify
  <2> QED
    BY <1>1, <2>1, <2>2, <2>3, <2>4
<1>2. CASE UnregisterCallout
  BY <1>2 DEF UnregisterCallout, Unregistered, IdsTrue
<1>3. CASE UNCHANGED call /\ registered \subseteq registered'
  BY <1>3
<1>4. ASSUME ~UnregisterCallout, ~(\E p \in Calls : BeginClassify(p) \/ EndClassify(p))
      PROVE  UNCHANGED call /\ registered \subseteq registered'
  BY <1>4, StepCases DEF WaitForWFP, ShaperInitDriverObjects, CreateHandles,
     InitializePacketQueues, OpenEngine, BeginTransaction, RegisterCallout,
     CommitTransaction, AbortTransaction, CloseEngine, EndDriverEntry, Unload,
     DestroyPacketQueues, CloseSession, DestroyHandles, BfeStarts, vars, calloutVars
<1> QED
  BY <1>1, <1>2, <1>3, <1>4

----------------------------------------------------------------------------
THEOREM LifecycleInvariant == Spec => []LifecycleInv
<1>1. LifecycleInv /\ [Next]_vars => LifecycleInv'
  BY TypeStep, IdsStep, CalloutStep, EngineStep, QueueStep, FilterStep,
     RunningStep DEF LifecycleInv
<1> QED
  BY InitInv, <1>1, PTL DEF Spec

(* The variables have their types, and RegisterCallouts and Cleanup never    *)
(* reach past the last callout.                                              *)
THEOREM TypeCorrect == Spec => []TypeOK
<1>1. LifecycleInv => TypeOK
  BY DEF LifecycleInv
<1> QED
  BY LifecycleInvariant, <1>1, PTL

(* At every moment, on every error path, the callout ids are 0 exactly for   *)
(* the callouts that are not registered.                                     *)
THEOREM IdsTrueCorrect == Spec => []IdsTrue
<1>1. LifecycleInv => IdsTrue
  BY DEF LifecycleInv
<1> QED
  BY LifecycleInvariant, <1>1, PTL

(* Wherever the load failed, and after every unload, nothing is left of what *)
(* the driver acquired.                                                      *)
THEOREM NothingLeftCorrect == Spec => []NothingLeft
<1>1. LifecycleInv => NothingLeft
  BY DEF LifecycleInv, NothingLeft, IdsTrue, CalloutProgress, EngineProgress,
     QueueProgress, FilterProgress, Gone
<1> QED
  BY LifecycleInvariant, <1>1, PTL

(* While any filter is in force all of them are, each callout is registered, *)
(* and the queues exist or the driver is unloading.                          *)
THEOREM FiltersBackedCorrect == Spec => []FiltersBacked
<1>1. LifecycleInv => FiltersBacked
  BY DEF LifecycleInv, FiltersBacked, FilterProgress
<1> QED
  BY LifecycleInvariant, <1>1, PTL

(* The injection handles change only when no ShaperClassify call is running: *)
(* they are created before the first callout is registered, and destroyed    *)
(* once the last is unregistered, which waits for its calls.                 *)
THEOREM HandlesStableCorrect == Spec => HandlesStable
<1>1. LifecycleInv /\ [Next]_vars => [handles' # handles => Running = {}]_vars
  <2> SUFFICES ASSUME LifecycleInv, [Next]_vars, handles' # handles
               PROVE  Running = {}
    OBVIOUS
  <2>1. CreateHandles \/ DestroyHandles
    BY StepCases DEF WaitForWFP, ShaperInitDriverObjects, InitializePacketQueues,
       OpenEngine, BeginTransaction, RegisterCallout, CommitTransaction,
       AbortTransaction, CloseEngine, EndDriverEntry, Unload, DestroyPacketQueues,
       CloseSession, UnregisterCallout, BfeStarts, BeginClassify, EndClassify, vars
  <2>2. registered = {}
    BY <2>1 DEF CreateHandles, DestroyHandles, LifecycleInv, CalloutProgress,
       BeforeCallouts
  <2> QED
    BY <2>2 DEF LifecycleInv, RunningRegistered
<1> QED
  BY LifecycleInvariant, <1>1, PTL DEF Spec, HandlesStable
=============================================================================
