-------------------------- MODULE PacketQueueProofs --------------------------
(***************************************************************************)
(* Proofs about PacketQueue, for any packets, timers, parameters and word  *)
(* size: the type invariant, the two halves of the argument that no packet *)
(* is left behind without a wake-up, and that switching shaping off drains *)
(* the lists.                                                              *)
(***************************************************************************)
EXTENDS PacketQueue, TLAPS

\* The workers that call ProcessQueue.
Callers == Packets \cup Timers \cup {Ioctl}

(* The words of the byte counters: arithmetic modulo W stays in 0..W-1.     *)
LEMMA WordArithmetic ==
  ASSUME NEW a \in Int, NEW b \in Int
  PROVE  /\ Plus(a, b) \in 0..W-1
         /\ Minus(a, b) \in 0..W-1
  BY DataAssumption DEF Plus, Minus

(* What time is worth is an integer, whatever the rate.                     *)
LEMMA AccumulatedType ==
  ASSUME TypeOK, NEW d \in Directions
  PROVE  Accumulated(d) \in Int
<1>0. limits[d] \in Limits
  BY DEF TypeOK, ControlTypes
<1>1. since[d] \in Int /\ limits[d].bps \in Int /\ Freq \in Nat \ {0}
  <2>1. since[d] \in Int
    BY DataAssumption DEF TypeOK, ClockTypes
  <2>2. limits[d].bps \in Int
    BY <1>0 DEF Limits
  <2> QED
    BY <2>1, <2>2, DataAssumption
<1>2. since[d] * limits[d].bps \in Int
  BY <1>1
<1>3. 8 * Freq \in Nat \ {0}
  BY <1>1
<1>4. \A a \in Int, b \in Nat \ {0} : a \div b \in Int
  OBVIOUS
<1> QED
  BY <1>2, <1>3, <1>4 DEF Accumulated

(* Taking the head off a non-empty list of packets.                         *)
LEMMA HeadTail ==
  ASSUME NEW s \in Seq(Packets), s # <<>>
  PROVE  Head(s) \in Packets /\ Tail(s) \in Seq(Packets)
  OBVIOUS

LEMMA Constants ==
  /\ Freq \in Nat \ {0} /\ W \in Nat \ {0} /\ MaxElapsed \in Nat
  /\ INITIAL_TOKEN_COUNT \in 0..W-1 /\ MaxRequests \in Nat
  /\ Dir \in [Packets -> Directions] /\ Bytes \in [Packets -> Nat]
  BY DataAssumption

LEMMA OneMsType == OneMs \in Nat
  BY Constants DEF OneMs

(* A step is one of these, by one of the workers.                           *)
LEMMA StepCases ==
  ASSUME [Next]_vars
  PROVE  \/ \E p \in Packets : \/ LossCheck(p) \/ BufferCheck(p) \/ Clone(p)
                               \/ Insert(p) \/ CountPermitted(p)
                               \/ InjectionComplete(p)
         \/ \E w \in Callers : \/ Accrue(w) \/ MoveHead(w) \/ StopMoving(w)
                               \/ ReleaseHead(w) \/ FinishQueue(w) \/ Inject(w)
         \/ \E w \in Packets \cup Timers :
              TakeLock(w) \/ CheckTimer(w) \/ StartTimer(w)
         \/ \E t \in Timers : TimerFires(t) \/ ResetPending(t)
         \/ \E s \in Settings : EnableInbound(s)
         \/ EnableOutbound \/ EnableFlag \/ Disable
         \/ \E u \in Unloaders : \/ BeginUnload(u) \/ DropInbound(u)
                                 \/ DropOutbound(u) \/ StopTimer(u)
         \/ Tick
         \/ UNCHANGED vars
  BY DEF Next, Running, Rest, ShaperQueuePacket, TimerEvt, ControlRequest,
         DestroyPacketQueues, ProcessQueue, StartPacketTimerIfNecessary,
         Callers

----------------------------------------------------------------------------
(* Worker w goes on to a step of its own routine; the others stay put.      *)
LEMMA WorkerStep ==
  ASSUME WorkerTypes, NEW w \in Workers, NEW step, GoTo(w, step),
         w \in Packets => step \in PacketSteps,
         w \in Timers => step \in TimerSteps,
         w = Ioctl => step \in IoctlSteps,
         w \in Unloaders => step \in UnloadSteps,
         queue' \in [Workers -> Directions],
         \/ step # "inject" /\ held' = held
         \/ step # "inject" /\ held' = [held EXCEPT ![w] = Nobody]
         \/ \E p \in Packets : held' = [held EXCEPT ![w] = p]
  PROVE  WorkerTypes'
  BY DEF WorkerTypes, Workers, GoTo, Steps

(* The roles are disjoint.                                                  *)
LEMMA Roles ==
  /\ \A p \in Packets : /\ p \in Workers /\ p \in Callers
                        /\ p \notin Timers /\ p # Ioctl /\ p \notin Unloaders
  /\ \A t \in Timers : /\ t \in Workers /\ t \in Callers
                       /\ t \notin Packets /\ t # Ioctl /\ t \notin Unloaders
  /\ \A u \in Unloaders : /\ u \in Workers
                          /\ u \notin Packets /\ u \notin Timers /\ u # Ioctl
  /\ Ioctl \in Workers /\ Ioctl \in Callers
  /\ Ioctl \notin Packets /\ Ioctl \notin Timers /\ Ioctl \notin Unloaders
  BY WorkersAssumption DEF Workers, Callers

(* A classify call goes on; so do the callers of ProcessQueue inside it.    *)
LEMMA PacketStep ==
  ASSUME WorkerTypes, NEW p \in Packets, NEW step \in PacketSteps,
         step # "inject", GoTo(p, step), UNCHANGED <<queue, held>>
  PROVE  WorkerTypes'
  BY WorkerStep, Roles DEF WorkerTypes

LEMMA CallerStep ==
  ASSUME WorkerTypes, NEW w \in Callers, NEW step \in ProcessSteps,
         step # "inject", GoTo(w, step), UNCHANGED queue,
         held' = held \/ held' = [held EXCEPT ![w] = Nobody]
  PROVE  WorkerTypes'
<1>1. w \in Workers /\ w \notin Unloaders
  BY Roles DEF Callers
<1>2. step \in PacketSteps /\ step \in TimerSteps /\ step \in IoctlSteps
  BY DEF PacketSteps, TimerSteps, IoctlSteps
<1> QED
  BY <1>1, <1>2, WorkerStep DEF WorkerTypes

LEMMA CallerFacts ==
  ASSUME TypeOK, NEW w \in Callers
  PROVE  /\ w \in Workers /\ queue[w] \in Directions
         /\ bandwidth[queue[w]] \in Seq(Packets)
         /\ latencyq[queue[w]] \in Seq(Packets)
  BY DEF TypeOK, WorkerTypes, ListTypes, Callers, Workers

(* A group of variables that a step leaves alone keeps its types.           *)
LEMMA Kept ==
  /\ ListTypes /\ UNCHANGED listVars => ListTypes'
  /\ ByteTypes /\ UNCHANGED byteVars => ByteTypes'
  /\ ClockTypes /\ UNCHANGED clockVars => ClockTypes'
  /\ TimerTypes /\ UNCHANGED timerVars => TimerTypes'
  /\ WorkerTypes /\ UNCHANGED <<pc, queue, held>> => WorkerTypes'
  /\ ControlTypes /\ UNCHANGED <<enabled, limits, request, requests>>
       => ControlTypes'
  /\ PacketTypes /\ UNCHANGED packetVars => PacketTypes'
  BY DEF ListTypes, ByteTypes, ClockTypes, TimerTypes, WorkerTypes,
     ControlTypes, PacketTypes, listVars, byteVars, clockVars, timerVars,
     packetVars

(* A time that starts anew is 0.                                            *)
LEMMA ClockReset ==
  ASSUME ClockTypes, NEW x,
         \/ since' = since /\ age' = [age EXCEPT ![x] = 0]
         \/ since' = [since EXCEPT ![x] = 0] /\ age' = age
  PROVE  ClockTypes'
<1>1. 0 \in 0..MaxElapsed
  BY Constants
<1> QED
  BY <1>1 DEF ClockTypes

(* CountPacket only counts.                                                 *)
LEMMA CountType ==
  ASSUME PacketTypes, NEW p \in Packets, CountPacket(p)
  PROVE  counted' \in [Directions -> Nat]
  BY Constants DEF PacketTypes, CountPacket

(* The type invariant is kept by every step of a classify call.             *)
LEMMA ClassifyTypes ==
  ASSUME TypeOK, NEW p \in Packets,
         \/ LossCheck(p) \/ BufferCheck(p) \/ Clone(p)
         \/ Insert(p) \/ CountPermitted(p) \/ InjectionComplete(p)
  PROVE  TypeOK'
<1> USE DEF TypeOK, queueVars, timerVars, ioctlVars, packetVars
<1>1. CASE LossCheck(p) \/ BufferCheck(p)
  <2>1. /\ \/ GoTo(p, "done") /\ FateOf(p, "absorbed")
           \/ GoTo(p, "screened") /\ UNCHANGED fate
           \/ GoTo(p, "roomy") /\ UNCHANGED fate
        /\ UNCHANGED <<queueVars, timerVars, ioctlVars, queue, held, counted>>
    BY <1>1 DEF LossCheck, BufferCheck, AbsorbPacket
  <2>2. WorkerTypes'
    BY <2>1, PacketStep DEF PacketSteps
  <2>3. PacketTypes'
    BY <2>1 DEF FateOf, PacketTypes, Fates
  <2> QED
    BY <2>1, <2>2, <2>3, Kept
<1>2. CASE Clone(p)
  <2>1. WorkerTypes'
    BY <1>2, PacketStep DEF Clone, PacketSteps
  <2> QED
    BY <1>2, <2>1, Kept DEF Clone
<1>3. CASE Insert(p)
  <2>1. PICK d \in Directions : d = Dir[p]
    BY Constants
  <2>2. /\ queued_bytes' = [queued_bytes EXCEPT ![d] = Plus(@, Bytes[p])]
        /\ bandwidth' = [bandwidth EXCEPT ![d] = Append(@, p)]
        /\ FateOf(p, "queued") /\ GoTo(p, "accrue")
        /\ UNCHANGED <<latencyq, available_bytes, clockVars, timerVars, counted,
                       ioctlVars, limits, queue, held>>
    BY <1>3, <2>1 DEF Insert
  <2>3. ListTypes'
    BY <2>2 DEF ListTypes
  <2>4. ByteTypes'
    <3>1. queued_bytes[d] \in Int /\ Bytes[p] \in Int
      BY Constants DEF ByteTypes
    <3> QED
      BY <2>2, <3>1, WordArithmetic DEF ByteTypes
  <2>5. WorkerTypes'
    BY <2>2, PacketStep DEF PacketSteps, ProcessSteps
  <2>6. PacketTypes'
    BY <2>2 DEF FateOf, PacketTypes, Fates
  <2> QED
    BY <2>2, <2>3, <2>4, <2>5, <2>6, Kept
<1>4. CASE CountPermitted(p)
  <2>1. counted' \in [Directions -> Nat]
    BY <1>4, CountType DEF CountPermitted, PacketTypes
  <2>2. WorkerTypes'
    BY <1>4, PacketStep DEF CountPermitted, PacketSteps
  <2>3. PacketTypes'
    BY <1>4, <2>1 DEF CountPermitted, FateOf, PacketTypes, Fates
  <2> QED
    BY <1>4, <2>2, <2>3, Kept DEF CountPermitted
<1>5. CASE InjectionComplete(p)
  <2>1. PacketTypes'
    BY <1>5, CountType DEF InjectionComplete, FateOf, PacketTypes, Fates
  <2> QED
    BY <1>5, <2>1, Kept DEF InjectionComplete
<1> QED
  BY <1>1, <1>2, <1>3, <1>4, <1>5

(* ... by every step of ProcessQueue.                                       *)
LEMMA ProcessTypes ==
  ASSUME TypeOK, NEW w \in Callers,
         \/ Accrue(w) \/ MoveHead(w) \/ StopMoving(w)
         \/ ReleaseHead(w) \/ FinishQueue(w) \/ Inject(w)
  PROVE  TypeOK'
<1> USE DEF TypeOK, queueVars, listVars, byteVars, clockVars, timerVars,
            ioctlVars, packetVars
<1>1. PICK d \in Directions : d = queue[w]
  BY CallerFacts
<1>2. CASE Accrue(w)
  <2> DEFINE credit == Plus(available_bytes[d], Accumulated(d))
             next == IF bandwidth[d] = <<>> /\ credit > INITIAL_TOKEN_COUNT
                     THEN INITIAL_TOKEN_COUNT ELSE credit
  <2>1. available_bytes' = [available_bytes EXCEPT ![d] = next]
    BY <1>1, <1>2 DEF Accrue
  <2>2. available_bytes[d] \in Int
    BY Constants DEF ByteTypes
  <2>3. credit \in 0..W-1
    BY <2>2, AccumulatedType, WordArithmetic
  <2>4. next \in 0..W-1
    BY <2>3, Constants
  <2>5. ByteTypes'
    BY <1>2, <2>1, <2>4 DEF Accrue, ByteTypes
  <2>6. WorkerTypes'
    BY <1>2, CallerStep DEF Accrue, ProcessSteps
  <2> QED
    BY <1>2, <2>5, <2>6, Kept DEF Accrue
<1>3. CASE MoveHead(w)
  <2> DEFINE p == Head(bandwidth[d])
  <2>1. p \in Packets /\ Tail(bandwidth[d]) \in Seq(Packets)
    BY <1>1, <1>3, CallerFacts, HeadTail DEF MoveHead, MayPass
  <2>2. /\ queued_bytes' =
             [queued_bytes EXCEPT ![d] = Minus(queued_bytes[d], Bytes[p])]
        /\ available_bytes' =
             [available_bytes EXCEPT ![d] = Minus(available_bytes[d], Bytes[p])]
        /\ bandwidth' = [bandwidth EXCEPT ![d] = Tail(bandwidth[d])]
        /\ latencyq' = [latencyq EXCEPT ![d] = Append(latencyq[d], p)]
        /\ age' = [age EXCEPT ![p] = 0]
        /\ UNCHANGED <<limits, since, timerVars, ioctlVars, packetVars, pc,
                       queue, held>>
    BY <1>1, <1>3 DEF MoveHead, Without
  <2>3. ListTypes'
    BY <2>1, <2>2 DEF ListTypes
  <2>4. ByteTypes'
    <3>1. /\ queued_bytes[d] \in Int /\ available_bytes[d] \in Int
          /\ Bytes[p] \in Int
      BY <2>1, Constants DEF ByteTypes
    <3> QED
      BY <2>2, <3>1, WordArithmetic DEF ByteTypes
  <2>5. ClockTypes'
    BY <2>2, ClockReset
  <2> QED
    BY <2>2, <2>3, <2>4, <2>5, Kept
<1>4. CASE StopMoving(w)
  <2>1. ListTypes'
    BY <1>4 DEF StopMoving, PutBack, ListTypes
  <2>2. ClockTypes'
    BY <1>4, ClockReset DEF StopMoving
  <2>3. WorkerTypes'
    BY <1>4, CallerStep DEF StopMoving, ProcessSteps
  <2> QED
    BY <1>4, <2>1, <2>2, <2>3, Kept DEF StopMoving
<1>5. CASE ReleaseHead(w)
  <2> DEFINE p == Head(latencyq[d])
  <2>1. p \in Packets /\ Tail(latencyq[d]) \in Seq(Packets)
    BY <1>1, <1>5, CallerFacts, HeadTail DEF ReleaseHead, Due
  <2>2. /\ latencyq' = [latencyq EXCEPT ![d] = Tail(latencyq[d])]
        /\ age' = [age EXCEPT ![p] = 0]
        /\ held' = [held EXCEPT ![w] = p]
        /\ fate' = [fate EXCEPT ![p] = "held"]
        /\ GoTo(w, "inject")
        /\ UNCHANGED <<limits, bandwidth, byteVars, since, timerVars,
                       ioctlVars, queue, counted>>
    BY <1>1, <1>5 DEF ReleaseHead, FateOf
  <2>3. ListTypes'
    BY <2>1, <2>2 DEF ListTypes
  <2>4. ClockTypes'
    BY <2>2, ClockReset
  <2>5. WorkerTypes'
    <3>1. w \in Workers /\ w \notin Unloaders
      BY Roles DEF Callers
    <3>2. /\ "inject" \in PacketSteps /\ "inject" \in TimerSteps
          /\ "inject" \in IoctlSteps
      BY DEF PacketSteps, TimerSteps, IoctlSteps, ProcessSteps
    <3>3. queue' \in [Workers -> Directions]
      BY <2>2 DEF WorkerTypes
    <3> QED
      BY <2>1, <2>2, <3>1, <3>2, <3>3, WorkerStep
  <2>6. PacketTypes'
    BY <2>2 DEF PacketTypes, Fates
  <2> QED
    BY <2>2, <2>3, <2>4, <2>5, <2>6, Kept
<1>6. CASE FinishQueue(w)
  <2>1. /\ \/ GoTo(w, "accrue")
           \/ w = Ioctl /\ GoTo(w, "idle")
           \/ w # Ioctl /\ GoTo(w, "rearm")
        /\ queue' = queue \/ queue' = [queue EXCEPT ![w] = "inbound"]
        /\ held' = held
    <3> DEFINE next == IF w \notin Packets /\ queue[w] = "outbound"
                       THEN "accrue"
                       ELSE IF w = Ioctl THEN "idle" ELSE "rearm"
    <3>1. /\ GoTo(w, next) /\ held' = held
          /\ queue' = [queue EXCEPT ![w] = IF next = "accrue" THEN "inbound"
                                          ELSE queue[w]]
      BY <1>6 DEF FinishQueue
    <3>2. queue' = queue \/ queue' = [queue EXCEPT ![w] = "inbound"]
      BY <3>1 DEF WorkerTypes
    <3> QED
      BY <3>1, <3>2
  <2>2. queue' \in [Workers -> Directions]
    BY <2>1 DEF WorkerTypes, Directions
  <2>3. w \in Workers /\ w \notin Unloaders
    BY Roles DEF Callers
  <2>4. WorkerTypes'
    <3>1. CASE GoTo(w, "accrue")
      <4>1. /\ "accrue" \in PacketSteps /\ "accrue" \in TimerSteps
            /\ "accrue" \in IoctlSteps
        BY DEF PacketSteps, TimerSteps, IoctlSteps, ProcessSteps
      <4> QED
        BY <2>1, <2>2, <2>3, <3>1, <4>1, WorkerStep
    <3>2. CASE w = Ioctl /\ GoTo(w, "idle")
      BY <2>1, <2>2, <2>3, <3>2, WorkerStep, Roles DEF IoctlSteps
    <3>3. CASE w # Ioctl /\ GoTo(w, "rearm")
      BY <2>1, <2>2, <2>3, <3>3, WorkerStep, Roles
         DEF PacketSteps, TimerSteps, RearmSteps, AcquireSteps
    <3> QED
      BY <2>1, <3>1, <3>2, <3>3
  <2> QED
    BY <1>6, <2>4, Kept DEF FinishQueue
<1>7. CASE Inject(w)
  <2>1. WorkerTypes'
    BY <1>7, CallerStep DEF Inject, ProcessSteps
  <2>2. PacketTypes'
    BY <1>7 DEF Inject, FateOf, PacketTypes, Fates
  <2> QED
    BY <1>7, <2>1, <2>2, Kept DEF Inject
<1> QED
  BY <1>2, <1>3, <1>4, <1>5, <1>6, <1>7

(* ... by StartPacketTimerIfNecessary and the timer.                        *)
LEMMA TimerStepTypes ==
  ASSUME TypeOK,
         \/ \E w \in Packets \cup Timers :
              TakeLock(w) \/ CheckTimer(w) \/ StartTimer(w)
         \/ \E t \in Timers : TimerFires(t) \/ ResetPending(t)
         \/ Tick
  PROVE  TypeOK'
<1> USE DEF TypeOK, queueVars, listVars, byteVars, clockVars, timerVars,
            ioctlVars, packetVars
<1>1. ASSUME NEW w \in Packets \cup Timers,
             TakeLock(w) \/ CheckTimer(w) \/ StartTimer(w)
      PROVE  TypeOK'
  <2>1. WorkerTypes'
    <3>1. /\ \/ GoTo(w, AtRest(w))
             \/ \E step \in {"one_lock", "two_locks", "start", "bugcheck"} :
                  GoTo(w, step)
          /\ UNCHANGED <<queue, held>>
      BY <1>1 DEF TakeLock, CheckTimer, StartTimer
    <3>2. /\ AtRest(w) # "inject"
          /\ w \in Packets => AtRest(w) \in PacketSteps
          /\ w \in Timers => AtRest(w) \in TimerSteps
      BY Roles DEF AtRest, PacketSteps, TimerSteps
    <3>3. {"one_lock", "two_locks", "start", "bugcheck"}
            \subseteq PacketSteps \cap TimerSteps
      BY DEF PacketSteps, TimerSteps, RearmSteps, AcquireSteps
    <3> QED
      BY <3>1, <3>2, <3>3, WorkerStep, Roles DEF WorkerTypes
  <2>2. TimerTypes'
    <3>1. 0 \in 0..OneMs
      BY OneMsType
    <3> QED
      BY <1>1, <3>1 DEF TakeLock, CheckTimer, StartTimer, Started, TimerTypes
  <2> QED
    BY <1>1, <2>1, <2>2, Kept DEF TakeLock, CheckTimer, StartTimer
<1>2. ASSUME NEW t \in Timers, TimerFires(t) \/ ResetPending(t)
      PROVE  TypeOK'
  <2>1. WorkerTypes'
    <3>1. /\ \/ GoTo(t, "reset") /\ queue' = queue
             \/ GoTo(t, "accrue") /\ queue' = [queue EXCEPT ![t] = "outbound"]
          /\ held' = held
      BY <1>2 DEF TimerFires, ResetPending
    <3>2. queue' \in [Workers -> Directions]
      BY <3>1 DEF WorkerTypes, Directions
    <3> QED
      BY <3>1, <3>2, WorkerStep, Roles DEF TimerSteps, ProcessSteps
  <2>2. TimerTypes'
    BY <1>2 DEF TimerFires, ResetPending, Fired, TimerTypes
  <2> QED
    BY <1>2, <2>1, <2>2, Kept DEF TimerFires, ResetPending
<1>3. CASE Tick
  <2>1. ClockTypes'
    BY <1>3, Constants DEF Tick, Elapse, ClockTypes
  <2>2. TimerTypes'
    BY <1>3, OneMsType DEF Tick, TimerTypes, NotSet
  <2> QED
    BY <1>3, <2>1, <2>2, Kept DEF Tick
<1> QED
  BY <1>1, <1>2, <1>3

(* ... by the control requests.                                             *)
LEMMA ControlStepTypes ==
  ASSUME TypeOK,
         \/ \E s \in Settings : EnableInbound(s)
         \/ EnableOutbound \/ EnableFlag \/ Disable
  PROVE  TypeOK'
<1> USE DEF TypeOK, queueVars, listVars, byteVars, clockVars, timerVars,
            ioctlVars, packetVars
<1>1. ASSUME NEW d \in Directions, NEW s \in [Directions -> Limits],
             NEW elapsed \in 0..MaxElapsed, SetUp(d, s, elapsed)
      PROVE  /\ ByteTypes' /\ ClockTypes'
             /\ limits' \in [Directions -> Limits]
             /\ UNCHANGED <<listVars, timerVars, packetVars, queue, held>>
  <2>1. /\ limits' = [limits EXCEPT ![d] = s[d]]
        /\ queued_bytes' = [queued_bytes EXCEPT ![d] = 0]
        /\ available_bytes' = [available_bytes EXCEPT ![d] = INITIAL_TOKEN_COUNT]
        /\ since' = [since EXCEPT ![d] = elapsed]
        /\ UNCHANGED <<listVars, age, timerVars, packetVars, queue, held>>
    BY <1>1 DEF SetUp
  <2>2. ByteTypes'
    <3>1. 0 \in 0..W-1 /\ INITIAL_TOKEN_COUNT \in 0..W-1
      BY Constants
    <3> QED
      BY <2>1, <3>1 DEF ByteTypes
  <2>3. ClockTypes'
    BY <2>1 DEF ClockTypes
  <2>4. limits' \in [Directions -> Limits]
    BY <2>1 DEF ControlTypes
  <2> QED
    BY <2>1, <2>2, <2>3, <2>4
<1>2. ASSUME NEW step \in IoctlSteps, step # "inject", GoTo(Ioctl, step),
             UNCHANGED held, queue' \in [Workers -> Directions]
      PROVE  WorkerTypes'
  BY <1>2, WorkerStep, Roles
<1>3. queue \in [Workers -> Directions]
  BY DEF WorkerTypes
<1>4. ASSUME NEW s \in Settings, EnableInbound(s) PROVE TypeOK'
  <2>1. s \in [Directions -> Limits]
    BY DataAssumption
  <2>2. 0 \in 0..MaxElapsed /\ "inbound" \in Directions
    BY Constants DEF Directions
  <2>3. /\ SetUp("inbound", s, 0) /\ request' = s /\ requests' = requests + 1
        /\ requests < MaxRequests /\ enabled' = enabled
        /\ GoTo(Ioctl, "enable_out")
    BY <1>4 DEF EnableInbound, MayRequest
  <2>4. /\ ByteTypes' /\ ClockTypes' /\ limits' \in [Directions -> Limits]
        /\ UNCHANGED <<listVars, timerVars, packetVars, queue, held>>
    BY <1>1, <2>1, <2>2, <2>3
  <2>5. ControlTypes'
    BY <2>1, <2>3, <2>4, Constants DEF ControlTypes
  <2>6. WorkerTypes'
    BY <1>2, <1>3, <2>3, <2>4 DEF IoctlSteps
  <2> QED
    BY <2>4, <2>5, <2>6, Kept
<1>5. CASE EnableOutbound
  <2>1. request \in [Directions -> Limits]
    BY DEF ControlTypes
  <2>2. since["inbound"] \in 0..MaxElapsed /\ "outbound" \in Directions
    BY DEF Directions, ClockTypes
  <2>3. /\ SetUp("outbound", request, since["inbound"])
        /\ UNCHANGED ioctlVars /\ GoTo(Ioctl, "enable_flag")
    BY <1>5 DEF EnableOutbound
  <2>4. /\ ByteTypes' /\ ClockTypes' /\ limits' \in [Directions -> Limits]
        /\ UNCHANGED <<listVars, timerVars, packetVars, queue, held>>
    BY <1>1, <2>1, <2>2, <2>3
  <2>5. ControlTypes'
    BY <2>1, <2>3, <2>4 DEF ControlTypes
  <2>6. WorkerTypes'
    BY <1>2, <1>3, <2>3, <2>4 DEF IoctlSteps
  <2> QED
    BY <2>4, <2>5, <2>6, Kept
<1>6. CASE EnableFlag
  <2>1. WorkerTypes'
    BY <1>2, <1>3, <1>6 DEF EnableFlag, IoctlSteps
  <2>2. ControlTypes'
    BY <1>6 DEF EnableFlag, ControlTypes
  <2> QED
    BY <1>6, <2>1, <2>2, Kept DEF EnableFlag
<1>7. CASE Disable
  <2>1. queue' \in [Workers -> Directions]
    BY <1>3, <1>7 DEF Disable, DisableFirst, Directions
  <2>2. WorkerTypes'
    BY <1>2, <1>7, <2>1 DEF Disable, IoctlSteps, ProcessSteps
  <2>3. ControlTypes'
    <3>1. /\ enabled' = FALSE /\ requests' = requests + 1
          /\ requests < MaxRequests /\ UNCHANGED <<limits, request>>
      BY <1>7 DEF Disable, MayRequest
    <3>2. requests' \in 0..MaxRequests
      BY <3>1, Constants DEF ControlTypes
    <3> QED
      BY <3>1, <3>2 DEF ControlTypes
  <2> QED
    BY <1>7, <2>2, <2>3, Kept DEF Disable
<1> QED
  BY <1>4, <1>5, <1>6, <1>7

(* ... and by the unload routine.                                           *)
LEMMA UnloadTypes ==
  ASSUME TypeOK, NEW u \in Unloaders,
         \/ BeginUnload(u) \/ DropInbound(u) \/ DropOutbound(u) \/ StopTimer(u)
  PROVE  TypeOK'
<1> USE DEF TypeOK, queueVars, listVars, byteVars, clockVars, timerVars,
            ioctlVars, packetVars
<1>1. WorkerTypes'
  <2>1. /\ \E step \in {"drop_in", "drop_out", "stop", "done"} : GoTo(u, step)
        /\ UNCHANGED <<queue, held>>
    BY DEF BeginUnload, DropInbound, DropOutbound, StopTimer, DropQueue
  <2> QED
    BY <2>1, WorkerStep, Roles DEF WorkerTypes, UnloadSteps
<1>2. CASE BeginUnload(u)
  BY <1>1, <1>2, Kept DEF BeginUnload
<1>3. ASSUME NEW d \in Directions, DropQueue(d) PROVE TypeOK'
  <2>1. ListTypes'
    BY <1>3 DEF DropQueue, ListTypes
  <2>2. PacketTypes'
    BY <1>3 DEF DropQueue, PacketTypes, Fates
  <2> QED
    BY <1>1, <1>3, <2>1, <2>2, Kept DEF DropQueue
<1>4. CASE DropInbound(u) \/ DropOutbound(u)
  BY <1>3, <1>4 DEF DropInbound, DropOutbound, Directions
<1>5. CASE StopTimer(u)
  <2>1. TimerTypes'
    BY <1>5 DEF StopTimer, TimerTypes
  <2> QED
    BY <1>1, <1>5, <2>1, Kept DEF StopTimer
<1> QED
  BY <1>2, <1>4, <1>5

LEMMA InitTypes == Init => TypeOK
<1> SUFFICES ASSUME Init PROVE TypeOK
  OBVIOUS
<1> USE DEF Init
<1>1. ListTypes /\ ByteTypes /\ ClockTypes /\ TimerTypes
  <2>1. ListTypes
    BY DEF ListTypes
  <2>2. 0 \in 0..W-1 /\ 0 \in 0..MaxElapsed /\ MaxElapsed \in 0..MaxElapsed
    BY Constants
  <2>3. ByteTypes
    BY <2>2 DEF ByteTypes
  <2>4. ClockTypes
    BY <2>2 DEF ClockTypes
  <2>5. TimerTypes
    BY DEF TimerTypes
  <2> QED
    BY <2>1, <2>3, <2>4, <2>5
<1>2. WorkerTypes
  BY Roles, Constants DEF WorkerTypes, Workers, Directions, Steps, PacketSteps,
     TimerSteps, IoctlSteps, UnloadSteps
<1>3. NoLimits \in Limits
  BY DEF NoLimits, Limits
<1>4. ControlTypes /\ PacketTypes
  <2>1. 0 \in 0..MaxRequests
    BY Constants
  <2>2. ControlTypes
    BY <1>3, <2>1 DEF ControlTypes
  <2>3. PacketTypes
    BY DEF PacketTypes, Fates
  <2> QED
    BY <2>2, <2>3
<1> QED
  BY <1>1, <1>2, <1>4 DEF TypeOK

LEMMA TypeStep == TypeOK /\ [Next]_vars => TypeOK'
<1> SUFFICES ASSUME TypeOK, [Next]_vars PROVE TypeOK'
  OBVIOUS
<1>1. CASE UNCHANGED vars
  BY <1>1, Kept DEF TypeOK, vars, queueVars, listVars, byteVars, clockVars,
     timerVars, ioctlVars, packetVars
<1> QED
  BY <1>1, StepCases, ClassifyTypes, ProcessTypes, TimerStepTypes,
     ControlStepTypes, UnloadTypes

(* In every reachable state every variable has its type: the byte counters  *)
(* stay in their word however often they underflow, every worker is at a    *)
(* step of its own routine, and InjectPacket is given a packet.             *)
THEOREM TypeCorrect == Spec => []TypeOK
  BY InitTypes, TypeStep, PTL DEF Spec

----------------------------------------------------------------------------
(* No packet is left behind without a wake-up.  TimerToken and NoLostWakeup *)
(* are inductive together with what timer_spinlock gives: one worker at a   *)
(* time is between taking it and starting the timer, and timer_pending is   *)
(* still clear when it is about to.                                         *)
InTimerLock == {"one_lock", "two_locks", "start"}

TimerLock ==
  /\ \A v, w \in Workers :
       pc[v] \in InTimerLock /\ pc[w] \in InTimerLock => v = w
  /\ (\E w \in Workers : pc[w] = "start") => ~timer_pending

WakeUpInv == TypeOK /\ TimerLock /\ TimerToken /\ NoLostWakeup

(* A step of worker v, from a step to another, that leaves the timer alone. *)
QuietStep(v, step) ==
  /\ v \in Workers
  /\ GoTo(v, step)
  /\ UNCHANGED timerVars

(* Nobody is there while the lock is free.                                  *)
LEMMA TimerLockFree ==
  ASSUME LockFree(timer_spinlock)
  PROVE  \A w \in Workers : pc[w] \notin InTimerLock
<1>1. \A w \in Workers : pc[w] \in InTimerLock =>
        1 \in 1..LocksTaken(w) /\ LockOrder(w)[1] = timer_spinlock
  BY DEF InTimerLock, LocksTaken, LockOrder
<1> QED
  BY <1>1 DEF LockFree, Holds

(* The steps that matter to the timer are TakeLock, CheckTimer, StartTimer, *)
(* TimerFires, ResetPending, Tick and StopTimer; the others neither begin   *)
(* nor end with timer_spinlock, or at "reset".                              *)
LEMMA QuietCases ==
  ASSUME TypeOK, [Next]_vars
  PROVE  \/ \E v \in Workers, step \in Steps :
              /\ QuietStep(v, step)
              /\ {pc[v], step} \cap (InTimerLock \cup {"reset"}) = {}
         \/ UNCHANGED <<pc, timerVars>>
         \/ \E w \in Packets \cup Timers :
              TakeLock(w) \/ CheckTimer(w) \/ StartTimer(w)
         \/ \E t \in Timers : TimerFires(t) \/ ResetPending(t)
         \/ \E u \in Unloaders : StopTimer(u)
         \/ Tick
<1> USE DEF QuietStep, Steps, PacketSteps, TimerSteps, IoctlSteps, UnloadSteps,
            ProcessSteps, RearmSteps, AcquireSteps, InTimerLock, queueVars,
            ioctlVars, packetVars
<1>1. ASSUME NEW p \in Packets, \/ LossCheck(p) \/ BufferCheck(p) \/ Clone(p)
                                \/ Insert(p) \/ CountPermitted(p)
      PROVE  \E v \in Workers, step \in Steps :
               /\ QuietStep(v, step)
               /\ {pc[v], step} \cap (InTimerLock \cup {"reset"}) = {}
  <2>1. \E step \in {"done", "screened", "roomy", "insert", "count", "accrue"} :
          GoTo(p, step)
    BY <1>1 DEF LossCheck, BufferCheck, AbsorbPacket, Clone, Insert,
       CountPermitted
  <2>2. /\ pc[p] \in {"new", "screened", "roomy", "insert", "count"}
        /\ UNCHANGED timerVars
    BY <1>1 DEF LossCheck, BufferCheck, Clone, Insert, CountPermitted
  <2> QED
    BY <2>1, <2>2, Roles
<1>2. ASSUME NEW w \in Callers, \/ Accrue(w) \/ StopMoving(w)
                                \/ ReleaseHead(w) \/ FinishQueue(w) \/ Inject(w)
      PROVE  \E v \in Workers, step \in Steps :
               /\ QuietStep(v, step)
               /\ {pc[v], step} \cap (InTimerLock \cup {"reset"}) = {}
  <2>1. \E step \in {"move", "latency", "inject", "accrue", "idle", "rearm"} :
          GoTo(w, step)
    BY <1>2 DEF Accrue, StopMoving, ReleaseHead, FinishQueue, Inject
  <2>2. pc[w] \in ProcessSteps /\ UNCHANGED timerVars
    BY <1>2 DEF Accrue, StopMoving, ReleaseHead, FinishQueue, Inject
  <2> QED
    BY <2>1, <2>2, CallerFacts
<1>3. ASSUME NEW w \in Callers, MoveHead(w) PROVE UNCHANGED <<pc, timerVars>>
  BY <1>3 DEF MoveHead
<1>4. ASSUME \/ \E s \in Settings : EnableInbound(s)
             \/ EnableOutbound \/ EnableFlag \/ Disable
      PROVE  \E v \in Workers, step \in Steps :
               /\ QuietStep(v, step)
               /\ {pc[v], step} \cap (InTimerLock \cup {"reset"}) = {}
  <2>1. \E step \in {"enable_out", "enable_flag", "idle", "accrue"} :
          GoTo(Ioctl, step)
    BY <1>4 DEF EnableInbound, EnableOutbound, EnableFlag, Disable
  <2>2. /\ pc[Ioctl] \in {"idle", "enable_out", "enable_flag"}
        /\ UNCHANGED timerVars
    BY <1>4 DEF EnableInbound, EnableOutbound, EnableFlag, Disable, MayRequest,
       SetUp
  <2> QED
    BY <2>1, <2>2, Roles
<1>5. ASSUME NEW u \in Unloaders,
             BeginUnload(u) \/ DropInbound(u) \/ DropOutbound(u)
      PROVE  \E v \in Workers, step \in Steps :
               /\ QuietStep(v, step)
               /\ {pc[v], step} \cap (InTimerLock \cup {"reset"}) = {}
  <2>1. \E step \in {"drop_in", "drop_out", "stop"} : GoTo(u, step)
    BY <1>5 DEF BeginUnload, DropInbound, DropOutbound
  <2>2. /\ pc[u] \in {"idle", "drop_in", "drop_out"}
        /\ UNCHANGED timerVars
    BY <1>5 DEF BeginUnload, DropInbound, DropOutbound, DropQueue
  <2> QED
    BY <2>1, <2>2, Roles
<1>6. ASSUME NEW p \in Packets, InjectionComplete(p)
      PROVE  UNCHANGED <<pc, timerVars>>
  BY <1>6 DEF InjectionComplete
<1>7. CASE UNCHANGED vars
  BY <1>7 DEF vars
<1> QED
  BY <1>1, <1>2, <1>3, <1>4, <1>5, <1>6, <1>7, StepCases

(* The spin lock and the token are kept by every step.                      *)
LEMMA TokenStep ==
  TypeOK /\ TimerLock /\ TimerToken /\ [Next]_vars => TimerLock' /\ TimerToken'
<1> SUFFICES ASSUME TypeOK, TimerLock, TimerToken, [Next]_vars
             PROVE  TimerLock' /\ TimerToken'
  OBVIOUS
<1> USE DEF TimerLock, TimerToken, timerVars
<1>a. pc \in [Workers -> Steps] /\ timer \in {NotSet} \cup 0..OneMs
      /\ timer_pending \in BOOLEAN /\ timer_handle \in BOOLEAN
  BY DEF TypeOK, WorkerTypes, TimerTypes
<1>1. ASSUME NEW v \in Workers, NEW step \in Steps, QuietStep(v, step),
             {pc[v], step} \cap (InTimerLock \cup {"reset"}) = {}
      PROVE  TimerLock' /\ TimerToken'
  <2>1. \A w \in Workers : /\ pc'[w] \in InTimerLock <=> pc[w] \in InTimerLock
                           /\ pc'[w] = "start" <=> pc[w] = "start"
                           /\ pc'[w] = "reset" <=> pc[w] = "reset"
    BY <1>a, <1>1 DEF QuietStep, GoTo, InTimerLock
  <2>2. UNCHANGED timerVars
    BY <1>1 DEF QuietStep
  <2> QED
    BY <2>1, <2>2, Roles
<1>2. CASE UNCHANGED <<pc, timerVars>>
  BY <1>2
<1>3. ASSUME NEW w \in Packets \cup Timers, CheckTimer(w)
      PROVE  TimerLock' /\ TimerToken'
  <2>1. pc[w] = "two_locks" /\ w \in Workers /\ UNCHANGED timerVars
    BY <1>3, Roles DEF CheckTimer
  <2>2. \/ GoTo(w, "start") /\ ~timer_pending
        \/ GoTo(w, AtRest(w))
    BY <1>3 DEF CheckTimer, NeedsTimer
  <2>3. AtRest(w) \notin InTimerLock \cup {"reset"}
    BY DEF AtRest, InTimerLock
  <2>4. \A v \in Workers \ {w} : pc'[v] = pc[v] /\ pc[v] \notin InTimerLock
    <3>1. \A v \in Workers \ {w} : pc'[v] = pc[v]
      BY <1>a, <2>2 DEF GoTo
    <3>2. pc[w] \in InTimerLock
      BY <2>1 DEF InTimerLock
    <3> QED
      BY <2>1, <3>1, <3>2
  <2>5. pc'[w] # "reset" /\ (pc'[w] = "start" => ~timer_pending)
    BY <1>a, <2>1, <2>2, <2>3 DEF GoTo, InTimerLock
  <2>6. TimerLock'
    BY <2>1, <2>4, <2>5 DEF InTimerLock
  <2> QED
    BY <2>1, <2>4, <2>5, <2>6, Roles
<1>9. ASSUME NEW w \in Packets \cup Timers, TakeLock(w)
      PROVE  TimerLock' /\ TimerToken'
  <2>1. /\ w \in Workers /\ pc[w] \notin {"start", "reset"}
        /\ GoTo(w, "one_lock") \/ GoTo(w, "two_locks")
        /\ UNCHANGED timerVars
    BY <1>9, Roles DEF TakeLock
  <2>2. \A v \in Workers \ {w} : pc'[v] = pc[v]
    BY <1>a, <2>1 DEF GoTo
  <2>3. pc'[w] \notin {"start", "reset"}
    BY <1>a, <2>1 DEF GoTo
  <2>4. \A v \in Workers \ {w} : pc[v] \notin InTimerLock
    <3>1. CASE pc[w] = "one_lock"
      BY <2>1, <3>1 DEF InTimerLock
    <3>2. CASE pc[w] = "rearm"
      <4>1. NextLock(w) = timer_spinlock
        BY <3>2 DEF NextLock, LocksTaken, LockOrder
      <4> QED
        BY <1>9, <4>1, TimerLockFree DEF TakeLock
    <3> QED
      BY <1>9, <3>1, <3>2 DEF TakeLock
  <2>5. TimerLock'
    BY <2>1, <2>2, <2>3, <2>4 DEF InTimerLock
  <2> QED
    BY <2>1, <2>2, <2>3, <2>5, Roles
<1>4. ASSUME NEW w \in Packets \cup Timers, StartTimer(w)
      PROVE  TimerLock' /\ TimerToken'
  <2>1. /\ pc[w] = "start" /\ timer_pending' /\ timer_handle' = timer_handle
        /\ \/ timer' = 0 /\ GoTo(w, AtRest(w))
           \/ ~timer_handle /\ GoTo(w, "bugcheck")
    BY <1>4 DEF StartTimer, Started
  <2>2. AtRest(w) \notin InTimerLock \cup {"reset"} /\ w \in Workers
    BY Roles DEF AtRest, InTimerLock
  <2>3. \A v \in Workers : /\ pc'[v] \notin InTimerLock
                           /\ pc'[v] = "reset" => pc[v] = "reset"
    BY <1>a, <2>1, <2>2 DEF GoTo, InTimerLock
  <2>4. ~timer_pending
    BY <2>1, <2>2
  <2>5. timer_handle => timer' # NotSet /\ \A t \in Timers : pc'[t] # "reset"
    BY <2>1, <2>3, <2>4, Roles DEF NotSet
  <2> QED
    BY <2>1, <2>3, <2>5 DEF InTimerLock
<1>5. ASSUME NEW t \in Timers, TimerFires(t)
      PROVE  TimerLock' /\ TimerToken'
  <2>1. /\ pc[t] = "idle" /\ timer # NotSet /\ timer' = NotSet
        /\ GoTo(t, "reset")
        /\ UNCHANGED <<timer_pending, timer_handle>>
    BY <1>5, OneMsType DEF TimerFires, NotSet
  <2>2. \A v \in Workers : /\ pc'[v] \in InTimerLock <=> pc[v] \in InTimerLock
                           /\ pc'[v] = "start" <=> pc[v] = "start"
                           /\ pc'[v] = "reset" <=> (v = t \/ pc[v] = "reset")
    BY <1>a, <2>1, Roles DEF GoTo, InTimerLock
  <2> QED
    BY <2>1, <2>2, Roles
<1>6. ASSUME NEW t \in Timers, ResetPending(t)
      PROVE  TimerLock' /\ TimerToken'
  <2>1. /\ pc[t] = "reset" /\ timer_pending' = FALSE
        /\ GoTo(t, "accrue")
        /\ UNCHANGED <<timer, timer_handle>>
    BY <1>6 DEF ResetPending, Fired
  <2>2. \A v \in Workers : /\ pc'[v] \in InTimerLock <=> pc[v] \in InTimerLock
                           /\ pc'[v] = "start" <=> pc[v] = "start"
                           /\ pc'[v] = "reset" <=> (v # t /\ pc[v] = "reset")
    BY <1>a, <2>1, Roles DEF GoTo, InTimerLock
  <2>3. timer_handle => timer = NotSet /\ \A v \in Timers : pc'[v] # "reset"
    BY <2>1, <2>2, Roles
  <2> QED
    BY <2>1, <2>2, <2>3
<1>7. ASSUME NEW u \in Unloaders, StopTimer(u)
      PROVE  TimerLock' /\ TimerToken'
  <2>1. /\ pc[u] = "stop" /\ GoTo(u, "done")
        /\ timer_handle' = FALSE /\ timer_pending' = FALSE
    BY <1>7 DEF StopTimer
  <2>2. \A v \in Workers : /\ pc'[v] \in InTimerLock <=> pc[v] \in InTimerLock
                           /\ pc'[v] = "start" <=> pc[v] = "start"
    BY <1>a, <2>1 DEF GoTo, InTimerLock
  <2> QED
    BY <2>1, <2>2
<1>8. CASE Tick
  <2>1. UNCHANGED <<pc, timer_pending, timer_handle>>
    BY <1>8 DEF Tick
  <2>2. timer' # NotSet <=> timer # NotSet
    BY <1>a, <1>8, OneMsType DEF Tick, NotSet
  <2> QED
    BY <2>1, <2>2
<1> QED
  BY <1>1, <1>2, <1>3, <1>4, <1>5, <1>6, <1>7, <1>8, <1>9,
     QuietCases

(* What a step may do without losing a wake-up: fill no list, leave the     *)
(* timer to itself, and end no call that was still to look at the lists.    *)
LEMMA WakeUpKept ==
  ASSUME NoLostWakeup, UNCHANGED <<timer_pending, timer_handle>>,
         \A d \in Directions : Pending(d)' => Pending(d),
         \A w \in Packets \cup Timers : WillRearm(w) => WillRearm(w)'
  PROVE  NoLostWakeup'
  BY DEF NoLostWakeup

(* A worker that still has to look at the lists is wake-up enough.          *)
LEMMA WakeUpCall ==
  ASSUME NEW w \in Packets \cup Timers, WillRearm(w)'
  PROVE  NoLostWakeup'
  BY DEF NoLostWakeup

(* A worker at no such step goes on; the lists lose packets if anything.    *)
LEMMA WakeUpOther ==
  ASSUME TypeOK, NoLostWakeup, UNCHANGED <<timer_pending, timer_handle>>,
         NEW v \in Workers, NEW step, GoTo(v, step),
         v \in Packets \cup Timers => ~WillRearm(v),
         \A d \in Directions : Pending(d)' => Pending(d)
  PROVE  NoLostWakeup'
<1>1. \A w \in Workers \ {v} : pc'[w] = pc[w]
  BY DEF GoTo, TypeOK, WorkerTypes
<1>2. \A w \in Packets \cup Timers : w \in Workers
  BY Roles
<1>3. \A w \in Packets \cup Timers : WillRearm(w) => WillRearm(w)'
  BY <1>1, <1>2 DEF WillRearm
<1> QED
  BY <1>3, WakeUpKept

(* No step loses a wake-up.  A packet is put in a list by a call that has   *)
(* StartPacketTimerIfNecessary ahead of it, and that call ends only once    *)
(* the timer is pending or the lists are empty.                             *)
LEMMA WakeUpStep ==
  ASSUME TypeOK, TimerLock, NoLostWakeup, [Next]_vars
  PROVE  NoLostWakeup'
<1> USE DEF queueVars, listVars, timerVars, ioctlVars, packetVars
<1>a. pc \in [Workers -> Steps]
  BY DEF TypeOK, WorkerTypes
<1>1. ASSUME NEW p \in Packets, \/ LossCheck(p) \/ BufferCheck(p) \/ Clone(p)
                                \/ CountPermitted(p)
      PROVE  NoLostWakeup'
  <2>1. /\ \E step \in Steps : GoTo(p, step)
        /\ UNCHANGED <<listVars, timer_pending, timer_handle>>
    BY <1>1 DEF LossCheck, BufferCheck, AbsorbPacket, Clone, CountPermitted,
       Steps, PacketSteps
  <2>2. ~WillRearm(p)
    BY <1>1 DEF LossCheck, BufferCheck, Clone, CountPermitted, WillRearm,
       ProcessSteps, AcquireSteps
  <2> QED
    BY <2>1, <2>2, WakeUpOther, Roles DEF Pending
<1>2. ASSUME NEW p \in Packets, Insert(p) PROVE NoLostWakeup'
  <2>1. WillRearm(p)'
    BY <1>a, <1>2, Roles DEF Insert, GoTo, WillRearm, ProcessSteps,
       AcquireSteps
  <2> QED
    BY <2>1, WakeUpCall
<1>3. ASSUME NEW w \in Packets \cup Timers,
             \/ Accrue(w) \/ MoveHead(w) \/ StopMoving(w)
             \/ ReleaseHead(w) \/ FinishQueue(w) \/ Inject(w)
      PROVE  NoLostWakeup'
  <2>1. w \in Workers /\ w # Ioctl
    BY Roles
  <2>2. \/ \E step \in ProcessSteps \cup {"rearm"} : GoTo(w, step)
        \/ pc[w] = "move" /\ pc' = pc
    BY <1>3, <2>1 DEF Accrue, MoveHead, StopMoving, ReleaseHead, FinishQueue,
       Inject, ProcessSteps
  <2>3. pc'[w] \in ProcessSteps \cup {"rearm"}
    BY <1>a, <2>1, <2>2 DEF GoTo, ProcessSteps
  <2> QED
    BY <2>3, WakeUpCall DEF WillRearm, AcquireSteps
<1>4. ASSUME \/ Accrue(Ioctl) \/ MoveHead(Ioctl) \/ StopMoving(Ioctl)
             \/ ReleaseHead(Ioctl) \/ FinishQueue(Ioctl) \/ Inject(Ioctl)
      PROVE  NoLostWakeup'
  <2>1. PICK d \in Directions : d = queue[Ioctl]
    BY CallerFacts, Roles
  <2>2. /\ bandwidth \in [Directions -> Seq(Packets)]
        /\ latencyq \in [Directions -> Seq(Packets)]
    BY DEF TypeOK, ListTypes
  <2>3. \A e \in Directions : Pending(e)' => Pending(e)
    <3>1. CASE MoveHead(Ioctl)
      <4>1. /\ bandwidth[d] # <<>>
            /\ \A e \in Directions \ {d} : /\ bandwidth'[e] = bandwidth[e]
                                            /\ latencyq'[e] = latencyq[e]
        BY <2>1, <2>2, <3>1 DEF MoveHead, MayPass
      <4> QED
        BY <4>1 DEF Pending
    <3>2. CASE ReleaseHead(Ioctl)
      <4>1. /\ latencyq[d] # <<>>
            /\ \A e \in Directions \ {d} : latencyq'[e] = latencyq[e]
            /\ bandwidth' = bandwidth
        BY <2>1, <2>2, <3>2 DEF ReleaseHead, Due
      <4> QED
        BY <4>1 DEF Pending
    <3>3. CASE StopMoving(Ioctl)
      BY <2>2, <3>3 DEF StopMoving, PutBack, Pending
    <3>4. CASE Accrue(Ioctl) \/ FinishQueue(Ioctl) \/ Inject(Ioctl)
      BY <3>4 DEF Accrue, FinishQueue, Inject, Pending
    <3> QED
      BY <1>4, <3>1, <3>2, <3>3, <3>4
  <2>4. UNCHANGED <<timer_pending, timer_handle>>
    BY <1>4 DEF Accrue, MoveHead, StopMoving, ReleaseHead, FinishQueue, Inject
  <2>5. pc' = pc \/ \E step : GoTo(Ioctl, step)
    BY <1>4 DEF Accrue, MoveHead, StopMoving, ReleaseHead, FinishQueue, Inject
  <2>6. \A w \in Packets \cup Timers : w \in Workers \ {Ioctl}
    BY Roles
  <2>7. \A w \in Packets \cup Timers : WillRearm(w) => WillRearm(w)'
    BY <1>a, <2>5, <2>6 DEF GoTo, WillRearm
  <2> QED
    BY <2>3, <2>4, <2>7, WakeUpKept
<1>5. ASSUME NEW w \in Packets \cup Timers, CheckTimer(w) PROVE NoLostWakeup'
  <2>1. w \in Workers
    BY Roles
  <2>2. UNCHANGED <<listVars, timer_pending, timer_handle>>
    BY <1>5 DEF CheckTimer
  <2>3. CASE NeedsTimer
    <3>1. pc'[w] = "start"
      BY <1>a, <1>5, <2>1, <2>3 DEF CheckTimer, GoTo
    <3> QED
      BY <3>1, WakeUpCall DEF WillRearm
  <2>4. CASE ~NeedsTimer
    BY <2>2, <2>4 DEF NeedsTimer, NoLostWakeup, Pending
  <2> QED
    BY <2>3, <2>4
<1>12. ASSUME NEW w \in Packets \cup Timers, TakeLock(w) PROVE NoLostWakeup'
  <2>1. pc'[w] \in AcquireSteps
    BY <1>a, <1>12, Roles DEF TakeLock, GoTo, AcquireSteps
  <2> QED
    BY <2>1, WakeUpCall DEF WillRearm
<1>6. ASSUME NEW w \in Packets \cup Timers, StartTimer(w) PROVE NoLostWakeup'
  BY <1>6 DEF StartTimer, Started, NoLostWakeup
<1>7. ASSUME NEW t \in Timers, ResetPending(t) PROVE NoLostWakeup'
  <2>1. WillRearm(t)'
    BY <1>a, <1>7, Roles DEF ResetPending, GoTo, WillRearm, ProcessSteps,
       AcquireSteps
  <2> QED
    BY <2>1, WakeUpCall
<1>8. ASSUME NEW t \in Timers, TimerFires(t) PROVE NoLostWakeup'
  <2>1. /\ GoTo(t, "reset")
        /\ UNCHANGED <<listVars, timer_pending, timer_handle>>
    BY <1>8 DEF TimerFires
  <2>2. ~WillRearm(t)
    BY <1>8 DEF TimerFires, WillRearm, ProcessSteps,
       AcquireSteps
  <2> QED
    BY <2>1, <2>2, WakeUpOther, Roles DEF Pending
<1>9. ASSUME \/ \E s \in Settings : EnableInbound(s)
             \/ EnableOutbound \/ EnableFlag \/ Disable
      PROVE  NoLostWakeup'
  <2>1. /\ \E step : GoTo(Ioctl, step)
        /\ UNCHANGED <<listVars, timer_pending, timer_handle>>
    BY <1>9 DEF EnableInbound, EnableOutbound, EnableFlag, Disable, SetUp
  <2> QED
    BY <2>1, WakeUpOther, Roles DEF Pending
<1>10. ASSUME NEW u \in Unloaders, \/ BeginUnload(u) \/ DropInbound(u)
                                   \/ DropOutbound(u) \/ StopTimer(u)
       PROVE  NoLostWakeup'
  <2>1. CASE StopTimer(u)
    BY <2>1 DEF StopTimer, NoLostWakeup
  <2>2. CASE BeginUnload(u)
    <3>1. /\ GoTo(u, "drop_in")
          /\ UNCHANGED <<listVars, timer_pending, timer_handle>>
      BY <2>2 DEF BeginUnload
    <3> QED
      BY <3>1, WakeUpOther, Roles DEF Pending
  <2>3. ASSUME NEW d \in Directions, DropQueue(d), NEW step, GoTo(u, step)
        PROVE  NoLostWakeup'
    <3>1. /\ bandwidth' = [bandwidth EXCEPT ![d] = <<>>]
          /\ latencyq' = [latencyq EXCEPT ![d] = <<>>]
          /\ UNCHANGED <<timer_pending, timer_handle>>
      BY <2>3 DEF DropQueue
    <3>2. \A e \in Directions : Pending(e)' => Pending(e)
      BY <3>1 DEF Pending, TypeOK, ListTypes
    <3> QED
      BY <2>3, <3>1, <3>2, WakeUpOther, Roles
  <2> QED
    BY <1>10, <2>1, <2>2, <2>3 DEF DropInbound, DropOutbound, Directions
<1>11. CASE UNCHANGED vars \/ Tick \/ \E p \in Packets : InjectionComplete(p)
  <2>1. UNCHANGED <<listVars, timer_pending, timer_handle, pc>>
    BY <1>11 DEF vars, Tick, InjectionComplete
  <2> QED
    BY <2>1, WakeUpKept DEF Pending, WillRearm
<1> QED
  BY <1>1, <1>2, <1>3, <1>4, <1>5, <1>6, <1>7, <1>8, <1>9, <1>10, <1>11,
     <1>12, StepCases DEF Callers

LEMMA WakeUpInit == Init => WakeUpInv
<1> SUFFICES ASSUME Init PROVE WakeUpInv
  OBVIOUS
<1>1. TypeOK
  BY InitTypes
<1>2. \A w \in Workers : pc[w] \in {"new", "idle"}
  BY DEF Init
<1>3. TimerLock /\ TimerToken
  BY <1>2, Roles DEF Init, TimerLock, InTimerLock, TimerToken
<1>4. NoLostWakeup
  BY DEF Init, NoLostWakeup, Pending
<1> QED
  BY <1>1, <1>3, <1>4 DEF WakeUpInv

LEMMA WakeUpNext == WakeUpInv /\ [Next]_vars => WakeUpInv'
  BY TypeStep, TokenStep, WakeUpStep DEF WakeUpInv

(* However many timer DPCs overlap, timer_pending is set exactly when the   *)
(* timer runs or one TimerEvt has yet to clear it.                          *)
THEOREM TimerTokenCorrect == Spec => []TimerToken
<1>1. WakeUpInv => TimerToken
  BY DEF WakeUpInv
<1> QED
  BY <1>1, WakeUpInit, WakeUpNext, PTL DEF Spec

(* However classify calls, timer DPCs, IOCTLs and the unload routine        *)
(* interleave, a packet in a list has a wake-up coming.                     *)
THEOREM NoLostWakeupCorrect == Spec => []NoLostWakeup
<1>1. WakeUpInv => NoLostWakeup
  BY DEF WakeUpInv
<1> QED
  BY <1>1, WakeUpInit, WakeUpNext, PTL DEF Spec

(* However many classify calls and timer DPCs take the three spin locks at  *)
(* once, no set of them waits for itself: only one is past timer_spinlock,  *)
(* and whoever has a queue's lock without it waits for nothing.             *)
THEOREM NoCircularWaitCorrect == Spec => []NoCircularWait
<1>1. WakeUpInv => NoCircularWait
  <2> SUFFICES ASSUME WakeUpInv,
                      NEW S \in SUBSET Waiting, NEW v \in S, NEW w \in S,
                      WaitsFor(v, w)
               PROVE  FALSE
    BY DEF NoCircularWait
  <2>1. v = w
    BY DEF WakeUpInv, TimerLock, InTimerLock, Waiting
  <2>2. /\ LocksTaken(v) \in {1, 2} /\ pc[v] # "move"
        /\ NextLock(v) = LockOrder(v)[LocksTaken(v) + 1]
    BY DEF Waiting, LocksTaken, NextLock
  <2>3. PICK k \in 1..LocksTaken(v) : LockOrder(v)[k] = NextLock(v)
    BY <2>1, <2>2 DEF WaitsFor, Holds
  <2>4. k \in {1, 2} /\ k < LocksTaken(v) + 1
    BY <2>2
  <2> QED
    BY <2>2, <2>3, <2>4 DEF LockOrder, timer_spinlock
<1> QED
  BY <1>1, WakeUpInit, WakeUpNext, PTL DEF Spec

----------------------------------------------------------------------------
(* With shaping off nothing waits for the timer.  ShapingOffDrains is       *)
(* inductive together with the fact that a classify call only ever works on *)
(* the queue of its own direction.                                          *)
OwnQueue == \A p \in Packets : queue[p] = Dir[p]

DrainInv == TypeOK /\ OwnQueue /\ ShapingOffDrains

(* A step of v, after which v itself still serves the lists that it served  *)
(* before, as far as they are not empty, and those it has put packets in.   *)
DrainsOn(v) ==
  \A d \in Directions :
    /\ bandwidth'[d] # <<>> =>
         /\ WillProcess(v, d) => WillProcess(v, d)'
         /\ bandwidth[d] = <<>> => WillProcess(v, d)'
    /\ latencyq'[d] # <<>> =>
         /\ WillRelease(v, d) => WillRelease(v, d)'
         /\ latencyq[d] = <<>> => WillRelease(v, d)'

LEMMA DrainKept ==
  ASSUME ShapingOffDrains, enabled' = enabled, NEW v \in Workers, DrainsOn(v),
         \A w \in Workers \ {v} : pc'[w] = pc[w] /\ queue'[w] = queue[w]
  PROVE  ShapingOffDrains'
<1> SUFFICES ASSUME ~enabled', NEW d \in Directions
             PROVE  /\ bandwidth'[d] # <<>> =>
                         \E w \in Workers : WillProcess(w, d)'
                    /\ latencyq'[d] # <<>> =>
                         \E w \in Workers : WillRelease(w, d)'
  BY DEF ShapingOffDrains
<1>1. \A w \in Workers \ {v} : /\ WillProcess(w, d) => WillProcess(w, d)'
                               /\ WillRelease(w, d) => WillRelease(w, d)'
  BY DEF WillProcess, WillRelease
<1>2. /\ bandwidth[d] # <<>> => \E w \in Workers : WillProcess(w, d)
      /\ latencyq[d] # <<>> => \E w \in Workers : WillRelease(w, d)
  BY DEF ShapingOffDrains
<1> QED
  BY <1>1, <1>2 DEF DrainsOn

(* A step at which v serves no list, before it, and fills none.             *)
LEMMA DrainOther ==
  ASSUME TypeOK, ShapingOffDrains, enabled' = enabled, NEW v \in Workers,
         pc[v] \notin ProcessSteps \cup {"reset"},
         \/ UNCHANGED pc
         \/ \E step : GoTo(v, step),
         UNCHANGED queue,
         \A d \in Directions : /\ bandwidth'[d] \in {bandwidth[d], <<>>}
                               /\ latencyq'[d] \in {latencyq[d], <<>>}
  PROVE  ShapingOffDrains'
<1>1. \A d \in Directions : ~WillProcess(v, d) /\ ~WillRelease(v, d)
  BY DEF WillProcess, WillRelease, ProcessSteps
<1>2. DrainsOn(v)
  BY <1>1 DEF DrainsOn
<1>3. \A w \in Workers \ {v} : pc'[w] = pc[w] /\ queue'[w] = queue[w]
  BY DEF GoTo, TypeOK, WorkerTypes
<1> QED
  BY <1>2, <1>3, DrainKept

(* ProcessQueue's steps.  The loop over the bandwidth queue ends, with      *)
(* shaping off, only when that list is empty, the other one likewise, and   *)
(* a caller that has both queues to serve goes on to the inbound one.       *)
LEMMA DrainProcess ==
  ASSUME TypeOK, ShapingOffDrains, NEW w \in Callers,
         \/ Accrue(w) \/ MoveHead(w) \/ StopMoving(w)
         \/ ReleaseHead(w) \/ FinishQueue(w) \/ Inject(w)
  PROVE  ShapingOffDrains'
<1> USE DEF queueVars, listVars, ioctlVars
<1>a. /\ pc \in [Workers -> Steps] /\ queue \in [Workers -> Directions]
      /\ bandwidth \in [Directions -> Seq(Packets)]
      /\ latencyq \in [Directions -> Seq(Packets)]
  BY DEF TypeOK, WorkerTypes, ListTypes
<1>b. w \in Workers
  BY CallerFacts
<1>c. PICK d \in Directions : d = queue[w]
  BY CallerFacts
<1>d. SUFFICES ASSUME ~enabled PROVE ShapingOffDrains'
  <2>1. enabled' = enabled
    BY DEF Accrue, MoveHead, StopMoving, ReleaseHead, FinishQueue, Inject
  <2> QED
    BY <1>d, <2>1 DEF ShapingOffDrains
<1> USE DEF DrainsOn, WillProcess, WillRelease, ProcessSteps, GoTo
<1>1. CASE Accrue(w) \/ Inject(w)
  <2>1. /\ UNCHANGED <<enabled, bandwidth, latencyq, queue>>
        /\ \/ pc[w] = "accrue" /\ pc' = [pc EXCEPT ![w] = "move"]
           \/ pc[w] = "inject" /\ pc' = [pc EXCEPT ![w] = "latency"]
    BY <1>1 DEF Accrue, Inject
  <2>2. DrainsOn(w)
    BY <1>a, <1>b, <2>1
  <2> QED
    BY <1>a, <1>b, <2>1, <2>2, DrainKept
<1>2. CASE MoveHead(w)
  <2>1. /\ pc[w] = "move" /\ bandwidth[d] # <<>>
        /\ UNCHANGED <<enabled, pc, queue>>
        /\ \A e \in Directions \ {d} : /\ bandwidth'[e] = bandwidth[e]
                                        /\ latencyq'[e] = latencyq[e]
    BY <1>2, <1>a, <1>c DEF MoveHead, MayPass
  <2>2. DrainsOn(w)
    BY <1>c, <2>1
  <2> QED
    BY <1>b, <2>1, <2>2, DrainKept
<1>3. CASE StopMoving(w)
  <2>1. /\ pc[w] = "move" /\ pc' = [pc EXCEPT ![w] = "latency"]
        /\ bandwidth' = bandwidth
        /\ UNCHANGED <<enabled, latencyq, queue>>
    BY <1>3, <1>a DEF StopMoving, PutBack
  <2>2. bandwidth[d] = <<>>
    BY <1>3, <1>c, <1>d DEF StopMoving, LoopEnds, MayPass
  <2>3. DrainsOn(w)
    BY <1>a, <1>b, <1>c, <2>1, <2>2
  <2> QED
    BY <1>a, <1>b, <2>1, <2>3, DrainKept
<1>4. CASE ReleaseHead(w)
  <2>1. /\ pc[w] = "latency" /\ pc' = [pc EXCEPT ![w] = "inject"]
        /\ latencyq[d] # <<>>
        /\ \A e \in Directions \ {d} : latencyq'[e] = latencyq[e]
        /\ UNCHANGED <<enabled, bandwidth, queue>>
    BY <1>4, <1>a, <1>c DEF ReleaseHead, Due
  <2>2. DrainsOn(w)
    BY <1>a, <1>b, <1>c, <2>1
  <2> QED
    BY <1>a, <1>b, <2>1, <2>2, DrainKept
<1>5. CASE FinishQueue(w)
  <2>1. /\ pc[w] = "latency" /\ UNCHANGED <<enabled, listVars>>
        /\ latencyq[d] = <<>>
    BY <1>5, <1>c, <1>d DEF FinishQueue, Due
  <2>2. /\ \A v \in Workers \ {w} : pc'[v] = pc[v] /\ queue'[v] = queue[v]
        /\ w \notin Packets /\ queue[w] = "outbound" =>
             pc'[w] = "accrue" /\ queue'[w] = "inbound"
    BY <1>5, <1>a, <1>b DEF FinishQueue
  <2>3. DrainsOn(w)
    BY <1>c, <2>1, <2>2
  <2> QED
    BY <1>b, <2>1, <2>2, <2>3, DrainKept
<1> QED
  BY <1>1, <1>2, <1>3, <1>4, <1>5

LEMMA DrainStep ==
  ASSUME DrainInv, [Next]_vars
  PROVE  ShapingOffDrains'
<1> USE DEF queueVars, listVars, timerVars, ioctlVars, packetVars
<1>a. /\ TypeOK /\ OwnQueue /\ ShapingOffDrains
      /\ pc \in [Workers -> Steps] /\ queue \in [Workers -> Directions]
      /\ bandwidth \in [Directions -> Seq(Packets)]
      /\ latencyq \in [Directions -> Seq(Packets)]
  BY DEF DrainInv, TypeOK, WorkerTypes, ListTypes
<1>1. ASSUME NEW p \in Packets, \/ LossCheck(p) \/ BufferCheck(p) \/ Clone(p)
                                \/ CountPermitted(p)
      PROVE  ShapingOffDrains'
  <2>1. /\ \E step : GoTo(p, step)
        /\ UNCHANGED <<enabled, listVars, queue>>
        /\ pc[p] \notin ProcessSteps \cup {"reset"}
    BY <1>1 DEF LossCheck, BufferCheck, AbsorbPacket, Clone, CountPermitted,
       ProcessSteps
  <2> QED
    BY <1>a, <2>1, DrainOther, Roles
<1>2. ASSUME NEW p \in Packets, Insert(p) PROVE ShapingOffDrains'
  <2>1. PICK d \in Directions : d = Dir[p]
    BY Constants
  <2>2. /\ queue[p] = d /\ pc'[p] = "accrue" /\ pc[p] = "insert"
        /\ \A e \in Directions \ {d} : bandwidth'[e] = bandwidth[e]
        /\ UNCHANGED <<enabled, latencyq, queue>>
        /\ \A w \in Workers \ {p} : pc'[w] = pc[w]
    BY <1>a, <1>2, <2>1, Roles DEF Insert, GoTo, OwnQueue
  <2>3. DrainsOn(p)
    BY <2>1, <2>2 DEF DrainsOn, WillProcess, WillRelease, ProcessSteps
  <2> QED
    BY <1>a, <2>2, <2>3, DrainKept, Roles
<1>3. ASSUME NEW w \in Packets \cup Timers,
             TakeLock(w) \/ CheckTimer(w) \/ StartTimer(w)
      PROVE  ShapingOffDrains'
  <2>1. /\ \E step : GoTo(w, step)
        /\ UNCHANGED <<enabled, listVars, queue>>
        /\ pc[w] \notin ProcessSteps \cup {"reset"}
    BY <1>3 DEF TakeLock, CheckTimer, StartTimer, ProcessSteps
  <2> QED
    BY <1>a, <2>1, DrainOther, Roles
<1>4. ASSUME NEW t \in Timers, TimerFires(t) PROVE ShapingOffDrains'
  <2>1. /\ GoTo(t, "reset")
        /\ UNCHANGED <<enabled, listVars, queue>>
        /\ pc[t] \notin ProcessSteps \cup {"reset"}
    BY <1>4 DEF TimerFires, ProcessSteps
  <2> QED
    BY <1>a, <2>1, DrainOther, Roles
<1>5. ASSUME NEW t \in Timers, ResetPending(t) PROVE ShapingOffDrains'
  <2>1. /\ pc'[t] = "accrue" /\ queue'[t] = "outbound" /\ t \notin Packets
        /\ \A w \in Workers \ {t} : pc'[w] = pc[w] /\ queue'[w] = queue[w]
        /\ UNCHANGED <<enabled, listVars>>
    BY <1>a, <1>5, Roles DEF ResetPending, GoTo
  <2>2. \A d \in Directions : WillProcess(t, d)' /\ WillRelease(t, d)'
    BY <2>1 DEF WillProcess, WillRelease, ProcessSteps, Directions
  <2>3. DrainsOn(t)
    BY <2>2 DEF DrainsOn
  <2> QED
    BY <1>a, <2>1, <2>3, DrainKept, Roles
<1>6. ASSUME (\E s \in Settings : EnableInbound(s)) \/ EnableOutbound
      PROVE  ShapingOffDrains'
  <2>1. /\ \E step : GoTo(Ioctl, step)
        /\ UNCHANGED <<enabled, listVars, queue>>
        /\ pc[Ioctl] \notin ProcessSteps \cup {"reset"}
    BY <1>6 DEF EnableInbound, EnableOutbound, MayRequest, SetUp, ProcessSteps
  <2> QED
    BY <1>a, <2>1, DrainOther, Roles
<1>7. CASE EnableFlag
  BY <1>7 DEF EnableFlag, ShapingOffDrains
<1>8. CASE Disable
  <2>1. /\ pc'[Ioctl] = "accrue" /\ queue'[Ioctl] = "outbound"
        /\ Ioctl \notin Packets /\ Ioctl \in Workers
    BY <1>a, <1>8, Roles DEF Disable, DisableFirst, GoTo
  <2>2. \A d \in Directions : /\ WillProcess(Ioctl, d)'
                              /\ WillRelease(Ioctl, d)'
    BY <2>1 DEF WillProcess, WillRelease, ProcessSteps, Directions
  <2> QED
    BY <2>1, <2>2 DEF ShapingOffDrains
<1>9. ASSUME NEW u \in Unloaders, \/ BeginUnload(u) \/ DropInbound(u)
                                  \/ DropOutbound(u) \/ StopTimer(u)
      PROVE  ShapingOffDrains'
  <2>1. /\ \E step : GoTo(u, step)
        /\ UNCHANGED <<enabled, queue>>
        /\ pc[u] \notin ProcessSteps \cup {"reset"}
    BY <1>9 DEF BeginUnload, DropInbound, DropOutbound, StopTimer, DropQueue,
       ProcessSteps
  <2>2. \A d \in Directions : /\ bandwidth'[d] \in {bandwidth[d], <<>>}
                              /\ latencyq'[d] \in {latencyq[d], <<>>}
    BY <1>a, <1>9 DEF BeginUnload, DropInbound, DropOutbound, StopTimer,
       DropQueue
  <2> QED
    BY <1>a, <2>1, <2>2, DrainOther, Roles
<1>10. CASE UNCHANGED vars \/ Tick \/ \E p \in Packets : InjectionComplete(p)
  <2>1. UNCHANGED <<enabled, listVars, pc, queue>>
    BY <1>10 DEF vars, Tick, InjectionComplete
  <2>2. DrainsOn(Ioctl)
    BY <2>1 DEF DrainsOn, WillProcess, WillRelease
  <2> QED
    BY <1>a, <2>1, <2>2, DrainKept, Roles
<1> QED
  BY <1>a, <1>1, <1>2, <1>3, <1>4, <1>5, <1>6, <1>7, <1>8, <1>9, <1>10,
     DrainProcess, StepCases

(* A classify call's ProcessQueue is about its own direction throughout.    *)
LEMMA OwnQueueStep ==
  ASSUME TypeOK, OwnQueue, [Next]_vars
  PROVE  OwnQueue'
<1> USE DEF queueVars, listVars, timerVars, ioctlVars, packetVars
<1>a. \A p \in Packets : p \in Workers
  BY Roles
<1>1. \/ UNCHANGED queue
      \/ \E w \in Workers \ Packets : \E d : queue' = [queue EXCEPT ![w] = d]
  <2>1. ASSUME NEW w \in Callers, FinishQueue(w)
        PROVE  \/ UNCHANGED queue
               \/ w \notin Packets /\ \E d : queue' = [queue EXCEPT ![w] = d]
    BY <2>1 DEF FinishQueue, TypeOK, WorkerTypes
  <2>2. ASSUME NEW t \in Timers, ResetPending(t)
        PROVE  t \notin Packets /\ \E d : queue' = [queue EXCEPT ![t] = d]
    BY <2>2, Roles DEF ResetPending
  <2>3. ASSUME Disable
        PROVE  Ioctl \notin Packets /\ \E d : queue' = [queue EXCEPT ![Ioctl] = d]
    BY <2>3, Roles DEF Disable
  <2>4. ASSUME NEW p \in Packets,
               \/ LossCheck(p) \/ BufferCheck(p) \/ Clone(p) \/ Insert(p)
               \/ CountPermitted(p) \/ InjectionComplete(p)
        PROVE  UNCHANGED queue
    BY <2>4 DEF LossCheck, BufferCheck, Clone, Insert, CountPermitted,
       InjectionComplete
  <2>5. ASSUME NEW w \in Workers,
               \/ Accrue(w) \/ MoveHead(w) \/ StopMoving(w) \/ ReleaseHead(w)
               \/ Inject(w) \/ TakeLock(w) \/ CheckTimer(w) \/ StartTimer(w)
               \/ TimerFires(w) \/ BeginUnload(w) \/ DropInbound(w) \/ DropOutbound(w)
               \/ StopTimer(w)
        PROVE  UNCHANGED queue
    BY <2>5 DEF Accrue, MoveHead, StopMoving, ReleaseHead, Inject, TakeLock,
       CheckTimer, StartTimer, TimerFires, BeginUnload, DropInbound, DropOutbound,
       StopTimer, DropQueue
  <2>6. ASSUME \/ \E s \in Settings : EnableInbound(s)
               \/ EnableOutbound \/ EnableFlag \/ Tick \/ UNCHANGED vars
        PROVE  UNCHANGED queue
    BY <2>6 DEF EnableInbound, EnableOutbound, EnableFlag, SetUp, Tick, vars
  <2> QED
    BY <2>1, <2>2, <2>3, <2>4, <2>5, <2>6, StepCases, Roles DEF Callers
<1> QED
  BY <1>1, <1>a DEF OwnQueue, TypeOK, WorkerTypes

(* Once shaping is off, a packet that is in a list, or gets into one because *)
(* its call had read the flag before, is taken out by a call at work: it     *)
(* waits neither for the timer nor for another packet.                       *)
THEOREM ShapingOffDrainsCorrect == Spec => []ShapingOffDrains
<1>1. Init => DrainInv
  <2>1. Init => OwnQueue /\ ShapingOffDrains
    BY Roles DEF Init, OwnQueue, ShapingOffDrains
  <2> QED
    BY <2>1, InitTypes DEF DrainInv
<1>2. DrainInv /\ [Next]_vars => DrainInv'
  BY TypeStep, OwnQueueStep, DrainStep DEF DrainInv
<1>3. DrainInv => ShapingOffDrains
  BY DEF DrainInv
<1> QED
  BY <1>1, <1>2, <1>3, PTL DEF Spec
=============================================================================
