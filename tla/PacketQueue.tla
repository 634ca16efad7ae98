---------------------------- MODULE PacketQueue ----------------------------
(***************************************************************************)
(* win-shaper/driver/packet_queue.c: the driver's two packet queues, the   *)
(* one-shot 1 ms timer that serves them, and the routines that work on     *)
(* them.  They run concurrently: ShaperQueuePacket on each processor that  *)
(* classifies a packet, TimerEvt in timer DPCs that may overlap            *)
(* (AutomaticSerialization is FALSE), ShaperEnable and ShaperDisable in    *)
(* the sequential IOCTL queue, PacketInjectionComplete when the network    *)
(* stack is done with a packet, DestroyPacketQueues in the unload routine. *)
(*                                                                         *)
(* A spin lock is read off the program counters: a worker holds it while   *)
(* it is at a step inside the critical section, or waits for the next lock *)
(* with this one in hand.  A critical section in which nothing another     *)
(* worker does can matter is one step.  Reads that the code makes without  *)
(* a lock are steps of their own.                                          *)
(***************************************************************************)
EXTENDS Integers, Sequences, FiniteSets

CONSTANTS
  Packets,      \* net buffer lists classified at the MAC layer; each is also
                \* the worker that runs ShaperQueuePacket for it
  Timers,       \* TimerEvt invocations that may overlap
  Ioctl,        \* the worker of the sequential IOCTL queue
  Unloaders,    \* {} or one worker that unloads the driver
  Dir, Bytes,   \* direction and data_length of each packet
  Settings,     \* the parameters an ENABLE may carry, per direction
  Freq,         \* performance counter frequency; the clock steps one count
  W,            \* modulus of an unsigned __int64
  INITIAL_TOKEN_COUNT,
  MaxElapsed,   \* bound: elapsed counts saturate here
  MaxRequests,  \* bound: IOCTLs issued in a behaviour
  Nobody        \* no packet (NULL)

Directions == {"inbound", "outbound"}
Workers == Packets \cup Timers \cup {Ioctl} \cup Unloaders
Limits == [plr : 0..10000, bps : Nat, latency : Nat, bufferBytes : Nat]

ASSUME WorkersAssumption ==
  /\ Packets \cap (Timers \cup {Ioctl} \cup Unloaders) = {}
  /\ Timers \cap ({Ioctl} \cup Unloaders) = {}
  /\ Ioctl \notin Unloaders
  /\ Nobody \notin Packets

ASSUME DataAssumption ==
  /\ Dir \in [Packets -> Directions]
  /\ Bytes \in [Packets -> Nat]
  /\ Settings \subseteq [Directions -> Limits]
  /\ Freq \in Nat \ {0}
  /\ W \in Nat \ {0}
  /\ INITIAL_TOKEN_COUNT \in 0..W-1
  /\ MaxElapsed \in Nat
  /\ MaxRequests \in Nat

VARIABLES
  enabled,         \* traffic_shaping_enabled
  limits,          \* plr, bps, latency and bufferBytes of each queue
  bandwidth,       \* its bandwidth_queue list
  latencyq,        \* its latency_queue list
  queued_bytes,
  available_bytes,
  since,           \* counts from last_tick to now
  age,             \* counts since latency_start, of each packet
  timer_pending,
  timer_handle,    \* TRUE when it is not NULL
  timer,           \* counts since WdfTimerStart, or NotSet
  pc,              \* what each worker does next
  queue,           \* the queue its ProcessQueue call is about
  held,            \* the packet it has dequeued and not yet injected
  request,         \* the settings of the ENABLE being carried out
  requests,        \* IOCTLs so far
  fate,            \* who owns each packet
  counted          \* inPackets and outPackets

listVars == <<bandwidth, latencyq>>
byteVars == <<queued_bytes, available_bytes>>
clockVars == <<since, age>>
queueVars == <<limits, listVars, byteVars, clockVars>>
timerVars == <<timer_pending, timer_handle, timer>>
ioctlVars == <<enabled, request, requests>>
packetVars == <<fate, counted>>
vars == <<queueVars, timerVars, ioctlVars, packetVars, pc, queue, held>>

----------------------------------------------------------------------------
(* Program counters.  A classify call is at "new", "screened" (past the     *)
(* loss check), "roomy" (past the buffer check), "insert" (clone made) or   *)
(* "count" (not queued); ProcessQueue at "accrue", "move", "latency" or     *)
(* "inject", whoever calls it; StartPacketTimerIfNecessary at "rearm",      *)
(* "one_lock", "two_locks" (of the three it takes) or "start" (it has them  *)
(* all, and its condition held).                                            *)
ProcessSteps == {"accrue", "move", "latency", "inject"}
AcquireSteps == {"rearm", "one_lock", "two_locks"}
RearmSteps == AcquireSteps \cup {"start", "bugcheck"}
PacketSteps == {"new", "screened", "roomy", "insert", "count", "done"}
                 \cup ProcessSteps \cup RearmSteps
TimerSteps == {"idle", "reset"} \cup ProcessSteps \cup RearmSteps
IoctlSteps == {"idle", "enable_out", "enable_flag"} \cup ProcessSteps
UnloadSteps == {"idle", "drop_in", "drop_out", "stop", "done"}

Fates == {"new", "queued", "held", "stack", "delivered", "freed",
          "absorbed", "permitted"}

GoTo(w, step) == pc' = [pc EXCEPT ![w] = step]
FateOf(p, f) == fate' = [fate EXCEPT ![p] = f]

\* timer_spinlock and the locks of the queues, in the order in which
\* StartPacketTimerIfNecessary takes them, whoever calls it.
timer_spinlock == "timer_spinlock"
LockOrderVaries(w) ==  \* mutant: a DPC has a queue's lock when it calls it
  IF w \in Timers THEN <<"outbound", timer_spinlock, "inbound">>
  ELSE <<timer_spinlock, "outbound", "inbound">>
LockOrder(w) == <<timer_spinlock, "outbound", "inbound">>

LocksTaken(w) ==
  CASE pc[w] = "one_lock" -> 1
    [] pc[w] = "two_locks" -> 2
    [] pc[w] = "start" -> 3
    [] OTHER -> 0
NextLock(w) == LockOrder(w)[LocksTaken(w) + 1]

\* The move loop runs under queue->lock, WdfTimerStart under all three locks.
Holds(w, l) ==
  \/ pc[w] = "move" /\ queue[w] = l
  \/ \E k \in 1..LocksTaken(w) : LockOrder(w)[k] = l
LockFree(l) == \A w \in Workers : ~Holds(w, l)

Unloading == \E u \in Unloaders : pc[u] # "idle"

Plus(a, b) == (a + b) % W
MinusSigned(a, b) == a - b             \* mutant: signed counters
Minus(a, b) == (a - b) % W

NotSet == -1
OneMs == (Freq + 999) \div 1000        \* what WdfTimerStart waits, in counts
NoLimits == [plr |-> 0, bps |-> 0, latency |-> 0, bufferBytes |-> 0]

\* InitializePacketQueues, on zeroed globals.
Init ==
  /\ enabled = FALSE
  /\ limits = [d \in Directions |-> NoLimits]
  /\ bandwidth = [d \in Directions |-> <<>>]
  /\ latencyq = [d \in Directions |-> <<>>]
  /\ queued_bytes = [d \in Directions |-> 0]
  /\ available_bytes = [d \in Directions |-> 0]
  /\ since = [d \in Directions |-> MaxElapsed]
  /\ age = [p \in Packets |-> 0]
  /\ timer_pending = FALSE
  /\ timer_handle = TRUE
  /\ timer = NotSet
  /\ pc = [w \in Workers |-> IF w \in Packets THEN "new" ELSE "idle"]
  /\ queue = [w \in Workers |->
                IF w \in Packets THEN Dir[w] ELSE "outbound"]
  /\ held = [w \in Workers |-> Nobody]
  /\ request = [d \in Directions |-> NoLimits]
  /\ requests = 0
  /\ fate = [p \in Packets |-> "new"]
  /\ counted = [d \in Directions |-> 0]

----------------------------------------------------------------------------
(* ShaperQueuePacket.                                                       *)

AbsorbPacket(p) == GoTo(p, "done") /\ FateOf(p, "absorbed")

\* No lock held.  Of the random values 0..9999 those below plr drop the
\* packet.  ShaperClassify does not call in once the driver is unloading.
LossCheck(p) ==
  /\ pc[p] = "new"
  /\ ~Unloading
  /\ \E random \in {0, 9999} :
       IF enabled /\ random < limits[Dir[p]].plr
       THEN AbsorbPacket(p)
       ELSE GoTo(p, "screened") /\ UNCHANGED fate
  /\ UNCHANGED <<queueVars, timerVars, ioctlVars, queue, held, counted>>

BufferFull(p) ==
  LET d == Dir[p] IN
  /\ enabled
  /\ limits[d].bufferBytes > 0
  /\ Plus(queued_bytes[d], Bytes[p]) > limits[d].bufferBytes

\* No lock held either.
BufferCheck(p) ==
  /\ pc[p] = "screened"
  /\ IF BufferFull(p)
     THEN AbsorbPacket(p)
     ELSE GoTo(p, "roomy") /\ UNCHANGED fate
  /\ UNCHANGED <<queueVars, timerVars, ioctlVars, queue, held, counted>>

\* Allocation, retreat and clone: each may fail, and layerData may be NULL.
Clone(p) ==
  /\ pc[p] = "roomy"
  /\ \/ enabled /\ GoTo(p, "insert")
     \/ GoTo(p, "count")
  /\ UNCHANGED <<queueVars, timerVars, ioctlVars, packetVars, queue, held>>

Insert(p) ==
  LET d == Dir[p] IN
  /\ pc[p] = "insert"
  /\ LockFree(d)
  /\ queued_bytes' = [queued_bytes EXCEPT ![d] = Plus(@, Bytes[p])]
  /\ bandwidth' = [bandwidth EXCEPT ![d] = Append(@, p)]
  /\ FateOf(p, "queued")
  /\ GoTo(p, "accrue")
  /\ UNCHANGED <<limits, latencyq, available_bytes, clockVars, timerVars,
                 ioctlVars, queue, held, counted>>

\* inPackets and outPackets are incremented with no lock: an increment that
\* overlaps another one may be lost under it.
Overlapped(p) ==
  \E q \in Packets \ {p} :
    /\ Dir[q] = Dir[p]
    /\ fate[q] = "stack" \/ (pc[q] = "count" /\ Dir[q] = "inbound")

CountPacket(p) ==
  \/ counted' = [counted EXCEPT ![Dir[p]] = @ + 1]
  \/ Overlapped(p) /\ UNCHANGED counted

\* Not queued: an inbound packet is counted; for an outbound one the code
\* doubles its local packet_count and leaves outPackets alone.
CountPermitted(p) ==
  /\ pc[p] = "count"
  /\ IF Dir[p] = "inbound" THEN CountPacket(p) ELSE UNCHANGED counted
  /\ FateOf(p, "permitted")
  /\ GoTo(p, "done")
  /\ UNCHANGED <<queueVars, timerVars, ioctlVars, queue, held>>

----------------------------------------------------------------------------
(* ProcessQueue(queue[w]), for whichever worker w calls it.                 *)

\* What the time since last_tick is worth, in whole bytes.
Accumulated(d) == (since[d] * limits[d].bps) \div (8 * Freq)

\* Take queue->lock and add the credit; an idle link keeps one burst at most.
Accrue(w) ==
  LET d == queue[w]
      credit == Plus(available_bytes[d], Accumulated(d))
      idle == bandwidth[d] = <<>>
  IN
  /\ pc[w] = "accrue"
  /\ LockFree(d)
  /\ available_bytes' =
       [available_bytes EXCEPT ![d] =
          IF idle /\ credit > INITIAL_TOKEN_COUNT
          THEN INITIAL_TOKEN_COUNT ELSE credit]
  /\ GoTo(w, "move")
  /\ UNCHANGED <<limits, listVars, queued_bytes, clockVars, timerVars,
                 ioctlVars, packetVars, queue, held>>

\* Shaping is off, or the rate unlimited, or the head covered by the credit.
\* traffic_shaping_enabled is not protected by this lock.
MayPass(d) ==
  /\ bandwidth[d] # <<>>
  /\ \/ ~enabled
     \/ limits[d].bps = 0
     \/ Bytes[Head(bandwidth[d])] <= available_bytes[d]

\* What the two counters are worth without the bytes of p.
WithoutForgotten(bytes, d, p) == bytes  \* mutant: the bytes stay accounted
Without(bytes, d, p) == [bytes EXCEPT ![d] = Minus(@, Bytes[p])]

\* One round of the first loop: the head goes to the latency queue.
MoveHead(w) ==
  LET d == queue[w]
      p == Head(bandwidth[d])
  IN
  /\ pc[w] = "move"
  /\ MayPass(d)
  /\ available_bytes' = Without(available_bytes, d, p)
  /\ queued_bytes' = Without(queued_bytes, d, p)
  /\ bandwidth' = [bandwidth EXCEPT ![d] = Tail(@)]
  /\ latencyq' = [latencyq EXCEPT ![d] = Append(@, p)]
  /\ age' = [age EXCEPT ![p] = 0]
  /\ UNCHANGED <<limits, since, timerVars, ioctlVars, packetVars, pc, queue,
                 held>>

\* A head that may not pass goes back to its place, and the loop ends.
LoopEndsWhenEmpty(d) == bandwidth[d] = <<>>  \* mutant: packet is not set NULL
LoopEnds(d) == ~MayPass(d)

PutBackAtTail(list) ==                       \* mutant: InsertTailList
  IF list = <<>> THEN list ELSE Append(Tail(list), Head(list))
PutBack(list) == list

\* The end of the loop: last_tick is now, and the lock is free.
StopMoving(w) ==
  /\ pc[w] = "move"
  /\ LoopEnds(queue[w])
  /\ bandwidth' = [bandwidth EXCEPT ![queue[w]] = PutBack(@)]
  /\ since' = [since EXCEPT ![queue[w]] = 0]
  /\ GoTo(w, "latency")
  /\ UNCHANGED <<limits, latencyq, byteVars, age, timerVars, ioctlVars,
                 packetVars, queue, held>>

ElapsedMs(p) == (age[p] * 1000 + Freq \div 2000) \div Freq

\* The head of the latency queue may leave; with shaping off it always may.
Due(d) ==
  /\ latencyq[d] # <<>>
  /\ enabled => ElapsedMs(Head(latencyq[d])) >= limits[d].latency

\* One round of the second loop, in a critical section of its own.
ReleaseHead(w) ==
  LET d == queue[w]
      p == Head(latencyq[d])
  IN
  /\ pc[w] = "latency"
  /\ LockFree(d)
  /\ Due(d)
  /\ latencyq' = [latencyq EXCEPT ![d] = Tail(@)]
  /\ age' = [age EXCEPT ![p] = 0]
  /\ held' = [held EXCEPT ![w] = p]
  /\ FateOf(p, "held")
  /\ GoTo(w, "inject")
  /\ UNCHANGED <<limits, bandwidth, byteVars, since, timerVars, ioctlVars,
                 queue, counted>>

\* Nothing is due.  The caller goes on: a DPC or ShaperDisable to the inbound
\* queue, the others to the timer; ShaperDisable has then finished.
FinishQueue(w) ==
  LET next == IF w \notin Packets /\ queue[w] = "outbound" THEN "accrue"
              ELSE IF w = Ioctl THEN "idle" ELSE "rearm"
  IN
  /\ pc[w] = "latency"
  /\ LockFree(queue[w])
  /\ ~Due(queue[w])
  /\ GoTo(w, next)
  /\ queue' = [queue EXCEPT ![w] = IF next = "accrue" THEN "inbound" ELSE @]
  /\ UNCHANGED <<queueVars, timerVars, ioctlVars, packetVars, held>>

\* InjectPacket, no lock held; the call into the network stack may fail.
Inject(w) ==
  /\ pc[w] = "inject"
  /\ FateOf(held[w], "stack") \/ FateOf(held[w], "freed")
  /\ held' = [held EXCEPT ![w] = Nobody]
  /\ GoTo(w, "latency")
  /\ UNCHANGED <<queueVars, timerVars, ioctlVars, queue, counted>>

\* PacketInjectionComplete, called by the network stack in its own time.
InjectionComplete(p) ==
  /\ fate[p] = "stack"
  /\ CountPacket(p)
  /\ FateOf(p, "delivered")
  /\ UNCHANGED <<queueVars, timerVars, ioctlVars, pc, queue, held>>

----------------------------------------------------------------------------
(* StartPacketTimerIfNecessary, and the end of the call it was made by.     *)
AtRest(w) == IF w \in Packets THEN "done" ELSE "idle"

Pending(d) == bandwidth[d] # <<>> \/ latencyq[d] # <<>>

\* Mutants: the latency queues, or all the lists, are not looked at.
NeedsTimerBandwidthOnly ==
  ~timer_pending /\ timer_handle /\ \E d \in Directions : bandwidth[d] # <<>>
NeedsTimerAlways == ~timer_pending /\ timer_handle

NeedsTimer ==
  /\ ~timer_pending
  /\ \E d \in Directions : Pending(d)
  /\ timer_handle

\* The first lock, and the second, while others may hold the rest.
TakeLock(w) ==
  /\ pc[w] \in {"rearm", "one_lock"}
  /\ LockFree(NextLock(w))
  /\ GoTo(w, IF pc[w] = "rearm" THEN "one_lock" ELSE "two_locks")
  /\ UNCHANGED <<queueVars, timerVars, ioctlVars, packetVars, queue, held>>

\* With the third lock the condition is evaluated.
CheckTimer(w) ==
  /\ pc[w] = "two_locks"
  /\ LockFree(NextLock(w))
  /\ GoTo(w, IF NeedsTimer THEN "start" ELSE AtRest(w))
  /\ UNCHANGED <<queueVars, timerVars, ioctlVars, packetVars, queue, held>>

StartedUnmarked == timer_pending  \* mutant: the timer is not marked pending
Started == TRUE

\* timer_handle is read again, and DestroyPacketQueues clears it under another
\* lock: the build may keep the value it tested, and start a timer that was
\* stopped, or pass NULL, upon which the framework stops the machine.
StartTimer(w) ==
  /\ pc[w] = "start"
  /\ timer_pending' = Started
  /\ \/ timer' = 0 /\ GoTo(w, AtRest(w))
     \/ ~timer_handle /\ UNCHANGED timer /\ GoTo(w, "bugcheck")
  /\ UNCHANGED <<queueVars, timer_handle, ioctlVars, packetVars, queue, held>>

----------------------------------------------------------------------------
(* The one-shot timer expires and a DPC begins; TimerEvt; the clock.        *)
TimerFires(t) ==
  /\ pc[t] = "idle"
  /\ timer >= OneMs
  /\ timer' = NotSet
  /\ GoTo(t, "reset")
  /\ UNCHANGED <<queueVars, timer_pending, timer_handle, ioctlVars,
                 packetVars, queue, held>>

FiredStaysPending == timer_pending  \* mutant: timer_pending is not reset
Fired == FALSE

ResetPending(t) ==
  /\ pc[t] = "reset"
  /\ LockFree(timer_spinlock)
  /\ timer_pending' = Fired
  /\ queue' = [queue EXCEPT ![t] = "outbound"]
  /\ GoTo(t, "accrue")
  /\ UNCHANGED <<queueVars, timer_handle, timer, ioctlVars, packetVars, held>>

InList(p, list) == \E i \in DOMAIN list : list[i] = p

Elapse(n) == IF n < MaxElapsed THEN n + 1 ELSE n

\* A count of the performance counter passes (and is seen to).
Tick ==
  /\ since' = [d \in Directions |-> Elapse(since[d])]
  /\ age' = [p \in Packets |->
               IF InList(p, latencyq[Dir[p]]) THEN Elapse(age[p]) ELSE age[p]]
  /\ timer' = IF timer \in 0..OneMs - 1 THEN timer + 1 ELSE timer
  /\ <<clockVars, timer>>' # <<clockVars, timer>>
  /\ UNCHANGED <<limits, listVars, byteVars, timer_pending, timer_handle,
                 ioctlVars, packetVars, pc, queue, held>>

----------------------------------------------------------------------------
(* The control requests, one at a time (WdfIoQueueDispatchSequential).      *)
MayRequest ==
  /\ pc[Ioctl] = "idle"
  /\ requests < MaxRequests
  /\ ~Unloading

\* What ShaperEnable does to one queue under its lock; the packets stay.
SetUp(d, s, elapsed) ==
  /\ LockFree(d)
  /\ limits' = [limits EXCEPT ![d] = s[d]]
  /\ queued_bytes' = [queued_bytes EXCEPT ![d] = 0]
  /\ available_bytes' = [available_bytes EXCEPT ![d] = INITIAL_TOKEN_COUNT]
  /\ since' = [since EXCEPT ![d] = elapsed]
  /\ UNCHANGED <<listVars, age, timerVars, packetVars, queue, held>>

EnableInbound(s) ==
  /\ MayRequest
  /\ SetUp("inbound", s, 0)
  /\ request' = s
  /\ requests' = requests + 1
  /\ GoTo(Ioctl, "enable_out")
  /\ UNCHANGED enabled

\* The outbound queue takes over the last_tick of the inbound one.
EnableOutbound ==
  /\ pc[Ioctl] = "enable_out"
  /\ SetUp("outbound", request, since["inbound"])
  /\ GoTo(Ioctl, "enable_flag")
  /\ UNCHANGED ioctlVars

EnableFlag ==
  /\ pc[Ioctl] = "enable_flag"
  /\ enabled' = TRUE
  /\ GoTo(Ioctl, "idle")
  /\ UNCHANGED <<queueVars, timerVars, request, requests, packetVars, queue,
                 held>>

DisableFirstInbound == "inbound"  \* mutant: only one queue is processed
DisableFirst == "outbound"

\* ShaperDisable: the flag, then ProcessQueue for the one and the other queue.
Disable ==
  /\ MayRequest
  /\ enabled' = FALSE
  /\ requests' = requests + 1
  /\ GoTo(Ioctl, "accrue")
  /\ queue' = [queue EXCEPT ![Ioctl] = DisableFirst]
  /\ UNCHANGED <<queueVars, timerVars, request, packetVars, held>>

----------------------------------------------------------------------------
(* DestroyPacketQueues, once driver_unloading is set.  No control request   *)
(* is under way by then, so queue_lock is never contended.                  *)
BeginUnload(u) ==
  /\ pc[u] = "idle"
  /\ pc[Ioctl] = "idle"
  /\ GoTo(u, "drop_in")
  /\ UNCHANGED <<queueVars, timerVars, ioctlVars, packetVars, queue, held>>

FreedWithoutLatency(d) == bandwidth[d]  \* mutant: latency_queue is forgotten
Freed(d) == latencyq[d] \o bandwidth[d]

\* DropQueue frees what is in the lists and leaves queued_bytes as it is.
DropQueue(d) ==
  /\ LockFree(d)
  /\ fate' = [p \in Packets |->
                IF InList(p, Freed(d)) THEN "freed" ELSE fate[p]]
  /\ latencyq' = [latencyq EXCEPT ![d] = <<>>]
  /\ bandwidth' = [bandwidth EXCEPT ![d] = <<>>]
  /\ UNCHANGED <<limits, byteVars, clockVars, timerVars, ioctlVars, queue,
                 held, counted>>

DropInbound(u) ==
  pc[u] = "drop_in" /\ DropQueue("inbound") /\ GoTo(u, "drop_out")

DropOutbound(u) ==
  pc[u] = "drop_out" /\ DropQueue("outbound") /\ GoTo(u, "stop")

\* WdfTimerStop does not wait for a TimerEvt that is running.
StopTimer(u) ==
  /\ pc[u] = "stop"
  /\ timer' = NotSet
  /\ timer_handle' = FALSE
  /\ timer_pending' = FALSE
  /\ GoTo(u, "done")
  /\ UNCHANGED <<queueVars, ioctlVars, packetVars, queue, held>>

----------------------------------------------------------------------------
ProcessQueue(w) ==
  Accrue(w) \/ MoveHead(w) \/ StopMoving(w) \/ ReleaseHead(w)
    \/ FinishQueue(w) \/ Inject(w)

StartPacketTimerIfNecessary(w) == TakeLock(w) \/ CheckTimer(w) \/ StartTimer(w)

\* What a call does once it has begun; whether it begins is up to others.
ShaperQueuePacket(p) ==
  BufferCheck(p) \/ Clone(p) \/ Insert(p) \/ CountPermitted(p)
    \/ ProcessQueue(p) \/ StartPacketTimerIfNecessary(p)

TimerEvt(t) ==
  ResetPending(t) \/ ProcessQueue(t) \/ StartPacketTimerIfNecessary(t)

ControlRequest == EnableOutbound \/ EnableFlag \/ ProcessQueue(Ioctl)

DestroyPacketQueues(u) == DropInbound(u) \/ DropOutbound(u) \/ StopTimer(u)

Bugchecked == \E w \in Workers : pc[w] = "bugcheck"

\* Nothing runs and nothing is waited for: the system may rest here for ever.
Quiescent ==
  /\ \A p \in Packets : pc[p] \in {"new", "done"} /\ fate[p] # "stack"
  /\ \A w \in Workers \ Packets : pc[w] \in {"idle", "done"}
  /\ timer = NotSet
  /\ timer_handle => \A d \in Directions : ~Pending(d)

Rest == (Quiescent \/ Bugchecked) /\ UNCHANGED vars

Running ==
  \/ \E p \in Packets :
       LossCheck(p) \/ ShaperQueuePacket(p) \/ InjectionComplete(p)
  \/ \E t \in Timers : TimerFires(t) \/ TimerEvt(t)
  \/ \E s \in Settings : EnableInbound(s)
  \/ Disable
  \/ ControlRequest
  \/ \E u \in Unloaders : BeginUnload(u) \/ DestroyPacketQueues(u)
  \/ Tick

Next == (~Bugchecked /\ Running) \/ Rest

Spec == Init /\ [][Next]_vars

(* The scheduler runs every worker that can run; queued spin locks are      *)
(* granted in order, so a worker whose lock is free again and again gets it *)
(* (strong fairness); the clock runs, an expired timer gets its DPC, and    *)
(* the network stack completes every injection.  Nothing says that a packet *)
(* arrives, that a request is made, or that the driver unloads.             *)
Fairness ==
  /\ \A p \in Packets : /\ SF_vars(ShaperQueuePacket(p))
                        /\ WF_vars(InjectionComplete(p))
  /\ \A t \in Timers : SF_vars(TimerEvt(t))
  /\ SF_vars(ControlRequest)
  /\ WF_vars(\E t \in Timers : TimerFires(t))
  /\ WF_vars(Tick)

FairSpec == Spec /\ Fairness

----------------------------------------------------------------------------
ListTypes ==
  /\ bandwidth \in [Directions -> Seq(Packets)]
  /\ latencyq \in [Directions -> Seq(Packets)]

ByteTypes ==
  /\ queued_bytes \in [Directions -> 0..W-1]
  /\ available_bytes \in [Directions -> 0..W-1]

ClockTypes ==
  /\ since \in [Directions -> 0..MaxElapsed]
  /\ age \in [Packets -> 0..MaxElapsed]

TimerTypes ==
  /\ timer_pending \in BOOLEAN
  /\ timer_handle \in BOOLEAN
  /\ timer \in {NotSet} \cup 0..OneMs

Steps == PacketSteps \cup TimerSteps \cup IoctlSteps \cup UnloadSteps

WorkerTypes ==
  /\ pc \in [Workers -> Steps]
  /\ \A p \in Packets : pc[p] \in PacketSteps
  /\ \A t \in Timers : pc[t] \in TimerSteps
  /\ pc[Ioctl] \in IoctlSteps
  /\ \A u \in Unloaders : pc[u] \in UnloadSteps
  /\ queue \in [Workers -> Directions]
  /\ held \in [Workers -> Packets \cup {Nobody}]
  /\ \A w \in Workers : pc[w] = "inject" => held[w] \in Packets

ControlTypes ==
  /\ enabled \in BOOLEAN
  /\ limits \in [Directions -> Limits]
  /\ request \in [Directions -> Limits]
  /\ requests \in 0..MaxRequests

PacketTypes ==
  /\ fate \in [Packets -> Fates]
  /\ counted \in [Directions -> Nat]

(* Every variable has its type: the byte counters stay in their width, a    *)
(* worker is at a step of its own routine, and one that is about to inject  *)
(* holds a packet (QUEUED_PACKET, PACKET_QUEUE, InjectPacket).              *)
TypeOK ==
  /\ ListTypes /\ ByteTypes /\ ClockTypes /\ TimerTypes
  /\ WorkerTypes /\ ControlTypes /\ PacketTypes

(* A packet is never left behind without a wake-up (StartPacketTimerIf-     *)
(* Necessary, TimerEvt): while the queues exist and one of the four lists   *)
(* is not empty, the timer is pending, or some call is under way that will  *)
(* still look at the lists before it returns.                               *)
WillRearm(w) == pc[w] \in ProcessSteps \cup AcquireSteps \cup {"start"}

NoLostWakeup ==
  timer_handle /\ (\E d \in Directions : Pending(d)) =>
    timer_pending \/ \E w \in Packets \cup Timers : WillRearm(w)

(* timer_pending tells the truth: while the queues exist it is set exactly  *)
(* when the timer is running or one TimerEvt has begun and not cleared it,  *)
(* never both and never two.  Were it set without either, no one would ever *)
(* start the timer again; were it clear, the timer would be started twice.  *)
TimerToken ==
  timer_handle =>
    /\ timer_pending <=> (timer # NotSet \/ \E t \in Timers : pc[t] = "reset")
    /\ timer # NotSet => \A t \in Timers : pc[t] # "reset"
    /\ \A t, u \in Timers : pc[t] = "reset" /\ pc[u] = "reset" => t = u

(* No set of workers waits for itself (StartPacketTimerIfNecessary takes    *)
(* three spin locks, one after the other, in a DPC and in every classify    *)
(* call): among any that hold a lock and wait for another there is one      *)
(* whose lock none of them holds, itself included.                          *)
WaitsFor(v, w) == pc[v] \in AcquireSteps /\ Holds(w, NextLock(v))

Waiting == {w \in Workers : pc[w] \in {"one_lock", "two_locks"}}

NoCircularWait ==
  \A S \in (SUBSET Waiting) \ {{}} : \E v \in S : \A w \in S : ~WaitsFor(v, w)

(* With shaping off nothing waits for the timer (ShaperDisable, TimerEvt,   *)
(* ShaperQueuePacket): whatever is still in a list, some call at work is    *)
(* bound to reach ProcessQueue's loop over that list and take it out.       *)
WillProcess(w, d) ==
  \/ pc[w] \in {"accrue", "move"} /\ queue[w] = d
  \/ pc[w] = "reset"
  \/ /\ pc[w] \in ProcessSteps
     /\ w \notin Packets
     /\ queue[w] = "outbound"
     /\ d = "inbound"

WillRelease(w, d) ==
  WillProcess(w, d) \/ (pc[w] \in ProcessSteps /\ queue[w] = d)

ShapingOffDrains ==
  ~enabled =>
    \A d \in Directions :
      /\ bandwidth[d] # <<>> => \E w \in Workers : WillProcess(w, d)
      /\ latencyq[d] # <<>> => \E w \in Workers : WillRelease(w, d)

(* Liveness, under Fairness.  A packet that was queued leaves the shaper    *)
(* for good, through the network stack or freed (ProcessQueue, TimerEvt).   *)
QueuedLeaves ==
  \A p \in Packets : fate[p] = "queued" ~> fate[p] \in {"delivered", "freed"}

(* A classify call that has begun returns: neither a loop nor a spin lock   *)
(* holds it up for ever, those included that it takes one by one with the   *)
(* ones before in hand (ShaperQueuePacket, StartPacketTimerIfNecessary).    *)
CallReturns == \A p \in Packets : pc[p] = "screened" ~> pc[p] = "done"

(* The 1 ms tick is not kept up for nothing: once no more packets come the  *)
(* timer stops for good (StartPacketTimerIfNecessary).                      *)
TimerStops == <>[](timer = NotSet /\ ~timer_pending)

----------------------------------------------------------------------------
(* The two queues of a direction, one behind the other, are one FIFO line.  *)
Line == [d \in Directions |-> latencyq[d] \o bandwidth[d]]

(* A packet has one owner (Insert, MoveHead, ReleaseHead, InjectPacket,     *)
(* DropQueue): the lists hold just the queued packets, each in the line of  *)
(* its own direction and there once, and a packet that has been taken off   *)
(* is in the hands of one worker, about to be injected.                     *)
LineHoldsQueued ==
  \A d \in Directions : \A i \in DOMAIN Line[d] :
    fate[Line[d][i]] = "queued" /\ Dir[Line[d][i]] = d

QueuedIsInLine ==
  \A p \in Packets : fate[p] = "queued" => InList(p, Line[Dir[p]])

NoRepeats ==
  \A d \in Directions : \A i, j \in DOMAIN Line[d] :
    Line[d][i] = Line[d][j] => i = j

Hands(w) == pc[w] = "inject"

OneHolder ==
  /\ \A w \in Workers : Hands(w) => fate[held[w]] = "held"
  /\ \A v, w \in Workers :
       Hands(v) /\ Hands(w) /\ held[v] = held[w] => v = w
  /\ \A p \in Packets :
       fate[p] = "held" => \E w \in Workers : Hands(w) /\ held[w] = p

OneOwner == LineHoldsQueued /\ QueuedIsInLine /\ NoRepeats /\ OneHolder

StatusOf(f) ==
  CASE f = "queued" -> "linked"
    [] f \in {"held", "stack"} -> "released"
    [] f = "freed" -> "lost"
    [] OTHER -> f

Link == INSTANCE ShapedLink WITH
  line <- Line,
  status <- [p \in Packets |-> StatusOf(fate[p])]

(* The queues implement the line of ShapedLink: packets leave in the order  *)
(* they were inserted, none is lost between the lists, duplicated, injected *)
(* twice or freed while it is still queued.                                 *)
ImplementsLink == Link!Spec
=============================================================================
