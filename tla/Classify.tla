------------------------------ MODULE Classify ------------------------------
(***************************************************************************)
(* What becomes of a packet between the layers of the network stack: the   *)
(* callouts IPClassify (win-shaper/driver/IP_callout.c), at the IP layer,  *)
(* and ShaperClassify (wfp_callout.c), at the MAC layer, take a packet out *)
(* of the stack and put another in for it, which then passes the same      *)
(* callouts.  How a packet is cut is module PacketSplit, how long a frame  *)
(* waits is module PacketQueue; any outcome of theirs is a choice here.    *)
(***************************************************************************)
EXTENDS Integers, FiniteSets

CONSTANTS
  Packets,
  Outbound,    \* the packets that are sent
  EtherType    \* of each packet, in hexadecimal

\* An outbound packet goes from the IP layer to the MAC layer, an inbound one
\* the other way; only IPv4 passes the callouts of the IP layer.
IsIPv4(p) == EtherType[p] = "0800"
Directions == {"out", "in"}
Direction(p) == IF p \in Outbound THEN "out" ELSE "in"

\* The injection handles: ih_*, and ipv4_injectionhandle_* of the IP layer.
Handles == Directions \X {"ipv4", "ipv6", "unspecified", "IP"}

ASSUME ClassifyAssumption ==
  /\ Outbound \subseteq Packets
  /\ EtherType \in [Packets -> {"0800", "86DD", "8600", "0806"}]

VARIABLES
  handles,         \* the injection handles that are not NULL, of those in use
  versions,        \* of each packet: what is of it in the stack or in a queue
  lost,            \* of each packet: why nothing is, or "no"
  start,           \* bytes by which the data start of the original is off
  retreat_failed,  \* packets whose data start could not be moved down
  shaped, cut,     \* how often a packet was queued, was cut; 2: more than once
  driver_unloading

counts == <<shaped, cut>>
vars == <<handles, versions, lost, start, retreat_failed, counts, driver_unloading>>

\* The injection handle: the EtherType that is tested for IPv4 is not that of
\* IPv4.
MacHandle(p) ==
  <<Direction(p), CASE EtherType[p] = "86DD" -> "ipv6"
                    [] EtherType[p] = "8600" -> "ipv4"
                    [] OTHER -> "unspecified">>

IPHandle(p) == <<Direction(p), "IP">>

\* A version is the packet, the list of its segments or a clone; by are the
\* handles it was injected with.
Version(kind, at, by) == [kind |-> kind, at |-> at, by |-> by]

First(p) == IF p \in Outbound /\ IsIPv4(p) THEN "IP" ELSE "MAC"
Onward(p, at) ==
  IF at = "IP" THEN IF p \in Outbound THEN "MAC" ELSE "arrived"
  ELSE IF p \notin Outbound /\ IsIPv4(p) THEN "IP" ELSE "arrived"

Init ==
  /\ handles \in SUBSET ({MacHandle(p) : p \in Packets} \cup {IPHandle(p) : p \in Packets})
  /\ versions = [p \in Packets |-> {Version("original", First(p), {})}]
  /\ lost = [p \in Packets |-> "no"]
  /\ start = [p \in Packets |-> 0]
  /\ retreat_failed = {}
  /\ shaped = [p \in Packets |-> 0] /\ cut = [p \in Packets |-> 0]
  /\ driver_unloading = FALSE

Replace(p, v, new) == versions' = [versions EXCEPT ![p] = (@ \ {v}) \cup new]
Move(p, v, place) == Replace(p, v, {[v EXCEPT !.at = place]})
Permit(p, v) == Move(p, v, Onward(p, v.at)) /\ UNCHANGED lost
Lose(p, v, why) == Replace(p, v, {}) /\ lost' = [lost EXCEPT ![p] = why]

Once(c, p) == [c EXCEPT ![p] = IF @ = 2 THEN 2 ELSE @ + 1]

\* FwpsQueryPacketInjectionState, with the handle it is asked about.
InjectionStates(h, v) ==
  IF h \in v.by /\ h \in handles
  THEN {"INJECTED_BY_SELF", "PREVIOUSLY_INJECTED_BY_SELF"} ELSE {"NOT_INJECTED"}

OursNowOnly(state) == state = "INJECTED_BY_SELF"  \* mutant: the other is not looked for
OursNever(state) == FALSE                          \* mutant: nothing is looked for
Ours(state) == state \in {"INJECTED_BY_SELF", "PREVIOUSLY_INJECTED_BY_SELF"}

----------------------------------------------------------------------------
\* The packet is left alone when the callout may not write the action, has no
\* handle, is unloading or finds the packet blocked by another, which it then
\* permits; else it may be cut.
IPClassify(p, v) ==
  LET h == IPHandle(p) IN
  /\ v.at = "IP"
  /\ \/ Permit(p, v) /\ UNCHANGED cut
     \/ /\ p \in Outbound /\ h \in handles /\ ~driver_unloading
        /\ \E state \in InjectionStates(h, v) : ~Ours(state)
        /\ Replace(p, v, {Version("segments", "IP", {h})})
        /\ cut' = Once(cut, p)
        /\ UNCHANGED lost
  /\ UNCHANGED <<handles, start, retreat_failed, shaped, driver_unloading>>

\* The tests before ShaperQueuePacket.
ShaperClassify(p, v) ==
  /\ v.at = "MAC"
  /\ \/ Permit(p, v)
     \/ /\ ~driver_unloading
        /\ \E state \in InjectionStates(MacHandle(p), v) : ~Ours(state)
        /\ Move(p, v, "ShaperQueuePacket")
        /\ UNCHANGED lost
  /\ UNCHANGED <<handles, start, retreat_failed, counts, driver_unloading>>

AbsorbedAlways(p, v) == Replace(p, v, {}) /\ UNCHANGED lost  \* mutant: in any case
NotQueued(p, v) == Move(p, v, Onward(p, "MAC")) /\ UNCHANGED lost

AdvanceSkipped(p, cloned) ==  \* mutant: not when the clone failed
  IF p \in Outbound \/ ~cloned THEN 0 ELSE 14
Advance(p, cloned) == IF p \in Outbound THEN 0 ELSE 14

\* The part of ShaperQueuePacket that deals with the packet itself.  An inbound
\* frame is handed over without its Ethernet header, so the data start is moved
\* down over it, the frame cloned, and the data start moved up again, even if it
\* was never moved down.
ShaperQueuePacket(p, v) ==
  /\ v.at = "ShaperQueuePacket"
  /\ \/ \* a random loss, or the buffer is full
        Lose(p, v, "dropped") /\ UNCHANGED <<start, retreat_failed, shaped>>
     \/ \* shaping is off, or there is no memory
        NotQueued(p, v) /\ UNCHANGED <<start, retreat_failed, shaped>>
     \/ \* NdisRetreatNetBufferDataStart fails
        /\ p \notin Outbound
        /\ start' = [start EXCEPT ![p] = @ + Advance(p, FALSE)]
        /\ retreat_failed' = retreat_failed \cup {p}
        /\ NotQueued(p, v)
        /\ UNCHANGED shaped
     \/ \E cloned \in BOOLEAN :
          LET retreat == IF p \in Outbound THEN 0 ELSE 14 IN
          /\ start' = [start EXCEPT ![p] = @ - retreat + Advance(p, cloned)]
          /\ IF cloned
             THEN /\ Replace(p, v, {Version("clone", "queue", {})})
                  /\ shaped' = Once(shaped, p)
                  /\ UNCHANGED lost
             ELSE NotQueued(p, v) /\ UNCHANGED shaped
          /\ UNCHANGED retreat_failed
  /\ UNCHANGED <<handles, cut, driver_unloading>>

\* The clone enters the stack below the callout, and is classified again.
InjectPacket(p, v) ==
  /\ v.at = "queue"
  /\ \/ /\ MacHandle(p) \in handles
        /\ Replace(p, v, {Version("clone", "MAC", {MacHandle(p)})})
        /\ UNCHANGED lost
     \/ Lose(p, v, "not injected")
  /\ UNCHANGED <<handles, start, retreat_failed, counts, driver_unloading>>

\* ShaperEvtDriverUnload, and DestroyPacketQueues with the frame in a queue.
Unload ==
  /\ ~driver_unloading
  /\ driver_unloading' = TRUE
  /\ UNCHANGED <<handles, versions, lost, start, retreat_failed, counts>>

DropPacket(p, v) ==
  /\ driver_unloading /\ v.at = "queue"
  /\ Lose(p, v, "unloaded")
  /\ UNCHANGED <<handles, start, retreat_failed, counts, driver_unloading>>

Journey(p) ==
  \E v \in versions[p] :
    IPClassify(p, v) \/ ShaperClassify(p, v) \/ ShaperQueuePacket(p, v)
      \/ InjectPacket(p, v)

Drop(p) == \E v \in versions[p] : DropPacket(p, v)

Arrived(p) == \A v \in versions[p] : v.at = "arrived"

\* All packets are through.
Rest == (\A p \in Packets : Arrived(p)) /\ UNCHANGED vars

Next == (\E p \in Packets : Journey(p) \/ Drop(p)) \/ Unload \/ Rest

(* The stack passes a packet on, a classify call returns, and a frame that  *)
(* is queued leaves (QueuedLeaves of PacketQueue).                          *)
Spec == Init /\ [][Next]_vars /\ \A p \in Packets : WF_vars(Journey(p))

----------------------------------------------------------------------------
Places == {"IP", "MAC", "ShaperQueuePacket", "queue", "arrived"}

(* The types of the variables.                                              *)
TypeOK ==
  /\ handles \subseteq Handles
  /\ DOMAIN versions = Packets
  /\ \A p \in Packets : \A v \in versions[p] :
       v \in [kind : {"original", "segments", "clone"}, at : Places,
              by : SUBSET Handles]
  /\ lost \in [Packets -> {"no", "dropped", "not injected", "unloaded"}]
  /\ start \in [Packets -> {0, 14}]
  /\ retreat_failed \subseteq Packets \ Outbound
  /\ shaped \in [Packets -> 0..2] /\ cut \in [Packets -> 0..2]
  /\ driver_unloading \in BOOLEAN

(* Whatever it was turned into, no packet is delayed twice or cut twice:    *)
(* both callouts recognise what they injected themselves, although the one  *)
(* of the MAC layer takes another handle for each EtherType, and what comes *)
(* from the other callout is not taken for its own.                         *)
TakenOnce == \A p \in Packets : shaped[p] <= 1 /\ cut[p] <= 1

(* At any time exactly one version of a packet is under way, so that it     *)
(* neither disappears nor arrives twice, unless it was dropped on purpose,  *)
(* could not be injected (its handle is NULL, say) or was in a queue when   *)
(* the driver was unloaded.                                                 *)
OneVersion ==
  \A p \in Packets : Cardinality(versions[p]) = IF lost[p] = "no" THEN 1 ELSE 0

(* A packet goes on through the stack with its data where it was, unless    *)
(* NdisRetreatNetBufferDataStart failed: then it starts too late by the     *)
(* Ethernet header.                                                         *)
DataStartKept ==
  \A p \in Packets : start[p] = IF p \in retreat_failed THEN 14 ELSE 0

(* Under the fairness above every packet arrives or is lost: none goes      *)
(* round between the callouts and the queue for ever.                       *)
Arrives == \A p \in Packets : <>(Arrived(p))
=============================================================================
