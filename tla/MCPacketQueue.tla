---------------------------- MODULE MCPacketQueue ----------------------------
(***************************************************************************)
(* Instances of PacketQueue for TLC, and the properties that add up bytes. *)
(***************************************************************************)
EXTENDS PacketQueue, SequencesExt

CONSTANTS o1, o2, t1, t2, ioctl, unloader

\* Two frames, one as long as Ethernet allows and a shorter one: both of them
\* outbound, or one in each direction.
MCDir == [p \in Packets |-> "outbound"]
MCDirBoth == [p \in Packets |-> IF p = o1 THEN "outbound" ELSE "inbound"]
MCBytes == [p \in Packets |-> IF p = o1 THEN 1514 ELSE 1000]

\* The same parameters for both directions; a count of the clock is 1 ms.
MCFreq == 1000
Both(l) == [d \in Directions |-> l]

\* 6 Mbit/s, 750 bytes in a millisecond; 1 ms of latency; room for both.
Shaped ==
  Both([plr |-> 0, bps |-> 6000000, latency |-> 1, bufferBytes |-> 2514])

\* Half the packets lost, room for either.
Lossy ==
  Both([plr |-> 5000, bps |-> 6000000, latency |-> 0, bufferBytes |-> 2000])

\* No limit on the rate or the buffer, latency only.
Delayed == Both([plr |-> 0, bps |-> 0, latency |-> 1, bufferBytes |-> 0])

\* 4 kbit/s: half a byte in a millisecond.
Slow == Both([plr |-> 0, bps |-> 4000, latency |-> 0, bufferBytes |-> 0])

MCShaped == {Shaped}
MCLossy == {Lossy}
MCMixed == {Shaped, Lossy, Delayed}
MCSlow == {Slow}

MCTimers == Permutations(Timers)
----------------------------------------------------------------------------
\* The bytes in the bandwidth queue of d.
Sizes(list) == [i \in DOMAIN list |-> Bytes[list[i]]]
BytesIn(list) == FoldLeft(LAMBDA a, b : a + b, 0, Sizes(list))
ListBytes(d) == BytesIn(bandwidth[d])

Gap(d) == (queued_bytes[d] - ListBytes(d)) % W

\* A step of ShaperEnable that sets the queue of d up, or of the unloading.
ResetsQueue(d) ==
  \/ /\ pc'[Ioctl] # pc[Ioctl]
     /\ pc'[Ioctl] = IF d = "inbound" THEN "enable_out" ELSE "enable_flag"
  \/ \E u \in Unloaders : pc'[u] # pc[u]

(* queued_bytes follows the bandwidth queue byte for byte through inserts,  *)
(* moves and concurrent ProcessQueue calls; only ShaperEnable, which zeroes *)
(* it whatever is queued, and DropQueue, which leaves it, change the gap    *)
(* between the two.                                                         *)
ByteAccounting ==
  [][\A d \in Directions : ResetsQueue(d) \/ Gap(d)' = Gap(d)]_vars

(* packet_queue.c:67 and interface.h:23 say that queued_bytes is the size   *)
(* of the packets pending in the queue.                                     *)
QueuedBytesIsPending == \A d \in Directions : queued_bytes[d] = ListBytes(d)

(* interface.h:17: packets that overflow the buffer are dropped, so what is *)
(* queued never exceeds bufferBytes while the limits in force are in use.   *)
BufferNotExceeded ==
  \A d \in Directions :
    enabled /\ limits[d].bufferBytes > 0 =>
      ListBytes(d) <= limits[d].bufferBytes
=============================================================================
