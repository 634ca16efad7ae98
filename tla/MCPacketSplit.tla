--------------------------- MODULE MCPacketSplit ---------------------------
(***************************************************************************)
(* An instance of PacketSplit for TLC: packets with and without IP options,*)
(* a few fragments long, at the edges of the header fields; lists that mix *)
(* long and short packets and frames of other protocols.                   *)
(***************************************************************************)
EXTENDS PacketSplit

Packet(hl, thl, payload, flags, offset) ==
  [ip4 |-> TRUE, tcp |-> thl > 0, hl |-> hl, thl |-> thl,
   total |-> hl + thl + payload, flags |-> flags, offset |-> offset,
   seq |-> <<65535, 65530>>, present |-> hl + thl + payload]

Long == Packet(20, 0, 80, 2, 0)       \* may not be fragmented, and is
Uneven == Packet(20, 0, 67, 1, 8188)  \* a fragment near the largest offset
Options == Packet(60, 0, 75, 0, 0)    \* the longest header
Odd == Packet(20, 0, 67, 3, 0)        \* both flags
Short == Packet(20, 0, 6, 0, 0)
Other == [Packet(0, 0, 46, 0, 0) EXCEPT !.ip4 = FALSE]
Header == Packet(60, 0, 0, 0, 0)      \* no payload at all
Padding == [Uneven EXCEPT !.present = @ + 9]  \* bytes after the packet

MCFragmentLists ==
  {<<Long>>, <<Uneven>>, <<Options>>, <<Odd>>, <<Short>>, <<Other>>, <<Padding>>,
   <<Long, Short>>, <<Uneven, Options>>, <<Long, Short, Other>>,
   <<Uneven, Other, Long>>, <<Long, Odd>>,
   <<Header, Short>>, <<Long, Header, Short>>, <<Long, Header>>, <<Header>>}

MCTcpLists ==
  {<<Packet(20, 20, 35, 0, 0)>>, <<Packet(24, 32, 16, 2, 0)>>,
   <<Packet(20, 20, 18, 0, 0)>>, <<Packet(20, 20, 36, 1, 0)>>,
   <<Packet(20, 20, 36, 0, 7)>>, <<Packet(20, 40, 0, 0, 0)>>,
   <<Packet(20, 20, 9, 0, 0)>>, <<Packet(20, 20, 35, 0, 0), Long>>, <<Long>>}

MCCalls ==
  ({"IPFragment", "IPFragment_inbound"} \X MCFragmentLists)
    \cup ({"TCPandIPfragment"} \X MCTcpLists)

MCContent == <<255, 0, 1, 170, 254, 85, 255>>
=============================================================================
