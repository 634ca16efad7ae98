---------------------------- MODULE PacketSplit ----------------------------
(***************************************************************************)
(* The three routines that cut a packet into smaller ones: IPFragment and  *)
(* IPFragment_inbound (win-shaper/driver/ipfragment.c), which cut the IPv4 *)
(* packets of a list of Ethernet frames into fragments, and                *)
(* TCPandIPfragment (win-shaper/driver/IP_callout.c), which cuts a TCP     *)
(* packet into segments and injects them.  A behaviour is one call of one  *)
(* of them; a pass through its loop is one step, and whatever the routine  *)
(* asks of the kernel may fail in that step.                               *)
(*                                                                         *)
(* Payload is named by its position: a piece carries the bytes from + 1 to *)
(* from + len of the payload of one packet of the list.                    *)
(***************************************************************************)
EXTENDS Integers, Sequences, FiniteSets, SequencesExt

CONSTANTS
  Calls,      \* pairs of a routine and the NET_BUFFERs of the list it is given
  Limits,     \* the MTU (or MSS) the call may draw between its bounds
  MSSmax,     \* SELF_MSSmax
  Pads,       \* the lengths of MAC padding it may draw; 0: not enabled
  Content,    \* the bytes of a payload, over and over
  Fixed       \* the 16-bit sum of the header words that no routine changes

IP == {"IPFragment", "IPFragment_inbound"}
TCP == "TCPandIPfragment"

\* The values of a field; and numbers of 32 bits, as two words.
Below(m) == 0..(m - 1)
Words32 == Below(65536) \X Below(65536)

\* A NET_BUFFER: its protocol, header lengths, the header fields that matter,
\* and the number of bytes from the IP header on.  For a frame that is not IPv4
\* the whole of it counts as payload.
NetBuffers ==
  [ip4 : BOOLEAN, tcp : BOOLEAN, hl : Nat, thl : Nat, total : Below(65536),
   flags : 0..7, offset : Below(8192), seq : Words32,
   present : Nat]

\* Above this length an MTU below the header length, which wraps to nearly
\* 65536, would still be covered by the packet.
LongestPacket == 65491

ASSUME CallAssumption ==
  \A c \in Calls :
    /\ c \in (IP \cup {TCP}) \X Seq(NetBuffers) /\ c[2] # <<>>
    /\ \A k \in DOMAIN c[2] :
         LET b == c[2][k] IN
         /\ b.hl + b.thl <= b.total
         /\ b.total <= b.present /\ b.present <= LongestPacket
         /\ IF b.ip4 THEN b.hl \in {4*x : x \in 5..15}
            ELSE b.hl = 0 /\ b.thl = 0 /\ b.total = b.present

ASSUME SplitAssumption ==
  /\ Limits \subseteq Nat /\ MSSmax \in Nat /\ Pads \subseteq Nat
  /\ Content \in Seq(Below(256)) /\ Content # <<>> /\ Fixed \in Below(65536)

VARIABLES
  routine, list, \* the call
  limit,         \* SELF_MTU, randomMTU, randomMSS
  pad,           \* randomMacPadLen, 0 when MACpad_enable is not set
  step,          \* what the routine does next
  n,             \* index of the NET_BUFFER being dealt with
  info,          \* the one ipHeaderInfo was read from last, 0 before
  i,             \* fragments of it made
  remain,        \* remainDataLen
  pieces,        \* the NET_BUFFERs (inbound: lists of one) made, in order
  held,          \* memory taken: ipHeaderInfo, pendedPacket; for TCP segments
                 \* netBuffers and mdls
  copy,          \* the new list: "none", "live", "freed"
  start,         \* bytes by which the caller's data start was moved down
  result

call == <<routine, list>>
cutting == <<n, info, i, remain, pieces>>
kernel == <<held, copy, start>>
vars == <<call, limit, pad, step, cutting, kernel, result>>

Init ==
  /\ \E c \in Calls : routine = c[1] /\ list = c[2]
  /\ limit = 0 /\ pad = 0
  /\ step = "begin"
  /\ n = 1 /\ info = 0 /\ i = 0 /\ remain = 0 /\ pieces = <<>>
  /\ held = {} /\ copy = "none" /\ start = 0
  /\ result = "none"

----------------------------------------------------------------------------
(* Lengths.                                                                 *)

Least(a, b) == IF a < b THEN a ELSE b
Payload(k) == list[k].total - list[k].hl - (IF routine = TCP THEN list[k].thl ELSE 0)
Headers(k) == list[k].hl + (IF routine = TCP THEN list[k].thl ELSE 0)

\* The MAC header is in front of the packet in ipfragment.c.
MAC == IF routine = TCP THEN 0 ELSE 14

\* SELF_MTUpayloadLen: a multiple of 8, in 16 bits.
MTUpayload(k) == LET room == (limit - list[k].hl) % 65536 IN 8 * (room \div 8)

\* MaxFragmentNum.
FragmentCount(k) ==
  LET whole == Payload(k) \div MTUpayload(k) IN
  IF Payload(k) % MTUpayload(k) > 0 THEN whole + 1 ELSE whole

\* SELF_MDLDataSize: IPFragment leaves 0x32 bytes more for the fragments of the
\* first packet; for the others, and inbound, 0x20.
MDLDataSize(k) ==
  14 + list[k].hl + MTUpayload(k)
    + (IF routine = "IPFragment" /\ k = 1 THEN 50 ELSE 32)

\* AllocateSize, which counts on a header without options.
InboundSize(left) == left + 34 + 32

\* The size of the memory behind the next fragment.
Room ==
  IF routine = "IPFragment_inbound" /\ i > 0 /\ remain <= limit
  THEN InboundSize(remain) ELSE MDLDataSize(n)

\* Padding that does not fit is cut off.
PaddedUncut(length, cap) == length + pad  \* mutant
Padded(length, cap) == IF length + pad >= cap THEN cap ELSE length + pad

\* NdisCopyFromNetBufferToNetBuffer copies what both buffers have.
CopyFits(k, from, length, room) ==
  /\ MAC + Headers(k) + length <= room
  /\ Headers(k) + from + length <= list[k].present

----------------------------------------------------------------------------
(* Checksums and header fields.                                             *)

Sum(words) == FoldLeft(LAMBDA a, b : a + b, 0, words)

\* while (sum > 0xffff) sum = (sum >> 16) + (sum & 0xffff)
Fold[sum \in Nat] ==
  IF sum > 65535 THEN Fold[(sum \div 65536) + (sum % 65536)] ELSE sum

IPWords(p) == <<Fixed, p.total, 8192 * p.flags + p.offset>>
GetIpCheckSum(p) == 65535 - Fold[Sum(IPWords(p))]

\* The flags are or-ed over the three high bits of the 13-bit offset.
updateIPHeader(p, total, flags, offset) ==
  LET q == [p EXCEPT !.total = total % 65536, !.flags = flags,
                     !.offset = offset % 8192]
  IN [q EXCEPT !.check = GetIpCheckSum(q), !.summed = TRUE]

\* csum adds up the words as they lie in memory, the low byte first.
WordsEven(bytes) ==  \* mutant: a last byte alone is left out
  [k \in 1..(Len(bytes) \div 2) |-> bytes[2*k - 1] + 256 * bytes[2*k]]
Words(bytes) ==
  [k \in 1..((Len(bytes) + 1) \div 2) |->
     bytes[2*k - 1] + (IF 2*k <= Len(bytes) THEN 256 * bytes[2*k] ELSE 0)]
csum(bytes) == 65535 - Fold[Sum(Words(bytes))]

\* What a TCP checksum is about: the pseudo-header, the TCP header with a
\* checksum of 0, length bytes of payload.  The fixed words are given as one.
TCPBytes(p, length) ==
  LET whole == list[p.nb].thl + length IN
  <<Fixed \div 256, Fixed % 256, 0, 6, whole \div 256, whole % 256,
    p.seq[1] \div 256, p.seq[1] % 256, p.seq[2] \div 256, p.seq[2] % 256>>
  \o [k \in 1..length |-> Content[((p.from + k - 1) % Len(Content)) + 1]]

\* It returns with the old checksum in place when it gets no memory.
updateTCPchecksum(p, length, ok) ==
  IF ok THEN [p EXCEPT !.check = csum(TCPBytes(p, length)), !.summed = TRUE]
  ELSE p

\* In 32 bits, kept as two words.
updateTCPSeqNumber(seq, copied) ==
  LET low == seq[2] + copied
  IN <<(seq[1] + low \div 65536) % 65536, low % 65536>>

\* A piece of packet k, with the headers of the packet.
Piece(k, from, length, frame, room) ==
  [nb |-> k, from |-> from, len |-> length, frame |-> frame, room |-> room,
   total |-> list[k].total, flags |-> list[k].flags, offset |-> list[k].offset,
   seq |-> list[k].seq, check |-> 0, summed |-> FALSE]

----------------------------------------------------------------------------
(* Ways on and ways out.                                                    *)

GoTo(s) == step' = s /\ UNCHANGED result

\* The label EXIT of TCPandIPfragment frees what it took from the pool and the
\* list; ipfragment.c returns as it is.
Pool == {"ipHeaderInfo", "pendedPacket"}
FreedInfoOnly == {"ipHeaderInfo"}  \* mutant: pendedPacket is kept
FreedAtExit == IF routine = TCP THEN Pool ELSE {}

FailWith(taken, list_made) ==
  /\ step' = "done" /\ result' = "FALSE"
  /\ held' = (held \cup taken) \ FreedAtExit
  /\ copy' = IF routine = TCP /\ list_made = "live" THEN "freed" ELSE list_made
  /\ UNCHANGED <<cutting, start>>

Fail(list_made) == FailWith({}, list_made)

\* A NULL pointer is used, or a division by zero made, in the kernel.
Bugcheck ==
  /\ step' = "bugcheck"
  /\ UNCHANGED <<cutting, kernel, result>>

----------------------------------------------------------------------------
(* The first packet of the list.                                            *)

\* Not enabled, or the random number says no; otherwise the limits are drawn.
Begin ==
  /\ step = "begin"
  /\ \/ Fail(copy) /\ UNCHANGED <<limit, pad>>
     \/ /\ limit' \in Limits
        /\ pad' \in (IF routine = "IPFragment" THEN Pads ELSE {0})
        /\ routine = TCP => limit' <= MSSmax
        /\ GoTo("allocate")
        /\ UNCHANGED <<cutting, kernel>>
  /\ UNCHANGED call

\* ipfragment.c does not look whether it got memory for ipHeaderInfo.
Allocate ==
  /\ step = "allocate"
  /\ \/ /\ routine = TCP
        /\ \/ held' = {"pendedPacket", "ipHeaderInfo"} /\ GoTo("parse")
              /\ UNCHANGED <<cutting, copy, start>>
           \/ Fail(copy)
     \/ /\ routine # TCP
        /\ \/ /\ held' \in {{}, {"ipHeaderInfo"}}
              /\ start' = IF routine = "IPFragment_inbound" THEN 14 ELSE 0
              /\ GoTo("parse")
              /\ UNCHANGED <<cutting, copy>>
           \/ routine = "IPFragment_inbound" /\ Fail(copy)
  /\ UNCHANGED <<call, limit, pad>>

StartPacket == remain' = Payload(n) /\ i' = 0 /\ info' = n
  /\ UNCHANGED <<n, pieces>>

MayFragment(b) == b.flags \in 0..2

\* The data of the packet is mapped, its header read and looked at.
ParseIP ==
  LET b == list[1] IN
  /\ step = "parse" /\ routine # TCP
  /\ \/ Fail(copy)
     \/ b.ip4 /\ held = {} /\ Bugcheck
     \/ /\ b.ip4 /\ held # {}
        /\ b.total > limit /\ MayFragment(b)
        /\ IF MTUpayload(1) = 0 THEN Bugcheck
           ELSE StartPacket /\ GoTo("cut") /\ UNCHANGED kernel
  /\ UNCHANGED <<call, limit, pad>>

\* The new list is there before the last test.
ParseTCP ==
  LET b == list[1] IN
  /\ step = "parse" /\ routine = TCP
  /\ \/ Fail(copy)
     \/ b.tcp /\ b.total >= MSSmax /\ (b.flags = 1 \/ b.offset > 0) /\ Fail("live")
     \/ /\ b.tcp /\ b.total >= MSSmax /\ ~(b.flags = 1 \/ b.offset > 0)
        /\ copy' = "live"
        /\ StartPacket
        /\ GoTo("segment")
        /\ UNCHANGED <<held, start>>
  /\ UNCHANGED <<call, limit, pad>>

----------------------------------------------------------------------------
(* IP fragments.                                                            *)

\* The source of fragment i.
SourceByLimit(k) == i * limit   \* mutant: the payload per fragment is not it
Source(k) == i * MTUpayload(k)
CutLength(k) == IF i = 0 THEN MTUpayload(k) ELSE Least(remain, MTUpayload(k))

\* Flags of a fragment with left bytes to come after it: more fragments, but
\* for the last one, which has what the packet had.
FragmentFlagsEarly(b, left) ==  \* mutant: tested before remain is reduced
  IF remain > 0 THEN 1 ELSE b.flags % 2
FragmentFlags(b, left) == IF i = 0 \/ left > 0 THEN 1 ELSE b.flags % 2

RemainTaken(length) == remain - limit  \* mutant: too much for the last
RemainKept(length) == remain           \* mutant: the loop goes on
Remaining(length) == remain - length

\* The first packet of IPFragment is padded: the first fragment up to the size
\* of its memory, the others to that of a full fragment.
FrameLengths(length) ==
  LET frame == 14 + list[n].hl + length
      full == 14 + list[n].hl + MTUpayload(n)
  IN IF routine = "IPFragment" /\ n = 1 /\ pad > 0
     THEN {frame, Padded(frame, IF i = 0 THEN MDLDataSize(n) ELSE full)}
     ELSE {frame}

\* What is made of a later packet is chained to currentNB, which is set by the
\* first fragment of all.
Chained == n > 1 => copy # "none"

CutFragment ==
  LET b == list[n]
      length == CutLength(n)
      left == Remaining(length)
  IN /\ Chained
     /\ CopyFits(n, Source(n), length, Room)
     /\ \E frame \in FrameLengths(length) :
          pieces' = Append(pieces,
            updateIPHeader(Piece(n, Source(n), length, frame, Room),
                           list[n].hl + length, FragmentFlags(b, left),
                           b.offset + Source(n) \div 8))
     /\ remain' = left
     /\ i' = i + 1
     /\ copy' = "live"
     /\ GoTo("cut")
     /\ UNCHANGED <<n, info, held, start>>

\* When the first fragment fails the new list may not be there yet, be there,
\* or, in IPFragment, be freed and still known to the caller.
Fragment ==
  /\ step = "cut" /\ i < FragmentCount(n)
  /\ \/ CutFragment
     \/ Fail(copy)
     \/ copy = "none" /\ n = 1 /\ routine = "IPFragment" /\ Fail("freed")
     \/ copy = "none" /\ n = 1 /\ Fail("live")
     \/ routine = "IPFragment" /\ (copy # "none" \/ n > 1) /\ Bugcheck
  /\ UNCHANGED <<call, limit, pad>>

HasNextAfter(k) == k + 1 < Len(list)  \* mutant: the last is forgotten
HasNext(k) == k < Len(list)

\* IPFragment looks at remain after the first packet and after the last one.
EndPacket ==
  /\ step = "cut" /\ i = FragmentCount(n)
  /\ IF remain # 0 /\ (n = 1 \/ ~HasNext(n)) THEN Fail(copy)
     ELSE IF routine = "IPFragment" /\ HasNext(n)
     THEN n' = n + 1 /\ GoTo("next") /\ UNCHANGED <<info, i, remain, pieces, kernel>>
     ELSE step' = "done" /\ result' = "TRUE" /\ UNCHANGED <<cutting, kernel>>
  /\ UNCHANGED <<call, limit, pad>>

\* The while loop of IPFragment over the rest of the list: a frame that is not
\* IPv4, whose header is not read, or is short enough, is copied as it is.
NextPacket ==
  LET b == list[n] IN
  /\ step = "next"
  /\ \/ Fail(copy)
     \/ ~b.ip4 /\ GoTo("straight") /\ UNCHANGED <<cutting, kernel>>
     \/ /\ b.ip4 /\ b.total <= limit
        /\ info' = n
        /\ GoTo("straight")
        /\ UNCHANGED <<n, i, remain, pieces, kernel>>
     \/ /\ b.ip4 /\ b.total > limit /\ MayFragment(b)
        /\ IF MTUpayload(n) = 0 THEN Bugcheck
           ELSE StartPacket /\ GoTo("cut") /\ UNCHANGED kernel
  /\ UNCHANGED <<call, limit, pad>>

\* The checksum is computed anew when the header read last is that of a short
\* packet, whether or not it is this packet's.
StraightPiece ==
  LET b == list[n]
      p == Piece(n, 0, Payload(n), 14 + b.present, 14 + b.present)
  IN IF list[info].total <= limit
     THEN [p EXCEPT !.check = GetIpCheckSum(p), !.summed = TRUE] ELSE p

CopyStraight ==
  /\ step = "straight"
  /\ \/ /\ Chained
        /\ pieces' = Append(pieces, StraightPiece)
        /\ remain' = 0
        /\ IF HasNext(n) THEN n' = n + 1 /\ GoTo("next")
           ELSE n' = n /\ step' = "done" /\ result' = "TRUE"
        /\ UNCHANGED <<info, i, kernel>>
     \/ Fail(copy)
     \/ Bugcheck
  /\ UNCHANGED <<call, limit, pad>>

----------------------------------------------------------------------------
(* TCP segments.  The length of the first is the MSS, whatever there is; the *)
(* IP header is copied as it is, with the total length of the packet.        *)

\* remainDataLen == payloadLen: not when the MSS is 0.
First == remain = Payload(1)

SegmentLength == IF First THEN limit ELSE Least(remain, limit)
SegmentRoom == Headers(1) + Least(remain, limit)
Copied == Payload(1) - remain
SequenceOffsetOfLast == SegmentLength  \* mutant: not from the first one
SequenceOffset == Copied

\* The retreat takes an MDL; the list has a NET_BUFFER for the first segment
\* only, the others are allocated.
SegmentMemory == {"mdls"} \cup (IF First THEN {} ELSE {"netBuffers"})
MadeBefore == IF First THEN <<>> ELSE pieces

\* A pass fails with the retreat or after it.
Segment ==
  /\ step = "segment" /\ remain # 0
  /\ \/ /\ CopyFits(1, Copied, SegmentLength, SegmentRoom)
        /\ \E ok \in BOOLEAN :
             LET p == Piece(1, Copied, SegmentLength,
                            Headers(1) + SegmentLength, SegmentRoom)
                 q == updateTCPchecksum(
                   [p EXCEPT !.seq = updateTCPSeqNumber(p.seq, SequenceOffset)],
                   SegmentLength, ok)
             IN pieces' = Append(MadeBefore, q)
        /\ remain' = Remaining(SegmentLength)
        /\ held' = held \cup SegmentMemory
        /\ GoTo("segment")
        /\ UNCHANGED <<n, info, i, copy, start>>
     \/ FailWith(SegmentMemory \ {"mdls"}, copy)
     \/ FailWith(SegmentMemory, copy)
     \/ Bugcheck
  /\ UNCHANGED <<call, limit, pad>>

\* Once injected, the list and its context belong to the completion.
InjectSegments ==
  /\ step = "segment" /\ remain = 0
  /\ \/ /\ held' = held \ {"ipHeaderInfo"}
        /\ step' = "injected" /\ result' = "TRUE"
        /\ UNCHANGED <<cutting, copy, start>>
     \/ Fail(copy)
  /\ UNCHANGED <<call, limit, pad>>

\* FwpsFreeNetBufferList is given the list, not what was chained to it.
IPInjectionComplete ==
  /\ step = "injected"
  /\ held' = held \ {"pendedPacket"}
  /\ copy' = "freed"
  /\ GoTo("done")
  /\ UNCHANGED <<call, limit, pad, cutting, start>>

----------------------------------------------------------------------------
IPFragment ==
  ParseIP \/ Fragment \/ EndPacket \/ NextPacket \/ CopyStraight

TCPandIPfragment ==
  ParseTCP \/ Segment \/ InjectSegments \/ IPInjectionComplete

Run == Begin \/ Allocate \/ IPFragment \/ TCPandIPfragment

\* The call has returned, or the machine is stopped.
Rest == step \in {"done", "bugcheck"} /\ UNCHANGED vars

Next == Run \/ Rest

Spec == Init /\ [][Next]_vars

----------------------------------------------------------------------------
End(p) == p.from + p.len
LastOf(s) == s[Len(s)]

\* The last packet the routine looks at.  IPFragment walks the list; the others
\* take the first NET_BUFFER, and what is behind it in the list, which the
\* caller absorbs with the first, goes nowhere.
LastPacket == IF routine = "IPFragment" THEN Len(list) ELSE 1

\* Cut in pieces, and not copied straight.
IsCut(p) == list[p.nb].ip4 /\ list[p.nb].total > limit /\ routine # TCP

Pieces ==
  [nb : Nat, from : Nat, len : Nat, frame : Nat, room : Nat, total : Below(65536),
   flags : 0..7, offset : Below(8192), seq : Words32,
   check : Int, summed : BOOLEAN]

(* The types of the variables; what is still to be copied never wraps below *)
(* 0, and the NET_BUFFER and the header in use are ones of the list.        *)
TypeOK ==
  /\ <<routine, list>> \in Calls
  /\ limit \in Nat /\ pad \in Nat
  /\ step \in {"begin", "allocate", "parse", "cut", "next", "straight",
               "segment", "injected", "done", "bugcheck"}
  /\ n \in DOMAIN list /\ info \in 0..n
  /\ i \in Nat /\ remain \in Nat
  /\ pieces \in Seq(Pieces)
  /\ held \subseteq Pool \cup {"netBuffers", "mdls"}
  /\ copy \in {"none", "live", "freed"} /\ start \in {0, 14}
  /\ result \in {"none", "TRUE", "FALSE"}

\* Packets that have nothing but a header: cut, they leave no piece.
AllHeader(first, last) == \A k \in first..last : Payload(k) = 0

\* Piece k begins where the one before it ended, or with the next packet once
\* the one before is used up.
TiledAt(k) ==
  LET p == pieces[k] IN
  /\ End(p) <= Payload(p.nb)
  /\ IF k = 1 THEN p.nb = 1 /\ p.from = 0
     ELSE LET q == pieces[k-1] IN
          \/ p.nb = q.nb /\ p.from = End(q) /\ p.len > 0
          \/ /\ p.nb > q.nb /\ AllHeader(q.nb + 1, p.nb - 1)
             /\ p.from = 0 /\ End(q) = Payload(q.nb)

(* The pieces carry the payloads of the list in order, each byte once (the  *)
(* source offsets of the three loops).                                      *)
Tiling == \A k \in DOMAIN pieces : TiledAt(k)

(* When the routine says TRUE the new list is there and carries all the     *)
(* payload of packets 1 to LastPacket, and nothing of the packets behind    *)
(* them: those are lost when the caller absorbs the list (MaxFragmentNum,   *)
(* the while over the NET_BUFFERs of the list, while (remainDataLen)).  If  *)
(* none of the packets has payload there need not be a list.                *)
Complete ==
  result = "TRUE" =>
    /\ \/ /\ pieces # <<>> /\ End(LastOf(pieces)) = Payload(LastOf(pieces).nb)
          /\ AllHeader(LastOf(pieces).nb + 1, LastPacket)
          /\ copy = "live" \/ (routine = TCP /\ step = "done")
       \/ AllHeader(1, LastPacket)
    /\ pieces # <<>> => LastOf(pieces).nb <= LastPacket

(* The receiver can put the fragments together: the offset of each is that  *)
(* of its data, in units of 8 bytes that all but the last fill, only the    *)
(* last may say that no more follow, and the total length is its own.       *)
FragmentHeaders ==
  \A k \in DOMAIN pieces :
    LET p == pieces[k]
        b == list[p.nb]
        last == End(p) = Payload(p.nb)
    IN IsCut(p) =>
         /\ p.total = b.hl + p.len
         /\ p.from % 8 = 0 /\ p.offset = (b.offset + p.from \div 8) % 8192
         /\ p.flags = IF last THEN b.flags % 2 ELSE 1

(* No piece is longer than the memory allocated for it; a segment is no     *)
(* longer than the MSS, and a fragment, its padding left out, than the MTU. *)
(* The padding keeps the frame of every fragment within the MTU but that of *)
(* the first of a list, which it may carry 0x32 bytes beyond it.            *)
Excess(k) == IF k = 1 THEN 50 ELSE 0

PieceFits ==
  \A k \in DOMAIN pieces :
    LET p == pieces[k] IN
    /\ MAC + Headers(p.nb) + p.len <= p.frame
    /\ p.frame <= p.room
    /\ routine = TCP => p.len <= limit
    /\ IsCut(p) => p.total <= limit /\ p.frame <= 14 + limit + Excess(k)

(* A segment's sequence number is that of the one before it advanced by the *)
(* payload of that one, in 32 bits; the first keeps the packet's.           *)
SequenceContinues ==
  routine = TCP => \A k \in DOMAIN pieces :
    pieces[k].seq = IF k = 1 THEN list[1].seq
                    ELSE updateTCPSeqNumber(pieces[k-1].seq, pieces[k-1].len)

\* The sum a receiver makes of the words as the network orders them.
ReceiverSum(bytes) ==
  Sum([k \in 1..((Len(bytes) + 1) \div 2) |->
         256 * bytes[2*k - 1] + (IF 2*k <= Len(bytes) THEN bytes[2*k] ELSE 0)])

\* A receiver that goes by what arrived: all that is behind the two headers.
Arrived(p) == p.frame - Headers(p.nb)

(* A receiver that adds up the words of a header and its checksum gets all  *)
(* ones: for every header updateIPHeader wrote, and for every segment that  *)
(* updateTCPchecksum got memory for, if the receiver takes the TCP length   *)
(* from the bytes that arrived, and not from the total length in the IP     *)
(* header, which SegmentTotals is about; and though csum works on the words *)
(* of a little-endian machine and the receiver on those of the network.     *)
(* Frames that are not IPv4 are left out: their bytes are not in the model. *)
ChecksumsVerify ==
  \A k \in DOMAIN pieces :
    LET p == pieces[k]
        swapped == 256 * (p.check % 256) + p.check \div 256
    IN p.summed /\ list[p.nb].ip4 =>
         IF routine = TCP
         THEN Fold[ReceiverSum(TCPBytes(p, Arrived(p))) + swapped] = 65535
         ELSE Fold[Sum(IPWords(p)) + p.check] = 65535

(* Every segment's IP header says how long the segment is, as the README    *)
(* says (updateIPHeader, in TCPandIPfragment).                              *)
SegmentTotals ==
  routine = TCP => \A k \in DOMAIN pieces :
    pieces[k].total = Headers(1) + pieces[k].len

(* However far TCPandIPfragment came before something failed, what it took  *)
(* from the pool and the list is given back; and when it injects, the       *)
(* completion does that.  What the segments were made of is not: the MDLs   *)
(* and, from the second segment on, the NET_BUFFERs stay allocated.         *)
OnlySegmentsStay ==
  routine = TCP /\ step = "done" =>
    /\ held \cap Pool = {} /\ copy # "live"
    /\ pieces # <<>> => "mdls" \in held
    /\ Len(pieces) > 1 => "netBuffers" \in held
    /\ pieces = <<>> => held \subseteq {"mdls"}

(* No pass through a loop leaves as much to do as there was: what remains   *)
(* of the packet is reduced, or the next packet taken (the loops over the   *)
(* fragments, the segments, and the NET_BUFFERs of the list).  With an MSS  *)
(* of 0 each pass over the segments leaves just what there was, and nothing *)
(* but a failure ends the call.                                             *)
LoopsEnd ==
  [][/\ step' = step => IF routine = TCP /\ limit = 0 THEN remain' = remain
                        ELSE remain' < remain
     /\ step' = "next" => n' > n]_vars
=============================================================================
