-------------------------- MODULE PacketSplitProofs --------------------------
(***************************************************************************)
(* Proofs about PacketSplit, for any lists of packets, any MTU, MSS and    *)
(* padding: the pieces carry the payload of the packets looked at, once    *)
(* and in order, and all of it when the routine reports success; what      *)
(* their headers and checksums are; and what TCPandIPfragment gives back.  *)
(***************************************************************************)
EXTENDS PacketSplit, FoldProofs, TLAPS

----------------------------------------------------------------------------
(* Arithmetic.                                                              *)

LEMMA Divide ==
  ASSUME NEW P \in Nat, NEW M \in Nat \ {0}
  PROVE  P \div M \in Nat /\ P % M \in 0..(M - 1) /\ P = M * (P \div M) + (P % M)
  OBVIOUS

LEMMA Times ==
  ASSUME NEW a \in Nat, NEW b \in Nat, NEW M \in Nat, a <= b
  PROVE  a * M \in Nat /\ a * M <= b * M /\ (a + 1) * M = a * M + M
<1>1. PICK d \in Nat : b = a + d
  OBVIOUS
<1>2. b * M = a * M + d * M /\ d * M \in Nat
  BY <1>1
<1> QED
  BY <1>2

\* P bytes, M at a time, take so many pieces.
LEMMA Pieces_of ==
  ASSUME NEW P \in Nat, NEW M \in Nat \ {0}, NEW K,
         K = IF P % M > 0 THEN P \div M + 1 ELSE P \div M
  PROVE  /\ K \in Nat
         /\ \A j \in Nat : /\ j * M \in Nat /\ (j + 1) * M = j * M + M
                           /\ j < K => j * M < P
                           /\ j >= K => j * M >= P
<1>1. P \div M \in Nat /\ P % M \in 0..(M - 1) /\ P = M * (P \div M) + (P % M)
  BY Divide
<1>2. ASSUME NEW j \in Nat
      PROVE  /\ j * M \in Nat /\ (j + 1) * M = j * M + M
             /\ j < K => j * M < P
             /\ j >= K => j * M >= P
  <2>1. j * M \in Nat /\ (j + 1) * M = j * M + M
    BY Times
  <2>2. CASE j <= P \div M
    <3>1. j * M <= (P \div M) * M
      BY <1>1, <2>2, Times
    <3>2. j < P \div M => (j + 1) * M <= (P \div M) * M
      BY <1>1, <2>2, Times
    <3>3. (P \div M) * M = M * (P \div M)
      BY <1>1
    <3> QED
      BY <1>1, <2>1, <2>2, <3>1, <3>2, <3>3
  <2>3. CASE j >= P \div M + 1
    <3>1. (P \div M + 1) * M <= j * M
      BY <1>1, <2>3, Times
    <3>2. (P \div M + 1) * M = M * (P \div M) + M
      BY <1>1
    <3> QED
      BY <1>1, <2>1, <2>3, <3>1, <3>2
  <2> QED
    BY <1>1, <2>2, <2>3
<1> QED
  BY <1>1, <1>2

----------------------------------------------------------------------------
(* Packets.                                                                 *)

LEMMA NetBufferFields ==
  ASSUME NEW b \in NetBuffers
  PROVE  /\ b.hl \in Nat /\ b.thl \in Nat /\ b.present \in Nat
         /\ b.total \in Nat /\ b.total <= 65535
<1>1. b.hl \in Nat /\ b.thl \in Nat /\ b.present \in Nat
  BY DEF NetBuffers
<1>2. b.total \in Below(65536)
  BY DEF NetBuffers
<1>3. \A x \in Below(65536) : x \in Nat /\ x <= 65535
  BY DEF Below
<1> QED
  BY <1>1, <1>2, <1>3

LEMMA CallFacts ==
  ASSUME NEW c \in Calls
  PROVE  /\ c[1] \in IP \cup {TCP} /\ c[2] \in Seq(NetBuffers) /\ c[2] # <<>>
         /\ \A k \in DOMAIN c[2] :
              /\ c[2][k].hl + c[2][k].thl <= c[2][k].total
              /\ c[2][k].total <= c[2][k].present /\ c[2][k].present <= 65491
              /\ c[2][k].ip4 => c[2][k].hl \in {4*x : x \in 5..15}
<1>1. ASSUME NEW k \in DOMAIN c[2]
      PROVE  /\ c[2][k].hl + c[2][k].thl <= c[2][k].total
             /\ c[2][k].total <= c[2][k].present /\ c[2][k].present <= 65491
             /\ c[2][k].ip4 => c[2][k].hl \in {4*x : x \in 5..15}
  BY CallAssumption DEF LongestPacket
<1>2. c \in (IP \cup {TCP}) \X Seq(NetBuffers) /\ c[2] # <<>>
  BY CallAssumption
<1> QED
  BY <1>1, <1>2

LEMMA Packets ==
  ASSUME <<routine, list>> \in Calls
  PROVE  /\ routine \in IP \cup {TCP} /\ Len(list) \in Nat \ {0}
         /\ DOMAIN list = 1..Len(list)
         /\ \A k \in DOMAIN list :
              /\ list[k].hl \in Nat /\ list[k].thl \in Nat /\ list[k].total \in Nat
              /\ list[k].present \in Nat /\ list[k].total <= 65535
              /\ list[k].hl + list[k].thl <= list[k].total
              /\ list[k].total <= list[k].present /\ list[k].present <= 65491
              /\ list[k].ip4 => list[k].hl >= 20 /\ list[k].hl <= 60
              /\ Payload(k) \in Nat /\ Headers(k) \in Nat
<1>1. /\ routine \in IP \cup {TCP} /\ list \in Seq(NetBuffers) /\ list # <<>>
      /\ \A k \in DOMAIN list :
           /\ list[k].hl + list[k].thl <= list[k].total
           /\ list[k].total <= list[k].present /\ list[k].present <= 65491
           /\ list[k].ip4 => list[k].hl \in {4*x : x \in 5..15}
  <2>1. <<routine, list>>[1] = routine /\ <<routine, list>>[2] = list
    OBVIOUS
  <2> QED
    BY <2>1, CallFacts
<1>2. Len(list) \in Nat \ {0} /\ DOMAIN list = 1..Len(list)
  BY <1>1
<1>3. ASSUME NEW k \in DOMAIN list
      PROVE  /\ list[k].hl \in Nat /\ list[k].thl \in Nat /\ list[k].total \in Nat
             /\ list[k].present \in Nat /\ list[k].total <= 65535
             /\ list[k].hl + list[k].thl <= list[k].total
             /\ list[k].total <= list[k].present /\ list[k].present <= 65491
             /\ list[k].ip4 => list[k].hl >= 20 /\ list[k].hl <= 60
             /\ Payload(k) \in Nat /\ Headers(k) \in Nat
  <2>1. list[k] \in NetBuffers
    BY <1>1
  <2>2. /\ list[k].hl \in Nat /\ list[k].thl \in Nat /\ list[k].total \in Nat
        /\ list[k].present \in Nat /\ list[k].total <= 65535
    BY <2>1, NetBufferFields
  <2>3. /\ list[k].hl + list[k].thl <= list[k].total
        /\ list[k].total <= list[k].present /\ list[k].present <= 65491
    BY <1>1
  <2>4. list[k].ip4 => list[k].hl >= 20 /\ list[k].hl <= 60
    BY <1>1
  <2>5. Payload(k) \in Nat /\ Headers(k) \in Nat
    BY <2>2, <2>3 DEF Payload, Headers
  <2> QED
    BY <2>2, <2>3, <2>4, <2>5
<1> QED
  BY <1>1, <1>2, <1>3

\* A limit below the header length wraps, and no packet has so much to copy.
LEMMA FirstFits ==
  ASSUME <<routine, list>> \in Calls, routine \in IP, NEW k \in DOMAIN list,
         limit \in Limits, list[k].ip4, list[k].total > limit, MTUpayload(k) # 0
  PROVE  /\ MTUpayload(k) \in Nat \ {0} /\ MTUpayload(k) % 8 = 0
         /\ \A room : CopyFits(k, 0, MTUpayload(k), room) =>
              list[k].hl + MTUpayload(k) <= limit /\ MTUpayload(k) < Payload(k)
<1> DEFINE hl == list[k].hl
           wrapped == (limit - hl) % 65536
<1>1. /\ limit \in Nat /\ limit < 65536 /\ hl \in Nat /\ hl >= 20 /\ hl <= 60
      /\ list[k].present <= 65491 /\ list[k].present \in Nat /\ list[k].total \in Nat
  <2>1. limit \in Nat
    BY SplitAssumption
  <2>2. /\ list[k].total \in Nat /\ list[k].total <= 65535 /\ list[k].ip4
        /\ hl \in Nat /\ hl >= 20 /\ hl <= 60
        /\ list[k].present <= 65491 /\ list[k].present \in Nat
    BY Packets
  <2> QED
    BY <2>1, <2>2
<1>2. MTUpayload(k) = 8 * (wrapped \div 8)
  BY DEF MTUpayload
<1>a. wrapped \in Nat /\ wrapped < 65536
  BY <1>1
<1> HIDE DEF wrapped
<1>3. MTUpayload(k) \in Nat /\ MTUpayload(k) % 8 = 0
      /\ MTUpayload(k) <= wrapped /\ MTUpayload(k) > wrapped - 8
  BY <1>2, <1>a
<1>4. IF limit >= hl THEN wrapped = limit - hl ELSE wrapped = limit - hl + 65536
  BY <1>1 DEF wrapped
<1>5. Payload(k) = list[k].total - hl
  BY <1>1 DEF Payload, IP, TCP
<1>6. Headers(k) = hl
  BY <1>1 DEF Headers, IP, TCP
<1>7. ASSUME NEW room, CopyFits(k, 0, MTUpayload(k), room)
      PROVE  hl + MTUpayload(k) <= limit /\ MTUpayload(k) < Payload(k)
  <2>1. hl + MTUpayload(k) <= list[k].present
    BY <1>1, <1>3, <1>6, <1>7 DEF CopyFits
  <2>2. limit >= hl
    BY <1>1, <1>3, <1>4, <2>1
  <2> QED
    BY <1>1, <1>3, <1>4, <1>5, <2>2
<1> QED
  BY <1>3, <1>7

----------------------------------------------------------------------------
(* Sequences of pieces.  What a checksum is, is not known here, so that the *)
(* set the pieces are from is not named.                                    *)
IsSeq(s) == \E S : s \in Seq(S)

LEMMA EmptyIsSeq == IsSeq(<<>>)
  BY DEF IsSeq

LEMMA Appended ==
  ASSUME NEW s, IsSeq(s), NEW e
  PROVE  /\ IsSeq(Append(s, e)) /\ Append(s, e) # <<>> /\ LastOf(Append(s, e)) = e
         /\ Len(s) \in Nat /\ DOMAIN s = 1..Len(s) /\ (s = <<>> <=> Len(s) = 0)
         /\ DOMAIN Append(s, e) = 1..(Len(s) + 1)
         /\ Len(Append(s, e)) = Len(s) + 1
         /\ Append(s, e)[Len(s) + 1] = e
         /\ \A k \in 1..Len(s) : Append(s, e)[k] = s[k]
<1>1. PICK S : s \in Seq(S)
  BY DEF IsSeq
<1>2. s \in Seq(S \cup {e}) /\ e \in S \cup {e}
  BY <1>1
<1>3. Append(s, e) \in Seq(S \cup {e}) /\ Len(Append(s, e)) = Len(s) + 1
  BY <1>2
<1>4. /\ Append(s, e)[Len(s) + 1] = e
      /\ \A k \in 1..Len(s) : Append(s, e)[k] = s[k]
  BY <1>2
<1>5. Len(s) \in Nat /\ DOMAIN s = 1..Len(s) /\ (s = <<>> <=> Len(s) = 0)
  BY <1>1
<1> QED
  BY <1>3, <1>4, <1>5 DEF IsSeq, LastOf

----------------------------------------------------------------------------
(* The invariant.                                                           *)

(* Packet k comes next.                                                     *)
Before(k) ==
  IF pieces = <<>> THEN AllHeader(1, k - 1)
  ELSE LET q == LastOf(pieces)
       IN q.nb < k /\ AllHeader(q.nb + 1, k - 1) /\ End(q) = Payload(q.nb)

(* i pieces of packet n have been made.                                     *)
Within ==
  IF i = 0 THEN Before(n)
  ELSE /\ pieces # <<>> /\ LastOf(pieces).nb = n
       /\ End(LastOf(pieces)) = Payload(n) - remain

(* What is left of total after used.                                        *)
Left(total, used) == IF used <= total THEN total - used ELSE 0

Cutting ==
  /\ MTUpayload(n) # 0 /\ list[n].ip4 /\ list[n].total > limit
  /\ i <= FragmentCount(n)
  /\ remain = Left(Payload(n), i * MTUpayload(n))

(* The last segment ends where the next begins; with an MSS of 0 there is    *)
(* no next one.                                                             *)
Segmented ==
  /\ n = 1 /\ remain \in Nat /\ remain <= Payload(1)
  /\ First \/ (pieces # <<>> /\ limit # 0)
  /\ pieces # <<>> => /\ LastOf(pieces).nb = 1
                      /\ End(LastOf(pieces)) = Payload(1) - remain

Starting == {"begin", "allocate", "parse"}
Fragmenting == {"cut", "next", "straight"}
Working == Starting \cup Fragmenting \cup {"segment"}

Shape ==
  /\ <<routine, list>> \in Calls
  /\ n \in DOMAIN list /\ i \in Nat
  /\ IsSeq(pieces)
  /\ \A k \in DOMAIN pieces :
       pieces[k].nb \in DOMAIN list /\ pieces[k].from \in Nat /\ pieces[k].len \in Nat

Place ==
  /\ step \in Working \ {"begin"} => limit \in Limits
  /\ step \in Working => result = "none"
  /\ step \in Starting => n = 1 /\ i = 0 /\ pieces = <<>>
  /\ step \in Starting \cup Fragmenting =>
       copy = IF pieces = <<>> THEN "none" ELSE "live"
  /\ step \in Fragmenting => routine \in IP
  /\ step \in {"next", "straight"} => routine = "IPFragment" /\ n > 1 /\ Before(n)
  /\ step = "cut" => Cutting /\ Within
  /\ step = "segment" => Segmented
  /\ step \in {"segment", "injected"} => routine = TCP /\ copy = "live"
  /\ routine # "IPFragment" => n = 1

Kept ==
  /\ held \subseteq Pool \cup {"netBuffers", "mdls"}
  /\ step \in {"begin", "allocate"} => held = {}
  /\ step = "injected" => "ipHeaderInfo" \notin held
  /\ routine = TCP =>
       /\ pieces = <<>> /\ step # "done" => held \subseteq Pool
       /\ pieces # <<>> => "mdls" \in held
       /\ Len(pieces) > 1 => "netBuffers" \in held
  /\ OnlySegmentsStay

SplitInv == Shape /\ Place /\ Kept /\ Tiling /\ Complete

----------------------------------------------------------------------------
(* What depends on the list alone.                                          *)
LEMMA SameList ==
  ASSUME UNCHANGED call
  PROVE  /\ \A k : Payload(k)' = Payload(k) /\ Headers(k)' = Headers(k)
         /\ \A a, b : AllHeader(a, b)' = AllHeader(a, b)
         /\ LastPacket' = LastPacket
         /\ routine' = routine /\ list' = list
  BY DEF call, Payload, Headers, AllHeader, LastPacket

LEMMA SamePieces ==
  ASSUME UNCHANGED <<call, pieces>>
  PROVE  /\ Tiling => Tiling'
         /\ \A k : Before(k) => Before(k)'
  BY SameList DEF Tiling, TiledAt, End, Before, LastOf

(* A piece that goes where the last one ends.                               *)
LEMMA NewPiece ==
  ASSUME Shape, Tiling, UNCHANGED call, NEW p,
         NEW old \in {pieces, <<>>}, pieces' = Append(old, p),
         p.nb \in DOMAIN list, p.from \in Nat, p.len \in Nat,
         End(p) <= Payload(p.nb),
         IF old = <<>> THEN p.nb = 1 /\ p.from = 0
         ELSE LET q == LastOf(old) IN
              \/ p.nb = q.nb /\ p.from = End(q) /\ p.len > 0
              \/ /\ p.nb > q.nb /\ AllHeader(q.nb + 1, p.nb - 1)
                 /\ p.from = 0 /\ End(q) = Payload(q.nb)
  PROVE  /\ Tiling' /\ IsSeq(pieces') /\ pieces' # <<>> /\ LastOf(pieces') = p
         /\ \A k \in DOMAIN pieces' :
              /\ pieces'[k].nb \in DOMAIN list' /\ pieces'[k].from \in Nat
              /\ pieces'[k].len \in Nat
<1>0. IsSeq(old) /\ (old # <<>> => old = pieces)
  BY EmptyIsSeq DEF Shape
<1>1. /\ IsSeq(pieces') /\ pieces' # <<>> /\ LastOf(pieces') = p
      /\ Len(old) \in Nat /\ DOMAIN old = 1..Len(old)
      /\ old = <<>> <=> Len(old) = 0
      /\ DOMAIN pieces' = 1..(Len(old) + 1)
      /\ pieces'[Len(old) + 1] = p
      /\ \A k \in 1..Len(old) : pieces'[k] = old[k]
  BY <1>0, Appended
<1>2. list' = list /\ \A k : Payload(k)' = Payload(k)
  BY SameList
<1>3. ASSUME NEW k \in DOMAIN pieces'
      PROVE  /\ pieces'[k].nb \in DOMAIN list' /\ pieces'[k].from \in Nat
             /\ pieces'[k].len \in Nat
  <2>1. CASE k \in 1..Len(old)
    BY <1>0, <1>1, <1>2, <2>1 DEF Shape
  <2>2. CASE k = Len(old) + 1
    BY <1>1, <1>2, <2>2
  <2> QED
    BY <1>1, <2>1, <2>2
<1>4. ASSUME NEW k \in DOMAIN pieces' PROVE TiledAt(k)'
  <2>1. CASE k \in 1..Len(old)
    <3>1. /\ TiledAt(k) /\ pieces'[k] = pieces[k]
          /\ k # 1 => pieces'[k-1] = pieces[k-1]
      BY <1>0, <1>1, <2>1 DEF Tiling
    <3> QED
      BY <3>1 DEF TiledAt, End, Payload, AllHeader, call
  <2>2. CASE k = Len(old) + 1
    <3>1. /\ pieces'[k] = p
          /\ k # 1 => old # <<>> /\ pieces'[k-1] = LastOf(old)
          /\ k = 1 => old = <<>>
      <4>1. k - 1 = Len(old) /\ (k # 1 => Len(old) \in 1..Len(old))
        BY <1>1, <2>2
      <4>2. k # 1 => pieces'[Len(old)] = old[Len(old)]
        BY <1>1, <4>1
      <4>3. LastOf(old) = old[Len(old)]
        BY DEF LastOf
      <4>4. pieces'[k] = p
        BY <1>1, <2>2
      <4>5. k = 1 => old = <<>>
        BY <1>1, <2>2
      <4>6. k # 1 => old # <<>>
        BY <1>1, <2>2
      <4> QED
        BY <4>1, <4>2, <4>3, <4>4, <4>5, <4>6
    <3> QED
      BY <3>1 DEF TiledAt, End, Payload, AllHeader, call
  <2> QED
    BY <1>1, <2>1, <2>2
<1>5. Tiling'
  BY <1>4 DEF Tiling
<1> QED
  BY <1>1, <1>3, <1>5

(* The ways out.                                                            *)
LEMMA FailWithStep ==
  ASSUME SplitInv, UNCHANGED call, step # "done",
         NEW made \in {"none", "live", "freed"}, NEW taken, FailWith(taken, made),
         taken \subseteq {"netBuffers", "mdls"},
         routine = TCP /\ pieces = <<>> => taken \subseteq {"mdls"}
  PROVE  SplitInv'
<1>1. /\ step' = "done" /\ result' = "FALSE" /\ UNCHANGED <<n, i, pieces>>
      /\ routine = TCP => copy' # "live"
      /\ held' = (held \cup taken) \ FreedAtExit
  BY DEF FailWith, cutting
<1>2. Shape' /\ Tiling'
  BY <1>1, SamePieces, SameList DEF SplitInv, Shape
<1>3. Place'
  BY <1>1, SameList DEF SplitInv, Place, Working, Starting, Fragmenting
<1>4. held' \subseteq Pool \cup {"netBuffers", "mdls"}
  BY <1>1 DEF SplitInv, Kept
<1>5. ASSUME routine = TCP
      PROVE  /\ held' \cap Pool = {}
             /\ pieces # <<>> => "mdls" \in held'
             /\ Len(pieces) > 1 => "netBuffers" \in held'
             /\ pieces = <<>> => held' \subseteq {"mdls"}
  <2>1. held' = (held \cup taken) \ Pool
    BY <1>1, <1>5 DEF FreedAtExit
  <2> QED
    BY <1>5, <2>1 DEF SplitInv, Kept, Pool
<1>6. Kept' /\ Complete'
  BY <1>1, <1>4, <1>5, SameList DEF Kept, OnlySegmentsStay, Complete
<1> QED
  BY <1>2, <1>3, <1>6 DEF SplitInv

LEMMA FailStep ==
  ASSUME SplitInv, UNCHANGED call, step # "done",
         NEW made \in {"none", "live", "freed"}, Fail(made)
  PROVE  SplitInv'
  BY FailWithStep DEF Fail

LEMMA BugcheckStep ==
  ASSUME SplitInv, UNCHANGED call, Bugcheck, result = "none", step # "done"
  PROVE  SplitInv'
<1>1. step' = "bugcheck" /\ UNCHANGED <<n, i, pieces, held, result>>
  BY DEF Bugcheck, cutting, kernel
<1>2. Shape' /\ Tiling'
  BY <1>1, SamePieces, SameList DEF SplitInv, Shape
<1>3. Place'
  BY <1>1, SameList DEF SplitInv, Place, Working, Starting, Fragmenting
<1>4. Kept' /\ Complete'
  BY <1>1, SameList DEF SplitInv, Kept, OnlySegmentsStay, Complete
<1> QED
  BY <1>2, <1>3, <1>4 DEF SplitInv

----------------------------------------------------------------------------
(* The actions.                                                             *)

LEMMA SameLimit ==
  ASSUME UNCHANGED <<call, limit>>
  PROVE  \A k : MTUpayload(k)' = MTUpayload(k) /\ FragmentCount(k)' = FragmentCount(k)
  BY DEF call, MTUpayload, FragmentCount, Payload

LEMMA PieceFields ==
  ASSUME NEW k, NEW from, NEW length, NEW frame, NEW room
  PROVE  LET p == Piece(k, from, length, frame, room) IN
         /\ p.nb = k /\ p.from = from /\ p.len = length
         /\ \A t, f, o : LET q == updateIPHeader(p, t, f, o) IN
              q.nb = k /\ q.from = from /\ q.len = length
         /\ \A s, l, ok :
              LET q == updateTCPchecksum([p EXCEPT !.seq = s], l, ok) IN
              q.nb = k /\ q.from = from /\ q.len = length
         /\ \A c : LET q == [p EXCEPT !.check = c, !.summed = TRUE] IN
              q.nb = k /\ q.from = from /\ q.len = length
  BY DEF Piece, updateIPHeader, updateTCPchecksum

LEMMA BeginStep ==
  ASSUME SplitInv, Begin
  PROVE  SplitInv'
<1>1. step = "begin" /\ UNCHANGED call /\ copy = "none" /\ result = "none"
  BY DEF Begin, SplitInv, Place, Starting, Working
<1>2. CASE Fail(copy)
  BY <1>1, <1>2, FailStep
<1>3. CASE /\ limit' \in Limits /\ step' = "allocate"
           /\ UNCHANGED <<cutting, kernel, result>>
  <2>1. UNCHANGED <<n, i, pieces, copy, held, result>> /\ step' = "allocate"
    BY <1>3 DEF cutting, kernel
  <2>2. Shape' /\ Tiling'
    BY <1>1, <2>1, SamePieces, SameList DEF SplitInv, Shape
  <2>3. Place'
    BY <1>1, <1>3, <2>1, SameList DEF SplitInv, Place, Working, Starting, Fragmenting
  <2>4. Kept' /\ Complete'
    BY <1>1, <2>1, SameList DEF SplitInv, Kept, OnlySegmentsStay, Complete
  <2> QED
    BY <2>2, <2>3, <2>4 DEF SplitInv
<1> QED
  BY <1>2, <1>3 DEF Begin, GoTo

LEMMA AllocateStep ==
  ASSUME SplitInv, Allocate
  PROVE  SplitInv'
<1>1. /\ step = "allocate" /\ UNCHANGED <<call, limit>>
      /\ copy = "none" /\ result = "none"
  BY DEF Allocate, SplitInv, Place, Starting, Working
<1>2. CASE Fail(copy)
  BY <1>1, <1>2, FailStep
<1>3. CASE /\ held' \subseteq Pool
           /\ step' = "parse" /\ UNCHANGED <<cutting, copy, result>>
  <2>1. UNCHANGED <<n, i, pieces, copy, result>> /\ step' = "parse"
    BY <1>3 DEF cutting
  <2>2. Shape' /\ Tiling'
    BY <1>1, <2>1, SamePieces, SameList DEF SplitInv, Shape
  <2>3. Place'
    BY <1>1, <2>1, SameList DEF SplitInv, Place, Working, Starting, Fragmenting
  <2>4. Kept' /\ Complete'
    <3>1. pieces = <<>>
      BY <1>1 DEF SplitInv, Place, Starting
    <3> QED
      BY <1>1, <1>3, <2>1, <3>1, SameList DEF Kept, OnlySegmentsStay, Complete
  <2> QED
    BY <2>2, <2>3, <2>4 DEF SplitInv
<1> QED
  BY <1>2, <1>3 DEF Allocate, GoTo, Pool

(* A packet is going to be cut.                                             *)
LEMMA EnterCut ==
  ASSUME SplitInv, UNCHANGED <<call, limit, kernel, result>>, step \in {"parse", "next"},
         step' = "cut", StartPacket, routine \in IP, list[n].ip4,
         list[n].total > limit, MTUpayload(n) # 0
  PROVE  SplitInv'
<1>1. /\ UNCHANGED <<n, pieces, copy, held>> /\ remain' = Payload(n) /\ i' = 0
      /\ n \in DOMAIN list /\ limit \in Limits /\ result = "none"
      /\ copy = (IF pieces = <<>> THEN "none" ELSE "live")
      /\ (routine # "IPFragment" => n = 1)
  BY DEF StartPacket, kernel, SplitInv, Shape, Place, Working, Starting, Fragmenting
<1>2. Before(n)
  BY DEF SplitInv, Place, Starting, Before, AllHeader
<1>3. MTUpayload(n) \in Nat \ {0} /\ Payload(n) \in Nat
  BY <1>1, FirstFits, Packets DEF SplitInv, Shape
<1>4. FragmentCount(n) \in Nat
  BY <1>3, Pieces_of DEF FragmentCount
<1>5. Cutting'
  <2>1. 0 * MTUpayload(n) = 0
    BY <1>3
  <2>2. Left(Payload(n), 0 * MTUpayload(n)) = Payload(n)
    BY <1>3, <2>1 DEF Left
  <2> QED
    BY <1>1, <1>4, <2>2, SameList, SameLimit DEF Cutting, Left
<1>6. Within'
  BY <1>1, <1>2, SamePieces DEF Within
<1>7. Shape' /\ Tiling'
  BY <1>1, SamePieces, SameList DEF SplitInv, Shape
<1>8. Place'
  BY <1>1, <1>5, <1>6, SameList DEF Place, Working, Starting, Fragmenting
<1>9. Kept' /\ Complete'
  BY <1>1, SameList DEF SplitInv, Kept, OnlySegmentsStay, Complete
<1> QED
  BY <1>7, <1>8, <1>9 DEF SplitInv

LEMMA ParseIPStep ==
  ASSUME SplitInv, ParseIP
  PROVE  SplitInv'
<1>1. /\ step = "parse" /\ UNCHANGED <<call, limit>> /\ routine \in IP /\ n = 1
      /\ copy = "none" /\ result = "none"
  BY Packets DEF ParseIP, SplitInv, Shape, Place, Starting, Working
<1>2. CASE Fail(copy)
  BY <1>1, <1>2, FailStep
<1>3. CASE Bugcheck
  BY <1>1, <1>3, BugcheckStep
<1>4. CASE /\ list[1].ip4 /\ list[1].total > limit /\ MTUpayload(1) # 0
           /\ StartPacket /\ GoTo("cut") /\ UNCHANGED kernel
  BY <1>1, <1>4, EnterCut DEF GoTo
<1> QED
  BY <1>2, <1>3, <1>4 DEF ParseIP

LEMMA ParseTCPStep ==
  ASSUME SplitInv, ParseTCP
  PROVE  SplitInv'
<1>1. /\ step = "parse" /\ UNCHANGED <<call, limit>> /\ routine = TCP /\ n = 1
      /\ copy = "none" /\ result = "none" /\ pieces = <<>> /\ limit \in Limits
  BY DEF ParseTCP, SplitInv, Shape, Place, Starting, Working
<1>2. CASE Fail(copy) \/ Fail("live")
  BY <1>1, <1>2, FailStep
<1>3. CASE /\ copy' = "live" /\ StartPacket /\ GoTo("segment") /\ UNCHANGED <<held, start>>
  <2>1. /\ UNCHANGED <<n, pieces, held, result>> /\ remain' = Payload(1) /\ i' = 0
        /\ step' = "segment" /\ copy' = "live"
    BY <1>1, <1>3 DEF StartPacket, GoTo
  <2>2. Shape' /\ Tiling'
    BY <1>1, <2>1, SamePieces, SameList DEF SplitInv, Shape
  <2>4. Payload(1) \in Nat
    BY Packets DEF SplitInv, Shape
  <2>3. Segmented'
    BY <1>1, <2>1, <2>4, SameList DEF Segmented, First
  <2>5. Place'
    BY <1>1, <2>1, <2>3, <2>4, SameList DEF Place, Working, Starting, Fragmenting
  <2>6. Kept' /\ Complete'
    BY <1>1, <2>1, SameList DEF SplitInv, Kept, OnlySegmentsStay, Complete
  <2> QED
    BY <2>2, <2>5, <2>6 DEF SplitInv
<1> QED
  BY <1>2, <1>3 DEF ParseTCP

(* Where fragment i of packet n is taken from, and how long it is.          *)
LEMMA NextFragment ==
  ASSUME SplitInv, step = "cut", i < FragmentCount(n),
         CopyFits(n, Source(n), CutLength(n), Room)
  PROVE  /\ Source(n) = Payload(n) - remain /\ Source(n) \in Nat
         /\ CutLength(n) \in Nat \ {0} /\ CutLength(n) <= remain
         /\ remain \in Nat /\ remain <= Payload(n)
         /\ remain - CutLength(n) = Left(Payload(n), (i + 1) * MTUpayload(n))
         /\ i = 0 => Source(n) = 0
         /\ i + 1 <= FragmentCount(n)
<1> DEFINE M == MTUpayload(n)
           P == Payload(n)
<1>1. /\ n \in DOMAIN list /\ i \in Nat /\ limit \in Limits /\ routine \in IP
      /\ Cutting /\ P \in Nat
  BY Packets DEF SplitInv, Shape, Place, Working, Starting, Fragmenting
<1>2. /\ M \in Nat \ {0}
      /\ \A room : CopyFits(n, 0, M, room) => M < P
  BY <1>1, FirstFits DEF SplitInv, Shape, Cutting
<1>a. MTUpayload(n) \in Nat \ {0} /\ Payload(n) \in Nat /\ i \in Nat
  BY <1>1, <1>2
<1>b. /\ FragmentCount(n) \in Nat
      /\ i * MTUpayload(n) \in Nat
      /\ (i + 1) * MTUpayload(n) = i * MTUpayload(n) + MTUpayload(n)
      /\ i < FragmentCount(n) => i * MTUpayload(n) < Payload(n)
  <2> HIDE DEF M, P
  <2> QED
    BY <1>a, Pieces_of DEF FragmentCount
<1>3. /\ FragmentCount(n) \in Nat /\ i * M \in Nat /\ (i + 1) * M = i * M + M
      /\ i * M < P
  BY <1>b
<1>4. remain = P - i * M
  BY <1>1, <1>2, <1>3 DEF Cutting, Left
<1>5. Source(n) = i * M
  BY DEF Source
<1>6. CASE i = 0
  <2>1. i * M = 0
    BY <1>2, <1>6
  <2>2. CutLength(n) = M
    BY <1>6 DEF CutLength
  <2>3. M < P
    BY <1>2, <1>5, <2>1, <2>2
  <2> QED
    BY <1>1, <1>2, <1>3, <1>4, <1>5, <1>6, <2>1, <2>2, <2>3 DEF Left
<1>7. CASE i # 0
  <2>1. CutLength(n) = IF remain < M THEN remain ELSE M
    BY <1>7 DEF CutLength, Least
  <2> QED
    BY <1>1, <1>2, <1>3, <1>4, <1>5, <1>7, <2>1 DEF Left
<1> QED
  BY <1>6, <1>7

LEMMA FragmentStep ==
  ASSUME SplitInv, Fragment
  PROVE  SplitInv'
<1>1. /\ step = "cut" /\ UNCHANGED <<call, limit>> /\ routine \in IP
      /\ copy \in {"none", "live"} /\ result = "none" /\ limit \in Limits
      /\ copy = (IF pieces = <<>> THEN "none" ELSE "live")
      /\ i < FragmentCount(n) /\ n \in DOMAIN list /\ i \in Nat /\ Cutting /\ Within
      /\ (routine # "IPFragment" => n = 1)
  BY DEF Fragment, SplitInv, Shape, Place, Fragmenting, Working
<1>2. CASE Bugcheck
  BY <1>1, <1>2, BugcheckStep
<1>3. CASE \E made \in {"none", "live", "freed"} : Fail(made)
  BY <1>1, <1>3, FailStep
<1>4. CASE CutFragment
  <2>1. /\ (n > 1 => copy # "none")
        /\ CopyFits(n, Source(n), CutLength(n), Room)
        /\ remain' = remain - CutLength(n) /\ i' = i + 1
        /\ copy' = "live" /\ step' = "cut" /\ UNCHANGED <<n, held, result>>
    BY <1>4 DEF CutFragment, Chained, Remaining, GoTo
  <2>2. PICK p : /\ pieces' = Append(pieces, p)
                 /\ p.nb = n /\ p.from = Source(n) /\ p.len = CutLength(n)
    BY <1>4, PieceFields DEF CutFragment
  <2>3. /\ Source(n) = Payload(n) - remain /\ Source(n) \in Nat
        /\ CutLength(n) \in Nat \ {0} /\ CutLength(n) <= remain
        /\ remain \in Nat /\ remain <= Payload(n)
        /\ remain - CutLength(n) = Left(Payload(n), (i + 1) * MTUpayload(n))
        /\ (i = 0 => Source(n) = 0) /\ i + 1 <= FragmentCount(n)
    BY <1>1, <2>1, NextFragment
  <2>4. Payload(n) \in Nat /\ DOMAIN list = 1..Len(list) /\ Len(list) \in Nat
    BY <1>1, Packets DEF SplitInv, Shape
  <2>5. End(p) = Payload(n) - (remain - CutLength(n)) /\ End(p) <= Payload(n)
    BY <2>2, <2>3, <2>4 DEF End
  <2>6. IF pieces = <<>> THEN p.nb = 1 /\ p.from = 0
        ELSE LET q == LastOf(pieces) IN
             \/ p.nb = q.nb /\ p.from = End(q) /\ p.len > 0
             \/ /\ p.nb > q.nb /\ AllHeader(q.nb + 1, p.nb - 1)
                /\ p.from = 0 /\ End(q) = Payload(q.nb)
    <3>1. CASE pieces = <<>>
      BY <1>1, <2>1, <2>2, <2>3, <2>4, <3>1 DEF Within
    <3>2. CASE pieces # <<>> /\ i = 0
      <4>1. LastOf(pieces).nb \in Nat
        <5>1. LastOf(pieces).nb \in DOMAIN list
          BY <3>2, Appended DEF SplitInv, Shape, LastOf
        <5> QED
          BY <2>4, <5>1
      <4> QED
        BY <1>1, <2>2, <2>3, <2>4, <3>2, <4>1 DEF Within, Before
    <3>3. CASE pieces # <<>> /\ i # 0
      BY <1>1, <2>2, <2>3, <3>3 DEF Within
    <3> QED
      BY <3>1, <3>2, <3>3
  <2>7. /\ Tiling' /\ IsSeq(pieces') /\ pieces' # <<>> /\ LastOf(pieces') = p
        /\ \A k \in DOMAIN pieces' :
             /\ pieces'[k].nb \in DOMAIN list' /\ pieces'[k].from \in Nat
             /\ pieces'[k].len \in Nat
    BY <1>1, <2>2, <2>3, <2>5, <2>6, NewPiece DEF SplitInv
  <2>8. Shape'
    BY <1>1, <2>1, <2>7, SameList DEF SplitInv, Shape
  <2>9. Within'
    BY <1>1, <2>1, <2>2, <2>5, <2>7, SameList DEF Within, End
  <2>10. Cutting'
    BY <1>1, <2>1, <2>3, SameList, SameLimit DEF Cutting, Left
  <2>11. Place'
    BY <1>1, <2>1, <2>7, <2>9, <2>10, SameList DEF Place, Working, Starting, Fragmenting
  <2>12. Kept' /\ Complete'
    BY <1>1, <2>1, SameList DEF SplitInv, Kept, OnlySegmentsStay, Complete, IP, TCP
  <2> QED
    BY <2>7, <2>8, <2>11, <2>12 DEF SplitInv
<1> QED
  BY <1>1, <1>2, <1>3, <1>4 DEF Fragment

(* All fragments are made, and nothing is left.                             *)
LEMMA PacketDone ==
  ASSUME SplitInv, step = "cut", i = FragmentCount(n)
  PROVE  remain = 0 /\ Before(n + 1)
<1>1. /\ n \in DOMAIN list /\ i \in Nat /\ limit \in Limits /\ routine \in IP
      /\ Cutting /\ Within /\ Payload(n) \in Nat /\ n \in Nat
  BY Packets DEF SplitInv, Shape, Place, Working, Starting, Fragmenting
<1>2. MTUpayload(n) \in Nat \ {0}
  BY <1>1, FirstFits DEF SplitInv, Shape, Cutting
<1>3. i * MTUpayload(n) \in Nat /\ i * MTUpayload(n) >= Payload(n)
  BY <1>1, <1>2, Pieces_of DEF FragmentCount
<1>4. remain = 0
  BY <1>1, <1>3 DEF Cutting, Left
<1>5. CASE i = 0
  <2>1. Payload(n) = 0
    BY <1>1, <1>2, <1>3, <1>5
  <2>2. Before(n)
    BY <1>1, <1>5 DEF Within
  <2>3. pieces # <<>> => LastOf(pieces).nb \in Nat
    <3>1. pieces # <<>> => LastOf(pieces).nb \in DOMAIN list
      BY Appended DEF SplitInv, Shape, LastOf
    <3> QED
      BY <3>1, Packets DEF SplitInv, Shape
  <2> QED
    BY <1>1, <1>4, <2>1, <2>2, <2>3 DEF Before, AllHeader
<1>6. CASE i # 0
  BY <1>1, <1>4, <1>6 DEF Within, Before, AllHeader
<1> QED
  BY <1>5, <1>6

(* The routine says TRUE when all it looks at is done.                      *)
LEMMA SayTrue ==
  ASSUME SplitInv, step \in {"cut", "straight"}, UNCHANGED <<call, limit, held, n>>,
         step' = "done", result' = "TRUE",
         IsSeq(pieces'), i' \in Nat, Tiling', Before(LastPacket + 1)',
         copy' = (IF pieces' = <<>> THEN "none" ELSE "live"),
         \A k \in DOMAIN pieces' :
              /\ pieces'[k].nb \in DOMAIN list' /\ pieces'[k].from \in Nat
              /\ pieces'[k].len \in Nat
  PROVE  SplitInv'
<1>1. Shape'
  BY SameList DEF SplitInv, Shape
<1>2. Place'
  BY SameList DEF SplitInv, Place, Working, Starting, Fragmenting
<1>3. Kept'
  BY SameList DEF SplitInv, Place, Kept, OnlySegmentsStay, Fragmenting, IP, TCP
<1>4. LastPacket \in Nat
  BY Packets DEF LastPacket, SplitInv, Shape
<1>5. Complete'
  <2>1. pieces' # <<>> => LastOf(pieces').nb \in Nat
    <3>1. pieces' # <<>> => LastOf(pieces').nb \in DOMAIN list'
      BY Appended DEF LastOf
    <3> QED
      BY <3>1, Packets, SameList DEF SplitInv, Shape
  <2> QED
    BY <1>4, <2>1, SameList DEF Complete, Before
<1> QED
  BY <1>1, <1>2, <1>3, <1>5 DEF SplitInv

LEMMA EndPacketStep ==
  ASSUME SplitInv, EndPacket
  PROVE  SplitInv'
<1>1. /\ step = "cut" /\ i = FragmentCount(n) /\ UNCHANGED <<call, limit>>
      /\ routine \in IP /\ limit \in Limits /\ result = "none" /\ i \in Nat
      /\ copy = (IF pieces = <<>> THEN "none" ELSE "live")
      /\ n \in DOMAIN list /\ (routine # "IPFragment" => n = 1)
  BY DEF EndPacket, SplitInv, Shape, Place, Fragmenting, Working
<1>2. Before(n + 1) /\ remain = 0
  BY <1>1, PacketDone
<1>3. n \in Nat /\ Len(list) \in Nat /\ DOMAIN list = 1..Len(list)
  BY <1>1, Packets DEF SplitInv, Shape
<1>4. CASE /\ routine = "IPFragment" /\ HasNext(n) /\ n' = n + 1 /\ GoTo("next")
           /\ UNCHANGED <<info, i, remain, pieces, kernel>>
  <2>1. /\ UNCHANGED <<i, remain, pieces, copy, held, result>> /\ step' = "next"
        /\ n' = n + 1
    BY <1>4 DEF kernel, GoTo
  <2>2. n + 1 \in DOMAIN list
    BY <1>3, <1>4 DEF HasNext
  <2>3. Shape' /\ Tiling'
    BY <1>1, <2>1, <2>2, SamePieces, SameList DEF SplitInv, Shape
  <2>4. \A k : Before(k) => Before(k)'
    BY <1>1, <2>1, SamePieces
  <2>5. Before(n)'
    BY <1>2, <2>1, <2>4 DEF Before
  <2>6. Place'
    BY <1>1, <1>3, <1>4, <2>1, <2>5, SameList DEF Place, Working, Starting, Fragmenting
  <2>7. Kept' /\ Complete'
    BY <1>1, <2>1, SameList DEF SplitInv, Kept, OnlySegmentsStay, Complete
  <2> QED
    BY <2>3, <2>6, <2>7 DEF SplitInv
<1>5. CASE /\ ~(routine = "IPFragment" /\ HasNext(n))
           /\ step' = "done" /\ result' = "TRUE" /\ UNCHANGED <<cutting, kernel>>
  <2>1. UNCHANGED <<n, i, pieces, held, copy>>
    BY <1>5 DEF cutting, kernel
  <2>2. n = LastPacket
    BY <1>1, <1>3, <1>5 DEF LastPacket, HasNext
  <2>3. Before(LastPacket + 1)'
    BY <1>1, <1>2, <2>1, <2>2, SameList DEF Before, LastOf, End
  <2>4. /\ IsSeq(pieces') /\ i' \in Nat /\ Tiling'
        /\ \A k \in DOMAIN pieces' :
              /\ pieces'[k].nb \in DOMAIN list' /\ pieces'[k].from \in Nat
              /\ pieces'[k].len \in Nat
    BY <1>1, <2>1, SamePieces, SameList DEF SplitInv, Shape
  <2>5. copy' = (IF pieces' = <<>> THEN "none" ELSE "live")
    BY <1>1, <2>1
  <2> QED
    BY <1>1, <1>5, <2>1, <2>3, <2>4, <2>5, SayTrue
<1> QED
  BY <1>1, <1>2, <1>4, <1>5 DEF EndPacket

LEMMA NextPacketStep ==
  ASSUME SplitInv, NextPacket
  PROVE  SplitInv'
<1>1. /\ step = "next" /\ UNCHANGED <<call, limit>> /\ routine = "IPFragment"
      /\ limit \in Limits /\ result = "none" /\ i \in Nat /\ n > 1 /\ Before(n)
      /\ copy = (IF pieces = <<>> THEN "none" ELSE "live")
  BY DEF NextPacket, SplitInv, Shape, Place, Fragmenting, Working
<1>2. CASE Fail(copy)
  BY <1>1, <1>2, FailStep
<1>3. CASE Bugcheck
  BY <1>1, <1>3, BugcheckStep
<1>4. CASE step' = "straight" /\ UNCHANGED <<n, i, pieces, kernel, result>>
  <2>1. UNCHANGED <<n, i, pieces, copy, held, result>> /\ step' = "straight"
    BY <1>4 DEF kernel
  <2>2. Shape' /\ Tiling'
    BY <1>1, <2>1, SamePieces, SameList DEF SplitInv, Shape
  <2>3. Before(n)'
    BY <1>1, <2>1, SameList DEF Before, LastOf, End
  <2>4. Place'
    BY <1>1, <2>1, <2>3, SameList DEF Place, Working, Starting, Fragmenting, IP
  <2>5. Kept' /\ Complete'
    BY <1>1, <2>1, SameList DEF SplitInv, Kept, OnlySegmentsStay, Complete
  <2> QED
    BY <2>2, <2>4, <2>5 DEF SplitInv
<1>5. CASE /\ list[n].ip4 /\ list[n].total > limit /\ MTUpayload(n) # 0
           /\ StartPacket /\ GoTo("cut") /\ UNCHANGED kernel
  BY <1>1, <1>5, EnterCut DEF GoTo, IP
<1> QED
  BY <1>1, <1>2, <1>3, <1>4, <1>5 DEF NextPacket, GoTo, cutting

LEMMA CopyStraightStep ==
  ASSUME SplitInv, CopyStraight
  PROVE  SplitInv'
<1>1. /\ step = "straight" /\ UNCHANGED <<call, limit>> /\ routine = "IPFragment"
      /\ limit \in Limits /\ result = "none" /\ i \in Nat /\ n > 1 /\ Before(n)
      /\ copy = (IF pieces = <<>> THEN "none" ELSE "live")
      /\ n \in DOMAIN list
  BY DEF CopyStraight, SplitInv, Shape, Place, Fragmenting, Working
<1>2. CASE Fail(copy)
  BY <1>1, <1>2, FailStep
<1>3. CASE Bugcheck
  BY <1>1, <1>3, BugcheckStep
<1>4. CASE /\ Chained
           /\ pieces' = Append(pieces, StraightPiece)
           /\ IF HasNext(n) THEN n' = n + 1 /\ GoTo("next")
              ELSE n' = n /\ step' = "done" /\ result' = "TRUE"
           /\ UNCHANGED <<info, i, kernel>>
  <2> DEFINE p == StraightPiece
  <2>1. p.nb = n /\ p.from = 0 /\ p.len = Payload(n)
    BY PieceFields DEF StraightPiece
  <2>2. Payload(n) \in Nat /\ DOMAIN list = 1..Len(list) /\ Len(list) \in Nat /\ n \in Nat
    BY <1>1, Packets DEF SplitInv, Shape
  <2>3. pieces # <<>> /\ LastOf(pieces).nb < n /\ copy = "live"
    BY <1>1, <1>4 DEF Chained, Before
  <2>4. UNCHANGED <<i, copy, held>>
    BY <1>4 DEF kernel
  <2> HIDE DEF p
  <2>5. End(p) = Payload(n)
    BY <2>1, <2>2 DEF End
  <2>a. LastOf(pieces).nb \in Nat
    <3>1. LastOf(pieces).nb \in DOMAIN list
      BY <2>3, Appended DEF SplitInv, Shape, LastOf
    <3> QED
      BY <2>2, <3>1
  <2>6. /\ Tiling' /\ IsSeq(pieces') /\ pieces' # <<>> /\ LastOf(pieces') = p
        /\ \A k \in DOMAIN pieces' :
             /\ pieces'[k].nb \in DOMAIN list' /\ pieces'[k].from \in Nat
             /\ pieces'[k].len \in Nat
    <3>1. /\ p.nb > LastOf(pieces).nb
          /\ AllHeader(LastOf(pieces).nb + 1, p.nb - 1)
          /\ p.from = 0 /\ End(LastOf(pieces)) = Payload(LastOf(pieces).nb)
      BY <1>1, <2>1, <2>2, <2>3, <2>a DEF Before
    <3>2. /\ p.nb \in DOMAIN list /\ p.from \in Nat /\ p.len \in Nat
          /\ End(p) <= Payload(p.nb)
      BY <1>1, <2>1, <2>2, <2>5
    <3>3. pieces' = Append(pieces, p)
      BY <1>4 DEF p
    <3> QED
      BY <1>1, <2>3, <3>1, <3>2, <3>3, NewPiece DEF SplitInv
  <2>7. \A k : k = n + 1 => Before(k)'
    <3>1. ASSUME NEW k, k = n + 1 PROVE Before(k)'
      <4>1. LastOf(pieces').nb = n /\ End(LastOf(pieces')) = Payload(n)
        BY <2>1, <2>5, <2>6
      <4>2. \A a, b : AllHeader(a, b)' = AllHeader(a, b)
        BY <1>1, SameList
      <4>3. AllHeader(n + 1, k - 1) /\ n < k
        BY <2>2, <3>1 DEF AllHeader
      <4>4. \A m : Payload(m)' = Payload(m)
        BY <1>1, SameList
      <4> QED
        BY <2>6, <4>1, <4>2, <4>3, <4>4 DEF Before, End
    <3> QED
      BY <3>1
  <2>8. CASE HasNext(n) /\ n' = n + 1 /\ GoTo("next")
    <3>1. n + 1 \in DOMAIN list /\ n + 1 > 1
      BY <1>1, <2>2, <2>8 DEF HasNext
    <3>2. Shape'
      BY <1>1, <2>4, <2>6, <2>8, <3>1, SameList DEF SplitInv, Shape
    <3>3. Before(n)'
      BY <2>7, <2>8 DEF Before
    <3>4. Place'
      BY <1>1, <2>3, <2>4, <2>6, <2>8, <3>1, <3>3, SameList
      DEF Place, Working, Starting, Fragmenting, IP, GoTo
    <3>5. Kept' /\ Complete'
      BY <1>1, <2>4, <2>8, SameList
      DEF SplitInv, Kept, OnlySegmentsStay, Complete, GoTo, TCP
    <3> QED
      BY <2>6, <3>2, <3>4, <3>5 DEF SplitInv
  <2>9. CASE ~HasNext(n) /\ n' = n /\ step' = "done" /\ result' = "TRUE"
    <3>1. n = LastPacket /\ LastPacket' = LastPacket
      BY <1>1, <2>2, <2>9, SameList DEF LastPacket, HasNext
    <3>2. Before(LastPacket + 1)'
      BY <2>7, <3>1 DEF Before
    <3> QED
      BY <1>1, <2>3, <2>4, <2>6, <2>9, <3>2, SayTrue
  <2> QED
    BY <1>4, <2>8, <2>9
<1> QED
  BY <1>1, <1>2, <1>3, <1>4 DEF CopyStraight

(* A pass through the loop over the segments.                               *)
Segments ==
  /\ CopyFits(1, Copied, SegmentLength, SegmentRoom)
  /\ \E ok \in BOOLEAN :
       LET p == Piece(1, Copied, SegmentLength,
                      Headers(1) + SegmentLength, SegmentRoom)
           q == updateTCPchecksum(
             [p EXCEPT !.seq = updateTCPSeqNumber(p.seq, SequenceOffset)],
             SegmentLength, ok)
       IN pieces' = Append(MadeBefore, q)
  /\ remain' = remain - SegmentLength
  /\ held' = held \cup SegmentMemory
  /\ step' = "segment" /\ UNCHANGED <<n, info, i, copy, start, result>>

LEMMA SegmentWays ==
  ASSUME Segment
  PROVE  /\ step = "segment" /\ remain # 0 /\ UNCHANGED <<call, limit, pad>>
         /\ \/ Segments \/ Bugcheck
            \/ \E taken \in {SegmentMemory \ {"mdls"}, SegmentMemory} :
                 FailWith(taken, copy)
  BY DEF Segment, Segments, GoTo, Remaining

LEMMA SegmentStep ==
  ASSUME SplitInv, Segment
  PROVE  SplitInv'
<1>1. /\ step = "segment" /\ UNCHANGED <<call, limit>> /\ routine = TCP
      /\ limit \in Limits /\ result = "none" /\ i \in Nat /\ n = 1 /\ copy = "live"
      /\ remain \in Nat /\ remain # 0 /\ remain <= Payload(1) /\ Segmented
      /\ n \in DOMAIN list
  BY SegmentWays DEF SplitInv, Shape, Place, Segmented, Working, Fragmenting
<1>2. CASE \E taken \in {SegmentMemory \ {"mdls"}, SegmentMemory} :
              FailWith(taken, copy)
  <2>1. PICK taken \in {SegmentMemory \ {"mdls"}, SegmentMemory} :
          FailWith(taken, copy)
    BY <1>2
  <2>2. /\ taken \subseteq {"netBuffers", "mdls"}
        /\ pieces = <<>> => taken \subseteq {"mdls"}
    BY <1>1 DEF SegmentMemory, Segmented
  <2> QED
    BY <1>1, <2>1, <2>2, FailWithStep
<1>3. CASE Bugcheck
  BY <1>1, <1>3, BugcheckStep
<1>4. CASE Segments
  <2>1. /\ remain' = remain - SegmentLength /\ step' = "segment"
        /\ held' = held \cup SegmentMemory
        /\ UNCHANGED <<n, i, copy, result>>
    BY <1>4 DEF Segments
  <2> DEFINE made == Piece(1, Copied, SegmentLength,
                           Headers(1) + SegmentLength, SegmentRoom)
             new == updateTCPSeqNumber(made.seq, SequenceOffset)
  <2>a. PICK ok \in BOOLEAN :
          pieces' = Append(MadeBefore,
                      updateTCPchecksum([made EXCEPT !.seq = new], SegmentLength, ok))
    BY <1>4 DEF Segments
  <2>2. PICK p : /\ pieces' = Append(MadeBefore, p)
                 /\ p.nb = 1 /\ p.from = Copied /\ p.len = SegmentLength
    BY <2>a, PieceFields
  <2> HIDE DEF made, new
  <2>3. Payload(1) \in Nat /\ Headers(1) \in Nat /\ limit \in Nat
    BY <1>1, Packets, SplitAssumption DEF SplitInv, Shape
  <2>4. /\ SegmentLength \in Nat /\ SegmentLength <= remain
        /\ limit # 0 => SegmentLength # 0
        /\ limit = 0 => SegmentLength = 0
    <3>1. MAC = 0
      BY <1>1 DEF MAC
    <3>2. MAC + Headers(1) + SegmentLength <= Headers(1) + Least(remain, limit)
      BY <1>4 DEF Segments, CopyFits, SegmentRoom
    <3>3. SegmentLength \in Nat /\ Least(remain, limit) \in Nat
          /\ Least(remain, limit) <= remain
          /\ (limit # 0 => SegmentLength # 0) /\ (limit = 0 => SegmentLength = 0)
      BY <1>1, <2>3 DEF SegmentLength, Least
    <3> QED
      BY <1>1, <2>3, <3>1, <3>2, <3>3
  <2>5. Copied = Payload(1) - remain /\ Copied \in Nat
    BY <1>1, <2>3 DEF Copied
  <2>6. End(p) = Payload(1) - (remain - SegmentLength) /\ End(p) <= Payload(1)
    BY <1>1, <2>2, <2>3, <2>4, <2>5 DEF End
  <2>7. /\ MadeBefore \in {pieces, <<>>}
        /\ MadeBefore = <<>> <=> First
        /\ First => remain = Payload(1)
        /\ ~First => MadeBefore = pieces /\ pieces # <<>> /\ limit # 0
    BY <1>1 DEF MadeBefore, Segmented, First
  <2>8. IF MadeBefore = <<>> THEN p.nb = 1 /\ p.from = 0
        ELSE LET q == LastOf(MadeBefore) IN
             \/ p.nb = q.nb /\ p.from = End(q) /\ p.len > 0
             \/ /\ p.nb > q.nb /\ AllHeader(q.nb + 1, p.nb - 1)
                /\ p.from = 0 /\ End(q) = Payload(q.nb)
    <3>1. CASE First
      BY <2>2, <2>3, <2>5, <2>7, <3>1
    <3>2. CASE ~First
      BY <1>1, <2>2, <2>4, <2>5, <2>7, <3>2 DEF Segmented
    <3> QED
      BY <3>1, <3>2
  <2>9. /\ Tiling' /\ IsSeq(pieces') /\ pieces' # <<>> /\ LastOf(pieces') = p
        /\ \A k \in DOMAIN pieces' :
             /\ pieces'[k].nb \in DOMAIN list' /\ pieces'[k].from \in Nat
             /\ pieces'[k].len \in Nat
    <3>1. /\ Shape /\ Tiling /\ UNCHANGED call
          /\ pieces' = Append(MadeBefore, p) /\ MadeBefore \in {pieces, <<>>}
      BY <1>1, <2>2, <2>7 DEF SplitInv
    <3>2. /\ p.nb \in DOMAIN list /\ p.from \in Nat /\ p.len \in Nat
          /\ End(p) <= Payload(p.nb)
      BY <1>1, <2>2, <2>4, <2>5, <2>6
    <3> QED
      BY <2>8, <3>1, <3>2, NewPiece
  <2>10. Shape'
    BY <1>1, <2>1, <2>9, SameList DEF SplitInv, Shape
  <2>11. Segmented'
    <3>1. First' \/ limit # 0
      BY <1>1, <2>1, <2>3, <2>4, <2>7, SameList DEF First
    <3> QED
      BY <1>1, <2>1, <2>2, <2>3, <2>4, <2>6, <2>9, <3>1, SameList DEF Segmented, End
  <2>12. Place'
    BY <1>1, <2>1, <2>11, SameList
    DEF Place, Working, Starting, Fragmenting, TCP, IP
  <2>13. Kept' /\ Complete'
    <3>1. "mdls" \in held' /\ held' \subseteq Pool \cup {"netBuffers", "mdls"}
      BY <2>1 DEF SplitInv, Kept, SegmentMemory
    <3>2. Len(pieces') > 1 => "netBuffers" \in held'
      <4>1. CASE First
        <5>1. Len(pieces') = 1
          BY <2>2, <2>7, <4>1
        <5> QED
          BY <5>1
      <4>2. CASE ~First
        BY <2>1, <4>2 DEF SegmentMemory
      <4> QED
        BY <4>1, <4>2
    <3> QED
      BY <1>1, <2>1, <2>9, <3>1, <3>2, SameList DEF Kept, OnlySegmentsStay, Complete
  <2> QED
    BY <2>9, <2>10, <2>12, <2>13 DEF SplitInv
<1> QED
  BY <1>2, <1>3, <1>4, SegmentWays

LEMMA InjectSegmentsStep ==
  ASSUME SplitInv, InjectSegments
  PROVE  SplitInv'
<1>1. /\ step = "segment" /\ UNCHANGED <<call, limit>> /\ routine = TCP
      /\ limit \in Limits /\ result = "none" /\ i \in Nat /\ n = 1 /\ copy = "live"
      /\ remain = 0 /\ Segmented
  BY DEF InjectSegments, SplitInv, Shape, Place, Segmented, Working, Fragmenting
<1>2. CASE Fail(copy)
  BY <1>1, <1>2, FailStep
<1>3. CASE /\ held' = held \ {"ipHeaderInfo"} /\ step' = "injected"
           /\ result' = "TRUE" /\ UNCHANGED <<cutting, copy, start>>
  <2>1. UNCHANGED <<n, i, pieces, copy>>
    BY <1>3 DEF cutting
  <2>2. Shape' /\ Tiling'
    BY <1>1, <2>1, SamePieces, SameList DEF SplitInv, Shape
  <2>3. Place'
    BY <1>1, <1>3, <2>1, SameList DEF Place, Working, Starting, Fragmenting
  <2>4. Kept'
    BY <1>1, <1>3, <2>1, SameList DEF SplitInv, Kept, OnlySegmentsStay
  <2>5. Complete'
    <3>1. LastPacket = 1
      BY <1>1 DEF LastPacket, TCP
    <3>2. Payload(1) \in Nat
      BY Packets DEF SplitInv, Shape
    <3>3. CASE pieces = <<>>
      <4>1. AllHeader(1, LastPacket)
        BY <1>1, <3>1, <3>3 DEF AllHeader, Segmented, First
      <4> QED
        BY <1>1, <2>1, <3>3, <4>1, SameList DEF Complete
    <3>4. CASE pieces # <<>>
      <4>1. /\ pieces # <<>> /\ LastOf(pieces).nb = 1
            /\ End(LastOf(pieces)) = Payload(1)
        BY <1>1, <3>2, <3>4 DEF Segmented
      <4>2. AllHeader(1 + 1, LastPacket)
        BY <3>1 DEF AllHeader
      <4> QED
        BY <1>1, <2>1, <3>1, <4>1, <4>2, SameList DEF Complete, LastOf, End
    <3> QED
      BY <3>3, <3>4
  <2> QED
    BY <2>2, <2>3, <2>4, <2>5 DEF SplitInv
<1> QED
  BY <1>2, <1>3 DEF InjectSegments

LEMMA IPInjectionCompleteStep ==
  ASSUME SplitInv, IPInjectionComplete
  PROVE  SplitInv'
<1>1. /\ step = "injected" /\ step' = "done" /\ UNCHANGED <<call, limit, cutting, result>>
      /\ held' = held \ {"pendedPacket"} /\ copy' = "freed" /\ routine = TCP
      /\ UNCHANGED <<n, i, pieces>>
  BY DEF IPInjectionComplete, SplitInv, Place, Kept, GoTo, cutting
<1>2. Shape' /\ Tiling'
  BY <1>1, SamePieces, SameList DEF SplitInv, Shape
<1>3. Place'
  BY <1>1, SameList DEF SplitInv, Place, Working, Starting, Fragmenting
<1>4. Kept'
  BY <1>1, SameList DEF SplitInv, Kept, OnlySegmentsStay, Pool
<1>5. Complete'
  BY <1>1, SameList DEF SplitInv, Complete, LastOf, End
<1> QED
  BY <1>2, <1>3, <1>4, <1>5 DEF SplitInv

----------------------------------------------------------------------------
LEMMA InitInv == Init => SplitInv
<1> SUFFICES ASSUME Init PROVE SplitInv
  OBVIOUS
<1>1. PICK c \in Calls : routine = c[1] /\ list = c[2]
  BY DEF Init
<1>2. <<routine, list>> \in Calls
  <2>1. c \in (IP \cup {TCP}) \X Seq(NetBuffers)
    BY CallAssumption
  <2>2. c = <<c[1], c[2]>>
    BY <2>1
  <2> QED
    BY <1>1, <2>2
<1>3. IsSeq(pieces)
  BY DEF Init, IsSeq
<1>4. 1 \in DOMAIN list
  BY <1>2, Packets
<1>5. Shape
  BY <1>2, <1>3, <1>4 DEF Init, Shape
<1>6. Place
  BY DEF Init, Place, Working, Starting, Fragmenting
<1>7. Kept /\ Tiling /\ Complete
  BY DEF Init, Kept, OnlySegmentsStay, Tiling, Complete
<1> QED
  BY <1>5, <1>6, <1>7 DEF SplitInv

LEMMA InvStep == SplitInv /\ [Next]_vars => SplitInv'
<1> SUFFICES ASSUME SplitInv, [Next]_vars PROVE SplitInv'
  OBVIOUS
<1>1. CASE Begin
  BY <1>1, BeginStep
<1>2. CASE Allocate
  BY <1>2, AllocateStep
<1>3. CASE ParseIP
  BY <1>3, ParseIPStep
<1>4. CASE Fragment
  BY <1>4, FragmentStep
<1>5. CASE EndPacket
  BY <1>5, EndPacketStep
<1>6. CASE NextPacket
  BY <1>6, NextPacketStep
<1>7. CASE CopyStraight
  BY <1>7, CopyStraightStep
<1>8. CASE ParseTCP
  BY <1>8, ParseTCPStep
<1>9. CASE Segment
  BY <1>9, SegmentStep
<1>10. CASE InjectSegments
  BY <1>10, InjectSegmentsStep
<1>11. CASE IPInjectionComplete
  BY <1>11, IPInjectionCompleteStep
<1>12. CASE UNCHANGED vars
  <2>1. UNCHANGED <<call, limit, step, cutting, kernel, result>>
        /\ UNCHANGED <<n, i, remain, pieces, held, copy>>
    BY <1>12 DEF vars, cutting, kernel
  <2>2. Shape' /\ Tiling'
    BY <2>1, SamePieces, SameList DEF SplitInv, Shape
  <2>3. Cutting => Cutting'
    BY <2>1, SameList, SameLimit DEF Cutting, Left
  <2>4. Within => Within'
    BY <2>1, SameList, SamePieces DEF Within, LastOf, End, Before
  <2>5. Before(n) => Before(n)'
    BY <2>1, SamePieces DEF Before
  <2>8. Segmented => Segmented'
    BY <2>1, SameList DEF Segmented, First, LastOf, End
  <2>6. Place'
    BY <2>1, <2>3, <2>4, <2>5, <2>8, SameList DEF SplitInv, Place
  <2>7. Kept' /\ Complete'
    BY <2>1, SameList DEF SplitInv, Kept, OnlySegmentsStay, Complete, LastOf, End
  <2> QED
    BY <2>2, <2>6, <2>7 DEF SplitInv
<1> QED
  BY <1>1, <1>2, <1>3, <1>4, <1>5, <1>6, <1>7, <1>8, <1>9, <1>10, <1>11, <1>12
  DEF Next, Run, Rest, IPFragment, TCPandIPfragment

THEOREM SplitCorrect == Spec => []SplitInv
  BY InitInv, InvStep, PTL DEF Spec

(* Whatever the lists, the MTU, the MSS and the padding: the pieces the     *)
(* three loops make carry the payloads of the packets in order, every byte  *)
(* at most once and none past the end (the source offsets and remain).      *)
THEOREM TilingCorrect == Spec => []Tiling
<1>1. SplitInv => Tiling
  BY DEF SplitInv
<1> QED
  BY <1>1, SplitCorrect, PTL

(* When a routine says TRUE, and its caller drops the original, no byte of  *)
(* the payload of packets 1 to LastPacket is missing from what it made, and *)
(* nothing of a packet behind them is in it: for IPFragment that is the     *)
(* list, for the others its first packet alone.                             *)
THEOREM CompleteCorrect == Spec => []Complete
<1>1. SplitInv => Complete
  BY DEF SplitInv
<1> QED
  BY <1>1, SplitCorrect, PTL

(* TCPandIPfragment has given back its pool memory and its list when it is  *)
(* done, wherever it failed, and the completion does when it injected; the  *)
(* MDLs and NET_BUFFERs of the segments are still allocated.                *)
THEOREM OnlySegmentsStayCorrect == Spec => []OnlySegmentsStay
<1>1. SplitInv => OnlySegmentsStay
  BY DEF SplitInv, Kept
<1> QED
  BY <1>1, SplitCorrect, PTL
----------------------------------------------------------------------------
(* What is written into each piece.                                         *)

LEMMA SeqAdds ==
  ASSUME NEW s \in Words32, NEW a \in Nat, NEW b \in Nat
  PROVE  /\ updateTCPSeqNumber(s, 0) = s
         /\ updateTCPSeqNumber(updateTCPSeqNumber(s, a), b) = updateTCPSeqNumber(s, a + b)
<1>1. PICK h \in Below(65536), l \in Below(65536) : s = <<h, l>>
  BY DEF Words32
<1>2. h \in Nat /\ h < 65536 /\ l \in Nat /\ l < 65536
  <2>1. \A x \in Below(65536) : x \in Nat /\ x < 65536
    BY SMTT(30) DEF Below
  <2> QED
    BY <2>1
<1>3. s[1] = h /\ s[2] = l
  BY <1>1
<1>4. updateTCPSeqNumber(s, 0) = s
  <2>1. (l + 0) \div 65536 = 0 /\ (l + 0) % 65536 = l /\ (h + 0) % 65536 = h
    BY <1>2
  <2> QED
    BY <1>1, <1>3, <2>1 DEF updateTCPSeqNumber
<1>5. updateTCPSeqNumber(updateTCPSeqNumber(s, a), b) = updateTCPSeqNumber(s, a + b)
  <2> DEFINE q == (l + a) \div 65536
             r == (l + a) % 65536
             t == updateTCPSeqNumber(s, a)
             d == (r + b) \div 65536
  <2>1. t[1] = (h + q) % 65536 /\ t[2] = r
    BY <1>3 DEF updateTCPSeqNumber
  <2>2. q \in Nat /\ r \in Nat /\ l + a = 65536 * q + r
    BY <1>2
  <2> HIDE DEF q, r
  <2>3. d \in Nat /\ (l + (a + b)) % 65536 = (r + b) % 65536
        /\ (l + (a + b)) \div 65536 = q + d
    BY <1>2, <2>2
  <2> HIDE DEF d
  <2>4. (((h + q) % 65536) + d) % 65536 = (h + (q + d)) % 65536
    BY <1>2, <2>2, <2>3
  <2>5. updateTCPSeqNumber(t, b) = <<(t[1] + (t[2] + b) \div 65536) % 65536,
                                     (t[2] + b) % 65536>>
    BY DEF updateTCPSeqNumber
  <2>6. updateTCPSeqNumber(s, a + b) =
          <<(h + (l + (a + b)) \div 65536) % 65536, (l + (a + b)) % 65536>>
    BY <1>3 DEF updateTCPSeqNumber
  <2> QED
    BY <2>1, <2>3, <2>4, <2>5, <2>6 DEF d
<1> QED
  BY <1>4, <1>5

(* A piece as it should be.                                                 *)
GoodPiece(p) ==
  LET b == list[p.nb]
      last == End(p) = Payload(p.nb)
  IN /\ IsCut(p) =>
          /\ p.total = b.hl + p.len
          /\ p.from % 8 = 0 /\ p.offset = (b.offset + p.from \div 8) % 8192
          /\ p.flags = IF last THEN b.flags % 2 ELSE 1
          /\ p.total <= limit /\ p.frame <= 14 + limit + 50
     /\ MAC + Headers(p.nb) + p.len <= p.frame
     /\ p.frame <= p.room
     /\ routine = TCP => /\ p.nb = 1 /\ p.len <= limit
                         /\ p.frame = Headers(1) + p.len
                         /\ p.seq = updateTCPSeqNumber(list[1].seq, p.from)

Unpadded(p) == IsCut(p) => p.frame <= 14 + limit

PiecesGood ==
  \A k \in DOMAIN pieces :
    GoodPiece(pieces[k]) /\ (k > 1 => Unpadded(pieces[k]))

(* A fragment after the first has a full fragment's room below the MTU,     *)
(* which the first showed; what is copied straight is not cut.              *)
Limited ==
  /\ pad \in Nat /\ limit \in Nat
  /\ step = "cut" /\ i > 0 => list[n].hl + MTUpayload(n) <= limit
  /\ step = "straight" => ~(list[n].ip4 /\ list[n].total > limit)

PieceInv == SplitInv /\ PiecesGood /\ Limited

LEMMA SameGood ==
  ASSUME UNCHANGED <<call, limit>>
  PROVE  \A p : (GoodPiece(p)' <=> GoodPiece(p)) /\ (Unpadded(p)' <=> Unpadded(p))
BY DEF GoodPiece, Unpadded, IsCut, End, Payload, Headers, MAC, call

LEMMA GoodKept ==
  ASSUME PiecesGood, UNCHANGED <<call, limit, pieces>>
  PROVE  PiecesGood'
BY DEF PiecesGood, GoodPiece, Unpadded, IsCut, End, Payload, Headers, MAC, call

LEMMA GoodAdded ==
  ASSUME SplitInv, PiecesGood, UNCHANGED <<call, limit>>, NEW p,
         NEW old \in {pieces, <<>>}, pieces' = Append(old, p), GoodPiece(p),
         old # <<>> => Unpadded(p)
  PROVE  PiecesGood'
<1>0. IsSeq(old) /\ (old # <<>> => old = pieces)
  BY EmptyIsSeq DEF SplitInv, Shape
<1>1. /\ Len(old) \in Nat /\ DOMAIN old = 1..Len(old)
      /\ (old = <<>> <=> Len(old) = 0)
      /\ DOMAIN pieces' = 1..(Len(old) + 1)
      /\ pieces'[Len(old) + 1] = p
      /\ \A k \in 1..Len(old) : pieces'[k] = old[k]
  BY <1>0, Appended
<1>2. ASSUME NEW k \in DOMAIN pieces'
      PROVE  (GoodPiece(pieces[k]) /\ (k > 1 => Unpadded(pieces[k])))'
  <2>1. PICK q : q = pieces'[k]
    OBVIOUS
  <2>2. GoodPiece(q) /\ (k > 1 => Unpadded(q))
    <3>1. CASE k \in 1..Len(old)
      BY <1>0, <1>1, <2>1, <3>1 DEF PiecesGood
    <3>2. CASE k = Len(old) + 1
      BY <1>1, <2>1, <3>2
    <3> QED
      BY <1>1, <3>1, <3>2
  <2>3. GoodPiece(q)' /\ (k > 1 => Unpadded(q)')
    BY <2>2, SameGood
  <2> QED
    BY <2>1, <2>3 DEF GoodPiece, Unpadded, IsCut, End, Payload, Headers
<1> QED
  BY <1>2 DEF PiecesGood

(* The fragment itself.                                                     *)
LEMMA CutGood ==
  ASSUME PieceInv, Fragment, CutFragment
  PROVE  PiecesGood' /\ Limited'
<1>1. /\ step = "cut" /\ UNCHANGED <<call, limit, pad>> /\ routine \in IP
      /\ limit \in Limits /\ pad \in Nat
      /\ i < FragmentCount(n) /\ n \in DOMAIN list /\ i \in Nat /\ Cutting /\ Within
  BY DEF Fragment, PieceInv, Limited, SplitInv, Shape, Place, Fragmenting, Working
<1>2. /\ CopyFits(n, Source(n), CutLength(n), Room)
      /\ remain' = remain - CutLength(n) /\ i' = i + 1
      /\ step' = "cut" /\ n' = n
  BY DEF CutFragment, Remaining, GoTo
<1>3. PICK frame \in FrameLengths(CutLength(n)) :
        pieces' = Append(pieces,
            updateIPHeader(Piece(n, Source(n), CutLength(n), frame, Room),
              list[n].hl + CutLength(n),
              FragmentFlags(list[n], Remaining(CutLength(n))),
              list[n].offset + Source(n) \div 8))
  BY DEF CutFragment
<1> DEFINE p == updateIPHeader(Piece(n, Source(n), CutLength(n), frame, Room),
                  list[n].hl + CutLength(n),
                  FragmentFlags(list[n], Remaining(CutLength(n))),
                  list[n].offset + Source(n) \div 8)
<1>4. /\ p.nb = n /\ p.from = Source(n) /\ p.len = CutLength(n)
      /\ p.frame = frame /\ p.room = Room
      /\ p.total = (list[n].hl + CutLength(n)) % 65536
      /\ p.flags = FragmentFlags(list[n], Remaining(CutLength(n)))
      /\ p.offset = (list[n].offset + Source(n) \div 8) % 8192
  BY DEF updateIPHeader, Piece
<1> HIDE DEF p
<1>5. /\ Source(n) = Payload(n) - remain /\ Source(n) \in Nat
      /\ CutLength(n) \in Nat \ {0} /\ CutLength(n) <= remain
      /\ remain \in Nat /\ remain <= Payload(n)
      /\ (i = 0 => Source(n) = 0)
  BY <1>1, <1>2, NextFragment DEF PieceInv
<1>6. /\ Payload(n) \in Nat /\ list[n].hl \in Nat /\ list[n].hl >= 20
      /\ list[n].hl <= 60 /\ list[n].total \in Nat /\ list[n].total <= 65535
      /\ list[n].ip4 /\ list[n].total > limit /\ limit \in Nat
      /\ routine # TCP /\ MTUpayload(n) # 0
      /\ Headers(n) = list[n].hl /\ MAC = 14
  <2>1. list[n].ip4 /\ list[n].total > limit /\ MTUpayload(n) # 0
    BY <1>1 DEF Cutting
  <2>2. /\ Payload(n) \in Nat /\ list[n].hl \in Nat
        /\ list[n].total \in Nat /\ list[n].total <= 65535
        /\ list[n].hl >= 20 /\ list[n].hl <= 60
    BY <1>1, <2>1, Packets DEF PieceInv, SplitInv, Shape
  <2>3. limit \in Nat /\ routine # TCP
    BY <1>1, SplitAssumption DEF IP, TCP
  <2>4. Headers(n) = list[n].hl /\ MAC = 14
    BY <2>2, <2>3 DEF Headers, MAC
  <2> QED
    BY <2>1, <2>2, <2>3, <2>4
<1>7. /\ MTUpayload(n) \in Nat \ {0} /\ MTUpayload(n) % 8 = 0
      /\ \A room : CopyFits(n, 0, MTUpayload(n), room) =>
            list[n].hl + MTUpayload(n) <= limit /\ MTUpayload(n) < Payload(n)
  BY <1>1, <1>6, FirstFits DEF PieceInv, SplitInv, Shape
<1>8. /\ list[n].hl + MTUpayload(n) <= limit
      /\ CutLength(n) <= MTUpayload(n)
      /\ i = 0 => remain - CutLength(n) > 0
  <2>1. CASE i = 0
    <3>1. CutLength(n) = MTUpayload(n) /\ Source(n) = 0
      BY <1>5, <2>1 DEF CutLength
    <3>2. remain = Payload(n)
      BY <1>5, <1>6, <3>1
    <3> QED
      BY <1>2, <1>6, <1>7, <3>1, <3>2
  <2>2. CASE i # 0
    <3>1. CutLength(n) <= MTUpayload(n)
      BY <1>5, <1>7, <2>2 DEF CutLength, Least
    <3>2. list[n].hl + MTUpayload(n) <= limit
      BY <1>1, <2>2 DEF PieceInv, Limited
    <3> QED
      BY <2>2, <3>1, <3>2
  <2> QED
    BY <2>1, <2>2
<1>9. p.total = list[n].hl + p.len /\ p.total <= limit
  BY <1>4, <1>5, <1>6, <1>7, <1>8
<1>10. p.from % 8 = 0
  <2>1. PICK m \in Nat : MTUpayload(n) = 8 * m
    BY <1>7
  <2>2. i * (8 * m) = 8 * (i * m) /\ i * m \in Nat
    BY <1>1
  <2>3. (8 * (i * m)) % 8 = 0
    BY <2>2
  <2> QED
    BY <1>4, <2>1, <2>2, <2>3 DEF Source
<1>11. p.flags = IF End(p) = Payload(n) THEN list[n].flags % 2 ELSE 1
  BY <1>4, <1>5, <1>6, <1>8 DEF End, FragmentFlags, Remaining
<1>12. /\ 14 + list[n].hl + CutLength(n) <= frame /\ frame <= Room
       /\ frame <= 14 + limit + 50
       /\ pieces # <<>> => frame <= 14 + limit
  <2> DEFINE whole == 14 + list[n].hl + CutLength(n)
             full == 14 + list[n].hl + MTUpayload(n)
  <2>1. whole \in Nat /\ full \in Nat /\ whole <= full /\ full <= 14 + limit
    BY <1>5, <1>6, <1>7, <1>8
  <2>2. MDLDataSize(n) >= full /\ MDLDataSize(n) \in Nat
        /\ (routine = "IPFragment" /\ n = 1 => MDLDataSize(n) = full + 50)
    BY <1>6, <1>7 DEF MDLDataSize
  <2>3. routine = "IPFragment" => Room = MDLDataSize(n)
    BY DEF Room
  <2>4. Room >= whole /\ Room \in Nat /\ limit \in Nat
    <3>1. Room \in Nat
      BY <1>5, <2>2 DEF Room, InboundSize
    <3> QED
      BY <1>2, <1>5, <1>6, <3>1 DEF CopyFits
  <2> HIDE DEF whole, full
  <2>5. i = 0 /\ n = 1 => pieces = <<>>
    <3>1. pieces # <<>> => LastOf(pieces).nb \in DOMAIN list
      BY Appended DEF PieceInv, SplitInv, Shape, LastOf
    <3>2. DOMAIN list = 1..Len(list) /\ Len(list) \in Nat
      BY Packets DEF PieceInv, SplitInv, Shape
    <3> QED
      BY <1>1, <3>1, <3>2 DEF Within, Before
  <2>6. ASSUME frame = whole
        PROVE  /\ whole <= frame /\ frame <= Room /\ frame <= 14 + limit + 50
               /\ pieces # <<>> => frame <= 14 + limit
    BY <2>1, <2>4, <2>6
  <2>7. ASSUME routine = "IPFragment", n = 1,
               frame = Padded(whole, IF i = 0 THEN MDLDataSize(n) ELSE full)
        PROVE  /\ whole <= frame /\ frame <= Room /\ frame <= 14 + limit + 50
               /\ pieces # <<>> => frame <= 14 + limit
    BY <1>1, <2>1, <2>2, <2>3, <2>4, <2>5, <2>7 DEF Padded
  <2>8. \/ frame = whole
        \/ /\ routine = "IPFragment" /\ n = 1
           /\ frame = Padded(whole, IF i = 0 THEN MDLDataSize(n) ELSE full)
    BY DEF FrameLengths, whole, full
  <2>9. /\ whole <= frame /\ frame <= Room /\ frame <= 14 + limit + 50
        /\ pieces # <<>> => frame <= 14 + limit
    BY <2>6, <2>7, <2>8
  <2> QED
    BY <2>9 DEF whole
<1>13. GoodPiece(p) /\ (pieces # <<>> => Unpadded(p))
  BY <1>4, <1>6, <1>9, <1>10, <1>11, <1>12 DEF GoodPiece, Unpadded
<1>14. PiecesGood'
  BY <1>1, <1>3, <1>13, GoodAdded DEF PieceInv, p
<1>15. Limited'
  BY <1>1, <1>2, <1>6, <1>8, SameList, SameLimit DEF Limited
<1> QED
  BY <1>14, <1>15

(* A packet copied as it is.                                                *)
LEMMA StraightGood ==
  ASSUME PieceInv, CopyStraight, pieces' = Append(pieces, StraightPiece)
  PROVE  PiecesGood'
<1>1. /\ step = "straight" /\ UNCHANGED <<call, limit>> /\ routine = "IPFragment"
      /\ n \in DOMAIN list /\ ~(list[n].ip4 /\ list[n].total > limit)
  BY DEF CopyStraight, PieceInv, Limited, SplitInv, Shape, Place
<1> DEFINE p == StraightPiece
<1>2. /\ p.nb = n /\ p.from = 0 /\ p.len = Payload(n)
      /\ p.frame = 14 + list[n].present /\ p.room = 14 + list[n].present
  BY DEF StraightPiece, Piece
<1> HIDE DEF p
<1>3. /\ Payload(n) = list[n].total - list[n].hl /\ Headers(n) = list[n].hl /\ MAC = 14
      /\ list[n].hl \in Nat /\ list[n].total \in Nat /\ list[n].present \in Nat
      /\ list[n].total <= list[n].present
  BY <1>1, Packets DEF PieceInv, SplitInv, Shape, Payload, Headers, MAC, TCP
<1>4. ~IsCut(p) /\ routine # TCP
  BY <1>1, <1>2 DEF IsCut, TCP
<1>5. GoodPiece(p) /\ Unpadded(p)
  BY <1>2, <1>3, <1>4 DEF GoodPiece, Unpadded
<1> QED
  BY <1>1, <1>5, GoodAdded DEF PieceInv, p

(* A segment.                                                               *)
LEMMA SegmentGood ==
  ASSUME PieceInv, Segment, Segments
  PROVE  PiecesGood'
<1>1. /\ UNCHANGED <<call, limit>> /\ routine = TCP /\ limit \in Limits
      /\ remain \in Nat /\ remain # 0 /\ 1 \in DOMAIN list
  BY SegmentWays DEF PieceInv, SplitInv, Shape, Place, Segmented, Working
<1> DEFINE made == Piece(1, Copied, SegmentLength, Headers(1) + SegmentLength, SegmentRoom)
           new == updateTCPSeqNumber(made.seq, SequenceOffset)
<1>a. PICK ok \in BOOLEAN :
        pieces' = Append(MadeBefore,
                    updateTCPchecksum([made EXCEPT !.seq = new], SegmentLength, ok))
  BY DEF Segments
<1> DEFINE p == updateTCPchecksum([made EXCEPT !.seq = new], SegmentLength, ok)
<1>2. /\ p.nb = 1 /\ p.from = Copied /\ p.len = SegmentLength
      /\ p.frame = Headers(1) + SegmentLength /\ p.room = SegmentRoom
      /\ p.seq = updateTCPSeqNumber(list[1].seq, Copied)
  BY DEF updateTCPchecksum, Piece, SequenceOffset
<1>3. pieces' = Append(MadeBefore, p)
  BY <1>a
<1> HIDE DEF p
<1>4. /\ Headers(1) \in Nat /\ limit \in Nat /\ MAC = 0
  BY <1>1, Packets, SplitAssumption DEF PieceInv, SplitInv, Shape, MAC
<1>5. SegmentLength \in Nat /\ SegmentLength <= limit
  BY <1>1, <1>4 DEF SegmentLength, Least
<1>6. MAC + Headers(1) + SegmentLength <= SegmentRoom
  BY DEF Segments, CopyFits
<1>7. ~IsCut(p)
  BY <1>1 DEF IsCut
<1>8. GoodPiece(p) /\ Unpadded(p)
  BY <1>1, <1>2, <1>4, <1>5, <1>6, <1>7 DEF GoodPiece, Unpadded
<1>9. MadeBefore \in {pieces, <<>>}
  BY DEF MadeBefore
<1> QED
  BY <1>1, <1>3, <1>8, <1>9, GoodAdded DEF PieceInv

----------------------------------------------------------------------------
LEMMA PieceInit == Init => PieceInv
<1> SUFFICES ASSUME Init PROVE PieceInv
  OBVIOUS
<1>1. SplitInv
  BY InitInv
<1>2. PiecesGood /\ Limited
  BY DEF Init, PiecesGood, Limited
<1> QED
  BY <1>1, <1>2 DEF PieceInv

(* A step that makes no piece.                                              *)
LEMMA NoNewPiece ==
  ASSUME PieceInv, UNCHANGED <<call, limit, pieces>>, pad' \in Nat,
         step' = "cut" => i' = 0 \/ UNCHANGED <<step, n, i>>,
         step' = "straight" => \/ UNCHANGED <<step, n>>
                               \/ n' = n /\ ~(list[n].ip4 /\ list[n].total > limit)
  PROVE  PiecesGood' /\ Limited'
<1>1. PiecesGood'
  BY GoodKept DEF PieceInv
<1>2. Limited'
  BY SameList, SameLimit DEF PieceInv, Limited
<1> QED
  BY <1>1, <1>2

LEMMA PieceStep == PieceInv /\ [Next]_vars => PieceInv'
<1> SUFFICES ASSUME PieceInv, [Next]_vars PROVE PieceInv'
  OBVIOUS
<1>1. SplitInv'
  BY InvStep DEF PieceInv
<1>2. pad \in Nat /\ limit \in Nat
  BY DEF PieceInv, Limited
<1>0. ASSUME NEW made, NEW taken, FailWith(taken, made),
             UNCHANGED <<call, limit>>, pad' = pad
      PROVE  PieceInv'
  BY <1>1, <1>2, <1>0, NoNewPiece DEF FailWith, cutting, PieceInv
<1>3. ASSUME NEW made, Fail(made), UNCHANGED <<call, limit>>, pad' = pad
      PROVE  PieceInv'
  BY <1>0, <1>3 DEF Fail
<1>4. ASSUME Bugcheck, UNCHANGED <<call, limit>>, pad' = pad
      PROVE  PieceInv'
  BY <1>1, <1>2, <1>4, NoNewPiece DEF Bugcheck, cutting, PieceInv
<1>5. CASE Begin
  <2>1. pieces = <<>> /\ pieces' = <<>> /\ step' \notin {"cut", "straight"}
    BY <1>5 DEF Begin, Fail, FailWith, GoTo, cutting, PieceInv, SplitInv, Place, Starting
  <2>2. pad' = pad \/ pad' \in Pads \/ pad' = 0
    BY <1>5 DEF Begin
  <2>3. pad' \in Nat /\ limit' \in Nat
    <3>1. (\A x \in Pads : x \in Nat) /\ (\A x \in Limits : x \in Nat)
      BY SplitAssumption
    <3>2. limit' = limit \/ limit' \in Limits
      BY <1>5 DEF Begin
    <3> QED
      BY <1>2, <2>2, <3>1, <3>2
  <2> QED
    BY <1>1, <2>1, <2>3 DEF PieceInv, PiecesGood, Limited
<1>6. CASE Allocate
  <2>1. UNCHANGED <<call, limit, pad, pieces>> /\ step' \notin {"cut", "straight"}
    BY <1>6 DEF Allocate, Fail, FailWith, GoTo, cutting
  <2> QED
    BY <1>1, <1>2, <2>1, NoNewPiece DEF PieceInv
<1>7. CASE ParseIP
  <2>1. UNCHANGED <<call, limit, pad, pieces>> /\ step' # "straight"
        /\ (step' = "cut" => i' = 0)
    BY <1>7 DEF ParseIP, Fail, FailWith, Bugcheck, GoTo, cutting, StartPacket
  <2> QED
    BY <1>1, <1>2, <2>1, NoNewPiece DEF PieceInv
<1>8. CASE Fragment
  <2>1. CASE CutFragment
    BY <1>1, <1>8, <2>1, CutGood DEF PieceInv
  <2> QED
    BY <1>3, <1>4, <1>8, <2>1 DEF Fragment
<1>9. CASE EndPacket
  <2>1. UNCHANGED <<call, limit, pad, pieces>> /\ step' \notin {"cut", "straight"}
    BY <1>9 DEF EndPacket, Fail, FailWith, GoTo, cutting
  <2> QED
    BY <1>1, <1>2, <2>1, NoNewPiece DEF PieceInv
<1>10. CASE NextPacket
  <2>1. UNCHANGED <<call, limit, pad>>
    BY <1>10 DEF NextPacket
  <2>2. \/ Fail(copy) \/ Bugcheck
        \/ /\ UNCHANGED pieces
           /\ step' = "cut" => i' = 0
           /\ step' = "straight" =>
                n' = n /\ ~(list[n].ip4 /\ list[n].total > limit)
    <3>1. limit \in Nat /\ list[n].total \in Nat
      <4>1. /\ limit \in Limits /\ n \in DOMAIN list
            /\ <<routine, list>> \in Calls
        BY <1>10
        DEF NextPacket, PieceInv, SplitInv, Shape, Place, Working, Fragmenting
      <4>2. list[n].total \in Nat
        BY <4>1, Packets
      <4> QED
        BY <4>1, <4>2, SplitAssumption
    <3> QED
      BY <1>10, <3>1 DEF NextPacket, GoTo, cutting, StartPacket
  <2> QED
    BY <1>1, <1>2, <1>3, <1>4, <2>1, <2>2, NoNewPiece DEF PieceInv
<1>11. CASE CopyStraight
  <2>1. CASE pieces' = Append(pieces, StraightPiece) /\ step' \in {"next", "done"}
    BY <1>1, <1>2, <1>11, <2>1, StraightGood DEF CopyStraight, PieceInv, Limited
  <2>2. \/ pieces' = Append(pieces, StraightPiece) /\ step' \in {"next", "done"}
        \/ Fail(copy) \/ Bugcheck
    BY <1>11 DEF CopyStraight, GoTo
  <2> QED
    BY <1>3, <1>4, <1>11, <2>1, <2>2 DEF CopyStraight
<1>12. CASE ParseTCP
  <2>1. UNCHANGED <<call, limit, pad, pieces>> /\ step' \notin {"cut", "straight"}
    BY <1>12 DEF ParseTCP, Fail, FailWith, GoTo, cutting, StartPacket
  <2> QED
    BY <1>1, <1>2, <2>1, NoNewPiece DEF PieceInv
<1>13. CASE Segment
  <2>1. UNCHANGED <<call, limit, pad>>
    BY <1>13, SegmentWays
  <2>2. CASE Segments
    <3>1. PiecesGood'
      BY <1>13, <2>2, SegmentGood
    <3>2. step' = "segment"
      BY <2>2 DEF Segments
    <3> QED
      BY <1>1, <1>2, <2>1, <3>1, <3>2 DEF PieceInv, Limited
  <2> QED
    BY <1>0, <1>4, <1>13, <2>1, <2>2, SegmentWays
<1>14. CASE InjectSegments
  <2>1. UNCHANGED <<call, limit, pad, pieces>> /\ step' \notin {"cut", "straight"}
    BY <1>14 DEF InjectSegments, Fail, FailWith, cutting
  <2> QED
    BY <1>1, <1>2, <2>1, NoNewPiece DEF PieceInv
<1>15. CASE IPInjectionComplete
  <2>1. UNCHANGED <<call, limit, pad, pieces>> /\ step' \notin {"cut", "straight"}
    BY <1>15 DEF IPInjectionComplete, GoTo, cutting
  <2> QED
    BY <1>1, <1>2, <2>1, NoNewPiece DEF PieceInv
<1>16. CASE UNCHANGED vars
  <2>1. UNCHANGED <<call, limit, pad, pieces, step, n, i>>
    BY <1>16 DEF vars, cutting
  <2> QED
    BY <1>1, <1>2, <2>1, NoNewPiece DEF PieceInv
<1> QED
  BY <1>5, <1>6, <1>7, <1>8, <1>9, <1>10, <1>11, <1>12, <1>13, <1>14, <1>15, <1>16
  DEF Next, Run, Rest, IPFragment, TCPandIPfragment

THEOREM PiecesCorrect == Spec => []PieceInv
  BY PieceInit, PieceStep, PTL DEF Spec

(* A receiver can put the fragments together: for any MTU, any packets and  *)
(* lists, the offset, flags and length updateIPHeader writes are right.     *)
THEOREM FragmentHeadersCorrect == Spec => []FragmentHeaders
<1>1. PieceInv => FragmentHeaders
  BY DEF PieceInv, PiecesGood, GoodPiece, FragmentHeaders
<1> QED
  BY <1>1, PiecesCorrect, PTL

(* No piece, with its padding, exceeds the memory that was allocated for it *)
(* (SELF_MDLDataSize, AllocateSize), and none without its padding the MTU   *)
(* or the MSS; with its padding the first fragment of a list may exceed the *)
(* MTU by 0x32 bytes, and no other fragment does.                           *)
THEOREM PieceFitsCorrect == Spec => []PieceFits
<1>1. ASSUME PieceInv, NEW k \in DOMAIN pieces
      PROVE  LET p == pieces[k] IN
             /\ MAC + Headers(p.nb) + p.len <= p.frame
             /\ p.frame <= p.room
             /\ routine = TCP => p.len <= limit
             /\ IsCut(p) => p.total <= limit /\ p.frame <= 14 + limit + Excess(k)
  <2>1. k = 1 \/ k > 1
    <3>1. DOMAIN pieces = 1..Len(pieces)
      BY <1>1, Appended DEF PieceInv, SplitInv, Shape
    <3> QED
      BY <3>1
  <2>2. GoodPiece(pieces[k]) /\ (k > 1 => Unpadded(pieces[k])) /\ limit \in Nat
    BY <1>1 DEF PieceInv, PiecesGood, Limited
  <2>3. IF k = 1 THEN Excess(k) = 50 ELSE 14 + limit + Excess(k) = 14 + limit
    BY <2>2 DEF Excess
  <2> QED
    BY <2>1, <2>2, <2>3 DEF GoodPiece, Unpadded
<1>2. PieceInv => PieceFits
  BY <1>1 DEF PieceFits
<1> QED
  BY <1>2, PiecesCorrect, PTL

(* The sequence numbers of the segments follow each other, in 32 bits, for  *)
(* any MSS and any payload (updateTCPSeqNumber).                            *)
THEOREM SequenceContinuesCorrect == Spec => []SequenceContinues
<1>1. ASSUME PieceInv, routine = TCP, NEW k \in DOMAIN pieces
      PROVE  pieces[k].seq = IF k = 1 THEN list[1].seq
                    ELSE updateTCPSeqNumber(pieces[k-1].seq, pieces[k-1].len)
  <2>1. list[1].seq \in Words32
    <3>1. <<routine, list>> \in Calls
      BY <1>1 DEF PieceInv, SplitInv, Shape
    <3>2. list \in Seq(NetBuffers) /\ 1 \in DOMAIN list
      <4>1. <<routine, list>>[2] = list
        OBVIOUS
      <4>2. list \in Seq(NetBuffers)
        BY <3>1, <4>1, CallFacts
      <4> QED
        BY <3>1, <4>2, Packets
    <3>3. list[1] \in NetBuffers
      BY <3>2
    <3> QED
      BY <3>3 DEF NetBuffers
  <2>2. /\ \A j \in DOMAIN pieces :
             /\ pieces[j].seq = updateTCPSeqNumber(list[1].seq, pieces[j].from)
             /\ pieces[j].from \in Nat /\ pieces[j].len \in Nat
        /\ TiledAt(k)
    BY <1>1 DEF PieceInv, PiecesGood, GoodPiece, SplitInv, Shape, Tiling
  <2>3. CASE k = 1
    BY <2>1, <2>2, <2>3, SeqAdds DEF TiledAt
  <2>4. CASE k # 1
    <3>1. k - 1 \in DOMAIN pieces
      <4>1. DOMAIN pieces = 1..Len(pieces) /\ Len(pieces) \in Nat
        BY <1>1, Appended DEF PieceInv, SplitInv, Shape
      <4> QED
        BY <1>1, <2>4, <4>1
    <3>2. pieces[k].nb = 1 /\ pieces[k-1].nb = 1
      BY <1>1, <3>1 DEF PieceInv, PiecesGood, GoodPiece
    <3>3. pieces[k].from = pieces[k-1].from + pieces[k-1].len
      BY <2>2, <2>4, <3>2 DEF TiledAt, End
    <3> QED
      BY <2>1, <2>2, <2>4, <3>1, <3>3, SeqAdds
  <2> QED
    BY <2>3, <2>4
<1>2. PieceInv => SequenceContinues
  BY <1>1 DEF SequenceContinues
<1> QED
  BY <1>2, PiecesCorrect, PTL

(* Every pass through the loops of the three routines leaves less to do,    *)
(* whatever the lengths and the limits, but for an MSS of 0: then no pass   *)
(* over the segments does.                                                  *)
THEOREM LoopsEndCorrect == Spec => LoopsEnd
<1> DEFINE Less == /\ step' = step => IF routine = TCP /\ limit = 0
                                      THEN remain' = remain
                                      ELSE remain' < remain
                   /\ step' = "next" => n' > n
<1>1. ASSUME SplitInv, [Next]_vars PROVE [Less]_vars
  <2>1. CASE Begin
    BY <2>1 DEF Begin, Fail, FailWith, GoTo
  <2>2. CASE Allocate
    BY <2>2 DEF Allocate, Fail, FailWith, GoTo
  <2>3. CASE ParseIP
    BY <2>3 DEF ParseIP, Fail, FailWith, Bugcheck, GoTo
  <2>4. CASE Fragment
    <3>1. CASE CutFragment
      <4>1. /\ remain \in Nat /\ CutLength(n) \in Nat \ {0}
            /\ CutLength(n) <= remain
        BY <1>1, <2>4, <3>1, NextFragment DEF Fragment, CutFragment
      <4>2. step' = "cut" /\ remain' = remain - CutLength(n) /\ routine # TCP
        BY <1>1, <2>4, <3>1
        DEF Fragment, CutFragment, GoTo, Remaining, SplitInv, Place, Fragmenting, IP, TCP
      <4> QED
        BY <4>1, <4>2
    <3>2. CASE ~CutFragment
      BY <2>4, <3>2 DEF Fragment, Fail, FailWith, Bugcheck
    <3> QED
      BY <3>1, <3>2
  <2>5. CASE EndPacket
    <3>1. n \in Nat
      <4>1. n \in DOMAIN list /\ DOMAIN list = 1..Len(list) /\ Len(list) \in Nat
        BY <1>1, Packets DEF SplitInv, Shape
      <4> QED
        BY <4>1
    <3> QED
      BY <2>5, <3>1 DEF EndPacket, Fail, FailWith, GoTo
  <2>6. CASE NextPacket
    BY <2>6 DEF NextPacket, Fail, FailWith, Bugcheck, GoTo
  <2>7. CASE CopyStraight
    <3>1. n \in Nat
      <4>1. n \in DOMAIN list /\ DOMAIN list = 1..Len(list) /\ Len(list) \in Nat
        BY <1>1, Packets DEF SplitInv, Shape
      <4> QED
        BY <4>1
    <3> QED
      BY <2>7, <3>1 DEF CopyStraight, Fail, FailWith, Bugcheck, GoTo
  <2>8. CASE ParseTCP
    BY <2>8 DEF ParseTCP, Fail, FailWith, GoTo
  <2>9. CASE Segment
    <3>1. CASE Segments
      <4>1. /\ remain \in Nat \ {0} /\ limit \in Limits /\ routine = TCP
        BY <1>1, <2>9, SegmentWays DEF SplitInv, Place, Segmented, Working
      <4>2. /\ SegmentLength \in Nat
            /\ limit = 0 <=> SegmentLength = 0
        BY <4>1, SplitAssumption DEF SegmentLength, Least
      <4>3. step' = "segment" /\ remain' = remain - SegmentLength
        BY <3>1 DEF Segments
      <4> QED
        BY <4>1, <4>2, <4>3
    <3>2. CASE ~Segments
      BY <2>9, <3>2, SegmentWays DEF FailWith, Bugcheck
    <3> QED
      BY <3>1, <3>2
  <2>10. CASE InjectSegments
    BY <2>10 DEF InjectSegments, Fail, FailWith
  <2>11. CASE IPInjectionComplete
    BY <2>11 DEF IPInjectionComplete, GoTo
  <2>12. CASE UNCHANGED vars
    BY <2>12
  <2> QED
    BY <1>1, <2>1, <2>2, <2>3, <2>4, <2>5, <2>6, <2>7, <2>8, <2>9, <2>10, <2>11, <2>12
    DEF Next, Run, Rest, IPFragment, TCPandIPfragment
<1> QED
  BY <1>1, SplitCorrect, PTL DEF Spec, LoopsEnd

----------------------------------------------------------------------------
(* What folding the carries back leaves: a number is 0, or the remainder of *)
(* 65535, with 65535 in place of 0.                                         *)
Folded(s) == IF s = 0 THEN 0 ELSE ((s - 1) % 65535) + 1

CarriesAdded(s) == (s \div 65536) + (s % 65536)

LEMMA CarriesLess ==
  ASSUME NEW s \in Nat, s > 65535
  PROVE  /\ CarriesAdded(s) \in Nat \ {0} /\ CarriesAdded(s) < s
         /\ Folded(CarriesAdded(s)) = Folded(s)
<1> DEFINE q == s \div 65536
           r == s % 65536
<1>1. q \in Int /\ r \in 0..65536-1 /\ s = 65536 * q + r
  <2>1. 65536 \in Nat \ {0} /\ s \in Int
    OBVIOUS
  <2> QED
    BY <2>1, DivMod
<1>2. CarriesAdded(s) = q + r
  BY DEF CarriesAdded
<1> HIDE DEF q, r
<1>3. q \in Nat \ {0} /\ r \in Nat
  BY <1>1
<1>4. q + r \in Nat \ {0} /\ q + r < s
  BY <1>1, <1>3
<1>5. (s - 1) % 65535 = ((q + r) - 1) % 65535
  <2>1. /\ 65535 \in Nat \ {0} /\ q \in Int
        /\ s - 1 \in Int /\ (q + r) - 1 \in Int
        /\ s - 1 = ((q + r) - 1) + 65535 * q
    BY <1>1, <1>3
  <2> QED
    BY <2>1, SameRemainder
<1> QED
  BY <1>2, <1>4, <1>5 DEF Folded

LEMMA FoldedSmall ==
  ASSUME NEW s \in Nat, ~(s > 65535)
  PROVE  Folded(s) = s
BY DEF Folded

LEMMA FoldIsFolded ==
  ASSUME NEW s \in Nat
  PROVE  Fold[s] = Folded(s)
<1> DEFINE Rec(f) ==
             f = [sum \in Nat |->
                    IF sum > 65535 THEN f[(sum \div 65536) + (sum % 65536)]
                    ELSE sum]
           g == [sum \in Nat |-> Folded(sum)]
           it == CHOOSE f : Rec(f)
<1>1. Fold = it
  BY DEF Fold
<1>2. Rec(g)
  <2>1. ASSUME NEW sum \in Nat
        PROVE  g[sum] = IF sum > 65535 THEN g[(sum \div 65536) + (sum % 65536)]
                        ELSE sum
    <3>1. CASE sum > 65535
      <4>1. /\ CarriesAdded(sum) \in Nat
            /\ Folded(CarriesAdded(sum)) = Folded(sum)
        BY <3>1, CarriesLess
      <4>2. g[CarriesAdded(sum)] = Folded(sum) /\ g[sum] = Folded(sum)
        BY <4>1
      <4> QED
        BY <3>1, <4>2 DEF CarriesAdded
    <3>2. CASE ~(sum > 65535)
      BY <3>2, FoldedSmall
    <3> QED
      BY <3>1, <3>2
  <2> QED
    BY <2>1
<1>3. Rec(it)
  <2> HIDE DEF g, Rec
  <2>1. \E f : Rec(f)
    BY <1>2
  <2> QED
    BY <2>1
<1> HIDE DEF it
<1>4. \A x \in Nat : Fold[x] = IF x > 65535 THEN Fold[CarriesAdded(x)] ELSE x
  BY <1>1, <1>3 DEF CarriesAdded
<1> DEFINE T == {x \in Nat : Fold[x] # Folded(x)}
<1>5. SUFFICES ASSUME T # {} PROVE FALSE
  OBVIOUS
<1>6. T \in SUBSET Nat
  OBVIOUS
<1>7. PICK x \in T : \A y \in T : x <= y
  BY <1>5, <1>6, LeastNat
<1>8. x \in Nat /\ Fold[x] # Folded(x)
  OBVIOUS
<1>9. CASE x > 65535
  <2>1. /\ CarriesAdded(x) \in Nat /\ CarriesAdded(x) < x
        /\ Folded(CarriesAdded(x)) = Folded(x)
    BY <1>8, <1>9, CarriesLess
  <2>2. CarriesAdded(x) \notin T
    BY <1>7, <1>8, <2>1
  <2>3. Fold[CarriesAdded(x)] = Folded(CarriesAdded(x))
    BY <2>1, <2>2
  <2> QED
    BY <1>4, <1>8, <1>9, <2>1, <2>3
<1>10. CASE ~(x > 65535)
  BY <1>4, <1>8, <1>10, FoldedSmall
<1> QED
  BY <1>9, <1>10

(* Numbers that the carries do not tell apart.                              *)
Congruent(s, f) == \E t \in Int : s = f + 65535 * t

LEMMA FoldFacts ==
  ASSUME NEW s \in Nat
  PROVE  /\ Fold[s] \in Nat /\ Fold[s] <= 65535
         /\ (Fold[s] = 0) <=> (s = 0)
         /\ Congruent(s, Fold[s])
<1>1. CASE s = 0
  <2>1. Fold[s] = 0 /\ s = 0 + 65535 * 0
    BY <1>1, FoldIsFolded DEF Folded
  <2> QED
    BY <1>1, <2>1 DEF Congruent
<1>2. CASE s # 0
  <2>0. PICK a \in Int : a = s - 1
    OBVIOUS
  <2> DEFINE q == a \div 65535
             r == a % 65535
  <2>1. q \in Int /\ r \in 0..65535-1 /\ a = 65535 * q + r
    <3>1. 65535 \in Nat \ {0}
      OBVIOUS
    <3> QED
      BY <3>1, DivMod
  <2>2. Fold[s] = r + 1
    BY <1>2, <2>0, FoldIsFolded DEF Folded
  <2> HIDE DEF q, r
  <2>3. s = Fold[s] + 65535 * q
    BY <2>0, <2>1, <2>2
  <2> QED
    BY <1>2, <2>1, <2>2, <2>3 DEF Congruent
<1> QED
  BY <1>1, <1>2

LEMMA FoldOnes ==
  ASSUME NEW s \in Nat \ {0}, NEW t \in Int, s = 65535 * t
  PROVE  Fold[s] = 65535
<1>1. s - 1 = 65534 + 65535 * (t - 1)
  OBVIOUS
<1>2. (s - 1) % 65535 = 65534 % 65535
  <2>1. 65535 \in Nat \ {0} /\ s - 1 \in Int /\ 65534 \in Int /\ t - 1 \in Int
    OBVIOUS
  <2> QED
    BY <1>1, <2>1, SameRemainder
<1>3. Folded(s) = 65535
  BY <1>2 DEF Folded
<1> QED
  BY <1>3, FoldIsFolded

----------------------------------------------------------------------------
(* The words of a little-endian machine and those of the network.           *)
Swaps(v, w) == \E b \in Nat : b <= w /\ 256 * v = w + 65535 * b

LEMMA SwapsAdd ==
  ASSUME NEW v \in Nat, NEW w \in Nat, NEW x \in Nat, NEW y \in Nat,
         Swaps(v, w), Swaps(x, y)
  PROVE  Swaps(v + x, w + y)
<1>1. PICK b \in Nat : b <= w /\ 256 * v = w + 65535 * b
  BY DEF Swaps
<1>2. PICK c \in Nat : c <= y /\ 256 * x = y + 65535 * c
  BY DEF Swaps
<1>3. /\ b + c \in Nat /\ b + c <= w + y
      /\ 256 * (v + x) = (w + y) + 65535 * (b + c)
  BY <1>1, <1>2
<1> QED
  BY <1>3 DEF Swaps

LEMMA SumIs == \A words : Sum(words) = SumOf(words)
  BY DEF Sum, SumOf

LEMMA SumsSwap ==
  ASSUME NEW v \in Seq(Nat), NEW w \in Seq(Nat), Len(v) = Len(w),
         \A k \in 1..Len(v) : Swaps(v[k], w[k])
  PROVE  Sum(v) \in Nat /\ Sum(w) \in Nat /\ Swaps(Sum(v), Sum(w))
<1> DEFINE m == Len(v)
<1>0. v \in Seq(Int) /\ w \in Seq(Int)
  OBVIOUS
<1>1. PICK f : IsSumRun(f, v) /\ SumOf(v) = f[m]
  BY <1>0, SumIsRun
<1>2. PICK g : IsSumRun(g, w) /\ SumOf(w) = g[m]
  BY <1>0, SumIsRun
<1>3. \A k \in 0..m : f[k] \in Nat /\ g[k] \in Nat
  BY <1>0, <1>1, <1>2, SumRunType
<1> DEFINE P == {k \in Nat : k <= m => Swaps(f[k], g[k])}
<1>4. /\ m \in Nat /\ \A k \in 1..m : v[k] \in Nat /\ w[k] \in Nat
      /\ \A k \in 1..m : f[k] = f[k - 1] + v[k] /\ g[k] = g[k - 1] + w[k]
      /\ f[0] = 0 /\ g[0] = 0
  BY <1>1, <1>2 DEF IsSumRun
<1>m. \A k \in 1..m : Swaps(v[k], w[k])
  OBVIOUS
<1> HIDE DEF m
<1>5. 0 \in P
  <2>1. 0 <= 0 /\ 256 * 0 = 0 + 65535 * 0
    OBVIOUS
  <2> QED
    BY <1>4, <2>1 DEF Swaps
<1>6. ASSUME NEW k \in P, k < m PROVE k + 1 \in P
  <2>1. k \in Nat /\ k \in 0..m /\ k + 1 \in 1..m /\ k + 1 - 1 = k
        /\ Swaps(f[k], g[k])
    BY <1>4, <1>6
  <2>2. /\ f[k + 1] = f[k] + v[k + 1] /\ g[k + 1] = g[k] + w[k + 1]
    BY <1>4, <2>1
  <2>3. /\ f[k] \in Nat /\ g[k] \in Nat /\ v[k + 1] \in Nat /\ w[k + 1] \in Nat
        /\ Swaps(v[k + 1], w[k + 1])
    BY <1>3, <1>4, <1>m, <2>1
  <2>4. Swaps(f[k] + v[k + 1], g[k] + w[k + 1])
    BY <2>1, <2>3, SwapsAdd
  <2>5. Swaps(f[k + 1], g[k + 1])
    BY <2>2, <2>4
  <2> QED
    BY <2>1, <2>5
<1>7. P \in SUBSET Nat
  OBVIOUS
<1> HIDE DEF P
<1>8. \A k \in 0..m : k \in P
  BY <1>4, <1>5, <1>6, <1>7, InductionUpTo
<1>9. m \in 0..m
  BY <1>4
<1>10. Swaps(f[m], g[m])
  BY <1>8, <1>9 DEF P
<1> QED
  BY <1>1, <1>2, <1>3, <1>9, <1>10, SumIs DEF m

LEMMA BytesSwap ==
  ASSUME NEW bytes \in Seq(Nat)
  PROVE  /\ Sum(Words(bytes)) \in Nat /\ ReceiverSum(bytes) \in Nat
         /\ Swaps(Sum(Words(bytes)), ReceiverSum(bytes))
<1> DEFINE m == (Len(bytes) + 1) \div 2
           w == [k \in 1..m |->
                   256 * bytes[2*k - 1]
                     + (IF 2*k <= Len(bytes) THEN bytes[2*k] ELSE 0)]
           v == Words(bytes)
<1>1. /\ m \in Nat
      /\ \A k \in 1..m : 2*k - 1 \in 1..Len(bytes) /\ 2*k \in Nat \ {0}
  OBVIOUS
<1>2. v = [k \in 1..m |->
            bytes[2*k - 1]
              + (IF 2*k <= Len(bytes) THEN 256 * bytes[2*k] ELSE 0)]
  BY DEF Words
<1>3. ReceiverSum(bytes) = Sum(w)
  BY DEF ReceiverSum
<1> HIDE DEF m, v
<1>4. ASSUME NEW k \in 1..m
      PROVE  v[k] \in Nat /\ w[k] \in Nat /\ Swaps(v[k], w[k])
  <2> DEFINE a == bytes[2*k - 1]
             b == IF 2*k <= Len(bytes) THEN bytes[2*k] ELSE 0
  <2>1. a \in Nat /\ b \in Nat
    <3>1. \A j \in 1..Len(bytes) : bytes[j] \in Nat
      OBVIOUS
    <3>2. 2*k - 1 \in 1..Len(bytes) /\ 2*k \in Nat \ {0}
      BY <1>1
    <3>3. 2*k <= Len(bytes) => 2*k \in 1..Len(bytes)
      BY <3>2
    <3> QED
      BY <3>1, <3>2, <3>3
  <2>2. w[k] = 256 * a + b
    OBVIOUS
  <2>3. v[k] = a + 256 * b
    BY <1>2
  <2> HIDE DEF a, b, w
  <2>4. /\ 256 * (a + 256 * b) = (256 * a + b) + 65535 * b
        /\ b <= 256 * a + b
    BY <2>1
  <2> QED
    BY <2>1, <2>2, <2>3, <2>4 DEF Swaps
<1>5. v \in Seq(Nat) /\ w \in Seq(Nat) /\ Len(v) = m /\ Len(w) = m
  <2>1. \A k \in 1..m : w[k] \in Nat
    BY <1>4
  <2>2. w \in [1..m -> Nat]
    BY <2>1
  <2>3. v \in [1..m -> Nat]
    BY <1>2, <1>4
  <2> HIDE DEF w
  <2> QED
    BY <1>1, <2>2, <2>3
<1> HIDE DEF w
<1> QED
  BY <1>3, <1>4, <1>5, SumsSwap DEF v

----------------------------------------------------------------------------
(* What the receiver adds up.                                               *)
LEMMA HeaderVerifies ==
  ASSUME NEW p, p.total \in Nat, p.flags \in Nat, p.offset \in Nat
  PROVE  /\ GetIpCheckSum(p) \in Nat
         /\ Fold[Sum(IPWords(p)) + GetIpCheckSum(p)] = 65535
<1> DEFINE s == Sum(IPWords(p))
<1>1. s \in Nat
  <2>1. Fixed \in Nat
    BY SplitAssumption DEF Below
  <2>2. IPWords(p) \in Seq(Nat) /\ IPWords(p) \in Seq(Int)
    BY <2>1 DEF IPWords
  <2> QED
    BY <2>2, SumType, SumIs
<1> HIDE DEF s
<1>2. PICK f : f = Fold[s]
  OBVIOUS
<1>3. f \in Nat /\ f <= 65535 /\ (s = 0 => f = 0) /\ Congruent(s, f)
  BY <1>1, <1>2, FoldFacts
<1>4. PICK t \in Int : s = f + 65535 * t
  BY <1>3 DEF Congruent
<1>5. GetIpCheckSum(p) = 65535 - f
  BY <1>2 DEF GetIpCheckSum, s
<1>6. /\ s + (65535 - f) \in Nat \ {0} /\ t + 1 \in Int
      /\ s + (65535 - f) = 65535 * (t + 1)
  BY <1>1, <1>3, <1>4
<1>7. Fold[s + (65535 - f)] = 65535
  BY <1>6, FoldOnes
<1> QED
  BY <1>3, <1>5, <1>7 DEF s

LEMMA SegmentVerifies ==
  ASSUME NEW bytes \in Seq(Nat), NEW c, c = csum(bytes)
  PROVE  /\ c \in Nat
         /\ Fold[ReceiverSum(bytes) + (256 * (c % 256) + c \div 256)] = 65535
<1> DEFINE v == Sum(Words(bytes))
           w == ReceiverSum(bytes)
           h == c \div 256
           l == c % 256
<1>1. v \in Nat /\ w \in Nat /\ Swaps(v, w)
  BY BytesSwap
<1> HIDE DEF v, w
<1>2. PICK f : f = Fold[v]
  OBVIOUS
<1>3. f \in Nat /\ f <= 65535 /\ (f = 0 <=> v = 0) /\ Congruent(v, f)
  BY <1>1, <1>2, FoldFacts
<1>4. PICK t \in Int : v = f + 65535 * t
  BY <1>3 DEF Congruent
<1>5. PICK b \in Nat : b <= w /\ 256 * v = w + 65535 * b
  BY <1>1 DEF Swaps
<1>6. c = 65535 - f /\ c \in Nat
  BY <1>2, <1>3 DEF csum, v
<1>7. h \in Nat /\ l \in Nat /\ c = 256 * h + l
  <2>1. 256 \in Nat \ {0} /\ c \in Int
    BY <1>6
  <2>2. h \in Int /\ l \in 0..256-1 /\ c = 256 * h + l
    BY <2>1, DivMod
  <2> HIDE DEF h, l
  <2> QED
    BY <1>6, <2>2
<1> HIDE DEF h, l
<1> DEFINE e == w + (256 * l + h)
           k == 256 * (t + 1) - h - b
<1>8. e = 65535 * k /\ k \in Int
  BY <1>1, <1>3, <1>4, <1>5, <1>6, <1>7
<1>9. e \in Nat \ {0}
  <2>1. CASE w # 0
    BY <1>1, <1>7, <2>1
  <2>2. CASE w = 0
    <3>1. b = 0 /\ 256 * v = 0
      BY <1>5, <2>2
    <3>2. v = 0
      BY <1>1, <3>1
    <3>3. c = 65535
      BY <1>3, <1>6, <3>2
    <3> QED
      BY <1>1, <1>7, <3>3
  <2> QED
    BY <2>1, <2>2
<1> HIDE DEF e, k
<1>10. Fold[e] = 65535
  BY <1>8, <1>9, FoldOnes
<1> QED
  BY <1>6, <1>10 DEF e, w, h, l

LEMMA BytesOf ==
  ASSUME NEW p, NEW l \in Nat, p.from \in Nat, p.seq \in Words32,
         list[p.nb].thl \in Nat
  PROVE  TCPBytes(p, l) \in Seq(Nat)
<1>1. Fixed \in Nat /\ Content \in Seq(Nat) /\ Len(Content) \in Nat \ {0}
  <2>1. Fixed \in Below(65536) /\ Content \in Seq(Below(256)) /\ Content # <<>>
    BY SplitAssumption
  <2>2. Below(65536) \subseteq Nat /\ Below(256) \subseteq Nat
    BY DEF Below
  <2> QED
    BY <2>1, <2>2
<1>2. p.seq[1] \in Nat /\ p.seq[2] \in Nat
  <2>1. PICK a \in Below(65536), b \in Below(65536) : p.seq = <<a, b>>
    BY DEF Words32
  <2>2. \A m \in Nat : Below(m) \subseteq Nat
    BY DEF Below
  <2>3. p.seq[1] = a /\ p.seq[2] = b
    BY <2>1
  <2> QED
    BY <2>2, <2>3
<1> DEFINE length == list[p.nb].thl + l
           front ==
             <<Fixed \div 256, Fixed % 256, 0, 6, length \div 256, length % 256,
               p.seq[1] \div 256, p.seq[1] % 256, p.seq[2] \div 256, p.seq[2] % 256>>
           back ==
             [k \in 1..l |-> Content[((p.from + k - 1) % Len(Content)) + 1]]
<1>3. front \in Seq(Nat)
  <2>1. length \in Nat
    OBVIOUS
  <2> HIDE DEF length
  <2>2. \A x \in Nat : x \div 256 \in Nat /\ x % 256 \in Nat
    OBVIOUS
  <2>3. /\ Fixed \div 256 \in Nat /\ Fixed % 256 \in Nat
        /\ length \div 256 \in Nat /\ length % 256 \in Nat
    BY <1>1, <2>1, <2>2
  <2>4. /\ p.seq[1] \div 256 \in Nat /\ p.seq[1] % 256 \in Nat
        /\ p.seq[2] \div 256 \in Nat /\ p.seq[2] % 256 \in Nat
    BY <1>2, <2>2
  <2> QED
    BY <2>3, <2>4
<1>4. back \in Seq(Nat)
  <2>1. ASSUME NEW k \in 1..l
        PROVE  Content[((p.from + k - 1) % Len(Content)) + 1] \in Nat
    <3>1. PICK x \in Int : x = p.from + k - 1
      OBVIOUS
    <3>2. PICK y : y = (x % Len(Content)) + 1
      OBVIOUS
    <3>3. y \in 1..Len(Content)
      <4>1. x % Len(Content) \in 0..Len(Content)-1
        BY <1>1, DivMod
      <4> QED
        BY <1>1, <3>2, <4>1
    <3>4. Content[y] \in Nat
      BY <1>1, <3>3
    <3> QED
      BY <3>1, <3>2, <3>4
  <2>2. back \in [1..l -> Nat]
    BY <2>1
  <2> HIDE DEF back
  <2> QED
    BY <2>2
<1>5. TCPBytes(p, l) = front \o back
  BY DEF TCPBytes
<1> HIDE DEF front, back
<1> QED
  BY <1>3, <1>4, <1>5

----------------------------------------------------------------------------
(* The types of what is written into a piece, and its checksum.             *)
SumGood(p) ==
  p.summed /\ list[p.nb].ip4 =>
    IF routine = TCP
    THEN Fold[ReceiverSum(TCPBytes(p, Arrived(p)))
                + (256 * (p.check % 256) + p.check \div 256)] = 65535
    ELSE Fold[Sum(IPWords(p)) + p.check] = 65535

LEMMA ModBelow ==
  ASSUME NEW m \in Nat \ {0}, NEW a \in Int
  PROVE  a % m \in Below(m)
  BY DivMod DEF Below

LEMMA PacketTypes ==
  ASSUME <<routine, list>> \in Calls, NEW k \in DOMAIN list
  PROVE  /\ list[k] \in NetBuffers
         /\ list[k].total \in Below(65536) /\ list[k].flags \in 0..7
         /\ list[k].offset \in Below(8192) /\ list[k].seq \in Words32
         /\ list[k].hl \in Nat /\ list[k].thl \in Nat /\ list[k].present \in Nat
<1>1. list \in Seq(NetBuffers)
  <2>1. <<routine, list>>[2] = list
    OBVIOUS
  <2> QED
    BY <2>1, CallFacts
<1>2. list[k] \in NetBuffers
  BY <1>1
<1> QED
  BY <1>2 DEF NetBuffers

LEMMA PieceType ==
  ASSUME <<routine, list>> \in Calls, NEW k \in DOMAIN list, NEW from \in Nat,
         NEW length \in Nat, NEW frame \in Nat, NEW room \in Nat
  PROVE  Piece(k, from, length, frame, room) \in Pieces
<1>1. /\ list[k].total \in Below(65536) /\ list[k].flags \in 0..7
      /\ list[k].offset \in Below(8192) /\ list[k].seq \in Words32
      /\ k \in Nat
  BY PacketTypes, Packets
<1> QED
  BY <1>1 DEF Piece, Pieces

LEMMA PieceWords ==
  ASSUME NEW p \in Pieces
  PROVE  p.total \in Nat /\ p.flags \in Nat /\ p.offset \in Nat
<1>1. p.total \in Below(65536) /\ p.flags \in 0..7 /\ p.offset \in Below(8192)
  BY DEF Pieces
<1>2. Below(65536) \subseteq Nat /\ Below(8192) \subseteq Nat
  BY DEF Below
<1> QED
  BY <1>1, <1>2

(* One field of a piece after the other.                                    *)
LEMMA SetCheck ==
  ASSUME NEW q \in Pieces, NEW c \in Int
  PROVE  [q EXCEPT !.check = c] \in Pieces
  BY DEF Pieces

LEMMA SetSummed ==
  ASSUME NEW q \in Pieces, NEW s \in BOOLEAN
  PROVE  [q EXCEPT !.summed = s] \in Pieces
  BY DEF Pieces

LEMMA SetTotal ==
  ASSUME NEW q \in Pieces, NEW t \in Below(65536)
  PROVE  [q EXCEPT !.total = t] \in Pieces
  BY DEF Pieces

LEMMA SetFlags ==
  ASSUME NEW q \in Pieces, NEW f \in 0..7
  PROVE  [q EXCEPT !.flags = f] \in Pieces
  BY DEF Pieces

LEMMA SetOffset ==
  ASSUME NEW q \in Pieces, NEW o \in Below(8192)
  PROVE  [q EXCEPT !.offset = o] \in Pieces
  BY DEF Pieces

LEMMA SetSeq ==
  ASSUME NEW q \in Pieces, NEW s \in Words32
  PROVE  [q EXCEPT !.seq = s] \in Pieces
  BY DEF Pieces

LEMMA Summed ==
  ASSUME NEW q \in Pieces, NEW c \in Int
  PROVE  [q EXCEPT !.check = c, !.summed = TRUE] \in Pieces
<1> DEFINE r == [q EXCEPT !.check = c]
<1>1. r \in Pieces
  BY SetCheck
<1> HIDE DEF r
<1>2. [r EXCEPT !.summed = TRUE] \in Pieces
  BY <1>1, SetSummed
<1>3. [q EXCEPT !.check = c, !.summed = TRUE] = [r EXCEPT !.summed = TRUE]
  BY DEF r
<1> QED
  BY <1>2, <1>3

LEMMA SummedFields ==
  ASSUME NEW q \in Pieces, NEW c \in Int
  PROVE  LET r == [q EXCEPT !.check = c, !.summed = TRUE] IN
         /\ r.check = c /\ r.total = q.total /\ r.flags = q.flags
         /\ r.offset = q.offset /\ r.seq = q.seq
         /\ r.nb = q.nb /\ r.from = q.from /\ r.frame = q.frame
  BY DEF Pieces

LEMMA HeaderType ==
  ASSUME NEW p \in Pieces, NEW total \in Nat, NEW flags \in 0..7,
         NEW offset \in Nat, routine # TCP
  PROVE  LET r == updateIPHeader(p, total, flags, offset)
         IN r \in Pieces /\ SumGood(r)
<1> DEFINE q == [p EXCEPT !.total = total % 65536, !.flags = flags,
                          !.offset = offset % 8192]
           r == [q EXCEPT !.check = GetIpCheckSum(q), !.summed = TRUE]
<1>1. updateIPHeader(p, total, flags, offset) = r
  BY DEF updateIPHeader
<1>2. total % 65536 \in Below(65536) /\ offset % 8192 \in Below(8192)
  <2>1. /\ 65536 \in Nat \ {0} /\ 8192 \in Nat \ {0}
        /\ total \in Int /\ offset \in Int
    OBVIOUS
  <2> QED
    BY <2>1, ModBelow
<1>3. q \in Pieces
  <2> DEFINE s == [p EXCEPT !.total = total % 65536]
             t == [s EXCEPT !.flags = flags]
  <2>1. s \in Pieces
    BY <1>2, SetTotal
  <2> HIDE DEF s
  <2>2. t \in Pieces
    BY <2>1, SetFlags
  <2> HIDE DEF t
  <2>3. [t EXCEPT !.offset = offset % 8192] \in Pieces
    BY <1>2, <2>2, SetOffset
  <2>4. q = [t EXCEPT !.offset = offset % 8192]
    BY DEF s, t
  <2> QED
    BY <2>3, <2>4
<1> HIDE DEF q
<1>4. /\ GetIpCheckSum(q) \in Nat
      /\ Fold[Sum(IPWords(q)) + GetIpCheckSum(q)] = 65535
  BY <1>3, PieceWords, HeaderVerifies
<1>5. r \in Pieces
  <2>1. \A c \in Int : [q EXCEPT !.check = c, !.summed = TRUE] \in Pieces
    BY <1>3, Summed
  <2>2. GetIpCheckSum(q) \in Int
    BY <1>4
  <2> QED
    BY <2>1, <2>2
<1>6. r.check = GetIpCheckSum(q) /\ IPWords(r) = IPWords(q)
  BY <1>3, <1>4, SummedFields DEF IPWords
<1> HIDE DEF r
<1>7. SumGood(r)
  BY <1>4, <1>6 DEF SumGood
<1> QED
  BY <1>1, <1>5, <1>7

LEMMA ChecksumType ==
  ASSUME NEW p \in Pieces, NEW ok \in BOOLEAN, routine = TCP, ~p.summed,
         list[p.nb].thl \in Nat, NEW l \in Nat, Arrived(p) = l
  PROVE  LET r == updateTCPchecksum(p, l, ok) IN r \in Pieces /\ SumGood(r)
<1>1. CASE ~ok
  BY <1>1 DEF updateTCPchecksum, SumGood
<1>2. CASE ok
  <2> DEFINE c == csum(TCPBytes(p, l))
             r == [p EXCEPT !.check = c, !.summed = TRUE]
  <2>1. p.len \in Nat /\ p.from \in Nat /\ p.seq \in Words32
    BY DEF Pieces
  <2>2. TCPBytes(p, l) \in Seq(Nat)
    BY <2>1, BytesOf
  <2>3. c \in Nat /\ Fold[ReceiverSum(TCPBytes(p, l))
                            + (256 * (c % 256) + c \div 256)] = 65535
    BY <2>2, SegmentVerifies
  <2>4. updateTCPchecksum(p, l, ok) = r
    BY <1>2 DEF updateTCPchecksum
  <2> HIDE DEF c
  <2>5. r \in Pieces
    <3>1. \A d \in Int : [p EXCEPT !.check = d, !.summed = TRUE] \in Pieces
      BY Summed
    <3>2. c \in Int
      BY <2>3
    <3> QED
      BY <3>1, <3>2
  <2>6. r.check = c /\ TCPBytes(r, Arrived(r)) = TCPBytes(p, l)
    <3>1. /\ r.check = c /\ r.seq = p.seq
          /\ r.nb = p.nb /\ r.from = p.from /\ r.frame = p.frame
      BY <2>3, SummedFields
    <3> HIDE DEF r
    <3>2. Arrived(r) = l
      BY <3>1 DEF Arrived
    <3> QED
      BY <3>1, <3>2 DEF TCPBytes
  <2> HIDE DEF r
  <2>7. SumGood(r)
    BY <2>3, <2>6 DEF SumGood
  <2> QED
    BY <2>4, <2>5, <2>7
<1> QED
  BY <1>1, <1>2

----------------------------------------------------------------------------
LEMMA SameSum ==
  ASSUME UNCHANGED call
  PROVE  \A p : SumGood(p)' <=> SumGood(p)
  BY DEF SumGood, TCPBytes, Arrived, Headers, call

SumsGood == \A k \in DOMAIN pieces : SumGood(pieces[k])

(* What TypeOK adds to the invariants above.                                *)
Steps == {"begin", "allocate", "parse", "cut", "next", "straight",
          "segment", "injected", "done", "bugcheck"}

Loose ==
  /\ limit \in Nat /\ step \in Steps
  /\ info \in 0..n /\ remain \in Nat
  /\ copy \in {"none", "live", "freed"} /\ start \in {0, 14}
  /\ result \in {"none", "TRUE", "FALSE"}

DataInv == PieceInv /\ Loose /\ pieces \in Seq(Pieces) /\ SumsGood

LEMMA SumsAdded ==
  ASSUME pieces \in Seq(Pieces), SumsGood, UNCHANGED call,
         NEW p \in Pieces, SumGood(p), NEW old \in {pieces, <<>>}, pieces' = Append(old, p)
  PROVE  pieces' \in Seq(Pieces) /\ SumsGood'
<1>0. old \in Seq(Pieces) /\ (old # <<>> => old = pieces)
  <2>1. <<>> \in Seq(Pieces)
    OBVIOUS
  <2> QED
    BY <2>1
<1>1. /\ pieces' \in Seq(Pieces) /\ DOMAIN pieces' = 1..(Len(old) + 1)
      /\ Len(old) \in Nat /\ DOMAIN old = 1..Len(old)
      /\ (old = <<>> <=> Len(old) = 0)
      /\ pieces'[Len(old) + 1] = p
      /\ \A k \in 1..Len(old) : pieces'[k] = old[k]
  BY <1>0
<1>2. ASSUME NEW k \in DOMAIN pieces' PROVE SumGood(pieces[k])'
  <2>1. PICK q : q = pieces'[k]
    OBVIOUS
  <2>2. SumGood(q)
    <3>1. CASE k \in 1..Len(old)
      BY <1>0, <1>1, <2>1, <3>1 DEF SumsGood
    <3>2. CASE k = Len(old) + 1
      BY <1>1, <2>1, <3>2
    <3> QED
      BY <1>1, <3>1, <3>2
  <2>3. SumGood(q)'
    BY <2>2, SameSum
  <2> QED
    BY <2>1, <2>3 DEF SumGood
<1> QED
  BY <1>1, <1>2 DEF SumsGood

LEMMA SumsKept ==
  ASSUME pieces \in Seq(Pieces), SumsGood, UNCHANGED <<call, pieces>>
  PROVE  pieces' \in Seq(Pieces) /\ SumsGood'
<1>1. ASSUME NEW k \in DOMAIN pieces' PROVE SumGood(pieces[k])'
  <2>1. PICK q : q = pieces[k] /\ q = pieces'[k]
    OBVIOUS
  <2>2. SumGood(q)'
    BY <2>1, SameSum DEF SumsGood
  <2> QED
    BY <2>1, <2>2 DEF SumGood
<1> QED
  BY <1>1 DEF SumsGood

LEMMA SeqType ==
  ASSUME NEW s \in Words32, NEW copied \in Nat
  PROVE  updateTCPSeqNumber(s, copied) \in Words32
<1>1. PICK a \in Below(65536), b \in Below(65536) : s = <<a, b>>
  BY DEF Words32
<1>2. a \in Nat /\ b \in Nat /\ s[1] = a /\ s[2] = b
  BY <1>1 DEF Below
<1>3. PICK low : low = b + copied
  OBVIOUS
<1>4. low \in Nat /\ low \div 65536 \in Nat
  BY <1>2, <1>3
<1>5. /\ (a + low \div 65536) % 65536 \in Below(65536)
      /\ low % 65536 \in Below(65536)
  <2>1. 65536 \in Nat \ {0} /\ low \in Int /\ a + low \div 65536 \in Int
    BY <1>2, <1>4
  <2> QED
    BY <2>1, ModBelow
<1>6. updateTCPSeqNumber(s, copied)
        = <<(a + low \div 65536) % 65536, low % 65536>>
  BY <1>2, <1>3 DEF updateTCPSeqNumber
<1> QED
  BY <1>5, <1>6 DEF Words32

(* A fragment.                                                              *)
LEMMA CutData ==
  ASSUME DataInv, Fragment, CutFragment
  PROVE  pieces' \in Seq(Pieces) /\ SumsGood' /\ remain' \in Nat
<1>1. /\ step = "cut" /\ UNCHANGED call /\ routine \in IP
      /\ limit \in Limits /\ pad \in Nat /\ <<routine, list>> \in Calls
      /\ i < FragmentCount(n) /\ n \in DOMAIN list /\ i \in Nat /\ Cutting
  BY DEF Fragment, DataInv, PieceInv, Limited, SplitInv, Shape, Place,
     Fragmenting, Working
<1>2. /\ CopyFits(n, Source(n), CutLength(n), Room)
      /\ remain' = remain - CutLength(n)
  BY DEF CutFragment, Remaining
<1>3. PICK frame \in FrameLengths(CutLength(n)) :
        pieces' = Append(pieces,
            updateIPHeader(Piece(n, Source(n), CutLength(n), frame, Room),
              list[n].hl + CutLength(n),
              FragmentFlags(list[n], Remaining(CutLength(n))),
              list[n].offset + Source(n) \div 8))
  BY DEF CutFragment
<1>4. /\ Source(n) \in Nat /\ CutLength(n) \in Nat /\ CutLength(n) <= remain
      /\ remain \in Nat
  BY <1>1, <1>2, NextFragment DEF DataInv, PieceInv
<1>5. MTUpayload(n) \in Nat
  <2>1. list[n].ip4 /\ list[n].total > limit /\ MTUpayload(n) # 0
    BY <1>1 DEF Cutting
  <2> QED
    BY <1>1, <2>1, FirstFits
<1>6. /\ list[n].hl \in Nat /\ list[n].flags \in 0..7
      /\ list[n].offset \in Nat
  <2>1. Below(8192) \subseteq Nat
    BY DEF Below
  <2> QED
    BY <1>1, <2>1, PacketTypes
<1>7. Room \in Nat /\ MDLDataSize(n) \in Nat
  <2>1. MDLDataSize(n) \in Nat
    BY <1>5, <1>6 DEF MDLDataSize
  <2> QED
    BY <1>4, <2>1 DEF Room, InboundSize
<1>8. frame \in Nat
  <2>1. \A a, b \in Nat : Padded(a, b) \in Nat
    BY <1>1 DEF Padded
  <2>2. /\ 14 + list[n].hl + CutLength(n) \in Nat
        /\ 14 + list[n].hl + MTUpayload(n) \in Nat
    BY <1>4, <1>5, <1>6
  <2> QED
    BY <1>7, <2>1, <2>2 DEF FrameLengths
<1>9. FragmentFlags(list[n], Remaining(CutLength(n))) \in 0..7
  <2>1. list[n].flags % 2 \in 0..7 /\ 1 \in 0..7
    BY <1>6
  <2> QED
    BY <2>1 DEF FragmentFlags
<1>10. Piece(n, Source(n), CutLength(n), frame, Room) \in Pieces
  BY <1>1, <1>4, <1>7, <1>8, PieceType
<1>11. /\ list[n].hl + CutLength(n) \in Nat
       /\ list[n].offset + Source(n) \div 8 \in Nat
  BY <1>4, <1>6
<1>12. routine # TCP
  BY <1>1 DEF IP, TCP
<1> DEFINE p == updateIPHeader(Piece(n, Source(n), CutLength(n), frame, Room),
                  list[n].hl + CutLength(n),
                  FragmentFlags(list[n], Remaining(CutLength(n))),
                  list[n].offset + Source(n) \div 8)
<1>13. p \in Pieces /\ SumGood(p)
  BY <1>9, <1>10, <1>11, <1>12, HeaderType
<1>14. pieces' = Append(pieces, p)
  BY <1>3
<1> HIDE DEF p
<1>15. pieces' \in Seq(Pieces) /\ SumsGood'
  BY <1>1, <1>13, <1>14, SumsAdded DEF DataInv
<1> QED
  BY <1>2, <1>4, <1>15

(* A packet copied as it is.                                                *)
LEMMA StraightData ==
  ASSUME DataInv, CopyStraight, pieces' = Append(pieces, StraightPiece)
  PROVE  pieces' \in Seq(Pieces) /\ SumsGood'
<1>1. /\ UNCHANGED call /\ routine # TCP /\ n \in DOMAIN list
      /\ <<routine, list>> \in Calls
  BY DEF CopyStraight, DataInv, PieceInv, SplitInv, Shape, Place, TCP
<1>2. Payload(n) \in Nat /\ 14 + list[n].present \in Nat
  BY <1>1, Packets, PacketTypes
<1> DEFINE whole == 14 + list[n].present
           p == Piece(n, 0, Payload(n), whole, whole)
<1>3. p \in Pieces /\ ~p.summed
  <2>1. p \in Pieces
    BY <1>1, <1>2, PieceType
  <2> QED
    BY <2>1 DEF Piece
<1>4. CASE StraightPiece = p
  <2>1. SumGood(p)
    BY <1>3 DEF SumGood
  <2> QED
    BY <1>1, <1>3, <1>4, <2>1, SumsAdded DEF DataInv
<1>5. CASE StraightPiece = [p EXCEPT !.check = GetIpCheckSum(p), !.summed = TRUE]
  <2> HIDE DEF p
  <2>1. /\ GetIpCheckSum(p) \in Nat
        /\ Fold[Sum(IPWords(p)) + GetIpCheckSum(p)] = 65535
    BY <1>3, PieceWords, HeaderVerifies
  <2>2. PICK c \in Int : c = GetIpCheckSum(p)
    BY <2>1
  <2> DEFINE r == [p EXCEPT !.check = c, !.summed = TRUE]
  <2>3. r \in Pieces /\ r.check = c /\ IPWords(r) = IPWords(p)
    <3>1. r \in Pieces
      BY <1>3, Summed
    <3>2. /\ r.check = c /\ r.total = p.total
          /\ r.flags = p.flags /\ r.offset = p.offset
      BY <1>3, SummedFields
    <3> HIDE DEF r
    <3> QED
      BY <3>1, <3>2 DEF IPWords
  <2>4. StraightPiece = r
    BY <1>5, <2>2
  <2> HIDE DEF r
  <2>5. SumGood(r)
    BY <1>1, <2>1, <2>2, <2>3 DEF SumGood
  <2> QED
    BY <1>1, <2>3, <2>4, <2>5, SumsAdded DEF DataInv
<1> QED
  BY <1>4, <1>5 DEF StraightPiece

(* A segment.                                                               *)
LEMMA SegmentData ==
  ASSUME DataInv, Segment, Segments
  PROVE  pieces' \in Seq(Pieces) /\ SumsGood'
<1>1. /\ UNCHANGED call /\ routine = TCP /\ limit \in Limits
      /\ <<routine, list>> \in Calls /\ 1 \in DOMAIN list
      /\ remain \in Nat /\ remain <= Payload(1)
  BY SegmentWays DEF DataInv, PieceInv, SplitInv, Shape, Place, Segmented, Working
<1>2. limit \in Nat /\ Headers(1) \in Nat /\ Payload(1) \in Nat
      /\ list[1].seq \in Words32 /\ list[1].thl \in Nat
  BY <1>1, Packets, PacketTypes, SplitAssumption
<1>3. /\ Copied \in Nat /\ SegmentLength \in Nat
      /\ Headers(1) + SegmentLength \in Nat /\ SegmentRoom \in Nat
  BY <1>1, <1>2 DEF Copied, SegmentLength, SegmentRoom, Least
<1> DEFINE made == Piece(1, Copied, SegmentLength, Headers(1) + SegmentLength, SegmentRoom)
           new == updateTCPSeqNumber(list[1].seq, Copied)
           q == [made EXCEPT !.seq = new]
<1>5. /\ made.seq = list[1].seq /\ made.nb = 1 /\ ~made.summed
      /\ made.frame = Headers(1) + SegmentLength
  BY DEF Piece
<1>6. PICK ok \in BOOLEAN :
        pieces' = Append(MadeBefore, updateTCPchecksum(q, SegmentLength, ok))
  BY <1>5 DEF Segments, SequenceOffset
<1> DEFINE p == updateTCPchecksum(q, SegmentLength, ok)
<1>4. made \in Pieces
  BY <1>1, <1>3, PieceType
<1>7. new \in Words32
  BY <1>2, <1>3, SeqType
<1>a. pieces' = Append(MadeBefore, p)
  BY <1>6
<1> HIDE DEF made, new
<1>8. q \in Pieces
  BY <1>4, <1>7, SetSeq
<1>9. q.nb = 1 /\ ~q.summed /\ q.frame = Headers(1) + SegmentLength
  BY <1>4, <1>5 DEF Pieces
<1> HIDE DEF q
<1>b. Arrived(q) = SegmentLength
  BY <1>2, <1>3, <1>9 DEF Arrived
<1>10. p \in Pieces /\ SumGood(p)
  BY <1>1, <1>2, <1>3, <1>8, <1>9, <1>b, ChecksumType
<1> HIDE DEF p
<1>11. MadeBefore \in {pieces, <<>>}
  BY DEF MadeBefore
<1> QED
  BY <1>1, <1>a, <1>10, <1>11, SumsAdded DEF DataInv

(* A step that makes no piece.                                              *)
LEMMA LooseStep ==
  ASSUME DataInv, [Next]_vars, remain' \in Nat
  PROVE  Loose'
<1>0. /\ limit \in Nat /\ step \in Steps /\ info \in 0..n /\ n \in Nat
      /\ copy \in {"none", "live", "freed"} /\ start \in {0, 14}
      /\ result \in {"none", "TRUE", "FALSE"}
  <2>1. n \in Nat
    BY Packets DEF DataInv, PieceInv, SplitInv, Shape
  <2> QED
    BY <2>1 DEF DataInv, Loose
<1>1. limit' \in Nat
  <2>1. limit' = limit \/ limit' \in Limits
    BY DEF Next, Run, Rest, IPFragment, TCPandIPfragment, Begin, Allocate, ParseIP,
       Fragment, EndPacket, NextPacket, CopyStraight, ParseTCP, Segment,
       InjectSegments, IPInjectionComplete, vars
  <2>2. \A x \in Limits : x \in Nat
    BY SplitAssumption
  <2> QED
    BY <1>0, <2>1, <2>2
<1>2. /\ step' \in Steps /\ result' \in {"none", "TRUE", "FALSE"}
      /\ copy' \in {"none", "live", "freed"} /\ start' \in {0, 14}
  <2>1. CASE Begin \/ Allocate
    BY <1>0, <2>1 DEF Begin, Allocate, Fail, FailWith, GoTo, Steps, kernel
  <2>2. CASE ParseIP \/ Fragment
    BY <1>0, <2>2 DEF ParseIP, Fragment, CutFragment, Fail, FailWith, Bugcheck, GoTo, Steps,
       kernel
  <2>3. CASE EndPacket \/ NextPacket
    BY <1>0, <2>3 DEF EndPacket, NextPacket, Fail, FailWith, Bugcheck, GoTo, Steps, kernel
  <2>4. CASE CopyStraight
    BY <1>0, <2>4 DEF CopyStraight, Fail, FailWith, Bugcheck, GoTo, Steps, kernel
  <2>5. CASE ParseTCP \/ Segment
    BY <1>0, <2>5 DEF ParseTCP, Segment, Fail, FailWith, Bugcheck, GoTo, Steps, kernel
  <2>6. CASE InjectSegments \/ IPInjectionComplete
    BY <1>0, <2>6 DEF InjectSegments, IPInjectionComplete, Fail, FailWith, GoTo, Steps
  <2>7. CASE UNCHANGED vars
    BY <1>0, <2>7 DEF vars, kernel
  <2> QED
    BY <2>1, <2>2, <2>3, <2>4, <2>5, <2>6, <2>7
    DEF Next, Run, Rest, IPFragment, TCPandIPfragment
<1>3. info' \in 0..n'
  <2>1. \/ info' = info /\ (n' = n \/ n' = n + 1)
        \/ info' = n /\ n' = n
    <3>1. CASE Begin \/ Allocate \/ ParseIP \/ ParseTCP
      BY <3>1 DEF Begin, Allocate, ParseIP, ParseTCP, Fail, FailWith, Bugcheck,
         StartPacket, cutting
    <3>2. CASE Fragment \/ Segment \/ InjectSegments \/ IPInjectionComplete
      BY <3>2 DEF Fragment, CutFragment, Segment, InjectSegments,
         IPInjectionComplete, Fail, FailWith, Bugcheck, cutting
    <3>3. CASE EndPacket \/ NextPacket \/ CopyStraight
      BY <3>3 DEF EndPacket, NextPacket, CopyStraight, Fail, FailWith, Bugcheck,
         StartPacket, cutting
    <3>4. CASE UNCHANGED vars
      BY <3>4 DEF vars, cutting
    <3> QED
      BY <3>1, <3>2, <3>3, <3>4 DEF Next, Run, Rest, IPFragment, TCPandIPfragment
  <2> QED
    BY <1>0, <2>1
<1> QED
  BY <1>1, <1>2, <1>3 DEF Loose

(* What a new piece may disturb.                                            *)
Well == pieces \in Seq(Pieces) /\ SumsGood /\ remain \in Nat

LEMMA DataStep ==
  ASSUME DataInv, [Next]_vars
  PROVE  DataInv'
<1>0. remain \in Nat
  BY DEF DataInv, Loose
<1>1. ASSUME UNCHANGED <<call, pieces, remain>> PROVE Well'
  BY <1>0, <1>1, SumsKept DEF DataInv, Well
<1>2. ASSUME UNCHANGED call, UNCHANGED cutting PROVE Well'
  BY <1>1, <1>2 DEF cutting
<1>3. ASSUME UNCHANGED call, StartPacket PROVE Well'
  <2>1. remain' = Payload(n) /\ pieces' = pieces
    BY <1>3 DEF StartPacket
  <2>2. Payload(n) \in Nat
    BY Packets DEF DataInv, PieceInv, SplitInv, Shape
  <2> QED
    BY <1>3, <2>1, <2>2, SumsKept DEF DataInv, Well
<1>3a. ASSUME NEW made, NEW taken, UNCHANGED call, FailWith(taken, made) PROVE Well'
  BY <1>2, <1>3a DEF FailWith
<1>4. ASSUME NEW made, UNCHANGED call, Fail(made) PROVE Well'
  BY <1>3a, <1>4 DEF Fail
<1>5. ASSUME UNCHANGED call, Bugcheck PROVE Well'
  BY <1>2, <1>5 DEF Bugcheck
<1>6. ASSUME Begin \/ Allocate PROVE Well'
  BY <1>2, <1>4, <1>6 DEF Begin, Allocate
<1>7. ASSUME ParseIP \/ ParseTCP PROVE Well'
  BY <1>2, <1>3, <1>4, <1>5, <1>7 DEF ParseIP, ParseTCP
<1>8. ASSUME Fragment PROVE Well'
  <2>1. CASE CutFragment
    BY <1>8, <2>1, CutData DEF Well
  <2> QED
    BY <1>4, <1>5, <1>8, <2>1 DEF Fragment
<1>9. ASSUME EndPacket PROVE Well'
  BY <1>1, <1>2, <1>4, <1>9 DEF EndPacket
<1>10. ASSUME NextPacket PROVE Well'
  BY <1>1, <1>2, <1>3, <1>4, <1>5, <1>10 DEF NextPacket
<1>11. ASSUME CopyStraight PROVE Well'
  <2>1. CASE pieces' = Append(pieces, StraightPiece) /\ remain' = 0
    BY <1>11, <2>1, StraightData DEF Well
  <2> QED
    BY <1>4, <1>5, <1>11, <2>1 DEF CopyStraight
<1>12. ASSUME Segment PROVE Well'
  <2>1. UNCHANGED call
    BY <1>12, SegmentWays
  <2>2. CASE Segments
    <3>1. pieces' \in Seq(Pieces) /\ SumsGood'
      BY <1>12, <2>2, SegmentData
    <3>2. remain' \in Nat
      <4>1. PieceInv' /\ step' = "segment"
        BY <2>2, PieceStep DEF DataInv, Segments
      <4> QED
        BY <4>1 DEF PieceInv, SplitInv, Place, Segmented
    <3> QED
      BY <3>1, <3>2 DEF Well
  <2> QED
    BY <1>3a, <1>5, <1>12, <2>1, <2>2, SegmentWays
<1>13. ASSUME InjectSegments \/ IPInjectionComplete PROVE Well'
  BY <1>2, <1>4, <1>13 DEF InjectSegments, IPInjectionComplete
<1>14. ASSUME UNCHANGED vars PROVE Well'
  BY <1>2, <1>14 DEF vars
<1>15. Well'
  BY <1>6, <1>7, <1>8, <1>9, <1>10, <1>11, <1>12, <1>13, <1>14
  DEF Next, Run, Rest, IPFragment, TCPandIPfragment
<1>16. PieceInv'
  BY PieceStep DEF DataInv
<1>17. Loose'
  BY <1>15, LooseStep DEF Well
<1> QED
  BY <1>15, <1>16, <1>17 DEF DataInv, Well

LEMMA DataInit == Init => DataInv
<1> SUFFICES ASSUME Init PROVE DataInv
  OBVIOUS
<1>1. Loose /\ pieces \in Seq(Pieces) /\ SumsGood
  BY DEF Init, Loose, Steps, SumsGood
<1> QED
  BY <1>1, PieceInit DEF DataInv

(* The invariant above, with the types of the variables and the checksum of *)
(* each piece.                                                              *)
THEOREM DataCorrect == Spec => []DataInv
<1>1. DataInv /\ [Next]_vars => DataInv'
  BY DataStep
<1> QED
  BY <1>1, DataInit, PTL DEF Spec

(* The variables keep their types: what remains to be copied never wraps    *)
(* below 0, the NET_BUFFER in use and the one whose header was read last    *)
(* are of the list, and the lengths, flags, offsets and sequence numbers    *)
(* written into the pieces fit their fields.                                *)
THEOREM TypeCorrect == Spec => []TypeOK
<1>1. DataInv => TypeOK
  BY DEF DataInv, Loose, Steps, PieceInv, Limited, SplitInv, Shape, Kept, TypeOK
<1> QED
  BY <1>1, DataCorrect, PTL

(* Whatever the packets, the limits and the bytes of the payload: the words *)
(* of every header updateIPHeader wrote, and of every segment whose memory  *)
(* updateTCPchecksum got, add up to all ones at a receiver that takes the   *)
(* length of a segment from the bytes that arrived, though csum adds them   *)
(* up in the order of a little-endian machine.                              *)
THEOREM ChecksumsVerifyCorrect == Spec => []ChecksumsVerify
<1>1. DataInv => ChecksumsVerify
  BY DEF DataInv, SumsGood, SumGood, ChecksumsVerify
<1> QED
  BY <1>1, DataCorrect, PTL
=============================================================================
