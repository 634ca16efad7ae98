------------------------ MODULE PacketQueueListProofs ------------------------
(***************************************************************************)
(* Proofs about the lists of packet_queue.c, for any packets, settings and *)
(* timers: every packet has one owner; the two queues of each direction,   *)
(* one behind the other, implement the FIFO line of ShapedLink; and        *)
(* queued_bytes follows the bandwidth queue byte for byte.                 *)
(***************************************************************************)
EXTENDS MCPacketQueue, PacketQueueProofs, SequenceTheorems, FoldProofs

(* What the move of a head, an insertion and a release do to two lists that *)
(* are read one behind the other.                                           *)
LEMMA MovedBetween ==
  ASSUME NEW S, NEW s \in Seq(S), NEW t \in Seq(S), t # <<>>
  PROVE  Append(s, Head(t)) \o Tail(t) = s \o t
<1>1. /\ Head(t) \in S /\ Tail(t) \in Seq(S) /\ <<Head(t)>> \in Seq(S)
      /\ t = <<Head(t)>> \o Tail(t)
  OBVIOUS
<1>2. Append(s, Head(t)) = s \o <<Head(t)>>
  BY <1>1, AppendIsConcat
<1> QED
  BY <1>1, <1>2, ConcatAssociative

LEMMA AppendedBehind ==
  ASSUME NEW S, NEW s \in Seq(S), NEW t \in Seq(S), NEW e \in S
  PROVE  s \o Append(t, e) = Append(s \o t, e)
<1>1. s \o t \in Seq(S) /\ <<e>> \in Seq(S)
  BY ConcatProperties
<1>2. Append(t, e) = t \o <<e>> /\ Append(s \o t, e) = (s \o t) \o <<e>>
  BY <1>1, AppendIsConcat
<1> QED
  BY <1>1, <1>2, ConcatAssociative

LEMMA TakenInFront ==
  ASSUME NEW S, NEW s \in Seq(S), NEW t \in Seq(S), s # <<>>
  PROVE  /\ s \o t # <<>>
         /\ Head(s \o t) = Head(s)
         /\ Tail(s \o t) = Tail(s) \o t
<1>1. s \o t \in Seq(S) /\ Len(s) \in Nat \ {0} /\ Len(t) \in Nat
      /\ Len(s \o t) = Len(s) + Len(t)
  BY ConcatProperties, EmptySeq
<1>2. s \o t # <<>>
  BY <1>1
<1>3. Head(s \o t) = Head(s)
  BY <1>1, ConcatProperties
<1>4. /\ Tail(s) \in Seq(S) /\ Len(Tail(s)) = Len(s) - 1
      /\ \A i \in 1 .. Len(Tail(s)) : Tail(s)[i] = s[i + 1]
  BY HeadTailProperties
<1>5. /\ Tail(s \o t) \in Seq(S) /\ Len(Tail(s \o t)) = Len(s) + Len(t) - 1
      /\ \A i \in 1 .. Len(Tail(s \o t)) : Tail(s \o t)[i] = (s \o t)[i + 1]
  BY <1>1, <1>2, HeadTailProperties
<1>6. /\ Tail(s) \o t \in Seq(S)
      /\ Len(Tail(s) \o t) = Len(s) - 1 + Len(t)
      /\ \A i \in 1 .. Len(s) - 1 + Len(t) :
           (Tail(s) \o t)[i] = IF i <= Len(s) - 1 THEN Tail(s)[i]
                               ELSE t[i - (Len(s) - 1)]
  BY <1>4, ConcatProperties
<1>7. \A i \in 1 .. Len(Tail(s \o t)) : Tail(s \o t)[i] = (Tail(s) \o t)[i]
  <2> SUFFICES ASSUME NEW i \in 1 .. Len(s) + Len(t) - 1
               PROVE  Tail(s \o t)[i] = (Tail(s) \o t)[i]
    BY <1>5
  <2>1. (s \o t)[i + 1] = IF i + 1 <= Len(s) THEN s[i + 1]
                          ELSE t[i + 1 - Len(s)]
    BY <1>1, ConcatProperties
  <2> QED
    BY <1>1, <1>4, <1>5, <1>6, <2>1
<1>8. Tail(s \o t) = Tail(s) \o t
  BY <1>1, <1>5, <1>6, <1>7, SeqEqual
<1> QED
  BY <1>2, <1>3, <1>8

----------------------------------------------------------------------------
(* Every packet has one owner.  To be inductive this needs to know that a   *)
(* packet whose classify call has not decided yet is new.                   *)
Undecided == {"new", "screened", "roomy", "insert", "count"}

UndecidedIsNew == \A p \in Packets : pc[p] \in Undecided => fate[p] = "new"

OwnerInv == TypeOK /\ OneOwner /\ UndecidedIsNew

LEMMA LineType ==
  ASSUME TypeOK
  PROVE  /\ Line \in [Directions -> Seq(Packets)]
         /\ \A d \in Directions :
              \A i \in DOMAIN Line[d] : Line[d][i] \in Packets
<1>1. \A d \in Directions : latencyq[d] \o bandwidth[d] \in Seq(Packets)
  BY ConcatProperties DEF TypeOK, ListTypes
<1>2. Line \in [Directions -> Seq(Packets)]
  BY <1>1 DEF Line
<1>3. \A s \in Seq(Packets) : \A i \in DOMAIN s : s[i] \in Packets
  OBVIOUS
<1> QED
  BY <1>2, <1>3

(* No worker comes to InjectPacket or leaves it, and no packet goes back to *)
(* be decided.                                                              *)
SameHands == \A w \in Workers : Hands(w)' <=> Hands(w)
NoneReconsidered ==
  \A p \in Packets : pc'[p] \in Undecided => pc[p] \in Undecided

Elsewhere(w) ==
  ~Hands(w) /\ \E step : GoTo(w, step) /\ step \notin Undecided \cup {"inject"}

LEMMA ElsewhereKeeps ==
  ASSUME TypeOK, NEW w \in Workers, Elsewhere(w)
  PROVE  SameHands /\ NoneReconsidered
  BY Roles DEF TypeOK, WorkerTypes, Elsewhere, SameHands, NoneReconsidered,
     Hands, GoTo

(* A classify call goes on, and still has not decided.                      *)
LEMMA DecidesLater ==
  ASSUME TypeOK, NEW p \in Packets, pc[p] \in Undecided,
         NEW step \in Undecided, GoTo(p, step)
  PROVE  SameHands /\ NoneReconsidered
  BY Roles DEF TypeOK, WorkerTypes, SameHands, NoneReconsidered, Hands, GoTo,
     Undecided

(* What a step does to the packets, whoever takes it: nothing; ...          *)
Quiet ==
  /\ Line' = Line /\ fate' = fate /\ held' = held
  /\ SameHands /\ NoneReconsidered

(* ... the classify call of p settles it without queuing it; ...            *)
Settle(p, f) ==
  /\ pc[p] \in Undecided /\ f \in {"absorbed", "permitted"}
  /\ GoTo(p, "done") /\ FateOf(p, f)
  /\ Line' = Line /\ held' = held

(* ... or appends it to the line; ...                                       *)
Enter(p) ==
  /\ pc[p] \in Undecided
  /\ GoTo(p, "accrue") /\ FateOf(p, "queued")
  /\ Line' = [Line EXCEPT ![Dir[p]] = Append(@, p)]
  /\ held' = held

(* ... worker w takes the head of a line; ...                               *)
TakeHead(w, d) ==
  /\ Line[d] # <<>>
  /\ ~Hands(w) /\ GoTo(w, "inject") /\ FateOf(Head(Line[d]), "held")
  /\ Line' = [Line EXCEPT ![d] = Tail(@)]
  /\ held' = [held EXCEPT ![w] = Head(Line[d])]

(* ... hands it over to the network stack, or frees it; ...                 *)
HandOver(w, f) ==
  /\ Hands(w) /\ f \in {"stack", "freed"}
  /\ GoTo(w, "latency") /\ FateOf(held[w], f)
  /\ Line' = Line
  /\ held' = [held EXCEPT ![w] = Nobody]

(* ... the stack is done with p; ...                                        *)
Complete(p) ==
  /\ fate[p] = "stack" /\ FateOf(p, "delivered")
  /\ UNCHANGED <<Line, pc, held>>

(* ... or the unload routine frees a line.                                  *)
ThrowAway(d) ==
  /\ fate' = [p \in Packets |->
                IF InList(p, Line[d]) THEN "freed" ELSE fate[p]]
  /\ Line' = [Line EXCEPT ![d] = <<>>]
  /\ held' = held
  /\ SameHands /\ NoneReconsidered

(* These are all the steps there are.                                       *)
LEMMA PacketEffects ==
  ASSUME TypeOK, [Next]_vars
  PROVE  \/ Quiet
         \/ \E p \in Packets : \/ Settle(p, "absorbed")
                               \/ Settle(p, "permitted")
                               \/ Enter(p) \/ Complete(p)
         \/ \E w \in Callers : \/ HandOver(w, "stack") \/ HandOver(w, "freed")
                               \/ \E d \in Directions : TakeHead(w, d)
         \/ \E d \in Directions : ThrowAway(d)
<1> USE DEF queueVars, listVars, timerVars, ioctlVars, packetVars
<1>a. /\ pc \in [Workers -> Steps] /\ queue \in [Workers -> Directions]
      /\ bandwidth \in [Directions -> Seq(Packets)]
      /\ latencyq \in [Directions -> Seq(Packets)]
      /\ Dir \in [Packets -> Directions]
  BY Constants DEF TypeOK, WorkerTypes, ListTypes
<1>1. ASSUME NEW p \in Packets, LossCheck(p) \/ BufferCheck(p)
      PROVE  Quiet \/ Settle(p, "absorbed")
  <2>1. CASE AbsorbPacket(p)
    <3>1. UNCHANGED <<held, listVars>> /\ pc[p] \in Undecided
      BY <1>1 DEF LossCheck, BufferCheck, Undecided
    <3> QED
      BY <2>1, <3>1 DEF AbsorbPacket, Settle, Line
  <2>2. CASE ~AbsorbPacket(p)
    <3>1. /\ \E step \in Undecided : GoTo(p, step)
          /\ UNCHANGED <<fate, held, listVars>>
          /\ pc[p] \in Undecided
      BY <1>1, <2>2 DEF LossCheck, BufferCheck, Undecided
    <3> QED
      BY <3>1, DecidesLater DEF Quiet, Line
  <2> QED
    BY <2>1, <2>2
<1>2. ASSUME NEW p \in Packets, Clone(p) PROVE Quiet
  <2>1. /\ \E step \in Undecided : GoTo(p, step)
        /\ UNCHANGED <<fate, held, listVars>>
        /\ pc[p] \in Undecided
    BY <1>2 DEF Clone, Undecided
  <2> QED
    BY <2>1, DecidesLater DEF Quiet, Line
<1>3. ASSUME NEW p \in Packets, Insert(p) PROVE Enter(p)
  <2>1. PICK d \in Directions : d = Dir[p]
    BY <1>a
  <2>2. /\ bandwidth' = [bandwidth EXCEPT ![d] = Append(bandwidth[d], p)]
        /\ latencyq' = latencyq
    BY <1>3, <2>1 DEF Insert
  <2>3. latencyq[d] \o Append(bandwidth[d], p)
          = Append(latencyq[d] \o bandwidth[d], p)
    BY <1>a, AppendedBehind
  <2>4. Line' = [Line EXCEPT ![d] = Append(Line[d], p)]
    BY <2>2, <2>3, <1>a DEF Line
  <2> QED
    BY <1>3, <2>1, <2>4 DEF Insert, Enter, Undecided
<1>4. ASSUME NEW p \in Packets, CountPermitted(p) PROVE Settle(p, "permitted")
  BY <1>4 DEF CountPermitted, Settle, Undecided, Line
<1>5. ASSUME NEW p \in Packets, InjectionComplete(p) PROVE Complete(p)
  BY <1>5 DEF InjectionComplete, Complete, Line
<1>6. ASSUME NEW w \in Callers,
             \/ Accrue(w) \/ StopMoving(w) \/ FinishQueue(w)
      PROVE  Quiet
  <2>1. /\ Elsewhere(w)
        /\ UNCHANGED <<fate, held>>
    BY <1>6 DEF Accrue, StopMoving, FinishQueue, Undecided, Elsewhere, Hands
  <2>2. Line' = Line
    <3>1. UNCHANGED listVars
      BY <1>6, <1>a DEF Accrue, StopMoving, FinishQueue, PutBack
    <3> QED
      BY <3>1 DEF Line
  <2> QED
    BY <2>1, <2>2, ElsewhereKeeps, Roles DEF Quiet, Callers
<1>7. ASSUME NEW w \in Callers, MoveHead(w) PROVE Quiet
  <2>1. PICK d \in Directions : d = queue[w]
    BY CallerFacts
  <2>2. /\ bandwidth' = [bandwidth EXCEPT ![d] = Tail(bandwidth[d])]
        /\ latencyq' =
             [latencyq EXCEPT ![d] = Append(latencyq[d], Head(bandwidth[d]))]
        /\ bandwidth[d] # <<>>
        /\ UNCHANGED <<fate, held, pc>>
    BY <1>7, <2>1 DEF MoveHead, MayPass
  <2>3. Append(latencyq[d], Head(bandwidth[d])) \o Tail(bandwidth[d])
          = latencyq[d] \o bandwidth[d]
    BY <2>2, <1>a, MovedBetween
  <2>4. Line' = Line
    BY <2>2, <2>3, <1>a DEF Line
  <2> QED
    BY <2>2, <2>4 DEF Quiet, SameHands, NoneReconsidered, Hands
<1>8. ASSUME NEW w \in Callers, ReleaseHead(w)
      PROVE  \E d \in Directions : TakeHead(w, d)
  <2>1. PICK d \in Directions : d = queue[w]
    BY CallerFacts
  <2>2. /\ latencyq' = [latencyq EXCEPT ![d] = Tail(latencyq[d])]
        /\ bandwidth' = bandwidth
        /\ latencyq[d] # <<>>
        /\ ~Hands(w) /\ GoTo(w, "inject") /\ FateOf(Head(latencyq[d]), "held")
        /\ held' = [held EXCEPT ![w] = Head(latencyq[d])]
    BY <1>8, <2>1 DEF ReleaseHead, Due, Hands
  <2>3. /\ Line[d] # <<>> /\ Head(Line[d]) = Head(latencyq[d])
        /\ Tail(Line[d]) = Tail(latencyq[d]) \o bandwidth[d]
    BY <2>2, <1>a, TakenInFront DEF Line
  <2>4. Line' = [Line EXCEPT ![d] = Tail(Line[d])]
    BY <2>2, <2>3, <1>a DEF Line
  <2> QED
    BY <2>2, <2>3, <2>4 DEF TakeHead
<1>9. ASSUME NEW w \in Callers, Inject(w)
      PROVE  HandOver(w, "stack") \/ HandOver(w, "freed")
  BY <1>9 DEF Inject, HandOver, Line, Hands
<1>10. ASSUME NEW w \in Packets \cup Timers,
              TakeLock(w) \/ CheckTimer(w) \/ StartTimer(w)
       PROVE  Quiet
  <2>1. /\ Elsewhere(w)
        /\ UNCHANGED <<fate, held, listVars>>
    BY <1>10 DEF TakeLock, CheckTimer, StartTimer, Undecided, AtRest,
       Elsewhere, Hands
  <2> QED
    BY <2>1, ElsewhereKeeps, Roles DEF Quiet, Line, Callers
<1>11. ASSUME NEW t \in Timers, TimerFires(t) \/ ResetPending(t)
       PROVE  Quiet
  <2>1. /\ Elsewhere(t)
        /\ UNCHANGED <<fate, held, listVars>>
    BY <1>11 DEF TimerFires, ResetPending, Undecided, Elsewhere, Hands
  <2> QED
    BY <2>1, ElsewhereKeeps, Roles DEF Quiet, Line, Callers
<1>12. ASSUME \/ \E s \in Settings : EnableInbound(s)
              \/ EnableOutbound \/ EnableFlag \/ Disable
       PROVE  Quiet
  <2>1. /\ Elsewhere(Ioctl)
        /\ UNCHANGED <<fate, held, listVars>>
    BY <1>12 DEF EnableInbound, EnableOutbound, EnableFlag, Disable, SetUp,
       MayRequest, Undecided, Elsewhere, Hands
  <2> QED
    BY <2>1, ElsewhereKeeps, Roles DEF Quiet, Line, Callers
<1>13. ASSUME NEW u \in Unloaders, BeginUnload(u) \/ StopTimer(u)
       PROVE  Quiet
  <2>1. /\ Elsewhere(u)
        /\ UNCHANGED <<fate, held, listVars>>
    BY <1>13 DEF BeginUnload, StopTimer, Undecided, Elsewhere, Hands
  <2> QED
    BY <2>1, ElsewhereKeeps, Roles DEF Quiet, Line, Callers
<1>14. ASSUME NEW u \in Unloaders, DropInbound(u) \/ DropOutbound(u)
       PROVE  \E d \in Directions : ThrowAway(d)
  <2>1. PICK d \in Directions : DropQueue(d)
    BY <1>14 DEF DropInbound, DropOutbound, Directions
  <2>2. Elsewhere(u)
    BY <1>14 DEF DropInbound, DropOutbound, Undecided, Elsewhere, Hands
  <2>3. SameHands /\ NoneReconsidered
    BY <2>2, ElsewhereKeeps, Roles
  <2>4. <<>> \o <<>> = <<>>
    BY ConcatEmptySeq, EmptySeq
  <2>5. Line' = [Line EXCEPT ![d] = <<>>]
    BY <2>1, <2>4, <1>a DEF DropQueue, Line
  <2>6. Freed(d) = Line[d]
    BY DEF Freed, Line
  <2> QED
    BY <2>1, <2>3, <2>5, <2>6 DEF DropQueue, ThrowAway
<1>15. ASSUME Tick \/ UNCHANGED vars PROVE Quiet
  BY <1>15 DEF Tick, vars, Quiet, SameHands, NoneReconsidered, Hands, Line
<1> QED
  BY StepCases, <1>1, <1>2, <1>3, <1>4, <1>5, <1>6, <1>7, <1>8, <1>9, <1>10,
     <1>11, <1>12, <1>13, <1>14, <1>15

----------------------------------------------------------------------------
(* The step of OwnerInv, effect by effect.                                  *)
LEMMA OwnerFacts ==
  ASSUME OwnerInv
  PROVE  /\ Line \in [Directions -> Seq(Packets)]
         /\ \A d \in Directions : \A i \in DOMAIN Line[d] :
              /\ Line[d][i] \in Packets
              /\ fate[Line[d][i]] = "queued" /\ Dir[Line[d][i]] = d
         /\ \A w \in Workers : Hands(w) => held[w] \in Packets
         /\ fate \in [Packets -> Fates] /\ pc \in [Workers -> Steps]
         /\ held \in [Workers -> Packets \cup {Nobody}]
         /\ \A p \in Packets : p \in Workers
         /\ Dir \in [Packets -> Directions]
  BY LineType, Roles, Constants
     DEF OwnerInv, OneOwner, LineHoldsQueued, TypeOK, PacketTypes, WorkerTypes,
         Hands

(* A step that gives no packet to a worker, and takes none away.            *)
LEMMA HolderKept ==
  ASSUME OwnerInv, SameHands, held' = held,
         \A p \in Packets : fate'[p] = "held" <=> fate[p] = "held"
  PROVE  OneHolder'
<1>1. \A w \in Workers : Hands(w)' => held'[w] \in Packets /\ held'[w] = held[w]
  BY OwnerFacts DEF SameHands
<1>2. \A w \in Workers : Hands(w)' => fate'[held'[w]] = "held"
  BY <1>1 DEF OwnerInv, OneOwner, OneHolder, SameHands
<1>3. \A v, w \in Workers :
        Hands(v)' /\ Hands(w)' /\ held'[v] = held'[w] => v = w
  BY DEF OwnerInv, OneOwner, OneHolder, SameHands
<1>4. \A p \in Packets :
        fate'[p] = "held" => \E w \in Workers : Hands(w)' /\ held'[w] = p
  BY DEF OwnerInv, OneOwner, OneHolder, SameHands
<1> QED
  BY <1>2, <1>3, <1>4 DEF OneHolder

LEMMA OwnerQuiet ==
  ASSUME OwnerInv, Quiet, TypeOK'
  PROVE  OwnerInv'
<1>1. LineHoldsQueued' /\ QueuedIsInLine' /\ NoRepeats'
  BY DEF OwnerInv, OneOwner, Quiet, LineHoldsQueued, QueuedIsInLine, NoRepeats,
     InList
<1>2. OneHolder' /\ UndecidedIsNew'
  BY DEF OwnerInv, OneOwner, Quiet, OneHolder, UndecidedIsNew, SameHands,
     NoneReconsidered
<1> QED
  BY <1>1, <1>2 DEF OwnerInv, OneOwner

(* A packet that was not queued changes its fate, and is not queued then.   *)
LEMMA OtherFate ==
  ASSUME OwnerInv, NEW p \in Packets, fate[p] # "queued", Line' = Line,
         NEW f, f # "queued", FateOf(p, f)
  PROVE  LineHoldsQueued' /\ QueuedIsInLine' /\ NoRepeats'
<1>1. LineHoldsQueued'
  BY OwnerFacts DEF FateOf, LineHoldsQueued
<1>2. QueuedIsInLine'
  BY OwnerFacts DEF FateOf, QueuedIsInLine, OwnerInv, OneOwner, InList
<1>3. NoRepeats'
  BY DEF NoRepeats, OwnerInv, OneOwner
<1> QED
  BY <1>1, <1>2, <1>3

LEMMA OwnerSettle ==
  ASSUME OwnerInv, NEW p \in Packets, NEW f, Settle(p, f), TypeOK'
  PROVE  OwnerInv'
<1>1. fate[p] = "new" /\ f \notin {"queued", "held"}
  BY DEF OwnerInv, UndecidedIsNew, Settle
<1>2. LineHoldsQueued' /\ QueuedIsInLine' /\ NoRepeats'
  BY <1>1, OtherFate DEF Settle
<1>3. OneHolder'
  <2>1. SameHands
    BY OwnerFacts DEF Settle, GoTo, SameHands, Hands, Undecided
  <2> QED
    BY <1>1, <2>1, HolderKept, OwnerFacts DEF Settle, FateOf
<1>4. UndecidedIsNew'
  BY OwnerFacts DEF OwnerInv, UndecidedIsNew, Settle, GoTo, FateOf, Undecided
<1> QED
  BY <1>2, <1>3, <1>4 DEF OwnerInv, OneOwner

LEMMA OwnerEnter ==
  ASSUME OwnerInv, NEW p \in Packets, Enter(p), TypeOK'
  PROVE  OwnerInv'
<1>1. fate[p] = "new"
  BY DEF OwnerInv, UndecidedIsNew, Enter
<1>2. PICK d \in Directions : d = Dir[p]
  BY OwnerFacts
<1>3. PICK s \in Seq(Packets) : s = Line[d]
  BY OwnerFacts
<1>4. Line' = [Line EXCEPT ![d] = Append(s, p)]
  BY <1>2, <1>3 DEF Enter
<1>5. /\ Len(Append(s, p)) = Len(s) + 1 /\ Len(s) \in Nat
      /\ DOMAIN s = 1..Len(s) /\ DOMAIN Append(s, p) = 1..Len(s) + 1
      /\ \A i \in 1..Len(s) : Append(s, p)[i] = s[i]
      /\ Append(s, p)[Len(s) + 1] = p
  BY AppendProperties, LenProperties
<1>6. \A i \in 1..Len(s) : s[i] # p
  BY <1>1, <1>3, <1>5, OwnerFacts
<1>7. /\ fate' = [fate EXCEPT ![p] = "queued"]
      /\ \A e \in Directions \ {d} : Line'[e] = Line[e]
      /\ Line'[d] = Append(s, p)
  BY <1>4, OwnerFacts DEF Enter, FateOf
<1>8. LineHoldsQueued'
  <2> SUFFICES ASSUME NEW e \in Directions, NEW i \in DOMAIN Line'[e]
               PROVE  fate'[Line'[e][i]] = "queued" /\ Dir[Line'[e][i]] = e
    BY DEF LineHoldsQueued
  <2>1. CASE e # d
    BY <2>1, <1>7, OwnerFacts
  <2>2. CASE e = d /\ i = Len(s) + 1
    BY <2>2, <1>2, <1>5, <1>7, OwnerFacts
  <2>3. CASE e = d /\ i # Len(s) + 1
    <3>1. i \in 1..Len(s) /\ Line'[e][i] = s[i]
      BY <2>3, <1>5, <1>7
    <3> QED
      BY <3>1, <2>3, <1>3, <1>5, <1>7, OwnerFacts
  <2> QED
    BY <2>1, <2>2, <2>3
<1>9. QueuedIsInLine'
  <2> SUFFICES ASSUME NEW q \in Packets, fate'[q] = "queued"
               PROVE  \E i \in DOMAIN Line'[Dir[q]] : Line'[Dir[q]][i] = q
    BY DEF QueuedIsInLine, InList
  <2>1. CASE q = p
    BY <2>1, <1>2, <1>5, <1>7
  <2>2. CASE q # p
    <3>1. PICK i \in DOMAIN Line[Dir[q]] : Line[Dir[q]][i] = q
      BY <2>2, <1>7, OwnerFacts DEF OwnerInv, OneOwner, QueuedIsInLine, InList
    <3>2. CASE Dir[q] # d
      BY <3>1, <3>2, <1>7, OwnerFacts
    <3>3. CASE Dir[q] = d
      <4>1. i \in 1..Len(s) /\ s[i] = q
        BY <3>1, <3>3, <1>3, <1>5
      <4>2. i \in DOMAIN Append(s, p) /\ Append(s, p)[i] = q
        BY <4>1, <1>5
      <4> QED
        BY <4>2, <3>3, <1>7
    <3> QED
      BY <3>2, <3>3
  <2> QED
    BY <2>1, <2>2
<1>10. NoRepeats'
  <2> SUFFICES ASSUME NEW e \in Directions,
                      NEW i \in DOMAIN Line'[e], NEW j \in DOMAIN Line'[e],
                      Line'[e][i] = Line'[e][j]
               PROVE  i = j
    BY DEF NoRepeats
  <2>1. CASE e # d
    BY <2>1, <1>7 DEF OwnerInv, OneOwner, NoRepeats
  <2>2. CASE e = d
    <3>1. i \in 1..Len(s) /\ j \in 1..Len(s) /\ s[i] = s[j] => i = j
      BY <1>3, <1>5 DEF OwnerInv, OneOwner, NoRepeats
    <3> QED
      BY <2>2, <3>1, <1>5, <1>6, <1>7
  <2> QED
    BY <2>1, <2>2
<1>11. OneHolder'
  <2>1. SameHands
    BY OwnerFacts DEF Enter, GoTo, SameHands, Hands, Undecided
  <2> QED
    BY <1>1, <2>1, HolderKept, OwnerFacts DEF Enter, FateOf
<1>12. UndecidedIsNew'
  BY OwnerFacts DEF OwnerInv, UndecidedIsNew, Enter, GoTo, FateOf, Undecided
<1> QED
  BY <1>8, <1>9, <1>10, <1>11, <1>12 DEF OwnerInv, OneOwner

LEMMA OwnerTakeHead ==
  ASSUME OwnerInv, NEW w \in Callers, NEW d \in Directions, TakeHead(w, d),
         TypeOK'
  PROVE  OwnerInv'
<1>1. PICK s \in Seq(Packets) : s = Line[d]
  BY OwnerFacts
<1>2. PICK p \in Packets : p = Head(s)
  BY <1>1, HeadTailProperties DEF TakeHead
<1>3. /\ Len(s) \in Nat \ {0} /\ Len(Tail(s)) = Len(s) - 1
      /\ DOMAIN s = 1..Len(s) /\ DOMAIN Tail(s) = 1..Len(s) - 1
      /\ \A i \in 1..Len(s) - 1 : Tail(s)[i] = s[i + 1]
      /\ p = s[1]
  BY <1>1, <1>2, HeadTailProperties, LenProperties, EmptySeq DEF TakeHead
<1>4. /\ fate' = [fate EXCEPT ![p] = "held"]
      /\ \A e \in Directions \ {d} : Line'[e] = Line[e]
      /\ Line'[d] = Tail(s)
      /\ held' = [held EXCEPT ![w] = p]
      /\ pc' = [pc EXCEPT ![w] = "inject"]
  BY <1>1, <1>2, OwnerFacts DEF TakeHead, FateOf, GoTo
<1>5. fate[p] = "queued" /\ Dir[p] = d
  BY <1>1, <1>3, OwnerFacts
<1>6. \A i \in 1..Len(s) : s[i] = p => i = 1
  BY <1>1, <1>3 DEF OwnerInv, OneOwner, NoRepeats
<1>7. LineHoldsQueued'
  <2> SUFFICES ASSUME NEW e \in Directions, NEW i \in DOMAIN Line'[e]
               PROVE  fate'[Line'[e][i]] = "queued" /\ Dir[Line'[e][i]] = e
    BY DEF LineHoldsQueued
  <2>1. CASE e # d
    BY <2>1, <1>4, <1>5, OwnerFacts
  <2>2. CASE e = d
    <3>1. i + 1 \in 1..Len(s) /\ i + 1 # 1 /\ Line'[e][i] = s[i + 1]
      BY <2>2, <1>3, <1>4
    <3> QED
      BY <3>1, <2>2, <1>1, <1>3, <1>4, <1>6, OwnerFacts
  <2> QED
    BY <2>1, <2>2
<1>8. QueuedIsInLine'
  <2> SUFFICES ASSUME NEW q \in Packets, fate'[q] = "queued"
               PROVE  \E i \in DOMAIN Line'[Dir[q]] : Line'[Dir[q]][i] = q
    BY DEF QueuedIsInLine, InList
  <2>1. q # p /\ fate[q] = "queued"
    BY <1>4, OwnerFacts
  <2>2. PICK i \in DOMAIN Line[Dir[q]] : Line[Dir[q]][i] = q
    BY <2>1, OwnerFacts DEF OwnerInv, OneOwner, QueuedIsInLine, InList
  <2>3. CASE Dir[q] # d
    BY <2>2, <2>3, <1>4, OwnerFacts
  <2>4. CASE Dir[q] = d
    <3>1. i \in 1..Len(s) /\ s[i] = q /\ i # 1
      BY <2>1, <2>2, <2>4, <1>1, <1>3
    <3>2. i - 1 \in 1..Len(s) - 1 /\ Tail(s)[i - 1] = q
      BY <3>1, <1>3
    <3> QED
      BY <3>2, <2>4, <1>3, <1>4
  <2> QED
    BY <2>3, <2>4
<1>9. NoRepeats'
  <2> SUFFICES ASSUME NEW e \in Directions,
                      NEW i \in DOMAIN Line'[e], NEW j \in DOMAIN Line'[e],
                      Line'[e][i] = Line'[e][j]
               PROVE  i = j
    BY DEF NoRepeats
  <2>1. CASE e # d
    BY <2>1, <1>4 DEF OwnerInv, OneOwner, NoRepeats
  <2>2. CASE e = d
    <3>1. \A k, l \in 1..Len(s) : s[k] = s[l] => k = l
      BY <1>1, <1>3 DEF OwnerInv, OneOwner, NoRepeats
    <3>2. /\ i \in 1..Len(s) - 1 /\ j \in 1..Len(s) - 1
          /\ s[i + 1] = s[j + 1]
      BY <2>2, <1>3, <1>4
    <3>3. i + 1 \in 1..Len(s) /\ j + 1 \in 1..Len(s)
      BY <3>2, <1>3
    <3>4. i + 1 = j + 1
      BY <3>1, <3>2, <3>3
    <3> QED
      BY <3>2, <3>4
  <2> QED
    BY <2>1, <2>2
<1>10. w \in Workers
  BY Roles DEF Callers
<1>11. OneHolder'
  <2>1. \A v \in Workers : Hands(v) => held[v] # p /\ fate[held[v]] = "held"
                                       /\ held[v] \in Packets
    BY <1>5, OwnerFacts DEF OwnerInv, OneOwner, OneHolder
  <2>2. \A v \in Workers \ {w} : (Hands(v)' <=> Hands(v)) /\ held'[v] = held[v]
    BY <1>4, OwnerFacts DEF Hands
  <2>3. held'[w] = p /\ fate'[p] = "held" /\ Hands(w)' /\ ~Hands(w)
    BY <1>4, <1>10, OwnerFacts DEF Hands, TakeHead
  <2>4. \A v \in Workers : Hands(v)' => fate'[held'[v]] = "held"
    BY <1>4, <2>1, <2>2, <2>3, OwnerFacts
  <2>5. \A u, v \in Workers \ {w} :
          Hands(u) /\ Hands(v) /\ held[u] = held[v] => u = v
    BY DEF OwnerInv, OneOwner, OneHolder
  <2>6. \A u, v \in Workers :
          Hands(u)' /\ Hands(v)' /\ held'[u] = held'[v] => u = v
    BY <2>1, <2>2, <2>3, <2>5
  <2>7. ASSUME NEW q \in Packets, fate'[q] = "held"
        PROVE  \E v \in Workers : Hands(v)' /\ held'[v] = q
    <3>1. CASE q = p
      BY <3>1, <1>10, <2>3
    <3>2. CASE q # p
      <4>1. PICK v \in Workers : Hands(v) /\ held[v] = q
        BY <3>2, <2>7, <1>4, OwnerFacts DEF OwnerInv, OneOwner, OneHolder
      <4> QED
        BY <4>1, <2>2, <2>3
    <3> QED
      BY <3>1, <3>2
  <2> QED
    BY <2>4, <2>6, <2>7 DEF OneHolder
<1>12. UndecidedIsNew'
  BY <1>4, <1>5, OwnerFacts DEF OwnerInv, UndecidedIsNew, Undecided
<1> QED
  BY <1>7, <1>8, <1>9, <1>11, <1>12 DEF OwnerInv, OneOwner

LEMMA OwnerHandOver ==
  ASSUME OwnerInv, NEW w \in Callers, NEW f, HandOver(w, f), TypeOK'
  PROVE  OwnerInv'
<1>1. w \in Workers
  BY Roles DEF Callers
<1>2. PICK p \in Packets : p = held[w]
  BY <1>1, OwnerFacts DEF HandOver
<1>3. /\ fate[p] = "held" /\ f \notin {"queued", "held"} /\ FateOf(p, f)
      /\ fate' = [fate EXCEPT ![p] = f]
      /\ pc' = [pc EXCEPT ![w] = "latency"]
      /\ held' = [held EXCEPT ![w] = Nobody] /\ Line' = Line
  BY <1>1, <1>2 DEF HandOver, OwnerInv, OneOwner, OneHolder, FateOf, GoTo
<1>4. LineHoldsQueued' /\ QueuedIsInLine' /\ NoRepeats'
  BY <1>3, OtherFate
<1>5. OneHolder'
  <2>1. \A v \in Workers \ {w} : (Hands(v)' <=> Hands(v)) /\ held'[v] = held[v]
    BY <1>3, OwnerFacts DEF Hands
  <2>2. ~Hands(w)' /\ Hands(w)
    BY <1>1, <1>3, OwnerFacts DEF Hands, HandOver
  <2>3. \A v \in Workers \ {w} : Hands(v) =>
          held[v] # p /\ fate[held[v]] = "held" /\ held[v] \in Packets
    BY <1>1, <1>2, <2>2, OwnerFacts DEF OwnerInv, OneOwner, OneHolder
  <2>4. \A v \in Workers : Hands(v)' => fate'[held'[v]] = "held"
    BY <2>1, <2>2, <2>3, <1>3, OwnerFacts
  <2>5. \A u, v \in Workers : Hands(u) /\ Hands(v) /\ held[u] = held[v] => u = v
    BY DEF OwnerInv, OneOwner, OneHolder
  <2>6. \A u, v \in Workers :
          Hands(u)' /\ Hands(v)' /\ held'[u] = held'[v] => u = v
    BY <2>1, <2>2, <2>5
  <2>7. ASSUME NEW q \in Packets, fate'[q] = "held"
        PROVE  \E v \in Workers : Hands(v)' /\ held'[v] = q
    <3>1. q # p /\ fate[q] = "held"
      BY <2>7, <1>3, OwnerFacts
    <3>2. PICK v \in Workers : Hands(v) /\ held[v] = q
      BY <3>1 DEF OwnerInv, OneOwner, OneHolder
    <3> QED
      BY <3>1, <3>2, <2>1, <1>2
  <2> QED
    BY <2>4, <2>6, <2>7 DEF OneHolder
<1>6. UndecidedIsNew'
  BY <1>3, OwnerFacts DEF OwnerInv, UndecidedIsNew, Undecided
<1> QED
  BY <1>4, <1>5, <1>6 DEF OwnerInv, OneOwner

LEMMA OwnerComplete ==
  ASSUME OwnerInv, NEW p \in Packets, Complete(p), TypeOK'
  PROVE  OwnerInv'
<1>1. LineHoldsQueued' /\ QueuedIsInLine' /\ NoRepeats'
  BY OtherFate DEF Complete
<1>2. OneHolder'
  <2>1. SameHands
    BY DEF Complete, SameHands, Hands
  <2> QED
    BY <2>1, HolderKept, OwnerFacts DEF Complete, FateOf
<1>3. UndecidedIsNew'
  BY OwnerFacts DEF OwnerInv, UndecidedIsNew, Complete, FateOf
<1> QED
  BY <1>1, <1>2, <1>3 DEF OwnerInv, OneOwner

LEMMA OwnerThrowAway ==
  ASSUME OwnerInv, NEW d \in Directions, ThrowAway(d), TypeOK'
  PROVE  OwnerInv'
<1>1. /\ Line'[d] = <<>>
      /\ \A e \in Directions \ {d} : Line'[e] = Line[e]
      /\ \A p \in Packets :
           fate'[p] = IF InList(p, Line[d]) THEN "freed" ELSE fate[p]
      /\ held' = held
  BY OwnerFacts DEF ThrowAway
<1>2. \A p \in Packets : InList(p, Line[d]) => fate[p] = "queued" /\ Dir[p] = d
  BY OwnerFacts DEF InList
<1>3. \A i \in DOMAIN <<>> : FALSE
  OBVIOUS
<1>4. LineHoldsQueued'
  <2> SUFFICES ASSUME NEW e \in Directions, NEW i \in DOMAIN Line'[e]
               PROVE  fate'[Line'[e][i]] = "queued" /\ Dir[Line'[e][i]] = e
    BY DEF LineHoldsQueued
  <2>1. e # d /\ i \in DOMAIN Line[e] /\ Line'[e][i] = Line[e][i]
    BY <1>1, <1>3
  <2>2. /\ Line[e][i] \in Packets /\ Dir[Line[e][i]] = e
        /\ fate[Line[e][i]] = "queued"
    BY <2>1, OwnerFacts
  <2> QED
    BY <1>1, <1>2, <2>1, <2>2
<1>5. QueuedIsInLine'
  <2> SUFFICES ASSUME NEW q \in Packets, fate'[q] = "queued"
               PROVE  InList(q, Line'[Dir[q]])
    BY DEF QueuedIsInLine, InList
  <2>1. fate[q] = "queued" /\ ~InList(q, Line[d])
    BY <1>1
  <2>2. InList(q, Line[Dir[q]]) /\ Dir[q] \in Directions
    BY <2>1, OwnerFacts DEF OwnerInv, OneOwner, QueuedIsInLine
  <2> QED
    BY <1>1, <2>1, <2>2
<1>6. NoRepeats'
  <2> SUFFICES ASSUME NEW e \in Directions,
                      NEW i \in DOMAIN Line'[e], NEW j \in DOMAIN Line'[e],
                      Line'[e][i] = Line'[e][j]
               PROVE  i = j
    BY DEF NoRepeats
  <2>1. e # d
    BY <1>1, <1>3
  <2> QED
    BY <2>1, <1>1 DEF OwnerInv, OneOwner, NoRepeats
<1>7. OneHolder'
  BY <1>1, <1>2, HolderKept DEF ThrowAway
<1>8. UndecidedIsNew'
  BY <1>1, <1>2 DEF OwnerInv, UndecidedIsNew, ThrowAway, NoneReconsidered
<1> QED
  BY <1>4, <1>5, <1>6, <1>7, <1>8 DEF OwnerInv, OneOwner

LEMMA OwnerNext == OwnerInv /\ [Next]_vars => OwnerInv'
<1> SUFFICES ASSUME OwnerInv, [Next]_vars PROVE OwnerInv'
  OBVIOUS
<1>1. TypeOK /\ TypeOK'
  BY TypeStep DEF OwnerInv
<1> QED
  BY <1>1, PacketEffects, OwnerQuiet, OwnerSettle, OwnerEnter, OwnerTakeHead,
     OwnerHandOver, OwnerComplete, OwnerThrowAway

LEMMA OwnerInit == Init => OwnerInv
<1> SUFFICES ASSUME Init PROVE OwnerInv
  OBVIOUS
<1>1. TypeOK
  BY InitTypes
<1>2. \A d \in Directions : Line[d] = <<>>
  <2>1. <<>> \o <<>> = <<>>
    BY ConcatEmptySeq, EmptySeq
  <2> QED
    BY <2>1 DEF Init, Line
<1>3. \A i \in DOMAIN <<>> : FALSE
  OBVIOUS
<1>4. LineHoldsQueued /\ NoRepeats
  BY <1>2, <1>3 DEF LineHoldsQueued, NoRepeats
<1>5. \A p \in Packets : fate[p] = "new"
  BY DEF Init
<1>6. \A w \in Workers : ~Hands(w)
  BY DEF Init, Hands
<1>7. UndecidedIsNew /\ QueuedIsInLine /\ OneHolder
  BY <1>5, <1>6 DEF UndecidedIsNew, QueuedIsInLine, OneHolder
<1> QED
  BY <1>1, <1>4, <1>7 DEF OwnerInv, OneOwner

(* Wherever the two lists, the hands of the workers and the network stack   *)
(* stand, no packet is queued twice, in two directions, in a list while a   *)
(* worker injects it, with two workers, or queued in no list at all.        *)
THEOREM OneOwnerCorrect == Spec => []OneOwner
<1>1. OwnerInv => OneOwner
  BY DEF OwnerInv
<1> QED
  BY <1>1, OwnerInit, OwnerNext, PTL DEF Spec

----------------------------------------------------------------------------
(* Every effect is a step of the line, or none.                             *)
LEMMA StatusValues ==
  /\ StatusOf("new") = "new" /\ StatusOf("queued") = "linked"
  /\ StatusOf("held") = "released" /\ StatusOf("stack") = "released"
  /\ StatusOf("delivered") = "delivered" /\ StatusOf("freed") = "lost"
  /\ StatusOf("absorbed") = "absorbed" /\ StatusOf("permitted") = "permitted"
  BY DEF StatusOf

StatusNow == [p \in Packets |-> StatusOf(fate[p])]

LEMMA StatusBecomes ==
  ASSUME NEW p \in Packets, NEW f, FateOf(p, f), fate \in [Packets -> Fates]
  PROVE  StatusNow' = [StatusNow EXCEPT ![p] = StatusOf(f)]
<1>1. \A q \in Packets : fate'[q] = IF q = p THEN f ELSE fate[q]
  BY DEF FateOf
<1> QED
  BY <1>1 DEF StatusNow

LEMMA LinkStep ==
  ASSUME OwnerInv, [Next]_vars
  PROVE  [Link!Next]_(Link!linkVars)
<1>a. TypeOK
  BY DEF OwnerInv
<1>b. /\ fate \in [Packets -> Fates]
      /\ \A p \in Packets : StatusNow[p] = StatusOf(fate[p])
  BY OwnerFacts DEF StatusNow
<1>1. CASE Quiet
  <2>1. Line' = Line /\ StatusNow' = StatusNow
    BY <1>1 DEF Quiet, StatusNow
  <2> QED
    BY <2>1 DEF Link!linkVars, Line, StatusNow
<1>2. ASSUME NEW p \in Packets, NEW f, Settle(p, f)
      PROVE  Link!Absorb(p) \/ Link!Permit(p)
  <2>1. StatusNow[p] = "new"
    BY <1>2, <1>b, StatusValues DEF Settle, OwnerInv, UndecidedIsNew
  <2>2. StatusNow' = [StatusNow EXCEPT ![p] = f]
    BY <1>2, <1>b, StatusBecomes, StatusValues DEF Settle
  <2>3. Line' = Line /\ (f = "absorbed" \/ f = "permitted")
    BY <1>2 DEF Settle
  <2> QED
    BY <2>1, <2>2, <2>3
       DEF Link!Absorb, Link!Permit, Link!Becomes, Line, StatusNow
<1>3. ASSUME NEW p \in Packets, Enter(p) PROVE Link!Accept(p)
  <2>1. StatusNow[p] = "new"
    BY <1>3, <1>b, StatusValues DEF Enter, OwnerInv, UndecidedIsNew
  <2>2. StatusNow' = [StatusNow EXCEPT ![p] = "linked"]
    BY <1>3, <1>b, StatusBecomes, StatusValues DEF Enter
  <2>3. Line' = [Line EXCEPT ![Dir[p]] = Append(@, p)]
    BY <1>3 DEF Enter
  <2> QED
    BY <2>1, <2>2, <2>3 DEF Link!Accept, Link!Becomes, Line, StatusNow
<1>4. ASSUME NEW w \in Callers, NEW d \in Directions, TakeHead(w, d)
      PROVE  Link!Release(d)
  <2>1. PICK p \in Packets : p = Head(Line[d]) /\ p = Line[d][1]
                             /\ 1 \in DOMAIN Line[d]
    BY <1>4, OwnerFacts, HeadTailProperties, EmptySeq, LenProperties
       DEF TakeHead
  <2>2. StatusNow[p] = "linked"
    BY <2>1, <1>b, OwnerFacts, StatusValues
  <2>3. StatusNow' = [StatusNow EXCEPT ![p] = "released"]
    BY <1>4, <2>1, <1>b, StatusBecomes, StatusValues DEF TakeHead
  <2>4. Line[d] # <<>> /\ Line' = [Line EXCEPT ![d] = Tail(@)]
    BY <1>4 DEF TakeHead
  <2> QED
    BY <2>1, <2>2, <2>3, <2>4 DEF Link!Release, Link!Becomes, Line, StatusNow
<1>5. ASSUME NEW w \in Callers, NEW f, HandOver(w, f)
      PROVE  \/ UNCHANGED Link!linkVars
             \/ \E p \in Packets : Link!Lose(p)
  <2>1. PICK p \in Packets : p = held[w] /\ fate[p] = "held"
    BY <1>5, OwnerFacts, Roles
       DEF HandOver, OwnerInv, OneOwner, OneHolder, Callers
  <2>2. StatusNow[p] = "released"
    BY <2>1, <1>b, StatusValues
  <2>3. /\ StatusNow' = [StatusNow EXCEPT ![p] = StatusOf(f)]
        /\ Line' = Line
    BY <1>5, <2>1, <1>b, StatusBecomes DEF HandOver
  <2>4. CASE f = "stack"
    <3>1. StatusNow' = StatusNow
      BY <2>2, <2>3, <2>4, StatusValues DEF StatusNow
    <3> QED
      BY <2>3, <3>1 DEF Link!linkVars, Line, StatusNow
  <2>5. CASE f = "freed"
    BY <2>2, <2>3, <2>5, StatusValues
       DEF Link!Lose, Link!Becomes, Line, StatusNow
  <2> QED
    BY <1>5, <2>4, <2>5 DEF HandOver
<1>6. ASSUME NEW p \in Packets, Complete(p) PROVE Link!Deliver(p)
  <2>1. StatusNow[p] = "released"
    BY <1>6, <1>b, StatusValues DEF Complete
  <2>2. StatusNow' = [StatusNow EXCEPT ![p] = "delivered"] /\ Line' = Line
    BY <1>6, <1>b, StatusBecomes, StatusValues DEF Complete
  <2> QED
    BY <2>1, <2>2 DEF Link!Deliver, Link!Becomes, Line, StatusNow
<1>7. ASSUME NEW d \in Directions, ThrowAway(d) PROVE Link!Flush(d)
  <2>1. \A p \in Packets :
          fate'[p] = IF InList(p, Line[d]) THEN "freed" ELSE fate[p]
    BY <1>7 DEF ThrowAway
  <2>2. StatusNow' = [p \in Packets |->
          IF \E i \in DOMAIN Line[d] : Line[d][i] = p
          THEN "lost" ELSE StatusNow[p]]
    BY <2>1, StatusValues DEF InList, StatusNow
  <2>3. Line' = [Line EXCEPT ![d] = <<>>]
    BY <1>7 DEF ThrowAway
  <2> QED
    BY <2>2, <2>3 DEF Link!Flush, Line, StatusNow
<1> QED
  BY <1>a, PacketEffects, <1>1, <1>2, <1>3, <1>4, <1>5, <1>6, <1>7
     DEF Link!Next

LEMMA LinkInit ==
  ASSUME Init
  PROVE  Link!Init
<1>1. <<>> \o <<>> = <<>>
  BY ConcatEmptySeq, EmptySeq
<1> QED
  BY <1>1, StatusValues DEF Init, Link!Init, Line

(* However classify calls, timer DPCs, control requests and the unload      *)
(* routine interleave, the two lists of a direction, one behind the other,  *)
(* are one FIFO line: a packet enters it once, leaves it at its head, once, *)
(* and is then delivered or lost (packet_queue.c).                          *)
THEOREM LinkImplemented == Spec => ImplementsLink
<1>1. OwnerInv /\ [Next]_vars => [Link!Next]_(Link!linkVars)
  BY LinkStep
<1> QED
  BY <1>1, OwnerInit, OwnerNext, LinkInit, PTL
     DEF Spec, ImplementsLink, Link!Spec

----------------------------------------------------------------------------
(* queued_bytes follows the bandwidth queue.  What the sizes of the packets *)
(* in a list add up to, with a packet more behind or the head taken off.    *)
LEMMA SizesType ==
  ASSUME NEW list \in Seq(Packets)
  PROVE  Sizes(list) \in Seq(Nat) /\ Sizes(list) \in Seq(Int)
<1>1. /\ DOMAIN list = 1..Len(list) /\ Len(list) \in Nat
      /\ \A i \in 1..Len(list) : list[i] \in Packets
  OBVIOUS
<1>2. \A i \in 1..Len(list) : Bytes[list[i]] \in Nat
  BY <1>1, Constants
<1>3. Sizes(list) \in [1..Len(list) -> Nat]
  BY <1>1, <1>2 DEF Sizes
<1> QED
  BY <1>1, <1>3, SeqDef

LEMMA BytesAppended ==
  ASSUME NEW list \in Seq(Packets), NEW p \in Packets
  PROVE  BytesIn(Append(list, p)) = BytesIn(list) + Bytes[p]
<1>1. /\ Sizes(list) \in Seq(Int) /\ Bytes[p] \in Int
      /\ Append(list, p) \in Seq(Packets)
  BY SizesType, Constants
<1>2. Sizes(Append(list, p)) = Append(Sizes(list), Bytes[p])
  BY <1>1 DEF Sizes
<1> QED
  BY <1>1, <1>2, SumAppend DEF BytesIn, SumOf

LEMMA BytesTaken ==
  ASSUME NEW list \in Seq(Packets), list # <<>>
  PROVE  BytesIn(list) = Bytes[Head(list)] + BytesIn(Tail(list))
<1>1. Sizes(list) \in Seq(Int) /\ Sizes(list) # <<>>
  BY SizesType DEF Sizes
<1>2. Head(Sizes(list)) = Bytes[Head(list)]
  BY DEF Sizes
<1>3. Tail(Sizes(list)) = Sizes(Tail(list))
  BY <1>1 DEF Sizes
<1> QED
  BY <1>1, <1>2, <1>3, SumTail DEF BytesIn, SumOf

LEMMA BytesInType ==
  ASSUME NEW list \in Seq(Packets)
  PROVE  BytesIn(list) \in Nat
  BY SizesType, SumType DEF BytesIn, SumOf

LEMMA ListBytesType ==
  ASSUME TypeOK, NEW d \in Directions
  PROVE  ListBytes(d) \in Nat
  BY BytesInType DEF ListBytes, TypeOK, ListTypes

(* The gap stays what it is when the counter changes as the bytes do, in    *)
(* the arithmetic of a word.                                                *)
LEMMA GapAfterPlus ==
  ASSUME NEW q \in Int, NEW b \in Int, NEW n \in Int
  PROVE  (Plus(q, b) - (n + b)) % W = (q - n) % W
<1> DEFINE k == (q + b) \div W
<1>1. W \in Nat \ {0} /\ q + b \in Int
  BY Constants
<1>2. k \in Int /\ (q + b) % W \in Int /\ q + b = W * k + ((q + b) % W)
  BY <1>1, DivMod
<1> HIDE DEF k
<1>3. W * k \in Int /\ W * (-k) = -(W * k)
  BY <1>1, <1>2
<1>4. Plus(q, b) - (n + b) = (q - n) + W * (-k)
  BY <1>2, <1>3 DEF Plus
<1>5. Plus(q, b) - (n + b) \in Int /\ q - n \in Int /\ -k \in Int
  BY <1>2 DEF Plus
<1> DEFINE x == Plus(q, b) - (n + b)
           y == q - n
<1>6. x \in Int /\ y \in Int /\ x = y + W * (-k)
  BY <1>4, <1>5
<1> HIDE DEF x, y
<1>7. x % W = y % W
  BY <1>1, <1>5, <1>6, SameRemainder
<1> QED
  BY <1>7 DEF x, y

LEMMA GapAfterMinus ==
  ASSUME NEW q \in Int, NEW b \in Int, NEW n \in Int
  PROVE  (Minus(q, b) - n) % W = (q - (n + b)) % W
<1> DEFINE k == (q - b) \div W
<1>1. W \in Nat \ {0} /\ q - b \in Int
  BY Constants
<1>2. k \in Int /\ (q - b) % W \in Int /\ q - b = W * k + ((q - b) % W)
  BY <1>1, DivMod
<1> HIDE DEF k
<1>3. W * k \in Int /\ W * (-k) = -(W * k)
  BY <1>1, <1>2
<1>4. Minus(q, b) - n = (q - (n + b)) + W * (-k)
  BY <1>2, <1>3 DEF Minus
<1>5. Minus(q, b) - n \in Int /\ q - (n + b) \in Int /\ -k \in Int
  BY <1>2 DEF Minus
<1> QED
  BY <1>1, <1>4, <1>5, SameRemainder

(* A step that neither touches the counter nor the bandwidth queue of d.    *)
LEMMA GapKept ==
  ASSUME NEW d \in Directions,
         bandwidth'[d] = bandwidth[d], queued_bytes'[d] = queued_bytes[d]
  PROVE  Gap(d)' = Gap(d)
  BY DEF Gap, ListBytes

GapsKept == \A d \in Directions : ResetsQueue(d) \/ Gap(d)' = Gap(d)

LEMMA GapsUntouched ==
  ASSUME bandwidth' = bandwidth, queued_bytes' = queued_bytes
  PROVE  GapsKept
  BY GapKept DEF GapsKept

LEMMA InsertGap ==
  ASSUME TypeOK, TypeOK', NEW p \in Packets, Insert(p)
  PROVE  GapsKept
<1>1. PICK d \in Directions : d = Dir[p]
  BY Constants
<1>2. /\ queued_bytes' =
           [queued_bytes EXCEPT ![d] = Plus(queued_bytes[d], Bytes[p])]
      /\ bandwidth' = [bandwidth EXCEPT ![d] = Append(bandwidth[d], p)]
  BY <1>1 DEF Insert
<1>3. /\ bandwidth \in [Directions -> Seq(Packets)]
      /\ queued_bytes \in [Directions -> 0..W-1]
  BY DEF TypeOK, ListTypes, ByteTypes
<1>4. \A e \in Directions \ {d} : Gap(e)' = Gap(e)
  BY <1>2, <1>3, GapKept
<1>5. Gap(d)' = Gap(d)
  <2>1. bandwidth'[d] = Append(bandwidth[d], p)
        /\ queued_bytes'[d] = Plus(queued_bytes[d], Bytes[p])
    BY <1>2, <1>3
  <2>2. ListBytes(d)' = BytesIn(bandwidth'[d])
    BY DEF ListBytes
  <2>3. ListBytes(d)' = ListBytes(d) + Bytes[p]
    BY <1>3, <2>1, <2>2, BytesAppended DEF ListBytes
  <2>4. queued_bytes[d] \in Int /\ Bytes[p] \in Int /\ ListBytes(d) \in Int
    BY <1>3, Constants, ListBytesType
  <2> QED
    BY <2>1, <2>3, <2>4, GapAfterPlus DEF Gap
<1> QED
  BY <1>4, <1>5 DEF GapsKept

LEMMA MoveGap ==
  ASSUME TypeOK, TypeOK', NEW w \in Callers, MoveHead(w)
  PROVE  GapsKept
<1>1. PICK d \in Directions : d = queue[w]
  BY CallerFacts
<1> DEFINE p == Head(bandwidth[d])
<1>2. /\ queued_bytes' =
           [queued_bytes EXCEPT ![d] = Minus(queued_bytes[d], Bytes[p])]
      /\ bandwidth' = [bandwidth EXCEPT ![d] = Tail(bandwidth[d])]
      /\ bandwidth[d] # <<>>
  BY <1>1 DEF MoveHead, Without, MayPass
<1>3. /\ bandwidth \in [Directions -> Seq(Packets)]
      /\ queued_bytes \in [Directions -> 0..W-1]
      /\ p \in Packets
  BY <1>2, HeadTail DEF TypeOK, ListTypes, ByteTypes
<1> HIDE DEF p
<1>4. \A e \in Directions \ {d} : Gap(e)' = Gap(e)
  BY <1>2, <1>3, GapKept
<1>5. Gap(d)' = Gap(d)
  <2>1. bandwidth'[d] = Tail(bandwidth[d])
        /\ queued_bytes'[d] = Minus(queued_bytes[d], Bytes[p])
    BY <1>2, <1>3
  <2>2. ListBytes(d)' = BytesIn(bandwidth'[d])
    BY DEF ListBytes
  <2>3. ListBytes(d) = Bytes[p] + ListBytes(d)'
    BY <1>2, <1>3, <2>1, <2>2, BytesTaken DEF p, ListBytes
  <2>4. queued_bytes[d] \in Int /\ Bytes[p] \in Int /\ ListBytes(d) \in Int
    BY <1>3, Constants, ListBytesType
  <2>5. ListBytes(d)' = ListBytes(d) - Bytes[p] /\ ListBytes(d)' \in Int
    <3>1. BytesIn(bandwidth'[d]) \in Nat
      BY BytesInType DEF TypeOK, ListTypes
    <3> QED
      BY <2>2, <2>3, <2>4, <3>1
  <2>6. ListBytes(d) = ListBytes(d)' + Bytes[p]
    BY <2>4, <2>5
  <2> QED
    BY <2>1, <2>4, <2>5, <2>6, GapAfterMinus DEF Gap
<1> QED
  BY <1>4, <1>5 DEF GapsKept

(* ShaperEnable zeroes the counter of the queue it is at, and no other.     *)
LEMMA SetUpGap ==
  ASSUME TypeOK, NEW d \in Directions, NEW s, NEW elapsed, SetUp(d, s, elapsed),
         ResetsQueue(d)
  PROVE  GapsKept
<1>1. /\ queued_bytes' = [queued_bytes EXCEPT ![d] = 0]
      /\ bandwidth' = bandwidth
      /\ queued_bytes \in [Directions -> 0..W-1]
  BY DEF SetUp, listVars, TypeOK, ByteTypes
<1>2. \A e \in Directions \ {d} : Gap(e)' = Gap(e)
  BY <1>1, GapKept
<1> QED
  BY <1>2 DEF GapsKept

LEMMA GapStep ==
  ASSUME TypeOK, TypeOK', [Next]_vars
  PROVE  GapsKept
<1> USE DEF queueVars, listVars, byteVars
<1>a. pc \in [Workers -> Steps] /\ bandwidth \in [Directions -> Seq(Packets)]
  BY DEF TypeOK, WorkerTypes, ListTypes
<1>1. CASE UNCHANGED <<bandwidth, queued_bytes>>
  BY <1>1, GapsUntouched
<1>2. ASSUME NEW p \in Packets,
             \/ LossCheck(p) \/ BufferCheck(p) \/ Clone(p)
             \/ CountPermitted(p) \/ InjectionComplete(p)
      PROVE  UNCHANGED <<bandwidth, queued_bytes>>
  BY <1>2 DEF LossCheck, BufferCheck, Clone, CountPermitted, InjectionComplete
<1>3. ASSUME NEW w \in Callers,
             Accrue(w) \/ ReleaseHead(w) \/ FinishQueue(w) \/ Inject(w)
      PROVE  UNCHANGED <<bandwidth, queued_bytes>>
  BY <1>3 DEF Accrue, ReleaseHead, FinishQueue, Inject
<1>4. ASSUME NEW w \in Callers, StopMoving(w)
      PROVE  UNCHANGED <<bandwidth, queued_bytes>>
  BY <1>a, <1>4 DEF StopMoving, PutBack
<1>5. ASSUME NEW w \in Packets \cup Timers,
             TakeLock(w) \/ CheckTimer(w) \/ StartTimer(w)
      PROVE  UNCHANGED <<bandwidth, queued_bytes>>
  BY <1>5 DEF TakeLock, CheckTimer, StartTimer
<1>6. ASSUME NEW t \in Timers, TimerFires(t) \/ ResetPending(t)
      PROVE  UNCHANGED <<bandwidth, queued_bytes>>
  BY <1>6 DEF TimerFires, ResetPending
<1>7. ASSUME EnableFlag \/ Disable \/ Tick \/ UNCHANGED vars
      PROVE  UNCHANGED <<bandwidth, queued_bytes>>
  BY <1>7 DEF EnableFlag, Disable, Tick, vars
<1>8. ASSUME NEW u \in Unloaders, BeginUnload(u) \/ StopTimer(u)
      PROVE  UNCHANGED <<bandwidth, queued_bytes>>
  BY <1>8 DEF BeginUnload, StopTimer
<1>9. ASSUME NEW s \in Settings, EnableInbound(s) PROVE GapsKept
  <2>1. ResetsQueue("inbound")
    BY <1>9, <1>a, Roles DEF EnableInbound, MayRequest, GoTo, ResetsQueue
  <2> QED
    BY <1>9, <2>1, SetUpGap DEF EnableInbound, Directions
<1>10. ASSUME EnableOutbound PROVE GapsKept
  <2>1. ResetsQueue("outbound")
    BY <1>10, <1>a, Roles DEF EnableOutbound, GoTo, ResetsQueue
  <2> QED
    BY <1>10, <2>1, SetUpGap DEF EnableOutbound, Directions
<1>11. ASSUME NEW u \in Unloaders, DropInbound(u) \/ DropOutbound(u)
       PROVE  GapsKept
  <2>1. pc'[u] # pc[u]
    BY <1>11, <1>a, Roles DEF DropInbound, DropOutbound, GoTo
  <2> QED
    BY <2>1 DEF GapsKept, ResetsQueue
<1> QED
  BY StepCases, <1>1, <1>2, <1>3, <1>4, <1>5, <1>6, <1>7, <1>8, <1>9, <1>10,
     <1>11, InsertGap, MoveGap

(* Only ShaperEnable, for the queue it sets up, and the unloading change    *)
(* the gap between queued_bytes and what the bandwidth queue holds: every   *)
(* insert, move and concurrent ProcessQueue call keeps it, wrap-arounds of  *)
(* the counter included.                                                    *)
THEOREM ByteAccountingCorrect == Spec => ByteAccounting
<1>1. TypeOK /\ TypeOK' /\ [Next]_vars => [GapsKept]_vars
  BY GapStep
<1>2. TypeOK /\ [Next]_vars => TypeOK'
  BY TypeStep
<1>3. [][GapsKept]_vars <=> ByteAccounting
  BY DEF GapsKept, ByteAccounting
<1> QED
  BY <1>1, <1>2, <1>3, TypeCorrect, PTL DEF Spec
=============================================================================
