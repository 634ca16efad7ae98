---------------------------- MODULE ClassifyProofs ----------------------------
(***************************************************************************)
(* Proofs about Classify, for any packets of any of the EtherTypes and any *)
(* injection handles missing: no packet is lost on the way without a       *)
(* reason, doubled, or taken by a callout for the second time.             *)
(***************************************************************************)
EXTENDS Classify, FiniteSetTheorems, TLAPS

(* There is one version of a packet that is not lost.                       *)
Single ==
  \A p \in Packets :
    IF lost[p] = "no" THEN \E v : versions[p] = {v} ELSE versions[p] = {}

(* What a version tells of the way it has come: its kind, of what was done  *)
(* to it; where it is, whether it can be taken again; and its mark, that it *)
(* will be recognised there.                                                *)
Told(p, v) ==
  /\ v.kind # "clone" => shaped[p] = 0
  /\ v.kind = "original" => cut[p] = 0
  /\ v.kind = "segments" => p \in Outbound
  /\ v.kind = "segments" /\ v.at = "IP" => v.by = {IPHandle(p)} /\ IPHandle(p) \in handles
  /\ v.kind = "clone" => v.at \in {"queue", "MAC", "arrived"} \cup (IF p \in Outbound THEN {} ELSE {"IP"})
  /\ v.kind = "clone" /\ v.at = "MAC" => v.by = {MacHandle(p)} /\ MacHandle(p) \in handles
  /\ v.at = "queue" => v.kind = "clone"
  /\ p \in retreat_failed => v.at \in {"IP", "arrived"}

HistoryTold == \A p \in Packets : \A v \in versions[p] : Told(p, v)

ClassifyInv == TypeOK /\ Single /\ HistoryTold /\ TakenOnce /\ DataStartKept

Versions ==
  [kind : {"original", "segments", "clone"}, at : Places, by : SUBSET Handles]

\* Only p is touched, and what is known of it stays known.
Touches(p) ==
  /\ UNCHANGED handles /\ driver_unloading' \in BOOLEAN
  /\ lost' \in [Packets -> {"no", "dropped", "not injected", "unloaded"}]
  /\ shaped' \in [Packets -> 0..2] /\ shaped'[p] <= 1
  /\ cut' \in [Packets -> 0..2] /\ cut'[p] <= 1
  /\ retreat_failed' \subseteq Packets \ Outbound
  /\ start' \in [Packets -> {0, 14}]
  /\ start'[p] = IF p \in retreat_failed' THEN 14 ELSE 0
  /\ \A q \in Packets \ {p} :
       /\ lost'[q] = lost[q] /\ shaped'[q] = shaped[q] /\ cut'[q] = cut[q]
       /\ start'[q] = start[q] /\ (q \in retreat_failed' <=> q \in retreat_failed)

(* The invariant is about one packet at a time.                             *)
LEMMA OnePacket ==
  ASSUME ClassifyInv, NEW p \in Packets, NEW new, Touches(p),
         versions' = [versions EXCEPT ![p] = new],
         \/ lost'[p] = "no" /\ \E w \in Versions : new = {w} /\ Told(p, w)'
         \/ lost'[p] # "no" /\ new = {}
  PROVE  ClassifyInv'
<1> USE DEF ClassifyInv, Touches
<1>0. DOMAIN versions = Packets
  BY DEF TypeOK
<1>1. versions'[p] = new /\ \A q \in Packets \ {p} : versions'[q] = versions[q]
  BY <1>0
<1>2. TypeOK'
  BY <1>1 DEF TypeOK, Versions
<1>3. Single'
  BY <1>1 DEF Single
<1>4. HistoryTold'
  <2>1. ASSUME NEW q \in Packets \ {p}, NEW v, Told(q, v) PROVE Told(q, v)'
    <3>1. /\ shaped'[q] = shaped[q] /\ cut'[q] = cut[q] /\ handles' = handles
          /\ q \in retreat_failed' <=> q \in retreat_failed
      OBVIOUS
    <3> QED
      BY <2>1, <3>1 DEF Told
  <2> QED
    BY <1>1, <2>1 DEF HistoryTold
<1>5. TakenOnce' /\ DataStartKept'
  BY DEF TakenOnce, DataStartKept
<1> QED
  BY <1>2, <1>3, <1>4, <1>5

LEMMA OnlyVersion ==
  ASSUME ClassifyInv, NEW p \in Packets, NEW v \in versions[p]
  PROVE  /\ versions[p] = {v} /\ lost[p] = "no" /\ v \in Versions /\ Told(p, v)
         /\ \A new : Replace(p, v, new) => versions' = [versions EXCEPT ![p] = new]
<1>1. versions[p] = {v} /\ lost[p] = "no"
  BY DEF ClassifyInv, Single
<1>2. \A new : (versions[p] \ {v}) \cup new = new
  BY <1>1
<1>3. \A new : Replace(p, v, new) => versions' = [versions EXCEPT ![p] = new]
  BY <1>2 DEF Replace
<1> QED
  BY <1>1, <1>3 DEF ClassifyInv, TypeOK, Versions, HistoryTold

(* A version that goes on to another place, with nothing else changed.      *)
LEMMA Moved ==
  ASSUME ClassifyInv, NEW p \in Packets, NEW v \in versions[p], NEW place \in Places,
         Move(p, v, place), UNCHANGED <<handles, lost, start, retreat_failed, counts>>,
         driver_unloading' = driver_unloading,
         Told(p, [v EXCEPT !.at = place])
  PROVE  ClassifyInv'
<1> DEFINE w == [v EXCEPT !.at = place]
<1>1. v \in Versions /\ lost[p] = "no"
  BY OnlyVersion
<1>2. w \in Versions
  BY <1>1 DEF Versions
<1>3. versions' = [versions EXCEPT ![p] = {w}]
  BY OnlyVersion DEF Move
<1>4. Touches(p)
  BY DEF Touches, ClassifyInv, TypeOK, TakenOnce, DataStartKept, counts
<1>5. Told(p, w)'
  BY DEF Told, counts
<1> QED
  BY <1>1, <1>2, <1>3, <1>4, <1>5, OnePacket

(* What a callout leaves alone goes on, recognised or not.                  *)
LEMMA Permitted ==
  ASSUME ClassifyInv, NEW p \in Packets, NEW v \in versions[p],
         v.at \in {"IP", "MAC"},
         Permit(p, v), UNCHANGED <<handles, start, retreat_failed, counts>>,
         driver_unloading' = driver_unloading
  PROVE  ClassifyInv'
<1>1. v \in Versions /\ Told(p, v)
  BY OnlyVersion
<1>2. Onward(p, v.at) \in {"IP", "MAC", "arrived"}
  BY DEF Onward
<1>3. Told(p, [v EXCEPT !.at = Onward(p, v.at)])
  <2> DEFINE w == [v EXCEPT !.at = Onward(p, v.at)]
  <2>1. w.kind = v.kind /\ w.by = v.by /\ w.at = Onward(p, v.at)
    BY <1>1 DEF Versions
  <2>2. /\ w.at = "IP" => p \notin Outbound
        /\ w.at = "MAC" => v.at = "IP" /\ p \in Outbound
    BY <2>1 DEF Onward
  <2>3. p \in retreat_failed => p \notin Outbound
    BY DEF ClassifyInv, TypeOK
  <2> QED
    BY <1>1, <1>2, <2>1, <2>2, <2>3 DEF Told
<1> QED
  BY <1>2, <1>3, Moved DEF Permit, Places

LEMMA HandleTypes ==
  ASSUME NEW p \in Packets
  PROVE  MacHandle(p) \in Handles /\ IPHandle(p) \in Handles
  BY DEF MacHandle, IPHandle, Handles, Direction, Directions

(* A packet is cut only as it came: segments carry the mark of the handle   *)
(* that IPClassify asks.                                                    *)
LEMMA CutStep ==
  ASSUME ClassifyInv, NEW p \in Packets, NEW v \in versions[p], IPClassify(p, v)
  PROVE  ClassifyInv'
<1>1. CASE Permit(p, v) /\ UNCHANGED cut
  BY <1>1, Permitted DEF IPClassify, counts
<1>2. CASE ~(Permit(p, v) /\ UNCHANGED cut)
  <2> DEFINE w == Version("segments", "IP", {IPHandle(p)})
  <2>1. /\ v.at = "IP" /\ p \in Outbound /\ IPHandle(p) \in handles
        /\ \E state \in InjectionStates(IPHandle(p), v) : ~Ours(state)
        /\ Replace(p, v, {w}) /\ cut' = Once(cut, p)
        /\ UNCHANGED <<handles, lost, start, retreat_failed, shaped, driver_unloading>>
    BY <1>2 DEF IPClassify
  <2>2. IPHandle(p) \notin v.by
    BY <2>1 DEF InjectionStates, Ours
  <2>3. v.kind = "original" /\ cut[p] = 0 /\ shaped[p] = 0 /\ lost[p] = "no"
    BY <2>1, <2>2, OnlyVersion DEF Told, Versions
  <2>4. w \in Versions /\ w.kind = "segments" /\ w.at = "IP" /\ w.by = {IPHandle(p)}
    BY HandleTypes DEF Version, Versions, Places
  <2>5. /\ cut' \in [Packets -> 0..2] /\ cut'[p] <= 1
        /\ \A q \in Packets \ {p} : cut'[q] = cut[q]
    <3>1. Once(cut, p) = [cut EXCEPT ![p] = 1]
      BY <2>3 DEF Once
    <3>2. cut \in [Packets -> 0..2]
      BY DEF ClassifyInv, TypeOK
    <3> QED
      BY <2>1, <3>1, <3>2
  <2>6. Touches(p)
    <3>1. UNCHANGED <<handles, lost, start, retreat_failed, shaped, driver_unloading>>
      BY <2>1
    <3>2. /\ handles \subseteq Handles /\ driver_unloading' \in BOOLEAN
          /\ lost' \in [Packets -> {"no", "dropped", "not injected", "unloaded"}]
          /\ shaped' \in [Packets -> 0..2] /\ shaped'[p] <= 1
          /\ retreat_failed' \subseteq Packets \ Outbound
          /\ start' \in [Packets -> {0, 14}]
          /\ start'[p] = IF p \in retreat_failed' THEN 14 ELSE 0
      BY <3>1 DEF ClassifyInv, TypeOK, TakenOnce, DataStartKept
    <3> QED
      BY <3>1, <3>2, <2>5 DEF Touches
  <2>7. p \notin retreat_failed
    BY <2>1 DEF ClassifyInv, TypeOK
  <2>8. Told(p, w)'
    BY <2>1, <2>3, <2>4, <2>7 DEF Told
  <2>9. versions' = [versions EXCEPT ![p] = {w}] /\ lost'[p] = "no"
    BY <2>1, <2>3, OnlyVersion
  <2> QED
    BY <2>4, <2>6, <2>8, <2>9, OnePacket
<1> QED
  BY <1>1, <1>2

(* A frame enters the queue only if it is not one that came from there.     *)
LEMMA TakeStep ==
  ASSUME ClassifyInv, NEW p \in Packets, NEW v \in versions[p], ShaperClassify(p, v)
  PROVE  ClassifyInv'
<1>1. CASE Permit(p, v)
  BY <1>1, Permitted DEF ShaperClassify, counts
<1>2. CASE ~Permit(p, v)
  <2>1. /\ v.at = "MAC" /\ Move(p, v, "ShaperQueuePacket")
        /\ \E state \in InjectionStates(MacHandle(p), v) : ~Ours(state)
        /\ UNCHANGED <<handles, lost, start, retreat_failed, counts, driver_unloading>>
    BY <1>2 DEF ShaperClassify
  <2>2. v.kind # "clone"
    BY <2>1, OnlyVersion DEF InjectionStates, Ours, Told
  <2>3. Told(p, [v EXCEPT !.at = "ShaperQueuePacket"])
    BY <2>1, <2>2, OnlyVersion DEF Told, Versions
  <2> QED
    BY <2>1, <2>3, Moved DEF Places
<1> QED
  BY <1>1, <1>2

LEMMA DropStep ==
  ASSUME ClassifyInv, NEW p \in Packets, NEW v \in versions[p],
         NEW why \in {"dropped", "not injected", "unloaded"}, Lose(p, v, why),
         UNCHANGED <<handles, start, retreat_failed, counts>>,
         driver_unloading' = driver_unloading
  PROVE  ClassifyInv'
<1>1. versions' = [versions EXCEPT ![p] = {}] /\ lost' = [lost EXCEPT ![p] = why]
  BY OnlyVersion DEF Lose
<1>2. Touches(p) /\ lost'[p] = why
  BY <1>1 DEF Touches, ClassifyInv, TypeOK, TakenOnce, DataStartKept, counts
<1> QED
  BY <1>1, <1>2, OnePacket

LEMMA InjectStep ==
  ASSUME ClassifyInv, NEW p \in Packets, NEW v \in versions[p], InjectPacket(p, v)
  PROVE  ClassifyInv'
<1>1. CASE Lose(p, v, "not injected")
  BY <1>1, DropStep DEF InjectPacket, counts
<1>2. CASE ~Lose(p, v, "not injected")
  <2> DEFINE w == Version("clone", "MAC", {MacHandle(p)})
  <2>1. /\ v.at = "queue" /\ MacHandle(p) \in handles /\ Replace(p, v, {w})
        /\ UNCHANGED <<handles, lost, start, retreat_failed, counts, driver_unloading>>
    BY <1>2 DEF InjectPacket
  <2>2. p \notin retreat_failed /\ lost[p] = "no"
    BY <2>1, OnlyVersion DEF Told
  <2>3. w \in Versions /\ w.kind = "clone" /\ w.at = "MAC" /\ w.by = {MacHandle(p)}
    BY HandleTypes DEF Version, Versions, Places
  <2>4. Touches(p)
    BY <2>1 DEF Touches, ClassifyInv, TypeOK, TakenOnce, DataStartKept, counts
  <2>5. Told(p, w)'
    BY <2>1, <2>2, <2>3 DEF Told
  <2> QED
    BY <2>1, <2>2, <2>3, <2>4, <2>5, OnePacket, OnlyVersion
<1> QED
  BY <1>1, <1>2

(* A frame that is not taken goes on, with its data where it was, or where  *)
(* the failure of NdisRetreatNetBufferDataStart has left it: it comes to no *)
(* other test of the driver.                                                *)
LEMMA NotTakenStep ==
  ASSUME ClassifyInv, NEW p \in Packets, NEW v \in versions[p],
         v.at = "ShaperQueuePacket", NotQueued(p, v),
         UNCHANGED <<handles, counts, driver_unloading>>,
         start' \in [Packets -> {0, 14}],
         start'[p] = IF p \in retreat_failed' THEN 14 ELSE 0,
         \A q \in Packets \ {p} : start'[q] = start[q],
         \/ UNCHANGED retreat_failed
         \/ p \notin Outbound /\ retreat_failed' = retreat_failed \cup {p}
  PROVE  ClassifyInv'
<1> DEFINE w == [v EXCEPT !.at = Onward(p, "MAC")]
<1>1. v \in Versions /\ lost[p] = "no" /\ Told(p, v)
  BY OnlyVersion
<1>2. /\ w \in Versions /\ w.kind = v.kind /\ w.at \in {"IP", "arrived"}
      /\ w.at = "IP" => p \notin Outbound
  BY <1>1 DEF Versions, Onward, Places
<1>3. versions' = [versions EXCEPT ![p] = {w}] /\ lost' = lost
  BY OnlyVersion DEF NotQueued, Move
<1>4. shaped' = shaped /\ cut' = cut /\ handles' = handles
      /\ driver_unloading' = driver_unloading
  BY DEF counts
<1>5. retreat_failed' \subseteq Packets \ Outbound
      /\ \A q \in Packets \ {p} : q \in retreat_failed' <=> q \in retreat_failed
  BY DEF ClassifyInv, TypeOK
<1>6. Touches(p)
  BY <1>3, <1>4, <1>5 DEF Touches, ClassifyInv, TypeOK, TakenOnce
<1>7. Told(p, w)'
  BY <1>1, <1>2, <1>4 DEF Told
<1> QED
  BY <1>1, <1>2, <1>3, <1>6, <1>7, OnePacket

LEMMA QueueStep ==
  ASSUME ClassifyInv, NEW p \in Packets, NEW v \in versions[p], ShaperQueuePacket(p, v)
  PROVE  ClassifyInv'
<1>1. /\ v.at = "ShaperQueuePacket" /\ v \in Versions /\ Told(p, v) /\ lost[p] = "no"
      /\ v.kind # "clone" /\ p \notin retreat_failed /\ shaped[p] = 0
  BY OnlyVersion DEF ShaperQueuePacket, Told
<1>2. start \in [Packets -> {0, 14}] /\ start[p] = 0
      /\ shaped \in [Packets -> 0..2]
  BY <1>1 DEF ClassifyInv, TypeOK, DataStartKept
<1>3. CASE Lose(p, v, "dropped") /\ UNCHANGED <<start, retreat_failed, shaped>>
  BY <1>3, DropStep DEF ShaperQueuePacket, counts
<1>4. CASE NotQueued(p, v) /\ UNCHANGED <<start, retreat_failed, shaped>>
  BY <1>1, <1>2, <1>4, NotTakenStep DEF ShaperQueuePacket, counts
<1>5. CASE /\ p \notin Outbound /\ start' = [start EXCEPT ![p] = @ + Advance(p, FALSE)]
           /\ retreat_failed' = retreat_failed \cup {p}
           /\ NotQueued(p, v) /\ UNCHANGED shaped
  <2>1. start' = [start EXCEPT ![p] = 14]
    BY <1>2, <1>5 DEF Advance
  <2> QED
    BY <1>1, <1>2, <1>5, <2>1, NotTakenStep DEF ShaperQueuePacket, counts
<1>6. ASSUME NEW cloned \in BOOLEAN, UNCHANGED retreat_failed,
             start' = [start EXCEPT ![p] = @ - (IF p \in Outbound THEN 0 ELSE 14)
                                             + Advance(p, cloned)],
             IF cloned
             THEN /\ Replace(p, v, {Version("clone", "queue", {})})
                  /\ shaped' = Once(shaped, p)
                  /\ UNCHANGED lost
             ELSE NotQueued(p, v) /\ UNCHANGED shaped
      PROVE  ClassifyInv'
  <2>1. start' = start
    BY <1>2, <1>6 DEF Advance
  <2>2. CASE ~cloned
    BY <1>1, <1>2, <1>6, <2>1, <2>2, NotTakenStep DEF ShaperQueuePacket, counts
  <2>3. CASE cloned
    <3> DEFINE w == Version("clone", "queue", {})
    <3>1. versions' = [versions EXCEPT ![p] = {w}] /\ lost' = lost
      BY <1>6, <2>3, OnlyVersion
    <3>2. handles' = handles /\ cut' = cut /\ driver_unloading' = driver_unloading
      BY DEF ShaperQueuePacket
    <3>3. /\ shaped' \in [Packets -> 0..2] /\ shaped'[p] <= 1
          /\ \A q \in Packets \ {p} : shaped'[q] = shaped[q]
      <4>1. shaped' = [shaped EXCEPT ![p] = 1]
        BY <1>1, <1>6, <2>3 DEF Once
      <4> QED
        BY <1>2, <4>1
    <3>4. w \in Versions /\ w.kind = "clone" /\ w.at = "queue"
      BY DEF Version, Versions, Places
    <3>5. Touches(p)
      BY <1>6, <2>1, <3>1, <3>2, <3>3
      DEF Touches, ClassifyInv, TypeOK, TakenOnce, DataStartKept
    <3>6. Told(p, w)'
      BY <1>1, <1>6, <3>4 DEF Told
    <3> QED
      BY <1>1, <3>1, <3>4, <3>5, <3>6, OnePacket
  <2> QED
    BY <2>2, <2>3
<1> QED
  BY <1>3, <1>4, <1>5, <1>6 DEF ShaperQueuePacket

LEMMA InvStep ==
  ASSUME ClassifyInv, [Next]_vars
  PROVE  ClassifyInv'
<1>1. ASSUME NEW p \in Packets, NEW v \in versions[p],
             \/ IPClassify(p, v) \/ ShaperClassify(p, v) \/ ShaperQueuePacket(p, v)
             \/ InjectPacket(p, v) \/ DropPacket(p, v)
      PROVE  ClassifyInv'
  <2>1. DropPacket(p, v) => ClassifyInv'
    BY DropStep DEF DropPacket, counts
  <2> QED
    BY <1>1, <2>1, CutStep, TakeStep, QueueStep, InjectStep
<1>2. CASE Unload \/ UNCHANGED vars
  <2>1. /\ UNCHANGED <<handles, versions, lost, start, retreat_failed, shaped, cut>>
        /\ driver_unloading' \in BOOLEAN
    BY <1>2 DEF Unload, vars, counts, ClassifyInv, TypeOK
  <2> QED
    BY <2>1 DEF ClassifyInv, TypeOK, Single, HistoryTold, Told, TakenOnce, DataStartKept
<1> QED
  BY <1>1, <1>2 DEF Next, Journey, Drop, Rest

LEMMA InitInv == Init => ClassifyInv
<1> SUFFICES ASSUME Init PROVE ClassifyInv
  OBVIOUS
<1>1. \A p \in Packets :
        LET v == Version("original", First(p), {}) IN
        versions[p] = {v} /\ v \in Versions /\ v.kind = "original" /\ v.at \in {"IP", "MAC"}
  BY DEF Init, Version, Versions, First, Places
<1>2. handles \subseteq Handles
  BY HandleTypes DEF Init
<1>3. TypeOK
  <2>1. /\ lost \in [Packets -> {"no", "dropped", "not injected", "unloaded"}]
        /\ start \in [Packets -> {0, 14}]
        /\ shaped \in [Packets -> 0..2] /\ cut \in [Packets -> 0..2]
    BY DEF Init
  <2>2. DOMAIN versions = Packets /\ driver_unloading \in BOOLEAN /\ retreat_failed = {}
    BY DEF Init
  <2>3. \A p \in Packets : \A v \in versions[p] : v \in Versions
    BY <1>1
  <2> QED
    BY <1>2, <2>1, <2>2, <2>3 DEF TypeOK, Versions
<1>4. Single
  BY <1>1 DEF Init, Single
<1>5. HistoryTold
  BY <1>1 DEF Init, HistoryTold, Told
<1>6. TakenOnce /\ DataStartKept
  BY DEF Init, TakenOnce, DataStartKept
<1> QED
  BY <1>3, <1>4, <1>5, <1>6 DEF ClassifyInv

----------------------------------------------------------------------------
THEOREM ClassifyInvariant == Spec => []ClassifyInv
  BY InitInv, InvStep, PTL DEF Spec

(* The variables have their types: the data start of a packet is never off   *)
(* by anything but an Ethernet header.                                       *)
THEOREM TypeCorrect == Spec => []TypeOK
<1>1. ClassifyInv => TypeOK
  BY DEF ClassifyInv
<1> QED
  BY ClassifyInvariant, <1>1, PTL

(* Whatever the EtherTypes and whichever handles are missing, no packet is   *)
(* queued or cut for the second time: each callout recognises its own.       *)
THEOREM TakenOnceCorrect == Spec => []TakenOnce
<1>1. ClassifyInv => TakenOnce
  BY DEF ClassifyInv
<1> QED
  BY ClassifyInvariant, <1>1, PTL

(* Exactly one version of a packet is under way until it is dropped, cannot  *)
(* be injected or is discarded at an unload.                                 *)
THEOREM OneVersionCorrect == Spec => []OneVersion
<1>1. ClassifyInv => OneVersion
  BY FS_EmptySet, FS_Singleton DEF ClassifyInv, Single, OneVersion
<1> QED
  BY ClassifyInvariant, <1>1, PTL

(* A packet passes ShaperQueuePacket with its data start as it was, unless   *)
(* moving it down failed.                                                    *)
THEOREM DataStartKeptCorrect == Spec => []DataStartKept
<1>1. ClassifyInv => DataStartKept
  BY DEF ClassifyInv
<1> QED
  BY ClassifyInvariant, <1>1, PTL
=============================================================================
