# Verification of the WFP traffic shaper

This directory models the Windows traffic-shaping driver of the repository and
its user-mode tools in TLA+, checks the models with TLC on small instances, and
proves their main invariants with TLAPS for every instance: of the packet
queues, the driver's load and unload, the classify callouts, the three routines
that cut packets, and the tools.

## 1. The system

```
 exe/exe.cpp  gui/WinShaperDlg.cpp          user mode
      |  service control (SCM)  |  DeviceIoControl
      v                         v
 wdm_driver.c: DriverEntry, EvtDeviceIOCtl (sequential queue), Cleanup
      |                         |
      | RegisterCallouts        | ShaperEnable / ShaperDisable / GetStatus
      v                         v
 wfp_callout.c: ShaperClassify -> packet_queue.c: ShaperQueuePacket
                                     bandwidth_queue -> latency_queue -> InjectPacket
                                     ^                                     |
                                     | TimerEvt (1 ms, one-shot)           v
                                     +---- WdfTimer            network stack (completion)
```

Only `packet_queue.c`, `wdm_driver.c` and `wfp_callout.c` are in
`shaper.vcxproj`; `IP_callout.c` (TCP segmentation, MAC padding) and
`ipfragment.c` are in the repository but not built.

| component | state | operations | interacts with | hard behaviour |
|---|---|---|---|---|
| packet queues (`packet_queue.c`) | per direction two lists, limits, `queued_bytes`, `available_bytes`, `last_tick`, a spin lock; the flag `traffic_shaping_enabled`; `timer_handle`, `timer_pending`; statistics | `ShaperQueuePacket`, `ProcessQueue`, `InjectPacket`, `PacketInjectionComplete`, `TimerEvt`, `StartPacketTimerIfNecessary`, `ShaperEnable`, `ShaperDisable`, `DestroyPacketQueues` | called by the classify callout, timer DPCs, IOCTLs, the network stack, unload | every routine runs concurrently with every other; the flag and some counters are read without a lock; allocation, clone and injection may fail |
| driver lifecycle (`wdm_driver.c`) | engine handle, four callout ids, six injection handles, the device, `driver_unloading` | `DriverEntry`, `RegisterCallouts`, `Cleanup`, unload | WFP engine, KMDF, packet queues | any stage may fail; cleanup order against calls in flight |
| classify callouts (`wfp_callout.c`; `IP_callout.c`, not built) | none of its own | `ShaperClassify` at the MAC layer, `IPClassify` at the IP layer | WFP, packet queues | re-injected packets come back; the data start is moved and moved back |
| control requests (`interface.h`, `EvtDeviceIOCtl`) | none | ENABLE, DISABLE, GET_STATUS, GET_STATS | tools, packet queues | requests interleave with traffic |
| IP fragmentation and MAC padding (`ipfragment.c`, not built) | none | `IPFragment`, `IPFragment_inbound` | would feed the queues | offsets, lengths, flags, room for padding at boundaries; lists of long and short packets; failure half-way |
| TCP segmentation (`IP_callout.c`, not built) | none | `TCPandIPfragment`, its completion | `IPClassify`, the stack | sequence numbers, checksums, one label that undoes everything |
| command line tool (`exe.cpp`) | the service's state | install, remove, set, reset | SCM, driver | time-outs while the service starts or stops |
| dialog (`WinShaperDlg.cpp`) | `enabled_`, `driver_interface_`, `driver_path_` | Enable, Disable, Install, Uninstall, Start, Stop | SCM, driver | one step of several failing |
| custom profiles (`CustomProfiles*.cpp`) | a list, a file | Load, Save, edit | dialog | rewriting the file |

What makes each part correct:

- packet queues: a packet that is queued leaves exactly once, in order, through
  the stack or freed; none is left without a wake-up; the timer is started when
  and only when it is needed; switching shaping off empties the lists; the byte
  counter follows the list; the calls return.
- driver lifecycle: a failed load leaves nothing registered or allocated, a
  successful one everything; nothing is used after it was destroyed.
- classify: a packet is absorbed exactly when the shaper took it, and a packet
  the shaper injected is not taken again.
- fragmentation and segmentation: the pieces carry the payload of the original
  once, in order, each within the limit.
- tools: what the dialog shows is what the driver does; a step that failed does
  not let a later one go on as if it had not.

## 2. Modules

| module | models | status |
|---|---|---|
| `ShapedLink` | what the queues promise, as one FIFO line per direction | done |
| `PacketQueue` | `packet_queue.c` with its callers: the concurrent routines, the timer, the flag | done |
| `MCPacketQueue` | instances for TLC; the properties that add up bytes | done |
| `PacketQueueProofs` | theorems about `PacketQueue`: types, wake-up, switching off | done |
| `PacketQueueListProofs` | theorems about its lists: owners, the FIFO line, bytes | done |
| `FoldProofs` | lemmas on induction, remainders and `FoldLeft` that the other proofs cite | done |
| `DriverLifecycle` | `DriverEntry`, `RegisterCallouts`, `Cleanup`, unload, with classify calls running | done |
| `MCDriverLifecycle` | its instance for TLC | done |
| `DriverLifecycleProofs` | theorems about `DriverLifecycle` | done |
| `Classify` | the callouts of both layers and what `ShaperQueuePacket` does to the packet itself: choice of the handle, recognition of what the driver injected, data start, who has the packet | done |
| `MCClassify`, `ClassifyProofs` | its instance for TLC, its theorems | done |
| `PacketSplit` | `IPFragment`, `IPFragment_inbound`, `TCPandIPfragment`, with their checksums | done |
| `MCPacketSplit`, `PacketSplitProofs` | lists of packets for TLC, theorems, those on checksums included | done |
| `ServiceControl` | `exe.cpp` and the dialog against the service manager and the driver | done |
| `MCServiceControl` | its instance for TLC | done |
| `ServiceControlProofs` | theorems about its handles and the file | done |
| `ServiceControlDataProofs` | theorems about the parameters and what the dialog shows | done |

How they fit together:

- `PacketQueue` refines `ShapedLink` through the instance `Link`, where the line
  of a direction is its latency list followed by its bandwidth list.
- `Classify` takes what `PacketQueue` and `PacketSplit` do to one packet as a
  choice (queued, dropped, permitted; cut or not), and follows the packet from
  layer to layer; the fairness it gives a queued packet is the property
  `QueuedLeaves` of `PacketQueue`.
- `ServiceControl` sends the requests whose effect on the queues is
  `EnableInbound`, `EnableOutbound`, `EnableFlag` and `Disable` in `PacketQueue`,
  as one step, and takes the load and unload of `DriverLifecycle` as the steps
  `StartEnds` and `StopEnds`, which may turn out either way.
- `DriverLifecycle` has the same `DestroyPacketQueues` as `PacketQueue`, as one
  step with no traffic in it.

What a next step would add: the composition of `DriverLifecycle` with the timer
DPCs and late inserts of `PacketQueue` (section 7).

## 3. How the modules correspond to the code

### PacketQueue

- **Processes.** A packet stands for the `ShaperQueuePacket` call that
  classifies it; `Timers` are `TimerEvt` invocations, which may overlap because
  the timer is created with `AutomaticSerialization = FALSE` and is started
  again before the DPC returns; `Ioctl` is the sequential IOCTL queue;
  `Unloaders` is empty or the unload routine. `pc[w]` is the next step of each,
  and `ProcessQueue` and `StartPacketTimerIfNecessary` are the same actions
  whoever calls them: `FinishQueue` returns to the caller.
- **Locks.** A spin lock has no variable: who holds it follows from `pc`
  (`Holds`). A critical section that takes one lock and that nothing
  outside the lock can disturb is one step (`Insert`, `ReleaseHead`, `SetUp`,
  `ResetPending`); the move loop of `ProcessQueue` reads the unprotected
  `traffic_shaping_enabled` in each round, so it is a step per round, and the
  lock is held while `pc` is `"move"`. `StartPacketTimerIfNecessary` takes its three
  locks one by one, in `LockOrder`: at `"one_lock"` and `"two_locks"` a worker holds
  some and waits for the next (`TakeLock`), and with the third it
  evaluates the condition (`CheckTimer`). `WdfTimerStart` is apart from that test
  because `DestroyPacketQueues` clears `timer_handle` under another lock.
- **Unlocked reads.** The loss test, the buffer test and the choice to
  clone are three steps, as each reads state others change.
- **Time.** The difference from `last_tick` is `since`, that from
  `latency_start` is `age`; `Tick` lets a count of the performance counter
  pass. The counts saturate at `MaxElapsed`.
- **Numbers.** The byte counters are reduced modulo `W`, as the unsigned
  `__int64` in the code wraps.
- **Failures.** Allocation, retreat, clone and injection fail at will. Two
  overlapping increments of a statistic may lose one (`Overlapped`).
- **`timer_handle` cleared between test and use.** The build may reload the
  variable or not: the outcomes are a started timer, or NULL given to the
  framework, which stops the machine (`"bugcheck"`).

### DriverLifecycle

- `step` is the next call of `DriverEntry`, `RegisterCallouts` or `Cleanup`;
  each action is one acquisition or release with its success and its failure.
  `status` is overwritten as in the code, `failed` records the failures (it
  exists in the model only). The statement after the `if` at
  `wdm_driver.c:118` is unconditional, as compiled.
- The filters added in the transaction are `pending` until the commit, then
  `filters`; closing the dynamic session removes them.
- External, from how the driver uses it: `FwpsCalloutRegister` fails without a
  device; `FwpsCalloutUnregisterById` returns when no call of that callout is
  running; `WdfDeviceInitFree(NULL)` stops the machine.
- The two injection handles of the instance stand for three each: the code
  treats the six alike, and the choice among them is in `Classify`.

### Classify

- `versions[p]` is what there is of packet `p`: the original, the list of its
  segments or its clone, the layer or queue it is at, and the handles it was
  injected with, which is what `FwpsQueryPacketInjectionState` goes by.
  `First` and `Onward` are the order of the layers in the network stack, which is
  external: a sent IPv4 packet passes the IP layer and then the MAC layer, a
  received one the other way, other protocols the MAC layer alone.
- `MacHandle` has the EtherTypes the code tests, 0x86DD and 0x8600; the
  recognition asks the same handle, so that it does not matter for the packet
  that 0x8600 is not IPv4.
- Which handles exist is chosen at the start: the results of their creation are
  not looked at by the code. A packet for a handle that is NULL is lost.
- `Permit` stands for every early return of a callout, a block by another filter
  included. `ShaperQueuePacket` has its outcomes as disjuncts: dropped, not
  queued, retreat failed, cloned or not.
- `wfp_callout.c` has an `IPClassify` of its own (lines 201-233), which prints and
  changes nothing; the one modelled is `IP_callout.c`'s.

### PacketSplit

- A behaviour is one call. `step` is the place in the routine; a pass through a
  loop is one step, with everything in it that may fail. A failure stands for
  the early returns of the code as well as for kernel calls that fail, except the
  returns whose condition decides what happens next, which are guards
  (`MayFragment`, the lengths, `Chained`).
- The payload is named by its position: `from` and `len` of a piece, and `nb` for
  the packet it comes from. The header fields that the routines change are those
  of the record. The others appear as `Fixed` in the checksums; payload
  bytes, for the checksums, are `Content` over and over.
- Lengths keep their 16 bits where the code has USHORT: a limit below the header
  length wraps in `MTUpayload`, and the call then fails, since no packet is long
  enough to copy so much from (`LongestPacket`).
- `Room` and `FrameLengths` are the sizes the code allocates and pads to;
  `CopyFits` is what `NdisCopyFromNetBufferToNetBuffer` copies in full.
- The list is chained to `currentNB`, set by the first fragment: if the first
  packet of a list has a header and nothing else, there is none, and
  what is chained later goes through NULL (`Chained`, else `Bugcheck`).
- `SELF_MTU`, `SELF_MSSmax` and the random numbers are declared nowhere in the
  repository; they are `Limits`, `MSSmax` and `Pads`. The MSS may be 0, as nothing in
  the code keeps it from that: every pass is then a first one, which writes to the
  same NET_BUFFER (`MadeBefore`) and leaves `remain` as it was.
- `IPFragment_inbound` and `TCPandIPfragment` deal with the first NET_BUFFER of a
  list only (`LastPacket`); the caller of `TCPandIPfragment` absorbs the whole list,
  so the packets behind the first are lost. `IPFragment_inbound` moves the data start
  of the original down and does not move it up again (`start`).
- `held` has the pool memory of a call and, for TCP, what its segments are made of:
  `"mdls"` of the retreats and `"netBuffers"` from the second segment on
  (`SegmentMemory`). The label EXIT and the completion give back the first kind
  (`FreedAtExit`, `IPInjectionComplete`), nothing the second.
- The IP header of a segment is copied as it is, as the calls of `updateIPHeader` are
  commented out: `total` of a segment is that of the packet.
- A frame that is not IPv4 and is copied straight may have two bytes overwritten
  (`StraightPiece`); its bytes are not in the model.
- The test of `remain` after the loop never succeeds: `PacketDone` in
  `PacketSplitProofs` shows that nothing remains by then.

### ServiceControl

- Each tool is a process: the dialog with its `enabled_`, `driver_interface_`
  (`device`) and `driver_path_`, a prompt from which commands are run. A command is
  a `job`, `step` its next call into the system; every such call may fail, and a
  process may be killed between any two (`Kill`).
- External, from how the tools use it: the service record `svc`. `DeleteService`
  marks it, and it goes when it is stopped and no handle is open (`Settled`);
  `StartService` leads to START_PENDING, from where the driver gets to run or not
  (`StartEnds`), and may take longer than anyone waits; a driver whose device is
  open is not unloaded (`StopEnds`).
- A status query that fails leaves the status read before (`Seen`).
- The options of a command are its numbers; the loss rate, in whole percent, becomes
  hundredths of a percent in 16 bits (`Option`).
- `denied` records that the system refused to open or delete a service that is
  there, `missed` that the dialog lost touch because a DISABLE failed or the
  process was killed. The two are history variables for the exceptions of
  `FileBehindService` and `ShownIsShaped`.
- The parameters in force are kept only while shaping is on, when they count.
- Painting, the list of profiles, `OnTimer`, `UpdateStatus` and `QueuePercent`
  read the driver's state and change only the picture: no action.

## 4. The runs

| run | properties | shows |
|---|---|---|
| `packet_queue` | `TypeOK`, `NoLostWakeup`, `TimerToken`, `ShapingOffDrains`, `NoCircularWait` | a packet in each direction, two overlapping DPCs, two control requests |
| `packet_queue_unload` | `OneOwner`, `ByteAccounting`, `ImplementsLink` | two packets of one direction, loss, a tight buffer, two requests, unload at any moment |
| `packet_queue_live` | `QueuedLeaves`, `CallReturns`, `TimerStops` | under fairness, with three kinds of parameters |
| `driver_lifecycle` | `TypeOK`, `NothingLeft`, `IdsTrue`, `FiltersBacked`, `HandlesStable`, `RoutinesReturn` | every call of the load may fail; unload with calls running |
| `classify` | `TypeOK`, `TakenOnce`, `OneVersion`, `DataStartKept`, `Arrives` | a sent and a received IPv4 packet and one of another protocol, with every subset of the handles, unload at any moment: no packet is delayed or cut twice, doubled or lost without a reason, and each gets through |
| `packet_split` | `TypeOK`, `Tiling`, `Complete`, `FragmentHeaders`, `PieceFits`, `SequenceContinues`, `ChecksumsVerify`, `OnlySegmentsStay`, `LoopsEnd` | one call out of 41 (16 lists for each of the IP routines, 9 for TCP), anything failing: the pieces carry the payload of the packets the routine looks at once and in order, in memory that is large enough, with offsets, sequence numbers and checksums that are right if the receiver goes by what arrived; after a TCP call only what its segments were made of is still allocated |
| `tools` | `TypeOK`, `ShownIsShaped`, `FileBehindService`, `HandlesClosed`, `SettingsMeant`, `ToolsReturn` | the dialog and a prompt at the same time, any call failing, either killed: the dialog shows what the driver does, the file outlives the service, handles are closed, the latencies make up the round-trip time, every command returns |
| `reenable` | `QueuedBytesIsPending` violated | finding 1 |
| `overflow` | `BufferNotExceeded` violated | finding 2 |
| `slow` | `QueuedLeaves` violated | finding 3 |
| `driver_braces` | `FailedStageFailsLoad` violated | finding 4 |
| `segment_length` | `SegmentTotals` violated | finding 5 |

**Bounds.** Two packets are enough for two calls that interleave at every step
and for a list whose order can go wrong; their lengths, 1514 and 1000, are such
that the initial credit of 1500 covers one and not the other. One is sent each
way where both queues matter, both the same way where order and bytes do. Two
timers let a DPC start before the one before it has ended; they are symmetric,
and a third adds no new kind of overlap since `TimerToken` allows one that has
not cleared the flag. The live run has one: with two, TLC finds runs in which, each
time a millisecond ends, the two DPCs are just between each other's tests, which is
fair and goes on for ever; it would take a bound on how long a DPC may last to
exclude it, and the code gives none. Two requests allow enable-disable, enable-enable and a
request after the traffic has begun. A count is 1 ms (`Freq` 1000), the timer's
period; `MaxElapsed` is the longest time the latencies of the runs distinguish.
`W` is 65536, far above what two packets and one burst add up to, so that a
wrap shows as in 64 bits. In the lifecycle the four callouts are the code's, and
`MaxWait` is 2 instead of 1200: one poll that goes on and one that is the last.
In `classify` packets do not meet, so one of each way through the layers is
enough; three are there to let the handles of one be missing for another. In
`packet_split` the limits are 0 (an MSS of 0), below the header length (12, 16), a header
and 4 bytes (24: no payload fits, a division by zero), a header and a multiple
of 8 (44), and not (53, 66, 70); the payloads give none, or two to ten pieces with a
last one that is full or not, the headers have no options or as many as there can be,
the offset is next to its largest value, the sequence number wraps within
the first segment, and the padding is none, a little, more than the room of a
later fragment, more than that of the first. The longest list has three
packets, cut and copied straight in every order of two; a TCP call gets one of two
packets. In `tools` the polls are
1 in the dialog, 2 in the prompt and 2 for a start instead of 10, 600 and
600: a last poll, and one before it. Two tools are what can get in each other's
way; two dialogs at once share `winShaper.sys` and are not in the instance
(section 5).

**Fairness.** Every call that has begun goes on. In-stack queued spin locks are
granted in the order of the requests, so a worker whose lock is free again and
again gets it: strong fairness for the workers. The clock, the DPC of an expired
timer and the completion of an injection are weakly fair. No
fairness is given to arrivals, requests and unload. `QueuedLeaves`,
`CallReturns` and `TimerStops` need nothing else. For the lifecycle,
the system thread that loads the driver is scheduled and classify calls return;
the filtering engine need never start. In `Classify` each packet's next step is
weakly fair: the stack passes it on, a callout returns, a queued frame leaves.
Nothing says that a callout must not take it again; that it does not is what
`Arrives` shows. A tool with a command to carry out is scheduled; of the service
manager nothing is assumed, so a driver may be starting or stopping for ever.
`PacketSplit` needs no fairness: `LoopsEnd` says that each pass leaves less to do.

**Deadlock** is checked in every run. `Rest` names the states in which the system
may stop for good: nothing at work, no timer running and the lists empty (or the
queues destroyed), in the lifecycle the driver loaded, not loaded or
unloaded, in `Classify` all packets through, in `PacketSplit` the call returned or
the machine stopped. A state where everyone waits for a lock is not among them.
`ServiceControl` has no such state: a tool at rest can always be given a command.

## 5. What is proved

A proof holds for every value of the constants that satisfies the assumptions of
the module; they are named there and say that the constants have their types, and
what is quoted below.

Every invariant and every safety action property that a passing run checks is
proved; TLC found each of them true of the instances before it was.

`PacketQueueProofs` proves five invariants of `Spec` for any sets of packets,
timers and unloaders, any lengths, parameters, frequency, word size and
bounds that satisfy `WorkersAssumption` and `DataAssumption` (the workers are
different from each other; constants have their types). 

- `TypeCorrect`: `TypeOK` is inductive. The steps are grouped by routine, one
  lemma each (`ClassifyTypes`, `ProcessTypes`, `TimerStepTypes`,
  `ControlStepTypes`, `UnloadTypes`).
- `TimerTokenCorrect`, `NoLostWakeupCorrect`: from `WakeUpInv`, which
  is `TypeOK /\ TimerLock /\ TimerToken /\ NoLostWakeup`. `TimerLock` says that one
  worker at most is past `timer_spinlock` and that at `"start"` the condition it tested,
  no timer pending, still holds: without it a second caller could start a timer
  that is already pending and the token would not be preserved.
  `NoLostWakeup` rests on `TimerToken` for the step in which a caller finds the
  timer pending and returns: a `TimerEvt` is then bound to come. `QuietCases` and
  `WakeUpOther` take care of the many steps that leave timer and lists alone.
- `NoCircularWaitCorrect`: from `TimerLock`. As one worker at most is past
  `timer_spinlock`, and whoever has a queue's lock without it waits for nothing, only
  a worker that holds the lock it waits for could be in a circle; the three locks of
  `LockOrder` are different.
- `ShapingOffDrainsCorrect`: from `DrainInv`, which is `TypeOK /\ OwnQueue /\
  ShapingOffDrains`; `OwnQueue` says that a classify call works on the queue of
  its packet's direction, so that the list it inserted into is the one it
  processes.

`PacketQueueListProofs`, from the same assumptions, about what is in the lists:

- `OneOwnerCorrect`: `OneOwner` says that what is in a list is queued and was put
  there by its direction, that what is queued is in its list, that no list has a
  packet twice, and that a packet taken off is with one worker. `OwnerInv` is
  `TypeOK /\ OneOwner /\ UndecidedIsNew`; the last part (a packet whose classify call
  has not decided yet is new) is what keeps an insert from queuing a packet again. The
  lemma `PacketEffects` sorts every step of the module into seven effects on
  packets (`Quiet`, `Settle`, `Enter`, `TakeHead`, `HandOver`, `Complete`,
  `ThrowAway`), and one lemma each shows that `OwnerInv` survives them.
- `LinkImplemented`: `Spec => ImplementsLink`, the refinement of `ShapedLink`. Under
  `OwnerInv` each of the seven effects is a step of `ShapedLink` or a stutter
  (`LinkStep`). `OneOwner` is what it rests on: without it the head of a list need not
  be `"linked"`, nor a freed line be the packets whose fate changes. A head that
  moves from the bandwidth list to the latency list is a stutter (`MovedBetween`).
- `ByteAccountingCorrect`: the gap between `queued_bytes` and the bytes in the list is
  a remainder of `W`, which only `ShaperEnable` and the unloading change. An insert adds the same length to the counter and to the sum over
  the list, a move takes the same from both (`BytesAppended`, `BytesTaken`, from
  `SumAppend` and `SumTail` of `FoldProofs`), and numbers that differ by a multiple
  of `W` have the same remainder (`SameRemainder`), so that a counter that wrapped
  keeps the gap as well.

`FoldProofs` has what these proofs need of data. The library's induction theorems
take an operator as their parameter, which the installed provers cannot instantiate;
`LeastNat` (from the well-foundedness of `<`) and `InductionUpTo` state them for a set
of numbers instead. `FoldExists` shows by such an induction that the function by
which `FoldLeft` is defined exists, and `SumIsRun` that a sum over a sequence is the last
of the values a loop over its elements goes through.

`DriverLifecycleProofs`: for any non-empty sequence of different callouts, any set
of handles, calls and any waiting time, `LifecycleInv` is inductive:
`TypeOK /\ IdsTrue /\ CalloutProgress /\ EngineProgress /\ QueueProgress /\
FilterProgress /\ RunningRegistered`. The four `Progress` parts say, for each step
of load and unload, which of the callouts are registered, whether there is a device
and an engine session, in what state the queues are, and where the filters are.
`NothingLeftCorrect` and `FiltersBackedCorrect` are read off them at the steps where a
routine ends; `IdsTrue` is needed because `Cleanup` goes by the ids.
`RunningRegistered` (a running call has its callout registered) gives the action
property `HandlesStableCorrect`: the handles change only after all callouts are gone.

`ClassifyProofs`: for any packets, EtherTypes and missing handles, `ClassifyInv` is
`TypeOK /\ Single /\ HistoryTold /\ TakenOnce /\ DataStartKept`. `Single` is the
inductive form of `OneVersion` (a packet has one version exactly or is lost);
`HistoryTold` says that a version that was queued or cut carries the handle that
tells so, which is why the callouts recognise it and `TakenOnce` is kept.

`PacketSplitProofs`: for any lists of packets, limits, padding, and `Calls` whose
packets are as long as their headers say and at most `LongestPacket`. `SplitInv` is
`Shape /\ Place /\ Kept /\ Tiling /\ Complete`. `Place` has the loop invariants:
after `i` fragments `remain` is the payload less `i` times the payload of a
fragment (`Cutting`), and the pieces end where the payload that remains begins
(`Within`), or with the packet before (`Before`). `Pieces_of` is the arithmetic of
`MaxFragmentNum`; `FirstFits` shows that a limit that wrapped cannot have had its
first fragment copied. `PieceInv` adds that each piece is good on its own
(`PiecesGood`), and that once a first fragment was made a header and a full
fragment are within the MTU (`Limited`). From these follow `TilingCorrect`,
`CompleteCorrect`, `FragmentHeadersCorrect`, `PieceFitsCorrect`,
`SequenceContinuesCorrect` (with `SeqAdds`, that 32-bit addition in two words is
associative), `OnlySegmentsStayCorrect` (`Kept` says at which steps which memory is
taken) and the action property `LoopsEndCorrect`. Three of them say less than one
might wish, because the code does: `CompleteCorrect` is about the packets a routine
looks at (`LastPacket`), `PieceFitsCorrect` allows the first fragment of a list its
padding beyond the MTU, `LoopsEndCorrect` says of an MSS of 0 that a pass changes nothing.
`DataInv` adds to `PieceInv` the types that are left (`Loose`, and that `pieces` is in
`Seq(Pieces)`) and that the checksum of every piece is good (`SumsGood`); from it
follow `TypeCorrect` and `ChecksumsVerifyCorrect`. The argument about the checksums:
folding the carries of a sum back in leaves `Folded`, the remainder of 65535 with
65535 in place of 0 (`FoldIsFolded`, by a least counterexample, as one round makes
the sum smaller and keeps its remainder); the complement of that, added in, makes
all ones (`HeaderVerifies`, `SegmentVerifies`). The receiver of a segment takes the TCP
length from the bytes that arrived (`Arrived`); by the total length in the IP header
it would be wrong, which is finding 5. `csum` adds up words read by a
little-endian machine, the receiver those of the network: 256 times the one sum
is the other up to a multiple of 65535 (`SumsSwap`, by induction over the loop, with
`BytesSwap` for the words of a segment and an odd byte at its end).

`ServiceControlProofs`: for any number of dialogs and prompts, any commands,
profiles and numbers of polls, `HandlesClosedCorrect` from `HandlesInv`, which says
of each tool at which steps it may hold which handle.
`FileBehindServiceCorrect` from `FileInv` (with `HandlesInv`), which says of a dialog
between deleting the service and deleting its file that no service is
registered from the file. It has the hypothesis that there is one dialog: two
at once use the same `winShaper.sys`, and one that closes may delete the file the
other has just extracted and registered.

`ServiceControlDataProofs`, without a hypothesis on the number of dialogs: `ToolsInv` is
`HandlesInv /\ ToolInv /\ DataTypes /\ SettingsInv /\ ShownInv`.

- `ToolInv` says of each tool what it is doing (`ToolFine`): only a job that may ask
  the driver for something comes to a request, only a command whose options were all
  understood is carried out, and a loop counts below its bound. With `DataTypes` it
  gives `TypeCorrect`.
- `SettingsInv`: while the driver shapes, its parameters are those of the job that was
  carried out last. `SettingsMeantCorrect` needs in addition what the parsing of a
  command makes of its options: `CommandMeant`, by induction over the options
  (`SettingsAreRun`), says that the latencies are the halves of the last `rtt`,
  whatever the other options and their order.
- `ShownInv` says of a dialog that has not lost touch that it shows "enabled" only
  while it holds the device, that it agrees with the driver if it spoke to it last,
  and that within its handlers the box is already cleared when the handle is closed.
  The first part is what keeps the driver from being unloaded behind it
  (`ShownService`); `ShownIsShapedCorrect` is `ShownInv` at rest.

Only model-checked:

- liveness (`QueuedLeaves`, `CallReturns`, `TimerStops`, `RoutinesReturn`, `Arrives`,
  `ToolsReturn`): liveness and `ENABLED` are outside what the prover does;
- the five violations of section 6, which are counterexamples of the instances.

## 6. Where the code and its texts disagree

1. `packet_queue.c:184`: `ShaperEnable` zeroes `queued_bytes` with packets in the
   queue; their removal makes it wrap, and the buffer test then drops packets
   though the queue is empty (`packet_queue.c:67`, `interface.h:23` say it is the
   size of what is queued). Run `reenable`.
2. `packet_queue.c:501`: the buffer test is not under the lock of the insert, so
   calls on two processors exceed the buffer (`interface.h:17`). Run `overflow`.
3. `packet_queue.c:307`: below 8 kbit/s the credit for a millisecond is truncated
   to nothing, run after run, and a packet longer than the credit at hand never
   leaves (`packet_queue.c:46`). Run `slow`.
4. `wdm_driver.c:118`: the `if` has no braces; the driver loads although its timer
   could not be created (`README.md:44` of the repository). Run `driver_braces`.
5. `IP_callout.c:427` and `453`: `updateIPHeader` is commented out, and a TCP segment
   keeps the IP total length and the header checksum of the packet it was cut from
   (`README.md:74` of the repository says each segment gets its own). Run
   `segment_length`.

Seen while modelling, stated by a property as what the code does or by none:

- `ipfragment.c:469-471`: the first fragment of a list is padded up to 0x32 bytes
  beyond the custom MTU, which `README.md:68` of the repository says the padding
  respects. `PieceFits` has this excess in it (`Excess`).
- `IP_callout.c:323`, `83-87`: the packets behind the first of a list are lost
  (`Complete`).
- `IP_callout.c:309`: an MSS of 0 makes a loop that nothing but a failure ends (`LoopsEnd`).
- `IP_callout.c:398`, `406`: NET_BUFFERs and MDLs that nothing frees (`OnlySegmentsStay`).
- `ipfragment.c:598-606`: two bytes of a frame that is not IPv4 are overwritten; no
  property.
- `packet_queue.c:564`: a permitted outbound packet is added to a local variable
  instead of `outPackets` (`CountPermitted`); no property is about the statistics.

## 7. What is not modelled

- Bytes in the statistics, the metadata of a re-injected packet, and the contents
  of packets: they do not influence the control of the queues. What happens to
  the data offset of a packet, and which handle it is given, is left to
  `Classify`.
- `GET_STATUS` and `GET_STATS`, which read without a lock and change nothing; the
  control codes IPF, TCPF and MACP, which `EvtDeviceIOCtl` does not handle.
- The order in which two workers inject packets they have taken off the list:
  the code promises none.
- A timer DPC or a late insert while `Cleanup` destroys handles and callouts:
  `DriverLifecycle` has no timer DPCs, `PacketQueue` no handles.
- The arithmetic of the shaper at real clock frequencies and in 64 bits: TLC's
  integers have 32. The operators are in `PacketQueue`, at 1 kHz.
- Concurrent calls of the cutting routines, which share globals
  (`DataPoolforMdl`, the statistics): they are not built, and nothing in the
  repository calls `ipfragment.c`'s.
- Inbound lists of several NET_BUFFERs, of which `ShaperQueuePacket` moves the data
  start of the first only.
- Custom profiles (`CustomProfiles*.cpp`): the class does not compile as it is (a
  static function defined inside the constructor, lines 17-19; an undeclared
  variable in `Save`, lines 37-39), so that what it does cannot be read from it.
- Two dialogs at once in the run `tools`, see section 5.
- Trace and protocol headers, resources, project files, generated window code:
  constants and layout.
