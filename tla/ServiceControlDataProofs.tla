----------------------- MODULE ServiceControlDataProofs -----------------------
(***************************************************************************)
(* More proofs about ServiceControl, for any commands, profiles and numbers *)
(* of polls: the parameters in force are those that were asked for, and a  *)
(* dialog that has not lost touch shows what the driver does.              *)
(***************************************************************************)
EXTENDS ServiceControlProofs, FoldProofs

----------------------------------------------------------------------------
(* What the options of a set command make of the parameters: the two        *)
(* latencies are the halves of the last rtt option.                         *)
OptionNames ==
  {"rtt", "plr", "inBps", "outBps", "inBufferBytes", "outBufferBytes"}
Options == OptionNames \X Nat
Parameters ==
  [plr : Nat, inBps : Nat, outBps : Nat, inLatency : Nat, outLatency : Nat,
   inBufferBytes : Nat, outBufferBytes : Nat]

HalvesOf(s, rtt) ==
  /\ s.inLatency + s.outLatency = rtt
  /\ s.inLatency - s.outLatency \in {0, 1}

LEMMA HalvesAre ==
  ASSUME NEW rtt \in Nat
  PROVE  /\ rtt \div 2 \in Nat /\ rtt % 2 \in {0, 1}
         /\ rtt = 2 * (rtt \div 2) + (rtt % 2)
<1>1. 2 \in Nat \ {0} /\ rtt \in Int
  OBVIOUS
<1>2. /\ rtt \div 2 \in Int /\ rtt % 2 \in 0..2-1
      /\ rtt = 2 * (rtt \div 2) + (rtt % 2)
  BY <1>1, DivMod
<1> QED
  BY <1>2

LEMMA OptionTypes ==
  ASSUME NEW s \in Parameters, NEW o \in Options
  PROVE  /\ Option(s, o) \in Parameters
         /\ o[1] = "rtt" => HalvesOf(Option(s, o), o[2])
         /\ o[1] # "rtt" => /\ Option(s, o).inLatency = s.inLatency
                            /\ Option(s, o).outLatency = s.outLatency
<1>1. o[1] \in OptionNames /\ o[2] \in Nat
  BY DEF Options
<1>2. CASE o[1] = "rtt"
  <2> DEFINE h == o[2] \div 2
             r == o[2] % 2
  <2>1. h \in Nat /\ r \in {0, 1} /\ o[2] = 2 * h + r
    BY <1>1, HalvesAre
  <2>2. Option(s, o) = [s EXCEPT !.inLatency = h + r, !.outLatency = h]
    BY <1>2 DEF Option, Halves
  <2> HIDE DEF h, r
  <2>3. Option(s, o) \in Parameters
    <3>1. \A a, b \in Nat :
            [s EXCEPT !.inLatency = a, !.outLatency = b] \in Parameters
      BY DEF Parameters
    <3>2. h + r \in Nat
      BY <2>1
    <3> QED
      BY <2>1, <2>2, <3>1, <3>2
  <2>4. Option(s, o).inLatency = h + r /\ Option(s, o).outLatency = h
    BY <2>2 DEF Parameters
  <2>5. HalvesOf(Option(s, o), o[2])
    BY <2>1, <2>4 DEF HalvesOf
  <2> QED
    BY <1>2, <2>3, <2>5
<1>3. CASE o[1] = "plr"
  <2>1. (100 * o[2]) % 65536 \in Nat
    BY <1>1
  <2>2. Option(s, o) = [s EXCEPT !.plr = (100 * o[2]) % 65536]
    BY <1>3 DEF Option
  <2> QED
    BY <1>3, <2>1, <2>2 DEF Parameters
<1>4. ASSUME NEW n \in OptionNames \ {"rtt", "plr"}, o[1] = n
      PROVE  /\ Option(s, o) \in Parameters
             /\ Option(s, o).inLatency = s.inLatency
             /\ Option(s, o).outLatency = s.outLatency
  <2>1. Option(s, o) = [s EXCEPT ![n] = o[2]]
    BY <1>4 DEF Option, OptionNames
  <2> QED
    BY <1>1, <2>1 DEF Parameters, OptionNames
<1> QED
  BY <1>1, <1>2, <1>3, <1>4

\* The parameters after each of the options.
IsSettingsRun(u, options) ==
  /\ u[0] = DefaultSettings
  /\ \A k \in 1..Len(options) : u[k] = Option(u[k - 1], options[k])

LEMMA SettingsAreRun ==
  ASSUME NEW options \in Seq(Options)
  PROVE  \E u : /\ IsSettingsRun(u, options)
                /\ CommandSettings(options) = u[Len(options)]
<1> DEFINE m == Len(options)
           F == [x \in Parameters \X Options |-> Option(x[1], x[2])]
           Rec(g) == g = [s \in SUBSET DOMAIN options |->
                            IF s = {} THEN DefaultSettings
                            ELSE LET x == Max(s)
                                 IN Option(g[s \ {x}], options[x])]
           it == CHOOSE g : Rec(g)
           u == [k \in 0..m |-> it[1..k]]
<1>1. CommandSettings(options) = it[DOMAIN options]
  BY DEF CommandSettings, FoldLeft, MapThenFoldSet
<1>2. m \in Nat /\ DOMAIN options = 1..m /\ options \in [1..m -> Options]
  OBVIOUS
<1> HIDE DEF m
<1>3. F \in [Parameters \X Options -> Parameters]
  BY OptionTypes
<1>b. DefaultSettings \in Parameters
  BY DEF DefaultSettings, Parameters
<1>f. \A a \in Parameters, o \in Options : F[<<a, o>>] = Option(a, o)
  OBVIOUS
<1> HIDE DEF F
<1>4. PICK g \in [SUBSET (1..m) -> Parameters] :
        IsFold(g, m, options, F, DefaultSettings)
  BY <1>2, <1>3, <1>b, FoldExists DEF HasFold
<1>5. Rec(g)
  <2>1. ASSUME NEW s \in SUBSET (1..m), s # {}
        PROVE  F[<<g[s \ {Max(s)}], options[Max(s)]>>]
                 = Option(g[s \ {Max(s)}], options[Max(s)])
    <3>1. Max(s) \in 1..m /\ s \ {Max(s)} \in SUBSET (1..m)
      BY <1>2, <2>1, MaxIsElement
    <3>2. options[Max(s)] \in Options /\ g[s \ {Max(s)}] \in Parameters
      BY <1>2, <3>1
    <3> QED
      BY <3>2, <1>f
  <2> QED
    BY <1>2, <1>4, <2>1 DEF IsFold
<1>6. Rec(it)
  BY <1>5
<1> HIDE DEF it
<1>7. /\ it[{}] = DefaultSettings
      /\ \A s \in SUBSET (1..m) : s # {} =>
           it[s] = Option(it[s \ {Max(s)}], options[Max(s)])
  BY <1>2, <1>6
<1>8. u[0] = DefaultSettings
  <2>1. 1..0 = {}
    OBVIOUS
  <2> QED
    BY <1>2, <1>7, <2>1
<1>9. ASSUME NEW k \in 1..m PROVE u[k] = Option(u[k - 1], options[k])
  <2>1. k \in 0..m /\ k - 1 \in 0..m
    BY <1>2
  <2>2. u[k] = it[1..k] /\ u[k - 1] = it[1..(k - 1)]
    BY <2>1
  <2>3. /\ 1..k \in SUBSET (1..m) /\ 1..k # {}
        /\ Max(1..k) = k /\ (1..k) \ {k} = 1..(k - 1)
    BY <1>2, InitialIndices
  <2>4. it[1..k] = Option(it[(1..k) \ {k}], options[k])
    BY <1>7, <2>3
  <2> QED
    BY <2>2, <2>3, <2>4
<1>10. u[m] = it[DOMAIN options]
  BY <1>2
<1>11. IsSettingsRun(u, options)
  BY <1>8, <1>9 DEF IsSettingsRun, m
<1> HIDE DEF u
<1> QED
  BY <1>1, <1>10, <1>11 DEF m

\* The last round-trip time among the first k options.
LastRtt(options, k) ==
  LET rtts == {i \in 1..k : options[i][1] = "rtt"}
  IN  IF rtts = {} THEN 0 ELSE options[Max(rtts)][2]

LEMMA CommandMeant ==
  ASSUME NEW options \in Seq(Options)
  PROVE  /\ CommandSettings(options) \in Parameters
         /\ HalvesOf(CommandSettings(options), LastRtt(options, Len(options)))
<1> DEFINE m == Len(options)
<1>1. PICK u : IsSettingsRun(u, options) /\ CommandSettings(options) = u[m]
  BY SettingsAreRun
<1>m. m \in Nat /\ \A k \in 1..m : options[k] \in Options
  OBVIOUS
<1> DEFINE P == {k \in Nat : k <= m => /\ u[k] \in Parameters
                                       /\ HalvesOf(u[k], LastRtt(options, k))}
<1>2. 0 \in P
  <2>1. u[0] = DefaultSettings /\ DefaultSettings \in Parameters
    BY <1>1 DEF IsSettingsRun, DefaultSettings, Parameters
  <2>2. 1..0 = {}
    OBVIOUS
  <2>3. LastRtt(options, 0) = 0
    BY <2>2 DEF LastRtt
  <2>4. HalvesOf(u[0], 0)
    BY <2>1 DEF HalvesOf, DefaultSettings
  <2> QED
    BY <2>1, <2>3, <2>4
<1>3. ASSUME NEW k \in P, k < m PROVE k + 1 \in P
  <2> DEFINE o == options[k + 1]
             rtts == {i \in 1..k+1 : options[i][1] = "rtt"}
  <2>1. /\ k \in Nat /\ k + 1 \in 1..m /\ k + 1 - 1 = k
        /\ u[k] \in Parameters /\ HalvesOf(u[k], LastRtt(options, k))
    BY <1>3
  <2>2. u[k + 1] = Option(u[k], o) /\ o \in Options
    BY <1>1, <1>m, <2>1 DEF IsSettingsRun
  <2>3. u[k + 1] \in Parameters
    BY <2>1, <2>2, OptionTypes
  <2>4. CASE o[1] = "rtt"
    <3>1. k + 1 \in rtts /\ rtts \in SUBSET (1..k+1)
      BY <2>1, <2>4
    <3>2. Max(rtts) = k + 1
      BY <2>1, <3>1, MaxOfSubset
    <3>3. LastRtt(options, k + 1) = o[2]
      BY <3>1, <3>2 DEF LastRtt
    <3>4. HalvesOf(u[k + 1], o[2])
      BY <2>1, <2>2, <2>4, OptionTypes
    <3> QED
      BY <2>1, <2>3, <3>3, <3>4
  <2>5. CASE o[1] # "rtt"
    <3>1. rtts = {i \in 1..k : options[i][1] = "rtt"}
      BY <2>1, <2>5
    <3>2. LastRtt(options, k + 1) = LastRtt(options, k)
      BY <3>1 DEF LastRtt
    <3>3. /\ u[k + 1].inLatency = u[k].inLatency
          /\ u[k + 1].outLatency = u[k].outLatency
      BY <2>1, <2>2, <2>5, OptionTypes
    <3>4. HalvesOf(u[k + 1], LastRtt(options, k + 1))
      BY <2>1, <3>2, <3>3 DEF HalvesOf
    <3> QED
      BY <2>1, <2>3, <3>4
  <2> QED
    BY <2>4, <2>5
<1>4. P \in SUBSET Nat
  OBVIOUS
<1> HIDE DEF P
<1>5. \A k \in 0..m : k \in P
  BY <1>m, <1>2, <1>3, <1>4, InductionUpTo
<1> QED
  BY <1>1, <1>m, <1>5 DEF P

LEMMA ProfileMeant ==
  ASSUME NEW f, f.rtt \in Nat
  PROVE  /\ DOMAIN ProfileSettings(f) = DOMAIN DefaultSettings
         /\ HalvesOf(ProfileSettings(f), f.rtt)
<1> DEFINE h == f.rtt \div 2
           r == f.rtt % 2
<1>1. h \in Nat /\ r \in {0, 1} /\ f.rtt = 2 * h + r
  BY HalvesAre
<1>2. ProfileSettings(f) =
        [DefaultSettings EXCEPT !.inBps = f.bps, !.inLatency = h + r,
                                !.outLatency = h]
  BY DEF ProfileSettings, Halves
<1> HIDE DEF h, r
<1>3. /\ DOMAIN ProfileSettings(f) = DOMAIN DefaultSettings
      /\ ProfileSettings(f).inLatency = h + r
      /\ ProfileSettings(f).outLatency = h
  BY <1>2 DEF DefaultSettings
<1> QED
  BY <1>1, <1>3 DEF HalvesOf

----------------------------------------------------------------------------
(* What each tool is doing: a dialog enables for one of the profiles, a     *)
(* command carries out one that was understood; only a job that may ask the *)
(* driver for something comes to a request; and a loop counts its polls.    *)
JobKind(p, j) ==
  \/ /\ p \in Dialogs
     /\ \/ j = <<"disable", <<>>>> \/ j = <<"close", <<>>>>
        \/ \E f \in Profiles : j = <<"enable", f>>
  \/ /\ p \in Shells
     /\ j \in Commands
     /\ j[1] = "set" => Understood(j[2])

Resting(s) == s \in {"idle", "closed"}

ToolFine(p, s, j, n, connected) ==
  /\ s \in Steps
  /\ IF Resting(s) THEN j = None ELSE JobKind(p, j)
  /\ s \in {"open", "reopen", "request"} => j[1] \in {"set", "reset", "enable"}
  /\ s = "request" => connected
  /\ s = "disable" => p \in Dialogs
  /\ n \in Nat
  /\ s \notin {"stop_wait", "start_wait"} => n = 0
  /\ s = "stop_wait" => n < MaxStop[p]
  /\ s = "start_wait" => n < MaxStart

ToolInv ==
  /\ ToolTypes /\ step \in [Tools -> Steps] /\ count \in [Tools -> Nat]
  /\ \A p \in Tools : ToolFine(p, step[p], job[p], count[p], p \in device)

LEMMA JobIsSomething ==
  ASSUME NEW p, NEW j, JobKind(p, j)
  PROVE  j # None /\ j[1] # "none"
  BY ControlAssumption DEF JobKind, None

LEMMA OneToolFine ==
  ASSUME ToolInv, NEW p \in Tools, NEW s, NEW j, Goes(p, s, j),
         NEW n, count' = [count EXCEPT ![p] = n],
         opened' \subseteq Tools, device' \subseteq Tools,
         device' \ {p} = device \ {p},
         ToolFine(p, s, j, n, p \in device')
  PROVE  ToolInv'
<1>1. ToolTypes' /\ step' \in [Tools -> Steps] /\ count' \in [Tools -> Nat]
  BY DEF ToolInv, ToolTypes, Goes, ToolFine
<1>2. ToolFine(p, step[p], job[p], count[p], p \in device)'
  BY <1>1 DEF ToolInv, Goes, ToolFine
<1>3. ASSUME NEW q \in Tools \ {p}
      PROVE  ToolFine(q, step[q], job[q], count[q], q \in device)'
  <2>1. /\ step'[q] = step[q] /\ job'[q] = job[q] /\ count'[q] = count[q]
        /\ q \in device' <=> q \in device
    BY DEF Goes, ToolInv
  <2>2. ToolFine(q, step[q], job[q], count[q], q \in device)
    BY DEF ToolInv
  <2> QED
    BY <2>1, <2>2 DEF ToolFine
<1> QED
  BY <1>1, <1>2, <1>3 DEF ToolInv

(* What is known of a tool at a step; and where it may go without polling.  *)
LEMMA FineFacts ==
  ASSUME ToolInv, NEW p \in Tools
  PROVE  /\ ToolTypes /\ ToolFine(p, step[p], job[p], count[p], p \in device)
         /\ count[p] \in Nat /\ count \in [Tools -> Nat]
         /\ MaxStart \in Nat \ {0} /\ MaxStop[p] \in Nat \ {0}
         /\ [count EXCEPT ![p] = count[p]] = count
         /\ [step EXCEPT ![p] = step[p]] = step
  BY ControlAssumption DEF ToolInv

LEMMA GoesOn ==
  ASSUME ToolInv, NEW p \in Tools, ~Resting(step[p]),
         NEW s, NEW j, Goes(p, s, j),
         \/ s = "idle" /\ j = None
         \/ /\ s \in Steps \ {"idle", "closed", "stop_wait", "start_wait"}
            /\ j = job[p]
            /\ s \in {"open", "reopen", "request"} =>
                 j[1] \in {"set", "reset", "enable"}
            /\ s = "request" => p \in device'
            /\ s # "disable",
         count' = [count EXCEPT ![p] = 0],
         opened' \subseteq Tools, device' \subseteq Tools,
         device' \ {p} = device \ {p}
  PROVE  ToolInv'
<1>1. ToolFine(p, s, j, 0, p \in device')
  BY FineFacts DEF ToolFine, Steps, Resting
<1> QED
  BY <1>1, OneToolFine

Quietly(p) ==
  /\ ~Resting(step[p])
  /\ count' = [count EXCEPT ![p] = 0]
  /\ opened' \subseteq Tools /\ device' \subseteq Tools
  /\ device' \ {p} = device \ {p}

(* The routines that a job leads to one after the other.                    *)
LEMMA FineStop ==
  ASSUME ToolInv, NEW p \in Tools, Stop(p) \/ ControlStop(p) \/ WaitStopped(p)
  PROVE  ToolInv'
<1> USE FineFacts, Ways DEF Steps, Resting
<1>1. ASSUME NEW ok \in BOOLEAN, AfterStop(p, ok), Quietly(p) PROVE ToolInv'
  BY <1>1, WayAfterStop, GoesOn DEF Quietly
<1>2. CASE Stop(p)
  <2>1. /\ step[p] = "stop" /\ device' = device /\ count' = count
        /\ opened' \subseteq Tools
    BY <1>2 DEF Stop, OpenService, ToolTypes
  <2>2. Quietly(p)
    BY <2>1 DEF Quietly, ToolFine, ToolTypes
  <2>3. CASE GoTo(p, "stop_call")
    BY <2>1, <2>2, <2>3, GoesOn DEF Quietly
  <2> QED
    BY <1>2, <1>1, <2>2, <2>3 DEF Stop
<1>3. CASE ControlStop(p)
  <2>1. /\ step[p] = "stop_call" /\ device' = device /\ count' = count
        /\ opened' \subseteq Tools
    BY <1>3 DEF ControlStop, CloseServiceHandle, ToolTypes
  <2>2. Quietly(p)
    BY <2>1 DEF Quietly, ToolFine, ToolTypes
  <2>3. CASE GoTo(p, "stop_wait")
    <3>1. ToolFine(p, "stop_wait", job[p], 0, p \in device')
      BY <2>1 DEF ToolFine
    <3> QED
      BY <2>2, <2>3, <3>1, OneToolFine DEF Quietly
  <2> QED
    BY <1>3, <1>1, <2>2, <2>3 DEF ControlStop
<1>4. CASE WaitStopped(p)
  <2>1. step[p] = "stop_wait" /\ device' = device /\ opened' \subseteq Tools
    BY <1>4 DEF WaitStopped, CloseServiceHandle, ToolTypes, scm
  <2>2. CASE /\ CountUp(count[p]) < MaxStop[p]
             /\ count' = [count EXCEPT ![p] = CountUp(count[p])]
             /\ UNCHANGED <<job, step>>
    <3>1. Goes(p, "stop_wait", job[p])
      BY <2>1, <2>2 DEF Goes, ToolTypes
    <3>2. CountUp(count[p]) \in Nat
      BY DEF CountUp
    <3>3. ToolFine(p, "stop_wait", job[p], CountUp(count[p]), p \in device')
      BY <2>1, <2>2, <3>2 DEF ToolFine
    <3> QED
      BY <2>1, <2>2, <3>1, <3>3, OneToolFine DEF ToolTypes
  <2>3. CASE /\ \E ok \in BOOLEAN : AfterStop(p, ok)
             /\ count' = [count EXCEPT ![p] = 0]
    <3>1. Quietly(p)
      BY <2>1, <2>3 DEF Quietly, ToolTypes
    <3> QED
      BY <1>1, <2>3, <3>1
  <2> QED
    BY <1>4, <2>2, <2>3 DEF WaitStopped, PollsLeft
<1> QED
  BY <1>2, <1>3, <1>4

\* Start is followed by a request only in the jobs that make one.
LEMMA WayAfterStartJob ==
  ASSUME ToolTypes, NEW p \in Tools, NEW ok \in BOOLEAN, AfterStart(p, ok)
  PROVE  \/ Goes(p, "reopen", job[p]) /\ job[p][1] = "set"
         \/ Goes(p, "open", job[p]) /\ job[p][1] = "enable"
         \/ Goes(p, "idle", None)
  BY Ways DEF AfterStart

LEMMA FineStart ==
  ASSUME ToolInv, NEW p \in Tools, Start(p) \/ StartService(p) \/ WaitStarted(p)
  PROVE  ToolInv'
<1> USE FineFacts, Ways DEF Steps, Resting
<1>1. ASSUME NEW ok \in BOOLEAN, AfterStart(p, ok), Quietly(p) PROVE ToolInv'
  <2>1. CASE Goes(p, "idle", None)
    BY <1>1, <2>1, GoesOn DEF Quietly
  <2>2. ASSUME NEW s \in {"reopen", "open"}, Goes(p, s, job[p]),
               job[p][1] \in {"set", "enable"}
        PROVE  ToolInv'
    BY <1>1, <2>2, GoesOn DEF Quietly
  <2> QED
    BY <1>1, <2>1, <2>2, WayAfterStartJob
<1>2. CASE Start(p)
  <2>1. /\ step[p] = "start" /\ device' = device /\ count' = count
        /\ opened' \subseteq Tools
    BY <1>2 DEF Start, OpenService, ToolTypes
  <2>2. Quietly(p)
    BY <2>1 DEF Quietly, ToolFine, ToolTypes
  <2>3. CASE GoTo(p, "start_call")
    BY <2>1, <2>2, <2>3, GoesOn DEF Quietly
  <2> QED
    BY <1>2, <1>1, <2>2, <2>3 DEF Start
<1>3. CASE StartService(p)
  <2>1. /\ step[p] = "start_call" /\ device' = device /\ count' = count
        /\ opened' \subseteq Tools
    BY <1>3 DEF StartService, CloseServiceHandle, ToolTypes
  <2>2. Quietly(p)
    BY <2>1 DEF Quietly, ToolFine, ToolTypes
  <2>3. CASE GoTo(p, "start_wait")
    <3>1. ToolFine(p, "start_wait", job[p], 0, p \in device')
      BY <2>1 DEF ToolFine
    <3> QED
      BY <2>2, <2>3, <3>1, OneToolFine DEF Quietly
  <2> QED
    BY <1>3, <1>1, <2>2, <2>3 DEF StartService
<1>4. CASE WaitStarted(p)
  <2>1. step[p] = "start_wait" /\ device' = device /\ opened' \subseteq Tools
    BY <1>4 DEF WaitStarted, CloseServiceHandle, ToolTypes, scm
  <2>2. CASE /\ CountUp(count[p]) < MaxStart
             /\ count' = [count EXCEPT ![p] = CountUp(count[p])]
             /\ UNCHANGED <<job, step>>
    <3>1. Goes(p, "start_wait", job[p])
      BY <2>1, <2>2 DEF Goes, ToolTypes
    <3>2. CountUp(count[p]) \in Nat
      BY DEF CountUp
    <3>3. ToolFine(p, "start_wait", job[p], CountUp(count[p]), p \in device')
      BY <2>1, <2>2, <3>2 DEF ToolFine
    <3> QED
      BY <2>1, <2>2, <3>1, <3>3, OneToolFine DEF ToolTypes
  <2>3. CASE /\ \E ok \in BOOLEAN : AfterStart(p, ok)
             /\ count' = [count EXCEPT ![p] = 0]
    <3>1. Quietly(p)
      BY <2>1, <2>3 DEF Quietly, ToolTypes
    <3> QED
      BY <1>1, <2>3, <3>1
  <2> QED
    BY <1>4, <2>2, <2>3 DEF WaitStarted, PollsLeft
<1> QED
  BY <1>2, <1>3, <1>4

LEMMA FineInstall ==
  ASSUME ToolInv, NEW p \in Tools,
         \/ DeleteService(p) \/ DeleteDriverFile(p) \/ Install(p)
         \/ ExtractDriver(p) \/ CreateService(p)
  PROVE  ToolInv'
<1> USE FineFacts, Ways DEF Steps, Resting
<1>1. /\ step[p] \in {"delete", "unlink", "install", "extract", "create"}
      /\ device' = device /\ opened' = opened /\ count' = count
  BY DEF DeleteService, DeleteDriverFile, Install, ExtractDriver, CreateService,
     scm
<1>2. Quietly(p)
  BY <1>1 DEF Quietly, ToolFine, ToolTypes
<1>3. CASE Closed(p)
  <2>1. ToolFine(p, "closed", None, 0, p \in device')
    BY DEF ToolFine
  <2> QED
    BY <1>2, <1>3, <2>1, OneToolFine DEF Quietly
<1>4. CASE \/ Finish(p) \/ AfterDelete(p)
           \/ \E s \in {"extract", "create", "start"} : GoTo(p, s)
  <2>1. \/ Goes(p, "idle", None)
        \/ \E s \in {"unlink", "install", "extract", "create", "start"} :
             Goes(p, s, job[p])
    BY <1>4, WayAfterDelete
  <2> QED
    BY <1>2, <2>1, GoesOn DEF Quietly
<1> QED
  BY <1>3, <1>4
     DEF DeleteService, DeleteDriverFile, Install, ExtractDriver, CreateService

LEMMA FineRequest ==
  ASSUME ToolInv, NEW p \in Tools,
         OpenDriver(p) \/ Request(p) \/ Disable(p) \/ CloseHandle(p)
  PROVE  ToolInv'
<1> USE FineFacts, Ways DEF Steps, Resting
<1>1. /\ step[p] \in {"open", "reopen", "request", "disable", "close_handle"}
      /\ opened' = opened /\ count' = count
      /\ device' \subseteq Tools /\ device' \ {p} = device \ {p}
  BY DEF OpenDriver, Request, Disable, CloseHandle, scm, ToolTypes
<1>2. Quietly(p)
  BY <1>1 DEF Quietly, ToolFine, ToolTypes
<1>3. CASE /\ GoTo(p, "request") /\ p \in device'
           /\ step[p] \in {"open", "reopen"}
  BY <1>2, <1>3, GoesOn DEF Quietly, ToolFine
<1>4. CASE \/ Finish(p) \/ \E ok \in BOOLEAN : AfterRequest(p, ok)
           \/ \E s \in {"start", "stop", "close_handle"} : GoTo(p, s)
  <2>1. \/ Goes(p, "idle", None)
        \/ \E s \in {"start", "stop", "close_handle"} : Goes(p, s, job[p])
    BY <1>4, WayAfterRequest
  <2> QED
    BY <1>2, <2>1, GoesOn DEF Quietly
<1> QED
  BY <1>3, <1>4 DEF OpenDriver, Request, Disable, CloseHandle

LEMMA FineTake ==
  ASSUME ToolInv, NEW p \in Tools,
         main(p) \/ OnBnClickedEnable(p) \/ OnClose(p) \/ Launch(p) \/ Kill(p)
  PROVE  ToolInv'
<1> USE FineFacts, Ways DEF Steps, Resting
<1>1. ASSUME NEW c, Take(p, c),
             c[1] = "set" /\ Understood(c[2]) => JobKind(p, c),
             c[1] # "set" => JobKind(p, c),
             c[1] \in {"install", "remove", "set", "reset",
                       "enable", "disable", "close"}
      PROVE  ToolInv'
  <2>1. /\ step[p] = "idle" /\ opened' = opened /\ device' = device
        /\ count' = count /\ FirstStep(c) # "idle"
        /\ Goes(p, FirstStep(c), c)
    BY <1>1 DEF Take, scm, ToolTypes, Goes
  <2>2. /\ FirstStep(c) \in {"stop", "open", "install", "disable"}
        /\ FirstStep(c) = "disable" => c[1] \in {"disable", "close"}
        /\ FirstStep(c) = "open" => c[1] \in {"set", "reset", "enable"}
        /\ c[1] = "set" => Understood(c[2])
    BY <1>1, <2>1 DEF FirstStep
  <2>3. JobKind(p, c)
    BY <1>1, <2>2
  <2>4. c[1] \in {"disable", "close"} => p \in Dialogs
    BY <2>3, ControlAssumption DEF JobKind
  <2>5. ToolFine(p, FirstStep(c), c, 0, p \in device') /\ count[p] = 0
    BY <2>1, <2>2, <2>3, <2>4 DEF ToolFine
  <2> QED
    BY <2>1, <2>5, OneToolFine DEF ToolTypes
<1>2. CASE main(p)
  <2>1. PICK c \in Commands : Take(p, c) /\ p \in Shells
    BY <1>2 DEF main
  <2> QED
    BY <1>1, <2>1, ControlAssumption DEF JobKind
<1>3. CASE OnBnClickedEnable(p)
  <2>1. /\ p \in Dialogs
        /\ \/ Take(p, <<"disable", <<>>>>)
           \/ \E f \in Profiles : Take(p, <<"enable", f>>)
    BY <1>3 DEF OnBnClickedEnable
  <2> QED
    BY <1>1, <2>1 DEF JobKind
<1>4. CASE OnClose(p)
  BY <1>1, <1>4 DEF OnClose, JobKind
<1>5. CASE Launch(p)
  <2>1. /\ step[p] = "closed" /\ opened' = opened /\ device' = device
        /\ GoTo(p, "idle") /\ count' = count
    BY <1>5 DEF Launch, scm
  <2>2. ToolFine(p, "idle", job[p], 0, p \in device') /\ count[p] = 0
    BY <2>1 DEF ToolFine
  <2> QED
    BY <2>1, <2>2, OneToolFine DEF ToolTypes
<1>6. CASE Kill(p)
  <2>1. /\ opened' \subseteq Tools /\ device' = device \ {p}
        /\ count' = [count EXCEPT ![p] = 0]
        /\ Closed(p) \/ Finish(p)
    BY <1>6 DEF Kill, CloseServiceHandle, ToolTypes
  <2>2. \A s \in {"idle", "closed"} : ToolFine(p, s, None, 0, p \in device')
    BY DEF ToolFine
  <2>3. device' \subseteq Tools /\ device' \ {p} = device \ {p}
    BY <2>1 DEF ToolTypes
  <2> QED
    BY <2>1, <2>2, <2>3, OneToolFine
<1> QED
  BY <1>2, <1>3, <1>4, <1>5, <1>6

LEMMA ToolStep ==
  ASSUME ToolInv, [Next]_vars
  PROVE  ToolInv'
<1>1. ASSUME NEW p \in Tools, Step(p) PROVE ToolInv'
  BY <1>1, FineStop, FineStart, FineInstall, FineRequest DEF Step
<1>2. CASE StartEnds \/ StopEnds \/ UNCHANGED vars
  <2>1. UNCHANGED <<opened, device, job, step, count>>
    BY <1>2 DEF StartEnds, StopEnds, vars, scm, tool
  <2> QED
    BY <2>1 DEF ToolInv, ToolTypes, ToolFine
<1> QED
  BY <1>1, <1>2, FineTake DEF Next

LEMMA ToolInit == Init => ToolInv
<1> SUFFICES ASSUME Init PROVE ToolInv
  OBVIOUS
<1>1. ToolTypes /\ step \in [Tools -> Steps] /\ count \in [Tools -> Nat]
  BY DEF Init, ToolTypes, Steps
<1>2. ASSUME NEW p \in Tools
      PROVE  ToolFine(p, step[p], job[p], count[p], p \in device)
  BY DEF Init, ToolFine, Steps, Resting
<1> QED
  BY <1>1, <1>2 DEF ToolInv

----------------------------------------------------------------------------
(* The types of the variables that no routine steers by.                    *)
DataTypes ==
  /\ svc \in Services
  /\ missed \subseteq Dialogs
  /\ file \in BOOLEAN
  /\ enabled_ \in [Dialogs -> BOOLEAN] /\ path_ \in [Dialogs -> BOOLEAN]

ServiceStates == {"STOPPED", "START_PENDING", "RUNNING", "STOP_PENDING"}

LEMMA ServiceStep ==
  ASSUME svc \in Services, [Next]_vars
  PROVE  svc' \in Services
<1>1. /\ svc \in Services /\ NoService \in Services
      /\ \A t \in ServiceStates : [svc EXCEPT !.state = t] \in Services
      /\ [svc EXCEPT !.marked = TRUE] \in Services
      /\ [svc EXCEPT !.denied = svc.registered] \in Services
      /\ \A i \in {"dialog", "shell"} :
           [NoService EXCEPT !.registered = TRUE, !.image = i] \in Services
  BY ServiceFields DEF ServiceStates
<1>2. \A s, h : s \in Services => Settled(s, h) \in Services
  BY <1>1 DEF Settled
<1>3. ASSUME NEW p \in Tools,
             \/ Stop(p) \/ Start(p) \/ OpenDriver(p) \/ Request(p)
             \/ Disable(p) \/ CloseHandle(p) \/ DeleteDriverFile(p)
             \/ ExtractDriver(p) \/ main(p) \/ OnBnClickedEnable(p)
             \/ OnClose(p) \/ Launch(p)
      PROVE  svc' = svc
  BY <1>3 DEF Stop, Start, OpenDriver, Request, Disable, CloseHandle,
     DeleteDriverFile, ExtractDriver, main, OnBnClickedEnable, OnClose, Launch,
     Take, scm
<1>4. ASSUME NEW p \in Tools,
             \/ ControlStop(p) \/ WaitStopped(p) \/ StartService(p)
             \/ WaitStarted(p) \/ Kill(p)
      PROVE  \/ svc' = svc \/ \E h : svc' = Settled(svc, h)
             \/ \E t \in ServiceStates : svc' = [svc EXCEPT !.state = t]
  BY <1>4 DEF ControlStop, WaitStopped, StartService, WaitStarted, Kill,
     CloseServiceHandle, scm, ServiceStates
<1>5. ASSUME NEW p \in Tools, DeleteService(p) \/ Install(p) \/ CreateService(p)
      PROVE  svc' \in Services
  <2>1. CASE DeleteService(p)
    BY <2>1, <1>1, <1>2 DEF DeleteService
  <2>2. CASE Install(p)
    BY <2>2, <1>1 DEF Install
  <2>3. CASE CreateService(p)
    BY <2>3, <1>1 DEF CreateService
  <2> QED
    BY <1>5, <2>1, <2>2, <2>3
<1>6. CASE StartEnds \/ StopEnds \/ UNCHANGED vars
  <2>1. CASE StartEnds
    <3>1. \E t \in ServiceStates :
            svc' = Settled([svc EXCEPT !.state = t], opened)
      BY <2>1 DEF StartEnds, ServiceStates
    <3> QED
      BY <1>1, <1>2, <3>1
  <2>2. CASE StopEnds
    <3>1. \E t \in ServiceStates :
            svc' = Settled([svc EXCEPT !.state = t], opened)
      BY <2>2 DEF StopEnds, ServiceStates
    <3> QED
      BY <1>1, <1>2, <3>1
  <2> QED
    BY <1>6, <2>1, <2>2 DEF vars, scm
<1>7. ASSUME NEW p \in Tools, Step(p) \/ main(p) \/ OnBnClickedEnable(p)
                              \/ OnClose(p) \/ Launch(p) \/ Kill(p)
      PROVE  svc' \in Services
  BY <1>7, <1>1, <1>2, <1>3, <1>4, <1>5 DEF Step
<1>8. svc' \in Services
  BY <1>6, <1>7 DEF Next
<1> QED
  BY <1>8

LEMMA DataStep ==
  ASSUME ToolInv, HandlesInv, DataTypes, [Next]_vars
  PROVE  DataTypes'
<1> USE DEF DataTypes
<1>1. svc' \in Services
  BY ServiceStep
<1>2. CASE UNCHANGED <<file, dialog>>
  BY <1>1, <1>2 DEF dialog
<1>3. ASSUME NEW p \in Tools,
             \/ Stop(p) \/ ControlStop(p) \/ WaitStopped(p) \/ DeleteService(p)
             \/ Install(p) \/ CreateService(p) \/ Start(p) \/ StartService(p)
             \/ WaitStarted(p) \/ OpenDriver(p) \/ CloseHandle(p)
             \/ main(p) \/ OnBnClickedEnable(p) \/ OnClose(p) \/ Launch(p)
      PROVE  UNCHANGED <<file, dialog>>
  BY <1>3 DEF Stop, ControlStop, WaitStopped, DeleteService, Install,
     CreateService, Start, StartService, WaitStarted, OpenDriver, CloseHandle,
     main, OnBnClickedEnable, OnClose, Launch, Take
<1>4. ASSUME NEW p \in Tools, DeleteDriverFile(p) PROVE DataTypes'
  <2>1. /\ file' \in BOOLEAN /\ missed' = missed
        /\ enabled_' = [enabled_ EXCEPT ![p] = FALSE]
        /\ path_' = [path_ EXCEPT ![p] = FALSE]
    BY <1>4 DEF DeleteDriverFile, Closed
  <2> QED
    BY <1>1, <2>1
<1>5. ASSUME NEW p \in Tools, ExtractDriver(p) PROVE DataTypes'
  <2>1. /\ file' \in BOOLEAN /\ missed' = missed /\ enabled_' = enabled_
        /\ path_' = path_ \/ path_' = [path_ EXCEPT ![p] = TRUE]
    BY <1>5 DEF ExtractDriver
  <2> QED
    BY <1>1, <2>1
<1>6. ASSUME NEW p \in Tools, Request(p) PROVE DataTypes'
  <2>1. /\ file' = file /\ path_' = path_
        /\ missed' \subseteq missed
        /\ \/ enabled_' = enabled_
           \/ p \in Dialogs /\ \E b \in BOOLEAN :
                enabled_' = [enabled_ EXCEPT ![p] = b]
    BY <1>6 DEF Request, Enabled
  <2> QED
    BY <1>1, <2>1
<1>7. ASSUME NEW p \in Tools, Disable(p) PROVE DataTypes'
  <2>1. p \in Dialogs
    BY <1>7 DEF Disable, ToolInv, ToolFine
  <2>2. /\ file' = file /\ path_' = path_
        /\ missed' \subseteq missed \cup {p}
        /\ enabled_' = enabled_ \/ enabled_' = [enabled_ EXCEPT ![p] = FALSE]
    BY <1>7 DEF Disable
  <2> QED
    BY <1>1, <2>1, <2>2
<1>8. ASSUME NEW p \in Tools, Kill(p) PROVE DataTypes'
  <2>1. CASE p \in Dialogs
    BY <1>1, <1>8, <2>1 DEF Kill, Closed
  <2>2. CASE p \notin Dialogs
    BY <1>1, <1>8, <2>2 DEF Kill, dialog
  <2> QED
    BY <2>1, <2>2
<1>9. CASE StartEnds \/ StopEnds \/ UNCHANGED vars
  BY <1>2, <1>9 DEF StartEnds, StopEnds, vars
<1>10. ASSUME NEW p \in Tools, Step(p) PROVE DataTypes'
  BY <1>2, <1>3, <1>4, <1>5, <1>6, <1>7, <1>10 DEF Step
<1> QED
  BY <1>2, <1>3, <1>8, <1>9, <1>10 DEF Next

----------------------------------------------------------------------------
(* The parameters in force are those of the job that was carried out last.  *)
AskedWell(by, j, s) ==
  \/ /\ by \in Dialogs
     /\ \E f \in Profiles : j = <<"enable", f>> /\ s = ProfileSettings(f)
  \/ /\ by \in Shells
     /\ j \in Commands /\ j[1] = "set" /\ Understood(j[2])
     /\ s = CommandSettings(j[2])

SettingsInv ==
  /\ flag \in BOOLEAN /\ DOMAIN params = DOMAIN DefaultSettings
  /\ flag => AskedWell(asked.by, asked.for, params)

LEMMA UnderstoodOptions ==
  ASSUME NEW c \in Commands, Understood(c[2])
  PROVE  c[2] \in Seq(Options)
<1>1. c[2] \in Seq(STRING \X Nat)
  BY ControlAssumption
<1>2. /\ Len(c[2]) \in Nat /\ DOMAIN c[2] = 1..Len(c[2])
      /\ \A k \in 1..Len(c[2]) : c[2][k] \in STRING \X Nat
      /\ c[2] = [k \in 1..Len(c[2]) |-> c[2][k]]
  BY <1>1
<1>3. \A k \in 1..Len(c[2]) : c[2][k] \in Options
  BY <1>2 DEF Understood, Options, OptionNames
<1> QED
  BY <1>2, <1>3

LEMMA AskedDomain ==
  ASSUME NEW by, NEW j, NEW s, AskedWell(by, j, s)
  PROVE  DOMAIN s = DOMAIN DefaultSettings
<1>1. CASE \E f \in Profiles : s = ProfileSettings(f)
  BY <1>1, ProfileMeant, ControlAssumption
<1>2. CASE j \in Commands /\ Understood(j[2]) /\ s = CommandSettings(j[2])
  <2>1. s \in Parameters
    BY <1>2, UnderstoodOptions, CommandMeant
  <2> QED
    BY <2>1 DEF Parameters, DefaultSettings
<1> QED
  BY <1>1, <1>2 DEF AskedWell

LEMMA SettingsStep ==
  ASSUME ToolInv, SettingsInv, [Next]_vars
  PROVE  SettingsInv'
<1> USE DEF SettingsInv
<1>1. CASE UNCHANGED driver
  BY <1>1 DEF driver
<1>2. CASE flag' = FALSE /\ params' = DefaultSettings
  BY <1>2
<1>3. ASSUME NEW p \in Tools,
             \/ Stop(p) \/ ControlStop(p) \/ WaitStopped(p) \/ DeleteService(p)
             \/ DeleteDriverFile(p) \/ Install(p) \/ ExtractDriver(p)
             \/ CreateService(p) \/ Start(p) \/ StartService(p)
             \/ WaitStarted(p) \/ OpenDriver(p) \/ CloseHandle(p)
             \/ main(p) \/ OnBnClickedEnable(p) \/ OnClose(p) \/ Launch(p)
             \/ Kill(p)
      PROVE  UNCHANGED driver
  BY <1>3 DEF Stop, ControlStop, WaitStopped, DeleteService, DeleteDriverFile,
     Install, ExtractDriver, CreateService, Start, StartService, WaitStarted,
     OpenDriver, CloseHandle, main, OnBnClickedEnable, OnClose, Launch, Take,
     Kill
<1>4. ASSUME NEW p \in Tools, Request(p), ~UNCHANGED driver PROVE SettingsInv'
  <2>1. EvtDeviceIOCtl(p, job[p][1] # "reset") /\ step[p] = "request"
    BY <1>4 DEF Request
  <2>2. CASE job[p][1] = "reset"
    BY <1>2, <2>1, <2>2 DEF EvtDeviceIOCtl
  <2>3. CASE job[p][1] # "reset"
    <3>1. /\ flag' = TRUE /\ params' = SettingsOf(p)
          /\ asked'.by = p /\ asked'.for = job[p]
      BY <2>1, <2>3 DEF EvtDeviceIOCtl
    <3>2. JobKind(p, job[p]) /\ job[p][1] \in {"set", "enable"}
      BY <2>1, <2>3 DEF ToolInv, ToolFine, Resting
    <3>3. CASE p \in Dialogs
      <4>1. PICK f \in Profiles : job[p] = <<"enable", f>>
        BY <3>2, <3>3, ControlAssumption DEF JobKind
      <4> QED
        BY <3>1, <3>3, <4>1, AskedDomain DEF AskedWell, SettingsOf
    <3>4. CASE p \notin Dialogs
      <4>1. /\ p \in Shells /\ job[p] \in Commands /\ job[p][1] = "set"
            /\ Understood(job[p][2])
        BY <3>2, <3>4, ControlAssumption DEF JobKind
      <4> QED
        BY <3>1, <3>4, <4>1, AskedDomain DEF AskedWell, SettingsOf
    <3> QED
      BY <3>3, <3>4
  <2> QED
    BY <2>2, <2>3
<1>5. ASSUME NEW p \in Tools, Disable(p) PROVE SettingsInv'
  BY <1>1, <1>2, <1>5 DEF Disable, EvtDeviceIOCtl
<1>6. CASE StartEnds \/ StopEnds \/ UNCHANGED vars
  BY <1>1, <1>2, <1>6 DEF StartEnds, StopEnds, vars
<1>7. ASSUME NEW p \in Tools, Step(p) PROVE SettingsInv'
  BY <1>1, <1>3, <1>4, <1>5, <1>7 DEF Step
<1> QED
  BY <1>1, <1>3, <1>6, <1>7 DEF Next

LEMMA MeantAsAsked ==
  ASSUME SettingsInv
  PROVE  SettingsMeant
<1> SUFFICES ASSUME flag
             PROVE  /\ HalvesOf(params, AskedRtt(asked.by, asked.for))
                    /\ \/ asked.for[1] = "enable"
                       \/ asked.for[1] = "set" /\ Understood(asked.for[2])
  BY DEF SettingsMeant, HalvesOf
<1>1. CASE asked.by \in Dialogs
  <2>1. PICK f \in Profiles : /\ asked.for = <<"enable", f>>
                              /\ params = ProfileSettings(f)
    BY <1>1, ControlAssumption DEF SettingsInv, AskedWell
  <2>2. AskedRtt(asked.by, asked.for) = f.rtt
    BY <1>1, <2>1 DEF AskedRtt
  <2> QED
    BY <2>1, <2>2, ProfileMeant, ControlAssumption
<1>2. CASE asked.by \notin Dialogs
  <2>1. /\ asked.for \in Commands /\ asked.for[1] = "set"
        /\ Understood(asked.for[2]) /\ params = CommandSettings(asked.for[2])
    BY <1>2 DEF SettingsInv, AskedWell
  <2>2. PICK options \in Seq(Options) : options = asked.for[2]
    BY <2>1, UnderstoodOptions
  <2>3. HalvesOf(params, LastRtt(options, Len(options)))
    BY <2>1, <2>2, CommandMeant
  <2>4. DOMAIN options = 1..Len(options)
    OBVIOUS
  <2>5. AskedRtt(asked.by, asked.for) = LastRtt(options, Len(options))
    BY <1>2, <2>2, <2>4 DEF AskedRtt, LastRtt
  <2> QED
    BY <2>1, <2>3, <2>5
<1> QED
  BY <1>1, <1>2

----------------------------------------------------------------------------
(* A dialog that has not lost touch: what it shows, between its handlers    *)
(* and inside of them.                                                      *)
ShownRight(d) ==
  /\ enabled_[d] => d \in device
  /\ asked.by = d => (flag <=> enabled_[d])
  /\ step[d] = "close_handle" => ~enabled_[d]
  /\ job[d][1] = "close" /\ step[d] # "disable" => ~enabled_[d]

ShownInv == \A d \in Dialogs \ missed : ShownRight(d)

\* A step of p: to s, with j to do.
LEMMA ShownOthers ==
  ASSUME ToolInv, DataTypes, ShownInv, NEW p \in Tools, NEW s, NEW j,
         Goes(p, s, j), device' \ {p} = device \ {p},
         UNCHANGED driver \/ asked'.by = p,
         \A d \in Dialogs \ {p} : enabled_'[d] = enabled_[d],
         missed' \ {p} = missed \ {p},
         p \in Dialogs \ missed' => ShownRight(p)'
  PROVE  ShownInv'
<1> SUFFICES ASSUME NEW d \in Dialogs \ missed', d # p PROVE ShownRight(d)'
  BY DEF ShownInv
<1>1. d \in Tools /\ d \notin missed /\ ShownRight(d)
  BY DEF ShownInv, Tools
<1>2. /\ step'[d] = step[d] /\ job'[d] = job[d] /\ enabled_'[d] = enabled_[d]
      /\ d \in device' <=> d \in device
  BY <1>1 DEF Goes
<1>3. asked'.by = d => flag' = flag /\ asked.by = d
  BY DEF driver
<1> QED
  BY <1>1, <1>2, <1>3 DEF ShownRight

\* Most steps change nothing of this for p itself.
LEMMA ShownQuiet ==
  ASSUME ToolInv, DataTypes, ShownInv, NEW p \in Tools, NEW s, NEW j,
         Goes(p, s, j), device' \ {p} = device \ {p},
         p \in device => p \in device',
         UNCHANGED <<driver, dialog>>,
         s = "close_handle" => p \in Shells,
         j[1] = "close" /\ s # "disable" =>
           job[p][1] = "close" /\ step[p] # "disable"
  PROVE  ShownInv'
<1>1. ASSUME p \in Dialogs \ missed' PROVE ShownRight(p)'
  <2>1. ShownRight(p) /\ p \notin Shells
    BY <1>1, ControlAssumption DEF ShownInv, dialog
  <2>2. /\ step'[p] = s /\ job'[p] = j
        /\ UNCHANGED <<flag, asked, enabled_>>
    BY DEF Goes, driver, dialog
  <2> QED
    BY <2>1, <2>2 DEF ShownRight
<1>2. UNCHANGED <<enabled_, missed>>
  BY DEF dialog
<1> QED
  BY <1>1, <1>2, ShownOthers

LEMMA ShownStay ==
  ASSUME ShownInv, UNCHANGED <<driver, device, dialog, job, step>>
  PROVE  ShownInv'
  BY DEF ShownInv, ShownRight, driver, dialog

LEMMA ShownService ==
  ASSUME ToolInv, DataTypes, ShownInv, NEW p \in Tools,
         \/ Stop(p) \/ ControlStop(p) \/ WaitStopped(p)
         \/ Start(p) \/ StartService(p) \/ WaitStarted(p)
         \/ DeleteService(p) \/ Install(p) \/ CreateService(p)
         \/ ExtractDriver(p)
  PROVE  ShownInv'
<1> USE FineFacts, Ways
<1>1. /\ UNCHANGED <<driver, device>>
      /\ step[p] \in {"stop", "stop_call", "stop_wait", "start", "start_call",
                      "start_wait", "delete", "install", "create", "extract"}
  BY DEF Stop, ControlStop, WaitStopped, Start, StartService, WaitStarted,
     DeleteService, Install, CreateService, ExtractDriver
<1>2. UNCHANGED <<enabled_, missed>>
  BY DEF Stop, ControlStop, WaitStopped, Start, StartService, WaitStarted,
     DeleteService, Install, CreateService, ExtractDriver, dialog
<1>3. \/ UNCHANGED <<job, step>>
      \/ Goes(p, "idle", None)
      \/ \E s \in {"stop_call", "stop_wait", "delete", "install", "unlink",
                   "start_call", "start_wait", "reopen", "open", "extract",
                   "create", "start"} : Goes(p, s, job[p])
  <2>1. CASE Stop(p) \/ ControlStop(p) \/ WaitStopped(p)
    <3>1. \/ UNCHANGED <<job, step>> \/ GoTo(p, "stop_call")
          \/ GoTo(p, "stop_wait") \/ \E ok \in BOOLEAN : AfterStop(p, ok)
      BY <2>1 DEF Stop, ControlStop, WaitStopped
    <3> QED
      BY <3>1, WayAfterStop
  <2>2. CASE Start(p) \/ StartService(p) \/ WaitStarted(p)
    <3>1. \/ UNCHANGED <<job, step>> \/ GoTo(p, "start_call")
          \/ GoTo(p, "start_wait") \/ \E ok \in BOOLEAN : AfterStart(p, ok)
      BY <2>2 DEF Start, StartService, WaitStarted
    <3> QED
      BY <3>1, WayAfterStart
  <2>3. CASE \/ DeleteService(p) \/ Install(p)
             \/ CreateService(p) \/ ExtractDriver(p)
    <3>1. \/ Finish(p) \/ AfterDelete(p)
          \/ \E s \in {"extract", "create", "start"} : GoTo(p, s)
      BY <2>3 DEF DeleteService, Install, CreateService, ExtractDriver
    <3> QED
      BY <3>1, WayAfterDelete
  <2> QED
    BY <2>1, <2>2, <2>3
<1>4. ASSUME NEW s, NEW j, Goes(p, s, j), s # "close_handle",
             j = job[p] \/ j[1] # "close"
      PROVE  ShownInv'
  <2>1. ASSUME p \in Dialogs \ missed' PROVE ShownRight(p)'
    <3>1. ShownRight(p)
      BY <1>2, <2>1 DEF ShownInv
    <3>2. /\ step'[p] = s /\ job'[p] = j /\ device' = device
          /\ UNCHANGED <<flag, asked, enabled_>>
      BY <1>1, <1>2, <1>4 DEF Goes, driver
    <3> QED
      BY <1>1, <1>4, <3>1, <3>2 DEF ShownRight
  <2> QED
    BY <1>1, <1>2, <1>4, <2>1, ShownOthers
<1>5. CASE UNCHANGED <<job, step>>
  BY <1>1, <1>2, <1>5 DEF ShownInv, ShownRight, driver
<1> QED
  BY <1>3, <1>4, <1>5

LEMMA ShownRequest ==
  ASSUME ToolInv, HandlesInv, DataTypes, ShownInv, NEW p \in Tools,
         \/ OpenDriver(p) \/ Request(p) \/ Disable(p) \/ CloseHandle(p)
         \/ DeleteDriverFile(p)
  PROVE  ShownInv'
<1> USE FineFacts, Ways
<1>1. CASE OpenDriver(p)
  <2>1. /\ \E s \in {"request", "start", "idle"} : \E j \in {job[p], None} :
             Goes(p, s, j)
        /\ device' = device \/ device' = device \cup {p}
        /\ UNCHANGED <<driver, dialog>>
        /\ step[p] \in {"open", "reopen"}
    BY <1>1 DEF OpenDriver
  <2> QED
    BY <2>1, ShownQuiet
<1>2. CASE CloseHandle(p)
  <2>1. /\ Goes(p, "stop", job[p]) \/ Goes(p, "idle", None)
        /\ device' = device \ {p}
        /\ UNCHANGED <<driver, dialog>>
        /\ step[p] = "close_handle"
    BY <1>2 DEF CloseHandle
  <2>2. ASSUME p \in Dialogs \ missed' PROVE ShownRight(p)'
    <3>1. ShownRight(p) /\ ~enabled_[p]
      BY <2>1, <2>2 DEF ShownInv, ShownRight, dialog
    <3>2. /\ step'[p] # "close_handle"
          /\ UNCHANGED <<flag, asked, enabled_>>
      BY <2>1 DEF Goes, driver, dialog
    <3> QED
      BY <3>1, <3>2 DEF ShownRight
  <2> QED
    BY <2>1, <2>2, ShownOthers DEF dialog
<1>3. CASE Request(p)
  <2>1. /\ step[p] = "request" /\ device' = device
        /\ p \in device /\ job[p][1] \in {"set", "reset", "enable"}
    BY <1>3 DEF Request, ToolFine
  <2>2. PICK ok \in BOOLEAN :
          /\ IF ok THEN EvtDeviceIOCtl(p, job[p][1] # "reset")
             ELSE UNCHANGED driver
          /\ IF p \in Dialogs
             THEN /\ enabled_' = [enabled_ EXCEPT ![p] = Enabled(p, ok)]
                  /\ missed' = IF ok THEN missed \ {p} ELSE missed
             ELSE UNCHANGED <<enabled_, missed>>
          /\ AfterRequest(p, ok)
    BY <1>3 DEF Request
  <2>3. UNCHANGED driver \/ asked'.by = p
    BY <2>2 DEF EvtDeviceIOCtl
  <2>4. /\ \A d \in Dialogs \ {p} : enabled_'[d] = enabled_[d]
        /\ missed' \ {p} = missed \ {p}
    BY <2>2 DEF DataTypes
  <2>5. \/ p \in Shells /\ Goes(p, "close_handle", job[p])
        \/ p \notin Shells /\ Goes(p, "idle", None)
    BY <2>2, WayAfterRequest
  <2>6. ASSUME p \in Dialogs \ missed' PROVE ShownRight(p)'
    <3>1. Goes(p, "idle", None)
      BY <2>5, <2>6, ControlAssumption
    <3>2. step'[p] = "idle" /\ job'[p] = None /\ p \in device'
      BY <2>1, <3>1 DEF Goes
    <3>3. CASE ok
      <4>1. job[p][1] # "reset"
        BY <2>1, <2>6, ControlAssumption DEF ToolFine, JobKind, Resting
      <4>2. enabled_'[p] = TRUE
        BY <2>2, <2>6, <3>3 DEF DataTypes, Enabled
      <4>3. flag' = TRUE
        BY <2>2, <3>3, <4>1 DEF EvtDeviceIOCtl
      <4> QED
        BY <3>2, <4>2, <4>3 DEF ShownRight
    <3>4. CASE ~ok
      <4>1. enabled_'[p] = enabled_[p] /\ missed' = missed
        BY <2>2, <2>6, <3>4 DEF DataTypes, Enabled
      <4>2. ShownRight(p)
        BY <2>6, <4>1 DEF ShownInv
      <4>3. UNCHANGED <<flag, asked>>
        BY <2>2, <3>4 DEF driver
      <4> QED
        BY <3>2, <4>1, <4>2, <4>3 DEF ShownRight
    <3> QED
      BY <3>3, <3>4
  <2> QED
    BY <2>1, <2>3, <2>4, <2>5, <2>6, ShownOthers
<1>4. CASE Disable(p)
  <2>0. p \in Dialogs /\ step[p] = "disable" /\ device' = device
    BY <1>4 DEF Disable, ToolFine
  <2>1. CASE /\ EvtDeviceIOCtl(p, FALSE)
             /\ enabled_' = [enabled_ EXCEPT ![p] = FALSE]
             /\ GoTo(p, "close_handle")
             /\ missed' = missed
    <3>1. asked'.by = p /\ flag' = FALSE /\ enabled_'[p] = FALSE
      BY <2>0, <2>1 DEF EvtDeviceIOCtl, DataTypes
    <3>2. ShownRight(p)'
      BY <3>1 DEF ShownRight
    <3> QED
      BY <2>0, <2>1, <3>1, <3>2, ShownOthers DEF DataTypes
  <2>2. CASE /\ missed' = missed \cup {p}
             /\ GoTo(p, "close_handle")
             /\ UNCHANGED <<driver, enabled_>>
    <3>1. p \notin Dialogs \ missed'
      BY <2>2
    <3> QED
      BY <2>0, <2>2, <3>1, ShownOthers
  <2>3. CASE /\ p \notin device
             /\ enabled_' = [enabled_ EXCEPT ![p] = FALSE]
             /\ IF job[p][1] = "close" THEN GoTo(p, "stop") ELSE Finish(p)
             /\ UNCHANGED <<driver, missed>>
    <3>1. enabled_'[p] = FALSE /\ UNCHANGED <<flag, asked>>
      BY <2>0, <2>3 DEF driver, DataTypes
    <3>2. ASSUME p \in Dialogs \ missed' PROVE ShownRight(p)'
      <4>1. ShownRight(p)
        BY <2>3, <3>2 DEF ShownInv
      <4> QED
        BY <2>3, <3>1, <4>1 DEF ShownRight
    <3> QED
      BY <2>0, <2>3, <3>2, ShownOthers DEF DataTypes
  <2> QED
    BY <1>4, <2>1, <2>2, <2>3 DEF Disable
<1>5. CASE DeleteDriverFile(p)
  <2>1. /\ step[p] = "unlink" /\ device' = device
        /\ UNCHANGED <<driver, missed>>
        /\ Closed(p)
    BY <1>5 DEF DeleteDriverFile
  <2>2. job[p][1] = "close" /\ p \in Dialogs
    BY <2>1 DEF HandlesInv, ToolHandles
  <2>3. ASSUME p \in Dialogs \ missed' PROVE ShownRight(p)'
    <3>1. ShownRight(p) /\ ~enabled_[p]
      BY <2>1, <2>2, <2>3 DEF ShownInv, ShownRight
    <3>2. /\ enabled_'[p] = FALSE /\ UNCHANGED <<flag, asked>>
      BY <2>1, <2>2 DEF Closed, DataTypes, driver
    <3> QED
      BY <3>1, <3>2 DEF ShownRight
  <2> QED
    BY <2>1, <2>2, <2>3, ShownOthers DEF Closed, DataTypes
<1> QED
  BY <1>1, <1>2, <1>3, <1>4, <1>5

LEMMA ShownTake ==
  ASSUME ToolInv, DataTypes, ShownInv, NEW p \in Tools,
         main(p) \/ OnBnClickedEnable(p) \/ OnClose(p) \/ Launch(p) \/ Kill(p)
  PROVE  ShownInv'
<1> USE FineFacts, Ways
<1>1. ASSUME NEW c, Take(p, c),
             c[1] \in {"install", "remove", "set", "reset",
                       "enable", "disable", "close"}
      PROVE  ShownInv'
  <2>1. /\ Goes(p, FirstStep(c), c) /\ device' = device
        /\ UNCHANGED <<driver, dialog>>
    BY <1>1 DEF Take, ToolTypes, Goes
  <2>2. /\ FirstStep(c) # "close_handle"
        /\ c[1] = "close" => FirstStep(c) = "disable"
    BY <1>1 DEF FirstStep
  <2> QED
    BY <2>1, <2>2, ShownQuiet
<1>2. CASE main(p)
  BY <1>1, <1>2, ControlAssumption DEF main
<1>3. CASE OnBnClickedEnable(p)
  <2>1. \/ Take(p, <<"disable", <<>>>>)
        \/ \E f \in Profiles : Take(p, <<"enable", f>>)
    BY <1>3 DEF OnBnClickedEnable
  <2> QED
    BY <1>1, <2>1
<1>4. CASE OnClose(p)
  BY <1>1, <1>4 DEF OnClose
<1>5. CASE Launch(p)
  <2>1. /\ step[p] = "closed" /\ Goes(p, "idle", job[p]) /\ device' = device
        /\ UNCHANGED <<driver, dialog>>
    BY <1>5 DEF Launch
  <2>2. job[p] = None
    BY <2>1 DEF ToolFine, Resting
  <2> QED
    BY <2>1, <2>2, ShownQuiet
<1>6. CASE Kill(p)
  <2>1. device' = device \ {p} /\ UNCHANGED driver
    BY <1>6 DEF Kill
  <2>2. CASE p \in Dialogs
    <3>1. Closed(p) /\ missed' = missed \cup {p}
      BY <1>6, <2>2 DEF Kill
    <3>2. /\ \A d \in Dialogs \ {p} : enabled_'[d] = enabled_[d]
          /\ p \notin Dialogs \ missed'
      BY <3>1 DEF Closed, DataTypes
    <3> QED
      BY <2>1, <3>1, <3>2, ShownOthers
  <2>3. CASE p \notin Dialogs
    <3>1. Goes(p, "idle", None) /\ UNCHANGED <<enabled_, missed>>
      BY <1>6, <2>3 DEF Kill, dialog
    <3> QED
      BY <2>1, <2>3, <3>1, ShownOthers
  <2> QED
    BY <2>2, <2>3
<1> QED
  BY <1>2, <1>3, <1>4, <1>5, <1>6

LEMMA ShownStep ==
  ASSUME ToolInv, HandlesInv, DataTypes, SettingsInv, ShownInv, [Next]_vars
  PROVE  ShownInv'
<1>1. ASSUME NEW p \in Tools, Step(p) PROVE ShownInv'
  BY <1>1, ShownService, ShownRequest DEF Step
<1>2. CASE StartEnds \/ UNCHANGED vars
  <2>1. UNCHANGED <<driver, device, dialog, job, step>>
    BY <1>2 DEF StartEnds, vars, tool
  <2> QED
    BY <2>1, ShownStay
<1>3. CASE StopEnds
  <2>1. /\ device = {} /\ flag' = FALSE
        /\ UNCHANGED <<device, step, job, enabled_, missed>>
    BY <1>3 DEF StopEnds, tool, dialog
  <2>2. asked'.by = asked.by \/ asked' = asked
    BY <1>3 DEF StopEnds
  <2> QED
    BY <2>1, <2>2 DEF ShownInv, ShownRight
<1> QED
  BY <1>1, <1>2, <1>3, ShownTake DEF Next

----------------------------------------------------------------------------
ToolsInv == HandlesInv /\ ToolInv /\ DataTypes /\ SettingsInv /\ ShownInv

LEMMA ToolsInit == Init => ToolsInv
<1> SUFFICES ASSUME Init PROVE ToolsInv
  OBVIOUS
<1>1. HandlesInv
  BY DEF Init, HandlesInv, ToolTypes, ToolHandles, None
<1>2. DataTypes
  <2>1. svc \in Services
    BY ServiceFields DEF Init, Services, NoService
  <2> QED
    BY <2>1 DEF Init, DataTypes
<1>3. SettingsInv
  BY DEF Init, SettingsInv
<1>4. ShownInv
  BY DEF Init, ShownInv, ShownRight, None, Tools
<1> QED
  BY <1>1, <1>2, <1>3, <1>4, ToolInit DEF ToolsInv

LEMMA ToolsNext == ToolsInv /\ [Next]_vars => ToolsInv'
  BY HandlesStep, ToolStep, DataStep, SettingsStep, ShownStep DEF ToolsInv

(* The service, the parameters of the driver and what the tools remember    *)
(* keep their types, a tool has a job exactly while it is not at rest, and  *)
(* the polling loops of Start and Stop stay below their bounds.             *)
THEOREM TypeCorrect == Spec => []TypeOK
<1>1. ToolsInv => TypeOK
  <2> SUFFICES ASSUME ToolsInv PROVE TypeOK
    OBVIOUS
  <2>1. \A p \in Tools : job[p] = None <=> AtRest(p)
    BY JobIsSomething DEF ToolsInv, ToolInv, ToolFine, AtRest, Resting
  <2> QED
    BY <2>1 DEF ToolsInv, HandlesInv, ToolTypes, ToolInv, ToolFine, DataTypes,
       SettingsInv, TypeOK, Services
<1> QED
  BY <1>1, ToolsInit, ToolsNext, PTL DEF Spec

(* While the driver shapes, its parameters are those of a command whose     *)
(* options were all understood, or of a profile, and its two latencies are  *)
(* the halves of the last round trip time that was asked for: no command    *)
(* that was refused, half done or overtaken leaves a mixture behind.        *)
THEOREM SettingsMeantCorrect == Spec => []SettingsMeant
<1>1. ToolsInv => SettingsMeant
  BY MeantAsAsked DEF ToolsInv
<1> QED
  BY <1>1, ToolsInit, ToolsNext, PTL DEF Spec

(* With no handler under way, a dialog that shows "enabled" is one whose    *)
(* driver shapes, unless a command changed the driver after it, or its last *)
(* request to stop went unanswered.                                         *)
THEOREM ShownIsShapedCorrect == Spec => []ShownIsShaped
<1>1. ToolsInv => ShownIsShaped
  BY DEF ToolsInv, ShownInv, ShownRight, ShownIsShaped
<1> QED
  BY <1>1, ToolsInit, ToolsNext, PTL DEF Spec
=============================================================================
