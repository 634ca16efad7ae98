----------------------------- MODULE ShapedLink -----------------------------
(***************************************************************************)
(* What the shaper promises about the packets of one adapter, with no      *)
(* locks, threads, tokens or timers: per direction it is one FIFO line.    *)
(* A packet that reaches the shaper is absorbed (dropped on purpose),      *)
(* permitted (left to the network stack), or accepted into the line;       *)
(* packets leave the line at its head only, each of them once; one that    *)
(* has left is delivered, or lost when the stack refuses the injection;    *)
(* and unloading the driver may throw a whole line away.                   *)
(***************************************************************************)
EXTENDS Sequences

CONSTANTS
  Packets,     \* the packets offered to the shaper
  Directions,  \* the two lines, inbound and outbound
  Dir          \* the direction each packet travels in

VARIABLES
  line,        \* line[d]: the accepted packets of d that have not left, in order
  status       \* status[p]: what has become of p

linkVars == <<line, status>>

Status == {"new", "absorbed", "permitted", "linked", "released",
           "delivered", "lost"}

Init ==
  /\ line = [d \in Directions |-> <<>>]
  /\ status = [p \in Packets |-> "new"]

\* p moves from one status to another; nothing else changes
Becomes(p, from, to) ==
  /\ status[p] = from
  /\ status' = [status EXCEPT ![p] = to]

Absorb(p) == Becomes(p, "new", "absorbed") /\ UNCHANGED line

Permit(p) == Becomes(p, "new", "permitted") /\ UNCHANGED line

Accept(p) ==
  /\ Becomes(p, "new", "linked")
  /\ line' = [line EXCEPT ![Dir[p]] = Append(@, p)]

Release(d) ==
  /\ line[d] # <<>>
  /\ Becomes(Head(line[d]), "linked", "released")
  /\ line' = [line EXCEPT ![d] = Tail(@)]

Deliver(p) == Becomes(p, "released", "delivered") /\ UNCHANGED line

Lose(p) == Becomes(p, "released", "lost") /\ UNCHANGED line

Flush(d) ==
  /\ line' = [line EXCEPT ![d] = <<>>]
  /\ status' = [p \in Packets |->
                  IF \E i \in DOMAIN line[d] : line[d][i] = p
                  THEN "lost" ELSE status[p]]

Next ==
  \/ \E p \in Packets : Absorb(p) \/ Permit(p) \/ Accept(p)
  \/ \E d \in Directions : Release(d) \/ Flush(d)
  \/ \E p \in Packets : Deliver(p) \/ Lose(p)

Spec == Init /\ [][Next]_linkVars
=============================================================================
