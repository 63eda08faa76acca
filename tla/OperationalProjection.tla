------------------------ MODULE OperationalProjection ------------------------
(***************************************************************************)
(* What the event pipeline promises the projections of one execution       *)
(* order: events are applied one at a time, each at most once, and an      *)
(* event that is subject to the version gate never after one of the same   *)
(* or a later version.  Queues, retries, crashes and duplicates are not    *)
(* visible here.                                                           *)
(***************************************************************************)
EXTENDS ConvergenceMatrix

CONSTANT Plans  \* the event histories an order may emit

VARIABLES plan,     \* the history of this order
          log,      \* the events emitted so far
          applied,  \* the events applied so far
          proj      \* the projections

vars == <<plan, log, applied, proj>>

Init ==
  /\ plan \in Plans
  /\ log = <<>>
  /\ applied = {}
  /\ proj \in [calendar: {"NONE", "SCHEDULED"}, visit: {"SCHEDULED"},
               task: {"NONE", "SCHEDULED"}]

Emit ==
  /\ Len(log) < Len(plan)
  /\ LET e == plan[Len(log) + 1]
     IN /\ taskAdmits(e, proj.task)
        /\ log' = Append(log, e)
        /\ proj' = [proj EXCEPT !.task = transitionStatus(e, proj.task)]
  /\ UNCHANGED <<plan, applied>>

Apply(i) ==
  /\ i \notin applied
  /\ log[i].type \in Bypassing \/ \A j \in applied : log[j].version < log[i].version
  /\ applied' = applied \cup {i}
  /\ proj' = handler(log[i], proj)
  /\ UNCHANGED <<plan, log>>

Next == Emit \/ \E i \in DOMAIN log : Apply(i)

Spec == Init /\ [][Next]_vars
=============================================================================
