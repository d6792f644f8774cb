------------------------------- MODULE EventRun -------------------------------
(***************************************************************************)
(* What the lifecycle commands promise of one event's run: it is prepared  *)
(* once and paused, it accepts work only while it runs, it runs only after *)
(* it was paused and unfenced, and a fenced run never moves again.         *)
(* Deployment implements it.                                               *)
(***************************************************************************)
EXTENDS Naturals

VARIABLES
  phase,  \* what the facilitators believe the event to be in
  work    \* the audit row of the latest accepted work

vars == <<phase, work>>

Init == phase = "absent" /\ work = 0

Prepare == phase = "absent" /\ phase' = "paused" /\ UNCHANGED work

Begin == phase = "paused" /\ phase' = "running" /\ UNCHANGED work

Accept == phase = "running" /\ work' > work /\ UNCHANGED phase

Interrupt == phase = "running" /\ phase' = "paused" /\ UNCHANGED work

Seal == phase = "paused" /\ phase' = "fenced" /\ UNCHANGED work

Next == Prepare \/ Begin \/ Accept \/ Interrupt \/ Seal

Spec == Init /\ [][Next]_vars

=============================================================================
