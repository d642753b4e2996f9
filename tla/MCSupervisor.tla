---------------------------- MODULE MCSupervisor ----------------------------
(* Instances of Supervisor for TLC. *)
EXTENDS Supervisor

\* One day in full; the second day is only followed when there was no outage.
FewFaults == day = 1 \/ outages = 0
=============================================================================
