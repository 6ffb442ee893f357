------------------------------- MODULE Faults -------------------------------
(* Crashes and unanswered calls, bounded in a behaviour.                   *)
EXTENDS Naturals

CONSTANTS MaxFaults, None

ASSUME FaultAssumption == MaxFaults \in Nat

VARIABLE faults

Fault ==
    /\ faults < MaxFaults
    /\ faults' = faults + 1
=============================================================================
