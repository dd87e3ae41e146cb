----------------------------- MODULE RuntimeBase -----------------------------
(* What the components of the runtime share: processes, attempts and the clock. *)
EXTENDS Naturals

CONSTANTS
  Processes,   \* operating system processes; each has one birth identity for ever
  Attempts,    \* application attempts; actor and application ids are derived from them
  None,
  MaxTime      \* the clock stops here: a bound of the instance

ASSUME BaseAssumption == MaxTime \in Nat /\ None \notin Processes \cup Attempts

VARIABLE now   \* the wall clock that leases are compared with, in ticks

Time == 0..MaxTime

Tick == now < MaxTime /\ now' = now + 1

=============================================================================
