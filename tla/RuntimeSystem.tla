---------------------------- MODULE RuntimeSystem ----------------------------
(***************************************************************************)
(* What the processes of the runtime share beside the ledger: three        *)
(* registries of the database and the lock of a browser profile, which     *)
(* keep them apart, and the row of a job whose documents they write with   *)
(* nothing that keeps them apart.  These parts share processes, attempts   *)
(* and the clock but write no common row and read none of each other's, so *)
(* their steps commute.  An instance therefore explores them one at a      *)
(* time: focus is the one that acts, the others stay as they were.         *)
(***************************************************************************)
EXTENDS RuntimeCells, BrowserLeases, AgentTurns, ProfileLocks, JobMaterials

VARIABLE focus

runtimeVars == <<now, cellVars, leaseVars, turnVars, profileVars, materialVars, focus>>

RuntimeInit ==
  /\ now = 0
  /\ focus \in {"cells", "leases", "turns", "profile", "materials"}
  /\ CellInit /\ LeaseInit /\ TurnInit /\ ProfileInit /\ MaterialInit
  /\ jobRow.posting = CHOOSE p \in Postings : TRUE    \* the versions are names
  /\ focus # "materials" => shift = CHOOSE s \in Shifts : TRUE

RuntimeNext ==
  /\ \/ /\ UNCHANGED materialVars
        /\ \/ focus = "cells" /\ CellNext /\ UNCHANGED <<leaseVars, turnVars, profileVars>>
           \/ focus = "leases" /\ LeaseNext /\ UNCHANGED <<cellVars, turnVars, profileVars>>
           \/ focus = "turns" /\ TurnNext /\ UNCHANGED <<cellVars, leaseVars, profileVars>>
           \/ focus = "profile" /\ ProfileNext /\ UNCHANGED <<cellVars, leaseVars, turnVars>>
     \/ focus = "materials" /\ MaterialNext /\ UNCHANGED <<now, cellVars, leaseVars, turnVars, profileVars>>
  /\ UNCHANGED focus

RuntimeSpec == RuntimeInit /\ [][RuntimeNext]_runtimeVars

\* The rows and the sessions over them have the shapes their modules declare.
RuntimeTypeOK ==
  /\ now \in Time
  /\ CellTypeOK /\ LeaseTypeOK /\ TurnTypeOK /\ ProfileTypeOK /\ MaterialTypeOK

=============================================================================
