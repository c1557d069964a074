-------------------------- MODULE MCReprocessing --------------------------
(***************************************************************************)
(* A formerly public file and its site's icon, a file known from the       *)
(* access log, a parked .loop file, and a folder and a recording of the    *)
(* sharing scan.                                                           *)
(***************************************************************************)
EXTENDS Reprocessing, TLC

CONSTANTS s1, s2, public, logged, folder, file, loop, icon

MCObjectOf == [e \in Events |-> e]
MCContent  == [e \in Events |-> e]
MCScanRows == {{folder, file}, {file}}
SlotSymmetry == Permutations(Slots)

MCScripts  == {"flagged", "failed", "convertible", "av", "avAll", "oldFolders",
               "bareFolders", "scan", "sites", "access", "missing"}
=============================================================================
