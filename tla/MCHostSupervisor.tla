-------------------------- MODULE MCHostSupervisor --------------------------
(***************************************************************************)
(* Instances of HostSupervisor: three revisions and a spare process that   *)
(* compete for two slots, and one revision with two pages and two sizes    *)
(* that fails and restarts.                                                *)
(***************************************************************************)
EXTENDS HostSupervisor, TLC

(* Revisions are interchangeable; used only where no liveness is checked.  *)
KeySymmetry == Permutations(Keys)

=============================================================================
