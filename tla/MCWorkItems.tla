---------------------------- MODULE MCWorkItems ----------------------------
(***************************************************************************)
(* Instances of WorkItems for TLC: one branch, a manager m, an executor f, *)
(* and b, who holds both roles and could be tempted to review his own work.*)
(***************************************************************************)
EXTENDS WorkItems, TLC

CONSTANTS m, f, b, org

MCGrants ==
  {<<m, "REGIONAL_MANAGER", org>>, <<f, "RF", org>>,
   <<b, "REGIONAL_MANAGER", org>>, <<b, "RF", org>>} \cap (Users \X Roles \X Orgs)

NoGrants == {}

AllOps == Ops

CreateOnly == {"createWorkItem"}

PatchPath == {"createWorkItem", "assignWorkItem", "patchWorkItemFields"}

\* The way from a new work item to a decision on it.
ReviewPath == {"createWorkItem", "assignWorkItem", "patchWorkItemFields",
               "submitWorkItem", "reopenWorkItem"} \cup ReviewOps

Symmetry == Permutations(Requests) \cup Permutations(Keys) \cup Permutations(Items)
=============================================================================
