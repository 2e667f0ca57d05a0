------------------------ MODULE MCPrefillPolicies --------------------------
(* A text request, three small images and a video-sized one; r1 and r4 have  *)
(* deadlines.  Under the vision-aware policy pages run short, or two small   *)
(* images may share a batch that is heavy; under the SLO policy there are    *)
(* enough pages.                                                             *)
EXTENDS PrefillPolicies

Ids == {"r1", "r2", "r3", "r4", "r5"}
Four == Ids \ {"r5"}
Three == {"r1", "r2", "r3"}
Lengths == [r1 |-> 1, r2 |-> 2, r3 |-> 2, r4 |-> 2, r5 |-> 1]
PatchCounts == [r1 |-> 0, r2 |-> 2, r3 |-> 1, r4 |-> 3, r5 |-> 1]
Deadlines == [r1 |-> 2, r2 |-> NoSlo, r3 |-> NoSlo, r4 |-> 4, r5 |-> NoSlo]
Reserves == [t \in 0 .. 2 |-> t + 1]
Mixed ==
  {[policy |-> "vision_aware", seqs |-> 3, blocks |-> 6, bypasses |-> 1, clients |-> Four],
   [policy |-> "vision_aware", seqs |-> 4, blocks |-> 12, bypasses |-> 2,
    clients |-> Ids \ {"r4"}],
   [policy |-> "slo_aware", seqs |-> 4, blocks |-> 12, bypasses |-> 1, clients |-> Three]}
=============================================================================
