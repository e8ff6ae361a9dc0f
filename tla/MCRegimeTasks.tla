--------------------------- MODULE MCRegimeTasks ----------------------------
(* Queues of the instances.  G1Tasks: a recoverable prerequisite, the gate   *)
(* it releases and a task of another workstream that is enqueued; the        *)
(* program is past G0.  CoreTasks: the same from phase 0 on, with the smoke  *)
(* of that phase and the task that recording G0 appends.  OperatorTasks:     *)
(* with the review that recording G0 supersedes and the manifest inventory.  *)
EXTENDS RegimeQueue

CONSTANTS prereq, gate, outline, smoke, review, contract, inventory, data, thesis

G1Tasks == {prereq, gate, outline}
CoreTasks == {smoke, contract} \cup G1Tasks
OperatorTasks == {review, contract, inventory, prereq, gate}

MCDeps == [t \in Tasks |-> IF t = gate THEN {prereq} ELSE {}]
MCStreamOf == [t \in Tasks |-> IF t = outline THEN thesis ELSE data]
MCRank == [t \in Tasks |-> CASE t = smoke -> 1 [] t = review -> 2 [] t = contract -> 10
                             [] t = inventory -> 11 [] t = prereq -> 12 [] t = gate -> 18
                             [] OTHER -> 20]
MCKindOf == [t \in Tasks |-> CASE t = prereq -> "codex" [] t = gate -> "review"
                               [] t = smoke -> "smoke" [] t = review -> "none"
                               [] t = inventory -> "inventory" [] OTHER -> "local"]
MCLegacy == [s \in Streams |-> IF s = data THEN 1 ELSE 0]
MCInitialG1 == [t \in Tasks |-> CASE t = prereq -> "READY" [] t = gate -> "BLOCKED_DEPENDENCY"
                                  [] OTHER -> "ABSENT"]
MCInitialG0 == [t \in Tasks |-> IF t \in {smoke, review} THEN "READY" ELSE "ABSENT"]
=============================================================================
