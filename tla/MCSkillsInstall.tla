--------------------------- MODULE MCSkillsInstall ---------------------------
(* Small instances of SkillsInstall for TLC: .agents/skills sorts before       *)
(* .claude/skills, and AgentTarget::All selects both.                          *)
EXTENDS SkillsInstall, TLC

CONSTANTS p1, p2, agents, claude

MCProcs == {p1, p2}
MCDests == {agents, claude}
MCPosition == (agents :> 1) @@ (claude :> 2)
\* Every run selects AgentTarget::All.
MCTargets == {{agents, claude}}
MCOneDest == {agents}
MCOnePosition == agents :> 1
MCStandard == {{agents}}
Symmetry == Permutations(MCProcs)
=============================================================================
