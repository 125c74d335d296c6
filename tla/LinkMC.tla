------------------------------- MODULE LinkMC -------------------------------
(***************************************************************************)
(* The synth at boot, for TLC.                                             *)
(***************************************************************************)
EXTENDS Link

\* Any two of a turn of the panel, a write and an engine's change; or one move of
\* any kind, and one fault.
Does(kinds, n) == [moves |-> [m \in AllMoves |-> IF m \in kinds THEN 1 ELSE 0], faults |-> n]
MCBudgets == {Does({"panel", "write", "engine"} \ {m}, 0) : m \in {"panel", "write", "engine"}}
             \cup {Does({m}, 1) : m \in AllMoves}
MCDefaults == [p \in Params |-> "low"]
=============================================================================
