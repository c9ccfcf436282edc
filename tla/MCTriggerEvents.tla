--------------------------- MODULE MCTriggerEvents --------------------------
(***************************************************************************)
(* Small instances of TriggerEvents for TLC.                               *)
(***************************************************************************)
EXTENDS TriggerEvents, TLC

CONSTANTS c1, c2

\* Consumer processes are interchangeable.
ConsumerSymmetry == Permutations({c1, c2})
=============================================================================
