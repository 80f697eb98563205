---------------------------- MODULE MCJobEvents ----------------------------
(***************************************************************************)
(* JobEvents for TLC.                                                      *)
(***************************************************************************)
EXTENDS JobEvents

Scenario(progress, cancels, deletes) == [lines |-> progress, cancels |-> cancels, deletes |-> deletes]

\* Lines enough to pass each other; a cancel that races the claim; a row deleted.
LinesOrCancel == {Scenario(2, FALSE, FALSE), Scenario(0, TRUE, TRUE)}

OneLine == {Scenario(1, FALSE, FALSE)}
=============================================================================
