---------------------------- MODULE MCJobRunner ----------------------------
(***************************************************************************)
(* Instances of JobRunner for TLC.                                         *)
(***************************************************************************)
EXTENDS JobRunner, TLC

\* The handlers are interchangeable in the runs that check safety only.
Symmetry == Permutations(Handlers)

\* bound: requests overlap only in the first life of a backend that nobody has asked to stop.
OverlapBound ==
  (\E h, g \in Handlers : h # g /\ handler[h] # "idle" /\ handler[g] # "idle")
    => boots = 1 /\ main = "serving" /\ worker # "dead"
=============================================================================
