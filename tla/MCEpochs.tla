------------------------------ MODULE MCEpochs ------------------------------
(* Instances of Epochs for TLC: the sets of tasks come from the .cfg files. *)
EXTENDS Epochs, TLC

\* Callers that enter through the same operation are interchangeable.
CallerSymmetry == Permutations(Callers)

\* So are plain inserts.
InsertSymmetry == Permutations(Inserts)
=============================================================================
