---------------------------- MODULE MCEmotionEngine ----------------------------
(* Instances of EmotionEngine for TLC. *)
EXTENDS EmotionEngine, TLC

MCStrengths == {-2, 1}

Symmetry == Permutations(Callers) \cup Permutations(Objects)
=============================================================================
