------------------------------ MODULE MCEmbed ------------------------------
(* TLC instances of Embed: instances are interchangeable, so the safety run *)
(* explores them up to permutation; the liveness run does not.              *)
EXTENDS Embed, TLC

InstSymmetry == Permutations(Inst)
=============================================================================
