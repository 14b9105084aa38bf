------------------------------ MODULE PostsMC -------------------------------
(* An instance of Posts for TLC; the editors are interchangeable. *)
EXTENDS Posts, TLC

CONSTANTS e1, e2

EditorSymmetry == Permutations(Editors)
=============================================================================
