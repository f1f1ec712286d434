----------------------------- MODULE MCSiteDraft -----------------------------
(* Small instances of the draft editor for TLC.                            *)
EXTENDS SiteDraft, TLC

EditorSymmetry == Permutations(Editors)
FreshSymmetry == Permutations(Editors) \cup Permutations(Contents \ {Starter})
=============================================================================
