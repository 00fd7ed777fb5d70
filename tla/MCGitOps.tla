------------------------------- MODULE MCGitOps -------------------------------
(* Two files, so that a change of one can lose the other. *)
EXTENDS GitOps, TLC

CONSTANTS f, g, new

MCChanges == {f :> new, g :> new}
Alike == Permutations(Files) \cup Permutations(Specs) \cup Permutations(Calls)

=============================================================================
