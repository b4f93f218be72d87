---------------------------- MODULE MCOAuthEdge ----------------------------
(* OAuthEdge on a small instance for TLC.                                   *)
EXTENDS OAuthEdge, TLC

MCSymmetry == Permutations(Code) \cup Permutations(Access) \cup Permutations(Refresh)
              \cup Permutations(Client)
=============================================================================
