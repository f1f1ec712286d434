---------------------------- MODULE MCPostPublish ----------------------------
(* Instances of PostPublish for TLC.                                        *)
EXTENDS PostPublish, TLC

RequestSymmetry == Permutations(Clients) \cup Permutations(Contents)
=============================================================================
