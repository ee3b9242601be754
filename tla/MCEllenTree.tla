---------------------------- MODULE MCEllenTree ----------------------------
(* A small instance of the tree for TLC. *)
EXTENDS EllenTree

ThreeKeys == TreeOf(<<1, 2, 3>>)
=============================================================================
