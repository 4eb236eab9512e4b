---------------------------- MODULE MCMsgChannel ----------------------------
(* Symmetry for the safety runs of MsgChannel.                             *)
EXTENDS MsgChannel, TLC

Symmetry == Permutations(Producers) \cup Permutations(Consumers)
              \cup Permutations(Messages)
=============================================================================
