----------------------------- MODULE MCOwnership -----------------------------
(* Blocks with two weights, states with three buffers. *)
EXTENDS Ownership

BlockWeights == <<"wq_", "wk_">>
StateBuffers == <<"lin1", "q", "sampled_token">>
=============================================================================
