----------------------------- MODULE MCModelFile -----------------------------
(* A model of two blocks with two weights each. *)
EXTENDS ModelFile

Weights == <<"wq", "wk">>
=============================================================================
