---------------------------- MODULE MCGenerate ----------------------------
(* Small instances of Generate for TLC. *)
EXTENDS Generate

\* 0 .. the first length that does not fit the cache
Prompts == 0 .. MaxSeqLen + 1
\* enough tokens to wrap the ring of a cache of six rows more than once
Limits == {0, 1, 5}
=============================================================================
