------------------------------- MODULE KvRing -------------------------------
(***************************************************************************)
(* Position arithmetic of the key/value cache: what Model::ForwardTokenCPU *)
(* and Model::ForwardTokenGPU compute from the position of a token before  *)
(* they call the blocks.  A cache has MaxSeqLen rows.  While the sequence  *)
(* is shorter than the cache, row p holds position p.  Later the first     *)
(* NumSink rows are kept (the attention sinks) and the others are a ring.  *)
(***************************************************************************)
EXTENDS Integers

CONSTANTS
    MaxSeqLen,      \* config.max_seq_len, set by InitializeInference
    AttentionSinks  \* kAttentionSinks, 4 in the source

\* main.cpp refuses --context-length <= 0 before a Model exists.
ASSUME MaxSeqLenAssumption == MaxSeqLen \in Nat \ {0}
ASSUME AttentionSinksAssumption == AttentionSinks \in Nat

(***************************************************************************)
(* The rows of the cache of one layer.                                     *)
(***************************************************************************)
Slots == 0 .. MaxSeqLen - 1

(***************************************************************************)
(* std::min(kAttentionSinks, context_length - 1): once the cache is full,  *)
(* the number of rows that are never overwritten.                          *)
(***************************************************************************)
SinkRows == IF AttentionSinks < MaxSeqLen - 1 THEN AttentionSinks ELSE MaxSeqLen - 1

(* Rows of the ring that follows the sinks. *)
RingRows == MaxSeqLen - SinkRows

(* num_sink: the rows ForwardCPU rotates when it processes position pos. *)
NumSink(pos) == IF pos >= MaxSeqLen THEN SinkRows ELSE 0

(* Mutant of KvPos: a plain ring, which overwrites the sinks. *)
KvPosNoSinks(pos) == pos % MaxSeqLen

(* kv_pos: the row that receives the key and the value of position pos. *)
KvPos(pos) ==
    IF pos < MaxSeqLen THEN pos
    ELSE NumSink(pos) + ((pos - NumSink(pos)) % (MaxSeqLen - NumSink(pos)))

(* Mutant of KvLen: the query does not see its own position. *)
KvLenExclusive(pos) == IF pos < MaxSeqLen THEN pos ELSE MaxSeqLen

(* kv_len: the number of rows, from row 0, the query of pos attends to. *)
KvLen(pos) == IF pos + 1 < MaxSeqLen THEN pos + 1 ELSE MaxSeqLen
=============================================================================
