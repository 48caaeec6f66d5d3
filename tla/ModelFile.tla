------------------------------ MODULE ModelFile ------------------------------
(***************************************************************************)
(* Qwen3.bin between its two processes: convert.py writes it front to back *)
(* through a buffered file and may die on the way; qwen3 opens whatever is *)
(* there, walks the tensor records to build an index, and then opens the   *)
(* file again for every tensor it loads.  The two are written in different *)
(* languages and agree on the layout byte by byte, or not at all.          *)
(*                                                                         *)
(* A byte is known by the field it belongs to and its place in it, so that *)
(* a read that starts one byte off or takes one field for another is told  *)
(* apart from the read that was meant.  Sizes are small; names have one    *)
(* byte.  Nobody starts a second conversion over a file being loaded.      *)
(***************************************************************************)
EXTENDS Integers, Sequences, SequencesExt

CONSTANTS
    Layers,       \* n_layers
    LayerWeights  \* the weights of a block, in the order of tensor_plan

ASSUME PlanAssumption ==
    /\ Layers \in Nat /\ LayerWeights \in Seq(STRING)
    /\ \A i, j \in DOMAIN LayerWeights : LayerWeights[i] = LayerWeights[j] => i = j

VARIABLES
    tied,       \* tie_word_embeddings of the checkpoint
    length,     \* bytes of the file that have reached the disk
    converting, \* convert.py is running
    pc,         \* where qwen3 is
    cursor,     \* position of the stream that builds the index
    index,      \* tensors_, the records indexed so far
    loaded      \* the payloads read, by tensor

vars == <<tied, length, converting, pc, cursor, index, loaded>>
-----------------------------------------------------------------------------
(* The tensors. *)
Tensor(part, layer) == [part |-> part, layer |-> layer]
Tokenizer == {Tensor("tokenizer.json", 0), Tensor("tokenizer.tokens", 0),
              Tensor("tokenizer.offsets", 0)}

(* tensor_plan, then the three tokenizer tensors of convert. *)
Plan(t) ==
    <<Tensor("embed", 0)>>
    \o FlattenSeq([l \in 1 .. Layers |->
         [k \in 1 .. Len(LayerWeights) |-> Tensor(LayerWeights[k], l)]])
    \o <<Tensor("norm", 0)>>
    \o (IF t THEN <<>> ELSE <<Tensor("output", 0)>>)
    \o <<Tensor("tokenizer.json", 0), Tensor("tokenizer.tokens", 0),
         Tensor("tokenizer.offsets", 0)>>

(* Dimensions: any will do, matrices and vectors. *)
Shape(x) ==
    CASE x.part \in {"embed", "output"} -> <<2, 1>>
      [] x.part = "tokenizer.json" -> <<3>>
      [] x.part = "tokenizer.tokens" -> <<2>>
      [] OTHER -> <<1>>
Elements(x) == Shape(x)[1] * (IF Len(Shape(x)) = 2 THEN Shape(x)[2] ELSE 1)

(* convert_weight gives bf16; the element sizes are torch's. *)
TorchType(x) ==
    IF x.part = "tokenizer.offsets" THEN "int32"
    ELSE IF x \in Tokenizer THEN "uint8" ELSE "bfloat16"
RawSize(x) ==
    Elements(x) * (CASE TorchType(x) = "bfloat16" -> 2
                     [] TorchType(x) = "uint8" -> 1
                     [] TorchType(x) = "int32" -> 4)

(* DTYPE_ENUM of the converter. *)
DTypeEnum(type) == CASE type = "bfloat16" -> 3 [] type = "uint8" -> 4 [] type = "int32" -> 5

Field(name, width) == [name |-> name, width |-> width]
HeaderOf == Tensor("header", 0)

(* The bytes of a list of fields that belong to x. *)
Bytes(x, fields) ==
    FlattenSeq([f \in 1 .. Len(fields) |->
        [k \in 1 .. fields[f].width |-> [of |-> x, field |-> fields[f].name, byte |-> k]]])
Payload(x) == Bytes(x, <<Field("payload", RawSize(x))>>)

(* convert: magic, "<IQ" version and metadata size, metadata, "<Q" count. *)
WrittenHeader == <<Field("magic", 8), Field("version", 4), Field("metadata_size", 8),
                   Field("metadata", 2), Field("tensor_count", 8)>>

(* write_tensor: "<I" name size, name, "<II" dtype and ndim, "<Q" each     *)
(* dimension, "<Q" byte size.                                              *)
WrittenRecord(x) == <<Field("name_size", 4), Field("name", 1), Field("dtype", 4),
                      Field("ndim", 4), Field("dims", 8 * Len(Shape(x))),
                      Field("byte_size", 8)>>

(* The complete file. *)
Content ==
    [t \in BOOLEAN |->
        Bytes(HeaderOf, WrittenHeader)
        \o FlattenSeq([k \in 1 .. Len(Plan(t)) |->
             Bytes(Plan(t)[k], WrittenRecord(Plan(t)[k])) \o Payload(Plan(t)[k])])]
File == Content[tied]

-----------------------------------------------------------------------------
Init ==
    /\ tied \in BOOLEAN
    /\ length = 0
    /\ converting = TRUE
    /\ pc = "start"
    /\ cursor = 0
    /\ index = [x \in {} |-> 0]
    /\ loaded = [x \in {} |-> 0]

readerVars == <<pc, cursor, index, loaded>>

(* out.write, as far as it has reached the disk. *)
Write ==
    /\ converting /\ length < Len(File)
    /\ length' = length + 1
    /\ UNCHANGED <<tied, converting, readerVars>>

(* The file is closed, or convert.py dies or raises between two writes;    *)
(* nothing removes what has been written.                                  *)
StopConverting ==
    /\ converting
    /\ converting' = FALSE
    /\ UNCHANGED <<tied, length, readerVars>>

(* A failed read leaves the stream in the fail state, and its reader throws. *)
Ends(at, width) == at + width > length
Throw ==
    /\ pc' = "refused"
    /\ UNCHANGED <<tied, length, converting, cursor, index, loaded>>

(* Do the bytes at a position read as these fields of x? *)
ReadsAs(at, x, fields) ==
    LET expected == Bytes(x, fields) IN
    ~Ends(at, Len(expected)) /\ SubSeq(File, at + 1, at + Len(expected)) = expected

(* Model::Model reads char[8], u32, size_t, that many bytes, size_t. *)
ReadHeader == <<Field("magic", 8), Field("version", 4), Field("metadata_size", 8),
                Field("metadata", 2), Field("tensor_count", 8)>>

OpenModel ==
    /\ pc = "start"
    /\ ReadsAs(0, HeaderOf, ReadHeader)
    /\ cursor' = Len(Bytes(HeaderOf, ReadHeader))
    /\ pc' = "index"
    /\ UNCHANGED <<tied, length, converting, index, loaded>>

(* Mutant of ReadRecord: the number of dimensions before the type. *)
ReadRecordSwapped(x) == <<Field("name_size", 4), Field("name", 1), Field("ndim", 4),
                          Field("dtype", 4), Field("dims", 8 * Len(Shape(x))),
                          Field("byte_size", 8)>>

(* ReadTensorInfo reads u32, that many bytes, u32, u32, size_t each, size_t. *)
ReadRecord(x) == <<Field("name_size", 4), Field("name", 1), Field("dtype", 4),
                   Field("ndim", 4), Field("dims", 8 * Len(Shape(x))),
                   Field("byte_size", 8)>>

(* TensorDType and DTypeSize of the reader. *)
DTypeSize(code) == CASE code = 1 -> 4 [] code = 5 -> 4 [] code = 3 -> 2 [] code = 4 -> 1

(* ValidateTensorByteSize and ValidateSupportedTensorType. *)
Valid(x) ==
    LET code == DTypeEnum(TorchType(x)) IN
    /\ RawSize(x) = Elements(x) * DTypeSize(code)
    /\ code = IF x.part = "tokenizer.offsets" THEN 5 ELSE IF x \in Tokenizer THEN 4 ELSE 3

(* Mutant of DataOffset: taken before the byte size has been read. *)
DataOffsetEarly(x, at) == at + Len(Bytes(x, ReadRecord(x))) - 8

(* data_offset, tellg when the whole record has been read. *)
DataOffset(x, at) == at + Len(Bytes(x, ReadRecord(x)))

(* One record: read, validated, indexed, and its payload skipped.  seekg   *)
(* past the end of a file does not fail, so SkipBytes never throws.        *)
Indexing == pc = "index" /\ Len(Plan(tied)) > Cardinality(DOMAIN index)

IndexRecord(x) ==
    /\ Indexing
    /\ ReadsAs(cursor, x, ReadRecord(x))
    /\ Valid(x) /\ x \notin DOMAIN index
    /\ index' = [y \in DOMAIN index \cup {x} |->
                   IF y = x THEN [offset |-> DataOffset(x, cursor), size |-> RawSize(x)]
                   ELSE index[y]]
    /\ cursor' = cursor + Len(Bytes(x, ReadRecord(x))) + RawSize(x)
    /\ UNCHANGED <<tied, length, converting, pc, loaded>>

IndexDone ==
    /\ pc = "index" /\ ~Indexing
    /\ pc' = "weights"
    /\ UNCHANGED <<tied, length, converting, cursor, index, loaded>>

(* InitializeInference loads the embedding, the last norm, the output head *)
(* of an untied model, then block by block.                                *)
Wanted(t) ==
    <<Tensor("embed", 0), Tensor("norm", 0)>>
    \o (IF t THEN <<>> ELSE <<Tensor("output", 0)>>)
    \o FlattenSeq([l \in 1 .. Layers |->
         [k \in 1 .. Len(LayerWeights) |-> Tensor(LayerWeights[k], l)]])

(* Mutant of PayloadEnds: the state of the stream is not looked at. *)
PayloadEndsUnchecked(x) == FALSE

(* The end of the file is inside the payload: "Failed to read ...". *)
PayloadEnds(x) == Ends(index[x].offset, index[x].size)

(* Model::LoadTensor opens the file anew and reads the indexed bytes. *)
LoadTensor(x) ==
    /\ x \in DOMAIN index
    /\ ~PayloadEnds(x)
    /\ loaded' = [y \in DOMAIN loaded \cup {x} |-> IF y = x THEN index[x] ELSE loaded[y]]
    /\ UNCHANGED <<tied, length, converting, cursor, index>>

LoadWeight ==
    LET k == Cardinality(DOMAIN loaded) + 1 IN
    /\ pc = "weights"
    /\ LoadTensor(Wanted(tied)[k])
    /\ pc' = IF k = Len(Wanted(tied)) THEN "tokenizer" ELSE pc

(* Tokenizer(LoadVocabulary(model), LoadMerges(model)): in any order. *)
LoadTokenizer(x) ==
    /\ pc = "tokenizer" /\ x \notin DOMAIN loaded
    /\ LoadTensor(x)
    /\ pc' = IF Tokenizer \subseteq DOMAIN loaded' THEN "serving" ELSE pc

(* The tensors that may be loaded next. *)
LoadedNext ==
    CASE pc = "weights" -> {Wanted(tied)[Cardinality(DOMAIN loaded) + 1]}
      [] pc = "tokenizer" -> Tokenizer \ DOMAIN loaded
      [] OTHER -> {}

(* Any other outcome of a step is an exception that ends qwen3. *)
Refuse ==
    \/ pc = "start" /\ ~ReadsAs(0, HeaderOf, ReadHeader) /\ Throw
    \/ /\ Indexing
       /\ ~\E x \in Range(Plan(tied)) :
              ReadsAs(cursor, x, ReadRecord(x)) /\ Valid(x) /\ x \notin DOMAIN index
       /\ Throw
    \/ /\ \E x \in LoadedNext : x \notin DOMAIN index \/ PayloadEnds(x)
       /\ Throw

Next ==
    \/ Write \/ StopConverting
    \/ OpenModel \/ IndexDone \/ LoadWeight \/ Refuse
    \/ \E x \in Range(Plan(tied)) : IndexRecord(x)
    \/ \E x \in Tokenizer : LoadTokenizer(x)

Spec == Init /\ [][Next]_vars
-----------------------------------------------------------------------------
(***************************************************************************)
(* Every tensor in memory is, byte for byte, the payload the converter     *)
(* wrote under its name, wherever the conversion stopped.                  *)
(***************************************************************************)
LoadsWhatWasConverted ==
    \A x \in DOMAIN loaded :
        SubSeq(File, loaded[x].offset + 1, loaded[x].offset + loaded[x].size) = Payload(x)

(* qwen3 gets as far as generating only from a file that is complete. *)
ServesOnlyComplete == pc = "serving" => length = Len(File)

(* A complete file is never refused: converter and loader agree. *)
RefusesOnlyPartial ==
    [][pc' = "refused" /\ pc # "refused" => length < Len(File)]_vars

(***************************************************************************)
(* "Unexpected end of Qwen3.bin while skipping tensor payload": when all   *)
(* records have been indexed, the payloads skipped were in the file.       *)
(***************************************************************************)
SkippedPayloadsExist ==
    pc \in {"weights", "tokenizer", "serving"} =>
        \A x \in DOMAIN index : index[x].offset + index[x].size <= length
=============================================================================
