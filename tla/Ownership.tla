------------------------------ MODULE Ownership ------------------------------
(***************************************************************************)
(* Who owns the memory behind the raw pointers of Model, Block and State:  *)
(* the constructor of a Model (InitializeInference), requests that make    *)
(* and drop a State, and the destructor, with an exception wherever the    *)
(* code can throw one.  An exception in a constructor destroys the members *)
(* that are objects and forgets the members that are raw pointers.         *)
(*                                                                         *)
(* An allocation is named by what it was made for; an object is the set of *)
(* allocations its pointers reach.  CPU memory: a failed CUDA allocation   *)
(* aborts the process instead of throwing.                                 *)
(***************************************************************************)
EXTENDS Integers, Sequences

CONSTANTS
    Layers,    \* config.n_layers
    Weights,   \* the weight tensors of a block, in order
    Buffers,   \* the buffers of a State, in order
    MaxCalls   \* bound: requests made to the Model

ASSUME LayersAssumption == Layers \in Nat /\ MaxCalls \in Nat
ASSUME FieldsAssumption ==
    /\ Weights \in Seq(STRING) /\ Buffers \in Seq(STRING)
    /\ \A i, j \in DOMAIN Buffers : Buffers[i] = Buffers[j] => i = j

VARIABLES
    tied,     \* config.tie_word_embeddings
    pc,       \* where the program is
    layer,    \* the block InitializeInference is building
    n,        \* how many pointers of the current list have been set
    calls,    \* requests so far
    holds,    \* holds[o]: the allocations the pointers of object o reach
    heap,     \* the allocations that have not been freed
    freed     \* those that have

vars == <<tied, pc, layer, n, calls, holds, heap, freed>>

(* The Model, the local block of InitializeInference, blocks_, the State. *)
Object(kind, k) == [kind |-> kind, k |-> k]
ModelObject == Object("model", 0)
Local == Object("local", 0)
StateObject == Object("state", 0)
Elements == {Object("block", l) : l \in 1 .. Layers}
Objects == {ModelObject, Local, StateObject} \cup Elements

Allocation(owner, k, field) == [owner |-> owner, k |-> k, field |-> field]

(* The pointers each part of the code sets, in order. *)
Embeddings == <<"embedding_", "final_norm_">> \o (IF tied THEN <<>> ELSE <<"output_">>)
Arrays == <<"hidden_state_", "normalized_state_", "logits_">>
Caches == <<"k_", "v_">>

Init ==
    /\ tied \in BOOLEAN
    /\ pc = "embeddings"
    /\ layer = 1 /\ n = 0 /\ calls = 0
    /\ holds = [o \in Objects |-> {}]
    /\ heap = {} /\ freed = {}

(***************************************************************************)
(* new: the next pointer of a list is set; after the last one, go on.      *)
(***************************************************************************)
Allocate(here, list, o, k, then) ==
    LET a == Allocation(o.kind, k, list[n + 1]) IN
    /\ pc = here /\ n < Len(list)
    /\ heap' = heap \cup {a}
    /\ holds' = [holds EXCEPT ![o] = @ \cup {a}]
    /\ IF n + 1 = Len(list) THEN n' = 0 /\ pc' = then ELSE n' = n + 1 /\ pc' = pc
    /\ UNCHANGED <<tied, layer, calls, freed>>

(* Mutant of Releases: the caches only, as before blocks had weights. *)
ReleasesCaches(o) == {a \in holds[o] : \E i \in DOMAIN Caches : a.field = Caches[i]}

(* Block::Release and State::Release: every pointer the object has. *)
Releases(o) == holds[o]

(* The destructors of the objects S run; the pointers of the objects F go  *)
(* away without one; the pointers of the others stay.                      *)
Unwind(S, F) ==
    LET gone == UNION {Releases(o) : o \in S} IN
    /\ heap' = heap \ gone
    /\ freed' = freed \cup gone
    /\ holds' = [o \in Objects |-> IF o \in S \cup F THEN {} ELSE holds[o]]

Destroy(S) == Unwind(S, {})

(* LoadTensorData, then BuildWeightTensor, of what the Model itself owns. *)
BuildEmbeddings ==
    Allocate("embeddings", Embeddings, ModelObject, 0, IF Layers = 0 THEN "arrays" ELSE "block")

(* Block block(&config, device). *)
ConstructBlock == Allocate("block", Caches, Local, layer, "weights")

(* The weights of the block: all are loaded, then copied one by one. *)
BuildWeights == Allocate("weights", Weights, Local, layer, "push")

(* Mutant of TakeOwnership: the source keeps its pointers. *)
TakeOwnershipCopy(to, from) == [holds EXCEPT ![to] = holds[from]]

(* Block::TakeOwnership: the pointers change hands. *)
TakeOwnership(to, from) == [holds EXCEPT ![to] = holds[from], ![from] = {}]

(* blocks_.push_back(std::move(block)), with the capacity reserved. *)
PushBlock ==
    /\ pc = "push"
    /\ holds' = TakeOwnership(Object("block", layer), Local)
    /\ pc' = "drop"
    /\ UNCHANGED <<tied, layer, n, calls, heap, freed>>

(* The moved-from block goes out of scope. *)
DropBlock ==
    /\ pc = "drop"
    /\ Destroy({Local})
    /\ layer' = layer + 1
    /\ pc' = IF layer = Layers THEN "validate" ELSE "block"
    /\ UNCHANGED <<tied, n, calls>>

(* ValidateWeights of every block passes. *)
Validate ==
    /\ pc = "validate"
    /\ pc' = "arrays"
    /\ UNCHANGED <<tied, layer, n, calls, holds, heap, freed>>

BuildArrays == Allocate("arrays", Arrays, ModelObject, 0, "ready")

(* A tensor is missing or of the wrong size, the file cannot be read, or   *)
(* memory runs out: the constructor of Model throws.  The local block and  *)
(* blocks_ are destroyed; a block still in its own constructor and the     *)
(* Model, whose pointers are plain members, are not.                       *)
ConstructorThrows ==
    /\ pc \in {"embeddings", "block", "weights", "validate", "arrays"}
    /\ LET forgotten == {ModelObject} \cup (IF pc = "block" THEN {Local} ELSE {})
       IN Unwind((Elements \cup {Local}) \ forgotten, forgotten)
    /\ pc' = "failed"
    /\ UNCHANGED <<tied, layer, n, calls>>

(* Generate: State state(&config, device). *)
BeginRequest ==
    /\ pc = "ready" /\ calls < MaxCalls
    /\ calls' = calls + 1
    /\ pc' = "state"
    /\ UNCHANGED <<tied, layer, n, holds, heap, freed>>

ConstructState == Allocate("state", Buffers, StateObject, calls, "generate")

(* Memory runs out in State's constructor: its destructor does not run. *)
StateThrows ==
    /\ pc = "state"
    /\ Unwind({}, {StateObject})
    /\ n' = 0
    /\ pc' = "ready"
    /\ UNCHANGED <<tied, layer, calls>>

(* Generate returns or throws: the State goes out of scope. *)
EndRequest ==
    /\ pc = "generate"
    /\ Destroy({StateObject})
    /\ pc' = "ready"
    /\ UNCHANGED <<tied, layer, n, calls>>

(* Mutant of ReleasedObjects: nothing but blocks_.clear(). *)
ReleasedObjectsBlocks == Elements

(* What ReleaseInference releases: blocks_, then the Model's own pointers. *)
ReleasedObjects == Elements \cup {ModelObject}

(* Model::~Model, which calls ReleaseInference and destroys the members. *)
DestroyModel ==
    /\ pc = "ready"
    /\ Unwind(ReleasedObjects, {ModelObject})
    /\ pc' = "destroyed"
    /\ UNCHANGED <<tied, layer, n, calls>>

Next ==
    \/ BuildEmbeddings \/ ConstructBlock \/ BuildWeights \/ PushBlock \/ DropBlock
    \/ Validate \/ BuildArrays \/ ConstructorThrows
    \/ BeginRequest \/ ConstructState \/ StateThrows \/ EndRequest \/ DestroyModel

Spec == Init /\ [][Next]_vars
-----------------------------------------------------------------------------
(***************************************************************************)
(* No two objects reach the same allocation and none reaches one that has  *)
(* been freed: nothing is freed twice or used after it was freed, although *)
(* a block changes its owner before the local one is destroyed.            *)
(***************************************************************************)
OneOwner ==
    /\ \A o, p \in Objects : o # p => holds[o] \cap holds[p] = {}
    /\ \A o \in Objects : holds[o] \subseteq heap

(***************************************************************************)
(* What nobody can free any more was lost by a constructor that threw: the *)
(* Model's own pointers, the first cache of a block, buffers of a State.   *)
(* Finished blocks, their weights and finished States are never lost.      *)
(***************************************************************************)
LosesOnlyUnfinished ==
    \A a \in heap : (\A o \in Objects : a \notin holds[o]) =>
        \/ a.owner = "model" /\ pc = "failed"
        \/ a.owner = "local" /\ a.field = "k_" /\ a.k = layer /\ pc = "failed"
        \/ a.owner = "state" /\ a.field # Buffers[Len(Buffers)]

(***************************************************************************)
(* A Model that was constructed and is destroyed gives back everything its *)
(* pointers and blocks ever held.                                          *)
(***************************************************************************)
DestructorReleasesAll ==
    pc = "destroyed" => \A a \in heap : a.owner = "state"
=============================================================================
