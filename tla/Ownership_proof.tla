--------------------------- MODULE Ownership_proof ---------------------------
(***************************************************************************)
(* The memory of a Model for every number of blocks, weights, buffers and  *)
(* requests: one owner per allocation, nothing lost but what a throwing    *)
(* constructor held, nothing left behind by the destructor.                *)
(***************************************************************************)
EXTENDS Ownership, TLAPS

\* Where the program is, and how far in a list of allocations.
Control ==
    /\ layer \in Nat /\ n \in Nat
    /\ pc = "embeddings" => layer = 1
    /\ pc \in {"block", "weights", "push", "drop"} => layer \in 1 .. Layers
    /\ pc \in {"push", "drop", "validate", "ready", "generate"} => n = 0
    /\ pc = "block" => n \in {0, 1}

\* Whose allocations an object may hold, and when it holds none.
Holdings ==
    /\ holds \in [Objects -> SUBSET heap]
    /\ \A a \in holds[ModelObject] : a.owner = "model"
    /\ \A a \in holds[StateObject] : a.owner = "state"
    /\ \A a \in holds[Local] : a.owner = "local" /\ a.k = layer
    /\ \A o \in Elements : \A a \in holds[o] : a.owner = "local" /\ a.k = o.k
    /\ \A o \in Elements :
           o.k > layer \/ (o.k = layer /\ pc \in {"embeddings", "block", "weights", "push"}) => holds[o] = {}
    /\ pc \notin {"block", "weights", "push"} => holds[Local] = {}
    /\ pc \notin {"state", "generate"} => holds[StateObject] = {}
    /\ pc = "destroyed" => \A o \in Objects : holds[o] = {}

\* What a constructor would lose if it threw now.
Unfinished ==
    /\ pc = "block" => \A a \in holds[Local] : a.field = "k_"
    /\ pc = "state" =>
           /\ n = 0 \/ n < Len(Buffers)
           /\ \A a \in holds[StateObject] : \E i \in 1 .. n : a.field = Buffers[i]

OwnInv == Control /\ Holdings /\ Unfinished /\ LosesOnlyUnfinished

(* The objects are distinct. *)
LEMMA ObjectsDistinct ==
    /\ Objects = {ModelObject, Local, StateObject} \cup Elements
    /\ ModelObject.kind = "model" /\ Local.kind = "local" /\ StateObject.kind = "state"
    /\ ModelObject # Local /\ ModelObject # StateObject /\ Local # StateObject
    /\ \A o \in Elements : o \notin {ModelObject, Local, StateObject}
    /\ \A l \in 1 .. Layers : Object("block", l) \in Elements /\ Object("block", l).k = l
    /\ \A o, p \in Elements : o.k = p.k => o = p
    /\ \A o \in Elements : o.k \in 1 .. Layers
BY LayersAssumption DEF Objects, Elements, ModelObject, Local, StateObject, Object

(* What the invariant says of ownership. *)
LEMMA HoldingsOneOwner ==
    ASSUME Holdings PROVE OneOwner
<1>1. ASSUME NEW o \in Objects, NEW p \in Objects, o # p, NEW a, a \in holds[o], a \in holds[p]
      PROVE  FALSE
  <2>1. ~(o \in Elements /\ p \in Elements)
    BY <1>1, ObjectsDistinct DEF Holdings
  <2>2. ~(o = Local /\ p \in Elements) /\ ~(p = Local /\ o \in Elements)
    BY <1>1, ObjectsDistinct DEF Holdings
  <2>3. o # ModelObject /\ p # ModelObject /\ o # StateObject /\ p # StateObject
    BY <1>1, ObjectsDistinct DEF Holdings
  <2>4. \A q \in Objects : q = ModelObject \/ q = StateObject \/ q = Local \/ q \in Elements
    BY ObjectsDistinct
  <2> QED BY <1>1, <2>1, <2>2, <2>3, <2>4
<1> QED BY <1>1 DEF OneOwner, Holdings

(* What new leaves in place, and what it adds. *)
LEMMA Allocated ==
    ASSUME OwnInv, NEW o \in Objects, NEW a, pc # "failed",
           heap' = heap \cup {a}, holds' = [holds EXCEPT ![o] = @ \cup {a}]
    PROVE  /\ holds' \in [Objects -> SUBSET heap']
           /\ \A p \in Objects : p # o => holds'[p] = holds[p]
           /\ holds'[o] = holds[o] \cup {a}
           /\ LosesOnlyUnfinished'
<1>1. /\ holds' \in [Objects -> SUBSET heap']
      /\ \A p \in Objects : p # o => holds'[p] = holds[p]
      /\ holds'[o] = holds[o] \cup {a}
  BY DEF OwnInv, Holdings
<1>2. LosesOnlyUnfinished'
  <2> SUFFICES ASSUME NEW b \in heap', \A p \in Objects : b \notin holds'[p]
               PROVE  b.owner = "state" /\ b.field # Buffers[Len(Buffers)]
    BY DEF LosesOnlyUnfinished
  <2>1. b \in heap /\ \A p \in Objects : b \notin holds[p]
    BY <1>1
  <2> QED BY <2>1 DEF OwnInv, LosesOnlyUnfinished
<1> QED BY <1>1, <1>2

(* The destructors of S run, the pointers of F are forgotten. *)
LEMMA Unwound ==
    ASSUME OwnInv, NEW S, NEW F, S \subseteq Objects, F \subseteq Objects, Unwind(S, F)
    PROVE  /\ holds' \in [Objects -> SUBSET heap']
           /\ \A o \in Objects : o \in S \/ o \in F => holds'[o] = {}
           /\ \A o \in Objects : o \notin S /\ o \notin F => holds'[o] = holds[o]
           /\ \A a \in heap' : (\A o \in Objects : a \notin holds'[o]) =>
                  \/ a \in heap /\ \A o \in Objects : a \notin holds[o]
                  \/ \E o \in Objects : o \in F /\ o \notin S /\ a \in holds[o]
<1>1. OneOwner
  BY HoldingsOneOwner DEF OwnInv
<1>2. heap' = heap \ UNION {holds[o] : o \in S}
  BY DEF Unwind, Releases
<1>3. \A o \in Objects : holds'[o] = IF o \in S \cup F THEN {} ELSE holds[o]
  BY DEF Unwind
<1>4. \A o \in Objects : holds'[o] \subseteq heap'
  <2> SUFFICES ASSUME NEW o \in Objects, NEW a \in holds'[o] PROVE a \in heap'
    OBVIOUS
  <2>1. o \notin S \cup F /\ a \in holds[o] /\ a \in heap
    BY <1>1, <1>3 DEF OneOwner
  <2>2. \A p \in S : a \notin holds[p]
    BY <1>1, <2>1 DEF OneOwner
  <2> QED BY <1>2, <2>1, <2>2
<1>5. holds' \in [Objects -> SUBSET heap']
  BY <1>4 DEF Unwind
<1>6. ASSUME NEW a \in heap', \A o \in Objects : a \notin holds'[o]
      PROVE  \/ a \in heap /\ \A o \in Objects : a \notin holds[o]
             \/ \E o \in Objects : o \in F /\ o \notin S /\ a \in holds[o]
  <2>1. a \in heap /\ \A p \in S : a \notin holds[p]
    BY <1>2, <1>6
  <2> QED BY <1>3, <1>6, <2>1
<1> QED BY <1>3, <1>5, <1>6

(* The Model has its own tensors and its activations. *)
LEMMA BuildEmbeddingsInv ==
    ASSUME OwnInv, BuildEmbeddings PROVE OwnInv'
<1> DEFINE then == IF Layers = 0 THEN "arrays" ELSE "block"
<1>1. /\ Allocate("embeddings", Embeddings, ModelObject, 0, then)
      /\ ModelObject \in Objects
  BY ObjectsDistinct DEF BuildEmbeddings
<1>2. /\ holds' \in [Objects -> SUBSET heap'] /\ LosesOnlyUnfinished'
      /\ \A p \in Objects : p # ModelObject => holds'[p] = holds[p]
      /\ \A a \in holds'[ModelObject] : a \in holds[ModelObject] \/ a.owner = "model"
  <2> DEFINE a == Allocation(ModelObject.kind, 0, Embeddings[n + 1])
  <2>1. /\ heap' = heap \cup {a} /\ pc # "failed"
        /\ holds' = [holds EXCEPT ![ModelObject] = @ \cup {a}]
    BY <1>1 DEF Allocate
  <2>2. a.owner = ModelObject.kind /\ a.k = 0 /\ a.field = Embeddings[n + 1]
    BY DEF Allocation
  <2> HIDE DEF a
  <2> QED BY <1>1, <2>1, <2>2, Allocated, ObjectsDistinct
<1>3. Control'
  BY <1>1, LayersAssumption DEF OwnInv, Control, Allocate
<1>4. Holdings'
  BY <1>1, <1>2, ObjectsDistinct DEF OwnInv, Control, Holdings, Allocate
<1>5. Unfinished'
  BY <1>1, <1>2, ObjectsDistinct DEF OwnInv, Holdings, Unfinished, Allocate
<1> QED BY <1>2, <1>3, <1>4, <1>5 DEF OwnInv

LEMMA BuildArraysInv ==
    ASSUME OwnInv, BuildArrays PROVE OwnInv'
<1>1. Allocate("arrays", Arrays, ModelObject, 0, "ready") /\ ModelObject \in Objects
  BY ObjectsDistinct DEF BuildArrays
<1>2. /\ holds' \in [Objects -> SUBSET heap'] /\ LosesOnlyUnfinished'
      /\ \A p \in Objects : p # ModelObject => holds'[p] = holds[p]
      /\ \A a \in holds'[ModelObject] : a \in holds[ModelObject] \/ a.owner = "model"
  <2> DEFINE a == Allocation(ModelObject.kind, 0, Arrays[n + 1])
  <2>1. /\ heap' = heap \cup {a} /\ pc # "failed"
        /\ holds' = [holds EXCEPT ![ModelObject] = @ \cup {a}]
    BY <1>1 DEF Allocate
  <2>2. a.owner = ModelObject.kind /\ a.k = 0 /\ a.field = Arrays[n + 1]
    BY DEF Allocation
  <2> HIDE DEF a
  <2> QED BY <1>1, <2>1, <2>2, Allocated, ObjectsDistinct
<1>3. Control'
  BY <1>1 DEF OwnInv, Control, Allocate
<1>4. Holdings'
  BY <1>1, <1>2, ObjectsDistinct DEF OwnInv, Control, Holdings, Allocate
<1>5. Unfinished'
  BY <1>1, <1>2, ObjectsDistinct DEF OwnInv, Holdings, Unfinished, Allocate
<1> QED BY <1>2, <1>3, <1>4, <1>5 DEF OwnInv

(* The first cache of a block, then the second, which ends its constructor. *)
LEMMA ConstructBlockInv ==
    ASSUME OwnInv, ConstructBlock PROVE OwnInv'
<1>1. Allocate("block", Caches, Local, layer, "weights") /\ Local \in Objects
  BY ObjectsDistinct DEF ConstructBlock
<1>2. /\ holds' \in [Objects -> SUBSET heap'] /\ LosesOnlyUnfinished'
      /\ \A p \in Objects : p # Local => holds'[p] = holds[p]
      /\ \A a \in holds'[Local] :
             \/ a \in holds[Local]
             \/ a.owner = "local" /\ a.k = layer /\ a.field = Caches[n + 1]
  <2> DEFINE a == Allocation(Local.kind, layer, Caches[n + 1])
  <2>1. /\ heap' = heap \cup {a} /\ pc # "failed"
        /\ holds' = [holds EXCEPT ![Local] = @ \cup {a}]
    BY <1>1 DEF Allocate
  <2>2. a.owner = Local.kind /\ a.k = layer /\ a.field = Caches[n + 1]
    BY DEF Allocation
  <2> HIDE DEF a
  <2> QED BY <1>1, <2>1, <2>2, Allocated, ObjectsDistinct
<1>3. Len(Caches) = 2 /\ Caches[1] = "k_"
  BY DEF Caches
<1>4. Control'
  BY <1>1, <1>3 DEF OwnInv, Control, Allocate
<1>5. Holdings'
  BY <1>1, <1>2, ObjectsDistinct DEF OwnInv, Control, Holdings, Allocate
<1>6. Unfinished'
  BY <1>1, <1>2, <1>3, ObjectsDistinct DEF OwnInv, Control, Unfinished, Allocate
<1> QED BY <1>2, <1>4, <1>5, <1>6 DEF OwnInv

LEMMA BuildWeightsInv ==
    ASSUME OwnInv, BuildWeights PROVE OwnInv'
<1>1. Allocate("weights", Weights, Local, layer, "push") /\ Local \in Objects
  BY ObjectsDistinct DEF BuildWeights
<1>2. /\ holds' \in [Objects -> SUBSET heap'] /\ LosesOnlyUnfinished'
      /\ \A p \in Objects : p # Local => holds'[p] = holds[p]
      /\ \A a \in holds'[Local] : a \in holds[Local] \/ (a.owner = "local" /\ a.k = layer)
  <2> DEFINE a == Allocation(Local.kind, layer, Weights[n + 1])
  <2>1. /\ heap' = heap \cup {a} /\ pc # "failed"
        /\ holds' = [holds EXCEPT ![Local] = @ \cup {a}]
    BY <1>1 DEF Allocate
  <2>2. a.owner = Local.kind /\ a.k = layer /\ a.field = Weights[n + 1]
    BY DEF Allocation
  <2> HIDE DEF a
  <2> QED BY <1>1, <2>1, <2>2, Allocated, ObjectsDistinct
<1>3. Control'
  BY <1>1 DEF OwnInv, Control, Allocate
<1>4. Holdings'
  BY <1>1, <1>2, ObjectsDistinct DEF OwnInv, Control, Holdings, Allocate
<1>5. Unfinished'
  BY <1>1 DEF OwnInv, Unfinished, Allocate
<1> QED BY <1>2, <1>3, <1>4, <1>5 DEF OwnInv

(* The block moves into blocks_, where no other block has its number. *)
LEMMA PushBlockInv ==
    ASSUME OwnInv, PushBlock PROVE OwnInv'
<1> DEFINE element == Object("block", layer)
<1>1. element \in Elements /\ element.k = layer /\ element \in Objects /\ Local \in Objects
      /\ element \notin {ModelObject, Local, StateObject}
  BY ObjectsDistinct DEF OwnInv, Control, PushBlock
<1> HIDE DEF element
<1>2. holds' = [holds EXCEPT ![element] = holds[Local], ![Local] = {}]
  BY DEF PushBlock, TakeOwnership, element
<1>3. holds[element] = {}
  BY <1>1 DEF OwnInv, Holdings, PushBlock
<1>4. /\ holds' \in [Objects -> SUBSET heap']
      /\ holds'[element] = holds[Local] /\ holds'[Local] = {}
      /\ \A p \in Objects : p \notin {element, Local} => holds'[p] = holds[p]
  BY <1>1, <1>2 DEF OwnInv, Holdings, PushBlock
<1>5. Control'
  BY DEF OwnInv, Control, PushBlock
<1>6. Holdings'
  BY <1>1, <1>4, ObjectsDistinct DEF OwnInv, Control, Holdings, PushBlock
<1>7. Unfinished'
  BY DEF Unfinished, PushBlock
<1>8. LosesOnlyUnfinished'
  BY <1>1, <1>3, <1>4 DEF OwnInv, LosesOnlyUnfinished, PushBlock
<1> QED BY <1>5, <1>6, <1>7, <1>8 DEF OwnInv

LEMMA DropBlockInv ==
    ASSUME OwnInv, DropBlock PROVE OwnInv'
<1>1. Unwind({Local}, {}) /\ {Local} \subseteq Objects /\ {} \subseteq Objects
  BY ObjectsDistinct DEF DropBlock, Destroy
<1>2. /\ holds' \in [Objects -> SUBSET heap']
      /\ holds'[Local] = {}
      /\ \A o \in Objects : o # Local => holds'[o] = holds[o]
      /\ \A a \in heap' : (\A o \in Objects : a \notin holds'[o]) =>
             a \in heap /\ \A o \in Objects : a \notin holds[o]
  BY <1>1, Unwound
<1>3. Control'
  BY LayersAssumption DEF OwnInv, Control, DropBlock
<1>4. Holdings'
  BY <1>2, ObjectsDistinct DEF OwnInv, Control, Holdings, DropBlock
<1>5. Unfinished'
  BY <1>2 DEF Unfinished, DropBlock
<1>6. LosesOnlyUnfinished'
  BY <1>2 DEF OwnInv, LosesOnlyUnfinished, DropBlock
<1> QED BY <1>3, <1>4, <1>5, <1>6 DEF OwnInv

LEMMA ValidateInv ==
    ASSUME OwnInv, Validate PROVE OwnInv'
BY DEF OwnInv, Control, Holdings, Unfinished, LosesOnlyUnfinished, Validate

(* Blocks are destroyed; the Model and a block under construction forget. *)
LEMMA ConstructorThrowsInv ==
    ASSUME OwnInv, ConstructorThrows PROVE OwnInv'
<1> DEFINE forgotten == {ModelObject} \cup (IF pc = "block" THEN {Local} ELSE {})
           destroyed == (Elements \cup {Local}) \ forgotten
<1>1. /\ Unwind(destroyed, forgotten)
      /\ destroyed \subseteq Objects /\ forgotten \subseteq Objects
      /\ \A o \in {ModelObject, Local} \cup Elements : o \in destroyed \/ o \in forgotten
      /\ StateObject \notin destroyed /\ StateObject \notin forgotten
      /\ \A o \in forgotten : o = ModelObject \/ (o = Local /\ pc = "block")
  <2>1. Unwind(destroyed, forgotten)
    BY DEF ConstructorThrows
  <2>2. \A o \in forgotten : o = ModelObject \/ (o = Local /\ pc = "block")
    OBVIOUS
  <2> QED BY <2>1, <2>2, ObjectsDistinct
<1> HIDE DEF forgotten, destroyed
<1>2. /\ holds' \in [Objects -> SUBSET heap']
      /\ \A o \in Objects : o \in destroyed \/ o \in forgotten => holds'[o] = {}
      /\ \A o \in Objects : o \notin destroyed /\ o \notin forgotten => holds'[o] = holds[o]
      /\ \A a \in heap' : (\A o \in Objects : a \notin holds'[o]) =>
             \/ a \in heap /\ \A o \in Objects : a \notin holds[o]
             \/ \E o \in Objects : o \in forgotten /\ o \notin destroyed /\ a \in holds[o]
  BY <1>1, Unwound
<1>3. \A o \in Objects : holds'[o] = {}
  BY <1>1, <1>2, ObjectsDistinct DEF OwnInv, Holdings, ConstructorThrows
<1>4. Control'
  BY DEF OwnInv, Control, ConstructorThrows
<1>5. Holdings'
  BY <1>2, <1>3, ObjectsDistinct DEF Holdings
<1>6. Unfinished'
  BY DEF Unfinished, ConstructorThrows
<1>7. ASSUME NEW a \in heap', \A o \in Objects : a \notin holds'[o]
      PROVE  \/ a.owner = "model"
             \/ a.owner = "local" /\ a.field = "k_" /\ a.k = layer
             \/ a.owner = "state" /\ a.field # Buffers[Len(Buffers)]
  <2>1. CASE a \in heap /\ \A o \in Objects : a \notin holds[o]
    BY <2>1 DEF OwnInv, LosesOnlyUnfinished, ConstructorThrows
  <2>2. CASE a \in holds[ModelObject]
    BY <2>2 DEF OwnInv, Holdings
  <2>3. CASE a \in holds[Local] /\ pc = "block"
    BY <2>3 DEF OwnInv, Holdings, Unfinished
  <2> QED BY <1>1, <1>2, <1>7, <2>1, <2>2, <2>3
<1>8. LosesOnlyUnfinished'
  BY <1>7 DEF LosesOnlyUnfinished, ConstructorThrows
<1> QED BY <1>4, <1>5, <1>6, <1>8 DEF OwnInv

LEMMA BeginRequestInv ==
    ASSUME OwnInv, BeginRequest PROVE OwnInv'
BY DEF OwnInv, Control, Holdings, Unfinished, LosesOnlyUnfinished, BeginRequest

(* Before the last buffer, the State has exactly the first n. *)
LEMMA ConstructStateInv ==
    ASSUME OwnInv, ConstructState PROVE OwnInv'
<1>1. Allocate("state", Buffers, StateObject, calls, "generate") /\ StateObject \in Objects
  BY ObjectsDistinct DEF ConstructState
<1>2. /\ holds' \in [Objects -> SUBSET heap'] /\ LosesOnlyUnfinished'
      /\ \A p \in Objects : p # StateObject => holds'[p] = holds[p]
      /\ \A a \in holds'[StateObject] :
             \/ a \in holds[StateObject]
             \/ a.owner = "state" /\ a.field = Buffers[n + 1]
  <2> DEFINE a == Allocation(StateObject.kind, calls, Buffers[n + 1])
  <2>1. /\ heap' = heap \cup {a} /\ pc # "failed"
        /\ holds' = [holds EXCEPT ![StateObject] = @ \cup {a}]
    BY <1>1 DEF Allocate
  <2>2. a.owner = StateObject.kind /\ a.k = calls /\ a.field = Buffers[n + 1]
    BY DEF Allocation
  <2> HIDE DEF a
  <2> QED BY <1>1, <2>1, <2>2, Allocated, ObjectsDistinct
<1>3. Control'
  BY <1>1 DEF OwnInv, Control, Allocate
<1>4. Holdings'
  BY <1>1, <1>2, ObjectsDistinct DEF OwnInv, Control, Holdings, Allocate
<1>5. Unfinished'
  <2> SUFFICES ASSUME pc' = "state"
               PROVE  /\ n' < Len(Buffers)
                      /\ \A a \in holds'[StateObject] : \E i \in 1 .. n' : a.field = Buffers[i]
    BY <1>1 DEF Unfinished, Allocate
  <2>1. n \in Nat /\ n < Len(Buffers) /\ Len(Buffers) \in Nat /\ n' = n + 1 /\ n' # Len(Buffers)
    BY <1>1, FieldsAssumption DEF OwnInv, Control, Allocate
  <2>2. \A a \in holds[StateObject] : \E i \in 1 .. n : a.field = Buffers[i]
    BY <1>1 DEF OwnInv, Unfinished, Allocate
  <2> QED BY <1>2, <2>1, <2>2
<1> QED BY <1>2, <1>3, <1>4, <1>5 DEF OwnInv

LEMMA StateThrowsInv ==
    ASSUME OwnInv, StateThrows PROVE OwnInv'
<1>1. Unwind({}, {StateObject}) /\ {} \subseteq Objects /\ {StateObject} \subseteq Objects
  BY ObjectsDistinct DEF StateThrows
<1>2. /\ holds' \in [Objects -> SUBSET heap']
      /\ holds'[StateObject] = {}
      /\ \A o \in Objects : o # StateObject => holds'[o] = holds[o]
      /\ \A a \in heap' : (\A o \in Objects : a \notin holds'[o]) =>
             \/ a \in heap /\ \A o \in Objects : a \notin holds[o]
             \/ a \in holds[StateObject]
  BY <1>1, Unwound
<1>3. Control'
  BY DEF OwnInv, Control, StateThrows
<1>4. Holdings'
  BY <1>2, ObjectsDistinct DEF OwnInv, Control, Holdings, StateThrows
<1>5. Unfinished'
  BY DEF Unfinished, StateThrows
<1>6. \A a \in holds[StateObject] : a.owner = "state" /\ a.field # Buffers[Len(Buffers)]
  <2> SUFFICES ASSUME NEW a \in holds[StateObject]
               PROVE  a.field # Buffers[Len(Buffers)]
    BY DEF OwnInv, Holdings
  <2>1. PICK i \in 1 .. n : a.field = Buffers[i]
    BY DEF OwnInv, Unfinished, StateThrows
  <2>2. n \in Nat /\ n < Len(Buffers) /\ Len(Buffers) \in Nat
        /\ DOMAIN Buffers = 1 .. Len(Buffers)
    BY <2>1, FieldsAssumption DEF OwnInv, Control, Unfinished, StateThrows
  <2> QED BY <2>1, <2>2, FieldsAssumption
<1>7. LosesOnlyUnfinished'
  BY <1>2, <1>6 DEF OwnInv, LosesOnlyUnfinished, StateThrows
<1> QED BY <1>3, <1>4, <1>5, <1>7 DEF OwnInv

LEMMA EndRequestInv ==
    ASSUME OwnInv, EndRequest PROVE OwnInv'
<1>1. Unwind({StateObject}, {}) /\ {} \subseteq Objects /\ {StateObject} \subseteq Objects
  BY ObjectsDistinct DEF EndRequest, Destroy
<1>2. /\ holds' \in [Objects -> SUBSET heap']
      /\ holds'[StateObject] = {}
      /\ \A o \in Objects : o # StateObject => holds'[o] = holds[o]
      /\ \A a \in heap' : (\A o \in Objects : a \notin holds'[o]) =>
             a \in heap /\ \A o \in Objects : a \notin holds[o]
  BY <1>1, Unwound
<1>3. Control'
  BY DEF OwnInv, Control, EndRequest
<1>4. Holdings'
  BY <1>2, ObjectsDistinct DEF OwnInv, Control, Holdings, EndRequest
<1>5. Unfinished'
  BY DEF Unfinished, EndRequest
<1>6. LosesOnlyUnfinished'
  BY <1>2 DEF OwnInv, LosesOnlyUnfinished, EndRequest
<1> QED BY <1>3, <1>4, <1>5, <1>6 DEF OwnInv

(* The destructor runs between requests, when no State is left. *)
LEMMA DestroyModelInv ==
    ASSUME OwnInv, DestroyModel PROVE OwnInv'
<1>1. /\ Unwind(ReleasedObjects, {ModelObject})
      /\ ReleasedObjects \subseteq Objects /\ {ModelObject} \subseteq Objects
      /\ ReleasedObjects = Elements \cup {ModelObject}
  BY ObjectsDistinct DEF DestroyModel, ReleasedObjects
<1>2. /\ holds' \in [Objects -> SUBSET heap']
      /\ \A o \in ReleasedObjects : holds'[o] = {}
      /\ \A o \in Objects : o \notin ReleasedObjects => holds'[o] = holds[o]
      /\ \A a \in heap' : (\A o \in Objects : a \notin holds'[o]) =>
             a \in heap /\ \A o \in Objects : a \notin holds[o]
  BY <1>1, Unwound
<1>3. \A o \in Objects : holds'[o] = {}
  BY <1>1, <1>2, ObjectsDistinct DEF OwnInv, Holdings, DestroyModel
<1>4. Control'
  BY DEF OwnInv, Control, DestroyModel
<1>5. Holdings'
  BY <1>2, <1>3, ObjectsDistinct DEF Holdings
<1>6. Unfinished'
  BY DEF Unfinished, DestroyModel
<1>7. LosesOnlyUnfinished'
  BY <1>2 DEF OwnInv, LosesOnlyUnfinished, DestroyModel
<1> QED BY <1>4, <1>5, <1>6, <1>7 DEF OwnInv

LEMMA OwnInvAlways == Spec => []OwnInv
<1>1. Init => OwnInv
  BY LayersAssumption, ObjectsDistinct
  DEF Init, OwnInv, Control, Holdings, Unfinished, LosesOnlyUnfinished
<1>2. OwnInv /\ [Next]_vars => OwnInv'
  <2>1. ASSUME OwnInv, UNCHANGED vars PROVE OwnInv'
    BY <2>1 DEF OwnInv, Control, Holdings, Unfinished, LosesOnlyUnfinished, vars
  <2> QED
    BY <2>1, BuildEmbeddingsInv, BuildArraysInv, ConstructBlockInv, BuildWeightsInv,
       PushBlockInv, DropBlockInv, ValidateInv, ConstructorThrowsInv, BeginRequestInv,
       ConstructStateInv, StateThrowsInv, EndRequestInv, DestroyModelInv
    DEF Next
<1> QED BY <1>1, <1>2, PTL DEF Spec
-----------------------------------------------------------------------------
(* Nothing is freed twice or used after it was freed: of every number of   *)
(* blocks and weights, through the moves of a block and every exception.   *)
THEOREM Owners == Spec => []OneOwner
<1>1. OwnInv => OneOwner
  BY HoldingsOneOwner DEF OwnInv
<1> QED BY <1>1, OwnInvAlways, PTL

(* What can no longer be freed was lost by a constructor that threw. *)
THEOREM LostByConstructors == Spec => []LosesOnlyUnfinished
<1>1. OwnInv => LosesOnlyUnfinished
  BY DEF OwnInv
<1> QED BY <1>1, OwnInvAlways, PTL

(* The destructor of a Model gives back all its pointers and blocks held. *)
THEOREM DestructorComplete == Spec => []DestructorReleasesAll
<1>1. OwnInv => DestructorReleasesAll
  BY DEF OwnInv, Holdings, LosesOnlyUnfinished, DestructorReleasesAll
<1> QED BY <1>1, OwnInvAlways, PTL
=============================================================================
