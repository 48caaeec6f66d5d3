------------------------- MODULE StreamingAttention -------------------------
(***************************************************************************)
(* What the key/value cache promises, with no cache in sight: a sequence   *)
(* of positions flows through the layers in order, and the query of each   *)
(* position attends to a fixed window of the sequence, each position of it *)
(* at a fixed relative distance.  As long as the sequence fits the         *)
(* capacity the window is the whole past at its true distances.  Beyond    *)
(* it, the window is the most recent positions at their true distances and *)
(* the first Sinks positions at the distances just beyond those.           *)
(***************************************************************************)
EXTENDS Integers

CONSTANTS
    Layers,    \* number of layers
    Capacity,  \* positions a query attends to, at most
    Sinks      \* first positions every later query keeps, fewer than Capacity

VARIABLES
    call,      \* which request the sequence belongs to
    length,    \* length[l]: positions layer l has processed
    view       \* view[l]: what the queries of layer l's last step attended to

vars == <<call, length, view>>

LayerIds == 1 .. Layers

(* Query q of request c sees position p at relative distance d. *)
Sight(c, q, p, d) == [call |-> c, query |-> q, pos |-> p, distance |-> d]

(* Everything the query of position q attends to. *)
Window(c, q) ==
    IF q < Capacity
    THEN {Sight(c, q, p, q - p) : p \in 0 .. q}
    ELSE {Sight(c, q, p, q - p) : p \in q - (Capacity - Sinks) + 1 .. q}
         \cup {Sight(c, q, p, Capacity - 1 - p) : p \in 0 .. Sinks - 1}

Init ==
    /\ call = 0
    /\ length = [l \in LayerIds |-> 0]
    /\ view = [l \in LayerIds |-> {}]

(* A new request starts from an empty sequence. *)
Restart ==
    /\ call' = call + 1
    /\ length' = [l \in LayerIds |-> 0]
    /\ view' = [l \in LayerIds |-> {}]

(* Layer l processes the next k positions, which layer l-1 already has.   *)
(* Several positions at once only while they fit the capacity.            *)
Extend(l, k) ==
    LET from == length[l] IN
    /\ k = 1 \/ from + k <= Capacity
    /\ l > 1 => length[l - 1] >= from + k
    /\ l = 1 => \A m \in LayerIds : length[m] = from
    /\ length' = [length EXCEPT ![l] = from + k]
    /\ view' = [view EXCEPT ![l] = UNION {Window(call, q) : q \in from .. from + k - 1}]
    /\ UNCHANGED call

Next ==
    \/ Restart
    \/ \E l \in LayerIds, k \in 1 .. Capacity : Extend(l, k)

Spec == Init /\ [][Next]_vars
=============================================================================
