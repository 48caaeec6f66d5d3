--------------------------- MODULE MCKernelThreads ---------------------------
(* The launches: shapes around the sizes of a tile, a block and a warp. *)
EXTENDS KernelThreads

MCLaunches ==
    {Product(n, m, batch, 2) : n \in {2, 3}, m \in {1, 4, 5}, batch \in {2, 3}}
    \cup {Product(3, m, 1, warp) : m \in {3, 5}, warp \in {1, 2, 4}}
    \cup {NormRope(2, 1, dims[1], dims[2], 1, 1, 2) :
            dims \in {<<3, 2>>, <<4, 0>>, <<4, 2>>, <<4, 4>>, <<10, 6>>}}
    \cup {NormRope(heads, heads, 4, 2, 7, 2, 1) : heads \in {1, 2}}
    \cup {Sinks(sinks, 2, dims[1], dims[2]) :
            sinks \in {0, 2}, dims \in {<<3, 2>>, <<4, 0>>, <<4, 2>>, <<4, 4>>}}
=============================================================================
