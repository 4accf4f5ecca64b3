---------------------------- MODULE MCSizeClass -----------------------------
(* The requests of SizeClass for TLC.                                      *)
EXTENDS SizeClass

\* Every size up to the largest that slab_alloc accepts, and one more.
MCMallocs == [size : 0 .. MEDIUM_MAX + 1, align : {MIN_ALIGN}]

\* Sizes at which the sums of large.c and os.c begin to wrap around, and beyond.
Limits == {SizeMod - k : k \in {1, 48, 49, 4095, 4096, 4097, 4143, 4144, 4145, 8192, 8256,
                                65536, 131072, 131120, 266240, 266400}}

\* Sizes at the limits of my_memalign and at the edges of small, medium and half-page
\* classes, with every alignment that is not left to my_malloc, and one that is too
\* large for a page.
Edges == {0, 1, 64, 100, 127, 128, 129, 144, 145, 1000, 1024, 4096, 32464, 32465, 32768,
          40000, 65536, 65537, 131071, 131072, 131073}
MCMemaligns == [size : Edges \cup Limits, align : {2^k : k \in 5 .. 17}]

\* my_realloc from every class, to both sides of the edges of every small class, and of
\* some others.
MCNewSizes == (1 .. 145) \cup (Edges \ {0}) \cup Limits

MCRequests == MCMallocs \cup [size : Limits, align : {MIN_ALIGN}] \cup MCMemaligns
=============================================================================
