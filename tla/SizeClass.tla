----------------------------- MODULE SizeClass ------------------------------
(***************************************************************************)
(* The size classes of size_class.c, and the way of a request through      *)
(* my_malloc, my_memalign or the slab part of my_realloc, slab_alloc_inner *)
(* and size_to_bin to a slot size or to a large allocation, whose mapping  *)
(* os_mmap_aligned trims.                                                  *)
(***************************************************************************)
EXTENDS Integers, FiniteSetsExt

CONSTANTS
    Requests,       \* the calls made: [size, align], align = MIN_ALIGN for my_malloc
    NewSizes,       \* the sizes that my_realloc is called with
    OsPage,         \* os_page_size()
    SizeMod         \* 2^64: size_t and addresses are below this

SMALL_MAX       == 128
MEDIUM_MAX      == 128 * 1024
SMALL_BIN_COUNT == 16
BIN_COUNT       == 75
MIN_ALIGN       == 16
PAGE_SIZE_ALLOC == 65536

LARGE_HEADER_SIZE == 48

\* my_memalign accepts powers of two only (malloc.c:145), and a page is one: of two
\* such numbers, the larger is a multiple of the smaller.
ASSUME PageAssumption == OsPage \in Nat \ {0} /\ OsPage % MIN_ALIGN = 0
ASSUME WordAssumption ==
    SizeMod \in Nat /\ SizeMod % OsPage = 0 /\ SizeMod >= 2 * MEDIUM_MAX + OsPage
ASSUME RequestAssumption ==
    /\ Requests \subseteq [size : Nat, align : Nat \ {0}]
    /\ \A r \in Requests :
         /\ r.size < SizeMod /\ 2 * r.align <= SizeMod
         /\ r.align > MIN_ALIGN => r.align % MIN_ALIGN = 0
         /\ r.align > OsPage => r.align % OsPage = 0
    /\ NewSizes \subseteq 0 .. SizeMod - 1

RoundUp(n, m) == ((n + m - 1) \div m) * m

\* The same where the sum may wrap around.
Word(n) == n % SizeMod
RoundUpWord(n, m) == (Word(n + m - 1) \div m) * m

-----------------------------------------------------------------------------
VARIABLES
    bin_size,       \* g_state.bin_size
    bin, double,    \* the loop of size_class_init: the next bin, and its double
    stage,          \* where the calls of size_class_init, slab_alloc and size_to_bin are
    request,        \* the call
    old,            \* the block that my_realloc is called with
    size,           \* the argument of slab_alloc
    lo, hi,         \* the binary search of size_to_bin
    block,          \* what the call returns: the kind of block and its layout
    copied          \* the bytes my_realloc copies; 0 if it returns the old block

initVars == <<bin_size, bin, double>>
requestVars == <<request, old, size, lo, hi, block, copied>>
classVars == <<initVars, stage, requestVars>>

Bin == 0 .. BIN_COUNT - 1

\* The double is kept in units of 2^-12, which is enough to give the integer parts
\* that the program rounds.
Unit == 4096

NoBlock == [kind |-> "none"]
NullBlock == [kind |-> "null"]

\* A slot of slab_alloc, with slot_size and capacity as page_init sets them, and the
\* bin it is of.
SlabBlock(b) ==
    LET slot_size == RoundUp(Max({bin_size[b], MIN_ALIGN}), MIN_ALIGN)
    IN  [kind |-> "slab", bin |-> b, slot_size |-> slot_size,
         capacity |-> PAGE_SIZE_ALLOC \div slot_size]

\* The pages of which some byte is in a range: mmap and munmap work on these.
Pages(from, length) == from \div OsPage .. (from + length - 1) \div OsPage

\* The addresses that mmap may return, up to the alignment.
Addresses(align) == {k * OsPage : k \in 1 .. Max({align \div OsPage, 1})}

\* mmap has no mapping of length 0, and none that does not end in the address space.
Mmaps(addr, length) == length > 0 /\ addr + length < SizeMod

\* The length that os_mmap_aligned asks for: more than it needs if the alignment is larger
\* than a page.
Extra(total, align) == IF align > OsPage THEN Word(total + align - 1) ELSE total

\* os_mmap_aligned, when mmap returns addr: it unmaps what is in front of the first aligned
\* address and what is behind the end.
MmapAligned(total, align, addr) ==
    IF align <= OsPage THEN [base |-> addr, mapped |-> Pages(addr, total)]
    ELSE LET extra   == Extra(total, align)
             aligned == RoundUpWord(addr, align)
             end     == Word(aligned + total)
         IN  [base |-> aligned,
              mapped |-> Pages(addr, extra) \ (Pages(addr, aligned - addr)
                                               \cup Pages(end, addr + extra - end))]

\* large_alloc_aligned: the block starts header bytes into an aligned mapping ...
LargeHeader(align) == RoundUp(LARGE_HEADER_SIZE, align)
LargeTotal(n, align) == RoundUpWord(LargeHeader(align) + n, OsPage)

LargeBlock(n, align, addr) ==
    LET mmap == MmapAligned(LargeTotal(n, align), align, addr)
    IN  [kind |-> "large", header |-> LargeHeader(align), total |-> LargeTotal(n, align),
         base |-> mmap.base, mapped |-> mmap.mapped]

\* ... if there is one: mmap may always fail.
LargeBlocks(n, align) ==
    {NullBlock} \cup
    {LargeBlock(n, align, addr) :
        addr \in {a \in Addresses(align) : Mmaps(a, Extra(LargeTotal(n, align), align))}}

\* Mutant of CopySize: as much as the new block holds is copied.
CopyNew(n) == size

\* The bytes that my_realloc copies from a block of n bytes.
CopySize(n) == Min({n, size})

\* The call returns b; my_realloc returns the block it was called with if it is of the
\* class that b would be, and copies nothing if there is no other.
Finish(b) ==
    /\ stage' = "done"
    /\ block' = b
    /\ copied' = IF \/ old.kind = "none" \/ b.kind = "null"
                    \/ b.kind = "slab" /\ size <= old.slot_size /\ b.bin = old.bin
                 THEN 0
                 ELSE CopySize(old.slot_size)

\* size_class_init has set the small bins.
ClassInit ==
    /\ bin_size = [b \in Bin |-> IF b < SMALL_BIN_COUNT THEN (b + 1) * 8 ELSE 0]
    /\ bin = SMALL_BIN_COUNT
    /\ double = SMALL_MAX * Unit
    /\ stage = "init"
    /\ request = [size |-> 0, align |-> MIN_ALIGN]
    /\ old = NoBlock
    /\ size = 0
    /\ lo = 0 /\ hi = 0
    /\ block = NoBlock
    /\ copied = 0

\* One turn of the loop over the medium bins: 12.5% more, rounded up to a multiple of
\* 16, more than the last bin and at most MEDIUM_MAX.
InitMedium ==
    /\ stage = "init"
    /\ bin < BIN_COUNT
    /\ double < MEDIUM_MAX * Unit
    /\ bin_size[bin - 1] < MEDIUM_MAX
    /\ double' = double + double \div 8
    /\ LET rounded == Max({RoundUp(double' \div Unit, 16), bin_size[bin - 1] + 16})
       IN  bin_size' = [bin_size EXCEPT ![bin] = Min({rounded, MEDIUM_MAX})]
    /\ bin' = bin + 1
    /\ UNCHANGED <<stage, requestVars>>

\* The bins that are left get the size of the last one.
InitRest ==
    /\ stage = "init"
    /\ \/ bin = BIN_COUNT
       \/ double >= MEDIUM_MAX * Unit
       \/ bin_size[bin - 1] >= MEDIUM_MAX
    /\ bin_size' = [b \in Bin |-> IF b < bin THEN bin_size[b] ELSE bin_size[bin - 1]]
    /\ stage' = "idle"
    /\ UNCHANGED <<bin, double, requestVars>>

\* my_malloc, and my_memalign with an alignment every block has.
MallocSize(r) ==
    /\ r.align <= MIN_ALIGN
    /\ request' = r
    /\ size' = r.size
    /\ stage' = "slab_alloc"
    /\ UNCHANGED <<initVars, old, lo, hi, block, copied>>

\* my_realloc of a slot of bin b: size_to_bin or, if that is not its bin, my_malloc finds
\* the bin of the new size.
Realloc(b, n) ==
    /\ bin_size[b] <= PAGE_SIZE_ALLOC \div 2
    /\ request' = [size |-> n, align |-> MIN_ALIGN]
    /\ old' = SlabBlock(b)
    /\ size' = n
    /\ stage' = "slab_alloc"
    /\ UNCHANGED <<initVars, lo, hi, block, copied>>

AllocSize(r) == RoundUp(Max({r.size, r.align}), r.align)

\* my_memalign goes to large_alloc_aligned ...
MemalignLarge(r) ==
    /\ r.align > MIN_ALIGN
    /\ \/ r.size > MEDIUM_MAX
       \/ r.align > PAGE_SIZE_ALLOC
       \/ AllocSize(r) > MEDIUM_MAX
    /\ request' = r
    /\ \E b \in LargeBlocks(r.size, r.align) : Finish(b)
    /\ UNCHANGED <<initVars, old, size, lo, hi>>

\* ... or to slab_alloc with a multiple of the alignment.
MemalignSlab(r) ==
    /\ r.align > MIN_ALIGN
    /\ r.size <= MEDIUM_MAX
    /\ r.align <= PAGE_SIZE_ALLOC
    /\ AllocSize(r) <= MEDIUM_MAX
    /\ request' = r
    /\ size' = AllocSize(r)
    /\ stage' = "slab_alloc"
    /\ UNCHANGED <<initVars, old, lo, hi, block, copied>>

\* slab_alloc_inner: a large size.
SlabTooLarge ==
    /\ stage = "slab_alloc"
    /\ size > MEDIUM_MAX
    /\ \E b \in LargeBlocks(size, MIN_ALIGN) : Finish(b)
    /\ UNCHANGED <<initVars, request, old, size, lo, hi>>

\* The size that size_to_bin looks for.
Wanted == RoundUp(Max({size, 1}), 8)

\* size_to_bin: a small size is looked up in a table ...
SmallBin ==
    /\ stage = "slab_alloc"
    /\ Wanted <= SMALL_MAX
    /\ Finish(SlabBlock(Wanted \div 8 - 1))
    /\ UNCHANGED <<initVars, request, old, size, lo, hi>>

\* ... and a medium one by a binary search.
MediumBin ==
    /\ stage = "slab_alloc"
    /\ Wanted > SMALL_MAX
    /\ size <= MEDIUM_MAX
    /\ lo' = SMALL_BIN_COUNT
    /\ hi' = BIN_COUNT - 1
    /\ stage' = "search"
    /\ UNCHANGED <<initVars, request, old, size, block, copied>>

\* Mutant of Search: the lower half is cut one bin short.
SearchShort ==
    /\ stage = "search"
    /\ lo < hi
    /\ LET mid == (lo + hi) \div 2
       IN  IF bin_size[mid] < Wanted
           THEN lo' = mid + 1 /\ UNCHANGED hi
           ELSE hi' = mid - 1 /\ UNCHANGED lo
    /\ UNCHANGED <<initVars, stage, request, old, size, block, copied>>

Search ==
    /\ stage = "search"
    /\ lo < hi
    /\ LET mid == (lo + hi) \div 2
       IN  IF bin_size[mid] < Wanted
           THEN lo' = mid + 1 /\ UNCHANGED hi
           ELSE hi' = mid /\ UNCHANGED lo
    /\ UNCHANGED <<initVars, stage, request, old, size, block, copied>>

\* Mutant of Found: every class is served from a page.
FoundAnySize ==
    /\ stage = "search"
    /\ lo = hi
    /\ Finish(SlabBlock(lo))
    /\ UNCHANGED <<initVars, request, old, size, lo, hi>>

\* The search has ended; a slot of more than half a page is a large allocation.
Found ==
    /\ stage = "search"
    /\ lo = hi
    /\ IF bin_size[lo] > PAGE_SIZE_ALLOC \div 2
       THEN \E b \in LargeBlocks(size, MIN_ALIGN) : Finish(b)
       ELSE Finish(SlabBlock(lo))
    /\ UNCHANGED <<initVars, request, old, size, lo, hi>>

\* The next call.
Again ==
    /\ stage = "done"
    /\ stage' = "idle"
    /\ request' = [size |-> 0, align |-> MIN_ALIGN]
    /\ old' = NoBlock
    /\ size' = 0
    /\ lo' = 0 /\ hi' = 0
    /\ block' = NoBlock
    /\ copied' = 0
    /\ UNCHANGED initVars

ClassNext ==
    \/ InitMedium \/ InitRest
    \/ /\ stage = "idle"
       /\ \/ \E r \in Requests : MallocSize(r) \/ MemalignLarge(r) \/ MemalignSlab(r)
          \/ \E b \in Bin, n \in NewSizes : Realloc(b, n)
    \/ SlabTooLarge \/ SmallBin \/ MediumBin \/ Search \/ Found
    \/ Again

ClassSpec == ClassInit /\ [][ClassNext]_classVars

-----------------------------------------------------------------------------
(* Properties.                                                             *)

\* size_to_bin finds the smallest class that holds the request: it implements its
\* definition for every size, at the edges of every class, at 128 bytes and at the
\* largest size.
BestFit ==
    block.kind = "slab" =>
        /\ size <= bin_size[block.bin]
        /\ \A b \in Bin : b < block.bin => bin_size[b] < size

\* Requests that are not close to the largest size_t: no sum of large_alloc_aligned or of
\* os_mmap_aligned wraps around.  (Neither function tests this.)
InRange(n, align) ==
    LARGE_HEADER_SIZE + n + OsPage + 2 * Max({align, MIN_ALIGN}) <= SizeMod

\* A page holds at least two slots of a class that slab_alloc serves.  Each of them
\* is inside the page, holds what was asked for and starts at a multiple of
\* MIN_ALIGN.  A large block of a request in range does too, with its header in front, and
\* wherever mmap puts it, trimming leaves its mapping and nothing else: all of it is given
\* back by a munmap of base and size.
BlocksFit ==
    /\ block.kind = "slab" =>
         /\ block.capacity >= 2
         /\ block.capacity * block.slot_size <= PAGE_SIZE_ALLOC
         /\ request.size <= block.slot_size
         /\ block.slot_size % MIN_ALIGN = 0
    /\ block.kind = "large" /\ InRange(request.size, request.align) =>
         /\ block.header >= LARGE_HEADER_SIZE
         /\ (block.base + block.header) % MIN_ALIGN = 0
         /\ block.header + request.size <= block.total
         /\ block.mapped = Pages(block.base, block.total)

\* my_realloc keeps what my_malloc_usable_size has promised, slot_size bytes: a slot is
\* kept only if it holds the new size, and otherwise all that fits is copied, and no
\* byte from behind the old block or to behind the new one.  The new size is in range if the
\* new block is large.
ReallocKeepsContents ==
    /\ stage = "done" /\ old.kind = "slab" /\ block.kind # "null"
    /\ block.kind = "large" => InRange(size, MIN_ALIGN)
    =>
        LET room == IF block.kind = "slab" THEN block.slot_size
                    ELSE block.total - block.header
        IN  /\ size <= room
            /\ copied <= Min({old.slot_size, room})
            /\ block = old \/ copied >= Min({old.slot_size, size})

\* my_memalign returns a multiple of the alignment: "Find a size class where slot_size
\* is a multiple of alignment", so that every slot of a page is aligned, and a header
\* that keeps the alignment of a large block.
MemalignAligned ==
    /\ block.kind = "slab" => block.slot_size % request.align = 0
    /\ block.kind = "large" => (block.base + block.header) % request.align = 0

-----------------------------------------------------------------------------
(* The inductive invariant.                                                *)

\* What the loop of size_class_init passes through: a bin and the double before it.
Doubles ==
    {<<16, 524288>>, <<17, 589824>>, <<18, 663552>>, <<19, 746496>>,
     <<20, 839808>>, <<21, 944784>>, <<22, 1062882>>, <<23, 1195742>>,
     <<24, 1345209>>, <<25, 1513360>>, <<26, 1702530>>, <<27, 1915346>>,
     <<28, 2154764>>, <<29, 2424109>>, <<30, 2727122>>, <<31, 3068012>>,
     <<32, 3451513>>, <<33, 3882952>>, <<34, 4368321>>, <<35, 4914361>>,
     <<36, 5528656>>, <<37, 6219738>>, <<38, 6997205>>, <<39, 7871855>>,
     <<40, 8855836>>, <<41, 9962815>>, <<42, 11208166>>, <<43, 12609186>>,
     <<44, 14185334>>, <<45, 15958500>>, <<46, 17953312>>, <<47, 20197476>>,
     <<48, 22722160>>, <<49, 25562430>>, <<50, 28757733>>, <<51, 32352449>>,
     <<52, 36396505>>, <<53, 40946068>>, <<54, 46064326>>, <<55, 51822366>>,
     <<56, 58300161>>, <<57, 65587681>>, <<58, 73786141>>, <<59, 83009408>>,
     <<60, 93385584>>, <<61, 105058782>>, <<62, 118191129>>, <<63, 132965020>>,
     <<64, 149585647>>, <<65, 168283852>>, <<66, 189319333>>, <<67, 212984249>>,
     <<68, 239607280>>, <<69, 269558190>>, <<70, 303252963>>, <<71, 341159583>>,
     <<72, 383804530>>, <<73, 431780096>>, <<74, 485752608>>, <<75, 546471684>>}

\* The bins below the loop's are strictly increasing, the last of them is at least the
\* double, and the double grows fast enough to be over MEDIUM_MAX at the last bin.
Growing ==
    /\ <<bin, double>> \in Doubles
    /\ \A a, b \in Bin : a < b /\ b < bin => bin_size[a] < bin_size[b]
    /\ \/ bin = SMALL_BIN_COUNT
       \/ bin_size[bin - 1] >= double \div Unit
       \/ bin_size[bin - 1] = MEDIUM_MAX

\* The table that size_to_bin searches: it is sorted, and every size up to MEDIUM_MAX
\* has a class.
Sorted ==
    /\ \A a, b \in Bin : a < b => bin_size[a] <= bin_size[b]
    /\ bin_size[BIN_COUNT - 1] = MEDIUM_MAX

TableInv ==
    /\ bin_size \in [Bin -> 0 .. MEDIUM_MAX]
    /\ \A b \in Bin : /\ bin_size[b] % 8 = 0
                      /\ b < SMALL_BIN_COUNT => bin_size[b] = (b + 1) * 8
    /\ IF stage = "init" THEN Growing ELSE Sorted

\* The binary search: the class of the size is between lo and hi.
Searching ==
    /\ size <= MEDIUM_MAX
    /\ lo \in Bin /\ hi \in Bin /\ lo <= hi
    /\ \A b \in Bin : b < lo => bin_size[b] < Wanted
    /\ Wanted <= bin_size[hi]

ClassInv ==
    /\ TableInv
    /\ stage \in {"init", "idle", "slab_alloc", "search", "done"}
    /\ size \in Nat /\ request.size \in Nat /\ request.align \in Nat
    /\ old = NoBlock \/ \E b \in Bin : old = SlabBlock(b)
    /\ stage \in {"init", "idle"} => old = NoBlock
    /\ stage # "done" => block = NoBlock
    /\ stage \in {"slab_alloc", "search"} =>
         request.size <= size /\ (size > MEDIUM_MAX => size = request.size)
    /\ stage = "search" => Searching
    /\ BestFit /\ BlocksFit /\ ReallocKeepsContents
=============================================================================
