------------------------------ MODULE Dlmalloc ------------------------------
(* Win32_dlmalloc.c, the allocator of the USE_DLMALLOC build, on top of the  *)
(* heap blocks of Win32_QFork.cpp.  The functions of the allocator are       *)
(* operators on its malloc_state m, as in C; one that allocates returns the  *)
(* new state and the address (0 for NULL).  The actions are the sections     *)
(* that run under the lock of gm, and the unlocked steps between them.       *)
(*                                                                           *)
(* Sizes and addresses are in words of SIZE_T_SIZE = 8 bytes, so that        *)
(* MALLOC_ALIGNMENT is 2.  A chunk is an entry of m.head at its address; m   *)
(* .foot holds prev_foot where the code may read it (before a chunk whose    *)
(* predecessor is free, and the offset of a mapped chunk).  Writing a head   *)
(* forgets the heads inside the chunk: reading a stale one is an error.      *)
EXTENDS Integers, Sequences, SequencesExt, QForkHeap

CONSTANTS
    Granularity,       \* mparams.granularity = cAllocationGranularity
    MIN_LARGE_SIZE,    \* chunks from this size on live in tree bins
    mmap_threshold, trim_threshold, MAX_RELEASE_CHECK_RATE, MAX_REQUEST,
    Requests,          \* the sizes the program asks for
    Alignments,        \* the alignments it asks for in memalign
    Limits,            \* arguments of dlmalloc_set_footprint_limit
    Threads,
    MaxOps,            \* calls in one behaviour
    Arrays,            \* the lists of sizes it asks for in independent_comalloc
    IallocAlone        \* whether it calls independent_comalloc only when no
                       \* other thread is in the allocator

ASSUME SizesAssumption ==
    /\ Granularity % 2 = 0 /\ MIN_LARGE_SIZE % 2 = 0
    /\ 4 < MIN_LARGE_SIZE /\ MIN_LARGE_SIZE <= Granularity - 10

VARIABLES
    m,       \* _gm_
    heap,    \* the block table of QForkControl
    live,    \* address of each block in the program's hands -> size asked for
    call,    \* thread -> the call it is in
    ops      \* calls begun

vars == <<m, heap, live, call, ops>>

MIN_CHUNK_SIZE == 4
CHUNK_OVERHEAD == 1
MMAP_FOOT_PAD == 4
MAX_SIZE_T == 2 ^ 20
HeapStart == Granularity

chunk2mem(p) == p + 2
mem2chunk(mem) == mem - 2
(* A size without room for the header. *)
PadRequestNoHeader(w) == 2 * ((w + 1) \div 2)
pad_request(w) == 2 * ((w + CHUNK_OVERHEAD + 1) \div 2)
request2size(w) == IF w < MIN_CHUNK_SIZE - CHUNK_OVERHEAD THEN MIN_CHUNK_SIZE ELSE pad_request(w)
SegmentRecord == pad_request(4)
TOP_FOOT_SIZE == SegmentRecord + MIN_CHUNK_SIZE
SYS_ALLOC_PADDING == TOP_FOOT_SIZE + 2
granularity_align(s) == Granularity * ((s + Granularity - 1) \div Granularity)
is_small(s) == s < MIN_LARGE_SIZE

Without(f, S) == [a \in DOMAIN f \ S |-> f[a]]
With(f, a, v) == [x \in DOMAIN f \cup {a} |-> IF x = a THEN v ELSE f[x]]
Word(s, c, p) == [size |-> s, cinuse |-> c, pinuse |-> p]
FENCEPOST_HEAD == Word(1, TRUE, TRUE)

chunksize(x, p) == x.head[p].size
cinuse(x, p) == x.head[p].cinuse
pinuse(x, p) == x.head[p].pinuse
is_mmapped(x, p) == ~cinuse(x, p) /\ ~pinuse(x, p)
is_inuse(x, p) == cinuse(x, p) \/ ~pinuse(x, p)

(* The head of a chunk is written: what lay inside the chunk is no header    *)
(* any more, and behind a chunk in use prev_foot belongs to the user.        *)
SetHead(x, p, w) ==
    [x EXCEPT !.head = With(Without(@, p + 1 .. p + w.size - 1), p, w),
              !.foot = Without(@, p + 1 .. IF w.cinuse THEN p + w.size ELSE p + w.size - 1)]
SetPinuse(x, p, b) == [x EXCEPT !.head[p].pinuse = b]

set_inuse(x, p, s) == SetPinuse(SetHead(x, p, Word(s, TRUE, pinuse(x, p))), p + s, TRUE)
set_inuse_and_pinuse(x, p, s) == SetPinuse(SetHead(x, p, Word(s, TRUE, TRUE)), p + s, TRUE)
set_size_and_pinuse_of_inuse_chunk(x, p, s) == SetHead(x, p, Word(s, TRUE, TRUE))
set_size_and_pinuse_of_free_chunk(x, p, s) ==
    LET y == SetHead(x, p, Word(s, FALSE, TRUE)) IN [y EXCEPT !.foot = With(@, p + s, s)]
(* The next chunk goes on believing that its predecessor is in use. *)
SetFreeKeepsPinuse(x, p, s, n) == set_size_and_pinuse_of_free_chunk(x, p, s)
set_free_with_pinuse(x, p, s, n) == set_size_and_pinuse_of_free_chunk(SetPinuse(x, n, FALSE), p, s)

(* The bins that are not empty (smallmap, treemap), by chunk size.  A small  *)
(* bin is a list used at its front; chunks of one size in a tree hang in a   *)
(* chain whose oldest node is in the tree.                                   *)
Bin(x, s) == IF s \in DOMAIN x.bins THEN x.bins[s] ELSE <<>>
insert_small_chunk(x, p, s) == [x EXCEPT !.bins = With(@, s, <<p>> \o Bin(x, s))]
insert_large_chunk(x, p, s) == [x EXCEPT !.bins = With(@, s, Append(Bin(x, s), p))]
insert_chunk(x, p, s) == IF is_small(s) THEN insert_small_chunk(x, p, s) ELSE insert_large_chunk(x, p, s)
unlink_chunk(x, p, s) ==
    LET rest == SelectSeq(Bin(x, s), LAMBDA q : q # p)
    IN  [x EXCEPT !.bins = IF rest = <<>> THEN Without(@, {s}) ELSE With(@, s, rest)]
Binned(x, from, to) == {s \in DOMAIN x.bins : s >= from /\ s < to}
SmallFits(x, nb) == Binned(x, nb, MIN_LARGE_SIZE)
TreeFits(x, nb) == Binned(x, IF is_small(nb) THEN MIN_LARGE_SIZE ELSE nb, MAX_SIZE_T)

replace_dv(x, p, s) ==
    LET y == IF x.dvsize # 0 THEN insert_chunk(x, x.dv, x.dvsize) ELSE x
    IN  [y EXCEPT !.dv = p, !.dvsize = s]

(* Segments: the first is m->seg, the record of each other one lies at .at   *)
(* inside the segment it describes.                                          *)
segment_holds(s, a) == s.base <= a /\ a < s.base + s.size
segment_holding(x, a) == CHOOSE i \in DOMAIN x.segs : segment_holds(x.segs[i], a)
has_segment_link(x, s) == \E i \in DOMAIN x.segs : segment_holds(s, x.segs[i].at)
is_initialized(x) == x.top # 0

(* init_top also writes the fake trailing chunk. *)
init_top(x, p, s) ==
    LET y == SetHead(x, p, Word(s, FALSE, TRUE))
    IN  [y EXCEPT !.top = p, !.topsize = s, !.trim_check = trim_threshold,
                  !.head = With(@, p + s, Word(TOP_FOOT_SIZE, FALSE, FALSE))]

AddFootprint(x, s) ==
    [x EXCEPT !.footprint = @ + s, !.max_footprint = Max({@, x.footprint + s})]

(* The static _gm_ and what init_mparams makes of it. *)
InitState ==
    [head |-> <<>>, foot |-> <<>>, bins |-> <<>>,
     dv |-> 0, dvsize |-> 0, top |-> 0, topsize |-> 0, trim_check |-> 0, release_checks |-> 0,
     footprint |-> 0, max_footprint |-> 0, footprint_limit |-> 0, use_mmap |-> TRUE, segs |-> <<>>]
-----------------------------------------------------------------------------
(* What a function that allocates and may use the heap returns. *)
Result(x, h, mem) == [m |-> x, heap |-> h, mem |-> mem]

(* CALL_MMAP and CALL_MUNMAP: whole blocks of the heap.  The memory of a     *)
(* block that is given back holds no headers.                                *)
BlockOf(a) == (a - HeapStart) \div Granularity
AddressOf(b) == HeapStart + b * Granularity
CanMap(h, size) == Fits(h, size \div Granularity) # {}
MapAt(h, size) == AddressOf(AllocStart(h, size \div Granularity))
Map(h, size) == AllocHeapBlock(h, size \div Granularity)
CanUnmap(h, a, size) == (a - HeapStart) % Granularity = 0 /\ CanFree(h, BlockOf(a), size \div Granularity)
Unmap(h, a, size) == FreeHeapBlock(h, BlockOf(a), size \div Granularity)
Forget(x, a, size) == [x EXCEPT !.head = Without(@, a .. a + size - 1), !.foot = Without(@, a .. a + size - 1)]

BelowLimit(x, size) == x.footprint_limit = 0 \/ x.footprint + size <= x.footprint_limit

(* A mapped chunk has both bits clear, its offset in prev_foot, and two fake *)
(* headers behind it.                                                        *)
MmapSize(nb) == granularity_align(nb + 6 + 1)
mmap_alloc(x, h, nb) ==
    LET size == MmapSize(nb)
        p == MapAt(h, size)
        psize == size - MMAP_FOOT_PAD
        y == AddFootprint(SetHead(x, p, Word(psize, FALSE, FALSE)), size)
    IN  IF BelowLimit(x, size) /\ CanMap(h, size)
        THEN Result([y EXCEPT !.foot = With(@, p, 0), !.head = With(@, p + psize, FENCEPOST_HEAD)],
                    Map(h, size), chunk2mem(p))
        ELSE Result(x, h, 0)

(* There is no mremap: a mapped chunk is kept when it fits well enough.      *)
mmap_resize(x, p, nb) ==
    IF ~is_small(nb) /\ chunksize(x, p) >= nb + 1 /\ chunksize(x, p) - nb <= 2 * Granularity THEN p ELSE 0

(* The remainder of a region just in front of a segment is joined with the   *)
(* first chunk of that segment.                                              *)
prepend_alloc(x, newbase, oldbase, nb) ==
    LET p == newbase
        q == p + nb
        qsize == oldbase - q
        y == set_size_and_pinuse_of_inuse_chunk(x, p, nb)
        nsize == chunksize(x, oldbase)
        z == unlink_chunk(y, oldbase, nsize)
    IN  IF oldbase = x.top
        THEN [SetHead(y, q, Word(x.topsize + qsize, FALSE, TRUE))
                  EXCEPT !.top = q, !.topsize = @ + qsize]
        ELSE IF oldbase = x.dv
        THEN [set_size_and_pinuse_of_free_chunk(y, q, x.dvsize + qsize)
                  EXCEPT !.dv = q, !.dvsize = @ + qsize]
        ELSE IF ~is_inuse(x, oldbase)
        THEN insert_chunk(set_free_with_pinuse(z, q, qsize + nsize, oldbase + nsize), q, qsize + nsize)
        ELSE insert_chunk(set_free_with_pinuse(y, q, qsize, oldbase), q, qsize)

(* A region apart from all segments: the old top gives room for the record   *)
(* of its segment and the fenceposts, the rest of it is binned.              *)
add_segment(x, tbase, tsize) ==
    LET old_top == x.top
        s == x.segs[segment_holding(x, old_top)]
        old_end == s.base + s.size
        asp == old_end - TOP_FOOT_SIZE
        csp == IF asp < old_top + MIN_CHUNK_SIZE THEN old_top ELSE asp
        fences == csp + SegmentRecord .. old_end - 2
        y == set_size_and_pinuse_of_inuse_chunk(init_top(x, tbase, tsize - TOP_FOOT_SIZE), csp, SegmentRecord)
        z == [y EXCEPT !.segs = <<[base |-> tbase, size |-> tsize, at |-> 0],
                                  [Head(@) EXCEPT !.at = chunk2mem(csp)]>> \o Tail(@),
                       !.head = [a \in DOMAIN @ \cup fences |-> IF a \in fences THEN FENCEPOST_HEAD ELSE @[a]]]
    IN  IF csp = old_top THEN z
        ELSE insert_chunk(set_free_with_pinuse(z, old_top, csp - old_top, csp), old_top, csp - old_top)

(* The tail of dlmalloc and of sys_alloc: nb from the front of top. *)
SplitTop(x, nb) ==
    LET rest == x.topsize - nb
        y == SetHead(x, x.top + nb, Word(rest, FALSE, TRUE))
    IN  [set_size_and_pinuse_of_inuse_chunk(y, x.top, nb) EXCEPT !.top = x.top + nb, !.topsize = rest]

sys_alloc(x, h, nb) ==
    LET direct == mmap_alloc(x, h, nb)
        asize == granularity_align(nb + SYS_ALLOC_PADDING)
        tbase == MapAt(h, asize)
        h1 == Map(h, asize)
        y == AddFootprint(x, asize)
        before == {i \in DOMAIN x.segs : x.segs[i].base + x.segs[i].size = tbase
                                         /\ segment_holds(x.segs[i], x.top)}
        behind == {i \in DOMAIN x.segs : x.segs[i].base = tbase + asize}
        i == CHOOSE i \in behind : TRUE
        moved == [y EXCEPT !.segs[i].base = tbase, !.segs[i].size = @ + asize]
        bigger ==
            IF ~is_initialized(x)
            THEN init_top([y EXCEPT !.segs = <<[base |-> tbase, size |-> asize, at |-> 0]>>,
                                    !.release_checks = MAX_RELEASE_CHECK_RATE],
                          tbase, asize - TOP_FOOT_SIZE)
            ELSE IF before # {}
            THEN init_top([y EXCEPT !.segs[CHOOSE j \in before : TRUE].size = @ + asize],
                          x.top, x.topsize + asize)
            ELSE add_segment(y, tbase, asize)
    IN  IF x.use_mmap /\ nb >= mmap_threshold /\ x.topsize # 0 /\ direct.mem # 0 THEN direct
        ELSE IF ~BelowLimit(x, asize) \/ ~CanMap(h, asize) THEN Result(x, h, 0)
        ELSE IF is_initialized(x) /\ before = {} /\ behind # {}
        THEN Result(prepend_alloc(moved, tbase, x.segs[i].base, nb), h1, chunk2mem(tbase))
        ELSE IF nb < bigger.topsize THEN Result(SplitTop(bigger, nb), h1, chunk2mem(bigger.top))
        ELSE Result(bigger, h1, 0)
-----------------------------------------------------------------------------
(* A segment that one free chunk fills is given back. *)
UnusedSegment(x, s) ==
    LET p == s.base IN ~is_inuse(x, p) /\ p + chunksize(x, p) >= s.base + s.size - TOP_FOOT_SIZE

ReleaseSegment(r, s) ==
    LET size == chunksize(r.m, s.base)
        x == IF s.base = r.m.dv THEN [r.m EXCEPT !.dv = 0, !.dvsize = 0] ELSE unlink_chunk(r.m, s.base, size)
    IN  IF ~UnusedSegment(r.m, s) THEN r
        ELSE IF CanUnmap(r.heap, s.base, s.size)
        THEN [m |-> [Forget(x, s.base, s.size) EXCEPT !.footprint = @ - s.size,
                                                      !.segs = SelectSeq(@, LAMBDA t : t # s)],
              heap |-> Unmap(r.heap, s.base, s.size), released |-> r.released + s.size]
        ELSE [r EXCEPT !.m = insert_chunk(x, s.base, size)]

release_unused_segments(x, h) ==
    LET r == FoldLeft(ReleaseSegment, [m |-> x, heap |-> h, released |-> 0], Tail(x.segs))
    IN  [r EXCEPT !.m.release_checks = Max({Len(x.segs) - 1, MAX_RELEASE_CHECK_RATE})]

(* Whole blocks at the end of top are given back, then unused segments; a    *)
(* trim without effect turns automatic trimming off.                         *)
sys_trim(x, h, pad) ==
    LET extra == ((x.topsize - (pad + TOP_FOOT_SIZE) + Granularity - 1) \div Granularity - 1) * Granularity
        i == segment_holding(x, x.top)
        s == x.segs[i]
        end == s.base + s.size - extra
        shrink == /\ x.topsize > pad + TOP_FOOT_SIZE /\ s.size >= extra /\ ~has_segment_link(x, s)
                  /\ CanUnmap(h, end, extra)
        y == init_top(Forget([x EXCEPT !.segs[i].size = @ - extra, !.footprint = @ - extra], end, extra),
                      x.top, x.topsize - extra)
        r == IF shrink THEN release_unused_segments(y, Unmap(h, end, extra))
             ELSE release_unused_segments(x, h)
    IN  IF ~is_initialized(x) THEN [m |-> x, heap |-> h]
        ELSE [m |-> IF ~shrink /\ r.released = 0 /\ r.m.topsize > r.m.trim_check
                    THEN [r.m EXCEPT !.trim_check = MAX_SIZE_T] ELSE r.m,
              heap |-> r.heap]

(* dispose_chunk and the body of dlfree: join the chunk with its free        *)
(* neighbours; into tells where the result went.                             *)
Coalesce(x, p, psize) ==
    LET next == p + psize
        back == ~pinuse(x, p)
        prevsize == IF back THEN x.foot[p] ELSE 0
        q == p - prevsize
        s == psize + prevsize
        y == IF back /\ q # x.dv THEN unlink_chunk(x, q, prevsize) ELSE x
        nsize == chunksize(x, next)
        z == set_size_and_pinuse_of_free_chunk(unlink_chunk(y, next, nsize), q, s + nsize)
        At(w, into, size) == [m |-> w, into |-> into, size |-> size]
    IN  IF back /\ q = x.dv /\ cinuse(x, next)
        THEN At([set_free_with_pinuse(x, q, s, next) EXCEPT !.dvsize = s], "dv", s)
        ELSE IF cinuse(x, next)
        THEN At(insert_chunk(set_free_with_pinuse(y, q, s, next), q, s), "bin", s)
        ELSE IF next = x.top
        THEN At([SetHead(y, q, Word(x.topsize + s, FALSE, TRUE))
                     EXCEPT !.top = q, !.topsize = @ + s, !.dv = IF q = @ THEN 0 ELSE @,
                            !.dvsize = IF q = x.dv THEN 0 ELSE @], "top", x.topsize + s)
        ELSE IF next = x.dv
        THEN At([set_size_and_pinuse_of_free_chunk(y, q, x.dvsize + s)
                     EXCEPT !.dv = q, !.dvsize = @ + s], "dv", x.dvsize + s)
        ELSE IF q = x.dv THEN At([z EXCEPT !.dvsize = s + nsize], "dv", s + nsize)
        ELSE At(insert_chunk(z, q, s + nsize), "bin", s + nsize)

(* A mapped chunk is unmapped with its offset and padding. *)
FreeMapped(x, h, p) ==
    LET base == p - x.foot[p]
        size == chunksize(x, p) + x.foot[p] + MMAP_FOOT_PAD
    IN  IF CanUnmap(h, base, size)
        THEN [m |-> [Forget(x, base, size) EXCEPT !.footprint = @ - size], heap |-> Unmap(h, base, size)]
        ELSE [m |-> x, heap |-> h]

dispose_chunk(x, h, p, psize) ==
    IF is_mmapped(x, p) THEN FreeMapped(x, h, p) ELSE [m |-> Coalesce(x, p, psize).m, heap |-> h]

dlfree(x, h, mem) ==
    LET p == mem2chunk(mem)
        d == Coalesce(x, p, chunksize(x, p))
        checked == [d.m EXCEPT !.release_checks = @ - 1]
    IN  IF is_mmapped(x, p) THEN FreeMapped(x, h, p)
        ELSE IF d.into = "top" /\ d.size > d.m.trim_check THEN sys_trim(d.m, h, 0)
        ELSE IF d.into = "bin" /\ ~is_small(d.size)
        THEN IF checked.release_checks = 0 THEN release_unused_segments(checked, h)
             ELSE [m |-> checked, heap |-> h]
        ELSE [m |-> d.m, heap |-> h]
-----------------------------------------------------------------------------
(* Take nb words from the front of the free chunk p of size s. *)
Split(x, p, s, nb) ==
    IF s - nb < MIN_CHUNK_SIZE THEN set_inuse_and_pinuse(x, p, s)
    ELSE set_size_and_pinuse_of_free_chunk(set_size_and_pinuse_of_inuse_chunk(x, p, nb), p + nb, s - nb)
Remains(s, nb) == s - nb >= MIN_CHUNK_SIZE

(* The best fit of the trees, unless dv fits better. *)
tmalloc_large(x, h, nb) ==
    LET s == Min(TreeFits(x, nb))
        v == x.bins[s][1]
        y == Split(unlink_chunk(x, v, s), v, s, nb)
    IN  IF TreeFits(x, nb) # {} /\ (x.dvsize < nb \/ s - nb < x.dvsize - nb)
        THEN Result(IF Remains(s, nb) THEN insert_chunk(y, v + nb, s - nb) ELSE y, h, chunk2mem(v))
        ELSE Result(x, h, 0)

(* The smallest chunk of the trees; the remainder becomes dv. *)
tmalloc_small(x, h, nb) ==
    LET s == Min(TreeFits(x, nb))
        v == x.bins[s][1]
        y == Split(unlink_chunk(x, v, s), v, s, nb)
    IN  Result(IF Remains(s, nb) THEN replace_dv(y, v + nb, s - nb) ELSE y, h, chunk2mem(v))

(* A chunk from the next small bin that is not empty. *)
SmallFit(x, h, nb) ==
    LET s == Min(SmallFits(x, nb))
        p == x.bins[s][1]
        y == Split(unlink_chunk(x, p, s), p, s, nb)
    IN  Result(IF Remains(s, nb) THEN replace_dv(y, p + nb, s - nb) ELSE y, h, chunk2mem(p))

UseDv(x, h, nb) ==
    LET y == Split(x, x.dv, x.dvsize, nb)
    IN  Result([y EXCEPT !.dv = IF Remains(x.dvsize, nb) THEN @ + nb ELSE 0,
                         !.dvsize = IF Remains(x.dvsize, nb) THEN @ - nb ELSE 0], h, chunk2mem(x.dv))

(* dlmalloc.  All chunk sizes are even in words, so that only an exact fit   *)
(* leaves no remainder in a small bin.                                       *)
dlmalloc(x, h, bytes) ==
    LET nb == request2size(bytes)
        large == tmalloc_large(x, h, nb)
        fits == SmallFits(x, nb)
        trees == TreeFits(x, nb)
    IN  IF bytes >= MAX_REQUEST THEN Result(x, h, 0)
        ELSE IF is_small(nb) /\ nb \in fits THEN SmallFit(x, h, nb)
        ELSE IF is_small(nb) /\ nb > x.dvsize /\ fits # {} THEN SmallFit(x, h, nb)
        ELSE IF is_small(nb) /\ nb > x.dvsize /\ trees # {} THEN tmalloc_small(x, h, nb)
        ELSE IF ~is_small(nb) /\ trees # {} /\ large.mem # 0 THEN large
        ELSE IF nb <= x.dvsize THEN UseDv(x, h, nb)
        ELSE IF nb < x.topsize THEN Result(SplitTop(x, nb), h, chunk2mem(x.top))
        ELSE sys_alloc(x, h, nb)

(* The chunk p keeps nb words and the rest is disposed of. *)
GiveBackTail(x, h, p, nb, size) ==
    IF ~Remains(size, nb) THEN [m |-> set_inuse(x, p, size), heap |-> h]
    ELSE dispose_chunk(set_inuse_and_pinuse(SetHead(x, p, Word(nb, TRUE, pinuse(x, p))), p + nb, size - nb),
                       h, p + nb, size - nb)

(* try_realloc_chunk: resize in place, mem = 0 when that is impossible. *)
try_realloc_chunk(x, h, p, nb) ==
    LET old == chunksize(x, p)
        next == p + old
        nsize == chunksize(x, next)
        into == IF next = x.dv THEN x.dvsize ELSE nsize
        To(r) == [m |-> r.m, heap |-> r.heap, mem |-> chunk2mem(p)]
        top == [SetHead(SetHead(x, p + nb, Word(old + x.topsize - nb, FALSE, TRUE)), p, Word(nb, TRUE, pinuse(x, p)))
                    EXCEPT !.top = p + nb, !.topsize = old + @ - nb]
        dsize == old + x.dvsize - nb
        dv == IF dsize >= MIN_CHUNK_SIZE
              THEN [set_size_and_pinuse_of_free_chunk(
                        SetPinuse(SetHead(x, p, Word(nb, TRUE, pinuse(x, p))), p + old + x.dvsize, FALSE), p + nb, dsize)
                        EXCEPT !.dv = p + nb, !.dvsize = dsize]
              ELSE [set_inuse(x, p, old + x.dvsize) EXCEPT !.dv = 0, !.dvsize = 0]
    IN  IF is_mmapped(x, p)
        THEN IF mmap_resize(x, p, nb) = 0 THEN Result(x, h, 0) ELSE Result(x, h, chunk2mem(p))
        ELSE IF old >= nb THEN IF Remains(old, nb) THEN To(GiveBackTail(x, h, p, nb, old)) ELSE Result(x, h, chunk2mem(p))
        ELSE IF next = x.top
        THEN IF old + x.topsize > nb THEN Result(top, h, chunk2mem(p)) ELSE Result(x, h, 0)
        ELSE IF cinuse(x, next) \/ old + into < nb THEN Result(x, h, 0)
        ELSE IF next = x.dv THEN Result(dv, h, chunk2mem(p))
        ELSE To(GiveBackTail(unlink_chunk(x, next, nsize), h, p, nb, old + nsize))
-----------------------------------------------------------------------------
(* internal_memalign, first part: the request that leaves room for a leader. *)
RECURSIVE PowerFrom(_, _)
PowerFrom(a, n) == IF a >= n THEN a ELSE PowerFrom(2 * a, n)
MemalignRequest(alignment, bytes) == request2size(bytes) + alignment + MIN_CHUNK_SIZE - CHUNK_OVERHEAD

(* Second part, under the lock again: leader and spare room are given back.  *)
Aligned(x, h, mem, alignment, bytes) ==
    LET nb == request2size(bytes)
        p == mem2chunk(mem)
        br == mem2chunk(alignment * ((mem + alignment - 1) \div alignment))
        pos == IF br - p >= MIN_CHUNK_SIZE THEN br ELSE br + alignment
        lead == IF mem % alignment = 0 THEN 0 ELSE pos - p
        q == p + lead
        size == chunksize(x, p) - lead
        y == IF is_mmapped(x, p)
             THEN [m |-> [x EXCEPT !.head = With(Without(@, {p}), q, Word(size, FALSE, FALSE)),
                                   !.foot = With(Without(@, {p}), q, x.foot[p] + lead)], heap |-> h]
             ELSE dispose_chunk(SetPinuse(SetHead(set_inuse_and_pinuse(x, q, size), p, Word(lead, TRUE, pinuse(x, p))),
                                          q, TRUE), h, p, lead)
        z == IF lead = 0 THEN [m |-> x, heap |-> h] ELSE y
        w == IF ~is_mmapped(z.m, q) /\ size > nb + MIN_CHUNK_SIZE
             THEN GiveBackTail(z.m, z.heap, q, nb, size) ELSE z
    IN  Result(w.m, w.heap, chunk2mem(q))

(* ialloc, the locked part: one chunk is cut into the elements, the last one *)
(* takes what is left over; the array of pointers comes behind them when the *)
(* caller brings none.                                                       *)
ContentsSize(sizes) == FoldLeft(LAMBDA acc, w : acc + request2size(w), 0, sizes)
IallocRequest(sizes, array) ==
    ContentsSize(sizes) + (IF array THEN request2size(Len(sizes)) ELSE 0) - CHUNK_OVERHEAD
ElementStart(p, sizes, i) == p + ContentsSize(SubSeq(sizes, 1, i - 1))
SplitElements(x, p, sizes, array) ==
    LET total == chunksize(x, p)
        contents == IF array THEN ContentsSize(sizes) ELSE total
        y == IF array THEN set_size_and_pinuse_of_inuse_chunk(x, p + contents, total - contents) ELSE x
        Size(i) == IF i < Len(sizes) THEN request2size(sizes[i])
                   ELSE p + contents - ElementStart(p, sizes, i)
    IN  FoldLeft(LAMBDA z, i : set_size_and_pinuse_of_inuse_chunk(z, ElementStart(p, sizes, i), Size(i)),
                 y, [i \in 1 .. Len(sizes) |-> i])

(* internal_bulk_free: neighbours in the array that are neighbours in memory *)
(* are joined and freed as one.                                              *)
BulkFreeOne(r, i) ==
    LET p == mem2chunk(r.array[i])
        size == chunksize(r.m, p)
        d == dispose_chunk(r.m, r.heap, p, size)
    IN  IF i < Len(r.array) /\ r.array[i + 1] = chunk2mem(p + size)
        THEN [r EXCEPT !.m = set_inuse(@, p, size + chunksize(@, p + size)), !.array[i + 1] = r.array[i]]
        ELSE [r EXCEPT !.m = d.m, !.heap = d.heap]
internal_bulk_free(x, h, array) ==
    LET r == FoldLeft(BulkFreeOne, [m |-> x, heap |-> h, array |-> array], [i \in 1 .. Len(array) |-> i])
    IN  IF r.m.topsize > r.m.trim_check THEN sys_trim(r.m, r.heap, 0) ELSE [m |-> r.m, heap |-> r.heap]

dlmalloc_usable_size(x, mem) ==
    LET p == mem2chunk(mem)
    IN  IF is_inuse(x, p) THEN chunksize(x, p) - (IF is_mmapped(x, p) THEN 2 ELSE CHUNK_OVERHEAD) ELSE 0
-----------------------------------------------------------------------------
Idle == [op |-> "idle", mem |-> 0]
Init == m = InitState /\ heap = HeapInit /\ live = <<>> /\ call = [t \in Threads |-> Idle] /\ ops = 0

InIalloc == {t \in Threads : call[t].op \in {"ialloc", "enable", "split"}}
Begin(t) ==
    /\ call[t] = Idle /\ ops < MaxOps /\ ops' = ops + 1
    /\ IallocAlone => InIalloc = {}
Become(r) == m' = r.m /\ heap' = r.heap
Given(f, r, w) == IF r.mem = 0 THEN f ELSE With(f, r.mem, w)
(* The program hands a block to one call at a time. *)
Mine == DOMAIN live \ {call[t].mem : t \in Threads}

Malloc(t) ==
    /\ Begin(t)
    /\ \E w \in Requests : LET r == dlmalloc(m, heap, w) IN Become(r) /\ live' = Given(live, r, w)
    /\ UNCHANGED call

Free(t) ==
    /\ Begin(t)
    /\ \E mem \in Mine : Become(dlfree(m, heap, mem)) /\ live' = Without(live, {mem})
    /\ UNCHANGED call

(* dlrealloc: in place under the lock; otherwise the lock is released, a new *)
(* block is allocated, the contents are copied and the old block is freed.   *)
Realloc(t) ==
    /\ Begin(t)
    /\ \E mem \in Mine, w \in Requests :
          /\ w < MAX_REQUEST
          /\ LET r == try_realloc_chunk(m, heap, mem2chunk(mem), request2size(w))
             IN  /\ Become(r)
                 /\ live' = IF r.mem = 0 THEN live ELSE [live EXCEPT ![mem] = w]
                 /\ call' = IF r.mem = 0 THEN [call EXCEPT ![t] = [op |-> "move", mem |-> mem, size |-> w]] ELSE call
ReallocMove(t) ==
    /\ call[t].op = "move"
    /\ LET r == dlmalloc(m, heap, call[t].size)
       IN  /\ Become(r) /\ live' = Given(live, r, call[t].size)
           /\ call' = [call EXCEPT ![t] = IF r.mem = 0 THEN Idle ELSE [op |-> "moved", mem |-> call[t].mem]]
    /\ UNCHANGED ops
ReallocFree(t) ==
    /\ call[t].op = "moved"
    /\ Become(dlfree(m, heap, call[t].mem)) /\ live' = Without(live, {call[t].mem})
    /\ call' = [call EXCEPT ![t] = Idle] /\ UNCHANGED ops
ReallocInPlace(t) ==
    /\ Begin(t)
    /\ \E mem \in Mine, w \in Requests :
          /\ w < MAX_REQUEST
          /\ LET r == try_realloc_chunk(m, heap, mem2chunk(mem), request2size(w))
             IN  Become(r) /\ live' = IF r.mem = 0 THEN live ELSE [live EXCEPT ![mem] = w]
    /\ UNCHANGED call

(* The lock is released between the allocation and the trimming to size.     *)
Memalign(t) ==
    /\ Begin(t)
    /\ \E w \in Requests, a \in Alignments :
          /\ w < MAX_REQUEST - a
          /\ LET req == MemalignRequest(PowerFrom(MIN_CHUNK_SIZE, a), w)
                 r == dlmalloc(m, heap, req)
             IN  /\ Become(r) /\ live' = Given(live, r, req)
                 /\ call' = IF r.mem = 0 THEN call
                            ELSE [call EXCEPT ![t] = [op |-> "align", mem |-> r.mem, size |-> w,
                                                      alignment |-> PowerFrom(MIN_CHUNK_SIZE, a)]]
MemalignTrim(t) ==
    /\ call[t].op = "align"
    /\ LET c == call[t]
           r == Aligned(m, heap, c.mem, c.alignment, c.size)
       IN  Become(r) /\ live' = With(Without(live, {c.mem}), r.mem, c.size)
    /\ call' = [call EXCEPT ![t] = Idle] /\ UNCHANGED ops

(* ialloc turns direct mapping off around its allocation, outside the lock.  *)
Ialloc(t) ==
    /\ Begin(t)
    /\ IallocAlone => \A u \in Threads : call[u] = Idle
    /\ \E sizes \in Arrays, array \in BOOLEAN :
          call' = [call EXCEPT ![t] = [op |-> "ialloc", mem |-> 0, sizes |-> sizes,
                                       array |-> array, was |-> m.use_mmap]]
    /\ m' = [m EXCEPT !.use_mmap = FALSE] /\ UNCHANGED <<heap, live>>
IallocMalloc(t) ==
    /\ call[t].op = "ialloc"
    /\ LET req == IallocRequest(call[t].sizes, call[t].array)
           r == dlmalloc(m, heap, req)
       IN  /\ Become(r) /\ live' = Given(live, r, req)
           /\ call' = [call EXCEPT ![t].op = "enable", ![t].mem = r.mem]
    /\ UNCHANGED ops
IallocEnable(t) ==
    /\ call[t].op = "enable"
    /\ m' = [m EXCEPT !.use_mmap = @ \/ call[t].was]
    /\ call' = [call EXCEPT ![t] = IF @.mem = 0 THEN Idle ELSE [@ EXCEPT !.op = "split"]]
    /\ UNCHANGED <<heap, live, ops>>
IallocSplit(t) ==
    /\ call[t].op = "split"
    /\ LET c == call[t]
           p == mem2chunk(c.mem)
           Element(i) == chunk2mem(ElementStart(p, c.sizes, i))
           marray == chunk2mem(p + ContentsSize(c.sizes))
           elements == FoldLeft(LAMBDA f, i : With(f, Element(i), c.sizes[i]), live, [i \in DOMAIN c.sizes |-> i])
       IN  /\ m' = SplitElements(m, p, c.sizes, c.array)
           /\ live' = IF c.array THEN With(elements, marray, Len(c.sizes)) ELSE elements
    /\ call' = [call EXCEPT ![t] = Idle] /\ UNCHANGED <<heap, ops>>

BulkFree(t) ==
    /\ Begin(t)
    /\ \E a \in Mine, b \in Mine :
          /\ a # b
          /\ Become(internal_bulk_free(m, heap, <<a, b>>)) /\ live' = Without(live, {a, b})
    /\ UNCHANGED call

Trim(t) == Begin(t) /\ Become(sys_trim(m, heap, 0)) /\ UNCHANGED <<live, call>>

(* dlmalloc_set_footprint_limit: 0 is aligned to 0, which means no limit. *)
SetFootprintLimit(t) ==
    /\ Begin(t)
    /\ \E b \in Limits : m' = [m EXCEPT !.footprint_limit = granularity_align(b)]
    /\ UNCHANGED <<heap, live, call>>

Next ==
    \E t \in Threads :
        \/ Malloc(t) \/ Free(t) \/ Realloc(t) \/ ReallocMove(t) \/ ReallocFree(t) \/ ReallocInPlace(t)
        \/ Memalign(t) \/ MemalignTrim(t) \/ Ialloc(t) \/ IallocMalloc(t) \/ IallocEnable(t)
        \/ IallocSplit(t) \/ BulkFree(t) \/ Trim(t) \/ SetFootprintLimit(t)

Spec == Init /\ [][Next]_vars
-----------------------------------------------------------------------------
(* The checks of the DEBUG build.  Left out is assert(use_mmap(m)) of        *)
(* do_check_mmapped_chunk, which an ialloc of another thread refutes.        *)
Fences(x) == {a \in DOMAIN x.head : x.head[a] = FENCEPOST_HEAD}
Chunks(x) == DOMAIN x.head \ (Fences(x) \cup {x.top, x.top + x.topsize})
MappedChunks(x) == {p \in Chunks(x) : is_mmapped(x, p)}
bin_find(x, p) == Contains(Bin(x, chunksize(x, p)), p)
MappedLength(x, p) == chunksize(x, p) + x.foot[p] + MMAP_FOOT_PAD
Total(f(_), S) == FoldSet(LAMBDA e, acc : acc + f(e), 0, S)

do_check_top_chunk(x) ==
    LET s == x.segs[segment_holding(x, x.top)]
    IN  /\ x.head[x.top] = Word(x.topsize, FALSE, TRUE) /\ x.topsize > 0
        /\ x.topsize = s.base + s.size - x.top - TOP_FOOT_SIZE
        /\ ~pinuse(x, x.top + x.topsize)
do_check_mmapped_chunk(x, p) ==
    /\ p \in DOMAIN x.foot /\ ~is_small(chunksize(x, p))
    /\ MappedLength(x, p) % Granularity = 0
do_check_inuse_chunk(x, p) ==
    LET next == p + chunksize(x, p)
        prev == p - x.foot[p]
    IN  /\ p % 2 = 0 /\ next \in DOMAIN x.head /\ pinuse(x, next)
        /\ \/ is_mmapped(x, p) /\ do_check_mmapped_chunk(x, p)
           \/ pinuse(x, p)
           \/ p \in DOMAIN x.foot /\ prev \in DOMAIN x.head /\ chunksize(x, prev) = x.foot[p]
do_check_free_chunk(x, p) ==
    LET next == p + chunksize(x, p)
    IN  /\ p % 2 = 0 /\ next \in DOMAIN x.head /\ next \in DOMAIN x.foot
        /\ ~pinuse(x, next) /\ x.foot[next] = chunksize(x, p)
        /\ next # x.top /\ is_inuse(x, next)
do_check_bins(x) ==
    \A s \in DOMAIN x.bins : \A i \in DOMAIN x.bins[s] :
        /\ x.bins[s][i] \in Chunks(x) /\ chunksize(x, x.bins[s][i]) = s /\ ~is_inuse(x, x.bins[s][i])
        /\ \A j \in DOMAIN x.bins[s] : x.bins[s][i] = x.bins[s][j] => i = j
traverse_and_check(x) ==
    /\ \A i \in DOMAIN x.segs : x.segs[i].base \in DOMAIN x.head /\ pinuse(x, x.segs[i].base)
    /\ \A p \in Chunks(x) : IF is_inuse(x, p) THEN do_check_inuse_chunk(x, p) /\ ~bin_find(x, p)
                            ELSE do_check_free_chunk(x, p) /\ (p = x.dv \/ bin_find(x, p))
do_check_malloc_state(x) ==
    /\ do_check_bins(x)
    /\ x.dvsize # 0 => x.dv \in Chunks(x) /\ chunksize(x, x.dv) = x.dvsize /\ ~bin_find(x, x.dv)
    /\ do_check_top_chunk(x)
    /\ traverse_and_check(x)
    /\ x.footprint <= x.max_footprint

(* After every sequence of calls, and between the lock sections of the calls *)
(* that take several, do_check_malloc_state finds nothing: the chunks tile   *)
(* the segments, their bits and feet agree, no two free chunks touch, and    *)
(* each free chunk is in the bin of its size, dv or top and nowhere else.    *)
StateChecks == is_initialized(m) => do_check_malloc_state(m)

(* The chunks in use are exactly those of the blocks the program holds and   *)
(* of the segment records: no block is handed out twice, none is lost, and   *)
(* each has the room that was asked for, whatever other threads did between  *)
(* the lock sections of realloc, memalign and independent_comalloc.          *)
OwnedExactly ==
    /\ {p \in Chunks(m) : is_inuse(m, p)}
          = {mem2chunk(a) : a \in DOMAIN live} \cup {mem2chunk(m.segs[i].at) : i \in 2 .. Len(m.segs)}
    /\ \A a \in DOMAIN live : dlmalloc_usable_size(m, a) >= live[a]

(* footprint is what the segments and the mapped chunks hold, and that is    *)
(* every block of the heap marked in use; the blocks ever mapped are the     *)
(* first numMappedBlocks, as EndForkOperation and FreeHeapBlock assume, and  *)
(* the search begins in front of every block that is free.                   *)
HeapAccounted ==
    /\ m.footprint = Total(LAMBDA i : m.segs[i].size, DOMAIN m.segs)
                      + Total(LAMBDA p : MappedLength(m, p), MappedChunks(m))
    /\ m.footprint = Granularity * Cardinality({b \in Blocks : heap.state[b] = "MAPPED_IN_USE"})
    /\ \A b \in Blocks : (heap.state[b] # "UNMAPPED") = (b < heap.numMappedBlocks)
    /\ \A b \in Blocks : b < heap.blockSearchStart => heap.state[b] = "MAPPED_IN_USE"

=============================================================================
