------------------------------ MODULE ConMemPool ------------------------------
(***************************************************************************)
(* The concurrent allocator that holds the callables of the server's       *)
(* thread pool: a free list per thread and block size, a central cache per *)
(* block size under a spin lock, and the page cache under a mutex.         *)
(*                                                                         *)
(* A block is often allocated by one thread and freed by another, so that  *)
(* blocks of one span end up in the lists of many threads and come home in *)
(* batches that mix spans.  A span whose blocks are all home goes back to  *)
(* the page cache while other threads allocate.                            *)
(*                                                                         *)
(* Steps: a thread's own list needs no lock.  The central cache is entered *)
(* by taking the lock of the size; every call it makes to the page cache   *)
(* is a step of its own, because the page cache is shared by all sizes.    *)
(***************************************************************************)
EXTENDS PageCache

CONSTANTS
    Threads,
    Allocating,   \* those that call conmem::allocate; every thread deallocates
    BlockSizes,   \* sizes served by lists of blocks, up to kMaxSmallObjSize
    LargeSizes,   \* sizes beyond, each served by a span of its own
    BatchNum,     \* CalcBatchNum: blocks moved at a time, by size
    MaxLive       \* bound: pieces in use before another is asked for

ASSUME SizeAssumption ==
    /\ Allocating \subseteq Threads
    /\ BlockSizes \subseteq Nat \ {0} /\ LargeSizes \subseteq Nat \ {0}
    /\ BlockSizes \cap LargeSizes = {}
    /\ BatchNum \in [BlockSizes -> Nat \ {0}]
    /\ MaxLive \in Nat

(* The page cache serves runs of up to kMaxPageCount pages.  CalcBatchNum  *)
(* asks for at most 16384 bytes at a time; for a larger piece              *)
(* AllocatePages throws before it has changed anything.                    *)
PagesFor(bytes) == (bytes + PageSize - 1) \div PageSize
ASSUME RunAssumption ==
    /\ \A size \in BlockSizes : PagesFor(size * BatchNum[size]) <= kMaxPageCount
    /\ \A size \in LargeSizes : PagesFor(size) <= kMaxPageCount

VARIABLES
    heap,     \* the page cache
    central,  \* CentralCache::span_lists_, by block size
    cache,    \* ThreadCache::free_lists_, by thread and block size
    live,     \* what the callers have and have not given back
    call      \* where each thread is inside the allocator

vars == <<heap, central, cache, live, call>>

Piece == [at : Addresses, size : BlockSizes \cup LargeSizes]

(* What a thread is doing: fetch (about to take the lock of the size),     *)
(* grow (has it and found no span with a free block), release and return   *)
(* (bringing blocks home, without and with the lock), freePages.           *)
Idle == [op |-> "idle", size |-> 0, blocks |-> <<>>, span |-> 0]
Doing(op, size, blocks, span) ==
    [op |-> op, size |-> size, blocks |-> blocks, span |-> span]
At(t, op) == call[t].op = op

TypeOK ==
    /\ heap \in [span : [SpanIds -> Span], map : [Pages -> SpanIds \cup {0}],
                 lists : [1..kMaxPageCount -> Seq(SpanIds)], os : SUBSET Pages]
    /\ central \in [BlockSizes -> Seq(SpanIds)]
    /\ cache \in [Threads -> [BlockSizes -> Seq(Addresses)]]
    /\ live \subseteq Piece
    /\ call \in [Threads ->
           [op : {"idle", "fetch", "grow", "release", "return", "freePages"},
            size : BlockSizes \cup LargeSizes \cup {0},
            blocks : Seq(Addresses), span : SpanIds \cup {0}]]

Init ==
    /\ heap = EmptyHeap
    /\ central = [size \in BlockSizes |-> <<>>]
    /\ cache = [t \in Threads |-> [size \in BlockSizes |-> <<>>]]
    /\ live = {}
    /\ call = [t \in Threads |-> Idle]

ClassLockFree(size) ==
    \A t \in Threads :
        ~(call[t].size = size /\ call[t].op \in {"grow", "return", "freePages"})

-----------------------------------------------------------------------------
(* Allocate, with a block in the thread's list.                            *)
AllocateCached(t, size) ==
    /\ At(t, "idle") /\ Cardinality(live) < MaxLive
    /\ cache[t][size] # <<>>
    /\ live' = live \cup {[at |-> Head(cache[t][size]), size |-> size]}
    /\ cache' = [cache EXCEPT ![t][size] = Tail(@)]
    /\ UNCHANGED <<heap, central, call>>

AllocateMiss(t, size) ==
    /\ At(t, "idle") /\ Cardinality(live) < MaxLive
    /\ cache[t][size] = <<>>
    /\ call' = [call EXCEPT ![t] = Doing("fetch", size, <<>>, 0)]
    /\ UNCHANGED <<heap, central, cache, live>>

SpansWithBlocks(size) ==
    {i \in DOMAIN central[size] : heap.span[central[size][i]].free_count > 0}

(* The end of AllocateBatch and of Allocate: a batch from the head of the  *)
(* span's list, its first block for the caller, the rest for the thread.   *)
TakenOfList(span, size) == Min({BatchNum[size], Len(span.free_list)})
Taken(span, size) == Min({BatchNum[size], span.free_count})
WithoutBatch(span, size) ==
    [span EXCEPT !.free_list = SubSeq(@, Taken(span, size) + 1, Len(@)),
                 !.free_count = @ - Taken(span, size)]

TakeBatch(t, size, h, s) ==
    LET batch == SubSeq(h.span[s].free_list, 1, Taken(h.span[s], size))
    IN  /\ heap' = [h EXCEPT !.span[s] = WithoutBatch(@, size)]
        /\ live' = live \cup {[at |-> Head(batch), size |-> size]}
        /\ cache' = [cache EXCEPT ![t][size] = Tail(batch) \o @]
        /\ call' = [call EXCEPT ![t] = Idle]

Fetch(t) ==
    LET size == call[t].size
    IN  /\ At(t, "fetch") /\ ClassLockFree(size)
        /\ SpansWithBlocks(size) # {}
        /\ TakeBatch(t, size, heap, central[size][Min(SpansWithBlocks(size))])
        /\ UNCHANGED central

StartGrow(t) ==
    /\ At(t, "fetch") /\ ClassLockFree(call[t].size)
    /\ SpansWithBlocks(call[t].size) = {}
    /\ call' = [call EXCEPT ![t].op = "grow"]
    /\ UNCHANGED <<heap, central, cache, live>>

(* A new span is cut into blocks.  Where the size does not divide the span *)
(* its last block sticks out; it is in the list but not in free_count.     *)
SpanBytes(span) == span.page_count * PageSize
WholeBlocks(span, size) == SpanBytes(span) \div size
Carved(span, size) ==
    [span EXCEPT
        !.free_list = [i \in 1..(SpanBytes(span) + size - 1) \div size |->
                         span.page_id * PageSize + (i - 1) * size],
        !.free_count = WholeBlocks(span, size)]

Grow(t) ==
    LET size == call[t].size
    IN  /\ At(t, "grow")
        /\ \E new \in AllocatePages(heap, PagesFor(size * BatchNum[size])) :
              /\ TakeBatch(t, size,
                    [new.heap EXCEPT !.span[new.got] = Carved(@, size)], new.got)
              /\ central' = [central EXCEPT ![size] = Append(@, new.got)]

(* Free: the block goes to the thread's list; of a list that has become    *)
(* too long, the first batch is brought home.                              *)
Deallocate(t, o) ==
    LET list == <<o.at>> \o cache[t][o.size]
        n == BatchNum[o.size]
    IN  /\ At(t, "idle") /\ o \in live /\ o.size \in BlockSizes
        /\ live' = live \ {o}
        /\ IF Len(list) > 2 * n
           THEN /\ cache' = [cache EXCEPT ![t][o.size] = SubSeq(list, n + 1, Len(list))]
                /\ call' = [call EXCEPT ![t] =
                      Doing("release", o.size, SubSeq(list, 1, n), 0)]
           ELSE /\ cache' = [cache EXCEPT ![t][o.size] = list]
                /\ UNCHANGED call
        /\ UNCHANGED <<heap, central>>

LockToReturn(t) ==
    /\ At(t, "release") /\ ClassLockFree(call[t].size)
    /\ call' = [call EXCEPT ![t].op = "return"]
    /\ UNCHANGED <<heap, central, cache, live>>

(* One round of the loop in FreeBatch: a block is put on the list of the   *)
(* span it lies in.  The last of a span's blocks takes the span along.     *)
SpanOf(t) == FindSpanByAddr(heap, Head(call[t].blocks))
WithBlock(span, a) ==
    [span EXCEPT !.free_list = <<a>> \o @, !.free_count = @ + 1]
Continue(size, rest) == IF rest = <<>> THEN Idle ELSE Doing("return", size, rest, 0)

ReturnBlock(t) ==
    LET size == call[t].size
        s == SpanOf(t)
        rest == Tail(call[t].blocks)
        span == WithBlock(heap.span[s], Head(call[t].blocks))
    IN  /\ At(t, "return") /\ s # 0
        /\ heap' = [heap EXCEPT !.span[s] = span]
        /\ IF span.free_count = WholeBlocks(span, size)
           THEN /\ central' = [central EXCEPT ![size] = Without(@, s)]
                /\ call' = [call EXCEPT ![t] = Doing("freePages", size, rest, s)]
           ELSE /\ call' = [call EXCEPT ![t] = Continue(size, rest)]
                /\ UNCHANGED central
        /\ UNCHANGED <<cache, live>>

FreeSpan(t) ==
    /\ At(t, "freePages")
    /\ heap' = FreePages(heap, call[t].span)
    /\ call' = [call EXCEPT ![t] = Continue(@.size, @.blocks)]
    /\ UNCHANGED <<central, cache, live>>

(* Beyond kMaxSmallObjSize the page cache serves the caller directly.      *)
AllocateLarge(t, size) ==
    /\ At(t, "idle") /\ Cardinality(live) < MaxLive
    /\ \E new \in AllocatePages(heap, PagesFor(size)) :
          /\ heap' = new.heap
          /\ live' = live \cup
                {[at |-> new.heap.span[new.got].page_id * PageSize, size |-> size]}
    /\ UNCHANGED <<central, cache, call>>

DeallocateLarge(t, o) ==
    /\ At(t, "idle") /\ o \in live /\ o.size \in LargeSizes
    /\ live' = live \ {o}
    /\ call' = [call EXCEPT ![t] =
          Doing("freePages", o.size, <<>>, FindSpanByAddr(heap, o.at))]
    /\ UNCHANGED <<heap, central, cache>>

Next ==
    \/ \E t \in Allocating :
        \/ \E size \in BlockSizes : AllocateCached(t, size) \/ AllocateMiss(t, size)
        \/ \E size \in LargeSizes : AllocateLarge(t, size)
    \/ \E t \in Threads :
        \/ Fetch(t) \/ StartGrow(t) \/ Grow(t)
        \/ LockToReturn(t) \/ ReturnBlock(t) \/ FreeSpan(t)
        \/ \E o \in live : Deallocate(t, o) \/ DeallocateLarge(t, o)

Spec == Init /\ [][Next]_vars

-----------------------------------------------------------------------------
(* The allocator keeps its promise: no two pieces in use overlap, whatever *)
(* threads allocate and free them, though spans are cut, merged and cut    *)
(* again for other sizes, and a span's list may end with a block that      *)
(* sticks out of it.                                                       *)
Promise == INSTANCE Allocator WITH
    Sizes <- BlockSizes \cup LargeSizes
ImplementsAllocator == Promise!Spec

(* Where the copies of a block are: with a caller, in the list of a        *)
(* thread, on the way home, or in the list of its span.                    *)
BlocksOf(span, size) ==
    {span.page_id * PageSize + (i - 1) * size : i \in 1..WholeBlocks(span, size)}
Copies(a, size, s) ==
      Cardinality({o \in live : o.at = a /\ o.size = size})
    + Cardinality({i \in DOMAIN heap.span[s].free_list : heap.span[s].free_list[i] = a})
    + Cardinality(UNION {{<<t, i>> : i \in {j \in DOMAIN cache[t][size] :
                               cache[t][size][j] = a}} : t \in Threads})
    + Cardinality(UNION {{<<t, i>> : i \in {j \in DOMAIN call[t].blocks :
                         call[t].size = size /\ call[t].blocks[j] = a}} : t \in Threads})

EveryBlockInOnePlace(size, s) ==
    LET span == heap.span[s]
    IN  /\ \A a \in BlocksOf(span, size) : Copies(a, size, s) = 1
        /\ span.free_count =
               Cardinality({i \in DOMAIN span.free_list :
                               span.free_list[i] \in BlocksOf(span, size)})
        /\ span.free_count < WholeBlocks(span, size)

(* No memory is lost and none is in two places.  Every page belongs to one *)
(* span, which page_id_to_span_ leads to, and AllocatePages and FreePages  *)
(* rest on that and on the neighbours it leads to; every whole block of a  *)
(* span of the central cache is with one caller, in one thread's list, on  *)
(* one way home or in the span's list, once; and the span knows how many   *)
(* it has, or it would be given back under its callers, or never.          *)
MemoryInOnePlace ==
    /\ WellFormed(heap)
    /\ \A size \in BlockSizes : \A k \in DOMAIN central[size] :
           EveryBlockInOnePlace(size, central[size][k])
=============================================================================
