------------------------------ MODULE PageCache ------------------------------
(***************************************************************************)
(* The page cache of the concurrent allocator: runs of pages (spans) got   *)
(* from the system, cut when a smaller run is asked for and merged with    *)
(* free neighbours when given back.  Every method holds one mutex, so each *)
(* is an operator on the whole cache.  A heap is a record                  *)
(*   span   the Span objects; one with page_count 0 is in the SpanPool     *)
(*   map    page_id_to_span_, 0 where there is no entry                    *)
(*   lists  span_lists_, the free spans by their number of pages           *)
(*   os     the pages obtained from the system                             *)
(* Spans are named by object, not by place: an object is deleted and used  *)
(* again, and the map holds pointers.                                      *)
(***************************************************************************)
EXTENDS Integers, Sequences, FiniteSetsExt

CONSTANTS
    PageSize,       \* bytes of a page
    NumPages,       \* bound: pages of the address space
    kMaxPageCount   \* the longest run the cache keeps

ASSUME PageAssumption ==
    /\ PageSize \in Nat \ {0} /\ NumPages \in Nat
    /\ kMaxPageCount \in Nat \ {0}

Pages == 1..NumPages
Addresses == PageSize..(NumPages + 1) * PageSize - 1
SpanIds == 1..NumPages

Span == [page_id : Nat, page_count : Nat, free_count : Nat,
         free_list : Seq(Addresses), is_used : BOOLEAN]

NoSpan == [page_id |-> 0, page_count |-> 0, free_count |-> 0,
           free_list |-> <<>>, is_used |-> FALSE]

EmptyHeap == [span |-> [s \in SpanIds |-> NoSpan], map |-> [p \in Pages |-> 0],
              lists |-> [n \in 1..kMaxPageCount |-> <<>>], os |-> {}]

PagesOf(span) == span.page_id .. span.page_id + span.page_count - 1
Inside(span, a) == a \div PageSize \in PagesOf(span)

FindSpan(h, p) == IF p \in Pages THEN h.map[p] ELSE 0
FindSpanByAddr(h, a) == FindSpan(h, a \div PageSize)

NewSpan(h) == CHOOSE s \in SpanIds : h.span[s].page_count = 0

(* RemoveSpan: the span is unlinked where it is.                           *)
Without(list, s) ==
    LET i == CHOOSE i \in DOMAIN list : list[i] = s
    IN  SubSeq(list, 1, i - 1) \o SubSeq(list, i + 1, Len(list))

(* page_id_to_span_[...] = span for every page of a span.                  *)
Mapped(h, s) ==
    [h EXCEPT !.map = [p \in Pages |->
        IF p \in PagesOf(h.span[s]) THEN s ELSE @[p]]]

Used(page, n) == [NoSpan EXCEPT !.page_id = page, !.page_count = n,
                                !.is_used = TRUE]

TakeExact(h, n) ==
    LET s == Head(h.lists[n])
    IN  [got |-> s,
         heap |-> Mapped([h EXCEPT !.lists[n] = Tail(@),
                                   !.span[s].is_used = TRUE], s)]

(* The new object gets the first pages, the old one keeps the rest.        *)
Split(h, i, n) ==
    LET big == Head(h.lists[i])
        small == NewSpan(h)
    IN  [got |-> small,
         heap |-> Mapped([h EXCEPT
            !.lists[i] = Tail(@),
            !.lists[i - n] = Append(@, big),
            !.span[small] = Used(h.span[big].page_id, n),
            !.span[big].page_id = @ + n,
            !.span[big].page_count = @ - n], small)]

FromSystem(h, n, base) ==
    LET s == NewSpan(h)
    IN  [got |-> s,
         heap |-> Mapped([h EXCEPT !.span[s] = Used(base, n),
                                   !.os = @ \cup base .. base + n - 1], s)]

Bigger(h, n) == {i \in n + 1 .. kMaxPageCount : h.lists[i] # <<>>}

(* AllocatePages: what it may return.  The system chooses any free run of  *)
(* pages; there is no outcome when it has none.                            *)
AllocatePages(h, n) ==
    IF h.lists[n] # <<>> THEN {TakeExact(h, n)}
    ELSE IF Bigger(h, n) # {} THEN {Split(h, Min(Bigger(h, n)), n)}
    ELSE {FromSystem(h, n, base) : base \in
            {p \in Pages : p .. p + n - 1 \subseteq Pages \ h.os}}

Mergeable(h, s, t) ==
    /\ ~h.span[t].is_used
    /\ h.span[s].page_count + h.span[t].page_count <= kMaxPageCount

(* The first half of MergeSpan: the free span before this one absorbs it.  *)
MergePrevious(h, s) ==
    LET prev == FindSpan(h, h.span[s].page_id - 1)
        n == h.span[prev].page_count
    IN  IF /\ prev # 0
           /\ Mergeable(h, s, prev)
           /\ h.span[prev].page_id + n = h.span[s].page_id
        THEN [got |-> prev,
              heap |-> Mapped([h EXCEPT
                !.lists[n] = Without(@, prev),
                !.span[prev].page_count = @ + h.span[s].page_count,
                !.span[s] = NoSpan], prev)]
        ELSE [got |-> s, heap |-> h]

MergeNextUnmapped(h, s) ==
    LET next == FindSpan(h, h.span[s].page_id + h.span[s].page_count)
        n == h.span[next].page_count
    IN  IF next # 0 /\ Mergeable(h, s, next)
        THEN [h EXCEPT !.lists[n] = Without(@, next),
                       !.span[s].page_count = @ + n, !.span[next] = NoSpan]
        ELSE h

(* The second half: this span absorbs the free one after it.               *)
MergeNext(h, s) ==
    LET next == FindSpan(h, h.span[s].page_id + h.span[s].page_count)
        n == h.span[next].page_count
    IN  IF /\ next # 0
           /\ Mergeable(h, s, next)
           /\ h.span[s].page_id + h.span[s].page_count = h.span[next].page_id
        THEN Mapped([h EXCEPT !.lists[n] = Without(@, next),
                              !.span[s].page_count = @ + n,
                              !.span[next] = NoSpan], s)
        ELSE h

FreePages(h, s) ==
    LET freed == [h EXCEPT !.span[s] = [@ EXCEPT !.is_used = FALSE,
                                !.free_count = 0, !.free_list = <<>>]]
        first == MergePrevious(freed, s)
        merged == MergeNext(first.heap, first.got)
    IN  IF ~h.span[s].is_used THEN h
        ELSE [merged EXCEPT
                !.lists[merged.span[first.got].page_count] = Append(@, first.got)]

-----------------------------------------------------------------------------
Live(h) == {s \in SpanIds : h.span[s].page_count > 0}

(* The pages got from the system are divided among the spans, the map      *)
(* leads from every page to its span, and exactly the free spans wait, one *)
(* time each, in the list of their length.                                 *)
WellFormed(h) ==
    /\ UNION {PagesOf(h.span[s]) : s \in Live(h)} = h.os
    /\ \A s \in Live(h) : \A p \in PagesOf(h.span[s]) : h.map[p] = s
    /\ \A p \in Pages \ h.os : h.map[p] = 0
    /\ \A n \in 1..kMaxPageCount :
           {s \in Live(h) : ~h.span[s].is_used /\ h.span[s].page_count = n}
               = {h.lists[n][i] : i \in DOMAIN h.lists[n]}
    /\ \A n \in 1..kMaxPageCount : \A i, j \in DOMAIN h.lists[n] :
           h.lists[n][i] = h.lists[n][j] => i = j
=============================================================================
