----------------------------- MODULE NvAllocator -----------------------------
(***************************************************************************)
(* fossil::detail::nv_allocator: a buddy allocator in a file.              *)
(*                                                                         *)
(* The file holds a header, then segments, each a header and an arena.     *)
(* The only persistent trace of a block is the header at its start; the    *)
(* free lists are rebuilt from these headers in every process.  A process  *)
(* may be killed between any two stores.  What clients write into a block  *)
(* stays behind when it is freed, and can be where a later block of        *)
(* another size has its header.                                            *)
(*                                                                         *)
(* Offsets and sizes count blocks of min_block_size(), of order 1; each    *)
(* header of the file or a segment takes one.  The capacity of a block is  *)
(* the order that capacity needs; one so large that adding the header's    *)
(* size overflows is 0, as it too passes the check of every order.         *)
(***************************************************************************)
EXTENDS Integers, Sequences, FiniteSetsExt, Functions

CONSTANTS InitialArena,     \* initial_segment_size()
          MaxOrder,         \* bound: the largest order
          MaxFile,          \* bound: the size of the file
          MaxKills,         \* bound: processes killed
          StaleOrders       \* orders and capacities that bytes of a client may look like

Orders == 1 .. MaxOrder
PowerOf2[n \in 0 .. MaxOrder] == IF n = 0 THEN 1 ELSE 2 * PowerOf2[n - 1]
BlockSize(order) == PowerOf2[order - 1]
SizeToOrder(size) == Min({o \in Orders : BlockSize(o) >= size})

SegmentsOffset == 1
SegmentOverhead == 1
InitialFile == SegmentsOffset + SegmentOverhead + InitialArena
Offsets == 0 .. MaxFile - 1

ASSUME BoundAssumption == MaxOrder \in Nat \ {0} /\ MaxFile \in Nat /\ MaxKills \in Nat
ASSUME ArenaAssumption == \E o \in Orders : InitialArena = BlockSize(o)
ASSUME StaleAssumption == StaleOrders \subseteq 0 .. MaxOrder

\* The first segment has room in the file, and every segment has an order.
ASSUME FileAssumption ==
    /\ InitialFile <= MaxFile
    /\ MaxFile < SegmentsOffset + SegmentOverhead + BlockSize(MaxOrder + 1)

VARIABLES
    file_size,          \* of the file, and of the mapping (mem_size_)
    memory_header,      \* TRUE when memory_header is in the file
    segment_headers,    \* per offset, the arena_size of a segment header; 0: none
    mem,                \* per offset, the words an alloc_header would have there
    segments_,          \* the segments, in the order of the file
    free_lists_,        \* per order, the free blocks
    status,             \* how far the process is
    op,                 \* the call that is running
    live,               \* the blocks that clients hold
    kills,              \* processes killed so far
    persisted           \* auxiliary: what recover() of a next process would find

file == <<file_size, memory_header, segment_headers, mem>>
volatile == <<segments_, free_lists_, op>>
vars == <<file, volatile, status, live, kills, persisted>>

Words == {"magic", "capacity", "order"}
Zero == [magic |-> FALSE, capacity |-> 0, order |-> 0]
Idle == [kind |-> "idle", offset |-> 0, order |-> 0, left |-> {}]
NoFreeLists == [o \in Orders |-> {}]

Block(offset, order, capacity) == [offset |-> offset, order |-> order, capacity |-> capacity]
Extent(b) == b.offset .. b.offset + BlockSize(b.order) - 1

---------------------------------------------------------------------------
(* What the file says *)

SegmentEnd(s) == s.arena_offset + s.arena_size
RootOrder(s) == SizeToOrder(s.arena_size)
Arena(s) == s.arena_offset .. SegmentEnd(s) - 1

IsValidSegment(c) == /\ segment_headers[c] # 0
                     /\ c + SegmentOverhead + segment_headers[c] <= file_size

\* Wrong on purpose: a torn tail makes the file corrupt.
LoadSegmentsWhole ==
    LET from[c \in 0 .. MaxFile] ==
            IF c < file_size /\ IsValidSegment(c)
              THEN LET s == [arena_offset |-> c + SegmentOverhead,
                             arena_size   |-> segment_headers[c]]
                   IN  <<s>> \o from[SegmentEnd(s)]
              ELSE <<>>
        segments == from[SegmentsOffset]
    IN  IF segments # <<>> /\ SegmentEnd(segments[Len(segments)]) = file_size
          THEN segments ELSE <<>>

\* The loop of load_segments(): up to the first header that is not valid.
LoadSegments ==
    LET from[c \in 0 .. MaxFile] ==
            IF c < file_size /\ IsValidSegment(c)
              THEN LET s == [arena_offset |-> c + SegmentOverhead,
                             arena_size   |-> segment_headers[c]]
                   IN  <<s>> \o from[SegmentEnd(s)]
              ELSE <<>>
    IN  from[SegmentsOffset]

\* Wrong on purpose: without the check of the alignment.
IsValidAllocUnaligned(h, s, c) ==
    /\ h.magic
    /\ h.order >= 1 /\ h.order <= RootOrder(s)
    /\ c + BlockSize(h.order) <= SegmentEnd(s)
    /\ h.capacity <= h.order

IsValidAlloc(h, s, c) ==
    /\ h.magic
    /\ h.order >= 1 /\ h.order <= RootOrder(s)
    /\ c + BlockSize(h.order) <= SegmentEnd(s)
    /\ (c - s.arena_offset) % BlockSize(h.order) = 0
    /\ h.capacity <= h.order

\* scan_segment_allocations(): jumps over a block, and by one where there is none.
ScanSegment(s) ==
    LET from[c \in s.arena_offset .. SegmentEnd(s)] ==
            IF c = SegmentEnd(s)
              THEN {}
              ELSE IF IsValidAlloc(mem[c], s, c)
                     THEN {Block(c, mem[c].order, mem[c].capacity)}
                          \union from[c + BlockSize(mem[c].order)]
                     ELSE from[c + 1]
    IN  from[s.arena_offset]

Scan(segments) == UNION {ScanSegment(s) : s \in Range(segments)}

\* rebuild_segment_free_lists(): halves a block until it is free or one found
\* block; order 0 stands for "Corrupt buddy allocator metadata".
FreeOfSegment(s, found) ==
    LET within(offset, order) == {b \in found : b.offset \in offset .. offset + BlockSize(order) - 1}
        free[order \in Orders] ==
            [offset \in Arena(s) |->
               LET inside == within(offset, order)
               IN  IF inside = {} THEN {<<offset, order>>}
                   ELSE IF \E b \in inside : inside = {b} /\ b.offset = offset /\ b.order = order
                     THEN {}
                   ELSE IF order = 1 THEN {<<offset, 0>>}
                   ELSE free[order - 1][offset]
                        \union free[order - 1][offset + BlockSize(order - 1)]]
    IN  free[RootOrder(s)][s.arena_offset]

Free(segments) ==
    UNION {FreeOfSegment(s, ScanSegment(s)) : s \in Range(segments)}

Rebuilt(segments) == LET free == Free(segments)
                     IN  [o \in Orders |-> {f[1] : f \in {g \in free : g[2] = o}}]
IsCorrupt(segments) == \E f \in Free(segments) : f[2] = 0

---------------------------------------------------------------------------
(* Start *)

Init == /\ file_size = 0
        /\ memory_header = FALSE
        /\ segment_headers = [c \in Offsets |-> 0]
        /\ mem = [c \in Offsets |-> Zero]
        /\ segments_ = <<>>
        /\ free_lists_ = NoFreeLists
        /\ status = "down"
        /\ op = Idle
        /\ live = {}
        /\ kills = 0
        /\ persisted = {}

\* create(): an empty file is given its first size.
Create == /\ status = "down"
          /\ status' = "opened"
          /\ file_size' = IF file_size = 0 THEN InitialFile ELSE file_size
          /\ UNCHANGED <<memory_header, segment_headers, mem, volatile, live>>

\* reset_storage(), in two steps: the header of the file, and of its segment.
ResetStorage == /\ status = "opened" /\ ~memory_header
                /\ status' = "reset"
                /\ file_size' = InitialFile
                /\ memory_header' = TRUE
                /\ segment_headers' = [c \in Offsets |-> 0]
                /\ mem' = [c \in Offsets |-> Zero]
                /\ UNCHANGED <<volatile, live>>

InitializeFirst == /\ status = "reset"
                   /\ status' = "opened"
                   /\ segment_headers' = [segment_headers EXCEPT ![SegmentsOffset] = InitialArena]
                   /\ UNCHANGED <<file_size, memory_header, mem, volatile, live>>

\* rebuild_runtime_state() and recover(): a torn tail is cut off, and what the
\* scan finds is handed to the clients.
RebuildRuntimeState ==
    /\ status = "opened" /\ memory_header
    /\ LET segments == LoadSegments
       IN  IF segments = <<>> \/ IsCorrupt(segments)
             THEN status' = "terminated" /\ UNCHANGED <<file_size, segments_, free_lists_, live>>
             ELSE /\ status' = "running"
                  /\ file_size' = SegmentEnd(segments[Len(segments)])
                  /\ segments_' = segments
                  /\ free_lists_' = Rebuilt(segments)
                  /\ live' = Scan(segments)
    /\ UNCHANGED <<memory_header, segment_headers, mem, op>>

---------------------------------------------------------------------------
(* allocate() *)

Candidates(order) == {o \in Orders : o >= order /\ free_lists_[o] # {}}

\* Wrong on purpose: the block is not taken off its free list.
TryAllocateKeeping(order) ==
    /\ Candidates(order) # {}
    /\ LET from == Min(Candidates(order))
           offset == Min(free_lists_[from])
       IN  /\ free_lists_' = [o \in Orders |->
                IF order <= o /\ o < from THEN free_lists_[o] \union {offset + BlockSize(o)}
                                           ELSE free_lists_[o]]
           /\ op' = [kind |-> "store", offset |-> offset, order |-> order, left |-> Words]

\* try_allocate(): the lowest block of the smallest order, halved as needed.
TryAllocate(order) ==
    /\ Candidates(order) # {}
    /\ LET from == Min(Candidates(order))
           offset == Min(free_lists_[from])
       IN  /\ free_lists_' = [o \in Orders |->
                CASE o = from -> free_lists_[o] \ {offset}
                  [] order <= o /\ o < from -> free_lists_[o] \union {offset + BlockSize(o)}
                  [] OTHER -> free_lists_[o]]
           /\ op' = [kind |-> "store", offset |-> offset, order |-> order, left |-> Words]

\* The arena grow() adds for a block of this order.
NewArena(order) ==
    Max({BlockSize(order),
         IF segments_ = <<>> THEN InitialArena ELSE 2 * segments_[Len(segments_)].arena_size})

Allocate(order) ==
    /\ status = "running" /\ op = Idle
    /\ \/ TryAllocate(order)
       \/ /\ Candidates(order) = {}
          /\ file_size + SegmentOverhead + NewArena(order) <= MaxFile
          /\ op' = [kind |-> "grow", offset |-> file_size, order |-> order, left |-> {}]
          /\ UNCHANGED free_lists_
    /\ UNCHANGED <<file, segments_, status, live>>

\* Wrong on purpose: no room for the segment header.
GrowFileNoOverhead ==
    /\ op.kind = "grow" /\ op.offset = file_size
    /\ file_size' = file_size + NewArena(op.order)
    /\ segment_headers' = [c \in Offsets |-> IF c >= file_size THEN 0 ELSE segment_headers[c]]
    /\ mem' = [c \in Offsets |-> IF c >= file_size THEN Zero ELSE mem[c]]
    /\ UNCHANGED <<memory_header, volatile, status, live>>

\* grow(): the file first, then the header of the new segment.
GrowFile ==
    /\ op.kind = "grow" /\ op.offset = file_size
    /\ file_size' = file_size + SegmentOverhead + NewArena(op.order)
    /\ segment_headers' = [c \in Offsets |-> IF c >= file_size THEN 0 ELSE segment_headers[c]]
    /\ mem' = [c \in Offsets |-> IF c >= file_size THEN Zero ELSE mem[c]]
    /\ UNCHANGED <<memory_header, volatile, status, live>>

GrowSegment ==
    /\ op.kind = "grow" /\ op.offset < file_size
    /\ LET s == [arena_offset |-> op.offset + SegmentOverhead, arena_size |-> NewArena(op.order)]
       IN  /\ segment_headers' = [segment_headers EXCEPT ![op.offset] = s.arena_size]
           /\ segments_' = Append(segments_, s)
           /\ free_lists_' = [free_lists_ EXCEPT ![RootOrder(s)] = @ \union {s.arena_offset}]
    /\ op' = [op EXCEPT !.kind = "retry"]
    /\ UNCHANGED <<file_size, memory_header, mem, status, live>>

Retry == /\ op.kind = "retry"
         /\ TryAllocate(op.order)
         /\ UNCHANGED <<file, segments_, status, live>>

\* *header = alloc_header{...}: three words, in the order the compiler likes.
StoreHeader(word) ==
    /\ op.kind = "store" /\ word \in op.left
    /\ mem' = [mem EXCEPT ![op.offset][word] = IF word = "magic" THEN TRUE ELSE op.order]
    /\ IF op.left = {word}
         THEN op' = Idle /\ live' = live \union {Block(op.offset, op.order, op.order)}
         ELSE op' = [op EXCEPT !.left = @ \ {word}] /\ UNCHANGED live
    /\ UNCHANGED <<file_size, memory_header, segment_headers, segments_, free_lists_, status>>

---------------------------------------------------------------------------
(* free(), clients, crashes *)

\* segment_of()
SegmentOf(offset) ==
    LET i == CHOOSE i \in DOMAIN segments_ :
                 /\ segments_[i].arena_offset <= offset
                 /\ offset < SegmentEnd(segments_[i])
    IN  segments_[i]

\* The block of an order that an offset lies in, and its buddy (an XOR).
Enclosing(s, offset, order) ==
    s.arena_offset + ((offset - s.arena_offset) \div BlockSize(order)) * BlockSize(order)

BuddyOf(s, offset, order) ==
    IF ((offset - s.arena_offset) \div BlockSize(order)) % 2 = 0
      THEN offset + BlockSize(order) ELSE offset - BlockSize(order)

\* Wrong on purpose: merges with one buddy only.
CoalescedOnce(offset, order) ==
    LET s == SegmentOf(offset)
        buddy == BuddyOf(s, offset, order)
    IN  IF order < RootOrder(s) /\ buddy \in free_lists_[order]
          THEN [o \in Orders |->
                  CASE o = order -> free_lists_[o] \ {buddy}
                    [] o = order + 1 -> free_lists_[o] \union {Enclosing(s, offset, o)}
                    [] OTHER -> free_lists_[o]]
          ELSE [free_lists_ EXCEPT ![order] = @ \union {offset}]

\* The while loop of free(): merge as long as the buddy is free.
Coalesced(offset, order) ==
    LET s == SegmentOf(offset)
        buddy(o) == BuddyOf(s, Enclosing(s, offset, o), o)
        final == Max({t \in order .. RootOrder(s) :
                        \A o \in order .. t - 1 : buddy(o) \in free_lists_[o]})
    IN  [o \in Orders |->
           CASE o = final -> free_lists_[o] \union {Enclosing(s, offset, o)}
             [] order <= o /\ o < final -> free_lists_[o] \ {buddy(o)}
             [] OTHER -> free_lists_[o]]

\* free() reads the order before it clears the header.
FreeBlock(b) ==
    /\ status = "running" /\ op = Idle /\ b \in live
    /\ live' = live \ {b}
    /\ op' = [kind |-> "clear", offset |-> b.offset, order |-> mem[b.offset].order, left |-> Words]
    /\ UNCHANGED <<file, segments_, free_lists_, status>>

ClearHeader(word) ==
    /\ op.kind = "clear" /\ word \in op.left
    /\ mem' = [mem EXCEPT ![op.offset][word] = Zero[word]]
    /\ IF op.left = {word}
         THEN op' = Idle /\ free_lists_' = Coalesced(op.offset, op.order)
         ELSE op' = [op EXCEPT !.left = @ \ {word}] /\ UNCHANGED free_lists_
    /\ UNCHANGED <<file_size, memory_header, segment_headers, segments_, status, live>>

\* A client fills its block.  No data look like ALLOC_MAGIC.
Write(b, order, capacity) ==
    /\ status = "running" /\ op = Idle /\ b \in live
    /\ mem' = [c \in Offsets |->
                 IF c \in Extent(b) \ {b.offset}
                   THEN [magic |-> FALSE, capacity |-> capacity, order |-> order] ELSE mem[c]]
    /\ UNCHANGED <<file_size, memory_header, segment_headers, volatile, status, live>>

\* The process is killed, or has terminated itself.
Crash == /\ status # "down"
         /\ status' = "down"
         /\ segments_' = <<>>
         /\ free_lists_' = NoFreeLists
         /\ op' = Idle
         /\ kills' = IF status = "terminated" THEN kills ELSE kills + 1
         /\ kills' <= MaxKills
         /\ UNCHANGED <<file, live>>

Step == \/ Create \/ ResetStorage \/ InitializeFirst \/ RebuildRuntimeState
        \/ \E order \in Orders : Allocate(order)
        \/ GrowFile \/ GrowSegment \/ Retry
        \/ \E word \in Words : StoreHeader(word) \/ ClearHeader(word)
        \/ \E b \in live : FreeBlock(b) \/ \E order, capacity \in StaleOrders : Write(b, order, capacity)

Next == /\ (Step /\ UNCHANGED kills) \/ Crash
        /\ persisted' = IF file' = file THEN persisted ELSE Scan(LoadSegments)'

Spec == Init /\ [][Next]_vars

---------------------------------------------------------------------------
(* Properties *)

\* Every variable holds a value of its kind.
TypeOK ==
    /\ file_size \in 0 .. MaxFile
    /\ memory_header \in BOOLEAN
    /\ segment_headers \in [Offsets -> 0 .. MaxFile]
    /\ mem \in [Offsets -> [magic : BOOLEAN, capacity : 0 .. MaxOrder, order : 0 .. MaxOrder]]
    /\ \A i \in DOMAIN segments_ : SegmentEnd(segments_[i]) <= file_size
    /\ \A o \in Orders : free_lists_[o] \subseteq 0 .. file_size - 1
    /\ status \in {"down", "opened", "reset", "running", "terminated"}
    /\ op \in [kind : {"idle", "grow", "retry", "store", "clear"}, offset : 0 .. MaxFile,
              order : 0 .. MaxOrder, left : SUBSET Words]
    /\ live \subseteq {Block(c, o, k) : c \in Offsets, o \in Orders, k \in 0 .. MaxOrder}
    /\ kills \in 0 .. MaxKills

\* Every block a client holds is found by the scan of a next process, with its
\* order and capacity, whatever stale bytes and cut calls precede it in the
\* file (load_segments() l.382, scan_segment_allocations() l.432).
HeldAreRecovered == live \subseteq persisted

\* Between calls the free lists are those that a next process would rebuild
\* (rebuild_runtime_state() l.412): nothing is leaked by splitting and merging,
\* and merging is complete.
FreeListsAreRebuilt ==
    status = "running" /\ op = Idle => free_lists_ = Rebuilt(LoadSegments)

\* A start ends in "Corrupt ..." (l.396, l.496) only if the very first one was
\* cut between the headers of the file and of its segment, never because of
\* what calls of allocate() and free() left behind.
CorruptOnlyWhenNew ==
    status = "terminated" => segment_headers[SegmentsOffset] = 0

---------------------------------------------------------------------------
(* The inductive invariant: why the properties hold *)

\* Blocks of every order lie in a segment as the nodes of a tree.
IsNode(s, offset, order) ==
    /\ order \in 1 .. RootOrder(s)
    /\ s.arena_offset <= offset /\ offset + BlockSize(order) <= SegmentEnd(s)
    /\ (offset - s.arena_offset) % BlockSize(order) = 0

Meets(b, offset, order) ==
    b.offset < offset + BlockSize(order) /\ offset < b.offset + BlockSize(b.order)
Untouched(blocks, offset, order) == \A b \in blocks : ~Meets(b, offset, order)

Headers(s) == {Block(c, mem[c].order, mem[c].capacity) :
                  c \in {d \in Arena(s) : IsValidAlloc(mem[d], s, d)}}
Except(blocks, offset) == {b \in blocks : b.offset # offset}

\* No header, valid or made of stale words, claims what another block has,
\* unless it lies inside a block itself and is not valid.
Tidy(s) ==
    \A c \in Arena(s) : IsNode(s, c, mem[c].order) =>
        LET others == Except(Headers(s), c)
        IN  \/ Untouched(others, c, mem[c].order)
            \/ ~IsValidAlloc(mem[c], s, c) /\ ~Untouched(others, c, 1)

\* Between two stores of a call one header is neither there nor gone: the
\* other blocks are settled, but the lists of free blocks know both kinds.
Changing == op.kind \in {"store", "clear"}
Settled == IF Changing THEN Except(persisted, op.offset) ELSE persisted
InUse == Settled \union (IF Changing THEN {Block(op.offset, op.order, op.order)} ELSE {})

\* A largest node without a block.
IsFree(s, blocks, offset, order) ==
    /\ IsNode(s, offset, order)
    /\ Untouched(blocks, offset, order)
    /\ order # RootOrder(s) =>
           ~Untouched(blocks, Enclosing(s, offset, order + 1), order + 1)

FileIsSound ==
    /\ segment_headers \in [Offsets -> {0} \union {BlockSize(o) : o \in Orders}]
    /\ ~memory_header => /\ file_size \in {0, InitialFile}
                         /\ \A c \in Offsets : segment_headers[c] = 0
    /\ segment_headers[SegmentsOffset] # 0 =>
           SegmentsOffset + SegmentOverhead + segment_headers[SegmentsOffset] <= file_size
    /\ \A s \in Range(LoadSegments) : Tidy(s)
    /\ persisted = UNION {Headers(s) : s \in Range(LoadSegments)}

StatusIsSound ==
    /\ status = "reset" => /\ memory_header /\ file_size = InitialFile
                           /\ \A c \in Offsets : segment_headers[c] = 0 /\ mem[c] = Zero
    /\ status = "terminated" => segment_headers[SegmentsOffset] = 0
    /\ status # "running" => op = Idle /\ segments_ = <<>> /\ free_lists_ = NoFreeLists
    /\ status = "running" => segments_ = LoadSegments /\ segments_ # <<>>

\* Where a call is.  A node that contains the block being stored, but starts
\* before it, was not free: no header inside that node can claim the block.
OpIsSound ==
    /\ op.kind = "idle" => op = Idle
    /\ op.kind # "idle" => op.order \in Orders
    /\ op.kind \in {"idle", "retry", "store", "clear"} /\ status = "running" =>
           file_size = SegmentEnd(segments_[Len(segments_)])
    /\ op.kind = "grow" =>
           /\ op.offset = SegmentEnd(segments_[Len(segments_)])
           /\ op.offset + SegmentOverhead + NewArena(op.order) <= MaxFile
           /\ op.offset < file_size =>
                  /\ file_size = op.offset + SegmentOverhead + NewArena(op.order)
                  /\ \A c \in Offsets : c >= op.offset => segment_headers[c] = 0 /\ mem[c] = Zero
           /\ op.offset <= file_size
    /\ Changing =>
           /\ op.left # {}
           /\ \E s \in Range(segments_) :
                  /\ IsNode(s, op.offset, op.order)
                  /\ Untouched(Settled, op.offset, op.order)
                  /\ op.kind = "store" => \A c \in Arena(s), o \in Orders :
                        IsNode(s, c, o) /\ c < op.offset /\ op.offset < c + BlockSize(o) =>
                            ~Untouched(Settled, c, o)
    /\ op.kind = "store" => \A word \in Words \ op.left :
           mem[op.offset][word] = IF word = "magic" THEN TRUE ELSE op.order
    /\ op.kind = "clear" => /\ mem[op.offset].order = IF "order" \in op.left THEN op.order ELSE 0
                            /\ "magic" \in op.left \/ ~mem[op.offset].magic
                            /\ mem[op.offset].capacity <= op.order

\* The free lists and what clients hold.
ListsAreSound ==
    /\ status = "running" => free_lists_ =
           [o \in Orders |-> {c \in Offsets : \E s \in Range(segments_) : IsFree(s, InUse, c, o)}]
    /\ live \subseteq Settled

IInv == TypeOK /\ FileIsSound /\ StatusIsSound /\ OpIsSound /\ ListsAreSound

---------------------------------------------------------------------------
\* The blocks whose headers are in the file, but for the one being changed, are
\* taken and given back one by one and never overlap; kills and restarts change
\* nothing (recover() l.194, tests/crash_recovery_test.cpp:248 "allocator
\* recovered duplicate live offsets").
Store == INSTANCE BlockStore WITH held <- Settled

Implements == Store!Spec
=============================================================================
