----------------------------- MODULE ZeroCopyIo -----------------------------
(***************************************************************************)
(* The lock-free structures of the SDK's perf modules: the block pools of  *)
(* ZeroCopyMemoryManager with their atomic bitmaps, the byte ring of       *)
(* MemoryMappedBuffer, and the item ring CacheOptimizedRingBuffer.  They   *)
(* share nothing; subject says which one a behaviour exercises.            *)
(*                                                                         *)
(* Every load, store and read-modify-write of an atomic is a step, and so  *)
(* is every byte a copy stores or reads.  The rings serve one producer and *)
(* one consumer: their positions are loaded and stored, not exchanged.     *)
(***************************************************************************)
EXTENDS Integers, Sequences, FiniteSets

CONSTANTS
  Threads,         \* threads that share the manager
  WordBits,        \* bits of a bitmap word (64)
  TotalBlocks,     \* TotalBlocks[p]: the blocks of pool p, from small to large blocks
  BlockSize,       \* BlockSize[p]: their size
  Size,            \* size of the mapped buffer, capacity of the item ring
  CounterLimit,    \* the counters of the item ring wrap here (2^64)
  MaxAllocations,  \* bound: allocations that are counted
  MaxSent          \* bound: bytes or items that are sent

Subjects == {"SharedMemoryPool", "MemoryMappedBuffer", "CacheOptimizedRingBuffer"}
Pools == DOMAIN TotalBlocks

ASSUME ZeroCopyAssumption ==
  /\ WordBits \in Nat \ {0}
  /\ TotalBlocks \in [Pools -> Nat \ {0}] /\ BlockSize \in [Pools -> Nat]
  /\ Pools = 1 .. Cardinality(Pools) /\ Pools # {}
  /\ Size \in Nat \ {0, 1} /\ MaxAllocations \in Nat /\ MaxSent \in Nat
  /\ CounterLimit \in Nat \ {0} /\ CounterLimit % Size = 0   \* both are powers of two

VARIABLES
  subject,                 \* the structure under test
  free,                    \* free[p]: the blocks whose bit is set
  head,                    \* head[p]: allocator_head
  at,                      \* at[t]: where thread t is in allocate or deallocate
  held,                    \* the blocks whose ZeroCopyBlock the program owns
  blocks_allocated, blocks_freed,
  stable,                  \* history: stable[t]: blocks free since the call of t began
  cells,                   \* the memory of the ring
  write_pos, read_pos,     \* its atomic positions
  writer, reader,          \* where its producer and its consumer are
  sent, delivered,         \* history: what was published, and what was read
  spilled                  \* history: a copy stored past its message over unread data

poolVars == <<free, head, at, held, blocks_allocated, blocks_freed, stable>>
ringVars == <<cells, write_pos, read_pos, writer, reader, sent, delivered, spilled>>
vars == <<subject, poolVars, ringVars>>

(***************************************************************************)
(* SharedMemoryPool.                                                       *)
(***************************************************************************)
BlocksOf(p) == 0 .. TotalBlocks[p] - 1
Block == UNION {{p} \X BlocksOf(p) : p \in Pools}
Words(p) == (TotalBlocks[p] + WordBits - 1) \div WordBits

Idle == [pc |-> "idle", pool |-> 0, block |-> 0, start |-> 0, attempt |-> 0, current |-> {}]

\* SharedMemoryPool::new: exactly the bits of existing blocks are set.
PoolInit ==
  /\ free = [p \in Pools |-> BlocksOf(p)]
  /\ head = [p \in Pools |-> 0]
  /\ at = [t \in Threads |-> Idle] /\ held = {}
  /\ blocks_allocated = 0 /\ blocks_freed = 0
  /\ stable = [t \in Threads |-> {}]

Moves == subject = "SharedMemoryPool" /\ UNCHANGED <<subject, ringVars>>
Step(t, new) == at' = [at EXCEPT ![t] = new]

\* The first pool whose blocks are large enough, or the last one.
pool_for(p, size) ==
  /\ BlockSize[p] >= size \/ p = Cardinality(Pools)
  /\ \A r \in 1 .. p - 1 : BlockSize[r] < size

\* allocate picks a pool, and allocate_block starts its scan at the word the
\* head points to.
allocate(t, size) ==
  /\ Moves /\ at[t].pc = "idle" /\ blocks_allocated < MaxAllocations
  /\ \E p \in Pools :
       /\ pool_for(p, size)
       /\ Step(t, [Idle EXCEPT !.pc = "load", !.pool = p, !.start = head[p] \div WordBits])
       /\ stable' = [stable EXCEPT ![t] = {p} \X free[p]]
  /\ UNCHANGED <<free, head, held, blocks_allocated, blocks_freed>>

\* The word of the current attempt, and its set bits, as blocks.
Word(a) == (a.start + a.attempt) % Words(a.pool)
Load(a) == {i \in free[a.pool] : i \div WordBits = Word(a)}

\* The scan goes on with the bits of this word, or with the next one.
Look(a) ==
  IF Load(a) = {} THEN [a EXCEPT !.pc = "load", !.attempt = @ + 1, !.current = {}]
  ELSE [a EXCEPT !.pc = "exchange", !.current = Load(a)]

\* Mutated form: the last word is not looked at.
LoadWord_short(t) ==
  /\ Moves /\ at[t].pc = "load" /\ at[t].attempt < Words(at[t].pool)
  /\ Step(t, IF at[t].attempt = Words(at[t].pool) - 1 THEN [at[t] EXCEPT !.attempt = @ + 1]
             ELSE Look(at[t]))
  /\ UNCHANGED <<free, head, held, blocks_allocated, blocks_freed, stable>>

LoadWord(t) ==
  /\ Moves /\ at[t].pc = "load" /\ at[t].attempt < Words(at[t].pool)
  /\ Step(t, Look(at[t]))
  /\ UNCHANGED <<free, head, held, blocks_allocated, blocks_freed, stable>>

\* Every word was seen empty: None.
NoBlock(t) ==
  /\ Moves /\ at[t].pc = "load" /\ at[t].attempt = Words(at[t].pool)
  /\ Step(t, Idle) /\ stable' = [stable EXCEPT ![t] = {}]
  /\ UNCHANGED <<free, head, held, blocks_allocated, blocks_freed>>

Lowest(i, bits) == i \in bits /\ \A j \in bits : i <= j

\* Takes the lowest bit of the value that was loaded out of the bitmap.
TakeLowest(t) ==
  \E i \in BlocksOf(at[t].pool) :
    /\ Lowest(i, at[t].current)
    /\ free' = [free EXCEPT ![at[t].pool] = @ \ {i}]
    /\ Step(t, [at[t] EXCEPT !.pc = "advance", !.block = i, !.current = {}])
    /\ stable' = [u \in Threads |-> stable[u] \ {<<at[t].pool, i>>}]

\* Mutated form: the bit is cleared whatever the word has become.
compare_exchange_blind(t) ==
  /\ Moves /\ at[t].pc = "exchange"
  /\ TakeLowest(t)
  /\ UNCHANGED <<head, held, blocks_allocated, blocks_freed>>

\* compare_exchange_weak replaces the word if it still has that value.  (Only bits
\* of existing blocks are ever set: the code's check of the index never fails.)
compare_exchange(t) ==
  /\ Moves /\ at[t].pc = "exchange"
  /\ Load(at[t]) = at[t].current
  /\ TakeLowest(t)
  /\ UNCHANGED <<head, held, blocks_allocated, blocks_freed>>

\* It fails, also without a reason, and returns the word as it is.
ExchangeFails(t) ==
  /\ Moves /\ at[t].pc = "exchange"
  /\ Step(t, Look(at[t]))
  /\ UNCHANGED <<free, head, held, blocks_allocated, blocks_freed, stable>>

\* The head is stored as if it counted bits of words: the next scan starts at
\* the word whose number is that of the next block, modulo the words.
AdvanceHead(t) ==
  /\ Moves /\ at[t].pc = "advance"
  /\ head' = [head EXCEPT ![at[t].pool] = (at[t].block + 1) * WordBits]
  /\ Step(t, [at[t] EXCEPT !.pc = "count"])
  /\ UNCHANGED <<free, held, blocks_allocated, blocks_freed, stable>>

CountAllocated(t) ==
  /\ Moves /\ at[t].pc = "count"
  /\ blocks_allocated' = blocks_allocated + 1
  /\ held' = held \cup {<<at[t].pool, at[t].block>>}
  /\ Step(t, Idle) /\ stable' = [stable EXCEPT ![t] = {}]
  /\ UNCHANGED <<free, head, blocks_freed>>

\* deallocate consumes the block, which any thread may have been given.
deallocate(t, b) ==
  /\ Moves /\ at[t].pc = "idle" /\ b \in held
  /\ held' = held \ {b}
  /\ Step(t, [Idle EXCEPT !.pc = "release", !.pool = b[1], !.block = b[2]])
  /\ UNCHANGED <<free, head, blocks_allocated, blocks_freed, stable>>

deallocate_block(t) ==
  /\ Moves /\ at[t].pc = "release"
  /\ free' = [free EXCEPT ![at[t].pool] = @ \cup {at[t].block}]
  /\ Step(t, [Idle EXCEPT !.pc = "uncount"])
  /\ UNCHANGED <<head, held, blocks_allocated, blocks_freed, stable>>

CountFreed(t) ==
  /\ Moves /\ at[t].pc = "uncount"
  /\ blocks_freed' = blocks_freed + 1
  /\ Step(t, Idle)
  /\ UNCHANGED <<free, head, held, blocks_allocated, stable>>

Sizes == 1 .. BlockSize[Cardinality(Pools)] + 1

PoolNext ==
  \E t \in Threads :
    \/ \E size \in Sizes : allocate(t, size)
    \/ LoadWord(t) \/ NoBlock(t) \/ compare_exchange(t) \/ ExchangeFails(t)
    \/ AdvanceHead(t) \/ CountAllocated(t)
    \/ \E b \in Block : deallocate(t, b)
    \/ deallocate_block(t) \/ CountFreed(t)

(***************************************************************************)
(* The rings.  A position of the mapped buffer is an index; the counters   *)
(* of the item ring run on and are masked.                                 *)
(***************************************************************************)
Mapped == subject = "MemoryMappedBuffer"
Limit == IF Mapped THEN Size ELSE CounterLimit

\* A transfer under way: its length, the stores it makes, and what is copied.
Resting == [busy |-> FALSE, length |-> 0, stores |-> <<>>, copied |-> <<>>]

RingInit ==
  /\ cells = [i \in 0 .. Size - 1 |-> 0] /\ write_pos = 0 /\ read_pos = 0
  /\ writer = Resting /\ reader = Resting
  /\ sent = 0 /\ delivered = <<>> /\ spilled = FALSE

available_data ==
  IF write_pos >= read_pos THEN write_pos - read_pos ELSE Size - (read_pos - write_pos)

\* Mutated form: no cell is kept free.
available_space_all ==
  IF write_pos >= read_pos THEN Size - (write_pos - read_pos) ELSE read_pos - write_pos
available_space ==
  IF write_pos >= read_pos THEN Size - (write_pos - read_pos) - 1 ELSE read_pos - write_pos - 1

\* The lengths a call can transfer, as far as its checks go.
Writable ==
  IF Mapped THEN 1 .. available_space
  ELSE IF (write_pos + 1) % Size = read_pos % Size THEN {} ELSE {1}
Readable ==
  IF Mapped THEN 1 .. available_data ELSE IF write_pos = read_pos THEN {} ELSE {1}

\* The bytes memcpy_simd_optimized stores for len bytes, on x86_64: whole words
\* of 8, 16 or 32 bytes once there are more than four.
memcpy_width(len) ==
  CASE len <= 4 -> len
    [] len \in 5 .. 8 -> 8
    [] len \in 9 .. 16 -> 16
    [] OTHER -> 32 * ((len + 31) \div 32)

\* Its stores, as pairs of a place and a value.  The bytes of the message are
\* first + 1, first + 2, ...; what lies behind them in the source is 0.
memcpy(place, first, len) ==
  [k \in 1 .. memcpy_width(len) |-> <<place + k - 1, IF k <= len THEN first + k ELSE 0>>]

\* The stores of a message of n bytes or items: in two parts when it reaches over
\* the end of the mapped buffer, and a single item into the item ring.
Stores(n) ==
  LET first_part == Size - write_pos IN
  IF ~Mapped THEN <<<<write_pos % Size, sent + 1>>>>
  ELSE IF n <= first_part THEN memcpy(write_pos, sent, n)
  ELSE memcpy(write_pos, sent, first_part) \o memcpy(0, sent + first_part, n - first_part)

RingMoves == subject # "SharedMemoryPool" /\ UNCHANGED <<subject, poolVars>>

\* write_data and try_push, up to the copy; a call that does not fit changes
\* nothing.  read_pos may have moved on when the copy is made.
write_data(n) ==
  /\ RingMoves /\ ~writer.busy
  /\ n \in Writable /\ sent + n <= MaxSent
  /\ writer' = [Resting EXCEPT !.busy = TRUE, !.length = n, !.stores = Stores(n)]
  /\ UNCHANGED <<cells, write_pos, read_pos, reader, sent, delivered, spilled>>

\* The cells of what the consumer has yet to read, this message included.
Unread == {(read_pos + k) % Size : k \in 0 .. sent + writer.length - Len(delivered) - 1}

\* One store of the copy.  A store behind the last cell hits other memory.
CopyIn ==
  /\ RingMoves /\ writer.busy /\ writer.stores # <<>>
  /\ LET cell == Head(writer.stores)[1]  value == Head(writer.stores)[2] IN
       /\ cells' = IF cell < Size THEN [cells EXCEPT ![cell] = value] ELSE cells
       /\ spilled' = (spilled \/ (value = 0 /\ cell \in Unread))
  /\ writer' = [writer EXCEPT !.stores = Tail(@)]
  /\ UNCHANGED <<write_pos, read_pos, reader, sent, delivered>>

Publish ==
  /\ RingMoves /\ writer.busy /\ writer.stores = <<>>
  /\ write_pos' = (write_pos + writer.length) % Limit
  /\ sent' = sent + writer.length
  /\ writer' = Resting
  /\ UNCHANGED <<cells, read_pos, reader, delivered, spilled>>

read_data(n) ==
  /\ RingMoves /\ ~reader.busy
  /\ n \in Readable
  /\ reader' = [Resting EXCEPT !.busy = TRUE, !.length = n]
  /\ UNCHANGED <<cells, write_pos, read_pos, writer, sent, delivered, spilled>>

\* One byte of the copy out, or the item.  The whole words that are stored past
\* the end of the caller's buffer are outside of the ring, and left out.
CopyOut ==
  /\ RingMoves /\ reader.busy /\ Len(reader.copied) < reader.length
  /\ reader' = [reader EXCEPT !.copied = Append(@, cells[(read_pos + Len(@)) % Size])]
  /\ UNCHANGED <<cells, write_pos, read_pos, writer, sent, delivered, spilled>>

Consume ==
  /\ RingMoves /\ reader.busy /\ Len(reader.copied) = reader.length
  /\ read_pos' = (read_pos + reader.length) % Limit
  /\ delivered' = delivered \o reader.copied
  /\ reader' = Resting
  /\ UNCHANGED <<cells, write_pos, writer, sent, spilled>>

RingNext ==
  \/ \E n \in 1 .. Size : write_data(n) \/ read_data(n)
  \/ CopyIn \/ Publish \/ CopyOut \/ Consume

Init == subject \in Subjects /\ PoolInit /\ RingInit
Next == PoolNext \/ RingNext
Spec == Init /\ [][Next]_vars

(***************************************************************************)
(* Properties.                                                             *)
(***************************************************************************)
\* The block a thread is between having taken it out of the bitmap and handing
\* it to the program, or between getting it back and returning it.
InHand(t) ==
  IF at[t].pc \in {"advance", "count", "release"} THEN {<<at[t].pool, at[t].block>>} ELSE {}
IsFree(b) == b[2] \in free[b[1]]

\* However allocations and deallocations of several threads run into each
\* other, a block is free, owned by the program, or in the hands of one thread:
\* none is handed out twice and none is lost.
BlocksAccounted ==
  /\ \A b \in Block : IsFree(b) \/ b \in held \/ \E t \in Threads : b \in InHand(t)
  /\ \A b \in held : ~IsFree(b)
  /\ \A t \in Threads : \A b \in InHand(t) : b \in Block /\ ~IsFree(b) /\ b \notin held
  /\ \A t, u \in Threads : InHand(t) \cap InHand(u) # {} => t = u

\* An allocation fails only when no block was free all the time it was looking,
\* wherever the head made it start and whatever exchanges it lost.
AllocationFinds ==
  \A t \in Threads :
    at[t].pc = "load" /\ at[t].attempt = Words(at[t].pool) => stable[t] = {}

\* Over any wrap of the positions, with a producer and a consumer that copy at
\* the same time, what is read is what was written, once and in order, and the
\* ring never holds more than Size - 1; unless the copy, which stores whole
\* words, has stored past the end of a message over what was not read yet (of
\* an earlier message, or of the first part of the same one).
RingDelivers ==
  /\ ~spilled => delivered = [i \in 1 .. Len(delivered) |-> i]
  /\ sent - Len(delivered) \in 0 .. Size - 1
=============================================================================
