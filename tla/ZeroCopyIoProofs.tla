--------------------------- MODULE ZeroCopyIoProofs ---------------------------
(***************************************************************************)
(* Proofs about ZeroCopyIo.  For every number of threads, pools and blocks *)
(* and every width of a bitmap word: no block is handed out twice or lost, *)
(* and an allocation that gives up has missed no block that was free all   *)
(* the time.  For every size of a ring: what is read is what was written.  *)
(*                                                                         *)
(* BlocksAccounted is inductive once it is known that every bit and every  *)
(* block in somebody's hands is one of an existing block.  AllocationFinds *)
(* follows from StillAhead: a block that has been free since a scan began  *)
(* lies in none of the words the scan has passed.  RingDelivers follows    *)
(* from Contents: every value that is not yet read is in its cell, or is   *)
(* among the stores the copy has still to make.                            *)
(***************************************************************************)
EXTENDS ZeroCopyIo, SequenceTheorems, TLAPS

Place == [pc : {"idle", "load", "exchange", "advance", "count", "release", "uncount"},
          pool : Int, block : Int, start : Int, attempt : Int, current : SUBSET Int]

PoolTypeOK ==
  /\ free \in [Pools -> SUBSET Int] /\ head \in [Pools -> Int] /\ at \in [Threads -> Place]
  /\ \A p \in Pools : free[p] \subseteq BlocksOf(p)
  /\ held \subseteq Block
  /\ \A t \in Threads : at[t].pc \in {"load", "exchange", "advance", "count", "release"}
                          => at[t].pool \in Pools
  /\ \A t \in Threads : at[t].pc \in {"advance", "count", "release"}
                          => at[t].block \in BlocksOf(at[t].pool)

PoolInv == PoolTypeOK /\ BlocksAccounted

USE ZeroCopyAssumption

\* The members of Block are the pairs of a pool and the number of a block.
LEMMA BlockPairs ==
  /\ \A p \in Pools : \A i \in BlocksOf(p) : <<p, i>> \in Block
  /\ \A b \in Block : b = <<b[1], b[2]>> /\ b[1] \in Pools /\ b[2] \in BlocksOf(b[1])
  BY DEF Block

LEMMA IdlePlace ==
  /\ Idle \in Place /\ Idle.pc = "idle"
  /\ \A p, start \in Int : [Idle EXCEPT !.pc = "load", !.pool = p, !.start = start] \in Place
  /\ \A p, i \in Int : [Idle EXCEPT !.pc = "release", !.pool = p, !.block = i] \in Place
  /\ [Idle EXCEPT !.pc = "uncount"] \in Place
<1>1. {} \in SUBSET Int /\ 0 \in Int
  OBVIOUS
<1>2. QED  BY <1>1 DEF Idle, Place

LEMMA PoolInvInit == Init => PoolInv
<1> SUFFICES ASSUME Init PROVE PoolInv
  OBVIOUS
<1>1. PoolTypeOK
  <2>1. \A p \in Pools : BlocksOf(p) \in SUBSET Int
    BY DEF BlocksOf
  <2>2. free = [p \in Pools |-> BlocksOf(p)] /\ head = [p \in Pools |-> 0]
        /\ at = [t \in Threads |-> Idle] /\ held = {}
    BY DEF Init, PoolInit
  <2>3. free \in [Pools -> SUBSET Int] /\ \A p \in Pools : free[p] \subseteq BlocksOf(p)
    BY <2>1, <2>2
  <2>4. Idle \in Place
    BY IdlePlace
  <2>5. at \in [Threads -> Place]
    BY <2>2, <2>4
  <2>6. head \in [Pools -> Int] /\ at \in [Threads -> Place] /\ held \subseteq Block
    BY <2>2, <2>5
  <2>7. \A t \in Threads : at[t].pc = "idle"
    BY <2>2, IdlePlace
  <2>8. QED  BY <2>3, <2>6, <2>7 DEF PoolTypeOK
<1>2. BlocksAccounted
  <2>1. \A t \in Threads : InHand(t) = {}
    BY DEF Init, PoolInit, InHand, Idle
  <2>2. \A b \in Block : IsFree(b)
    BY BlockPairs DEF Init, PoolInit, IsFree
  <2>3. held = {}
    BY DEF Init, PoolInit
  <2>4. QED  BY <2>1, <2>2, <2>3 DEF BlocksAccounted
<1>3. QED  BY <1>1, <1>2 DEF PoolInv

\* A step that leaves the bits, the blocks of the program and what every thread
\* has in hand alone keeps the blocks accounted for.
LEMMA SameHands ==
  ASSUME BlocksAccounted, free' = free, held' = held, \A t \in Threads : InHand(t)' = InHand(t)
  PROVE  BlocksAccounted'
  BY DEF BlocksAccounted, IsFree

LEMMA AllocateInv ==
  ASSUME PoolInv, NEW t \in Threads, NEW size \in Sizes, allocate(t, size)
  PROVE  PoolInv'
<1>1. PICK p \in Pools :
        /\ at' = [at EXCEPT ![t] = [Idle EXCEPT !.pc = "load", !.pool = p,
                                                !.start = head[p] \div WordBits]]
        /\ at[t].pc = "idle" /\ free' = free /\ held' = held /\ head' = head
  BY DEF allocate, Step
<1> DEFINE start == head[p] \div WordBits
<1>2. p \in Int /\ start \in Int
  <2>1. p \in 1 .. Cardinality(Pools)
    OBVIOUS
  <2>2. head[p] \in Int /\ WordBits \in Nat \ {0}
    BY DEF PoolInv, PoolTypeOK
  <2>3. \A a \in Int, b \in Nat \ {0} : a \div b \in Int
    OBVIOUS
  <2>4. QED  BY <2>1, <2>2, <2>3
<1> HIDE DEF start
<1>3. [Idle EXCEPT !.pc = "load", !.pool = p, !.start = start] \in Place
  BY <1>2, IdlePlace
<1>4. at' = [at EXCEPT ![t] = [Idle EXCEPT !.pc = "load", !.pool = p, !.start = start]]
  BY <1>1 DEF start
<1>5. PoolTypeOK'
  BY <1>1, <1>3, <1>4 DEF PoolInv, PoolTypeOK, Idle
<1>6. \A u \in Threads : InHand(u)' = InHand(u)
  <2>1. at'[t].pc = "load" /\ \A u \in Threads \ {t} : at'[u] = at[u]
    BY <1>4 DEF Idle, PoolInv, PoolTypeOK
  <2>2. InHand(t)' = {} /\ InHand(t) = {}
    BY <1>1, <2>1 DEF InHand
  <2>3. QED  BY <2>1, <2>2 DEF InHand
<1>7. QED  BY <1>1, <1>5, <1>6, SameHands DEF PoolInv

\* Where the scan goes on.
LEMMA LookType ==
  ASSUME PoolInv, NEW t \in Threads, at[t].pc \in {"load", "exchange"}
  PROVE  /\ Look(at[t]) \in Place /\ Look(at[t]).pc \in {"load", "exchange"}
         /\ Look(at[t]).pool \in Pools
<1>1. at[t] \in Place /\ at[t].pool \in Pools
  BY DEF PoolInv, PoolTypeOK
<1>2. Load(at[t]) \subseteq Int
  BY <1>1 DEF Load, PoolInv, PoolTypeOK
<1>3. CASE Load(at[t]) = {}
  <2>1. Look(at[t]) = [at[t] EXCEPT !.pc = "load", !.attempt = at[t].attempt + 1, !.current = {}]
    BY <1>3 DEF Look
  <2>2. {} \in SUBSET Int /\ at[t].attempt + 1 \in Int
    BY <1>1 DEF Place
  <2>3. QED  BY <1>1, <2>1, <2>2 DEF Place
<1>4. CASE Load(at[t]) # {}
  <2>1. Look(at[t]) = [at[t] EXCEPT !.pc = "exchange", !.current = Load(at[t])]
    BY <1>4 DEF Look
  <2>2. QED  BY <1>1, <1>2, <2>1 DEF Place
<1>5. QED  BY <1>3, <1>4

\* Scanning on, giving up and coming back to rest with nothing in hand.
LEMMA ScanInv ==
  ASSUME PoolInv, NEW t \in Threads,
         LoadWord(t) \/ NoBlock(t) \/ ExchangeFails(t) \/ CountFreed(t)
  PROVE  PoolInv'
<1>1. PICK new \in {Idle, Look(at[t])} :
        /\ at' = [at EXCEPT ![t] = new] /\ free' = free /\ held' = held /\ head' = head
        /\ at[t].pc \in {"load", "exchange", "uncount"}
        /\ new = Idle \/ at[t].pc \in {"load", "exchange"}
  BY DEF LoadWord, NoBlock, ExchangeFails, CountFreed, Step
<1>2. /\ new \in Place /\ new.pc \in {"idle", "load", "exchange"}
      /\ new.pc # "idle" => new.pool \in Pools
  <2>1. CASE new = Idle  BY <2>1, IdlePlace
  <2>2. CASE new = Look(at[t]) /\ at[t].pc \in {"load", "exchange"}
    BY <2>2, LookType
  <2>3. QED  BY <1>1, <2>1, <2>2
<1>3. PoolTypeOK'
  BY <1>1, <1>2 DEF PoolInv, PoolTypeOK
<1>4. \A u \in Threads : InHand(u)' = InHand(u)
  BY <1>1, <1>2 DEF InHand, PoolInv, PoolTypeOK
<1>5. QED  BY <1>1, <1>3, <1>4, SameHands DEF PoolInv

\* A thread gets block b in hand, from the bitmap or from the program: what the
\* bitmap and the program have is what they had without b.
LEMMA GetsInHand ==
  ASSUME BlocksAccounted, NEW t \in Threads, NEW b \in Block,
         InHand(t) = {}, InHand(t)' = {b},
         \A u \in Threads \ {t} : InHand(u)' = InHand(u),
         IsFree(b) \/ b \in held,
         held' = held \ {b}, held \subseteq Block,
         \A c \in Block : IsFree(c)' <=> IsFree(c) /\ c # b
  PROVE  BlocksAccounted'
<1>1. \A u \in Threads : b \notin InHand(u)
  BY DEF BlocksAccounted
<1>2. \A c \in Block : IsFree(c)' \/ c \in held' \/ \E u \in Threads : c \in InHand(u)'
  <2> SUFFICES ASSUME NEW c \in Block
               PROVE  IsFree(c)' \/ c \in held' \/ \E u \in Threads : c \in InHand(u)'
    OBVIOUS
  <2>1. CASE c = b  BY <2>1
  <2>2. CASE c # b /\ (IsFree(c) \/ c \in held)  BY <2>2
  <2>3. CASE \E u \in Threads : c \in InHand(u)  BY <2>3
  <2>4. QED  BY <2>1, <2>2, <2>3 DEF BlocksAccounted
<1>3. \A c \in held' : ~IsFree(c)'
  BY DEF BlocksAccounted
<1>4. ASSUME NEW u \in Threads, NEW c \in InHand(u)'
      PROVE  c \in Block /\ ~IsFree(c)' /\ c \notin held'
  <2>1. CASE u = t  BY <2>1, <1>4
  <2>2. CASE u # t
    <3>1. c \in Block /\ ~IsFree(c) /\ c \notin held
      BY <1>4, <2>2 DEF BlocksAccounted
    <3>2. QED  BY <3>1
  <2>3. QED  BY <2>1, <2>2
<1>5. ASSUME NEW u \in Threads, NEW v \in Threads, NEW c \in InHand(u)', c \in InHand(v)'
      PROVE  u = v
  <2>1. CASE u = t \/ v = t  BY <2>1, <1>1, <1>5
  <2>2. CASE u # t /\ v # t  BY <2>2, <1>5 DEF BlocksAccounted
  <2>3. QED  BY <2>1, <2>2
<1>6. \A u, v \in Threads : InHand(u)' \cap InHand(v)' # {} => u = v
  BY <1>5
<1>7. QED  BY <1>2, <1>3, <1>4, <1>6 DEF BlocksAccounted, Block, BlocksOf

LEMMA ExchangeInv ==
  ASSUME PoolInv, NEW t \in Threads, compare_exchange(t)
  PROVE  PoolInv'
<1>1. PICK i \in BlocksOf(at[t].pool) :
        /\ Lowest(i, at[t].current)
        /\ free' = [free EXCEPT ![at[t].pool] = @ \ {i}]
        /\ at' = [at EXCEPT ![t] = [at[t] EXCEPT !.pc = "advance", !.block = i, !.current = {}]]
  BY DEF compare_exchange, TakeLowest, Step
<1>2. /\ held' = held /\ head' = head /\ at[t].pc = "exchange"
      /\ Load(at[t]) = at[t].current
  BY DEF compare_exchange
<1> DEFINE p == at[t].pool
           b == <<p, i>>
           new == [at[t] EXCEPT !.pc = "advance", !.block = i, !.current = {}]
<1>3. p \in Pools /\ i \in Int /\ at[t] \in Place /\ i \in free[p]
  BY <1>1, <1>2 DEF PoolInv, PoolTypeOK, Lowest, Load, BlocksOf
<1>4. new \in Place /\ new.pc = "advance" /\ new.pool = p /\ new.block = i
  <2>1. {} \in SUBSET Int
    OBVIOUS
  <2>2. QED  BY <1>3, <2>1 DEF Place
<1>5. at' = [at EXCEPT ![t] = new] /\ free' = [free EXCEPT ![p] = @ \ {i}] /\ i \in BlocksOf(p)
  BY <1>1
<1> HIDE DEF p, new
<1>6. PoolTypeOK'
  <2>1. free' \in [Pools -> SUBSET Int] /\ \A q \in Pools : free'[q] \subseteq BlocksOf(q)
    BY <1>3, <1>5 DEF PoolInv, PoolTypeOK
  <2>2. at' \in [Threads -> Place]
    BY <1>4, <1>5 DEF PoolInv, PoolTypeOK
  <2>3. \A u \in Threads : at'[u] = IF u = t THEN new ELSE at[u]
    BY <1>5 DEF PoolInv, PoolTypeOK
  <2>4. QED  BY <1>2, <1>3, <1>4, <1>5, <2>1, <2>2, <2>3 DEF PoolInv, PoolTypeOK
<1>7. b \in Block /\ IsFree(b) /\ b \notin held
  <2>1. b \in Block
    BY <1>3, <1>5, BlockPairs
  <2>2. IsFree(b)
    BY <1>3 DEF IsFree
  <2>3. QED  BY <2>1, <2>2 DEF PoolInv, BlocksAccounted
<1>8. InHand(t) = {} /\ InHand(t)' = {b} /\ \A u \in Threads \ {t} : InHand(u)' = InHand(u)
  BY <1>2, <1>4, <1>5 DEF InHand, PoolInv, PoolTypeOK
<1>9. \A c \in Block : IsFree(c)' <=> IsFree(c) /\ c # b
  BY <1>3, <1>5, BlockPairs DEF IsFree, PoolInv, PoolTypeOK
<1>10. held' = held \ {b} /\ held \subseteq Block /\ BlocksAccounted
  BY <1>2, <1>7 DEF PoolInv, PoolTypeOK
<1> HIDE DEF b
<1>11. BlocksAccounted'
  BY <1>7, <1>8, <1>9, <1>10, GetsInHand
<1>12. QED  BY <1>6, <1>11 DEF PoolInv

LEMMA DeallocateInv ==
  ASSUME PoolInv, NEW t \in Threads, NEW b \in Block, deallocate(t, b)
  PROVE  PoolInv'
<1> DEFINE new == [Idle EXCEPT !.pc = "release", !.pool = b[1], !.block = b[2]]
<1>1. /\ at[t].pc = "idle" /\ b \in held /\ held' = held \ {b} /\ free' = free /\ head' = head
      /\ at' = [at EXCEPT ![t] = new]
  BY DEF deallocate, Step
<1>2. b = <<b[1], b[2]>> /\ b[1] \in Pools /\ b[2] \in BlocksOf(b[1])
  BY BlockPairs
<1>3. b[1] \in Int /\ b[2] \in Int
  <2>1. b[1] \in 1 .. Cardinality(Pools)
    BY <1>2
  <2>2. \A p \in Pools : BlocksOf(p) \subseteq Int
    BY DEF BlocksOf
  <2>3. QED  BY <1>2, <2>1, <2>2
<1>4. new \in Place
  BY <1>3, IdlePlace
<1>5. new.pc = "release" /\ new.pool = b[1] /\ new.block = b[2]
  BY DEF Idle
<1> HIDE DEF new
<1>6. \A u \in Threads : at'[u] = IF u = t THEN new ELSE at[u]
  BY <1>1 DEF PoolInv, PoolTypeOK
<1>7. PoolTypeOK'
  <2>1. at' \in [Threads -> Place] /\ held' \subseteq Block
    BY <1>1, <1>4 DEF PoolInv, PoolTypeOK
  <2>2. QED  BY <1>1, <1>2, <1>5, <1>6, <2>1 DEF PoolInv, PoolTypeOK
<1>8. InHand(t) = {} /\ InHand(t)' = {b} /\ \A u \in Threads \ {t} : InHand(u)' = InHand(u)
  BY <1>1, <1>2, <1>5, <1>6 DEF InHand
<1>9. \A c \in Block : IsFree(c)' <=> IsFree(c) /\ c # b
  <2>1. ~IsFree(b)
    BY <1>1 DEF PoolInv, BlocksAccounted
  <2>2. \A c \in Block : IsFree(c)' <=> IsFree(c)
    BY <1>1 DEF IsFree
  <2>3. QED  BY <2>1, <2>2
<1>10. held \subseteq Block /\ BlocksAccounted
  BY DEF PoolInv, PoolTypeOK
<1>11. BlocksAccounted'
  BY <1>1, <1>8, <1>9, <1>10, GetsInHand
<1>12. QED  BY <1>7, <1>11 DEF PoolInv

\* A thread lets go of the block in its hand, into the bitmap or to the program.
LEMMA LetsGo ==
  ASSUME BlocksAccounted, NEW t \in Threads, NEW b \in Block,
         InHand(t) = {b}, InHand(t)' = {},
         \A u \in Threads \ {t} : InHand(u)' = InHand(u),
         held \subseteq Block, held' \subseteq Block,
         \/ held' = held /\ \A c \in Block : IsFree(c)' <=> IsFree(c) \/ c = b
         \/ held' = held \cup {b} /\ \A c \in Block : IsFree(c)' <=> IsFree(c)
  PROVE  BlocksAccounted'
<1>1. ~IsFree(b) /\ b \notin held /\ \A u \in Threads \ {t} : b \notin InHand(u)
  BY DEF BlocksAccounted
<1>2. \A c \in Block : IsFree(c)' \/ c \in held' \/ \E u \in Threads : c \in InHand(u)'
  <2> SUFFICES ASSUME NEW c \in Block
               PROVE  IsFree(c)' \/ c \in held' \/ \E u \in Threads : c \in InHand(u)'
    OBVIOUS
  <2>1. CASE c = b  BY <2>1
  <2>2. CASE c # b /\ (IsFree(c) \/ c \in held)  BY <2>2
  <2>3. CASE c # b /\ \E u \in Threads : c \in InHand(u)  BY <2>3
  <2>4. QED  BY <2>1, <2>2, <2>3 DEF BlocksAccounted
<1>3. ASSUME NEW c \in held' PROVE ~IsFree(c)'
  <2>1. c \in Block
    BY <1>3
  <2>2. CASE c = b  BY <1>1, <1>3, <2>2
  <2>3. CASE c # b  BY <1>3, <2>1, <2>3 DEF BlocksAccounted
  <2>4. QED  BY <2>2, <2>3
<1>4. ASSUME NEW u \in Threads, NEW c \in InHand(u)'
      PROVE  c \in Block /\ ~IsFree(c)' /\ c \notin held'
  <2>1. u # t /\ c \in InHand(u)
    BY <1>4
  <2>2. c \in Block /\ ~IsFree(c) /\ c \notin held /\ c # b
    BY <1>1, <2>1 DEF BlocksAccounted
  <2>3. QED  BY <2>2
<1>5. ASSUME NEW u \in Threads, NEW v \in Threads, NEW c \in InHand(u)', c \in InHand(v)'
      PROVE  u = v
  <2>1. u # t /\ v # t
    BY <1>5
  <2>2. QED  BY <2>1, <1>5 DEF BlocksAccounted
<1>6. \A u, v \in Threads : InHand(u)' \cap InHand(v)' # {} => u = v
  BY <1>5
<1>7. QED  BY <1>2, <1>3, <1>4, <1>6 DEF BlocksAccounted, Block, BlocksOf

LEMMA ReleaseInv ==
  ASSUME PoolInv, NEW t \in Threads, deallocate_block(t)
  PROVE  PoolInv'
<1> DEFINE p == at[t].pool
           i == at[t].block
           b == <<p, i>>
           new == [Idle EXCEPT !.pc = "uncount"]
<1>1. /\ at[t].pc = "release" /\ held' = held /\ head' = head
      /\ free' = [free EXCEPT ![p] = @ \cup {i}] /\ at' = [at EXCEPT ![t] = new]
  BY DEF deallocate_block, Step
<1>2. p \in Pools /\ i \in BlocksOf(p) /\ i \in Int
  BY <1>1 DEF PoolInv, PoolTypeOK, BlocksOf
<1>3. new \in Place /\ new.pc = "uncount"
  <2>1. new \in Place
    BY IdlePlace
  <2>2. QED  BY <2>1 DEF Idle
<1>4. InHand(t) = {b}
  BY <1>1 DEF InHand
<1> HIDE DEF p, i, new
<1>5. \A u \in Threads : at'[u] = IF u = t THEN new ELSE at[u]
  BY <1>1 DEF PoolInv, PoolTypeOK
<1>6. PoolTypeOK'
  <2>1. at' \in [Threads -> Place]
    BY <1>1, <1>3 DEF PoolInv, PoolTypeOK
  <2>2. free' \in [Pools -> SUBSET Int] /\ \A q \in Pools : free'[q] \subseteq BlocksOf(q)
    BY <1>1, <1>2 DEF PoolInv, PoolTypeOK
  <2>3. QED  BY <1>1, <1>3, <1>5, <2>1, <2>2 DEF PoolInv, PoolTypeOK
<1>7. b \in Block
  BY <1>2, BlockPairs
<1>8. InHand(t)' = {} /\ \A u \in Threads \ {t} : InHand(u)' = InHand(u)
  BY <1>3, <1>5 DEF InHand
<1>9. \A c \in Block : IsFree(c)' <=> IsFree(c) \/ c = b
  BY <1>1, <1>2, BlockPairs DEF IsFree, PoolInv, PoolTypeOK
<1>10. held \subseteq Block /\ held' \subseteq Block /\ BlocksAccounted
  BY <1>1 DEF PoolInv, PoolTypeOK
<1> HIDE DEF b
<1>11. BlocksAccounted'
  BY <1>1, <1>4, <1>7, <1>8, <1>9, <1>10, LetsGo
<1>12. QED  BY <1>6, <1>11 DEF PoolInv

LEMMA CountAllocatedInv ==
  ASSUME PoolInv, NEW t \in Threads, CountAllocated(t)
  PROVE  PoolInv'
<1> DEFINE b == <<at[t].pool, at[t].block>>
<1>1. /\ at[t].pc = "count" /\ held' = held \cup {b} /\ head' = head /\ free' = free
      /\ at' = [at EXCEPT ![t] = Idle]
  BY DEF CountAllocated, Step
<1>2. b \in Block
  BY <1>1, BlockPairs DEF PoolInv, PoolTypeOK
<1>3. InHand(t) = {b}
  BY <1>1 DEF InHand
<1> HIDE DEF b
<1>4. Idle \in Place /\ Idle.pc = "idle"
  BY IdlePlace
<1>5. \A u \in Threads : at'[u] = IF u = t THEN Idle ELSE at[u]
  BY <1>1 DEF PoolInv, PoolTypeOK
<1>6. PoolTypeOK'
  <2>1. at' \in [Threads -> Place] /\ held' \subseteq Block
    BY <1>1, <1>2, <1>4 DEF PoolInv, PoolTypeOK
  <2>2. QED  BY <1>1, <1>4, <1>5, <2>1 DEF PoolInv, PoolTypeOK
<1>7. InHand(t)' = {} /\ \A u \in Threads \ {t} : InHand(u)' = InHand(u)
  BY <1>4, <1>5 DEF InHand
<1>8. \A c \in Block : IsFree(c)' <=> IsFree(c)
  BY <1>1 DEF IsFree
<1>9. held \subseteq Block /\ held' \subseteq Block /\ BlocksAccounted
  BY <1>1, <1>2 DEF PoolInv, PoolTypeOK
<1>10. BlocksAccounted'
  BY <1>1, <1>2, <1>3, <1>7, <1>8, <1>9, LetsGo
<1>11. QED  BY <1>6, <1>10 DEF PoolInv

LEMMA AdvanceHeadInv ==
  ASSUME PoolInv, NEW t \in Threads, AdvanceHead(t)
  PROVE  PoolInv'
<1> DEFINE next == (at[t].block + 1) * WordBits
           new == [at[t] EXCEPT !.pc = "count"]
<1>1. /\ at[t].pc = "advance" /\ held' = held /\ free' = free
      /\ head' = [head EXCEPT ![at[t].pool] = next] /\ at' = [at EXCEPT ![t] = new]
  BY DEF AdvanceHead, Step
<1>2. at[t] \in Place
  BY DEF PoolInv, PoolTypeOK
<1>3. next \in Int
  BY <1>2 DEF Place
<1>4. new \in Place /\ new.pc = "count" /\ new.pool = at[t].pool /\ new.block = at[t].block
  BY <1>2 DEF Place
<1> HIDE DEF next, new
<1>5. \A u \in Threads : at'[u] = IF u = t THEN new ELSE at[u]
  BY <1>1 DEF PoolInv, PoolTypeOK
<1>6. PoolTypeOK'
  <2>1. at' \in [Threads -> Place] /\ head' \in [Pools -> Int]
    BY <1>1, <1>3, <1>4 DEF PoolInv, PoolTypeOK
  <2>2. QED  BY <1>1, <1>4, <1>5, <2>1 DEF PoolInv, PoolTypeOK
<1>7. \A u \in Threads : InHand(u)' = InHand(u)
  BY <1>1, <1>4, <1>5 DEF InHand
<1>8. QED  BY <1>1, <1>6, <1>7, SameHands DEF PoolInv

\* The steps of the rings, and stuttering, touch no pool.
LEMMA PoolUnchanged ==
  ASSUME PoolInv, UNCHANGED poolVars
  PROVE  PoolInv'
  BY DEF PoolInv, PoolTypeOK, BlocksAccounted, IsFree, InHand, poolVars

LEMMA PoolInvNext ==
  ASSUME PoolInv, [Next]_vars
  PROVE  PoolInv'
<1>1. CASE PoolNext
  <2>1. PICK t \in Threads :
          \/ \E size \in Sizes : allocate(t, size)
          \/ LoadWord(t) \/ NoBlock(t) \/ compare_exchange(t) \/ ExchangeFails(t)
          \/ AdvanceHead(t) \/ CountAllocated(t)
          \/ \E b \in Block : deallocate(t, b)
          \/ deallocate_block(t) \/ CountFreed(t)
    BY <1>1 DEF PoolNext
  <2>2. CASE \E size \in Sizes : allocate(t, size)  BY <2>2, AllocateInv
  <2>3. CASE LoadWord(t) \/ NoBlock(t) \/ ExchangeFails(t) \/ CountFreed(t)
    BY <2>3, ScanInv
  <2>4. CASE compare_exchange(t)  BY <2>4, ExchangeInv
  <2>5. CASE AdvanceHead(t)  BY <2>5, AdvanceHeadInv
  <2>6. CASE CountAllocated(t)  BY <2>6, CountAllocatedInv
  <2>7. CASE \E b \in Block : deallocate(t, b)  BY <2>7, DeallocateInv
  <2>8. CASE deallocate_block(t)  BY <2>8, ReleaseInv
  <2>9. QED  BY <2>1, <2>2, <2>3, <2>4, <2>5, <2>6, <2>7, <2>8
<1>2. CASE RingNext
  <2>1. UNCHANGED poolVars
    BY <1>2 DEF RingNext, RingMoves, write_data, read_data, CopyIn, Publish, CopyOut, Consume
  <2>2. QED  BY <2>1, PoolUnchanged
<1>3. CASE UNCHANGED vars
  <2>1. UNCHANGED poolVars
    BY <1>3 DEF vars
  <2>2. QED  BY <2>1, PoolUnchanged
<1>4. QED  BY <1>1, <1>2, <1>3 DEF Next

\* The pools of ZeroCopyMemoryManager: however the allocations, lost exchanges
\* and deallocations of any number of threads interleave, every block is free,
\* owned by the program or in the hands of exactly one thread.
THEOREM BlocksStayAccounted == Spec => []BlocksAccounted
<1>1. PoolInv => BlocksAccounted
  BY DEF PoolInv
<1>2. PoolInv /\ [Next]_vars => PoolInv'
  BY PoolInvNext
<1>3. QED  BY <1>1, <1>2, PoolInvInit, PTL DEF Spec

(***************************************************************************)
(* An allocation that gives up has seen every word without a block that    *)
(* was free all the time.  The invariant: a block that has been free since *)
(* a scan began lies in none of the words the scan has passed.             *)
(***************************************************************************)
\* Quotient and remainder of a division by a positive number are unique.
LEMMA DivMod ==
  ASSUME NEW x \in Int, NEW d \in Nat \ {0}
  PROVE  /\ x \div d \in Int /\ x % d \in 0 .. d - 1
         /\ x = d * (x \div d) + (x % d)
  OBVIOUS

Division(x, d, q, r) ==
  d \in Nat \ {0} /\ q \in Int /\ r \in 0 .. d - 1 /\ x \in Int /\ x = d * q + r

LEMMA DivModUnique ==
  ASSUME NEW x, NEW d, NEW q, NEW r, Division(x, d, q, r)
  PROVE  x % d = r /\ x \div d = q
<1> USE DEF Division
<1> DEFINE p == x \div d
<1> DEFINE m == x % d
<1>1. p \in Int /\ m \in 0 .. d - 1 /\ x = d * p + m
  BY DivMod
<1> HIDE DEF p, m
<1>2. d * (q - p) = m - r
  BY <1>1
<1>3. ASSUME q - p >= 1 PROVE FALSE
  <2>1. d * (q - p) >= d
    BY <1>1, <1>3
  <2>2. QED  BY <1>1, <1>2, <2>1
<1>4. ASSUME q - p <= -1 PROVE FALSE
  <2>1. d * (q - p) <= -d
    BY <1>1, <1>4
  <2>2. QED  BY <1>1, <1>2, <2>1
<1>5. q = p
  BY <1>1, <1>3, <1>4
<1>6. m = r
  BY <1>1, <1>2, <1>5
<1>7. QED  BY <1>5, <1>6 DEF p, m

\* As many attempts as there are words reach every word, wherever they start.
Reaches(words, start, w) == \E k \in 0 .. words - 1 : (start + k) % words = w

LEMMA AttemptsReachAll ==
  ASSUME NEW words \in Nat \ {0}, NEW start \in Int, NEW w \in 0 .. words - 1
  PROVE  Reaches(words, start, w)
<1> USE DEF Reaches
<1> DEFINE q == start \div words
<1> DEFINE m == start % words
<1>1. q \in Int /\ m \in 0 .. words - 1 /\ start = words * q + m
  BY DivMod
<1> HIDE DEF q, m
<1>2. CASE w >= m
  <2> DEFINE x == start + (w - m)
  <2>1. w - m \in 0 .. words - 1 /\ x \in Int /\ x = words * q + w
    BY <1>1, <1>2
  <2>2. Division(x, words, q, w)
    BY <1>1, <2>1 DEF Division
  <2> HIDE DEF x
  <2>3. x % words = w
    BY <2>2, DivModUnique
  <2>4. QED  BY <2>1, <2>3 DEF x
<1>3. CASE w < m
  <2> DEFINE x == start + (w - m + words)
  <2> DEFINE q1 == q + 1
  <2>1. w - m + words \in 0 .. words - 1 /\ x \in Int /\ q1 \in Int /\ x = words * q1 + w
    BY <1>1, <1>3
  <2>2. Division(x, words, q1, w)
    BY <2>1 DEF Division
  <2> HIDE DEF x, q1
  <2>3. x % words = w
    BY <2>2, DivModUnique
  <2>4. QED  BY <2>1, <2>3 DEF x
<1>4. QED  BY <1>1, <1>2, <1>3

\* The bitmap has a word for every block.
LEMMA WordOfBlock ==
  ASSUME NEW p \in Pools
  PROVE  /\ Words(p) \in Nat \ {0}
         /\ \A i \in BlocksOf(p) : i \div WordBits \in 0 .. Words(p) - 1
<1> DEFINE n == TotalBlocks[p]
<1> DEFINE q == Words(p)
<1> DEFINE m == (n + WordBits - 1) % WordBits
<1>1. n \in Nat \ {0} /\ WordBits \in Nat \ {0} /\ n + WordBits - 1 \in Int
  OBVIOUS
<1>2. q \in Int /\ m \in 0 .. WordBits - 1 /\ n + WordBits - 1 = WordBits * q + m
  BY <1>1, DivMod DEF Words
<1> HIDE DEF n, q, m
<1>3. WordBits * q >= n
  BY <1>1, <1>2
<1>4. q >= 1
  <2>1. ASSUME q <= 0 PROVE FALSE
    <3>1. WordBits * q <= 0
      BY <1>1, <1>2, <2>1
    <3>2. QED  BY <1>1, <1>2, <1>3, <3>1
  <2>2. QED  BY <1>2, <2>1
<1>5. ASSUME NEW i \in BlocksOf(p) PROVE i \div WordBits \in 0 .. q - 1
  <2> DEFINE d == i \div WordBits
  <2> DEFINE r == i % WordBits
  <2>1. i \in 0 .. n - 1
    BY <1>1 DEF BlocksOf, n
  <2>2. d \in Int /\ r \in 0 .. WordBits - 1 /\ i = WordBits * d + r
    BY <1>1, <2>1, DivMod
  <2> HIDE DEF d, r
  <2>3. ASSUME d < 0 PROVE FALSE
    <3>1. WordBits * d <= -WordBits
      BY <1>1, <2>2, <2>3
    <3>2. QED  BY <1>1, <2>1, <2>2, <3>1
  <2>4. ASSUME d >= q PROVE FALSE
    <3>1. WordBits * d >= WordBits * q
      BY <1>1, <1>2, <2>2, <2>4
    <3>2. QED  BY <1>1, <1>2, <1>3, <2>1, <2>2, <3>1
  <2>5. d \in 0 .. q - 1
    BY <1>2, <2>2, <2>3, <2>4
  <2>6. QED  BY <2>5 DEF d
<1>6. QED  BY <1>2, <1>4, <1>5 DEF q

\* Block b is free and lies in none of the words the scan a has passed.
Ahead(a, b) ==
  /\ b[1] = a.pool /\ IsFree(b)
  /\ \A k \in 0 .. a.attempt - 1 : (a.start + k) % Words(a.pool) # b[2] \div WordBits

\* An exchange is only tried for a word within reach.
Scan(a, seen) ==
  a.pc \in {"load", "exchange"} =>
    /\ a.attempt \in 0 .. Words(a.pool) /\ (a.pc = "exchange" => a.attempt # Words(a.pool))
    /\ \A b \in seen : Ahead(a, b)

StillAhead ==
  /\ stable \in [Threads -> SUBSET Block]
  /\ \A t \in Threads : Scan(at[t], stable[t])

LEMMA AheadFinds == PoolInv /\ StillAhead => AllocationFinds
<1> SUFFICES ASSUME PoolInv, StillAhead, NEW t \in Threads, at[t].pc = "load",
                    at[t].attempt = Words(at[t].pool), NEW b \in stable[t]
             PROVE  FALSE
  BY DEF AllocationFinds
<1>1. at[t] \in Place /\ at[t].pool \in Pools
  BY DEF PoolInv, PoolTypeOK
<1>2. b \in Block /\ Ahead(at[t], b)
  BY DEF StillAhead, Scan
<1>3. b[2] \in BlocksOf(at[t].pool)
  BY <1>2, BlockPairs DEF Ahead
<1> DEFINE words == Words(at[t].pool)
<1> DEFINE start == at[t].start
<1> DEFINE w == b[2] \div WordBits
<1>4. words \in Nat \ {0} /\ w \in 0 .. words - 1
  BY <1>1, <1>3, WordOfBlock
<1>5. start \in Int
  BY <1>1 DEF Place
<1>6. at[t].attempt = words /\ \A k \in 0 .. at[t].attempt - 1 : (start + k) % words # w
  BY <1>2 DEF Ahead
<1> HIDE DEF words, start, w
<1>7. Reaches(words, start, w)
  BY <1>4, <1>5, AttemptsReachAll
<1>8. QED  BY <1>6, <1>7 DEF Reaches

LEMMA AheadInit == Init => StillAhead
<1> SUFFICES ASSUME Init PROVE StillAhead
  OBVIOUS
<1>1. stable = [t \in Threads |-> {}] /\ at = [t \in Threads |-> Idle]
  BY DEF Init, PoolInit
<1>2. QED  BY <1>1, IdlePlace DEF StillAhead, Scan

\* Another thread's scan is as it was, as long as the blocks it still counts on
\* are free.
LEMMA ScanKept ==
  ASSUME StillAhead, NEW u \in Threads, at'[u] = at[u], stable'[u] \subseteq stable[u],
         \A b \in stable'[u] : IsFree(b) => IsFree(b)'
  PROVE  Scan(at[u], stable[u])'
<1>1. Scan(at[u], stable[u])
  BY DEF StillAhead
<1>2. \A b \in stable'[u] : Ahead(at[u], b) => Ahead(at[u], b)'
  BY DEF Ahead
<1>3. QED  BY <1>1, <1>2 DEF Scan

\* The scan looks at a word: it finds a block there, or none of those that were
\* free all the time is in it.
LEMMA LookAhead ==
  ASSUME PoolInv, StillAhead, NEW t \in Threads, at[t].pc \in {"load", "exchange"},
         at[t].attempt # Words(at[t].pool)
  PROVE  Scan(Look(at[t]), stable[t])
<1> DEFINE a == at[t]
<1>1. a \in Place /\ a.pool \in Pools /\ a.attempt \in 0 .. Words(a.pool)
      /\ a.attempt # Words(a.pool) /\ \A b \in stable[t] : b \in Block /\ Ahead(a, b)
  BY DEF StillAhead, Scan, PoolInv, PoolTypeOK
<1>2. Words(a.pool) \in Nat \ {0}
  BY <1>1, WordOfBlock
<1> HIDE DEF a
<1>3. ASSUME Load(a) = {} PROVE Scan(Look(a), stable[t])
  <2>1. Look(a) = [a EXCEPT !.pc = "load", !.attempt = a.attempt + 1, !.current = {}]
    BY <1>3 DEF Look
  <2>2. /\ Look(a).pc = "load" /\ Look(a).pool = a.pool /\ Look(a).start = a.start
        /\ Look(a).attempt = a.attempt + 1
    BY <1>1, <2>1 DEF Place
  <2>3. Look(a).attempt \in 0 .. Words(a.pool)
    BY <1>1, <1>2, <2>2
  <2>4. ASSUME NEW b \in stable[t] PROVE Ahead(Look(a), b)
    <3>1. b[1] = a.pool /\ b[2] \in free[a.pool]
      BY <1>1, <2>4 DEF Ahead, IsFree
    <3>2. b[2] \div WordBits # Word(a)
      BY <1>3, <3>1 DEF Load
    <3>3. ASSUME NEW k \in 0 .. Look(a).attempt - 1
          PROVE  (a.start + k) % Words(a.pool) # b[2] \div WordBits
      <4>1. CASE k = a.attempt  BY <3>2, <4>1 DEF Word
      <4>2. CASE k # a.attempt
        <5>1. k \in 0 .. a.attempt - 1
          BY <1>1, <1>2, <2>2, <4>2
        <5>2. QED  BY <1>1, <5>1 DEF Ahead
      <4>3. QED  BY <4>1, <4>2
    <3>4. QED  BY <1>1, <2>2, <3>3 DEF Ahead
  <2>5. QED  BY <2>2, <2>3, <2>4 DEF Scan
<1>4. ASSUME Load(a) # {} PROVE Scan(Look(a), stable[t])
  <2>1. Look(a) = [a EXCEPT !.pc = "exchange", !.current = Load(a)]
    BY <1>4 DEF Look
  <2>2. /\ Look(a).pc = "exchange" /\ Look(a).pool = a.pool /\ Look(a).start = a.start
        /\ Look(a).attempt = a.attempt
    BY <1>1, <2>1 DEF Place
  <2>3. \A b \in stable[t] : Ahead(Look(a), b)
    BY <1>1, <2>2 DEF Ahead
  <2>4. QED  BY <1>1, <2>2, <2>3 DEF Scan
<1>5. Scan(Look(a), stable[t])
  BY <1>3, <1>4
<1>6. QED  BY <1>5 DEF a

\* A step of thread t: its own scan, and those of the others.
LEMMA AheadStep ==
  ASSUME StillAhead, NEW t \in Threads, stable' \in [Threads -> SUBSET Block],
         \A u \in Threads \ {t} : at'[u] = at[u] /\ stable'[u] \subseteq stable[u],
         \A u \in Threads \ {t} : \A b \in stable'[u] : IsFree(b) => IsFree(b)',
         Scan(at[t], stable[t])'
  PROVE  StillAhead'
<1>1. \A u \in Threads \ {t} : Scan(at[u], stable[u])'
  BY ScanKept
<1>2. QED  BY <1>1 DEF StillAhead

LEMMA AllocateAhead ==
  ASSUME PoolInv, StillAhead, NEW t \in Threads, NEW size \in Sizes, allocate(t, size)
  PROVE  StillAhead'
<1>1. PICK p \in Pools :
        /\ at' = [at EXCEPT ![t] = [Idle EXCEPT !.pc = "load", !.pool = p,
                                                !.start = head[p] \div WordBits]]
        /\ stable' = [stable EXCEPT ![t] = {p} \X free[p]] /\ free' = free
  BY DEF allocate, Step
<1>2. \A b \in {p} \X free[p] : b \in Block /\ b[1] = p /\ IsFree(b)
  BY BlockPairs DEF PoolInv, PoolTypeOK, IsFree
<1>3. /\ stable' \in [Threads -> SUBSET Block] /\ stable'[t] = {p} \X free[p]
      /\ \A u \in Threads \ {t} : at'[u] = at[u] /\ stable'[u] = stable[u]
  BY <1>1, <1>2 DEF StillAhead, PoolInv, PoolTypeOK
<1>4. at'[t].pool = p /\ at'[t].attempt = 0 /\ at'[t].pc = "load"
  BY <1>1 DEF Idle, PoolInv, PoolTypeOK
<1>5. \A b \in stable'[t] : Ahead(at[t], b)'
  BY <1>1, <1>2, <1>3, <1>4 DEF Ahead, IsFree
<1>6. Words(p) \in Nat
  BY WordOfBlock
<1>7. Scan(at[t], stable[t])'
  BY <1>4, <1>5, <1>6 DEF Scan
<1>8. \A b : IsFree(b)' <=> IsFree(b)
  BY <1>1 DEF IsFree
<1>9. QED  BY <1>3, <1>7, <1>8, AheadStep

LEMMA LookAheadStep ==
  ASSUME PoolInv, StillAhead, NEW t \in Threads, LoadWord(t) \/ ExchangeFails(t)
  PROVE  StillAhead'
<1>1. /\ at' = [at EXCEPT ![t] = Look(at[t])] /\ free' = free /\ stable' = stable
      /\ at[t].pc \in {"load", "exchange"}
      /\ at[t].pc = "exchange" \/ at[t].attempt < Words(at[t].pool)
  BY DEF LoadWord, ExchangeFails, Step
<1>2. at[t].attempt # Words(at[t].pool)
  <2>1. Words(at[t].pool) \in Nat /\ Scan(at[t], stable[t])
    BY <1>1, WordOfBlock DEF PoolInv, PoolTypeOK, StillAhead
  <2>2. QED  BY <1>1, <2>1 DEF Scan
<1>3. Scan(Look(at[t]), stable[t])
  BY <1>1, <1>2, LookAhead
<1>4. at'[t] = Look(at[t]) /\ \A u \in Threads \ {t} : at'[u] = at[u]
  BY <1>1 DEF PoolInv, PoolTypeOK
<1>5. \A b : IsFree(b)' <=> IsFree(b)
  BY <1>1 DEF IsFree
<1>6. PICK a : a = Look(at[t])
  OBVIOUS
<1>7. \A b \in stable[t] : Ahead(a, b) => Ahead(a, b)'
  BY <1>5 DEF Ahead
<1>8. Scan(at[t], stable[t])'
  BY <1>1, <1>3, <1>4, <1>6, <1>7 DEF Scan
<1>9. stable' \in [Threads -> SUBSET Block]
  BY <1>1 DEF StillAhead
<1>10. QED  BY <1>1, <1>4, <1>5, <1>8, <1>9, AheadStep

\* A thread that does not scan after its step.
LEMMA RestAhead ==
  ASSUME PoolInv, StillAhead, NEW t \in Threads,
         NoBlock(t) \/ AdvanceHead(t) \/ CountAllocated(t) \/ CountFreed(t)
           \/ deallocate_block(t) \/ (\E b \in Block : deallocate(t, b))
  PROVE  StillAhead'
<1> DEFINE Rests(new) == at' = [at EXCEPT ![t] = new] /\ new.pc \notin {"load", "exchange"}
<1>1. PICK new : Rests(new)
  <2>1. CASE NoBlock(t) \/ CountAllocated(t) \/ CountFreed(t)
    <3>1. Rests(Idle)
      BY <2>1, IdlePlace DEF NoBlock, CountAllocated, CountFreed, Step
    <3>2. QED  BY <3>1
  <2>2. CASE AdvanceHead(t)
    <3>1. Rests([at[t] EXCEPT !.pc = "count"])
      BY <2>2 DEF AdvanceHead, Step, PoolInv, PoolTypeOK, Place
    <3>2. QED  BY <3>1
  <2>3. CASE deallocate_block(t)
    <3>1. Rests([Idle EXCEPT !.pc = "uncount"])
      BY <2>3 DEF deallocate_block, Step, Idle
    <3>2. QED  BY <3>1
  <2>4. CASE \E b \in Block : deallocate(t, b)
    <3>1. PICK b \in Block : deallocate(t, b)
      BY <2>4
    <3>2. Rests([Idle EXCEPT !.pc = "release", !.pool = b[1], !.block = b[2]])
      BY <3>1 DEF deallocate, Step, Idle
    <3>3. QED  BY <3>2
  <2>5. QED  BY <2>1, <2>2, <2>3, <2>4
<1>2. stable' = stable \/ stable' = [stable EXCEPT ![t] = {}]
  BY DEF NoBlock, AdvanceHead, CountAllocated, CountFreed, deallocate_block, deallocate
<1>3. \A b \in Block : IsFree(b) => IsFree(b)'
  <2>1. free' = free \/ \E i : free' = [free EXCEPT ![at[t].pool] = @ \cup {i}]
    BY DEF NoBlock, AdvanceHead, CountAllocated, CountFreed, deallocate_block, deallocate
  <2>2. QED  BY <2>1, BlockPairs DEF IsFree, PoolInv, PoolTypeOK
<1>4. /\ stable' \in [Threads -> SUBSET Block]
      /\ \A u \in Threads : stable'[u] \subseteq stable[u]
  BY <1>2 DEF StillAhead
<1>5. at'[t] = new /\ \A u \in Threads \ {t} : at'[u] = at[u]
  BY <1>1 DEF PoolInv, PoolTypeOK
<1>6. Scan(at[t], stable[t])'
  BY <1>1, <1>5 DEF Scan
<1>7. QED  BY <1>3, <1>4, <1>5, <1>6, AheadStep

\* The block that is taken is struck off every thread's list.
LEMMA ExchangeAhead ==
  ASSUME PoolInv, StillAhead, NEW t \in Threads, compare_exchange(t)
  PROVE  StillAhead'
<1>1. PICK i \in BlocksOf(at[t].pool) :
        /\ free' = [free EXCEPT ![at[t].pool] = @ \ {i}]
        /\ at' = [at EXCEPT ![t] = [at[t] EXCEPT !.pc = "advance", !.block = i, !.current = {}]]
        /\ stable' = [u \in Threads |-> stable[u] \ {<<at[t].pool, i>>}]
  BY DEF compare_exchange, TakeLowest, Step
<1>2. at'[t].pc = "advance" /\ \A u \in Threads \ {t} : at'[u] = at[u]
  BY <1>1 DEF PoolInv, PoolTypeOK, Place
<1>3. /\ stable' \in [Threads -> SUBSET Block]
      /\ \A u \in Threads : stable'[u] \subseteq stable[u] /\ <<at[t].pool, i>> \notin stable'[u]
  BY <1>1 DEF StillAhead
<1>4. \A b \in Block : b # <<at[t].pool, i>> /\ IsFree(b) => IsFree(b)'
  BY <1>1, BlockPairs DEF IsFree, PoolInv, PoolTypeOK
<1>5. Scan(at[t], stable[t])'
  BY <1>2 DEF Scan
<1>6. \A u \in Threads \ {t} : \A b \in stable'[u] : IsFree(b) => IsFree(b)'
  BY <1>3, <1>4
<1>7. QED  BY <1>2, <1>3, <1>5, <1>6, AheadStep

LEMMA AheadNext ==
  ASSUME PoolInv, StillAhead, [Next]_vars
  PROVE  StillAhead'
<1>1. CASE PoolNext
  <2>1. PICK t \in Threads :
          \/ \E size \in Sizes : allocate(t, size)
          \/ LoadWord(t) \/ NoBlock(t) \/ compare_exchange(t) \/ ExchangeFails(t)
          \/ AdvanceHead(t) \/ CountAllocated(t)
          \/ \E b \in Block : deallocate(t, b)
          \/ deallocate_block(t) \/ CountFreed(t)
    BY <1>1 DEF PoolNext
  <2>2. CASE \E size \in Sizes : allocate(t, size)  BY <2>2, AllocateAhead
  <2>3. CASE LoadWord(t) \/ ExchangeFails(t)  BY <2>3, LookAheadStep
  <2>4. CASE compare_exchange(t)  BY <2>4, ExchangeAhead
  <2>5. CASE NoBlock(t) \/ AdvanceHead(t) \/ CountAllocated(t) \/ CountFreed(t)
               \/ deallocate_block(t) \/ (\E b \in Block : deallocate(t, b))
    BY <2>5, RestAhead
  <2>6. QED  BY <2>1, <2>2, <2>3, <2>4, <2>5
<1>2. CASE RingNext \/ UNCHANGED vars
  <2>1. UNCHANGED poolVars
    BY <1>2 DEF RingNext, RingMoves, write_data, read_data, CopyIn, Publish, CopyOut, Consume, vars
  <2>2. QED  BY <2>1 DEF poolVars, StillAhead, Scan, Ahead, IsFree
<1>3. QED  BY <1>1, <1>2 DEF Next

\* SharedMemoryPool::allocate_block returns None only when no block of the pool
\* was free all the time it scanned, whatever word the head made it start at,
\* however often it lost an exchange, and for every number of words.
THEOREM AllocationAlwaysFinds == Spec => []AllocationFinds
<1>1. Init => PoolInv /\ StillAhead
  BY PoolInvInit, AheadInit
<1>2. PoolInv /\ StillAhead /\ [Next]_vars => PoolInv' /\ StillAhead'
  BY PoolInvNext, AheadNext
<1>3. QED  BY <1>1, <1>2, AheadFinds, PTL DEF Spec

(***************************************************************************)
(* The rings.  Byte or item v is stored in one cell, whatever the wraps of *)
(* the positions; what is between the positions is never more than Size-1, *)
(* so that no two of the values that are not yet read share a cell.        *)
(***************************************************************************)
CellOf(v) == (v - 1) % Size

Transfer == [busy: BOOLEAN, length: Nat, stores: Seq(Nat \X Nat), copied: Seq(Nat)]

RingTypeOK ==
  /\ subject \in Subjects /\ cells \in [0 .. Size - 1 -> Nat] /\ write_pos \in Nat /\ read_pos \in Nat
  /\ writer \in Transfer /\ reader \in Transfer
  /\ sent \in Nat /\ delivered \in Seq(Nat) /\ spilled \in BOOLEAN

\* The positions count what was published and what was consumed.
Positions == write_pos = sent % Limit /\ read_pos = Len(delivered) % Limit

\* A call may rely on the position of the other side that it loaded: meanwhile
\* that side can only have made room, or more to read.
RingBounds ==
  /\ sent + writer.length - Len(delivered) <= Size - 1
  /\ Len(delivered) + reader.length <= sent
  /\ Len(reader.copied) <= reader.length

\* What the copy has still to store: values of the message into their cells, or
\* what lies behind the message in the source.
InPlace(s) == s[2] = 0 \/ (s[2] \in sent + 1 .. sent + writer.length /\ s[1] = CellOf(s[2]))
StoresInPlace == \A i \in 1 .. Len(writer.stores) : InPlace(writer.stores[i])

Awaited(v) == v > sent /\ \E i \in 1 .. Len(writer.stores) : writer.stores[i] = <<CellOf(v), v>>

Contents ==
  ~spilled =>
    /\ \A v \in Len(delivered) + 1 .. sent + writer.length : cells[CellOf(v)] = v \/ Awaited(v)
    /\ \A i \in 1 .. Len(reader.copied) : reader.copied[i] = Len(delivered) + i
    /\ \A i \in 1 .. Len(delivered) : delivered[i] = i

RingInvariant == RingTypeOK /\ Positions /\ RingBounds /\ StoresInPlace /\ Contents

HIDE ZeroCopyAssumption

LEMMA SizeFacts == Size \in Nat \ {0} /\ Size >= 2
  BY ZeroCopyAssumption

\* Remainders, by name: the provers are not to reason about % itself.
Mod(x, d) == x % d

LEMMA ModRange ==
  ASSUME NEW d \in Nat \ {0}, NEW x \in Int
  PROVE  Mod(x, d) \in 0 .. d - 1
  BY DivMod DEF Mod

LEMMA ModUnique ==
  ASSUME NEW x, NEW d, NEW q, NEW r, Division(x, d, q, r)
  PROVE  Mod(x, d) = r
  BY DivModUnique DEF Mod

LEMMA ModQuotient ==
  ASSUME NEW d \in Nat \ {0}, NEW x \in Int
  PROVE  \E q \in Int : x = d * q + Mod(x, d)
<1>1. x \div d \in Int /\ x = d * (x \div d) + Mod(x, d)
  BY DivMod DEF Mod
<1> QED  BY <1>1

\* Remainders of sums: the cell after k steps from x, without and with a wrap.
LEMMA ModStep ==
  ASSUME NEW d \in Nat \ {0}, NEW x \in Nat, NEW k \in Nat
  PROVE  /\ Mod(x, d) + k < d => Mod(x + k, d) = Mod(x, d) + k
         /\ Mod(x, d) + k >= d /\ Mod(x, d) + k < 2 * d => Mod(x + k, d) = Mod(x, d) + k - d
<1> DEFINE m == Mod(x, d)
<1>1. x \in Int /\ m \in 0 .. d - 1
  BY ModRange
<1>2. PICK q \in Int : x = d * q + m
  BY <1>1, ModQuotient
<1> HIDE DEF m
<1>3. ASSUME m + k < d PROVE Mod(x + k, d) = m + k
  <2>1. Division(x + k, d, q, m + k)
    BY <1>1, <1>2, <1>3 DEF Division
  <2> QED  BY <2>1, ModUnique
<1>4. ASSUME m + k >= d, m + k < 2 * d PROVE Mod(x + k, d) = m + k - d
  <2>1. d * (q + 1) = d * q + d
    OBVIOUS
  <2>2. Division(x + k, d, q + 1, m + k - d)
    BY <1>1, <1>2, <1>4, <2>1 DEF Division
  <2> QED  BY <2>2, ModUnique
<1> QED  BY <1>3, <1>4 DEF m

\* A multiple of the size may be taken off before the mask.
Multiple(n, d) == d \in Nat \ {0} /\ n \in Nat \ {0} /\ Mod(n, d) = 0

LEMMA ModOfMod ==
  ASSUME NEW n, NEW d, Multiple(n, d), NEW x \in Nat, NEW k \in Nat
  PROVE  Mod(Mod(x, n) + k, d) = Mod(x + k, d)
<1> DEFINE m == Mod(x, n)
           y == m + k
           r == Mod(y, d)
<1>1. d \in Nat \ {0} /\ n \in Nat \ {0} /\ n \in Int /\ x \in Int /\ Mod(n, d) = 0
  BY DEF Multiple
<1>2. PICK c \in Int : n = d * c
  <2>1. PICK c \in Int : n = d * c + Mod(n, d)
    BY <1>1, ModQuotient
  <2> QED  BY <1>1, <2>1
<1>3. PICK q \in Int : x = n * q + m
  BY <1>1, ModQuotient
<1>4. m \in 0 .. n - 1
  BY <1>1, ModRange
<1>5. y \in Int
  BY <1>1, <1>4
<1>6. r \in 0 .. d - 1
  BY <1>1, <1>5, ModRange
<1>7. PICK p \in Int : y = d * p + r
  BY <1>1, <1>5, ModQuotient
<1> HIDE DEF m, r
<1>8. x + k = d * (c * q + p) + r
  <2>1. x + k = (d * c) * q + (d * p + r)
    BY <1>1, <1>2, <1>3, <1>4, <1>7
  <2>2. (d * c) * q = d * (c * q) /\ d * (c * q) + d * p = d * (c * q + p)
    BY <1>1
  <2>3. d * (c * q) \in Int /\ d * p \in Int
    BY <1>1
  <2> QED  BY <1>6, <2>1, <2>2, <2>3
<1>9. Division(x + k, d, c * q + p, r)
  BY <1>1, <1>6, <1>8 DEF Division
<1>10. Mod(x + k, d) = r
  BY <1>9, ModUnique
<1> QED  BY <1>10 DEF r, m

\* Numbers less than d apart have different remainders.
LEMMA ModInjective ==
  ASSUME NEW d \in Nat \ {0}, NEW x \in Nat, NEW k \in 1 .. d - 1
  PROVE  Mod(x + k, d) # Mod(x, d)
<1>1. Mod(x, d) \in 0 .. d - 1 /\ k \in Nat
  BY ModRange
<1>2. /\ Mod(x, d) + k < d => Mod(x + k, d) = Mod(x, d) + k
      /\ Mod(x, d) + k >= d /\ Mod(x, d) + k < 2 * d => Mod(x + k, d) = Mod(x, d) + k - d
  BY <1>1, ModStep
<1> QED  BY <1>1, <1>2

LEMMA LimitFacts == Multiple(Limit, Size)
<1>1. Division(Size, Size, 1, 0)
  BY SizeFacts DEF Division
<1>2. Mod(Size, Size) = 0
  BY <1>1, ModUnique
<1>3. CounterLimit \in Nat \ {0} /\ Mod(CounterLimit, Size) = 0
  BY ZeroCopyAssumption DEF Mod
<1> QED  BY <1>2, <1>3, SizeFacts DEF Limit, Multiple

LEMMA CellMod == \A x \in Nat : CellOf(x + 1) = Mod(x, Size)
<1>1. \A x \in Nat : (x + 1) - 1 = x
  OBVIOUS
<1> QED  BY <1>1 DEF CellOf, Mod

\* The cells of different values in the window of the ring are different.
LEMMA CellDistinct ==
  ASSUME NEW u \in Nat \ {0}, NEW v \in Nat \ {0}, u < v, v - u <= Size - 1
  PROVE  CellOf(u) # CellOf(v)
<1> DEFINE x == u - 1
           k == v - u
<1>1. x \in Nat /\ k \in 1 .. Size - 1 /\ u = x + 1 /\ v = (x + k) + 1 /\ x + k \in Nat
  BY SizeFacts
<1> HIDE DEF x, k
<1>2. Mod(x + k, Size) # Mod(x, Size)
  BY <1>1, ModInjective, SizeFacts
<1> QED  BY <1>1, <1>2, CellMod

LEMMA CellRange == \A v \in Nat \ {0} : CellOf(v) \in 0 .. Size - 1
<1> SUFFICES ASSUME NEW v \in Nat \ {0} PROVE CellOf(v) \in 0 .. Size - 1
  OBVIOUS
<1>1. v - 1 \in Nat /\ v = (v - 1) + 1 /\ v - 1 \in Int
  OBVIOUS
<1>2. CellOf(v) = Mod(v - 1, Size)
  BY DEF CellOf, Mod
<1> QED  BY <1>1, <1>2, ModRange, SizeFacts

\* The positions lead to the cells of the next values, over any wrap.
LEMMA PositionCells ==
  ASSUME RingTypeOK, Positions, NEW k \in Nat
  PROVE  /\ (read_pos + k) % Size = CellOf(Len(delivered) + k + 1)
         /\ (write_pos + k) % Size = CellOf(sent + k + 1)
<1>1. sent \in Nat /\ Len(delivered) \in Nat
  BY LenProperties DEF RingTypeOK
<1>2. write_pos = Mod(sent, Limit) /\ read_pos = Mod(Len(delivered), Limit)
  BY DEF Positions, Mod
<1>3. \A x \in Nat : Mod(Mod(x, Limit) + k, Size) = CellOf(x + k + 1)
  <2> SUFFICES ASSUME NEW x \in Nat PROVE Mod(Mod(x, Limit) + k, Size) = CellOf(x + k + 1)
    OBVIOUS
  <2>1. Mod(Mod(x, Limit) + k, Size) = Mod(x + k, Size)
    BY LimitFacts, ModOfMod
  <2>2. x + k \in Nat
    OBVIOUS
  <2> QED  BY <2>1, <2>2, CellMod
<1>4. (read_pos + k) % Size = Mod(read_pos + k, Size) /\ (write_pos + k) % Size = Mod(write_pos + k, Size)
  BY DEF Mod
<1> QED  BY <1>1, <1>2, <1>3, <1>4

\* available_space and available_data, and the tests of the item ring.
LEMMA Room ==
  ASSUME RingTypeOK, Positions, RingBounds
  PROVE  /\ \A n \in Writable : n \in Nat \ {0} /\ sent + n - Len(delivered) <= Size - 1
         /\ \A n \in Readable : n \in Nat \ {0} /\ Len(delivered) + n <= sent
<1> DEFINE D == Len(delivered)
<1>1. D \in Nat /\ sent \in Nat /\ writer.length \in Nat /\ reader.length \in Nat
  BY LenProperties DEF RingTypeOK, Transfer
<1>0. sent + writer.length - D <= Size - 1 /\ D + reader.length <= sent
  BY DEF RingBounds
<1> DEFINE k == sent - D
<1> HIDE DEF D
<1>2. k \in 0 .. Size - 1 /\ sent = D + k /\ k \in Nat
  BY <1>0, <1>1, SizeFacts
<1> HIDE DEF k
<1>3. write_pos = Mod(D + k, Limit) /\ read_pos = Mod(D, Limit)
  BY <1>1, <1>2 DEF Positions, Mod, D
<1>4. CASE Mapped
  <2> DEFINE w == Mod(D + k, Size)
             r == Mod(D, Size)
  <2>1. write_pos = w /\ read_pos = r
    BY <1>3, <1>4 DEF Limit
  <2>2. r \in 0 .. Size - 1
    BY <1>1, ModRange, SizeFacts
  <2>3. (r + k < Size => w = r + k) /\ (r + k >= Size /\ r + k < 2 * Size => w = r + k - Size)
    BY <1>1, <1>2, ModStep, SizeFacts
  <2> HIDE DEF w, r
  <2>4. available_data = k /\ available_space = Size - 1 - k
    BY <1>2, <2>1, <2>2, <2>3, SizeFacts DEF available_data, available_space
  <2>5. Writable = 1 .. Size - 1 - k /\ Readable = 1 .. k
    BY <1>4, <2>4 DEF Writable, Readable
  <2> QED  BY <1>1, <1>2, <2>5, SizeFacts DEF D
<1>5. CASE ~Mapped
  <2>1. \A n \in Writable : n = 1 /\ (write_pos + 1) % Size # read_pos % Size
    BY <1>5 DEF Writable
  <2>2. \A n \in Readable : n = 1 /\ write_pos # read_pos
    BY <1>5 DEF Readable
  <2>3. ASSUME NEW n \in Writable PROVE k # Size - 1
    <3> SUFFICES ASSUME k = Size - 1 PROVE (write_pos + 1) % Size = read_pos % Size
      BY <2>1
    <3>1. (write_pos + 1) % Size = CellOf(sent + 1 + 1) /\ (read_pos + 0) % Size = CellOf(D + 0 + 1)
      BY PositionCells DEF D
    <3>2. read_pos + 0 = read_pos
      BY DEF RingTypeOK
    <3>3. sent + 1 + 1 = (D + Size) + 1 /\ D + 0 + 1 = D + 1 /\ D + Size \in Nat
      BY <1>1, <1>2, SizeFacts
    <3>4. Mod(D + Size, Size) = Mod(D, Size)
      <4> DEFINE m == Mod(D, Size)
      <4>1. D \in Int /\ m \in 0 .. Size - 1
        BY <1>1, ModRange, SizeFacts
      <4>2. PICK q \in Int : D = Size * q + m
        BY <4>1, ModQuotient, SizeFacts
      <4> HIDE DEF m
      <4>3. Size * (q + 1) = Size * q + Size
        BY SizeFacts
      <4>4. Division(D + Size, Size, q + 1, m)
        BY <4>1, <4>2, <4>3, SizeFacts DEF Division
      <4> QED  BY <4>4, ModUnique DEF m
    <3>5. CellOf((D + Size) + 1) = CellOf(D + 1)
      BY <1>1, <3>3, <3>4, CellMod
    <3> QED  BY <3>1, <3>2, <3>3, <3>5
  <2>4. ASSUME NEW n \in Readable PROVE k # 0
    <3> SUFFICES ASSUME k = 0 PROVE write_pos = read_pos
      BY <2>2
    <3>1. D + k = D
      BY <1>1
    <3> QED  BY <1>3, <3>1
  <2> QED  BY <1>1, <1>2, <2>1, <2>2, <2>3, <2>4, SizeFacts DEF D
<1> QED  BY <1>4, <1>5

(***************************************************************************)
(* The stores of a copy.                                                   *)
(***************************************************************************)
LEMMA WidthCovers == \A len \in Nat : memcpy_width(len) \in Nat /\ memcpy_width(len) >= len
<1> SUFFICES ASSUME NEW len \in Nat
             PROVE  memcpy_width(len) \in Nat /\ memcpy_width(len) >= len
  OBVIOUS
<1> DEFINE q == (len + 31) \div 32
<1>1. q \in Int /\ 32 * q >= len /\ 32 * q \in Nat
  OBVIOUS
<1> HIDE DEF q
<1>2. CASE len <= 4
  BY <1>2 DEF memcpy_width
<1>3. CASE len \in 5 .. 8
  BY <1>3 DEF memcpy_width
<1>4. CASE len \in 9 .. 16
  BY <1>4 DEF memcpy_width
<1>5. CASE len > 16
  <2>1. memcpy_width(len) = 32 * q
    BY <1>5 DEF memcpy_width, q
  <2> QED  BY <1>1, <2>1
<1> QED  BY <1>2, <1>3, <1>4, <1>5

LEMMA MemcpyStores ==
  ASSUME NEW place \in Nat, NEW first \in Nat, NEW len \in Nat
  PROVE  /\ memcpy(place, first, len) \in Seq(Nat \X Nat)
         /\ Len(memcpy(place, first, len)) = memcpy_width(len)
         /\ \A k \in 1 .. memcpy_width(len) :
              memcpy(place, first, len)[k] = <<place + k - 1, IF k <= len THEN first + k ELSE 0>>
<1> DEFINE w == memcpy_width(len)
           m == memcpy(place, first, len)
<1>1. w \in Nat
  BY WidthCovers
<1>2. m = [k \in 1 .. w |-> <<place + k - 1, IF k <= len THEN first + k ELSE 0>>]
  BY DEF memcpy
<1> HIDE DEF m, w
<1>3. \A k \in 1 .. w : <<place + k - 1, IF k <= len THEN first + k ELSE 0>> \in Nat \X Nat
  BY <1>1
<1>4. m \in [1 .. w -> Nat \X Nat]
  BY <1>2, <1>3
<1>5. m \in Seq(Nat \X Nat) /\ Len(m) = w
  BY <1>1, <1>4
<1>6. \A k \in 1 .. w : m[k] = <<place + k - 1, IF k <= len THEN first + k ELSE 0>>
  BY <1>2
<1>7. memcpy(place, first, len) \in Seq(Nat \X Nat) /\ Len(memcpy(place, first, len)) = memcpy_width(len)
  BY <1>5 DEF m, w
<1>8. \A k \in 1 .. memcpy_width(len) :
        memcpy(place, first, len)[k] = <<place + k - 1, IF k <= len THEN first + k ELSE 0>>
  BY <1>6 DEF m, w
<1> QED  BY <1>7, <1>8

\* A sequence of stores puts the values a + 1 .. b into their cells.
Carries(s, a, b) ==
  /\ s \in Seq(Nat \X Nat)
  /\ \A i \in 1 .. Len(s) : s[i][2] = 0 \/ (s[i][2] \in a + 1 .. b /\ s[i][1] = CellOf(s[i][2]))
  /\ \A v \in a + 1 .. b : \E i \in 1 .. Len(s) : s[i] = <<CellOf(v), v>>

LEMMA MemcpyCarries ==
  ASSUME NEW place \in Nat, NEW first \in Nat, NEW len \in Nat,
         \A k \in 1 .. len : place + k - 1 = CellOf(first + k)
  PROVE  Carries(memcpy(place, first, len), first, first + len)
<1> DEFINE m == memcpy(place, first, len)
           w == memcpy_width(len)
<1>1. m \in Seq(Nat \X Nat) /\ Len(m) = w
  BY MemcpyStores
<1>2. \A k \in 1 .. w : m[k] = <<place + k - 1, IF k <= len THEN first + k ELSE 0>>
  BY MemcpyStores
<1>3. w \in Nat /\ w >= len
  BY WidthCovers
<1> HIDE DEF m, w
<1>4. ASSUME NEW i \in 1 .. w
      PROVE  m[i][2] = 0 \/ (m[i][2] \in first + 1 .. first + len /\ m[i][1] = CellOf(m[i][2]))
  <2>1. m[i][1] = place + i - 1 /\ m[i][2] = IF i <= len THEN first + i ELSE 0
    BY <1>2
  <2>2. CASE i <= len
    <3>1. m[i][2] = first + i /\ i \in 1 .. len
      BY <1>3, <2>1, <2>2
    <3>2. first + i \in first + 1 .. first + len
      BY <3>1
    <3> QED  BY <2>1, <3>1, <3>2
  <2> QED  BY <2>1, <2>2
<1>5. ASSUME NEW v \in first + 1 .. first + len PROVE \E i \in 1 .. w : m[i] = <<CellOf(v), v>>
  <2> DEFINE k == v - first
  <2>1. k \in 1 .. len /\ k \in 1 .. w /\ first + k = v /\ k <= len
    BY <1>3
  <2> HIDE DEF k
  <2>2. m[k] = <<place + k - 1, first + k>>
    BY <1>2, <2>1
  <2> QED  BY <2>1, <2>2
<1>6. Carries(m, first, first + len)
  BY <1>1, <1>4, <1>5 DEF Carries
<1> QED  BY <1>6 DEF m

LEMMA CarriesBoth ==
  ASSUME NEW a \in Nat, NEW b \in Nat, NEW c \in Nat, a <= b, b <= c,
         NEW s, NEW t, Carries(s, a, b), Carries(t, b, c)
  PROVE  Carries(s \o t, a, c)
<1>1. s \in Seq(Nat \X Nat) /\ t \in Seq(Nat \X Nat)
  BY DEF Carries
<1>2. /\ s \o t \in Seq(Nat \X Nat) /\ Len(s \o t) = Len(s) + Len(t)
      /\ \A i \in 1 .. Len(s) + Len(t) : (s \o t)[i] = IF i <= Len(s) THEN s[i] ELSE t[i - Len(s)]
  BY <1>1, ConcatProperties
<1>3. Len(s) \in Nat /\ Len(t) \in Nat
  BY <1>1, LenProperties
<1> DEFINE st == s \o t
<1> HIDE DEF st
<1>4. ASSUME NEW i \in 1 .. Len(s) + Len(t)
      PROVE  st[i][2] = 0 \/ (st[i][2] \in a + 1 .. c /\ st[i][1] = CellOf(st[i][2]))
  <2>1. CASE i <= Len(s)
    <3>1. st[i] = s[i] /\ i \in 1 .. Len(s)
      BY <1>2, <1>3, <2>1 DEF st
    <3>2. s[i][2] = 0 \/ (s[i][2] \in a + 1 .. b /\ s[i][1] = CellOf(s[i][2]))
      BY <3>1 DEF Carries
    <3>3. a + 1 .. b \subseteq a + 1 .. c
      OBVIOUS
    <3> QED  BY <3>1, <3>2, <3>3
  <2>2. CASE i > Len(s)
    <3> DEFINE j == i - Len(s)
    <3>1. st[i] = t[j] /\ j \in 1 .. Len(t)
      BY <1>2, <1>3, <2>2 DEF st
    <3> HIDE DEF j
    <3>2. t[j][2] = 0 \/ (t[j][2] \in b + 1 .. c /\ t[j][1] = CellOf(t[j][2]))
      BY <3>1 DEF Carries
    <3>3. b + 1 .. c \subseteq a + 1 .. c
      OBVIOUS
    <3> QED  BY <3>1, <3>2, <3>3
  <2> QED  BY <1>3, <2>1, <2>2
<1>5. ASSUME NEW v \in a + 1 .. c PROVE \E i \in 1 .. Len(s) + Len(t) : st[i] = <<CellOf(v), v>>
  <2>1. CASE v <= b
    <3>1. v \in a + 1 .. b
      BY <2>1
    <3>2. PICK i \in 1 .. Len(s) : s[i] = <<CellOf(v), v>>
      BY <3>1 DEF Carries
    <3>3. i \in 1 .. Len(s) + Len(t) /\ st[i] = s[i]
      BY <1>2, <1>3 DEF st
    <3> QED  BY <3>2, <3>3
  <2>2. CASE v > b
    <3>1. v \in b + 1 .. c
      BY <2>2
    <3>2. PICK j \in 1 .. Len(t) : t[j] = <<CellOf(v), v>>
      BY <3>1 DEF Carries
    <3>3. j + Len(s) \in 1 .. Len(s) + Len(t) /\ ~(j + Len(s) <= Len(s)) /\ (j + Len(s)) - Len(s) = j
      BY <1>3
    <3>4. st[j + Len(s)] = t[j]
      BY <1>2, <3>3 DEF st
    <3> QED  BY <3>2, <3>3, <3>4
  <2> QED  BY <2>1, <2>2
<1>6. st \in Seq(Nat \X Nat) /\ Len(st) = Len(s) + Len(t)
  BY <1>2 DEF st
<1>7. Carries(st, a, c)
  BY <1>4, <1>5, <1>6 DEF Carries
<1> QED  BY <1>7 DEF st

\* write_data and try_push copy the message into the cells of its values, in two
\* parts when it reaches over the end of the mapped buffer.
LEMMA StoresCarry ==
  ASSUME RingTypeOK, Positions, RingBounds, NEW n \in Writable
  PROVE  Carries(Stores(n), sent, sent + n)
<1>1. sent \in Nat /\ write_pos \in Nat /\ Len(delivered) \in Nat /\ reader.length \in Nat
  BY LenProperties DEF RingTypeOK, Transfer
<1>2. n \in Nat \ {0} /\ sent + n - Len(delivered) <= Size - 1
  BY Room
<1>3. n <= Size - 1
  BY <1>1, <1>2, SizeFacts DEF RingBounds
<1>4. CASE ~Mapped
  <2>1. n = 1
    BY <1>4 DEF Writable
  <2>2. (write_pos + 0) % Size = CellOf(sent + 0 + 1)
    BY PositionCells
  <2>3. write_pos + 0 = write_pos /\ sent + 0 + 1 = sent + 1 /\ sent + 1 \in Nat \ {0}
    BY <1>1
  <2> DEFINE c == CellOf(sent + 1)
  <2>4. c \in Nat
    BY <2>3, CellRange, SizeFacts
  <2>5. Stores(n) = <<<<c, sent + 1>>>>
    BY <1>4, <2>2, <2>3 DEF Stores
  <2> DEFINE s == <<<<c, sent + 1>>>>
  <2>6. s \in Seq(Nat \X Nat) /\ Len(s) = 1 /\ s[1] = <<c, sent + 1>>
    BY <2>3, <2>4
  <2> HIDE DEF s
  <2>7. s[1][1] = c /\ s[1][2] = sent + 1
    BY <2>6
  <2>8. \A i \in 1 .. Len(s) : i = 1
    BY <2>6
  <2>9. \A v \in sent + 1 .. sent + n : v = sent + 1
    BY <1>1, <2>1
  <2>10. 1 \in 1 .. Len(s) /\ sent + 1 \in sent + 1 .. sent + n
    BY <1>1, <2>1, <2>6
  <2>11. Carries(s, sent, sent + n)
    BY <2>6, <2>7, <2>8, <2>9, <2>10 DEF Carries
  <2> QED  BY <2>5, <2>11 DEF s
<1>5. CASE Mapped
  <2>1. write_pos = Mod(sent, Size)
    BY <1>5 DEF Positions, Limit, Mod
  <2>2. write_pos \in 0 .. Size - 1
    BY <1>1, <2>1, ModRange, SizeFacts
  <2>3. ASSUME NEW k \in 1 .. Size - 1
        PROVE  /\ write_pos + (k - 1) < Size => write_pos + k - 1 = CellOf(sent + k)
               /\ write_pos + (k - 1) >= Size => write_pos + (k - 1) - Size = CellOf(sent + k)
    <3> DEFINE j == k - 1
    <3>1. j \in Nat /\ j < Size /\ sent + k = (sent + j) + 1 /\ sent + j \in Nat
      BY <1>1, SizeFacts
    <3> HIDE DEF j
    <3>2. /\ Mod(sent, Size) + j < Size => Mod(sent + j, Size) = Mod(sent, Size) + j
          /\ Mod(sent, Size) + j >= Size /\ Mod(sent, Size) + j < 2 * Size
               => Mod(sent + j, Size) = Mod(sent, Size) + j - Size
      BY <1>1, <3>1, ModStep, SizeFacts
    <3>3. CellOf(sent + k) = Mod(sent + j, Size)
      BY <3>1, CellMod
    <3>4. write_pos + j < 2 * Size
      BY <2>2, <3>1, SizeFacts
    <3>5. /\ write_pos + j < Size => write_pos + j = CellOf(sent + k)
          /\ write_pos + j >= Size => write_pos + j - Size = CellOf(sent + k)
      BY <2>1, <3>2, <3>3, <3>4
    <3> QED  BY <1>1, <3>5 DEF j
  <2> DEFINE f == Size - write_pos
  <2>4. f \in Nat /\ f \in 1 .. Size
    BY <2>2, SizeFacts
  <2>5. CASE n <= f
    <3>1. \A k \in 1 .. n : write_pos + k - 1 = CellOf(sent + k)
      <4> SUFFICES ASSUME NEW k \in 1 .. n PROVE write_pos + k - 1 = CellOf(sent + k)
        OBVIOUS
      <4>1. k \in 1 .. Size - 1 /\ write_pos + (k - 1) < Size
        BY <1>1, <1>2, <1>3, <2>2, <2>5, SizeFacts
      <4> QED  BY <2>3, <4>1
    <3>2. Carries(memcpy(write_pos, sent, n), sent, sent + n)
      BY <1>1, <1>2, <3>1, MemcpyCarries
    <3> QED  BY <1>5, <2>5, <3>2 DEF Stores
  <2>6. CASE ~(n <= f)
    <3>1. \A k \in 1 .. f : write_pos + k - 1 = CellOf(sent + k)
      <4> SUFFICES ASSUME NEW k \in 1 .. f PROVE write_pos + k - 1 = CellOf(sent + k)
        OBVIOUS
      <4>1. k \in 1 .. Size - 1 /\ write_pos + (k - 1) < Size
        BY <1>1, <1>2, <1>3, <2>2, <2>4, <2>6, SizeFacts
      <4> QED  BY <2>3, <4>1
    <3>2. Carries(memcpy(write_pos, sent, f), sent, sent + f)
      BY <1>1, <2>4, <3>1, MemcpyCarries
    <3>3. n - f \in Nat /\ sent + f \in Nat /\ 0 \in Nat /\ (sent + f) + (n - f) = sent + n
      BY <1>1, <1>2, <2>4, <2>6, SizeFacts
    <3>4. \A k \in 1 .. n - f : 0 + k - 1 = CellOf((sent + f) + k)
      <4> SUFFICES ASSUME NEW k \in 1 .. n - f PROVE 0 + k - 1 = CellOf((sent + f) + k)
        OBVIOUS
      <4> DEFINE j == f + k
      <4>1. j \in 1 .. Size - 1 /\ write_pos + (j - 1) >= Size /\ (sent + f) + k = sent + j
        BY <1>1, <1>2, <1>3, <2>2, <2>4, <2>6, SizeFacts
      <4>2. write_pos + (j - 1) - Size = CellOf(sent + j)
        BY <2>3, <4>1
      <4>3. write_pos + (j - 1) - Size = 0 + k - 1
        BY <1>1, <1>2, <2>2, <2>4, SizeFacts
      <4> QED  BY <4>1, <4>2, <4>3
    <3> HIDE DEF f
    <3>5. Carries(memcpy(0, sent + f, n - f), sent + f, (sent + f) + (n - f))
      BY <3>3, <3>4, MemcpyCarries
    <3>6. Carries(memcpy(0, sent + f, n - f), sent + f, sent + n)
      BY <3>3, <3>5
    <3>7. sent <= sent + f /\ sent + f <= sent + n /\ sent + n \in Nat
      BY <1>1, <1>2, <2>4, <2>6
    <3>8. Carries(memcpy(write_pos, sent, f) \o memcpy(0, sent + f, n - f), sent, sent + n)
      BY <1>1, <3>2, <3>3, <3>6, <3>7, CarriesBoth
    <3>9. Stores(n) = memcpy(write_pos, sent, f) \o memcpy(0, sent + f, n - f)
      BY <1>5, <2>6 DEF Stores, f
    <3> QED  BY <3>8, <3>9
  <2> QED  BY <2>5, <2>6
<1> QED  BY <1>4, <1>5

(***************************************************************************)
(* The steps of the producer and of the consumer.                          *)
(***************************************************************************)
LEMMA RingFacts ==
  ASSUME RingTypeOK
  PROVE  /\ sent \in Nat /\ Len(delivered) \in Nat /\ delivered \in Seq(Nat)
         /\ write_pos \in Nat /\ read_pos \in Nat
         /\ writer.length \in Nat /\ writer.stores \in Seq(Nat \X Nat) /\ Len(writer.stores) \in Nat
         /\ reader.length \in Nat /\ reader.copied \in Seq(Nat) /\ Len(reader.copied) \in Nat
<1>1. writer.stores \in Seq(Nat \X Nat) /\ reader.copied \in Seq(Nat) /\ delivered \in Seq(Nat)
  BY DEF RingTypeOK, Transfer
<1>2. Len(writer.stores) \in Nat /\ Len(reader.copied) \in Nat /\ Len(delivered) \in Nat
  BY <1>1, LenProperties
<1>3. writer.length \in Nat /\ reader.length \in Nat
  BY DEF RingTypeOK, Transfer
<1> QED  BY <1>1, <1>2, <1>3 DEF RingTypeOK

LEMMA RestingFacts ==
  /\ Resting \in Transfer /\ Resting.length = 0
  /\ Resting.stores = <<>> /\ Resting.copied = <<>> /\ Len(<<>>) = 0
<1>1. <<>> \in Seq(Nat) /\ <<>> \in Seq(Nat \X Nat) /\ Len(<<>>) = 0
  OBVIOUS
<1> QED  BY <1>1 DEF Resting, Transfer

\* The positions count modulo Limit.
LEMMA PositionStep ==
  ASSUME NEW x \in Nat, NEW k \in Nat
  PROVE  ((x % Limit) + k) % Limit = (x + k) % Limit
<1>1. Limit \in Nat \ {0}
  BY LimitFacts DEF Multiple
<1>2. Division(Limit, Limit, 1, 0)
  BY <1>1 DEF Division
<1>3. Multiple(Limit, Limit)
  BY <1>1, <1>2, ModUnique DEF Multiple
<1>4. Mod(Mod(x, Limit) + k, Limit) = Mod(x + k, Limit)
  BY <1>3, ModOfMod
<1> QED  BY <1>4 DEF Mod

LEMMA RingWrite ==
  ASSUME RingInvariant, NEW n, write_data(n)
  PROVE  RingInvariant'
<1> USE DEF RingInvariant
<1>0. /\ sent \in Nat /\ Len(delivered) \in Nat /\ writer.length \in Nat /\ reader.length \in Nat
      /\ sent + writer.length - Len(delivered) <= Size - 1 /\ Len(delivered) + reader.length <= sent
  BY RingFacts DEF RingBounds
<1>1. n \in Writable /\ UNCHANGED <<subject, cells, write_pos, read_pos, reader, sent, delivered, spilled>>
  BY DEF write_data, RingMoves
<1>2. n \in Nat \ {0} /\ sent + n - Len(delivered) <= Size - 1
  BY <1>1, Room
<1>3. Carries(Stores(n), sent, sent + n)
  BY <1>1, StoresCarry
<1>4. Stores(n) \in Seq(Nat \X Nat)
  BY <1>3 DEF Carries
<1>5. writer' = [busy |-> TRUE, length |-> n, stores |-> Stores(n), copied |-> <<>>]
  BY DEF write_data, Resting
<1>6. writer'.length = n /\ writer'.stores = Stores(n)
  BY <1>5
<1>7. RingTypeOK'
  <2>1. <<>> \in Seq(Nat)
    OBVIOUS
  <2>2. writer' \in Transfer
    BY <1>2, <1>4, <1>5, <2>1 DEF Transfer
  <2> QED  BY <1>1, <2>2 DEF RingTypeOK
<1>8. Positions'
  BY <1>1 DEF Positions, Limit, Mapped
<1>9. RingBounds'
  BY <1>1, <1>2, <1>6 DEF RingBounds
<1>10. StoresInPlace'
  <2>1. \A i \in 1 .. Len(Stores(n)) :
          Stores(n)[i][2] = 0 \/ (Stores(n)[i][2] \in sent + 1 .. sent + n
                                    /\ Stores(n)[i][1] = CellOf(Stores(n)[i][2]))
    BY <1>3 DEF Carries
  <2>2. sent' = sent
    BY <1>1
  <2> QED  BY <1>6, <2>1, <2>2 DEF StoresInPlace, InPlace
<1>11. Contents'
  <2> SUFFICES ASSUME ~spilled PROVE Contents'
    BY <1>1 DEF Contents
  <2>1. ASSUME NEW v \in Len(delivered) + 1 .. sent + n PROVE cells[CellOf(v)] = v \/ Awaited(v)'
    <3>1. CASE v <= sent
      <4>1. v \in Len(delivered) + 1 .. sent + writer.length /\ ~(v > sent)
        BY <1>0, <1>2, <3>1
      <4> QED  BY <4>1 DEF Contents, Awaited
    <3>2. CASE v > sent
      <4>1. v \in sent + 1 .. sent + n
        BY <3>2, <1>2, RingFacts
      <4>2. PICK i \in 1 .. Len(Stores(n)) : Stores(n)[i] = <<CellOf(v), v>>
        BY <1>3, <4>1 DEF Carries
      <4> QED  BY <1>1, <1>6, <3>2, <4>2 DEF Awaited
    <3> QED  BY <3>1, <3>2, RingFacts
  <2>2. /\ \A i \in 1 .. Len(reader.copied) : reader.copied[i] = Len(delivered) + i
        /\ \A i \in 1 .. Len(delivered) : delivered[i] = i
    BY DEF Contents
  <2> QED  BY <1>1, <1>6, <2>1, <2>2 DEF Contents
<1> QED  BY <1>7, <1>8, <1>9, <1>10, <1>11

\* A value goes into its own cell; what lies behind the message changes no cell
\* of what is yet to be read, or it is noted in spilled.
LEMMA RingCopyIn ==
  ASSUME RingInvariant, CopyIn
  PROVE  RingInvariant'
<1> USE DEF RingInvariant
<1>0. /\ sent \in Nat /\ Len(delivered) \in Nat /\ writer.length \in Nat /\ reader.length \in Nat
      /\ sent + writer.length - Len(delivered) <= Size - 1 /\ Len(delivered) + reader.length <= sent
  BY RingFacts DEF RingBounds
<1> DEFINE s == writer.stores
           c == Head(writer.stores)[1]
           x == Head(writer.stores)[2]
<1>1. UNCHANGED <<subject, write_pos, read_pos, reader, sent, delivered>>
  BY DEF CopyIn, RingMoves
<1>2. s # <<>> /\ s \in Seq(Nat \X Nat)
  BY RingFacts DEF CopyIn
<1>3. /\ Head(s) \in Nat \X Nat /\ Tail(s) \in Seq(Nat \X Nat)
      /\ Len(Tail(s)) = Len(s) - 1 /\ \A i \in 1 .. Len(Tail(s)) : Tail(s)[i] = s[i + 1]
  BY <1>2, HeadTailProperties
<1>4. Head(s) = s[1] /\ Len(s) \in Nat \ {0}
  BY <1>2
<1>5. c \in Nat /\ x \in Nat /\ s[1] = <<c, x>>
  BY <1>3, <1>4
<1>6. writer' = [writer EXCEPT !.stores = Tail(s)]
  BY DEF CopyIn
<1>7. writer \in Transfer
  BY DEF RingTypeOK
<1>8. writer' \in Transfer /\ writer'.length = writer.length /\ writer'.stores = Tail(s)
  BY <1>3, <1>6, <1>7 DEF Transfer
<1>9. cells' = IF c < Size THEN [cells EXCEPT ![c] = x] ELSE cells
  BY DEF CopyIn
<1>10. spilled' = (spilled \/ (x = 0 /\ c \in Unread))
  BY DEF CopyIn
<1>11. cells \in [0 .. Size - 1 -> Nat]
  BY DEF RingTypeOK
<1> HIDE DEF s, c, x
<1>12. RingTypeOK'
  <2>1. cells' \in [0 .. Size - 1 -> Nat]
    BY <1>5, <1>9, <1>11
  <2>2. spilled' \in BOOLEAN
    BY <1>10
  <2> QED  BY <1>1, <1>8, <2>1, <2>2 DEF RingTypeOK
<1>13. Positions'
  BY <1>1 DEF Positions, Limit, Mapped
<1>14. RingBounds'
  BY <1>1, <1>8 DEF RingBounds
<1>15. \A i \in 1 .. Len(s) : s[i][2] = 0 \/ (s[i][2] \in sent + 1 .. sent + writer.length
                                               /\ s[i][1] = CellOf(s[i][2]))
  BY DEF StoresInPlace, InPlace, s
<1>16. StoresInPlace'
  <2>1. ASSUME NEW i \in 1 .. Len(Tail(s))
        PROVE  Tail(s)[i][2] = 0 \/ (Tail(s)[i][2] \in sent + 1 .. sent + writer.length
                                      /\ Tail(s)[i][1] = CellOf(Tail(s)[i][2]))
    <3>1. Tail(s)[i] = s[i + 1] /\ i + 1 \in 1 .. Len(s)
      BY <1>3, <1>4
    <3> QED  BY <1>15, <3>1
  <2>2. sent' = sent
    BY <1>1
  <2> QED  BY <1>8, <2>1, <2>2 DEF StoresInPlace, InPlace
<1>17. Contents'
  <2> SUFFICES ASSUME ~spilled, ~(x = 0 /\ c \in Unread) PROVE Contents'
    BY <1>10 DEF Contents
  <2>1. ASSUME NEW v \in Len(delivered) + 1 .. sent + writer.length
        PROVE  cells'[CellOf(v)] = v \/ Awaited(v)'
    <3>1. v \in Nat \ {0} /\ CellOf(v) \in 0 .. Size - 1
      BY RingFacts, CellRange
    <3>2. CASE Awaited(v)
      <4>1. PICK i \in 1 .. Len(s) : s[i] = <<CellOf(v), v>>
        BY <3>2 DEF Awaited, s
      <4>2. CASE i = 1
        <5>1. c = CellOf(v) /\ x = v
          BY <1>5, <4>1, <4>2
        <5> QED  BY <1>9, <1>11, <3>1, <5>1, SizeFacts
      <4>3. CASE i # 1
        <5>1. i - 1 \in 1 .. Len(Tail(s)) /\ (i - 1) + 1 = i
          BY <1>3, <1>4, <4>3
        <5>2. Tail(s)[i - 1] = <<CellOf(v), v>>
          BY <1>3, <4>1, <5>1
        <5>3. v > sent'
          BY <1>1, <3>2 DEF Awaited
        <5> QED  BY <1>8, <5>1, <5>2, <5>3 DEF Awaited
      <4> QED  BY <4>2, <4>3
    <3>3. CASE ~Awaited(v)
      <4>1. cells[CellOf(v)] = v
        BY <3>3 DEF Contents
      <4>2. CASE c = CellOf(v)
        <5>1. c \in Unread
          <6> DEFINE k == v - Len(delivered) - 1
          <6>1. k \in 0 .. sent + writer.length - Len(delivered) - 1 /\ k \in Nat
                /\ Len(delivered) + k + 1 = v
            BY <1>0
          <6> HIDE DEF k
          <6>2. (read_pos + k) % Size = CellOf(Len(delivered) + k + 1)
            BY <6>1, PositionCells
          <6> QED  BY <4>2, <6>1, <6>2 DEF Unread
        <5>2. 1 \in 1 .. Len(s) /\ s[1][1] = c /\ s[1][2] = x
          BY <1>4, <1>5
        <5>3. x \in sent + 1 .. sent + writer.length /\ c = CellOf(x)
          BY <1>15, <5>1, <5>2
        <5>4. x = v
          <6>1. /\ x \in Nat \ {0} /\ v \in Nat \ {0}
                /\ x - v <= Size - 1 /\ v - x <= Size - 1
            BY <1>0, <3>1, <5>3, SizeFacts
          <6>2. ~(x < v) /\ ~(v < x)
            BY <4>2, <5>3, <6>1, CellDistinct
          <6> QED  BY <6>1, <6>2
        <5> QED  BY <1>9, <1>11, <3>1, <4>2, <5>4, SizeFacts
      <4>3. CASE c # CellOf(v)
        <5>1. cells'[CellOf(v)] = cells[CellOf(v)]
          BY <1>9, <1>11, <3>1, <4>3
        <5> QED  BY <4>1, <5>1
      <4> QED  BY <4>2, <4>3
    <3> QED  BY <3>2, <3>3
  <2>2. /\ \A i \in 1 .. Len(reader.copied) : reader.copied[i] = Len(delivered) + i
        /\ \A i \in 1 .. Len(delivered) : delivered[i] = i
    BY DEF Contents
  <2> QED  BY <1>1, <1>8, <2>1, <2>2 DEF Contents
<1> QED  BY <1>12, <1>13, <1>14, <1>16, <1>17

LEMMA RingPublish ==
  ASSUME RingInvariant, Publish
  PROVE  RingInvariant'
<1> USE DEF RingInvariant
<1>0. /\ sent \in Nat /\ Len(delivered) \in Nat /\ writer.length \in Nat /\ reader.length \in Nat
      /\ sent + writer.length - Len(delivered) <= Size - 1 /\ Len(delivered) + reader.length <= sent
  BY RingFacts DEF RingBounds
<1>1. UNCHANGED <<subject, cells, read_pos, reader, delivered, spilled>> /\ writer' = Resting
  BY DEF Publish, RingMoves
<1>2. writer.stores = <<>> /\ sent' = sent + writer.length
  BY DEF Publish
<1>3. writer'.length = 0 /\ writer'.stores = <<>> /\ writer' \in Transfer
  BY <1>1, RestingFacts
<1>4. write_pos' = (sent + writer.length) % Limit
  <2>1. write_pos' = ((sent % Limit) + writer.length) % Limit
    BY DEF Publish, Positions
  <2> QED  BY <1>0, <2>1, PositionStep
<1>5. sent' \in Nat /\ sent' + 0 = sent' /\ 0 \in Nat
  BY <1>0, <1>2
<1>6. RingTypeOK'
  <2>1. write_pos' \in Nat
    <3>1. Limit \in Nat \ {0} /\ write_pos' = Mod(sent', Limit) /\ sent' \in Int
      BY <1>2, <1>4, <1>5, LimitFacts DEF Multiple, Mod
    <3>2. Mod(sent', Limit) \in 0 .. Limit - 1
      BY <3>1, ModRange
    <3> QED  BY <3>1, <3>2
  <2> QED  BY <1>1, <1>3, <1>5, <2>1 DEF RingTypeOK
<1>7. Positions'
  BY <1>1, <1>2, <1>4 DEF Positions, Limit, Mapped
<1>8. RingBounds'
  <2>1. Len(reader.copied) <= reader.length
    BY DEF RingBounds
  <2>2. /\ (sent + writer.length) + 0 - Len(delivered) <= Size - 1
        /\ Len(delivered) + reader.length <= sent + writer.length
    BY <1>0, SizeFacts
  <2> QED  BY <1>1, <1>2, <1>3, <2>1, <2>2 DEF RingBounds
<1>9. StoresInPlace'
  <2>1. 1 .. Len(writer'.stores) = {}
    BY <1>3, RestingFacts
  <2> QED  BY <2>1 DEF StoresInPlace
<1>10. Contents'
  <2> SUFFICES ASSUME ~spilled PROVE Contents'
    BY <1>1 DEF Contents
  <2>1. \A v \in Len(delivered) + 1 .. sent + writer.length : cells[CellOf(v)] = v
    <3>1. 1 .. Len(writer.stores) = {}
      BY <1>2, RestingFacts
    <3> QED  BY <3>1 DEF Contents, Awaited
  <2>2. sent' + writer'.length = sent + writer.length
    BY <1>2, <1>3, <1>5
  <2>3. /\ \A i \in 1 .. Len(reader.copied) : reader.copied[i] = Len(delivered) + i
        /\ \A i \in 1 .. Len(delivered) : delivered[i] = i
    BY DEF Contents
  <2> QED  BY <1>1, <2>1, <2>2, <2>3 DEF Contents
<1> QED  BY <1>6, <1>7, <1>8, <1>9, <1>10

LEMMA RingRead ==
  ASSUME RingInvariant, NEW n, read_data(n)
  PROVE  RingInvariant'
<1> USE DEF RingInvariant
<1>1. n \in Readable /\ UNCHANGED <<subject, cells, write_pos, read_pos, writer, sent, delivered, spilled>>
  BY DEF read_data, RingMoves
<1>2. n \in Nat \ {0} /\ Len(delivered) + n <= sent
  BY <1>1, Room
<1>3. reader' = [busy |-> TRUE, length |-> n, stores |-> <<>>, copied |-> <<>>]
  BY DEF read_data, Resting
<1>4. reader'.length = n /\ reader'.copied = <<>>
  BY <1>3
<1>5. RingTypeOK'
  <2>1. <<>> \in Seq(Nat) /\ <<>> \in Seq(Nat \X Nat)
    OBVIOUS
  <2>2. reader' \in Transfer
    BY <1>2, <1>3, <2>1 DEF Transfer
  <2> QED  BY <1>1, <2>2 DEF RingTypeOK
<1>6. Positions'
  BY <1>1 DEF Positions, Limit, Mapped
<1>7. RingBounds'
  <2>1. Len(reader'.copied) <= reader'.length
    BY <1>2, <1>4, RestingFacts
  <2> QED  BY <1>1, <1>2, <1>4, <2>1 DEF RingBounds
<1>8. StoresInPlace'
  BY <1>1 DEF StoresInPlace, InPlace
<1>9. Contents'
  <2> SUFFICES ASSUME ~spilled PROVE Contents'
    BY <1>1 DEF Contents
  <2>1. 1 .. Len(reader'.copied) = {}
    BY <1>4, RestingFacts
  <2>2. /\ \A v \in Len(delivered) + 1 .. sent + writer.length : cells[CellOf(v)] = v \/ Awaited(v)
        /\ \A i \in 1 .. Len(delivered) : delivered[i] = i
    BY DEF Contents
  <2> QED  BY <1>1, <2>1, <2>2 DEF Contents, Awaited
<1> QED  BY <1>5, <1>6, <1>7, <1>8, <1>9

\* What is copied out was published before the read began, and no store can
\* have replaced it since.
LEMMA RingCopyOut ==
  ASSUME RingInvariant, CopyOut
  PROVE  RingInvariant'
<1> USE DEF RingInvariant
<1>0. /\ sent \in Nat /\ Len(delivered) \in Nat /\ writer.length \in Nat /\ reader.length \in Nat
      /\ sent + writer.length - Len(delivered) <= Size - 1 /\ Len(delivered) + reader.length <= sent
  BY RingFacts DEF RingBounds
<1> DEFINE s == reader.copied
           v == Len(delivered) + Len(s) + 1
           e == cells[(read_pos + Len(s)) % Size]
<1>1. UNCHANGED <<subject, cells, write_pos, read_pos, writer, sent, delivered, spilled>>
  BY DEF CopyOut, RingMoves
<1>2. s \in Seq(Nat) /\ Len(s) \in Nat /\ Len(s) < reader.length
  BY RingFacts DEF CopyOut
<1>3. reader' = [reader EXCEPT !.copied = Append(s, e)]
  BY DEF CopyOut
<1>4. e = cells[CellOf(v)]
  BY <1>2, PositionCells
<1>5. v \in Nat \ {0} /\ v \in Len(delivered) + 1 .. sent + writer.length /\ ~(v > sent)
  BY <1>0, <1>2
<1> HIDE DEF s, v, e
<1>6. e \in Nat
  BY <1>4, <1>5, CellRange DEF RingTypeOK
<1>7. reader \in Transfer
  BY DEF RingTypeOK
<1>8. /\ Append(s, e) \in Seq(Nat) /\ Len(Append(s, e)) = Len(s) + 1
      /\ \A i \in 1 .. Len(s) : Append(s, e)[i] = s[i]
      /\ Append(s, e)[Len(s) + 1] = e
  BY <1>2, <1>6, AppendProperties
<1>9. reader' \in Transfer /\ reader'.length = reader.length /\ reader'.copied = Append(s, e)
  BY <1>3, <1>7, <1>8 DEF Transfer
<1>10. RingTypeOK'
  BY <1>1, <1>9 DEF RingTypeOK
<1>11. Positions'
  BY <1>1 DEF Positions, Limit, Mapped
<1>12. RingBounds'
  <2>1. Len(s) + 1 <= reader.length
    BY <1>0, <1>2
  <2> QED  BY <1>1, <1>8, <1>9, <2>1 DEF RingBounds
<1>13. StoresInPlace'
  BY <1>1 DEF StoresInPlace, InPlace
<1>14. Contents'
  <2> SUFFICES ASSUME ~spilled PROVE Contents'
    BY <1>1 DEF Contents
  <2>1. /\ \A u \in Len(delivered) + 1 .. sent + writer.length : cells[CellOf(u)] = u \/ Awaited(u)
        /\ \A i \in 1 .. Len(s) : s[i] = Len(delivered) + i
        /\ \A i \in 1 .. Len(delivered) : delivered[i] = i
    BY DEF Contents, s
  <2>2. e = v
    BY <1>4, <1>5, <2>1 DEF Awaited
  <2>3. ASSUME NEW i \in 1 .. Len(s) + 1 PROVE Append(s, e)[i] = Len(delivered) + i
    <3>1. CASE i = Len(s) + 1
      <4>1. Append(s, e)[i] = v
        BY <1>8, <2>2, <3>1
      <4>2. v = Len(delivered) + i
        BY <1>0, <1>2, <3>1 DEF v
      <4> QED  BY <4>1, <4>2
    <3>2. CASE i # Len(s) + 1
      <4>1. i \in 1 .. Len(s)
        BY <1>2, <3>2
      <4> QED  BY <1>8, <2>1, <4>1
    <3> QED  BY <3>1, <3>2
  <2> QED  BY <1>1, <1>8, <1>9, <2>1, <2>3 DEF Contents, Awaited
<1> QED  BY <1>10, <1>11, <1>12, <1>13, <1>14

LEMMA RingConsume ==
  ASSUME RingInvariant, Consume
  PROVE  RingInvariant'
<1> USE DEF RingInvariant
<1>0. /\ sent \in Nat /\ Len(delivered) \in Nat /\ writer.length \in Nat /\ reader.length \in Nat
      /\ sent + writer.length - Len(delivered) <= Size - 1 /\ Len(delivered) + reader.length <= sent
  BY RingFacts DEF RingBounds
<1> DEFINE d == delivered
           s == reader.copied
<1>1. UNCHANGED <<subject, cells, write_pos, writer, sent, spilled>> /\ reader' = Resting
  BY DEF Consume, RingMoves
<1>2. delivered' = d \o s /\ d \in Seq(Nat) /\ s \in Seq(Nat) /\ Len(s) = reader.length /\ Len(d) \in Nat
  BY RingFacts DEF Consume
<1>3. /\ d \o s \in Seq(Nat) /\ Len(d \o s) = Len(d) + Len(s)
      /\ \A i \in 1 .. Len(d) + Len(s) : (d \o s)[i] = IF i <= Len(d) THEN d[i] ELSE s[i - Len(d)]
  BY <1>2, ConcatProperties
<1>4. Len(delivered') = Len(d) + reader.length /\ Len(delivered') \in Nat
  BY <1>0, <1>2, <1>3
<1>5. reader'.length = 0 /\ reader'.copied = <<>> /\ reader' \in Transfer
  BY <1>1, RestingFacts
<1>6. read_pos' = Len(delivered') % Limit
  <2>1. read_pos' = ((Len(d) % Limit) + reader.length) % Limit
    BY DEF Consume, Positions
  <2>2. ((Len(d) % Limit) + reader.length) % Limit = (Len(d) + reader.length) % Limit
    BY <1>0, PositionStep
  <2>3. (Len(d) + reader.length) % Limit = Len(delivered') % Limit
    BY <1>4, Zenon
  <2> QED  BY <2>1, <2>2, <2>3, Zenon
<1>7. RingTypeOK'
  <2>1. read_pos' \in Nat
    <3>1. Limit \in Nat \ {0} /\ read_pos' = Mod(Len(delivered'), Limit) /\ Len(delivered') \in Int
      BY <1>4, <1>6, LimitFacts DEF Multiple, Mod
    <3>2. Mod(Len(delivered'), Limit) \in 0 .. Limit - 1
      BY <3>1, ModRange
    <3> QED  BY <3>1, <3>2
  <2>2. delivered' \in Seq(Nat)
    BY <1>2, <1>3
  <2> QED  BY <1>1, <1>5, <2>1, <2>2 DEF RingTypeOK
<1>8. Positions'
  BY <1>1, <1>6 DEF Positions, Limit, Mapped
<1>9. RingBounds'
  <2>1. Len(reader'.copied) <= reader'.length
    BY <1>5, RestingFacts
  <2>2. /\ sent + writer.length - (Len(d) + reader.length) <= Size - 1
        /\ (Len(d) + reader.length) + 0 <= sent
    BY <1>0, SizeFacts
  <2> QED  BY <1>1, <1>4, <1>5, <2>1, <2>2 DEF RingBounds
<1>10. StoresInPlace'
  BY <1>1 DEF StoresInPlace, InPlace
<1>11. Contents'
  <2> SUFFICES ASSUME ~spilled PROVE Contents'
    BY <1>1 DEF Contents
  <2>1. /\ \A v \in Len(d) + 1 .. sent + writer.length : cells[CellOf(v)] = v \/ Awaited(v)
        /\ \A i \in 1 .. Len(s) : s[i] = Len(d) + i
        /\ \A i \in 1 .. Len(d) : d[i] = i
    BY DEF Contents
  <2> HIDE DEF d, s
  <2>2. (Len(d) + reader.length) + 1 .. sent + writer.length \subseteq Len(d) + 1 .. sent + writer.length
    BY <1>0 DEF d
  <2>3. \A v \in Len(delivered') + 1 .. sent + writer.length : cells[CellOf(v)] = v \/ Awaited(v)
    BY <1>4, <2>1, <2>2
  <2>4. 1 .. Len(reader'.copied) = {}
    BY <1>5, RestingFacts
  <2>5. ASSUME NEW i \in 1 .. Len(d) + Len(s) PROVE (d \o s)[i] = i
    <3>1. CASE i <= Len(d)
      <4>1. i \in 1 .. Len(d)
        BY <1>2, <3>1
      <4> QED  BY <1>3, <2>1, <3>1, <4>1
    <3>2. CASE ~(i <= Len(d))
      <4> DEFINE j == i - Len(d)
      <4>1. Len(s) \in Nat
        BY <1>2, LenProperties
      <4>2. j \in 1 .. Len(s) /\ Len(d) + j = i
        BY <1>2, <3>2, <4>1
      <4>3. (d \o s)[i] = s[j]
        BY <1>3, <3>2
      <4> HIDE DEF j
      <4> QED  BY <2>1, <4>2, <4>3
    <3> QED  BY <3>1, <3>2
  <2>6. \A i \in 1 .. Len(delivered') : delivered'[i] = i
    BY <1>2, <1>3, <2>5
  <2>7. \A v : Awaited(v)' = Awaited(v)
    BY <1>1 DEF Awaited
  <2> QED  BY <1>1, <2>3, <2>4, <2>6, <2>7 DEF Contents
<1> QED  BY <1>7, <1>8, <1>9, <1>10, <1>11

LEMMA RingInvariantInit == Init => RingInvariant
<1> SUFFICES ASSUME Init PROVE RingInvariant
  OBVIOUS
<1>1. RingInit /\ subject \in Subjects
  BY DEF Init
<1>2. /\ writer = Resting /\ reader = Resting /\ sent = 0 /\ delivered = <<>> /\ spilled = FALSE
      /\ write_pos = 0 /\ read_pos = 0 /\ cells = [i \in 0 .. Size - 1 |-> 0]
  BY <1>1 DEF RingInit
<1>3. RingTypeOK
  <2>1. delivered \in Seq(Nat)
    BY <1>2
  <2> QED  BY <1>1, <1>2, <2>1, RestingFacts DEF RingTypeOK
<1>4. Positions
  <2>1. Limit \in Nat \ {0}
    BY LimitFacts DEF Multiple
  <2>2. Division(0, Limit, 0, 0)
    BY <2>1 DEF Division
  <2>3. 0 % Limit = 0
    BY <2>2, ModUnique DEF Mod
  <2> QED  BY <1>2, <2>3, RestingFacts DEF Positions
<1>5. RingBounds
  BY <1>2, RestingFacts, SizeFacts DEF RingBounds
<1>6. 1 .. Len(writer.stores) = {} /\ 1 .. Len(reader.copied) = {} /\ 1 .. Len(delivered) = {}
  BY <1>2, RestingFacts
<1>7. Len(delivered) + 1 .. sent + writer.length = {}
  BY <1>2, RestingFacts
<1> QED  BY <1>3, <1>4, <1>5, <1>6, <1>7 DEF RingInvariant, StoresInPlace, Contents

LEMMA RingInvariantNext == RingInvariant /\ [Next]_vars => RingInvariant'
<1> SUFFICES ASSUME RingInvariant, [Next]_vars PROVE RingInvariant'
  OBVIOUS
<1>1. ASSUME UNCHANGED <<subject, ringVars>> PROVE RingInvariant'
  BY <1>1 DEF ringVars, RingInvariant, RingTypeOK, Positions, Limit, Mapped, RingBounds,
              StoresInPlace, InPlace, Contents, Awaited
<1>2. CASE PoolNext
  <2>1. UNCHANGED <<subject, ringVars>>
    BY <1>2 DEF PoolNext, Moves, allocate, LoadWord, NoBlock, compare_exchange, ExchangeFails,
                AdvanceHead, CountAllocated, deallocate, deallocate_block, CountFreed
  <2> QED  BY <1>1, <2>1
<1>3. CASE RingNext
  <2>1. CASE \E n \in 1 .. Size : write_data(n)
    BY <2>1, RingWrite
  <2>2. CASE \E n \in 1 .. Size : read_data(n)
    BY <2>2, RingRead
  <2>3. CASE CopyIn
    BY <2>3, RingCopyIn
  <2>4. CASE Publish
    BY <2>4, RingPublish
  <2>5. CASE CopyOut
    BY <2>5, RingCopyOut
  <2>6. CASE Consume
    BY <2>6, RingConsume
  <2> QED  BY <1>3, <2>1, <2>2, <2>3, <2>4, <2>5, <2>6 DEF RingNext
<1>4. CASE UNCHANGED vars
  <2>1. UNCHANGED <<subject, ringVars>>
    BY <1>4 DEF vars
  <2> QED  BY <1>1, <2>1
<1> QED  BY <1>2, <1>3, <1>4 DEF Next

LEMMA RingInvariantDelivers == RingInvariant => RingDelivers
<1> SUFFICES ASSUME RingInvariant PROVE RingDelivers
  OBVIOUS
<1>1. sent \in Nat /\ Len(delivered) \in Nat /\ writer.length \in Nat /\ reader.length \in Nat
      /\ delivered \in Seq(Nat)
  BY RingFacts DEF RingInvariant
<1>2. sent - Len(delivered) \in 0 .. Size - 1
  <2>1. sent + writer.length - Len(delivered) <= Size - 1 /\ Len(delivered) + reader.length <= sent
    BY DEF RingInvariant, RingBounds
  <2> QED  BY <1>1, <2>1, SizeFacts
<1>3. ASSUME ~spilled PROVE delivered = [i \in 1 .. Len(delivered) |-> i]
  <2>1. delivered \in [1 .. Len(delivered) -> Nat]
    BY <1>1, LenProperties
  <2>2. \A i \in 1 .. Len(delivered) : delivered[i] = i
    BY <1>3 DEF RingInvariant, Contents
  <2> QED  BY <2>1, <2>2
<1> QED  BY <1>2, <1>3 DEF RingDelivers

\* MemoryMappedBuffer and CacheOptimizedRingBuffer hand over what was written,
\* once and in order, over any wrap of their positions and for every interleaving
\* of the two copies, and hold at most Size - 1, unless the word-wise copy has
\* stored past a message over what was not read yet.
THEOREM RingAlwaysDelivers == Spec => []RingDelivers
<1>1. Init => RingInvariant
  BY RingInvariantInit
<1>2. RingInvariant /\ [Next]_vars => RingInvariant'
  BY RingInvariantNext
<1>3. QED  BY <1>1, <1>2, RingInvariantDelivers, PTL DEF Spec
===============================================================================
