---------------------------- MODULE NcPoolProofs ----------------------------
(***************************************************************************)
(* What a pool carves from its blocks is in bounds and given out once, its *)
(* lists and the heap account for each other, and a destroy runs what is   *)
(* due: for every size of block, header and request, every alignment and   *)
(* any number of blocks.                                                   *)
(***************************************************************************)
EXTENDS NcPool, NatSets, SequenceTheorems, TLAPS

\* A pool whose fields have their types and whose chain is well formed.
Shape(p) ==
  /\ p \in PoolType
  /\ Len(p.last) > 0 /\ Len(p.failed) = Len(p.last)
  /\ p.current \in Blocks(p)

Good(p) == Shape(p) /\ Bounded(p) /\ Separate(p)

\* The inductive invariant: bounds need blocks of a multiple of Align bytes.
Aligned == PoolSize % Align = 0
Sound(p) == Shape(p) /\ (Aligned => Good(p))
IInv ==
  /\ TypeOK
  /\ Sound(pool)
  /\ phase \in {"walk", "handler"} => todo <= Len(pool.cleanup)
  /\ phase = "handler" => todo > 0

\* What an allocating call on p returns, what one that uses only the blocks
\* returns, and what nc_pool_cleanup_add returns when it links a record.
Returned(p, r) ==
  Sound(r.pool) /\ r.pool.cleanup = p.cleanup /\ r.ptr \in Pointers \cup {NULL}
Carved(p, r) ==
  Sound(r.pool) /\ r.pool.cleanup = p.cleanup /\ r.ptr \in Regions \cup {NULL}
Linked(p, r) ==
  /\ Sound(r.pool) /\ r.ptr \in Pointers
  /\ Len(r.pool.cleanup) = Len(p.cleanup) + 1

LEMMA Bytes ==
  /\ PoolSize \in Nat /\ PoolHdr \in Nat /\ DataHdr \in Nat /\ LargeHdr \in Nat
  /\ CleanupHdr \in Nat /\ MaxFromPool \in Nat /\ max \in Nat
  /\ PoolHdr <= PoolSize /\ DataHdr <= PoolHdr
  /\ max <= PoolSize - DataHdr /\ LargeHdr <= PoolSize - DataHdr
  /\ DataHdr % Align = 0
BY PoolAssumption DEF max

-----------------------------------------------------------------------------
(* Alignment                                                               *)

LEMMA AlignUpType == \A m \in Nat : AlignUp(m) \in Nat /\ m <= AlignUp(m)
<1> TAKE m \in Nat
<1>1. m % Align \in Nat /\ m % Align < Align
  BY PoolAssumption
<1> QED
  BY <1>1, PoolAssumption DEF AlignUp

LEMMA NextMultiple ==
  ASSUME NEW a \in Nat, NEW b \in Nat, NEW q \in Nat, a * b > a * q
  PROVE  a * b >= a * q + a
<1>1. b > q
  OBVIOUS
<1>2. a * b >= a * (q + 1)
  BY <1>1
<1> QED
  BY <1>2

\* An aligned cursor cannot jump over an aligned end.
LEMMA AlignUpFits ==
  ASSUME Aligned, NEW m \in Nat, m <= PoolSize
  PROVE  AlignUp(m) <= PoolSize
<1> DEFINE q == m \div Align
           b == PoolSize \div Align
<1>1. q \in Nat /\ b \in Nat /\ m % Align \in Nat
  BY PoolAssumption
<1>2. m = Align * q + (m % Align)
  BY PoolAssumption
<1>3. PoolSize = Align * b
  BY PoolAssumption DEF Aligned
<1> HIDE DEF q, b
<1>4. CASE m % Align = 0
  BY <1>4 DEF AlignUp
<1>5. CASE m % Align # 0
  <2>1. Align * b > Align * q
    BY <1>1, <1>2, <1>3, <1>5, PoolAssumption
  <2>2. Align * b >= Align * q + Align
    BY <1>1, <2>1, NextMultiple, PoolAssumption
  <2>3. AlignUp(m) = Align * q + Align
    BY <1>1, <1>2, <1>5, PoolAssumption DEF AlignUp
  <2> QED
    BY <1>3, <2>2, <2>3
<1> QED
  BY <1>4, <1>5

-----------------------------------------------------------------------------
(* Small pieces                                                            *)

LEMMA Fields ==
  ASSUME NEW p, Shape(p)
  PROVE  /\ p.last \in [Blocks(p) -> Nat] /\ p.failed \in [Blocks(p) -> Nat]
         /\ p.last \in Seq(Nat) /\ p.failed \in Seq(Nat)
         /\ p.large \in Seq(Slots) /\ p.cleanup \in Seq(Records)
         /\ p.used \in SUBSET Regions /\ p.heap \in SUBSET HeapAddrs
         /\ p.current \in Blocks(p) /\ Len(p.last) \in Nat \ {0}
         /\ Len(p.failed) = Len(p.last)
BY DEF Shape, PoolType, Blocks

LEMMA PieceType ==
  ASSUME NEW i \in Nat, NEW lo \in Nat, NEW size \in Nat
  PROVE  /\ Piece(i, lo, size) \in Regions
         /\ Piece(i, lo, size).blk = i
         /\ Piece(i, lo, size).lo = lo
         /\ Piece(i, lo, size).hi = lo + size
BY DEF Piece, Regions

LEMMA CarveFields ==
  ASSUME NEW p, Shape(p), NEW i \in Blocks(p), NEW lo \in Nat, NEW size \in Nat
  PROVE  /\ Carve(p, i, lo, size).ptr = Piece(i, lo, size)
         /\ Carve(p, i, lo, size).pool.last = [p.last EXCEPT ![i] = lo + size]
         /\ Carve(p, i, lo, size).pool.failed = p.failed
         /\ Carve(p, i, lo, size).pool.current = p.current
         /\ Carve(p, i, lo, size).pool.used = p.used \cup {Piece(i, lo, size)}
         /\ Carve(p, i, lo, size).pool \in PoolType
<1>1. Piece(i, lo, size) \in Regions
  BY Fields, PieceType DEF Blocks
<1>2. [p.last EXCEPT ![i] = lo + size] \in Seq(Nat)
  BY Fields DEF Blocks
<1> QED
  BY <1>1, <1>2 DEF Carve, Outcome, Shape, PoolType

LEMMA CarveRest ==
  ASSUME NEW p, Shape(p), NEW i \in Blocks(p), NEW lo \in Nat, NEW size \in Nat
  PROVE  /\ Carve(p, i, lo, size).ptr \in Regions
         /\ Carve(p, i, lo, size).pool.cleanup = p.cleanup
<1>1. Piece(i, lo, size) \in Regions
  BY Fields, PieceType DEF Blocks
<1> QED
  BY <1>1 DEF Carve, Outcome, Shape, PoolType

LEMMA CarveShape ==
  ASSUME NEW p, Shape(p), NEW i \in Blocks(p), NEW lo \in Nat, NEW size \in Nat
  PROVE  /\ Shape(Carve(p, i, lo, size).pool)
         /\ Blocks(Carve(p, i, lo, size).pool) = Blocks(p)
<1> DEFINE q == Carve(p, i, lo, size).pool
<1>1. /\ q.last = [p.last EXCEPT ![i] = lo + size]
      /\ q.failed = p.failed /\ q.current = p.current /\ q \in PoolType
  BY CarveFields
<1> HIDE DEF q
<1>2. Len(q.last) = Len(p.last)
  BY <1>1, Fields DEF Blocks
<1>3. Shape(q) /\ Blocks(q) = Blocks(p)
  BY <1>1, <1>2 DEF Shape, Blocks
<1> QED
  BY <1>3 DEF q

LEMMA CarveGood ==
  ASSUME NEW p, Good(p), NEW i \in Blocks(p), NEW lo \in Nat, NEW size \in Nat,
         p.last[i] <= lo, lo + size <= PoolSize
  PROVE  Good(Carve(p, i, lo, size).pool)
<1> DEFINE new == Piece(i, lo, size)
           q == Carve(p, i, lo, size).pool
<1>1. Shape(p) /\ Shape(q) /\ Blocks(q) = Blocks(p)
  BY CarveShape DEF Good
<1>2. p.last \in [Blocks(p) -> Nat] /\ p.used \subseteq Regions
  BY <1>1, Fields
<1>3. /\ q.last = [p.last EXCEPT ![i] = lo + size]
      /\ q.used = p.used \cup {new}
  BY <1>1, CarveFields
<1>4. new.blk = i /\ new.lo = lo /\ new.hi = lo + size
  BY <1>1, Fields, PieceType DEF Blocks
<1> HIDE DEF q, new
<1>5. /\ q.last[i] = lo + size
      /\ \A j \in Blocks(p) : j # i => q.last[j] = p.last[j]
      /\ \A j \in Blocks(p) : p.last[j] \in Nat
  BY <1>2, <1>3
<1>6. Floor(i) <= lo
  BY <1>2, PoolAssumption DEF Good, Bounded, Floor
<1>7. Bounded(q)
  <2>1. ASSUME NEW j \in Blocks(q)
        PROVE  Floor(j) <= q.last[j] /\ q.last[j] <= PoolSize
    <3>1. CASE j = i
      BY <1>5, <1>6, <3>1, PoolAssumption DEF Floor
    <3>2. CASE j # i
      BY <1>1, <1>5, <3>2 DEF Good, Bounded
    <3> QED
      BY <3>1, <3>2
  <2>2. ASSUME NEW u \in p.used
        PROVE  /\ u.blk \in Blocks(q) /\ Floor(u.blk) <= u.lo
               /\ u.lo <= u.hi /\ u.hi <= q.last[u.blk]
    <3>1. /\ u.blk \in Blocks(p) /\ u.hi <= p.last[u.blk]
          /\ Floor(u.blk) <= u.lo /\ u.lo <= u.hi
      BY DEF Good, Bounded
    <3>2. p.last[u.blk] \in Nat /\ u.hi \in Nat
      BY <1>2, <3>1 DEF Regions
    <3>3. u.hi <= q.last[u.blk]
      <4>1. CASE u.blk = i
        BY <1>5, <3>1, <3>2, <4>1
      <4>2. CASE u.blk # i
        BY <1>5, <3>1, <4>2
      <4> QED
        BY <4>1, <4>2
    <3> QED
      BY <1>1, <3>1, <3>3
  <2>3. /\ new.blk \in Blocks(q) /\ Floor(new.blk) <= new.lo
        /\ new.lo <= new.hi /\ new.hi <= q.last[new.blk]
    BY <1>1, <1>4, <1>5, <1>6
  <2> QED
    BY <1>3, <2>1, <2>2, <2>3 DEF Bounded
<1>8. Separate(q)
  <2>1. ASSUME NEW u \in p.used
        PROVE  ~Overlap(u, new) /\ ~Overlap(new, u)
    BY <1>2, <1>4 DEF Good, Bounded, Overlap, Regions
  <2> QED
    BY <1>3, <2>1 DEF Good, Separate
<1> QED
  BY <1>1, <1>7, <1>8 DEF Good, q

LEMMA CountFailureType ==
  ASSUME NEW p, Shape(p)
  PROVE  CountFailure(p) \in Seq(Nat) /\ Len(CountFailure(p)) = Len(p.last)
<1> DEFINE n == Len(p.last)
           F(i) == IF i \in p.current .. n - 1 THEN p.failed[i] + 1 ELSE p.failed[i]
<1>1. n \in Nat /\ CountFailure(p) = [i \in 1 .. n |-> F(i)]
  BY Fields DEF CountFailure, Blocks
<1>2. ASSUME NEW i \in 1 .. n PROVE F(i) \in Nat
  <2>1. p.failed[i] \in Nat
    BY Fields DEF Blocks
  <2> QED
    BY <2>1
<1> HIDE DEF n, F
<1>3. [i \in 1 .. n |-> F(i)] \in [1 .. n -> Nat]
  BY <1>2
<1>4. CountFailure(p) \in Seq(Nat) /\ Len(CountFailure(p)) = n
  BY <1>1, <1>3
<1> QED
  BY <1>4 DEF n

LEMMA LinkFields ==
  ASSUME NEW p, Shape(p), NEW c \in Blocks(p), NEW size \in Nat,
         NEW new, new = Piece(Len(p.last) + 1, AlignUp(DataHdr), size)
  PROVE  /\ LinkBlock(p, c, size).ptr = new
         /\ LinkBlock(p, c, size).pool.last = Append(p.last, new.hi)
         /\ LinkBlock(p, c, size).pool.failed = Append(CountFailure(p), 0)
         /\ LinkBlock(p, c, size).pool.current = c
         /\ LinkBlock(p, c, size).pool.cleanup = p.cleanup
         /\ LinkBlock(p, c, size).pool.used = p.used \cup {new}
         /\ LinkBlock(p, c, size).pool \in PoolType
         /\ new \in Regions
<1>0. Len(p.last) + 1 \in Nat /\ AlignUp(DataHdr) \in Nat
  <2>1. Len(p.last) + 1 \in Nat
    BY Fields
  <2>2. AlignUp(DataHdr) \in Nat
    BY AlignUpType, Bytes
  <2> QED
    BY <2>1, <2>2
<1>1. new \in Regions /\ new.hi \in Nat
  BY <1>0, PieceType DEF Regions
<1>2. Append(p.last, new.hi) \in Seq(Nat)
  BY <1>1, Fields
<1>3. CountFailure(p) \in Seq(Nat)
  BY CountFailureType
<1>4. Append(CountFailure(p), 0) \in Seq(Nat)
  BY <1>3
<1>5. c \in Nat
  BY Fields DEF Blocks
<1> QED
  BY <1>1, <1>2, <1>4, <1>5 DEF LinkBlock, Outcome, Shape, PoolType

LEMMA LinkSound ==
  ASSUME NEW p, Sound(p), NEW c \in Blocks(p), NEW size \in Nat,
         size <= PoolSize - DataHdr
  PROVE  Carved(p, LinkBlock(p, c, size))
<1> DEFINE new == Piece(Len(p.last) + 1, AlignUp(DataHdr), size)
           q == LinkBlock(p, c, size).pool
<1>1. Shape(p)
  BY DEF Sound
<1>2. /\ q.last = Append(p.last, new.hi)
      /\ q.failed = Append(CountFailure(p), 0)
      /\ q.current = c /\ q.cleanup = p.cleanup
      /\ q.used = p.used \cup {new}
      /\ q \in PoolType
      /\ LinkBlock(p, c, size).ptr = new /\ new \in Regions
  BY <1>1, LinkFields
<1>3. AlignUp(DataHdr) = DataHdr
  BY Bytes DEF AlignUp
<1> HIDE DEF new, q
<1>4. new.blk = Len(p.last) + 1 /\ new.lo = DataHdr /\ new.hi = DataHdr + size
  <2>1. Len(p.last) + 1 \in Nat
    BY <1>1, Fields
  <2>2. new = Piece(Len(p.last) + 1, DataHdr, size)
    BY <1>3 DEF new
  <2> QED
    BY <2>2 DEF Piece
<1>5. Len(CountFailure(p)) = Len(p.last) /\ CountFailure(p) \in Seq(Nat)
  BY <1>1, CountFailureType
<1>6. Len(q.last) = Len(p.last) + 1 /\ Len(q.failed) = Len(q.last)
  BY <1>1, <1>2, <1>5, Fields
<1>7. Shape(q)
  BY <1>1, <1>2, <1>6, Fields DEF Shape, Blocks
<1>8. ASSUME Good(p) PROVE Good(q)
  <2>1. /\ \A j \in Blocks(p) : q.last[j] = p.last[j]
        /\ q.last[Len(p.last) + 1] = DataHdr + size
    <3>1. p.last \in Seq(Nat) /\ DataHdr + size \in Nat
      BY <1>1, Fields, Bytes
    <3>2. q.last = Append(p.last, DataHdr + size)
      BY <1>2, <1>4
    <3> QED
      BY <3>1, <3>2, AppendProperties DEF Blocks
  <2>2. Blocks(q) = Blocks(p) \cup {Len(p.last) + 1}
    BY <1>1, <1>6, Fields DEF Blocks
  <2>3. Floor(Len(p.last) + 1) = DataHdr
    BY <1>1, Fields DEF Floor
  <2>4. ASSUME NEW j \in Blocks(q)
        PROVE  Floor(j) <= q.last[j] /\ q.last[j] <= PoolSize
    <3>1. CASE j \in Blocks(p)
      BY <1>8, <2>1, <3>1 DEF Good, Bounded
    <3>2. CASE j = Len(p.last) + 1
      BY <2>1, <2>3, <3>2, PoolAssumption, SMTT(20)
    <3> QED
      BY <2>2, <3>1, <3>2
  <2>5. ASSUME NEW u \in p.used
        PROVE  /\ u.blk \in Blocks(q) /\ Floor(u.blk) <= u.lo
               /\ u.lo <= u.hi /\ u.hi <= q.last[u.blk]
    BY <1>8, <2>1, <2>2 DEF Good, Bounded
  <2>6. /\ new.blk \in Blocks(q) /\ Floor(new.blk) <= new.lo
        /\ new.lo <= new.hi /\ new.hi <= q.last[new.blk]
    BY <1>4, <2>1, <2>2, <2>3, PoolAssumption
  <2>7. Bounded(q)
    BY <1>2, <2>4, <2>5, <2>6 DEF Bounded
  <2>8. ASSUME NEW u \in p.used
        PROVE  ~Overlap(u, new) /\ ~Overlap(new, u)
    <3>1. u.blk \in Blocks(p)
      BY <1>8 DEF Good, Bounded
    <3>2. u.blk # new.blk
      BY <1>1, <1>4, <3>1, Fields DEF Blocks
    <3> QED
      BY <3>2 DEF Overlap
  <2>9. Separate(q)
    <3>1. ~Overlap(new, new) \/ new = new
      OBVIOUS
    <3> QED
      BY <1>2, <1>8, <2>8 DEF Good, Separate
  <2> QED
    BY <1>7, <2>7, <2>9 DEF Good
<1> QED
  BY <1>2, <1>7, <1>8 DEF Carved, Sound, q

LEMMA StartType ==
  ASSUME NEW p, Sound(p), NEW i \in Blocks(p), NEW align \in BOOLEAN
  PROVE  /\ Start(p, i, align) \in Nat /\ p.last[i] <= Start(p, i, align)
         /\ Aligned => Start(p, i, align) <= PoolSize
<1>1. p.last[i] \in Nat
  BY Fields DEF Sound
<1>2. Aligned => p.last[i] <= PoolSize
  BY DEF Sound, Good, Bounded
<1>3. AlignUp(p.last[i]) \in Nat /\ p.last[i] <= AlignUp(p.last[i])
  BY <1>1, AlignUpType
<1>4. Aligned => AlignUp(p.last[i]) <= PoolSize
  BY <1>1, <1>2, AlignUpFits
<1> QED
  BY <1>1, <1>2, <1>3, <1>4 DEF Start

LEMMA SmallSound ==
  ASSUME NEW p, Sound(p), NEW size \in Nat, size <= PoolSize - DataHdr,
         NEW align \in BOOLEAN, NEW r \in nc_palloc_small(p, size, align)
  PROVE  Carved(p, r)
<1>1. CASE r \in nc_palloc_block(p, size)
  <2>1. CASE r = Outcome(p, NULL)
    BY <2>1 DEF Outcome, Carved
  <2>2. CASE \E c \in Blocks(p) : r = LinkBlock(p, c, size)
    BY <2>2, LinkSound
  <2> QED
    BY <1>1, <2>1, <2>2 DEF nc_palloc_block
<1>2. ASSUME NEW i \in Blocks(p), HasRoom(p, i, size, align),
             r = Carve(p, i, Start(p, i, align), size)
      PROVE  Carved(p, r)
  <2> DEFINE lo == Start(p, i, align)
  <2>1. lo \in Nat /\ p.last[i] <= lo /\ (Aligned => lo <= PoolSize)
    BY StartType
  <2>2. Aligned => lo + size <= PoolSize
    BY <1>2, <2>1, Bytes DEF HasRoom
  <2> HIDE DEF lo
  <2>3. Shape(Carve(p, i, lo, size).pool)
    BY <2>1, CarveShape DEF Sound
  <2>4. Aligned => Good(Carve(p, i, lo, size).pool)
    BY <2>1, <2>2, CarveGood DEF Sound
  <2>5. Shape(p)
    BY DEF Sound
  <2>6. /\ Carve(p, i, lo, size).ptr \in Regions
        /\ Carve(p, i, lo, size).pool.cleanup = p.cleanup
    BY <2>1, <2>5, CarveRest
  <2> QED
    BY <1>2, <2>3, <2>4, <2>6 DEF Carved, Sound, lo
<1> QED
  BY <1>1, <1>2 DEF nc_palloc_small

-----------------------------------------------------------------------------
(* Large pieces: the blocks change only through nc_palloc_small            *)

LEMMA ListsSound ==
  ASSUME NEW p, Sound(p), NEW q, q \in PoolType,
         q.last = p.last, q.failed = p.failed, q.current = p.current,
         q.used = p.used
  PROVE  Sound(q)
BY DEF Sound, Shape, Good, Bounded, Separate, Blocks

LEMMA LargeSound ==
  ASSUME NEW p, Sound(p), NEW size, NEW r \in nc_palloc_large(p, size)
  PROVE  Returned(p, r)
<1>1. CASE r = Outcome(p, NULL)
  BY <1>1 DEF Outcome, Returned
<1>2. ASSUME NEW a \in HeapAddrs, NEW i \in DOMAIN p.large,
             r = Outcome([p EXCEPT !.large[i].alloc = a, !.heap = @ \cup {a}], a)
      PROVE  Returned(p, r)
  <2>0. p.large \in Seq(Slots) /\ p.large[i] \in Slots
    BY Fields DEF Sound
  <2>a. [p.large[i] EXCEPT !.alloc = a] \in Slots
    BY <2>0 DEF Slots
  <2>1. [p.large EXCEPT ![i].alloc = a] \in Seq(Slots)
    BY <2>0, <2>a
  <2>2. /\ r.pool \in PoolType /\ r.ptr = a
        /\ r.pool.last = p.last /\ r.pool.failed = p.failed
        /\ r.pool.current = p.current /\ r.pool.used = p.used
        /\ r.pool.cleanup = p.cleanup
    BY <1>2, <2>1 DEF Outcome, Sound, Shape, PoolType
  <2> QED
    BY <2>2, ListsSound DEF Returned, Pointers
<1>3. ASSUME NEW a \in HeapAddrs, NEW s \in nc_palloc_small(p, LargeHdr, TRUE),
             r = LinkLarge(p, s, a)
      PROVE  Returned(p, r)
  <2>1. Carved(p, s)
    BY Bytes, SmallSound
  <2>2. CASE s.ptr = NULL
    BY <1>3, <2>1, <2>2 DEF LinkLarge, Outcome, Returned, Carved
  <2>3. CASE s.ptr # NULL
    <3> DEFINE q == s.pool
               node == [alloc |-> a, node |-> s.ptr]
    <3>1. Shape(q) /\ Sound(q)
      BY <2>1 DEF Carved, Sound
    <3>2. node \in Slots
      BY <2>1, <2>3 DEF Carved, Slots
    <3>3. <<node>> \o q.large \in Seq(Slots)
      BY <3>1, <3>2, Fields, ConcatProperties
    <3>4. /\ r.pool \in PoolType /\ r.ptr = a
          /\ r.pool.last = q.last /\ r.pool.failed = q.failed
          /\ r.pool.current = q.current /\ r.pool.used = q.used
          /\ r.pool.cleanup = q.cleanup
      BY <1>3, <2>3, <3>1, <3>3 DEF LinkLarge, Outcome, Shape, PoolType
    <3> QED
      BY <2>1, <3>1, <3>4, ListsSound DEF Carved, Returned, Pointers
  <2> QED
    BY <2>2, <2>3
<1> QED
  BY <1>1, <1>2, <1>3 DEF nc_palloc_large, EmptySlots

LEMMA PallocSound ==
  ASSUME NEW p, Sound(p), NEW size \in Nat,
         NEW r \in nc_palloc(p, size) \cup nc_pnalloc(p, size)
  PROVE  Returned(p, r)
<1>1. CASE \E align \in BOOLEAN : size <= max /\ r \in nc_palloc_small(p, size, align)
  <2>1. size <= PoolSize - DataHdr
    BY <1>1, Bytes
  <2>2. Carved(p, r)
    BY <1>1, <2>1, SmallSound
  <2> QED
    BY <2>2 DEF Carved, Returned, Pointers
<1>2. CASE r \in nc_palloc_large(p, size)
  BY <1>2, LargeSound
<1> QED
  BY <1>1, <1>2 DEF nc_palloc, nc_pnalloc

LEMMA PfreeSound ==
  ASSUME NEW p, Sound(p), NEW a, NEW q \in nc_pfree(p, a)
  PROVE  Sound(q) /\ q.cleanup = p.cleanup
<1>1. ASSUME NEW i \in DOMAIN p.large,
             q = [p EXCEPT !.large[i].alloc = NULL, !.heap = @ \ {a}]
      PROVE  Sound(q) /\ q.cleanup = p.cleanup
  <2>1. p.large \in Seq(Slots) /\ p.large[i] \in Slots
    BY Fields DEF Sound
  <2>2. [p.large[i] EXCEPT !.alloc = NULL] \in Slots
    BY <2>1 DEF Slots
  <2>3. [p.large EXCEPT ![i].alloc = NULL] \in Seq(Slots)
    BY <2>1, <2>2
  <2>4. /\ q \in PoolType
        /\ q.last = p.last /\ q.failed = p.failed
        /\ q.current = p.current /\ q.used = p.used /\ q.cleanup = p.cleanup
    BY <1>1, <2>3 DEF Sound, Shape, PoolType
  <2> QED
    BY <2>4, ListsSound
<1> QED
  BY <1>1 DEF nc_pfree

LEMMA LinkCleanupSound ==
  ASSUME NEW p, Sound(p), NEW rec \in Pointers, NEW data \in Pointers \cup {NULL}
  PROVE  Linked(p, LinkCleanup(p, rec, data))
<1> DEFINE c == [rec |-> rec, data |-> data, handler |-> FALSE]
           r == LinkCleanup(p, rec, data)
<1>1. c \in Records
  BY DEF Records
<1>2. /\ <<c>> \o p.cleanup \in Seq(Records)
      /\ Len(<<c>> \o p.cleanup) = Len(p.cleanup) + 1
  BY <1>1, Fields, ConcatProperties DEF Sound
<1>3. /\ r.pool \in PoolType /\ r.ptr = rec
      /\ r.pool.last = p.last /\ r.pool.failed = p.failed
      /\ r.pool.current = p.current /\ r.pool.used = p.used
      /\ r.pool.cleanup = <<c>> \o p.cleanup
  BY <1>2 DEF LinkCleanup, Outcome, Sound, Shape, PoolType
<1> HIDE DEF r
<1>4. Linked(p, r)
  BY <1>2, <1>3, ListsSound DEF Linked
<1> QED
  BY <1>4 DEF r

LEMMA CleanupAddSound ==
  ASSUME NEW p, Sound(p), NEW size \in Nat, NEW r \in nc_pool_cleanup_add(p, size)
  PROVE  Linked(p, r) \/ (Returned(p, r) /\ r.ptr = NULL)
<1>1. PICK s \in nc_palloc(p, CleanupHdr) :
        r \in IF s.ptr = NULL THEN {s} ELSE AddData(s.pool, s.ptr, size)
  BY DEF nc_pool_cleanup_add
<1>2. Returned(p, s)
  BY <1>1, Bytes, PallocSound
<1>3. CASE s.ptr = NULL
  BY <1>1, <1>2, <1>3
<1>4. CASE s.ptr # NULL /\ size = 0
  BY <1>1, <1>2, <1>4, LinkCleanupSound DEF AddData, Returned, Linked
<1>5. CASE s.ptr # NULL /\ size # 0
  <2>1. PICK d \in nc_palloc(s.pool, size) :
          r = IF d.ptr = NULL THEN d ELSE LinkCleanup(d.pool, s.ptr, d.ptr)
    BY <1>1, <1>5 DEF AddData
  <2>2. Returned(s.pool, d)
    BY <1>2, <2>1, PallocSound DEF Returned
  <2> QED
    BY <1>2, <1>5, <2>1, <2>2, LinkCleanupSound DEF Returned, Linked
<1> QED
  BY <1>3, <1>4, <1>5

LEMMA FreshSound ==
  ASSUME NEW h \in SUBSET HeapAddrs
  PROVE  Sound(FreshPool(h))
<1> DEFINE q == FreshPool(h)
<1>1. <<PoolHdr>> \in Seq(Nat) /\ <<0>> \in Seq(Nat) /\ Len(<<PoolHdr>>) = 1 /\ Len(<<0>>) = 1
  BY Bytes
<1>2. /\ q.last = <<PoolHdr>> /\ q.failed = <<0>> /\ q.current = 1 /\ q.used = {}
      /\ q \in PoolType
  BY <1>1 DEF FreshPool, PoolType
<1> HIDE DEF q
<1>3. Shape(q) /\ Blocks(q) = {1}
  BY <1>1, <1>2 DEF Shape, Blocks
<1>4. Good(q)
  BY <1>2, <1>3, Bytes DEF Good, Bounded, Separate, Floor
<1> QED
  BY <1>3, <1>4 DEF Sound, q

LEMMA ResetSound ==
  ASSUME NEW p, Sound(p)
  PROVE  Sound(nc_pool_reset(p))
<1> DEFINE q == nc_pool_reset(p)
           n == Len(p.last)
<1>1. n \in Nat \ {0} /\ Blocks(p) = 1 .. n
  BY Fields DEF Sound, Blocks
<1> HIDE DEF n
<1>2. /\ [i \in 1 .. n |-> PoolHdr] \in Seq(Nat) /\ [i \in 1 .. n |-> 0] \in Seq(Nat)
      /\ Len([i \in 1 .. n |-> PoolHdr]) = n /\ Len([i \in 1 .. n |-> 0]) = n
  BY <1>1, Bytes
<1>3. <<>> \in Seq(Slots)
  OBVIOUS
<1>4. /\ q.last = [i \in 1 .. n |-> PoolHdr] /\ q.failed = [i \in 1 .. n |-> 0]
      /\ q.current = 1 /\ q.used = {} /\ q \in PoolType
  BY <1>1, <1>2, <1>3 DEF nc_pool_reset, Sound, Shape, PoolType
<1> HIDE DEF q
<1>5. Shape(q) /\ Blocks(q) = 1 .. n
  BY <1>1, <1>2, <1>4 DEF Shape, Blocks
<1>6. Good(q)
  BY <1>1, <1>4, <1>5, Bytes DEF Good, Bounded, Separate, Floor
<1> QED
  BY <1>5, <1>6 DEF Sound, q

LEMMA SetHandlerSound ==
  ASSUME NEW p, Sound(p), NEW i \in DOMAIN p.cleanup
  PROVE  /\ Sound([p EXCEPT !.cleanup[i].handler = TRUE])
         /\ Len([p EXCEPT !.cleanup[i].handler = TRUE].cleanup) = Len(p.cleanup)
<1> DEFINE q == [p EXCEPT !.cleanup[i].handler = TRUE]
<1>1. p.cleanup \in Seq(Records) /\ p.cleanup[i] \in Records
  BY Fields DEF Sound
<1>2. [p.cleanup[i] EXCEPT !.handler = TRUE] \in Records
  BY <1>1 DEF Records
<1>3. /\ [p.cleanup EXCEPT ![i].handler = TRUE] \in Seq(Records)
      /\ Len([p.cleanup EXCEPT ![i].handler = TRUE]) = Len(p.cleanup)
  BY <1>1, <1>2
<1>4. /\ q \in PoolType /\ Len(q.cleanup) = Len(p.cleanup)
      /\ q.last = p.last /\ q.failed = p.failed
      /\ q.current = p.current /\ q.used = p.used
  BY <1>3 DEF Sound, Shape, PoolType
<1> HIDE DEF q
<1>5. Sound(q)
  BY <1>4, ListsSound
<1> QED
  BY <1>4, <1>5 DEF q

-----------------------------------------------------------------------------
(* The steps                                                               *)

LEMMA InitIInv == Init => IInv
<1> SUFFICES ASSUME Init PROVE IInv
  OBVIOUS
<1>2. Sound(pool)
  BY FreshSound DEF Init
<1>3. pool \in PoolType
  BY <1>2 DEF Sound, Shape
<1> QED
  BY <1>2, <1>3 DEF Init, IInv, TypeOK

LEMMA NextIInv == IInv /\ [Next]_vars => IInv'
<1> SUFFICES ASSUME IInv, [Next]_vars PROVE IInv'
  OBVIOUS
<1>0. /\ Sound(pool) /\ TypeOK
      /\ pool.heap \in SUBSET HeapAddrs /\ pool.cleanup \in Seq(Records)
  BY Fields DEF IInv, Sound
<1>s. Sound(pool') => pool' \in PoolType
  BY DEF Sound, Shape
<1>1. CASE nc_pool_create
  <2>1. Sound(pool')
    BY <1>0, <1>1, FreshSound DEF nc_pool_create
  <2> QED
    BY <1>0, <1>1, <1>s, <2>1 DEF nc_pool_create, IInv, TypeOK, Sound, Shape
<1>2. ASSUME NEW size \in Nat,
             Take(nc_palloc(pool, size) \cup nc_pnalloc(pool, size))
      PROVE  IInv'
  <2>1. PICK o \in nc_palloc(pool, size) \cup nc_pnalloc(pool, size) :
          pool' = o.pool /\ held' = held \cup ({o.ptr} \ {NULL})
    BY <1>2 DEF Take
  <2>2. Returned(pool, o)
    BY <1>0, <2>1, PallocSound
  <2> QED
    BY <1>0, <1>2, <1>s, <2>1, <2>2 DEF Take, Returned, IInv, TypeOK
<1>3. ASSUME NEW a, Pfree(a) PROVE IInv'
  <2>1. Sound(pool') /\ pool'.cleanup = pool.cleanup
    BY <1>0, <1>3, PfreeSound DEF Pfree
  <2> QED
    BY <1>0, <1>3, <1>s, <2>1 DEF Pfree, IInv, TypeOK
<1>4. ASSUME NEW size \in Nat, CleanupAdd(size) PROVE IInv'
  <2>1. PICK o \in nc_pool_cleanup_add(pool, size) :
          /\ pool' = o.pool
          /\ held' = IF o.ptr = NULL THEN held
                     ELSE held \cup ({o.ptr, o.pool.cleanup[1].data} \ {NULL})
    BY <1>4 DEF CleanupAdd
  <2>2. Linked(pool, o) \/ (Returned(pool, o) /\ o.ptr = NULL)
    BY <1>0, <2>1, CleanupAddSound
  <2>3. Sound(o.pool) /\ o.pool.cleanup \in Seq(Records)
    BY <2>2, Fields DEF Linked, Returned, Sound
  <2>4. Linked(pool, o) => o.pool.cleanup[1] \in Records
    BY <1>0, <2>3 DEF Linked
  <2>5. held' \subseteq Pointers
    BY <1>0, <2>1, <2>2, <2>4 DEF Linked, Returned, TypeOK, Records
  <2>6. Len(pool.cleanup) <= Len(pool'.cleanup)
    BY <1>0, <2>1, <2>2 DEF Linked, Returned
  <2> QED
    BY <1>0, <1>4, <1>s, <2>1, <2>3, <2>5, <2>6 DEF CleanupAdd, IInv, TypeOK
<1>5. ASSUME NEW i \in DOMAIN pool.cleanup, SetHandler(i) PROVE IInv'
  <2>1. Sound(pool')
    BY <1>0, <1>5, SetHandlerSound DEF SetHandler
  <2> QED
    BY <1>0, <1>5, <1>s, <2>1 DEF SetHandler, IInv, TypeOK
<1>6. CASE Reset
  <2>1. Sound(pool')
    BY <1>0, <1>6, ResetSound DEF Reset
  <2> QED
    BY <1>0, <1>6, <1>s, <2>1 DEF Reset, IInv, TypeOK
<1>7. CASE Destroy
  <2>1. \A i \in DOMAIN pool.cleanup : pool.cleanup[i] \in Records
    BY <1>0
  <2>2. due' \subseteq Pointers
    BY <1>7, <2>1 DEF Destroy, Records
  <2>3. Len(pool.cleanup) \in Nat
    BY <1>0
  <2> QED
    BY <1>0, <1>7, <2>2, <2>3 DEF Destroy, IInv, TypeOK
<1>8. CASE RunHandler
  <2>1. Cursor \in Records
    BY <1>0, <1>8 DEF RunHandler, Cursor, IInv, TypeOK
  <2>2. ran' \subseteq Pointers
    BY <1>0, <1>8, <2>1 DEF RunHandler, TypeOK, Records
  <2> QED
    BY <1>0, <1>8, <2>2 DEF RunHandler, IInv, TypeOK
<1>9. CASE HandlerReturn \/ SkipRecord
  <2>1. todo \in Nat /\ todo > 0 /\ todo' = todo - 1 /\ phase \in {"walk", "handler"}
    BY <1>0, <1>9 DEF HandlerReturn, SkipRecord, IInv, TypeOK
  <2>2. todo' \in Nat /\ todo' <= Len(pool.cleanup)
    BY <1>0, <2>1 DEF IInv
  <2> QED
    BY <1>0, <1>9, <2>2 DEF HandlerReturn, SkipRecord, IInv, TypeOK
<1>10. CASE FreeAll
  <2>1. Sound(pool')
    BY <1>0, <1>10, FreshSound DEF FreeAll
  <2> QED
    BY <1>0, <1>10, <1>s, <2>1 DEF FreeAll, IInv, TypeOK
<1>11. CASE UNCHANGED vars
  BY <1>0, <1>11 DEF vars, IInv, TypeOK
<1>12. ASSUME NEW size \in Sizes, Palloc(size) \/ Pnalloc(size) \/ Pcalloc(size)
       PROVE  IInv'
  <2>1. size \in Nat
    BY PoolAssumption
  <2>2. Take(nc_palloc(pool, size) \cup nc_pnalloc(pool, size))
    BY <1>12 DEF Palloc, Pnalloc, Pcalloc, nc_pcalloc, Take
  <2> QED
    BY <1>2, <2>1, <2>2
<1>13. ASSUME NEW size \in Sizes \cup {0}, CleanupAdd(size)
       PROVE  IInv'
  <2>1. size \in Nat
    BY PoolAssumption
  <2> QED
    BY <1>4, <1>13, <2>1
<1> QED
  BY <1>1, <1>3, <1>5, <1>6, <1>7, <1>8, <1>9, <1>10, <1>11, <1>12, <1>13
     DEF Next, DestroyStep

-----------------------------------------------------------------------------
(* The lists: what the heap, the nodes and the records of a pool are       *)

\* The pieces of p that are given out and not yet taken back.
Live(p) == p.used \cup p.heap

\* What SkippedExhausted says, with what makes it inductive: no block from
\* current on has failed often enough to be passed.
Chain(p) ==
  /\ \A i \in Blocks(p) : i < p.current => p.failed[i] > 5
  /\ \A i \in Blocks(p) : i >= p.current => p.failed[i] <= 5
  /\ \A i \in Blocks(p) : i > 1 => p.failed[i] <= p.failed[i - 1]

HeapListed(p) ==
  /\ p.heap = LargeAddrs(p)
  /\ \A i, j \in DOMAIN p.large :
       p.large[i].alloc # NULL /\ p.large[i].alloc = p.large[j].alloc => i = j

NodesKept(p) == \A i \in DOMAIN p.large : p.large[i].node \in p.used

Tidy(p) == Chain(p) /\ HeapListed(p) /\ NodesKept(p)

RecordsKept(p) ==
  \A i \in DOMAIN p.cleanup :
    {p.cleanup[i].rec, p.cleanup[i].data} \subseteq Live(p) \cup {NULL}

RecordsApart(p) ==
  \A i, j \in DOMAIN p.cleanup :
    i # j => p.cleanup[i].rec \notin {p.cleanup[j].rec, p.cleanup[j].data}

\* Records are memory of their own as long as no reset takes it from them.
NoStaleRecords == Aligned /\ ~ResetWithCleanups

\* The k-th record from the end of the list: no call changes its place there.
FromEnd(p, k) == p.cleanup[Len(p.cleanup) - k + 1]

\* The walk of nc_pool_destroy: the records it ran are behind its cursor, and
\* those it owes are run or ahead of it.
Walk ==
  phase \in {"walk", "handler"} =>
    /\ \A x \in ran : \E k \in 1 .. Len(pool.cleanup) :
         /\ k > todo \/ (k = todo /\ phase = "handler")
         /\ x = FromEnd(pool, k).rec
    /\ \A x \in due \ ran : \E k \in 1 .. todo :
         FromEnd(pool, k).handler /\ x = FromEnd(pool, k).rec
    /\ phase = "handler" => FromEnd(pool, todo).rec \in ran

\* The inductive invariant of the pool's lists and of what the client holds.
PInv ==
  /\ IInv
  /\ Tidy(pool)
  /\ held \subseteq Live(pool)
  /\ phase = "none" => pool = FreshPool({}) /\ held = {}
  /\ NoStaleRecords => RecordsKept(pool) /\ RecordsApart(pool) /\ Walk

-----------------------------------------------------------------------------
(* The chain of blocks                                                     *)

LEMMA SameChain ==
  ASSUME NEW p, NEW q, Chain(p), Len(q.last) = Len(p.last),
         q.failed = p.failed, q.current = p.current
  PROVE  Chain(q)
BY DEF Chain, Blocks

LEMMA CountFailureAt ==
  ASSUME NEW p, Shape(p), NEW i \in Blocks(p)
  PROVE  CountFailure(p)[i] =
           IF p.current <= i /\ i < Len(p.last) THEN p.failed[i] + 1 ELSE p.failed[i]
<1>1. p.current \in Nat /\ Len(p.last) \in Nat /\ i \in Nat
  BY Fields DEF Blocks
<1> QED
  BY <1>1 DEF CountFailure

LEMMA Falling ==
  ASSUME NEW n \in Nat, NEW f, \A i \in 1 .. n : f[i] \in Nat,
         \A i \in 1 .. n : i > 1 => f[i] <= f[i - 1],
         NEW i \in 1 .. n, NEW j \in i .. n
  PROVE  f[j] <= f[i]
<1> DEFINE S == {k \in 1 .. n : f[k] <= f[i]}
<1>1. i \in S
  OBVIOUS
<1>2. ASSUME NEW k \in i .. n - 1, k \in S PROVE k + 1 \in S
  <2>1. k + 1 \in 1 .. n /\ k \in 1 .. n /\ k + 1 - 1 = k /\ k + 1 > 1
    OBVIOUS
  <2>2. f[k + 1] <= f[k]
    BY <2>1
  <2>3. f[k] <= f[i]
    BY <1>2
  <2> QED
    BY <2>1, <2>2, <2>3
<1>3. i \in Nat
  OBVIOUS
<1> HIDE DEF S
<1>4. \A k \in i .. n : k \in S
  BY <1>1, <1>2, <1>3, IntervalInduction
<1> QED
  BY <1>4 DEF S

\* Blocks fail in the order of the chain, and current stops at the first that
\* has not failed often enough.
LEMMA LinkChain ==
  ASSUME NEW p, Shape(p), Chain(p), NEW c \in Blocks(p), MoveCurrent(p, c),
         NEW size \in Nat
  PROVE  Chain(LinkBlock(p, c, size).pool)
<1> DEFINE n == Len(p.last)
           f == p.failed
           d == p.current
           g == CountFailure(p)
           q == LinkBlock(p, c, size).pool
           new == Piece(n + 1, AlignUp(DataHdr), size)
<1>1. /\ q.last = Append(p.last, new.hi) /\ q.failed = Append(g, 0) /\ q.current = c
  BY LinkFields
<1>2. p.last \in Seq(Nat) /\ g \in Seq(Nat) /\ Len(g) = n /\ n \in Nat \ {0}
  BY Fields, CountFailureType
<1>3. Len(q.last) = n + 1
  BY <1>1, <1>2
<1>4. /\ \A i \in 1 .. n : q.failed[i] = g[i]
      /\ q.failed[n + 1] = 0
  BY <1>1, <1>2, SMTT(20)
<1>5. \A i \in 1 .. n : g[i] = IF d <= i /\ i < n THEN f[i] + 1 ELSE f[i]
  BY CountFailureAt DEF Blocks
<1>6. /\ d \in 1 .. n /\ c \in d .. n
      /\ \A i \in 1 .. n : f[i] \in Nat
  BY Fields DEF MoveCurrent, Blocks
<1>7. /\ c = d \/ f[c - 1] > 4
      /\ \A i \in d .. n - 1 : i >= c => f[i] <= 4
  BY DEF MoveCurrent
<1>8. /\ \A i \in 1 .. n : i < d => f[i] > 5
      /\ \A i \in 1 .. n : i >= d => f[i] <= 5
      /\ \A i \in 1 .. n : i > 1 => f[i] <= f[i - 1]
  BY DEF Chain, Blocks
<1>9. \A i \in 1 .. n : q.failed[i] = IF d <= i /\ i < n THEN f[i] + 1 ELSE f[i]
  BY <1>4, <1>5
<1> HIDE DEF n, f, d, g, q, new
<1>10. \A i \in d .. c - 1 : f[i] > 4
  <2> SUFFICES ASSUME c # d PROVE \A i \in d .. c - 1 : f[i] > 4
    BY <1>6
  <2>1. c - 1 \in 1 .. n /\ f[c - 1] > 4 /\ d <= c - 1
    BY <1>2, <1>6, <1>7
  <2>2. ASSUME NEW i \in d .. c - 1 PROVE f[i] > 4
    <3>1. i \in 1 .. n /\ c - 1 \in i .. n
      BY <1>2, <1>6, <2>1
    <3>2. f[c - 1] <= f[i]
      BY <1>2, <1>6, <1>8, <3>1, Falling
    <3> QED
      BY <1>6, <2>1, <3>1, <3>2
  <2> QED
    BY <2>2
<1>11. ASSUME NEW i \in 1 .. n + 1, i < c PROVE q.failed[i] > 5
  <2>1. i \in 1 .. n /\ i < n
    BY <1>2, <1>6, <1>11
  <2>2. CASE i < d
    <3>1. q.failed[i] = f[i]
      BY <1>6, <1>9, <2>1, <2>2
    <3>2. f[i] > 5
      BY <1>8, <2>1, <2>2
    <3> QED
      BY <3>1, <3>2
  <2>3. CASE i >= d
    <3>1. q.failed[i] = f[i] + 1
      BY <1>6, <1>9, <2>1, <2>3
    <3>2. i \in d .. c - 1 /\ f[i] \in Nat
      BY <1>2, <1>6, <1>11, <2>1, <2>3
    <3>3. f[i] > 4
      BY <1>10, <3>2
    <3> QED
      BY <3>1, <3>2, <3>3
  <2> QED
    BY <1>6, <2>1, <2>2, <2>3
<1>12. ASSUME NEW i \in 1 .. n + 1, i >= c PROVE q.failed[i] <= 5
  <2>1. CASE i = n + 1
    BY <1>4, <2>1
  <2>2. CASE i = n
    <3>1. n \in 1 .. n /\ n >= d /\ ~(n < n)
      BY <1>2, <1>6
    <3>2. q.failed[n] = f[n]
      BY <1>9, <3>1
    <3>3. f[n] <= 5
      BY <1>8, <3>1
    <3> QED
      BY <2>2, <3>2, <3>3
  <2>3. CASE i < n
    <3>1. i \in d .. n - 1 /\ i \in 1 .. n /\ d <= i
      BY <1>2, <1>6, <1>12, <2>3
    <3>2. q.failed[i] = f[i] + 1
      BY <1>9, <2>3, <3>1
    <3>3. f[i] <= 4 /\ f[i] \in Nat
      BY <1>6, <1>7, <1>12, <3>1
    <3> QED
      BY <3>2, <3>3
  <2> QED
    BY <1>2, <2>1, <2>2, <2>3
<1>13. ASSUME NEW i \in 1 .. n + 1, i > 1 PROVE q.failed[i] <= q.failed[i - 1]
  <2>1. i - 1 \in 1 .. n
    BY <1>2, <1>13
  <2>2. q.failed[i - 1] \in Nat
    BY <1>6, <1>9, <2>1
  <2>3. CASE i = n + 1
    BY <1>4, <2>2, <2>3
  <2>4. CASE i \in 1 .. n
    <3>1. f[i] <= f[i - 1] /\ f[i] \in Nat /\ f[i - 1] \in Nat
      BY <1>6, <1>8, <1>13, <2>1, <2>4
    <3>2. CASE i = d
      <4>1. f[i] <= 5 /\ f[i - 1] > 5
        BY <1>2, <1>6, <1>8, <2>1, <2>4, <3>2
      <4> QED
        BY <1>2, <1>6, <1>9, <2>1, <2>4, <3>1, <3>2, <4>1
    <3>3. CASE i # d
      <4>1. \/ ~(d <= i /\ i < n) /\ q.failed[i] = f[i]
            \/ d <= i - 1 /\ i - 1 < n /\ q.failed[i] = f[i] + 1 /\ q.failed[i - 1] = f[i - 1] + 1
        BY <1>2, <1>6, <1>9, <2>1, <2>4, <3>3
      <4>2. q.failed[i - 1] >= f[i - 1]
        BY <1>9, <2>1, <3>1
      <4> QED
        BY <2>2, <3>1, <4>1, <4>2
    <3> QED
      BY <3>2, <3>3
  <2> QED
    BY <1>2, <2>3, <2>4
<1>14. Chain(q)
  BY <1>1, <1>3, <1>11, <1>12, <1>13 DEF Chain, Blocks
<1> QED
  BY <1>14 DEF q

\* A call that leaves the blocks alone, or uses them through nc_palloc_small.
\* Fresh memory: nothing that was given out before.
Grown(p, r) ==
  /\ Tidy(r.pool)
  /\ p.used \subseteq r.pool.used /\ p.heap \subseteq r.pool.heap
  /\ r.ptr \in Live(r.pool) \cup {NULL}

LEMMA SameLists ==
  ASSUME NEW p, NEW q, Tidy(p), Chain(q), q.large = p.large, q.heap = p.heap,
         p.used \subseteq q.used
  PROVE  Tidy(q)
BY DEF Tidy, HeapListed, NodesKept, LargeAddrs

LEMMA SmallGrown ==
  ASSUME NEW p, Sound(p), Tidy(p), NEW size \in Nat, size <= PoolSize - DataHdr,
         NEW align \in BOOLEAN, NEW r \in nc_palloc_small(p, size, align)
  PROVE  /\ Grown(p, r)
         /\ r.pool.large = p.large /\ r.pool.heap = p.heap
         /\ r.ptr \in r.pool.used \cup {NULL}
<1>0. Shape(p) /\ Chain(p)
  BY DEF Sound, Tidy
<1>1. CASE r = Outcome(p, NULL)
  BY <1>1 DEF Outcome, Grown
<1>2. ASSUME NEW c \in Blocks(p), MoveCurrent(p, c), r = LinkBlock(p, c, size)
      PROVE  /\ Chain(r.pool) /\ p.used \subseteq r.pool.used
             /\ r.pool.large = p.large /\ r.pool.heap = p.heap
             /\ r.ptr \in r.pool.used
  <2>1. Chain(r.pool)
    BY <1>0, <1>2, LinkChain
  <2>2. /\ r.ptr \in r.pool.used /\ p.used \subseteq r.pool.used
    BY <1>0, <1>2, LinkFields
  <2>3. r.pool.large = p.large /\ r.pool.heap = p.heap
    BY <1>0, <1>2 DEF LinkBlock, Outcome, Shape, PoolType
  <2> QED
    BY <2>1, <2>2, <2>3
<1>3. ASSUME NEW i \in Blocks(p), r = Carve(p, i, Start(p, i, align), size)
      PROVE  /\ Chain(r.pool) /\ p.used \subseteq r.pool.used
             /\ r.pool.large = p.large /\ r.pool.heap = p.heap
             /\ r.ptr \in r.pool.used
  <2> DEFINE lo == Start(p, i, align)
  <2>1. lo \in Nat
    BY StartType
  <2> HIDE DEF lo
  <2>2. /\ r.pool.last = [p.last EXCEPT ![i] = lo + size]
        /\ r.pool.failed = p.failed /\ r.pool.current = p.current
        /\ r.ptr \in r.pool.used /\ p.used \subseteq r.pool.used
    BY <1>0, <1>3, <2>1, CarveFields DEF lo
  <2>3. Len(r.pool.last) = Len(p.last)
    BY <1>0, <2>2, Fields
  <2>4. Chain(r.pool)
    BY <1>0, <2>2, <2>3, SameChain
  <2>5. r.pool.large = p.large /\ r.pool.heap = p.heap
    BY <1>0, <1>3 DEF Carve, Outcome, Shape, PoolType
  <2> QED
    BY <2>2, <2>4, <2>5
<1>4. ASSUME /\ Chain(r.pool) /\ p.used \subseteq r.pool.used
             /\ r.pool.large = p.large /\ r.pool.heap = p.heap
             /\ r.ptr \in r.pool.used
      PROVE  /\ Grown(p, r)
             /\ r.pool.large = p.large /\ r.pool.heap = p.heap
             /\ r.ptr \in r.pool.used \cup {NULL}
  BY <1>4, SameLists DEF Grown, Live
<1>5. \/ r = Outcome(p, NULL)
      \/ \E c \in Blocks(p) : MoveCurrent(p, c) /\ r = LinkBlock(p, c, size)
      \/ \E i \in Blocks(p) : r = Carve(p, i, Start(p, i, align), size)
  BY DEF nc_palloc_small, nc_palloc_block
<1>6. CASE r = Outcome(p, NULL)
  BY <1>1, <1>6 DEF Outcome
<1> QED
  BY <1>2, <1>3, <1>4, <1>5, <1>6

\* A piece of at least one byte is none that was given out before.
LEMMA SmallNew ==
  ASSUME NEW p, Good(p), NEW size \in Nat, size > 0,
         NEW align \in BOOLEAN, NEW r \in nc_palloc_small(p, size, align)
  PROVE  r.ptr \notin Live(p)
<1>0. Shape(p) /\ Sound(p)
  BY DEF Good, Sound
<1>a. p.used \subseteq Regions /\ p.heap \subseteq HeapAddrs
  BY <1>0, Fields
<1>1. CASE r = Outcome(p, NULL)
  BY <1>a, <1>1, PoolAssumption DEF Outcome, Live, Pointers
<1>2. ASSUME NEW i \in Nat, NEW lo \in Nat, r.ptr = Piece(i, lo, size),
             \A u \in p.used : u.blk = i => u.hi <= lo
      PROVE  r.ptr \notin Live(p)
  <2> DEFINE new == Piece(i, lo, size)
  <2>a. new \in Regions /\ new.blk = i /\ new.hi = lo + size
    <3>1. i \in Nat /\ lo \in Nat /\ size \in Nat
      OBVIOUS
    <3>2. Piece(i, lo, size) \in Regions
      BY <3>1, PieceType
    <3>3. Piece(i, lo, size).blk = i
      BY <3>1, PieceType
    <3>4. Piece(i, lo, size).hi = lo + size
      BY <3>1, PieceType
    <3> QED
      BY <3>2, <3>3, <3>4
  <2>b. r.ptr = new
    BY <1>2
  <2> HIDE DEF new
  <2>1. /\ r.ptr \in Regions /\ r.ptr.blk = i /\ r.ptr.hi = lo + size
    BY <2>a, <2>b
  <2>2. r.ptr \notin p.used
    BY <1>2, <2>1
  <2>3. r.ptr \notin p.heap
    BY <1>a, <2>1, PoolAssumption
  <2> QED
    BY <2>2, <2>3 DEF Live
<1>3. ASSUME NEW c \in Blocks(p), r = LinkBlock(p, c, size)
      PROVE  r.ptr \notin Live(p)
  <2>1. Len(p.last) + 1 \in Nat /\ AlignUp(DataHdr) \in Nat
    BY <1>0, Fields, AlignUpType, Bytes, SMTT(20)
  <2>2. r.ptr = Piece(Len(p.last) + 1, AlignUp(DataHdr), size)
    BY <1>0, <1>3, LinkFields
  <2>3. \A u \in p.used : u.blk # Len(p.last) + 1
    BY <1>0, Fields DEF Good, Bounded, Blocks
  <2> QED
    BY <1>2, <2>1, <2>2, <2>3
<1>4. ASSUME NEW i \in Blocks(p), r = Carve(p, i, Start(p, i, align), size)
      PROVE  r.ptr \notin Live(p)
  <2> DEFINE lo == Start(p, i, align)
  <2>1. lo \in Nat /\ p.last[i] <= lo /\ i \in Nat /\ p.last[i] \in Nat
    BY <1>0, StartType, Fields DEF Blocks
  <2> HIDE DEF lo
  <2>a. r = Carve(p, i, lo, size)
    BY <1>4 DEF lo
  <2>b. Carve(p, i, lo, size).ptr = Piece(i, lo, size)
    BY DEF Carve, Outcome
  <2>2. r.ptr = Piece(i, lo, size)
    BY <2>a, <2>b
  <2>3. \A u \in p.used : u.blk = i => u.hi <= lo
    BY <1>a, <2>1 DEF Good, Bounded, Regions
  <2> QED
    BY <1>2, <2>1, <2>2, <2>3
<1>5. \/ r = Outcome(p, NULL)
      \/ \E c \in Blocks(p) : r = LinkBlock(p, c, size)
      \/ \E i \in Blocks(p) : r = Carve(p, i, Start(p, i, align), size)
  BY DEF nc_palloc_small, nc_palloc_block
<1> QED
  BY <1>1, <1>3, <1>4, <1>5

-----------------------------------------------------------------------------
(* The list of large pieces                                                *)

\* A slot that was empty takes a piece the heap did not have out.
LEMMA FillSlotTidy ==
  ASSUME NEW p, Shape(p), Tidy(p), NEW a \in HeapAddrs \ p.heap,
         NEW i \in DOMAIN p.large, p.large[i].alloc = NULL,
         NEW q, q.last = p.last, q.failed = p.failed, q.current = p.current,
         q.used = p.used, q.heap = p.heap \cup {a},
         q.large = [p.large EXCEPT ![i].alloc = a]
  PROVE  Tidy(q)
<1>1. p.large \in Seq(Slots)
  BY Fields
<1>2. /\ q.last = p.last /\ q.failed = p.failed /\ q.current = p.current
      /\ q.used = p.used /\ q.heap = p.heap \cup {a}
      /\ q.large = [p.large EXCEPT ![i].alloc = a]
  OBVIOUS
<1>3. /\ DOMAIN q.large = DOMAIN p.large
      /\ q.large[i].alloc = a /\ q.large[i].node = p.large[i].node
      /\ \A j \in DOMAIN p.large : j # i => q.large[j] = p.large[j]
  BY <1>1, <1>2 DEF Slots
<1>4. a # NULL
  BY PoolAssumption DEF Pointers
<1>5. Chain(q)
  BY <1>2, SameChain DEF Tidy
<1>6. NodesKept(q)
  BY <1>2, <1>3 DEF Tidy, NodesKept
<1>7. LargeAddrs(q) = LargeAddrs(p) \cup {a}
  BY <1>3, <1>4 DEF LargeAddrs
<1>8. \A j \in DOMAIN p.large : p.large[j].alloc # a
  BY <1>4 DEF Tidy, HeapListed, LargeAddrs
<1>9. HeapListed(q)
  BY <1>2, <1>3, <1>7, <1>8 DEF Tidy, HeapListed
<1> QED
  BY <1>2, <1>5, <1>6, <1>9 DEF Tidy

\* A new node goes in front of the list, in memory of its own.
LEMMA LinkLargeTidy ==
  ASSUME NEW p, Shape(p), Tidy(p), NEW a \in HeapAddrs \ p.heap, NEW n \in p.used,
         NEW q, q.last = p.last, q.failed = p.failed, q.current = p.current,
         q.used = p.used, q.heap = p.heap \cup {a},
         q.large = <<[alloc |-> a, node |-> n]>> \o p.large
  PROVE  Tidy(q)
<1> DEFINE new == [alloc |-> a, node |-> n]
           l == p.large
<1>1. l \in Seq(Slots)
  BY Fields
<1>2. /\ q.last = p.last /\ q.failed = p.failed /\ q.current = p.current
      /\ q.used = p.used /\ q.heap = p.heap \cup {a}
      /\ q.large = <<new>> \o l
  OBVIOUS
<1>a. new.alloc = a /\ new.node = n
  OBVIOUS
<1> HIDE DEF new
<1>b. <<new>> \in Seq({new}) /\ Len(<<new>>) = 1 /\ <<new>>[1] = new
  OBVIOUS
<1>3. /\ DOMAIN q.large = 1 .. Len(l) + 1 /\ DOMAIN l = 1 .. Len(l) /\ Len(l) \in Nat
      /\ q.large[1] = new
      /\ \A j \in 2 .. Len(l) + 1 : q.large[j] = l[j - 1]
  BY <1>1, <1>2, <1>b
<1> HIDE DEF l
<1>c. \A j \in DOMAIN l : j + 1 \in DOMAIN q.large /\ q.large[j + 1] = l[j]
  BY <1>3
<1>d. \A j \in DOMAIN q.large : j = 1 \/ (j - 1 \in DOMAIN l /\ q.large[j] = l[j - 1])
  BY <1>3
<1>e. 1 \in DOMAIN q.large
  BY <1>3
<1>4. a # NULL
  BY PoolAssumption DEF Pointers
<1>5. Chain(q)
  BY <1>2, SameChain DEF Tidy
<1>6. NodesKept(q)
  <2>1. \A j \in DOMAIN l : l[j].node \in p.used
    BY DEF Tidy, NodesKept, l
  <2> QED
    BY <1>2, <1>3, <1>a, <1>d, <2>1 DEF NodesKept
<1>f. /\ p.heap = {l[i].alloc : i \in DOMAIN l} \ {NULL}
      /\ \A i, j \in DOMAIN l : l[i].alloc # NULL /\ l[i].alloc = l[j].alloc => i = j
  BY DEF Tidy, HeapListed, LargeAddrs, l
<1>7. LargeAddrs(q) = p.heap \cup {a}
  <2>1. ASSUME NEW x \in LargeAddrs(q) PROVE x \in p.heap \cup {a}
    BY <1>3, <1>a, <1>d, <1>f DEF LargeAddrs
  <2>2. ASSUME NEW x \in p.heap PROVE x \in LargeAddrs(q)
    BY <1>c, <1>f DEF LargeAddrs
  <2>3. a \in LargeAddrs(q)
    BY <1>3, <1>4, <1>a, <1>e DEF LargeAddrs
  <2> QED
    BY <2>1, <2>2, <2>3
<1>8. \A j \in DOMAIN l : l[j].alloc # a
  BY <1>4, <1>f
<1>9. ASSUME NEW i \in DOMAIN q.large, NEW j \in DOMAIN q.large,
             q.large[i].alloc # NULL, q.large[i].alloc = q.large[j].alloc
      PROVE  i = j
  <2>1. CASE i = 1 \/ j = 1
    BY <1>3, <1>8, <1>9, <1>a, <1>d, <2>1
  <2>2. CASE i # 1 /\ j # 1
    <3>1. i - 1 \in DOMAIN l /\ j - 1 \in DOMAIN l
      BY <1>d, <2>2
    <3>2. i - 1 = j - 1
      BY <1>9, <1>d, <1>f, <2>2, <3>1
    <3>3. i \in Int /\ j \in Int
      BY <1>3
    <3> QED
      BY <3>2, <3>3
  <2> QED
    BY <2>1, <2>2
<1>10. HeapListed(q)
  BY <1>2, <1>7, <1>9 DEF HeapListed
<1> QED
  BY <1>2, <1>5, <1>6, <1>10 DEF Tidy

LEMMA LargeGrown ==
  ASSUME NEW p, Sound(p), Tidy(p), NEW size, NEW r \in nc_palloc_large(p, size)
  PROVE  Grown(p, r) /\ r.ptr \notin Live(p)
<1>0. Shape(p) /\ p.used \subseteq Regions /\ p.heap \subseteq HeapAddrs
  BY Fields DEF Sound
<1>n. \A a \in HeapAddrs \ p.heap : a \notin Live(p)
  BY <1>0, PoolAssumption DEF Live
<1>m. NULL \notin Live(p)
  BY <1>0, PoolAssumption DEF Live, Pointers
<1>1. CASE r = Outcome(p, NULL)
  BY <1>1, <1>m DEF Outcome, Grown
<1>2. ASSUME NEW a \in HeapAddrs \ p.heap, NEW i \in EmptySlots(p),
             r = Outcome([p EXCEPT !.large[i].alloc = a, !.heap = @ \cup {a}], a)
      PROVE  Grown(p, r) /\ r.ptr \notin Live(p)
  <2>1. i \in DOMAIN p.large /\ p.large[i].alloc = NULL
    BY DEF EmptySlots
  <2> DEFINE q == r.pool
  <2>2. /\ r.ptr = a
        /\ q.last = p.last /\ q.failed = p.failed /\ q.current = p.current
        /\ q.used = p.used /\ q.heap = p.heap \cup {a}
        /\ q.large = [p.large EXCEPT ![i].alloc = a]
    BY <1>0, <1>2 DEF Outcome, Shape, PoolType
  <2> HIDE DEF q
  <2>a. Tidy(q)
    BY <1>0, <2>1, <2>2, FillSlotTidy
  <2>3. Tidy(r.pool) /\ r.pool.used = p.used /\ r.pool.heap = p.heap \cup {a}
    BY <2>2, <2>a DEF q
  <2> QED
    BY <1>n, <2>2, <2>3 DEF Grown, Live
<1>3. ASSUME NEW a \in HeapAddrs \ p.heap, NEW s \in nc_palloc_small(p, LargeHdr, TRUE),
             r = LinkLarge(p, s, a)
      PROVE  Grown(p, r) /\ r.ptr \notin Live(p)
  <2>0. LargeHdr \in Nat /\ LargeHdr <= PoolSize - DataHdr
    BY Bytes
  <2>1. Grown(p, s) /\ s.pool.heap = p.heap /\ s.ptr \in s.pool.used \cup {NULL}
    BY <2>0, SmallGrown
  <2>2. Carved(p, s)
    BY <2>0, SmallSound
  <2>3. CASE s.ptr = NULL
    BY <1>3, <1>m, <2>1, <2>3 DEF LinkLarge, Outcome, Grown
  <2>4. CASE s.ptr # NULL
    <3>1. Shape(s.pool) /\ Tidy(s.pool) /\ s.ptr \in s.pool.used
      BY <2>1, <2>2, <2>4 DEF Carved, Sound, Grown
    <3> DEFINE q == r.pool
               t == s.pool
    <3>2. /\ r.ptr = a
          /\ q.last = t.last /\ q.failed = t.failed /\ q.current = t.current
          /\ q.used = t.used /\ q.heap = t.heap \cup {a}
          /\ q.large = <<[alloc |-> a, node |-> s.ptr]>> \o t.large
      BY <1>3, <2>4, <3>1 DEF LinkLarge, Outcome, Shape, PoolType
    <3>3. /\ Tidy(r.pool) /\ r.pool.used = s.pool.used
          /\ r.pool.heap = p.heap \cup {a}
      <4>1. /\ a \in HeapAddrs \ t.heap /\ t.heap = p.heap
            /\ Shape(t) /\ Tidy(t) /\ s.ptr \in t.used
        BY <2>1, <3>1
      <4> HIDE DEF q, t
      <4>2. Tidy(q)
        BY <3>2, <4>1, LinkLargeTidy
      <4> QED
        BY <3>2, <4>1, <4>2 DEF q, t
    <3> QED
      BY <1>n, <2>1, <3>2, <3>3 DEF Grown, Live
  <2> QED
    BY <2>3, <2>4
<1>4. \/ r = Outcome(p, NULL)
      \/ \E a \in HeapAddrs \ p.heap, i \in EmptySlots(p) :
           r = Outcome([p EXCEPT !.large[i].alloc = a, !.heap = @ \cup {a}], a)
      \/ \E a \in HeapAddrs \ p.heap, s \in nc_palloc_small(p, LargeHdr, TRUE) :
           r = LinkLarge(p, s, a)
  BY DEF nc_palloc_large
<1> QED
  BY <1>1, <1>2, <1>3, <1>4

\* nc_palloc and nc_pnalloc keep the pool's lists, and what they return is
\* live; a piece of at least one byte is new.
LEMMA PallocGrown ==
  ASSUME NEW p, Sound(p), Tidy(p), NEW size \in Nat,
         NEW r \in nc_palloc(p, size) \cup nc_pnalloc(p, size)
  PROVE  Grown(p, r) /\ (Aligned /\ size > 0 => r.ptr \notin Live(p))
<1>1. ASSUME NEW align \in BOOLEAN, size <= max, r \in nc_palloc_small(p, size, align)
      PROVE  Grown(p, r) /\ (Aligned /\ size > 0 => r.ptr \notin Live(p))
  <2>1. size <= PoolSize - DataHdr
    BY <1>1, Bytes
  <2>2. Grown(p, r)
    BY <1>1, <2>1, SmallGrown
  <2>3. Aligned /\ size > 0 => r.ptr \notin Live(p)
    BY <1>1, SmallNew DEF Sound
  <2> QED
    BY <2>2, <2>3
<1>2. CASE r \in nc_palloc_large(p, size)
  BY <1>2, LargeGrown
<1>3. \/ size <= max /\ (r \in nc_palloc_small(p, size, TRUE) \/ r \in nc_palloc_small(p, size, FALSE))
      \/ r \in nc_palloc_large(p, size)
  BY DEF nc_palloc, nc_pnalloc
<1> QED
  BY <1>1, <1>2, <1>3

\* nc_pfree gives back the one piece it was asked to, or nothing.
LEMMA PfreeTidy ==
  ASSUME NEW p, Sound(p), Tidy(p), NEW a, NEW q \in nc_pfree(p, a)
  PROVE  Tidy(q) /\ q.used = p.used /\ q.heap = p.heap \ {a}
<1> DEFINE holding == {i \in DOMAIN p.large : p.large[i].alloc = a}
<1>0. Shape(p) /\ p.large \in Seq(Slots) /\ NULL \notin p.heap
  BY Fields, PoolAssumption DEF Sound, Pointers
<1>h. /\ p.heap = LargeAddrs(p)
      /\ \A i, j \in DOMAIN p.large :
           p.large[i].alloc # NULL /\ p.large[i].alloc = p.large[j].alloc => i = j
  BY DEF Tidy, HeapListed
<1>1. CASE holding = {}
  <2>1. q = p
    BY <1>1 DEF nc_pfree
  <2>2. a \notin p.heap
    BY <1>1, <1>h DEF LargeAddrs
  <2> QED
    BY <2>1, <2>2
<1>2. ASSUME NEW i \in holding, q = [p EXCEPT !.large[i].alloc = NULL, !.heap = @ \ {a}]
      PROVE  Tidy(q) /\ q.used = p.used /\ q.heap = p.heap \ {a}
  <2>1. /\ q.last = p.last /\ q.failed = p.failed /\ q.current = p.current
        /\ q.used = p.used /\ q.heap = p.heap \ {a}
        /\ q.large = [p.large EXCEPT ![i].alloc = NULL]
    BY <1>0, <1>2 DEF Shape, PoolType
  <2>2. /\ DOMAIN q.large = DOMAIN p.large /\ i \in DOMAIN p.large /\ p.large[i].alloc = a
        /\ q.large[i].alloc = NULL /\ q.large[i].node = p.large[i].node
        /\ \A j \in DOMAIN p.large : j # i => q.large[j] = p.large[j]
    BY <1>0, <2>1 DEF Slots
  <2>3. Chain(q)
    BY <2>1, SameChain DEF Tidy
  <2>4. NodesKept(q)
    BY <2>1, <2>2 DEF Tidy, NodesKept
  <2>5. \A j \in DOMAIN p.large : j # i /\ p.large[j].alloc # NULL => p.large[j].alloc # a
    BY <1>h, <2>2
  <2>6. LargeAddrs(q) = p.heap \ {a}
    BY <1>h, <2>2, <2>5 DEF LargeAddrs
  <2>7. HeapListed(q)
    BY <1>h, <2>1, <2>2, <2>6 DEF HeapListed
  <2> QED
    BY <2>1, <2>3, <2>4, <2>7 DEF Tidy
<1>3. CASE holding # {}
  <2>1. PICK i \in holding : q = [p EXCEPT !.large[i].alloc = NULL, !.heap = @ \ {a}]
    BY <1>3 DEF nc_pfree
  <2> QED
    BY <1>2, <2>1
<1> QED
  BY <1>1, <1>3

LEMMA FreshTidy == Tidy(FreshPool({}))
<1> DEFINE q == FreshPool({})
<1>1. /\ q.last = <<PoolHdr>> /\ q.failed = <<0>> /\ q.current = 1
      /\ q.large = <<>> /\ q.heap = {}
  BY DEF FreshPool
<1> HIDE DEF q
<1>2. Blocks(q) = {1} /\ DOMAIN q.large = {}
  BY <1>1 DEF Blocks
<1>3. Chain(q)
  BY <1>1, <1>2 DEF Chain
<1>4. HeapListed(q) /\ NodesKept(q)
  BY <1>1, <1>2 DEF HeapListed, NodesKept, LargeAddrs
<1> QED
  BY <1>3, <1>4 DEF Tidy, q

LEMMA ResetTidy ==
  ASSUME NEW p, Sound(p), Tidy(p)
  PROVE  Tidy(nc_pool_reset(p))
<1> DEFINE q == nc_pool_reset(p)
           n == Len(p.last)
<1>1. n \in Nat \ {0} /\ Blocks(p) = 1 .. n /\ p.heap = LargeAddrs(p)
  BY Fields DEF Sound, Blocks, Tidy, HeapListed
<1>2. /\ q.last = [i \in 1 .. n |-> PoolHdr] /\ q.failed = [i \in 1 .. n |-> 0]
      /\ q.current = 1 /\ q.large = <<>> /\ q.heap = {}
  BY <1>1 DEF nc_pool_reset, Sound, Shape, PoolType
<1> HIDE DEF q, n
<1>3. Blocks(q) = 1 .. n /\ DOMAIN q.large = {}
  BY <1>1, <1>2 DEF Blocks
<1>4. Chain(q)
  BY <1>1, <1>2, <1>3 DEF Chain
<1>5. HeapListed(q) /\ NodesKept(q)
  BY <1>2, <1>3 DEF HeapListed, NodesKept, LargeAddrs
<1> QED
  BY <1>4, <1>5 DEF Tidy, q

LEMMA SetHandlerFields ==
  ASSUME NEW p, Shape(p), Tidy(p), NEW i \in DOMAIN p.cleanup,
         NEW q, q = [p EXCEPT !.cleanup[i].handler = TRUE]
  PROVE  /\ Tidy(q) /\ q.used = p.used /\ q.heap = p.heap
         /\ DOMAIN q.cleanup = DOMAIN p.cleanup /\ Len(q.cleanup) = Len(p.cleanup)
         /\ \A j \in DOMAIN p.cleanup :
              /\ q.cleanup[j].rec = p.cleanup[j].rec
              /\ q.cleanup[j].data = p.cleanup[j].data
              /\ p.cleanup[j].handler => q.cleanup[j].handler
<1>1. p.cleanup \in Seq(Records)
  BY Fields
<1>2. /\ q.last = p.last /\ q.failed = p.failed /\ q.current = p.current
      /\ q.used = p.used /\ q.heap = p.heap /\ q.large = p.large
      /\ q.cleanup = [p.cleanup EXCEPT ![i].handler = TRUE]
  BY DEF Shape, PoolType
<1>3. Chain(q)
  BY <1>2, SameChain DEF Tidy
<1>4. Tidy(q)
  BY <1>2, <1>3, SameLists
<1>5. p.cleanup[i] \in Records
  BY <1>1
<1>6. /\ DOMAIN q.cleanup = DOMAIN p.cleanup /\ Len(q.cleanup) = Len(p.cleanup)
      /\ \A j \in DOMAIN p.cleanup : j # i => q.cleanup[j] = p.cleanup[j]
      /\ q.cleanup[i] = [p.cleanup[i] EXCEPT !.handler = TRUE]
  BY <1>1, <1>2
<1>7. /\ q.cleanup[i].rec = p.cleanup[i].rec /\ q.cleanup[i].data = p.cleanup[i].data
      /\ q.cleanup[i].handler
  BY <1>5, <1>6 DEF Records
<1> QED
  BY <1>2, <1>4, <1>6, <1>7

-----------------------------------------------------------------------------
(* The records of the pool                                                 *)

LEMMA SameRecords ==
  ASSUME NEW p, NEW q, q.cleanup = p.cleanup,
         RecordsKept(p), RecordsApart(p), Live(p) \subseteq Live(q)
  PROVE  RecordsKept(q) /\ RecordsApart(q)
BY DEF RecordsKept, RecordsApart

\* A record of memory that was not live is put in front of the others.
LEMMA NewRecord ==
  ASSUME NEW p, Shape(p), RecordsKept(p), RecordsApart(p),
         NEW q, Live(p) \subseteq Live(q), NEW rec, NEW data,
         rec \in Live(q) \ Live(p), rec # NULL, data \in (Live(q) \ Live(p)) \cup {NULL},
         q.cleanup = <<[rec |-> rec, data |-> data, handler |-> FALSE]>> \o p.cleanup
  PROVE  RecordsKept(q) /\ RecordsApart(q)
<1> DEFINE new == [rec |-> rec, data |-> data, handler |-> FALSE]
           l == p.cleanup
           n == Len(l)
<1>1. l \in Seq(Records) /\ q.cleanup = <<new>> \o l
  BY Fields
<1>2. new.rec = rec /\ new.data = data
  OBVIOUS
<1> HIDE DEF new
<1>b. <<new>> \in Seq({new}) /\ Len(<<new>>) = 1 /\ <<new>>[1] = new
  OBVIOUS
<1>3. /\ DOMAIN q.cleanup = 1 .. n + 1 /\ DOMAIN l = 1 .. n /\ n \in Nat
      /\ q.cleanup[1] = new
      /\ \A j \in 2 .. n + 1 : q.cleanup[j] = l[j - 1]
  BY <1>1, <1>b
<1>4. \A j \in DOMAIN l : /\ {l[j].rec, l[j].data} \subseteq Live(p) \cup {NULL}
                          /\ l[j].rec # NULL
  <2>a. \A j \in DOMAIN l : l[j] \in Records
    BY <1>1
  <2>b. \A x \in Records : x.rec \in Pointers
    BY DEF Records
  <2>1. \A j \in DOMAIN l : l[j].rec \in Pointers
    BY <2>a, <2>b
  <2> QED
    BY <2>1, PoolAssumption DEF RecordsKept
<1>5. \A i, j \in DOMAIN l : i # j => l[i].rec \notin {l[j].rec, l[j].data}
  BY DEF RecordsApart
<1> HIDE DEF l, n
<1>6. \A j \in DOMAIN q.cleanup :
        \/ j = 1 /\ q.cleanup[j] = new
        \/ j # 1 /\ j \in Int /\ j - 1 \in DOMAIN l /\ q.cleanup[j] = l[j - 1]
  <2> SUFFICES ASSUME NEW j \in DOMAIN q.cleanup, j # 1
               PROVE  j \in Int /\ j - 1 \in DOMAIN l /\ q.cleanup[j] = l[j - 1]
    BY <1>3
  <2>a. j \in 1 .. n + 1 /\ n \in Nat /\ j # 1
    BY <1>3
  <2>1. j \in 2 .. n + 1 /\ j - 1 \in 1 .. n
    BY <2>a
  <2> QED
    BY <1>3, <2>1
<1> HIDE DEF Live
<1>7. RecordsKept(q)
  BY <1>2, <1>4, <1>6 DEF RecordsKept
<1>8. ASSUME NEW i \in DOMAIN q.cleanup, NEW j \in DOMAIN q.cleanup, i # j
      PROVE  q.cleanup[i].rec \notin {q.cleanup[j].rec, q.cleanup[j].data}
  <2>1. CASE i = 1
    BY <1>2, <1>4, <1>6, <1>8, <2>1
  <2>2. CASE j = 1
    BY <1>2, <1>4, <1>6, <1>8, <2>2
  <2>3. CASE i # 1 /\ j # 1
    <3>1. /\ i - 1 \in DOMAIN l /\ q.cleanup[i] = l[i - 1]
          /\ j - 1 \in DOMAIN l /\ q.cleanup[j] = l[j - 1]
          /\ i - 1 # j - 1
      BY <1>6, <1>8, <2>3
    <3> QED
      BY <1>5, <3>1
  <2> QED
    BY <2>1, <2>2, <2>3
<1>9. RecordsApart(q)
  BY <1>8 DEF RecordsApart
<1> QED
  BY <1>7, <1>9

\* What nc_pool_cleanup_add does: the record and its data are new memory.
Added(p, r) ==
  \/ r.ptr = NULL /\ r.pool.cleanup = p.cleanup
  \/ /\ r.ptr \in Live(r.pool) /\ r.ptr # NULL
     /\ \E data \in Live(r.pool) \cup {NULL} :
          /\ r.pool.cleanup =
               <<[rec |-> r.ptr, data |-> data, handler |-> FALSE]>> \o p.cleanup
          /\ Aligned => r.ptr \notin Live(p) /\ data \notin Live(p)

LEMMA LinkCleanupAdds ==
  ASSUME NEW p, Shape(p), Tidy(p), NEW rec, NEW data
  PROVE  LET r == LinkCleanup(p, rec, data) IN
         /\ Tidy(r.pool) /\ r.pool.used = p.used /\ r.pool.heap = p.heap
         /\ r.ptr = rec
         /\ r.pool.cleanup = <<[rec |-> rec, data |-> data, handler |-> FALSE]>> \o p.cleanup
<1> DEFINE r == LinkCleanup(p, rec, data)
           q == r.pool
<1>1. /\ q.last = p.last /\ q.failed = p.failed /\ q.current = p.current
      /\ q.used = p.used /\ q.heap = p.heap /\ q.large = p.large
      /\ r.ptr = rec
      /\ q.cleanup = <<[rec |-> rec, data |-> data, handler |-> FALSE]>> \o p.cleanup
  BY DEF LinkCleanup, Outcome, Shape, PoolType
<1> HIDE DEF q
<1>2. Chain(q)
  BY <1>1, SameChain DEF Tidy
<1>3. Tidy(q)
  BY <1>1, <1>2, SameLists
<1> QED
  BY <1>1, <1>3 DEF q

LEMMA CleanupAddGrown ==
  ASSUME NEW p, Sound(p), Tidy(p), NEW size \in Nat, NEW r \in nc_pool_cleanup_add(p, size)
  PROVE  /\ Tidy(r.pool)
         /\ p.used \subseteq r.pool.used /\ p.heap \subseteq r.pool.heap
         /\ Added(p, r)
<1>1. PICK s \in nc_palloc(p, CleanupHdr) :
        r \in IF s.ptr = NULL THEN {s} ELSE AddData(s.pool, s.ptr, size)
  BY DEF nc_pool_cleanup_add
<1>2. Grown(p, s) /\ (Aligned => s.ptr \notin Live(p))
  BY <1>1, Bytes, PallocGrown, PoolAssumption
<1>3. Returned(p, s)
  BY <1>1, Bytes, PallocSound
<1>s. /\ Sound(s.pool) /\ Shape(s.pool) /\ Tidy(s.pool)
      /\ s.pool.cleanup = p.cleanup
      /\ p.used \subseteq s.pool.used /\ p.heap \subseteq s.pool.heap
      /\ s.ptr \in Live(s.pool) \cup {NULL}
  BY <1>2, <1>3 DEF Returned, Sound, Grown
<1>n. NULL \notin Live(p)
  BY Fields, PoolAssumption DEF Sound, Live, Pointers
<1>4. CASE s.ptr = NULL
  BY <1>1, <1>4, <1>s DEF Added
<1>5. CASE s.ptr # NULL /\ size = 0
  <2>1. r = LinkCleanup(s.pool, s.ptr, NULL)
    BY <1>1, <1>5 DEF AddData
  <2>2. /\ Tidy(r.pool) /\ r.pool.used = s.pool.used /\ r.pool.heap = s.pool.heap
        /\ r.ptr = s.ptr
        /\ r.pool.cleanup = <<[rec |-> s.ptr, data |-> NULL, handler |-> FALSE]>> \o s.pool.cleanup
    <3> DEFINE t == LinkCleanup(s.pool, s.ptr, NULL)
    <3>1. Shape(s.pool) /\ Tidy(s.pool)
      BY <1>s
    <3>2. /\ Tidy(t.pool) /\ t.pool.used = s.pool.used /\ t.pool.heap = s.pool.heap
          /\ t.ptr = s.ptr
          /\ t.pool.cleanup = <<[rec |-> s.ptr, data |-> NULL, handler |-> FALSE]>> \o s.pool.cleanup
      BY <3>1, LinkCleanupAdds, ZenonT(30)
    <3>3. r = t
      BY <2>1
    <3> HIDE DEF t
    <3> QED
      BY <3>2, <3>3, Zenon
  <2> QED
    BY <1>2, <1>5, <1>n, <1>s, <2>2 DEF Added, Live
<1>6. CASE s.ptr # NULL /\ size # 0
  <2>1. PICK d \in nc_palloc(s.pool, size) :
          r = IF d.ptr = NULL THEN d ELSE LinkCleanup(d.pool, s.ptr, d.ptr)
    BY <1>1, <1>6 DEF AddData
  <2>2. Grown(s.pool, d) /\ (Aligned => d.ptr \notin Live(s.pool))
    BY <1>6, <1>s, <2>1, PallocGrown
  <2>3. Returned(s.pool, d)
    BY <1>s, <2>1, PallocSound
  <2>d. /\ Shape(d.pool) /\ Tidy(d.pool) /\ d.pool.cleanup = p.cleanup
        /\ p.used \subseteq d.pool.used /\ p.heap \subseteq d.pool.heap
        /\ Live(p) \subseteq Live(s.pool) /\ Live(s.pool) \subseteq Live(d.pool)
        /\ d.ptr \in Live(d.pool) \cup {NULL}
    BY <1>s, <2>2, <2>3 DEF Returned, Sound, Grown, Live
  <2>4. CASE d.ptr = NULL
    BY <2>1, <2>4, <2>d DEF Added
  <2>5. CASE d.ptr # NULL
    <3>1. /\ Tidy(r.pool) /\ r.pool.used = d.pool.used /\ r.pool.heap = d.pool.heap
          /\ r.ptr = s.ptr
          /\ r.pool.cleanup = <<[rec |-> s.ptr, data |-> d.ptr, handler |-> FALSE]>> \o d.pool.cleanup
      <4>1. r = LinkCleanup(d.pool, s.ptr, d.ptr)
        BY <2>1, <2>5
      <4> DEFINE t == LinkCleanup(d.pool, s.ptr, d.ptr)
      <4>2. Shape(d.pool) /\ Tidy(d.pool)
        BY <2>d
      <4>3. /\ Tidy(t.pool) /\ t.pool.used = d.pool.used /\ t.pool.heap = d.pool.heap
            /\ t.ptr = s.ptr
            /\ t.pool.cleanup = <<[rec |-> s.ptr, data |-> d.ptr, handler |-> FALSE]>> \o d.pool.cleanup
        BY <4>2, LinkCleanupAdds, ZenonT(30)
      <4>4. r = t
        BY <4>1
      <4> HIDE DEF t
      <4> QED
        BY <4>3, <4>4, Zenon
    <3>2. Live(r.pool) = Live(d.pool)
      BY <3>1 DEF Live
    <3>3. r.ptr \in Live(r.pool) /\ r.ptr # NULL /\ d.ptr \in Live(r.pool) \cup {NULL}
      BY <1>6, <1>s, <2>d, <3>1, <3>2
    <3>4. Aligned => r.ptr \notin Live(p) /\ d.ptr \notin Live(p)
      BY <1>2, <2>2, <2>d, <3>1
    <3>5. Added(p, r)
      BY <2>d, <3>1, <3>3, <3>4 DEF Added
    <3> QED
      BY <2>d, <3>1, <3>5
  <2> QED
    BY <2>4, <2>5
<1> QED
  BY <1>4, <1>5, <1>6

-----------------------------------------------------------------------------
(* The walk of nc_pool_destroy                                             *)

\* A record put in front of the list moves none from its place at the end.
LEMMA FromEndKept ==
  ASSUME NEW p, NEW q, p.cleanup \in Seq(Records), NEW x,
         q.cleanup = <<x>> \o p.cleanup
  PROVE  /\ Len(q.cleanup) = Len(p.cleanup) + 1
         /\ \A k \in 1 .. Len(p.cleanup) : FromEnd(q, k) = FromEnd(p, k)
<1> DEFINE l == p.cleanup
           n == Len(l)
<1>1. <<x>> \in Seq({x}) /\ Len(<<x>>) = 1 /\ l \in Seq(Records) /\ n \in Nat
  OBVIOUS
<1>2. /\ Len(q.cleanup) = n + 1
      /\ \A j \in 2 .. n + 1 : q.cleanup[j] = l[j - 1]
  BY <1>1
<1> HIDE DEF l, n
<1>3. ASSUME NEW k \in 1 .. n PROVE q.cleanup[Len(q.cleanup) - k + 1] = l[n - k + 1]
  <2>1. n + 1 - k + 1 \in 2 .. n + 1 /\ (n + 1 - k + 1) - 1 = n - k + 1
    BY <1>1
  <2>2. q.cleanup[n + 1 - k + 1] = l[n - k + 1]
    BY <1>2, <2>1
  <2> DEFINE m == Len(q.cleanup)
  <2>3. m = n + 1
    BY <1>2
  <2> HIDE DEF m
  <2>4. m - k + 1 = n + 1 - k + 1
    BY <1>1, <2>3
  <2>5. q.cleanup[m - k + 1] = l[n - k + 1]
    BY <2>2, <2>4, Zenon
  <2> QED
    BY <2>5 DEF m
<1> QED
  BY <1>2, <1>3 DEF FromEnd, l, n

LEMMA FromEndApart ==
  ASSUME NEW p, p.cleanup \in Seq(Records), RecordsApart(p),
         NEW k \in 1 .. Len(p.cleanup), NEW m \in 1 .. Len(p.cleanup), k # m
  PROVE  FromEnd(p, k).rec # FromEnd(p, m).rec
<1> DEFINE n == Len(p.cleanup)
<1>1. n \in Nat /\ DOMAIN p.cleanup = 1 .. n
  OBVIOUS
<1>2. k \in 1 .. n /\ m \in 1 .. n
  OBVIOUS
<1> HIDE DEF n
<1>3. n - k + 1 \in 1 .. n /\ n - m + 1 \in 1 .. n /\ n - k + 1 # n - m + 1
  BY <1>1, <1>2
<1>4. p.cleanup[n - k + 1].rec # p.cleanup[n - m + 1].rec
  BY <1>1, <1>3 DEF RecordsApart
<1> QED
  BY <1>4 DEF FromEnd, n

\* A call during the walk, by a handler, leaves it where it is.
LEMMA WalkKept ==
  ASSUME IInv, Walk, UNCHANGED <<phase, todo, ran, due>>,
         Len(pool'.cleanup) \in Nat, Len(pool'.cleanup) >= Len(pool.cleanup),
         \A k \in 1 .. Len(pool.cleanup) :
           /\ FromEnd(pool', k).rec = FromEnd(pool, k).rec
           /\ FromEnd(pool, k).handler => FromEnd(pool', k).handler
  PROVE  Walk'
<1> SUFFICES ASSUME phase \in {"walk", "handler"}
             PROVE  /\ \A x \in ran : \E k \in 1 .. Len(pool'.cleanup) :
                         /\ k > todo \/ (k = todo /\ phase = "handler")
                         /\ x = FromEnd(pool', k).rec
                    /\ \A x \in due \ ran : \E k \in 1 .. todo :
                         FromEnd(pool', k).handler /\ x = FromEnd(pool', k).rec
                    /\ phase = "handler" => FromEnd(pool', todo).rec \in ran
  BY DEF Walk
<1>1. /\ todo \in Nat /\ Len(pool.cleanup) \in Nat /\ todo <= Len(pool.cleanup)
      /\ phase = "handler" => todo > 0
  BY Fields DEF IInv, TypeOK, Sound
<1>2. /\ \A x \in ran : \E k \in 1 .. Len(pool.cleanup) :
           /\ k > todo \/ (k = todo /\ phase = "handler")
           /\ x = FromEnd(pool, k).rec
      /\ \A x \in due \ ran : \E k \in 1 .. todo :
           FromEnd(pool, k).handler /\ x = FromEnd(pool, k).rec
      /\ phase = "handler" => FromEnd(pool, todo).rec \in ran
  BY DEF Walk
<1>3. 1 .. todo \subseteq 1 .. Len(pool.cleanup)
  BY <1>1
<1>4. 1 .. Len(pool.cleanup) \subseteq 1 .. Len(pool'.cleanup)
  BY <1>1
<1>5. phase = "handler" => todo \in 1 .. Len(pool.cleanup)
  BY <1>1
<1>6. ASSUME NEW x \in ran
      PROVE  \E k \in 1 .. Len(pool'.cleanup) :
               /\ k > todo \/ (k = todo /\ phase = "handler")
               /\ x = FromEnd(pool', k).rec
  BY <1>2, <1>4
<1>7. ASSUME NEW x \in due \ ran
      PROVE  \E k \in 1 .. todo :
               FromEnd(pool', k).handler /\ x = FromEnd(pool', k).rec
  BY <1>2, <1>3
<1>8. phase = "handler" => FromEnd(pool', todo).rec \in ran
  BY <1>2, <1>5
<1> QED
  BY <1>6, <1>7, <1>8

LEMMA DestroyWalk ==
  ASSUME IInv, Destroy
  PROVE  Walk'
<1> DEFINE l == pool.cleanup
           n == Len(l)
<1>1. n \in Nat /\ DOMAIN l = 1 .. n
  BY Fields DEF IInv, Sound
<1>2. /\ phase' = "walk" /\ todo' = n /\ ran' = {} /\ pool' = pool
      /\ due' = {l[i].rec : i \in {j \in DOMAIN l : l[j].handler}}
  BY DEF Destroy
<1>3. ASSUME NEW x \in due'
      PROVE  \E k \in 1 .. n : FromEnd(pool, k).handler /\ x = FromEnd(pool, k).rec
  <2>1. PICK i \in DOMAIN l : l[i].handler /\ x = l[i].rec
    BY <1>2
  <2>2. n - i + 1 \in 1 .. n /\ n - (n - i + 1) + 1 = i
    <3> HIDE DEF n
    <3> QED
      BY <1>1
  <2> QED
    BY <2>1, <2>2 DEF FromEnd
<1> QED
  BY <1>2, <1>3 DEF Walk

LEMMA RunHandlerWalk ==
  ASSUME IInv, Walk, RunHandler
  PROVE  Walk'
<1> DEFINE n == Len(pool.cleanup)
<1>1. /\ todo \in 1 .. n /\ n \in Nat /\ phase = "walk" /\ phase' = "handler"
      /\ pool' = pool /\ todo' = todo /\ due' = due
      /\ ran' = ran \cup {FromEnd(pool, todo).rec}
  BY Fields DEF IInv, TypeOK, Sound, RunHandler, Cursor, FromEnd
<1>2. /\ \A x \in ran : \E k \in 1 .. n : k > todo /\ x = FromEnd(pool, k).rec
      /\ \A x \in due \ ran : \E k \in 1 .. todo :
           FromEnd(pool, k).handler /\ x = FromEnd(pool, k).rec
  BY <1>1 DEF Walk
<1> HIDE DEF n
<1>3. ASSUME NEW x \in ran'
      PROVE  \E k \in 1 .. n : (k > todo \/ k = todo) /\ x = FromEnd(pool, k).rec
  BY <1>1, <1>2
<1>4. \A x \in due' \ ran' : \E k \in 1 .. todo :
        FromEnd(pool, k).handler /\ x = FromEnd(pool, k).rec
  BY <1>1, <1>2
<1> QED
  BY <1>1, <1>3, <1>4 DEF Walk, n

LEMMA AdvanceWalk ==
  ASSUME IInv, Walk, HandlerReturn \/ SkipRecord
  PROVE  Walk'
<1> DEFINE n == Len(pool.cleanup)
<1>1. /\ todo \in 1 .. n /\ n \in Nat /\ phase \in {"walk", "handler"} /\ phase' = "walk"
      /\ pool' = pool /\ todo' = todo - 1 /\ due' = due /\ ran' = ran
  BY Fields DEF IInv, TypeOK, Sound, HandlerReturn, SkipRecord
<1>2. /\ \A x \in ran : \E k \in 1 .. n : k >= todo /\ x = FromEnd(pool, k).rec
      /\ \A x \in due \ ran : \E k \in 1 .. todo :
           FromEnd(pool, k).handler /\ x = FromEnd(pool, k).rec
  BY <1>1 DEF Walk
<1>3. FromEnd(pool, todo).rec \in ran \/ ~FromEnd(pool, todo).handler
  BY DEF Walk, HandlerReturn, SkipRecord, Cursor, FromEnd
<1> HIDE DEF n
<1>4. ASSUME NEW x \in ran
      PROVE  \E k \in 1 .. n : k > todo - 1 /\ x = FromEnd(pool, k).rec
  BY <1>1, <1>2
<1>5. ASSUME NEW x \in due \ ran
      PROVE  \E k \in 1 .. todo - 1 :
               FromEnd(pool, k).handler /\ x = FromEnd(pool, k).rec
  <2>1. PICK k \in 1 .. todo : FromEnd(pool, k).handler /\ x = FromEnd(pool, k).rec
    BY <1>2
  <2>2. k # todo
    BY <1>3, <2>1
  <2>3. k \in 1 .. todo - 1
    BY <1>1, <2>2
  <2> QED
    BY <2>1, <2>3
<1> QED
  BY <1>1, <1>4, <1>5 DEF Walk, n

-----------------------------------------------------------------------------
(* The steps keep the lists                                                *)

LEMMA InitPInv == Init => PInv
<1> SUFFICES ASSUME Init PROVE PInv
  OBVIOUS
<1>1. IInv
  BY InitIInv
<1>2. Tidy(pool)
  BY FreshTidy DEF Init
<1>3. DOMAIN pool.cleanup = {}
  BY DEF Init, FreshPool
<1> QED
  BY <1>1, <1>2, <1>3 DEF Init, PInv, RecordsKept, RecordsApart, Walk

\* What the cases of the next lemma have in common: a call of the client.
Client(q, h) ==
  /\ Tidy(q) /\ h \subseteq Live(q)
  /\ NoStaleRecords => RecordsKept(q) /\ RecordsApart(q)

LEMMA TakePInv ==
  ASSUME PInv, NEW size \in Nat,
         NEW o \in nc_palloc(pool, size) \cup nc_pnalloc(pool, size)
  PROVE  /\ Client(o.pool, held \cup ({o.ptr} \ {NULL}))
         /\ o.pool.cleanup = pool.cleanup
<1>0. Sound(pool) /\ Tidy(pool) /\ held \subseteq Live(pool)
  BY DEF PInv, IInv
<1>1. Grown(pool, o)
  BY <1>0, PallocGrown
<1>2. Returned(pool, o)
  BY <1>0, PallocSound
<1>3. Live(pool) \subseteq Live(o.pool) /\ o.pool.cleanup = pool.cleanup
  BY <1>1, <1>2 DEF Grown, Returned, Live
<1>4. NoStaleRecords => RecordsKept(o.pool) /\ RecordsApart(o.pool)
  BY <1>3, SameRecords DEF PInv
<1> QED
  BY <1>0, <1>1, <1>3, <1>4 DEF Grown, Client

LEMMA PfreePInv ==
  ASSUME PInv, NEW a, a \notin CleanupPieces(pool), NEW q \in nc_pfree(pool, a)
  PROVE  /\ Client(q, held \ (pool.heap \ q.heap))
         /\ q.cleanup = pool.cleanup
<1>0. Sound(pool) /\ Tidy(pool) /\ held \subseteq Live(pool)
  BY DEF PInv, IInv
<1>1. Tidy(q) /\ q.used = pool.used /\ q.heap = pool.heap \ {a}
  BY <1>0, PfreeTidy
<1>2. q.cleanup = pool.cleanup
  BY <1>0, PfreeSound
<1>3. held \ (pool.heap \ q.heap) \subseteq Live(q)
  BY <1>0, <1>1 DEF Live
<1>4. ASSUME NoStaleRecords PROVE RecordsKept(q) /\ RecordsApart(q)
  <2>1. RecordsKept(pool) /\ RecordsApart(pool)
    BY <1>4 DEF PInv
  <2>2. \A i \in DOMAIN pool.cleanup : a \notin {pool.cleanup[i].rec, pool.cleanup[i].data}
    BY DEF CleanupPieces
  <2>3. RecordsKept(q)
    BY <1>1, <1>2, <2>1, <2>2 DEF RecordsKept, Live
  <2> QED
    BY <1>2, <2>1, <2>3 DEF RecordsApart
<1> QED
  BY <1>1, <1>2, <1>3, <1>4 DEF Client

LEMMA CleanupAddPInv ==
  ASSUME PInv, NEW size \in Nat, NEW o \in nc_pool_cleanup_add(pool, size),
         NEW h, h = IF o.ptr = NULL THEN held
                    ELSE held \cup ({o.ptr, o.pool.cleanup[1].data} \ {NULL})
  PROVE  /\ Client(o.pool, h)
         /\ \/ o.pool.cleanup = pool.cleanup
            \/ \E x : o.pool.cleanup = <<x>> \o pool.cleanup
<1>0. Sound(pool) /\ Shape(pool) /\ Tidy(pool) /\ held \subseteq Live(pool)
  BY DEF PInv, IInv, Sound
<1>1. /\ Tidy(o.pool) /\ Added(pool, o)
      /\ pool.used \subseteq o.pool.used /\ pool.heap \subseteq o.pool.heap
  BY <1>0, CleanupAddGrown
<1>2. Live(pool) \subseteq Live(o.pool)
  BY <1>1 DEF Live
<1>3. CASE o.ptr = NULL /\ o.pool.cleanup = pool.cleanup
  <2>1. NoStaleRecords => RecordsKept(o.pool) /\ RecordsApart(o.pool)
    BY <1>2, <1>3, SameRecords DEF PInv
  <2> QED
    BY <1>0, <1>1, <1>2, <1>3, <2>1 DEF Client
<1>4. ASSUME o.ptr \in Live(o.pool), o.ptr # NULL, NEW data \in Live(o.pool) \cup {NULL},
             o.pool.cleanup = <<[rec |-> o.ptr, data |-> data, handler |-> FALSE]>> \o pool.cleanup,
             Aligned => o.ptr \notin Live(pool) /\ data \notin Live(pool)
      PROVE  Client(o.pool, h)
  <2>1. NoStaleRecords => RecordsKept(o.pool) /\ RecordsApart(o.pool)
    <3> SUFFICES ASSUME NoStaleRecords PROVE RecordsKept(o.pool) /\ RecordsApart(o.pool)
      OBVIOUS
    <3>1. RecordsKept(pool) /\ RecordsApart(pool) /\ Aligned
      BY DEF PInv, NoStaleRecords
    <3>2. /\ o.ptr \in Live(o.pool) \ Live(pool)
          /\ data \in (Live(o.pool) \ Live(pool)) \cup {NULL}
      BY <1>4, <3>1
    <3> QED
      BY <1>0, <1>2, <1>4, <3>1, <3>2, NewRecord
  <2>2. o.pool.cleanup[1].data = data
    <3>1. pool.cleanup \in Seq(Records)
      BY <1>0, Fields
    <3> DEFINE new == [rec |-> o.ptr, data |-> data, handler |-> FALSE]
    <3>2. o.pool.cleanup = <<new>> \o pool.cleanup /\ new.data = data
      BY <1>4
    <3> HIDE DEF new
    <3>3. o.pool.cleanup[1] = new
      BY <3>1, <3>2
    <3> QED
      BY <3>2, <3>3
  <2>3. h = held \cup ({o.ptr, data} \ {NULL})
    BY <1>4, <2>2
  <2> QED
    BY <1>0, <1>1, <1>2, <1>4, <2>1, <2>3 DEF Client
<1> QED
  BY <1>1, <1>3, <1>4 DEF Added

\* The state after a client's call: records stay where they are.
LEMMA ClientStep ==
  ASSUME PInv, IInv', InClient, UNCHANGED <<phase, todo, ran, due>>,
         Client(pool', held'),
         \/ pool'.cleanup = pool.cleanup
         \/ \E x : pool'.cleanup = <<x>> \o pool.cleanup
  PROVE  PInv'
<1>1. pool.cleanup \in Seq(Records) /\ Len(pool.cleanup) \in Nat
  BY Fields DEF PInv, IInv, Sound
<1>2. /\ Len(pool'.cleanup) \in Nat /\ Len(pool'.cleanup) >= Len(pool.cleanup)
      /\ \A k \in 1 .. Len(pool.cleanup) : FromEnd(pool', k) = FromEnd(pool, k)
  <2>1. CASE pool'.cleanup = pool.cleanup
    BY <1>1, <2>1 DEF FromEnd
  <2>2. CASE \E x : pool'.cleanup = <<x>> \o pool.cleanup
    <3>1. PICK x : pool'.cleanup = <<x>> \o pool.cleanup
      BY <2>2
    <3>2. /\ Len(pool'.cleanup) = Len(pool.cleanup) + 1
          /\ \A k \in 1 .. Len(pool.cleanup) : FromEnd(pool', k) = FromEnd(pool, k)
      BY <1>1, <3>1, FromEndKept, Zenon
    <3> QED
      BY <1>1, <3>2
  <2> QED
    BY <2>1, <2>2
<1>3. phase' # "none"
  BY DEF InClient
<1>4. NoStaleRecords => Walk'
  BY <1>2, WalkKept DEF PInv
<1> QED
  BY <1>3, <1>4 DEF PInv, Client

LEMMA NextPInv == PInv /\ [Next]_vars => PInv'
<1> SUFFICES ASSUME PInv, [Next]_vars PROVE PInv'
  OBVIOUS
<1>i. IInv /\ IInv'
  BY NextIInv DEF PInv
<1>0. /\ Sound(pool) /\ Shape(pool) /\ Tidy(pool) /\ held \subseteq Live(pool)
      /\ phase = "none" => pool = FreshPool({}) /\ held = {}
      /\ NoStaleRecords => RecordsKept(pool) /\ RecordsApart(pool) /\ Walk
  BY DEF PInv, IInv, Sound
<1>r. pool.cleanup \in Seq(Records)
  BY <1>0, Fields
<1>f. \A h : FreshPool(h).cleanup = <<>>
  BY DEF FreshPool
<1>e. ASSUME pool'.cleanup = <<>> PROVE RecordsKept(pool') /\ RecordsApart(pool')
  BY <1>e DEF RecordsKept, RecordsApart
<1>1. CASE nc_pool_create
  <2>1. pool = FreshPool({}) /\ held' = {} /\ phase' = "open"
    BY <1>0, <1>1 DEF nc_pool_create
  <2>2. pool' = FreshPool({})
    <3>1. pool.heap = {}
      BY <2>1 DEF FreshPool
    <3> QED
      BY <1>1, <3>1 DEF nc_pool_create
  <2> QED
    BY <1>e, <1>f, <1>i, <2>1, <2>2, FreshTidy DEF PInv, Walk
<1>2. ASSUME NEW size \in Nat,
             Take(nc_palloc(pool, size) \cup nc_pnalloc(pool, size))
      PROVE  PInv'
  <2>1. PICK o \in nc_palloc(pool, size) \cup nc_pnalloc(pool, size) :
          pool' = o.pool /\ held' = held \cup ({o.ptr} \ {NULL})
    BY <1>2 DEF Take
  <2>2. Client(pool', held') /\ pool'.cleanup = pool.cleanup
    BY <2>1, TakePInv
  <2> QED
    BY <1>2, <1>i, <2>2, ClientStep DEF Take
<1>3. ASSUME NEW a, Pfree(a) PROVE PInv'
  <2>1. Client(pool', held') /\ pool'.cleanup = pool.cleanup
    BY <1>3, PfreePInv DEF Pfree
  <2> QED
    BY <1>3, <1>i, <2>1, ClientStep DEF Pfree
<1>4. ASSUME NEW size \in Nat, CleanupAdd(size) PROVE PInv'
  <2>1. PICK o \in nc_pool_cleanup_add(pool, size) :
          /\ pool' = o.pool
          /\ held' = IF o.ptr = NULL THEN held
                     ELSE held \cup ({o.ptr, o.pool.cleanup[1].data} \ {NULL})
    BY <1>4 DEF CleanupAdd
  <2>2. /\ Client(pool', held')
        /\ \/ pool'.cleanup = pool.cleanup
           \/ \E x : pool'.cleanup = <<x>> \o pool.cleanup
    BY <2>1, CleanupAddPInv
  <2> QED
    BY <1>4, <1>i, <2>2, ClientStep DEF CleanupAdd
<1>5. ASSUME NEW i \in DOMAIN pool.cleanup, SetHandler(i) PROVE PInv'
  <2>1. /\ Tidy(pool') /\ pool'.used = pool.used /\ pool'.heap = pool.heap
        /\ DOMAIN pool'.cleanup = DOMAIN pool.cleanup
        /\ Len(pool'.cleanup) = Len(pool.cleanup)
        /\ \A j \in DOMAIN pool.cleanup :
             /\ pool'.cleanup[j].rec = pool.cleanup[j].rec
             /\ pool'.cleanup[j].data = pool.cleanup[j].data
             /\ pool.cleanup[j].handler => pool'.cleanup[j].handler
    BY <1>0, <1>5, SetHandlerFields DEF SetHandler
  <2>2. UNCHANGED <<phase, todo, held, ran, due>> /\ phase # "none"
    BY <1>5 DEF SetHandler, InClient
  <2>3. Live(pool') = Live(pool)
    BY <2>1 DEF Live
  <2>4. NoStaleRecords => RecordsKept(pool') /\ RecordsApart(pool')
    BY <1>0, <2>1, <2>3 DEF RecordsKept, RecordsApart
  <2>5. ASSUME NEW k \in 1 .. Len(pool.cleanup)
        PROVE  /\ FromEnd(pool', k).rec = FromEnd(pool, k).rec
               /\ FromEnd(pool, k).handler => FromEnd(pool', k).handler
    <3> DEFINE n == Len(pool.cleanup)
    <3>1. n \in Nat /\ DOMAIN pool.cleanup = 1 .. n /\ k \in 1 .. n
      BY <1>r
    <3> HIDE DEF n
    <3>2. n - k + 1 \in DOMAIN pool.cleanup
      BY <3>1
    <3> QED
      BY <2>1, <3>2 DEF FromEnd, n
  <2>6. NoStaleRecords => Walk'
    BY <1>0, <1>i, <1>r, <2>1, <2>2, <2>5, WalkKept
  <2> QED
    BY <1>0, <1>i, <2>1, <2>2, <2>3, <2>4, <2>6 DEF PInv
<1>6. CASE Reset
  <2>1. Tidy(pool')
    BY <1>0, <1>6, ResetTidy DEF Reset
  <2>2. NoStaleRecords => pool'.cleanup = <<>>
    BY <1>0, <1>6 DEF Reset, nc_pool_reset, NoStaleRecords, Shape, PoolType
  <2> QED
    BY <1>6, <1>e, <1>i, <2>1, <2>2 DEF Reset, PInv, Walk
<1>7. CASE Destroy
  <2>1. Walk'
    BY <1>7, <1>i, DestroyWalk
  <2> QED
    BY <1>0, <1>7, <1>i, <2>1 DEF Destroy, PInv
<1>8. CASE RunHandler
  <2>1. NoStaleRecords => Walk'
    BY <1>0, <1>8, <1>i, RunHandlerWalk
  <2> QED
    BY <1>0, <1>8, <1>i, <2>1 DEF RunHandler, PInv
<1>9. CASE HandlerReturn \/ SkipRecord
  <2>1. NoStaleRecords => Walk'
    BY <1>0, <1>9, <1>i, AdvanceWalk
  <2>2. UNCHANGED <<pool, held>> /\ phase' = "walk"
    BY <1>9 DEF HandlerReturn, SkipRecord
  <2> QED
    BY <1>0, <1>i, <2>1, <2>2 DEF PInv
<1>10. CASE FreeAll
  <2>1. pool.heap \ LargeAddrs(pool) = {}
    BY <1>0 DEF Tidy, HeapListed
  <2>2. pool' = FreshPool({}) /\ held' = {} /\ phase' = "none"
    BY <1>10, <2>1 DEF FreeAll
  <2> QED
    BY <1>e, <1>f, <1>i, <2>2, FreshTidy DEF PInv, Walk
<1>11. CASE UNCHANGED vars
  BY <1>0, <1>11, <1>i DEF vars, PInv, Walk
<1>12. ASSUME NEW size \in Sizes, Palloc(size) \/ Pnalloc(size) \/ Pcalloc(size)
       PROVE  PInv'
  <2>1. size \in Nat
    BY PoolAssumption
  <2>2. Take(nc_palloc(pool, size) \cup nc_pnalloc(pool, size))
    BY <1>12 DEF Palloc, Pnalloc, Pcalloc, nc_pcalloc, Take
  <2> QED
    BY <1>2, <2>1, <2>2
<1>13. ASSUME NEW size \in Sizes \cup {0}, CleanupAdd(size)
       PROVE  PInv'
  <2>1. size \in Nat
    BY PoolAssumption
  <2> QED
    BY <1>4, <1>13, <2>1
<1> QED
  BY <1>1, <1>3, <1>5, <1>6, <1>7, <1>8, <1>9, <1>10, <1>11, <1>12, <1>13
     DEF Next, DestroyStep

-----------------------------------------------------------------------------
(* The pool as an arena                                                    *)

\* A step of the arena, or one that leaves it alone.
ArenaMoves ==
  \/ Promise!Next
  \/ UNCHANGED <<phase # "none", held>>

\* What is live is apart, so what a call adds to what the client holds is.
LEMMA HeldApart ==
  ASSUME NEW p, Sound(p), Aligned, NEW h, h \subseteq Live(p)
  PROVE  \A a, b \in h : a = b \/ ~Overlap(a, b)
<1>1. p.heap \subseteq HeapAddrs /\ Separate(p)
  BY Fields DEF Sound, Good
<1>2. ASSUME NEW a \in h, NEW b \in h, Overlap(a, b) PROVE a = b
  <2>1. a \in Regions /\ b \in Regions
    BY <1>2 DEF Overlap
  <2>2. a \in p.used /\ b \in p.used
    BY <1>1, <2>1, PoolAssumption DEF Live
  <2> QED
    BY <1>1, <1>2, <2>2 DEF Separate
<1> QED
  BY <1>2

LEMMA ArenaAlloc ==
  ASSUME PInv', Aligned, phase # "none", phase' = phase, held \subseteq held'
  PROVE  ArenaMoves
<1>1. held' \subseteq Pointers /\ Sound(pool') /\ held' \subseteq Live(pool')
  BY DEF PInv, IInv, TypeOK
<1>2. \A a, b \in held' : a = b \/ ~Overlap(a, b)
  BY <1>1, HeldApart
<1>3. Promise!Alloc(held' \ held)
  BY <1>1, <1>2 DEF Promise!Alloc
<1> QED
  BY <1>3 DEF ArenaMoves, Promise!Next

LEMMA PoolMoves ==
  ASSUME PInv, PInv', [Next]_vars, Aligned
  PROVE  ArenaMoves
<1>1. CASE nc_pool_create
  <2>1. Promise!Create
    BY <1>1 DEF nc_pool_create, PInv, Promise!Create
  <2> QED
    BY <2>1 DEF ArenaMoves, Promise!Next
<1>2. ASSUME NEW outcomes, Take(outcomes) PROVE ArenaMoves
  BY <1>2, ArenaAlloc DEF Take, InClient
<1>3. ASSUME NEW a, Pfree(a) PROVE ArenaMoves
  <2>0. Sound(pool) /\ Tidy(pool) /\ NULL \notin held
    BY PoolAssumption DEF PInv, IInv, TypeOK
  <2>1. /\ a \in held \cup {NULL} /\ phase # "none" /\ phase' = phase
        /\ held' = held \ (pool.heap \ pool'.heap)
    BY <1>3 DEF Pfree, InClient
  <2>2. pool'.heap = pool.heap \ {a}
    BY <1>3, <2>0, PfreeTidy DEF Pfree
  <2>3. CASE a \in held \cap pool.heap
    <3>1. held' = held \ {a}
      BY <2>1, <2>2, <2>3
    <3>2. Promise!Free(a)
      BY <2>1, <2>3, <3>1 DEF Promise!Free
    <3> QED
      BY <2>3, <3>2 DEF ArenaMoves, Promise!Next
  <2>4. CASE a \notin held \cap pool.heap
    <3>1. held' = held
      BY <2>0, <2>1, <2>2, <2>4
    <3> QED
      BY <2>1, <3>1 DEF ArenaMoves
  <2> QED
    BY <2>3, <2>4
<1>4. ASSUME NEW size, CleanupAdd(size) PROVE ArenaMoves
  <2>1. /\ phase # "none" /\ phase' = phase /\ held \subseteq held'
    BY <1>4 DEF CleanupAdd, InClient
  <2> QED
    BY <2>1, ArenaAlloc
<1>5. CASE Reset
  <2>1. Promise!Reset
    BY <1>5 DEF Reset, Promise!Reset
  <2> QED
    BY <2>1 DEF ArenaMoves, Promise!Next
<1>6. CASE FreeAll
  <2>1. Promise!Close
    BY <1>6 DEF FreeAll, Promise!Close
  <2> QED
    BY <2>1 DEF ArenaMoves, Promise!Next
<1>7. ASSUME NEW i, SetHandler(i) PROVE ArenaMoves
  BY <1>7 DEF SetHandler, ArenaMoves
<1>8. CASE Destroy \/ RunHandler \/ HandlerReturn \/ SkipRecord
  BY <1>8 DEF Destroy, RunHandler, HandlerReturn, SkipRecord, ArenaMoves
<1>9. CASE UNCHANGED vars
  BY <1>9 DEF vars, ArenaMoves
<1>10. ASSUME NEW size, Palloc(size) \/ Pnalloc(size) \/ Pcalloc(size)
       PROVE  ArenaMoves
  BY <1>2, <1>10 DEF Palloc, Pnalloc, Pcalloc
<1> QED
  BY <1>1, <1>3, <1>4, <1>5, <1>6, <1>7, <1>8, <1>9, <1>10 DEF Next, DestroyStep

-----------------------------------------------------------------------------
(* The theorems                                                            *)

\* Every reachable state of a pool is well typed, whatever its sizes are.
THEOREM PoolTypeCorrect == Spec => []TypeOK
<1>1. IInv => TypeOK
  BY DEF IInv
<1> QED
  BY <1>1, InitIInv, NextIInv, PTL DEF Spec

\* A pool whose blocks are a multiple of Align long never carves past the end
\* of a block, nor into its header (nc_palloc_small, nc_palloc_block).
THEOREM PoolInBounds ==
  ASSUME Aligned
  PROVE  Spec => []InBounds
<1>1. IInv => InBounds
  BY DEF IInv, Sound, Good, InBounds
<1> QED
  BY <1>1, InitIInv, NextIInv, PTL DEF Spec

\* Nor does it give out a byte twice between two resets.
THEOREM PoolNoOverlap ==
  ASSUME Aligned
  PROVE  Spec => []NoOverlap
<1>1. IInv => NoOverlap
  BY DEF IInv, Sound, Good, NoOverlap
<1> QED
  BY <1>1, InitIInv, NextIInv, PTL DEF Spec

\* current passes only blocks that failed more than five times, and blocks fail
\* in the order of the chain, however long it grows (nc_palloc_block).
THEOREM PoolSkippedExhausted == Spec => []SkippedExhausted
<1>1. PInv => SkippedExhausted
  BY DEF PInv, IInv, Sound, Shape, Tidy, Chain, SkippedExhausted
<1> QED
  BY <1>1, InitPInv, NextPInv, PTL DEF Spec

\* What the pool has of the heap is what its list of large pieces holds, each
\* in one node: every piece is freed, and once (nc_pfree, nc_pool_reset,
\* nc_pool_destroy).
THEOREM PoolHeapExact == Spec => []HeapExact
<1>1. PInv => HeapExact
  BY DEF PInv, Tidy, HeapListed, HeapExact
<1> QED
  BY <1>1, InitPInv, NextPInv, PTL DEF Spec

\* The nodes and the records of a pool keep the memory they are in, for a
\* client that does not reset a pool with records (nc_pool_cleanup_add).
THEOREM PoolMetadataIntact ==
  ASSUME Aligned, ResetWithCleanups = FALSE
  PROVE  Spec => []MetadataIntact
<1>1. NoStaleRecords
  BY DEF NoStaleRecords
<1>2. PInv => MetadataIntact
  BY <1>1 DEF PInv, Tidy, NodesKept, RecordsKept, RecordsApart, Live, MetadataIntact
<1> QED
  BY <1>2, InitPInv, NextPInv, PTL DEF Spec

\* nc_pool_destroy runs a handler at most once, and frees the pool only after
\* every handler that was set when it began.
THEOREM PoolCleanupsRunOnce ==
  ASSUME Aligned, ResetWithCleanups = FALSE
  PROVE  Spec => CleanupsRunOnce
<1>1. ASSUME PInv
      PROVE  /\ RunHandler => Cursor.rec \notin ran
             /\ FreeAll => due \subseteq ran
  <2>0. /\ Walk /\ RecordsApart(pool) /\ pool.cleanup \in Seq(Records)
        /\ todo \in Nat /\ Len(pool.cleanup) \in Nat
        /\ phase = "walk" => todo <= Len(pool.cleanup)
    BY <1>1, Fields DEF PInv, NoStaleRecords, IInv, TypeOK, Sound
  <2>1. ASSUME RunHandler, Cursor.rec \in ran PROVE FALSE
    <3>1. Cursor = FromEnd(pool, todo) /\ todo \in 1 .. Len(pool.cleanup) /\ phase = "walk"
      BY <2>0, <2>1 DEF Cursor, FromEnd, RunHandler
    <3>2. PICK k \in 1 .. Len(pool.cleanup) : k > todo /\ Cursor.rec = FromEnd(pool, k).rec
      BY <2>0, <2>1, <3>1 DEF Walk
    <3>3. k # todo
      BY <2>0, <3>2
    <3> QED
      BY <2>0, <3>1, <3>2, <3>3, FromEndApart
  <2>2. ASSUME FreeAll PROVE due \subseteq ran
    <3>1. phase = "walk" /\ 1 .. todo = {}
      BY <2>2 DEF FreeAll
    <3> QED
      BY <2>0, <3>1 DEF Walk
  <2> QED
    BY <2>1, <2>2
<1> DEFINE Once == /\ RunHandler => Cursor.rec \notin ran
                   /\ FreeAll => due \subseteq ran
<1>2. PInv => Once
  BY <1>1
<1> HIDE DEF Once
<1>3. Spec => [][Once]_vars
  BY <1>2, InitPInv, NextPInv, PTL DEF Spec
<1> QED
  BY <1>3 DEF CleanupsRunOnce, Once

\* The pool is an arena: no piece it gives out shares a byte with one the client
\* holds, whatever is allocated, freed, reset or destroyed in between.
THEOREM PoolRefinesArena ==
  ASSUME Aligned
  PROVE  Spec => RefinesArena
<1>1. Init => Promise!Init
  BY DEF Init, Promise!Init
<1>2. PInv /\ PInv' /\ [Next]_vars => [Promise!Next]_<<phase # "none", held>>
  BY PoolMoves DEF ArenaMoves
<1> QED
  BY <1>1, <1>2, InitPInv, NextPInv, PTL DEF Spec, RefinesArena, Promise!Spec
=============================================================================
