------------------------------- MODULE NcPool -------------------------------
(***************************************************************************)
(* The memory pool of nc_palloc.c: one client creates a pool, carves small *)
(* pieces out of a chain of equal blocks, gets large pieces straight from  *)
(* the heap, registers cleanup records, resets and finally destroys it.    *)
(*                                                                         *)
(* Addresses inside a block are offsets from its start (every block comes  *)
(* from malloc, so its start is aligned).  The chain of blocks is a pair   *)
(* of sequences, the first block being the pool itself; the two linked     *)
(* lists of the pool are sequences, head first.                            *)
(*                                                                         *)
(* A function of the code that may fail, or that calls one, is an operator *)
(* giving the SET of its outcomes [pool, ptr]; an action takes one of them.*)
(***************************************************************************)
EXTENDS Integers, Sequences, FiniteSets

CONSTANTS
  PoolSize,      \* bytes of every block, the argument of nc_pool_create
  PoolHdr,       \* sizeof(struct nc_pool)
  DataHdr,       \* sizeof(struct nc_pool_data)
  LargeHdr,      \* sizeof(struct nc_pool_large)
  CleanupHdr,    \* sizeof(struct nc_pool_cleanup)
  Align,         \* NC_ALIGNMENT
  MaxFromPool,   \* NC_MAX_ALLOC_FROM_POOL
  Sizes,         \* the sizes the client asks for
  HeapAddrs,     \* addresses malloc may return for a large piece
  NULL,
  MaxBlocks,     \* bound: malloc fails for any further block
  MaxCleanupBlocks,  \* bound: the same, while cleanup records are registered
  MaxCleanups,   \* bound: the client registers no further cleanup record
  ResetWithCleanups  \* may the client reset while cleanups are registered?

Regions == [blk : Nat, lo : Nat, hi : Nat]
Pointers == Regions \cup HeapAddrs

ASSUME PoolAssumption ==
  /\ {PoolSize, PoolHdr, DataHdr, LargeHdr, CleanupHdr} \subseteq Nat
  /\ Align \in Nat \ {0}
  /\ MaxFromPool \in Nat
  /\ PoolHdr <= PoolSize
  /\ DataHdr % Align = 0
  /\ PoolHdr % Align = 0
  /\ DataHdr + LargeHdr <= PoolHdr
  /\ CleanupHdr > 0
  /\ Sizes \subseteq Nat
  /\ NULL \notin Pointers
  /\ HeapAddrs \cap Regions = {}
  /\ {MaxBlocks, MaxCleanupBlocks, MaxCleanups} \subseteq Nat
  /\ ResetWithCleanups \in BOOLEAN

VARIABLES
  pool,    \* the pool: its blocks, lists, and the memory it has handed out
  phase,   \* where the client's call sequence is
  todo,    \* nc_pool_destroy: cleanup records the loop has still to visit
  held,    \* history: the pieces the client was given and may still use
  ran,     \* history: the records whose handler this destroy has run
  due      \* history: the records that had a handler when it began

vars == <<pool, phase, todo, held, ran, due>>

-----------------------------------------------------------------------------
(* Helpers                                                                 *)

\* NC_ALIGN_PTR(m, NC_ALIGNMENT): m rounded up.
AlignUp(m) == IF m % Align = 0 THEN m ELSE m + (Align - (m % Align))

\* pool->max, set once by nc_pool_create.
max == IF PoolSize - PoolHdr < MaxFromPool THEN PoolSize - PoolHdr ELSE MaxFromPool

Blocks(p) == 1 .. Len(p.last)
LargeAddrs(p) == {p.large[i].alloc : i \in DOMAIN p.large} \ {NULL}
Outcome(p, ptr) == [pool |-> p, ptr |-> ptr]

\* The state in which nc_pool_create leaves the pool, given what is live in
\* the heap.
FreshPool(live) ==
  [last |-> <<PoolHdr>>, failed |-> <<0>>, current |-> 1,
   large |-> <<>>, cleanup |-> <<>>, used |-> {}, heap |-> live]

-----------------------------------------------------------------------------
(* Small pieces                                                            *)

\* Where nc_palloc_small would put a piece in block i.
Start(p, i, align) == IF align THEN AlignUp(p.last[i]) ELSE p.last[i]

\* Mutant: the room is measured before m is aligned.
HasRoom_before_alignment(p, i, size, align) == PoolSize - p.last[i] >= size

\* (size_t)(p->d.end - m) >= size: the cast makes a negative room huge.
HasRoom(p, i, size, align) ==
  LET room == PoolSize - Start(p, i, align) IN room < 0 \/ room >= size

Piece(i, lo, size) == [blk |-> i, lo |-> lo, hi |-> lo + size]

\* Mutant: d.last is advanced by size alone, not to m + size.
Carve_without_padding(p, i, lo, size) ==
  Outcome([p EXCEPT !.last[i] = @ + size, !.used = @ \cup {Piece(i, lo, size)}],
          Piece(i, lo, size))

Carve(p, i, lo, size) ==
  Outcome([p EXCEPT !.last[i] = lo + size, !.used = @ \cup {Piece(i, lo, size)}],
          Piece(i, lo, size))

\* Mutant: failed++ > 3.
MoveCurrent_too_early(p, c) ==
  /\ c \in p.current .. Len(p.last)
  /\ c = p.current \/ p.failed[c - 1] > 3
  /\ \A i \in p.current .. Len(p.last) - 1 : i >= c => p.failed[i] <= 3

\* The loop over the chain before a block is linked: every block from current
\* on, except the last, has failed once more; current moves past the last one
\* of them that had failed more than four times before.
MoveCurrent(p, c) ==
  LET passed == p.current .. Len(p.last) - 1
  IN  /\ c \in p.current .. Len(p.last)
      /\ c = p.current \/ p.failed[c - 1] > 4
      /\ \A i \in passed : i >= c => p.failed[i] <= 4

CountFailure(p) ==
  [i \in Blocks(p) |-> IF i \in p.current .. Len(p.last) - 1
                         THEN p.failed[i] + 1 ELSE p.failed[i]]

\* Mutant: d.last of the new block is left at m.
LinkBlock_last_at_start(p, c, size) ==
  LET piece == Piece(Len(p.last) + 1, AlignUp(DataHdr), size)
  IN  Outcome([p EXCEPT !.last = Append(@, piece.lo),
                        !.failed = Append(CountFailure(p), 0),
                        !.current = c,
                        !.used = @ \cup {piece}], piece)

\* The chain once a block is linked at its end, with c the new current.
LinkBlock(p, c, size) ==
  LET piece == Piece(Len(p.last) + 1, AlignUp(DataHdr), size)
  IN  Outcome([p EXCEPT !.last = Append(@, piece.hi),
                        !.failed = Append(CountFailure(p), 0),
                        !.current = c,
                        !.used = @ \cup {piece}], piece)

\* Bounds: malloc may always fail, and does fail beyond these.
MayGrow(p) ==
  /\ Len(p.last) < MaxBlocks
  /\ p.cleanup = <<>> \/ Len(p.last) < MaxCleanupBlocks

nc_palloc_block(p, size) ==
  {Outcome(p, NULL)}
    \cup {LinkBlock(p, c, size) :
            c \in {d \in Blocks(p) : MayGrow(p) /\ MoveCurrent(p, d)}}

nc_palloc_small(p, size, align) ==
  LET room == {i \in Blocks(p) : i >= p.current /\ HasRoom(p, i, size, align)}
      first == {i \in room : \A j \in room : i <= j}
  IN  IF room = {} THEN nc_palloc_block(p, size)
      ELSE {Carve(p, i, Start(p, i, align), size) : i \in first}

-----------------------------------------------------------------------------
(* Large pieces                                                            *)

\* n++ > 3 ends the search for an empty slot after the fifth node.
EmptySlots(p) ==
  LET empty == {i \in DOMAIN p.large : i <= 5 /\ p.large[i].alloc = NULL}
  IN  {i \in empty : \A j \in empty : i <= j}

LinkLarge(p, r, a) ==
  IF r.ptr = NULL THEN Outcome(r.pool, NULL)
  ELSE Outcome([r.pool EXCEPT !.large = <<[alloc |-> a, node |-> r.ptr]>> \o @,
                              !.heap = @ \cup {a}], a)

nc_palloc_large(p, size) ==
  {Outcome(p, NULL)} \cup UNION
    {IF EmptySlots(p) # {}
       THEN {Outcome([p EXCEPT !.large[i].alloc = a, !.heap = @ \cup {a}], a) :
               i \in EmptySlots(p)}
       ELSE {LinkLarge(p, r, a) : r \in nc_palloc_small(p, LargeHdr, TRUE)}
     : a \in HeapAddrs \ p.heap}

nc_palloc(p, size) ==
  IF size <= max THEN nc_palloc_small(p, size, TRUE) ELSE nc_palloc_large(p, size)

nc_pnalloc(p, size) ==
  IF size <= max THEN nc_palloc_small(p, size, FALSE) ELSE nc_palloc_large(p, size)

\* The memset touches only the piece nc_palloc returned.
nc_pcalloc(p, size) == nc_palloc(p, size)

\* Mutant: the slot keeps the freed pointer.
nc_pfree_leaves_slot(p, a) ==
  {IF a \in LargeAddrs(p) THEN [p EXCEPT !.heap = @ \ {a}] ELSE p}

\* The first node holding a is emptied.
nc_pfree(p, a) ==
  LET holding == {i \in DOMAIN p.large : p.large[i].alloc = a}
  IN  IF holding = {} THEN {p}
      ELSE {[p EXCEPT !.large[i].alloc = NULL, !.heap = @ \ {a}] :
              i \in {j \in holding : \A k \in holding : j <= k}}

-----------------------------------------------------------------------------
(* Cleanup records, reset                                                  *)

LinkCleanup(p, rec, data) ==
  Outcome([p EXCEPT !.cleanup =
             <<[rec |-> rec, data |-> data, handler |-> FALSE]>> \o @], rec)

\* The record is linked only when its data, if any was asked for, could be
\* allocated; otherwise its memory stays in use and nothing points to it.
AddData(p, rec, size) ==
  IF size = 0 THEN {LinkCleanup(p, rec, NULL)}
  ELSE {IF d.ptr = NULL THEN d ELSE LinkCleanup(d.pool, rec, d.ptr)
        : d \in nc_palloc(p, size)}

\* Mutant: the record is filled without the NULL check.
nc_pool_cleanup_add_unchecked(p, size) ==
  UNION {AddData(r.pool, r.ptr, size) : r \in nc_palloc(p, CleanupHdr)}

nc_pool_cleanup_add(p, size) ==
  UNION {IF r.ptr = NULL THEN {r} ELSE AddData(r.pool, r.ptr, size)
         : r \in nc_palloc(p, CleanupHdr)}

\* Mutant: pool->large is not cleared.
nc_pool_reset_keeps_large(p) ==
  [p EXCEPT !.last = [i \in Blocks(p) |-> PoolHdr],
            !.failed = [i \in Blocks(p) |-> 0],
            !.current = 1,
            !.heap = @ \ LargeAddrs(p),
            !.used = {}]

\* FIXME in the code: every block, not only the first, is rewound to the size
\* of the pool structure.  pool->cleanup is left alone.
nc_pool_reset(p) ==
  [p EXCEPT !.last = [i \in Blocks(p) |-> PoolHdr],
            !.failed = [i \in Blocks(p) |-> 0],
            !.current = 1,
            !.large = <<>>,
            !.heap = @ \ LargeAddrs(p),
            !.used = {}]
-----------------------------------------------------------------------------
(* The client's calls.  While a cleanup handler runs, it may call the pool *)
(* back; everything else the client does, it does between two calls.       *)

Init ==
  /\ pool = FreshPool({})
  /\ phase = "none"
  /\ todo = 0
  /\ held = {}
  /\ ran = {}
  /\ due = {}

nc_pool_create ==
  /\ phase = "none"
  /\ pool' = FreshPool(pool.heap)
  /\ phase' = "open"
  /\ UNCHANGED <<todo, held, ran, due>>

InClient == phase \in {"open", "handler"}

Take(outcomes) ==
  /\ InClient
  /\ \E o \in outcomes : /\ pool' = o.pool
                        /\ held' = held \cup ({o.ptr} \ {NULL})
  /\ UNCHANGED <<phase, todo, ran, due>>

Palloc(size) == Take(nc_palloc(pool, size))
Pnalloc(size) == Take(nc_pnalloc(pool, size))
Pcalloc(size) == Take(nc_pcalloc(pool, size))

\* What the client must not free: it belongs to a record of the pool.
CleanupPieces(p) ==
  UNION {{p.cleanup[i].rec, p.cleanup[i].data} : i \in DOMAIN p.cleanup}

Pfree(a) ==
  /\ InClient
  /\ a \in (held \cup {NULL}) \ CleanupPieces(pool)
  /\ pool' \in nc_pfree(pool, a)
  /\ held' = held \ (pool.heap \ pool'.heap)
  /\ UNCHANGED <<phase, todo, ran, due>>

CleanupAdd(size) ==
  /\ InClient
  /\ Len(pool.cleanup) < MaxCleanups
  /\ Len(pool.last) <= MaxCleanupBlocks
  /\ \E o \in nc_pool_cleanup_add(pool, size) :
       /\ o.pool.cleanup /= <<>> => Len(o.pool.last) <= MaxCleanupBlocks
       /\ pool' = o.pool
       /\ held' = IF o.ptr = NULL THEN held
                  ELSE held \cup ({o.ptr, o.pool.cleanup[1].data} \ {NULL})
  /\ UNCHANGED <<phase, todo, ran, due>>

\* The client fills the record it was given.
SetHandler(i) ==
  /\ InClient
  /\ pool' = [pool EXCEPT !.cleanup[i].handler = TRUE]
  /\ UNCHANGED <<phase, todo, held, ran, due>>

Reset ==
  /\ phase = "open"
  /\ ResetWithCleanups \/ pool.cleanup = <<>>
  /\ pool' = nc_pool_reset(pool)
  /\ held' = {}
  /\ UNCHANGED <<phase, todo, ran, due>>

-----------------------------------------------------------------------------
(* nc_pool_destroy, a step per cleanup record and one for the frees.  The  *)
(* loop follows the next pointers: a record added meanwhile is in front of *)
(* its cursor, which is the todo-th record from the end of the list.       *)

Destroy ==
  /\ phase = "open"
  /\ phase' = "walk"
  /\ todo' = Len(pool.cleanup)
  /\ ran' = {}
  /\ due' = {pool.cleanup[i].rec : i \in {j \in DOMAIN pool.cleanup : pool.cleanup[j].handler}}
  /\ UNCHANGED <<pool, held>>

Cursor == pool.cleanup[Len(pool.cleanup) - todo + 1]

RunHandler ==
  /\ phase = "walk" /\ todo > 0
  /\ Cursor.handler
  /\ phase' = "handler"
  /\ ran' = ran \cup {Cursor.rec}
  /\ UNCHANGED <<pool, todo, held, due>>

\* Mutant: the loop does not advance past the record it ran.
HandlerReturn_stays ==
  /\ phase = "handler"
  /\ phase' = "walk"
  /\ UNCHANGED <<pool, todo, held, ran, due>>

HandlerReturn ==
  /\ phase = "handler"
  /\ phase' = "walk"
  /\ todo' = todo - 1
  /\ UNCHANGED <<pool, held, ran, due>>

\* Mutant: the loop advances only past records with a handler.
SkipRecord_stays ==
  /\ phase = "walk" /\ todo > 0
  /\ ~Cursor.handler
  /\ UNCHANGED vars

SkipRecord ==
  /\ phase = "walk" /\ todo > 0
  /\ ~Cursor.handler
  /\ todo' = todo - 1
  /\ UNCHANGED <<pool, phase, held, ran, due>>

FreeAll ==
  /\ phase = "walk" /\ todo = 0
  /\ pool' = FreshPool(pool.heap \ LargeAddrs(pool))
  /\ phase' = "none"
  /\ held' = {}
  /\ UNCHANGED <<todo, ran, due>>

DestroyStep == RunHandler \/ HandlerReturn \/ SkipRecord \/ FreeAll

Next ==
  \/ nc_pool_create
  \/ \E size \in Sizes : Palloc(size) \/ Pnalloc(size) \/ Pcalloc(size)
  \/ \E a \in held \cup {NULL} : Pfree(a)
  \/ \E size \in Sizes \cup {0} : CleanupAdd(size)
  \/ \E i \in DOMAIN pool.cleanup : SetHandler(i)
  \/ Reset
  \/ Destroy
  \/ DestroyStep

Spec == Init /\ [][Next]_vars

\* nc_pool_destroy runs to its end: handlers return, nothing else runs.
FairSpec == Spec /\ WF_vars(DestroyStep)
-----------------------------------------------------------------------------
(* Properties                                                              *)

Slots == [alloc : HeapAddrs \cup {NULL}, node : Regions]
Records == [rec : Pointers, data : Pointers \cup {NULL}, handler : BOOLEAN]

PoolType ==
  [last : Seq(Nat), failed : Seq(Nat), current : Nat,
   large : Seq(Slots), cleanup : Seq(Records),
   used : SUBSET Regions, heap : SUBSET HeapAddrs]

\* The type of every variable: the fields of struct nc_pool and the history.
TypeOK ==
  /\ pool \in PoolType
  /\ phase \in {"none", "open", "walk", "handler"}
  /\ todo \in Nat
  /\ held \subseteq Pointers
  /\ ran \subseteq Pointers
  /\ due \subseteq Pointers

Floor(i) == IF i = 1 THEN PoolHdr ELSE DataHdr
Overlap(a, b) ==
  /\ a \in Regions /\ b \in Regions
  /\ a.blk = b.blk /\ a.lo < b.hi /\ b.lo < a.hi

Bounded(p) ==
  /\ \A i \in Blocks(p) : Floor(i) <= p.last[i] /\ p.last[i] <= PoolSize
  /\ \A u \in p.used : /\ u.blk \in Blocks(p)
                       /\ Floor(u.blk) <= u.lo
                       /\ u.lo <= u.hi
                       /\ u.hi <= p.last[u.blk]

\* Everything nc_palloc_small and nc_palloc_block carve lies between a block's
\* header and its d.last, and d.last never passes d.end: for a size that is a
\* multiple of NC_ALIGNMENT the aligned cursor cannot jump over d.end.
InBounds == Bounded(pool)

Separate(p) == \A u, v \in p.used : u = v \/ ~Overlap(u, v)

\* No byte of a block is given out twice between two resets, to the client, to
\* a node of pool->large or to a cleanup record, in whatever order the chain
\* grows and current moves.
NoOverlap == Separate(pool)

\* The heap pieces that are live are those the list of large pieces holds, each
\* in one node: nc_pfree, reset and destroy free every one, and once.
HeapExact ==
  /\ pool.heap = LargeAddrs(pool)
  /\ \A i, j \in DOMAIN pool.large :
       pool.large[i].alloc # NULL /\ pool.large[i].alloc = pool.large[j].alloc => i = j

\* The nodes of pool->large and the records of pool->cleanup, with their data,
\* lie in memory that is still theirs: no call gives it out again or frees it
\* while the pool's lists still reach it.
MetadataIntact ==
  /\ \A i \in DOMAIN pool.large : pool.large[i].node \in pool.used
  /\ \A i \in DOMAIN pool.cleanup :
       {pool.cleanup[i].rec, pool.cleanup[i].data} \subseteq pool.used \cup pool.heap \cup {NULL}
  /\ \A i, j \in DOMAIN pool.cleanup :
       i # j => pool.cleanup[i].rec \notin {pool.cleanup[j].rec, pool.cleanup[j].data}

\* current passes a block only when an allocation has overflowed the chain from
\* that block on more than five times: blocks fail in the order of the chain.
SkippedExhausted ==
  /\ pool.current \in Blocks(pool)
  /\ \A i \in Blocks(pool) : i < pool.current => pool.failed[i] > 5
  /\ \A i \in Blocks(pool) : i > 1 => pool.failed[i] <= pool.failed[i - 1]

\* nc_pool_destroy runs a handler at most once, and frees the pool only after
\* every handler that was set when it began, whatever the handlers registered.
CleanupsRunOnce ==
  [][/\ RunHandler => Cursor.rec \notin ran
     /\ FreeAll => due \subseteq ran]_vars

\* A destroy that began ends with the pool gone, its loops over cleanup, large
\* and d.next all finished.
DestroyCompletes == (phase = "walk") ~> (phase = "none")

\* The pool is an arena: what a client holds overlaps nothing else it holds.
Promise == INSTANCE Arena WITH
  Pieces <- Pointers, open <- phase # "none", out <- held

RefinesArena == Promise!Spec

\* nc_palloc.c:163: "Left space is enough" before the piece is carved.
LeftSpaceEnough == \A i \in Blocks(pool) : pool.last[i] <= PoolSize

\* nc_palloc.c:42: nc_pool_destroy is to "Run cleanup handlers": the records it
\* walks are the registered ones, in memory nobody else was given meanwhile.
RecordsNotReused ==
  \A i \in DOMAIN pool.cleanup, a \in held : ~(a # pool.cleanup[i].rec /\ Overlap(a, pool.cleanup[i].rec))
=============================================================================
