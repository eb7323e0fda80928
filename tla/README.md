# A TLA+ development of libnc

libnc is a small C library of building blocks: a memory pool, a hash table, a
growing array, a red-black tree, dynamic strings and intrusive queues. It is
single threaded and keeps nothing on disk, so what is hard in it is not
concurrency but *pointer structures over long call sequences*, *allocations that
fail half way*, *callbacks* and *integer boundaries*. The modules here model the
structures at the level of their pointers and offsets, TLC explores every call
sequence on small instances, and TLAPS proves what it can for all instances.

Paths below are relative to the repository's root (`src/nc_palloc.c`, ...).

## Inventory

| Component | State | Operations | What is hard | What makes it correct |
|---|---|---|---|---|
| Memory pool, `src/nc_palloc.[ch]` | chain of equal blocks (`d.last`, `d.failed`, `current`), list of large pieces, list of cleanup records | create, destroy, reset, palloc, pnalloc, pcalloc, pfree, cleanup_add | alignment at a block's end; the pool's own records live in the memory it gives out; reset with a rewound chain; handlers that call the pool while it is being destroyed; partial failure | pieces inside blocks and disjoint; every heap piece freed once; lists in memory nobody else has; each handler once |
| Hash table, `src/nc_hashtable.[ch]` | one circular list of all pairs; per bucket the first and last of its stretch; `size`; index into `primes` | create/init, destroy/deinit, set, get, del, clear, iter, iter_at, iter_next, iter_set | bucket bounds under deletion; rehash in place, out of memory in the middle of it; ownership of keys and values; iterators across changes | list and buckets agree; acts as a map; owns exactly what it holds; iterations complete |
| Array, `src/nc_array.[ch]` | buffer, `nelem`, `nalloc` (int) | create/init, destroy, push, push_n | failing realloc; int arithmetic | pushes stay in the buffer; nothing is lost |
| Red-black tree, `src/nc_rbtree.[ch]` | root, sentinel, per node child links, parent, key, colour | init, insert, delete, min | rotations and substitution; stale parent links of the root and of the sentinel; loops | balanced, sorted, stable, loops end |
| Macros and allocation, `src/nc_macros.[ch]` | none | alloc, realloc, free, alignment, assertions | `realloc` of 0, assertions that compile to nothing | modelled inside the components that use them |
| Dynamic strings, `src/nc_sds.[ch]` | header `len`, `free` (int) and the bytes; during a split or a parse an array of tokens | new, dup, free, clear, updatelen, MakeRoomFor, RemoveFreeSpace, IncrLen, growzero, cat*, cpy*, trim, range, tolower, toupper, mapchars; splitlen, splitargs, catrepr, join*, fromlonglong | reallocation and aliasing; indexes that are negative or out of range; a buffer that is guessed and doubled; scans that look ahead; failure half way through an array | the header accounts for the buffer; each call does to the bytes what its name and arguments ask for; nothing leaks; quoting and parsing are inverse |
| Intrusive queues, `src/nc_sys_queue.h` | link fields in heads and elements | SLIST, STAILQ, LIST, TAILQ, CIRCLEQ macros: init, insert, remove, concat, swap, traversals | tail pointers after the tail is removed; joining and exchanging empty queues; removal while traversing | both directions agree; each macro acts on a sequence as its name says; traversals miss nothing |
| Tests and build, `tests/`, `premake5.lua`, `build.sh` | | one test of the array, vendored test framework | | not modelled |

The components call one another very little: pool, table and array call the
allocation functions of `nc_macros.c`; the pool calls back the client's cleanup
handlers, the table the client's hash, compare and free functions, a traversal
macro the body it is written around. They share no state. The one place where two
modelled parts meet is in the strings: what is split is a string, and a token is
one again; `NcStrings` composes the two.

## Modules

| Module | Models | Abstract specification | Instance for TLC | Proofs |
|---|---|---|---|---|
| `NcPool` | the pool | `Arena` | `MCNcPool` | `NcPoolProofs` |
| `NcHashtable` | the hash table | `HashMap` | `MCNcHashtable` | `NcHashtableProofs` |
| `NcArray` | the array | `GrowList` | itself | `NcArrayProofs` |
| `NcRbtree` | the red-black tree | `SortedQueue` | `MCNcRbtree` | `NcRbtreeProofs` |
| `NcSysQueue` | the five families of queues | `Queues` | `MCNcSysQueue` | `NcSysQueueProofs` |
| `NcSds` | one dynamic string | `ByteString` | `MCNcStrings` | `NcSdsProofs` |
| `NcSdsTokens` | splitting, parsing, quoting, joining, numbers | | `MCNcStrings` | `NcStringsProofs` |
| `NcStrings` | a client of both | `ByteString` | `MCNcStrings` | `NcStringsProofs` |

`NatSets` has the facts about sets of naturals that stand in for induction and for
recursion in the proofs.

`PROJECT.json` lists for each definition the lines it stands for. Operators whose
name ends in a description (`HasRoom_before_alignment`) and whose comment says
*Mutant* are plausible mistakes in the definition that follows; putting one in
its place makes a property fail, which shows that the property depends on it.

### NcPool

A block is its `d.last` as an offset from its start and its `d.failed`; the chain
is a pair of sequences, the lists of large pieces and of cleanup records are
sequences with the head first. `used` (the pieces carved from blocks) and `heap`
(the large pieces live) say who has what memory. Each C function is an operator
that yields the set of its outcomes, one of them being failure; a client's call
is an action that takes one. `nc_pool_destroy` alone is several actions, because
cleanup handlers run in the middle of it: while one does, the client may allocate,
free and register again.

The client frees what it was given (or NULL, which matches an empty slot) but not
what belongs to a cleanup record, and calls nothing after destroy. It does not
reset a pool that has cleanups registered unless `ResetWithCleanups` says so: the
run `pool_reset_cleanup` shows what happens otherwise. Failure of
`nc_pool_create` changes nothing and is left out.

### NcHashtable

`table` holds `next` and `prev` of the head and of every pair, the pairs, and the
buckets; `list_insert`, `list_remove`, `insert_to_bucket`, rehash and deletion
are translated pointer by pointer. A rehash is its rounds (`Reinsert`), each of
which reads where to go on from the links of the list that is being rebuilt, before
it puts its pair on it; reading one round too late loses pairs, and the properties
show it. Freed pairs have their links scrubbed, so that
a step that follows one shows. `owned` is what the table has been handed and has
not freed; the client hands over only objects it owns. The outcome of a failed
rehash (the bucket array freed, `num_buckets` advanced) is a state of the model,
and a call that then indexes the array is a crash, after which nothing happens;
this is why the runs do not check deadlock. `nc_hashtable_iter_next` is called
with the iterator of a pair that is still there, as the header asks. The history
variables `seen`, `start` and `rehashed` only serve the properties on iteration.

### NcArray

`elems` is the buffer as a sequence of `nalloc` cells, NULL when there is no array;
`given` are the elements the last push returned, which the client may write. `Wrap` is what an `int` does: the
lines computing `nelem + n` and `2 * nalloc` wrap at `IntMax` as two's-complement
builds do. `Available` is the heap: sizes up to `MaxCells`, no more.

### NcRbtree

The code is written once for each side; the model takes the side as a parameter.
Insert and delete do everything up to their loop in one action, then each round
of the loop is an action. Nothing interleaves with it; the rounds are apart so
that invariants can say what holds between them and so that termination is a
property. The root's parent link is left stale by the code (a delete of the root
does not clear its child's), and so is the sentinel's; both are part of the state.
The code leaves the colour of a removed node unset ("color is left
uninitialized"); the model gives it the colour `Unset`, which no node of the tree
may have. `Mixed` and `Grown` are bounds: the client starts on the nodes of
`Mixed` and inserts and deletes them for ever, or on those of `Grown`, inserts
them and after its first delete only deletes; the variable `client` remembers
which. So one run has both small trees with every history and large trees.

### NcSysQueue

The macros of a family differ from those of another less than their number
suggests. A pointer to a link field is modelled as a *place*: a head stands for
the address of its first field, an element for the address of its next field.
`next[p]` is then `*p`, and `back` holds the second field of a head (`stqh_last`,
`tqh_last`, `cqh_last`) or of an element (`le_prev`, `tqe_prev`, `cqe_prev`);
insertion at the head and after an element are one operator. That a head and an
entry have the same layout, which `TAILQ_PREV` relies on, is what makes
`next[back[back[p]]]` mean the same for both. `TRASHIT` stores NULL, as the header
configures it; links not yet set hold `Junk`.

A behaviour picks a family and keeps it. The client puts on a queue what is on
none. A traversal is one action for its start and one per round; between two
rounds its body may do anything but take off the element the loop goes on from
(the current one in a plain loop, the precomputed one in a `_SAFE` loop) or
initialize a head, which is what queue(3) grants.

### NcSds, NcSdsTokens, NcStrings

`NcSds` has one string: `len`, `free` and the buffer behind them. Every function
is an operator that yields the set of its outcomes, NULL included; an action of
the client takes one and goes on with the new string, or with its old one on
NULL. `String` stores into the header and wraps as an int does; `Given` is the
heap, which may refuse any request and refuses those beyond `MaxBytes`. Memory
nobody has written holds `Junk`. Besides the functions the client writes into the
room at the end and counts it with `sdsIncrLen`, and cuts a string by hand before
`sdsupdatelen`, as the comments of both show. A string is appended to itself only
when there is room: otherwise the source would be the buffer realloc has given
back, which the comment of `sdscatsds` leaves to the client. `strchr` finds the NUL that
ends the set of `sdstrim`, so the model's `sdstrim` trims NUL bytes too, as the code
does.

`NcSdsTokens` has the functions that make other strings. Splitting takes one
action per position of the line, parsing one per byte or escape, so that the
array, the tokens made and what lies ahead of the scan can be looked at between
two of them; any allocation of `sdssplitlen` may fail. Quoting, joining and
printing a number are operators. `-value` of the least `long long`
(`src/nc_sds.c:627`) overflows, which C leaves undefined; the model is of builds
where it wraps. A look beyond the end of a parsed line yields the NUL: that the code
looks no further than it may is the order of its tests (`HexAt`), not a property
here. A parsed line may be what `sdscatrepr` makes of a
text, which is then remembered in `call`.

`NcStrings` runs both in one thread: a string is split where it is held, and the
client may go on with a token in place of its string. Other calls on bytes and
calls on the string do not mix while tokens are held, which is a bound.

## Checks

| Run | Shows | Bounds |
|---|---|---|
| `pool_safety` | `InBounds`, `NoOverlap`, `HeapExact`, `MetadataIntact`; the pool implements `Arena` | blocks of 128 bytes with the real header sizes of a 64-bit build, up to 2; sizes 20 (unaligned, small) and 72 (large); 2 heap addresses, 1 cleanup record |
| `pool_chain_destroy` | `SkippedExhausted`, `CleanupsRunOnce`, `DestroyCompletes` | up to 8 blocks while no cleanup record is registered (`MaxBlocks`), so that `failed` passes its limit and `current` moves once; up to 2 records while there is one block (`MaxCleanupBlocks`), handlers allocating, freeing and registering more; a size that fills a block in two or three pieces and a large one, 1 heap address |
| `hashtable_safety` | `ListIntact`, `BucketsPartition`, `OwnershipExact`, `LoadBounded`, `IterationComplete`; the table implements `HashMap`, each call on its own argument | 3 pairs, 4 key objects of which two are equal and two differ but have one hash, bucket counts 2, 3, 5: a bucket grows to three pairs, so that a pair between others is deleted, and is split again |
| `array_list` | `Capacity`, the array implements `GrowList` | up to 8 cells, pushes of 0 to 3 |
| `rbtree` | `ParentLinks`, `RedBlack`, `FixupDefined`; the tree implements `SortedQueue`; `RebalanceEnds` | 10 nodes of distinct keys inserted in every order and deleted in every order: a delete whose rebalancing climbs twice takes a tree of ten nodes; and 5 nodes with keys 1, 1, 2, 2, 3, inserted and deleted for ever |
| `sys_queue` | `ChecksPass`, `EndsAgree`, `ForeachComplete`; each family implements `Queues`, macro by macro | 2 heads, 3 elements: an element between two others, both queues empty or not when they are joined or exchanged, bodies that remove the current and insert another |
| `strings` | `HeaderExact`; every call on every string that is reached has the result its arguments ask for (`CallsRight`); the string implements `ByteString` (`RefinesBytes`); `InBounds`, `NoLeak`, `ResultsRight` (of splitting and of numbers), `QuotedAgain`, `CallsEnd` | heap of 7 bytes per string and `SDS_MAX_PREALLOC` 3, so that both branches of the growth and refusals happen; buffer of `sdscatvprintf` from 2, so that it doubles; texts up to 3 bytes with NUL; lines of up to 6 bytes split into up to 7 tokens, beyond the 5 slots; all parsed lines of up to 4 of 8 bytes, every quoted text of up to 2 of 13; long long of 8 bits, all its values |

`CallsRight` has one part for each kind of call: `CreatesRight` (`sdsnewlen`,
`sdsnew`, `sdsempty`), `AppendsRight` (`sdscatlen`, `sdscat`, `sdscatsds`,
`sdscatvprintf`, `sdscpylen`, `sdscpy`, `sdsIncrLen` of bytes written into the room),
`RoomRight` (`sdsMakeRoomFor`, `sdsgrowzero`, `sdsRemoveFreeSpace`, `sdsdup`),
`CutsRight` (`sdsclear`, `sdsupdatelen`, `sdsIncrLen` of a negative number,
`sdsrange`, `sdstrim` with the NUL in its set) and `ChangesRight` (`sdsmapchars`,
`sdstolower`, `sdstoupper`).

Each component's type invariant is checked in one of its runs; `NcSdsTokens` has
none, what its variables may hold being `InBounds` and `NoLeak`. `rbtree` checks
no deadlock, because a client that grows its tree stops when it has deleted every
node. Constants scaled down: the table of primes (`<<2, 3, 5>>` for the 29 primes
of the code), the buffer sizes, the widths of int (strings) and long long.
Addresses and values are model values, symmetric where no operator orders them
and no liveness is checked.

Fairness is assumed three times: `WF_vars(DestroyStep)` in the pool (destroy is
one call; its steps are separate only for the handlers, which are assumed to
return), `WF_vars(Rebalance)` in the tree and `WF_all(T!Scan /\ UNCHANGED str)` in
the strings (a loop is part of one call). All are progress of the only thread
there is.

### Where the code departs from its comments

Five runs are expected to fail, each against a line of the repository:

- `pool_unaligned`: "Left space is enough" (`src/nc_palloc.c:163`) does not hold
  when the pool's size is not a multiple of the platform word: the aligned cursor
  passes `d.end` and the cast to `size_t` makes the negative room huge.
- `pool_reset_cleanup`: `nc_pool_reset` forgets `pool->cleanup`; the records lie
  in memory that is given out again when destroy is to "Run cleanup handlers"
  (`src/nc_palloc.c:42`).
- `hashtable_oom`: a set that fails because its rehash found no memory
  (`src/nc_hashtable.c:156-163`) leaves a table whose next lookup dereferences
  NULL; the header promises -1 and a lookup that returns the value or NULL.
- `hashtable_iter_add`: "Other values may be added" during an iteration
  (`src/nc_hashtable.h:163`), but an addition that rehashes reorders the list and
  the iteration ends early.
- `split_empty`: `sdssplitlen` of an empty line returns an array without tokens, to be
  freed by the caller; for a "zero length string" its comment has NULL
  (`src/nc_sds.c:536-537`).

Seen while modelling, without a run: "Check first 3 large items"
(`src/nc_palloc.c:234`) checks five; `sdscmp` returns a difference where its comment
says 1 or -1 (`src/nc_sds.c:510`). `sdstrim` is to take off "contiguous characters
found in 'cset'" (`src/nc_sds.c:397-398`), but takes off NUL bytes too, which `strchr`
finds at the end of every set; and of the example in the same comment
(`src/nc_sds.c:405-409`) it leaves `a.aa.aHelloWorld`, because the small "a" is not in
the set, where the comment prints "Hello World". `CutsRight` therefore states what the
code does, `cset` with the NUL, and not the comment.

## Proofs

`NcPoolProofs` proves every safety property of the pool, for every pool size,
header size, alignment, set of sizes and bound:

- `PoolTypeCorrect`, `PoolHeapExact` and `PoolSkippedExhausted` without further
  assumption;
- `PoolInBounds`, `PoolNoOverlap` and `PoolRefinesArena`, for pools whose size is a
  multiple of the alignment (`Aligned`; `pool_unaligned` shows that it is needed);
- `PoolMetadataIntact` and `PoolCleanupsRunOnce`, for such pools and a client that
  resets none with records (`pool_reset_cleanup` shows that this is needed too).

The inductive invariant has two layers. `IInv` has the types, the bounds and the
separation of pieces: overlap cannot be proved without the bounds (a piece is new
because it begins at or after `d.last`, and all others end before it), nor the
bounds without the alignment of headers, which `PoolAssumption` states. `PInv` adds
what the lists say. `Chain` completes `SkippedExhausted` with what its step needs:
no block from `current` on has failed more than five times, so that counting one
more failure cannot put a block above the one before it. `HeapListed` and
`NodesKept` are about `pool->large`; `RecordsKept` and `RecordsApart` about
`pool->cleanup`, where a record is apart from all others because a piece of at
least one byte is none that was given out before (`SmallNew`). `Walk` is the loop
of `nc_pool_destroy`: counted from the end of the list, records keep their places
when handlers register more, those that ran are behind the cursor and those that
are due are run or ahead of it. That what the client holds is live, and live
pieces are apart, gives the refinement of `Arena`. Each function has a lemma that
says what its outcomes do to the pool; the step of an action cites it.

`NcHashtableProofs` proves every safety property of the hash table that a passing
run checks, for all pairs, keys, values, hash functions and tables of bucket
counts: `HashtableTypeCorrect`, `HashtableListIntact`, `HashtableBucketsPartition`,
`HashtableOwnershipExact`, `HashtableLoadBounded`, `HashtableIterationComplete` and
`HashtableRefinesMap`, the last with each call on the name it was given. The
invariant says that *some sequence of distinct pairs* is the table (`Holds`): the
links run through it both ways, it has `size` elements, and each bucket is empty
with no pair of its hash, or the ends of a stretch of the sequence that has all of
them (`Stretch`). `InOrder` places an iterator in it: what was seen is behind, what
is owed at or ahead of it. A sequence is what the local properties of the code are
about, and what they cannot express: with only "each neighbour's neighbour is me",
a second cycle of pairs beside the list would be allowed, and a search from a
bucket's first to its last might never meet a pair that is between them. Insertion
and deletion insert into and remove from the sequence; a rehash inserts the pairs,
one by one, into the sequence of an empty table, which is an induction over the
recursive function of the model (`Filled`: after each round the pairs still to come
are those of the old sequence, their links not yet touched), done with `IntervalInduction` of `NatSets`.

`NcArrayProofs` proves `ArrayTypeCorrect` without assumption and, as long as no
int can wrap (`NoWrap`: the heap and the requests are small enough),
`ArrayCapacity` and `ArrayRefinesList`, the whole refinement of `GrowList`. The lemma `PushOutcome` takes the int arithmetic out of
both pushes; the invariant adds `nalloc <= MaxCells` to `Capacity`, without which
`NoWrap` would say nothing of `nelem + n`.

`NcSysQueueProofs` proves every property of the queues that the run checks, for any
set of heads and any finite set of elements (a program has no more; `Chain` counts
them). `QueueTypeCorrect` and `QueueChecksPass` come first. The invariant `Links` (theorem
`QueueLinks`) says of every place what is on the next one: the element after a
place is on the same queue, no two places have the same next, `back` is the
inverse of `next` in the doubly linked families, a tail pointer is the one place
that nothing follows, a circular queue closes at its head. It speaks of
neighbours only, so no induction along a queue is needed; each kind of change
(insert, remove, at an end, join, exchange) has a lemma. The loop variables need
`WalkSound` on top: the element a traversal goes on from is still on its queue.

Neighbours that agree may still close a cycle beside the queue. So the second
layer says that *some sequence* of distinct elements is what the links of a head
spell (`Row`, and `Rows` for all heads; theorem `QueueSequences`). All insertions of
all families are one change of it, an element put behind a position (`Ins`), all
removals another (`Del`); joining, exchanging and initializing complete the list.
`ChainIs` and `PrecedingIs` show that the recursive functions of the properties find
this sequence, from either end; their recursion is unfolded once
(`FollowingStepwise`), which `Iterates` of `NatSets` justifies. Then `QueueEndsAgree`
says where the tail pointers and back links lead, and `QueueRefinesQueues` that every
macro does to the sequences what `Queues` says, call by call. `QueueForeachComplete`
needs two things more: that elements which stay keep their order whatever the body
does (`Keeps`), and that what stayed so far is visited, at hand, or stands where the
traversal is going (`Pending`).

The proof showed a fault of the model: two branches of a `CASE` in `Ahead`
overlapped, which TLC resolves by their order and the logic does not.

`NcSdsProofs` proves `SdsTypeCorrect` and `SdsHeaderExact` of `NcSds` for all
texts, lengths, indexes, tables and heap sizes, as long as no int can wrap
(`NoWrap`: no string gets more bytes than an int counts). The invariant `Inv` adds
to `HeaderExact` that the heap gave the buffer, without which `NoWrap` would say
nothing. `WrittenGood`, a text put at a position, terminated and counted, serves
nearly every function; the rest is the arithmetic of where each of them writes.
`LeastNumber` (from the well-foundedness of the naturals) gives the first NUL of
`strlen` and the first match of `sdsmapchars`.

It proves also `SdsCallsRight` and `SdsRefinesBytes`: for each call a lemma gives
the content it leaves, on top of the header that `Good` has accounted for, and the
parts of `CallsRight` and the steps of `ByteString` follow from that. These proofs found
the abstract side incomplete where the runs' small values had hidden it: a table of
`sdsmapchars` may have a byte twice, of which the first counts; `sdsnewlen` may be
asked for no bytes; `sdsgrowzero` may be asked for less than there is.

`NcStringsProofs` proves of the client of strings and tokens `StringsInBounds`,
`StringsNoLeak`, `StringsResultsRight`, `StringsQuotedAgain` and the three theorems
of `NcSds` again, under `NoWrap` where a string may be grown. Its invariant `SInv`
has, besides `Inv` of the string:

- `TokensInv`, a case for each place the code can be at. Splitting (`SplitRunning`):
  the tokens, each followed by the separator, are the line up to the current token,
  and that one has no separator so far (`Consumed`), so the end of the loop has just
  the last token to add. Parsing (`ArgsRunning`): the strings that exist are the
  tokens and the one being made, on every way out; and where the line is the
  representation of a text, the scan is behind the representation of its first `k`
  bytes and has read exactly those (`ReadingQuoted`).
- `OwnLine`: while the client has a string, what is split is its content and the
  tokens are pieces of it. It is needed for the step in which the client goes on
  with a token, which `ByteString` allows for pieces only.

`NcRbtreeProofs` proves every safety property of the tree that the run checks, for
any finite set of nodes and any integer keys, equal ones included, without further
assumption: `RbtreeTypeCorrect`, `RbtreeParentLinks`, `RbtreeRedBlack`,
`RbtreeFixupDefined` and `RbtreeRefinesQueue`. The properties are stated with
`InOrder` and `BlackHeight`, which are recursive, and the prover has no induction
over trees; so the invariant (`IInv`, theorem `RbtreeInvariant`) says that *there
are* numbers which the fields of the nodes agree with:

- `at` gives each node of the tree its position in the order of the keys
  (`Ordered`), and `e` the interval of positions that its subtree covers (`Shape`):
  a child covers what its parent leaves on that side, and where nothing is left
  there is the sentinel (`Fits`). With "each child's parent is me" alone a cycle
  beside the tree would be allowed, and nothing would be sorted. With intervals the
  whole shape is said by conditions on a node and its neighbours: a rotation changes
  two intervals and no position, a new leaf opens a position (`OpenedAt`), a
  node that is unlinked closes its own (`ClosedAt`), and a substitute gets that of
  the node it takes over from (`RenamedAt`).
- `h` gives each node the number of black nodes on each way down (`Rules`), where
  the side of a running delete's node counts one more than it has (`Lack`); a red
  node has no red child, except at the node of a running loop (`Excused`).
  `Current` says where that node may be.

There is a lemma for each round of each loop (`InsertRound` to `TurnOuterSound`,
`DeleteRound` to `BorrowSound`) and for each part of a call before its loop
(`AttachSound`, `CutShape`, `TakeOverSound`). A child covers less than its parent
(`Narrower`): this ends the walks down the tree, and gives that `InOrder` lists the
nodes by their positions and that `BlackHeight` finds `h`. So the rounds of the
loops, which keep all positions, are stutters of `SortedQueue`, and the calls are
its `Insert` and `Delete`.

Only model-checked: liveness (`DestroyCompletes`, `RebalanceEnds`, `CallsEnd`),
which is beyond the prover.

## Not modelled

The debug build `NC_DEBUG_PALLOC`, `posix_memalign`, logging, the trace fields of
the queues; free functions of the hash table that call the table back; pointers
into an array kept across a push; a red-black node inserted twice or deleted
twice, an element put on two queues; strings of more than an int counts (the
model wraps, but no run gets there); allocations whose result the code uses
without a look (`sdsRemoveFreeSpace`, `sdscatrepr`, `sdssplitargs`, `sdsjoin`);
`sdscmp`, which only reads. `tests/test_array.c`, the vendored test framework and
the build description keep no state of the library.

## Plan

Done: every component that keeps state has a module and a run that checks it
against an abstract specification; every safety property that a passing run checks
is proved. What is left:

1. Free functions of the hash table that call the table back.
2. Ownership of the tree's nodes by the client: a node inserted twice or deleted
   when it is not in the tree, which the code does not look for.
3. Steps of the abstract specifications tied to the arguments of the calls where they
   are not yet: `Shorten` of `ByteString` allows any piece (each call's own piece is in
   `CallsRight`), `Delete` of `SortedQueue` any node, and `Arena` does not see the same
   region given out twice.
