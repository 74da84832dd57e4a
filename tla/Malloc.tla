------------------------------- MODULE Malloc -------------------------------
(***************************************************************************)
(* threads/malloc.c: blocks of a few sizes cut from one-page arenas, each  *)
(* size with its descriptor, free list and lock; larger requests take      *)
(* whole pages.  Threads run malloc(), calloc(), realloc() and free()      *)
(* concurrently.  The page allocator is used as Palloc shows it behaves:   *)
(* first fit, each call atomic.  Addresses are numbers, pages PGSIZE long, *)
(* and size_t is SIZE_BITS wide.  A block's contents are what its owner    *)
(* last wrote, or FREED.                                                   *)
(***************************************************************************)
EXTENDS Naturals, FiniteSets, Sequences

CONSTANTS Thread, NULL, FREED,
          PageCnt,             \* pages of the kernel pool
          PGSIZE, ArenaSize,   \* bytes: of a page, of struct arena
          MinBlock,            \* 16 in the code
          SIZE_BITS,
          Sizes, Counts,       \* arguments of the calls, and calloc()'s first
          MaxHeld              \* bound on blocks in use

\* What the constants satisfy.
MallocAssumption ==
  /\ {PageCnt, SIZE_BITS, MaxHeld} \subseteq Nat /\ {PGSIZE, MinBlock} \subseteq Nat \ {0}
  /\ ArenaSize \in 1 .. PGSIZE - 1
  /\ Sizes \cup Counts \subseteq 0 .. 2 ^ SIZE_BITS - 1
  /\ NULL \notin Nat

VARIABLES arena,      \* [page -> [desc, free_cnt]; NULL: free, or inside a big block]
          used,       \* pages allocated from the page allocator
          free_list,  \* [descriptor -> sequence of blocks]
          lock,       \* [descriptor -> holder or NULL]
          th,         \* [thread -> its place and locals in a call]
          held,       \* blocks returned and not passed to free(): [at, size, t], SIZE
                      \* as the caller meant it, for calloc() the product
          mem         \* [block -> contents]

vars == <<arena, used, free_list, lock, th, held, mem>>

WORD == 2 ^ SIZE_BITS
Page == 1 .. PageCnt

\* A descriptor is named by its block_size.
descs == {s \in {MinBlock * 2 ^ k : k \in 0 .. 9} : s < PGSIZE \div 2}
blocks_per_arena(d) == (PGSIZE - ArenaSize) \div d

block_to_arena(b) == b \div PGSIZE
arena_to_block(a, d, idx) == a * PGSIZE + ArenaSize + idx * d
Blocks(a, d) == {arena_to_block(a, d, i) : i \in 0 .. blocks_per_arena(d) - 1}

block_size(b) == LET a == arena[block_to_arena(b)]
                 IN  IF a.desc # NULL THEN a.desc ELSE PGSIZE * a.free_cnt - (b % PGSIZE)

-----------------------------------------------------------------------------
(* palloc_get_multiple(), without PAL_ASSERT *)

Span(a, cnt) == a .. a + cnt - 1
Fits(cnt) == {a \in Page : Span(a, cnt) \subseteq Page \ used}
FirstFit(cnt) == CHOOSE a \in Fits(cnt) : \A x \in Fits(cnt) : a <= x

-----------------------------------------------------------------------------
(* malloc() *)

Idle == [pc |-> "idle", d |-> 0, asked |-> 0, old |-> NULL, b |-> NULL]

malloc_init ==
  /\ arena = [p \in Page |-> NULL] /\ used = {}
  /\ free_list = [d \in descs |-> <<>>]
  /\ lock = [d \in descs |-> NULL]
  /\ th = [t \in Thread |-> Idle]
  /\ held = {}
  /\ mem = [b \in 1 .. PGSIZE * (PageCnt + 1) |-> FREED]

Goto(t, r) == th' = [th EXCEPT ![t] = r]

desc_for(size) == CHOOSE d \in descs : d >= size /\ \A e \in descs : e >= size => d <= e

\* Unsigned arithmetic of SIZE_BITS bits.
big_pages(size) == ((((size + ArenaSize) % WORD) + PGSIZE - 1) % WORD) \div PGSIZE

\* Returns block B: to the caller, who writes to it, or to
\* realloc(), which copies the old block and goes on to free it.
Return(t, b, asked, old) ==
  LET new == [at |-> b, size |-> asked, t |-> t]
  IN  IF old = NULL
      THEN held' = held \cup {new} /\ mem' = [mem EXCEPT ![b] = t] /\ Goto(t, Idle)
      ELSE /\ held' = {h \in held : h.at # old} \cup {new}
           /\ mem' = [mem EXCEPT ![b] = mem[old]]
           /\ Goto(t, [Idle EXCEPT !.pc = "free", !.b = old])

Fail(t) == Goto(t, Idle) /\ UNCHANGED <<held, mem>>

Big(t, size, asked, old) ==
  LET cnt == big_pages(size)
  IN  IF cnt = 0 \/ Fits(cnt) = {}
      THEN Fail(t) /\ UNCHANGED <<arena, used, free_list, lock>>
      ELSE LET a == FirstFit(cnt)
           IN  /\ used' = used \cup Span(a, cnt)
               /\ arena' = [arena EXCEPT ![a] = [desc |-> NULL, free_cnt |-> cnt]]
               /\ Return(t, a * PGSIZE + ArenaSize, asked, old)
               /\ UNCHANGED <<free_list, lock>>

malloc(t, size, asked, old) ==
  IF size = 0 THEN Fail(t) /\ UNCHANGED <<arena, used, free_list, lock>>
  ELSE IF \E d \in descs : d >= size
       THEN /\ Goto(t, [Idle EXCEPT !.pc = "lock", !.d = desc_for(size), !.asked = asked, !.old = old])
            /\ UNCHANGED <<arena, used, free_list, lock, held, mem>>
       ELSE Big(t, size, asked, old)

LockAcquire(t) ==
  /\ th[t].pc \in {"lock", "free_lock"} /\ lock[th[t].d] = NULL
  /\ lock' = [lock EXCEPT ![th[t].d] = t]
  /\ Goto(t, [th[t] EXCEPT !.pc = IF @ = "lock" THEN "refill" ELSE "push"])
  /\ UNCHANGED <<arena, used, free_list, held, mem>>

\* If the free list is empty, makes a new arena, or fails.
Refill(t) ==
  LET d == th[t].d
  IN  /\ th[t].pc = "refill"
      /\ IF free_list[d] # <<>>
         THEN Goto(t, [th[t] EXCEPT !.pc = "pop"]) /\ UNCHANGED <<arena, used, free_list, lock, held, mem>>
         ELSE IF Fits(1) = {}
         THEN lock' = [lock EXCEPT ![d] = NULL] /\ Fail(t) /\ UNCHANGED <<arena, used, free_list>>
         ELSE LET a == FirstFit(1)
              IN  /\ used' = used \cup {a}
                  /\ arena' = [arena EXCEPT ![a] = [desc |-> d, free_cnt |-> blocks_per_arena(d)]]
                  /\ free_list' = [free_list EXCEPT ![d] =
                       [i \in 1 .. blocks_per_arena(d) |-> arena_to_block(a, d, i - 1)]]
                  /\ Goto(t, [th[t] EXCEPT !.pc = "pop"])
                  /\ UNCHANGED <<lock, held, mem>>

Pop(t) ==
  LET d == th[t].d
      b == Head(free_list[d])
  IN  /\ th[t].pc = "pop"
      /\ free_list' = [free_list EXCEPT ![d] = Tail(@)]
      /\ arena' = [arena EXCEPT ![block_to_arena(b)].free_cnt = @ - 1]
      /\ lock' = [lock EXCEPT ![d] = NULL]
      /\ Return(t, b, th[t].asked, th[t].old)
      /\ UNCHANGED used

-----------------------------------------------------------------------------
(* free() *)

\* Of block th[t].b: a big block's pages go back; a normal block is filled
\* with 0xcc before the lock is taken.
Free(t) ==
  LET b == th[t].b
      a == block_to_arena(b)
      d == arena[a].desc
  IN  /\ th[t].pc = "free"
      /\ mem' = [mem EXCEPT ![b] = FREED]
      /\ IF d # NULL
         THEN Goto(t, [th[t] EXCEPT !.pc = "free_lock", !.d = d]) /\ UNCHANGED <<arena, used>>
         ELSE /\ used' = used \ Span(a, arena[a].free_cnt)
              /\ arena' = [arena EXCEPT ![a] = NULL]
              /\ Goto(t, Idle)
      /\ UNCHANGED <<free_list, lock, held>>

Push(t) ==
  LET r == th[t]
  IN  /\ r.pc = "push"
      /\ free_list' = [free_list EXCEPT ![r.d] = <<r.b>> \o @]
      /\ arena' = [arena EXCEPT ![block_to_arena(r.b)].free_cnt = @ + 1]
      /\ Goto(t, [r EXCEPT !.pc = "reclaim"])
      /\ UNCHANGED <<used, lock, held, mem>>

(* Mutant of Reclaim: the arena's blocks stay in the free list. *)
Reclaim_dangling(t) ==
  LET r == th[t]
      a == block_to_arena(r.b)
  IN  /\ r.pc = "reclaim"
      /\ IF arena[a].free_cnt >= blocks_per_arena(r.d)
         THEN used' = used \ {a} /\ arena' = [arena EXCEPT ![a] = NULL]
         ELSE UNCHANGED <<used, arena>>
      /\ lock' = [lock EXCEPT ![r.d] = NULL]
      /\ Goto(t, Idle)
      /\ UNCHANGED <<free_list, held, mem>>

(* Mutant of Reclaim: compares with more blocks than an arena has. *)
Reclaim_never(t) ==
  /\ th[t].pc = "reclaim"
  /\ lock' = [lock EXCEPT ![th[t].d] = NULL]
  /\ Goto(t, Idle)
  /\ UNCHANGED <<arena, used, free_list, held, mem>>

\* An arena without blocks in use goes back to the page allocator.
Reclaim(t) ==
  LET r == th[t]
      a == block_to_arena(r.b)
  IN  /\ r.pc = "reclaim"
      /\ IF arena[a].free_cnt >= blocks_per_arena(r.d)
         THEN /\ free_list' = [free_list EXCEPT ![r.d] = SelectSeq(@, LAMBDA x : x \notin Blocks(a, r.d))]
              /\ used' = used \ {a}
              /\ arena' = [arena EXCEPT ![a] = NULL]
         ELSE UNCHANGED <<used, arena, free_list>>
      /\ lock' = [lock EXCEPT ![r.d] = NULL]
      /\ Goto(t, Idle)
      /\ UNCHANGED <<held, mem>>

-----------------------------------------------------------------------------
(* Calls *)

Mine(t) == {h \in held : h.t = t}
Room == Cardinality(held) < MaxHeld

Malloc(t) == /\ th[t].pc = "idle" /\ Room
             /\ \E size \in Sizes : malloc(t, size, size, NULL)

(* Mutant of calloc_size: no check at all. *)
calloc_size_unchecked(a, b) == (a * b) % WORD

\* The block's size, or 0 for a null pointer.
calloc_size(a, b) == LET size == (a * b) % WORD
                     IN  IF size < a \/ size < b THEN 0 ELSE size

Calloc(t) == /\ th[t].pc = "idle" /\ Room
             /\ \E a \in Counts, b \in Sizes : malloc(t, calloc_size(a, b), a * b, NULL)

CallFree(t) ==
  /\ th[t].pc = "idle"
  /\ \E h \in Mine(t) : /\ held' = held \ {h}
                        /\ Goto(t, [Idle EXCEPT !.pc = "free", !.b = h.at])
  /\ UNCHANGED <<arena, used, free_list, lock, mem>>

(* Mutant of Realloc: the old block is freed before the new is obtained. *)
Realloc_free_first(t) ==
  /\ th[t].pc = "idle"
  /\ \E h \in Mine(t), new_size \in Sizes \ {0} :
       LET m == [mem EXCEPT ![h.at] = FREED]
       IN  /\ \E d \in descs : d >= new_size
           /\ mem' = m
           /\ Goto(t, [Idle EXCEPT !.pc = "lock", !.d = desc_for(new_size), !.asked = new_size, !.old = h.at])
           /\ UNCHANGED <<arena, used, free_list, lock, held>>

\* Requests whose arithmetic wraps unnoticed: a size with which the arena and the rounding no longer
\* fit in size_t, and a product whose remainder is below neither factor.
WrapsUnnoticed(size) ==
  \/ size < WORD /\ size + ArenaSize + PGSIZE > WORD
  \/ \E a \in Counts, b \in Sizes :
       a * b = size /\ size >= WORD /\ size % WORD >= a /\ size % WORD >= b

\* With NEW_SIZE zero it is free().  It is not called with sizes that wrap: it would copy past the
\* new block.
Realloc(t) ==
  /\ th[t].pc = "idle"
  /\ \E h \in Mine(t), new_size \in {s \in Sizes \ {0} : ~ WrapsUnnoticed(s)} : malloc(t, new_size, new_size, h.at)

Next == \E t \in Thread :
          \/ Malloc(t) \/ Calloc(t) \/ CallFree(t) \/ Realloc(t)
          \/ LockAcquire(t) \/ Refill(t) \/ Pop(t) \/ Free(t) \/ Push(t) \/ Reclaim(t)

Spec == malloc_init /\ [][Next]_vars

-----------------------------------------------------------------------------
(* Properties *)

Range(s) == {s[i] : i \in DOMAIN s}
Arenas(d) == {p \in Page : arena[p] # NULL /\ arena[p].desc = d}

\* Blocks no longer the caller's and not yet on a free list.
Returning == {th[t].b : t \in {u \in Thread : th[u].pc \in {"free", "free_lock", "push"}}}
InUse == {h.at : h \in held} \cup Returning

(* A descriptor's free list holds exactly the blocks of its arenas that    *)
(* are not in use, each once, and free_cnt counts them; block_to_arena()'s *)
(* assertions on a block hold because the block is one of its arena's.     *)
FreeListExact ==
  \A d \in descs :
    /\ Range(free_list[d]) = UNION {Blocks(a, d) : a \in Arenas(d)} \ InUse
    /\ Len(free_list[d]) = Cardinality(Range(free_list[d]))
    /\ \A a \in Arenas(d) : arena[a].free_cnt = Cardinality(Blocks(a, d) \ InUse)

(* Pages are in use exactly for arenas with a block in use and for big     *)
(* blocks: an empty arena goes back at once, and every page does when all  *)
(* blocks are freed, whatever the interleaving.                            *)
NoPageLeaks ==
  LET Busy == {lock[d] : d \in descs} \ {NULL}
      Live == {block_to_arena(b) : b \in InUse}
      Whole(a) == IF arena[a].desc = NULL THEN Span(a, arena[a].free_cnt) ELSE {a}
  IN  Busy = {} => used = UNION {Whole(a) : a \in Live}

(* What the owner wrote to a block stays there until the block is freed,   *)
(* and realloc() takes it along: no block is handed out twice, filled with *)
(* 0xcc or linked into a free list while it is in use.                     *)
ContentsKept == \A h \in held : mem[h.at] = h.t

(* A block is as large as its owner asked for, so that realloc() never     *)
(* copies past either block, unless the size or the product of calloc()    *)
(* wraps unnoticed; a product that leaves a smaller remainder than a       *)
(* factor is refused.                                                      *)
BlocksLargeEnough == \A h \in held : WrapsUnnoticed(h.size) \/ h.size <= block_size(h.at)

(* malloc.c: malloc() "Obtains and returns a new block of at least SIZE    *)
(* bytes".                                                                 *)
AtLeastSize == \A h \in held : h.size < WORD => h.size <= block_size(h.at)

(* malloc.c, of calloc(): "Calculate block size and make sure it fits in   *)
(* size_t": a product that does not fit is refused, so no block is smaller *)
(* than the product.                                                       *)
CallocFits == \A h \in held : h.size >= WORD => h.size <= block_size(h.at)
=============================================================================
