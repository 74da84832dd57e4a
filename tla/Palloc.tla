------------------------------- MODULE Palloc -------------------------------
(***************************************************************************)
(* threads/palloc.c: two pools of pages, each with a bitmap of the pages   *)
(* in use.  Allocation scans and sets bits under the pool's lock, one bit  *)
(* at a time; freeing clears bits without the lock, so it interleaves with *)
(* a scan.  Pages are numbered from 1 MB of physical memory.               *)
(***************************************************************************)
EXTENDS Naturals, FiniteSets

CONSTANTS Caller, Nobody,
          Machine,      \* pairs <<pages of RAM above 1 MB, user_page_limit>>
          MaxCnt,       \* largest PAGE_CNT asked for
          PGSIZE, BitmapHeader, ElemSize, ELEM_BITS  \* bytes, bytes, bytes, bits

ASSUME PallocAssumption ==
  /\ Machine \subseteq Nat \X Nat
  /\ {PGSIZE, ElemSize, ELEM_BITS} \subseteq Nat \ {0} /\ {MaxCnt, BitmapHeader} \subseteq Nat
  /\ Nobody \notin Caller

VARIABLES ram,       \* pages of RAM above 1 MB
          base,      \* [pool -> its first page]
          size,      \* [pool -> bits of its used_map]
          used_map,  \* [pool -> indices whose bit is set]
          lock,      \* [pool -> the holder of its lock, or Nobody]
          th,        \* [thread -> its place and locals in a call]
          held       \* allocations returned and not freed: [t, first, cnt]

geometry == <<ram, base, size>>
palloc_vars == <<ram, base, size, used_map, lock, th, held>>

Pool == {"kernel", "user"}
Pages(a) == a.first .. a.first + a.cnt - 1

-----------------------------------------------------------------------------
(* Initialization *)

DIV_ROUND_UP(x, step) == (x + step - 1) \div step

bitmap_buf_size(bit_cnt) == BitmapHeader + ElemSize * DIV_ROUND_UP(bit_cnt, ELEM_BITS)

bm_pages(page_cnt) == DIV_ROUND_UP(bitmap_buf_size(page_cnt), PGSIZE)

(* Mutant of init_pool: the pages of the bitmap stay in the pool. *)
init_pool_whole(p, first, page_cnt) ==
  /\ bm_pages(page_cnt) <= page_cnt
  /\ size[p] = page_cnt
  /\ base[p] = first + bm_pages(page_cnt)

\* Machines too small for a bitmap panic.
init_pool(p, first, page_cnt) ==
  /\ bm_pages(page_cnt) <= page_cnt
  /\ size[p] = page_cnt - bm_pages(page_cnt)
  /\ base[p] = first + bm_pages(page_cnt)

user_pages(free_pages, user_page_limit) ==
  IF free_pages \div 2 > user_page_limit THEN user_page_limit ELSE free_pages \div 2

Idle == [pc |-> "idle", pool |-> "kernel", cnt |-> 0, idx |-> 0, i |-> 0, possible |-> FALSE]

palloc_init ==
  \E m \in Machine :
    LET up == user_pages(m[1], m[2])
    IN  /\ ram = m[1]
        /\ base \in [Pool -> 0 .. ram] /\ size \in [Pool -> 0 .. ram]
        /\ init_pool("kernel", 0, ram - up)
        /\ init_pool("user", ram - up, up)
        /\ used_map = [p \in Pool |-> {}]
        /\ lock = [p \in Pool |-> Nobody]
        /\ th = [t \in Caller |-> Idle]
        /\ held = {}

-----------------------------------------------------------------------------
(* palloc_get_multiple() *)

At(t, pc) == th[t].pc = pc
Goto(t, rec) == th' = [th EXCEPT ![t] = rec]
Group(r) == r.idx .. r.idx + r.cnt - 1

\* A call with PAGE_CNT zero returns at once.
Get(t, p, cnt) ==
  /\ At(t, "idle")
  /\ Goto(t, IF cnt = 0 THEN Idle
             ELSE [Idle EXCEPT !.pc = "lock", !.pool = p, !.cnt = cnt])
  /\ UNCHANGED <<geometry, used_map, lock, held>>

FreeGroups(p, cnt) ==
  {i \in 0 .. size[p] : i + cnt <= size[p] /\ (i .. i + cnt - 1) \cap used_map[p] = {}}

\* POSSIBLE notes, for a property, whether a group was free at this moment.
LockAcquire(t) ==
  LET p == th[t].pool
  IN  /\ At(t, "lock") /\ lock[p] = Nobody
      /\ lock' = [lock EXCEPT ![p] = t]
      /\ Goto(t, [th[t] EXCEPT !.pc = "scan", !.possible = FreeGroups(p, th[t].cnt) # {}])
      /\ UNCHANGED <<geometry, used_map, held>>

(* Mutant of LastStart: the last place a group fits is not tried. *)
LastStart_exclusive(r) == r.idx + r.cnt < size[r.pool]

\* The scan goes on at IDX.
LastStart(r) == r.idx + r.cnt <= size[r.pool]

\* bitmap_scan(): tests one bit, bit I of the group at IDX.
Scan(t) ==
  LET r == th[t]
  IN  /\ At(t, "scan")
      /\ Goto(t, IF ~ LastStart(r) THEN [r EXCEPT !.pc = "fail"]
                 ELSE IF r.i = r.cnt THEN [r EXCEPT !.pc = "flip", !.i = 0]
                 ELSE IF r.idx + r.i \in used_map[r.pool] THEN [r EXCEPT !.idx = @ + 1, !.i = 0]
                 ELSE [r EXCEPT !.i = @ + 1])
      /\ UNCHANGED <<geometry, used_map, lock, held>>

\* bitmap_set_multiple(): sets one bit, then releases the lock.
Flip(t) ==
  LET r == th[t]
  IN  /\ At(t, "flip")
      /\ IF r.i < r.cnt
         THEN /\ used_map' = [used_map EXCEPT ![r.pool] = @ \cup {r.idx + r.i}]
              /\ Goto(t, [r EXCEPT !.i = @ + 1])
              /\ UNCHANGED lock
         ELSE /\ lock' = [lock EXCEPT ![r.pool] = Nobody]
              /\ Goto(t, [r EXCEPT !.pc = "zero"])
              /\ UNCHANGED used_map
      /\ UNCHANGED <<geometry, held>>

\* No group: releases the lock and returns a null pointer (with PAL_ASSERT
\* the kernel panics instead).
Fail(t) ==
  /\ At(t, "fail")
  /\ lock' = [lock EXCEPT ![th[t].pool] = Nobody]
  /\ Goto(t, Idle)
  /\ UNCHANGED <<geometry, used_map, held>>

\* Fills the pages with zeros if asked to, after the lock is released, and
\* returns them.
ReturnPages(t) ==
  LET r == th[t]
  IN  /\ At(t, "zero")
      /\ held' = held \cup {[t |-> t, first |-> base[r.pool] + r.idx, cnt |-> r.cnt]}
      /\ Goto(t, Idle)
      /\ UNCHANGED <<geometry, used_map, lock>>

-----------------------------------------------------------------------------
(* palloc_free_multiple() *)

page_from_pool(p, page) == page >= base[p] /\ page < base[p] + size[p]

\* Finds the pool, and fills the pages with 0xcc.
Free(t) ==
  /\ At(t, "idle")
  /\ \E a \in held :
       /\ a.t = t
       /\ held' = held \ {a}
       /\ LET p == IF page_from_pool("kernel", a.first) THEN "kernel" ELSE "user"
          IN  Goto(t, [Idle EXCEPT !.pc = "clear", !.pool = p, !.cnt = a.cnt,
                                   !.idx = a.first - base[p]])
  /\ UNCHANGED <<geometry, used_map, lock>>

(* Mutant of Clear: clears the bit after the last as well. *)
Clear_inclusive(t) ==
  LET r == th[t]
  IN  /\ At(t, "clear")
      /\ used_map' = [used_map EXCEPT ![r.pool] = @ \ {r.idx + r.i}]
      /\ Goto(t, IF r.i = r.cnt THEN Idle ELSE [r EXCEPT !.i = @ + 1])
      /\ UNCHANGED <<geometry, lock, held>>

\* Clears one bit, without the pool's lock.
Clear(t) ==
  LET r == th[t]
  IN  /\ At(t, "clear")
      /\ used_map' = [used_map EXCEPT ![r.pool] = @ \ {r.idx + r.i}]
      /\ Goto(t, IF r.i + 1 = r.cnt THEN Idle ELSE [r EXCEPT !.i = @ + 1])
      /\ UNCHANGED <<geometry, lock, held>>

PallocNext ==
  \E t \in Caller :
    \/ \E p \in Pool, cnt \in 0 .. MaxCnt : Get(t, p, cnt)
    \/ LockAcquire(t) \/ Scan(t) \/ Flip(t) \/ Fail(t) \/ ReturnPages(t)
    \/ Free(t) \/ Clear(t)

PallocSpec == palloc_init /\ [][PallocNext]_palloc_vars

-----------------------------------------------------------------------------
(* Properties *)

\* Bits a thread has set, or not yet cleared, for a call in progress.
Mine(t, p) == LET r == th[t]
              IN  IF r.pool # p THEN {}
                  ELSE CASE r.pc = "flip" -> r.idx .. r.idx + r.i - 1
                         [] r.pc = "zero" -> Group(r)
                         [] r.pc = "clear" -> r.idx + r.i .. r.idx + r.cnt - 1
                         [] OTHER -> {}

HeldBits(p) == UNION {{g - base[p] : g \in Pages(a)} : a \in {b \in held : page_from_pool(p, b.first)}}

(* A set bit of a used_map is a page of one allocation that was returned,  *)
(* or of one call in progress, and of only one: nothing is handed out      *)
(* twice, filled with zeros or 0xcc while another owns it, or leaked,      *)
(* though freeing clears bits without the lock.  ASSERT (bitmap_all (...)) *)
(* in palloc_free_multiple() never fails: the bits to clear are set.       *)
UsedExact ==
  /\ \A p \in Pool : used_map[p] = HeldBits(p) \cup UNION {Mine(t, p) : t \in Caller}
  /\ \A a, b \in held : a # b => Pages(a) \cap Pages(b) = {}
  /\ \A p \in Pool, t \in Caller :
       /\ Mine(t, p) \cap HeldBits(p) = {}
       /\ \A u \in Caller \ {t} : Mine(t, p) \cap Mine(u, p) = {}

(* Pools lie above each other in RAM, each above the pages of its bitmap.  *)
InRam ==
  /\ base["kernel"] + size["kernel"] <= base["user"]
  /\ base["user"] + size["user"] <= ram
  /\ \A p \in Pool : bitmap_buf_size(size[p]) <= PGSIZE * (IF p = "kernel" THEN base[p]
                        ELSE base[p] - (base["kernel"] + size["kernel"]))

(* A call returns a null pointer only if no group of pages was free when   *)
(* it got the lock: pages freed while it scans cannot make it miss one.    *)
NullJustified == \A t \in Caller : At(t, "fail") => ~ th[t].possible

(* The bits of a pool are exactly the pages handed out, no page twice; the *)
(* pools and their bitmaps lie in RAM and do not overlap; and              *)
(* palloc_get_multiple() returns a null pointer only when the pages did    *)
(* not fit.                                                                *)
PoolsExact == UsedExact /\ InRam /\ NullJustified
=============================================================================
