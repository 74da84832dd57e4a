---------------------------- MODULE KernelProofs ----------------------------
(***************************************************************************)
(* Proofs about the parts of the kernel that stand alone: the page         *)
(* directories, the page allocator and interrupts.  Each part has its own  *)
(* constants, variables and specification, and its proofs mention no other *)
(* part.                                                                   *)
(*                                                                         *)
(* Page directories: the inductive invariant adds to the properties that a *)
(* cached entry has its accessed bit set in memory, and its dirty bit if   *)
(* it is cached as dirty: without it a write that hits the buffer could    *)
(* not be shown recorded.                                                  *)
(*                                                                         *)
(* Pages: the invariant adds that only the holder of a pool's lock scans   *)
(* its bits or sets one, that the bits a call has passed or found free     *)
(* stay so while others clear theirs without the lock, and that what a     *)
(* call holds and what was returned lie in one pool.                       *)
(*                                                                         *)
(* Interrupts: the invariant adds where a handler that keeps interrupts    *)
(* off may be on a stack, and which thread it belongs to.                  *)
(***************************************************************************)
EXTENDS Interrupt, PageDir, Palloc, Integers, TLAPS

-----------------------------------------------------------------------------
(* Page directories                                                        *)

PageDirInv == TypeOK /\ Coherent

(* An entry that is not NULL has the fields of an entry. *)
LEMMA EntryType ==
  ASSUME TypeOK, NEW pd \in Pd, NEW v \in VPage, pte[pd][v] # NULL
  PROVE  pte[pd][v] \in Entry
  BY DEF TypeOK

LEMMA PageDirInitInv == PageDirInit => PageDirInv
  BY PageDirAssumption DEF PageDirInit, PageDirInv, TypeOK, Coherent, NothingStale

(* What was used or written is an entry of some directory. *)
LEMMA Pair ==
  ASSUME TypeOK, NEW x \in written \cup used
  PROVE  x[1] \in Pd /\ x[2] \in VPage /\ x = <<x[1], x[2]>>
  BY DEF TypeOK

(* The invariant holds after the kernel wrote one entry if what stays      *)
(* cached of it and what stays recorded of it agree with the new entry.    *)
LEMMA WrittenInv ==
  ASSUME PageDirInv, NEW pd \in Pd, NEW v \in VPage, NEW n \in Entry,
         pte' = [pte EXCEPT ![pd][v] = n], cr3' = cr3,
         \A e \in tlb' : /\ e \in tlb
                         /\ cr3 = pd /\ e.v = v => /\ n.p /\ e.kpage = n.kpage /\ e.w = n.w
                                                  /\ n.a /\ (e.d => n.d),
         \A x \in written' : x \in written /\ (x = <<pd, v>> => n.d),
         \A x \in used' : x \in used /\ (x = <<pd, v>> => n.a)
  PROVE  PageDirInv'
<1>1. /\ pte' \in [Pd -> [VPage -> Entry \cup {NULL}]]
      /\ pte'[pd][v] = n /\ n # NULL
      /\ \A q \in Pd, w \in VPage : q # pd \/ w # v => pte'[q][w] = pte[q][w]
  <2>1. pte \in [Pd -> [VPage -> Entry \cup {NULL}]]
    BY Zenon DEF PageDirInv, TypeOK
  <2>2. n # NULL
    BY Zenon, PageDirAssumption
  <2>. QED  BY Zenon, <2>1, <2>2
<1>2. TypeOK'
  <2>1. /\ tlb \subseteq [v : VPage, kpage : KPage, w : BOOLEAN, d : BOOLEAN]
        /\ used \subseteq Pd \X VPage /\ written \subseteq Pd \X VPage /\ cr3 \in Pd
    BY Zenon DEF PageDirInv, TypeOK
  <2>2. tlb' \subseteq tlb /\ used' \subseteq used /\ written' \subseteq written
    BY Zenon
  <2>. QED  BY Zenon, <1>1, <2>1, <2>2 DEF TypeOK
<1>3. ASSUME NEW e \in tlb'
      PROVE  /\ pte'[cr3][e.v] # NULL /\ pte'[cr3][e.v].p
             /\ e.kpage = pte'[cr3][e.v].kpage /\ e.w = pte'[cr3][e.v].w
             /\ pte'[cr3][e.v].a /\ (e.d => pte'[cr3][e.v].d)
  <2>1. e \in tlb
    BY Zenon
  <2>2. cr3 \in Pd /\ e.v \in VPage
    BY <2>1 DEF PageDirInv, TypeOK
  <2>3. /\ pte[cr3][e.v] # NULL /\ pte[cr3][e.v].p
        /\ e.kpage = pte[cr3][e.v].kpage /\ e.w = pte[cr3][e.v].w
        /\ pte[cr3][e.v].a /\ (e.d => pte[cr3][e.v].d)
    BY Zenon, <2>1 DEF PageDirInv, Coherent, NothingStale
  <2>4. CASE cr3 = pd /\ e.v = v
    <3>1. pte'[cr3][e.v] = n
      BY Zenon, <1>1, <2>4
    <3>2. n.p /\ e.kpage = n.kpage /\ e.w = n.w /\ n.a /\ (e.d => n.d)
      BY Zenon, <2>4
    <3>. QED  BY Zenon, <1>1, <3>1, <3>2
  <2>5. CASE cr3 # pd \/ e.v # v
    <3>1. pte'[cr3][e.v] = pte[cr3][e.v]
      BY Zenon, <1>1, <2>2, <2>5
    <3>. QED  BY Zenon, <2>3, <3>1
  <2>. QED  BY Zenon, <2>4, <2>5
<1>4. ASSUME NEW x \in written'
      PROVE  pte'[x[1]][x[2]] # NULL /\ pte'[x[1]][x[2]].d
  <2>1. x \in written /\ x[1] \in Pd /\ x[2] \in VPage /\ x = <<x[1], x[2]>>
    BY Zenon, Pair DEF PageDirInv
  <2>2. pte[x[1]][x[2]] # NULL /\ pte[x[1]][x[2]].d
    BY Zenon, <2>1 DEF PageDirInv, Coherent
  <2>3. CASE x[1] = pd /\ x[2] = v
    <3>1. n.d /\ pte'[x[1]][x[2]] = n
      BY Zenon, <1>1, <2>1, <2>3
    <3>. QED  BY Zenon, <1>1, <3>1
  <2>4. CASE x[1] # pd \/ x[2] # v
    <3>1. pte'[x[1]][x[2]] = pte[x[1]][x[2]]
      BY Zenon, <1>1, <2>1, <2>4
    <3>. QED  BY Zenon, <2>2, <3>1
  <2>. QED  BY Zenon, <2>3, <2>4
<1>5. ASSUME NEW x \in used'
      PROVE  pte'[x[1]][x[2]] # NULL /\ pte'[x[1]][x[2]].a
  <2>1. x \in used /\ x[1] \in Pd /\ x[2] \in VPage /\ x = <<x[1], x[2]>>
    BY Zenon, Pair DEF PageDirInv
  <2>2. pte[x[1]][x[2]] # NULL /\ pte[x[1]][x[2]].a
    BY Zenon, <2>1 DEF PageDirInv, Coherent
  <2>3. CASE x[1] = pd /\ x[2] = v
    <3>1. n.a /\ pte'[x[1]][x[2]] = n
      BY Zenon, <1>1, <2>1, <2>3
    <3>. QED  BY Zenon, <1>1, <3>1
  <2>4. CASE x[1] # pd \/ x[2] # v
    <3>1. pte'[x[1]][x[2]] = pte[x[1]][x[2]]
      BY Zenon, <1>1, <2>1, <2>4
    <3>. QED  BY Zenon, <2>2, <3>1
  <2>. QED  BY Zenon, <2>3, <2>4
<1>6. Coherent'
  BY Zenon, <1>3, <1>4, <1>5 DEF Coherent, NothingStale
<1>. QED  BY Zenon, <1>2, <1>6 DEF PageDirInv

(* A cached entry is the one in memory, with its bits set. *)
LEMMA CachedIs ==
  ASSUME PageDirInv, NEW e \in tlb
  PROVE  /\ pte[cr3][e.v] # NULL /\ pte[cr3][e.v].p
         /\ e.kpage = pte[cr3][e.v].kpage /\ e.w = pte[cr3][e.v].w
         /\ pte[cr3][e.v].a /\ (e.d => pte[cr3][e.v].d)
  BY Zenon DEF PageDirInv, Coherent, NothingStale

LEMMA WrittenIs ==
  ASSUME PageDirInv, NEW pd, NEW v
  PROVE  /\ <<pd, v>> \in written => pte[pd][v].d
         /\ <<pd, v>> \in used => pte[pd][v].a
<1>1. <<pd, v>>[1] = pd /\ <<pd, v>>[2] = v
  OBVIOUS
<1>2. /\ \A x \in written : pte[x[1]][x[2]].d
      /\ \A x \in used : pte[x[1]][x[2]].a
  BY Zenon DEF PageDirInv, Coherent
<1>. QED  BY Zenon, <1>1, <1>2

(* pagedir_clear_page() drops what is cached of the directory. *)
LEMMA ClearInv ==
  ASSUME PageDirInv, NEW pd \in Pd, NEW v \in VPage, pagedir_clear_page(pd, v)
  PROVE  PageDirInv'
<1>1. pte[pd][v] \in Entry
  BY Zenon, EntryType DEF PageDirInv, pagedir_clear_page
<1>. DEFINE n == [pte[pd][v] EXCEPT !.p = FALSE]
<1>2. n \in Entry /\ n.a = pte[pd][v].a /\ n.d = pte[pd][v].d
  BY Zenon, <1>1 DEF Entry
<1>3. pte' = [pte EXCEPT ![pd][v] = n] /\ cr3' = cr3 /\ used' = used /\ written' = written
  BY Zenon DEF PageDirInv, TypeOK, pagedir_clear_page
<1>4. \A e \in tlb' : e \in tlb /\ cr3 # pd
  BY Zenon DEF pagedir_clear_page, invalidate_pagedir
<1>. HIDE DEF n
<1>5. \A x \in written' : x \in written /\ (x = <<pd, v>> => n.d)
  BY Zenon, <1>2, <1>3, WrittenIs
<1>6. \A x \in used' : x \in used /\ (x = <<pd, v>> => n.a)
  BY Zenon, <1>2, <1>3, WrittenIs
<1>. QED  BY Zenon, <1>2, <1>3, <1>4, <1>5, <1>6, WrittenInv

(* A bit is cleared with what is cached of the directory; setting it       *)
(* leaves the cached entry right.                                          *)
LEMMA DirtyInv ==
  ASSUME PageDirInv, NEW pd \in Pd, NEW v \in VPage, NEW b \in BOOLEAN, pagedir_set_dirty(pd, v, b)
  PROVE  PageDirInv'
<1>1. pte[pd][v] \in Entry
  BY Zenon, EntryType DEF PageDirInv, pagedir_set_dirty
<1>. DEFINE o == pte[pd][v]
            n == [o EXCEPT !.d = b]
<1>2. /\ n \in Entry /\ n.kpage = o.kpage /\ n.p = o.p /\ n.w = o.w /\ n.a = o.a /\ n.d = b
  BY Zenon, <1>1 DEF Entry
<1>3. pte' = [pte EXCEPT ![pd][v] = n] /\ cr3' = cr3 /\ used' = used
  BY Zenon DEF PageDirInv, TypeOK, pagedir_set_dirty
<1>4. \A e \in tlb' : e \in tlb /\ (cr3 = pd => b)
  BY Zenon DEF pagedir_set_dirty, invalidate_pagedir
<1>5. \A x \in written' : x \in written /\ (x = <<pd, v>> => b)
  BY Zenon DEF pagedir_set_dirty
<1>. HIDE DEF n
<1>6. ASSUME NEW e \in tlb', cr3 = pd, e.v = v
      PROVE  n.p /\ e.kpage = n.kpage /\ e.w = n.w /\ n.a /\ (e.d => n.d)
  BY Zenon, <1>2, <1>4, <1>6, CachedIs
<1>7. \A x \in used' : x \in used /\ (x = <<pd, v>> => n.a)
  BY Zenon, <1>2, <1>3, WrittenIs
<1>8. \A x \in written' : x \in written /\ (x = <<pd, v>> => n.d)
  BY Zenon, <1>2, <1>5
<1>. QED  BY Zenon, <1>2, <1>3, <1>4, <1>6, <1>7, <1>8, WrittenInv

LEMMA AccessedInv ==
  ASSUME PageDirInv, NEW pd \in Pd, NEW v \in VPage, NEW b \in BOOLEAN, pagedir_set_accessed(pd, v, b)
  PROVE  PageDirInv'
<1>1. pte[pd][v] \in Entry
  BY Zenon, EntryType DEF PageDirInv, pagedir_set_accessed
<1>. DEFINE o == pte[pd][v]
            n == [o EXCEPT !.a = b]
<1>2. /\ n \in Entry /\ n.kpage = o.kpage /\ n.p = o.p /\ n.w = o.w /\ n.a = b /\ n.d = o.d
  BY Zenon, <1>1 DEF Entry
<1>3. pte' = [pte EXCEPT ![pd][v] = n] /\ cr3' = cr3 /\ written' = written
  BY Zenon DEF PageDirInv, TypeOK, pagedir_set_accessed
<1>4. \A e \in tlb' : e \in tlb /\ (cr3 = pd => b)
  BY Zenon DEF pagedir_set_accessed, invalidate_pagedir
<1>5. \A x \in used' : x \in used /\ (x = <<pd, v>> => b)
  BY Zenon DEF pagedir_set_accessed
<1>. HIDE DEF n
<1>6. ASSUME NEW e \in tlb', cr3 = pd, e.v = v
      PROVE  n.p /\ e.kpage = n.kpage /\ e.w = n.w /\ n.a /\ (e.d => n.d)
  BY Zenon, <1>2, <1>4, <1>6, CachedIs
<1>7. \A x \in written' : x \in written /\ (x = <<pd, v>> => n.d)
  BY Zenon, <1>2, <1>3, WrittenIs
<1>8. \A x \in used' : x \in used /\ (x = <<pd, v>> => n.a)
  BY Zenon, <1>2, <1>5
<1>. QED  BY Zenon, <1>2, <1>3, <1>4, <1>6, <1>7, <1>8, WrittenInv

(* A page is only installed where none is present, and what is not present *)
(* is not cached.                                                          *)
LEMMA SetPageInv ==
  ASSUME PageDirInv, NEW pd \in Pd, NEW v \in VPage, NEW k \in KPage, NEW b \in BOOLEAN,
         pagedir_set_page(pd, v, k, b)
  PROVE  PageDirInv'
<1>. DEFINE n == [kpage |-> k, p |-> TRUE, w |-> b, a |-> FALSE, d |-> FALSE]
<1>1. n \in Entry
  BY Zenon DEF Entry
<1>2. /\ pte' = [pte EXCEPT ![pd][v] = n] /\ cr3' = cr3 /\ tlb' = tlb
      /\ used' = used \ {<<pd, v>>} /\ written' = written \ {<<pd, v>>}
      /\ pte[pd][v] # NULL => ~ pte[pd][v].p
  BY Zenon DEF pagedir_set_page
<1>3. ASSUME NEW e \in tlb, cr3 = pd, e.v = v
      PROVE  FALSE
  BY Zenon, <1>2, <1>3, CachedIs
<1>. HIDE DEF n
<1>. QED  BY Zenon, <1>1, <1>2, <1>3, WrittenInv

(* A hit finds the bits set already, a walk sets them. *)
LEMMA AccessInv ==
  ASSUME PageDirInv, NEW v \in VPage, NEW b \in BOOLEAN, Access(v, b)
  PROVE  PageDirInv'
<1>1. CASE Hit(v, b)
  <2>1. PICK e \in tlb : e.v = v /\ (b => e.w /\ e.d)
    BY <1>1 DEF Hit, Cached
  <2>2. pte[cr3][v] # NULL /\ pte[cr3][v].a /\ (b => pte[cr3][v].d)
    BY Zenon, <2>1 DEF PageDirInv, Coherent, NothingStale
  <2>3. UNCHANGED <<pte, tlb, cr3>>
    BY <1>1 DEF Hit, Access
  <2>4. TypeOK'
    BY <2>3 DEF PageDirInv, TypeOK, Access
  <2>5. Coherent'
    <3>1. /\ \A x \in written' : x \in written \/ (b /\ x = <<cr3, v>>)
          /\ \A x \in used' : x \in used \/ x = <<cr3, v>>
      BY Zenon DEF Access
    <3>2. <<cr3, v>>[1] = cr3 /\ <<cr3, v>>[2] = v
      OBVIOUS
    <3>3. pte' = pte /\ tlb' = tlb /\ cr3' = cr3
      BY Zenon, <2>3
    <3>4. /\ \A x \in written' : pte'[x[1]][x[2]] # NULL /\ pte'[x[1]][x[2]].d
          /\ \A x \in used' : pte'[x[1]][x[2]] # NULL /\ pte'[x[1]][x[2]].a
      BY Zenon, <2>2, <3>1, <3>2, <3>3 DEF PageDirInv, Coherent
    <3>. QED  BY Zenon, <3>3, <3>4 DEF PageDirInv, Coherent, NothingStale
  <2>. QED  BY <2>4, <2>5 DEF PageDirInv
<1>2. CASE Walk(v, b)
  <2>1. pte[cr3][v] # NULL /\ pte[cr3][v].p
    BY <1>2 DEF Walk
  <2>2. pte[cr3][v] \in Entry
    BY <2>1, EntryType DEF PageDirInv, TypeOK
  <2>3. PICK old \in Entry : old = pte[cr3][v]
    BY <2>2
  <2>. DEFINE n == [old EXCEPT !.a = TRUE, !.d = @ \/ b]
              c == [v |-> v, kpage |-> old.kpage, w |-> old.w, d |-> old.d \/ b]
  <2>4. n \in Entry /\ n # NULL /\ n.a /\ n.p = old.p /\ n.w = old.w /\ n.kpage = old.kpage
        /\ n.d = (old.d \/ b) /\ (old.d \/ b) \in BOOLEAN
    BY Zenon, PageDirAssumption DEF Entry
  <2>5. pte' = [pte EXCEPT ![cr3] = [pte[cr3] EXCEPT ![v] = n]]
    BY Zenon, <1>2, <2>3 DEF Walk, PageDirInv, TypeOK
  <2>6. tlb' = (tlb \ Cached(v)) \cup {c} /\ cr3' = cr3
    BY <1>2, <2>3 DEF Walk, Access
  <2>7. c \in [v : VPage, kpage : KPage, w : BOOLEAN, d : BOOLEAN]
    BY <2>3, <2>4 DEF Entry
  <2>8. TypeOK'
    <3>. HIDE DEF n, c
    <3>1. pte' \in [Pd -> [VPage -> Entry \cup {NULL}]]
      BY <2>4, <2>5 DEF PageDirInv, TypeOK
    <3>2. tlb' \subseteq [v : VPage, kpage : KPage, w : BOOLEAN, d : BOOLEAN]
      BY <2>6, <2>7 DEF PageDirInv, TypeOK
    <3>3. cr3' \in Pd /\ used' \subseteq Pd \X VPage /\ written' \subseteq Pd \X VPage
      BY DEF PageDirInv, TypeOK, Access
    <3>. QED  BY <3>1, <3>2, <3>3 DEF TypeOK
  <2>9. pte'[cr3][v] = n /\ \A pd \in Pd, u \in VPage : pd # cr3 \/ u # v => pte'[pd][u] = pte[pd][u]
    BY <2>5 DEF PageDirInv, TypeOK
  <2>10. \A e \in tlb' : e = c \/ (e \in tlb /\ e.v # v)
    BY Zenon, <2>6 DEF Cached
  <2>11. \A e \in tlb' : /\ pte'[cr3][e.v] # NULL /\ pte'[cr3][e.v].p
                         /\ e.kpage = pte'[cr3][e.v].kpage /\ e.w = pte'[cr3][e.v].w
                         /\ pte'[cr3][e.v].a /\ (e.d => pte'[cr3][e.v].d)
    <3>. SUFFICES ASSUME NEW e \in tlb'
                  PROVE  /\ pte'[cr3][e.v] # NULL /\ pte'[cr3][e.v].p
                         /\ e.kpage = pte'[cr3][e.v].kpage /\ e.w = pte'[cr3][e.v].w
                         /\ pte'[cr3][e.v].a /\ (e.d => pte'[cr3][e.v].d)
      BY Zenon
    <3>1. CASE e = c
      BY Zenon, <3>1, <2>1, <2>3, <2>4, <2>9
    <3>2. CASE e \in tlb /\ e.v # v
      <4>1. cr3 \in Pd /\ e.v \in VPage
        BY <3>2 DEF PageDirInv, TypeOK
      <4>2. pte'[cr3][e.v] = pte[cr3][e.v]
        BY Zenon, <2>9, <3>2, <4>1
      <4>. QED  BY Zenon, <3>2, <4>2, CachedIs
    <3>. QED  BY Zenon, <3>1, <3>2, <2>10
  <2>12. \A x \in written' : pte'[x[1]][x[2]] # NULL /\ pte'[x[1]][x[2]].d
    <3>. SUFFICES ASSUME NEW x \in written'
                  PROVE  pte'[x[1]][x[2]] # NULL /\ pte'[x[1]][x[2]].d
      OBVIOUS
    <3>1. x \in written \/ (b /\ x = <<cr3, v>>)
      BY DEF Access
    <3>2. CASE b /\ x = <<cr3, v>>
      BY Zenon, <3>2, <2>4, <2>9
    <3>3. CASE x \in written
      <4>1. x[1] \in Pd /\ x[2] \in VPage /\ pte[x[1]][x[2]] # NULL /\ pte[x[1]][x[2]].d
        BY <3>3 DEF PageDirInv, TypeOK, Coherent
      <4>. QED  BY ZenonT(60), <4>1, <2>3, <2>4, <2>9
    <3>. QED  BY <3>1, <3>2, <3>3
  <2>13. \A x \in used' : pte'[x[1]][x[2]] # NULL /\ pte'[x[1]][x[2]].a
    <3>. SUFFICES ASSUME NEW x \in used'
                  PROVE  pte'[x[1]][x[2]] # NULL /\ pte'[x[1]][x[2]].a
      OBVIOUS
    <3>1. x \in used \/ x = <<cr3, v>>
      BY DEF Access
    <3>2. CASE x = <<cr3, v>>
      BY Zenon, <3>2, <2>4, <2>9
    <3>3. CASE x \in used
      <4>1. x[1] \in Pd /\ x[2] \in VPage /\ pte[x[1]][x[2]] # NULL /\ pte[x[1]][x[2]].a
        BY <3>3 DEF PageDirInv, TypeOK, Coherent
      <4>2. CASE x[1] = cr3 /\ x[2] = v
        BY <4>2, <2>4, <2>9
      <4>3. CASE ~ (x[1] = cr3 /\ x[2] = v)
        BY <4>1, <4>3, <2>9
      <4>. QED  BY <4>2, <4>3
    <3>. QED  BY <3>1, <3>2, <3>3
  <2>14. Coherent'
    BY Zenon, <2>6, <2>11, <2>12, <2>13 DEF Coherent, NothingStale
  <2>. QED  BY <2>8, <2>14 DEF PageDirInv
<1>. QED  BY <1>1, <1>2 DEF Access

LEMMA PageDirStepInv == PageDirInv /\ [PageDirNext]_pagedir_vars => PageDirInv'
<1>. SUFFICES ASSUME PageDirInv, [PageDirNext]_pagedir_vars PROVE PageDirInv'
  OBVIOUS
<1>1. CASE Evict
  BY Zenon, <1>1 DEF Evict, PageDirInv, TypeOK, Coherent, NothingStale
<1>2. CASE \E pd \in Pd : pagedir_activate(pd)
  BY Zenon, <1>2 DEF pagedir_activate, PageDirInv, TypeOK, Coherent, NothingStale
<1>3. CASE UNCHANGED pagedir_vars
  BY Zenon, <1>3 DEF pagedir_vars, PageDirInv, TypeOK, Coherent, NothingStale
<1>. QED  BY <1>1, <1>2, <1>3, AccessInv, ClearInv, SetPageInv, DirtyInv, AccessedInv DEF PageDirNext, User

(* The dirty bit misses no write, the accessed bit no access, and a page   *)
(* that was cleared cannot be reached, whatever the order of the kernel's  *)
(* calls and the processor's accesses and evictions.                       *)
THEOREM TranslationsCoherent == PageDirSpec => []TranslationsRight
<1>1. PageDirInv => TranslationsRight
  BY DEF PageDirInv, Coherent, TranslationsRight, DirtyTracked, AccessedTracked
<1>. QED  BY PageDirInitInv, PageDirStepInv, <1>1, PTL DEF PageDirSpec

-----------------------------------------------------------------------------
(* Pools of pages                                                          *)

CallState ==
  [pc : {"idle", "lock", "scan", "flip", "fail", "zero", "clear"}, pool : Pool, cnt : Nat,
   idx : Nat, i : Nat, possible : BOOLEAN]

PallocTypeOK ==
  /\ ram \in Nat /\ base \in [Pool -> Nat] /\ size \in [Pool -> Nat]
  /\ used_map \in [Pool -> SUBSET Nat] /\ lock \in [Pool -> Caller \cup {Nobody}]
  /\ th \in [Caller -> CallState]
  /\ held \subseteq [t : Caller, first : Nat, cnt : Nat \ {0}]

InPool(a, p) == base[p] <= a.first /\ a.first + a.cnt <= base[p] + size[p]

HeldRight == \A a \in held : \E p \in Pool : InPool(a, p)

\* What a call in progress relies on: the group it will set or clear is in
\* the pool; what it has scanned, or has still to set, is clear; and a group
\* that was free when it got the lock is still ahead of the scan.
CallRight(r) ==
  /\ r.pc # "idle" => r.cnt > 0
  /\ r.pc = "lock" => r.idx = 0 /\ r.i = 0
  /\ r.pc \in {"flip", "zero", "clear"} => r.idx + r.cnt <= size[r.pool]
  /\ r.pc \in {"scan", "flip"} => r.i <= r.cnt
  /\ r.pc = "clear" => r.i < r.cnt
  /\ r.pc = "scan" => (r.idx .. r.idx + r.i - 1) \cap used_map[r.pool] = {}
  /\ r.pc = "scan" /\ r.possible => \E g \in FreeGroups(r.pool, r.cnt) : g >= r.idx
  /\ r.pc = "flip" => (r.idx + r.i .. r.idx + r.cnt - 1) \cap used_map[r.pool] = {}
  /\ r.pc = "fail" => ~r.possible

\* Only the holder of a pool's lock scans it or sets bits.
LockRight ==
  \A t \in Caller, p \in Pool :
    lock[p] = t <=> th[t].pc \in {"scan", "flip", "fail"} /\ th[t].pool = p

PallocInv ==
  /\ PallocTypeOK /\ InRam /\ HeldRight /\ LockRight /\ UsedExact
  /\ \A t \in Caller : CallRight(th[t])

-----------------------------------------------------------------------------
(* The pools and their bitmaps.                                            *)

LEMMA CallFields ==
  ASSUME NEW c \in CallState
  PROVE  c.pool \in Pool /\ c.cnt \in Nat /\ c.idx \in Nat /\ c.i \in Nat
  BY DEF CallState

LEMMA PoolFields ==
  ASSUME PallocTypeOK, NEW q \in Pool
  PROVE  base[q] \in Nat /\ size[q] \in Nat
  BY Zenon DEF PallocTypeOK

LEMMA RoundUp ==
  ASSUME NEW x \in Nat, NEW s \in Nat \ {0}
  PROVE  DIV_ROUND_UP(x, s) \in Nat /\ x <= s * DIV_ROUND_UP(x, s)
  BY DEF DIV_ROUND_UP

LEMMA RoundMonotone ==
  ASSUME NEW x \in Nat, NEW y \in Nat, x <= y, NEW s \in Nat \ {0}
  PROVE  DIV_ROUND_UP(x, s) <= DIV_ROUND_UP(y, s)
  BY DEF DIV_ROUND_UP

(* The pages set aside for a bitmap hold it. *)
LEMMA BitmapFits ==
  ASSUME NEW n \in Nat, NEW k \in Nat, k <= n
  PROVE  /\ bm_pages(n) \in Nat
         /\ bitmap_buf_size(k) <= PGSIZE * bm_pages(n)
<1>1. /\ PGSIZE \in Nat \ {0} /\ ElemSize \in Nat \ {0} /\ ELEM_BITS \in Nat \ {0} /\ BitmapHeader \in Nat
  BY PallocAssumption
<1>2. /\ DIV_ROUND_UP(n, ELEM_BITS) \in Nat /\ DIV_ROUND_UP(k, ELEM_BITS) \in Nat
      /\ DIV_ROUND_UP(k, ELEM_BITS) <= DIV_ROUND_UP(n, ELEM_BITS)
  BY <1>1, RoundUp, RoundMonotone
<1>3. /\ bitmap_buf_size(n) \in Nat /\ bitmap_buf_size(k) \in Nat
      /\ bitmap_buf_size(k) <= bitmap_buf_size(n)
  <2>1. ASSUME NEW a \in Nat, NEW b \in Nat, NEW c \in Nat, a <= b
        PROVE  c * a <= c * b /\ c * a \in Nat /\ c * b \in Nat
    BY <2>1
  <2>. QED  BY <1>1, <1>2, <2>1 DEF bitmap_buf_size
<1>4. bm_pages(n) \in Nat /\ bitmap_buf_size(n) <= PGSIZE * bm_pages(n)
  BY <1>1, <1>3, RoundUp DEF bm_pages
<1>5. PGSIZE * bm_pages(n) \in Nat
  BY <1>1, <1>4
<1>. QED  BY <1>3, <1>4, <1>5

LEMMA PoolsInRam ==
  ASSUME palloc_init
  PROVE  InRam /\ ram \in Nat
<1>1. PICK m \in Machine :
        LET up == user_pages(m[1], m[2])
        IN  /\ ram = m[1] /\ base \in [Pool -> 0 .. ram] /\ size \in [Pool -> 0 .. ram]
            /\ init_pool("kernel", 0, ram - up)
            /\ init_pool("user", ram - up, up)
  BY DEF palloc_init
<1>. DEFINE up == user_pages(m[1], m[2])
<1>2. ram \in Nat /\ m[1] \in Nat /\ m[2] \in Nat
  BY <1>1, PallocAssumption
<1>3. up \in Nat /\ up <= ram
  BY <1>1, <1>2 DEF user_pages
<1>4. init_pool("kernel", 0, ram - up) /\ init_pool("user", ram - up, up)
  BY <1>1
<1>. HIDE DEF up
<1>5. ram - up \in Nat /\ bm_pages(ram - up) \in Nat /\ bm_pages(up) \in Nat
  BY <1>2, <1>3, BitmapFits
<1>6. /\ base["kernel"] = bm_pages(ram - up) /\ size["kernel"] = (ram - up) - bm_pages(ram - up)
      /\ base["user"] = ram - up + bm_pages(up) /\ size["user"] = up - bm_pages(up)
      /\ size["kernel"] \in Nat /\ size["kernel"] <= ram - up
      /\ size["user"] \in Nat /\ size["user"] <= up
  BY <1>2, <1>3, <1>4, <1>5 DEF init_pool
<1>7. /\ base["kernel"] + size["kernel"] = ram - up
      /\ base["user"] + size["user"] = ram
      /\ base["user"] - (base["kernel"] + size["kernel"]) = bm_pages(up)
      /\ base["kernel"] + size["kernel"] <= base["user"]
  BY <1>2, <1>3, <1>5, <1>6
<1>8. /\ bitmap_buf_size(size["kernel"]) <= PGSIZE * base["kernel"]
      /\ bitmap_buf_size(size["user"]) <= PGSIZE * (base["user"] - (base["kernel"] + size["kernel"]))
  BY <1>3, <1>5, <1>6, <1>7, BitmapFits
<1>9. ram <= ram
  BY <1>2
<1>. QED  BY <1>2, <1>7, <1>8, <1>9 DEF InRam, Pool

LEMMA PallocInitInv ==
  ASSUME palloc_init
  PROVE  PallocInv
<1>1. /\ used_map = [p \in Pool |-> {}] /\ lock = [p \in Pool |-> Nobody]
      /\ th = [t \in Caller |-> Idle] /\ held = {}
      /\ base \in [Pool -> 0 .. ram] /\ size \in [Pool -> 0 .. ram]
  BY DEF palloc_init
<1>2. Idle \in CallState /\ Idle.pc = "idle"
  BY DEF Idle, CallState, Pool
<1>3. InRam /\ ram \in Nat
  BY PoolsInRam
<1>4. base \in [Pool -> Nat] /\ size \in [Pool -> Nat]
  BY <1>1, <1>3
<1>5. PallocTypeOK
  BY <1>1, <1>2, <1>3, <1>4 DEF PallocTypeOK
<1>6. HeldRight /\ LockRight /\ \A t \in Caller : CallRight(th[t])
  BY <1>1, <1>2, PallocAssumption DEF HeldRight, LockRight, CallRight
<1>7. UsedExact
  <2>1. \A p \in Pool : HeldBits(p) = {} /\ \A t \in Caller : Mine(t, p) = {}
    BY <1>1, <1>2 DEF HeldBits, Mine
  <2>. QED  BY <1>1, <2>1 DEF UsedExact
<1>. QED  BY <1>3, <1>5, <1>6, <1>7 DEF PallocInv

-----------------------------------------------------------------------------
(* Who owns a bit.                                                         *)

Allocation == [t : Caller, first : Nat, cnt : Nat \ {0}]

Bits(hs, p) == UNION {{g - base[p] : g \in Pages(a)} : a \in {b \in hs : page_from_pool(p, b.first)}}

MineOf(r, p) ==
  IF r.pool # p THEN {}
  ELSE CASE r.pc = "flip" -> r.idx .. r.idx + r.i - 1
         [] r.pc = "zero" -> Group(r)
         [] r.pc = "clear" -> r.idx + r.i .. r.idx + r.cnt - 1
         [] OTHER -> {}

LEMMA MineIs ==
  /\ \A t, p : Mine(t, p) = MineOf(th[t], p)
  /\ \A t, p : Mine(t, p)' = MineOf(th'[t], p)
  BY DEF Mine, MineOf, Group

LEMMA BitsAre ==
  /\ \A p : HeldBits(p) = Bits(held, p)
  /\ UNCHANGED geometry => \A p : HeldBits(p)' = Bits(held', p)
  BY DEF HeldBits, Bits, page_from_pool, geometry

LEMMA BitOf ==
  ASSUME PallocTypeOK, NEW p \in Pool, NEW hs, hs \subseteq Allocation
  PROVE  \A b : b \in Bits(hs, p) <=>
           b \in Nat /\ \E a \in hs : page_from_pool(p, a.first) /\ b + base[p] \in Pages(a)
<1>1. base[p] \in Nat /\ \A a \in hs : a.first \in Nat /\ a.cnt \in Nat
  BY DEF PallocTypeOK, Allocation
<1>2. ASSUME NEW b, b \in Bits(hs, p)
      PROVE  b \in Nat /\ \E a \in hs : page_from_pool(p, a.first) /\ b + base[p] \in Pages(a)
  <2>1. PICK a \in hs : page_from_pool(p, a.first) /\ b \in {g - base[p] : g \in Pages(a)}
    BY <1>2 DEF Bits
  <2>2. PICK g \in Pages(a) : b = g - base[p]
    BY <2>1
  <2>3. g \in Int /\ g >= a.first /\ a.first >= base[p]
    BY <1>1, <2>1, <2>2 DEF Pages, page_from_pool
  <2>. QED  BY <1>1, <2>1, <2>2, <2>3
<1>3. ASSUME NEW b \in Nat, NEW a \in hs, page_from_pool(p, a.first), b + base[p] \in Pages(a)
      PROVE  b \in Bits(hs, p)
  <2>1. b = (b + base[p]) - base[p]
    BY <1>1
  <2>. QED  BY <1>3, <2>1 DEF Bits
<1>. QED  BY <1>2, <1>3

(* An allocation that lies in a pool is found there by page_from_pool(),   *)
(* and in no other pool.                                                   *)
LEMMA PoolOf ==
  ASSUME PallocTypeOK, InRam, NEW a \in Allocation, NEW p \in Pool, InPool(a, p), NEW q \in Pool
  PROVE  page_from_pool(q, a.first) <=> q = p
<1>1. /\ base \in [Pool -> Nat] /\ size \in [Pool -> Nat] /\ a.first \in Nat /\ a.cnt \in Nat \ {0}
  BY DEF PallocTypeOK, Allocation
<1>2. /\ base["kernel"] \in Nat /\ base["user"] \in Nat /\ size["kernel"] \in Nat /\ size["user"] \in Nat
      /\ base["kernel"] + size["kernel"] <= base["user"]
      /\ p \in {"kernel", "user"} /\ q \in {"kernel", "user"}
  BY <1>1 DEF InRam, Pool
<1>3. base[p] <= a.first /\ a.first + a.cnt <= base[p] + size[p]
  BY DEF InPool
<1>4. page_from_pool(p, a.first)
  BY SMTT(30), <1>1, <1>3 DEF page_from_pool
<1>5. CASE p = "kernel" /\ q = "user"
  <2>1. ~(a.first >= base["user"])
    BY <1>1, <1>2, <1>3, <1>5
  <2>. QED  BY <1>5, <2>1 DEF page_from_pool
<1>6. CASE p = "user" /\ q = "kernel"
  <2>1. ~(a.first < base["kernel"] + size["kernel"])
    BY <1>1, <1>2, <1>3, <1>6
  <2>. QED  BY <1>6, <2>1 DEF page_from_pool
<1>. QED  BY <1>2, <1>4, <1>5, <1>6

LEMMA UsedIs ==
  ASSUME UsedExact
  PROVE  \A q \in Pool : \A x : x \in used_map[q] <=> x \in HeldBits(q) \/ \E u \in Caller : x \in Mine(u, q)
  BY DEF UsedExact

LEMMA UsedIsPrime ==
  ASSUME \A q \in Pool : \A x : x \in used_map'[q] <=>
           x \in HeldBits(q)' \/ \E u \in Caller : x \in Mine(u, q)',
         \A a, b \in held' : a # b => Pages(a) \cap Pages(b) = {},
         \A q \in Pool, u \in Caller :
            /\ Mine(u, q)' \cap HeldBits(q)' = {}
            /\ \A v \in Caller \ {u} : Mine(u, q)' \cap Mine(v, q)' = {}
  PROVE  UsedExact'
<1>1. ASSUME NEW q \in Pool
      PROVE  used_map'[q] = HeldBits(q)' \cup UNION {Mine(u, q)' : u \in Caller}
  <2>1. \A x : x \in UNION {Mine(u, q)' : u \in Caller} <=> \E u \in Caller : x \in Mine(u, q)'
    OBVIOUS
  <2>2. \A x : x \in used_map'[q] <=> x \in HeldBits(q)' \/ x \in UNION {Mine(u, q)' : u \in Caller}
    BY <2>1
  <2>. QED  BY <2>2
<1>. QED  BY <1>1 DEF UsedExact, Pages

LEMMA OwnersKept ==
  ASSUME UsedExact, UNCHANGED <<geometry, used_map, held>>,
         \A t \in Caller, p \in Pool : MineOf(th'[t], p) = MineOf(th[t], p)
  PROVE  UsedExact'
<1>1. \A t \in Caller, p \in Pool : Mine(t, p)' = Mine(t, p)
  BY MineIs
<1>2. \A p \in Pool : HeldBits(p)' = HeldBits(p)
  BY Zenon, BitsAre
<1>. QED  BY <1>1, <1>2 DEF UsedExact, Pages

(* What a call of another thread relies on stays true while bits are only  *)
(* cleared, or set by a thread that has the lock.                          *)
LEMMA OtherCall ==
  ASSUME NEW r \in CallState, CallRight(r), UNCHANGED geometry,
         \/ used_map'[r.pool] \subseteq used_map[r.pool]
         \/ r.pc \notin {"scan", "flip"}
  PROVE  CallRight(r)'
<1>1. UNCHANGED size
  BY DEF geometry
<1>2. used_map'[r.pool] \subseteq used_map[r.pool] => FreeGroups(r.pool, r.cnt) \subseteq FreeGroups(r.pool, r.cnt)'
  BY <1>1 DEF FreeGroups
<1>. QED  BY <1>1, <1>2 DEF CallRight

(* One thread moves on. *)
LEMMA Moves ==
  ASSUME PallocInv, NEW t \in Caller, NEW r \in CallState, Goto(t, r), UNCHANGED geometry
  PROVE  /\ th' \in [Caller -> CallState] /\ th'[t] = r /\ \A u \in Caller \ {t} : th'[u] = th[u]
         /\ InRam' /\ th[t] \in CallState /\ CallRight(th[t])
         /\ base' \in [Pool -> Nat] /\ size' \in [Pool -> Nat] /\ ram' \in Nat
<1>1. th' \in [Caller -> CallState] /\ th'[t] = r /\ \A u \in Caller \ {t} : th'[u] = th[u]
  BY DEF PallocInv, PallocTypeOK, Goto
<1>2. InRam'
  BY DEF PallocInv, InRam, geometry
<1>. QED  BY <1>1, <1>2 DEF PallocInv, PallocTypeOK, geometry

(* A step of a call that sets and clears no bit and keeps the allocations. *)
LEMMA QuietStep ==
  ASSUME PallocInv, NEW t \in Caller, NEW r \in CallState, Goto(t, r), CallRight(r),
         UNCHANGED <<geometry, used_map, held>>,
         lock' \in [Pool -> Caller \cup {Nobody}], LockRight',
         \A p \in Pool : MineOf(r, p) = MineOf(th[t], p)
  PROVE  PallocInv'
<1>1. /\ th' \in [Caller -> CallState] /\ th'[t] = r /\ \A u \in Caller \ {t} : th'[u] = th[u]
      /\ InRam' /\ base' \in [Pool -> Nat] /\ size' \in [Pool -> Nat] /\ ram' \in Nat
  BY Moves
<1>2. PallocTypeOK'
  BY <1>1 DEF PallocInv, PallocTypeOK
<1>3. HeldRight'
  BY DEF PallocInv, HeldRight, InPool, geometry
<1>4. UsedExact'
  <2>1. \A u \in Caller, p \in Pool : MineOf(th'[u], p) = MineOf(th[u], p)
    BY Zenon, <1>1
  <2>. QED  BY <2>1, OwnersKept DEF PallocInv
<1>5. \A u \in Caller : CallRight(th[u])'
  <2>1. \A u \in Caller : th'[u] \in CallState /\ CallRight(th'[u])
    BY <1>1 DEF PallocInv
  <2>2. ASSUME NEW q \in CallState, CallRight(q)
        PROVE  CallRight(q)'
    BY Zenon, <2>2, OtherCall
  <2>3. ASSUME NEW u \in Caller
        PROVE  CallRight(th[u])'
    <3>1. PICK q \in CallState : q = th'[u] /\ CallRight(q)
      BY Zenon, <2>1
    <3>2. CallRight(q)'
      BY Zenon, <2>2, <3>1
    <3>. QED  BY Zenon, <3>1, <3>2 DEF CallRight, FreeGroups
  <2>. QED  BY Zenon, <2>3
<1>. QED  BY <1>1, <1>2, <1>3, <1>4, <1>5 DEF PallocInv

LEMMA IdleIs ==
  /\ Idle \in CallState /\ Idle.pc = "idle" /\ CallRight(Idle)
  /\ \A p : MineOf(Idle, p) = {}
<1>1. Idle \in CallState /\ Idle.pc = "idle"
  BY Zenon DEF Idle, CallState, Pool
<1>. QED  BY <1>1 DEF CallRight, MineOf

(* The step of a thread that has no lock before or after it. *)
LEMMA HoldsNoLock ==
  ASSUME PallocInv, NEW t \in Caller, NEW r, th'[t] = r, \A u \in Caller \ {t} : th'[u] = th[u],
         UNCHANGED lock, r.pc \notin {"scan", "flip", "fail"}, th[t].pc \notin {"scan", "flip", "fail"}
  PROVE  LockRight' /\ lock' \in [Pool -> Caller \cup {Nobody}]
<1>1. LockRight /\ lock \in [Pool -> Caller \cup {Nobody}]
  BY Zenon DEF PallocInv, PallocTypeOK
<1>2. LockRight'
  <2>. SUFFICES ASSUME NEW u \in Caller, NEW p \in Pool
                PROVE  lock'[p] = u <=> th'[u].pc \in {"scan", "flip", "fail"} /\ th'[u].pool = p
    BY Zenon DEF LockRight
  <2>1. lock[p] = u <=> th[u].pc \in {"scan", "flip", "fail"} /\ th[u].pool = p
    BY <1>1 DEF LockRight
  <2>2. CASE u = t
    <3>1. lock'[p] # t
      BY Zenon, <2>1, <2>2
    <3>2. th'[t].pc \notin {"scan", "flip", "fail"}
      BY Zenon
    <3>. QED  BY Zenon, <2>2, <3>1, <3>2
  <2>3. CASE u # t
    BY Zenon, <2>1, <2>3
  <2>. QED  BY Zenon, <2>2, <2>3
<1>. QED  BY Zenon, <1>1, <1>2

LEMMA GetInv ==
  ASSUME PallocInv, NEW t \in Caller, NEW p \in Pool, NEW cnt \in Nat, Get(t, p, cnt)
  PROVE  PallocInv'
<1>. DEFINE r == IF cnt = 0 THEN Idle ELSE [Idle EXCEPT !.pc = "lock", !.pool = p, !.cnt = cnt]
<1>1. /\ Goto(t, r) /\ UNCHANGED <<geometry, used_map, lock, held>> /\ th[t].pc = "idle"
  BY DEF Get, At
<1>2. r \in CallState /\ r.pc \in {"idle", "lock"} /\ (r.pc = "lock" => r.cnt > 0 /\ r.idx = 0 /\ r.i = 0)
  <2>1. cnt # 0 => [Idle EXCEPT !.pc = "lock", !.pool = p, !.cnt = cnt] \in CallState
                   /\ [Idle EXCEPT !.pc = "lock", !.pool = p, !.cnt = cnt].pc = "lock"
                   /\ [Idle EXCEPT !.pc = "lock", !.pool = p, !.cnt = cnt].cnt = cnt
                   /\ [Idle EXCEPT !.pc = "lock", !.pool = p, !.cnt = cnt].idx = 0
                   /\ [Idle EXCEPT !.pc = "lock", !.pool = p, !.cnt = cnt].i = 0
    BY Zenon DEF Idle, CallState, Pool
  <2>. QED  BY <2>1, IdleIs
<1>. HIDE DEF r
<1>3. CallRight(r)
  BY <1>2 DEF CallRight
<1>4. \A q \in Pool : MineOf(r, q) = MineOf(th[t], q)
  BY Zenon, <1>1, <1>2 DEF MineOf
<1>5. LockRight' /\ lock' \in [Pool -> Caller \cup {Nobody}]
  <2>1. th'[t] = r /\ \A u \in Caller \ {t} : th'[u] = th[u]
    BY Zenon, <1>1, <1>2, Moves
  <2>. QED  BY Zenon, <1>1, <1>2, <2>1, HoldsNoLock
<1>. QED  BY Zenon, <1>1, <1>2, <1>3, <1>4, <1>5, QuietStep

LEMMA LockAcquireInv ==
  ASSUME PallocInv, NEW t \in Caller, LockAcquire(t)
  PROVE  PallocInv'
<1>. DEFINE p == th[t].pool
            x == FreeGroups(p, th[t].cnt) # {}
            r == [th[t] EXCEPT !.pc = "scan", !.possible = x]
<1>1. /\ Goto(t, r) /\ UNCHANGED <<geometry, used_map, held>> /\ th[t].pc = "lock"
      /\ lock[p] = Nobody /\ lock' = [lock EXCEPT ![p] = t]
  BY DEF LockAcquire, At
<1>2. th[t] \in CallState /\ CallRight(th[t]) /\ x \in BOOLEAN
  BY DEF PallocInv, PallocTypeOK
<1>. HIDE DEF x
<1>3. /\ r \in CallState /\ r.pc = "scan" /\ r.pool = p /\ r.cnt = th[t].cnt /\ r.idx = th[t].idx
      /\ r.i = th[t].i /\ (r.possible <=> x) /\ p \in Pool
  BY Zenon, <1>2 DEF CallState
<1>. HIDE DEF r
<1>4. th[t].idx = 0 /\ th[t].i = 0 /\ th[t].cnt \in Nat /\ th[t].cnt > 0
  BY Zenon, <1>1, <1>2 DEF CallRight, CallState
<1>5. CallRight(r)
  <2>1. \A g \in FreeGroups(p, th[t].cnt) : g >= 0
    BY SMTT(30), <1>3 DEF FreeGroups, PallocInv, PallocTypeOK
  <2>2. x => \E g \in FreeGroups(r.pool, r.cnt) : g >= r.idx
    BY <1>3, <1>4, <2>1 DEF x
  <2>3. r.idx .. r.idx + r.i - 1 = {}
    BY <1>3, <1>4
  <2>. QED  BY <1>3, <1>4, <2>2, <2>3 DEF CallRight
<1>6. \A q \in Pool : MineOf(r, q) = MineOf(th[t], q)
  BY ZenonT(60), <1>1, <1>3 DEF MineOf
<1>7. th'[t] = r /\ \A u \in Caller \ {t} : th'[u] = th[u]
  BY <1>1, <1>3, Moves
<1>8. lock' \in [Pool -> Caller \cup {Nobody}] /\ lock'[p] = t /\ \A q \in Pool \ {p} : lock'[q] = lock[q]
  BY <1>1, <1>3 DEF PallocInv, PallocTypeOK
<1>9. LockRight'
  <2>. SUFFICES ASSUME NEW u \in Caller, NEW q \in Pool
                PROVE  lock'[q] = u <=> th'[u].pc \in {"scan", "flip", "fail"} /\ th'[u].pool = q
    BY Zenon DEF LockRight
  <2>1. /\ lock[q] = u <=> th[u].pc \in {"scan", "flip", "fail"} /\ th[u].pool = q
        /\ lock[p] # u
    BY ZenonT(60), <1>1, <1>3, PallocAssumption DEF PallocInv, LockRight
  <2>2. u # t => ~(th[u].pc \in {"scan", "flip", "fail"} /\ th[u].pool = p)
    BY SMTT(30), <1>1, <1>3, PallocAssumption DEF PallocInv, LockRight
  <2>3. CASE u = t
    BY ZenonT(60), <1>1, <1>3, <1>7, <1>8, <2>1, <2>3
  <2>4. CASE u # t
    BY <1>3, <1>7, <1>8, <2>1, <2>2, <2>4
  <2>. QED  BY <2>3, <2>4
<1>. HIDE DEF p
<1>. QED  BY Zenon, <1>1, <1>3, <1>5, <1>6, <1>8, <1>9, QuietStep

(* The step of a thread that keeps the lock of its pool. *)
LEMMA KeepsLock ==
  ASSUME PallocInv, NEW t \in Caller, NEW r \in CallState, th'[t] = r, r.pool = th[t].pool,
         \A u \in Caller \ {t} : th'[u] = th[u], UNCHANGED lock,
         r.pc \in {"scan", "flip", "fail"} <=> th[t].pc \in {"scan", "flip", "fail"}
  PROVE  LockRight' /\ lock' \in [Pool -> Caller \cup {Nobody}]
  BY DEF PallocInv, PallocTypeOK, LockRight

(* The step of a thread that releases it. *)
LEMMA DropsLock ==
  ASSUME PallocInv, NEW t \in Caller, NEW r \in CallState, th'[t] = r,
         r.pc \notin {"scan", "flip", "fail"}, th[t].pc \in {"scan", "flip", "fail"},
         \A u \in Caller \ {t} : th'[u] = th[u], lock' = [lock EXCEPT ![th[t].pool] = Nobody]
  PROVE  LockRight' /\ lock' \in [Pool -> Caller \cup {Nobody}]
<1>. DEFINE p == th[t].pool
<1>1. p \in Pool /\ lock[p] = t
  BY DEF PallocInv, PallocTypeOK, CallState, LockRight
<1>2. lock' \in [Pool -> Caller \cup {Nobody}] /\ lock'[p] = Nobody /\ \A q \in Pool \ {p} : lock'[q] = lock[q]
  BY Zenon, <1>1 DEF PallocInv, PallocTypeOK
<1>3. LockRight'
  <2>. SUFFICES ASSUME NEW u \in Caller, NEW q \in Pool
                PROVE  lock'[q] = u <=> th'[u].pc \in {"scan", "flip", "fail"} /\ th'[u].pool = q
    BY DEF LockRight
  <2>1. /\ lock[q] = u <=> th[u].pc \in {"scan", "flip", "fail"} /\ th[u].pool = q
        /\ lock[q] = t <=> q = p
        /\ Nobody # u
    BY SMTT(30), PallocAssumption DEF PallocInv, LockRight
  <2>2. CASE u = t
    BY Zenon, <1>1, <1>2, <2>1, <2>2
  <2>3. CASE u # t
    BY ZenonT(60), <1>1, <1>2, <2>1, <2>3
  <2>. QED  BY Zenon, <2>2, <2>3
<1>. QED  BY Zenon, <1>2, <1>3

LEMMA ScanInv ==
  ASSUME PallocInv, NEW t \in Caller, Scan(t)
  PROVE  PallocInv'
<1>0. PICK c \in CallState : c = th[t] /\ CallRight(c)
  BY DEF PallocInv, PallocTypeOK
<1>. DEFINE r == IF ~ LastStart(c) THEN [c EXCEPT !.pc = "fail"]
                 ELSE IF c.i = c.cnt THEN [c EXCEPT !.pc = "flip", !.i = 0]
                 ELSE IF c.idx + c.i \in used_map[c.pool] THEN [c EXCEPT !.idx = @ + 1, !.i = 0]
                 ELSE [c EXCEPT !.i = @ + 1]
<1>1. Goto(t, r) /\ UNCHANGED <<geometry, used_map, lock, held>> /\ c.pc = "scan"
  BY <1>0 DEF Scan, At
<1>2. c \in CallState /\ CallRight(c) /\ c.pool \in Pool /\ size[c.pool] \in Nat
  BY <1>0 DEF PallocInv, PallocTypeOK, CallState
<1>3. /\ c.idx \in Nat /\ c.cnt \in Nat /\ c.i \in Nat /\ c.cnt > 0 /\ c.i <= c.cnt
      /\ (c.idx .. c.idx + c.i - 1) \cap used_map[c.pool] = {}
      /\ c.possible => \E g \in FreeGroups(c.pool, c.cnt) : g >= c.idx
  BY Zenon, <1>1, <1>2 DEF CallRight, CallState
<1>. HIDE DEF r
<1>4. /\ r \in CallState /\ r.pool = c.pool /\ r.cnt = c.cnt /\ (r.possible <=> c.possible)
      /\ r.pc \in {"scan", "flip", "fail"} /\ CallRight(r)
      /\ \A q \in Pool : MineOf(r, q) = {}
  <2>1. CASE ~LastStart(c)
    <3>1. /\ r = [c EXCEPT !.pc = "fail"]
      BY <2>1 DEF r
    <3>2. /\ r \in CallState /\ r.pool = c.pool /\ r.cnt = c.cnt /\ (r.possible <=> c.possible)
          /\ r.pc = "fail"
      BY <1>2, <3>1 DEF CallState
    <3>3. ~c.possible
      BY <1>2, <1>3, <2>1 DEF LastStart, FreeGroups
    <3>. QED  BY <1>3, <3>2, <3>3 DEF CallRight, MineOf
  <2>2. CASE LastStart(c) /\ c.i = c.cnt
    <3>1. r = [c EXCEPT !.pc = "flip", !.i = 0]
      BY <2>2 DEF r
    <3>2. /\ r \in CallState /\ r.pool = c.pool /\ r.cnt = c.cnt /\ (r.possible <=> c.possible)
          /\ r.pc = "flip" /\ r.i = 0 /\ r.idx = c.idx
      BY Zenon, <1>2, <3>1 DEF CallState
    <3>3. c.idx + c.cnt <= size[c.pool]
      BY <2>2 DEF LastStart
    <3>4. (r.idx + r.i .. r.idx + r.cnt - 1) \cap used_map[r.pool] = {}
      BY SMTT(30), <1>3, <2>2, <3>2
    <3>5. r.idx .. r.idx + r.i - 1 = {}
      BY <1>3, <3>2
    <3>. QED  BY <1>3, <3>2, <3>3, <3>4, <3>5 DEF CallRight, MineOf
  <2>3. CASE LastStart(c) /\ c.i # c.cnt /\ c.idx + c.i \in used_map[c.pool]
    <3>. DEFINE n == c.idx + 1
    <3>0. n \in Nat
      BY <1>3
    <3>1. r = [c EXCEPT !.idx = n, !.i = 0]
      BY <2>3 DEF r
    <3>. HIDE DEF n
    <3>2. /\ r \in CallState /\ r.pool = c.pool /\ r.cnt = c.cnt /\ (r.possible <=> c.possible)
          /\ r.pc = "scan" /\ r.i = 0 /\ r.idx = n
      BY Zenon, <1>1, <1>2, <3>0, <3>1 DEF CallState
    <3>3. r.idx .. r.idx + r.i - 1 = {}
      BY <1>3, <3>0, <3>2
    <3>4. c.possible => \E g \in FreeGroups(c.pool, c.cnt) : g >= c.idx + 1
      <4>1. ASSUME NEW g \in FreeGroups(c.pool, c.cnt), g >= c.idx
            PROVE  g >= c.idx + 1
        <5>1. g \in Nat /\ (g .. g + c.cnt - 1) \cap used_map[c.pool] = {}
          BY <1>2 DEF FreeGroups
        <5>2. g # c.idx
          BY <1>3, <2>3, <5>1
        <5>. QED  BY SMTT(30), <1>3, <4>1, <5>1, <5>2
      <4>. QED  BY Zenon, <1>3, <4>1
    <3>. QED  BY <1>3, <3>2, <3>3, <3>4 DEF CallRight, MineOf, n
  <2>4. CASE LastStart(c) /\ c.i # c.cnt /\ c.idx + c.i \notin used_map[c.pool]
    <3>1. r = [c EXCEPT !.i = @ + 1]
      BY <2>4 DEF r
    <3>2. /\ r \in CallState /\ r.pool = c.pool /\ r.cnt = c.cnt /\ (r.possible <=> c.possible)
          /\ r.pc = "scan" /\ r.i = c.i + 1 /\ r.idx = c.idx
      BY <1>1, <1>2, <3>1 DEF CallState
    <3>3. (r.idx .. r.idx + r.i - 1) \cap used_map[r.pool] = {}
      BY <1>3, <2>4, <3>2
    <3>. QED  BY <1>3, <2>4, <3>2, <3>3 DEF CallRight, MineOf
  <2>. QED  BY Zenon, <2>1, <2>2, <2>3, <2>4
<1>5. \A q \in Pool : MineOf(r, q) = MineOf(th[t], q)
  BY Zenon, <1>0, <1>1, <1>4 DEF MineOf
<1>6. th'[t] = r /\ \A u \in Caller \ {t} : th'[u] = th[u]
  BY Zenon, <1>1, <1>4, Moves
<1>7. LockRight' /\ lock' \in [Pool -> Caller \cup {Nobody}]
  BY Zenon, <1>0, <1>1, <1>4, <1>6, KeepsLock
<1>. QED  BY <1>1, <1>4, <1>5, <1>7, QuietStep

LEMMA FailInv ==
  ASSUME PallocInv, NEW t \in Caller, Fail(t)
  PROVE  PallocInv'
<1>1. /\ Goto(t, Idle) /\ UNCHANGED <<geometry, used_map, held>> /\ th[t].pc = "fail"
      /\ lock' = [lock EXCEPT ![th[t].pool] = Nobody]
  BY Zenon DEF Fail, At
<1>2. th'[t] = Idle /\ \A u \in Caller \ {t} : th'[u] = th[u]
  BY Zenon, <1>1, IdleIs, Moves
<1>3. LockRight' /\ lock' \in [Pool -> Caller \cup {Nobody}]
  BY Zenon, <1>1, <1>2, IdleIs, DropsLock
<1>4. \A q \in Pool : MineOf(Idle, q) = MineOf(th[t], q)
  BY <1>1, IdleIs DEF MineOf
<1>. QED  BY Zenon, <1>1, <1>3, <1>4, IdleIs, QuietStep

(* The bits of a call that ends or begins do not overlap those of others. *)
LEMMA FlipInv ==
  ASSUME PallocInv, NEW t \in Caller, Flip(t)
  PROVE  PallocInv'
<1>0. PICK c \in CallState : c = th[t] /\ CallRight(c)
  BY DEF PallocInv, PallocTypeOK
<1>. DEFINE p == c.pool
            b == c.idx + c.i
<1>1. c.pc = "flip" /\ UNCHANGED <<geometry, held>>
  BY <1>0 DEF Flip, At
<1>2. c \in CallState /\ CallRight(c) /\ p \in Pool /\ size[p] \in Nat
  BY Zenon, <1>0 DEF PallocInv, PallocTypeOK, CallState
<1>3. /\ c.idx \in Nat /\ c.cnt \in Nat /\ c.i \in Nat /\ c.cnt > 0 /\ c.i <= c.cnt
      /\ (c.idx + c.i .. c.idx + c.cnt - 1) \cap used_map[p] = {}
      /\ c.idx + c.cnt <= size[p]
  BY <1>1, <1>2 DEF CallRight, CallState
<1>4. CASE c.i < c.cnt
  <2>. DEFINE r == [c EXCEPT !.i = @ + 1]
  <2>1. /\ Goto(t, r) /\ UNCHANGED lock /\ used_map' = [used_map EXCEPT ![p] = @ \cup {b}]
    BY <1>0, <1>4 DEF Flip
  <2>2. /\ r \in CallState /\ r.pool = p /\ r.cnt = c.cnt /\ r.idx = c.idx /\ r.i = c.i + 1 /\ r.pc = "flip"
    BY SMTT(30), <1>1, <1>2 DEF CallState
  <2>. HIDE DEF r
  <2>3. /\ th' \in [Caller -> CallState] /\ th'[t] = r /\ \A u \in Caller \ {t} : th'[u] = th[u]
        /\ InRam' /\ base' \in [Pool -> Nat] /\ size' \in [Pool -> Nat] /\ ram' \in Nat
    BY Zenon, <1>1, <2>1, <2>2, Moves
  <2>4. b \in Nat /\ b \notin used_map[p]
    BY <1>3, <1>4
  <2>. HIDE DEF p, b
  <2>5. /\ used_map' \in [Pool -> SUBSET Nat] /\ used_map'[p] = used_map[p] \cup {b}
        /\ \A q \in Pool \ {p} : used_map'[q] = used_map[q]
    BY Zenon, <1>2, <2>1, <2>4 DEF PallocInv, PallocTypeOK
  <2>6. LockRight' /\ lock' \in [Pool -> Caller \cup {Nobody}]
    BY ZenonT(60), <1>0, <1>1, <2>1, <2>2, <2>3, KeepsLock DEF p
  <2>7. PallocTypeOK'
    BY <1>1, <2>3, <2>5, <2>6 DEF PallocInv, PallocTypeOK
  <2>8. HeldRight'
    BY Zenon, <1>1 DEF PallocInv, HeldRight, InPool, geometry
  <2>9. UsedExact'
    <3>1. \A q \in Pool : HeldBits(q)' = HeldBits(q)
      BY <1>1, BitsAre
    <3>2. Mine(t, p)' = Mine(t, p) \cup {b} /\ \A q \in Pool \ {p} : Mine(t, q)' = Mine(t, q)
      <4>1. MineOf(r, p) = c.idx .. c.idx + c.i /\ MineOf(c, p) = c.idx .. c.idx + c.i - 1
        BY <1>1, <1>3, <2>2 DEF MineOf, p
      <4>2. c.idx .. c.idx + c.i = (c.idx .. c.idx + c.i - 1) \cup {b}
        BY <1>3 DEF b
      <4>3. \A q \in Pool \ {p} : MineOf(r, q) = {} /\ MineOf(c, q) = {}
        BY <2>2 DEF MineOf, p
      <4>4. \A q : Mine(t, q) = MineOf(c, q) /\ Mine(t, q)' = MineOf(r, q)
        BY <1>0, <2>3, MineIs
      <4>. QED  BY Zenon, <4>1, <4>2, <4>3, <4>4
    <3>3. \A u \in Caller \ {t}, q \in Pool : Mine(u, q)' = Mine(u, q)
      BY <2>3, MineIs
    <3>4. b \notin HeldBits(p) /\ \A u \in Caller : b \notin Mine(u, p)
      BY <1>2, <2>4 DEF PallocInv, UsedExact
    <3>5. \A q \in Pool : \A x : x \in used_map'[q] <=>
            x \in HeldBits(q)' \/ \E u \in Caller : x \in Mine(u, q)'
      <4>1. \A q \in Pool : \A x : x \in used_map[q] <=>
              x \in HeldBits(q) \/ \E u \in Caller : x \in Mine(u, q)
        BY ZenonT(60), UsedIs DEF PallocInv
      <4>2. \A x : x \in used_map'[p] <=> x \in HeldBits(p)' \/ \E u \in Caller : x \in Mine(u, p)'
        <5>. TAKE x
        <5>1. p \in Pool /\ t \in Caller
          BY Zenon, <1>2
        <5>2. x \in HeldBits(p)' <=> x \in HeldBits(p)
          BY Zenon, <3>1, <5>1
        <5>3. (\E u \in Caller : x \in Mine(u, p)') <=> x = b \/ \E u \in Caller : x \in Mine(u, p)
          <6>1. x \in Mine(t, p)' <=> x \in Mine(t, p) \/ x = b
            BY Zenon, <3>2
          <6>2. \A u \in Caller \ {t} : x \in Mine(u, p)' <=> x \in Mine(u, p)
            BY Zenon, <3>3, <5>1
          <6>. QED  BY Zenon, <5>1, <6>1, <6>2
        <5>4. x \in used_map'[p] <=> x \in used_map[p] \/ x = b
          BY Zenon, <2>5
        <5>. QED  BY Zenon, <4>1, <5>1, <5>2, <5>3, <5>4
      <4>3. ASSUME NEW q \in Pool \ {p}
            PROVE  \A x : x \in used_map'[q] <=> x \in HeldBits(q)' \/ \E u \in Caller : x \in Mine(u, q)'
        BY <2>5, <3>1, <3>2, <3>3, <4>1
      <4>. QED  BY Zenon, <4>2, <4>3
    <3>6. \A q \in Pool, u \in Caller :
            /\ Mine(u, q)' \cap HeldBits(q)' = {}
            /\ \A v \in Caller \ {u} : Mine(u, q)' \cap Mine(v, q)' = {}
      <4>1. \A q \in Pool, u \in Caller :
            /\ Mine(u, q) \cap HeldBits(q) = {}
            /\ \A v \in Caller \ {u} : Mine(u, q) \cap Mine(v, q) = {}
        BY DEF PallocInv, UsedExact
      <4>2. ASSUME NEW q \in Pool, NEW u \in Caller
            PROVE  Mine(u, q)' \cap HeldBits(q)' = {}
        BY <1>2, <3>1, <3>2, <3>3, <3>4, <4>1
      <4>3. ASSUME NEW q \in Pool, NEW u \in Caller, NEW v \in Caller \ {u}
            PROVE  Mine(u, q)' \cap Mine(v, q)' = {}
        BY <1>2, <3>2, <3>3, <3>4, <4>1
      <4>. QED  BY <4>2, <4>3
    <3>7. \A a, d \in held' : a # d => Pages(a) \cap Pages(d) = {}
      BY <1>1 DEF PallocInv, UsedExact
    <3>. QED  BY Zenon, <3>5, <3>6, <3>7, UsedIsPrime
  <2>10. \A u \in Caller : CallRight(th[u])'
    <3>1. CallRight(r)'
      <4>1. (r.idx + r.i .. r.idx + r.cnt - 1) \cap used_map'[r.pool] = {}
        BY SMTT(30), <1>3, <2>2, <2>5 DEF b, p
      <4>2. size' = size /\ r.i <= r.cnt /\ r.cnt > 0 /\ r.idx + r.cnt <= size[r.pool]
        <5>1. size' = size
          BY Zenon, <1>1 DEF geometry
        <5>2. c.i + 1 <= c.cnt
          BY <1>3, <1>4
        <5>. QED  BY Zenon, <1>3, <2>2, <5>1, <5>2
      <4>3. r.pc = "flip"
        BY Zenon, <2>2
      <4>. QED  BY Zenon, <4>1, <4>2, <4>3 DEF CallRight
    <3>2. ASSUME NEW u \in Caller \ {t}
          PROVE  \E q \in CallState : q = th'[u] /\ CallRight(q)'
      <4>1. th[u] \in CallState /\ CallRight(th[u]) /\ th[u].pool \in Pool /\ th'[u] = th[u]
        BY Zenon, <2>3 DEF PallocInv, PallocTypeOK, CallState
      <4>2. th[u].pool = p => th[u].pc \notin {"scan", "flip"}
        <5>1. /\ lock[p] = t <=> th[t].pc \in {"scan", "flip", "fail"} /\ th[t].pool = p
              /\ lock[p] = u <=> th[u].pc \in {"scan", "flip", "fail"} /\ th[u].pool = p
          BY Zenon, <1>2 DEF PallocInv, LockRight
        <5>2. lock[p] = t
          BY <1>0, <1>1, <5>1 DEF p
        <5>3. t # u
          BY Zenon
        <5>. QED  BY <5>1, <5>2, <5>3
      <4>3. PICK q \in CallState : q = th[u]
        BY Zenon, <4>1
      <4>4. CallRight(q)'
        BY Zenon, <1>1, <2>5, <4>1, <4>2, <4>3, OtherCall
      <4>. QED  BY <4>1, <4>3, <4>4
    <3>3. ASSUME NEW u \in Caller
          PROVE  CallRight(th[u])'
      <4>1. PICK q \in CallState : q = th'[u] /\ CallRight(q)'
        BY Zenon, <2>2, <2>3, <3>1, <3>2
      <4>. QED  BY ZenonT(60), <4>1 DEF CallRight, FreeGroups
    <3>. QED  BY Zenon, <3>3
  <2>. QED  BY <2>3, <2>6, <2>7, <2>8, <2>9, <2>10 DEF PallocInv
<1>5. CASE ~(c.i < c.cnt)
  <2>. DEFINE r == [c EXCEPT !.pc = "zero"]
  <2>1. /\ Goto(t, r) /\ UNCHANGED used_map /\ lock' = [lock EXCEPT ![p] = Nobody]
    BY <1>0, <1>5 DEF Flip
  <2>2. /\ r \in CallState /\ r.pool = p /\ r.cnt = c.cnt /\ r.idx = c.idx /\ r.i = c.i /\ r.pc = "zero"
    BY ZenonT(60), <1>1, <1>2 DEF CallState
  <2>. HIDE DEF r
  <2>3. th'[t] = r /\ \A u \in Caller \ {t} : th'[u] = th[u]
    BY Zenon, <1>1, <2>1, <2>2, Moves
  <2>4. LockRight' /\ lock' \in [Pool -> Caller \cup {Nobody}]
    BY Zenon, <1>0, <1>1, <2>1, <2>2, <2>3, DropsLock
  <2>5. CallRight(r)
    BY <1>3, <2>2 DEF CallRight
  <2>6. \A q \in Pool : MineOf(r, q) = MineOf(th[t], q)
    <3>1. c.i = c.cnt
      BY <1>3, <1>5
    <3>. QED  BY Zenon, <1>0, <1>1, <1>3, <2>2, <3>1 DEF MineOf, Group
  <2>. QED  BY Zenon, <1>1, <2>1, <2>2, <2>4, <2>5, <2>6, QuietStep
<1>. QED  BY <1>4, <1>5

(* The bits of one more allocation. *)
LEMMA AllocationBits ==
  ASSUME PallocTypeOK, InRam, NEW hs, hs \subseteq Allocation, NEW a \in Allocation,
         NEW q \in Pool, InPool(a, q), NEW p \in Pool
  PROVE  \A x : x \in Bits(hs \cup {a}, p) <=>
           x \in Bits(hs, p) \/ (p = q /\ x \in a.first - base[q] .. a.first - base[q] + a.cnt - 1)
<1>1. /\ base[p] \in Nat /\ base[q] \in Nat /\ a.first \in Nat /\ a.cnt \in Nat /\ base[q] <= a.first
  BY DEF PallocTypeOK, Allocation, InPool
<1>2. page_from_pool(p, a.first) <=> p = q
  BY PoolOf
<1>3. \A x \in Nat : x + base[q] \in Pages(a) <=> x \in a.first - base[q] .. a.first - base[q] + a.cnt - 1
  BY <1>1 DEF Pages
<1>4. \A x : x \in a.first - base[q] .. a.first - base[q] + a.cnt - 1 => x \in Nat
  BY <1>1
<1>5. \A x : x \in Bits(hs \cup {a}, p) <=>
        x \in Nat /\ \E b \in hs \cup {a} : page_from_pool(p, b.first) /\ x + base[p] \in Pages(b)
  BY BitOf
<1>6. \A x : x \in Bits(hs, p) <=>
        x \in Nat /\ \E b \in hs : page_from_pool(p, b.first) /\ x + base[p] \in Pages(b)
  BY Zenon, BitOf
<1>. QED  BY Zenon, <1>2, <1>3, <1>4, <1>5, <1>6

(* A page of an allocation that lies in a pool has its bit there. *)
LEMMA PageBit ==
  ASSUME PallocTypeOK, InRam, NEW hs, hs \subseteq Allocation, NEW d \in hs, NEW q \in Pool,
         \E p \in Pool : InPool(d, p), NEW x \in Nat, x < size[q], x + base[q] \in Pages(d)
  PROVE  x \in Bits(hs, q)
<1>1. PICK p \in Pool : InPool(d, p)
  OBVIOUS
<1>2. /\ base \in [Pool -> Nat] /\ size \in [Pool -> Nat] /\ d.first \in Nat /\ d.cnt \in Nat /\ d \in Allocation
  BY DEF PallocTypeOK, Allocation
<1>3. /\ base["kernel"] \in Nat /\ base["user"] \in Nat /\ size["kernel"] \in Nat /\ size["user"] \in Nat
      /\ base["kernel"] + size["kernel"] <= base["user"]
      /\ p \in {"kernel", "user"} /\ q \in {"kernel", "user"}
  BY <1>2 DEF InRam, Pool
<1>4. /\ d.first <= x + base[q] /\ x + base[q] < d.first + d.cnt
      /\ base[p] <= d.first /\ d.first + d.cnt <= base[p] + size[p]
  BY <1>1, <1>2 DEF Pages, InPool
<1>5. p = q
  <2>1. CASE p = "kernel" /\ q = "user"
    BY <1>2, <1>3, <1>4, <2>1
  <2>2. CASE p = "user" /\ q = "kernel"
    BY <1>2, <1>3, <1>4, <2>2
  <2>. QED  BY <1>3, <2>1, <2>2
<1>6. page_from_pool(q, d.first)
  BY <1>1, <1>2, <1>5, PoolOf
<1>. QED  BY <1>6, BitOf

LEMMA OthersKept ==
  ASSUME PallocInv, NEW t \in Caller, NEW r \in CallState, th'[t] = r,
         \A u \in Caller \ {t} : th'[u] = th[u], UNCHANGED geometry,
         \A p \in Pool : used_map'[p] \subseteq used_map[p], CallRight(r)'
  PROVE  \A u \in Caller : CallRight(th[u])'
<1>. SUFFICES ASSUME NEW u \in Caller
              PROVE  CallRight(th[u])'
  BY Zenon
<1>1. CASE u = t
  BY Zenon, <1>1 DEF CallRight, FreeGroups
<1>2. CASE u # t
  <2>1. PICK q \in CallState : q = th[u] /\ CallRight(q) /\ q.pool \in Pool
    BY Zenon DEF PallocInv, PallocTypeOK, CallState
  <2>2. CallRight(q)'
    BY Zenon, <2>1, OtherCall
  <2>. QED  BY ZenonT(60), <1>2, <2>1, <2>2 DEF CallRight, FreeGroups
<1>. QED  BY <1>1, <1>2

LEMMA ReturnInv ==
  ASSUME PallocInv, NEW t \in Caller, ReturnPages(t)
  PROVE  PallocInv'
<1>0. PICK c \in CallState : c = th[t] /\ CallRight(c)
  BY DEF PallocInv, PallocTypeOK
<1>. DEFINE q == c.pool
<1>1. PICK a : a = [t |-> t, first |-> base[q] + c.idx, cnt |-> c.cnt]
  BY Zenon
<1>2. /\ c.pc = "zero" /\ Goto(t, Idle) /\ held' = held \cup {a} /\ UNCHANGED <<geometry, used_map, lock>>
  BY Zenon, <1>0, <1>1 DEF ReturnPages, At
<1>3. /\ q \in Pool /\ c.idx \in Nat /\ c.cnt \in Nat \ {0} /\ c.idx + c.cnt <= size[q]
      /\ base[q] \in Nat /\ size[q] \in Nat
  <2>1. c.cnt > 0 /\ c.idx + c.cnt <= size[q]
    BY Zenon, <1>0, <1>2 DEF CallRight
  <2>2. q \in Pool /\ c.idx \in Nat /\ c.cnt \in Nat
    BY Zenon, CallFields
  <2>3. c.cnt \in Nat \ {0}
    BY <2>1, <2>2
  <2>. QED  BY Zenon, <2>1, <2>2, <2>3, PoolFields DEF PallocInv
<1>. HIDE DEF q
<1>4. a \in Allocation /\ a.first = base[q] + c.idx /\ a.cnt = c.cnt
  BY SMTT(30), <1>1, <1>3 DEF Allocation
<1>5. InPool(a, q)
  BY SMTT(30), <1>3, <1>4 DEF InPool
<1>6. /\ th' \in [Caller -> CallState] /\ th'[t] = Idle /\ \A u \in Caller \ {t} : th'[u] = th[u]
      /\ InRam' /\ base' \in [Pool -> Nat] /\ size' \in [Pool -> Nat] /\ ram' \in Nat
  BY Zenon, <1>2, IdleIs, Moves
<1>7. /\ PallocTypeOK /\ InRam /\ held \subseteq Allocation /\ HeldRight
  BY DEF PallocInv, PallocTypeOK, Allocation
<1>8. PallocTypeOK'
  BY Zenon, <1>2, <1>4, <1>6, <1>7 DEF PallocInv, PallocTypeOK, Allocation
<1>9. HeldRight'
  BY Zenon, <1>2, <1>3, <1>5, <1>7 DEF HeldRight, InPool, geometry
<1>10. LockRight'
  BY Zenon, <1>0, <1>2, <1>6, IdleIs, HoldsNoLock
<1>11. \A u \in Caller : CallRight(th[u])'
  <2>1. CallRight(Idle)'
    BY Zenon, IdleIs DEF CallRight
  <2>. QED  BY Zenon, <1>2, <1>6, <2>1, IdleIs, OthersKept
<1>12. UsedExact'
  <2>1. \A p \in Pool : \A x : x \in HeldBits(p)' <=> x \in HeldBits(p) \/ x \in Mine(t, p)
    <3>1. \A p \in Pool : Mine(t, p) = IF p = q THEN c.idx .. c.idx + c.cnt - 1 ELSE {}
      BY ZenonT(60), <1>0, <1>2, MineIs DEF MineOf, Group, q
    <3>2. a.first - base[q] = c.idx
      BY SMTT(30), <1>3, <1>4
    <3>3. \A p \in Pool : \A x : x \in Bits(held \cup {a}, p) <=>
             x \in Bits(held, p) \/ (p = q /\ x \in c.idx .. c.idx + c.cnt - 1)
      <4>1. ASSUME NEW p \in Pool
            PROVE  \A x : x \in Bits(held \cup {a}, p) <=> x \in Bits(held, p)
                      \/ (p = q /\ x \in a.first - base[q] .. a.first - base[q] + a.cnt - 1)
        BY Zenon, <1>3, <1>4, <1>5, <1>7, AllocationBits
      <4>. QED  BY Zenon, <1>4, <3>2, <4>1
    <3>. QED  BY Zenon, <1>2, <3>1, <3>3, BitsAre
  <2>2. \A p \in Pool : Mine(t, p)' = {} /\ \A u \in Caller \ {t} : Mine(u, p)' = Mine(u, p)
    BY Zenon, <1>6, IdleIs, MineIs
  <2>3. \A p \in Pool : \A x : x \in used_map[p] <=>
          x \in HeldBits(p) \/ \E u \in Caller : x \in Mine(u, p)
    BY Zenon, UsedIs DEF PallocInv
  <2>4. \A p \in Pool : \A x : x \in used_map'[p] <=>
          x \in HeldBits(p)' \/ \E u \in Caller : x \in Mine(u, p)'
    <3>. SUFFICES ASSUME NEW p \in Pool, NEW x
                  PROVE  x \in used_map'[p] <=> x \in HeldBits(p)' \/ \E u \in Caller : x \in Mine(u, p)'
      BY Zenon
    <3>1. used_map'[p] = used_map[p] /\ x \notin Mine(t, p)'
      BY Zenon, <1>2, <2>2
    <3>2. CASE x \in Mine(t, p)
      BY Zenon, <2>1, <2>3, <3>1, <3>2
    <3>3. CASE x \notin Mine(t, p)
      <4>1. (\E u \in Caller : x \in Mine(u, p)) <=> \E u \in Caller \ {t} : x \in Mine(u, p)
        BY Zenon, <3>3
      <4>2. (\E u \in Caller : x \in Mine(u, p)') <=> \E u \in Caller \ {t} : x \in Mine(u, p)'
        BY Zenon, <3>1
      <4>3. \A u \in Caller \ {t} : Mine(u, p)' = Mine(u, p)
        BY Zenon, <2>2
      <4>. QED  BY Zenon, <2>1, <2>3, <3>1, <3>3, <4>1, <4>2, <4>3
    <3>. QED  BY Zenon, <3>2, <3>3
  <2>5. \A p \in Pool, u \in Caller :
            /\ Mine(u, p) \cap HeldBits(p) = {}
            /\ \A v \in Caller \ {u} : Mine(u, p) \cap Mine(v, p) = {}
    BY DEF PallocInv, UsedExact
  <2>6. \A p \in Pool, u \in Caller :
            /\ Mine(u, p)' \cap HeldBits(p)' = {}
            /\ \A v \in Caller \ {u} : Mine(u, p)' \cap Mine(v, p)' = {}
    BY SMTT(30), <2>1, <2>2, <2>5
  <2>7. \A d \in held : Pages(a) \cap Pages(d) = {}
    <3>. SUFFICES ASSUME NEW d \in held, NEW g \in Pages(a), g \in Pages(d)
                  PROVE  FALSE
      OBVIOUS
    <3>. DEFINE x == g - base[q]
    <3>1. x \in Nat /\ x < size[q] /\ x + base[q] = g /\ x \in c.idx .. c.idx + c.cnt - 1
      BY <1>3, <1>4 DEF Pages
    <3>2. x \in Mine(t, q)
      BY Zenon, <1>0, <1>2, <3>1, MineIs DEF MineOf, Group, q
    <3>. HIDE DEF x
    <3>3. x \in Bits(held, q)
      BY Zenon, <1>3, <1>7, <3>1, PageBit DEF HeldRight
    <3>. QED  BY Zenon, <1>3, <2>5, <3>2, <3>3, BitsAre
  <2>8. \A d, e \in held' : d # e => Pages(d) \cap Pages(e) = {}
    BY <1>2, <2>7 DEF PallocInv, UsedExact
  <2>. QED  BY Zenon, <2>4, <2>6, <2>8, UsedIsPrime
<1>. QED  BY <1>6, <1>8, <1>9, <1>10, <1>11, <1>12 DEF PallocInv

(* The pages of an allocation become bits to clear. *)
LEMMA FreeInv ==
  ASSUME PallocInv, NEW t \in Caller, Free(t)
  PROVE  PallocInv'
<1>0. PICK c \in CallState : c = th[t] /\ CallRight(c)
  BY DEF PallocInv, PallocTypeOK
<1>1. PICK a \in held :
        /\ held' = held \ {a}
        /\ LET p == IF page_from_pool("kernel", a.first) THEN "kernel" ELSE "user"
           IN  Goto(t, [Idle EXCEPT !.pc = "clear", !.pool = p, !.cnt = a.cnt,
                                    !.idx = a.first - base[p]])
  BY Zenon DEF Free
<1>2. /\ c.pc = "idle" /\ UNCHANGED <<geometry, used_map, lock>>
  BY <1>0 DEF Free, At
<1>3. /\ PallocTypeOK /\ InRam /\ held \subseteq Allocation /\ HeldRight /\ a \in Allocation
  BY DEF PallocInv, PallocTypeOK, Allocation
<1>4. PICK q \in Pool : InPool(a, q)
  BY <1>3 DEF HeldRight
<1>5. q = IF page_from_pool("kernel", a.first) THEN "kernel" ELSE "user"
  BY <1>3, <1>4, PoolOf DEF Pool
<1>6. /\ a.first \in Nat /\ a.cnt \in Nat \ {0} /\ base[q] \in Nat /\ size[q] \in Nat
      /\ base[q] <= a.first /\ a.first + a.cnt <= base[q] + size[q]
  BY <1>3, <1>4 DEF PallocTypeOK, Allocation, InPool
<1>7. PICK n \in Nat : n = a.first - base[q] /\ n + a.cnt <= size[q]
  BY <1>6
<1>. DEFINE r == [Idle EXCEPT !.pc = "clear", !.pool = q, !.cnt = a.cnt, !.idx = n]
<1>8. Goto(t, r)
  BY <1>1, <1>5, <1>7
<1>9. /\ r \in CallState /\ r.pool = q /\ r.cnt = a.cnt /\ r.idx = n /\ r.i = 0 /\ r.pc = "clear"
      /\ r.possible = Idle.possible
  BY Zenon, <1>6 DEF Idle, CallState
<1>. HIDE DEF r
<1>10. /\ th' \in [Caller -> CallState] /\ th'[t] = r /\ \A u \in Caller \ {t} : th'[u] = th[u]
       /\ InRam' /\ base' \in [Pool -> Nat] /\ size' \in [Pool -> Nat] /\ ram' \in Nat
  BY Zenon, <1>2, <1>8, <1>9, Moves
<1>11. PallocTypeOK'
  BY <1>1, <1>2, <1>3, <1>10 DEF PallocTypeOK
<1>12. HeldRight'
  BY Zenon, <1>1, <1>2, <1>3 DEF HeldRight, InPool, geometry
<1>13. LockRight'
  BY Zenon, <1>0, <1>2, <1>9, <1>10, HoldsNoLock
<1>14. \A u \in Caller : CallRight(th[u])'
  <2>1. CallRight(r)'
    <3>1. size' = size
      BY Zenon, <1>2 DEF geometry
    <3>2. a.cnt > 0 /\ 0 < a.cnt
      BY <1>6
    <3>. QED  BY Zenon, <1>7, <1>9, <3>1, <3>2 DEF CallRight
  <2>. QED  BY Zenon, <1>2, <1>9, <1>10, <2>1, OthersKept
<1>15. UsedExact'
  <2>0. \A d, e \in held : d # e => Pages(d) \cap Pages(e) = {}
    BY DEF PallocInv, UsedExact
  <2>1. \A p \in Pool : /\ Mine(t, p) = {} /\ (p # q => Mine(t, p)' = {})
                        /\ \A u \in Caller \ {t} : Mine(u, p)' = Mine(u, p)
    BY Zenon, <1>0, <1>2, <1>9, <1>10, MineIs DEF MineOf
  <2>2. Mine(t, q)' = n .. n + a.cnt - 1
    <3>1. MineOf(r, q) = n .. n + a.cnt - 1
      BY <1>6, <1>9 DEF MineOf
    <3>. QED  BY <1>10, <3>1, MineIs
  <2>3. held \ {a} \subseteq Allocation /\ (held \ {a}) \cup {a} = held
    BY <1>3
  <2>4. \A p \in Pool : \A x : x \in HeldBits(p) <=> x \in HeldBits(p)' \/ x \in Mine(t, p)'
    <3>1. \A p \in Pool : \A x : x \in Bits((held \ {a}) \cup {a}, p) <=>
             x \in Bits(held \ {a}, p) \/ (p = q /\ x \in n .. n + a.cnt - 1)
      BY ZenonT(60), <1>3, <1>4, <1>7, <2>3, AllocationBits
    <3>. QED  BY Zenon, <1>1, <1>2, <2>1, <2>2, <2>3, <3>1, BitsAre
  <2>5. Mine(t, q)' \cap HeldBits(q)' = {}
    <3>. SUFFICES ASSUME NEW x \in Mine(t, q)', x \in HeldBits(q)'
                  PROVE  FALSE
      OBVIOUS
    <3>1. x \in Bits(held \ {a}, q)
      BY Zenon, <1>1, <1>2, BitsAre
    <3>2. PICK d \in held \ {a} : x + base[q] \in Pages(d)
      BY ZenonT(60), <1>3, <2>3, <3>1, BitOf
    <3>3. x + base[q] \in Pages(a)
      <4>1. x \in n .. n + a.cnt - 1
        BY Zenon, <2>2
      <4>. QED  BY <1>6, <1>7, <4>1 DEF Pages
    <3>. QED  BY <2>0, <3>2, <3>3
  <2>6. \A p \in Pool : \A x : x \in used_map[p] <=>
          x \in HeldBits(p) \/ \E u \in Caller : x \in Mine(u, p)
    BY Zenon, UsedIs DEF PallocInv
  <2>7. \A p \in Pool : \A x : x \in used_map'[p] <=>
          x \in HeldBits(p)' \/ \E u \in Caller : x \in Mine(u, p)'
    <3>. SUFFICES ASSUME NEW p \in Pool, NEW x
                  PROVE  x \in used_map'[p] <=> x \in HeldBits(p)' \/ \E u \in Caller : x \in Mine(u, p)'
      BY Zenon
    <3>1. used_map'[p] = used_map[p] /\ x \notin Mine(t, p)
      BY Zenon, <1>2, <2>1
    <3>2. CASE x \in Mine(t, p)'
      BY Zenon, <2>4, <2>6, <3>1, <3>2
    <3>3. CASE x \notin Mine(t, p)'
      <4>1. (\E u \in Caller : x \in Mine(u, p)) <=> \E u \in Caller \ {t} : x \in Mine(u, p)
        BY Zenon, <3>1
      <4>2. (\E u \in Caller : x \in Mine(u, p)') <=> \E u \in Caller \ {t} : x \in Mine(u, p)'
        BY Zenon, <3>3
      <4>3. \A u \in Caller \ {t} : Mine(u, p)' = Mine(u, p)
        BY Zenon, <2>1
      <4>. QED  BY Zenon, <2>4, <2>6, <3>1, <3>3, <4>1, <4>2, <4>3
    <3>. QED  BY Zenon, <3>2, <3>3
  <2>8. \A p \in Pool, u \in Caller :
            /\ Mine(u, p) \cap HeldBits(p) = {}
            /\ \A v \in Caller \ {u} : Mine(u, p) \cap Mine(v, p) = {}
    BY DEF PallocInv, UsedExact
  <2>9. \A p \in Pool, u \in Caller : Mine(u, p)' \cap HeldBits(p)' = {}
    BY <2>1, <2>4, <2>5, <2>8
  <2>10. \A p \in Pool, u \in Caller, v \in Caller : u # v => Mine(u, p)' \cap Mine(v, p)' = {}
    BY <2>1, <2>4, <2>8
  <2>11. \A d, e \in held' : d # e => Pages(d) \cap Pages(e) = {}
    BY <1>1, <2>0
  <2>. QED  BY Zenon, <2>7, <2>9, <2>10, <2>11, UsedIsPrime
<1>. QED  BY <1>10, <1>11, <1>12, <1>13, <1>14, <1>15 DEF PallocInv

LEMMA PallocClearInv ==
  ASSUME PallocInv, NEW t \in Caller, Clear(t)
  PROVE  PallocInv'
<1>0. PICK c \in CallState : c = th[t] /\ CallRight(c)
  BY DEF PallocInv, PallocTypeOK
<1>. DEFINE p == c.pool
            b == c.idx + c.i
            r == IF c.i + 1 = c.cnt THEN Idle ELSE [c EXCEPT !.i = @ + 1]
<1>1. /\ c.pc = "clear" /\ UNCHANGED <<geometry, lock, held>> /\ Goto(t, r)
      /\ used_map' = [used_map EXCEPT ![p] = @ \ {b}]
  BY <1>0 DEF Clear, At
<1>2. /\ p \in Pool /\ c.idx \in Nat /\ c.cnt \in Nat /\ c.i \in Nat /\ c.i < c.cnt
      /\ c.idx + c.cnt <= size[p] /\ size[p] \in Nat
  BY <1>0, <1>1 DEF CallRight, CallState, PallocInv, PallocTypeOK
<1>3. /\ r \in CallState
      /\ \/ c.i + 1 = c.cnt /\ r = Idle
         \/ /\ c.i + 1 # c.cnt
            /\ r.pool = p /\ r.cnt = c.cnt /\ r.idx = c.idx /\ r.i = c.i + 1 /\ r.pc = "clear"
  <2>1. CASE c.i + 1 = c.cnt
    BY <2>1, IdleIs
  <2>2. CASE c.i + 1 # c.cnt
    BY SMTT(30), <1>0, <1>1, <1>2, <2>2 DEF CallState
  <2>. QED  BY <2>1, <2>2
<1>. HIDE DEF r
<1>4. /\ th' \in [Caller -> CallState] /\ th'[t] = r /\ \A u \in Caller \ {t} : th'[u] = th[u]
      /\ InRam' /\ base' \in [Pool -> Nat] /\ size' \in [Pool -> Nat] /\ ram' \in Nat
  BY Zenon, <1>1, <1>3, Moves
<1>5. /\ \A x : x \in MineOf(c, p) <=> x = b \/ x \in MineOf(r, p)
      /\ b \notin MineOf(r, p)
  <2>1. MineOf(c, p) = c.idx + c.i .. c.idx + c.cnt - 1
    BY <1>1 DEF MineOf
  <2>2. CASE c.i + 1 = c.cnt /\ r = Idle
    <3>1. c.i + 1 = c.cnt /\ c.idx \in Nat /\ c.i \in Nat /\ c.cnt \in Nat
      BY Zenon, <1>2, <2>2
    <3>2. \A x : x \in c.idx + c.i .. c.idx + c.cnt - 1 <=> x = b
      BY <3>1
    <3>3. MineOf(r, p) = {}
      BY Zenon, <2>2, IdleIs
    <3>. QED  BY Zenon, <2>1, <3>2, <3>3
  <2>3. CASE r.pool = p /\ r.cnt = c.cnt /\ r.idx = c.idx /\ r.i = c.i + 1 /\ r.pc = "clear"
    <3>1. MineOf(r, p) = c.idx + (c.i + 1) .. c.idx + c.cnt - 1
      BY <2>3 DEF MineOf
    <3>2. \A x : x \in c.idx + c.i .. c.idx + c.cnt - 1 <=> x = b \/ x \in c.idx + (c.i + 1) .. c.idx + c.cnt - 1
      BY <1>2
    <3>3. b \notin c.idx + (c.i + 1) .. c.idx + c.cnt - 1
      BY <1>2
    <3>. QED  BY <2>1, <3>1, <3>2, <3>3
  <2>. QED  BY <1>3, <2>2, <2>3
<1>6. \A x \in Pool \ {p} : MineOf(c, x) = {} /\ MineOf(r, x) = {}
  BY <1>3, IdleIs DEF MineOf
<1>. HIDE DEF p, b
<1>7. /\ used_map' \in [Pool -> SUBSET Nat] /\ \A q \in Pool : used_map'[q] \subseteq used_map[q]
      /\ used_map'[p] = used_map[p] \ {b} /\ \A q \in Pool \ {p} : used_map'[q] = used_map[q]
  BY Zenon, <1>1, <1>2 DEF PallocInv, PallocTypeOK
<1>8. PallocTypeOK'
  BY Zenon, <1>1, <1>4, <1>7 DEF PallocInv, PallocTypeOK
<1>9. HeldRight'
  BY Zenon, <1>1 DEF PallocInv, HeldRight, InPool, geometry
<1>10. LockRight'
  <2>1. r.pc \in {"idle", "clear"}
    BY Zenon, <1>3, IdleIs
  <2>. QED  BY Zenon, <1>0, <1>1, <1>4, <2>1, HoldsNoLock
<1>11. \A u \in Caller : CallRight(th[u])'
  <2>1. CallRight(r)'
    <3>1. CASE r = Idle
      BY Zenon, <3>1, IdleIs DEF CallRight
    <3>2. CASE /\ c.i + 1 # c.cnt /\ r.pool = p /\ r.cnt = c.cnt /\ r.idx = c.idx
               /\ r.i = c.i + 1 /\ r.pc = "clear"
      <4>0. /\ c.i \in Nat /\ c.cnt \in Nat /\ c.i < c.cnt /\ c.i + 1 # c.cnt
            /\ c.idx + c.cnt <= size[p]
        BY Zenon, <1>2, <3>2
      <4>1. c.i + 1 < c.cnt /\ c.cnt > 0
        BY <4>0
      <4>2. size' = size
        BY Zenon, <1>1 DEF geometry
      <4>. QED  BY Zenon, <3>2, <4>0, <4>1, <4>2 DEF CallRight
    <3>. QED  BY Zenon, <1>3, <3>1, <3>2
  <2>. QED  BY Zenon, <1>1, <1>3, <1>4, <1>7, <2>1, OthersKept
<1>12. UsedExact'
  <2>1. \A q \in Pool : HeldBits(q)' = HeldBits(q)
    BY <1>1, BitsAre
  <2>2. /\ \A x : x \in Mine(t, p) <=> x = b \/ x \in Mine(t, p)'
        /\ b \notin Mine(t, p)'
        /\ \A q \in Pool \ {p} : Mine(t, q)' = Mine(t, q)
    BY Zenon, <1>0, <1>4, <1>5, <1>6, MineIs
  <2>3. \A u \in Caller \ {t}, q \in Pool : Mine(u, q)' = Mine(u, q)
    BY <1>4, MineIs
  <2>4. \A q \in Pool, u \in Caller :
          /\ Mine(u, q) \cap HeldBits(q) = {}
          /\ \A v \in Caller \ {u} : Mine(u, q) \cap Mine(v, q) = {}
    BY DEF PallocInv, UsedExact
  <2>5. \A q \in Pool, u \in Caller :
          /\ Mine(u, q)' \cap HeldBits(q)' = {}
          /\ \A v \in Caller \ {u} : Mine(u, q)' \cap Mine(v, q)' = {}
    <3>1. \A q \in Pool, u \in Caller : \A x : x \in Mine(u, q)' => x \in Mine(u, q)
      BY Zenon, <2>2, <2>3
    <3>. QED  BY <2>1, <2>4, <3>1
  <2>6. \A q \in Pool : \A x : x \in used_map[q] <=>
          x \in HeldBits(q) \/ \E u \in Caller : x \in Mine(u, q)
    BY Zenon, UsedIs DEF PallocInv
  <2>7. \A x : x \in used_map'[p] <=> x \in HeldBits(p)' \/ \E u \in Caller : x \in Mine(u, p)'
    <3>1. b \notin HeldBits(p) /\ \A u \in Caller \ {t} : b \notin Mine(u, p)
      <4>1. p \in Pool /\ b \in Mine(t, p)
        BY Zenon, <1>2, <2>2
      <4>. QED  BY Zenon, <2>4, <4>1
    <3>2. HeldBits(p)' = HeldBits(p) /\ \A u \in Caller \ {t} : Mine(u, p)' = Mine(u, p)
      BY Zenon, <1>2, <2>1, <2>3
    <3>3. /\ \A x : x \in used_map'[p] <=> x \in used_map[p] /\ x # b
          /\ \A x : x \in used_map[p] <=> x \in HeldBits(p) \/ \E u \in Caller : x \in Mine(u, p)
      BY Zenon, <1>2, <1>7, <2>6
    <3>4. ASSUME NEW x, x \in used_map'[p]
          PROVE  x \in HeldBits(p)' \/ \E u \in Caller : x \in Mine(u, p)'
      <4>0. x # b /\ (x \in HeldBits(p) \/ \E u \in Caller : x \in Mine(u, p))
        BY Zenon, <3>3, <3>4
      <4>1. CASE x \in HeldBits(p)
        BY Zenon, <3>2, <4>1
      <4>2. CASE x \in Mine(t, p)
        BY Zenon, <2>2, <4>0, <4>2
      <4>3. CASE \E u \in Caller \ {t} : x \in Mine(u, p)
        BY Zenon, <3>2, <4>3
      <4>. QED  BY Zenon, <4>0, <4>1, <4>2, <4>3
    <3>5. ASSUME NEW x, x \in HeldBits(p)' \/ \E u \in Caller : x \in Mine(u, p)'
          PROVE  x \in used_map'[p]
      <4>1. CASE x \in HeldBits(p)'
        BY Zenon, <3>1, <3>2, <3>3, <4>1
      <4>2. CASE x \in Mine(t, p)'
        BY Zenon, <2>2, <3>3, <4>2
      <4>3. CASE \E u \in Caller \ {t} : x \in Mine(u, p)'
        BY Zenon, <3>1, <3>2, <3>3, <4>3
      <4>. QED  BY Zenon, <3>5, <4>1, <4>2, <4>3
    <3>. QED  BY Zenon, <3>4, <3>5
  <2>8. ASSUME NEW q \in Pool \ {p}
        PROVE  \A x : x \in used_map'[q] <=> x \in HeldBits(q)' \/ \E u \in Caller : x \in Mine(u, q)'
    <3>1. q \in Pool /\ used_map'[q] = used_map[q] /\ HeldBits(q)' = HeldBits(q)
      BY Zenon, <1>7, <2>1
    <3>2. \A u \in Caller : Mine(u, q)' = Mine(u, q)
      BY Zenon, <2>2, <2>3, <3>1
    <3>. QED  BY ZenonT(60), <2>6, <3>1, <3>2
  <2>9. \A a, d \in held' : a # d => Pages(a) \cap Pages(d) = {}
    BY <1>1 DEF PallocInv, UsedExact
  <2>. QED  BY Zenon, <2>5, <2>7, <2>8, <2>9, UsedIsPrime
<1>. QED  BY <1>4, <1>8, <1>9, <1>10, <1>11, <1>12 DEF PallocInv

LEMMA PallocNextInv ==
  PallocInv /\ [PallocNext]_palloc_vars => PallocInv'
<1>. SUFFICES ASSUME PallocInv, [PallocNext]_palloc_vars
              PROVE  PallocInv'
  OBVIOUS
<1>1. CASE UNCHANGED palloc_vars
  <2>1. UNCHANGED <<geometry, used_map, lock, th, held>>
    BY Zenon, <1>1 DEF palloc_vars, geometry
  <2>2. PallocTypeOK' /\ InRam' /\ HeldRight' /\ LockRight'
    <3>1. PallocTypeOK /\ InRam /\ HeldRight /\ LockRight
      BY Zenon DEF PallocInv
    <3>2. PallocTypeOK'
      BY Zenon, <2>1, <3>1 DEF geometry, PallocTypeOK
    <3>3. InRam'
      BY Zenon, <2>1, <3>1 DEF geometry, InRam
    <3>4. HeldRight'
      BY Zenon, <2>1, <3>1 DEF geometry, HeldRight, InPool
    <3>5. LockRight'
      <4>1. lock' = lock /\ th' = th
        BY Zenon, <2>1
      <4>. QED  BY <3>1, <4>1 DEF LockRight
    <3>. QED  BY Zenon, <3>2, <3>3, <3>4, <3>5
  <2>3. UsedExact'
    <3>1. \A p : HeldBits(p)' = HeldBits(p) /\ \A t : Mine(t, p)' = Mine(t, p)
      BY Zenon, <2>1, BitsAre, MineIs
    <3>. QED  BY <2>1, <3>1 DEF PallocInv, UsedExact
  <2>4. \A t \in Caller : CallRight(th[t])'
    BY ZenonT(60), <2>1 DEF PallocInv, CallRight, FreeGroups, geometry
  <2>. QED  BY Zenon, <2>2, <2>3, <2>4 DEF PallocInv
<1>2. ASSUME NEW t \in Caller,
             \/ \E p \in Pool, cnt \in 0 .. MaxCnt : Get(t, p, cnt)
             \/ LockAcquire(t) \/ Scan(t) \/ Flip(t) \/ Fail(t) \/ ReturnPages(t)
             \/ Free(t) \/ Clear(t)
      PROVE  PallocInv'
  <2>1. 0 .. MaxCnt \subseteq Nat
    BY PallocAssumption
  <2>. QED  BY <1>2, <2>1, GetInv, LockAcquireInv, ScanInv, FlipInv, FailInv, ReturnInv, FreeInv, PallocClearInv
<1>. QED  BY Zenon, <1>1, <1>2 DEF PallocNext

(* palloc_get_multiple() and palloc_free_multiple(), called by any threads *)
(* in any interleaving, on machines of any size: no page is handed out     *)
(* twice or lost though freeing clears bits without the pool's lock, the   *)
(* pools and their bitmaps lie in RAM, and a null pointer is returned only *)
(* when no group of that many pages was free.                              *)
THEOREM PagesExact == PallocSpec => []PoolsExact
<1>1. palloc_init => PallocInv
  BY Zenon, PallocInitInv
<1>2. PallocInv => PoolsExact
  BY Zenon DEF PallocInv, PoolsExact, NullJustified, CallRight, At
<1>. QED  BY <1>1, <1>2, PallocNextInv, PTL DEF PallocSpec

-----------------------------------------------------------------------------
(* Interrupts                                                              *)

-----------------------------------------------------------------------------
(* The inductive invariant *)

FrameSet == [vec : External \cup Internal \cup {YIELD}, stage : {"handler", "return"},
             level : BOOLEAN, asked : BOOLEAN, addr : SUBSET Thread]

InterruptTypeOK ==
  /\ stack \in [Thread -> Seq(FrameSet)] /\ cur \in Thread /\ cr2 \in Thread
  /\ on \in BOOLEAN /\ in_external_intr \in BOOLEAN /\ yield_on_return \in BOOLEAN
  /\ irr \subseteq External \ {39, 47}

\* What has to be finished before anything else runs: the handler of an
\* external interrupt, and a page fault up to the reading of CR2.
Pinned(f) == \/ f.vec \in External /\ f.stage = "handler"
             \/ f.vec = 14 /\ f.addr = {}

\* Such a frame is that of the running thread, the innermost, and interrupts
\* are off.
PinnedOnTop ==
  \A t \in Thread : \A k \in DOMAIN stack[t] :
    Pinned(stack[t][k]) => t = cur /\ k = 1 /\ ~on /\ stack[t][k].stage = "handler"

\* The lines in service during an external interrupt: its own, unless it is
\* spurious.
Quiet == [master |-> {}, slave |-> {}]
Serving(vec) ==
  IF vec = 39 THEN Quiet
  ELSE [master |-> {Line(vec)}, slave |-> IF vec < 40 \/ vec = 47 THEN {} ELSE {vec - 40}]

\* The variables shared by all interrupts are those of the one being handled.
Shared ==
  /\ in_external_intr <=> InExternal
  /\ isr = IF InExternal THEN Serving(Top.vec) ELSE Quiet
  /\ InExternal => yield_on_return = Top.asked
  /\ Faulting => cr2 = cur

InterruptInv == InterruptTypeOK /\ PinnedOnTop /\ Shared /\ FaultAddressOwn
-----------------------------------------------------------------------------
(* Stacks *)

(* Taking the first frame off moves the others up.                         *)
LEMMA Pop ==
  ASSUME NEW S, NEW s \in Seq(S), s # <<>>
  PROVE  /\ Tail(s) \in Seq(S)
         /\ \A k \in DOMAIN Tail(s) : k + 1 \in DOMAIN s /\ Tail(s)[k] = s[k + 1]
OBVIOUS

(* The first frame of a stack can be replaced.                             *)
LEMMA Replace ==
  ASSUME NEW S, NEW s \in Seq(S), s # <<>>, NEW f \in S
  PROVE  LET r == [s EXCEPT ![1] = f]
         IN /\ r \in Seq(S) /\ r # <<>> /\ Head(r) = f /\ r[1] = f
            /\ DOMAIN r = DOMAIN s /\ 1 \in DOMAIN s
            /\ \A k \in DOMAIN s : k # 1 => r[k] = s[k]
OBVIOUS

(* The innermost frame of the running thread is a frame of its stack.      *)
LEMMA TopFrame ==
  ASSUME InterruptTypeOK, stack[cur] # <<>>
  PROVE  /\ stack[cur] \in Seq(FrameSet) /\ 1 \in DOMAIN stack[cur]
         /\ Top = stack[cur][1] /\ Top \in FrameSet
<1>1. stack[cur] \in Seq(FrameSet)
  BY Zenon DEF InterruptTypeOK
<1>2. /\ 1 \in DOMAIN stack[cur] /\ Head(stack[cur]) = stack[cur][1]
      /\ stack[cur][1] \in FrameSet
  BY <1>1
<1> QED
  BY Zenon, <1>1, <1>2 DEF Top

-----------------------------------------------------------------------------
(* When nothing is pinned *)

NonePinned ==
  \A t \in Thread : \A k \in DOMAIN stack[t] :
    ~ Pinned(stack[t][k]) /\ stack[t][k].addr \subseteq {t}

(* Nothing is pinned while interrupts are on, while a thread runs its own  *)
(* code or a trap's, and when only a return is left.                       *)
LEMMA OutsideNonePinned ==
  ASSUME InterruptInv, on \/ Plain \/ ~ Running
  PROVE  NonePinned /\ in_external_intr = FALSE /\ isr = Quiet
<1>1. \A t \in Thread : \A k \in DOMAIN stack[t] : ~ Pinned(stack[t][k])
  <2> SUFFICES ASSUME NEW t \in Thread, NEW k \in DOMAIN stack[t], Pinned(stack[t][k])
               PROVE  FALSE
    BY Zenon
  <2>1. t = cur /\ k = 1 /\ ~ on /\ stack[t][k].stage = "handler"
    BY Zenon DEF InterruptInv, PinnedOnTop
  <2>2. stack[cur] # <<>> /\ Top = stack[cur][1]
    <3>1. stack[cur] # <<>>
      BY <2>1
    <3> QED
      BY Zenon, <3>1, TopFrame DEF InterruptInv
  <2> QED
    BY Zenon, <2>1, <2>2 DEF Plain, Running, InExternal, Faulting, Pinned
<1>2. ~ InExternal
  <2>1. ASSUME InExternal PROVE FALSE
    <3>1. stack[cur] # <<>> /\ Pinned(Top) /\ cur \in Thread
      BY Zenon, <2>1 DEF InExternal, Pinned, InterruptInv, InterruptTypeOK
    <3>2. 1 \in DOMAIN stack[cur] /\ Top = stack[cur][1]
      BY Zenon, <3>1, TopFrame DEF InterruptInv
    <3> QED
      BY Zenon, <1>1, <3>1, <3>2
  <2> QED
    BY Zenon, <2>1
<1> QED
  BY Zenon, <1>1, <1>2 DEF InterruptInv, InterruptTypeOK, Shared, NonePinned, FaultAddressOwn

(* A step after which nothing is pinned, and no interrupt is being handled *)
(* or in service, re-establishes the invariant.                            *)
LEMMA NonePinnedAfter ==
  ASSUME InterruptTypeOK', NonePinned', in_external_intr' = FALSE, isr' = Quiet
  PROVE  InterruptInv'
<1>1. PinnedOnTop' /\ FaultAddressOwn'
  BY ZenonT(60) DEF PinnedOnTop, NonePinned, FaultAddressOwn
<1>2. ASSUME stack'[cur'] # <<>> PROVE ~ Pinned(Head(stack'[cur']))
  <2>1. stack'[cur'] \in Seq(FrameSet) /\ cur' \in Thread
    BY Zenon DEF InterruptTypeOK
  <2>2. 1 \in DOMAIN stack'[cur'] /\ Head(stack'[cur']) = stack'[cur'][1]
    BY <1>2, <2>1
  <2> QED
    BY <2>1, <2>2 DEF NonePinned
<1>3. ~ InExternal' /\ ~ Faulting'
  BY Zenon, <1>2 DEF InExternal, Faulting, Top, Pinned
<1> QED
  BY Zenon, <1>1, <1>3 DEF InterruptInv, Shared

(* A new stack of the running thread with nothing pinned leaves nothing    *)
(* pinned, when the other threads' stacks have nothing pinned.             *)
LEMMA NewStack ==
  ASSUME InterruptTypeOK, NEW r \in Seq(FrameSet), stack' = [stack EXCEPT ![cur] = r],
         \A k \in DOMAIN r : ~ Pinned(r[k]) /\ r[k].addr \subseteq {cur},
         \A t \in Thread \ {cur} : \A k \in DOMAIN stack[t] :
           ~ Pinned(stack[t][k]) /\ stack[t][k].addr \subseteq {t}
  PROVE  stack' \in [Thread -> Seq(FrameSet)] /\ NonePinned'
<1>1. stack \in [Thread -> Seq(FrameSet)] /\ cur \in Thread
  BY Zenon DEF InterruptTypeOK
<1>2. stack' \in [Thread -> Seq(FrameSet)] /\ stack'[cur] = r
  BY Zenon, <1>1
<1>3. \A t \in Thread \ {cur} : stack'[t] = stack[t]
  BY Zenon, <1>1
<1>4. ASSUME NEW t \in Thread, NEW k \in DOMAIN stack'[t]
      PROVE  ~ Pinned(stack'[t][k]) /\ stack'[t][k].addr \subseteq {t}
  BY Zenon, <1>2, <1>3, <1>4
<1> QED
  BY Zenon, <1>2, <1>4 DEF NonePinned

-----------------------------------------------------------------------------
(* The steps *)

(* Code outside external interrupts turns interrupts on and off.           *)
LEMMA LevelStep ==
  ASSUME InterruptInv, intr_disable \/ intr_enable
  PROVE  InterruptInv'
<1>1. /\ Plain /\ on' \in BOOLEAN
      /\ UNCHANGED <<stack, cur, in_external_intr, yield_on_return, cr2, irr, isr>>
  BY Zenon DEF intr_disable, intr_enable
<1>2. NonePinned /\ in_external_intr = FALSE /\ isr = Quiet
  BY Zenon, <1>1, OutsideNonePinned
<1>3. InterruptTypeOK'
  BY Zenon, <1>1 DEF InterruptInv, InterruptTypeOK
<1>4. NonePinned'
  BY Zenon, <1>1, <1>2 DEF NonePinned
<1> QED
  BY Zenon, <1>1, <1>2, <1>3, <1>4, NonePinnedAfter

(* A thread that yields puts a frame of its own on its stack.              *)
LEMMA YieldFrame ==
  ASSUME NEW b \in BOOLEAN, NEW f, f = Frame(YIELD, "return", b)
  PROVE  f \in FrameSet /\ ~ Pinned(f) /\ f.addr = {}
<1>1. f \in FrameSet /\ f.vec = YIELD /\ f.addr = {}
  BY Zenon DEF FrameSet, Frame
<1>2. YIELD \notin External /\ YIELD # 14
  BY InterruptAssumption DEF YIELD
<1> QED
  BY Zenon, <1>1, <1>2 DEF Pinned

LEMMA YieldStep ==
  ASSUME InterruptInv, thread_yield
  PROVE  InterruptInv'
<1> DEFINE f == Frame(YIELD, "return", on)
           r == <<f>> \o stack[cur]
<1>1. NonePinned /\ in_external_intr = FALSE /\ isr = Quiet
  BY Zenon, OutsideNonePinned DEF thread_yield
<1>2. f \in FrameSet /\ ~ Pinned(f) /\ f.addr = {}
  BY Zenon, YieldFrame DEF InterruptInv, InterruptTypeOK
<1>3. stack' = [stack EXCEPT ![cur] = r]
  BY Zenon DEF thread_yield
<1> HIDE DEF f
<1>4. cur \in Thread /\ stack[cur] \in Seq(FrameSet)
  BY Zenon DEF InterruptInv, InterruptTypeOK
<1>41. r = <<f>> \o stack[cur]
  BY Zenon
<1> HIDE DEF r
<1>5. /\ r \in Seq(FrameSet) /\ r[1] = f
      /\ \A k \in DOMAIN r : k # 1 => k - 1 \in DOMAIN stack[cur] /\ r[k] = stack[cur][k - 1]
  <2>1. f \in FrameSet
    BY Zenon, <1>2
  <2>2. stack[cur] \in Seq(FrameSet)
    BY Zenon, <1>4
  <2> QED
    BY <1>41, <2>1, <2>2
<1>6. \A k \in DOMAIN r : ~ Pinned(r[k]) /\ r[k].addr \subseteq {cur}
  BY Zenon, <1>1, <1>2, <1>4, <1>5 DEF NonePinned
<1>7. stack' \in [Thread -> Seq(FrameSet)] /\ NonePinned'
  BY Zenon, <1>1, <1>3, <1>5, <1>6, NewStack DEF InterruptInv, NonePinned
<1>8. InterruptTypeOK'
  BY Zenon, <1>7 DEF InterruptInv, InterruptTypeOK, thread_yield
<1> QED
  BY Zenon, <1>1, <1>7, <1>8, NonePinnedAfter DEF thread_yield

(* Return takes off the frame whose return is left.                        *)
LEMMA ReturnStep ==
  ASSUME InterruptInv, Return
  PROVE  InterruptInv'
<1> DEFINE r == Tail(stack[cur])
<1>1. NonePinned /\ in_external_intr = FALSE /\ isr = Quiet
  BY Zenon, OutsideNonePinned DEF Return
<1>2. stack[cur] # <<>> /\ stack' = [stack EXCEPT ![cur] = r]
  BY Zenon DEF Return, Running
<1>3. cur \in Thread /\ stack[cur] \in Seq(FrameSet) /\ Top \in FrameSet
  BY Zenon, <1>2, TopFrame DEF InterruptInv, InterruptTypeOK
<1>4. /\ r \in Seq(FrameSet)
      /\ \A k \in DOMAIN r : k + 1 \in DOMAIN stack[cur] /\ r[k] = stack[cur][k + 1]
  BY Zenon, <1>2, <1>3, Pop
<1> HIDE DEF r
<1>5. \A k \in DOMAIN r : ~ Pinned(r[k]) /\ r[k].addr \subseteq {cur}
  BY Zenon, <1>1, <1>3, <1>4 DEF NonePinned
<1>6. stack' \in [Thread -> Seq(FrameSet)] /\ NonePinned'
  BY Zenon, <1>1, <1>2, <1>4, <1>5, NewStack DEF InterruptInv, NonePinned
<1>7. InterruptTypeOK'
  BY Zenon, <1>3, <1>6 DEF InterruptInv, InterruptTypeOK, Return, FrameSet
<1> QED
  BY Zenon, <1>1, <1>6, <1>7, NonePinnedAfter DEF Return

(* A change of the innermost frame that unpins it leaves nothing pinned.   *)
LEMMA Unpinned ==
  ASSUME InterruptInv, stack[cur] # <<>>, NEW f \in FrameSet, ~ Pinned(f), f.addr \subseteq {cur},
         stack' = [stack EXCEPT ![cur] = [stack[cur] EXCEPT ![1] = f]]
  PROVE  stack' \in [Thread -> Seq(FrameSet)] /\ NonePinned'
<1> DEFINE r == [stack[cur] EXCEPT ![1] = f]
<1>1. cur \in Thread /\ stack[cur] \in Seq(FrameSet)
  BY Zenon DEF InterruptInv, InterruptTypeOK
<1>2. /\ r \in Seq(FrameSet) /\ r[1] = f /\ DOMAIN r = DOMAIN stack[cur]
      /\ \A k \in DOMAIN stack[cur] : k # 1 => r[k] = stack[cur][k]
  BY Zenon, <1>1, Replace
<1>3. stack' = [stack EXCEPT ![cur] = r]
  BY Zenon
<1> HIDE DEF r
<1>4. \A t \in Thread : \A k \in DOMAIN stack[t] :
        (t # cur \/ k # 1 => ~ Pinned(stack[t][k])) /\ stack[t][k].addr \subseteq {t}
  BY Zenon DEF InterruptInv, PinnedOnTop, FaultAddressOwn
<1>5. \A k \in DOMAIN r : ~ Pinned(r[k]) /\ r[k].addr \subseteq {cur}
  BY Zenon, <1>1, <1>2, <1>4
<1> QED
  BY Zenon, <1>2, <1>3, <1>4, <1>5, NewStack DEF InterruptInv

(* page_fault() reads CR2 while it is still that of its own fault.         *)
LEMMA FaultStep ==
  ASSUME InterruptInv, page_fault
  PROVE  InterruptInv'
<1> DEFINE f == [Top EXCEPT !.addr = {cr2}]
<1>1. stack[cur] # <<>> /\ Top.vec = 14 /\ cr2 = cur
  BY Zenon DEF page_fault, Faulting, InterruptInv, Shared
<1>2. Top \in FrameSet /\ Top = stack[cur][1] /\ stack[cur] \in Seq(FrameSet)
      /\ 1 \in DOMAIN stack[cur] /\ cur \in Thread
  BY Zenon, <1>1, TopFrame DEF InterruptInv, InterruptTypeOK
<1>3. ~ InExternal
  BY <1>1, InterruptAssumption DEF InExternal
<1>4. f \in FrameSet /\ f.vec = 14 /\ f.addr = {cur}
  BY Zenon, <1>1, <1>2 DEF FrameSet
<1>5. ~ Pinned(f)
  BY <1>4, InterruptAssumption DEF Pinned
<1>6. stack' = [stack EXCEPT ![cur] = [stack[cur] EXCEPT ![1] = f]]
  BY Zenon, <1>2 DEF page_fault
<1> HIDE DEF f
<1>7. stack' \in [Thread -> Seq(FrameSet)] /\ NonePinned'
  BY Zenon, <1>1, <1>4, <1>5, <1>6, Unpinned
<1>8. InterruptTypeOK' /\ in_external_intr' = FALSE /\ isr' = Quiet
  BY Zenon, <1>3, <1>7 DEF InterruptInv, InterruptTypeOK, Shared, page_fault
<1> QED
  BY Zenon, <1>7, <1>8, NonePinnedAfter

(* The handler of a trap ends its thread or only returns.                  *)
LEMMA TrapHandledStep ==
  ASSUME InterruptInv, HandleTrap
  PROVE  InterruptInv'
<1>1. NonePinned /\ in_external_intr = FALSE /\ isr = Quiet
  BY Zenon, OutsideNonePinned DEF HandleTrap
<1>2. stack[cur] # <<>> /\ Top.vec \in Internal /\ cur \in Thread
  BY Zenon DEF HandleTrap, InterruptInv, InterruptTypeOK
<1>3. Top \in FrameSet /\ Top = stack[cur][1] /\ stack[cur] \in Seq(FrameSet)
      /\ 1 \in DOMAIN stack[cur]
  BY Zenon, <1>2, TopFrame DEF InterruptInv
<1>4. stack' \in [Thread -> Seq(FrameSet)] /\ NonePinned'
  <2>1. CASE Top.vec \in Handlers
    <3>1. stack' = [stack EXCEPT ![cur] = Fresh]
      BY Zenon, <2>1 DEF HandleTrap
    <3> DEFINE f == Frame(YIELD, "return", TRUE)
    <3>2. f \in FrameSet /\ ~ Pinned(f) /\ f.addr = {}
      BY Zenon, YieldFrame
    <3>3. Fresh = <<f>>
      BY Zenon DEF Fresh
    <3> HIDE DEF f
    <3>4. /\ Fresh \in Seq(FrameSet)
          /\ \A k \in DOMAIN Fresh : Fresh[k] = f
      BY <3>2, <3>3
    <3>5. \A k \in DOMAIN Fresh : ~ Pinned(Fresh[k]) /\ Fresh[k].addr \subseteq {cur}
      BY Zenon, <3>2, <3>4
    <3> QED
      BY Zenon, <1>1, <3>1, <3>4, <3>5, NewStack DEF InterruptInv, NonePinned
  <2>2. CASE Top.vec \notin Handlers
    <3> DEFINE f == [Top EXCEPT !.stage = "return"]
    <3>1. f \in FrameSet /\ f.vec = Top.vec /\ f.addr = Top.addr
      BY Zenon, <1>3 DEF FrameSet
    <3>2. ~ Pinned(Top) /\ Top.addr \subseteq {cur}
      BY Zenon, <1>1, <1>2, <1>3 DEF NonePinned
    <3>3. ~ Pinned(f)
      BY <1>2, <3>1, <3>2, InterruptAssumption DEF Pinned
    <3>4. stack' = [stack EXCEPT ![cur] = [stack[cur] EXCEPT ![1] = f]]
      BY Zenon, <1>3, <2>2 DEF HandleTrap
    <3> HIDE DEF f
    <3> QED
      BY Zenon, <1>2, <3>1, <3>2, <3>3, <3>4, Unpinned
  <2> QED
    BY Zenon, <2>1, <2>2
<1>5. InterruptTypeOK'
  BY Zenon, <1>4 DEF InterruptInv, InterruptTypeOK, HandleTrap
<1> QED
  BY Zenon, <1>1, <1>4, <1>5, NonePinnedAfter DEF HandleTrap

(* The end-of-interrupt of the interrupt being handled leaves no line in   *)
(* service at either controller, spurious interrupts included.             *)
LEMMA EndOfInterrupt ==
  ASSUME NEW vec \in External, isr = Serving(vec)
  PROVE  pic_end_of_interrupt(vec) = Quiet
<1>1. vec \in Int /\ Line(vec) \in Int
  BY InterruptAssumption DEF Line
<1>2. First({}) = {} /\ First({Line(vec)}) = {Line(vec)} /\ First({vec - 40}) = {vec - 40}
  BY <1>1 DEF First
<1>3. CASE vec = 39
  BY Zenon, <1>2, <1>3 DEF pic_end_of_interrupt, Serving, Quiet
<1>4. CASE vec # 39 /\ vec < 40
  BY Zenon, <1>1, <1>2, <1>4 DEF pic_end_of_interrupt, Serving, Quiet
<1>5. CASE vec = 47
  BY ZenonT(60), <1>1, <1>2, <1>5 DEF pic_end_of_interrupt, Serving, Quiet
<1>6. CASE vec >= 40 /\ vec # 47
  BY Zenon, <1>1, <1>2, <1>6 DEF pic_end_of_interrupt, Serving, Quiet
<1> QED
  BY <1>1, <1>3, <1>4, <1>5, <1>6

(* The end of an external interrupt acknowledges it before another thread  *)
(* can run.                                                                *)
LEMMA LeaveStep ==
  ASSUME InterruptInv, Leave
  PROVE  InterruptInv'
<1> DEFINE f == [Top EXCEPT !.stage = "return"]
<1>1. stack[cur] # <<>> /\ Top.vec \in External /\ isr = Serving(Top.vec) /\ cur \in Thread
  BY Zenon DEF Leave, InExternal, InterruptInv, Shared, InterruptTypeOK
<1>2. Top \in FrameSet /\ Top = stack[cur][1] /\ stack[cur] \in Seq(FrameSet)
      /\ 1 \in DOMAIN stack[cur]
  BY Zenon, <1>1, TopFrame DEF InterruptInv
<1>3. f \in FrameSet /\ f.vec = Top.vec /\ f.stage = "return" /\ f.addr = Top.addr
  BY Zenon, <1>2 DEF FrameSet
<1>4. stack' = [stack EXCEPT ![cur] = [stack[cur] EXCEPT ![1] = f]]
  BY Zenon, <1>2 DEF Leave
<1> HIDE DEF f
<1>5. ~ Pinned(f) /\ f.addr \subseteq {cur}
  <2>1. f.vec # 14
    BY <1>1, <1>3, InterruptAssumption
  <2>2. f.addr \subseteq {cur}
    BY Zenon, <1>1, <1>2, <1>3 DEF InterruptInv, FaultAddressOwn
  <2> QED
    BY Zenon, <1>3, <2>1, <2>2 DEF Pinned
<1>6. stack' \in [Thread -> Seq(FrameSet)] /\ NonePinned'
  BY Zenon, <1>1, <1>3, <1>4, <1>5, Unpinned
<1>7. in_external_intr' = FALSE /\ isr' = Quiet
  BY Zenon, <1>1, EndOfInterrupt DEF Leave
<1>8. InterruptTypeOK'
  BY Zenon, <1>6 DEF InterruptInv, InterruptTypeOK, Leave
<1> QED
  BY Zenon, <1>6, <1>7, <1>8, NonePinnedAfter

(* The handler of an external interrupt asks for a yield.                  *)
LEMMA AskStep ==
  ASSUME InterruptInv, intr_yield_on_return
  PROVE  InterruptInv'
<1> DEFINE f == [Top EXCEPT !.asked = TRUE]
           r == [stack[cur] EXCEPT ![1] = f]
<1>1. /\ stack[cur] # <<>> /\ Top.vec \in External /\ Top.stage = "handler" /\ cur \in Thread
      /\ stack \in [Thread -> Seq(FrameSet)] /\ InExternal
  BY Zenon DEF intr_yield_on_return, InExternal, InterruptInv, InterruptTypeOK
<1>2. Top \in FrameSet /\ Top = stack[cur][1] /\ stack[cur] \in Seq(FrameSet)
      /\ 1 \in DOMAIN stack[cur]
  BY Zenon, <1>1, TopFrame DEF InterruptInv
<1>3. /\ f \in FrameSet /\ f.vec = Top.vec /\ f.stage = Top.stage /\ f.addr = Top.addr
      /\ f.asked = TRUE
  BY Zenon, <1>2 DEF FrameSet
<1>4. stack' = [stack EXCEPT ![cur] = r]
  BY Zenon, <1>2 DEF intr_yield_on_return
<1> HIDE DEF f
<1>5. Pinned(f) /\ Pinned(Top) /\ f.vec # 14
  BY <1>1, <1>3, InterruptAssumption DEF Pinned
<1>6. /\ r \in Seq(FrameSet) /\ r # <<>> /\ Head(r) = f /\ r[1] = f
      /\ DOMAIN r = DOMAIN stack[cur]
      /\ \A k \in DOMAIN stack[cur] : k # 1 => r[k] = stack[cur][k]
  BY <1>1, <1>2, <1>3, Replace
<1> HIDE DEF r
<1>7. /\ stack' \in [Thread -> Seq(FrameSet)] /\ stack'[cur] = r
      /\ \A t \in Thread \ {cur} : stack'[t] = stack[t]
  BY Zenon, <1>1, <1>4, <1>6
<1>8. InterruptTypeOK' /\ cur' = cur /\ on' = on
  BY Zenon, <1>7 DEF InterruptInv, InterruptTypeOK, intr_yield_on_return
<1>9. Top' = f /\ InExternal' /\ ~ Faulting'
  <2>1. stack'[cur'] # <<>> /\ Top' = f
    BY Zenon, <1>6, <1>7, <1>8 DEF Top
  <2> QED
    BY Zenon, <1>1, <1>3, <1>5, <2>1 DEF InExternal, Faulting
<1>10. PinnedOnTop' /\ FaultAddressOwn'
  <2> SUFFICES ASSUME NEW t \in Thread, NEW k \in DOMAIN stack'[t]
               PROVE  /\ Pinned(stack'[t][k]) =>
                           t = cur /\ k = 1 /\ ~ on /\ stack'[t][k].stage = "handler"
                      /\ stack'[t][k].addr \subseteq {t}
    BY Zenon, <1>8 DEF PinnedOnTop, FaultAddressOwn
  <2>1. /\ Pinned(stack[t][k]) => t = cur /\ k = 1 /\ ~ on /\ stack[t][k].stage = "handler"
        /\ stack[t][k].addr \subseteq {t} /\ k \in DOMAIN stack[t]
    BY Zenon, <1>6, <1>7 DEF InterruptInv, PinnedOnTop, FaultAddressOwn
  <2>2. CASE t = cur /\ k = 1
    BY Zenon, <1>1, <1>2, <1>3, <1>5, <1>6, <1>7, <2>1, <2>2
  <2>3. CASE t # cur \/ k # 1
    BY Zenon, <1>6, <1>7, <2>1, <2>3
  <2> QED
    BY Zenon, <2>2, <2>3
<1>11. Shared'
  BY Zenon, <1>1, <1>3, <1>9 DEF InterruptInv, Shared, intr_yield_on_return
<1> QED
  BY Zenon, <1>8, <1>10, <1>11 DEF InterruptInv

(* intr_handler() is entered with nothing pinned; what it pins has         *)
(* interrupts off by its gate.                                             *)
LEMMA EnterStep ==
  ASSUME InterruptInv, on, NEW vec \in External \cup Internal, Enter(vec),
         irr' \subseteq External \ {39, 47}, cr2' \in Thread, vec = 14 => cr2' = cur,
         isr' = IF vec \in External THEN Serving(vec) ELSE isr
  PROVE  InterruptInv'
<1> DEFINE f == Frame(vec, "handler", on)
           r == <<f>> \o stack[cur]
<1>1. NonePinned /\ in_external_intr = FALSE /\ isr = Quiet
  BY Zenon, OutsideNonePinned
<1>2. /\ f \in FrameSet /\ f.vec = vec /\ f.stage = "handler" /\ f.addr = {} /\ f.asked = FALSE
  BY Zenon DEF InterruptInv, InterruptTypeOK, FrameSet, Frame
<1>3. stack' = [stack EXCEPT ![cur] = r]
  BY Zenon DEF Enter
<1> HIDE DEF f
<1>4. cur \in Thread /\ stack[cur] \in Seq(FrameSet) /\ stack \in [Thread -> Seq(FrameSet)]
  BY Zenon DEF InterruptInv, InterruptTypeOK
<1>41. r = <<f>> \o stack[cur]
  BY Zenon
<1> HIDE DEF r
<1>5. /\ r \in Seq(FrameSet) /\ r # <<>> /\ Head(r) = f /\ r[1] = f
      /\ \A k \in DOMAIN r : k # 1 => k - 1 \in DOMAIN stack[cur] /\ r[k] = stack[cur][k - 1]
  <2>1. f \in FrameSet
    BY Zenon, <1>2
  <2>2. stack[cur] \in Seq(FrameSet)
    BY Zenon, <1>4
  <2> QED
    BY <1>41, <2>1, <2>2
<1>6. /\ stack' \in [Thread -> Seq(FrameSet)] /\ stack'[cur] = r
      /\ \A t \in Thread \ {cur} : stack'[t] = stack[t]
  BY Zenon, <1>3, <1>4, <1>5
<1>7. /\ cur' = cur /\ on' \in BOOLEAN /\ (vec \in External \/ vec = 14 => ~ on')
      /\ in_external_intr' = (vec \in External)
      /\ vec \in External => yield_on_return' = FALSE
      /\ yield_on_return' \in BOOLEAN
  BY <1>1, InterruptAssumption DEF Enter, make_gate, InterruptInv, InterruptTypeOK
<1>8. InterruptTypeOK'
  BY <1>4, <1>6, <1>7 DEF InterruptTypeOK
<1>9. Top' = f /\ (InExternal' <=> vec \in External) /\ (Faulting' <=> vec = 14)
  BY Zenon, <1>2, <1>5, <1>6, <1>7 DEF Top, InExternal, Faulting
<1>10. PinnedOnTop' /\ FaultAddressOwn'
  <2> SUFFICES ASSUME NEW t \in Thread, NEW k \in DOMAIN stack'[t]
               PROVE  /\ Pinned(stack'[t][k]) =>
                           t = cur /\ k = 1 /\ ~ on' /\ stack'[t][k].stage = "handler"
                      /\ stack'[t][k].addr \subseteq {t}
    BY Zenon, <1>7 DEF PinnedOnTop, FaultAddressOwn
  <2>1. CASE t = cur /\ k = 1
    <3>1. stack'[t][k] = f
      BY Zenon, <1>5, <1>6, <2>1
    <3> QED
      BY Zenon, <1>2, <1>7, <2>1, <3>1 DEF Pinned
  <2>2. CASE t = cur /\ k # 1
    <3>1. k - 1 \in DOMAIN stack[cur] /\ stack'[t][k] = stack[cur][k - 1]
      BY Zenon, <1>5, <1>6, <2>2
    <3> QED
      BY Zenon, <1>1, <1>4, <2>2, <3>1 DEF NonePinned
  <2>3. CASE t # cur
    BY Zenon, <1>1, <1>6, <2>3 DEF NonePinned
  <2> QED
    BY Zenon, <2>1, <2>2, <2>3
<1>11. Shared'
  BY Zenon, <1>1, <1>2, <1>7, <1>9 DEF Shared
<1> QED
  BY Zenon, <1>8, <1>10, <1>11 DEF InterruptInv

(* A controller hands over an interrupt, or the processor takes a trap.    *)
LEMMA DeliverStep ==
  ASSUME InterruptInv, NEW vec \in External, Raise(vec) \/ Deliver(vec) \/ DeliverSpurious(vec)
  PROVE  InterruptInv'
<1>1. vec \in Int /\ vec # 14 /\ Line(vec) \in Int
  BY InterruptAssumption DEF Line
<1>2. CASE Raise(vec)
  <2>1. UNCHANGED <<stack, cur, on, in_external_intr, yield_on_return, cr2, isr>>
    BY Zenon, <1>2 DEF Raise
  <2>2. InterruptTypeOK'
    BY ZenonT(60), <1>2, <2>1 DEF Raise, InterruptInv, InterruptTypeOK
  <2>3. PinnedOnTop' /\ FaultAddressOwn'
    BY Zenon, <2>1 DEF InterruptInv, PinnedOnTop, FaultAddressOwn
  <2>4. Shared'
    BY Zenon, <2>1 DEF InterruptInv, Shared, InExternal, Faulting, Top
  <2> QED
    BY Zenon, <2>2, <2>3, <2>4 DEF InterruptInv
<1>3. CASE Deliver(vec)
  <2>1. isr = Quiet
    BY Zenon, <1>3, OutsideNonePinned DEF Deliver
  <2>2. vec \notin {39, 47} /\ irr' \subseteq External \ {39, 47}
    BY Zenon, <1>3 DEF Deliver, InterruptInv, InterruptTypeOK
  <2>3. isr' = Serving(vec)
    BY Zenon, <1>1, <1>3, <2>1, <2>2 DEF Deliver, InService, Serving, Quiet
  <2> QED
    BY Zenon, <1>1, <1>3, <2>2, <2>3, EnterStep DEF Deliver, InterruptInv, InterruptTypeOK
<1>4. CASE DeliverSpurious(vec)
  <2>1. isr = Quiet
    BY Zenon, <1>4, OutsideNonePinned DEF DeliverSpurious
  <2>2. isr' = Serving(vec)
    BY <1>4, <2>1 DEF DeliverSpurious, Serving, Quiet, Line
  <2> QED
    BY ZenonT(60), <1>1, <1>4, <2>2, EnterStep DEF DeliverSpurious, InterruptInv, InterruptTypeOK
<1> QED
  BY Zenon, <1>2, <1>3, <1>4

LEMMA TrapStep ==
  ASSUME InterruptInv, NEW vec \in Internal, Trap(vec)
  PROVE  InterruptInv'
<1>1. vec \notin External
  BY InterruptAssumption
<1> QED
  BY Zenon, <1>1, EnterStep DEF Trap, InterruptInv, InterruptTypeOK

-----------------------------------------------------------------------------
(* The theorems *)

(* The handler of an external interrupt, and a page fault up to the        *)
(* reading of CR2, are always innermost in the running thread with         *)
(* interrupts off, and the variables intr_handler() shares between all     *)
(* interrupts, the fault address and the lines in service are theirs.      *)
THEOREM InterruptInvariant == Spec => []InterruptInv
<1>1. Init => InterruptInv
  <2> SUFFICES ASSUME Init PROVE InterruptInv
    BY Zenon
  <2> DEFINE f == Frame(YIELD, "return", TRUE)
  <2>1. /\ f \in FrameSet /\ ~ Pinned(f) /\ f.addr = {} /\ f.stage = "return" /\ f.vec # 14
        /\ f.vec \notin External /\ Fresh = <<f>>
    BY InterruptAssumption DEF FrameSet, Frame, YIELD, Pinned, Fresh
  <2> HIDE DEF f
  <2>2. /\ Fresh \in Seq(FrameSet) /\ \A k \in DOMAIN Fresh : Fresh[k] = f
        /\ Head(Fresh) = f
    BY <2>1
  <2>3. cur \in Thread /\ stack = [t \in Thread |-> Fresh]
    BY Zenon DEF Init
  <2>4. InterruptTypeOK
    BY Zenon, <2>2, <2>3 DEF Init, InterruptTypeOK
  <2>5. PinnedOnTop /\ FaultAddressOwn
    BY Zenon, <2>1, <2>2, <2>3 DEF PinnedOnTop, FaultAddressOwn
  <2>6. Top = f
    BY Zenon, <2>2, <2>3 DEF Top
  <2>7. ~ InExternal /\ ~ Faulting
    BY Zenon, <2>1, <2>6 DEF InExternal, Faulting
  <2>8. Shared
    BY Zenon, <2>7 DEF Init, Shared, Quiet
  <2> QED
    BY Zenon, <2>4, <2>5, <2>8 DEF InterruptInv
<1>2. InterruptInv /\ [Next]_vars => InterruptInv'
  <2> SUFFICES ASSUME InterruptInv, [Next]_vars PROVE InterruptInv'
    BY Zenon
  <2>1. CASE intr_disable \/ intr_enable
    BY Zenon, <2>1, LevelStep
  <2>2. CASE thread_yield
    BY Zenon, <2>2, YieldStep
  <2>3. CASE intr_yield_on_return
    BY Zenon, <2>3, AskStep
  <2>4. CASE Leave
    BY Zenon, <2>4, LeaveStep
  <2>5. CASE page_fault
    BY Zenon, <2>5, FaultStep
  <2>6. CASE HandleTrap
    BY Zenon, <2>6, TrapHandledStep
  <2>7. CASE Return
    BY Zenon, <2>7, ReturnStep
  <2>8. CASE \E vec \in External : Raise(vec) \/ Deliver(vec) \/ DeliverSpurious(vec)
    BY Zenon, <2>8, DeliverStep
  <2>9. CASE \E vec \in Internal : Trap(vec)
    BY Zenon, <2>9, TrapStep
  <2>10. CASE UNCHANGED vars
    <3>1. UNCHANGED <<stack, cur, on, in_external_intr, yield_on_return, cr2, irr, isr>>
      BY Zenon, <2>10 DEF vars
    <3>2. InterruptTypeOK' /\ PinnedOnTop' /\ FaultAddressOwn'
      BY Zenon, <3>1 DEF InterruptInv, InterruptTypeOK, PinnedOnTop, FaultAddressOwn
    <3>3. Shared'
      BY Zenon, <3>1 DEF InterruptInv, Shared, InExternal, Faulting, Top
    <3> QED
      BY Zenon, <3>2, <3>3 DEF InterruptInv
  <2> QED
    BY Zenon, <2>1, <2>2, <2>3, <2>4, <2>5, <2>6, <2>7, <2>8, <2>9, <2>10 DEF Next
<1> QED
  BY <1>1, <1>2, PTL DEF Spec

(* Whatever handlers, traps and threads there are, external interrupts     *)
(* never nest and are acknowledged, yields on return are an interrupt's    *)
(* own, and page_fault() reads the address of its own fault.               *)
THEOREM InterruptsSafe == Spec => []InterruptsRight
<1>1. InterruptInv => InterruptsRight
  <2> SUFFICES ASSUME InterruptInv PROVE InterruptsRight
    BY Zenon
  <2> DEFINE handling == UNION {{<<t, k>> : k \in {k \in DOMAIN stack[t] :
                            stack[t][k].vec \in External /\ stack[t][k].stage = "handler"}} : t \in Thread}
  <2>1. ASSUME NEW h \in handling
        PROVE  h = <<cur, 1>> /\ ~ on /\ InExternal
    <3>1. PICK t \in Thread : h \in {<<t, k>> : k \in {k \in DOMAIN stack[t] :
                            stack[t][k].vec \in External /\ stack[t][k].stage = "handler"}}
      BY Zenon, <2>1 DEF handling
    <3>2. PICK k \in DOMAIN stack[t] :
            h = <<t, k>> /\ stack[t][k].vec \in External /\ stack[t][k].stage = "handler"
      BY Zenon, <3>1
    <3>3. t = cur /\ k = 1 /\ ~ on
      BY Zenon, <3>2 DEF InterruptInv, PinnedOnTop, Pinned
    <3>4. stack[cur] # <<>> /\ Top = stack[cur][1]
      <4>1. stack[cur] # <<>>
        BY <3>2, <3>3
      <4> QED
        BY Zenon, <4>1, TopFrame DEF InterruptInv
    <3> QED
      BY Zenon, <3>2, <3>3, <3>4 DEF InExternal
  <2>2. ASSUME InExternal PROVE <<cur, 1>> \in handling
    <3>1. 1 \in DOMAIN stack[cur] /\ Top = stack[cur][1] /\ cur \in Thread
      BY Zenon, <2>2, TopFrame DEF InExternal, InterruptInv, InterruptTypeOK
    <3>2. <<cur, 1>> \in {<<cur, k>> : k \in {k \in DOMAIN stack[cur] :
                            stack[cur][k].vec \in External /\ stack[cur][k].stage = "handler"}}
      BY Zenon, <2>2, <3>1 DEF InExternal
    <3> QED
      BY Zenon, <3>1, <3>2 DEF handling
  <2>3. handling \subseteq {<<cur, 1>>}
    BY Zenon, <2>1
  <2>4. (handling # {}) <=> InExternal
    BY Zenon, <2>1, <2>2
  <2>5. handling # {} => ~ on
    BY Zenon, <2>1
  <2> HIDE DEF handling
  <2>6. in_external_intr = (handling # {})
    BY Zenon, <2>4 DEF InterruptInv, InterruptTypeOK, Shared
  <2>7. NeverNest
    BY Zenon, <2>3, <2>5, <2>6 DEF NeverNest, handling
  <2>8. Acknowledged /\ YieldIsOwn /\ FaultAddressOwn
    BY Zenon DEF InterruptInv, Shared, Acknowledged, YieldIsOwn, Quiet
  <2> QED
    BY Zenon, <2>7, <2>8 DEF InterruptsRight
<1> QED
  BY <1>1, InterruptInvariant, PTL
=============================================================================
