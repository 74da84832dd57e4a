------------------------------- MODULE PageDir -------------------------------
(***************************************************************************)
(* userprog/pagedir.c: page table entries that the kernel changes while    *)
(* the processor (external) walks them, sets their accessed and dirty bits *)
(* and keeps copies in its translation lookaside buffer.  `used' and       *)
(* `written' record what the processor did since the kernel last cleared   *)
(* the bit.                                                                *)
(***************************************************************************)
EXTENDS FiniteSets

CONSTANTS Pd,            \* page directories, init_page_dir included
          init_page_dir, NULL,
          VPage, KPage   \* user pages, frames

VARIABLES pte,           \* [Pd -> [VPage -> entry or NULL]]
          cr3, tlb,      \* active directory; cached [v, kpage, w, d]
          used, written  \* sets of <<pd, v>>

pagedir_vars == <<pte, cr3, tlb, used, written>>

Entry == [kpage : KPage, p : BOOLEAN, w : BOOLEAN, a : BOOLEAN, d : BOOLEAN]
User == Pd \ {init_page_dir}

ASSUME PageDirAssumption == NULL \notin Entry /\ init_page_dir \in Pd

PageDirInit ==
  /\ pte = [pd \in Pd |-> [v \in VPage |-> NULL]]
  /\ cr3 = init_page_dir /\ tlb = {} /\ used = {} /\ written = {}

TypeOK ==
  /\ pte \in [Pd -> [VPage -> Entry \cup {NULL}]] /\ cr3 \in Pd
  /\ tlb \subseteq [v : VPage, kpage : KPage, w : BOOLEAN, d : BOOLEAN]
  /\ used \subseteq Pd \X VPage /\ written \subseteq Pd \X VPage

-----------------------------------------------------------------------------
(* The processor (external) *)

Cached(v) == {e \in tlb : e.v = v}

\* A page table walk: sets the accessed bit, and the dirty bit for a write.
Walk(v, write) ==
  LET e == pte[cr3][v]
  IN  /\ IF e = NULL THEN FALSE ELSE e.p /\ (write => e.w)
      /\ pte' = [pte EXCEPT ![cr3][v].a = TRUE, ![cr3][v].d = @ \/ write]
      /\ tlb' = (tlb \ Cached(v)) \cup {[v |-> v, kpage |-> e.kpage, w |-> e.w, d |-> e.d \/ write]}

Hit(v, write) ==
  /\ \E e \in Cached(v) : write => e.w /\ e.d
  /\ UNCHANGED <<pte, tlb>>

\* A read or write of a user page; a write through an entry not known to be
\* dirty walks the tables again.
Access(v, write) ==
  /\ IF \E e \in Cached(v) : write => e.w /\ e.d THEN Hit(v, write) ELSE Walk(v, write)
  /\ used' = used \cup {<<cr3, v>>}
  /\ written' = IF write THEN written \cup {<<cr3, v>>} ELSE written
  /\ UNCHANGED cr3

Evict == \E e \in tlb : tlb' = tlb \ {e} /\ UNCHANGED <<pte, cr3, used, written>>

-----------------------------------------------------------------------------
(* The kernel *)

\* Loading CR3 empties the buffer.
pagedir_activate(pd) ==
  /\ cr3' = pd /\ tlb' = {}
  /\ UNCHANGED <<pte, used, written>>

\* Re-activates PD if it is the active one.
invalidate_pagedir(pd) == tlb' = IF cr3 = pd THEN {} ELSE tlb

pagedir_set_page(pd, v, kpage, writable) ==
  /\ IF pte[pd][v] = NULL THEN TRUE ELSE ~ pte[pd][v].p
  /\ pte' = [pte EXCEPT ![pd][v] = [kpage |-> kpage, p |-> TRUE, w |-> writable, a |-> FALSE, d |-> FALSE]]
  /\ used' = used \ {<<pd, v>>} /\ written' = written \ {<<pd, v>>}
  /\ UNCHANGED <<cr3, tlb>>

(* Mutant of pagedir_clear_page: the buffer keeps the page. *)
pagedir_clear_page_cached(pd, v) ==
  /\ pte[pd][v] # NULL /\ pte[pd][v].p
  /\ pte' = [pte EXCEPT ![pd][v].p = FALSE]
  /\ UNCHANGED <<tlb, cr3, used, written>>

pagedir_clear_page(pd, v) ==
  /\ pte[pd][v] # NULL /\ pte[pd][v].p
  /\ pte' = [pte EXCEPT ![pd][v].p = FALSE]
  /\ invalidate_pagedir(pd)
  /\ UNCHANGED <<cr3, used, written>>

(* Mutant of pagedir_set_dirty: the buffer keeps the bit. *)
pagedir_set_dirty_cached(pd, v, dirty) ==
  /\ pte[pd][v] # NULL
  /\ pte' = [pte EXCEPT ![pd][v].d = dirty]
  /\ written' = IF dirty THEN written ELSE written \ {<<pd, v>>}
  /\ UNCHANGED <<tlb, cr3, used>>

pagedir_set_dirty(pd, v, dirty) ==
  /\ pte[pd][v] # NULL
  /\ pte' = [pte EXCEPT ![pd][v].d = dirty]
  /\ IF dirty THEN UNCHANGED <<tlb, written>>
     ELSE invalidate_pagedir(pd) /\ written' = written \ {<<pd, v>>}
  /\ UNCHANGED <<cr3, used>>

(* Mutant of pagedir_set_accessed: the buffer keeps the bit. *)
pagedir_set_accessed_cached(pd, v, accessed) ==
  /\ pte[pd][v] # NULL
  /\ pte' = [pte EXCEPT ![pd][v].a = accessed]
  /\ used' = IF accessed THEN used ELSE used \ {<<pd, v>>}
  /\ UNCHANGED <<tlb, cr3, written>>

pagedir_set_accessed(pd, v, accessed) ==
  /\ pte[pd][v] # NULL
  /\ pte' = [pte EXCEPT ![pd][v].a = accessed]
  /\ IF accessed THEN UNCHANGED <<tlb, used>>
     ELSE invalidate_pagedir(pd) /\ used' = used \ {<<pd, v>>}
  /\ UNCHANGED <<cr3, written>>

PageDirNext ==
  \/ Evict
  \/ \E v \in VPage, b \in BOOLEAN : Access(v, b)
  \/ \E pd \in Pd : pagedir_activate(pd)
  \/ \E pd \in User, v \in VPage :
       \/ pagedir_clear_page(pd, v)
       \/ \E k \in KPage, b \in BOOLEAN : pagedir_set_page(pd, v, k, b)
       \/ \E b \in BOOLEAN : pagedir_set_dirty(pd, v, b) \/ pagedir_set_accessed(pd, v, b)

PageDirSpec == PageDirInit /\ [][PageDirNext]_pagedir_vars

-----------------------------------------------------------------------------
(* Properties *)

(* A page that pagedir_clear_page() marked not present, or that belongs to *)
(* another directory, cannot be reached any more: the processor caches     *)
(* only present entries of the active directory, with their frame and      *)
(* their protection.                                                       *)
NothingStale ==
  \A e \in tlb : /\ pte[cr3][e.v] # NULL /\ pte[cr3][e.v].p
                 /\ e.kpage = pte[cr3][e.v].kpage /\ e.w = pte[cr3][e.v].w

(* pagedir_is_dirty() misses no write since the entry was installed or its *)
(* bit cleared by pagedir_set_dirty().                                     *)
DirtyTracked == \A x \in written : pte[x[1]][x[2]].d

(* pagedir_is_accessed() misses no access since the entry was installed or *)
(* its bit cleared by pagedir_set_accessed().                              *)
AccessedTracked == \A x \in used : pte[x[1]][x[2]].a

(* The three together: whatever the processor cached, no translation is    *)
(* used after the functions of pagedir.c withdrew it, and no write or      *)
(* access escapes the dirty and accessed bits they read.                   *)
TranslationsRight == NothingStale /\ DirtyTracked /\ AccessedTracked

\* Together they are inductive with: what is cached has its bits set.
Coherent ==
  /\ NothingStale
  /\ \A e \in tlb : pte[cr3][e.v].a /\ (e.d => pte[cr3][e.v].d)
  /\ \A x \in written : pte[x[1]][x[2]] # NULL /\ pte[x[1]][x[2]].d
  /\ \A x \in used : pte[x[1]][x[2]] # NULL /\ pte[x[1]][x[2]].a
==============================================================================
