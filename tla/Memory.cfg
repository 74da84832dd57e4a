SPECIFICATION MCSpec
CONSTANTS
  NULL = NULL
  FREED = FREED
  Nobody = Nobody
  main = main
  init_page_dir = init_page_dir
  Caller = {t1, t2}
  Machine <- Machines
  MaxCnt = 2
  PGSIZE = 4
  BitmapHeader = 2
  ElemSize = 1
  ELEM_BITS = 2
  Proc = {t1, t2}
  Pd = {d1, d2, init_page_dir}
  VPage = {v1}
  KPage = {k1, k2}
SYMMETRY Symmetry
INVARIANTS
  TranslationsRight
  PoolsExact
  HeapExact
  ProcessesSafe
  ImageRight
