\* Two threads open the same file.
SPECIFICATION InodesSpec
CONSTANTS
  Opener = {t1, t2}
  Sector = {s1}
  Inode = {1, 2}
  Garbage = Garbage
INVARIANT OneInodePerSector
