SPECIFICATION MCSpec
CONSTANTS
  Name = {name1, name2}
  Handle = {h1, h2}
  DiskSize = 8
  DirEntries = 2
  Setting <- Setups
  Nil = Nil
SYMMETRY Symmetry
VIEW MCView
INVARIANTS
  ImagesConsistent
  CallsExact
  PartitionsRight
PROPERTY
  OpenFilesKept
  ArchiveKept
