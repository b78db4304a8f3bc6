SPECIFICATION KeysSpec
CONSTANTS
  None = None
  direct = direct
  symlink = symlink
  second = second
  fresh = fresh
  d1 = d1
  d2 = d2
  d3 = d3
  Paths <- PathsDef
  Directories <- DirectoriesDef
  dirOf <- DirOfDef
  Linkable <- Worktrees
INVARIANTS RepositoryWritesExclusive BusyIsSeen
