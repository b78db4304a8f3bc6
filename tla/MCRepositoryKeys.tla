-------------------------- MODULE MCRepositoryKeys --------------------------
(* Instance of RepositoryKeys: a directory reached by a path and by a        *)
(* symlink, one that may become a linked worktree of it, and one more.      *)
EXTENDS RepositoryKeys

CONSTANTS direct, symlink, second, fresh, d1, d2, d3

PathsDef == {direct, symlink, second, fresh}
DirectoriesDef == {d1, d2, d3}
DirOfDef == [p \in PathsDef |->
  CASE p \in {direct, symlink} -> d1 [] p = second -> d2 [] p = fresh -> d3]
Worktrees == {<<d2, d1>>}
=============================================================================
