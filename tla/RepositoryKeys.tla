--------------------------- MODULE RepositoryKeys ---------------------------
(***************************************************************************)
(* How electron/GitScheduler.ts decides that two paths name one repository.*)
(*                                                                         *)
(* schedule() queues a job under canonicalRepoKey(path): the common Git    *)
(* directory if the path holds a repository, else its real path, else the  *)
(* path itself.  The key is computed at the first use of a path and cached *)
(* for the life of the process.  GitScheduler models what happens under one*)
(* key; here each key is a lock for one write.                             *)
(*                                                                         *)
(* Paths are normalised already (path.resolve); dirOf follows symlinks.    *)
(* The user's own tools create directories, repositories and linked        *)
(* worktrees.  Any path may be used too early: the application looks at    *)
(* targets of a clone and runs `git init` in directories that hold no      *)
(* repository yet.  Such a path keeps the key of that time.                *)
(*                                                                         *)
(* The names of the specification are prefixed, so that GitScheduler_proofs*)
(* can extend this module beside GitScheduler.                             *)
(***************************************************************************)
EXTENDS Naturals, FiniteSets

CONSTANTS
  Paths,          \* normalised spellings callers use
  Directories,    \* physical directories
  dirOf,          \* the directory a path leads to
  Linkable,       \* <<d, m>>: d may become a linked worktree of m
  None            \* no directory, no cached key

ASSUME DirAssumption == dirOf \in [Paths -> Directories]
ASSUME LinkableAssumption == Linkable \subseteq Directories \X Directories

VARIABLES
  exists,     \* the directories that exist
  common,     \* directory -> directory whose .git is its common Git directory
  cache,      \* repoKeyCache
  running,    \* paths under which a write runs
  initing,    \* those of them that run `git init`
  \* history
  early       \* paths whose key was cached before they held a repository

keysVars == <<exists, common, cache, running, initing, early>>

\* A key is told apart by where it came from: a .git directory, a real path,
\* or the spelling.
RepoKey(source, of) == [source |-> source, of |-> of]
RepoKeys == {RepoKey("common", d) : d \in Directories}
          \cup {RepoKey("real", d) : d \in Directories}
          \cup {RepoKey("lexical", p) : p \in Paths}

ASSUME NoneAssumption == None \notin Directories /\ None \notin RepoKeys

KeysInit ==
  /\ exists \in SUBSET Directories
  /\ common = [d \in Directories |-> None]
  /\ cache = [p \in Paths |-> None]
  /\ running = {}
  /\ initing = {}
  /\ early = {}

\* repositoryCommonDirectory(): .git itself, the gitdir file's commondir, or
\* null.
CommonDirectory_OwnDirectory(p) ==        \* fault: the commondir file is ignored
  IF common[dirOf[p]] = None THEN None ELSE dirOf[p]
CommonDirectory(p) == common[dirOf[p]]

ResolvedKey(p) ==
  IF CommonDirectory(p) # None THEN RepoKey("common", CommonDirectory(p))
  ELSE IF dirOf[p] \in exists THEN RepoKey("real", dirOf[p])
  ELSE RepoKey("lexical", p)

\* canonicalRepoKey()
CanonicalKey(p) == IF cache[p] # None THEN cache[p] ELSE ResolvedKey(p)

\* getState() caches the key it has computed.
CacheKey(p) ==
  /\ cache' = [cache EXCEPT ![p] = CanonicalKey(p)]
  /\ early' = IF cache[p] = None /\ common[dirOf[p]] = None THEN early \cup {p} ELSE early

\* isRepositoryBusy() with the common directory its caller has probed; it
\* never touches the file system itself.
BusyKey_LexicalFirst(p, probed) ==          \* fault: the probe is not used
  IF cache[p] # None THEN cache[p] ELSE RepoKey("lexical", p)
BusyKey(p, probed) ==
  IF cache[p] # None THEN cache[p]
  ELSE IF probed # None THEN RepoKey("common", probed)
  ELSE RepoKey("lexical", p)

\* The keys that have a job.
ActiveKeys == {cache[p] : p \in running}
RepositoryBusy(p) == BusyKey(p, CommonDirectory(p)) \in ActiveKeys

\* A write scheduled at p starts: its key is cached and nothing runs under it.
StartWrite(p) ==
  /\ common[dirOf[p]] # None
  /\ p \notin running
  /\ CanonicalKey(p) \notin ActiveKeys
  /\ CacheKey(p)
  /\ running' = running \cup {p}
  /\ UNCHANGED <<exists, common, initing>>

\* `git init` at a directory that holds no repository yet.
StartInit(p) ==
  /\ dirOf[p] \in exists
  /\ common[dirOf[p]] = None
  /\ p \notin running
  /\ CanonicalKey(p) \notin ActiveKeys
  /\ CacheKey(p)
  /\ running' = running \cup {p}
  /\ initing' = initing \cup {p}
  /\ UNCHANGED <<exists, common>>

EndWrite(p) ==
  /\ p \in running
  /\ running' = running \ {p}
  /\ initing' = initing \ {p}
  /\ common' = IF p \in initing /\ common[dirOf[p]] = None
               THEN [common EXCEPT ![dirOf[p]] = dirOf[p]] ELSE common
  /\ UNCHANGED <<exists, cache, early>>

\* A read or any other job resolves and caches the key of a path.
Resolve(p) ==
  /\ cache[p] = None
  /\ CacheKey(p)
  /\ UNCHANGED <<exists, common, running, initing>>

-----------------------------------------------------------------------------
\* What the user's own tools do to the disk.
MakeDirectory(d) ==
  /\ d \notin exists
  /\ exists' = exists \cup {d}
  /\ UNCHANGED <<common, cache, running, initing, early>>

InitOutside(d) ==
  /\ d \in exists
  /\ common[d] = None
  /\ common' = [common EXCEPT ![d] = d]
  /\ UNCHANGED <<exists, cache, running, initing, early>>

\* git worktree add makes a directory, or takes an empty one.
AddWorktree(d, main) ==
  /\ <<d, main>> \in Linkable
  /\ common[d] = None
  /\ common[main] = main
  /\ exists' = exists \cup {d}
  /\ common' = [common EXCEPT ![d] = main]
  /\ UNCHANGED <<cache, running, initing, early>>

KeysNext ==
  \/ \E p \in Paths : StartWrite(p)
  \/ \E p \in Paths : StartInit(p)
  \/ \E p \in Paths : EndWrite(p)
  \/ \E p \in Paths : Resolve(p)
  \/ \E d \in Directories : MakeDirectory(d)
  \/ \E d \in Directories : InitOutside(d)
  \/ \E d, main \in Directories : AddWorktree(d, main)

KeysSpec == KeysInit /\ [][KeysNext]_keysVars

-----------------------------------------------------------------------------
KeysTypeOK ==
  /\ exists \subseteq Directories
  /\ common \in [Directories -> Directories \cup {None}]
  /\ cache \in [Paths -> RepoKeys \cup {None}]
  /\ running \subseteq Paths
  /\ initing \subseteq running
  /\ early \subseteq Paths

\* The comment of canonicalRepoKey(): "aliases of the same repository share one
\* queue", so that two writes to aliases of one repository never run at once.
AliasesShareOneQueue == \A p, q \in running \ initing : p # q => dirOf[p] # dirOf[q]

\* What holds of it: two writes run in one repository at once, through a symlink,
\* a second spelling or a linked worktree, only if one of their two paths was
\* used before it led to a repository, whatever becomes of the disk meanwhile.
RepositoryWritesExclusive ==
  \A p, q \in running :
    p # q /\ (dirOf[p] = dirOf[q] \/ (common[dirOf[p]] # None /\ common[dirOf[p]] = common[dirOf[q]]))
      => {p, q} \cap early # {}

\* A repository whose queue has a job is reported busy under every path that
\* leads to it, one that was never scheduled under included, with the same
\* exception; clean-up relies on this before it deletes caches and private refs.
BusyIsSeen ==
  \A p \in running, q \in Paths :
    common[dirOf[q]] # None /\ common[dirOf[p]] = common[dirOf[q]] =>
      RepositoryBusy(q) \/ (p # q /\ {p, q} \cap early # {})
=============================================================================
