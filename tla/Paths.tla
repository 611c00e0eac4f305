-------------------------------- MODULE Paths --------------------------------
(***************************************************************************)
(* The path strings of kernel/kernel/fs.c, as sequences of characters, and *)
(* the names the search loops take out of them.  Three searches and the    *)
(* making of files walk a path in the same way; they share the global      *)
(* path_offset.  (The other global, top_dir, is copied at once.)  Not      *)
(* kept: MAX_FILENAME_LEN.                                                 *)
(***************************************************************************)
EXTENDS Integers, SequencesExt

Name(chars) == FoldLeft(LAMBDA s, ch : s \o ch, "", chars)
From(path, i) == SubSeq(path, i, Len(path))

\* getTopDir sets path_offset behind the first `/', if there is one.
getTopDirKeeps(path, path_offset) ==
  LET slashes == {i \in 2 .. Len(path) : path[i] = "/"}
  IN  IF slashes = {} THEN path_offset ELSE Min(slashes)
getTopDir(path, path_offset) ==
  LET slashes == {i \in 1 .. Len(path) : path[i] = "/"}
  IN  IF slashes = {} THEN path_offset ELSE Min(slashes)

lastLevel(path) == \A i \in 1 .. Len(path) - 1 : path[i] # "/"

(***************************************************************************)
(* findCurrentFLPos and its likes: abspath += path_offset behind the first *)
(* getTopDir, whatever that found, then one name for each turn of          *)
(* while(!lastLevel(abspath)), and what is left.  An offset behind the end *)
(* of the string leaves it: no names.                                      *)
(***************************************************************************)
Names(path, path_offset) ==
  LET f[i \in 1 .. Len(path) + 1] ==
        LET rest == From(path, i)
            k == getTopDir(rest, 0)
        IN  IF lastLevel(rest) THEN <<Name(rest)>>
            ELSE <<Name(SubSeq(rest, 1, k))>> \o f[i + k]
      first == getTopDir(path, path_offset)
  IN  IF first > Len(path) THEN <<>> ELSE f[first + 1]

\* path_offset afterwards: the length of the last name but one, or the first skip.
OffsetAfter(path, path_offset) ==
  LET names == Names(path, path_offset)
  IN  IF Len(names) <= 1 THEN getTopDir(path, path_offset)
      ELSE Len(names[Len(names) - 1])

getLastLevelName(path) ==
  LET slashes == {i \in 1 .. Len(path) - 1 : path[i] = "/"}
  IN  Name(From(path, IF slashes = {} THEN 1 ELSE Max(slashes) + 1))

-----------------------------------------------------------------------------
\* What an absolute path means: its names are cut behind each `/' but the first.
IsAbsolute(path) == path # <<>> /\ path[1] = "/"
Components(path) ==
  LET ends == {e \in 2 .. Len(path) : path[e] = "/" \/ e = Len(path)}
      end(n) == CHOOSE e \in ends : Cardinality({d \in ends : d < e}) = n - 1
      begin(e) == CHOOSE b \in 2 .. e : /\ path[b - 1] = "/"
                                       /\ \A i \in b .. e - 1 : path[i] # "/"
  IN  IF Len(path) = 1 THEN <<Name(<< >>)>>
      ELSE [n \in 1 .. Cardinality(ends) |-> Name(SubSeq(path, begin(end(n)), end(n)))]
=============================================================================
