------------------------------- MODULE Assets -------------------------------
(***************************************************************************)
(* The asset generator (templatefile/generate_assets.go): it walks the      *)
(* source directories, adds an entry for every directory below them that    *)
(* has files, names a Go constant after each entry's path relative to the   *)
(* output directory, and writes a Go file with a constant per entry.        *)
(*                                                                          *)
(* What the constants have to tell apart is letters, digits and separators: *)
(* a name is a sequence of those and a path the sequence of its names.      *)
(* Sizes, times, contents and extensions are left out, and so is the order  *)
(* of the entries, which only numbers the embedded variables.               *)
(***************************************************************************)
EXTENDS Integers, Sequences, FiniteSets, SequencesExt

CONSTANTS
  Dirs,        \* the absolute paths of the source directories, in order
  Candidates,  \* for each of them, relative paths of files it may hold
  outputDir,   \* absolute path of the directory of the generated file
  outputFile,  \* the name of that file
  Letters,     \* unicode.IsLetter
  Upper        \* unicode.ToUpper, on Letters

Separators == {"/", "\\", "_", "-", ".", "*", " "}

VARIABLES
  phase,          \* "walk", "wild", "generate", "exit" or "written"
  at,             \* the source directory the loop of the phase is at
  tree,           \* the files below each source directory
  allFiles,       \* entries: source directory, relative path, IsDirWild
  dirsWithFiles,  \* relative directory -> source directory
  infos           \* the generated file: EmbedPath and ConstName per entry

vars == <<phase, at, tree, allFiles, dirsWithFiles, infos>>

Init ==
  /\ phase = "walk" /\ at = 1
  /\ tree \in {t \in [DOMAIN Dirs -> SUBSET UNION {Candidates[d] : d \in DOMAIN Dirs}] :
                 \A d \in DOMAIN Dirs : t[d] \subseteq Candidates[d]}
  /\ allFiles = {} /\ dirsWithFiles = << >> /\ infos = {}

\* The loops over the source directories, and what follows the last round.
nextDir(p, after) ==
  IF at < Len(Dirs)
  THEN phase' = p /\ at' = at + 1
  ELSE phase' = after /\ at' = 1

entry(rel, wild) == [dir |-> at, rel |-> rel, wild |-> wild]

\* filepath.WalkDir; the generated file and names starting with "~" are skipped.
\* A directory that several source directories have is kept for the last one.
Walk ==
  LET found == {rel \in tree[at] : Last(rel) # outputFile /\ Head(Last(rel)) # "~"}
      below == {Front(rel) : rel \in {f \in found : Len(f) > 1}}
  IN
  /\ phase = "walk"
  /\ allFiles' = allFiles \cup {entry(rel, FALSE) : rel \in found}
  /\ dirsWithFiles' = [d \in DOMAIN dirsWithFiles \cup below |->
                         IF d \in below THEN at ELSE dirsWithFiles[d]]
  /\ nextDir("walk", "wild")
  /\ UNCHANGED <<tree, infos>>

\* A wildcard entry for each directory; without any file the program exits.
Wild ==
  /\ phase = "wild"
  /\ allFiles' = allFiles \cup
       {entry(d, TRUE) : d \in {r \in DOMAIN dirsWithFiles : dirsWithFiles[r] = at}}
  /\ nextDir("wild", IF allFiles' = {} THEN "exit" ELSE "generate")
  /\ UNCHANGED <<tree, dirsWithFiles, infos>>

\* filepath.Rel on clean absolute paths.
Rel(base, target) ==
  LET common == Len(LongestCommonPrefix({base, target}))
      up == [i \in 1..(Len(base) - common) |-> <<".", ".">>]
      rel == up \o SubSeq(target, common + 1, Len(target))
  IN IF rel = << >> THEN << <<".">> >> ELSE rel

\* The string of a path.
render(path) == FoldLeft(LAMBDA s, name : s \o <<"/">> \o name, Head(path), Tail(path))

embedPath(e) ==
  LET path == render(Rel(outputDir, Dirs[e.dir] \o e.rel))
  IN IF e.wild THEN path \o <<"/", "*">> ELSE path

upper(c) == IF c \in Letters THEN Upper[c] ELSE c

\* Separators split the path into words, whose first letters are capitalised;
\* "File" is put before a name that does not begin with a letter.
embedPathToConst(path) ==
  LET words == [i \in DOMAIN path |->
                  IF i = 1 \/ path[i - 1] \in Separators THEN upper(path[i]) ELSE path[i]]
      name == SelectSeq(words, LAMBDA c : c \notin Separators)
  IN IF name # << >> /\ Head(name) \in Letters THEN name ELSE <<"File">> \o name

\* The entries are given their paths and constants, and the file is written.
Generate ==
  /\ phase = "generate"
  /\ infos' = {[EmbedPath |-> embedPath(e), ConstName |-> embedPathToConst(embedPath(e))] :
                 e \in allFiles}
  /\ phase' = "written"
  /\ UNCHANGED <<at, tree, allFiles, dirsWithFiles>>

\* An error of the file system ends the program.
Exit ==
  /\ phase \in {"walk", "generate"}
  /\ phase' = "exit"
  /\ UNCHANGED <<at, tree, allFiles, dirsWithFiles, infos>>

Next == Walk \/ Wild \/ Generate \/ Exit

Spec == Init /\ [][Next]_vars

-----------------------------------------------------------------------------
\* "The full path is used to guarantee uniqueness across all files": in the
\* generated file, entries with different paths have different constants
\* (embedPathToConst).
UniqueConst ==
  phase = "written" =>
    \A f, g \in infos : f.ConstName = g.ConstName => f.EmbedPath = g.EmbedPath
=============================================================================
