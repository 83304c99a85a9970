----------------------------- MODULE Selection -----------------------------
(***************************************************************************)
(* What a run looks at: its checkers (groups.go, registry.go) and its      *)
(* files (main.go, exclude.go). A file is the list of the directories it   *)
(* lies in, below the root, and its base name.                             *)
(***************************************************************************)
EXTENDS Sequences, FiniteSets

CONSTANTS
  GoNames,  \* base names that end in .go
  Hidden    \* directory names that begin with a dot

AllCheckers ==
  {"MemPrealloc", "ObjectPool", "StructAlign", "InterfaceBoxing", "ZeroCopy",
   "GoroutinePool", "ContextMisuse", "BufferedIO", "AtomicMutex", "LazyInit",
   "StackAlloc", "Batching", "TimeNowLoop", "WaitGroupMisuse", "DeferInLoop",
   "StringConcatLoop", "RegexpCompile", "HTTPClientReuse", "SyncMapMisuse"}

Groups ==
  [memory |-> {"MemPrealloc", "ObjectPool", "StructAlign", "InterfaceBoxing",
               "LazyInit", "StackAlloc", "StringConcatLoop", "RegexpCompile"},
   concurrency |-> {"GoroutinePool", "ContextMisuse", "AtomicMutex", "TimeNowLoop",
                    "WaitGroupMisuse", "DeferInLoop", "SyncMapMisuse"},
   io |-> {"ZeroCopy", "BufferedIO", "Batching", "HTTPClientReuse"}]

\* A checker belongs to one group: the three groups together are a whole run.
ASSUME GroupsAssumption ==
  /\ UNION {Groups[g] : g \in DOMAIN Groups} = AllCheckers
  /\ \A g, h \in DOMAIN Groups : Groups[g] \cap Groups[h] # {} => g = h

CheckersForGroup(group, all) == all \cap Groups[group]

\* The checkers that -checker and -group leave, none for an unknown name.
SelectedCheckers(checker, group) ==
  LET named == IF checker = "" THEN AllCheckers ELSE AllCheckers \cap {checker}
  IN  CASE group = "" -> named
        [] group \in DOMAIN Groups -> CheckersForGroup(group, named)
        [] OTHER -> {}

-----------------------------------------------------------------------------
(* A pattern is the set of base names it matches; with slash it ends in /   *)
(* and is about directories.                                                *)

DirExcluded(base, patterns) == \E p \in patterns : p.slash /\ base \in p.names

FileExcluded(base, patterns) == \E p \in patterns : ~p.slash /\ base \in p.names

\* The walk does not enter the directory.
Skipped(base, patterns, skipVendor) ==
  \/ skipVendor /\ base = "vendor"
  \/ base \in Hidden
  \/ DirExcluded(base, patterns)

Checked(file, patterns) == file.base \in GoNames /\ ~FileExcluded(file.base, patterns)

\* Files of a directory scan.
Walked(file, patterns, skipVendor) ==
  /\ Checked(file, patterns)
  /\ \A k \in DOMAIN file.dirs : ~Skipped(file.dirs[k], patterns, skipVendor)

=============================================================================
