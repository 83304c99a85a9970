----------------------------- MODULE CacheStore ----------------------------
(***************************************************************************)
(* One entry of the result cache, read and written by the workers of       *)
(* several scans at once: readCacheEntry and writeCacheEntry of            *)
(* cmd/goperfcheck/cache.go, in the order checkFileConcurrent (scanner.go) *)
(* calls them, on the file system they call (external).                    *)
(*                                                                         *)
(* An entry is named by the hash of a file's content and the configuration *)
(* (a collision of hashes is left out), so every worker here looks at a    *)
(* file with the same content: the same file scanned by several processes, *)
(* or identical files of one tree. Each worker computes the issues of ITS  *)
(* path. All of them write through the same temporary file, name.tmp.      *)
(*                                                                         *)
(* The file system keeps inodes: a descriptor follows its inode through a  *)
(* rename, O_TRUNC empties the inode the name has at that moment, and a    *)
(* write starts at offset 0 of the writer's own descriptor. The JSON text  *)
(* of the issues of path p is a sequence of Size[p] blocks.                *)
(***************************************************************************)
EXTENDS Integers, Sequences, FiniteSets

CONSTANTS
  Workers,     \* the workers that look at this content
  Paths,       \* the paths that have it
  PathOf,      \* the path each worker is given
  Size,        \* how many blocks the JSON text of a path's issues has
  Inodes,      \* inode numbers
  None,        \* no inode, no result
  MaxFaults    \* bound: failed calls, killed processes and power losses

ASSUME StoreAssumption ==
  /\ PathOf \in [Workers -> Paths]
  /\ Size \in [Paths -> Nat \ {0}]
  /\ None \notin Inodes \cup Paths
  /\ MaxFaults \in Nat

VARIABLES
  disk,     \* the content of each inode, as blocks <<path, index>>
  tmp,      \* the inode named name.tmp
  entry,    \* the inode named name
  pc,       \* where each worker is
  fd,       \* the inode each worker has open
  got,      \* what a worker has read so far
  result,   \* whose issues checkFileConcurrent returned (None: none at all)
  faults    \* how many faults there have been

vars == <<disk, tmp, entry, pc, fd, got, result, faults>>

Data(p) == [i \in 1..Size[p] |-> <<p, i>>]
Prefix(s, k) == SubSeq(s, 1, k)

\* What json.Unmarshal accepts: a whole JSON text. A cut one, or one followed
\* by the rest of a longer one, is a syntax error.
Parses(s) == \E p \in Paths : s = Data(p)
Usable(i) == i # None /\ Parses(disk[i])

\* Writing text at offset 0: what lies beyond its end stays.
Overwrite(old, text) ==
  [i \in 1..(IF Len(old) > Len(text) THEN Len(old) ELSE Len(text)) |->
     IF i <= Len(text) THEN text[i] ELSE old[i]]

InUse == {tmp, entry} \cup {fd[w] : w \in Workers}

Init ==
  /\ disk = [i \in Inodes |-> <<>>]
  /\ tmp = None
  /\ entry = None
  /\ pc = [w \in Workers |-> "idle"]
  /\ fd = [w \in Workers |-> None]
  /\ got = [w \in Workers |-> <<>>]
  /\ result = [w \in Workers |-> None]
  /\ faults = 0

Goto(w, label) == pc' = [pc EXCEPT ![w] = label]
Open(w, i) == fd' = [fd EXCEPT ![w] = i]
Yield(w, r) == result' = [result EXCEPT ![w] = r]
Fault == faults < MaxFaults /\ faults' = faults + 1

-----------------------------------------------------------------------------
(* readCacheEntry *)

\* os.ReadFile opens the entry; without one it is a miss.
Lookup(w) ==
  /\ pc[w] = "idle"
  /\ IF entry = None THEN Goto(w, "miss") /\ UNCHANGED fd
                     ELSE Goto(w, "reading") /\ Open(w, entry)
  /\ UNCHANGED <<disk, tmp, entry, got, result, faults>>

\* One read of the loop in os.ReadFile: up to what the inode holds now.
ReadSome(w) ==
  /\ pc[w] = "reading"
  /\ \E k \in Len(got[w]) + 1 .. Len(disk[fd[w]]) :
       got' = [got EXCEPT ![w] = @ \o SubSeq(disk[fd[w]], Len(@) + 1, k)]
  /\ UNCHANGED <<disk, tmp, entry, pc, fd, result, faults>>

\* Mutant of ReadEnd: the error of json.Unmarshal is not looked at.
ReadEndUnchecked(w) ==
  /\ pc[w] = "reading"
  /\ Len(got[w]) >= Len(disk[fd[w]])
  /\ Goto(w, "done")
  /\ Yield(w, IF Parses(got[w]) THEN got[w][1][1] ELSE None)
  /\ Open(w, None)
  /\ got' = [got EXCEPT ![w] = <<>>]
  /\ UNCHANGED <<disk, tmp, entry, faults>>

\* Mutant of ReadEnd: the file is not closed on a miss.
ReadEndUnclosed(w) ==
  /\ pc[w] = "reading"
  /\ Len(got[w]) >= Len(disk[fd[w]])
  /\ IF Parses(got[w])
     THEN Goto(w, "done") /\ Yield(w, got[w][1][1]) /\ Open(w, None)
     ELSE Goto(w, "miss") /\ UNCHANGED <<result, fd>>
  /\ got' = [got EXCEPT ![w] = <<>>]
  /\ UNCHANGED <<disk, tmp, entry, faults>>

\* End of file: a hit if the text parses, a miss if it does not.
ReadEnd(w) ==
  /\ pc[w] = "reading"
  /\ Len(got[w]) >= Len(disk[fd[w]])
  /\ IF Parses(got[w])
     THEN Goto(w, "done") /\ Yield(w, got[w][1][1])
     ELSE Goto(w, "miss") /\ UNCHANGED result
  /\ Open(w, None)
  /\ got' = [got EXCEPT ![w] = <<>>]
  /\ UNCHANGED <<disk, tmp, entry, faults>>

-----------------------------------------------------------------------------
(* checkFileConcurrent after a miss, and writeCacheEntry *)

\* The file is parsed and checked; MkdirAll; os.WriteFile opens name.tmp with
\* O_CREATE|O_TRUNC.
CreateTmp(w) ==
  /\ pc[w] = "miss"
  /\ Yield(w, PathOf[w])
  /\ Goto(w, "write")
  /\ \E i \in Inodes :
       /\ IF tmp = None THEN i \notin InUse ELSE i = tmp
       /\ tmp' = i
       /\ Open(w, i)
       /\ disk' = [disk EXCEPT ![i] = <<>>]
  /\ UNCHANGED <<entry, got, faults>>

\* Mutant of WriteData: the file is opened with O_APPEND.
AppendData(w) ==
  /\ pc[w] = "write"
  /\ disk' = [disk EXCEPT ![fd[w]] = @ \o Data(PathOf[w])]
  /\ Goto(w, "rename")
  /\ Open(w, None)
  /\ UNCHANGED <<tmp, entry, got, result, faults>>

\* os.WriteFile writes the text and closes the file.
WriteData(w) ==
  /\ pc[w] = "write"
  /\ disk' = [disk EXCEPT ![fd[w]] = Overwrite(@, Data(PathOf[w]))]
  /\ Goto(w, "rename")
  /\ Open(w, None)
  /\ UNCHANGED <<tmp, entry, got, result, faults>>

\* Mutant of Rename: an entry that is already there is kept.
RenameIfAbsent(w) ==
  /\ pc[w] = "rename"
  /\ IF tmp = None \/ entry # None THEN UNCHANGED <<tmp, entry>>
                                   ELSE entry' = tmp /\ tmp' = None
  /\ Goto(w, "done")
  /\ UNCHANGED <<disk, fd, got, result, faults>>

\* os.Rename installs whatever inode name.tmp is now; it fails, and the failure
\* is ignored, when another worker has renamed it already.
Rename(w) ==
  /\ pc[w] = "rename"
  /\ IF tmp = None THEN UNCHANGED <<tmp, entry>>
                   ELSE entry' = tmp /\ tmp' = None
  /\ Goto(w, "done")
  /\ UNCHANGED <<disk, fd, got, result, faults>>

\* The next scan gives the worker the same file again.
ScanAgain(w) ==
  /\ pc[w] = "done"
  /\ Goto(w, "idle")
  /\ Yield(w, None)
  /\ UNCHANGED <<disk, tmp, entry, fd, got, faults>>

-----------------------------------------------------------------------------
(* Faults *)

\* MkdirAll or the open fails: the issues are returned all the same.
CreateFails(w) ==
  /\ pc[w] = "miss"
  /\ Fault
  /\ Yield(w, PathOf[w])
  /\ Goto(w, "done")
  /\ UNCHANGED <<disk, tmp, entry, fd, got>>

\* The write stops part way (a full disk, a quota); name.tmp stays behind.
WriteFails(w) ==
  /\ pc[w] = "write"
  /\ Fault
  /\ \E k \in 0..Size[PathOf[w]] - 1 :
       disk' = [disk EXCEPT ![fd[w]] = Overwrite(@, Prefix(Data(PathOf[w]), k))]
  /\ Goto(w, "done")
  /\ Open(w, None)
  /\ UNCHANGED <<tmp, entry, got, result>>

RenameFails(w) ==
  /\ pc[w] = "rename"
  /\ Fault
  /\ Goto(w, "done")
  /\ UNCHANGED <<disk, tmp, entry, fd, got, result>>

\* The process of the worker is killed and started again later.
Killed(w) ==
  /\ pc[w] # "idle"
  /\ Fault
  /\ Goto(w, "idle")
  /\ Open(w, None)
  /\ Yield(w, None)
  /\ got' = [got EXCEPT ![w] = <<>>]
  /\ UNCHANGED <<disk, tmp, entry>>

\* Nothing is synced: a power loss may keep a rename and lose the end of the
\* data it installed.
PowerLoss ==
  /\ Fault
  /\ \E i \in Inodes : \E k \in 0..Len(disk[i]) :
       disk' = [disk EXCEPT ![i] = Prefix(@, k)]
  /\ pc' = [w \in Workers |-> "idle"]
  /\ fd' = [w \in Workers |-> None]
  /\ got' = [w \in Workers |-> <<>>]
  /\ result' = [w \in Workers |-> None]
  /\ UNCHANGED <<tmp, entry>>

-----------------------------------------------------------------------------

Step(w) ==
  \/ Lookup(w) \/ ReadSome(w) \/ ReadEnd(w)
  \/ CreateTmp(w) \/ WriteData(w) \/ Rename(w)

Fails(w) == CreateFails(w) \/ WriteFails(w) \/ RenameFails(w) \/ Killed(w)

Next ==
  \/ \E w \in Workers : Step(w) \/ ScanAgain(w) \/ Fails(w)
  \/ PowerLoss

Spec == Init /\ [][Next]_vars

\* A started scan is not abandoned, and some process scans again (a user or a
\* hook runs the tool on the tree from time to time).
FairSpec ==
  Spec /\ \A w \in Workers : WF_vars(Step(w)) /\ WF_vars(ScanAgain(w))

-----------------------------------------------------------------------------
(* Properties *)

TypeOK ==
  /\ disk \in [Inodes -> Seq(Paths \X Nat)]
  /\ {tmp, entry} \subseteq Inodes \cup {None}
  /\ pc \in [Workers -> {"idle", "reading", "miss", "write", "rename", "done"}]
  /\ fd \in [Workers -> Inodes \cup {None}]
  /\ \A w \in Workers : pc[w] \in {"reading", "write"} <=> fd[w] # None
  /\ got \in [Workers -> Seq(Paths \X Nat)]
  /\ result \in [Workers -> Paths \cup {None}]
  /\ faults \in 0..MaxFaults

\* What a scan returns for a file is what checking that file yields, cached or
\* not, whatever was torn, lost or half written before.
ReturnsOwnIssues ==
  \A w \in Workers : pc[w] = "done" => result[w] = PathOf[w]

\* When no worker is in the middle of a write and nothing has failed, the entry
\* that the workers left behind can be used by the next scan.
SettledEntryUsable ==
  /\ faults = 0
  /\ \E w \in Workers : pc[w] = "done"
  /\ \A w \in Workers : pc[w] \notin {"write", "rename"}
  => Usable(entry)

\* Whatever went wrong, repeated scans keep replacing a bad entry by a good one.
\* (Not <>[]: two workers that overlap in every scan can install each other's
\* unfinished file again and again.)
CacheHeals == []<>Usable(entry)

\* Once scans no longer overlap, the entry becomes good and stays so: every
\* later scan is a hit.
QuietScansSettle ==
  <>[](\A v, w \in Workers : v = w \/ pc[v] = "idle" \/ pc[w] = "idle")
    => <>[]Usable(entry)

=============================================================================
