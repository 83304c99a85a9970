-------------------------- MODULE CacheStoreProofs -------------------------
(***************************************************************************)
(* One entry of the cache under any number of workers and faults: types,   *)
(* and, for files of one path, the answers of scans and the state of the   *)
(* entry between them. Two paths of one content share an entry and may     *)
(* give each other's answers (CacheSession), hence OnePath.                *)
(***************************************************************************)
EXTENDS CacheStore, SequenceTheorems, TLAPS

OnePath == \A p, q \in Paths : p = q

Block == Paths \X Nat

\* A worker that has computed or read issues holds those of a path.
ResultInv ==
  \A w \in Workers : pc[w] \in {"write", "rename", "done"} => result[w] \in Paths

\* An inode with a name holds nothing or a whole text, and one with nothing is
\* being written.
WholeInv ==
  /\ \A i \in Inodes : disk[i] # <<>> => Parses(disk[i])
  /\ \A i \in Inodes \cap {tmp, entry} :
       disk[i] = <<>> => \E w \in Workers : pc[w] = "write" /\ fd[w] = i
  /\ \A w \in Workers : pc[w] \in {"write", "rename"} => tmp # None \/ entry # None
  /\ \A w \in Workers : pc[w] \in {"reading", "done"} => entry # None

IInv == TypeOK /\ ResultInv

-----------------------------------------------------------------------------

\* The text of a path's issues is a sequence that begins with the path.
LEMMA DataType ==
  ASSUME NEW p \in Paths
  PROVE  /\ Data(p) \in Seq(Block) /\ Len(Data(p)) = Size[p]
         /\ Data(p)[1] = <<p, 1>> /\ Data(p) # <<>>
<1>1. Size[p] \in Nat /\ Size[p] >= 1
  BY StoreAssumption
<1>2. Data(p) = [i \in 1..Size[p] |-> <<p, i>>]
  BY DEF Data
<1>3. \A i \in 1..Size[p] : <<p, i>> \in Block
  BY <1>1 DEF Block
<1>4. Data(p) \in Seq(Block)
  BY <1>1, <1>2, <1>3
<1>5. Len(Data(p)) = Size[p]
  BY <1>1, <1>2, <1>4
<1> QED
  BY <1>1, <1>2, <1>4, <1>5

\* A write gives a sequence of blocks again.
LEMMA OverwriteType ==
  ASSUME NEW old \in Seq(Block), NEW text \in Seq(Block)
  PROVE  Overwrite(old, text) \in Seq(Block)
<1> DEFINE n == IF Len(old) > Len(text) THEN Len(old) ELSE Len(text)
<1>1. n \in Nat
  OBVIOUS
<1>2. \A i \in 1..n : (IF i <= Len(text) THEN text[i] ELSE old[i]) \in Block
  OBVIOUS
<1> QED
  BY <1>1, <1>2 DEF Overwrite

\* A whole text written over nothing or over itself is that text.
LEMMA OverwriteWhole ==
  ASSUME NEW text \in Seq(Block), NEW old, old = <<>> \/ old = text
  PROVE  Overwrite(old, text) = text
<1>1. text = [i \in 1..Len(text) |-> text[i]]
  OBVIOUS
<1> QED
  BY <1>1 DEF Overwrite

\* The beginning of a sequence.
LEMMA PrefixType ==
  ASSUME NEW s \in Seq(Block), NEW k \in 0..Len(s)
  PROVE  Prefix(s, k) \in Seq(Block)
BY DEF Prefix

-----------------------------------------------------------------------------

\* Every step of a worker that keeps the file system keeps the types of it.
LEMMA StepInv == IInv /\ [Next]_vars => IInv'
<1> SUFFICES ASSUME IInv, [Next]_vars PROVE IInv'
  OBVIOUS
<1> USE DEF Block
<1> USE StoreAssumption DEF IInv, TypeOK, ResultInv, Goto, Open, Yield
<1>1. ASSUME NEW w \in Workers, Lookup(w) PROVE IInv'
  <2>1. UNCHANGED <<disk, tmp, entry, got, result, faults>> /\ entry \in Inodes \cup {None}
    BY <1>1 DEF Lookup
  <2>2. CASE entry = None
    <3>1. pc' = [pc EXCEPT ![w] = "miss"] /\ fd' = fd /\ pc[w] = "idle"
      BY <1>1, <2>2 DEF Lookup
    <3> QED
      BY <2>1, <3>1
  <2>3. CASE entry # None
    <3>1. pc' = [pc EXCEPT ![w] = "reading"] /\ fd' = [fd EXCEPT ![w] = entry]
      BY <1>1, <2>3 DEF Lookup
    <3> QED
      BY <2>1, <2>3, <3>1
  <2> QED
    BY <2>2, <2>3
<1>2. ASSUME NEW w \in Workers, ReadSome(w) PROVE IInv'
  <2>1. fd[w] \in Inodes
    BY <1>2 DEF ReadSome
  <2>2. PICK k \in Len(got[w]) + 1 .. Len(disk[fd[w]]) :
          got' = [got EXCEPT ![w] = @ \o SubSeq(disk[fd[w]], Len(@) + 1, k)]
    BY <1>2 DEF ReadSome
  <2>3. got[w] \in Seq(Block) /\ disk[fd[w]] \in Seq(Block)
    BY <2>1
  <2>4. SubSeq(disk[fd[w]], Len(got[w]) + 1, k) \in Seq(Block)
    BY <2>2, <2>3
  <2> DEFINE more == got[w] \o SubSeq(disk[fd[w]], Len(got[w]) + 1, k)
  <2>5. more \in Seq(Block)
    BY <2>3, <2>4
  <2>6. got' = [got EXCEPT ![w] = more]
    BY <2>2
  <2> HIDE DEF more
  <2>7. got' \in [Workers -> Seq(Block)]
    BY <2>5, <2>6
  <2> QED
    BY <1>2, <2>7 DEF ReadSome
<1>3. ASSUME NEW w \in Workers, ReadEnd(w) PROVE IInv'
  <2>1. got' \in [Workers -> Seq(Block)]
    BY <1>3 DEF ReadEnd
  <2>2. CASE Parses(got[w])
    <3>1. PICK p \in Paths : got[w] = Data(p)
      BY <2>2 DEF Parses
    <3>2. got[w][1][1] \in Paths
      <4>1. Data(p)[1] = <<p, 1>>
        BY DataType
      <4>2. got[w][1] = <<p, 1>>
        BY <3>1, <4>1
      <4> QED
        BY <4>2
    <3>3. /\ pc' = [pc EXCEPT ![w] = "done"] /\ fd' = [fd EXCEPT ![w] = None]
          /\ result' = [result EXCEPT ![w] = got[w][1][1]]
          /\ UNCHANGED <<disk, tmp, entry, faults>>
      BY <1>3, <2>2 DEF ReadEnd
    <3> QED
      BY <2>1, <3>2, <3>3
  <2>3. CASE ~Parses(got[w])
    <3>1. /\ pc' = [pc EXCEPT ![w] = "miss"] /\ fd' = [fd EXCEPT ![w] = None]
          /\ UNCHANGED <<disk, tmp, entry, result, faults>>
      BY <1>3, <2>3 DEF ReadEnd
    <3> QED
      BY <2>1, <3>1
  <2> QED
    BY <2>2, <2>3
<1>4. ASSUME NEW w \in Workers, CreateTmp(w) PROVE IInv'
  <2>1. PICK j \in Inodes : /\ tmp' = j /\ fd' = [fd EXCEPT ![w] = j]
                         /\ disk' = [disk EXCEPT ![j] = <<>>]
    BY <1>4 DEF CreateTmp
  <2>2. PathOf[w] \in Paths /\ j # None
    OBVIOUS
  <2>3. disk' \in [Inodes -> Seq(Block)]
    BY <2>1
  <2> QED
    BY <1>4, <2>1, <2>2, <2>3 DEF CreateTmp
<1>5. ASSUME NEW w \in Workers, WriteData(w) PROVE IInv'
  <2>1. fd[w] \in Inodes /\ PathOf[w] \in Paths
    BY <1>5 DEF WriteData
  <2>2. Overwrite(disk[fd[w]], Data(PathOf[w])) \in Seq(Block)
    BY <2>1, DataType, OverwriteType
  <2>3. disk' \in [Inodes -> Seq(Block)]
    BY <1>5, <2>1, <2>2 DEF WriteData
  <2> QED
    BY <1>5, <2>3 DEF WriteData
<1>6. ASSUME NEW w \in Workers, Rename(w) PROVE IInv'
  BY <1>6 DEF Rename
<1>7. ASSUME NEW w \in Workers, ScanAgain(w) PROVE IInv'
  BY <1>7 DEF ScanAgain
<1>8. ASSUME NEW w \in Workers, CreateFails(w) PROVE IInv'
  BY <1>8 DEF CreateFails, Fault
<1>9. ASSUME NEW w \in Workers, WriteFails(w) PROVE IInv'
  <2>1. fd[w] \in Inodes /\ PathOf[w] \in Paths
    BY <1>9 DEF WriteFails
  <2>2. PICK k \in 0..Size[PathOf[w]] - 1 :
          disk' = [disk EXCEPT ![fd[w]] = Overwrite(@, Prefix(Data(PathOf[w]), k))]
    BY <1>9 DEF WriteFails
  <2>3. k \in 0..Len(Data(PathOf[w]))
    BY <2>1, <2>2, DataType
  <2>4. Overwrite(disk[fd[w]], Prefix(Data(PathOf[w]), k)) \in Seq(Block)
    BY <2>1, <2>3, DataType, PrefixType, OverwriteType
  <2>5. disk' \in [Inodes -> Seq(Block)]
    BY <2>1, <2>2, <2>4
  <2> QED
    BY <1>9, <2>5 DEF WriteFails, Fault
<1>10. ASSUME NEW w \in Workers, RenameFails(w) PROVE IInv'
  BY <1>10 DEF RenameFails, Fault
<1>11. ASSUME NEW w \in Workers, Killed(w) PROVE IInv'
  BY <1>11 DEF Killed, Fault
<1>12. CASE PowerLoss
  <2>1. PICK i \in Inodes : \E k \in 0..Len(disk[i]) :
          disk' = [disk EXCEPT ![i] = Prefix(@, k)]
    BY <1>12 DEF PowerLoss
  <2>2. PICK k \in 0..Len(disk[i]) : disk' = [disk EXCEPT ![i] = Prefix(@, k)]
    BY <2>1
  <2>3. Prefix(disk[i], k) \in Seq(Block)
    BY <2>2, PrefixType
  <2>4. disk' \in [Inodes -> Seq(Block)]
    BY <2>2, <2>3
  <2> QED
    BY <1>12, <2>4 DEF PowerLoss, Fault
<1>13. CASE UNCHANGED vars
  BY <1>13 DEF vars
<1> QED
  BY <1>1, <1>2, <1>3, <1>4, <1>5, <1>6, <1>7, <1>8, <1>9, <1>10, <1>11, <1>12, <1>13
     DEF Next, Step, Fails

\* The invariant holds in every reachable state, whatever fails and whoever is
\* killed (readCacheEntry, writeCacheEntry).
THEOREM Invariance == Spec => []IInv
<1>1. Init => IInv
  BY StoreAssumption DEF Init, IInv, TypeOK, ResultInv
<1> QED
  BY <1>1, StepInv, PTL DEF Spec

\* Variables keep their types: a worker has a file open exactly while it reads
\* or writes.
THEOREM TypeCorrect == Spec => []TypeOK
<1>1. IInv => TypeOK
  BY DEF IInv
<1> QED
  BY <1>1, Invariance, PTL

\* A file whose content no other has is given its own issues, for any number
\* of workers, processes and faults.
THEOREM OwnIssues ==
  ASSUME OnePath
  PROVE  Spec => []ReturnsOwnIssues
<1>1. IInv => ReturnsOwnIssues
  BY OnePath, StoreAssumption DEF OnePath, IInv, ResultInv, ReturnsOwnIssues
<1> QED
  BY <1>1, Invariance, PTL

-----------------------------------------------------------------------------

\* A worker that neither writes nor is about to rename, before and after its
\* step, and leaves the files alone.
LEMMA OthersKeep ==
  ASSUME WholeInv, NEW w \in Workers, UNCHANGED <<disk, tmp, entry>>,
         pc[w] \notin {"write", "rename"}, pc'[w] \notin {"write", "rename"},
         pc'[w] \in {"reading", "done"} => entry # None,
         \A v \in Workers : v # w => pc'[v] = pc[v] /\ fd'[v] = fd[v]
  PROVE  WholeInv'
<1>1. \A i \in Inodes : disk'[i] # <<>> => Parses(disk'[i])
  BY DEF WholeInv
<1>2. ASSUME NEW i \in Inodes \cap {tmp', entry'}, disk'[i] = <<>>
      PROVE  \E v \in Workers : pc'[v] = "write" /\ fd'[v] = i
  <2>1. PICK v \in Workers : pc[v] = "write" /\ fd[v] = i
    BY <1>2 DEF WholeInv
  <2> QED
    BY <2>1
<1>3. \A v \in Workers : pc'[v] \in {"write", "rename"} => tmp' # None \/ entry' # None
  BY DEF WholeInv
<1>4. \A v \in Workers : pc'[v] \in {"reading", "done"} => entry' # None
  BY DEF WholeInv
<1> QED
  BY <1>1, <1>2, <1>3, <1>4 DEF WholeInv, Parses

\* As long as nothing fails, every step keeps the named inodes whole.
LEMMA WholeStep ==
  ASSUME OnePath, IInv, faults' = faults, faults \in Nat, WholeInv, [Next]_vars
  PROVE  WholeInv'
<1> USE StoreAssumption DEF IInv, TypeOK
<1>1. ASSUME NEW w \in Workers, Lookup(w) PROVE WholeInv'
  <2>1. pc[w] = "idle" /\ UNCHANGED <<disk, tmp, entry>>
    BY <1>1 DEF Lookup
  <2>2. \A v \in Workers : v # w => pc'[v] = pc[v] /\ fd'[v] = fd[v]
    BY <1>1 DEF Lookup, Goto, Open
  <2>3. pc'[w] \in {"miss", "reading"} /\ (pc'[w] = "reading" => entry # None)
    BY <1>1 DEF Lookup, Goto
  <2> QED
    BY <2>1, <2>2, <2>3, OthersKeep
<1>2. ASSUME NEW w \in Workers, ReadSome(w) PROVE WholeInv'
  BY <1>2 DEF ReadSome, WholeInv
<1>3. ASSUME NEW w \in Workers, ReadEnd(w) PROVE WholeInv'
  <2>1. pc[w] = "reading" /\ UNCHANGED <<disk, tmp, entry>>
    BY <1>3 DEF ReadEnd
  <2>2. \A v \in Workers : v # w => pc'[v] = pc[v] /\ fd'[v] = fd[v]
    BY <1>3 DEF ReadEnd, Goto, Open
  <2>3. pc'[w] = "miss" \/ pc'[w] = "done"
    BY <1>3 DEF ReadEnd, Goto
  <2>4. entry # None
    BY <2>1 DEF WholeInv
  <2> QED
    BY <2>1, <2>2, <2>3, <2>4, OthersKeep
<1>4. ASSUME NEW w \in Workers, CreateTmp(w) PROVE WholeInv'
  <2>1. pc[w] = "miss" /\ entry' = entry /\ pc' = [pc EXCEPT ![w] = "write"]
    BY <1>4 DEF CreateTmp, Goto
  <2>2. PICK j \in Inodes : /\ tmp' = j /\ fd' = [fd EXCEPT ![w] = j]
                           /\ disk' = [disk EXCEPT ![j] = <<>>]
    BY <1>4 DEF CreateTmp, Open
  <2>3. \A v \in Workers : v # w => pc'[v] = pc[v] /\ fd'[v] = fd[v]
    BY <2>1, <2>2
  <2>4. pc'[w] = "write" /\ fd'[w] = j
    BY <2>1, <2>2
  <2>5. \A i \in Inodes : disk'[i] = IF i = j THEN <<>> ELSE disk[i]
    BY <2>2
  <2>6. \A i \in Inodes : disk'[i] # <<>> => Parses(disk'[i])
    BY <2>5 DEF WholeInv
  <2>7. ASSUME NEW i \in Inodes \cap {tmp', entry'}, disk'[i] = <<>>
        PROVE  \E v \in Workers : pc'[v] = "write" /\ fd'[v] = i
    <3>1. CASE i = j
      BY <2>4, <3>1
    <3>2. CASE i # j
      <4>1. i = entry /\ disk[i] = <<>>
        BY <2>1, <2>2, <2>5, <2>7, <3>2
      <4>2. PICK v \in Workers : pc[v] = "write" /\ fd[v] = i
        BY <4>1 DEF WholeInv
      <4> QED
        BY <2>1, <2>3, <4>2
    <3> QED
      BY <3>1, <3>2
  <2>8. \A v \in Workers : pc'[v] \in {"reading", "done"} => entry' # None
    BY <2>1, <2>3, <2>4 DEF WholeInv
  <2>9. tmp' # None
    BY <2>2
  <2> QED
    BY <2>6, <2>7, <2>8, <2>9 DEF WholeInv, Parses
<1>5. ASSUME NEW w \in Workers, WriteData(w) PROVE WholeInv'
  <2> DEFINE text == Data(PathOf[w])
  <2>1. /\ pc[w] = "write" /\ UNCHANGED <<tmp, entry>>
        /\ disk' = [disk EXCEPT ![fd[w]] = Overwrite(@, text)]
        /\ pc' = [pc EXCEPT ![w] = "rename"] /\ fd' = [fd EXCEPT ![w] = None]
    BY <1>5 DEF WriteData, Goto, Open
  <2>2. fd[w] \in Inodes /\ PathOf[w] \in Paths
    BY <2>1
  <2>3. text \in Seq(Block) /\ text # <<>>
    BY <2>2, DataType
  <2>4. disk[fd[w]] = <<>> \/ disk[fd[w]] = text
    BY <2>2, OnePath DEF WholeInv, Parses, OnePath
  <2> HIDE DEF text
  <2>5. Overwrite(disk[fd[w]], text) = text
    BY <2>3, <2>4, OverwriteWhole
  <2>6. \A i \in Inodes : disk'[i] = IF i = fd[w] THEN text ELSE disk[i]
    BY <2>1, <2>2, <2>5
  <2>7. Parses(text)
    BY <2>2 DEF Parses, text
  <2>8. \A v \in Workers : v # w => pc'[v] = pc[v] /\ fd'[v] = fd[v]
    BY <2>1
  <2>9. \A i \in Inodes : disk'[i] # <<>> => Parses(disk'[i])
    BY <2>6, <2>7 DEF WholeInv
  <2>10. ASSUME NEW i \in Inodes \cap {tmp', entry'}, disk'[i] = <<>>
         PROVE  \E v \in Workers : pc'[v] = "write" /\ fd'[v] = i
    <3>1. i # fd[w] /\ disk[i] = <<>>
      BY <2>3, <2>6, <2>10
    <3>2. PICK v \in Workers : pc[v] = "write" /\ fd[v] = i
      BY <2>1, <2>10, <3>1 DEF WholeInv
    <3> QED
      BY <2>8, <3>1, <3>2
  <2>11. pc'[w] = "rename"
    BY <2>1
  <2>12. \A v \in Workers : pc'[v] \in {"write", "rename"} => tmp' # None \/ entry' # None
    BY <2>1, <2>8 DEF WholeInv
  <2>13. \A v \in Workers : pc'[v] \in {"reading", "done"} => entry' # None
    BY <2>1, <2>8, <2>11 DEF WholeInv
  <2> QED
    BY <2>9, <2>10, <2>12, <2>13 DEF WholeInv, Parses
<1>6. ASSUME NEW w \in Workers, Rename(w) PROVE WholeInv'
  BY <1>6 DEF Rename, WholeInv, Goto
<1>7. ASSUME NEW w \in Workers, ScanAgain(w) PROVE WholeInv'
  BY <1>7 DEF ScanAgain, WholeInv, Goto
<1>8. ~Fault
  BY DEF Fault
<1>9. CASE UNCHANGED vars
  BY <1>9 DEF vars, WholeInv
<1>10. ~PowerLoss /\ \A w \in Workers : ~Fails(w)
  BY <1>8 DEF PowerLoss, Fails, CreateFails, WriteFails, RenameFails, Killed
<1> QED
  BY <1>1, <1>2, <1>3, <1>4, <1>5, <1>6, <1>7, <1>9, <1>10 DEF Next, Step

\* A step that is no fault leaves the number of faults alone.
LEMMA FaultsCounted ==
  ASSUME [Next]_vars, faults \in Nat
  PROVE  faults' = faults \/ faults' = faults + 1
BY DEF Next, vars, Step, Fails, Lookup, ReadSome, ReadEnd, CreateTmp, WriteData, Rename,
       ScanAgain, CreateFails, WriteFails, RenameFails, Killed, PowerLoss, Fault

\* A file whose content no other has, any number of workers: when no write is
\* under way and nothing has failed, the next scan finds an entry it can use
\* (writeCacheEntry through one temporary name).
THEOREM SettledIsUsable ==
  ASSUME OnePath
  PROVE  Spec => []SettledEntryUsable
<1> DEFINE Whole == IInv /\ (faults = 0 => WholeInv)
<1>1. Init => Whole
  BY StoreAssumption DEF Init, IInv, TypeOK, ResultInv, WholeInv
<1>2. Whole /\ [Next]_vars => Whole'
  <2>1. SUFFICES ASSUME Whole, [Next]_vars, faults' = 0 PROVE WholeInv'
    BY StepInv
  <2>2. faults \in Nat
    BY <2>1, StoreAssumption DEF IInv, TypeOK
  <2>3. faults = 0
    BY <2>1, <2>2, FaultsCounted
  <2> QED
    BY <2>1, <2>2, <2>3, OnePath, WholeStep
<1>3. Whole => SettledEntryUsable
  BY DEF IInv, TypeOK, WholeInv, SettledEntryUsable, Usable
<1> QED
  BY <1>1, <1>2, <1>3, PTL DEF Spec

=============================================================================
