--------------------------- MODULE SuppressProofs --------------------------
(***************************************************************************)
(* The properties of Suppress for files of every length, every comment and *)
(* every series of removals, fixes and days. IInv relates the file to the  *)
(* one the audit saw: nothing but dead comments and fixed issues is        *)
(* missing from it, and no row came between two others.                    *)
(***************************************************************************)
EXTENDS Suppress, SequenceTheorems, TLAPS

\* A file with its rows in order.
FileOK(file) ==
  /\ file \in Seq(Row)
  /\ \A i, j \in DOMAIN file : i < j => file[i].id < file[j].id
  /\ \A i \in DOMAIN file : IsLine(file[i])

\* The rows of the audited file whose comment does nothing today.
Dead == {audited[a].id : a \in Problematic(audited, today)}

\* A row that is left of one the audit saw.
LeftOf(row, old) ==
  /\ row.id = old.id /\ row.own = old.own
  /\ row.fires \subseteq old.fires
  /\ row.comment # old.comment => row.comment = None /\ old.id \in Dead

\* Every row was there, and only dead comments of their own are not.
ThinnedInv ==
  /\ \A i \in DOMAIN rows :
       \E a \in DOMAIN audited : LeftOf(rows[i], audited[a])
  /\ \A a \in DOMAIN audited :
       \/ \E i \in DOMAIN rows : rows[i].id = audited[a].id
       \/ audited[a].own /\ audited[a].id \in Dead

\* What is listed is dead, and while nothing but removals happens, what is dead
\* is listed.
ListedInv ==
  /\ listed \subseteq Dead
  /\ \A i \in DOMAIN rows : rows[i].id \in listed => rows[i].comment # None
  /\ listed \subseteq {rows[i].id : i \in DOMAIN rows}
  /\ quiet =>
       /\ \A i \in DOMAIN rows : \A a \in DOMAIN audited :
            rows[i].id = audited[a].id => rows[i].fires = audited[a].fires
       /\ \A i \in DOMAIN rows :
            rows[i].comment # None /\ rows[i].id \in Dead => rows[i].id \in listed

IInv ==
  /\ FileOK(rows) /\ FileOK(audited)
  /\ today \in Days /\ quiet \in BOOLEAN
  /\ ThinnedInv /\ ListedInv

-----------------------------------------------------------------------------
(* Lemmas about files *)

LEMMA RemoveAtIs ==
  ASSUME NEW S, NEW s \in Seq(S), NEW i \in 1..Len(s)
  PROVE  /\ RemoveAt(s, i) \in Seq(S)
         /\ DOMAIN RemoveAt(s, i) = 1..Len(s) - 1
         /\ \A j \in 1..Len(s) - 1 :
              RemoveAt(s, i)[j] = IF j < i THEN s[j] ELSE s[j + 1]
<1> DEFINE front == SubSeq(s, 1, i - 1)
           back == SubSeq(s, i + 1, Len(s))
<1>1. Len(s) \in Nat /\ \A j \in 1..Len(s) : s[j] \in S
  BY LenProperties, ElementOfSeq
<1>2. /\ front \in Seq(S) /\ Len(front) = i - 1
      /\ \A j \in 1..i - 1 : front[j] = s[j]
  BY <1>1, SubSeqProperties
<1>3. /\ back \in Seq(S) /\ Len(back) = Len(s) - i
      /\ \A j \in 1..Len(s) - i : back[j] = s[i + j]
  <2>1. \A j \in i + 1..Len(s) : s[j] \in S
    BY <1>1
  <2>2. /\ back \in Seq(S)
        /\ Len(back) = IF i + 1 <= Len(s) THEN Len(s) - (i + 1) + 1 ELSE 0
        /\ \A j \in 1..Len(s) - (i + 1) + 1 : back[j] = s[i + 1 + j - 1]
    BY <1>1, <2>1, SubSeqProperties
  <2> QED
    BY <1>1, <2>2
<1>4. RemoveAt(s, i) = front \o back
  BY DEF RemoveAt
<1> HIDE DEF front, back
<1>5. /\ front \o back \in Seq(S)
      /\ Len(front \o back) = Len(front) + Len(back)
      /\ \A j \in 1..Len(front) + Len(back) :
           (front \o back)[j] = IF j <= Len(front) THEN front[j]
                                                   ELSE back[j - Len(front)]
  BY <1>2, <1>3, ConcatProperties
<1>6. DOMAIN RemoveAt(s, i) = 1..Len(s) - 1
  BY <1>1, <1>2, <1>3, <1>4, <1>5, LenProperties
<1> QED
  BY <1>1, <1>2, <1>3, <1>4, <1>5, <1>6

\* Rows have numbers, and no two the same id.
LEMMA FileIs ==
  ASSUME NEW file, FileOK(file)
  PROVE  /\ Len(file) \in Nat /\ DOMAIN file = 1..Len(file)
         /\ \A i \in DOMAIN file : file[i] \in Row /\ file[i].id \in 1..MaxRows
         /\ \A i, j \in DOMAIN file : file[i].id = file[j].id => i = j
         /\ \A i, j \in DOMAIN file : file[i].id < file[j].id => i < j
<1>1. /\ Len(file) \in Nat /\ DOMAIN file = 1..Len(file)
      /\ \A i \in DOMAIN file : file[i] \in Row
  BY LenProperties, ElementOfSeq DEF FileOK
<1>2. \A i \in DOMAIN file : file[i].id \in 1..MaxRows
  BY <1>1 DEF Row
<1> QED
  BY <1>1, <1>2, SuppressAssumption DEF FileOK

LEMMA HiddenIs ==
  ASSUME NEW file, NEW day, NEW issue
  PROVE  issue \in Hidden(file, day) <=>
           \E i \in DOMAIN file : \E c \in file[i].fires :
             Suppressed(file, day, i, c) /\ issue = <<file[i].id, c>>
<1> HIDE DEF Suppressed
<1> QED
  BY DEF Hidden

LEMMA IssueIs ==
  ASSUME NEW file, NEW issue
  PROVE  issue \in Issues(file) <=>
           \E i \in DOMAIN file : \E c \in file[i].fires :
             issue = <<file[i].id, c>>
BY DEF Issues

\* A suppression that has expired stays so.
LEMMA ExpiredStays ==
  ASSUME NEW comment, NEW day \in Days, NEW later \in Days, day <= later,
         Expired(Entry(comment), day)
  PROVE  Expired(Entry(comment), later)
<1>1. Entry(comment).until \subseteq Nat
  BY DEF Entry, Until, Days
<1> QED
  BY <1>1 DEF Expired, Days

LEMMA ProblematicStays ==
  ASSUME NEW file, NEW day \in Days, NEW later \in Days, day <= later
  PROVE  Problematic(file, day) \subseteq Problematic(file, later)
BY ExpiredStays DEF Problematic

\* A comment that hides an issue today is not listed.
LEMMA HidingIsAlive ==
  ASSUME NEW file, FileOK(file), NEW day, NEW i \in DOMAIN file,
         NEW c \in file[i].fires, NEW k \in Covering(i) \cap DOMAIN file,
         file[k].comment # None, ~Expired(Entry(file[k].comment), day),
         \/ Entry(file[k].comment).all
         \/ c \in Entry(file[k].comment).checkers
  PROVE  k \notin Problematic(file, day)
<1>1. i = k \/ i = k + 1
  BY FileIs DEF Covering
<1>2. c \in Fires(file, k) \cup Fires(file, k + 1)
  BY <1>1 DEF Fires
<1>3. ~Stale(file, k)
  BY <1>2 DEF Stale
<1> QED
  BY <1>3 DEF Problematic

\* The comment of row i, taken alone, hides what the filter says it covers.
LEMMA AloneHides ==
  ASSUME NEW file, FileOK(file), NEW day, NEW i \in DOMAIN file,
         file[i].comment # None
  PROVE  Hidden(Alone(file, i), day) # {} <=>
           /\ ~Expired(Entry(file[i].comment), day)
           /\ \E j \in {i, i + 1} \cap DOMAIN file : \E c \in file[j].fires :
                \/ Entry(file[i].comment).all
                \/ c \in Entry(file[i].comment).checkers
<1> DEFINE one == Alone(file, i)
           entry == Entry(file[i].comment)
<1>1. /\ DOMAIN one = DOMAIN file
      /\ one[i].comment = file[i].comment
      /\ \A k \in DOMAIN file : k # i => one[k].comment = None
      /\ \A k \in DOMAIN file : one[k].fires = file[k].fires
  BY FileIs DEF Alone, Row
<1>2. \A j \in DOMAIN file : \A c \in file[j].fires :
        Suppressed(one, day, j, c) <=>
          j \in {i, i + 1} /\ ~Expired(entry, day)
                           /\ (entry.all \/ c \in entry.checkers)
  <2> SUFFICES ASSUME NEW j \in DOMAIN file, NEW c \in file[j].fires
               PROVE  Suppressed(one, day, j, c) <=>
                        j \in {i, i + 1} /\ ~Expired(entry, day)
                          /\ (entry.all \/ c \in entry.checkers)
    OBVIOUS
  <2>1. i \in Covering(j) <=> j \in {i, i + 1}
    BY FileIs DEF Covering
  <2> HIDE DEF one
  <2> QED
    BY <1>1, <2>1 DEF Suppressed
<1> HIDE DEF one
<1>3. Hidden(one, day) # {} <=>
        \E j \in DOMAIN file : \E c \in file[j].fires : Suppressed(one, day, j, c)
  BY <1>1, HiddenIs
<1> QED
  BY <1>2, <1>3 DEF one

\* The audit and the filter agree about every comment of every file.
LEMMA AuditAgrees ==
  ASSUME NEW file, FileOK(file), NEW day, NEW i \in DOMAIN file,
         file[i].comment # None
  PROVE  i \in Problematic(file, day) <=> Hidden(Alone(file, i), day) = {}
<1> DEFINE entry == Entry(file[i].comment)
           fires == Fires(file, i) \cup Fires(file, i + 1)
<1>1. Stale(file, i) <=>
        ~\E c \in fires : entry.all \/ c \in entry.checkers
  BY DEF Stale
<1>2. (\E c \in fires : entry.all \/ c \in entry.checkers) <=>
        \E j \in {i, i + 1} \cap DOMAIN file : \E c \in file[j].fires :
          entry.all \/ c \in entry.checkers
  BY DEF Fires
<1>3. i \in Problematic(file, day) <=> Stale(file, i) \/ Expired(entry, day)
  BY DEF Problematic
<1> QED
  BY <1>1, <1>2, <1>3, AloneHides

-----------------------------------------------------------------------------
(* What IInv says of neighbours *)

\* Rows that are neighbours in the audited file still are.
LEMMA Neighbours ==
  ASSUME IInv,
         NEW a \in DOMAIN audited, a - 1 \in DOMAIN audited,
         NEW i \in DOMAIN rows, rows[i].id = audited[a].id,
         NEW k \in DOMAIN rows, rows[k].id = audited[a - 1].id
  PROVE  k = i - 1
<1>1. FileOK(rows) /\ FileOK(audited)
  BY DEF IInv
<1>2. audited[a - 1].id < audited[a].id
  BY <1>1, FileIs DEF FileOK
<1>3. k < i
  BY <1>1, <1>2, FileIs
<1>4. CASE k < i - 1
  <2>1. /\ i - 1 \in DOMAIN rows
        /\ rows[k].id < rows[i - 1].id /\ rows[i - 1].id < rows[i].id
    BY <1>1, <1>4, FileIs DEF FileOK
  <2>2. PICK b \in DOMAIN audited : rows[i - 1].id = audited[b].id
    BY <2>1 DEF IInv, ThinnedInv, LeftOf
  <2>3. a - 1 < b /\ b < a
    BY <1>1, <2>1, <2>2, FileIs
  <2> QED
    BY <1>1, <2>3, FileIs
<1> QED
  BY <1>1, <1>3, <1>4, FileIs

\* A comment that is not dead, and every row with code, is still there.
LEMMA StillThere ==
  ASSUME IInv, NEW a \in DOMAIN audited
  PROVE  /\ audited[a].id \notin Dead =>
              \E k \in DOMAIN rows : /\ rows[k].id = audited[a].id
                                     /\ rows[k].comment = audited[a].comment
         /\ audited[a].fires # {} =>
              \E k \in DOMAIN rows : rows[k].id = audited[a].id
<1>1. ASSUME NEW k \in DOMAIN rows, rows[k].id = audited[a].id
      PROVE  LeftOf(rows[k], audited[a])
  BY <1>1, FileIs DEF IInv, ThinnedInv, LeftOf
<1>2. audited[a].fires # {} => ~audited[a].own
  BY DEF IInv, FileOK, IsLine
<1> QED
  BY <1>1, <1>2 DEF IInv, ThinnedInv, LeftOf

LEMMA DeadIs ==
  ASSUME IInv, NEW a \in DOMAIN audited
  PROVE  audited[a].id \in Dead <=> a \in Problematic(audited, today)
<1>1. \A b \in Problematic(audited, today) :
        b \in DOMAIN audited /\ (audited[b].id = audited[a].id => b = a)
  BY FileIs DEF IInv, Problematic
<1> QED
  BY <1>1 DEF Dead

-----------------------------------------------------------------------------
(* What IInv implies *)

LEMMA Resurfaces == IInv => NothingResurfaces
<1> SUFFICES ASSUME IInv, NEW issue,
                    issue \in Hidden(audited, today), issue \in Issues(rows)
             PROVE  issue \in Hidden(rows, today)
  BY DEF NothingResurfaces
<1>0. FileOK(rows) /\ FileOK(audited)
  BY DEF IInv
<1>1. PICK a \in DOMAIN audited : \E c \in audited[a].fires :
        Suppressed(audited, today, a, c) /\ issue = <<audited[a].id, c>>
  BY HiddenIs
<1>2. PICK c \in audited[a].fires :
        Suppressed(audited, today, a, c) /\ issue = <<audited[a].id, c>>
  BY <1>1
<1>3. PICK i \in DOMAIN rows : rows[i].id = audited[a].id /\ c \in rows[i].fires
  BY <1>2, IssueIs
<1>4. PICK k \in Covering(a) \cap DOMAIN audited :
        /\ audited[k].comment # None
        /\ ~Expired(Entry(audited[k].comment), today)
        /\ \/ Entry(audited[k].comment).all
           \/ c \in Entry(audited[k].comment).checkers
  BY <1>2 DEF Suppressed
<1>5. audited[k].id \notin Dead
  BY <1>0, <1>4, HidingIsAlive, DeadIs
<1>6. PICK m \in DOMAIN rows : /\ rows[m].id = audited[k].id
                               /\ rows[m].comment = audited[k].comment
  BY <1>5, StillThere
<1>7. m \in Covering(i)
  <2>1. CASE k = a
    BY <1>0, <1>3, <1>6, <2>1, FileIs DEF Covering
  <2>2. CASE k = a - 1
    BY <1>3, <1>6, <2>2, Neighbours DEF Covering
  <2> QED
    BY <2>1, <2>2 DEF Covering
<1>8. Suppressed(rows, today, i, c)
  BY <1>4, <1>6, <1>7 DEF Suppressed
<1> QED
  BY <1>2, <1>3, <1>8, HiddenIs

LEMMA Joining == IInv => HidesOnlyByJoining
<1> SUFFICES ASSUME IInv, NEW i \in DOMAIN rows, NEW c \in rows[i].fires,
                    <<rows[i].id, c>> \in FilterSuppressed(audited, today),
                    Suppressed(rows, today, i, c)
             PROVE  \E g \in Gone : i > 1 /\ rows[i - 1].id < g /\ g < rows[i].id
  BY DEF HidesOnlyByJoining
<1>0. FileOK(rows) /\ FileOK(audited)
  BY DEF IInv
<1>1. PICK a \in DOMAIN audited : LeftOf(rows[i], audited[a])
  BY DEF IInv, ThinnedInv
<1>2. c \in audited[a].fires /\ ~Suppressed(audited, today, a, c)
  BY <1>1, HiddenIs DEF LeftOf, FilterSuppressed
<1>3. PICK k \in Covering(i) \cap DOMAIN rows :
        /\ rows[k].comment # None
        /\ ~Expired(Entry(rows[k].comment), today)
        /\ Entry(rows[k].comment).all \/ c \in Entry(rows[k].comment).checkers
  BY DEF Suppressed
<1>4. PICK b \in DOMAIN audited : LeftOf(rows[k], audited[b])
  BY DEF IInv, ThinnedInv
<1>5. audited[b].comment = rows[k].comment
  BY <1>3, <1>4 DEF LeftOf
<1>6. b \notin Covering(a)
  BY <1>2, <1>3, <1>5 DEF Suppressed
<1>7. k = i - 1 /\ i > 1
  BY <1>0, <1>1, <1>3, <1>4, <1>6, FileIs DEF Covering, LeftOf
<1>8. b < a - 1
  BY <1>0, <1>1, <1>4, <1>6, <1>7, FileIs DEF Covering, LeftOf, FileOK
<1>9. /\ a - 1 \in DOMAIN audited
      /\ rows[k].id < audited[a - 1].id /\ audited[a - 1].id < rows[i].id
  BY <1>0, <1>1, <1>4, <1>8, FileIs DEF LeftOf, FileOK
<1>10. audited[a - 1].id \in Gone
  <2>1. ASSUME NEW m \in DOMAIN rows, rows[m].id = audited[a - 1].id
        PROVE  FALSE
    <3>1. k < m /\ m < i
      BY <1>0, <1>9, <2>1, FileIs
    <3> QED
      BY <1>0, <1>7, <3>1, FileIs
  <2> QED
    BY <1>9, <2>1 DEF Gone
<1> QED
  BY <1>7, <1>9, <1>10

LEMMA Clean == IInv => CleanAfterRemoval
<1> SUFFICES ASSUME IInv, quiet, listed = {}, NEW i \in Problematic(rows, today)
             PROVE  FALSE
  BY DEF CleanAfterRemoval
<1>0. FileOK(rows) /\ FileOK(audited)
  BY DEF IInv
<1>1. i \in DOMAIN rows /\ rows[i].comment # None /\ rows[i].id \notin Dead
  BY DEF IInv, ListedInv, Problematic
<1>2. PICK a \in DOMAIN audited : LeftOf(rows[i], audited[a])
  BY <1>1 DEF IInv, ThinnedInv
<1>3. audited[a].comment = rows[i].comment /\ audited[a].id = rows[i].id
  BY <1>1, <1>2 DEF LeftOf
<1>4. ~Stale(audited, a) /\ Stale(rows, i)
  BY <1>1, <1>3, DeadIs DEF Problematic
<1>5. Fires(rows, i) = Fires(audited, a)
  BY <1>1, <1>3 DEF IInv, ListedInv, Fires
<1>6. Fires(audited, a + 1) \subseteq Fires(rows, i + 1)
  <2> SUFFICES ASSUME a + 1 \in DOMAIN audited, audited[a + 1].fires # {}
               PROVE  audited[a + 1].fires \subseteq Fires(rows, i + 1)
    BY DEF Fires
  <2>1. PICK m \in DOMAIN rows : rows[m].id = audited[a + 1].id
    BY StillThere
  <2>2. i = m - 1
    <3>1. a \in Int /\ (a + 1) - 1 = a
      BY <1>0, FileIs
    <3> QED
      BY <1>1, <1>3, <2>1, <3>1, Neighbours
  <2>3. m = i + 1 /\ rows[m].fires = audited[a + 1].fires
    BY <1>0, <2>1, <2>2, FileIs DEF IInv, ListedInv
  <2> QED
    BY <2>3 DEF Fires
<1> QED
  BY <1>3, <1>4, <1>5, <1>6 DEF Stale

LEMMA Exact == IInv => AuditExact
BY AuditAgrees DEF IInv, AuditExact

-----------------------------------------------------------------------------
(* The steps *)

LEMMA InitInv == Init => IInv
<1> SUFFICES ASSUME Init PROVE IInv
  OBVIOUS
<1>1. PICK n \in 1..MaxRows : \E lines \in [1..n -> {l \in Line : IsLine(l)}] :
        rows = [i \in 1..n |->
                  [id |-> i, fires |-> lines[i].fires,
                   comment |-> lines[i].comment, own |-> lines[i].own]]
  BY DEF Init
<1>2. PICK lines \in [1..n -> {l \in Line : IsLine(l)}] :
        rows = [i \in 1..n |->
                  [id |-> i, fires |-> lines[i].fires,
                   comment |-> lines[i].comment, own |-> lines[i].own]]
  BY <1>1
<1>3. /\ DOMAIN rows = 1..n
      /\ \A i \in 1..n : rows[i] \in Row /\ rows[i].id = i /\ IsLine(rows[i])
  <2> SUFFICES ASSUME NEW i \in 1..n
               PROVE  rows[i] \in Row /\ rows[i].id = i /\ IsLine(rows[i])
    BY <1>2
  <2>1. lines[i] \in Line /\ IsLine(lines[i]) /\ i \in 1..MaxRows
    BY SuppressAssumption
  <2> QED
    BY <1>2, <2>1 DEF Line, Row, IsLine
<1>4. rows \in Seq(Row)
  BY <1>2, <1>3, SuppressAssumption
<1>5. FileOK(rows)
  BY <1>3, <1>4 DEF FileOK
<1>6. audited = rows /\ listed = {} /\ quiet = FALSE /\ today \in Days
  BY SuppressAssumption DEF Init, Days
<1>7. ThinnedInv
  BY <1>6 DEF ThinnedInv, LeftOf
<1>8. ListedInv
  BY <1>6 DEF ListedInv
<1> QED
  BY <1>5, <1>6, <1>7, <1>8 DEF IInv

LEMMA AuditStep ==
  ASSUME IInv, Audit
  PROVE  IInv'
<1>1. /\ audited' = rows /\ rows' = rows /\ today' = today /\ quiet' = TRUE
      /\ listed' = {rows[i].id : i \in Problematic(rows, today)}
  BY DEF Audit
<1>2. Dead' = listed'
  BY <1>1 DEF Dead
<1>3. \A i \in DOMAIN rows : rows[i].id \in listed' => rows[i].comment # None
  BY <1>1, FileIs DEF IInv, Problematic
<1>4. listed' \subseteq {rows[i].id : i \in DOMAIN rows}
  BY <1>1 DEF Problematic
<1>5. \A i, a \in DOMAIN rows : rows[i].id = rows[a].id => i = a
  BY FileIs DEF IInv
<1> QED
  BY <1>1, <1>2, <1>3, <1>4, <1>5 DEF IInv, ThinnedInv, LeftOf, ListedInv

LEMMA RemoveLineStep ==
  ASSUME IInv, NEW i \in DOMAIN rows, RemoveLine(i)
  PROVE  IInv'
<1>0. FileOK(rows) /\ FileOK(audited)
  BY DEF IInv
<1>1. /\ rows[i].id \in listed /\ rows[i].own
      /\ rows' = RemoveAt(rows, i)
      /\ listed' = listed \ {rows[i].id}
      /\ UNCHANGED <<today, audited, quiet>>
  BY DEF RemoveLine
<1>2. Dead' = Dead
  BY <1>1 DEF Dead
<1>3. /\ rows' \in Seq(Row) /\ Len(rows) \in Nat
      /\ DOMAIN rows' = 1..Len(rows) - 1
      /\ \A j \in DOMAIN rows' : rows'[j] = IF j < i THEN rows[j] ELSE rows[j + 1]
  <2>1. rows \in Seq(Row) /\ i \in 1..Len(rows) /\ Len(rows) \in Nat
    BY <1>0, FileIs DEF FileOK
  <2>2. /\ RemoveAt(rows, i) \in Seq(Row)
        /\ DOMAIN RemoveAt(rows, i) = 1..Len(rows) - 1
        /\ \A j \in 1..Len(rows) - 1 :
             RemoveAt(rows, i)[j] = IF j < i THEN rows[j] ELSE rows[j + 1]
    BY <2>1, RemoveAtIs
  <2> QED
    BY <1>1, <2>1, <2>2
<1>4. /\ \A j \in DOMAIN rows' : \E k \in DOMAIN rows : k # i /\ rows'[j] = rows[k]
      /\ \A k \in DOMAIN rows : k # i => \E j \in DOMAIN rows' : rows'[j] = rows[k]
  <2>1. ASSUME NEW j \in DOMAIN rows'
        PROVE  \E k \in DOMAIN rows : k # i /\ rows'[j] = rows[k]
    <3>1. CASE j < i
      BY <1>0, <1>3, <3>1, FileIs
    <3>2. CASE ~(j < i)
      BY <1>0, <1>3, <3>2, FileIs
    <3> QED
      BY <3>1, <3>2
  <2>2. ASSUME NEW k \in DOMAIN rows, k # i
        PROVE  \E j \in DOMAIN rows' : rows'[j] = rows[k]
    <3>1. CASE k < i
      <4>1. k \in DOMAIN rows'
        BY <1>0, <1>3, <3>1, FileIs
      <4> QED
        BY <1>3, <3>1, <4>1
    <3>2. CASE ~(k < i)
      <4>1. k - 1 \in DOMAIN rows' /\ ~(k - 1 < i) /\ (k - 1) + 1 = k
        BY <1>0, <1>3, <2>2, <3>2, FileIs
      <4> QED
        BY <1>3, <4>1
    <3> QED
      BY <3>1, <3>2
  <2> QED
    BY <2>1, <2>2
<1>5. FileOK(rows')
  <2>1. ASSUME NEW j \in DOMAIN rows', NEW l \in DOMAIN rows', j < l
        PROVE  rows'[j].id < rows'[l].id
    <3> DEFINE from(k) == IF k < i THEN k ELSE k + 1
    <3>1. \A k \in DOMAIN rows' : from(k) \in DOMAIN rows
                                   /\ rows'[k] = rows[from(k)]
      BY <1>0, <1>3, FileIs
    <3>2. from(j) < from(l)
      BY <1>3, <2>1
    <3> HIDE DEF from
    <3> QED
      BY <1>0, <3>1, <3>2 DEF FileOK
  <2>2. \A j \in DOMAIN rows' : IsLine(rows'[j])
    BY <1>0, <1>4 DEF FileOK
  <2> QED
    BY <1>3, <2>1, <2>2 DEF FileOK
<1>6. ThinnedInv'
  <2>1. \A j \in DOMAIN rows' :
          \E a \in DOMAIN audited : LeftOf(rows[j], audited[a])'
    <3>1. \A k \in DOMAIN rows :
            \E a \in DOMAIN audited : LeftOf(rows[k], audited[a])
      BY DEF IInv, ThinnedInv
    <3> QED
      BY <1>1, <1>2, <1>4, <3>1 DEF LeftOf
  <2>2. ASSUME NEW a \in DOMAIN audited
        PROVE  \/ \E j \in DOMAIN rows' : rows'[j].id = audited[a].id
               \/ audited[a].own /\ audited[a].id \in Dead
    <3>1. CASE audited[a].id = rows[i].id
      <4>1. PICK b \in DOMAIN audited : LeftOf(rows[i], audited[b])
        BY DEF IInv, ThinnedInv
      <4>2. b = a
        BY <1>0, <3>1, <4>1, FileIs DEF LeftOf
      <4> QED
        BY <1>1, <3>1, <4>1, <4>2 DEF LeftOf, IInv, ListedInv
    <3>2. CASE audited[a].id # rows[i].id
      BY <1>4, <3>2 DEF IInv, ThinnedInv
    <3> QED
      BY <3>1, <3>2
  <2> QED
    BY <1>1, <1>2, <2>1, <2>2 DEF ThinnedInv
<1>7. ListedInv'
  <2>1. listed' \subseteq {rows'[j].id : j \in DOMAIN rows'}
    BY <1>1, <1>4 DEF IInv, ListedInv
  <2>2. \A k \in DOMAIN rows : k # i => rows[k].id # rows[i].id
    BY <1>0, FileIs
  <2> QED
    BY <1>1, <1>2, <1>4, <2>1, <2>2 DEF IInv, ListedInv
<1> QED
  BY <1>1, <1>5, <1>6, <1>7 DEF IInv, FileOK

LEMMA RemoveTrailingStep ==
  ASSUME IInv, NEW i \in DOMAIN rows, RemoveTrailing(i)
  PROVE  IInv'
<1>0. FileOK(rows) /\ FileOK(audited)
  BY DEF IInv
<1>1. /\ rows[i].id \in listed /\ ~rows[i].own
      /\ rows' = [rows EXCEPT ![i].comment = None]
      /\ listed' = listed \ {rows[i].id}
      /\ UNCHANGED <<today, audited, quiet>>
  BY DEF RemoveTrailing
<1>2. Dead' = Dead
  BY <1>1 DEF Dead
<1>3. /\ rows' \in Seq(Row) /\ DOMAIN rows' = DOMAIN rows
      /\ \A k \in DOMAIN rows : k # i => rows'[k] = rows[k]
      /\ rows'[i].id = rows[i].id /\ rows'[i].own = rows[i].own
      /\ rows'[i].fires = rows[i].fires /\ rows'[i].comment = None
  <2>1. rows[i] \in Row /\ [rows[i] EXCEPT !.comment = None] \in Row
    BY <1>0, FileIs DEF Row
  <2>2. rows' = [rows EXCEPT ![i] = [rows[i] EXCEPT !.comment = None]]
    BY <1>1
  <2>3. i \in 1..Len(rows) /\ DOMAIN rows = 1..Len(rows)
    BY <1>0, FileIs
  <2>4. rows' \in Seq(Row) /\ DOMAIN rows' = DOMAIN rows
    BY <1>0, <2>1, <2>2, <2>3, ExceptSeq DEF FileOK
  <2> QED
    BY <2>1, <2>2, <2>4 DEF Row
<1>4. FileOK(rows')
  BY <1>0, <1>1, <1>3 DEF FileOK, IsLine
<1>5. ThinnedInv'
  <2>1. ASSUME NEW k \in DOMAIN rows
        PROVE  \E a \in DOMAIN audited : LeftOf(rows[k], audited[a])'
    <3>1. PICK a \in DOMAIN audited : LeftOf(rows[k], audited[a])
      BY DEF IInv, ThinnedInv
    <3>2. k = i => audited[a].id \in Dead
      BY <1>1, <3>1 DEF LeftOf, IInv, ListedInv
    <3> QED
      BY <1>1, <1>2, <1>3, <3>1, <3>2 DEF LeftOf
  <2>2. \A k \in DOMAIN rows : rows'[k].id = rows[k].id
    BY <1>3
  <2> QED
    BY <1>1, <1>2, <1>3, <2>1, <2>2 DEF IInv, ThinnedInv
<1>6. ListedInv'
  <2>1. \A k \in DOMAIN rows : rows'[k].id = rows[k].id
                                /\ rows'[k].fires = rows[k].fires
    BY <1>3
  <2>2. \A k \in DOMAIN rows : k # i => rows[k].id # rows[i].id
    BY <1>0, FileIs
  <2> QED
    BY <1>1, <1>2, <1>3, <2>1, <2>2 DEF IInv, ListedInv
<1> QED
  BY <1>1, <1>4, <1>5, <1>6 DEF IInv, FileOK

LEMMA FixStep ==
  ASSUME IInv, NEW i \in DOMAIN rows, NEW c \in Checkers, Fix(i, c)
  PROVE  IInv'
<1>0. FileOK(rows) /\ FileOK(audited)
  BY DEF IInv
<1>1. /\ rows' = [rows EXCEPT ![i].fires = @ \ {c}]
      /\ quiet' = FALSE
      /\ UNCHANGED <<today, audited, listed>>
  BY DEF Fix
<1>2. Dead' = Dead
  BY <1>1 DEF Dead
<1>3. /\ rows' \in Seq(Row) /\ DOMAIN rows' = DOMAIN rows
      /\ \A k \in DOMAIN rows :
           /\ rows'[k].id = rows[k].id /\ rows'[k].own = rows[k].own
           /\ rows'[k].comment = rows[k].comment
           /\ rows'[k].fires \subseteq rows[k].fires
  <2> DEFINE row == [rows[i] EXCEPT !.fires = rows[i].fires \ {c}]
  <2>1. /\ rows[i] \in Row /\ row \in Row
        /\ row.id = rows[i].id /\ row.own = rows[i].own
        /\ row.comment = rows[i].comment /\ row.fires \subseteq rows[i].fires
    BY <1>0, FileIs DEF Row
  <2>2. rows' = [rows EXCEPT ![i] = row]
    BY <1>1
  <2> HIDE DEF row
  <2>3. i \in 1..Len(rows) /\ DOMAIN rows = 1..Len(rows)
    BY <1>0, FileIs
  <2>4. rows' \in Seq(Row) /\ DOMAIN rows' = DOMAIN rows
    BY <1>0, <2>1, <2>2, <2>3, ExceptSeq DEF FileOK
  <2> QED
    BY <2>1, <2>2, <2>4
<1>4. FileOK(rows')
  BY <1>0, <1>3 DEF FileOK, IsLine
<1>5. ThinnedInv'
  BY <1>1, <1>2, <1>3 DEF IInv, ThinnedInv, LeftOf
<1>6. ListedInv'
  BY <1>1, <1>2, <1>3 DEF IInv, ListedInv
<1> QED
  BY <1>1, <1>4, <1>5, <1>6 DEF IInv, FileOK

LEMMA NextDayStep ==
  ASSUME IInv, NextDay
  PROVE  IInv'
<1>1. /\ today < MaxDay /\ today' = today + 1 /\ quiet' = FALSE
      /\ UNCHANGED <<rows, audited, listed>>
  BY DEF NextDay
<1>2. today \in Days /\ today' \in Days /\ today <= today'
  BY <1>1, SuppressAssumption DEF IInv, Days
<1>3. Dead \subseteq Dead'
  BY <1>1, <1>2, ProblematicStays DEF Dead
<1>4. ThinnedInv'
  <2>1. \A i \in DOMAIN rows : \E a \in DOMAIN audited : LeftOf(rows[i], audited[a])
    BY DEF IInv, ThinnedInv
  <2>2. \A i \in DOMAIN rows : \E a \in DOMAIN audited : LeftOf(rows[i], audited[a])'
    BY <1>1, <1>3, <2>1 DEF LeftOf
  <2> QED
    BY <1>1, <1>3, <2>2 DEF IInv, ThinnedInv
<1>5. ListedInv'
  BY <1>1, <1>3 DEF IInv, ListedInv
<1> QED
  BY <1>1, <1>2, <1>4, <1>5 DEF IInv, FileOK

-----------------------------------------------------------------------------
(* The theorems *)

\* Nothing but dead comments and fixed issues ever leaves the audited file.
THEOREM Invariance == Spec => []IInv
<1>1. ASSUME IInv, [Next]_vars PROVE IInv'
  <2>1. CASE Audit
    BY <1>1, <2>1, AuditStep
  <2>2. CASE \E i \in DOMAIN rows : RemoveLine(i)
    BY <1>1, <2>2, RemoveLineStep
  <2>3. CASE \E i \in DOMAIN rows : RemoveTrailing(i)
    BY <1>1, <2>3, RemoveTrailingStep
  <2>4. CASE \E i \in DOMAIN rows : \E checker \in Checkers : Fix(i, checker)
    BY <1>1, <2>4, FixStep
  <2>5. CASE NextDay
    BY <1>1, <2>5, NextDayStep
  <2>6. CASE UNCHANGED vars
    BY <1>1, <2>6 DEF vars, IInv, FileOK, ThinnedInv, LeftOf, ListedInv, Dead
  <2> QED
    BY <1>1, <2>1, <2>2, <2>3, <2>4, <2>5, <2>6 DEF Next
<1> QED
  BY <1>1, InitInv, PTL DEF Spec

\* Every variable keeps its type, and what is listed has a comment (Audit).
THEOREM TypeCorrect == Spec => []TypeOK
<1>1. IInv => TypeOK
  BY DEF IInv, TypeOK, FileOK, ListedInv
<1> QED
  BY <1>1, Invariance, PTL

\* CollectSuppressions calls a comment stale or expired exactly when
\* FilterSuppressed hides nothing for its sake, in every file on every day.
THEOREM AuditIsExact == Spec => []AuditExact
BY Exact, Invariance, PTL

\* Removing what the audit listed brings no issue back, in any order, at once
\* or later, on every file.
THEOREM RemovalIsSafe == Spec => []NothingResurfaces
BY Resurfaces, Invariance, PTL

\* Removing what the audit listed hides an issue only where a removed line
\* stood between it and a comment.
THEOREM RemovalHidesByJoining == Spec => []HidesOnlyByJoining
BY Joining, Invariance, PTL

\* The audit after the removal of all it listed is clean.
THEOREM RemovalIsComplete == Spec => []CleanAfterRemoval
BY Clean, Invariance, PTL

-----------------------------------------------------------------------------
(* The last day of a suppression *)

\* Of several dates in a comment the last counts, so it has one date at most.
LEMMA OneDate ==
  ASSUME NEW comment \in Comments, NEW d \in Until(comment)
  PROVE  Until(comment) = {d}
<1>1. DOMAIN comment \subseteq Nat
  <2>1. comment \in Seq(ToSet(comment))
    BY SuppressAssumption
  <2> HIDE DEF ToSet
  <2> QED
    BY <2>1, LenProperties
<1>2. ASSUME NEW e \in Until(comment) PROVE e = d
  <2>1. PICK k \in DOMAIN comment :
          comment[k] = d /\ \A l \in DOMAIN comment : l > k => comment[l] \notin Days
    BY DEF Until
  <2>2. PICK j \in DOMAIN comment :
          comment[j] = e /\ \A l \in DOMAIN comment : l > j => comment[l] \notin Days
    BY <1>2 DEF Until
  <2>3. d \in Days /\ e \in Days
    BY <1>2 DEF Until
  <2>4. ~(j > k) /\ ~(k > j)
    BY <2>1, <2>2, <2>3
  <2> QED
    BY <1>1, <2>1, <2>2, <2>4
<1> QED
  BY <1>2

\* Comment k reaches row i, is active, and names the checker or none.
Reaches(file, day, i, c, k) ==
  /\ k \in Covering(i) \cap DOMAIN file
  /\ file[k].comment # None
  /\ ~Expired(Entry(file[k].comment), day)
  /\ \/ Entry(file[k].comment).all
     \/ c \in Entry(file[k].comment).checkers

\* Taken alone, a comment hides the issues it reaches.
LEMMA HidingIs ==
  ASSUME NEW file, FileOK(file), NEW day, NEW i \in DOMAIN file,
         NEW c \in file[i].fires, NEW k \in DOMAIN file
  PROVE  k \in Hiding(file, day, i, c) <=> Reaches(file, day, i, c, k)
<1> DEFINE one == Alone(file, k)
<1>1. /\ DOMAIN one = DOMAIN file
      /\ one[k].comment = file[k].comment
      /\ \A j \in DOMAIN file : j # k => one[j].comment = None
      /\ \A j \in DOMAIN file : one[j].fires = file[j].fires
      /\ \A j \in DOMAIN file : one[j].id = file[j].id
  BY FileIs DEF Alone, Row
<1> HIDE DEF one
<1>2. Suppressed(one, day, i, c) <=> Reaches(file, day, i, c, k)
  BY <1>1 DEF Suppressed, Reaches
<1>3. \A j \in DOMAIN file : file[j].id = file[i].id => j = i
  BY FileIs
<1>4. <<file[i].id, c>> \in Hidden(one, day) <=> Suppressed(one, day, i, c)
  BY <1>1, <1>3, HiddenIs
<1> QED
  BY <1>2, <1>4 DEF Hiding, one

LEMMA SuppressedIs ==
  ASSUME NEW file, FileOK(file), NEW day, NEW i \in DOMAIN file,
         NEW c \in file[i].fires
  PROVE  /\ <<file[i].id, c>> \in Hidden(file, day) <=>
              \E k \in DOMAIN file : Reaches(file, day, i, c, k)
<1>1. Suppressed(file, day, i, c) <=>
        \E k \in DOMAIN file : Reaches(file, day, i, c, k)
  BY DEF Suppressed, Reaches
<1>2. \A j \in DOMAIN file : file[j].id = file[i].id => j = i
  BY FileIs
<1> QED
  BY <1>1, <1>2, HiddenIs

\* A comment that is active today ends with the day if that is its date.
LEMMA LastDay ==
  ASSUME NEW comment \in Comments, NEW day \in Days, day + 1 \in Days,
         ~Expired(Entry(comment), day)
  PROVE  Expired(Entry(comment), day + 1) <=> Until(comment) = {day}
<1>1. Until(comment) \subseteq Nat /\ Entry(comment).until = Until(comment)
  BY DEF Until, Days, Entry
<1>2. CASE Expired(Entry(comment), day + 1)
  <2>1. PICK d \in Until(comment) : day + 1 > d
    BY <1>1, <1>2 DEF Expired
  <2>2. ~(day > d)
    BY <1>1, <2>1 DEF Expired
  <2>3. d = day
    BY <1>1, <2>1, <2>2 DEF Days
  <2> QED
    BY <1>2, <2>3, OneDate
<1>3. CASE Until(comment) = {day}
  <2>1. day + 1 > day
    BY DEF Days
  <2> QED
    BY <1>1, <1>3, <2>1 DEF Expired
<1> QED
  BY <1>2, <1>3

\* A date ends a suppression, neither early nor late (suppressEntry.expired,
\* and the two lines of suppressed).
THEOREM DatesAreKept == Spec => HiddenThroughItsDate
<1>1. ASSUME IInv, [Next]_vars, today' > today
      PROVE  /\ Hidden(rows', today') \subseteq Hidden(rows, today)
             /\ \A i \in DOMAIN rows : \A c \in rows[i].fires :
                  <<rows[i].id, c>> \in Hidden(rows, today) =>
                    (<<rows[i].id, c>> \notin Hidden(rows', today') <=>
                       \A k \in Hiding(rows, today, i, c) :
                         Until(rows[k].comment) = {today})
  <2>1. today' = today + 1 /\ rows' = rows /\ today \in Days /\ today' \in Days
    BY <1>1, SuppressAssumption DEF Next, vars, Audit, RemoveLine,
       RemoveTrailing, Fix, NextDay, IInv, Days
  <2>2. FileOK(rows)
    BY <1>1 DEF IInv
  <2>3. \A k \in DOMAIN rows : rows[k].comment # None => rows[k].comment \in Comments
    BY <2>2, FileIs DEF Row
  <2>4. ASSUME NEW i \in DOMAIN rows, NEW c \in rows[i].fires, NEW k \in DOMAIN rows
        PROVE  Reaches(rows, today', i, c, k) <=>
                 Reaches(rows, today, i, c, k) /\ Until(rows[k].comment) # {today}
    <3>1. CASE rows[k].comment = None
      BY <3>1 DEF Reaches
    <3>2. CASE rows[k].comment # None
      <4>1. rows[k].comment \in Comments
        BY <2>3, <3>2
      <4>2. ~Expired(Entry(rows[k].comment), today') =>
              ~Expired(Entry(rows[k].comment), today)
        <5>1. today <= today'
          BY <2>1 DEF Days
        <5> QED
          BY <2>1, <5>1, ExpiredStays
      <4>3. ~Expired(Entry(rows[k].comment), today) =>
              (Expired(Entry(rows[k].comment), today') <=>
                 Until(rows[k].comment) = {today})
        BY <2>1, <4>1, LastDay
      <4> QED
        BY <4>2, <4>3 DEF Reaches
    <3> QED
      BY <3>1, <3>2
  <2>5. ASSUME NEW i \in DOMAIN rows, NEW c \in rows[i].fires,
               <<rows[i].id, c>> \in Hidden(rows, today)
        PROVE  <<rows[i].id, c>> \notin Hidden(rows', today') <=>
                 \A k \in Hiding(rows, today, i, c) :
                   Until(rows[k].comment) = {today}
    <3>1. <<rows[i].id, c>> \in Hidden(rows', today') <=>
            \E k \in DOMAIN rows : Reaches(rows, today', i, c, k)
      BY <2>1, <2>2, SuppressedIs
    <3>2. \A k \in DOMAIN rows :
            k \in Hiding(rows, today, i, c) <=> Reaches(rows, today, i, c, k)
      BY <2>2, HidingIs
    <3>3. Hiding(rows, today, i, c) \subseteq DOMAIN rows
      BY DEF Hiding
    <3> HIDE DEF Reaches
    <3> QED
      BY <3>1, <3>2, <3>3, <2>4
  <2>6. Hidden(rows', today') \subseteq Hidden(rows, today)
    <3> SUFFICES ASSUME NEW issue \in Hidden(rows', today')
                 PROVE  issue \in Hidden(rows, today)
      OBVIOUS
    <3>1. PICK i \in DOMAIN rows : \E c \in rows[i].fires : issue = <<rows[i].id, c>>
      BY <2>1, HiddenIs
    <3>2. PICK c \in rows[i].fires : issue = <<rows[i].id, c>>
      BY <3>1
    <3> QED
      BY <2>1, <2>2, <2>4, <3>2, SuppressedIs
  <2> QED
    BY <2>5, <2>6
<1> QED
  BY <1>1, Invariance, PTL DEF Spec, HiddenThroughItsDate

=============================================================================
