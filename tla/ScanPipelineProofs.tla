------------------------- MODULE ScanPipelineProofs ------------------------
(***************************************************************************)
(* The safety properties of ScanPipeline, proved for every list of files,  *)
(* every value of the -workers flag and every interleaving.                *)
(*                                                                         *)
(* None of them is inductive alone. IInv adds where every file is: not     *)
(* sent, held by exactly one worker, or settled; and what the WaitGroup    *)
(* and the counter count: the live workers, and the files sent minus the   *)
(* files still held.                                                       *)
(***************************************************************************)
EXTENDS ScanPipeline, FiniteSetTheorems, TLAPS

PCs == {"off", "recv", "exited"} \cup Holding
Live == {"recv"} \cup Holding

\* The workers that are at one of the places T.
At(p, T) == {v \in Workers : p[v] \in T}

\* What holds before the goroutines start, and when there is nothing to do.
StartInv ==
  /\ main \in {"begin", "spawn"} =>
       /\ next = 1 /\ jobs = "open" /\ results = "open" /\ all = <<>>
       /\ progress = 0
       /\ \A w \in Workers : pc[w] \in {"off", "recv"}
  /\ main = "begin" => \A w \in Workers : pc[w] = "off"
  /\ main = "spawn" => paths # <<>>
  /\ paths = <<>> =>
       /\ main \in {"begin"} \cup Scanned
       /\ next = 1 /\ all = <<>> /\ progress = 0
       /\ jobs = "open" /\ results = "open"
       /\ \A w \in Workers : pc[w] = "off"
  /\ Launched => \A w \in Workers : pc[w] # "off"

\* The order in which the channels are closed.
ClosingInv ==
  /\ wg = Cardinality(At(pc, Live))
  /\ jobs = "closed" => next = Len(paths) + 1
  /\ \A w \in Workers : pc[w] = "exited" => jobs = "closed"
  /\ results = "closed" => \A w \in Workers : pc[w] = "exited"
  /\ main \in Scanned /\ paths # <<>> => results = "closed"

\* A file is held by one worker at most, and a worker sends only issues.
HoldInv ==
  /\ \A w \in Workers : pc[w] \in Holding => path[w] \in 1..next - 1
  /\ \A v, w \in Workers :
       pc[v] \in Holding /\ pc[w] \in Holding /\ path[v] = path[w] => v = w
  /\ \A w \in Workers : pc[w] = "send" => paths[path[w]] = "issues"

\* A reported file was sent, has issues, and no worker may report it again.
ReportInv ==
  /\ \A j, k \in DOMAIN all : all[j] = all[k] => j = k
  /\ \A k \in DOMAIN all :
       /\ all[k] < next
       /\ paths[all[k]] = "issues"
       /\ \A w \in Workers : pc[w] \in {"have", "send"} => path[w] # all[k]

\* A file with issues that was sent is reported or about to be.
NoLossInv ==
  \A f \in 1..next - 1 : paths[f] = "issues" =>
    \/ \E k \in DOMAIN all : all[k] = f
    \/ \E w \in Workers : pc[w] \in {"have", "send"} /\ path[w] = f

\* The counter lags behind the feeder by the files the workers hold.
CountInv ==
  mode = "scan" => progress + Cardinality(At(pc, Holding)) = next - 1

\* The progress line shows a value the counter has had, and only while the
\* progress goroutine is alive or main is about to erase the line.
ShowInv ==
  /\ screen <= n /\ n <= progress
  /\ main = "begin" => ticker = "off"
  /\ ticker = "off" => screen = Blank
  /\ main # "begin" /\ ShowProgress => ticker # "off"
  /\ ~ShowProgress => ticker = "off"
  /\ ticker = "exited" => stop
  /\ stop => main \in {"waiting", "returned"}
  /\ CleanAfterReturn

IInv ==
  /\ TypeOK /\ StartInv /\ ClosingInv /\ HoldInv /\ ReportInv /\ NoLossInv
  /\ CountInv /\ ShowInv

-----------------------------------------------------------------------------
(* Counting workers *)

LEMMA WorkersFinite ==
  /\ IsFiniteSet(Workers)
  /\ Workers # {}
  /\ NumW \in Nat \ {0}
<1>1. NumW \in Nat \ {0}
  BY PipelineAssumption DEF NumW
<1>2. IsFiniteSet(Workers)
  BY <1>1, FS_Interval DEF Workers
<1>3. 1 \in Workers
  BY <1>1 DEF Workers
<1> QED
  BY <1>1, <1>2, <1>3

\* Moving one worker changes the number of workers at T by what it leaves and
\* what it enters.
LEMMA CountMove ==
  ASSUME NEW p, p \in [Workers -> PCs], NEW T, NEW w \in Workers, NEW x \in PCs
  PROVE  LET q == [p EXCEPT ![w] = x]
         IN  /\ Cardinality(At(p, T)) \in Nat
             /\ p[w] \in T => Cardinality(At(p, T)) > 0
             /\ (p[w] \in T /\ x \in T) \/ (p[w] \notin T /\ x \notin T)
                  => Cardinality(At(q, T)) = Cardinality(At(p, T))
             /\ p[w] \notin T /\ x \in T
                  => Cardinality(At(q, T)) = Cardinality(At(p, T)) + 1
             /\ p[w] \in T /\ x \notin T
                  => Cardinality(At(q, T)) = Cardinality(At(p, T)) - 1
<1> DEFINE q == [p EXCEPT ![w] = x]
<1>1. IsFiniteSet(At(p, T))
  BY WorkersFinite, FS_Subset DEF At
<1>2. Cardinality(At(p, T)) \in Nat
  BY <1>1, FS_CardinalityType
<1>3. ASSUME p[w] \in T
      PROVE  Cardinality(At(p, T)) > 0
  <2>1. At(p, T) # {}
    BY <1>3 DEF At
  <2> QED
    BY <2>1, <1>1, <1>2, FS_EmptySet
<1>4. ASSUME (p[w] \in T /\ x \in T) \/ (p[w] \notin T /\ x \notin T)
      PROVE  Cardinality(At(q, T)) = Cardinality(At(p, T))
  <2>1. At(q, T) = At(p, T)
    BY <1>4 DEF At
  <2> QED
    BY <2>1
<1>5. ASSUME p[w] \notin T, x \in T
      PROVE  Cardinality(At(q, T)) = Cardinality(At(p, T)) + 1
  <2>1. At(q, T) = At(p, T) \cup {w} /\ w \notin At(p, T)
    BY <1>5 DEF At
  <2> QED
    BY <2>1, <1>1, FS_AddElement
<1>6. ASSUME p[w] \in T, x \notin T
      PROVE  Cardinality(At(q, T)) = Cardinality(At(p, T)) - 1
  <2>1. At(q, T) = At(p, T) \ {w} /\ w \in At(p, T)
    BY <1>6 DEF At
  <2> QED
    BY <2>1, <1>1, FS_RemoveElement
<1> QED
  BY <1>2, <1>3, <1>4, <1>5, <1>6

\* No worker is at T exactly when their number is zero.
LEMMA CountZero ==
  ASSUME NEW p, NEW T
  PROVE  /\ Cardinality(At(p, T)) \in Nat
         /\ Cardinality(At(p, T)) = 0 <=> \A w \in Workers : p[w] \notin T
<1>1. IsFiniteSet(At(p, T))
  BY WorkersFinite, FS_Subset DEF At
<1>2. Cardinality(At(p, T)) = 0 <=> At(p, T) = {}
  BY <1>1, FS_EmptySet
<1> QED
  BY <1>1, <1>2, FS_CardinalityType DEF At

-----------------------------------------------------------------------------
(* The invariant holds initially *)

LEMMA ListsAreSequences == Lists \subseteq Seq(Outcomes)
  BY PipelineAssumption DEF Lists

LEMMA InitInv == Init => IInv
<1> SUFFICES ASSUME Init PROVE IInv
  OBVIOUS
<1>1. paths \in Seq(Outcomes) /\ Len(paths) \in Nat
  BY ListsAreSequences DEF Init
<1>2. TypeOK
  <2>1. pc \in [Workers -> PCs] /\ path \in [Workers -> 0..Len(paths)]
    BY <1>1 DEF Init, PCs, Holding
  <2>2. all \in Seq(DOMAIN paths)
    BY DEF Init
  <2>3. next \in 1..Len(paths) + 1 /\ screen \in Nat \cup {Blank}
    BY <1>1 DEF Init, Blank
  <2>4. mode \in {"scan", "audit"} /\ tty \in BOOLEAN /\ stop \in BOOLEAN
    BY DEF Init
  <2> QED
    BY <1>1, <2>1, <2>2, <2>3, <2>4 DEF Init, TypeOK, PCs
<1>3. StartInv
  BY <1>1 DEF Init, StartInv, Scanned, Launched
<1>4. \A T : "off" \notin T => Cardinality(At(pc, T)) = 0
  BY CountZero DEF Init
<1>5. ClosingInv /\ CountInv
  BY <1>4 DEF Init, ClosingInv, CountInv, Scanned, Live, Holding
<1>6. HoldInv /\ ReportInv /\ NoLossInv
  BY <1>1 DEF Init, HoldInv, ReportInv, NoLossInv, Holding
<1>7. ShowInv
  BY DEF Init, ShowInv, CleanAfterReturn, Blank
<1> QED
  BY <1>2, <1>3, <1>5, <1>6, <1>7 DEF IInv

-----------------------------------------------------------------------------
(* The steps *)

\* Only the feeder, the workers and the start of a worker touch the state the
\* files travel through.
core == <<paths, mode, feedVars, workVars, all, progress>>

LEMMA CoreStep ==
  ASSUME [Next]_vars
  PROVE  \/ UNCHANGED core
         \/ CloseJobs
         \/ \E w \in Workers : Spawn(w) \/ SendJob(w) \/ WorkerStep(w)
  BY DEF Next, vars, core, MainStep, Begin, Launch, CollectEnd, ReturnDirectly,
     CloseStop, Erase, FeedStep, CloseResults, Tick, ShowCount, TickerStop,
     Returned, feedVars, workVars, showVars

LEMMA HoldStep ==
  ASSUME IInv, [Next]_vars
  PROVE  HoldInv'
<1> USE DEF IInv, Holding, feedVars, workVars
<1>1. CASE UNCHANGED core
  BY <1>1 DEF core, HoldInv
<1>2. CASE CloseJobs
  BY <1>2 DEF CloseJobs, HoldInv
<1>3. ASSUME NEW w \in Workers, Spawn(w)
      PROVE  HoldInv'
  BY <1>3 DEF Spawn, HoldInv, TypeOK
<1>4. ASSUME NEW w \in Workers, SendJob(w)
      PROVE  HoldInv'
  BY <1>4 DEF SendJob, HoldInv, TypeOK
<1>5. ASSUME NEW w \in Workers, SkipTest(w)
      PROVE  HoldInv'
  BY <1>5 DEF SkipTest, HoldInv, TypeOK
<1>6. ASSUME NEW w \in Workers, CheckFile(w)
      PROVE  HoldInv'
  BY <1>6 DEF CheckFile, HoldInv, TypeOK
<1>7. ASSUME NEW w \in Workers, SendBatch(w)
      PROVE  HoldInv'
  BY <1>7 DEF SendBatch, HoldInv, TypeOK
<1>8. ASSUME NEW w \in Workers, CountFile(w)
      PROVE  HoldInv'
  BY <1>8 DEF CountFile, HoldInv, TypeOK
<1>9. ASSUME NEW w \in Workers, WorkerDone(w)
      PROVE  HoldInv'
  BY <1>9 DEF WorkerDone, HoldInv, TypeOK
<1> QED
  BY <1>1, <1>2, <1>3, <1>4, <1>5, <1>6, <1>7, <1>8, <1>9, CoreStep
     DEF WorkerStep

LEMMA ReportStep ==
  ASSUME IInv, [Next]_vars
  PROVE  ReportInv'
<1> USE DEF IInv, Holding, feedVars, workVars
<1>1. CASE UNCHANGED core
  BY <1>1 DEF core, ReportInv
<1>2. CASE CloseJobs
  BY <1>2 DEF CloseJobs, ReportInv
<1>3. ASSUME NEW w \in Workers, Spawn(w)
      PROVE  ReportInv'
  BY <1>3 DEF Spawn, ReportInv, TypeOK
<1>4. ASSUME NEW w \in Workers, SendJob(w)
      PROVE  ReportInv'
  BY <1>4 DEF SendJob, ReportInv, TypeOK
<1>5. ASSUME NEW w \in Workers, SkipTest(w)
      PROVE  ReportInv'
  BY <1>5 DEF SkipTest, ReportInv, TypeOK
<1>6. ASSUME NEW w \in Workers, CheckFile(w)
      PROVE  ReportInv'
  BY <1>6 DEF CheckFile, ReportInv, TypeOK
<1>7. ASSUME NEW w \in Workers, SendBatch(w)
      PROVE  ReportInv'
  BY <1>7 DEF SendBatch, ReportInv, HoldInv, TypeOK
<1>8. ASSUME NEW w \in Workers, CountFile(w)
      PROVE  ReportInv'
  BY <1>8 DEF CountFile, ReportInv, TypeOK
<1>9. ASSUME NEW w \in Workers, WorkerDone(w)
      PROVE  ReportInv'
  BY <1>9 DEF WorkerDone, ReportInv, TypeOK
<1> QED
  BY <1>1, <1>2, <1>3, <1>4, <1>5, <1>6, <1>7, <1>8, <1>9, CoreStep
     DEF WorkerStep

LEMMA NoLossStep ==
  ASSUME IInv, [Next]_vars
  PROVE  NoLossInv'
<1> USE DEF IInv, Holding, feedVars, workVars
<1>1. CASE UNCHANGED core
  BY <1>1 DEF core, NoLossInv
<1>2. CASE CloseJobs
  BY <1>2 DEF CloseJobs, NoLossInv
<1>3. ASSUME NEW w \in Workers, Spawn(w)
      PROVE  NoLossInv'
  BY <1>3 DEF Spawn, NoLossInv, TypeOK
<1>4. ASSUME NEW w \in Workers, SendJob(w)
      PROVE  NoLossInv'
  BY <1>4 DEF SendJob, NoLossInv, TypeOK
<1>5. ASSUME NEW w \in Workers, SkipTest(w)
      PROVE  NoLossInv'
  BY <1>5 DEF SkipTest, NoLossInv, TypeOK
<1>6. ASSUME NEW w \in Workers, CheckFile(w)
      PROVE  NoLossInv'
  BY <1>6 DEF CheckFile, NoLossInv, TypeOK
<1>7. ASSUME NEW w \in Workers, SendBatch(w)
      PROVE  NoLossInv'
  <2>1. all' = Append(all, path[w]) /\ path[w] \in DOMAIN paths
    BY <1>7 DEF SendBatch, HoldInv, TypeOK
  <2>2. /\ \A k \in DOMAIN all : k \in DOMAIN all' /\ all'[k] = all[k]
        /\ Len(all) + 1 \in DOMAIN all' /\ all'[Len(all) + 1] = path[w]
    BY <2>1 DEF TypeOK
  <2>3. \A v \in Workers : pc'[v] = IF v = w THEN "count" ELSE pc[v]
    BY <1>7 DEF SendBatch, TypeOK
  <2> QED
    BY <1>7, <2>2, <2>3 DEF SendBatch, NoLossInv
<1>8. ASSUME NEW w \in Workers, CountFile(w)
      PROVE  NoLossInv'
  BY <1>8 DEF CountFile, NoLossInv, TypeOK
<1>9. ASSUME NEW w \in Workers, WorkerDone(w)
      PROVE  NoLossInv'
  BY <1>9 DEF WorkerDone, NoLossInv, TypeOK
<1> QED
  BY <1>1, <1>2, <1>3, <1>4, <1>5, <1>6, <1>7, <1>8, <1>9, CoreStep
     DEF WorkerStep

\* CountMove, for the step of a worker.
LEMMA MoveWorker ==
  ASSUME TypeOK, NEW T, NEW w \in Workers, NEW x \in PCs,
         pc' = [pc EXCEPT ![w] = x]
  PROVE  /\ (pc[w] \in T <=> x \in T)
              => Cardinality(At(pc, T)') = Cardinality(At(pc, T))
         /\ pc[w] \notin T /\ x \in T
              => Cardinality(At(pc, T)') = Cardinality(At(pc, T)) + 1
         /\ pc[w] \in T /\ x \notin T
              => Cardinality(At(pc, T)') = Cardinality(At(pc, T)) - 1
<1>1. pc \in [Workers -> PCs]
  BY DEF TypeOK, PCs
<1>2. At(pc, T)' = At([pc EXCEPT ![w] = x], T)
  BY DEF At
<1> QED
  BY <1>1, <1>2, CountMove, Zenon

LEMMA CountStep ==
  ASSUME IInv, [Next]_vars
  PROVE  CountInv'
<1> USE DEF IInv, feedVars, workVars
<1>1. CASE UNCHANGED core
  BY <1>1 DEF core, CountInv, At
<1>2. CASE CloseJobs
  BY <1>2 DEF CloseJobs, CountInv, At
<1>11. /\ Cardinality(At(pc, Holding)) \in Nat
       /\ Cardinality(At(pc, Holding)') \in Nat
  BY CountZero
<1>3. CountInv' <=>
        (mode' = "scan" =>
           progress' + Cardinality(At(pc, Holding)') = next' - 1)
  BY DEF CountInv
<1>4. ASSUME NEW w \in Workers, Spawn(w)
      PROVE  CountInv'
  <2>1. "recv" \in PCs
    BY DEF PCs, Holding
  <2>2. "off" \notin Holding /\ "recv" \notin Holding
    BY DEF Holding
  <2>3. pc[w] = "off" /\ pc' = [pc EXCEPT ![w] = "recv"]
    BY <1>4 DEF Spawn
  <2>4. Cardinality(At(pc, Holding)') = Cardinality(At(pc, Holding))
    BY <2>1, <2>2, <2>3, <1>11, MoveWorker
  <2>5. mode' = mode /\ progress' = progress /\ next' = next
    BY <1>4 DEF Spawn
  <2> QED
    BY <1>3, <1>11, <2>4, <2>5 DEF CountInv, TypeOK
<1>5. ASSUME NEW w \in Workers, SendJob(w)
      PROVE  CountInv'
  <2>1. "have" \in PCs
    BY DEF PCs, Holding
  <2>2. "recv" \notin Holding /\ "have" \in Holding
    BY DEF Holding
  <2>3. pc[w] = "recv" /\ pc' = [pc EXCEPT ![w] = "have"]
    BY <1>5 DEF SendJob
  <2>4. Cardinality(At(pc, Holding)') = Cardinality(At(pc, Holding)) + 1
    BY <2>1, <2>2, <2>3, <1>11, MoveWorker
  <2>5. mode' = mode /\ progress' = progress /\ next' = next + 1
    BY <1>5 DEF SendJob
  <2> QED
    BY <1>3, <1>11, <2>4, <2>5 DEF CountInv, TypeOK
<1>6. ASSUME NEW w \in Workers, SkipTest(w)
      PROVE  CountInv'
  <2>1. "recv" \in PCs
    BY DEF PCs, Holding
  <2>2. "have" \in Holding /\ "recv" \notin Holding
    BY DEF Holding
  <2>3. pc[w] = "have" /\ pc' = [pc EXCEPT ![w] = "recv"]
    BY <1>6 DEF SkipTest
  <2>4. Cardinality(At(pc, Holding)') = Cardinality(At(pc, Holding)) - 1
    BY <2>1, <2>2, <2>3, <1>11, MoveWorker
  <2>5. mode' = mode /\ (mode = "scan" => progress' = progress + 1) /\ next' = next
    BY <1>6 DEF SkipTest
  <2> QED
    BY <1>3, <1>11, <2>4, <2>5 DEF CountInv, TypeOK
<1>7. ASSUME NEW w \in Workers, CheckFile(w)
      PROVE  CountInv'
  <2>1. "send" \in PCs /\ "count" \in PCs
    BY DEF PCs, Holding
  <2>2. "have" \in Holding /\ "send" \in Holding /\ "count" \in Holding
    BY DEF Holding
  <2>3. pc[w] = "have" /\ \E x \in {"send", "count"} : pc' = [pc EXCEPT ![w] = x]
    BY <1>7 DEF CheckFile
  <2>4. Cardinality(At(pc, Holding)') = Cardinality(At(pc, Holding))
    BY <2>1, <2>2, <2>3, <1>11, MoveWorker
  <2>5. mode' = mode /\ progress' = progress /\ next' = next
    BY <1>7 DEF CheckFile
  <2> QED
    BY <1>3, <1>11, <2>4, <2>5 DEF CountInv, TypeOK
<1>8. ASSUME NEW w \in Workers, SendBatch(w)
      PROVE  CountInv'
  <2>1. "count" \in PCs
    BY DEF PCs, Holding
  <2>2. "send" \in Holding /\ "count" \in Holding
    BY DEF Holding
  <2>3. pc[w] = "send" /\ pc' = [pc EXCEPT ![w] = "count"]
    BY <1>8 DEF SendBatch
  <2>4. Cardinality(At(pc, Holding)') = Cardinality(At(pc, Holding))
    BY <2>1, <2>2, <2>3, <1>11, MoveWorker
  <2>5. mode' = mode /\ progress' = progress /\ next' = next
    BY <1>8 DEF SendBatch
  <2> QED
    BY <1>3, <1>11, <2>4, <2>5 DEF CountInv, TypeOK
<1>9. ASSUME NEW w \in Workers, CountFile(w)
      PROVE  CountInv'
  <2>1. "recv" \in PCs
    BY DEF PCs, Holding
  <2>2. "count" \in Holding /\ "recv" \notin Holding
    BY DEF Holding
  <2>3. pc[w] = "count" /\ pc' = [pc EXCEPT ![w] = "recv"]
    BY <1>9 DEF CountFile
  <2>4. Cardinality(At(pc, Holding)') = Cardinality(At(pc, Holding)) - 1
    BY <2>1, <2>2, <2>3, <1>11, MoveWorker
  <2>5. mode' = mode /\ (mode = "scan" => progress' = progress + 1) /\ next' = next
    BY <1>9 DEF CountFile
  <2> QED
    BY <1>3, <1>11, <2>4, <2>5 DEF CountInv, TypeOK
<1>10. ASSUME NEW w \in Workers, WorkerDone(w)
       PROVE  CountInv'
  <2>1. "exited" \in PCs
    BY DEF PCs, Holding
  <2>2. "recv" \notin Holding /\ "exited" \notin Holding
    BY DEF Holding
  <2>3. pc[w] = "recv" /\ pc' = [pc EXCEPT ![w] = "exited"]
    BY <1>10 DEF WorkerDone
  <2>4. Cardinality(At(pc, Holding)') = Cardinality(At(pc, Holding))
    BY <2>1, <2>2, <2>3, <1>11, MoveWorker
  <2>5. mode' = mode /\ progress' = progress /\ next' = next
    BY <1>10 DEF WorkerDone
  <2> QED
    BY <1>3, <1>11, <2>4, <2>5 DEF CountInv, TypeOK
<1> QED
  BY <1>1, <1>2, <1>4, <1>5, <1>6, <1>7, <1>8, <1>9, <1>10, CoreStep
     DEF WorkerStep

\* The WaitGroup counts the live workers, so results is closed after the last
\* of them has left.
LEMMA ClosingStep ==
  ASSUME IInv, [Next]_vars
  PROVE  ClosingInv'
<1> USE DEF IInv, feedVars, workVars
<1>1. /\ Cardinality(At(pc, Live)) \in Nat
      /\ Cardinality(At(pc, Live)') \in Nat
      /\ Cardinality(At(pc, Live)) = 0 =>
           \A w \in Workers : pc[w] \in {"off", "exited"}
  <2>1. \A w \in Workers : pc[w] \notin Live => pc[w] \in {"off", "exited"}
    BY DEF TypeOK, Live, Holding
  <2> QED
    BY <2>1, CountZero
<1>2. ClosingInv' <=>
        /\ wg' = Cardinality(At(pc, Live)')
        /\ jobs' = "closed" => next' = Len(paths') + 1
        /\ \A w \in Workers : pc'[w] = "exited" => jobs' = "closed"
        /\ results' = "closed" => \A w \in Workers : pc'[w] = "exited"
        /\ main' \in Scanned /\ paths' # <<>> => results' = "closed"
  BY DEF ClosingInv, Scanned
<1>3. ASSUME UNCHANGED <<paths, next, jobs, pc, wg, results>>,
             main' \in Scanned /\ paths # <<>> => results = "closed"
      PROVE  ClosingInv'
  <2>1. At(pc, Live)' = At(pc, Live)
    BY <1>3 DEF At
  <2> QED
    BY <1>2, <1>3, <2>1 DEF ClosingInv
<1>4. CASE Begin \/ Launch \/ CollectEnd \/ ReturnDirectly \/ CloseStop \/ Erase
  BY <1>3, <1>4 DEF Begin, Launch, CollectEnd, ReturnDirectly, CloseStop, Erase,
     ClosingInv, Scanned
<1>5. CASE Tick \/ ShowCount \/ TickerStop \/ Returned \/ UNCHANGED vars
  BY <1>3, <1>5 DEF Tick, ShowCount, TickerStop, Returned, vars, ClosingInv
<1>6. ASSUME NEW w \in Workers, Spawn(w)
      PROVE  ClosingInv'
  <2>1. "recv" \in PCs
    BY DEF PCs, Holding
  <2>2. "off" \notin Live /\ "recv" \in Live
    BY DEF Live, Holding
  <2>3. pc[w] = "off" /\ pc' = [pc EXCEPT ![w] = "recv"]
    BY <1>6 DEF Spawn
  <2>4. Cardinality(At(pc, Live)') = Cardinality(At(pc, Live)) + 1
    BY <2>1, <2>2, <2>3, MoveWorker
  <2>5. wg' = wg + 1
    BY <1>6 DEF Spawn
  <2>6. wg' = Cardinality(At(pc, Live)')
    BY <1>1, <2>4, <2>5 DEF ClosingInv
  <2> QED
    BY <1>2, <1>6, <2>6 DEF Spawn, ClosingInv, StartInv, Launched, Scanned, TypeOK
<1>7. ASSUME NEW w \in Workers, SendJob(w)
      PROVE  ClosingInv'
  <2>1. "have" \in PCs
    BY DEF PCs, Holding
  <2>2. "recv" \in Live /\ "have" \in Live
    BY DEF Live, Holding
  <2>3. pc[w] = "recv" /\ pc' = [pc EXCEPT ![w] = "have"]
    BY <1>7 DEF SendJob
  <2>4. Cardinality(At(pc, Live)') = Cardinality(At(pc, Live))
    BY <2>1, <2>2, <2>3, MoveWorker
  <2>5. wg' = wg
    BY <1>7 DEF SendJob
  <2>6. wg' = Cardinality(At(pc, Live)')
    BY <1>1, <2>4, <2>5 DEF ClosingInv
  <2> QED
    BY <1>2, <1>7, <2>6 DEF SendJob, ClosingInv, StartInv, Launched, Scanned, TypeOK
<1>8. ASSUME NEW w \in Workers, SkipTest(w)
      PROVE  ClosingInv'
  <2>1. "recv" \in PCs
    BY DEF PCs, Holding
  <2>2. "have" \in Live /\ "recv" \in Live
    BY DEF Live, Holding
  <2>3. pc[w] = "have" /\ pc' = [pc EXCEPT ![w] = "recv"]
    BY <1>8 DEF SkipTest
  <2>4. Cardinality(At(pc, Live)') = Cardinality(At(pc, Live))
    BY <2>1, <2>2, <2>3, MoveWorker
  <2>5. wg' = wg
    BY <1>8 DEF SkipTest
  <2>6. wg' = Cardinality(At(pc, Live)')
    BY <1>1, <2>4, <2>5 DEF ClosingInv
  <2> QED
    BY <1>2, <1>8, <2>6 DEF SkipTest, ClosingInv, StartInv, Launched, Scanned, TypeOK
<1>9. ASSUME NEW w \in Workers, CheckFile(w)
      PROVE  ClosingInv'
  <2>1. "send" \in PCs /\ "count" \in PCs
    BY DEF PCs, Holding
  <2>2. "have" \in Live /\ "send" \in Live /\ "count" \in Live
    BY DEF Live, Holding
  <2>3. pc[w] = "have" /\ \E x \in {"send", "count"} : pc' = [pc EXCEPT ![w] = x]
    BY <1>9 DEF CheckFile
  <2>4. Cardinality(At(pc, Live)') = Cardinality(At(pc, Live))
    BY <2>1, <2>2, <2>3, MoveWorker
  <2>5. wg' = wg
    BY <1>9 DEF CheckFile
  <2>6. wg' = Cardinality(At(pc, Live)')
    BY <1>1, <2>4, <2>5 DEF ClosingInv
  <2> QED
    BY <1>2, <1>9, <2>6 DEF CheckFile, ClosingInv, StartInv, Launched, Scanned, TypeOK
<1>10. ASSUME NEW w \in Workers, SendBatch(w)
       PROVE  ClosingInv'
  <2>1. "count" \in PCs
    BY DEF PCs, Holding
  <2>2. "send" \in Live /\ "count" \in Live
    BY DEF Live, Holding
  <2>3. pc[w] = "send" /\ pc' = [pc EXCEPT ![w] = "count"]
    BY <1>10 DEF SendBatch
  <2>4. Cardinality(At(pc, Live)') = Cardinality(At(pc, Live))
    BY <2>1, <2>2, <2>3, MoveWorker
  <2>5. wg' = wg
    BY <1>10 DEF SendBatch
  <2>6. wg' = Cardinality(At(pc, Live)')
    BY <1>1, <2>4, <2>5 DEF ClosingInv
  <2> QED
    BY <1>2, <1>10, <2>6 DEF SendBatch, ClosingInv, StartInv, Launched, Scanned, TypeOK
<1>11. ASSUME NEW w \in Workers, CountFile(w)
       PROVE  ClosingInv'
  <2>1. "recv" \in PCs
    BY DEF PCs, Holding
  <2>2. "count" \in Live /\ "recv" \in Live
    BY DEF Live, Holding
  <2>3. pc[w] = "count" /\ pc' = [pc EXCEPT ![w] = "recv"]
    BY <1>11 DEF CountFile
  <2>4. Cardinality(At(pc, Live)') = Cardinality(At(pc, Live))
    BY <2>1, <2>2, <2>3, MoveWorker
  <2>5. wg' = wg
    BY <1>11 DEF CountFile
  <2>6. wg' = Cardinality(At(pc, Live)')
    BY <1>1, <2>4, <2>5 DEF ClosingInv
  <2> QED
    BY <1>2, <1>11, <2>6 DEF CountFile, ClosingInv, StartInv, Launched, Scanned, TypeOK
<1>12. ASSUME NEW w \in Workers, WorkerDone(w)
       PROVE  ClosingInv'
  <2>1. "exited" \in PCs
    BY DEF PCs, Holding
  <2>2. "recv" \in Live /\ "exited" \notin Live
    BY DEF Live, Holding
  <2>3. pc[w] = "recv" /\ pc' = [pc EXCEPT ![w] = "exited"]
    BY <1>12 DEF WorkerDone
  <2>4. Cardinality(At(pc, Live)') = Cardinality(At(pc, Live)) - 1
    BY <2>1, <2>2, <2>3, MoveWorker
  <2>5. wg' = wg - 1
    BY <1>12 DEF WorkerDone
  <2>6. wg' = Cardinality(At(pc, Live)')
    BY <1>1, <2>4, <2>5 DEF ClosingInv
  <2> QED
    BY <1>2, <1>12, <2>6 DEF WorkerDone, ClosingInv, StartInv, Launched, Scanned, TypeOK
<1>13. CASE CloseJobs
  <2>1. At(pc, Live)' = At(pc, Live)
    BY <1>13 DEF CloseJobs, At
  <2> QED
    BY <1>2, <1>13, <2>1 DEF CloseJobs, ClosingInv, TypeOK
<1>14. CASE CloseResults
  <2>1. At(pc, Live)' = At(pc, Live)
    BY <1>14 DEF CloseResults, At
  <2>2. \A w \in Workers : pc[w] = "exited"
    BY <1>1, <1>14 DEF CloseResults, ClosingInv, StartInv
  <2> QED
    BY <1>2, <1>14, <2>1, <2>2 DEF CloseResults, ClosingInv
<1> QED
  BY <1>4, <1>5, <1>6, <1>7, <1>8, <1>9, <1>10, <1>11, <1>12, <1>13, <1>14
     DEF Next, MainStep, FeedStep, WorkerStep

LEMMA StartStep ==
  ASSUME IInv, [Next]_vars
  PROVE  StartInv'
<1> USE DEF IInv, feedVars, workVars, showVars
<1>1. CASE Begin
  BY <1>1 DEF Begin, StartInv, Scanned, Launched, HoldInv, ClosingInv, TypeOK
<1>2. CASE Launch
  BY <1>2 DEF Launch, StartInv, Scanned, Launched, HoldInv, ClosingInv, TypeOK
<1>3. CASE CollectEnd
  BY <1>3 DEF CollectEnd, StartInv, Scanned, Launched, HoldInv, ClosingInv, TypeOK
<1>4. CASE ReturnDirectly
  BY <1>4 DEF ReturnDirectly, StartInv, Scanned, Launched, HoldInv, ClosingInv, TypeOK
<1>5. CASE CloseStop
  BY <1>5 DEF CloseStop, StartInv, Scanned, Launched, HoldInv, ClosingInv, TypeOK
<1>6. CASE Erase
  BY <1>6 DEF Erase, StartInv, Scanned, Launched, HoldInv, ClosingInv, TypeOK
<1>7. ASSUME NEW w \in Workers, Spawn(w)
      PROVE  StartInv'
  BY <1>7 DEF Spawn, StartInv, Scanned, Launched, HoldInv, ClosingInv, TypeOK
<1>8. ASSUME NEW w \in Workers, SendJob(w)
      PROVE  StartInv'
  BY <1>8 DEF SendJob, StartInv, Scanned, Launched, HoldInv, ClosingInv, TypeOK
<1>9. CASE CloseJobs
  BY <1>9 DEF CloseJobs, StartInv, Scanned, Launched, HoldInv, ClosingInv, TypeOK
<1>10. CASE CloseResults
  BY <1>10 DEF CloseResults, StartInv, Scanned, Launched, HoldInv, ClosingInv, TypeOK
<1>11. ASSUME NEW w \in Workers, SkipTest(w)
       PROVE  StartInv'
  BY <1>11 DEF SkipTest, StartInv, Scanned, Launched, HoldInv, ClosingInv, TypeOK
<1>12. ASSUME NEW w \in Workers, CheckFile(w)
       PROVE  StartInv'
  BY <1>12 DEF CheckFile, StartInv, Scanned, Launched, HoldInv, ClosingInv, TypeOK
<1>13. ASSUME NEW w \in Workers, SendBatch(w)
       PROVE  StartInv'
  BY <1>13 DEF SendBatch, StartInv, Scanned, Launched, HoldInv, ClosingInv, TypeOK
<1>14. ASSUME NEW w \in Workers, CountFile(w)
       PROVE  StartInv'
  BY <1>14 DEF CountFile, StartInv, Scanned, Launched, HoldInv, ClosingInv, TypeOK
<1>15. ASSUME NEW w \in Workers, WorkerDone(w)
       PROVE  StartInv'
  BY <1>15 DEF WorkerDone, StartInv, Scanned, Launched, HoldInv, ClosingInv, TypeOK
<1>16. CASE Tick
  BY <1>16 DEF Tick, StartInv, Scanned, Launched, HoldInv, ClosingInv, TypeOK
<1>17. CASE ShowCount
  BY <1>17 DEF ShowCount, StartInv, Scanned, Launched, HoldInv, ClosingInv, TypeOK
<1>18. CASE TickerStop
  BY <1>18 DEF TickerStop, StartInv, Scanned, Launched, HoldInv, ClosingInv, TypeOK
<1>19. CASE UNCHANGED vars
  BY <1>19 DEF vars, StartInv, Scanned, Launched, HoldInv, ClosingInv, TypeOK
<1> QED
  BY <1>1, <1>2, <1>3, <1>4, <1>5, <1>6, <1>7, <1>8, <1>9, <1>10, <1>11,
     <1>12, <1>13, <1>14, <1>15, <1>16, <1>17, <1>18, <1>19
     DEF Next, MainStep, FeedStep, WorkerStep, Returned

LEMMA ShowStep ==
  ASSUME IInv, [Next]_vars
  PROVE  ShowInv'
<1> USE DEF IInv, feedVars, workVars, showVars
<1>1. CASE Begin
  BY <1>1 DEF Begin, ShowInv, ShowProgress, CleanAfterReturn, Blank, TypeOK
<1>2. CASE Launch
  BY <1>2 DEF Launch, ShowInv, ShowProgress, CleanAfterReturn, Blank, TypeOK
<1>3. CASE CollectEnd
  BY <1>3 DEF CollectEnd, ShowInv, ShowProgress, CleanAfterReturn, Blank, TypeOK
<1>4. CASE ReturnDirectly
  BY <1>4 DEF ReturnDirectly, ShowInv, ShowProgress, CleanAfterReturn, Blank, TypeOK
<1>5. CASE CloseStop
  BY <1>5 DEF CloseStop, ShowInv, ShowProgress, CleanAfterReturn, Blank, TypeOK
<1>6. CASE Erase
  BY <1>6 DEF Erase, ShowInv, ShowProgress, CleanAfterReturn, Blank, TypeOK
<1>7. ASSUME NEW w \in Workers, Spawn(w)
      PROVE  ShowInv'
  BY <1>7 DEF Spawn, ShowInv, ShowProgress, CleanAfterReturn, Blank, TypeOK
<1>8. ASSUME NEW w \in Workers, SendJob(w)
      PROVE  ShowInv'
  BY <1>8 DEF SendJob, ShowInv, ShowProgress, CleanAfterReturn, Blank, TypeOK
<1>9. CASE CloseJobs
  BY <1>9 DEF CloseJobs, ShowInv, ShowProgress, CleanAfterReturn, Blank, TypeOK
<1>10. CASE CloseResults
  BY <1>10 DEF CloseResults, ShowInv, ShowProgress, CleanAfterReturn, Blank, TypeOK
<1>11. ASSUME NEW w \in Workers, SkipTest(w)
       PROVE  ShowInv'
  BY <1>11 DEF SkipTest, ShowInv, ShowProgress, CleanAfterReturn, Blank, TypeOK
<1>12. ASSUME NEW w \in Workers, CheckFile(w)
       PROVE  ShowInv'
  BY <1>12 DEF CheckFile, ShowInv, ShowProgress, CleanAfterReturn, Blank, TypeOK
<1>13. ASSUME NEW w \in Workers, SendBatch(w)
       PROVE  ShowInv'
  BY <1>13 DEF SendBatch, ShowInv, ShowProgress, CleanAfterReturn, Blank, TypeOK
<1>14. ASSUME NEW w \in Workers, CountFile(w)
       PROVE  ShowInv'
  BY <1>14 DEF CountFile, ShowInv, ShowProgress, CleanAfterReturn, Blank, TypeOK
<1>15. ASSUME NEW w \in Workers, WorkerDone(w)
       PROVE  ShowInv'
  BY <1>15 DEF WorkerDone, ShowInv, ShowProgress, CleanAfterReturn, Blank, TypeOK
<1>16. CASE Tick
  BY <1>16 DEF Tick, ShowInv, ShowProgress, CleanAfterReturn, Blank, TypeOK
<1>17. CASE ShowCount
  BY <1>17 DEF ShowCount, ShowInv, ShowProgress, CleanAfterReturn, Blank, TypeOK
<1>18. CASE TickerStop
  BY <1>18 DEF TickerStop, ShowInv, ShowProgress, CleanAfterReturn, Blank, TypeOK
<1>19. CASE UNCHANGED vars
  BY <1>19 DEF vars, ShowInv, ShowProgress, CleanAfterReturn, Blank, TypeOK
<1> QED
  BY <1>1, <1>2, <1>3, <1>4, <1>5, <1>6, <1>7, <1>8, <1>9, <1>10, <1>11,
     <1>12, <1>13, <1>14, <1>15, <1>16, <1>17, <1>18, <1>19
     DEF Next, MainStep, FeedStep, WorkerStep, Returned

\* wg stays a natural number because it is a cardinality; a worker only
\* reports a file of the list because it holds one.
LEMMA TypeStep ==
  ASSUME IInv, [Next]_vars
  PROVE  TypeOK'
<1> USE DEF IInv, feedVars, workVars, showVars, Holding, Scanned, Blank, TypeOK
<1>0. wg' \in Nat
  BY ClosingStep, CountZero DEF ClosingInv
<1>1. CASE Begin
  BY <1>0, <1>1 DEF Begin
<1>2. CASE Launch
  BY <1>0, <1>2 DEF Launch
<1>3. CASE CollectEnd
  BY <1>0, <1>3 DEF CollectEnd
<1>4. CASE ReturnDirectly
  BY <1>0, <1>4 DEF ReturnDirectly
<1>5. CASE CloseStop
  BY <1>0, <1>5 DEF CloseStop
<1>6. CASE Erase
  BY <1>0, <1>6 DEF Erase
<1>7. ASSUME NEW w \in Workers, Spawn(w)
      PROVE  TypeOK'
  BY <1>0, <1>7 DEF Spawn
<1>8. ASSUME NEW w \in Workers, SendJob(w)
      PROVE  TypeOK'
  BY <1>0, <1>8 DEF SendJob
<1>9. CASE CloseJobs
  BY <1>0, <1>9 DEF CloseJobs
<1>10. CASE CloseResults
  BY <1>0, <1>10 DEF CloseResults
<1>11. ASSUME NEW w \in Workers, SkipTest(w)
       PROVE  TypeOK'
  BY <1>0, <1>11 DEF SkipTest
<1>12. ASSUME NEW w \in Workers, CheckFile(w)
       PROVE  TypeOK'
  BY <1>0, <1>12 DEF CheckFile
<1>13. ASSUME NEW w \in Workers, SendBatch(w)
       PROVE  TypeOK'
  BY <1>0, <1>13 DEF SendBatch, HoldInv
<1>14. ASSUME NEW w \in Workers, CountFile(w)
       PROVE  TypeOK'
  BY <1>0, <1>14 DEF CountFile
<1>15. ASSUME NEW w \in Workers, WorkerDone(w)
       PROVE  TypeOK'
  BY <1>0, <1>15 DEF WorkerDone
<1>16. CASE Tick
  BY <1>0, <1>16 DEF Tick
<1>17. CASE ShowCount
  BY <1>0, <1>17 DEF ShowCount
<1>18. CASE TickerStop
  BY <1>0, <1>18 DEF TickerStop
<1>19. CASE UNCHANGED vars
  BY <1>19 DEF vars
<1> QED
  BY <1>1, <1>2, <1>3, <1>4, <1>5, <1>6, <1>7, <1>8, <1>9, <1>10, <1>11,
     <1>12, <1>13, <1>14, <1>15, <1>16, <1>17, <1>18, <1>19
     DEF Next, MainStep, FeedStep, WorkerStep, Returned

-----------------------------------------------------------------------------
(* The theorems *)

THEOREM Invariance == Spec => []IInv
<1>1. IInv /\ [Next]_vars => IInv'
  BY TypeStep, StartStep, ClosingStep, HoldStep, ReportStep, NoLossStep,
     CountStep, ShowStep DEF IInv
<1> QED
  BY InitInv, <1>1, PTL DEF Spec

\* Every variable keeps its type, for every list and every -workers value.
THEOREM TypeCorrect == Spec => []TypeOK
<1>1. IInv => TypeOK
  BY DEF IInv
<1> QED
  BY Invariance, <1>1, PTL

\* main gets the batch of every file with issues, and gets it once.
THEOREM BatchesOnce == Spec => []EveryBatchOnce
<1>1. IInv => EveryBatchOnce
  <2> SUFFICES ASSUME IInv PROVE EveryBatchOnce
    OBVIOUS
  <2>1. \A k \in DOMAIN all : all[k] \in DOMAIN paths
    BY DEF IInv, TypeOK
  <2>2. ASSUME main \in Scanned, NEW f \in DOMAIN paths, paths[f] = "issues"
        PROVE  \E k \in DOMAIN all : all[k] = f
    <3>1. \A w \in Workers : pc[w] = "exited"
      BY <2>2 DEF IInv, ClosingInv
    <3>2. next = Len(paths) + 1
      BY <3>1, WorkersFinite DEF IInv, ClosingInv
    <3>3. f \in 1..next - 1
      BY <2>2, <3>2 DEF IInv, TypeOK
    <3> QED
      BY <2>2, <3>1, <3>3 DEF IInv, NoLossInv
  <2> QED
    BY <2>1, <2>2 DEF IInv, ReportInv, EveryBatchOnce
<1> QED
  BY Invariance, <1>1, PTL

\* No worker can send on results after the closer has closed it.
THEOREM NoSendAfterClose == Spec => []ClosedAfterLastSend
<1>1. IInv => ClosedAfterLastSend
  BY DEF IInv, ClosingInv, ClosedAfterLastSend
<1> QED
  BY Invariance, <1>1, PTL

\* When the scan is over the counter equals the number of files.
THEOREM ProgressCounts == Spec => []ProgressExact
<1>1. IInv => ProgressExact
  <2> SUFFICES ASSUME IInv, mode = "scan"
               PROVE  /\ progress <= Len(paths)
                      /\ main \in Scanned => progress = Len(paths)
    BY DEF ProgressExact
  <2>1. /\ Cardinality(At(pc, Holding)) \in Nat
        /\ Cardinality(At(pc, Holding)) = 0 <=>
             \A w \in Workers : pc[w] \notin Holding
    BY CountZero
  <2>2. progress + Cardinality(At(pc, Holding)) = next - 1
    BY DEF IInv, CountInv
  <2>3. progress \in Nat /\ next \in 1..Len(paths) + 1 /\ Len(paths) \in Nat
    BY DEF IInv, TypeOK
  <2>4. ASSUME main \in Scanned, paths # <<>>
        PROVE  progress = Len(paths)
    <3>1. \A w \in Workers : pc[w] = "exited"
      BY <2>4 DEF IInv, ClosingInv
    <3>2. next = Len(paths) + 1
      BY <3>1, WorkersFinite DEF IInv, ClosingInv
    <3>3. Cardinality(At(pc, Holding)) = 0
      BY <2>1, <3>1 DEF Holding
    <3> QED
      BY <2>2, <2>3, <3>2, <3>3
  <2>5. paths = <<>> => progress = 0 /\ Len(paths) = 0
    BY DEF IInv, StartInv
  <2> QED
    BY <2>1, <2>2, <2>3, <2>4, <2>5
<1> QED
  BY Invariance, <1>1, PTL

\* The progress line is gone, for good, when the scan returns.
THEOREM LineErased == Spec => []CleanAfterReturn
<1>1. IInv => CleanAfterReturn
  BY DEF IInv, ShowInv
<1> QED
  BY Invariance, <1>1, PTL

\* Every goroutine of the scan has ended when main goes on.
THEOREM NothingLeaks == Spec => []NothingLeftRunning
<1>1. IInv => NothingLeftRunning
  BY WorkersFinite DEF IInv, ClosingInv, NothingLeftRunning
<1> QED
  BY Invariance, <1>1, PTL

\* The displayed count only grows until the line is erased.
THEOREM ShownGrows == Spec => ShownNeverGoesBack
<1>1. IInv /\ [Next]_vars => [screen' # Blank => screen' >= screen]_vars
  <2> SUFFICES ASSUME IInv, Next
               PROVE  screen' = screen \/ screen' = Blank \/ screen' >= screen
    BY DEF IInv, TypeOK, Blank
  <2>1. CASE ShowCount
    BY <2>1 DEF ShowCount, IInv, ShowInv, TypeOK
  <2>2. CASE Erase
    BY <2>2 DEF Erase
  <2>3. CASE ~ShowCount /\ ~Erase
    BY <2>3 DEF Next, MainStep, FeedStep, WorkerStep, Begin, Launch, CollectEnd,
       ReturnDirectly, CloseStop, Spawn, SendJob, CloseJobs, CloseResults,
       SkipTest, CheckFile, SendBatch, CountFile, WorkerDone, Tick, TickerStop,
       Returned, vars, feedVars, workVars, showVars
  <2> QED
    BY <2>1, <2>2, <2>3
<1> QED
  BY Invariance, <1>1, PTL DEF Spec, ShownNeverGoesBack

-----------------------------------------------------------------------------
(* The order of the batches *)

\* Holders(k) work on the files that the k-th batch, once appended by w,
\* would overtake: distinct workers, none of them w.
LEMMA HoldersBound ==
  ASSUME IInv, NEW w \in Workers, pc[w] = "send", NEW S,
         \A f \in S : /\ f \in 1..next - 1 /\ f # path[w]
                      /\ paths[f] = "issues"
                      /\ \A j \in DOMAIN all : all[j] # f
  PROVE  IsFiniteSet(S) /\ Cardinality(S) < NumW
<1> DEFINE H == {v \in Workers \ {w} : pc[v] \in {"have", "send"} /\ path[v] \in S}
           held == [v \in H |-> path[v]]
<1>1. IsFiniteSet(Workers) /\ Cardinality(Workers) = NumW /\ NumW \in Nat \ {0}
  <2>1. Cardinality(1..NumW) = IF 1 > NumW THEN 0 ELSE NumW - 1 + 1
    BY WorkersFinite, FS_Interval
  <2> QED
    BY <2>1, WorkersFinite DEF Workers
<1>2. IsFiniteSet(Workers \ {w}) /\ Cardinality(Workers \ {w}) = NumW - 1
  BY <1>1, FS_RemoveElement
<1>3. IsFiniteSet(H) /\ Cardinality(H) <= NumW - 1
  BY <1>2, FS_Subset
<1>4. \A f \in S : \E v \in H : path[v] = f
  BY DEF IInv, NoLossInv
<1>5. held \in Surjection(H, S)
  BY <1>4 DEF Surjection
<1>6. IsFiniteSet(S) /\ Cardinality(S) <= Cardinality(H)
  BY <1>3, <1>5, FS_Surjection
<1> QED
  BY <1>1, <1>3, <1>6, FS_CardinalityType

\* The bound by the number of workers.
FewOvertaken == \A k \in DOMAIN all : Cardinality(Overtaken(k)) < NumW

\* A batch appended keeps the batches before it as they are.
LEMMA OvertakingStep ==
  ASSUME IInv, FewOvertaken, [Next]_vars
  PROVE  FewOvertaken'
<1>1. ASSUME NEW w \in Workers, SendBatch(w)
      PROVE  FewOvertaken'
  <2>1. /\ all \in Seq(DOMAIN paths) /\ path[w] \in DOMAIN paths
        /\ path[w] \in 1..next - 1 /\ next \in Int
        /\ paths \in Seq(Outcomes)
    BY <1>1 DEF SendBatch, IInv, TypeOK, HoldInv, Holding
  <2>2. /\ all' = Append(all, path[w]) /\ paths' = paths
        /\ DOMAIN all' = 1..Len(all) + 1 /\ DOMAIN all = 1..Len(all)
        /\ Len(all) \in Nat
        /\ all'[Len(all) + 1] = path[w]
        /\ \A k \in DOMAIN all : all'[k] = all[k]
    BY <1>1, <2>1 DEF SendBatch
  <2>3. ASSUME NEW k \in DOMAIN all
        PROVE  Cardinality(Overtaken(k)') < NumW
    <3>1. Overtaken(k)' = Overtaken(k)
      <4>1. \A j \in 1..k - 1 : j \in DOMAIN all
        BY <2>2, <2>3
      <4> QED
        BY <2>2, <2>3, <4>1 DEF Overtaken
    <3> QED
      BY <3>1 DEF FewOvertaken
  <2>4. ASSUME NEW k, k = Len(all) + 1
        PROVE  Cardinality(Overtaken(k)') < NumW
    <3> DEFINE S == Overtaken(k)'
    <3>1. \A f \in S :
            /\ f \in 1..next - 1 /\ f # path[w]
            /\ paths[f] = "issues"
            /\ \A j \in DOMAIN all : all[j] # f
      <4>1. all'[k] = path[w]
        BY <2>2, <2>4
      <4>2. \A j \in DOMAIN all : j \in 1..k - 1 /\ all'[j] = all[j]
        BY <2>2, <2>4
      <4> QED
        BY <2>1, <2>2, <4>1, <4>2 DEF Overtaken
    <3>2. pc[w] = "send"
      BY <1>1 DEF SendBatch
    <3> HIDE DEF S
    <3>3. Cardinality(S) < NumW
      BY <3>1, <3>2, HoldersBound
    <3> QED
      BY <3>3 DEF S
  <2>5. \A k \in DOMAIN all' : k \in DOMAIN all \/ k = Len(all) + 1
    BY <2>2
  <2> QED
    BY <2>3, <2>4, <2>5 DEF FewOvertaken
<1>2. ASSUME UNCHANGED <<all, paths>>
      PROVE  FewOvertaken'
  BY <1>2 DEF FewOvertaken, Overtaken
<1>3. ASSUME Next, \A w \in Workers : ~SendBatch(w)
      PROVE  UNCHANGED <<all, paths>>
  BY <1>3 DEF Next, MainStep, FeedStep, WorkerStep, Begin, Launch, CollectEnd,
     ReturnDirectly, CloseStop, Erase, Spawn, SendJob, CloseJobs, CloseResults,
     SkipTest, CheckFile, CountFile, WorkerDone, Tick, ShowCount, TickerStop,
     Returned, vars, feedVars, workVars, showVars
<1>4. UNCHANGED vars => UNCHANGED <<all, paths>>
  BY DEF vars
<1> QED
  BY <1>1, <1>2, <1>3, <1>4

\* A batch overtakes at most one batch per other worker, of which there are never
\* more than the limit or the flag allows; a single worker delivers them in the
\* order of the list (main.go's clamp of -workers, scanFiles).
THEOREM OrderBounded == Spec => []BoundedOvertaking
<1>1. Init => FewOvertaken
  BY DEF Init, FewOvertaken
<1>2. ASSUME IInv, FewOvertaken
      PROVE  BoundedOvertaking
  <2>1. SUFFICES ASSUME NEW k \in DOMAIN all
                 PROVE  LET late == Cardinality(Overtaken(k))
                        IN  late < MaxWorkers /\ (late < 1 \/ late < WorkersFlag)
    BY DEF BoundedOvertaking
  <2>2. Cardinality(Overtaken(k)) \in Nat
    <3>1. IsFiniteSet(1..Len(paths)) /\ DOMAIN paths = 1..Len(paths)
      <4>1. paths \in Seq(Outcomes)
        BY <1>2 DEF IInv, TypeOK
      <4>2. Len(paths) \in Nat /\ DOMAIN paths = 1..Len(paths)
        BY <4>1
      <4> QED
        BY <4>2, FS_Interval
    <3>2. Overtaken(k) \subseteq DOMAIN paths
      BY DEF Overtaken
    <3> QED
      BY <3>1, <3>2, FS_Subset, FS_CardinalityType
  <2>3. Cardinality(Overtaken(k)) < NumW
    BY <1>2 DEF FewOvertaken
  <2>4. NumW \in Nat /\ NumW <= MaxWorkers /\ (NumW = 1 \/ NumW <= WorkersFlag)
        /\ MaxWorkers \in Nat /\ WorkersFlag \in Int
    BY PipelineAssumption DEF NumW
  <2> QED
    BY <2>2, <2>3, <2>4
<1> QED
  BY Invariance, <1>1, <1>2, OvertakingStep, PTL DEF Spec

-----------------------------------------------------------------------------
(* The pipeline implements the abstract scan (its safety part) *)

\* What the abstract step sees of a step that settles no file.
LEMMA SameUnsettled ==
  ASSUME UNCHANGED <<paths, next, pc, path>>
  PROVE  Unsettled' = Unsettled
  BY DEF Unsettled

\* The settled file leaves Unsettled and no other file does: a worker holds
\* only what was sent, and no two workers hold the same file.
LEMMA SettleOne ==
  ASSUME IInv, NEW w \in Workers, pc[w] \in {"have", "send"},
         UNCHANGED <<paths, next, path>>,
         NEW x \in {"recv", "count"}, pc' = [pc EXCEPT ![w] = x]
  PROVE  /\ path[w] \in Unsettled
         /\ path[w] \in DOMAIN paths
         /\ Unsettled' = Unsettled \ {path[w]}
<1>1. /\ path[w] \in 1..next - 1
      /\ next \in 1..Len(paths) + 1
      /\ Len(paths) \in Nat /\ DOMAIN paths = 1..Len(paths)
  BY DEF IInv, TypeOK, HoldInv, Holding
<1>2. \A v \in Workers : v # w /\ pc[v] \in {"have", "send"} => path[v] # path[w]
  BY DEF IInv, HoldInv, Holding
<1>3. \A v \in Workers : pc'[v] \in {"have", "send"} <=>
                           v # w /\ pc[v] \in {"have", "send"}
  BY DEF IInv, TypeOK
<1> QED
  BY <1>1, <1>2, <1>3 DEF Unsettled

LEMMA PromiseInit == Init => Promise!Init
<1> SUFFICES ASSUME Init PROVE Promise!Init
  OBVIOUS
<1>1. paths \in Promise!Lists
  BY DEF Init, Lists, Promise!Lists
<1>2. Unsettled = DOMAIN paths
  <2>1. \A f \in DOMAIN paths : f >= 1
    BY ListsAreSequences DEF Init
  <2> QED
    BY <2>1 DEF Init, Unsettled
<1> QED
  BY <1>1, <1>2 DEF Init, Promise!Init

LEMMA PromiseStep ==
  ASSUME IInv, [Next]_vars
  PROVE  [Promise!Next]_(Promise!vars)
<1> USE DEF feedVars, workVars, showVars
<1>1. ASSUME UNCHANGED <<paths, all>>, Unsettled' = Unsettled,
             (main' = "returned") = (main = "returned")
      PROVE  UNCHANGED Promise!vars
  BY <1>1 DEF Promise!vars
<1>2. ASSUME NEW w \in Workers, SendJob(w)
      PROVE  UNCHANGED Promise!vars
  <2>1. next \in 1..Len(paths) /\ DOMAIN paths = 1..Len(paths) /\ Len(paths) \in Nat
    BY <1>2 DEF SendJob, IInv, TypeOK
  <2>2. \A v \in Workers : /\ pc'[v] = IF v = w THEN "have" ELSE pc[v]
                           /\ path'[v] = IF v = w THEN next ELSE path[v]
    BY <1>2 DEF SendJob, IInv, TypeOK
  <2>3. Unsettled' = Unsettled
    <3>1. ASSUME NEW f
          PROVE  f \in Unsettled' <=>
                   \/ f \in 1..Len(paths) /\ f >= next + 1
                   \/ f = next
                   \/ \E v \in Workers : v # w /\ pc[v] \in {"have", "send"} /\ path[v] = f
      BY <1>2, <2>1, <2>2 DEF Unsettled, SendJob
    <3>2. ASSUME NEW f
          PROVE  f \in Unsettled <=>
                   \/ f \in 1..Len(paths) /\ f >= next
                   \/ \E v \in Workers : v # w /\ pc[v] \in {"have", "send"} /\ path[v] = f
      <4>1. pc[w] = "recv"
        BY <1>2 DEF SendJob
      <4> QED
        BY <2>1, <4>1 DEF Unsettled
    <3>3. \A f : f \in 1..Len(paths) /\ f >= next <=>
                  (f \in 1..Len(paths) /\ f >= next + 1) \/ f = next
      BY <2>1
    <3>4. \A f : f \in Unsettled' <=> f \in Unsettled
      BY <3>1, <3>2, <3>3
    <3> QED
      BY <3>4
  <2> QED
    BY <1>1, <1>2, <2>3 DEF SendJob
<1>3. ASSUME NEW w \in Workers, SkipTest(w)
      PROVE  Promise!Next
  <2>1. /\ path[w] \in Unsettled
        /\ path[w] \in DOMAIN paths
        /\ Unsettled' = Unsettled \ {path[w]}
    BY <1>3, SettleOne DEF SkipTest
  <2>2. Promise!Discard(path[w])
    BY <1>3, <2>1 DEF SkipTest, Promise!Discard
  <2> QED
    BY <2>1, <2>2 DEF Promise!Next, Promise!Settle
<1>4. ASSUME NEW w \in Workers, CheckFile(w), paths[path[w]] = "issues"
      PROVE  UNCHANGED Promise!vars
  <2>1. \A v \in Workers : /\ pc'[v] \in {"have", "send"} <=> pc[v] \in {"have", "send"}
                           /\ path'[v] = path[v]
    BY <1>4 DEF CheckFile, IInv, TypeOK
  <2>2. Unsettled' = Unsettled
    BY <1>4, <2>1 DEF Unsettled, CheckFile
  <2> QED
    BY <1>1, <1>4, <2>2 DEF CheckFile
<1>5. ASSUME NEW w \in Workers, CheckFile(w), paths[path[w]] # "issues"
      PROVE  Promise!Next
  <2>1. /\ path[w] \in Unsettled
        /\ path[w] \in DOMAIN paths
        /\ Unsettled' = Unsettled \ {path[w]}
    BY <1>5, SettleOne DEF CheckFile
  <2>2. Promise!Discard(path[w])
    BY <1>5, <2>1 DEF CheckFile, Promise!Discard
  <2> QED
    BY <2>1, <2>2 DEF Promise!Next, Promise!Settle
<1>6. ASSUME NEW w \in Workers, SendBatch(w)
      PROVE  Promise!Next
  <2>1. /\ path[w] \in Unsettled
        /\ path[w] \in DOMAIN paths
        /\ Unsettled' = Unsettled \ {path[w]}
    BY <1>6, SettleOne DEF SendBatch
  <2>2. paths[path[w]] = "issues"
    BY <1>6 DEF SendBatch, IInv, HoldInv
  <2>3. Promise!Report(path[w])
    BY <1>6, <2>1, <2>2 DEF SendBatch, Promise!Report
  <2> QED
    BY <2>1, <2>3 DEF Promise!Next, Promise!Settle
<1>7. ASSUME NEW w \in Workers, Spawn(w) \/ CountFile(w) \/ WorkerDone(w)
      PROVE  UNCHANGED Promise!vars
  <2>1. \A v \in Workers : /\ pc'[v] \in {"have", "send"} <=> pc[v] \in {"have", "send"}
                           /\ path'[v] = path[v]
    BY <1>7 DEF Spawn, CountFile, WorkerDone, IInv, TypeOK
  <2>2. Unsettled' = Unsettled
    BY <1>7, <2>1 DEF Unsettled, Spawn, CountFile, WorkerDone
  <2> QED
    BY <1>1, <1>7, <2>2 DEF Spawn, CountFile, WorkerDone
<1>8. CASE ReturnDirectly \/ Erase
  <2>1. Unsettled = {}
    <3>1. main \in Scanned
      BY <1>8 DEF ReturnDirectly, Erase, Scanned
    <3>2. CASE paths = <<>>
      BY <3>2 DEF IInv, StartInv, Unsettled
    <3>3. CASE paths # <<>>
      <4>1. \A w \in Workers : pc[w] = "exited"
        BY <3>1, <3>3 DEF IInv, ClosingInv
      <4>2. next = Len(paths) + 1
        BY <4>1, WorkersFinite DEF IInv, ClosingInv
      <4> QED
        BY <4>1, <4>2 DEF Unsettled, IInv, TypeOK
    <3> QED
      BY <3>2, <3>3
  <2>2. Unsettled' = Unsettled
    BY <1>8, SameUnsettled DEF ReturnDirectly, Erase
  <2>3. Promise!Return
    BY <1>8, <2>1, <2>2 DEF ReturnDirectly, Erase, Promise!Return
  <2> QED
    BY <2>3 DEF Promise!Next
<1>9. CASE Begin \/ Launch \/ CollectEnd \/ CloseStop \/ CloseJobs \/ CloseResults
           \/ Tick \/ ShowCount \/ TickerStop \/ Returned \/ UNCHANGED vars
  <2>1. UNCHANGED <<paths, next, pc, path, all>>
    BY <1>9 DEF Begin, Launch, CollectEnd, CloseStop, CloseJobs, CloseResults,
       Tick, ShowCount, TickerStop, Returned, vars
  <2>2. (main' = "returned") = (main = "returned")
    BY <1>9 DEF Begin, Launch, CollectEnd, CloseStop, CloseJobs, CloseResults,
       Tick, ShowCount, TickerStop, Returned, vars
  <2> QED
    BY <1>1, <2>1, <2>2, SameUnsettled
<1> QED
  BY <1>2, <1>3, <1>4, <1>5, <1>6, <1>7, <1>8, <1>9
     DEF Next, MainStep, FeedStep, WorkerStep

\* Every step of the goroutines settles one file, returns, or is invisible to
\* the abstract scan, for every list and every number of workers.
THEOREM ImplementsPromise == Spec => Promise!Safety
<1> QED
  BY PromiseInit, PromiseStep, Invariance, PTL DEF Spec, Promise!Safety

=============================================================================
