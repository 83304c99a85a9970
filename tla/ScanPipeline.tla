---------------------------- MODULE ScanPipeline ---------------------------
(***************************************************************************)
(* The goroutines of one scan: cmd/goperfcheck/scanner.go (scanFiles and   *)
(* its twin auditFiles), progress.go (runScanWithProgress) and the worker  *)
(* count main.go computes for them.                                        *)
(*                                                                         *)
(*   feeder  sends every path on the unbuffered channel jobs, closes it    *)
(*   workers range over jobs, send a non-empty batch on the unbuffered     *)
(*           channel results, count the file, and call wg.Done at the end  *)
(*   closer  waits for wg and closes results                               *)
(*   main    spawns them, collects results until it is closed, then stops  *)
(*           the progress goroutine and erases its line                    *)
(*   ticker  the progress goroutine: on a tick it loads the counter and    *)
(*           then prints it; it returns when stop is closed                *)
(*                                                                         *)
(* A send on an unbuffered channel and its receive are one step. Parsing   *)
(* and checking a file touch nothing the goroutines share (each call makes *)
(* its own FileSet; the cache is in CacheStore), so a file is represented  *)
(* by what checking it yields:                                             *)
(*   "test"    a *_test.go file skipped under -skip-tests                  *)
(*   "silent"  an empty batch: unreadable, unparsable, generated, clean    *)
(*   "issues"  a non-empty batch                                           *)
(***************************************************************************)
EXTENDS Integers, Sequences, FiniteSets

CONSTANTS
  MaxFiles,           \* bound: the longest list of files
  WorkersFlag,        \* the -workers flag (its default is runtime.NumCPU())
  MaxWorkers,         \* main.go's upper limit for it, 512
  ProgressThreshold   \* progressThreshold, 50 files

ASSUME PipelineAssumption ==
  /\ MaxFiles \in Nat
  /\ WorkersFlag \in Int
  /\ MaxWorkers \in Nat \ {0}
  /\ ProgressThreshold \in Nat

Outcomes == {"test", "silent", "issues"}
Lists == UNION {[1..n -> Outcomes] : n \in 0..MaxFiles}

\* Mutant of NumW: the flag as it is given.
NumWAsGiven == WorkersFlag

\* main.go clamps the flag to 1..MaxWorkers.
NumW ==
  IF WorkersFlag < 1 THEN 1
  ELSE IF WorkersFlag > MaxWorkers THEN MaxWorkers ELSE WorkersFlag

Workers == 1..NumW

VARIABLES
  paths,      \* the list of files, as outcomes
  mode,       \* "scan" (scanFiles, counted) or "audit" (auditFiles, not counted)
  tty,        \* stderr is a terminal
  main,       \* where main is
  next,       \* the feeder: index of the next path to send
  jobs,       \* "open" or "closed"
  pc,         \* where each worker is
  path,       \* the file each worker holds (0: none yet)
  wg,         \* the WaitGroup of the workers
  results,    \* "open" or "closed"
  all,        \* the batches main has appended, each named by its file
  progress,   \* the atomic counter of files done
  ticker,     \* where the progress goroutine is
  n,          \* the value it loaded
  stop,       \* the channel stop is closed
  screen      \* the count on the progress line (Blank: no line shown)

feedVars == <<next, jobs>>
workVars == <<pc, path, wg>>
showVars == <<ticker, n, stop, screen>>
vars == <<paths, mode, tty, main, feedVars, workVars, results, all, progress,
          showVars>>

Blank == -1
Holding == {"have", "send", "count"}
Scanned == {"scanned", "waiting", "returned"}   \* main is past the collect loop

\* progress.go: only a scan of enough files on a terminal has a progress line.
ShowProgress ==
  /\ mode = "scan"
  /\ Len(paths) >= ProgressThreshold
  /\ tty

Init ==
  /\ paths \in Lists
  /\ mode \in {"scan", "audit"}
  /\ tty \in BOOLEAN
  /\ main = "begin"
  /\ next = 1
  /\ jobs = "open"
  /\ pc = [w \in Workers |-> "off"]
  /\ path = [w \in Workers |-> 0]
  /\ wg = 0
  /\ results = "open"
  /\ all = <<>>
  /\ progress = 0
  /\ ticker = "off"
  /\ n = 0
  /\ stop = FALSE
  /\ screen = Blank

-----------------------------------------------------------------------------
(* main *)

\* runScanWithProgress starts the progress goroutine if it is to be shown;
\* scanFiles and auditFiles return at once when there is nothing to scan.
Begin ==
  /\ main = "begin"
  /\ main' = IF paths = <<>> THEN "scanned" ELSE "spawn"
  /\ ticker' = IF ShowProgress THEN "select" ELSE "off"
  /\ UNCHANGED <<paths, mode, tty, feedVars, workVars, results, all, progress,
                 n, stop, screen>>

\* Mutant of Spawn: the goroutine is started without wg.Add(1).
SpawnUncounted(w) ==
  /\ main = "spawn"
  /\ pc[w] = "off"
  /\ pc' = [pc EXCEPT ![w] = "recv"]
  /\ UNCHANGED <<paths, mode, tty, main, feedVars, path, wg, results, all,
                 progress, showVars>>

Spawn(w) ==
  /\ main = "spawn"
  /\ pc[w] = "off"
  /\ wg' = wg + 1
  /\ pc' = [pc EXCEPT ![w] = "recv"]
  /\ UNCHANGED <<paths, mode, tty, main, feedVars, path, results, all,
                 progress, showVars>>

\* The two remaining go statements (feeder and closer); main then collects.
Launch ==
  /\ main = "spawn"
  /\ \A w \in Workers : pc[w] # "off"
  /\ main' = "collect"
  /\ UNCHANGED <<paths, mode, tty, feedVars, workVars, results, all, progress,
                 showVars>>

\* The loop over results ends when the channel is closed.
CollectEnd ==
  /\ main = "collect"
  /\ results = "closed"
  /\ main' = "scanned"
  /\ UNCHANGED <<paths, mode, tty, feedVars, workVars, results, all, progress,
                 showVars>>

\* Without a progress line the collected batches are returned as they are.
ReturnDirectly ==
  /\ main = "scanned"
  /\ ~ShowProgress
  /\ main' = "returned"
  /\ UNCHANGED <<paths, mode, tty, feedVars, workVars, results, all, progress,
                 showVars>>

CloseStop ==
  /\ main = "scanned"
  /\ ShowProgress
  /\ stop' = TRUE
  /\ main' = "waiting"
  /\ UNCHANGED <<paths, mode, tty, feedVars, workVars, results, all, progress,
                 ticker, n, screen>>

\* Mutant of Erase: the line is erased without waiting for the goroutine.
EraseAtOnce ==
  /\ main = "waiting"
  /\ screen' = Blank
  /\ main' = "returned"
  /\ UNCHANGED <<paths, mode, tty, feedVars, workVars, results, all, progress,
                 ticker, n, stop>>

Erase ==
  /\ main = "waiting"
  /\ ticker = "exited"
  /\ screen' = Blank
  /\ main' = "returned"
  /\ UNCHANGED <<paths, mode, tty, feedVars, workVars, results, all, progress,
                 ticker, n, stop>>

-----------------------------------------------------------------------------
(* feeder and closer, started by Launch *)

Launched == main \notin {"begin", "spawn"} /\ paths # <<>>

SendJob(w) ==
  /\ Launched
  /\ next <= Len(paths)
  /\ pc[w] = "recv"
  /\ path' = [path EXCEPT ![w] = next]
  /\ pc' = [pc EXCEPT ![w] = "have"]
  /\ next' = next + 1
  /\ UNCHANGED <<paths, mode, tty, main, jobs, wg, results, all, progress,
                 showVars>>

\* Mutant of CloseJobs: the feeder leaves the channel open.
NeverCloseJobs == FALSE /\ UNCHANGED vars

CloseJobs ==
  /\ Launched
  /\ next > Len(paths)
  /\ jobs = "open"
  /\ jobs' = "closed"
  /\ UNCHANGED <<paths, mode, tty, main, next, workVars, results, all, progress,
                 showVars>>

\* Mutant of CloseResults: the closer waits for the feeder, not for wg.
CloseResultsEarly ==
  /\ Launched
  /\ jobs = "closed"
  /\ results = "open"
  /\ results' = "closed"
  /\ UNCHANGED <<paths, mode, tty, main, feedVars, workVars, all, progress,
                 showVars>>

CloseResults ==
  /\ Launched
  /\ wg = 0
  /\ results = "open"
  /\ results' = "closed"
  /\ UNCHANGED <<paths, mode, tty, main, feedVars, workVars, all, progress,
                 showVars>>

-----------------------------------------------------------------------------
(* workers *)

\* Mutant of SkipTest: continue without counting the file.
SkipTestUncounted(w) ==
  /\ pc[w] = "have"
  /\ paths[path[w]] = "test"
  /\ pc' = [pc EXCEPT ![w] = "recv"]
  /\ UNCHANGED <<paths, mode, tty, main, feedVars, path, wg, results, all,
                 progress, showVars>>

SkipTest(w) ==
  /\ pc[w] = "have"
  /\ paths[path[w]] = "test"
  /\ progress' = IF mode = "scan" THEN progress + 1 ELSE progress
  /\ pc' = [pc EXCEPT ![w] = "recv"]
  /\ UNCHANGED <<paths, mode, tty, main, feedVars, path, wg, results, all,
                 showVars>>

\* checkFileConcurrent or auditFileConcurrent returns its batch.
CheckFile(w) ==
  /\ pc[w] = "have"
  /\ paths[path[w]] # "test"
  /\ pc' = [pc EXCEPT ![w] =
              IF paths[path[w]] = "issues" THEN "send" ELSE "count"]
  /\ UNCHANGED <<paths, mode, tty, main, feedVars, path, wg, results, all,
                 progress, showVars>>

\* results <- batch meets main's receive.
SendBatch(w) ==
  /\ pc[w] = "send"
  /\ main = "collect"
  /\ results = "open"
  /\ all' = Append(all, path[w])
  /\ pc' = [pc EXCEPT ![w] = "count"]
  /\ UNCHANGED <<paths, mode, tty, main, feedVars, path, wg, results, progress,
                 showVars>>

CountFile(w) ==
  /\ pc[w] = "count"
  /\ progress' = IF mode = "scan" THEN progress + 1 ELSE progress
  /\ pc' = [pc EXCEPT ![w] = "recv"]
  /\ UNCHANGED <<paths, mode, tty, main, feedVars, path, wg, results, all,
                 showVars>>

\* The loop over jobs ends when the channel is closed; the deferred wg.Done.
WorkerDone(w) ==
  /\ pc[w] = "recv"
  /\ jobs = "closed"
  /\ wg' = wg - 1
  /\ pc' = [pc EXCEPT ![w] = "exited"]
  /\ UNCHANGED <<paths, mode, tty, main, feedVars, path, results, all, progress,
                 showVars>>

-----------------------------------------------------------------------------
(* the progress goroutine *)

\* Mutant of Tick: it loads the number of files left.
TickRemaining ==
  /\ ticker = "select"
  /\ n' = Len(paths) - progress
  /\ ticker' = "print"
  /\ UNCHANGED <<paths, mode, tty, main, feedVars, workVars, results, all,
                 progress, stop, screen>>

\* A tick may be chosen even when stop is closed: select picks any ready case.
Tick ==
  /\ ticker = "select"
  /\ n' = progress
  /\ ticker' = "print"
  /\ UNCHANGED <<paths, mode, tty, main, feedVars, workVars, results, all,
                 progress, stop, screen>>

ShowCount ==
  /\ ticker = "print"
  /\ screen' = n
  /\ ticker' = "select"
  /\ UNCHANGED <<paths, mode, tty, main, feedVars, workVars, results, all,
                 progress, n, stop>>

TickerStop ==
  /\ ticker = "select"
  /\ stop
  /\ ticker' = "exited"
  /\ UNCHANGED <<paths, mode, tty, main, feedVars, workVars, results, all,
                 progress, n, stop, screen>>

-----------------------------------------------------------------------------

\* The scan is over; the process goes on to sort and print.
Returned == main = "returned" /\ UNCHANGED vars

MainStep ==
  \/ Begin \/ Launch \/ CollectEnd \/ ReturnDirectly \/ CloseStop \/ Erase
  \/ \E w \in Workers : Spawn(w)

WorkerStep(w) ==
  SkipTest(w) \/ CheckFile(w) \/ SendBatch(w) \/ CountFile(w) \/ WorkerDone(w)

FeedStep == CloseJobs \/ \E w \in Workers : SendJob(w)

Next ==
  \/ MainStep
  \/ FeedStep
  \/ CloseResults
  \/ \E w \in Workers : WorkerStep(w)
  \/ Tick \/ ShowCount \/ TickerStop
  \/ Returned

\* Every goroutine that can run is eventually run. A select with two ready
\* cases picks one uniformly at random, and a tick is ready for an instant
\* every 150 ms only: the case stop cannot be passed over forever, which is
\* strong fairness of TickerStop. Nothing makes a tick happen.
Fairness ==
  /\ WF_vars(MainStep)
  /\ WF_vars(FeedStep)
  /\ WF_vars(CloseResults)
  /\ \A w \in Workers : WF_vars(WorkerStep(w))
  /\ WF_vars(ShowCount)
  /\ SF_vars(TickerStop)

Spec == Init /\ [][Next]_vars
FairSpec == Spec /\ Fairness

-----------------------------------------------------------------------------
(* Properties *)

TypeOK ==
  /\ paths \in Seq(Outcomes)
  /\ mode \in {"scan", "audit"}
  /\ tty \in BOOLEAN
  /\ main \in {"begin", "spawn", "collect"} \cup Scanned
  /\ next \in 1..Len(paths) + 1
  /\ jobs \in {"open", "closed"}
  /\ pc \in [Workers -> {"off", "recv", "exited"} \cup Holding]
  /\ path \in [Workers -> 0..Len(paths)]
  /\ wg \in Nat
  /\ results \in {"open", "closed"}
  /\ all \in Seq(DOMAIN paths)
  /\ progress \in Nat
  /\ ticker \in {"off", "select", "print", "exited"}
  /\ n \in Nat
  /\ stop \in BOOLEAN
  /\ screen \in Nat \cup {Blank}

\* No file is reported twice, and what the scan hands back holds the batch of
\* every file that has issues, whichever worker met it and in whatever order.
EveryBatchOnce ==
  /\ \A j, k \in DOMAIN all : all[j] = all[k] => j = k
  /\ main \in Scanned =>
       {all[k] : k \in DOMAIN all} = {f \in DOMAIN paths : paths[f] = "issues"}

\* The closer never closes results under a worker that may still send on it
\* (a send on a closed channel panics): wg counts every worker until its end.
ClosedAfterLastSend ==
  results = "closed" => \A w \in Workers : pc[w] = "exited"

\* The counter never exceeds the number of files, and when the scan is over
\* every file is counted once, the skipped ones included.
ProgressExact ==
  mode = "scan" =>
    /\ progress <= Len(paths)
    /\ main \in Scanned => progress = Len(paths)

\* Once runScanWithProgress has returned, the line is blank and the progress
\* goroutine can no longer print: results go to a clean terminal line.
CleanAfterReturn ==
  main = "returned" => screen = Blank /\ ticker \in {"off", "exited"}

\* No goroutine outlives the scan, blocked on a channel nobody serves.
NothingLeftRunning ==
  main \in Scanned /\ paths # <<>> =>
    /\ jobs = "closed"
    /\ results = "closed"
    /\ \A w \in Workers : pc[w] = "exited"

\* The count shown on the progress line never goes back, although it is
\* loaded in one step and printed in a later one.
ShownNeverGoesBack == [][screen' # Blank => screen' >= screen]_vars

\* The files with issues before the k-th batch's file whose batch comes later.
Overtaken(k) ==
  {f \in DOMAIN paths : /\ paths[f] = "issues"
                        /\ f < all[k]
                        /\ \A j \in 1..k - 1 : all[j] # f}

\* A batch overtakes at most one batch per other worker, whatever -workers is
\* given: fewer than the limit, and fewer than the flag. With -workers 1 (or
\* less), documented as "single-threaded, deterministic order", none is
\* overtaken: the batches arrive in the order of the list.
BoundedOvertaking ==
  \A k \in DOMAIN all :
    LET late == Cardinality(Overtaken(k))
    IN  late < MaxWorkers /\ (late < 1 \/ late < WorkersFlag)

\* The scan returns: no send, receive or Wait blocks forever.
ScanReturns == <>(main = "returned")

\* The files not settled yet: not sent, or held by a worker that has not
\* reached the end of its work on them.
Unsettled ==
  {f \in DOMAIN paths : f >= next}
    \cup {path[w] : w \in {v \in Workers : pc[v] \in {"have", "send"}}}

Promise == INSTANCE ScanPromise WITH
  pending <- Unsettled, report <- all, returned <- (main = "returned")

\* The pipeline does what the abstract scan promises, its return included.
KeepsPromise == Promise!Spec

=============================================================================
