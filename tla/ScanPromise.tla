---------------------------- MODULE ScanPromise ----------------------------
(***************************************************************************)
(* What a scan (or an audit) promises to main, whatever goroutines it is   *)
(* built from: every file of the list is settled exactly once, in any      *)
(* order; the batch of a file that has issues is appended to the report    *)
(* when the file is settled and a file without issues adds nothing; the    *)
(* function returns, and it returns only when every file is settled.       *)
(*                                                                         *)
(* A file is its index in the list: a path that stands in it twice is two  *)
(* files.                                                                  *)
(***************************************************************************)
EXTENDS Integers, Sequences

CONSTANTS
  MaxFiles,   \* bound: the longest list of files
  Outcomes    \* what checking a file can yield; "issues" is a non-empty batch

VARIABLES
  paths,      \* the list: paths[i] is the outcome of the i-th file
  pending,    \* the files not settled yet
  report,     \* the batches appended so far, each named by its file
  returned    \* the function has returned

vars == <<paths, pending, report, returned>>

Lists == UNION {[1..n -> Outcomes] : n \in 0..MaxFiles}

Init ==
  /\ paths \in Lists
  /\ pending = DOMAIN paths
  /\ report = <<>>
  /\ returned = FALSE

Report(f) ==
  /\ f \in pending
  /\ paths[f] = "issues"
  /\ pending' = pending \ {f}
  /\ report' = Append(report, f)
  /\ UNCHANGED <<paths, returned>>

Discard(f) ==
  /\ f \in pending
  /\ paths[f] # "issues"
  /\ pending' = pending \ {f}
  /\ UNCHANGED <<paths, report, returned>>

Return ==
  /\ pending = {}
  /\ ~returned
  /\ returned' = TRUE
  /\ UNCHANGED <<paths, pending, report>>

Settle == \E f \in pending : Report(f) \/ Discard(f)

Next == Settle \/ Return

Safety == Init /\ [][Next]_vars
Spec == Safety /\ WF_vars(Next)

=============================================================================
