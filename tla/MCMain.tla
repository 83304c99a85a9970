------------------------------- MODULE MCMain ------------------------------
(***************************************************************************)
(* Instances of Main: command lines of up to three arguments, a tree of    *)
(* two files, batches with issues that differ in one thing.                *)
(***************************************************************************)
EXTENDS Main

SomeArguments ==
  {Option(f, None) : f \in {"fix", "stdin", "git-diff", "git-staged", "version",
                            "audit-suppressions", "list-checkers", "severity", ""}}
  \cup {Option("fix", "false"), Option("fix", "t"), Option("fix", "tRUE"),
        Option("severity", "WARN"), Option("checker", "ZeroCopy"), Option("group", "io"),
        Option("group", "cpu"), Option("file", "b.go"), Option("file", "notes.txt"),
        Option("exclude", "mocks/"), Option("output", "r.md"), Option("format", "json"),
        Option("skip-vendor", None), Option("go-version", "1.19"), Option("go-version", "latest"), Option("colour", None)}
  \cup {Word(w) : w \in {"true", "false", "t", "tRUE", "explain", "ZeroCopy", "WARN"}}

\* What may come behind a flag and its value.
SomeOthers ==
  {Option("fix", None), Option("fix", "false"), Option("severity", "WARN"),
   Option("git-diff", None), Option("", None), Word("true")}

\* Three arguments only with a flag, a value and a third one.
SomeCommandLines ==
  {<<>>} \cup {<<a>> : a \in SomeArguments}
         \cup {<<a, b>> : a \in SomeArguments, b \in SomeArguments}
         \cup {<<a, b, c>> : a \in {x \in SomeArguments : x.option /\ x.value = None},
                             b \in {x \in SomeArguments : ~x.option},
                             c \in SomeOthers}

SomeConfigs ==
  {<<>>, Malformed, [x \in {"fix", "skip-vendor"} |-> IF x = "fix" THEN "t" ELSE "f"],
   [x \in {"fix", "severity", "skip-vendor"} |-> IF x = "severity" THEN "WARN" ELSE "yes"],
   [output |-> "../report.md"], [group |-> "io", colour |-> "red"]}

File(dirs, base) == [dirs |-> dirs, base |-> base]
SomeTree == <<File(<<>>, "b.go"), File(<<"mocks">>, "c.go")>>

\* The second path begins with the first one.
SomePathText == [f \in {0, 1, 2} |-> CASE f = 0 -> <<45>> [] f = 1 -> <<98>> [] f = 2 -> <<98, 99>>]

CheckerList ==
  <<"MemPrealloc", "ObjectPool", "StructAlign", "InterfaceBoxing", "ZeroCopy",
    "GoroutinePool", "ContextMisuse", "BufferedIO", "AtomicMutex", "LazyInit",
    "StackAlloc", "Batching", "TimeNowLoop", "WaitGroupMisuse", "DeferInLoop",
    "StringConcatLoop", "RegexpCompile", "HTTPClientReuse", "SyncMapMisuse">>

\* The k-th checker has one letter, the issues in MCMain the message "slow".
SomeNameText ==
  [n \in AllCheckers \cup {"slow"} |->
     IF n = "slow" THEN <<Colon, 65, Colon>>
     ELSE <<64 + CHOOSE k \in DOMAIN CheckerList : CheckerList[k] = n>>]

SomeNamed == [x \in {"b.go", "notes.txt"} |-> IF x = "b.go" THEN 1 ELSE 0]
SomePatterns == [x \in {"", "mocks/"} |-> IF x = "" THEN {}
                                          ELSE {[slash |-> TRUE, names |-> {"mocks"}]}]

V(major, minor) == [major |-> major, minor |-> minor]
SomeVersions == [x \in {"1.19", "latest"} |-> IF x = "latest" THEN V(Bad, Bad) ELSE V(1, 19)]
SomeGoMods == {<<>>, <<<<V(Bad, Bad)>>, <<V(1, 18)>>>>}

Iss(line, column, checker, severity, fix) ==
  [line |-> line, column |-> column, checker |-> checker, severity |-> severity,
   message |-> "slow", typed |-> FALSE, fix |-> fix, note |-> FALSE]

Z(line, column) == Iss(line, column, "ZeroCopy", "WARN", FALSE)
A == [Iss(1, 1, "AtomicMutex", "INFO", FALSE) EXCEPT !.typed = TRUE]
M(line) == Iss(line, 2, "MemPrealloc", "WARN", TRUE)

SomeBatches ==
  {<<>>, <<M(1), A>>, <<Z(2, 1), M(1), Z(2, 1)>>, <<Z(55296, 1), Z(55297, 1)>>}

=============================================================================
