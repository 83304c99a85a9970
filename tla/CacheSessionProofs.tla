------------------------- MODULE CacheSessionProofs ------------------------
(***************************************************************************)
(* When a cached answer is that of an uncached run, for any number of      *)
(* files, texts, configurations, days and runs.                            *)
(***************************************************************************)
EXTENDS CacheSession, TLAPS

\* The issues are an analysis of the content by these checkers, made on a day
\* up to this one, in some mode, of a file that may have this content.
AnalysisOf(c, cfg, upTo, issues) ==
  \E day \in 0..upTo, skip \in BOOLEAN, name \in Names :
    c \in Versions[name[2]] /\ issues = Analysis(c, cfg, skip, day, name)

CacheInv ==
  \A c \in Contents, cfg \in Configs :
    cache[<<c, cfg>>] # Absent => AnalysisOf(c, cfg, today, cache[<<c, cfg>>])

\* The last answer, cached or not, and the one it is compared with.
LastInv ==
  last # NoRun =>
    /\ last.content \in Contents /\ last.day \in 0..MaxDay
    /\ AnalysisOf(last.content, last.cfg, last.day, last.raw)
    /\ last.path \in Paths /\ last.content \in Versions[last.path]
    /\ \E skip \in BOOLEAN, name \in Names :
         /\ name[2] = last.path
         /\ last.fresh = Analysis(last.content, last.cfg, skip, last.day, name)

IInv == TypeOK /\ CacheInv /\ LastInv

-----------------------------------------------------------------------------

\* The file keeps its place in the name an issue carries.
LEMMA NameOfPath ==
  ASSUME NEW p \in Paths, NEW mode
  PROVE  NameOf(p, mode) \in Names /\ NameOf(p, mode)[2] = p
BY DEF NameOf, Names

\* Issues are those of a file, if any.
LEMMA AnalysisType ==
  ASSUME NEW c, NEW cfg, NEW skip, NEW day, NEW name \in Names
  PROVE  Analysis(c, cfg, skip, day, name) \in Answers
BY DEF Analysis, Answers

\* An analysis of an earlier day stays one.
LEMMA AnalysisLater ==
  ASSUME NEW c, NEW cfg, NEW n \in Nat, NEW m \in Nat, n <= m, NEW issues,
         AnalysisOf(c, cfg, n, issues)
  PROVE  AnalysisOf(c, cfg, m, issues)
BY DEF AnalysisOf

\* The content of a file that is there.
LEMMA TreeContent ==
  ASSUME TypeOK, NEW p \in Paths, tree[p] # Missing
  PROVE  tree[p] \in Versions[p] /\ tree[p] \in Contents
BY DEF TypeOK, Contents

\* What a run on a file gives is an analysis made today.
LEMMA AnalysedToday ==
  ASSUME NEW p \in Paths, NEW c \in Versions[p], NEW cfg, NEW skip \in BOOLEAN, NEW mode,
         NEW day \in Nat
  PROVE  AnalysisOf(c, cfg, day, Analysis(c, cfg, skip, day, NameOf(p, mode)))
<1>1. NameOf(p, mode) \in Names /\ NameOf(p, mode)[2] = p
  BY NameOfPath
<1>2. day \in 0..day
  OBVIOUS
<1> QED
  BY <1>1, <1>2 DEF AnalysisOf

\* What is recorded after a run on a file.
LEMMA RecordedLast ==
  ASSUME TypeOK, NEW p \in Paths, NEW mode, NEW flag \in BOOLEAN, NEW cfg \in Configs,
         NEW issues, tree[p] # Missing, AnalysisOf(tree[p], cfg, today, issues),
         Record(p, mode, flag, cfg, issues)
  PROVE  LastInv' /\ (issues \in Answers => last' = NoRun \/ last'.raw \in Answers)
<1>1. tree[p] \in Versions[p] /\ tree[p] \in Contents
  BY TreeContent
<1>2. NameOf(p, mode) \in Names /\ NameOf(p, mode)[2] = p
  BY NameOfPath
<1>3. SkipGenerated(flag, mode) \in BOOLEAN
  BY DEF SkipGenerated
<1>4. /\ last'.content = tree[p] /\ last'.cfg = cfg /\ last'.path = p /\ last'.day = today
      /\ last'.raw = issues
      /\ last'.fresh = Analysis(tree[p], cfg, SkipGenerated(flag, mode), today, NameOf(p, mode))
  BY DEF Record
<1>5. today \in 0..MaxDay
  BY DEF TypeOK
<1>6. \E skip \in BOOLEAN, name \in Names :
        name[2] = last'.path
        /\ last'.fresh = Analysis(last'.content, last'.cfg, skip, last'.day, name)
  BY <1>2, <1>3, <1>4
<1>7. AnalysisOf(last'.content, last'.cfg, last'.day, last'.raw)
  BY <1>4
<1> QED
  BY <1>1, <1>4, <1>5, <1>6, <1>7 DEF LastInv

-----------------------------------------------------------------------------

\* An entry is made of today's analysis and read as what it is.
LEMMA HitStep ==
  ASSUME IInv, NEW p \in Paths, NEW mode \in Modes, NEW flag \in BOOLEAN, NEW cfg \in Configs,
         Hit(p, mode, flag, cfg)
  PROVE  IInv'
<1> DEFINE issues == cache[<<tree[p], cfg>>]
<1>1. tree[p] # Missing /\ issues # Absent /\ Record(p, mode, flag, cfg, issues)
  BY DEF Hit, Key
<1>2. tree[p] \in Contents
  BY <1>1, TreeContent DEF IInv
<1>3. AnalysisOf(tree[p], cfg, today, issues)
  BY <1>1, <1>2 DEF IInv, CacheInv
<1>4. issues \in Answers
  <2>1. <<tree[p], cfg>> \in Contents \X Configs
    BY <1>2
  <2> QED
    BY <1>1, <2>1 DEF IInv, TypeOK
<1>5. UNCHANGED <<tree, today, cache>>
  BY DEF Hit
<1>6. LastInv' /\ (last' = NoRun \/ last'.raw \in Answers)
  BY <1>1, <1>3, <1>4, RecordedLast DEF IInv
<1> QED
  BY <1>5, <1>6 DEF IInv, TypeOK, CacheInv

LEMMA MissStep ==
  ASSUME IInv, NEW p \in Paths, NEW mode \in Modes, NEW flag \in BOOLEAN, NEW cfg \in Configs,
         Miss(p, mode, flag, cfg)
  PROVE  IInv'
<1> DEFINE c == tree[p]
           skip == SkipGenerated(flag, mode)
           issues == Analysis(c, cfg, skip, today, NameOf(p, mode))
<1>1. /\ c # Missing
      /\ cache' = IF c.parses THEN [cache EXCEPT ![<<c, cfg>>] = issues] ELSE cache
      /\ Record(p, mode, flag, cfg, issues)
      /\ UNCHANGED <<tree, today>>
  BY DEF Miss, Key
<1>2. c \in Versions[p] /\ c \in Contents
  BY <1>1, TreeContent DEF IInv
<1>3. skip \in BOOLEAN /\ today \in Nat
  BY SessionAssumption DEF SkipGenerated, IInv, TypeOK
<1>4. AnalysisOf(c, cfg, today, issues)
  BY <1>2, <1>3, AnalysedToday
<1>5. issues \in Answers
  BY AnalysisType, NameOfPath
<1> HIDE DEF issues
<1>6. LastInv' /\ (last' = NoRun \/ last'.raw \in Answers)
  BY <1>1, <1>4, <1>5, RecordedLast DEF IInv
<1>7. cache' \in [Contents \X Configs -> Answers \cup {Absent}]
  BY <1>1, <1>5 DEF IInv, TypeOK
<1>8. CacheInv'
  <2>1. SUFFICES ASSUME NEW d \in Contents, NEW g \in Configs, cache'[<<d, g>>] # Absent
                 PROVE  AnalysisOf(d, g, today, cache'[<<d, g>>])
    BY <1>1 DEF CacheInv
  <2>2. <<d, g>> \in Contents \X Configs
    OBVIOUS
  <2>3. CASE c.parses /\ d = c /\ g = cfg
    <3>1. cache'[<<d, g>>] = issues
      BY <1>1, <2>2, <2>3 DEF IInv, TypeOK
    <3> QED
      BY <1>4, <2>3, <3>1
  <2>4. CASE ~(c.parses /\ d = c /\ g = cfg)
    <3>1. cache'[<<d, g>>] = cache[<<d, g>>]
      BY <1>1, <2>2, <2>4 DEF IInv, TypeOK
    <3> QED
      BY <2>1, <3>1 DEF IInv, CacheInv
  <2> QED
    BY <2>3, <2>4
<1> QED
  BY <1>1, <1>6, <1>7, <1>8 DEF IInv, TypeOK

\* Every action keeps the invariant.
LEMMA StepInv == IInv /\ [Next]_vars => IInv'
<1> SUFFICES ASSUME IInv, [Next]_vars PROVE IInv'
  OBVIOUS
<1>1. ASSUME NEW p \in Paths, NEW c \in Versions[p] \cup {Missing}, Edit(p, c)
      PROVE  IInv'
  <2>1. \A f \in Paths : tree'[f] \in Versions[f] \cup {Missing}
    BY <1>1 DEF Edit, IInv, TypeOK
  <2> QED
    BY <1>1, <2>1 DEF Edit, IInv, TypeOK, CacheInv, LastInv
<1>2. CASE NextDay
  <2>1. today \in Nat /\ today' = today + 1 /\ today' \in 0..MaxDay
    BY <1>2, SessionAssumption DEF NextDay, IInv, TypeOK
  <2>2. CacheInv'
    BY <1>2, <2>1, AnalysisLater DEF NextDay, IInv, CacheInv
  <2> QED
    BY <1>2, <2>1, <2>2 DEF NextDay, IInv, TypeOK, LastInv
<1>3. ASSUME NEW k \in Contents \X Configs, EntryLost(k)
      PROVE  IInv'
  <2>1. cache' \in [Contents \X Configs -> Answers \cup {Absent}]
    BY <1>3 DEF EntryLost, IInv, TypeOK
  <2>2. ASSUME NEW d \in Contents, NEW g \in Configs, cache'[<<d, g>>] # Absent
        PROVE  cache'[<<d, g>>] = cache[<<d, g>>]
    BY <1>3, <2>2 DEF EntryLost, IInv, TypeOK
  <2>3. CacheInv'
    BY <1>3, <2>2 DEF EntryLost, IInv, CacheInv
  <2> QED
    BY <1>3, <2>1, <2>3 DEF EntryLost, IInv, TypeOK, LastInv
<1>4. CASE UNCHANGED vars
  BY <1>4 DEF vars, IInv, TypeOK, CacheInv, LastInv
<1> QED
  BY <1>1, <1>2, <1>3, <1>4, HitStep, MissStep DEF Next

\* The invariant holds in every reachable state (checkFileConcurrent, run after
\* run on a tree that changes).
THEOREM Invariance == Spec => []IInv
<1>1. Init => IInv
  <2>1. SUFFICES ASSUME Init PROVE IInv
    OBVIOUS
  <2>2. cache \in [Contents \X Configs -> Answers \cup {Absent}]
    BY <2>1 DEF Init
  <2>3. \A c \in Contents, cfg \in Configs : cache[<<c, cfg>>] = Absent
    BY <2>1 DEF Init
  <2> QED
    BY <2>1, <2>2, <2>3, SessionAssumption DEF Init, IInv, TypeOK, CacheInv, LastInv
<1> QED
  BY <1>1, StepInv, PTL DEF Spec

\* Variables keep their types; a cached answer names files of the tree.
THEOREM TypeCorrect == Spec => []TypeOK
<1>1. IInv => TypeOK
  BY DEF IInv
<1> QED
  BY <1>1, Invariance, PTL

\* For any tree and any series of runs: what the cache hands back is an analysis
\* of this content by these checkers, of a day up to this one (cacheEntryName).
THEOREM StaleInThreeWays == Spec => []StaleOnlyInThreeWays
<1>1. IInv => StaleOnlyInThreeWays
  BY DEF IInv, LastInv, AnalysisOf, StaleOnlyInThreeWays
<1> QED
  BY <1>1, Invariance, PTL

\* The analysis of a plain content is the same on every day, in every mode.
LEMMA PlainAnalysis ==
  ASSUME NEW c \in Contents, Plain(c), NEW cfg,
         NEW skip \in BOOLEAN, NEW day \in 0..MaxDay, NEW name \in Names,
         NEW skip2 \in BOOLEAN, NEW day2 \in 0..MaxDay, NEW name2 \in Names,
         name[2] = name2[2]
  PROVE  Files(Analysis(c, cfg, skip, day, name)) = Files(Analysis(c, cfg, skip2, day2, name2))
<1>1. day > c.until <=> day2 > c.until
  BY SessionAssumption DEF Plain, Never, Forever
<1>2. ~c.generated
  BY DEF Plain
<1>3. Files({name}) = {name[2]} /\ Files({name2}) = {name2[2]} /\ Files({}) = {}
  BY DEF Files
<1> QED
  BY <1>1, <1>2, <1>3 DEF Analysis

\* For any tree and any series of runs: the cache is invisible for a text that
\* is not generated, has no until: date and belongs to one file.
THEOREM CacheInvisible == Spec => []CacheTransparent
<1>1. IInv => CacheTransparent
  <2>1. SUFFICES ASSUME IInv, last # NoRun, Plain(last.content)
                 PROVE  Files(last.raw) = Files(last.fresh)
    BY DEF CacheTransparent
  <2>2. last.content \in Contents /\ last.day \in 0..MaxDay
        /\ last.path \in Paths /\ last.content \in Versions[last.path]
    BY <2>1 DEF IInv, LastInv
  <2>3. PICK day \in 0..last.day, skip \in BOOLEAN, name \in Names :
          /\ last.content \in Versions[name[2]]
          /\ last.raw = Analysis(last.content, last.cfg, skip, day, name)
    BY <2>1 DEF IInv, LastInv, AnalysisOf
  <2>4. PICK skip2 \in BOOLEAN, name2 \in Names :
          /\ name2[2] = last.path
          /\ last.fresh = Analysis(last.content, last.cfg, skip2, last.day, name2)
    BY <2>1 DEF IInv, LastInv
  <2>5. name[2] = name2[2]
    BY <2>1, <2>2, <2>3, <2>4 DEF Plain, Names
  <2>6. day \in 0..MaxDay
    BY <2>2, <2>3, SessionAssumption
  <2> QED
    BY <2>1, <2>2, <2>3, <2>4, <2>5, <2>6, PlainAnalysis
<1> QED
  BY <1>1, Invariance, PTL

=============================================================================
