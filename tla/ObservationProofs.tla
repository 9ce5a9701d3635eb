------------------------- MODULE ObservationProofs -------------------------
(***************************************************************************)
(* Proofs about Tools and Observation.  Theorems, in this order:        *)
(*                                                                          *)
(*   ToolsHold, OneToolRuns, LateAnswersDoNotPass, InputIsAcceptedFirst     *)
(*     the tools of a job, one at a time, on accepted input;                *)
(*   ObservationHolds                                                       *)
(*     types, the tree of directories, where the listing and the sweep are; *)
(*   ReadsHold                                                              *)
(*     what is hashed or read is of one moment;                             *)
(*   CleanupHolds                                                           *)
(*     what the sweep of the bytecode caches removes, and what it leaves;   *)
(*   WorkspaceHolds                                                         *)
(*     what two complete listings say of the workspace.                     *)
(*                                                                          *)
(* The commands of a job are concatenations; FlatteningExists, by induction *)
(* on the least sequence length without a flattening, gives what is in      *)
(* them.  The listing needs no induction over the tree of directories: a    *)
(* set of paths that stands is closed upwards, and a nonempty set of paths  *)
(* missing from a complete listing would have one whose parent is not in it.*)
(***************************************************************************)
EXTENDS Observation, WellFoundedInduction, SequenceTheorems, TLAPS

LEMMA LeastNumber ==
  ASSUME NEW T, T \subseteq Nat, T # {}
  PROVE  \E least \in T : \A n \in T : ~(n < least)
<1>1. \E least \in T : \A n \in T : ~(<<n, least>> \in OpToRel(<, Nat))
  BY NatLessThanWellFounded, WFMin
<1>. QED  BY <1>1 DEF OpToRel

LEMMA FlatteningExists ==
  ASSUME NEW S, NEW ss \in Seq(Seq(S)), Len(ss) # 0
  PROVE  \E f \in [1..Len(ss) -> Seq(S)] :
           \A i \in 1..Len(ss) : f[i] = IF i = 1 THEN ss[i] ELSE f[i - 1] \o ss[i]
<1>. DEFINE Flattens(f, n) ==
       \A i \in 1..n : f[i] = IF i = 1 THEN ss[i] ELSE f[i - 1] \o ss[i]
<1>. DEFINE Bad == {n \in 1..Len(ss) : ~\E f \in [1..n -> Seq(S)] : Flattens(f, n)}
<1>1. SUFFICES ASSUME Bad # {} PROVE FALSE
  <2>1. Len(ss) \in Nat /\ Len(ss) \in 1..Len(ss)
    BY LenProperties
  <2>2. Len(ss) \notin Bad
    BY <1>1
  <2>. QED  BY <2>1, <2>2
<1>. HIDE DEF Bad
<1>2. PICK n \in Bad : \A m \in Bad : ~(m < n)
  <2>1. Bad \subseteq Nat
    BY DEF Bad
  <2>. QED  BY <1>1, <2>1, LeastNumber
<1>3. n \in 1..Len(ss) /\ ~\E f \in [1..n -> Seq(S)] : Flattens(f, n)
  BY <1>2 DEF Bad
<1>4. CASE n = 1
  <2>1. [i \in 1..1 |-> ss[i]] \in [1..1 -> Seq(S)]
    BY <1>3, <1>4
  <2>2. Flattens([i \in 1..1 |-> ss[i]], 1)
    OBVIOUS
  <2>. QED  BY <1>3, <1>4, <2>1, <2>2
<1>5. CASE n # 1
  <2>0. n - 1 \in 1..Len(ss) /\ n - 1 < n
    BY <1>3, <1>5, LenProperties
  <2>1. n - 1 \in 1..Len(ss) /\ n - 1 \notin Bad
    BY <1>2, <2>0
  <2>2. PICK f \in [1..(n - 1) -> Seq(S)] : Flattens(f, n - 1)
    BY <2>1 DEF Bad
  <2>. DEFINE g == [i \in 1..n |-> IF i = n THEN f[n - 1] \o ss[n] ELSE f[i]]
  <2>3. f[n - 1] \o ss[n] \in Seq(S)
    <3>1. f[n - 1] \in Seq(S) /\ ss[n] \in Seq(S)
      BY <1>3, <2>1
    <3>. QED  BY <3>1, ConcatProperties
  <2>4. g \in [1..n -> Seq(S)]
    BY <2>3, <1>3
  <2>5. ASSUME NEW i \in 1..n PROVE g[i] = IF i = 1 THEN ss[i] ELSE g[i - 1] \o ss[i]
    <3>1. CASE i = n
      <4>1. n \in 1..n /\ n - 1 \in 1..n /\ n - 1 # n
        BY <1>3, <2>0, LenProperties
      <4>2. g[n] = f[n - 1] \o ss[n] /\ g[n - 1] = f[n - 1]
        BY <4>1
      <4>. HIDE DEF g
      <4>. QED  BY <1>5, <3>1, <4>2
    <3>2. CASE i # n
      <4>1. i \in 1..(n - 1) /\ (i # 1 => i - 1 \in 1..n /\ i - 1 # n)
        BY <1>3, <3>2
      <4>2. g[i] = f[i] /\ (i # 1 => g[i - 1] = f[i - 1])
        BY <3>2, <4>1
      <4>3. f[i] = IF i = 1 THEN ss[i] ELSE f[i - 1] \o ss[i]
        BY <2>2, <4>1
      <4>. HIDE DEF g
      <4>. QED  BY <4>2, <4>3
    <3>. QED  BY <3>1, <3>2
  <2>. HIDE DEF g
  <2>6. Flattens(g, n)
    BY <2>5
  <2>. QED  BY <1>3, <2>4, <2>6
<1>. QED  BY <1>4, <1>5

LEMMA FlattenProperties ==
  ASSUME NEW S, NEW ss \in Seq(Seq(S))
  PROVE  /\ FlattenSeq(ss) \in Seq(S)
         /\ Range(FlattenSeq(ss)) = UNION {Range(ss[i]) : i \in DOMAIN ss}
<1>1. CASE Len(ss) = 0
  <2>1. ss = <<>>
    BY <1>1, EmptySeq
  <2>2. FlattenSeq(ss) = <<>>
    BY <1>1, <2>1 DEF FlattenSeq
  <2>3. Range(FlattenSeq(ss)) = {} /\ DOMAIN ss = {}
    BY <2>1, <2>2 DEF Range
  <2>. QED  BY <2>2, <2>3, EmptySeq
<1>2. CASE Len(ss) # 0
  <2>. DEFINE N == Len(ss)
              Body(f) == [i \in 1..N |-> IF i = 1 THEN ss[i] ELSE f[i - 1] \o ss[i]]
              flat == CHOOSE f : f = Body(f)
  <2>1. PICK f \in [1..N -> Seq(S)] :
          \A i \in 1..N : f[i] = IF i = 1 THEN ss[i] ELSE f[i - 1] \o ss[i]
    BY <1>2, FlatteningExists
  <2>2. f = Body(f)
    BY <2>1
  <2>3. flat = Body(flat)
    BY <2>2
  <2>4. FlattenSeq(ss) = flat[N]
    BY <1>2 DEF FlattenSeq
  <2>5. \A i \in 1..N : flat[i] = IF i = 1 THEN ss[i] ELSE flat[i - 1] \o ss[i]
    BY <2>3
  <2>. HIDE DEF flat
  <2>. DEFINE Fine(i) == /\ flat[i] \in Seq(S)
                         /\ Range(flat[i]) = UNION {Range(ss[j]) : j \in 1..i}
              Bad == {i \in 1..N : ~Fine(i)}
  <2>6. N \in Nat /\ N # 0 /\ DOMAIN ss = 1..N /\ \A i \in 1..N : ss[i] \in Seq(S)
    BY <1>2
  <2>. HIDE DEF N
  <2>7. ASSUME NEW i \in 1..N, i # 1 => Fine(i - 1) PROVE Fine(i)
    <3>1. CASE i = 1
      <4>1. flat[i] = ss[1]
        BY <2>5, <3>1
      <4>2. UNION {Range(ss[j]) : j \in 1..i} = Range(ss[1])
        BY <3>1
      <4>. QED  BY <3>1, <4>1, <4>2, <2>6
    <3>2. CASE i # 1
      <4>1. flat[i] = flat[i - 1] \o ss[i]
        BY <2>5, <3>2
      <4>2. flat[i - 1] \in Seq(S) /\ ss[i] \in Seq(S)
        BY <2>6, <2>7, <3>2
      <4>3. Range(flat[i]) = Range(flat[i - 1]) \cup Range(ss[i])
        BY <4>1, <4>2, RangeConcatenation
      <4>4. flat[i] \in Seq(S)
        BY <4>1, <4>2, ConcatProperties
      <4>5. 1..i = (1..(i - 1)) \cup {i}
        BY <2>6
      <4>6. Range(flat[i - 1]) = UNION {Range(ss[j]) : j \in 1..(i - 1)}
        BY <2>7, <3>2
      <4>. HIDE DEF flat
      <4>. QED  BY <4>3, <4>4, <4>5, <4>6
    <3>. QED  BY <3>1, <3>2
  <2>. HIDE DEF Fine
  <2>8. Bad = {}
    <3>1. SUFFICES ASSUME Bad # {} PROVE FALSE
      OBVIOUS
    <3>2. Bad \subseteq Nat
      BY <2>6
    <3>. HIDE DEF Bad
    <3>3. PICK i \in Bad : \A j \in Bad : ~(j < i)
      BY <3>1, <3>2, LeastNumber
    <3>4. i \in 1..N /\ ~Fine(i)
      BY <3>3 DEF Bad
    <3>5. i # 1 => i - 1 \in 1..N /\ i - 1 \notin Bad
      BY <2>6, <3>3, <3>4
    <3>6. i # 1 => Fine(i - 1)
      BY <3>5 DEF Bad
    <3>. QED  BY <2>7, <3>4, <3>6
  <2>9. Fine(N)
    <3>1. N \in 1..N
      BY <2>6
    <3>. QED  BY <2>8, <3>1
  <2>. QED  BY <2>4, <2>6, <2>9 DEF Fine
<1>. QED  BY <1>1, <1>2
-----------------------------------------------------------------------------
(* The commands *)

Tool == {"isort", "black", "djlint", "git", "read"} \cup Range(Checks)
Tried == [stage : {"preflight"}, tool : Tool, on : SUBSET Declared,
          input : {"baseline", "planned"}]
Used == [stage : Later, tool : Tool, on : SUBSET Declared, input : {"planned", "file"}]
Asked == [stage : {"audit"}, tool : Tool, on : SUBSET Path,
          input : {"version", "status", "file"}]

LEMMA ListingType ==
  /\ Python \in Seq(Range(Python)) /\ DOMAIN Python = 1..Len(Python)
  /\ Html \in Seq(Range(Html)) /\ DOMAIN Html = 1..Len(Html)
  /\ Checks \in Seq(Range(Checks)) /\ DOMAIN Checks = 1..Len(Checks)
  /\ Len(Python) \in Nat /\ Len(Html) \in Nat /\ Len(Checks) \in Nat
  BY ToolsAssumption, LenProperties DEF Listing

(* What is tried on one file, and that nothing else is. *)
LEMMA AttemptsAre ==
  ASSUME NEW path \in Range(Python), NEW tool \in Formatters
  PROVE  /\ Attempts(path, tool) \in Seq(Tried)
         /\ path \notin Excluded[tool] =>
              Command("preflight", tool, {path}, "planned") \in Range(Attempts(path, tool))
<1>. DEFINE planned == Command("preflight", tool, {path}, "planned")
            present == Command("preflight", tool, {path}, "baseline")
<1>1. planned \in Tried /\ present \in Tried
  <2>1. path \in Declared /\ tool \in Tool
    BY DEF Declared, Tool, Formatters
  <2>. QED  BY <2>1 DEF Tried, Command
<1>. DEFINE base == IF path \in New THEN <<>> ELSE <<present>>
<1>2. Attempts(path, tool) = IF path \in Excluded[tool] THEN <<>> ELSE base \o <<planned>>
  BY DEF Attempts
<1>. HIDE DEF planned, present
<1>3. <<>> \in Seq(Tried) /\ base \in Seq(Tried) /\ <<planned>> \in Seq(Tried)
  BY <1>1
<1>4. planned \in Range(<<planned>>)
  BY DEF Range
<1>. HIDE DEF base
<1>5. base \o <<planned>> \in Seq(Tried)
  BY <1>3, ConcatProperties
<1>6. planned \in Range(base \o <<planned>>)
  <2>1. PICK single \in Seq(Tried) : single = <<planned>>
    BY <1>3
  <2>2. Range(base \o single) = Range(base) \cup Range(single)
    BY <1>3, RangeConcatenation
  <2>. QED  BY <1>4, <2>1, <2>2
<1>. QED  BY <1>2, <1>3, <1>5, <1>6 DEF planned

LEMMA PreflightFormattingIs ==
  /\ PreflightFormatting \in Seq(Tried)
  /\ \A path \in Range(Python), tool \in Formatters :
       path \notin Excluded[tool] =>
         Command("preflight", tool, {path}, "planned") \in Range(PreflightFormatting)
<1>. DEFINE of(k) == Attempts(Python[k], "isort") \o Attempts(Python[k], "black")
            ss == [k \in DOMAIN Python |-> of(k)]
<1>1. ASSUME NEW k \in DOMAIN Python
      PROVE  /\ of(k) \in Seq(Tried)
             /\ \A tool \in Formatters : Python[k] \notin Excluded[tool] =>
                  Command("preflight", tool, {Python[k]}, "planned") \in Range(of(k))
  <2>1. PICK path \in Range(Python) : path = Python[k]
    BY DEF Range
  <2>2. "isort" \in Formatters /\ "black" \in Formatters
    BY DEF Formatters
  <2>3. Attempts(path, "isort") \in Seq(Tried) /\ Attempts(path, "black") \in Seq(Tried)
    BY <2>2, AttemptsAre
  <2>4. /\ of(k) \in Seq(Tried)
        /\ Range(of(k)) = Range(Attempts(path, "isort")) \cup Range(Attempts(path, "black"))
    BY <2>1, <2>3, ConcatProperties, RangeConcatenation
  <2>5. ASSUME NEW tool \in Formatters, path \notin Excluded[tool]
        PROVE  Command("preflight", tool, {path}, "planned") \in Range(of(k))
    <3>1. Command("preflight", tool, {path}, "planned") \in Range(Attempts(path, tool))
      BY <2>5, AttemptsAre
    <3>2. tool = "isort" \/ tool = "black"
      BY DEF Formatters
    <3>. HIDE DEF of
    <3>. QED  BY <2>4, <3>1, <3>2
  <2>. QED  BY <2>1, <2>4, <2>5
<1>. HIDE DEF of
<1>2. ss \in Seq(Seq(Tried)) /\ DOMAIN ss = DOMAIN Python
  <2>1. PICK n \in Nat : DOMAIN Python = 1..n
    BY ListingType
  <2>2. ss \in [1..n -> Seq(Tried)]
    BY <1>1, <2>1
  <2>. HIDE DEF ss
  <2>. QED  BY <2>1, <2>2
<1>3. PreflightFormatting = FlattenSeq(ss)
  BY DEF PreflightFormatting, of
<1>4. /\ FlattenSeq(ss) \in Seq(Tried)
      /\ Range(FlattenSeq(ss)) = UNION {Range(ss[i]) : i \in DOMAIN ss}
  BY <1>2, FlattenProperties
<1>5. ASSUME NEW path \in Range(Python), NEW tool \in Formatters, path \notin Excluded[tool]
      PROVE  Command("preflight", tool, {path}, "planned") \in Range(PreflightFormatting)
  <2>1. PICK k \in DOMAIN Python : path = Python[k]
    BY DEF Range
  <2>2. Command("preflight", tool, {path}, "planned") \in Range(ss[k])
    BY <1>1, <1>5, <2>1
  <2>. QED  BY <1>2, <1>3, <1>4, <2>2
<1>. QED  BY <1>3, <1>4, <1>5

LEMMA PreflightLintingIs ==
  /\ PreflightLinting \in Seq(Tried)
  /\ \A path \in Range(Html) :
       Command("preflight", "djlint", {path}, "planned") \in Range(PreflightLinting)
<1>1. ASSUME NEW k \in DOMAIN Html
      PROVE  Command("preflight", "djlint", {Html[k]}, "planned") \in Tried
  <2>1. Html[k] \in Declared
    BY DEF Declared, Range
  <2>. QED  BY <2>1 DEF Tried, Tool, Command
<1>2. PreflightLinting \in Seq(Tried)
  BY <1>1, ListingType DEF PreflightLinting
<1>3. ASSUME NEW path \in Range(Html)
      PROVE  Command("preflight", "djlint", {path}, "planned") \in Range(PreflightLinting)
  <2>1. PICK k \in DOMAIN Html : path = Html[k]
    BY DEF Range
  <2>. QED  BY <2>1 DEF PreflightLinting, Range
<1>. QED  BY <1>2, <1>3

(* What is used on a file was tried on its planned content. *)
WasTried(c) ==
  \A path \in c.on : Command("preflight", c.tool, {path}, "planned") \in Range(Preflight)

LEMMA PreflightIs ==
  /\ Preflight \in Seq(Tried)
  /\ Range(Preflight) = Range(PreflightFormatting) \cup Range(PreflightLinting)
  BY PreflightFormattingIs, PreflightLintingIs, ConcatProperties, RangeConcatenation
     DEF Preflight

LEMMA LintingIs ==
  /\ Linting \in Seq(Used)
  /\ \A c \in Range(Linting) : WasTried(c)
<1>1. ASSUME NEW k \in DOMAIN Html
      PROVE  Command("lint", "djlint", {Html[k]}, "planned") \in Used
  <2>1. Html[k] \in Declared
    BY DEF Declared, Range
  <2>. QED  BY <2>1 DEF Used, Later, Tool, Command
<1>2. Linting \in Seq(Used)
  BY <1>1, ListingType DEF Linting
<1>3. ASSUME NEW c \in Range(Linting), NEW path \in c.on
      PROVE  Command("preflight", c.tool, {path}, "planned") \in Range(Preflight)
  <2>1. PICK k \in DOMAIN Html : c = Command("lint", "djlint", {Html[k]}, "planned")
    BY DEF Linting, Range
  <2>2. path = Html[k] /\ c.tool = "djlint"
    BY <1>3, <2>1 DEF Command
  <2>3. path \in Range(Html)
    BY <2>2 DEF Range
  <2>. QED  BY <2>2, <2>3, PreflightLintingIs, PreflightIs
<1>. QED  BY <1>2, <1>3 DEF WasTried

LEMMA CheckingIs ==
  /\ Checking \in Seq(Used)
  /\ \A c \in Range(Checking) : WasTried(c)
<1>1. ASSUME NEW k \in DOMAIN Checks
      PROVE  Command("check", Checks[k], {}, "file") \in Used
  <2>1. Checks[k] \in Tool
    BY DEF Tool, Range
  <2>. QED  BY <2>1 DEF Used, Later, Command
<1>2. Checking \in Seq(Used)
  BY <1>1, ListingType DEF Checking
<1>3. \A c \in Range(Checking) : c.on = {}
  BY DEF Checking, Range, Command
<1>. QED  BY <1>2, <1>3 DEF WasTried

LEMMA FormatterRunIs ==
  ASSUME NEW tool \in Formatters
  PROVE  /\ FormatterRun(tool) \in Seq(Used)
         /\ \A c \in Range(FormatterRun(tool)) : WasTried(c)
<1>. DEFINE run == Command("format", tool, FormatterPaths(tool), "file")
<1>1. FormatterPaths(tool) \subseteq Declared /\ tool \in Tool
  BY DEF FormatterPaths, Declared, Tool, Formatters
<1>2. run \in Used
  BY <1>1 DEF Used, Later, Command
<1>3. WasTried(run)
  <2>1. run.on = FormatterPaths(tool) /\ run.tool = tool
    BY DEF Command
  <2>. HIDE DEF run
  <2>2. ASSUME NEW path \in FormatterPaths(tool)
        PROVE  Command("preflight", tool, {path}, "planned") \in Range(Preflight)
    <3>1. path \in Range(Python) /\ path \notin Excluded[tool]
      BY DEF FormatterPaths
    <3>. QED  BY <3>1, PreflightFormattingIs, PreflightIs
  <2>. QED  BY <2>1, <2>2 DEF WasTried
<1>4. FormatterRun(tool) = IF FormatterPaths(tool) = {} THEN <<>> ELSE <<run>>
  BY DEF FormatterRun
<1>. HIDE DEF run
<1>5. Range(<<run>>) = {run} /\ Range(<<>>) = {}
  BY DEF Range
<1>. QED  BY <1>2, <1>3, <1>4, <1>5

LEMMA AfterPreflightIs ==
  /\ AfterPreflight \in Seq(Used)
  /\ \A c \in Range(AfterPreflight) : WasTried(c)
<1>. DEFINE again == IF RerunChecks /\ Formatting # <<>> THEN Checking ELSE <<>>
<1>1. Formatting \in Seq(Used) /\ \A c \in Range(Formatting) : WasTried(c)
  <2>1. "isort" \in Formatters /\ "black" \in Formatters
    BY DEF Formatters
  <2>2. FormatterRun("isort") \in Seq(Used) /\ FormatterRun("black") \in Seq(Used)
    BY <2>1, FormatterRunIs
  <2>3. Formatting \in Seq(Used)
    BY <2>2, ConcatProperties DEF Formatting
  <2>4. Range(Formatting) = Range(FormatterRun("isort")) \cup Range(FormatterRun("black"))
    BY <2>2, RangeConcatenation DEF Formatting
  <2>. QED  BY <2>1, <2>3, <2>4, FormatterRunIs
<1>2. again \in Seq(Used) /\ \A c \in Range(again) : WasTried(c)
  <2>1. <<>> \in Seq(Used) /\ Range(<<>>) = {}
    BY DEF Range
  <2>. QED  BY <2>1, CheckingIs
<1>. HIDE DEF again
<1>3. /\ Linting \o Checking \in Seq(Used)
      /\ Range(Linting \o Checking) = Range(Linting) \cup Range(Checking)
  BY LintingIs, CheckingIs, ConcatProperties, RangeConcatenation
<1>4. PICK first \in Seq(Used) : first = Linting \o Checking
  BY <1>3
<1>5. /\ first \o Formatting \in Seq(Used)
      /\ Range(first \o Formatting) = Range(first) \cup Range(Formatting)
  BY <1>1, ConcatProperties, RangeConcatenation
<1>6. PICK second \in Seq(Used) : second = first \o Formatting
  BY <1>5
<1>7. /\ second \o again \in Seq(Used)
      /\ Range(second \o again) = Range(second) \cup Range(again)
  BY <1>2, ConcatProperties, RangeConcatenation
<1>8. AfterPreflight = second \o again
  BY <1>4, <1>6 DEF AfterPreflight, again
<1>. QED  BY <1>1, <1>2, <1>3, <1>4, <1>5, <1>6, <1>7, <1>8, LintingIs, CheckingIs

LEMMA AuditIs == Audit \in Seq(Asked)
<1>1. GitVersion \in Asked /\ GitStatus \in Asked
  BY DEF GitVersion, GitStatus, Asked, Tool, Command
<1>2. ASSUME NEW path \in Path PROVE Reading(path) \in Asked
  BY DEF Reading, Asked, Tool, Command
<1>3. {GitVersion, GitStatus} \cup {Reading(path) : path \in Path} \subseteq Asked
  BY <1>1, <1>2
<1>. QED  BY <1>3, ToolsAssumption, SeqMonotonic

(* The commands of a job, as far as the properties need them: what comes     *)
(* after the preflight is preceded by the trials of everything it works on.  *)
LEMMA CommandsAre ==
  ASSUME NEW job \in Kind
  PROVE  /\ CommandsOf[job] \in Seq(Tried \cup Used \cup Asked)
         /\ \A k \in DOMAIN CommandsOf[job] : CommandsOf[job][k].stage \in Later =>
              \A path \in CommandsOf[job][k].on : \E i \in 1..(k - 1) :
                CommandsOf[job][i]
                  = Command("preflight", CommandsOf[job][k].tool, {path}, "planned")
<1>1. CASE job = "patch"
  <2>1. PICK s1 \in Seq(Tried \cup Used), s2 \in Seq(Tried \cup Used) :
          s1 = Preflight /\ s2 = AfterPreflight
    BY PreflightIs, AfterPreflightIs, SeqMonotonic
  <2>2. CommandsOf[job] = s1 \o s2
    BY <1>1, <2>1 DEF CommandsOf
  <2>3. /\ s1 \o s2 \in Seq(Tried \cup Used)
        /\ Len(s1 \o s2) = Len(s1) + Len(s2)
        /\ \A i \in 1..(Len(s1) + Len(s2)) :
             (s1 \o s2)[i] = IF i <= Len(s1) THEN s1[i] ELSE s2[i - Len(s1)]
    BY ConcatProperties
  <2>4. PICK s \in Seq(Tried \cup Used) : s = s1 \o s2
    BY <2>3
  <2>5. /\ DOMAIN s = 1..(Len(s1) + Len(s2)) /\ DOMAIN s1 = 1..Len(s1)
        /\ DOMAIN s2 = 1..Len(s2) /\ Len(s1) \in Nat /\ Len(s2) \in Nat
    BY <2>3, <2>4, LenProperties
  <2>6. ASSUME NEW k \in DOMAIN s, s[k].stage \in Later, NEW path \in s[k].on
        PROVE  \E i \in 1..(k - 1) : s[i] = Command("preflight", s[k].tool, {path}, "planned")
    <3>1. k > Len(s1)
      <4>1. ASSUME k <= Len(s1) PROVE FALSE
        <5>1. k \in DOMAIN s1 /\ s[k] = s1[k]
          BY <2>3, <2>4, <2>5, <4>1
        <5>2. s1 \in Seq(Tried)
          BY <2>1, PreflightIs
        <5>3. s1[k] \in Tried
          BY <5>1, <5>2, LenProperties
        <5>. QED  BY <2>6, <5>1, <5>3 DEF Tried, Later
      <4>. QED  BY <2>5, <4>1
    <3>2. s[k] = s2[k - Len(s1)] /\ k - Len(s1) \in DOMAIN s2
      BY <2>3, <2>4, <2>5, <3>1
    <3>3. s[k] \in Range(AfterPreflight)
      BY <2>1, <3>2 DEF Range
    <3>4. Command("preflight", s[k].tool, {path}, "planned") \in Range(s1)
      BY <2>1, <2>6, <3>3, AfterPreflightIs DEF WasTried
    <3>5. PICK i \in DOMAIN s1 : s1[i] = Command("preflight", s[k].tool, {path}, "planned")
      BY <3>4 DEF Range
    <3>6. i \in 1..(k - 1) /\ s[i] = s1[i]
      BY <2>3, <2>4, <2>5, <3>1
    <3>. QED  BY <3>5, <3>6
  <2>7. CommandsOf[job] = s
    BY <2>2, <2>4
  <2>8. s \in Seq(Tried \cup Used \cup Asked)
    BY <2>4, SeqMonotonic
  <2>. QED  BY <2>6, <2>7, <2>8, Zenon
<1>2. CASE job = "verify"
  <2>1. CommandsOf[job] = Checking
    BY <1>2 DEF CommandsOf
  <2>2. Checking \in Seq(Tried \cup Used \cup Asked)
    BY CheckingIs, SeqMonotonic
  <2>3. \A k \in DOMAIN Checking : Checking[k].on = {}
    BY DEF Checking, Command
  <2>. QED  BY <2>1, <2>2, <2>3
<1>3. CASE job = "audit"
  <2>1. CommandsOf[job] = Audit
    BY <1>3 DEF CommandsOf
  <2>2. Audit \in Seq(Tried \cup Used \cup Asked)
    BY AuditIs, SeqMonotonic
  <2>3. ASSUME NEW k \in DOMAIN Audit PROVE Audit[k].stage \notin Later
    <3>1. Audit[k] \in Asked
      BY AuditIs, LenProperties
    <3>. QED  BY <3>1 DEF Asked, Later
  <2>. QED  BY <2>1, <2>2, <2>3
<1>. QED  BY <1>1, <1>2, <1>3 DEF Kind

-----------------------------------------------------------------------------
(* The tools of a job *)

Statuses == {"PASSED", "FAILED", "ERROR", "TIMED_OUT", "NOT_AVAILABLE"}

ToolsTypeOK ==
  /\ kind \in Kind
  /\ pc \in {"next", "waiting", "asked", "killed", "failed", "raised", "done"}
  /\ position \in 1..(Len(Commands) + 1)
  /\ results \in Seq([status : Statuses, code : Codes])
  /\ leader \in [DOMAIN Commands -> {"none", "running", "ended"}]
  /\ exit \in [DOMAIN Commands -> Codes]
  /\ raising \in BOOLEAN
  /\ interrupts \in Nat

(* There is one result for each command that ended, and each of them but the *)
(* one that failed the sequence was accepted; what was not reached was not   *)
(* started, and what still runs of the past has timed out.                   *)
SequenceOK ==
  /\ Len(results) = IF pc = "failed" THEN position ELSE position - 1
  /\ pc \in {"waiting", "asked", "killed", "failed"} => position \in DOMAIN Commands
  /\ pc = "done" => position = Len(Commands) + 1
  /\ \A i \in 1..(position - 1) :
       Accepted(Commands[i], results[i].status, results[i].code)
  /\ \A k \in DOMAIN Commands :
       /\ k > position \/ (k = position /\ pc = "next") => leader[k] = "none"
       /\ k < position /\ leader[k] = "running" => results[k].status = "TIMED_OUT"

ToolsInv == ToolsTypeOK /\ SequenceOK

(* What one step may do to the tools of a job. *)
ToolStep == Run \/ ReadEnds \/ Interrupt \/ Exit
  \/ UNCHANGED <<kind, pc, position, results, leader, exit, raising>>

LEMMA CommandsType ==
  ASSUME kind \in Kind
  PROVE  /\ Commands \in Seq(Tried \cup Used \cup Asked)
         /\ Len(Commands) \in Nat /\ DOMAIN Commands = 1..Len(Commands)
  BY CommandsAre, LenProperties DEF Commands

LEMMA AcceptedTimeout ==
  ASSUME NEW c, NEW code, Accepted(c, "TIMED_OUT", code)
  PROVE  OnlyNoted(c)
  BY DEF Accepted

LEMMA ToolSteps ==
  ASSUME [Next]_vars
  PROVE  /\ ToolStep
         /\ interrupts' = interrupts \/ interrupts' = interrupts + 1
<1>1. CASE UseTools
  BY <1>1 DEF UseTools, ToolStep, Run, CallIsort, Launch, LaunchFails, NoGit, Collect, Timeout,
              AfterTerm, AfterKill, Complete
<1>2. CASE InterruptJob
  BY <1>2 DEF InterruptJob, Interrupted, ToolStep, Interrupt
<1>3. CASE ToolExits
  BY <1>3 DEF ToolExits, ToolStep, Exit
<1>4. CASE UNCHANGED tools
  BY <1>4 DEF ToolStep, tools
<1>5. CASE UNCHANGED vars
  BY <1>4, <1>5 DEF vars
<1>6. CASE Work /\ ~UseTools
  <2>1. UNCHANGED tools \/ ReadEnds
    BY <1>6 DEF Work, PreflightEnds, ToolsDone, Scan, Visit, OpenFile, CloseFile,
                ObservationFails, BaselineDone, Compare, TakeRead, ReadNext, Apply,
                ApplyFails, NoteCache, LedgerDone, OpenCache, RemoveEntry, RemoveCache,
                CleaningDone
  <2>. QED  BY <1>4, <2>1 DEF ToolStep, ReadEnds
<1>7. CASE Change
  BY <1>4, <1>7 DEF Change
<1>. QED  BY <1>1, <1>2, <1>3, <1>5, <1>6, <1>7 DEF Next

LEMMA InitTools == Init => ToolsInv
<1>. SUFFICES ASSUME Init PROVE ToolsInv
  OBVIOUS
<1>1. kind \in Kind
  BY DEF Init, ToolsInit
<1>2. ToolsTypeOK
  <2>1. /\ pc = "next" /\ position = 1 /\ results = <<>> /\ raising = FALSE /\ interrupts = 0
        /\ leader = [k \in DOMAIN Commands |-> "none"]
        /\ exit = [k \in DOMAIN Commands |-> 0]
    BY DEF Init, ToolsInit
  <2>2. /\ leader \in [DOMAIN Commands -> {"none", "running", "ended"}]
        /\ exit \in [DOMAIN Commands -> Codes]
    BY <2>1 DEF Codes
  <2>3. position \in 1..(Len(Commands) + 1) /\ interrupts \in Nat
    BY <1>1, <2>1, CommandsType
  <2>4. results \in Seq([status : Statuses, code : Codes])
    BY <2>1
  <2>. QED  BY <1>1, <2>1, <2>2, <2>3, <2>4 DEF ToolsTypeOK
<1>3. SequenceOK
  BY <1>1, <1>2, CommandsType DEF Init, ToolsInit, SequenceOK, ToolsTypeOK
<1>. QED  BY <1>2, <1>3 DEF ToolsInv

(* A command ends with a result. *)
LEMMA Concluded ==
  ASSUME ToolsInv, position \in DOMAIN Commands, pc \in {"next", "waiting", "asked", "killed"},
         NEW status \in Statuses, NEW code \in Codes, Conclude(status, code),
         UNCHANGED <<kind, leader, exit, raising, interrupts>>,
         leader[position] = "running" => status = "TIMED_OUT"
  PROVE  ToolsInv'
<1>0. /\ kind \in Kind /\ position \in Nat /\ Len(results) = position - 1
      /\ results \in Seq([status : Statuses, code : Codes])
  BY CommandsType DEF ToolsInv, ToolsTypeOK, SequenceOK
<1>1. Commands' = Commands /\ Len(Commands) \in Nat /\ DOMAIN Commands = 1..Len(Commands)
  BY <1>0, CommandsType DEF Commands
<1>2. PICK result \in [status : Statuses, code : Codes] :
        result = [status |-> status, code |-> code]
  OBVIOUS
<1>3. results' = Append(results, result)
  BY <1>2 DEF Conclude
<1>4. /\ results' \in Seq([status : Statuses, code : Codes])
      /\ Len(results') = position /\ results'[position] = result
      /\ \A i \in 1..(position - 1) : results'[i] = results[i]
  BY <1>0, <1>3
<1>5. \/ /\ Accepted(Commands[position], status, code)
         /\ pc' = "next" /\ position' = position + 1
      \/ /\ ~Accepted(Commands[position], status, code)
         /\ pc' = "failed" /\ position' = position
  BY DEF Conclude, Stops
<1>6. ToolsTypeOK'
  <2>1. position' \in 1..(Len(Commands) + 1)
    BY <1>0, <1>1, <1>5
  <2>2. pc' \in {"next", "failed"}
    BY <1>5
  <2>. QED  BY <1>1, <1>4, <2>1, <2>2 DEF ToolsInv, ToolsTypeOK
<1>7. \A i \in 1..(position' - 1) :
        Accepted(Commands[i], results'[i].status, results'[i].code)
  BY <1>0, <1>2, <1>4, <1>5 DEF ToolsInv, SequenceOK
<1>8. ASSUME NEW k \in DOMAIN Commands
      PROVE  /\ k > position' \/ (k = position' /\ pc' = "next") => leader[k] = "none"
             /\ k < position' /\ leader[k] = "running" => results'[k].status = "TIMED_OUT"
  BY <1>0, <1>1, <1>2, <1>4, <1>5 DEF ToolsInv, SequenceOK
<1>9. Len(results') = IF pc' = "failed" THEN position' ELSE position' - 1
  BY <1>0, <1>4, <1>5
<1>. QED  BY <1>1, <1>5, <1>6, <1>7, <1>8, <1>9 DEF ToolsInv, SequenceOK

(* A call that tells the sequence nothing. *)
LEMMA Continued ==
  ASSUME ToolsInv, UNCHANGED <<kind, position, results, exit>>,
         interrupts' \in Nat, raising' \in BOOLEAN,
         \/ /\ pc \in {"next", "waiting", "asked", "killed"} /\ pc' = "raised"
            /\ UNCHANGED leader
         \/ pc' = pc /\ UNCHANGED leader
         \/ /\ pc \in {"waiting", "asked"} /\ pc' \in {"asked", "killed"}
            /\ UNCHANGED leader
         \/ /\ pc = "next" /\ position = Len(Commands) + 1 /\ pc' = "done"
            /\ UNCHANGED leader
         \/ /\ pc = "next" /\ position \in DOMAIN Commands /\ pc' = "waiting"
            /\ leader' = [leader EXCEPT ![position] = "running"]
  PROVE  ToolsInv'
<1>1. Commands' = Commands /\ Len(Commands) \in Nat /\ DOMAIN Commands = 1..Len(Commands)
  BY CommandsType DEF Commands, ToolsInv, ToolsTypeOK
<1>2. ToolsTypeOK'
  BY <1>1 DEF ToolsInv, ToolsTypeOK
<1>3. \A k \in DOMAIN Commands : leader'[k] = leader[k] \/ (k = position /\ pc' = "waiting")
  BY DEF ToolsInv, ToolsTypeOK
<1>4. \A k \in DOMAIN Commands :
        /\ k > position \/ (k = position /\ pc' = "next") => leader'[k] = "none"
        /\ k < position /\ leader'[k] = "running" => results[k].status = "TIMED_OUT"
  BY <1>1, <1>3 DEF ToolsInv, ToolsTypeOK, SequenceOK
<1>5. /\ Len(results) = IF pc' = "failed" THEN position ELSE position - 1
      /\ pc' \in {"waiting", "asked", "killed", "failed"} => position \in DOMAIN Commands
      /\ pc' = "done" => position = Len(Commands) + 1
  BY DEF ToolsInv, SequenceOK
<1>. QED  BY <1>1, <1>2, <1>4, <1>5 DEF ToolsInv, SequenceOK

LEMMA NextTools == ToolsInv /\ [Next]_vars => ToolsInv'
<1>. SUFFICES ASSUME ToolsInv, [Next]_vars PROVE ToolsInv'
  OBVIOUS
<1>0. /\ interrupts' \in Nat /\ position \in Nat
      /\ Len(Commands) \in Nat /\ DOMAIN Commands = 1..Len(Commands)
  BY ToolSteps, CommandsType DEF ToolsInv, ToolsTypeOK
<1>1. ASSUME NEW status \in {"PASSED", "ERROR", "NOT_AVAILABLE"}, Conclude(status, 0),
             CallIsort \/ LaunchFails \/ NoGit \/ ReadEnds
      PROVE  ToolsInv'
  <2>1. /\ position \in DOMAIN Commands /\ pc = "next" /\ leader[position] = "none"
        /\ status \in Statuses /\ 0 \in Codes
    BY <1>0, <1>1 DEF CallIsort, LaunchFails, NoGit, ReadEnds, IsNext, ToolsInv, ToolsTypeOK,
                      SequenceOK, Statuses, Codes
  <2>2. UNCHANGED <<kind, leader, exit, raising, interrupts>>
    BY <1>1 DEF CallIsort, LaunchFails, NoGit, ReadEnds
  <2>. QED  BY <1>1, <2>1, <2>2, Concluded
<1>2. CASE CallIsort \/ LaunchFails \/ NoGit \/ ReadEnds
  <2>1. PICK status \in {"PASSED", "ERROR", "NOT_AVAILABLE"} : Conclude(status, 0)
    BY <1>2 DEF CallIsort, LaunchFails, NoGit, ReadEnds
  <2>. QED  BY <1>1, <1>2, <2>1
<1>3. CASE Collect
  <2>1. PICK status \in {"PASSED", "FAILED"} : Conclude(status, exit[position])
    BY <1>3 DEF Collect
  <2>2. /\ position \in DOMAIN Commands /\ pc = "waiting" /\ leader[position] # "running"
        /\ status \in Statuses /\ exit[position] \in Codes
    BY <1>3 DEF Collect, ToolsInv, ToolsTypeOK, SequenceOK, Statuses, Running
  <2>3. UNCHANGED <<kind, leader, exit, raising, interrupts>>
    BY <1>3 DEF Collect
  <2>4. PICK code \in Codes : code = exit[position]
    BY <2>2
  <2>5. Conclude(status, code)
    BY <2>1, <2>4
  <2>. QED  BY <2>2, <2>3, <2>5, Concluded
<1>4. ASSUME Timeout \/ AfterTerm \/ AfterKill, Finish PROVE ToolsInv'
  <2>1. /\ UNCHANGED <<kind, leader, exit, raising, interrupts>>
        /\ pc \in {"waiting", "asked", "killed"}
    BY <1>4 DEF Timeout, AfterTerm, AfterKill
  <2>2. CASE raising
    <3>1. pc' = "raised" /\ UNCHANGED <<position, results>>
      BY <1>4, <2>2 DEF Finish
    <3>2. raising' \in BOOLEAN
      BY <2>1 DEF ToolsInv, ToolsTypeOK
    <3>. QED  BY <1>0, <2>1, <3>1, <3>2, Continued
  <2>3. CASE ~raising
    <3>1. Conclude("TIMED_OUT", 0)
      BY <1>4, <2>3 DEF Finish
    <3>2. position \in DOMAIN Commands /\ "TIMED_OUT" \in Statuses /\ 0 \in Codes
      BY <2>1 DEF ToolsInv, SequenceOK, Statuses, Codes
    <3>. QED  BY <2>1, <3>1, <3>2, Concluded
  <2>. QED  BY <2>2, <2>3
<1>5. CASE (Timeout \/ AfterTerm \/ AfterKill) /\ ~Finish
  <2>1. /\ UNCHANGED <<kind, position, results, leader, exit, raising, interrupts>>
        /\ pc \in {"waiting", "asked"} /\ pc' \in {"asked", "killed"}
    BY <1>5 DEF Timeout, AfterTerm, AfterKill
  <2>2. raising' \in BOOLEAN
    BY <2>1 DEF ToolsInv, ToolsTypeOK
  <2>. QED  BY <1>0, <2>1, <2>2, Continued
<1>6. CASE Launch
  <2>1. /\ UNCHANGED <<kind, position, results, exit, raising, interrupts>>
        /\ pc = "next" /\ position \in DOMAIN Commands /\ pc' = "waiting"
        /\ leader' = [leader EXCEPT ![position] = "running"]
    BY <1>0, <1>6 DEF Launch, ToolsInv, ToolsTypeOK
  <2>2. raising' \in BOOLEAN
    BY <2>1 DEF ToolsInv, ToolsTypeOK
  <2>. QED  BY <1>0, <2>1, <2>2, Continued
<1>7. CASE Complete
  <2>1. /\ UNCHANGED <<kind, position, results, leader, exit, raising, interrupts>>
        /\ pc = "next" /\ position > Len(Commands) /\ pc' = "done"
    BY <1>7 DEF Complete
  <2>2. raising' \in BOOLEAN /\ position = Len(Commands) + 1
    BY <1>0, <2>1 DEF ToolsInv, ToolsTypeOK
  <2>. QED  BY <1>0, <2>1, <2>2, Continued
<1>8. CASE Interrupt
  <2>1. UNCHANGED <<kind, position, results, leader, exit>>
    BY <1>8 DEF Interrupt
  <2>2. \/ pc = "waiting" /\ pc' = "asked" /\ raising' = TRUE
        \/ pc \in {"next", "waiting", "asked", "killed"} /\ pc' = "raised" /\ raising' = raising
    BY <1>8 DEF Interrupt
  <2>3. raising' \in BOOLEAN
    BY <2>2 DEF ToolsInv, ToolsTypeOK
  <2>. QED  BY <1>0, <2>1, <2>2, <2>3, Continued
<1>9. CASE Exit
  <2>1. PICK k \in DOMAIN Commands, code \in Codes :
          /\ leader[k] = "running"
          /\ leader' = [leader EXCEPT ![k] = "ended"]
          /\ exit' = [exit EXCEPT ![k] = code]
          /\ UNCHANGED <<kind, pc, position, results, raising, interrupts>>
    BY <1>9 DEF Exit
  <2>2. Commands' = Commands
    BY <2>1 DEF Commands
  <2>3. ToolsTypeOK'
    BY <2>1, <2>2 DEF ToolsInv, ToolsTypeOK
  <2>4. \A m \in DOMAIN Commands : leader'[m] = leader[m]
          \/ (leader[m] = "running" /\ leader'[m] = "ended")
    BY <2>1 DEF ToolsInv, ToolsTypeOK
  <2>5. SequenceOK'
    BY <2>1, <2>2, <2>4 DEF ToolsInv, SequenceOK
  <2>. QED  BY <2>3, <2>5 DEF ToolsInv
<1>10. CASE UNCHANGED <<kind, pc, position, results, leader, exit, raising>>
  <2>1. Commands' = Commands
    BY <1>10 DEF Commands
  <2>. QED  BY <1>0, <1>10, <2>1 DEF ToolsInv, ToolsTypeOK, SequenceOK
<1>. QED  BY <1>2, <1>3, <1>4, <1>5, <1>6, <1>7, <1>8, <1>9, <1>10, ToolSteps
          DEF ToolStep, Run

THEOREM ToolsHold == Spec => []ToolsInv
  BY InitTools, NextTools, PTL DEF Spec

(* No tool runs beside another one, except a formatter that outlived its     *)
(* trial of the old contents of a file, and the git that was asked for its   *)
(* version and outlived that.                                                *)
THEOREM OneToolRuns == Spec => []OneToolAtATime
<1>1. ToolsInv => OneToolAtATime
  <2>. SUFFICES ASSUME ToolsInv, NEW k \in DOMAIN Commands, leader[k] = "running"
                PROVE  \/ k = position /\ pc \in {"waiting", "asked", "killed", "failed", "raised"}
                       \/ OnlyNoted(Commands[k]) /\ results[k].status = "TIMED_OUT"
    BY DEF OneToolAtATime
  <2>0. /\ position \in Nat /\ Len(Commands) \in Nat /\ k \in 1..Len(Commands)
    BY CommandsType DEF ToolsInv, ToolsTypeOK
  <2>1. CASE k = position
    <3>1. pc # "next" /\ pc # "done"
      BY <2>0, <2>1 DEF ToolsInv, SequenceOK
    <3>. QED  BY <2>1, <3>1 DEF ToolsInv, ToolsTypeOK
  <2>2. CASE k < position
    <3>1. results[k].status = "TIMED_OUT"
            /\ Accepted(Commands[k], results[k].status, results[k].code)
      BY <2>0, <2>2 DEF ToolsInv, SequenceOK
    <3>2. OnlyNoted(Commands[k])
      BY <3>1, AcceptedTimeout
    <3>. QED  BY <3>1, <3>2
  <2>3. CASE k > position
    BY <2>3 DEF ToolsInv, SequenceOK
  <2>. QED  BY <2>0, <2>1, <2>2, <2>3
<1>. QED  BY <1>1, ToolsHold, PTL

(* Whatever a tool answers once it was asked to end, it has not passed.      *)
THEOREM LateAnswersDoNotPass == Spec => LateAnswerIsNoSuccess
<1>. DEFINE Late ==
       (pc \in {"asked", "killed"} /\ results' # results) =>
         LET command == Commands[position] IN
         /\ Last(results').status = "TIMED_OUT"
         /\ ~OnlyNoted(command) => pc' = "failed"
<1>1. ToolsInv /\ [Next]_vars => [Late]_tools
  <2>. SUFFICES ASSUME ToolsInv, [Next]_vars, pc \in {"asked", "killed"}, results' # results
                PROVE  /\ Last(results').status = "TIMED_OUT"
                       /\ ~OnlyNoted(Commands[position]) => pc' = "failed"
    OBVIOUS
  <2>1. AfterTerm \/ AfterKill
    BY ToolSteps DEF ToolStep, Run, CallIsort, Launch, LaunchFails, NoGit, Collect, Timeout,
                     Complete, ReadEnds, IsNext, Interrupt, Exit
  <2>2. Conclude("TIMED_OUT", 0)
    BY <2>1 DEF AfterTerm, AfterKill, Finish
  <2>3. Last(results') = [status |-> "TIMED_OUT", code |-> 0]
    <3>1. PICK result : result = [status |-> "TIMED_OUT", code |-> 0]
      OBVIOUS
    <3>2. results' = Append(results, result) /\ result \in [status : Statuses, code : Codes]
      BY <2>2, <3>1 DEF Conclude, Statuses, Codes
    <3>3. results \in Seq([status : Statuses, code : Codes])
      BY DEF ToolsInv, ToolsTypeOK
    <3>4. Len(results') = Len(results) + 1 /\ results'[Len(results) + 1] = result
      BY <3>2, <3>3
    <3>. QED  BY <3>1, <3>4 DEF Last
  <2>4. ~OnlyNoted(Commands[position]) => pc' = "failed"
    BY <2>2, AcceptedTimeout DEF Conclude, Stops
  <2>. QED  BY <2>3, <2>4
<1>2. Spec => [][Late]_tools
  BY <1>1, ToolsHold, PTL DEF Spec
<1>. QED  BY <1>2 DEF LateAnswerIsNoSuccess

(* No tool touches or judges a file before it accepted the planned content   *)
(* of it, and no check runs unless every tool before it passed.              *)
THEOREM InputIsAcceptedFirst == Spec => []ToolsRunOnAcceptedInput
<1>1. ToolsInv => ToolsRunOnAcceptedInput
  <2>. SUFFICES ASSUME ToolsInv, NEW k \in DOMAIN Commands, Commands[k].stage \in Later,
                       leader[k] # "none"
                PROVE  /\ \A path \in Commands[k].on : \E i \in DOMAIN results :
                            /\ Commands[i].stage = "preflight"
                            /\ Commands[i].tool = Commands[k].tool
                            /\ Commands[i].on = {path} /\ Commands[i].input = "planned"
                            /\ results[i].status \in {"PASSED", "FAILED"}
                       /\ \A i \in 1..(k - 1) :
                            Commands[i].stage \in Later => results[i].status = "PASSED"
    BY DEF ToolsRunOnAcceptedInput
  <2>0. /\ kind \in Kind /\ position \in Nat /\ Len(Commands) \in Nat
        /\ k \in 1..Len(Commands) /\ DOMAIN results = 1..Len(results)
    BY CommandsType DEF ToolsInv, ToolsTypeOK
  <2>1. k <= position
    BY <2>0 DEF ToolsInv, SequenceOK
  <2>2. ASSUME NEW i \in 1..(k - 1)
        PROVE  /\ Accepted(Commands[i], results[i].status, results[i].code)
               /\ i \in DOMAIN results
    BY <2>0, <2>1 DEF ToolsInv, SequenceOK
  <2>3. ASSUME NEW path \in Commands[k].on
        PROVE  \E i \in DOMAIN results :
                 /\ Commands[i].stage = "preflight" /\ Commands[i].tool = Commands[k].tool
                 /\ Commands[i].on = {path} /\ Commands[i].input = "planned"
                 /\ results[i].status \in {"PASSED", "FAILED"}
    <3>1. PICK i \in 1..(k - 1) :
            Commands[i] = Command("preflight", Commands[k].tool, {path}, "planned")
      BY <2>0, <2>3, CommandsAre DEF Commands
    <3>2. /\ Commands[i].stage = "preflight" /\ Commands[i].tool = Commands[k].tool
          /\ Commands[i].on = {path} /\ Commands[i].input = "planned"
      BY <3>1 DEF Command
    <3>3. results[i].status \in {"PASSED", "FAILED"}
      BY <2>2, <3>2 DEF Accepted, OnlyNoted, GitVersion, Command
    <3>. QED  BY <2>2, <3>2, <3>3
  <2>4. ASSUME NEW i \in 1..(k - 1), Commands[i].stage \in Later
        PROVE  results[i].status = "PASSED"
    BY <2>2, <2>4 DEF Accepted, OnlyNoted, GitVersion, Command, Later
  <2>. QED  BY <2>3, <2>4
<1>. QED  BY <1>1, ToolsHold, PTL

-----------------------------------------------------------------------------
(* What a job observes *)

Nodes == [type : Kinds, version : Nat]
Entries == [path : Path, node : Nodes, digest : {<<>>} \cup (Nat \X Nat)]
Readings ==
  [stage : {"none"}] \cup [stage : {"seen"}, path : Path, seen : Nodes]
    \cup [stage : {"open"}, path : Path, seen : Nodes, opened : Nodes, handle : Nodes,
          first : Nat]

TypeOK ==
  /\ phase \in {"preflight", "baseline", "effects", "ledger", "tools", "actions", "cleaning",
                "final", "passed", "failed"}
  /\ tree \in [Path -> Nodes]
  /\ walk \in [pending : Seq(DOMAIN Children), children : SUBSET (Path \ Ignored),
               subdirs : Seq(DOMAIN Children), reading : Readings, entries : SUBSET Entries]
  /\ baseline \in SUBSET Entries
  /\ reads \in Seq(Entries)
  /\ ledger \in [known : Nat, directories : SUBSET Path, others : SUBSET Path,
                 entries : SUBSET Path]
  /\ sweep \in [left : 0..Len(Caches), open : BOOLEAN, items : SUBSET Path,
                unresolved : BOOLEAN]
  /\ failing \in BOOLEAN
  /\ before \in [Path -> Nodes]
  /\ touched \in SUBSET Path /\ kept \in SUBSET Path
  /\ changes \in Nat

(* The directories stand, and no version comes back.                         *)
TreeOK ==
  /\ IsTree(tree)
  /\ \A path \in Path : tree[path].version <= changes + 1

(* Where the listing of a job is fresh, and where the sweep is.              *)
PhaseOK ==
  /\ phase \notin {"baseline", "final", "actions", "passed"} => walk = Start
  /\ phase = "actions" => walk = [Start EXCEPT !.reading = walk.reading]
  /\ walk.reading.stage = "none" => walk.reading = NotReading
  /\ phase \notin {"cleaning", "final", "passed", "failed"} => sweep = Sweep
  /\ sweep.open = TRUE => sweep.left # 0
  /\ phase = "passed" => failing = FALSE

ObservationInv == TypeOK /\ TreeOK /\ PhaseOK

-----------------------------------------------------------------------------
(* Reads of one moment *)

OfOneMoment(entry) ==
  entry.node.type = "file" => entry.digest = <<entry.node.version, entry.node.version>>

(* An inventory opens what it saw; what an audit opened is what it saw as    *)
(* long as the path is as it was seen, for what was seen never comes back.   *)
ReadingOK ==
  /\ walk.reading.stage = "open" => walk.reading.first = walk.reading.opened.version
  /\ phase = "actions" /\ walk.reading.stage # "none" =>
       /\ walk.reading.seen.type = "file"
       /\ walk.reading.seen.version <= changes + 1
       /\ walk.reading.stage = "open" /\ tree[walk.reading.path] = walk.reading.seen =>
            walk.reading.opened = walk.reading.seen /\ walk.reading.handle = walk.reading.seen
  /\ phase # "actions" /\ walk.reading.stage = "open" =>
       walk.reading.opened = walk.reading.seen

ReadsInv ==
  /\ ReadingOK
  /\ \A entry \in walk.entries \cup baseline \cup Range(reads) : OfOneMoment(entry)

-----------------------------------------------------------------------------
(* The sweep of the caches *)

(* Caches that are dealt with, unless something is left unresolved, hold     *)
(* nothing but what was kept or was touched meanwhile.                       *)
Rest(cache) == {path \in Present(cache) \cup {cache} : Exists(path)} \ (kept \cup touched)

LedgerOK ==
  /\ kept = ledger.directories \cup ledger.others \cup ledger.entries
  /\ ledger.directories \cup ledger.others \subseteq Range(Caches)
  /\ ledger.entries \cap Range(Caches) = {}

SweepOK ==
  /\ sweep.open = TRUE => Cache \notin ledger.others /\ sweep.items \cap ledger.entries = {}
  /\ kind = "patch" /\ phase \in {"cleaning", "final", "passed"} /\ sweep.unresolved = FALSE =>
       /\ \A i \in (sweep.left + 1)..Len(Caches) : Rest(Caches[i]) = {}
       /\ sweep.open = TRUE => Rest(Cache) \subseteq sweep.items \cup {Cache}
  /\ kind = "patch" /\ phase \in {"final", "passed"} =>
       sweep.left = 0 /\ sweep.unresolved = FALSE

SweepInv == LedgerOK /\ SweepOK

-----------------------------------------------------------------------------
(* The listings *)

Listed(path) == \E entry \in walk.entries : entry.path = path
BeingRead(path) == walk.reading.stage # "none" /\ walk.reading.path = path

(* Paths that cannot have changed since the listing began: each exists, in   *)
(* one that does, and either nothing touched it or it holds another.         *)
Standing(group) ==
  \A path \in group :
    /\ Exists(path) /\ path \notin Ignored
    /\ Parent(path) = Root \/ Parent(path) \in group
    /\ path \notin touched \/ \E below \in group : Parent(below) = path

(* Such a path is in the listing, on the way, or in a directory that has yet *)
(* to be listed.                                                             *)
Accounted(path) ==
  \/ Listed(path) \/ BeingRead(path) \/ path \in walk.children
  \/ Parent(path) \in Range(Stack)
  \/ Parent(path) # Root /\ ~Listed(Parent(path))

(* What was noted of a path is what it is. *)
Current(path) ==
  /\ \A entry \in walk.entries : entry.path = path =>
       entry.node = tree[path] /\ entry.node.type # "absent"
  /\ BeingRead(path) => walk.reading.seen = tree[path] /\ walk.reading.seen.type = "file"

WalkInv ==
  Capturing =>
    /\ \A path \in Path \ touched : Current(path)
    /\ \A group \in SUBSET Path : Standing(group) =>
         \A path \in group : Current(path) /\ Accounted(path)

BaselineInv ==
  phase \notin {"preflight", "baseline", "failed"} =>
    /\ \A path \in Path \ (Ignored \cup touched) :
         before[path].type # "absent" => \E entry \in baseline : entry.path = path
    /\ \A entry \in baseline : entry.path \notin touched =>
         entry.node = before[entry.path] /\ entry.node.type # "absent"

(* What is not there has no version.                                         *)
AbsenceOK ==
  \A path \in Path :
    /\ tree[path].type = "absent" => tree[path].version = 0
    /\ before[path].type = "absent" => before[path].version = 0

FoundInv == WalkInv /\ BaselineInv /\ AbsenceOK /\ WorkspaceIsAsFound

-----------------------------------------------------------------------------
(* Directories, and what is in them *)

LEMMA ParentIs ==
  ASSUME NEW path \in Path
  PROVE  Parent(path) \in DOMAIN Children /\ path \in Children[Parent(path)]
  BY ObservationAssumption DEF Parent

LEMMA ChildrenAre ==
  ASSUME NEW directory \in DOMAIN Children
  PROVE  /\ Children[directory] \subseteq Path /\ Present(directory) \subseteq Path
         /\ directory \in Path \cup {Root}
  BY ObservationAssumption DEF Present

LEMMA FirstIs ==
  ASSUME NEW names, names # {}
  PROVE  First(names) \in names
  BY DEF First

LEMMA DirectoryIs ==
  ASSUME IsTree(tree), NEW directory \in Path \cup {Root}, IsDirectory(directory)
  PROVE  directory \in DOMAIN Children
<1>1. CASE directory = Root
  BY <1>1, ObservationAssumption
<1>2. CASE directory # Root
  BY <1>2 DEF IsTree, IsDirectory
<1>. QED  BY <1>1, <1>2

(* What is no directory holds nothing.                                       *)
LEMMA NothingInside ==
  ASSUME IsTree(tree), NEW path \in Path, tree[path].type # "directory",
         NEW below \in Path, Parent(below) = path
  PROVE  ~Exists(below)
<1>1. path # Root
  BY ObservationAssumption
<1>. QED  BY <1>1 DEF IsTree, Exists

(* A change at one path keeps the tree a tree.                               *)
LEMMA TreeKept ==
  ASSUME IsTree(tree), tree \in [Path -> Nodes], NEW path \in Path, NEW node \in Nodes,
         node.type = "directory" => path \in DOMAIN Children,
         node.type # "absent" => Parent(path) = Root \/ tree[Parent(path)].type = "directory",
         tree[path].type = "directory" =>
           \A below \in Path : Parent(below) = path => ~Exists(below)
  PROVE  IsTree([tree EXCEPT ![path] = node])
<1>. DEFINE after == [tree EXCEPT ![path] = node]
<1>1. after[path] = node /\ \A other \in Path : other # path => after[other] = tree[other]
  OBVIOUS
<1>. HIDE DEF after
<1>2. ASSUME NEW other \in Path
      PROVE  /\ after[other].type # "absent" =>
                  Parent(other) = Root \/ after[Parent(other)].type = "directory"
             /\ after[other].type = "directory" => other \in DOMAIN Children
  <2>1. Parent(other) = path => ~Exists(other)
    BY NothingInside
  <2>2. Parent(other) = Root \/ Parent(other) \in Path
    BY ParentIs, ChildrenAre
  <2>3. Root \notin Path
    BY ObservationAssumption
  <2>4. ASSUME after[other].type # "absent"
        PROVE  Parent(other) = Root \/ after[Parent(other)].type = "directory"
    <3>1. CASE other = path
      <4>1. Parent(path) = Root \/ tree[Parent(path)].type = "directory"
        BY <1>1, <2>4, <3>1
      <4>2. Parent(path) = path => ~Exists(path)
        BY <2>1, <3>1
      <4>3. Parent(path) # path
        BY <4>1, <4>2, <2>3 DEF Exists
      <4>. QED  BY <1>1, <2>2, <3>1, <4>1, <4>3
    <3>2. CASE other # path
      <4>1. Exists(other)
        BY <1>1, <2>4, <3>2 DEF Exists
      <4>2. Parent(other) # path
        BY <2>1, <4>1
      <4>. QED  BY <1>1, <2>2, <4>1, <4>2 DEF IsTree, Exists
    <3>. QED  BY <3>1, <3>2
  <2>5. after[other].type = "directory" => other \in DOMAIN Children
    BY <1>1 DEF IsTree
  <2>. QED  BY <2>4, <2>5
<1>. QED  BY <1>2 DEF IsTree, after

(* What a step may do to the tree: set one path, or write the declared ones. *)
LEMMA TreeCases ==
  ASSUME [Next]_vars
  PROVE  tree' = tree \/ Apply \/ RemoveEntry \/ RemoveCache \/ Change
<1>1. CASE UNCHANGED vars
  BY <1>1 DEF vars
<1>2. CASE Work /\ ~Apply /\ ~RemoveEntry /\ ~RemoveCache
  BY <1>2 DEF Work, UseTools, PreflightEnds, ToolsDone, Scan, Visit, OpenFile, CloseFile,
              ObservationFails, BaselineDone, Compare, ReadNext, TakeRead,
              ApplyFails, NoteCache, LedgerDone, OpenCache, CleaningDone
<1>3. CASE InterruptJob \/ ToolExits
  BY <1>3 DEF InterruptJob, ToolExits
<1>. QED  BY <1>1, <1>2, <1>3 DEF Next

(* What others do: one path gets a new version, or something else takes its  *)
(* place, if it can.                                                         *)
LEMMA ChangeIs ==
  ASSUME TypeOK, TreeOK, Change
  PROVE  \E path \in Path, node \in Nodes :
           /\ tree' = [tree EXCEPT ![path] = node]
           /\ touched' = IF phase \in {"baseline", "cleaning", "final"}
                           THEN touched \cup {path} ELSE touched
           /\ node.type = "directory" => path \in DOMAIN Children
           /\ node.type # "absent" => Parent(path) = Root \/ tree[Parent(path)].type = "directory"
           /\ tree[path].type = "directory" =>
                \A below \in Path : Parent(below) = path => ~Exists(below)
           /\ node.type # "file" \/ node.version = changes + 2
           /\ node.version <= changes + 2
           /\ node.type = "absent" => node.version = 0
           /\ \/ /\ tree[path].type = "file" /\ node = Node("file", changes + 2)
                 /\ walk' = IF /\ walk.reading.stage = "open" /\ walk.reading.path = path
                               /\ walk.reading.handle = tree[path]
                              THEN [walk EXCEPT !.reading.handle = node]
                              ELSE walk
              \/ walk' = walk
<1>1. PICK path \in Path :
         /\ Parent(path) = Root \/ IsDirectory(Parent(path))
         /\ \/ /\ tree[path].type = "file"
               /\ tree' = [tree EXCEPT ![path] = Node("file", changes + 2)]
               /\ walk' = IF /\ walk.reading.stage = "open" /\ walk.reading.path = path
                             /\ walk.reading.handle = tree[path]
                            THEN [walk EXCEPT !.reading.handle = Node("file", changes + 2)]
                            ELSE walk
            \/ /\ \E node \in {Absent, Directory, Node("file", changes + 2),
                               Node("link", changes + 2)} :
                    /\ node # tree[path]
                    /\ IsDirectory(path) => path \notin DOMAIN Children \/ Present(path) = {}
                    /\ node = Directory => path \in DOMAIN Children
                    /\ tree' = [tree EXCEPT ![path] = node]
               /\ UNCHANGED walk
         /\ touched' = IF phase \in {"baseline", "cleaning", "final"}
                         THEN touched \cup {path} ELSE touched
  BY DEF Change
<1>2. /\ Node("file", changes + 2) \in Nodes /\ Node("link", changes + 2) \in Nodes
      /\ Absent \in Nodes /\ Directory \in Nodes
      /\ Absent.type = "absent" /\ Directory.type = "directory"
      /\ Node("file", changes + 2).type = "file" /\ Node("link", changes + 2).type = "link"
      /\ Absent.version = 0 /\ Directory.version = 0
      /\ Node("file", changes + 2).version = changes + 2
      /\ Node("link", changes + 2).version = changes + 2
  BY DEF Node, Nodes, Kinds, Absent, Directory, TypeOK
<1>3. /\ changes \in Nat
      /\ Parent(path) = Root \/ tree[Parent(path)].type = "directory"
  BY <1>1 DEF TypeOK, IsDirectory
<1>4. CASE /\ tree[path].type = "file"
           /\ tree' = [tree EXCEPT ![path] = Node("file", changes + 2)]
           /\ walk' = IF /\ walk.reading.stage = "open" /\ walk.reading.path = path
                         /\ walk.reading.handle = tree[path]
                        THEN [walk EXCEPT !.reading.handle = Node("file", changes + 2)]
                        ELSE walk
  <2>1. PICK node \in Nodes : node = Node("file", changes + 2)
    BY <1>2
  <2>2. node.type = "file" /\ node.version = changes + 2 /\ changes + 2 <= changes + 2
    <3>1. changes + 2 <= changes + 2
      BY <1>3
    <3>. QED  BY <1>2, <2>1, <3>1
  <2>3. Parent(path) = Root \/ tree[Parent(path)].type = "directory"
    BY <1>1, <1>3
  <2>4. tree' = [tree EXCEPT ![path] = node]
    BY <1>4, <2>1
  <2>5. walk' = IF /\ walk.reading.stage = "open" /\ walk.reading.path = path
                   /\ walk.reading.handle = tree[path]
                  THEN [walk EXCEPT !.reading.handle = node]
                  ELSE walk
    BY <1>4, <2>1
  <2>6. /\ node.type = "directory" => path \in DOMAIN Children
        /\ tree[path].type = "directory" =>
                \A below \in Path : Parent(below) = path => ~Exists(below)
        /\ node.version <= changes + 2
        /\ node.type = "absent" => node.version = 0
    BY <1>4, <2>2
  <2>. QED  BY <1>1, <1>4, <2>1, <2>2, <2>3, <2>4, <2>5, <2>6
<1>5. CASE walk' = walk /\
           \E node \in {Absent, Directory, Node("file", changes + 2),
                        Node("link", changes + 2)} :
              /\ node # tree[path]
              /\ IsDirectory(path) => path \notin DOMAIN Children \/ Present(path) = {}
              /\ node = Directory => path \in DOMAIN Children
              /\ tree' = [tree EXCEPT ![path] = node]
  <2>1. PICK node \in {Absent, Directory, Node("file", changes + 2),
                       Node("link", changes + 2)} :
              /\ IsDirectory(path) => path \notin DOMAIN Children \/ Present(path) = {}
              /\ node = Directory => path \in DOMAIN Children
              /\ tree' = [tree EXCEPT ![path] = node]
    BY <1>5
  <2>2. ASSUME tree[path].type = "directory", NEW below \in Path, Parent(below) = path
        PROVE  ~Exists(below)
    <3>1. Present(path) = {}
      BY <2>1, <2>2, ObservationAssumption DEF TreeOK, IsTree, IsDirectory
    <3>. QED  BY <2>2, <3>1, ParentIs DEF Present
  <2>3. /\ node \in Nodes /\ (node.type = "directory" => path \in DOMAIN Children)
        /\ node.type # "file" \/ node.version = changes + 2
        /\ node.version <= changes + 2
        /\ node.type = "absent" => node.version = 0
    <3>1. changes \in Nat /\ 0 <= changes + 2 /\ changes + 2 <= changes + 2
      BY DEF TypeOK
    <3>2. CASE node = Absent
      BY <1>2, <3>1, <3>2
    <3>3. CASE node = Directory
      BY <1>2, <2>1, <3>1, <3>3
    <3>4. CASE node = Node("file", changes + 2)
      BY <1>2, <3>1, <3>4
    <3>5. CASE node = Node("link", changes + 2)
      BY <1>2, <3>1, <3>5
    <3>. QED  BY <2>1, <3>2, <3>3, <3>4, <3>5
  <2>4. Parent(path) = Root \/ tree[Parent(path)].type = "directory"
    BY <1>1, <1>3
  <2>. QED  BY <1>1, <1>5, <2>1, <2>2, <2>3, <2>4
<1>. QED  BY <1>1, <1>4, <1>5

-----------------------------------------------------------------------------
(* Types, the tree, and where the walk and the sweep are *)

LEMMA FailIs ==
  ASSUME Fail
  PROVE  /\ walk' = Start
         /\ \/ /\ phase \in {"tools", "cleaning", "final"} /\ kind = "patch" /\ phase' = "cleaning"
               /\ failing' = TRUE /\ sweep' = Sweep
            \/ phase' = "failed" /\ UNCHANGED <<failing, sweep>>
  BY DEF Fail

LEMMA StartIs ==
  /\ Start \in [pending : Seq(DOMAIN Children), children : SUBSET (Path \ Ignored),
                subdirs : Seq(DOMAIN Children), reading : Readings, entries : SUBSET Entries]
  /\ Sweep \in [left : 0..Len(Caches), open : BOOLEAN, items : SUBSET Path,
                unresolved : BOOLEAN]
  /\ Sweep.open = FALSE /\ Start.reading = NotReading /\ NotReading.stage = "none"
  /\ Start.entries = {} /\ Start.pending = <<Root>> /\ Start.subdirs = <<>>
  /\ Start.children = {} /\ Sweep.left = Len(Caches) /\ Sweep.unresolved = FALSE
<1>1. Root \in DOMAIN Children
  BY ObservationAssumption
<1>2. <<Root>> \in Seq(DOMAIN Children) /\ <<>> \in Seq(DOMAIN Children)
  <2>1. PICK directories : directories = DOMAIN Children
    OBVIOUS
  <2>2. <<Root>> \in Seq(directories) /\ <<>> \in Seq(directories)
    BY <1>1, <2>1
  <2>. QED  BY <2>1, <2>2
<1>3. NotReading \in Readings /\ NotReading.stage = "none"
  <2>1. NotReading \in [stage : {"none"}]
    BY DEF NotReading
  <2>. QED  BY <2>1 DEF Readings
<1>4. Len(Caches) \in Nat /\ Len(Caches) \in 0..Len(Caches)
  <2>1. Len(Caches) \in Nat
    BY ObservationAssumption, LenProperties
  <2>. QED  BY <2>1
<1>5. /\ Start \in [pending : Seq(DOMAIN Children), children : SUBSET (Path \ Ignored),
                    subdirs : Seq(DOMAIN Children), reading : Readings, entries : SUBSET Entries]
      /\ Start.reading = NotReading /\ Start.entries = {} /\ Start.pending = <<Root>>
      /\ Start.subdirs = <<>> /\ Start.children = {}
  <2>1. PICK top \in Seq(DOMAIN Children), none \in Seq(DOMAIN Children), still \in Readings :
          top = <<Root>> /\ none = <<>> /\ still = NotReading
    BY <1>2, <1>3
  <2>2. Start = [pending |-> top, children |-> {}, subdirs |-> none, reading |-> still,
                 entries |-> {}]
    BY <2>1 DEF Start
  <2>. QED  BY <2>1, <2>2
<1>6. /\ Sweep \in [left : 0..Len(Caches), open : BOOLEAN, items : SUBSET Path,
                    unresolved : BOOLEAN]
      /\ Sweep.open = FALSE /\ Sweep.left = Len(Caches) /\ Sweep.unresolved = FALSE
  BY <1>4 DEF Sweep
<1>. QED  BY <1>3, <1>5, <1>6

LEMMA ChangesGrow ==
  ASSUME [Next]_vars
  PROVE  /\ changes' = changes \/ Change
         /\ Change => changes' = changes + 1
<1>1. ASSUME UNCHANGED vars PROVE changes' = changes
  BY <1>1 DEF vars, history
<1>2. ASSUME Work PROVE changes' = changes
  BY <1>2 DEF Work, UseTools, PreflightEnds, ToolsDone, Scan, Visit, OpenFile, CloseFile,
              ObservationFails, BaselineDone, Compare, ReadNext, TakeRead, Apply,
              ApplyFails, NoteCache, LedgerDone, OpenCache, RemoveEntry, RemoveCache,
              CleaningDone, history
<1>3. ASSUME InterruptJob \/ ToolExits PROVE changes' = changes
  BY <1>3 DEF InterruptJob, ToolExits, history
<1>4. Change => changes' = changes + 1
  BY DEF Change
<1>. QED  BY <1>1, <1>2, <1>3, <1>4 DEF Next

LEMMA NodesAre ==
  /\ Absent \in Nodes /\ Absent.type = "absent" /\ Absent.version = 0
  /\ Node("file", 1) \in Nodes /\ Node("file", 1).type = "file"
  /\ Node("file", 1).version = 1
  BY DEF Node, Nodes, Kinds, Absent

LEMMA NextTree ==
  ASSUME ObservationInv, [Next]_vars
  PROVE  tree' \in [Path -> Nodes] /\ TreeOK' /\ changes' \in Nat
<1>0. /\ tree \in [Path -> Nodes] /\ changes \in Nat /\ IsTree(tree)
      /\ \A path \in Path : tree[path].version <= changes + 1
      /\ changes' \in Nat /\ changes <= changes'
  BY ChangesGrow DEF ObservationInv, TypeOK, TreeOK
<1>1. CASE tree' = tree
  <2>1. IsTree(tree')
    BY <1>0, <1>1
  <2>2. \A path \in Path : tree'[path].version <= changes' + 1
    <3>1. ASSUME NEW path \in Path PROVE tree[path].version <= changes' + 1
      <4>1. PICK v \in Nat : v = tree[path].version
        BY <1>0 DEF Nodes
      <4>. QED  BY <1>0, <4>1
    <3>. QED  BY <1>1, <3>1
  <2>. QED  BY <1>0, <1>1, <2>1, <2>2 DEF TreeOK, IsTree
<1>2. ASSUME NEW path \in Path, tree' = [tree EXCEPT ![path] = Absent],
             tree[path].type = "directory" =>
               \A below \in Path : Parent(below) = path => ~Exists(below)
      PROVE  tree' \in [Path -> Nodes] /\ TreeOK'
  <2>1. IsTree(tree')
    BY <1>0, <1>2, NodesAre, TreeKept
  <2>2. ASSUME NEW other \in Path PROVE tree'[other].version <= changes' + 1
    <3>1. CASE other = path
      BY <1>0, <1>2, <3>1, NodesAre
    <3>2. CASE other # path
      <4>1. PICK v \in Nat : v = tree[other].version
        BY <1>0 DEF Nodes
      <4>2. tree'[other] = tree[other]
        BY <1>0, <1>2, <3>2
      <4>. QED  BY <1>0, <4>1, <4>2
    <3>. QED  BY <3>1, <3>2
  <2>3. tree' \in [Path -> Nodes]
    BY <1>0, <1>2, NodesAre
  <2>. QED  BY <2>1, <2>2, <2>3 DEF TreeOK, IsTree
<1>3. CASE RemoveEntry
  <2>1. First(sweep.items) \in Path
    BY <1>3, FirstIs DEF RemoveEntry, ObservationInv, TypeOK
  <2>2. \/ tree' = tree
        \/ /\ tree' = [tree EXCEPT ![First(sweep.items)] = Absent]
           /\ tree[First(sweep.items)].type = "file"
    BY <1>3 DEF RemoveEntry, Removed
  <2>. QED  BY <1>0, <1>1, <1>2, <2>1, <2>2
<1>4. CASE RemoveCache
  <2>1. Cache \in Path
    <3>1. sweep.left \in 1..Len(Caches)
      BY <1>4 DEF RemoveCache, ObservationInv, TypeOK, PhaseOK
    <3>. QED  BY <3>1, ObservationAssumption, LenProperties DEF Cache
  <2>2. \/ tree' = tree
        \/ tree' = [tree EXCEPT ![Cache] = Absent] /\ Present(Cache) = {}
    BY <1>4 DEF RemoveCache, Removed
  <2>3. ASSUME Present(Cache) = {}, NEW below \in Path, Parent(below) = Cache
        PROVE  ~Exists(below)
    BY <2>3, ParentIs DEF Present
  <2>. QED  BY <1>0, <1>1, <1>2, <2>1, <2>2, <2>3
<1>5. CASE Change
  <2>1. PICK path \in Path, node \in Nodes :
           /\ tree' = [tree EXCEPT ![path] = node]
           /\ node.type = "directory" => path \in DOMAIN Children
           /\ node.type # "absent" => Parent(path) = Root \/ tree[Parent(path)].type = "directory"
           /\ tree[path].type = "directory" =>
                \A below \in Path : Parent(below) = path => ~Exists(below)
           /\ node.version <= changes + 2
    BY <1>5, ChangeIs DEF ObservationInv
  <2>2. IsTree(tree')
    BY <1>0, <2>1, TreeKept
  <2>3. ASSUME NEW other \in Path PROVE tree'[other].version <= changes' + 1
    <3>0. changes' = changes + 1
      BY <1>5, ChangesGrow
    <3>1. PICK v \in Nat : v = tree[other].version /\ v <= changes + 1
      BY <1>0 DEF Nodes
    <3>2. tree'[other] = IF other = path THEN node ELSE tree[other]
      BY <1>0, <2>1
    <3>3. PICK w \in Nat : w = node.version /\ w <= changes + 2
      BY <2>1 DEF Nodes
    <3>. QED  BY <1>0, <3>0, <3>1, <3>2, <3>3
  <2>4. tree' \in [Path -> Nodes]
    BY <1>0, <2>1
  <2>. QED  BY <1>0, <2>2, <2>3, <2>4 DEF TreeOK, IsTree
<1>6. CASE Apply
  <2>1. /\ tree' = [path \in Path |-> IF path \in Declared THEN Node("file", 1) ELSE tree[path]]
        /\ \A path \in Declared :
             /\ tree[path].type \in {"absent", "file"}
             /\ Parent(path) = Root \/ tree[Parent(path)].type = "directory"
    BY <1>6 DEF Apply, IsDirectory
  <2>2. PICK node \in Nodes : node = Node("file", 1) /\ node.type = "file" /\ node.version = 1
    BY NodesAre
  <2>3. \A path \in Path : tree'[path] = IF path \in Declared THEN node ELSE tree[path]
    BY <2>1, <2>2
  <2>4. tree' \in [Path -> Nodes]
    BY <1>0, <2>1, <2>2
  <2>5. ASSUME NEW path \in Path
        PROVE  /\ tree'[path].type # "absent" =>
                    Parent(path) = Root \/ tree'[Parent(path)].type = "directory"
               /\ tree'[path].type = "directory" => path \in DOMAIN Children
    <3>1. Parent(path) = Root \/ Parent(path) \in Path
      BY ParentIs, ChildrenAre
    <3>2. tree'[path].type # "absent" =>
            Parent(path) = Root \/ tree[Parent(path)].type = "directory"
      BY <1>0, <2>1, <2>3 DEF IsTree
    <3>3. ASSUME Parent(path) \in Path, tree[Parent(path)].type = "directory"
          PROVE  tree'[Parent(path)].type = "directory"
      BY <2>1, <2>3, <3>3
    <3>4. tree'[path].type = "directory" => path \in DOMAIN Children
      BY <1>0, <2>2, <2>3 DEF IsTree
    <3>. QED  BY <3>1, <3>2, <3>3, <3>4
  <2>6. ASSUME NEW path \in Path PROVE tree'[path].version <= changes' + 1
    <3>1. PICK v \in Nat : v = tree[path].version /\ v <= changes + 1
      BY <1>0 DEF Nodes
    <3>. QED  BY <1>0, <2>2, <2>3, <3>1
  <2>. QED  BY <1>0, <2>4, <2>5, <2>6 DEF TreeOK, IsTree
<1>. QED  BY <1>0, <1>1, <1>3, <1>4, <1>5, <1>6, TreeCases

(* The directories that have yet to be listed.                               *)
LEMMA RangeOfReverse ==
  ASSUME NEW S, NEW s \in Seq(S)
  PROVE  Reverse(s) \in Seq(S) /\ Range(Reverse(s)) = Range(s)
<1>1. Len(s) \in Nat /\ DOMAIN s = 1..Len(s) /\ s \in [1..Len(s) -> S]
  BY LenProperties
<1>2. \A i \in 1..Len(s) : (Len(s) - i) + 1 \in 1..Len(s)
  BY <1>1
<1>3. Reverse(s) = [i \in 1..Len(s) |-> s[(Len(s) - i) + 1]]
  BY DEF Reverse
<1>4. Reverse(s) \in Seq(S)
  BY <1>1, <1>2, <1>3
<1>5. DOMAIN Reverse(s) = DOMAIN s
  BY <1>1, <1>3
<1>6. ASSUME NEW x \in Range(s) PROVE x \in Range(Reverse(s))
  <2>1. PICK i \in 1..Len(s) : s[i] = x
    BY <1>1 DEF Range
  <2>2. (Len(s) - i) + 1 \in 1..Len(s) /\ (Len(s) - ((Len(s) - i) + 1)) + 1 = i
    BY <1>1
  <2>3. Reverse(s)[(Len(s) - i) + 1] = x
    BY <1>3, <2>1, <2>2
  <2>. QED  BY <1>1, <1>5, <2>2, <2>3 DEF Range
<1>7. ASSUME NEW x \in Range(Reverse(s)) PROVE x \in Range(s)
  <2>1. PICK i \in 1..Len(s) : Reverse(s)[i] = x
    BY <1>1, <1>5, <1>7 DEF Range
  <2>2. x = s[(Len(s) - i) + 1]
    BY <1>3, <2>1
  <2>. QED  BY <1>1, <1>2, <2>2 DEF Range
<1>. QED  BY <1>4, <1>6, <1>7

LEMMA StackIs ==
  ASSUME TypeOK
  PROVE  /\ Stack \in Seq(DOMAIN Children)
         /\ Range(Stack) = Range(walk.pending) \cup Range(walk.subdirs)
         /\ Stack # <<>> =>
              /\ Last(Stack) \in DOMAIN Children /\ Front(Stack) \in Seq(DOMAIN Children)
              /\ Range(Stack) = Range(Front(Stack)) \cup {Last(Stack)}
<1>. DEFINE S == DOMAIN Children
<1>1. walk.pending \in Seq(S) /\ walk.subdirs \in Seq(S)
  BY DEF TypeOK
<1>. HIDE DEF S
<1>2. PICK p \in Seq(S), r \in Seq(S) : p = walk.pending /\ r = Reverse(walk.subdirs)
  BY <1>1, RangeOfReverse
<1>3. Range(r) = Range(walk.subdirs)
  BY <1>1, <1>2, RangeOfReverse
<1>4. Stack = p \o r
  BY <1>2 DEF Stack
<1>5. p \o r \in Seq(S) /\ Range(p \o r) = Range(p) \cup Range(r)
  BY ConcatProperties, RangeConcatenation
<1>6. PICK s \in Seq(S) : s = p \o r
  BY <1>5
<1>7. ASSUME s # <<>>
      PROVE  /\ Last(s) \in S /\ Front(s) \in Seq(S)
             /\ Range(s) = Range(Front(s)) \cup {Last(s)}
  <2>1. PICK n \in Nat : n = Len(s) /\ n # 0 /\ DOMAIN s = 1..n /\ s \in [1..n -> S]
    BY <1>7, EmptySeq, LenProperties
  <2>2. Front(s) = [i \in 1..(n - 1) |-> s[i]]
    BY <2>1 DEF Front
  <2>3. n - 1 \in Nat /\ 1..(n - 1) \subseteq 1..n /\ 1..n = 1..(n - 1) \cup {n}
    BY <2>1
  <2>4. Front(s) \in Seq(S)
    BY <2>1, <2>2, <2>3
  <2>5. DOMAIN Front(s) = 1..(n - 1) /\ \A i \in 1..(n - 1) : Front(s)[i] = s[i]
    BY <2>2
  <2>6. Last(s) = s[n] /\ n \in 1..n
    BY <2>1 DEF Last
  <2>7. Last(s) \in S
    BY <2>1, <2>6
  <2>8. Range(s) = Range(Front(s)) \cup {Last(s)}
    BY <2>1, <2>3, <2>5, <2>6 DEF Range
  <2>. QED  BY <2>4, <2>7, <2>8
<1>. QED  BY <1>2, <1>3, <1>4, <1>5, <1>6, <1>7 DEF S

LEMMA WalkCases ==
  ASSUME [Next]_vars
  PROVE  walk' = walk \/ walk' = Start \/ Scan \/ Visit \/ OpenFile \/ CloseFile \/ ReadNext
         \/ Change
<1>1. CASE UNCHANGED vars
  BY <1>1 DEF vars
<1>2. CASE ToolsDone \/ ObservationFails \/ Compare \/ CleaningDone \/ InterruptJob
  BY <1>2, FailIs DEF ToolsDone, ObservationFails, Compare, CleaningDone, InterruptJob,
                      Interrupted
<1>3. CASE \/ UseTools \/ PreflightEnds \/ BaselineDone \/ TakeRead \/ Apply \/ ApplyFails
           \/ NoteCache \/ LedgerDone \/ OpenCache \/ RemoveEntry \/ RemoveCache \/ ToolExits
  BY <1>3 DEF UseTools, PreflightEnds, BaselineDone, TakeRead, Apply, ApplyFails,
              NoteCache, LedgerDone, OpenCache, RemoveEntry, RemoveCache, ToolExits
<1>. QED  BY <1>1, <1>2, <1>3 DEF Next, Work

Walks == [pending : Seq(DOMAIN Children), children : SUBSET (Path \ Ignored),
          subdirs : Seq(DOMAIN Children), reading : Readings, entries : SUBSET Entries]

LEMMA ReadingIs ==
  ASSUME TypeOK, walk.reading.stage # "none"
  PROVE  /\ walk.reading.path \in Path /\ walk.reading.seen \in Nodes
         /\ walk.reading.stage \in {"seen", "open"}
         /\ walk.reading.stage = "open" =>
              /\ walk.reading.opened \in Nodes /\ walk.reading.handle \in Nodes
              /\ walk.reading.first \in Nat
              /\ walk.reading \in
                   [stage : {"open"}, path : Path, seen : Nodes, opened : Nodes,
                    handle : Nodes, first : Nat]
<1>1. walk.reading \in Readings
  BY DEF TypeOK
<1>2. PICK r \in Readings : r = walk.reading
  BY <1>1
<1>. QED  BY <1>2 DEF Readings

LEMMA NextWalk ==
  ASSUME ObservationInv, [Next]_vars
  PROVE  walk' \in Walks
<1>0. TypeOK /\ IsTree(tree) /\ walk \in Walks /\ tree \in [Path -> Nodes]
  BY DEF ObservationInv, TypeOK, TreeOK, Walks
<1>1. CASE walk' = walk \/ walk' = Start
  BY <1>0, <1>1, StartIs DEF Walks
<1>2. CASE Scan
  <2>1. /\ Stack # <<>>
        /\ walk' = [walk EXCEPT !.pending = Front(Stack), !.subdirs = <<>>,
                                !.children = Present(Last(Stack)) \ Ignored]
    BY <1>2 DEF Scan
  <2>2. /\ Front(Stack) \in Seq(DOMAIN Children)
        /\ Present(Last(Stack)) \ Ignored \in SUBSET (Path \ Ignored)
    BY <1>0, <2>1, StackIs, ChildrenAre
  <2>3. PICK front \in Seq(DOMAIN Children), names \in SUBSET (Path \ Ignored),
             none \in Seq(DOMAIN Children) :
          front = Front(Stack) /\ names = Present(Last(Stack)) \ Ignored /\ none = <<>>
    BY <2>2, EmptySeq
  <2>4. walk' = [walk EXCEPT !.pending = front, !.subdirs = none, !.children = names]
    BY <2>1, <2>3
  <2>. QED  BY <1>0, <2>4 DEF Walks
<1>3. CASE Visit
  <2>1. PICK path \in Path : path = First(walk.children)
    BY <1>0, <1>3, FirstIs DEF Visit, Walks
  <2>2. CASE tree[path].type = "file"
    <3>1. PICK reading : reading = [stage |-> "seen", path |-> path, seen |-> tree[path]]
      OBVIOUS
    <3>2. reading \in Readings
      BY <1>0, <3>1 DEF Readings
    <3>3. walk' = [walk EXCEPT !.children = @ \ {path}, !.reading = reading]
      BY <1>3, <2>1, <2>2, <3>1 DEF Visit
    <3>. QED  BY <1>0, <3>2, <3>3 DEF Walks
  <2>3. CASE tree[path].type # "file"
    <3>1. PICK entry : entry = Entry(path, tree[path], <<>>)
      OBVIOUS
    <3>2. entry \in Entries
      BY <1>0, <3>1 DEF Entries, Entry
    <3>3. PICK dirs : dirs = IF IsDirectory(path) THEN Append(walk.subdirs, path)
                                                  ELSE walk.subdirs
      OBVIOUS
    <3>4. dirs \in Seq(DOMAIN Children)
      <4>1. IsDirectory(path) => path \in DOMAIN Children
        BY <1>0, DirectoryIs
      <4>2. PICK s \in Seq(DOMAIN Children) : s = walk.subdirs
        BY <1>0 DEF Walks
      <4>3. ASSUME NEW d \in DOMAIN Children PROVE Append(s, d) \in Seq(DOMAIN Children)
        BY AppendProperties
      <4>. QED  BY <3>3, <4>1, <4>2, <4>3
    <3>5. walk' = [walk EXCEPT !.children = @ \ {path}, !.entries = @ \cup {entry},
                               !.subdirs = dirs]
      BY <1>3, <2>1, <2>3, <3>1, <3>3 DEF Visit
    <3>. QED  BY <1>0, <3>2, <3>4, <3>5 DEF Walks
  <2>. QED  BY <2>2, <2>3
<1>4. CASE OpenFile
  <2>1. walk.reading.path \in Path /\ walk.reading.seen \in Nodes
    BY <1>0, <1>4, ReadingIs DEF OpenFile
  <2>2. PICK node \in Nodes : node = tree[walk.reading.path]
    BY <1>0, <2>1
  <2>3. PICK reading :
          reading = [stage |-> "open", path |-> walk.reading.path, seen |-> walk.reading.seen,
                     opened |-> node, handle |-> node, first |-> node.version]
    OBVIOUS
  <2>4. node.version \in Nat
    BY DEF Nodes
  <2>5. reading \in Readings
    BY <2>1, <2>3, <2>4 DEF Readings
  <2>6. walk' = [walk EXCEPT !.reading = reading]
    BY <1>4, <2>2, <2>3 DEF OpenFile
  <2>. QED  BY <1>0, <2>5, <2>6 DEF Walks
<1>5. CASE CloseFile
  <2>1. /\ walk.reading.path \in Path /\ walk.reading.seen \in Nodes
        /\ walk.reading.handle \in Nodes /\ walk.reading.first \in Nat
    BY <1>0, <1>5, ReadingIs DEF CloseFile
  <2>2. PICK entry : entry = Entry(walk.reading.path, walk.reading.seen,
                                   <<walk.reading.first, walk.reading.handle.version>>)
    OBVIOUS
  <2>3. entry \in Entries
    <3>1. walk.reading.handle.version \in Nat
      BY <2>1 DEF Nodes
    <3>. QED  BY <2>1, <2>2, <3>1 DEF Entries, Entry
  <2>4. walk' = Start \/ walk' = [walk EXCEPT !.reading = NotReading, !.entries = @ \cup {entry}]
    BY <1>5, <2>2 DEF CloseFile
  <2>5. NotReading \in Readings
    BY StartIs DEF NotReading, Readings
  <2>. QED  BY <1>0, <1>1, <2>3, <2>4, <2>5 DEF Walks
<1>6. CASE ReadNext
  <2>1. PICK path \in Path :
          walk' = [walk EXCEPT !.reading =
                     [stage |-> "seen", path |-> path, seen |-> tree[path]]]
    BY <1>6 DEF ReadNext
  <2>2. PICK reading : reading = [stage |-> "seen", path |-> path, seen |-> tree[path]]
    OBVIOUS
  <2>3. reading \in Readings
    BY <1>0, <2>2 DEF Readings
  <2>4. walk' = [walk EXCEPT !.reading = reading]
    BY <2>1, <2>2
  <2>. QED  BY <1>0, <2>3, <2>4 DEF Walks
<1>7. CASE Change
  <2>1. PICK node \in Nodes :
          \/ /\ walk' = [walk EXCEPT !.reading.handle = node]
             /\ walk.reading.stage = "open"
          \/ walk' = walk
    BY <1>0, <1>7, ChangeIs DEF ObservationInv
  <2>2. CASE walk.reading.stage = "open" /\ walk' = [walk EXCEPT !.reading.handle = node]
    <3>1. PICK reading : reading = [walk.reading EXCEPT !.handle = node]
      OBVIOUS
    <3>2. reading \in Readings
      BY <1>0, <2>2, <3>1, ReadingIs DEF Readings
    <3>3. walk' = [walk EXCEPT !.reading = reading]
      BY <1>0, <2>2, <3>1 DEF Walks
    <3>. QED  BY <1>0, <3>2, <3>3 DEF Walks
  <2>. QED  BY <1>1, <2>1, <2>2
<1>. QED  BY <1>1, <1>2, <1>3, <1>4, <1>5, <1>6, <1>7, WalkCases

Phases == {"preflight", "baseline", "effects", "ledger", "tools", "actions", "cleaning",
           "final", "passed", "failed"}
Sweeps == [left : 0..Len(Caches), open : BOOLEAN, items : SUBSET Path, unresolved : BOOLEAN]

LEMMA SweepCases ==
  ASSUME [Next]_vars
  PROVE  sweep' = sweep \/ (sweep' = Sweep /\ phase' = "cleaning")
         \/ OpenCache \/ RemoveEntry \/ RemoveCache
<1>1. CASE UNCHANGED vars
  BY <1>1 DEF vars
<1>2. CASE ToolsDone \/ ObservationFails \/ Compare \/ CleaningDone \/ InterruptJob
  BY <1>2, FailIs DEF ToolsDone, ObservationFails, Compare, CleaningDone, InterruptJob,
                      Interrupted
<1>3. CASE \/ UseTools \/ PreflightEnds \/ BaselineDone \/ TakeRead \/ Apply \/ ApplyFails
           \/ NoteCache \/ LedgerDone \/ ToolExits \/ Scan \/ Visit \/ OpenFile
           \/ CloseFile \/ ReadNext \/ Change
  BY <1>3 DEF UseTools, PreflightEnds, BaselineDone, TakeRead, Apply, ApplyFails,
              NoteCache, LedgerDone, ToolExits, Scan, Visit, OpenFile, CloseFile, ReadNext,
              Change, observed
<1>. QED  BY <1>1, <1>2, <1>3 DEF Next, Work

LEMMA NextCacheIs ==
  ASSUME TypeOK, sweep.left # 0, NEW unresolved \in BOOLEAN
  PROVE  /\ NextCache(unresolved) \in Sweeps
         /\ NextCache(unresolved).open = FALSE /\ NextCache(unresolved).left = sweep.left - 1
         /\ NextCache(unresolved).unresolved = FALSE =>
              sweep.unresolved = FALSE /\ unresolved = FALSE
<1>1. sweep.left \in 0..Len(Caches) /\ sweep.unresolved \in BOOLEAN
  BY DEF TypeOK
<1>2. Len(Caches) \in Nat
  BY ObservationAssumption, LenProperties
<1>3. sweep.left - 1 \in 0..Len(Caches)
  BY <1>1, <1>2
<1>. QED  BY <1>1, <1>3 DEF NextCache, Sweeps

LEMMA CacheIs ==
  ASSUME TypeOK, sweep.left # 0
  PROVE  /\ sweep.left \in 1..Len(Caches) /\ Cache \in Path /\ Cache \in Range(Caches)
         /\ Cache \in DOMAIN Children
<1>1. sweep.left \in 1..Len(Caches)
  <2>1. sweep.left \in 0..Len(Caches)
    BY DEF TypeOK
  <2>2. Len(Caches) \in Nat
    BY ObservationAssumption, LenProperties
  <2>. QED  BY <2>1, <2>2
<1>2. DOMAIN Caches = 1..Len(Caches) /\ Caches \in [1..Len(Caches) -> Path]
  BY ObservationAssumption, LenProperties
<1>3. Cache \in Path /\ Cache \in Range(Caches)
  BY <1>1, <1>2 DEF Cache, Range
<1>. QED  BY <1>1, <1>3, ObservationAssumption

LEMMA NextSweep ==
  ASSUME ObservationInv, [Next]_vars
  PROVE  sweep' \in Sweeps /\ (sweep'.open = TRUE => sweep'.left # 0)
<1>0. TypeOK /\ sweep \in Sweeps /\ tree \in [Path -> Nodes]
  BY DEF ObservationInv, TypeOK, Sweeps
<1>1. CASE sweep' = sweep \/ sweep' = Sweep
  BY <1>0, <1>1, StartIs DEF Sweeps, ObservationInv, PhaseOK
<1>2. ASSUME sweep.left # 0, NEW unresolved \in BOOLEAN, sweep' = NextCache(unresolved)
      PROVE  sweep' \in Sweeps /\ (sweep'.open = TRUE => sweep'.left # 0)
  BY <1>0, <1>2, NextCacheIs
<1>3. CASE OpenCache
  <2>1. sweep.left # 0
    BY <1>0, <1>3 DEF OpenCache, Sweeps
  <2>2. PICK items \in SUBSET Path : items = Present(Cache) \ ledger.entries
    BY <1>0, <2>1, CacheIs, ChildrenAre
  <2>3. \/ \E unresolved \in BOOLEAN : sweep' = NextCache(unresolved)
        \/ sweep' = [sweep EXCEPT !.open = TRUE, !.items = items]
    <3>1. /\ (Cache \in ledger.directories \cup ledger.others) \in BOOLEAN
          /\ (Cache \notin ledger.others) \in BOOLEAN /\ TRUE \in BOOLEAN
      OBVIOUS
    <3>. QED  BY <1>3, <2>2, <3>1, Zenon DEF OpenCache
  <2>4. CASE sweep' = [sweep EXCEPT !.open = TRUE, !.items = items]
    BY <1>0, <2>1, <2>4 DEF Sweeps
  <2>. QED  BY <1>2, <2>1, <2>3, <2>4
<1>4. CASE RemoveEntry
  <2>1. PICK items \in SUBSET Path : items = sweep.items \ {First(sweep.items)}
    BY <1>0 DEF Sweeps
  <2>2. \/ sweep' = [sweep EXCEPT !.items = items]
        \/ sweep' = [sweep EXCEPT !.items = items, !.unresolved = TRUE]
    BY <1>4, <2>1 DEF RemoveEntry
  <2>3. sweep.left # 0
    BY <1>4 DEF RemoveEntry, ObservationInv, PhaseOK
  <2>. QED  BY <1>0, <2>2, <2>3 DEF Sweeps
<1>5. CASE RemoveCache
  <2>1. sweep.left # 0
    BY <1>5 DEF RemoveCache, ObservationInv, PhaseOK
  <2>2. \E unresolved \in BOOLEAN : sweep' = NextCache(unresolved)
    BY <1>5 DEF RemoveCache
  <2>. QED  BY <1>2, <2>1, <2>2
<1>. QED  BY <1>1, <1>3, <1>4, <1>5, SweepCases

(* Who writes the rest of the state.                                         *)
LEMMA RestCases ==
  ASSUME [Next]_vars
  PROVE  /\ NoteCache \/ UNCHANGED <<ledger, kept>>
         /\ BaselineDone \/ UNCHANGED <<baseline, before>>
         /\ CloseFile \/ UNCHANGED reads
         /\ Change \/ UNCHANGED touched
<1>1. CASE UNCHANGED vars
  BY <1>1 DEF vars, observed, history
<1>2. CASE UseTools \/ PreflightEnds \/ ToolsDone \/ Scan \/ Visit \/ OpenFile
  BY <1>2 DEF UseTools, PreflightEnds, ToolsDone, Scan, Visit, OpenFile, observed, history
<1>3. CASE CloseFile \/ BaselineDone \/ NoteCache \/ Change
  BY <1>3 DEF CloseFile, BaselineDone, NoteCache, Change, observed, history
<1>4. CASE ObservationFails \/ Compare \/ ReadNext \/ TakeRead \/ Apply \/ ApplyFails
  BY <1>4 DEF ObservationFails, Compare, ReadNext, TakeRead, Apply, ApplyFails, observed,
              history
<1>5. CASE \/ LedgerDone \/ OpenCache \/ RemoveEntry \/ RemoveCache \/ CleaningDone
           \/ InterruptJob \/ ToolExits
  BY <1>5 DEF LedgerDone, OpenCache, RemoveEntry, RemoveCache, CleaningDone, InterruptJob,
              ToolExits, observed, history
<1>. QED  BY <1>1, <1>2, <1>3, <1>4, <1>5 DEF Next, Work

LEMMA NextPhase ==
  ASSUME ObservationInv, ToolsInv, [Next]_vars
  PROVE  phase' \in Phases /\ failing' \in BOOLEAN /\ (phase' = "passed" => failing' = FALSE)
<1>0. /\ phase \in Phases /\ failing \in BOOLEAN /\ (phase = "passed" => failing = FALSE)
      /\ kind \in {"patch", "verify", "audit"}
  BY DEF ObservationInv, TypeOK, PhaseOK, Phases, ToolsInv, ToolsTypeOK, Kind
<1>1. CASE phase' = phase /\ failing' = failing
  BY <1>0, <1>1
<1>2. ASSUME Fail, phase \notin {"passed"}
      PROVE  phase' \in Phases /\ failing' \in BOOLEAN /\ (phase' = "passed" => failing' = FALSE)
  BY <1>0, <1>2, FailIs DEF Phases
<1>3. CASE \/ UNCHANGED vars \/ UseTools \/ Scan \/ Visit \/ OpenFile \/ ReadNext
           \/ NoteCache \/ OpenCache \/ RemoveEntry \/ RemoveCache \/ Change \/ ToolExits
  BY <1>1, <1>3 DEF vars, UseTools, Scan, Visit, OpenFile, ReadNext, NoteCache,
                    OpenCache, RemoveEntry, RemoveCache, Change, ToolExits, observed
<1>4. CASE PreflightEnds \/ TakeRead \/ Apply \/ ApplyFails \/ LedgerDone
  BY <1>0, <1>4 DEF PreflightEnds, TakeRead, Apply, ApplyFails, LedgerDone, observed, Phases
<1>5. CASE BaselineDone
  BY <1>0, <1>5 DEF BaselineDone, Phases
<1>6. CASE ToolsDone
  BY <1>0, <1>2, <1>6 DEF ToolsDone, Phases
<1>7. CASE ObservationFails
  BY <1>0, <1>2, <1>7 DEF ObservationFails
<1>8. CASE Compare
  BY <1>0, <1>2, <1>8 DEF Compare, Phases
<1>9. CASE CleaningDone
  BY <1>0, <1>2, <1>9 DEF CleaningDone, Phases
<1>10. CASE InterruptJob
  BY <1>0, <1>1, <1>2, <1>10 DEF InterruptJob, Interrupted, Ended
<1>11. CASE CloseFile
  BY <1>0, <1>11 DEF CloseFile, Phases
<1>. QED  BY <1>3, <1>4, <1>5, <1>6, <1>7, <1>8, <1>9, <1>10, <1>11 DEF Next, Work

LEMMA NextRest ==
  ASSUME ObservationInv, [Next]_vars
  PROVE  /\ baseline' \in SUBSET Entries
         /\ reads' \in Seq(Entries)
         /\ ledger' \in [known : Nat, directories : SUBSET Path, others : SUBSET Path,
                         entries : SUBSET Path]
         /\ before' \in [Path -> Nodes]
         /\ touched' \in SUBSET Path /\ kept' \in SUBSET Path
<1>0. TypeOK
  BY DEF ObservationInv
<1>1. baseline' \in SUBSET Entries /\ before' \in [Path -> Nodes]
  BY <1>0, RestCases DEF BaselineDone, TypeOK
<1>2. touched' \in SUBSET Path
  <2>1. CASE Change
    BY <1>0, <2>1, ChangeIs DEF ObservationInv, TypeOK
  <2>. QED  BY <1>0, <2>1, RestCases DEF TypeOK
<1>3. reads' \in Seq(Entries)
  <2>1. CASE CloseFile
    <3>1. /\ walk.reading.path \in Path /\ walk.reading.seen \in Nodes
          /\ walk.reading.handle \in Nodes /\ walk.reading.first \in Nat
      BY <1>0, <2>1, ReadingIs DEF CloseFile
    <3>2. walk.reading.handle.version \in Nat
      BY <3>1 DEF Nodes
    <3>3. Entry(walk.reading.path, walk.reading.seen,
                <<walk.reading.first, walk.reading.handle.version>>) \in Entries
      BY <3>1, <3>2 DEF Entries, Entry
    <3>4. PICK entry \in Entries :
            entry = Entry(walk.reading.path, walk.reading.seen,
                          <<walk.reading.first, walk.reading.handle.version>>)
      BY <3>3
    <3>5. PICK s \in Seq(Entries) : s = reads
      BY <1>0 DEF TypeOK
    <3>6. Append(s, entry) \in Seq(Entries)
      BY AppendProperties
    <3>7. reads' = reads \/ reads' = Append(reads, entry)
      BY <2>1, <3>4 DEF CloseFile
    <3>. QED  BY <3>5, <3>6, <3>7
  <2>. QED  BY <1>0, <2>1, RestCases DEF TypeOK
<1>4. /\ ledger' \in [known : Nat, directories : SUBSET Path, others : SUBSET Path,
                      entries : SUBSET Path]
      /\ kept' \in SUBSET Path
  <2>1. CASE NoteCache
    <3>1. PICK cache \in Path :
            cache = Caches[ledger.known + 1] /\ cache \in DOMAIN Children
      <4>1. ledger.known \in Nat /\ ledger.known < Len(Caches) /\ Len(Caches) \in Nat
        BY <1>0, <2>1, ObservationAssumption, LenProperties DEF TypeOK, NoteCache
      <4>2. ledger.known + 1 \in 1..Len(Caches)
        BY <4>1
      <4>3. DOMAIN Caches = 1..Len(Caches) /\ Caches \in [1..Len(Caches) -> Path]
        BY ObservationAssumption, LenProperties
      <4>4. Caches[ledger.known + 1] \in Range(Caches)
        BY <4>2, <4>3 DEF Range
      <4>. QED  BY <4>2, <4>3, <4>4, ObservationAssumption
    <3>2. PICK names \in SUBSET Path : names = Present(cache)
      BY <3>1, ChildrenAre
    <3>3. \/ ledger' = [ledger EXCEPT !.known = @ + 1]
          \/ ledger' = [ledger EXCEPT !.known = @ + 1, !.others = @ \cup {cache}]
          \/ ledger' = [ledger EXCEPT !.known = @ + 1, !.directories = @ \cup {cache},
                                      !.entries = @ \cup names]
      BY <2>1, <3>1, <3>2 DEF NoteCache, Noted
    <3>4. kept' = kept \/ kept' = kept \cup {cache} \/ kept' = kept \cup {cache} \cup names
      BY <2>1, <3>1, <3>2 DEF NoteCache
    <3>5. kept' \in SUBSET Path
      <4>1. kept \in SUBSET Path
        BY <1>0 DEF TypeOK
      <4>. QED  BY <3>4, <4>1
    <3>6. ledger' \in [known : Nat, directories : SUBSET Path, others : SUBSET Path,
                       entries : SUBSET Path]
      <4>1. ledger \in [known : Nat, directories : SUBSET Path, others : SUBSET Path,
                        entries : SUBSET Path]
        BY <1>0 DEF TypeOK
      <4>2. PICK n \in Nat : n = ledger.known + 1
        BY <4>1
      <4>3. PICK others \in SUBSET Path, directories \in SUBSET Path, entries \in SUBSET Path :
              /\ others = ledger.others \cup {cache}
              /\ directories = ledger.directories \cup {cache}
              /\ entries = ledger.entries \cup names
        BY <4>1
      <4>4. \/ ledger' = [ledger EXCEPT !.known = n]
            \/ ledger' = [ledger EXCEPT !.known = n, !.others = others]
            \/ ledger' = [ledger EXCEPT !.known = n, !.directories = directories,
                                        !.entries = entries]
        BY <3>3, <4>1, <4>2, <4>3
      <4>. QED  BY <4>1, <4>4
    <3>. QED  BY <3>5, <3>6
  <2>. QED  BY <1>0, <2>1, RestCases DEF TypeOK
<1>. QED  BY <1>1, <1>2, <1>3, <1>4

(* The listing is fresh outside the phases that list, the sweep before them. *)
LEMMA NextPlaces ==
  ASSUME ObservationInv, [Next]_vars
  PROVE  /\ phase' \notin {"baseline", "final", "actions", "passed"} => walk' = Start
         /\ phase' = "actions" => walk' = [Start EXCEPT !.reading = walk'.reading]
         /\ phase' \notin {"cleaning", "final", "passed", "failed"} => sweep' = Sweep
<1>. DEFINE Here == /\ phase' \notin {"baseline", "final", "actions", "passed"} => walk' = Start
                    /\ phase' = "actions" => walk' = [Start EXCEPT !.reading = walk'.reading]
                    /\ phase' \notin {"cleaning", "final", "passed", "failed"} => sweep' = Sweep
<1>0. /\ phase \notin {"baseline", "final", "actions", "passed"} => walk = Start
      /\ phase = "actions" => walk = [Start EXCEPT !.reading = walk.reading]
      /\ phase \notin {"cleaning", "final", "passed", "failed"} => sweep = Sweep
      /\ walk \in Walks /\ Start.reading = NotReading /\ NotReading.stage = "none"
      /\ walk.reading.stage = "none" => walk.reading = NotReading
      /\ Start \in Walks /\ Start = [Start EXCEPT !.reading = Start.reading]
  BY StartIs DEF ObservationInv, TypeOK, PhaseOK, Walks
<1>1. CASE phase' = phase /\ walk' = walk /\ sweep' = sweep
  BY <1>0, <1>1
<1>2. ASSUME Fail PROVE Here
  BY <1>0, <1>2, FailIs
<1>3. CASE UNCHANGED vars \/ UseTools \/ NoteCache \/ ToolExits
  BY <1>1, <1>3 DEF vars, UseTools, NoteCache, ToolExits
<1>4. CASE Scan \/ Visit
  BY <1>0, <1>4 DEF Scan, Visit, Capturing
<1>5. CASE OpenFile
  <2>1. phase \in {"baseline", "final", "actions", "passed"}
    BY <1>0, <1>5 DEF OpenFile
  <2>2. PICK reading : walk' = [walk EXCEPT !.reading = reading]
    BY <1>5 DEF OpenFile
  <2>3. phase = "actions" => walk' = [Start EXCEPT !.reading = reading] /\ walk'.reading = reading
    BY <1>0, <2>2 DEF Walks
  <2>. QED  BY <1>0, <1>5, <2>1, <2>3 DEF OpenFile
<1>6. CASE CloseFile
  <2>1. phase \in {"baseline", "final", "actions", "passed"}
    BY <1>0, <1>6 DEF CloseFile
  <2>2. phase = "actions" => walk' = Start
    BY <1>6 DEF CloseFile
  <2>3. phase' = phase \/ (phase = "actions" /\ phase' = "tools" /\ walk' = Start)
    BY <1>6 DEF CloseFile
  <2>. QED  BY <1>0, <1>6, <2>1, <2>2, <2>3 DEF CloseFile
<1>7. CASE ReadNext
  <2>1. PICK reading : walk' = [walk EXCEPT !.reading = reading]
    BY <1>7 DEF ReadNext
  <2>2. walk' = [Start EXCEPT !.reading = reading] /\ walk'.reading = reading
    BY <1>0, <1>7, <2>1 DEF Walks, ReadNext
  <2>. QED  BY <1>0, <1>7, <2>2 DEF ReadNext
<1>8. CASE Change
  <2>1. phase' = phase /\ sweep' = sweep
    BY <1>8 DEF Change
  <2>2. PICK node \in Nodes :
          \/ walk' = [walk EXCEPT !.reading.handle = node] /\ walk.reading.stage = "open"
          \/ walk' = walk
    BY <1>8, ChangeIs DEF ObservationInv
  <2>3. CASE walk.reading.stage = "open" /\ walk' = [walk EXCEPT !.reading.handle = node]
    <3>1. phase \in {"baseline", "final", "actions", "passed"}
      BY <1>0, <2>3
    <3>2. PICK reading : reading = [walk.reading EXCEPT !.handle = node]
      OBVIOUS
    <3>3. walk' = [walk EXCEPT !.reading = reading]
      BY <1>0, <2>3, <3>2 DEF Walks
    <3>4. phase = "actions" =>
            walk' = [Start EXCEPT !.reading = reading] /\ walk'.reading = reading
      BY <1>0, <3>3 DEF Walks
    <3>. QED  BY <1>0, <2>1, <3>1, <3>4
  <2>. QED  BY <1>1, <2>1, <2>2, <2>3
<1>9. CASE ToolsDone
  BY <1>0, <1>2, <1>9 DEF ToolsDone
<1>10. CASE ObservationFails
  BY <1>2, <1>10 DEF ObservationFails
<1>11. CASE Compare
  BY <1>2, <1>11 DEF Compare
<1>12. CASE CleaningDone
  BY <1>2, <1>12 DEF CleaningDone
<1>13. CASE InterruptJob
  BY <1>1, <1>2, <1>13 DEF InterruptJob, Interrupted
<1>14. CASE PreflightEnds \/ BaselineDone
  BY <1>0, <1>14 DEF PreflightEnds, BaselineDone
<1>15. CASE TakeRead
  <2>1. walk = Start
    BY <1>0, <1>15 DEF TakeRead
  <2>. QED  BY <1>0, <1>15, <2>1 DEF TakeRead
<1>16. CASE Apply \/ ApplyFails \/ LedgerDone
  BY <1>0, <1>16 DEF Apply, ApplyFails, LedgerDone
<1>17. CASE OpenCache \/ RemoveEntry \/ RemoveCache
  BY <1>0, <1>17 DEF OpenCache, RemoveEntry, RemoveCache
<1>. QED  BY <1>3, <1>4, <1>5, <1>6, <1>7, <1>8, <1>9, <1>10, <1>11, <1>12, <1>13, <1>14,
             <1>15, <1>16, <1>17 DEF Next, Work

LEMMA NextObservation ==
  ASSUME ObservationInv, ToolsInv, [Next]_vars
  PROVE  ObservationInv'
<1>1. TypeOK'
  BY NextTree, NextWalk, NextSweep, NextPhase, NextRest DEF TypeOK, Walks, Sweeps, Phases
<1>2. TreeOK'
  BY NextTree
<1>3. walk'.reading.stage = "none" => walk'.reading = NotReading
  <2>1. PICK reading \in Readings : reading = walk'.reading
    BY NextWalk DEF Walks
  <2>2. reading.stage = "none" => reading = NotReading
    BY DEF Readings, NotReading
  <2>. QED  BY <2>1, <2>2
<1>4. PhaseOK'
  BY <1>3, NextPlaces, NextSweep, NextPhase DEF PhaseOK, Start, Sweep
<1>. QED  BY <1>1, <1>2, <1>4 DEF ObservationInv

LEMMA InitObservation ==
  ASSUME Init
  PROVE  ObservationInv
<1>1. PICK t \in InitialTrees : tree = t /\ before = t
  BY DEF Init
<1>2. /\ t \in [Path -> Nodes] /\ IsTree(t)
      /\ \A path \in Path : t[path].version = 0
  <2>1. t \in [Path -> [type : Kinds, version : {0}]] /\ IsTree(t)
    BY ObservationAssumption
  <2>. QED  BY <2>1 DEF Nodes
<1>3. TypeOK
  <2>1. EmptyLedger \in [known : Nat, directories : SUBSET Path, others : SUBSET Path,
                         entries : SUBSET Path]
    BY DEF EmptyLedger
  <2>2. <<>> \in Seq(Entries)
    BY EmptySeq
  <2>. QED  BY <1>1, <1>2, <2>1, <2>2, StartIs DEF Init, TypeOK
<1>4. TreeOK
  BY <1>1, <1>2 DEF Init, TreeOK
<1>5. PhaseOK
  BY StartIs DEF Init, PhaseOK
<1>. QED  BY <1>3, <1>4, <1>5 DEF ObservationInv

(* Every variable keeps its type, what is somewhere is in a directory, no    *)
(* version is newer than the changes allow, and a listing or a sweep is in   *)
(* progress only in the phases that make one (the types and the positions    *)
(* capture_inventory, an audit's reads and cleanup_runtime_caches rely on).  *)
THEOREM ObservationHolds == Spec => []ObservationInv
<1>1. Init => ObservationInv
  BY InitObservation
<1>2. ObservationInv /\ ToolsInv /\ [Next]_vars => ObservationInv'
  BY NextObservation
<1>. QED  BY <1>1, <1>2, ToolsHold, PTL DEF Spec

-----------------------------------------------------------------------------
(* What is read is of one moment *)

(* While a file is being read only others change the tree, and no phase ends.*)
LEMMA WhileReading ==
  ASSUME ObservationInv, [Next]_vars
  PROVE  /\ phase' = phase \/ walk'.reading.stage = "none"
         /\ tree' = tree \/ Change \/ walk'.reading.stage = "none"
<1>0. /\ Start.reading.stage = "none"
      /\ phase \notin {"baseline", "final", "actions", "passed"} => walk = Start
  BY StartIs DEF ObservationInv, PhaseOK
<1>1. phase' = phase \/ walk'.reading.stage = "none"
  <2>1. ASSUME Fail PROVE walk'.reading.stage = "none"
    BY <1>0, <2>1, FailIs
  <2>2. CASE \/ UNCHANGED vars \/ UseTools \/ Scan \/ Visit \/ OpenFile
             \/ ReadNext \/ NoteCache \/ OpenCache \/ RemoveEntry \/ RemoveCache \/ Change
             \/ ToolExits
    BY <2>2 DEF vars, UseTools, Scan, Visit, OpenFile, ReadNext, NoteCache,
                OpenCache, RemoveEntry, RemoveCache, Change, ToolExits
  <2>3. CASE PreflightEnds \/ TakeRead \/ Apply \/ ApplyFails \/ LedgerDone \/ BaselineDone
    BY <1>0, <2>3 DEF PreflightEnds, TakeRead, Apply, ApplyFails, LedgerDone, BaselineDone,
                      Idle
  <2>4. CASE ToolsDone \/ ObservationFails \/ CleaningDone
    BY <1>0, <2>1, <2>4 DEF ToolsDone, ObservationFails, CleaningDone
  <2>5. CASE Compare \/ InterruptJob
    BY <2>1, <2>5 DEF Compare, Captured, Idle, InterruptJob, Interrupted
  <2>6. CASE CloseFile
    BY <1>0, <2>6 DEF CloseFile
  <2>. QED  BY <2>2, <2>3, <2>4, <2>5, <2>6 DEF Next, Work
<1>2. Apply \/ RemoveEntry \/ RemoveCache => walk' = Start
  BY <1>0 DEF Apply, RemoveEntry, RemoveCache
<1>. QED  BY <1>0, <1>1, <1>2, TreeCases

LEMMA NextReading ==
  ASSUME ObservationInv, ReadsInv, [Next]_vars
  PROVE  ReadingOK'
<1>0. TypeOK /\ ReadingOK /\ Start.reading.stage = "none" /\ walk \in Walks
      /\ tree \in [Path -> Nodes] /\ changes \in Nat
      /\ walk' \in Walks
  BY StartIs, NextWalk DEF ObservationInv, ReadsInv, TypeOK, Walks
<1>1. CASE walk'.reading.stage = "none"
  BY <1>1 DEF ReadingOK
<1>2. CASE walk'.reading.stage # "none" /\ Change
  <2>1. PICK path \in Path, node \in Nodes :
          /\ tree' = [tree EXCEPT ![path] = node]
          /\ node.type # "file" \/ node.version = changes + 2
          /\ \/ /\ walk' = IF /\ walk.reading.stage = "open" /\ walk.reading.path = path
                              /\ walk.reading.handle = tree[path]
                             THEN [walk EXCEPT !.reading.handle = node]
                             ELSE walk
             \/ walk' = walk
    BY <1>2, ChangeIs DEF ObservationInv
  <2>2. PICK reading \in Readings : reading = walk.reading
    BY <1>0 DEF Walks
  <2>3. PICK later \in Readings : later = walk'.reading
    BY <1>0 DEF Walks
  <2>4. /\ later.stage = reading.stage
        /\ later.stage # "none" => later.path = reading.path /\ later.seen = reading.seen
        /\ later.stage = "open" => later.opened = reading.opened /\ later.first = reading.first
        /\ later.stage = "open" /\ reading.path # path => later.handle = reading.handle
    <3>1. CASE walk' = walk
      BY <2>2, <2>3, <3>1
    <3>2. CASE /\ walk.reading.stage = "open" /\ walk.reading.path = path
               /\ walk' = [walk EXCEPT !.reading.handle = node]
      <4>1. later = [reading EXCEPT !.handle = node]
        BY <1>0, <2>2, <2>3, <3>2 DEF Walks
      <4>2. reading \in [stage : {"open"}, path : Path, seen : Nodes, opened : Nodes,
                         handle : Nodes, first : Nat]
        BY <1>0, <2>2, <3>2, ReadingIs
      <4>. QED  BY <2>2, <3>2, <4>1, <4>2
    <3>. QED  BY <2>1, <3>1, <3>2
  <2>5. phase' = phase /\ changes' = changes + 1
    BY <1>2 DEF Change
  <2>6. later.stage = "open" => later.first = later.opened.version
    BY <1>0, <2>2, <2>4 DEF ReadingOK
  <2>7. phase # "actions" /\ later.stage = "open" => later.opened = later.seen
    BY <1>0, <2>2, <2>4 DEF ReadingOK
  <2>8. ASSUME phase = "actions", later.stage # "none"
        PROVE  /\ later.seen.type = "file"
               /\ later.seen.version <= changes' + 1
               /\ later.stage = "open" /\ tree'[later.path] = later.seen =>
                    later.opened = later.seen /\ later.handle = later.seen
    <3>1. /\ reading.seen.type = "file" /\ reading.seen.version <= changes + 1
          /\ reading.stage = "open" /\ tree[reading.path] = reading.seen =>
               reading.opened = reading.seen /\ reading.handle = reading.seen
      BY <1>0, <2>2, <2>4, <2>8 DEF ReadingOK
    <3>2. PICK seen \in Nodes, v \in Nat :
            seen = reading.seen /\ v = seen.version /\ v <= changes + 1 /\ seen.type = "file"
      <4>1. reading.seen \in Nodes
        BY <1>0, <2>2, <2>4, <2>8, ReadingIs
      <4>2. reading.seen.version \in Nat
        BY <4>1 DEF Nodes
      <4>. QED  BY <3>1, <4>1, <4>2
    <3>3. v <= changes' + 1 /\ v # changes + 2
      BY <1>0, <2>5, <3>2
    <3>4. node # seen
      BY <2>1, <3>2, <3>3
    <3>5. reading.path \in Path
      BY <1>0, <2>2, <2>4, <2>8, ReadingIs
    <3>6. tree'[reading.path] = IF reading.path = path THEN node ELSE tree[reading.path]
      BY <1>0, <2>1, <3>5
    <3>7. reading.path = path => tree'[reading.path] # seen
      BY <3>4, <3>6
    <3>. QED  BY <2>4, <2>8, <3>1, <3>2, <3>3, <3>6, <3>7
  <2>. QED  BY <2>3, <2>5, <2>6, <2>7, <2>8 DEF ReadingOK
<1>3. CASE walk'.reading.stage # "none" /\ ~Change
  <2>1. phase' = phase /\ tree' = tree /\ changes' = changes
    BY <1>3, WhileReading, ChangesGrow
  <2>2. walk' = walk \/ walk'.reading = walk.reading \/ Visit \/ OpenFile \/ ReadNext
    <3>1. Scan => walk'.reading = walk.reading
      BY <1>0 DEF Scan, Walks
    <3>2. ASSUME CloseFile PROVE walk'.reading.stage = "none"
      <4>1. PICK entry : walk' = Start
                         \/ walk' = [walk EXCEPT !.reading = NotReading,
                                                !.entries = @ \cup {entry}]
        BY <3>2 DEF CloseFile
      <4>2. CASE walk' = Start
        BY <4>2, StartIs
      <4>3. CASE walk' = [walk EXCEPT !.reading = NotReading, !.entries = @ \cup {entry}]
        <5>1. walk'.reading = NotReading
          BY <1>0, <4>3 DEF Walks
        <5>. QED  BY <5>1, StartIs
      <4>. QED  BY <4>1, <4>2, <4>3
    <3>. QED  BY <1>0, <1>3, <3>1, <3>2, WalkCases
  <2>3. CASE walk' = walk \/ walk'.reading = walk.reading
    BY <1>0, <2>1, <2>3 DEF ReadingOK
  <2>4. CASE Visit
    <3>1. phase # "actions" /\ walk.reading.stage = "none"
      BY <2>4 DEF Visit, Capturing, Idle
    <3>2. walk'.reading.stage # "open"
      <4>1. PICK path : path = First(walk.children)
        OBVIOUS
      <4>2. PICK reading : reading = [stage |-> "seen", path |-> path, seen |-> tree[path]]
        OBVIOUS
      <4>3. CASE tree[path].type = "file"
        <5>1. walk' = [walk EXCEPT !.children = @ \ {path}, !.reading = reading]
          BY <2>4, <4>1, <4>2, <4>3 DEF Visit
        <5>. QED  BY <1>0, <4>2, <5>1 DEF Walks
      <4>4. CASE tree[path].type # "file"
        <5>1. walk'.reading = walk.reading
          BY <1>0, <2>4, <4>1, <4>4 DEF Visit, Walks
        <5>. QED  BY <3>1, <5>1
      <4>. QED  BY <4>3, <4>4
    <3>. QED  BY <2>1, <3>1, <3>2 DEF ReadingOK
  <2>5. CASE OpenFile
    <3>1. PICK reading :
            reading = [stage |-> "open", path |-> walk.reading.path, seen |-> walk.reading.seen,
                       opened |-> tree[walk.reading.path], handle |-> tree[walk.reading.path],
                       first |-> tree[walk.reading.path].version]
      OBVIOUS
    <3>2. walk' = [walk EXCEPT !.reading = reading]
      BY <2>5, <3>1 DEF OpenFile
    <3>3. walk'.reading = reading
      BY <1>0, <3>2 DEF Walks
    <3>4. walk.reading.stage = "seen"
            /\ (phase # "actions" => tree[walk.reading.path] = walk.reading.seen)
      BY <2>5 DEF OpenFile, Opens
    <3>5. phase = "actions" =>
            walk.reading.seen.type = "file" /\ walk.reading.seen.version <= changes + 1
      BY <1>0, <3>4 DEF ReadingOK
    <3>6. /\ reading.first = reading.opened.version /\ reading.seen = walk.reading.seen
          /\ reading.path = walk.reading.path
          /\ reading.opened = tree[walk.reading.path] /\ reading.handle = tree[walk.reading.path]
      BY <3>1
    <3>. QED  BY <2>1, <3>3, <3>4, <3>5, <3>6 DEF ReadingOK
  <2>6. CASE ReadNext
    <3>1. PICK path \in Path :
            /\ tree[path].type = "file"
            /\ walk' = [walk EXCEPT !.reading =
                          [stage |-> "seen", path |-> path, seen |-> tree[path]]]
      BY <2>6 DEF ReadNext
    <3>2. PICK reading : reading = [stage |-> "seen", path |-> path, seen |-> tree[path]]
      OBVIOUS
    <3>3. walk' = [walk EXCEPT !.reading = reading]
      BY <3>1, <3>2
    <3>4. walk'.reading = reading
      BY <1>0, <3>3 DEF Walks
    <3>5. tree[path].version <= changes + 1
      BY <3>1 DEF ObservationInv, TreeOK
    <3>6. reading.stage = "seen" /\ reading.seen.type = "file"
            /\ reading.seen.version <= changes + 1
      BY <3>1, <3>2, <3>5
    <3>7. phase = "actions"
      BY <2>6 DEF ReadNext
    <3>. QED  BY <2>1, <3>4, <3>6, <3>7 DEF ReadingOK
  <2>. QED  BY <2>2, <2>3, <2>4, <2>5, <2>6
<1>. QED  BY <1>1, <1>2, <1>3

LEMMA NextReads ==
  ASSUME ObservationInv, ReadsInv, [Next]_vars
  PROVE  ReadsInv'
<1>0. /\ TypeOK /\ ReadingOK /\ walk \in Walks /\ walk' \in Walks /\ reads \in Seq(Entries)
      /\ \A entry \in walk.entries \cup baseline \cup Range(reads) : OfOneMoment(entry)
  BY NextWalk DEF ObservationInv, ReadsInv, TypeOK, Walks
<1>1. ASSUME CloseFile,
             NEW entry,
             entry = Entry(walk.reading.path, walk.reading.seen,
                           <<walk.reading.first, walk.reading.handle.version>>)
      PROVE  OfOneMoment(entry)
  <2>1. walk.reading.first = walk.reading.opened.version
    BY <1>0, <1>1 DEF CloseFile, ReadingOK
  <2>2. walk.reading.opened = walk.reading.seen /\ walk.reading.handle = walk.reading.seen
    BY <1>0, <1>1 DEF CloseFile, ReadingOK, Unchanged
  <2>3. entry.node = walk.reading.seen
          /\ entry.digest = <<walk.reading.first, walk.reading.handle.version>>
    BY <1>1 DEF Entry
  <2>. QED  BY <2>1, <2>2, <2>3 DEF OfOneMoment
<1>2. \A entry \in walk'.entries : OfOneMoment(entry)
  <2>1. CASE walk' = walk \/ walk' = Start
    BY <1>0, <2>1, StartIs
  <2>2. CASE Scan \/ OpenFile \/ ReadNext
    <3>1. walk'.entries = walk.entries
      BY <1>0, <2>2 DEF Scan, OpenFile, ReadNext, Walks
    <3>. QED  BY <1>0, <3>1
  <2>3. CASE Change
    <3>1. walk'.entries = walk.entries
      BY <1>0, <2>3 DEF Change, Walks
    <3>. QED  BY <1>0, <3>1
  <2>4. CASE Visit
    <3>1. PICK path : path = First(walk.children)
      OBVIOUS
    <3>2. PICK entry : entry = Entry(path, tree[path], <<>>)
      OBVIOUS
    <3>3. CASE tree[path].type = "file"
      <4>1. walk'.entries = walk.entries
        BY <1>0, <2>4, <3>1, <3>3 DEF Visit, Walks
      <4>. QED  BY <1>0, <4>1
    <3>4. CASE tree[path].type # "file"
      <4>1. walk'.entries = walk.entries \cup {entry}
        BY <1>0, <2>4, <3>1, <3>2, <3>4 DEF Visit, Walks
      <4>2. OfOneMoment(entry)
        BY <3>2, <3>4 DEF OfOneMoment, Entry
      <4>. QED  BY <1>0, <4>1, <4>2
    <3>. QED  BY <3>3, <3>4
  <2>5. CASE CloseFile
    <3>1. PICK entry : entry = Entry(walk.reading.path, walk.reading.seen,
                                     <<walk.reading.first, walk.reading.handle.version>>)
      OBVIOUS
    <3>2. walk' = Start \/ walk' = [walk EXCEPT !.reading = NotReading, !.entries = @ \cup {entry}]
      BY <2>5, <3>1 DEF CloseFile
    <3>3. walk'.entries = {} \/ walk'.entries = walk.entries \cup {entry}
      BY <1>0, <3>2, StartIs DEF Walks
    <3>. QED  BY <1>0, <1>1, <2>5, <3>1, <3>3
  <2>. QED  BY <2>1, <2>2, <2>3, <2>4, <2>5, WalkCases
<1>3. \A entry \in baseline' : OfOneMoment(entry)
  BY <1>0, RestCases DEF BaselineDone
<1>4. \A entry \in Range(reads') : OfOneMoment(entry)
  <2>1. CASE CloseFile
    <3>1. PICK entry : entry = Entry(walk.reading.path, walk.reading.seen,
                                     <<walk.reading.first, walk.reading.handle.version>>)
      OBVIOUS
    <3>2. reads' = reads \/ reads' = Append(reads, entry)
      BY <2>1, <3>1 DEF CloseFile
    <3>3. ASSUME reads' = Append(reads, entry)
          PROVE  Range(reads') = Range(reads) \cup {entry}
      <4>1. reads \in Seq(Entries \cup {entry})
        BY <1>0
      <4>2. Range(Append(reads, entry)) = Range(reads) \cup {entry}
        BY <4>1, AppendProperties, LenProperties DEF Range
      <4>. QED  BY <3>3, <4>2
    <3>4. OfOneMoment(entry)
      BY <1>1, <2>1, <3>1
    <3>. QED  BY <1>0, <3>2, <3>3, <3>4
  <2>. QED  BY <1>0, <2>1, RestCases
<1>. QED  BY <1>2, <1>3, <1>4, NextReading DEF ReadsInv, OfOneMoment

LEMMA InitReads ==
  ASSUME Init
  PROVE  ReadsInv
<1>1. walk.reading.stage = "none" /\ walk.entries = {} /\ baseline = {} /\ reads = <<>>
  BY StartIs DEF Init
<1>2. Range(<<>>) = {}
  BY DEF Range
<1>. QED  BY <1>1, <1>2 DEF ReadsInv, ReadingOK

(* What an inventory hashed and what an audit read is one content the file   *)
(* had, the one its metadata belongs to, whatever happened meanwhile: an     *)
(* inventory opens the file it saw and asks the open file again after the    *)
(* last read, an audit the path, where what was seen never comes back        *)
(* (inventory.py, audit._read_regular_file).                                 *)
THEOREM ReadsHold == Spec => []ReadsAreOfOneMoment
<1>1. Init => ReadsInv
  BY InitReads
<1>2. ObservationInv /\ ReadsInv /\ [Next]_vars => ReadsInv'
  BY NextReads
<1>3. ReadsInv => ReadsAreOfOneMoment
  BY DEF ReadsInv, OfOneMoment, ReadsAreOfOneMoment
<1>. QED  BY <1>1, <1>2, <1>3, ObservationHolds, PTL DEF Spec

-----------------------------------------------------------------------------
(* What the sweep removes, and what it leaves *)

LEMMA KindStays ==
  ASSUME [Next]_vars
  PROVE  kind' = kind
<1>1. ASSUME Run \/ ReadEnds \/ Interrupt \/ Exit PROVE kind' = kind
  BY <1>1 DEF Run, CallIsort, Launch, LaunchFails, NoGit, Collect, Timeout, AfterTerm,
              AfterKill, Complete, ReadEnds, Interrupt, Exit
<1>. QED  BY <1>1, ToolSteps DEF ToolStep

(* A step makes nothing exist while the sweep is at work and after it,       *)
(* unless it is touched.                                                     *)
LEMMA SweepFrame ==
  ASSUME ObservationInv, [Next]_vars, phase \in {"cleaning", "final", "passed"}
  PROVE  /\ touched \subseteq touched' /\ kept' = kept /\ ledger' = ledger
         /\ phase # "passed" => \A path \in Path \ touched' : tree'[path].type # "absent" =>
              Exists(path)
         /\ phase = "passed" => tree' = tree
<1>0. tree \in [Path -> Nodes]
  BY DEF ObservationInv, TypeOK
<1>1. kept' = kept /\ ledger' = ledger
  BY RestCases DEF NoteCache
<1>2. CASE Change
  <2>0. phase \in {"cleaning", "final"}
    BY <1>2 DEF Change, Ended
  <2>1. PICK path \in Path, node \in Nodes :
          tree' = [tree EXCEPT ![path] = node] /\ touched' = touched \cup {path}
    BY <1>2, <2>0, ChangeIs DEF ObservationInv
  <2>2. \A other \in Path \ touched' : tree'[other] = tree[other]
    BY <1>0, <2>1
  <2>. QED  BY <1>1, <2>0, <2>1, <2>2 DEF Exists
<1>3. CASE ~Change
  <2>1. touched' = touched
    BY <1>3, RestCases
  <2>2. CASE tree' = tree
    BY <1>1, <2>1, <2>2 DEF Exists
  <2>3. CASE RemoveEntry \/ RemoveCache
    <3>1. phase = "cleaning"
      BY <2>3 DEF RemoveEntry, RemoveCache
    <3>2. tree' = tree \/ \E path \in Path \cup {First(sweep.items), Cache} :
            tree' = [tree EXCEPT ![path] = Absent]
      BY <2>3 DEF RemoveEntry, RemoveCache, Removed
    <3>3. CASE tree' = tree
      BY <2>2, <3>3
    <3>4. ASSUME NEW path, tree' = [tree EXCEPT ![path] = Absent],
                 NEW other \in Path, tree'[other].type # "absent"
          PROVE  Exists(other)
      BY <1>0, <3>4, NodesAre DEF Exists
    <3>. QED  BY <1>1, <2>1, <3>1, <3>2, <3>3, <3>4
  <2>4. ~Apply
    BY DEF Apply
  <2>. QED  BY <1>3, <2>2, <2>3, <2>4, TreeCases
<1>. QED  BY <1>2, <1>3

LEMMA CachesAre ==
  ASSUME NEW i \in 1..Len(Caches)
  PROVE  /\ Caches[i] \in Path /\ Caches[i] \in DOMAIN Children /\ Caches[i] \in Range(Caches)
         /\ Children[Caches[i]] \subseteq Path /\ Children[Caches[i]] \cap Range(Caches) = {}
<1>1. DOMAIN Caches = 1..Len(Caches) /\ Caches \in [1..Len(Caches) -> Path]
  BY ObservationAssumption, LenProperties
<1>2. Caches[i] \in Path /\ Caches[i] \in Range(Caches)
  BY <1>1 DEF Range
<1>. QED  BY <1>2, ObservationAssumption

LEMMA RestShrinks ==
  ASSUME kept' = kept, touched \subseteq touched', NEW cache \in Path,
         Children[cache] \subseteq Path,
         \A path \in Path \ touched' : tree'[path].type # "absent" => Exists(path)
  PROVE  Rest(cache)' \subseteq Rest(cache)
  BY DEF Rest, Present, Exists

LEMMA NextLedger ==
  ASSUME ObservationInv, LedgerOK, [Next]_vars
  PROVE  LedgerOK'
<1>1. CASE UNCHANGED <<ledger, kept>>
  BY <1>1 DEF LedgerOK
<1>2. CASE NoteCache
  <2>0. ledger \in [known : Nat, directories : SUBSET Path, others : SUBSET Path,
                    entries : SUBSET Path]
    BY DEF ObservationInv, TypeOK
  <2>1. ledger.known + 1 \in 1..Len(Caches)
    <3>1. ledger.known \in Nat /\ ledger.known < Len(Caches) /\ Len(Caches) \in Nat
      BY <1>2, ObservationAssumption, LenProperties DEF ObservationInv, TypeOK, NoteCache
    <3>. QED  BY <3>1
  <2>2. PICK cache \in Path :
          /\ cache = Caches[ledger.known + 1] /\ cache \in Range(Caches)
          /\ cache \in DOMAIN Children /\ Children[cache] \cap Range(Caches) = {}
    BY <2>1, CachesAre
  <2>3. PICK names : names = Present(cache) /\ names \cap Range(Caches) = {}
    BY <2>2 DEF Present
  <2>4. CASE ledger' = [ledger EXCEPT !.known = @ + 1] /\ kept' = kept
    BY <2>4, <2>0 DEF LedgerOK
  <2>5. CASE /\ ledger' = [ledger EXCEPT !.known = @ + 1, !.others = @ \cup {cache}]
             /\ kept' = kept \cup {cache}
    BY <2>2, <2>5, <2>0 DEF LedgerOK
  <2>6. CASE /\ ledger' = [ledger EXCEPT !.known = @ + 1, !.directories = @ \cup {cache},
                                         !.entries = @ \cup names]
             /\ kept' = kept \cup {cache} \cup names
    BY <2>2, <2>3, <2>6, <2>0 DEF LedgerOK
  <2>. QED  BY <1>2, <2>2, <2>3, <2>4, <2>5, <2>6 DEF NoteCache, Noted
<1>. QED  BY <1>1, <1>2, RestCases

(* A sweep at work: it is behind the caches it has dealt with.               *)
LEMMA NextSweepAtWork ==
  ASSUME ObservationInv, SweepInv, ToolsInv, [Next]_vars, kind = "patch",
         phase = "cleaning", phase' = "cleaning", sweep'.unresolved = FALSE
  PROVE  /\ \A i \in (sweep'.left + 1)..Len(Caches) : Rest(Caches[i])' = {}
         /\ sweep'.open = TRUE => Rest(Cache)' \subseteq sweep'.items \cup {Cache'}
<1>. DEFINE Done(left) == \A i \in (left + 1)..Len(Caches) : Rest(Caches[i])' = {}
<1>0. /\ sweep \in Sweeps /\ IsTree(tree) /\ Len(Caches) \in Nat /\ tree \in [Path -> Nodes]
      /\ sweep.left \in 0..Len(Caches)
  BY ObservationAssumption, LenProperties DEF ObservationInv, TypeOK, TreeOK, Sweeps
<1>1. /\ touched \subseteq touched' /\ kept' = kept /\ ledger' = ledger
      /\ \A path \in Path \ touched' : tree'[path].type # "absent" => Exists(path)
  BY SweepFrame
<1>2. ASSUME NEW i \in 1..Len(Caches)
      PROVE  Rest(Caches[i])' \subseteq Rest(Caches[i])
  <2>1. PICK cache \in Path : cache = Caches[i] /\ Children[cache] \subseteq Path
    BY <1>2, CachesAre
  <2>2. Rest(cache)' \subseteq Rest(cache)
    BY <1>1, <2>1, RestShrinks
  <2>. QED  BY <2>1, <2>2
<1>3. ASSUME sweep.unresolved = FALSE
      PROVE  /\ Done(sweep.left)
             /\ sweep.open = TRUE => Rest(Cache) \subseteq sweep.items \cup {Cache}
  <2>1. /\ \A i \in (sweep.left + 1)..Len(Caches) : Rest(Caches[i]) = {}
        /\ sweep.open = TRUE => Rest(Cache) \subseteq sweep.items \cup {Cache}
    BY <1>3 DEF SweepInv, SweepOK
  <2>2. \A i \in (sweep.left + 1)..Len(Caches) : i \in 1..Len(Caches)
    BY <1>0
  <2>. QED  BY <1>2, <2>1, <2>2
<1>. HIDE DEF Done
<1>4. CASE sweep' = sweep
  <2>1. sweep.open = TRUE => Rest(Cache)' \subseteq Rest(Cache) /\ Cache' = Cache
    <3>1. sweep.open = TRUE => sweep.left \in 1..Len(Caches)
      BY CacheIs DEF ObservationInv, PhaseOK
    <3>2. PICK c : c = Cache
      OBVIOUS
    <3>3. Cache' = Cache
      BY <1>4 DEF Cache
    <3>4. sweep.open = TRUE => Rest(c)' \subseteq Rest(c)
      <4>1. sweep.open = TRUE => c = Caches[sweep.left] /\ sweep.left \in 1..Len(Caches)
        BY <3>1, <3>2 DEF Cache
      <4>. QED  BY <1>2, <4>1
    <3>5. Rest(Cache)' = Rest(c)'
      BY <3>2, <3>3 DEF Rest, Present, Exists
    <3>. QED  BY <3>2, <3>3, <3>4, <3>5
  <2>. QED  BY <1>3, <1>4, <2>1 DEF Done
<1>5. CASE sweep' = Sweep
  <2>1. sweep'.left = Len(Caches) /\ sweep'.open = FALSE
    BY <1>5, StartIs
  <2>2. (sweep'.left + 1)..Len(Caches) = {}
    BY <1>0, <2>1
  <2>. QED  BY <2>1, <2>2
<1>6. ASSUME sweep.left # 0, NEW unresolved \in BOOLEAN, sweep' = NextCache(unresolved),
             NEW cache \in Path, cache = Caches[sweep.left],
             sweep.unresolved = FALSE => Rest(cache)' = {} \/ unresolved = TRUE
      PROVE  /\ \A i \in (sweep'.left + 1)..Len(Caches) : Rest(Caches[i])' = {}
             /\ sweep'.open = TRUE => Rest(Cache)' \subseteq sweep'.items \cup {Cache'}
  <2>1. /\ sweep'.open = FALSE /\ sweep'.left = sweep.left - 1
        /\ sweep.unresolved = FALSE /\ unresolved = FALSE
    BY <1>6, NextCacheIs DEF ObservationInv
  <2>2. Rest(cache)' = {} /\ Done(sweep.left)
    BY <1>3, <1>6, <2>1
  <2>3. ASSUME NEW i \in (sweep'.left + 1)..Len(Caches) PROVE Rest(Caches[i])' = {}
    <3>1. i = sweep.left \/ i \in (sweep.left + 1)..Len(Caches)
      BY <1>0, <2>1
    <3>2. CASE i = sweep.left
      <4>1. Caches[i] = cache
        BY <1>6, <3>2
      <4>. QED  BY <2>2, <4>1
    <3>. QED  BY <2>2, <3>1, <3>2 DEF Done
  <2>. QED  BY <2>1, <2>3
<1>7. CASE OpenCache
  <2>1. sweep.left # 0 /\ sweep.left \in 1..Len(Caches)
    BY <1>0, <1>7 DEF OpenCache
  <2>2. PICK cache \in Path :
          /\ cache = Caches[sweep.left] /\ cache = Cache /\ Children[cache] \subseteq Path
          /\ cache \in DOMAIN Children
    BY <2>1, CachesAre DEF Cache
  <2>3. cache # Root /\ kept = ledger.directories \cup ledger.others \cup ledger.entries
    BY ObservationAssumption DEF SweepInv, LedgerOK
  <2>4. tree[cache].type # "directory" => Present(cache) = {}
    <3>1. ASSUME tree[cache].type # "directory", NEW below \in Children[cache]
          PROVE  ~Exists(below)
      <4>1. below \in Path /\ Parent(below) = cache
        BY <2>2, ObservationAssumption
      <4>. QED  BY <1>0, <3>1, <4>1, NothingInside
    <3>. QED  BY <3>1 DEF Present
  <2>5. Rest(cache)' \subseteq Rest(cache)
    BY <1>2, <2>1, <2>2
  <2>6. CASE ~Exists(cache) /\ sweep' = NextCache(cache \in ledger.directories \cup ledger.others)
    <3>1. Rest(cache) = {}
      BY <2>4, <2>6 DEF Rest, Exists
    <3>2. (cache \in ledger.directories \cup ledger.others) \in BOOLEAN
      OBVIOUS
    <3>3. Rest(cache)' = {}
      BY <2>5, <3>1
    <3>. QED  BY <1>6, <2>1, <2>2, <2>6, <3>2, <3>3, Zenon
  <2>7. CASE Exists(cache) /\ ~IsDirectory(cache) /\ sweep' = NextCache(cache \notin ledger.others)
    <3>1. Present(cache) = {}
      BY <2>3, <2>4, <2>7 DEF IsDirectory
    <3>2. (cache \notin ledger.others) \in BOOLEAN
      OBVIOUS
    <3>3. cache \in ledger.others => Rest(cache) = {}
      BY <2>3, <3>1 DEF Rest
    <3>4. Rest(cache)' = {} \/ (cache \notin ledger.others) = TRUE
      BY <2>5, <3>3
    <3>. QED  BY <1>6, <2>1, <2>2, <2>7, <3>2, <3>4, Zenon
  <2>8. CASE sweep' = NextCache(TRUE)
    <3>1. PICK u \in BOOLEAN : u = TRUE
      OBVIOUS
    <3>. QED  BY <1>6, <2>1, <2>2, <2>8, <3>1
  <2>9. CASE sweep' = [sweep EXCEPT !.open = TRUE, !.items = Present(cache) \ ledger.entries]
    <3>1. PICK items : items = Present(cache) \ ledger.entries
      OBVIOUS
    <3>2. sweep' = [sweep EXCEPT !.open = TRUE, !.items = items]
      BY <2>9, <3>1
    <3>3. sweep'.left = sweep.left /\ sweep'.items = items /\ sweep'.unresolved = sweep.unresolved
      BY <1>0, <3>2 DEF Sweeps
    <3>4. Rest(cache) \subseteq items \cup {cache}
      BY <2>3, <3>1 DEF Rest
    <3>5. Cache' = cache
      BY <2>2, <3>3 DEF Cache
    <3>6. Rest(Cache)' = Rest(cache)'
      BY <3>5 DEF Rest, Present, Exists
    <3>. QED  BY <1>3, <2>5, <3>3, <3>4, <3>5, <3>6 DEF Done
  <2>. QED  BY <1>7, <2>2, <2>6, <2>7, <2>8, <2>9, Zenon DEF OpenCache
<1>8. CASE RemoveEntry
  <2>1. sweep.open = TRUE /\ sweep.left # 0 /\ sweep.left \in 1..Len(Caches)
    BY <1>0, <1>8, CacheIs DEF RemoveEntry, ObservationInv, PhaseOK, Sweeps
  <2>2. PICK cache \in Path : cache = Caches[sweep.left] /\ cache = Cache
    BY <2>1, CachesAre DEF Cache
  <2>3. PICK path \in Path : path = First(sweep.items)
    BY <1>0, <1>8, FirstIs DEF RemoveEntry, Sweeps
  <2>4. PICK items : items = sweep.items \ {path}
    OBVIOUS
  <2>5. \/ tree' = [tree EXCEPT ![path] = Absent] /\ sweep' = [sweep EXCEPT !.items = items]
        \/ sweep' = [sweep EXCEPT !.items = items, !.unresolved = TRUE]
    BY <1>8, <2>3, <2>4 DEF RemoveEntry, Removed
  <2>6. /\ tree' = [tree EXCEPT ![path] = Absent]
        /\ sweep'.left = sweep.left /\ sweep'.items = items /\ sweep.unresolved = FALSE
    BY <1>0, <2>5 DEF Sweeps
  <2>7. Rest(cache)' \subseteq Rest(cache) \ {path}
    <3>1. Rest(cache)' \subseteq Rest(cache)
      BY <1>2, <2>1, <2>2
    <3>2. path \notin Rest(cache)'
      BY <1>0, <2>6, NodesAre DEF Rest, Exists
    <3>. QED  BY <3>1, <3>2
  <2>8. Cache' = cache
    BY <2>2, <2>6 DEF Cache
  <2>9. Rest(Cache)' = Rest(cache)'
    BY <2>8 DEF Rest, Present, Exists
  <2>. QED  BY <1>3, <2>1, <2>2, <2>4, <2>6, <2>7, <2>8, <2>9 DEF Done
<1>9. CASE RemoveCache
  <2>1. sweep.open = TRUE /\ sweep.left # 0 /\ sweep.left \in 1..Len(Caches) /\ sweep.items = {}
    BY <1>0, <1>9, CacheIs DEF RemoveCache, ObservationInv, PhaseOK, Sweeps
  <2>2. PICK cache \in Path :
          /\ cache = Caches[sweep.left] /\ cache = Cache /\ Children[cache] \subseteq Path
    BY <2>1, CachesAre DEF Cache
  <2>3. Rest(cache)' \subseteq Rest(cache)
    BY <1>2, <2>1, <2>2
  <2>4. sweep.unresolved = FALSE => Rest(cache) \subseteq {cache}
    BY <1>3, <2>1, <2>2
  <2>5. PICK yes \in BOOLEAN, no \in BOOLEAN : yes = TRUE /\ no = FALSE
    OBVIOUS
  <2>6. CASE sweep' = NextCache(yes)
    BY <1>6, <2>1, <2>2, <2>5, <2>6
  <2>7. CASE sweep' = NextCache(no) /\ cache \in ledger.directories
    <3>1. cache \notin Rest(cache)
      BY <2>7 DEF Rest, SweepInv, LedgerOK
    <3>2. sweep.unresolved = FALSE => Rest(cache)' = {}
      BY <2>3, <2>4, <3>1
    <3>. QED  BY <1>6, <2>1, <2>2, <2>5, <2>7, <3>2
  <2>8. CASE sweep' = NextCache(no) /\ tree' = [tree EXCEPT ![cache] = Absent]
    <3>1. cache \notin Rest(cache)'
      BY <1>0, <2>8, NodesAre DEF Rest, Exists
    <3>2. sweep.unresolved = FALSE => Rest(cache)' = {}
      BY <2>3, <2>4, <3>1
    <3>. QED  BY <1>6, <2>1, <2>2, <2>5, <2>8, <3>2
  <2>. QED  BY <1>9, <2>2, <2>5, <2>6, <2>7, <2>8 DEF RemoveCache, Removed
<1>. QED  BY <1>4, <1>5, <1>7, <1>8, <1>9, SweepCases

(* How a patch comes to its sweep, to its last listing and to its end.       *)
LEMMA PhaseSteps ==
  ASSUME ObservationInv, [Next]_vars, kind = "patch"
  PROVE  /\ phase' = "cleaning" /\ phase # "cleaning" => sweep' = Sweep
         /\ phase' = "final" /\ phase # "final" =>
              /\ phase = "cleaning" /\ sweep' = sweep /\ tree' = tree
              /\ sweep.left = 0 /\ sweep.unresolved = FALSE
         /\ phase' = "passed" /\ phase # "passed" => phase = "final"
         /\ phase \in {"final", "passed"} /\ phase' \in {"final", "passed"} => sweep' = sweep
<1>0. /\ sweep.unresolved \in BOOLEAN
      /\ phase \notin {"cleaning", "final", "passed", "failed"} => sweep = Sweep
  BY DEF ObservationInv, TypeOK, PhaseOK
<1>1. ASSUME Fail PROVE phase' = "failed" \/ (phase' = "cleaning" /\ sweep' = Sweep)
  BY <1>1, FailIs
<1>2. CASE \/ UNCHANGED vars \/ UseTools \/ Scan \/ Visit \/ OpenFile \/ CloseFile \/ ReadNext
           \/ NoteCache \/ Change \/ ToolExits
  BY <1>2 DEF vars, UseTools, Scan, Visit, OpenFile, CloseFile, ReadNext, NoteCache,
              Change, ToolExits
<1>3. CASE OpenCache \/ RemoveEntry \/ RemoveCache
  BY <1>3 DEF OpenCache, RemoveEntry, RemoveCache
<1>4. CASE PreflightEnds \/ TakeRead \/ Apply \/ ApplyFails \/ LedgerDone \/ BaselineDone
  BY <1>4 DEF PreflightEnds, TakeRead, Apply, ApplyFails, LedgerDone, BaselineDone
<1>5. CASE ToolsDone
  BY <1>0, <1>1, <1>5 DEF ToolsDone
<1>6. CASE ObservationFails \/ Compare
  BY <1>1, <1>6 DEF ObservationFails, Compare
<1>7. CASE CleaningDone
  BY <1>0, <1>1, <1>7 DEF CleaningDone
<1>8. CASE InterruptJob
  BY <1>1, <1>8 DEF InterruptJob, Interrupted
<1>. QED  BY <1>2, <1>3, <1>4, <1>5, <1>6, <1>7, <1>8 DEF Next, Work

LEMMA NextSweepInv ==
  ASSUME ObservationInv, SweepInv, ToolsInv, [Next]_vars
  PROVE  SweepInv'
<1>0. /\ sweep \in Sweeps /\ LedgerOK /\ SweepOK
      /\ phase \notin {"cleaning", "final", "passed", "failed"} => sweep = Sweep
      /\ Sweep.open = FALSE
  BY StartIs DEF ObservationInv, TypeOK, PhaseOK, Sweeps, SweepInv
<1>1. sweep'.open = TRUE => Cache' \notin ledger'.others /\ sweep'.items \cap ledger'.entries = {}
  <2>1. CASE sweep' = sweep
    <3>1. Cache' = Cache
      BY <2>1 DEF Cache
    <3>2. sweep.open = TRUE => ledger' = ledger
      BY <1>0, RestCases DEF NoteCache
    <3>. QED  BY <1>0, <2>1, <3>1, <3>2 DEF SweepOK
  <2>2. CASE sweep' = Sweep
    BY <1>0, <2>2
  <2>3. CASE OpenCache
    <3>1. ledger' = ledger
      BY <2>3 DEF OpenCache, observed
    <3>2. ASSUME NEW unresolved \in BOOLEAN, sweep' = NextCache(unresolved)
          PROVE  sweep'.open = FALSE
      BY <3>2 DEF NextCache
    <3>3. CASE Cache \notin ledger.others
                 /\ sweep' = [sweep EXCEPT !.open = TRUE, !.items = Present(Cache) \ ledger.entries]
      <4>1. PICK items : items = Present(Cache) \ ledger.entries
        OBVIOUS
      <4>2. sweep' = [sweep EXCEPT !.open = TRUE, !.items = items]
        BY <3>3, <4>1
      <4>3. sweep'.left = sweep.left /\ sweep'.items = items
        BY <1>0, <4>2 DEF Sweeps
      <4>4. Cache' = Cache
        BY <4>3 DEF Cache
      <4>. QED  BY <3>1, <3>3, <4>1, <4>3, <4>4
    <3>4. /\ (Cache \in ledger.directories \cup ledger.others) \in BOOLEAN
          /\ (Cache \notin ledger.others) \in BOOLEAN /\ TRUE \in BOOLEAN
      OBVIOUS
    <3>5. sweep'.open = FALSE \/ (Cache \notin ledger.others
            /\ sweep' = [sweep EXCEPT !.open = TRUE, !.items = Present(Cache) \ ledger.entries])
      BY <2>3, <3>2, <3>4, Zenon DEF OpenCache
    <3>. QED  BY <3>3, <3>5
  <2>4. CASE RemoveEntry
    <3>1. ledger' = ledger
      BY <2>4 DEF RemoveEntry, observed
    <3>2. PICK items : items = sweep.items \ {First(sweep.items)}
      OBVIOUS
    <3>3. \/ sweep' = [sweep EXCEPT !.items = items]
          \/ sweep' = [sweep EXCEPT !.items = items, !.unresolved = TRUE]
      BY <2>4, <3>2 DEF RemoveEntry
    <3>4. sweep'.left = sweep.left /\ sweep'.items = items /\ sweep.open = TRUE
      BY <1>0, <2>4, <3>3 DEF Sweeps, RemoveEntry
    <3>5. Cache' = Cache
      BY <3>4 DEF Cache
    <3>. QED  BY <1>0, <3>1, <3>2, <3>4, <3>5 DEF SweepOK
  <2>5. CASE RemoveCache
    BY <2>5 DEF RemoveCache, NextCache
  <2>. QED  BY <2>1, <2>2, <2>3, <2>4, <2>5, SweepCases
<1>2. kind' = kind
  BY KindStays
<1>3. ASSUME kind = "patch", phase' \in {"cleaning", "final", "passed"}, sweep'.unresolved = FALSE
      PROVE  /\ \A i \in (sweep'.left + 1)..Len(Caches) : Rest(Caches[i])' = {}
             /\ sweep'.open = TRUE => Rest(Cache)' \subseteq sweep'.items \cup {Cache'}
  <2>1. CASE phase = "cleaning" /\ phase' = "cleaning"
    BY <1>3, <2>1, NextSweepAtWork
  <2>2. CASE phase # "cleaning" /\ phase' = "cleaning"
    <3>1. sweep' = Sweep
      BY <1>3, <2>2, PhaseSteps
    <3>2. sweep'.left = Len(Caches) /\ sweep'.open = FALSE /\ Len(Caches) \in Nat
      BY <3>1, StartIs, ObservationAssumption, LenProperties
    <3>3. (sweep'.left + 1)..Len(Caches) = {}
      BY <3>2
    <3>. QED  BY <3>2, <3>3
  <2>3. CASE phase' \in {"final", "passed"}
    <3>1. sweep' = sweep /\ phase \in {"cleaning", "final", "passed"}
      BY <1>3, <2>3, PhaseSteps
    <3>2. /\ kept' = kept /\ touched \subseteq touched'
          /\ \A path \in Path \ touched' : tree'[path].type # "absent" => Exists(path)
      <4>1. kept' = kept /\ touched \subseteq touched'
        BY <3>1, SweepFrame
      <4>2. ASSUME tree' = tree, NEW path \in Path \ touched', tree'[path].type # "absent"
            PROVE  Exists(path)
        BY <4>2 DEF Exists
      <4>. QED  BY <3>1, <4>1, <4>2, SweepFrame
    <3>3. /\ \A i \in (sweep.left + 1)..Len(Caches) : Rest(Caches[i]) = {}
          /\ sweep.open = TRUE => sweep.left # 0
          /\ sweep.open = FALSE
      <4>1. sweep.left = 0 => sweep.open # TRUE
        BY DEF ObservationInv, PhaseOK
      <4>2. sweep.left = 0
        BY <1>0, <1>3, <2>3, <3>1, PhaseSteps DEF SweepOK
      <4>3. sweep.open \in BOOLEAN
        BY <1>0 DEF Sweeps
      <4>. QED  BY <1>0, <1>3, <3>1, <4>1, <4>2, <4>3 DEF SweepOK
    <3>4. ASSUME NEW i \in (sweep'.left + 1)..Len(Caches) PROVE Rest(Caches[i])' = {}
      <4>1. sweep.left \in 0..Len(Caches) /\ Len(Caches) \in Nat
        BY ObservationAssumption, LenProperties DEF ObservationInv, TypeOK
      <4>2. i \in 1..Len(Caches) /\ i \in (sweep.left + 1)..Len(Caches)
        BY <3>1, <4>1
      <4>3. PICK cache \in Path : cache = Caches[i] /\ Children[cache] \subseteq Path
        BY <4>2, CachesAre
      <4>4. Rest(cache)' \subseteq Rest(cache)
        BY <3>2, <4>3, RestShrinks
      <4>5. Rest(cache) = {}
        BY <3>3, <4>2, <4>3
      <4>. QED  BY <4>3, <4>4, <4>5
    <3>. QED  BY <3>1, <3>3, <3>4
  <2>. QED  BY <1>3, <2>1, <2>2, <2>3
<1>4. kind = "patch" /\ phase' \in {"final", "passed"} =>
        sweep'.left = 0 /\ sweep'.unresolved = FALSE
  BY <1>0, PhaseSteps DEF SweepOK
<1>5. LedgerOK'
  BY <1>0, NextLedger
<1>. QED  BY <1>1, <1>2, <1>3, <1>4, <1>5 DEF SweepInv, SweepOK

LEMMA InitSweep ==
  ASSUME Init
  PROVE  SweepInv
<1>1. /\ sweep.open = FALSE /\ phase = "preflight" /\ kept = {} /\ ledger = EmptyLedger
  BY StartIs DEF Init
<1>. QED  BY <1>1 DEF SweepInv, SweepOK, LedgerOK, EmptyLedger

(* The job itself never removes anything but new bytecode and a new cache    *)
(* directory, and a patch that succeeds left neither behind: every cache the *)
(* sweep has passed holds only what was there before the tools or was        *)
(* touched while the job was cleaning or looking (runtime_cache.py).         *)
THEOREM CleanupHolds == Spec => CleanupTakesBackWhatRunsLeft
<1>. DEFINE F == /\ phase = "cleaning" /\ changes' = changes =>
                      \A path \in Path : tree'[path] # tree[path] =>
                        /\ path \notin kept
                        /\ path \in Range(Caches) \cup Bytecode
                 /\ phase' = "passed" /\ kind = "patch" =>
                      \A cache \in Range(Caches) :
                        Present(cache) \cup {cache} \subseteq
                          {path \in Path : ~Exists(path)} \cup kept \cup touched
<1>1. Init => SweepInv
  BY InitSweep
<1>2. ObservationInv /\ ToolsInv /\ SweepInv /\ [Next]_vars => SweepInv'
  BY NextSweepInv
<1>3. ASSUME ObservationInv, SweepInv, [Next]_vars PROVE F
  <2>0. tree \in [Path -> Nodes] /\ LedgerOK /\ SweepOK
    BY <1>3 DEF ObservationInv, TypeOK, SweepInv
  <2>1. ASSUME phase = "cleaning", changes' = changes, NEW path \in Path, tree'[path] # tree[path]
        PROVE  path \notin kept /\ path \in Range(Caches) \cup Bytecode
    <3>1. RemoveEntry \/ RemoveCache
      <4>1. changes \in Nat
        BY <1>3 DEF ObservationInv, TypeOK
      <4>2. ~Change
        BY <1>3, <2>1, <4>1, ChangesGrow
      <4>3. ~Apply
        BY <2>1 DEF Apply
      <4>. QED  BY <1>3, <2>1, <4>2, <4>3, TreeCases
    <3>2. CASE RemoveEntry
      <4>1. PICK x : x = First(sweep.items)
        OBVIOUS
      <4>2. /\ x \in sweep.items /\ x \in Bytecode /\ tree' = [tree EXCEPT ![x] = Absent]
            /\ sweep.open = TRUE
        <5>1. tree' # tree
          BY <2>1
        <5>2. sweep.open = TRUE
          BY <1>3, <3>2 DEF RemoveEntry, ObservationInv, TypeOK
        <5>. QED  BY <3>2, <4>1, <5>1, <5>2, FirstIs DEF RemoveEntry, Removed
      <4>3. path = x
        BY <2>0, <2>1, <4>2
      <4>. QED  BY <2>0, <4>2, <4>3, ObservationAssumption DEF LedgerOK, SweepOK
    <3>3. CASE RemoveCache
      <4>1. sweep.open = TRUE
        BY <1>3, <3>3 DEF RemoveCache, ObservationInv, TypeOK
      <4>2. PICK cache \in Range(Caches) : cache = Cache
        BY <1>3, <4>1, CacheIs DEF ObservationInv, PhaseOK
      <4>3. tree' = [tree EXCEPT ![cache] = Absent] /\ cache \notin ledger.directories
        <5>1. tree' # tree
          BY <2>1
        <5>. QED  BY <3>3, <4>2, <5>1 DEF RemoveCache, Removed
      <4>4. path = cache
        BY <2>0, <2>1, <4>3
      <4>5. cache \notin ledger.others /\ cache \notin ledger.entries
        BY <2>0, <4>1, <4>2 DEF LedgerOK, SweepOK
      <4>. QED  BY <2>0, <4>2, <4>3, <4>4, <4>5 DEF LedgerOK
    <3>. QED  BY <3>1, <3>2, <3>3
  <2>2. ASSUME phase' = "passed", kind = "patch", NEW cache \in Range(Caches)
        PROVE  Present(cache) \cup {cache} \subseteq
                 {path \in Path : ~Exists(path)} \cup kept \cup touched
    <3>1. phase \in {"final", "passed"}
      BY <1>3, <2>2, PhaseSteps
    <3>2. /\ sweep.left = 0 /\ sweep.unresolved = FALSE
          /\ \A i \in (sweep.left + 1)..Len(Caches) : Rest(Caches[i]) = {}
      BY <2>0, <2>2, <3>1 DEF SweepOK
    <3>3. PICK i \in 1..Len(Caches) : cache = Caches[i]
      <4>1. DOMAIN Caches = 1..Len(Caches)
        BY ObservationAssumption, LenProperties
      <4>. QED  BY <2>2, <4>1 DEF Range
    <3>4. Rest(cache) = {}
      BY <3>2, <3>3
    <3>5. cache \in Path /\ Children[cache] \subseteq Path
      BY <3>3, CachesAre
    <3>. QED  BY <3>4, <3>5 DEF Rest, Present
  <2>. QED  BY <2>1, <2>2
<1>4. ObservationInv /\ SweepInv /\ [Next]_vars => [F]_vars
  BY <1>3
<1>5. Spec => [][F]_vars
  BY <1>1, <1>2, <1>4, ObservationHolds, ToolsHold, PTL DEF Spec
<1>. QED  BY <1>5 DEF CleanupTakesBackWhatRunsLeft

-----------------------------------------------------------------------------
(* The listings *)

(* The walk of a listing: what it noted stays noted, and what it has still   *)
(* to come to it still has, or has noted.                                    *)
LEMMA WalkGoesOn ==
  ASSUME ObservationInv, Capturing, Scan \/ Visit \/ OpenFile \/ CloseFile, NEW path \in Path
  PROVE  /\ tree' = tree /\ touched' = touched
         /\ Current(path) => Current(path)'
         /\ /\ Exists(path) /\ path \notin Ignored /\ Current(path) /\ Accounted(path)
            /\ Parent(path) = Root \/ (Parent(path) \in Path /\ Current(Parent(path)))
            => Accounted(path)'
<1>. DEFINE Known == /\ Exists(path) /\ path \notin Ignored /\ Current(path) /\ Accounted(path)
                     /\ Parent(path) = Root \/ (Parent(path) \in Path /\ Current(Parent(path)))
<1>0. /\ TypeOK /\ walk \in Walks /\ IsTree(tree) /\ tree \in [Path -> Nodes]
      /\ Root \notin Path
  BY ObservationAssumption DEF ObservationInv, TypeOK, TreeOK, Walks
<1>1. tree' = tree /\ touched' = touched /\ phase \in {"baseline", "final"}
  BY DEF Scan, Visit, OpenFile, CloseFile, history, Capturing
<1>2. path \in Children[Parent(path)] /\ Parent(path) \in DOMAIN Children
  BY ParentIs
<1>3. CASE Scan
  <2>1. PICK top, front : top = Last(Stack) /\ front = Front(Stack)
    OBVIOUS
  <2>2. PICK names : names = Present(top) \ Ignored
    OBVIOUS
  <2>3. /\ walk' = [walk EXCEPT !.pending = front, !.subdirs = <<>>, !.children = names]
        /\ walk.children = {} /\ Stack # <<>> /\ walk.reading.stage = "none"
    BY <1>3, <2>1, <2>2 DEF Scan, Idle
  <2>4. /\ walk'.pending = front /\ walk'.subdirs = <<>> /\ walk'.children = names
        /\ walk'.reading = walk.reading /\ walk'.entries = walk.entries
    BY <1>0, <2>3 DEF Walks
  <2>5. Range(Stack) = Range(front) \cup {top} /\ front \in Seq(DOMAIN Children)
    BY <1>0, <2>1, <2>3, StackIs
  <2>6. Range(Stack)' = Range(front)
    <3>1. PICK s \in Seq(DOMAIN Children) : s = front
      BY <2>5
    <3>2. Reverse(<<>>) = <<>>
      BY EmptySeq, RangeOfReverse DEF Reverse
    <3>3. s \o <<>> = s
      BY ConcatProperties, EmptySeq
    <3>4. Stack' = s \o <<>>
      BY <2>4, <3>1, <3>2 DEF Stack
    <3>. QED  BY <3>1, <3>3, <3>4
  <2>7. Current(path) => Current(path)'
    BY <1>1, <2>4 DEF Current, BeingRead
  <2>8. ASSUME Known PROVE Accounted(path)'
    <3>1. CASE Listed(path)
      BY <2>4, <3>1 DEF Accounted, Listed
    <3>2. CASE Parent(path) \in Range(front)
      BY <2>6, <3>2 DEF Accounted
    <3>3. CASE Parent(path) = top
      BY <1>2, <2>2, <2>4, <2>8, <3>3 DEF Accounted, Present
    <3>4. CASE Parent(path) # Root /\ ~Listed(Parent(path))
      BY <2>4, <3>4 DEF Accounted, Listed
    <3>. QED  BY <2>3, <2>5, <2>8, <3>1, <3>2, <3>3, <3>4 DEF Accounted, BeingRead
  <2>. QED  BY <1>1, <2>7, <2>8
<1>4. CASE Visit
  <2>1. PICK name \in Path : name = First(walk.children)
    BY <1>0, <1>4, FirstIs DEF Visit, Walks
  <2>2. walk.reading.stage = "none" /\ Exists(name)
    BY <1>4, <2>1 DEF Visit, Idle
  <2>3. CASE tree[name].type = "file"
    <3>1. PICK reading : reading = [stage |-> "seen", path |-> name, seen |-> tree[name]]
      OBVIOUS
    <3>2. walk' = [walk EXCEPT !.children = @ \ {name}, !.reading = reading]
      BY <1>4, <2>1, <2>3, <3>1 DEF Visit
    <3>3. /\ walk'.children = walk.children \ {name} /\ walk'.reading = reading
          /\ walk'.entries = walk.entries /\ walk'.pending = walk.pending
          /\ walk'.subdirs = walk.subdirs
      BY <1>0, <3>2 DEF Walks
    <3>4. reading.stage = "seen" /\ reading.path = name /\ reading.seen = tree[name]
      BY <3>1
    <3>5. Current(path) => Current(path)'
      BY <1>1, <2>3, <3>3, <3>4 DEF Current, BeingRead
    <3>6. ASSUME Known PROVE Accounted(path)'
      <4>1. CASE path = name
        BY <3>3, <3>4, <4>1 DEF Accounted, BeingRead
      <4>2. CASE path # name
        <5>1. Stack' = Stack
          BY <3>3 DEF Stack
        <5>. QED  BY <2>2, <3>3, <3>6, <4>2, <5>1 DEF Accounted, Listed, BeingRead
      <4>. QED  BY <4>1, <4>2
    <3>. QED  BY <1>1, <3>5, <3>6
  <2>4. CASE tree[name].type # "file"
    <3>1. PICK entry : entry = Entry(name, tree[name], <<>>)
      OBVIOUS
    <3>2. PICK dirs : dirs = IF IsDirectory(name) THEN Append(walk.subdirs, name)
                                                  ELSE walk.subdirs
      OBVIOUS
    <3>3. walk' = [walk EXCEPT !.children = @ \ {name}, !.entries = @ \cup {entry},
                               !.subdirs = dirs]
      BY <1>4, <2>1, <2>4, <3>1, <3>2 DEF Visit
    <3>4. /\ walk'.children = walk.children \ {name} /\ walk'.reading = walk.reading
          /\ walk'.entries = walk.entries \cup {entry} /\ walk'.pending = walk.pending
          /\ walk'.subdirs = dirs
      BY <1>0, <3>3 DEF Walks
    <3>5. entry.path = name /\ entry.node = tree[name]
      BY <3>1 DEF Entry
    <3>6. Current(path) => Current(path)'
      BY <1>1, <2>2, <3>4, <3>5 DEF Current, BeingRead, Exists
    <3>7. /\ Range(Stack) \subseteq Range(Stack)'
          /\ IsDirectory(name) => name \in Range(Stack)'
      <4>1. PICK p \in Seq(DOMAIN Children), s \in Seq(DOMAIN Children) :
              p = walk.pending /\ s = walk.subdirs
        BY <1>0 DEF Walks
      <4>2. IsDirectory(name) => name \in DOMAIN Children
        BY <1>0, DirectoryIs
      <4>3. /\ dirs \in Seq(DOMAIN Children)
            /\ Range(s) \subseteq Range(dirs)
            /\ IsDirectory(name) => name \in Range(dirs)
        <5>1. ASSUME NEW d \in DOMAIN Children
              PROVE  /\ Append(s, d) \in Seq(DOMAIN Children)
                     /\ Range(Append(s, d)) = Range(s) \cup {d}
          BY AppendProperties, LenProperties DEF Range
        <5>. QED  BY <3>2, <4>1, <4>2, <5>1
      <4>4. PICK t \in Seq(DOMAIN Children) : t = dirs
        BY <4>3
      <4>5. PICK rs \in Seq(DOMAIN Children), rt \in Seq(DOMAIN Children) :
              /\ rs = Reverse(s) /\ rt = Reverse(t)
              /\ Range(rs) = Range(s) /\ Range(rt) = Range(t)
        BY RangeOfReverse
      <4>6. Stack = p \o rs /\ Stack' = p \o rt
        BY <3>4, <4>1, <4>4, <4>5 DEF Stack
      <4>7. Range(p \o rs) = Range(p) \cup Range(rs) /\ Range(p \o rt) = Range(p) \cup Range(rt)
        BY RangeConcatenation
      <4>8. Range(Stack) = Range(p) \cup Range(s) /\ Range(Stack)' = Range(p) \cup Range(dirs)
        BY <4>4, <4>5, <4>6, <4>7
      <4>. QED  BY <4>3, <4>8
    <3>8. ASSUME Known PROVE Accounted(path)'
      <4>1. CASE path = name
        BY <3>4, <3>5, <4>1 DEF Accounted, Listed
      <4>2. CASE Parent(path) = name
        <5>1. IsDirectory(name)
          BY <1>0, <3>8, <4>2 DEF IsTree, Exists, IsDirectory
        <5>. QED  BY <3>7, <4>2, <5>1 DEF Accounted
      <4>3. CASE path # name /\ Parent(path) # name
        <5>1. Listed(Parent(path))' => Listed(Parent(path))
          BY <3>4, <3>5, <4>3 DEF Listed
        <5>2. Listed(path) => Listed(path)'
          BY <3>4 DEF Listed
        <5>. QED  BY <2>2, <3>4, <3>7, <3>8, <4>3, <5>1, <5>2 DEF Accounted, BeingRead
      <4>. QED  BY <4>1, <4>2, <4>3
    <3>. QED  BY <1>1, <3>6, <3>8
  <2>. QED  BY <2>3, <2>4
<1>5. CASE OpenFile
  <2>1. PICK reading :
          reading = [stage |-> "open", path |-> walk.reading.path, seen |-> walk.reading.seen,
                     opened |-> tree[walk.reading.path], handle |-> tree[walk.reading.path],
                     first |-> tree[walk.reading.path].version]
    OBVIOUS
  <2>2. walk' = [walk EXCEPT !.reading = reading] /\ walk.reading.stage = "seen"
    BY <1>5, <2>1 DEF OpenFile
  <2>3. /\ walk'.children = walk.children /\ walk'.reading = reading
        /\ walk'.entries = walk.entries /\ walk'.pending = walk.pending
        /\ walk'.subdirs = walk.subdirs
    BY <1>0, <2>2 DEF Walks
  <2>4. reading.stage = "open" /\ reading.path = walk.reading.path
          /\ reading.seen = walk.reading.seen
    BY <2>1
  <2>5. Current(path) => Current(path)'
    BY <1>1, <2>2, <2>3, <2>4 DEF Current, BeingRead
  <2>6. Stack' = Stack
    BY <2>3 DEF Stack
  <2>7. Accounted(path) => Accounted(path)'
    BY <2>2, <2>3, <2>4, <2>6 DEF Accounted, Listed, BeingRead
  <2>. QED  BY <1>1, <2>5, <2>7
<1>6. CASE CloseFile
  <2>1. PICK entry : entry = Entry(walk.reading.path, walk.reading.seen,
                                   <<walk.reading.first, walk.reading.handle.version>>)
    OBVIOUS
  <2>2. walk' = [walk EXCEPT !.reading = NotReading, !.entries = @ \cup {entry}]
    BY <1>1, <1>6, <2>1 DEF CloseFile
  <2>3. /\ walk'.children = walk.children /\ walk'.reading = NotReading
        /\ walk'.entries = walk.entries \cup {entry} /\ walk'.pending = walk.pending
        /\ walk'.subdirs = walk.subdirs /\ NotReading.stage = "none"
    BY <1>0, <2>2, StartIs DEF Walks
  <2>4. entry.path = walk.reading.path /\ entry.node = walk.reading.seen
    BY <2>1 DEF Entry
  <2>5. walk.reading.stage = "open"
    BY <1>6 DEF CloseFile
  <2>6. Current(path) => Current(path)'
    BY <1>1, <2>3, <2>4, <2>5 DEF Current, BeingRead
  <2>7. Stack' = Stack
    BY <2>3 DEF Stack
  <2>8. ASSUME Known PROVE Accounted(path)'
    <3>1. CASE path = walk.reading.path
      BY <2>3, <2>4, <3>1 DEF Accounted, Listed
    <3>2. CASE path # walk.reading.path
      <4>1. Parent(path) # Root => tree[Parent(path)].type = "directory"
        BY <1>0, <2>8 DEF IsTree, Exists
      <4>2. Parent(path) # Root => Parent(path) # walk.reading.path
        BY <2>5, <2>8, <4>1 DEF Current, BeingRead
      <4>3. Parent(path) # Root /\ Listed(Parent(path))' => Listed(Parent(path))
        BY <2>3, <2>4, <4>2 DEF Listed
      <4>4. Listed(path) => Listed(path)'
        BY <2>3 DEF Listed
      <4>. QED  BY <2>3, <2>7, <2>8, <3>2, <4>3, <4>4 DEF Accounted, BeingRead
    <3>. QED  BY <3>1, <3>2
  <2>. QED  BY <1>1, <2>6, <2>8
<1>. QED  BY <1>3, <1>4, <1>5, <1>6

(* A change under the eyes of a listing touches no path that holds another.  *)
LEMMA WalkSeesChange ==
  ASSUME ObservationInv, WalkInv, Capturing, Change
  PROVE  WalkInv'
<1>0. /\ TypeOK /\ walk \in Walks /\ IsTree(tree) /\ tree \in [Path -> Nodes]
      /\ Root \notin Path /\ phase \in {"baseline", "final"} /\ phase' = phase
  BY ObservationAssumption DEF ObservationInv, TypeOK, TreeOK, Walks, Capturing, Change
<1>1. PICK x \in Path, node \in Nodes :
        /\ tree' = [tree EXCEPT ![x] = node]
        /\ touched' = touched \cup {x}
        /\ tree[x].type = "directory" => \A below \in Path : Parent(below) = x => ~Exists(below)
        /\ \/ /\ walk' = IF /\ walk.reading.stage = "open" /\ walk.reading.path = x
                            /\ walk.reading.handle = tree[x]
                           THEN [walk EXCEPT !.reading.handle = node]
                           ELSE walk
           \/ walk' = walk
  BY <1>0, ChangeIs DEF ObservationInv
<1>2. /\ walk'.children = walk.children /\ walk'.entries = walk.entries
      /\ walk'.pending = walk.pending /\ walk'.subdirs = walk.subdirs
      /\ walk'.reading.stage = walk.reading.stage
      /\ walk.reading.stage # "none" =>
           walk'.reading.path = walk.reading.path /\ walk'.reading.seen = walk.reading.seen
  <2>1. CASE walk' = walk
    BY <2>1
  <2>2. CASE walk.reading.stage = "open" /\ walk' = [walk EXCEPT !.reading.handle = node]
    <3>1. PICK reading : reading = [walk.reading EXCEPT !.handle = node]
      OBVIOUS
    <3>2. walk.reading \in [stage : {"open"}, path : Path, seen : Nodes, opened : Nodes,
                            handle : Nodes, first : Nat]
      BY <1>0, <2>2, ReadingIs
    <3>3. reading.stage = "open" /\ reading.path = walk.reading.path
            /\ reading.seen = walk.reading.seen
      BY <3>1, <3>2
    <3>4. walk' = [walk EXCEPT !.reading = reading]
      BY <1>0, <2>2, <3>1 DEF Walks
    <3>. QED  BY <1>0, <2>2, <3>3, <3>4 DEF Walks
  <2>. QED  BY <1>1, <2>1, <2>2
<1>3. ASSUME NEW path \in Path, path # x, Current(path)
      PROVE  Current(path)'
  BY <1>0, <1>1, <1>2, <1>3 DEF Current, BeingRead
<1>4. ASSUME NEW path \in Path, Accounted(path)
      PROVE  Accounted(path)'
  <2>1. Stack' = Stack
    BY <1>2 DEF Stack
  <2>. QED  BY <1>2, <1>4, <2>1 DEF Accounted, Listed, BeingRead
<1>5. ASSUME NEW group \in SUBSET Path, Standing(group)'
      PROVE  x \notin group /\ Standing(group)
  <2>1. /\ \A path \in group :
             /\ tree'[path].type # "absent" /\ path \notin Ignored
             /\ Parent(path) = Root \/ Parent(path) \in group
             /\ path \notin touched' \/ \E below \in group : Parent(below) = path
    BY <1>5 DEF Standing, Exists
  <2>2. x \notin group
    <3>1. SUFFICES ASSUME x \in group PROVE FALSE
      OBVIOUS
    <3>2. PICK below \in group : Parent(below) = x
      BY <1>1, <2>1, <3>1
    <3>3. CASE below = x
      <4>1. {x} \in (SUBSET Path) \ {{}}
        OBVIOUS
      <4>2. Parent(x) \notin {x}
        BY <4>1, ObservationAssumption
      <4>. QED  BY <3>2, <3>3, <4>2
    <3>4. CASE below # x
      <4>1. Exists(below)
        BY <1>0, <1>1, <2>1, <3>4 DEF Exists
      <4>2. tree[x].type = "directory"
        BY <1>0, <3>2, <4>1 DEF IsTree, Exists
      <4>. QED  BY <1>1, <3>2, <4>1, <4>2
    <3>. QED  BY <3>3, <3>4
  <2>3. \A path \in group : tree'[path] = tree[path]
    BY <1>0, <1>1, <2>2
  <2>. QED  BY <1>1, <2>1, <2>2, <2>3 DEF Standing, Exists
<1>6. \A path \in Path \ touched' : Current(path)'
  <2>1. ASSUME NEW path \in Path \ touched' PROVE Current(path)'
    <3>1. path \in Path \ touched /\ path # x
      BY <1>1
    <3>2. Current(path)
      BY <3>1 DEF WalkInv
    <3>. QED  BY <1>3, <3>1, <3>2
  <2>. QED  BY <2>1
<1>7. \A group \in SUBSET Path : Standing(group)' =>
        \A path \in group : Current(path)' /\ Accounted(path)'
  <2>1. ASSUME NEW group \in SUBSET Path, Standing(group)', NEW path \in group
        PROVE  Current(path)' /\ Accounted(path)'
    <3>1. path \in Path /\ path # x /\ Standing(group)
      BY <1>5, <2>1
    <3>2. Current(path) /\ Accounted(path)
      BY <3>1 DEF WalkInv
    <3>. QED  BY <1>3, <1>4, <3>1, <3>2
  <2>. QED  BY <2>1
<1>. QED  BY <1>6, <1>7 DEF WalkInv

LEMMA WalkBegins ==
  ASSUME walk' = Start
  PROVE  WalkInv'
<1>1. /\ walk'.entries = {} /\ walk'.reading.stage = "none" /\ walk'.pending = <<Root>>
      /\ walk'.subdirs = <<>> /\ walk'.children = {}
  BY StartIs
<1>2. \A path : Current(path)'
  BY <1>1 DEF Current, BeingRead
<1>3. Root \in Range(Stack)'
  <2>0. PICK S : Root \in S
    BY ObservationAssumption
  <2>1. PICK top \in Seq(S), none \in Seq(S) : top = <<Root>> /\ none = <<>>
    <3>1. <<Root>> \in Seq(S) /\ <<>> \in Seq(S)
      BY <2>0
    <3>. QED  BY <3>1
  <2>2. Reverse(none) \in Seq(S)
          /\ Range(top \o Reverse(none)) = Range(top) \cup Range(Reverse(none))
    <3>1. PICK r \in Seq(S) : r = Reverse(none)
      BY RangeOfReverse
    <3>. QED  BY <3>1, RangeConcatenation
  <2>3. Root \in Range(<<Root>>)
    BY DEF Range
  <2>4. Stack' = top \o Reverse(none)
    BY <1>1, <2>1 DEF Stack
  <2>. QED  BY <2>1, <2>2, <2>3, <2>4
<1>4. \A path : Accounted(path)'
  BY <1>1, <1>3 DEF Accounted, Listed
<1>. QED  BY <1>2, <1>4 DEF WalkInv

(* A phase that lists is entered with a fresh listing.                       *)
LEMMA ListingPhases ==
  ASSUME ObservationInv, [Next]_vars, Capturing'
  PROVE  \/ walk' = Start
         \/ Capturing /\ phase' = phase
              /\ (Scan \/ Visit \/ OpenFile \/ CloseFile \/ Change
                  \/ UNCHANGED <<tree, walk, touched>>)
<1>0. phase \notin {"baseline", "final", "actions", "passed"} => walk = Start
  BY DEF ObservationInv, PhaseOK
<1>1. ASSUME Fail PROVE walk' = Start
  BY <1>1, FailIs
<1>2. CASE UNCHANGED vars \/ ToolExits
  BY <1>2 DEF vars, ToolExits, history, Capturing
<1>3. CASE Scan \/ Visit \/ OpenFile \/ CloseFile \/ Change
  BY <1>0, <1>3 DEF Scan, Visit, OpenFile, CloseFile, Change, Capturing
<1>4. CASE UseTools \/ PreflightEnds \/ CleaningDone
  BY <1>0, <1>1, <1>4 DEF UseTools, PreflightEnds, CleaningDone, Capturing
<1>5. CASE ToolsDone \/ ObservationFails \/ Compare
  BY <1>0, <1>1, <1>5 DEF ToolsDone, ObservationFails, Compare, Capturing
<1>6. CASE BaselineDone \/ ReadNext \/ TakeRead \/ Apply \/ ApplyFails \/ NoteCache
           \/ LedgerDone \/ OpenCache \/ RemoveEntry \/ RemoveCache
  BY <1>6 DEF BaselineDone, ReadNext, TakeRead, Apply, ApplyFails, NoteCache, LedgerDone,
              OpenCache, RemoveEntry, RemoveCache, Capturing
<1>7. CASE InterruptJob
  BY <1>0, <1>1, <1>7 DEF InterruptJob, Interrupted, Capturing
<1>. QED  BY <1>2, <1>3, <1>4, <1>5, <1>6, <1>7 DEF Next, Work

LEMMA NextWalkInv ==
  ASSUME ObservationInv, WalkInv, [Next]_vars
  PROVE  WalkInv'
<1>1. CASE walk' = Start
  BY <1>1, WalkBegins
<1>2. CASE Capturing /\ Change
  BY <1>2, WalkSeesChange
<1>3. CASE Capturing /\ (Scan \/ Visit \/ OpenFile \/ CloseFile)
  <2>1. tree' = tree /\ touched' = touched
    BY <1>3 DEF Scan, Visit, OpenFile, CloseFile, history
  <2>2. \A path \in Path \ touched' : Current(path)'
    BY <1>3, <2>1, WalkGoesOn DEF WalkInv
  <2>3. ASSUME NEW group \in SUBSET Path, Standing(group)', NEW path \in group
        PROVE  Current(path)' /\ Accounted(path)'
    <3>1. Standing(group)
      BY <2>1, <2>3 DEF Standing, Exists
    <3>2. /\ Current(path) /\ Accounted(path) /\ Exists(path) /\ path \notin Ignored
          /\ Parent(path) = Root \/ (Parent(path) \in Path /\ Current(Parent(path)))
      BY <1>3, <3>1 DEF WalkInv, Standing
    <3>3. path \in Path
      OBVIOUS
    <3>. QED  BY <1>3, <3>2, <3>3, WalkGoesOn
  <2>. QED  BY <2>2, <2>3 DEF WalkInv
<1>4. CASE Capturing /\ UNCHANGED <<tree, walk, touched>>
  BY <1>4 DEF WalkInv, Current, Accounted, Standing, BeingRead, Listed, Stack, Exists
<1>5. CASE ~Capturing'
  BY <1>5 DEF WalkInv
<1>. QED  BY <1>1, <1>2, <1>3, <1>4, <1>5, ListingPhases

(* A path that is there and that nothing touched stands, with all above it.  *)
LEMMA UntouchedStands ==
  ASSUME ObservationInv, NEW path \in Path, Exists(path), path \notin Ignored \cup touched
  PROVE  \E group \in SUBSET Path : Standing(group) /\ path \in group
<1>. DEFINE Closed(S) == path \in S /\ \A q \in S : Parent(q) \in Path => Parent(q) \in S
            Above == {q \in Path : \A S \in SUBSET Path : Closed(S) => q \in S}
            There == {q \in Path : Exists(q) /\ q \notin Ignored}
<1>0. IsTree(tree) /\ Root \notin Path
  BY ObservationAssumption DEF ObservationInv, TreeOK
<1>1. \A q \in Path : Parent(q) = Root \/ Parent(q) \in Path
  BY ParentIs, ChildrenAre
<1>2. There \in SUBSET Path /\ Closed(There)
  <2>1. path \in There
    OBVIOUS
  <2>2. ASSUME NEW q \in There, Parent(q) \in Path PROVE Parent(q) \in There
    <3>1. tree[Parent(q)].type = "directory"
      BY <1>0, <2>2 DEF IsTree, Exists
    <3>2. Parent(q) \notin Ignored
      BY <2>2, ObservationAssumption
    <3>. QED  BY <2>2, <3>1, <3>2 DEF Exists
  <2>. QED  BY <2>1, <2>2
<1>3. Above \in SUBSET Path /\ Closed(Above)
  <2>1. path \in Above
    OBVIOUS
  <2>2. ASSUME NEW q \in Above, Parent(q) \in Path PROVE Parent(q) \in Above
    BY <2>2
  <2>. QED  BY <2>1, <2>2
<1>4. \A S \in SUBSET Path : Closed(S) => Above \subseteq S
  OBVIOUS
<1>. HIDE DEF Above, There
<1>5. ASSUME NEW q \in Above, q # path PROVE \E below \in Above : Parent(below) = q
  <2>1. SUFFICES ASSUME \A below \in Above : Parent(below) # q PROVE FALSE
    OBVIOUS
  <2>2. Above \ {q} \in SUBSET Path
    BY <1>3
  <2>3. Closed(Above \ {q})
    BY <1>3, <1>5, <2>1
  <2>. QED  BY <1>4, <1>5, <2>2, <2>3
<1>6. \A q \in Above : Exists(q) /\ q \notin Ignored
  BY <1>2, <1>4 DEF There
<1>7. \A q \in Above : Parent(q) = Root \/ Parent(q) \in Above
  BY <1>1, <1>3
<1>8. Standing(Above)
  BY <1>5, <1>6, <1>7 DEF Standing
<1>. QED  BY <1>3, <1>8

(* A listing that is complete lists every path that stands.                  *)
LEMMA StandingIsListed ==
  ASSUME ObservationInv, WalkInv, Captured, NEW group \in SUBSET Path, Standing(group),
         NEW path \in group
  PROVE  Listed(path)
<1>. DEFINE Missing == {q \in group : ~Listed(q)}
<1>1. SUFFICES ASSUME Missing # {} PROVE FALSE
  OBVIOUS
<1>2. PICK q \in Missing : Parent(q) \notin Missing
  BY <1>1, ObservationAssumption
<1>3. Accounted(q) /\ (Parent(q) = Root \/ Parent(q) \in group)
  BY <1>2 DEF WalkInv, Captured, Standing
<1>4. Range(Stack) = {}
  <2>1. Stack = <<>>
    BY DEF Captured
  <2>. QED  BY <2>1 DEF Range
<1>5. Parent(q) # Root /\ ~Listed(Parent(q))
  BY <1>2, <1>3, <1>4 DEF Accounted, Captured, Idle, BeingRead
<1>. QED  BY <1>2, <1>3, <1>5

(* What a complete listing says of the paths nothing touched.                *)
LEMMA ListingIsComplete ==
  ASSUME ObservationInv, WalkInv, Captured, NEW path \in Path \ (Ignored \cup touched)
  PROVE  /\ Exists(path) => Listed(path)
         /\ Current(path)
<1>1. Exists(path) => Listed(path)
  BY UntouchedStands, StandingIsListed
<1>2. Current(path)
  BY DEF WalkInv, Captured
<1>. QED  BY <1>1, <1>2

(* Once the first listing is complete, what it and the tree then were stays, *)
(* and what is touched stays touched.                                        *)
LEMMA BaselineStays ==
  ASSUME ObservationInv, [Next]_vars
  PROVE  /\ touched \subseteq touched'
         /\ phase' \notin {"preflight", "baseline", "failed"} =>
              \/ BaselineDone
              \/ /\ phase \notin {"preflight", "baseline", "failed"}
                 /\ baseline' = baseline /\ before' = before
<1>1. touched \subseteq touched'
  <2>1. CASE Change
    BY <2>1, ChangeIs DEF ObservationInv
  <2>. QED  BY <2>1, RestCases
<1>2. phase \in {"preflight", "baseline", "failed"} /\ ~BaselineDone =>
        phase' \in {"preflight", "baseline", "failed"}
  <2>0. phase \in {"preflight", "baseline", "failed"} /\ Fail => phase' = "failed"
    BY FailIs
  <2>1. CASE \/ UNCHANGED vars \/ UseTools \/ Scan \/ Visit \/ OpenFile \/ CloseFile
             \/ ReadNext \/ NoteCache \/ Change \/ ToolExits \/ OpenCache \/ RemoveEntry
             \/ RemoveCache
    BY <2>1 DEF vars, UseTools, Scan, Visit, OpenFile, CloseFile, ReadNext, NoteCache,
                Change, ToolExits, OpenCache, RemoveEntry, RemoveCache
  <2>2. CASE PreflightEnds \/ TakeRead \/ Apply \/ ApplyFails \/ LedgerDone
    BY <2>2 DEF PreflightEnds, TakeRead, Apply, ApplyFails, LedgerDone
  <2>3. CASE ToolsDone \/ Compare \/ CleaningDone
    BY <2>3 DEF ToolsDone, Compare, CleaningDone
  <2>4. CASE ObservationFails \/ InterruptJob
    BY <2>0, <2>4 DEF ObservationFails, InterruptJob, Interrupted
  <2>. QED  BY <2>1, <2>2, <2>3, <2>4 DEF Next, Work
<1>. QED  BY <1>1, <1>2, RestCases

LEMMA NextBaseline ==
  ASSUME ObservationInv, WalkInv, BaselineInv, [Next]_vars
  PROVE  BaselineInv'
<1>1. CASE phase' \in {"preflight", "baseline", "failed"}
  BY <1>1 DEF BaselineInv
<1>2. CASE BaselineDone
  <2>1. /\ baseline' = walk.entries /\ before' = tree /\ touched' = touched /\ Captured
        /\ Capturing
    BY <1>2 DEF BaselineDone, Captured
  <2>2. ASSUME NEW path \in Path \ (Ignored \cup touched), tree[path].type # "absent"
        PROVE  \E entry \in walk.entries : entry.path = path
    BY <2>1, <2>2, ListingIsComplete DEF Exists, Listed
  <2>3. ASSUME NEW entry \in walk.entries, entry.path \notin touched
        PROVE  entry.node = tree[entry.path] /\ entry.node.type # "absent"
    <3>1. entry.path \in Path
      <4>1. entry \in Entries
        BY <2>3 DEF ObservationInv, TypeOK
      <4>. QED  BY <4>1 DEF Entries
    <3>2. Current(entry.path)
      BY <2>1, <2>3, <3>1 DEF WalkInv
    <3>. QED  BY <2>3, <3>2 DEF Current
  <2>. QED  BY <2>1, <2>2, <2>3 DEF BaselineInv
<1>3. CASE /\ phase \notin {"preflight", "baseline", "failed"}
           /\ baseline' = baseline /\ before' = before
  BY <1>3, BaselineStays DEF BaselineInv
<1>. QED  BY <1>1, <1>2, <1>3, BaselineStays

LEMMA NextAbsence ==
  ASSUME ObservationInv, AbsenceOK, [Next]_vars
  PROVE  AbsenceOK'
<1>0. tree \in [Path -> Nodes]
  BY DEF ObservationInv, TypeOK
<1>1. ASSUME NEW path \in Path, tree'[path].type = "absent" PROVE tree'[path].version = 0
  <2>1. CASE tree' = tree
    BY <1>1, <2>1 DEF AbsenceOK
  <2>2. ASSUME NEW x \in Path, tree' = [tree EXCEPT ![x] = Absent]
        PROVE  tree'[path].version = 0
    <3>1. tree'[path] = IF path = x THEN Absent ELSE tree[path]
      BY <1>0, <2>2
    <3>. QED  BY <1>1, <3>1, NodesAre DEF AbsenceOK
  <2>3. CASE RemoveEntry
    <3>1. First(sweep.items) \in Path
      BY <2>3, FirstIs DEF RemoveEntry, ObservationInv, TypeOK
    <3>. QED  BY <2>1, <2>2, <2>3, <3>1 DEF RemoveEntry, Removed
  <2>4. CASE RemoveCache
    <3>1. Cache \in Path
      BY <2>4, CacheIs DEF RemoveCache, ObservationInv, PhaseOK
    <3>. QED  BY <2>1, <2>2, <2>4, <3>1 DEF RemoveCache, Removed
  <2>5. CASE Apply
    <3>1. tree'[path] = IF path \in Declared THEN Node("file", 1) ELSE tree[path]
      BY <2>5 DEF Apply
    <3>. QED  BY <1>1, <3>1, NodesAre DEF AbsenceOK
  <2>6. CASE Change
    <3>1. PICK x \in Path, node \in Nodes :
            tree' = [tree EXCEPT ![x] = node] /\ (node.type = "absent" => node.version = 0)
      BY <2>6, ChangeIs DEF ObservationInv
    <3>2. tree'[path] = IF path = x THEN node ELSE tree[path]
      BY <1>0, <3>1
    <3>. QED  BY <1>1, <3>1, <3>2 DEF AbsenceOK
  <2>. QED  BY <2>1, <2>3, <2>4, <2>5, <2>6, TreeCases
<1>2. ASSUME NEW path \in Path, before'[path].type = "absent" PROVE before'[path].version = 0
  BY <1>2, RestCases DEF AbsenceOK, BaselineDone
<1>. QED  BY <1>1, <1>2 DEF AbsenceOK

(* A job that passes has compared two complete listings.                     *)
LEMMA PassingIsComparing ==
  ASSUME ObservationInv, ToolsInv, [Next]_vars, phase' = "passed"
  PROVE  /\ tree' = tree /\ before' = before /\ touched' = touched
         /\ phase = "passed" \/ (Compare /\ failing = FALSE
                                  /\ Changed(baseline, walk.entries) \subseteq Expected)
<1>0. failing \in BOOLEAN
  BY DEF ObservationInv, TypeOK
<1>1. ASSUME Fail PROVE FALSE
  BY <1>1, FailIs
<1>2. CASE Compare
  BY <1>0, <1>1, <1>2 DEF Compare, history
<1>3. CASE phase = "passed" /\ phase' = phase /\ ~Compare
  <2>1. ~Change /\ ~Apply /\ ~RemoveEntry /\ ~RemoveCache /\ ~BaselineDone
    BY <1>3 DEF Change, Ended, Apply, RemoveEntry, RemoveCache, BaselineDone
  <2>. QED  BY <1>3, <2>1, TreeCases, RestCases
<1>4. ~Compare => phase = "passed"
  <2>1. CASE \/ UNCHANGED vars \/ UseTools \/ Scan \/ Visit \/ OpenFile \/ CloseFile
             \/ ReadNext \/ NoteCache \/ Change \/ ToolExits \/ OpenCache \/ RemoveEntry
             \/ RemoveCache
    BY <2>1 DEF vars, UseTools, Scan, Visit, OpenFile, CloseFile, ReadNext, NoteCache,
                Change, ToolExits, OpenCache, RemoveEntry, RemoveCache
  <2>2. CASE PreflightEnds \/ TakeRead \/ Apply \/ ApplyFails \/ LedgerDone
    BY <2>2 DEF PreflightEnds, TakeRead, Apply, ApplyFails, LedgerDone
  <2>3. CASE BaselineDone
    <3>1. phase' = CASE kind = "patch"  -> "effects"
                     [] kind = "verify" -> "tools"
                     [] kind = "audit"  -> "actions"
      BY <2>3 DEF BaselineDone
    <3>2. kind \in Kind
      BY DEF ToolsInv, ToolsTypeOK
    <3>. QED  BY <3>1, <3>2 DEF Kind
  <2>4. CASE ToolsDone \/ ObservationFails \/ CleaningDone \/ InterruptJob
    BY <1>1, <2>4 DEF ToolsDone, ObservationFails, CleaningDone, InterruptJob, Interrupted
  <2>. QED  BY <2>1, <2>2, <2>3, <2>4 DEF Next, Work
<1>. QED  BY <1>2, <1>3, <1>4

LEMMA NextFound ==
  ASSUME ObservationInv, ToolsInv, FoundInv, [Next]_vars
  PROVE  FoundInv'
<1>1. WalkInv' /\ BaselineInv' /\ AbsenceOK'
  BY NextWalkInv, NextBaseline, NextAbsence DEF FoundInv
<1>2. WorkspaceIsAsFound'
  <2>1. SUFFICES ASSUME phase' = "passed", NEW path \in Path \ (Ignored \cup touched'),
                        ~(kind' = "patch" /\ path \in Declared)
                 PROVE  tree'[path] = before'[path]
    BY DEF WorkspaceIsAsFound
  <2>2. tree' = tree /\ before' = before /\ touched' = touched /\ kind' = kind
    BY <2>1, PassingIsComparing, KindStays
  <2>3. CASE phase = "passed"
    BY <2>1, <2>2, <2>3 DEF FoundInv, WorkspaceIsAsFound
  <2>4. CASE Compare /\ Changed(baseline, walk.entries) \subseteq Expected
    <3>1. /\ Captured /\ phase = "final" /\ path \notin Expected
          /\ path \in Path \ (Ignored \cup touched)
      BY <2>1, <2>2, <2>4 DEF Compare, Expected
    <3>2. (Exists(path) => Listed(path)) /\ Current(path)
      BY <3>1, ListingIsComplete DEF FoundInv
    <3>3. /\ before[path].type # "absent" => \E entry \in baseline : entry.path = path
          /\ \A entry \in baseline : entry.path = path =>
               entry.node = before[path] /\ entry.node.type # "absent"
      BY <3>1 DEF FoundInv, BaselineInv
    <3>4. \A entry \in (baseline \ walk.entries) \cup (walk.entries \ baseline) :
            entry.path # path
      BY <2>4, <3>1 DEF Changed
    <3>5. CASE Exists(path)
      <4>1. PICK entry \in walk.entries : entry.path = path
        BY <3>2, <3>5 DEF Listed
      <4>2. entry \in baseline
        BY <3>4, <4>1
      <4>. QED  BY <2>2, <3>2, <3>3, <4>1, <4>2 DEF Current
    <3>6. CASE ~Exists(path)
      <4>1. ASSUME before[path].type # "absent" PROVE FALSE
        <5>1. PICK entry \in baseline : entry.path = path
          BY <3>3, <4>1
        <5>2. entry \in walk.entries
          BY <3>4, <5>1
        <5>. QED  BY <3>2, <3>6, <5>1, <5>2 DEF Current, Exists
      <4>2. /\ tree[path].type = "absent" /\ before[path].type = "absent"
            /\ tree[path].version = 0 /\ before[path].version = 0
        BY <3>6, <4>1 DEF Exists, FoundInv, AbsenceOK
      <4>3. tree[path] \in Nodes /\ before[path] \in Nodes
        BY DEF ObservationInv, TypeOK
      <4>. QED  BY <2>2, <4>2, <4>3 DEF Nodes
    <3>. QED  BY <3>5, <3>6
  <2>. QED  BY <2>1, <2>3, <2>4, PassingIsComparing
<1>. QED  BY <1>1, <1>2 DEF FoundInv

LEMMA InitFound ==
  ASSUME Init
  PROVE  FoundInv
<1>1. phase = "preflight" /\ ~Capturing
  BY DEF Init, Capturing
<1>2. AbsenceOK
  <2>1. PICK t \in InitialTrees : tree = t /\ before = t
    BY DEF Init
  <2>2. \A path \in Path : t[path].version = 0
    BY <2>1, ObservationAssumption
  <2>. QED  BY <2>1, <2>2 DEF AbsenceOK
<1>. QED  BY <1>1, <1>2 DEF FoundInv, WalkInv, BaselineInv, WorkspaceIsAsFound

(* A job that succeeds found the workspace at its end as at its beginning,   *)
(* but for the paths a patch declared, those policy ignores, and changes     *)
(* made while it was listing, hashing or cleaning: a listing that raised no  *)
(* error has an entry, and the right one, for every path that nothing        *)
(* touched meanwhile (inventory.capture_inventory, compare_inventories).     *)
THEOREM WorkspaceHolds == Spec => []WorkspaceIsAsFound
<1>1. Init => FoundInv
  BY InitFound
<1>2. ObservationInv /\ ToolsInv /\ FoundInv /\ [Next]_vars => FoundInv'
  BY NextFound
<1>3. FoundInv => WorkspaceIsAsFound
  BY DEF FoundInv
<1>. QED  BY <1>1, <1>2, <1>3, ObservationHolds, ToolsHold, PTL DEF Spec
=============================================================================
