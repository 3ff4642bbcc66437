----------------------------- MODULE OutputProofs -----------------------------
(***************************************************************************)
(* Proofs about Output, for every list of statuses, every message and      *)
(* every duration.                                                         *)
(***************************************************************************)
EXTENDS Output, FiniteSetTheorems, SequenceTheorems, TLAPS

-------------------------------------------------------------------------------
(* Durations.                                                              *)
LEMMA ThreeDigits ==
  ASSUME NEW f \in Nat, f < 1000
  PROVE  /\ f \div 100 \in Nat /\ (f \div 10) % 10 \in Nat /\ f % 10 \in Nat
         /\ f = 100 * (f \div 100) + 10 * ((f \div 10) % 10) + (f % 10)
<1> DEFINE q == f \div 10
<1>1. q \in Nat /\ q < 100 /\ f % 10 \in Nat /\ f % 10 < 10 /\ f = 10 * q + (f % 10)
  OBVIOUS
<1>2. q % 10 \in Nat /\ q \div 10 \in Nat /\ q = 10 * (q \div 10) + (q % 10)
  BY <1>1
<1>3. f \div 100 = q \div 10
  BY <1>1, <1>2
<1> QED
  BY <1>1, <1>2, <1>3

LEMMA DigitsOfTuple ==
  ASSUME NEW part, NEW a, NEW b, NEW c
  PROVE  /\ part.fraction = <<>> =>
              Digit(part, 1) = 0 /\ Digit(part, 2) = 0 /\ Digit(part, 3) = 0
         /\ part.fraction = <<a>> =>
              Digit(part, 1) = a /\ Digit(part, 2) = 0 /\ Digit(part, 3) = 0
         /\ part.fraction = <<a, b>> =>
              Digit(part, 1) = a /\ Digit(part, 2) = b /\ Digit(part, 3) = 0
         /\ part.fraction = <<a, b, c>> =>
              Digit(part, 1) = a /\ Digit(part, 2) = b /\ Digit(part, 3) = c
BY DEF Digit

(* The digits behind the point, without the zeros they have lost, are the  *)
(* number they were made of.                                               *)
Shown(part) ==
  /\ Len(part.fraction) <= 3
  /\ part.fraction # <<>> => part.fraction[Len(part.fraction)] # 0

LEMMA FractionReads ==
  ASSUME NEW f \in Nat, f < 1000, NEW part, part.fraction = Fraction(f)
  PROVE  Thousandths(part) = f /\ Shown(part)
<1> DEFINE d1 == f \div 100
           d2 == (f \div 10) % 10
           d3 == f % 10
<1>1. /\ d1 \in Nat /\ d2 \in Nat /\ d3 \in Nat
      /\ f = 100 * d1 + 10 * d2 + d3
  BY ThreeDigits
<1>2. part.fraction = IF f = 0 THEN <<>> ELSE IF d3 # 0 THEN <<d1, d2, d3>>
                      ELSE IF d2 # 0 THEN <<d1, d2>> ELSE <<d1>>
  BY DEF Fraction
<1> HIDE DEF d1, d2, d3
<1>3. CASE f = 0
  BY <1>2, <1>3, DigitsOfTuple DEF Shown, Thousandths
<1>4. CASE f # 0 /\ d3 # 0
  <2>1. part.fraction = <<d1, d2, d3>>
    BY <1>2, <1>4
  <2>2. Thousandths(part) = 100 * d1 + 10 * d2 + d3
    BY <2>1, DigitsOfTuple DEF Thousandths
  <2>3. Shown(part)
    BY <1>4, <2>1 DEF Shown
  <2> QED
    BY <1>1, <1>4, <2>2, <2>3
<1>5. CASE f # 0 /\ d3 = 0 /\ d2 # 0
  <2>1. part.fraction = <<d1, d2>>
    BY <1>2, <1>5
  <2>2. Thousandths(part) = 100 * d1 + 10 * d2
    BY <1>1, <2>1, DigitsOfTuple DEF Thousandths
  <2>3. Shown(part)
    BY <1>5, <2>1 DEF Shown
  <2> QED
    BY <1>1, <1>5, <2>2, <2>3
<1>6. CASE f # 0 /\ d3 = 0 /\ d2 = 0
  <2>1. part.fraction = <<d1>>
    BY <1>2, <1>6
  <2>2. Thousandths(part) = 100 * d1
    BY <1>1, <2>1, DigitsOfTuple DEF Thousandths
  <2>3. f = 100 * d1 /\ d1 # 0
    BY <1>1, <1>6
  <2>4. Shown(part)
    BY <2>1, <2>3 DEF Shown
  <2> QED
    BY <2>2, <2>3, <2>4
<1> QED
  BY <1>3, <1>4, <1>5, <1>6

(* A part of a text that holds nothing the next larger unit should hold,   *)
(* and a text of such parts that says ms milliseconds.                     *)
Proper(part) ==
  /\ part.unit # "h" => part.number < (IF part.unit = "ms" THEN 1000 ELSE 60)
  /\ part.unit # "under_ms"
  /\ Shown(part)
  /\ Milliseconds(part) \in Nat

Says(text, ms) ==
  /\ text # <<>> /\ Len(text) <= 3
  /\ ReadBack(text) = ms
  /\ \A n \in DOMAIN text : Proper(text[n])

LEMMA OneSays ==
  ASSUME NEW a, Proper(a)
  PROVE  Says(<<a>>, Milliseconds(a))
<1>1. Milliseconds(a) \in Nat
  BY DEF Proper
<1>2. ReadBack(<<a>>) = Milliseconds(a)
  BY <1>1 DEF ReadBack
<1> QED
  BY <1>2 DEF Says

LEMMA TwoSay ==
  ASSUME NEW a, NEW b, Proper(a), Proper(b)
  PROVE  Says(<<a, b>>, Milliseconds(a) + Milliseconds(b))
<1>1. Milliseconds(a) \in Nat /\ Milliseconds(b) \in Nat
  BY DEF Proper
<1>2. ReadBack(<<a, b>>) = Milliseconds(a) + Milliseconds(b)
  BY <1>1 DEF ReadBack
<1> QED
  BY <1>2 DEF Says

LEMMA ThreeSay ==
  ASSUME NEW a, NEW b, NEW c, Proper(a), Proper(b), Proper(c)
  PROVE  Says(<<a, b, c>>, Milliseconds(a) + Milliseconds(b) + Milliseconds(c))
<1>1. Milliseconds(a) \in Nat /\ Milliseconds(b) \in Nat /\ Milliseconds(c) \in Nat
  BY DEF Proper
<1>2. ReadBack(<<a, b, c>>) = Milliseconds(a) + Milliseconds(b) + Milliseconds(c)
  BY <1>1 DEF ReadBack
<1> QED
  BY <1>2 DEF Says

LEMMA SecondsRead ==
  ASSUME NEW ms \in Nat, ms < 60000, NEW part, part = SecondsComponent(ms)
  PROVE  Proper(part) /\ Milliseconds(part) = ms
<1> DEFINE number == ms \div 1000
           f == ms % 1000
<1>1. /\ number \in Nat /\ number < 60 /\ f \in Nat /\ f < 1000
      /\ ms = 1000 * number + f
  OBVIOUS
<1>2. part.number = number /\ part.fraction = Fraction(f) /\ part.unit = "s"
  BY DEF SecondsComponent
<1> HIDE DEF number, f
<1>3. Thousandths(part) = f /\ Shown(part)
  BY <1>1, <1>2, FractionReads
<1>4. Milliseconds(part) = 1000 * number + f
  BY <1>2, <1>3 DEF Milliseconds
<1> QED
  BY <1>1, <1>2, <1>3, <1>4 DEF Proper

LEMMA PlainPart ==
  ASSUME NEW number \in Nat
  PROVE  /\ number < 1000 => /\ Proper(Part(number, "ms"))
                             /\ Milliseconds(Part(number, "ms")) = number
         /\ number < 60 => /\ Proper(Part(number, "m"))
                           /\ Milliseconds(Part(number, "m")) = 60000 * number
         /\ /\ Proper(Part(number, "h"))
            /\ Milliseconds(Part(number, "h")) = 3600000 * number
<1>1. /\ Milliseconds(Part(number, "ms")) = number
      /\ Milliseconds(Part(number, "m")) = 60000 * number
      /\ Milliseconds(Part(number, "h")) = 3600000 * number
  BY SMT DEF Part, Milliseconds
<1>2. ASSUME NEW unit
      PROVE  /\ Part(number, unit).number = number /\ Part(number, unit).unit = unit
             /\ Shown(Part(number, unit))
  BY DEF Part, Shown
<1> QED
  BY SMT, <1>1, <1>2 DEF Proper

LEMMA ClockParts ==
  ASSUME NEW ms \in Nat
  PROVE  /\ ms \div 3600000 \in Nat
         /\ (ms % 3600000) \div 60000 \in Nat /\ (ms % 3600000) \div 60000 < 60
         /\ (ms % 3600000) % 60000 \in Nat /\ (ms % 3600000) % 60000 < 60000
         /\ ms = 3600000 * (ms \div 3600000) + 60000 * ((ms % 3600000) \div 60000)
                 + ((ms % 3600000) % 60000)
<1> DEFINE rest == ms % 3600000
<1>1. /\ ms \div 3600000 \in Nat /\ rest \in Nat /\ rest < 3600000
      /\ ms = 3600000 * (ms \div 3600000) + rest
  BY SMT
<1> HIDE DEF rest
<1>2. /\ rest \div 60000 \in Nat /\ rest \div 60000 < 60
      /\ rest % 60000 \in Nat /\ rest % 60000 < 60000
      /\ rest = 60000 * (rest \div 60000) + (rest % 60000)
  BY SMT, <1>1
<1> QED
  BY SMT, <1>1, <1>2 DEF rest

LEMMA ClockReads ==
  ASSUME NEW hours \in Nat, NEW minutes \in Nat, minutes < 60, NEW left \in Nat, left < 60000
  PROVE  LET h == Part(hours, "h")
             m == Part(minutes, "m")
             s == SecondsComponent(left)
         IN /\ Says(<<h, m, s>>, 3600000 * hours + 60000 * minutes + left)
            /\ Says(<<m, s>>, 60000 * minutes + left)
<1>1. Proper(Part(hours, "h")) /\ Milliseconds(Part(hours, "h")) = 3600000 * hours
  BY SMT, PlainPart
<1>2. Proper(Part(minutes, "m")) /\ Milliseconds(Part(minutes, "m")) = 60000 * minutes
  BY SMT, PlainPart
<1>3. Proper(SecondsComponent(left)) /\ Milliseconds(SecondsComponent(left)) = left
  BY SMT, SecondsRead
<1>4. Says(<<Part(minutes, "m"), SecondsComponent(left)>>, 60000 * minutes + left)
  BY SMT, <1>2, <1>3, TwoSay
<1>5. Says(<<Part(hours, "h"), Part(minutes, "m"), SecondsComponent(left)>>,
           3600000 * hours + 60000 * minutes + left)
  BY SMT, <1>1, <1>2, <1>3, ThreeSay
<1> QED
  BY SMT, <1>4, <1>5

(* The text of a duration of 1 ms or more says it, rounded.                *)
LEMMA DurationReads ==
  ASSUME NEW d \in Duration, d.ms > 0
  PROVE  Says(FormatDuration(d), Rounded(d))
<1> DEFINE ms == Rounded(d)
<1>1. ms \in Nat \ {0} /\ d.ms # 0 /\ d # [ms |-> 0, ns |-> 0]
  BY SMT DEF Duration, Rounded
<1>2. CASE ms < 1000
  <2>1. FormatDuration(d) = <<Part(ms, "ms")>>
    BY SMT, <1>1, <1>2 DEF FormatDuration
  <2> HIDE DEF ms
  <2>2. Proper(Part(ms, "ms")) /\ Milliseconds(Part(ms, "ms")) = ms
    BY SMT, <1>1, <1>2, PlainPart
  <2>3. Says(<<Part(ms, "ms")>>, Milliseconds(Part(ms, "ms")))
    BY <2>2, OneSays
  <2> QED
    BY SMT, <2>1, <2>2, <2>3 DEF ms
<1>3. CASE ms >= 1000 /\ ms < 60000
  <2>1. FormatDuration(d) = <<SecondsComponent(ms)>>
    BY SMT, <1>1, <1>3 DEF FormatDuration
  <2> HIDE DEF ms
  <2>2. Proper(SecondsComponent(ms)) /\ Milliseconds(SecondsComponent(ms)) = ms
    BY SMT, <1>1, <1>3, SecondsRead
  <2>3. Says(<<SecondsComponent(ms)>>, Milliseconds(SecondsComponent(ms)))
    BY <2>2, OneSays
  <2> QED
    BY SMT, <2>1, <2>2, <2>3 DEF ms
<1>4. CASE ms >= 60000
  <2> DEFINE hours == ms \div 3600000
             minutes == (ms % 3600000) \div 60000
             left == (ms % 3600000) % 60000
             h == Part(hours, "h")
             m == Part(minutes, "m")
             s == SecondsComponent(left)
  <2>1. FormatDuration(d) = IF hours > 0 THEN <<h, m, s>> ELSE <<m, s>>
    BY SMT, <1>1, <1>4 DEF FormatDuration
  <2>2. /\ hours \in Nat /\ minutes \in Nat /\ minutes < 60 /\ left \in Nat /\ left < 60000
        /\ ms = 3600000 * hours + 60000 * minutes + left
    BY SMT, <1>1, ClockParts
  <2> HIDE DEF ms, hours, minutes, left
  <2>3. /\ Says(<<h, m, s>>, 3600000 * hours + 60000 * minutes + left)
        /\ Says(<<m, s>>, 60000 * minutes + left)
    BY SMT, <2>2, ClockReads
  <2>4. hours = 0 => ms = 60000 * minutes + left
    BY SMT, <2>2
  <2> HIDE DEF h, m, s
  <2> QED
    BY SMT, <2>1, <2>2, <2>3, <2>4 DEF ms
<1> QED
  BY SMT, <1>1, <1>2, <1>3, <1>4

LEMMA EveryDurationReads ==
  ASSUME NEW d \in Duration
  PROVE  ReadsAs(FormatDuration(d), d)
<1>1. d.ms \in Nat /\ d.ns \in Nat
  BY SMT DEF Duration
<1>2. CASE d.ms = 0 /\ d.ns = 0
  <2>1. d = [ms |-> 0, ns |-> 0]
    BY SMT, <1>2 DEF Duration
  <2>2. FormatDuration(d) = <<Part(0, "s")>>
    BY SMT, <2>1 DEF FormatDuration
  <2>3. Milliseconds(Part(0, "s")) = 0
    BY SMT DEF Part, Milliseconds, Thousandths, Digit
  <2>4. ReadBack(<<Part(0, "s")>>) = 0
    BY SMT, <2>3 DEF ReadBack
  <2>5. /\ Part(0, "s").unit = "s" /\ Part(0, "s").number = 0
        /\ Part(0, "s").fraction = <<>>
    BY DEF Part
  <2> QED
    BY SMT, <1>2, <2>2, <2>4, <2>5 DEF ReadsAs
<1>3. CASE d.ms = 0 /\ d.ns > 0
  <2>1. FormatDuration(d) = <<Part(1, "under_ms")>>
    BY SMT, <1>1, <1>3 DEF FormatDuration
  <2> QED
    BY SMT, <1>3, <2>1 DEF ReadsAs, Part
<1>4. CASE d.ms > 0
  <2> DEFINE text == FormatDuration(d)
  <2>1. Says(text, Rounded(d))
    BY SMT, <1>4, DurationReads
  <2>2. Rounded(d) = IF d.ns < 500000 THEN d.ms ELSE d.ms + 1
    BY SMT, <1>1 DEF Rounded
  <2> HIDE DEF text
  <2>3. text[1].unit # "under_ms"
    BY <2>1 DEF Says, Proper
  <2> QED
    BY SMT, <2>1, <2>2, <2>3 DEF Says, Proper, Shown, ReadsAs, text
<1> QED
  BY SMT, <1>1, <1>2, <1>3, <1>4

TimingWritten ==
  \/ timing = NoDuration
  \/ timing = [i \in DOMAIN report.elapsed |-> FormatDuration(report.elapsed[i])]

LEMMA TimingAlways == Spec => [](report \in Reports /\ TimingWritten)
<1>1. Init => report \in Reports /\ TimingWritten
  BY DEF Init, TimingWritten
<1>2. report \in Reports /\ TimingWritten /\ [Next]_vars => (report \in Reports /\ TimingWritten)'
  BY DEF TimingWritten, Next, vars, warnVars, RenderTable, SkipStatus, WriteHeading,
         WriteLabel, BreakLine,
         AppendWord, EndMessage, EndWarnings, WriteTiming
<1> QED
  BY <1>1, <1>2, PTL DEF Spec

(* The three durations printed read back as the times that were measured.  *)
THEOREM DurationsTrue == Spec => []DurationsReadBack
<1>1. report \in Reports /\ TimingWritten => DurationsReadBack
  <2> SUFFICES ASSUME report \in Reports, TimingWritten, NEW i \in DOMAIN timing
               PROVE  ReadsAs(timing[i], report.elapsed[i])
    BY DEF DurationsReadBack
  <2>1. report.elapsed \in Seq(Duration)
    BY ReportsAssumption
  <2>2. i \in DOMAIN report.elapsed /\ timing[i] = FormatDuration(report.elapsed[i])
    BY DEF TimingWritten, NoDuration
  <2>3. report.elapsed[i] \in Duration
    BY <2>1, <2>2
  <2> QED
    BY <2>2, <2>3, EveryDurationReads
<1> QED
  BY <1>1, TimingAlways, PTL

-------------------------------------------------------------------------------
(* The issues of a status.                                                 *)
LEMMA ErrorFacts ==
  ASSUME NEW s \in RepositoryStatus
  PROVE  /\ \A c \in Checks : Error(s, c) \in {NoError} \cup Seq(Nat)
         /\ \A c \in Checks : c \in Failed(s) <=> Error(s, c) # NoError
         /\ Error(s, "remote") = s.remote_error
         /\ Error(s, "worktree") = s.worktree_error
         /\ Error(s, "upstream") = s.upstream_error
         /\ Failed(s) \subseteq Checks
BY DEF RepositoryStatus, Checks, Error, Failed

Issue == [checks : Seq(Checks), message : Seq(Nat)]

(* The checks seen so far stand in the issues with their messages: the     *)
(* failed ones each in one, the others in none.                            *)
Grouped(issues, seen, s) ==
  /\ issues \in Seq(Issue)
  /\ \A g \in DOMAIN issues : issues[g].checks # <<>>
  /\ \A g \in DOMAIN issues : \A c \in Range(issues[g].checks) :
       c \in seen \cap Failed(s) /\ Error(s, c) = issues[g].message
  /\ \A c \in seen \cap Failed(s) : \E g \in DOMAIN issues : c \in Range(issues[g].checks)
  /\ \A g, h \in DOMAIN issues : issues[g].message = issues[h].message => g = h

LEMMA RangeOfAppend ==
  ASSUME NEW S, NEW q \in Seq(S), NEW e \in S
  PROVE  /\ Range(Append(q, e)) = Range(q) \cup {e}
         /\ Append(q, e) \in Seq(S) /\ Append(q, e) # <<>>
<1> DEFINE longer == Append(q, e)
<1>1. /\ longer \in Seq(S) /\ Len(q) \in Nat /\ DOMAIN longer = 1 .. Len(q) + 1
      /\ DOMAIN q = 1 .. Len(q) /\ Len(longer) = Len(q) + 1
  OBVIOUS
<1>2. \A i \in 1 .. Len(q) : longer[i] = q[i]
  OBVIOUS
<1>3. longer[Len(q) + 1] = e
  OBVIOUS
<1> HIDE DEF longer
<1>4. ASSUME NEW x \in Range(longer)
      PROVE  x \in Range(q) \cup {e}
  <2>1. PICK i \in DOMAIN longer : longer[i] = x
    BY <1>4 DEF Range
  <2>2. CASE i = Len(q) + 1
    BY <1>3, <2>1, <2>2
  <2>3. CASE i # Len(q) + 1
    <3>1. i \in DOMAIN q /\ q[i] = x
      BY <1>1, <1>2, <2>1, <2>3
    <3> QED
      BY <3>1 DEF Range
  <2> QED
    BY <2>2, <2>3
<1>5. ASSUME NEW x \in Range(q)
      PROVE  x \in Range(longer)
  <2>1. PICK i \in DOMAIN q : q[i] = x
    BY <1>5 DEF Range
  <2>2. i \in DOMAIN longer /\ longer[i] = x
    BY <1>1, <1>2, <2>1
  <2> QED
    BY <2>2 DEF Range
<1>6. e \in Range(longer)
  BY <1>1, <1>3 DEF Range
<1>7. longer # <<>>
  BY <1>1
<1>8. Range(longer) = Range(q) \cup {e}
  BY <1>4, <1>5, <1>6
<1> QED
  BY <1>1, <1>7, <1>8 DEF longer

LEMMA ChecksReplaced ==
  ASSUME NEW q \in Issue, NEW checks \in Seq(Checks)
  PROVE  [q EXCEPT !.checks = checks] = [checks |-> checks, message |-> q.message]
BY DEF Issue

LEMMA AddIssueKeeps ==
  ASSUME NEW s \in RepositoryStatus, NEW issues, NEW seen \in SUBSET Checks,
         NEW check \in Checks \ seen, Grouped(issues, seen, s)
  PROVE  LET more == AddIssue(issues, check, Error(s, check))
         IN Grouped(more, seen \cup {check}, s) /\ Len(more) <= Len(issues) + 1
<1> DEFINE error == Error(s, check)
           same == {i \in DOMAIN issues : issues[i].message = error}
           more == AddIssue(issues, check, error)
<1>0. /\ issues \in Seq(Issue) /\ Len(issues) \in Nat
      /\ \A g \in DOMAIN issues : issues[g] \in Issue
      /\ error \in {NoError} \cup Seq(Nat)
      /\ check \in Failed(s) <=> error # NoError
  BY ErrorFacts DEF Grouped
<1> HIDE DEF error
<1>1. CASE error = NoError
  <2>1. more = issues
    BY <1>1 DEF AddIssue
  <2>2. (seen \cup {check}) \cap Failed(s) = seen \cap Failed(s)
    BY <1>0, <1>1
  <2> QED
    BY <1>0, <2>1, <2>2 DEF Grouped, error
<1>2. CASE error # NoError /\ same # {}
  <2>1. PICK k \in same : \A i \in same : i = k
    BY <1>2 DEF Grouped
  <2>2. /\ more \in Seq(Issue) /\ Len(more) = Len(issues) /\ DOMAIN more = DOMAIN issues
        /\ \A i \in DOMAIN issues : more[i].message = issues[i].message
        /\ \A i \in DOMAIN issues : i # k => more[i] = issues[i]
        /\ more[k].checks = Append(issues[k].checks, check)
    <3>1. more = [i \in DOMAIN issues |->
                    IF i \in same THEN [issues[i] EXCEPT !.checks = Append(@, check)]
                    ELSE issues[i]]
      BY <1>2 DEF AddIssue
    <3>2. \A i \in DOMAIN issues :
            [issues[i] EXCEPT !.checks = Append(@, check)]
              = [checks |-> Append(issues[i].checks, check), message |-> issues[i].message]
      <4> TAKE i \in DOMAIN issues
      <4>1. Append(issues[i].checks, check) \in Seq(Checks)
        BY <1>0 DEF Issue
      <4> QED
        BY <1>0, <4>1, ChecksReplaced
    <3>3. \A i \in DOMAIN issues : Append(issues[i].checks, check) \in Seq(Checks)
      BY <1>0 DEF Issue
    <3>4. ASSUME NEW i \in DOMAIN issues
          PROVE  more[i] \in Issue /\ more[i].message = issues[i].message
      <4>1. CASE i \in same
        <5>1. more[i] = [checks |-> Append(issues[i].checks, check),
                         message |-> issues[i].message]
          BY <3>1, <3>2, <4>1
        <5> QED
          BY <1>0, <3>3, <5>1 DEF Issue
      <4>2. CASE i \notin same
        BY <1>0, <3>1, <4>2
      <4> QED
        BY <4>1, <4>2
    <3>5. DOMAIN more = 1 .. Len(issues)
      BY <1>0, <3>1
    <3>6. more \in Seq(Issue) /\ Len(more) = Len(issues)
      <4>1. more \in [1 .. Len(issues) -> Issue]
        <5>1. more = [i \in 1 .. Len(issues) |-> more[i]]
          BY <1>0, <3>1
        <5>2. \A i \in 1 .. Len(issues) : more[i] \in Issue
          BY <1>0, <3>4
        <5> HIDE DEF more
        <5> QED
          BY <5>1, <5>2
      <4> HIDE DEF more
      <4> QED
        BY <1>0, <4>1
    <3>7. \A i \in DOMAIN issues : i # k => more[i] = issues[i]
      BY <2>1, <3>1
    <3>8. more[k].checks = Append(issues[k].checks, check)
      BY <2>1, <3>1, <3>2
    <3> QED
      BY <1>0, <3>4, <3>5, <3>6, <3>7, <3>8
  <2>3. /\ Range(more[k].checks) = Range(issues[k].checks) \cup {check}
        /\ more[k].checks # <<>>
    <3>1. issues[k].checks \in Seq(Checks) /\ check \in Checks
      BY <1>0, <2>1 DEF Issue
    <3> QED
      BY <2>2, <3>1, RangeOfAppend
  <2>4. issues[k].message = error /\ k \in DOMAIN issues
    BY <2>1
  <2> HIDE DEF more, same
  <2>5. check \in Failed(s) /\ Error(s, check) = error
    BY <1>0, <1>2 DEF error
  <2>6. \A g \in DOMAIN more : more[g].checks # <<>>
    BY <2>2, <2>3 DEF Grouped
  <2>7. ASSUME NEW g \in DOMAIN more, NEW c \in Range(more[g].checks)
        PROVE  c \in (seen \cup {check}) \cap Failed(s) /\ Error(s, c) = more[g].message
    <3>1. CASE c \in Range(issues[g].checks)
      BY <2>2, <2>7, <3>1 DEF Grouped
    <3>2. CASE c \notin Range(issues[g].checks)
      <4>1. g = k /\ c = check
        BY <2>2, <2>3, <2>7, <3>2
      <4> QED
        BY <2>2, <2>4, <2>5, <4>1
    <3> QED
      BY <3>1, <3>2
  <2>8. \A g \in DOMAIN issues : Range(issues[g].checks) \subseteq Range(more[g].checks)
    BY <2>2, <2>3
  <2>9. ASSUME NEW c \in (seen \cup {check}) \cap Failed(s)
        PROVE  \E g \in DOMAIN more : c \in Range(more[g].checks)
    <3>1. CASE c = check
      BY <2>2, <2>3, <2>4, <3>1
    <3>2. CASE c # check
      <4>1. PICK g \in DOMAIN issues : c \in Range(issues[g].checks)
        BY <2>9, <3>2 DEF Grouped
      <4> QED
        BY <2>2, <2>8, <4>1
    <3> QED
      BY <3>1, <3>2
  <2>10. \A g, h \in DOMAIN more : more[g].message = more[h].message => g = h
    BY <2>2 DEF Grouped
  <2>11. Len(more) <= Len(issues) + 1
    BY <1>0, <2>2
  <2>12. Grouped(more, seen \cup {check}, s)
    BY <2>2, <2>6, <2>7, <2>9, <2>10 DEF Grouped
  <2> QED
    BY <2>11, <2>12 DEF more, error
<1>3. CASE error # NoError /\ same = {}
  <2> DEFINE new == [checks |-> <<check>>, message |-> error]
  <2>1. more = Append(issues, new)
    BY <1>3 DEF AddIssue
  <2>2. new \in Issue
    BY <1>0, <1>3 DEF Issue
  <2>3. /\ more \in Seq(Issue) /\ Len(more) = Len(issues) + 1
        /\ DOMAIN more = DOMAIN issues \cup {Len(issues) + 1}
        /\ \A i \in DOMAIN issues : more[i] = issues[i]
        /\ more[Len(issues) + 1] = new
    BY <1>0, <2>1, <2>2
  <2>4. Range(new.checks) = {check} /\ new.checks # <<>> /\ new.message = error
    BY DEF Range
  <2> HIDE DEF new, more
  <2>5. \A g \in DOMAIN issues : issues[g].message # error
    BY <1>3
  <2>6. check \in Failed(s) /\ Error(s, check) = error
    BY <1>0, <1>3 DEF error
  <2>7. \A g \in DOMAIN more : more[g].checks # <<>>
    BY <2>3, <2>4 DEF Grouped
  <2>8. ASSUME NEW g \in DOMAIN more, NEW c \in Range(more[g].checks)
        PROVE  c \in (seen \cup {check}) \cap Failed(s) /\ Error(s, c) = more[g].message
    <3>1. CASE g \in DOMAIN issues
      BY <2>3, <2>8, <3>1 DEF Grouped
    <3>2. CASE g \notin DOMAIN issues
      <4>1. more[g] = new
        BY <2>3, <2>8, <3>2
      <4> QED
        BY <2>4, <2>6, <2>8, <4>1
    <3> QED
      BY <3>1, <3>2
  <2>9. ASSUME NEW c \in (seen \cup {check}) \cap Failed(s)
        PROVE  \E g \in DOMAIN more : c \in Range(more[g].checks)
    <3>1. CASE c = check
      BY <2>3, <2>4, <3>1
    <3>2. CASE c # check
      <4>1. PICK g \in DOMAIN issues : c \in Range(issues[g].checks)
        BY <2>9, <3>2 DEF Grouped
      <4> QED
        BY <2>3, <4>1
    <3> QED
      BY <3>1, <3>2
  <2>10. \A g, h \in DOMAIN more : more[g].message = more[h].message => g = h
    <3> TAKE g, h \in DOMAIN more
    <3>1. CASE g \in DOMAIN issues /\ h \in DOMAIN issues
      BY <2>3, <3>1 DEF Grouped
    <3>2. CASE g \notin DOMAIN issues /\ h \notin DOMAIN issues
      BY <2>3, <3>2
    <3>3. CASE g \in DOMAIN issues /\ h \notin DOMAIN issues
      BY <2>3, <2>4, <2>5, <3>3
    <3>4. CASE g \notin DOMAIN issues /\ h \in DOMAIN issues
      BY <2>3, <2>4, <2>5, <3>4
    <3> QED
      BY <3>1, <3>2, <3>3, <3>4
  <2>11. Grouped(more, seen \cup {check}, s)
    BY <2>3, <2>7, <2>8, <2>9, <2>10 DEF Grouped
  <2> QED
    BY <1>0, <2>3, <2>11 DEF more, error
<1> QED
  BY <1>1, <1>2, <1>3 DEF error

LEMMA IssuesFacts ==
  ASSUME NEW s \in RepositoryStatus
  PROVE  Grouped(Issues(s), Checks, s) /\ Len(Issues(s)) \in Nat /\ Len(Issues(s)) <= 3
<1> DEFINE one == AddIssue(<<>>, "remote", s.remote_error)
           two == AddIssue(one, "worktree", s.worktree_error)
           three == AddIssue(two, "upstream", s.upstream_error)
<1>0. Grouped(<<>>, {}, s)
  BY DEF Grouped
<1>1. Grouped(one, {"remote"}, s) /\ Len(one) <= 1
  <2>1. "remote" \in Checks \ {} /\ {} \in SUBSET Checks
    BY DEF Checks
  <2>2. Error(s, "remote") = s.remote_error
    BY ErrorFacts
  <2> QED
    BY <1>0, <2>1, <2>2, AddIssueKeeps
<1> HIDE DEF one
<1>2. Grouped(two, {"remote", "worktree"}, s) /\ Len(two) <= Len(one) + 1
  <2>1. "worktree" \in Checks \ {"remote"} /\ {"remote"} \in SUBSET Checks
    BY DEF Checks
  <2>2. Error(s, "worktree") = s.worktree_error
    BY ErrorFacts
  <2>3. {"remote"} \cup {"worktree"} = {"remote", "worktree"}
    OBVIOUS
  <2> QED
    BY <1>1, <2>1, <2>2, <2>3, AddIssueKeeps
<1> HIDE DEF two
<1>3. Grouped(three, Checks, s) /\ Len(three) <= Len(two) + 1
  <2>1. "upstream" \in Checks \ {"remote", "worktree"} /\ {"remote", "worktree"} \in SUBSET Checks
    BY DEF Checks
  <2>2. Error(s, "upstream") = s.upstream_error
    BY ErrorFacts
  <2>3. {"remote", "worktree"} \cup {"upstream"} = Checks
    BY DEF Checks
  <2> QED
    BY <1>2, <2>1, <2>2, <2>3, AddIssueKeeps
<1>4. three = Issues(s)
  BY DEF Issues, one, two
<1>5. Len(one) \in Nat /\ Len(two) \in Nat /\ Len(three) \in Nat
  BY <1>1, <1>2, <1>3 DEF Grouped
<1> HIDE DEF three
<1>6. Len(three) <= 3
  BY <1>1, <1>2, <1>3, <1>5
<1> QED
  BY <1>3, <1>4, <1>5, <1>6

-------------------------------------------------------------------------------
(* The inductive invariant, part by part.                                  *)
Item == [word : Nat, at : Nat]
Group == [checks : Seq(Checks), lines : Seq(Seq(Item))]
Block == [path : STRING, apart : BOOLEAN, groups : Seq(Group)]

TypeOK ==
  /\ report \in Reports
  /\ stage \in {"table", "warnings", "timing", "done"}
  /\ status \in Nat /\ issue \in Nat /\ word \in Nat
  /\ line \in Seq(Item) /\ line_width \in Nat
  /\ blocks \in Seq(Block) /\ count \in Nat

(* Where write_check_warnings may be.                                      *)
Placed ==
  /\ status >= 1 /\ status <= Len(statuses) + 1
  /\ stage = "table" => status = 1 /\ issue = 0 /\ blocks = <<>> /\ count = 0
  /\ stage \in {"timing", "done"} => status = Len(statuses) + 1
  /\ issue > 0 => status <= Len(statuses) /\ issue <= Len(IssuesHere)
  /\ issue = 0 => word = 0
  /\ word > 0 => word <= Len(Message) + 1
  /\ issue > 0 => blocks # <<>>
  /\ word > 0 => blocks[Len(blocks)].groups # <<>>

(* The line write_wrapped builds: it ends where line_width says, it holds  *)
(* the last words taken, and none of them can be seen while line_width is  *)
(* the indent alone.                                                       *)
Filling ==
  Wrapping =>
    /\ line_width = End(line, Message) /\ line_width >= Indent
    /\ line_width = Indent => Visible(line, Message) = {}
    /\ line = <<>> <=> word = 1
    /\ Len(line) < word
    /\ \A i \in DOMAIN line : line[i].word = word - 1 - Len(line) + i

(* The status whose heading is written.                                    *)
Begun(i) == i < status \/ (i = status /\ issue > 0)

(* One block, in their order, for each such status that has an issue.      *)
BlocksFollow ==
  /\ \A b \in DOMAIN blocks : \E i \in DOMAIN statuses :
       /\ blocks[b].path = statuses[i].path
       /\ Begun(i) /\ Issues(statuses[i]) # <<>>
  /\ \A i \in DOMAIN statuses :
       Begun(i) /\ Issues(statuses[i]) # <<>> =>
         \E b \in DOMAIN blocks : blocks[b].path = statuses[i].path
  /\ \A a, b \in DOMAIN blocks : \A i, j \in DOMAIN statuses :
       a < b /\ blocks[a].path = statuses[i].path /\ blocks[b].path = statuses[j].path => i < j
  /\ \A b \in DOMAIN blocks : blocks[b].apart <=> b > 1
  /\ issue > 0 => blocks[Len(blocks)].path = statuses[status].path

(* The labels written under a heading are the issues of its status, up to  *)
(* the one write_check_warnings is at.                                     *)
Labelled(b, i) ==
  IF issue > 0 /\ b = Len(blocks) THEN (IF word > 0 THEN issue ELSE issue - 1)
  ELSE Len(Issues(statuses[i]))

GroupsFollow ==
  \A b \in DOMAIN blocks : \A i \in DOMAIN statuses :
    blocks[b].path = statuses[i].path =>
      /\ Len(blocks[b].groups) = Labelled(b, i)
      /\ \A g \in DOMAIN blocks[b].groups :
           blocks[b].groups[g].checks = Issues(statuses[i])[g].checks

Counted == Cardinality(Labels) = count + (IF word > 0 THEN 1 ELSE 0)

(* What RenderTable has drawn.                                             *)
Drawn ==
  IF stage = "table" \/ Displayed = <<>> THEN table = <<>>
  ELSE table = [i \in DOMAIN Rows |-> Printed(Rows[i], Rows)] /\ rule = RuleWidth

Base == TypeOK /\ Placed /\ Filling

-------------------------------------------------------------------------------
(* A label and a line added to the last block.                             *)
LEMMA ElementReplaced ==
  ASSUME NEW S, NEW q \in Seq(S), NEW i \in DOMAIN q, NEW e \in S
  PROVE  [q EXCEPT ![i] = e] \in Seq(S) /\ Len([q EXCEPT ![i] = e]) = Len(q)
OBVIOUS

LEMMA LinesReplaced ==
  ASSUME NEW q \in Group, NEW lines \in Seq(Seq(Item))
  PROVE  [q EXCEPT !.lines = lines] = [checks |-> q.checks, lines |-> lines]
BY DEF Group

LEMMA LabelAdded ==
  ASSUME blocks \in Seq(Block), blocks # <<>>, NEW group \in Group,
         blocks' = [blocks EXCEPT ![Len(blocks)].groups = Append(@, group)]
  PROVE  /\ blocks' \in Seq(Block) /\ Len(blocks') = Len(blocks) /\ Len(blocks) \in DOMAIN blocks
         /\ \A b \in DOMAIN blocks : b # Len(blocks) => blocks'[b] = blocks[b]
         /\ blocks'[Len(blocks)].path = blocks[Len(blocks)].path
         /\ blocks'[Len(blocks)].apart = blocks[Len(blocks)].apart
         /\ blocks'[Len(blocks)].groups = Append(blocks[Len(blocks)].groups, group)
<1> DEFINE n == Len(blocks)
           groups == Append(blocks[n].groups, group)
<1>1. n \in Nat /\ n \in DOMAIN blocks /\ DOMAIN blocks = 1 .. n /\ blocks[n] \in Block
  OBVIOUS
<1>2. groups \in Seq(Group)
  BY <1>1 DEF Block
<1>3. /\ DOMAIN blocks' = DOMAIN blocks /\ blocks'[n] = [blocks[n] EXCEPT !.groups = groups]
      /\ \A b \in DOMAIN blocks : b # n => blocks'[b] = blocks[b]
  BY <1>1
<1> HIDE DEF groups, n
<1>4. /\ blocks'[n] \in Block /\ blocks'[n].path = blocks[n].path
      /\ blocks'[n].apart = blocks[n].apart
      /\ blocks'[n].groups = groups
  BY <1>1, <1>2, <1>3 DEF Block
<1>5. blocks' = [blocks EXCEPT ![n] = blocks'[n]]
  BY <1>1, <1>3 DEF n, groups
<1>7. blocks' \in Seq(Block) /\ Len(blocks') = n
  BY <1>1, <1>4, <1>5, ElementReplaced DEF n
<1> QED
  BY <1>1, <1>3, <1>4, <1>7 DEF groups, n

-------------------------------------------------------------------------------
(* The statuses, and the message write_check_warnings is at.               *)
LEMMA StatusFacts ==
  ASSUME report \in Reports
  PROVE  /\ statuses \in Seq(RepositoryStatus) /\ Len(statuses) \in Nat
         /\ DOMAIN statuses = 1 .. Len(statuses)
         /\ \A i \in DOMAIN statuses : statuses[i] \in RepositoryStatus
         /\ \A i, j \in DOMAIN statuses : statuses[i].path = statuses[j].path => i = j
  BY ReportsAssumption DEF statuses

LEMMA HereFacts ==
  ASSUME TypeOK, status >= 1, status <= Len(statuses)
  PROVE  /\ status \in DOMAIN statuses /\ statuses[status] \in RepositoryStatus
         /\ Grouped(IssuesHere, Checks, statuses[status])
         /\ IssuesHere \in Seq(Issue) /\ Len(IssuesHere) \in Nat /\ Len(IssuesHere) <= 3
<1>1. status \in DOMAIN statuses /\ statuses[status] \in RepositoryStatus
  BY StatusFacts DEF TypeOK
<1>2. /\ Grouped(IssuesHere, Checks, statuses[status])
      /\ Len(IssuesHere) \in Nat /\ Len(IssuesHere) <= 3
  BY <1>1, IssuesFacts DEF IssuesHere
<1> QED
  BY <1>1, <1>2 DEF Grouped

LEMMA MessageFacts ==
  ASSUME TypeOK, Placed, issue > 0
  PROVE  /\ stage = "warnings" /\ Warning
         /\ issue \in DOMAIN IssuesHere /\ IssuesHere[issue] \in Issue
         /\ Message \in Seq(Nat) /\ Len(Message) \in Nat
         /\ \A i \in DOMAIN Message : Message[i] \in Nat
         /\ IssuesHere[issue].checks \in Seq(Checks)
         /\ blocks # <<>> /\ Len(blocks) \in DOMAIN blocks /\ blocks[Len(blocks)] \in Block
         /\ Wrapping <=> word > 0
<1>1. status >= 1 /\ status <= Len(statuses) /\ issue <= Len(IssuesHere) /\ blocks # <<>>
  BY DEF Placed
<1>2. stage = "warnings"
  BY <1>1, StatusFacts DEF TypeOK, Placed
<1>3. issue \in DOMAIN IssuesHere /\ IssuesHere[issue] \in Issue
  BY <1>1, HereFacts DEF TypeOK
<1>4. Message \in Seq(Nat) /\ IssuesHere[issue].checks \in Seq(Checks)
  BY <1>3 DEF Message, Issue
<1>5. Len(Message) \in Nat /\ \A i \in DOMAIN Message : Message[i] \in Nat
  BY <1>4
<1>6. Len(blocks) \in DOMAIN blocks /\ blocks[Len(blocks)] \in Block
  BY <1>1 DEF TypeOK
<1>7. Warning /\ (Wrapping <=> word > 0)
  BY <1>1, <1>2 DEF Warning, Wrapping
<1> QED
  BY <1>1, <1>2, <1>3, <1>4, <1>5, <1>6, <1>7

LEMMA ItemAppended ==
  ASSUME NEW text \in Seq(Item), NEW item \in Item, NEW longer, longer = Append(text, item)
  PROVE  /\ longer \in Seq(Item) /\ longer # <<>> /\ Len(longer) = Len(text) + 1
         /\ Len(text) \in Nat /\ DOMAIN text = 1 .. Len(text) /\ DOMAIN longer = 1 .. Len(text) + 1
         /\ \A i \in 1 .. Len(text) : longer[i] = text[i]
         /\ longer[Len(text) + 1] = item
OBVIOUS

LEMMA EndAppended ==
  ASSUME NEW text \in Seq(Item), NEW item \in Item, NEW message
  PROVE  End(Append(text, item), message) = EndOf(item, message)
<1> DEFINE longer == Append(text, item)
<1>1. longer # <<>> /\ longer[Len(longer)] = item
  BY ItemAppended
<1> HIDE DEF longer
<1>2. End(longer, message) = EndOf(item, message)
  BY <1>1 DEF End
<1> QED
  BY <1>2 DEF longer

(* What stays the same while write_wrapped is at one issue.                *)
LEMMA SameIssue ==
  ASSUME UNCHANGED <<report, status, issue>>
  PROVE  statuses' = statuses /\ IssuesHere' = IssuesHere /\ Message' = Message
BY DEF statuses, IssuesHere, Message

-------------------------------------------------------------------------------
LEMMA BaseInit == Init => Base
<1> SUFFICES ASSUME Init PROVE Base
  OBVIOUS
<1>1. Len(statuses) \in Nat
  BY StatusFacts DEF Init
<1>2. TypeOK
  BY DEF Init, TypeOK, Indent
<1>3. Placed
  BY <1>1 DEF Init, Placed
<1>4. Filling
  BY DEF Init, Filling, Wrapping
<1> QED
  BY <1>2, <1>3, <1>4 DEF Base

LEMMA BaseStutter == Base /\ UNCHANGED vars => Base'
<1> SUFFICES ASSUME Base, UNCHANGED vars PROVE Base'
  OBVIOUS
<1>1. UNCHANGED <<report, status, issue>>
  BY DEF vars, warnVars
<1>2. statuses' = statuses /\ IssuesHere' = IssuesHere /\ Message' = Message
  BY <1>1, SameIssue
<1>3. TypeOK'
  BY DEF Base, TypeOK, vars, warnVars
<1>4. Placed'
  BY <1>2 DEF Base, Placed, vars, warnVars
<1>5. Filling'
  BY <1>2 DEF Base, Filling, Wrapping, Warning, End, Visible, EndOf, vars, warnVars
<1> QED
  BY <1>3, <1>4, <1>5 DEF Base

LEMMA BaseElsewhere == Base /\ (RenderTable \/ EndWarnings \/ WriteTiming) => Base'
<1> SUFFICES ASSUME Base, RenderTable \/ EndWarnings \/ WriteTiming PROVE Base'
  OBVIOUS
<1>1. /\ UNCHANGED <<report, status, issue, word, line, line_width, blocks, count>>
      /\ \/ stage = "table" /\ stage' = "warnings"
         \/ stage # "table" /\ stage' \in {"timing", "done"}
  <2>1. CASE RenderTable
    BY <2>1 DEF RenderTable, warnVars
  <2>2. CASE EndWarnings
    BY <2>2 DEF EndWarnings, warnVars
  <2>3. CASE WriteTiming
    BY <2>3 DEF WriteTiming, warnVars
  <2> QED
    BY <2>1, <2>2, <2>3
<1>2. statuses' = statuses /\ IssuesHere' = IssuesHere /\ Message' = Message
  BY <1>1, SameIssue
<1>3. TypeOK'
  BY <1>1 DEF Base, TypeOK
<1>4. Placed'
  <2>1. stage' \in {"timing", "done"} => status = Len(statuses) + 1
    <3>1. CASE RenderTable
      BY <3>1 DEF RenderTable
    <3>2. CASE EndWarnings
      BY <3>2, StatusFacts DEF EndWarnings, Base, Placed, TypeOK
    <3>3. CASE WriteTiming
      BY <3>3 DEF WriteTiming, Base, Placed
    <3> QED
      BY <3>1, <3>2, <3>3
  <2> QED
    BY <1>1, <1>2, <2>1 DEF Base, Placed
<1>5. Filling'
  BY <1>1, <1>2 DEF Base, Placed, Filling, Wrapping, Warning
<1> QED
  BY <1>3, <1>4, <1>5 DEF Base

LEMMA BaseSkipStatus == Base /\ SkipStatus => Base'
<1> SUFFICES ASSUME Base, SkipStatus PROVE Base'
  OBVIOUS
<1>1. statuses' = statuses /\ Len(statuses) \in Nat
  BY StatusFacts DEF Base, TypeOK, SkipStatus, statuses
<1>2. status' = status + 1 /\ issue' = 0 /\ word' = 0 /\ status <= Len(statuses)
  BY DEF SkipStatus, NextStatus, Warning
<1>3. TypeOK'
  BY <1>2 DEF Base, TypeOK, SkipStatus
<1>4. Placed'
  BY <1>1, <1>2 DEF Base, TypeOK, Placed, SkipStatus, Warning
<1>5. Filling'
  BY <1>2 DEF Filling, Wrapping
<1> QED
  BY <1>3, <1>4, <1>5 DEF Base

LEMMA BaseWriteHeading == Base /\ WriteHeading => Base'
<1> SUFFICES ASSUME Base, WriteHeading PROVE Base'
  OBVIOUS
<1> DEFINE new == [path |-> statuses[status].path, apart |-> blocks # <<>>, groups |-> <<>>]
<1>1. /\ statuses' = statuses /\ IssuesHere' = IssuesHere
      /\ status >= 1 /\ status <= Len(statuses) /\ IssuesHere # <<>>
      /\ issue = 0 /\ word = 0 /\ issue' = 1 /\ word' = 0 /\ stage' = "warnings"
  BY DEF WriteHeading, Warning, Base, Placed, statuses, IssuesHere
<1>2. IssuesHere \in Seq(Issue) /\ statuses[status] \in RepositoryStatus
  BY <1>1, HereFacts DEF Base
<1>3. new \in Block
  BY <1>2 DEF Block, RepositoryStatus
<1> HIDE DEF new
<1>4. blocks' \in Seq(Block) /\ blocks' # <<>>
  <2>1. blocks' = Append(blocks, new)
    BY DEF WriteHeading, new
  <2> QED
    BY <1>3, <2>1 DEF Base, TypeOK
<1>5. TypeOK'
  BY <1>1, <1>4 DEF Base, TypeOK, WriteHeading
<1>6. Placed'
  BY <1>1, <1>2, <1>4 DEF Base, TypeOK, Placed, WriteHeading
<1>7. Filling'
  BY <1>1 DEF Filling, Wrapping
<1> QED
  BY <1>5, <1>6, <1>7 DEF Base

LEMMA BaseWriteLabel == Base /\ WriteLabel => Base'
<1> SUFFICES ASSUME Base, WriteLabel PROVE Base'
  OBVIOUS
<1> DEFINE new == [checks |-> IssuesHere[issue].checks, lines |-> <<>>]
<1>1. /\ statuses' = statuses /\ IssuesHere' = IssuesHere /\ Message' = Message
      /\ issue > 0 /\ word' = 1 /\ line' = <<>> /\ line_width' = Indent
      /\ UNCHANGED <<stage, status, issue, count>>
  BY SameIssue DEF WriteLabel
<1>2. /\ Message \in Seq(Nat) /\ Len(Message) \in Nat /\ blocks # <<>> /\ stage = "warnings"
      /\ IssuesHere[issue].checks \in Seq(Checks)
  BY <1>1, MessageFacts DEF Base
<1>3. new \in Group
  BY <1>2 DEF Group
<1> HIDE DEF new
<1>4. /\ blocks' \in Seq(Block) /\ Len(blocks') = Len(blocks) /\ blocks' # <<>>
      /\ blocks'[Len(blocks')].groups # <<>>
  <2>1. blocks' = [blocks EXCEPT ![Len(blocks)].groups = Append(@, new)]
    BY DEF WriteLabel, new
  <2>2. /\ blocks' \in Seq(Block) /\ Len(blocks') = Len(blocks)
        /\ blocks[Len(blocks)] \in Block
        /\ blocks'[Len(blocks)].groups = Append(blocks[Len(blocks)].groups, new)
    <3>1. blocks \in Seq(Block)
      BY DEF Base, TypeOK
    <3>2. blocks[Len(blocks)] \in Block
      BY <1>2, <3>1
    <3> QED
      BY <1>2, <1>3, <2>1, <3>1, <3>2, LabelAdded
  <2>3. Append(blocks[Len(blocks)].groups, new) # <<>>
    BY <1>3, <2>2 DEF Block
  <2> QED
    BY <1>2, <2>2, <2>3 DEF Base, TypeOK
<1>5. TypeOK'
  BY <1>1, <1>4 DEF Base, TypeOK, WriteLabel, Indent
<1>6. Placed'
  BY <1>1, <1>2, <1>4 DEF Base, TypeOK, Placed, WriteLabel
<1>7. Filling'
  <2>1. Visible(<<>>, Message) = {} /\ End(<<>>, Message) = Indent
    BY DEF Visible, End
  <2>2. Visible(line', Message') = {} /\ End(line', Message') = Indent
    BY <1>1, <2>1
  <2>3. Len(line') = 0 /\ DOMAIN line' = {}
    BY <1>1
  <2> QED
    BY <1>1, <2>2, <2>3 DEF Filling, Indent
<1> QED
  BY <1>5, <1>6, <1>7 DEF Base

(* A line written under the last label changes nothing else.               *)
LEMMA LineWritten ==
  ASSUME TypeOK, Placed, word > 0, WriteLine(line)
  PROVE  LET n == Len(blocks)
             old == blocks[n].groups
             new == blocks'[n].groups
         IN /\ blocks' \in Seq(Block) /\ Len(blocks') = Len(blocks) /\ blocks' # <<>>
            /\ n \in DOMAIN blocks /\ n \in Nat /\ blocks[n] \in Block
            /\ \A b \in DOMAIN blocks : b # n => blocks'[b] = blocks[b]
            /\ blocks'[n].path = blocks[n].path /\ blocks'[n].apart = blocks[n].apart
            /\ old \in Seq(Group) /\ Len(old) \in DOMAIN old
            /\ DOMAIN new = DOMAIN old /\ Len(new) = Len(old) /\ new # <<>>
            /\ \A g \in DOMAIN old : new[g].checks = old[g].checks
            /\ \A g \in DOMAIN old : g # Len(old) => new[g] = old[g]
            /\ new[Len(old)].lines = Append(old[Len(old)].lines, line)
<1> DEFINE n == Len(blocks)
           old == blocks[n].groups
           last == Len(old)
           lines == Append(old[last].lines, line)
           groups == [old EXCEPT ![last] = [old[last] EXCEPT !.lines = lines]]
<1>1. /\ blocks \in Seq(Block) /\ blocks # <<>> /\ blocks[n] \in Block /\ n \in DOMAIN blocks
      /\ n \in Nat /\ DOMAIN blocks = 1 .. n /\ line \in Seq(Item)
  <2>1. issue > 0
    BY DEF TypeOK, Placed
  <2> QED
    BY <2>1, MessageFacts DEF TypeOK
<1>2. old \in Seq(Group) /\ last \in DOMAIN old /\ old[last] \in Group /\ last \in Nat
  BY <1>1 DEF Block, Placed
<1>3. blocks' = [blocks EXCEPT ![n].groups[last].lines = Append(@, line)]
  BY DEF WriteLine
<1>4. /\ DOMAIN blocks' = DOMAIN blocks /\ blocks'[n] = [blocks[n] EXCEPT !.groups = groups]
      /\ \A b \in DOMAIN blocks : b # n => blocks'[b] = blocks[b]
  BY <1>1, <1>3
<1>5. lines \in Seq(Seq(Item))
  BY <1>1, <1>2 DEF Group
<1>6. blocks' = [blocks EXCEPT ![n] = blocks'[n]]
  BY <1>1, <1>3, <1>4
<1> HIDE DEF lines
<1>7. [old[last] EXCEPT !.lines = lines] = [checks |-> old[last].checks, lines |-> lines]
  BY <1>2, <1>5, LinesReplaced
<1>8. /\ groups[last] = [checks |-> old[last].checks, lines |-> lines]
      /\ groups[last] \in Group
  <2>1. groups[last] = [checks |-> old[last].checks, lines |-> lines]
    BY <1>2, <1>7
  <2> QED
    BY <1>2, <1>5, <2>1 DEF Group
<1>9. DOMAIN groups = DOMAIN old /\ \A g \in DOMAIN old : g # last => groups[g] = old[g]
  BY <1>2
<1>10. groups = [old EXCEPT ![last] = groups[last]]
  BY <1>2, <1>8
<1> HIDE DEF groups, old, last, n
<1>11. groups \in Seq(Group) /\ Len(groups) = Len(old)
  BY <1>2, <1>8, <1>10, ElementReplaced
<1>12. /\ blocks'[n] \in Block
       /\ blocks'[n].path = blocks[n].path /\ blocks'[n].apart = blocks[n].apart
       /\ blocks'[n].groups = groups
  BY <1>1, <1>4, <1>11 DEF Block
<1>13. blocks' \in Seq(Block) /\ Len(blocks') = Len(blocks)
  BY <1>1, <1>6, <1>12, ElementReplaced
<1>14. \A g \in DOMAIN old : groups[g].checks = old[g].checks
  BY <1>8, <1>9
<1>15. groups[last].lines = lines
  BY <1>8
<1>16. groups # <<>> /\ blocks' # <<>>
  BY <1>1, <1>2, <1>11, <1>13 DEF last
<1> QED
  BY <1>1, <1>2, <1>4, <1>9, <1>11, <1>12, <1>13, <1>14, <1>15, <1>16 DEF n, old, last, lines

(* A word taken into the line.                                             *)
LEMMA WordTaken ==
  ASSUME Base, Wrapping, word <= Len(Message)
  PROVE  /\ word \in DOMAIN Message /\ Message[word] \in Nat /\ word \in Nat /\ issue > 0
         /\ line_width = End(line, Message) /\ Separator \in {0, 1} /\ line_width \in Nat
         /\ [word |-> word, at |-> End(line, Message) + Separator] \in Item
         /\ [word |-> word, at |-> Indent] \in Item
<1>1. issue > 0 /\ word > 0 /\ word \in Nat /\ line_width \in Nat
  BY DEF Wrapping, Base, TypeOK
<1>2. word \in DOMAIN Message /\ Message[word] \in Nat
  BY <1>1, MessageFacts DEF Base
<1>3. line_width = End(line, Message) /\ Separator \in {0, 1}
  BY DEF Base, Filling, Separator
<1>4. End(line, Message) + Separator \in Nat
  BY <1>1, <1>3
<1> QED
  BY <1>1, <1>2, <1>3, <1>4 DEF Item, Indent

LEMMA BaseBreakLine == Base /\ BreakLine => Base'
<1> SUFFICES ASSUME Base, BreakLine PROVE Base'
  OBVIOUS
<1> DEFINE item == [word |-> word, at |-> Indent]
<1>1. /\ statuses' = statuses /\ IssuesHere' = IssuesHere /\ Message' = Message
      /\ Wrapping /\ word > 0 /\ word <= Len(Message) /\ WriteLine(line)
      /\ line' = <<item>> /\ line_width' = Indent + Message[word] /\ word' = word + 1
      /\ UNCHANGED <<report, stage, status, issue, count>>
  BY SameIssue DEF BreakLine, Wrapping
<1>2. /\ word \in DOMAIN Message /\ Message[word] \in Nat /\ word \in Nat /\ issue > 0
      /\ item \in Item
  BY <1>1, WordTaken
<1>3. Len(Message) \in Nat
  BY <1>2, MessageFacts DEF Base
<1>4. /\ blocks' \in Seq(Block) /\ Len(blocks') = Len(blocks) /\ blocks' # <<>>
      /\ blocks'[Len(blocks')].groups # <<>>
  BY <1>1, LineWritten DEF Base
<1> HIDE DEF item
<1>5. TypeOK'
  BY <1>1, <1>2, <1>4 DEF Base, TypeOK, Indent
<1>6. Placed'
  BY <1>1, <1>2, <1>3, <1>4 DEF Base, TypeOK, Placed
<1>7. Filling'
  <2>1. /\ Len(line') = 1 /\ DOMAIN line' = {1} /\ line'[1].word = word /\ line' # <<>>
        /\ line'[1].at = Indent /\ line'[Len(line')] = line'[1]
    BY <1>1 DEF item
  <2>2. End(line', Message') = Indent + Message[word]
    BY <1>1, <2>1 DEF End, EndOf
  <2>3. line_width' = Indent => Visible(line', Message') = {}
    <3>1. line_width' = Indent => Message[word] = 0
      BY <1>1, <1>2 DEF Indent
    <3> QED
      BY <1>1, <2>1, <3>1 DEF Visible
  <2>4. line_width' >= Indent
    BY <1>1, <1>2 DEF Indent
  <2> QED
    BY <1>1, <1>2, <2>1, <2>2, <2>3, <2>4 DEF Filling
<1> QED
  BY <1>5, <1>6, <1>7 DEF Base

LEMMA BaseAppendWord == Base /\ AppendWord => Base'
<1> SUFFICES ASSUME Base, AppendWord PROVE Base'
  OBVIOUS
<1> DEFINE item == [word |-> word, at |-> End(line, Message) + Separator]
<1>1. /\ statuses' = statuses /\ IssuesHere' = IssuesHere /\ Message' = Message
      /\ Wrapping /\ word > 0 /\ word <= Len(Message)
      /\ line' = Append(line, item) /\ line_width' = line_width + Separator + Message[word]
      /\ word' = word + 1
      /\ UNCHANGED <<report, stage, status, issue, blocks, count>>
  BY SameIssue DEF AppendWord, Wrapping
<1>2. /\ word \in DOMAIN Message /\ Message[word] \in Nat /\ word \in Nat /\ issue > 0
      /\ line_width = End(line, Message) /\ Separator \in {0, 1} /\ line_width \in Nat
      /\ item \in Item
  BY <1>1, WordTaken
<1>3. Len(Message) \in Nat
  BY <1>2, MessageFacts DEF Base
<1>4. item.word = word /\ EndOf(item, Message) = line_width + Separator + Message[word]
  BY <1>2 DEF EndOf
<1> HIDE DEF item
<1>5. /\ line' \in Seq(Item) /\ line' # <<>> /\ Len(line') = Len(line) + 1
      /\ Len(line) \in Nat /\ DOMAIN line = 1 .. Len(line) /\ DOMAIN line' = 1 .. Len(line) + 1
      /\ \A i \in 1 .. Len(line) : line'[i] = line[i]
      /\ line'[Len(line) + 1] = item
  <2>1. line \in Seq(Item)
    BY DEF Base, TypeOK
  <2>2. line' = Append(line, item) /\ item \in Item
    BY <1>1, <1>2
  <2> QED
    BY <2>1, <2>2, ItemAppended
<1>6. TypeOK'
  BY <1>1, <1>2, <1>5 DEF Base, TypeOK
<1>7. Placed'
  BY <1>1, <1>2, <1>3 DEF Base, TypeOK, Placed
<1>8. Filling'
  <2>1. End(line', Message') = line_width'
    <3>1. End(line', Message') = EndOf(item, Message)
      BY <1>1, <1>2, EndAppended DEF Base, TypeOK
    <3> QED
      BY <1>1, <1>4, <3>1
  <2>2. line_width' >= Indent /\ line_width >= Indent
    BY <1>1, <1>2 DEF Base, Filling, Indent
  <2>3. line_width' = Indent => Visible(line', Message') = {}
    <3>1. SUFFICES ASSUME line_width' = Indent, NEW i \in DOMAIN line'
                   PROVE  ~(Message[line'[i].word] > 0)
      BY <1>1 DEF Visible
    <3>2. line_width = Indent /\ Message[word] = 0
      BY <1>1, <1>2, <2>2, <3>1 DEF Indent
    <3>3. CASE i \in 1 .. Len(line)
      BY <1>1, <1>5, <3>2, <3>3 DEF Base, Filling, Visible
    <3>4. CASE i = Len(line) + 1
      BY <1>4, <1>5, <3>2, <3>4
    <3> QED
      BY <1>5, <3>3, <3>4
  <2>4. Len(line) < word /\ \A i \in 1 .. Len(line) : line[i].word = word - 1 - Len(line) + i
    BY <1>1, <1>5 DEF Base, Filling
  <2>5. \A i \in DOMAIN line' : line'[i].word = word' - 1 - Len(line') + i
    <3> TAKE i \in DOMAIN line'
    <3>1. CASE i \in 1 .. Len(line)
      <4>1. line'[i].word = word - 1 - Len(line) + i
        BY <1>5, <2>4, <3>1
      <4>2. word' = word + 1 /\ Len(line') = Len(line) + 1 /\ i \in Nat /\ word \in Nat
        BY <1>1, <1>2, <1>5, <3>1
      <4>3. word' - 1 - Len(line') + i = word - 1 - Len(line) + i
        BY <1>5, <4>2
      <4> QED
        BY <4>1, <4>3
    <3>2. CASE i = Len(line) + 1
      BY <1>1, <1>2, <1>4, <1>5, <3>2
    <3> QED
      BY <1>5, <3>1, <3>2
  <2>6. Len(line') < word' /\ word' # 1
    BY <1>1, <1>2, <1>5, <2>4
  <2> QED
    BY <1>5, <2>1, <2>2, <2>3, <2>5, <2>6 DEF Filling
<1> QED
  BY <1>6, <1>7, <1>8 DEF Base

LEMMA BaseEndMessage == Base /\ EndMessage => Base'
<1> SUFFICES ASSUME Base, EndMessage PROVE Base'
  OBVIOUS
<1>1. /\ statuses' = statuses /\ Wrapping /\ word > 0 /\ issue > 0 /\ status <= Len(statuses)
      /\ WriteLine(line) \/ UNCHANGED blocks
      /\ count' = count + 1 /\ UNCHANGED <<report, stage, line, line_width>>
      /\ word' = 0
  BY DEF EndMessage, statuses, Wrapping, Warning, NextStatus
<1>2. /\ Message \in Seq(Nat) /\ issue \in DOMAIN IssuesHere /\ blocks # <<>>
      /\ stage = "warnings" /\ Len(statuses) \in Nat
  BY <1>1, MessageFacts, StatusFacts DEF Base, TypeOK
<1>3. \/ issue < Len(IssuesHere) /\ issue' = issue + 1 /\ status' = status
      \/ status' = status + 1 /\ issue' = 0
  BY DEF EndMessage, NextStatus
<1>4. blocks' \in Seq(Block) /\ blocks' # <<>>
  <2>1. CASE WriteLine(line)
    BY <1>1, <2>1, LineWritten DEF Base
  <2>2. CASE UNCHANGED blocks
    BY <1>2, <2>2 DEF Base, TypeOK
  <2> QED
    BY <1>1, <2>1, <2>2
<1>5. TypeOK'
  BY <1>1, <1>3, <1>4 DEF Base, TypeOK
<1>6. Placed'
  <2>1. CASE issue < Len(IssuesHere) /\ issue' = issue + 1 /\ status' = status
    <3>1. IssuesHere' = IssuesHere
      BY <1>1, <2>1 DEF IssuesHere, statuses
    <3>2. Len(IssuesHere) \in Nat
      BY <1>1, HereFacts DEF Base, Placed
    <3> QED
      BY <1>1, <1>2, <1>4, <2>1, <3>1, <3>2 DEF Base, TypeOK, Placed
  <2>2. CASE status' = status + 1 /\ issue' = 0
    BY <1>1, <1>2, <1>4, <2>2 DEF Base, TypeOK, Placed
  <2> QED
    BY <1>3, <2>1, <2>2
<1>7. Filling'
  BY <1>1 DEF Filling, Wrapping
<1> QED
  BY <1>5, <1>6, <1>7 DEF Base

LEMMA BaseStep == Base /\ [Next]_vars => Base'
BY BaseStutter, BaseElsewhere, BaseSkipStatus, BaseWriteHeading, BaseWriteLabel, BaseBreakLine,
   BaseAppendWord, BaseEndMessage DEF Next

(* The type invariant: every state of Output is of its shape, the columns  *)
(* of the words, which line_width must stand for, included.                *)
THEOREM TypeCorrect == Spec => []TypeOK
<1>1. Base => TypeOK
  BY DEF Base
<1> QED
  BY <1>1, BaseInit, BaseStep, PTL DEF Spec

LEMMA BaseAlways == Spec => []Base
  BY BaseInit, BaseStep, PTL DEF Spec

-------------------------------------------------------------------------------
(* What the headings and labels are, the lines under them left out.        *)
SameLabels ==
  /\ Len(blocks') = Len(blocks) /\ DOMAIN blocks' = DOMAIN blocks
  /\ \A b \in DOMAIN blocks :
       /\ blocks'[b].path = blocks[b].path
       /\ blocks'[b].apart <=> blocks[b].apart
       /\ DOMAIN blocks'[b].groups = DOMAIN blocks[b].groups
       /\ Len(blocks'[b].groups) = Len(blocks[b].groups)
       /\ \A g \in DOMAIN blocks[b].groups :
            blocks'[b].groups[g].checks = blocks[b].groups[g].checks

SameHeadings ==
  /\ Len(blocks') = Len(blocks) /\ DOMAIN blocks' = DOMAIN blocks
  /\ \A b \in DOMAIN blocks :
       blocks'[b].path = blocks[b].path /\ (blocks'[b].apart <=> blocks[b].apart)

LEMMA HeadingsStay == SameLabels => SameHeadings
BY DEF SameLabels, SameHeadings

LEMMA LabelsStay ==
  ASSUME Base, UNCHANGED blocks \/ (word > 0 /\ WriteLine(line))
  PROVE  SameLabels
<1>1. CASE UNCHANGED blocks
  BY <1>1 DEF SameLabels
<1>2. CASE word > 0 /\ WriteLine(line)
  <2> DEFINE n == Len(blocks)
             old == blocks[n].groups
             new == blocks'[n].groups
  <2>1. /\ blocks' \in Seq(Block) /\ Len(blocks') = Len(blocks)
        /\ \A b \in DOMAIN blocks : b # n => blocks'[b] = blocks[b]
        /\ blocks'[n].path = blocks[n].path /\ blocks'[n].apart = blocks[n].apart
        /\ DOMAIN new = DOMAIN old /\ Len(new) = Len(old)
        /\ \A g \in DOMAIN old : new[g].checks = old[g].checks
    BY <1>2, LineWritten DEF Base
  <2>2. DOMAIN blocks' = DOMAIN blocks
    BY <2>1 DEF Base, TypeOK
  <2> QED
    BY <2>1, <2>2 DEF SameLabels
<1> QED
  BY <1>1, <1>2

LEMMA SameCount ==
  ASSUME SameLabels
  PROVE  Labels' = Labels
BY DEF SameLabels, Labels

LEMMA LabelsFinite ==
  ASSUME TypeOK
  PROVE  IsFiniteSet(Labels) /\ Cardinality(Labels) \in Nat
<1>1. DOMAIN blocks = 1 .. Len(blocks) /\ Len(blocks) \in Nat
  BY DEF TypeOK
<1>2. IsFiniteSet(DOMAIN blocks) /\ IsFiniteSet(1 .. 3)
  <2>1. IsFiniteSet(1 .. Len(blocks)) /\ IsFiniteSet(1 .. 3)
    <3>1. 1 \in Int /\ 3 \in Int /\ Len(blocks) \in Int
      BY <1>1
    <3>2. \A a, b \in Int : IsFiniteSet(a .. b)
      BY FS_Interval
    <3> QED
      BY <3>1, <3>2
  <2> QED
    BY <1>1, <2>1
<1>3. IsFiniteSet((DOMAIN blocks) \X (1 .. 3))
  BY <1>2, FS_Product
<1>4. IsFiniteSet(Labels)
  BY <1>3, FS_Subset DEF Labels
<1> QED
  BY <1>4, FS_CardinalityType

(* The status write_check_warnings is at has the path of the last block.   *)
LEMMA LastBlock ==
  ASSUME Base, BlocksFollow, issue > 0, NEW i \in DOMAIN statuses,
         blocks[Len(blocks)].path = statuses[i].path
  PROVE  i = status
<1>1. status \in DOMAIN statuses
  BY StatusFacts DEF Base, TypeOK, Placed
<1> QED
  BY <1>1, StatusFacts DEF BlocksFollow, Base, TypeOK

Listed == BlocksFollow /\ GroupsFollow /\ Counted

LEMMA ListedInit == Init => Listed
<1> SUFFICES ASSUME Init PROVE Listed
  OBVIOUS
<1>1. statuses \in Seq(RepositoryStatus) /\ DOMAIN statuses = 1 .. Len(statuses)
      /\ Len(statuses) \in Nat
  BY StatusFacts DEF Init
<1>2. BlocksFollow
  BY <1>1 DEF Init, BlocksFollow, Begun
<1>3. GroupsFollow
  BY DEF Init, GroupsFollow
<1>4. Labels = {}
  BY DEF Init, Labels
<1>5. Counted
  BY <1>4, FS_EmptySet DEF Init, Counted
<1> QED
  BY <1>2, <1>3, <1>5 DEF Listed

(* Steps that write no heading and no label.                               *)
LEMMA BlocksFollowOn ==
  ASSUME Base, BlocksFollow, SameHeadings, UNCHANGED report,
         \A i \in DOMAIN statuses : Issues(statuses[i]) # <<>> => (Begun(i)' <=> Begun(i)),
         issue' > 0 => issue > 0 /\ status' = status
  PROVE  BlocksFollow'
<1>1. statuses' = statuses
  BY DEF statuses
<1>2. (\A b \in DOMAIN blocks : \E i \in DOMAIN statuses :
         /\ blocks[b].path = statuses[i].path
         /\ Begun(i) /\ Issues(statuses[i]) # <<>>)'
  BY <1>1 DEF BlocksFollow, SameHeadings
<1>3. (\A i \in DOMAIN statuses :
         Begun(i) /\ Issues(statuses[i]) # <<>> =>
           \E b \in DOMAIN blocks : blocks[b].path = statuses[i].path)'
  BY <1>1 DEF BlocksFollow, SameHeadings
<1>4. (\A a, b \in DOMAIN blocks : \A i, j \in DOMAIN statuses :
         a < b /\ blocks[a].path = statuses[i].path /\ blocks[b].path = statuses[j].path => i < j)'
  BY <1>1 DEF BlocksFollow, SameHeadings
<1>5. (\A b \in DOMAIN blocks : blocks[b].apart <=> b > 1)'
  BY DEF BlocksFollow, SameHeadings
<1>6. (issue > 0 => blocks[Len(blocks)].path = statuses[status].path)'
  <2>1. issue > 0 => Len(blocks) \in DOMAIN blocks
    BY MessageFacts DEF Base
  <2> QED
    BY <1>1, <2>1 DEF BlocksFollow, SameHeadings
<1> QED
  BY <1>2, <1>3, <1>4, <1>5, <1>6 DEF BlocksFollow

LEMMA GroupsFollowOn ==
  ASSUME Base, GroupsFollow, SameLabels, UNCHANGED report,
         \A b \in DOMAIN blocks, i \in DOMAIN statuses :
           blocks[b].path = statuses[i].path => Labelled(b, i)' = Labelled(b, i)
  PROVE  GroupsFollow'
<1>1. statuses' = statuses
  BY DEF statuses
<1> SUFFICES ASSUME NEW b \in DOMAIN blocks, NEW i \in DOMAIN statuses,
                    blocks'[b].path = statuses[i].path
             PROVE  /\ Len(blocks'[b].groups) = Labelled(b, i)'
                    /\ \A g \in DOMAIN blocks'[b].groups :
                         blocks'[b].groups[g].checks = Issues(statuses[i])[g].checks
  <2>1. DOMAIN blocks' = DOMAIN blocks
    BY DEF SameLabels
  <2> QED
    BY <1>1, <2>1 DEF GroupsFollow
<1>2. blocks[b].path = statuses[i].path
  BY DEF SameLabels
<1>3. Labelled(b, i)' = Labelled(b, i)
  BY <1>2
<1>4. /\ Len(blocks[b].groups) = Labelled(b, i)
      /\ \A g \in DOMAIN blocks[b].groups :
           blocks[b].groups[g].checks = Issues(statuses[i])[g].checks
  BY <1>2 DEF GroupsFollow
<1> QED
  BY <1>3, <1>4 DEF SameLabels

(* Steps within a message, and those that are not of the warnings.         *)
LEMMA ListedWithin ==
  ASSUME Base, Listed, SameLabels, UNCHANGED <<report, status, issue, count>>,
         word > 0 <=> word' > 0
  PROVE  Listed'
<1>1. statuses' = statuses
  BY DEF statuses
<1>2. BlocksFollow'
  <2>1. \A i \in DOMAIN statuses : Begun(i)' <=> Begun(i)
    BY DEF Begun
  <2> QED
    BY <2>1, BlocksFollowOn, HeadingsStay DEF Listed
<1>3. GroupsFollow'
  <2>1. \A b \in DOMAIN blocks, i \in DOMAIN statuses : Labelled(b, i)' = Labelled(b, i)
    BY <1>1 DEF Labelled, SameLabels
  <2> QED
    BY <2>1, GroupsFollowOn DEF Listed
<1>4. Counted'
  BY SameCount DEF Listed, Counted
<1> QED
  BY <1>2, <1>3, <1>4 DEF Listed

LEMMA ListedSkipStatus == Base /\ Listed /\ SkipStatus => Listed'
<1> SUFFICES ASSUME Base, Listed, SkipStatus PROVE Listed'
  OBVIOUS
<1>1. /\ statuses' = statuses /\ issue = 0 /\ word = 0 /\ issue' = 0 /\ word' = 0
      /\ status' = status + 1 /\ Issues(statuses[status]) = <<>>
      /\ UNCHANGED <<report, blocks, count>> /\ status \in Nat
  BY DEF SkipStatus, NextStatus, IssuesHere, statuses, Base, TypeOK, Placed
<1>2. SameLabels
  BY <1>1, LabelsStay
<1>3. BlocksFollow'
  <2>1. \A i \in DOMAIN statuses : Issues(statuses[i]) # <<>> => (Begun(i)' <=> Begun(i))
    BY <1>1, StatusFacts DEF Begun, Base, TypeOK
  <2> QED
    BY <1>1, <1>2, <2>1, BlocksFollowOn, HeadingsStay DEF Listed
<1>4. GroupsFollow'
  <2>1. \A b \in DOMAIN blocks, i \in DOMAIN statuses : Labelled(b, i)' = Labelled(b, i)
    BY <1>1 DEF Labelled
  <2> QED
    BY <1>1, <1>2, <2>1, GroupsFollowOn DEF Listed
<1>5. Counted'
  BY <1>1, <1>2, SameCount DEF Listed, Counted
<1> QED
  BY <1>3, <1>4, <1>5 DEF Listed

LEMMA ListedEndMessage == Base /\ Listed /\ EndMessage => Listed'
<1> SUFFICES ASSUME Base, Listed, EndMessage PROVE Listed'
  OBVIOUS
<1>1. /\ statuses' = statuses /\ issue > 0 /\ word > 0 /\ word' = 0 /\ count' = count + 1
      /\ UNCHANGED report
      /\ UNCHANGED blocks \/ (word > 0 /\ WriteLine(line))
      /\ status \in Nat /\ issue \in Nat /\ count \in Nat
  BY DEF EndMessage, NextStatus, statuses, Wrapping, Base, TypeOK
<1>2. \/ issue' = issue + 1 /\ status' = status
      \/ issue = Len(IssuesHere) /\ status' = status + 1 /\ issue' = 0
  <2>1. /\ issue <= Len(IssuesHere) /\ Len(IssuesHere) \in Nat
    BY <1>1, HereFacts DEF Base, Placed
  <2> QED
    BY <1>1, <2>1 DEF EndMessage, NextStatus
<1>3. SameLabels
  BY <1>1, LabelsStay
<1>4. BlocksFollow'
  <2>1. \A i \in DOMAIN statuses : Begun(i)' <=> Begun(i)
    BY <1>1, <1>2, StatusFacts DEF Begun, Base, TypeOK
  <2>2. issue' > 0 => issue > 0 /\ status' = status
    BY <1>1, <1>2
  <2>3. UNCHANGED report /\ BlocksFollow
    BY <1>1 DEF Listed
  <2> QED
    BY <1>3, <2>1, <2>2, <2>3, BlocksFollowOn, HeadingsStay
<1>5. GroupsFollow'
  <2>1. ASSUME NEW b \in DOMAIN blocks, NEW i \in DOMAIN statuses,
               blocks[b].path = statuses[i].path
        PROVE  Labelled(b, i)' = Labelled(b, i)
    <3>1. CASE b = Len(blocks)
      <4>1. i = status
        BY <1>1, <2>1, <3>1, LastBlock DEF Listed
      <4>2. Labelled(b, i) = issue
        BY <1>1, <3>1 DEF Labelled
      <4>3. CASE issue' = issue + 1 /\ status' = status
        BY <1>1, <1>3, <3>1, <4>2, <4>3 DEF Labelled, SameLabels
      <4>4. CASE issue = Len(IssuesHere) /\ status' = status + 1 /\ issue' = 0
        BY <1>1, <4>1, <4>2, <4>4 DEF Labelled, IssuesHere
      <4> QED
        BY <1>2, <4>3, <4>4
    <3>2. CASE b # Len(blocks)
      BY <1>1, <1>3, <3>2 DEF Labelled, SameLabels
    <3> QED
      BY <3>1, <3>2
  <2>2. \A b \in DOMAIN blocks, i \in DOMAIN statuses :
          blocks[b].path = statuses[i].path => Labelled(b, i)' = Labelled(b, i)
    BY <2>1
  <2>3. UNCHANGED report /\ GroupsFollow
    BY <1>1 DEF Listed
  <2> QED
    BY <1>3, <2>2, <2>3, GroupsFollowOn
<1>6. Counted'
  <2>1. Labels' = Labels
    BY <1>3, SameCount
  <2> QED
    BY <1>1, <2>1 DEF Listed, Counted
<1> QED
  BY <1>4, <1>5, <1>6 DEF Listed

LEMMA ListedWriteHeading == Base /\ Listed /\ WriteHeading => Listed'
<1> SUFFICES ASSUME Base, Listed, WriteHeading PROVE Listed'
  OBVIOUS
<1> DEFINE n == Len(blocks)
           new == [path |-> statuses[status].path, apart |-> blocks # <<>>, groups |-> <<>>]
<1>1. /\ statuses' = statuses /\ issue = 0 /\ word = 0 /\ issue' = 1 /\ word' = 0
      /\ status' = status /\ count' = count
      /\ status \in DOMAIN statuses /\ Issues(statuses[status]) # <<>>
      /\ blocks' = Append(blocks, new)
  <2>1. status >= 1 /\ status <= Len(statuses) /\ status \in Nat
    BY DEF WriteHeading, Warning, Base, TypeOK, Placed
  <2> QED
    BY <2>1, StatusFacts DEF WriteHeading, statuses, IssuesHere, Base, TypeOK, Placed
<1>2. new.path = statuses[status].path /\ new.groups = <<>> /\ (new.apart <=> blocks # <<>>)
  OBVIOUS
<1> HIDE DEF new
<1>3. /\ n \in Nat /\ DOMAIN blocks = 1 .. n /\ DOMAIN blocks' = 1 .. n + 1 /\ Len(blocks') = n + 1
      /\ \A b \in 1 .. n : blocks'[b] = blocks[b]
      /\ blocks'[n + 1] = new /\ status \in Nat /\ \A i \in DOMAIN statuses : i \in Nat
  BY <1>1, StatusFacts DEF Base, TypeOK
<1> HIDE DEF n
<1>4. \A i \in DOMAIN statuses : Begun(i)' <=> Begun(i) \/ i = status
  BY <1>1, <1>3 DEF Begun
<1>5. (\A b \in DOMAIN blocks : \E i \in DOMAIN statuses :
         /\ blocks[b].path = statuses[i].path
         /\ Begun(i) /\ Issues(statuses[i]) # <<>>)'
  <2> SUFFICES ASSUME NEW b \in 1 .. n + 1
               PROVE  \E i \in DOMAIN statuses :
                        /\ blocks'[b].path = statuses[i].path
                        /\ Begun(i)' /\ Issues(statuses[i]) # <<>>
    BY <1>1, <1>3
  <2>1. CASE b \in 1 .. n
    <3>1. PICK i \in DOMAIN statuses : /\ blocks[b].path = statuses[i].path
                                       /\ Begun(i) /\ Issues(statuses[i]) # <<>>
      BY <1>3, <2>1 DEF Listed, BlocksFollow
    <3> QED
      BY <1>3, <1>4, <2>1, <3>1
  <2>2. CASE b = n + 1
    BY <1>1, <1>2, <1>3, <1>4, <2>2
  <2> QED
    BY <1>3, <2>1, <2>2
<1>6. (\A i \in DOMAIN statuses :
         Begun(i) /\ Issues(statuses[i]) # <<>> =>
           \E b \in DOMAIN blocks : blocks[b].path = statuses[i].path)'
  <2> SUFFICES ASSUME NEW i \in DOMAIN statuses, Begun(i)', Issues(statuses[i]) # <<>>
               PROVE  \E b \in 1 .. n + 1 : blocks'[b].path = statuses[i].path
    BY <1>1, <1>3
  <2>1. CASE i = status
    BY <1>2, <1>3, <2>1
  <2>2. CASE i # status
    <3>1. PICK b \in 1 .. n : blocks[b].path = statuses[i].path
      BY <1>3, <1>4, <2>2 DEF Listed, BlocksFollow
    <3> QED
      BY <1>3, <3>1
  <2> QED
    BY <2>1, <2>2
<1>7. (\A a, b \in DOMAIN blocks : \A i, j \in DOMAIN statuses :
         a < b /\ blocks[a].path = statuses[i].path /\ blocks[b].path = statuses[j].path => i < j)'
  <2> SUFFICES ASSUME NEW a \in 1 .. n + 1, NEW b \in 1 .. n + 1,
                      NEW i \in DOMAIN statuses, NEW j \in DOMAIN statuses,
                      a < b, blocks'[a].path = statuses[i].path, blocks'[b].path = statuses[j].path
               PROVE  i < j
    BY <1>1, <1>3
  <2>1. a \in 1 .. n /\ blocks[a].path = statuses[i].path
    BY <1>3
  <2>2. CASE b \in 1 .. n
    BY <1>3, <2>1, <2>2 DEF Listed, BlocksFollow
  <2>3. CASE b = n + 1
    <3>1. j = status
      BY <1>1, <1>2, <1>3, <2>3, StatusFacts DEF Base, TypeOK
    <3>2. PICK k \in DOMAIN statuses : blocks[a].path = statuses[k].path /\ Begun(k)
      BY <1>3, <2>1 DEF Listed, BlocksFollow
    <3>3. k = i
      BY <2>1, <3>2, StatusFacts DEF Base, TypeOK
    <3> QED
      BY <1>1, <3>1, <3>2, <3>3 DEF Begun
  <2> QED
    BY <1>3, <2>2, <2>3
<1>8. (\A b \in DOMAIN blocks : blocks[b].apart <=> b > 1)'
  <2> SUFFICES ASSUME NEW b \in 1 .. n + 1 PROVE blocks'[b].apart <=> b > 1
    BY <1>3
  <2>1. CASE b \in 1 .. n
    BY <1>3, <2>1 DEF Listed, BlocksFollow
  <2>2. CASE b = n + 1
    <3>1. blocks # <<>> <=> n > 0
      BY <1>3 DEF Base, TypeOK, n
    <3> QED
      BY <1>2, <1>3, <2>2, <3>1
  <2> QED
    BY <1>3, <2>1, <2>2
<1>9. (issue > 0 => blocks[Len(blocks)].path = statuses[status].path)'
  BY <1>1, <1>2, <1>3
<1>10. BlocksFollow'
  BY <1>5, <1>6, <1>7, <1>8, <1>9 DEF BlocksFollow
<1>11. GroupsFollow'
  <2> SUFFICES ASSUME NEW b \in 1 .. n + 1, NEW i \in DOMAIN statuses,
                      blocks'[b].path = statuses[i].path
               PROVE  /\ Len(blocks'[b].groups) = Labelled(b, i)'
                      /\ \A g \in DOMAIN blocks'[b].groups :
                           blocks'[b].groups[g].checks = Issues(statuses[i])[g].checks
    BY <1>1, <1>3 DEF GroupsFollow
  <2>1. CASE b \in 1 .. n
    <3>1. blocks'[b] = blocks[b] /\ b # Len(blocks')
      BY <1>3, <2>1
    <3>2. Labelled(b, i)' = Labelled(b, i)
      BY <1>1, <3>1 DEF Labelled
    <3> QED
      BY <1>3, <2>1, <3>1, <3>2 DEF Listed, GroupsFollow
  <2>2. CASE b = n + 1
    <3>1. Labelled(b, i)' = 0
      BY <1>1, <1>3, <2>2 DEF Labelled
    <3>2. Len(blocks'[b].groups) = 0 /\ DOMAIN blocks'[b].groups = {}
      BY <1>2, <1>3, <2>2
    <3> QED
      BY <3>1, <3>2
  <2> QED
    BY <1>3, <2>1, <2>2
<1>12. Counted'
  <2>1. Labels' = Labels
    <3>1. \A b \in 1 .. n + 1 :
            DOMAIN blocks'[b].groups = IF b = n + 1 THEN {} ELSE DOMAIN blocks[b].groups
      BY <1>2, <1>3
    <3> QED
      BY <1>3, <3>1 DEF Labels
  <2> QED
    BY <1>1, <2>1 DEF Listed, Counted
<1> QED
  BY <1>10, <1>11, <1>12 DEF Listed

LEMMA ListedWriteLabel == Base /\ Listed /\ WriteLabel => Listed'
<1> SUFFICES ASSUME Base, Listed, WriteLabel PROVE Listed'
  OBVIOUS
<1> DEFINE n == Len(blocks)
           old == blocks[n].groups
           new == [checks |-> IssuesHere[issue].checks, lines |-> <<>>]
<1>1. /\ statuses' = statuses /\ IssuesHere' = IssuesHere
      /\ issue > 0 /\ word = 0 /\ word' = 1 /\ issue \in Nat
      /\ UNCHANGED <<report, status, issue, count>>
      /\ blocks' = [blocks EXCEPT ![n].groups = Append(@, new)]
      /\ blocks \in Seq(Block) /\ status \in DOMAIN statuses
  <2>1. UNCHANGED <<report, status, issue>>
    BY DEF WriteLabel
  <2>2. status >= 1 /\ status <= Len(statuses) /\ TypeOK
    BY DEF WriteLabel, Warning, Base, Placed
  <2> QED
    BY <2>1, <2>2, SameIssue, HereFacts DEF WriteLabel, TypeOK
<1>2. /\ blocks # <<>> /\ blocks[n] \in Block /\ issue \in DOMAIN IssuesHere
      /\ issue <= 3 /\ IssuesHere[issue].checks \in Seq(Checks)
  <2>1. Len(IssuesHere) <= 3 /\ Len(IssuesHere) \in Nat /\ issue <= Len(IssuesHere)
    BY <1>1, HereFacts DEF Base, Placed
  <2> QED
    BY <1>1, <2>1, MessageFacts DEF Base
<1>3. new \in Group /\ new.checks = IssuesHere[issue].checks
  BY <1>2 DEF Group
<1> HIDE DEF new
<1>4. /\ blocks' \in Seq(Block) /\ Len(blocks') = n /\ n \in DOMAIN blocks
      /\ \A b \in DOMAIN blocks : b # n => blocks'[b] = blocks[b]
      /\ blocks'[n].path = blocks[n].path /\ blocks'[n].apart = blocks[n].apart
      /\ blocks'[n].groups = Append(old, new)
  <2>1. blocks \in Seq(Block) /\ blocks # <<>>
    BY <1>1, <1>2
  <2>2. blocks' = [blocks EXCEPT ![Len(blocks)].groups = Append(@, new)]
    BY <1>1
  <2>3. /\ blocks' \in Seq(Block) /\ Len(blocks') = Len(blocks)
        /\ Len(blocks) \in DOMAIN blocks
        /\ \A b \in DOMAIN blocks : b # Len(blocks) => blocks'[b] = blocks[b]
        /\ blocks'[Len(blocks)].path = blocks[Len(blocks)].path
        /\ blocks'[Len(blocks)].apart = blocks[Len(blocks)].apart
        /\ blocks'[Len(blocks)].groups = Append(blocks[Len(blocks)].groups, new)
    BY <1>3, <2>1, <2>2, LabelAdded
  <2> QED
    BY <2>3
<1>5. old \in Seq(Group) /\ DOMAIN blocks' = DOMAIN blocks
  BY <1>1, <1>2, <1>4 DEF Block
<1>6. /\ Len(old) \in Nat /\ DOMAIN old = 1 .. Len(old)
      /\ Len(blocks'[n].groups) = Len(old) + 1
      /\ DOMAIN blocks'[n].groups = 1 .. Len(old) + 1
      /\ \A g \in 1 .. Len(old) : blocks'[n].groups[g] = old[g]
      /\ blocks'[n].groups[Len(old) + 1] = new
  BY <1>3, <1>4, <1>5
<1>7. blocks[n].path = statuses[status].path
  BY <1>1 DEF Listed, BlocksFollow
<1>8. Len(old) = issue - 1
  <2>1. Len(old) = Labelled(n, status)
    BY <1>1, <1>4, <1>7 DEF Listed, GroupsFollow
  <2> QED
    BY <1>1, <2>1 DEF Labelled
<1>9. BlocksFollow'
  <2>1. SameHeadings
    BY <1>4, <1>5 DEF SameHeadings
  <2>2. \A i \in DOMAIN statuses : Begun(i)' <=> Begun(i)
    BY <1>1 DEF Begun
  <2> QED
    BY <1>1, <2>1, <2>2, BlocksFollowOn DEF Listed
<1>10. GroupsFollow'
  <2> SUFFICES ASSUME NEW b \in DOMAIN blocks, NEW i \in DOMAIN statuses,
                      blocks'[b].path = statuses[i].path
               PROVE  /\ Len(blocks'[b].groups) = Labelled(b, i)'
                      /\ \A g \in DOMAIN blocks'[b].groups :
                           blocks'[b].groups[g].checks = Issues(statuses[i])[g].checks
    BY <1>1, <1>5 DEF GroupsFollow
  <2>1. CASE b = n
    <3>1. i = status
      BY <1>1, <1>4, <1>7, <2>1, StatusFacts DEF Base, TypeOK
    <3>2. Labelled(b, i)' = issue
      BY <1>1, <1>4, <2>1 DEF Labelled
    <3>3. Len(blocks'[b].groups) = issue
      BY <1>1, <1>6, <1>8, <2>1
    <3>4. ASSUME NEW g \in DOMAIN blocks'[b].groups
          PROVE  blocks'[b].groups[g].checks = Issues(statuses[i])[g].checks
      <4>1. CASE g \in 1 .. Len(old)
        <5>1. g \in DOMAIN blocks[n].groups /\ blocks'[n].groups[g] = blocks[n].groups[g]
          BY <1>6, <4>1
        <5>2. blocks[n].groups[g].checks = Issues(statuses[status])[g].checks
          BY <1>1, <1>4, <1>7, <5>1 DEF Listed, GroupsFollow
        <5> QED
          BY <2>1, <3>1, <5>1, <5>2
      <4>2. CASE g = Len(old) + 1
        BY <1>1, <1>3, <1>6, <1>8, <2>1, <3>1, <4>2 DEF IssuesHere
      <4> QED
        BY <1>6, <2>1, <4>1, <4>2
    <3> QED
      BY <3>2, <3>3, <3>4
  <2>2. CASE b # n
    <3>1. blocks'[b] = blocks[b]
      BY <1>4, <2>2
    <3>2. Labelled(b, i)' = Labelled(b, i)
      BY <1>1, <1>4, <2>2 DEF Labelled
    <3> QED
      BY <3>1, <3>2 DEF Listed, GroupsFollow
  <2> QED
    BY <2>1, <2>2
<1>11. Counted'
  <2> DEFINE label == <<n, Len(old) + 1>>
  <2>1. Labels' = Labels \cup {label}
    <3>1. Len(old) + 1 \in 1 .. 3
      BY <1>1, <1>2, <1>6, <1>8
    <3>2. \A b \in DOMAIN blocks : DOMAIN blocks'[b].groups =
            IF b = n THEN DOMAIN old \cup {Len(old) + 1} ELSE DOMAIN blocks[b].groups
      <4>1. 1 .. Len(old) + 1 = (1 .. Len(old)) \cup {Len(old) + 1}
        BY <1>6
      <4>2. DOMAIN blocks'[n].groups = DOMAIN old \cup {Len(old) + 1}
        BY <1>6, <4>1
      <4> HIDE DEF old
      <4> QED
        BY <1>4, <4>2
    <3> HIDE DEF old
    <3> HIDE DEF label, n
    <3>3. ASSUME NEW b \in DOMAIN blocks, NEW g \in 1 .. 3
          PROVE  g \in DOMAIN blocks'[b].groups <=>
                   g \in DOMAIN blocks[b].groups \/ <<b, g>> = label
      BY <3>2, <1>4 DEF label, old
    <3>4. label \in (DOMAIN blocks) \X (1 .. 3)
      BY <1>4, <3>1 DEF label
    <3> QED
      BY <1>5, <3>3, <3>4 DEF Labels
  <2>2. label \notin Labels
    BY <1>6 DEF Labels
  <2> HIDE DEF label
  <2>3. Cardinality(Labels') = Cardinality(Labels) + 1
    BY <2>1, <2>2, LabelsFinite, FS_AddElement DEF Base
  <2> QED
    BY <1>1, <2>3, LabelsFinite DEF Listed, Counted, Base, TypeOK
<1> QED
  BY <1>9, <1>10, <1>11 DEF Listed

LEMMA ListedStep == Base /\ Listed /\ [Next]_vars => Listed'
<1> SUFFICES ASSUME Base, Listed, [Next]_vars PROVE Listed'
  OBVIOUS
<1>1. CASE UNCHANGED vars \/ RenderTable \/ EndWarnings \/ WriteTiming
  <2>1. UNCHANGED <<report, status, issue, word, blocks, count>>
    BY <1>1 DEF vars, warnVars, RenderTable, EndWarnings, WriteTiming
  <2> QED
    BY <2>1, LabelsStay, ListedWithin
<1>2. CASE BreakLine
  <2>1. /\ UNCHANGED <<report, status, issue, count>> /\ word > 0 /\ word' > 0
        /\ WriteLine(line)
    BY <1>2 DEF BreakLine, Wrapping, Base, TypeOK
  <2> QED
    BY <2>1, LabelsStay, ListedWithin
<1>3. CASE AppendWord
  <2>1. UNCHANGED <<report, status, issue, blocks, count>> /\ word > 0 /\ word' > 0
    BY <1>3 DEF AppendWord, Wrapping, Base, TypeOK
  <2> QED
    BY <2>1, LabelsStay, ListedWithin
<1> QED
  BY <1>1, <1>2, <1>3, ListedSkipStatus, ListedWriteHeading, ListedWriteLabel, ListedEndMessage
  DEF Next

LEMMA ListedAlways == Spec => [](Base /\ Listed)
  BY BaseInit, BaseStep, ListedInit, ListedStep, PTL DEF Spec

-------------------------------------------------------------------------------
(* What a label stands for.                                                *)
LEMMA PositionIs ==
  ASSUME report \in Reports, NEW i \in DOMAIN statuses, NEW path, path = statuses[i].path
  PROVE  Position(path) = i /\ StatusAt(path) = statuses[i]
<1>1. \A j \in DOMAIN statuses : statuses[j].path = path <=> j = i
  BY StatusFacts
<1>2. Position(path) = i
  BY <1>1 DEF Position
<1> QED
  BY <1>2 DEF StatusAt

LEMMA LabelFacts ==
  ASSUME Base, Listed, NEW b \in DOMAIN blocks
  PROVE  \E i \in DOMAIN statuses :
           /\ blocks[b].path = statuses[i].path /\ blocks[b] \in Block
           /\ StatusAt(blocks[b].path) = statuses[i] /\ Position(blocks[b].path) = i
           /\ statuses[i] \in RepositoryStatus /\ Begun(i)
           /\ blocks[b].groups \in Seq(Group)
           /\ Len(blocks[b].groups) <= Len(Issues(statuses[i]))
           /\ Len(blocks[b].groups) = Labelled(b, i)
           /\ \A g \in DOMAIN blocks[b].groups :
                /\ g \in DOMAIN Issues(statuses[i])
                /\ blocks[b].groups[g].checks = Issues(statuses[i])[g].checks
                /\ blocks[b].groups[g].checks # <<>>
                /\ Source(blocks[b], blocks[b].groups[g]) = Issues(statuses[i])[g].message
<1>1. PICK i \in DOMAIN statuses : blocks[b].path = statuses[i].path /\ Begun(i)
  BY DEF Listed, BlocksFollow
<1> DEFINE issues == Issues(statuses[i])
           groups == blocks[b].groups
<1>2. /\ StatusAt(blocks[b].path) = statuses[i] /\ Position(blocks[b].path) = i
      /\ statuses[i] \in RepositoryStatus
  BY <1>1, PositionIs, StatusFacts DEF Base, TypeOK
<1>3. Grouped(issues, Checks, statuses[i]) /\ Len(issues) \in Nat
  BY <1>2, IssuesFacts
<1>4. issues \in Seq(Issue) /\ DOMAIN issues = 1 .. Len(issues)
  BY <1>3 DEF Grouped
<1>5. blocks[b] \in Block /\ groups \in Seq(Group) /\ DOMAIN groups = 1 .. Len(groups)
      /\ Len(groups) \in Nat
  <2>1. blocks[b] \in Block
    BY DEF Base, TypeOK
  <2> QED
    BY <2>1 DEF Block
<1>6. /\ Len(groups) = Labelled(b, i)
      /\ \A g \in DOMAIN groups : groups[g].checks = issues[g].checks
  BY <1>1 DEF Listed, GroupsFollow
<1>7. Len(groups) <= Len(issues)
  <2>1. CASE issue > 0 /\ b = Len(blocks)
    <3>1. i = status
      BY <1>1, <2>1, LastBlock DEF Listed
    <3>2. issue <= Len(issues) /\ issue \in Nat
      BY <2>1, <3>1 DEF Base, TypeOK, Placed, IssuesHere
    <3> HIDE DEF issues, groups
    <3> QED
      BY <1>3, <1>6, <2>1, <3>2 DEF Labelled
  <2>2. CASE ~(issue > 0 /\ b = Len(blocks))
    BY <1>3, <1>6, <2>2 DEF Labelled
  <2> QED
    BY <2>1, <2>2
<1>8. ASSUME NEW g \in DOMAIN groups
      PROVE  /\ g \in DOMAIN issues /\ groups[g].checks # <<>>
             /\ Source(blocks[b], groups[g]) = issues[g].message
  <2>1. g \in DOMAIN issues
    BY <1>3, <1>4, <1>5, <1>7
  <2>2. issues[g].checks \in Seq(Checks) /\ issues[g].checks # <<>>
    <3>1. issues[g] \in Issue /\ issues[g].checks # <<>>
      BY <1>3, <1>4, <2>1 DEF Grouped
    <3> HIDE DEF issues
    <3> QED
      BY <3>1 DEF Issue
  <2>3. issues[g].checks[1] \in Range(issues[g].checks)
    BY <2>2 DEF Range
  <2>4. Error(statuses[i], issues[g].checks[1]) = issues[g].message
    BY <1>3, <2>1, <2>3 DEF Grouped
  <2>5. groups[g].checks = issues[g].checks
    BY <1>6
  <2> QED
    BY <1>2, <2>1, <2>2, <2>4, <2>5 DEF Source
<1> QED
  BY <1>1, <1>2, <1>5, <1>6, <1>7, <1>8

LEMMA IssuesTell ==
  ASSUME NEW s \in RepositoryStatus
  PROVE  Issues(s) # <<>> <=> Failed(s) # {}
<1>1. Grouped(Issues(s), Checks, s) /\ Failed(s) \subseteq Checks
  BY IssuesFacts, ErrorFacts
<1>2. CASE Issues(s) = <<>>
  BY <1>1, <1>2 DEF Grouped
<1>3. CASE Issues(s) # <<>>
  <2>1. 1 \in DOMAIN Issues(s) /\ Issues(s)[1] \in Issue /\ Issues(s)[1].checks # <<>>
    BY <1>1, <1>3 DEF Grouped
  <2>2. Issues(s)[1].checks[1] \in Range(Issues(s)[1].checks)
    BY <2>1 DEF Issue, Range
  <2> QED
    BY <1>1, <1>3, <2>1, <2>2 DEF Grouped
<1> QED
  BY <1>2, <1>3

(* Once the warnings are written every label is there.                     *)
LEMMA Finished ==
  ASSUME Base, stage \in {"timing", "done"}
  PROVE  /\ issue = 0 /\ word = 0 /\ \A i \in DOMAIN statuses : Begun(i)
         /\ \A b, i : Labelled(b, i) = Len(Issues(statuses[i]))
<1>1. status = Len(statuses) + 1 /\ Len(statuses) \in Nat /\ issue = 0 /\ word = 0
  BY StatusFacts DEF Base, TypeOK, Placed
<1> QED
  BY <1>1, StatusFacts DEF Begun, Labelled, Base, TypeOK

(* Every failed check of every repository stands in exactly one label over *)
(* the message it failed with, whatever the messages and however many of   *)
(* them are the same, and the count is the number of labels.               *)
THEOREM ErrorsListedOnce == Spec => []EveryErrorListedOnce
<1>1. ASSUME Base, Listed PROVE EveryErrorListedOnce
  <2> SUFFICES ASSUME stage \in {"timing", "done"}
      PROVE
      /\ \A i \in DOMAIN statuses :
           Failed(statuses[i]) # {} <=> \E b \in DOMAIN blocks : blocks[b].path = statuses[i].path
      /\ \A a, b \in DOMAIN blocks :
           a < b => Position(blocks[a].path) < Position(blocks[b].path)
      /\ \A b \in DOMAIN blocks :
           LET s == StatusAt(blocks[b].path)
               groups == blocks[b].groups
           IN /\ blocks[b].apart <=> b > 1
              /\ \A c \in Failed(s) : \E g \in DOMAIN groups : \A h \in DOMAIN groups :
                   c \in Range(groups[h].checks) <=> h = g
              /\ \A g, h \in DOMAIN groups : \A c \in Range(groups[g].checks) :
                   /\ c \in Failed(s)
                   /\ Error(s, c) = Source(blocks[b], groups[h]) <=> g = h
      /\ count = Cardinality(Labels)
    BY DEF EveryErrorListedOnce
  <2>0. /\ word = 0 /\ \A i \in DOMAIN statuses : Begun(i)
        /\ \A b, i : Labelled(b, i) = Len(Issues(statuses[i]))
    BY <1>1, Finished
  <2>1. ASSUME NEW i \in DOMAIN statuses
        PROVE  Failed(statuses[i]) # {} <=>
                 \E b \in DOMAIN blocks : blocks[b].path = statuses[i].path
    <3>1. Failed(statuses[i]) # {} <=> Issues(statuses[i]) # <<>>
      BY <1>1, IssuesTell, StatusFacts DEF Base, TypeOK
    <3>2. Issues(statuses[i]) # <<>> => \E b \in DOMAIN blocks : blocks[b].path = statuses[i].path
      BY <1>1, <2>0 DEF Listed, BlocksFollow
    <3>3. ASSUME NEW b \in DOMAIN blocks, blocks[b].path = statuses[i].path
          PROVE  Issues(statuses[i]) # <<>>
      <4>1. PICK j \in DOMAIN statuses :
              blocks[b].path = statuses[j].path /\ Issues(statuses[j]) # <<>>
        BY <1>1 DEF Listed, BlocksFollow
      <4>2. j = i
        BY <1>1, <3>3, <4>1, StatusFacts DEF Base, TypeOK
      <4> QED
        BY <4>1, <4>2
    <3> QED
      BY <3>1, <3>2, <3>3
  <2>2. ASSUME NEW a \in DOMAIN blocks, NEW b \in DOMAIN blocks, a < b
        PROVE  Position(blocks[a].path) < Position(blocks[b].path)
    <3>1. PICK i \in DOMAIN statuses :
            blocks[a].path = statuses[i].path /\ Position(blocks[a].path) = i
      BY <1>1, LabelFacts
    <3>2. PICK j \in DOMAIN statuses :
            blocks[b].path = statuses[j].path /\ Position(blocks[b].path) = j
      BY <1>1, LabelFacts
    <3> QED
      BY <1>1, <2>2, <3>1, <3>2 DEF Listed, BlocksFollow
  <2>3. ASSUME NEW b \in DOMAIN blocks
        PROVE  LET s == StatusAt(blocks[b].path)
                   groups == blocks[b].groups
               IN /\ blocks[b].apart <=> b > 1
                  /\ \A c \in Failed(s) : \E g \in DOMAIN groups : \A h \in DOMAIN groups :
                       c \in Range(groups[h].checks) <=> h = g
                  /\ \A g, h \in DOMAIN groups : \A c \in Range(groups[g].checks) :
                       /\ c \in Failed(s)
                       /\ Error(s, c) = Source(blocks[b], groups[h]) <=> g = h
    <3> DEFINE s == StatusAt(blocks[b].path)
               groups == blocks[b].groups
               issues == Issues(s)
    <3>1. /\ s \in RepositoryStatus /\ groups \in Seq(Group)
          /\ Len(groups) = Len(issues)
          /\ \A g \in DOMAIN groups :
               groups[g].checks = issues[g].checks
               /\ Source(blocks[b], groups[g]) = issues[g].message
      BY <1>1, <2>0, LabelFacts
    <3>2. Grouped(issues, Checks, s) /\ Failed(s) \subseteq Checks
      BY <3>1, IssuesFacts, ErrorFacts
    <3>3. DOMAIN groups = DOMAIN issues
      BY <3>1, <3>2 DEF Grouped
    <3>4. blocks[b].apart <=> b > 1
      BY <1>1 DEF Listed, BlocksFollow
    <3> HIDE DEF s, groups, issues
    <3>5. ASSUME NEW c \in Failed(s)
          PROVE  \E g \in DOMAIN groups : \A h \in DOMAIN groups :
                   c \in Range(groups[h].checks) <=> h = g
      <4>1. PICK g \in DOMAIN issues : c \in Range(issues[g].checks)
        BY <3>2, <3>5 DEF Grouped
      <4>2. ASSUME NEW h \in DOMAIN groups, c \in Range(groups[h].checks)
            PROVE  h = g
        <5>1. issues[h].message = Error(s, c) /\ issues[g].message = Error(s, c)
          BY <3>1, <3>2, <3>3, <4>1, <4>2 DEF Grouped
        <5> QED
          BY <3>2, <3>3, <4>1, <4>2, <5>1 DEF Grouped
      <4> QED
        BY <3>1, <3>3, <4>1, <4>2
    <3>6. ASSUME NEW g \in DOMAIN groups, NEW h \in DOMAIN groups, NEW c \in Range(groups[g].checks)
          PROVE  c \in Failed(s) /\ (Error(s, c) = Source(blocks[b], groups[h]) <=> g = h)
      <4>1. c \in Range(issues[g].checks)
        BY <3>1, <3>6
      <4>2. c \in Failed(s) /\ Error(s, c) = issues[g].message
        BY <3>2, <3>3, <4>1 DEF Grouped
      <4>3. Source(blocks[b], groups[h]) = issues[h].message
        BY <3>1
      <4>4. issues[g].message = issues[h].message <=> g = h
        BY <3>2, <3>3 DEF Grouped
      <4> QED
        BY <4>2, <4>3, <4>4
    <3> QED
      BY <3>4, <3>5, <3>6 DEF s, groups
  <2>4. count = Cardinality(Labels)
    BY <1>1, <2>0 DEF Listed, Counted, Base, TypeOK
  <2> QED
    BY <2>1, <2>2, <2>3, <2>4
<1> QED
  BY <1>1, ListedAlways, PTL

-------------------------------------------------------------------------------
(* Numbers: the least of a set, the largest of a list, a set in its order. *)
LEMMA LeastNumber ==
  ASSUME NEW T \in SUBSET Nat, T # {}
  PROVE  \E m \in T : \A k \in T : m <= k
<1> DEFINE less == {pair \in Nat \X Nat : pair[1] < pair[2]}
<1>1. IsWellFoundedOn(less, Nat)
  BY NatLessThanWellFounded DEF OpToRel
<1> HIDE DEF less
<1>2. PICK m \in T : \A k \in T : ~(<<k, m>> \in less)
  BY <1>1, WFMin
<1>3. ASSUME NEW k \in T PROVE m <= k
  <2>1. k \in Nat /\ m \in Nat /\ <<k, m>> \in Nat \X Nat
    OBVIOUS
  <2>2. ~(k < m)
    BY <1>2, <2>1 DEF less
  <2> QED
    BY <2>1, <2>2
<1> QED
  BY <1>3

LEMMA LargestOfList ==
  ASSUME NEW N \in Nat, N >= 1, NEW f, \A i \in 1 .. N : f[i] \in Nat
  PROVE  \E k \in 1 .. N : \A j \in 1 .. N : f[j] <= f[k]
<1> DEFINE bad == {n \in Nat : n >= 1 /\ n <= N /\
                    \A k \in 1 .. n : \E j \in 1 .. n : ~(f[j] <= f[k])}
<1> SUFFICES ASSUME bad # {} PROVE FALSE
  <2>1. N \notin bad
    OBVIOUS
  <2> QED
    BY <2>1
<1>1. PICK n \in bad : \A k \in bad : n <= k
  BY LeastNumber
<1>2. n \in Nat /\ n >= 1 /\ n <= N /\ \A k \in 1 .. n : \E j \in 1 .. n : ~(f[j] <= f[k])
  OBVIOUS
<1>3. n # 1
  BY <1>2
<1>4. n - 1 \in Nat /\ n - 1 >= 1 /\ n - 1 <= N /\ n - 1 \notin bad
  <2>1. n - 1 \in Nat /\ n - 1 >= 1 /\ n - 1 <= N /\ ~(n <= n - 1)
    BY <1>2, <1>3
  <2> HIDE DEF bad
  <2> QED
    BY <1>1, <2>1
<1>5. PICK k \in 1 .. n - 1 : \A j \in 1 .. n - 1 : f[j] <= f[k]
  BY <1>4
<1> HIDE DEF bad
<1>6. \A j \in 1 .. n : j \in 1 .. n - 1 \/ j = n
  BY <1>2
<1>7. f[n] \in Nat /\ f[k] \in Nat /\ \A j \in 1 .. n - 1 : f[j] \in Nat
  BY <1>2, <1>4
<1>8. CASE f[n] <= f[k]
  <2>1. k \in 1 .. n /\ \A j \in 1 .. n : f[j] <= f[k]
    <3>1. k \in 1 .. n
      BY <1>2, <1>4
    <3> QED
      BY <1>5, <1>6, <1>8, <3>1
  <2> QED
    BY <1>2, <2>1
<1>9. CASE ~(f[n] <= f[k])
  <2>1. f[k] <= f[n]
    BY <1>7, <1>9
  <2>2. \A j \in 1 .. n - 1 : f[j] <= f[n]
    BY <1>5, <1>7, <2>1
  <2>3. n \in 1 .. n /\ \A j \in 1 .. n : f[j] <= f[n]
    BY <1>2, <1>6, <1>7, <2>2
  <2> QED
    BY <1>2, <2>3
<1> QED
  BY <1>8, <1>9

Increasing(order, S) ==
  /\ order \in [1 .. Cardinality(S) -> S]
  /\ \A i, j \in 1 .. Cardinality(S) : i < j => order[i] < order[j]

LEMMA NextInOrder ==
  ASSUME NEW T \in SUBSET Nat, IsFiniteSet(T), NEW m \in Nat, \A k \in T : k < m,
         NEW order, Increasing(order, T)
  PROVE  \E longer : Increasing(longer, T \cup {m})
<1> DEFINE n == Cardinality(T)
           U == T \cup {m}
           longer == [i \in 1 .. n + 1 |-> IF i = n + 1 THEN m ELSE order[i]]
<1>1. n \in Nat /\ Cardinality(U) = n + 1
  <2>1. m \notin T
    OBVIOUS
  <2> QED
    BY <2>1, FS_AddElement, FS_CardinalityType
<1> HIDE DEF n
<1>2. /\ \A i \in 1 .. n : order[i] \in T
      /\ \A i, j \in 1 .. n : i < j => order[i] < order[j]
  BY DEF Increasing, n
<1>3. longer \in [1 .. n + 1 -> U]
  BY <1>1, <1>2
<1>4. \A i, j \in 1 .. n + 1 : i < j => longer[i] < longer[j]
  <2> SUFFICES ASSUME NEW i \in 1 .. n + 1, NEW j \in 1 .. n + 1, i < j
               PROVE  longer[i] < longer[j]
    OBVIOUS
  <2>1. i \in 1 .. n /\ longer[i] = order[i]
    BY <1>1
  <2>2. CASE j = n + 1
    BY <1>1, <1>2, <2>1, <2>2
  <2>3. CASE j # n + 1
    BY <1>1, <1>2, <2>1, <2>3
  <2> QED
    BY <2>2, <2>3
<1> HIDE DEF longer, U
<1>5. Increasing(longer, U)
  BY <1>1, <1>3, <1>4 DEF Increasing
<1> QED
  BY <1>5 DEF U

LEMMA OrderExists ==
  ASSUME NEW N \in Nat, NEW S \in SUBSET (1 .. N)
  PROVE  \E order : Increasing(order, S)
<1> DEFINE Upto(k) == {x \in S : x <= k}
           bad == {k \in Nat : k <= N /\ ~\E order : Increasing(order, Upto(k))}
<1>0. \A x \in S : x \in Nat /\ x >= 1 /\ x <= N
  OBVIOUS
<1>1. \A k \in Nat : Upto(k) \in SUBSET Nat /\ IsFiniteSet(Upto(k))
  <2>1. IsFiniteSet(1 .. N)
    BY FS_Interval
  <2>2. \A k \in Nat : Upto(k) \in SUBSET (1 .. N)
    OBVIOUS
  <2> HIDE DEF Upto
  <2> QED
    BY <2>1, <2>2, FS_Subset
<1>2. ASSUME bad # {} PROVE FALSE
  <2>1. PICK k \in bad : \A j \in bad : k <= j
    BY <1>2, LeastNumber
  <2>2. k \in Nat /\ k <= N /\ ~\E order : Increasing(order, Upto(k))
    BY <2>1
  <2>3. k # 0
    <3>1. SUFFICES ASSUME k = 0 PROVE FALSE
      OBVIOUS
    <3>2. Upto(k) = {} /\ Cardinality({}) = 0
      <4>1. \A x \in S : ~(x <= 0)
        BY <1>0
      <4>2. Upto(0) = {}
        BY <4>1
      <4> QED
        BY <3>1, <4>2, FS_EmptySet
    <3>3. [i \in 1 .. 0 |-> 0] \in [1 .. 0 -> {}]
      OBVIOUS
    <3>4. Increasing([i \in 1 .. 0 |-> 0], {})
      BY <3>2, <3>3 DEF Increasing
    <3> QED
      BY <2>2, <3>2, <3>4
  <2>4. k - 1 \in Nat /\ k - 1 \notin bad /\ k - 1 <= N
    <3>1. k - 1 \in Nat /\ k - 1 <= N /\ ~(k <= k - 1)
      BY <2>2, <2>3
    <3> HIDE DEF bad
    <3> QED
      BY <2>1, <3>1
  <2>5. PICK order : Increasing(order, Upto(k - 1))
    BY <2>4
  <2>6. CASE k \in S
    <3>1. Upto(k) = Upto(k - 1) \cup {k}
      <4>1. \A x \in Nat : x <= k <=> x <= k - 1 \/ x = k
        BY <2>2, <2>4
      <4> QED
        BY <1>0, <2>2, <2>6, <4>1
    <3>2. \A x \in Upto(k - 1) : x < k
      BY <2>2
    <3> HIDE DEF Upto
    <3> QED
      BY <1>1, <2>2, <2>4, <2>5, <3>1, <3>2, NextInOrder
  <2>7. CASE k \notin S
    <3>1. Upto(k) = Upto(k - 1)
      <4>1. \A x \in S : x <= k <=> x <= k - 1
        BY <1>0, <2>2, <2>4, <2>7
      <4> QED
        BY <4>1
    <3> QED
      BY <2>2, <2>5, <3>1
  <2> QED
    BY <2>6, <2>7
<1>3. Upto(N) = S
  BY <1>0
<1> QED
  BY <1>2, <1>3

LEMMA InOrderFacts ==
  ASSUME NEW N \in Nat, NEW S \in SUBSET (1 .. N)
  PROVE  /\ Cardinality(S) \in Nat /\ IsFiniteSet(S)
         /\ InOrder(S) \in [1 .. Cardinality(S) -> S]
         /\ \A i, j \in 1 .. Cardinality(S) : i < j => InOrder(S)[i] < InOrder(S)[j]
         /\ \A x \in S : \E i \in 1 .. Cardinality(S) : InOrder(S)[i] = x
<1> DEFINE n == Cardinality(S)
           order == InOrder(S)
<1>0. \A x \in S : x \in Nat
  OBVIOUS
<1>1. IsFiniteSet(S) /\ n \in Nat
  <2>1. IsFiniteSet(1 .. N)
    BY FS_Interval
  <2> QED
    BY <2>1, FS_Subset, FS_CardinalityType
<1>2. order \in [1 .. n -> S] /\ \A i, j \in 1 .. n : i < j => order[i] < order[j]
  <2>1. PICK o : Increasing(o, S)
    BY OrderExists
  <2> QED
    BY <2>1 DEF Increasing, InOrder
<1> HIDE DEF order, n
<1>3. order \in Injection(1 .. n, S)
  <2>1. \A i, j \in 1 .. n : order[i] = order[j] => i = j
    <3> SUFFICES ASSUME NEW i \in 1 .. n, NEW j \in 1 .. n, i # j PROVE order[i] # order[j]
      OBVIOUS
    <3>1. order[i] \in Nat /\ order[j] \in Nat /\ i \in Nat /\ j \in Nat
      <4>1. order[i] \in S /\ order[j] \in S
        BY <1>2
      <4>2. order[i] \in Nat /\ order[j] \in Nat
        BY <1>0, <4>1
      <4>3. i \in Nat /\ j \in Nat
        BY <1>1
      <4> QED
        BY <4>2, <4>3
    <3>2. CASE i < j
      BY <1>2, <3>1, <3>2
    <3>3. CASE j < i
      BY <1>2, <3>1, <3>3
    <3> QED
      BY <3>1, <3>2, <3>3
  <2> QED
    BY <1>2, <2>1 DEF Injection, IsInjective
<1>4. Cardinality(1 .. n) = n
  BY <1>1, FS_Interval
<1>5. order \in Surjection(1 .. n, S)
  BY <1>1, <1>3, <1>4, FS_Injection DEF n
<1>6. \A x \in S : \E i \in 1 .. n : order[i] = x
  BY <1>5 DEF Surjection
<1> QED
  BY <1>1, <1>2, <1>6 DEF order, n

-------------------------------------------------------------------------------
(* The table.                                                              *)
LEMMA DigitsAreNatural ==
  ASSUME NEW n
  PROVE  Digits(n) \in Nat
<1> DEFINE places == 0 .. 9
           filled == {k \in places : n >= 10 ^ k}
<1>1. IsFiniteSet(places)
  <2>1. \A a, b \in Int : IsFiniteSet(a .. b)
    BY FS_Interval
  <2>2. 0 \in Int /\ 9 \in Int
    OBVIOUS
  <2> QED
    BY <2>1, <2>2, Zenon
<1>2. filled \in SUBSET places /\ Digits(n) = Cardinality(filled)
  BY DEF Digits
<1> HIDE DEF places, filled
<1> QED
  BY <1>1, <1>2, FS_Subset, FS_CardinalityType

LEMMA RowWidths ==
  ASSUME NEW s \in RepositoryStatus, NEW c \in 1 .. 4
  PROVE  StatusRow(s)[c].width \in Nat /\ Header[c].width \in Nat
<1>1. RemoteCell(s).width \in Nat
  BY DEF RemoteCell, ErrorCell, Cell, RepositoryStatus
<1>2. WorktreeCell(s).width \in Nat
  BY DEF WorktreeCell, ErrorCell, Cell
<1>3. UnpushedCell(s).width \in Nat
  <2>1. s.upstream_state \in {"ok", "missing", "detached", "error"} /\ s.ahead \in Int
    BY DEF RepositoryStatus
  <2>2. s.ahead < 1 \/ s.ahead = 1 \/ s.ahead > 1
    BY <2>1
  <2>3. Digits(s.ahead) + 14 \in Nat
    BY DigitsAreNatural
  <2> QED
    BY <2>1, <2>2, <2>3 DEF UnpushedCell, ErrorCell, Cell
<1>4. s.path_width \in Nat
  BY DEF RepositoryStatus
<1>5. c = 1 \/ c = 2 \/ c = 3 \/ c = 4
  OBVIOUS
<1>6. StatusRow(s)[c].width \in Nat
  BY <1>1, <1>2, <1>3, <1>4, <1>5 DEF StatusRow, Cell
<1>7. Header[c].width \in Nat
  BY <1>5 DEF Header, Cell
<1> QED
  BY <1>6, <1>7

(* The rows: the header, and one for each status kept, in their order.     *)
LEMMA DisplayedFacts ==
  ASSUME report \in Reports
  PROVE  /\ Len(Displayed) \in Nat /\ DOMAIN Displayed = 1 .. Len(Displayed)
         /\ \A i \in DOMAIN Displayed : \E k \in Kept : Displayed[i] = statuses[k]
         /\ \A k \in Kept : \E i \in DOMAIN Displayed : Displayed[i] = statuses[k]
         /\ Displayed = <<>> <=> Kept = {}
         /\ Kept \subseteq DOMAIN statuses
<1> DEFINE n == Cardinality(Kept)
<1>1. Kept \in SUBSET (1 .. Len(statuses)) /\ Len(statuses) \in Nat
      /\ Kept \subseteq DOMAIN statuses
  BY StatusFacts DEF Kept
<1>2. /\ n \in Nat /\ IsFiniteSet(Kept) /\ \A i \in 1 .. n : InOrder(Kept)[i] \in Kept
      /\ \A x \in Kept : \E i \in 1 .. n : InOrder(Kept)[i] = x
  BY <1>1, InOrderFacts
<1>3. n = 0 <=> Kept = {}
  BY <1>2, FS_EmptySet
<1> HIDE DEF n
<1>4. Displayed = [i \in 1 .. n |-> statuses[InOrder(Kept)[i]]]
  BY DEF Displayed, n
<1>5. Len(Displayed) = n /\ DOMAIN Displayed = 1 .. n
  BY <1>2, <1>4
<1>6. \A i \in 1 .. n : Displayed[i] = statuses[InOrder(Kept)[i]]
  BY <1>4
<1>7. Displayed = <<>> <=> n = 0
  BY <1>2, <1>4, <1>5
<1>8. ASSUME NEW k \in Kept
      PROVE  \E i \in 1 .. n : Displayed[i] = statuses[k]
  <2>1. PICK i \in 1 .. n : InOrder(Kept)[i] = k
    BY <1>2
  <2> QED
    BY <1>6, <2>1
<1> QED
  BY <1>1, <1>2, <1>3, <1>5, <1>6, <1>7, <1>8

LEMMA RowFacts ==
  ASSUME report \in Reports
  PROVE  /\ DOMAIN Rows = 1 .. Len(Displayed) + 1 /\ Rows[1] = Header
         /\ \A i \in DOMAIN Displayed :
              i + 1 \in DOMAIN Rows /\ Rows[i + 1] = StatusRow(Displayed[i])
         /\ \A i \in DOMAIN Rows : i # 1 =>
              i - 1 \in DOMAIN Displayed /\ Rows[i] = StatusRow(Displayed[i - 1])
         /\ \A i \in DOMAIN Rows : \A c \in 1 .. 4 : Rows[i][c].width \in Nat
         /\ \A i \in DOMAIN Displayed : Displayed[i] \in RepositoryStatus
<1> DEFINE n == Len(Displayed)
<1>1. /\ n \in Nat /\ DOMAIN Displayed = 1 .. n
      /\ \A i \in DOMAIN Displayed : Displayed[i] \in RepositoryStatus
  BY DisplayedFacts, StatusFacts
<1> HIDE DEF n
<1>2. Rows = [i \in 1 .. n + 1 |-> IF i = 1 THEN Header ELSE StatusRow(Displayed[i - 1])]
  BY DEF Rows, n
<1>3. DOMAIN Rows = 1 .. n + 1 /\ Rows[1] = Header
  BY <1>1, <1>2
<1>4. ASSUME NEW i \in 1 .. n + 1, i # 1
      PROVE  i - 1 \in 1 .. n /\ Rows[i] = StatusRow(Displayed[i - 1])
  BY <1>1, <1>2, <1>4
<1>5. ASSUME NEW i \in 1 .. n
      PROVE  i + 1 \in 1 .. n + 1 /\ Rows[i + 1] = StatusRow(Displayed[i])
  <2>1. i + 1 \in 1 .. n + 1 /\ i + 1 # 1 /\ (i + 1) - 1 = i
    BY <1>1
  <2> QED
    BY <1>4, <2>1
<1>6. ASSUME NEW i \in 1 .. n + 1, NEW c \in 1 .. 4
      PROVE  Rows[i][c].width \in Nat
  <2>1. CASE i = 1
    BY <1>3, <2>1 DEF Header, Cell
  <2>2. CASE i # 1
    <3>1. Rows[i] = StatusRow(Displayed[i - 1]) /\ Displayed[i - 1] \in RepositoryStatus
      BY <1>1, <1>4, <2>2
    <3> QED
      BY <3>1, RowWidths
  <2> QED
    BY <2>1, <2>2
<1> QED
  BY <1>1, <1>3, <1>4, <1>5, <1>6 DEF n

LEMMA ColumnFacts ==
  ASSUME report \in Reports, NEW c \in 1 .. 4
  PROVE  /\ Column(c, Rows) \in Nat
         /\ \A i \in DOMAIN Rows : Rows[i][c].width <= Column(c, Rows)
         /\ \E i \in DOMAIN Rows : Rows[i][c].width = Column(c, Rows)
<1> DEFINE N == Len(Displayed) + 1
           f == [i \in 1 .. N |-> Rows[i][c].width]
           widths == {Rows[i][c].width : i \in DOMAIN Rows}
<1>1. N \in Nat /\ N >= 1 /\ DOMAIN Rows = 1 .. N /\ \A i \in 1 .. N : Rows[i][c].width \in Nat
  BY DisplayedFacts, RowFacts
<1> HIDE DEF N
<1>2. PICK k \in 1 .. N : \A j \in 1 .. N : f[j] <= f[k]
  <2>1. \A i \in 1 .. N : f[i] \in Nat
    BY <1>1
  <2> HIDE DEF f
  <2> QED
    BY <1>1, <2>1, LargestOfList
<1>3. Rows[k][c].width \in widths /\ \A v \in widths : v <= Rows[k][c].width
  BY <1>1, <1>2
<1>4. Column(c, Rows) = CHOOSE w \in widths : \A v \in widths : v <= w
  BY DEF Column
<1> HIDE DEF widths
<1>5. Column(c, Rows) \in widths /\ \A v \in widths : v <= Column(c, Rows)
  BY <1>3, <1>4
<1> USE DEF widths
<1> QED
  BY <1>1, <1>5

(* The table drawn is that of the report, from RenderTable on.             *)
LEMMA SameReport ==
  ASSUME UNCHANGED report
  PROVE  Displayed' = Displayed /\ Rows' = Rows /\ RuleWidth' = RuleWidth
<1>1. statuses' = statuses
  BY DEF statuses
<1>2. Kept' = Kept
  BY <1>1 DEF Kept
<1>3. Displayed' = Displayed
  BY <1>1, <1>2 DEF Displayed
<1>4. Rows' = Rows
  BY <1>3 DEF Rows
<1> QED
  BY <1>3, <1>4 DEF RuleWidth

LEMMA DrawnStep == Drawn /\ [Next]_vars => Drawn'
<1> SUFFICES ASSUME Drawn, [Next]_vars PROVE Drawn'
  OBVIOUS
<1>1. CASE RenderTable
  <2>1. UNCHANGED report /\ stage = "table" /\ stage' = "warnings"
    BY <1>1 DEF RenderTable
  <2>2. Displayed' = Displayed /\ Rows' = Rows /\ RuleWidth' = RuleWidth
    BY <2>1, SameReport
  <2>3. CASE Displayed = <<>>
    BY <1>1, <2>1, <2>2, <2>3 DEF RenderTable, Drawn
  <2>4. CASE Displayed # <<>>
    BY <1>1, <2>1, <2>2, <2>4 DEF RenderTable, Drawn
  <2> QED
    BY <2>3, <2>4
<1>2. CASE ~RenderTable
  <2>1. /\ UNCHANGED <<report, table, rule>>
        /\ stage = "table" <=> stage' = "table"
    BY <1>2 DEF Next, SkipStatus, WriteHeading, WriteLabel, BreakLine, AppendWord, EndMessage,
                EndWarnings, WriteTiming, Warning, Wrapping, vars, warnVars
  <2>2. Displayed' = Displayed /\ Rows' = Rows /\ RuleWidth' = RuleWidth
    BY <2>1, SameReport
  <2> QED
    BY <2>1, <2>2 DEF Drawn
<1> QED
  BY <1>1, <1>2

LEMMA DrawnAlways == Spec => []Drawn
<1>1. Init => Drawn
  BY DEF Init, Drawn
<1> QED
  BY <1>1, DrawnStep, PTL DEF Spec

LEMMA PrintedFacts ==
  ASSUME report \in Reports, NEW i \in DOMAIN Rows, NEW c \in 1 .. 4
  PROVE  LET C(k) == Column(k, Rows)
             cell == Printed(Rows[i], Rows)[c]
         IN /\ cell.text = Rows[i][c].text /\ cell.width = Rows[i][c].width
            /\ cell.at = IF c = 1 THEN 0 ELSE IF c = 2 THEN C(1) + 2
                         ELSE IF c = 3 THEN C(1) + C(2) + 4 ELSE C(1) + C(2) + C(3) + 6
<1> DEFINE C(k) == Column(k, Rows)
           Filled(k) == Rows[i][k].width + (C(k) - Rows[i][k].width + 2)
           starts == <<0, Filled(1), Filled(1) + Filled(2), Filled(1) + Filled(2) + Filled(3)>>
<1>1. ASSUME NEW k \in 1 .. 4 PROVE Filled(k) = C(k) + 2 /\ C(k) \in Nat
  <2>1. C(k) \in Nat /\ Rows[i][k].width \in Nat
    BY ColumnFacts, RowFacts
  <2> HIDE DEF C
  <2> QED
    BY <2>1
<1>2. Printed(Rows[i], Rows)[c] =
        [at |-> starts[c], text |-> Rows[i][c].text, width |-> Rows[i][c].width]
  BY DEF Printed
<1> HIDE DEF C, Filled
<1>3. /\ Filled(1) = C(1) + 2 /\ Filled(2) = C(2) + 2 /\ Filled(3) = C(3) + 2
      /\ C(1) \in Nat /\ C(2) \in Nat /\ C(3) \in Nat
  BY <1>1
<1>4. /\ Filled(1) + Filled(2) = C(1) + C(2) + 4
      /\ Filled(1) + Filled(2) + Filled(3) = C(1) + C(2) + C(3) + 6
  BY <1>3
<1>5. starts[c] = IF c = 1 THEN 0 ELSE IF c = 2 THEN C(1) + 2
                  ELSE IF c = 3 THEN C(1) + C(2) + 4 ELSE C(1) + C(2) + C(3) + 6
  <2>1. c = 1 \/ c = 2 \/ c = 3 \/ c = 4
    OBVIOUS
  <2> QED
    BY <1>3, <1>4, <2>1
<1> HIDE DEF starts
<1> QED
  BY <1>2, <1>5 DEF C

(* Whatever the widths of the cells, each column starts at the same place  *)
(* in every line, behind the widest cell before it, and the rule is as     *)
(* long as the longest line.                                               *)
THEOREM ColumnsAligned == Spec => []AlignedColumns
<1>1. ASSUME Base, Drawn PROVE AlignedColumns
  <2> SUFFICES ASSUME table # <<>> PROVE AlignedColumns
    BY DEF AlignedColumns
  <2> DEFINE C(k) == Column(k, Rows)
             at(c) == IF c = 1 THEN 0 ELSE IF c = 2 THEN C(1) + 2
                      ELSE IF c = 3 THEN C(1) + C(2) + 4 ELSE C(1) + C(2) + C(3) + 6
  <2>1. table = [i \in DOMAIN Rows |-> Printed(Rows[i], Rows)] /\ rule = RuleWidth
    BY <1>1 DEF Drawn
  <2>2. report \in Reports
    BY <1>1 DEF Base, TypeOK
  <2>3. DOMAIN table = DOMAIN Rows
    BY <2>1
  <2>4. ASSUME NEW i \in DOMAIN table, NEW c \in 1 .. 4
        PROVE  /\ table[i][c].at = at(c) /\ table[i][c].width = Rows[i][c].width
               /\ Rows[i][c].width \in Nat /\ Rows[i][c].width <= C(c)
    BY <2>1, <2>2, <2>3, PrintedFacts, ColumnFacts, RowFacts
  <2>5. C(1) \in Nat /\ C(2) \in Nat /\ C(3) \in Nat /\ C(4) \in Nat
    BY <2>2, ColumnFacts
  <2>6. rule = C(1) + C(2) + C(3) + C(4) + 6
    BY <2>1, <2>5 DEF RuleWidth
  <2>7. PICK k \in DOMAIN table : Rows[k][4].width = C(4)
    BY <2>2, <2>3, ColumnFacts
  <2> HIDE DEF C
  <2>8. ASSUME NEW i \in DOMAIN table, NEW j \in DOMAIN table, NEW c \in 1 .. 4
        PROVE  /\ table[i][c].at = table[j][c].at
               /\ c < 4 => table[i][c + 1].at >= table[j][c].at + table[j][c].width + 2
    <3>1. table[i][c].at = table[j][c].at
      BY <2>4
    <3>2. ASSUME c < 4 PROVE table[i][c + 1].at >= table[j][c].at + table[j][c].width + 2
      <4>1. c + 1 \in 1 .. 4
        BY <3>2
      <4>2. table[i][c + 1].at = at(c + 1) /\ table[j][c].at = at(c)
        BY <2>4, <4>1
      <4>3. at(c + 1) = at(c) + C(c) + 2
        <5>1. c = 1 \/ c = 2 \/ c = 3
          BY <3>2
        <5> QED
          BY <2>5, <5>1
      <4>4. at(c) \in Nat /\ C(c) \in Nat
        BY <2>5
      <4>5. table[j][c].width \in Nat /\ table[j][c].width <= C(c)
        BY <2>4
      <4> HIDE DEF at
      <4> QED
        BY <4>2, <4>3, <4>4, <4>5
    <3> QED
      BY <3>1, <3>2
  <2>9. ASSUME NEW i \in DOMAIN table
        PROVE  /\ table[i][4].at + table[i][4].width <= rule
               /\ Rows[i][4].width = C(4) => table[i][4].at + table[i][4].width = rule
    <3>1. /\ table[i][4].at = C(1) + C(2) + C(3) + 6 /\ table[i][4].width = Rows[i][4].width
          /\ Rows[i][4].width \in Nat /\ Rows[i][4].width <= C(4)
      BY <2>4
    <3> QED
      BY <2>5, <2>6, <3>1
  <2> QED
    BY <2>7, <2>8, <2>9 DEF AlignedColumns
<1> QED
  BY <1>1, BaseAlways, DrawnAlways, PTL

(* A cell says Error exactly if its check failed.                          *)
LEMMA CellTells ==
  ASSUME NEW s \in RepositoryStatus, s.upstream_state = "error" <=> s.upstream_error # NoError,
         NEW c \in Checks
  PROVE  /\ ColumnOf(c) \in 1 .. 4 /\ StatusRow(s)[1].text = s.path
         /\ StatusRow(s)[ColumnOf(c)].text = "Error" <=> c \in Failed(s)
<1>1. c \in Failed(s) <=> Error(s, c) # NoError
  BY ErrorFacts
<1>2. StatusRow(s)[1].text = s.path
  BY DEF StatusRow, Cell
<1>3. CASE c = "remote"
  <2>1. ColumnOf(c) = 2 /\ Error(s, c) = s.remote_error /\ s.has_remote \in BOOLEAN
    BY <1>3 DEF ColumnOf, Error, RepositoryStatus
  <2>2. RemoteCell(s).text = "Error" <=> s.remote_error # NoError
    BY <2>1 DEF RemoteCell, ErrorCell, Cell
  <2> QED
    BY <1>1, <1>2, <2>1, <2>2 DEF StatusRow
<1>4. CASE c = "worktree"
  <2>1. ColumnOf(c) = 3 /\ Error(s, c) = s.worktree_error
    BY <1>4 DEF ColumnOf, Error
  <2>2. WorktreeCell(s).text = "Error" <=> s.worktree_error # NoError
    BY DEF WorktreeCell, ErrorCell, Cell
  <2> QED
    BY <1>1, <1>2, <2>1, <2>2 DEF StatusRow
<1>5. CASE c = "upstream"
  <2>1. /\ ColumnOf(c) = 4 /\ Error(s, c) = s.upstream_error /\ s.ahead \in Int
        /\ s.upstream_state \in {"ok", "missing", "detached", "error"}
    BY <1>5 DEF ColumnOf, Error, RepositoryStatus
  <2>2. UnpushedCell(s).text = "Error" <=> s.upstream_error # NoError
    <3>1. CASE s.upstream_error # NoError
      BY <3>1 DEF UnpushedCell, ErrorCell, Cell
    <3>2. CASE s.upstream_error = NoError
      <4>1. s.ahead < 1 \/ s.ahead = 1 \/ s.ahead > 1
        BY <2>1
      <4> QED
        BY <2>1, <3>2, <4>1 DEF UnpushedCell, Cell
    <3> QED
      BY <3>1, <3>2
  <2> QED
    BY <1>1, <1>2, <2>1, <2>2 DEF StatusRow
<1> QED
  BY <1>3, <1>4, <1>5 DEF Checks

(* A failed check is in a label of its repository, and only it is.         *)
LEMMA LabelTells ==
  ASSUME Base, Listed, stage \in {"timing", "done"}, NEW k \in DOMAIN statuses, NEW c \in Checks
  PROVE  c \in Failed(statuses[k]) <=>
           \E b \in DOMAIN blocks : \E g \in DOMAIN blocks[b].groups :
             blocks[b].path = statuses[k].path /\ c \in Range(blocks[b].groups[g].checks)
<1> DEFINE issues == Issues(statuses[k])
<1>1. /\ statuses[k] \in RepositoryStatus
      /\ \A i \in DOMAIN statuses : statuses[i].path = statuses[k].path => i = k
  BY StatusFacts DEF Base, TypeOK
<1>2. Grouped(issues, Checks, statuses[k]) /\ Failed(statuses[k]) \subseteq Checks
  BY <1>1, IssuesFacts, ErrorFacts
<1>3. ASSUME NEW b \in DOMAIN blocks, blocks[b].path = statuses[k].path
      PROVE  /\ DOMAIN blocks[b].groups = DOMAIN issues
             /\ \A g \in DOMAIN issues : blocks[b].groups[g].checks = issues[g].checks
  <2>1. /\ blocks[b].groups \in Seq(Group) /\ Len(blocks[b].groups) = Len(issues)
        /\ \A g \in DOMAIN blocks[b].groups : blocks[b].groups[g].checks = issues[g].checks
    <3>1. PICK i \in DOMAIN statuses :
            /\ blocks[b].path = statuses[i].path /\ blocks[b].groups \in Seq(Group)
            /\ Len(blocks[b].groups) = Labelled(b, i)
            /\ \A g \in DOMAIN blocks[b].groups :
                 blocks[b].groups[g].checks = Issues(statuses[i])[g].checks
      BY LabelFacts
    <3>2. i = k
      BY <1>1, <1>3, <3>1
    <3>3. Labelled(b, i) = Len(Issues(statuses[i]))
      BY Finished
    <3> QED
      BY <3>1, <3>2, <3>3
  <2> QED
    BY <1>2, <2>1 DEF Grouped
<1> HIDE DEF issues
<1>4. ASSUME c \in Failed(statuses[k])
      PROVE  \E b \in DOMAIN blocks : \E g \in DOMAIN blocks[b].groups :
               blocks[b].path = statuses[k].path /\ c \in Range(blocks[b].groups[g].checks)
  <2>1. issues # <<>> /\ Begun(k)
    BY <1>1, <1>4, IssuesTell, Finished DEF issues
  <2>2. PICK b \in DOMAIN blocks : blocks[b].path = statuses[k].path
    BY <2>1 DEF Listed, BlocksFollow, issues
  <2>3. PICK g \in DOMAIN issues : c \in Range(issues[g].checks)
    BY <1>2, <1>4 DEF Grouped
  <2> QED
    BY <1>3, <2>2, <2>3
<1>5. ASSUME NEW b \in DOMAIN blocks, NEW g \in DOMAIN blocks[b].groups,
             blocks[b].path = statuses[k].path, c \in Range(blocks[b].groups[g].checks)
      PROVE  c \in Failed(statuses[k])
  <2>1. g \in DOMAIN issues /\ c \in Range(issues[g].checks)
    BY <1>3, <1>5
  <2> QED
    BY <1>2, <2>1 DEF Grouped
<1> QED
  BY <1>4, <1>5

(* Table and warnings agree on every check of every repository, and every  *)
(* repository warned of is in the table, with --dirty-only or without.     *)
THEOREM TableAgrees == Spec => []TableAgreesWithWarnings
<1>1. ASSUME Base, Listed, Drawn PROVE TableAgreesWithWarnings
  <2> SUFFICES ASSUME stage \in {"timing", "done"} PROVE TableAgreesWithWarnings
    BY DEF TableAgreesWithWarnings
  <2>1. report \in Reports /\ stage # "table"
    BY <1>1 DEF Base, TypeOK
  <2>2. \A k \in DOMAIN statuses :
          statuses[k] \in RepositoryStatus
          /\ (statuses[k].upstream_state = "error" <=> statuses[k].upstream_error # NoError)
    BY <2>1, ReportsAssumption, StatusFacts DEF statuses
  <2>3. ASSUME Displayed # <<>>
        PROVE  /\ DOMAIN table = 1 .. Len(Displayed) + 1 /\ Len(table) = Len(Displayed) + 1
               /\ \A i \in 2 .. Len(Displayed) + 1 : \A c \in 1 .. 4 :
                    table[i][c].text = StatusRow(Displayed[i - 1])[c].text
    <3>1. /\ table = [i \in DOMAIN Rows |-> Printed(Rows[i], Rows)]
          /\ DOMAIN Rows = 1 .. Len(Displayed) + 1
      BY <1>1, <2>1, <2>3, RowFacts DEF Drawn
    <3>2. Len(Displayed) \in Nat
      BY <2>1, DisplayedFacts
    <3>3. DOMAIN table = 1 .. Len(Displayed) + 1 /\ Len(table) = Len(Displayed) + 1
      BY <3>1, <3>2
    <3>4. ASSUME NEW i \in 2 .. Len(Displayed) + 1, NEW c \in 1 .. 4
          PROVE  table[i][c].text = StatusRow(Displayed[i - 1])[c].text
      <4>1. i \in DOMAIN Rows /\ i # 1
        BY <3>1, <3>2
      <4>2. table[i] = Printed(Rows[i], Rows)
        BY <3>1, <4>1
      <4>3. table[i][c].text = Rows[i][c].text
        BY <2>1, <4>1, <4>2, PrintedFacts
      <4>4. Rows[i] = StatusRow(Displayed[i - 1])
        BY <2>1, <4>1, RowFacts
      <4> QED
        BY <4>3, <4>4
    <3> QED
      BY <3>3, <3>4
  <2>4. ASSUME NEW i \in 2 .. Len(table), NEW c \in Checks
        PROVE  table[i][ColumnOf(c)].text = "Error" <=>
                 \E b \in DOMAIN blocks : \E g \in DOMAIN blocks[b].groups :
                   blocks[b].path = table[i][1].text /\ c \in Range(blocks[b].groups[g].checks)
    <3>1. Displayed # <<>>
      BY <1>1, <2>4 DEF Drawn
    <3>2. i - 1 \in DOMAIN Displayed /\ i \in 2 .. Len(Displayed) + 1
      BY <2>1, <2>3, <3>1, DisplayedFacts
    <3>3. PICK k \in Kept : Displayed[i - 1] = statuses[k]
      BY <2>1, <3>2, DisplayedFacts
    <3>4. k \in DOMAIN statuses
      BY <3>3 DEF Kept
    <3>5. /\ ColumnOf(c) \in 1 .. 4 /\ StatusRow(statuses[k])[1].text = statuses[k].path
          /\ StatusRow(statuses[k])[ColumnOf(c)].text = "Error" <=> c \in Failed(statuses[k])
      BY <2>2, <3>4, CellTells
    <3>6. /\ table[i][ColumnOf(c)].text = StatusRow(statuses[k])[ColumnOf(c)].text
          /\ table[i][1].text = statuses[k].path
      BY <2>3, <3>1, <3>2, <3>3, <3>5
    <3> QED
      BY <1>1, <3>4, <3>5, <3>6, LabelTells
  <2>5. ASSUME NEW b \in DOMAIN blocks
        PROVE  \E i \in 2 .. Len(table) : table[i][1].text = blocks[b].path
    <3>1. PICK k \in DOMAIN statuses :
            blocks[b].path = statuses[k].path /\ Issues(statuses[k]) # <<>>
      BY <1>1 DEF Listed, BlocksFollow
    <3>2. Failed(statuses[k]) # {}
      BY <2>2, <3>1, IssuesTell
    <3>3. NeedsAttention(statuses[k])
      BY <3>2 DEF Failed, Checks, Error, NeedsAttention
    <3>4. k \in Kept
      BY <3>3 DEF Kept
    <3>5. PICK i \in DOMAIN Displayed : Displayed[i] = statuses[k]
      BY <2>1, <3>4, DisplayedFacts
    <3>6. Displayed # <<>>
      BY <3>5
    <3>7. i + 1 \in 2 .. Len(Displayed) + 1 /\ (i + 1) - 1 = i
      BY <2>1, <3>5, DisplayedFacts
    <3>8. table[i + 1][1].text = StatusRow(statuses[k])[1].text
      BY <2>3, <3>5, <3>6, <3>7
    <3>9. StatusRow(statuses[k])[1].text = statuses[k].path
      BY DEF StatusRow, Cell
    <3> QED
      BY <2>3, <3>1, <3>6, <3>7, <3>8, <3>9
  <2> QED
    BY <2>4, <2>5 DEF TableAgreesWithWarnings
<1> QED
  BY <1>1, ListedAlways, DrawnAlways, PTL

-------------------------------------------------------------------------------
(* Wrapping: what one more word does to a line, and one more line to a     *)
(* message.                                                                *)
LineOK(text, message) ==
  text # <<>> /\ LineFits(text, message) /\ WordsParted(text, message)

LastWord(text) == text[Len(text)].word

Whole(texts, message, taken) ==
  /\ \A k \in DOMAIN texts : LineOK(texts[k], message)
  /\ WordsSurvive(texts, message, taken)

LEMMA WordStartsLine ==
  ASSUME NEW message \in Seq(Nat), NEW w \in DOMAIN message, NEW text,
         text = <<[word |-> w, at |-> Indent]>>
  PROVE  LineOK(text, message) /\ LastWord(text) = w /\ text[1].word = w
<1>1. Len(text) = 1 /\ DOMAIN text = {1} /\ text[1].at = Indent /\ text[1].word = w /\ text # <<>>
  OBVIOUS
<1>2. \A i, j \in Visible(text, message) : i = j
  BY <1>1 DEF Visible
<1>3. LineFits(text, message)
  BY <1>1, <1>2 DEF LineFits
<1>4. WordsParted(text, message)
  <2>1. 2 .. Len(text) = {}
    BY <1>1
  <2>2. ASSUME NEW i \in Visible(text, message), NEW j \in Visible(text, message), i < j
        PROVE  FALSE
    <3>1. i = 1 /\ j = 1
      BY <1>1 DEF Visible
    <3> QED
      BY <2>2, <3>1
  <2> QED
    BY <2>1, <2>2 DEF WordsParted
<1> QED
  BY <1>1, <1>3, <1>4 DEF LineOK, LastWord

(* A word that goes on the line, or is the first of it.                     *)
Joins(text, message, w, sep) ==
  /\ End(text, message) \in Nat /\ End(text, message) >= Indent
  /\ End(text, message) = Indent => Visible(text, message) = {}
  /\ sep = IF End(text, message) > Indent THEN 1 ELSE 0
  /\ ~(End(text, message) > Indent /\ End(text, message) + sep + message[w] > MaxWidth)
  /\ \A i \in DOMAIN text : text[i].word = w - 1 - Len(text) + i
  /\ text # <<>> => LineOK(text, message)

Joined(longer, text, message, w) ==
  /\ LineOK(longer, message) /\ LastWord(longer) = w
  /\ text = <<>> => longer[1].word = w
  /\ text # <<>> => longer[1].word = text[1].word

LEMMA WordAppended ==
  ASSUME NEW message \in Seq(Nat), NEW w \in DOMAIN message, NEW text \in Seq(Item),
         NEW sep, NEW longer, Joins(text, message, w, sep),
         longer = Append(text, [word |-> w, at |-> End(text, message) + sep])
  PROVE  Joined(longer, text, message, w)
<1> PICK width \in Nat : width = End(text, message)
  BY DEF Joins
<1> SUFFICES ASSUME width >= Indent, width = Indent => Visible(text, message) = {},
                    sep = IF width > Indent THEN 1 ELSE 0,
                    ~(width > Indent /\ width + sep + message[w] > MaxWidth),
                    \A i \in DOMAIN text : text[i].word = w - 1 - Len(text) + i,
                    text # <<>> => LineOK(text, message),
                    longer = Append(text, [word |-> w, at |-> width + sep])
             PROVE  /\ LineOK(longer, message) /\ LastWord(longer) = w
                    /\ text = <<>> => longer[1].word = w
                    /\ text # <<>> => longer[1].word = text[1].word
  BY Zenon DEF Joins, Joined
<1> DEFINE n == Len(text)
           item == [word |-> w, at |-> width + sep]
<1>1. /\ item \in Item /\ item.word = w /\ item.at = width + sep /\ sep \in {0, 1}
      /\ message[w] \in Nat /\ w \in Nat /\ w >= 1
  BY DEF Item
<1> HIDE DEF item
<1>2. /\ longer \in Seq(Item) /\ longer # <<>> /\ Len(longer) = n + 1
      /\ n \in Nat /\ DOMAIN text = 1 .. n /\ DOMAIN longer = 1 .. n + 1
      /\ \A i \in 1 .. n : longer[i] = text[i]
      /\ longer[n + 1] = item
      /\ text = <<>> <=> n = 0
  BY <1>1, ItemAppended DEF item
<1>3. End(longer, message) = width + sep + message[w]
  BY <1>1, <1>2 DEF End, EndOf
<1>4. \A i \in 1 .. n : i \in Visible(longer, message) => i \in Visible(text, message)
  BY <1>2 DEF Visible
<1>5. Visible(longer, message) \subseteq 1 .. n + 1
  BY <1>2 DEF Visible
<1>6. n > 0 => /\ width = EndOf(text[n], message) /\ text[n].word = w - 1
               /\ LineFits(text, message) /\ WordsParted(text, message)
  <2> SUFFICES ASSUME n > 0
               PROVE  /\ width = EndOf(text[n], message) /\ text[n].word = w - 1
                      /\ LineFits(text, message) /\ WordsParted(text, message)
    OBVIOUS
  <2>1. text # <<>> /\ n \in DOMAIN text
    BY <1>2
  <2>2. width = EndOf(text[n], message)
    BY <2>1 DEF End
  <2>3. text[n].word = w - 1
    <3>1. text[n].word = w - 1 - n + n
      BY <2>1
    <3> QED
      BY <1>1, <1>2, <3>1
  <2> QED
    BY <2>1, <2>2, <2>3 DEF LineOK
<1> HIDE DEF n
<1>7. LineFits(longer, message)
  <2>1. longer[1].at = Indent
    <3>1. CASE n = 0
      <4>1. width = Indent /\ sep = 0
        BY <1>2, <3>1 DEF End
      <4> QED
        BY <1>1, <1>2, <3>1, <4>1 DEF Indent
    <3>2. CASE n # 0
      BY <1>2, <1>6, <3>2 DEF LineFits
    <3> QED
      BY <3>1, <3>2
  <2>2. CASE width = Indent
    <3>1. \A i \in Visible(longer, message) : i = n + 1
      BY <1>2, <1>4, <1>5, <2>2
    <3> QED
      BY <2>1, <3>1 DEF LineFits
  <2>3. CASE width # Indent
    <3>1. End(longer, message) <= MaxWidth
      BY <1>1, <1>3, <2>3 DEF Indent, MaxWidth
    <3> QED
      BY <2>1, <3>1 DEF LineFits
  <2> QED
    BY <2>2, <2>3
<1>8. WordsParted(longer, message)
  <2>1. ASSUME NEW i \in 2 .. n + 1
        PROVE  longer[i].word = longer[i - 1].word + 1
    <3>1. n > 0 /\ i - 1 \in 1 .. n
      BY <1>2
    <3>2. CASE i \in 2 .. n
      BY <1>2, <1>6, <3>1, <3>2 DEF WordsParted, n
    <3>3. CASE i = n + 1
      BY <1>1, <1>2, <1>6, <3>1, <3>3
    <3> QED
      BY <1>2, <3>2, <3>3
  <2>2. ASSUME NEW i \in Visible(longer, message), NEW j \in Visible(longer, message), i < j
        PROVE  longer[j].at = EndOf(longer[j - 1], message) + 1
    <3>1. i \in 1 .. n + 1 /\ j \in 1 .. n + 1
      BY <1>5
    <3>2. n > 0 /\ j - 1 \in 1 .. n /\ i \in 1 .. n
      BY <1>2, <2>2, <3>1
    <3>3. i \in Visible(text, message)
      BY <1>4, <3>2
    <3>4. CASE j \in 1 .. n
      <4>1. j \in Visible(text, message)
        BY <1>4, <3>4
      <4>2. text[j].at = EndOf(text[j - 1], message) + 1
        BY <1>6, <2>2, <3>2, <3>3, <4>1 DEF WordsParted
      <4> QED
        BY <1>2, <3>2, <3>4, <4>2
    <3>5. CASE j = n + 1
      <4>1. width # Indent
        BY <3>3
      <4>2. width > Indent /\ sep = 1
        BY <4>1 DEF Indent
      <4>3. longer[j - 1] = text[n] /\ longer[j] = item
        BY <1>2, <3>2, <3>5
      <4> QED
        BY <1>1, <1>6, <3>2, <4>2, <4>3
    <3>6. j \in 1 .. n \/ j = n + 1
      BY <1>2, <3>1
    <3> QED
      BY <3>4, <3>5, <3>6
  <2> QED
    BY <1>2, <2>1, <2>2 DEF WordsParted
<1>9. LastWord(longer) = w
  BY <1>1, <1>2 DEF LastWord
<1>10. /\ text = <<>> => longer[1].word = w
       /\ text # <<>> => longer[1].word = text[1].word
  BY <1>1, <1>2
<1> QED
  BY <1>2, <1>7, <1>8, <1>9, <1>10 DEF LineOK

LEMMA TextAppended ==
  ASSUME NEW S, NEW texts \in Seq(S), NEW text \in S, NEW longer,
         longer = Append(texts, text)
  PROVE  /\ longer \in Seq(S) /\ longer # <<>> /\ Len(longer) = Len(texts) + 1
         /\ Len(texts) \in Nat /\ DOMAIN texts = 1 .. Len(texts)
         /\ DOMAIN longer = 1 .. Len(texts) + 1
         /\ \A k \in 1 .. Len(texts) : longer[k] = texts[k]
         /\ longer[Len(texts) + 1] = text
         /\ texts = <<>> <=> Len(texts) = 0
<1>1. longer \in Seq(S) /\ Len(longer) = Len(texts) + 1
  OBVIOUS
<1>2. Len(texts) \in Nat /\ DOMAIN texts = 1 .. Len(texts)
  OBVIOUS
<1>3. \A k \in 1 .. Len(texts) : longer[k] = texts[k]
  OBVIOUS
<1>4. longer[Len(texts) + 1] = text
  OBVIOUS
<1>5. texts = <<>> <=> Len(texts) = 0
  OBVIOUS
<1>6. longer # <<>> /\ DOMAIN longer = 1 .. Len(texts) + 1
  BY <1>1, <1>2
<1> QED
  BY <1>1, <1>2, <1>3, <1>4, <1>5, <1>6

(* How far the lines have come in the message.                             *)
Reached(texts) == IF texts = <<>> THEN 0 ELSE LastWord(texts[Len(texts)])

Follows(texts, k, message) ==
  /\ texts[k][1].word = LastWord(texts[k - 1]) + 1
  /\ End(texts[k - 1], message) + 1 + message[texts[k][1].word] > MaxWidth

LEMMA SurviveMeans ==
  ASSUME NEW texts, NEW message, NEW taken
  PROVE  WordsSurvive(texts, message, taken) <=>
           /\ texts # <<>> => texts[1][1].word = 1
           /\ \A k \in 2 .. Len(texts) : Follows(texts, k, message)
           /\ Reached(texts) <= taken
           /\ \A i \in Reached(texts) + 1 .. taken : message[i] = 0
BY DEF WordsSurvive, Follows, Reached, LastWord

(* A line put behind the others: it goes on where they end, or it starts.  *)
LEMMA WholeAppended ==
  ASSUME NEW message \in Seq(Nat), NEW written \in Seq(Seq(Item)), NEW text \in Seq(Item),
         NEW longer, longer = Append(written, text), NEW taken \in Nat,
         \A k \in DOMAIN written : LineOK(written[k], message),
         LineOK(text, message), LastWord(text) = taken,
         written # <<>> => written[1][1].word = 1,
         \A k \in 2 .. Len(written) : Follows(written, k, message),
         written = <<>> => text[1].word = 1,
         written # <<>> =>
           /\ text[1].word = LastWord(written[Len(written)]) + 1
           /\ End(written[Len(written)], message) + 1 + message[text[1].word] > MaxWidth
  PROVE  Whole(longer, message, taken)
<1> DEFINE n == Len(written)
<1>1. /\ longer # <<>> /\ Len(longer) = n + 1 /\ n \in Nat
      /\ DOMAIN written = 1 .. n /\ DOMAIN longer = 1 .. n + 1
      /\ \A k \in 1 .. n : longer[k] = written[k]
      /\ longer[n + 1] = text /\ (written = <<>> <=> n = 0)
  BY TextAppended
<1> HIDE DEF n
<1>2. \A k \in DOMAIN longer : LineOK(longer[k], message)
  <2> SUFFICES ASSUME NEW k \in 1 .. n + 1 PROVE LineOK(longer[k], message)
    BY <1>1
  <2>1. CASE k \in 1 .. n
    BY <1>1, <2>1
  <2>2. CASE k = n + 1
    BY <1>1, <2>2
  <2> QED
    BY <1>1, <2>1, <2>2
<1>3. longer[1][1].word = 1
  BY <1>1
<1>4. ASSUME NEW k \in 2 .. Len(longer) PROVE Follows(longer, k, message)
  <2>1. CASE k \in 2 .. n
    <3>1. longer[k] = written[k] /\ longer[k - 1] = written[k - 1]
      BY <1>1, <2>1
    <3> QED
      BY <2>1, <3>1 DEF Follows, n
  <2>2. CASE k = n + 1
    <3>1. longer[k] = text /\ longer[k - 1] = written[n] /\ written # <<>>
      BY <1>1, <1>4, <2>2
    <3> QED
      BY <3>1 DEF Follows, n
  <2> QED
    BY <1>1, <2>1, <2>2
<1>5. Reached(longer) = taken
  BY <1>1 DEF Reached
<1>6. WordsSurvive(longer, message, taken)
  <2>1. Reached(longer) <= taken /\ \A i \in Reached(longer) + 1 .. taken : message[i] = 0
    BY <1>5
  <2> QED
    BY <1>3, <1>4, <2>1, SurviveMeans
<1> QED
  BY <1>2, <1>6 DEF Whole

(* What the whole says of its lines but the last, and of the last.         *)
LEMMA WholeSplit ==
  ASSUME NEW message \in Seq(Nat), NEW written \in Seq(Seq(Item)), NEW text \in Seq(Item),
         NEW taken, Whole(Append(written, text), message, taken)
  PROVE  /\ \A k \in DOMAIN written : LineOK(written[k], message)
         /\ LineOK(text, message)
         /\ written # <<>> => written[1][1].word = 1
         /\ \A k \in 2 .. Len(written) : Follows(written, k, message)
         /\ written = <<>> => text[1].word = 1
         /\ written # <<>> =>
              /\ text[1].word = LastWord(written[Len(written)]) + 1
              /\ End(written[Len(written)], message) + 1 + message[text[1].word] > MaxWidth
<1> DEFINE n == Len(written)
           texts == Append(written, text)
           Texts == Seq(Item)
<1>0. texts = Append(written, text) /\ written \in Seq(Texts) /\ text \in Texts
  OBVIOUS
<1> HIDE DEF n, texts, Texts
<1>1. /\ texts # <<>> /\ Len(texts) = n + 1 /\ n \in Nat
      /\ DOMAIN written = 1 .. n /\ DOMAIN texts = 1 .. n + 1
      /\ \A k \in 1 .. n : texts[k] = written[k]
      /\ texts[n + 1] = text /\ (written = <<>> <=> n = 0)
  <2>1. /\ texts # <<>> /\ Len(texts) = Len(written) + 1
        /\ Len(written) \in Nat /\ DOMAIN written = 1 .. Len(written)
        /\ DOMAIN texts = 1 .. Len(written) + 1
        /\ \A k \in 1 .. Len(written) : texts[k] = written[k]
        /\ texts[Len(written) + 1] = text
        /\ written = <<>> <=> Len(written) = 0
    BY <1>0, TextAppended
  <2> QED
    BY <2>1, Zenon DEF n
<1>2. /\ \A k \in DOMAIN texts : LineOK(texts[k], message)
      /\ texts[1][1].word = 1
      /\ \A k \in 2 .. Len(texts) : Follows(texts, k, message)
  BY <1>1, SurviveMeans DEF Whole, texts
<1>3. \A k \in DOMAIN written : LineOK(written[k], message)
  BY <1>1, <1>2
<1>4. LineOK(text, message)
  BY <1>1, <1>2
<1>5. /\ written # <<>> => written[1][1].word = 1
      /\ written = <<>> => text[1].word = 1
  BY <1>1, <1>2
<1>6. ASSUME NEW k \in 2 .. n PROVE Follows(written, k, message)
  <2>1. texts[k] = written[k] /\ texts[k - 1] = written[k - 1] /\ k \in 2 .. Len(texts)
    BY <1>1
  <2> QED
    BY <1>2, <2>1 DEF Follows
<1>7. ASSUME written # <<>>
      PROVE  /\ text[1].word = LastWord(written[n]) + 1
             /\ End(written[n], message) + 1 + message[text[1].word] > MaxWidth
  <2>1. n + 1 \in 2 .. Len(texts) /\ texts[n + 1] = text /\ texts[(n + 1) - 1] = written[n]
    BY <1>1, <1>7
  <2> QED
    BY <1>2, <2>1 DEF Follows
<1> QED
  BY <1>3, <1>4, <1>5, <1>6, <1>7 DEF n

(* A last line of words that cannot be seen may be left out.               *)
LEMMA LastLineDropped ==
  ASSUME NEW message \in Seq(Nat), NEW written \in Seq(Seq(Item)), NEW text \in Seq(Item),
         NEW taken \in Nat, taken <= Len(message), Whole(Append(written, text), message, taken),
         Visible(text, message) = {}, text # <<>>, Len(text) <= taken,
         \A i \in DOMAIN text : text[i].word = taken - Len(text) + i
  PROVE  Whole(written, message, taken)
<1> DEFINE n == Len(text)
<1>1. n \in Nat /\ n >= 1 /\ n <= taken /\ DOMAIN text = 1 .. n /\ text[1].word = taken - n + 1
  OBVIOUS
<1> HIDE DEF n
<1>2. /\ \A k \in DOMAIN written : LineOK(written[k], message)
      /\ written # <<>> => written[1][1].word = 1
      /\ \A k \in 2 .. Len(written) : Follows(written, k, message)
      /\ written = <<>> => text[1].word = 1
      /\ written # <<>> => text[1].word = LastWord(written[Len(written)]) + 1
  BY WholeSplit
<1>3. Reached(written) = taken - n
  <2>1. CASE written = <<>>
    BY <1>1, <1>2, <2>1 DEF Reached
  <2>2. CASE written # <<>>
    <3>1. taken - n + 1 = LastWord(written[Len(written)]) + 1
      BY <1>1, <1>2, <2>2
    <3>2. LastWord(written[Len(written)]) \in Nat
      <4>1. Len(written) \in DOMAIN written
        BY <2>2
      <4>2. PICK t \in Seq(Item) : t = written[Len(written)] /\ t # <<>>
        BY <1>2, <4>1 DEF LineOK
      <4>3. Len(t) \in DOMAIN t
        BY <4>2
      <4>4. t[Len(t)] \in Item
        BY <4>3
      <4> QED
        BY <4>2, <4>4 DEF LastWord, Item
    <3> QED
      BY <1>1, <2>2, <3>1, <3>2 DEF Reached
  <2> QED
    BY <2>1, <2>2
<1>4. ASSUME NEW i \in (taken - n) + 1 .. taken PROVE message[i] = 0
  <2>1. i - (taken - n) \in DOMAIN text /\ i \in DOMAIN message
    BY <1>1
  <2>2. text[i - (taken - n)].word = taken - n + (i - (taken - n))
    BY <2>1 DEF n
  <2>3. taken - n + (i - (taken - n)) = i
    BY <1>1
  <2>4. ~(message[i] > 0)
    BY <2>1, <2>2, <2>3 DEF Visible
  <2>5. message[i] \in Nat
    BY <2>1
  <2> QED
    BY <2>4, <2>5
<1>5. WordsSurvive(written, message, taken)
  BY <1>1, <1>2, <1>3, <1>4, SurviveMeans
<1> QED
  BY <1>2, <1>5 DEF Whole

(* The lines under label g of block b, whose status is at place i, hold    *)
(* the message of that label up to the word reached.                       *)
Spoken(i, g) == Issues(statuses[i])[g].message

WellWrapped(b, i, g) ==
  /\ Open(b, g) /\ line = <<>> => blocks[b].groups[g].lines = <<>>
  /\ Whole(Lines(b, g), Spoken(i, g), IF Open(b, g) THEN word - 1 ELSE Len(Spoken(i, g)))

Wrapped ==
  \A b \in DOMAIN blocks : \A i \in DOMAIN statuses : \A g \in DOMAIN blocks[b].groups :
    blocks[b].path = statuses[i].path => WellWrapped(b, i, g)

(* A label whose lines stay, and which write_wrapped is not filling.       *)
LEMMA StaysWrapped ==
  ASSUME UNCHANGED report, NEW b, NEW i, NEW g,
         blocks'[b].groups[g].lines = blocks[b].groups[g].lines,
         ~Open(b, g), ~Open(b, g)', WellWrapped(b, i, g)
  PROVE  WellWrapped(b, i, g)'
<1>1. Lines(b, g)' = Lines(b, g)
  BY DEF Lines
<1>2. Spoken(i, g)' = Spoken(i, g)
  BY DEF Spoken, statuses
<1>3. Whole(Lines(b, g), Spoken(i, g), Len(Spoken(i, g)))
  BY DEF WellWrapped
<1>4. Whole(Lines(b, g)', Spoken(i, g)', Len(Spoken(i, g)'))
  BY <1>1, <1>2, <1>3
<1> QED
  BY <1>4 DEF WellWrapped

(* Nothing is being filled, and no label is added.                         *)
LEMMA QuietlyWrapped ==
  ASSUME Wrapped, UNCHANGED report, word = 0, word' = 0,
         \A b \in DOMAIN blocks' : \A g \in DOMAIN blocks'[b].groups :
           b \in DOMAIN blocks /\ blocks'[b] = blocks[b]
  PROVE  Wrapped'
<1> SUFFICES ASSUME NEW b \in DOMAIN blocks', NEW i \in DOMAIN statuses',
                    NEW g \in DOMAIN blocks'[b].groups, blocks'[b].path = statuses'[i].path
             PROVE  WellWrapped(b, i, g)'
  BY DEF Wrapped
<1>1. b \in DOMAIN blocks /\ blocks'[b] = blocks[b] /\ statuses' = statuses
  BY DEF statuses
<1>2. WellWrapped(b, i, g)
  BY <1>1 DEF Wrapped
<1>3. ~Open(b, g) /\ ~Open(b, g)'
  BY DEF Open, Wrapping
<1>4. blocks'[b].groups[g].lines = blocks[b].groups[g].lines
  BY <1>1
<1> QED
  BY <1>2, <1>3, <1>4, StaysWrapped

(* The label write_wrapped is filling.                                     *)
LEMMA OpenLabel ==
  ASSUME Base, Listed, Wrapped, word > 0
  PROVE  LET n == Len(blocks)
             written == blocks[n].groups[issue].lines
         IN /\ n \in DOMAIN blocks /\ status \in DOMAIN statuses
            /\ blocks[n].path = statuses[status].path
            /\ issue \in DOMAIN blocks[n].groups /\ Len(blocks[n].groups) = issue
            /\ Open(n, issue) /\ Spoken(status, issue) = Message
            /\ written \in Seq(Seq(Item))
            /\ line = <<>> => written = <<>> /\ Whole(written, Message, word - 1)
            /\ line # <<>> => Whole(Append(written, line), Message, word - 1)
            /\ \A i \in DOMAIN statuses : blocks[n].path = statuses[i].path => i = status
<1> DEFINE n == Len(blocks)
           written == blocks[n].groups[issue].lines
<1>1. issue > 0 /\ issue \in Nat /\ word \in Nat /\ status \in Nat
  BY DEF Base, TypeOK, Placed
<1>2. /\ blocks # <<>> /\ n \in DOMAIN blocks /\ blocks[n] \in Block
      /\ Warning /\ issue \in DOMAIN IssuesHere /\ Wrapping
  BY <1>1, MessageFacts DEF Base
<1>3. status \in DOMAIN statuses
  BY <1>1, HereFacts DEF Base, Placed
<1>4. blocks[n].path = statuses[status].path
  BY <1>1 DEF Listed, BlocksFollow
<1>5. Labelled(n, status) = issue
  BY <1>1 DEF Labelled
<1>6. Len(blocks[n].groups) = issue
  BY <1>2, <1>3, <1>4, <1>5 DEF Listed, GroupsFollow
<1>7. blocks[n].groups \in Seq(Group)
  BY <1>2 DEF Block
<1>8. issue \in DOMAIN blocks[n].groups
  BY <1>1, <1>6, <1>7
<1>9. written \in Seq(Seq(Item))
  <2>1. blocks[n].groups[issue] \in Group
    BY <1>7, <1>8
  <2> QED
    BY <2>1 DEF Group
<1>10. Open(n, issue)
  BY <1>2, <1>6 DEF Open
<1>11. Spoken(status, issue) = Message
  BY DEF Spoken, Message, IssuesHere
<1>12. WellWrapped(n, status, issue)
  BY <1>2, <1>3, <1>4, <1>8 DEF Wrapped
<1>13. /\ line = <<>> => written = <<>>
       /\ Whole(Lines(n, issue), Message, word - 1)
  BY <1>10, <1>11, <1>12 DEF WellWrapped
<1>14. Lines(n, issue) = IF line # <<>> THEN Append(written, line) ELSE written
  BY <1>10 DEF Lines
<1>15. \A i \in DOMAIN statuses : blocks[n].path = statuses[i].path => i = status
  BY <1>1, LastBlock DEF Listed
<1> HIDE DEF n, written
<1>16. /\ line = <<>> => written = <<>> /\ Whole(written, Message, word - 1)
       /\ line # <<>> => Whole(Append(written, line), Message, word - 1)
  BY <1>13, <1>14
<1> QED
  BY <1>2, <1>3, <1>4, <1>6, <1>8, <1>9, <1>10, <1>11, <1>15, <1>16 DEF n, written

(* A step of write_wrapped touches the label it is filling, no other.      *)
LEMMA OthersStayWrapped ==
  ASSUME Base, Listed, Wrapped, word > 0, UNCHANGED report,
         UNCHANGED blocks \/ WriteLine(line),
         NEW n, NEW s, NEW m, n = Len(blocks), s = status, m = issue, WellWrapped(n, s, m)'
  PROVE  Wrapped'
<1>1. /\ n \in DOMAIN blocks /\ status \in DOMAIN statuses
      /\ issue \in DOMAIN blocks[n].groups /\ Len(blocks[n].groups) = issue
      /\ \A i \in DOMAIN statuses : blocks[n].path = statuses[i].path => i = status
  BY OpenLabel
<1>2. SameLabels
  BY LabelsStay
<1>3. \A b \in DOMAIN blocks : \A g \in DOMAIN blocks[b].groups :
        (b = n /\ g = issue) \/ blocks'[b].groups[g] = blocks[b].groups[g]
  <2>1. CASE UNCHANGED blocks
    BY <2>1
  <2>2. CASE WriteLine(line)
    BY <1>1, <2>2, LineWritten DEF Base
  <2> QED
    BY <2>1, <2>2
<1> SUFFICES ASSUME NEW b \in DOMAIN blocks', NEW i \in DOMAIN statuses',
                    NEW g \in DOMAIN blocks'[b].groups, blocks'[b].path = statuses'[i].path
             PROVE  WellWrapped(b, i, g)'
  BY DEF Wrapped
<1>4. /\ b \in DOMAIN blocks /\ statuses' = statuses /\ g \in DOMAIN blocks[b].groups
      /\ blocks[b].path = statuses[i].path /\ i \in DOMAIN statuses
      /\ Len(blocks') = n /\ Len(blocks'[b].groups) = Len(blocks[b].groups)
  BY <1>2 DEF SameLabels, statuses
<1>5. CASE b = n /\ g = issue
  BY <1>1, <1>4, <1>5
<1>6. CASE ~(b = n /\ g = issue)
  <2>1. ~Open(b, g) /\ ~Open(b, g)'
    BY <1>1, <1>4, <1>6 DEF Open
  <2>2. WellWrapped(b, i, g)
    BY <1>4 DEF Wrapped
  <2>3. blocks'[b].groups[g].lines = blocks[b].groups[g].lines
    BY <1>3, <1>4, <1>6
  <2> QED
    BY <2>1, <2>2, <2>3, StaysWrapped
<1> QED
  BY <1>5, <1>6

LEMMA WrappedWriteLabel == Base /\ Listed /\ Wrapped /\ WriteLabel => Wrapped'
<1> SUFFICES ASSUME Base, Listed, Wrapped, WriteLabel PROVE Wrapped'
  OBVIOUS
<1> DEFINE n == Len(blocks)
           old == blocks[n].groups
           new == [checks |-> IssuesHere[issue].checks, lines |-> <<>>]
<1>1. /\ statuses' = statuses /\ stage' = stage /\ Warning
      /\ issue > 0 /\ word = 0 /\ word' = 1 /\ line' = <<>>
      /\ UNCHANGED <<report, status, issue>>
      /\ blocks' = [blocks EXCEPT ![n].groups = Append(@, new)]
  BY DEF WriteLabel, statuses
<1>2. /\ blocks # <<>> /\ blocks[n] \in Block /\ IssuesHere[issue].checks \in Seq(Checks)
      /\ blocks \in Seq(Block)
  BY <1>1, MessageFacts DEF Base, TypeOK
<1>3. new \in Group /\ new.lines = <<>>
  BY <1>2 DEF Group
<1> HIDE DEF new
<1>4. /\ blocks' \in Seq(Block) /\ Len(blocks') = Len(blocks) /\ n \in DOMAIN blocks
      /\ \A b \in DOMAIN blocks : b # n => blocks'[b] = blocks[b]
      /\ blocks'[n].path = blocks[n].path
      /\ blocks'[n].groups = Append(old, new)
  <2>1. blocks' = [blocks EXCEPT ![Len(blocks)].groups = Append(@, new)]
    BY <1>1
  <2>2. /\ blocks' \in Seq(Block) /\ Len(blocks') = Len(blocks) /\ Len(blocks) \in DOMAIN blocks
        /\ \A b \in DOMAIN blocks : b # Len(blocks) => blocks'[b] = blocks[b]
        /\ blocks'[Len(blocks)].path = blocks[Len(blocks)].path
        /\ blocks'[Len(blocks)].groups = Append(blocks[Len(blocks)].groups, new)
    BY <1>2, <1>3, <2>1, LabelAdded
  <2> QED
    BY <2>2
<1>5. DOMAIN blocks' = DOMAIN blocks /\ old \in Seq(Group)
  BY <1>2, <1>4 DEF Block
<1>6. /\ Len(old) \in Nat /\ DOMAIN old = 1 .. Len(old)
      /\ Len(blocks'[n].groups) = Len(old) + 1
      /\ DOMAIN blocks'[n].groups = 1 .. Len(old) + 1
      /\ \A g \in 1 .. Len(old) : blocks'[n].groups[g] = old[g]
      /\ blocks'[n].groups[Len(old) + 1] = new
  BY <1>3, <1>4, <1>5
<1> SUFFICES ASSUME NEW b \in DOMAIN blocks, NEW i \in DOMAIN statuses,
                    NEW g \in DOMAIN blocks'[b].groups, blocks'[b].path = statuses[i].path
             PROVE  WellWrapped(b, i, g)'
  BY <1>1, <1>5 DEF Wrapped
<1>7. CASE b = n /\ g = Len(old) + 1
  <2>1. Open(b, g)'
    BY <1>1, <1>4, <1>6, <1>7 DEF Open, Wrapping, Warning
  <2>2. Lines(b, g)' = <<>> /\ blocks'[b].groups[g].lines = <<>>
    BY <1>1, <1>3, <1>6, <1>7 DEF Lines
  <2>3. Whole(<<>>, Spoken(i, g)', 0)
    BY SurviveMeans DEF Whole, Reached
  <2>4. Whole(Lines(b, g)', Spoken(i, g)', word' - 1)
    BY <1>1, <2>2, <2>3
  <2> QED
    BY <2>1, <2>2, <2>4 DEF WellWrapped
<1>8. CASE ~(b = n /\ g = Len(old) + 1)
  <2>1. /\ g \in DOMAIN blocks[b].groups /\ blocks'[b].groups[g] = blocks[b].groups[g]
        /\ blocks[b].path = statuses[i].path
    <3>1. CASE b = n
      <4>1. g \in 1 .. Len(old)
        BY <1>6, <1>8, <3>1
      <4> QED
        BY <1>4, <1>6, <3>1, <4>1
    <3>2. CASE b # n
      BY <1>4, <3>2
    <3> QED
      BY <3>1, <3>2
  <2>2. ~Open(b, g) /\ ~Open(b, g)'
    BY <1>1, <1>4, <1>6, <1>8 DEF Open, Wrapping
  <2>3. WellWrapped(b, i, g)
    BY <2>1 DEF Wrapped
  <2>4. blocks'[b].groups[g].lines = blocks[b].groups[g].lines
    BY <2>1
  <2> QED
    BY <1>1, <2>2, <2>3, <2>4, StaysWrapped
<1> QED
  BY <1>7, <1>8

(* The line behind the others is closed, and the word is put on a new one. *)
LEMMA WrappedBreakLine == Base /\ Listed /\ Wrapped /\ BreakLine => Wrapped'
<1> SUFFICES ASSUME Base, Listed, Wrapped, BreakLine PROVE Wrapped'
  OBVIOUS
<1> DEFINE item == [word |-> word, at |-> Indent]
           text == <<item>>
<1>1. /\ Message' = Message /\ UNCHANGED <<report, stage, status, issue>>
      /\ Wrapping /\ word > 0 /\ word <= Len(Message) /\ StartsLine /\ WriteLine(line)
      /\ line' = text /\ word' = word + 1 /\ statuses' = statuses
  BY SameIssue DEF BreakLine, Wrapping
<1>2. /\ word \in DOMAIN Message /\ Message[word] \in Nat /\ word \in Nat /\ issue > 0
      /\ line_width = End(line, Message) /\ item \in Item
  BY <1>1, WordTaken
<1>3. Message \in Seq(Nat) /\ line \in Seq(Item)
  BY <1>2, MessageFacts DEF Base, TypeOK
<1> HIDE DEF item
<1>4. text \in Seq(Item) /\ text # <<>>
  BY <1>2
<1>5. LineOK(text, Message) /\ LastWord(text) = word /\ text[1].word = word
  BY <1>2, <1>3, WordStartsLine DEF item
<1> HIDE DEF text
<1>6. /\ line_width > Indent /\ End(line, Message) + 1 + Message[word] > MaxWidth
      /\ line # <<>>
  <2>1. line_width > Indent /\ line_width + Separator + Message[word] > MaxWidth
    BY <1>1 DEF StartsLine
  <2>2. Separator = 1
    BY <2>1 DEF Separator
  <2>3. line # <<>>
    BY <1>2, <2>1 DEF End, Indent
  <2> QED
    BY <1>2, <2>1, <2>2, <2>3
<1>7. LastWord(line) = word - 1
  <2>1. Len(line) \in DOMAIN line /\ Len(line) \in Nat
    BY <1>3, <1>6
  <2>2. line[Len(line)].word = word - 1 - Len(line) + Len(line)
    BY <1>1, <2>1 DEF Base, Filling
  <2> QED
    BY <1>2, <2>1, <2>2 DEF LastWord
<1> PICK n : n = Len(blocks)
  OBVIOUS
<1> DEFINE written == blocks[n].groups[issue].lines
           longer == Append(written, line)
           longest == Append(longer, text)
<1>8. /\ Len(blocks[n].groups) = issue /\ written \in Seq(Seq(Item))
      /\ Whole(longer, Message, word - 1) /\ Spoken(status, issue) = Message
  BY <1>1, <1>6, OpenLabel
<1>9. longer \in Seq(Seq(Item)) /\ longer # <<>> /\ longer[Len(longer)] = line
  <2> DEFINE Texts == Seq(Item)
  <2>1. written \in Seq(Texts) /\ line \in Texts
    BY <1>3, <1>8
  <2> HIDE DEF Texts, written
  <2>2. longer \in Seq(Texts) /\ longer # <<>> /\ longer[Len(longer)] = line
    BY <2>1
  <2> QED
    BY <2>2 DEF Texts
<1>10. /\ blocks'[n].groups[issue].lines = longer /\ Len(blocks') = n
       /\ Len(blocks'[n].groups) = issue
  BY <1>1, <1>8, LineWritten DEF Base
<1> HIDE DEF written, longer, longest
<1>11. Whole(longest, Message, word)
  <2>1. /\ \A k \in DOMAIN longer : LineOK(longer[k], Message)
        /\ longer[1][1].word = 1
        /\ \A k \in 2 .. Len(longer) : Follows(longer, k, Message)
    BY <1>8, <1>9, SurviveMeans DEF Whole
  <2>2. /\ text[1].word = LastWord(longer[Len(longer)]) + 1
        /\ End(longer[Len(longer)], Message) + 1 + Message[text[1].word] > MaxWidth
    BY <1>2, <1>5, <1>6, <1>7, <1>9
  <2>3. longest = Append(longer, text)
    BY DEF longest
  <2> QED
    BY <1>2, <1>3, <1>4, <1>5, <1>9, <2>1, <2>2, <2>3, WholeAppended
<1>12. ASSUME NEW s, NEW m, s = status, m = issue
       PROVE  WellWrapped(n, s, m)'
  <2>1. Open(n, m)'
    BY <1>1, <1>2, <1>10, <1>12 DEF Open, Wrapping, Warning
  <2>2. Lines(n, m)' = longest
    BY <1>1, <1>4, <1>10, <1>12, <2>1 DEF Lines, longest
  <2>3. Spoken(s, m)' = Message
    BY <1>1, <1>8, <1>12 DEF Spoken
  <2>4. word' - 1 = word /\ line' # <<>>
    BY <1>1, <1>2, <1>4
  <2>5. Whole(Lines(n, m)', Spoken(s, m)', word' - 1)
    BY <1>11, <2>2, <2>3, <2>4
  <2> QED
    BY <2>1, <2>4, <2>5 DEF WellWrapped
<1> QED
  BY <1>1, <1>12, OthersStayWrapped

(* The word is put on the line behind the others.                          *)
LEMMA WrappedAppendWord == Base /\ Listed /\ Wrapped /\ AppendWord => Wrapped'
<1> SUFFICES ASSUME Base, Listed, Wrapped, AppendWord PROVE Wrapped'
  OBVIOUS
<1> PICK item : item = [word |-> word, at |-> End(line, Message) + Separator]
  OBVIOUS
<1> DEFINE text == Append(line, item)
<1>1. /\ Message' = Message /\ UNCHANGED <<report, stage, status, issue, blocks>>
      /\ Wrapping /\ word > 0 /\ word <= Len(Message) /\ ~StartsLine
      /\ line' = Append(line, [word |-> word, at |-> End(line, Message) + Separator])
      /\ word' = word + 1 /\ statuses' = statuses
  BY SameIssue DEF AppendWord, Wrapping
<1>2. /\ word \in DOMAIN Message /\ Message[word] \in Nat /\ word \in Nat /\ issue > 0
      /\ line_width = End(line, Message) /\ Separator \in {0, 1} /\ line_width \in Nat
      /\ [word |-> word, at |-> End(line, Message) + Separator] \in Item
  BY <1>1, WordTaken
<1>3. line' = text /\ item \in Item
  BY <1>1, <1>2
<1>4. Message \in Seq(Nat) /\ line \in Seq(Item)
  BY <1>2, MessageFacts DEF Base, TypeOK
<1>5. /\ line_width >= Indent /\ (line_width = Indent => Visible(line, Message) = {})
      /\ (line = <<>> <=> word = 1)
      /\ \A i \in DOMAIN line : line[i].word = word - 1 - Len(line) + i
  BY <1>1 DEF Base, Filling
<1> PICK n : n = Len(blocks)
  OBVIOUS
<1> DEFINE written == blocks[n].groups[issue].lines
           longer == Append(written, text)
<1>6. /\ Len(blocks[n].groups) = issue /\ written \in Seq(Seq(Item))
      /\ line = <<>> => written = <<>>
      /\ line # <<>> => Whole(Append(written, line), Message, word - 1)
      /\ Spoken(status, issue) = Message
  BY <1>1, OpenLabel
<1> HIDE DEF written, longer
<1>7. line # <<>> =>
        /\ LineOK(line, Message)
        /\ \A k \in DOMAIN written : LineOK(written[k], Message)
        /\ written # <<>> => written[1][1].word = 1
        /\ \A k \in 2 .. Len(written) : Follows(written, k, Message)
        /\ written = <<>> => line[1].word = 1
        /\ written # <<>> =>
             /\ line[1].word = LastWord(written[Len(written)]) + 1
             /\ End(written[Len(written)], Message) + 1 + Message[line[1].word] > MaxWidth
  BY <1>4, <1>6, WholeSplit
<1>8. /\ LineOK(text, Message) /\ LastWord(text) = word
      /\ line = <<>> => text[1].word = word
      /\ line # <<>> => text[1].word = line[1].word
  <2> PICK sep : sep = Separator
    OBVIOUS
  <2>1. sep = IF End(line, Message) > Indent THEN 1 ELSE 0
    BY <1>2 DEF Separator
  <2>2. ~(End(line, Message) > Indent /\ End(line, Message) + sep + Message[word] > MaxWidth)
    BY <1>1, <1>2 DEF StartsLine
  <2>3. line # <<>> => LineOK(line, Message)
    BY <1>7
  <2>4. PICK longest : /\ longest = Append(line, [word |-> word, at |-> End(line, Message) + sep])
                       /\ text = longest
    OBVIOUS
  <2> HIDE DEF text
  <2>5. /\ Message \in Seq(Nat) /\ word \in DOMAIN Message /\ line \in Seq(Item)
    BY <1>2, <1>4
  <2>6. Joins(line, Message, word, sep)
    BY <1>2, <1>5, <2>1, <2>2, <2>3 DEF Joins
  <2>7. Joined(longest, line, Message, word)
    BY <2>4, <2>5, <2>6, WordAppended
  <2> QED
    BY <2>4, <2>7 DEF Joined
<1>9. text \in Seq(Item) /\ text # <<>>
  BY <1>3, <1>4
<1> HIDE DEF text
<1>10. Whole(longer, Message, word)
  <2>1. longer = Append(written, text)
    BY DEF longer
  <2>2. CASE line = <<>>
    <3>1. written = <<>> /\ word = 1
      BY <1>5, <1>6, <2>2
    <3>2. DOMAIN written = {} /\ 2 .. Len(written) = {}
      BY <3>1
    <3> QED
      BY <1>2, <1>4, <1>6, <1>8, <1>9, <2>1, <2>2, <3>1, <3>2, WholeAppended
  <2>3. CASE line # <<>>
    BY <1>2, <1>4, <1>6, <1>7, <1>8, <1>9, <2>1, <2>3, WholeAppended
  <2> QED
    BY <2>2, <2>3
<1>11. ASSUME NEW s, NEW m, s = status, m = issue
       PROVE  WellWrapped(n, s, m)'
  <2>1. Open(n, m)'
    BY <1>1, <1>2, <1>6, <1>11 DEF Open, Wrapping, Warning
  <2>2. blocks'[n].groups[m].lines = written
    BY <1>1, <1>11 DEF written
  <2>3. Lines(n, m)' = longer
    BY <1>3, <1>9, <2>1, <2>2 DEF Lines, longer
  <2>4. Spoken(s, m)' = Message
    BY <1>1, <1>6, <1>11 DEF Spoken
  <2>5. word' - 1 = word /\ line' # <<>>
    BY <1>1, <1>2, <1>3, <1>9
  <2>6. Whole(Lines(n, m)', Spoken(s, m)', word' - 1)
    BY <1>10, <2>3, <2>4, <2>5
  <2> QED
    BY <2>1, <2>5, <2>6 DEF WellWrapped
<1> QED
  BY <1>1, <1>11, OthersStayWrapped

(* The last line is written, unless nothing on it can be seen.             *)
LEMMA WrappedEndMessage == Base /\ Listed /\ Wrapped /\ EndMessage => Wrapped'
<1> SUFFICES ASSUME Base, Listed, Wrapped, EndMessage PROVE Wrapped'
  OBVIOUS
<1>1. /\ UNCHANGED report /\ statuses' = statuses /\ word' = 0
      /\ Wrapping /\ word > 0 /\ issue > 0 /\ word > Len(Message)
      /\ IF line_width > Indent THEN WriteLine(line) ELSE UNCHANGED blocks
  BY DEF EndMessage, NextStatus, statuses, Wrapping
<1>2. Message \in Seq(Nat) /\ Len(Message) \in Nat /\ line \in Seq(Item)
  BY <1>1, MessageFacts DEF Base, TypeOK
<1>3. word - 1 = Len(Message) /\ word \in Nat
  BY <1>1, <1>2 DEF Base, TypeOK, Placed
<1>4. /\ line_width = End(line, Message) /\ line_width >= Indent /\ line_width \in Nat
      /\ (line_width = Indent => Visible(line, Message) = {})
      /\ Len(line) < word
      /\ \A i \in DOMAIN line : line[i].word = word - 1 - Len(line) + i
  BY <1>1 DEF Base, TypeOK, Filling
<1> PICK n : n = Len(blocks)
  OBVIOUS
<1> PICK m : m = issue
  OBVIOUS
<1> DEFINE written == blocks[n].groups[m].lines
           after == blocks'[n].groups[m].lines
<1>5. /\ Len(blocks[n].groups) = m /\ written \in Seq(Seq(Item))
      /\ line = <<>> => Whole(written, Message, word - 1)
      /\ line # <<>> => Whole(Append(written, line), Message, word - 1)
      /\ Spoken(status, m) = Message
  BY <1>1, OpenLabel
<1>6. Whole(after, Message, Len(Message))
  <2>1. CASE line_width > Indent
    <3>1. line # <<>>
      BY <1>4, <2>1 DEF End, Indent
    <3>2. after = Append(written, line)
      BY <1>1, <1>5, <2>1, LineWritten DEF Base
    <3> QED
      BY <1>3, <1>5, <3>1, <3>2
  <2>2. CASE ~(line_width > Indent)
    <3>1. after = written /\ line_width = Indent
      BY <1>1, <1>4, <2>2 DEF Indent
    <3>2. CASE line = <<>>
      BY <1>3, <1>5, <3>1, <3>2
    <3>3. CASE line # <<>>
      <4> DEFINE taken == Len(Message)
      <4>1. /\ taken \in Nat /\ taken <= Len(Message) /\ Len(line) <= taken
            /\ Whole(Append(written, line), Message, taken)
            /\ \A i \in DOMAIN line : line[i].word = taken - Len(line) + i
        BY <1>2, <1>3, <1>4, <1>5, <3>3
      <4> HIDE DEF taken, written, after
      <4>2. Whole(written, Message, taken)
        BY <1>2, <1>4, <1>5, <3>1, <3>3, <4>1, LastLineDropped
      <4> QED
        BY <3>1, <4>2 DEF taken
    <3> QED
      BY <3>2, <3>3
  <2> QED
    BY <2>1, <2>2
<1>7. ASSUME NEW s, s = status
      PROVE  WellWrapped(n, s, m)'
  <2>1. ~Open(n, m)'
    BY <1>1 DEF Open, Wrapping
  <2>2. Lines(n, m)' = after
    BY <2>1 DEF Lines
  <2>3. Spoken(s, m)' = Message
    BY <1>1, <1>5, <1>7 DEF Spoken
  <2> HIDE DEF after
  <2>4. Whole(Lines(n, m)', Spoken(s, m)', Len(Spoken(s, m)'))
    BY <1>6, <2>2, <2>3
  <2> QED
    BY <2>1, <2>4 DEF WellWrapped
<1> QED
  BY <1>1, <1>7, OthersStayWrapped

LEMMA WrappedStep == Base /\ Listed /\ Wrapped /\ [Next]_vars => Wrapped'
<1> SUFFICES ASSUME Base, Listed, Wrapped, [Next]_vars PROVE Wrapped'
  OBVIOUS
<1>1. word = 0 \/ (issue > 0 /\ Warning /\ stage = "warnings" /\ status <= Len(statuses))
  BY MessageFacts DEF Base, TypeOK, Placed
<1>2. CASE RenderTable \/ EndWarnings \/ WriteTiming
  <2>1. stage # "warnings" \/ status > Len(statuses)
    BY <1>2 DEF RenderTable, EndWarnings, WriteTiming
  <2>2. UNCHANGED <<report, word, blocks>>
    BY <1>2 DEF RenderTable, EndWarnings, WriteTiming, warnVars
  <2>3. word = 0
    BY <1>1, <2>1, StatusFacts DEF Base, TypeOK
  <2> QED
    BY <2>2, <2>3, QuietlyWrapped
<1>3. CASE SkipStatus
  <2>1. word = 0 /\ word' = 0 /\ UNCHANGED <<report, blocks>>
    BY <1>3 DEF SkipStatus, NextStatus, Base, Placed
  <2> QED
    BY <2>1, QuietlyWrapped
<1>4. CASE WriteHeading
  <2> DEFINE new == [path |-> statuses[status].path, apart |-> blocks # <<>>, groups |-> <<>>]
  <2>1. /\ word = 0 /\ word' = 0 /\ UNCHANGED report /\ blocks' = Append(blocks, new)
        /\ new.groups = <<>>
    BY <1>4 DEF WriteHeading, Base, Placed
  <2> HIDE DEF new
  <2>2. \A b \in DOMAIN blocks' :
          (b \in DOMAIN blocks /\ blocks'[b] = blocks[b]) \/ blocks'[b] = new
    BY <2>1 DEF Base, TypeOK
  <2>3. \A b \in DOMAIN blocks' : \A g \in DOMAIN blocks'[b].groups :
          b \in DOMAIN blocks /\ blocks'[b] = blocks[b]
    BY <2>1, <2>2
  <2> QED
    BY <2>1, <2>3, QuietlyWrapped
<1>5. CASE UNCHANGED vars
  <2>1. UNCHANGED <<report, stage, status, issue, word, line, blocks>>
    BY <1>5 DEF vars, warnVars
  <2> QED
    BY <2>1 DEF Wrapped, WellWrapped, Lines, Spoken, Open, Wrapping, Warning, statuses
<1> QED
  BY <1>2, <1>3, <1>4, <1>5, WrappedWriteLabel, WrappedBreakLine, WrappedAppendWord,
     WrappedEndMessage DEF Next

LEMMA WrappedAlways == Spec => [](Base /\ Listed /\ Wrapped)
<1>1. Init => Wrapped
  BY DEF Init, Wrapped
<1> QED
  BY <1>1, WrappedStep, BaseAlways, ListedAlways, PTL DEF Spec

(* Whatever the message and wherever write_wrapped is in it, the lines are *)
(* the message, in order and without a loss but of words that cannot be    *)
(* seen at its end; each is at most 100 columns wide or holds one word,    *)
(* and none is broken where the next word would have fitted.               *)
THEOREM WrapsTrue == Spec => []WrapsFaithfully
<1>1. ASSUME Base, Listed, Wrapped PROVE WrapsFaithfully
  <2> SUFFICES ASSUME NEW b \in DOMAIN blocks, NEW g \in DOMAIN blocks[b].groups,
                      NEW message, message = Source(blocks[b], blocks[b].groups[g])
               PROVE  /\ \A k \in DOMAIN Lines(b, g) : LineOK(Lines(b, g)[k], message)
                      /\ WordsSurvive(Lines(b, g), message, Taken(b, g))
    BY DEF WrapsFaithfully, LineOK
  <2>1. PICK i \in DOMAIN statuses :
          /\ blocks[b].path = statuses[i].path
          /\ Source(blocks[b], blocks[b].groups[g]) = Spoken(i, g)
    BY <1>1, LabelFacts DEF Spoken
  <2>2. WellWrapped(b, i, g)
    BY <1>1, <2>1 DEF Wrapped
  <2>3. Whole(Lines(b, g), message, Taken(b, g))
    BY <2>1, <2>2 DEF WellWrapped, Taken
  <2> QED
    BY <2>3 DEF Whole
<1> QED
  BY <1>1, WrappedAlways, PTL
===============================================================================
