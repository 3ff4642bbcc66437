-------------------------------- MODULE Output --------------------------------
(***************************************************************************)
(* What run_cli prints once the repositories are checked: the table, the   *)
(* warnings of the failed checks, wrapped word by word, and the timing.    *)
(* A text is the width utf8_width gives it; a message is the sequence of   *)
(* the widths of its words. Colours, which take no column, are left out.   *)
(***************************************************************************)
EXTENDS Integers, Sequences, FiniteSets, Functions

CONSTANTS
  Reports,   \* what there is to print: [statuses, dirty_only, elapsed]
  NoError    \* the error of a check that did not fail

VARIABLES
  report,
  stage,       \* "table", "warnings", "timing" or "done"
  table,       \* the lines of the table, the rule under the header left out
  rule,        \* the width of that rule
  status,      \* write_check_warnings: the status it is at,
  issue,       \* the issue of that status, 0 before the heading,
  word,        \* the word of that issue, 0 before the label
  line,        \* write_wrapped: the line it builds,
  line_width,  \* and the width it holds it to have
  blocks,      \* the warnings written: one block per repository
  count,
  timing       \* the three durations printed

warnVars == <<status, issue, word, line, line_width, blocks, count>>
vars == <<report, stage, table, rule, warnVars, timing>>

statuses == report.statuses

(* What the other components make: one status per repository, an upstream  *)
(* in error exactly if its check failed, and times that are not negative.  *)
RepositoryStatus ==
  [path : STRING, path_width : Nat, remote_url : Nat, has_remote : BOOLEAN, dirty : BOOLEAN,
   upstream_state : {"ok", "missing", "detached", "error"}, ahead : Int,
   remote_error : {NoError} \cup Seq(Nat), worktree_error : {NoError} \cup Seq(Nat),
   upstream_error : {NoError} \cup Seq(Nat)]

Duration == {d \in [ms : Nat, ns : Nat] : d.ns < 1000000}

ASSUME ReportsAssumption ==
  \A r \in Reports :
    /\ r.statuses \in Seq(RepositoryStatus)
    /\ \A i, j \in DOMAIN r.statuses : r.statuses[i].path = r.statuses[j].path => i = j
    /\ \A i \in DOMAIN r.statuses :
         r.statuses[i].upstream_state = "error" <=> r.statuses[i].upstream_error # NoError
    /\ r.dirty_only \in BOOLEAN
    /\ r.elapsed \in Seq(Duration)

Indent == 4
MaxWidth == 100
NoDuration == <<>>

-------------------------------------------------------------------------------
(* Mutated forms, here and below each the bug its name says; no            *)
(* specification uses them.                                                *)
AddIssue_ForgetsTheCheck(issues, check, error) ==
  IF error = NoError \/ \E i \in DOMAIN issues : issues[i].message = error
  THEN issues ELSE Append(issues, [checks |-> <<check>>, message |-> error])
NeedsAttention_ErrorsAreNone(s) == s.dirty \/ s.ahead > 0 \/ ~s.has_remote
Column_OfStatuses(column, rows) ==
  LET widths == {rows[i][column].width : i \in 2 .. Len(rows)}
  IN CHOOSE w \in widths : \A v \in widths : v <= w
Rounded_Truncates(d) == d.ms

-------------------------------------------------------------------------------
(* RepositoryStatus::issues: one issue per message, with the checks that   *)
(* failed with it.                                                         *)
AddIssue(issues, check, error) ==
  LET same == {i \in DOMAIN issues : issues[i].message = error}
  IN IF error = NoError THEN issues
     ELSE IF same # {}
          THEN [i \in DOMAIN issues |->
                  IF i \in same THEN [issues[i] EXCEPT !.checks = Append(@, check)]
                  ELSE issues[i]]
          ELSE Append(issues, [checks |-> <<check>>, message |-> error])

Issues(s) ==
  AddIssue(AddIssue(AddIssue(<<>>, "remote", s.remote_error),
                    "worktree", s.worktree_error),
           "upstream", s.upstream_error)

NeedsAttention(s) ==
  \/ s.dirty \/ s.ahead > 0 \/ ~s.has_remote
  \/ s.remote_error # NoError \/ s.worktree_error # NoError \/ s.upstream_error # NoError

-------------------------------------------------------------------------------
Cell(text, width) == [text |-> text, width |-> width]

ErrorCell == Cell("Error", 5)

(* The length of std::to_string of a positive int.                         *)
Digits(n) == Cardinality({k \in 0 .. 9 : n >= 10 ^ k})

RemoteCell(s) ==
  CASE s.remote_error # NoError -> ErrorCell
    [] s.remote_error = NoError /\ ~s.has_remote -> Cell("No_Remote", 9)
    [] s.remote_error = NoError /\ s.has_remote ->
         IF s.remote_url = 0 THEN Cell("Configured", 10) ELSE Cell("url", s.remote_url)

WorktreeCell(s) ==
  IF s.worktree_error # NoError THEN ErrorCell
  ELSE IF s.dirty THEN Cell("Dirty", 5) ELSE Cell("Clean", 5)

UnpushedCell(s) ==
  IF s.upstream_error # NoError \/ s.upstream_state = "error" THEN ErrorCell
  ELSE CASE s.upstream_state = "detached" -> Cell("Detached_HEAD", 13)
         [] s.upstream_state = "missing" -> Cell("No_Upstream", 11)
         [] s.upstream_state = "ok" /\ s.ahead < 1 -> Cell("OK", 2)
         [] s.upstream_state = "ok" /\ s.ahead = 1 -> Cell("1_commit_ahead", 14)
         [] s.upstream_state = "ok" /\ s.ahead > 1 -> Cell("commits_ahead", Digits(s.ahead) + 14)

StatusRow(s) == <<Cell(s.path, s.path_width), RemoteCell(s), WorktreeCell(s), UnpushedCell(s)>>

Header == <<Cell("REPOSITORY", 10), Cell("REMOTE", 6), Cell("WORKTREE", 8), Cell("UNPUSHED", 8)>>

Column(column, rows) ==
  LET widths == {rows[i][column].width : i \in DOMAIN rows}
  IN CHOOSE w \in widths : \A v \in widths : v <= w

(* One row as it is printed: where each cell starts, every cell but the    *)
(* last filled up with blanks to the width of its column and two more.     *)
Printed(row, rows) ==
  LET Filled(c) == row[c].width + (Column(c, rows) - row[c].width + 2)
      starts == <<0, Filled(1), Filled(1) + Filled(2), Filled(1) + Filled(2) + Filled(3)>>
  IN [c \in 1 .. 4 |-> [at |-> starts[c], text |-> row[c].text, width |-> row[c].width]]

(* The places of the statuses the table shows, and these in their order.   *)
Kept == {i \in DOMAIN statuses : report.dirty_only => NeedsAttention(statuses[i])}

InOrder(S) ==
  CHOOSE order \in [1 .. Cardinality(S) -> S] :
    \A i, j \in 1 .. Cardinality(S) : i < j => order[i] < order[j]

Displayed == [i \in 1 .. Cardinality(Kept) |-> statuses[InOrder(Kept)[i]]]

Rows ==
  [i \in 1 .. Len(Displayed) + 1 |-> IF i = 1 THEN Header ELSE StatusRow(Displayed[i - 1])]

RuleWidth == Column(1, Rows) + Column(2, Rows) + Column(3, Rows) + Column(4, Rows) + 2 * 3

(* "No repositories need attention." stands for an empty table.            *)
RenderTable ==
  /\ stage = "table"
  /\ stage' = "warnings"
  /\ IF Displayed = <<>> THEN UNCHANGED <<table, rule>>
     ELSE /\ table' = [i \in DOMAIN Rows |-> Printed(Rows[i], Rows)]
          /\ rule' = RuleWidth
  /\ UNCHANGED <<report, warnVars, timing>>

-------------------------------------------------------------------------------
(* write_check_warnings.                                                   *)
IssuesHere == Issues(statuses[status])
Message == IssuesHere[issue].message

Warning == stage = "warnings" /\ status <= Len(statuses)
Wrapping == Warning /\ issue > 0 /\ word > 0

NextStatus == status' = status + 1 /\ issue' = 0 /\ word' = 0

SkipStatus ==
  /\ Warning /\ issue = 0 /\ IssuesHere = <<>>
  /\ NextStatus
  /\ UNCHANGED <<report, stage, table, rule, line, line_width, blocks, count, timing>>

WriteHeading ==
  /\ Warning /\ issue = 0 /\ IssuesHere # <<>>
  /\ blocks' = Append(blocks, [path |-> statuses[status].path, apart |-> blocks # <<>>,
                               groups |-> <<>>])
  /\ issue' = 1
  /\ UNCHANGED <<report, stage, table, rule, status, word, line, line_width, count, timing>>

WriteLabel ==
  /\ Warning /\ issue > 0 /\ word = 0
  /\ blocks' = [blocks EXCEPT ![Len(blocks)].groups =
                  Append(@, [checks |-> IssuesHere[issue].checks, lines |-> <<>>])]
  /\ word' = 1
  /\ line' = <<>> /\ line_width' = Indent
  /\ UNCHANGED <<report, stage, table, rule, status, issue, count, timing>>

(* write_wrapped. A line is the words it holds, by their place in the      *)
(* message, each with the column it is written at.                         *)
EndOf(item, message) == item.at + message[item.word]

End(text, message) == IF text = <<>> THEN Indent ELSE EndOf(text[Len(text)], message)

WriteLine(text) ==
  LET last == Len(blocks[Len(blocks)].groups)
  IN blocks' = [blocks EXCEPT ![Len(blocks)].groups[last].lines = Append(@, text)]

StartsLine_SeparatorFree == line_width > Indent /\ line_width + Message[word] > MaxWidth

Separator == IF line_width > Indent THEN 1 ELSE 0
StartsLine ==
  line_width > Indent /\ line_width + Separator + Message[word] > MaxWidth

BreakLine ==
  /\ Wrapping /\ word <= Len(Message) /\ StartsLine
  /\ WriteLine(line)
  /\ line' = <<[word |-> word, at |-> Indent]>>
  /\ line_width' = Indent + Message[word]
  /\ word' = word + 1
  /\ UNCHANGED <<report, stage, table, rule, status, issue, count, timing>>

AppendWord ==
  /\ Wrapping /\ word <= Len(Message) /\ ~StartsLine
  /\ line' = Append(line, [word |-> word, at |-> End(line, Message) + Separator])
  /\ line_width' = line_width + Separator + Message[word]
  /\ word' = word + 1
  /\ UNCHANGED <<report, stage, table, rule, status, issue, blocks, count, timing>>

EndMessage ==
  /\ Wrapping /\ word > Len(Message)
  /\ IF line_width > Indent THEN WriteLine(line) ELSE UNCHANGED blocks
  /\ count' = count + 1
  /\ IF issue < Len(IssuesHere)
     THEN issue' = issue + 1 /\ word' = 0 /\ UNCHANGED status
     ELSE NextStatus
  /\ UNCHANGED <<report, stage, table, rule, line, line_width, timing>>

EndWarnings ==
  /\ stage = "warnings" /\ status > Len(statuses)
  /\ stage' = "timing"
  /\ UNCHANGED <<report, table, rule, warnVars, timing>>

-------------------------------------------------------------------------------
(* format_duration. A duration is its whole milliseconds and the           *)
(* nanoseconds left; a text is a sequence of numbers with their units.     *)
Part(number, unit) == [number |-> number, fraction |-> <<>>, unit |-> unit]

Fraction(f) ==
  LET tenths == f \div 100
      hundredths == (f \div 10) % 10
      thousandths == f % 10
  IN IF f = 0 THEN <<>>
     ELSE IF thousandths # 0 THEN <<tenths, hundredths, thousandths>>
     ELSE IF hundredths # 0 THEN <<tenths, hundredths>>
     ELSE <<tenths>>

SecondsComponent(ms) ==
  [number |-> ms \div 1000, fraction |-> Fraction(ms % 1000), unit |-> "s"]

Rounded(d) == IF d.ns >= 500000 THEN d.ms + 1 ELSE d.ms

FormatDuration(d) ==
  LET ms == Rounded(d)
      hours == ms \div 3600000
      minutes == (ms % 3600000) \div 60000
      clock == <<Part(minutes, "m"), SecondsComponent((ms % 3600000) % 60000)>>
  IN IF d = [ms |-> 0, ns |-> 0] THEN <<Part(0, "s")>>
     ELSE IF d.ms = 0 THEN <<Part(1, "under_ms")>>
     ELSE IF ms < 1000 THEN <<Part(ms, "ms")>>
     ELSE IF ms < 60000 THEN <<SecondsComponent(ms)>>
     ELSE IF hours > 0 THEN <<Part(hours, "h"), clock[1], clock[2]>> ELSE clock

WriteTiming ==
  /\ stage = "timing"
  /\ timing' = [i \in DOMAIN report.elapsed |-> FormatDuration(report.elapsed[i])]
  /\ stage' = "done"
  /\ UNCHANGED <<report, table, rule, warnVars>>

-------------------------------------------------------------------------------
Init ==
  /\ report \in Reports
  /\ stage = "table"
  /\ table = <<>> /\ rule = 0
  /\ status = 1 /\ issue = 0 /\ word = 0
  /\ line = <<>> /\ line_width = Indent
  /\ blocks = <<>> /\ count = 0
  /\ timing = NoDuration

Next ==
  \/ RenderTable
  \/ SkipStatus \/ WriteHeading \/ WriteLabel
  \/ BreakLine \/ AppendWord \/ EndMessage \/ EndWarnings
  \/ WriteTiming

Spec == Init /\ [][Next]_vars

-------------------------------------------------------------------------------
Checks == {"remote", "worktree", "upstream"}

Error(s, check) ==
  CASE check = "remote" -> s.remote_error
    [] check = "worktree" -> s.worktree_error
    [] check = "upstream" -> s.upstream_error

Failed(s) == {c \in Checks : Error(s, c) # NoError}

(* The status a path stands for, and the message under a label.            *)
Position(path) == CHOOSE i \in DOMAIN statuses : statuses[i].path = path
StatusAt(path) == statuses[Position(path)]
Source(b, g) == Error(StatusAt(b.path), g.checks[1])

Labels == {p \in (DOMAIN blocks) \X (1 .. 3) : p[2] \in DOMAIN blocks[p[1]].groups}

(* The lines under a label: those written, and the one being filled.       *)
Open(b, g) == Wrapping /\ b = Len(blocks) /\ g = Len(blocks[b].groups)

Lines(b, g) ==
  LET written == blocks[b].groups[g].lines
  IN IF Open(b, g) /\ line # <<>> THEN Append(written, line) ELSE written

Taken(b, g) == IF Open(b, g) THEN word - 1 ELSE Len(Source(blocks[b], blocks[b].groups[g]))

Visible(text, message) == {i \in DOMAIN text : message[text[i].word] > 0}

(* A wrapped line starts behind the indent and is at most 100 columns wide *)
(* unless one word alone is wider (tests.cpp:204 asks it of one message of *)
(* short words): what line_width holds it to be is what is printed.        *)
LineFits(text, message) ==
  /\ text[1].at = Indent
  /\ \/ End(text, message) <= MaxWidth
     \/ \A i, j \in Visible(text, message) : i = j

(* Its words follow each other in the message, and any two that can be     *)
(* seen are parted: there is one blank before the second.                  *)
WordsParted(text, message) ==
  /\ \A i \in 2 .. Len(text) : text[i].word = text[i - 1].word + 1
  /\ \A i, j \in Visible(text, message) :
       i < j => text[j].at = EndOf(text[j - 1], message) + 1

(* The lines hold the message up to the word reached: the next line goes   *)
(* on where the last one ended, with a word that did not fit there, and    *)
(* the only words left out are invisible ones at the end of the message.   *)
WordsSurvive(texts, message, taken) ==
  LET last(k) == texts[k][Len(texts[k])].word
      end == IF texts = <<>> THEN 0 ELSE last(Len(texts))
  IN /\ texts # <<>> => texts[1][1].word = 1
     /\ \A k \in 2 .. Len(texts) :
          /\ texts[k][1].word = last(k - 1) + 1
          /\ End(texts[k - 1], message) + 1 + message[texts[k][1].word] > MaxWidth
     /\ end <= taken
     /\ \A i \in end + 1 .. taken : message[i] = 0

(* A wrapped message is the message, on lines that fit, at every moment.   *)
WrapsFaithfully ==
  \A b \in DOMAIN blocks : \A g \in DOMAIN blocks[b].groups :
    LET message == Source(blocks[b], blocks[b].groups[g])
    IN /\ \A k \in DOMAIN Lines(b, g) :
            /\ Lines(b, g)[k] # <<>>
            /\ LineFits(Lines(b, g)[k], message)
            /\ WordsParted(Lines(b, g)[k], message)
       /\ WordsSurvive(Lines(b, g), message, Taken(b, g))

(* Once the warnings are written, each failed check of each repository     *)
(* stands in exactly one label, over the message it failed with; a message *)
(* is given once per repository; nothing else is warned of; repositories   *)
(* come in their order, with a blank line between any two of them, however *)
(* many between them are fine; and the count, which decides the exit code, *)
(* is the number of labels.                                                *)
EveryErrorListedOnce ==
  stage \in {"timing", "done"} =>
    /\ \A i \in DOMAIN statuses :
         Failed(statuses[i]) # {} <=> \E b \in DOMAIN blocks : blocks[b].path = statuses[i].path
    /\ \A a, b \in DOMAIN blocks :
         a < b => Position(blocks[a].path) < Position(blocks[b].path)
    /\ \A b \in DOMAIN blocks :
         LET s == StatusAt(blocks[b].path)
             groups == blocks[b].groups
         IN /\ blocks[b].apart <=> b > 1
            /\ \A c \in Failed(s) : \E g \in DOMAIN groups : \A h \in DOMAIN groups :
                 c \in Range(groups[h].checks) <=> h = g
            /\ \A g, h \in DOMAIN groups : \A c \in Range(groups[g].checks) :
                 /\ c \in Failed(s)
                 /\ Error(s, c) = Source(blocks[b], groups[h]) <=> g = h
    /\ count = Cardinality(Labels)

(* The table and the warnings tell the same story: a check has an Error    *)
(* cell exactly if it is in a label under that repository, and no warning  *)
(* is about a repository that --dirty-only has left out of the table.      *)
ColumnOf(check) ==
  CASE check = "remote" -> 2 [] check = "worktree" -> 3 [] check = "upstream" -> 4

TableAgreesWithWarnings ==
  stage \in {"timing", "done"} =>
    /\ \A i \in 2 .. Len(table) : \A c \in Checks :
         table[i][ColumnOf(c)].text = "Error" <=>
           \E b \in DOMAIN blocks : \E g \in DOMAIN blocks[b].groups :
             blocks[b].path = table[i][1].text /\ c \in Range(blocks[b].groups[g].checks)
    /\ \A b \in DOMAIN blocks : \E i \in 2 .. Len(table) : table[i][1].text = blocks[b].path

(* A column starts at the same place in every line of the table, header    *)
(* included, two blanks at least after the widest cell before it, and the  *)
(* rule ends where the longest line ends.                                  *)
AlignedColumns ==
  table # <<>> =>
    LET end(printed) == printed[4].at + printed[4].width
    IN /\ \A i, j \in DOMAIN table : \A c \in 1 .. 4 :
            /\ table[i][c].at = table[j][c].at
            /\ c < 4 => table[i][c + 1].at >= table[j][c].at + table[j][c].width + 2
       /\ \A i \in DOMAIN table : end(table[i]) <= rule
       /\ \E i \in DOMAIN table : end(table[i]) = rule

(* The text of a duration reads back as that duration to the nearest       *)
(* millisecond, a half upward, with no number that the next larger unit    *)
(* should hold: never 1000ms, 60s or 60m, on either side of the boundary   *)
(* where rounding changes the unit; and no fraction ends in a zero.        *)
Digit(part, n) == IF n \in DOMAIN part.fraction THEN part.fraction[n] ELSE 0

Thousandths(part) == 100 * Digit(part, 1) + 10 * Digit(part, 2) + Digit(part, 3)

Milliseconds(part) ==
  CASE part.unit = "ms" -> part.number
    [] part.unit = "s" -> 1000 * part.number + Thousandths(part)
    [] part.unit = "m" -> 60000 * part.number
    [] part.unit = "h" -> 3600000 * part.number

ReadBack(text) ==
  LET Of(n) == IF n \in DOMAIN text THEN Milliseconds(text[n]) ELSE 0
  IN Of(1) + Of(2) + Of(3)

ReadsAs(text, d) ==
  IF text[1].unit = "under_ms" THEN Len(text) = 1 /\ d.ms = 0 /\ d.ns > 0
  ELSE /\ Len(text) <= 3
       /\ ReadBack(text) = IF d.ns < 500000 THEN d.ms ELSE d.ms + 1
       /\ \A n \in DOMAIN text :
            LET part == text[n]
            IN /\ part.unit # "h" => part.number < (IF part.unit = "ms" THEN 1000 ELSE 60)
               /\ Len(part.fraction) <= 3
               /\ part.fraction # <<>> => part.fraction[Len(part.fraction)] # 0

DurationsReadBack == \A i \in DOMAIN timing : ReadsAs(timing[i], report.elapsed[i])
===============================================================================
