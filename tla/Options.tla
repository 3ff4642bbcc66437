-------------------------------- MODULE Options --------------------------------
(***************************************************************************)
(* parse_options of the C++ port, one step per argument, against           *)
(* parseOptions of the Go CLI, which leaves the options to package flag.   *)
(* An argument is a word; IsOption and the sets below say how it reads.    *)
(***************************************************************************)
EXTENDS Integers, Sequences

CONSTANTS
  CommandLines,    \* the argument lists to parse
  DefaultWorkers,  \* 4 .. 32, from the number of processors
  UintMax          \* the greatest unsigned int, less in a run

ASSUME OptionsAssumption ==
  /\ CommandLines \subseteq Seq(STRING)
  /\ DefaultWorkers \in 4 .. 32
  /\ UintMax \in Nat /\ UintMax >= 32

VARIABLES
  arguments,
  index,           \* the next argument, from 1
  options_ended,
  root_set,
  options,         \* the Options built so far
  outcome          \* "parsing", then "run", "help" or "invalid"

vars == <<arguments, index, options_ended, root_set, options, outcome>>

-------------------------------------------------------------------------------
(* Mutated forms, each the bug its name says; no specification uses them.  *)

ValidWorkers_ZeroToo(n) == n \in 0 .. UintMax
SecondRoot_Allowed == FALSE

-------------------------------------------------------------------------------
Invalid == -1

(* What from_chars makes of a whole word: decimal digits and nothing else. *)
(* The longest stands for every number beyond unsigned int.                *)
FromChars(word) ==
  CASE word = "0" -> 0 [] word = "3" -> 3 [] word = "12" -> 12 [] word = "010" -> 10
    [] word = "5000000000" -> UintMax + 1 [] OTHER -> Invalid

HelpWords == {"-h", "--help"}
DirtyWords == {"-d", "--dirty-only"}
WorkerWords == {"-j", "--workers"}
Joined ==
  [w \in {"-j=3", "-j=010", "--workers=0"} |->
     CASE w = "-j=3" -> "3" [] w = "-j=010" -> "010" [] OTHER -> "0"]
UnknownWords == {"-x", "-"}

(* The words that start with a dash.                                       *)
IsOption(word) ==
  word \in HelpWords \cup DirtyWords \cup WorkerWords \cup DOMAIN Joined \cup UnknownWords
             \cup {"--", "--no-color"}

Defaults == [dirty_only |-> FALSE, no_color |-> FALSE, workers |-> DefaultWorkers, root |-> "."]

Init ==
  /\ arguments \in CommandLines
  /\ index = 1
  /\ options_ended = FALSE /\ root_set = FALSE
  /\ options = Defaults
  /\ outcome = "parsing"

Argument == arguments[index]

Reading == outcome = "parsing" /\ index <= Len(arguments)
ReadingOption == Reading /\ ~options_ended

End(how) == outcome' = how /\ UNCHANGED <<index, options_ended, root_set, options>>

Advance(n) == index' = index + n /\ UNCHANGED outcome

EndOfOptions ==
  /\ ReadingOption /\ Argument = "--"
  /\ options_ended' = TRUE
  /\ Advance(1)
  /\ UNCHANGED <<arguments, root_set, options>>

Help ==
  /\ ReadingOption /\ Argument \in HelpWords
  /\ End("help")
  /\ UNCHANGED arguments

Switch ==
  /\ ReadingOption
  /\ \/ /\ Argument \in DirtyWords
        /\ options' = [options EXCEPT !.dirty_only = TRUE]
     \/ /\ Argument = "--no-color"
        /\ options' = [options EXCEPT !.no_color = TRUE]
  /\ Advance(1)
  /\ UNCHANGED <<arguments, options_ended, root_set>>

ValidWorkers(n) == n \in 1 .. UintMax

JoinedLength == 1

SetWorkers(word, length) ==
  IF ValidWorkers(FromChars(word))
  THEN /\ options' = [options EXCEPT !.workers = FromChars(word)]
       /\ Advance(length)
       /\ UNCHANGED <<options_ended, root_set>>
  ELSE End("invalid")

Workers ==
  /\ ReadingOption
  /\ \/ /\ Argument \in WorkerWords
        /\ IF index = Len(arguments) THEN End("invalid") ELSE SetWorkers(arguments[index + 1], 2)
     \/ /\ Argument \in DOMAIN Joined
        /\ SetWorkers(Joined[Argument], JoinedLength)
  /\ UNCHANGED arguments

UnknownOption ==
  /\ ReadingOption /\ Argument \in UnknownWords
  /\ End("invalid")
  /\ UNCHANGED arguments

SecondRoot == root_set

Directory ==
  /\ Reading
  /\ options_ended \/ ~IsOption(Argument)
  /\ IF SecondRoot
     THEN End("invalid")
     ELSE /\ options' = [options EXCEPT !.root = Argument]
          /\ root_set' = TRUE
          /\ Advance(1)
          /\ UNCHANGED options_ended
  /\ UNCHANGED arguments

Finish ==
  /\ outcome = "parsing" /\ index > Len(arguments)
  /\ End("run")
  /\ UNCHANGED arguments

Next ==
  EndOfOptions \/ Help \/ Switch \/ Workers \/ UnknownOption \/ Directory \/ Finish

Spec == Init /\ [][Next]_vars /\ WF_vars(Next)

-------------------------------------------------------------------------------
(* Package flag: external. From left to right it takes options, up to the  *)
(* first word that is none or that it cannot take, or up to "--";          *)
(* parseOptions then looks at what is left.                                *)

(* strconv.ParseInt in base 0: a sign is allowed, a leading 0 makes the    *)
(* number octal, and an int holds more than an unsigned int.               *)
ParseInt(word) ==
  CASE word = "+3" -> 3 [] word = "010" -> 8 [] OTHER -> FromChars(word)

(* A dash alone is no flag but an argument.                                *)
IsFlag(word) == IsOption(word) /\ word # "-"

(* How many words it takes at place i, 0 if it stops there.                *)
Takes(args, i) ==
  IF i > Len(args) THEN 0
  ELSE IF args[i] \in DirtyWords \cup {"--no-color"} THEN 1
  ELSE IF args[i] \in DOMAIN Joined /\ ParseInt(Joined[args[i]]) # Invalid THEN 1
  ELSE IF args[i] \in WorkerWords /\ i < Len(args) /\ ParseInt(args[i + 1]) # Invalid THEN 2
  ELSE 0

(* The places it comes to: the least set with the first and, after each    *)
(* place where it takes something, the next.                               *)
Places(args) ==
  LET Place == 1 .. Len(args) + 1
      Closed(S) == 1 \in S /\ \A i \in S : Takes(args, i) > 0 => i + Takes(args, i) \in S
  IN  {i \in Place : \A S \in SUBSET Place : Closed(S) => i \in S}

Taken(args) == {i \in Places(args) : Takes(args, i) > 0}
Stop(args) == CHOOSE i \in Places(args) : Takes(args, i) = 0

Settings(args) == {i \in Taken(args) : args[i] \in WorkerWords \cup DOMAIN Joined}
Setting(args, i) ==
  ParseInt(IF args[i] \in WorkerWords THEN args[i + 1] ELSE Joined[args[i]])

(* A later setting replaces an earlier one.                                *)
GoWorkers(args) ==
  IF Settings(args) = {} THEN DefaultWorkers
  ELSE Setting(args, CHOOSE i \in Settings(args) : \A j \in Settings(args) : j <= i)

GoFlags(args) ==
  LET stop == Stop(args)
      ended == stop <= Len(args) /\ args[stop] = "--"
  IN  [outcome |-> IF stop > Len(args) \/ ended \/ ~IsFlag(args[stop]) THEN "run"
                   ELSE IF args[stop] \in HelpWords THEN "help" ELSE "invalid",
       rest |-> IF ended THEN stop + 1 ELSE stop,
       opts |-> [dirty_only |-> \E i \in Taken(args) : args[i] \in DirtyWords,
                 no_color |-> \E i \in Taken(args) : args[i] = "--no-color",
                 workers |-> GoWorkers(args)]]

GoParse(args) ==
  LET flags == GoFlags(args)
      left == Len(args) + 1 - flags.rest
      result == [dirty_only |-> flags.opts.dirty_only, no_color |-> flags.opts.no_color,
                 workers |-> flags.opts.workers,
                 root |-> IF left = 1 THEN args[flags.rest] ELSE "."]
  IN  IF flags.outcome # "run" THEN [outcome |-> flags.outcome, options |-> Defaults]
      ELSE IF left > 1 \/ flags.opts.workers < 1
      THEN [outcome |-> "invalid", options |-> Defaults]
      ELSE [outcome |-> "run", options |-> result]

-------------------------------------------------------------------------------
(* The usage line of both: [options] [directory]. Options come first; a    *)
(* number of workers is positive, decimal, without sign or leading zero,   *)
(* and an unsigned int holds it; a directory called "-" comes after "--".  *)
(* Other numbers, and a dash alone, the two programs read differently.     *)
PlainNumbers == {"3", "12"}

ByUsage(args) ==
  /\ \A i, j \in DOMAIN args :
       /\ i < j /\ ~IsOption(args[i]) /\ IsOption(args[j])
       => \/ i > 1 /\ args[i - 1] \in WorkerWords
          \/ \E k \in 1 .. i : args[k] = "--"
  /\ \A i \in DOMAIN args : args[i] = "-" => \E k \in 1 .. i - 1 : args[k] = "--"
  /\ \A i \in DOMAIN args :
       /\ args[i] \in WorkerWords => i < Len(args) /\ args[i + 1] \in PlainNumbers
       /\ args[i] \in DOMAIN Joined => Joined[args[i]] \in PlainNumbers

SameAsGo ==
  LET go == GoParse(arguments)
  IN  outcome = go.outcome /\ (outcome = "run" => options = go.options)

(* cpp/README.md:3: on a command line that follows the usage, the port     *)
(* does what the Go CLI does: the same options, the same exit code 0 or 2. *)
MirrorsGoByUsage == outcome # "parsing" /\ ByUsage(arguments) => SameAsGo

(* No command line gets past the parser with no worker at all, with more   *)
(* than an unsigned int holds, or with an option taken for the directory,  *)
(* unless it stands behind a "--".                                         *)
SoundOptions ==
  outcome = "run" =>
    /\ options.workers \in 1 .. UintMax
    /\ IsOption(options.root) =>
         \E i, j \in DOMAIN arguments :
           i < j /\ arguments[i] = "--" /\ arguments[j] = options.root

===============================================================================
