-------------------------- MODULE WindowsCommandLine --------------------------
(***************************************************************************)
(* The one string CreateProcessW is given: quote_windows_argument of the   *)
(* C++ port, against the rules by which the C runtime of git.exe takes it  *)
(* apart again. A text is a sequence of kinds of characters: "blank" is    *)
(* any the code quotes for, "letter" any that means nothing to either.     *)
(***************************************************************************)
EXTENDS Integers, Sequences

CONSTANTS
  Programs,     \* the paths find_git_executable may return
  Directories   \* the repositories to run git in

Character == {"letter", "blank", "quote", "backslash"}

(* A file of Windows has no quote in its name, and a path of one no        *)
(* backslash at its end; nothing is assumed of a directory.                *)
Path(program) ==
  /\ program \in Seq(Character)
  /\ \A i \in DOMAIN program : program[i] # "quote"
  /\ program # <<>> => program[Len(program)] # "backslash"

ASSUME PathsAssumption ==
  /\ \A program \in Programs : Path(program)
  /\ Directories \subseteq Seq(Character)

Backslashes(n) == [i \in 1 .. n |-> "backslash"]

-------------------------------------------------------------------------------
(* Mutated form: the backslashes before the closing quote stay single.     *)
Close_NotDoubled(s) == s.text \o Backslashes(s.backslashes) \o <<"quote">>

-------------------------------------------------------------------------------
(* The loop of quote_windows_argument: backslashes are held back until     *)
(* what follows them is known.                                             *)
Take(s, character) ==
  CASE character = "backslash" -> [s EXCEPT !.backslashes = @ + 1]
    [] character = "quote" ->
         [text |-> s.text \o Backslashes(2 * s.backslashes + 1) \o <<"quote">>,
          backslashes |-> 0]
    [] OTHER ->
         [text |-> s.text \o Backslashes(s.backslashes) \o <<character>>, backslashes |-> 0]

Close(s) == s.text \o Backslashes(2 * s.backslashes) \o <<"quote">>

(* After i characters; what it starts with is the opening quote.           *)
Taking(argument) ==
  LET taken[i \in 0 .. Len(argument)] ==
        IF i = 0 THEN [text |-> <<"quote">>, backslashes |-> 0]
        ELSE Take(taken[i - 1], argument[i])
  IN taken

Quote(argument) ==
  IF argument # <<>> /\ \A i \in DOMAIN argument : argument[i] \notin {"blank", "quote"}
  THEN argument
  ELSE Close(Taking(argument)[Len(argument)])

Joining(arguments) ==
  LET joined[i \in 0 .. Len(arguments)] ==
        IF i = 0 THEN <<>>
        ELSE IF joined[i - 1] = <<>> THEN Quote(arguments[i])
        ELSE joined[i - 1] \o <<"blank">> \o Quote(arguments[i])
  IN joined

CommandLine(arguments) == Joining(arguments)[Len(arguments)]

-------------------------------------------------------------------------------
(* The C runtime, one character at a time. The first argument, the program *)
(* itself, knows no escapes; in the others 2n backslashes and a quote are  *)
(* n backslashes and a delimiter, 2n + 1 are n and the quote, and a quote  *)
(* after one that would close is a quote and leaves the text quoted.       *)
Blank == [arguments |-> <<>>, text |-> <<>>, open |-> FALSE, mode |-> "plain", backslashes |-> 0]

Program(s) == s.arguments = <<>>

EndArgument(s) ==
  LET text == s.text \o Backslashes(s.backslashes)
  IN IF s.open THEN [Blank EXCEPT !.arguments = Append(s.arguments, text)] ELSE s

Delimiter(s) ==
  LET t == [s EXCEPT !.open = TRUE, !.text = @ \o Backslashes(s.backslashes \div 2),
                     !.backslashes = 0]
  IN IF ~Program(s) /\ s.backslashes % 2 = 1 THEN [t EXCEPT !.text = Append(@, "quote")]
     ELSE CASE s.mode = "plain" -> [t EXCEPT !.mode = "quoted"]
            [] s.mode = "quoted" -> [t EXCEPT !.mode = "closing"]
            [] s.mode = "closing" -> [t EXCEPT !.mode = "quoted", !.text = Append(@, "quote")]

Literal(s, character) ==
  [s EXCEPT !.open = TRUE, !.backslashes = 0,
            !.text = @ \o Backslashes(s.backslashes) \o <<character>>]

Scan(state, character) ==
  LET s == IF state.mode = "closing" /\ character # "quote"
           THEN [state EXCEPT !.mode = "plain"] ELSE state
  IN CASE character = "quote" -> Delimiter(s)
       [] character = "blank" /\ s.mode = "plain" -> EndArgument(s)
       [] character = "backslash" /\ ~Program(s) ->
            [s EXCEPT !.open = TRUE, !.backslashes = @ + 1]
       [] OTHER -> Literal(s, character)

Scanning(line) ==
  LET scanned[i \in 0 .. Len(line)] ==
        IF i = 0 THEN Blank ELSE Scan(scanned[i - 1], line[i])
  IN scanned

Argv(line) == EndArgument(Scanning(line)[Len(line)]).arguments

-------------------------------------------------------------------------------
(* The arguments of one git, of which the path and the directory are not   *)
(* fixed, come out as they went in.                                        *)
ReadsBack ==
  \A program \in Programs, directory \in Directories :
    LET arguments == <<program, <<"letter">>, directory, <<"letter">>>>
    IN Argv(CommandLine(arguments)) = arguments
===============================================================================
