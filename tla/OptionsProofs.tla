---------------------------- MODULE OptionsProofs ----------------------------
(***************************************************************************)
(* Proofs about Options, for command lines of any length and any number of *)
(* processors.                                                             *)
(***************************************************************************)
EXTENDS Options, TLAPS

Typed ==
  /\ arguments \in Seq(STRING) /\ index \in Nat \ {0}
  /\ DOMAIN options = {"dirty_only", "no_color", "workers", "root"}
  /\ options.workers \in 1 .. UintMax

(* A "--" has been read before place n.                                    *)
EndedBefore(n) == \E i \in DOMAIN arguments : i < n /\ arguments[i] = "--"

(* The directory is a word already read, an option only behind a "--".     *)
RootAt(j) ==
  /\ j < index /\ arguments[j] = options.root
  /\ IsOption(options.root) => EndedBefore(j)

RootIsRead ==
  IF root_set THEN \E j \in DOMAIN arguments : RootAt(j) ELSE options.root = "."

IInv ==
  /\ Typed
  /\ options_ended => EndedBefore(index)
  /\ RootIsRead

(* Reading on changes nothing about what has been read.                    *)
LEMMA ReadingOn ==
  ASSUME IInv, NEW n \in Nat, index' = index + n, UNCHANGED arguments,
         options_ended' => options_ended \/ EndedBefore(index + n)
  PROVE  /\ options_ended' => EndedBefore(index)'
         /\ UNCHANGED root_set /\ options'.root = options.root => RootIsRead'
<1>1. DOMAIN arguments = 1 .. Len(arguments) /\ index \in Nat
  BY DEF IInv, Typed
<1>2. options_ended' => EndedBefore(index)'
  BY <1>1 DEF IInv, EndedBefore
<1>3. ASSUME UNCHANGED root_set, options'.root = options.root PROVE RootIsRead'
  <2>1. CASE root_set
    <3>1. PICK j \in DOMAIN arguments : RootAt(j)
      BY <2>1 DEF IInv, RootIsRead
    <3>2. j < index'
      BY <1>1, <3>1 DEF RootAt
    <3>3. RootAt(j)'
      BY <1>3, <3>1, <3>2 DEF RootAt, EndedBefore
    <3> QED
      BY <1>3, <2>1, <3>3 DEF RootIsRead
  <2>2. CASE ~root_set
    BY <1>3, <2>2 DEF IInv, RootIsRead
  <2> QED
    BY <2>1, <2>2
<1> QED
  BY <1>2, <1>3

LEMMA InitIInv == Init => IInv
<1> SUFFICES ASSUME Init PROVE IInv
  OBVIOUS
<1>1. arguments \in Seq(STRING) /\ DefaultWorkers \in 1 .. UintMax
  BY OptionsAssumption DEF Init
<1>2. Typed /\ RootIsRead
  BY <1>1 DEF Init, Typed, Defaults, RootIsRead
<1> QED
  BY <1>2 DEF IInv, Init

LEMMA Here ==
  ASSUME Typed, Reading
  PROVE  index \in DOMAIN arguments
BY DEF Typed, Reading, Argument

(* A step that ends the parsing leaves everything else as it is.           *)
LEMMA Ending ==
  ASSUME IInv, NEW how \in {"run", "help", "invalid"}, End(how), UNCHANGED arguments
  PROVE  IInv'
BY DEF IInv, Typed, End, EndedBefore, RootIsRead, RootAt

LEMMA StepEndOfOptions == ASSUME IInv, EndOfOptions PROVE IInv'
<1>1. /\ Reading /\ Argument = "--" /\ options_ended' = TRUE
      /\ index' = index + 1 /\ UNCHANGED <<arguments, root_set, options, outcome>>
  BY DEF EndOfOptions, ReadingOption, Advance
<1>2. index \in DOMAIN arguments /\ index \in Nat
  BY <1>1, Here DEF IInv, Typed
<1>3. EndedBefore(index + 1)
  BY <1>1, <1>2 DEF EndedBefore, Argument
<1>4. Typed'
  BY <1>1 DEF IInv, Typed
<1> QED
  BY <1>1, <1>3, <1>4, ReadingOn DEF IInv

LEMMA StepSwitch == ASSUME IInv, Switch PROVE IInv'
<1>1. /\ index' = index + 1 /\ UNCHANGED <<arguments, options_ended, root_set, outcome>>
      /\ options' \in {[options EXCEPT !.dirty_only = TRUE], [options EXCEPT !.no_color = TRUE]}
  BY DEF Switch, Advance
<1>2. Typed' /\ options'.root = options.root
  BY <1>1 DEF IInv, Typed
<1> QED
  BY <1>1, <1>2, ReadingOn DEF IInv

LEMMA SettingWorkers ==
  ASSUME IInv, NEW value, NEW length \in {1, 2}, SetWorkers(value, length), UNCHANGED arguments
  PROVE  IInv'
<1>1. CASE ValidWorkers(FromChars(value))
  <2>1. /\ options' = [options EXCEPT !.workers = FromChars(value)]
        /\ index' = index + length /\ UNCHANGED <<options_ended, root_set, outcome>>
    BY <1>1 DEF SetWorkers, Advance
  <2>2. FromChars(value) \in 1 .. UintMax
    BY <1>1 DEF ValidWorkers
  <2>3. Typed' /\ options'.root = options.root
    BY <2>1, <2>2 DEF IInv, Typed
  <2> QED
    BY <2>1, <2>3, ReadingOn DEF IInv
<1>2. CASE ~ValidWorkers(FromChars(value))
  BY <1>2, Ending DEF SetWorkers
<1> QED
  BY <1>1, <1>2

LEMMA StepWorkers == ASSUME IInv, Workers PROVE IInv'
<1>1. UNCHANGED arguments
      /\ \/ End("invalid")
         \/ SetWorkers(arguments[index + 1], 2)
         \/ SetWorkers(Joined[Argument], JoinedLength)
  BY DEF Workers
<1> QED
  BY <1>1, Ending, SettingWorkers DEF JoinedLength

LEMMA StepDirectory == ASSUME IInv, Directory PROVE IInv'
<1>1. Reading /\ UNCHANGED arguments /\ (options_ended \/ ~IsOption(Argument))
  BY DEF Directory
<1>2. CASE root_set
  BY <1>1, <1>2, Ending DEF Directory, SecondRoot
<1>3. CASE ~root_set
  <2>1. /\ options' = [options EXCEPT !.root = Argument] /\ root_set' = TRUE
        /\ index' = index + 1 /\ UNCHANGED <<options_ended, outcome>>
    BY <1>3 DEF Directory, SecondRoot, Advance
  <2>2. index \in DOMAIN arguments /\ Argument = arguments[index]
    BY <1>1, Here DEF IInv, Argument
  <2>3. Typed' /\ options'.root = Argument
    BY <1>1, <2>1, <2>2 DEF IInv, Typed
  <2> PICK j \in DOMAIN arguments : j = index
    BY <2>2
  <2>4. RootAt(j)'
    <3>1. j < index'
      BY <2>1 DEF IInv, Typed
    <3>2. IsOption(Argument) => EndedBefore(j)
      BY <1>1 DEF IInv
    <3> QED
      BY <1>1, <2>2, <2>3, <3>1, <3>2 DEF RootAt, EndedBefore
  <2>5. RootIsRead'
    BY <1>1, <2>1, <2>4 DEF RootIsRead
  <2> QED
    BY <1>1, <2>1, <2>3, <2>5, ReadingOn DEF IInv
<1> QED
  BY <1>2, <1>3

LEMMA NextIInv == IInv /\ [Next]_vars => IInv'
<1> SUFFICES ASSUME IInv, [Next]_vars PROVE IInv'
  OBVIOUS
<1>1. CASE Help \/ UnknownOption \/ Finish
  BY <1>1, Ending DEF Help, UnknownOption, Finish
<1>2. CASE UNCHANGED vars
  BY <1>2 DEF vars, IInv, Typed, RootIsRead, RootAt, EndedBefore
<1> QED
  BY <1>1, <1>2, StepEndOfOptions, StepSwitch, StepWorkers, StepDirectory DEF Next

(* Throughout the parsing there is a worker, and the directory is "." or a *)
(* word of the line already read, an option only behind a "--" read before.*)
THEOREM Invariance == Spec => []IInv
BY InitIInv, NextIInv, PTL DEF Spec

(* No command line, however long, leaves the parser with no worker, with   *)
(* more than an unsigned int holds, or with an option for its directory    *)
(* that does not stand behind a "--".                                      *)
THEOREM Sound == Spec => []SoundOptions
<1>1. ~IsOption(".")
  BY DEF IsOption, HelpWords, DirtyWords, WorkerWords, Joined, UnknownWords
<1>2. IInv => SoundOptions
  BY <1>1 DEF IInv, Typed, RootIsRead, RootAt, EndedBefore, SoundOptions
<1> QED
  BY <1>2, Invariance, PTL

-------------------------------------------------------------------------------
(* What package flag makes of the line.                                    *)

Place == 1 .. Len(arguments) + 1

PlacesHere == Places(arguments)
TakesAt(i) == Takes(arguments, i)

(* Up to place n package flag reads as the port does.                      *)
ReadsTo(n) ==
  /\ n \in PlacesHere
  /\ \A i \in PlacesHere : i < n => TakesAt(i) > 0 /\ i + TakesAt(i) <= n

IsSetting(i) == arguments[i] \in WorkerWords \cup DOMAIN Joined

LastSetting(i, n) ==
  /\ i < n /\ IsSetting(i)
  /\ \A j \in PlacesHere : j < n /\ IsSetting(j) => j <= i

(* ... and has set what the port has.                                      *)
SameOptions(n) ==
  /\ options.dirty_only <=> \E i \in PlacesHere : i < n /\ arguments[i] \in DirtyWords
  /\ options.no_color <=> \E i \in PlacesHere : i < n /\ arguments[i] = "--no-color"
  /\ \/ options.workers = DefaultWorkers /\ \A i \in PlacesHere : i < n => ~IsSetting(i)
     \/ \E i \in PlacesHere : LastSetting(i, n) /\ options.workers = Setting(arguments, i)

(* As long as the port reads options. No word before has been read as a    *)
(* directory or as "--", or is waiting for its value.                      *)
AtOptions ==
  /\ ReadsTo(index) /\ SameOptions(index)
  /\ options.root = "."
  /\ index > 1 => arguments[index - 1] \notin WorkerWords
  /\ \A k \in 1 .. index - 1 : arguments[k] # "--"

(* Package flag has stopped at n, at a "--" or at the directory.           *)
EndsAt(n) ==
  /\ n <= Len(arguments) /\ TakesAt(n) = 0
  /\ arguments[n] = "--" \/ ~IsOption(arguments[n])

Rest(n) == IF arguments[n] = "--" THEN n + 1 ELSE n

(* Afterwards there is at most the directory to come.                      *)
BehindOptions(n) ==
  /\ ReadsTo(n) /\ SameOptions(n) /\ EndsAt(n)
  /\ IF root_set
     THEN /\ Rest(n) \in DOMAIN arguments
          /\ index = Rest(n) + 1 /\ options.root = arguments[Rest(n)]
     ELSE index = Rest(n) /\ options.root = "."
  /\ ~options_ended => \A j \in DOMAIN arguments : j >= index => ~IsOption(arguments[j])

Together ==
  IF options_ended \/ root_set THEN \E n \in PlacesHere : BehindOptions(n) ELSE AtOptions

WithGo ==
  ByUsage(arguments) => IF outcome = "parsing" THEN Together ELSE SameAsGo

OfOptions(o) ==
  [dirty_only |-> o.dirty_only, no_color |-> o.no_color, workers |-> o.workers, root |-> o.root]

Whole ==
  /\ options = OfOptions(options)
  /\ options.dirty_only \in BOOLEAN /\ options.no_color \in BOOLEAN

LEMMA LineFacts ==
  ASSUME Typed
  PROVE  Len(arguments) \in Nat /\ DOMAIN arguments = 1 .. Len(arguments) /\ index \in Nat \ {0}
BY DEF Typed

LEMMA TakesFacts ==
  ASSUME Typed, NEW i \in Place
  PROVE  /\ TakesAt(i) \in {0, 1, 2}
         /\ TakesAt(i) > 0 => i \in DOMAIN arguments /\ i + TakesAt(i) \in Place
BY LineFacts DEF TakesAt, Takes, Place

LEMMA PlacesAreLeast ==
  ASSUME Typed
  PROVE  /\ PlacesHere \subseteq Place /\ 1 \in PlacesHere
         /\ \A i \in PlacesHere : TakesAt(i) > 0 => i + TakesAt(i) \in PlacesHere
         /\ \A S \in SUBSET Place :
              1 \in S /\ (\A i \in S : TakesAt(i) > 0 => i + TakesAt(i) \in S)
              => PlacesHere \subseteq S
<1>1. PlacesHere =
        {i \in Place : \A S \in SUBSET Place :
           1 \in S /\ (\A j \in S : TakesAt(j) > 0 => j + TakesAt(j) \in S) => i \in S}
  BY DEF PlacesHere, Places, Place, TakesAt
<1>2. 1 \in Place
  BY LineFacts DEF Place
<1>3. ASSUME NEW i \in PlacesHere, TakesAt(i) > 0 PROVE i + TakesAt(i) \in PlacesHere
  BY <1>1, <1>3, TakesFacts
<1> QED
  BY <1>1, <1>2, <1>3

(* From a place where it takes something package flag goes to the next ... *)
LEMMA Onward ==
  ASSUME Typed, NEW n \in Nat, ReadsTo(n), TakesAt(n) > 0
  PROVE  /\ n \in DOMAIN arguments
         /\ ReadsTo(n + TakesAt(n))
         /\ \A i \in PlacesHere : i < n + TakesAt(n) <=> i < n \/ i = n
<1> DEFINE S == {i \in PlacesHere : i <= n \/ i >= n + TakesAt(n)}
<1>1. PlacesHere \subseteq Place /\ Place \subseteq Nat /\ n \in Place
  BY PlacesAreLeast, LineFacts DEF ReadsTo, Place
<1>2. TakesAt(n) \in {1, 2} /\ n \in DOMAIN arguments
  BY <1>1, TakesFacts
<1>3. n + TakesAt(n) \in PlacesHere
  BY PlacesAreLeast DEF ReadsTo
<1>4. 1 \in S
  BY <1>1, PlacesAreLeast, LineFacts DEF Place
<1>5. ASSUME NEW i \in S, TakesAt(i) > 0 PROVE i + TakesAt(i) \in S
  <2>1. i + TakesAt(i) \in PlacesHere /\ TakesAt(i) \in {1, 2} /\ i \in Nat
    BY <1>1, <1>5, PlacesAreLeast, TakesFacts
  <2> QED
    BY <1>1, <1>2, <2>1 DEF ReadsTo
<1>6. PlacesHere \subseteq S
  <2>1. S \in SUBSET Place
    BY <1>1
  <2> HIDE DEF S
  <2> QED
    BY <1>4, <1>5, <2>1, PlacesAreLeast
<1>7. ASSUME NEW i \in PlacesHere PROVE i < n + TakesAt(n) <=> i < n \/ i = n
  BY <1>1, <1>2, <1>6
<1>8. ASSUME NEW i \in PlacesHere, i < n + TakesAt(n)
      PROVE  TakesAt(i) > 0 /\ i + TakesAt(i) <= n + TakesAt(n)
  <2>1. i \in Nat /\ TakesAt(i) \in {0, 1, 2}
    BY <1>1, TakesFacts
  <2>2. CASE i = n
    BY <1>2, <2>2
  <2>3. CASE i < n
    <3>1. TakesAt(i) > 0 /\ i + TakesAt(i) <= n
      BY <2>3 DEF ReadsTo
    <3> QED
      BY <1>2, <2>1, <3>1
  <2> QED
    BY <1>7, <1>8, <2>2, <2>3
<1>9. ReadsTo(n + TakesAt(n))
  BY <1>3, <1>8 DEF ReadsTo
<1> QED
  BY <1>2, <1>7, <1>9

(* ... and where it takes nothing it stops.                                *)
LEMMA Stopped ==
  ASSUME Typed, NEW n \in Nat, ReadsTo(n), TakesAt(n) = 0
  PROVE  /\ Stop(arguments) = n
         /\ Taken(arguments) = {i \in PlacesHere : i < n}
<1> DEFINE S == {i \in PlacesHere : i <= n}
<1>1. PlacesHere \subseteq Place /\ Place \subseteq Nat /\ n \in PlacesHere
  BY PlacesAreLeast, LineFacts DEF ReadsTo, Place
<1>2. 1 \in S
  BY <1>1, PlacesAreLeast, LineFacts DEF Place
<1>3. ASSUME NEW i \in S, TakesAt(i) > 0 PROVE i + TakesAt(i) \in S
  <2>1. i + TakesAt(i) \in PlacesHere /\ i < n
    BY <1>1, <1>3, PlacesAreLeast
  <2> QED
    BY <2>1 DEF ReadsTo
<1>4. PlacesHere \subseteq S
  <2>1. S \in SUBSET Place
    BY <1>1
  <2> HIDE DEF S
  <2> QED
    BY <1>2, <1>3, <2>1, PlacesAreLeast
<1>5. \A i \in PlacesHere : TakesAt(i) > 0 <=> i < n
  BY <1>1, <1>4 DEF ReadsTo
<1>6. \A i \in PlacesHere : TakesAt(i) = 0 <=> i = n
  BY <1>1, <1>4, <1>5, TakesFacts
<1>7. Stop(arguments) = CHOOSE i \in PlacesHere : TakesAt(i) = 0
  BY DEF Stop, PlacesHere, TakesAt
<1>8. Taken(arguments) = {i \in PlacesHere : TakesAt(i) > 0}
  BY DEF Taken, PlacesHere, TakesAt
<1> QED
  BY <1>1, <1>5, <1>6, <1>7, <1>8

(* What it has set by then is what the port has.                           *)
LEMMA SameFlags ==
  ASSUME Typed, Whole, NEW n \in Nat, ReadsTo(n), TakesAt(n) = 0, SameOptions(n)
  PROVE  /\ GoWorkers(arguments) = options.workers
         /\ options.dirty_only <=> \E i \in Taken(arguments) : arguments[i] \in DirtyWords
         /\ options.no_color <=> \E i \in Taken(arguments) : arguments[i] = "--no-color"
<1>1. Taken(arguments) = {i \in PlacesHere : i < n}
  BY Stopped
<1>2. Settings(arguments) = {i \in PlacesHere : i < n /\ IsSetting(i)}
  BY <1>1 DEF Settings, IsSetting
<1>3. GoWorkers(arguments) = options.workers
  <2>1. CASE \A i \in PlacesHere : i < n => ~IsSetting(i)
    <3>1. Settings(arguments) = {} /\ options.workers = DefaultWorkers
      BY <1>2, <2>1 DEF SameOptions, LastSetting
    <3> QED
      BY <3>1 DEF GoWorkers
  <2>2. CASE \E i \in PlacesHere : i < n /\ IsSetting(i)
    <3>1. PICK i \in PlacesHere : LastSetting(i, n) /\ options.workers = Setting(arguments, i)
      BY <2>2 DEF SameOptions
    <3>2. i \in Settings(arguments) /\ \A j \in Settings(arguments) : j <= i
      BY <1>2, <3>1 DEF LastSetting
    <3>3. Settings(arguments) \subseteq Nat
      BY <1>2, PlacesAreLeast, LineFacts DEF Place
    <3>4. \A k \in Settings(arguments) : (\A j \in Settings(arguments) : j <= k) => k = i
      BY <3>2, <3>3
    <3>5. (CHOOSE k \in Settings(arguments) : \A j \in Settings(arguments) : j <= k) = i
      BY <3>2, <3>4
    <3> QED
      BY <3>1, <3>2, <3>5 DEF GoWorkers
  <2> QED
    BY <2>1, <2>2
<1> QED
  BY <1>1, <1>3 DEF SameOptions

(* A setting more, on both sides.                                          *)
LEMMA SetAlike ==
  ASSUME Typed, NEW n \in Nat, ReadsTo(n), TakesAt(n) > 0, SameOptions(n), UNCHANGED arguments,
         options'.dirty_only <=> options.dirty_only \/ arguments[n] \in DirtyWords,
         options'.no_color <=> options.no_color \/ arguments[n] = "--no-color",
         options'.workers = IF IsSetting(n) THEN Setting(arguments, n) ELSE options.workers,
         NEW next \in Nat, next = n + TakesAt(n)
  PROVE  SameOptions(next)'
<1>1. n \in PlacesHere /\ PlacesHere \subseteq Nat
  BY PlacesAreLeast, LineFacts DEF ReadsTo, Place
<1>2. \A i \in PlacesHere : i < next <=> i < n \/ i = n
  BY Onward
<1>3. PlacesHere' = PlacesHere
  BY DEF PlacesHere
<1>4. /\ options'.dirty_only <=> \E i \in PlacesHere : i < next /\ arguments[i] \in DirtyWords
      /\ options'.no_color <=> \E i \in PlacesHere : i < next /\ arguments[i] = "--no-color"
  BY <1>1, <1>2 DEF SameOptions
<1>5. CASE IsSetting(n)
  <2>1. LastSetting(n, next)
    BY <1>1, <1>2, <1>5 DEF LastSetting
  <2>2. LastSetting(n, next)'
    BY <1>3, <2>1 DEF LastSetting, IsSetting
  <2> QED
    BY <1>1, <1>3, <1>4, <1>5, <2>2 DEF SameOptions
<1>6. CASE ~IsSetting(n)
  <2>1. CASE \A i \in PlacesHere : i < n => ~IsSetting(i)
    <3>1. options'.workers = DefaultWorkers /\ \A i \in PlacesHere : i < next => ~IsSetting(i)
      BY <1>2, <1>6, <2>1 DEF SameOptions, LastSetting
    <3> QED
      BY <1>3, <1>4, <3>1 DEF SameOptions, IsSetting
  <2>2. CASE \E i \in PlacesHere : i < n /\ IsSetting(i)
    <3>1. PICK i \in PlacesHere : LastSetting(i, n) /\ options.workers = Setting(arguments, i)
      BY <2>2 DEF SameOptions
    <3>2. LastSetting(i, next)
      BY <1>2, <1>6, <3>1 DEF LastSetting
    <3>3. LastSetting(i, next)'
      BY <1>3, <3>2 DEF LastSetting, IsSetting
    <3> QED
      BY <1>3, <1>4, <1>6, <3>1, <3>3 DEF SameOptions
  <2> QED
    BY <2>1, <2>2
<1> QED
  BY <1>5, <1>6

-------------------------------------------------------------------------------
(* The port, step by step, on a line that follows the usage.               *)

LEMMA Untouched ==
  ASSUME UNCHANGED arguments
  PROVE  /\ PlacesHere' = PlacesHere
         /\ \A n : TakesAt(n)' = TakesAt(n) /\ ReadsTo(n)' <=> ReadsTo(n)
         /\ \A n : EndsAt(n)' <=> EndsAt(n)
         /\ \A n : Rest(n)' = Rest(n)
         /\ ByUsage(arguments)' <=> ByUsage(arguments)
BY DEF PlacesHere, TakesAt, ReadsTo, EndsAt, Rest

(* A word of the options is read while package flag is at the same word.   *)
LEMMA BothAtOptions ==
  ASSUME Typed, WithGo, ByUsage(arguments), ReadingOption, IsOption(Argument)
  PROVE  AtOptions /\ ~root_set /\ index \in DOMAIN arguments /\ Argument = arguments[index]
<1>1. outcome = "parsing" /\ index \in DOMAIN arguments /\ ~options_ended
  BY Here DEF ReadingOption, Reading
<1>2. index >= index
  BY LineFacts
<1>3. ~root_set
  BY <1>1, <1>2 DEF WithGo, Together, BehindOptions, Argument
<1> QED
  BY <1>1, <1>3 DEF WithGo, Together, Argument

(* Reading an option that package flag takes too.                          *)
LEMMA TakeAlike ==
  ASSUME Typed, WithGo, ByUsage(arguments), ReadingOption, IsOption(Argument),
         NEW length \in {1, 2}, TakesAt(index) = length, Argument # "--",
         Advance(length), UNCHANGED <<arguments, options_ended, root_set>>,
         arguments[index + length - 1] \notin WorkerWords,
         length = 2 => arguments[index + 1] # "--",
         options'.dirty_only <=> options.dirty_only \/ Argument \in DirtyWords,
         options'.no_color <=> options.no_color \/ Argument = "--no-color",
         options'.workers = IF IsSetting(index) THEN Setting(arguments, index) ELSE options.workers,
         options'.root = options.root
  PROVE  WithGo'
<1>1. AtOptions /\ ~root_set /\ ~options_ended /\ Argument = arguments[index]
  BY BothAtOptions DEF ReadingOption
<1>2. /\ index \in Nat \ {0} /\ index' = index + length /\ index' \in Nat
      /\ outcome' = "parsing"
  BY LineFacts DEF Advance, ReadingOption, Reading
<1> PICK next \in Nat : next = index'
  BY <1>2
<1>3. ReadsTo(next)'
  <2>1. ReadsTo(next)
    BY <1>1, <1>2, Onward DEF AtOptions
  <2> QED
    BY <2>1, Untouched
<1>4. SameOptions(next)'
  <2>1. ReadsTo(index) /\ SameOptions(index) /\ TakesAt(index) > 0
    BY <1>1 DEF AtOptions
  <2> QED
    BY <1>1, <1>2, <2>1, SetAlike
<1>5. /\ arguments[next - 1] \notin WorkerWords
      /\ \A k \in 1 .. next - 1 : arguments[k] # "--"
  <2>1. next - 1 = index + length - 1
    BY <1>2
  <2>2. arguments[index] # "--"
    BY <1>1
  <2>3. \A k \in 1 .. index - 1 : arguments[k] # "--"
    BY <1>1 DEF AtOptions
  <2>4. \A k \in 1 .. next - 1 : k \in 1 .. index - 1 \/ k = index \/ (length = 2 /\ k = index + 1)
    BY <1>2
  <2> QED
    BY <2>1, <2>2, <2>3, <2>4
<1>6. AtOptions'
  <2>1. ReadsTo(index)'
    BY <1>3 DEF ReadsTo
  <2>2. SameOptions(index)'
    BY <1>4 DEF SameOptions, LastSetting
  <2> QED
    BY <1>1, <1>5, <2>1, <2>2 DEF AtOptions
<1> QED
  BY <1>1, <1>2, <1>6 DEF WithGo, Together

(* The end: what package flag leaves to parseOptions when it stops.        *)
LEMMA GoEnds ==
  ASSUME Typed, Whole, NEW n \in Nat, ReadsTo(n), TakesAt(n) = 0, SameOptions(n),
         NEW ended, ended = (n <= Len(arguments) /\ arguments[n] = "--")
  PROVE  GoFlags(arguments) =
           [outcome |-> IF n > Len(arguments) \/ ended \/ ~IsFlag(arguments[n]) THEN "run"
                        ELSE IF arguments[n] \in HelpWords THEN "help" ELSE "invalid",
            rest |-> IF ended THEN n + 1 ELSE n,
            opts |-> [dirty_only |-> options.dirty_only, no_color |-> options.no_color,
                      workers |-> options.workers]]
<1> DEFINE dirty == \E i \in Taken(arguments) : arguments[i] \in DirtyWords
           plain == \E i \in Taken(arguments) : arguments[i] = "--no-color"
<1>1. Stop(arguments) = n
  BY Stopped
<1>2. dirty = options.dirty_only /\ plain = options.no_color
  <2>1. dirty <=> options.dirty_only
    BY SameFlags
  <2>2. plain <=> options.no_color
    BY SameFlags
  <2>3. dirty \in BOOLEAN /\ plain \in BOOLEAN
    OBVIOUS
  <2> HIDE DEF dirty, plain
  <2> QED
    BY <2>1, <2>2, <2>3 DEF Whole
<1>3. GoWorkers(arguments) = options.workers
  BY SameFlags
<1> HIDE DEF dirty, plain
<1>4. GoFlags(arguments) =
        [outcome |-> IF n > Len(arguments) \/ ended \/ ~IsFlag(arguments[n]) THEN "run"
                     ELSE IF arguments[n] \in HelpWords THEN "help" ELSE "invalid",
         rest |-> IF ended THEN n + 1 ELSE n,
         opts |-> [dirty_only |-> dirty, no_color |-> plain, workers |-> GoWorkers(arguments)]]
  BY <1>1 DEF GoFlags, dirty, plain
<1> QED
  BY <1>2, <1>3, <1>4

(* The port goes on to run exactly with what parseOptions returns.         *)
LEMMA RunAlike ==
  ASSUME Typed, Whole, NEW n \in Nat, ReadsTo(n), TakesAt(n) = 0, SameOptions(n),
         NEW rest \in Nat, rest >= Len(arguments),
         (n > Len(arguments) /\ rest = n) \/ (EndsAt(n) /\ rest = Rest(n)),
         options.root = IF rest = Len(arguments) THEN arguments[rest] ELSE "."
  PROVE  GoParse(arguments) = [outcome |-> "run", options |-> options]
<1> PICK ended \in BOOLEAN : ended <=> n <= Len(arguments) /\ arguments[n] = "--"
  OBVIOUS
<1> DEFINE flags == [outcome |-> "run", rest |-> rest,
                     opts |-> [dirty_only |-> options.dirty_only, no_color |-> options.no_color,
                               workers |-> options.workers]]
<1>1. Len(arguments) \in Nat
  BY LineFacts
<1>2. ended = (n <= Len(arguments) /\ arguments[n] = "--")
  OBVIOUS
<1>3. n > Len(arguments) \/ ended \/ ~IsFlag(arguments[n])
  BY <1>1 DEF EndsAt, IsFlag
<1>4. rest = IF ended THEN n + 1 ELSE n
  BY <1>1 DEF Rest, EndsAt
<1>5. GoFlags(arguments) = flags
  BY <1>2, <1>3, <1>4, GoEnds
<1>6. rest <= Len(arguments) + 1
  <2>1. n \in Place
    BY PlacesAreLeast DEF ReadsTo
  <2> QED
    BY <1>1, <1>4, <2>1 DEF Place
<1>7. options.workers \in Nat \ {0}
  BY DEF Typed
<1>8. [dirty_only |-> options.dirty_only, no_color |-> options.no_color,
       workers |-> options.workers,
       root |-> IF Len(arguments) + 1 - rest = 1 THEN arguments[rest] ELSE "."] = options
  BY <1>1, <1>6 DEF Whole, OfOptions
<1> QED
  BY <1>1, <1>5, <1>6, <1>7, <1>8 DEF GoParse

LEMMA InitWithGo == Init => Whole /\ WithGo
<1> SUFFICES ASSUME Init PROVE Whole /\ WithGo
  OBVIOUS
<1>1. Typed /\ index = 1
  BY InitIInv DEF IInv, Init
<1>2. Whole
  BY DEF Init, Whole, OfOptions, Defaults
<1>3. ReadsTo(1)
  BY <1>1, PlacesAreLeast DEF ReadsTo, Place
<1>4. PlacesHere \subseteq Nat \ {0}
  BY <1>1, PlacesAreLeast, LineFacts DEF Place
<1>5. SameOptions(1)
  BY <1>4 DEF SameOptions, Init, Defaults
<1> QED
  BY <1>1, <1>2, <1>3, <1>5 DEF Init, Defaults, WithGo, Together, AtOptions

LEMMA NextWhole == Typed /\ Whole /\ [Next]_vars => Whole'
<1> SUFFICES ASSUME Typed, Whole, [Next]_vars PROVE Whole'
  OBVIOUS
<1>1. CASE UNCHANGED options
  BY <1>1 DEF Whole, OfOptions
<1>2. ASSUME options' = [options EXCEPT !.dirty_only = TRUE] PROVE Whole'
  BY <1>2 DEF Whole, OfOptions, Typed
<1>3. ASSUME options' = [options EXCEPT !.no_color = TRUE] PROVE Whole'
  BY <1>3 DEF Whole, OfOptions, Typed
<1>4. ASSUME NEW n, options' = [options EXCEPT !.workers = n] PROVE Whole'
  BY <1>4 DEF Whole, OfOptions, Typed
<1>5. ASSUME NEW word, options' = [options EXCEPT !.root = word] PROVE Whole'
  BY <1>5 DEF Whole, OfOptions, Typed
<1> QED
  BY <1>1, <1>2, <1>3, <1>4, <1>5 DEF Next, vars, EndOfOptions, Help, Switch, Workers, SetWorkers,
     UnknownOption, Directory, Finish, End

(* Reading breaks off at the same word, with the same outcome.             *)
LEMMA BreakOffAlike ==
  ASSUME Typed, Whole, WithGo, ByUsage(arguments), ReadingOption, IsOption(Argument),
         Argument \notin {"--", "-"}, TakesAt(index) = 0,
         NEW how \in {"help", "invalid"}, End(how), UNCHANGED arguments,
         how = "help" <=> Argument \in HelpWords
  PROVE  SameAsGo'
<1>1. AtOptions /\ index \in DOMAIN arguments /\ Argument = arguments[index]
  BY BothAtOptions
<1>2. index \in Nat /\ index <= Len(arguments) /\ Len(arguments) \in Nat
  BY <1>1, LineFacts
<1>3. ReadsTo(index) /\ SameOptions(index)
  BY <1>1 DEF AtOptions
<1>4. GoFlags(arguments).outcome = how
  <2> PICK ended \in BOOLEAN : ended <=> index <= Len(arguments) /\ arguments[index] = "--"
    OBVIOUS
  <2>1. ended = (index <= Len(arguments) /\ arguments[index] = "--")
    OBVIOUS
  <2>2. ~(index > Len(arguments) \/ ended \/ ~IsFlag(arguments[index]))
    BY <1>1, <1>2 DEF IsFlag
  <2>3. GoFlags(arguments).outcome = IF arguments[index] \in HelpWords THEN "help" ELSE "invalid"
    BY <1>2, <1>3, <2>1, <2>2, GoEnds
  <2> QED
    BY <1>1, <2>3
<1>5. GoParse(arguments) = [outcome |-> how, options |-> Defaults]
  BY <1>4 DEF GoParse
<1>6. outcome' = how /\ how # "run" /\ GoParse(arguments)' = GoParse(arguments)
  BY DEF End
<1> QED
  BY <1>5, <1>6 DEF SameAsGo

LEMMA HelpAlike == ASSUME Typed, Whole, WithGo, ByUsage(arguments), Help PROVE WithGo'
<1>1. ReadingOption /\ Argument \in HelpWords /\ End("help") /\ UNCHANGED arguments
  BY DEF Help
<1>2. IsOption(Argument) /\ Argument \notin {"--", "-"}
  BY <1>1 DEF IsOption, HelpWords
<1>3. TakesAt(index) = 0
  BY <1>1 DEF TakesAt, Takes, Argument, HelpWords, DirtyWords, WorkerWords, Joined
<1>4. SameAsGo'
  BY <1>1, <1>2, <1>3, BreakOffAlike
<1> QED
  BY <1>1, <1>4 DEF WithGo, End

LEMMA UnknownAlike == ASSUME Typed, Whole, WithGo, ByUsage(arguments), UnknownOption PROVE WithGo'
<1>1. ReadingOption /\ Argument \in UnknownWords /\ End("invalid") /\ UNCHANGED arguments
  BY DEF UnknownOption
<1>2. IsOption(Argument) /\ Argument \notin HelpWords \cup {"--"}
  BY <1>1 DEF IsOption, HelpWords, UnknownWords
<1>3. TakesAt(index) = 0
  BY <1>1 DEF TakesAt, Takes, Argument, UnknownWords, DirtyWords, WorkerWords, Joined
<1>4. Argument # "-"
  <2>1. AtOptions /\ index \in DOMAIN arguments /\ Argument = arguments[index]
    BY <1>1, <1>2, BothAtOptions
  <2>2. \A k \in 1 .. index - 1 : arguments[k] # "--"
    BY <2>1 DEF AtOptions
  <2> QED
    BY <2>1, <2>2 DEF ByUsage
<1>5. SameAsGo'
  BY <1>1, <1>2, <1>3, <1>4, BreakOffAlike
<1> QED
  BY <1>1, <1>5 DEF WithGo, End

LEMMA SwitchAlike == ASSUME Typed, Whole, WithGo, ByUsage(arguments), Switch PROVE WithGo'
<1>1. /\ ReadingOption /\ Argument \in DirtyWords \cup {"--no-color"}
      /\ Advance(1) /\ UNCHANGED <<arguments, options_ended, root_set>>
  BY DEF Switch
<1>2. /\ IsOption(Argument) /\ Argument # "--" /\ ~IsSetting(index)
      /\ Argument \notin WorkerWords
  BY <1>1 DEF IsOption, IsSetting, Argument, DirtyWords, WorkerWords, Joined
<1>3. index \in Nat /\ index <= Len(arguments) /\ Len(arguments) \in Nat
  BY <1>1, Here, LineFacts DEF ReadingOption
<1>4. TakesAt(index) = 1
  BY <1>1, <1>3 DEF TakesAt, Takes, Argument
<1>5. arguments[index + 1 - 1] \notin WorkerWords
  BY <1>2, <1>3 DEF Argument
<1>6. /\ options'.dirty_only <=> options.dirty_only \/ Argument \in DirtyWords
      /\ options'.no_color <=> options.no_color \/ Argument = "--no-color"
      /\ options'.workers = options.workers /\ options'.root = options.root
  <2>1. CASE Argument \in DirtyWords /\ options' = [options EXCEPT !.dirty_only = TRUE]
    BY <2>1 DEF Typed, DirtyWords
  <2>2. CASE Argument = "--no-color" /\ options' = [options EXCEPT !.no_color = TRUE]
    BY <2>2 DEF Typed, DirtyWords
  <2> QED
    BY <2>1, <2>2 DEF Switch
<1> QED
  BY <1>1, <1>2, <1>4, <1>5, <1>6, TakeAlike

(* Plain numbers both programs read alike.                                 *)
LEMMA PlainAlike ==
  ASSUME NEW word \in PlainNumbers
  PROVE  /\ ValidWorkers(FromChars(word)) /\ ParseInt(word) = FromChars(word)
         /\ ParseInt(word) # Invalid
<1>1. word \in {"3", "12"} /\ UintMax \in Nat /\ UintMax >= 32
  BY OptionsAssumption DEF PlainNumbers
<1>2. FromChars(word) \in {3, 12} /\ ParseInt(word) = FromChars(word)
  BY <1>1 DEF FromChars, ParseInt
<1> QED
  BY <1>1, <1>2 DEF ValidWorkers, Invalid

LEMMA WorkersAlike == ASSUME Typed, Whole, WithGo, ByUsage(arguments), Workers PROVE WithGo'
<1>1. /\ ReadingOption /\ Argument \in WorkerWords \cup DOMAIN Joined
      /\ UNCHANGED arguments
  BY DEF Workers
<1>2. /\ IsOption(Argument) /\ Argument # "--" /\ IsSetting(index)
      /\ Argument \notin DirtyWords \cup {"--no-color"}
  BY <1>1 DEF IsOption, IsSetting, Argument, DirtyWords, WorkerWords, Joined
<1>3. /\ index \in DOMAIN arguments /\ index \in Nat
      /\ Len(arguments) \in Nat /\ index <= Len(arguments)
  BY <1>1, Here, LineFacts DEF ReadingOption
<1>4. ASSUME NEW length \in {1, 2}, NEW word, word \in PlainNumbers, SetWorkers(word, length),
             TakesAt(index) = length, Setting(arguments, index) = ParseInt(word),
             arguments[index + length - 1] \notin WorkerWords,
             length = 2 => arguments[index + 1] # "--"
      PROVE  WithGo'
  <2>1. ValidWorkers(FromChars(word)) /\ ParseInt(word) = FromChars(word)
    BY <1>4, PlainAlike
  <2>2. /\ options' = [options EXCEPT !.workers = FromChars(word)]
        /\ Advance(length) /\ UNCHANGED <<options_ended, root_set>>
    BY <1>4, <2>1 DEF SetWorkers
  <2>3. /\ options'.dirty_only = options.dirty_only /\ options'.no_color = options.no_color
        /\ options'.workers = FromChars(word) /\ options'.root = options.root
    BY <2>2 DEF Typed
  <2>4. /\ options'.dirty_only <=> options.dirty_only \/ Argument \in DirtyWords
        /\ options'.no_color <=> options.no_color \/ Argument = "--no-color"
    BY <1>2, <2>3
  <2>5. options'.workers = Setting(arguments, index)
    BY <1>4, <2>1, <2>3
  <2> QED
    BY <1>1, <1>2, <1>4, <2>2, <2>3, <2>4, <2>5, TakeAlike
<1>5. CASE Argument \in WorkerWords
  <2>1. index < Len(arguments) /\ arguments[index + 1] \in PlainNumbers
    BY <1>3, <1>5 DEF ByUsage, Argument
  <2>2. ParseInt(arguments[index + 1]) # Invalid
    BY <2>1, PlainAlike
  <2>3. SetWorkers(arguments[index + 1], 2)
    BY <1>5, <2>1 DEF Workers, WorkerWords, Joined
  <2>4. TakesAt(index) = 2
    BY <1>3, <1>5, <2>1, <2>2 DEF TakesAt, Takes, Argument, WorkerWords, DirtyWords, Joined
  <2>5. Setting(arguments, index) = ParseInt(arguments[index + 1])
    BY <1>5 DEF Setting, Argument
  <2>6. arguments[index + 2 - 1] \notin WorkerWords /\ arguments[index + 1] # "--"
    BY <1>3, <2>1 DEF WorkerWords, PlainNumbers
  <2> QED
    BY <1>4, <2>1, <2>3, <2>4, <2>5, <2>6
<1>6. CASE Argument \in DOMAIN Joined
  <2>1. Joined[Argument] \in PlainNumbers /\ Argument \notin WorkerWords
    BY <1>3, <1>6 DEF ByUsage, Argument, Joined, WorkerWords
  <2>2. ParseInt(Joined[Argument]) # Invalid
    BY <2>1, PlainAlike
  <2>3. SetWorkers(Joined[Argument], 1)
    BY <1>6, <2>1 DEF Workers, JoinedLength
  <2>4. TakesAt(index) = 1
    BY <1>2, <1>3, <1>6, <2>2 DEF TakesAt, Takes, Argument
  <2>5. Setting(arguments, index) = ParseInt(Joined[Argument])
    BY <2>1 DEF Setting, Argument
  <2>6. arguments[index + 1 - 1] \notin WorkerWords
    BY <1>3, <2>1 DEF Argument
  <2> QED
    BY <1>4, <2>1, <2>3, <2>4, <2>5, <2>6
<1> QED
  BY <1>1, <1>5, <1>6

LEMMA EndOfOptionsAlike ==
  ASSUME Typed, Whole, WithGo, ByUsage(arguments), EndOfOptions
  PROVE  WithGo'
<1>1. /\ ReadingOption /\ Argument = "--" /\ options_ended' = TRUE
      /\ index' = index + 1 /\ UNCHANGED <<arguments, root_set, options, outcome>>
  BY DEF EndOfOptions, Advance
<1>2. IsOption(Argument)
  BY <1>1 DEF IsOption
<1>3. AtOptions /\ ~root_set /\ index \in DOMAIN arguments /\ arguments[index] = "--"
  BY <1>1, <1>2, BothAtOptions
<1> PICK n \in Nat : n = index
  BY LineFacts
<1>4. n <= Len(arguments) /\ TakesAt(n) = 0
  BY <1>3, LineFacts DEF TakesAt, Takes, DirtyWords, WorkerWords, Joined
<1>5. EndsAt(n)' /\ Rest(n)' = n + 1
  BY <1>1, <1>3, <1>4 DEF EndsAt, Rest, TakesAt
<1>6. ReadsTo(n)' /\ SameOptions(n)' /\ n \in PlacesHere'
  BY <1>1, <1>3 DEF AtOptions, ReadsTo, SameOptions, PlacesHere, TakesAt, LastSetting, IsSetting
<1>7. BehindOptions(n)'
  BY <1>1, <1>3, <1>5, <1>6 DEF AtOptions, BehindOptions
<1> QED
  BY <1>1, <1>6, <1>7 DEF WithGo, Together, ReadingOption, Reading

(* A word behind the directory is no option, unless a "--" came before.    *)
LEMMA NoOptionsBehind ==
  ASSUME Typed, AtOptions, ByUsage(arguments), index \in DOMAIN arguments,
         ~IsOption(arguments[index])
  PROVE  \A j \in DOMAIN arguments : j >= index + 1 => ~IsOption(arguments[j])
<1> SUFFICES ASSUME NEW j \in DOMAIN arguments, j >= index + 1, IsOption(arguments[j])
             PROVE  FALSE
  OBVIOUS
<1>1. index < j /\ index \in Nat \ {0}
  BY LineFacts
<1>2. ~(index > 1 /\ arguments[index - 1] \in WorkerWords)
  BY DEF AtOptions
<1>3. arguments[index] # "--"
  BY DEF IsOption
<1>4. \A k \in 1 .. index : arguments[k] # "--"
  BY <1>1, <1>3 DEF AtOptions
<1> QED
  BY <1>1, <1>2, <1>4 DEF ByUsage

LEMMA DirectoryAlike ==
  ASSUME Typed, Whole, WithGo, ByUsage(arguments), Directory
  PROVE  WithGo'
<1>1. /\ outcome = "parsing" /\ index \in DOMAIN arguments /\ Argument = arguments[index]
      /\ options_ended \/ ~IsOption(Argument)
      /\ UNCHANGED arguments
  BY Here DEF Directory, Reading, Argument
<1>2. Len(arguments) \in Nat /\ index \in Nat /\ index <= Len(arguments)
  BY <1>1, LineFacts
<1>3. CASE root_set
  <2>1. outcome' = "invalid"
    BY <1>3 DEF Directory, SecondRoot, End
  <2>2. PICK n \in PlacesHere : BehindOptions(n)
    BY <1>1, <1>3 DEF WithGo, Together
  <2>3. n \in Nat /\ n <= Len(arguments) /\ Rest(n) \in Nat
    BY <2>2, PlacesAreLeast, LineFacts DEF Place, BehindOptions, EndsAt, Rest
  <2> PICK ended \in BOOLEAN : ended <=> n <= Len(arguments) /\ arguments[n] = "--"
    OBVIOUS
  <2>4. GoFlags(arguments).outcome = "run" /\ GoFlags(arguments).rest = Rest(n)
    <3>1. ended = (n <= Len(arguments) /\ arguments[n] = "--")
      OBVIOUS
    <3>2. ended \/ ~IsFlag(arguments[n])
      BY <2>2, <2>3 DEF BehindOptions, EndsAt, IsFlag
    <3>3. Rest(n) = IF ended THEN n + 1 ELSE n
      BY <2>3 DEF Rest
    <3> QED
      BY <2>2, <2>3, <3>1, <3>2, <3>3, GoEnds DEF BehindOptions, EndsAt
  <2>5. Len(arguments) + 1 - Rest(n) > 1
    BY <1>2, <1>3, <2>2, <2>3 DEF BehindOptions
  <2>6. GoParse(arguments) = [outcome |-> "invalid", options |-> Defaults]
    BY <2>4, <2>5 DEF GoParse
  <2>7. GoParse(arguments)' = GoParse(arguments)
    BY <1>1
  <2> QED
    BY <2>1, <2>6, <2>7 DEF WithGo, SameAsGo
<1>4. CASE ~root_set
  <2>1. /\ options' = [options EXCEPT !.root = Argument] /\ root_set' = TRUE
        /\ index' = index + 1 /\ UNCHANGED <<options_ended, outcome>>
    BY <1>4 DEF Directory, SecondRoot, Advance
  <2>2. /\ options'.root = arguments[index]
        /\ options'.dirty_only = options.dirty_only /\ options'.no_color = options.no_color
        /\ options'.workers = options.workers
    BY <1>1, <2>1 DEF Typed
  <2>3. ASSUME NEW n \in PlacesHere, ReadsTo(n), SameOptions(n), EndsAt(n), index = Rest(n),
               ~options_ended =>
                 \A j \in DOMAIN arguments : j >= index + 1 => ~IsOption(arguments[j])
        PROVE  WithGo'
    <3>1. ReadsTo(n)' /\ EndsAt(n)' /\ Rest(n)' = index /\ n \in PlacesHere'
      BY <1>1, <2>3, Untouched
    <3>2. SameOptions(n)'
      BY <1>1, <2>2, <2>3 DEF SameOptions, LastSetting, IsSetting, PlacesHere
    <3>3. BehindOptions(n)'
      BY <1>1, <2>1, <2>2, <2>3, <3>1, <3>2 DEF BehindOptions
    <3> QED
      BY <1>1, <2>1, <3>1, <3>3 DEF WithGo, Together
  <2>4. CASE options_ended
    <3>1. PICK n \in PlacesHere : BehindOptions(n)
      BY <1>1, <2>4 DEF WithGo, Together
    <3> QED
      BY <1>4, <2>3, <2>4, <3>1 DEF BehindOptions
  <2>5. CASE ~options_ended
    <3>1. AtOptions /\ ~IsOption(arguments[index])
      BY <1>1, <1>4, <2>5 DEF WithGo, Together
    <3>2. TakesAt(index) = 0
      BY <3>1 DEF TakesAt, Takes, IsOption
    <3>3. EndsAt(index) /\ Rest(index) = index
      BY <1>2, <3>1, <3>2 DEF EndsAt, Rest, IsOption
    <3>4. index \in PlacesHere /\ ReadsTo(index) /\ SameOptions(index)
      BY <3>1 DEF AtOptions, ReadsTo
    <3>5. \A j \in DOMAIN arguments : j >= index + 1 => ~IsOption(arguments[j])
      BY <1>1, <3>1, NoOptionsBehind
    <3> QED
      BY <2>3, <3>3, <3>4, <3>5
  <2> QED
    BY <2>4, <2>5
<1> QED
  BY <1>3, <1>4

LEMMA FinishAlike ==
  ASSUME Typed, Whole, WithGo, ByUsage(arguments), Finish
  PROVE  WithGo'
<1>1. /\ outcome = "parsing" /\ index > Len(arguments) /\ outcome' = "run"
      /\ UNCHANGED <<arguments, options>>
  BY DEF Finish, End
<1>2. Len(arguments) \in Nat /\ index \in Nat /\ DOMAIN arguments = 1 .. Len(arguments)
  BY LineFacts
<1>3. GoParse(arguments) = [outcome |-> "run", options |-> options]
  <2>1. CASE options_ended \/ root_set
    <3>1. PICK n \in PlacesHere : BehindOptions(n)
      BY <1>1, <2>1 DEF WithGo, Together
    <3>2. n \in Nat /\ n <= Len(arguments) /\ Rest(n) \in Nat
      BY <3>1, PlacesAreLeast, LineFacts DEF Place, BehindOptions, EndsAt, Rest
    <3>3. /\ Rest(n) >= Len(arguments)
          /\ options.root = IF Rest(n) = Len(arguments) THEN arguments[Rest(n)] ELSE "."
      BY <1>1, <1>2, <3>1, <3>2 DEF BehindOptions
    <3>4. ReadsTo(n) /\ SameOptions(n) /\ EndsAt(n) /\ TakesAt(n) = 0
      BY <3>1 DEF BehindOptions, EndsAt
    <3> QED
      BY <3>2, <3>3, <3>4, RunAlike
  <2>2. CASE ~(options_ended \/ root_set)
    <3>1. AtOptions
      BY <1>1, <2>2 DEF WithGo, Together
    <3>2. TakesAt(index) = 0
      BY <1>1 DEF TakesAt, Takes
    <3>3. ReadsTo(index) /\ SameOptions(index) /\ options.root = "."
      BY <3>1 DEF AtOptions
    <3>4. index > Len(arguments)
      BY <1>1
    <3>5. index \in Nat /\ Len(arguments) \in Nat
      BY LineFacts
    <3>6. index >= Len(arguments) /\ index # Len(arguments)
      BY <3>4, <3>5
    <3>7. options.root = IF index = Len(arguments) THEN arguments[index] ELSE "."
      BY <3>3, <3>6
    <3> QED
      BY <3>2, <3>3, <3>4, <3>5, <3>6, <3>7, RunAlike
  <2> QED
    BY <2>1, <2>2
<1>4. GoParse(arguments)' = GoParse(arguments)
  BY <1>1
<1> QED
  BY <1>1, <1>3, <1>4 DEF WithGo, SameAsGo

LEMMA NextWithGo == Typed /\ Whole /\ WithGo /\ [Next]_vars => WithGo'
<1> SUFFICES ASSUME Typed, Whole, WithGo, [Next]_vars PROVE WithGo'
  OBVIOUS
<1>1. CASE UNCHANGED vars
  BY <1>1 DEF vars, WithGo, SameAsGo, Together, AtOptions, BehindOptions, ReadsTo, SameOptions,
     EndsAt, Rest, LastSetting, IsSetting, PlacesHere, TakesAt
<1>2. CASE ~ByUsage(arguments) /\ Next
  BY <1>2 DEF WithGo, Next, EndOfOptions, Help, Switch, Workers, UnknownOption, Directory, Finish
<1>3. CASE ByUsage(arguments)
  BY <1>1, <1>3, EndOfOptionsAlike, HelpAlike, SwitchAlike, WorkersAlike, UnknownAlike,
     DirectoryAlike, FinishAlike DEF Next
<1> QED
  BY <1>1, <1>2, <1>3

(* On every line that follows the usage, however long, the port ends with  *)
(* the same outcome as the Go CLI, and with the same options.              *)
THEOREM Mirroring == Spec => []MirrorsGoByUsage
<1>1. IInv => Typed
  BY DEF IInv
<1>2. WithGo => MirrorsGoByUsage
  BY DEF WithGo, MirrorsGoByUsage
<1> QED
  BY <1>1, <1>2, Invariance, InitWithGo, NextWhole, NextWithGo, PTL DEF Spec

===============================================================================
