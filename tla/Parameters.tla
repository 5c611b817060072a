----------------------------- MODULE Parameters -----------------------------
(***************************************************************************)
(* Command line parameters (r_params.c, with SetScaleIndex of              *)
(* build_support.c).  process_options walks the words of a command line;   *)
(* one option reads more of them from a file, where what is already set    *)
(* stays; another sets a second parameter of its own accord.               *)
(***************************************************************************)
EXTENDS Integers, FiniteSets, Sequences

CONSTANTS
  Options,      \* name |-> [type, default], the option table
  Means,        \* word with a dash |-> the options it is a prefix of
  PlainWords,   \* words without one
  Affirming,    \* the words that begin with Y
  Files,        \* the parameter files there are: name |-> <<word, value>>s
  ScaleIndexOf, \* the digits of a value of -SCALE
  MaxWords      \* bound on the words of a command line

VARIABLES
  words, next, step,   \* the command line, option_num and res
  params,              \* option |-> [value, set]
  outcome,             \* how process_options ended, "running" until then
  given, linesRead     \* what the command line and the files have said so far

parameterVars == <<words, next, step, params, outcome, given, linesRead>>

Dashed == DOMAIN Means
NoWord == "no word"
NotGiven == "not given"
ScaleIndex == "_SCALE_INDEX"

\* Nobody names the option _SCALE_INDEX, which is not in the help; files hold
\* options that take a value, or flags.
ASSUME ParametersAssumption ==
  /\ {"SCALE", ScaleIndex} \subseteq DOMAIN Options
  /\ Options["SCALE"].type = "value" /\ Options[ScaleIndex].type = "value"
  /\ \A w \in Dashed :
       IsFiniteSet(Means[w]) /\ Means[w] \subseteq DOMAIN Options \ {ScaleIndex}
  /\ Dashed \cup PlainWords \subseteq DOMAIN ScaleIndexOf
  /\ NotGiven \notin Dashed \cup PlainWords
  /\ ScaleIndexOf[Options["SCALE"].default] = Options[ScaleIndex].default
  /\ \A f \in DOMAIN Files :
       /\ Files[f] \in Seq(Dashed \X DOMAIN ScaleIndexOf)
       /\ \A i \in DOMAIN Files[f] : \A o \in Means[Files[f][i][1]] :
            Options[o].type \in {"flag", "value"}
  /\ MaxWords \in Nat

-----------------------------------------------------------------------------
\* fnd_param: a word names the only option that begins with it.
Known(word) == Cardinality(Means[word]) = 1
OptionNamed(word) == CHOOSE o \in Means[word] : TRUE

\* init_params.
Defaults == [o \in DOMAIN Options |-> [value |-> Options[o].default, set |-> FALSE]]

\* The value an option takes from the word after it.  A flag is set by a word
\* with a dash, by one that begins with Y and by none, and cleared by others.
Taken(o, word) ==
  IF Options[o].type = "flag"
  THEN IF word \in Dashed \cup Affirming \cup {NoWord} THEN "Y" ELSE "N"
  ELSE word

\* set_int, set_str, set_flg and clr_flg, and set_option's mark.
Store(p, o, word) == [p EXCEPT ![o] = [value |-> Taken(o, word), set |-> TRUE]]

\* set_option of a line of a file, whose options have no action but SCALE's.
SetOption(p, o, word) ==
  IF o = "SCALE"
  THEN Store(Store(p, ScaleIndex, ScaleIndexOf[word]), o, word)
  ELSE Store(p, o, word)

\* Mutant: a file replaces what is already set.
ReadLineOver(p, line) ==
  IF Known(line[1]) THEN SetOption(p, OptionNamed(line[1]), line[2]) ELSE p

\* A line of a file: unknown names and options already set are passed over.
ReadLine(p, line) ==
  IF Known(line[1]) /\ ~p[OptionNamed(line[1])].set
  THEN SetOption(p, OptionNamed(line[1]), line[2]) ELSE p

\* read_file.
ReadFile(p, lines) ==
  LET after[k \in 0 .. Len(lines)] ==
        IF k = 0 THEN p ELSE ReadLine(after[k - 1], lines[k])
  IN  after[Len(lines)]

\* is_set: of options that are not flags, also those with a default.
IsSet(p, o) ==
  IF Options[o].type = "flag" THEN p[o].value = "Y"
  ELSE p[o].set \/ Options[o].default # ""

-----------------------------------------------------------------------------
ParametersInit ==
  /\ words = <<>> /\ next = 1 /\ step = 1
  /\ params = Defaults /\ outcome = "running"
  /\ given = [o \in DOMAIN Options |-> NotGiven] /\ linesRead = <<>>

\* The command line is made up as it is read.
Write ==
  /\ next = 1 /\ step = 1 /\ Len(words) < MaxWords
  /\ \E w \in Dashed \cup PlainWords : words' = Append(words, w)
  /\ UNCHANGED <<next, step, params, outcome, given, linesRead>>

Reading == outcome = "running" /\ next <= Len(words)
Word == words[next]
NextWord == IF next = Len(words) THEN NoWord ELSE words[next + 1]

Ends(how) ==
  /\ outcome' = how /\ UNCHANGED <<words, next, step, params, given, linesRead>>

Advance(n) == step' = n /\ next' = next + n

\* Words without a dash go by the result of the option before them.
PassOver ==
  /\ Reading /\ Word \notin Dashed
  /\ Advance(step) /\ UNCHANGED <<words, params, outcome, given, linesRead>>

Refuse == Reading /\ Word \in Dashed /\ ~Known(Word) /\ Ends("usage")

SetFlag ==
  /\ Reading /\ Word \in Dashed /\ Known(Word)
  /\ LET o == OptionNamed(Word) IN
     /\ Options[o].type = "flag"
     /\ params' = Store(params, o, NextWord)
     /\ given' = [given EXCEPT ![o] = Taken(o, NextWord)]
  /\ Advance(1) /\ UNCHANGED <<words, outcome, linesRead>>

\* Options with a value.  Without a word to take it reads a null pointer; a
\* file that is not there, or help, prints the usage and exits.
SetValue ==
  /\ Reading /\ Word \in Dashed /\ Known(Word)
  /\ LET o == OptionNamed(Word) IN
     /\ Options[o].type \in {"value", "file"} /\ NextWord # NoWord
     /\ Options[o].type = "file" => NextWord \in DOMAIN Files
     /\ params' = SetOption(IF Options[o].type = "file"
                            THEN ReadFile(params, Files[NextWord]) ELSE params, o, NextWord)
     /\ given' = [given EXCEPT ![o] = NextWord]
     /\ linesRead' = IF Options[o].type = "file" THEN linesRead \o Files[NextWord]
                     ELSE linesRead
  /\ Advance(2) /\ UNCHANGED <<words, outcome>>

Exit ==
  /\ Reading /\ Word \in Dashed /\ Known(Word)
  /\ LET type == Options[OptionNamed(Word)].type IN
     \/ type = "exit" /\ Ends("usage")
     \/ type \in {"value", "file"} /\ NextWord = NoWord /\ Ends("crash")
     \/ /\ type = "file" /\ NextWord # NoWord /\ NextWord \notin DOMAIN Files
        /\ Ends("usage")

Finish == ~Reading /\ outcome = "running" /\ words # <<>> /\ Ends("done")

ParametersNext == Write \/ PassOver \/ Refuse \/ SetFlag \/ SetValue \/ Exit \/ Finish

ParametersSpec == ParametersInit /\ [][ParametersNext]_parameterVars

-----------------------------------------------------------------------------
\* What options have for a value.
Values ==
  {"Y", "N"} \cup DOMAIN ScaleIndexOf \cup {ScaleIndexOf[w] : w \in DOMAIN ScaleIndexOf}
    \cup {Options[o].default : o \in DOMAIN Options}

ParametersTypeOK ==
  /\ next \in 1 .. MaxWords + 2 /\ step \in 1 .. 2
  /\ params \in [DOMAIN Options -> [value : Values, set : BOOLEAN]]
  /\ outcome \in {"running", "usage", "crash", "done"}

\* The lines about option o in the files read, and what the first of them says.
LinesAbout(o) == {i \in DOMAIN linesRead : Means[linesRead[i][1]] = {o}}
FirstWord(o) ==
  linesRead[CHOOSE i \in LinesAbout(o) : \A j \in LinesAbout(o) : i <= j][2]

\* Wherever on the command line the file stands (r_params.c: set_option,
\* read_file, process_options), an option given there has the last value it was
\* given, one that only files name the first value they give it, the others
\* their default, and is_set tells those apart; the digits of the scale kept for
\* the distributions are those of the scale that was settled on.
CommandLineOverFile ==
  outcome = "done" =>
    /\ \A o \in DOMAIN Options \ {ScaleIndex} :
         /\ params[o].value =
              IF given[o] # NotGiven THEN given[o]
              ELSE IF LinesAbout(o) # {} THEN Taken(o, FirstWord(o))
              ELSE Options[o].default
         /\ Options[o].type # "flag" =>
              (IsSet(params, o) <=>
                 \/ given[o] # NotGiven \/ LinesAbout(o) # {}
                 \/ Options[o].default # "")
    /\ params[ScaleIndex].value = ScaleIndexOf[params["SCALE"].value]
=============================================================================
