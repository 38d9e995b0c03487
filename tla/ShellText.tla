------------------------------ MODULE ShellText ------------------------------
(***************************************************************************)
(* When a shell command counts as a run of the tests.  A command is a      *)
(* sequence of tokens: the words "test" (what a validation pattern matches)*)
(* and "word", and the characters the masking and a shell look at.         *)
(*                                                                         *)
(* RecognisedValidation is the code: it blanks what is quoted or commented *)
(* out and searches the rest for the pattern.  RunsTests is the reference: *)
(* it splits the command into simple commands and runs them the way a      *)
(* shell does, each one or not by how those before it ended.               *)
(***************************************************************************)
EXTENDS Integers, Sequences, SequencesExt

Quotes == {"'", "\""}
Blanks == {" ", "\n"}

\* The scanner after each token: what it blanks comes out as a blank.
MaskStep(s, c) ==
  LET Goes(quote, escaped, comment, out) ==
        [quote |-> quote, escaped |-> escaped, comment |-> comment, before |-> c,
         out |-> Append(s.out, out)]
      Inside == s.quote # ""
  IN  IF s.comment THEN Goes("", FALSE, c # "\n", IF c = "\n" THEN c ELSE " ")
      ELSE IF s.escaped THEN Goes(s.quote, FALSE, FALSE, IF Inside THEN " " ELSE c)
      ELSE IF c = "\\" /\ s.quote # "'" THEN Goes(s.quote, TRUE, FALSE, IF Inside THEN " " ELSE c)
      ELSE IF Inside THEN Goes(IF c = s.quote THEN "" ELSE s.quote, FALSE, FALSE, " ")
      ELSE IF c \in Quotes THEN Goes(c, FALSE, FALSE, " ")
      ELSE IF c = "#" /\ s.before \in Blanks THEN Goes("", FALSE, TRUE, " ")
      ELSE Goes("", FALSE, FALSE, c)

ExecutableShellText(command) ==
  FoldLeft(MaskStep,
           [quote |-> "", escaped |-> FALSE, comment |-> FALSE, before |-> " ", out |-> <<>>],
           command).out

\* A single & anywhere in the text that is left.
Background(text) ==
  \E i \in DOMAIN text :
    /\ text[i] = "&"
    /\ i = 1 \/ text[i - 1] # "&"
    /\ i = Len(text) \/ text[i + 1] # "&"

\* The default patterns: at the start or after &&, || or ;, and a blank or the end follows.
Matches(text, i) ==
  /\ text[i] = "test"
  /\ i = Len(text) \/ text[i + 1] \in Blanks
  /\ \/ i = 1
     \/ \E j \in 1..(i - 1) :
          /\ text[j] = ";" \/ (j > 1 /\ text[j] \in {"&", "|"} /\ text[j - 1] = text[j])
          /\ \A k \in (j + 1)..(i - 1) : text[k] \in Blanks

RecognisedValidation(command) ==
  \E text \in {ExecutableShellText(command)} :
    ~Background(text) /\ \E i \in DOMAIN text : Matches(text, i)

-----------------------------------------------------------------------------
(* The reference *)

\* The reader of a shell: the word in the making, the words of the simple command
\* and the commands before it, each with the operator that ends it.  "op" is the
\* operator character read last, if nothing came since.  "plain" is lost at a quote
\* or a comment that does not follow a blank, a quoted program name, or a backslash
\* outside quotes.
LexStep(s, c) ==
  LET Literal == [s EXCEPT !.word = Append(@, c), !.open = TRUE, !.escaped = FALSE, !.op = ""]
      WordEnd == [s EXCEPT !.words = IF s.open THEN Append(@, s.word) ELSE @,
                           !.word = <<>>, !.open = FALSE, !.op = ""]
      CommandEnd ==
        [WordEnd EXCEPT !.words = <<>>, !.op = c, !.comment = FALSE,
           !.commands = Append(@, [words |-> WordEnd.words, ends |-> c])]
      LineEnd ==  \* a line with nothing on it ends no command
        IF WordEnd.words = <<>> THEN [s EXCEPT !.comment = FALSE, !.op = ""] ELSE CommandEnd
      Read ==
        CASE s.comment -> IF c = "\n" THEN LineEnd ELSE s
          [] ~s.comment /\ (s.escaped \/ (s.quote = "'" /\ c # "'")) -> Literal
          [] OTHER ->
             CASE c = "\\" -> [s EXCEPT !.escaped = TRUE, !.open = TRUE, !.op = "",
                                        !.plain = @ /\ s.quote # ""]
               [] c # "\\" /\ s.quote # "" -> IF c = s.quote THEN [s EXCEPT !.quote = ""] ELSE Literal
               [] OTHER ->
                  CASE c \in Quotes -> [s EXCEPT !.quote = c, !.open = TRUE, !.op = "",
                                                 !.plain = @ /\ s.before = " " /\ s.words # <<>>]
                    [] c = "#" /\ ~s.open -> [s EXCEPT !.comment = TRUE, !.op = "",
                                                       !.plain = @ /\ s.before \in Blanks]
                    [] c = " " -> WordEnd
                    [] c = "\n" -> LineEnd
                    [] c \in {"&", "|"} /\ c = s.op ->
                         [s EXCEPT !.op = "", !.commands[Len(s.commands)].ends = IF c = "&" THEN "&&" ELSE "||"]
                    [] c = ";" \/ (c \in {"&", "|"} /\ c # s.op) -> CommandEnd
                    [] OTHER -> Literal
  IN  [Read EXCEPT !.before = c]

Lexed(command) ==
  FoldLeft(LexStep,
           [quote |-> "", escaped |-> FALSE, comment |-> FALSE, op |-> "", plain |-> TRUE,
            before |-> " ", word |-> <<>>, open |-> FALSE, words |-> <<>>, commands |-> <<>>],
           command)

SimpleCommands(command) ==
  LET s == Lexed(command)
      words == IF s.open THEN Append(s.words, s.word) ELSE s.words
  IN  IF words = <<>> THEN s.commands ELSE Append(s.commands, [words |-> words, ends |-> ""])

\* What a shell does with the commands, when the i-th one, if it runs, ends with
\* results[i]: which ones run, and the status of the line after each of them.
Run(commands, results) ==
  LET run[i \in 0..Len(commands)] ==
        LET joint == IF i < 2 THEN ";" ELSE commands[i - 1].ends
            ran == CASE joint = "&&" -> run[i - 1].ok
                     [] joint = "||" -> ~run[i - 1].ok
                     [] joint = "|"  -> run[i - 1].ran
                     [] OTHER        -> TRUE
        IN  IF i = 0 THEN [ran |-> TRUE, ok |-> TRUE]
            ELSE [ran |-> ran, ok |-> IF ran THEN results[i] ELSE run[i - 1].ok]
  IN  run

Joins == {"&&", "||", "|"}

\* The shell waits for command i: the list it is joined to does not end in a single &.
Waited(commands, i) ==
  commands[Min({k \in i..Len(commands) : k = Len(commands) \/ commands[k].ends \notin Joins})].ends # "&"

IsTest(simple) == simple.words # <<>> /\ simple.words[1] = <<"test">>

\* The line cannot end well unless a shell ran the tests and waited for them.
RunsTests(command) ==
  LET commands == SimpleCommands(command)
      last == Len(commands)
  IN  \A results \in [1..last -> BOOLEAN] :
        (Run(commands, results)[last].ok \/ commands[last].ends = "&")
          => \E i \in 1..last : /\ IsTest(commands[i]) /\ Waited(commands, i)
                               /\ Run(commands, results)[i].ran

\* A command before the tests decides whether they run, and the line goes on without them.
Skippable(commands, i) ==
  /\ i > 1
  /\ \/ commands[i - 1].ends = "||"
     \/ /\ commands[i - 1].ends = "&&"
        /\ \E k \in i..(Len(commands) - 1) : commands[k].ends \in {"||", ";", "\n"}

\* A whole command line without the forms the masking does not claim to read, and
\* without tests that may be skipped, which the code counts as run all the same.
PlainlyWritten(command) ==
  LET commands == SimpleCommands(command)
  IN  /\ Lexed(command).plain /\ Lexed(command).quote = "" /\ ~Lexed(command).escaped
      /\ \A i \in DOMAIN commands :
           /\ commands[i].words # <<>>
           /\ i = Len(commands) => commands[i].ends \notin Joins
           /\ IsTest(commands[i]) => ~Skippable(commands, i)
=============================================================================
