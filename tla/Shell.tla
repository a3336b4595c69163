------------------------------- MODULE Shell --------------------------------
(***************************************************************************)
(* The shell (CS558Assign1.cpp) and the program it runs each command with  *)
(* (child_executor.cpp).  The shell reads a line, answers exit and help    *)
(* itself and hands everything else to ./exec in a forked child, for which *)
(* it waits.  The child prepares the redirections and then executes.       *)
(* Assumed: ./exec is there, standard input is the terminal, and the lines *)
(* are not among those for which the shell reads past its arguments (only  *)
(* blanks, or help alone).                                                 *)
(***************************************************************************)
EXTENDS Naturals, Sequences, FiniteSetsExt, SequencesExt

CONSTANTS
  Lines,        \* bound: the lines a user may enter, sequences of tokens
  InitialFiles, \* [name -> content]; a content is a sequence of blocks
  PathOf,       \* [name -> sequence of components], the names mkdir is given
  HelpFile,     \* commandsArray: [command -> its help file]
  MaxCommands   \* bound: lines entered

Operators == {">", ">>"}
Names == DOMAIN InitialFiles
Absent == <<"absent">>    \* the content of a file that does not exist

ASSUME ShellAssumption ==
  /\ Lines \subseteq Seq(STRING) /\ <<"help">> \notin Lines
  /\ InitialFiles \in [Names -> Seq(STRING)] /\ Names \cap Operators = {}
  /\ PathOf \in [DOMAIN PathOf -> Seq(STRING)]
  /\ HelpFile \in [DOMAIN HelpFile -> Names]
  /\ MaxCommands \in Nat

\* Names and PathOf have the names that a line may use.
ASSUME NamesAssumption ==
  \A line \in Lines : \A i \in 2 .. Len(line) : line[i] \notin Operators =>
    /\ line[i - 1] \in Operators => line[i] \in Names
    /\ line[1] = "cat" => line[i] \in Names
    /\ line[1] = "help" /\ i > 2 => line[i] \in Names
    /\ line[1] = "mkdir" => line[i] \in DOMAIN PathOf

VARIABLES
  phase,        \* of the shell and its child: prompt, forked, prepared, exited, ended
  commandArgs,
  depth,        \* calls of startShell within each other
  entered,
  files, dirs,
  console,      \* what the last command wrote there
  line, before  \* the line entered, and the files when it was

vars == <<phase, commandArgs, depth, entered, files, dirs, console, line, before>>

Exists(fs, n) == fs[n] # Absent
IsDirectory(n) == n \in DOMAIN PathOf /\ PathOf[n] \in dirs

-----------------------------------------------------------------------------
(* The shell.                                                                *)

Init ==
  /\ phase = "prompt" /\ commandArgs = <<>> /\ depth = 1 /\ entered = 0
  /\ files = InitialFiles /\ dirs = {<<>>}
  /\ console = <<>> /\ line = <<>> /\ before = InitialFiles

\* An unknown command and one of too many arguments are reported and executed.
Fork(args) == phase' = "forked" /\ commandArgs' = args

\* Help is cat with the help file in place of the two words; the rest of the line,
\* a redirection too, is kept.
getHelp(l) ==
  IF l[2] \in DOMAIN HelpFile THEN Fork(<<"cat", HelpFile[l[2]]>> \o SubSeq(l, 3, Len(l)))
  ELSE UNCHANGED <<phase, commandArgs>>

executeCommand(l) ==
  CASE l[1] = "exit" -> /\ phase' = IF Len(l) = 1 THEN "ended" ELSE "prompt"
                        /\ UNCHANGED commandArgs
    [] l[1] = "help" -> getHelp(l)
    [] OTHER -> Fork(l)

\* An empty line starts the shell anew within itself.
Enter ==
  /\ phase = "prompt" /\ entered < MaxCommands
  /\ \E l \in Lines :
       /\ line' = l
       /\ IF l = <<>> THEN depth' = depth + 1 /\ UNCHANGED <<phase, commandArgs>>
                      ELSE UNCHANGED depth /\ executeCommand(l)
  /\ entered' = entered + 1 /\ before' = files /\ console' = <<>>
  /\ UNCHANGED <<files, dirs>>

Wait ==
  /\ phase = "exited" /\ phase' = "prompt"
  /\ commandArgs' = <<>>
  /\ UNCHANGED <<depth, entered, files, dirs, console, line, before>>

-----------------------------------------------------------------------------
(* The child: redirections.                                                  *)

Redirections == {i \in DOMAIN commandArgs : commandArgs[i] \in Operators}
redirectionPresent == Redirections # {}
initial_redirection_index == Min(Redirections)
final_redirection_index == Max(Redirections)

\* Mutant of Redirecting: the first operator decides.
FirstOperator == commandArgs[initial_redirection_index]

Redirecting == commandArgs[final_redirection_index]

\* The words after the first operator, and those of them that follow any number of
\* operators but one.
Targets == {i \in DOMAIN commandArgs \ Redirections : \E r \in Redirections : r < i}
Misplaced ==
  {i \in Targets : \/ i - 1 \notin Redirections
                   \/ i - 2 \in Redirections}

\* A file is created for every word before the first misplaced one.
Created == {commandArgs[i] : i \in {t \in Targets : \A b \in Misplaced : t < b}}

\* Mutant of calculateRedirectionIndicesIfPresent: the files are opened to be written.
TruncatesAll ==
  /\ phase = "forked"
  /\ files' = [n \in Names |-> IF n \in Created /\ ~ IsDirectory(n) THEN <<>> ELSE files[n]]
  /\ phase' = IF Misplaced = {} THEN "prepared" ELSE "exited"
  /\ UNCHANGED <<commandArgs, depth, entered, dirs, console, line, before>>

calculateRedirectionIndicesIfPresent ==
  /\ phase = "forked"
  /\ files' = [n \in Names |->
        IF n \in Created /\ ~ IsDirectory(n) /\ ~ Exists(files, n) THEN <<>> ELSE files[n]]
  /\ phase' = IF Misplaced = {} THEN "prepared" ELSE "exited"
  /\ UNCHANGED <<commandArgs, depth, entered, dirs, console, line, before>>

-----------------------------------------------------------------------------
(* The child: commands.                                                      *)

\* What is read of a name; a directory opens and reads as empty.
Content(fs, n) == IF IsDirectory(n) THEN <<>> ELSE fs[n]

\* Mutant of Sources: end_index is taken for one past the last.
SourcesButLast ==
  SubSeq(commandArgs, 2, IF redirectionPresent THEN initial_redirection_index - 2
                         ELSE Len(commandArgs) - 1)

Sources ==
  SubSeq(commandArgs, 2, IF redirectionPresent THEN initial_redirection_index - 1
                         ELSE Len(commandArgs))

\* The files and the console after the first k sources are copied to a target, or to
\* the console if there is none.  Each file is read whole when its turn comes: what
\* was written before, to the same file too, is read.
Copied(fs, targets) ==
  LET After[k \in 0 .. Len(Sources)] ==
        IF k = 0 THEN [files |-> fs, console |-> <<>>]
        ELSE LET so  == After[k - 1]
                 n   == Sources[k]
                 out == Content(so.files, n) \o (IF k < Len(Sources) THEN <<"newline">> ELSE <<>>)
             IN  IF ~ IsDirectory(n) /\ ~ Exists(so.files, n)
                 THEN [so EXCEPT !.console = Append(@, "missing")]
                 ELSE IF targets = {} THEN [so EXCEPT !.console = @ \o out]
                 ELSE [so EXCEPT !.files = [m \in Names |-> IF m \in targets THEN @[m] \o out ELSE @[m]]]
  IN  After[Len(Sources)]

\* What the user types until the end of input, and what a program prints.
Typed == {<<>>, <<"typed">>}
Printed == {<<>>, <<"printed">>}

Write(fs, targets, out) ==
  IF targets = {} THEN console' = out /\ UNCHANGED files
  ELSE /\ files' = [m \in Names |-> IF m \in targets THEN fs[m] \o out ELSE fs[m]]
       /\ UNCHANGED console

isCatCommandValid(fs, targets) ==
  IF Sources = <<>> THEN \E out \in Typed : Write(fs, targets, out)
  ELSE LET end == Copied(fs, targets) IN files' = end.files /\ console' = end.console

\* Opened as the last operator says: emptied, or written at its end.
Opened ==
  [m \in Names |->
     IF m = commandArgs[final_redirection_index + 1] /\ (Redirecting = ">" \/ ~ Exists(files, m))
     THEN <<>> ELSE files[m]]

\* With no name after the last operator, or a directory's, the child dies there.
redirectConsoleOutput ==
  IF final_redirection_index = Len(commandArgs)
       \/ IsDirectory(commandArgs[final_redirection_index + 1])
  THEN UNCHANGED <<files, console>>
  ELSE LET targets == {commandArgs[final_redirection_index + 1]}
       IN  CASE commandArgs[1] = "cat" -> isCatCommandValid(Opened, targets)
             [] commandArgs[1] = "top" -> Write(Opened, targets, <<"processes">>)
             [] OTHER -> \E out \in Printed : Write(Opened, targets, out)

IsPrefixOfFile(p) == \E n \in DOMAIN PathOf \cap Names : Exists(files, n) /\ PathOf[n] = p

\* mkdir: the parent is a directory and there is nothing of that name.
MayMake(D, p) == Front(p) \in D /\ p \notin D /\ ~ IsPrefixOfFile(p)

\* Mutant of createDirectory: the parents are not made.
MakesNoParents(D, path) == IF MayMake(D, path) THEN D \cup {path} ELSE D

\* The parents in turn, then the directory; one that exists is passed over.
createDirectory(D, path) ==
  LET Made[k \in 0 .. Len(path)] ==
        IF k = 0 THEN D
        ELSE IF MayMake(Made[k - 1], SubSeq(path, 1, k))
             THEN Made[k - 1] \cup {SubSeq(path, 1, k)} ELSE Made[k - 1]
  IN  Made[Len(path)]

mkdirCall ==
  LET Made[k \in 1 .. Len(commandArgs)] ==
        IF k = 1 THEN dirs ELSE createDirectory(Made[k - 1], PathOf[commandArgs[k]])
  IN  dirs' = Made[Len(commandArgs)]

\* A command that is none of these does nothing.  cd changes the directory of the
\* child, which ends with it: the files named later are the same.
Execute ==
  /\ phase = "prepared" /\ phase' = "exited"
  /\ CASE redirectionPresent -> redirectConsoleOutput /\ UNCHANGED dirs
       [] ~ redirectionPresent /\ commandArgs[1] = "cat" ->
            isCatCommandValid(files, {}) /\ UNCHANGED dirs
       [] ~ redirectionPresent /\ commandArgs[1] = "mkdir" ->
            mkdirCall /\ UNCHANGED <<files, console>>
       [] ~ redirectionPresent /\ commandArgs[1] = "top" ->
            console' = <<"processes">> /\ UNCHANGED <<files, dirs>>
       [] OTHER -> UNCHANGED <<files, dirs, console>>
  /\ UNCHANGED <<commandArgs, depth, entered, line, before>>

Next == Enter \/ calculateRedirectionIndicesIfPresent \/ Execute \/ Wait

Spec == Init /\ [][Next]_vars

-----------------------------------------------------------------------------
(* Of the line as it was entered.                                            *)

\* The operator that help is asked about redirects nothing.
OperatorPositions == {i \in DOMAIN line : line[i] \in Operators /\ ~ (line[1] = "help" /\ i = 2)}
LastOperator == Max(OperatorPositions \cup {0})
Redirected == LastOperator \in 1 .. Len(line) - 1
Target == line[LastOperator + 1]
Before(n) == IF Exists(before, n) THEN before[n] ELSE <<>>

\* However many redirections a line has, well formed or not, a file that is not the last
\* one named keeps its content; at most it is created empty.
OnlyLastFileChanges ==
  phase = "exited" =>
    \A n \in Names :
      (Redirected => n # Target) =>
        \/ files[n] = before[n]
        \/ ~ Exists(before, n) /\ files[n] = <<>>

\* The last operator decides: >> never loses what the file held, though the command
\* reads that very file, or an earlier > names it.
AppendKeeps ==
  phase = "exited" /\ Redirected /\ line[LastOperator] = ">>" =>
    IsPrefix(Before(Target), files[Target])

\* The blocks of the files a line asks to see, by cat or by help.
Asked ==
  LET first == Min(OperatorPositions)
      words == IF line[1] = "help" THEN <<HelpFile[line[2]]>> \o SubSeq(line, 3, first - 1)
               ELSE SubSeq(line, 2, first - 1)
  IN  words

\* What a file holds without the newlines that separate one source from the next.
Blocks(s) ==
  LET Kept[k \in 0 .. Len(s)] ==
        IF k = 0 THEN <<>>
        ELSE IF s[k] = "newline" THEN Kept[k - 1] ELSE Append(Kept[k - 1], s[k])
  IN  Kept[Len(s)]

\* cat or help with a redirection leaves in the file exactly the content of the files
\* named, in order, after what it held if the operator is >>; only a file that is both
\* read and written is another matter.
FileHoldsWhatWasAsked ==
  /\ phase = "exited" /\ Redirected /\ Misplaced = {}
  /\ line[1] \in {"cat", "help"} /\ Asked # <<>>
  /\ Target \notin ToSet(Asked) /\ ~ IsDirectory(Target)
  => Blocks(files[Target]) =
       Blocks((IF line[LastOperator] = ">" THEN <<>> ELSE Before(Target))
              \o FlattenSeq([i \in DOMAIN Asked |-> Content([n \in Names |-> Before(n)], Asked[i])]))

\* mkdir makes each directory it is given with all its parents, unless a file is in
\* the way.
MkdirMakesPaths ==
  phase = "exited" /\ line[1] = "mkdir" /\ LastOperator = 0 =>
    \A i \in 2 .. Len(line) :
      LET path == PathOf[line[i]]
      IN  path \in dirs \/ \E k \in 1 .. Len(path) : IsPrefixOfFile(SubSeq(path, 1, k))
=============================================================================
