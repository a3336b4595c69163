------------------------------ MODULE MCShell -------------------------------
(* The shell with two files, f and g, two help files, and a few directories.  *)
EXTENDS Shell

MCFiles == [n \in {"f", "g", "cat_help", "append"} |->
              IF n = "f" THEN <<"1">> ELSE IF n = "g" THEN Absent ELSE <<"help">>]

\* f/e lies within what may be a file or a directory.
MCPathOf == [n \in {"f", "g", "f/e", "d/e/g", "d/g"} |->
               CASE n = "f" -> <<"f">> [] n = "g" -> <<"g">> [] n = "f/e" -> <<"f", "e">>
                 [] n = "d/e/g" -> <<"d", "e", "g">> [] n = "d/g" -> <<"d", "g">>]

MCHelpFile == [c \in {"cat", ">>"} |-> IF c = "cat" THEN "cat_help" ELSE "append"]

Words(S, n) == UNION {[1 .. k -> S] : k \in 0 .. n}

CatLines == {<<"cat">> \o w : w \in Words({">", ">>", "f", "g"}, 5)}
HelpLines == {<<"help", c>> \o w : c \in DOMAIN MCHelpFile, w \in Words({">", ">>", "f"}, 3)}
OtherLines ==
  {<<c, o, n>> : c \in {"top", "ls"}, o \in Operators, n \in {"f", "g"}}
    \cup {<<">", "f">>, <<">", ">">>, <<"top">>, <<"ls">>, <<"help", "ls">>, <<"cd", "d">>,
          <<>>, <<"exit">>, <<"exit", "f">>}
MkdirLines == {<<"mkdir">> \o w : w \in Words(DOMAIN MCPathOf, 2)}

MCLines == CatLines \cup HelpLines \cup OtherLines \cup MkdirLines
=============================================================================
