---------------------------- MODULE CpplintText ----------------------------
(* How cpplint.py strips comments and raw strings before it checks a file.  *)
(* A line is a record whose field toks holds the tokens that matter: "/*",  *)
(* "*/", "//", the opening R"( and closing )" of a raw string as "R(" and   *)
(* ")R", braces, parentheses and keywords.  A line is its index in the list *)
(* cpplint works on, the marker it puts in front being index 0.             *)
EXTENDS Integers, Sequences, SequencesExt

Has(s, tok) == tok \in Range(s)
\* The index of the first tok in s, which has one.
First(s, tok) == CHOOSE i \in DOMAIN s :
                    s[i] = tok /\ \A j \in 1 .. i - 1 : s[j] # tok
After(s, i) == SubSeq(s, i + 1, Len(s))
Before(s, i) == SubSeq(s, 1, i - 1)

\* A line: its tokens, its directive, the header it includes, its NOLINT
\* comment, its width, whether it is indented or part of a macro, what it is to
\* a function, its comment at the end of a namespace, the headers whose names it
\* needs, and whether it ends with a carriage return.
BlankLine == [toks |-> <<>>, pp |-> "none", inc |-> "none", nolint |-> {}, width |-> 0,
              indented |-> FALSE, macro |-> FALSE, fn |-> "blank", nsEnd |-> "none",
              uses |-> {}, cr |-> FALSE]

\* What is left of a line in a comment of several lines, or in a raw string.
Dummy(line) == [BlankLine EXCEPT !.cr = line.cr]
RawDummy(line) == [Dummy(line) EXCEPT !.fn = "code"]

StartsComment(line) == /\ line.toks # <<>>
                       /\ line.toks[1] = "/*"
                       /\ ~Has(Tail(line.toks), "*/")
EndsComment(line) == line.toks # <<>> /\ Last(line.toks) = "*/"

Least(S) == CHOOSE i \in S : \A j \in S : i <= j

FindNextMultiLineCommentStart(lines, i) ==
    Least({j \in i .. Len(lines) : StartsComment(lines[j])} \cup {Len(lines) + 1})

FindNextMultiLineCommentEnd(lines, i) ==
    Least({j \in i .. Len(lines) : EndsComment(lines[j])} \cup {Len(lines) + 1})

RemoveMultiLineCommentsFromRange(lines, begin, end) ==
    [i \in DOMAIN lines |-> IF i \in begin .. end THEN Dummy(lines[i]) ELSE lines[i]]

\* One turn of the loop: from is lineix, and an unclosed comment ends the loop.
RemoveMultiLineComment(a) ==
    LET begin == FindNextMultiLineCommentStart(a.lines, a.from)
        end == FindNextMultiLineCommentEnd(a.lines, begin)
    IN CASE a.unclosed # {} \/ begin > Len(a.lines) -> a
         [] a.unclosed = {} /\ begin <= Len(a.lines) /\ end > Len(a.lines) ->
              [a EXCEPT !.unclosed = {begin + 1}]
         [] OTHER -> [a EXCEPT !.lines = RemoveMultiLineCommentsFromRange(@, begin, end),
                               !.from = end + 1]

\* The lines without comments of several lines, and the line an unclosed one is
\* reported at, which is the one after it.  There are as many turns as lines at most.
RemoveMultiLineComments(lines) ==
    FoldLeft(LAMBDA a, line : RemoveMultiLineComment(a),
             [lines |-> lines, unclosed |-> {}, from |-> 1], lines)

\* The first raw string of a line, unless it is behind a //.
OpenRawString(a) ==
    LET i == First(a.toks, "R(")
        rest == After(a.toks, i)
    IN IF ~Has(a.toks, "R(") \/ Has(Before(a.toks, i), "//") THEN a
       ELSE IF Has(rest, ")R")
       THEN [a EXCEPT !.toks = Before(@, i) \o After(rest, First(rest, ")R"))]
       ELSE [toks |-> Before(a.toks, i), open |-> TRUE]

\* The beginnings of raw strings are replaced from left to right until one does
\* not end on the line.
OpenRawStrings(toks) ==
    FoldLeft(LAMBDA a, tok : OpenRawString(a), [toks |-> toks, open |-> FALSE], toks)

\* The line on which the raw string ends is dropped as a whole.
CleanseRawLine_Whole(acc, line) ==
    IF acc.open THEN [lines |-> Append(acc.lines, RawDummy(line)),
                      open |-> ~Has(line.toks, ")R")]
    ELSE [lines |-> Append(acc.lines, [line EXCEPT !.toks = OpenRawStrings(@).toks]),
          open |-> OpenRawStrings(line.toks).open]

\* One line of CleanseRawStrings: a line that begins inside a raw string keeps
\* what follows the end of the string, if it ends there.
CleanseRawLine(acc, line) ==
    LET inside == acc.open /\ ~Has(line.toks, ")R")
        rest == IF acc.open THEN After(line.toks, First(line.toks, ")R")) ELSE line.toks
        opened == OpenRawStrings(rest)
        code == IF acc.open THEN RawDummy(line) ELSE line
    IN IF inside THEN [lines |-> Append(acc.lines, code), open |-> TRUE]
       ELSE [lines |-> Append(acc.lines, [code EXCEPT !.toks = opened.toks]),
             open |-> opened.open]

CleanseRawStrings(lines) ==
    FoldLeft(CleanseRawLine, [lines |-> <<>>, open |-> FALSE], lines).lines

DropComment(toks) ==
    LET i == First(toks, "/*")
        rest == After(toks, i)
    IN IF Has(toks, "/*") /\ Has(rest, "*/")
       THEN Before(toks, i) \o After(rest, First(rest, "*/"))
       ELSE toks

DropComments(toks) == FoldLeft(LAMBDA left, tok : DropComment(left), toks, toks)

CleanseComments(toks) ==
    DropComments(IF Has(toks, "//") THEN Before(toks, First(toks, "//")) ELSE toks)

\* CleansedLines.elided: what the checks look at.
Elided(lines) ==
    LET cleansed == CleanseRawStrings(lines)
    IN [i \in DOMAIN lines |-> [cleansed[i] EXCEPT !.toks = CleanseComments(@)]]

----------------------------------------------------------------------------
(* The same as a lexer would do it: token by token, in code, in a raw       *)
(* string, in a comment, or in the rest of a line behind //.  from is where *)
(* on this line the comment began, 0 for an earlier line.  regular says     *)
(* that comments of several lines begin and end with their lines and that   *)
(* nothing looks like the beginning of one inside another.                  *)

LexToken(a, i, line) ==
    LET tok == line.toks[i]
        starts == tok \in {"R(", "/*", "//"}
    IN CASE a.mode = "code" -> IF starts THEN [a EXCEPT !.mode = tok, !.from = i]
                               ELSE [a EXCEPT !.out = Append(@, tok)]
         [] a.mode = "R(" -> IF tok = ")R" THEN [a EXCEPT !.mode = "code"]
                             ELSE [a EXCEPT !.regular = @ /\ ~(tok = "/*" /\ i = 1)]
         [] a.mode = "/*" -> IF tok = "*/"
                             THEN [a EXCEPT !.mode = "code",
                                            !.regular = @ /\ (a.from # 0 \/ i = Len(line.toks))]
                             ELSE [a EXCEPT !.regular = @ /\ (starts => a.from = 0)]
         [] OTHER -> a

LexLine(acc, line) ==
    LET a == FoldLeft(LAMBDA x, i : LexToken(x, i, line),
                      [mode |-> acc.mode, out |-> <<>>, from |-> 0, regular |-> acc.regular],
                      [i \in DOMAIN line.toks |-> i])
    IN [mode |-> IF a.mode = "//" THEN "code" ELSE a.mode,
        lines |-> Append(acc.lines, a.out),
        regular |-> a.regular /\ (a.mode = "/*" => a.from \in {0, 1})]

Lex(lines) == FoldLeft(LexLine, [mode |-> "code", lines |-> <<>>, regular |-> TRUE], lines)

Regular(lines) == Lex(lines).regular /\ Lex(lines).mode # "/*"
=============================================================================
