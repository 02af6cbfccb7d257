----------------------------- MODULE MCCpplint -----------------------------
(* An instance of Cpplint for TLC.  The texts are every short sequence of   *)
(* lines of three kinds: blocks and conditionals, includes and conditionals *)
(* with NOLINT comments, and comments and raw strings.                      *)
EXTENDS Cpplint

MCHeaders == {"own", "c", "cpp", "other", "sibling", "source", "lua"}
Plainly == [system |-> FALSE, cpp |-> FALSE, base |-> "other", near |-> FALSE, source |-> FALSE, bare |-> FALSE]
MCName == [h \in MCHeaders |->
              CASE h = "own" -> [Plainly EXCEPT !.base = "same", !.near = TRUE]
                [] h = "c" -> [Plainly EXCEPT !.system = TRUE]
                [] h = "cpp" -> [Plainly EXCEPT !.system = TRUE, !.cpp = TRUE]
                [] h = "sibling" -> [Plainly EXCEPT !.base = "first component"]
                [] h = "source" -> [Plainly EXCEPT !.source = TRUE]
                [] h = "lua" -> [Plainly EXCEPT !.bare = TRUE]
                [] h = "other" -> [Plainly EXCEPT !.bare = TRUE]]
MCRank == [h \in MCHeaders |-> CASE h = "own" -> 2 [] h = "c" -> 1 [] h = "cpp" -> 3 [] OTHER -> 1]

Code(toks) == [BlankLine EXCEPT !.toks = toks, !.fn = IF toks = <<>> THEN "blank" ELSE "code"]
Directive(pp) == [BlankLine EXCEPT !.pp = pp, !.fn = "code"]
Include(h) == [Directive("include") EXCEPT !.inc = h]
Nolint(line, next, cat) == [line EXCEPT !.nolint = {[next |-> next, cat |-> cat]}]

Upto(S, k) == UNION {[1 .. j -> S] : j \in 0 .. k}

BlockLines ==
    {Code(<<"ns", "{">>), Code(<<"class">>), [Code(<<"}">>) EXCEPT !.fn = "end"], Directive("if"),
     Directive("else"), Directive("elif"), Directive("endif")}
OtherBlockLines ==
    {Code(<<"ns", "{", "ns", "{", "class", ";", "}", "}">>), [Code(<<"{">>) EXCEPT !.width = 90],
     [Code(<<"class", "{", "public">>) EXCEPT !.indented = TRUE], Code(<<"class", ">", ")">>),
     [Code(<<"class", ";">>) EXCEPT !.indented = TRUE],
     Code(<<"ns", ";">>), Code(<<"asm", "(">>), Code(<<")">>), Code(<<"asm", "{">>), Code(<<"extern", "{">>),
     [Code(<<"(", "{">>) EXCEPT !.fn = "start"], [Code(<<"(", ";">>) EXCEPT !.fn = "start"],
     [Code(<<"(">>) EXCEPT !.fn = "start"],
     [Code(<<"}">>) EXCEPT !.nsEnd = "right", !.cr = TRUE], [Code(<<"}">>) EXCEPT !.nsEnd = "wrong"]}
IncludeLines ==
    {Include("own"), Include("c"), Include("cpp"), Directive("if"), Directive("else"), Directive("endif")}
OtherIncludeLines ==
    {Include("other"), Include("sibling"), Include("source"), Include("lua"), Nolint(Include("c"), FALSE, <<"build", "include">>),
     Nolint(Directive("endif"), TRUE, All), Nolint(Code(<<>>), FALSE, None),
     Nolint(Directive("endif"), FALSE, <<"build", "header_guard">>),
     [Code(<<";">>) EXCEPT !.uses = {"c"}]}
Markers == {"R(", ")R", "/*", "*/", "//", "{"}
MarkedLines(k) == {Code(toks) : toks \in Upto(Markers, k)}

Contents ==
    UNION {[1 .. 5 -> BlockLines],
           [1 .. 3 -> BlockLines \cup OtherBlockLines],
           [1 .. 5 -> IncludeLines],
           [1 .. 2 -> IncludeLines \cup OtherIncludeLines],
           {<<a, b, c>> : a \in MarkedLines(2), b \in MarkedLines(1), c \in MarkedLines(2)},
           {<<a, b>> : a \in MarkedLines(4), b \in MarkedLines(1)}}

Plain(lines) == [lines |-> lines, copyright |-> TRUE, guard |-> {}, suppressed |-> {}, newline |-> TRUE]
Short(k) == [1 .. k -> IncludeLines \cup OtherIncludeLines]
MCTexts ==
    "any" :> {Plain(lines) : lines \in Contents}
    @@ "guarded" :> {[Plain(lines) EXCEPT !.copyright = FALSE, !.guard = g, !.suppressed = s, !.newline = FALSE] :
                        lines \in Short(2), g \in {{"none"}, {"style"}, {"style", "endif"}},
                        s \in {{}, {<<"build", "header_guard">>, <<"legal", "copyright">>}}}
    @@ "short" :> {Plain(lines) : lines \in Short(1)}

Filter(plus, prefix) == [plus |-> plus, prefix |-> prefix]
Option(name, val) == [name |-> name, val |-> val]
Config(options) == [readable |-> TRUE, options |-> options]
Inner == Config(<<Option("filter", <<Filter(TRUE, <<"build">>)>>), Option("linelength", 100)>>)
Outer == Config(<<Option("headers", {"hpp"}), Option("filter", <<Filter(FALSE, <<"build", "include">>)>>),
                  Option("noparent", TRUE), Option("filter", <<Filter(TRUE, <<"legal">>)>>)>>)
Beyond == Config(<<Option("exclude_files", TRUE)>>)
File(kind, ext, cfgs) ==
    [kind |-> kind, ext |-> ext, readable |-> TRUE, cfgs |-> cfgs, own |-> {"own"}, ownIncludes |-> {"c"}]

MCInputs ==
    {<<File("any", "cc", <<Inner, Outer, Beyond>>)>>,
     <<File("any", "hpp", <<>>), File("any", "cc", <<Beyond, Inner>>),
       File("guarded", "h", <<Inner, [Outer EXCEPT !.readable = FALSE]>>), File("short", "cc", <<>>)>>,
     <<[File("any", "cc", <<Inner>>) EXCEPT !.readable = FALSE], File("short", "hpp", <<Outer>>),
       File("short", "cc", <<>>)>>}
MCOptions == {[verbose |-> 1, counting |-> "detailed", line_length |-> 80, filters |-> <<>>]}
=============================================================================
