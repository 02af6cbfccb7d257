------------------------------ MODULE Cpplint ------------------------------
(* cpplint.py: a list of files is linted one after the other, each line by  *)
(* line, by checks that share module-wide state: filters, options from      *)
(* CPPLINT.cfg files, NOLINT suppressions, and per file the includes, the   *)
(* current function and the nesting of blocks.                              *)
(*                                                                          *)
(* A category is a pair such as <<"build", "include">>.  A filter is        *)
(* [plus, prefix], the prefix being a sequence of at most two.  A header's  *)
(* place in alphabetical order, whether it is a third party's, and how its  *)
(* name compares with the file's are data of the header.                    *)
EXTENDS CpplintNesting, FiniteSetsExt

CONSTANTS Headers,       \* the names that are included
          Name,          \* what _ClassifyInclude and CheckIncludeLine look at
          Rank,          \* their places in alphabetical order, from 1
          ThirdParty,    \* the ones that are not tracked
          Inputs,        \* sequences of files given on the command line
          Texts,         \* what may be in a file of each kind
          Options,       \* sets of command line options
          ShortNamespace, \* 10: namespaces with fewer lines need no comment
          Trigger        \* _NORMAL_TRIGGER at the verbosity in use

\* What the command line gives: filters, and files with their CPPLINT.cfg files
\* and texts.
IsSequence(s) == s \in Seq(Range(s))
IsConfig(c) ==
    /\ IsSequence(c.options)
    /\ \A o \in Range(c.options) :
          /\ o.name \in {"noparent", "filter", "exclude_files", "linelength", "headers"}
          /\ o.name = "filter" => IsSequence(o.val)
          /\ o.name = "exclude_files" => o.val \in BOOLEAN
IsInput(f) ==
    /\ IsSequence(f.cfgs) /\ \A c \in Range(f.cfgs) : IsConfig(c)
    /\ \A t \in Texts[f.kind] : "lines" \in DOMAIN t /\ IsSequence(t.lines)
ASSUME InputAssumption == \A files \in Inputs : IsSequence(files) /\ \A f \in Range(files) : IsInput(f)
ASSUME OptionAssumption == \A c \in Options : IsSequence(c.filters)

VARIABLES cmd,        \* the options of the command line
          todo,       \* files not processed yet
          text,       \* the current file, its lines and CleansedLines
          n,          \* the line to process next, 0 between files
          lint,       \* _cpplint_state
          opts,       \* _line_length, _hpp_headers, _valid_extensions
          nolint,     \* _error_suppressions and _global_error_suppressions
          includes,   \* _IncludeState
          function,   \* _FunctionState
          nesting,    \* NestingState
          exit,       \* the exit status, Running before
          \* History: the conditionals around the current line, the stack the
          \* lines the compiler takes lead to, and what was included where.
          conds, taken, seen, dups, tangled

vars == <<cmd, todo, text, n, lint, opts, nolint, includes, function, nesting, exit,
          conds, taken, seen, dups, tangled>>

All == <<"*">>
None == "none"
Running == -1
Err(line, cat, confidence) == [line |-> line, cat |-> cat, conf |-> confidence]
When(cond, e) == IF cond THEN <<e>> ELSE <<>>

----------------------------------------------------------------------------
(* Errors: filters, suppressions and counting.                              *)

\* The newest filter that the category starts with decides.
IsFiltered(filters, cat) ==
    FoldLeft(LAMBDA b, f : IF IsPrefix(f.prefix, cat) THEN ~f.plus ELSE b, FALSE, filters)

IsErrorSuppressedByNolint(supp, cat, line) ==
    cat \in supp.global \/ <<cat, line>> \in supp.lines \/ <<All, line>> \in supp.lines

ShouldPrintError(l, supp, e) ==
    /\ ~IsErrorSuppressedByNolint(supp, e.cat, e.line)
    /\ e.conf >= l.verbose
    /\ ~IsFiltered(l.filters, e.cat)

\* The errors with these categories are counted, and by category if asked for.
IncrementErrorCount(l, cats) ==
    LET keys == [k \in DOMAIN cats |-> IF l.counting = "detailed" THEN cats[k] ELSE SubSeq(cats[k], 1, 1)]
    IN [l EXCEPT !.count = @ + Len(cats),
                 !.by_category = IF l.counting \in {"toplevel", "detailed"}
                                 THEN [c \in DOMAIN @ \cup Range(keys) |->
                                          (IF c \in DOMAIN @ THEN @[c] ELSE 0)
                                          + Cardinality({k \in DOMAIN keys : keys[k] = c})]
                                 ELSE @]

\* Error() for a sequence of errors: none of them changes which are shown.
Report(l, supp, errors) ==
    LET shown == SelectSeq(errors, LAMBDA e : ShouldPrintError(l, supp, e))
    IN IncrementErrorCount(l, [k \in DOMAIN shown |-> shown[k].cat])

\* The NOLINT comment of a line, if it has one.
ParseNolintSuppressions(supp, line, i) ==
    [supp EXCEPT !.lines = @ \cup {<<c.cat, IF c.next THEN i + 1 ELSE i>> :
                                      c \in {d \in line.nolint : d.cat # None}}]
NolintErrors(line, i) ==
    SetToSeq({Err(i, <<"readability", "nolint">>, 5) : c \in {d \in line.nolint : d.cat = None}})

\* The suppressions of the previous file are kept.
ResetNolintSuppressions_Kept(supp) == supp
ResetNolintSuppressions(supp) == [lines |-> {}, global |-> {}]

\* The categories a comment for an editor or for the kernel turns off.
ProcessGlobalSuppresions(supp, t) == [supp EXCEPT !.global = @ \cup t.suppressed]

----------------------------------------------------------------------------
(* Includes.                                                                *)

NewIncludeState == [list |-> << <<>> >>, section |-> 0, last |-> 0]

\* #else leaves the includes of the branch before it in place.
ResetSection_Kept(inc, directive) ==
    [list |-> IF directive = "if" THEN Append(inc.list, <<>>) ELSE inc.list, section |-> 0, last |-> 0]

ResetSection(inc, directive) ==
    [list |-> CASE directive = "if" -> Append(inc.list, <<>>)
                [] directive \in {"else", "elif"} -> Append(Front(inc.list), <<>>)
                [] OTHER -> inc.list,
     section |-> 0, last |-> 0]

\* Every header in the list with its line.
Included(inc) == UNION {Range(inc.list[i]) : i \in DOMAIN inc.list}
FindHeader(inc, h) == \E p \in Included(inc) : p[1] = h

\* Kinds: 1 C and 2 C++ system headers, 3 and 4 likely and possibly the file's
\* own header, 5 other.
ClassifyInclude(h) ==
    CASE Name[h].system -> IF Name[h].cpp THEN 2 ELSE 1
      [] ~Name[h].system /\ Name[h].base = "same" /\ Name[h].near -> 3
      [] ~Name[h].system /\ (Name[h].base = "same" => ~Name[h].near) ->
           IF Name[h].base \in {"same", "first component"} THEN 4 ELSE 5

\* Sections: 1 the file's own header, 2 C, 3 C++, 4 other.
CheckNextIncludeOrder(inc, kind) ==
    LET limit == IF kind \in {1, 2} THEN kind + 1 ELSE 1
        section == CASE kind = 5 -> 4
                     [] inc.section <= limit -> limit
                     [] kind \in {3, 4} -> 4
                     [] OTHER -> inc.section
        wrong == kind \in {1, 2} /\ inc.section > limit
    IN [wrong |-> wrong,
        inc |-> [inc EXCEPT !.section = section,
                            !.last = IF wrong \/ section # inc.section THEN 0 ELSE @]]

IsInAlphabeticalOrder(inc, h, afterInclude) == inc.last <= Rank[h] \/ ~afterInclude

\* A header that is found, is a source file of another package or a third
\* party's is not added to the list.
CheckIncludeLine(inc, h, i, afterInclude) ==
    LET dup == FindHeader(inc, h)
        added == [inc EXCEPT !.list = Append(Front(@), Append(Last(@), <<h, i>>))]
        order == CheckNextIncludeOrder(added, ClassifyInclude(h))
        bare == When(Name[h].bare /\ h \notin ThirdParty, Err(i, <<"build", "include">>, 4))
    IN IF dup \/ Name[h].source \/ h \in ThirdParty
       THEN [inc |-> inc, errors |-> bare \o When(dup \/ Name[h].source, Err(i, <<"build", "include">>, 4))]
       ELSE [inc |-> [order.inc EXCEPT !.last = Rank[h]],
             errors |-> bare \o When(order.wrong, Err(i, <<"build", "include_order">>, 4))
                        \o When(~IsInAlphabeticalOrder(order.inc, h, afterInclude),
                                Err(i, <<"build", "include_alpha">>, 4))]

----------------------------------------------------------------------------
(* Lengths of functions.  A line starts a function when fn is "start"; the  *)
(* first brace or semicolon from there on says whether it has a body.       *)

NewFunctionState == [in_a_function |-> FALSE, lines |-> 0]
Begin == [in_a_function |-> TRUE, lines |-> 0]
CountLine(fn) == [fn EXCEPT !.lines = IF fn.in_a_function THEN @ + 1 ELSE @]
End(fn) == [fn EXCEPT !.in_a_function = FALSE]

\* The level of the error is at least the verbosity, which the trigger follows.
Check(fn, i) == When(fn.in_a_function /\ fn.lines > Trigger,
                     Err(i, <<"readability", "fn_size">>, lint.verbose))

CheckForFunctionLengths(fn, line, i, lines) ==
    LET ends == {j \in i .. Len(lines) : \E t \in {";", "}", "{"} : Has(lines[j].toks, t)}
        body == ends # {} /\ ~Has(lines[Least(ends)].toks, ";") /\ ~Has(lines[Least(ends)].toks, "}")
    IN CASE line.fn = "start" ->
              [fn |-> IF body THEN Begin ELSE fn,
               errors |-> When(ends = {}, Err(i, <<"readability", "fn_size">>, 5))]
         [] line.fn = "end" -> [fn |-> End(fn), errors |-> Check(fn, i)]
         [] line.fn = "code" -> [fn |-> CountLine(fn), errors |-> <<>>]
         [] OTHER -> [fn |-> fn, errors |-> <<>>]

----------------------------------------------------------------------------
(* The files.  f.cfgs are the CPPLINT.cfg files from the file's directory   *)
(* upwards; an option has a name and a value, a filter option's value is a  *)
(* sequence of filters, and exclude_files says whether it matches.          *)

ProcessHppHeadersOption(o, exts) == [o EXCEPT !.hpp = exts, !.valid = @ \cup exts]

ConfigOption(a, o) ==
    CASE a.skip -> a
      [] ~a.skip /\ o.name = "noparent" -> [a EXCEPT !.look = FALSE]
      [] ~a.skip /\ o.name = "filter" -> [a EXCEPT !.filters = <<o.val>> \o @]
      [] ~a.skip /\ o.name = "exclude_files" -> [a EXCEPT !.skip = o.val]
      [] ~a.skip /\ o.name = "linelength" -> [a EXCEPT !.opts.line_length = o.val]
      [] ~a.skip /\ o.name = "headers" -> [a EXCEPT !.opts = ProcessHppHeadersOption(@, o.val)]

ConfigFile(a, c) ==
    CASE a.skip \/ ~a.look -> a
      [] ~a.skip /\ a.look /\ ~c.readable -> [a EXCEPT !.look = FALSE]
      [] OTHER -> FoldLeft(ConfigOption, a, c.options)

ProcessConfigOverrides(f) ==
    FoldLeft(ConfigFile, [filters |-> <<>>, look |-> TRUE, skip |-> FALSE, opts |-> opts], f.cfgs)

DefaultFilters == <<[plus |-> FALSE, prefix |-> <<"build", "include_alpha">>]>>
SetFilters(filters) == DefaultFilters \o filters
AddFilters(l, filters) == [l EXCEPT !.filters = @ \o FlattenSeq(filters)]
NewCppLintState(c) ==
    [verbose |-> c.verbose, counting |-> c.counting, count |-> 0, by_category |-> <<>>,
     filters |-> SetFilters(c.filters), backup |-> DefaultFilters]
BackupFilters(l) == [l EXCEPT !.backup = l.filters]
RestoreFilters(l) == [l EXCEPT !.filters = l.backup]

\* The checks before the first line: they see no NOLINT comment but the ones at
\* the header guard.  guard is the set of what is wrong with it.
CheckForHeaderGuard(l, supp, t) ==
    LET exempt == \E i \in DOMAIN t.lines : [next |-> FALSE, cat |-> <<"build", "header_guard">>] \in t.lines[i].nolint
        ifs == {i \in DOMAIN t.lines : t.lines[i].pp = "if"}
        endifs == {i \in DOMAIN t.lines : t.lines[i].pp = "endif"}
        At(a, i, wrong, confidence) ==
            LET parsed == ParseNolintSuppressions(a.nolint, t.lines[i], i)
            IN [nolint |-> parsed,
                lint |-> Report(a.lint, parsed, NolintErrors(t.lines[i], i)
                                  \o (IF wrong THEN <<Err(i, <<"build", "header_guard">>, confidence)>> ELSE <<>>))]
        styled == IF "style" \in t.guard THEN At([lint |-> l, nolint |-> supp], Min(ifs), TRUE, 0)
                  ELSE [lint |-> l, nolint |-> supp]
    IN CASE exempt -> [lint |-> l, nolint |-> supp]
         [] ~exempt /\ (ifs = {} \/ endifs = {} \/ "none" \in t.guard) ->
              [lint |-> Report(l, supp, <<Err(0, <<"build", "header_guard">>, 5)>>), nolint |-> supp]
         [] OTHER -> At(styled, Max(endifs), "endif" \in t.guard, 5)

CheckForCopyright(t) == When(~t.copyright, Err(0, <<"legal", "copyright">>, 5))

BeginFile(l, f, t) ==
    LET reset == ResetNolintSuppressions(nolint)
        l1 == Report(l, reset, CheckForCopyright(t))
        global == ProcessGlobalSuppresions(reset, t)
        removed == RemoveMultiLineComments(t.lines)
        l2 == Report(l1, global, SetToSeq({Err(i, <<"readability", "multiline_comment">>, 5) : i \in removed.unclosed}))
        raw == [t EXCEPT !.lines = removed.lines]
        checked == IF f.ext \in opts'.hpp THEN CheckForHeaderGuard(l2, global, raw)
                   ELSE [lint |-> l2, nolint |-> global]
    IN [text |-> [lines |-> removed.lines, source |-> t.lines, elided |-> Elided(removed.lines),
                  newline |-> t.newline, suppressed |-> t.suppressed],
        lint |-> checked.lint, nolint |-> checked.nolint]

----------------------------------------------------------------------------
Init == /\ cmd \in Options
        /\ todo \in Inputs
        /\ text = [lines |-> <<>>] /\ n = 0 /\ exit = Running
        /\ lint = NewCppLintState(cmd)
        /\ opts = [line_length |-> cmd.line_length, hpp |-> {"h"}, valid |-> {"cc", "h"}]
        /\ nolint = [lines |-> {}, global |-> {}]
        /\ includes = NewIncludeState
        /\ function = NewFunctionState
        /\ nesting = NewNestingState
        /\ conds = <<>> /\ taken = <<>> /\ seen = {} /\ dups = {} /\ tangled = FALSE

\* A file that is excluded, cannot be read or has no known extension.
SkipFile ==
    /\ n = 0 /\ todo # <<>>
    /\ LET c == ProcessConfigOverrides(Head(todo))
           filtered == IF c.skip THEN BackupFilters(lint) ELSE AddFilters(BackupFilters(lint), c.filters)
       IN /\ \/ c.skip
             \/ ~c.skip /\ ~Head(todo).readable
             \/ ~c.skip /\ Head(todo).ext \notin c.opts.valid
          /\ opts' = c.opts
          /\ lint' = RestoreFilters(filtered)
    /\ todo' = Tail(todo)
    /\ UNCHANGED <<cmd, text, n, nolint, includes, function, nesting, exit, conds, taken, seen, dups, tangled>>

\* ProcessFile up to the first line of the file.
ProcessFile ==
    /\ n = 0 /\ todo # <<>> /\ Head(todo).readable
    /\ LET f == Head(todo)
           c == ProcessConfigOverrides(f)
       IN /\ ~c.skip /\ f.ext \in c.opts.valid
          /\ opts' = c.opts
          /\ \E t \in Texts[f.kind] : LET b == BeginFile(AddFilters(BackupFilters(lint), c.filters), f, t)
                               IN text' = b.text /\ lint' = b.lint /\ nolint' = b.nolint
    /\ n' = 1
    /\ includes' = NewIncludeState
    /\ function' = NewFunctionState
    /\ nesting' = NewNestingState
    /\ conds' = <<>> /\ taken' = <<>> /\ seen' = {} /\ dups' = {} /\ tangled' = FALSE
    /\ UNCHANGED <<cmd, todo, exit>>

\* The end of a namespace needs a comment when it is long, and a right one when
\* it has one.
NamespaceErrors(ended, line, i) ==
    [k \in DOMAIN SelectSeq(ended, LAMBDA b : /\ IsNamespace(b) /\ line.nsEnd # "right"
                                               /\ (i - b.start >= ShortNamespace \/ line.nsEnd = "wrong"))
        |-> Err(i, <<"readability", "namespace">>, 5)]

\* The width of a line, but for the lines that cannot be split.
CheckLineLength(line, i) ==
    When(line.pp # "include" /\ line.width > opts.line_length, Err(i, <<"whitespace", "line_length">>, 2))

\* What CheckLanguage does to the includes.
CheckLanguage(inc, lines, i) ==
    LET line == lines[i]
    IN CASE line.pp = "include" -> CheckIncludeLine(inc, line.inc, i, i > 1 /\ lines[i - 1].pp = "include")
         [] line.pp \in {"if", "else", "elif", "endif"} -> [inc |-> ResetSection(inc, line.pp), errors |-> <<>>]
         [] OTHER -> [inc |-> inc, errors |-> <<>>]

\* ProcessLine without the checks that only look at the line: the nesting, and
\* unless the line is inline assembly the function, the width and the includes.
Lint(line, raw, i) ==
    LET lines == text.elided
        supp == ParseNolintSuppressions(nolint, raw, i)
        nest == Update(nesting, lines, i)
        asm == InAsmBlock(nest.stack)
        fn == IF asm THEN [fn |-> function, errors |-> <<>>]
              ELSE CheckForFunctionLengths(function, line, i, lines)
        inc == IF asm THEN [inc |-> includes, errors |-> <<>>] ELSE CheckLanguage(includes, lines, i)
        errors == NolintErrors(raw, i) \o NamespaceErrors(nest.ended, raw, i)
                  \o When(CheckForNamespaceIndentation(nest, line), Err(i, <<"runtime", "indentation_namespace">>, 4))
                  \o fn.errors
                  \o (IF asm THEN <<>> ELSE CheckLineLength(line, i))
                  \o inc.errors
    IN [nolint |-> supp, nesting |-> nest, function |-> fn.fn, includes |-> inc.inc,
        lint |-> Report(lint, supp, errors), asm |-> asm,
        dup |-> line.pp = "include" /\ ~asm /\ FindHeader(includes, line.inc)]

\* The conditionals around the line after it: branch 0 is the one after #if.
Conditionals(line, i) ==
    LET top == Last(conds)
    IN CASE line.pp = "if" ->
              Append(IF conds = <<>> THEN conds ELSE SetTop(conds, [top EXCEPT !.inner = TRUE]),
                     [id |-> i, branch |-> 0, inner |-> FALSE])
         [] line.pp \in {"else", "elif"} /\ conds # <<>> -> SetTop(conds, [top EXCEPT !.branch = @ + 1])
         [] line.pp = "endif" /\ conds # <<>> -> Front(conds)
         [] OTHER -> conds

InFirstBranches(cs) == \A k \in DOMAIN cs : cs[k].branch = 0

ProcessLine ==
    /\ n \in 1 .. Len(text.lines)
    /\ LET line == text.elided[n]
           r == Lint(line, text.lines[n], n)
           here == [h |-> line.inc, line |-> n, path |-> {<<c.id, c.branch>> : c \in Range(conds)}]
       IN /\ lint' = r.lint /\ nolint' = r.nolint /\ includes' = r.includes
          /\ function' = r.function /\ nesting' = r.nesting
          /\ conds' = Conditionals(line, n)
          /\ taken' = IF InFirstBranches(conds') THEN UpdateStack(taken, text.elided, n).stack ELSE taken
          /\ seen' = IF line.pp = "include" THEN seen \cup {here} ELSE seen
          /\ dups' = IF r.dup THEN dups \cup {here} ELSE dups
          /\ tangled' = \/ tangled
                        \/ r.asm /\ line.pp # "none"
                        \/ line.pp \in {"else", "elif"} /\ conds # <<>> /\ Last(conds).inner
    /\ n' = n + 1
    /\ UNCHANGED <<cmd, todo, text, opts, exit>>

\* The file's own headers among the ones it includes, and what they include if
\* they can be read.
FilesBelongToSameModule(f, direct) == direct \cap f.own
UpdateIncludeState(f, own) == IF own # {} THEN f.ownIncludes ELSE {}

\* Headers whose names the file uses and neither it nor its own header includes.
CheckForIncludeWhatYouUse(f) ==
    LET lines == text.elided
        UsesOf(h) == {i \in DOMAIN lines : h \in lines[i].uses /\ lines[i].pp = "none"}
        required == {h \in Headers : UsesOf(h) # {}}
        direct == {p[1] : p \in Included(includes)}
        own == FilesBelongToSameModule(f, direct)
        missing == required \ (direct \cup UpdateIncludeState(f, own))
    IN IF f.ext = "cc" /\ own = {} THEN <<>>
       ELSE SetToSeq({Err(Max(UsesOf(h)), <<"build", "include_what_you_use">>, 4) : h \in missing})

CheckHeaderFileIncluded(f) ==
    LET lines == {p[2] : p \in Included(includes)}
    IN When(f.ext = "cc" /\ f.own # {} /\ {p[1] : p \in Included(includes)} \cap f.own = {},
            Err(IF lines = {} THEN 0 ELSE Min(lines), <<"build", "include">>, 5))

CheckCompletedBlocks ==
    LET open == SelectSeq(nesting.stack, ChecksIndentation)
    IN [k \in DOMAIN open |-> Err(open[k].start, IF IsClass(open[k]) THEN <<"build", "class">>
                                                 ELSE <<"build", "namespaces">>, 5)]

CheckForNewlineAtEOF == When(~text.newline, Err(Len(text.lines), <<"whitespace", "ending_newline">>, 5))

\* Carriage returns are reported only when some lines have none.
NewlineErrors ==
    LET cr == {i \in DOMAIN text.lines : text.lines[i].cr}
    IN IF cr # DOMAIN text.lines THEN SetToSeq({Err(i, <<"whitespace", "newline">>, 1) : i \in cr}) ELSE <<>>

FinishFile ==
    /\ n = Len(text.lines) + 1
    /\ lint' = RestoreFilters(Report(lint, nolint,
                  CheckCompletedBlocks \o CheckForIncludeWhatYouUse(Head(todo))
                  \o CheckHeaderFileIncluded(Head(todo))
                  \o CheckForNewlineAtEOF
                  \o NewlineErrors))
    /\ n' = 0
    /\ todo' = Tail(todo)
    /\ UNCHANGED <<cmd, text, opts, nolint, includes, function, nesting, exit, conds, taken, seen, dups, tangled>>

Exit == /\ n = 0 /\ todo = <<>> /\ exit = Running
        /\ exit' = IF lint.count > 0 THEN 1 ELSE 0
        /\ UNCHANGED <<cmd, todo, text, n, lint, opts, nolint, includes, function, nesting,
                       conds, taken, seen, dups, tangled>>

Next == SkipFile \/ ProcessFile \/ ProcessLine \/ FinishFile \/ Exit

Spec == Init /\ [][Next]_vars

----------------------------------------------------------------------------
(* Properties.                                                              *)

\* The comment of UpdatePreprocessor: lines from #else or #elif up to #endif do
\* not affect the nesting stack.  Outside of them the stack is the one the other
\* lines alone lead to, however conditionals are nested, chained or unbalanced.
NestingFollowsTaken == n > 0 /\ InFirstBranches(conds) => nesting.stack = taken

\* CleansedLines leaves exactly the tokens that are code, comments and raw
\* strings of several lines included, for every regular text.
CleanseAgrees ==
    n = 1 /\ Regular(text.source) =>
        \A i \in DOMAIN text.source : text.elided[i].toks = Lex(text.source).lines[i]

\* A header is reported as already included only if there is a way to compile
\* the file that includes it twice, unless an #else follows a conditional nested
\* in its own branch: it then empties the list of the wrong one.
Compatible(p, q) == \A a \in p, b \in q : a[1] = b[1] => a[2] = b[2]
DuplicatesReal ==
    ~tangled => \A d \in dups : \E s \in seen : s.h = d.h /\ s.line < d.line /\ Compatible(s.path, d.path)

\* The filters of a file come from the command line and from its own CPPLINT.cfg files,
\* the nearest deciding last, and its suppressions from its own comments, those for a
\* line and those for the whole file; none from the files linted before it, whether they
\* were read or skipped.  This is not so of the line length and the extensions, which
\* a CPPLINT.cfg sets for all files to come.
UsedConfigs(f) ==
    {k \in DOMAIN f.cfgs :
        /\ \A j \in 1 .. k : f.cfgs[j].readable
        /\ \A j \in 1 .. k - 1 : \A o \in Range(f.cfgs[j].options) : o.name # "noparent"}
Backwards(seqs) == FlattenSeq(Reverse(seqs))
OptionFilters(o) == IF o.name = "filter" THEN o.val ELSE <<>>
ConfigFilters(f) ==
    Backwards([k \in DOMAIN f.cfgs |->
        LET options == f.cfgs[k].options
        IN IF k \in UsedConfigs(f) THEN Backwards([m \in DOMAIN options |-> OptionFilters(options[m])]) ELSE <<>>])
FileIsolated ==
    /\ lint.filters = SetFilters(cmd.filters) \o (IF n = 0 THEN <<>> ELSE ConfigFilters(Head(todo)))
    /\ n > 0 => \A p \in nolint.lines : \E i \in DOMAIN text.lines : \E c \in text.lines[i].nolint :
                    p = <<c.cat, IF c.next THEN i + 1 ELSE i>>
    /\ n > 0 => nolint.global = text.suppressed
=============================================================================
