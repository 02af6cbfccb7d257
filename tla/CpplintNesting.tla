--------------------------- MODULE CpplintNesting ---------------------------
(* NestingState of cpplint.py: the stack of open blocks, updated with one   *)
(* line at a time.  The tokens of a line are "ns" (namespace and its name), *)
(* "class", "struct", ">" (one that closes no < of its own), "public" and   *)
(* "private" (access labels), "asm", "extern", braces, parentheses, ";".    *)
EXTENDS CpplintText

\* The states of inline assembly.
NO_ASM == 0
INSIDE_ASM == 1
END_ASM == 2
BLOCK_ASM == 3

BlockInfo(kind, n, open) ==
    [kind |-> kind, start |-> n, open |-> open, parens |-> 0, asm |-> NO_ASM,
     access |-> IF kind = "struct" THEN "public" ELSE "private"]

IsClass(b) == b.kind \in {"class", "struct"}
IsNamespace(b) == b.kind = "namespace"
\* check_namespace_indentation
ChecksIndentation(b) == IsClass(b) \/ IsNamespace(b)

SeenOpenBrace(stack) == stack = <<>> \/ Last(stack).open
InAsmBlock(stack) == stack # <<>> /\ Last(stack).asm # NO_ASM

\* Every #elif takes the stack for the one to keep, not only the first.
UpdatePreprocessor_Every(stack, pp, line) ==
    CASE line.pp = "if" ->
           [stack |-> stack, pp |-> Append(pp, [before_if |-> stack, before_else |-> <<>>, seen_else |-> FALSE])]
      [] line.pp \in {"else", "elif"} /\ pp # <<>> ->
           [stack |-> Last(pp).before_if,
            pp |-> Append(Front(pp), [Last(pp) EXCEPT !.seen_else = TRUE, !.before_else = stack])]
      [] line.pp = "endif" /\ pp # <<>> ->
           [stack |-> IF Last(pp).seen_else THEN Last(pp).before_else ELSE stack, pp |-> Front(pp)]
      [] OTHER -> [stack |-> stack, pp |-> pp]

UpdatePreprocessor(stack, pp, line) ==
    CASE line.pp = "if" ->
           [stack |-> stack, pp |-> Append(pp, [before_if |-> stack, before_else |-> <<>>, seen_else |-> FALSE])]
      [] line.pp \in {"else", "elif"} /\ pp # <<>> ->
           [stack |-> Last(pp).before_if,
            pp |-> Append(Front(pp), IF Last(pp).seen_else THEN Last(pp)
                                     ELSE [Last(pp) EXCEPT !.seen_else = TRUE, !.before_else = stack])]
      [] line.pp = "endif" /\ pp # <<>> ->
           [stack |-> IF Last(pp).seen_else THEN Last(pp).before_else ELSE stack, pp |-> Front(pp)]
      [] OTHER -> [stack |-> stack, pp |-> pp]

Count(toks, tok) == Len(SelectSeq(toks, LAMBDA t : t = tok))

SetTop(stack, b) == Append(Front(stack), b)

\* Parentheses are counted in the innermost block, which also tracks whether
\* the line is part of inline assembly.
CountParentheses(stack, toks) ==
    LET change == Count(toks, "(") - Count(toks, ")")
        b == [Last(stack) EXCEPT !.parens = @ + change]
        enters == change # 0 /\ b.parens = 1 /\ toks # <<>> /\ toks[1] = "asm"
    IN IF stack = <<>> THEN stack
       ELSE SetTop(stack, [b EXCEPT !.asm =
              CASE @ \in {NO_ASM, END_ASM} -> IF enters THEN INSIDE_ASM ELSE NO_ASM
                [] @ = INSIDE_ASM /\ b.parens = 0 -> END_ASM
                [] OTHER -> @])

\* A namespace at the beginning of what is left of the line.
ConsumeNamespace(a, n) ==
    LET rest == Tail(a.toks)
        open == Has(rest, "{")
    IN IF a.toks = <<>> \/ a.toks[1] # "ns" THEN a
       ELSE [stack |-> Append(a.stack, BlockInfo("namespace", n, open)),
             toks |-> IF open THEN After(rest, First(rest, "{")) ELSE rest]

\* Namespaces at the beginning of the line, as many as there are.
ConsumeNamespaces(stack, toks, n) ==
    FoldLeft(LAMBDA a, tok : ConsumeNamespace(a, n), [stack |-> stack, toks |-> toks], toks)

\* Whether a class whose name toks follow, here and on the next lines, is an
\* argument of a template.
InTemplateArgumentList(toks) ==
    LET telling == SelectSeq(toks, LAMBDA t : t \in {"{", "}", ";", ">"})
    IN telling # <<>> /\ telling[1] = ">"

\* A class at the beginning of what is left, unless it is an argument of a
\* function or a template.
ConsumeClass(stack, toks, next, n) ==
    IF /\ toks # <<>>
       /\ toks[1] \in {"class", "struct"}
       /\ stack # <<>> => Last(stack).parens = 0
       /\ ~InTemplateArgumentList(Tail(toks) \o next)
    THEN [stack |-> Append(stack, BlockInfo(toks[1], n, FALSE)), toks |-> Tail(toks)]
    ELSE [stack |-> stack, toks |-> toks]

UpdateAccess(stack, toks) ==
    LET given == SelectSeq(toks, LAMBDA t : t \in {"public", "private"})
    IN IF stack # <<>> /\ IsClass(Last(stack)) /\ given # <<>>
       THEN SetTop(stack, [Last(stack) EXCEPT !.access = Last(given)])
       ELSE stack

\* One brace, semicolon or parenthesis of what is left of the line; ended
\* collects the blocks whose end is checked.
ConsumeToken(a, i, toks, n) ==
    LET tok == toks[i]
        stack == a.stack
        left == IF i - 1 = a.from THEN toks[i - 1] ELSE ""
    IN CASE tok = "{" /\ ~SeenOpenBrace(stack) ->
              [a EXCEPT !.stack = SetTop(stack, [Last(stack) EXCEPT !.open = TRUE]), !.from = i + 1]
         [] tok = "{" /\ SeenOpenBrace(stack) ->
              [a EXCEPT !.stack = Append(stack,
                   CASE left = "extern" -> BlockInfo("extern", n, TRUE)
                     [] left = "asm" -> [BlockInfo("block", n, TRUE) EXCEPT !.asm = BLOCK_ASM]
                     [] OTHER -> BlockInfo("block", n, TRUE)), !.from = i + 1]
         [] tok \in {";", ")"} /\ ~SeenOpenBrace(stack) -> [a EXCEPT !.stack = Front(stack), !.from = i + 1]
         [] tok = "}" /\ stack # <<>> ->
              [a EXCEPT !.stack = Front(stack), !.ended = Append(@, Last(stack)), !.from = i + 1]
         [] tok \in {";", ")", "}"} -> [a EXCEPT !.from = i + 1]
         [] OTHER -> a

ConsumeBraces(stack, toks, n) ==
    FoldLeft(LAMBDA a, i : ConsumeToken(a, i, toks, n),
             [stack |-> stack, ended |-> <<>>, from |-> 1], [i \in DOMAIN toks |-> i])

\* The tokens of the lines after line n.
Following(lines, n) == FlattenSeq([i \in 1 .. Len(lines) - n |-> lines[n + i].toks])

\* What line n does to the stack apart from its directive.
UpdateStack(stack, lines, n) ==
    LET toks == lines[n].toks
        ns == ConsumeNamespaces(CountParentheses(stack, toks), toks, n)
        class == ConsumeClass(ns.stack, ns.toks, Following(lines, n), n)
    IN ConsumeBraces(UpdateAccess(class.stack, class.toks), class.toks, n)

\* NestingState.Update for line n: depth is the size of the stack before it,
\* which identifies previous_stack_top unless a directive replaced the stack.
Update(nesting, lines, n) ==
    LET pp == UpdatePreprocessor(nesting.stack, nesting.pp, lines[n])
        new == UpdateStack(pp.stack, lines, n)
    IN [stack |-> new.stack, pp |-> pp.pp, ended |-> new.ended, depth |-> Len(nesting.stack),
        inNamespace |-> nesting.stack # <<>> /\ IsNamespace(Last(nesting.stack))]

NewNestingState == [stack |-> <<>>, pp |-> <<>>, ended |-> <<>>, depth |-> 0, inNamespace |-> FALSE]

IsForwardClassDeclaration(line) == IsSuffix(<<"class", ";">>, line.toks)

IsBlockInNameSpace(stack, forward) ==
    IF forward THEN stack # <<>> /\ IsNamespace(Last(stack))
    ELSE /\ Len(stack) > 1
         /\ ChecksIndentation(Last(stack))
         /\ IsNamespace(stack[Len(stack) - 1])

ShouldCheckNamespaceIndentation(stack, item, line) ==
    LET forward == IsForwardClassDeclaration(line)
    IN (item \/ forward) /\ ~line.macro /\ IsBlockInNameSpace(stack, forward)

\* item: a class or namespace was just pushed onto the namespace that was
\* innermost before.
CheckForNamespaceIndentation(nesting, line) ==
    LET stack == nesting.stack
        item == /\ Len(stack) > 1 /\ Len(stack) = nesting.depth + 1
                /\ ChecksIndentation(Last(stack))
                /\ nesting.inNamespace /\ line.pp = "none"
    IN line.indented /\ ShouldCheckNamespaceIndentation(stack, item, line)
=============================================================================
