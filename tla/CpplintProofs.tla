--------------------------- MODULE CpplintProofs ---------------------------
(***************************************************************************)
(* Proofs about module Cpplint, for files of any lines and any length.     *)
(* What a line without its directive does to the stack (UpdateStack) is    *)
(* left open: the proofs are about conditionals.                           *)
(***************************************************************************)
EXTENDS Cpplint, SequenceTheorems, TLAPS

-----------------------------------------------------------------------------
(* Sequences used as stacks.                                               *)

\* A stack without its top.
LEMMA FrontLemma ==
  ASSUME NEW S, NEW s \in Seq(S), s # <<>>
  PROVE  /\ Last(s) \in S /\ Last(s) = s[Len(s)] /\ Len(s) \in Nat \ {0}
         /\ Front(s) \in Seq(S) /\ Len(Front(s)) = Len(s) - 1
         /\ DOMAIN Front(s) = 1 .. Len(s) - 1 /\ DOMAIN s = 1 .. Len(s)
         /\ \A i \in 1 .. Len(s) - 1 : Front(s)[i] = s[i]
<1>1. DOMAIN s = 1 .. Len(s) /\ Len(s) \in Nat \ {0} /\ \A i \in 1 .. Len(s) : s[i] \in S
  OBVIOUS
<1>2. Last(s) = s[Len(s)] /\ Front(s) = SubSeq(s, 1, Len(s) - 1)
  BY DEF Front, Last
<1>3. /\ SubSeq(s, 1, Len(s) - 1) \in Seq(S) /\ Len(SubSeq(s, 1, Len(s) - 1)) = Len(s) - 1
      /\ \A i \in 1 .. Len(s) - 1 : SubSeq(s, 1, Len(s) - 1)[i] = s[i]
  BY <1>1
<1>4. DOMAIN SubSeq(s, 1, Len(s) - 1) = 1 .. Len(s) - 1
  BY <1>1, <1>3
<1> QED BY <1>1, <1>2, <1>3, <1>4

\* A stack with one element more.
LEMMA AppendLemma ==
  ASSUME NEW S, NEW s \in Seq(S), NEW b \in S
  PROVE  /\ Append(s, b) \in Seq(S) /\ Len(Append(s, b)) = Len(s) + 1
         /\ DOMAIN Append(s, b) = 1 .. Len(s) + 1 /\ DOMAIN s = 1 .. Len(s)
         /\ Append(s, b)[Len(s) + 1] = b
         /\ \A i \in 1 .. Len(s) : Append(s, b)[i] = s[i]
OBVIOUS

\* A stack whose top is replaced.
LEMMA TopLemma ==
  ASSUME NEW S, NEW s \in Seq(S), s # <<>>, NEW b \in S
  PROVE  /\ Append(Front(s), b) \in Seq(S) /\ Len(Append(Front(s), b)) = Len(s)
         /\ DOMAIN Append(Front(s), b) = DOMAIN s
         /\ Append(Front(s), b)[Len(s)] = b
         /\ \A i \in 1 .. Len(s) - 1 : Append(Front(s), b)[i] = s[i]
<1>1. /\ Front(s) \in Seq(S) /\ Len(Front(s)) = Len(s) - 1 /\ Len(s) \in Nat \ {0}
      /\ \A i \in 1 .. Len(s) - 1 : Front(s)[i] = s[i]
      /\ DOMAIN s = 1 .. Len(s)
  BY FrontLemma
<1>2. PICK f \in Seq(S) : f = Front(s)
  BY <1>1
<1>3. /\ Append(f, b) \in Seq(S) /\ Len(Append(f, b)) = Len(f) + 1
      /\ DOMAIN Append(f, b) = 1 .. Len(f) + 1
      /\ Append(f, b)[Len(f) + 1] = b /\ \A i \in 1 .. Len(f) : Append(f, b)[i] = f[i]
  BY <1>2, AppendLemma
<1> QED BY <1>1, <1>2, <1>3

-----------------------------------------------------------------------------
(* The nesting of blocks.                                                  *)

\* A conditional of the history, and what NestingState keeps of one.
Cond == [id : Nat, branch : Nat, inner : BOOLEAN]

Saved(S) == [before_if : S, before_else : S, seen_else : BOOLEAN]

\* For a stack, the conditionals NestingState keeps, those there are, and the stack that the
\* first branches lead to: #else is seen in the same ones, outside of later branches the stacks
\* are the same, and inside the outermost later branch keeps the one to go on with.
Matches(stack, pp, cs, kept) ==
  /\ Len(pp) = Len(cs)
  /\ \A k \in DOMAIN cs : pp[k].seen_else <=> cs[k].branch # 0
  /\ InFirstBranches(cs) => stack = kept
  /\ \A k \in DOMAIN cs :
       cs[k].branch # 0 /\ (\A j \in 1 .. k - 1 : cs[j].branch = 0) => pp[k].before_else = kept

NestingInv ==
  /\ n \in Nat /\ conds \in Seq(Cond)
  /\ \E S : nesting.pp \in Seq(Saved(S))
  /\ Matches(nesting.stack, nesting.pp, conds, taken)

\* What is kept of more stacks.
LEMMA SavedGrows ==
  ASSUME NEW S, NEW s \in Seq(Saved(S)), NEW x
  PROVE  s \in Seq(Saved(S \cup {x}))
<1>1. Saved(S) \subseteq Saved(S \cup {x})
  BY DEF Saved
<1> QED BY <1>1, SeqMonotonic

\* What a line does to the conditionals.
LEMMA ConditionalsLemma ==
  ASSUME NEW line, NEW i \in Nat, conds \in Seq(Cond), NEW cs, cs = Conditionals(line, i)
  PROVE  /\ cs \in Seq(Cond)
         /\ line.pp = "if" =>
              /\ Len(cs) = Len(conds) + 1
              /\ cs[Len(cs)].id = i /\ cs[Len(cs)].branch = 0 /\ ~cs[Len(cs)].inner
              /\ \A k \in 1 .. Len(conds) :
                   /\ cs[k].id = conds[k].id /\ cs[k].branch = conds[k].branch
                   /\ cs[k].inner <=> k = Len(conds) \/ conds[k].inner
         /\ line.pp \in {"else", "elif"} /\ conds # <<>> =>
              /\ Len(cs) = Len(conds)
              /\ cs[Len(cs)].id = conds[Len(cs)].id /\ cs[Len(cs)].inner = conds[Len(cs)].inner
              /\ cs[Len(cs)].branch = conds[Len(cs)].branch + 1
              /\ \A k \in 1 .. Len(conds) - 1 : cs[k] = conds[k]
         /\ line.pp = "endif" /\ conds # <<>> =>
              /\ Len(cs) = Len(conds) - 1
              /\ \A k \in 1 .. Len(conds) - 1 : cs[k] = conds[k]
         /\ line.pp # "if" /\ (line.pp \notin {"else", "elif", "endif"} \/ conds = <<>>) => cs = conds
<1> DEFINE top == Last(conds)
<1>1. Len(conds) \in Nat /\ \A k \in 1 .. Len(conds) : conds[k] \in Cond
  OBVIOUS
<1>2. CASE line.pp = "if"
  <2> DEFINE c == [id |-> i, branch |-> 0, inner |-> FALSE]
             outer == IF conds = <<>> THEN conds ELSE SetTop(conds, [top EXCEPT !.inner = TRUE])
  <2>1. cs = Append(outer, c)
    BY <1>2 DEF Conditionals
  <2>2. /\ outer \in Seq(Cond) /\ Len(outer) = Len(conds)
        /\ \A k \in 1 .. Len(conds) :
             /\ outer[k].id = conds[k].id /\ outer[k].branch = conds[k].branch
             /\ outer[k].inner <=> k = Len(conds) \/ conds[k].inner
    <3>1. CASE conds = <<>>
      BY <3>1, <1>1
    <3>2. CASE conds # <<>>
      <4>1. top \in Cond /\ top = conds[Len(conds)]
        BY <3>2, FrontLemma
      <4> DEFINE t == [top EXCEPT !.inner = TRUE]
      <4>2. t \in Cond /\ t.branch = top.branch /\ t.id = top.id /\ t.inner
        BY <4>1 DEF Cond
      <4>3. outer = Append(Front(conds), t)
        BY <3>2 DEF SetTop
      <4> HIDE DEF t, outer
      <4>4. /\ outer \in Seq(Cond) /\ Len(outer) = Len(conds) /\ outer[Len(conds)] = t
            /\ \A k \in 1 .. Len(conds) - 1 : outer[k] = conds[k]
        BY <3>2, <4>2, <4>3, TopLemma
      <4> HIDE DEF top
      <4> QED BY <1>1, <4>1, <4>2, <4>4
    <3> QED BY <3>1, <3>2
  <2>3. c \in Cond /\ c.id = i /\ c.branch = 0 /\ ~c.inner
    BY DEF Cond
  <2>4. /\ cs \in Seq(Cond) /\ Len(cs) = Len(conds) + 1 /\ cs[Len(conds) + 1] = c
        /\ \A k \in 1 .. Len(conds) : cs[k] = outer[k]
    <3> HIDE DEF c, outer
    <3> QED BY <1>1, <2>1, <2>2, <2>3, AppendLemma
  <2> HIDE DEF c, outer
  <2>5. \A k \in 1 .. Len(conds) :
          /\ cs[k].id = conds[k].id /\ cs[k].branch = conds[k].branch
          /\ cs[k].inner <=> k = Len(conds) \/ conds[k].inner
    BY <2>2, <2>4
  <2> QED BY <1>2, <2>3, <2>4, <2>5
<1>3. CASE line.pp \in {"else", "elif"} /\ conds # <<>>
  <2> DEFINE c == [top EXCEPT !.branch = @ + 1]
  <2>1. cs = Append(Front(conds), c)
    BY <1>3 DEF Conditionals, SetTop
  <2>2. top \in Cond /\ top = conds[Len(conds)]
    BY <1>3, FrontLemma
  <2>3. top.branch \in Nat /\ top.branch + 1 \in Nat
    BY <2>2 DEF Cond
  <2>4. c \in Cond /\ c.id = top.id /\ c.inner = top.inner /\ c.branch = top.branch + 1
    BY <2>2, <2>3 DEF Cond
  <2> HIDE DEF c
  <2>5. /\ cs \in Seq(Cond) /\ Len(cs) = Len(conds) /\ cs[Len(conds)] = c
        /\ \A k \in 1 .. Len(conds) - 1 : cs[k] = conds[k]
    BY <1>3, <2>1, <2>4, TopLemma
  <2> QED BY <1>3, <2>2, <2>4, <2>5
<1>4. CASE line.pp = "endif" /\ conds # <<>>
  <2>1. cs = Front(conds)
    BY <1>4 DEF Conditionals
  <2>2. /\ cs \in Seq(Cond) /\ Len(cs) = Len(conds) - 1
        /\ \A k \in 1 .. Len(conds) - 1 : cs[k] = conds[k]
    BY <1>4, <2>1, FrontLemma
  <2> QED BY <1>4, <2>2
<1>5. CASE line.pp # "if" /\ (line.pp \notin {"else", "elif", "endif"} \/ conds = <<>>)
  <2>1. cs = conds
    BY <1>5 DEF Conditionals
  <2> QED BY <1>5, <2>1
<1> QED BY <1>2, <1>3, <1>4, <1>5

\* What a directive does: NestingState keeps in step with the conditionals.
LEMMA PreprocessorLemma ==
  ASSUME NEW stack, NEW pp, NEW line, NEW i \in Nat, NEW S, pp \in Seq(Saved(S)),
         conds \in Seq(Cond), Matches(stack, pp, conds, taken)
  PROVE  LET p == UpdatePreprocessor(stack, pp, line)
             cs == Conditionals(line, i)
         IN /\ cs \in Seq(Cond)
            /\ \E R : p.pp \in Seq(Saved(R))
            /\ Matches(p.stack, p.pp, cs, taken)
<1> DEFINE p == UpdatePreprocessor(stack, pp, line)
           cs == Conditionals(line, i)
<1>1. /\ Len(pp) = Len(conds) /\ Len(pp) \in Nat /\ DOMAIN conds = 1 .. Len(pp)
      /\ \A k \in 1 .. Len(pp) : conds[k] \in Cond /\ pp[k] \in Saved(S)
      /\ \A k \in 1 .. Len(pp) : pp[k].seen_else <=> conds[k].branch # 0
      /\ InFirstBranches(conds) => stack = taken
      /\ \A k \in 1 .. Len(pp) :
           conds[k].branch # 0 /\ (\A j \in 1 .. k - 1 : conds[j].branch = 0) => pp[k].before_else = taken
  BY DEF Matches
<1>2. pp = <<>> <=> conds = <<>>
  BY <1>1
<1>3. CASE line.pp = "if"
  <2> DEFINE b == [before_if |-> stack, before_else |-> <<>>, seen_else |-> FALSE]
             R == S \cup {stack} \cup {<<>>}
  <2>1. p.stack = stack /\ p.pp = Append(pp, b)
    BY <1>3 DEF UpdatePreprocessor
  <2>3. pp \in Seq(Saved(R))
    BY SavedGrows
  <2>4. b \in Saved(R)
    BY DEF Saved
  <2>5. /\ p.pp \in Seq(Saved(R)) /\ Len(p.pp) = Len(pp) + 1 /\ p.pp[Len(pp) + 1] = b
        /\ \A k \in 1 .. Len(pp) : p.pp[k] = pp[k]
    <3> HIDE DEF b, R
    <3> QED BY <2>1, <2>3, <2>4, AppendLemma
  <2>8. /\ cs \in Seq(Cond) /\ Len(cs) = Len(pp) + 1 /\ cs[Len(pp) + 1].branch = 0 /\ DOMAIN cs = 1 .. Len(pp) + 1
        /\ \A k \in 1 .. Len(pp) : cs[k].branch = conds[k].branch
    <3> HIDE DEF cs
    <3> QED BY <1>1, <1>3, ConditionalsLemma DEF cs
  <2>9. InFirstBranches(cs) => InFirstBranches(conds)
    BY <1>1, <2>8 DEF InFirstBranches
  <2>10. Matches(p.stack, p.pp, cs, taken)
    <3> HIDE DEF p, cs
    <3>1. \A k \in DOMAIN cs : k \in 1 .. Len(pp) \/ k = Len(pp) + 1
      BY <1>1, <2>8
    <3>2. Len(p.pp) = Len(cs)
      BY <2>5, <2>8
    <3>3. b.seen_else = FALSE
      OBVIOUS
    <3> HIDE DEF b
    <3>4. \A k \in DOMAIN cs : p.pp[k].seen_else <=> cs[k].branch # 0
      BY <1>1, <2>5, <2>8, <3>1, <3>3
    <3>5. ASSUME NEW k \in DOMAIN cs, cs[k].branch # 0, \A j \in 1 .. k - 1 : cs[j].branch = 0
          PROVE  p.pp[k].before_else = taken
      <4>1. k \in 1 .. Len(pp)
        BY <2>8, <3>1, <3>3, <3>5
      <4>2. \A j \in 1 .. k - 1 : j \in 1 .. Len(pp)
        BY <1>1, <4>1
      <4>3. conds[k].branch # 0
        BY <2>8, <3>5, <4>1
      <4>4. \A j \in 1 .. k - 1 : conds[j].branch = 0
        BY <2>8, <3>5, <4>2
      <4> QED BY <1>1, <2>5, <4>1, <4>3, <4>4
    <3> QED BY <1>1, <2>1, <2>9, <3>2, <3>4, <3>5 DEF Matches
  <2> QED BY <2>5, <2>8, <2>10
<1>4. CASE line.pp \in {"else", "elif"} /\ pp # <<>>
  <2> DEFINE old == Last(pp)
             b == IF old.seen_else THEN old ELSE [old EXCEPT !.seen_else = TRUE, !.before_else = stack]
             R == S \cup {stack}
  <2>1. p.pp = Append(Front(pp), b)
    BY <1>4 DEF UpdatePreprocessor
  <2>3. pp \in Seq(Saved(R))
    BY SavedGrows
  <2>4. old \in Saved(R) /\ old = pp[Len(pp)] /\ Len(pp) \in Nat \ {0}
    <3> HIDE DEF R
    <3> QED BY <1>4, <2>3, FrontLemma
  <2>5. b \in Saved(R) /\ b.seen_else /\ b.before_else = IF old.seen_else THEN old.before_else ELSE stack
    BY <2>4 DEF Saved
  <2>6. /\ p.pp \in Seq(Saved(R)) /\ Len(p.pp) = Len(pp) /\ p.pp[Len(pp)] = b
        /\ \A k \in 1 .. Len(pp) - 1 : p.pp[k] = pp[k]
    <3> HIDE DEF b, R
    <3> QED BY <1>4, <2>1, <2>3, <2>5, TopLemma
  <2>9. /\ cs \in Seq(Cond) /\ Len(cs) = Len(pp) /\ cs[Len(pp)].branch # 0 /\ DOMAIN cs = 1 .. Len(pp)
        /\ \A k \in 1 .. Len(pp) - 1 : cs[k] = conds[k]
    <3>1. /\ cs \in Seq(Cond) /\ Len(cs) = Len(pp) /\ cs[Len(pp)].branch = conds[Len(pp)].branch + 1
          /\ \A k \in 1 .. Len(pp) - 1 : cs[k] = conds[k]
      BY <1>1, <1>2, <1>4, ConditionalsLemma
    <3>2. conds[Len(pp)].branch \in Nat
      BY <1>1, <2>4 DEF Cond
    <3> HIDE DEF cs
    <3> QED BY <3>1, <3>2
  <2>10. ~InFirstBranches(cs)
    <3> HIDE DEF cs
    <3> QED BY <2>4, <2>9 DEF InFirstBranches
  <2>11. ASSUME \A j \in 1 .. Len(pp) - 1 : cs[j].branch = 0
         PROVE  b.before_else = taken
    <3>1. \A j \in 1 .. Len(pp) - 1 : conds[j].branch = 0
      BY <2>9, <2>11
    <3>2. CASE old.seen_else
      BY <1>1, <2>4, <2>5, <3>1, <3>2
    <3>3. CASE ~old.seen_else
      BY <1>1, <2>4, <2>5, <3>1, <3>3 DEF InFirstBranches
    <3> QED BY <3>2, <3>3
  <2>12. Matches(p.stack, p.pp, cs, taken)
    <3> HIDE DEF p, cs, b
    <3>1. \A k \in DOMAIN cs : k \in 1 .. Len(pp) - 1 \/ k = Len(pp)
      BY <1>1, <2>9
    <3>2. \A k \in DOMAIN cs : p.pp[k].seen_else <=> cs[k].branch # 0
      BY <1>1, <2>4, <2>5, <2>6, <2>9, <3>1
    <3>3. ASSUME NEW k \in DOMAIN cs, cs[k].branch # 0, \A j \in 1 .. k - 1 : cs[j].branch = 0
          PROVE  p.pp[k].before_else = taken
      <4>1. CASE k = Len(pp)
        BY <2>6, <2>11, <3>3, <4>1
      <4>2. CASE k \in 1 .. Len(pp) - 1
        <5>1. \A j \in 1 .. k - 1 : j \in 1 .. Len(pp) - 1
          BY <1>1, <4>2
        <5>2. conds[k].branch # 0
          BY <2>9, <3>3, <4>2
        <5>3. \A j \in 1 .. k - 1 : conds[j].branch = 0
          BY <2>9, <3>3, <5>1
        <5> QED BY <1>1, <2>6, <4>2, <5>2, <5>3
      <4> QED BY <3>1, <4>1, <4>2
    <3> QED BY <2>6, <2>9, <2>10, <3>2, <3>3 DEF Matches
  <2> QED BY <2>6, <2>9, <2>12
<1>5. CASE line.pp = "endif" /\ pp # <<>>
  <2> DEFINE old == Last(pp)
  <2>1. p.pp = Front(pp) /\ p.stack = IF old.seen_else THEN old.before_else ELSE stack
    BY <1>5 DEF UpdatePreprocessor
  <2>3. /\ p.pp \in Seq(Saved(S)) /\ Len(p.pp) = Len(pp) - 1 /\ old = pp[Len(pp)]
        /\ Len(pp) \in Nat \ {0} /\ \A k \in 1 .. Len(pp) - 1 : p.pp[k] = pp[k]
    BY <1>5, <2>1, FrontLemma
  <2>4. /\ cs \in Seq(Cond) /\ Len(cs) = Len(pp) - 1 /\ DOMAIN cs = 1 .. Len(pp) - 1
        /\ \A k \in 1 .. Len(pp) - 1 : cs[k] = conds[k]
    <3>1. cs \in Seq(Cond) /\ Len(cs) = Len(pp) - 1 /\ \A k \in 1 .. Len(pp) - 1 : cs[k] = conds[k]
      BY <1>1, <1>2, <1>5, ConditionalsLemma
    <3> HIDE DEF cs
    <3> QED BY <3>1
  <2>5. ASSUME InFirstBranches(cs)
        PROVE  p.stack = taken
    <3>1. \A k \in 1 .. Len(pp) - 1 : conds[k].branch = 0
      BY <2>4, <2>5 DEF InFirstBranches
    <3>2. CASE old.seen_else
      BY <1>1, <2>1, <2>3, <3>1, <3>2
    <3>3. CASE ~old.seen_else
      BY <1>1, <2>1, <2>3, <3>1, <3>3 DEF InFirstBranches
    <3> QED BY <3>2, <3>3
  <2>6. Matches(p.stack, p.pp, cs, taken)
    <3> HIDE DEF p, cs
    <3>1. \A k \in DOMAIN cs : k \in 1 .. Len(pp)
      BY <1>1, <2>4
    <3>2. \A k \in DOMAIN cs : p.pp[k].seen_else <=> cs[k].branch # 0
      BY <1>1, <2>3, <2>4, <3>1
    <3>3. ASSUME NEW k \in DOMAIN cs, cs[k].branch # 0, \A j \in 1 .. k - 1 : cs[j].branch = 0
          PROVE  p.pp[k].before_else = taken
      <4>1. k \in 1 .. Len(pp) /\ \A j \in 1 .. k - 1 : j \in 1 .. Len(pp)
        BY <1>1, <3>1, <3>3
      <4>2. conds[k].branch # 0
        BY <2>4, <3>1, <3>3
      <4>3. \A j \in 1 .. k - 1 : conds[j].branch = 0
        BY <2>4, <3>3, <4>1
      <4> QED BY <1>1, <2>3, <2>4, <3>1, <3>3, <4>1, <4>2, <4>3
    <3> QED BY <2>3, <2>4, <2>5, <3>2, <3>3 DEF Matches
  <2> QED BY <2>3, <2>4, <2>6
<1>6. CASE /\ line.pp # "if"
           /\ ~(line.pp \in {"else", "elif"} /\ pp # <<>>)
           /\ ~(line.pp = "endif" /\ pp # <<>>)
  <2>1. p.stack = stack /\ p.pp = pp
    BY <1>6 DEF UpdatePreprocessor
  <2>2. cs = conds
    BY <1>2, <1>6, ConditionalsLemma
  <2> QED BY <2>1, <2>2
<1> QED BY <1>3, <1>4, <1>5, <1>6

\* The first line of a file finds no block and no conditional.
LEMMA NestingNew ==
  ASSUME n' \in Nat, conds' = <<>>, taken' = <<>>, nesting' = NewNestingState
  PROVE  NestingInv'
<1>1. nesting'.stack = <<>> /\ nesting'.pp = <<>>
  BY DEF NewNestingState
<1>2. conds' \in Seq(Cond) /\ nesting'.pp \in Seq(Saved({}))
  BY <1>1
<1>3. Matches(nesting'.stack, nesting'.pp, conds', taken')
  BY <1>1 DEF Matches
<1> QED BY <1>2, <1>3 DEF NestingInv

\* Every step keeps NestingState in step with the conditionals.
LEMMA NestingNext ==
  ASSUME NestingInv, [Next]_vars
  PROVE  NestingInv'
<1>1. n \in Nat /\ conds \in Seq(Cond) /\ Matches(nesting.stack, nesting.pp, conds, taken)
  BY DEF NestingInv
<1>2. CASE SkipFile
  BY <1>2 DEF SkipFile, NestingInv
<1>3. CASE ProcessFile
  BY <1>3, NestingNew DEF ProcessFile
<1>4. CASE ProcessLine
  <2> DEFINE line == text.elided[n]
             p == UpdatePreprocessor(nesting.stack, nesting.pp, line)
             cs == Conditionals(line, n)
  <2>1. n' = n + 1 /\ conds' = cs /\ nesting' = Update(nesting, text.elided, n)
    BY <1>4 DEF ProcessLine, Lint
  <2>2. taken' = IF InFirstBranches(conds') THEN UpdateStack(taken, text.elided, n).stack ELSE taken
    BY <1>4 DEF ProcessLine
  <2>3. nesting'.pp = p.pp /\ nesting'.stack = UpdateStack(p.stack, text.elided, n).stack
    BY <2>1 DEF Update
  <2>4. PICK S : nesting.pp \in Seq(Saved(S))
    BY DEF NestingInv
  <2>5. /\ cs \in Seq(Cond)
        /\ \E R : p.pp \in Seq(Saved(R))
        /\ Matches(p.stack, p.pp, cs, taken)
    BY <1>1, <2>4, PreprocessorLemma
  <2> HIDE DEF p, cs
  <2>6. Matches(nesting'.stack, nesting'.pp, conds', taken')
    <3>1. CASE InFirstBranches(cs)
      <4>1. p.stack = taken
        BY <2>5, <3>1 DEF Matches
      <4>2. nesting'.stack = taken'
        BY <2>1, <2>2, <2>3, <3>1, <4>1
      <4>3. \A k \in DOMAIN cs : cs[k].branch = 0
        BY <3>1 DEF InFirstBranches
      <4> QED BY <2>1, <2>3, <2>5, <4>2, <4>3 DEF Matches
    <3>2. CASE ~InFirstBranches(cs)
      <4>1. taken' = taken
        BY <2>1, <2>2, <3>2
      <4> QED BY <2>1, <2>3, <2>5, <3>2, <4>1 DEF Matches
    <3> QED BY <3>1, <3>2
  <2> QED BY <1>1, <2>1, <2>3, <2>5, <2>6 DEF NestingInv
<1>5. CASE FinishFile
  BY <1>5 DEF FinishFile, NestingInv
<1>6. CASE Exit
  BY <1>6 DEF Exit, NestingInv
<1>7. CASE UNCHANGED vars
  BY <1>7 DEF vars, NestingInv
<1> QED BY <1>2, <1>3, <1>4, <1>5, <1>6, <1>7 DEF Next

\* At first there is no block and no conditional.
LEMMA NestingInit == Init => NestingInv
<1> SUFFICES ASSUME Init PROVE NestingInv
  OBVIOUS
<1>1. n = 0 /\ conds = <<>> /\ taken = <<>> /\ nesting.stack = <<>> /\ nesting.pp = <<>>
  BY DEF Init, NewNestingState
<1>2. conds \in Seq(Cond) /\ nesting.pp \in Seq(Saved({}))
  BY <1>1
<1>3. Matches(nesting.stack, nesting.pp, conds, taken)
  BY <1>1 DEF Matches
<1> QED BY <1>1, <1>2, <1>3 DEF NestingInv

\* The stack of blocks outside of #else and #elif is the one that the first branches lead to, in
\* every file, however conditionals are nested or unbalanced.
THEOREM NestingCorrect == Spec => []NestingFollowsTaken
<1>1. Init => NestingInv
  BY NestingInit
<1>2. NestingInv /\ [Next]_vars => NestingInv'
  BY NestingNext
<1>3. NestingInv => NestingFollowsTaken
  BY DEF NestingInv, Matches, NestingFollowsTaken
<1> QED BY <1>1, <1>2, <1>3, PTL DEF Spec

-----------------------------------------------------------------------------
(* Headers reported as included twice.                                     *)

\* The branches that are open in conditionals.
Path(cs) == {<<c.id, c.branch>> : c \in Range(cs)}

\* Conditionals are told apart by the line of their #if, and have one inside unless they are
\* the innermost.
CondsOK(cs, i) ==
  \A k \in 1 .. Len(cs) :
    /\ cs[k].id < i
    /\ k < Len(cs) => cs[k].inner
    /\ \A j \in 1 .. Len(cs) : cs[j].id = cs[k].id => j = k

\* Where a header is included lies before line i, in conditionals that do.
SeenOK(sn, i) ==
  \A s \in sn : s.line \in Nat /\ s.line < i /\ \A a \in s.path : a[1] \in Nat /\ a[1] < i

\* An entry of the list of includes stands for an include that can be compiled together with
\* the current line; if it is not in the last part of the list, it is also outside of the
\* innermost conditional, unless others were inside of that.
Recorded(p, cs, sn, last) ==
  \E s \in sn :
    /\ s.h = p[1]
    /\ Compatible(s.path, Path(cs))
    /\ ~last /\ cs # <<>> /\ ~Last(cs).inner => \A a \in s.path : a[1] # Last(cs).id

ListOK(list, cs, sn) ==
  \A k \in 1 .. Len(list) : \A m \in 1 .. Len(list[k]) : Recorded(list[k][m], cs, sn, k = Len(list))

\* A list of includes with an entry more.
Added(list, p) == Append(Front(list), Append(Last(list), p))

\* The fields of _IncludeState.
IsIncludeState(inc) == inc = [list |-> inc.list, section |-> inc.section, last |-> inc.last]

DuplicateInv ==
  /\ NestingInv
  /\ IsIncludeState(includes)
  /\ includes.list # <<>> /\ \E T : includes.list \in Seq(Seq(T))
  /\ DuplicatesReal
  /\ n > 0 => /\ CondsOK(conds, n) /\ SeenOK(seen, n)
              /\ ~tangled => ListOK(includes.list, conds, seen)

\* Compatibility with the branches that are open, conditional by conditional.
LEMMA CompatibleLemma ==
  ASSUME NEW P, NEW cs \in Seq(Cond)
  PROVE  Compatible(P, Path(cs)) <=>
           \A a \in P : \A k \in 1 .. Len(cs) : a[1] = cs[k].id => a[2] = cs[k].branch
<1>1. DOMAIN cs = 1 .. Len(cs)
  OBVIOUS
<1>2. \A b : b \in Path(cs) <=> \E k \in 1 .. Len(cs) : b = <<cs[k].id, cs[k].branch>>
  BY <1>1 DEF Path, Range
<1>3. \A k \in 1 .. Len(cs) : LET b == <<cs[k].id, cs[k].branch>> IN b[1] = cs[k].id /\ b[2] = cs[k].branch
  OBVIOUS
<1>4. ASSUME Compatible(P, Path(cs)), NEW a \in P, NEW k \in 1 .. Len(cs), a[1] = cs[k].id
      PROVE  a[2] = cs[k].branch
  <2>1. <<cs[k].id, cs[k].branch>> \in Path(cs)
    BY <1>2
  <2> QED BY <1>3, <1>4, <2>1 DEF Compatible
<1>5. ASSUME \A a \in P : \A k \in 1 .. Len(cs) : a[1] = cs[k].id => a[2] = cs[k].branch
      PROVE  Compatible(P, Path(cs))
  <2> SUFFICES ASSUME NEW a \in P, NEW b \in Path(cs), a[1] = b[1]
               PROVE  a[2] = b[2]
    BY DEF Compatible
  <2>1. PICK k \in 1 .. Len(cs) : b = <<cs[k].id, cs[k].branch>>
    BY <1>2
  <2> QED BY <1>3, <1>5, <2>1
<1> QED BY <1>4, <1>5

\* Conditionals stay apart.
LEMMA CondsNext ==
  ASSUME NEW line, NEW i \in Nat, conds \in Seq(Cond), NEW cs, cs = Conditionals(line, i), CondsOK(conds, i)
  PROVE  CondsOK(cs, i + 1)
<1>1. Len(conds) \in Nat /\ \A k \in 1 .. Len(conds) : conds[k].id \in Nat
  <2>1. Len(conds) \in Nat /\ \A k \in 1 .. Len(conds) : conds[k] \in Cond
    OBVIOUS
  <2> QED BY <2>1 DEF Cond
<1>2. \A k \in 1 .. Len(conds) :
        /\ conds[k].id < i
        /\ k < Len(conds) => conds[k].inner
        /\ \A j \in 1 .. Len(conds) : conds[j].id = conds[k].id => j = k
  BY DEF CondsOK
<1>3. CASE line.pp = "if"
  <2>1. /\ Len(cs) = Len(conds) + 1 /\ cs[Len(conds) + 1].id = i
        /\ \A k \in 1 .. Len(conds) : cs[k].id = conds[k].id /\ (cs[k].inner <=> k = Len(conds) \/ conds[k].inner)
    BY <1>3, ConditionalsLemma
  <2>2. \A k \in 1 .. Len(conds) + 1 : k \in 1 .. Len(conds) \/ k = Len(conds) + 1
    BY <1>1
  <2>3. \A k \in 1 .. Len(conds) + 1 : cs[k].id < i + 1 /\ (k < Len(conds) + 1 => cs[k].inner)
    BY <1>1, <1>2, <2>1, <2>2
  <2>4. \A j, k \in 1 .. Len(conds) + 1 : cs[j].id = cs[k].id => j = k
    <3> SUFFICES ASSUME NEW j \in 1 .. Len(conds) + 1, NEW k \in 1 .. Len(conds) + 1, cs[j].id = cs[k].id
                 PROVE  j = k
      OBVIOUS
    <3>1. \A q \in 1 .. Len(conds) : cs[q].id \in Nat /\ cs[q].id < i
      BY <1>1, <1>2, <2>1
    <3>2. CASE j = Len(conds) + 1 \/ k = Len(conds) + 1
      BY <2>1, <2>2, <3>1, <3>2
    <3>3. CASE j \in 1 .. Len(conds) /\ k \in 1 .. Len(conds)
      BY <1>2, <2>1, <3>3
    <3> QED BY <2>2, <3>2, <3>3
  <2> QED BY <2>1, <2>3, <2>4 DEF CondsOK
<1>4. CASE line.pp \in {"else", "elif"} /\ conds # <<>>
  <2>1. /\ Len(cs) = Len(conds) /\ cs[Len(conds)].id = conds[Len(conds)].id
        /\ \A k \in 1 .. Len(conds) - 1 : cs[k] = conds[k]
    BY <1>4, ConditionalsLemma
  <2>2. \A k \in 1 .. Len(conds) : cs[k].id = conds[k].id /\ (k < Len(conds) => cs[k].inner)
    BY <1>1, <1>2, <2>1
  <2> QED BY <1>1, <1>2, <2>1, <2>2 DEF CondsOK
<1>5. CASE line.pp = "endif" /\ conds # <<>>
  <2>1. Len(cs) = Len(conds) - 1 /\ \A k \in 1 .. Len(conds) - 1 : cs[k] = conds[k]
    BY <1>5, ConditionalsLemma
  <2>2. \A k \in 1 .. Len(conds) - 1 : k \in 1 .. Len(conds) /\ k < Len(conds)
    BY <1>1
  <2>3. \A k \in 1 .. Len(conds) - 1 : cs[k].id < i + 1 /\ cs[k].inner
    <3>1. \A k \in 1 .. Len(conds) - 1 : conds[k].id < i + 1 /\ conds[k].inner
      BY <1>1, <1>2, <2>2
    <3> QED BY <2>1, <3>1
  <2>4. \A j, k \in 1 .. Len(conds) - 1 : cs[j].id = cs[k].id => j = k
    BY <1>2, <2>1, <2>2
  <2> QED BY <2>1, <2>3, <2>4 DEF CondsOK
<1>6. CASE line.pp # "if" /\ (line.pp \notin {"else", "elif", "endif"} \/ conds = <<>>)
  <2>1. cs = conds
    BY <1>6, ConditionalsLemma
  <2> QED BY <1>1, <1>2, <2>1 DEF CondsOK
<1> QED BY <1>3, <1>4, <1>5, <1>6

\* An entry of the list at #if, at #else of a conditional with nothing inside, and at #endif.
LEMMA RecordedIf ==
  ASSUME NEW line, NEW i \in Nat, conds \in Seq(Cond), NEW cs, cs = Conditionals(line, i),
         NEW p, NEW last, Recorded(p, conds, seen, last), SeenOK(seen, i), line.pp = "if"
  PROVE  Recorded(p, cs, seen, FALSE)
<1>1. PICK s \in seen : s.h = p[1] /\ Compatible(s.path, Path(conds))
  BY DEF Recorded
<1>2. \A a \in s.path : a[1] < i
  BY <1>1 DEF SeenOK
<1>3. /\ cs \in Seq(Cond) /\ Len(cs) = Len(conds) + 1 /\ cs[Len(cs)].id = i /\ Len(conds) \in Nat
      /\ \A k \in 1 .. Len(conds) : cs[k].id = conds[k].id /\ cs[k].branch = conds[k].branch
  BY ConditionalsLemma
<1>4. \A a \in s.path : a[1] # i
  BY <1>2
<1>5. \A a \in s.path : \A k \in 1 .. Len(conds) : a[1] = conds[k].id => a[2] = conds[k].branch
  BY <1>1, CompatibleLemma
<1>6. \A k \in 1 .. Len(cs) : k \in 1 .. Len(conds) \/ k = Len(cs)
  BY <1>3
<1>7. \A a \in s.path : \A k \in 1 .. Len(cs) : a[1] = cs[k].id => a[2] = cs[k].branch
  BY <1>3, <1>4, <1>5, <1>6
<1>8. Compatible(s.path, Path(cs))
  BY <1>3, <1>7, CompatibleLemma
<1>9. Last(cs).id = i
  BY <1>3 DEF Last
<1> QED BY <1>1, <1>4, <1>8, <1>9 DEF Recorded

LEMMA RecordedElse ==
  ASSUME NEW line, NEW i \in Nat, conds \in Seq(Cond), NEW cs, cs = Conditionals(line, i),
         NEW p, Recorded(p, conds, seen, FALSE), ~Last(conds).inner,
         line.pp \in {"else", "elif"}, conds # <<>>
  PROVE  Recorded(p, cs, seen, FALSE)
<1>1. PICK s \in seen : /\ s.h = p[1] /\ Compatible(s.path, Path(conds))
                        /\ \A a \in s.path : a[1] # Last(conds).id
  BY DEF Recorded
<1>2. /\ cs \in Seq(Cond) /\ Len(cs) = Len(conds) /\ cs[Len(conds)].id = conds[Len(conds)].id
      /\ \A k \in 1 .. Len(conds) - 1 : cs[k] = conds[k]
  BY ConditionalsLemma
<1>3. Last(conds) = conds[Len(conds)] /\ Last(cs) = cs[Len(conds)]
  BY <1>2 DEF Last
<1>4. \A a \in s.path : \A k \in 1 .. Len(conds) : a[1] = conds[k].id => a[2] = conds[k].branch
  BY <1>1, CompatibleLemma
<1>5. Len(conds) \in Nat /\ \A k \in 1 .. Len(conds) : k \in 1 .. Len(conds) - 1 \/ k = Len(conds)
  OBVIOUS
<1>6. \A a \in s.path : \A k \in 1 .. Len(cs) : a[1] = cs[k].id => a[2] = cs[k].branch
  BY <1>1, <1>2, <1>3, <1>4, <1>5
<1>7. Compatible(s.path, Path(cs))
  BY <1>2, <1>6, CompatibleLemma
<1> QED BY <1>1, <1>2, <1>3, <1>7 DEF Recorded

LEMMA RecordedEndif ==
  ASSUME NEW line, NEW i \in Nat, conds \in Seq(Cond), NEW cs, cs = Conditionals(line, i),
         NEW p, NEW last, Recorded(p, conds, seen, last), CondsOK(conds, i),
         line.pp = "endif", conds # <<>>
  PROVE  Recorded(p, cs, seen, last)
<1>1. PICK s \in seen : s.h = p[1] /\ Compatible(s.path, Path(conds))
  BY DEF Recorded
<1>2. /\ cs \in Seq(Cond) /\ Len(cs) = Len(conds) - 1
      /\ \A k \in 1 .. Len(conds) - 1 : cs[k] = conds[k]
  BY ConditionalsLemma
<1>3. \A a \in s.path : \A k \in 1 .. Len(conds) : a[1] = conds[k].id => a[2] = conds[k].branch
  BY <1>1, CompatibleLemma
<1>4. Len(conds) \in Nat \ {0} /\ \A k \in 1 .. Len(cs) : k \in 1 .. Len(conds) /\ k < Len(conds)
  <2>1. Len(conds) \in Nat \ {0}
    OBVIOUS
  <2>2. \A k \in 1 .. Len(conds) - 1 : k \in 1 .. Len(conds) /\ k < Len(conds)
    BY <2>1
  <2> QED BY <1>2, <2>1, <2>2
<1>5. \A a \in s.path : \A k \in 1 .. Len(cs) : a[1] = cs[k].id => a[2] = cs[k].branch
  BY <1>2, <1>3, <1>4
<1>6. Compatible(s.path, Path(cs))
  BY <1>2, <1>5, CompatibleLemma
<1>7. cs # <<>> => Last(cs).inner
  <2> SUFFICES ASSUME cs # <<>> PROVE Last(cs).inner
    OBVIOUS
  <2>1. Last(cs) = cs[Len(cs)] /\ Len(cs) \in Nat \ {0}
    BY <1>2, FrontLemma
  <2>2. cs[Len(cs)] = conds[Len(cs)] /\ conds[Len(cs)].inner
    BY <1>2, <1>4, <2>1 DEF CondsOK
  <2> QED BY <2>1, <2>2
<1> QED BY <1>1, <1>6, <1>7 DEF Recorded

\* The list of includes after an #include.
LEMMA IncludeLineLemma ==
  ASSUME NEW inc, IsIncludeState(inc), NEW h, NEW i, NEW after,
         NEW new, new = CheckIncludeLine(inc, h, i, after).inc
  PROVE  /\ IsIncludeState(new)
         /\ new.list = inc.list \/ new.list = Added(inc.list, <<h, i>>)
<1> DEFINE list == Added(inc.list, <<h, i>>)
           added == [inc EXCEPT !.list = list]
           kind == ClassifyInclude(h)
           order == CheckNextIncludeOrder(added, kind)
<1>1. new = inc \/ new = [order.inc EXCEPT !.last = Rank[h]]
  BY DEF CheckIncludeLine, Added
<1>2. PICK a, b, c : inc = [list |-> a, section |-> b, last |-> c]
  BY DEF IsIncludeState
<1>3. added = [list |-> list, section |-> b, last |-> c]
  <2> HIDE DEF list
  <2> QED BY <1>2
<1> HIDE DEF list, added, kind
<1>4. PICK d, e : order.inc = [added EXCEPT !.section = d, !.last = e]
  BY DEF CheckNextIncludeOrder
<1> HIDE DEF order
<1>5. order.inc = [list |-> list, section |-> d, last |-> e]
  BY <1>3, <1>4
<1>6. CASE new = [order.inc EXCEPT !.last = Rank[h]]
  <2>1. new = [list |-> list, section |-> d, last |-> Rank[h]]
    BY <1>5, <1>6
  <2>2. new.list = list /\ new.section = d /\ new.last = Rank[h]
    BY <2>1
  <2> QED BY <2>1, <2>2 DEF IsIncludeState, list
<1> QED BY <1>1, <1>6

\* The list of includes after any line that is not inline assembly.
LEMMA LanguageLemma ==
  ASSUME NEW lines, NEW i, IsIncludeState(includes), NEW new, new = CheckLanguage(includes, lines, i).inc
  PROVE  /\ IsIncludeState(new)
         /\ lines[i].pp = "if" => new.list = Append(includes.list, <<>>)
         /\ lines[i].pp \in {"else", "elif"} => new.list = Append(Front(includes.list), <<>>)
         /\ lines[i].pp = "include" =>
              \/ new.list = includes.list
              \/ new.list = Added(includes.list, <<lines[i].inc, i>>)
         /\ lines[i].pp \notin {"if", "else", "elif", "include"} => new.list = includes.list
<1> DEFINE line == lines[i]
<1>1. CASE line.pp = "include"
  <2>1. PICK h, after : h = line.inc /\ new = CheckIncludeLine(includes, h, i, after).inc
    BY <1>1 DEF CheckLanguage
  <2>2. /\ IsIncludeState(new)
        /\ new.list = includes.list \/ new.list = Added(includes.list, <<h, i>>)
    BY <2>1, IncludeLineLemma
  <2> QED BY <1>1, <2>1, <2>2
<1>2. CASE line.pp \in {"if", "else", "elif", "endif"}
  <2>1. new = ResetSection(includes, line.pp)
    BY <1>2 DEF CheckLanguage
  <2> DEFINE list == CASE line.pp = "if" -> Append(includes.list, <<>>)
                       [] line.pp \in {"else", "elif"} -> Append(Front(includes.list), <<>>)
                       [] OTHER -> includes.list
  <2>2. new = [list |-> list, section |-> 0, last |-> 0]
    BY <2>1 DEF ResetSection
  <2>3. new.list = list /\ IsIncludeState(new)
    <3> HIDE DEF list
    <3> QED BY <2>2 DEF IsIncludeState
  <2> QED BY <1>2, <2>3
<1>3. CASE line.pp \notin {"if", "else", "elif", "endif", "include"}
  <2>1. new = includes
    BY <1>3 DEF CheckLanguage
  <2> QED BY <1>3, <2>1
<1> QED BY <1>1, <1>2, <1>3

\* What ProcessLine does to includes and to the history.
LEMMA LineLemma ==
  ASSUME ProcessLine, NEW line, line = text.elided[n], NEW here,
         here = [h |-> line.inc, line |-> n, path |-> Path(conds)]
  PROVE  LET asm == InAsmBlock(nesting'.stack)
         IN /\ n \in 1 .. Len(text.lines) /\ n' = n + 1 /\ conds' = Conditionals(line, n)
            /\ includes' = IF asm THEN includes ELSE CheckLanguage(includes, text.elided, n).inc
            /\ seen' = IF line.pp = "include" THEN seen \cup {here} ELSE seen
            /\ dups' = IF line.pp = "include" /\ ~asm /\ FindHeader(includes, line.inc) THEN dups \cup {here} ELSE dups
            /\ tangled' <=> \/ tangled
                            \/ asm /\ line.pp # "none"
                            \/ line.pp \in {"else", "elif"} /\ conds # <<>> /\ Last(conds).inner
BY DEF ProcessLine, Lint, Path

\* Lists of includes keep their form.
LEMMA ListTypeLemma ==
  ASSUME NEW T, NEW list \in Seq(Seq(T)), list # <<>>, NEW p
  PROVE  /\ Append(list, <<>>) # <<>> /\ Append(list, <<>>) \in Seq(Seq(T))
         /\ Append(Front(list), <<>>) # <<>> /\ Append(Front(list), <<>>) \in Seq(Seq(T))
         /\ Added(list, p) # <<>> /\ Added(list, p) \in Seq(Seq(T \cup {p}))
<1>1. <<>> \in Seq(T) /\ Len(list) \in Nat \ {0}
  OBVIOUS
<1>2. Append(list, <<>>) # <<>> /\ Append(list, <<>>) \in Seq(Seq(T))
  BY <1>1
<1>3. Append(Front(list), <<>>) \in Seq(Seq(T)) /\ Len(Append(Front(list), <<>>)) = Len(list)
  BY <1>1, TopLemma
<1>4. list \in Seq(Seq(T \cup {p}))
  <2>1. Seq(T) \subseteq Seq(T \cup {p})
    BY SeqMonotonic
  <2> QED BY <2>1, SeqMonotonic
<1>5. Last(list) \in Seq(T \cup {p})
  BY <1>4, FrontLemma
<1>6. PICK q \in Seq(T \cup {p}) : q = Append(Last(list), p)
  <2>1. p \in T \cup {p}
    OBVIOUS
  <2> QED BY <1>5, <2>1, AppendLemma
<1>7. Append(Front(list), q) \in Seq(Seq(T \cup {p})) /\ Len(Append(Front(list), q)) = Len(list)
  BY <1>4, <1>6, TopLemma
<1> QED BY <1>1, <1>2, <1>3, <1>6, <1>7 DEF Added

\* The entries of the list that a line leaves.
LEMMA ListNext ==
  ASSUME DuplicateInv, ProcessLine, ~tangled'
  PROVE  ListOK(includes'.list, conds', seen')
<1> DEFINE asm == InAsmBlock(nesting'.stack)
           list == includes.list
<1>0. PICK line, here : line = text.elided[n] /\ here = [h |-> line.inc, line |-> n, path |-> Path(conds)]
  OBVIOUS
<1>1. /\ line = text.elided[n] /\ here.h = line.inc /\ here.path = Path(conds)
      /\ n \in Nat /\ n > 0 /\ conds' = Conditionals(line, n)
      /\ includes' = IF asm THEN includes ELSE CheckLanguage(includes, text.elided, n).inc
      /\ seen' = IF line.pp = "include" THEN seen \cup {here} ELSE seen
      /\ ~tangled /\ ~(asm /\ line.pp # "none")
      /\ ~(line.pp \in {"else", "elif"} /\ conds # <<>> /\ Last(conds).inner)
  <2>1. /\ n \in 1 .. Len(text.lines) /\ conds' = Conditionals(line, n)
        /\ includes' = IF asm THEN includes ELSE CheckLanguage(includes, text.elided, n).inc
        /\ seen' = IF line.pp = "include" THEN seen \cup {here} ELSE seen
        /\ tangled' <=> \/ tangled
                        \/ asm /\ line.pp # "none"
                        \/ line.pp \in {"else", "elif"} /\ conds # <<>> /\ Last(conds).inner
    BY <1>0, LineLemma
  <2>2. n \in Nat /\ n > 0
    BY <2>1 DEF DuplicateInv, NestingInv
  <2> QED BY <1>0, <2>1, <2>2
<1> HIDE DEF asm
<1>2. /\ conds \in Seq(Cond) /\ IsIncludeState(includes) /\ list # <<>>
      /\ CondsOK(conds, n) /\ SeenOK(seen, n) /\ ListOK(list, conds, seen)
  BY <1>1 DEF DuplicateInv, NestingInv
<1>2a. /\ line.pp = "if" => includes'.list = Append(list, <<>>)
       /\ line.pp \in {"else", "elif"} => includes'.list = Append(Front(list), <<>>)
       /\ line.pp = "include" => includes'.list = list \/ includes'.list = Added(list, <<line.inc, n>>)
       /\ line.pp \notin {"if", "else", "elif", "include"} => includes'.list = list
  <2>1. CASE asm
    <3>1. line.pp = "none" /\ includes' = includes
      BY <1>1, <2>1
    <3> QED BY <3>1
  <2>2. CASE ~asm
    <3>1. PICK new : new = CheckLanguage(includes, text.elided, n).inc /\ new = includes'
      BY <1>1, <2>2
    <3>2. PICK lines : lines = text.elided
      OBVIOUS
    <3>3. new = CheckLanguage(includes, lines, n).inc /\ line = lines[n]
      BY <1>0, <3>1, <3>2
    <3>4. /\ line.pp = "if" => new.list = Append(list, <<>>)
          /\ line.pp \in {"else", "elif"} => new.list = Append(Front(list), <<>>)
          /\ line.pp = "include" => new.list = list \/ new.list = Added(list, <<line.inc, n>>)
          /\ line.pp \notin {"if", "else", "elif", "include"} => new.list = list
      BY <1>2, <3>3, LanguageLemma
    <3> QED BY <3>1, <3>4
  <2> QED BY <2>1, <2>2
<1>3. PICK T : list \in Seq(Seq(T))
  BY DEF DuplicateInv
<1>4. Len(list) \in Nat \ {0} /\ \A k \in 1 .. Len(list) : Len(list[k]) \in Nat
  BY <1>2, <1>3
<1>5. \A k \in 1 .. Len(list) : \A m \in 1 .. Len(list[k]) : Recorded(list[k][m], conds, seen, k = Len(list))
  BY <1>2 DEF ListOK
<1>6. <<>> \in Seq(T) /\ Len(<<>>) = 0
  OBVIOUS
<1>7. ASSUME line.pp = "if"
      PROVE  ListOK(includes'.list, conds', seen')
  <2>1. includes'.list = Append(list, <<>>) /\ seen' = seen
    BY <1>1, <1>2a, <1>7
  <2>2. PICK new : new = includes'.list
    OBVIOUS
  <2>3. /\ Len(new) = Len(list) + 1 /\ new[Len(list) + 1] = <<>>
        /\ \A k \in 1 .. Len(list) : new[k] = list[k]
    BY <1>3, <1>6, <2>1, <2>2, AppendLemma
  <2> SUFFICES ASSUME NEW k \in 1 .. Len(new), NEW m \in 1 .. Len(new[k])
               PROVE  Recorded(new[k][m], conds', seen, k = Len(new))
    BY <2>1, <2>2 DEF ListOK
  <2>4. k \in 1 .. Len(list) /\ (k = Len(new)) = FALSE
    BY <1>4, <1>6, <2>3
  <2>5. Recorded(list[k][m], conds, seen, k = Len(list))
    BY <1>5, <2>3, <2>4
  <2>6. Recorded(list[k][m], conds', seen, FALSE)
    BY <1>1, <1>2, <1>7, <2>5, RecordedIf
  <2> QED BY <2>3, <2>4, <2>6
<1>8. ASSUME line.pp \in {"else", "elif"}
      PROVE  ListOK(includes'.list, conds', seen')
  <2>1. includes'.list = Append(Front(list), <<>>) /\ seen' = seen
    BY <1>1, <1>2a, <1>8
  <2>2. PICK new : new = includes'.list
    OBVIOUS
  <2>3. /\ Len(new) = Len(list) /\ new[Len(list)] = <<>>
        /\ \A k \in 1 .. Len(list) - 1 : new[k] = list[k]
    <3>1. PICK empty, U : empty = <<>> /\ U = Seq(T) /\ empty \in U
      BY <1>6
    <3>2. list \in Seq(U) /\ list # <<>> /\ new = Append(Front(list), empty)
      BY <1>2, <1>3, <2>1, <2>2, <3>1
    <3>3. Len(new) = Len(list) /\ new[Len(list)] = empty /\ \A k \in 1 .. Len(list) - 1 : new[k] = list[k]
      BY <3>1, <3>2, TopLemma
    <3> QED BY <3>1, <3>3
  <2> SUFFICES ASSUME NEW k \in 1 .. Len(new), NEW m \in 1 .. Len(new[k])
               PROVE  Recorded(new[k][m], conds', seen, k = Len(new))
    BY <2>1, <2>2 DEF ListOK
  <2>4. k \in 1 .. Len(list) - 1 /\ k \in 1 .. Len(list) /\ (k = Len(new)) = FALSE /\ (k = Len(list)) = FALSE
    BY <1>4, <1>6, <2>3
  <2>5. Recorded(list[k][m], conds, seen, FALSE)
    BY <1>5, <2>3, <2>4
  <2>6. Recorded(list[k][m], conds', seen, FALSE)
    <3>1. CASE conds # <<>>
      BY <1>1, <1>2, <1>8, <2>5, <3>1, RecordedElse
    <3>2. CASE conds = <<>>
      <4>1. conds' = conds
        BY <1>1, <1>2, <1>8, <3>2, ConditionalsLemma
      <4> QED BY <2>5, <4>1
    <3> QED BY <3>1, <3>2
  <2> QED BY <2>3, <2>4, <2>6
<1>9. ASSUME line.pp \notin {"if", "else", "elif"}, includes'.list = list, seen \subseteq seen'
      PROVE  ListOK(includes'.list, conds', seen')
  <2> SUFFICES ASSUME NEW k \in 1 .. Len(list), NEW m \in 1 .. Len(list[k])
               PROVE  Recorded(list[k][m], conds', seen', k = Len(list))
    BY <1>9 DEF ListOK
  <2>1. PICK last : last = (k = Len(list))
    OBVIOUS
  <2>2. Recorded(list[k][m], conds, seen, last)
    BY <1>5, <2>1
  <2>3. Recorded(list[k][m], conds', seen, last)
    <3>1. CASE line.pp = "endif" /\ conds # <<>>
      BY <1>1, <1>2, <2>2, <3>1, RecordedEndif
    <3>2. CASE ~(line.pp = "endif" /\ conds # <<>>)
      <4>1. conds' = conds
        BY <1>1, <1>2, <1>9, <3>2, ConditionalsLemma
      <4> QED BY <2>2, <4>1
    <3> QED BY <3>1, <3>2
  <2> QED BY <1>9, <2>1, <2>3 DEF Recorded
<1>10. ASSUME line.pp = "include", includes'.list = Added(list, <<line.inc, n>>)
       PROVE  ListOK(includes'.list, conds', seen')
  <2> DEFINE p == <<line.inc, n>>
             old == Last(list)
  <2>1. /\ old \in Seq(T) /\ old = list[Len(list)] /\ old \in Seq(T \cup {p}) /\ list \in Seq(Seq(T \cup {p}))
    <3>1. Seq(T) \subseteq Seq(T \cup {p})
      BY SeqMonotonic
    <3>2. list \in Seq(Seq(T \cup {p}))
      BY <1>3, <3>1, SeqMonotonic
    <3>3. old \in Seq(T) /\ old = list[Len(list)]
      BY <1>2, <1>3, FrontLemma
    <3> QED BY <3>1, <3>2, <3>3
  <2>2. PICK q : q = Append(old, p)
    OBVIOUS
  <2>3. /\ q \in Seq(T \cup {p}) /\ Len(q) = Len(old) + 1 /\ q[Len(old) + 1] = p /\ Len(old) \in Nat
        /\ \A m \in 1 .. Len(old) : q[m] = old[m]
    <3>1. p \in T \cup {p} /\ Len(old) \in Nat
      BY <2>1
    <3> HIDE DEF p, old
    <3> QED BY <2>1, <2>2, <3>1, AppendLemma
  <2>4. PICK new : new = includes'.list
    OBVIOUS
  <2>5. /\ Len(new) = Len(list) /\ new[Len(list)] = q /\ \A k \in 1 .. Len(list) - 1 : new[k] = list[k]
    <3>1. new = Append(Front(list), q)
      BY <1>10, <2>2, <2>4 DEF Added
    <3> HIDE DEF p, old
    <3>2. PICK U : U = Seq(T \cup {p})
      OBVIOUS
    <3>3. list \in Seq(U) /\ q \in U /\ list # <<>>
      BY <1>2, <2>1, <2>3, <3>2
    <3> QED BY <3>1, <3>3, TopLemma
  <2>6. conds' = conds /\ seen' = seen \cup {here}
    BY <1>1, <1>2, <1>10, ConditionalsLemma
  <2>7. ASSUME NEW k \in 1 .. Len(list), NEW m \in 1 .. Len(list[k])
        PROVE  Recorded(list[k][m], conds', seen', k = Len(list))
    BY <1>5, <2>6 DEF Recorded
  <2>8. Recorded(p, conds', seen', TRUE)
    <3>1. \A a \in Path(conds) : \A k \in 1 .. Len(conds) : a[1] = conds[k].id => a[2] = conds[k].branch
      <4> SUFFICES ASSUME NEW a \in Path(conds), NEW k \in 1 .. Len(conds), a[1] = conds[k].id
                   PROVE  a[2] = conds[k].branch
        OBVIOUS
      <4>1. PICK j \in 1 .. Len(conds) : a = <<conds[j].id, conds[j].branch>>
        BY <1>2 DEF Path, Range
      <4>2. conds[j].id = conds[k].id /\ a[2] = conds[j].branch
        BY <4>1
      <4>3. j = k
        BY <1>2, <4>2 DEF CondsOK
      <4> QED BY <4>2, <4>3
    <3>2. Compatible(here.path, Path(conds)) /\ here.h = line.inc
      <4>1. Compatible(Path(conds), Path(conds))
        BY <1>2, <3>1, CompatibleLemma
      <4> QED BY <1>1, <4>1
    <3>3. p[1] = line.inc
      OBVIOUS
    <3> HIDE DEF p
    <3> QED BY <2>6, <3>2, <3>3 DEF Recorded
  <2> SUFFICES ASSUME NEW k \in 1 .. Len(new), NEW m \in 1 .. Len(new[k])
               PROVE  Recorded(new[k][m], conds', seen', k = Len(new))
    BY <2>4 DEF ListOK
  <2>9. CASE k = Len(list)
    <3>1. CASE m = Len(old) + 1
      BY <2>3, <2>5, <2>8, <2>9, <3>1
    <3>2. CASE m \in 1 .. Len(old)
      BY <1>4, <2>1, <2>3, <2>5, <2>7, <2>9, <3>2
    <3>3. m = Len(old) + 1 \/ m \in 1 .. Len(old)
      BY <2>3, <2>5, <2>9
    <3> QED BY <3>1, <3>2, <3>3
  <2>10. CASE k \in 1 .. Len(list) - 1
    <3>1. k \in 1 .. Len(list) /\ new[k] = list[k]
      BY <1>4, <2>5, <2>10
    <3> QED BY <2>5, <2>7, <3>1
  <2> QED BY <1>4, <2>5, <2>9, <2>10
<1>11. CASE line.pp = "include"
  <2>1. seen \subseteq seen' /\ (includes'.list = list \/ includes'.list = Added(list, <<line.inc, n>>))
    BY <1>1, <1>2a, <1>11
  <2> QED BY <1>9, <1>10, <1>11, <2>1
<1>12. CASE line.pp \notin {"if", "else", "elif", "include"}
  <2>1. seen' = seen /\ includes'.list = list
    BY <1>1, <1>2a, <1>12
  <2> QED BY <1>9, <1>12, <2>1
<1> QED BY <1>7, <1>8, <1>11, <1>12

\* A header that is found in the list was included where it can be compiled twice.
LEMMA DuplicateLine ==
  ASSUME DuplicateInv, ProcessLine
  PROVE  DuplicateInv'
<1> DEFINE asm == InAsmBlock(nesting'.stack)
<1>1. PICK line, here : line = text.elided[n] /\ here = [h |-> line.inc, line |-> n, path |-> Path(conds)]
  OBVIOUS
<1>2. /\ n \in 1 .. Len(text.lines) /\ n' = n + 1 /\ conds' = Conditionals(line, n)
      /\ includes' = IF asm THEN includes ELSE CheckLanguage(includes, text.elided, n).inc
      /\ seen' = IF line.pp = "include" THEN seen \cup {here} ELSE seen
      /\ dups' = IF line.pp = "include" /\ ~asm /\ FindHeader(includes, line.inc) THEN dups \cup {here} ELSE dups
      /\ ~tangled' => ~tangled
  BY <1>1, LineLemma
<1>3. here.h = line.inc /\ here.line = n /\ here.path = Path(conds)
  BY <1>1
<1> HIDE DEF asm
<1>4. /\ n \in Nat /\ n > 0 /\ conds \in Seq(Cond) /\ IsIncludeState(includes) /\ includes.list # <<>>
      /\ CondsOK(conds, n) /\ SeenOK(seen, n)
      /\ ~tangled => ListOK(includes.list, conds, seen)
  BY <1>2 DEF DuplicateInv, NestingInv
<1>5. PICK T : includes.list \in Seq(Seq(T))
  BY DEF DuplicateInv
<1>6. NestingInv'
  BY NestingNext DEF DuplicateInv, Next
<1>7. IsIncludeState(includes') /\ includes'.list # <<>> /\ \E R : includes'.list \in Seq(Seq(R))
  <2>1. CASE asm
    BY <1>2, <1>4, <1>5, <2>1
  <2>2. CASE ~asm
    <3>1. PICK new : new = CheckLanguage(includes, text.elided, n).inc /\ new = includes'
      BY <1>2, <2>2
    <3>2. /\ IsIncludeState(new)
          /\ \/ new.list = includes.list
             \/ new.list = Append(includes.list, <<>>)
             \/ new.list = Append(Front(includes.list), <<>>)
             \/ new.list = Added(includes.list, <<line.inc, n>>)
      BY <1>1, <1>4, <3>1, LanguageLemma
    <3>3. PICK p, list : p = <<line.inc, n>> /\ list = includes.list
      OBVIOUS
    <3>4. /\ Append(list, <<>>) # <<>> /\ Append(list, <<>>) \in Seq(Seq(T))
          /\ Append(Front(list), <<>>) # <<>> /\ Append(Front(list), <<>>) \in Seq(Seq(T))
          /\ Added(list, p) # <<>> /\ Added(list, p) \in Seq(Seq(T \cup {p}))
      BY <1>4, <1>5, <3>3, ListTypeLemma
    <3>5. CASE new.list = list
      BY <1>4, <1>5, <3>1, <3>2, <3>3, <3>5
    <3>6. CASE new.list = Append(list, <<>>) \/ new.list = Append(Front(list), <<>>)
      BY <3>1, <3>2, <3>4, <3>6
    <3>7. CASE new.list = Added(list, p)
      BY <3>1, <3>2, <3>4, <3>7
    <3> QED BY <3>2, <3>3, <3>5, <3>6, <3>7
  <2> QED BY <2>1, <2>2
<1>8. SeenOK(seen', n')
  <2>1. \A s \in seen : s.line \in Nat /\ s.line < n + 1 /\ \A a \in s.path : a[1] \in Nat /\ a[1] < n + 1
    BY <1>4 DEF SeenOK
  <2>2. \A a \in Path(conds) : a[1] \in Nat /\ a[1] < n + 1
    <3> SUFFICES ASSUME NEW a \in Path(conds) PROVE a[1] \in Nat /\ a[1] < n + 1
      OBVIOUS
    <3>1. PICK j \in 1 .. Len(conds) : a = <<conds[j].id, conds[j].branch>>
      BY <1>4 DEF Path, Range
    <3>2. conds[j] \in Cond /\ conds[j].id < n
      BY <1>4 DEF CondsOK
    <3>3. conds[j].id \in Nat /\ a[1] = conds[j].id
      BY <3>1, <3>2 DEF Cond
    <3> QED BY <1>4, <3>2, <3>3
  <2>3. here.line \in Nat /\ here.line < n + 1 /\ \A a \in here.path : a[1] \in Nat /\ a[1] < n + 1
    BY <1>3, <1>4, <2>2
  <2> QED BY <1>2, <2>1, <2>3 DEF SeenOK
<1>9. DuplicatesReal'
  <2> SUFFICES ASSUME ~tangled', NEW d \in dups'
               PROVE  \E s \in seen' : s.h = d.h /\ s.line < d.line /\ Compatible(s.path, d.path)
    BY DEF DuplicatesReal
  <2>1. seen \subseteq seen'
    BY <1>2
  <2>2. CASE d \in dups
    <3>1. \E s \in seen : s.h = d.h /\ s.line < d.line /\ Compatible(s.path, d.path)
      BY <1>2, <2>2 DEF DuplicateInv, DuplicatesReal
    <3> QED BY <2>1, <3>1
  <2>3. CASE d \notin dups
    <3>1. d = here /\ FindHeader(includes, line.inc)
      BY <1>2, <2>3
    <3>2. PICK p \in Included(includes) : p[1] = line.inc
      BY <3>1 DEF FindHeader
    <3>3. PICK k \in DOMAIN includes.list : p \in Range(includes.list[k])
      BY <3>2 DEF Included
    <3>4. PICK m \in DOMAIN includes.list[k] : p = includes.list[k][m]
      BY <3>3 DEF Range
    <3>5. k \in 1 .. Len(includes.list) /\ m \in 1 .. Len(includes.list[k])
      BY <1>5, <3>3, <3>4
    <3>6. Recorded(includes.list[k][m], conds, seen, k = Len(includes.list))
      BY <1>2, <1>4, <3>5 DEF ListOK
    <3>7. PICK s \in seen : s.h = p[1] /\ Compatible(s.path, Path(conds))
      BY <3>4, <3>6 DEF Recorded
    <3>8. s.line < n
      BY <1>4, <3>7 DEF SeenOK
    <3> QED BY <1>3, <2>1, <3>1, <3>2, <3>7, <3>8
  <2> QED BY <2>2, <2>3
<1>10. CondsOK(conds', n')
  BY <1>2, <1>4, CondsNext
<1>11. ~tangled' => ListOK(includes'.list, conds', seen')
  BY ListNext
<1> QED BY <1>6, <1>7, <1>8, <1>9, <1>10, <1>11 DEF DuplicateInv

\* Every step keeps the list of includes and what it stands for.
LEMMA DuplicateNext ==
  ASSUME DuplicateInv, [Next]_vars
  PROVE  DuplicateInv'
<1>1. NestingInv'
  BY NestingNext DEF DuplicateInv
<1>2. CASE SkipFile
  <2>1. UNCHANGED <<n, includes, conds, seen, dups, tangled>>
    BY <1>2 DEF SkipFile
  <2> QED BY <1>1, <2>1 DEF DuplicateInv, DuplicatesReal
<1>3. CASE ProcessFile
  <2>1. n' = 1 /\ includes' = NewIncludeState /\ conds' = <<>> /\ seen' = {} /\ dups' = {} /\ ~tangled'
    BY <1>3 DEF ProcessFile
  <2>2. includes'.list = << <<>> >> /\ IsIncludeState(includes')
    BY <2>1 DEF NewIncludeState, IsIncludeState
  <2>3. << <<>> >> \in Seq(Seq({})) /\ << <<>> >> # <<>>
    OBVIOUS
  <2>4. CondsOK(conds', n') /\ SeenOK(seen', n') /\ DuplicatesReal'
    BY <2>1 DEF CondsOK, SeenOK, DuplicatesReal
  <2>5. ListOK(<< <<>> >>, conds', seen')
    BY DEF ListOK
  <2> QED BY <1>1, <2>2, <2>3, <2>4, <2>5 DEF DuplicateInv
<1>4. CASE ProcessLine
  BY <1>4, DuplicateLine
<1>5. CASE FinishFile
  <2>1. n' = 0 /\ UNCHANGED <<includes, seen, dups, tangled>>
    BY <1>5 DEF FinishFile
  <2> QED BY <1>1, <2>1 DEF DuplicateInv, DuplicatesReal
<1>6. CASE Exit
  <2>1. UNCHANGED <<n, includes, conds, seen, dups, tangled>>
    BY <1>6 DEF Exit
  <2> QED BY <1>1, <2>1 DEF DuplicateInv, DuplicatesReal
<1>7. CASE UNCHANGED vars
  BY <1>1, <1>7 DEF vars, DuplicateInv, DuplicatesReal
<1> QED BY <1>2, <1>3, <1>4, <1>5, <1>6, <1>7 DEF Next

\* A header is reported as already included only where the file can be compiled so that it is
\* included twice, unless an #else follows a conditional nested in its own branch.
THEOREM DuplicatesCorrect == Spec => []DuplicatesReal
<1>1. Init => DuplicateInv
  <2> SUFFICES ASSUME Init PROVE DuplicateInv
    OBVIOUS
  <2>1. n = 0 /\ includes = NewIncludeState /\ dups = {}
    BY DEF Init
  <2>2. includes.list = << <<>> >> /\ IsIncludeState(includes)
    BY <2>1 DEF NewIncludeState, IsIncludeState
  <2>3. << <<>> >> \in Seq(Seq({})) /\ << <<>> >> # <<>>
    OBVIOUS
  <2> QED BY NestingInit, <2>1, <2>2, <2>3 DEF DuplicateInv, DuplicatesReal
<1>2. DuplicateInv /\ [Next]_vars => DuplicateInv'
  BY DuplicateNext
<1>3. DuplicateInv => DuplicatesReal
  BY DEF DuplicateInv
<1> QED BY <1>1, <1>2, <1>3, PTL DEF Spec

-----------------------------------------------------------------------------
(* Concatenation, from the left and from the right.                        *)

Concat(c, a, x) == a \o x
Prepend(c, a, x) == x \o a

ConcatFold == INSTANCE FoldTheorems WITH Op <- Concat
PrependFold == INSTANCE FoldTheorems WITH Op <- Prepend

\* What the proofs use of concatenation.
IsMonoid(M) ==
  /\ <<>> \in M
  /\ \A a, b \in M : Concat(0, a, b) \in M
  /\ \A a, b, c \in M : Concat(0, Concat(0, a, b), c) = Concat(0, a, Concat(0, b, c))
  /\ \A a \in M : Concat(0, <<>>, a) = a /\ Concat(0, a, <<>>) = a

\* The results g after 0, 1, ... and all of the sequences r, and elements of M.
Joins(g, r, len) == g[0] = <<>> /\ \A k \in 1 .. len : g[k] = Concat(0, g[k - 1], r[k])
Fronts(g, r, len) == g[0] = <<>> /\ \A k \in 1 .. len : g[k] = Concat(0, r[k], g[k - 1])
Within(M, f, first, last) == \A k \in first .. last : f[k] \in M

\* The sequences over a set form a monoid.
LEMMA SeqMonoid == ASSUME NEW T PROVE IsMonoid(Seq(T))
<1>1. \A a, b \in Seq(T) : a \o b \in Seq(T)
  OBVIOUS
<1>2. \A a, b, c \in Seq(T) : (a \o b) \o c = a \o (b \o c)
  BY ConcatAssociative
<1>3. \A a \in Seq(T) : <<>> \o a = a /\ a \o <<>> = a
  BY ConcatEmptySeq
<1>4. <<>> \in Seq(T)
  OBVIOUS
<1> QED BY <1>1, <1>2, <1>3, <1>4 DEF IsMonoid, Concat

\* The results of concatenating more and more sequences are sequences.
LEMMA ConcatRun ==
  ASSUME NEW M, IsMonoid(M), NEW len \in Nat, NEW r, Within(M, r, 1, len)
  PROVE  \E g : Joins(g, r, len) /\ Within(M, g, 0, len)
<1>1. PICK g : g[0] = <<>> /\ \A k \in 1 .. len : g[k] = Concat(0, g[k - 1], r[k])
  <2>1. PICK f : ConcatFold!IsFold(f, 0, <<>>, r, len)
    BY ConcatFold!FoldExists
  <2> QED BY <2>1, ConcatFold!FoldRuns DEF ConcatFold!IsRun
<1> DEFINE R == {k \in 0 .. len : g[k] \in M}
<1>2. 0 \in R
  <2>1. g[0] \in M
    BY <1>1 DEF IsMonoid
  <2> QED BY <2>1
<1>3. ASSUME NEW k \in 1 .. len, k - 1 \in R PROVE k \in R
  <2>1. k \in 0 .. len /\ g[k - 1] \in M
    BY <1>3
  <2>2. Concat(0, g[k - 1], r[k]) \in M
    BY <2>1 DEF IsMonoid, Within
  <2> QED BY <1>1, <2>1, <2>2
<1>4. 0 .. len \subseteq R
  <2> HIDE DEF R
  <2> QED BY <1>2, <1>3, ConcatFold!IntervalInduction
<1> QED BY <1>1, <1>4 DEF Joins, Within

\* The same with each sequence put in front.
LEMMA PrependRun ==
  ASSUME NEW M, IsMonoid(M), NEW len \in Nat, NEW r, Within(M, r, 1, len)
  PROVE  \E g : Fronts(g, r, len) /\ Within(M, g, 0, len)
<1>1. PICK g : g[0] = <<>> /\ \A k \in 1 .. len : g[k] = Concat(0, r[k], g[k - 1])
  <2>1. PICK f : PrependFold!IsFold(f, 0, <<>>, r, len)
    BY PrependFold!FoldExists
  <2>2. \A a, x : Prepend(0, a, x) = Concat(0, x, a)
    BY DEF Prepend, Concat
  <2> QED BY <2>1, <2>2, PrependFold!FoldRuns DEF PrependFold!IsRun
<1> DEFINE R == {k \in 0 .. len : g[k] \in M}
<1>2. 0 \in R
  <2>1. g[0] \in M
    BY <1>1 DEF IsMonoid
  <2> QED BY <2>1
<1>3. ASSUME NEW k \in 1 .. len, k - 1 \in R PROVE k \in R
  <2>1. k \in 0 .. len /\ g[k - 1] \in M
    BY <1>3
  <2>2. Concat(0, r[k], g[k - 1]) \in M
    BY <2>1 DEF IsMonoid, Within
  <2> QED BY <1>1, <2>1, <2>2
<1>4. 0 .. len \subseteq R
  <2> HIDE DEF R
  <2> QED BY <1>2, <1>3, ConcatFold!IntervalInduction
<1> QED BY <1>1, <1>4 DEF Fronts, Within

\* FlattenSeq is the last of the results.
LEMMA FlattenRun ==
  ASSUME NEW M, IsMonoid(M), NEW len \in Nat, NEW r, Len(r) = len, len = 0 => r = <<>>,
         Within(M, r, 1, len), NEW g, Joins(g, r, len)
  PROVE  FlattenSeq(r) = g[len]
<1>a. g[0] = <<>> /\ \A k \in 1 .. len : g[k] = Concat(0, g[k - 1], r[k])
  BY DEF Joins
<1>b. \A k \in 1 .. len : r[k] \in M
  BY DEF Within
<1>1. CASE len = 0
  BY <1>1, <1>a DEF FlattenSeq
<1>2. CASE len # 0
  <2> DEFINE F(f) == f = [i \in 1 .. len |-> IF i = 1 THEN r[i] ELSE Concat(0, f[i - 1], r[i])]
             h == [i \in 1 .. len |-> g[i]]
  <2>0. 1 \in 1 .. len /\ len \in 1 .. len
    BY <1>2
  <2>1. g[1] = r[1]
    <3>1. g[1] = Concat(0, g[1 - 1], r[1])
      BY <1>a, <2>0
    <3>2. Concat(0, <<>>, r[1]) = r[1]
      BY <1>b, <2>0 DEF IsMonoid
    <3> QED BY <1>a, <3>1, <3>2
  <2>2. ASSUME NEW i \in 1 .. len PROVE h[i] = IF i = 1 THEN r[i] ELSE Concat(0, h[i - 1], r[i])
    <3>1. CASE i = 1
      BY <2>1, <3>1
    <3>2. CASE i # 1
      <4>1. i - 1 \in 1 .. len
        BY <3>2
      <4> QED BY <1>a, <3>2, <4>1
    <3> QED BY <3>1, <3>2
  <2>3. F(h)
    BY <2>2
  <2>4. PICK f : F(f) /\ FlattenSeq(r) = f[len]
    <3> HIDE DEF h
    <3> QED BY <1>2, <2>3 DEF FlattenSeq, Concat
  <2>5. \A i \in 1 .. len : f[i] = IF i = 1 THEN r[i] ELSE Concat(0, f[i - 1], r[i])
    BY <2>4
  <2> HIDE DEF F, h
  <2> DEFINE R == {k \in 0 .. len : k # 0 => f[k] = g[k]}
  <2>6. 0 \in R
    OBVIOUS
  <2>7. ASSUME NEW k \in 1 .. len, k - 1 \in R PROVE k \in R
    <3>1. CASE k = 1
      BY <2>1, <2>5, <3>1
    <3>2. CASE k # 1
      <4>1. k - 1 # 0 /\ k \in 0 .. len
        BY <3>2
      <4>2. f[k] = Concat(0, f[k - 1], r[k])
        BY <2>5, <3>2
      <4>3. f[k - 1] = g[k - 1]
        BY <2>7, <4>1
      <4> QED BY <1>a, <4>1, <4>2, <4>3
    <3> QED BY <3>1, <3>2
  <2> HIDE DEF R
  <2>8. 0 .. len \subseteq R
    BY <2>6, <2>7, ConcatFold!IntervalInduction
  <2>9. f[len] = g[len]
    <3>1. len \in 0 .. len
      OBVIOUS
    <3>2. len \in R
      BY <2>8, <3>1
    <3> QED BY <1>2, <3>2 DEF R
  <2> QED BY <2>4, <2>9
<1> QED BY <1>1, <1>2

\* One sequence in front of the others.
LEMMA FlattenCons ==
  ASSUME NEW T, NEW r \in Seq(Seq(T)), NEW x \in Seq(T)
  PROVE  /\ <<x>> \o r \in Seq(Seq(T)) /\ FlattenSeq(<<x>> \o r) = x \o FlattenSeq(r)
         /\ FlattenSeq(r) \in Seq(T)
<1> DEFINE M == Seq(T)
           s == <<x>> \o r
<1>1. PICK len : len = Len(r)
  OBVIOUS
<1>2. /\ len \in Nat /\ (len = 0 => r = <<>>) /\ \A k \in 1 .. len : r[k] \in M
      /\ s \in Seq(M) /\ Len(s) = len + 1 /\ s[1] = x /\ \A k \in 1 .. len : s[k + 1] = r[k]
      /\ \A k \in 1 .. len + 1 : s[k] \in M
  BY <1>1
<1>3. IsMonoid(M)
  BY SeqMonoid
<1>a. x \in M
  OBVIOUS
<1> HIDE DEF M, s
<1>b. len \in Nat
  BY <1>2
<1>c. len + 1 \in Nat /\ len + 1 # 0
  BY <1>2
<1>d. Within(M, r, 1, len) /\ Within(M, s, 1, len + 1)
  BY <1>2 DEF Within
<1>4. PICK g : Joins(g, r, len) /\ Within(M, g, 0, len)
  BY <1>3, <1>b, <1>d, ConcatRun, Zenon
<1>5. FlattenSeq(r) = g[len]
  <2>1. Len(r) = len /\ (len = 0 => r = <<>>)
    BY <1>1, <1>2
  <2>2. \A g0, r0 : \A k \in Nat : IsMonoid(M) /\ Len(r0) = k /\ (k = 0 => r0 = <<>>)
          /\ Within(M, r0, 1, k) /\ Joins(g0, r0, k) => FlattenSeq(r0) = g0[k]
    BY FlattenRun
  <2> QED BY <1>3, <1>4, <1>b, <1>d, <2>1, <2>2
<1>6. PICK h : Joins(h, s, len + 1)
  BY <1>3, <1>c, <1>d, ConcatRun, Zenon
<1>7. FlattenSeq(s) = h[len + 1]
  <2>1. Len(s) = len + 1 /\ (len + 1 = 0 => s = <<>>)
    BY <1>2, <1>c
  <2> QED BY <1>3, <1>6, <1>c, <1>d, <2>1, FlattenRun, Zenon
<1>8. /\ g[0] = <<>> /\ \A k \in 1 .. len : g[k] = Concat(0, g[k - 1], r[k])
      /\ \A k \in 0 .. len : g[k] \in M
      /\ h[0] = <<>> /\ \A k \in 1 .. len + 1 : h[k] = Concat(0, h[k - 1], s[k])
  BY <1>4, <1>6 DEF Joins, Within
<1> DEFINE R == {k \in 0 .. len : h[k + 1] = Concat(0, x, g[k])}
<1>9. 0 \in R
  <2>1. 0 \in 0 .. len /\ 1 \in 1 .. len + 1 /\ 1 - 1 = 0 /\ 0 + 1 = 1
    BY <1>2
  <2>2. h[1] = Concat(0, <<>>, x)
    BY <1>2, <1>8, <2>1
  <2>3. Concat(0, <<>>, x) = x /\ Concat(0, x, <<>>) = x
    BY <1>3, <1>a DEF IsMonoid
  <2> QED BY <1>8, <2>1, <2>2, <2>3
<1>10. ASSUME NEW k \in 1 .. len, k - 1 \in R PROVE k \in R
  <2>1. /\ k + 1 \in 1 .. len + 1 /\ (k + 1) - 1 = k /\ (k - 1) + 1 = k
        /\ k - 1 \in 0 .. len /\ k \in 0 .. len
    BY <1>2
  <2>2. h[k + 1] = Concat(0, h[k], r[k])
    BY <1>2, <1>8, <2>1
  <2>3. h[k] = Concat(0, x, g[k - 1])
    BY <1>10, <2>1
  <2>4. g[k - 1] \in M /\ r[k] \in M
    BY <1>2, <1>8, <2>1
  <2>5. Concat(0, Concat(0, x, g[k - 1]), r[k]) = Concat(0, x, Concat(0, g[k - 1], r[k]))
    BY <1>3, <1>a, <2>4 DEF IsMonoid
  <2>6. g[k] = Concat(0, g[k - 1], r[k])
    BY <1>8
  <2> QED BY <2>1, <2>2, <2>3, <2>5, <2>6
<1> HIDE DEF R
<1>11. 0 .. len \subseteq R
  BY <1>2, <1>9, <1>10, ConcatFold!IntervalInduction
<1>12. len \in R /\ g[len] \in M
  BY <1>2, <1>8, <1>11
<1>13. h[len + 1] = Concat(0, x, g[len])
  BY <1>12 DEF R
<1> QED BY <1>2, <1>5, <1>7, <1>12, <1>13 DEF M, s, Concat

\* Backwards puts each sequence in front of the ones before it.
LEMMA BackwardsRun ==
  ASSUME NEW T, NEW len \in Nat, NEW s, DOMAIN s = 1 .. len, s \in Seq(Seq(T))
  PROVE  \E c : Fronts(c, s, len) /\ Within(Seq(T), c, 0, len) /\ c[len] = Backwards(s)
<1> DEFINE M == Seq(T)
           r == Reverse(s)
<1>0. Len(s) = len
  OBVIOUS
<1>1. \A k \in 1 .. len : s[k] \in M
  OBVIOUS
<1>2. IsMonoid(M)
  BY SeqMonoid
<1>3. r = [i \in 1 .. len |-> s[(len - i) + 1]]
  BY <1>0 DEF Reverse
<1>4. \A i \in 1 .. len : (len - i) + 1 \in 1 .. len
  OBVIOUS
<1>5. \A k \in 1 .. len : r[k] \in M
  <2> HIDE DEF r, M
  <2> QED BY <1>1, <1>3, <1>4
<1>6. Len(r) = len /\ (len = 0 => r = <<>>)
  <2> HIDE DEF r, M
  <2>1. r \in [1 .. len -> M]
    BY <1>3, <1>5
  <2>2. r \in Seq(M)
    BY <2>1, SeqDef
  <2>3. DOMAIN r = 1 .. len
    BY <2>1
  <2>4. Len(r) = len
    BY <2>2, <2>3, LenProperties
  <2> QED BY <2>2, <2>4, EmptySeq
<1> HIDE DEF r, M
<1>a. Within(M, r, 1, len) /\ Within(M, s, 1, len)
  BY <1>1, <1>5 DEF Within
<1>7. PICK g : Joins(g, r, len) /\ Within(M, g, 0, len)
  BY <1>2, <1>a, ConcatRun, Zenon
<1>8. FlattenSeq(r) = g[len]
  <2>1. \A g0, r0 : \A k \in Nat : IsMonoid(M) /\ Len(r0) = k /\ (k = 0 => r0 = <<>>)
          /\ Within(M, r0, 1, k) /\ Joins(g0, r0, k) => FlattenSeq(r0) = g0[k]
    BY FlattenRun
  <2> QED BY <1>2, <1>6, <1>7, <1>a, <2>1
<1>9. PICK c : Fronts(c, s, len) /\ Within(M, c, 0, len)
  BY <1>2, <1>a, PrependRun, Zenon
<1>b. /\ g[0] = <<>> /\ \A k \in 1 .. len : g[k] = Concat(0, g[k - 1], r[k])
      /\ \A k \in 0 .. len : g[k] \in M
      /\ c[0] = <<>> /\ \A k \in 1 .. len : c[k] = Concat(0, s[k], c[k - 1])
      /\ \A k \in 0 .. len : c[k] \in M
  BY <1>7, <1>9 DEF Joins, Fronts, Within
<1> DEFINE R == {j \in 0 .. len : Concat(0, g[j], c[len - j]) = c[len]}
<1>10. 0 \in R
  <2>1. 0 \in 0 .. len /\ len \in 0 .. len /\ len - 0 = len
    OBVIOUS
  <2>2. Concat(0, <<>>, c[len]) = c[len]
    BY <1>2, <1>b, <2>1 DEF IsMonoid
  <2> QED BY <1>b, <2>1, <2>2
<1>11. ASSUME NEW j \in 1 .. len, j - 1 \in R PROVE j \in R
  <2>1. /\ j \in 0 .. len /\ j - 1 \in 0 .. len /\ len - j \in 0 .. len
        /\ (len - j) + 1 \in 1 .. len /\ ((len - j) + 1) - 1 = len - j /\ len - (j - 1) = (len - j) + 1
    OBVIOUS
  <2>2. g[j] = Concat(0, g[j - 1], s[(len - j) + 1])
    BY <1>3, <1>b
  <2>3. c[(len - j) + 1] = Concat(0, s[(len - j) + 1], c[len - j])
    BY <1>b, <2>1
  <2>4. g[j - 1] \in M /\ s[(len - j) + 1] \in M /\ c[len - j] \in M
    BY <1>1, <1>b, <2>1
  <2>5. Concat(0, g[j], c[len - j]) = Concat(0, g[j - 1], c[(len - j) + 1])
    <3>1. Concat(0, Concat(0, g[j - 1], s[(len - j) + 1]), c[len - j])
          = Concat(0, g[j - 1], Concat(0, s[(len - j) + 1], c[len - j]))
      <4>1. \A x, y, z \in M : Concat(0, Concat(0, x, y), z) = Concat(0, x, Concat(0, y, z))
        BY <1>2 DEF IsMonoid
      <4> QED BY <2>4, <4>1
    <3> QED BY <2>2, <2>3, <3>1
  <2>6. Concat(0, g[j - 1], c[(len - j) + 1]) = c[len]
    BY <1>11, <2>1
  <2> QED BY <2>1, <2>5, <2>6
<1> HIDE DEF R
<1>12. 0 .. len \subseteq R
  BY <1>10, <1>11, ConcatFold!IntervalInduction
<1>13. len \in 0 .. len /\ len \in R /\ len - len = 0
  BY <1>12
<1>14. Concat(0, g[len], c[0]) = c[len]
  BY <1>13 DEF R
<1>15. g[len] = c[len]
  <2>1. Concat(0, g[len], <<>>) = g[len]
    BY <1>2, <1>b, <1>13 DEF IsMonoid
  <2> QED BY <1>b, <1>14, <2>1
<1>16. c[len] = Backwards(s)
  BY <1>8, <1>15 DEF Backwards, r
<1> QED BY <1>9, <1>16 DEF M

-----------------------------------------------------------------------------
(* CPPLINT.cfg files: the filters they add.                                 *)

OptionStep(c, a, o) == ConfigOption(a, o)
FileStep(c, a, x) == ConfigFile(a, x)

OptionFold == INSTANCE FoldTheorems WITH Op <- OptionStep
FileFold == INSTANCE FoldTheorems WITH Op <- FileStep

\* The options of a file are applied one after the other.
LEMMA OptionsRun ==
  ASSUME NEW a, NEW s, NEW len \in Nat, DOMAIN s = 1 .. len
  PROVE  \E g : OptionFold!IsRun(g, 0, a, s, len) /\ FoldLeft(ConfigOption, a, s) = g[len]
<1> DEFINE F(f) == f = [S \in SUBSET DOMAIN s |->
                          IF S = {} THEN a ELSE ConfigOption(f[S \ {Max(S)}], s[Max(S)])]
<1>1. \A S : Max(S) = OptionFold!Greatest(S)
  BY DEF Max, OptionFold!Greatest
<1>2. \A f : F(f) <=> OptionFold!IsFold(f, 0, a, s, len)
  BY <1>1 DEF OptionFold!IsFold, OptionStep
<1>3. \E f : F(f)
  BY <1>2, OptionFold!FoldExists
<1>4. PICK f : F(f) /\ FoldLeft(ConfigOption, a, s) = f[DOMAIN s]
  BY <1>3 DEF FoldLeft, MapThenFoldSet
<1>5. OptionFold!IsFold(f, 0, a, s, len) /\ FoldLeft(ConfigOption, a, s) = f[1 .. len]
  BY <1>2, <1>4
<1> HIDE DEF F
<1>6. PICK g : OptionFold!IsRun(g, 0, a, s, len) /\ g[len] = f[1 .. len]
  BY <1>5, OptionFold!FoldRuns
<1> QED BY <1>5, <1>6

\* So are the files.
LEMMA FilesRun ==
  ASSUME NEW a, NEW s, NEW len \in Nat, DOMAIN s = 1 .. len
  PROVE  \E g : FileFold!IsRun(g, 0, a, s, len) /\ FoldLeft(ConfigFile, a, s) = g[len]
<1> DEFINE F(f) == f = [S \in SUBSET DOMAIN s |->
                          IF S = {} THEN a ELSE ConfigFile(f[S \ {Max(S)}], s[Max(S)])]
<1>1. \A S : Max(S) = FileFold!Greatest(S)
  BY DEF Max, FileFold!Greatest
<1>2. \A f : F(f) <=> FileFold!IsFold(f, 0, a, s, len)
  BY <1>1 DEF FileFold!IsFold, FileStep
<1>3. \E f : F(f)
  BY <1>2, FileFold!FoldExists
<1>4. PICK f : F(f) /\ FoldLeft(ConfigFile, a, s) = f[DOMAIN s]
  BY <1>3 DEF FoldLeft, MapThenFoldSet
<1>5. FileFold!IsFold(f, 0, a, s, len) /\ FoldLeft(ConfigFile, a, s) = f[1 .. len]
  BY <1>2, <1>4
<1> HIDE DEF F
<1>6. PICK g : FileFold!IsRun(g, 0, a, s, len) /\ g[len] = f[1 .. len]
  BY <1>5, FileFold!FoldRuns
<1> QED BY <1>5, <1>6

IsOverride(T, a) ==
  /\ DOMAIN a = {"filters", "look", "skip", "opts"}
  /\ a.filters \in Seq(Seq(T)) /\ a.look \in BOOLEAN /\ a.skip \in BOOLEAN
IsOption(T, o) ==
  /\ o.name \in {"noparent", "filter", "exclude_files", "linelength", "headers"}
  /\ o.name = "filter" => o.val \in Seq(T)
  /\ o.name = "exclude_files" => o.val \in BOOLEAN

\* An option puts its filters in front, noparent ends the search, and nothing
\* follows an exclusion.
LEMMA OptionLemma ==
  ASSUME NEW T, NEW a, IsOverride(T, a), NEW o, IsOption(T, o), NEW b, b = ConfigOption(a, o)
  PROVE  /\ IsOverride(T, b)
         /\ ~b.skip => /\ ~a.skip
                       /\ b.look <=> a.look /\ o.name # "noparent"
                       /\ FlattenSeq(b.filters) = OptionFilters(o) \o FlattenSeq(a.filters)
<1>1. CASE a.skip
  BY <1>1 DEF ConfigOption
<1>2. FlattenSeq(a.filters) \in Seq(T)
  <2>1. <<>> \in Seq(T) /\ a.filters \in Seq(Seq(T))
    BY DEF IsOverride
  <2> QED BY <2>1, FlattenCons
<1>3. <<>> \o FlattenSeq(a.filters) = FlattenSeq(a.filters)
  BY <1>2, ConcatEmptySeq
<1>4. CASE ~a.skip /\ o.name = "filter"
  <2>1. b = [a EXCEPT !.filters = <<o.val>> \o @]
    BY <1>4 DEF ConfigOption
  <2>2. o.val \in Seq(T) /\ a.filters \in Seq(Seq(T))
    BY <1>4 DEF IsOption, IsOverride
  <2>3. PICK x : x = <<o.val>> \o a.filters
    OBVIOUS
  <2>4. x \in Seq(Seq(T)) /\ FlattenSeq(x) = o.val \o FlattenSeq(a.filters)
    BY <2>2, <2>3, FlattenCons
  <2>5. b = [a EXCEPT !.filters = x]
    BY <2>1, <2>3
  <2>6. DOMAIN b = DOMAIN a /\ b.filters = x /\ b.look = a.look /\ b.skip = a.skip
    BY <2>5 DEF IsOverride
  <2>7. OptionFilters(o) = o.val
    BY <1>4 DEF OptionFilters
  <2>8. IsOverride(T, b)
    BY <2>4, <2>6 DEF IsOverride
  <2> QED BY <1>4, <2>4, <2>6, <2>7, <2>8
<1>5. CASE ~a.skip /\ o.name # "filter"
  <2>1. OptionFilters(o) = <<>>
    BY <1>5 DEF OptionFilters
  <2>2. CASE o.name = "noparent"
    <3>1. b = [a EXCEPT !.look = FALSE]
      BY <1>5, <2>2 DEF ConfigOption
    <3>2. DOMAIN b = DOMAIN a /\ b.filters = a.filters /\ b.look = FALSE /\ b.skip = a.skip
      BY <3>1 DEF IsOverride
    <3> QED BY <1>3, <1>5, <2>1, <2>2, <3>2 DEF IsOverride
  <2>3. CASE o.name = "exclude_files"
    <3>1. b = [a EXCEPT !.skip = o.val]
      BY <1>5, <2>3 DEF ConfigOption
    <3>2. DOMAIN b = DOMAIN a /\ b.filters = a.filters /\ b.look = a.look /\ b.skip = o.val
      BY <3>1 DEF IsOverride
    <3>3. o.val \in BOOLEAN
      BY <2>3 DEF IsOption
    <3> QED BY <1>3, <1>5, <2>1, <2>3, <3>2, <3>3 DEF IsOverride
  <2>4. CASE o.name \in {"linelength", "headers"}
    <3>1. \E y : b = [a EXCEPT !.opts = y]
      <4>1. CASE o.name = "linelength"
        BY <1>5, <4>1 DEF ConfigOption
      <4>2. CASE o.name = "headers"
        BY <1>5, <4>2 DEF ConfigOption
      <4> QED BY <2>4, <4>1, <4>2
    <3>2. DOMAIN b = DOMAIN a /\ b.filters = a.filters /\ b.look = a.look /\ b.skip = a.skip
      BY <3>1 DEF IsOverride
    <3> QED BY <1>3, <1>5, <2>1, <2>4, <3>2 DEF IsOverride
  <2> QED BY <1>5, <2>2, <2>3, <2>4 DEF IsOption
<1> QED BY <1>1, <1>4, <1>5 DEF IsOverride

\* The filters of a file's options, the last option first.
Parts(c) == Backwards([m \in DOMAIN c.options |-> OptionFilters(c.options[m])])

IsConfigOf(T, c) ==
  \E len \in Nat : DOMAIN c.options = 1 .. len /\ \A k \in 1 .. len : IsOption(T, c.options[k])
NoParent(c) == \E o \in Range(c.options) : o.name = "noparent"

\* All options of a file.
LEMMA OptionsLemma ==
  ASSUME NEW T, NEW a, IsOverride(T, a), NEW c, IsConfigOf(T, c),
         NEW b, b = FoldLeft(ConfigOption, a, c.options)
  PROVE  /\ IsOverride(T, b) /\ Parts(c) \in Seq(T)
         /\ ~b.skip => /\ ~a.skip
                       /\ b.look <=> a.look /\ ~NoParent(c)
                       /\ FlattenSeq(b.filters) = Parts(c) \o FlattenSeq(a.filters)
<1>c. PICK len \in Nat : DOMAIN c.options = 1 .. len /\ \A k \in 1 .. len : IsOption(T, c.options[k])
  BY DEF IsConfigOf
<1>d. NoParent(c) <=> ~\A k \in 1 .. len : c.options[k].name # "noparent"
  BY <1>c DEF NoParent, Range
<1> DEFINE s == [m \in DOMAIN c.options |-> OptionFilters(c.options[m])]
           old == FlattenSeq(a.filters)
<1>1. DOMAIN s = 1 .. len /\ \A k \in 1 .. len : s[k] = OptionFilters(c.options[k])
  BY <1>c
<1>2. \A k \in 1 .. len : s[k] \in Seq(T)
  <2> SUFFICES ASSUME NEW k \in 1 .. len PROVE OptionFilters(c.options[k]) \in Seq(T)
    BY <1>1
  <2>1. IsOption(T, c.options[k]) /\ <<>> \in Seq(T)
    BY <1>c
  <2> QED BY <2>1 DEF IsOption, OptionFilters
<1>3. s \in Seq(Seq(T))
  <2>1. s \in [1 .. len -> Seq(T)]
    <3>1. s = [k \in 1 .. len |-> OptionFilters(c.options[k])]
      BY <1>c
    <3> HIDE DEF s
    <3> QED BY <1>2, <3>1
  <2> HIDE DEF s
  <2> QED BY <2>1, SeqDef
<1>4. Parts(c) = Backwards(s)
  BY DEF Parts
<1> HIDE DEF s
<1>a. PICK d : Fronts(d, s, len) /\ Within(Seq(T), d, 0, len) /\ d[len] = Backwards(s)
  BY <1>1, <1>3, BackwardsRun, Zenon
<1>b. PICK g : OptionFold!IsRun(g, 0, a, c.options, len) /\ b = g[len]
  BY <1>c, OptionsRun, Zenon
<1>5. /\ d[0] = <<>> /\ \A k \in 1 .. len : d[k] = s[k] \o d[k - 1]
      /\ \A k \in 0 .. len : d[k] \in Seq(T)
  BY <1>a DEF Fronts, Within, Concat
<1>6. g[0] = a /\ \A k \in 1 .. len : g[k] = ConfigOption(g[k - 1], c.options[k])
  BY <1>b DEF OptionFold!IsRun, OptionStep
<1>7. old \in Seq(T)
  <2>1. <<>> \in Seq(T) /\ a.filters \in Seq(Seq(T))
    BY DEF IsOverride
  <2> QED BY <2>1, FlattenCons
<1> HIDE DEF old
<1> DEFINE P(k) == /\ IsOverride(T, g[k])
                   /\ ~g[k].skip => /\ ~a.skip
                                    /\ g[k].look <=> a.look /\ \A j \in 1 .. k : c.options[j].name # "noparent"
                                    /\ FlattenSeq(g[k].filters) = d[k] \o old
           R == {k \in 0 .. len : P(k)}
<1>8. 0 \in R
  <2>1. 1 .. 0 = {} /\ 0 \in 0 .. len
    OBVIOUS
  <2>2. <<>> \o old = old
    BY <1>7, ConcatEmptySeq
  <2>3. P(0)
    BY <1>5, <1>6, <2>1, <2>2 DEF old
  <2> QED BY <2>1, <2>3
<1>9. ASSUME NEW k \in 1 .. len, k - 1 \in R PROVE k \in R
  <2>1. k \in 0 .. len /\ k - 1 \in 0 .. len /\ k \in 1 .. k /\ 1 .. k = (1 .. k - 1) \cup {k}
    OBVIOUS
  <2>2. P(k - 1)
    BY <1>9
  <2>3. PICK o : o = c.options[k] /\ IsOption(T, o)
    BY <1>c
  <2>4. PICK p, q : p = g[k - 1] /\ q = g[k]
    OBVIOUS
  <2>5. q = ConfigOption(p, o) /\ IsOverride(T, p)
    BY <1>6, <2>2, <2>3, <2>4
  <2>6. /\ IsOverride(T, q)
        /\ ~q.skip => /\ ~p.skip
                      /\ q.look <=> p.look /\ o.name # "noparent"
                      /\ FlattenSeq(q.filters) = OptionFilters(o) \o FlattenSeq(p.filters)
    BY <2>3, <2>5, OptionLemma
  <2>7. ASSUME ~q.skip
        PROVE  /\ ~a.skip
               /\ q.look <=> a.look /\ \A j \in 1 .. k : c.options[j].name # "noparent"
               /\ FlattenSeq(q.filters) = d[k] \o old
    <3>1. /\ ~a.skip /\ FlattenSeq(p.filters) = d[k - 1] \o old
          /\ p.look <=> a.look /\ \A j \in 1 .. k - 1 : c.options[j].name # "noparent"
      BY <2>2, <2>4, <2>6, <2>7
    <3>2. q.look <=> a.look /\ \A j \in 1 .. k : c.options[j].name # "noparent"
      BY <2>1, <2>3, <2>6, <2>7, <3>1
    <3>3. d[k] = OptionFilters(o) \o d[k - 1]
      BY <1>1, <1>5, <2>3
    <3>4. OptionFilters(o) \in Seq(T) /\ d[k - 1] \in Seq(T)
      BY <1>1, <1>2, <1>5, <2>1, <2>3
    <3>5. (OptionFilters(o) \o d[k - 1]) \o old = OptionFilters(o) \o (d[k - 1] \o old)
      <4>1. \A x, y, z \in Seq(T) : (x \o y) \o z = x \o (y \o z)
        BY ConcatAssociative
      <4> QED BY <1>7, <3>4, <4>1
    <3>6. FlattenSeq(q.filters) = d[k] \o old
      BY <2>6, <2>7, <3>1, <3>3, <3>5
    <3> QED BY <3>1, <3>2, <3>6
  <2>8. P(k)
    BY <2>4, <2>6, <2>7
  <2> QED BY <2>1, <2>8
<1>10. len \in R
  <2> HIDE DEF R
  <2>1. 0 .. len \subseteq R
    BY <1>8, <1>9, ConcatFold!IntervalInduction
  <2> QED BY <2>1
<1>11. P(len) /\ len \in 0 .. len
  BY <1>10
<1> QED BY <1>4, <1>5, <1>a, <1>b, <1>d, <1>11 DEF old

\* A file is used while the search goes on and it can be read.
LEMMA ConfigFileLemma ==
  ASSUME NEW T, NEW a, IsOverride(T, a), NEW c, IsConfigOf(T, c), NEW b, b = ConfigFile(a, c)
  PROVE  /\ IsOverride(T, b) /\ Parts(c) \in Seq(T)
         /\ ~b.skip => /\ ~a.skip
                       /\ b.look <=> a.look /\ c.readable /\ ~NoParent(c)
                       /\ FlattenSeq(b.filters)
                          = (IF a.look /\ c.readable THEN Parts(c) ELSE <<>>) \o FlattenSeq(a.filters)
<1>3. PICK y : y = FoldLeft(ConfigOption, a, c.options)
  OBVIOUS
<1>4. /\ IsOverride(T, y) /\ Parts(c) \in Seq(T)
      /\ ~y.skip => /\ ~a.skip
                    /\ y.look <=> a.look /\ ~NoParent(c)
                    /\ FlattenSeq(y.filters) = Parts(c) \o FlattenSeq(a.filters)
  BY <1>3, OptionsLemma
<1>5. <<>> \o FlattenSeq(a.filters) = FlattenSeq(a.filters)
  <2>1. <<>> \in Seq(T) /\ a.filters \in Seq(Seq(T))
    BY DEF IsOverride
  <2>2. FlattenSeq(a.filters) \in Seq(T)
    BY <2>1, FlattenCons
  <2> QED BY <2>2, ConcatEmptySeq
<1>6. a.look \in BOOLEAN /\ a.skip \in BOOLEAN
  BY DEF IsOverride
<1>7. CASE a.skip \/ ~a.look
  <2>1. b = a
    BY <1>7 DEF ConfigFile
  <2> QED BY <1>4, <1>5, <1>7, <2>1
<1>8. CASE ~a.skip /\ a.look /\ ~c.readable
  <2>1. b = [a EXCEPT !.look = FALSE]
    BY <1>8 DEF ConfigFile
  <2>2. DOMAIN b = DOMAIN a /\ b.filters = a.filters /\ b.look = FALSE /\ b.skip = a.skip
    BY <2>1 DEF IsOverride
  <2>3. IsOverride(T, b)
    BY <2>2 DEF IsOverride
  <2> QED BY <1>4, <1>5, <1>8, <2>2, <2>3
<1>9. CASE ~a.skip /\ a.look /\ c.readable
  <2>1. b = y
    BY <1>3, <1>9 DEF ConfigFile
  <2> QED BY <1>4, <1>9, <2>1
<1> QED BY <1>7, <1>8, <1>9

\* The files that are used, and the filters they give.
Used(f, k) ==
  /\ \A j \in 1 .. k : f.cfgs[j].readable
  /\ \A j \in 1 .. k - 1 : ~NoParent(f.cfgs[j])
PartOf(f, k) == IF Used(f, k) THEN Parts(f.cfgs[k]) ELSE <<>>

LEMMA ConfigFiltersLemma ==
  ASSUME NEW f, NEW len \in Nat, DOMAIN f.cfgs = 1 .. len
  PROVE  ConfigFilters(f) = Backwards([k \in 1 .. len |-> PartOf(f, k)])
<1>1. \A k \in 1 .. len : k \in UsedConfigs(f) <=> Used(f, k)
  BY DEF UsedConfigs, Used, NoParent
<1> DEFINE P(k) == IF k \in UsedConfigs(f)
                   THEN Backwards([m \in DOMAIN f.cfgs[k].options |-> OptionFilters(f.cfgs[k].options[m])])
                   ELSE <<>>
<1>2. \A k \in 1 .. len : P(k) = PartOf(f, k)
  BY <1>1 DEF PartOf, Parts
<1>3. ConfigFilters(f) = Backwards([k \in DOMAIN f.cfgs |-> P(k)])
  BY DEF ConfigFilters
<1> HIDE DEF P
<1>4. [k \in DOMAIN f.cfgs |-> P(k)] = [k \in 1 .. len |-> PartOf(f, k)]
  BY <1>2
<1> QED BY <1>3, <1>4

\* The filters of a file that is not excluded: the nearest CPPLINT.cfg decides last.
LEMMA OverridesLemma ==
  ASSUME NEW f, NEW T, NEW len \in Nat, DOMAIN f.cfgs = 1 .. len,
         \A k \in 1 .. len : IsConfigOf(T, f.cfgs[k]),
         NEW b, b = ProcessConfigOverrides(f)
  PROVE  /\ IsOverride(T, b) /\ ConfigFilters(f) \in Seq(T)
         /\ ~b.skip => FlattenSeq(b.filters) = ConfigFilters(f)
<1> DEFINE a == [filters |-> <<>>, look |-> TRUE, skip |-> FALSE, opts |-> opts]
           s == [k \in 1 .. len |-> PartOf(f, k)]
<1>1. /\ IsOverride(T, a) /\ a.look = TRUE /\ a.skip = FALSE /\ a.filters = <<>>
  BY DEF IsOverride
<1>a. b = FoldLeft(ConfigFile, a, f.cfgs)
  BY DEF ProcessConfigOverrides
<1>2. ConfigFilters(f) = Backwards(s)
  BY ConfigFiltersLemma
<1>3. \A k \in 1 .. len : Parts(f.cfgs[k]) \in Seq(T)
  <2> HIDE DEF a, s
  <2> QED BY <1>1, ConfigFileLemma
<1>4. \A k \in 1 .. len : PartOf(f, k) \in Seq(T)
  <2>1. <<>> \in Seq(T)
    OBVIOUS
  <2> QED BY <1>3, <2>1 DEF PartOf
<1>5. DOMAIN s = 1 .. len /\ s \in Seq(Seq(T)) /\ \A k \in 1 .. len : s[k] = PartOf(f, k)
  <2>1. s \in [1 .. len -> Seq(T)]
    BY <1>4
  <2>2. DOMAIN s = 1 .. len /\ \A k \in 1 .. len : s[k] = PartOf(f, k)
    OBVIOUS
  <2> HIDE DEF s
  <2> QED BY <2>1, <2>2, SeqDef
<1> HIDE DEF a, s
<1>6. PICK d : Fronts(d, s, len) /\ Within(Seq(T), d, 0, len) /\ d[len] = Backwards(s)
  BY <1>5, BackwardsRun, Zenon
<1>7. PICK g : FileFold!IsRun(g, 0, a, f.cfgs, len) /\ b = g[len]
  BY <1>a, FilesRun, Zenon
<1>8. /\ d[0] = <<>> /\ \A k \in 1 .. len : d[k] = s[k] \o d[k - 1]
      /\ \A k \in 0 .. len : d[k] \in Seq(T)
  BY <1>6 DEF Fronts, Within, Concat
<1>9. g[0] = a /\ \A k \in 1 .. len : g[k] = ConfigFile(g[k - 1], f.cfgs[k])
  BY <1>7 DEF FileFold!IsRun, FileStep
<1> DEFINE P(k) == /\ IsOverride(T, g[k])
                   /\ ~g[k].skip => /\ g[k].look <=> \A j \in 1 .. k : f.cfgs[j].readable /\ ~NoParent(f.cfgs[j])
                                    /\ FlattenSeq(g[k].filters) = d[k]
           R == {k \in 0 .. len : P(k)}
<1>10. 0 \in R
  <2>1. 1 .. 0 = {} /\ 0 \in 0 .. len
    OBVIOUS
  <2>2. FlattenSeq(<<>>) = <<>>
    BY DEF FlattenSeq
  <2>3. P(0)
    BY <1>1, <1>8, <1>9, <2>1, <2>2
  <2> QED BY <2>1, <2>3
<1>11. ASSUME NEW k \in 1 .. len, k - 1 \in R PROVE k \in R
  <2>1. k \in 0 .. len /\ k - 1 \in 0 .. len /\ k \in 1 .. k /\ 1 .. k = (1 .. k - 1) \cup {k}
    OBVIOUS
  <2>2. P(k - 1)
    BY <1>11
  <2>3. PICK c : c = f.cfgs[k] /\ IsConfigOf(T, c)
    OBVIOUS
  <2>4. PICK p, q : p = g[k - 1] /\ q = g[k]
    OBVIOUS
  <2>5. q = ConfigFile(p, c) /\ IsOverride(T, p)
    BY <1>9, <2>2, <2>3, <2>4
  <2>6. /\ IsOverride(T, q)
        /\ ~q.skip => /\ ~p.skip
                      /\ q.look <=> p.look /\ c.readable /\ ~NoParent(c)
                      /\ FlattenSeq(q.filters)
                         = (IF p.look /\ c.readable THEN Parts(c) ELSE <<>>) \o FlattenSeq(p.filters)
    BY <2>3, <2>5, ConfigFileLemma
  <2>7. ASSUME ~q.skip
        PROVE  /\ q.look <=> \A j \in 1 .. k : f.cfgs[j].readable /\ ~NoParent(f.cfgs[j])
               /\ FlattenSeq(q.filters) = d[k]
    <3>1. /\ FlattenSeq(p.filters) = d[k - 1]
          /\ p.look <=> \A j \in 1 .. k - 1 : f.cfgs[j].readable /\ ~NoParent(f.cfgs[j])
      BY <2>2, <2>4, <2>6, <2>7
    <3>2. q.look <=> \A j \in 1 .. k : f.cfgs[j].readable /\ ~NoParent(f.cfgs[j])
      BY <2>1, <2>3, <2>6, <2>7, <3>1
    <3>3. Used(f, k) <=> p.look /\ c.readable
      BY <2>1, <2>3, <3>1 DEF Used
    <3>4. d[k] = PartOf(f, k) \o d[k - 1]
      BY <1>5, <1>8
    <3>5. PartOf(f, k) = IF p.look /\ c.readable THEN Parts(c) ELSE <<>>
      BY <2>3, <3>3 DEF PartOf
    <3> QED BY <2>6, <2>7, <3>1, <3>2, <3>4, <3>5
  <2>8. P(k)
    BY <2>4, <2>6, <2>7
  <2> QED BY <2>1, <2>8
<1>12. len \in R
  <2> HIDE DEF R
  <2>1. 0 .. len \subseteq R
    BY <1>10, <1>11, ConcatFold!IntervalInduction
  <2> QED BY <2>1
<1>13. P(len) /\ len \in 0 .. len
  BY <1>12
<1> QED BY <1>2, <1>6, <1>7, <1>8, <1>13

\* The filters of a file on the command line.
LEMMA FiltersLemma ==
  ASSUME NEW f, IsInput(f), NEW b, b = ProcessConfigOverrides(f)
  PROVE  ~b.skip => FlattenSeq(b.filters) = ConfigFilters(f)
<1> DEFINE T == UNION {Range(o.val) : o \in UNION {Range(c.options) : c \in Range(f.cfgs)}}
<1>1. IsSequence(f.cfgs) /\ \A c \in Range(f.cfgs) : IsConfig(c)
  BY DEF IsInput
<1>2. \A s : IsSequence(s) => \E len \in Nat : DOMAIN s = 1 .. len
  BY DEF IsSequence
<1>3. PICK len \in Nat : DOMAIN f.cfgs = 1 .. len
  BY <1>1, <1>2
<1>4. ASSUME NEW k \in 1 .. len PROVE IsConfigOf(T, f.cfgs[k])
  <2>1. PICK c \in Range(f.cfgs) : c = f.cfgs[k]
    BY <1>3 DEF Range
  <2>2. IsConfig(c)
    BY <1>1
  <2>3. PICK m \in Nat : DOMAIN c.options = 1 .. m
    BY <1>2, <2>2 DEF IsConfig
  <2>4. ASSUME NEW j \in 1 .. m PROVE IsOption(T, c.options[j])
    <3>1. PICK o \in Range(c.options) : o = c.options[j]
      BY <2>3 DEF Range
    <3>2. Range(o.val) \subseteq T
      BY <2>1, <3>1
    <3> HIDE DEF T
    <3>3. /\ o.name \in {"noparent", "filter", "exclude_files", "linelength", "headers"}
          /\ o.name = "filter" => IsSequence(o.val)
          /\ o.name = "exclude_files" => o.val \in BOOLEAN
      BY <2>2 DEF IsConfig
    <3>4. o.name = "filter" => o.val \in Seq(T)
      <4>1. IsSequence(o.val) => o.val \in Seq(T)
        BY <3>2 DEF IsSequence
      <4> QED BY <3>3, <4>1
    <3> QED BY <3>1, <3>3, <3>4 DEF IsOption
  <2> HIDE DEF T
  <2> QED BY <2>1, <2>3, <2>4 DEF IsConfigOf
<1> HIDE DEF T
<1> QED BY <1>3, <1>4, OverridesLemma

-----------------------------------------------------------------------------
(* Comments of several lines, and the first and last of some lines.         *)

RemoveStep(c, a, line) == RemoveMultiLineComment(a)

RemoveFold == INSTANCE FoldTheorems WITH Op <- RemoveStep

\* A function on an interval is a sequence.
LEMMA IntervalSequence ==
  ASSUME NEW len \in Nat, NEW f, f = [i \in 1 .. len |-> f[i]]
  PROVE  IsSequence(f) /\ Len(f) = len
<1>1. f \in [1 .. len -> Range(f)]
  BY DEF Range
<1>2. f \in Seq(Range(f))
  BY <1>1, SeqDef
<1> QED BY <1>1, <1>2, LenProperties DEF IsSequence

\* Removing comments of several lines leaves as many lines.
LEMMA RemoveLemma ==
  ASSUME NEW lines, IsSequence(lines)
  PROVE  IsSequence(RemoveMultiLineComments(lines).lines)
<1>1. PICK len : len = Len(lines) /\ len \in Nat /\ DOMAIN lines = 1 .. len
  BY DEF IsSequence
<1> DEFINE base == [lines |-> lines, unclosed |-> {}, from |-> 1]
           F(f) == f = [S \in SUBSET DOMAIN lines |->
                          IF S = {} THEN base ELSE RemoveMultiLineComment(f[S \ {Max(S)}])]
           IsRemoval(a) == DOMAIN a = {"lines", "unclosed", "from"} /\ IsSequence(a.lines)
<1>a. IsRemoval(base)
  OBVIOUS
<1> HIDE DEF base
<1>2. \A S : Max(S) = RemoveFold!Greatest(S)
  BY DEF Max, RemoveFold!Greatest
<1>3. \A f : F(f) <=> RemoveFold!IsFold(f, 0, base, lines, len)
  BY <1>1, <1>2 DEF RemoveFold!IsFold, RemoveStep
<1>4. \E f : F(f)
  BY <1>1, <1>3, RemoveFold!FoldExists
<1>5. PICK f : F(f) /\ RemoveMultiLineComments(lines) = f[DOMAIN lines]
  BY <1>4 DEF RemoveMultiLineComments, FoldLeft, MapThenFoldSet, base
<1>6. RemoveFold!IsFold(f, 0, base, lines, len) /\ RemoveMultiLineComments(lines) = f[1 .. len]
  BY <1>1, <1>3, <1>5
<1> HIDE DEF F
<1>7. PICK g : RemoveFold!IsRun(g, 0, base, lines, len) /\ g[len] = f[1 .. len]
  BY <1>1, <1>6, RemoveFold!FoldRuns
<1>8. g[0] = base /\ \A k \in 1 .. len : g[k] = RemoveMultiLineComment(g[k - 1])
  BY <1>7 DEF RemoveFold!IsRun, RemoveStep
<1>9. ASSUME NEW a, IsRemoval(a) PROVE IsRemoval(RemoveMultiLineComment(a))
  <2>1. PICK m : m \in Nat /\ DOMAIN a.lines = 1 .. m
    BY <1>9 DEF IsSequence
  <2>2. ASSUME NEW begin, NEW end
        PROVE  IsSequence(RemoveMultiLineCommentsFromRange(a.lines, begin, end))
    <3>1. PICK r : r = RemoveMultiLineCommentsFromRange(a.lines, begin, end)
      OBVIOUS
    <3>2. r = [i \in 1 .. m |-> r[i]]
      BY <2>1, <3>1 DEF RemoveMultiLineCommentsFromRange
    <3> QED BY <2>1, <3>1, <3>2, IntervalSequence
  <2>3. PICK b : b = RemoveMultiLineComment(a)
    OBVIOUS
  <2>4. \/ b = a
        \/ \E x : b = [a EXCEPT !.unclosed = x]
        \/ \E begin, end, x : b = [a EXCEPT !.lines = RemoveMultiLineCommentsFromRange(@, begin, end),
                                            !.from = x]
    <3> DEFINE begin == FindNextMultiLineCommentStart(a.lines, a.from)
               end == FindNextMultiLineCommentEnd(a.lines, begin)
    <3>1. b = CASE a.unclosed # {} \/ begin > Len(a.lines) -> a
                [] a.unclosed = {} /\ begin <= Len(a.lines) /\ end > Len(a.lines) ->
                     [a EXCEPT !.unclosed = {begin + 1}]
                [] OTHER -> [a EXCEPT !.lines = RemoveMultiLineCommentsFromRange(@, begin, end),
                                      !.from = end + 1]
      BY <2>3 DEF RemoveMultiLineComment
    <3> HIDE DEF begin, end
    <3>2. CASE a.unclosed # {} \/ begin > Len(a.lines)
      <4>1. b = a \/ b = [a EXCEPT !.unclosed = {begin + 1}]
        BY <3>1, <3>2
      <4> QED BY <4>1
    <3>3. CASE ~(a.unclosed # {} \/ begin > Len(a.lines))
               /\ a.unclosed = {} /\ begin <= Len(a.lines) /\ end > Len(a.lines)
      BY <3>1, <3>3
    <3>4. CASE ~(a.unclosed # {} \/ begin > Len(a.lines))
               /\ ~(a.unclosed = {} /\ begin <= Len(a.lines) /\ end > Len(a.lines))
      <4>1. b = [a EXCEPT !.lines = RemoveMultiLineCommentsFromRange(@, begin, end), !.from = end + 1]
        BY <3>1, <3>4
      <4> QED BY <4>1
    <3> QED BY <3>2, <3>3, <3>4
  <2>5. CASE \E x : b = [a EXCEPT !.unclosed = x]
    BY <1>9, <2>3, <2>5
  <2>6. ASSUME NEW begin, NEW end, NEW x,
               b = [a EXCEPT !.lines = RemoveMultiLineCommentsFromRange(@, begin, end), !.from = x]
        PROVE  IsRemoval(b)
    <3>1. PICK r : r = RemoveMultiLineCommentsFromRange(a.lines, begin, end) /\ IsSequence(r)
      BY <2>2
    <3>2. b = [a EXCEPT !.lines = r, !.from = x]
      BY <2>6, <3>1
    <3>3. DOMAIN b = DOMAIN a /\ b.lines = r
      BY <1>9, <3>2
    <3> QED BY <1>9, <3>1, <3>3
  <2> QED BY <1>9, <2>3, <2>4, <2>5, <2>6
<1> DEFINE R == {k \in 0 .. len : IsRemoval(g[k])}
<1>10. 0 \in R
  BY <1>1, <1>8, <1>a
<1>11. ASSUME NEW k \in 1 .. len, k - 1 \in R PROVE k \in R
  <2>1. k \in 0 .. len /\ IsRemoval(g[k - 1])
    BY <1>1, <1>11
  <2> QED BY <1>8, <1>9, <2>1
<1>12. 0 .. len \subseteq R
  <2> HIDE DEF R
  <2> QED BY <1>1, <1>10, <1>11, RemoveFold!IntervalInduction
<1>13. IsRemoval(g[len])
  BY <1>1, <1>12
<1> QED BY <1>6, <1>7, <1>13

\* The first and the last of some lines are two of them.
LEMMA MinMaxLemma ==
  ASSUME NEW len \in Nat, NEW S, S \subseteq 1 .. len, S # {}
  PROVE  Min(S) \in S /\ Max(S) \in S
<1>1. S \subseteq 0 .. len
  OBVIOUS
<1>2. (\E x \in S : \A y \in S : x <= y) /\ (\E x \in S : \A y \in S : x >= y)
  BY <1>1, ConcatFold!Extremes
<1> QED BY <1>2 DEF Min, Max

-----------------------------------------------------------------------------
(* Files do not affect each other.                                          *)

SameFilters(l, m) ==
  {"filters", "backup"} \subseteq DOMAIN m /\ m.filters = l.filters /\ m.backup = l.backup
FromFile(supp, lines, global) ==
  /\ DOMAIN supp = {"lines", "global"} /\ supp.global = global
  /\ \A p \in supp.lines : \E i \in DOMAIN lines : \E c \in lines[i].nolint :
        p = <<c.cat, IF c.next THEN i + 1 ELSE i>>

\* Errors leave the filters alone.
LEMMA ReportLemma ==
  ASSUME NEW l, {"filters", "backup"} \subseteq DOMAIN l, NEW supp, NEW errors
  PROVE  SameFilters(l, Report(l, supp, errors))
<1>1. \E x, y : Report(l, supp, errors) = [l EXCEPT !.count = x, !.by_category = y]
  BY DEF Report, IncrementErrorCount
<1> QED BY <1>1 DEF SameFilters

\* A line's NOLINT comments.
LEMMA NolintLemma ==
  ASSUME NEW supp, NEW lines, NEW global, FromFile(supp, lines, global), NEW i \in DOMAIN lines
  PROVE  FromFile(ParseNolintSuppressions(supp, lines[i], i), lines, global)
<1> DEFINE new == {<<c.cat, IF c.next THEN i + 1 ELSE i>> : c \in {d \in lines[i].nolint : d.cat # None}}
<1>1. \A p \in new : \E c \in lines[i].nolint : p = <<c.cat, IF c.next THEN i + 1 ELSE i>>
  OBVIOUS
<1>2. ParseNolintSuppressions(supp, lines[i], i) = [supp EXCEPT !.lines = @ \cup new]
  BY DEF ParseNolintSuppressions
<1> HIDE DEF new
<1>3. PICK q : q = ParseNolintSuppressions(supp, lines[i], i)
  OBVIOUS
<1>4. DOMAIN q = {"lines", "global"} /\ q.lines = supp.lines \cup new /\ q.global = supp.global
  BY <1>2, <1>3 DEF FromFile
<1>5. ASSUME NEW p \in q.lines
      PROVE  \E j \in DOMAIN lines : \E c \in lines[j].nolint : p = <<c.cat, IF c.next THEN j + 1 ELSE j>>
  <2>1. CASE p \in supp.lines
    BY <2>1 DEF FromFile
  <2>2. CASE p \in new
    BY <1>1, <2>2
  <2> QED BY <1>4, <1>5, <2>1, <2>2
<1> QED BY <1>3, <1>4, <1>5 DEF FromFile

\* The header guard.
LEMMA HeaderGuardLemma ==
  ASSUME NEW l, {"filters", "backup"} \subseteq DOMAIN l, NEW t, IsSequence(t.lines),
         NEW supp, NEW global, FromFile(supp, t.lines, global), NEW r, r = CheckForHeaderGuard(l, supp, t)
  PROVE  /\ DOMAIN r = {"lint", "nolint"} /\ SameFilters(l, r.lint) /\ FromFile(r.nolint, t.lines, global)
<1> DEFINE Good(a) == /\ DOMAIN a = {"lint", "nolint"} /\ SameFilters(l, a.lint)
                      /\ FromFile(a.nolint, t.lines, global)
           exempt == \E i \in DOMAIN t.lines :
                        [next |-> FALSE, cat |-> <<"build", "header_guard">>] \in t.lines[i].nolint
           ifs == {i \in DOMAIN t.lines : t.lines[i].pp = "if"}
           endifs == {i \in DOMAIN t.lines : t.lines[i].pp = "endif"}
           At(a, i, wrong, confidence) ==
              LET parsed == ParseNolintSuppressions(a.nolint, t.lines[i], i)
              IN [nolint |-> parsed,
                  lint |-> Report(a.lint, parsed, NolintErrors(t.lines[i], i)
                             \o (IF wrong THEN <<Err(i, <<"build", "header_guard">>, confidence)>> ELSE <<>>))]
           old == [lint |-> l, nolint |-> supp]
           styled == IF "style" \in t.guard THEN At(old, Min(ifs), TRUE, 0) ELSE old
           none == [lint |-> Report(l, supp, <<Err(0, <<"build", "header_guard">>, 5)>>), nolint |-> supp]
<1>1. r = CASE exempt -> old
            [] ~exempt /\ (ifs = {} \/ endifs = {} \/ "none" \in t.guard) -> none
            [] OTHER -> At(styled, Max(endifs), "endif" \in t.guard, 5)
  BY DEF CheckForHeaderGuard
<1>2. Good(old)
  BY DEF SameFilters
<1>3. Good(none)
  <2>1. SameFilters(l, Report(l, supp, <<Err(0, <<"build", "header_guard">>, 5)>>))
    BY ReportLemma
  <2> QED BY <2>1
<1>4. ASSUME NEW a, Good(a), NEW i \in DOMAIN t.lines, NEW wrong, NEW confidence
      PROVE  Good(At(a, i, wrong, confidence))
  <2> DEFINE parsed == ParseNolintSuppressions(a.nolint, t.lines[i], i)
             errors == NolintErrors(t.lines[i], i)
                       \o (IF wrong THEN <<Err(i, <<"build", "header_guard">>, confidence)>> ELSE <<>>)
  <2>1. At(a, i, wrong, confidence) = [nolint |-> parsed, lint |-> Report(a.lint, parsed, errors)]
    OBVIOUS
  <2>2. FromFile(parsed, t.lines, global)
    BY <1>4, NolintLemma
  <2> HIDE DEF parsed, errors, At
  <2>3. SameFilters(a.lint, Report(a.lint, parsed, errors))
    BY <1>4, ReportLemma DEF SameFilters
  <2>4. SameFilters(l, Report(a.lint, parsed, errors))
    BY <1>4, <2>3 DEF SameFilters
  <2> QED BY <2>1, <2>2, <2>4
<1>5. PICK len \in Nat : DOMAIN t.lines = 1 .. len
  BY DEF IsSequence
<1>6. ifs \subseteq 1 .. len /\ endifs \subseteq 1 .. len
  BY <1>5
<1> HIDE DEF At, exempt, ifs, endifs, old, none
<1>7. CASE ifs # {} /\ endifs # {}
  <2>1. Min(ifs) \in DOMAIN t.lines /\ Max(endifs) \in DOMAIN t.lines
    <3>1. Min(ifs) \in ifs /\ Max(endifs) \in endifs
      BY <1>5, <1>6, <1>7, MinMaxLemma
    <3> QED BY <1>5, <1>6, <3>1
  <2> HIDE DEF Good
  <2>2. Good(At(old, Min(ifs), TRUE, 0))
    BY <1>2, <1>4, <2>1
  <2>3. Good(styled)
    BY <1>2, <2>2
  <2> HIDE DEF styled
  <2>4. Good(At(styled, Max(endifs), "endif" \in t.guard, 5))
    BY <1>4, <2>1, <2>3
  <2>5. Good(r)
    BY <1>1, <1>2, <1>3, <2>4
  <2> QED BY <2>5 DEF Good
<1>8. CASE ifs = {} \/ endifs = {}
  <2> HIDE DEF Good, styled
  <2>1. r = old \/ r = none
    BY <1>1, <1>8
  <2>2. Good(r)
    BY <1>2, <1>3, <2>1
  <2> QED BY <2>2 DEF Good
<1> QED BY <1>7, <1>8

\* What the checks before the first line leave behind: the filters, and
\* suppressions only from lines of the file.
LEMMA BeginFileLemma ==
  ASSUME NEW l, {"filters", "backup"} \subseteq DOMAIN l, NEW f, NEW t,
         "lines" \in DOMAIN t, IsSequence(t.lines), NEW b, b = BeginFile(l, f, t)
  PROVE  /\ SameFilters(l, b.lint) /\ IsSequence(b.text.lines)
         /\ FromFile(b.nolint, b.text.lines, b.text.suppressed)
<1> DEFINE reset == ResetNolintSuppressions(nolint)
           l1 == Report(l, reset, CheckForCopyright(t))
           global == ProcessGlobalSuppresions(reset, t)
           removed == RemoveMultiLineComments(t.lines)
           errors == SetToSeq({Err(i, <<"readability", "multiline_comment">>, 5) : i \in removed.unclosed})
           l2 == Report(l1, global, errors)
           raw == [t EXCEPT !.lines = removed.lines]
           rest == IF f.ext \in opts'.hpp THEN CheckForHeaderGuard(l2, global, raw)
                   ELSE [lint |-> l2, nolint |-> global]
<1>1. /\ b.text.lines = removed.lines /\ b.text.suppressed = t.suppressed
      /\ b.lint = rest.lint /\ b.nolint = rest.nolint
  BY DEF BeginFile
<1>2. reset = [lines |-> {}, global |-> {}]
  BY DEF ResetNolintSuppressions
<1>3. global = [lines |-> {}, global |-> t.suppressed]
  <2> HIDE DEF reset
  <2> QED BY <1>2 DEF ProcessGlobalSuppresions
<1>4. IsSequence(removed.lines)
  BY RemoveLemma
<1> HIDE DEF reset, global, removed, errors
<1>5. SameFilters(l, l1) /\ SameFilters(l1, l2)
  <2>1. SameFilters(l, l1)
    BY ReportLemma
  <2>2. {"filters", "backup"} \subseteq DOMAIN l1
    BY <2>1 DEF SameFilters
  <2> HIDE DEF l1
  <2> QED BY <2>1, <2>2, ReportLemma
<1> HIDE DEF l1, l2
<1>6. SameFilters(l, l2)
  BY <1>5 DEF SameFilters
<1>7. raw.lines = removed.lines /\ "lines" \in DOMAIN raw
  OBVIOUS
<1>8. FromFile(global, raw.lines, t.suppressed)
  BY <1>3 DEF FromFile
<1> HIDE DEF raw
<1>10. DOMAIN rest = {"lint", "nolint"} /\ SameFilters(l, rest.lint) /\ FromFile(rest.nolint, raw.lines, t.suppressed)
  <2>1. CASE f.ext \in opts'.hpp
    <3>1. PICK r : r = CheckForHeaderGuard(l2, global, raw)
      OBVIOUS
    <3>2. {"filters", "backup"} \subseteq DOMAIN l2 /\ IsSequence(raw.lines)
      BY <1>4, <1>6, <1>7 DEF SameFilters
    <3>3. DOMAIN r = {"lint", "nolint"} /\ SameFilters(l2, r.lint) /\ FromFile(r.nolint, raw.lines, t.suppressed)
      BY <1>8, <3>1, <3>2, HeaderGuardLemma
    <3>4. SameFilters(l, r.lint)
      BY <1>6, <3>3 DEF SameFilters
    <3>5. rest = r
      BY <2>1, <3>1
    <3> QED BY <3>3, <3>4, <3>5
  <2>2. CASE f.ext \notin opts'.hpp
    BY <1>6, <1>8, <2>2
  <2> QED BY <2>1, <2>2
<1> HIDE DEF rest
<1> QED BY <1>1, <1>4, <1>7, <1>10

\* The files still to do came from the command line, the filters of the command
\* line are in use between files and kept while one is read.
IsolatedInv ==
  /\ cmd \in Options /\ n \in Nat /\ IsSequence(text.lines)
  /\ \E files \in Inputs : todo \in Seq(Range(files))
  /\ {"filters", "backup"} \subseteq DOMAIN lint
  /\ n = 0 => lint.filters = SetFilters(cmd.filters)
  /\ n > 0 => /\ todo # <<>>
              /\ lint.backup = SetFilters(cmd.filters)
              /\ lint.filters = SetFilters(cmd.filters) \o ConfigFilters(Head(todo))
              /\ FromFile(nolint, text.lines, text.suppressed)

\* The next file is one of the command line.
LEMMA HeadLemma ==
  ASSUME IsolatedInv, todo # <<>>
  PROVE  IsInput(Head(todo)) /\ \E files \in Inputs : Tail(todo) \in Seq(Range(files))
<1>1. PICK files \in Inputs : todo \in Seq(Range(files))
  BY DEF IsolatedInv
<1>2. Head(todo) \in Range(files) /\ Tail(todo) \in Seq(Range(files))
  BY <1>1
<1> QED BY <1>2, InputAssumption

\* A file that is skipped leaves the filters as they were.
LEMMA IsolatedSkip == IsolatedInv /\ SkipFile => IsolatedInv'
<1> SUFFICES ASSUME IsolatedInv, SkipFile PROVE IsolatedInv'
  OBVIOUS
<1>1. n = 0 /\ todo # <<>> /\ n' = n /\ cmd' = cmd /\ text' = text /\ todo' = Tail(todo)
  BY DEF SkipFile
<1>2. \E x : lint' = RestoreFilters(x) /\ (x = BackupFilters(lint) \/ \E y : x = AddFilters(BackupFilters(lint), y))
  BY DEF SkipFile
<1>3. {"filters", "backup"} \subseteq DOMAIN lint' /\ lint'.filters = lint.filters
  <2>1. {"filters", "backup"} \subseteq DOMAIN lint
    BY DEF IsolatedInv
  <2>2. PICK m : m = BackupFilters(lint)
    OBVIOUS
  <2>3. {"filters", "backup"} \subseteq DOMAIN m /\ m.backup = lint.filters
    BY <2>1, <2>2 DEF BackupFilters
  <2>4. PICK x : lint' = RestoreFilters(x) /\ (x = m \/ \E y : x = AddFilters(m, y))
    BY <1>2, <2>2
  <2>5. {"filters", "backup"} \subseteq DOMAIN x /\ x.backup = lint.filters
    BY <2>3, <2>4 DEF AddFilters
  <2> QED BY <2>4, <2>5 DEF RestoreFilters
<1>4. \E files \in Inputs : todo' \in Seq(Range(files))
  BY <1>1, HeadLemma
<1> QED BY <1>1, <1>3, <1>4 DEF IsolatedInv

\* A file that is read gets the filters of its CPPLINT.cfg files.
LEMMA IsolatedFile == IsolatedInv /\ ProcessFile => IsolatedInv'
<1> SUFFICES ASSUME IsolatedInv, ProcessFile PROVE IsolatedInv'
  OBVIOUS
<1>1. n = 0 /\ todo # <<>> /\ n' = 1 /\ cmd' = cmd /\ todo' = todo
  BY DEF ProcessFile
<1>2. PICK f : f = Head(todo) /\ IsInput(f)
  BY <1>1, HeadLemma
<1>3. PICK c : c = ProcessConfigOverrides(f)
  OBVIOUS
<1>4. ~c.skip /\ \E t \in Texts[f.kind] : LET b == BeginFile(AddFilters(BackupFilters(lint), c.filters), f, t)
                                          IN text' = b.text /\ lint' = b.lint /\ nolint' = b.nolint
  BY <1>2, <1>3 DEF ProcessFile
<1>5. FlattenSeq(c.filters) = ConfigFilters(f)
  BY <1>2, <1>3, <1>4, FiltersLemma
<1>6. {"filters", "backup"} \subseteq DOMAIN lint /\ lint.filters = SetFilters(cmd.filters)
  BY <1>1 DEF IsolatedInv
<1>7. PICK m : m = BackupFilters(lint)
  OBVIOUS
<1>8. {"filters", "backup"} \subseteq DOMAIN m /\ m.backup = lint.filters /\ m.filters = lint.filters
  BY <1>6, <1>7 DEF BackupFilters
<1>9. PICK l : l = AddFilters(m, c.filters)
  OBVIOUS
<1>10. /\ {"filters", "backup"} \subseteq DOMAIN l /\ l.backup = lint.filters
       /\ l.filters = lint.filters \o ConfigFilters(f)
  BY <1>5, <1>8, <1>9 DEF AddFilters
<1>11. PICK t \in Texts[f.kind] : LET b == BeginFile(l, f, t)
                                  IN text' = b.text /\ lint' = b.lint /\ nolint' = b.nolint
  BY <1>4, <1>7, <1>9
<1>12. "lines" \in DOMAIN t /\ IsSequence(t.lines)
  BY <1>2 DEF IsInput
<1>13. PICK b : b = BeginFile(l, f, t) /\ text' = b.text /\ lint' = b.lint /\ nolint' = b.nolint
  BY <1>11
<1>14. SameFilters(l, b.lint) /\ IsSequence(b.text.lines) /\ FromFile(b.nolint, b.text.lines, b.text.suppressed)
  BY <1>10, <1>12, <1>13, BeginFileLemma
<1>15. /\ {"filters", "backup"} \subseteq DOMAIN lint'
       /\ lint'.backup = SetFilters(cmd.filters)
       /\ lint'.filters = SetFilters(cmd.filters) \o ConfigFilters(f)
  BY <1>6, <1>10, <1>13, <1>14 DEF SameFilters
<1>16. IsSequence(text'.lines) /\ FromFile(nolint', text'.lines, text'.suppressed)
  BY <1>13, <1>14
<1>17. SetFilters(cmd'.filters) = SetFilters(cmd.filters) /\ ConfigFilters(Head(todo')) = ConfigFilters(f)
  BY <1>1, <1>2
<1>18. (\E files \in Inputs : todo \in Seq(Range(files))) /\ cmd \in Options
  BY DEF IsolatedInv
<1> QED BY <1>1, <1>15, <1>16, <1>17, <1>18 DEF IsolatedInv

\* A line adds its own suppressions.
LEMMA IsolatedLine == IsolatedInv /\ ProcessLine => IsolatedInv'
<1> SUFFICES ASSUME IsolatedInv, ProcessLine PROVE IsolatedInv'
  OBVIOUS
<1>1. /\ n \in 1 .. Len(text.lines) /\ n' = n + 1 /\ cmd' = cmd /\ todo' = todo /\ text' = text
  BY DEF ProcessLine
<1>2. /\ nolint' = ParseNolintSuppressions(nolint, text.lines[n], n)
      /\ \E supp, errors : lint' = Report(lint, supp, errors)
  BY DEF ProcessLine, Lint
<1>3. n \in DOMAIN text.lines /\ n > 0 /\ n' > 0 /\ n' # 0 /\ n' \in Nat
  <2>1. text.lines \in Seq(Range(text.lines))
    BY DEF IsolatedInv, IsSequence
  <2> QED BY <1>1, <2>1
<1>4. FromFile(nolint', text.lines, text.suppressed)
  BY <1>2, <1>3, NolintLemma DEF IsolatedInv
<1>5. SameFilters(lint, lint')
  BY <1>2, ReportLemma DEF IsolatedInv
<1>6. /\ cmd \in Options /\ IsSequence(text.lines)
      /\ \E files \in Inputs : todo \in Seq(Range(files))
      /\ todo # <<>>
      /\ lint.backup = SetFilters(cmd.filters)
      /\ lint.filters = SetFilters(cmd.filters) \o ConfigFilters(Head(todo))
  BY <1>3 DEF IsolatedInv
<1>7. /\ {"filters", "backup"} \subseteq DOMAIN lint'
      /\ lint'.backup = lint.backup /\ lint'.filters = lint.filters
  BY <1>5 DEF SameFilters
<1>8. SetFilters(cmd'.filters) = SetFilters(cmd.filters) /\ ConfigFilters(Head(todo')) = ConfigFilters(Head(todo))
  BY <1>1
<1> QED BY <1>1, <1>3, <1>4, <1>6, <1>7, <1>8 DEF IsolatedInv

\* The end of a file brings the filters of the command line back.
LEMMA IsolatedFinish == IsolatedInv /\ FinishFile => IsolatedInv'
<1> SUFFICES ASSUME IsolatedInv, FinishFile PROVE IsolatedInv'
  OBVIOUS
<1>1. n = Len(text.lines) + 1 /\ n' = 0 /\ cmd' = cmd /\ todo' = Tail(todo) /\ text' = text
  BY DEF FinishFile
<1>2. \E errors : lint' = RestoreFilters(Report(lint, nolint, errors))
  BY DEF FinishFile
<1>3. n > 0
  <2>1. text.lines \in Seq(Range(text.lines))
    BY DEF IsolatedInv, IsSequence
  <2>2. Len(text.lines) \in Nat
    BY <2>1
  <2> QED BY <1>1, <2>2
<1>4. PICK m : lint' = RestoreFilters(m) /\ SameFilters(lint, m)
  BY <1>2, ReportLemma DEF IsolatedInv
<1>5. {"filters", "backup"} \subseteq DOMAIN lint' /\ lint'.filters = lint.backup
  BY <1>4 DEF RestoreFilters, SameFilters
<1>6. lint.backup = SetFilters(cmd.filters) /\ todo # <<>> /\ cmd \in Options /\ IsSequence(text.lines)
  BY <1>3 DEF IsolatedInv
<1>7. \E files \in Inputs : todo' \in Seq(Range(files))
  BY <1>1, <1>6, HeadLemma
<1> QED BY <1>1, <1>5, <1>6, <1>7 DEF IsolatedInv

\* For any files and any options, the filters of a file come from the command line and from
\* its CPPLINT.cfg files, the nearest deciding last, and its suppressions, of lines and of
\* the whole file, from its own comments: FileIsolated holds in every state.
THEOREM FilesIsolated == Spec => []FileIsolated
<1>1. Init => IsolatedInv
  <2> SUFFICES ASSUME Init PROVE IsolatedInv
    OBVIOUS
  <2>1. cmd \in Options /\ todo \in Inputs /\ text = [lines |-> <<>>] /\ n = 0 /\ lint = NewCppLintState(cmd)
    BY DEF Init
  <2>2. todo \in Seq(Range(todo))
    BY <2>1, InputAssumption DEF IsSequence
  <2>3. {"filters", "backup"} \subseteq DOMAIN lint /\ lint.filters = SetFilters(cmd.filters)
    BY <2>1 DEF NewCppLintState
  <2>4. IsSequence(text.lines)
    BY <2>1 DEF IsSequence
  <2> QED BY <2>1, <2>2, <2>3, <2>4 DEF IsolatedInv
<1>2. IsolatedInv /\ [Next]_vars => IsolatedInv'
  <2> SUFFICES ASSUME IsolatedInv, [Next]_vars PROVE IsolatedInv'
    OBVIOUS
  <2>1. CASE Exit
    <3>1. UNCHANGED <<cmd, todo, text, n, lint, nolint>>
      BY <2>1 DEF Exit
    <3> QED BY <3>1 DEF IsolatedInv
  <2>2. CASE UNCHANGED vars
    <3>1. UNCHANGED <<cmd, todo, text, n, lint, nolint>>
      BY <2>2 DEF vars
    <3> QED BY <3>1 DEF IsolatedInv
  <2> QED BY <2>1, <2>2, IsolatedSkip, IsolatedFile, IsolatedLine, IsolatedFinish DEF Next
<1>3. IsolatedInv => FileIsolated
  <2> SUFFICES ASSUME IsolatedInv PROVE FileIsolated
    OBVIOUS
  <2>1. SetFilters(cmd.filters) \o <<>> = SetFilters(cmd.filters)
    <3>1. IsSequence(cmd.filters)
      BY OptionAssumption DEF IsolatedInv
    <3>2. PICK T : cmd.filters \in Seq(T) /\ DefaultFilters \in Seq(T)
      <4> DEFINE T == Range(cmd.filters) \cup Range(DefaultFilters)
      <4>1. cmd.filters \in Seq(T)
        BY <3>1 DEF IsSequence
      <4>2. DefaultFilters \in Seq(T)
        <5>1. PICK d : DefaultFilters = <<d>>
          BY DEF DefaultFilters
        <5>2. d \in T
          BY <5>1 DEF Range
        <5> HIDE DEF T
        <5> QED BY <5>1, <5>2
      <4> HIDE DEF T
      <4> QED BY <4>1, <4>2
    <3>3. SetFilters(cmd.filters) \in Seq(T)
      BY <3>2 DEF SetFilters
    <3> QED BY <3>3, ConcatEmptySeq
  <2>2. n \in Nat
    BY DEF IsolatedInv
  <2>3. lint.filters = SetFilters(cmd.filters) \o (IF n = 0 THEN <<>> ELSE ConfigFilters(Head(todo)))
    <3>1. CASE n = 0
      BY <2>1, <3>1 DEF IsolatedInv
    <3>2. CASE n # 0
      <4>1. n > 0
        BY <2>2, <3>2
      <4> QED BY <3>2, <4>1 DEF IsolatedInv
    <3> QED BY <3>1, <3>2
  <2>4. n > 0 => \A p \in nolint.lines : \E i \in DOMAIN text.lines : \E c \in text.lines[i].nolint :
                    p = <<c.cat, IF c.next THEN i + 1 ELSE i>>
    BY DEF IsolatedInv, FromFile
  <2>5. n > 0 => nolint.global = text.suppressed
    BY DEF IsolatedInv, FromFile
  <2> QED BY <2>3, <2>4, <2>5 DEF FileIsolated
<1> QED BY <1>1, <1>2, <1>3, PTL DEF Spec

=============================================================================
