---------------------------- MODULE XsReference ----------------------------
(* What XML Schema says of a document, to compare XsValidator with: an      *)
(* element is valid if some way to split its children over the particles of *)
(* its content model makes every one of them valid.  Only the lookup tables *)
(* are those of minixsv.                                                    *)
EXTENDS XsValidator

----------------------------------------------------------------------------
(* Types.  One is a node of the schema, a built-in type or the ur-type.     *)

PlainNode(tag, at) == [tag |-> tag, at |-> at, kids |-> <<>>, id |-> <<"xs">>]
AnyType == PlainNode("anyType", Empty)
KnownType(c, name) == name \in DOMAIN c.dict.TypeDict \cup DOMAIN Builtin
Named(c, name) ==
    IF name \in DOMAIN c.dict.TypeDict THEN c.dict.TypeDict[name] ELSE PlainNode("builtin", "name" :> name)

\* The type of a declaration.
DeclaredType(c, x) ==
    LET inner == SelectSeq(x.kids, LAMBDA k : k.tag \in {"complexType", "simpleType"})
    IN IF Has(x, "type") THEN Named(c, QName(c, x, "type")) ELSE IF inner # <<>> THEN inner[1] ELSE AnyType

\* The node that says how t is derived from its base type, if any does.
HasContent(t) == HasChild(t, "complexContent") \/ HasChild(t, "simpleContent")
Step(t) ==
    IF HasContent(t)
    THEN Derivation(FirstChild(t, IF HasChild(t, "complexContent") THEN "complexContent" ELSE "simpleContent")) ELSE t
Base(c, t) == IF Has(Step(t), "base") THEN Named(c, QName(c, Step(t), "base")) ELSE AnyType
RECURSIVE DerivedFrom(_, _, _)
DerivedFrom(c, t, u) == t = u \/ u = AnyType \/ (t # AnyType /\ DerivedFrom(c, Base(c, t), u))

SimpleType(t) == t.tag \in {"builtin", "simpleType"}
SimpleContent(t) == SimpleType(t) \/ HasChild(t, "simpleContent")

\* The values that a text stands for: one, or none.
RECURSIVE Denotes(_, _, _)
Denotes(c, t, text) ==
    IF t = AnyType THEN {text}
    ELSE IF t.tag = "builtin" THEN {Builtin[name][text] : name \in {n \in {t.at["name"]} : text \in DOMAIN Builtin[n]}}
    ELSE {val \in Denotes(c, Base(c, t), text) : Has(Step(t), "enumeration") => val \in Step(t).at["enumeration"]}

\* The type of the element n with the declaration x.
TypeOf(c, x, n) == IF XsiType \in DOMAIN n.at THEN Named(c, n.at[XsiType]) ELSE DeclaredType(c, x)

----------------------------------------------------------------------------
(* Declarations and content models.                                         *)

RECURSIVE Declared(_, _)
Declared(c, x) == IF Has(x, "ref") THEN Declared(c, c.dict.ElementDict[QName(c, x, "ref")]) ELSE x

\* The particles of a group, wherever it is defined.
Particles(c, x) == IF Has(x, "ref") THEN c.dict.GroupDict[QName(c, x, "ref")].kids ELSE x.kids

\* The content model of a complex type, its base's first.
Own(x) == SelectSeq(x.kids, LAMBDA k : k.tag \notin AttributeTags)
RECURSIVE Content(_, _)
Content(c, t) ==
    IF ~HasChild(t, "complexContent") THEN Own(t)
    ELSE IF Step(t).tag = "restriction" THEN Own(Step(t)) ELSE Content(c, Base(c, t)) \o Own(Step(t))
Model(x) == [PlainNode("sequence", Empty) EXCEPT !.kids = x]
Mixed(t) == \/ At(t, "mixed", "false") = "true"
            \/ HasChild(t, "complexContent") /\ At(FirstChild(t, "complexContent"), "mixed", "false") = "true"

\* The attributes and the wildcards that x and its attribute groups have.
RECURSIVE WithGroups(_, _)
WithGroups(c, x) ==
    {x} \cup UNION {WithGroups(c, c.dict.AttrGroupDict[QName(c, g, "ref")]) : g \in ToSet(Child(x, "attributeGroup"))}
AttributeUse(c, a) ==
    LET decl == IF Has(a, "ref") THEN c.dict.AttributeDict[QName(c, a, "ref")] ELSE a
        ns == IF At(a, "form", c.attrForm[a.id[1]]) = "qualified" THEN Tns(c, a) ELSE None
    IN [name |-> IF Has(a, "ref") THEN QName(c, a, "ref") ELSE <<ns, a.at["name"]>>, type |-> DeclaredType(c, decl),
        use |-> At(a, "use", "optional"), fixed |-> At(a, "fixed", At(decl, "fixed", None)),
        default |-> At(a, "default", At(decl, "default", None))]
OwnUses(c, x) == {AttributeUse(c, a) : a \in UNION {ToSet(Child(y, "attribute")) : y \in WithGroups(c, x)}}
OwnWildcards(c, x) == UNION {ToSet(Child(y, "anyAttribute")) : y \in WithGroups(c, x)}

\* A use replaces that of the base type; a prohibited one is none.
RECURSIVE AllUses(_, _), Wildcards(_, _)
AllUses(c, t) ==
    IF t.tag # "complexType" THEN {}
    ELSE LET own == OwnUses(c, Step(t))
         IN own \cup {u \in AllUses(c, Base(c, t)) : \A o \in own : o.name # u.name}
Uses(c, t) == {u \in AllUses(c, t) : u.use # "prohibited"}
Wildcards(c, t) ==
    IF t.tag # "complexType" THEN {}
    ELSE OwnWildcards(c, Step(t)) \cup (IF Step(t).tag = "extension" THEN Wildcards(c, Base(c, t)) ELSE {})

----------------------------------------------------------------------------
(* Validity.                                                                *)

\* A wildcard x admits the namespace.
Admits(c, x, ns) ==
    \E word \in At(x, "namespace", {"##any"}) :
        \/ word = "##any"
        \/ word = "##other" /\ ns \notin {Tns(c, x), None}
        \/ word = "##local" /\ ns = None
        \/ word = "##targetNamespace" /\ ns = Tns(c, x)
        \/ word = ns
Process(x) == At(x, "processContents", "strict")

ValidValue(c, type, text, fixed) ==
    /\ Denotes(c, type, text) # {}
    /\ fixed = None \/ Denotes(c, type, fixed) = Denotes(c, type, text)

\* The text that an attribute or an element has: its own, the default, or none.
Given(n, u) ==
    IF u.name \in DOMAIN n.at THEN {n.at[u.name]} ELSE {u.fixed, u.default} \ {None}
ValueOf(x, text) == IF text = "" THEN At(x, "fixed", At(x, "default", "")) ELSE text

XsiAttributes == {XsiType, XsiNil} \cup XsiLocation
ValidAttributes(c, t, n) ==
    /\ \A u \in Uses(c, t) :
          /\ u.use = "required" => u.name \in DOMAIN n.at
          /\ \A text \in Given(n, u) : ValidValue(c, u.type, text, u.fixed)
    /\ \A a \in DOMAIN n.at \ ({u.name : u \in Uses(c, t)} \cup XsiAttributes) :
          \E w \in Wildcards(c, t) :
             /\ Admits(c, w, a[1])
             /\ \/ Process(w) = "skip"
                \/ Process(w) = "lax" /\ a \notin DOMAIN c.dict.AttributeDict
                \/ /\ a \in DOMAIN c.dict.AttributeDict
                   /\ LET decl == c.dict.AttributeDict[a]
                      IN ValidValue(c, DeclaredType(c, decl), n.at[a], At(decl, "fixed", None))

RECURSIVE ValidElement(_, _, _), LaxlyValid(_, _), Ends(_, _, _, _), AllEnds(_, _, _, _)

\* What remains of an all group may be absent, or one of it comes next.
AllEnds(c, rest, list, i) ==
    (IF \A x \in rest : At(x, "minOccurs", 1) = 0 THEN {i} ELSE {})
    \cup UNION {AllEnds(c, rest \ {x}, list, i + 1) :
                   x \in {y \in rest : i <= Len(list) /\ ValidElement(c, Declared(c, y), list[i])}}

\* Where one occurrence of a particle that starts at i may end.
Once(c, x, list, i) ==
    CASE x.tag = "element" -> IF i <= Len(list) /\ ValidElement(c, Declared(c, x), list[i]) THEN {i + 1} ELSE {}
      [] x.tag = "any" ->
           IF /\ i <= Len(list)
              /\ Admits(c, x, Input(c, list[i]).name[1])
              /\ \/ Process(x) = "skip"
                 \/ Process(x) = "lax" /\ LaxlyValid(c, list[i])
                 \/ LET n == Input(c, list[i])
                    IN n.name \in DOMAIN c.dict.ElementDict /\ ValidElement(c, c.dict.ElementDict[n.name], list[i])
           THEN {i + 1} ELSE {}
      [] x.tag = "choice" -> UNION {Ends(c, x.kids[k], list, i) : k \in DOMAIN x.kids}
      [] x.tag = "all" -> AllEnds(c, ToSet(x.kids), list, i)
      [] OTHER -> FoldLeft(LAMBDA S, k : UNION {Ends(c, k, list, j) : j \in S}, {i}, Particles(c, x))
Ends(c, x, list, i) ==
    LET least == At(x, "minOccurs", 1)
        most == IF At(x, "maxOccurs", 1) = Unbounded THEN least + Len(list) + 1 ELSE At(x, "maxOccurs", 1)
        after[n \in 0 .. most] == IF n = 0 THEN {i} ELSE UNION {Once(c, x, list, j) : j \in after[n - 1]}
    IN UNION {after[n] : n \in least .. most}

\* What is declared is valid.
LaxlyValid(c, q) ==
    LET n == Input(c, q)
    IN IF n.name \in DOMAIN c.dict.ElementDict THEN ValidElement(c, c.dict.ElementDict[n.name], q)
       ELSE \A k \in ToSet(InputKids(c, q)) : LaxlyValid(c, k)

ValidContent(c, x, t, q) ==
    LET n == Input(c, q)
    IN IF t = AnyType THEN \A k \in ToSet(InputKids(c, q)) : LaxlyValid(c, k)
       ELSE IF SimpleContent(t)
       THEN n.kids = <<>> /\ ValidValue(c, t, ValueOf(x, n.text), At(x, "fixed", None))
       ELSE /\ Len(n.kids) + 1 \in Ends(c, Model(Content(c, t)), InputKids(c, q), 1)
            /\ n.text # "" => Mixed(t)

ValidElement(c, x, q) ==
    LET n == Input(c, q)
        t == TypeOf(c, x, n)
        global == <<Tns(c, x), x.at["name"]>> \in DOMAIN c.dict.ElementDict
                  /\ c.dict.ElementDict[<<Tns(c, x), x.at["name"]>>] = x
        qualified == global \/ At(x, "form", c.form[x.id[1]]) = "qualified"
    IN /\ n.name = <<IF qualified THEN Tns(c, x) ELSE None, x.at["name"]>>
       /\ XsiType \in DOMAIN n.at => KnownType(c, n.at[XsiType]) /\ DerivedFrom(c, t, DeclaredType(c, x))
       /\ XsiNil \in DOMAIN n.at => At(x, "nillable", "false") = "true"
       /\ t # AnyType => ValidAttributes(c, t, n)
       /\ IF XsiNil \in DOMAIN n.at /\ n.at[XsiNil] = "true" THEN n.kids = <<>> /\ n.text = "" /\ ~Has(x, "fixed")
          ELSE ValidContent(c, x, t, q)

----------------------------------------------------------------------------
(* IDs and identity constraints, over the declarations of all elements.     *)

RECURSIVE Leaves(_, _)
Leaves(c, x) ==
    IF x.tag \in {"element", "any"} THEN {x}
    ELSE UNION {Leaves(c, Particles(c, x)[k]) : k \in DOMAIN Particles(c, x)}
LeavesOf(c, t) ==
    IF t.tag = "complexType" /\ ~SimpleContent(t) THEN Leaves(c, Model(Content(c, t))) ELSE {}
RECURSIVE Decls(_, _, _)
Decls(c, x, q) ==
    LET elements == {Declared(c, y) : y \in {z \in LeavesOf(c, TypeOf(c, x, Input(c, q))) : z.tag = "element"}}
        of(k) == {y \in elements : y.at["name"] = Input(c, k).name[2]}
        global(k) == IF of(k) = {} /\ Input(c, k).name \in DOMAIN c.dict.ElementDict
                     THEN {c.dict.ElementDict[Input(c, k).name]} ELSE of(k)
    IN {<<q, x>>} \cup UNION {UNION {Decls(c, y, k) : y \in global(k)} : k \in ToSet(InputKids(c, q))}

\* The text and the attributes of the document that have a simple type.
TypedOf(c, d) ==
    LET n == Input(c, d[1])
        t == TypeOf(c, d[2], n)
    IN (IF SimpleContent(t) THEN {[at |-> <<d[1], Itself>>, type |-> t, text |-> ValueOf(d[2], n.text)]} ELSE {})
       \cup UNION {{[at |-> <<d[1], u.name>>, type |-> u.type, text |-> text] : text \in Given(n, u)} : u \in Uses(c, t)}
TypedValues(c, decls) == UNION {TypedOf(c, d) : d \in decls}
OfType(c, decls, type) == {e \in TypedValues(c, decls) : DerivedFrom(c, e.type, Named(c, <<"xs", type>>))}

\* What the steps of a path lead to, as a set.
Reached(c, q, steps) ==
    FoldLeft(LAMBDA S, name : UNION {{k \in ToSet(InputKids(c, p)) : Input(c, k).name[2] = name} : p \in S}, {q}, steps)
\* The places that are the field f of the element q: for an attribute, those
\* where it is given.
FieldPlaces(c, decls, f, q) ==
    LET places == {<<p, At(f, "attr", Itself)>> : p \in Reached(c, q, f.at["steps"])}
    IN {w \in places : Has(f, "attr") => w[2] \in DOMAIN Input(c, w[1]).at \/ \E e \in TypedValues(c, decls) : e.at = w}
\* The values of all fields of q, in a set; none if a field is missing.
Tuples(c, decls, fields, q) ==
    LET values(f) == UNION {UNION {Denotes(c, e.type, e.text) : e \in {g \in TypedValues(c, decls) : g.at = w}} :
                               w \in FieldPlaces(c, decls, f, q)}
    IN {vals \in [DOMAIN fields -> UNION {values(fields[k]) : k \in DOMAIN fields}] :
           \A k \in DOMAIN fields : vals[k] \in values(fields[k])}
Selected(c, d) == Reached(c, d[1], FirstChild(d[2], "selector").at["steps"])
TuplesOf(c, decls, d) == UNION {Tuples(c, decls, Child(d[2], "field"), q) : q \in Selected(c, d)}

\* The constraints, each within the element that has it.
Constraints(c, decls, tags) ==
    UNION {{<<d[1], k>> : k \in {y \in ToSet(d[2].kids) : y.tag \in tags}} : d \in decls}
\* A field is one place at most, and of a simple type.
ValidFields(c, decls, d) ==
    \A q \in Selected(c, d) : \A f \in ToSet(Child(d[2], "field")) :
        LET places == FieldPlaces(c, decls, f, q)
        IN /\ Cardinality(places) <= 1
           /\ \A w \in places : \E e \in TypedValues(c, decls) : e.at = w
\* The keys with the values that a reference d has: one of the element
\* itself will do, or one below it if no other has them.
KeysOf(c, decls, d, vals) ==
    {k \in Constraints(c, decls, {"key", "unique"}) :
        <<Tns(c, k[2]), k[2].at["name"]>> = QName(c, d[2], "refer") /\ vals \in TuplesOf(c, decls, k)}
Referable(d, keys) ==
    (\E k \in keys : k[1] = d[1]) \/ Cardinality({k \in keys : IsPrefix(d[1], k[1])}) = 1
ValidConstraints(c, decls) ==
    /\ \A d \in Constraints(c, decls, {"key", "unique", "keyref"}) : ValidFields(c, decls, d)
    /\ \A d \in Constraints(c, decls, {"key", "unique"}) :
          LET tuples(q) == Tuples(c, decls, Child(d[2], "field"), q)
          IN /\ \A p, q \in Selected(c, d) : p # q => tuples(p) \cap tuples(q) = {}
             /\ d[2].tag = "key" => \A q \in Selected(c, d) : tuples(q) # {}
    /\ \A d \in Constraints(c, decls, {"keyref"}) : \A vals \in TuplesOf(c, decls, d) : Referable(d, KeysOf(c, decls, d, vals))

Valid(c) ==
    LET root == c.dict.ElementDict[c.doc.name]
        decls == Decls(c, root, <<>>)
        denoted(e) == Denotes(c, e.type, e.text)
    IN /\ ValidElement(c, root, <<>>)
       /\ \A d, e \in OfType(c, decls, "ID") : d # e => denoted(d) # denoted(e)
       /\ \A d \in OfType(c, decls, "IDREF") : \E e \in OfType(c, decls, "ID") : denoted(d) = denoted(e)
       /\ ValidConstraints(c, decls)

----------------------------------------------------------------------------
(* The content models for which taking all that fits is right.              *)

RECURSIVE Emptiable(_, _)
EmptyOnce(c, x) ==
    CASE x.tag \in {"element", "any"} -> FALSE
      [] x.tag = "choice" -> \E k \in DOMAIN x.kids : Emptiable(c, x.kids[k])
      [] OTHER -> \A k \in DOMAIN Particles(c, x) : Emptiable(c, Particles(c, x)[k])
Emptiable(c, x) == At(x, "minOccurs", 1) = 0 \/ EmptyOnce(c, x)

\* The names in a particle, and the ones it may begin with.
RECURSIVE Names(_, _)
Names(c, x) ==
    IF x.tag = "element" THEN <<Declared(c, x).at["name"]>>
    ELSE IF x.tag = "any" THEN <<"*">>
    ELSE FlattenSeq([k \in DOMAIN Particles(c, x) |-> Names(c, Particles(c, x)[k])])
RECURSIVE First(_, _)
First(c, x) ==
    LET kids == Particles(c, x)
    IN CASE x.tag \in {"element", "any"} -> ToSet(Names(c, x))
         [] x.tag \in {"choice", "all"} -> UNION {First(c, kids[k]) : k \in DOMAIN kids}
         [] OTHER -> UNION {First(c, kids[k]) : k \in {m \in DOMAIN kids : \A l \in 1 .. m - 1 : Emptiable(c, kids[l])}}
Apart(S, T) == S \cap T = {} /\ "*" \notin S \cup T
RECURSIVE Single(_, _)
Single(c, x) ==
    x.tag \in {"element", "any"}
    \/ \A k \in DOMAIN Particles(c, x) : At(Particles(c, x)[k], "maxOccurs", 1) = 1 /\ Single(c, Particles(c, x)[k])

RECURSIVE Greedy(_, _)
Greedy(c, x) ==
    x.tag \in {"element", "any"}
    \/ LET kids == Particles(c, x)
       IN /\ EmptyOnce(c, x) => At(x, "minOccurs", 1) <= 1
          /\ At(x, "maxOccurs", 1) # 1 => Single(c, x) /\ IsInjective(Names(c, x)) /\ "*" \notin ToSet(Names(c, x))
          /\ x.tag = "choice" =>
                /\ \A k \in DOMAIN kids : ~Emptiable(c, kids[k])
                /\ \A k, m \in DOMAIN kids : k # m => Apart(First(c, kids[k]), First(c, kids[m]))
          /\ x.tag \in {"sequence", "group"} =>
                \A k, m \in DOMAIN kids :
                   k < m /\ (\A l \in k + 1 .. m - 1 : Emptiable(c, kids[l]))
                      => Apart(ToSet(Names(c, kids[k])), First(c, kids[m]))
          /\ \A k \in DOMAIN kids : Greedy(c, kids[k])

\* The places that are fields of a constraint.
PlacesOf(c, decls, d) ==
    UNION {FieldPlaces(c, decls, f, q) : f \in ToSet(Child(d[2], "field")), q \in Selected(c, d)}

\* Valid documents that minixsv may refuse:
\*   a content model that taking all that fits is wrong for;
\*   an attribute that is prohibited and admitted by a wildcard all the same;
\*   a field that is an attribute without a type, or of simple content that is restricted,
\*   or whose type is given by xsi:type;
\*   a key reference, when no type of the two fields is derived from the other.
Refusable(c) ==
    LET decls == Decls(c, c.dict.ElementDict[c.doc.name], <<>>)
        fields(tags) == UNION {PlacesOf(c, decls, d) : d \in Constraints(c, decls, tags)}
        types(tags) == {e.type : e \in {f \in TypedValues(c, decls) : f.at \in fields(tags)}}
    IN \/ \E d \in decls :
             LET t == TypeOf(c, d[2], Input(c, d[1]))
             IN \/ t.tag = "complexType" /\ ~SimpleContent(t) /\ ~Greedy(c, Model(Content(c, t)))
                \/ \E u \in AllUses(c, t) : u.use = "prohibited" /\ u.name \in DOMAIN Input(c, d[1]).at
       \/ \E t \in types({"key", "unique", "keyref"}) : t = AnyType \/ (t.tag = "complexType" /\ Step(t).tag = "restriction")
       \/ \E w \in fields({"key", "unique", "keyref"}) : XsiType \in DOMAIN Input(c, w[1]).at
       \/ \E t \in types({"key", "unique"}), u \in types({"keyref"}) : ~DerivedFrom(c, t, u) /\ ~DerivedFrom(c, u, t)

\* What minixsv does not look at, so that an invalid document may pass:
\*   a type that xsi:type names, when it is simple or not derived from the one declared;
\*   text in a type with complex content (_checkMixed is commented out there);
\*   a value in an element with xsi:nil="false";
\*   whether an element of the ur-type is nillable;
\*   a wildcard that does not say how its elements are processed, which is strict;
\*   what is inside of an element that is not declared;
\*   which element a key is of: a reference may be to the key of another with the same declaration;
\*   whether a field has a simple type, when it is mixed, of the ur-type or not declared.
Overlooked(c) ==
    LET decls == Decls(c, c.dict.ElementDict[c.doc.name], <<>>)
        declared == {d[1] : d \in decls}
        missed(x, n, t) ==
            \/ /\ XsiType \in DOMAIN n.at /\ KnownType(c, n.at[XsiType]) /\ t # DeclaredType(c, x)
               /\ SimpleType(t) \/ ~DerivedFrom(c, t, DeclaredType(c, x))
            \/ HasChild(t, "complexContent") /\ n.text # ""
            \/ XsiNil \in DOMAIN n.at /\ (n.at[XsiNil] = "false" \/ t = AnyType)
            \/ \E y \in LeavesOf(c, t) : y.tag = "any" /\ ~Has(y, "processContents")
        undeclared(q) == {k \in ToSet(InputKids(c, q)) : k \notin declared}
        string(q) == \A d \in decls : d[1] = q => TypeOf(c, d[2], Input(c, q)) = AnyType \/ Mixed(TypeOf(c, d[2], Input(c, q)))
    IN \/ \E d \in decls :
             \/ missed(d[2], Input(c, d[1]), TypeOf(c, d[2], Input(c, d[1])))
             \/ \E k \in undeclared(d[1]) :
                   \E j \in ToSet(InputKids(c, k)) : Input(c, j).kids # <<>> \/ Input(c, j).name \in DOMAIN c.dict.ElementDict
       \/ \E d \in Constraints(c, decls, {"keyref"}) : \E vals \in TuplesOf(c, decls, d) :
             KeysOf(c, decls, d, vals) # {} /\ ~Referable(d, KeysOf(c, decls, d, vals))
       \/ \E d \in Constraints(c, decls, {"key", "unique", "keyref"}) : \E w \in PlacesOf(c, decls, d) :
             (\A e \in TypedValues(c, decls) : e.at # w) /\ (w[2] = Itself => string(w[1]))
=============================================================================
