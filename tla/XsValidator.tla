---------------------------- MODULE XsValidator ----------------------------
(* minixsv's XsValBase: an XML document is checked against the schema whose *)
(* lookup tables XsSchema builds.  Content models are matched greedily,     *)
(* with TagException the only way back.                                     *)
(*                                                                          *)
(* c, the context of a validation, holds the tables, the namespaces of the  *)
(* schema files and the document; v its state: the errors, the attributes   *)
(* and texts that defaults have set, the ID values, and the identity        *)
(* constraints.  A node of the document is [name, at, text, kids], name and *)
(* the attributes being pairs, and is named by the path of positions that   *)
(* leads to it from the root.  A check of children from position i on       *)
(* returns [v, i, ex], ex telling that it raised TagException.              *)
EXTENDS XsSchema

CONSTANT BuiltinTypes     \* the values of the built-in types: their ordered value
Builtin == BuiltinTypes

XsiType == <<"xsi", "type">>
XsiNil == <<"xsi", "nil">>
XsiLocation == {<<"xsi", "schemaLocation">>, <<"xsi", "noNamespaceSchemaLocation">>}

Child(x, tag) == SelectSeq(x.kids, LAMBDA k : k.tag = tag)
HasChild(x, tag) == Child(x, tag) # <<>>
FirstChild(x, tag) == Child(x, tag)[1]
\* What an extension or a restriction is about.
Derivation(x) == FirstChild(x, IF HasChild(x, "extension") THEN "extension" ELSE "restriction")
Tns(c, x) == c.ns[x.id[1]]
QName(c, x, a) == IF x.at[a][1] = None THEN [x.at[a] EXCEPT ![1] = c.dns[x.id[1]]] ELSE x.at[a]

RECURSIVE NodeAt(_, _)
NodeAt(n, p) == IF p = <<>> THEN n ELSE NodeAt(n.kids[Head(p)], Tail(p))
Input(c, p) == NodeAt(c.doc, p)
InputKids(c, p) == [k \in DOMAIN Input(c, p).kids |-> Append(p, k)]
Attributes(c, v, p) == IF p \in DOMAIN v.at THEN v.at[p] ELSE Input(c, p).at
Text(c, v, p) == IF p \in DOMAIN v.text THEN v.text[p] ELSE Input(c, p).text
setAttribute(c, v, p, a, val) == [v EXCEPT !.at = (p :> ((a :> val) @@ Attributes(c, v, p))) @@ @]
setElementValue(v, p, val) == [v EXCEPT !.text = (p :> val) @@ @]
IsNil(c, v, p) == XsiNil \in DOMAIN Attributes(c, v, p) /\ Attributes(c, v, p)[XsiNil] = "true"
IsEmpty(c, v, p) == Input(c, p).kids = <<>> /\ Text(c, v, p) = ""

\* The declarations of elements and of their attributes go into one table.
Itself == <<None, None>>

Result(v, i) == [v |-> v, i |-> i, ex |-> FALSE]
TagException(v, i) == [v |-> v, i |-> i, ex |-> TRUE]
ErrorIf(cond, v) == IF cond THEN addError(v) ELSE v
\* A TagException goes on from position i, or is an error where it is caught.
Back(r, i) == IF r.ex THEN TagException(r.v, i) ELSE r
Caught(r) == ErrorIf(r.ex, r.v)
\* The element at i was checked.
Taken(r, i) == [r EXCEPT !.i = IF r.ex THEN i ELSE i + 1]

----------------------------------------------------------------------------
(* Simple types: [ok, val, base, v], with the ordered value and the chain   *)
(* of base types.  Facets are abstracted to the values they admit.          *)

RECURSIVE checkSimpleType(_, _, _, _, _)

\* checkSimpleTypeDef and _checkRestrictionTag.
checkSimpleTypeDef(c, v, x, val, idCheck) ==
    LET restricted(base) == [base EXCEPT !.ok = @ /\ (Has(x, "enumeration") => base.val \in x.at["enumeration"])]
    IN restricted(checkSimpleType(c, v, QName(c, x, "base"), val, idCheck))

checkSimpleType(c, v, type, val, idCheck) ==
    IF type \in DOMAIN Builtin
    THEN [ok |-> val \in DOMAIN Builtin[type], base |-> <<type>>, v |-> v,
          val |-> IF val \in DOMAIN Builtin[type] THEN Builtin[type][val] ELSE val]
    ELSE LET x == c.dict.TypeDict[type]
             entered(def) ==
                 IF ~def.ok \/ ~idCheck THEN def
                 ELSE IF type = <<"xs", "ID">> THEN [def EXCEPT !.ok = val \notin def.v.ids, !.v.ids = @ \cup {val}]
                 ELSE IF type = <<"xs", "IDREF">> THEN [def EXCEPT !.v.idrefs = @ \cup {val}]
                 ELSE def
             derived(def) == entered([def EXCEPT !.base = <<type>> \o @])
         IN derived(IF x.tag = "simpleType" THEN checkSimpleTypeDef(c, v, x, val, idCheck)
                    ELSE IF HasChild(x, "simpleContent")
                    THEN checkSimpleTypeDef(c, v, Derivation(FirstChild(x, "simpleContent")), val, idCheck)
                    ELSE IF At(x, "mixed", "false") = "true"
                    THEN checkSimpleType(c, v, <<"xs", "string">>, val, idCheck)
                    ELSE [ok |-> FALSE, base |-> <<>>, v |-> v, val |-> val])

\* A value that is not of its type is an error.
Checked(r) == ErrorIf(~r.ok, r.v)

\* The type that the declaration x has as a child or names.
checkDeclaredType(c, v, x, typeAttr, val, idCheck) ==
    IF HasChild(x, "simpleType") THEN checkSimpleTypeDef(c, v, FirstChild(x, "simpleType"), val, idCheck)
    ELSE checkSimpleType(c, v, QName(c, x, typeAttr), val, idCheck)

\* The base types of the value that was checked last are kept in the
\* declaration: its attribute BaseTypes.
keepBaseTypes(v, x, base) == [v EXCEPT !.base = (x.id :> base) @@ @]

\* _checkSimpleType of an element (attr = None) or an attribute with the
\* declaration x, whose type is the attribute typeAttr of x.
checkSimpleTypeOf(c, v, x, typeAttr, p, attr, val, fixed) ==
    IF attr = None /\ XsiNil \in DOMAIN Attributes(c, v, p)
    THEN ErrorIf(IsNil(c, v, p) /\ Text(c, v, p) # "", v)
    ELSE IF HasChild(x, "simpleType") \/ Has(x, typeAttr)
    THEN LET fixedTo(r, f) ==
                 IF ~r.ok \/ (fixed # None /\ ~f.ok) THEN addError(r.v)
                 ELSE ErrorIf(fixed # None /\ r.val # f.val, keepBaseTypes(r.v, x, r.base))
         IN fixedTo(checkDeclaredType(c, v, x, typeAttr, val, TRUE), checkDeclaredType(c, v, x, typeAttr, fixed, FALSE))
    ELSE ErrorIf(HasChild(x, "complexType") /\ At(FirstChild(x, "complexType"), "mixed", None) = "false",
                 keepBaseTypes(v, x, <<>>))

\* _checkElementValue: an empty element gets its default or fixed value.
checkElementValue(c, v, x, typeAttr, p) ==
    LET fixed == At(x, "fixed", None)
        v1 == ErrorIf(IsNil(c, v, p) /\ fixed # None, v)
        default == IF fixed # None THEN fixed ELSE At(x, "default", None)
        v2 == IF ~IsNil(c, v, p) /\ Text(c, v, p) = "" /\ default # None THEN setElementValue(v1, p, default) ELSE v1
    IN checkSimpleTypeOf(c, v2, x, typeAttr, p, None, Text(c, v2, p), fixed)

\* _checkUrType: any text is a string.
checkUrType(c, v, x, p) ==
    checkElementValue(c, v, [x EXCEPT !.at = ("__CONTENTTYPE__" :> <<"xs", "string">>) @@ @], "__CONTENTTYPE__", p)

----------------------------------------------------------------------------
(* Attributes.  Valid ones are [decl, any, seen, v]: by name, their node    *)
(* and the node it refers to; the anyAttribute, if there is one; and the    *)
(* attribute groups gone into.                                              *)

NoAttributes == [decl |-> Empty, any |-> <<>>]

\* _updateAttributeDict: the groups, the attributes, the anyAttribute of x.
RECURSIVE gatherAttributes(_, _, _)
gatherGroup(c, d, name) ==
    IF name \notin DOMAIN c.dict.AttrGroupDict THEN d
    ELSE IF name \in d.seen THEN [d EXCEPT !.v = addError(@)]
    ELSE gatherAttributes(c, c.dict.AttrGroupDict[name], [d EXCEPT !.seen = @ \cup {name}])
gatherAttribute(c, d, a, key) ==
    [d EXCEPT !.decl = (key :> [node |-> a, ref |-> IF Has(a, "ref") THEN c.dict.AttributeDict[key] ELSE a]) @@ @]
gatherAny(d, x) == IF HasChild(x, "anyAttribute") THEN [d EXCEPT !.any = <<FirstChild(x, "anyAttribute")>>] ELSE d
gatherAttributes(c, x, d) ==
    LET key(a) == IF Has(a, "ref") THEN QName(c, a, "ref") ELSE <<Tns(c, a), a.at["name"]>>
    IN gatherAny(FoldLeft(LAMBDA e, a : gatherAttribute(c, e, a, key(a)),
                          FoldLeft(LAMBDA e, g : gatherGroup(c, e, QName(c, g, "ref")), d, Child(x, "attributeGroup")),
                          Child(x, "attribute")), x)
updateAttributeDict(c, v, x, attrs) ==
    LET gathered(d) == [v |-> d.v, attrs |-> [decl |-> d.decl, any |-> d.any]]
    IN gathered(gatherAttributes(c, x, [decl |-> attrs.decl, any |-> attrs.any, seen |-> {}, v |-> v]))

\* _checkAttributeTag: s is [v, in], in the attributes not accounted for yet.
checkAttribute(c, s, key, tns, use, fixed, ref, p) ==
    LET default == At(ref, "default", fixed)
        without(a) == [b \in DOMAIN s.in \ {a} |-> s.in[b]]
        given == key \in DOMAIN s.in
        misqualified(a) == [v |-> addError(s.v), in |-> without(a)]
        filled == use = "optional" /\ default # None
        typed(v, val) == [v |-> [checkSimpleTypeOf(c, v, ref, "type", p, key, val, fixed) EXCEPT !.xsd = (<<p, key>> :> ref) @@ @],
                          in |-> without(key)]
    IN IF given THEN typed(ErrorIf(use = "prohibited", s.v), s.in[key])
       ELSE IF <<tns, key[2]>> \in DOMAIN s.in THEN misqualified(<<tns, key[2]>>)
       ELSE IF key[1] = tns /\ <<None, key[2]>> \in DOMAIN s.in THEN misqualified(<<None, key[2]>>)
       ELSE IF filled THEN typed(setAttribute(c, s.v, p, key, default), default)
       ELSE [s EXCEPT !.v = ErrorIf(use = "required", @)]
checkAttributeTag(c, s, key, node, ref, form, p) ==
    checkAttribute(c, s, IF key[1] = Tns(c, node) /\ form = "unqualified" THEN <<None, key[2]>> ELSE key, Tns(c, node),
                   At(node, "use", At(ref, "use", "optional")), At(node, "fixed", At(ref, "fixed", None)), ref, p)

\* _checkInputNamespace: does the wildcard x admit the namespace?
checkInputNamespace(c, x, ns) ==
    LET namespaces == At(x, "namespace", {"##any"})
    IN \/ namespaces = {"##any"}
       \/ namespaces = {"##other"} /\ ns \notin {Tns(c, x), None}
       \/ namespaces # {"##other"}
          /\ \/ "##local" \in namespaces /\ ns = None
             \/ "##targetNamespace" \in namespaces /\ ns = Tns(c, x)
             \/ ns \in namespaces

\* _checkWildcardAttribute, and the error for its TagException.
checkWildcardAttribute(c, s, x, p, key) ==
    LET declared == key \in DOMAIN c.dict.AttributeDict
        process == At(x, "processContents", "strict")
        local == key[1] = None /\ At(x, "form", c.attrForm[x.id[1]]) = "unqualified" /\ At(x, "namespace", {}) # {"##local"}
    IN IF ~checkInputNamespace(c, x, IF local THEN Tns(c, x) ELSE key[1]) THEN [s EXCEPT !.v = addError(@)]
       ELSE IF process \in {"lax", "strict"} /\ declared
       THEN checkAttributeTag(c, s, key, c.dict.AttributeDict[key], c.dict.AttributeDict[key],
                              At(c.dict.AttributeDict[key], "form", None), p)
       ELSE [s EXCEPT !.v = ErrorIf(process = "strict", @)]

\* _checkAttributeTags: xp is the declaration of the element, d is [v, attrs].
checkDeclaredAttributes(c, d, x, p, in) ==
    LET form(key, ref) == IF key \in DOMAIN c.dict.AttributeDict /\ c.dict.AttributeDict[key] = ref THEN "qualified"
                          ELSE At(ref, "form", c.attrForm[x.id[1]])
    IN FoldSet(LAMBDA key, s : checkAttributeTag(c, s, key, d.attrs.decl[key].node, d.attrs.decl[key].ref,
                                                 form(key, d.attrs.decl[key].ref), p),
               [v |-> d.v, in |-> in], DOMAIN d.attrs.decl)
checkOtherAttribute(c, s, xp, any, p, key) ==
    IF key = XsiType \/ (p = <<>> /\ key \in XsiLocation) THEN s
    ELSE IF key = XsiNil THEN [s EXCEPT !.v = ErrorIf(At(xp, "nillable", "false") = "false", @)]
    ELSE IF any # <<>> THEN checkWildcardAttribute(c, s, any[1], p, key)
    ELSE [s EXCEPT !.v = addError(@)]
checkOtherAttributes(c, s, xp, any, p) ==
    FoldSet(LAMBDA key, r : checkOtherAttribute(c, r, xp, any, p, key), s, DOMAIN s.in).v
checkGatheredAttributes(c, d, xp, x, p, in) ==
    checkOtherAttributes(c, checkDeclaredAttributes(c, d, x, p, in), xp, d.attrs.any, p)
checkAttributeTags(c, v, xp, x, p, attrs) ==
    checkGatheredAttributes(c, updateAttributeDict(c, v, x, attrs), xp, x, p, Attributes(c, v, p))

----------------------------------------------------------------------------
(* Identity constraints.                                                    *)

\* _getXPath: the nodes that steps lead to, and the one value of a field
\* at each.
RECURSIVE getXPath(_, _, _)
getXPath(c, p, steps) ==
    IF steps = <<>> THEN <<p>>
    ELSE FlattenSeq([k \in DOMAIN InputKids(c, p) |->
                        IF Input(c, Append(p, k)).name[2] = Head(steps) THEN getXPath(c, Append(p, k), Tail(steps))
                        ELSE <<>>])

\* _setBaseTypes: those kept in the declaration of the node or the attribute
\* at where, none for <<>>.  Without a declaration they are the default.
setBaseTypes(v, where, default) ==
    IF where \notin DOMAIN v.xsd THEN default
    ELSE IF v.xsd[where].id \in DOMAIN v.base THEN v.base[v.xsd[where].id] ELSE <<>>

\* _getOrderedValue, for the first of the base types that the value is of.
getOrderedValue(c, v, base, val) ==
    LET known == SelectSeq(base, LAMBDA type : type \in DOMAIN c.dict.TypeDict \cup DOMAIN Builtin)
        values == [k \in DOMAIN known |-> checkSimpleType(c, v, known[k], val, FALSE)]
        fitting == SelectSeq(values, LAMBDA r : r.ok)
    IN IF fitting = <<>> THEN val ELSE fitting[1].val

\* The nodes that have the field f at p, and the field's value at a node q.
\* The types of a key's field may be those of xsi:type (default = AnyTypes).
AnyTypes == <<<<"xs", "anyType">>>>
fieldNodes(c, v, f, p) ==
    SelectSeq(getXPath(c, p, f.at["steps"]), LAMBDA q : Has(f, "attr") => f.at["attr"] \in DOMAIN Attributes(c, v, q))
fieldValue(c, v, f, q, default) ==
    LET kept == setBaseTypes(v, <<q, At(f, "attr", Itself)>>, default)
        base == IF AnyTypes = default /\ kept = AnyTypes /\ XsiType \in DOMAIN Attributes(c, v, q)
                THEN <<Attributes(c, v, q)[XsiType]>> ELSE kept
    IN [base |-> base,
        val |-> getOrderedValue(c, v, base, IF Has(f, "attr") THEN Attributes(c, v, q)[f.at["attr"]] ELSE Text(c, v, q))]

\* The values of all fields at p, whose nodes are given: [bad, missing,
\* untyped, first, vals, base].  first: no field is missing before another.
valuesAt(c, v, fields, nodes, default) ==
    LET typed(values) == SelectSeq(values, LAMBDA r : r.base # <<>> \/ default = <<>>)
        split(values) ==
            [bad |-> \E k \in DOMAIN nodes : Len(nodes[k]) > 1, missing |-> Len(fields) - Len(values),
             untyped |-> Len(values) - Len(typed(values)), first |-> \A k \in DOMAIN values : nodes[k] # <<>>,
             vals |-> [k \in DOMAIN typed(values) |-> typed(values)[k].val],
             base |-> [k \in DOMAIN typed(values) |-> typed(values)[k].base]]
    IN split(FlattenSeq([k \in DOMAIN fields |->
                            IF nodes[k] = <<>> THEN <<>> ELSE <<fieldValue(c, v, fields[k], nodes[k][1], default)>>]))
fieldValues(c, v, fields, p, default) ==
    valuesAt(c, v, fields, [k \in DOMAIN fields |-> fieldNodes(c, v, fields[k], p)], default)

\* _checkIdentityConstraint: the values of a constraint are kept for all
\* elements that have it, the ones seen for this element alone.
checkIdentityConstraint(c, v, x, p) ==
    LET name == <<Tns(c, x), x.at["name"]>>
        enter(s, f, w) ==
            IF f.bad THEN [s EXCEPT !.v = addError(@), !.stop = TRUE]
            ELSE IF f.vals = <<>> THEN [s EXCEPT !.v = w]
            ELSE IF f.vals \in s.seen THEN [s EXCEPT !.v = addError(w)]
            ELSE [s EXCEPT !.v = [w EXCEPT !.keys = (<<name, f.vals>> :> f.base) @@ @], !.seen = @ \cup {f.vals}]
        missed(v0, f) == FoldLeft(LAMBDA u, k : addError(u), v0,
                                  [k \in 1 .. f.untyped + (IF x.tag = "key" THEN f.missing ELSE 0) |-> k])
        fields(s, f) == enter(s, f, missed(s.v, f))
        check(s, q) == IF s.stop THEN s ELSE fields(s, fieldValues(c, s.v, Child(x, "field"), q, AnyTypes))
    IN FoldLeft(check, [v |-> v, seen |-> {}, stop |-> FALSE],
                getXPath(c, p, FirstChild(x, "selector").at["steps"])).v

\* _checkKeyRefConstraint, where a field without base types, or after one that
\* is missing, raises an exception: both end the validation like an error.
checkKeyRefConstraint(c, v, x, p) ==
    LET refer == QName(c, x, "refer")
        any == <<"xs", "anyType">>
        mismatch(base, f, n) == /\ base[n][1] \notin ToSet(f.base[n]) /\ f.base[n][1] \notin ToSet(base[n])
                                /\ any \notin {base[n][1], f.base[n][1]}
        refers(keys, f) == /\ <<refer, f.vals>> \in DOMAIN keys /\ f.first /\ <<>> \notin ToSet(f.base)
                           /\ \A n \in DOMAIN f.vals : ~mismatch(keys[<<refer, f.vals>>], f, n)
        fields(s, f) == IF f.bad THEN [v |-> addError(s.v), stop |-> TRUE]
                        ELSE [s EXCEPT !.v = ErrorIf(f.vals # <<>> /\ ~refers(@.keys, f), @)]
        check(s, q) == IF s.stop THEN s ELSE fields(s, fieldValues(c, s.v, Child(x, "field"), q, <<>>))
    IN FoldLeft(check, [v |-> v, stop |-> FALSE], getXPath(c, p, FirstChild(x, "selector").at["steps"])).v

----------------------------------------------------------------------------
(* Elements, types and particles.                                           *)

RECURSIVE checkElementTag(_, _, _, _, _, _), checkComplexTypeTag(_, _, _, _, _, _, _), checkParticle(_, _, _, _, _, _)

\* The particles of x one after the other: _checkSequenceTag.
checkSequenceTag(c, v, x, p, list, i) ==
    FoldLeft(LAMBDA r, k : IF r.ex THEN r ELSE checkParticle(c, r.v, k, p, list, r.i), Result(v, i), x.kids)

\* An alternative that consumes nothing undoes the failure of the ones before.
checkChoiceTag(c, v, x, p, list, i) ==
    FoldLeft(LAMBDA r, k : IF r.i > i THEN r ELSE Back(checkParticle(c, r.v, k, p, list, i), i), Result(v, i), x.kids)

checkGroupTag(c, v, x, p, list, i) ==
    checkSequenceTag(c, v, IF Has(x, "ref") THEN c.dict.GroupDict[QName(c, x, "ref")] ELSE x, p, list, i)

\* _checkAllTag: done is the set of the children of x that were found.
RECURSIVE checkAllFrom(_, _, _, _, _, _, _)
checkAllFrom(c, v, x, p, list, i, done) ==
    LET took(r, k, m) ==
            IF m.ex \/ m.i = i THEN [r EXCEPT !.v = m.v]
            ELSE IF k \in done THEN [r EXCEPT !.v = m.v, !.ex = TRUE]
            ELSE [r EXCEPT !.v = m.v, !.i = m.i, !.took = k]
        try(r, k) == IF r.ex \/ r.took # 0 THEN r ELSE took(r, k, checkParticle(c, r.v, x.kids[k], p, list, i))
        rest(r) == IF r.ex \/ r.took = 0 THEN TagException(r.v, i)
                   ELSE checkAllFrom(c, r.v, x, p, list, r.i, done \cup {r.took})
    IN IF i > Len(list) \/ done = DOMAIN x.kids
       THEN IF \E k \in DOMAIN x.kids \ done : At(x.kids[k], "minOccurs", 1) # 0 THEN TagException(v, i) ELSE Result(v, i)
       ELSE rest(FoldLeft(try, [v |-> v, i |-> i, ex |-> FALSE, took |-> 0], [k \in DOMAIN x.kids |-> k]))
checkAllTag(c, v, x, p, list, i) ==
    checkAllFrom(c, v, [x EXCEPT !.kids = SelectSeq(@, LAMBDA k : k.tag # "annotation")], p, list, i, {})

\* _checkWildcardElement
checkWildcardElement(c, v, x, q) ==
    LET n == Input(c, q)
        type == n.at[XsiType]
    IN IF ~checkInputNamespace(c, x, n.name[1]) THEN TagException(v, 1)
       ELSE IF At(x, "processContents", "lax") = "skip" THEN Result(v, 1)
       ELSE IF XsiType \in DOMAIN n.at
       THEN Result(IF type \notin DOMAIN c.dict.TypeDict \cup DOMAIN Builtin THEN addError(v)
                   ELSE IF type \notin DOMAIN Builtin /\ c.dict.TypeDict[type].tag = "complexType"
                   THEN Caught(checkComplexTypeTag(c, v, x, c.dict.TypeDict[type], q, 1, None))
                   ELSE Checked(checkSimpleType(c, v, type, n.text, TRUE)), 1)
       ELSE IF n.name \in DOMAIN c.dict.ElementDict
       THEN checkElementTag(c, v, c.dict.ElementDict[n.name], q, <<q>>, 1)
       ELSE Result(ErrorIf(At(x, "processContents", "lax") = "strict", v), 1)
checkAnyTag(c, v, x, p, list, i) ==
    IF i > Len(list) THEN TagException(v, i)
    ELSE Taken(checkWildcardElement(c, v, x, list[i]), i)

\* One occurrence of a particle.
elementMethod(c, v, x, p, list, i) ==
    CASE x.tag = "element" -> checkElementTag(c, v, x, p, list, i)
      [] x.tag = "choice" -> checkChoiceTag(c, v, x, p, list, i)
      [] x.tag = "sequence" -> checkSequenceTag(c, v, x, p, list, i)
      [] x.tag = "group" -> checkGroupTag(c, v, x, p, list, i)
      [] x.tag = "all" -> checkAllTag(c, v, x, p, list, i)
      [] x.tag = "any" -> checkAnyTag(c, v, x, p, list, i)

\* _checkList: as many as there are, up to maxOccurs.  A match of nothing is
\* counted once, and ends the loop.
Unbounded == -1
RECURSIVE checkListFrom(_, _, _, _, _, _, _)
checkListFrom(c, v, x, p, list, i, occurs) ==
    LET max == At(x, "maxOccurs", 1)
        end(w, n) == IF n < At(x, "minOccurs", 1) THEN TagException(w, i) ELSE Result(w, i)
        rest(r) == IF r.ex THEN end(r.v, occurs)
                   ELSE IF r.i > i THEN checkListFrom(c, r.v, x, p, list, r.i, occurs + 1)
                   ELSE end(r.v, occurs + 1)
    IN IF max # Unbounded /\ occurs >= max THEN end(v, occurs) ELSE rest(elementMethod(c, v, x, p, list, i))
\* The loop goes on for one more than maxOccurs.
checkList_OneMore(c, v, x, p, list, i) ==
    checkListFrom(c, v, [x EXCEPT !.at = [a \in DOMAIN @ |-> IF a = "maxOccurs" /\ x.at[a] > 1 THEN x.at[a] + 1 ELSE x.at[a]]],
                  p, list, i, 0)
checkList(c, v, x, p, list, i) == checkListFrom(c, v, x, p, list, i, 0)

checkParticle(c, v, x, p, list, i) ==
    IF x.tag \in {"element", "choice", "sequence", "group", "all", "any"} THEN checkList(c, v, x, p, list, i)
    ELSE IF x.tag = "annotation" THEN Result(v, i) ELSE Result(addError(v), i)

\* The attributes of a type: those of a type that a derived one uses are
\* added to the valid ones, attrs, instead of being checked.
WithAttributes(r, v, attrs) == [v |-> v, i |-> r.i, ex |-> r.ex, attrs |-> attrs]
checkUsedAttributes(c, r, xp, x, p, used, attrs) ==
    LET gathered(d) == WithAttributes(r, d.v, d.attrs)
    IN IF r.ex THEN WithAttributes(r, r.v, attrs)
       ELSE IF used = None THEN WithAttributes(r, checkAttributeTags(c, r.v, xp, x, p, attrs), attrs)
       ELSE gathered(updateAttributeDict(c, r.v, x, attrs))

\* _checkComplexTypeContent, with the valid attributes of the base types:
\* [v, i, ex, attrs].  used tells how a derived type uses this one.
AttributeTags == {"attribute", "attributeGroup", "anyAttribute"}
checkComplexTypeContent(c, v, xp, x, p, i, used, attrs) ==
    LET nil == IsNil(c, v, p)
        list == InputKids(c, p)
        particles == [x EXCEPT !.kids = SelectSeq(@, LAMBDA k : k.tag \notin AttributeTags)]
        whole(r) == [r EXCEPT !.v = ErrorIf(~r.ex /\ ~nil /\ used = None /\ r.i <= Len(list), @)]
    IN checkUsedAttributes(c, whole(IF nil THEN Result(ErrorIf(~IsEmpty(c, v, p), v), i)
                                    ELSE IF used \in {None, "extension"} THEN checkSequenceTag(c, v, particles, p, list, i)
                                    ELSE Result(v, i)),
                           xp, x, p, used, attrs)

\* _checkSimpleTypeContent: no children.
checkSimpleTypeContent(c, v, xp, x, p, i, used, attrs) ==
    checkUsedAttributes(c, IF Input(c, p).kids # <<>> THEN TagException(v, i) ELSE Result(v, i), xp, x, p, used, attrs)

\* First the base type, then what the derived type y adds to it.
DerivedContent(c, base, xp, y, p, used) ==
    IF base.ex THEN base ELSE checkComplexTypeContent(c, base.v, xp, y, p, base.i, used, base.attrs)
checkExtensionComplexContent(c, v, xp, y, p, i, used) ==
    DerivedContent(c, checkComplexTypeTag(c, v, xp, c.dict.TypeDict[QName(c, y, "base")], p, i, IF used = None THEN "extension" ELSE used),
            xp, y, p, used)
\* Of the base type only the attributes count.
checkRestrictionComplexContent(c, v, xp, y, p, i, used) ==
    DerivedContent(c, checkComplexTypeTag(c, v, xp, c.dict.TypeDict[QName(c, y, "base")], p, i, "restriction"), xp, y, p, used)
checkComplexContentTag(c, v, xp, x, p, i, used) ==
    IF HasChild(x, "extension") THEN checkExtensionComplexContent(c, v, xp, FirstChild(x, "extension"), p, i, used)
    ELSE checkRestrictionComplexContent(c, v, xp, FirstChild(x, "restriction"), p, i, used)

checkExtensionSimpleContent(c, v, xp, y, p, i, used) ==
    LET told(w) == IF y.id \in DOMAIN w.base THEN keepBaseTypes(w, xp, w.base[y.id]) ELSE w
    IN checkSimpleTypeContent(c, told(checkSimpleTypeOf(c, v, y, "base", p, None, Text(c, v, p), None)),
                              xp, y, p, i, used, NoAttributes)
checkRestrictionSimpleContent(c, v, xp, y, p, i, used) ==
    checkSimpleTypeContent(c, Checked(checkSimpleTypeDef(c, v, y, Text(c, v, p), TRUE)), xp, y, p, i, used, NoAttributes)
checkSimpleContentTag(c, v, xp, x, p, i, used) ==
    LET w == ErrorIf(IsNil(c, v, p) /\ ~IsEmpty(c, v, p), v)
    IN IF HasChild(x, "extension") THEN checkExtensionSimpleContent(c, w, xp, FirstChild(x, "extension"), p, i, used)
       ELSE checkRestrictionSimpleContent(c, w, xp, FirstChild(x, "restriction"), p, i, used)

\* _checkMixed
checkMixed(c, v, xp, x, p) ==
    IF At(x, "mixed", "false") = "false" THEN ErrorIf(Text(c, v, p) # "", v) ELSE checkUrType(c, v, xp, p)

checkComplexTypeTag(c, v, xp, x, p, i, used) ==
    IF HasChild(x, "complexContent") THEN checkComplexContentTag(c, v, xp, FirstChild(x, "complexContent"), p, i, used)
    ELSE IF HasChild(x, "simpleContent") THEN checkSimpleContentTag(c, v, xp, FirstChild(x, "simpleContent"), p, i, used)
    ELSE LET mixed(r) == IF r.ex \/ used # None THEN r ELSE [r EXCEPT !.v = checkMixed(c, @, xp, x, p)]
         IN mixed(checkComplexTypeContent(c, v, xp, x, p, i, used, NoAttributes))

\* _checkInputElementForm
checkInputElementForm(c, v, x, q) ==
    LET tns == Tns(c, x)
        global == <<tns, x.at["name"]>> \in DOMAIN c.dict.ElementDict /\ c.dict.ElementDict[<<tns, x.at["name"]>>] = x
        form == IF global THEN "qualified" ELSE At(x, "form", c.form[x.id[1]])
        ns == Input(c, q).name[1]
    IN ErrorIf(IF form = "qualified" THEN ns # tns ELSE ns # None, v)

\* _checkElementSimpleType
checkElementSimpleType(c, v, x, q) ==
    IF Input(c, q).kids # <<>> THEN TagException(v, 1)
    ELSE Result(checkAttributeTags(c, checkElementValue(c, v, x, "type", q), x, x, q, NoAttributes), 1)

\* _checkElementTag for the element q once its name is known to be x's: the
\* element is taken, whatever is wrong inside it.
checkElement(c, v0, x, q) ==
    LET v == checkInputElementForm(c, [v0 EXCEPT !.xsd = (<<q, Itself>> :> x) @@ @], x, q)
        n == Input(c, q)
        overloaded == XsiType \in DOMAIN n.at
        type == IF overloaded THEN n.at[XsiType] ELSE QName(c, x, "type")
        named == (overloaded \/ Has(x, "type")) /\ type \in DOMAIN c.dict.TypeDict
                 /\ c.dict.TypeDict[type].tag = "complexType"
        inner(w, k) ==
            LET name == Input(c, k).name
            IN IF name \in DOMAIN c.dict.ElementDict THEN Caught(checkElementTag(c, w, c.dict.ElementDict[name], q, <<k>>, 1)) ELSE w
        constrained(r) ==
            IF r.ex
            THEN IF named \/ HasChild(x, "complexType") THEN Result(addError(r.v), 1) ELSE TagException(r.v, 1)
            ELSE Result([FoldLeft(LAMBDA w, k : checkIdentityConstraint(c, w, k, q), r.v, Child(x, "unique") \o Child(x, "key"))
                            EXCEPT !.keyrefs = @ \o [k \in DOMAIN Child(x, "keyref") |-> <<Child(x, "keyref")[k], q>>]], 1)
    IN IF x.kids = <<>> /\ ~Has(x, "type") /\ ~overloaded
       THEN Result(FoldLeft(inner, checkUrType(c, v, x, q), InputKids(c, q)), 1)
       ELSE IF overloaded /\ type \notin DOMAIN c.dict.TypeDict \cup DOMAIN Builtin THEN Result(addError(v), 1)
       ELSE constrained(IF named \/ HasChild(x, "complexType")
                        THEN checkComplexTypeTag(c, v, x, IF named THEN c.dict.TypeDict[type] ELSE FirstChild(x, "complexType"), q, 1, None)
                        ELSE checkElementSimpleType(c, v, x, q))

checkElementTag(c, v, x, p, list, i) ==
    IF Has(x, "ref") THEN checkElementTag(c, v, c.dict.ElementDict[QName(c, x, "ref")], p, list, i)
    ELSE IF i > Len(list) \/ x.at["name"] # Input(c, list[i]).name[2] THEN TagException(v, i)
    ELSE Taken(checkElement(c, v, x, list[i]), i)

----------------------------------------------------------------------------
(* XsValBase.validate, after the schema is loaded.                          *)

Context(l, doc) ==
    [dict |-> l.dict, ns |-> l.t.ns @@ ("xs" :> "xs"), dns |-> l.t.dns @@ ("xs" :> None), doc |-> doc,
     form |-> [u \in DOMAIN l.t.ns |-> Schemas[u].form], attrForm |-> [u \in DOMAIN l.t.ns |-> Schemas[u].attrForm]]
Start(l) ==
    [errors |-> l.errors, abort |-> l.abort, at |-> Empty, text |-> Empty, xsd |-> Empty, base |-> Empty,
     ids |-> {}, idrefs |-> {}, keys |-> Empty, keyrefs |-> <<>>]

\* References are only looked at when there were no errors.
checkReferences(c, v) ==
    IF hasErrors(v) THEN v
    ELSE FoldLeft(LAMBDA w, k : checkKeyRefConstraint(c, w, k[1], k[2]),
                  FoldSet(LAMBDA id, w : addError(w), v, v.idrefs \ v.ids), v.keyrefs)

validate(c, v) ==
    IF c.doc.name \notin DOMAIN c.dict.ElementDict THEN raiseError(v)
    ELSE checkReferences(c, Caught(checkElementTag(c, v, c.dict.ElementDict[c.doc.name], <<>>, << <<>> >>, 1)))
=============================================================================
