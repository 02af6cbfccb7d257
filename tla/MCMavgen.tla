----------------------------- MODULE MCMavgen ------------------------------
(* An instance of Mavgen for TLC, in four families of jobs: every small     *)
(* content model with every short word; schemas with attributes, keys,      *)
(* derived types and several files; definitions for the generators; and     *)
(* streams for the dissector.                                               *)
EXTENDS Mavgen

Upto(S, k) == UNION {[1 .. j -> S] : j \in 0 .. k}

----------------------------------------------------------------------------
(* Schema nodes and documents.                                              *)

X(tag, at, kids) == [tag |-> tag, at |-> at, kids |-> kids]
Occurs(x, min, max) == [x EXCEPT !.at = ("minOccurs" :> min) @@ ("maxOccurs" :> max) @@ @]
Xs(type) == <<"xs", type>>
Local(name) == <<None, name>>
Elt(name, type) == X("element", ("name" :> name) @@ ("type" :> type), <<>>)
EltOf(name, kids) == X("element", "name" :> name, kids)
Complex(kids) == X("complexType", Empty, kids)
Typedef(name, kids) == X("complexType", "name" :> name, kids)
Seq2(kids) == X("sequence", Empty, kids)
Attribute(name, type) == X("attribute", ("name" :> name) @@ ("type" :> type), <<>>)
With(x, a, val) == [x EXCEPT !.at = (a :> val) @@ @]
Schema(top) == [root |-> "xs", ns |-> None, form |-> "unqualified", attrForm |-> "unqualified", top |-> top]

Node(name, at, text, kids) == [name |-> name, at |-> at, text |-> text, kids |-> kids]
Leaf(name) == Node(<<None, name>>, Empty, "", <<>>)
Tree(name, kids) == Node(<<None, name>>, Empty, "", kids)
Plain(name, at, kids) == Node(<<None, name>>, [a \in {<<None, b>> : b \in DOMAIN at} |-> at[a[2]]], "", kids)

Job(docs, xmlDef, schema, lang, mergeExt, stream) ==
    [docs |-> docs, xmlDef |-> xmlDef, outputDir |-> TRUE, schema |-> schema, lang |-> lang, mergeExt |-> mergeExt,
     stream |-> stream]
Validated(schema, document) == Job("common" :> document, <<"common">>, schema, "C++", FALSE, <<>>)

Strings == {"", "x", "y", "1", "01", "7"}
MCBuiltin ==
    LET integers == "1" :> "int1" @@ "01" :> "int1" @@ "7" :> "int7"
    IN (Xs("string") :> [s \in Strings |-> s]) @@ (Xs("integer") :> integers)

----------------------------------------------------------------------------
(* Content models.                                                          *)

Counts == <<<<1, 1>>, <<0, 1>>, <<0, Unbounded>>, <<1, 2>>, <<2, 2>>>>
Count(x, k) == Occurs(x, Counts[k][1], Counts[k][2])
Letter(name) == Elt(name, Xs("string"))
Pair(tag, p, q) == X(tag, Empty, <<p, q>>)

\* Digit d of k, of those that have the given numbers of values.
Digit(k, radix, d) == 1 + ((k \div FoldLeft(LAMBDA a, b : a * b, 1, SubSeq(radix, 1, d - 1))) % radix[d])
Numbers(radix) == 0 .. FoldLeft(LAMBDA a, b : a * b, 1, radix) - 1
Tags == <<"sequence", "choice">>

\* Two letters in a sequence or in a choice, all with any counts.
FlatRadix == <<2, 5, 5, 2, 5>>
FlatModel(k) ==
    LET d(i) == Digit(k, FlatRadix, i)
    IN Count(Pair(Tags[d(1)], Count(Letter("a"), d(3)), Count(Letter(<<"a", "b">>[d(4)]), d(5))), d(2))
\* A pair in a pair.
DeepRadix == <<2, 2, 2, 3, 2, 4, 2>>
DeepModel(k) ==
    LET d(i) == Digit(k, DeepRadix, i)
        inner == Count(Pair(Tags[d(3)], Count(Letter("a"), d(5)), Letter("b")), d(4))
        other == <<Letter("a"), Count(Letter("b"), 2), Pair("choice", Letter("b"), Count(Letter("a"), 2)), Pair("sequence", Letter("b"), Letter("a"))>>
    IN Count(IF d(7) = 1 THEN Pair(Tags[d(1)], inner, other[d(6)]) ELSE Pair(Tags[d(1)], other[d(6)], inner), d(2))
All(k) ==
    LET d(i) == Digit(k, <<2, 2, 2>>, i)
    IN Count(Pair("all", Count(Letter("a"), d(1)), Count(Letter("b"), d(2))), d(3))
AnyElement(at) == Count(X("any", at, <<>>), 3)
Wildcard(process) == AnyElement("processContents" :> process)
OtherModels ==
    [k \in 1 .. 8 |-> All(k - 1)]
    \o <<Seq2(<<Wildcard("skip"), Letter("b")>>), Seq2(<<Wildcard("lax")>>), Seq2(<<Letter("a"), Wildcard("skip")>>),
         Seq2(<<Letter("a"), Wildcard("lax")>>), Seq2(<<Letter("a"), Wildcard("strict")>>),
         Seq2(<<AnyElement(Empty)>>)>>
ModelSchema(p) == Schema(<<EltOf("r", <<Complex(<<p>>)>>), Elt("b", Xs("string"))>>)
Words == {Tree("r", [k \in DOMAIN w |-> Leaf(w[k])]) : w \in Upto({"a", "b"}, 3)}
         \cup {Tree("r", <<Tree("a", <<Tree("b", <<Leaf("b")>>)>>)>>), Tree("r", <<Tree("a", <<Tree("a", <<Tree("b", <<Leaf("b")>>)>>)>>)>>)}
\* The schemas of a family by URL, joined piece by piece.
Piece == 20
Family(family, F(_), last) ==
    LET piece(i) == FoldLeft(LAMBDA s, k : (family \o ToString(k)) :> F(k) @@ s, Empty,
                             [j \in 1 .. Min({Piece, last + 1 - i * Piece}) |-> i * Piece + j - 1])
    IN FoldLeft(LAMBDA s, i : piece(i) @@ s, Empty, [i \in 1 .. last \div Piece + 1 |-> i - 1])
ModelTexts ==
    Family("flat", LAMBDA k : ModelSchema(FlatModel(k)), Max(Numbers(FlatRadix))) @@ Family("deep", LAMBDA k : ModelSchema(DeepModel(k)), Max(Numbers(DeepRadix)))
    @@ Family("other", LAMBDA k : ModelSchema(OtherModels[k + 1]), Len(OtherModels) - 1)
ModelUrls(family, last) == {family \o ToString(k) : k \in 0 .. last}
AllModelJobs ==
    [docs : {"common" :> document : document \in Words}, xmlDef : {<<"common">>}, outputDir : {TRUE},
     schema : ModelUrls("flat", Max(Numbers(FlatRadix))) \cup ModelUrls("deep", Max(Numbers(DeepRadix)))
              \cup ModelUrls("other", Len(OtherModels) - 1),
     lang : {"C++"}, mergeExt : {FALSE}, stream : {<<>>}]

----------------------------------------------------------------------------
(* Attributes: IDs, defaults, groups, wildcards, also in a namespace.       *)

Ref(tag, name) == X(tag, "ref" :> Local(name), <<>>)
RefTo(name) == Ref("element", name)
AttributeTop(any) ==
    <<X("attributeGroup", "name" :> "g", <<Attribute("id", Xs("ID")), Attribute("ref", Xs("IDREF"))>>),
      With(Attribute("code", Xs("integer")), "default", "7"),
      Typedef("T", <<Seq2(<<Count(Elt("item", Local("T")), 3)>>), Ref("attributeGroup", "g"),
                     With(Attribute("must", Xs("string")), "use", "required"),
                     With(Attribute("fix", Xs("integer")), "fixed", "1"),
                     With(Attribute("never", Xs("string")), "use", "prohibited"), Ref("attribute", "code")>> \o any),
      Elt("r", Local("T"))>>
AnyAttribute(process, namespace) == <<X("anyAttribute", ("processContents" :> process) @@ ("namespace" :> namespace), <<>>)>>
AttributeTexts ==
    "attrs" :> Schema(AttributeTop(<<>>))
    @@ "attrsLax" :> Schema(AttributeTop(AnyAttribute("lax", {"##any"})))
    @@ "attrsStrict" :> Schema(AttributeTop(AnyAttribute("strict", {"##other"})))
    @@ "attrsSkip" :> Schema(AttributeTop(AnyAttribute("skip", {"##local", "o"})))
NoName(at) == [a \in {<<None, b>> : b \in DOMAIN at} |-> at[a[2]]]
GivenAttributes ==
    {NoName(("must" :> "x") @@ at) :
        at \in {Empty, "id" :> "x", "id" :> "y", "ref" :> "x", ("id" :> "x") @@ ("ref" :> "y"), "fix" :> "01", "fix" :> "7",
                "never" :> "", "code" :> "1", "code" :> "x", "other" :> "x"}}
    \cup {Empty, (<<"o", "other">> :> "x") @@ (<<None, "must">> :> ""), <<"o", "must">> :> "x"}
Items(at, bt, ct) == Node(<<None, "r">>, at, "", <<Node(<<None, "item">>, bt, "", <<>>), Node(<<None, "item">>, ct, "", <<>>)>>)
AttributeJobs ==
    {Validated(schema, Items(at, bt, ct)) : schema \in {"attrs"},
        at \in {NoName("must" :> "x"), NoName(("must" :> "x") @@ ("ref" :> "y"))}, bt, ct \in GivenAttributes}
    \cup {Validated(schema, Node(<<None, "r">>, at, "", <<>>)) : schema \in DOMAIN AttributeTexts, at \in GivenAttributes}

----------------------------------------------------------------------------
(* Keys.                                                                    *)

Selector(step) == X("selector", "steps" :> <<step>>, <<>>)
Field(steps, attr) == X("field", ("steps" :> steps) @@ (IF attr = None THEN Empty ELSE "attr" :> <<None, attr>>), <<>>)
KeyTop ==
    <<X("element", "name" :> "r",
        <<Complex(<<Seq2(<<Count(Elt("item", Local("Item")), 3), Count(Elt("use", Local("Use")), 3)>>)>>),
          X("key", "name" :> "k", <<Selector("item"), Field(<<>>, "k")>>),
          X("unique", "name" :> "u", <<Selector("item"), Field(<<"sub">>, None)>>),
          X("keyref", ("name" :> "ku") @@ ("refer" :> Local("k")), <<Selector("use"), Field(<<>>, "k")>>),
          X("keyref", ("name" :> "uu") @@ ("refer" :> Local("u")), <<Selector("use"), Field(<<>>, "u")>>)>>),
      Typedef("Item", <<Seq2(<<Count(Elt("sub", Xs("integer")), 3)>>), Attribute("k", Xs("integer"))>>),
      Typedef("Use", <<Attribute("k", Xs("integer")), Attribute("u", Xs("integer"))>>)>>
Item(k, subs) == Node(<<None, "item">>, IF k = "" THEN Empty ELSE <<None, "k">> :> k, "",
                      [j \in DOMAIN subs |-> Node(<<None, "sub">>, Empty, subs[j], <<>>)])
KeyItems == {Item(k, subs) : k \in {"", "1", "01"}, subs \in {<<>>, <<"7">>, <<"1">>}} \cup {Item("7", <<>>), Item("x", <<"1", "7">>)}
UseNodes == {Node(<<None, "use">>, IF a = "" THEN Empty ELSE <<None, a>> :> val, "", <<>>) : a \in {"", "k", "u"}, val \in {"1", "7"}}
KeyJobs ==
    {Validated("keys", Tree("r", items \o uses)) : items \in Upto(KeyItems, 2), uses \in Upto(UseNodes, 1)}

\* The element and the attribute that are the fields of a key and of a
\* reference to it, with types of all sorts.
Derived(kind, tag, base, kids) == <<X(kind, Empty, <<X(tag, "base" :> base, kids)>>)>>
SubKinds ==
    <<Elt("sub", Xs("integer")), Elt("sub", Local("Seven")), Elt("sub", Local("Num")), Elt("sub", Local("Less")),
      Elt("sub", Local("Mixed")), Elt("sub", Local("Plain")), EltOf("sub", <<>>), X("any", "processContents" :> "skip", <<>>),
      Elt("sub", Xs("string"))>>
UseKinds == <<Attribute("u", Xs("integer")), Attribute("u", Local("Odd")), Attribute("u", Xs("string")), X("attribute", "name" :> "u", <<>>)>>
FieldRadix == <<9, 4>>
FieldTop(k) ==
    <<X("element", "name" :> "r",
        <<Complex(<<Seq2(<<Count(EltOf("item", <<Complex(<<Seq2(<<SubKinds[Digit(k, FieldRadix, 1)]>>)>>)>>), 3), Count(Elt("use", Local("Use")), 3)>>)>>),
          X("unique", "name" :> "u", <<Selector("item"), Field(<<"sub">>, None)>>),
          X("keyref", ("name" :> "uu") @@ ("refer" :> Local("u")), <<Selector("use"), Field(<<>>, "u")>>)>>),
      Typedef("Use", <<UseKinds[Digit(k, FieldRadix, 2)]>>),
      X("simpleType", ("name" :> "Seven") @@ ("base" :> Xs("integer")) @@ ("enumeration" :> {"int7"}), <<>>),
      X("simpleType", ("name" :> "Odd") @@ ("base" :> Xs("integer")), <<>>),
      Typedef("Num", Derived("simpleContent", "extension", Xs("integer"), <<>>)),
      Typedef("Less", Derived("simpleContent", "restriction", Local("Num"), <<>>)),
      With(Typedef("Mixed", <<Seq2(<<>>)>>), "mixed", "true"), Typedef("Plain", <<Seq2(<<>>)>>)>>
FieldTexts == Family("fields", LAMBDA k : Schema(FieldTop(k)), Max(Numbers(FieldRadix)))
SubNodes == {Node(<<None, "sub">>, at, text, <<>>) : at \in {Empty, XsiType :> Xs("integer")}, text \in {"", "1", "01", "7"}}
FieldJobs ==
    {Validated("fields" \o ToString(k), Tree("r", [j \in DOMAIN subs |-> Tree("item", <<subs[j]>>)] \o uses)) :
        k \in Numbers(FieldRadix), subs \in Upto(SubNodes, 2), uses \in {<<>>, <<Node(<<None, "use">>, NoName("u" :> "7"), "", <<>>)>>}}

\* A key of an element that occurs twice, with a reference to it from the
\* same element or from the one around.
BoxKey(steps) == X("keyref", ("name" :> "ku") @@ ("refer" :> Local("k")), <<X("selector", "steps" :> steps, <<>>), Field(<<>>, "k")>>)
BoxTop(inner, outer) ==
    <<X("element", "name" :> "r", <<Complex(<<Seq2(<<Count(RefTo("box"), 3)>>)>>)>> \o outer),
      X("element", "name" :> "box",
        <<Complex(<<Seq2(<<Count(Elt("item", Local("Item")), 3), Count(Elt("use", Local("Item")), 3)>>)>>),
          X("key", "name" :> "k", <<Selector("item"), Field(<<>>, "k")>>)>> \o inner),
      Typedef("Item", <<Attribute("k", Xs("integer"))>>)>>
BoxTexts ==
    "boxes" :> Schema(BoxTop(<<BoxKey(<<"use">>)>>, <<>>)) @@ "boxesAround" :> Schema(BoxTop(<<>>, <<BoxKey(<<"box", "use">>)>>))
Boxes == {Tree("box", items \o uses) : items \in Upto({Plain("item", "k" :> k, <<>>) : k \in {"1", "7"}}, 2),
                                      uses \in Upto({Plain("use", "k" :> k, <<>>) : k \in {"1", "01", "7"}}, 1)}
BoxJobs == {Validated(schema, Tree("r", boxes)) : schema \in DOMAIN BoxTexts, boxes \in Upto(Boxes, 2)}

----------------------------------------------------------------------------
(* Derived types, xsi:type, nil, mixed and simple content, fixed values.    *)

TypeTop ==
    <<Typedef("Base", <<Seq2(<<Count(Letter("a"), 2)>>), Attribute("p", Xs("integer"))>>),
      Typedef("Ext", Derived("complexContent", "extension", Local("Base"), <<Seq2(<<Letter("b")>>), Attribute("q", Xs("string"))>>)),
      Typedef("Ext2", Derived("complexContent", "extension", Local("Ext"), <<Seq2(<<Count(Letter("a"), 2)>>)>>)),
      Typedef("Less", Derived("complexContent", "restriction", Local("Base"), <<Seq2(<<Letter("a")>>)>>)),
      Typedef("Num", Derived("simpleContent", "extension", Xs("integer"), <<Attribute("p", Xs("integer"))>>)),
      X("simpleType", ("name" :> "Seven") @@ ("base" :> Xs("integer")) @@ ("enumeration" :> {"int7"}), <<>>),
      X("group", "name" :> "G", <<Seq2(<<Count(Letter("a"), 2), Letter("b")>>)>>),
      EltOf("r", <<Complex(<<Seq2(<<X("choice", Empty,
        <<With(Elt("e", Local("Base")), "nillable", "true"), Elt("n", Local("Num")), Elt("s", Local("Seven")),
          With(Elt("f", Xs("integer")), "fixed", "1"), With(Elt("d", Xs("integer")), "default", "x"),
          With(EltOf("m", <<With(Complex(<<Seq2(<<Count(Letter("a"), 3)>>)>>), "mixed", "true")>>), "default", "x"),
          EltOf("g", <<Complex(<<Ref("group", "G")>>)>>), EltOf("u", <<>>), Ref("element", "top"),
          EltOf("i", <<X("simpleType", "base" :> Local("Seven"), <<>>)>>),
          With(With(Elt("z", Xs("integer")), "nillable", "true"), "fixed", "1")>>)>>)>>)>>),
      Elt("top", Xs("string"))>>
Texts == {"", "x", "1", "01", "7"}
XsiTypes == {Empty} \cup {XsiType :> Local(t) : t \in {"Base", "Ext", "Ext2", "Less", "Num", "None"}} \cup {XsiType :> Xs("integer")}
Nils == {Empty, XsiNil :> "true", XsiNil :> "false"}
P == {Empty, NoName("p" :> "1"), NoName("p" :> "x"), NoName("q" :> "x")}
Kids(k) == {[j \in DOMAIN w |-> Leaf(w[j])] : w \in Upto({"a", "b"}, k)}
TypedNodes ==
    {Node(<<None, "e">>, t @@ nil @@ p, "", kids) : t \in XsiTypes, nil \in Nils, p \in P, kids \in Kids(2)}
    \cup {Node(<<None, "e">>, XsiType :> Local(t), text, kids) : t \in {"Ext", "Ext2"}, text \in {"", "x"}, kids \in Kids(3)}
    \cup {Node(<<None, name>>, at, text, kids) : name \in {"e", "n", "s", "f", "d", "m", "g", "u", "top", "i", "z", "q"},
                                               at \in Nils \cup P \cup {XsiType :> Xs("integer")}, text \in Texts, kids \in Kids(1)}
    \cup {Tree("g", kids) : kids \in Kids(3)}
TypeJobs == {Validated("types", Tree("r", <<node>>)) : node \in TypedNodes}

----------------------------------------------------------------------------
(* Schemas in several files: two directives around the declaration of the   *)
(* root, in a namespace or in none.                                         *)

Include(url) == X("include", "schemaLocation" :> url, <<>>)
Import(namespace, url) == X("import", ("namespace" :> namespace) @@ ("schemaLocation" :> url), <<>>)
Redefine(url, kids) == X("redefine", "schemaLocation" :> url, kids)
Again(ns) == X("complexType", "name" :> "T", Derived("complexContent", "extension", <<ns, "T">>, <<Seq2(<<Letter("b")>>)>>))
PartT == <<Include("partU"), Elt("a", Local("T")), Typedef("T", <<Seq2(<<Count(Letter("b"), 2)>>)>>), Import("o", "imported")>>
PartU == <<Include("partT"), X("simpleType", ("name" :> "U") @@ ("base" :> Xs("integer")), <<>>), Elt("c", Local("U")),
           X("group", "name" :> "G", <<Seq2(<<Letter("b")>>)>>)>>
Imported == <<Elt("a", Xs("integer")), Attribute("at", Xs("string")), X("include", Empty, <<>>)>>
Directive(ns) ==
    <<Include("partT"), Include("partU"), Import("o", "imported"), Import("o", "others"), Import("xsi", "instance"),
      Redefine("partT", <<Again(ns), X("annotation", Empty, <<>>)>>),
      Redefine("partU", <<Again(ns)>>), Redefine("partU", <<X("attribute", "name" :> "at", <<>>)>>),
      Redefine("partT", <<Letter("a")>>), Include("nowhere"), Include("others"), X("import", Empty, <<>>), X("import", "namespace" :> "t", <<>>),
      Typedef("T", <<Letter("a")>>), Include("page")>>
FileRadix == <<2, 15, 15>>
MainFile(k) ==
    LET d(i) == Digit(k, FileRadix, i)
        ns == IF d(1) = 1 THEN None ELSE "t"
    IN [Schema(<<Directive(ns)[d(2)], EltOf("r", <<Complex(<<Seq2(<<Wildcard("lax")>>)>>)>>), Directive(ns)[d(3)]>>) EXCEPT !.ns = ns]
\* A file that is redefined and then included leaves a type without a base.
MainFiles == {k \in Numbers(FileRadix) : MainFile(k).top[1].tag = "redefine" => MainFile(k).top[3].tag # "include"}
FileTexts ==
    Family("files", MainFile, Max(Numbers(FileRadix))) @@ "partT" :> Schema(PartT) @@ "partU" :> Schema(PartU)
    @@ "imported" :> [Schema(SubSeq(Imported, 1, 2)) EXCEPT !.ns = "o"] @@ "others" :> [Schema(Imported) EXCEPT !.ns = "o"]
    @@ "page" :> [Schema(<<>>) EXCEPT !.root = "html"]
FileDoc(ns) ==
    Node(<<ns, "r">>, Empty, "", <<Node(<<ns, "a">>, Empty, "", <<Leaf("b")>>), Node(<<"o", "a">>, Empty, "1", <<>>), Node(<<ns, "c">>, Empty, "1", <<>>)>>)
Located(a, words) == [FileDoc(None) EXCEPT !.at = <<"xsi", a>> :> words]
FileJobs ==
    {Validated("files" \o ToString(k), FileDoc(MainFile(k).ns)) : k \in MainFiles}
    \cup {Validated("files0", Located("schemaLocation", words)) :
             words \in {<<"o">>, <<"t", "files1">>, <<"t", "files0">>, <<"o", "imported", "t", "files1">>, <<"o", "nowhere">>}}
    \cup {Validated("types", Located("noNamespaceSchemaLocation", urls)) : urls \in {<<"files0">>, <<"keys", "files60">>}}

----------------------------------------------------------------------------
(* Definitions.                                                             *)

EntryNode(name, val) == Plain("entry", ("name" :> name) @@ (IF val = NoArray THEN Empty ELSE "value" :> val), <<>>)
EnumNode(name, entries) == Plain("enum", "name" :> name, entries)
FieldNode(name, type) == [Plain("field", ("name" :> name) @@ ("type" :> type), <<>>) EXCEPT !.text = "x"]
MessageNode(name, id, kids) == Plain("message", ("name" :> name) @@ ("id" :> id), <<Leaf("description")>> \o kids)
Definitions(enums, messages) == Tree("mavlink", <<Tree("enums", enums), Tree("messages", messages)>>)
Languages == {"C++", "Lua", "Python"}

FieldTypes == {<<"uint8_t", NoArray>>, <<"uint16_t", NoArray>>, <<"float", 2>>, <<"char", 3>>}
OddTypes == {<<"uint8_t_mavlink_version", NoArray>>, <<"double", 1>>, <<"char", 0>>, <<"int8_t", 0>>, <<"char", NoArray>>, <<"array", 3>>}
FieldNames == <<"frame", "DEBUG", "third">>
Extended(fields, k) == IF k > Len(fields) THEN fields ELSE InsertAt(fields, k, Leaf("extensions"))
FieldLists ==
    {Extended([j \in DOMAIN types |-> FieldNode(FieldNames[j], types[j])], k) : types \in Upto(FieldTypes, 3), k \in {2, 3, 4}}
    \cup {[j \in DOMAIN types |-> FieldNode(FieldNames[j], types[j])] : types \in [1 .. 2 -> FieldTypes \cup OddTypes]}
    \cup {<<Plain("field", "name" :> "a", <<>>)>>, <<[FieldNode("a", <<"char", 3>>) EXCEPT !.text = ""]>>}
MessageJobs ==
    {Job("common" :> Definitions(<<>>, <<MessageNode("MISSION_ACK", 1, fields), MessageNode("DEBUG", 2, <<>>)>>), <<"common">>,
         None, lang, FALSE, <<>>) : fields \in FieldLists, lang \in Languages}

\* An enumeration in two files, and messages beside it.
Listed(name, values) == [k \in DOMAIN values |-> EntryNode(name \o ToString(k), values[k])]
Doc1(values) == Definitions(<<EnumNode("E", Listed("A", values)), EnumNode("DEBUG", Listed("D", <<3, NoArray>>))>>, <<MessageNode("M", 1, <<>>)>>)
Doc2(name, values, msg, id) == Definitions(<<EnumNode("E", Listed(name, values))>>, <<MessageNode(msg, id, <<FieldNode("f", <<"uint8_t", 2>>)>>)>>)
Values == {NoArray, 0, 5}
FilePairs == {<<"common", "copy">>, <<"common", "ardupilotmega">>, <<"ardupilotmega", "sphengineering">>, <<"common", "other">>, <<"common", "common">>}
Both(files, d1, d2) == (files[2] :> d2) @@ (files[1] :> d1)
EnumJobs ==
    {Job(Both(files, Doc1(v), Doc2(name, w, "N", 2)), files, None, lang, merge, <<>>) :
        files \in FilePairs, v \in Upto(Values, 2), w \in Upto(Values, 1), name \in {"B"}, lang \in Languages, merge \in BOOLEAN}
    \cup {Job(Both(files, Doc1(<<0, 5>>), Doc2(name, <<5>>, msg, id)), files, None, lang, merge, <<>>) :
        files \in FilePairs, name \in {"A", "B"}, msg \in {"M", "N"}, id \in {1, 2}, lang \in Languages \cup {"Java"}, merge \in BOOLEAN}
Faulty ==
    {Definitions(<<EnumNode("E", Listed("A", <<1>>) \o Listed("A", <<2>>))>>, <<>>), Tree("mavlink", <<>>),
     Definitions(<<Plain("enum", Empty, <<>>)>>, <<>>),
     Definitions(<<EnumNode("E", <<[EntryNode("A", 1) EXCEPT !.kids = <<Plain("param", "index" :> 1, <<>>), Plain("param", "index" :> 1, <<>>)>>]>>)>>, <<>>),
     Definitions(<<>>, <<Plain("message", "name" :> "M", <<>>)>>)}
OtherJobs ==
    {Job("common" :> d, <<"common">>, None, "C++", FALSE, <<>>) : d \in Faulty}
    \cup {Job(Empty, <<>>, None, "C++", FALSE, <<>>), [Job("common" :> Tree("mavlink", <<>>), <<"common">>, None, "C++", FALSE, <<>>) EXCEPT !.outputDir = FALSE]}

\* The message part of resources/mavlink/mavschema.xsd: what it admits is
\* generated.
Mandatory(x) == With(x, "use", "required")
Attr1(name) == X("attribute", "name" :> name, <<>>)
MavTop ==
    <<EltOf("mavlink", <<Complex(<<Seq2(<<Count(RefTo("enums"), 2), RefTo("messages")>>)>>)>>),
      EltOf("enums", <<Complex(<<Seq2(<<Count(RefTo("enum"), 3)>>)>>)>>), EltOf("messages", <<Complex(<<Seq2(<<Count(RefTo("message"), 3)>>)>>)>>),
      EltOf("enum", <<Complex(<<Seq2(<<Count(RefTo("description"), 2), Occurs(RefTo("entry"), 1, Unbounded)>>), Mandatory(Attr1("name"))>>)>>),
      EltOf("entry", <<Complex(<<Seq2(<<Count(RefTo("description"), 2)>>), Attr1("value"), Mandatory(Attr1("name"))>>)>>),
      EltOf("message", <<Complex(<<Seq2(<<
          Seq2(<<Count(X("choice", Empty, <<RefTo("deprecated"), RefTo("wip")>>), 2), RefTo("description"), Count(RefTo("field"), 3)>>),
          Count(Seq2(<<RefTo("extensions"), Occurs(RefTo("field"), 1, Unbounded)>>), 2)>>),
          Mandatory(Attr1("id")), Mandatory(Attr1("name"))>>)>>),
      EltOf("field", <<With(Complex(<<Seq2(<<Count(RefTo("description"), 2)>>), Mandatory(Attr1("type")), Mandatory(Attr1("name"))>>), "mixed", "true")>>),
      EltOf("extensions", <<>>), Elt("description", Xs("string")), Elt("deprecated", Xs("string")), Elt("wip", Xs("string"))>>
MavWords == Upto({Leaf("wip"), Leaf("description"), Leaf("extensions"), FieldNode("a", <<"uint16_t", NoArray>>)}, 3)
MavJobs ==
    {Job(Both(<<"common", "other">>, Definitions(<<EnumNode("E", <<EntryNode("A", 1)>>)>>, <<Plain("message", ("name" :> "M") @@ ("id" :> 1), w)>>),
              Tree("mavlink", <<Tree("messages", <<>>)>>)),
         files, "mav", "C++", FALSE, <<>>) : w \in MavWords, files \in {<<"common", "other">>, <<"other", "common">>}}

----------------------------------------------------------------------------
(* Streams: pieces that are frames of either version, whole or not, known   *)
(* or not, and other bytes.                                                 *)

StreamDoc ==
    Definitions(<<>>, <<MessageNode("M", 1, <<FieldNode("a", <<"uint8_t", NoArray>>), FieldNode("b", <<"uint16_t", NoArray>>),
                                             Leaf("extensions"), FieldNode("c", <<"char", 2>>)>>),
                       MessageNode("N", 257, <<FieldNode("a", <<"uint8_t", 2>>)>>)>>)
V1(id, payld) == <<Magic1, Len(payld), 9, 8, 7, id>> \o payld \o <<Magic2, 6>>
V2(low, high, payld) == <<Magic2, Len(payld), 0, 0, 9, 8, 7, low, high, 0>> \o payld \o <<5, Magic1>>
Pieces == {V1(1, <<1, 2, 3>>), V1(1, <<1, 2, 3, 4, 5, 6>>), V2(1, 0, <<4>>), V2(1, 1, <<Magic1, 0>>), V1(3, V1(1, <<>>)), <<0>>, <<Magic1>>, <<Magic2, 0>>}
StreamJobs ==
    {Job("common" :> StreamDoc, <<"common">>, None, "Lua", FALSE, p \o q) : p, q \in Pieces}

MCSchemaTexts ==
    LET single == ("keys" :> Schema(KeyTop)) @@ ("types" :> Schema(TypeTop)) @@ ("mav" :> Schema(MavTop))
    IN ModelTexts @@ AttributeTexts @@ FieldTexts @@ BoxTexts @@ FileTexts @@ single
MCBaseName == [f \in {"common", "copy", "ardupilotmega", "sphengineering", "other"} |-> IF f = "copy" THEN "common" ELSE f]
MCJobs == <<AllModelJobs, AttributeJobs, KeyJobs, FieldJobs, BoxJobs, TypeJobs, FileJobs, MessageJobs, EnumJobs, OtherJobs, MavJobs, StreamJobs>>
=============================================================================
