------------------------------ MODULE XsSchema ------------------------------
(* genxmlif and the schema loading part of minixsv: the trees that schema   *)
(* files are parsed into, with the cache of children that every element     *)
(* keeps, the error handler, and the expansion of include, redefine and     *)
(* import into one tree and its lookup tables.                              *)
(*                                                                          *)
(* A node of a schema is [tag, at, kids, id]: at maps its attributes to     *)
(* their values, id is the file and the place in it where it was parsed.    *)
(* Only the children of a root or of a redefine are ever moved, so a tree   *)
(* keeps lists of children, and caches of them, for these alone.            *)
(* QNames are pairs of a namespace and a local name.                        *)
EXTENDS XmlNodes

CONSTANTS SchemaTexts,   \* schema files by URL: [root, ns, form, attrForm, top]
          ErrorLimit     \* the number of errors that ends a validation, 20

\* TLC evaluates a definition once, and a constant wherever it occurs.
Schemas == SchemaTexts

Has(x, a) == a \in DOMAIN x.at
At(x, a, default) == IF Has(x, a) THEN x.at[a] ELSE default
Position(s, e) == CHOOSE i \in 1 .. Len(s) : s[i] = e

----------------------------------------------------------------------------
(* ErrorHandler, for a record with the fields errors and abort.             *)

hasErrors(s) == s.errors > 0

addError(s) ==
    [s EXCEPT !.errors = Min({@ + 1, ErrorLimit}), !.abort = @ \/ s.errors + 1 >= ErrorLimit]

raiseError(s) == [addError(s) EXCEPT !.abort = TRUE]

\* flushOutput raises XsvalError.
flushOutput(s) == [s EXCEPT !.abort = @ \/ hasErrors(s)]

----------------------------------------------------------------------------
(* Element wrappers: children and their cache.                              *)

xmlIfExtGetChildren(t, p, tag) == SelectSeq(t.kids[p], LAMBDA c : t.node[c].tag = tag)

getChildren(t, p, tag) ==
    IF tag \in DOMAIN t.cache[p] THEN t.cache[p][tag] ELSE xmlIfExtGetChildren(t, p, tag)
keepChildren(t, p, tag) == [t EXCEPT !.cache[p] = (tag :> getChildren(t, p, tag)) @@ @]

clearChildrenCache(t, p, tags) ==
    [t EXCEPT !.cache[p] = [tag \in DOMAIN @ \ tags |-> t.cache[p][tag]]]

insertBefore(t, p, c, ref) ==
    clearChildrenCache([t EXCEPT !.kids[p] = InsertAt(@, Position(@, ref), c)], p, {t.node[c].tag})

removeChild(t, p, c) ==
    clearChildrenCache([t EXCEPT !.kids[p] = SelectSeq(@, LAMBDA k : k # c)], p, {t.node[c].tag})

xmlIfExtInsertSubtree(t, p, ref, sub) ==
    LET k == Position(t.kids[p], ref)
    IN [t EXCEPT !.kids[p] = SubSeq(@, 1, k - 1) \o t.kids[sub] \o SubSeq(@, k, Len(@)),
                 !.kids[sub] = <<>>]

\* Only the cache of the include that is replaced is cleared.
insertSubtree_KeepsCache(t, p, ref, sub) ==
    clearChildrenCache(xmlIfExtInsertSubtree(t, p, ref, sub), p, {t.node[ref].tag})
insertSubtree(t, p, ref, sub) ==
    clearChildrenCache(xmlIfExtInsertSubtree(t, p, ref, sub), p, DOMAIN t.cache[p])

----------------------------------------------------------------------------
(* Parsing a schema file.                                                   *)

\* _initInternalAttributes: every node knows the root of its file.
RECURSIVE initInternalAttributes(_, _)
initInternalAttributes(x, id) ==
    [tag |-> x.tag, at |-> x.at, id |-> id,
     kids |-> [k \in DOMAIN x.kids |-> initInternalAttributes(x.kids[k], Append(id, k))]]

\* The tree of a file: ns is the target namespace of each file in it, dns
\* the namespace of the names without a prefix.
parse(url) ==
    LET doc == Schemas[url]
        tops == {<<url, i>> : i \in DOMAIN doc.top}
        redefines == {c \in tops : doc.top[c[2]].tag = "redefine"}
        inner(c) == {Append(c, j) : j \in DOMAIN doc.top[c[2]].kids}
        nodes == [c \in tops |-> initInternalAttributes(doc.top[c[2]], c)]
    IN [kids |-> (<<url>> :> [i \in DOMAIN doc.top |-> <<url, i>>])
                 @@ [c \in redefines |-> [j \in DOMAIN doc.top[c[2]].kids |-> Append(c, j)]],
        cache |-> [p \in {<<url>>} \cup redefines |-> Empty],
        node |-> nodes @@ [c \in UNION {inner(r) : r \in redefines} |-> nodes[<<c[1], c[2]>>].kids[c[3]]],
        ns |-> url :> doc.ns, dns |-> url :> None]
join(t, sub) == [f \in DOMAIN t |-> t[f] @@ sub[f]]

----------------------------------------------------------------------------
(* Lookup tables.  l is the state of a validator that loads its schemas:    *)
(* the tree t, the tables dict and the set included of files.               *)

SchemaTags == <<"element", "complexType", "simpleType", "group", "attributeGroup", "attribute">>
DictOf(tag) ==
    CASE tag = "element" -> "ElementDict"
      [] tag \in {"complexType", "simpleType"} -> "TypeDict"
      [] tag = "group" -> "GroupDict"
      [] tag = "attributeGroup" -> "AttrGroupDict"
      [] tag = "attribute" -> "AttributeDict"

getTargetNamespace(t, x) == t.ns[x.id[1]]
getQNameAttribute(t, x, a) == IF x.at[a][1] = None THEN [x.at[a] EXCEPT ![1] = t.dns[x.id[1]]] ELSE x.at[a]

\* _updateLookupTables: the first definition of a name is kept.
enterComponent(dict, n, key, x) == IF key \in DOMAIN dict[n] THEN dict ELSE [dict EXCEPT ![n] = (key :> x) @@ @]
enterComponents(t, dict, list) ==
    FoldLeft(LAMBDA d, c : enterComponent(d, DictOf(t.node[c].tag), <<getTargetNamespace(t, t.node[c]), t.node[c].at["name"]>>, t.node[c]),
             dict, list)
enterChildren(l, t, p) ==
    [l EXCEPT !.t = t,
              !.dict = enterComponents(t, @, FlattenSeq([k \in DOMAIN SchemaTags |-> getChildren(t, p, SchemaTags[k])]))]
updateLookupTables(l, url) ==
    enterChildren(l, FoldLeft(LAMBDA s, tag : keepChildren(s, <<url>>, tag), l.t, SchemaTags), <<url>>)

----------------------------------------------------------------------------
(* include, redefine and import.                                            *)

RECURSIVE includeAndImport(_, _)

\* The tree of a file, in the namespace that it is included into.
adaptTargetNamespace(url, namespace) ==
    [parse(url) EXCEPT !.ns[url] = namespace, !.dns[url] = IF Schemas[url].ns = None THEN namespace ELSE @]
insertFile(l, url, ref, includeUrl) ==
    IF l.abort THEN l ELSE [l EXCEPT !.t = insertSubtree(@, <<url>>, ref, <<includeUrl>>)]

\* _includeSchemaFile for a node ref of the file url.
includeSchemaFile(l, url, ref, expNamespace, includeUrl, adapt) ==
    LET doc == Schemas[includeUrl]
        known == [l EXCEPT !.included = @ \cup {includeUrl}]
    IN IF includeUrl = None THEN raiseError(l)
       ELSE IF includeUrl \in l.included THEN l
       ELSE IF includeUrl \notin DOMAIN Schemas THEN raiseError(l)
       ELSE IF \/ doc.root # Schemas[url].root \/ doc.ns \notin {None, expNamespace}
               \/ doc.ns = None /\ expNamespace # None /\ ~adapt
       THEN raiseError(known)
       ELSE insertFile(includeAndImport(updateLookupTables([known EXCEPT !.t = join(@, adaptTargetNamespace(includeUrl, expNamespace))],
                                                           includeUrl), includeUrl),
                       url, ref, includeUrl)

\* A pass over the nodes of a file with the given tag, listed before the
\* first one is expanded, that an exception ends.
ForEach(l, url, tag, Expand(_, _)) ==
    FoldLeft(LAMBDA m, ref : IF m.abort THEN m ELSE Expand(m, ref),
             [l EXCEPT !.t = keepChildren(@, <<url>>, tag)], getChildren(l.t, <<url>>, tag))

\* The step of the loop that drops the directive, unless it raised.
Dropped(l, url, ref) == IF l.abort THEN l ELSE [l EXCEPT !.t = removeChild(@, <<url>>, ref)]

includeFor(l, url, ref) == includeSchemaFile(l, url, ref, l.t.ns[url], At(l.t.node[ref], "schemaLocation", None), TRUE)
expandIncludes(l, url) == ForEach(l, url, "include", LAMBDA m, ref : Dropped(includeFor(m, url, ref), url, ref))

\* base and ref of a redefined component name the original one from now on.
RECURSIVE renameOriginal(_, _, _)
renameOriginal(t, x, name) ==
    [x EXCEPT !.at = [a \in DOMAIN @ |-> IF a \in {"base", "ref"} /\ getQNameAttribute(t, x, a) = name
                                         THEN Append(x.at[a], "__ORG") ELSE x.at[a]],
              !.kids = [k \in DOMAIN @ |-> renameOriginal(t, x.kids[k], name)]]

\* One child c of a redefine.  The test for an attributeGroup is one for a
\* part of that word.
redefine(l, url, ref, c) ==
    LET moved == [l EXCEPT !.t = insertBefore(removeChild(@, ref, c), <<url>>, c, ref)]
        x == l.t.node[c]
        kind == IF x.tag = "attribute" THEN "attributeGroup" ELSE x.tag
        name == <<l.t.ns[url], x.at["name"]>>
        renamed == renameOriginal(l.t, x, name)
        n == DictOf(kind)
        original == Append(name, "__ORG")
    IN IF x.tag = "annotation" THEN moved
       ELSE IF kind \notin {"complexType", "simpleType", "attributeGroup", "group"} THEN addError(moved)
       ELSE LET m == [moved EXCEPT !.t.node[c] = renamed]
            IN IF name \notin DOMAIN l.dict[n] THEN addError(m)
               ELSE [m EXCEPT !.dict[n] = (name :> renamed) @@ @ @@ (original :> @[name])]

redefineAll(l, url, ref) == FoldLeft(LAMBDA m, c : IF m.abort THEN m ELSE redefine(m, url, ref, c), l, l.t.kids[ref])
expandRedefines(l, url) ==
    ForEach(l, url, "redefine", LAMBDA m, ref : Dropped(redefineAll(includeFor(m, url, ref), url, ref), url, ref))

\* The namespaces of xml and xsi are never loaded.
importFor(l, url, ref, namespace, location) ==
    IF namespace = getTargetNamespace(l.t, l.t.node[ref]) THEN addError(l)
    ELSE Dropped(IF location = None THEN addError(l)
                 ELSE IF namespace \in {"xml", "xsi"} THEN l
                 ELSE includeSchemaFile(l, url, ref, namespace, location, FALSE),
                 url, ref)
expandImports(l, url) ==
    LET namespace(x) == At(x, "namespace", None)
        location(x) == At(x, "schemaLocation", namespace(x))
    IN ForEach(l, url, "import",
               LAMBDA m, ref : importFor(m, url, ref, namespace(m.t.node[ref]), location(m.t.node[ref])))

includeAndImport(l, url) == expandImports(expandRedefines(expandIncludes(l, url), url), url)

----------------------------------------------------------------------------
(* The lookup tables of a validator.                                        *)

\* _importWellknownSchemas: the types every table starts with.
simpleType(name, base) ==
    [tag |-> "simpleType", at |-> ("name" :> name) @@ ("base" :> base), kids |-> <<>>, id |-> <<"xs", name>>]
wxsdLookupDict ==
    [ElementDict |-> Empty, GroupDict |-> Empty, AttrGroupDict |-> Empty, AttributeDict |-> Empty,
     TypeDict |-> (<<"xs", "ID">> :> simpleType("ID", <<"xs", "string">>))
                  @@ (<<"xs", "IDREF">> :> simpleType("IDREF", <<"xs", "string">>))
                  @@ (<<"xs", "unsignedByte">> :> simpleType("unsignedByte", <<"xs", "integer">>))]

\* The schema part of XsValBase.validate for the tree t of the file url, and
\* with the tables so far.
loadSchema(t, url, dict, included, errors) ==
    includeAndImport(
        updateLookupTables([t |-> t, dict |-> dict, included |-> included, errors |-> errors, abort |-> FALSE], url), url)

\* validateXmlSchema: the checks of the schema itself are left out, but not
\* that they expand its tree.  XsValSchema does not count the file itself as
\* included: no file may include or import the one that its tree is for.
validateXmlSchema(url) == flushOutput(loadSchema(parse(url), url, wxsdLookupDict, {}, 0))

----------------------------------------------------------------------------
(* What loading must come to.                                               *)

\* The cache of a root holds what its children are.
Coherent(t, p) == \A tag \in DOMAIN t.cache[p] : t.cache[p][tag] = xmlIfExtGetChildren(t, p, tag)

\* Every component is under the root of its tree or of none other, and no
\* directive is left there.
Directives == {"include", "redefine", "import"}
Flat(t, url) ==
    /\ \A p, q \in DOMAIN t.kids : p # q => ToSet(t.kids[p]) \cap ToSet(t.kids[q]) = {}
    /\ \A c \in DOMAIN t.node :
          t.node[c].tag \notin Directives => Len(SelectSeq(t.kids[<<url>>], LAMBDA k : k = c)) = 1
    /\ \A k \in DOMAIN t.kids[<<url>>] : t.node[t.kids[<<url>>][k]].tag \notin Directives

\* No two components in the tree have a name that makes them one entry.
Distinct(t) ==
    \A c, d \in {e \in DOMAIN t.node : t.node[e].tag \in ToSet(SchemaTags)} :
        c # d => \/ DictOf(t.node[c].tag) # DictOf(t.node[d].tag)
                 \/ <<getTargetNamespace(t, t.node[c]), t.node[c].at["name"]>>
                       # <<getTargetNamespace(t, t.node[d]), t.node[d].at["name"]>>
=============================================================================
