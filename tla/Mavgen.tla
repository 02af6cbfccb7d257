------------------------------- MODULE Mavgen -------------------------------
(* tools/mavgen/mavgen.py as a program: the definition files are validated  *)
(* one after the other with minixsv, then all are parsed, and one generator *)
(* runs.  For Lua the generated dissector then reads a stream of bytes that *)
(* arrives in segments.                                                     *)
EXTENDS XsReference, MavgenDefs, Dissector

CONSTANT Jobs     \* families of [xmlDef, docs, outputDir, schema, lang, mergeExt, stream]

VARIABLES job,     \* the command line, and what the files hold
          pc,      \* what the program does next, "done" or "failed"
          n,       \* the definition file it is at
          trees,   \* the schemas loaded for this file, each when it was checked itself
          chk,     \* the last validation: [c, v, loaded], or None in a tuple
          defs,    \* opts.files, opts.enums and opts.messages
          out      \* the generated text

vars == <<job, pc, n, trees, chk, defs, out, call, shown, pos>>

NotYet == [made |-> FALSE]
path == job.xmlDef[n]
doc == job.docs[path]

Init ==
    /\ \E k \in DOMAIN Jobs : job \in Jobs[k]
    /\ pc = "main" /\ n = 1 /\ trees = <<>> /\ chk = NotYet
    /\ defs = NoDefinitions /\ out = NotYet
    /\ NothingCaptured

\* An exception that nothing catches.
Raise == pc' = "failed"

Main ==
    /\ pc = "main"
    /\ IF job.xmlDef = <<>> \/ ~job.outputDir THEN Raise
       ELSE pc' = IF job.schema # None THEN "validate" ELSE "parse"
    /\ UNCHANGED <<job, n, trees, chk, defs, out, call, shown, pos>>

----------------------------------------------------------------------------
(* ValidateInput.                                                           *)

\* _retrieveReferencedXsdFiles: the words of the two attributes.
Location(a) == IF <<"xsi", a>> \in DOMAIN doc.at THEN doc.at[<<"xsi", a>>] ELSE <<>>
retrieveReferencedXsdFiles ==
    [k \in 1 .. Len(Location("schemaLocation")) \div 2 |->
        [namespace |-> Location("schemaLocation")[2 * k - 1], url |-> Location("schemaLocation")[2 * k]]]
    \o Apply(LAMBDA u : [namespace |-> None, url |-> u], Location("noNamespaceSchemaLocation"))

\* The schema of the command line is for files that refer to none.
SchemaFiles == IF retrieveReferencedXsdFiles # <<>> THEN Apply(LAMBDA r : r.url, retrieveReferencedXsdFiles) ELSE <<job.schema>>

\* validateXmlInput, _readReferencedXsdFiles: the next schema is parsed and
\* is checked itself, which expands its tree.
ReadSchema ==
    /\ pc = "validate" /\ Len(trees) < Len(SchemaFiles)
    /\ LET url == SchemaFiles[Len(trees) + 1]
           refs == retrieveReferencedXsdFiles
           l == validateXmlSchema(url)
       IN IF Len(Location("schemaLocation")) % 2 = 1 \/ url \notin DOMAIN Schemas THEN Raise /\ UNCHANGED trees
          ELSE /\ trees' = Append(trees, [url |-> url, l |-> l])
               /\ IF l.abort \/ (refs # <<>> /\ refs[Len(trees) + 1].namespace # Schemas[url].ns) THEN Raise
                  ELSE UNCHANGED pc
    /\ UNCHANGED <<job, n, chk, defs, out, call, shown, pos>>

\* _validateXmlInput: the trees are loaded again, into new tables.
Reload(l, tree) ==
    IF l.abort THEN l
    ELSE LET next == loadSchema(tree.l.t, tree.url, l.dict, {tree.url}, l.errors) IN [next EXCEPT !.t = join(l.t, @)]
ValidateFile ==
    /\ pc = "validate" /\ Len(trees) = Len(SchemaFiles)
    /\ LET none == [t |-> [f \in DOMAIN trees[1].l.t |-> Empty], dict |-> wxsdLookupDict, errors |-> 0, abort |-> FALSE]
           checked(l, c) == [made |-> TRUE, c |-> c, l |-> l, trees |-> trees,
                             v |-> flushOutput(IF l.abort THEN Start(l) ELSE validate(c, Start(l)))]
           loaded(l) == checked(l, Context(l, doc))
       IN chk' = loaded(FoldLeft(Reload, none, trees))
    /\ IF chk'.v.abort THEN Raise /\ UNCHANGED n
       ELSE IF n < Len(job.xmlDef) THEN n' = n + 1 /\ UNCHANGED pc
       ELSE n' = 1 /\ pc' = "parse"
    /\ trees' = <<>>
    /\ UNCHANGED <<job, defs, out, call, shown, pos>>

----------------------------------------------------------------------------
(* ParseInput and GenerateOutput.                                           *)

ParseInput ==
    /\ pc = "parse"
    /\ defs' = ParseFile(defs, path, doc, job.mergeExt)
    /\ IF defs'.failed THEN Raise /\ UNCHANGED n
       ELSE IF n < Len(job.xmlDef) THEN n' = n + 1 /\ UNCHANGED pc
       ELSE pc' = "generate" /\ UNCHANGED n
    /\ UNCHANGED <<job, trees, chk, out, call, shown, pos>>

\* Dictionaries are gone through in any order.
Orders(S) == {s \in [1 .. Cardinality(S) -> S] : IsInjective(s)}
GenerateOutput ==
    /\ pc = "generate"
    /\ \E enums \in Orders(DOMAIN defs.enums), messages \in Orders(DOMAIN defs.messages), files \in Orders(DOMAIN defs.files) :
          CASE job.lang = "C++" -> out' = [made |-> TRUE, text |-> GenerateCppOutput(defs, files)] /\ pc' = "done"
            [] job.lang = "Python" -> out' = [made |-> TRUE, text |-> GeneratePythonOutput(defs, enums, messages)] /\ pc' = "done"
            [] job.lang = "Lua" ->
                 LET text == GenerateLuaOutput(defs, enums, messages)
                 IN IF text.failed THEN Raise /\ UNCHANGED out ELSE out' = [made |-> TRUE, text |-> text] /\ pc' = "done"
            [] OTHER -> Raise /\ UNCHANGED out
    /\ UNCHANGED <<job, n, trees, chk, defs, call, shown, pos>>

----------------------------------------------------------------------------
(* The dissector at work.                                                   *)

Capture ==
    /\ pc = "done" /\ job.lang = "Lua" /\ CaptureSegment(job.stream)
    /\ UNCHANGED <<job, pc, n, trees, chk, defs, out>>

Dissect ==
    /\ pc = "done" /\ job.lang = "Lua" /\ DissectBuffer(out.text.dissect)
    /\ UNCHANGED <<job, pc, n, trees, chk, defs, out>>

Next == Main \/ ReadSchema \/ ValidateFile \/ ParseInput \/ GenerateOutput \/ Capture \/ Dissect
Spec == Init /\ [][Next]_vars

----------------------------------------------------------------------------
(* What the documents mean, apart from the program.                         *)

\* The enumerations and messages of a file.
InList(file, list, tag) ==
    FlattenSeq([k \in DOMAIN job.docs[file].kids |->
                   IF job.docs[file].kids[k].name[2] = list THEN Elements(job.docs[file].kids[k], tag) ELSE <<>>])
Messages(file) == InList(file, "messages", "message")
Files == ToSet(job.xmlDef)
KeyOf(file, name) == <<IF job.mergeExt THEN None ELSE Namespace(BaseName[file]), name>>
Renamed(name) == IF name = "DEBUG" THEN "DEBUG_VALUE" ELSE name

\* Where the fields of a message are in its payload: base fields by falling
\* size of their type, then those after <extensions>, of which the schema
\* admits one.
Wire(e) ==
    LET parts == e.kids
        fields == {k \in DOMAIN parts : parts[k].name[2] = "field"}
        isBase(k) == \A m \in 1 .. k : parts[m].name[2] # "extensions"
        unit(k) == TypeSizes[CHOOSE w \in DOMAIN TypeNames : TypeNames[w] = Attr(parts[k], "type")[1]]
        count(k) == IF Attr(parts[k], "type")[2] = NoArray THEN 1 ELSE Attr(parts[k], "type")[2]
        before(m, k) == IF isBase(m) # isBase(k) THEN isBase(m)
                        ELSE IF isBase(k) /\ unit(m) # unit(k) THEN unit(m) > unit(k) ELSE m < k
        bytes(S) == FoldSet(LAMBDA k, sum : sum + unit(k) * count(k), 0, S)
    IN [spans |-> {[name |-> Renamed(Attr(parts[k], "name")), type |-> Attr(parts[k], "type")[1], count |-> count(k),
                    offset |-> bytes({m \in fields : before(m, k)}), size |-> unit(k) * count(k)] : k \in fields},
        v1 |-> bytes({k \in fields : isBase(k)}), v2 |-> bytes(fields)]

\* The spans of members that follow one another.
Packed(list) ==
    LET size(m) == TypeSizes[m.type] * m.count
    IN {[name |-> list[k].name, type |-> TypeNames[list[k].type], count |-> list[k].count,
         offset |-> Total([j \in 1 .. k - 1 |-> size(list[j])]), size |-> size(list[k])] : k \in DOMAIN list}
Counted(m) == [name |-> m.name, type |-> m.type, count |-> IF m.num = NoArray THEN 1 ELSE m.num]

\* Nothing decides which of two definitions with one id, or in a language
\* without namespaces with one name, is in force.
AllMessages == UNION {{<<f, k>> : k \in DOMAIN Messages(f)} : f \in Files}
MessageAt(m) == Messages(m[1])[m[2]]
OneDefinition(a) == \A x, y \in AllMessages : x # y => Attr(MessageAt(x), a) # Attr(MessageAt(y), a)
OneNamespace == \A f, g \in Files : f # g => Namespace(BaseName[f]) # Namespace(BaseName[g])

CppLayout(text, m) ==
    LET e == MessageAt(m)
        name == Renamed(Attr(e, "name"))
        struct == text.header.payloads[KeyOf(m[1], name)]
        maps == text.impl.extraBytes
        homes == {k \in DOMAIN maps : \E x \in maps[k].entries : x.name = name /\ maps[k].namespace = Namespace(BaseName[m[1]])}
    IN /\ Packed(Apply(Counted, struct.members)) = Wire(e).spans
       /\ struct.size_v1 = Wire(e).v1 /\ struct.size_v2 = Wire(e).v2
       /\ Packed(text.impl.descs[KeyOf(m[1], name)]) = Wire(e).spans
       /\ OneNamespace => /\ Cardinality(homes) = 1
                          /\ m[1] \in text.header.extensions <=> struct.id[1] # None
                          /\ \A k \in homes, x \in maps[CHOOSE h \in homes : TRUE].entries :
                                x.name = name => x.len = Wire(e).v1 /\ x.extra = struct.extra
LuaLayout(text, m) ==
    LET e == MessageAt(m)
        fn == text.dissect[Attr(e, "id")]
        calls(span) == {k \in DOMAIN fn.calls : fn.calls[k].field[2] = span.name}
    IN /\ fn.len = Wire(e).v2
       /\ \A k \in DOMAIN fn.calls : fn.calls[k].offset = Total([j \in 1 .. k - 1 |-> fn.calls[j].size])
       /\ \A span \in Wire(e).spans :
             /\ Min({fn.calls[k].offset : k \in calls(span)}) = span.offset
             /\ FoldSet(LAMBDA k, sum : sum + fn.calls[k].size, 0, calls(span)) = span.size
             /\ span.size > 0 => {fn.calls[k].field : k \in calls(span)} \subseteq {f.field : f \in text.fields}
PyLayout(text, m) ==
    LET class == text.messages.classes[Renamed(Attr(MessageAt(m), "name"))]
    IN Packed(class.fieldDescs) = Wire(MessageAt(m)).spans

\* The entries an enumeration has in all files, in the order of the files.
Entries(key) ==
    FlattenSeq([f \in DOMAIN job.xmlDef |->
       LET enums == InList(job.xmlDef[f], "enums", "enum")
       IN FlattenSeq([k \in DOMAIN enums |-> IF KeyOf(job.xmlDef[f], Renamed(Attr(enums[k], "name"))) = key
                                             THEN Elements(enums[k], "entry") ELSE <<>>])])
\* An entry has its own value, or counts from the last one that has.
EntryValue(entries, k) ==
    LET valued == {j \in 1 .. k : HasAttr(entries[j], "value")}
    IN IF valued = {} THEN k - 1 ELSE Attr(entries[Max(valued)], "value") + k - Max(valued)
EnumPairs(key) ==
    LET es == Entries(key) IN [k \in DOMAIN es |-> <<Renamed(Attr(es[k], "name")), EntryValue(es, k)>>]

\* The frames in a sequence of bytes, from offset o on: a preamble, enough
\* bytes, and an id that has a message.
Known(id) == {m \in AllMessages : Attr(MessageAt(m), "id") = id}
RECURSIVE FramesIn(_, _)
FramesIn(bytes, o) ==
    LET at(k) == bytes[o + k + 1]
        v1 == at(0) = Magic1
        header == IF v1 THEN 6 ELSE 10
        size == header + at(1) + 2
        id == IF v1 THEN at(5) ELSE at(7) + 256 * at(8) + 65536 * at(9)
        from == IF v1 THEN 2 ELSE 4
        padded(k) == IF k < at(1) THEN at(header + k) ELSE 0
        value(span) == [k \in 1 .. span.size |-> padded(span.offset + k - 1)]
    IN IF o >= Len(bytes) THEN <<>>
       ELSE IF at(0) \notin {Magic1, Magic2} THEN FramesIn(bytes, o + 1)
       ELSE IF o + header + 2 > Len(bytes) \/ o + size > Len(bytes) THEN <<>>
       ELSE IF Known(id) = {} THEN FramesIn(bytes, o + 1)
       ELSE <<[id |-> id, sender |-> <<at(from), at(from + 1), at(from + 2)>>,
               values |-> {<<span.name, value(span)>> : span \in UNION {Wire(MessageAt(m)).spans : m \in Known(id)}}]>>
            \o FramesIn(bytes, o + size)
Seen(frame) ==
    LET names == {frame.fields[k][1][2] : k \in DOMAIN frame.fields}
        of(name) == SelectSeq(frame.fields, LAMBDA f : f[1][2] = name)
    IN [id |-> frame.id, sender |-> frame.sender,
        values |-> {<<name, FlattenSeq(Apply(LAMBDA f : f[2], of(name)))>> : name \in names}]

----------------------------------------------------------------------------
(* Properties.                                                              *)

\* Every language lays a message out as the wire does: SortFields, the
\* packed structures and descriptors of C++, the offsets that the Lua
\* dissectors count, and the descriptors of Python agree on every field, and
\* a message is in the one table of extra bytes of its namespace.
LayoutAgrees ==
    out.made => \A m \in AllMessages :
        CASE job.lang = "C++" -> CppLayout(out.text, m)
          [] job.lang = "Lua" -> OneDefinition("id") => LuaLayout(out.text, m)
          [] job.lang = "Python" -> OneDefinition("name") => PyLayout(out.text, m)

\* An entry of an enumeration has one value in all languages: the implicit
\* values of C++, the running counts of Lua and of Python, all over entries
\* that several files define for one enumeration.
EnumsAgree ==
    out.made => \A key \in DOMAIN defs.enums :
        LET pairs == EnumPairs(key)
            alone == \A other \in DOMAIN defs.enums : other[2] = key[2] => other = key
        IN CASE job.lang = "C++" -> CppPairs(out.text.enums.enums[key]) = pairs
             [] job.lang = "Lua" ->
                  alone => LET table == out.text.enums[key[2]]
                           IN /\ DOMAIN table = {pairs[k][2] : k \in DOMAIN pairs}
                              /\ \A val \in DOMAIN table : <<table[val], val>> \in ToSet(pairs)
             [] job.lang = "Python" -> alone => out.text.enums.classes[key[2]] = pairs

\* However the bytes are cut into segments, the generated dissector shows
\* the frames that are complete, each once, with the values the definition
\* files give its fields, and zeros for what a payload leaves out.
StreamDissected ==
    call.done /\ out.made /\ job.lang = "Lua" /\ OneDefinition("id")
        => Apply(Seen, shown) = FramesIn(SubSeq(job.stream, 1, pos), 0)

\* minixsv accepts no document that XML Schema calls invalid, but for one
\* with something that it does not look at (Overlooked), and refuses no valid
\* one, but for the few kinds in Refusable, content models that taking all
\* that fits is wrong for above all.
ValidationExact ==
    chk.made /\ ~chk.l.abort /\ chk.c.doc.name \in DOMAIN chk.c.dict.ElementDict =>
        /\ ~chk.v.abort /\ ~Valid(chk.c) => Overlooked(chk.c)
        /\ chk.v.abort /\ Valid(chk.c) => Refusable(chk.c)

\* Loading a schema leaves one tree without directives, in which every
\* component of every file occurs once, and caches of children that are
\* right; loading the expanded tree again, as the validation of the document
\* does, gives the tables of the first time.  A redefine, or two components
\* with one name, may give others.
SchemaLoaded ==
    LET checked == trees \o (IF chk.made THEN chk.trees ELSE <<>>)
        redefined(t) == \E x \in DOMAIN t.node : t.node[x].tag = "redefine"
    IN /\ \A k \in DOMAIN checked :
             /\ Coherent(checked[k].l.t, <<checked[k].url>>)
             /\ ~checked[k].l.abort => Flat(checked[k].l.t, checked[k].url)
       /\ chk.made /\ Len(chk.trees) = 1 =>
             LET l == chk.trees[1].l
             IN ~chk.l.abort /\ ~redefined(l.t) /\ Distinct(l.t) => chk.l.dict = l.dict
=============================================================================
