---------------------------- MODULE MavgenDefs -----------------------------
(* mavgen.py: the MAVLink definitions it reads from XML files, and what it  *)
(* generates from them for C++, for Wireshark in Lua, and for Python.       *)
(*                                                                          *)
(* The type of a field, such as uint8_t[4] in the document, is a pair of a  *)
(* word and a number, NoArray for none.  The checksum of a message is the   *)
(* sequence of the words that go into it.  Generated text is modelled by    *)
(* the declarations it makes.                                               *)
EXTENDS XmlNodes

CONSTANT BaseName     \* the file name in a path, without .xml

NoArray == -1
Attr(e, a) == e.at[<<None, a>>]
HasAttr(e, a) == <<None, a>> \in DOMAIN e.at
Elements(e, tag) == SelectSeq(e.kids, LAMBDA k : k.name = <<None, tag>>)
Total(s) == FoldLeft(LAMBDA a, b : a + b, 0, s)
Apply(F(_), s) == [k \in DOMAIN s |-> F(s[k])]

----------------------------------------------------------------------------
(* Names, files and types.                                                  *)

FilterName(name) == IF name = "DEBUG" THEN "DEBUG_VALUE" ELSE name

Namespace(name) ==
    CASE name = "ardupilotmega" -> "apm"
      [] name = "sphengineering" -> "sph"
      [] name = "common" -> None
      [] OTHER -> name
MlFile(path) == [path |-> path, namespace |-> Namespace(BaseName[path]), messages |-> <<>>]

GetQualifiedName(namespace, name, mergeExt) == <<IF mergeExt THEN None ELSE namespace, name>>

TypeNames == <<"char", "uint8_t", "int8_t", "uint16_t", "int16_t", "uint32_t", "int32_t", "uint64_t", "int64_t",
               "float", "double", "uint8_t_mavlink_version">>
TypeSizes == <<1, 1, 1, 2, 2, 4, 4, 8, 8, 4, 8, 1>>
GetTypeId(word) == CHOOSE k \in DOMAIN TypeNames : TypeNames[k] = word
MlType(type) == [id |-> GetTypeId(type[1]), num |-> type[2]]
GetSize(type) == TypeSizes[type.id]
GetCount(type) == IF type.num = NoArray THEN 1 ELSE type.num
GetCrcName(type) == IF TypeNames[type.id] = "uint8_t_mavlink_version" THEN "uint8_t" ELSE TypeNames[type.id]
IsChar(type) == TypeNames[type.id] = "char"

\* GetSize of a field.
FieldSize(f) == IF IsChar(f.type) THEN GetCount(f.type) ELSE GetSize(f.type) * GetCount(f.type)

----------------------------------------------------------------------------
(* Parsing.  d is [files, enums, messages, failed]; an exception leaves     *)
(* failed set and ends the program.                                         *)

Fail(d) == [d EXCEPT !.failed = TRUE]

\* Entries of an enumeration: a name, and a value if one is given.
ParseEnumEntry(e) ==
    [name |-> FilterName(Attr(e, "name")), has |-> HasAttr(e, "value"),
     value |-> IF HasAttr(e, "value") THEN Attr(e, "value") ELSE 0]
BadEntry(e) == ~HasAttr(e, "name") \/ ~IsInjective(Apply(LAMBDA p : Attr(p, "index"), Elements(e, "param")))

ParseEnum(e) == Apply(ParseEnumEntry, Elements(e, "entry"))

\* AddEntry refuses a second entry with a name, also when it merges.
Merge(entries, more) == entries \o more
Conflicting(entries) == ~IsInjective(Apply(LAMBDA e : e.name, entries))

AddEnum(d, file, e, mergeExt) ==
    LET name == FilterName(Attr(e, "name"))
        key == GetQualifiedName(file.namespace, name, mergeExt)
        entries == ParseEnum(e)
        merged == Merge(d.enums[key].entries, entries)
    IN IF ~HasAttr(e, "name") \/ (\E k \in DOMAIN Elements(e, "entry") : BadEntry(Elements(e, "entry")[k]))
          \/ Conflicting(entries)
       THEN Fail(d)
       ELSE IF key \notin DOMAIN d.enums
       THEN [d EXCEPT !.enums = (key :> [namespace |-> file.namespace, name |-> name, entries |-> entries]) @@ @]
       ELSE IF Conflicting(merged) THEN Fail(d)
       ELSE [d EXCEPT !.enums[key].entries = merged]
ParseEnums(d, file, e, mergeExt) ==
    FoldLeft(LAMBDA m, k : IF m.failed THEN m ELSE AddEnum(m, file, k, mergeExt), d, Elements(e, "enum"))

\* The fields before the last <extensions>, by falling size, as they come
\* among those of a size; then the others.
SortFields_All(fields, start) ==
    FlattenSeq([k \in 1 .. 4 |-> SelectSeq(fields, LAMBDA f : GetSize(f.type) = <<8, 4, 2, 1>>[k])])
SortFields(fields, start) ==
    FlattenSeq([k \in 1 .. 4 |-> SelectSeq(SubSeq(fields, 1, start), LAMBDA f : GetSize(f.type) = <<8, 4, 2, 1>>[k])])
    \o SubSeq(fields, start + 1, Len(fields))

\* _CalculateCrcExtraByte: the name and the base fields.
CalculateCrcExtraByte(name, fields, start) ==
    <<name>> \o FlattenSeq([k \in 1 .. start |->
                               <<GetCrcName(fields[k].type), fields[k].name>>
                               \o (IF fields[k].type.num # NoArray THEN <<ToString(fields[k].type.num)>> ELSE <<>>)])

ParseMessage(file, e) ==
    LET parts == SelectSeq(e.kids, LAMBDA k : k.name \in {<<None, "field">>, <<None, "extensions">>})
        given == Apply(LAMBDA f : [name |-> FilterName(Attr(f, "name")), type |-> MlType(Attr(f, "type")),
                                   described |-> f.text # ""],
                       Elements(e, "field"))
        marks == {k \in DOMAIN parts : parts[k].name[2] = "extensions"}
        start == IF marks = {} THEN Len(given) ELSE Len(Elements([e EXCEPT !.kids = SubSeq(parts, 1, Max(marks))], "field"))
        fields == SortFields(given, start)
        bytes(s) == Total(Apply(LAMBDA f : GetSize(f.type) * GetCount(f.type), s))
        name == FilterName(Attr(e, "name"))
    IN [namespace |-> file.namespace, name |-> name, id |-> Attr(e, "id"), fields |-> fields, extensions_start |-> start,
        len_v1 |-> bytes(SubSeq(fields, 1, start)), len_v2 |-> bytes(fields),
        extra |-> CalculateCrcExtraByte(name, fields, start)]
BadField(f) == ~HasAttr(f, "name") \/ ~HasAttr(f, "type") \/ Attr(f, "type")[1] \notin ToSet(TypeNames)
BadMessage(e) ==
    ~HasAttr(e, "name") \/ ~HasAttr(e, "id") \/ \E k \in DOMAIN Elements(e, "field") : BadField(Elements(e, "field")[k])

AddMessage(d, path, e, mergeExt) ==
    LET msg == ParseMessage(d.files[path], e)
        key == GetQualifiedName(msg.namespace, msg.name, mergeExt)
    IN IF BadMessage(e) \/ key \in DOMAIN d.messages THEN Fail(d)
       ELSE [d EXCEPT !.files[path].messages = Append(@, msg), !.messages = (key :> msg) @@ @]
ParseMessages(d, path, e, mergeExt) ==
    FoldLeft(LAMBDA m, k : IF m.failed THEN m ELSE AddMessage(m, path, k, mergeExt), d, Elements(e, "message"))

\* One file of ParseInput.  find returns the first such element.
NoDefinitions == [files |-> Empty, enums |-> Empty, messages |-> Empty, failed |-> FALSE]
find(root, tag) == LET s == Elements(root, tag) IN IF s = <<>> THEN <<>> ELSE <<s[1]>>
ParseFile(d, path, root, mergeExt) ==
    IF path \in DOMAIN d.files THEN Fail(d)
    ELSE LET d0 == [d EXCEPT !.files = (path :> MlFile(path)) @@ @]
             d1 == FoldLeft(LAMBDA m, e : ParseEnums(m, m.files[path], e, mergeExt), d0, find(root, "enums"))
         IN FoldLeft(LAMBDA m, e : IF m.failed THEN m ELSE ParseMessages(m, path, e, mergeExt), d1, find(root, "messages"))

----------------------------------------------------------------------------
(* C++: the declarations in the three generated files, by namespace and     *)
(* name.  The order of the dictionaries does not show in them.              *)

GenerateEnum(enum) == enum.entries
\* The values a C++ compiler gives to them: an entry without one counts on from
\* the last that has one.
CppPairs(entries) ==
    LET valued(k) == {j \in 1 .. k : entries[j].has}
    IN [k \in DOMAIN entries |-> <<entries[k].name, IF valued(k) = {} THEN k - 1
                                                   ELSE entries[Max(valued(k))].value + k - Max(valued(k))>>]
GenerateMessageIdEnum(file) == Apply(LAMBDA msg : <<msg.name, msg.id>>, file.messages)

\* A packed structure of the fields, its sizes, and the payload's parameters.
\* Its name is that of the message in lower case: names that differ in case
\* alone are not told apart by the code, and are by the model.
GenerateMessage(msg) ==
    [members |-> Apply(LAMBDA f : [name |-> f.name, type |-> f.type.id, num |-> f.type.num], msg.fields),
     size_v1 |-> msg.len_v1, size_v2 |-> msg.len_v2, id |-> <<msg.namespace, msg.name>>, extra |-> msg.extra]
\* The descriptors of the fields.
GenerateMessageImpl(msg) ==
    Apply(LAMBDA f : [name |-> f.name, type |-> f.type.id, count |-> IF f.type.num = NoArray THEN 1 ELSE f.type.num], msg.fields)

\* One map for what is in no namespace, and one for every other file.
GenerateMessageExtraBytes(d, order) ==
    LET entry(msg) == [name |-> msg.name, extra |-> msg.extra, len |-> msg.len_v1]
        common == {key \in DOMAIN d.messages : d.messages[key].namespace = None}
        named == SelectSeq(order, LAMBDA path : d.files[path].namespace # None)
    IN <<[namespace |-> None, entries |-> {entry(d.messages[key]) : key \in common}]>>
       \o Apply(LAMBDA path : [namespace |-> d.files[path].namespace, entries |-> ToSet(Apply(entry, d.files[path].messages))],
                named)

GenerateEnums(d) ==
    [enums |-> [key \in DOMAIN d.enums |-> GenerateEnum(d.enums[key])],
     ids |-> [path \in DOMAIN d.files |-> GenerateMessageIdEnum(d.files[path])]]
\* A class Extension for every file in a namespace, then the messages.
GenerateMsgsHdr(d) ==
    [extensions |-> {path \in DOMAIN d.files : d.files[path].namespace # None},
     payloads |-> [key \in DOMAIN d.messages |-> GenerateMessage(d.messages[key])]]
GenerateMsgsImpl(d, order) ==
    [descs |-> [key \in DOMAIN d.messages |-> GenerateMessageImpl(d.messages[key])],
     extraBytes |-> GenerateMessageExtraBytes(d, order)]
GenerateCppOutput(d, order) ==
    [enums |-> GenerateEnums(d), header |-> GenerateMsgsHdr(d), impl |-> GenerateMsgsImpl(d, order)]

----------------------------------------------------------------------------
(* Lua.  Tables are filled in the order of the dictionaries, and what comes *)
(* later replaces what came before.                                         *)

Put(table, key, val) == [k \in DOMAIN table \cup {key} |-> IF k = key THEN val ELSE table[k]]

\* The value string tables of the fields that are enumerations.
FieldEnums ==
    <<"autopilot">> :> "MAV_AUTOPILOT" @@ <<"base_mode">> :> "MAV_MODE" @@ <<"system_status">> :> "MAV_STATE"
    @@ <<"MISSION_ACK", "type">> :> "MAV_MISSION_RESULT" @@ <<"HEARTBEAT", "type">> :> "MAV_TYPE"
    @@ <<"param_type">> :> "MAV_PARAM_TYPE" @@ <<"command">> :> "MAV_CMD" @@ <<"frame">> :> "MAV_FRAME"
    @@ <<"result">> :> "MAV_RESULT" @@ <<"mode">> :> "MAV_MODE" @@ <<"nav_mode">> :> "MAV_NAV_MODE"
    @@ <<"mount_mode">> :> "MAV_MOUNT_MODE" @@ <<"severity">> :> "MAV_SEVERITY"
Get_enum_from_feld(msg, f) ==
    IF <<msg.name, f.name>> \in DOMAIN FieldEnums THEN FieldEnums[<<msg.name, f.name>>]
    ELSE IF <<f.name>> \in DOMAIN FieldEnums THEN FieldEnums[<<f.name>>] ELSE None

\* An element of an array has a field of its own, a string has one.
Whole == -1
Index(count, k) == IF count > 1 THEN k ELSE Whole
generate_lua_msg_fields(msg, f) ==
    LET count == IF IsChar(f.type) /\ GetCount(f.type) > 1 THEN 1 ELSE GetCount(f.type)
        enum == IF GetSize(f.type) > 4 THEN None ELSE Get_enum_from_feld(msg, f)
    IN {[field |-> <<msg.name, f.name, Index(count, k)>>, enum |-> enum] : k \in 0 .. count - 1}

\* The calls of addle for a field, and the offset after it.
generate_field_dissector(calls, msg, f) ==
    LET count == IF IsChar(f.type) THEN 1 ELSE GetCount(f.type)
        size == IF count > 1 THEN GetSize(f.type) ELSE FieldSize(f)
    IN [list |-> calls.list \o [k \in 1 .. count |-> [field |-> <<msg.name, f.name, Index(count, k - 1)>>,
                                                     offset |-> calls.offset + (k - 1) * size, size |-> size]],
        offset |-> calls.offset + count * size]
generate_payload_dissector(msg) ==
    [calls |-> FoldLeft(LAMBDA c, f : generate_field_dissector(c, msg, f), [list |-> <<>>, offset |-> 0], msg.fields).list,
     len |-> Total(Apply(FieldSize, msg.fields))]

\* An empty array has no size to multiply, a field no description to quote.
UnboundSize(msg) == \E k \in DOMAIN msg.fields : ~IsChar(msg.fields[k].type) /\ msg.fields[k].type.num = 0
Undescribed(msg) == \E k \in DOMAIN msg.fields : ~msg.fields[k].described

\* The count goes on from the entry before, as in C++.
LuaEnum_FromZero(entries) ==
    FoldLeft(LAMBDA a, e : LET val == IF e.has THEN e.value ELSE a.val
                           IN [table |-> Put(a.table, val, e.name), val |-> a.val + 1],
             [table |-> Empty, val |-> 0], entries).table
LuaEntry(a, e) ==
    LET val == IF e.has THEN e.value ELSE a.val IN [table |-> Put(a.table, val, e.name), val |-> val + 1]
LuaEnum(entries) == FoldLeft(LuaEntry, [table |-> Empty, val |-> 0], entries).table
generate_dissectors(d, messages) ==
    FoldLeft(LAMBDA t, key : Put(t, d.messages[key].id, generate_payload_dissector(d.messages[key])), Empty, messages)
GenerateLuaOutput(d, enums, messages) ==
    [failed |-> \E k \in DOMAIN messages : UnboundSize(d.messages[messages[k]]) \/ Undescribed(d.messages[messages[k]]),
     enums |-> FoldLeft(LAMBDA t, key : Put(t, d.enums[key].name, LuaEnum(d.enums[key].entries)), Empty, enums),
     messageName |-> FoldLeft(LAMBDA t, key : Put(t, d.messages[key].id, key), Empty, messages),
     fields |-> UNION {UNION {generate_lua_msg_fields(d.messages[key], d.messages[key].fields[k]) :
                                 k \in DOMAIN d.messages[key].fields} : key \in ToSet(messages)},
     dissect |-> generate_dissectors(d, messages)]

----------------------------------------------------------------------------
(* Python: classes, the later of two with a name in force.                  *)

PyEntry(a, e) ==
    LET val == IF e.has THEN e.value ELSE a.cur IN [class |-> Append(a.class, <<e.name, val>>), cur |-> val + 1]
GeneratePyEnum(entries) == FoldLeft(PyEntry, [class |-> <<>>, cur |-> 0], entries).class
GenerateMessageIdPyEnum(d, messages) == Apply(LAMBDA key : <<d.messages[key].name, d.messages[key].id>>, messages)
GeneratePyEnums(d, enums, messages) ==
    [classes |-> FoldLeft(LAMBDA t, key : Put(t, d.enums[key].name, GeneratePyEnum(d.enums[key].entries)), Empty, enums),
     ids |-> GenerateMessageIdPyEnum(d, messages), enumList |-> enums]
GeneratePyMessage(msg) ==
    [name |-> msg.name, extra |-> msg.extra,
     fieldDescs |-> Apply(LAMBDA f : [name |-> f.name, type |-> f.type.id, count |-> GetCount(f.type)], msg.fields)]
GeneratePyMessages(d, messages) ==
    [classes |-> FoldLeft(LAMBDA t, key : Put(t, d.messages[key].name, GeneratePyMessage(d.messages[key])), Empty, messages),
     list |-> Apply(LAMBDA key : d.messages[key].name, messages)]
GeneratePythonOutput(d, enums, messages) ==
    [enums |-> GeneratePyEnums(d, enums, messages), messages |-> GeneratePyMessages(d, messages)]
=============================================================================
