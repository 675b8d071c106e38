---------------------------- MODULE ProtoParser -----------------------------
(* pkg/api/protobuf: how the text of a .proto file becomes the tree that     *)
(* the compatibility checker, the validator, the normalizer and the         *)
(* dependency resolver work on.  A text is a sequence of lines, one         *)
(* declaration each, records with a kind "k"; what a name looks like inside *)
(* is left out, a path or a qualified name is a sequence of tokens.         *)
(* protocompile, the library that compiles the text, is external: it        *)
(* refuses a text that is not a legal file and resolves the type names.     *)
EXTENDS Integers, Sequences, FiniteSets, SequencesExt, FiniteSetsExt, TLC

CONSTANTS
    VersionLike,    \* the tokens that look like a version: v and a digit
    Capital,        \* token -> the token with a capital first letter
    EntryName,      \* name of a map field -> name of its entry message
    WellKnown,      \* path of a google/protobuf file -> the types it declares
    MaxFieldNumber  \* 2^29 - 1 in the code

Scalars == {"double", "float", "int32", "int64", "uint32", "uint64", "sint32", "sint64",
            "fixed32", "fixed64", "sfixed32", "sfixed64", "bool", "string", "bytes"}
KnownOptions == <<"go_package", "java_package", "java_multiple_files", "deprecated">>
StringOptions == {"go_package", "java_package"}
Opens == {"message", "enum", "oneof", "service"}

(***************************** the text, by line ***************************)
Map(Op(_), s) == [i \in DOMAIN s |-> Op(s[i])]
Depths(f) == [i \in DOMAIN f |-> Cardinality({j \in 1..i : f[j].k \in Opens})
                                   - Cardinality({j \in 1..i : f[j].k = "close"})]
\* Each line with its depth and "up", its innermost open block, 0 for the file.
Nested(f, depths) ==
    [i \in DOMAIN f |->
       [depth |-> depths[i],
        up    |-> Max({0} \cup {j \in 1..(i - 1) : f[j].k \in Opens /\ \A x \in j..(i - 1) : depths[x] >= depths[j]})] @@ f[i]]
\* currentMessage when a line is looked at: it is forgotten at depth 0 and at
\* an enum or a service, and a nested message replaces it for good.
Scope(f, j) == IF j = 0 \/ f[j].depth = 0 \/ f[j].k # "message" THEN "" ELSE f[j].name
Scoped(f) ==
    [i \in DOMAIN f |->
       [scope |-> Scope(f, Max({0} \cup {j \in 1..i : f[j].k \in {"message", "enum", "service"} \/ f[j].depth = 0}))] @@ f[i]]
LaidOut(f) == Scoped(Nested(f, Depths(f)))
\* The lines of one kind in block j; for a message the fields of its oneofs too.
Within(f, j, kind) == SelectSeq([i \in DOMAIN f |-> i], LAMBDA i : f[i].k = kind /\ f[i].up = j)
MessageOf(f, i) == IF f[f[i].up].k = "oneof" THEN f[f[i].up].up ELSE f[i].up
FieldLines(f, m) == SelectSeq([i \in DOMAIN f |-> i], LAMBDA i : f[i].k = "field" /\ MessageOf(f, i) = m)
First(f, kind) == Min({i \in DOMAIN f : f[i].k = kind} \cup {Len(f) + 1})
Package(f) == IF First(f, "package") > Len(f) THEN <<>> ELSE f[First(f, "package")].name
Syntax(f) == IF First(f, "syntax") > Len(f) THEN "proto2" ELSE f[First(f, "syntax")].name
RECURSIVE FullName(_, _)
FullName(f, i) == IF i = 0 THEN Package(f) ELSE Append(FullName(f, f[i].up), f[i].name)

(************************** import paths and dummies ***********************)
Split(path, sep) ==
    FoldLeft(LAMBDA acc, t : IF t = sep THEN Append(acc, <<>>)
                             ELSE ReplaceAt(acc, Len(acc), Append(Last(acc), t)), << <<>> >>, path)
\* The @ of a versioned import is replaced before the text is compiled.
preprocessImportPaths(path) == Map(LAMBDA t : IF t = "@" THEN "-" ELSE t, path)
\* The stand-in for an imported file declares one message, called after the
\* first part of the file name that is not a version, or a directory.
generateDummyProtoFromPath(path) ==
    LET parts == Split(path, "/")
        dash  == Split(Last(parts), "-")
        Plain(s) == s # <<>> /\ s[1] \notin VersionLike
        stop  == SelectInSeq(dash, LAMBDA s : s # <<>> /\ s[1] \in VersionLike)
        names == SelectSeq(IF stop = 0 THEN dash ELSE SubSeq(dash, 1, stop - 1), Plain)
        dirs  == SelectSeq(Front(parts), Plain)
        pkg   == IF names # <<>> THEN names[1][1] ELSE IF dirs # <<>> THEN Last(dirs)[1] ELSE "dummy"
    IN  {<<pkg, Capital[pkg]>>}
getDummyProtoContent(path) ==
    IF path \in DOMAIN WellKnown THEN WellKnown[path] ELSE generateDummyProtoFromPath(path)
ImportLines(f) == SelectSeq([i \in DOMAIN f |-> i], LAMBDA i : f[i].k = "import")
\* The modifiers are looked up under the path as written, so an import with
\* an @ loses its own.
extractImportModifiers(f, i) ==
    IF preprocessImportPaths(f[i].path) = f[i].path THEN f[i].mod ELSE ""

(********************** what protocompile does (external) ******************)
Local(f) == {FullName(f, i) : i \in {j \in 1..Len(f) : f[j].k \in {"message", "enum"}}}
Brought(f, i) == getDummyProtoContent(preprocessImportPaths(f[i].path))
\* What the text itself and each of its imports declare.
Declared(f, imports) == <<Local(f)>> \o [n \in DOMAIN imports |-> Brought(f, imports[n])]
\* "types" are the names that are visible.
Fits(types, scope, t) == {n \in 0..Len(scope) : SubSeq(scope, 1, n) \o t \in types}
Resolve(types, scope, t) ==
    IF Len(t) = 1 /\ t[1] \in Scalars THEN t ELSE SubSeq(scope, 1, Max(Fits(types, scope, t))) \o t
Resolves(types, scope, t) == (Len(t) = 1 /\ t[1] \in Scalars) \/ Fits(types, scope, t) # {}
ValueType(t) == IF t[1] = "map" THEN Tail(t) ELSE t
Distinct(f, is) == IsInjective([n \in DOMAIN is |-> f[is[n]].name])
Numbered(f, is) == IsInjective([n \in DOMAIN is |-> f[is[n]].num])
LegalField(f, types, m, i) ==
    /\ Resolves(types, FullName(f, m), ValueType(f[i].type))
    /\ f[i].num \in 1..MaxFieldNumber /\ f[i].num \notin 19000..19999
    /\ f[i].up # m => f[i].label = ""
    /\ CASE Syntax(f) = "proto3" -> f[i].label # "required"
         [] OTHER -> f[i].up = m /\ f[i].type[1] # "map" => f[i].label # ""
LegalMessage(f, types, m, fields) ==
    /\ \A i \in ToSet(fields) : LegalField(f, types, m, i)
    /\ Distinct(f, fields) /\ Numbered(f, fields) /\ Distinct(f, Within(f, m, "message"))
LegalEnum(f, values) ==
    /\ values # <<>> /\ Numbered(f, values)
    /\ Syntax(f) = "proto3" => f[values[1]].num = 0
LegalRpc(f, types, i) == \A t \in {f[i].in, f[i].out} : Resolves(types, Package(f), t)
Compiles(f, declared, types) ==
    /\ \A i \in DOMAIN f :
         /\ f[i].k = "message" => LegalMessage(f, types, i, FieldLines(f, i))
         /\ f[i].k = "enum"    => LegalEnum(f, Within(f, i, "value"))
         /\ f[i].k = "rpc"     => LegalRpc(f, types, i)
         /\ f[i].k = "package" => f[i].name # <<>>
         /\ f[i].k = "option"  => f[i].quoted = (f[i].name \in StringOptions)
    /\ Distinct(f, Within(f, 0, "message"))
    /\ \A i, j \in DOMAIN declared : i # j => declared[i] \cap declared[j] = {}

(************************ positions found in the text **********************)
NameLine(f, kind, name) == Max({0} \cup {i \in 1..Len(f) : f[i].k = kind /\ f[i].name = name})
KeyLine(f, scope, name) ==
    Max({0} \cup {i \in 1..Len(f) : /\ f[i].k \in {"field", "value", "option"}
                                    /\ f[i].name = name /\ f[i].scope = scope})
\* As if a field were looked up under the name of its message only.
ScopedPosition(f, msg, name) == KeyLine(f, msg, name)
extractPositionsFromContent(f, msg, name) ==
    IF KeyLine(f, msg, name) > 0 THEN KeyLine(f, msg, name) ELSE KeyLine(f, "", name)

(**************************** descriptor to tree ***************************)
fieldDescriptorToProto(f, i) ==
    CASE f[i].label = "repeated" \/ f[i].type[1] = "map" -> "repeated"
      [] f[i].label = "required" -> "required"
      [] OTHER -> "optional"
getFieldTypeName(f, types, m, i) ==
    IF f[i].type[1] = "map" THEN Append(FullName(f, m), EntryName[f[i].name])
    ELSE Resolve(types, FullName(f, m), f[i].type)
convertField(f, types, m, i) ==
    [name |-> f[i].name, num |-> f[i].num, type |-> getFieldTypeName(f, types, m, i),
     label |-> fieldDescriptorToProto(f, i), line |-> extractPositionsFromContent(f, f[m].name, f[i].name)]
MapEntry(f, types, m, i, entry) ==
    [name |-> entry, oneofs |-> <<>>, nested |-> <<>>, enums |-> <<>>, line |-> NameLine(f, "message", entry),
     fields |-> [n \in 1..2 |-> [name |-> <<"key", "value">>[n], num |-> n, label |-> "optional",
                                 type |-> <<<<"string">>, Resolve(types, FullName(f, m), Tail(f[i].type))>>[n],
                                 line |-> extractPositionsFromContent(f, entry, <<"key", "value">>[n])]]]
convertEnum(f, e, values) ==
    [name |-> f[e].name, line |-> NameLine(f, "enum", f[e].name),
     values |-> [n \in DOMAIN values |-> [name |-> f[values[n]].name, num |-> f[values[n]].num]]]
\* "fields" is line -> the field converted from it.  The fields of a oneof are
\* fields of the message too, and an optional field of proto3 is in a oneof of
\* its own.
Synthetic(f, m) ==
    SelectSeq(Within(f, m, "field"), LAMBDA i : Syntax(f) = "proto3" /\ f[i].label = "optional")
messageOneofs(f, m, fields) ==
    Map(LAMBDA o : [name |-> <<f[o].name>>, line |-> NameLine(f, "oneof", f[o].name),
                    fields |-> Map(LAMBDA i : fields[i], Within(f, o, "field"))], Within(f, m, "oneof"))
    \o Map(LAMBDA i : [name |-> <<"_", f[i].name>>, line |-> 0, fields |-> <<fields[i]>>], Synthetic(f, m))
RECURSIVE convertMessage(_, _, _, _)
convertMessage(f, types, m, fields) ==
    [name   |-> f[m].name, line |-> NameLine(f, "message", f[m].name),
     fields |-> Map(LAMBDA i : fields[i], FieldLines(f, m)),
     oneofs |-> messageOneofs(f, m, fields),
     nested |-> Map(LAMBDA i : convertMessage(f, types, i, fields), Within(f, m, "message"))
                  \o Map(LAMBDA i : MapEntry(f, types, m, i, EntryName[f[i].name]),
                         SelectSeq(FieldLines(f, m), LAMBDA i : f[i].type[1] = "map")),
     enums  |-> Map(LAMBDA i : convertEnum(f, i, Within(f, i, "value")), Within(f, m, "enum"))]
convertService(f, types, s) ==
    [name |-> f[s].name, line |-> NameLine(f, "service", f[s].name),
     rpcs |-> Map(LAMBDA i : [name |-> f[i].name, cs |-> f[i].cs, ss |-> f[i].ss,
                              in   |-> Resolve(types, Package(f), f[i].in),
                              out  |-> Resolve(types, Package(f), f[i].out),
                              line |-> i], Within(f, s, "rpc"))]
convertFileOptions(f) ==
    SelectSeq(KnownOptions, LAMBDA n : \E i \in DOMAIN f : f[i].k = "option" /\ f[i].name = n)
convertFields(f, types) ==
    [i \in {j \in DOMAIN f : f[j].k = "field"} |-> convertField(f, types, MessageOf(f, i), i)]
convertDescriptorToAST(f, types, fields) ==
    [syntax   |-> Syntax(f), package |-> Package(f), options |-> convertFileOptions(f),
     heads    |-> Within(f, 0, "syntax") \o Within(f, 0, "package"),
     imports  |-> Map(LAMBDA i : [path |-> preprocessImportPaths(f[i].path),
                                  mod  |-> extractImportModifiers(f, i)], ImportLines(f)),
     messages |-> Map(LAMBDA i : convertMessage(f, types, i, fields), Within(f, 0, "message")),
     enums    |-> Map(LAMBDA i : convertEnum(f, i, Within(f, i, "value")), Within(f, 0, "enum")),
     services |-> Map(LAMBDA i : convertService(f, types, i), Within(f, 0, "service"))]

(**************************** @spoke directives ****************************)
ParseSpokeDirectivesFromContent(f) == {i \in 1..Len(f) : f[i].k = "directive"}
ExtractSpokeDirective(f) == \A i \in ParseSpokeDirectivesFromContent(f) : f[i].ok
Positions(xs) == Map(LAMBDA x : x.line, xs)
RECURSIVE mergeDirectivesForMessage(_)
\* The lines of a message's nodes in the order in which they take directives:
\* the oneofs before the fields, enums last.
mergeDirectivesForMessage(m) ==
    <<m.line>> \o FlattenSeq(Map(LAMBDA o : <<o.line>> \o Positions(o.fields), m.oneofs))
               \o Positions(m.fields)
               \o FlattenSeq(Map(mergeDirectivesForMessage, m.nested)) \o Positions(m.enums)
mergeDirectivesForService(s) == <<s.line>> \o Positions(s.rpcs)
\* Imports and enum values have no position and the file itself is at line 1,
\* so none of them is ever given a directive.
mergeDirectivesAndComments(ast) ==
    ast.heads \o FlattenSeq(Map(mergeDirectivesForMessage, ast.messages)) \o Positions(ast.enums)
              \o FlattenSeq(Map(mergeDirectivesForService, ast.services))
\* A directive goes to the first node that is at most three lines below it.
associateAndMarkConsumed(lines, d) ==
    LET near == SelectSeq(lines, LAMBDA x : x \in (d + 1)..(d + 3)) IN IF near = <<>> THEN 0 ELSE near[1]
\* "given" are the directives with the line of their node.
Tree(ast, directives) ==
    [ok |-> TRUE, ast |-> ast,
     given |-> {<<d, associateAndMarkConsumed(mergeDirectivesAndComments(ast), d)>> : d \in directives}]
Linked(f, declared, types) ==
    IF ~Compiles(f, declared, types) \/ ~ExtractSpokeDirective(f) THEN [ok |-> FALSE]
    ELSE Tree(convertDescriptorToAST(f, types, convertFields(f, types)), ParseSpokeDirectivesFromContent(f))
Compiled(f, declared) == Linked(f, declared, UNION ToSet(declared))
ParseLaidOut(f) == Compiled(f, Declared(f, ImportLines(f)))
\* ParseWithDescriptor
ParseString(f) == ParseLaidOut(LaidOut(f))
=============================================================================
