---------------------------- MODULE Compatibility ---------------------------
(* pkg/compatibility and the handlers that call it: two texts become schema *)
(* graphs, every difference is a violation with a level, and a change is    *)
(* compatible when none of them is an error.  pkg/docs compares the same    *)
(* versions a second time, for the documentation.                           *)
EXTENDS Schemas

CONSTANT Modes  \* what a request may ask for: "" is the default, BACKWARD

VARIABLE cleared \* <<old, new>>: texts of which a request in a strict mode was told "compatible"

(****************************** the schema graph ***************************)
parseFieldType(t) == IF Len(t) = 1 /\ t[1] \in Scalars THEN t[1] ELSE "message"
buildField(x, oneof) == [name |-> x.name, type |-> parseFieldType(x.type), label |-> x.label, oneof |-> oneof]
OneofOf(m, num) ==
    LET n == SelectLastInSeq(m.oneofs, LAMBDA o : \E i \in DOMAIN o.fields : o.fields[i].num = num)
    IN  IF n = 0 THEN <<>> ELSE m.oneofs[n].name
Named(s, name) == s[SelectInSeq(s, LAMBDA x : x.name = name)]
Names(s) == {s[i].name : i \in DOMAIN s}
RECURSIVE buildMessage(_)
buildMessage(m) ==
    [fields |-> [n \in {m.fields[i].num : i \in DOMAIN m.fields} |->
                   buildField(m.fields[SelectInSeq(m.fields, LAMBDA x : x.num = n)], OneofOf(m, n))],
     nested |-> [n \in Names(m.nested) |-> buildMessage(Named(m.nested, n))]]
buildEnum(e) == [n \in {e.values[i].num : i \in DOMAIN e.values} |->
                   e.values[SelectLastInSeq(e.values, LAMBDA x : x.num = n)].name]
buildService(s) == [n \in Names(s.rpcs) |-> LET r == Named(s.rpcs, n)
                                            IN  [in |-> r.in, out |-> r.out, cs |-> r.cs, ss |-> r.ss]]
BuildFromAST(ast) ==
    [package  |-> ast.package,
     messages |-> [n \in Names(ast.messages) |-> buildMessage(Named(ast.messages, n))],
     enums    |-> [n \in Names(ast.enums)    |-> buildEnum(Named(ast.enums, n))],
     services |-> [n \in Names(ast.services) |-> buildService(Named(ast.services, n))]]

(******************************** comparison *******************************)
Error(rule, at) == [rule |-> rule, level |-> "error", at |-> at]
Warning(rule, at) == [rule |-> rule, level |-> "warning", at |-> at]
Info(rule, at) == [rule |-> rule, level |-> "info", at |-> at]
When(c, v) == IF c THEN {v} ELSE {}
Lenient == {"NONE", "FORWARD", "FORWARD_TRANSITIVE"}
Removal(mode, rule, at) ==
    IF mode \in Lenient THEN Warning(rule, at) ELSE Error(rule, at)
Groups == {{"int32", "int64", "uint32", "uint64"}, {"sint32", "sint64"}, {"string", "bytes"},
           {"fixed32", "fixed64"}, {"sfixed32", "sfixed64"}, {"fixed32", "sfixed32"}, {"fixed64", "sfixed64"}}
\* As if every two integer types had one encoding.
isTypeCompatibleWide(a, b) == a = b \/ \E g \in Groups \cup {{"int32", "int64", "sint32", "sint64"}} : {a, b} \subseteq g
isTypeCompatible(a, b) == a = b \/ \E g \in Groups : {a, b} \subseteq g
compareField(at, a, b) ==
    When(a.name # b.name, Warning("FIELD_NAME_CHANGED", at))
    \cup When(~isTypeCompatible(a.type, b.type), Error("FIELD_TYPE_CHANGED", at))
    \cup When(a.label # b.label, IF a.label = "optional" /\ b.label = "repeated"
                                 THEN Warning("FIELD_LABEL_CHANGED", at) ELSE Error("FIELD_LABEL_CHANGED", at))
    \cup When(a.oneof # b.oneof, Error("FIELD_ONEOF_CHANGED", at))
compareMessageFields(mode, at, a, b) ==
    UNION {compareField(Append(at, a[n].name), a[n], b[n]) : n \in DOMAIN a \cap DOMAIN b}
    \cup {Removal(mode, "FIELD_REMOVED", Append(at, a[n].name)) : n \in DOMAIN a \ DOMAIN b}
    \cup {IF b[n].label = "required" THEN Error("REQUIRED_FIELD_ADDED", Append(at, b[n].name))
          ELSE Info("FIELD_ADDED", Append(at, b[n].name)) : n \in DOMAIN b \ DOMAIN a}
RECURSIVE compareNestedMessages(_, _, _, _)
compareNestedMessages(mode, at, a, b) ==
    compareMessageFields(mode, at, a.fields, b.fields)
    \cup UNION {compareNestedMessages(mode, Append(at, n), a.nested[n], b.nested[n]) :
                  n \in DOMAIN a.nested \cap DOMAIN b.nested}
compareMessages(mode, a, b) ==
    UNION {compareNestedMessages(mode, <<n>>, a[n], b[n]) : n \in DOMAIN a \cap DOMAIN b}
    \cup {Error("MESSAGE_REMOVED", <<n>>) : n \in DOMAIN a \ DOMAIN b}
    \cup {Info("MESSAGE_ADDED", <<n>>) : n \in DOMAIN b \ DOMAIN a}
compareEnumValues(mode, at, a, b) ==
    {Removal(mode, "ENUM_VALUE_REMOVED", <<at, a[n]>>) : n \in DOMAIN a \ DOMAIN b}
    \cup {Info("ENUM_VALUE_ADDED", <<at, b[n]>>) : n \in DOMAIN b \ DOMAIN a}
    \cup {Error("ENUM_VALUE_NUMBER_CHANGED", <<at, a[n]>>) :
            n \in {x \in DOMAIN a : \E y \in DOMAIN b \ {x} : b[y] = a[x]}}
compareEnums(mode, a, b) ==
    UNION {compareEnumValues(mode, n, a[n], b[n]) : n \in DOMAIN a \cap DOMAIN b}
    \cup {Error("ENUM_REMOVED", <<n>>) : n \in DOMAIN a \ DOMAIN b}
    \cup {Info("ENUM_ADDED", <<n>>) : n \in DOMAIN b \ DOMAIN a}
compareMethod(at, a, b) ==
    When(a.in # b.in, Error("RPC_INPUT_TYPE_CHANGED", at))
    \cup When(a.out # b.out, Error("RPC_OUTPUT_TYPE_CHANGED", at))
    \cup When(a.cs # b.cs, Error("RPC_CLIENT_STREAMING_CHANGED", at))
    \cup When(a.ss # b.ss, Error("RPC_SERVER_STREAMING_CHANGED", at))
compareServiceMethods(at, a, b) ==
    UNION {compareMethod(Append(at, n), a[n], b[n]) : n \in DOMAIN a \cap DOMAIN b}
    \cup {Error("RPC_REMOVED", Append(at, n)) : n \in DOMAIN a \ DOMAIN b}
    \cup {Info("RPC_ADDED", Append(at, n)) : n \in DOMAIN b \ DOMAIN a}
compareServices(a, b) ==
    UNION {compareServiceMethods(<<n>>, a[n], b[n]) : n \in DOMAIN a \cap DOMAIN b}
    \cup {Error("SERVICE_REMOVED", <<n>>) : n \in DOMAIN a \ DOMAIN b}
    \cup {Info("SERVICE_ADDED", <<n>>) : n \in DOMAIN b \ DOMAIN a}
Compare(mode, a, b) ==
    IF mode = "NONE" THEN {}
    ELSE When(a.package # b.package, Error("PACKAGE_CHANGED", <<>>))
         \cup compareMessages(mode, a.messages, b.messages)
         \cup compareEnums(mode, a.enums, b.enums) \cup compareServices(a.services, b.services)
generateSummary(vs) == [l \in {"error", "warning", "info"} |-> Cardinality({v \in vs : v.level = l})]
CheckCompatibility(mode, old, new) == Compare(mode, BuildFromAST(old), BuildFromAST(new))

(********************************* handlers ********************************)
ModeOf(mode) == IF mode = "" THEN "BACKWARD" ELSE mode
Compatible(vs) == generateSummary(vs)["error"] = 0
Decided(op, mode, c, d, vs) ==
    [op |-> op, status |-> IF Compatible(vs) THEN 200 ELSE 409, old |-> c, new |-> d, mode |-> mode, violations |-> vs]
\* The answer about the texts c and d, of which old and new are the parses; a
\* version without files makes the handler panic.
Judgement(op, mode, c, d, old, new) ==
    IF ~old.ok \/ ~new.ok THEN [op |-> op, status |-> 500]
    ELSE Decided(op, mode, c, d, CheckCompatibility(mode, old.ast, new.ast))
Verdict(op, mode, c, d) ==
    IF c = Empty \/ d = Empty THEN [op |-> op, status |-> 500]
    ELSE Judgement(op, ModeOf(mode), c, d, Parsed[c], Parsed[d])
Told(a) ==
    /\ Answer(a)
    /\ cleared' = IF a.op = "checkCompatibility" /\ a.status = 200 /\ a.mode \notin Lenient
                  THEN cleared \cup {<<a.old, a.new>>} ELSE cleared
Between(mode, a, b) ==
    LET op == "checkCompatibility"
    IN  IF mode = "bad" THEN [op |-> op, status |-> 400]
        ELSE IF ~a.ok \/ ~b.ok THEN [op |-> op, status |-> 404]
        ELSE Verdict(op, mode, a.c, b.c)
checkCompatibility(m, v, w, mode) == Told(Between(mode, GetVersion(m, v), GetVersion(m, w)))
\* The "previous" version is the next entry of the listing.
WithPrevious(mode, new, all, at) ==
    LET op == "checkVersionCompatibility"
    IN  IF mode = "bad" THEN [op |-> op, status |-> 400]
        ELSE IF ~new.ok THEN [op |-> op, status |-> 404]
        ELSE IF Len(all) < 2 THEN [op |-> op, status |-> 200, old |-> "none"]
        ELSE IF at \in {0, Len(all)} THEN [op |-> op, status |-> 404]
        ELSE Verdict(op, mode, all[at + 1].c, new.c)
Place(all, v) == Max({0} \cup {i \in DOMAIN all : all[i].v = v})
checkVersionCompatibility(m, v, mode) ==
    Told(WithPrevious(mode, GetVersion(m, v), ListVersions(m), Place(ListVersions(m), v)))
\* DocsHandlers.compareVersions: what the documentation says has changed.
compareDocs(a, b) ==
    [removed |-> Names(a.messages) \ Names(b.messages), added |-> Names(b.messages) \ Names(a.messages),
     modified |-> {n \in Names(a.messages) \cap Names(b.messages) :
                     Len(Named(a.messages, n).fields) # Len(Named(b.messages, n).fields)},
     servicesRemoved |-> Names(a.services) \ Names(b.services),
     servicesAdded   |-> Names(b.services) \ Names(a.services)]
Documented(c, d, a, b) ==
    IF ~a.ok \/ ~b.ok THEN [op |-> "compareVersions", status |-> 500]
    ELSE [op |-> "compareVersions", status |-> 200, old |-> c, new |-> d, changes |-> compareDocs(a.ast, b.ast)]
DocsBetween(a, b) ==
    IF ~a.ok \/ ~b.ok THEN [op |-> "compareVersions", status |-> 404]
    ELSE IF a.c = Empty \/ b.c = Empty THEN [op |-> "compareVersions", status |-> 500]
    ELSE Documented(a.c, b.c, Parsed[a.c], Parsed[b.c])
compareVersions(m, v, w) == Told(DocsBetween(GetVersion(m, v), GetVersion(m, w)))

CompatibilityNext ==
    \E m \in {k[1] : k \in DOMAIN store} : \E v \in ToSet(VersionNames) \cup {"latest"} :
        \/ \E w \in ToSet(VersionNames) \cup {"latest"} :
              compareVersions(m, v, w) \/ \E mode \in Modes : checkCompatibility(m, v, w, mode)
        \/ \E mode \in Modes : checkVersionCompatibility(m, v, mode)

(******************************** properties *******************************)
Coding ==
    [t \in Scalars |-> CASE t \in {"int32", "int64", "uint32", "uint64", "bool"} -> "varint"
                         [] t \in {"sint32", "sint64"} -> "zigzag"
                         [] t \in {"string", "bytes"} -> "length"
                         [] t \in {"fixed32", "fixed64", "sfixed32", "sfixed64"} -> "fixed"
                         [] OTHER -> t]
FieldNumbers(x) == {x.fields[i].num : i \in DOMAIN x.fields}
FieldAt(x, n) == x.fields[SelectInSeq(x.fields, LAMBDA y : y.num = n)]
Keeps(a, b) ==
    /\ parseFieldType(a.type) = "message" <=> parseFieldType(b.type) = "message"
    /\ parseFieldType(a.type) # "message" => Coding[a.type[1]] = Coding[b.type[1]]
    /\ a.label = "repeated" => b.label = "repeated"
RECURSIVE MessageReads(_, _, _)
MessageReads(x, y, mid) ==
    /\ \A n \in FieldNumbers(x) : n \in FieldNumbers(y) /\ Keeps(FieldAt(x, n), FieldAt(y, n))
    /\ \A n \in Names(x.nested) \cap Names(y.nested) \cap Names(mid.nested) :
         MessageReads(Named(x.nested, n), Named(y.nested, n), Named(mid.nested, n))
\* The messages y keep what the messages x have, where a nested message is
\* only followed if those between them have it too.
MessagesRead(x, y, mid) ==
    \A n \in Names(x) : n \in Names(y) /\ n \in Names(mid) /\ MessageReads(Named(x, n), Named(y, n), Named(mid, n))
Messages(c) == Parsed[c].ast.messages
Reads(c, d, mid) == MessagesRead(Messages(c), Messages(d), Messages(mid))
\* However a schema evolves through texts that were each found compatible with
\* the one before, in a mode that is not lenient, the last one still has every
\* message and field of the first, in an encoding of the same family and no
\* less repeated (CheckCompatibility).  The two widths of fixed numbers are one
\* family here, and so are all message, enum and map types: the comparator does
\* not tell them apart.  A nested message counts while every text has it: its
\* removal goes unnoticed.
ChainReads ==
    \A p, q \in cleared : p[2] = q[1] \/ p = q => Reads(p[1], q[2], p[2])
\* The documentation's comparison and the comparator name the same messages
\* and services as removed and added (compareDocs, compareMessages).
Agree(changes, vs) ==
    LET Of(rule) == {v.at[1] : v \in {x \in vs : x.rule = rule}}
    IN  /\ changes.removed = Of("MESSAGE_REMOVED") /\ changes.added = Of("MESSAGE_ADDED")
        /\ changes.servicesRemoved = Of("SERVICE_REMOVED") /\ changes.servicesAdded = Of("SERVICE_ADDED")
        /\ changes.modified # {} => \E v \in vs : v.rule \in {"FIELD_ADDED", "FIELD_REMOVED", "REQUIRED_FIELD_ADDED"}
DocsAgree ==
    answer.op = "compareVersions" /\ answer.status = 200 =>
        Agree(answer.changes, CheckCompatibility("FULL", Parsed[answer.old].ast, Parsed[answer.new].ast))
CompatibleReads == ChainReads /\ DocsAgree
=============================================================================
