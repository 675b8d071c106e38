----------------------------- MODULE Validation -----------------------------
(* pkg/validation and its handlers: the validator's findings on a parsed    *)
(* text, the normalizer that sorts it and the serializer that writes it     *)
(* out again.                                                                *)
EXTENDS Schemas

CONSTANTS
    Pascal, Snake, UpperSnake,  \* the names that follow each convention
    TokenRank                   \* token -> its rank in the order of strings

\* The settings a request may give: the three that change the outcome.
Configs == [ranges : BOOLEAN, zero : BOOLEAN, naming : BOOLEAN]
DefaultValidationConfig == [ranges |-> TRUE, zero |-> TRUE, naming |-> TRUE]

(******************************** validator ********************************)
Finding(severity, rule, at) == [severity |-> severity, rule |-> rule, at |-> at]
Found(c, severity, rule, at) == IF c THEN {Finding(severity, rule, at)} ELSE {}
isPascalCase(n) == n \in Pascal
isSnakeCase(n) == n \in Snake
isUpperSnakeCase(n) == n \in UpperSnake
isValidPackageName(p) == p # <<>> /\ \A i \in DOMAIN p : isSnakeCase(p[i])
\* The i-th field of the list "all" in which numbers must not repeat.
validateField(cfg, at, all, i) ==
    LET x == all[i]
        here == Append(at, x.name)
    IN  Found(cfg.naming /\ ~isSnakeCase(x.name), "warning", "FIELD_NAME_CONVENTION", here)
        \cup Found(cfg.ranges /\ x.num \notin 1..MaxFieldNumber, "error", "INVALID_FIELD_NUMBER", here)
        \cup Found(cfg.ranges /\ x.num \in 19000..19999, "error", "RESERVED_FIELD_NUMBER", here)
        \cup Found(\E j \in 1..(i - 1) : all[j].num = x.num, "error", "DUPLICATE_FIELD_NUMBER", here)
validateEnum(cfg, at, e) ==
    LET here == Append(at, e.name)
    IN  Found(cfg.naming /\ ~isPascalCase(e.name), "warning", "ENUM_NAME_CONVENTION", here)
        \cup Found(cfg.zero /\ \A i \in DOMAIN e.values : e.values[i].num # 0, "error", "MISSING_ENUM_ZERO_VALUE", here)
        \cup UNION {Found(cfg.naming /\ ~isUpperSnakeCase(e.values[i].name), "warning", "ENUM_VALUE_NAME_CONVENTION", here)
                    \cup Found(\E j \in 1..(i - 1) : e.values[j].num = e.values[i].num, "error", "DUPLICATE_ENUM_VALUE_NUMBER", here)
                      : i \in DOMAIN e.values}
RECURSIVE validateMessage(_, _, _)
\* The fields of the oneofs are looked at again after all the fields.
validateMessage(cfg, at, m) ==
    LET here == Append(at, m.name)
        all  == m.fields \o FlattenSeq(Map(LAMBDA o : o.fields, m.oneofs))
    IN  Found(cfg.naming /\ ~isPascalCase(m.name), "warning", "MESSAGE_NAME_CONVENTION", here)
        \cup UNION {validateField(cfg, here, all, i) : i \in DOMAIN all}
        \cup UNION {validateMessage(cfg, here, m.nested[i]) : i \in DOMAIN m.nested}
        \cup UNION {validateEnum(cfg, here, m.enums[i]) : i \in DOMAIN m.enums}
validateService(cfg, s) ==
    Found(cfg.naming /\ ~isPascalCase(s.name), "warning", "SERVICE_NAME_CONVENTION", <<s.name>>)
    \cup UNION {Found(cfg.naming /\ ~isPascalCase(s.rpcs[i].name), "warning", "RPC_NAME_CONVENTION", <<s.name, s.rpcs[i].name>>) :
                  i \in DOMAIN s.rpcs}
Validate(cfg, ast) ==
    Found(cfg.naming /\ ~isValidPackageName(ast.package), "error", "INVALID_PACKAGE_NAME", <<>>)
    \cup UNION {validateMessage(cfg, <<>>, ast.messages[i]) : i \in DOMAIN ast.messages}
    \cup UNION {validateEnum(cfg, <<>>, ast.enums[i]) : i \in DOMAIN ast.enums}
    \cup UNION {validateService(cfg, ast.services[i]) : i \in DOMAIN ast.services}
Valid(findings) == \A x \in findings : x.severity # "error"

(******************************* normalizer ********************************)
\* Runs of slashes become one.
canonicalizeImportPath(path) ==
    FoldLeft(LAMBDA acc, t : IF t = "/" /\ acc # <<>> /\ Last(acc) = "/" THEN acc ELSE Append(acc, t), <<>>, path)
PathLess(p, q) ==
    \E n \in 1..(Len(p) + 1) :
        /\ \A i \in 1..(n - 1) : i <= Len(q) /\ p[i] = q[i]
        /\ n <= Len(q) /\ (n <= Len(p) => TokenRank[p[n]] < TokenRank[q[n]])
ByNumber(s) == SortSeq(s, LAMBDA x, y : x.num < y.num)
\* n is the set of the settings that are on.
Settings == {"SortFields", "SortEnumValues", "SortImports", "CanonicalizeImports"}
normalizeImports(n, imports) ==
    LET paths == IF "CanonicalizeImports" \notin n THEN imports
                 ELSE Map(LAMBDA x : [x EXCEPT !.path = canonicalizeImportPath(x.path)], imports)
    IN  IF "SortImports" \in n THEN SortSeq(paths, LAMBDA x, y : PathLess(x.path, y.path)) ELSE paths
normalizeFields(n, fields) == IF "SortFields" \in n THEN ByNumber(fields) ELSE fields
normalizeOneOfs(n, oneofs) == Map(LAMBDA o : [o EXCEPT !.fields = normalizeFields(n, o.fields)], oneofs)
normalizeEnumValues(n, values) == IF "SortEnumValues" \in n THEN ByNumber(values) ELSE values
normalizeEnums(n, enums) == Map(LAMBDA e : [e EXCEPT !.values = normalizeEnumValues(n, e.values)], enums)
RECURSIVE normalizeMessages(_, _)
normalizeMessages(n, ms) ==
    Map(LAMBDA m : [m EXCEPT !.fields = normalizeFields(n, m.fields), !.oneofs = normalizeOneOfs(n, m.oneofs),
                             !.nested = normalizeMessages(n, m.nested), !.enums = normalizeEnums(n, m.enums)], ms)
Normalize(n, ast) ==
    [ast EXCEPT !.imports = normalizeImports(n, ast.imports), !.messages = normalizeMessages(n, ast.messages),
                !.enums = normalizeEnums(n, ast.enums)]

(******************************* serializer ********************************)
Close == <<[k |-> "close"]>>
Block(kind, name, body) == <<[k |-> kind, name |-> name]>> \o body \o Close
Each(Op(_), s) == FlattenSeq(Map(Op, s))
writeImport(x) == <<[k |-> "import", path |-> x.path, mod |-> x.mod]>>
\* As if a field were written without its label.
writeFieldBare(x) == <<[k |-> "field", name |-> x.name, type |-> x.type, label |-> "", num |-> x.num]>>
writeField(x) == <<[k |-> "field", name |-> x.name, type |-> x.type, label |-> x.label, num |-> x.num]>>
writeOneOf(o) == Block("oneof", Last(o.name), Each(writeField, o.fields))
writeEnum(e) == Block("enum", e.name, Map(LAMBDA v : [k |-> "value", name |-> v.name, num |-> v.num], e.values))
RECURSIVE writeMessage(_)
\* The fields of a oneof are written in it and, as fields of the message, again.
writeMessage(m) ==
    Block("message", m.name, Each(writeEnum, m.enums) \o Each(writeMessage, m.nested)
                               \o Each(writeOneOf, m.oneofs) \o Each(writeField, m.fields))
writeRPC(r) == <<[k |-> "rpc", name |-> r.name, in |-> r.in, out |-> r.out, cs |-> r.cs, ss |-> r.ss]>>
writeService(s) == Block("service", s.name, Each(writeRPC, s.rpcs))
\* The package is written even when it has no name, and the value of an option
\* without its quotes.
Serialize(ast) ==
    <<[k |-> "syntax", name |-> ast.syntax], [k |-> "package", name |-> ast.package]>>
      \o Each(writeImport, ast.imports)
      \o Map(LAMBDA n : [k |-> "option", name |-> n, quoted |-> FALSE], ast.options)
      \o Each(writeMessage, ast.messages) \o Each(writeEnum, ast.enums) \o Each(writeService, ast.services)
NormalizeString(n, parsed) == Serialize(Normalize(n, parsed.ast))

(********************************* handlers ********************************)
Judged(op, c, cfg, findings) ==
    [op |-> op, status |-> IF Valid(findings) THEN 200 ELSE 422, c |-> c, cfg |-> cfg, findings |-> findings]
Checked(op, refusal, c, cfg, p) ==
    IF p.ok THEN Judged(op, c, cfg, Validate(cfg, p.ast)) ELSE [op |-> op, status |-> refusal]
validateProto(c, cfg) ==
    Answer(IF c = Empty THEN [op |-> "validateProto", status |-> 400] ELSE Checked("validateProto", 400, c, cfg, Parsed[c]))
VersionChecked(x) ==
    IF ~x.ok \/ x.c = Empty THEN [op |-> "validateVersion", status |-> 404]
    ELSE Checked("validateVersion", 500, x.c, DefaultValidationConfig, Parsed[x.c])
validateVersion(m, v) == Answer(VersionChecked(GetVersion(m, v)))
Normalized(c, n, p) ==
    IF p.ok THEN [op |-> "normalizeProto", status |-> 200, c |-> c, n |-> n, text |-> NormalizeString(n, p)]
    ELSE [op |-> "normalizeProto", status |-> 400]
normalizeProto(c, n) ==
    Answer(IF c = Empty THEN [op |-> "normalizeProto", status |-> 400] ELSE Normalized(c, n, Parsed[c]))

ValidationNext ==
    \/ \E c \in DOMAIN Content \cup {Empty} :
          (\E n \in SUBSET Settings : normalizeProto(c, n)) \/ \E cfg \in Configs : validateProto(c, cfg)
    \/ \E m \in {k[1] : k \in DOMAIN store} : \E v \in ToSet(VersionNames) \cup {"latest"} : validateVersion(m, v)

(******************************** properties *******************************)
\* What a message is made of, whatever the order and the labels.
RECURSIVE Shape(_)
Shape(m) == [name |-> m.name, fields |-> {<<m.fields[i].name, m.fields[i].num, m.fields[i].type>> : i \in DOMAIN m.fields},
             nested |-> {Shape(m.nested[i]) : i \in DOMAIN m.nested}]
Shapes(ast) == {Shape(ast.messages[i]) : i \in DOMAIN ast.messages}
Plain(f, ast) ==
    /\ Valid(Validate(DefaultValidationConfig, ast))
    /\ \A i \in DOMAIN ast.options : ast.options[i] \notin StringOptions
    /\ \A i \in DOMAIN f : f[i].k = "value" => f[i].num >= 0
Survives(f, ast, again) ==
    /\ Plain(f, ast) => again.ok
    /\ again.ok =>
         /\ Shapes(again.ast) = Shapes(ast)
         /\ Syntax(f) = "proto2" =>
              /\ NormalizeString(answer.n, again) = answer.text
              /\ Validate(DefaultValidationConfig, again.ast) = Validate(DefaultValidationConfig, ast)
\* A text that the validator accepts, without string options and negative enum
\* values, is still a legal file once it has been normalized, with any settings
\* (normalizeProto).  Whenever the normalized text is legal it has the same
\* messages and fields, and in proto2 normalizing it again changes nothing and
\* the validator finds in it what it found in the original; in proto3 every
\* field comes back as an optional one, in a oneof of its own.
ValidSurvives ==
    answer.op = "normalizeProto" /\ answer.status = 200 =>
        Survives(Content[answer.c], Parsed[answer.c].ast, ParseString(answer.text))
\* A directive on the line above a declaration is given to that declaration,
\* except that a oneof one or two lines further down takes it first, that a
\* field below a nested message of its message may go without, and that enum
\* values, imports and options never get one (associateAndMarkConsumed,
\* extractPositionsFromContent).
DirectivesReach ==
    answer.op = "validateProto" /\ answer.status # 400 =>
        LET f == LaidOut(Content[answer.c])
        IN  \A g \in Parsed[answer.c].given :
              LET d == g[1]
              IN  d < Len(f) /\ f[d + 1].k \in {"syntax", "package", "message", "enum", "oneof", "field", "service", "rpc"} =>
                    \/ g[2] = d + 1
                    \/ g[2] > d + 1 /\ f[g[2]].k = "oneof"
                    \/ f[d + 1].k = "field" /\ f[d + 1].scope \notin {"", f[MessageOf(f, d + 1)].name}
=============================================================================
