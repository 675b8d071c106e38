---------------------------- MODULE MCAlgorithms ----------------------------
(* The schema tools over a small library of texts: requests about the      *)
(* compatibility of the versions of one module, validation and             *)
(* normalization of every text, and the dependency graphs of three modules.*)
EXTENDS Compatibility, Validation, Dependencies

VARIABLE group

(******************************* the texts *********************************)
Syn(s) == [k |-> "syntax", name |-> s]
Pkg(n) == [k |-> "package", name |-> n]
Imp(p) == [k |-> "import", path |-> p, mod |-> ""]
Opt(n) == [k |-> "option", name |-> n, quoted |-> n \in StringOptions]
Open(k, n) == [k |-> k, name |-> n]
End == [k |-> "close"]
Labelled(n, l, t, num) == [k |-> "field", name |-> n, type |-> t, label |-> l, num |-> num]
Fld(n, t, num) == Labelled(n, "", t, num)
Val(n, num) == [k |-> "value", name |-> n, num |-> num]
Rpc(n, in, out, cs) == [k |-> "rpc", name |-> n, in |-> in, out |-> out, cs |-> cs, ss |-> FALSE]
Dir == [k |-> "directive", ok |-> TRUE]
BadDir == [k |-> "directive", ok |-> FALSE]
Blank == [k |-> "blank"]
Head3 == <<Syn("proto3"), Pkg(<<"p">>)>>
Head2 == <<Syn("proto2"), Pkg(<<"p">>)>>
Msg(n, body) == <<Open("message", n)>> \o body \o <<End>>
Typed(t) == Head3 \o Msg("A", <<Fld("x", t, 1)>>) \o Msg("B", <<>>)
Label(l) == Head2 \o Msg("A", <<Labelled("x", l, <<"int32">>, 1)>>)
Imports(paths) == Head3 \o Map(Imp, paths) \o Msg("A", <<>>)
File(m, v, n) == <<m, "@", v, "/", n>>

TypeTexts == {"t_int32", "t_int64", "t_sint64", "t_b", "t_map"}
LabelTexts == {"l_optional", "l_repeated", "l_required", "l_oneof"}
ShapeTexts == {"s_base", "s_renamed", "s_removed", "s_nested", "s_moved", "s_package"}
OtherTexts == {"e_base", "e_value", "e_number", "e_stream", "e_none", "broken"}
Families == {TypeTexts, LabelTexts, ShapeTexts, OtherTexts}
ImportTexts == {"i_none", "i_a", "i_b", "i_c", "i_b_latest", "i_bc", "i_path", "i_dash"}

MCContent ==
    [c \in TypeTexts \cup LabelTexts \cup ShapeTexts \cup OtherTexts \cup ImportTexts
             \cup {"v_proto2", "v_option", "v_oneof", "v_optional", "v_nested", "v_negative", "v_directives", "v_service", "v_sorted", "v_bare", "v_bad"} |->
     CASE c = "t_int32"  -> Typed(<<"int32">>)
       [] c = "t_int64"  -> Typed(<<"int64">>)
       [] c = "t_sint64" -> Typed(<<"sint64">>)
       [] c = "t_b"      -> Typed(<<"B">>)
       [] c = "t_map"    -> Typed(<<"map", "int32">>)
       [] c = "l_optional" -> Label("optional")
       [] c = "l_repeated" -> Label("repeated")
       [] c = "l_required" -> Label("required")
       [] c = "l_oneof"    -> Head2 \o Msg("A", <<Open("oneof", "o"), Fld("x", <<"int32">>, 1), End>>)
       [] c = "s_base"    -> Head3 \o Msg("A", <<Fld("x", <<"int32">>, 1), Fld("y", <<"int32">>, 2)>>)
       [] c = "s_renamed" -> Head3 \o Msg("A", <<Fld("x", <<"int32">>, 1), Fld("z", <<"int32">>, 2)>>)
       [] c = "s_removed" -> Head3 \o Msg("A", <<Fld("x", <<"int32">>, 1)>>)
       [] c = "s_nested"  -> Head3 \o Msg("A", Msg("N", <<Fld("x", <<"int32">>, 1)>>) \o <<Fld("x", <<"int32">>, 1), Fld("y", <<"int32">>, 2)>>)
       [] c = "s_moved"   -> Head3 \o Msg("B", <<Fld("x", <<"int32">>, 1)>>)
       [] c = "s_package" -> <<Syn("proto3"), Pkg(<<"q">>)>> \o Msg("A", <<Fld("x", <<"int32">>, 1)>>)
       [] c \in {"e_base", "e_value", "e_number", "e_stream"} ->
            Head3 \o <<Open("enum", "E"), Val("ZERO", 0)>>
              \o (CASE c = "e_value" -> <<>> [] c = "e_number" -> <<Val("ONE", 2)>> [] OTHER -> <<Val("ONE", 1)>>) \o <<End>>
              \o Msg("A", <<Fld("x", <<"E">>, 1)>>)
              \o <<Open("service", "S"), Rpc("Call", <<"A">>, <<"p", "A">>, c = "e_stream"), End>>
       [] c = "e_none"  -> Head3 \o Msg("A", <<Fld("x", <<"A">>, 1)>>)
       [] c = "broken"  -> Head3 \o Msg("A", <<Fld("x", <<"Missing">>, 1)>>)
       [] c = "v_proto2" -> Head2 \o <<Opt("deprecated")>> \o Msg("A", <<Labelled("y", "optional", <<"A">>, 2), Labelled("x", "required", <<"int32">>, 1),
                                                    Fld("m", <<"map", "A">>, 3)>>) \o <<Open("enum", "E"), Val("ONE", 1), Val("ZERO", 0), End>>
       [] c = "v_option" -> Head2 \o <<Opt("go_package")>> \o Msg("A", <<>>)
       [] c = "v_oneof"  -> Head3 \o Msg("A", <<Dir, Fld("x", <<"int32">>, 1), Open("oneof", "o"), Dir, Fld("y", <<"int32">>, 2), End>>)
       [] c = "v_optional" -> Head3 \o Msg("A", <<Labelled("x", "optional", <<"int32">>, 1)>>)
       [] c = "v_nested" -> Head3 \o <<Dir>> \o Msg("A", <<Open("enum", "E"), Val("ZERO", 0), End, Blank, Dir, Fld("x", <<"int32">>, 2), Blank, Blank>>
                                      \o Msg("N", <<Dir, Fld("x", <<"E">>, 1)>>) \o <<Dir, Fld("y", <<"N">>, 1)>>)
       [] c = "v_negative" -> Head3 \o <<Dir, Open("enum", "E"), Val("ZERO", 0), Val("ONE", -1), End>>
       [] c = "v_directives" -> <<Dir, Syn("proto3"), Dir, Pkg(<<"p">>), Dir, Imp(<<"b", "/", "b">>), Dir, Opt("deprecated"), Blank, Blank, Dir>>
                                  \o Msg("bad_name", <<Fld("X", <<"b", "B">>, 1)>>)
       [] c = "v_service" -> Head3 \o Msg("A", <<>>) \o <<Dir, Open("service", "S"), Dir, Rpc("Call", <<"A">>, <<"A">>, TRUE), Blank, Dir, Rpc("x", <<"A">>, <<"A">>, FALSE), End>>
       [] c = "v_sorted" -> Head2 \o <<Imp(<<"b", "/", "/", "b">>), Imp(<<"a", "-", "v1.2", "/", "a">>), Imp(<<"google", "/", "time">>)>>
                                  \o Msg("A", <<Labelled("x", "optional", <<"Time">>, 1), Labelled("y", "repeated", <<"b", "B">>, 2)>>)
       [] c = "v_bare" -> <<Syn("proto3")>> \o Msg("A", <<Fld("x", <<"int32">>, 7)>>)
       [] c = "v_bad"  -> Head3 \o <<BadDir>> \o Msg("A", <<>>)
       [] c = "i_none" -> Imports(<<>>)
       [] c = "i_a" -> Imports(<<File("a", "v1.2", "a")>>)
       [] c = "i_b" -> Imports(<<File("b", "v1.2", "b"), File("b", "v1.2", "c"), <<"google", "/", "time">>>>)
       [] c = "i_c" -> Imports(<<File("c", "v1.2", "c")>>)
       [] c = "i_b_latest" -> Imports(<<File("b", "latest", "b")>>)
       [] c = "i_bc" -> Imports(<<File("b", "v1.2", "b"), File("c", "v1.2", "c")>>)
       [] c = "i_path" -> Imports(<<<<"c", "/", "v1.2", "/", "c">>>>)
       [] c = "i_dash" -> Imports(<<<<"b", "-", "c", "@", "v1.2", "/", "b">>>>)]

MCVersionNames == <<"v1.10", "v1.2", "v2">>
Part(n) == [n |-> n, s |-> n]
MCParts == [v \in ToSet(MCVersionNames) |->
              CASE v = "v1.10" -> <<Part(1), Part(10)>> [] v = "v1.2" -> <<Part(1), Part(2)>> [] OTHER -> <<Part(2)>>]
Tokens == <<"-", "/", "@", "a", "b", "c", "google", "latest", "time", "v1.2">>
MCTokenRank == [t \in ToSet(Tokens) |-> SelectInSeq(Tokens, LAMBDA x : x = t)]
MCCapital == [t \in {"a", "b", "c"} |-> CASE t = "a" -> "A" [] t = "b" -> "B" [] OTHER -> "C"]
MCEntryName == [n \in {"x", "m"} |-> IF n = "x" THEN "XEntry" ELSE "MEntry"]
MCWellKnown == <<"google", "/", "time">> :> {<<"Time">>}

(***************************** what is explored ****************************)
vars == <<schemaVars, cleared, group>>
MCInit == SchemasInit /\ cleared = {} /\ group \in {"compatibility", "validation", "dependencies"}
\* What a group may create, in this order: version and texts.
Slot(m, v, texts) == [key |-> <<<<m>>, v>>, texts |-> texts]
Slots == CASE group = "validation" -> <<Slot("a", "v1.2", {"v_nested", "v_bare", "broken", Empty})>>
           [] group = "dependencies" -> <<Slot("a", "v1.2", ImportTexts \ {"i_none"}), Slot("b", "v1.2", {"i_none", "i_a", "i_c", "i_b_latest"}),
                                          Slot("b", "v1.10", {"i_none", "i_c"}), Slot("c", "v1.2", {"i_path", "i_a", "i_none", "broken", Empty})>>
           [] OTHER -> <<Slot("a", "v1.2", UNION Families), Slot("a", "v2", UNION Families), Slot("a", "v1.10", {Empty} \cup UNION Families)>>
Stocked == {store[k].c : k \in DOMAIN store} \ {Empty}
Create ==
    /\ UNCHANGED <<cleared, group>> /\ answer = NoAnswer /\ cleared = {}
    /\ \E i \in DOMAIN Slots : \E c \in Slots[i].texts :
          /\ \A j \in i..Len(Slots) : Slots[j].key \notin DOMAIN store
          /\ group = "compatibility" => \E F \in Families : Stocked \cup {c} \subseteq F \cup {Empty}
          /\ CreateVersion(Slots[i].key[1], Slots[i].key[2], c)
\* One request at a time, except that a lockfile just received may be sent back.
Turn == answer = NoAnswer \/ (answer.op = "getLockfile" /\ answer'.op = "validateLockfile")
MCNext ==
    \/ Create
    \/ Done /\ UNCHANGED <<cleared, group>>
    \/ /\ UNCHANGED group /\ answer.op \in {"none", "getLockfile"}
       /\ \/ group = "compatibility" /\ CompatibilityNext /\ Cardinality(cleared') <= 2
          \/ group = "validation" /\ ValidationNext /\ UNCHANGED cleared
          \/ group = "dependencies" /\ DependenciesNext /\ UNCHANGED cleared
       /\ Turn
Spec == MCInit /\ [][MCNext]_vars
=============================================================================
