------------------------------ MODULE MCFilter ------------------------------
(* Instances of Filter for TLC: every source, phrase and condition of a bounded size. *)
EXTENDS Filter, TLC

MaxText == 4      \* characters of a source between quotes
MaxWords == 5     \* words of a phrase: conditions, brackets, and, or
MaxTail == 4      \* tokens of a comparison after its field

\* Every source of four of these characters, and some longer ones.
MCSources ==
    SeqOf({"a", "1", ".", "'", "\\", " ", "g", "="}, 4)
    \cup {<<q>> \o s \o <<q>> : q \in {"'", "\"", "/"}, s \in SeqOf({"a", "'", "\"", "/", "\\"}, MaxText)}
    \cup {<<"b">> \o s \o <<"b">> : s \in SeqOf({"1", ".", "m", "T", "b"}, 3)}
    \cup {<<c>> \o <<d>> \o <<e>> : c \in {"!", "<", ">", "(", "[", ","}, d \in {"=", "~", "<", " ", "]"}, e \in {"a", ")", "?"}}
    \cup {<<"a", " ", "O", "r", " ", "n", "O", "T">>, <<"T", "r", "u", "e", "=", "f", "a", "l", "s", "e">>,
          <<"c", "o", "n", "t", "a", "i", "n", "s", " ", "l", "i", "k", "e">>, <<"i", "n", "_", "A", "n", "d">>,
          <<"/", "a", "\\", "/", "b", "/">>, <<"/", "a">>, <<"1", "k", "b", "2", "k">>, <<"a", "\"", "'", "\"", "~">>}

Tok(tok) == [tok |-> tok, val |-> CASE tok = "identifier" -> <<"a">>
                                    [] tok = "stringLit" -> <<"x">>
                                    [] tok = "quantity" -> <<"1", "g", "b">>
                                    [] tok = "boolean" -> <<"T", "r", "u", "e">>
                                    [] tok = "regexLit" -> <<"y">>
                                    [] OTHER -> <<>>]
Words == {<<Tok("identifier"), Tok("equal"), Tok("stringLit")>>, <<Tok("lbracket")>>, <<Tok("rbracket")>>,
          <<Tok("and")>>, <<Tok("or")>>}
Tails == SeqOf({Tok(t) : t \in {"in", "not", "contains", "lSquareBracket", "rSquareBracket", "comma", "stringLit",
                                "regexLit", "equal", "like", "like2", "quantity"}}, MaxTail)
         \cup {<<Tok("not"), Tok("in"), Tok("lSquareBracket")>> \o t :
                   t \in SeqOf({Tok(k) : k \in {"stringLit", "comma", "rSquareBracket"}}, 5)}
MCPhrases ==
    {FlattenSeq(p) : p \in SeqOf(Words, MaxWords)}
    \cup {<<Tok("identifier")>> \o t : t \in Tails}
    \cup {<<Tok("identifier"), Tok("gte"), Tok("boolean")>>,
          <<Tok("identifier"), Tok("notLike"), [tok |-> "regexLit", val |-> <<"(">>]>>}

Values == {[kind |-> "string", value |-> <<"a">>], [kind |-> "regex", value |-> <<"b">>],
           [kind |-> "boolean", value |-> TRUE]}
          \cup {[kind |-> "numeric", unit |-> u, value |-> v] :
                    u \in {"noUnit", "Kb", "Mb", "Gb"}, v \in {<<1, 1>>, <<2, 1>>, <<15, 10>>}}
          \cup {[kind |-> "numeric", unit |-> "Tb", value |-> <<1, 1>>], [kind |-> "numeric", unit |-> "Kb", value |-> <<1024, 1>>]}
Fields == {"name", "cpus", "template", "labels", "state", "nope", "active", "finished_at"}
Atoms ==
    {binaryExpression(varExpression(f), op, v) : f \in Fields, op \in Comparisons, v \in Values}
    \cup {binaryExpression(varExpression(f), "like2", [kind |-> "string", value |-> <<"b">>]) : f \in Fields}
    \cup {binaryExpression(varExpression(f), op, [kind |-> "regex", value |-> <<"b">>]) :
              f \in Fields, op \in {"like", "notLike"}}
    \cup {inExpression(varExpression(f), vs, n) :
              f \in Fields, vs \in {<<>>, <<<<"a">>>>, <<<<"a">>, <<"a", "b">>>>}, n \in BOOLEAN}
    \cup {containsExpression(varExpression(f), <<"a">>, n) : f \in Fields, n \in BOOLEAN}

\* The orders of strings and booleans are left out: EvalSql does not order strings.
Orders == {"less", "lte", "greater", "gte"}
Usable == {e \in Atoms : ~(e.kind = "binary" /\ e.op \in Orders /\ e.right.kind \in {"string", "regex"})}
Some == {e \in Usable : /\ e.left.name \in {"name", "labels", "cpus", "nope"}
                        /\ e.kind = "binary" => /\ e.op \in {"equal", "notEqual"}
                                                /\ e.right.kind = "numeric" => e.right.value = <<1, 1>> /\ e.right.unit = "Gb"}
MCConditions == Usable \cup {binaryExpression(l, op, r) : l \in Some, op \in {"and", "or"}, r \in Some}

MCSpellings == ("name" :> <<"n", "a", "m", "e">>) @@ ("disk.key" :> <<"d", "i", "s", "k", ".", "k", "e", "y">>)
               @@ ("os_tools" :> <<"o", "s", "_", "t", "o", "o", "l", "s">>)
               @@ ("net.ipv4" :> <<"n", "e", "t", ".", "i", "p", "v", "4">>)
=============================================================================
