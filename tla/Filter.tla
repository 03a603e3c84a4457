-------------------------------- MODULE Filter --------------------------------
(***************************************************************************)
(* The filter language of pkg/filter, and the fields internal/filter maps. *)
(*                                                                         *)
(* A source is a sequence of characters, read by the lexer with the code's *)
(* offset arithmetic (offsets are 0-based). A call is one use of the       *)
(* package: lex a source, parse a sequence of tokens, or translate an      *)
(* expression to SQL. DuckDB's evaluation of the condition, with NULL, is  *)
(* EvalSql.                                                                *)
(***************************************************************************)
EXTENDS Integers, Sequences, SequencesExt, FiniteSets

CONSTANTS
    Sources,          \* sources to lex: sequences of characters
    Phrases,          \* token sequences to parse
    Conditions,       \* expressions to translate
    Spellings,        \* fields of the mappers, each with its characters
    MaxNestedLevels   \* maxNestedLevels

VARIABLES
    asked,            \* the use of the package: [op, arg]
    answer            \* what it returned, or Pending

filterVars == <<asked, answer>>
Pending == [kind |-> "pending"]
Failed == [kind |-> "error"]

-----------------------------------------------------------------------------
(* lexer.go *)

Lowercase == <<"a","b","c","d","e","f","g","h","i","j","k","l","m","n","o","p","q","r",
               "s","t","u","v","w","x","y","z">>
Uppercase == <<"A","B","C","D","E","F","G","H","I","J","K","L","M","N","O","P","Q","R",
               "S","T","U","V","W","X","Y","Z">>
Nul == "nul"

ToLower(c) == IF c \in Range(Uppercase)
              THEN Lowercase[CHOOSE i \in DOMAIN Uppercase : Uppercase[i] = c] ELSE c
LowerAll(s) == [i \in DOMAIN s |-> ToLower(s[i])]

\* Not only the start: the loop of Scan takes the rest of an identifier with it too.
isIdentifierStart(c) == c \in Range(Lowercase) \cup Range(Uppercase) \cup {"_"}
isDigit(c) == c \in {"0", "1", "2", "3", "4", "5", "6", "7", "8", "9"}
isDot(c) == c = "."
isUnitStart(c) == ToLower(c) \in {"k", "m", "g", "t"}

\* Mutant: the end of the source is not one past the last character.
nextStays(s, l) ==
    IF l.offset >= Len(s) THEN [ch |-> Nul, offset |-> l.offset]
    ELSE [ch |-> s[l.offset + 1], offset |-> l.offset + 1]

\* next: at the end the offset moves one past the end, once.
next(s, l) ==
    IF l.offset >= Len(s)
    THEN IF l.ch = Nul THEN l ELSE [ch |-> Nul, offset |-> l.offset + 1]
    ELSE [ch |-> s[l.offset + 1], offset |-> l.offset + 1]

newLexer(s) == next(s, [ch |-> Nul, offset |-> 0])
tokenStart(l) == l.offset - 2
tokenEnd(l) == l.offset - 1
Slice(s, from, to) == SubSeq(s, from + 1, to)

Token(tok, val, l) == [tok |-> tok, val |-> val, l |-> l]
Illegal(l) == Token("illegal", <<>>, l)

RECURSIVE SkipSpace(_, _), Identifier(_, _, _), Number(_, _, _, _), Quoted(_, _, _, _)

SkipSpace(s, l) == IF l.ch \in {" ", "tab", "newline", "return"} THEN SkipSpace(s, next(s, l)) ELSE l

\* The words of the language, whatever their case.
Keyword(name) ==
    CASE name = <<"a", "n", "d">> -> "and"
      [] name = <<"o", "r">> -> "or"
      [] name = <<"n", "o", "t">> -> "not"
      [] name = <<"i", "n">> -> "in"
      [] name = <<"c", "o", "n", "t", "a", "i", "n", "s">> -> "contains"
      [] name \in {<<"t", "r", "u", "e">>, <<"f", "a", "l", "s", "e">>} -> "boolean"
      [] name = <<"l", "i", "k", "e">> -> "like2"
      [] OTHER -> "identifier"

\* Letters and dots; a dot is followed by a letter.
Identifier(s, start, l) ==
    IF isDot(l.ch)
    THEN LET dot == next(s, l)
         IN IF isIdentifierStart(dot.ch) THEN Identifier(s, start, next(s, dot)) ELSE Illegal(dot)
    ELSE IF isIdentifierStart(l.ch) THEN Identifier(s, start, next(s, l))
    ELSE LET name == Slice(s, start, tokenEnd(l))
             tok == Keyword(LowerAll(name))
         IN Token(tok, IF tok \in {"identifier", "boolean"} THEN name ELSE <<>>, l)

\* Digits with one dot, then perhaps a unit of two letters.
Number(s, start, l, hasDot) ==
    IF isDot(l.ch) /\ hasDot THEN Illegal(l)
    ELSE IF isDigit(l.ch) \/ isDot(l.ch) THEN Number(s, start, next(s, l), hasDot \/ isDot(l.ch))
    ELSE IF ~isUnitStart(l.ch) THEN Token("quantity", Slice(s, start, tokenEnd(l)), l)
    ELSE LET unit == next(s, l)
         IN IF ToLower(unit.ch) # "b" THEN Illegal(unit)
            ELSE Token("quantity", Slice(s, start, tokenEnd(next(s, unit))), next(s, unit))

\* A backslash escapes the character that would end the literal, and nothing else.
Escapes(s, l, quote) == l.ch = "\\" /\ l.offset < Len(s) /\ s[l.offset + 1] = quote

\* A string in either quote, or a regular expression between slashes.
Quoted(s, l, quote, chars) ==
    IF l.ch = quote THEN Token(IF quote = "/" THEN "regexLit" ELSE "stringLit", chars, next(s, l))
    ELSE IF l.ch = Nul THEN Illegal(l)
    ELSE IF Escapes(s, l, quote) THEN Quoted(s, next(s, next(s, l)), quote, Append(chars, quote))
    ELSE Quoted(s, next(s, l), quote, Append(chars, l.ch))

\* An operator that = or ~ may follow.
Operator(s, ch, l) ==
    CASE ch = "!" /\ l.ch = "=" -> Token("notEqual", <<>>, next(s, l))
      [] ch = "!" /\ l.ch = "~" -> Token("notLike", <<>>, next(s, l))
      [] ch = "<" /\ l.ch = "=" -> Token("lte", <<>>, next(s, l))
      [] ch = ">" /\ l.ch = "=" -> Token("gte", <<>>, next(s, l))
      [] ch = "<" /\ l.ch # "=" -> Token("less", <<>>, l)
      [] ch = ">" /\ l.ch # "=" -> Token("greater", <<>>, l)
      [] ch = "!" /\ l.ch \notin {"=", "~"} -> Illegal(l)

Scan(s, before) ==
    LET l == SkipSpace(s, before)
        after == next(s, l)
    IN CASE l.ch = Nul -> Token("eol", <<>>, l)
         [] isIdentifierStart(l.ch) -> Identifier(s, tokenStart(after), after)
         [] isDigit(l.ch) -> Number(s, tokenStart(after), after, FALSE)
         [] l.ch \in {"\"", "'", "/"} -> Quoted(s, after, l.ch, <<>>)
         [] l.ch \in {"!", "<", ">"} -> Operator(s, l.ch, after)
         [] l.ch = "(" -> Token("lbracket", <<>>, after)
         [] l.ch = ")" -> Token("rbracket", <<>>, after)
         [] l.ch = "[" -> Token("lSquareBracket", <<>>, after)
         [] l.ch = "]" -> Token("rSquareBracket", <<>>, after)
         [] l.ch = "," -> Token("comma", <<>>, after)
         [] l.ch = "=" -> Token("equal", <<>>, after)
         [] l.ch = "~" -> Token("like", <<>>, after)
         [] OTHER -> Illegal(after)

\* Every token of a source, up to the first illegal one.
RECURSIVE ScanAll(_, _)
ScanAll(s, l) ==
    LET t == Scan(s, l)
    IN IF t.tok \in {"eol", "illegal"} THEN <<t>> ELSE <<t>> \o ScanAll(s, t.l)
Lex(s) == ScanAll(s, newLexer(s))

-----------------------------------------------------------------------------
(* ast.go *)

\* regexp.Compile refuses an unclosed group.
Compiles(pattern) == ~Contains(pattern, "(")

Digits == <<"0", "1", "2", "3", "4", "5", "6", "7", "8", "9">>
DigitValue(c) == (CHOOSE i \in DOMAIN Digits : Digits[i] = c) - 1
Decimal(ds) == FoldLeft(LAMBDA n, c : 10 * n + DigitValue(c), 0, ds)

\* strconv.ParseFloat of digits with at most one dot, as a fraction.
ParseFloat(s) ==
    LET ds == SelectSeq(s, LAMBDA c : isDigit(c))
        dots == {i \in DOMAIN s : s[i] = "."}
        places == IF dots = {} THEN 0 ELSE Len(s) - CHOOSE i \in dots : TRUE
    IN <<Decimal(ds), 10 ^ places>>

\* newQuantityExpression: the last two characters are the unit when there are
\* three or more and they spell one.
newQuantityExpression(val) ==
    LET suffix == IF Len(val) >= 3 THEN LowerAll(SubSeq(val, Len(val) - 1, Len(val))) ELSE <<>>
        unit == CASE suffix = <<"k", "b">> -> "Kb"
                  [] suffix = <<"m", "b">> -> "Mb"
                  [] suffix = <<"g", "b">> -> "Gb"
                  [] suffix = <<"t", "b">> -> "Tb"
                  [] OTHER -> "noUnit"
    IN [kind |-> "numeric", unit |-> unit,
        value |-> ParseFloat(IF unit = "noUnit" THEN val ELSE SubSeq(val, 1, Len(val) - 2))]

binaryExpression(l, op, r) == [kind |-> "binary", left |-> l, op |-> op, right |-> r]
varExpression(name) == [kind |-> "variable", name |-> name]
inExpression(l, values, negated) ==
    [kind |-> "in", left |-> l, values |-> values, negated |-> negated]
containsExpression(l, v, negated) ==
    [kind |-> "contains", left |-> l, value |-> v, negated |-> negated]

-----------------------------------------------------------------------------
(* parser.go: a parser returns the expression and the token after it *)

Parsed(e, i) == [ok |-> TRUE, e |-> e, i |-> i]
ParseError == [ok |-> FALSE]
Comparisons == {"equal", "notEqual", "greater", "gte", "less", "lte"}

RECURSIVE expression(_, _, _), OrTerms(_, _, _), term(_, _, _), AndFactors(_, _, _),
          factor(_, _, _), listItems(_, _, _)

listItems(ts, i, values) ==
    IF ts[i].tok = "comma" /\ ts[i + 1].tok = "stringLit"
    THEN listItems(ts, i + 2, Append(values, ts[i + 1].val))
    ELSE IF ts[i].tok = "rSquareBracket" THEN Parsed(values, i + 1) ELSE ParseError

list(ts, i) ==
    IF ts[i].tok # "lSquareBracket" THEN ParseError
    ELSE IF ts[i + 1].tok = "rSquareBracket" THEN Parsed(<<>>, i + 2)
    ELSE IF ts[i + 1].tok # "stringLit" THEN ParseError
    ELSE listItems(ts, i + 2, <<ts[i + 1].val>>)

value(ts, i) ==
    LET v == ts[i].val
    IN CASE ts[i].tok = "stringLit" -> Parsed([kind |-> "string", value |-> v], i + 1)
         [] ts[i].tok = "quantity" -> Parsed(newQuantityExpression(v), i + 1)
         [] ts[i].tok = "boolean" -> Parsed([kind |-> "boolean", value |-> LowerAll(v) = <<"t", "r", "u", "e">>], i + 1)
         [] ts[i].tok = "regexLit" /\ Compiles(v) -> Parsed([kind |-> "regex", value |-> v], i + 1)
         [] OTHER -> ParseError

\* field in [...] and field not in [...]
inList(ts, left, i, negated) ==
    LET values == list(ts, i)
    IN IF values.ok THEN Parsed(inExpression(left, values.e, negated), values.i) ELSE ParseError

\* field contains '...' and field not contains '...'
containsString(ts, left, i, negated) ==
    IF ts[i].tok = "stringLit" THEN Parsed(containsExpression(left, ts[i].val, negated), i + 1)
    ELSE ParseError

\* field op value, with the literal the operator asks for.
compare(ts, left, i) ==
    LET op == ts[i].tok
        right == value(ts, i + 1)
    IN IF /\ op \in Comparisons \cup {"like", "notLike", "like2"}
          /\ op \in {"like", "notLike"} => ts[i + 1].tok = "regexLit"
          /\ op = "like2" => ts[i + 1].tok = "stringLit"
          /\ right.ok
       THEN Parsed(binaryExpression(left, op, right.e), right.i) ELSE ParseError

equality(ts, i) ==
    LET left == varExpression(ts[i].val)
    IN CASE ts[i].tok # "identifier" -> ParseError
         [] ts[i + 1].tok = "in" -> inList(ts, left, i + 2, FALSE)
         [] ts[i + 1].tok = "contains" -> containsString(ts, left, i + 2, FALSE)
         [] ts[i + 1].tok = "not" /\ ts[i + 2].tok = "in" -> inList(ts, left, i + 3, TRUE)
         [] ts[i + 1].tok = "not" /\ ts[i + 2].tok = "contains" -> containsString(ts, left, i + 3, TRUE)
         [] OTHER -> compare(ts, left, i + 1)

\* Mutant: a grouped expression does not have to be closed.
factorOpen(ts, i, level) ==
    IF ts[i].tok # "lbracket" THEN equality(ts, i)
    ELSE LET e == expression(ts, i + 1, level)
         IN IF e.ok /\ ts[e.i].tok = "rbracket" THEN Parsed(e.e, e.i + 1) ELSE e

factor(ts, i, level) ==
    IF ts[i].tok # "lbracket" THEN equality(ts, i)
    ELSE LET e == expression(ts, i + 1, level)
         IN IF e.ok /\ ts[e.i].tok = "rbracket" THEN Parsed(e.e, e.i + 1) ELSE ParseError

AndFactors(ts, left, level) ==
    IF ~left.ok \/ ts[left.i].tok # "and" THEN left
    ELSE LET right == factor(ts, left.i + 1, level)
         IN IF ~right.ok THEN ParseError
            ELSE AndFactors(ts, Parsed(binaryExpression(left.e, "and", right.e), right.i), level)

term(ts, i, level) == AndFactors(ts, factor(ts, i, level), level)

OrTerms(ts, left, level) ==
    IF ~left.ok \/ ts[left.i].tok # "or" THEN left
    ELSE LET right == term(ts, left.i + 1, level)
         IN IF ~right.ok THEN ParseError
            ELSE OrTerms(ts, Parsed(binaryExpression(left.e, "or", right.e), right.i), level)

\* countExpression is the nesting: it goes down again when the expression ends.
expression(ts, i, level) ==
    IF level + 1 > MaxNestedLevels THEN ParseError
    ELSE OrTerms(ts, term(ts, i, level + 1), level + 1)

\* parse: the whole source, up to eol. The tokens after an error are never read;
\* Eol stands for them.
Eol == [tok |-> "eol", val |-> <<>>]
parse(ts) ==
    LET all == ts \o <<Eol, Eol, Eol, Eol>>
        e == expression(all, 1, 0)
    IN IF e.ok /\ e.i = Len(ts) + 1 THEN e.e ELSE Failed

-----------------------------------------------------------------------------
(* internal/filter/mappers.go: the fields of a VM, and of the other tables *)

StringFields ==
    {"id", "name", "folder_id", "folder", "host", "smbios_uuid", "vm_uuid", "firmware",
     "powerstate", "status", "connection_state", "ft_state", "os_config", "os_tools",
     "dns_name", "ip_address", "hw_version", "resource_pool", "datacenter", "cluster",
     "disk.path", "disk.sharing", "disk.shared_bus", "disk.mode", "disk.controller",
     "disk.label", "concern.label", "concern.category", "concern.assessment",
     "inspection.status", "inspection.error", "inspection_concern.label",
     "inspection_concern.category", "inspection_concern.msg", "net.network", "net.mac",
     "net.nic_label", "net.adapter", "net.switch", "net.type", "net.ipv4", "net.ipv6",
     "net.cluster", "datastore.name", "datastore.address", "datastore.object_id",
     "datastore.mha", "datastore.type", "application", "application.name",
     "application.description"}
NumericFields ==
    {"cpus", "memory", "storage_used", "total_disk_capacity", "provisioned", "issues_count",
     "disk.key", "disk.capacity", "cpu.sockets", "cpu.cores_per_socket", "mem.ballooned",
     "datastore.hosts", "datastore.free", "datastore.capacity"}
UtilizationFields ==
    {"utilization.provisioned_cpus", "utilization.provisioned_memory",
     "utilization.provisioned_disk", "utilization.cpu_avg", "utilization.cpu_max",
     "utilization.cpu_latest", "utilization.mem_avg", "utilization.mem_max",
     "utilization.mem_latest", "utilization.disk", "utilization.confidence"}
BooleanFields ==
    {"template", "cbt", "enable_uuid", "migratable", "migration_excluded", "disk.raw",
     "disk.thin", "cpu.hot_add", "cpu.hot_remove", "mem.hot_add", "net.connected",
     "net.starts_connected"}
ArrayFields == {"labels", "groups"}

DefaultMapper(name) ==
    CASE name \in StringFields -> "string"
      [] name \in NumericFields \cup UtilizationFields -> "numeric"
      [] name \in BooleanFields -> "boolean"
      [] name \in ArrayFields -> "array"
      [] OTHER -> "unknown"

GroupMapper(name) == IF name \in {"name", "description", "filter"} THEN "string" ELSE "unknown"
ClusterMapper(name) == IF name \in {"cluster_id", "cluster_name"} THEN "string" ELSE "unknown"
CollectionMapper(name) ==
    CASE name = "id" -> "numeric"
      [] name \in {"vcenter_id", "vcenter", "state", "error"} -> "string"
      [] name = "active" -> "boolean"
      [] name \in {"started_at", "finished_at", "created_at", "updated_at"} -> "any"
      [] OTHER -> "unknown"

\* ParseWithDefaultMap and its siblings: the fields an expression may name.
Mapper(table, name) ==
    CASE table = "vms" -> DefaultMapper(name)
      [] table = "groups" -> GroupMapper(name)
      [] table = "clusters" -> ClusterMapper(name)
      [] table = "collections" -> CollectionMapper(name)

-----------------------------------------------------------------------------
(* sql.go: a condition is a tree of the SQL fragments squirrel puts together *)

checkValueType(ft, v) ==
    CASE ft = "any" -> TRUE
      [] ft = "string" -> v.kind \in {"string", "regex"}
      [] ft = "numeric" -> v.kind = "numeric"
      [] ft = "boolean" -> v.kind = "boolean"
      [] OTHER -> FALSE

\* Mutant: kilobytes are taken for megabytes.
valueInMbPlain(q) ==
    LET n == q.value[1]
        d == q.value[2]
    IN CASE q.unit = "Gb" -> <<n * 1024, d>>
         [] q.unit = "Tb" -> <<n * 1024 * 1024, d>>
         [] OTHER -> <<n, d>>

\* Quantities are compared in MB.
valueInMb(q) ==
    LET n == q.value[1]
        d == q.value[2]
    IN CASE q.unit = "Kb" -> <<n, d * 1024>>
         [] q.unit = "Gb" -> <<n * 1024, d>>
         [] q.unit = "Tb" -> <<n * 1024 * 1024, d>>
         [] OTHER -> <<n, d>>

SqlArg(v) == IF v.kind = "numeric" THEN valueInMb(v) ELSE v.value

\* "Include NULLs in not contains results (VMs without any groups)".
containsSql(e) == [sql |-> "list_contains", col |-> e.left.name, arg |-> e.value, negated |-> e.negated, orNull |-> e.negated]

\* sq.Eq and sq.NotEq over a list: IN, or a constant for an empty list.
inSql(e) ==
    IF e.values = <<>> THEN [sql |-> "constant", value |-> e.negated]
    ELSE [sql |-> "in", col |-> e.left.name, args |-> Range(e.values), negated |-> e.negated]

\* regexp_matches, LIKE with % around the string, or the operator of tokenSql.
compareSql(e) ==
    CASE e.op \in {"like", "notLike"} ->
             [sql |-> "regexp_matches", col |-> e.left.name, arg |-> SqlArg(e.right), negated |-> e.op = "notLike"]
      [] e.op = "like2" -> [sql |-> "like", col |-> e.left.name, arg |-> SqlArg(e.right)]
      [] OTHER -> [sql |-> "compare", op |-> e.op, col |-> e.left.name, arg |-> SqlArg(e.right), as |-> e.right.kind]

NoSql == [sql |-> "error"]
RECURSIVE toSql(_, _)
toSql(e, table) ==
    LET ft == Mapper(table, e.left.name)
    IN CASE e.kind = "binary" /\ e.op \in {"and", "or"} ->
                LET l == toSql(e.left, table)
                    r == toSql(e.right, table)
                IN IF l = NoSql \/ r = NoSql THEN NoSql ELSE [sql |-> e.op, left |-> l, right |-> r]
         [] e.kind = "binary" /\ e.op \notin {"and", "or"} ->
                IF ft = "unknown" \/ ~checkValueType(ft, e.right) THEN NoSql ELSE compareSql(e)
         [] e.kind = "in" -> IF ft \in {"string", "any"} THEN inSql(e) ELSE NoSql
         [] e.kind = "contains" -> IF ft \in {"array", "any"} THEN containsSql(e) ELSE NoSql

-----------------------------------------------------------------------------
(* DuckDB: a condition holds, does not, or is NULL *)

Null == "null"
NoValue == <<>>    \* the NULL of a column; a value v is <<v>>
Bool(b) == IF b THEN "true" ELSE "false"
NotSql(v) == CASE v = "true" -> "false" [] v = "false" -> "true" [] OTHER -> Null
Found(text, part) ==
    \E i \in 1..(Len(text) - Len(part) + 1) : SubSeq(text, i, i + Len(part) - 1) = part

\* Numbers as fractions, booleans, and strings of which only equality is used.
CompareSql(op, type, a, b) ==
    LET same == IF type = "numeric" THEN a[1] * b[2] = b[1] * a[2] ELSE a = b
        less == IF type = "numeric" THEN a[1] * b[2] < b[1] * a[2] ELSE ~a /\ b
    IN CASE op = "equal" -> same
         [] op = "notEqual" -> ~same
         [] op = "less" -> less
         [] op = "gte" -> ~less
         [] op = "greater" -> ~same /\ ~less
         [] op = "lte" -> same \/ less

RECURSIVE EvalSql(_, _)
EvalSql(c, row) ==
    LET absent == row[c.col] = NoValue
        v == row[c.col][1]
        Neg(r) == IF c.negated THEN NotSql(r) ELSE r
    IN CASE c.sql = "constant" -> Bool(c.value)
         [] c.sql = "and" -> LET l == EvalSql(c.left, row)
                                 r == EvalSql(c.right, row)
                             IN IF "false" \in {l, r} THEN "false" ELSE IF Null \in {l, r} THEN Null ELSE "true"
         [] c.sql = "or" -> LET l == EvalSql(c.left, row)
                                r == EvalSql(c.right, row)
                            IN IF "true" \in {l, r} THEN "true" ELSE IF Null \in {l, r} THEN Null ELSE "false"
         [] c.sql = "list_contains" -> IF absent THEN IF c.orNull THEN "true" ELSE Null
                                       ELSE Neg(Bool(c.arg \in v))
         [] c.sql = "in" -> IF absent THEN Null ELSE Neg(Bool(v \in c.args))
         [] c.sql = "regexp_matches" -> IF absent THEN Null ELSE Neg(Bool(Found(v, c.arg)))
         [] c.sql = "like" -> IF absent THEN Null ELSE Bool(Found(v, c.arg))
         [] c.sql = "compare" -> IF absent THEN Null
                                 ELSE Bool(CompareSql(c.op, DefaultMapper(c.col), v, c.arg))

\* The rows of the subquery the conditions are checked on; NULL where a VM has no value.
Rows == [name : {NoValue, <<<<"a">>>>, <<<<"a", "b">>>>}, cpus : {NoValue, <<<<1, 1>>>>, <<<<2048, 1>>>>},
         template : {NoValue, <<TRUE>>, <<FALSE>>}, labels : {NoValue, <<{}>>, <<{<<"a">>}>>}]
Selected(c) == {row \in Rows : EvalSql(c, row) = "true"}

-----------------------------------------------------------------------------
FilterInit ==
    /\ \/ asked \in {[op |-> "lex", arg |-> s] : s \in Sources}
       \/ asked \in {[op |-> "field", arg |-> f] : f \in DOMAIN Spellings}
       \/ asked \in {[op |-> "parse", arg |-> p] : p \in Phrases}
       \/ asked \in {[op |-> "sql", arg |-> e] : e \in Conditions}
    /\ answer = Pending

Tables == {"vms", "groups", "clusters", "collections"}

\* The use op of the package returns result.
Use(op, result) ==
    /\ answer = Pending
    /\ answer' = [kind |-> op, result |-> result]
    /\ UNCHANGED asked

LexSource == asked.op = "lex" /\ Use("lex", Lex(asked.arg))
LexField == asked.op = "field" /\ Use("field", Lex(Spellings[asked.arg]))
ParsePhrase == asked.op = "parse" /\ Use("parse", parse(asked.arg))
Translate == asked.op = "sql" /\ Use("sql", [t \in Tables |-> toSql(asked.arg, t)])

FilterNext == LexSource \/ LexField \/ ParsePhrase \/ Translate
FilterSpec == FilterInit /\ [][FilterNext]_filterVars

-----------------------------------------------------------------------------
(* Properties *)

Answered(op) == answer.kind = op

\* Where a token ends in the source, and its characters without the blanks before it.
EndOf(i) == IF i = 0 THEN 0 ELSE answer.result[i].l.offset - 1
TextOf(i) ==
    LET text == Slice(asked.arg, EndOf(i - 1), EndOf(i))
        solid == {k \in DOMAIN text : text[k] # " "}
    IN IF solid = {} THEN <<>> ELSE SubSeq(text, CHOOSE k \in solid : \A n \in solid : k <= n, Len(text))

\* A literal as a user writes it: the quote that would end it escaped.
Spell(text, quote) ==
    <<quote>> \o FlattenSeq([i \in DOMAIN text |-> IF text[i] = quote THEN <<"\\", quote>> ELSE <<text[i]>>])
        \o <<quote>>

\* The tokens of a source, with the blanks between them, are the source: no character
\* is lost, read twice or given to the wrong token, at the end of the source too, where
\* the offset moves one past it ("as it simplifies offset calculations", lexer.go:191),
\* and a literal has the value that is written so ("Use backslash to escape the
\* enclosing quote character", doc.go:46).
TokensSpellSource ==
    Answered("lex") =>
        \A i \in DOMAIN answer.result :
            LET t == answer.result[i]
            IN /\ t.tok \in {"identifier", "boolean", "quantity"} => t.val = TextOf(i)
               /\ t.tok \in {"stringLit", "regexLit"} =>
                      TextOf(i) # <<>> /\ TextOf(i) = Spell(t.val, TextOf(i)[1])
               /\ t.tok \in {"lte", "gte", "notEqual", "notLike"} => Len(TextOf(i)) = 2
               /\ t.tok \in {"lbracket", "rbracket", "comma", "equal", "like", "less", "greater"} =>
                      Len(TextOf(i)) = 1
               /\ t.tok = "eol" => Slice(asked.arg, EndOf(i - 1), Len(asked.arg)) \in Seq({" "})

\* The package answers what it was asked. The lexer stops at the end of the source or at
\* an illegal token and goes forward with every other one; the tokens with a text keep it.
FilterTypeOK ==
    /\ answer.kind \in {"pending", asked.op}
    /\ Answered("lex") =>
           \A i \in DOMAIN answer.result :
               LET t == answer.result[i]
               IN /\ t.l.offset \in 0..(Len(asked.arg) + 1)
                  /\ (i = Len(answer.result)) = (t.tok \in {"eol", "illegal"})
                  /\ 1 < i /\ i < Len(answer.result) => t.l.offset > answer.result[i - 1].l.offset
                  /\ t.tok \in {"identifier", "boolean", "quantity"} => t.val # <<>>

\* The grammar of doc.go:9, read from the outside in: an expression is split at its
\* last or outside brackets, then at its last and, then its brackets are taken off.
Depth(ts, k) ==
    Cardinality({i \in 1..k : ts[i].tok = "lbracket"}) - Cardinality({i \in 1..k : ts[i].tok = "rbracket"})
TopLevel(ts, op) == {k \in DOMAIN ts : ts[k].tok = op /\ Depth(ts, k) = 0}
Toks(ts) == [i \in DOMAIN ts |-> ts[i].tok]
Strings(ts) == LET ss == SelectSeq(ts, LAMBDA t : t.tok = "stringLit") IN [i \in DOMAIN ss |-> ss[i].val]

\* "[" STRING ( "," STRING )* "]"
IsList(toks) ==
    /\ Len(toks) >= 3 /\ Len(toks) % 2 = 1
    /\ toks[1] = "lSquareBracket" /\ Last(toks) = "rSquareBracket"
    /\ \A i \in 2..(Len(toks) - 1) : toks[i] = IF i % 2 = 0 THEN "stringLit" ELSE "comma"

\* STRING | QUANTITY | BOOLEAN
ValueOf(t) ==
    CASE t.tok = "stringLit" -> [kind |-> "string", value |-> t.val]
      [] t.tok = "quantity" -> newQuantityExpression(t.val)
      [] t.tok = "boolean" -> [kind |-> "boolean", value |-> LowerAll(t.val) = <<"t", "r", "u", "e">>]
      [] OTHER -> Failed
RegexOf(t) == IF t.tok = "regexLit" /\ Compiles(t.val) THEN [kind |-> "regex", value |-> t.val] ELSE Failed

\* The equality of doc.go:12 to doc.go:17.
DocumentedAtom(ts) ==
    LET toks == Toks(ts)
        field == varExpression(ts[1].val)
        From(k) == SubSeq(toks, k, Len(toks))
        Binary(right) == IF right = Failed THEN Failed ELSE binaryExpression(field, toks[2], right)
    IN CASE toks = <<>> \/ toks[1] # "identifier" -> Failed
         [] Len(toks) = 3 /\ toks[2] \in Comparisons -> Binary(ValueOf(ts[3]))
         [] Len(toks) = 3 /\ toks[2] \in {"like", "notLike"} -> Binary(RegexOf(ts[3]))
         [] From(2) = <<"contains", "stringLit">> -> containsExpression(field, ts[3].val, FALSE)
         [] From(2) = <<"not", "contains", "stringLit">> -> containsExpression(field, ts[4].val, TRUE)
         [] From(2) # <<>> /\ toks[2] = "in" /\ IsList(From(3)) -> inExpression(field, Strings(ts), FALSE)
         [] From(3) # <<>> /\ SubSeq(toks, 2, 3) = <<"not", "in">> /\ IsList(From(4)) ->
                inExpression(field, Strings(ts), TRUE)
         [] OTHER -> Failed

\* What the parser takes besides: an empty list (parser_test.go:160), like with a string
\* (docs/filter-by-expression.md:46), and a regular expression after a comparison.
ExtraAtom(ts) ==
    LET toks == Toks(ts)
        field == varExpression(ts[1].val)
        From(k) == SubSeq(toks, k, Len(toks))
        nothing == <<"lSquareBracket", "rSquareBracket">>
    IN CASE toks = <<>> \/ toks[1] # "identifier" -> Failed
         [] From(2) = <<"in">> \o nothing -> inExpression(field, <<>>, FALSE)
         [] From(2) = <<"not", "in">> \o nothing -> inExpression(field, <<>>, TRUE)
         [] From(2) = <<"like2", "stringLit">> -> binaryExpression(field, "like2", ValueOf(ts[3]))
         [] Len(toks) = 3 /\ toks[2] \in Comparisons /\ RegexOf(ts[3]) # Failed ->
                binaryExpression(field, toks[2], RegexOf(ts[3]))
         [] OTHER -> Failed

\* The tree of a sentence of the documented grammar, or of the grammar with the extra
\* forms, with brackets inside brackets up to a depth.
RECURSIVE Grammar(_, _, _)
Grammar(ts, extra, levels) ==
    LET Split(op) ==
            LET k == CHOOSE k \in TopLevel(ts, op) : \A n \in TopLevel(ts, op) : n <= k
                l == Grammar(SubSeq(ts, 1, k - 1), extra, levels)
                r == Grammar(SubSeq(ts, k + 1, Len(ts)), extra, levels)
            IN IF Failed \in {l, r} THEN Failed ELSE binaryExpression(l, op, r)
    IN CASE levels = 0 -> Failed
         [] levels > 0 /\ TopLevel(ts, "or") # {} -> Split("or")
         [] levels > 0 /\ TopLevel(ts, "or") = {} /\ TopLevel(ts, "and") # {} -> Split("and")
         [] OTHER -> IF ts # <<>> /\ ts[1].tok = "lbracket" /\ Last(ts).tok = "rbracket"
                     THEN Grammar(SubSeq(ts, 2, Len(ts) - 1), extra, levels - 1)
                     ELSE IF extra /\ DocumentedAtom(ts) = Failed THEN ExtraAtom(ts)
                     ELSE DocumentedAtom(ts)

\* The recursive descent of parser.go:74 accepts the sentences of the grammar of doc.go:9
\* and of its three extra forms, nested no deeper than maxNestedLevels, and nothing else;
\* each gets the tree with "and" binding tighter than "or" and both associating to the
\* left. ParseIsDocumented below says what doc.go alone does.
ParseIsGrammar == Answered("parse") => answer.result = Grammar(asked.arg, TRUE, MaxNestedLevels)

RECURSIVE Leaves(_)
Leaves(c) == IF c.sql \in {"and", "or"} THEN Leaves(c.left) \cup Leaves(c.right) ELSE {c}

\* What an expression says of a VM, in KB and without NULL: nothing a comparison with
\* an absent value says holds, and an absent list contains nothing.
InKb(q) == LET f == CASE q.unit = "Kb" -> 1 [] q.unit = "Gb" -> 1024 * 1024
                      [] q.unit = "Tb" -> 1024 * 1024 * 1024 [] OTHER -> 1024
           IN <<q.value[1] * f, q.value[2]>>
RECURSIVE Means(_, _)
Means(e, row) ==
    LET has == row[e.left.name] # NoValue
        v == row[e.left.name][1]
        w == IF e.right.kind = "numeric" THEN InKb(e.right) ELSE e.right.value
    IN CASE e.kind = "binary" /\ e.op = "and" -> Means(e.left, row) /\ Means(e.right, row)
         [] e.kind = "binary" /\ e.op = "or" -> Means(e.left, row) \/ Means(e.right, row)
         [] e.kind = "in" -> has /\ (Contains(e.values, v) # e.negated)
         [] e.kind = "contains" -> (has /\ e.value \in v) # e.negated
         [] e.kind = "binary" /\ e.op \in {"like", "like2"} -> has /\ Found(v, w)
         [] e.kind = "binary" /\ e.op = "notLike" -> has /\ ~Found(v, w)
         [] OTHER -> has /\ CompareSql(e.op, DefaultMapper(e.left.name),
                                       IF e.right.kind = "numeric" THEN <<v[1] * 1024, v[2]>> ELSE v, w)

\* The SQL of an accepted expression selects the VMs the expression says, with NULL in
\* any of their columns and with quantities in any unit ("All quantities are normalized
\* to MB for comparison", doc.go:59). Constant lists are the one exception: field not
\* in [] is the constant true, which also holds of a VM without the field.
SelectsMeaning ==
    Answered("sql") /\ answer.result["vms"] # NoSql =>
        LET constants == {c \in Leaves(answer.result["vms"]) : c.sql = "constant"}
        IN constants = {} => Selected(answer.result["vms"]) = {row \in Rows : Means(asked.arg, row)}

-----------------------------------------------------------------------------
(* What the repository says and the code does not do *)

\* The grammar of doc.go:9 is what the parser accepts: a list has a string in it ("[" STRING
\* ( "," STRING )* "]", doc.go:14, and again above list, parser.go:190), a value is "STRING |
\* QUANTITY | BOOLEAN" (doc.go:18), like is no operator, and brackets nest at will. The
\* parser takes "a in []", "a = /y/" and "a like 'x'", and refuses the nesting beyond
\* maxNestedLevels.
ParseIsDocumented ==
    Answered("parse") => answer.result = Grammar(asked.arg, FALSE, Len(asked.arg) + 1)

\* "IDENTIFIER : [a-zA-Z_][a-zA-Z0-9_.]*" (doc.go:20), and "net.ipv4 ~ /^192.../" is an
\* example of docs/filter-by-expression.md:165: the name of a field is one token. The
\* loop of Scan (lexer.go:43) takes letters, underscores and dots only, so that a name
\* with a digit is an identifier followed by a number, and the field cannot be used.
FieldsCanBeNamed ==
    Answered("field") =>
        /\ [i \in DOMAIN answer.result |-> answer.result[i].tok] = <<"identifier", "eol">>
        /\ answer.result[1].val = Spellings[asked.arg]
=============================================================================
