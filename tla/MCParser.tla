------------------------------ MODULE MCParser ------------------------------
(***************************************************************************)
(* Files for Parser: how each begins and which tokens may follow.  The     *)
(* assumptions of Discipline about the functions are evaluated with them.  *)
(***************************************************************************)
EXTENDS Discipline

File(begins, more, tokens) == [begins |-> begins, more |-> more, tokens |-> tokens]
InBody == <<"fn", "id", "(", ")", "{">>

\* Function bodies: statements of every kind, heads with braces behind them, patterns, lambdas.
Bodies == {
    File(InBody, 3, {"id", "with", "arena", "pool", "if", "match", "then", "let", "=", ";", "{", "}", "(", ")",
                     "using", "for", "in", "loop", "try", "catch", "return", "elif", "else", "extract", ":=", "_"}),
    File(InBody \o <<"if">>, 4,
         {"id", "int", "=", "{", "}", "(", ")", "[", "]", "?.", ",", ".", "fn", "or", "return"}),
    File(InBody \o <<"match", "id", "{">>, 5,
         {"id", "int", "-", "..", "|", "{", "}", "(", ")", "[", "]", "...", "=>", "where", "=", ",", "mut"}),
    File(InBody \o <<"fn", "(", ")">>, 4, {"id", "List", "<", ">", ">>", "{", "}", "=", "?", ".", ","}),
    File(InBody \o <<"if", "fn", "(", ")", "{">>, 5, {"id", "=", "{", "}", "(", ")", ";", "with", "arena", "gc"}),
    File(InBody \o <<"{">>, 5, {"id", "str", "int", "=", "{", "}", ",", ":="})}

\* Whole files: declarations and what they consist of, attributes, imports; types where they end in brackets.
Whole == {
    File(<< >>, 5, {"id", "fn", "struct", "enum", "trait", "impl", "extend", "const", "static", "type", "pub", "edge",
                    "async", "@", "{", "}", "(", ")", ":", "=", ",", ";", "package", "from", "summon", "as", "["}),
    File(<<"@">>, 7, {"tier", "low", "high", "cfg", "all", "not", "id", "(", ")", "=", ",", "const", "{", "}", "async"}),
    File(<<"struct", "id", "{">>, 6, {"id", "get", "set", "prim", "fn", "pub", "@", ":", "{", "}", "(", ")", ","}),
    File(<<"enum", "id", "{">>, 6, {"id", "prim", ":", "{", "}", "(", ")", ",", "=", "int"}),
    File(<<"trait", "id">>, 6, {"id", "fn", "type", "@", ":", "+", "<", ">", "{", "}", "(", ")"}),
    File(<<"fn", "id">>, 6, {"id", "prim", "lifetime", "where", "outlives", "self", "&", "mut", "_", ":", "<", ">", ">>",
                             "[", "]", "(", ")", ",", "=", "{", "}"}),
    File(<<"impl">>, 4, {"id", "prim", "List", "Dict", "Task", "<", ">", ">>", ",", "(", ")", "{", "}", "&", "[", "]",
                         "int", "fn", "for", "?", "!", "."}),
    File(<<"impl", "id", "<">>, 5, {"id", "List", "Dict", "<", ">", ">>", ",", "{"}),
    File(InBody \o <<"id", "as", "id">>, 6, {"id", "prim", "List", "<", ">", ">>", ",", "int", "=", ";", "}"}),
    File(<<"const", "id", "=", "id", "as", "id", "<">>, 2, {"id", ">", ";"})}

All == Bodies \cup Whole
=============================================================================
