------------------------------- MODULE Grammar -------------------------------
(***************************************************************************)
(* The parse functions of crates/rd_parser as data: each definition is one *)
(* function, written as the sequence of instructions it performs on the    *)
(* cursor.  Parser executes them.  What a function builds is left out; its *)
(* control is kept: what it looks at, consumes, reports, repeats, and      *)
(* where it gives up (returns None).                                       *)
(*                                                                         *)
(* A token is the name of its class.  "prim", "get", "set", "unit", "cfg", *)
(* "all" and "outlives" are identifiers some function looks at closer.     *)
(***************************************************************************)
EXTENDS Naturals, Sequences, TLC

Ids == {"id", "prim", "get", "set", "unit", "cfg", "all", "outlives"}
Collections == {"List", "Dict"}
Allocators == {"arena", "pool", "gc"}

\* What eat_ident takes for a name: the keywords of collections, tiers and allocators too.
Names == Ids \cup Collections \cup {"tier", "high", "low"} \cup Allocators

\* token_can_start_type
TypeStart == Ids \cup Collections \cup {"&", "[", "(", "fn", "Task", "InlineList"}

\* What Parser::can_start_expr answers yes to.
CanStart == Ids \cup {"int", "float", "str", "char", "true", "null", "self", "-", "!", "not", "await",
                      "(", "[", "{", "if", "match", "from", "unsafe", "async", "fn", "&", "*"}

Literals == {"int", "typed", "float", "double", "str", "char", "true", "null"}
PathStart == Ids \cup Collections \cup {"InlineList"}

\* What parse_prefix has an arm for.
Prefixes == Literals \cup PathStart \cup
    {"self", "-", "!", "not", "&", "*", "await", "(", "[", "{", "if", "match", "fn", "async", "unsafe"}

StmtSync == {";", "}", "fn"}
DeclSync == {"fn", "struct", "enum", "trait", "impl", "extend", "const", "static", "type", "pub",
             "@", "edge"}
MemberSync == Ids \cup {"}", "pub", "fn", "async", "@"}
ItemSync == DeclSync \cup {"}"}
AttrSync == {"@", "fn", "struct", "enum", "trait", "impl", "extend", "pub"}
ImportSync == DeclSync \cup {"summon", "from", "package"}

-----------------------------------------------------------------------------
(* Instructions.                                                           *)

Adv == [op |-> "advance"]
OneOf(S) == [op |-> "expect", toks |-> S]                            \* or report and give up
Tok(t) == OneOf({t})
Name == OneOf(Names)                                                 \* expect_ident()?
Quiet(S, place) == [op |-> "quiet", toks |-> S, place |-> place]     \* or give up, unreported
Unsaid(place) == Quiet({}, place)                                    \* no name is there: give up, unreported
Eat(S, place) == [op |-> "eat", toks |-> S, place |-> place]
May(t) == Eat({t}, "")
Sep == Eat({",", ";"}, "")
Hope(t, place) == Eat({t}, place)                                    \* whether it was there is not looked at
Noted(t, place) == [op |-> "noted", toks |-> {t}, place |-> place]
Close(t) == [op |-> "close", toks |-> {t}]                           \* or report and go on
Error == [op |-> "emit"]
Fail == [op |-> "fail"]
Give == <<Error, Fail>>

Ahead(look, A, B) == [op |-> "if", look |-> look, then |-> A, else |-> B]
If(S, A, B) == Ahead(<<S>>, A, B)
Opt(t, A) == If({t}, <<Adv>> \o A, << >>)
Switch(arms, otherwise) == [op |-> "switch", arms |-> arms, otherwise |-> otherwise]
Is(v) == [op |-> "val", val |-> v]
Note(v) == [op |-> "note", val |-> v]                                \* what an attribute says of the tier
IfVal(V, A, B) == [op |-> "ifval", vals |-> V, then |-> A, else |-> B]

Call(f) == [op |-> "call", f |-> f]
Bp(n) == [op |-> "bp", min |-> n]
Expr == Bp(0)
Infix(n) == [op |-> "infix", min |-> n]
While(stop, body) == [op |-> "loop", stop |-> stop, body |-> body]   \* stops at the end of input too
Break == [op |-> "break"]
Skip(sync) == [op |-> "skip", sync |-> sync]
Catch(body, A) == <<[op |-> "catch", body |-> body, then |-> A]>>     \* A runs when body gives up
Advancing(body) == [op |-> "advancing", body |-> body]               \* guard_progress after body
NoStructLit(body) == [op |-> "nsl", nsl |-> TRUE, body |-> body]
AnyStructLit(body) == [op |-> "nsl", nsl |-> FALSE, body |-> body]
GClose(how) == [op |-> "gclose", how |-> how]
Speculate(memo, body) == [op |-> "speculate", memo |-> memo, body |-> body]
LambdaType == [op |-> "scan", part |-> "name", at |-> 0, depth |-> 0]
Item == [op |-> "item"]                                              \* and leaves the list if it made nothing
Made == [op |-> "made"]

-----------------------------------------------------------------------------
(* Types: parse_type.rs.                                                   *)

Postfix == <<If({"?", "!"}, <<Adv, Call("postfix")>>, << >>)>>
Type == <<Call("typeBase"), Call("postfix")>>
CollectionArgs == Catch(<<Opt("<", <<Call("type"), GClose("emit")>>)>>, << >>)
DictArgs == Catch(<<Opt("<", <<Call("type"), May(","), Call("type"), GClose("emit")>>)>>, << >>)
TupleRest == <<Opt(",", <<If({")", "eof"}, << >>, <<Call("type"), Call("tupleRest")>>)>>)>>
DotNames == <<Opt(".", <<If(Names, <<Adv, Call("dotNames")>>, <<Error>>)>>)>>
TypeList == <<While({")"}, Catch(<<Call("type")>>, <<Break>>) \o <<Sep>>)>>
FnType == <<Tok("(")>> \o TypeList \o
          <<Hope(")", "fn type"), If(TypeStart, <<Call("type"), May("!")>>, << >>)>>
TypeBase ==
    <<Switch(<<
        << {"&"},    <<Adv, May("mut"), Ahead(<<Ids, TypeStart>>, <<Adv>>, << >>), Call("type")>> >>,
        << {"["},    <<Adv, Switch(<< << {"]"},   <<Adv, Call("type")>> >>,
                                      << {"int"}, <<Adv, Tok("]"), Call("type")>> >> >>, Give)>> >>,
        << {"("},    <<Adv, Call("type"), Call("tupleRest"), Tok(")")>> >>,
        << {"fn"},   <<Adv>> \o FnType >>,
        << {"Task"}, <<Adv, Opt("<", <<Call("type"), GClose("expect")>>)>> >>,
        << {"List", "InlineList"}, <<Adv>> \o CollectionArgs >>,
        << {"Dict"}, <<Adv>> \o DictArgs >>,
        << {"prim"}, <<Adv>> >>,
        << Ids,      <<Adv, Call("dotNames"), Call("typeArgs")>> >> >>, Give)>>

\* try_parse_generic_args: what fails goes back to the "<", and the position is remembered.
TypeArgs ==
    <<If({"<"}, <<Speculate(TRUE, <<Adv, While({">", ">>"}, <<Call("type"), Sep>>), GClose("fail")>>)>>, << >>)>>

Bounds == <<If(Names, <<Adv, Call("typeArgs"), Opt("+", <<Call("bounds")>>)>>, <<Error>>)>>
GenericParams ==
    <<Opt("<", <<While({">", ">>"},
        <<If(Names, <<Adv, Opt(":", <<Call("bounds")>>), Sep>>, <<Error, Break>>)>>), GClose("emit")>>)>>
NameOrReport == If(Names, <<Adv>>, <<Error>>)
Outlives ==
    <<NameOrReport, Switch(<< << {"outlives"}, <<Adv>> >>, << Names, <<Adv, Error>> >> >>, <<Error>>), NameOrReport>>
LifetimeParams ==
    <<Opt("[", <<While({"]"},
        <<If({"lifetime"}, <<Adv>>, <<Error, Break>>),
          If(Names, <<Adv, Opt("where", Outlives), Sep>>, <<Error, Break>>)>>), Close("]")>>)>>
Annotation == Catch(<<Opt(":", <<Call("type")>>)>>, << >>)

-----------------------------------------------------------------------------
(* Patterns: parse_pattern.rs.                                             *)

Listed(close, elem) == <<While({close}, <<Call(elem), Sep>>), Close(close)>>
WithRest(elem) ==                       \* the rest comes last: what follows it must be the bracket
    <<While({"]"}, <<If({"..."}, <<Adv, Eat(Names, ""), Break>>, << >>), Call(elem), Sep>>), Close("]")>>
Fields(value) == <<While({"}"}, <<Name, Opt("=", <<Call(value)>>), Sep>>), Close("}")>>

Pattern == <<May("|"), Call("orPattern")>>
OrPattern == <<Call("single"), Call("orRest")>>
OrRest == <<Opt("|", <<Call("single"), Call("orRest")>>)>>
BareLiteral ==
    <<Switch(<< << {"int", "typed", "float", "char", "str"}, <<Adv>> >>,
                << {"-"}, <<Adv, OneOf({"int", "float"})>> >> >>, Give)>>
RangeOrLiteral == <<If({"..=", ".."}, <<Adv>> \o BareLiteral, << >>)>>
FieldPatterns == <<Tok("{")>> \o Fields("orPattern")
PatternPath == <<Opt(".", <<Name, Call("patternPath")>>)>>
IdentPattern ==
    <<Adv, Call("patternPath"),
      Switch(<< << {"("}, <<Adv>> \o Listed(")", "orPattern") >>, << {"{"}, FieldPatterns >> >>, << >>)>>
SinglePattern ==
    <<Switch(<<
        << {"int", "typed", "float", "char"}, <<Adv>> \o RangeOrLiteral >>,
        << {"_", "str", "true", "null"}, <<Adv>> >>,
        << {"-"},   <<Adv, OneOf({"int", "float"})>> \o RangeOrLiteral >>,
        << {"mut"}, <<Adv, Name>> >>,
        << Ids,     IdentPattern >>,
        << {"("},   <<Adv>> \o Listed(")", "orPattern") >>,
        << {"["},   <<Adv>> \o WithRest("orPattern") >>,
        << {"{"},   FieldPatterns >> >>, Give)>>

Destructure ==
    <<Switch(<<
        << Ids,   <<Adv>> >>,
        << {"("}, <<Adv>> \o Listed(")", "element") >>,
        << {"["}, <<Adv>> \o WithRest("element") >>,
        << {"{"}, <<Adv>> \o Fields("destructure") >> >>, Give)>>
Element == <<If({"_"} \cup Ids, <<Adv>>, <<If({"(", "[", "{"}, <<Call("destructure")>>, Give)>>)>>
Binding == <<If(Ids, <<Adv>>, <<If({"(", "[", "{"}, <<Call("destructure")>>, Give)>>)>>

-----------------------------------------------------------------------------
(* Statements: parse_stmt.rs.                                              *)

Headed == NoStructLit(<<Expr>>)
Jumps == {"return", "break", "continue", "fail"}
RecoverToStmt == <<Skip(StmtSync), May(";")>>

Semis == <<Opt(";", <<Call("semis")>>)>>
Block ==
    <<Tok("{"),
      While({"}"}, <<Call("semis"), If({"}"}, <<Break>>, << >>),
                     Advancing(Catch(<<Call("stmt")>>, RecoverToStmt))>>),
      Close("}")>>
Let == <<Adv, May("mut"), Call("binding")>> \o Annotation \o <<Tok("="), Expr>>
ShortDecl == <<Adv, Adv, Expr>>
Return == <<Adv, If(CanStart, <<Expr>>, << >>)>>
FailStmt == <<Adv, Expr>>
BranchBody ==
    <<Switch(<< << {"{"},    <<Call("block")>> >>,
                << {"then"}, <<Adv, If(Jumps, <<Call("stmt")>>, <<Expr>>)>> >> >>, Give)>>
Elifs ==
    <<Switch(<< << {"elif"}, <<Adv, Headed, Call("branch"), Call("elifs")>> >>,
                << {"else"}, <<Adv, Call("branch")>> >> >>, << >>)>>
IfStmt == <<Adv, Headed, Call("branch"), Call("elifs")>>
ArmBody ==
    <<Switch(<< << {"{"}, <<Call("block")>> >>, << Jumps, <<Call("stmt")>> >> >>, <<Expr>>)>>
Arm == <<Call("pattern"), Opt("where", <<Expr>>), OneOf({"=>", "then"}), Call("armBody")>>
MatchStmt ==
    <<Adv, Headed, Tok("{"),
      While({"}"}, <<Advancing(Catch(<<Call("arm")>>, RecoverToStmt) \o <<Sep>>)>>), Close("}")>>
For == <<Adv, Call("binding"), Tok("in"), Headed, Call("block")>>
WhileStmt == <<Adv, Headed, Call("block")>>
Loop == <<Adv, Call("block")>>
BreakStmt == <<Adv, If(CanStart, <<Expr>>, << >>)>>
Size == Ahead(<<{"int"}, {"unit"}>>, <<Adv, Adv>>, <<Expr>>)
Sized == <<If({"("}, <<Noted("(", "sized (")>>, Give)>>
PoolOf == <<Adv>> \o Catch(<<Call("type")>>, << >>) \o <<GClose("hope")>> \o Sized \o <<Expr, Close(")")>>
Allocator ==
    Switch(<< << {"arena"}, <<Adv>> \o Sized \o <<Size, Close(")")>> >>,
              << {"pool"},  <<Adv, If({"<"}, PoolOf, Give)>> >>,
              << {"gc"},    <<Adv>> >>,
              << Names,     <<Adv>> \o Give >> >>, <<Unsaid("allocator")>>)
With == <<Adv, Allocator, Call("block")>>
UsingBindings ==
    <<If({"let"}, <<Adv, May("mut"), Name,
          If({"="}, <<Adv, Expr, Opt(",", <<Call("usingBindings")>>)>>, <<Error>>)>>, <<Error>>)>>
Using == <<Adv, Call("usingBindings"), Call("block")>>
Extract == <<Adv, Call("destructure"), Tok("="), Expr>>
Defer == <<Adv, Expr>>
Try ==
    <<Adv, Call("block"),
      Opt("catch", <<If({"("}, <<Adv, Name, Close(")"), Call("block")>>, <<Error>>)>>)>>
Unsafe == <<Adv, Call("block")>>
ExprStmt == <<Expr, If({"=", "+="}, <<Adv, Expr>>, << >>)>>
Stmt ==
    <<Switch(<<
        << {"let"}, Let >>, << {"return"}, Return >>, << {"fail"}, FailStmt >>, << {"if"}, IfStmt >>,
        << {"match"}, MatchStmt >>, << {"for"}, For >>, << {"while"}, WhileStmt >>, << {"loop"}, Loop >>,
        << {"break"}, BreakStmt >>, << {"continue"}, <<Adv>> >>, << {"with"}, With >>,
        << {"using"}, Using >>, << {"extract"}, Extract >>, << {"defer"}, Defer >>, << {"try"}, Try >>,
        << {"unsafe"}, Unsafe >> >>,
        <<Ahead(<<Ids, {":="}>>, ShortDecl, ExprStmt)>>), Sep>>

-----------------------------------------------------------------------------
(* Expressions: parse_expr.rs.                                             *)

DictKeys == {"str", "int", "typed", "double", "float", "true"}
Inits == <<While({"}"}, <<Name, If({"="}, <<Adv, Expr, Sep>>, <<Error, Break>>)>>), Close("}")>>
StructLit == <<Adv>> \o Inits \o <<Is("other")>>
AnonObject == <<Adv>> \o Inits
Dictionary ==                  \* min_bp 3: a key stops before "="
    <<Adv, While({"}"}, <<Bp(3), If({"="}, <<Adv, Expr, Sep>>, <<Error, Break>>)>>), Close("}")>>
Brace ==
    <<Ahead(<<{"{"}, Ids, {"="}>>, AnonObject,
      <<Ahead(<<{"{"}, {"}"}>>, <<Adv, Adv>>,
        <<Ahead(<<{"{"}, DictKeys, {"="}>>, Dictionary, <<Call("block")>>)>>)>>)>>

PathSegs == <<Opt(".", <<Ahead(<<Ids \cup Collections \cup {"InlineList", "where"}, {"("}>>, <<Adv>>,
                <<If(PathStart \cup {"where"}, <<Adv, Call("pathSegs")>>, <<Error>>)>>)>>)>>
IdentExpr == <<Adv, If({":="}, <<Adv, Expr, Is("other")>>, <<Call("pathSegs"), Is("path")>>)>>
TupleExpr == <<Opt(",", <<If({")"}, << >>, <<Expr, Call("tupleExpr")>>)>>)>>
Paren == <<Adv, If({")"}, <<Adv, Is("other")>>,
    <<AnyStructLit(<<Expr, If({")"}, <<Adv>>, <<Call("tupleExpr"), Close(")"), Is("other")>>)>>)>>)>>
Array == <<Adv, AnyStructLit(<<While({"]"}, <<Expr, Sep>>)>>), Close("]")>>
IfExpr == IfStmt
MatchExpr == MatchStmt
Lambda ==
    <<Adv, Tok("("), While({")"}, <<May("mut"), Name>> \o Annotation \o <<Sep>>), Close(")"), LambdaType,
      If({"{"}, <<Call("block")>>, <<Expr>>)>>
Unary == <<Adv, Bp(28)>>
Borrow == <<Adv, May("mut"), Bp(28)>>
Other(body) == body \o <<Is("other")>>
Prefix ==
    <<Switch(<<
        << Literals \cup {"self"}, Other(<<Adv>>) >>,
        << PathStart, IdentExpr >>,
        << {"-", "!", "not", "*", "await"}, Other(Unary) >>, << {"&"}, Other(Borrow) >>,
        << {"("}, Paren >>, << {"["}, Other(Array) >>, << {"{"}, Other(Brace) >>,
        << {"if"}, Other(IfExpr) >>, << {"match"}, Other(MatchExpr) >>, << {"fn"}, Other(Lambda) >>,
        << {"async", "unsafe"}, Other(<<Adv, Call("block")>>) >> >>, Give)>>

Arg == <<Ahead(<<Ids, {"="}>>, <<Adv, Adv, Expr>>, <<Expr>>)>>
CallArgs == <<AnyStructLit(<<While({")"}, <<Call("arg"), Sep>>)>>), Close(")"), Is("other")>>
Dot == <<OneOf(Names \cup {"where"}), If({"("}, <<Adv>> \o CallArgs, <<Is("path")>>)>>
Called == <<Noted("(", "second (")>> \o CallArgs          \* the loop consumed one already
Index == <<AnyStructLit(<<Expr>>), Close("]"), Is("other")>>
OptChain ==                    \* these arguments keep a restriction in force
    <<Name, If({"("}, <<Noted("(", "?.("), While({")"}, <<Call("arg"), Sep>>), Close(")")>>, << >>), Is("other")>>
OrElse ==
    <<Switch(<< << {"return"}, <<Adv, If(CanStart, <<Expr>>, << >>)>> >>,
                << {"break", "continue"}, <<Adv>> >> >>, <<Expr>>), Is("other")>>

\* infix_bp: the left and the right binding power.
PostfixOps == {".", "(", "[", "?", "?."}
Power ==
    [t \in PostfixOps |-> <<29, 30>>] @@ [t \in {"=", "+="} |-> <<2, 1>>] @@ [t \in {".."} |-> <<3, 4>>] @@
    [t \in {"or"} |-> <<5, 6>>] @@ [t \in {"and"} |-> <<7, 8>>] @@ [t \in {"=="} |-> <<9, 10>>] @@
    [t \in {"<", ">"} |-> <<11, 12>>] @@ [t \in {"|>"} |-> <<13, 14>>] @@ [t \in {"|"} |-> <<15, 16>>] @@
    [t \in {"^"} |-> <<17, 18>>] @@ [t \in {"&"} |-> <<19, 20>>] @@ [t \in {">>"} |-> <<21, 22>>] @@
    [t \in {"+", "-"} |-> <<23, 24>>] @@ [t \in {"*"} |-> <<25, 26>>] @@ [t \in {"as"} |-> <<27, 28>>]

\* What parse_bp does after consuming the operator t.
AfterOp(t) ==
    CASE t = "." -> Dot [] t = "(" -> Called [] t = "[" -> Index [] t = "?" -> <<Is("other")>>
      [] t = "?." -> OptChain [] t = "as" -> <<Call("type"), Is("other")>>
      [] OTHER -> <<Bp(Power[t][2]), Is("other")>>

-----------------------------------------------------------------------------
(* Attributes: parse_attr.rs.                                              *)

AttrValue == <<OneOf({"str", "int", "true"} \cup Ids)>>
AttrArgs(list) == <<Adv, If({")"}, <<Adv>>, <<Call(list), Close(")")>>)>>
ArgList(self, arg) == <<Call(arg), Opt(",", <<If({")"}, << >>, <<Call(self)>>)>>)>>
AttrArg ==
    <<Switch(<< << {"str", "int", "true"}, <<Adv>> >>,
                << Names, <<Adv, Switch(<< << {"="}, <<Adv>> \o AttrValue >>,
                                           << {"("}, <<Call("attrArgs")>> >> >>, << >>)>> >> >>, Give)>>
CfgArg ==
    <<Switch(<< << {"all"}, <<Adv, Tok("("), Call("cfgArgList"), Close(")")>> >>,
                << Names, <<Adv, Opt("=", AttrValue)>> >> >>, <<Unsaid("cfg argument")>>)>>
TierArgs ==
    <<Ahead(<<{"("}, {"low", "high"}, {"=", "("}>>, <<Call("attrArgs"), Note("bad")>>,
        <<Ahead(<<{"("}, {"low"}>>, <<Call("attrArgs"), Note("low")>>,
            <<Ahead(<<{"("}, {"high"}>>, <<Call("attrArgs"), Note("tier")>>,
                <<If({"("}, <<Call("attrArgs"), Note("bad")>>, Give)>>)>>)>>)>>
Attr ==
    <<Switch(<< << {"tier"}, <<Adv>> \o TierArgs >>,
                << {"cfg"},  <<Adv, If({"("}, AttrArgs("cfgArgList"), << >>), Note("attr")>> >>,
                << Names,    <<Adv, If({"("}, <<Call("attrArgs")>>, << >>), Note("attr")>> >> >>, Give)>>
Attrs == <<If({"@"}, Catch(<<Adv, Call("attr")>>, <<Skip(AttrSync)>>) \o <<Call("attrs")>>, << >>)>>
AttributeList == <<Is("none"), Call("attrs")>>

-----------------------------------------------------------------------------
(* Declarations: parse_decl.rs.                                            *)

List(close, elem, recovery) ==
    <<While({close}, <<Advancing(Catch(<<Call(elem)>>, recovery) \o <<Sep>>)>>)>>
Default == Catch(<<Opt("=", <<Expr>>)>>, << >>)
Param ==
    <<Switch(<<
        << {"self"}, <<Adv>> >>,
        << {"&"},    <<Adv, May("mut"), Tok("self")>> >>,
        << {"mut"},  <<Adv, If({"self"}, <<Adv>>, <<Name>> \o Annotation \o Default)>> >>,
        << {"_"},    <<Adv>> \o Annotation >>,
        << Ids,      <<Adv>> \o Annotation \o Default >> >>, Give)>>
Params == <<Tok("("), While({")"}, Catch(<<Call("param")>>, <<Skip({",", ")"})>>) \o <<Sep>>), Close(")")>>
ReturnSpec == Catch(<<If(TypeStart, <<Call("type"), May("!")>>, << >>)>>, << >>)
FnDecl ==
    <<May("async"), Tok("fn"), Name>> \o LifetimeParams \o GenericParams \o Params \o ReturnSpec \o <<Call("block")>>
Method == <<May("async"), Tok("fn"), Name>> \o GenericParams \o Params \o ReturnSpec \o <<Call("block")>>

StructDecl ==
    <<May("edge"), Tok("struct"), Name>> \o LifetimeParams \o GenericParams \o <<Tok("{")>> \o
    List("}", "member", <<Skip(MemberSync)>>) \o <<Close("}")>>
Property ==
    <<Adv, Switch(<< << {"get"}, <<Adv, Call("block"), Opt("set", <<Call("block")>>), Close("}")>> >>,
                     << Names, <<Adv>> \o Give >> >>, <<Unsaid("accessor")>>)>>
FieldOrProperty == <<Name, Quiet({":"}, "field type"), Call("type"), If({"{"}, Property, << >>)>>
Member ==
    AttributeList \o
    <<May("pub"), Switch(<< << {"async", "fn"}, <<Call("method")>> >>,
        << Ids, <<IfVal({"none"}, << >>, <<Error>>)>> \o FieldOrProperty >> >>, Give)>>

VariantField == <<May("pub"), Name, Quiet({":"}, "variant field type"), Call("type")>>
Variant ==
    <<Name, Switch(<<
        << {"("}, <<Adv>> \o List(")", "type", << >>) \o <<Hope(")", "variant")>> >>,
        << {"{"}, <<Adv>> \o List("}", "variantField", << >>) \o <<Hope("}", "variant")>> >>,
        << {"="}, <<Adv>> \o Catch(<<Expr>>, << >>) >> >>, << >>)>>
EnumDecl ==
    <<Adv, Name>> \o GenericParams \o <<Tok("{")>> \o List("}", "variant", <<Skip(MemberSync)>>) \o <<Close("}")>>

Body(elem) == <<Opt("{", List("}", elem, <<Skip(DeclSync)>>) \o <<Close("}")>>)>>
TraitItem ==
    AttributeList \o
    <<If({"type"}, <<Adv, Name>>,
        <<May("async"), Tok("fn"), Name>> \o GenericParams \o Params \o ReturnSpec \o
        <<If({"{"}, <<Call("block")>>, << >>)>>)>>
TraitDecl == <<Adv, Name>> \o GenericParams \o <<Opt(":", <<Call("bounds")>>)>> \o Body("traitItem")
MethodItem == AttributeList \o <<May("pub"), Call("method")>>
ImplPath == <<If(Names, <<Adv, Opt(".", <<Call("implPath")>>)>>, << >>)>>
ImplBlock ==
    <<Adv>> \o GenericParams \o
    <<Speculate(FALSE, <<Call("implPath"), Call("typeArgs"), If({"for"}, <<Adv>>, <<Fail>>)>>), Call("type"),
      Tok("{")>> \o List("}", "methodItem", <<Skip(DeclSync)>>) \o <<Close("}")>>
ExtendDecl == <<Adv>> \o GenericParams \o <<Call("type")>> \o Body("methodItem")
ConstDecl == <<Adv, Name>> \o Annotation \o <<Tok("="), Expr, Sep>>
StaticDecl == Catch(<<Adv, Name, Tok(":"), Call("type"), Tok("="), Expr>>, <<Skip(DeclSync), Fail>>) \o <<Sep>>
TypeAlias == <<Adv, Name>> \o GenericParams \o <<Tok("="), Call("type"), Sep>>

Seps == <<If({",", ";"}, <<Adv, Call("seps")>>, << >>)>>
AttrBlock == <<Adv, While({}, <<Call("seps"), If({"}", "eof"}, <<Break>>, <<Item>>)>>), Close("}")>>
Decl ==
    <<May("pub"), Switch(<<
        << {"async"}, <<IfVal({"low"}, FnDecl \o <<Error>>, FnDecl)>> >>,
        << {"fn"}, FnDecl >>, << {"edge", "struct"}, StructDecl >>, << {"enum"}, EnumDecl >>,
        << {"trait"}, TraitDecl >>, << {"impl"}, ImplBlock >>, << {"extend"}, ExtendDecl >>,
        << {"const"}, <<IfVal({"tier", "low"}, <<Error>>, << >>)>> \o ConstDecl >>,
        << {"static"}, <<IfVal({"low"}, <<Error>>, << >>)>> \o StaticDecl >>,
        << {"type"}, TypeAlias >> >>, <<Error, Skip(DeclSync), Fail>>), Made>>
Recovering == Catch(Decl, <<If(ItemSync \cup {"eof"}, << >>, <<Adv>>)>>)
ItemOrBlock ==
    AttributeList \o
    <<IfVal({"none"}, <<Call("decl")>>, <<If({"{"}, AttrBlock, <<Call("decl")>>)>>)>>

-----------------------------------------------------------------------------
(* The file: parse_program.rs.                                             *)

DottedPath == <<Name, Call("dotNames")>>
Package == Catch(<<Opt("package", DottedPath \o <<Sep>>)>>, << >>)
Import ==
    <<Switch(<<
        << {"summon"}, <<Adv>> \o DottedPath \o <<Opt("as", <<Eat(Names, "import alias")>>)>> >>,
        << {"from"}, <<Adv>> \o DottedPath \o
            <<Tok("summon"), Switch(<< << {"["},
                <<Adv, While({"]"}, <<Advancing(<<Eat(Names, "import list"), Sep>>)>>), Hope("]", "import list")>> >> >>,
                <<Name>>)>> >> >>, Give), Sep>>
Imports ==
    <<If({"summon", "from"}, Catch(<<Call("import")>>, <<Skip(ImportSync)>>) \o <<Call("imports")>>, << >>)>>
Program ==
    Package \o <<Call("imports"), While({}, <<Call("seps"), If({"eof"}, <<Break>>, <<Call("item")>>)>>)>>

\* The function of a name.
Rule(f) ==
    CASE f = "type" -> Type [] f = "typeBase" -> TypeBase [] f = "postfix" -> Postfix
      [] f = "tupleRest" -> TupleRest [] f = "dotNames" -> DotNames [] f = "typeArgs" -> TypeArgs
      [] f = "bounds" -> Bounds
      [] f = "pattern" -> Pattern [] f = "orPattern" -> OrPattern [] f = "orRest" -> OrRest
      [] f = "single" -> SinglePattern [] f = "patternPath" -> PatternPath [] f = "element" -> Element
      [] f = "destructure" -> Destructure [] f = "binding" -> Binding
      [] f = "semis" -> Semis [] f = "block" -> Block [] f = "stmt" -> Stmt [] f = "branch" -> BranchBody
      [] f = "elifs" -> Elifs [] f = "armBody" -> ArmBody [] f = "arm" -> Arm
      [] f = "usingBindings" -> UsingBindings
      [] f = "prefix" -> Prefix [] f = "pathSegs" -> PathSegs [] f = "tupleExpr" -> TupleExpr
      [] f = "arg" -> Arg
      [] f = "attrs" -> Attrs [] f = "attr" -> Attr [] f = "attrArg" -> AttrArg
      [] f = "attrArgs" -> AttrArgs("attrArgList") [] f = "attrArgList" -> ArgList("attrArgList", "attrArg")
      [] f = "cfgArgList" -> ArgList("cfgArgList", "cfgArg") [] f = "cfgArg" -> CfgArg
      [] f = "param" -> Param [] f = "method" -> Method [] f = "member" -> Member [] f = "variant" -> Variant
      [] f = "variantField" -> VariantField [] f = "traitItem" -> TraitItem [] f = "methodItem" -> MethodItem
      [] f = "implPath" -> ImplPath [] f = "seps" -> Seps [] f = "decl" -> Recovering
      [] f = "item" -> ItemOrBlock [] f = "import" -> Import [] f = "imports" -> Imports
=============================================================================
