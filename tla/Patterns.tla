------------------------------ MODULE Patterns ------------------------------
(***************************************************************************)
(* A pattern of a match arm, read three times: the names name_resolution.rs *)
(* declares for it, what type_infer.rs makes of it knowing the type of the *)
(* value, and what eval/pattern.rs does with it and the value itself.      *)
(* "North" is a variant to one and may be a name to another; nothing in    *)
(* the text of the pattern tells them apart.                               *)
(*                                                                         *)
(* Types, patterns and values are records with a kind k; `of` holds the    *)
(* parts and `fields` the names of those parts that have one.              *)
(***************************************************************************)
EXTENDS Integers, Sequences, SequencesExt, FiniteSets

CONSTANTS Enums,     \* [enum -> variants: records name, shape ("none", "tuple", "struct"), fields, of (types)]
          Structs,   \* [struct -> record fields, of (types)]
          Aliases,   \* [alias -> enum or struct]
          Fits(_),   \* the values of an integer type or of char
          MaxList    \* how long the lists tried are (a bound)

\* A field of the same name as its variable, `{ x }`, is written as the pattern "short".
None == [k |-> "none"]

-----------------------------------------------------------------------------
(* Types.                                                                  *)

Fresh == [k |-> "var"]
IsEnum(ty) == ty.k = "named" /\ ty.def \in DOMAIN Enums

RECURSIVE Substitute(_, _)
Substitute(ty, args) ==
    IF ty.k = "param" THEN args[ty.i]
    ELSE IF ty.k \in {"tuple", "list", "opt", "arena"} THEN [ty EXCEPT !.of = [i \in DOMAIN @ |-> Substitute(@[i], args)]]
    ELSE ty

Concrete(def, args) == {[v EXCEPT !.of = [i \in DOMAIN @ |-> Substitute(@[i], args)]] : v \in Enums[def]}
\* (mutant) the parameters of a generic enum stay as declared
ShapesAsDeclared(ty) == IF IsEnum(ty) THEN Enums[ty.def] ELSE {}
\* enum_shapes_of: the variants of an enum for the arguments of its type; of every other type, none.
ShapesOf(ty) == IF IsEnum(ty) THEN Concrete(ty.def, ty.args) ELSE {}
VariantNamed(ty, n) == {v \in ShapesOf(ty) : v.name = n}

Canonical(n) == IF n \in DOMAIN Aliases THEN Aliases[n] ELSE n

\* Values: null is a value of every optional type, an arena changes nothing about its values.
Null == [k |-> "null"]
RECURSIVE Values(_)
Tuples(tys) == {s \in [DOMAIN tys -> UNION {Values(tys[i]) : i \in DOMAIN tys}] : \A i \in DOMAIN tys : s[i] \in Values(tys[i])}
Values(ty) ==
    CASE ty.k = "opt" -> {Null} \cup Values(ty.of[1])
      [] ty.k = "arena" -> Values(ty.of[1])
      [] ty.k = "tuple" -> {[k |-> "tuple", of |-> s] : s \in Tuples(ty.of)}
      [] ty.k = "list" -> UNION {{[k |-> "list", of |-> s] : s \in Tuples([i \in 1..n |-> ty.of[1]])} : n \in 0..MaxList}
      [] IsEnum(ty) ->
            UNION {{[k |-> "enum", type |-> ty.def, variant |-> v.name, shape |-> v.shape, fields |-> v.fields, of |-> s] :
                        s \in Tuples(v.of)} : v \in Concrete(ty.def, ty.args)}
      [] ty.k = "named" -> {[k |-> "struct", type |-> ty.def, fields |-> Structs[ty.def].fields, of |-> s] :
                                s \in Tuples(Structs[ty.def].of)}
      [] OTHER -> {[k |-> ty.k, n |-> n] : n \in Fits(ty.k)}

-----------------------------------------------------------------------------
(* name_resolution.rs: what an arm may call its values.                    *)

RECURSIVE Declared(_)
Declared(p) ==
    IF p.k \in {"ident", "short"} THEN <<p.name>>
    ELSE IF p.k \in {"tuple", "or", "array", "struct", "enum", "extract"}
         THEN FlattenSeq([i \in DOMAIN p.of |-> Declared(p.of[i])])
    ELSE << >>
\* A name stands once in an arm, in alternatives too, and whether or not it is a variant.
DeclaredTwice(p) == ~IsInjective(Declared(p))

-----------------------------------------------------------------------------
(* type_infer.rs: check_pattern.                                           *)

IntTypes == {"int", "u8"}
\* unify(type of the value, type of the literal); a fresh variable takes the literal's type.
RECURSIVE Admits(_, _)
Admits(ty, l) ==
    CASE ty.k = "var" -> TRUE
      [] ty.k = "opt" -> l.lit = "null" \/ Admits(ty.of[1], l)
      [] ty.k = "arena" -> l.lit = "null" /\ ty.of[1].k = "opt"
      [] l.lit = "int" /\ l.suffix = "" -> ty.k \in IntTypes /\ l.n \in Fits(ty.k)
      [] l.lit = "int" -> ty.k = l.suffix /\ l.n \in Fits(ty.k)
      [] OTHER -> ty.k = l.lit

\* (mutant) a bare name is always a binding
VariantOfPath(p, ty) == IF p.k \in {"struct", "enum"} THEN VariantNamed(ty, p.name) ELSE {}
\* The variant a pattern is taken for, if the type is an enum that has it.
Variant(p, ty) == IF p.k \in {"ident", "struct", "enum"} THEN VariantNamed(ty, p.name) ELSE {}

\* The type a part of a pattern is checked with.
PartType(p, ty, i) ==
    LET vs == Variant(p, ty)
        v == CHOOSE w \in vs : TRUE
    IN CASE p.k = "or" -> ty
         [] p.k = "tuple" /\ ty.k = "tuple" /\ i \in DOMAIN ty.of -> ty.of[i]
         [] vs = {} -> Fresh
         [] p.fields = << >> /\ v.shape = "tuple" /\ i \in DOMAIN v.of -> v.of[i]
         [] p.fields # << >> /\ v.shape = "struct" /\ p.fields[i] \in Range(v.fields) ->
                v.of[CHOOSE j \in DOMAIN v.fields : v.fields[j] = p.fields[i]]
         [] OTHER -> Fresh
Parts(p) == IF p.k \in {"tuple", "or", "array", "struct", "enum", "extract"} THEN DOMAIN p.of ELSE {}

Written(p) ==    \* the payload a pattern spells out
    CASE p.k = "struct" -> "struct" [] p.k = "ident" -> "none" [] OTHER -> p.payload
WrongAlone(p, ty) ==
    \/ p.k = "literal" /\ ~Admits(ty, p)
    \/ p.k = "enum" /\ IsEnum(ty) /\ Variant(p, ty) = {}
    \/ \E v \in Variant(p, ty) :
          \/ v.shape # Written(p)
          \/ v.shape = "tuple" /\ Len(v.of) # Len(p.of)
          \/ v.shape = "struct" /\ ~(Range(p.fields) \subseteq Range(v.fields))
RECURSIVE Wrong(_, _)
Wrong(p, ty) == WrongAlone(p, ty) \/ \E i \in Parts(p) : Wrong(p.of[i], PartType(p, ty, i))

\* PatternCoverage: everything, some variants, nothing known.
All == {"*"}
RECURSIVE Coverage(_, _)
Coverage(p, ty) ==
    CASE p.k = "wild" -> All
      [] p.k = "or" -> UNION {Coverage(p.of[i], ty) : i \in DOMAIN p.of}
      [] Variant(p, ty) # {} -> {p.name}
      [] p.k = "ident" -> All
      [] OTHER -> {}
Exhaustive(covered, ty) == "*" \in covered \/ {v.name : v \in ShapesOf(ty)} \subseteq covered

\* The types recorded for names. A shorthand field is declared under the place of the whole pattern
\* and looked up under its own, so it gets none.
RECURSIVE Recorded(_, _)
Recorded(p, ty) ==
    IF p.k = "ident" /\ Variant(p, ty) = {} THEN {<<p.name, ty>>}
    ELSE UNION {Recorded(p.of[i], PartType(p, ty, i)) : i \in Parts(p)}

-----------------------------------------------------------------------------
(* eval/pattern.rs: match_inner.                                           *)

Field(v, f) == IF f \in Range(v.fields) THEN v.of[CHOOSE i \in DOMAIN v.fields : v.fields[i] = f] ELSE Null

\* The outermost layer of a pattern with parts.
Opens(p, v) ==
    CASE p.k = "tuple" -> v.k \in {"tuple", "list"} /\ Len(p.of) = Len(v.of)
      [] p.k = "array" -> v.k \in {"tuple", "list"} /\ IF p.rest = "" THEN Len(p.of) = Len(v.of) ELSE Len(p.of) <= Len(v.of)
      [] p.k = "struct" /\ v.k = "enum" -> p.name = v.variant /\ v.shape = "struct"
      [] p.k = "struct" -> v.k = "struct" /\ (p.name = "" \/ Canonical(p.name) = v.type)
      [] p.k = "extract" -> v.k = "struct"
      [] OTHER -> /\ v.k = "enum" /\ (p.type = "" \/ Canonical(p.type) = v.type)
                  /\ p.name = v.variant /\ p.payload = v.shape
                  /\ p.payload = "tuple" => Len(p.of) = Len(v.of)
PartOf(p, v, i) == IF p.k \in {"tuple", "array"} \/ p.fields = << >> THEN v.of[i] ELSE Field(v, p.fields[i])

LiteralEquals(l, v) ==
    CASE l.lit = "null" -> v = Null
      [] l.lit = "int" /\ l.suffix = "" -> v.k \in IntTypes /\ v.n = l.n
      [] l.lit = "int" -> v.k = l.suffix /\ v.n = l.n
      [] OTHER -> v.k = l.lit /\ v.n = l.n
\* Only int and char have ranges, and only unsuffixed ends count.
InRange(p, v) == v.k = p.over /\ v.k \in {"int", "char"} /\ p.lo <= v.n /\ v.n < p.hi

\* Failure, or the values of names: a name given twice keeps the last.
No == [ok |-> FALSE, names |-> << >>]
Yes(names) == [ok |-> TRUE, names |-> names]
\* (mutant) a bare name binds, whatever the enum
IsVariantOfNone(v, n) == FALSE
IsVariantOf(v, n) == \E w \in Enums[v.type] : w.name = n

RECURSIVE Match(_, _)
Match(p, v) ==
    CASE p.k = "wild" -> Yes(<< >>)
      [] p.k = "literal" -> [ok |-> LiteralEquals(p, v), names |-> << >>]
      [] p.k = "range" -> [ok |-> InRange(p, v), names |-> << >>]
      [] p.k = "ident" /\ v.k = "enum" /\ v.shape = "none" /\ IsVariantOf(v, p.name) ->
             [ok |-> v.variant = p.name, names |-> << >>]
      [] p.k \in {"ident", "short"} -> Yes(<<<<p.name, v>>>>)
      [] p.k = "or" ->
             LET first == {i \in DOMAIN p.of : Match(p.of[i], v).ok /\ \A j \in 1..i - 1 : ~Match(p.of[j], v).ok}
             IN IF first = {} THEN No ELSE Match(p.of[CHOOSE i \in first : TRUE], v)
      [] ~Opens(p, v) -> No
      [] OTHER ->
             LET parts == [i \in DOMAIN p.of |-> Match(p.of[i], PartOf(p, v, i))]
                 rest == IF p.k = "array" /\ p.rest \notin {"", "_"}
                         THEN <<<<p.rest, [k |-> "list", of |-> SubSeq(v.of, Len(p.of) + 1, Len(v.of))]>>>> ELSE << >>
             IN IF \A i \in DOMAIN parts : parts[i].ok
                THEN Yes(FlattenSeq([i \in DOMAIN parts |-> parts[i].names]) \o rest) ELSE No

\* bind_destructure_pattern: a `let` or `for` takes a value apart without asking whether it fits.
RECURSIVE Bind(_, _)
Bind(p, v) ==
    CASE p.k \in {"ident", "short"} -> <<<<p.name, v>>>>
      [] p.k \in {"tuple", "array"} /\ v.k \in {"tuple", "list"} ->
             LET n == IF Len(p.of) < Len(v.of) THEN Len(p.of) ELSE Len(v.of)
             IN FlattenSeq([i \in 1..n |-> Bind(p.of[i], v.of[i])])
                \o IF p.k = "array" /\ p.rest \notin {"", "_"}
                   THEN <<<<p.rest, [k |-> "list", of |-> SubSeq(v.of, n + 1, Len(v.of))]>>>> ELSE << >>
      [] p.k \in {"tuple", "array"} -> <<<<"_", v>>>>
      [] p.k = "struct" /\ v.k = "struct" -> FlattenSeq([i \in DOMAIN p.of |-> Bind(p.of[i], Field(v, p.fields[i]))])
      [] OTHER -> << >>
=============================================================================
