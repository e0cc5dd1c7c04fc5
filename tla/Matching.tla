------------------------------ MODULE Matching ------------------------------
(***************************************************************************)
(* A match from its check to the arm it takes: name_resolution.rs and      *)
(* type_infer.rs go through the arms and accept or reject them, eval/stmt.rs *)
(* and eval/expr.rs then try them on a value, one by one.                  *)
(***************************************************************************)
EXTENDS Patterns

CONSTANTS Matches,   \* of records: the type of the value, arms (records pat, guarded)
          Lets       \* of records: the type of the value, pat

VARIABLES ty, arms,
          at,          \* the arm looked at
          phase,       \* "check", "run", "guard", "taken", "fell" through, "rejected"; "let", "let done"
          wrong, covered,   \* InferCtx: errors, coverage of the arms without a guard
          value,
          scope        \* the innermost scope of the environment

vars == <<ty, arms, at, phase, wrong, covered, value, scope>>
checked == <<ty, arms, wrong, covered>>
pat == arms[at].pat

Nothing == [n \in {} |-> None]
InOrder(names) == [n \in {names[i][1] : i \in DOMAIN names} |->
                      names[CHOOSE i \in DOMAIN names : names[i][1] = n /\ \A j \in i + 1..Len(names) : names[j][1] # n][2]]

-----------------------------------------------------------------------------
(* The check.                                                              *)

\* (mutant) an arm covers what its guard may refuse
CheckArmWithoutGuard ==
    /\ phase = "check" /\ at <= Len(arms)
    /\ wrong' = (wrong \/ DeclaredTwice(pat) \/ Wrong(pat, ty))
    /\ covered' = covered \cup Coverage(pat, ty)
    /\ at' = at + 1
    /\ UNCHANGED <<ty, arms, phase, value, scope>>
CheckArm ==
    /\ phase = "check" /\ at <= Len(arms)
    /\ wrong' = (wrong \/ DeclaredTwice(pat) \/ Wrong(pat, ty))
    /\ covered' = covered \cup IF arms[at].guarded THEN {} ELSE Coverage(pat, ty)
    /\ at' = at + 1
    /\ UNCHANGED <<ty, arms, phase, value, scope>>
Reject ==
    /\ phase = "check" /\ at > Len(arms) /\ (wrong \/ (IsEnum(ty) /\ ~Exhaustive(covered, ty)))
    /\ phase' = "rejected"
    /\ UNCHANGED <<checked, at, value, scope>>

-----------------------------------------------------------------------------
(* The run.                                                                *)

Evaluate ==
    /\ phase = "check" /\ at > Len(arms) /\ ~wrong /\ (IsEnum(ty) => Exhaustive(covered, ty))
    /\ value' \in Values(ty) /\ phase' = "run" /\ at' = 1
    /\ UNCHANGED <<checked, scope>>

TryArm ==
    /\ phase = "run" /\ at <= Len(arms)
    /\ LET m == Match(pat, value)
       IN \/ /\ m.ok /\ scope' = InOrder(m.names) /\ UNCHANGED at
             /\ phase' = IF arms[at].guarded THEN "guard" ELSE "taken"
          \/ /\ ~m.ok /\ at' = at + 1
             /\ UNCHANGED <<scope, phase>>
    /\ UNCHANGED <<checked, value>>

GuardHolds == phase = "guard" /\ phase' = "taken" /\ UNCHANGED <<checked, at, value, scope>>
GuardFails ==     \* the scope of the arm is popped
    /\ phase = "guard" /\ phase' = "run" /\ at' = at + 1 /\ scope' = Nothing
    /\ UNCHANGED <<checked, value>>

\* Only names are resolved: neither the shape of the pattern nor its parts meet the type.
LetBinds ==
    /\ phase = "let" /\ ~DeclaredTwice(pat)
    /\ \E v \in Values(ty) : value' = v /\ scope' = InOrder(Bind(pat, v))
    /\ phase' = "let done"
    /\ UNCHANGED <<checked, at>>

FallThrough ==
    /\ phase = "run" /\ at > Len(arms) /\ phase' = "fell"
    /\ UNCHANGED <<checked, at, value, scope>>

Init ==
    /\ \/ phase = "check" /\ \E m \in Matches : ty = m.type /\ arms = m.arms
       \/ phase = "let" /\ \E l \in Lets : ty = l.type /\ arms = <<[pat |-> l.pat, guarded |-> FALSE]>>
    /\ at = 1 /\ wrong = FALSE /\ covered = {} /\ value = None /\ scope = Nothing
Next == CheckArm \/ Reject \/ Evaluate \/ TryArm \/ GuardHolds \/ GuardFails \/ FallThrough \/ LetBinds
Spec == Init /\ [][Next]_vars

-----------------------------------------------------------------------------
(* What the check promises.                                                *)

\* The values a pattern stands for as inference read it.
RECURSIVE Reads(_, _, _)
Reads(p, t, v) ==
    LET inside == \A i \in DOMAIN p.of : Reads(p.of[i], PartType(p, t, i), PartOf(p, v, i))
    IN CASE p.k = "literal" -> LiteralEquals(p, v)
         [] p.k = "range" -> v.k \in (IF p.over = "char" THEN {"char"} ELSE IntTypes) /\ p.lo <= v.n /\ v.n < p.hi
         [] p.k = "or" -> \E i \in DOMAIN p.of : Reads(p.of[i], t, v)
         [] Variant(p, t) # {} -> v.k = "enum" /\ v.variant = p.name /\ inside
         [] p.k \in {"wild", "ident", "short"} -> TRUE
         [] OTHER -> Opens(p, v) /\ inside

VariantNames == UNION {{v.name : v \in Enums[e]} : e \in DOMAIN Enums}
\* The spots where the three readings are known to part:
\*   mixed    the bare name of a variant, in an enum whose other variants carry values: the interpreter
\*            looks at the name only when the value at hand carries none
\*   unseen   the name of a variant where inference knows no enum: part of a struct or list, optional, in an arena
\*   path     Other.Variant: inference looks at the last segment only
\*   range    a range over a sized integer, which inference accepts and the interpreter never matches
\*   refuses  a part of a variant that can fail, though the variant counts as covered
\*   branch   alternatives that bind different names
RECURSIVE Gaps(_, _)
Gaps(p, t) ==
    (IF p.k = "ident" /\ \E v \in ShapesOf(t) : v.shape # "none" THEN {"mixed"} ELSE {})
    \cup (IF p.k = "ident" /\ ~IsEnum(t) /\ p.name \in VariantNames THEN {"unseen"} ELSE {})
    \cup (IF p.k = "enum" /\ Variant(p, t) # {} /\ p.type # "" /\ Canonical(p.type) # t.def THEN {"path"} ELSE {})
    \cup (IF p.k = "range" /\ t.k \notin {"int", "char"} THEN {"range"} ELSE {})
    \cup (IF Variant(p, t) # {} /\ \E i \in Parts(p) : p.of[i].k # "short" /\ Coverage(p.of[i], PartType(p, t, i)) # All
          THEN {"refuses"} ELSE {})
    \cup (IF p.k = "or" /\ \E i, j \in DOMAIN p.of : Range(Declared(p.of[i])) # Range(Declared(p.of[j])) THEN {"branch"} ELSE {})
    \cup UNION {Gaps(p.of[i], PartType(p, t, i)) : i \in Parts(p)}
Gap == Gaps(pat, ty)

Tried == phase \in {"run", "guard", "taken"} /\ at <= Len(arms)
\* An accepted match means what inference read: an arm is entered exactly for the values its pattern
\* stands for, so that the arm taken is the first of those whose guard holds.
ReadAsChecked ==
    Tried /\ Gap \cap {"mixed", "unseen", "path", "range"} = {} => (Match(pat, value).ok <=> Reads(pat, ty, value))

\* A match over an enum that was accepted takes an arm.
SomeArm ==
    phase = "fell" /\ IsEnum(ty) =>
        \E i \in DOMAIN arms : ~arms[i].guarded /\ Gaps(arms[i].pat, ty) \cap {"path", "refuses"} # {}

\* A `let` that takes more out of a value than its type has.
RECURSIVE Loose(_, _)
Loose(p, t) ==
    CASE p.k \in {"tuple", "array"} ->
             t.k # "tuple" \/ Len(p.of) > Len(t.of) \/ \E i \in DOMAIN p.of : Loose(p.of[i], t.of[i])
      [] p.k = "struct" ->
             t.k # "named" \/ IsEnum(t) \/
             \E i \in DOMAIN p.of : p.of[i].k # "short" /\
                \/ p.fields[i] \notin Range(Structs[t.def].fields)
                \/ \E j \in DOMAIN Structs[t.def].fields :
                      Structs[t.def].fields[j] = p.fields[i] /\ Loose(p.of[i], Structs[t.def].of[j])
      [] OTHER -> FALSE

RECURSIVE Rests(_)
Rests(p) == (IF p.k = "array" THEN {p.rest} \ {"", "_"} ELSE {}) \cup UNION {Rests(p.of[i]) : i \in Parts(p)}
RECURSIVE Shorthands(_)
Shorthands(p) == IF p.k = "short" THEN {p.name} ELSE UNION {Shorthands(p.of[i]) : i \in Parts(p)}
ValuesTyped == \A r \in Recorded(pat, ty) : r[1] \in DOMAIN scope /\ r[2] # Fresh => scope[r[1]] \in Values(r[2])
\* In the arm taken exactly the names are bound that its pattern binds as inference read it, and the
\* rest of a list, each with a value of the type recorded for it; names of arms tried before are
\* gone.  A `let` binds its names unless it is loose.
NamesBound ==
    /\ phase = "taken" /\ Gap \cap {"mixed", "unseen", "branch"} = {} =>
           DOMAIN scope = {r[1] : r \in Recorded(pat, ty)} \cup Shorthands(pat) \cup Rests(pat)
    /\ phase = "taken" => ValuesTyped
    /\ phase = "let done" /\ ~Loose(pat, ty) => DOMAIN scope = Range(Declared(pat)) \cup Rests(pat)
=============================================================================
