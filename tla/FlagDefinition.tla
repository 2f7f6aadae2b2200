--------------------------- MODULE FlagDefinition ---------------------------
(***************************************************************************)
(* What a feature flag is: the parser that turns JSON into a definition,   *)
(* the code defaults, and the evaluator behind every flags.get().          *)
(*                                                                         *)
(* A JSON number counts halves, so that fractions exist: [type |-> number, *)
(* n |-> 5] is 2.5. A list of rules keeps the positions of its entries:    *)
(* one the parser skips leaves a gap, which changes nothing for the first  *)
(* match.                                                                  *)
(***************************************************************************)
EXTENDS Integers, Sequences

CONSTANTS
    FlagNames,          \* the catalog: FLAG_DEFAULTS and the tools' flags
    Raws,               \* JSON definitions an operator or a file may hold
    MaxRules,           \* bound on the rules of one definition
    FieldValues,        \* what the fields of a context hold: user ids, roles
    Absent,             \* a context field or predicate field not given
    NoContext,          \* flags.get(name) without a context
    BucketFor(_, _)     \* bucket.ts: sha1 of flag and user, modulo 100

NumericFlags == {"PAGINATION_LIMIT", "RATE_LIMIT_PER_MINUTE"}

\* The other core flags, and TOOL_<NAME>_ENABLED of every tool.
BooleanFlags == FlagNames \ NumericFlags

ContextKeys == {"userId", "clientType", "userRole", "plan"}

JsonValue == [type : {"boolean", "number", "other"}, n : Int]

Bool(b) == [type |-> "boolean", n |-> IF b THEN 1 ELSE 0]

Number(k) == [type |-> "number", n |-> k]

NoPercentage == -1

Predicate == [ContextKeys -> FieldValues \cup {Absent}]

RawRule == [object : BOOLEAN, if : Predicate, value : JsonValue]

RawDefinition ==
    [default : JsonValue, rules : Seq(RawRule), percentage : Int]

ASSUME RawsAssumption ==
    /\ Raws \subseteq RawDefinition
    /\ MaxRules \in Nat \ {0}
    /\ \A raw \in Raws : Len(raw.rules) <= MaxRules

ASSUME FieldsAssumption == "admin" \in FieldValues /\ Absent \notin FieldValues

ASSUME BucketAssumption ==
    \A f \in FlagNames : \A u \in FieldValues : BucketFor(f, u) \in 0..99

-----------------------------------------------------------------------------
(* Definitions in the shape the service keeps.                             *)

PAGINATION_MIN == 10

PAGINATION_MAX == 100

\* The values a flag may be given: the bounds README.md states for it.
Legal(f, v) ==
    \/ /\ f \in BooleanFlags
       /\ v.type = "boolean"
    \/ /\ f = "PAGINATION_LIMIT"
       /\ v.type = "number"
       /\ v.n \in PAGINATION_MIN..PAGINATION_MAX
    \/ /\ f = "RATE_LIMIT_PER_MINUTE"
       /\ v.type = "number"
       /\ v.n \in Nat

FlagValue == [type : {"boolean", "number"}, n : Int]

Rule == [if : Predicate, value : FlagValue]

IsDefinition(d) ==
    /\ d.default \in FlagValue
    /\ DOMAIN d.rules \subseteq 1..MaxRules
    /\ \A i \in DOMAIN d.rules : d.rules[i] \in Rule
    /\ d.percentage \in NoPercentage..100

NoFields == [k \in ContextKeys |-> Absent]

Plain(v) == [default |-> v, rules |-> <<>>, percentage |-> NoPercentage]

\* A default with the rule for administrators that ships in the code.
WithAdminRule(v, admin) ==
    [default |-> v,
     rules |-> <<[if |-> [NoFields EXCEPT !["userRole"] = "admin"],
                  value |-> admin]>>,
     percentage |-> NoPercentage]

FLAG_DEFAULTS ==
    [f \in FlagNames |->
        IF f = "PAGINATION_LIMIT" THEN WithAdminRule(Number(20), Number(100))
        ELSE IF f = "RATE_LIMIT_PER_MINUTE"
        THEN WithAdminRule(Number(60), Number(600))
        ELSE IF f = "AI_TOOLS_ENABLED"
        THEN WithAdminRule(Bool(FALSE), Bool(TRUE))
        ELSE Plain(Bool(TRUE))]

-----------------------------------------------------------------------------
(* The parser.                                                             *)

\* clampBareValue accepts the value.
Coercible(f, v) ==
    \/ /\ f \in BooleanFlags
       /\ v.type = "boolean"
    \/ /\ f = "PAGINATION_LIMIT"
       /\ v.type = "number"
       /\ v.n % 2 = 0
    \/ /\ f = "RATE_LIMIT_PER_MINUTE"
       /\ v.type = "number"
       /\ v.n > 0

\* Mutant of clampBareValue: the page size is not clamped.
UnclampedValue(f, v) ==
    IF f \in BooleanFlags THEN v ELSE Number(v.n \div 2)

\* The value clampBareValue returns: booleans as they are, page sizes within
\* bounds, rate limits rounded down.
clampBareValue(f, v) ==
    IF f \in BooleanFlags THEN v
    ELSE IF f = "PAGINATION_LIMIT" /\ v.n < 2 * PAGINATION_MIN
    THEN Number(PAGINATION_MIN)
    ELSE IF f = "PAGINATION_LIMIT" /\ v.n > 2 * PAGINATION_MAX
    THEN Number(PAGINATION_MAX)
    ELSE Number(v.n \div 2)

\* Mutant of parseRules: a rule with an unacceptable value is kept.
UncheckedRules(f, rules) ==
    [i \in {i \in DOMAIN rules : rules[i].object} |->
        [if |-> rules[i].if, value |-> clampBareValue(f, rules[i].value)]]

\* Entries that are objects with an object `if` and an acceptable value.
parseRules(f, rules) ==
    [i \in {i \in DOMAIN rules :
                rules[i].object /\ Coercible(f, rules[i].value)} |->
        [if |-> rules[i].if, value |-> clampBareValue(f, rules[i].value)]]

\* parseDefinition returns a definition. A bare primitive is a definition
\* without rules and percentage; what is no object has no default either.
Valid(f, raw) == Coercible(f, raw.default)

parseDefinition(f, raw) ==
    [default |-> clampBareValue(f, raw.default),
     rules |-> parseRules(f, raw.rules),
     percentage |->
        IF f \in BooleanFlags /\ raw.percentage \in 0..200
        THEN raw.percentage \div 2
        ELSE NoPercentage]

\* parseDefinitions: the entries of known flags that parse.
ParsedNames(source) == {f \in DOMAIN source : Valid(f, source[f])}

-----------------------------------------------------------------------------
(* The evaluator.                                                          *)

matchesRule(predicate, ctx) ==
    \A k \in ContextKeys : predicate[k] # Absent => predicate[k] = ctx[k]

Hits(rules, ctx) == {i \in DOMAIN rules : matchesRule(rules[i].if, ctx)}

FirstHit(rules, ctx) ==
    CHOOSE i \in Hits(rules, ctx) : \A j \in Hits(rules, ctx) : i <= j

RuleDecides(d, ctx) == ctx # NoContext /\ Hits(d.rules, ctx) # {}

RolloutDecides(d, ctx) ==
    /\ d.percentage # NoPercentage
    /\ d.default.type = "boolean"
    /\ ctx # NoContext
    /\ ctx["userId"] # Absent

evaluateFlag(f, d, ctx) ==
    IF RuleDecides(d, ctx) THEN d.rules[FirstHit(d.rules, ctx)].value
    ELSE IF RolloutDecides(d, ctx)
    THEN Bool(BucketFor(f, ctx["userId"]) < d.percentage)
    ELSE d.default
=============================================================================
