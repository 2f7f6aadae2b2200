----------------------------- MODULE FlagProofs -----------------------------
(***************************************************************************)
(* What the parser returns and what the evaluator makes of it, for any     *)
(* flags, definitions, contexts and hash; and FlagService's properties for *)
(* any number of processes, calls, flags and definitions, from the         *)
(* invariant of FlagInductive.                                             *)
(***************************************************************************)
EXTENDS FlagInductive, TLAPS, WellFoundedInduction

-----------------------------------------------------------------------------
(* The parser.                                                             *)

\* A definition all of whose values are within the flag's bounds.
LegalDefinition(f, d) ==
    /\ IsDefinition(d)
    /\ Legal(f, d.default)
    /\ \A i \in DOMAIN d.rules : Legal(f, d.rules[i].value)

\* What clampBareValue accepts it brings within the bounds of the flag.
LEMMA ClampLegal ==
    ASSUME NEW f \in FlagNames, NEW v \in JsonValue, Coercible(f, v)
    PROVE  /\ clampBareValue(f, v) \in FlagValue
           /\ Legal(f, clampBareValue(f, v))
<1> USE DEF JsonValue, FlagValue, Coercible, Legal, clampBareValue, Number,
            PAGINATION_MIN, PAGINATION_MAX
<1>1. CASE f \in BooleanFlags
    BY <1>1 DEF BooleanFlags, NumericFlags
<1>2. CASE f = "PAGINATION_LIMIT"
    <2>1. f \notin BooleanFlags
        BY <1>2 DEF BooleanFlags, NumericFlags
    <2>2. v.n \in Int /\ v.n \div 2 \in Int
        OBVIOUS
    <2>3. v.n >= 20 /\ v.n <= 200 => v.n \div 2 \in 10..100
        BY <2>2
    <2> QED
        BY <1>2, <2>1, <2>2, <2>3
<1>3. CASE f = "RATE_LIMIT_PER_MINUTE"
    <2>1. f \notin BooleanFlags
        BY <1>3 DEF BooleanFlags, NumericFlags
    <2>2. v.n \in Int /\ v.n > 0
        BY <1>3, <2>1
    <2>3. v.n \div 2 \in Nat
        BY <2>2
    <2> QED
        BY <1>3, <2>1, <2>2, <2>3
<1> QED
    BY <1>1, <1>2, <1>3

\* Rules that parse carry legal values, at positions of the list they come from.
LEMMA RulesLegal ==
    ASSUME NEW f \in FlagNames, NEW rules \in Seq(RawRule),
           Len(rules) <= MaxRules
    PROVE  /\ DOMAIN parseRules(f, rules) \subseteq 1..MaxRules
           /\ \A i \in DOMAIN parseRules(f, rules) :
                /\ parseRules(f, rules)[i] \in Rule
                /\ Legal(f, parseRules(f, rules)[i].value)
<1>1. /\ MaxRules \in Nat
      /\ DOMAIN rules = 1..Len(rules)
      /\ Len(rules) \in Nat
    BY RawsAssumption
<1>2. DOMAIN parseRules(f, rules) \subseteq DOMAIN rules
    BY DEF parseRules
<1>3. ASSUME NEW i \in DOMAIN parseRules(f, rules)
      PROVE  /\ parseRules(f, rules)[i] \in Rule
             /\ Legal(f, parseRules(f, rules)[i].value)
    <2>1. rules[i] \in RawRule /\ Coercible(f, rules[i].value)
        BY <1>2, <1>3 DEF parseRules
    <2>2. rules[i].value \in JsonValue /\ rules[i].if \in Predicate
        BY <2>1 DEF RawRule
    <2>3. parseRules(f, rules)[i] =
            [if |-> rules[i].if, value |-> clampBareValue(f, rules[i].value)]
        BY <1>2, <1>3 DEF parseRules
    <2> QED
        BY <2>1, <2>2, <2>3, ClampLegal DEF Rule
<1> QED
    BY <1>1, <1>2, <1>3

\* Whatever JSON parses is a legal definition.
THEOREM ParsedIsLegal ==
    ASSUME NEW f \in FlagNames, NEW raw \in Raws, Valid(f, raw)
    PROVE  LegalDefinition(f, parseDefinition(f, raw))
<1>1. /\ raw \in RawDefinition
      /\ Len(raw.rules) <= MaxRules
    BY RawsAssumption
<1>2. /\ raw.default \in JsonValue
      /\ raw.rules \in Seq(RawRule)
      /\ raw.percentage \in Int
    BY <1>1 DEF RawDefinition
<1> DEFINE d == parseDefinition(f, raw)
<1>3. /\ d.default = clampBareValue(f, raw.default)
      /\ d.rules = parseRules(f, raw.rules)
    BY DEF parseDefinition
<1>4. d.percentage \in NoPercentage..100
    <2>1. \A p \in 0..200 : p \div 2 \in 0..100
        OBVIOUS
    <2> QED
        BY <2>1 DEF parseDefinition, NoPercentage
<1>5. d.default \in FlagValue /\ Legal(f, d.default)
    BY <1>2, <1>3, ClampLegal DEF Valid
<1> QED
    BY <1>1, <1>2, <1>3, <1>4, <1>5, RulesLegal
    DEF LegalDefinition, IsDefinition

\* The defaults in the code are legal definitions.
LEMMA DefaultsLegal ==
    ASSUME NEW f \in FlagNames
    PROVE  LegalDefinition(f, FLAG_DEFAULTS[f])
<1> USE DEF Plain, WithAdminRule, Number, Bool, FlagValue, NoPercentage
<1>1. 1 \in 1..MaxRules
    BY RawsAssumption
<1>2. [NoFields EXCEPT !["userRole"] = "admin"] \in Predicate
    BY FieldsAssumption DEF NoFields, Predicate, ContextKeys
<1>3. ASSUME NEW v \in FlagValue, NEW w \in FlagValue, Legal(f, v), Legal(f, w)
      PROVE  LegalDefinition(f, WithAdminRule(v, w))
    <2> DEFINE p == [NoFields EXCEPT !["userRole"] = "admin"]
               r == [if |-> p, value |-> w]
    <2>1. r \in Rule
        BY <1>2 DEF Rule
    <2>2. WithAdminRule(v, w) =
            [default |-> v, rules |-> <<r>>, percentage |-> NoPercentage]
        OBVIOUS
    <2>3. DOMAIN <<r>> = {1} /\ <<r>>[1] = r
        OBVIOUS
    <2> QED
        BY <1>1, <1>3, <2>1, <2>2, <2>3 DEF LegalDefinition, IsDefinition
<1>4. ASSUME NEW v \in FlagValue, Legal(f, v)
      PROVE  LegalDefinition(f, Plain(v))
    <2>1. DOMAIN <<>> = {}
        OBVIOUS
    <2> QED
        BY <1>4, <2>1 DEF LegalDefinition, IsDefinition
<1>5. CASE f = "PAGINATION_LIMIT"
    <2>1. Legal(f, Number(20)) /\ Legal(f, Number(100))
        BY <1>5 DEF Legal, PAGINATION_MIN, PAGINATION_MAX
    <2> QED
        BY <1>3, <1>5, <2>1 DEF FLAG_DEFAULTS
<1>6. CASE f = "RATE_LIMIT_PER_MINUTE"
    <2>1. Legal(f, Number(60)) /\ Legal(f, Number(600))
        BY <1>6 DEF Legal
    <2> QED
        BY <1>3, <1>6, <2>1 DEF FLAG_DEFAULTS
<1>7. CASE f \notin NumericFlags
    <2>1. f \in BooleanFlags /\ Legal(f, Bool(TRUE)) /\ Legal(f, Bool(FALSE))
        BY <1>7 DEF Legal, BooleanFlags
    <2>2. FLAG_DEFAULTS[f] = IF f = "AI_TOOLS_ENABLED"
                             THEN WithAdminRule(Bool(FALSE), Bool(TRUE))
                             ELSE Plain(Bool(TRUE))
        BY <1>7 DEF FLAG_DEFAULTS, NumericFlags
    <2> QED
        BY <1>3, <1>4, <2>1, <2>2
<1> QED
    BY <1>5, <1>6, <1>7 DEF NumericFlags
-----------------------------------------------------------------------------
(* The evaluator.                                                          *)

\* A set of positions has a first one.
LEMMA FirstPosition ==
    ASSUME NEW S, S \subseteq Nat, S # {}
    PROVE  \E i \in S : \A j \in S : i <= j
<1> DEFINE R == {ss \in Nat \X Nat : ss[1] < ss[2]}
<1>1. IsWellFoundedOn(R, Nat)
    BY NatLessThanWellFounded DEF OpToRel
<1>2. \E i \in S : \A j \in S : ~ (<<j, i>> \in R)
    <2> HIDE DEF R
    <2> QED
        BY <1>1, WFMin
<1>3. PICK i \in S : \A j \in S : ~ (<<j, i>> \in R)
    BY <1>2
<1>4. ASSUME NEW j \in S PROVE i <= j
    <2>1. i \in Nat /\ j \in Nat /\ ~ (<<j, i>> \in R)
        BY <1>3
    <2>2. ~ (j < i)
        BY <2>1
    <2> QED
        BY <2>1, <2>2
<1> QED
    BY <1>3, <1>4

\* The rule the evaluator applies is a rule of the definition that matches.
LEMMA FirstHitMatches ==
    ASSUME NEW d, IsDefinition(d), NEW ctx, Hits(d.rules, ctx) # {}
    PROVE  FirstHit(d.rules, ctx) \in Hits(d.rules, ctx)
<1> DEFINE S == Hits(d.rules, ctx)
<1>1. S # {} /\ S \subseteq Nat
    BY RawsAssumption DEF IsDefinition, Hits
<1>2. \E i \in S : \A j \in S : i <= j
    <2> HIDE DEF S
    <2> QED
        BY <1>1, FirstPosition
<1> QED
    BY <1>2 DEF FirstHit

\* A legal definition evaluates to a value within bounds in every context.
THEOREM EvaluationIsLegal ==
    ASSUME NEW f \in FlagNames, NEW d, LegalDefinition(f, d), NEW ctx
    PROVE  Legal(f, evaluateFlag(f, d, ctx))
<1>1. CASE RuleDecides(d, ctx)
    <2>1. FirstHit(d.rules, ctx) \in DOMAIN d.rules
        BY <1>1, FirstHitMatches DEF RuleDecides, LegalDefinition, Hits
    <2> QED
        BY <1>1, <2>1 DEF LegalDefinition, evaluateFlag
<1>2. CASE ~RuleDecides(d, ctx) /\ RolloutDecides(d, ctx)
    <2>1. f \in BooleanFlags
        BY <1>2 DEF RolloutDecides, LegalDefinition, Legal
    <2>2. Legal(f, Bool(TRUE)) /\ Legal(f, Bool(FALSE))
        BY <2>1 DEF Legal, Bool
    <2>3. \/ evaluateFlag(f, d, ctx) = Bool(TRUE)
          \/ evaluateFlag(f, d, ctx) = Bool(FALSE)
        BY <1>2 DEF evaluateFlag, Bool
    <2> QED
        BY <2>2, <2>3
<1>3. CASE ~RuleDecides(d, ctx) /\ ~RolloutDecides(d, ctx)
    BY <1>3 DEF LegalDefinition, evaluateFlag
<1> QED
    BY <1>1, <1>2, <1>3

\* Raising the percentage of a rollout takes nobody out of it: a user the flag
\* was on for keeps it.
THEOREM RolloutGrows ==
    ASSUME NEW f \in FlagNames, NEW d, NEW e,
           IsDefinition(d), IsDefinition(e),
           d.default = e.default, d.rules = e.rules,
           d.percentage # NoPercentage, d.percentage <= e.percentage,
           NEW ctx \in Predicate, ctx["userId"] # Absent,
           d.default.type = "boolean",
           evaluateFlag(f, d, ctx) = Bool(TRUE)
    PROVE  evaluateFlag(f, e, ctx) = Bool(TRUE)
<1>1. RuleDecides(d, ctx) <=> RuleDecides(e, ctx)
    BY DEF RuleDecides
<1>2. CASE RuleDecides(d, ctx)
    BY <1>1, <1>2 DEF evaluateFlag
<1>3. CASE ~RuleDecides(d, ctx) /\ ctx = NoContext
    BY <1>1, <1>3 DEF evaluateFlag, RolloutDecides
<1>4. CASE ~RuleDecides(d, ctx) /\ ctx # NoContext
    <2> DEFINE b == BucketFor(f, ctx["userId"])
    <2>1. RolloutDecides(d, ctx) /\ RolloutDecides(e, ctx)
        BY <1>4 DEF RolloutDecides, IsDefinition, NoPercentage
    <2>2. ctx["userId"] \in FieldValues /\ b \in 0..99
        BY BucketAssumption DEF Predicate, ContextKeys
    <2>3. Bool(b < d.percentage) = Bool(TRUE)
        BY <1>4, <2>1 DEF evaluateFlag
    <2>4. b < d.percentage
        BY <2>3 DEF Bool
    <2>5. b \in Int /\ d.percentage \in Int /\ e.percentage \in Int
        BY <2>2 DEF IsDefinition, NoPercentage
    <2>6. b < e.percentage
        <3> HIDE DEF b
        <3> QED
            BY <2>4, <2>5
    <2> QED
        BY <1>1, <1>4, <2>1, <2>6 DEF evaluateFlag, Bool
<1> QED
    BY <1>2, <1>3, <1>4

-----------------------------------------------------------------------------
(* Sources and what is made of them.                                       *)

\* Nothing is parsed from a source without entries.
LEMMA EmptySource == Empty \in Sources /\ DOMAIN Empty = {}
<1>1. Empty = [f \in {} |-> None]
    BY DEF Empty
<1>2. Empty \in [{} -> Raws]
    BY <1>1
<1> QED
    BY <1>1, <1>2 DEF Sources

\* Whatever a file and a table hold, the flags made of them are legal.
LEMMA LayeredLegal ==
    ASSUME NEW file \in Sources, NEW rows \in Sources
    PROVE  /\ Layered(file, rows) =
                [f \in FlagNames |-> Layered(file, rows)[f]]
           /\ \A f \in FlagNames : LegalDefinition(f, Layered(file, rows)[f])
<1>1. \A source \in Sources : \A f \in DOMAIN source :
        f \in FlagNames /\ source[f] \in Raws
    BY DEF Sources
<1>2. ASSUME NEW f \in FlagNames
      PROVE  LegalDefinition(f, Layered(file, rows)[f])
    <2>1. CASE f \in ParsedNames(rows)
        BY <1>1, <2>1, ParsedIsLegal DEF Layered, ParsedNames
    <2>2. CASE f \notin ParsedNames(rows) /\ f \in ParsedNames(file)
        BY <1>1, <2>2, ParsedIsLegal DEF Layered, ParsedNames
    <2>3. CASE f \notin ParsedNames(rows) /\ f \notin ParsedNames(file)
        BY <2>3, DefaultsLegal DEF Layered
    <2> QED
        BY <2>1, <2>2, <2>3
<1> QED
    BY <1>2 DEF Layered

\* The same of the defaults alone.
LEMMA DefaultFlags ==
    /\ FLAG_DEFAULTS = [f \in FlagNames |-> FLAG_DEFAULTS[f]]
    /\ \A f \in FlagNames : LegalDefinition(f, FLAG_DEFAULTS[f])
BY DefaultsLegal, ZenonT(30) DEF FLAG_DEFAULTS

\* The rows of any state of the table, and of none, are a source.
LEMMA RowsSource ==
    ASSUME tables \in Seq(Sources), NEW j \in 0..Len(tables)
    PROVE  Rows(j) \in Sources
BY EmptySource DEF Rows

-----------------------------------------------------------------------------
(* Steps.                                                                  *)

\* An update that reaches the table, with all that is known of its new rows.
Update(c, s) ==
    \E rows \in Sources :
        /\ \A f \in DOMAIN rows : Valid(f, rows[f])
        /\ Write(c, s, rows)

\* Every kind of update leaves a table whose rows parse.
LEMMA UpdatesParse ==
    ASSUME TypeOK, RowsParse, NEW c \in Calls, NEW s \in Servers,
           \/ \E f \in FlagNames, d \in Raws : SetOverride(c, s, f, d)
           \/ \E f \in FlagNames : ClearOverride(c, s, f)
           \/ ClearAllOverrides(c, s)
    PROVE  Update(c, s)
<1>1. /\ Table \in Sources
      /\ DOMAIN Table \subseteq FlagNames
      /\ \A f \in DOMAIN Table : Table[f] \in Raws /\ Valid(f, Table[f])
    <2>1. Len(tables) \in 1..Len(tables)
        BY DEF TypeOK
    <2>2. Table \in Sources
        BY <2>1 DEF TypeOK, Table
    <2>3. \A f \in DOMAIN Table : f \in FlagNames /\ Table[f] \in Raws
        BY <2>2 DEF Sources
    <2> QED
        BY <2>1, <2>2, <2>3 DEF RowsParse, Table
<1>2. ASSUME NEW f \in FlagNames, NEW d \in Raws, SetOverride(c, s, f, d)
      PROVE  Update(c, s)
    <2> DEFINE D == DOMAIN Table \cup {f}
               rows == Upsert(f, d)
    <2>1. D \in SUBSET FlagNames /\ rows \in [D -> Raws]
        BY <1>1 DEF Upsert
    <2>2. rows \in Sources
        BY <2>1 DEF Sources
    <2>3. \A g \in DOMAIN rows : Valid(g, rows[g])
        BY <1>1, <1>2 DEF Upsert, SetOverride
    <2> QED
        BY <1>2, <2>2, <2>3 DEF SetOverride, Update
<1>3. ASSUME NEW f \in FlagNames, ClearOverride(c, s, f)
      PROVE  Update(c, s)
    <2> DEFINE D == DOMAIN Table \ {f}
               rows == [g \in D |-> Table[g]]
    <2>1. D \in SUBSET FlagNames /\ rows \in [D -> Raws]
        BY <1>1
    <2>2. rows \in Sources
        BY <2>1 DEF Sources
    <2>3. \A g \in DOMAIN rows : Valid(g, rows[g])
        BY <1>1
    <2> QED
        BY <1>3, <2>2, <2>3 DEF ClearOverride, Update
<1>4. ASSUME ClearAllOverrides(c, s)
      PROVE  Update(c, s)
    BY <1>4, EmptySource DEF ClearAllOverrides, Update
<1> QED
    BY <1>2, <1>3, <1>4

\* A reload that no update asked for.
Asked(c, s) == up[s] # "down" /\ Begin(c, s)

\* The steps the proofs below go through.
LEMMA Steps ==
    ASSUME TypeOK, RowsParse, Next
    PROVE  \/ \E c \in Calls : ReloadAfterWrite(c)
           \/ \E c \in Calls : QueryTable(c)
           \/ \E c \in Calls : QueryFails(c)
           \/ \E c \in Calls : Install(c)
           \/ \E c \in Calls, s \in Servers : Asked(c, s)
           \/ \E c \in Calls, s \in Servers : Update(c, s)
           \/ \E c \in Calls, s \in Servers : UpdateRefused(c, s)
           \/ \E s \in Servers : StartProcess(s)
           \/ \E s \in Servers : Crash(s)
           \/ EditFile
<1>1. ASSUME NEW c \in Calls, NEW s \in Servers, CallArrives(c, s)
      PROVE  Asked(c, s) \/ Update(c, s) \/ UpdateRefused(c, s)
    <2>1. CASE BootReload(c, s) \/ Reload(c, s)
        BY <2>1 DEF BootReload, Reload, Asked
    <2>2. CASE \/ \E f \in FlagNames, d \in Raws : SetOverride(c, s, f, d)
               \/ \E f \in FlagNames : ClearOverride(c, s, f)
               \/ ClearAllOverrides(c, s)
        BY <2>2, UpdatesParse
    <2> QED
        BY <1>1, <2>1, <2>2 DEF CallArrives
<1> QED
    BY <1>1 DEF Next, CallStep

\* What an update does to the variables, the new rows aside.
LEMMA UpdateParts ==
    ASSUME TypeOK, NEW c \in Calls, NEW s \in Servers, Update(c, s)
    PROVE  /\ up[s] = "up" /\ pc[c] = "idle"
           /\ tables' \in Seq(Sources) /\ tables' # <<>>
           /\ Len(tables) <= Len(tables')
           /\ \A j \in 1..Len(tables) : tables'[j] = tables[j]
           /\ \/ /\ pc' = [pc EXCEPT ![c] = "written"]
                 /\ at' = [at EXCEPT ![c] = s]
                 /\ wroteAt' = [wroteAt EXCEPT ![c] = Len(tables')]
              \/ /\ pc' = [pc EXCEPT ![c] = "failed"]
                 /\ UNCHANGED <<at, wroteAt>>
           /\ UNCHANGED <<files, serverVars, reloadVars>>
<1>1. PICK rows \in Sources : Write(c, s, rows)
    BY DEF Update
<1>2. tables' = tables \/ tables' = Append(tables, rows)
    BY <1>1 DEF Write
<1>3. /\ tables' \in Seq(Sources) /\ tables' # <<>>
      /\ Len(tables) <= Len(tables')
      /\ \A j \in 1..Len(tables) : tables'[j] = tables[j]
    <2>1. tables \in Seq(Sources) /\ tables # <<>> /\ rows \in Sources
        BY DEF TypeOK
    <2>2. CASE tables' = Append(tables, rows)
        BY <2>1, <2>2
    <2> QED
        BY <1>2, <2>1, <2>2
<1> QED
    BY <1>1, <1>3 DEF Write, Goto

\* The states of the table and of the file that a step has not made are kept.
LEMMA Kept ==
    ASSUME TypeOK, RowsParse, Next
    PROVE  /\ Len(tables) <= Len(tables') /\ Len(tables') \in Nat
           /\ Len(files) <= Len(files') /\ Len(files') \in Nat
           /\ \A j \in 0..Len(tables) : Rows(j)' = Rows(j)
           /\ \A i \in 1..Len(files) : files'[i] = files[i]
<1>1. ASSUME UNCHANGED <<tables, files>>
      PROVE  /\ Len(tables) <= Len(tables') /\ Len(tables') \in Nat
             /\ Len(files) <= Len(files') /\ Len(files') \in Nat
             /\ \A j \in 0..Len(tables) : Rows(j)' = Rows(j)
             /\ \A i \in 1..Len(files) : files'[i] = files[i]
    BY <1>1 DEF TypeOK, Rows
<1>2. ASSUME NEW c \in Calls, NEW s \in Servers, Update(c, s)
      PROVE  /\ Len(tables) <= Len(tables') /\ Len(tables') \in Nat
             /\ Len(files) <= Len(files') /\ Len(files') \in Nat
             /\ \A j \in 0..Len(tables) : Rows(j)' = Rows(j)
             /\ \A i \in 1..Len(files) : files'[i] = files[i]
    BY <1>2, UpdateParts DEF TypeOK, Rows
<1>3. ASSUME EditFile
      PROVE  /\ Len(tables) <= Len(tables') /\ Len(tables') \in Nat
             /\ Len(files) <= Len(files') /\ Len(files') \in Nat
             /\ \A j \in 0..Len(tables) : Rows(j)' = Rows(j)
             /\ \A i \in 1..Len(files) : files'[i] = files[i]
    <2>1. PICK source \in FileSources : files' = Append(files, source)
        BY <1>3 DEF EditFile
    <2>2. /\ files \in Seq(Sources) /\ tables \in Seq(Sources)
          /\ source \in Sources
        BY FlagServiceAssumption DEF TypeOK
    <2> QED
        BY <1>3, <2>1, <2>2 DEF EditFile, Rows
<1>4. ASSUME \/ \E c \in Calls : \/ ReloadAfterWrite(c) \/ QueryTable(c)
                                 \/ QueryFails(c) \/ Install(c)
             \/ \E c \in Calls, s \in Servers :
                    Asked(c, s) \/ UpdateRefused(c, s)
             \/ \E s \in Servers : StartProcess(s) \/ Crash(s)
      PROVE  UNCHANGED <<tables, files>>
    BY <1>4
    DEF ReloadAfterWrite, QueryTable, QueryFails, Install, Asked, Begin,
                UpdateRefused, StartProcess, Crash, serverVars, reloadVars
<1> QED
    BY <1>1, <1>2, <1>3, <1>4, Steps
-----------------------------------------------------------------------------
(* The invariant is preserved.                                              *)

\* Calls run in processes, and reloads have read the file.
LEMMA PlacedStep ==
    ASSUME FlagInv, Next
    PROVE  Placed'
<1> USE DEF serverVars, reloadVars, Pcs, Begun, Reloading, InReload
<1>11. TypeOK /\ RowsParse
    BY DEF FlagInv
<1>12. /\ pc \in [Calls -> Pcs]
       /\ at \in [Calls -> Servers \cup {None}]
       /\ fileAt \in [Calls -> 0..Len(files)] /\ Len(files) \in Nat
       /\ tableAt \in [Calls -> 0..Len(tables)] /\ Len(tables) \in Nat
       /\ wroteAt \in [Calls -> 0..Len(tables)]
       /\ rivals \in [Calls -> SUBSET Calls]
       /\ from \in [Servers -> Calls \cup {None}]
       /\ up \in [Servers -> {"down", "starting", "up"}]
       /\ Placed /\ files # <<>> /\ tables # <<>>
    BY DEF FlagInv, TypeOK
<1>1. ASSUME NEW c \in Calls, ReloadAfterWrite(c)
      PROVE  Placed'
    BY <1>1, <1>12 DEF ReloadAfterWrite, StartReload, Goto, Placed
<1>2. ASSUME NEW c \in Calls, QueryTable(c)
      PROVE  Placed'
    BY <1>2, <1>12 DEF QueryTable, Goto, Placed
<1>3. ASSUME NEW c \in Calls, QueryFails(c)
      PROVE  Placed'
    BY <1>3, <1>12 DEF QueryFails, Goto, Placed
<1>4. ASSUME NEW c \in Calls, Install(c)
      PROVE  Placed'
    BY <1>4, <1>12 DEF Install, Goto, Placed
<1>5. ASSUME NEW c \in Calls, NEW s \in Servers, Asked(c, s)
      PROVE  Placed'
    BY <1>5, <1>12 DEF Asked, Begin, StartReload, Goto, Placed
<1>6. ASSUME NEW c \in Calls, NEW s \in Servers, Update(c, s)
      PROVE  Placed'
    BY <1>6, <1>11, <1>12, UpdateParts
    DEF Placed
<1>7. ASSUME NEW c \in Calls, NEW s \in Servers, UpdateRefused(c, s)
      PROVE  Placed'
    BY <1>7, <1>12 DEF UpdateRefused, Goto, Placed
<1>8. ASSUME NEW s \in Servers, StartProcess(s)
      PROVE  Placed'
    BY <1>8, <1>12 DEF StartProcess, Placed
<1>9. ASSUME NEW s \in Servers, Crash(s)
      PROVE  Placed'
    BY <1>9, <1>12 DEF Crash, Reset, Running, Placed
<1>10. ASSUME EditFile
      PROVE  Placed'
    BY <1>10, <1>12 DEF EditFile, Placed
<1> QED
    BY <1>1, <1>2, <1>3, <1>4, <1>5, <1>6, <1>7, <1>8, <1>9, <1>10,
       <1>11, Steps

\* An answered call has left its process with an installed reload.
LEMMA ServedStep ==
    ASSUME FlagInv, Next
    PROVE  Served'
<1> USE DEF serverVars, reloadVars, Pcs, Begun, Reloading, InReload
<1>11. TypeOK /\ RowsParse
    BY DEF FlagInv
<1>12. /\ pc \in [Calls -> Pcs]
       /\ at \in [Calls -> Servers \cup {None}]
       /\ fileAt \in [Calls -> 0..Len(files)] /\ Len(files) \in Nat
       /\ tableAt \in [Calls -> 0..Len(tables)] /\ Len(tables) \in Nat
       /\ wroteAt \in [Calls -> 0..Len(tables)]
       /\ rivals \in [Calls -> SUBSET Calls]
       /\ from \in [Servers -> Calls \cup {None}]
       /\ up \in [Servers -> {"down", "starting", "up"}]
       /\ Placed /\ Served /\ None \notin Calls
    BY FlagServiceAssumption DEF FlagInv, TypeOK
<1>1. ASSUME NEW c \in Calls, ReloadAfterWrite(c)
      PROVE  Served'
    BY <1>1, <1>12 DEF ReloadAfterWrite, StartReload, Goto, Placed, Served
<1>2. ASSUME NEW c \in Calls, QueryTable(c)
      PROVE  Served'
    BY <1>2, <1>12 DEF QueryTable, Goto, Placed, Served
<1>3. ASSUME NEW c \in Calls, QueryFails(c)
      PROVE  Served'
    BY <1>3, <1>12 DEF QueryFails, Goto, Placed, Served
<1>4. ASSUME NEW c \in Calls, Install(c)
      PROVE  Served'
    BY <1>4, <1>12 DEF Install, Goto, Placed, Served
<1>5. ASSUME NEW c \in Calls, NEW s \in Servers, Asked(c, s)
      PROVE  Served'
    BY <1>5, <1>12 DEF Asked, Begin, StartReload, Goto, Placed, Served
<1>6. ASSUME NEW c \in Calls, NEW s \in Servers, Update(c, s)
      PROVE  Served'
    <2>1. /\ up[s] = "up" /\ pc[c] = "idle"
          /\ \/ /\ pc' = [pc EXCEPT ![c] = "written"]
                /\ at' = [at EXCEPT ![c] = s]
                /\ wroteAt' = [wroteAt EXCEPT ![c] = Len(tables')]
             \/ /\ pc' = [pc EXCEPT ![c] = "failed"]
                /\ UNCHANGED <<at, wroteAt>>
          /\ UNCHANGED <<files, serverVars, reloadVars>>
        BY <1>6, <1>11, UpdateParts
    <2>2. CASE /\ pc' = [pc EXCEPT ![c] = "written"]
               /\ at' = [at EXCEPT ![c] = s]
               /\ wroteAt' = [wroteAt EXCEPT ![c] = Len(tables')]
        BY <1>12, <2>1, <2>2 DEF Placed, Served
    <2>3. CASE pc' = [pc EXCEPT ![c] = "failed"] /\ UNCHANGED <<at, wroteAt>>
        BY <1>12, <2>1, <2>3 DEF Placed, Served
    <2> QED
        BY <2>1, <2>2, <2>3
<1>7. ASSUME NEW c \in Calls, NEW s \in Servers, UpdateRefused(c, s)
      PROVE  Served'
    BY <1>7, <1>12 DEF UpdateRefused, Goto, Placed, Served
<1>8. ASSUME NEW s \in Servers, StartProcess(s)
      PROVE  Served'
    BY <1>8, <1>12 DEF StartProcess, Placed, Served
<1>9. ASSUME NEW s \in Servers, Crash(s)
      PROVE  Served'
    BY <1>9, <1>12 DEF Crash, Reset, Running, Placed, Served
<1>10. ASSUME EditFile
      PROVE  Served'
    BY <1>10, <1>12 DEF EditFile, Placed, Served
<1> QED
    BY <1>1, <1>2, <1>3, <1>4, <1>5, <1>6, <1>7, <1>8, <1>9, <1>10,
       <1>11, Steps

\* Reloads under way together know of each other.
LEMMA OverlapStep ==
    ASSUME FlagInv, Next
    PROVE  Overlap'
<1> USE DEF serverVars, reloadVars, Pcs, Begun, Reloading, InReload, Rivals
<1>11. TypeOK /\ RowsParse
    BY DEF FlagInv
<1>12. /\ pc \in [Calls -> Pcs]
       /\ at \in [Calls -> Servers \cup {None}]
       /\ fileAt \in [Calls -> 0..Len(files)] /\ Len(files) \in Nat
       /\ tableAt \in [Calls -> 0..Len(tables)] /\ Len(tables) \in Nat
       /\ wroteAt \in [Calls -> 0..Len(tables)]
       /\ rivals \in [Calls -> SUBSET Calls]
       /\ from \in [Servers -> Calls \cup {None}]
       /\ up \in [Servers -> {"down", "starting", "up"}]
       /\ Placed /\ Overlap /\ None \notin Servers
    BY FlagServiceAssumption DEF FlagInv, TypeOK
<1>1. ASSUME NEW c \in Calls, ReloadAfterWrite(c)
      PROVE  Overlap'
    BY <1>1, <1>12 DEF ReloadAfterWrite, StartReload, Goto, Placed, Overlap
<1>2. ASSUME NEW c \in Calls, QueryTable(c)
      PROVE  Overlap'
    BY <1>2, <1>12 DEF QueryTable, Goto, Placed, Overlap
<1>3. ASSUME NEW c \in Calls, QueryFails(c)
      PROVE  Overlap'
    BY <1>3, <1>12 DEF QueryFails, Goto, Placed, Overlap
<1>4. ASSUME NEW c \in Calls, Install(c)
      PROVE  Overlap'
    BY <1>4, <1>12 DEF Install, Goto, Placed, Overlap
<1>5. ASSUME NEW c \in Calls, NEW s \in Servers, Asked(c, s)
      PROVE  Overlap'
    BY <1>5, <1>12 DEF Asked, Begin, StartReload, Goto, Placed, Overlap
<1>6. ASSUME NEW c \in Calls, NEW s \in Servers, Update(c, s)
      PROVE  Overlap'
    <2>1. /\ up[s] = "up" /\ pc[c] = "idle"
          /\ \/ /\ pc' = [pc EXCEPT ![c] = "written"]
                /\ at' = [at EXCEPT ![c] = s]
                /\ wroteAt' = [wroteAt EXCEPT ![c] = Len(tables')]
             \/ /\ pc' = [pc EXCEPT ![c] = "failed"]
                /\ UNCHANGED <<at, wroteAt>>
          /\ UNCHANGED <<files, serverVars, reloadVars>>
        BY <1>6, <1>11, UpdateParts
    <2>2. CASE /\ pc' = [pc EXCEPT ![c] = "written"]
               /\ at' = [at EXCEPT ![c] = s]
               /\ wroteAt' = [wroteAt EXCEPT ![c] = Len(tables')]
        BY <1>12, <2>1, <2>2 DEF Placed, Overlap
    <2>3. CASE pc' = [pc EXCEPT ![c] = "failed"] /\ UNCHANGED <<at, wroteAt>>
        BY <1>12, <2>1, <2>3 DEF Placed, Overlap
    <2> QED
        BY <2>1, <2>2, <2>3
<1>7. ASSUME NEW c \in Calls, NEW s \in Servers, UpdateRefused(c, s)
      PROVE  Overlap'
    BY <1>7, <1>12 DEF UpdateRefused, Goto, Placed, Overlap
<1>8. ASSUME NEW s \in Servers, StartProcess(s)
      PROVE  Overlap'
    BY <1>8, <1>12 DEF StartProcess, Placed, Overlap
<1>9. ASSUME NEW s \in Servers, Crash(s)
      PROVE  Overlap'
    BY <1>9, <1>12 DEF Crash, Reset, Running, Placed, Overlap
<1>10. ASSUME EditFile
      PROVE  Overlap'
    BY <1>10, <1>12 DEF EditFile, Placed, Overlap
<1> QED
    BY <1>1, <1>2, <1>3, <1>4, <1>5, <1>6, <1>7, <1>8, <1>9, <1>10,
       <1>11, Steps

\* Reloads that do not overlap read the table one after the other.
LEMMA OrderedStep ==
    ASSUME FlagInv, Next
    PROVE  Ordered'
<1> USE DEF serverVars, reloadVars, Pcs, Begun, Reloading, InReload, Rivals
<1>11. TypeOK /\ RowsParse
    BY DEF FlagInv
<1>12. /\ pc \in [Calls -> Pcs]
       /\ at \in [Calls -> Servers \cup {None}]
       /\ fileAt \in [Calls -> 0..Len(files)] /\ Len(files) \in Nat
       /\ tableAt \in [Calls -> 0..Len(tables)] /\ Len(tables) \in Nat
       /\ wroteAt \in [Calls -> 0..Len(tables)]
       /\ rivals \in [Calls -> SUBSET Calls]
       /\ from \in [Servers -> Calls \cup {None}]
       /\ up \in [Servers -> {"down", "starting", "up"}]
       /\ Placed /\ Overlap /\ Ordered /\ None \notin Servers
    BY FlagServiceAssumption DEF FlagInv, TypeOK
<1>1. ASSUME NEW c \in Calls, ReloadAfterWrite(c)
      PROVE  Ordered'
    BY <1>1, <1>12
    DEF ReloadAfterWrite, StartReload, Goto, Placed, Overlap, Ordered
<1>2. ASSUME NEW c \in Calls, QueryTable(c)
      PROVE  Ordered'
    BY <1>2, <1>12 DEF QueryTable, Goto, Placed, Overlap, Ordered
<1>3. ASSUME NEW c \in Calls, QueryFails(c)
      PROVE  Ordered'
    BY <1>3, <1>12 DEF QueryFails, Goto, Placed, Overlap, Ordered
<1>4. ASSUME NEW c \in Calls, Install(c)
      PROVE  Ordered'
    BY <1>4, <1>12 DEF Install, Goto, Placed, Overlap, Ordered
<1>5. ASSUME NEW c \in Calls, NEW s \in Servers, Asked(c, s)
      PROVE  Ordered'
    BY <1>5, <1>12
    DEF Asked, Begin, StartReload, Goto, Placed, Overlap, Ordered
<1>6. ASSUME NEW c \in Calls, NEW s \in Servers, Update(c, s)
      PROVE  Ordered'
    <2>1. /\ up[s] = "up" /\ pc[c] = "idle"
          /\ \/ /\ pc' = [pc EXCEPT ![c] = "written"]
                /\ at' = [at EXCEPT ![c] = s]
                /\ wroteAt' = [wroteAt EXCEPT ![c] = Len(tables')]
             \/ /\ pc' = [pc EXCEPT ![c] = "failed"]
                /\ UNCHANGED <<at, wroteAt>>
          /\ UNCHANGED <<files, serverVars, reloadVars>>
        BY <1>6, <1>11, UpdateParts
    <2>2. CASE /\ pc' = [pc EXCEPT ![c] = "written"]
               /\ at' = [at EXCEPT ![c] = s]
               /\ wroteAt' = [wroteAt EXCEPT ![c] = Len(tables')]
        BY <1>12, <2>1, <2>2 DEF Placed, Overlap, Ordered
    <2>3. CASE pc' = [pc EXCEPT ![c] = "failed"] /\ UNCHANGED <<at, wroteAt>>
        BY <1>12, <2>1, <2>3 DEF Placed, Overlap, Ordered
    <2> QED
        BY <2>1, <2>2, <2>3
<1>7. ASSUME NEW c \in Calls, NEW s \in Servers, UpdateRefused(c, s)
      PROVE  Ordered'
    BY <1>7, <1>12 DEF UpdateRefused, Goto, Placed, Overlap, Ordered
<1>8. ASSUME NEW s \in Servers, StartProcess(s)
      PROVE  Ordered'
    BY <1>8, <1>12 DEF StartProcess, Placed, Overlap, Ordered
<1>9. ASSUME NEW s \in Servers, Crash(s)
      PROVE  Ordered'
    BY <1>9, <1>12 DEF Crash, Reset, Running, Placed, Overlap, Ordered
<1>10. ASSUME EditFile
      PROVE  Ordered'
    BY <1>10, <1>12 DEF EditFile, Placed, Overlap, Ordered
<1> QED
    BY <1>1, <1>2, <1>3, <1>4, <1>5, <1>6, <1>7, <1>8, <1>9, <1>10,
       <1>11, Steps

\* A reload that began after a write reads the table after it.
LEMMA ReadAfterStep ==
    ASSUME FlagInv, Next
    PROVE  ReadAfter'
<1> USE DEF serverVars, reloadVars, Pcs, Begun, Reloading, InReload
<1>11. TypeOK /\ RowsParse
    BY DEF FlagInv
<1>12. /\ pc \in [Calls -> Pcs]
       /\ at \in [Calls -> Servers \cup {None}]
       /\ fileAt \in [Calls -> 0..Len(files)] /\ Len(files) \in Nat
       /\ tableAt \in [Calls -> 0..Len(tables)] /\ Len(tables) \in Nat
       /\ wroteAt \in [Calls -> 0..Len(tables)]
       /\ rivals \in [Calls -> SUBSET Calls]
       /\ from \in [Servers -> Calls \cup {None}]
       /\ up \in [Servers -> {"down", "starting", "up"}]
       /\ Placed /\ ReadAfter /\ None \notin Servers
    BY FlagServiceAssumption DEF FlagInv, TypeOK
<1>1. ASSUME NEW c \in Calls, ReloadAfterWrite(c)
      PROVE  ReadAfter'
    BY <1>1, <1>12 DEF ReloadAfterWrite, StartReload, Goto, Placed, ReadAfter
<1>2. ASSUME NEW c \in Calls, QueryTable(c)
      PROVE  ReadAfter'
    BY <1>2, <1>12 DEF QueryTable, Goto, Placed, ReadAfter
<1>3. ASSUME NEW c \in Calls, QueryFails(c)
      PROVE  ReadAfter'
    BY <1>3, <1>12 DEF QueryFails, Goto, Placed, ReadAfter
<1>4. ASSUME NEW c \in Calls, Install(c)
      PROVE  ReadAfter'
    BY <1>4, <1>12 DEF Install, Goto, Placed, ReadAfter
<1>5. ASSUME NEW c \in Calls, NEW s \in Servers, Asked(c, s)
      PROVE  ReadAfter'
    BY <1>5, <1>12 DEF Asked, Begin, StartReload, Goto, Placed, ReadAfter
<1>6. ASSUME NEW c \in Calls, NEW s \in Servers, Update(c, s)
      PROVE  ReadAfter'
    <2>1. /\ up[s] = "up" /\ pc[c] = "idle"
          /\ \/ /\ pc' = [pc EXCEPT ![c] = "written"]
                /\ at' = [at EXCEPT ![c] = s]
                /\ wroteAt' = [wroteAt EXCEPT ![c] = Len(tables')]
             \/ /\ pc' = [pc EXCEPT ![c] = "failed"]
                /\ UNCHANGED <<at, wroteAt>>
          /\ UNCHANGED <<files, serverVars, reloadVars>>
        BY <1>6, <1>11, UpdateParts
    <2>2. CASE /\ pc' = [pc EXCEPT ![c] = "written"]
               /\ at' = [at EXCEPT ![c] = s]
               /\ wroteAt' = [wroteAt EXCEPT ![c] = Len(tables')]
        BY <1>12, <2>1, <2>2 DEF Placed, ReadAfter
    <2>3. CASE pc' = [pc EXCEPT ![c] = "failed"] /\ UNCHANGED <<at, wroteAt>>
        BY <1>12, <2>1, <2>3 DEF Placed, ReadAfter
    <2> QED
        BY <2>1, <2>2, <2>3
<1>7. ASSUME NEW c \in Calls, NEW s \in Servers, UpdateRefused(c, s)
      PROVE  ReadAfter'
    BY <1>7, <1>12 DEF UpdateRefused, Goto, Placed, ReadAfter
<1>8. ASSUME NEW s \in Servers, StartProcess(s)
      PROVE  ReadAfter'
    BY <1>8, <1>12 DEF StartProcess, Placed, ReadAfter
<1>9. ASSUME NEW s \in Servers, Crash(s)
      PROVE  ReadAfter'
    BY <1>9, <1>12 DEF Crash, Reset, Running, Placed, ReadAfter
<1>10. ASSUME EditFile
      PROVE  ReadAfter'
    BY <1>10, <1>12 DEF EditFile, Placed, ReadAfter
<1> QED
    BY <1>1, <1>2, <1>3, <1>4, <1>5, <1>6, <1>7, <1>8, <1>9, <1>10,
       <1>11, Steps

\* What is answered and served is not disturbed by other calls and processes.
LEMMA ServedAfterKept ==
    ASSUME FlagInv,
           \A d \in Calls : pc'[d] = "ok" => pc[d] = "ok",
           \A d \in Calls : pc[d] = "ok" =>
                /\ at'[d] = at[d] /\ tableAt'[d] = tableAt[d]
                /\ wroteAt'[d] = wroteAt[d] /\ rivals'[d] = rivals[d],
           \A t \in Servers :
                up'[t] = "up" => up[t] = "up" /\ from'[t] = from[t]
    PROVE  ServedAfter'
<1> SUFFICES ASSUME NEW c \in Calls,
                    pc'[c] = "ok", wroteAt'[c] # 0, up'[at'[c]] = "up"
             PROVE  \/ from'[at'[c]] \in rivals'[c]
                    \/ tableAt'[from'[at'[c]]] = 0
                    \/ wroteAt'[c] <= tableAt'[from'[at'[c]]]
    BY DEF ServedAfter
<1>1. pc[c] = "ok" /\ at'[c] = at[c] /\ at[c] \in Servers
    BY DEF FlagInv, Placed, Begun
<1>2. up[at[c]] = "up" /\ from'[at'[c]] = from[at[c]] /\ wroteAt[c] # 0
    BY <1>1
<1>3. from[at[c]] \in Calls
    BY <1>1, <1>2 DEF FlagInv, TypeOK, Served
<1>4. Holds(at[c])
    BY <1>1 DEF FlagInv
<1>5. pc[from[at[c]]] = "ok"
    BY <1>2, <1>3, <1>4, FlagServiceAssumption DEF Holds
<1>6. \/ from[at[c]] \in rivals[c]
      \/ tableAt[from[at[c]]] = 0
      \/ wroteAt[c] <= tableAt[from[at[c]]]
    BY <1>1, <1>2 DEF FlagInv, ServedAfter
<1> QED
    BY <1>1, <1>2, <1>3, <1>5, <1>6

\* A reload that is served has read the writes answered before it.
LEMMA ServedAfterStep ==
    ASSUME FlagInv, Next
    PROVE  ServedAfter'
<1> USE DEF serverVars, reloadVars, Pcs, Begun, Reloading, InReload
<1>11. TypeOK /\ RowsParse
    BY DEF FlagInv
<1>12. /\ pc \in [Calls -> Pcs]
       /\ at \in [Calls -> Servers \cup {None}]
       /\ fileAt \in [Calls -> 0..Len(files)] /\ Len(files) \in Nat
       /\ tableAt \in [Calls -> 0..Len(tables)] /\ Len(tables) \in Nat
       /\ wroteAt \in [Calls -> 0..Len(tables)]
       /\ rivals \in [Calls -> SUBSET Calls]
       /\ from \in [Servers -> Calls \cup {None}]
       /\ up \in [Servers -> {"down", "starting", "up"}]
       /\ Placed /\ ReadAfter /\ Served /\ ServedAfter
    BY DEF FlagInv, TypeOK
<1>13. \A t \in Servers : from[t] # None =>
            pc[from[t]] = "ok" /\ at[from[t]] = t /\ up[t] # "down"
    BY DEF FlagInv, Holds
<1>1. ASSUME NEW c \in Calls, ReloadAfterWrite(c)
      PROVE  ServedAfter'
    BY <1>1, <1>12, <1>13
    DEF ReloadAfterWrite, StartReload, Goto, Placed, ReadAfter, Served,
        ServedAfter
<1>2. ASSUME NEW c \in Calls, QueryTable(c)
      PROVE  ServedAfter'
    BY <1>2, <1>12, <1>13
    DEF QueryTable, Goto, Placed, ReadAfter, Served, ServedAfter
<1>3. ASSUME NEW c \in Calls, QueryFails(c)
      PROVE  ServedAfter'
    BY <1>3, <1>12, <1>13
    DEF QueryFails, Goto, Placed, ReadAfter, Served, ServedAfter
<1>4. ASSUME NEW c \in Calls, Install(c)
      PROVE  ServedAfter'
    BY <1>4, <1>12, <1>13
    DEF Install, Goto, Placed, ReadAfter, Served, ServedAfter
<1>5. ASSUME NEW c \in Calls, NEW s \in Servers, Asked(c, s)
      PROVE  ServedAfter'
    BY <1>5, <1>12, <1>13
    DEF Asked, Begin, StartReload, Goto, Placed, ReadAfter, Served,
        ServedAfter
<1>6. ASSUME NEW c \in Calls, NEW s \in Servers, Update(c, s)
      PROVE  ServedAfter'
    <2>1. /\ pc[c] = "idle"
          /\ \/ /\ pc' = [pc EXCEPT ![c] = "written"]
                /\ at' = [at EXCEPT ![c] = s]
                /\ wroteAt' = [wroteAt EXCEPT ![c] = Len(tables')]
             \/ /\ pc' = [pc EXCEPT ![c] = "failed"]
                /\ UNCHANGED <<at, wroteAt>>
          /\ UNCHANGED <<serverVars, reloadVars>>
        BY <1>6, <1>11, UpdateParts
    <2>2. \A d \in Calls :
            /\ pc[d] = "ok" => /\ at'[d] = at[d] /\ tableAt'[d] = tableAt[d]
                              /\ wroteAt'[d] = wroteAt[d]
                              /\ rivals'[d] = rivals[d]
            /\ pc'[d] = "ok" => pc[d] = "ok"
        BY <1>12, <1>13, <2>1
    <2> QED
        BY <2>1, <2>2, ServedAfterKept
<1>7. ASSUME NEW c \in Calls, NEW s \in Servers, UpdateRefused(c, s)
      PROVE  ServedAfter'
    BY <1>7, <1>12, <1>13
    DEF UpdateRefused, Goto, Placed, ReadAfter, Served, ServedAfter
<1>8. ASSUME NEW s \in Servers, StartProcess(s)
      PROVE  ServedAfter'
    BY <1>8, <1>12, <1>13
    DEF StartProcess, Placed, ReadAfter, Served, ServedAfter
<1>9. ASSUME NEW s \in Servers, Crash(s)
      PROVE  ServedAfter'
    <2>1. \A d \in Calls :
            /\ pc[d] = "ok" => /\ at'[d] = at[d] /\ tableAt'[d] = tableAt[d]
                              /\ wroteAt'[d] = wroteAt[d]
                              /\ rivals'[d] = rivals[d]
            /\ pc'[d] = "ok" => pc[d] = "ok"
        BY <1>9, <1>12, <1>13 DEF Crash, Reset, Running
    <2>2. \A t \in Servers :
            up'[t] = "up" => up[t] = "up" /\ from'[t] = from[t]
        BY <1>9, <1>12, <1>13 DEF Crash
    <2> QED
        BY <2>1, <2>2, ServedAfterKept
<1>10. ASSUME EditFile
      PROVE  ServedAfter'
    BY <1>10, <1>12, <1>13
    DEF EditFile, Placed, ReadAfter, Served, ServedAfter
<1> QED
    BY <1>1, <1>2, <1>3, <1>4, <1>5, <1>6, <1>7, <1>8, <1>9, <1>10,
       <1>11, Steps

\* New flags of one process leave the flags of all well-typed.
LEMMA FlagsTyped ==
    ASSUME TypeOK, NEW s \in Servers, NEW v,
           flags' = [flags EXCEPT ![s] = v],
           v = [f \in FlagNames |-> v[f]],
           \A f \in FlagNames : LegalDefinition(f, v[f])
    PROVE  /\ flags' = [t \in Servers |-> [f \in FlagNames |-> flags'[t][f]]]
           /\ \A t \in Servers : \A f \in FlagNames : IsDefinition(flags'[t][f])
<1>1. flags' = [t \in Servers |-> IF t = s THEN v ELSE flags[t]]
    BY DEF TypeOK
<1>2. \A t \in Servers : flags'[t] = [f \in FlagNames |-> flags'[t][f]]
    BY <1>1 DEF TypeOK
<1>3. \A f \in FlagNames : IsDefinition(v[f])
    BY DEF LegalDefinition
<1> QED
    BY <1>1, <1>2, <1>3 DEF TypeOK

\* Every step preserves the types.
LEMMA TypeStep ==
    ASSUME FlagInv, Next
    PROVE  TypeOK'
<1> USE DEF Pcs, serverVars, reloadVars
<1>11. TypeOK /\ RowsParse
    BY DEF FlagInv
<1>12. Next
    OBVIOUS
<1>1. ASSUME NEW c \in Calls, ReloadAfterWrite(c)
      PROVE  TypeOK'
    BY <1>1, <1>11 DEF ReloadAfterWrite, StartReload, Goto, FlagInv, TypeOK
<1>2. ASSUME NEW c \in Calls, QueryTable(c)
      PROVE  TypeOK'
    BY <1>2, <1>11 DEF QueryTable, Goto, FlagInv, TypeOK
<1>3. ASSUME NEW c \in Calls, QueryFails(c)
      PROVE  TypeOK'
    BY <1>3, <1>11 DEF QueryFails, Goto, FlagInv, TypeOK
<1>4. ASSUME NEW c \in Calls, Install(c)
      PROVE  TypeOK'
    <2> DEFINE file == files[fileAt[c]]
               rows == Rows(tableAt[c])
    <2>1. at[c] \in Servers /\ fileAt[c] \in 1..Len(files)
        <3>1. pc[c] = "installing"
            BY <1>4 DEF Install
        <3>2. at[c] \in Servers /\ fileAt[c] # 0
            BY <3>1 DEF FlagInv, Placed, Begun, Reloading, InReload
        <3>3. fileAt[c] \in 0..Len(files) /\ Len(files) \in Nat
            BY <1>11 DEF TypeOK
        <3> QED
            BY <3>2, <3>3
    <2>2. file \in Sources /\ rows \in Sources
        BY <2>1, RowsSource DEF FlagInv, TypeOK
    <2>3. flags' = [flags EXCEPT ![at[c]] = Layered(file, rows)]
        BY <1>4 DEF Install
    <2>4. /\ flags' = [t \in Servers |-> [f \in FlagNames |-> flags'[t][f]]]
          /\ \A t \in Servers : \A f \in FlagNames : IsDefinition(flags'[t][f])
        <3> HIDE DEF file, rows
        <3> QED
            BY <1>11, <2>1, <2>2, <2>3, FlagsTyped, LayeredLegal
    <2>5. DOMAIN rows \subseteq FlagNames
        BY <2>2 DEF Sources
    <2>6. overridden' \in [Servers -> SUBSET FlagNames]
        BY <1>4, <2>1, <2>5 DEF Install, FlagInv, TypeOK
    <2> QED
        BY <1>4, <2>1, <2>4, <2>6 DEF Install, Goto, FlagInv, TypeOK
<1>5. ASSUME NEW c \in Calls, NEW s \in Servers, Asked(c, s)
      PROVE  TypeOK'
    BY <1>5, <1>11 DEF Asked, Begin, StartReload, Goto, FlagInv, TypeOK
<1>6. ASSUME NEW c \in Calls, NEW s \in Servers, Update(c, s)
      PROVE  TypeOK'
    <2>1. /\ tables' \in Seq(Sources) /\ tables' # <<>>
          /\ Len(tables) <= Len(tables') /\ Len(tables') \in Nat
          /\ \/ /\ pc' = [pc EXCEPT ![c] = "written"]
                /\ at' = [at EXCEPT ![c] = s]
                /\ wroteAt' = [wroteAt EXCEPT ![c] = Len(tables')]
             \/ /\ pc' = [pc EXCEPT ![c] = "failed"]
                /\ UNCHANGED <<at, wroteAt>>
          /\ UNCHANGED <<files, serverVars, reloadVars>>
        BY <1>6, <1>11, <1>12, UpdateParts, Kept
    <2>2. /\ tableAt' \in [Calls -> 0..Len(tables')]
          /\ wroteAt \in [Calls -> 0..Len(tables')]
        BY <1>11, <2>1 DEF TypeOK
    <2>3. /\ pc' \in [Calls -> Pcs]
          /\ at' \in [Calls -> Servers \cup {None}]
          /\ wroteAt' \in [Calls -> 0..Len(tables')]
        <3>1. /\ pc \in [Calls -> Pcs]
              /\ at \in [Calls -> Servers \cup {None}]
              /\ Len(tables') \in 0..Len(tables')
            BY <1>11, <2>1 DEF TypeOK
        <3>2. CASE /\ pc' = [pc EXCEPT ![c] = "written"]
                   /\ at' = [at EXCEPT ![c] = s]
                   /\ wroteAt' = [wroteAt EXCEPT ![c] = Len(tables')]
            BY <2>2, <3>1, <3>2
        <3>3. CASE /\ pc' = [pc EXCEPT ![c] = "failed"]
                   /\ UNCHANGED <<at, wroteAt>>
            BY <2>2, <3>1, <3>3
        <3> QED
            BY <2>1, <3>2, <3>3
    <2> QED
        BY <1>11, <2>1, <2>2, <2>3 DEF TypeOK
<1>7. ASSUME NEW c \in Calls, NEW s \in Servers, UpdateRefused(c, s)
      PROVE  TypeOK'
    BY <1>7, <1>11 DEF UpdateRefused, Goto, FlagInv, TypeOK
<1>8. ASSUME NEW s \in Servers, StartProcess(s)
      PROVE  TypeOK'
    <2> DEFINE file == files[Len(files)]
    <2>1. file \in Sources
        BY DEF FlagInv, TypeOK
    <2>2. flags' = [flags EXCEPT ![s] = Layered(file, Empty)]
        BY <1>8 DEF StartProcess
    <2>3. /\ flags' = [t \in Servers |-> [f \in FlagNames |-> flags'[t][f]]]
          /\ \A t \in Servers : \A f \in FlagNames : IsDefinition(flags'[t][f])
        <3> HIDE DEF file
        <3> QED
            BY <1>11, <2>1, <2>2, FlagsTyped, LayeredLegal, EmptySource
    <2> QED
        BY <1>8, <1>11, <2>3 DEF StartProcess, TypeOK
<1>9. ASSUME NEW s \in Servers, Crash(s)
      PROVE  TypeOK'
    <2>1. flags' = [flags EXCEPT ![s] = FLAG_DEFAULTS]
        BY <1>9 DEF Crash
    <2>2. /\ flags' = [t \in Servers |-> [f \in FlagNames |-> flags'[t][f]]]
          /\ \A t \in Servers : \A f \in FlagNames : IsDefinition(flags'[t][f])
        BY <1>11, <2>1, FlagsTyped, DefaultFlags
    <2>3. /\ up' \in [Servers -> {"down", "starting", "up"}]
          /\ overridden' \in [Servers -> SUBSET FlagNames]
          /\ from' \in [Servers -> Calls \cup {None}]
        BY <1>9, <1>11 DEF Crash, TypeOK
    <2>4. /\ pc' \in [Calls -> Pcs]
          /\ at' \in [Calls -> Servers \cup {None}]
          /\ rivals' \in [Calls -> SUBSET Calls]
        BY <1>9, <1>11 DEF Crash, TypeOK, Reset
    <2>5. /\ fileAt' \in [Calls -> 0..Len(files)]
          /\ tableAt' \in [Calls -> 0..Len(tables)]
          /\ wroteAt' \in [Calls -> 0..Len(tables)]
        BY <1>9, <1>11 DEF Crash, TypeOK, Reset
    <2> QED
        BY <1>9, <1>11, <2>2, <2>3, <2>4, <2>5 DEF Crash, TypeOK
<1>10. ASSUME EditFile
      PROVE  TypeOK'
    <2>1. PICK source \in FileSources : files' = Append(files, source)
        BY <1>10 DEF EditFile
    <2>2. /\ files' \in Seq(Sources) /\ files' # <<>>
          /\ Len(files) <= Len(files') /\ Len(files') \in Nat
        <3>1. files \in Seq(Sources) /\ source \in Sources
            BY <1>11, FlagServiceAssumption DEF TypeOK
        <3> QED
            BY <2>1, <3>1
    <2>3. fileAt' \in [Calls -> 0..Len(files')]
        BY <1>10, <1>11, <2>2 DEF EditFile, TypeOK, reloadVars
    <2> QED
        BY <1>10, <1>11, <2>2, <2>3 DEF EditFile, TypeOK
<1> QED
    BY <1>1, <1>2, <1>3, <1>4, <1>5, <1>6, <1>7, <1>8, <1>9, <1>10,
       <1>11, Steps

\* The table never holds a row that does not parse.
LEMMA RowsStep ==
    ASSUME FlagInv, Next
    PROVE  RowsParse'
<1> USE DEF serverVars, reloadVars
<1>11. TypeOK /\ RowsParse
    BY DEF FlagInv
<1>12. Next
    OBVIOUS
<1>1. ASSUME NEW c \in Calls, ReloadAfterWrite(c)
      PROVE  RowsParse'
    BY <1>1, <1>11 DEF ReloadAfterWrite, StartReload, Goto, RowsParse
<1>2. ASSUME NEW c \in Calls, QueryTable(c)
      PROVE  RowsParse'
    BY <1>2, <1>11 DEF QueryTable, Goto, RowsParse
<1>3. ASSUME NEW c \in Calls, QueryFails(c)
      PROVE  RowsParse'
    BY <1>3, <1>11 DEF QueryFails, Goto, RowsParse
<1>4. ASSUME NEW c \in Calls, Install(c)
      PROVE  RowsParse'
    BY <1>4, <1>11 DEF Install, Goto, RowsParse
<1>5. ASSUME NEW c \in Calls, NEW s \in Servers, Asked(c, s)
      PROVE  RowsParse'
    BY <1>5, <1>11 DEF Asked, Begin, StartReload, Goto, RowsParse
<1>6. ASSUME NEW c \in Calls, NEW s \in Servers, Update(c, s)
      PROVE  RowsParse'
    <2>1. PICK rows \in Sources :
            /\ \A f \in DOMAIN rows : Valid(f, rows[f])
            /\ Write(c, s, rows)
        BY <1>6 DEF Update
    <2>2. tables' = tables \/ tables' = Append(tables, rows)
        BY <2>1 DEF Write
    <2>3. tables \in Seq(Sources) /\ RowsParse
        BY <1>11 DEF TypeOK
    <2>4. CASE tables' = Append(tables, rows)
        <3>1. /\ Len(tables') = Len(tables) + 1
              /\ \A j \in 1..Len(tables) : tables'[j] = tables[j]
              /\ tables'[Len(tables')] = rows
            BY <2>3, <2>4
        <3>2. \A j \in 1..Len(tables') :
                j \in 1..Len(tables) \/ j = Len(tables')
            BY <2>3, <3>1
        <3> QED
            BY <2>1, <2>3, <3>1, <3>2 DEF RowsParse
    <2> QED
        BY <2>2, <2>3, <2>4 DEF RowsParse
<1>7. ASSUME NEW c \in Calls, NEW s \in Servers, UpdateRefused(c, s)
      PROVE  RowsParse'
    BY <1>7, <1>11 DEF UpdateRefused, Goto, RowsParse
<1>8. ASSUME NEW s \in Servers, StartProcess(s)
      PROVE  RowsParse'
    BY <1>8, <1>11 DEF StartProcess, RowsParse
<1>9. ASSUME NEW s \in Servers, Crash(s)
      PROVE  RowsParse'
    BY <1>9, <1>11 DEF Crash, Reset, Running, RowsParse
<1>10. ASSUME EditFile
      PROVE  RowsParse'
    BY <1>10, <1>11 DEF EditFile, RowsParse
<1> QED
    BY <1>1, <1>2, <1>3, <1>4, <1>5, <1>6, <1>7, <1>8, <1>9, <1>10,
       <1>11, Steps

\* A process that is left alone holds what it held.
LEMMA HoldsKept ==
    ASSUME FlagInv, Next, NEW t \in Servers,
           up'[t] = up[t], from'[t] = from[t], flags'[t] = flags[t],
           overridden'[t] = overridden[t],
           \A p \in Calls : pc[p] = "ok" =>
                /\ pc'[p] = "ok" /\ at'[p] = at[p]
                /\ fileAt'[p] = fileAt[p] /\ tableAt'[p] = tableAt[p]
    PROVE  Holds(t)'
<1>1. Holds(t) /\ TypeOK /\ RowsParse
    BY DEF FlagInv
<1>2. /\ Len(files) <= Len(files') /\ Len(files) \in Nat /\ Len(files') \in Nat
      /\ \A j \in 0..Len(tables) : Rows(j)' = Rows(j)
      /\ \A i \in 1..Len(files) : files'[i] = files[i]
    BY <1>1, Kept DEF TypeOK
<1>3. CASE up[t] = "down"
    BY <1>1, <1>3 DEF Holds
<1>4. CASE up[t] # "down" /\ from[t] = None
    <2>1. PICK i \in 1..Len(files) : flags[t] = Layered(files[i], Empty)
        BY <1>1, <1>4 DEF Holds
    <2>2. i \in 1..Len(files') /\ files'[i] = files[i]
        BY <1>2
    <2>3. flags'[t] = Layered(files'[i], Empty)
        BY <2>1, <2>2
    <2> QED
        BY <1>1, <1>4, <2>2, <2>3 DEF Holds, Empty
<1>5. CASE up[t] # "down" /\ from[t] # None
    <2> DEFINE p == from[t]
    <2>1. /\ p \in Calls /\ pc[p] = "ok" /\ at[p] = t
          /\ flags[t] = Layered(files[fileAt[p]], Rows(tableAt[p]))
          /\ overridden[t] = DOMAIN Rows(tableAt[p])
        BY <1>1, <1>5 DEF Holds, TypeOK
    <2>2. fileAt[p] \in 1..Len(files) /\ tableAt[p] \in 0..Len(tables)
        BY <1>1, <2>1 DEF FlagInv, TypeOK, Placed, Reloading
    <2>3. /\ files'[fileAt[p]] = files[fileAt[p]]
          /\ Rows(tableAt[p])' = Rows(tableAt[p])
        <3>1. fileAt'[p] = fileAt[p] /\ tableAt'[p] = tableAt[p]
            BY <2>1
        <3>2. \A j \in 0..Len(tables) : Rows(j)' = Rows(j)
            BY <1>2
        <3> QED
            BY <1>2, <2>2, <3>1, <3>2 DEF Rows
    <2> QED
        BY <1>5, <2>1, <2>2, <2>3 DEF Holds
<1> QED
    BY <1>3, <1>4, <1>5

\* Processes hold what their reloads read.
LEMMA HoldsStep ==
    ASSUME FlagInv, Next
    PROVE  \A t \in Servers : Holds(t)'
<1> USE DEF serverVars, reloadVars
<1>11. TypeOK /\ RowsParse /\ None \notin Calls
    BY FlagServiceAssumption DEF FlagInv
<1>12. /\ pc \in [Calls -> Pcs]
       /\ at \in [Calls -> Servers \cup {None}]
       /\ fileAt \in [Calls -> 0..Len(files)]
       /\ tableAt \in [Calls -> 0..Len(tables)]
       /\ from \in [Servers -> Calls \cup {None}]
       /\ up \in [Servers -> {"down", "starting", "up"}]
       /\ overridden \in [Servers -> SUBSET FlagNames]
       /\ flags = [s \in Servers |-> [f \in FlagNames |-> flags[s][f]]]
    BY <1>11 DEF TypeOK
<1>1. ASSUME UNCHANGED serverVars, NEW c \in Calls, pc[c] # "ok",
             \A p \in Calls : p # c =>
                /\ pc'[p] = pc[p] /\ at'[p] = at[p]
                /\ fileAt'[p] = fileAt[p] /\ tableAt'[p] = tableAt[p]
      PROVE  \A t \in Servers : Holds(t)'
    BY <1>1, HoldsKept
<1>2. ASSUME NEW c \in Calls, ReloadAfterWrite(c)
      PROVE  \A t \in Servers : Holds(t)'
    BY <1>1, <1>2, <1>12 DEF ReloadAfterWrite, StartReload, Goto
<1>3. ASSUME NEW c \in Calls, QueryTable(c) \/ QueryFails(c)
      PROVE  \A t \in Servers : Holds(t)'
    BY <1>1, <1>3, <1>12 DEF QueryTable, QueryFails, Goto
<1>4. ASSUME NEW c \in Calls, NEW s \in Servers,
             Asked(c, s) \/ UpdateRefused(c, s)
      PROVE  \A t \in Servers : Holds(t)'
    BY <1>1, <1>4, <1>12 DEF Asked, Begin, StartReload, UpdateRefused, Goto
<1>5. ASSUME NEW c \in Calls, NEW s \in Servers, Update(c, s)
      PROVE  \A t \in Servers : Holds(t)'
    <2>1. /\ pc[c] = "idle"
          /\ \/ /\ pc' = [pc EXCEPT ![c] = "written"]
                /\ at' = [at EXCEPT ![c] = s]
             \/ /\ pc' = [pc EXCEPT ![c] = "failed"]
                /\ UNCHANGED at
          /\ UNCHANGED <<serverVars, reloadVars>>
        BY <1>5, <1>11, UpdateParts
    <2> QED
        BY <1>1, <1>12, <2>1
<1>6. ASSUME EditFile
      PROVE  \A t \in Servers : Holds(t)'
    BY <1>6, HoldsKept DEF EditFile
<1>7. ASSUME NEW c \in Calls, Install(c), NEW t \in Servers
      PROVE  Holds(t)'
    <2>1. CASE t # at[c]
        BY <1>7, <1>12, <2>1, HoldsKept DEF Install, Goto
    <2>2. CASE t = at[c]
        <3>1. /\ up'[t] = "up" /\ from'[t] = c /\ pc'[c] = "ok" /\ at'[c] = t
              /\ flags'[t] = Layered(files[fileAt[c]], Rows(tableAt[c]))
              /\ overridden'[t] = DOMAIN Rows(tableAt[c])
            BY <1>7, <1>12, <2>2 DEF Install, Goto
        <3>2. UNCHANGED <<files, tables, fileAt, tableAt>>
            BY <1>7 DEF Install
        <3> QED
            BY <1>11, <3>1, <3>2 DEF Holds, Rows
    <2> QED
        BY <2>1, <2>2
<1>8. ASSUME NEW s \in Servers, StartProcess(s), NEW t \in Servers
      PROVE  Holds(t)'
    <2>1. CASE t # s
        BY <1>8, <1>12, <2>1, HoldsKept DEF StartProcess
    <2>2. CASE t = s
        <3>1. from'[t] = None
            BY <1>8, <2>2 DEF StartProcess, FlagInv, Holds
        <3>2. /\ up'[t] = "starting" /\ overridden'[t] = {}
              /\ flags'[t] = Layered(files[Len(files)], Empty)
            BY <1>8, <1>12, <2>2 DEF StartProcess
        <3>3. Len(files) \in 1..Len(files) /\ UNCHANGED files
            BY <1>8, <1>11 DEF StartProcess, TypeOK
        <3> QED
            BY <3>1, <3>2, <3>3 DEF Holds, Empty
    <2> QED
        BY <2>1, <2>2
<1>9. ASSUME NEW s \in Servers, Crash(s), NEW t \in Servers
      PROVE  Holds(t)'
    <2>1. CASE t # s
        <3>1. \A p \in Calls : pc[p] = "ok" =>
                /\ pc'[p] = "ok" /\ at'[p] = at[p]
                /\ fileAt'[p] = fileAt[p] /\ tableAt'[p] = tableAt[p]
            BY <1>9, <1>12 DEF Crash, Reset, Running
        <3>2. /\ up'[t] = up[t] /\ from'[t] = from[t] /\ flags'[t] = flags[t]
              /\ overridden'[t] = overridden[t]
            BY <1>9, <1>12, <2>1 DEF Crash
        <3> QED
            BY <3>1, <3>2, HoldsKept
    <2>2. CASE t = s
        <3>1. /\ up'[t] = "down" /\ from'[t] = None /\ overridden'[t] = {}
              /\ flags'[t] = FLAG_DEFAULTS
            BY <1>9, <1>12, <2>2 DEF Crash
        <3> QED
            BY <3>1 DEF Holds
    <2> QED
        BY <2>1, <2>2
<1> QED
    BY <1>2, <1>3, <1>4, <1>5, <1>6, <1>7, <1>8, <1>9, <1>11, Steps

-----------------------------------------------------------------------------
(* The invariant, and what follows from it.                                *)

\* The invariant holds when the processes have started.
LEMMA InitInv == Init => FlagInv
<1> SUFFICES ASSUME Init PROVE FlagInv
    OBVIOUS
<1>1. PICK source \in FileSources : files = <<source>>
    BY DEF Init
<1>2. /\ files \in Seq(Sources) /\ Len(files) = 1 /\ files # <<>>
      /\ files[1] \in Sources
    BY <1>1, FlagServiceAssumption
<1>3. /\ tables = <<Empty>> /\ tables \in Seq(Sources) /\ Len(tables) = 1
      /\ tables # <<>> /\ tables[1] = Empty
    BY EmptySource DEF Init
<1> DEFINE v == Layered(files[1], Empty)
<1>4. /\ v = [f \in FlagNames |-> v[f]]
      /\ \A f \in FlagNames : LegalDefinition(f, v[f])
    BY <1>2, EmptySource, LayeredLegal
<1>5. \A s \in Servers : flags[s] = v
    BY DEF Init
<1>6. flags = [s \in Servers |-> [f \in FlagNames |-> flags[s][f]]]
    <2> HIDE DEF v
    <2>1. flags = [s \in Servers |-> v]
        BY DEF Init, v
    <2> QED
        BY <1>4, <1>5, <2>1
<1>7. \A s \in Servers : \A f \in FlagNames : IsDefinition(flags[s][f])
    <2> HIDE DEF v
    <2> QED
        BY <1>4, <1>5 DEF LegalDefinition
<1>8. TypeOK
    BY <1>2, <1>3, <1>6, <1>7 DEF Init, TypeOK, Pcs
<1>9. RowsParse
    <2>1. \A j \in 1..Len(tables) : DOMAIN tables[j] = {}
        BY <1>3, EmptySource
    <2> QED
        BY <2>1 DEF RowsParse
<1>10. \A s \in Servers : Holds(s)
    BY <1>2 DEF Init, Holds
<1>11. /\ Placed /\ Served /\ Overlap /\ Ordered /\ ReadAfter /\ ServedAfter
    BY DEF Init, Placed, Served, Overlap, Ordered, ReadAfter, ServedAfter,
           Begun, Reloading, InReload
<1> QED
    BY <1>8, <1>9, <1>10, <1>11 DEF FlagInv

\* The invariant is inductive, so it holds in every reachable state, for any
\* processes, calls, flags and definitions.
THEOREM FlagInvariant == Spec => []FlagInv
<1>1. FlagInv /\ Next => FlagInv'
    BY TypeStep, RowsStep, HoldsStep, PlacedStep, ServedStep, OverlapStep,
       OrderedStep, ReadAfterStep, ServedAfterStep DEF FlagInv
<1>2. FlagInv /\ UNCHANGED vars => FlagInv'
    <2> SUFFICES ASSUME FlagInv, UNCHANGED vars PROVE FlagInv'
        OBVIOUS
    <2> USE DEF vars, serverVars, reloadVars
    <2>1. TypeOK'
        BY DEF FlagInv, TypeOK
    <2>2. RowsParse' /\ \A s \in Servers : Holds(s)'
        BY DEF FlagInv, RowsParse, Holds, Rows
    <2>3. Placed' /\ Served' /\ Overlap' /\ Ordered'
        BY DEF FlagInv, Placed, Served, Overlap, Ordered, Rivals, Begun,
               Reloading, InReload
    <2>4. ReadAfter' /\ ServedAfter'
        BY DEF FlagInv, ReadAfter, ServedAfter, Reloading, InReload
    <2> QED
        BY <2>1, <2>2, <2>3, <2>4 DEF FlagInv
<1>3. FlagInv /\ [Next]_vars => FlagInv'
    BY <1>1, <1>2
<1> QED
    BY InitInv, <1>3, PTL DEF Spec

\* Types, for FlagService's own type invariant.
THEOREM TypeCorrect == Spec => []TypeOK
<1>1. FlagInv => TypeOK
    BY DEF FlagInv
<1> QED
    BY FlagInvariant, <1>1, PTL

\* A process serves one state of the file and one of the table at a time.
THEOREM Snapshots == Spec => []ServesASnapshot
<1>1. FlagInv => ServesASnapshot
    <2> SUFFICES ASSUME FlagInv, NEW s \in Servers, up[s] # "down"
                 PROVE  ServesFrom(s, 1)
        BY DEF ServesASnapshot
    <2>1. Holds(s) /\ TypeOK /\ Placed
        BY DEF FlagInv
    <2>2. CASE from[s] = None
        <3>1. Rows(0) = Empty /\ DOMAIN Rows(0) = {}
            BY EmptySource DEF Rows
        <3>2. PICK i \in 1..Len(files) : flags[s] = Layered(files[i], Empty)
            BY <2>1, <2>2 DEF Holds
        <3> QED
            BY <2>1, <2>2, <3>1, <3>2 DEF Holds, ServesFrom
    <2>3. CASE from[s] # None
        <3> DEFINE p == from[s]
        <3>1. /\ p \in Calls /\ pc[p] = "ok"
              /\ flags[s] = Layered(files[fileAt[p]], Rows(tableAt[p]))
              /\ overridden[s] = DOMAIN Rows(tableAt[p])
            BY <2>1, <2>3 DEF Holds, TypeOK
        <3>2. fileAt[p] \in 1..Len(files)
            <4>1. fileAt[p] \in 0..Len(files) /\ Len(files) \in Nat
                BY <2>1, <3>1 DEF TypeOK
            <4>2. fileAt[p] # 0
                BY <2>1, <3>1 DEF Placed, Reloading
            <4> QED
                BY <4>1, <4>2
        <3>3. tableAt[p] \in {0} \cup 1..Len(tables)
            BY <2>1, <3>1 DEF TypeOK
        <3> QED
            BY <3>1, <3>2, <3>3 DEF ServesFrom
    <2> QED
        BY <2>2, <2>3
<1> QED
    BY FlagInvariant, <1>1, PTL

\* An answered update is served by its process, or a rival reload hides it.
THEOREM WritesAreServed == Spec => []OnlyARivalHidesAWrite
<1>1. FlagInv => OnlyARivalHidesAWrite
    <2> SUFFICES ASSUME FlagInv, NEW c \in Calls,
                        pc[c] = "ok", wroteAt[c] # 0, up[at[c]] = "up",
                        from[at[c]] \notin rivals[c]
                 PROVE  ServesFrom(at[c], wroteAt[c])
        BY DEF OnlyARivalHidesAWrite
    <2> DEFINE s == at[c]
               p == from[s]
    <2>1. s \in Servers /\ p # None /\ TypeOK /\ Placed
        BY DEF FlagInv, Placed, Begun, Served
    <2>2. Holds(s)
        BY <2>1 DEF FlagInv
    <2>3. /\ p \in Calls /\ pc[p] = "ok"
          /\ flags[s] = Layered(files[fileAt[p]], Rows(tableAt[p]))
          /\ overridden[s] = DOMAIN Rows(tableAt[p])
        BY <2>1, <2>2 DEF Holds, TypeOK
    <2>4. fileAt[p] \in 1..Len(files)
        <3>1. fileAt[p] \in 0..Len(files) /\ Len(files) \in Nat
            BY <2>1, <2>3 DEF TypeOK
        <3>2. fileAt[p] # 0
            BY <2>1, <2>3 DEF Placed, Reloading
        <3> QED
            BY <3>1, <3>2
    <2>5. tableAt[p] \in {0} \cup wroteAt[c]..Len(tables)
        <3>1. /\ tableAt[p] \in 0..Len(tables) /\ wroteAt[c] \in 0..Len(tables)
              /\ Len(tables) \in Nat
            BY <2>1, <2>3 DEF TypeOK
        <3>2. tableAt[p] = 0 \/ wroteAt[c] <= tableAt[p]
            BY DEF FlagInv, ServedAfter
        <3> QED
            BY <3>1, <3>2
    <2> QED
        BY <2>3, <2>4, <2>5 DEF ServesFrom
<1> QED
    BY FlagInvariant, <1>1, PTL

\* A flag with the badge is served from its override.
THEOREM Badges == Spec => []BadgeMeansOverride
<1>1. FlagInv => BadgeMeansOverride
    <2> SUFFICES ASSUME FlagInv, NEW s \in Servers, NEW f \in overridden[s]
                 PROVE  \E j \in 1..Len(tables) :
                            /\ f \in DOMAIN tables[j]
                            /\ flags[s][f] = parseDefinition(f, tables[j][f])
        BY DEF BadgeMeansOverride
    <2> DEFINE p == from[s]
    <2>1. Holds(s) /\ TypeOK /\ RowsParse
        BY DEF FlagInv
    <2>2. p \in Calls /\ overridden[s] = DOMAIN Rows(tableAt[p])
          /\ flags[s] = Layered(files[fileAt[p]], Rows(tableAt[p]))
        BY <2>1 DEF Holds, TypeOK
    <2>3. tableAt[p] \in 0..Len(tables) /\ f \in FlagNames
        BY <2>1, <2>2 DEF TypeOK
    <2>4. tableAt[p] # 0
        BY <2>2, EmptySource DEF Rows
    <2>5. tableAt[p] \in 1..Len(tables) /\ f \in DOMAIN tables[tableAt[p]]
          /\ flags[s] = Layered(files[fileAt[p]], tables[tableAt[p]])
        BY <2>2, <2>3, <2>4 DEF Rows
    <2>6. f \in ParsedNames(tables[tableAt[p]])
        BY <2>1, <2>5 DEF RowsParse, ParsedNames
    <2> QED
        BY <2>3, <2>5, <2>6 DEF Layered
<1> QED
    BY FlagInvariant, <1>1, PTL

\* Every flag is served with a legal value, in every context.
THEOREM Legality == Spec => []ServedValuesAreLegal
<1>1. FlagInv => ServedValuesAreLegal
    <2> SUFFICES ASSUME FlagInv, NEW s \in Servers, NEW f \in FlagNames
                 PROVE  LegalDefinition(f, flags[s][f])
        BY EvaluationIsLegal DEF ServedValuesAreLegal
    <2>1. Holds(s) /\ TypeOK /\ Placed
        BY DEF FlagInv
    <2>2. CASE up[s] = "down"
        BY <2>1, <2>2, DefaultFlags DEF Holds
    <2>3. CASE up[s] # "down" /\ from[s] = None
        <3>1. PICK i \in 1..Len(files) : flags[s] = Layered(files[i], Empty)
            BY <2>1, <2>3 DEF Holds
        <3>2. files[i] \in Sources
            BY <2>1 DEF TypeOK
        <3> QED
            BY <3>1, <3>2, EmptySource, LayeredLegal
    <2>4. CASE up[s] # "down" /\ from[s] # None
        <3> DEFINE p == from[s]
        <3>1. /\ p \in Calls /\ pc[p] = "ok"
              /\ flags[s] = Layered(files[fileAt[p]], Rows(tableAt[p]))
            BY <2>1, <2>4 DEF Holds, TypeOK
        <3>2. fileAt[p] \in 0..Len(files) /\ Len(files) \in Nat
              /\ tableAt[p] \in 0..Len(tables)
            BY <2>1, <3>1 DEF TypeOK
        <3>3. fileAt[p] # 0
            BY <2>1, <3>1 DEF Placed, Reloading
        <3>4. files[fileAt[p]] \in Sources /\ Rows(tableAt[p]) \in Sources
            BY <2>1, <3>2, <3>3, RowsSource DEF TypeOK
        <3> QED
            BY <3>1, <3>4, LayeredLegal
    <2> QED
        BY <2>2, <2>3, <2>4
<1> QED
    BY FlagInvariant, <1>1, PTL

\* Reloads that do not overlap never take a process back to an older table.
THEOREM Forward == Spec => ReloadsMoveForward
<1> DEFINE A == \A s \in Servers :
                    /\ from'[s] # from[s]
                    /\ from[s] # None /\ from'[s] # None
                    /\ tableAt[from'[s]] # 0
                    => \/ tableAt[from[s]] <= tableAt[from'[s]]
                       \/ Rivals(from[s], from'[s])
<1>1. FlagInv /\ Next => A
    <2> SUFFICES ASSUME FlagInv, Next, NEW s \in Servers,
                        from'[s] # from[s], from[s] # None, from'[s] # None,
                        tableAt[from'[s]] # 0
                 PROVE  \/ tableAt[from[s]] <= tableAt[from'[s]]
                        \/ Rivals(from[s], from'[s])
        OBVIOUS
    <2>1. TypeOK /\ RowsParse /\ Holds(s) /\ Ordered
        BY DEF FlagInv
    <2>2. \E c \in Calls : Install(c)
        <3>1. \A c \in Calls, t \in Servers : Update(c, t) => from' = from
            BY <2>1, UpdateParts DEF serverVars
        <3>2. \A t \in Servers :
                Crash(t) => from'[s] = from[s] \/ from'[s] = None
            BY <2>1 DEF Crash, TypeOK
        <3> QED
            BY <2>1, <3>1, <3>2, Steps
            DEF ReloadAfterWrite, QueryTable, QueryFails, Asked, Begin,
                UpdateRefused, StartProcess, EditFile, serverVars
    <2>3. PICK c \in Calls : Install(c)
        BY <2>2
    <2>4. /\ pc[c] = "installing" /\ at[c] = s /\ from'[s] = c
        BY <2>1, <2>3 DEF Install, TypeOK
    <2>5. from[s] \in Calls /\ pc[from[s]] = "ok" /\ at[from[s]] = s
        BY <2>1 DEF Holds, TypeOK
    <2> QED
        BY <2>1, <2>4, <2>5 DEF Ordered
<1>2. FlagInv /\ [Next]_vars => [A]_vars
    BY <1>1
<1>3. [][A]_vars => ReloadsMoveForward
    BY DEF ReloadsMoveForward
<1> QED
    BY FlagInvariant, <1>2, <1>3, PTL DEF Spec
=============================================================================
