--------------------------- MODULE AdminPagesProofs ---------------------------
(***************************************************************************)
(* What the admin pages write and show, for any flags, accounts,           *)
(* definitions and numbers of clicks: well-formed definitions, overrides   *)
(* that touch one user, on the flags page the state of the last answer, on *)
(* the users page the newest users without a gap.                          *)
(***************************************************************************)
EXTENDS AdminPages, SequenceTheorems, FiniteSetTheorems,
        WellFoundedInduction, TLAPS

BooleanRule == [if : Predicate, value : Values]

Rows ==
    [enabled : BOOLEAN, value : Values,
     initial : [enabled : BOOLEAN, value : Values]]

-----------------------------------------------------------------------------
(* Lists of rules.                                                         *)

LEMMA AccountsAre ==
    /\ ToSet(Accounts) \subseteq FieldValues
    /\ DOMAIN Accounts = 1 .. Len(Accounts) /\ Len(Accounts) \in Nat
    /\ \A i \in DOMAIN Accounts :
           Accounts[i] \in ToSet(Accounts) /\ Accounts[i] # Nothing
    /\ \A i, j \in DOMAIN Accounts : Accounts[i] = Accounts[j] => i = j
  <1>1. /\ DOMAIN Accounts = 1 .. Len(Accounts) /\ Len(Accounts) \in Nat
        /\ \A i \in DOMAIN Accounts : Accounts[i] \in FieldValues \ {Nothing}
    BY AdminPagesAssumption, LenProperties, ElementOfSeq
  <1>2. \A i, j \in DOMAIN Accounts : Accounts[i] = Accounts[j] => i = j
    BY AdminPagesAssumption DEF IsInjective
  <1> QED
    BY <1>1, <1>2 DEF ToSet

LEMMA FirstIs ==
    ASSUME NEW S, S \subseteq Nat, S # {}
    PROVE  First(S) \in S /\ \A j \in S : First(S) <= j
  <1> DEFINE R == {ss \in Nat \X Nat : ss[1] < ss[2]}
  <1>1. IsWellFoundedOn(R, Nat)
    BY NatLessThanWellFounded DEF OpToRel
  <1>2. \E i \in S : \A j \in S : ~(<<j, i>> \in R)
    <2> HIDE DEF R
    <2> QED
      BY <1>1, WFMin
  <1>3. PICK i \in S : \A j \in S : ~(<<j, i>> \in R)
    BY <1>2
  <1>4. \A j \in S : i <= j
    <2> SUFFICES ASSUME NEW j \in S
                 PROVE  i <= j
      OBVIOUS
    <2>1. i \in Nat /\ j \in Nat /\ ~(<<j, i>> \in R)
      BY <1>3
    <2> QED
      BY <2>1
  <1> QED
    BY <1>4 DEF First

\* The first of a set of positions is the only one before all others.
LEMMA FirstUnique ==
    ASSUME NEW S, S \subseteq Nat, NEW i \in S, \A j \in S : i <= j
    PROVE  First(S) = i
  <1>1. First(S) \in S /\ First(S) <= i /\ i <= First(S)
    BY FirstIs
  <1>2. First(S) \in Nat /\ i \in Nat
    BY <1>1
  <1> QED
    BY <1>1, <1>2

LEMMA NextFlagIs ==
    ASSUME NEW todo, todo \subseteq Flags, todo # {}
    PROVE  NextFlag(todo) \in todo /\ NextFlag(todo) \in Flags
  <1> DEFINE S == {i \in DOMAIN FLAG_LIST : FLAG_LIST[i] \in todo}
  <1>1. S \subseteq Nat
    BY AdminPagesAssumption, LenProperties
  <1>2. S # {}
    BY DEF Flags, ToSet
  <1>3. First(S) \in S
    <2> HIDE DEF S
    <2> QED
      BY <1>1, <1>2, FirstIs
  <1> QED
    BY <1>3 DEF NextFlag

LEMMA UserRules ==
    ASSUME NEW d \in Definitions, NEW u
    PROVE  /\ d.rules \in Seq(BooleanRule) /\ Len(d.rules) \in Nat
           /\ DOMAIN d.rules = 1 .. Len(d.rules)
           /\ findUserRule(d, u) \subseteq DOMAIN d.rules
           /\ findUserRule(d, u) # {} =>
                First(findUserRule(d, u)) \in findUserRule(d, u)
  <1>1. d.rules \in Seq(BooleanRule)
    BY DEF Definitions, BooleanRule
  <1>2. /\ Len(d.rules) \in Nat
        /\ DOMAIN d.rules = 1 .. Len(d.rules)
    BY <1>1, LenProperties
  <1>3. /\ findUserRule(d, u) \subseteq DOMAIN d.rules
        /\ findUserRule(d, u) \subseteq Nat
    BY <1>2 DEF findUserRule
  <1> QED
    BY <1>1, <1>2, <1>3, FirstIs

LEMMA Removed ==
    ASSUME NEW S, NEW s \in Seq(S), NEW i \in 1 .. Len(s)
    PROVE  /\ RemoveAt(s, i) \in Seq(S)
           /\ Len(RemoveAt(s, i)) = Len(s) - 1
           /\ \A j \in 1 .. i - 1 : RemoveAt(s, i)[j] = s[j]
           /\ \A j \in i .. Len(s) - 1 : RemoveAt(s, i)[j] = s[j + 1]
  <1> DEFINE a == SubSeq(s, 1, i - 1)
             b == SubSeq(s, i + 1, Len(s))
  <1>1. Len(s) \in Nat /\ \A j \in 1 .. Len(s) : s[j] \in S
    BY LenProperties, ElementOfSeq
  <1>2. /\ a \in Seq(S) /\ Len(a) = i - 1
        /\ \A j \in 1 .. i - 1 : a[j] = s[j]
    <2>1. \A j \in 1 .. i - 1 : s[j] \in S
      BY <1>1
    <2> QED
      BY <1>1, <2>1, SubSeqProperties
  <1>3. /\ b \in Seq(S) /\ Len(b) = Len(s) - i
        /\ \A j \in 1 .. Len(s) - i : b[j] = s[i + j]
    <2>1. \A j \in i + 1 .. Len(s) : s[j] \in S
      BY <1>1
    <2>2. /\ b \in Seq(S)
          /\ Len(b) = IF i + 1 <= Len(s) THEN Len(s) - (i + 1) + 1 ELSE 0
          /\ \A j \in 1 .. Len(s) - (i + 1) + 1 : b[j] = s[i + 1 + j - 1]
      BY <1>1, <2>1, SubSeqProperties
    <2> QED
      BY <1>1, <2>2
  <1>4. RemoveAt(s, i) = a \o b
    BY DEF RemoveAt
  <1> HIDE DEF a, b
  <1>5. /\ a \o b \in Seq(S) /\ Len(a \o b) = Len(s) - 1
        /\ \A j \in 1 .. Len(s) - 1 :
                (a \o b)[j] = IF j <= i - 1 THEN a[j] ELSE b[j - (i - 1)]
    <2>1. /\ a \o b \in Seq(S) /\ Len(a \o b) = Len(a) + Len(b)
          /\ \A j \in 1 .. Len(a) + Len(b) :
                (a \o b)[j] = IF j <= Len(a) THEN a[j] ELSE b[j - Len(a)]
      BY <1>2, <1>3, ConcatProperties
    <2>2. Len(a) + Len(b) = Len(s) - 1
      BY <1>1, <1>2, <1>3
    <2> QED
      BY <1>2, <2>1, <2>2
  <1>6. ASSUME NEW j \in i .. Len(s) - 1
        PROVE  (a \o b)[j] = s[j + 1]
    <2>1. j - (i - 1) \in 1 .. Len(s) - i /\ i + (j - (i - 1)) = j + 1
      BY <1>1
    <2>2. (a \o b)[j] = b[j - (i - 1)]
      BY <1>1, <1>5
    <2> QED
      BY <1>3, <2>1, <2>2
  <1> QED
    BY <1>1, <1>2, <1>4, <1>5, <1>6

LEMMA Replaced ==
    ASSUME NEW S, NEW s \in Seq(S), NEW i \in DOMAIN s, NEW e \in S
    PROVE  [s EXCEPT ![i] = e] \in Seq(S)
  OBVIOUS

LEMMA Prepended ==
    ASSUME NEW S, NEW s \in Seq(S), NEW e \in S
    PROVE  /\ <<e>> \o s \in Seq(S)
           /\ Len(<<e>> \o s) = Len(s) + 1
           /\ (<<e>> \o s)[1] = e
           /\ \A j \in 1 .. Len(s) : (<<e>> \o s)[j + 1] = s[j]
  <1> DEFINE t == <<e>>
  <1>1. t \in Seq(S) /\ Len(t) = 1 /\ t[1] = e /\ Len(s) \in Nat
    BY LenProperties
  <1> HIDE DEF t
  <1>2. /\ t \o s \in Seq(S) /\ Len(t \o s) = 1 + Len(s)
        /\ \A j \in 1 .. 1 + Len(s) :
                (t \o s)[j] = IF j <= 1 THEN t[j] ELSE s[j - 1]
    <2>1. /\ t \o s \in Seq(S) /\ Len(t \o s) = Len(t) + Len(s)
          /\ \A j \in 1 .. Len(t) + Len(s) :
                (t \o s)[j] = IF j <= Len(t) THEN t[j] ELSE s[j - Len(t)]
      BY <1>1, ConcatProperties
    <2> QED
      BY <1>1, <2>1
  <1>3. \A j \in 1 .. Len(s) : (t \o s)[j + 1] = s[j]
    BY <1>1, <1>2
  <1> QED
    BY <1>1, <1>2, <1>3 DEF t

-----------------------------------------------------------------------------
(* Definitions.                                                            *)

LEMMA BoolIs ==
    /\ \A b \in BOOLEAN : Bool(b) \in Values
    /\ Values \subseteq FlagValue
    /\ \A v : Not(v) \in Values
  <1>1. \A b \in BOOLEAN : Bool(b) \in Values
    BY DEF Values
  <1>2. Values \subseteq FlagValue
    BY DEF Values, Bool, FlagValue
  <1>3. ASSUME NEW v
        PROVE  Not(v) \in Values
    <2> DEFINE b == v = Bool(FALSE)
    <2>1. b \in BOOLEAN
      OBVIOUS
    <2>2. Not(v) = Bool(b)
      BY DEF Not
    <2> HIDE DEF b
    <2> QED
      BY <1>1, <2>1, <2>2
  <1> QED
    BY <1>1, <1>2, <1>3

LEMMA RuleIs ==
    ASSUME NEW u \in FieldValues, NEW v \in Values
    PROVE  [if |-> [NoFields EXCEPT !["userId"] = u], value |-> v]
                \in BooleanRule
  <1>1. [NoFields EXCEPT !["userId"] = u] \in Predicate
    BY DEF NoFields, Predicate, ContextKeys
  <1> QED
    BY <1>1 DEF BooleanRule

\* A definition with other rules.
LEMMA Ruled ==
    ASSUME NEW d \in Definitions, NEW t \in Seq(BooleanRule)
    PROVE  [d EXCEPT !.rules = t] \in Definitions
  BY DEF Definitions, BooleanRule

LEMMA DefaultsAre ==
    ASSUME NEW f \in Flags
    PROVE  FLAG_DEFAULTS[f] \in Definitions
  <1>1. f \in FlagNames /\ f \notin NumericFlags
    BY AdminPagesAssumption DEF BooleanFlags
  <1>2. ASSUME NEW v \in Values
        PROVE  Plain(v) \in Definitions
    BY DEF Plain, Definitions, NoPercentage
  <1>3. ASSUME NEW v \in Values, NEW w \in Values
        PROVE  WithAdminRule(v, w) \in Definitions
    <2> DEFINE p == [NoFields EXCEPT !["userRole"] = "admin"]
               r == [if |-> p, value |-> w]
    <2>1. p \in Predicate
      BY FieldsAssumption DEF NoFields, Predicate, ContextKeys
    <2>2. r \in [if : Predicate, value : Values]
      BY <2>1
    <2>3. <<r>> \in Seq([if : Predicate, value : Values])
      <3> HIDE DEF r
      <3> QED
        BY <2>2
    <2> QED
      BY <2>3 DEF WithAdminRule, Definitions, NoPercentage
  <1>4. Bool(TRUE) \in Values /\ Bool(FALSE) \in Values
    BY BoolIs
  <1> QED
    BY <1>1, <1>2, <1>3, <1>4 DEF FLAG_DEFAULTS, NumericFlags

LEMMA CatalogIs ==
    ASSUME override \in [Flags -> Definitions \cup {Nothing}]
    PROVE  /\ Catalog \in Catalogs /\ Catalog # Nothing
           /\ \A f \in Flags : Definition(f) \in Definitions
  <1>1. \A f \in Flags : Definition(f) \in Definitions
    BY DefaultsAre DEF Definition
  <1>2. Catalog \in Catalogs
    BY <1>1 DEF Catalog, Catalogs
  <1> QED
    BY <1>1, <1>2, DefinitionsAssumption

\* What the dialog sends for a user is a definition.
LEMMA AppliedIs ==
    ASSUME NEW d \in Definitions, NEW u \in FieldValues, NEW row \in Rows
    PROVE  applyOverride(d, u, row) \in Definitions
  <1> DEFINE mine == findUserRule(d, u)
             rule == [if |-> [NoFields EXCEPT !["userId"] = u],
                      value |-> row.value]
  <1>1. rule \in BooleanRule
    BY RuleIs DEF Rows
  <1>2. /\ d.rules \in Seq(BooleanRule)
        /\ DOMAIN d.rules = 1 .. Len(d.rules)
        /\ mine # {} => First(mine) \in DOMAIN d.rules
    BY UserRules
  <1> HIDE DEF rule, mine
  <1>3. mine # {} => [d.rules EXCEPT ![First(mine)] = rule] \in Seq(BooleanRule)
    BY <1>1, <1>2, Replaced
  <1>4. <<rule>> \o d.rules \in Seq(BooleanRule)
    BY <1>1, <1>2, Prepended
  <1>5. mine # {} => RemoveAt(d.rules, First(mine)) \in Seq(BooleanRule)
    BY <1>2, Removed
  <1>6. applyOverride(d, u, row) =
            [d EXCEPT !.rules =
                IF row.enabled /\ mine # {}
                THEN [d.rules EXCEPT ![First(mine)] = rule]
                ELSE IF row.enabled THEN <<rule>> \o d.rules
                ELSE IF mine # {} THEN RemoveAt(d.rules, First(mine))
                ELSE d.rules]
    BY DEF applyOverride, mine, rule
  <1> DEFINE t == IF row.enabled /\ mine # {}
                  THEN [d.rules EXCEPT ![First(mine)] = rule]
                  ELSE IF row.enabled THEN <<rule>> \o d.rules
                  ELSE IF mine # {} THEN RemoveAt(d.rules, First(mine))
                  ELSE d.rules
  <1>7. t \in Seq(BooleanRule)
    BY <1>2, <1>3, <1>4, <1>5
  <1>8. applyOverride(d, u, row) = [d EXCEPT !.rules = t]
    BY <1>6
  <1> HIDE DEF t
  <1> QED
    BY <1>7, <1>8, Ruled

\* So is what the editor makes of a definition.
LEMMA ChangesAre ==
    ASSUME NEW d \in Definitions, NEW e \in Changes(d)
    PROVE  e \in Definitions
  <1>1. /\ d.rules \in Seq(BooleanRule) /\ Len(d.rules) \in Nat
        /\ DOMAIN d.rules = 1 .. Len(d.rules)
        /\ \A i \in DOMAIN d.rules : d.rules[i] \in BooleanRule
    BY UserRules, ElementOfSeq
  <1>2. CASE e = [d EXCEPT !.default = Not(d.default)]
    BY <1>2, BoolIs DEF Definitions
  <1>3. ASSUME NEW p \in Percentages, e = [d EXCEPT !.percentage = p]
        PROVE  e \in Definitions
    BY <1>3, DefinitionsAssumption, SMTT(20) DEF Definitions, NoPercentage
  <1>4. ASSUME e = [d EXCEPT !.rules = Append(d.rules,
                        [if |-> NoFields, value |-> Not(d.default)])]
        PROVE  e \in Definitions
    <2>1. [if |-> NoFields, value |-> Not(d.default)] \in BooleanRule
      BY BoolIs DEF BooleanRule, NoFields, Predicate
    <2>2. Append(d.rules, [if |-> NoFields, value |-> Not(d.default)])
            \in Seq(BooleanRule)
      BY <1>1, <2>1, AppendProperties
    <2> QED
      BY <1>4, <2>2, Ruled
  <1>5. ASSUME NEW i \in DOMAIN d.rules,
               e = [d EXCEPT !.rules = RemoveAt(d.rules, i)]
        PROVE  e \in Definitions
    <2>1. RemoveAt(d.rules, i) \in Seq(BooleanRule)
      BY <1>1, Removed
    <2> QED
      BY <1>5, <2>1, Ruled
  <1>6. ASSUME NEW i \in DOMAIN d.rules,
               e = [d EXCEPT !.rules[i].value = Not(@)]
        PROVE  e \in Definitions
    <2> DEFINE rule == [d.rules[i] EXCEPT !.value = Not(d.rules[i].value)]
    <2>1. rule \in BooleanRule
      BY <1>1, BoolIs DEF BooleanRule
    <2>2. e = [d EXCEPT !.rules = [d.rules EXCEPT ![i] = rule]]
      BY <1>6
    <2> HIDE DEF rule
    <2>3. [d.rules EXCEPT ![i] = rule] \in Seq(BooleanRule)
      BY <1>1, <2>1, Replaced
    <2> QED
      BY <2>2, <2>3, Ruled
  <1>7. ASSUME NEW i \in DOMAIN d.rules, NEW r \in Roles \cup {Absent},
               e = [d EXCEPT !.rules[i].if["userRole"] = r]
        PROVE  e \in Definitions
    <2> DEFINE p == [d.rules[i].if EXCEPT !["userRole"] = r]
               rule == [d.rules[i] EXCEPT !.if = p]
    <2>1. p \in Predicate
      BY <1>1, DefinitionsAssumption DEF BooleanRule, Predicate
    <2>2. rule \in BooleanRule
      BY <1>1, <2>1 DEF BooleanRule
    <2>3. e = [d EXCEPT !.rules = [d.rules EXCEPT ![i] = rule]]
      BY <1>7
    <2> HIDE DEF rule
    <2>4. [d.rules EXCEPT ![i] = rule] \in Seq(BooleanRule)
      BY <1>1, <2>2, Replaced
    <2> QED
      BY <2>3, <2>4, Ruled
  <1> DEFINE
        D == {[d EXCEPT !.default = Not(@)]}
        P == {[d EXCEPT !.percentage = p] : p \in Percentages}
        A == {[d EXCEPT !.rules =
                 Append(@, [if |-> NoFields, value |-> Not(d.default)])]}
        R == {[d EXCEPT !.rules = RemoveAt(@, i)] : i \in DOMAIN d.rules}
        V == {[d EXCEPT !.rules[i].value = Not(@)] : i \in DOMAIN d.rules}
        I == {[d EXCEPT !.rules[i].if["userRole"] = r] :
                i \in DOMAIN d.rules, r \in Roles \cup {Absent}}
  <1>8. e \in D \cup P \cup A \cup R \cup V \cup I
    BY DEF Changes
  <1>9. CASE e \in D
    BY <1>2, <1>9
  <1>10. CASE e \in P
    BY <1>3, <1>10
  <1>11. CASE e \in A
    BY <1>4, <1>11
  <1>12. CASE e \in R
    BY <1>5, <1>12
  <1>13. CASE e \in V
    BY <1>6, <1>13
  <1>14. CASE e \in I
    BY <1>7, <1>14
  <1> HIDE DEF D, P, A, R, V, I
  <1> QED
    BY <1>8, <1>9, <1>10, <1>11, <1>12, <1>13, <1>14

LEMMA RowIs ==
    ASSUME NEW d \in Definitions, NEW u
    PROVE  Row(d, u) \in Rows
  <1> DEFINE mine == findUserRule(d, u)
             v == IF mine = {} THEN d.default ELSE d.rules[First(mine)].value
  <1>1. v \in Values
    <2>1. mine # {} => d.rules[First(mine)] \in BooleanRule
      BY UserRules, ElementOfSeq
    <2> QED
      BY <2>1 DEF Definitions, BooleanRule
  <1>2. Row(d, u) = [enabled |-> mine # {}, value |-> v,
                     initial |-> [enabled |-> mine # {}, value |-> v]]
    BY DEF Row
  <1> HIDE DEF v, mine
  <1> QED
    BY <1>1, <1>2 DEF Rows

-----------------------------------------------------------------------------
(* What an override changes for whom.                                      *)

LEMMA FirstHitIs ==
    ASSUME NEW rules \in Seq(BooleanRule), NEW ctx
    PROVE  /\ FirstHit(rules, ctx) = First(Hits(rules, ctx))
           /\ Hits(rules, ctx) \subseteq DOMAIN rules
           /\ DOMAIN rules = 1 .. Len(rules) /\ Len(rules) \in Nat
           /\ Hits(rules, ctx) \subseteq Nat
  <1>1. FirstHit(rules, ctx) = First(Hits(rules, ctx))
    BY DEF FirstHit, First
  <1>2. Hits(rules, ctx) \subseteq DOMAIN rules
    BY DEF Hits
  <1> QED
    BY <1>1, <1>2, LenProperties

\* Rules that match stay rules that match, in their order, with their values.
LEMMA Moved ==
    ASSUME NEW d \in Definitions, NEW e \in Definitions, NEW ctx, NEW f,
           d.default = e.default, d.percentage = e.percentage,
           NEW m,
           Hits(e.rules, ctx) = {m[j] : j \in Hits(d.rules, ctx)},
           \A j, k \in Hits(d.rules, ctx) : j <= k => m[j] <= m[k],
           \A j \in Hits(d.rules, ctx) :
                e.rules[m[j]].value = d.rules[j].value
    PROVE  evaluateFlag(f, e, ctx) = evaluateFlag(f, d, ctx)
  <1> DEFINE H == Hits(d.rules, ctx)
             G == Hits(e.rules, ctx)
  <1>1. d.rules \in Seq(BooleanRule) /\ e.rules \in Seq(BooleanRule)
    BY UserRules
  <1>2. /\ FirstHit(d.rules, ctx) = First(H) /\ H \subseteq Nat
        /\ FirstHit(e.rules, ctx) = First(G) /\ G \subseteq Nat
    BY <1>1, FirstHitIs
  <1>3. G = {m[j] : j \in H}
    OBVIOUS
  <1>4. ASSUME H # {}
        PROVE  e.rules[First(G)].value = d.rules[First(H)].value
    <2> HIDE DEF H, G
    <2>1. First(H) \in H /\ \A j \in H : First(H) <= j
      BY <1>2, <1>4, FirstIs
    <2>2. m[First(H)] \in G /\ \A k \in G : m[First(H)] <= k
      BY <1>3, <2>1 DEF H
    <2>3. First(G) = m[First(H)]
      BY <1>2, <2>2, FirstUnique
    <2> QED
      BY <2>1, <2>3 DEF H
  <1>5. H = {} <=> G = {}
    BY <1>3
  <1> HIDE DEF H, G
  <1>6. RuleDecides(d, ctx) <=> RuleDecides(e, ctx)
    BY <1>5 DEF RuleDecides, H, G
  <1>7. RuleDecides(d, ctx) =>
            /\ evaluateFlag(f, d, ctx) = d.rules[First(H)].value
            /\ evaluateFlag(f, e, ctx) = e.rules[First(G)].value
            /\ H # {}
    BY <1>2, <1>6 DEF evaluateFlag, RuleDecides, H
  <1>8. RolloutDecides(d, ctx) <=> RolloutDecides(e, ctx)
    BY DEF RolloutDecides
  <1>9. ~RuleDecides(d, ctx) =>
            evaluateFlag(f, e, ctx) = evaluateFlag(f, d, ctx)
    BY <1>6, <1>8 DEF evaluateFlag
  <1> QED
    BY <1>4, <1>7, <1>9

LEMMA HitIs ==
    ASSUME NEW rules, NEW ctx, NEW i
    PROVE  i \in Hits(rules, ctx) <=>
                i \in DOMAIN rules /\ matchesRule(rules[i].if, ctx)
  BY DEF Hits

\* A rule for one user does not match the context of another.
LEMMA OthersMiss ==
    ASSUME NEW u \in FieldValues, NEW ctx, ctx["userId"] # u
    PROVE  ~matchesRule([NoFields EXCEPT !["userId"] = u], ctx)
  BY FieldsAssumption DEF matchesRule, NoFields, ContextKeys

\* An override of one user changes nothing for another.
LEMMA Elsewhere ==
    ASSUME NEW d \in Definitions, NEW u \in FieldValues, NEW row \in Rows,
           NEW ctx, ctx["userId"] # u, NEW f
    PROVE  evaluateFlag(f, applyOverride(d, u, row), ctx) =
                evaluateFlag(f, d, ctx)
  <1> DEFINE mine == findUserRule(d, u)
             p == [NoFields EXCEPT !["userId"] = u]
             rule == [if |-> p, value |-> row.value]
             e == applyOverride(d, u, row)
             H == Hits(d.rules, ctx)
  <1>1. rule \in BooleanRule
    BY RuleIs DEF Rows
  <1>2. e \in Definitions
    BY AppliedIs
  <1>3. /\ d.rules \in Seq(BooleanRule) /\ Len(d.rules) \in Nat
        /\ DOMAIN d.rules = 1 .. Len(d.rules)
        /\ mine \subseteq DOMAIN d.rules
        /\ mine # {} => First(mine) \in mine
    BY UserRules
  <1>4. \A i \in mine : d.rules[i].if = p
    BY DEF findUserRule
  <1>5. ~matchesRule(p, ctx)
    BY OthersMiss
  <1>6. H \subseteq DOMAIN d.rules /\ H \cap mine = {}
    BY <1>4, <1>5 DEF Hits
  <1>7. /\ e.default = d.default /\ e.percentage = d.percentage
        /\ e.rules = IF row.enabled /\ mine # {}
                     THEN [d.rules EXCEPT ![First(mine)] = rule]
                     ELSE IF row.enabled THEN <<rule>> \o d.rules
                     ELSE IF mine # {} THEN RemoveAt(d.rules, First(mine))
                     ELSE d.rules
    BY DEF applyOverride, Definitions
  <1>8. rule.if = p
    OBVIOUS
  <1>9. \A i : i \in H <=>
                i \in DOMAIN d.rules /\ matchesRule(d.rules[i].if, ctx)
    BY HitIs
  <1>10. \A i : i \in Hits(e.rules, ctx) <=>
                i \in DOMAIN e.rules /\ matchesRule(e.rules[i].if, ctx)
    BY HitIs
  <1>11. d.default = e.default /\ d.percentage = e.percentage
    BY <1>7
  <1>12. H = Hits(d.rules, ctx)
    OBVIOUS
  <1> HIDE DEF mine, p, rule, e, H
  <1>13. ASSUME NEW m,
                Hits(e.rules, ctx) = {m[j] : j \in H},
                \A j, k \in H : j <= k => m[j] <= m[k],
                \A j \in H : e.rules[m[j]].value = d.rules[j].value
         PROVE  evaluateFlag(f, e, ctx) = evaluateFlag(f, d, ctx)
    <2> USE <1>12
    <2> QED
      BY <1>2, <1>11, <1>13, Moved
  <1>14. CASE row.enabled /\ mine # {}
    <2> DEFINE i == First(mine)
               m == [j \in H |-> j]
    <2>1. e.rules = [d.rules EXCEPT ![i] = rule] /\ i \in DOMAIN d.rules
      BY <1>3, <1>7, <1>14
    <2>2. i \notin H
      BY <1>3, <1>6, <1>14
    <2> HIDE DEF i
    <2>3. /\ DOMAIN e.rules = DOMAIN d.rules /\ e.rules[i] = rule
          /\ \A j \in DOMAIN d.rules : j # i => e.rules[j] = d.rules[j]
      BY <1>3, <2>1
    <2>4. Hits(e.rules, ctx) = {m[j] : j \in H}
      <3>1. \A j : j \in Hits(e.rules, ctx) <=> j \in H
        BY <1>5, <1>8, <1>9, <1>10, <2>2, <2>3
      <3> QED
        BY <3>1
    <2>5. \A j \in H : m[j] = j /\ e.rules[m[j]].value = d.rules[j].value
      BY <1>6, <2>2, <2>3
    <2> HIDE DEF m
    <2> QED
      BY <1>13, <2>4, <2>5 DEF e
  <1>15. CASE row.enabled /\ mine = {}
    <2> DEFINE m == [j \in H |-> j + 1]
    <2>1. e.rules = <<rule>> \o d.rules
      BY <1>7, <1>15
    <2>2. /\ e.rules \in Seq(BooleanRule)
          /\ Len(e.rules) = Len(d.rules) + 1 /\ e.rules[1] = rule
          /\ \A j \in 1 .. Len(d.rules) : e.rules[j + 1] = d.rules[j]
      BY <1>1, <1>3, <2>1, Prepended
    <2>3. DOMAIN e.rules = 1 .. Len(d.rules) + 1
      BY <2>2, LenProperties
    <2>4. ASSUME NEW k \in Hits(e.rules, ctx)
          PROVE  k - 1 \in H /\ m[k - 1] = k
      <3>1. k \in 1 .. Len(d.rules) + 1 /\ matchesRule(e.rules[k].if, ctx)
        BY <1>10, <2>3
      <3>2. k # 1
        BY <1>5, <1>8, <2>2, <3>1
      <3>3. k - 1 \in 1 .. Len(d.rules) /\ (k - 1) + 1 = k
        BY <1>3, <3>1, <3>2
      <3>4. k - 1 \in H
        BY <1>3, <1>9, <2>2, <3>1, <3>3
      <3> QED
        BY <3>3, <3>4
    <2>5. ASSUME NEW j \in H
          PROVE  /\ m[j] \in Hits(e.rules, ctx) /\ m[j] = j + 1 /\ j \in Nat
                 /\ e.rules[m[j]].value = d.rules[j].value
      <3>1. j \in 1 .. Len(d.rules) /\ j + 1 \in 1 .. Len(d.rules) + 1
        BY <1>3, <1>6
      <3>2. e.rules[j + 1] = d.rules[j]
        BY <2>2, <3>1
      <3> QED
        BY <1>9, <1>10, <2>3, <3>1, <3>2
    <2> HIDE DEF m
    <2>6. Hits(e.rules, ctx) = {m[j] : j \in H}
      BY <2>4, <2>5
    <2>7. \A j, k \in H : j <= k => m[j] <= m[k]
      BY <2>5
    <2> QED
      BY <1>13, <2>5, <2>6, <2>7 DEF e
  <1>16. CASE ~row.enabled /\ mine # {}
    <2> DEFINE i == First(mine)
               m == [j \in H |-> IF j < i THEN j ELSE j - 1]
    <2>1. /\ e.rules = RemoveAt(d.rules, i) /\ i \in 1 .. Len(d.rules)
          /\ i \notin H
      BY <1>3, <1>6, <1>7, <1>16
    <2> HIDE DEF i
    <2>2. /\ e.rules \in Seq(BooleanRule)
          /\ Len(e.rules) = Len(d.rules) - 1
          /\ \A j \in 1 .. i - 1 : e.rules[j] = d.rules[j]
          /\ \A j \in i .. Len(d.rules) - 1 : e.rules[j] = d.rules[j + 1]
      BY <1>3, <2>1, Removed, SMTT(20)
    <2>3. DOMAIN e.rules = 1 .. Len(d.rules) - 1
      BY <2>2, LenProperties
    <2>4. ASSUME NEW k \in Hits(e.rules, ctx)
          PROVE  \E j \in H : m[j] = k
      <3>1. k \in 1 .. Len(d.rules) - 1 /\ matchesRule(e.rules[k].if, ctx)
        BY <1>10, <2>3
      <3>2. CASE k < i
        <4>1. k \in 1 .. i - 1 /\ k \in 1 .. Len(d.rules)
          BY <1>3, <2>1, <3>1, <3>2
        <4>2. k \in H
          BY <1>3, <1>9, <2>2, <3>1, <4>1
        <4> QED
          BY <3>2, <4>2
      <3>3. CASE ~(k < i)
        <4>1. /\ k \in i .. Len(d.rules) - 1 /\ k + 1 \in 1 .. Len(d.rules)
              /\ ~(k + 1 < i) /\ (k + 1) - 1 = k
          BY <1>3, <2>1, <3>1, <3>3
        <4>2. k + 1 \in H
          BY <1>3, <1>9, <2>2, <3>1, <4>1
        <4> QED
          BY <4>1, <4>2
      <3> QED
        BY <3>2, <3>3
    <2>5. ASSUME NEW j \in H
          PROVE  /\ m[j] \in Hits(e.rules, ctx) /\ j \in Nat /\ j # i
                 /\ m[j] = IF j < i THEN j ELSE j - 1
                 /\ e.rules[m[j]].value = d.rules[j].value
      <3>1. /\ j \in 1 .. Len(d.rules) /\ j # i
            /\ matchesRule(d.rules[j].if, ctx)
        BY <1>3, <1>9, <2>1
      <3>2. m[j] = IF j < i THEN j ELSE j - 1
        OBVIOUS
      <3>3. CASE j < i
        <4>1. m[j] \in 1 .. Len(d.rules) - 1 /\ e.rules[m[j]] = d.rules[j]
          BY <1>3, <2>1, <2>2, <3>1, <3>2, <3>3
        <4> QED
          BY <1>10, <2>3, <3>1, <3>2, <4>1
      <3>4. CASE ~(j < i)
        <4>1. /\ j - 1 \in i .. Len(d.rules) - 1
              /\ j - 1 \in 1 .. Len(d.rules) - 1 /\ (j - 1) + 1 = j
          BY <1>3, <2>1, <3>1, <3>4
        <4>2. m[j] = j - 1 /\ e.rules[j - 1] = d.rules[j]
          BY <2>2, <3>2, <3>4, <4>1
        <4> QED
          BY <1>10, <2>3, <3>1, <3>2, <4>1, <4>2
      <3> QED
        BY <3>3, <3>4
    <2> HIDE DEF m
    <2>6. Hits(e.rules, ctx) = {m[j] : j \in H}
      BY <2>4, <2>5
    <2>7. \A j, k \in H : j <= k => m[j] <= m[k]
      BY <2>1, <2>5
    <2> QED
      BY <1>13, <2>5, <2>6, <2>7 DEF e
  <1>17. CASE ~row.enabled /\ mine = {}
    <2>1. e = d
      BY <1>17 DEF applyOverride, e, mine, Definitions
    <2> QED
      BY <2>1 DEF e
  <1> QED
    BY <1>14, <1>15, <1>16, <1>17

\* A first override decides for its user.
LEMMA FirstOverride ==
    ASSUME NEW d \in Definitions, NEW u \in FieldValues, NEW row \in Rows,
           row.enabled, findUserRule(d, u) = {},
           NEW ctx, ctx["userId"] = u, ctx # NoContext, NEW f
    PROVE  evaluateFlag(f, applyOverride(d, u, row), ctx) = row.value
  <1> DEFINE p == [NoFields EXCEPT !["userId"] = u]
             rule == [if |-> p, value |-> row.value]
             e == applyOverride(d, u, row)
             G == Hits(e.rules, ctx)
  <1>1. rule \in BooleanRule
    BY RuleIs DEF Rows
  <1>2. d.rules \in Seq(BooleanRule)
    BY UserRules
  <1>3. e.rules = <<rule>> \o d.rules
    BY DEF applyOverride, Definitions
  <1>4. matchesRule(p, ctx)
    BY DEF matchesRule, NoFields, ContextKeys
  <1>5. rule.if = p /\ rule.value = row.value
    OBVIOUS
  <1>6. e \in Definitions
    BY AppliedIs
  <1> HIDE DEF rule, p, e
  <1>7. e.rules[1] = rule /\ e.rules \in Seq(BooleanRule)
    BY <1>1, <1>2, <1>3, Prepended
  <1>8. 1 \in DOMAIN e.rules
    <2>1. Len(e.rules) = Len(d.rules) + 1 /\ Len(d.rules) \in Nat
      BY <1>1, <1>2, <1>3, Prepended, LenProperties
    <2> QED
      BY <1>7, <2>1, LenProperties
  <1>9. 1 \in G
    BY <1>4, <1>5, <1>7, <1>8, HitIs
  <1>10. /\ G \subseteq Nat /\ \A j \in G : 1 <= j
         /\ FirstHit(e.rules, ctx) = First(G)
    BY <1>7, FirstHitIs
  <1> HIDE DEF G
  <1>11. First(G) = 1
    BY <1>9, <1>10, FirstUnique
  <1>12. RuleDecides(e, ctx)
    BY <1>9 DEF RuleDecides, G
  <1>13. evaluateFlag(f, e, ctx) = row.value
    BY <1>5, <1>7, <1>10, <1>11, <1>12 DEF evaluateFlag
  <1> QED
    BY <1>13 DEF e

-----------------------------------------------------------------------------
(* The inductive invariant.                                                *)

Reads == {"list", "relist", "read", "reload"}

Ops == Writes \cup Reads \cup {"users", "more"}

\* A request has the fields of one.
CallIs(c) ==
    c \in [op : Ops, id : {c.id}, flag : {c.flag}, user : {c.user},
           sent : {c.sent}, todo : SUBSET Flags, dialog : BOOLEAN,
           mounted : BOOLEAN, stage : {"sent", "done"},
           answer : {c.answer}, fresh : BOOLEAN]

\* What a request carries, and what an answer about flags brings.
Carries(c) ==
    /\ c.op = "save" => c.sent \in Definitions
    /\ c.op = "override" =>
          /\ c.todo # {} /\ c.user \in ToSet(Accounts)
          /\ c.sent.definitions \in [Flags -> Definitions]
          /\ c.sent.rows \in [Flags -> Rows]
    /\ (c.op \in Reads \cup FlagWrites /\ c.stage = "done") =>
          c.answer \in Catalogs
    /\ c.op \notin Writes => c.mounted

\* The dialog's requests are for a user of the page that is there.
AtHome(c, user, open) ==
    /\ (c.op = "override" /\ c.mounted) => open
    /\ c.op = "read" => open /\ user \in ToSet(Accounts)

Asked == \A c \in calls : CallIs(c) /\ Carries(c)

Homes == \A c \in calls : AtHome(c, dialog.user, page.open)

\* An answer that nothing has overtaken is what the server would say now.
UpToDate ==
    \A c \in calls :
        (c.op \in Reads \cup FlagWrites /\ c.stage = "done" /\ c.fresh) =>
            c.answer = Catalog

PanelType ==
    /\ panel \in [open : BOOLEAN, data : Catalogs \cup {Nothing},
                  loading : BOOLEAN, reloading : BOOLEAN, error : BOOLEAN,
                  editing : Flags \cup {Nothing},
                  draft : Definitions \cup {Nothing}]
    /\ panel.editing # Nothing => panel.draft \in Definitions

PageType ==
    /\ page \in [open : BOOLEAN, list : {page.list}, cursor : {page.cursor},
                 hasMore : {page.hasMore}, loading : {page.loading},
                 error : {page.error}]
    /\ panel.open = ~page.open

DialogType ==
    /\ dialog \in [user : {dialog.user}, definitions : {dialog.definitions},
                   rows : {dialog.rows}]
    /\ dialog.rows # Nothing =>
          /\ page.open /\ dialog.user \in ToSet(Accounts)
          /\ dialog.definitions \in [Flags -> Definitions]
          /\ dialog.rows \in [Flags -> Rows]

\* A spinner turns only while a request is under way that will end it.
Waits ==
    /\ panel.loading => \E c \in calls : c.op = "list"
    /\ panel.reloading => \E c \in calls : c.op \in {"reload", "relist"}
    /\ panel.open => panel.loading \/ panel.error \/ panel.data # Nothing

\* What the page shows is the server's state, or the page's own write has
\* made it older and that write's answer is on the way.
Shows ==
    (panel.open /\ panel.data # Nothing /\ "flags" \notin lapses) =>
        \/ panel.data = Catalog
        \/ \E c \in calls :
              c.op \in FlagWrites /\ c.stage = "done" /\ c.mounted

ServerType == override \in [Flags -> Definitions \cup {Nothing}]

AdminInv ==
    /\ ServerType /\ PanelType /\ PageType /\ DialogType
    /\ Asked /\ Homes /\ UpToDate /\ Waits /\ Shows

-----------------------------------------------------------------------------
(* Requests from one step to the next.                                     *)

\* d is what became of request e, which nobody has answered in between.
Kin(d, e) ==
    /\ CallIs(d)
    /\ d.op = e.op /\ d.user = e.user /\ d.sent = e.sent /\ d.todo = e.todo
    /\ d.stage = e.stage /\ d.answer = e.answer
    /\ d.fresh => e.fresh
    /\ d.mounted => e.mounted
    /\ d.op \notin Writes => d.mounted = e.mounted

FromCalls(d) == \E e \in calls : Kin(d, e)

\* A request that is new, or new in what it waits for.
Sound(c) ==
    /\ CallIs(c) /\ Carries(c)
    /\ (c.op \in Reads \cup FlagWrites /\ c.stage = "done") =>
          c.answer = Catalog

Derived == \A d \in calls' : FromCalls(d) \/ Sound(d)

\* The flags page's requests go on, and none is sent back.
Persist ==
    \A c \in calls :
        c.op \in PanelCalls =>
            \E d \in calls' :
                /\ d.op = c.op
                /\ c.mounted => d.mounted
                /\ c.stage = "done" => d.stage = "done"

LEMMA KinOfItself ==
    ASSUME NEW c, CallIs(c)
    PROVE  Kin(c, c)
  BY DEF Kin

LEMMA KinCarries ==
    ASSUME NEW d, NEW e, Kin(d, e), Carries(e)
    PROVE  CallIs(d) /\ Carries(d)
  BY DEF Kin, Carries

LEMMA DetachedIs ==
    ASSUME NEW S, \A c \in S : CallIs(c), NEW op
    PROVE  /\ \A d \in Detached(op, S) : \E e \in S : Kin(d, e)
           /\ \A e \in S : \E d \in Detached(op, S) :
                /\ d.op = e.op /\ d.mounted = e.mounted /\ d.stage = e.stage
  <1>1. ASSUME NEW e \in S
        PROVE  /\ Kin([e EXCEPT !.dialog = FALSE], e)
               /\ [e EXCEPT !.dialog = FALSE].op = e.op
               /\ [e EXCEPT !.dialog = FALSE].mounted = e.mounted
               /\ [e EXCEPT !.dialog = FALSE].stage = e.stage
    BY DEF Kin, CallIs
  <1>2. \A e \in S : Kin(e, e)
    BY KinOfItself
  <1>3. ASSUME NEW d \in Detached(op, S)
        PROVE  \E e \in S : Kin(d, e)
    <2>1. PICK e \in S :
                d = IF e.op = op THEN [e EXCEPT !.dialog = FALSE] ELSE e
      BY DEF Detached
    <2> QED
      BY <1>1, <1>2, <2>1
  <1>4. ASSUME NEW e \in S
        PROVE  \E d \in Detached(op, S) :
                /\ d.op = e.op /\ d.mounted = e.mounted /\ d.stage = e.stage
    <2> DEFINE d == IF e.op = op THEN [e EXCEPT !.dialog = FALSE] ELSE e
    <2>1. d \in Detached(op, S)
      BY DEF Detached
    <2>2. d.op = e.op /\ d.mounted = e.mounted /\ d.stage = e.stage
      BY <1>1
    <2> HIDE DEF d
    <2> QED
      BY <2>1, <2>2
  <1> QED
    BY <1>3, <1>4

LEMMA AgedIs ==
    ASSUME NEW S, \A c \in S : CallIs(c)
    PROVE  /\ \A d \in Aged(S) : \E e \in S : Kin(d, e)
           /\ \A d \in Aged(S) : d.stage = "done" => ~d.fresh
           /\ \A e \in S : \E d \in Aged(S) :
                /\ d.op = e.op /\ d.mounted = e.mounted /\ d.stage = e.stage
           /\ \A e \in S : e.stage = "sent" => e \in Aged(S)
  <1>1. ASSUME NEW e \in S
        PROVE  /\ Kin([e EXCEPT !.fresh = FALSE], e)
               /\ [e EXCEPT !.fresh = FALSE].op = e.op
               /\ [e EXCEPT !.fresh = FALSE].mounted = e.mounted
               /\ [e EXCEPT !.fresh = FALSE].stage = e.stage
               /\ ~[e EXCEPT !.fresh = FALSE].fresh
    BY DEF Kin, CallIs
  <1>2. \A e \in S : Kin(e, e)
    BY KinOfItself
  <1>3. ASSUME NEW d \in Aged(S)
        PROVE  /\ \E e \in S : Kin(d, e)
               /\ d.stage = "done" => ~d.fresh
    <2>1. PICK e \in S :
             d = IF e.stage = "done" THEN [e EXCEPT !.fresh = FALSE] ELSE e
      BY DEF Aged
    <2> QED
      BY <1>1, <1>2, <2>1
  <1>4. ASSUME NEW e \in S
        PROVE  /\ \E d \in Aged(S) :
                    /\ d.op = e.op /\ d.mounted = e.mounted
                    /\ d.stage = e.stage
               /\ e.stage = "sent" => e \in Aged(S)
    <2> DEFINE d == IF e.stage = "done" THEN [e EXCEPT !.fresh = FALSE] ELSE e
    <2>1. d \in Aged(S)
      BY DEF Aged
    <2>2. d.op = e.op /\ d.mounted = e.mounted /\ d.stage = e.stage
      BY <1>1
    <2>3. e.stage = "sent" => d = e
      OBVIOUS
    <2> HIDE DEF d
    <2> QED
      BY <2>1, <2>2, <2>3
  <1> QED
    BY <1>3, <1>4

LEMMA OrphansAre ==
    ASSUME Asked, NEW d \in Orphans
    PROVE  FromCalls(d) /\ ~d.mounted /\ d.op \in Writes
  <1>1. PICK e \in calls : /\ e.op \in Writes
                           /\ d = [e EXCEPT !.dialog = FALSE,
                                            !.mounted = FALSE]
    BY DEF Orphans
  <1>2. Kin(d, e) /\ ~d.mounted /\ d.op \in Writes
    BY <1>1 DEF Asked, Kin, CallIs
  <1> QED
    BY <1>2 DEF FromCalls

LEMMA CallIsOne ==
    ASSUME NEW op \in Ops
    PROVE  CallIs(Call(op))
  BY DEF CallIs, Call

-----------------------------------------------------------------------------
(* What keeps each part of the invariant.                                  *)

LEMMA CatalogKept ==
    ASSUME override' = override
    PROVE  Catalog' = Catalog
  BY DEF Catalog, Definition

LEMMA AskedKept ==
    ASSUME Asked, UpToDate, Derived, override' = override
    PROVE  Asked' /\ UpToDate'
  <1>1. Catalog' = Catalog
    BY CatalogKept
  <1>2. ASSUME NEW d \in calls'
        PROVE  /\ CallIs(d) /\ Carries(d)
               /\ (d.op \in Reads \cup FlagWrites /\ d.stage = "done"
                   /\ d.fresh) => d.answer = Catalog
    <2>1. CASE Sound(d)
      BY <2>1 DEF Sound
    <2>2. CASE FromCalls(d)
      <3>1. PICK e \in calls : Kin(d, e)
        BY <2>2 DEF FromCalls
      <3>2. CallIs(d) /\ Carries(d)
        BY <3>1, KinCarries DEF Asked
      <3> QED
        BY <3>1, <3>2 DEF Kin, UpToDate
    <2> QED
      BY <2>1, <2>2 DEF Derived
  <1> QED
    BY <1>1, <1>2 DEF Asked, UpToDate

LEMMA HomesKept ==
    ASSUME Homes, page.open' = page.open,
           dialog.user \in ToSet(Accounts) => dialog.user' \in ToSet(Accounts),
           \A d \in calls' :
                FromCalls(d) \/ AtHome(d, dialog.user', page.open')
    PROVE  Homes'
  <1>1. ASSUME NEW d \in calls'
        PROVE  AtHome(d, dialog.user', page.open')
    <2>1. CASE FromCalls(d)
      <3>1. PICK e \in calls : Kin(d, e)
        BY <2>1 DEF FromCalls
      <3> QED
        BY <3>1 DEF Kin, Homes, AtHome
    <2> QED
      BY <2>1
  <1> QED
    BY <1>1 DEF Homes

LEMMA PanelKept ==
    ASSUME PanelType, Waits, Shows, Persist, panel' = panel,
           override' = override,
           "flags" \in lapses => "flags" \in lapses'
    PROVE  PanelType' /\ Waits' /\ Shows'
  <1>1. Catalog' = Catalog
    BY CatalogKept
  <1>2. PanelType'
    BY DEF PanelType
  <1>3. Waits'
    BY DEF Waits, Persist, PanelCalls, FlagWrites
  <1>4. Shows'
    BY <1>1 DEF Shows, Persist, PanelCalls, FlagWrites
  <1> QED
    BY <1>2, <1>3, <1>4

LEMMA PageKept ==
    ASSUME PageType, panel.open' = panel.open, page' = page
    PROVE  PageType'
  BY DEF PageType

LEMMA DialogKept ==
    ASSUME DialogType, page.open' = page.open, dialog' = dialog
    PROVE  DialogType'
  BY DEF DialogType

LEMMA ServerKept ==
    ASSUME ServerType, override' = override
    PROVE  ServerType'
  BY DEF ServerType

\* A click's request joins the others.
LEMMA Sending ==
    ASSUME Asked, NEW c, Send(c), CallIs(c), Carries(c), c.stage = "sent"
    PROVE  /\ Derived /\ Persist /\ calls \subseteq calls'
           /\ \E d \in calls' : d.op = c.op
           /\ \A d \in calls' : \/ FromCalls(d)
                                \/ /\ d.op = c.op /\ d.user = c.user
                                   /\ d.mounted = c.mounted
  <1> DEFINE n == [c EXCEPT !.id = spent.clicks + 1]
  <1>1. /\ CallIs(n) /\ n.op = c.op /\ n.user = c.user /\ n.sent = c.sent
        /\ n.todo = c.todo /\ n.stage = "sent" /\ n.mounted = c.mounted
    BY DEF CallIs
  <1>2. Sound(n)
    BY <1>1 DEF Sound, Carries
  <1>3. calls' = calls \cup {n}
    BY DEF Send
  <1> HIDE DEF n
  <1>4. \A d \in calls : FromCalls(d)
    BY KinOfItself DEF Asked, FromCalls
  <1> QED
    BY <1>1, <1>2, <1>3, <1>4 DEF Derived, Persist

\* Requests end.
LEMMA Ending ==
    ASSUME Asked, calls' \subseteq calls
    PROVE  Derived /\ \A d \in calls' : FromCalls(d)
  BY KinOfItself DEF Asked, Derived, FromCalls

LEMMA EndingBeside ==
    ASSUME NEW c, c.op \notin PanelCalls, calls' = calls \ {c}
    PROVE  Persist
  BY DEF Persist

-----------------------------------------------------------------------------
(* The initial states, and the steps beside the flags page.                *)

LEMMA CallsStart ==
    ASSUME NEW tab \in {"flags", "users"}
    PROVE  LET c == FirstRead(tab)
           IN  /\ CallIs(c) /\ Carries(c) /\ c.stage = "sent" /\ c.mounted
               /\ c.op = IF tab = "flags" THEN "list" ELSE "users"
  <1>1. (IF tab = "flags" THEN "list" ELSE "users") \in Ops
    BY DEF Ops, Reads
  <1>2. CallIs(FirstRead(tab))
    BY <1>1, CallIsOne DEF FirstRead
  <1> QED
    BY <1>2 DEF FirstRead, Call, Carries, Reads, FlagWrites, Writes

\* The pages as a tab mounts them.
LEMMA MountedIs ==
    ASSUME NEW tab \in {"flags", "users"}
    PROVE  /\ Panel(tab = "flags") \in
                [open : BOOLEAN, data : Catalogs \cup {Nothing},
                 loading : BOOLEAN, reloading : BOOLEAN, error : BOOLEAN,
                 editing : Flags \cup {Nothing},
                 draft : Definitions \cup {Nothing}]
           /\ Panel(tab = "flags").editing = Nothing
           /\ Panel(tab = "flags").data = Nothing
           /\ Panel(tab = "flags").reloading = FALSE
           /\ Panel(tab = "flags").loading <=> tab = "flags"
           /\ Panel(tab = "flags").open <=> tab = "flags"
           /\ LET p == Page(tab = "users")
              IN  /\ p \in [open : BOOLEAN, list : {p.list},
                            cursor : {p.cursor}, hasMore : {p.hasMore},
                            loading : {p.loading}, error : {p.error}]
                  /\ p.open <=> tab # "flags"
           /\ Panel(tab = "flags").open = ~Page(tab = "users").open
  BY DEF Panel, Page

LEMMA AdminInit == Init => AdminInv
  <1> SUFFICES ASSUME Init
               PROVE  AdminInv
    OBVIOUS
  <1>1. PICK tab \in {"flags", "users"} :
            /\ panel = Panel(tab = "flags") /\ page = Page(tab = "users")
            /\ calls = {FirstRead(tab)}
    BY DEF Init
  <1>2. ServerType
    BY DefinitionsAssumption DEF Init, ServerType
  <1>3. /\ CallIs(FirstRead(tab)) /\ Carries(FirstRead(tab))
        /\ FirstRead(tab).stage = "sent" /\ FirstRead(tab).mounted
        /\ FirstRead(tab).op = IF tab = "flags" THEN "list" ELSE "users"
    BY CallsStart
  <1>4. Asked /\ Homes /\ UpToDate
    BY <1>1, <1>3 DEF Asked, Homes, UpToDate, AtHome
  <1>5. PanelType /\ PageType
    BY <1>1, MountedIs DEF PanelType, PageType
  <1>6. DialogType
    BY DEF Init, NoDialog, DialogType
  <1>7. Waits /\ Shows
    BY <1>1, <1>3, MountedIs DEF Waits, Shows
  <1> QED
    BY <1>2, <1>4, <1>5, <1>6, <1>7 DEF AdminInv

LEMMA VisitStep ==
    ASSUME AdminInv, NEW tab \in {"flags", "users"}, Visit(tab)
    PROVE  AdminInv'
  <1>1. /\ panel' = Panel(tab = "flags") /\ page' = Page(tab = "users")
        /\ dialog' = NoDialog /\ override' = override
        /\ calls' = Orphans \cup {FirstRead(tab)}
    BY DEF Visit, Mounted, serverVars
  <1>2. /\ CallIs(FirstRead(tab)) /\ Carries(FirstRead(tab))
        /\ FirstRead(tab).stage = "sent" /\ FirstRead(tab).mounted
        /\ FirstRead(tab).op = IF tab = "flags" THEN "list" ELSE "users"
    BY CallsStart
  <1>3. \A d \in Orphans : FromCalls(d) /\ ~d.mounted /\ d.op \in Writes
    BY OrphansAre DEF AdminInv
  <1>4. Asked' /\ UpToDate'
    <2>1. Derived
      BY <1>1, <1>2, <1>3 DEF Derived, Sound
    <2> QED
      BY <1>1, <2>1, AskedKept DEF AdminInv
  <1>5. Homes'
    BY <1>1, <1>2, <1>3 DEF Homes, AtHome, Writes, FlagWrites
  <1>6. PanelType' /\ PageType'
    BY <1>1, MountedIs DEF PanelType, PageType
  <1>7. DialogType'
    BY <1>1 DEF NoDialog, DialogType
  <1>8. Waits' /\ Shows'
    BY <1>1, <1>2, MountedIs DEF Waits, Shows
  <1>9. ServerType'
    BY <1>1, ServerKept DEF AdminInv
  <1> QED
    BY <1>4, <1>5, <1>6, <1>7, <1>8, <1>9 DEF AdminInv

LEMMA Beside ==
    ASSUME AdminInv, Derived, Persist, override' = override, panel' = panel,
           "flags" \in lapses => "flags" \in lapses',
           PageType', DialogType', Homes'
    PROVE  AdminInv'
  BY AskedKept, PanelKept, ServerKept DEF AdminInv

\* A click that changes nothing but the requests.
LEMMA SendBeside ==
    ASSUME AdminInv, NEW c, Send(c), CallIs(c), Carries(c), c.stage = "sent",
           AtHome(c, dialog.user, page.open),
           UNCHANGED <<override, panel, page, dialog, lapses>>
    PROVE  AdminInv'
  <1>1. /\ Derived /\ Persist
        /\ \A d \in calls' : \/ FromCalls(d)
                             \/ /\ d.op = c.op /\ d.user = c.user
                                /\ d.mounted = c.mounted
    BY Sending DEF AdminInv
  <1>2. Homes'
    BY <1>1, HomesKept DEF AdminInv, AtHome
  <1> QED
    BY <1>1, <1>2, Beside, PageKept, DialogKept DEF AdminInv

LEMMA WriteClicks ==
    ASSUME AdminInv,
           \/ submit \/ clearAll \/ \E f \in Flags : clear(f)
           \/ loadMore \/ \E u \in ToSet(Accounts) : handleDelete(u)
           \/ saveOverrides
    PROVE  AdminInv'
  <1> USE DEF serverVars
  <1>1. CASE submit
    <2> DEFINE c == [Call("save") EXCEPT !.flag = panel.editing,
                                 !.sent = panel.draft, !.dialog = TRUE]
    <2>1. /\ CallIs(c) /\ c.stage = "sent" /\ c.op = "save"
          /\ c.sent = panel.draft
      BY DEF Call, CallIs, Ops, Writes, FlagWrites
    <2>2. panel.draft \in Definitions
      BY <1>1 DEF submit, AdminInv, PanelType
    <2>3. Send(c) /\ UNCHANGED <<override, panel, page, dialog, lapses>>
      BY <1>1 DEF submit
    <2> HIDE DEF c
    <2>4. Carries(c) /\ AtHome(c, dialog.user, page.open)
      BY <2>1, <2>2 DEF Carries, AtHome, Writes, FlagWrites
    <2> QED
      BY <2>1, <2>3, <2>4, SendBeside
  <1>2. CASE clearAll
    <2> DEFINE c == [Call("clearAll") EXCEPT !.dialog = TRUE]
    <2>1. /\ CallIs(c) /\ c.stage = "sent" /\ c.op = "clearAll"
      BY DEF Call, CallIs, Ops, Writes, FlagWrites
    <2>2. Send(c) /\ UNCHANGED <<override, panel, page, dialog, lapses>>
      BY <1>2 DEF clearAll
    <2> HIDE DEF c
    <2>3. Carries(c) /\ AtHome(c, dialog.user, page.open)
      BY <2>1 DEF Carries, AtHome, Writes, FlagWrites
    <2> QED
      BY <2>1, <2>2, <2>3, SendBeside
  <1>3. ASSUME NEW f \in Flags, clear(f)
        PROVE  AdminInv'
    <2> DEFINE c == [Call("clear") EXCEPT !.flag = f, !.dialog = TRUE]
    <2>1. /\ CallIs(c) /\ c.stage = "sent" /\ c.op = "clear"
      BY DEF Call, CallIs, Ops, Writes, FlagWrites
    <2>2. Send(c) /\ UNCHANGED <<override, panel, page, dialog, lapses>>
      BY <1>3 DEF clear
    <2> HIDE DEF c
    <2>3. Carries(c) /\ AtHome(c, dialog.user, page.open)
      BY <2>1 DEF Carries, AtHome, Writes, FlagWrites
    <2> QED
      BY <2>1, <2>2, <2>3, SendBeside
  <1>4. CASE loadMore
    <2> DEFINE c == [Call("more") EXCEPT !.user = page.cursor]
    <2>1. /\ CallIs(c) /\ c.stage = "sent" /\ c.op = "more" /\ c.mounted
      BY DEF Call, CallIs, Ops, Writes, FlagWrites
    <2>2. Send(c) /\ UNCHANGED <<override, panel, page, dialog, lapses>>
      BY <1>4 DEF loadMore
    <2> HIDE DEF c
    <2>3. Carries(c) /\ AtHome(c, dialog.user, page.open)
      BY <2>1 DEF Carries, AtHome, Reads, Writes, FlagWrites
    <2> QED
      BY <2>1, <2>2, <2>3, SendBeside
  <1>5. ASSUME NEW u \in ToSet(Accounts), handleDelete(u)
        PROVE  AdminInv'
    <2> DEFINE c == [Call("delete") EXCEPT !.user = u, !.dialog = TRUE]
    <2>1. /\ CallIs(c) /\ c.stage = "sent" /\ c.op = "delete"
      BY DEF Call, CallIs, Ops, Writes, FlagWrites
    <2>2. Send(c) /\ UNCHANGED <<override, panel, page, dialog, lapses>>
      BY <1>5 DEF handleDelete
    <2> HIDE DEF c
    <2>3. Carries(c) /\ AtHome(c, dialog.user, page.open)
      BY <2>1 DEF Carries, AtHome, Writes, FlagWrites
    <2> QED
      BY <2>1, <2>2, <2>3, SendBeside
  <1>6. CASE saveOverrides
    <2> DEFINE s == [definitions |-> dialog.definitions,
                     rows |-> dialog.rows]
               c == [Call("override") EXCEPT
                        !.user = dialog.user, !.todo = dirtyFlags,
                        !.dialog = TRUE, !.sent = s]
    <2>1. dirtyFlags \subseteq Flags /\ dirtyFlags # {}
      BY <1>6 DEF saveOverrides, dirtyFlags
    <2>2. /\ CallIs(c) /\ c.stage = "sent" /\ c.op = "override"
          /\ c.user = dialog.user /\ c.todo = dirtyFlags
          /\ c.sent = s
      BY <2>1 DEF Call, CallIs, Ops, Writes, FlagWrites
    <2>3. Send(c) /\ UNCHANGED <<override, panel, page, dialog, lapses>>
      BY <1>6 DEF saveOverrides
    <2>4. /\ page.open /\ dialog.user \in ToSet(Accounts)
          /\ dialog.definitions \in [Flags -> Definitions]
          /\ dialog.rows \in [Flags -> Rows]
      BY <1>6 DEF saveOverrides, AdminInv, DialogType
    <2>5. s.definitions = dialog.definitions /\ s.rows = dialog.rows
      OBVIOUS
    <2> HIDE DEF c, s
    <2>6. Carries(c) /\ AtHome(c, dialog.user, page.open)
      BY <2>1, <2>2, <2>4, <2>5 DEF Carries, AtHome, Writes, FlagWrites
    <2> QED
      BY <2>2, <2>3, <2>6, SendBeside
  <1> QED
    BY <1>1, <1>2, <1>3, <1>4, <1>5, <1>6

-----------------------------------------------------------------------------
(* The users page.                                                         *)

\* A request of the users page ends.
LEMMA EndBeside ==
    ASSUME AdminInv, NEW c, c.op \notin PanelCalls, calls' = calls \ {c},
           UNCHANGED <<override, panel>>,
           "flags" \in lapses => "flags" \in lapses',
           PageType', page'.open = page.open, DialogType',
           dialog'.user = dialog.user
    PROVE  AdminInv'
  <1>1. Derived /\ (\A d \in calls' : FromCalls(d)) /\ Persist
    BY Ending, EndingBeside DEF AdminInv
  <1>2. Homes'
    BY <1>1, HomesKept DEF AdminInv
  <1> QED
    BY <1>1, <1>2, Beside DEF AdminInv

LEMMA UsersSteps ==
    ASSUME AdminInv,
           \/ loadFirstPage
           \/ \E c \in calls :
                \/ FirstUsers(c) \/ FirstUsersFail(c) \/ MoreUsers(c)
                \/ MoreUsersFail(c) \/ Deleted(c) \/ DeleteFails(c)
    PROVE  AdminInv'
  <1> USE DEF serverVars
  <1>1. CASE loadFirstPage
    <2> DEFINE c == Call("users")
    <2>1. CallIs(c)
      BY CallIsOne DEF Ops
    <2>2. c.stage = "sent" /\ c.op = "users" /\ c.mounted
      BY DEF Call
    <2>3. Send(c) /\ UNCHANGED <<override, panel, dialog, lapses>>
      BY <1>1 DEF loadFirstPage
    <2>4. PageType' /\ page'.open = page.open
      BY <1>1 DEF loadFirstPage, AdminInv, PageType
    <2> HIDE DEF c
    <2>5. Carries(c)
      BY <2>2 DEF Carries, Reads, Writes, FlagWrites
    <2>6. /\ Derived /\ Persist
          /\ \A d \in calls' : \/ FromCalls(d)
                               \/ /\ d.op = c.op /\ d.user = c.user
                                  /\ d.mounted = c.mounted
      BY <2>1, <2>2, <2>3, <2>5, Sending DEF AdminInv
    <2>7. Homes'
      BY <2>2, <2>3, <2>4, <2>6, HomesKept DEF AdminInv, AtHome
    <2>8. DialogType'
      BY <2>3, <2>4, DialogKept DEF AdminInv
    <2> QED
      BY <2>3, <2>4, <2>6, <2>7, <2>8, Beside DEF AdminInv
  <1>2. ASSUME NEW c \in calls, FirstUsers(c)
        PROVE  AdminInv'
    <2>1. /\ calls' = calls \ {c} /\ c.op = "users"
          /\ UNCHANGED <<override, panel, dialog>>
          /\ "flags" \in lapses => "flags" \in lapses'
      BY <1>2 DEF FirstUsers, Told
    <2>2. PageType' /\ page'.open = page.open
      BY <1>2 DEF FirstUsers, AdminInv, PageType
    <2>3. DialogType' /\ dialog'.user = dialog.user
      BY <2>1, <2>2, DialogKept DEF AdminInv
    <2>4. c.op \notin PanelCalls
      BY <2>1 DEF PanelCalls, FlagWrites
    <2> QED
      BY <2>1, <2>2, <2>3, <2>4, EndBeside
  <1>3. ASSUME NEW c \in calls, FirstUsersFail(c)
        PROVE  AdminInv'
    <2>1. /\ calls' = calls \ {c} /\ c.op = "users"
          /\ UNCHANGED <<override, panel, dialog, lapses>>
      BY <1>3 DEF FirstUsersFail
    <2>2. PageType' /\ page'.open = page.open
      BY <1>3 DEF FirstUsersFail, AdminInv, PageType
    <2>3. DialogType' /\ dialog'.user = dialog.user
      BY <2>1, <2>2, DialogKept DEF AdminInv
    <2>4. c.op \notin PanelCalls
      BY <2>1 DEF PanelCalls, FlagWrites
    <2> QED
      BY <2>1, <2>2, <2>3, <2>4, EndBeside
  <1>4. ASSUME NEW c \in calls, MoreUsers(c)
        PROVE  AdminInv'
    <2>1. /\ calls' = calls \ {c} /\ c.op = "more"
          /\ UNCHANGED <<override, panel, dialog>>
          /\ "flags" \in lapses => "flags" \in lapses'
      BY <1>4 DEF MoreUsers
    <2>2. PageType' /\ page'.open = page.open
      BY <1>4 DEF MoreUsers, AdminInv, PageType
    <2>3. DialogType' /\ dialog'.user = dialog.user
      BY <2>1, <2>2, DialogKept DEF AdminInv
    <2>4. c.op \notin PanelCalls
      BY <2>1 DEF PanelCalls, FlagWrites
    <2> QED
      BY <2>1, <2>2, <2>3, <2>4, EndBeside
  <1>5. ASSUME NEW c \in calls, MoreUsersFail(c) \/ DeleteFails(c)
        PROVE  AdminInv'
    <2>1. /\ calls' = calls \ {c} /\ c.op \in {"more", "delete"}
          /\ UNCHANGED <<override, panel, page, dialog>>
          /\ "flags" \in lapses => "flags" \in lapses'
      BY <1>5 DEF MoreUsersFail, DeleteFails
    <2>2. PageType' /\ page'.open = page.open
      BY <2>1, PageKept DEF AdminInv
    <2>3. DialogType' /\ dialog'.user = dialog.user
      BY <2>1, <2>2, DialogKept DEF AdminInv
    <2>4. c.op \notin PanelCalls
      BY <2>1 DEF PanelCalls, FlagWrites
    <2> QED
      BY <2>1, <2>2, <2>3, <2>4, EndBeside
  <1>6. ASSUME NEW c \in calls, Deleted(c)
        PROVE  AdminInv'
    <2>1. /\ calls' = calls \ {c} /\ c.op = "delete"
          /\ UNCHANGED <<override, panel, dialog, lapses>>
      BY <1>6 DEF Deleted
    <2>2. PageType' /\ page'.open = page.open
      <3> DEFINE l == Filter(page.list, ToSet(page.list) \ {c.user})
      <3>1. page' = IF c.mounted THEN [page EXCEPT !.list = l] ELSE page
        BY <1>6 DEF Deleted
      <3> HIDE DEF l
      <3> QED
        BY <2>1, <3>1 DEF AdminInv, PageType
    <2>3. DialogType' /\ dialog'.user = dialog.user
      BY <2>1, <2>2, DialogKept DEF AdminInv
    <2>4. c.op \notin PanelCalls
      BY <2>1 DEF PanelCalls, FlagWrites
    <2> QED
      BY <2>1, <2>2, <2>3, <2>4, EndBeside
  <1> QED
    BY <1>1, <1>2, <1>3, <1>4, <1>5, <1>6

-----------------------------------------------------------------------------
(* The dialog.                                                             *)

LEMMA OpenStep ==
    ASSUME AdminInv, NEW u \in ToSet(Accounts), OpenOverrides(u)
    PROVE  AdminInv'
  <1> DEFINE c == [Call("read") EXCEPT !.user = u]
  <1>1. /\ CallIs(c) /\ c.stage = "sent" /\ c.op = "read" /\ c.mounted
    BY DEF Call, CallIs, Ops, Reads
  <1>2. /\ Send(c) /\ dialog' = [NoDialog EXCEPT !.user = u]
        /\ UNCHANGED <<override, panel, page, lapses>> /\ page.open
    BY DEF OpenOverrides, serverVars, PageShown
  <1> HIDE DEF c
  <1>3. Carries(c)
    BY <1>1 DEF Carries, Reads, Writes, FlagWrites
  <1>4. /\ Derived /\ Persist
        /\ \A d \in calls' : \/ FromCalls(d)
                             \/ /\ d.op = c.op /\ d.user = c.user
                                /\ d.mounted = c.mounted
    BY <1>1, <1>2, <1>3, Sending DEF AdminInv
  <1>5. dialog'.user = u /\ dialog'.rows = Nothing
    BY <1>2 DEF NoDialog
  <1>6. DialogType'
    BY <1>2 DEF NoDialog, DialogType
  <1>7. Homes'
    BY <1>1, <1>2, <1>4, <1>5, HomesKept DEF AdminInv, AtHome
  <1> QED
    BY <1>2, <1>4, <1>6, <1>7, Beside, PageKept DEF AdminInv

LEMMA ReadStep ==
    ASSUME AdminInv, NEW c \in calls, ReadOverrides(c) \/ ReadFails(c)
    PROVE  AdminInv'
  <1>1. /\ calls' = calls \ {c} /\ c.op = "read"
        /\ UNCHANGED <<override, panel, page, lapses>>
    BY DEF ReadOverrides, ReadFails, serverVars
  <1>2. page.open /\ dialog.user \in ToSet(Accounts)
    BY <1>1 DEF AdminInv, Homes, AtHome
  <1>3. PageType' /\ page'.open = page.open
    BY <1>1, PageKept DEF AdminInv
  <1>4. DialogType' /\ dialog'.user = dialog.user
    <2>1. CASE ReadFails(c)
      <3>1. dialog' = dialog
        BY <2>1 DEF ReadFails
      <3> QED
        BY <1>3, <3>1, DialogKept DEF AdminInv
    <2>2. CASE ReadOverrides(c)
      <3> DEFINE ds == c.answer.definitions
                 rs == [f \in Flags |-> Row(ds[f], dialog.user)]
      <3>1. ds \in [Flags -> Definitions]
        <4>1. c.answer \in Catalogs
          BY <2>2 DEF ReadOverrides, AdminInv, Asked, Carries, Reads
        <4> QED
          BY <4>1 DEF Catalogs
      <3>2. rs \in [Flags -> Rows]
        BY <3>1, RowIs
      <3>3. dialog' = [dialog EXCEPT !.definitions = ds, !.rows = rs]
        BY <2>2 DEF ReadOverrides
      <3> HIDE DEF ds, rs
      <3>4. /\ dialog'.user = dialog.user /\ dialog'.definitions = ds
            /\ dialog'.rows = rs
            /\ dialog' \in [user : {dialog'.user},
                            definitions : {dialog'.definitions},
                            rows : {dialog'.rows}]
        BY <3>3 DEF AdminInv, DialogType
      <3> QED
        BY <1>2, <1>3, <3>1, <3>2, <3>4 DEF DialogType
    <2> QED
      BY <2>1, <2>2
  <1>5. c.op \notin PanelCalls
    BY <1>1 DEF PanelCalls, FlagWrites
  <1> QED
    BY <1>1, <1>3, <1>4, <1>5, EndBeside

LEMMA RowStep ==
    ASSUME AdminInv, NEW f \in Flags, setRow(f)
    PROVE  AdminInv'
  <1>1. /\ dialog.rows # Nothing
        /\ UNCHANGED <<override, panel, page, calls, lapses>>
    BY DEF setRow, serverVars
  <1>2. PICK row \in Selected(dialog.rows[f]) :
            dialog' = [dialog EXCEPT !.rows[f] = row]
    BY DEF setRow
  <1>3. dialog.rows \in [Flags -> Rows]
    BY <1>1 DEF AdminInv, DialogType
  <1>4. row \in Rows
    BY <1>3, BoolIs, ZenonT(30) DEF Selected, Rows
  <1>5. dialog' = [dialog EXCEPT !.rows = [dialog.rows EXCEPT ![f] = row]]
    BY <1>2
  <1>6. [dialog.rows EXCEPT ![f] = row] \in [Flags -> Rows]
    BY <1>3, <1>4
  <1>7. DialogType' /\ dialog'.user = dialog.user
    BY <1>1, <1>5, <1>6 DEF AdminInv, DialogType
  <1>8. Derived /\ Persist /\ \A d \in calls' : FromCalls(d)
    BY <1>1, Ending DEF AdminInv, Persist
  <1>9. Homes'
    BY <1>1, <1>7, <1>8, HomesKept DEF AdminInv
  <1> QED
    BY <1>1, <1>7, <1>8, <1>9, Beside, PageKept DEF AdminInv

\* The dialog closes; what it had not read is not read.
LEMMA Closing ==
    ASSUME AdminInv, NEW gone, gone \subseteq calls,
           Under("read") \subseteq gone,
           \A c \in gone : c.op \notin PanelCalls,
           calls' = Detached("override", calls \ gone), dialog' = NoDialog,
           UNCHANGED <<override, panel, page, lapses>>
    PROVE  AdminInv'
  <1>1. \A c \in calls \ gone : CallIs(c)
    BY DEF AdminInv, Asked
  <1>2. /\ \A d \in calls' : \E e \in calls \ gone : Kin(d, e)
        /\ \A e \in calls \ gone : \E d \in calls' :
                /\ d.op = e.op /\ d.mounted = e.mounted /\ d.stage = e.stage
    BY <1>1, DetachedIs
  <1>3. Derived
    BY <1>2 DEF Derived, FromCalls
  <1>4. Persist
    <2>1. ASSUME NEW c \in calls, c.op \in PanelCalls
          PROVE  \E d \in calls' :
                    /\ d.op = c.op
                    /\ c.mounted => d.mounted
                    /\ c.stage = "done" => d.stage = "done"
      <3>1. c \in calls \ gone
        BY <2>1
      <3>2. PICK d \in calls' :
                d.op = c.op /\ d.mounted = c.mounted /\ d.stage = c.stage
        BY <1>2, <3>1
      <3> QED
        BY <3>2
    <2> QED
      BY <2>1 DEF Persist
  <1>5. ASSUME NEW d \in calls'
        PROVE  AtHome(d, dialog.user', page.open')
    <2>1. PICK e \in calls \ gone : Kin(d, e)
      BY <1>2
    <2>2. d.op = e.op /\ (d.mounted => e.mounted) /\ e.op # "read"
      BY <2>1 DEF Kin, Under
    <2>3. AtHome(e, dialog.user, page.open) /\ page' = page
      BY DEF AdminInv, Homes
    <2> QED
      BY <2>2, <2>3 DEF AtHome
  <1>6. Homes'
    BY <1>5 DEF Homes
  <1>7. DialogType'
    BY DEF NoDialog, DialogType
  <1> QED
    BY <1>3, <1>4, <1>6, <1>7, Beside, PageKept DEF AdminInv

LEMMA DialogSteps ==
    ASSUME AdminInv,
           \/ CloseOverrides
           \/ \E c \in calls :
                Overridden(c) \/ OverridesSaved(c) \/ OverrideFails(c)
    PROVE  AdminInv'
  <1> USE DEF serverVars
  <1>1. CASE CloseOverrides
    <2>1. /\ calls' = Detached("override", calls \ Under("read"))
          /\ dialog' = NoDialog
          /\ UNCHANGED <<override, panel, page, lapses>>
      BY <1>1 DEF CloseOverrides
    <2>2. /\ Under("read") \subseteq calls
          /\ \A c \in Under("read") : c.op \notin PanelCalls
      BY DEF Under, PanelCalls, FlagWrites
    <2> QED
      BY <2>1, <2>2, Closing
  <1>2. ASSUME NEW c \in calls, Overridden(c)
        PROVE  AdminInv'
    <2> DEFINE t == c.todo \ {NextFlag(c.todo)}
               n == [c EXCEPT !.todo = t, !.stage = "sent",
                              !.answer = Nothing, !.fresh = TRUE]
    <2>1. /\ calls' = (calls \ {c}) \cup {n} /\ c.op = "override"
          /\ UNCHANGED <<override, panel, page, dialog, lapses>>
          /\ c.todo # {NextFlag(c.todo)}
      BY <1>2 DEF Overridden
    <2>2. CallIs(c) /\ Carries(c)
      BY DEF AdminInv, Asked
    <2>3. t # {} /\ t \subseteq Flags
      <3>1. c.todo # {} /\ c.todo \subseteq Flags
        BY <2>1, <2>2 DEF CallIs, Carries
      <3>2. NextFlag(c.todo) \in c.todo
        BY <3>1, NextFlagIs
      <3> QED
        BY <2>1, <3>1, <3>2
    <2> HIDE DEF t
    <2>4. /\ CallIs(n) /\ n.op = c.op /\ n.user = c.user /\ n.sent = c.sent
          /\ n.todo = t /\ n.stage = "sent" /\ n.mounted = c.mounted
      BY <2>2, <2>3 DEF CallIs
    <2> HIDE DEF n
    <2>5. Sound(n)
      BY <2>1, <2>2, <2>3, <2>4 DEF Sound, Carries
    <2>6. \A d \in calls : FromCalls(d)
      BY KinOfItself DEF AdminInv, Asked, FromCalls
    <2>7. Derived
      BY <2>1, <2>5, <2>6 DEF Derived
    <2>8. Persist
      BY <2>1 DEF Persist, PanelCalls, FlagWrites
    <2>9. Homes'
      <3>1. AtHome(n, dialog.user, page.open)
        BY <2>1, <2>4 DEF AdminInv, Homes, AtHome
      <3> QED
        BY <2>1, <2>6, <3>1, HomesKept DEF AdminInv
    <2> QED
      BY <2>1, <2>7, <2>8, <2>9, Beside, PageKept, DialogKept DEF AdminInv
  <1>3. ASSUME NEW c \in calls, OverridesSaved(c)
        PROVE  AdminInv'
    <2>1. c.op = "override" /\ UNCHANGED <<override, panel, page, lapses>>
      BY <1>3 DEF OverridesSaved
    <2>2. c.op \notin PanelCalls
      BY <2>1 DEF PanelCalls, FlagWrites
    <2>3. CASE c.mounted
      <3> DEFINE gone == Under("read") \cup {c}
      <3>1. /\ calls' = Detached("override", calls \ gone)
            /\ dialog' = NoDialog
        BY <1>3, <2>3 DEF OverridesSaved
      <3>2. /\ gone \subseteq calls /\ Under("read") \subseteq gone
            /\ \A d \in gone : d.op \notin PanelCalls
        BY <2>2 DEF Under, PanelCalls, FlagWrites
      <3> QED
        BY <2>1, <3>1, <3>2, Closing
    <2>4. CASE ~c.mounted
      <3>1. calls' = calls \ {c} /\ dialog' = dialog
        BY <1>3, <2>4 DEF OverridesSaved
      <3> QED
        BY <2>1, <2>2, <3>1, EndBeside, PageKept, DialogKept DEF AdminInv
    <2> QED
      BY <2>3, <2>4
  <1>4. ASSUME NEW c \in calls, OverrideFails(c)
        PROVE  AdminInv'
    <2>1. /\ calls' = calls \ {c} /\ c.op = "override"
          /\ UNCHANGED <<override, panel, page, dialog, lapses>>
      BY <1>4 DEF OverrideFails
    <2>2. c.op \notin PanelCalls
      BY <2>1 DEF PanelCalls, FlagWrites
    <2> QED
      BY <2>1, <2>2, EndBeside, PageKept, DialogKept DEF AdminInv
  <1> QED
    BY <1>1, <1>2, <1>3, <1>4

-----------------------------------------------------------------------------
(* The server.                                                             *)

\* One request is answered; the answers to others may be out of date.
LEMMA Answering ==
    ASSUME AdminInv, NEW c \in calls, c.stage = "sent", NEW a, NEW S,
           S = calls \/ S = Aged(calls), Answered(c, S, a),
           c.op \in Reads \cup FlagWrites => a \in Catalogs
    PROVE  LET n == [c EXCEPT !.stage = "done", !.answer = a]
           IN  /\ n \in calls' /\ CallIs(n) /\ Carries(n)
               /\ n.op = c.op /\ n.user = c.user /\ n.mounted = c.mounted
               /\ n.stage = "done" /\ n.answer = a
               /\ \A d \in calls' : d = n \/ (d \in S /\ FromCalls(d))
               /\ Persist
  <1> DEFINE n == [c EXCEPT !.stage = "done", !.answer = a]
  <1>1. CallIs(c) /\ Carries(c) /\ \A e \in calls : CallIs(e)
    BY DEF AdminInv, Asked
  <1>2. /\ CallIs(n) /\ n.op = c.op /\ n.user = c.user /\ n.sent = c.sent
        /\ n.todo = c.todo /\ n.mounted = c.mounted /\ n.stage = "done"
        /\ n.answer = a
    BY <1>1 DEF CallIs
  <1>3. calls' = (S \ {c}) \cup {n}
    BY DEF Answered
  <1> HIDE DEF n
  <1>4. Carries(n)
    BY <1>1, <1>2 DEF Carries
  <1>5. /\ \A d \in S : FromCalls(d)
        /\ \A e \in calls : \E d \in S :
                d.op = e.op /\ d.mounted = e.mounted /\ d.stage = e.stage
    <2>1. CASE S = calls
      BY <1>1, <2>1, KinOfItself DEF FromCalls
    <2>2. CASE S = Aged(calls)
      BY <1>1, <2>2, AgedIs DEF FromCalls
    <2> QED
      BY <2>1, <2>2
  <1>6. ASSUME NEW e \in calls
        PROVE  \E d \in calls' :
                  /\ d.op = e.op
                  /\ e.mounted => d.mounted
                  /\ e.stage = "done" => d.stage = "done"
    <2>1. PICK d \in S :
                d.op = e.op /\ d.mounted = e.mounted /\ d.stage = e.stage
      BY <1>5
    <2>2. CASE d = c
      BY <1>2, <1>3, <2>1, <2>2
    <2>3. CASE d # c
      BY <1>3, <2>1, <2>3
    <2> QED
      BY <2>2, <2>3
  <1>7. Persist
    BY <1>6 DEF Persist
  <1> QED
    BY <1>2, <1>3, <1>4, <1>5, <1>7 DEF n

LEMMA ServeBeside ==
    ASSUME AdminInv, NEW c \in calls, ServeRead(c) \/ ServeDelete(c)
    PROVE  AdminInv'
  <1> DEFINE n(a) == [c EXCEPT !.stage = "done", !.answer = a]
  <1>1. /\ UNCHANGED <<override, panel, page, dialog>> /\ c.stage = "sent"
        /\ "flags" \in lapses => "flags" \in lapses'
    BY DEF ServeRead, ServeDelete, serverVars
  <1>2. PICK a, S : /\ S = calls \/ S = Aged(calls)
                    /\ Answered(c, S, a)
                    /\ c.op \in Reads \cup FlagWrites => a = Catalog
    <2>1. CASE ServeDelete(c)
      <3>1. /\ c.op \notin Reads \cup FlagWrites
            /\ Answered(c, Aged(calls), Nothing)
        BY <2>1 DEF ServeDelete, Reads, FlagWrites
      <3> QED
        BY <3>1
    <2>2. CASE ServeRead(c)
      <3>1. CASE c.op \in {"users", "more"}
        <4>1. Answered(c, calls, UsersFrom(c.user))
          BY <2>2, <3>1 DEF ServeRead
        <4>2. c.op \notin Reads \cup FlagWrites
          BY <3>1 DEF Reads, FlagWrites
        <4> QED
          BY <4>1, <4>2
      <3>2. CASE c.op \notin {"users", "more"}
        <4>1. Answered(c, calls, Catalog)
          BY <2>2, <3>2 DEF ServeRead
        <4> QED
          BY <4>1
      <3> QED
        BY <3>1, <3>2
    <2> QED
      BY <2>1, <2>2
  <1>3. Catalog \in Catalogs
    BY CatalogIs DEF AdminInv, ServerType
  <1>4. /\ CallIs(n(a)) /\ Carries(n(a)) /\ n(a).op = c.op
        /\ n(a).user = c.user /\ n(a).mounted = c.mounted
        /\ n(a).answer = a
        /\ \A d \in calls' : d = n(a) \/ FromCalls(d)
        /\ Persist
    BY <1>1, <1>2, <1>3, Answering, ZenonT(30)
  <1> HIDE DEF n
  <1>5. Derived
    BY <1>2, <1>4 DEF Derived, Sound
  <1>6. Homes'
    <2>1. AtHome(n(a), dialog.user, page.open)
      BY <1>4 DEF AdminInv, Homes, AtHome
    <2> QED
      BY <1>1, <1>4, <2>1, HomesKept DEF AdminInv
  <1> QED
    BY <1>1, <1>4, <1>5, <1>6, Beside, PageKept, DialogKept DEF AdminInv

\* What a write leaves at the server.
LEMMA OverridesAre ==
    ASSUME ServerType, NEW c, CallIs(c), Carries(c),
           c.op \in FlagWrites \cup {"override"}
    PROVE  Overrides(c) \in [Flags -> Definitions \cup {Nothing}]
  <1>1. CASE c.op = "save"
    BY <1>1 DEF Overrides, ServerType, Carries
  <1>2. CASE c.op = "clear"
    BY <1>2 DEF Overrides, ServerType
  <1>3. CASE c.op = "clearAll"
    BY <1>3 DEF Overrides
  <1>4. CASE c.op = "override"
    <2>1. /\ c.todo # {} /\ c.todo \subseteq Flags
          /\ c.user \in FieldValues
          /\ c.sent.definitions \in [Flags -> Definitions]
          /\ c.sent.rows \in [Flags -> Rows]
      BY <1>4, AccountsAre DEF Carries, CallIs
    <2>2. NextFlag(c.todo) \in Flags
      BY <2>1, NextFlagIs
    <2>3. NextOverride(c) \in Definitions
      BY <2>1, <2>2, AppliedIs DEF NextOverride
    <2>4. Overrides(c) =
            [override EXCEPT ![NextFlag(c.todo)] = NextOverride(c)]
      BY <1>4 DEF Overrides
    <2> QED
      BY <2>3, <2>4 DEF ServerType
  <1> QED
    BY <1>1, <1>2, <1>3, <1>4 DEF FlagWrites

LEMMA FlagWriteStep ==
    ASSUME AdminInv, NEW c \in calls, ServeFlagWrite(c)
    PROVE  AdminInv'
  <1> DEFINE n == [c EXCEPT !.stage = "done", !.answer = Catalog']
  <1>1. /\ c.stage = "sent" /\ c.op \in FlagWrites \cup {"override"}
        /\ override' = Overrides(c)
        /\ Answered(c, Aged(calls), Catalog')
        /\ lapses' = IF panel.open /\ ~c.mounted
                     THEN lapses \cup {"flags"} ELSE lapses
        /\ UNCHANGED <<panel, page, dialog>>
    BY DEF ServeFlagWrite
  <1>2. CallIs(c) /\ Carries(c)
    BY DEF AdminInv, Asked
  <1>3. ServerType'
    <2>1. override' \in [Flags -> Definitions \cup {Nothing}]
      BY <1>1, <1>2, OverridesAre DEF AdminInv
    <2> QED
      BY <2>1 DEF ServerType
  <1>4. Catalog' \in Catalogs
    <2>1. Catalog' \in Catalogs /\ Catalog' # Nothing
            /\ \A f \in Flags : Definition(f)' \in Definitions
      <3>1. \A f \in Flags : Definition(f)' \in Definitions
        BY <1>3, DefaultsAre DEF Definition, ServerType
      <3>2. Catalog' \in Catalogs
        BY <3>1 DEF Catalog, Catalogs
      <3> QED
        BY <3>1, <3>2, DefinitionsAssumption
    <2> QED
      BY <2>1
  <1>5. /\ n \in calls' /\ CallIs(n) /\ Carries(n)
        /\ n.op = c.op /\ n.user = c.user /\ n.mounted = c.mounted
        /\ n.stage = "done" /\ n.answer = Catalog'
        /\ \A d \in calls' : d = n \/ (d \in Aged(calls) /\ FromCalls(d))
        /\ Persist
    <2> HIDE DEF n
    <2> DEFINE k == Catalog'
    <2>1. k \in Catalogs /\ Answered(c, Aged(calls), k)
      BY <1>1, <1>4
    <2>2. n = [c EXCEPT !.stage = "done", !.answer = k]
      BY DEF n
    <2> HIDE DEF k
    <2>3. /\ n \in calls' /\ CallIs(n) /\ Carries(n)
          /\ n.op = c.op /\ n.user = c.user /\ n.mounted = c.mounted
          /\ n.stage = "done" /\ n.answer = k
          /\ \A d \in calls' : d = n \/ (d \in Aged(calls) /\ FromCalls(d))
          /\ Persist
      BY <1>1, <2>1, <2>2, Answering
    <2> QED
      BY <2>3 DEF k
  <1> HIDE DEF n
  <1>6. \A d \in calls' : FromCalls(d) => CallIs(d) /\ Carries(d)
    BY KinCarries DEF FromCalls, AdminInv, Asked
  <1>7. Asked'
    BY <1>5, <1>6 DEF Asked
  <1>8. UpToDate'
    <2>1. \A d \in Aged(calls) : d.stage = "done" => ~d.fresh
      BY AgedIs DEF AdminInv, Asked
    <2> QED
      BY <1>5, <2>1 DEF UpToDate
  <1>9. Homes'
    <2>1. AtHome(n, dialog.user, page.open)
      BY <1>5 DEF AdminInv, Homes, AtHome
    <2> QED
      BY <1>1, <1>5, <2>1, HomesKept DEF AdminInv
  <1>10. PanelType' /\ PageType' /\ DialogType'
    BY <1>1, PageKept, DialogKept DEF AdminInv, PanelType
  <1>11. Waits'
    BY <1>1, <1>5 DEF AdminInv, Waits, Persist, PanelCalls, FlagWrites
  <1>12. Shows'
    <2>1. SUFFICES ASSUME panel.open, "flags" \notin lapses'
                   PROVE  n.op \in FlagWrites /\ n.stage = "done" /\ n.mounted
      BY <1>1, <1>5 DEF Shows
    <2>2. c.mounted
      BY <1>1, <2>1
    <2>3. ~page.open
      BY <2>1 DEF AdminInv, PageType, PanelType
    <2>4. c.op # "override"
      BY <2>2, <2>3 DEF AdminInv, Homes, AtHome
    <2> QED
      BY <1>1, <1>5, <2>2, <2>4
  <1> QED
    BY <1>3, <1>7, <1>8, <1>9, <1>10, <1>11, <1>12 DEF AdminInv

LEMMA ForeignStep ==
    ASSUME AdminInv, Foreign
    PROVE  AdminInv'
  <1>1. /\ calls' = Aged(calls) /\ "flags" \in lapses'
        /\ UNCHANGED <<panel, page, dialog>>
    BY DEF Foreign
  <1>2. ServerType'
    <2>1. CASE override' = override
      BY <2>1, ServerKept DEF AdminInv
    <2>2. ASSUME NEW f \in Flags, NEW d \in Stored \cup {Nothing},
                 override' = [override EXCEPT ![f] = d]
          PROVE  ServerType'
      BY <2>2, DefinitionsAssumption DEF AdminInv, ServerType
    <2> QED
      BY <2>1, <2>2 DEF Foreign
  <1>3. /\ \A d \in calls' : FromCalls(d)
        /\ \A d \in calls' : d.stage = "done" => ~d.fresh
        /\ Persist
    BY <1>1, AgedIs DEF AdminInv, Asked, FromCalls, Persist
  <1>4. Asked' /\ UpToDate'
    BY <1>3, KinCarries DEF AdminInv, Asked, UpToDate, FromCalls
  <1>5. Homes'
    BY <1>1, <1>3, HomesKept DEF AdminInv
  <1>6. PanelType' /\ PageType' /\ DialogType'
    BY <1>1, PageKept, DialogKept DEF AdminInv, PanelType
  <1>7. Waits' /\ Shows'
    BY <1>1, <1>3 DEF AdminInv, Waits, Shows, Persist, PanelCalls, FlagWrites
  <1> QED
    BY <1>2, <1>4, <1>5, <1>6, <1>7 DEF AdminInv

-----------------------------------------------------------------------------
(* The flags page.                                                         *)

\* A step of the flags page: what it needs to show of the panel.
LEMMA PanelStep ==
    ASSUME AdminInv, Derived, \A d \in calls' : FromCalls(d) \/ d.op # "read",
           \A d \in calls' : FromCalls(d) \/ d.op # "override",
           UNCHANGED <<override, page, dialog>>, panel'.open = panel.open,
           PanelType', Waits', Shows'
    PROVE  AdminInv'
  <1>1. Homes'
    BY HomesKept DEF AdminInv, AtHome
  <1> QED
    BY <1>1, AskedKept, ServerKept, PageKept, DialogKept DEF AdminInv

LEMMA EditorSteps ==
    ASSUME AdminInv,
           Change \/ CancelEditor \/ \E f \in Flags : Edit(f)
    PROVE  AdminInv'
  <1> USE DEF serverVars
  <1>1. /\ UNCHANGED <<override, page, dialog, lapses>>
        /\ \/ calls' = calls
           \/ calls' = Detached("save", calls)
    BY DEF Change, CancelEditor, Edit
  <1>2. /\ \A d \in calls' : FromCalls(d)
        /\ Persist
    BY <1>1, DetachedIs, KinOfItself
    DEF AdminInv, Asked, FromCalls, Persist
  <1>3. /\ PanelType' /\ panel'.open = panel.open /\ panel'.data = panel.data
        /\ panel'.loading = panel.loading /\ panel'.error = panel.error
        /\ panel'.reloading = panel.reloading
    <2>1. CASE Change
      <3>1. PICK d \in Changes(panel.draft) :
                panel' = [panel EXCEPT !.draft = d]
        BY <2>1 DEF Change
      <3>2. panel.editing # Nothing /\ panel.draft \in Definitions
        BY <2>1 DEF Change, AdminInv, PanelType
      <3>3. d \in Definitions
        BY <3>2, ChangesAre
      <3> QED
        BY <3>1, <3>3 DEF AdminInv, PanelType
    <2>2. CASE CancelEditor
      BY <2>2 DEF CancelEditor, Closed, AdminInv, PanelType
    <2>3. ASSUME NEW f \in Flags, Edit(f)
          PROVE  /\ PanelType' /\ panel'.open = panel.open
                 /\ panel'.data = panel.data
                 /\ panel'.loading = panel.loading
                 /\ panel'.error = panel.error
                 /\ panel'.reloading = panel.reloading
      <3> DEFINE e == panel.data.definitions[f]
      <3>1. e \in Definitions
        BY <2>3 DEF Edit, Shown, AdminInv, PanelType, Catalogs
      <3>2. panel' = [panel EXCEPT !.editing = f, !.draft = e]
        BY <2>3 DEF Edit
      <3> HIDE DEF e
      <3>3. panel' \in
                [open : BOOLEAN, data : Catalogs \cup {Nothing},
                 loading : BOOLEAN, reloading : BOOLEAN, error : BOOLEAN,
                 editing : Flags \cup {Nothing},
                 draft : Definitions \cup {Nothing}]
        BY <3>1, <3>2 DEF AdminInv, PanelType
      <3> QED
        BY <3>1, <3>2, <3>3 DEF AdminInv, PanelType
    <2> QED
      BY <2>1, <2>2, <2>3
  <1>4. Catalog' = Catalog
    BY <1>1, CatalogKept
  <1>5. Waits'
    BY <1>2, <1>3 DEF AdminInv, Waits, Persist, PanelCalls, FlagWrites
  <1>6. Shows'
    BY <1>1, <1>2, <1>3, <1>4
    DEF AdminInv, Shows, Persist, PanelCalls, FlagWrites
  <1> QED
    BY <1>1, <1>2, <1>3, <1>5, <1>6, PanelStep DEF Derived

LEMMA ReloadClicks ==
    ASSUME AdminInv, retry \/ reload
    PROVE  AdminInv'
  <1>1. PICK op \in {"list", "reload"} :
            /\ Send(Call(op)) /\ UNCHANGED <<override, page, dialog, lapses>>
            /\ op = "list" => panel' = [panel EXCEPT !.loading = TRUE]
            /\ op = "reload" => panel' = [panel EXCEPT !.reloading = TRUE]
    BY DEF retry, reload, serverVars
  <1>2. CallIs(Call(op))
    BY CallIsOne DEF Ops, Reads
  <1>3. /\ Call(op).op = op /\ Call(op).stage = "sent" /\ Call(op).mounted
    BY DEF Call
  <1>4. Carries(Call(op))
    BY <1>3 DEF Carries, Reads, Writes, FlagWrites
  <1> DEFINE c == Call(op)
  <1>5. /\ Derived /\ Persist /\ \E d \in calls' : d.op = c.op
        /\ \A d \in calls' : FromCalls(d) \/ d.op = c.op
    <2>1. Send(c) /\ CallIs(c) /\ Carries(c) /\ c.stage = "sent"
      BY <1>1, <1>2, <1>3, <1>4
    <2> HIDE DEF c
    <2> QED
      BY <2>1, Sending DEF AdminInv
  <1> HIDE DEF c
  <1>6. c.op = op
    BY <1>3 DEF c
  <1>7. /\ PanelType' /\ panel'.open = panel.open /\ panel'.data = panel.data
        /\ panel'.error = panel.error
        /\ op = "list" => panel'.loading /\ panel'.reloading = panel.reloading
        /\ op = "reload" => panel'.reloading /\ panel'.loading = panel.loading
    BY <1>1 DEF AdminInv, PanelType
  <1>8. Waits'
    BY <1>5, <1>6, <1>7 DEF AdminInv, Waits, Persist, PanelCalls, FlagWrites
  <1>9. Shows'
    <2>1. Catalog' = Catalog
      BY <1>1, CatalogKept
    <2> QED
      BY <1>1, <1>5, <1>7, <2>1
      DEF AdminInv, Shows, Persist, PanelCalls, FlagWrites
  <1> QED
    BY <1>1, <1>5, <1>6, <1>7, <1>8, <1>9, PanelStep

\* An answer of the server, put on the page.
LEMMA AnswerIs ==
    ASSUME AdminInv, NEW c \in calls, c.stage = "done",
           c.op \in {"list", "relist"} \cup FlagWrites
    PROVE  /\ c.answer \in Catalogs /\ c.answer # Nothing
           /\ c.fresh => c.answer = Catalog
  BY DefinitionsAssumption DEF AdminInv, Asked, Carries, UpToDate, Reads

LEMMA ListSteps ==
    ASSUME AdminInv, NEW c \in calls, Listed(c) \/ ListFails(c)
    PROVE  AdminInv'
  <1>1. /\ calls' = calls \ {c} /\ c.op \in {"list", "relist"}
        /\ UNCHANGED <<override, page, dialog>>
    BY DEF Listed, ListFails, serverVars
  <1>2. Derived /\ \A d \in calls' : FromCalls(d)
    BY <1>1, Ending DEF AdminInv
  <1>3. Catalog' = Catalog
    BY <1>1, CatalogKept
  <1>4. /\ panel'.open = panel.open
        /\ panel'.loading = (panel.loading /\ c.op # "list")
        /\ panel'.reloading = (panel.reloading /\ c.op # "relist")
        /\ Listed(c) => panel'.data = c.answer
        /\ ListFails(c) => panel'.error /\ panel'.data = panel.data
        /\ PanelType'
    <2>1. CASE Listed(c)
      <3>1. c.answer \in Catalogs
        BY <1>1, <2>1, AnswerIs DEF Listed
      <3>2. panel' = [panel EXCEPT !.data = c.answer, !.error = FALSE,
                    !.loading = panel.loading /\ c.op # "list",
                    !.reloading = panel.reloading /\ c.op # "relist"]
        BY <2>1 DEF Listed, applyResponse, AdminInv, PanelType
      <3>3. ~ListFails(c)
        <4>1. panel'.error = FALSE
          BY <3>2 DEF AdminInv, PanelType
        <4>2. ListFails(c) => panel'.error = TRUE
          BY DEF ListFails, AdminInv, PanelType
        <4> QED
          BY <4>1, <4>2
      <3> QED
        BY <2>1, <3>1, <3>2, <3>3 DEF AdminInv, PanelType
    <2>2. CASE ListFails(c)
      <3>1. panel' = [panel EXCEPT !.error = TRUE,
                    !.loading = panel.loading /\ c.op # "list",
                    !.reloading = panel.reloading /\ c.op # "relist"]
        BY <2>2 DEF ListFails
      <3>2. panel'.error = TRUE
        BY <3>1 DEF AdminInv, PanelType
      <3>3. ~Listed(c)
        BY <3>2 DEF Listed, applyResponse, AdminInv, PanelType
      <3> QED
        BY <3>1, <3>3 DEF AdminInv, PanelType
    <2> QED
      BY <2>1, <2>2
  <1>5. Waits'
    <2>1. panel'.loading => \E d \in calls' : d.op = "list"
      BY <1>1, <1>4 DEF AdminInv, Waits, PanelType
    <2>2. panel'.reloading => \E d \in calls' : d.op \in {"reload", "relist"}
      BY <1>1, <1>4 DEF AdminInv, Waits, PanelType
    <2>3. Listed(c) => panel'.data # Nothing
      BY <1>1, <1>4, AnswerIs DEF Listed
    <2> QED
      BY <1>4, <2>1, <2>2, <2>3 DEF Waits
  <1>6. Shows'
    <2>1. CASE Listed(c)
      <3>1. c.fresh => panel'.data = Catalog
        BY <1>1, <1>4, <2>1, AnswerIs DEF Listed
      <3>2. ~c.fresh => "flags" \in lapses'
        BY <2>1 DEF Listed, Told
      <3> QED
        BY <1>3, <3>1, <3>2 DEF Shows
    <2>2. CASE ListFails(c)
      <3>1. lapses' = lapses /\ panel'.data = panel.data
        BY <1>4, <2>2 DEF ListFails
      <3> QED
        BY <1>1, <1>3, <1>4, <3>1 DEF AdminInv, Shows, FlagWrites
    <2> QED
      BY <2>1, <2>2
  <1> QED
    BY <1>1, <1>2, <1>4, <1>5, <1>6, PanelStep

LEMMA ReloadSteps ==
    ASSUME AdminInv, NEW c \in calls, Reloaded(c) \/ ReloadFails(c)
    PROVE  AdminInv'
  <1>1. c.op = "reload" /\ UNCHANGED <<override, page, dialog, lapses>>
    BY DEF Reloaded, ReloadFails, serverVars
  <1>2. Catalog' = Catalog
    BY <1>1, CatalogKept
  <1>3. CASE Reloaded(c)
    <2> DEFINE n == Call("relist")
    <2>1. CallIs(n)
      BY CallIsOne DEF Ops, Reads
    <2>2. n.op = "relist" /\ n.stage = "sent" /\ n.mounted
      BY DEF Call
    <2>3. calls' = (calls \ {c}) \cup {n} /\ panel' = panel
      BY <1>3 DEF Reloaded
    <2> HIDE DEF n
    <2>4. Sound(n)
      BY <2>1, <2>2 DEF Sound, Carries, Writes, FlagWrites
    <2>5. \A d \in calls : FromCalls(d)
      BY KinOfItself DEF AdminInv, Asked, FromCalls
    <2>6. Derived
      BY <2>3, <2>4, <2>5 DEF Derived
    <2>7. PanelType'
      BY <2>3 DEF AdminInv, PanelType
    <2>8. Waits'
      BY <1>1, <2>2, <2>3 DEF AdminInv, Waits
    <2>9. Shows'
      BY <1>1, <1>2, <2>3 DEF AdminInv, Shows, FlagWrites
    <2> QED
      BY <1>1, <2>2, <2>3, <2>5, <2>6, <2>7, <2>8, <2>9, PanelStep
  <1>4. CASE ReloadFails(c)
    <2>1. /\ calls' = calls \ {c}
          /\ panel' = [panel EXCEPT !.reloading = FALSE]
      BY <1>4 DEF ReloadFails
    <2>2. Derived /\ \A d \in calls' : FromCalls(d)
      BY <2>1, Ending DEF AdminInv
    <2>3. /\ PanelType' /\ panel'.open = panel.open
          /\ panel'.data = panel.data /\ panel'.loading = panel.loading
          /\ panel'.error = panel.error /\ ~panel'.reloading
      BY <2>1 DEF AdminInv, PanelType
    <2>4. Waits'
      BY <1>1, <2>1, <2>3 DEF AdminInv, Waits
    <2>5. Shows'
      BY <1>1, <1>2, <2>1, <2>3 DEF AdminInv, Shows, FlagWrites
    <2> QED
      BY <1>1, <2>2, <2>3, <2>4, <2>5, PanelStep
  <1> QED
    BY <1>3, <1>4

LEMMA WriteEnds ==
    ASSUME AdminInv, NEW c \in calls, Written(c) \/ WriteFails(c)
    PROVE  AdminInv'
  <1>1. /\ c.op \in FlagWrites /\ calls' = Left(c)
        /\ UNCHANGED <<override, page, dialog>>
    BY DEF Written, WriteFails, serverVars
  <1>2. Catalog' = Catalog
    BY <1>1, CatalogKept
  <1>3. /\ \A d \in calls' : \E e \in calls \ {c} : Kin(d, e)
        /\ \A e \in calls \ {c} : \E d \in calls' :
                d.op = e.op /\ d.mounted = e.mounted /\ d.stage = e.stage
    <2>1. \A e \in calls \ {c} : CallIs(e)
      BY DEF AdminInv, Asked
    <2>2. CASE c.op = "save" /\ c.mounted
      <3>1. calls' = Detached("save", calls \ {c})
        BY <1>1, <2>2 DEF Left
      <3> QED
        BY <2>1, <3>1, DetachedIs
    <2>3. CASE ~(c.op = "save" /\ c.mounted)
      <3>1. calls' = calls \ {c}
        BY <1>1, <2>3 DEF Left
      <3> QED
        BY <2>1, <3>1, KinOfItself
    <2> QED
      BY <2>2, <2>3
  <1>4. Derived /\ \A d \in calls' : FromCalls(d)
    BY <1>3 DEF Derived, FromCalls
  <1>5. /\ PanelType' /\ panel'.open = panel.open
        /\ panel'.loading = panel.loading
        /\ panel'.reloading = panel.reloading
        /\ \/ panel'.data = panel.data /\ panel'.error = panel.error
           \/ Written(c) /\ c.mounted /\ panel'.data = c.answer
    <2>1. CASE Written(c) /\ c.mounted
      <3>1. c.answer \in Catalogs
        BY <1>1, <2>1, AnswerIs DEF Written
      <3>2. panel' = AfterWrite([panel EXCEPT !.data = c.answer,
                                              !.error = FALSE], c)
        BY <2>1 DEF Written, applyResponse
      <3> QED
        BY <2>1, <3>1, <3>2 DEF AfterWrite, Closed, AdminInv, PanelType
    <2>2. CASE Written(c) /\ ~c.mounted
      <3>1. panel' = panel
        BY <2>2 DEF Written
      <3> QED
        BY <3>1 DEF AdminInv, PanelType
    <2>3. CASE WriteFails(c)
      BY <2>3 DEF WriteFails, AfterWrite, Closed, AdminInv, PanelType
    <2> QED
      BY <2>1, <2>2, <2>3
  <1>6. Waits'
    <2>1. \A e \in calls : e.op \in {"list", "reload", "relist"} =>
                e \in calls \ {c}
      BY <1>1 DEF FlagWrites
    <2>2. panel'.loading => \E d \in calls' : d.op = "list"
      BY <1>3, <1>5, <2>1 DEF AdminInv, Waits
    <2>3. panel'.reloading => \E d \in calls' : d.op \in {"reload", "relist"}
      BY <1>3, <1>5, <2>1 DEF AdminInv, Waits
    <2>4. Written(c) => c.answer # Nothing
      BY <1>1, AnswerIs DEF Written
    <2> QED
      BY <1>5, <2>2, <2>3, <2>4 DEF AdminInv, Waits
  <1>7. Shows'
    <2>1. CASE Written(c) /\ c.mounted
      <3>1. panel'.data = c.answer
        <4>1. panel' = AfterWrite(applyResponse(panel, c), c)
          BY <2>1 DEF Written
        <4> QED
          BY <4>1 DEF AfterWrite, Closed, applyResponse, AdminInv, PanelType
      <3>2. c.fresh => panel'.data = Catalog
        BY <1>1, <2>1, <3>1, AnswerIs DEF Written
      <3>3. ~c.fresh => "flags" \in lapses'
        BY <2>1 DEF Written, Told
      <3> QED
        BY <1>2, <3>2, <3>3 DEF Shows
    <2>2. CASE Written(c) /\ ~c.mounted
      <3>1. panel' = panel /\ lapses' = lapses
        BY <2>2 DEF Written
      <3> QED
        BY <1>2, <1>3, <2>2, <3>1 DEF AdminInv, Shows
    <2>3. CASE WriteFails(c)
      <3>1. /\ lapses' = IF c.mounted /\ c.stage = "done"
                         THEN lapses \cup {"flags"} ELSE lapses
            /\ panel'.data = panel.data
        BY <2>3 DEF WriteFails, AfterWrite, Closed, AdminInv, PanelType
      <3>2. CASE c.mounted /\ c.stage = "done"
        BY <3>1, <3>2 DEF Shows
      <3>3. CASE ~(c.mounted /\ c.stage = "done")
        <4>1. lapses' = lapses
          BY <3>1, <3>3
        <4> QED
          BY <1>2, <1>3, <1>5, <3>1, <3>3, <4>1 DEF AdminInv, Shows
      <3> QED
        BY <3>2, <3>3
    <2> QED
      BY <2>1, <2>2, <2>3
  <1> QED
    BY <1>1, <1>4, <1>5, <1>6, <1>7, PanelStep

-----------------------------------------------------------------------------
(* The theorems.                                                           *)

LEMMA AdminNext == AdminInv /\ [Next]_vars => AdminInv'
  <1> SUFFICES ASSUME AdminInv, [Next]_vars
               PROVE  AdminInv'
    OBVIOUS
  <1>1. CASE UNCHANGED vars
    <2>1. UNCHANGED <<override, panel, page, dialog, calls, lapses>>
      BY <1>1 DEF vars, serverVars
    <2>2. Derived /\ Persist /\ \A d \in calls' : FromCalls(d)
      BY <2>1, Ending DEF AdminInv, Persist
    <2>3. Homes'
      BY <2>1, <2>2, HomesKept DEF AdminInv
    <2> QED
      BY <2>1, <2>2, <2>3, Beside, PageKept, DialogKept DEF AdminInv
  <1>2. ASSUME NEW tab \in {"flags", "users"}, Visit(tab)
        PROVE  AdminInv'
    BY <1>2, VisitStep
  <1>3. CASE retry \/ reload
    BY <1>3, ReloadClicks
  <1>4. CASE Change \/ CancelEditor
    BY <1>4, EditorSteps
  <1>5. CASE submit \/ clearAll \/ loadMore \/ saveOverrides
    BY <1>5, WriteClicks
  <1>6. ASSUME NEW f \in Flags, Edit(f) \/ clear(f) \/ setRow(f)
        PROVE  AdminInv'
    BY <1>6, EditorSteps, WriteClicks, RowStep
  <1>7. CASE loadFirstPage
    BY <1>7, UsersSteps
  <1>8. CASE CloseOverrides
    BY <1>8, DialogSteps
  <1>9. ASSUME NEW u \in ToSet(Accounts), handleDelete(u) \/ OpenOverrides(u)
        PROVE  AdminInv'
    BY <1>9, WriteClicks, OpenStep
  <1>10. ASSUME NEW c \in calls,
                \/ ServeRead(c) \/ ServeFlagWrite(c) \/ ServeDelete(c)
         PROVE  AdminInv'
    BY <1>10, ServeBeside, FlagWriteStep
  <1>11. ASSUME NEW c \in calls,
                \/ Listed(c) \/ ListFails(c) \/ Reloaded(c) \/ ReloadFails(c)
                \/ Written(c) \/ WriteFails(c)
         PROVE  AdminInv'
    BY <1>11, ListSteps, ReloadSteps, WriteEnds
  <1>12. ASSUME NEW c \in calls,
                \/ FirstUsers(c) \/ FirstUsersFail(c) \/ MoreUsers(c)
                \/ MoreUsersFail(c) \/ Deleted(c) \/ DeleteFails(c)
         PROVE  AdminInv'
    BY <1>12, UsersSteps
  <1>13. ASSUME NEW c \in calls,
                \/ ReadOverrides(c) \/ ReadFails(c)
                \/ Overridden(c) \/ OverridesSaved(c) \/ OverrideFails(c)
         PROVE  AdminInv'
    BY <1>13, ReadStep, DialogSteps
  <1>14. CASE Foreign
    BY <1>14, ForeignStep
  <1> QED
    BY <1>1, <1>2, <1>3, <1>4, <1>5, <1>6, <1>7, <1>8, <1>9, <1>10, <1>11,
       <1>12, <1>13, <1>14
    DEF Next

\* The parts of the window and its requests fit together in every reachable
\* state: what a spinner waits for is under way, what an answer brings is
\* the server's state unless something has overtaken it, and what a dialog
\* reads or saves is for a user of the page that is open.
THEOREM AdminInvariant == Spec => []AdminInv
  <1>1. Init => AdminInv
    BY AdminInit
  <1>2. AdminInv /\ [Next]_vars => AdminInv'
    BY AdminNext
  <1> QED
    BY <1>1, <1>2, PTL DEF Spec

\* The server never holds, and no editor or dialog ever sends, what is no
\* definition of a boolean flag.
DefinitionsStay ==
    /\ override \in [Flags -> Definitions \cup {Nothing}]
    /\ panel.editing # Nothing => panel.draft \in Definitions
    /\ \A c \in calls :
          /\ c.op = "save" => c.sent \in Definitions
          /\ c.op = "override" => NextOverride(c) \in Definitions

\* Any sequence of edits, of overrides and of other administrators' writes
\* leaves well-formed definitions: no rule without a value, no value of
\* another type, no rollout beyond 100%.
THEOREM WellFormedWrites == Spec => []DefinitionsStay
  <1>1. AdminInv => DefinitionsStay
    <2> SUFFICES ASSUME AdminInv
                 PROVE  DefinitionsStay
      OBVIOUS
    <2>1. ASSUME NEW c \in calls, c.op = "override"
          PROVE  NextOverride(c) \in Definitions
      <3>1. /\ c.todo # {} /\ c.todo \subseteq Flags
            /\ c.user \in FieldValues
            /\ c.sent.definitions \in [Flags -> Definitions]
            /\ c.sent.rows \in [Flags -> Rows]
        BY <2>1, AccountsAre DEF AdminInv, Asked, Carries, CallIs
      <3>2. NextFlag(c.todo) \in Flags
        BY <3>1, NextFlagIs
      <3> QED
        BY <3>1, <3>2, AppliedIs DEF NextOverride
    <2> QED
      BY <2>1 DEF AdminInv, ServerType, PanelType, Asked, Carries,
                  DefinitionsStay
  <1>2. Spec => []AdminInv
    BY AdminInvariant
  <1> QED
    BY <1>1, <1>2, PTL

\* When the flags page waits for nothing, it shows the server's definitions
\* and badges, or an error card, unless a change was made elsewhere, an
\* answer was lost or overtaken (useAdminFlags).
THEOREM PanelStaysCurrent == Spec => []PanelIsCurrent
  <1>1. AdminInv => PanelIsCurrent
    <2> SUFFICES ASSUME AdminInv, panel.open,
                        \A c \in calls : c.mounted => c.op \notin PanelCalls
                 PROVE  /\ ~panel.loading /\ ~panel.reloading
                        /\ panel.error \/ panel.data # Nothing
                        /\ (panel.data # Nothing /\ "flags" \notin lapses) =>
                                panel.data = Catalog
      BY DEF PanelIsCurrent
    <2>1. ASSUME NEW c \in calls
          PROVE  c.op \notin {"list", "reload", "relist"}
      <3>1. CallIs(c) /\ Carries(c)
        BY DEF AdminInv, Asked
      <3> QED
        BY <3>1 DEF Carries, Writes, PanelCalls, FlagWrites
    <2>2. ~panel.loading /\ ~panel.reloading
      BY <2>1 DEF AdminInv, Waits, PanelType
    <2>3. \A c \in calls : ~(c.op \in FlagWrites /\ c.mounted)
      BY DEF PanelCalls
    <2> QED
      BY <2>2, <2>3 DEF AdminInv, Waits, Shows
  <1>2. Spec => []AdminInv
    BY AdminInvariant
  <1> QED
    BY <1>1, <1>2, PTL

\* The contexts of the property are contexts.
LEMMA ContextsAre ==
    ASSUME NEW ctx \in Contexts
    PROVE  ctx # NoContext
  <1>1. ctx \in [ContextKeys -> FieldValues \cup {Absent, "user"}]
    <2>1. CASE ctx \in [ContextKeys -> {Absent}]
      BY <2>1
    <2>2. ASSUME NEW u \in ToSet(Accounts), NEW r \in {"user", "admin"},
                 ctx = [NoFields EXCEPT !["userId"] = u, !["userRole"] = r]
          PROVE  ctx \in [ContextKeys -> FieldValues \cup {Absent, "user"}]
      <3>1. u \in FieldValues
        BY AccountsAre
      <3> QED
        BY <2>2, <3>1, FieldsAssumption DEF NoFields, ContextKeys
    <2> QED
      BY <2>1, <2>2 DEF Contexts
  <1> QED
    BY <1>1, DefinitionsAssumption

\* Saving one user's override of a flag nobody has changed since the dialog
\* read it changes the flag for nobody else, and a first override decides
\* for the user, whatever rules and rollout the flag has (applyOverride in
\* use-user-overrides.ts, under the evaluator of flag-evaluator.ts).
THEOREM OverridesStayApart == Spec => OverridesTouchOneUser
  <1> DEFINE Touches(c) ==
          LET f == NextFlag(c.todo)
              read == c.sent.definitions[f]
              row == c.sent.rows[f]
              mine == findUserRule(read, c.user)
          IN  read = Definition(f) =>
                \A ctx \in Contexts :
                   LET now == evaluateFlag(f, override'[f], ctx)
                   IN  IF ctx["userId"] # c.user
                       THEN now = evaluateFlag(f, read, ctx)
                       ELSE row.enabled /\ mine = {} => now = row.value
  <1>1. ASSUME AdminInv, NEW c \in calls, c.op = "override",
               ServeFlagWrite(c)
        PROVE  Touches(c)
    <2> DEFINE f == NextFlag(c.todo)
               read == c.sent.definitions[f]
               row == c.sent.rows[f]
    <2>1. /\ c.todo # {} /\ c.todo \subseteq Flags
          /\ c.user \in FieldValues
          /\ c.sent.definitions \in [Flags -> Definitions]
          /\ c.sent.rows \in [Flags -> Rows]
      BY <1>1, AccountsAre DEF AdminInv, Asked, Carries, CallIs
    <2>2. f \in Flags
      BY <2>1, NextFlagIs
    <2>3. read \in Definitions /\ row \in Rows
      BY <2>1, <2>2
    <2>4. override' = [override EXCEPT ![f] = NextOverride(c)]
      BY <1>1 DEF ServeFlagWrite, Overrides
    <2>5. NextOverride(c) = applyOverride(read, c.user, row)
      BY DEF NextOverride
    <2> HIDE DEF f, read, row
    <2>6. override'[f] = applyOverride(read, c.user, row)
      BY <1>1, <2>2, <2>4, <2>5 DEF AdminInv, ServerType
    <2>7. ASSUME NEW ctx \in Contexts, ctx["userId"] # c.user
          PROVE  evaluateFlag(f, override'[f], ctx) =
                    evaluateFlag(f, read, ctx)
      BY <2>1, <2>3, <2>6, <2>7, Elsewhere
    <2>8. ASSUME NEW ctx \in Contexts, ctx["userId"] = c.user,
                 row.enabled, findUserRule(read, c.user) = {}
          PROVE  evaluateFlag(f, override'[f], ctx) = row.value
      <3>1. ctx # NoContext
        BY ContextsAre
      <3> QED
        BY <2>1, <2>3, <2>6, <2>8, <3>1, FirstOverride
    <2> QED
      BY <2>7, <2>8 DEF f, read, row
  <1> DEFINE Step == \A c \in calls :
                        (c.op = "override" /\ ServeFlagWrite(c)) => Touches(c)
  <1>2. AdminInv /\ [Next]_vars => [Step]_vars
    BY <1>1
  <1>3. Spec => []AdminInv
    BY AdminInvariant
  <1>4. Spec => [][Step]_vars
    <2> HIDE DEF Step
    <2> QED
      BY <1>2, <1>3, PTL DEF Spec
  <1>5. [][Step]_vars <=> OverridesTouchOneUser
    BY DEF OverridesTouchOneUser
  <1> QED
    BY <1>4, <1>5

-----------------------------------------------------------------------------
(* Lists of users: where they come from and how they grow.                 *)

\* Where the accounts of a set are.
Where(S) == {i \in DOMAIN Accounts : Accounts[i] \in S}

Upto(S, n) == {m \in S : m <= n}

\* A list that starts as the accounts of a set do.
Starts(s, S) ==
    /\ Len(s) <= Cardinality(Where(S))
    /\ \A k \in 1 .. Len(s) : s[k] = Accounts[Nth(Where(S), k)]

\* The cursor stands where the list ends.
Reaches(s, cursor, S, N) ==
    cursor # Nothing =>
        \E n \in N : /\ Accounts[n] = cursor
                     /\ Len(s) = Cardinality(Upto(Where(S), n))

\* A list of the newest users of a set, with the cursor the rest follows.
Listing(s, cursor, hasMore, S, N) ==
    /\ s \in Seq(ToSet(Accounts)) /\ Starts(s, S)
    /\ hasMore <=> Len(s) < Cardinality(Where(S))
    /\ hasMore => cursor # Nothing
    /\ Reaches(s, cursor, S, N)

LEMMA Elements ==
    ASSUME NEW S, NEW s \in Seq(S)
    PROVE  /\ Len(s) \in Nat /\ DOMAIN s = 1 .. Len(s)
           /\ ToSet(s) \subseteq S
           /\ \A i \in 1 .. Len(s) : s[i] \in ToSet(s)
           /\ \A c \in ToSet(s) : \E i \in 1 .. Len(s) : c = s[i]
           /\ s = <<>> <=> Len(s) = 0
  <1>1. /\ Len(s) \in Nat /\ DOMAIN s = 1 .. Len(s)
        /\ s = <<>> <=> Len(s) = 0
    BY LenProperties, EmptySeq
  <1>2. \A i \in 1 .. Len(s) : s[i] \in S
    BY ElementOfSeq
  <1> QED
    BY <1>1, <1>2 DEF ToSet

LEMMA UptoIs ==
    ASSUME NEW S \in SUBSET Nat, IsFiniteSet(S), NEW n
    PROVE  /\ Upto(S, n) \in SUBSET S /\ IsFiniteSet(Upto(S, n))
           /\ Cardinality(S) \in Nat
           /\ Cardinality(Upto(S, n)) \in 0 .. Cardinality(S)
  <1>1. Upto(S, n) \in SUBSET S
    BY DEF Upto
  <1>2. /\ IsFiniteSet(Upto(S, n))
        /\ Cardinality(Upto(S, n)) <= Cardinality(S)
    BY <1>1, FS_Subset
  <1>3. Cardinality(S) \in Nat /\ Cardinality(Upto(S, n)) \in Nat
    BY <1>2, FS_CardinalityType
  <1> QED
    BY <1>1, <1>2, <1>3

\* The numbers of a finite set have an order: Nth counts through them.
LEMMA NthIs ==
    ASSUME NEW S \in SUBSET Nat, IsFiniteSet(S)
    PROVE  /\ \A k \in 1 .. Cardinality(S) :
                /\ Nth(S, k) \in S /\ Cardinality(Upto(S, Nth(S, k))) = k
           /\ \A n \in S :
                /\ Cardinality(Upto(S, n)) \in 1 .. Cardinality(S)
                /\ Nth(S, Cardinality(Upto(S, n))) = n
           /\ \A k, l \in 1 .. Cardinality(S) :
                k < l => Nth(S, k) < Nth(S, l)
  <1> DEFINE size == Cardinality(S)
             rank == [n \in S |-> Cardinality(Upto(S, n))]
  <1>1. size \in Nat /\ \A n \in S : n \in Nat
    BY FS_CardinalityType
  <1>2. ASSUME NEW n \in S
        PROVE  rank[n] \in 1 .. size
    <2>1. n \in Upto(S, n)
      BY DEF Upto
    <2>2. IsFiniteSet(Upto(S, n)) /\ Cardinality(Upto(S, n)) \in 0 .. size
      BY UptoIs
    <2>3. Cardinality(Upto(S, n)) # 0
      BY <2>1, <2>2, FS_EmptySet
    <2> QED
      BY <1>1, <2>2, <2>3
  <1>3. ASSUME NEW m \in S, NEW n \in S, m < n
        PROVE  rank[m] < rank[n]
    <2>1. /\ Upto(S, m) \in SUBSET Upto(S, n)
          /\ n \in Upto(S, n) /\ n \notin Upto(S, m)
      <3>1. m \in Nat /\ n \in Nat
        BY <1>1
      <3>2. n <= n /\ ~(n <= m)
        BY <1>3, <3>1
      <3>3. \A p \in S : p <= m => p <= n
        BY <1>1, <1>3, <3>1
      <3> QED
        BY <3>2, <3>3 DEF Upto
    <2>2. IsFiniteSet(Upto(S, n))
      BY UptoIs
    <2>3. /\ Cardinality(Upto(S, m)) <= Cardinality(Upto(S, n))
          /\ Cardinality(Upto(S, m)) # Cardinality(Upto(S, n))
      BY <2>1, <2>2, FS_Subset
    <2>4. rank[m] \in Nat /\ rank[n] \in Nat
      BY <1>2
    <2> QED
      BY <2>3, <2>4
  <1>4. \A m, n \in S : rank[m] = rank[n] => m = n
    <2> SUFFICES ASSUME NEW m \in S, NEW n \in S, rank[m] = rank[n], m # n
                 PROVE  FALSE
      OBVIOUS
    <2>1. m < n \/ n < m
      OBVIOUS
    <2>2. rank[m] \in Nat
      BY <1>2
    <2> HIDE DEF rank
    <2> QED
      BY <1>3, <2>1, <2>2
  <1>5. rank \in [S -> 1 .. size]
    BY <1>2
  <1>6. \A k \in 1 .. size : \E n \in S : rank[n] = k
    <2> HIDE DEF rank, size
    <2>1. rank \in Injection(S, 1 .. size)
      BY <1>4, <1>5 DEF Injection, IsInjective
    <2>2. IsFiniteSet(1 .. size) /\ Cardinality(1 .. size) = size
      <3>1. 1 \in Int /\ size \in Int
        BY <1>1
      <3>2. /\ IsFiniteSet(1 .. size)
            /\ Cardinality(1 .. size) =
                IF 1 > size THEN 0 ELSE size - 1 + 1
        BY <3>1, FS_Interval
      <3> QED
        BY <1>1, <3>2
    <2>3. rank \in Surjection(S, 1 .. size)
      <3> DEFINE T == 1 .. size
      <3>1. /\ rank \in Injection(S, T) /\ IsFiniteSet(T)
            /\ Cardinality(S) = Cardinality(T)
        BY <2>1, <2>2 DEF size
      <3> HIDE DEF T
      <3>2. rank \in Surjection(S, T)
        BY <3>1, FS_Injection
      <3> QED
        BY <3>2 DEF T
    <2> QED
      BY <2>3 DEF Surjection
  <1>7. ASSUME NEW k \in 1 .. size
        PROVE  Nth(S, k) \in S /\ rank[Nth(S, k)] = k
    <2>1. \E n \in S : Cardinality(Upto(S, n)) = k
      BY <1>6
    <2> QED
      BY <2>1 DEF Nth, Upto
  <1>8. \A n \in S : Nth(S, rank[n]) = n
    <2> HIDE DEF rank
    <2> QED
      BY <1>4, <1>5, <1>7
  <1>9. ASSUME NEW k \in 1 .. size, NEW l \in 1 .. size, k < l
        PROVE  Nth(S, k) < Nth(S, l)
    <2> HIDE DEF rank
    <2>1. /\ Nth(S, k) \in S /\ rank[Nth(S, k)] = k
          /\ Nth(S, l) \in S /\ rank[Nth(S, l)] = l
      BY <1>7
    <2>2. Nth(S, k) # Nth(S, l)
      BY <1>9, <2>1
    <2>3. ~(Nth(S, l) < Nth(S, k))
      <3>1. Nth(S, l) < Nth(S, k) => l < k
        BY <1>3, <2>1
      <3> QED
        BY <1>1, <1>9, <3>1
    <2>4. Nth(S, k) \in Nat /\ Nth(S, l) \in Nat
      BY <1>1, <2>1
    <2> QED
      BY <2>2, <2>3, <2>4
  <1> QED
    BY <1>2, <1>7, <1>8, <1>9

\* The k-th of a set is the element with k up to it.
LEMMA NthUnique ==
    ASSUME NEW S \in SUBSET Nat, IsFiniteSet(S), NEW n \in S
    PROVE  Nth(S, Cardinality(Upto(S, n))) = n
  BY NthIs

LEMMA NthOfInterval ==
    ASSUME NEW n \in Nat, NEW k \in 1 .. n
    PROVE  Nth(1 .. n, k) = k
  <1>1. Upto(1 .. n, k) = 1 .. k
    BY DEF Upto
  <1>2. IsFiniteSet(1 .. n) /\ Cardinality(1 .. k) = k
    BY FS_Interval
  <1> DEFINE S == 1 .. n
  <1>3. S \in SUBSET Nat /\ k \in S /\ IsFiniteSet(S)
    BY <1>2
  <1> HIDE DEF S
  <1>4. Nth(S, Cardinality(Upto(S, k))) = k
    BY <1>3, NthUnique
  <1> QED
    BY <1>1, <1>2, <1>4 DEF S

\* Beyond a point the numbers of a set go on as those of its rest.
GoesOn(P, m, T) ==
    LET a == Cardinality(Upto(P, m))
    IN  /\ a \in Nat /\ Cardinality(T) \in Nat
        /\ Cardinality(P) = a + Cardinality(T)
        /\ \A n \in Nat : n >= m =>
             Cardinality(Upto(P, n)) = a + Cardinality(Upto(T, n))
        /\ \A k \in 1 .. Cardinality(T) : Nth(P, a + k) = Nth(T, k)

LEMMA NthBeyond ==
    ASSUME NEW P \in SUBSET Nat, IsFiniteSet(P), NEW m \in Nat
    PROVE  GoesOn(P, m, {i \in P : i > m})
  <1> DEFINE T == {i \in P : i > m}
             a == Cardinality(Upto(P, m))
  <1>2. /\ T \in SUBSET Nat /\ IsFiniteSet(T) /\ a \in Nat
        /\ Cardinality(T) \in Nat /\ IsFiniteSet(Upto(P, m))
    <2>1. T \in SUBSET P
      OBVIOUS
    <2>2. IsFiniteSet(T)
      BY <2>1, FS_Subset
    <2> QED
      BY <2>1, <2>2, FS_CardinalityType, UptoIs
  <1>1. \A i \in P : i > m <=> ~(i <= m)
    OBVIOUS
  <1>3. Cardinality(P) = a + Cardinality(T)
    <2>1. P = Upto(P, m) \cup T /\ Upto(P, m) \cap T = {}
      BY <1>1 DEF Upto
    <2>2. Cardinality(P) = a + Cardinality(T) - Cardinality({})
      BY <1>2, <2>1, FS_Union
    <2> QED
      BY <1>2, <2>2, FS_EmptySet
  <1>4. ASSUME NEW n \in Nat, n >= m
        PROVE  Cardinality(Upto(P, n)) = a + Cardinality(Upto(T, n))
    <2>1. /\ Upto(P, n) = Upto(P, m) \cup Upto(T, n)
          /\ Upto(P, m) \cap Upto(T, n) = {}
      <3>1. \A i \in P : i \in Nat /\ (i <= n <=> i <= m \/ (i > m /\ i <= n))
        BY <1>4
      <3> QED
        BY <1>1, <3>1 DEF Upto
    <2>2. /\ IsFiniteSet(Upto(T, n)) /\ Cardinality(Upto(T, n)) \in Nat
      BY <1>2, UptoIs
    <2>3. Cardinality(Upto(P, n)) =
            a + Cardinality(Upto(T, n)) - Cardinality({})
      BY <1>2, <2>1, <2>2, FS_Union
    <2> QED
      BY <1>2, <2>2, <2>3, FS_EmptySet
  <1>5. ASSUME NEW k \in 1 .. Cardinality(T)
        PROVE  Nth(P, a + k) = Nth(T, k)
    <2> DEFINE n == Nth(T, k)
    <2>1. n \in T /\ Cardinality(Upto(T, n)) = k
      BY <1>2, NthIs
    <2> HIDE DEF n
    <2>2. n \in P /\ n \in Nat /\ n >= m
      BY <2>1
    <2>3. Cardinality(Upto(P, n)) = a + k
      BY <1>4, <2>1, <2>2
    <2>4. Nth(P, Cardinality(Upto(P, n))) = n
      BY <2>2, NthUnique
    <2> QED
      BY <2>3, <2>4 DEF n
  <1> HIDE DEF T
  <1> QED
    BY <1>2, <1>3, <1>4, <1>5 DEF GoesOn, T

\* The first few numbers of a set are those up to any point that far in it.
LEMMA NthWithin ==
    ASSUME NEW P \in SUBSET Nat, IsFiniteSet(P), NEW p \in 1 .. Cardinality(P),
           NEW n \in Nat, p <= Cardinality(Upto(P, n))
    PROVE  Nth(P, p) <= n
  <1> DEFINE q == Nth(P, p)
  <1>1. q \in P /\ q \in Nat /\ Cardinality(Upto(P, q)) = p
    BY NthIs
  <1> HIDE DEF q
  <1>2. q <= n
    <2> SUFFICES ASSUME n < q
                 PROVE  FALSE
      BY <1>1
    <2>1. Upto(P, n) \in SUBSET Upto(P, q)
          /\ q \in Upto(P, q) /\ q \notin Upto(P, n)
      <3>1. ~(q <= n) /\ q <= q /\ \A i \in P : i <= n => i <= q
        BY <1>1
      <3> QED
        BY <1>1, <3>1 DEF Upto
    <2>2. IsFiniteSet(Upto(P, q)) /\ Cardinality(Upto(P, n)) \in Nat
      BY UptoIs
    <2>3. /\ Cardinality(Upto(P, n)) <= p
          /\ Cardinality(Upto(P, n)) # p
      BY <1>1, <2>1, <2>2, FS_Subset
    <2> QED
      BY <2>2, <2>3
  <1> QED
    BY <1>2 DEF q

\* Without one of its numbers a set closes up.
ClosesUp(P, p, R) ==
    /\ Cardinality(R) = Cardinality(P) - 1
    /\ \A k \in 1 .. Cardinality(P) - 1 :
         Nth(R, k) = IF k < p THEN Nth(P, k) ELSE Nth(P, k + 1)
    /\ \A n \in Nat :
         p <= Cardinality(Upto(P, n)) =>
             Cardinality(Upto(R, n)) = Cardinality(Upto(P, n)) - 1

LEMMA NthWithout ==
    ASSUME NEW P \in SUBSET Nat, IsFiniteSet(P), NEW p \in 1 .. Cardinality(P)
    PROVE  ClosesUp(P, p, P \ {Nth(P, p)})
  <1> DEFINE q == Nth(P, p)
             R == P \ {q}
  <1>1. /\ q \in P /\ q \in Nat /\ Cardinality(Upto(P, q)) = p
        /\ Cardinality(P) \in Nat
    BY NthIs, FS_CardinalityType
  <1>2. /\ R \in SUBSET Nat /\ IsFiniteSet(R)
        /\ Cardinality(R) = Cardinality(P) - 1
    BY <1>1, FS_RemoveElement
  <1>3. ASSUME NEW n \in Nat, q <= n
        PROVE  Cardinality(Upto(R, n)) = Cardinality(Upto(P, n)) - 1
    <2>1. Upto(R, n) = Upto(P, n) \ {q} /\ q \in Upto(P, n)
      BY <1>1, <1>3 DEF Upto
    <2>2. IsFiniteSet(Upto(P, n))
      BY UptoIs
    <2> DEFINE U == Upto(P, n)
    <2>3. Cardinality(U \ {q}) = Cardinality(U) - 1
      <3>1. IsFiniteSet(U) /\ q \in U
        BY <2>1, <2>2
      <3> HIDE DEF U
      <3> QED
        BY <3>1, FS_RemoveElement
    <2> QED
      BY <2>1, <2>3
  <1>4. ASSUME NEW k \in 1 .. Cardinality(P) - 1, k < p
        PROVE  Nth(R, k) = Nth(P, k)
    <2> DEFINE n == Nth(P, k)
    <2>1. k \in 1 .. Cardinality(P)
      BY <1>1
    <2>2. n \in P /\ Cardinality(Upto(P, n)) = k /\ n < q
      BY <1>4, <2>1, NthIs
    <2> HIDE DEF n
    <2>3. n \in R /\ Upto(R, n) = Upto(P, n)
      BY <1>1, <2>2 DEF Upto
    <2>4. Nth(R, Cardinality(Upto(R, n))) = n
      BY <1>2, <2>3, NthUnique
    <2> QED
      BY <2>2, <2>3, <2>4 DEF n
  <1>5. ASSUME NEW k \in 1 .. Cardinality(P) - 1, ~(k < p)
        PROVE  Nth(R, k) = Nth(P, k + 1)
    <2> DEFINE n == Nth(P, k + 1)
    <2>1. k + 1 \in 1 .. Cardinality(P) /\ p < k + 1 /\ k + 1 - 1 = k
      BY <1>1, <1>5
    <2>2. n \in P /\ Cardinality(Upto(P, n)) = k + 1 /\ q < n
      BY <2>1, NthIs
    <2> HIDE DEF n
    <2>3. n \in R /\ n \in Nat /\ q <= n
      BY <1>1, <2>2
    <2>4. Cardinality(Upto(R, n)) = k
      BY <1>3, <2>1, <2>2, <2>3
    <2>5. Nth(R, Cardinality(Upto(R, n))) = n
      BY <1>2, <2>3, NthUnique
    <2> QED
      BY <2>4, <2>5 DEF n
  <1>6. \A n \in Nat : p <= Cardinality(Upto(P, n)) => q <= n
    BY NthWithin
  <1> HIDE DEF q, R
  <1>7. ClosesUp(P, p, R)
    BY <1>2, <1>3, <1>4, <1>5, <1>6 DEF ClosesUp
  <1> QED
    BY <1>7 DEF q, R

\* What filter leaves of a list is a list of the same.
LEMMA FilterIs ==
    ASSUME NEW T, NEW s \in Seq(T), NEW S
    PROVE  Filter(s, S) \in Seq(T)
  <1> DEFINE kept == {i \in DOMAIN s : s[i] \in S}
             size == Cardinality(kept)
             F == Filter(s, S)
  <1>1. Len(s) \in Nat /\ DOMAIN s = 1 .. Len(s)
    BY Elements
  <1>2. kept \in SUBSET (1 .. Len(s)) /\ IsFiniteSet(1 .. Len(s))
    BY <1>1, FS_Interval
  <1>3. F = [k \in 1 .. size |-> s[Nth(kept, k)]]
    BY DEF Filter
  <1>4. \A i \in kept : s[i] \in T
    BY <1>1, ElementOfSeq
  <1> HIDE DEF kept, F
  <1>5. kept \in SUBSET Nat /\ IsFiniteSet(kept) /\ size \in Nat
    <2>1. IsFiniteSet(kept)
      BY <1>2, FS_Subset
    <2>2. kept \in SUBSET Nat
      BY <1>1, <1>2
    <2> QED
      BY <2>1, <2>2, FS_CardinalityType
  <1>6. \A k \in 1 .. size : Nth(kept, k) \in kept
    BY <1>5, NthIs
  <1> HIDE DEF size
  <1>7. F \in [1 .. size -> T]
    BY <1>3, <1>4, <1>6
  <1>8. F \in Seq(T)
    BY <1>5, <1>7, SeqDef
  <1> QED
    BY <1>8 DEF F

LEMMA WhereIs ==
    ASSUME NEW S
    PROVE  /\ Where(S) \in SUBSET Nat /\ IsFiniteSet(Where(S))
           /\ Cardinality(Where(S)) \in Nat
           /\ Where(S) \in SUBSET DOMAIN Accounts
           /\ \A i \in Where(S) : Accounts[i] \in S
  <1>1. Where(S) \in SUBSET (1 .. Len(Accounts))
    BY AccountsAre DEF Where
  <1>2. IsFiniteSet(1 .. Len(Accounts))
    BY AccountsAre, FS_Interval
  <1>3. IsFiniteSet(Where(S))
    BY <1>1, <1>2, FS_Subset
  <1> QED
    BY <1>1, <1>3, AccountsAre, FS_CardinalityType DEF Where

\* The server's rows: the accounts of a set, where they are.
LEMMA RowsAre ==
    ASSUME NEW S
    PROVE  /\ Filter(Accounts, S) \in Seq(ToSet(Accounts))
           /\ Len(Filter(Accounts, S)) = Cardinality(Where(S))
           /\ \A k \in 1 .. Cardinality(Where(S)) :
                Filter(Accounts, S)[k] = Accounts[Nth(Where(S), k)]
  <1> DEFINE n == Cardinality(Where(S))
             F == Filter(Accounts, S)
  <1>1. F = [k \in 1 .. n |-> Accounts[Nth(Where(S), k)]]
    BY DEF Filter, Where
  <1>2. n \in Nat /\ \A k \in 1 .. n : Nth(Where(S), k) \in Where(S)
    BY WhereIs, NthIs
  <1>3. \A k \in 1 .. n : Accounts[Nth(Where(S), k)] \in ToSet(Accounts)
    BY <1>2, WhereIs, AccountsAre
  <1> HIDE DEF n, F
  <1>4. F \in [1 .. n -> ToSet(Accounts)]
    BY <1>1, <1>3
  <1>5. F \in Seq(ToSet(Accounts)) /\ Len(F) = n
    BY <1>2, <1>4, SeqDef, LenProperties
  <1> QED
    BY <1>1, <1>5 DEF n, F

\* What the query returns of a set, after the over-fetched row is dropped.
LEMMA CutIs ==
    ASSUME NEW S, NEW found, found = Filter(Accounts, S),
           NEW more, more = (Len(found) > PAGE_SIZE),
           NEW data,
           data = IF more THEN SubSeq(found, 1, PAGE_SIZE) ELSE found
    PROVE  Listing(data, IF more THEN data[PAGE_SIZE] ELSE Nothing, more,
                   S, Where(S))
  <1> DEFINE n == Cardinality(Where(S))
             next == IF more THEN data[PAGE_SIZE] ELSE Nothing
  <1>1. /\ found \in Seq(ToSet(Accounts)) /\ Len(found) = n /\ n \in Nat
        /\ \A k \in 1 .. n : found[k] = Accounts[Nth(Where(S), k)]
    BY RowsAre, WhereIs
  <1>2. PAGE_SIZE \in Nat /\ PAGE_SIZE >= 1
    BY AdminPagesAssumption
  <1> HIDE DEF n
  <1>3. CASE more
    <2>1. n > PAGE_SIZE
      BY <1>1, <1>3
    <2>2. /\ data \in Seq(ToSet(Accounts)) /\ Len(data) = PAGE_SIZE
          /\ \A k \in 1 .. PAGE_SIZE : data[k] = found[k]
      <3>1. data = SubSeq(found, 1, PAGE_SIZE)
        BY <1>3
      <3>2. \A k \in 1 .. PAGE_SIZE : found[k] \in ToSet(Accounts)
        BY <1>1, <1>2, <2>1, ElementOfSeq
      <3>3. /\ SubSeq(found, 1, PAGE_SIZE) \in Seq(ToSet(Accounts))
            /\ Len(SubSeq(found, 1, PAGE_SIZE)) =
                 IF 1 <= PAGE_SIZE THEN PAGE_SIZE - 1 + 1 ELSE 0
            /\ \A k \in 1 .. PAGE_SIZE - 1 + 1 :
                 SubSeq(found, 1, PAGE_SIZE)[k] = found[1 + k - 1]
        BY <1>1, <1>2, <2>1, <3>2, SubSeqProperties
      <3> QED
        BY <1>2, <3>1, <3>3
    <2>3. Starts(data, S)
      BY <1>1, <1>2, <2>1, <2>2 DEF Starts, n
    <2>4. next = data[PAGE_SIZE] /\ next = Accounts[Nth(Where(S), PAGE_SIZE)]
      BY <1>1, <1>2, <1>3, <2>1, <2>2
    <2>5. /\ Nth(Where(S), PAGE_SIZE) \in Where(S)
          /\ Cardinality(Upto(Where(S), Nth(Where(S), PAGE_SIZE))) = PAGE_SIZE
      <3>1. PAGE_SIZE \in 1 .. Cardinality(Where(S))
        BY <1>1, <1>2, <2>1 DEF n
      <3> QED
        BY <3>1, WhereIs, NthIs
    <2>6. next # Nothing
      BY <2>4, <2>5, WhereIs, AccountsAre
    <2> HIDE DEF next
    <2>7. Reaches(data, next, S, Where(S))
      BY <2>2, <2>4, <2>5 DEF Reaches
    <2>8. more <=> Len(data) < n
      BY <1>1, <1>2, <1>3, <2>1, <2>2
    <2> QED
      BY <2>2, <2>3, <2>6, <2>7, <2>8 DEF Listing, next, n
  <1>4. CASE ~more
    <2>1. data = found /\ next = Nothing
      BY <1>4
    <2>5. /\ Len(data) = n /\ n <= n /\ ~(n < n)
          /\ \A k \in 1 .. n : data[k] = Accounts[Nth(Where(S), k)]
      <3>1. n <= n /\ ~(n < n)
        BY <1>1
      <3> QED
        BY <1>1, <2>1, <3>1
    <2>2. Starts(data, S)
      BY <2>5 DEF Starts, n
    <2>3. ~(Len(data) < n)
      BY <2>5
    <2> HIDE DEF next
    <2>4. Reaches(data, next, S, Where(S))
      BY <2>1 DEF Reaches
    <2> QED
      BY <1>1, <1>4, <2>1, <2>2, <2>3, <2>4 DEF Listing, next, n
  <1> QED
    BY <1>3, <1>4

\* The users after a cursor.
After(cursor) ==
    {u \in users : \E i, j \in DOMAIN Accounts :
                        i < j /\ Accounts[i] = cursor /\ Accounts[j] = u}

LEMMA AfterIs ==
    ASSUME NEW m \in DOMAIN Accounts
    PROVE  Where(After(Accounts[m])) = {i \in Where(users) : i > m}
  <1>1. ASSUME NEW i \in DOMAIN Accounts
        PROVE  Accounts[i] \in After(Accounts[m])
                    <=> Accounts[i] \in users /\ i > m
    <2>1. i \in Nat /\ m \in Nat
      BY AccountsAre
    <2>2. ASSUME Accounts[i] \in After(Accounts[m])
          PROVE  i > m
      <3>1. PICK h, j \in DOMAIN Accounts :
                h < j /\ Accounts[h] = Accounts[m] /\ Accounts[j] = Accounts[i]
        BY <2>2 DEF After
      <3>2. h = m /\ j = i
        BY <3>1, AccountsAre
      <3> QED
        BY <2>1, <3>1, <3>2
    <2>3. ASSUME Accounts[i] \in users, i > m
          PROVE  Accounts[i] \in After(Accounts[m])
      <3>1. m < i
        BY <2>1, <2>3
      <3> QED
        BY <2>3, <3>1 DEF After
    <2> QED
      BY <2>2, <2>3 DEF After
  <1> QED
    BY <1>1 DEF Where

LEMMA FirstPageIs ==
    LET a == UsersFrom(Nothing)
    IN  Listing(a.data, a.nextCursor, a.hasMore, users, DOMAIN Accounts)
  <1> DEFINE found == Filter(Accounts, users)
             more == Len(found) > PAGE_SIZE
             data == IF more THEN SubSeq(found, 1, PAGE_SIZE) ELSE found
             next == IF more THEN data[PAGE_SIZE] ELSE Nothing
  <1>1. UsersFrom(Nothing) =
            [data |-> data, hasMore |-> more, nextCursor |-> next]
    BY DEF UsersFrom
  <1>2. Listing(data, next, more, users, Where(users))
    BY CutIs
  <1> HIDE DEF data, next, more
  <1>3. Listing(data, next, more, users, DOMAIN Accounts)
    BY <1>2, WhereIs DEF Listing, Reaches
  <1> QED
    BY <1>1, <1>3

LEMMA NextPageIs ==
    ASSUME NEW cursor, cursor \in users, cursor # Nothing
    PROVE  LET a == UsersFrom(cursor)
           IN  Listing(a.data, a.nextCursor, a.hasMore, After(cursor),
                       Where(After(cursor)))
  <1> DEFINE found == Filter(Accounts, After(cursor))
             more == Len(found) > PAGE_SIZE
             data == IF more THEN SubSeq(found, 1, PAGE_SIZE) ELSE found
             next == IF more THEN data[PAGE_SIZE] ELSE Nothing
  <1>1. UsersFrom(cursor) =
            [data |-> data, hasMore |-> more, nextCursor |-> next]
    BY DEF UsersFrom, After
  <1>2. Listing(data, next, more, After(cursor), Where(After(cursor)))
    BY CutIs
  <1> HIDE DEF data, next, more
  <1> QED
    BY <1>1, <1>2

\* Any answer about users is a list of accounts.
LEMMA AnyPageIs ==
    ASSUME NEW cursor
    PROVE  UsersFrom(cursor).data \in Seq(ToSet(Accounts))
  <1>1. CASE cursor = Nothing
    BY <1>1, FirstPageIs DEF Listing
  <1>2. CASE cursor # Nothing /\ cursor \in users
    BY <1>2, NextPageIs DEF Listing
  <1>3. CASE cursor # Nothing /\ cursor \notin users
    <2>1. <<>> \in Seq(ToSet(Accounts)) /\ Len(<<>>) = 0
      BY EmptySeq
    <2>2. ~(0 > PAGE_SIZE)
      BY AdminPagesAssumption
    <2>3. UsersFrom(cursor).data = <<>>
      BY <1>3, <2>1, <2>2 DEF UsersFrom
    <2> QED
      BY <2>1, <2>3
  <1> QED
    BY <1>1, <1>2, <1>3

\* A page and the page after it are one list.
LEMMA Joined ==
    ASSUME NEW D, NEW T, NEW m \in DOMAIN Accounts,
           Where(T) = {i \in Where(D) : i > m},
           NEW s, s \in Seq(ToSet(Accounts)), Starts(s, D),
           Len(s) = Cardinality(Upto(Where(D), m)),
           NEW t, NEW next, NEW more, Listing(t, next, more, T, Where(T))
    PROVE  Listing(s \o t, next, more, D, DOMAIN Accounts)
  <1> DEFINE P == Where(D)
             R == Where(T)
             u == s \o t
  <1>1. /\ P \in SUBSET Nat /\ IsFiniteSet(P) /\ m \in Nat
        /\ R \in SUBSET DOMAIN Accounts
    BY WhereIs, AccountsAre
  <1>2. /\ Cardinality(R) \in Nat /\ Len(s) \in Nat
        /\ Cardinality(P) = Len(s) + Cardinality(R)
        /\ \A n \in Nat : n >= m =>
             Cardinality(Upto(P, n)) = Len(s) + Cardinality(Upto(R, n))
        /\ \A k \in 1 .. Cardinality(R) : Nth(P, Len(s) + k) = Nth(R, k)
    <2> HIDE DEF P, R
    <2>1. R = {i \in P : i > m} /\ Len(s) = Cardinality(Upto(P, m))
      BY DEF P, R
    <2>2. GoesOn(P, m, R)
      BY <1>1, <2>1, NthBeyond
    <2> QED
      BY <2>1, <2>2 DEF GoesOn
  <1>3. /\ \A k \in 1 .. Len(s) : s[k] = Accounts[Nth(P, k)]
        /\ t \in Seq(ToSet(Accounts)) /\ Len(t) <= Cardinality(R)
        /\ \A k \in 1 .. Len(t) : t[k] = Accounts[Nth(R, k)]
        /\ more <=> Len(t) < Cardinality(R)
        /\ more => next # Nothing
        /\ Reaches(t, next, T, R)
    BY DEF Starts, Listing
  <1>4. /\ u \in Seq(ToSet(Accounts)) /\ Len(u) = Len(s) + Len(t)
        /\ Len(t) \in Nat
        /\ \A k \in 1 .. Len(s) + Len(t) :
             u[k] = IF k <= Len(s) THEN s[k] ELSE t[k - Len(s)]
    BY <1>3, ConcatProperties, LenProperties
  <1> HIDE DEF u
  <1>5. Len(u) <= Cardinality(P) /\ (more <=> Len(u) < Cardinality(P))
    <2> HIDE DEF P, R
    <2> QED
      BY <1>2, <1>3, <1>4
  <1>6. ASSUME NEW k \in 1 .. Len(u)
        PROVE  u[k] = Accounts[Nth(P, k)]
    <2>1. CASE k <= Len(s)
      <3>1. k \in 1 .. Len(s) /\ k \in 1 .. Len(s) + Len(t)
        BY <1>2, <1>4, <2>1
      <3> QED
        BY <1>3, <1>4, <2>1, <3>1
    <2>2. CASE ~(k <= Len(s))
      <3> HIDE DEF P, R
      <3>1. /\ k \in 1 .. Len(s) + Len(t)
            /\ k - Len(s) \in 1 .. Len(t)
            /\ k - Len(s) \in 1 .. Cardinality(R)
            /\ Len(s) + (k - Len(s)) = k
        BY <1>2, <1>3, <1>4, <2>2
      <3>2. u[k] = t[k - Len(s)] /\ t[k - Len(s)] = Accounts[Nth(R, k - Len(s))]
        BY <1>3, <1>4, <2>2, <3>1
      <3>3. Nth(P, Len(s) + (k - Len(s))) = Nth(R, k - Len(s))
        BY <1>2, <3>1
      <3> QED
        BY <3>1, <3>2, <3>3
    <2> QED
      BY <2>1, <2>2
  <1>7. Starts(u, D)
    BY <1>5, <1>6 DEF Starts
  <1>8. Reaches(u, next, D, DOMAIN Accounts)
    <2> SUFFICES ASSUME next # Nothing
                 PROVE  \E n \in DOMAIN Accounts :
                            /\ Accounts[n] = next
                            /\ Len(u) = Cardinality(Upto(P, n))
      BY DEF Reaches
    <2>1. PICK n \in R : /\ Accounts[n] = next
                         /\ Len(t) = Cardinality(Upto(R, n))
      BY <1>3 DEF Reaches
    <2>2. n \in Nat /\ n >= m /\ n \in DOMAIN Accounts
      BY <1>1
    <2> HIDE DEF P, R
    <2>3. Cardinality(Upto(P, n)) = Len(s) + Cardinality(Upto(R, n))
      BY <1>2, <2>2
    <2> QED
      BY <1>4, <2>1, <2>2, <2>3
  <1> QED
    BY <1>3, <1>4, <1>5, <1>7, <1>8 DEF Listing, u

\* A list without one of its users is the list of the set without them.
LEMMA Dropped ==
    ASSUME NEW s, NEW next, NEW more, NEW D,
           Listing(s, next, more, D, DOMAIN Accounts), NEW c \in ToSet(s)
    PROVE  Listing(Filter(s, ToSet(s) \ {c}), next, more, D \ {c},
                   DOMAIN Accounts)
  <1> DEFINE P == Where(D)
             R == Where(D \ {c})
             t == Filter(s, ToSet(s) \ {c})
             I == 1 .. Len(s)
             kept == {i \in DOMAIN s : s[i] \in ToSet(s) \ {c}}
  <1>1. /\ s \in Seq(ToSet(Accounts)) /\ Len(s) <= Cardinality(P)
        /\ \A k \in I : s[k] = Accounts[Nth(P, k)]
        /\ more <=> Len(s) < Cardinality(P)
        /\ more => next # Nothing
        /\ Reaches(s, next, D, DOMAIN Accounts)
    BY DEF Starts, Listing
  <1>2. /\ Len(s) \in Nat /\ DOMAIN s = I
        /\ \A i \in I : s[i] \in ToSet(s)
        /\ ToSet(s) \subseteq ToSet(Accounts)
    BY <1>1, Elements
  <1>3. /\ P \in SUBSET Nat /\ IsFiniteSet(P) /\ Cardinality(P) \in Nat
        /\ P \in SUBSET DOMAIN Accounts
        /\ \A i \in P : Accounts[i] \in D
    BY WhereIs
  <1>4. PICK p \in I : s[p] = c
    BY <1>1, Elements
  <1> DEFINE q == Nth(P, p)
  <1> HIDE DEF P
  <1>5. /\ p \in 1 .. Cardinality(P) /\ Accounts[q] = c /\ q \in P
        /\ q \in DOMAIN Accounts
    <2>1. p \in 1 .. Cardinality(P)
      BY <1>1, <1>2, <1>3
    <2> QED
      BY <1>1, <1>3, <1>4, <2>1, NthIs
  <1> HIDE DEF q
  <1>6. R = P \ {q}
    <2>1. \A i \in DOMAIN Accounts : Accounts[i] = c <=> i = q
      BY <1>5, AccountsAre
    <2> QED
      BY <2>1 DEF P, Where
  <1>7. /\ Cardinality(R) = Cardinality(P) - 1
        /\ \A k \in 1 .. Cardinality(P) - 1 :
             Nth(R, k) = IF k < p THEN Nth(P, k) ELSE Nth(P, k + 1)
        /\ \A n \in Nat :
             p <= Cardinality(Upto(P, n)) =>
                 Cardinality(Upto(R, n)) = Cardinality(Upto(P, n)) - 1
    <2> HIDE DEF R
    <2>1. ClosesUp(P, p, R)
      BY <1>3, <1>5, <1>6, NthWithout DEF q
    <2> QED
      BY <2>1 DEF ClosesUp
  <1> HIDE DEF R
  <1>8. /\ Cardinality(kept) = Len(s) - 1
        /\ \A k \in 1 .. Len(s) - 1 : Nth(kept, k) = IF k < p THEN k ELSE k + 1
    <2>1. kept = I \ {p}
      <3>1. ASSUME NEW i \in I, s[i] = c
            PROVE  i = p
        <4>1. i \in 1 .. Cardinality(P)
          BY <1>1, <1>2, <1>3
        <4>2. Nth(P, i) \in P /\ Accounts[Nth(P, i)] = c
          BY <1>1, <1>3, <3>1, <4>1, NthIs
        <4>3. Nth(P, i) = q
          BY <1>3, <1>5, <4>2, AccountsAre
        <4>4. ~(i < p) /\ ~(p < i)
          <5>1. q \in Nat /\ ~(q < q)
            BY <1>3, <1>5
          <5> QED
            BY <1>3, <1>5, <4>1, <4>3, <5>1, NthIs DEF q
        <4>5. i \in Nat /\ p \in Nat
          BY <1>2
        <4> QED
          BY <4>4, <4>5
      <3> QED
        BY <1>2, <1>4, <3>1
    <2>2. /\ I \in SUBSET Nat /\ IsFiniteSet(I) /\ Cardinality(I) = Len(s)
      <3>1. /\ IsFiniteSet(1 .. Len(s))
            /\ Cardinality(1 .. Len(s)) =
                 IF 1 > Len(s) THEN 0 ELSE Len(s) - 1 + 1
        BY <1>2, FS_Interval
      <3> QED
        BY <1>2, <3>1
    <2>3. \A k \in I : Nth(I, k) = k
      BY <1>2, NthOfInterval
    <2> HIDE DEF kept, I
    <2>4. /\ p \in 1 .. Cardinality(I) /\ p = Nth(I, p)
      BY <1>4, <2>2, <2>3 DEF I
    <2>5. /\ Cardinality(kept) = Cardinality(I) - 1
          /\ \A k \in 1 .. Cardinality(I) - 1 :
               Nth(kept, k) = IF k < p THEN Nth(I, k) ELSE Nth(I, k + 1)
      <3>1. ClosesUp(I, p, kept)
        BY <2>1, <2>2, <2>4, NthWithout
      <3> QED
        BY <3>1 DEF ClosesUp
    <2>6. \A k \in 1 .. Len(s) - 1 : k \in I /\ k + 1 \in I
      BY <1>2 DEF I
    <2> QED
      BY <2>2, <2>3, <2>5, <2>6
  <1>9. t = [k \in 1 .. Cardinality(kept) |-> s[Nth(kept, k)]]
    BY DEF Filter
  <1>10. /\ Len(s) - 1 \in Nat /\ p \in Nat
         /\ \A k \in 1 .. Len(s) - 1 :
              k \in I /\ k + 1 \in I /\ k \in 1 .. Cardinality(P) - 1
    BY <1>1, <1>2, <1>3, <1>4
  <1> HIDE DEF kept, t, I
  <1>11. ASSUME NEW k \in 1 .. Len(s) - 1
         PROVE  t[k] = Accounts[Nth(R, k)] /\ t[k] \in ToSet(Accounts)
    <2>1. t[k] = IF k < p THEN s[k] ELSE s[k + 1]
      BY <1>8, <1>9
    <2>2. /\ s[k] = Accounts[Nth(P, k)] /\ s[k + 1] = Accounts[Nth(P, k + 1)]
          /\ s[k] \in ToSet(Accounts) /\ s[k + 1] \in ToSet(Accounts)
      BY <1>1, <1>2, <1>10
    <2>3. Nth(R, k) = IF k < p THEN Nth(P, k) ELSE Nth(P, k + 1)
      BY <1>7, <1>10
    <2> QED
      BY <2>1, <2>2, <2>3
  <1>12. t \in Seq(ToSet(Accounts)) /\ Len(t) = Len(s) - 1
    <2>1. t \in [1 .. Len(s) - 1 -> ToSet(Accounts)]
      BY <1>8, <1>9, <1>11
    <2> QED
      BY <1>10, <2>1, SeqDef, LenProperties
  <1>13. /\ Len(t) <= Cardinality(R)
         /\ Len(t) < Cardinality(R) <=> Len(s) < Cardinality(P)
    BY <1>1, <1>2, <1>3, <1>7, <1>12
  <1>14. Starts(t, D \ {c})
    BY <1>11, <1>12, <1>13 DEF Starts, R
  <1>15. Reaches(t, next, D \ {c}, DOMAIN Accounts)
    <2> SUFFICES ASSUME next # Nothing
                 PROVE  \E n \in DOMAIN Accounts :
                            /\ Accounts[n] = next
                            /\ Len(t) = Cardinality(Upto(R, n))
      BY DEF Reaches, R
    <2>1. PICK n \in DOMAIN Accounts :
            /\ Accounts[n] = next /\ Len(s) = Cardinality(Upto(P, n))
      BY <1>1 DEF Reaches, P
    <2>2. n \in Nat
      BY AccountsAre
    <2>3. p <= Len(s)
      BY <1>2 DEF I
    <2>4. Cardinality(Upto(R, n)) = Cardinality(Upto(P, n)) - 1
      BY <1>7, <2>1, <2>2, <2>3
    <2> QED
      BY <1>12, <2>1, <2>4
  <1> QED
    BY <1>1, <1>12, <1>13, <1>14, <1>15 DEF Listing, R, t

\* What a list like the set's is: the beginning of the server's rows.
LEMMA StartsIs ==
    ASSUME NEW s, s \in Seq(ToSet(Accounts)), NEW S, Starts(s, S)
    PROVE  IsPrefix(s, Filter(Accounts, S))
  <1> DEFINE F == Filter(Accounts, S)
             n == Len(s)
  <1>1. /\ F \in Seq(ToSet(Accounts)) /\ Len(F) = Cardinality(Where(S))
        /\ Cardinality(Where(S)) \in Nat /\ n \in Nat /\ n <= Len(F)
        /\ \A k \in 1 .. Len(F) : F[k] = Accounts[Nth(Where(S), k)]
    BY RowsAre, WhereIs, LenProperties DEF Starts
  <1> HIDE DEF F
  <1>2. \A k \in 1 .. n : k \in 1 .. Len(F) /\ s[k] = F[k]
    <2>1. \A k \in 1 .. n : k \in 1 .. Len(F)
      BY <1>1
    <2> QED
      BY <1>1, <2>1 DEF Starts
  <1>3. SubSeq(s, 1, n) = SubSeq(F, 1, n)
    <2> HIDE DEF n
    <2>1. SubSeq(s, 1, n) = [k \in 1 .. n |-> s[k]]
      BY <1>1
    <2>2. SubSeq(F, 1, n) = [k \in 1 .. n |-> F[k]]
      BY <1>1
    <2> QED
      BY <1>2, <2>1, <2>2
  <1> QED
    BY <1>1, <1>3 DEF IsPrefix, F

-----------------------------------------------------------------------------
(* The inductive invariant of the users page.                              *)

\* The requests the users page waits for.
UsersCalls ==
    {c \in calls : \/ c.op \in {"users", "more"}
                   \/ c.op = "delete" /\ c.mounted}

\* The users whose deletion the page has not heard of.
Deleting ==
    {c.user : c \in {d \in UsersCalls : d.op = "delete" /\ d.stage = "done"}}

\* A request of the page, and the page while it is under way.
Belongs(c) ==
    /\ page.open /\ ~page.error
    /\ page.loading <=> c.op = "users"
    /\ c.op = "users" => c.user = Nothing
    /\ c.op = "more" => c.user = page.cursor /\ c.user # Nothing
    /\ c.op = "delete" => c.dialog /\ c.user \in ToSet(page.list)
    /\ (c.op # "delete" /\ c.stage = "done") =>
          /\ c.answer.data \in Seq(ToSet(Accounts))
          /\ c.fresh => c.answer = UsersFrom(c.user)

PageFits ==
    /\ page.list \in Seq(ToSet(Accounts))
    /\ page.loading \in BOOLEAN /\ page.error \in BOOLEAN
    /\ page.error => page.open /\ ~page.loading
    /\ page.loading => page.open
    /\ \A c, d \in UsersCalls : c.op = d.op => c = d
    /\ \A c \in UsersCalls : Belongs(c)

\* What the page shows is what the server has, and whom it is deleting.
ListsUsers ==
    (page.open /\ ~page.loading /\ ~page.error /\ "users" \notin lapses) =>
        /\ Deleting \cap users = {}
        /\ Listing(page.list, page.cursor, page.hasMore, users \cup Deleting,
                   DOMAIN Accounts)

UsersInv == PageFits /\ ListsUsers

-----------------------------------------------------------------------------
(* What leaves the users page alone.                                       *)

\* Steps beside the users page and its requests.
LEMMA UsersKept ==
    ASSUME UsersInv, UsersCalls' = UsersCalls, page' = page, users' = users,
           "users" \in lapses => "users" \in lapses'
    PROVE  UsersInv'
  <1>1. \A x : UsersFrom(x)' = UsersFrom(x)
    BY DEF UsersFrom
  <1>2. Deleting' = Deleting
    BY DEF Deleting
  <1>3. \A c : Belongs(c) => Belongs(c)'
    BY <1>1 DEF Belongs
  <1>4. PageFits'
    BY <1>3 DEF UsersInv, PageFits
  <1>5. ListsUsers'
    BY <1>2 DEF UsersInv, ListsUsers
  <1> QED
    BY <1>4, <1>5 DEF UsersInv

LEMMA SentApart ==
    ASSUME NEW c, Send(c), CallIs(c), c.op \notin {"users", "more", "delete"}
    PROVE  UsersCalls' = UsersCalls
  <1> DEFINE n == [c EXCEPT !.id = spent.clicks + 1]
  <1>1. n.op = c.op
    BY DEF CallIs
  <1>2. calls' = calls \cup {n}
    BY DEF Send
  <1> HIDE DEF n
  <1> QED
    BY <1>1, <1>2 DEF UsersCalls

LEMMA EndedApart ==
    ASSUME NEW c, c \notin UsersCalls, calls' = calls \ {c}
    PROVE  UsersCalls' = UsersCalls
  BY DEF UsersCalls

LEMMA ReplacedApart ==
    ASSUME NEW c, c \notin UsersCalls, NEW n,
           n.op \notin {"users", "more", "delete"},
           calls' = (calls \ {c}) \cup {n}
    PROVE  UsersCalls' = UsersCalls
  BY DEF UsersCalls

LEMMA DetachedApart ==
    ASSUME Asked, NEW op \in {"save", "override"},
           NEW S, S \in SUBSET calls, UsersCalls \subseteq S,
           calls' = Detached(op, S)
    PROVE  UsersCalls' = UsersCalls
  <1>1. ASSUME NEW e \in S, e.op = op
        PROVE  [e EXCEPT !.dialog = FALSE].op = op
    BY <1>1 DEF Asked, CallIs
  <1>2. ASSUME NEW d \in UsersCalls'
        PROVE  d \in UsersCalls
    <2>1. d \in calls' /\ d.op # op
      BY <1>2 DEF UsersCalls
    <2>2. PICK e \in S :
                d = IF e.op = op THEN [e EXCEPT !.dialog = FALSE] ELSE e
      BY <2>1 DEF Detached
    <2>3. d = e
      BY <1>1, <2>1, <2>2
    <2> QED
      BY <1>2, <2>3 DEF UsersCalls
  <1>3. ASSUME NEW d \in UsersCalls
        PROVE  d \in UsersCalls'
    <2>1. d \in S /\ d.op # op
      BY <1>3 DEF UsersCalls
    <2>2. d \in calls'
      BY <2>1 DEF Detached
    <2> QED
      BY <1>3, <2>2 DEF UsersCalls
  <1> QED
    BY <1>2, <1>3

\* The clicks of the flags page, of its editor and of the dialog.
LEMMA ClicksApart ==
    ASSUME AdminInv, UsersInv,
           \/ retry \/ reload \/ submit \/ clearAll \/ saveOverrides
           \/ \E f \in Flags : clear(f)
           \/ \E u \in ToSet(Accounts) : OpenOverrides(u)
    PROVE  UsersInv'
  <1> USE DEF serverVars
  <1>1. ASSUME NEW c, Send(c), CallIs(c),
               c.op \notin {"users", "more", "delete"},
               UNCHANGED <<users, page, lapses>>
        PROVE  UsersInv'
    BY <1>1, SentApart, UsersKept
  <1>2. CASE retry
    <2> DEFINE c == Call("list")
    <2>1. CallIs(c) /\ c.op = "list"
      BY DEF CallIs, Call, Ops, Reads
    <2>2. Send(c) /\ UNCHANGED <<users, page, lapses>>
      BY <1>2 DEF retry
    <2> HIDE DEF c
    <2> QED
      BY <1>1, <2>1, <2>2
  <1>3. CASE reload
    <2> DEFINE c == Call("reload")
    <2>1. CallIs(c) /\ c.op = "reload"
      BY DEF CallIs, Call, Ops, Reads
    <2>2. Send(c) /\ UNCHANGED <<users, page, lapses>>
      BY <1>3 DEF reload
    <2> HIDE DEF c
    <2> QED
      BY <1>1, <2>1, <2>2
  <1>4. CASE submit
    <2> DEFINE c == [Call("save") EXCEPT !.flag = panel.editing,
                                 !.sent = panel.draft, !.dialog = TRUE]
    <2>1. CallIs(c) /\ c.op = "save"
      BY DEF CallIs, Call, Ops, Writes, FlagWrites
    <2>2. Send(c) /\ UNCHANGED <<users, page, lapses>>
      BY <1>4 DEF submit
    <2> HIDE DEF c
    <2> QED
      BY <1>1, <2>1, <2>2
  <1>5. CASE clearAll
    <2> DEFINE c == [Call("clearAll") EXCEPT !.dialog = TRUE]
    <2>1. CallIs(c) /\ c.op = "clearAll"
      BY DEF CallIs, Call, Ops, Writes, FlagWrites
    <2>2. Send(c) /\ UNCHANGED <<users, page, lapses>>
      BY <1>5 DEF clearAll
    <2> HIDE DEF c
    <2> QED
      BY <1>1, <2>1, <2>2
  <1>6. ASSUME NEW f \in Flags, clear(f)
        PROVE  UsersInv'
    <2> DEFINE c == [Call("clear") EXCEPT !.flag = f, !.dialog = TRUE]
    <2>1. CallIs(c) /\ c.op = "clear"
      BY DEF CallIs, Call, Ops, Writes, FlagWrites
    <2>2. Send(c) /\ UNCHANGED <<users, page, lapses>>
      BY <1>6 DEF clear
    <2> HIDE DEF c
    <2> QED
      BY <1>1, <2>1, <2>2
  <1>7. CASE saveOverrides
    <2> DEFINE s == [definitions |-> dialog.definitions,
                     rows |-> dialog.rows]
               c == [Call("override") EXCEPT
                        !.user = dialog.user, !.todo = dirtyFlags,
                        !.dialog = TRUE, !.sent = s]
    <2>1. dirtyFlags \subseteq Flags
      BY DEF dirtyFlags
    <2>2. CallIs(c) /\ c.op = "override"
      BY <2>1 DEF CallIs, Call, Ops, Writes, FlagWrites
    <2>3. Send(c) /\ UNCHANGED <<users, page, lapses>>
      BY <1>7 DEF saveOverrides
    <2> HIDE DEF c, s
    <2> QED
      BY <1>1, <2>2, <2>3
  <1>8. ASSUME NEW u \in ToSet(Accounts), OpenOverrides(u)
        PROVE  UsersInv'
    <2> DEFINE c == [Call("read") EXCEPT !.user = u]
    <2>1. CallIs(c) /\ c.op = "read"
      BY DEF CallIs, Call, Ops, Reads
    <2>2. Send(c) /\ UNCHANGED <<users, page, lapses>>
      BY <1>8 DEF OpenOverrides
    <2> HIDE DEF c
    <2> QED
      BY <1>1, <2>1, <2>2
  <1> QED
    BY <1>2, <1>3, <1>4, <1>5, <1>6, <1>7, <1>8

\* What goes on in the editor and in the dialog, and what ends there.
LEMMA EditsApart ==
    ASSUME AdminInv, UsersInv,
           \/ Change \/ CancelEditor \/ CloseOverrides
           \/ \E f \in Flags : Edit(f) \/ setRow(f)
    PROVE  UsersInv'
  <1> USE DEF serverVars
  <1>1. CASE Change \/ \E f \in Flags : Edit(f) \/ setRow(f)
    <2>1. UNCHANGED <<users, page, calls, lapses>>
      BY <1>1 DEF Change, Edit, setRow
    <2>2. UsersCalls' = UsersCalls
      BY <2>1 DEF UsersCalls
    <2> QED
      BY <2>1, <2>2, UsersKept
  <1>2. CASE CancelEditor
    <2>1. /\ UNCHANGED <<users, page, lapses>>
          /\ calls' = Detached("save", calls)
      BY <1>2 DEF CancelEditor
    <2>2. UsersCalls \subseteq calls
      BY DEF UsersCalls
    <2>3. UsersCalls' = UsersCalls
      BY <2>1, <2>2, DetachedApart DEF AdminInv
    <2> QED
      BY <2>1, <2>3, UsersKept
  <1>3. CASE CloseOverrides
    <2>1. /\ UNCHANGED <<users, page, lapses>>
          /\ calls' = Detached("override", calls \ Under("read"))
      BY <1>3 DEF CloseOverrides
    <2>2. UsersCalls \subseteq calls \ Under("read")
      BY DEF UsersCalls, Under
    <2>3. UsersCalls' = UsersCalls
      BY <2>1, <2>2, DetachedApart DEF AdminInv
    <2> QED
      BY <2>1, <2>3, UsersKept
  <1> QED
    BY <1>1, <1>2, <1>3

LEMMA AnswersApart ==
    ASSUME AdminInv, UsersInv, NEW c \in calls,
           \/ Listed(c) \/ ListFails(c) \/ Reloaded(c) \/ ReloadFails(c)
           \/ Written(c) \/ WriteFails(c)
           \/ ReadOverrides(c) \/ ReadFails(c)
           \/ Overridden(c) \/ OverridesSaved(c) \/ OverrideFails(c)
    PROVE  UsersInv'
  <1> USE DEF serverVars
  <1>1. /\ c.op \in {"list", "relist", "reload", "read", "override"}
                        \cup FlagWrites
        /\ UNCHANGED <<users, page>>
        /\ "users" \in lapses => "users" \in lapses'
    BY DEF Listed, ListFails, Reloaded, ReloadFails, Written, WriteFails,
           ReadOverrides, ReadFails, Overridden, OverridesSaved,
           OverrideFails, Told
  <1>2. c \notin UsersCalls
    BY <1>1 DEF UsersCalls, FlagWrites
  <1>3. CASE Listed(c) \/ ListFails(c) \/ ReloadFails(c) \/ ReadOverrides(c)
             \/ ReadFails(c) \/ OverrideFails(c)
    <2>1. calls' = calls \ {c}
      BY <1>3 DEF Listed, ListFails, ReloadFails, ReadOverrides, ReadFails,
                  OverrideFails
    <2> QED
      BY <1>1, <1>2, <2>1, EndedApart, UsersKept
  <1>4. CASE Reloaded(c)
    <2>1. calls' = (calls \ {c}) \cup {Call("relist")}
      BY <1>4 DEF Reloaded
    <2>2. Call("relist").op \notin {"users", "more", "delete"}
      BY DEF Call
    <2> QED
      BY <1>1, <1>2, <2>1, <2>2, ReplacedApart, UsersKept
  <1>5. CASE Written(c) \/ WriteFails(c)
    <2>1. calls' = Left(c)
      BY <1>5 DEF Written, WriteFails
    <2>2. UsersCalls' = UsersCalls
      <3>1. CASE c.op = "save" /\ c.mounted
        <4>1. calls' = Detached("save", calls \ {c})
          BY <2>1, <3>1 DEF Left
        <4>2. UsersCalls \subseteq calls \ {c}
          BY <1>2 DEF UsersCalls
        <4> QED
          BY <4>1, <4>2, DetachedApart DEF AdminInv
      <3>2. CASE ~(c.op = "save" /\ c.mounted)
        <4>1. calls' = calls \ {c}
          BY <2>1, <3>2 DEF Left
        <4> QED
          BY <1>2, <4>1, EndedApart
      <3> QED
        BY <3>1, <3>2
    <2> QED
      BY <1>1, <2>2, UsersKept
  <1>6. CASE Overridden(c)
    <2> DEFINE n == [c EXCEPT !.todo = @ \ {NextFlag(@)}, !.stage = "sent",
                              !.answer = Nothing, !.fresh = TRUE]
    <2>1. calls' = (calls \ {c}) \cup {n}
      BY <1>6 DEF Overridden
    <2>2. n.op = "override"
      BY <1>6 DEF Overridden, AdminInv, Asked, CallIs
    <2> HIDE DEF n
    <2> QED
      BY <1>1, <1>2, <2>1, <2>2, ReplacedApart, UsersKept
  <1>7. CASE OverridesSaved(c)
    <2>1. CASE c.mounted
      <3>1. calls' = Detached("override", calls \ (Under("read") \cup {c}))
        BY <1>7, <2>1 DEF OverridesSaved
      <3>2. UsersCalls \subseteq calls \ (Under("read") \cup {c})
        BY <1>2 DEF UsersCalls, Under
      <3>3. UsersCalls' = UsersCalls
        BY <3>1, <3>2, DetachedApart DEF AdminInv
      <3> QED
        BY <1>1, <3>3, UsersKept
    <2>2. CASE ~c.mounted
      <3>1. calls' = calls \ {c}
        BY <1>7, <2>2 DEF OverridesSaved
      <3> QED
        BY <1>1, <1>2, <3>1, EndedApart, UsersKept
    <2> QED
      BY <2>1, <2>2
  <1> QED
    BY <1>3, <1>4, <1>5, <1>6, <1>7

\* A tab that has just been mounted, with the request its effect sends.
LEMMA UsersMounted ==
    ASSUME NEW tab \in {"flags", "users"}
    PROVE  LET p == Page(tab = "users")
               c == FirstRead(tab)
           IN  /\ p.list = <<>> /\ p.error = FALSE
               /\ p.loading <=> tab = "users"
               /\ p.loading \in BOOLEAN
               /\ p.open <=> tab = "users"
               /\ c.op = IF tab = "flags" THEN "list" ELSE "users"
               /\ c.user = Nothing /\ c.stage = "sent"
  BY DEF Page, FirstRead, Call

LEMMA UsersStart ==
    ASSUME NEW tab \in {"flags", "users"}, page = Page(tab = "users"),
           UsersCalls \subseteq {FirstRead(tab)}
    PROVE  UsersInv
  <1> DEFINE c == FirstRead(tab)
  <1>1. /\ page.list = <<>> /\ page.error = FALSE
        /\ page.loading <=> tab = "users"
        /\ page.loading \in BOOLEAN
        /\ page.open <=> tab = "users"
        /\ c.op = IF tab = "flags" THEN "list" ELSE "users"
        /\ c.user = Nothing /\ c.stage = "sent"
    BY UsersMounted
  <1> HIDE DEF c
  <1>2. \A d \in UsersCalls : d = c /\ tab = "users"
    BY <1>1 DEF UsersCalls, c
  <1>3. \A d \in UsersCalls : Belongs(d)
    BY <1>1, <1>2 DEF Belongs
  <1>4. <<>> \in Seq(ToSet(Accounts))
    BY EmptySeq
  <1>5. PageFits
    BY <1>1, <1>2, <1>3, <1>4 DEF PageFits
  <1>6. ListsUsers
    BY <1>1 DEF ListsUsers
  <1> QED
    BY <1>5, <1>6 DEF UsersInv

LEMMA UsersInit == Init => UsersInv
  <1> SUFFICES ASSUME Init
               PROVE  UsersInv
    OBVIOUS
  <1>1. PICK tab \in {"flags", "users"} :
            page = Page(tab = "users") /\ calls = {FirstRead(tab)}
    BY DEF Init
  <1>2. UsersCalls \subseteq {FirstRead(tab)}
    BY <1>1 DEF UsersCalls
  <1> QED
    BY <1>1, <1>2, UsersStart

LEMMA UsersVisit ==
    ASSUME AdminInv, NEW tab \in {"flags", "users"}, Visit(tab)
    PROVE  UsersInv'
  <1> DEFINE c == FirstRead(tab)
  <1>1. page' = Page(tab = "users") /\ calls' = Orphans \cup {c}
    BY DEF Visit, Mounted
  <1>2. \A d \in Orphans : ~d.mounted /\ d.op \in Writes
    BY OrphansAre DEF AdminInv
  <1>3. UsersCalls' \subseteq {c}
    BY <1>1, <1>2 DEF UsersCalls, Writes, FlagWrites
  <1>4. /\ page'.list = <<>> /\ page'.error = FALSE
        /\ page'.loading <=> tab = "users"
        /\ page'.loading \in BOOLEAN
        /\ page'.open <=> tab = "users"
        /\ c.op = IF tab = "flags" THEN "list" ELSE "users"
        /\ c.user = Nothing /\ c.stage = "sent"
    BY <1>1, UsersMounted
  <1> HIDE DEF c
  <1>5. \A d \in UsersCalls' : d = c /\ tab = "users"
    BY <1>3, <1>4 DEF UsersCalls
  <1>6. \A d \in UsersCalls' : Belongs(d)'
    BY <1>4, <1>5 DEF Belongs
  <1>7. <<>> \in Seq(ToSet(Accounts))
    BY EmptySeq
  <1>8. PageFits'
    BY <1>4, <1>5, <1>6, <1>7 DEF PageFits
  <1>9. ListsUsers'
    BY <1>4 DEF ListsUsers
  <1> QED
    BY <1>8, <1>9 DEF UsersInv

-----------------------------------------------------------------------------
(* What happens at the server.                                             *)

\* A request after a change at the server.
Older(c) == IF c.stage = "done" THEN [c EXCEPT !.fresh = FALSE] ELSE c

LEMMA OlderIs ==
    ASSUME NEW e, CallIs(e)
    PROVE  /\ Older(e).op = e.op /\ Older(e).user = e.user
           /\ Older(e).stage = e.stage /\ Older(e).answer = e.answer
           /\ Older(e).dialog = e.dialog /\ Older(e).mounted = e.mounted
           /\ Older(e).stage = "done" => ~Older(e).fresh
  BY DEF Older, CallIs

LEMMA AgedCalls ==
    ASSUME Asked
    PROVE  {d \in Aged(calls) : \/ d.op \in {"users", "more"}
                                \/ d.op = "delete" /\ d.mounted} =
                {Older(e) : e \in UsersCalls}
  <1> DEFINE S == {d \in Aged(calls) : \/ d.op \in {"users", "more"}
                                       \/ d.op = "delete" /\ d.mounted}
  <1>1. Aged(calls) = {Older(e) : e \in calls}
    BY DEF Aged, Older
  <1>2. \A e \in calls : Older(e).op = e.op /\ Older(e).mounted = e.mounted
    BY OlderIs DEF Asked
  <1>3. ASSUME NEW d \in S
        PROVE  \E e \in UsersCalls : d = Older(e)
    <2>1. PICK e \in calls : d = Older(e)
      BY <1>1
    <2> QED
      BY <1>2, <2>1 DEF UsersCalls
  <1>4. ASSUME NEW e \in UsersCalls
        PROVE  Older(e) \in S
    BY <1>1, <1>2 DEF UsersCalls
  <1> QED
    BY <1>3, <1>4

\* Changes that leave the page and the users as they are, or that the page
\* is not told of.
LEMMA UsersAged ==
    ASSUME AdminInv, UsersInv, UsersCalls' = {Older(e) : e \in UsersCalls},
           page' = page,
           "users" \in lapses => "users" \in lapses',
           users' = users \/ (page.open => "users" \in lapses')
    PROVE  UsersInv'
  <1>1. ASSUME NEW e \in UsersCalls
        PROVE  /\ Older(e).op = e.op /\ Older(e).user = e.user
               /\ Older(e).stage = e.stage
               /\ Belongs(Older(e))'
    <2>1. e \in calls /\ Belongs(e)
      BY DEF UsersCalls, UsersInv, PageFits
    <2>2. /\ Older(e).op = e.op /\ Older(e).user = e.user
          /\ Older(e).stage = e.stage /\ Older(e).answer = e.answer
          /\ Older(e).dialog = e.dialog
          /\ Older(e).stage = "done" => ~Older(e).fresh
      BY <2>1, OlderIs DEF AdminInv, Asked
    <2> QED
      BY <2>1, <2>2 DEF Belongs
  <1>2. PageFits'
    <2>1. \A c, d \in UsersCalls' : c.op = d.op => c = d
      BY <1>1 DEF UsersInv, PageFits
    <2>2. \A d \in UsersCalls' : Belongs(d)'
      BY <1>1
    <2> QED
      BY <2>1, <2>2 DEF UsersInv, PageFits
  <1>3. Deleting' = Deleting
    BY <1>1 DEF Deleting
  <1>4. ListsUsers'
    BY <1>3 DEF UsersInv, ListsUsers
  <1> QED
    BY <1>2, <1>4 DEF UsersInv

LEMMA UsersForeign ==
    ASSUME AdminInv, UsersInv, Foreign
    PROVE  UsersInv'
  <1>1. calls' = Aged(calls) /\ page' = page /\ "users" \in lapses'
    BY DEF Foreign
  <1>2. UsersCalls' = {Older(e) : e \in UsersCalls}
    BY <1>1, AgedCalls DEF UsersCalls, AdminInv
  <1> QED
    BY <1>1, <1>2, UsersAged

\* Some other request is answered, after a change.
LEMMA AnsweredLater ==
    ASSUME AdminInv, NEW c \in calls, c.stage = "sent", c \notin UsersCalls,
           NEW a, Answered(c, Aged(calls), a)
    PROVE  UsersCalls' = {Older(e) : e \in UsersCalls}
  <1> DEFINE n == [c EXCEPT !.stage = "done", !.answer = a]
  <1>1. calls' = (Aged(calls) \ {c}) \cup {n}
    BY DEF Answered
  <1>2. n.op = c.op /\ n.mounted = c.mounted
    BY DEF AdminInv, Asked, CallIs
  <1>3. ~(c.op \in {"users", "more"} \/ (c.op = "delete" /\ c.mounted))
    BY DEF UsersCalls
  <1> HIDE DEF n
  <1> QED
    BY <1>1, <1>2, <1>3, AgedCalls DEF UsersCalls, AdminInv

LEMMA UsersFlagWrite ==
    ASSUME AdminInv, UsersInv, NEW c \in calls, ServeFlagWrite(c)
    PROVE  UsersInv'
  <1> DEFINE k == Catalog'
  <1>1. /\ c.stage = "sent" /\ c.op \in FlagWrites \cup {"override"}
        /\ Answered(c, Aged(calls), k)
        /\ users' = users /\ page' = page
        /\ "users" \in lapses => "users" \in lapses'
    BY DEF ServeFlagWrite
  <1> HIDE DEF k
  <1>2. c \notin UsersCalls
    BY <1>1 DEF UsersCalls, FlagWrites
  <1>3. UsersCalls' = {Older(e) : e \in UsersCalls}
    BY <1>1, <1>2, AnsweredLater
  <1> QED
    BY <1>1, <1>3, UsersAged

\* The server answers a read.
LEMMA UsersRead ==
    ASSUME AdminInv, UsersInv, NEW c \in calls, ServeRead(c)
    PROVE  UsersInv'
  <1>1. /\ c.stage = "sent"
        /\ UNCHANGED <<users, page, lapses>> /\ CallIs(c)
    BY DEF ServeRead, serverVars, AdminInv, Asked
  <1>2. CASE c.op \notin {"users", "more"}
    <2> DEFINE n == [c EXCEPT !.stage = "done", !.answer = Catalog]
    <2>1. calls' = (calls \ {c}) \cup {n}
          /\ c.op \in {"list", "relist", "read", "reload"}
      BY <1>2 DEF ServeRead, Answered
    <2>2. n.op = c.op
      BY <1>1 DEF CallIs
    <2> HIDE DEF n
    <2>3. c \notin UsersCalls /\ n.op \notin {"users", "more", "delete"}
      BY <2>1, <2>2 DEF UsersCalls
    <2> QED
      BY <1>1, <2>1, <2>3, ReplacedApart, UsersKept
  <1>3. CASE c.op \in {"users", "more"}
    <2>1. PICK n : n = [c EXCEPT !.stage = "done",
                                 !.answer = UsersFrom(c.user)]
      OBVIOUS
    <2>2. /\ n.op = c.op /\ n.user = c.user /\ n.stage = "done"
          /\ n.answer = UsersFrom(c.user)
          /\ calls' = (calls \ {c}) \cup {n}
      BY <1>1, <1>3, <2>1 DEF CallIs, ServeRead, Answered
    <2>3. n.answer.data \in Seq(ToSet(Accounts))
      BY <2>2, AnyPageIs
    <2>4. c \in UsersCalls
      BY <1>3 DEF UsersCalls
    <2>5. \A x : UsersFrom(x)' = UsersFrom(x)
      BY <1>1 DEF UsersFrom
    <2>6. n.answer = UsersFrom(n.user)'
      BY <2>2, <2>5
    <2>7. UsersCalls' = (UsersCalls \ {c}) \cup {n}
      BY <1>3, <2>2 DEF UsersCalls
    <2>8. Belongs(n)'
      <3>1. Belongs(c)
        BY <2>4 DEF UsersInv, PageFits
      <3>2. /\ page'.open /\ ~page'.error
            /\ page'.loading <=> n.op = "users"
            /\ n.op = "users" => n.user = Nothing
            /\ n.op = "more" => n.user = page'.cursor /\ n.user # Nothing
            /\ n.op # "delete"
        BY <1>1, <1>3, <2>2, <3>1 DEF Belongs
      <3> QED
        BY <2>3, <2>6, <3>2 DEF Belongs
    <2>9. \A d \in UsersCalls \ {c} : Belongs(d)'
      <3>1. \A d \in UsersCalls : Belongs(d)
        BY DEF UsersInv, PageFits
      <3> QED
        BY <1>1, <2>5, <3>1 DEF Belongs
    <2>10. PageFits'
      <3>1. \A d, e \in UsersCalls' : d.op = e.op => d = e
        <4>1. \A d \in UsersCalls \ {c} : d.op # n.op
          BY <2>2, <2>4 DEF UsersInv, PageFits
        <4>2. \A d, e \in UsersCalls \ {c} : d.op = e.op => d = e
          BY DEF UsersInv, PageFits
        <4> QED
          BY <2>7, <4>1, <4>2
      <3>2. \A d \in UsersCalls' : Belongs(d)'
        BY <2>7, <2>8, <2>9
      <3> QED
        BY <1>1, <3>1, <3>2 DEF UsersInv, PageFits
    <2>11. Deleting' = Deleting
      BY <1>3, <2>2, <2>7 DEF Deleting
    <2>12. ListsUsers'
      BY <1>1, <2>11 DEF UsersInv, ListsUsers
    <2> QED
      BY <2>10, <2>12 DEF UsersInv
  <1> QED
    BY <1>2, <1>3

\* The server deletes a user. The page that asked for it still shows them.
LEMMA UsersDelete ==
    ASSUME AdminInv, UsersInv, NEW c \in calls, ServeDelete(c)
    PROVE  UsersInv'
  <1>1. /\ c.stage = "sent" /\ c.op = "delete" /\ c.user \in users
        /\ users' = users \ {c.user} /\ page' = page /\ CallIs(c)
        /\ Answered(c, Aged(calls), Nothing)
        /\ lapses' = IF page.open /\ ~c.mounted
                     THEN lapses \cup {"users"} ELSE lapses
    BY DEF ServeDelete, AdminInv, Asked
  <1>2. CASE ~c.mounted
    <2>1. c \notin UsersCalls
      BY <1>1, <1>2 DEF UsersCalls
    <2>2. UsersCalls' = {Older(e) : e \in UsersCalls}
      BY <1>1, <2>1, AnsweredLater
    <2> QED
      BY <1>1, <1>2, <2>2, UsersAged
  <1>3. CASE c.mounted
    <2> DEFINE n == [c EXCEPT !.stage = "done", !.answer = Nothing]
    <2>1. calls' = (Aged(calls) \ {c}) \cup {n} /\ lapses' = lapses
      BY <1>1, <1>3 DEF Answered
    <2>2. /\ n.op = "delete" /\ n.user = c.user /\ n.stage = "done"
          /\ n.mounted /\ n.dialog = c.dialog
      BY <1>1, <1>3 DEF CallIs
    <2>3. c \in UsersCalls
      BY <1>1, <1>3 DEF UsersCalls
    <2> HIDE DEF n
    <2>4. UsersCalls' = ({Older(e) : e \in UsersCalls} \ {c}) \cup {n}
      BY <2>1, <2>2, AgedCalls DEF UsersCalls, AdminInv
    <2>5. \A e \in UsersCalls : e # c => e.op # "delete"
      BY <1>1, <2>3 DEF UsersInv, PageFits
    <2>6. Older(c) = c
      BY <1>1 DEF Older
    <2>7. UsersCalls' = {Older(e) : e \in UsersCalls \ {c}} \cup {n}
      <3>1. \A e \in UsersCalls : e # c => Older(e) # c
        <4>1. \A e \in UsersCalls : Older(e).op = e.op
          BY OlderIs DEF UsersCalls, AdminInv, Asked
        <4> QED
          BY <1>1, <2>5, <4>1
      <3> QED
        BY <2>4, <2>6, <3>1
    <2>8. ASSUME NEW e \in UsersCalls \ {c}
          PROVE  /\ Older(e).op = e.op /\ Older(e).op # "delete"
                 /\ Belongs(Older(e))'
      <3>1. e \in calls /\ Belongs(e) /\ e.op # "delete"
        BY <2>5 DEF UsersCalls, UsersInv, PageFits
      <3>2. /\ Older(e).op = e.op /\ Older(e).user = e.user
            /\ Older(e).stage = e.stage /\ Older(e).answer = e.answer
            /\ Older(e).dialog = e.dialog
            /\ Older(e).stage = "done" => ~Older(e).fresh
        BY <3>1, OlderIs DEF AdminInv, Asked
      <3> QED
        BY <1>1, <3>1, <3>2 DEF Belongs
    <2>9. Belongs(n)'
      <3>1. Belongs(c)
        BY <2>3 DEF UsersInv, PageFits
      <3> QED
        BY <1>1, <2>2, <3>1 DEF Belongs
    <2>10. PageFits'
      <3>1. \A d, e \in UsersCalls' : d.op = e.op => d = e
        BY <2>2, <2>7, <2>8 DEF UsersInv, PageFits
      <3>2. \A d \in UsersCalls' : Belongs(d)'
        BY <2>7, <2>8, <2>9
      <3> QED
        BY <1>1, <3>1, <3>2 DEF UsersInv, PageFits
    <2>11. Deleting = {} /\ Deleting' = {c.user}
      <3>1. Deleting = {}
        BY <1>1, <2>5 DEF Deleting
      <3>2. Deleting' = {c.user}
        BY <2>2, <2>7, <2>8 DEF Deleting
      <3> QED
        BY <3>1, <3>2
    <2>12. /\ users' \cup Deleting' = users \cup Deleting
           /\ Deleting' \cap users' = {}
      BY <1>1, <2>11
    <2>13. ListsUsers'
      BY <1>1, <2>1, <2>12 DEF UsersInv, ListsUsers
    <2> QED
      BY <2>10, <2>13 DEF UsersInv
  <1> QED
    BY <1>2, <1>3

-----------------------------------------------------------------------------
(* What happens on the users page.                                         *)

\* A click on the users page sends a request.
LEMMA SentFrom ==
    ASSUME NEW c, Send(c), CallIs(c), c.stage = "sent",
           c.op \in {"users", "more", "delete"}, c.mounted
    PROVE  \E n : /\ UsersCalls' = UsersCalls \cup {n}
                  /\ n.op = c.op /\ n.user = c.user /\ n.stage = "sent"
                  /\ n.dialog = c.dialog
  <1> DEFINE n == [c EXCEPT !.id = spent.clicks + 1]
  <1>1. /\ n.op = c.op /\ n.user = c.user /\ n.stage = "sent"
        /\ n.dialog = c.dialog /\ n.mounted
    BY DEF CallIs
  <1>2. calls' = calls \cup {n}
    BY DEF Send
  <1> HIDE DEF n
  <1>3. UsersCalls' = UsersCalls \cup {n}
    BY <1>1, <1>2 DEF UsersCalls
  <1> QED
    BY <1>1, <1>3

\* It joins the others, and the list stays as it is.
LEMMA SentBeside ==
    ASSUME UsersInv, NEW n, UsersCalls' = UsersCalls \cup {n},
           n.stage = "sent", \A c \in UsersCalls : c.op # n.op,
           UNCHANGED <<page, users, lapses>>, Belongs(n)
    PROVE  UsersInv'
  <1>1. \A x : UsersFrom(x)' = UsersFrom(x)
    BY DEF UsersFrom
  <1>2. \A c : Belongs(c) => Belongs(c)'
    BY <1>1 DEF Belongs
  <1>3. PageFits'
    <2>1. \A c, d \in UsersCalls' : c.op = d.op => c = d
      BY DEF UsersInv, PageFits
    <2>2. \A c \in UsersCalls' : Belongs(c)'
      BY <1>2 DEF UsersInv, PageFits
    <2> QED
      BY <2>1, <2>2 DEF UsersInv, PageFits
  <1>4. Deleting' = Deleting
    BY DEF Deleting
  <1>5. ListsUsers'
    BY <1>4 DEF UsersInv, ListsUsers
  <1> QED
    BY <1>3, <1>5 DEF UsersInv

LEMMA UsersClicks ==
    ASSUME AdminInv, UsersInv,
           \/ loadFirstPage \/ loadMore
           \/ \E u \in ToSet(Accounts) : handleDelete(u)
    PROVE  UsersInv'
  <1> USE DEF serverVars
  <1>1. CASE loadFirstPage
    <2> DEFINE c == Call("users")
    <2>1. /\ CallIs(c) /\ c.stage = "sent" /\ c.op = "users" /\ c.mounted
          /\ c.user = Nothing
      BY DEF Call, CallIs, Ops
    <2>2. /\ Send(c) /\ page.error /\ users' = users
          /\ page' = [page EXCEPT !.loading = TRUE, !.error = FALSE]
      BY <1>1 DEF loadFirstPage
    <2> HIDE DEF c
    <2>3. PICK n : /\ UsersCalls' = UsersCalls \cup {n}
                   /\ n.op = c.op /\ n.user = c.user /\ n.stage = "sent"
      BY <2>1, <2>2, SentFrom
    <2>4. UsersCalls = {}
      BY <2>2 DEF UsersInv, PageFits, Belongs
    <2>5. /\ page'.open = page.open /\ page'.list = page.list /\ page'.loading
          /\ page.open /\ page'.error = FALSE /\ page'.loading = TRUE
      BY <2>2 DEF AdminInv, PageType, UsersInv, PageFits
    <2>6. UsersCalls' = {n} /\ Belongs(n)'
      BY <2>1, <2>3, <2>4, <2>5 DEF Belongs
    <2>7. PageFits'
      BY <2>5, <2>6 DEF UsersInv, PageFits
    <2>8. ListsUsers'
      BY <2>5 DEF ListsUsers
    <2> QED
      BY <2>7, <2>8 DEF UsersInv
  <1>2. CASE loadMore
    <2> DEFINE c == [Call("more") EXCEPT !.user = page.cursor]
    <2>1. /\ CallIs(c) /\ c.stage = "sent" /\ c.op = "more" /\ c.mounted
          /\ c.user = page.cursor
      BY DEF Call, CallIs, Ops
    <2>2. /\ Send(c) /\ UNCHANGED <<page, users, lapses>>
          /\ page.open /\ ~page.loading /\ ~page.error
          /\ page.cursor # Nothing /\ Under("more") = {}
      BY <1>2 DEF loadMore, PageShown
    <2> HIDE DEF c
    <2>3. PICK n : /\ UsersCalls' = UsersCalls \cup {n}
                   /\ n.op = c.op /\ n.user = c.user /\ n.stage = "sent"
      BY <2>1, <2>2, SentFrom
    <2>4. Belongs(n)
      BY <2>1, <2>2, <2>3 DEF Belongs
    <2>5. \A d \in UsersCalls : d.op # n.op
      BY <2>1, <2>2, <2>3 DEF UsersCalls, Under
    <2> QED
      BY <2>2, <2>3, <2>4, <2>5, SentBeside
  <1>3. ASSUME NEW u \in ToSet(Accounts), handleDelete(u)
        PROVE  UsersInv'
    <2> DEFINE c == [Call("delete") EXCEPT !.user = u, !.dialog = TRUE]
    <2>1. /\ CallIs(c) /\ c.stage = "sent" /\ c.op = "delete" /\ c.mounted
          /\ c.user = u /\ c.dialog
      BY DEF Call, CallIs, Ops, Writes
    <2>2. /\ Send(c) /\ UNCHANGED <<page, users, lapses>>
          /\ page.open /\ ~page.loading /\ ~page.error
          /\ u \in ToSet(page.list)
          /\ \A d \in calls : d.op = "delete" => ~d.dialog
      BY <1>3 DEF handleDelete, PageShown, Clickable
    <2> HIDE DEF c
    <2>3. PICK n : /\ UsersCalls' = UsersCalls \cup {n}
                   /\ n.op = c.op /\ n.user = c.user /\ n.stage = "sent"
                   /\ n.dialog = c.dialog
      BY <2>1, <2>2, SentFrom
    <2>4. Belongs(n)
      BY <2>1, <2>2, <2>3 DEF Belongs
    <2>5. \A d \in UsersCalls : d.op # n.op
      <3>1. \A d \in UsersCalls : d \in calls /\ Belongs(d)
        BY DEF UsersCalls, UsersInv, PageFits
      <3> QED
        BY <2>1, <2>2, <2>3, <3>1 DEF Belongs
    <2> QED
      BY <2>2, <2>3, <2>4, <2>5, SentBeside
  <1> QED
    BY <1>1, <1>2, <1>3

\* A request of the page ends, and what the page shows stays.
LEMMA UsersEnd ==
    ASSUME UsersInv, NEW c \in UsersCalls, calls' = calls \ {c},
           UNCHANGED <<page, users>>,
           "users" \in lapses => "users" \in lapses',
           c.op # "delete" \/ c.stage # "done" \/ "users" \in lapses'
    PROVE  UsersInv'
  <1>1. \A x : UsersFrom(x)' = UsersFrom(x)
    BY DEF UsersFrom
  <1>2. \A d : Belongs(d) => Belongs(d)'
    BY <1>1 DEF Belongs
  <1>3. UsersCalls' = UsersCalls \ {c}
    BY DEF UsersCalls
  <1>4. PageFits'
    <2>1. \A d \in UsersCalls' : Belongs(d)'
      BY <1>2, <1>3 DEF UsersInv, PageFits
    <2> QED
      BY <1>3, <2>1 DEF UsersInv, PageFits
  <1>5. ListsUsers'
    <2>1. CASE "users" \in lapses'
      BY <2>1 DEF ListsUsers
    <2>2. CASE "users" \notin lapses'
      <3>1. Deleting' = Deleting
        BY <1>3, <2>2 DEF Deleting
      <3> QED
        BY <3>1 DEF UsersInv, ListsUsers
    <2> QED
      BY <2>1, <2>2
  <1> QED
    BY <1>4, <1>5 DEF UsersInv

\* The first page arrives, or does not.
LEMMA UsersFirst ==
    ASSUME AdminInv, UsersInv, NEW c \in calls,
           FirstUsers(c) \/ FirstUsersFail(c)
    PROVE  UsersInv'
  <1>1. /\ c.op = "users" /\ calls' = calls \ {c} /\ users' = users
    BY DEF FirstUsers, FirstUsersFail, serverVars
  <1>2. c \in UsersCalls /\ Belongs(c)
    BY <1>1 DEF UsersCalls, UsersInv, PageFits
  <1>3. page.open /\ page.loading /\ ~page.error /\ c.user = Nothing
    BY <1>1, <1>2 DEF Belongs
  <1>4. UsersCalls = {c}
    BY <1>1, <1>2, <1>3 DEF UsersInv, PageFits, Belongs
  <1>5. UsersCalls' = {} /\ Deleting' = {}
    <2>1. UsersCalls' = {}
      BY <1>1, <1>4 DEF UsersCalls
    <2> QED
      BY <2>1 DEF Deleting
  <1>6. CASE FirstUsersFail(c)
    <2>1. /\ page'.open /\ page'.loading = FALSE /\ page'.error = TRUE
          /\ page'.list = page.list
      BY <1>3, <1>6 DEF FirstUsersFail, AdminInv, PageType
    <2>2. PageFits'
      BY <1>5, <2>1 DEF UsersInv, PageFits
    <2>3. ListsUsers'
      BY <2>1 DEF ListsUsers
    <2> QED
      BY <2>2, <2>3 DEF UsersInv
  <1>7. CASE FirstUsers(c)
    <2>1. /\ page'.open /\ page'.loading = FALSE /\ page'.error = page.error
          /\ page'.list = c.answer.data /\ page'.cursor = c.answer.nextCursor
          /\ page'.hasMore = c.answer.hasMore
          /\ c.stage = "done"
          /\ "users" \notin lapses' => c.fresh
      BY <1>3, <1>7 DEF FirstUsers, Told, AdminInv, PageType
    <2>2. /\ c.answer.data \in Seq(ToSet(Accounts))
          /\ c.fresh => c.answer = UsersFrom(Nothing)
      BY <1>1, <1>2, <1>3, <2>1 DEF Belongs
    <2>3. PageFits'
      BY <1>3, <1>5, <2>1, <2>2 DEF UsersInv, PageFits
    <2>4. ListsUsers'
      <3> SUFFICES ASSUME "users" \notin lapses'
                   PROVE  Listing(page'.list, page'.cursor, page'.hasMore,
                                  users', DOMAIN Accounts)
        BY <1>5 DEF ListsUsers
      <3>1. c.answer = UsersFrom(Nothing)
        BY <2>1, <2>2
      <3>2. Listing(c.answer.data, c.answer.nextCursor, c.answer.hasMore,
                    users, DOMAIN Accounts)
        BY <3>1, FirstPageIs
      <3> QED
        BY <1>1, <2>1, <3>2
    <2> QED
      BY <2>3, <2>4 DEF UsersInv
  <1> QED
    BY <1>6, <1>7

\* The next page goes on where the list ends.
LEMMA UsersMore ==
    ASSUME AdminInv, UsersInv, NEW c \in calls, MoreUsers(c)
    PROVE  UsersInv'
  <1> DEFINE D == users \cup Deleting
  <1>1. /\ c.op = "more" /\ c.stage = "done" /\ calls' = calls \ {c}
        /\ users' = users
        /\ page' = [page EXCEPT !.list = @ \o c.answer.data,
                                !.cursor = c.answer.nextCursor,
                                !.hasMore = c.answer.hasMore]
        /\ lapses' = IF c.fresh /\ c.user \in users
                     THEN lapses ELSE lapses \cup {"users"}
    BY DEF MoreUsers, serverVars
  <1>2. c \in UsersCalls /\ Belongs(c)
    BY <1>1 DEF UsersCalls, UsersInv, PageFits
  <1>3. /\ page.open /\ ~page.loading /\ ~page.error
        /\ c.user = page.cursor /\ c.user # Nothing
        /\ c.answer.data \in Seq(ToSet(Accounts))
        /\ c.fresh => c.answer = UsersFrom(c.user)
    BY <1>1, <1>2 DEF Belongs
  <1>4. /\ page'.open = page.open /\ page'.loading = page.loading
        /\ page'.error = page.error
        /\ page'.list = page.list \o c.answer.data
        /\ page'.cursor = c.answer.nextCursor
        /\ page'.hasMore = c.answer.hasMore
    BY <1>1 DEF AdminInv, PageType
  <1>5. UsersCalls' = UsersCalls \ {c} /\ Deleting' = Deleting
    <2>1. UsersCalls' = UsersCalls \ {c}
      BY <1>1 DEF UsersCalls
    <2> QED
      BY <1>1, <2>1 DEF Deleting
  <1>6. \A d \in UsersCalls' : d \in UsersCalls /\ d.op = "delete"
    <2>1. ASSUME NEW d \in UsersCalls \ {c}
          PROVE  d.op = "delete"
      <3>1. d.op # "more"
        BY <1>1, <1>2 DEF UsersInv, PageFits
      <3>2. d.op # "users"
        BY <1>3 DEF UsersInv, PageFits, Belongs
      <3> QED
        BY <3>1, <3>2 DEF UsersCalls
    <2> QED
      BY <1>5, <2>1
  <1>7. /\ page.list \in Seq(ToSet(Accounts))
        /\ page'.list \in Seq(ToSet(Accounts))
        /\ ToSet(page.list) \subseteq ToSet(page'.list)
    <2> DEFINE s == page.list
               t == c.answer.data
               u == s \o t
    <2>1. s \in Seq(ToSet(Accounts)) /\ t \in Seq(ToSet(Accounts))
      BY <1>3 DEF UsersInv, PageFits
    <2> HIDE DEF s, t
    <2>2. /\ u \in Seq(ToSet(Accounts)) /\ Len(u) = Len(s) + Len(t)
          /\ \A i \in 1 .. Len(s) + Len(t) :
               u[i] = IF i <= Len(s) THEN s[i] ELSE t[i - Len(s)]
          /\ Len(s) \in Nat /\ Len(t) \in Nat
      BY <2>1, ConcatProperties, LenProperties
    <2> HIDE DEF u
    <2>3. ASSUME NEW v \in ToSet(s)
          PROVE  v \in ToSet(u)
      <3>1. PICK i \in 1 .. Len(s) : v = s[i]
        BY <2>1, Elements
      <3>2. i \in 1 .. Len(u) /\ u[i] = v
        BY <2>2, <3>1
      <3> QED
        BY <2>2, <3>2, Elements
    <2> QED
      BY <1>4, <2>1, <2>2, <2>3 DEF s, t, u
  <1>8. PageFits'
    <2>1. \A d \in UsersCalls' : Belongs(d)'
      <3>1. \A d \in UsersCalls : Belongs(d)
        BY DEF UsersInv, PageFits
      <3> QED
        BY <1>3, <1>4, <1>6, <1>7, <3>1 DEF Belongs
    <2> QED
      BY <1>3, <1>4, <1>5, <1>7, <2>1 DEF UsersInv, PageFits
  <1>9. ListsUsers'
    <2> SUFFICES ASSUME "users" \notin lapses'
                 PROVE  /\ Deleting \cap users = {}
                        /\ Listing(page'.list, page'.cursor, page'.hasMore, D,
                                   DOMAIN Accounts)
      BY <1>1, <1>5 DEF ListsUsers
    <2>1. /\ lapses' = lapses /\ c.user \in users
          /\ c.answer = UsersFrom(c.user)
      BY <1>1, <1>3
    <2>2. /\ Deleting \cap users = {}
          /\ Listing(page.list, page.cursor, page.hasMore, D, DOMAIN Accounts)
      BY <1>3, <2>1 DEF UsersInv, ListsUsers
    <2>3. PICK m \in DOMAIN Accounts :
            /\ Accounts[m] = c.user
            /\ Len(page.list) = Cardinality(Upto(Where(D), m))
      BY <1>3, <2>2 DEF Listing, Reaches
    <2> DEFINE T == After(c.user)
               a == c.answer
    <2>4. Listing(a.data, a.nextCursor, a.hasMore, T, Where(T))
      BY <1>3, <2>1, NextPageIs
    <2>5. Where(T) = {i \in Where(users) : i > m}
      BY <2>3, AfterIs
    <2>6. ASSUME NEW i \in Where(D), Accounts[i] \in Deleting
          PROVE  ~(i > m)
      <3>1. PICK d \in UsersCalls : d.op = "delete" /\ d.user = Accounts[i]
        BY <2>6 DEF Deleting
      <3>2. Accounts[i] \in ToSet(page.list)
        BY <3>1 DEF UsersInv, PageFits, Belongs
      <3>3. PICK k \in 1 .. Len(page.list) : page.list[k] = Accounts[i]
        BY <1>7, <3>2, Elements
      <3>4. /\ Len(page.list) \in Nat /\ Cardinality(Where(D)) \in Nat
            /\ Len(page.list) <= Cardinality(Where(D))
            /\ page.list[k] = Accounts[Nth(Where(D), k)]
        BY <1>7, <2>2, <3>3, Elements, WhereIs DEF Listing, Starts
      <3>5. k \in 1 .. Cardinality(Where(D)) /\ k <= Len(page.list)
        BY <3>3, <3>4
      <3>6. Nth(Where(D), k) \in Where(D) /\ m \in Nat
        BY <3>5, NthIs, WhereIs, AccountsAre
      <3>7. Nth(Where(D), k) <= m
        BY <2>3, <3>5, <3>6, NthWithin, WhereIs
      <3>8. Nth(Where(D), k) = i
        BY <3>3, <3>4, <3>6, WhereIs, AccountsAre
      <3>9. i \in Nat
        BY WhereIs
      <3> QED
        BY <3>6, <3>7, <3>8, <3>9
    <2>7. Where(T) = {i \in Where(D) : i > m}
      BY <2>5, <2>6 DEF Where
    <2>8. Listing(page.list \o a.data, a.nextCursor, a.hasMore, D,
                  DOMAIN Accounts)
      <3>1. Starts(page.list, D)
        BY <2>2 DEF Listing
      <3> HIDE DEF D, T, a
      <3> QED
        BY <1>7, <2>3, <2>4, <2>7, <3>1, Joined
    <2> QED
      BY <1>4, <2>2, <2>8
  <1> QED
    BY <1>8, <1>9 DEF UsersInv

\* The page hears that a user is gone.
LEMMA UsersDeleted ==
    ASSUME AdminInv, UsersInv, NEW c \in calls, Deleted(c)
    PROVE  UsersInv'
  <1> DEFINE t == Filter(page.list, ToSet(page.list) \ {c.user})
  <1>1. /\ c.op = "delete" /\ c.stage = "done" /\ calls' = calls \ {c}
        /\ page' = IF c.mounted THEN [page EXCEPT !.list = t] ELSE page
        /\ UNCHANGED <<users, lapses>>
    BY DEF Deleted, serverVars
  <1>2. CASE ~c.mounted
    <2>1. c \notin UsersCalls
      BY <1>1, <1>2 DEF UsersCalls
    <2> QED
      BY <1>1, <1>2, <2>1, EndedApart, UsersKept
  <1>3. CASE c.mounted
    <2>1. c \in UsersCalls /\ Belongs(c)
      BY <1>1, <1>3 DEF UsersCalls, UsersInv, PageFits
    <2>2. /\ page.open /\ ~page.loading /\ ~page.error
          /\ c.user \in ToSet(page.list)
      BY <1>1, <2>1 DEF Belongs
    <2> HIDE DEF t
    <2>3. /\ page'.open = page.open /\ page'.loading = page.loading
          /\ page'.error = page.error /\ page'.list = t
          /\ page'.cursor = page.cursor /\ page'.hasMore = page.hasMore
      BY <1>1, <1>3 DEF AdminInv, PageType
    <2>4. UsersCalls' = UsersCalls \ {c}
      BY <1>1 DEF UsersCalls
    <2>5. \A d \in UsersCalls \ {c} : d.op # "delete"
      BY <1>1, <2>1 DEF UsersInv, PageFits
    <2>6. Deleting = {c.user} /\ Deleting' = {}
      <3>1. Deleting = {c.user}
        BY <1>1, <2>1, <2>5 DEF Deleting
      <3>2. Deleting' = {}
        BY <2>4, <2>5 DEF Deleting
      <3> QED
        BY <3>1, <3>2
    <2>7. t \in Seq(ToSet(Accounts))
      BY FilterIs DEF UsersInv, PageFits, t
    <2>8. PageFits'
      <3>1. \A d \in UsersCalls' : Belongs(d)'
        <4>1. \A x : UsersFrom(x)' = UsersFrom(x)
          BY <1>1 DEF UsersFrom
        <4>2. \A d \in UsersCalls : Belongs(d)
          BY DEF UsersInv, PageFits
        <4> QED
          BY <2>3, <2>4, <2>5, <4>1, <4>2 DEF Belongs
      <3> QED
        BY <2>2, <2>3, <2>4, <2>7, <3>1 DEF UsersInv, PageFits
    <2>9. ListsUsers'
      <3> SUFFICES ASSUME "users" \notin lapses
                   PROVE  Listing(t, page.cursor, page.hasMore, users,
                                  DOMAIN Accounts)
        BY <1>1, <2>3, <2>6 DEF ListsUsers
      <3> DEFINE D == users \cup Deleting
      <3>1. /\ c.user \notin users
            /\ Listing(page.list, page.cursor, page.hasMore, D,
                       DOMAIN Accounts)
        BY <2>2, <2>6 DEF UsersInv, ListsUsers
      <3>2. D \ {c.user} = users
        BY <2>6, <3>1
      <3> HIDE DEF D
      <3>3. Listing(t, page.cursor, page.hasMore, D \ {c.user},
                    DOMAIN Accounts)
        BY <2>2, <3>1, Dropped DEF t
      <3> QED
        BY <3>2, <3>3
    <2> QED
      BY <2>8, <2>9 DEF UsersInv
  <1> QED
    BY <1>2, <1>3

LEMMA UsersFails ==
    ASSUME AdminInv, UsersInv, NEW c \in calls,
           MoreUsersFail(c) \/ DeleteFails(c)
    PROVE  UsersInv'
  <1>1. /\ c.op \in {"more", "delete"} /\ calls' = calls \ {c}
        /\ UNCHANGED <<users, page>>
        /\ "users" \in lapses => "users" \in lapses'
        /\ (c.op = "delete" /\ c.mounted /\ c.stage = "done") =>
             "users" \in lapses'
    BY DEF MoreUsersFail, DeleteFails, serverVars
  <1>2. CASE c \in UsersCalls
    BY <1>1, <1>2, UsersEnd DEF UsersCalls
  <1>3. CASE c \notin UsersCalls
    BY <1>1, <1>3, EndedApart, UsersKept
  <1> QED
    BY <1>2, <1>3

LEMMA UsersNext == AdminInv /\ UsersInv /\ [Next]_vars => UsersInv'
  <1> SUFFICES ASSUME AdminInv, UsersInv, [Next]_vars
               PROVE  UsersInv'
    OBVIOUS
  <1>1. CASE UNCHANGED vars
    <2>1. UNCHANGED <<users, page, calls, lapses>>
      BY <1>1 DEF vars, serverVars
    <2>2. UsersCalls' = UsersCalls
      BY <2>1 DEF UsersCalls
    <2> QED
      BY <2>1, <2>2, UsersKept
  <1>2. ASSUME NEW tab \in {"flags", "users"}, Visit(tab)
        PROVE  UsersInv'
    BY <1>2, UsersVisit
  <1>3. CASE retry \/ reload \/ submit \/ clearAll \/ saveOverrides
    BY <1>3, ClicksApart
  <1>4. CASE Change \/ CancelEditor \/ CloseOverrides
    BY <1>4, EditsApart
  <1>5. CASE loadFirstPage \/ loadMore
    BY <1>5, UsersClicks
  <1>6. ASSUME NEW f \in Flags, Edit(f) \/ clear(f) \/ setRow(f)
        PROVE  UsersInv'
    BY <1>6, ClicksApart, EditsApart
  <1>7. ASSUME NEW u \in ToSet(Accounts), handleDelete(u) \/ OpenOverrides(u)
        PROVE  UsersInv'
    BY <1>7, ClicksApart, UsersClicks
  <1>8. ASSUME NEW c \in calls,
               \/ ServeRead(c) \/ ServeFlagWrite(c) \/ ServeDelete(c)
        PROVE  UsersInv'
    BY <1>8, UsersRead, UsersFlagWrite, UsersDelete
  <1>9. ASSUME NEW c \in calls,
               \/ Listed(c) \/ ListFails(c) \/ Reloaded(c) \/ ReloadFails(c)
               \/ Written(c) \/ WriteFails(c)
               \/ ReadOverrides(c) \/ ReadFails(c)
               \/ Overridden(c) \/ OverridesSaved(c) \/ OverrideFails(c)
        PROVE  UsersInv'
    BY <1>9, AnswersApart
  <1>10. ASSUME NEW c \in calls, FirstUsers(c) \/ FirstUsersFail(c)
         PROVE  UsersInv'
    BY <1>10, UsersFirst
  <1>11. ASSUME NEW c \in calls, MoreUsers(c) \/ MoreUsersFail(c)
         PROVE  UsersInv'
    BY <1>11, UsersMore, UsersFails
  <1>12. ASSUME NEW c \in calls, Deleted(c) \/ DeleteFails(c)
         PROVE  UsersInv'
    BY <1>12, UsersDeleted, UsersFails
  <1>13. CASE Foreign
    BY <1>13, UsersForeign
  <1> QED
    BY <1>1, <1>2, <1>3, <1>4, <1>5, <1>6, <1>7, <1>8, <1>9, <1>10, <1>11,
       <1>12, <1>13
    DEF Next

\* The users page and its requests fit together in every reachable state:
\* one request of a kind at a time, the next page asked for from where the
\* list ends, a deletion only of a user on the list, and the list the newest
\* of the server's users and of those the page is deleting (pages/admin).
THEOREM UsersInvariant == Spec => []UsersInv
  <1>1. Init => UsersInv
    BY UsersInit
  <1>2. AdminInv /\ UsersInv /\ [Next]_vars => UsersInv'
    BY UsersNext
  <1>3. Spec => []AdminInv
    BY AdminInvariant
  <1> QED
    BY <1>1, <1>2, <1>3, PTL DEF Spec

\* However pages are loaded, users deleted and tabs left while requests are
\* under way, a users page that waits for nothing shows the newest users
\* without a gap and offers more exactly if there are more, unless a change
\* was made elsewhere, an answer was lost or overtaken, or the user its next
\* page starts from is gone (loadMore and handleDelete of the users page).
THEOREM UsersStayListed == Spec => []UsersAreListed
  <1>1. UsersInv => UsersAreListed
    <2> SUFFICES ASSUME UsersInv, PageShown,
                        Under("more") \cup Under("delete") = {},
                        "users" \notin lapses
                 PROVE  LET rows == Filter(Accounts, users)
                        IN  /\ IsPrefix(page.list, rows)
                            /\ page.hasMore <=> Len(page.list) < Len(rows)
      BY DEF UsersAreListed
    <2>1. Deleting = {}
      BY DEF Deleting, UsersCalls, Under
    <2>2. Listing(page.list, page.cursor, page.hasMore, users,
                  DOMAIN Accounts)
      BY <2>1 DEF PageShown, UsersInv, ListsUsers
    <2>3. /\ page.list \in Seq(ToSet(Accounts)) /\ Starts(page.list, users)
          /\ page.hasMore <=> Len(page.list) < Cardinality(Where(users))
      BY <2>2 DEF Listing
    <2> QED
      BY <2>3, StartsIs, RowsAre
  <1>2. Spec => []UsersInv
    BY UsersInvariant
  <1> QED
    BY <1>1, <1>2, PTL

=============================================================================
