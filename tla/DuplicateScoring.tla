-------------------------- MODULE DuplicateScoring --------------------------
(***************************************************************************)
(* How alike two recipes are (services/recipe_duplicate_scoring.py), from   *)
(* their fingerprints: scores are exact fractions.                          *)
(***************************************************************************)
EXTENDS StructuralFingerprint, FiniteSetsExt

\* Counter(...): how often a family has each of its values.
Counter(F) == [x \in Range(F) |-> Cardinality({o \in DOMAIN F : F[o] = x})]

\* What a bag has, told apart by number.
Copies(B) == UNION {{x} \X (1..B[x]) : x \in DOMAIN B}

\* How much two bags share: Counter & Counter.
Shared(B, C) == Cardinality(Copies(B) \cap Copies(C))

Dice(matched, m, n) == IF m + n = 0 THEN One ELSE Fraction(2 * matched, m + n)

-----------------------------------------------------------------------------
(* Ingredients and quantities *)

Occurrences(f) == Copies(f.ingredients)

MatchScore(matched, f, g) ==
    Dice(matched, Cardinality(Occurrences(f)), Cardinality(Occurrences(g)))

Identities(f) == Counter([o \in Occurrences(f) |-> o[1].ingredient])

IngredientScore(f, g) == MatchScore(Shared(Identities(f), Identities(g)), f, g)

Comparable(m, n) ==
    /\ m.values # <<>> /\ n.values # <<>>
    /\ m.mode = n.mode /\ m.unit = n.unit /\ m.package = n.package

\* Pairs of amounts for one ingredient: <<core, core, which value of a range>>.
AmountPairs(f, g) ==
    {p \in (DOMAIN f.ingredients) \X (DOMAIN g.ingredients) \X (1..2) :
        /\ p[1].ingredient = p[2].ingredient
        /\ Comparable(p[1].measure, p[2].measure)
        /\ p[3] \in DOMAIN p[1].measure.values}

SlipScalesBack(f, g) ==
    {One} \cup {Over(p[1].measure.values[p[3]], p[2].measure.values[p[3]]) : p \in AmountPairs(f, g)}

\* The factors by which some amount of f becomes one of g for the same ingredient.
CandidateScales(f, g) ==
    {One} \cup {Over(p[2].measure.values[p[3]], p[1].measure.values[p[3]]) : p \in AmountPairs(f, g)}

Scaled(core, scale) ==
    [core EXCEPT !.measure.values = [v \in DOMAIN @ |-> Times(@[v], scale)]]

ScaledCores(f, scale) == Counter([o \in Occurrences(f) |-> Scaled(o[1], scale)])

QuantityMatches(f, g, scale) == Shared(ScaledCores(f, scale), ScaledCores(g, One))

\* The scale that matches most, scale one if it is among them, else the smallest.
MatchesMost(f, g) ==
    {s \in CandidateScales(f, g) :
        \A t \in CandidateScales(f, g) : QuantityMatches(f, g, t) <= QuantityMatches(f, g, s)}

BestScale(f, g) ==
    LET best == MatchesMost(f, g) IN
    IF One \in best THEN One ELSE CHOOSE s \in best : \A t \in best : ~Below(t, s)

QuantityScore(f, g) == MatchScore(QuantityMatches(f, g, BestScale(f, g)), f, g)

-----------------------------------------------------------------------------
(* Actions *)

\* _lcs_length: the longest common subsequence.
LcsLength(s, t) ==
    LET L[p \in (0..Len(s)) \X (0..Len(t))] ==
            LET i == p[1] j == p[2] IN
            IF i = 0 \/ j = 0 THEN 0
            ELSE IF s[i] = t[j] THEN L[<<i - 1, j - 1>>] + 1
            ELSE Max({L[<<i - 1, j>>], L[<<i, j - 1>>]})
    IN L[<<Len(s), Len(t)>>]

Actions(f) == FlattenSeq(f.instructions)

ActionVerbs(f) == [a \in DOMAIN Actions(f) |-> Actions(f)[a].type]

ActionInputs(f) ==
    FlattenSeq([a \in DOMAIN Actions(f) |->
        [n \in DOMAIN Actions(f)[a].inputs |->
            <<Actions(f)[a].type, Actions(f)[a].inputs[n].core.ingredient>>]])

ActionParameters(f) ==
    [a \in DOMAIN Actions(f) |->
        <<Actions(f)[a].type, Actions(f)[a].duration, Actions(f)[a].temperature>>]

LcsScore(s, t) == Dice(LcsLength(s, t), Len(s), Len(t))

-----------------------------------------------------------------------------
(* The score *)

Weighed(w, p) == Times(<<w, 100>>, p)

ActionScore(f, g) ==
    Plus(Plus(Weighed(50, LcsScore(ActionVerbs(f), ActionVerbs(g))),
              Weighed(30, LcsScore(ActionInputs(f), ActionInputs(g)))),
         Weighed(20, LcsScore(ActionParameters(f), ActionParameters(g))))

Score(f, g) ==
    Plus(Plus(Weighed(45, IngredientScore(f, g)), Weighed(25, QuantityScore(f, g))),
         Weighed(30, ActionScore(f, g)))

Threshold == <<4, 5>>

\* recipe_duplicate_fingerprints_are_exact, score_recipe_duplicate_candidates
Classification(f, g) ==
    IF f = g THEN "exact_duplicate"
    ELSE IF Below(Score(f, g), Threshold) THEN "distinct" ELSE "probable_duplicate"

\* _reasons, but for the ingredients'.
QuantityReason(f, g) ==
    LET score == QuantityScore(f, g) IN
    CASE score = One /\ BestScale(f, g) # One -> "proportionally_scaled_quantities"
      [] score = One /\ BestScale(f, g) = One -> "matching_quantities"
      [] score # One /\ Below(<<0, 1>>, score) -> "partially_matching_quantities"
      [] OTHER -> "different_quantities"

ActionReason(f, g) ==
    CASE ActionScore(f, g) = One -> "matching_structured_actions"
      [] ActionScore(f, g) # One /\ ToBag(ActionVerbs(f)) # ToBag(ActionVerbs(g)) ->
            "different_action_types"
      [] OTHER ->
            IF LcsScore(ActionVerbs(f), ActionVerbs(g)) # One THEN "different_action_order"
            ELSE IF LcsScore(ActionInputs(f), ActionInputs(g)) # One THEN "different_ordered_inputs"
            ELSE "different_duration_or_temperature"
=============================================================================
