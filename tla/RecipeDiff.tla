----------------------------- MODULE RecipeDiff -----------------------------
(***************************************************************************)
(* What changed between two published versions (services/recipe_diffs.py).  *)
(* Rows are told apart by their place: every version has rows of its own,   *)
(* and which of them are the same is what the comparison works out.         *)
(***************************************************************************)
EXTENDS Places, SequencesExt, FiniteSetsExt

CONSTANT Substitutes    \* the curated pairs <<ingredient, what may replace it>>

Distance(i, j) == IF i < j THEN j - i ELSE i - j

Nearest(i, C) ==
    CHOOSE j \in C : \A k \in C : \/ Distance(i, j) < Distance(i, k)
                                  \/ Distance(i, j) = Distance(i, k) /\ j <= k

\* _pair_exact_occurrences: each row of one side, the first of them first, takes the
\* nearest free one of the other side with the same signature, as the pairs in same have.
PairExact(before, after, same) ==
    LET Pairs[n \in Nat] ==
            IF n = 0 THEN {}
            ELSE LET free == {j \in after : <<n, j>> \in same /\ \A p \in Pairs[n - 1] : p[2] # j}
                 IN IF n \in before /\ free # {} THEN Pairs[n - 1] \cup {<<n, Nearest(n, free)>>}
                    ELSE Pairs[n - 1]
    IN Pairs[Max(before \cup {0})]

Lefts(pairs) == {p[1] : p \in pairs}
Rights(pairs) == {p[2] : p \in pairs}

\* The rest in order, as far as it goes.
PairRest(before, after) == {p \in before \X after : Rank(before, p[1]) = Rank(after, p[2])}

-----------------------------------------------------------------------------
(* Ingredients *)

IngredientSignature(r) == <<r.notes, r.measure>>

\* _pair_same_ingredients
SamePairs(b, t) ==
    LET Of(d, x) == {i \in DOMAIN d.ingredients : d.ingredients[i].ingredient = x}
        Pair(x) ==
            LET exact == PairExact(Of(b, x), Of(t, x), {p \in Of(b, x) \X Of(t, x) :
                    IngredientSignature(b.ingredients[p[1]]) = IngredientSignature(t.ingredients[p[2]])})
            IN exact \cup PairRest(Of(b, x) \ Lefts(exact), Of(t, x) \ Rights(exact))
    IN UNION {Pair(x) : x \in {r.ingredient : r \in ToSet(b.ingredients)}}

Unpaired(d, paired) == DOMAIN d.ingredients \ paired

MayReplace(b, t, i, j) ==
    <<b.ingredients[i].ingredient, t.ingredients[j].ingredient>> \in Substitutes

\* _replacement_candidate_order
Preference(b, t, i, j) ==
    LET measure == IF b.ingredients[i].measure # t.ingredients[j].measure THEN 1 ELSE 0
        notes == IF b.ingredients[i].notes # t.ingredients[j].notes THEN 1 ELSE 0
    IN <<measure + notes, measure, notes, Distance(i, j), j>>

\* The one of the free rows that is preferred for row i.
Preferred(b, t, i, free) ==
    CHOOSE j \in free : \A k \in free \ {j} :
        \E n \in 1..5 : /\ Preference(b, t, i, j)[n] < Preference(b, t, i, k)[n]
                        /\ \A l \in 1..(n - 1) : Preference(b, t, i, j)[l] = Preference(b, t, i, k)[l]

SlipTakeFree(b, t, after, search, i, s) ==
    LET free == {j \in after \ s.visited :
                    MayReplace(b, t, i, j) /\ \A p \in s.pairs : p[2] # j}
    IN IF free = {} THEN s
       ELSE [s EXCEPT !.pairs = @ \cup {<<i, Preferred(b, t, i, free)>>}, !.done = TRUE]

\* assign: row i takes, of the rows of t not visited yet, the one preferred of those that
\* are free or whose holder finds another.
Tried(b, t, after, search, i, s) ==
    LET untried == {j \in after \ s.visited : MayReplace(b, t, i, j)}
        j == Preferred(b, t, i, untried)
        seen == [s EXCEPT !.visited = @ \cup {j}]
        holder == {p \in s.pairs : p[2] = j}
        moved == IF holder = {} THEN [seen EXCEPT !.done = TRUE]
                 ELSE search[<<(CHOOSE p \in holder : TRUE)[1], seen>>]
    IN IF untried = {} THEN s
       ELSE IF moved.done
       THEN [moved EXCEPT !.pairs = {p \in @ : p[2] # j} \cup {<<i, j>>}]
       ELSE search[<<i, moved>>]

Searches(b, t) ==
    [pairs : SUBSET ((DOMAIN b.ingredients) \X (DOMAIN t.ingredients)),
     visited : SUBSET DOMAIN t.ingredients, done : BOOLEAN]

Assign(b, t, after) ==
    LET search[call \in (DOMAIN b.ingredients) \X Searches(b, t)] ==
            Tried(b, t, after, search, call[1], call[2])
    IN search

\* _pair_direct_substitutions: the rows in before, the first of them first, find one in after.
ReplacedPairs(b, t, before, after) ==
    LET Pairs[n \in Nat] ==
            IF n = 0 THEN {}
            ELSE IF n \in before
            THEN Assign(b, t, after)[<<n, [pairs |-> Pairs[n - 1], visited |-> {}, done |-> FALSE]>>].pairs
            ELSE Pairs[n - 1]
    IN Pairs[Max(before \cup {0})]

IngredientFields(r, s) == {f \in {"ingredient", "measure", "notes"} : r[f] # s[f]}

IngredientDiff(b, t) ==
    LET same == SamePairs(b, t)
        before == Unpaired(b, Lefts(same))
        after == Unpaired(t, Rights(same))
        replaced == ReplacedPairs(b, t, before, after)
    IN [modified |-> {p \in same : IngredientFields(b.ingredients[p[1]], t.ingredients[p[2]]) # {}},
        replaced |-> replaced,
        removed |-> before \ Lefts(replaced),
        added |-> after \ Rights(replaced)]

-----------------------------------------------------------------------------
(* Instructions *)

RowOf(d, key) == CHOOSE i \in DOMAIN d.ingredients : d.ingredients[i].key = key

\* _ingredient_reference_tokens: what an input is called on either side.
Reference(same, side, i) ==
    IF \E p \in same : p[side] = i THEN <<0, CHOOSE p \in same : p[side] = i>> ELSE <<side, i>>

Inputs(d, same, side, a) ==
    [n \in DOMAIN a.inputs |-> Reference(same, side, RowOf(d, a.inputs[n]))]

SlipTypesOnly(d, same, side, a) == [type |-> a.type, duration |-> a.duration,
                                    temperature |-> a.temperature]

ActionSignature(d, same, side, a) ==
    [type |-> a.type, inputs |-> Inputs(d, same, side, a),
     duration |-> a.duration, temperature |-> a.temperature]

StepSignature(d, same, side, i) ==
    LET step == d.instructions[i] IN
    <<step.text, [a \in DOMAIN step.actions |-> ActionSignature(d, same, side, step.actions[a])]>>

\* _pair_actions: those alike, then the rest type by type.
ActionPairs(b, t, same, x, y) ==
    LET exact == PairExact(DOMAIN x, DOMAIN y, {p \in (DOMAIN x) \X (DOMAIN y) :
            ActionSignature(b, same, 1, x[p[1]]) = ActionSignature(t, same, 2, y[p[2]])})
        Rest(type) == PairRest({m \in DOMAIN x \ Lefts(exact) : x[m].type = type},
                               {n \in DOMAIN y \ Rights(exact) : y[n].type = type})
    IN exact \cup UNION {Rest(a.type) : a \in ToSet(x)}

\* _instruction_changed_fields
StepFields(b, t, same, i, j) ==
    LET x == b.instructions[i].actions
        y == t.instructions[j].actions
        pairs == ActionPairs(b, t, same, x, y)
        typesChanged == ToBag([m \in DOMAIN x |-> x[m].type]) # ToBag([n \in DOMAIN y |-> y[n].type])
        Differ(f) == \E p \in pairs : x[p[1]][f] # y[p[2]][f]
    IN {f \in {"text", "actions", "inputs", "action_order", "duration", "temperature"} :
          CASE f = "text" -> b.instructions[i].text # t.instructions[j].text
            [] f = "actions" -> typesChanged
            [] f = "inputs" -> \E p \in pairs :
                    Inputs(b, same, 1, x[p[1]]) # Inputs(t, same, 2, y[p[2]])
            [] f = "action_order" -> ~typesChanged /\ \E p \in pairs : p[1] # p[2]
            [] OTHER -> Differ(f)}

InstructionDiff(b, t) ==
    LET same == SamePairs(b, t)
        exact == PairExact(DOMAIN b.instructions, DOMAIN t.instructions,
            {p \in (DOMAIN b.instructions) \X (DOMAIN t.instructions) :
                StepSignature(b, same, 1, p[1]) = StepSignature(t, same, 2, p[2])})
        before == DOMAIN b.instructions \ Lefts(exact)
        after == DOMAIN t.instructions \ Rights(exact)
        rest == PairRest(before, after)
    IN [modified |-> {p \in rest : StepFields(b, t, same, p[1], p[2]) # {}},
        removed |-> before \ Lefts(rest),
        added |-> after \ Rights(rest)]

\* build_recipe_diff
HasChanges(b, t) ==
    LET ingredients == IngredientDiff(b, t)
        instructions == InstructionDiff(b, t)
    IN \/ b.header # t.header
       \/ \E f \in DOMAIN ingredients : ingredients[f] # {}
       \/ \E f \in DOMAIN instructions : instructions[f] # {}
=============================================================================
