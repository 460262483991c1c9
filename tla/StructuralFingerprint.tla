------------------------ MODULE StructuralFingerprint ------------------------
(***************************************************************************)
(* The fingerprint of a recipe's structure, version 1                       *)
(* (services/recipe_fingerprints.py, recipe_structure_from_document and     *)
(* build_recipe_structure): what two recipes with one fingerprint share is  *)
(* all that the search for duplicates and "nothing changed since the        *)
(* source" go by.  Documents are those of module RecipeDocument; their      *)
(* prose is not looked at.                                                  *)
(*                                                                          *)
(* A measure is [mode, values, unit, package]: one value if exact, two if a *)
(* range, none if qualitative.  A unit is [key, dimension, family, rule];   *)
(* its rule, if it has one, [base, scale, offset].                          *)
(***************************************************************************)
EXTENDS Fractions, Sequences, SequencesExt, Bags

CONSTANTS Ingredients, None

Qualitative == {"to_taste", "as_needed", "unspecified"}

Dimensions(semantic) ==
    CASE semantic = "ingredient_amount" -> {"mass", "volume", "count", "package"}
      [] semantic = "duration" -> {"time"}
      [] semantic = "temperature" -> {"temperature"}

Converted(v, rule) == IF rule = None THEN v ELSE Times(Plus(v, rule.offset), rule.scale)

\* A unit with a reviewed rule gives way to its base.
CanonicalUnit(u) == [key |-> IF u.rule = None THEN u.key ELSE u.rule.base,
                     dimension |-> u.dimension, family |-> u.family,
                     reviewed |-> u.rule # None]

CanonicalMeasure(m) ==
    IF m = None \/ m.mode \in Qualitative THEN m
    ELSE [m EXCEPT !.unit = CanonicalUnit(@),
                   !.values = [i \in DOMAIN @ |-> Converted(@[i], m.unit.rule)]]

IsMeasure(m, semantic) ==
    LET values == CanonicalMeasure(m).values IN
    /\ m # None
    /\ \/ /\ m.mode \in Qualitative /\ semantic = "ingredient_amount"
          /\ m.values = <<>> /\ m.unit = None /\ m.package = None
       \/ /\ m.mode \in {"exact", "range"}
          /\ m.unit # None /\ m.unit.dimension \in Dimensions(semantic)
          /\ m.package # None => m.unit.dimension = "package"
          /\ Len(values) = IF m.mode = "exact" THEN 1 ELSE 2
          /\ semantic # "temperature" => Below(<<0, 1>>, values[1])
          /\ m.mode = "range" => Below(values[1], values[2])

\* ReviewedAffineConversion, CanonicalUnit, StructuralMeasure
IsRule(r) == /\ r = [base |-> r.base, scale |-> r.scale, offset |-> r.offset]
             /\ IsFraction(r.scale) /\ r.scale[1] > 0 /\ IsFraction(r.offset)
IsUnit(u) == /\ u = [key |-> u.key, dimension |-> u.dimension, family |-> u.family, rule |-> u.rule]
             /\ u.rule # None => IsRule(u.rule)
IsQuantity(m) ==
    /\ m = [mode |-> m.mode, values |-> m.values, unit |-> m.unit, package |-> m.package]
    /\ m.values \in Seq(Int \X Nat) /\ \A i \in DOMAIN m.values : IsFraction(m.values[i])
    /\ m.unit # None => IsUnit(m.unit)

\* A rule is reviewed only if it leads to a unit of the same dimension and family.
SameKind(u, w) ==
    u.rule # None /\ w.rule # None /\ u.rule.base = w.rule.base =>
        u.dimension = w.dimension /\ u.family = w.family

-----------------------------------------------------------------------------
Keys(d) == {d.ingredients[i].key : i \in DOMAIN d.ingredients}

\* The places of inputs: <<instruction, action, input>>, in the order of reading.
Paths(d) ==
    UNION {UNION {{<<i, a, n>> : n \in DOMAIN d.instructions[i].actions[a].inputs} :
                     a \in DOMAIN d.instructions[i].actions} : i \in DOMAIN d.instructions}

Earlier(u, v) == \E n \in 1..3 : u[n] < v[n] /\ \A m \in 1..(n - 1) : u[m] = v[m]

\* Where a row is used.
Uses(d, i) ==
    {u \in Paths(d) : d.instructions[u[1]].actions[u[2]].inputs[u[3]] = d.ingredients[i].key}

IsComplete(d) ==
    /\ d.ingredients # <<>> /\ d.instructions # <<>>
    /\ \A i \in DOMAIN d.ingredients :
         /\ d.ingredients[i].ingredient \in Ingredients
         /\ IsMeasure(d.ingredients[i].measure, "ingredient_amount")
         /\ \A j \in 1..(i - 1) : d.ingredients[j].key # d.ingredients[i].key
    /\ \A i \in DOMAIN d.instructions :
         /\ d.instructions[i].actions # <<>>
         /\ \A a \in ToSet(d.instructions[i].actions) :
              /\ a.type # None
              /\ ToSet(a.inputs) \subseteq Keys(d) /\ IsInjective(a.inputs)
              /\ a.duration # None => IsMeasure(a.duration, "duration")
              /\ a.temperature # None => IsMeasure(a.temperature, "temperature")

Core(row) == [ingredient |-> row.ingredient, measure |-> CanonicalMeasure(row.measure)]

\* The order of two rows' lists of uses: the list of an unused row is empty, and as two
\* rows share no use the first uses of others order theirs.
UsedBefore(d, i, j) ==
    /\ Uses(d, j) # {}
    /\ Uses(d, i) # {} => \E u \in Uses(d, i) : \A v \in Uses(d, j) : Earlier(u, v)

SlipInRowOrder(d, i) ==
    Cardinality({j \in 1..i : Core(d.ingredients[j]) = Core(d.ingredients[i])})

\* Rows of one core are numbered in the order they are used in, else in their own;
\* no number is that of the row itself.
Token(d, i) ==
    Cardinality({j \in DOMAIN d.ingredients :
        /\ Core(d.ingredients[j]) = Core(d.ingredients[i])
        /\ \/ UsedBefore(d, j, i)
           \/ ~UsedBefore(d, i, j) /\ j <= i})

Occurrence(d, key) ==
    LET i == CHOOSE j \in DOMAIN d.ingredients : d.ingredients[j].key = key
    IN [core |-> Core(d.ingredients[i]), token |-> Token(d, i)]

\* build_structural_fingerprint
Fingerprint(d) ==
    IF ~IsComplete(d) THEN None
    ELSE [ingredients |-> ToBag([i \in DOMAIN d.ingredients |-> Core(d.ingredients[i])]),
          instructions |-> [i \in DOMAIN d.instructions |->
              LET actions == d.instructions[i].actions IN
              [a \in DOMAIN actions |->
                  [type |-> actions[a].type,
                   inputs |-> [n \in DOMAIN actions[a].inputs |-> Occurrence(d, actions[a].inputs[n])],
                   duration |-> CanonicalMeasure(actions[a].duration),
                   temperature |-> CanonicalMeasure(actions[a].temperature)]]]]
=============================================================================
