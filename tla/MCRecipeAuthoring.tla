-------------------------- MODULE MCRecipeAuthoring --------------------------
(* Model checking of RecipeAuthoring.  Units and their rules are those of         *)
(* backend/app/seeds/data/measurements-v1.json.                                   *)
EXTENDS RecipeAuthoring

CONSTANTS ia, ib, ic, id,    \* ingredients
          Mix, Bake,         \* action types
          note, t1, t2       \* a note, texts

Rule(base_unit, scale, offset) == [base |-> base_unit, scale |-> scale, offset |-> offset]
Unit(key, dimension, rule) ==
    [key |-> key, dimension |-> dimension, family |-> dimension, rule |-> rule]
Zero == <<0, 1>>

Gram == Unit("gram", "mass", Rule("gram", <<1, 1>>, Zero))
Kilogram == Unit("kilogram", "mass", Rule("gram", <<1000, 1>>, Zero))
Minute == Unit("minute", "time", Rule("second", <<60, 1>>, Zero))
Second == Unit("second", "time", Rule("second", <<1, 1>>, Zero))
Celsius == Unit("celsius", "temperature", Rule("celsius", <<1, 1>>, Zero))
Fahrenheit == Unit("fahrenheit", "temperature", Rule("celsius", <<5, 9>>, <<-32, 1>>))

Exactly(v, unit) == [mode |-> "exact", values |-> <<v>>, unit |-> unit, package |-> None]
Between(v, w, unit) == [mode |-> "range", values |-> <<v, w>>, unit |-> unit, package |-> None]
ToTaste == [mode |-> "to_taste", values |-> <<>>, unit |-> None, package |-> None]

MCIngredients == {ia, ib, ic, id}
MCSubstitutes == {<<ia, ic>>, <<ia, id>>, <<ib, ic>>}
MCNotes == {None, note}
MCAmounts == {Exactly(<<500, 1>>, Gram), Exactly(<<1, 2>>, Kilogram), Exactly(<<1, 1>>, Kilogram),
              Between(<<250, 1>>, <<500, 1>>, Gram), Between(<<1, 2>>, <<1, 1>>, Kilogram), ToTaste}
MCDurations == {Exactly(<<1, 1>>, Minute), Exactly(<<60, 1>>, Second)}
MCTemperatures == {Exactly(<<200, 1>>, Celsius), Exactly(<<392, 1>>, Fahrenheit)}

Row(key, ingredient, measure) ==
    [key |-> key, ingredient |-> ingredient, measure |-> measure, notes |-> None]
HalfKilo == Exactly(<<500, 1>>, Gram)
Step(text, actions) == [text |-> text, actions |-> actions]
Action(type, inputs, duration, temperature) ==
    [type |-> type, inputs |-> inputs, duration |-> duration, temperature |-> temperature]

MCFactors == {Fraction(m, n) : m, n \in 1..3}

\* Two ingredients; two rows alike that are used in different steps.
MCVersions ==
    {[header |-> t1, ingredients |-> <<Row(1, ia, HalfKilo), Row(2, ib, Between(<<250, 1>>, <<500, 1>>, Gram))>>,
      instructions |-> <<Step(t1, <<Action(Mix, <<1, 2>>, Exactly(<<1, 1>>, Minute),
                                          Exactly(<<200, 1>>, Celsius))>>)>>],
     [header |-> t1, ingredients |-> <<Row(1, ia, HalfKilo), Row(2, ia, HalfKilo)>>,
      instructions |-> <<Step(t1, <<Action(Mix, <<1>>, None, None)>>),
                         Step(t1, <<Action(Mix, <<2>>, None, None)>>)>>]}
=============================================================================
