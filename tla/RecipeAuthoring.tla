--------------------------- MODULE RecipeAuthoring ---------------------------
(***************************************************************************)
(* A published version is opened as a draft of an adaptation or revision,   *)
(* edited one change at a time, saved, and published; the new version is    *)
(* compared with the old in the three ways the program has: fingerprint,    *)
(* similarity and difference.                                               *)
(***************************************************************************)
EXTENDS RecipeDocument, DuplicateScoring, RecipeDiff

CONSTANTS Versions,      \* published versions to start from
          Factors,       \* scales to compare with the one chosen
          MaxEdits, MaxRows, MaxSteps, MaxActions     \* bounds

VARIABLES
    base,        \* the version the draft is of
    draft,       \* the draft on the member's screen
    saved,       \* whether the server has it
    target,      \* the version published from it, or None
    edits        \* edits so far

vars == <<base, draft, saved, target, edits>>

ASSUME VersionsAssumption ==
    \A v \in Versions : v \in Documents(Nat) /\ Publishable(v) /\ IsComplete(v)

ASSUME FactorsAssumption == \A s \in Factors : IsFraction(s) /\ Below(<<0, 1>>, s)

ASSUME BoundsAssumption == {MaxEdits, MaxRows, MaxSteps, MaxActions} \subseteq Nat

TypeOK == /\ base \in Versions
          /\ draft \in Documents(Nat)
          /\ saved \in BOOLEAN
          /\ target \in Documents(Nat) \cup {None}
          /\ edits \in 0..MaxEdits

Init == /\ base \in Versions
        /\ draft = Hydrated(Stored(FromVersion(base)))
        /\ saved = TRUE
        /\ target = None
        /\ edits = 0

Change(d) == /\ target = None
             /\ d # draft
             /\ edits < MaxEdits /\ edits' = edits + 1
             /\ draft' = d
             /\ saved' = FALSE
             /\ UNCHANGED <<base, target>>

ChangeHeader == \E h \in Headers : Change([draft EXCEPT !.header = h])

EditRow == \E d \in RowEdits(draft) : Change(d)

AddRow == Len(draft.ingredients) < MaxRows /\ Change(AddedRow(draft))

EditStep == \E d \in StepEdits(draft) :
    /\ \A i \in DOMAIN d.instructions : Len(d.instructions[i].actions) <= MaxActions
    /\ Change(d)

AddStep == Len(draft.instructions) < MaxSteps /\ Change(AddedStep(draft))

\* Saving gives every row another key.
Save == /\ target = None /\ ~saved
        /\ Sendable(draft) /\ Acceptable(draft)
        /\ draft' = Hydrated(Stored(draft))
        /\ saved' = TRUE
        /\ UNCHANGED <<base, target, edits>>

Publish == /\ target = None /\ saved
           /\ Presentable(draft) /\ Publishable(draft) /\ IsComplete(draft)
           /\ target' = Snapshot(draft)
           /\ UNCHANGED <<base, draft, saved, edits>>

Next == ChangeHeader \/ EditRow \/ AddRow \/ EditStep \/ AddStep \/ Save \/ Publish

Spec == Init /\ [][Next]_vars

-----------------------------------------------------------------------------
(* Correctness *)

\* What the editor lets a member save the server saves, and what it lets one publish has
\* everything a fingerprint needs.
EditorAgreesWithServer ==
    /\ Sendable(draft) => Acceptable(draft)
    /\ Presentable(draft) => Publishable(draft) /\ IsComplete(draft)

\* Two measures of one amount, whatever unit they are written in.
SameAmount(m, n) ==
    LET Base(v, u) == IF u.rule = None THEN <<v[1], v[2]>>
                      ELSE <<(v[1] * u.rule.offset[2] + u.rule.offset[1] * v[2]) * u.rule.scale[1],
                             v[2] * u.rule.offset[2] * u.rule.scale[2]>>
    IN \/ m = n
       \/ /\ m # None /\ n # None
          /\ m.mode = n.mode /\ m.package = n.package /\ Len(m.values) = Len(n.values)
          /\ m.unit # None /\ n.unit # None
          /\ \/ m.unit = n.unit
             \/ /\ m.unit.rule # None /\ n.unit.rule # None
                /\ m.unit.rule.base = n.unit.rule.base
          /\ \A i \in DOMAIN m.values :
               LET p == Base(m.values[i], m.unit) q == Base(n.values[i], n.unit)
               IN p[1] * q[2] = q[1] * p[2]

\* The steps of e are those of d once its rows are called as f does.
SameSteps(d, e, f) ==
    /\ Len(d.instructions) = Len(e.instructions)
    /\ \A i \in DOMAIN d.instructions :
         LET x == d.instructions[i].actions y == e.instructions[i].actions IN
         /\ Len(x) = Len(y)
         /\ \A a \in DOMAIN x :
              /\ x[a].type = y[a].type
              /\ y[a].inputs = [n \in DOMAIN x[a].inputs |-> f[x[a].inputs[n]]]
              /\ SameAmount(x[a].duration, y[a].duration)
              /\ SameAmount(x[a].temperature, y[a].temperature)

SameStructure(d, e) ==
    \E f \in Bijection(Keys(d), Keys(e)) :
        /\ \A i \in DOMAIN d.ingredients, j \in DOMAIN e.ingredients :
              f[d.ingredients[i].key] = e.ingredients[j].key =>
                  /\ d.ingredients[i].ingredient = e.ingredients[j].ingredient
                  /\ SameAmount(d.ingredients[i].measure, e.ingredients[j].measure)
        /\ SameSteps(d, e, f)

\* Two recipes have one fingerprint if and only if they differ in nothing but prose, the
\* order and keys of their ingredient rows and the units amounts are written in.
FingerprintIsCanonical ==
    IsComplete(draft) =>
        /\ \A name \in Bijection(Keys(draft), Keys(draft)) :
              Fingerprint(Renamed(draft, name)) = Fingerprint(draft)
        /\ (Fingerprint(draft) = Fingerprint(base)) <=> SameStructure(base, draft)

-----------------------------------------------------------------------------
\* The length of the longest common subsequence: of the most pairs of like elements no two
\* of which cross.
CommonLength(s, t) ==
    LET Alike == {p \in (DOMAIN s) \X (DOMAIN t) : s[p[1]] = t[p[2]]}
        Parallel(M) == \A p, q \in M : p[1] < q[1] <=> p[2] < q[2]
    IN Max({Cardinality(M) : M \in {M \in SUBSET Alike : Parallel(M)}})

\* Scores do not depend on which recipe comes first; no scale matches more amounts than
\* the one chosen; a recipe is wholly like itself also by its components; and only a
\* recipe with all amounts multiplied is called scaled.
ScoresAreFair ==
    LET f == Fingerprint(base) g == Fingerprint(draft) IN
    IsComplete(draft) =>
        /\ Score(f, g) = Score(g, f)
        /\ \A s \in Factors : QuantityMatches(f, g, s) <= QuantityMatches(f, g, BestScale(f, g))
        /\ LcsLength(ActionInputs(f), ActionInputs(g)) =
               CommonLength(ActionInputs(f), ActionInputs(g))
        /\ f = g => Score(f, g) = One /\ ActionReason(f, g) = "matching_structured_actions"
        /\ QuantityReason(f, g) = "proportionally_scaled_quantities" <=>
               /\ f.ingredients # g.ingredients
               /\ \E s \in Factors \cup CandidateScales(f, g) :
                    ScaledCores(f, s) = g.ingredients

-----------------------------------------------------------------------------
\* Every row and instruction of one is one of the other, with the same actions on the
\* same rows, in whatever order.
SameContent(b, t) ==
    /\ b.header = t.header
    /\ \E f \in Bijection(DOMAIN b.ingredients, DOMAIN t.ingredients),
          g \in Bijection(DOMAIN b.instructions, DOMAIN t.instructions) :
        LET name == [k \in Keys(b) |-> t.ingredients[f[RowOf(b, k)]].key] IN
        /\ \A i \in DOMAIN b.ingredients :
             [b.ingredients[i] EXCEPT !.key = name[@]] = t.ingredients[f[i]]
        /\ \A i \in DOMAIN b.instructions :
             Renamed(b, name).instructions[i] = t.instructions[g[i]]

\* A comparison that shows no change means the same content, and content in the same
\* order, whatever the keys of its rows, compares without a change.
NoChangeMeansSame ==
    target # None =>
        /\ ~HasChanges(base, target) => SameContent(base, target)
        /\ Copied(target) = Copied(base) => ~HasChanges(base, target)

\* As many rows as can be are shown as replaced by what may replace them, none twice.
ReplacementsAreMost ==
    target # None =>
        LET same == SamePairs(base, target)
            edges == {e \in Unpaired(base, Lefts(same)) \X Unpaired(target, Rights(same)) :
                        <<base.ingredients[e[1]].ingredient,
                          target.ingredients[e[2]].ingredient>> \in Substitutes}
            Matching(M) == \A p, q \in M : p # q => p[1] # q[1] /\ p[2] # q[2]
            replaced == IngredientDiff(base, target).replaced
        IN /\ replaced \subseteq edges /\ Matching(replaced)
           /\ \A M \in SUBSET edges : Matching(M) => Cardinality(M) <= Cardinality(replaced)
=============================================================================
