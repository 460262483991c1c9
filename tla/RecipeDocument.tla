--------------------------- MODULE RecipeDocument ---------------------------
(***************************************************************************)
(* The content of a recipe, as a draft or a version: ingredient rows that   *)
(* the actions of the instructions refer to by key.  How it is edited       *)
(* (frontend recipe-draft-editor-transforms.ts, recipe-draft-editor-        *)
(* state.ts, structured-action-editor.tsx), checked (recipe-draft.ts,       *)
(* structured-action.ts, services/recipe_drafts.py) and copied              *)
(* (services/recipe_documents.py).                                          *)
(*                                                                          *)
(* A key stands for a row's uuid: keys are only ever compared for equality. *)
(***************************************************************************)
EXTENDS StructuralFingerprint, Places, Functions

CONSTANTS ActionTypes,
          Requested,        \* a row that waits for a requested ingredient
          Headers,          \* title, description, ..., categories
          Notes, Texts,
          Amounts, Durations, Temperatures    \* measures

\* A row refers to an ingredient of the catalog or to a requested one, not to both.
ASSUME IngredientsAssumption == Requested \notin Ingredients

\* What the fields of the editor let through is a measure of its kind.
ASSUME MeasuresAssumption ==
    /\ \A m \in Amounts : IsMeasure(m, "ingredient_amount")
    /\ \A m \in Durations : IsMeasure(m, "duration")
    /\ \A m \in Temperatures : IsMeasure(m, "temperature")

\* None is no measure, not even a canonical one, and the rules of the catalog are reviewed.
ASSUME QuantitiesAssumption ==
    LET measures == Amounts \cup Durations \cup Temperatures
    IN /\ \A m \in measures : IsQuantity(m) /\ CanonicalMeasure(m) # None
       /\ \A m, n \in measures : m.unit # None /\ n.unit # None => SameKind(m.unit, n.unit)

RowsOver(keys) == [key : keys, ingredient : Ingredients \cup {Requested, None},
                   measure : Amounts \cup {None}, notes : Notes \cup {None}]
ActionsOver(keys) == [type : ActionTypes \cup {None}, inputs : Seq(keys),
                      duration : Durations \cup {None}, temperature : Temperatures \cup {None}]
StepsOver(keys) == [text : Texts \cup {None}, actions : Seq(ActionsOver(keys))]
Documents(keys) == [header : Headers, ingredients : Seq(RowsOver(keys)),
                    instructions : Seq(StepsOver(keys))]

NewKey(d) == CHOOSE k \in 1..(Len(d.ingredients) + 1) : k \notin Keys(d)

\* Steps whose actions are all made anew.
WithActions(steps, New(_)) ==
    [s \in DOMAIN steps |-> [steps[s] EXCEPT !.actions =
        [a \in DOMAIN steps[s].actions |-> New(steps[s].actions[a])]]]

\* The same content under other keys.
Renamed(d, name) ==
    LET Row(r) == [r EXCEPT !.key = name[r.key]]
        Action(a) == [a EXCEPT !.inputs = [n \in DOMAIN a.inputs |-> name[a.inputs[n]]]]
    IN [d EXCEPT !.ingredients = [i \in DOMAIN d.ingredients |-> Row(d.ingredients[i])],
                 !.instructions = WithActions(d.instructions, Action)]

Copied(d) == Renamed(d, [k \in Keys(d) |-> CHOOSE i \in DOMAIN d.ingredients :
                                                  d.ingredients[i].key = k])

\* What is copied on the way: a version is opened as a draft of it, a draft is stored, read
\* into the editor, and stored for good as a version.
FromVersion(d) == Copied(d)
Stored(d) == Copied(d)
Hydrated(d) == Copied(d)
Snapshot(d) == Copied(d)

-----------------------------------------------------------------------------
(* Editing *)

Moved(s, i) == [s EXCEPT ![i] = s[i + 1], ![i + 1] = s[i]]

\* createDraftIngredientState, createDraftInstructionState, createStructuredActionDraft
BlankRow(key) == [key |-> key, ingredient |-> None, measure |-> None, notes |-> None]
BlankStep == [text |-> None, actions |-> <<>>]
BlankAction == [type |-> None, inputs |-> <<>>, duration |-> None, temperature |-> None]

WithRow(d, i, row) == [d EXCEPT !.ingredients[i] = row]
WithStep(d, i, step) == [d EXCEPT !.instructions[i] = step]

\* removeDraftIngredient
WithoutRow(d, i) ==
    LET Others(a) == {n \in DOMAIN a.inputs : a.inputs[n] # d.ingredients[i].key}
        Left(a) == [a EXCEPT !.inputs = At(a.inputs, Others(a))]
    IN [d EXCEPT !.ingredients = RemoveAt(d.ingredients, i),
                 !.instructions = WithActions(d.instructions, Left)]

RowEdits(d) ==
    {WithRow(d, i, [d.ingredients[i] EXCEPT !.ingredient = x]) :
        i \in DOMAIN d.ingredients, x \in Ingredients \cup {Requested, None}}
    \cup {WithRow(d, i, [d.ingredients[i] EXCEPT !.measure = m]) :
        i \in DOMAIN d.ingredients, m \in Amounts \cup {None}}
    \cup {WithRow(d, i, [d.ingredients[i] EXCEPT !.notes = n]) :
        i \in DOMAIN d.ingredients, n \in Notes}
    \cup {WithoutRow(d, i) : i \in DOMAIN d.ingredients}
    \cup {[d EXCEPT !.ingredients = Moved(@, i)] : i \in 1..(Len(d.ingredients) - 1)}

AddedRow(d) == [d EXCEPT !.ingredients = Append(@, BlankRow(NewKey(d)))]

SlipOffersAll(d) == DOMAIN d.ingredients

\* draftIngredientOptions: the rows an action may use.
Options(d) == {i \in DOMAIN d.ingredients : d.ingredients[i].ingredient \in Ingredients}

KeysAt(d, rows) == At([i \in DOMAIN d.ingredients |-> d.ingredients[i].key], rows)

\* The inputs of the action editor's check boxes when that of a row is clicked: those
\* checked, in the order of the rows, and no others.
Toggled(d, inputs, row) ==
    KeysAt(d, {i \in Options(d) : (d.ingredients[i].key \in ToSet(inputs)) # (i = row)})

ActionEdits(d, actions) ==
    {[actions EXCEPT ![a].type = type] : a \in DOMAIN actions, type \in ActionTypes \cup {None}}
    \cup {[actions EXCEPT ![a].inputs = Toggled(d, @, row)] :
             a \in DOMAIN actions, row \in Options(d)}
    \cup {[actions EXCEPT ![a].duration = m] : a \in DOMAIN actions, m \in Durations \cup {None}}
    \cup {[actions EXCEPT ![a].temperature = m] :
             a \in DOMAIN actions, m \in Temperatures \cup {None}}
    \cup {RemoveAt(actions, a) : a \in DOMAIN actions}
    \cup {Moved(actions, a) : a \in 1..(Len(actions) - 1)}
    \cup {Append(actions, BlankAction)}

StepEdits(d) ==
    {WithStep(d, i, [d.instructions[i] EXCEPT !.text = x]) :
        i \in DOMAIN d.instructions, x \in Texts \cup {None}}
    \cup (UNION {{WithStep(d, i, [d.instructions[i] EXCEPT !.actions = actions]) :
                     actions \in ActionEdits(d, d.instructions[i].actions)} :
                     i \in DOMAIN d.instructions})
    \cup {[d EXCEPT !.instructions = RemoveAt(@, i)] : i \in DOMAIN d.instructions}
    \cup {[d EXCEPT !.instructions = Moved(@, i)] : i \in 1..(Len(d.instructions) - 1)}

AddedStep(d) == [d EXCEPT !.instructions = Append(@, BlankStep)]

-----------------------------------------------------------------------------
(* What is required of it *)

ActionsOf(d) == UNION {ToSet(d.instructions[i].actions) : i \in DOMAIN d.instructions}

\* validateRecipeDraft, validateStructuredActionDrafts: what the editor sends.
Sendable(d) ==
    /\ \A i \in DOMAIN d.ingredients : d.ingredients[i].ingredient # None
    /\ \A a \in ActionsOf(d) : /\ a.type # None
                               /\ ToSet(a.inputs) \subseteq {d.ingredients[i].key : i \in Options(d)}
                               /\ IsInjective(a.inputs)

\* validateRecipeDraftForPublication: what it asks to publish.
Presentable(d) ==
    /\ Sendable(d)
    /\ d.ingredients # <<>> /\ d.instructions # <<>>
    /\ \A i \in DOMAIN d.ingredients : /\ d.ingredients[i].measure # None
                                       /\ d.ingredients[i].ingredient # Requested
    /\ \A i \in DOMAIN d.instructions : /\ d.instructions[i].text # None
                                        /\ d.instructions[i].actions # <<>>

\* RecipeDraftUpdateRequest, _validate_document, _document_ids: what the server saves.
Acceptable(d) ==
    /\ \A i, j \in DOMAIN d.ingredients : i # j => d.ingredients[i].key # d.ingredients[j].key
    /\ \A i \in DOMAIN d.ingredients : d.ingredients[i].ingredient \in Ingredients \cup {Requested}
    /\ \A a \in ActionsOf(d) :
         /\ a.type \in ActionTypes /\ IsInjective(a.inputs)
         /\ \A k \in ToSet(a.inputs) : \E i \in DOMAIN d.ingredients :
                d.ingredients[i].key = k /\ d.ingredients[i].ingredient # Requested

\* _prepare_locked_recipe_draft_content, materialize_immutable_recipe_document: what it
\* publishes, if it has a fingerprint.
Publishable(d) ==
    /\ d.ingredients # <<>> /\ d.instructions # <<>>
    /\ \A i \in DOMAIN d.ingredients : /\ d.ingredients[i].ingredient \in Ingredients
                                       /\ d.ingredients[i].measure # None
    /\ \A i \in DOMAIN d.instructions : /\ d.instructions[i].text # None
                                        /\ d.instructions[i].actions # <<>>
=============================================================================
