SPECIFICATION Spec
CONSTANTS
    None = None
    Requested = Requested
    ia = ia
    ib = ib
    ic = ic
    id = id
    Mix = Mix
    Bake = Bake
    note = note
    t1 = t1
    t2 = t2
    ActionTypes = {Mix, Bake}
    Headers = {t1, t2}
    Texts = {t1, t2}
    Ingredients <- MCIngredients
    Substitutes <- MCSubstitutes
    Notes <- MCNotes
    Amounts <- MCAmounts
    Durations <- MCDurations
    Temperatures <- MCTemperatures
    Versions <- MCVersions
    Factors <- MCFactors
    MaxEdits = 3
    MaxRows = 3
    MaxSteps = 2
    MaxActions = 2
CHECK_DEADLOCK FALSE
INVARIANTS EditorAgreesWithServer FingerprintIsCanonical ScoresAreFair NoChangeMeansSame ReplacementsAreMost
