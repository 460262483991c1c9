-------------------------- MODULE PublicationHistory --------------------------
(***************************************************************************)
(* Publication implements RecipeHistory: the tables read as histories.     *)
(***************************************************************************)
EXTENDS Publication, Sequences

\* The edition rows of recipe r, in edition order.
EditionRows(r) == {v \in Published : versions[v].recipe = r}

EditionLine(r) ==
    [n \in 1..Cardinality(EditionRows(r)) |->
        CHOOSE v \in EditionRows(r) : versions[v].edition = n]

Owner(v)  == IF v \in Published THEN versions[v].author ELSE None
Origin(v) == IF v \in Published THEN versions[v].parent ELSE None

History == INSTANCE RecipeHistory
               WITH editions <- [r \in Versions |-> EditionLine(r)],
                    owner    <- [v \in Versions |-> Owner(v)],
                    origin   <- [v \in Versions |-> Origin(v)],
                    shown    <- Public

\* Every publication transaction, with all the tables it writes and whatever it
\* interleaves with, is to a reader one of the few steps of RecipeHistory.
RefinesHistory == History!Spec
=============================================================================
