---------------------------- MODULE RecipeHistory ----------------------------
(***************************************************************************)
(* What publishing promises its readers, without drafts, locks, requests   *)
(* or duplicate checks: every recipe is one author's line of editions that *)
(* only grows at its end, an adaptation names the version it came from for *)
(* good, and a new version appears whole, readable and current, in one     *)
(* step, together with the withdrawal of the edition it corrects.          *)
(***************************************************************************)
EXTENDS Integers, Sequences

CONSTANTS Members, Versions, None

VARIABLES editions,  \* of each recipe, named by its first version, oldest first
          owner,     \* who published a version
          origin,    \* the version a recipe was adapted from
          shown      \* the versions anybody may read

vars == <<editions, owner, origin, shown>>

Init == /\ editions = [r \in Versions |-> <<>>]
        /\ owner = [v \in Versions |-> None]
        /\ origin = [r \in Versions |-> None]
        /\ shown = {}

Edition(v) == \E r \in Versions : \E i \in 1..Len(editions[r]) : editions[r][i] = v

Start(m, v, from) ==
    /\ ~Edition(v)
    /\ from \in shown \cup {None}
    /\ editions' = [editions EXCEPT ![v] = <<v>>]
    /\ owner' = [owner EXCEPT ![v] = m]
    /\ origin' = [origin EXCEPT ![v] = from]
    /\ shown' = shown \cup {v}

\* handOver: the edition revised is withdrawn in favour of its correction.
Revise(m, r, v, handOver) ==
    LET line == editions[r]
        head == line[Len(line)]
    IN  /\ line # <<>>
        /\ owner[head] = m
        /\ head \in shown
        /\ ~Edition(v)
        /\ editions' = [editions EXCEPT ![r] = Append(line, v)]
        /\ shown' = (shown \ (IF handOver THEN {head} ELSE {})) \cup {v}
        /\ owner' = [owner EXCEPT ![v] = m]
        /\ UNCHANGED origin

Show(v) == /\ Edition(v)
           /\ shown' = shown \cup {v}
           /\ UNCHANGED <<editions, owner, origin>>

Hide(v) == /\ shown' = shown \ {v}
           /\ UNCHANGED <<editions, owner, origin>>

Next == \/ \E m \in Members, v \in Versions, from \in Versions \cup {None} : Start(m, v, from)
        \/ \E m \in Members, r, v \in Versions, handOver \in BOOLEAN : Revise(m, r, v, handOver)
        \/ \E v \in Versions : Show(v) \/ Hide(v)

Spec == Init /\ [][Next]_vars
=============================================================================
