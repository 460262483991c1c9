------------------------ MODULE RecipeAuthoring_proofs ------------------------
(***************************************************************************)
(* Proofs about the content of recipes, for every catalog, every set of     *)
(* versions to start from and every length of rows and steps.               *)
(***************************************************************************)
EXTENDS RecipeAuthoring, FiniteSetTheorems, SequenceTheorems, TLAPS

-----------------------------------------------------------------------------
(* Places in order *)

\* A set of numbers that has one has a least one.
LEMMA LeastOf ==
    ASSUME NEW S, S \subseteq Nat, S # {}
    PROVE  \E x \in S : \A y \in S : x <= y
<1>1. PICK x \in S : \A y \in S : ~(<<y, x>> \in OpToRel(<, Nat))
  BY NatLessThanWellFounded, WFMin, Zenon
<1>2. \A y \in S : ~(y < x)
  BY <1>1 DEF OpToRel
<1> QED BY <1>2

\* A place has one number, and a later place a larger one.
LEMMA RanksOf ==
    ASSUME NEW S, S \subseteq Nat, IsFiniteSet(S)
    PROVE  /\ \A i \in S : Rank(S, i) \in 1..Cardinality(S)
           /\ \A i, j \in S : i < j => Rank(S, i) < Rank(S, j)
<1> DEFINE Upto(i) == {j \in S : j <= i}
<1>1. ASSUME NEW i \in S
      PROVE  /\ IsFiniteSet(Upto(i))
             /\ Cardinality(Upto(i)) \in Nat
             /\ Cardinality(Upto(i)) >= 1
             /\ Cardinality(Upto(i)) <= Cardinality(S)
             /\ Cardinality(S) \in Nat
  <2>1. IsFiniteSet(Upto(i)) /\ Cardinality(Upto(i)) <= Cardinality(S)
    <3>1. Upto(i) \in SUBSET S
      OBVIOUS
    <3> QED BY <3>1, FS_Subset
  <2>2. Cardinality(Upto(i)) \in Nat /\ Cardinality(S) \in Nat
    BY <2>1, FS_CardinalityType
  <2>3. Upto(i) # {}
    <3>1. i \in Upto(i)
      OBVIOUS
    <3> QED BY <3>1
  <2>4. Cardinality(Upto(i)) # 0
    BY <2>1, <2>3, FS_EmptySet
  <2> QED BY <2>1, <2>2, <2>4
<1>2. ASSUME NEW i \in S, NEW j \in S, i < j
      PROVE  Cardinality(Upto(i)) < Cardinality(Upto(j))
  <2>1. Upto(i) \in SUBSET Upto(j) /\ j \in Upto(j) /\ j \notin Upto(i)
    <3>1. i \in Nat /\ j \in Nat
      OBVIOUS
    <3>2. \A k \in S : k \in Nat /\ (k <= i => k <= j)
      BY <1>2, <3>1
    <3>3. Upto(i) \in SUBSET Upto(j)
      BY <3>2
    <3>4. j <= j /\ ~(j <= i)
      BY <1>2, <3>1
    <3> QED BY <3>3, <3>4
  <2>2. /\ Cardinality(Upto(i)) <= Cardinality(Upto(j))
        /\ Cardinality(Upto(i)) # Cardinality(Upto(j))
    BY <1>1, <2>1, FS_Subset
  <2> QED BY <1>1, <2>2
<1>3. \A i \in S : Cardinality(Upto(i)) \in 1..Cardinality(S)
  BY <1>1
<1> QED BY <1>2, <1>3 DEF Rank

\* Every number up to their number is that of a place.
LEMMA NthOf ==
    ASSUME NEW S, S \subseteq Nat, IsFiniteSet(S), NEW n \in 1..Cardinality(S)
    PROVE  Nth(S, n) \in S /\ Rank(S, Nth(S, n)) = n
<1> DEFINE rank == [i \in S |-> Rank(S, i)]
           N == 1..Cardinality(S)
<1>1. Cardinality(S) \in Nat
  BY FS_CardinalityType
<1>2. IsFiniteSet(N) /\ Cardinality(N) = Cardinality(S)
  BY <1>1, FS_Interval
<1> DEFINE Ranks == /\ \A i \in S : Rank(S, i) \in 1..Cardinality(S)
                    /\ \A i, j \in S : i < j => Rank(S, i) < Rank(S, j)
<1>0. Ranks
  BY RanksOf
<1>3. rank \in Injection(S, N)
  <2>1. rank \in [S -> N]
    BY <1>0
  <2>2. ASSUME NEW i \in S, NEW j \in S, Rank(S, i) = Rank(S, j) PROVE i = j
    <3>1. i \in Nat /\ j \in Nat /\ Rank(S, i) \in Nat
      BY <1>0, <1>1
    <3>2. ~(i < j) /\ ~(j < i)
      BY <1>0, <2>2, <3>1
    <3> QED BY <3>1, <3>2
  <2>3. IsInjective(rank)
    BY <2>2 DEF IsInjective
  <2> QED BY <2>1, <2>3 DEF Injection
<1>4. rank \in Surjection(S, N)
  <2> HIDE DEF rank, N
  <2> QED BY <1>2, <1>3, FS_Injection
<1>5. \E i \in S : Rank(S, i) = n
  BY <1>4 DEF Surjection
<1> QED BY <1>5 DEF Nth

\* The n-th place by number is the place of that number.
LEMMA NthOfRank ==
    ASSUME NEW S, S \subseteq Nat, IsFiniteSet(S), NEW i \in S
    PROVE  Nth(S, Rank(S, i)) = i
<1> DEFINE n == Rank(S, i) j == Nth(S, n)
<1>1. n \in 1..Cardinality(S)
  BY RanksOf
<1>2. j \in S /\ Rank(S, j) = n
  BY <1>1, NthOf
<1>3. ~(i < j) /\ ~(j < i)
  <2>1. n \in Nat
    BY <1>1, FS_CardinalityType
  <2>2. \A x, y \in S : x < y => Rank(S, x) < Rank(S, y)
    BY RanksOf
  <2>3. ~(n < n)
    BY <2>1
  <2> QED BY <1>2, <2>2, <2>3
<1>4. i \in Nat /\ j \in Nat
  BY <1>2
<1> QED BY <1>3, <1>4

\* A sequence of just what s has in the places S, as often as there.
IsPicked(s, S, X) ==
    /\ At(s, S) \in Seq(X)
    /\ ToSet(At(s, S)) = {s[i] : i \in S}
    /\ (\A i, j \in S : s[i] = s[j] => i = j) => IsInjective(At(s, S))

\* What a sequence has in some places is a sequence of just that, as often as there.
LEMMA AtOf ==
    ASSUME NEW X, NEW s, NEW S, S \subseteq Nat, IsFiniteSet(S), \A i \in S : s[i] \in X
    PROVE  IsPicked(s, S, X)
<1> DEFINE n == Cardinality(S) nth == [k \in 1..n |-> Nth(S, k)]
<1>1. n \in Nat
  BY FS_CardinalityType
<1>2. At(s, S) = [k \in 1..n |-> s[nth[k]]]
  BY DEF At
<1>3. \A k \in 1..n : nth[k] \in S /\ Rank(S, nth[k]) = k
  BY NthOf
<1>4. \A i \in S : \E k \in 1..n : nth[k] = i
  <2> TAKE i \in S
  <2>1. Rank(S, i) \in 1..n
    BY RanksOf
  <2> QED BY <2>1, NthOfRank
<1> HIDE DEF n, nth
<1>5. At(s, S) \in Seq(X)
  <2>1. At(s, S) \in [1..n -> X]
    BY <1>2, <1>3
  <2> QED BY <1>1, <2>1, SeqDef
<1>6. DOMAIN At(s, S) = 1..n
  BY <1>2
<1>7. ToSet(At(s, S)) = {s[i] : i \in S}
  <2> DEFINE t == At(s, S)
  <2>1. \A k \in 1..n : t[k] = s[nth[k]]
    BY <1>2
  <2>2. \A k \in DOMAIN t : t[k] \in {s[i] : i \in S}
    BY <1>3, <1>6, <2>1
  <2>3. ASSUME NEW i \in S PROVE \E k \in DOMAIN t : t[k] = s[i]
    BY <1>4, <1>6, <2>1
  <2> QED BY <2>2, <2>3 DEF ToSet
<1>8. ASSUME \A i, j \in S : s[i] = s[j] => i = j PROVE IsInjective(At(s, S))
  <2> SUFFICES ASSUME NEW k \in 1..n, NEW l \in 1..n, s[nth[k]] = s[nth[l]] PROVE k = l
    BY <1>2, <1>6 DEF IsInjective
  <2>1. nth[k] = nth[l]
    BY <1>3, <1>8
  <2> QED BY <1>3, <2>1
<1> QED BY <1>5, <1>7, <1>8 DEF IsPicked

-----------------------------------------------------------------------------
(* Sequences as they are edited *)

\* Two neighbours change places.
LEMMA MovedOf ==
    ASSUME NEW X, NEW s \in Seq(X), NEW i \in 1..(Len(s) - 1)
    PROVE  /\ Moved(s, i) \in Seq(X)
           /\ DOMAIN Moved(s, i) = DOMAIN s
           /\ \A n \in DOMAIN s :
                Moved(s, i)[n] = s[IF n = i THEN i + 1 ELSE IF n = i + 1 THEN i ELSE n]
<1>1. Len(s) \in Nat /\ DOMAIN s = 1..Len(s) /\ s \in [1..Len(s) -> X]
  BY LenProperties
<1>2. i \in 1..Len(s) /\ i + 1 \in 1..Len(s) /\ i # i + 1
  BY <1>1
<1>3. s[i] \in X /\ s[i + 1] \in X
  BY <1>1, <1>2
<1> DEFINE t == Moved(s, i)
<1>4. t \in [1..Len(s) -> X]
  BY <1>1, <1>2, <1>3 DEF Moved
<1>5. \A n \in 1..Len(s) : t[n] = s[IF n = i THEN i + 1 ELSE IF n = i + 1 THEN i ELSE n]
  BY <1>1, <1>2 DEF Moved
<1>6. t \in Seq(X)
  BY <1>1, <1>4, SeqDef
<1>7. DOMAIN t = 1..Len(s)
  BY <1>4
<1> QED BY <1>1, <1>5, <1>6, <1>7

\* One element is taken out.
LEMMA RemovedOf ==
    ASSUME NEW X, NEW s \in Seq(X), NEW i \in DOMAIN s
    PROVE  /\ RemoveAt(s, i) \in Seq(X)
           /\ DOMAIN RemoveAt(s, i) = 1..(Len(s) - 1)
           /\ \A n \in 1..(Len(s) - 1) : /\ (IF n < i THEN n ELSE n + 1) \in DOMAIN s
                                         /\ RemoveAt(s, i)[n] = s[IF n < i THEN n ELSE n + 1]
<1>1. Len(s) \in Nat /\ DOMAIN s = 1..Len(s) /\ i \in 1..Len(s)
  BY LenProperties
<1> DEFINE u == SubSeq(s, 1, i - 1) v == SubSeq(s, i + 1, Len(s))
<1>2. \A n \in 1..Len(s) : s[n] \in X
  BY ElementOfSeq
<1>3. /\ u \in Seq(X) /\ Len(u) = i - 1
      /\ \A n \in 1..(i - 1) : u[n] = s[n]
  <2>1. \A n \in 1..(i - 1) : s[n] \in X
    BY <1>1, <1>2
  <2>2. 1 \in Int /\ i - 1 \in Int
    BY <1>1
  <2>3. /\ u \in Seq(X) /\ Len(u) = IF 1 <= i - 1 THEN (i - 1) - 1 + 1 ELSE 0
        /\ \A n \in 1..((i - 1) - 1 + 1) : u[n] = s[1 + n - 1]
    BY <2>1, <2>2, SubSeqProperties
  <2> QED BY <1>1, <2>3
<1>4. /\ v \in Seq(X) /\ Len(v) = Len(s) - i
      /\ \A n \in 1..(Len(s) - i) : v[n] = s[i + n]
  <2>1. \A n \in (i + 1)..Len(s) : s[n] \in X
    BY <1>1, <1>2
  <2>2. i + 1 \in Int /\ Len(s) \in Int
    BY <1>1
  <2>3. /\ v \in Seq(X) /\ Len(v) = IF i + 1 <= Len(s) THEN Len(s) - (i + 1) + 1 ELSE 0
        /\ \A n \in 1..(Len(s) - (i + 1) + 1) : v[n] = s[(i + 1) + n - 1]
    BY <2>1, <2>2, SubSeqProperties
  <2>4. \A n \in 1..(Len(s) - i) : n \in 1..(Len(s) - (i + 1) + 1) /\ (i + 1) + n - 1 = i + n
    BY <1>1
  <2>5. \A n \in 1..(Len(s) - i) : v[n] = s[i + n]
    BY <2>3, <2>4
  <2> QED BY <1>1, <2>3, <2>5
<1>5. RemoveAt(s, i) = u \o v
  BY DEF RemoveAt
<1> HIDE DEF u, v
<1>6. /\ u \o v \in Seq(X) /\ Len(u \o v) = Len(s) - 1
      /\ \A n \in 1..(Len(s) - 1) : (u \o v)[n] = IF n <= i - 1 THEN u[n] ELSE v[n - (i - 1)]
  <2>1. /\ u \o v \in Seq(X) /\ Len(u \o v) = Len(u) + Len(v)
        /\ \A n \in 1..(Len(u) + Len(v)) : (u \o v)[n] = IF n <= Len(u) THEN u[n] ELSE v[n - Len(u)]
    BY <1>3, <1>4, ConcatProperties
  <2>2. Len(u) + Len(v) = Len(s) - 1
    BY <1>1, <1>3, <1>4
  <2> QED BY <1>3, <2>1, <2>2
<1>7. DOMAIN (u \o v) = 1..(Len(s) - 1)
  BY <1>6, LenProperties
<1>8. ASSUME NEW n \in 1..(Len(s) - 1)
      PROVE  /\ (IF n < i THEN n ELSE n + 1) \in DOMAIN s
             /\ (u \o v)[n] = s[IF n < i THEN n ELSE n + 1]
  <2>1. CASE n < i
    <3>1. n \in 1..(i - 1) /\ n <= i - 1 /\ n \in 1..Len(s)
      BY <1>1, <2>1
    <3> QED BY <1>1, <1>3, <1>6, <2>1, <3>1
  <2>2. CASE ~(n < i)
    <3>1. n - (i - 1) \in 1..(Len(s) - i) /\ ~(n <= i - 1) /\ i + (n - (i - 1)) = n + 1
      BY <1>1, <2>2
    <3>2. n + 1 \in 1..Len(s)
      BY <1>1, <2>2
    <3>3. (u \o v)[n] = v[n - (i - 1)]
      BY <1>6, <3>1
    <3>4. v[n - (i - 1)] = s[n + 1]
      BY <1>4, <3>1
    <3> QED BY <1>1, <2>2, <3>2, <3>3, <3>4
  <2> QED BY <2>1, <2>2
<1> QED BY <1>5, <1>6, <1>7, <1>8

-----------------------------------------------------------------------------
(* What every draft and version is like: a document whose rows have keys of their own and whose *)
(* actions refer, each row at most once, to rows that are there.                                *)

WellUsed(actions, keys) ==
    /\ actions \in Seq(ActionsOver(Nat))
    /\ \A a \in DOMAIN actions : ToSet(actions[a].inputs) \subseteq keys /\ IsInjective(actions[a].inputs)

WellStepped(steps, keys) ==
    /\ steps \in Seq(StepsOver(Nat))
    /\ \A i \in DOMAIN steps : WellUsed(steps[i].actions, keys)

WellKeyed(rows) ==
    /\ rows \in Seq(RowsOver(Nat))
    /\ \A i, j \in DOMAIN rows : rows[i].key = rows[j].key => i = j

KeysIn(rows) == {rows[i].key : i \in DOMAIN rows}

WellFormed(d) ==
    /\ d \in Documents(Nat)
    /\ WellKeyed(d.ingredients)
    /\ WellStepped(d.instructions, Keys(d))

\* The parts of a document that is well formed are, and make it.
LEMMA FormedOf ==
    ASSUME NEW d, d \in Documents(Nat)
    PROVE  /\ d.header \in Headers
           /\ d.ingredients \in Seq(RowsOver(Nat))
           /\ d.instructions \in Seq(StepsOver(Nat))
           /\ Keys(d) = KeysIn(d.ingredients)
BY DEF Documents, Keys, KeysIn

\* Rows are replaced by others that keep the keys in use.
LEMMA WithRows ==
    ASSUME NEW d, WellFormed(d), NEW rows, WellKeyed(rows), Keys(d) \subseteq KeysIn(rows)
    PROVE  WellFormed([d EXCEPT !.ingredients = rows])
<1> DEFINE e == [d EXCEPT !.ingredients = rows]
<1>1. /\ e \in Documents(Nat) /\ e.ingredients = rows /\ e.instructions = d.instructions
  <2>1. rows \in Seq(RowsOver(Nat))
    BY DEF WellKeyed
  <2>2. d \in Documents(Nat)
    BY DEF WellFormed
  <2> QED BY <2>1, <2>2 DEF Documents
<1>2. Keys(e) = KeysIn(rows)
  BY <1>1, FormedOf
<1>3. WellStepped(d.instructions, Keys(d))
  BY DEF WellFormed
<1>4. WellStepped(d.instructions, Keys(e))
  BY <1>2, <1>3 DEF WellStepped, WellUsed
<1> HIDE DEF e
<1>5. WellFormed(e)
  BY <1>1, <1>4 DEF WellFormed
<1> QED BY <1>5 DEF e

\* Steps are replaced by others over the same rows.
LEMMA WithSteps ==
    ASSUME NEW d, WellFormed(d), NEW steps, WellStepped(steps, Keys(d))
    PROVE  WellFormed([d EXCEPT !.instructions = steps])
<1> DEFINE e == [d EXCEPT !.instructions = steps]
<1>1. /\ e \in Documents(Nat) /\ e.ingredients = d.ingredients /\ e.instructions = steps
  <2>1. steps \in Seq(StepsOver(Nat))
    BY DEF WellStepped
  <2>2. d \in Documents(Nat)
    BY DEF WellFormed
  <2> QED BY <2>1, <2>2 DEF Documents
<1>2. Keys(e) = Keys(d)
  BY <1>1 DEF Keys
<1>3. WellKeyed(d.ingredients)
  BY DEF WellFormed
<1> HIDE DEF e
<1>4. WellFormed(e)
  BY <1>1, <1>2, <1>3 DEF WellFormed
<1> QED BY <1>4 DEF e

\* A part of a sequence of rows, or the same in another order, has keys of its own as well.
LEMMA PickedRows ==
    ASSUME NEW rows, WellKeyed(rows), NEW picked, picked \in Seq(RowsOver(Nat)),
           NEW f \in [DOMAIN picked -> DOMAIN rows], IsInjective(f),
           \A n \in DOMAIN picked : picked[n] = rows[f[n]]
    PROVE  WellKeyed(picked)
<1>1. SUFFICES ASSUME NEW i \in DOMAIN picked, NEW j \in DOMAIN picked, picked[i].key = picked[j].key
               PROVE  i = j
  BY DEF WellKeyed
<1>2. f[i] = f[j]
  BY <1>1 DEF WellKeyed
<1> QED BY <1>2 DEF IsInjective

\* So it is with actions and steps.
LEMMA PickedActions ==
    ASSUME NEW keys, NEW s, WellUsed(s, keys), NEW t, t \in Seq(ActionsOver(Nat)),
           \A n \in DOMAIN t : \E m \in DOMAIN s : t[n] = s[m]
    PROVE  WellUsed(t, keys)
BY DEF WellUsed

\* So it is with actions and steps.
LEMMA PickedSteps ==
    ASSUME NEW keys, NEW s, WellStepped(s, keys), NEW t, t \in Seq(StepsOver(Nat)),
           \A n \in DOMAIN t : \E m \in DOMAIN s : t[n] = s[m]
    PROVE  WellStepped(t, keys)
BY DEF WellStepped

-----------------------------------------------------------------------------
(* Edits of rows *)

\* A row takes the place of one with the same key.
LEMMA RowReplaced ==
    ASSUME NEW d, WellFormed(d), NEW i \in DOMAIN d.ingredients,
           NEW row \in RowsOver(Nat), row.key = d.ingredients[i].key
    PROVE  WellFormed(WithRow(d, i, row))
<1> DEFINE rows == d.ingredients
           new == [rows EXCEPT ![i] = row]
<1>1. rows \in Seq(RowsOver(Nat)) /\ WellKeyed(rows) /\ Keys(d) = KeysIn(rows)
  BY FormedOf DEF WellFormed
<1>2. Len(rows) \in Nat /\ DOMAIN rows = 1..Len(rows) /\ i \in 1..Len(rows)
  BY <1>1, LenProperties
<1>3. /\ new \in Seq(RowsOver(Nat)) /\ DOMAIN new = DOMAIN rows
      /\ \A j \in 1..Len(rows) : new[j] = IF j = i THEN row ELSE rows[j]
  BY <1>1, <1>2, ExceptSeq
<1>4. \A j \in DOMAIN rows : new[j].key = rows[j].key
  BY <1>2, <1>3
<1> HIDE DEF new
<1>5. WellKeyed(new) /\ Keys(d) \subseteq KeysIn(new)
  BY <1>1, <1>3, <1>4 DEF WellKeyed, KeysIn
<1>6. WellFormed([d EXCEPT !.ingredients = new])
  BY <1>5, WithRows
<1> QED BY <1>6 DEF WithRow, new

\* A row is edited in one of its fields.
LEMMA FieldEdited ==
    ASSUME NEW d, WellFormed(d), NEW i \in DOMAIN d.ingredients
    PROVE  /\ \A x \in Ingredients \cup {Requested, None} :
                WellFormed(WithRow(d, i, [d.ingredients[i] EXCEPT !.ingredient = x]))
           /\ \A m \in Amounts \cup {None} :
                WellFormed(WithRow(d, i, [d.ingredients[i] EXCEPT !.measure = m]))
           /\ \A n \in Notes : WellFormed(WithRow(d, i, [d.ingredients[i] EXCEPT !.notes = n]))
<1> DEFINE r == d.ingredients[i]
<1>1. r \in RowsOver(Nat)
  <2>1. d.ingredients \in Seq(RowsOver(Nat))
    BY FormedOf DEF WellFormed
  <2> QED BY <2>1, LenProperties, ElementOfSeq
<1>2. ASSUME NEW x \in Ingredients \cup {Requested, None}
      PROVE  [r EXCEPT !.ingredient = x] \in RowsOver(Nat) /\ [r EXCEPT !.ingredient = x].key = r.key
  BY <1>1 DEF RowsOver
<1>3. ASSUME NEW m \in Amounts \cup {None}
      PROVE  [r EXCEPT !.measure = m] \in RowsOver(Nat) /\ [r EXCEPT !.measure = m].key = r.key
  BY <1>1 DEF RowsOver
<1>4. ASSUME NEW n \in Notes
      PROVE  [r EXCEPT !.notes = n] \in RowsOver(Nat) /\ [r EXCEPT !.notes = n].key = r.key
  BY <1>1 DEF RowsOver
<1> QED BY <1>2, <1>3, <1>4, RowReplaced

\* The rows of a document, and which of them is where.
LEMMA RowsOf ==
    ASSUME NEW d, WellFormed(d)
    PROVE  /\ d.ingredients \in Seq(RowsOver(Nat)) /\ WellKeyed(d.ingredients)
           /\ Keys(d) = KeysIn(d.ingredients) /\ Keys(d) \subseteq Nat
           /\ Len(d.ingredients) \in Nat /\ DOMAIN d.ingredients = 1..Len(d.ingredients)
           /\ \A i \in DOMAIN d.ingredients : /\ d.ingredients[i] \in RowsOver(Nat)
                                              /\ d.ingredients[i].key \in Keys(d)
<1>1. d.ingredients \in Seq(RowsOver(Nat)) /\ WellKeyed(d.ingredients) /\ Keys(d) = KeysIn(d.ingredients)
  BY FormedOf DEF WellFormed
<1>2. Len(d.ingredients) \in Nat /\ DOMAIN d.ingredients = 1..Len(d.ingredients)
  BY <1>1, LenProperties
<1>3. \A i \in DOMAIN d.ingredients : d.ingredients[i] \in RowsOver(Nat)
  BY <1>1, <1>2, ElementOfSeq
<1>4. \A i \in DOMAIN d.ingredients : d.ingredients[i].key \in Nat
  BY <1>3 DEF RowsOver
<1> QED BY <1>1, <1>2, <1>3, <1>4 DEF KeysIn

\* A row and the one after it change places.
LEMMA RowMoved ==
    ASSUME NEW d, WellFormed(d), NEW i \in 1..(Len(d.ingredients) - 1)
    PROVE  WellFormed([d EXCEPT !.ingredients = Moved(@, i)])
<1> DEFINE rows == d.ingredients
           f == [n \in DOMAIN rows |-> IF n = i THEN i + 1 ELSE IF n = i + 1 THEN i ELSE n]
<1>1. rows \in Seq(RowsOver(Nat)) /\ WellKeyed(rows) /\ Keys(d) = KeysIn(rows)
      /\ Len(rows) \in Nat /\ DOMAIN rows = 1..Len(rows)
  BY RowsOf
<1>2. /\ Moved(rows, i) \in Seq(RowsOver(Nat)) /\ DOMAIN Moved(rows, i) = DOMAIN rows
      /\ \A n \in DOMAIN rows :
           Moved(rows, i)[n] = rows[IF n = i THEN i + 1 ELSE IF n = i + 1 THEN i ELSE n]
  BY <1>1, MovedOf
<1>3. f \in [DOMAIN rows -> DOMAIN rows] /\ IsInjective(f)
      /\ \A n \in DOMAIN rows : \E m \in DOMAIN rows : f[m] = n
  <2>1. i \in 1..Len(rows) /\ i + 1 \in 1..Len(rows) /\ i # i + 1
    BY <1>1
  <2>2. f \in [DOMAIN rows -> DOMAIN rows]
    BY <1>1, <2>1
  <2>3. IsInjective(f)
    BY <1>1, <2>1 DEF IsInjective
  <2>4. ASSUME NEW n \in DOMAIN rows PROVE f[f[n]] = n
    BY <1>1, <2>1
  <2> QED BY <2>2, <2>3, <2>4
<1>4. \A n \in DOMAIN rows : Moved(rows, i)[n] = rows[f[n]]
  BY <1>2
<1> DEFINE new == Moved(rows, i)
<1>5. /\ new \in Seq(RowsOver(Nat)) /\ DOMAIN new = DOMAIN rows
      /\ \A n \in DOMAIN new : new[n] = rows[f[n]]
  BY <1>2, <1>4
<1> HIDE DEF f, new
<1>6. f \in [DOMAIN new -> DOMAIN rows]
  BY <1>3, <1>5
<1>7. WellKeyed(new)
  <2>1. WellKeyed(rows) /\ IsInjective(f)
    BY <1>1, <1>3
  <2> HIDE DEF rows
  <2> QED BY <1>5, <1>6, <2>1, PickedRows
<1>8. Keys(d) \subseteq KeysIn(new)
  <2>1. ASSUME NEW n \in DOMAIN rows PROVE \E m \in DOMAIN new : new[m].key = rows[n].key
    <3>1. PICK m \in DOMAIN rows : f[m] = n
      BY <1>3
    <3>2. new[m] = rows[n] /\ m \in DOMAIN new
      BY <1>5, <3>1
    <3> QED BY <3>2
  <2>2. KeysIn(rows) \subseteq KeysIn(new)
    BY <2>1 DEF KeysIn
  <2> QED BY <1>1, <2>2
<1>9. WellFormed([d EXCEPT !.ingredients = new])
  BY <1>7, <1>8, WithRows
<1> QED BY <1>9 DEF new

\* There is a key that no row has yet.
LEMMA NewKeyOf ==
    ASSUME NEW d, WellFormed(d)
    PROVE  NewKey(d) \in Nat /\ NewKey(d) \notin Keys(d)
<1> DEFINE n == Len(d.ingredients)
           key == [i \in 1..n |-> d.ingredients[i].key]
<1>1. n \in Nat /\ DOMAIN d.ingredients = 1..n /\ Keys(d) = KeysIn(d.ingredients)
  BY RowsOf
<1>2. key \in Surjection(1..n, Keys(d))
  BY <1>1 DEF Surjection, KeysIn
<1>3. IsFiniteSet(1..n) /\ Cardinality(1..n) = n
  BY <1>1, FS_Interval
<1>4. IsFiniteSet(Keys(d)) /\ Cardinality(Keys(d)) <= n
  <2> HIDE DEF n, key
  <2> QED BY <1>2, <1>3, FS_Surjection
<1>5. IsFiniteSet(1..(n + 1)) /\ Cardinality(1..(n + 1)) = n + 1
  <2>1. 1 \in Int /\ n + 1 \in Int /\ ~(1 > n + 1) /\ n + 1 - 1 + 1 = n + 1
    BY <1>1
  <2> HIDE DEF n
  <2> QED BY <2>1, FS_Interval
<1>6. \E k \in 1..(n + 1) : k \notin Keys(d)
  <2>1. SUFFICES ASSUME 1..(n + 1) \in SUBSET Keys(d) PROVE FALSE
    OBVIOUS
  <2>2. Cardinality(1..(n + 1)) <= Cardinality(Keys(d))
    BY <1>4, <2>1, FS_Subset
  <2>3. Cardinality(Keys(d)) \in Nat
    BY <1>4, FS_CardinalityType
  <2> QED BY <1>1, <1>4, <1>5, <2>2, <2>3
<1>7. NewKey(d) \in 1..(n + 1) /\ NewKey(d) \notin Keys(d)
  BY <1>6 DEF NewKey
<1> QED BY <1>1, <1>7

\* A blank row is added.
LEMMA RowAdded ==
    ASSUME NEW d, WellFormed(d)
    PROVE  WellFormed(AddedRow(d))
<1> DEFINE rows == d.ingredients
           row == BlankRow(NewKey(d))
           new == Append(rows, row)
<1>1. /\ rows \in Seq(RowsOver(Nat)) /\ WellKeyed(rows) /\ Keys(d) = KeysIn(rows)
      /\ Len(rows) \in Nat /\ DOMAIN rows = 1..Len(rows)
  BY RowsOf
<1>2. row \in RowsOver(Nat) /\ row.key = NewKey(d)
  BY NewKeyOf DEF BlankRow, RowsOver
<1> HIDE DEF row
<1>3. /\ new \in Seq(RowsOver(Nat)) /\ Len(new) = Len(rows) + 1
      /\ \A i \in 1..Len(rows) : new[i] = rows[i]
      /\ new[Len(rows) + 1] = row
  BY <1>1, <1>2, AppendProperties
<1>4. DOMAIN new = 1..(Len(rows) + 1)
  BY <1>3, LenProperties
<1> HIDE DEF new
<1>5. \A i \in DOMAIN new : i \in DOMAIN rows \/ i = Len(rows) + 1
  BY <1>1, <1>4
<1>6. \A i \in DOMAIN rows : new[i] = rows[i] /\ rows[i].key # NewKey(d) /\ i \in DOMAIN new
  <2>1. \A i \in DOMAIN rows : rows[i].key \in Keys(d)
    BY <1>1 DEF KeysIn
  <2> QED BY <1>1, <1>3, <1>4, <2>1, NewKeyOf
<1>7. WellKeyed(new)
  <2> SUFFICES ASSUME NEW i \in DOMAIN new, NEW j \in DOMAIN new, new[i].key = new[j].key
               PROVE  i = j
    BY <1>3 DEF WellKeyed
  <2>1. CASE i \in DOMAIN rows /\ j \in DOMAIN rows
    <3>1. rows[i].key = rows[j].key
      BY <1>6, <2>1
    <3> QED BY <1>1, <2>1, <3>1 DEF WellKeyed
  <2>2. CASE ~(i \in DOMAIN rows /\ j \in DOMAIN rows)
    BY <1>2, <1>3, <1>5, <1>6, <2>2
  <2> QED BY <2>1, <2>2
<1>8. Keys(d) \subseteq KeysIn(new)
  BY <1>1, <1>6 DEF KeysIn
<1>9. WellFormed([d EXCEPT !.ingredients = new])
  BY <1>7, <1>8, WithRows
<1> QED BY <1>9 DEF AddedRow, new, row

\* Any selection of the inputs of an action is its inputs still.
LEMMA InputsPicked ==
    ASSUME NEW keys, NEW a \in ActionsOver(Nat),
           ToSet(a.inputs) \subseteq keys, IsInjective(a.inputs),
           NEW S, S \subseteq DOMAIN a.inputs
    PROVE  /\ At(a.inputs, S) \in Seq(Nat)
           /\ ToSet(At(a.inputs, S)) = {a.inputs[n] : n \in S}
           /\ IsInjective(At(a.inputs, S))
<1>1. a.inputs \in Seq(Nat)
  BY DEF ActionsOver
<1>2. Len(a.inputs) \in Nat /\ DOMAIN a.inputs = 1..Len(a.inputs)
  BY <1>1, LenProperties
<1>3. S \subseteq Nat /\ S \in SUBSET (1..Len(a.inputs))
  BY <1>2
<1>4. IsFiniteSet(S)
  <2>1. IsFiniteSet(1..Len(a.inputs))
    BY <1>2, FS_Interval
  <2> QED BY <1>3, <2>1, FS_Subset
<1>5. \A n \in S : a.inputs[n] \in Nat
  BY <1>1, <1>2, ElementOfSeq
<1>6. \A m, n \in S : a.inputs[m] = a.inputs[n] => m = n
  BY DEF IsInjective
<1>7. IsPicked(a.inputs, S, Nat)
  BY <1>3, <1>4, <1>5, AtOf
<1> QED BY <1>6, <1>7 DEF IsPicked

\* A row is taken out, and out of the inputs of the actions.
LEMMA RowRemoved ==
    ASSUME NEW d, WellFormed(d), NEW i \in DOMAIN d.ingredients
    PROVE  WellFormed(WithoutRow(d, i))
<1> DEFINE rows == d.ingredients
           key == rows[i].key
           keys == Keys(d) \ {key}
           Others(a) == {n \in DOMAIN a.inputs : a.inputs[n] # key}
           Left(a) == [a EXCEPT !.inputs = At(a.inputs, Others(a))]
           LeftIn(s) == [s EXCEPT !.actions = [n \in DOMAIN s.actions |-> Left(s.actions[n])]]
           steps == [s \in DOMAIN d.instructions |-> LeftIn(d.instructions[s])]
           new == RemoveAt(rows, i)
           e == [d EXCEPT !.ingredients = new, !.instructions = steps]
<1>1. WithoutRow(d, i) = e
  BY DEF WithoutRow, WithActions
<1>2. /\ rows \in Seq(RowsOver(Nat)) /\ WellKeyed(rows) /\ Keys(d) = KeysIn(rows)
      /\ Len(rows) \in Nat /\ DOMAIN rows = 1..Len(rows)
  BY RowsOf
<1>3. d \in Documents(Nat) /\ WellStepped(d.instructions, Keys(d))
  BY DEF WellFormed
<1>4. ASSUME NEW a \in ActionsOver(Nat), ToSet(a.inputs) \subseteq Keys(d), IsInjective(a.inputs)
      PROVE  /\ Left(a) \in ActionsOver(Nat)
             /\ ToSet(Left(a).inputs) \subseteq keys
             /\ IsInjective(Left(a).inputs)
  <2>1. Others(a) \subseteq DOMAIN a.inputs
    OBVIOUS
  <2>2. /\ At(a.inputs, Others(a)) \in Seq(Nat)
        /\ ToSet(At(a.inputs, Others(a))) = {a.inputs[n] : n \in Others(a)}
        /\ IsInjective(At(a.inputs, Others(a)))
    <3> HIDE DEF Others
    <3> QED BY <1>4, <2>1, InputsPicked
  <2>3. \A n \in Others(a) : a.inputs[n] \in keys
    BY <1>4 DEF ToSet
  <2>4. Left(a) \in ActionsOver(Nat) /\ Left(a).inputs = At(a.inputs, Others(a))
    BY <2>2 DEF ActionsOver
  <2> QED BY <2>2, <2>3, <2>4
<1> HIDE DEF Left, key
<1>5. ASSUME NEW s \in StepsOver(Nat), WellUsed(s.actions, Keys(d))
      PROVE  LeftIn(s) \in StepsOver(Nat) /\ WellUsed(LeftIn(s).actions, keys)
  <2> DEFINE new_actions == [n \in DOMAIN s.actions |-> Left(s.actions[n])]
  <2>1. s.actions \in Seq(ActionsOver(Nat))
    BY DEF StepsOver
  <2>2. Len(s.actions) \in Nat /\ DOMAIN s.actions = 1..Len(s.actions)
    BY <2>1, LenProperties
  <2>3. \A n \in DOMAIN s.actions :
          /\ Left(s.actions[n]) \in ActionsOver(Nat)
          /\ ToSet(Left(s.actions[n]).inputs) \subseteq keys
          /\ IsInjective(Left(s.actions[n]).inputs)
    <3>1. \A n \in DOMAIN s.actions : s.actions[n] \in ActionsOver(Nat)
      BY <2>1, <2>2, ElementOfSeq
    <3> HIDE DEF keys
    <3> QED BY <1>4, <1>5, <3>1 DEF WellUsed
  <2>4. new_actions \in Seq(ActionsOver(Nat))
    <3>1. new_actions \in [1..Len(s.actions) -> ActionsOver(Nat)]
      BY <2>2, <2>3
    <3> QED BY <2>2, <3>1, SeqDef
  <2>5. WellUsed(new_actions, keys)
    BY <2>3, <2>4 DEF WellUsed
  <2> HIDE DEF new_actions
  <2>6. [s EXCEPT !.actions = new_actions] \in StepsOver(Nat)
        /\ [s EXCEPT !.actions = new_actions].actions = new_actions
    BY <2>4 DEF StepsOver
  <2> QED BY <2>5, <2>6 DEF new_actions
<1> HIDE DEF LeftIn
<1>6. steps \in Seq(StepsOver(Nat)) /\ WellStepped(steps, keys)
  <2>1. d.instructions \in Seq(StepsOver(Nat))
    BY <1>3, FormedOf
  <2>2. Len(d.instructions) \in Nat /\ DOMAIN d.instructions = 1..Len(d.instructions)
    BY <2>1, LenProperties
  <2>3. \A s \in DOMAIN d.instructions :
          LeftIn(d.instructions[s]) \in StepsOver(Nat) /\ WellUsed(LeftIn(d.instructions[s]).actions, keys)
    <3>1. \A s \in DOMAIN d.instructions : d.instructions[s] \in StepsOver(Nat)
      BY <2>1, <2>2, ElementOfSeq
    <3> HIDE DEF keys
    <3> QED BY <1>3, <1>5, <3>1 DEF WellStepped
  <2>4. steps \in [1..Len(d.instructions) -> StepsOver(Nat)]
    BY <2>2, <2>3
  <2>5. steps \in Seq(StepsOver(Nat))
    BY <2>2, <2>4, SeqDef
  <2> QED BY <2>3, <2>5 DEF WellStepped
<1> HIDE DEF steps
<1>7. /\ new \in Seq(RowsOver(Nat)) /\ DOMAIN new = 1..(Len(rows) - 1)
      /\ \A n \in 1..(Len(rows) - 1) : /\ (IF n < i THEN n ELSE n + 1) \in DOMAIN rows
                                       /\ new[n] = rows[IF n < i THEN n ELSE n + 1]
  BY <1>2, RemovedOf
<1> HIDE DEF new
<1>8. WellKeyed(new) /\ KeysIn(new) = keys
  <2> DEFINE f == [n \in DOMAIN new |-> IF n < i THEN n ELSE n + 1]
  <2>1. f \in [DOMAIN new -> DOMAIN rows] /\ IsInjective(f) /\ \A n \in DOMAIN new : f[n] # i
    <3>1. f \in [DOMAIN new -> DOMAIN rows]
      BY <1>7
    <3>2. IsInjective(f) /\ \A n \in DOMAIN new : f[n] # i
      BY <1>2, <1>7 DEF IsInjective
    <3> QED BY <3>1, <3>2
  <2>2. \A n \in DOMAIN new : new[n] = rows[f[n]]
    BY <1>7
  <2>3. ASSUME NEW m \in DOMAIN rows, m # i PROVE \E n \in DOMAIN new : f[n] = m
    <3>1. CASE m < i
      <4>1. m \in DOMAIN new /\ f[m] = m
        BY <1>2, <1>7, <3>1
      <4> QED BY <4>1
    <3>2. CASE ~(m < i)
      <4>1. m - 1 \in DOMAIN new /\ f[m - 1] = m
        BY <1>2, <1>7, <2>3, <3>2
      <4> QED BY <4>1
    <3> QED BY <3>1, <3>2
  <2> HIDE DEF f
  <2>4. WellKeyed(new)
    <3>1. /\ WellKeyed(rows) /\ new \in Seq(RowsOver(Nat))
          /\ f \in [DOMAIN new -> DOMAIN rows] /\ IsInjective(f)
      BY <1>2, <1>7, <2>1
    <3> HIDE DEF rows
    <3> QED BY <2>2, <3>1, PickedRows
  <2>5. \A n \in DOMAIN new : new[n].key \in keys
    <3> TAKE n \in DOMAIN new
    <3>1. f[n] \in DOMAIN rows /\ f[n] # i
      BY <2>1
    <3>2. rows[f[n]].key # key /\ rows[f[n]].key \in Keys(d)
      BY <1>2, <3>1 DEF WellKeyed, KeysIn, key
    <3> QED BY <2>2, <3>2
  <2>6. \A k \in keys : \E n \in DOMAIN new : new[n].key = k
    <3> TAKE k \in keys
    <3>1. PICK m \in DOMAIN rows : rows[m].key = k /\ m # i
      BY <1>2 DEF KeysIn, key
    <3> QED BY <2>2, <2>3, <3>1
  <2> QED BY <2>4, <2>5, <2>6 DEF KeysIn
<1>9. e \in Documents(Nat) /\ e.ingredients = new /\ e.instructions = steps
  BY <1>3, <1>6, <1>7 DEF Documents
<1>10. Keys(e) = keys
  BY <1>8, <1>9, FormedOf
<1> HIDE DEF e, keys
<1>11. WellFormed(e)
  BY <1>6, <1>8, <1>9, <1>10 DEF WellFormed
<1> QED BY <1>1, <1>11

-----------------------------------------------------------------------------
(* Edits of steps *)

\* The check boxes leave an action with rows that are there, each once.
LEMMA ToggledOf ==
    ASSUME NEW d, WellFormed(d), NEW inputs, NEW row
    PROVE  /\ Toggled(d, inputs, row) \in Seq(Nat)
           /\ ToSet(Toggled(d, inputs, row)) \subseteq Keys(d)
           /\ IsInjective(Toggled(d, inputs, row))
<1> DEFINE rows == d.ingredients
           key == [i \in DOMAIN rows |-> rows[i].key]
           S == {i \in Options(d) : (rows[i].key \in ToSet(inputs)) # (i = row)}
<1>1. /\ WellKeyed(rows) /\ Keys(d) = KeysIn(rows) /\ Keys(d) \subseteq Nat
      /\ Len(rows) \in Nat /\ DOMAIN rows = 1..Len(rows)
  BY RowsOf
<1>2. S \in SUBSET (1..Len(rows)) /\ S \subseteq Nat
  BY <1>1 DEF Options
<1> HIDE DEF S
<1>3. IsFiniteSet(S)
  <2>1. IsFiniteSet(1..Len(rows))
    BY <1>1, FS_Interval
  <2> QED BY <1>2, <2>1, FS_Subset
<1>4. \A i \in S : key[i] \in Keys(d) /\ key[i] \in Nat
  BY <1>1, <1>2 DEF KeysIn
<1>5. \A i, j \in S : key[i] = key[j] => i = j
  BY <1>1, <1>2 DEF WellKeyed
<1>6. Toggled(d, inputs, row) = At(key, S)
  BY DEF Toggled, KeysAt, S
<1> HIDE DEF key
<1>7. /\ At(key, S) \in Seq(Nat) /\ ToSet(At(key, S)) = {key[i] : i \in S}
      /\ (\A i, j \in S : key[i] = key[j] => i = j) => IsInjective(At(key, S))
  <2>1. \A i \in S : key[i] \in Nat
    BY <1>4
  <2>2. S \subseteq Nat
    BY <1>2
  <2>3. IsPicked(key, S, Nat)
    BY <1>3, <2>1, <2>2, AtOf
  <2> QED BY <2>3 DEF IsPicked
<1>8. IsInjective(At(key, S))
  BY <1>5, <1>7
<1> QED BY <1>4, <1>6, <1>7, <1>8

\* An action takes the place of another.
LEMMA ActionReplaced ==
    ASSUME NEW keys, NEW s, WellUsed(s, keys), NEW a \in DOMAIN s, NEW x \in ActionsOver(Nat),
           ToSet(x.inputs) \subseteq keys, IsInjective(x.inputs)
    PROVE  WellUsed([s EXCEPT ![a] = x], keys)
<1> DEFINE t == [s EXCEPT ![a] = x]
<1>1. s \in Seq(ActionsOver(Nat))
  BY DEF WellUsed
<1>2. a \in 1..Len(s) /\ DOMAIN s = 1..Len(s)
  BY <1>1, LenProperties
<1>3. t \in Seq(ActionsOver(Nat)) /\ \A b \in 1..Len(s) : t[b] = IF b = a THEN x ELSE s[b]
  BY <1>1, <1>2, ExceptSeq
<1>4. DOMAIN t = DOMAIN s
  OBVIOUS
<1> HIDE DEF t
<1>5. WellUsed(t, keys)
  BY <1>2, <1>3, <1>4 DEF WellUsed
<1> QED BY <1>5 DEF t

\* The actions of a step are edited.
LEMMA ActionsEdited ==
    ASSUME NEW d, WellFormed(d), NEW s, WellUsed(s, Keys(d)), NEW t \in ActionEdits(d, s)
    PROVE  WellUsed(t, Keys(d))
<1>1. s \in Seq(ActionsOver(Nat)) /\ Len(s) \in Nat /\ DOMAIN s = 1..Len(s)
  BY LenProperties DEF WellUsed
<1>2. \A a \in DOMAIN s : /\ s[a] \in ActionsOver(Nat)
                          /\ ToSet(s[a].inputs) \subseteq Keys(d)
                          /\ IsInjective(s[a].inputs)
  BY <1>1, ElementOfSeq DEF WellUsed
<1>3. ASSUME NEW a \in DOMAIN s, NEW x \in ActionsOver(Nat), x.inputs = s[a].inputs
      PROVE  WellUsed([s EXCEPT ![a] = x], Keys(d))
  BY <1>2, <1>3, ActionReplaced
<1>4. ASSUME NEW a \in DOMAIN s, NEW type \in ActionTypes \cup {None}
      PROVE  WellUsed([s EXCEPT ![a].type = type], Keys(d))
  <2>1. [s[a] EXCEPT !.type = type] \in ActionsOver(Nat)
        /\ [s[a] EXCEPT !.type = type].inputs = s[a].inputs
    BY <1>2 DEF ActionsOver
  <2> QED BY <1>3, <2>1
<1>5. ASSUME NEW a \in DOMAIN s, NEW m \in Durations \cup {None}
      PROVE  WellUsed([s EXCEPT ![a].duration = m], Keys(d))
  <2>1. [s[a] EXCEPT !.duration = m] \in ActionsOver(Nat)
        /\ [s[a] EXCEPT !.duration = m].inputs = s[a].inputs
    BY <1>2 DEF ActionsOver
  <2> QED BY <1>3, <2>1
<1>6. ASSUME NEW a \in DOMAIN s, NEW m \in Temperatures \cup {None}
      PROVE  WellUsed([s EXCEPT ![a].temperature = m], Keys(d))
  <2>1. [s[a] EXCEPT !.temperature = m] \in ActionsOver(Nat)
        /\ [s[a] EXCEPT !.temperature = m].inputs = s[a].inputs
    BY <1>2 DEF ActionsOver
  <2> QED BY <1>3, <2>1
<1>7. ASSUME NEW a \in DOMAIN s, NEW row \in Options(d)
      PROVE  WellUsed([s EXCEPT ![a].inputs = Toggled(d, @, row)], Keys(d))
  <2> DEFINE inputs == Toggled(d, s[a].inputs, row)
  <2>1. inputs \in Seq(Nat) /\ ToSet(inputs) \subseteq Keys(d) /\ IsInjective(inputs)
    BY ToggledOf
  <2> HIDE DEF inputs
  <2>2. [s[a] EXCEPT !.inputs = inputs] \in ActionsOver(Nat)
        /\ [s[a] EXCEPT !.inputs = inputs].inputs = inputs
    BY <1>2, <2>1 DEF ActionsOver
  <2>3. WellUsed([s EXCEPT ![a] = [s[a] EXCEPT !.inputs = inputs]], Keys(d))
    BY <2>1, <2>2, ActionReplaced
  <2> QED BY <2>3 DEF inputs
<1>8. ASSUME NEW a \in DOMAIN s PROVE WellUsed(RemoveAt(s, a), Keys(d))
  <2> DEFINE new == RemoveAt(s, a)
  <2>1. /\ new \in Seq(ActionsOver(Nat)) /\ DOMAIN new = 1..(Len(s) - 1)
        /\ \A n \in 1..(Len(s) - 1) : /\ (IF n < a THEN n ELSE n + 1) \in DOMAIN s
                                      /\ new[n] = s[IF n < a THEN n ELSE n + 1]
    BY <1>1, RemovedOf
  <2> HIDE DEF new
  <2>2. \A n \in DOMAIN new : \E m \in DOMAIN s : new[n] = s[m]
    BY <2>1
  <2>3. WellUsed(new, Keys(d))
    BY <2>1, <2>2, PickedActions
  <2> QED BY <2>3 DEF new
<1>9. ASSUME NEW a \in 1..(Len(s) - 1) PROVE WellUsed(Moved(s, a), Keys(d))
  <2>1. /\ Moved(s, a) \in Seq(ActionsOver(Nat)) /\ DOMAIN Moved(s, a) = DOMAIN s
        /\ \A n \in DOMAIN s :
             Moved(s, a)[n] = s[IF n = a THEN a + 1 ELSE IF n = a + 1 THEN a ELSE n]
    BY <1>1, MovedOf
  <2>2. a \in DOMAIN s /\ a + 1 \in DOMAIN s
    BY <1>1
  <2>3. \A n \in DOMAIN Moved(s, a) : \E m \in DOMAIN s : Moved(s, a)[n] = s[m]
    BY <2>1, <2>2
  <2> QED BY <2>1, <2>3, PickedActions
<1>10. WellUsed(Append(s, BlankAction), Keys(d))
  <2>1. BlankAction \in ActionsOver(Nat) /\ BlankAction.inputs = <<>>
    BY EmptySeq DEF BlankAction, ActionsOver
  <2>2. ToSet(<<>>) \subseteq Keys(d) /\ IsInjective(<<>>)
    BY DEF ToSet, IsInjective
  <2> DEFINE new == Append(s, BlankAction)
  <2>3. /\ new \in Seq(ActionsOver(Nat)) /\ Len(new) = Len(s) + 1
        /\ \A a \in 1..Len(s) : new[a] = s[a]
        /\ new[Len(s) + 1] = BlankAction
    BY <1>1, <2>1, AppendProperties
  <2>4. DOMAIN new = 1..(Len(s) + 1)
    BY <2>3, LenProperties
  <2> HIDE DEF new
  <2>5. \A a \in DOMAIN new : ToSet(new[a].inputs) \subseteq Keys(d) /\ IsInjective(new[a].inputs)
    <3> TAKE a \in DOMAIN new
    <3>1. CASE a \in 1..Len(s)
      BY <1>1, <1>2, <2>3, <3>1
    <3>2. CASE a = Len(s) + 1
      BY <2>1, <2>2, <2>3, <3>2
    <3> QED BY <1>1, <2>4, <3>1, <3>2
  <2>6. WellUsed(new, Keys(d))
    BY <2>3, <2>5 DEF WellUsed
  <2> QED BY <2>6 DEF new
<1> DEFINE Types == {[s EXCEPT ![a].type = type] : a \in DOMAIN s, type \in ActionTypes \cup {None}}
           Toggles == {[s EXCEPT ![a].inputs = Toggled(d, @, row)] : a \in DOMAIN s, row \in Options(d)}
           Times_ == {[s EXCEPT ![a].duration = m] : a \in DOMAIN s, m \in Durations \cup {None}}
           Heats == {[s EXCEPT ![a].temperature = m] : a \in DOMAIN s, m \in Temperatures \cup {None}}
           Removals == {RemoveAt(s, a) : a \in DOMAIN s}
           Moves == {Moved(s, a) : a \in 1..(Len(s) - 1)}
<1>11. /\ \A u \in Types : WellUsed(u, Keys(d))
       /\ \A u \in Toggles : WellUsed(u, Keys(d))
       /\ \A u \in Times_ : WellUsed(u, Keys(d))
       /\ \A u \in Heats : WellUsed(u, Keys(d))
  <2>1. \A u \in Types : WellUsed(u, Keys(d))
    BY <1>4
  <2>2. \A u \in Toggles : WellUsed(u, Keys(d))
    BY <1>7
  <2>3. \A u \in Times_ : WellUsed(u, Keys(d))
    BY <1>5
  <2>4. \A u \in Heats : WellUsed(u, Keys(d))
    BY <1>6
  <2> QED BY <2>1, <2>2, <2>3, <2>4
<1>12. (\A u \in Removals : WellUsed(u, Keys(d))) /\ (\A u \in Moves : WellUsed(u, Keys(d)))
  BY <1>8, <1>9
<1>13. ActionEdits(d, s) = Types \cup Toggles \cup Times_ \cup Heats \cup Removals \cup Moves
                           \cup {Append(s, BlankAction)}
  BY DEF ActionEdits
<1> HIDE DEF Types, Toggles, Times_, Heats, Removals, Moves
<1> QED BY <1>10, <1>11, <1>12, <1>13

\* The steps of a document, and which of them is where.
LEMMA StepsOf ==
    ASSUME NEW d, WellFormed(d)
    PROVE  /\ d.instructions \in Seq(StepsOver(Nat)) /\ WellStepped(d.instructions, Keys(d))
           /\ Len(d.instructions) \in Nat /\ DOMAIN d.instructions = 1..Len(d.instructions)
           /\ \A i \in DOMAIN d.instructions :
                /\ d.instructions[i] \in StepsOver(Nat)
                /\ WellUsed(d.instructions[i].actions, Keys(d))
                /\ \A a \in DOMAIN d.instructions[i].actions :
                     LET x == d.instructions[i].actions[a] IN
                     x \in ActionsOver(Nat) /\ ToSet(x.inputs) \subseteq Keys(d) /\ IsInjective(x.inputs)
<1>1. d.instructions \in Seq(StepsOver(Nat)) /\ WellStepped(d.instructions, Keys(d))
  BY FormedOf DEF WellFormed
<1>2. Len(d.instructions) \in Nat /\ DOMAIN d.instructions = 1..Len(d.instructions)
  BY <1>1, LenProperties
<1>3. \A i \in DOMAIN d.instructions : d.instructions[i] \in StepsOver(Nat)
  BY <1>1, <1>2, ElementOfSeq
<1>4. \A i \in DOMAIN d.instructions : WellUsed(d.instructions[i].actions, Keys(d))
  BY <1>1 DEF WellStepped
<1>5. ASSUME NEW s, WellUsed(s, Keys(d)), NEW a \in DOMAIN s
      PROVE  s[a] \in ActionsOver(Nat) /\ ToSet(s[a].inputs) \subseteq Keys(d) /\ IsInjective(s[a].inputs)
  <2>1. s \in Seq(ActionsOver(Nat))
    BY <1>5 DEF WellUsed
  <2>2. s[a] \in ActionsOver(Nat)
    BY <2>1, LenProperties, ElementOfSeq
  <2> QED BY <1>5, <2>2 DEF WellUsed
<1> QED BY <1>1, <1>2, <1>3, <1>4, <1>5

\* A step takes the place of another.
LEMMA StepReplaced ==
    ASSUME NEW d, WellFormed(d), NEW i \in DOMAIN d.instructions,
           NEW step \in StepsOver(Nat), WellUsed(step.actions, Keys(d))
    PROVE  WellFormed(WithStep(d, i, step))
<1> DEFINE s == d.instructions
           t == [s EXCEPT ![i] = step]
<1>1. s \in Seq(StepsOver(Nat)) /\ WellStepped(s, Keys(d)) /\ i \in 1..Len(s) /\ DOMAIN s = 1..Len(s)
  BY StepsOf
<1>2. t \in Seq(StepsOver(Nat)) /\ \A j \in 1..Len(s) : t[j] = IF j = i THEN step ELSE s[j]
  BY <1>1, ExceptSeq
<1>3. DOMAIN t = DOMAIN s
  OBVIOUS
<1> HIDE DEF t
<1>4. WellStepped(t, Keys(d))
  BY <1>1, <1>2, <1>3 DEF WellStepped
<1>5. WellFormed([d EXCEPT !.instructions = t])
  BY <1>4, WithSteps
<1> QED BY <1>5 DEF WithStep, t

\* A step is edited, removed or moved.
LEMMA StepsEdited ==
    ASSUME NEW d, WellFormed(d), NEW e, e \in StepEdits(d)
    PROVE  WellFormed(e)
<1> DEFINE s == d.instructions
           Texts_ == {WithStep(d, i, [d.instructions[i] EXCEPT !.text = x]) :
                        i \in DOMAIN d.instructions, x \in Texts \cup {None}}
           InStep(i) == {WithStep(d, i, [d.instructions[i] EXCEPT !.actions = actions]) :
                            actions \in ActionEdits(d, d.instructions[i].actions)}
           InSteps == UNION {InStep(i) : i \in DOMAIN d.instructions}
           Removals == {[d EXCEPT !.instructions = RemoveAt(@, i)] : i \in DOMAIN d.instructions}
           Moves == {[d EXCEPT !.instructions = Moved(@, i)] : i \in 1..(Len(d.instructions) - 1)}
<1>1. /\ s \in Seq(StepsOver(Nat)) /\ WellStepped(s, Keys(d))
      /\ Len(s) \in Nat /\ DOMAIN s = 1..Len(s)
      /\ \A i \in DOMAIN s : s[i] \in StepsOver(Nat) /\ WellUsed(s[i].actions, Keys(d))
  BY StepsOf
<1>2. ASSUME NEW i \in DOMAIN s, NEW x \in Texts \cup {None}
      PROVE  WellFormed(WithStep(d, i, [s[i] EXCEPT !.text = x]))
  <2>1. [s[i] EXCEPT !.text = x] \in StepsOver(Nat) /\ [s[i] EXCEPT !.text = x].actions = s[i].actions
    BY <1>1 DEF StepsOver
  <2> QED BY <1>1, <2>1, StepReplaced
<1>3. ASSUME NEW i \in DOMAIN s, NEW t \in ActionEdits(d, s[i].actions)
      PROVE  WellFormed(WithStep(d, i, [s[i] EXCEPT !.actions = t]))
  <2>1. WellUsed(t, Keys(d))
    BY <1>1, ActionsEdited
  <2>2. [s[i] EXCEPT !.actions = t] \in StepsOver(Nat) /\ [s[i] EXCEPT !.actions = t].actions = t
    BY <1>1, <2>1 DEF StepsOver, WellUsed
  <2> QED BY <2>1, <2>2, StepReplaced
<1>4. ASSUME NEW i \in DOMAIN s PROVE WellFormed([d EXCEPT !.instructions = RemoveAt(@, i)])
  <2> DEFINE new == RemoveAt(s, i)
  <2>1. /\ new \in Seq(StepsOver(Nat)) /\ DOMAIN new = 1..(Len(s) - 1)
        /\ \A n \in 1..(Len(s) - 1) : /\ (IF n < i THEN n ELSE n + 1) \in DOMAIN s
                                      /\ new[n] = s[IF n < i THEN n ELSE n + 1]
    BY <1>1, RemovedOf
  <2> HIDE DEF new
  <2>2. \A n \in DOMAIN new : \E m \in DOMAIN s : new[n] = s[m]
    BY <2>1
  <2>3. WellStepped(new, Keys(d))
    BY <1>1, <2>1, <2>2, PickedSteps
  <2>4. WellFormed([d EXCEPT !.instructions = new])
    BY <2>3, WithSteps
  <2> QED BY <2>4 DEF new
<1>5. ASSUME NEW i \in 1..(Len(s) - 1) PROVE WellFormed([d EXCEPT !.instructions = Moved(@, i)])
  <2> DEFINE new == Moved(s, i)
  <2>1. /\ new \in Seq(StepsOver(Nat)) /\ DOMAIN new = DOMAIN s
        /\ \A n \in DOMAIN s : new[n] = s[IF n = i THEN i + 1 ELSE IF n = i + 1 THEN i ELSE n]
    BY <1>1, MovedOf
  <2> HIDE DEF new
  <2>2. i \in DOMAIN s /\ i + 1 \in DOMAIN s
    BY <1>1
  <2>3. \A n \in DOMAIN new : \E m \in DOMAIN s : new[n] = s[m]
    BY <2>1, <2>2
  <2>4. WellStepped(new, Keys(d))
    BY <1>1, <2>1, <2>3, PickedSteps
  <2>5. WellFormed([d EXCEPT !.instructions = new])
    BY <2>4, WithSteps
  <2> QED BY <2>5 DEF new
<1>6. \A u \in Texts_ : WellFormed(u)
  <2> SUFFICES ASSUME NEW u \in Texts_ PROVE WellFormed(u)
    OBVIOUS
  <2>1. PICK i \in DOMAIN s, x \in Texts \cup {None} : u = WithStep(d, i, [s[i] EXCEPT !.text = x])
    OBVIOUS
  <2> QED BY <1>2, <2>1
<1>7. \A u \in InSteps : WellFormed(u)
  <2> SUFFICES ASSUME NEW i \in DOMAIN s, NEW u \in InStep(i) PROVE WellFormed(u)
    OBVIOUS
  <2>1. PICK t \in ActionEdits(d, s[i].actions) : u = WithStep(d, i, [s[i] EXCEPT !.actions = t])
    OBVIOUS
  <2> QED BY <1>3, <2>1
<1>8. (\A u \in Removals : WellFormed(u)) /\ (\A u \in Moves : WellFormed(u))
  BY <1>4, <1>5
<1>9. StepEdits(d) = Texts_ \cup InSteps \cup Removals \cup Moves
  BY DEF StepEdits
<1> HIDE DEF Texts_, InSteps, Removals, Moves
<1> QED BY <1>6, <1>7, <1>8, <1>9

\* A blank step is added.
LEMMA StepAdded ==
    ASSUME NEW d, WellFormed(d)
    PROVE  WellFormed(AddedStep(d))
<1> DEFINE s == d.instructions
           new == Append(s, BlankStep)
<1>1. /\ s \in Seq(StepsOver(Nat)) /\ WellStepped(s, Keys(d))
      /\ Len(s) \in Nat /\ DOMAIN s = 1..Len(s)
  BY StepsOf
<1>2. BlankStep \in StepsOver(Nat) /\ BlankStep.actions = <<>>
  BY EmptySeq DEF BlankStep, StepsOver
<1>3. WellUsed(<<>>, Keys(d))
  BY EmptySeq DEF WellUsed
<1>4. /\ new \in Seq(StepsOver(Nat)) /\ Len(new) = Len(s) + 1
      /\ \A i \in 1..Len(s) : new[i] = s[i]
      /\ new[Len(s) + 1] = BlankStep
  BY <1>1, <1>2, AppendProperties
<1>5. DOMAIN new = 1..(Len(s) + 1)
  BY <1>4, LenProperties
<1> HIDE DEF new
<1>6. ASSUME NEW i \in DOMAIN new PROVE WellUsed(new[i].actions, Keys(d))
  <2>1. CASE i \in 1..Len(s)
    BY <1>1, <1>4, <2>1 DEF WellStepped
  <2>2. CASE i = Len(s) + 1
    BY <1>2, <1>3, <1>4, <2>2
  <2> QED BY <1>1, <1>5, <2>1, <2>2
<1>7. WellStepped(new, Keys(d))
  BY <1>4, <1>6 DEF WellStepped
<1>8. WellFormed([d EXCEPT !.instructions = new])
  BY <1>7, WithSteps
<1> QED BY <1>8 DEF AddedStep, new

\* A row is edited, removed or moved.
LEMMA RowsEdited ==
    ASSUME NEW d, WellFormed(d), NEW e, e \in RowEdits(d)
    PROVE  WellFormed(e)
<1> DEFINE Ingredients_ == {WithRow(d, i, [d.ingredients[i] EXCEPT !.ingredient = x]) :
                              i \in DOMAIN d.ingredients, x \in Ingredients \cup {Requested, None}}
           Measures == {WithRow(d, i, [d.ingredients[i] EXCEPT !.measure = m]) :
                          i \in DOMAIN d.ingredients, m \in Amounts \cup {None}}
           Noted(i, n) == WithRow(d, i, [d.ingredients[i] EXCEPT !.notes = n])
           Notes_ == {Noted(i, n) : i \in DOMAIN d.ingredients, n \in Notes}
           Removals == {WithoutRow(d, i) : i \in DOMAIN d.ingredients}
           Moves == {[d EXCEPT !.ingredients = Moved(@, i)] : i \in 1..(Len(d.ingredients) - 1)}
<1>1. \A u \in Ingredients_ : WellFormed(u)
  <2> SUFFICES ASSUME NEW u \in Ingredients_ PROVE WellFormed(u)
    OBVIOUS
  <2>1. PICK i \in DOMAIN d.ingredients, x \in Ingredients \cup {Requested, None} :
              u = WithRow(d, i, [d.ingredients[i] EXCEPT !.ingredient = x])
    OBVIOUS
  <2> QED BY <2>1, FieldEdited
<1>2. \A u \in Measures : WellFormed(u)
  <2> SUFFICES ASSUME NEW u \in Measures PROVE WellFormed(u)
    OBVIOUS
  <2>1. PICK i \in DOMAIN d.ingredients, m \in Amounts \cup {None} :
              u = WithRow(d, i, [d.ingredients[i] EXCEPT !.measure = m])
    OBVIOUS
  <2> QED BY <2>1, FieldEdited
<1>3. \A u \in Notes_ : WellFormed(u)
  <2>1. \A i \in DOMAIN d.ingredients : \A n \in Notes : WellFormed(Noted(i, n))
    BY FieldEdited
  <2> HIDE DEF Noted
  <2> QED BY <2>1
<1>4. \A u \in Removals : WellFormed(u)
  BY RowRemoved
<1>5. \A u \in Moves : WellFormed(u)
  <2> SUFFICES ASSUME NEW i \in 1..(Len(d.ingredients) - 1)
               PROVE  WellFormed([d EXCEPT !.ingredients = Moved(@, i)])
    OBVIOUS
  <2> QED BY RowMoved
<1>6. RowEdits(d) = Ingredients_ \cup Measures \cup Notes_ \cup Removals \cup Moves
  BY DEF RowEdits
<1> HIDE DEF Ingredients_, Measures, Notes_, Removals, Moves
<1> QED BY <1>1, <1>2, <1>3, <1>4, <1>5, <1>6

\* The header is edited.
LEMMA HeaderEdited ==
    ASSUME NEW d, WellFormed(d), NEW h \in Headers
    PROVE  WellFormed([d EXCEPT !.header = h])
<1> DEFINE e == [d EXCEPT !.header = h]
<1>1. e \in Documents(Nat) /\ e.ingredients = d.ingredients /\ e.instructions = d.instructions
  BY DEF WellFormed, Documents
<1>2. Keys(e) = Keys(d)
  BY <1>1 DEF Keys
<1> HIDE DEF e
<1>3. WellFormed(e)
  BY <1>1, <1>2 DEF WellFormed
<1> QED BY <1>3 DEF e

-----------------------------------------------------------------------------
(* Copies *)

\* e is d with its rows called as name has it: everything else, and every place, is the same.
RowsCalled(d, name, e) ==
    /\ DOMAIN e.ingredients = DOMAIN d.ingredients
    /\ \A i \in DOMAIN d.ingredients :
         /\ e.ingredients[i].key = name[d.ingredients[i].key]
         /\ e.ingredients[i].ingredient = d.ingredients[i].ingredient
         /\ e.ingredients[i].measure = d.ingredients[i].measure
         /\ e.ingredients[i].notes = d.ingredients[i].notes

ActionCalled(x, name, y) ==
    /\ y.type = x.type /\ y.duration = x.duration /\ y.temperature = x.temperature
    /\ DOMAIN y.inputs = DOMAIN x.inputs
    /\ \A n \in DOMAIN x.inputs : y.inputs[n] = name[x.inputs[n]]

StepCalled(x, name, y) ==
    /\ y.text = x.text
    /\ DOMAIN y.actions = DOMAIN x.actions
    /\ \A a \in DOMAIN x.actions : ActionCalled(x.actions[a], name, y.actions[a])

IsCalled(d, name, e) ==
    /\ e.header = d.header
    /\ RowsCalled(d, name, e)
    /\ DOMAIN e.instructions = DOMAIN d.instructions
    /\ \A i \in DOMAIN d.instructions : StepCalled(d.instructions[i], name, e.instructions[i])

\* What renaming is.
LEMMA RenamedIs ==
    ASSUME NEW d, WellFormed(d), NEW name, name \in [Keys(d) -> Nat],
           NEW e, e = Renamed(d, name)
    PROVE  e \in Documents(Nat) /\ IsCalled(d, name, e)
<1> DEFINE Row(r) == [r EXCEPT !.key = name[r.key]]
           Action(a) == [a EXCEPT !.inputs = [n \in DOMAIN a.inputs |-> name[a.inputs[n]]]]
           ActionsIn(s) == [a \in DOMAIN s.actions |-> Action(s.actions[a])]
           Step(s) == [s EXCEPT !.actions = ActionsIn(s)]
           rows == [i \in DOMAIN d.ingredients |-> Row(d.ingredients[i])]
           steps == [s \in DOMAIN d.instructions |-> Step(d.instructions[s])]
<1>1. e = [d EXCEPT !.ingredients = rows, !.instructions = steps]
  BY DEF Renamed, WithActions
<1>2. /\ Len(d.ingredients) \in Nat /\ DOMAIN d.ingredients = 1..Len(d.ingredients)
      /\ Keys(d) = KeysIn(d.ingredients) /\ d.ingredients \in Seq(RowsOver(Nat))
  BY RowsOf
<1>3. \A i \in DOMAIN d.ingredients : d.ingredients[i].key \in Keys(d)
  BY <1>2 DEF KeysIn
<1>4. rows \in Seq(RowsOver(Nat))
  <2>1. ASSUME NEW i \in DOMAIN d.ingredients PROVE Row(d.ingredients[i]) \in RowsOver(Nat)
    <3>1. d.ingredients[i] \in RowsOver(Nat)
      BY <1>2, ElementOfSeq
    <3>2. name[d.ingredients[i].key] \in Nat
      BY <1>3
    <3> QED BY <3>1, <3>2 DEF RowsOver
  <2> HIDE DEF Row
  <2>2. rows \in [1..Len(d.ingredients) -> RowsOver(Nat)]
    BY <1>2, <2>1
  <2> QED BY <1>2, <2>2, SeqDef
<1> DEFINE WellActed(a) == a \in ActionsOver(Nat) /\ ToSet(a.inputs) \subseteq Keys(d)
<1>5. ASSUME NEW a, WellActed(a)
      PROVE  Action(a) \in ActionsOver(Nat) /\ ActionCalled(a, name, Action(a))
  <2> DEFINE inputs == [n \in DOMAIN a.inputs |-> name[a.inputs[n]]]
  <2>1. a.inputs \in Seq(Nat)
    BY <1>5 DEF ActionsOver
  <2>2. Len(a.inputs) \in Nat /\ DOMAIN a.inputs = 1..Len(a.inputs)
    BY <2>1, LenProperties
  <2>3. \A n \in DOMAIN a.inputs : name[a.inputs[n]] \in Nat
    BY <1>5 DEF ToSet
  <2>4. inputs \in [1..Len(a.inputs) -> Nat]
    BY <2>2, <2>3
  <2>5. inputs \in Seq(Nat)
    BY <2>2, <2>4, SeqDef
  <2> HIDE DEF inputs
  <2>6. [a EXCEPT !.inputs = inputs] \in ActionsOver(Nat)
    BY <1>5, <2>5 DEF ActionsOver
  <2>7. /\ [a EXCEPT !.inputs = inputs].type = a.type
        /\ [a EXCEPT !.inputs = inputs].duration = a.duration
        /\ [a EXCEPT !.inputs = inputs].temperature = a.temperature
        /\ [a EXCEPT !.inputs = inputs].inputs = inputs
    BY <1>5 DEF ActionsOver
  <2>8. DOMAIN inputs = DOMAIN a.inputs /\ \A n \in DOMAIN a.inputs : inputs[n] = name[a.inputs[n]]
    BY DEF inputs
  <2>9. Action(a) = [a EXCEPT !.inputs = inputs]
    BY DEF inputs
  <2> HIDE DEF Action
  <2>10. ActionCalled(a, name, Action(a))
    BY <2>7, <2>8, <2>9 DEF ActionCalled
  <2> QED BY <2>6, <2>9, <2>10
<1>6. /\ Len(d.instructions) \in Nat /\ DOMAIN d.instructions = 1..Len(d.instructions)
      /\ \A i \in DOMAIN d.instructions :
           /\ d.instructions[i] \in StepsOver(Nat)
           /\ d.instructions[i].actions \in Seq(ActionsOver(Nat))
           /\ \A a \in DOMAIN d.instructions[i].actions : WellActed(d.instructions[i].actions[a])
  BY StepsOf DEF WellUsed
<1> HIDE DEF Action
<1>7. ASSUME NEW i \in DOMAIN d.instructions
      PROVE  /\ Step(d.instructions[i]) \in StepsOver(Nat)
             /\ Step(d.instructions[i]).text = d.instructions[i].text
             /\ Step(d.instructions[i]).actions = ActionsIn(d.instructions[i])
  <2> DEFINE s == d.instructions[i]
  <2>1. Len(s.actions) \in Nat /\ DOMAIN s.actions = 1..Len(s.actions)
    BY <1>6, LenProperties
  <2>2. \A a \in DOMAIN s.actions : Action(s.actions[a]) \in ActionsOver(Nat)
    BY <1>5, <1>6
  <2>3. ActionsIn(s) \in [1..Len(s.actions) -> ActionsOver(Nat)]
    BY <2>1, <2>2
  <2>4. ActionsIn(s) \in Seq(ActionsOver(Nat))
    BY <2>1, <2>3, SeqDef
  <2>5. s \in StepsOver(Nat)
    BY <1>6
  <2> HIDE DEF ActionsIn, s
  <2>6. /\ [s EXCEPT !.actions = ActionsIn(s)] \in StepsOver(Nat)
        /\ [s EXCEPT !.actions = ActionsIn(s)].text = s.text
        /\ [s EXCEPT !.actions = ActionsIn(s)].actions = ActionsIn(s)
    BY <2>4, <2>5 DEF StepsOver
  <2> QED BY <2>6 DEF s
<1> HIDE DEF Step
<1>8. steps \in Seq(StepsOver(Nat))
  <2>1. steps \in [1..Len(d.instructions) -> StepsOver(Nat)]
    BY <1>6, <1>7
  <2> QED BY <1>6, <2>1, SeqDef
<1>9. /\ e \in Documents(Nat) /\ e.header = d.header
      /\ e.ingredients = rows /\ e.instructions = steps
  <2>1. d \in Documents(Nat)
    BY DEF WellFormed
  <2> HIDE DEF rows, steps
  <2> QED BY <1>1, <1>4, <1>8, <2>1 DEF Documents
<1>10. RowsCalled(d, name, e)
  <2>1. \A i \in DOMAIN d.ingredients : rows[i] = Row(d.ingredients[i])
    OBVIOUS
  <2>2. \A i \in DOMAIN d.ingredients : d.ingredients[i] \in RowsOver(Nat)
    BY <1>2, ElementOfSeq
  <2>3. ASSUME NEW r \in RowsOver(Nat)
        PROVE  /\ Row(r).key = name[r.key] /\ Row(r).ingredient = r.ingredient
               /\ Row(r).measure = r.measure /\ Row(r).notes = r.notes
    BY DEF RowsOver
  <2>4. DOMAIN rows = DOMAIN d.ingredients
    OBVIOUS
  <2> HIDE DEF rows, Row
  <2> QED BY <1>9, <2>1, <2>2, <2>3, <2>4 DEF RowsCalled
<1>11. ASSUME NEW i \in DOMAIN d.instructions
       PROVE  StepCalled(d.instructions[i], name, e.instructions[i])
  <2> DEFINE s == d.instructions[i]
  <2>1. e.instructions[i] = Step(s)
    BY <1>9
  <2>2. Step(s).text = s.text /\ Step(s).actions = ActionsIn(s)
    BY <1>7
  <2>3. \A a \in DOMAIN s.actions : WellActed(s.actions[a])
    BY <1>6
  <2>4. DOMAIN ActionsIn(s) = DOMAIN s.actions
        /\ \A a \in DOMAIN s.actions : ActionsIn(s)[a] = Action(s.actions[a])
    OBVIOUS
  <2> HIDE DEF s, ActionsIn, WellActed
  <2>5. \A a \in DOMAIN s.actions : ActionCalled(s.actions[a], name, ActionsIn(s)[a])
    BY <1>5, <2>3, <2>4
  <2>6. StepCalled(s, name, e.instructions[i])
    BY <2>1, <2>2, <2>4, <2>5 DEF StepCalled
  <2> QED BY <2>6 DEF s
<1>12. DOMAIN e.instructions = DOMAIN d.instructions
  BY <1>9
<1> HIDE DEF rows, steps
<1> QED BY <1>9, <1>10, <1>11, <1>12 DEF IsCalled

\* Under other keys that tell its rows apart a document is well formed again.
LEMMA RenamedOf ==
    ASSUME NEW d, WellFormed(d), NEW name, name \in [Keys(d) -> Nat], IsInjective(name)
    PROVE  WellFormed(Renamed(d, name))
<1> DEFINE e == Renamed(d, name)
<1>1. e \in Documents(Nat) /\ IsCalled(d, name, e)
  BY RenamedIs
<1> HIDE DEF e
<1>2. /\ e.ingredients \in Seq(RowsOver(Nat)) /\ e.instructions \in Seq(StepsOver(Nat))
      /\ Keys(e) = KeysIn(e.ingredients)
  BY <1>1, FormedOf
<1>3. /\ DOMAIN e.ingredients = DOMAIN d.ingredients
      /\ \A i \in DOMAIN d.ingredients : e.ingredients[i].key = name[d.ingredients[i].key]
      /\ \A i \in DOMAIN d.ingredients : d.ingredients[i].key \in Keys(d)
  BY <1>1 DEF IsCalled, RowsCalled, Keys
<1>4. WellKeyed(e.ingredients)
  <2>1. \A k, l \in Keys(d) : name[k] = name[l] => k = l
    BY DEF IsInjective
  <2>2. WellKeyed(d.ingredients)
    BY DEF WellFormed
  <2>3. \A i, j \in DOMAIN e.ingredients : e.ingredients[i].key = e.ingredients[j].key => i = j
    BY <1>3, <2>1, <2>2 DEF WellKeyed
  <2> QED BY <1>2, <2>3 DEF WellKeyed
<1>5. \A k \in Keys(d) : name[k] \in Keys(e)
  <2> TAKE k \in Keys(d)
  <2>1. PICK i \in DOMAIN d.ingredients : d.ingredients[i].key = k
    BY DEF Keys
  <2> QED BY <1>2, <1>3, <2>1 DEF KeysIn
<1>6. ASSUME NEW i \in DOMAIN d.instructions, NEW a \in DOMAIN d.instructions[i].actions
      PROVE  /\ ToSet(e.instructions[i].actions[a].inputs) \subseteq Keys(e)
             /\ IsInjective(e.instructions[i].actions[a].inputs)
  <2> DEFINE inputs == d.instructions[i].actions[a].inputs
             news == e.instructions[i].actions[a].inputs
  <2>1. ToSet(inputs) \subseteq Keys(d) /\ IsInjective(inputs)
    BY StepsOf
  <2>2. DOMAIN news = DOMAIN inputs /\ \A n \in DOMAIN inputs : news[n] = name[inputs[n]]
    BY <1>1 DEF IsCalled, StepCalled, ActionCalled
  <2>3. \A n \in DOMAIN inputs : inputs[n] \in Keys(d)
    BY <2>1 DEF ToSet
  <2> HIDE DEF inputs, news
  <2>4. ToSet(news) \subseteq Keys(e)
    BY <1>5, <2>2, <2>3 DEF ToSet
  <2>5. IsInjective(news)
    BY <2>1, <2>2, <2>3 DEF IsInjective
  <2> QED BY <2>4, <2>5 DEF news
<1>7. WellStepped(e.instructions, Keys(e))
  <2>1. ASSUME NEW i \in DOMAIN e.instructions PROVE WellUsed(e.instructions[i].actions, Keys(e))
    <3>1. e.instructions[i] \in StepsOver(Nat)
      BY <1>2, LenProperties, ElementOfSeq
    <3>2. e.instructions[i].actions \in Seq(ActionsOver(Nat))
      BY <3>1 DEF StepsOver
    <3>3. DOMAIN e.instructions = DOMAIN d.instructions
          /\ DOMAIN e.instructions[i].actions = DOMAIN d.instructions[i].actions
      BY <1>1 DEF IsCalled, StepCalled
    <3> QED BY <1>6, <3>2, <3>3 DEF WellUsed
  <2> QED BY <1>2, <2>1 DEF WellStepped
<1>8. WellFormed(e)
  BY <1>1, <1>4, <1>7 DEF WellFormed
<1> QED BY <1>8 DEF e

\* The row a key is that of.
LEMMA RowOfKey ==
    ASSUME NEW d, WellFormed(d)
    PROVE  /\ \A k \in Keys(d) : RowOf(d, k) \in DOMAIN d.ingredients
                                 /\ d.ingredients[RowOf(d, k)].key = k
           /\ \A i \in DOMAIN d.ingredients : /\ d.ingredients[i].key \in Keys(d)
                                              /\ RowOf(d, d.ingredients[i].key) = i
<1>1. WellKeyed(d.ingredients)
  BY DEF WellFormed
<1>2. \A k \in Keys(d) : RowOf(d, k) \in DOMAIN d.ingredients /\ d.ingredients[RowOf(d, k)].key = k
  BY DEF Keys, RowOf
<1>3. \A i \in DOMAIN d.ingredients : d.ingredients[i].key \in Keys(d)
  BY DEF Keys
<1> QED BY <1>1, <1>2, <1>3 DEF WellKeyed

\* The keys of a copy are the numbers of the rows: every copy is well formed.
LEMMA CopiedOf ==
    ASSUME NEW d, WellFormed(d)
    PROVE  /\ Copied(d) = Renamed(d, [k \in Keys(d) |-> RowOf(d, k)])
           /\ [k \in Keys(d) |-> RowOf(d, k)] \in [Keys(d) -> Nat]
           /\ WellFormed(Copied(d))
<1> DEFINE name == [k \in Keys(d) |-> RowOf(d, k)]
<1>1. Copied(d) = Renamed(d, name)
  BY DEF Copied, RowOf
<1>2. /\ \A k \in Keys(d) : RowOf(d, k) \in DOMAIN d.ingredients
                            /\ d.ingredients[RowOf(d, k)].key = k
  BY RowOfKey
<1>3. DOMAIN d.ingredients \subseteq Nat
  BY RowsOf
<1>4. name \in [Keys(d) -> Nat]
  BY <1>2, <1>3
<1>5. IsInjective(name)
  BY <1>2 DEF IsInjective
<1> HIDE DEF name
<1>6. WellFormed(Renamed(d, name))
  BY <1>4, <1>5, RenamedOf
<1> QED BY <1>1, <1>4, <1>6 DEF name

-----------------------------------------------------------------------------
(* What holds in every state *)

WellFormedInv == /\ TypeOK
                 /\ WellFormed(draft)
                 /\ target # None => WellFormed(target)

\* A version to start from is well formed.
LEMMA VersionsOf ==
    ASSUME NEW v \in Versions
    PROVE  WellFormed(v)
<1>1. v \in Documents(Nat) /\ IsComplete(v)
  BY VersionsAssumption
<1>2. v.ingredients \in Seq(RowsOver(Nat)) /\ v.instructions \in Seq(StepsOver(Nat))
  BY <1>1, FormedOf
<1>3. Len(v.ingredients) \in Nat /\ DOMAIN v.ingredients = 1..Len(v.ingredients)
  BY <1>2, LenProperties
<1>4. WellKeyed(v.ingredients)
  <2>1. \A i \in DOMAIN v.ingredients : \A j \in 1..(i - 1) : v.ingredients[j].key # v.ingredients[i].key
    BY <1>1 DEF IsComplete
  <2>2. ASSUME NEW i \in DOMAIN v.ingredients, NEW j \in DOMAIN v.ingredients, i # j
        PROVE  i \in 1..(j - 1) \/ j \in 1..(i - 1)
    BY <1>3, <2>2
  <2>3. \A i, j \in DOMAIN v.ingredients : v.ingredients[i].key = v.ingredients[j].key => i = j
    BY <2>1, <2>2
  <2> QED BY <1>2, <2>3 DEF WellKeyed
<1>5. ASSUME NEW i \in DOMAIN v.instructions
      PROVE  WellUsed(v.instructions[i].actions, Keys(v))
  <2>1. v.instructions[i] \in StepsOver(Nat)
    BY <1>2, LenProperties, ElementOfSeq
  <2>2. v.instructions[i].actions \in Seq(ActionsOver(Nat))
    BY <2>1 DEF StepsOver
  <2>3. \A a \in ToSet(v.instructions[i].actions) :
          ToSet(a.inputs) \subseteq Keys(v) /\ IsInjective(a.inputs)
    BY <1>1 DEF IsComplete
  <2>4. \A a \in DOMAIN v.instructions[i].actions :
          v.instructions[i].actions[a] \in ToSet(v.instructions[i].actions)
    BY DEF ToSet
  <2> QED BY <2>2, <2>3, <2>4 DEF WellUsed
<1>6. WellStepped(v.instructions, Keys(v))
  BY <1>2, <1>5 DEF WellStepped
<1> QED BY <1>1, <1>4, <1>6 DEF WellFormed

\* A change leaves a draft that is well formed.
LEMMA AfterChange ==
    ASSUME WellFormedInv, NEW d, WellFormed(d), Change(d)
    PROVE  WellFormedInv'
<1>1. draft' = d /\ edits' = edits + 1 /\ edits < MaxEdits /\ saved' = FALSE
      /\ base' = base /\ target' = target /\ target = None
  BY DEF Change
<1>2. MaxEdits \in Nat
  BY BoundsAssumption
<1>3. edits' \in 0..MaxEdits
  BY <1>1, <1>2 DEF WellFormedInv, TypeOK
<1>4. d \in Documents(Nat)
  BY DEF WellFormed
<1>5. TypeOK'
  BY <1>1, <1>3, <1>4 DEF WellFormedInv, TypeOK
<1>6. WellFormed(draft)'
  BY <1>1
<1>7. (target # None => WellFormed(target))'
  BY <1>1
<1> QED BY <1>5, <1>6, <1>7 DEF WellFormedInv

\* Every step keeps drafts and versions well formed.
LEMMA WellFormedPreserved == WellFormedInv /\ [Next]_vars => WellFormedInv'
<1> SUFFICES ASSUME WellFormedInv, [Next]_vars PROVE WellFormedInv'
  OBVIOUS
<1>0. WellFormed(draft)
  BY DEF WellFormedInv
<1>1. CASE ChangeHeader
  <2>1. PICK h \in Headers : Change([draft EXCEPT !.header = h])
    BY <1>1 DEF ChangeHeader
  <2> QED BY <1>0, <2>1, HeaderEdited, AfterChange
<1>2. CASE EditRow
  <2>1. PICK d \in RowEdits(draft) : Change(d)
    BY <1>2 DEF EditRow
  <2> QED BY <1>0, <2>1, RowsEdited, AfterChange
<1>3. CASE AddRow
  BY <1>0, <1>3, RowAdded, AfterChange DEF AddRow
<1>4. CASE EditStep
  <2>1. PICK d \in StepEdits(draft) : Change(d)
    BY <1>4 DEF EditStep
  <2> QED BY <1>0, <2>1, StepsEdited, AfterChange
<1>5. CASE AddStep
  BY <1>0, <1>5, StepAdded, AfterChange DEF AddStep
<1>6. CASE Save
  <2> DEFINE d == Hydrated(Stored(draft))
  <2>1. draft' = d /\ saved' = TRUE /\ base' = base /\ target' = target /\ edits' = edits
    BY <1>6 DEF Save
  <2>2. WellFormed(Copied(draft))
    BY <1>0, CopiedOf
  <2>3. WellFormed(Copied(Copied(draft)))
    BY <2>2, CopiedOf
  <2>4. WellFormed(d)
    BY <2>3 DEF Hydrated, Stored
  <2> HIDE DEF d
  <2>5. d \in Documents(Nat)
    BY <2>4 DEF WellFormed
  <2>6. TypeOK'
    BY <2>1, <2>5 DEF WellFormedInv, TypeOK
  <2>7. WellFormed(draft)' /\ (target # None => WellFormed(target))'
    BY <2>1, <2>4 DEF WellFormedInv
  <2> QED BY <2>6, <2>7 DEF WellFormedInv
<1>7. CASE Publish
  <2> DEFINE d == Snapshot(draft)
  <2>1. target' = d /\ draft' = draft /\ saved' = saved /\ base' = base /\ edits' = edits
    BY <1>7 DEF Publish
  <2>2. WellFormed(d)
    BY <1>0, CopiedOf DEF Snapshot
  <2> HIDE DEF d
  <2>3. d \in Documents(Nat)
    BY <2>2 DEF WellFormed
  <2>4. TypeOK'
    BY <2>1, <2>3 DEF WellFormedInv, TypeOK
  <2>5. WellFormed(draft)' /\ (target # None => WellFormed(target))'
    BY <1>0, <2>1, <2>2
  <2> QED BY <2>4, <2>5 DEF WellFormedInv
<1>8. CASE UNCHANGED vars
  <2>1. draft' = draft /\ target' = target /\ TypeOK'
    BY <1>8 DEF vars, TypeOK, WellFormedInv
  <2> QED BY <2>1 DEF WellFormedInv
<1> QED BY <1>1, <1>2, <1>3, <1>4, <1>5, <1>6, <1>7, <1>8 DEF Next

\* A draft starts as a copy of a version.
LEMMA WellFormedStarts == Init => WellFormedInv
<1> SUFFICES ASSUME Init PROVE WellFormedInv
  OBVIOUS
<1>1. WellFormed(base)
  BY VersionsOf DEF Init
<1>2. WellFormed(Copied(base))
  BY <1>1, CopiedOf
<1>3. WellFormed(Copied(Copied(base)))
  BY <1>2, CopiedOf
<1>4. WellFormed(Copied(Copied(Copied(base))))
  BY <1>3, CopiedOf
<1>5. WellFormed(draft)
  BY <1>4 DEF Init, Hydrated, Stored, FromVersion
<1>6. TypeOK
  <2>1. draft \in Documents(Nat)
    BY <1>5 DEF WellFormed
  <2>2. edits \in 0..MaxEdits
    BY BoundsAssumption DEF Init
  <2> QED BY <2>1, <2>2 DEF Init, TypeOK
<1> QED BY <1>5, <1>6 DEF WellFormedInv, Init

\* However it is edited and copied, a draft has rows with keys of their own, its actions use
\* rows that are there, each at most once, and so has the version published from it: removing
\* a row takes it out of every action, and a copy gives rows and uses the same new keys.
THEOREM AlwaysWellFormed == Spec => []WellFormedInv
<1> QED BY WellFormedStarts, WellFormedPreserved, PTL DEF Spec

\* The type invariant.
THEOREM TypeCorrect == Spec => []TypeOK
<1>1. WellFormedInv => TypeOK
  BY DEF WellFormedInv
<1> QED BY <1>1, AlwaysWellFormed, PTL

-----------------------------------------------------------------------------
(* The editor and the server *)

\* An action of a document is one of its actions.
LEMMA ActionsIn ==
    ASSUME NEW d, WellFormed(d), NEW a \in ActionsOf(d)
    PROVE  a \in ActionsOver(Nat) /\ ToSet(a.inputs) \subseteq Keys(d) /\ IsInjective(a.inputs)
<1>1. PICK i \in DOMAIN d.instructions : a \in ToSet(d.instructions[i].actions)
  BY DEF ActionsOf
<1>2. PICK n \in DOMAIN d.instructions[i].actions : d.instructions[i].actions[n] = a
  BY <1>1 DEF ToSet
<1> QED BY <1>2, StepsOf

\* What the editor sends the server takes.
LEMMA SentIsTaken ==
    ASSUME NEW d, WellFormed(d), Sendable(d)
    PROVE  Acceptable(d)
<1>1. \A i \in DOMAIN d.ingredients : d.ingredients[i] \in RowsOver(Nat)
  BY RowsOf, ElementOfSeq
<1>2. \A i, j \in DOMAIN d.ingredients : i # j => d.ingredients[i].key # d.ingredients[j].key
  BY DEF WellFormed, WellKeyed
<1>3. \A i \in DOMAIN d.ingredients : d.ingredients[i].ingredient \in Ingredients \cup {Requested}
  BY <1>1 DEF Sendable, RowsOver
<1>4. ASSUME NEW a \in ActionsOf(d)
      PROVE  /\ a.type \in ActionTypes /\ IsInjective(a.inputs)
             /\ \A k \in ToSet(a.inputs) : \E i \in DOMAIN d.ingredients :
                    d.ingredients[i].key = k /\ d.ingredients[i].ingredient # Requested
  <2>1. a \in ActionsOver(Nat)
    BY ActionsIn
  <2>2. a.type # None /\ IsInjective(a.inputs)
        /\ ToSet(a.inputs) \subseteq {d.ingredients[i].key : i \in Options(d)}
    BY DEF Sendable
  <2>3. a.type \in ActionTypes
    BY <2>1, <2>2 DEF ActionsOver
  <2>4. \A i \in Options(d) : i \in DOMAIN d.ingredients /\ d.ingredients[i].ingredient # Requested
    BY IngredientsAssumption DEF Options
  <2>5. \A k \in ToSet(a.inputs) : \E i \in Options(d) : d.ingredients[i].key = k
    BY <2>2
  <2> QED BY <2>2, <2>3, <2>4, <2>5
<1> QED BY <1>2, <1>3, <1>4 DEF Acceptable

\* What the editor presents the server publishes, and it has a fingerprint.
LEMMA PresentedIsPublished ==
    ASSUME NEW d, WellFormed(d), Presentable(d)
    PROVE  Publishable(d) /\ IsComplete(d)
<1>1. \A i \in DOMAIN d.ingredients : d.ingredients[i] \in RowsOver(Nat)
  BY RowsOf, ElementOfSeq
<1>2. /\ d.ingredients # <<>> /\ d.instructions # <<>>
      /\ \A i \in DOMAIN d.ingredients : /\ d.ingredients[i].measure # None
                                         /\ d.ingredients[i].ingredient # Requested
                                         /\ d.ingredients[i].ingredient # None
      /\ \A i \in DOMAIN d.instructions : /\ d.instructions[i].text # None
                                          /\ d.instructions[i].actions # <<>>
  BY DEF Presentable, Sendable
<1>3. \A i \in DOMAIN d.ingredients : d.ingredients[i].ingredient \in Ingredients
  BY <1>1, <1>2 DEF RowsOver
<1>4. Publishable(d)
  BY <1>2, <1>3 DEF Publishable
<1>5. \A i \in DOMAIN d.ingredients : IsMeasure(d.ingredients[i].measure, "ingredient_amount")
  <2>1. \A i \in DOMAIN d.ingredients : d.ingredients[i].measure \in Amounts
    BY <1>1, <1>2 DEF RowsOver
  <2> QED BY <2>1, MeasuresAssumption
<1>6. \A i \in DOMAIN d.ingredients : \A j \in 1..(i - 1) : d.ingredients[j].key # d.ingredients[i].key
  <2>1. Len(d.ingredients) \in Nat /\ DOMAIN d.ingredients = 1..Len(d.ingredients)
    BY RowsOf
  <2>2. \A i \in DOMAIN d.ingredients : \A j \in 1..(i - 1) : j \in DOMAIN d.ingredients /\ j # i
    BY <2>1
  <2> QED BY <2>2 DEF WellFormed, WellKeyed
<1>7. ASSUME NEW i \in DOMAIN d.instructions, NEW a \in ToSet(d.instructions[i].actions)
      PROVE  /\ a.type # None
             /\ ToSet(a.inputs) \subseteq Keys(d) /\ IsInjective(a.inputs)
             /\ a.duration # None => IsMeasure(a.duration, "duration")
             /\ a.temperature # None => IsMeasure(a.temperature, "temperature")
  <2>1. a \in ActionsOf(d)
    BY DEF ActionsOf
  <2>2. a \in ActionsOver(Nat) /\ ToSet(a.inputs) \subseteq Keys(d) /\ IsInjective(a.inputs)
    BY <2>1, ActionsIn
  <2>3. a.type # None
    BY <2>1 DEF Presentable, Sendable
  <2>4. a.duration \in Durations \cup {None} /\ a.temperature \in Temperatures \cup {None}
    BY <2>2 DEF ActionsOver
  <2> QED BY <2>2, <2>3, <2>4, MeasuresAssumption
<1>8. IsComplete(d)
  BY <1>2, <1>3, <1>5, <1>6, <1>7 DEF IsComplete
<1> QED BY <1>4, <1>8

\* The checks of the editor and those of the server are written apart, in two languages: for
\* every draft that editing and copying can make, what the first lets through the second does.
THEOREM EditorAndServerAgree == Spec => []EditorAgreesWithServer
<1>1. WellFormedInv => EditorAgreesWithServer
  BY SentIsTaken, PresentedIsPublished DEF WellFormedInv, EditorAgreesWithServer
<1> QED BY <1>1, AlwaysWellFormed, PTL

-----------------------------------------------------------------------------
(* Recursion over numbers *)

Recurs(first, Next_, f) == f[0] = first /\ \A n \in Nat : f[n + 1] = Next_[n + 1][f[n]]

\* A value for every number, each worked out from the one before, is a function.
LEMMA RecursionOver ==
    ASSUME NEW S, NEW first \in S, NEW Next_ \in [Nat -> [S -> S]]
    PROVE  \E f \in [Nat -> S] : Recurs(first, Next_, f)
<1> DEFINE Upto(n, g) == /\ g \in [0..n -> S] /\ g[0] = first
                         /\ \A m \in 0..n : m + 1 \in 0..n => g[m + 1] = Next_[m + 1][g[m]]
<1>1. \A n \in Nat : \E g : Upto(n, g)
  <2> DEFINE Bad == {n \in Nat : ~ \E g : Upto(n, g)}
  <2> SUFFICES ASSUME Bad # {} PROVE FALSE
    OBVIOUS
  <2>1. PICK n \in Bad : \A k \in Bad : n <= k
    <3>1. Bad \subseteq Nat
      OBVIOUS
    <3> HIDE DEF Bad
    <3> QED BY <3>1, LeastOf
  <2>2. n # 0
    <3> DEFINE g == [m \in 0..0 |-> first]
    <3>1. Upto(0, g)
      OBVIOUS
    <3> QED BY <2>1, <3>1
  <2>3. n \in Nat /\ n - 1 \in Nat /\ n - 1 \notin Bad
    <3>1. n \in Nat
      BY <2>1
    <3>2. n - 1 \in Nat /\ ~(n <= n - 1)
      BY <2>2, <3>1
    <3> HIDE DEF Bad
    <3> QED BY <2>1, <3>1, <3>2
  <2>4. PICK g : Upto(n - 1, g)
    BY <2>3
  <2> DEFINE h == [m \in 0..n |-> IF m = n THEN Next_[n][g[n - 1]] ELSE g[m]]
  <2>5. g \in [0..(n - 1) -> S] /\ g[n - 1] \in S
    BY <2>3, <2>4
  <2>6. h \in [0..n -> S]
    BY <2>3, <2>5
  <2>7. h[0] = first
    BY <2>2, <2>3, <2>4
  <2>8. ASSUME NEW m \in 0..n, m + 1 \in 0..n PROVE h[m + 1] = Next_[m + 1][h[m]]
    <3>1. m \in 0..(n - 1) /\ h[m] = g[m]
      BY <2>3, <2>8
    <3>2. CASE m + 1 = n
      <4>1. m = n - 1
        BY <2>3, <3>1, <3>2
      <4>2. h[n] = Next_[n][g[n - 1]]
        BY <2>3
      <4> QED BY <3>1, <3>2, <4>1, <4>2
    <3>3. CASE m + 1 # n
      <4>1. m + 1 \in 0..(n - 1)
        BY <2>3, <2>8, <3>3
      <4>2. h[m + 1] = g[m + 1]
        BY <2>8, <3>3
      <4> QED BY <2>4, <3>1, <4>1, <4>2
    <3> QED BY <3>2, <3>3
  <2>9. Upto(n, h)
    BY <2>6, <2>7, <2>8
  <2> QED BY <2>1, <2>9
<1>2. ASSUME NEW n \in Nat, NEW m \in Nat, n <= m, NEW g, Upto(n, g), NEW h, Upto(m, h), NEW k \in 0..n
      PROVE  g[k] = h[k]
  <2> DEFINE Bad == {j \in 0..n : g[j] # h[j]}
  <2> SUFFICES ASSUME Bad # {} PROVE FALSE
    OBVIOUS
  <2>1. PICK j \in Bad : \A i \in Bad : j <= i
    <3>1. Bad \subseteq Nat
      OBVIOUS
    <3> HIDE DEF Bad
    <3> QED BY <3>1, LeastOf
  <2>2. j # 0
    BY <1>2, <2>1
  <2>3. j - 1 \in 0..n /\ j - 1 \in 0..m /\ (j - 1) + 1 = j /\ j \in 0..n /\ j \in 0..m
    BY <1>2, <2>1, <2>2
  <2>4. j - 1 \notin Bad
    BY <2>1, <2>3
  <2>5. g[j - 1] = h[j - 1]
    BY <2>3, <2>4
  <2>6. g[j] = Next_[j][g[j - 1]] /\ h[j] = Next_[j][h[j - 1]]
    BY <1>2, <2>3
  <2> QED BY <2>1, <2>5, <2>6
<1> DEFINE G(n) == CHOOSE g : Upto(n, g)
           f == [n \in Nat |-> G(n)[n]]
<1>3. \A n \in Nat : Upto(n, G(n))
  <2> HIDE DEF Upto
  <2> QED BY <1>1
<1> HIDE DEF G
<1>4. \A n \in Nat : G(n)[n] \in S
  BY <1>3
<1>5. f[0] = first
  BY <1>3
<1>6. ASSUME NEW n \in Nat PROVE f[n + 1] = Next_[n + 1][f[n]]
  <2>1. n + 1 \in Nat /\ n \in 0..(n + 1) /\ n + 1 \in 0..(n + 1) /\ n <= n + 1 /\ n \in 0..n
    OBVIOUS
  <2>2. G(n + 1)[n + 1] = Next_[n + 1][G(n + 1)[n]]
    BY <1>3, <2>1
  <2>3. G(n)[n] = G(n + 1)[n]
    <3>1. Upto(n, G(n)) /\ Upto(n + 1, G(n + 1))
      BY <1>3, <2>1
    <3> HIDE DEF Upto
    <3> QED BY <1>2, <2>1, <3>1
  <2> QED BY <2>1, <2>2, <2>3
<1>7. f \in [Nat -> S]
  BY <1>4
<1> HIDE DEF f
<1> QED BY <1>5, <1>6, <1>7 DEF Recurs

-----------------------------------------------------------------------------
(* Pairs *)

\* Pairs of A and B that share no member.
Matches(M, A, B) == M \subseteq A \X B /\ \A p, q \in M : p[1] = q[1] <=> p[2] = q[2]

\* Places of the same number are paired, as far as the shorter side goes.
LEMMA RestPaired ==
    ASSUME NEW A, NEW B, A \subseteq Nat, B \subseteq Nat, IsFiniteSet(A), IsFiniteSet(B)
    PROVE  /\ Matches(PairRest(A, B), A, B)
           /\ Cardinality(A) <= Cardinality(B) => Lefts(PairRest(A, B)) = A
           /\ Cardinality(B) <= Cardinality(A) => Rights(PairRest(A, B)) = B
<1> DEFINE M == PairRest(A, B)
<1>1. ASSUME NEW S, S \subseteq Nat, IsFiniteSet(S), NEW i \in S, NEW j \in S, Rank(S, i) = Rank(S, j)
      PROVE  i = j
  <2>1. Nth(S, Rank(S, i)) = i /\ Nth(S, Rank(S, j)) = j
    BY <1>1, NthOfRank
  <2> QED BY <1>1, <2>1
<1>2. Matches(M, A, B)
  <2>1. M \subseteq A \X B /\ \A p \in M : Rank(A, p[1]) = Rank(B, p[2])
    BY DEF PairRest
  <2>2. \A p \in M : p[1] \in A /\ p[2] \in B
    BY <2>1
  <2> HIDE DEF M
  <2>3. \A p, q \in M : p[1] = q[1] => p[2] = q[2]
    BY <1>1, <2>1, <2>2
  <2>4. \A p, q \in M : p[2] = q[2] => p[1] = q[1]
    BY <1>1, <2>1, <2>2
  <2> QED BY <2>1, <2>3, <2>4 DEF Matches
<1>3. Cardinality(A) \in Nat /\ Cardinality(B) \in Nat
  BY FS_CardinalityType
<1>4. Lefts(M) \subseteq A /\ Rights(M) \subseteq B
  BY <1>2 DEF Matches, Lefts, Rights
<1>5. ASSUME Cardinality(A) <= Cardinality(B), NEW i \in A PROVE i \in Lefts(M)
  <2>1. Rank(A, i) \in 1..Cardinality(B)
    <3>1. \A k \in A : Rank(A, k) \in 1..Cardinality(A)
      BY RanksOf
    <3> QED BY <1>3, <1>5, <3>1
  <2>2. Nth(B, Rank(A, i)) \in B /\ Rank(B, Nth(B, Rank(A, i))) = Rank(A, i)
    BY <2>1, NthOf
  <2>3. <<i, Nth(B, Rank(A, i))>> \in M
    BY <2>2 DEF PairRest
  <2> HIDE DEF M
  <2> QED BY <2>3 DEF Lefts
<1>6. ASSUME Cardinality(B) <= Cardinality(A), NEW j \in B PROVE j \in Rights(M)
  <2>1. Rank(B, j) \in 1..Cardinality(A)
    <3>1. \A k \in B : Rank(B, k) \in 1..Cardinality(B)
      BY RanksOf
    <3> QED BY <1>3, <1>6, <3>1
  <2>2. Nth(A, Rank(B, j)) \in A /\ Rank(A, Nth(A, Rank(B, j))) = Rank(B, j)
    BY <2>1, NthOf
  <2>3. <<Nth(A, Rank(B, j)), j>> \in M
    BY <2>2 DEF PairRest
  <2> HIDE DEF M
  <2> QED BY <2>3 DEF Rights
<1> QED BY <1>2, <1>4, <1>5, <1>6

\* The greatest of a set of numbers up to a bound.
LEMMA GreatestOf ==
    ASSUME NEW n \in Nat, NEW S, S \subseteq 0..n, S # {}
    PROVE  Max(S) \in S /\ \A x \in S : x <= Max(S)
<1> DEFINE T == {n - x : x \in S}
<1>1. T \subseteq Nat /\ T # {}
  OBVIOUS
<1>2. PICK t \in T : \A u \in T : t <= u
  <2> HIDE DEF T
  <2> QED BY <1>1, LeastOf
<1>3. PICK x \in S : t = n - x
  BY <1>2
<1>4. \A y \in S : x >= y
  <2> TAKE y \in S
  <2>1. n - x <= n - y
    BY <1>2, <1>3
  <2>2. x \in 0..n /\ y \in 0..n
    OBVIOUS
  <2> QED BY <2>1, <2>2
<1>5. Max(S) \in S /\ \A y \in S : Max(S) >= y
  BY <1>4 DEF Max
<1>6. \A y \in S : y \in Nat
  OBVIOUS
<1> QED BY <1>5, <1>6

\* What is free for n of B after the pairs so far.
FreeFor(n, B, same, pairs) == {j \in B : <<n, j>> \in same /\ \A p \in pairs : p[2] # j}

\* Row after row takes the nearest that is free.
IsPairing(A, B, same, f) ==
    /\ f[0] = {}
    /\ \A n \in Nat :
         LET free == FreeFor(n + 1, B, same, f[n]) IN
         f[n + 1] = IF n + 1 \in A /\ free # {} THEN f[n] \cup {<<n + 1, Nearest(n + 1, free)>>}
                    ELSE f[n]

\* A nearest one there always is.
LEMMA NearestOf ==
    ASSUME NEW i \in Nat, NEW C, C \subseteq Nat, C # {}
    PROVE  /\ Nearest(i, C) \in C
           /\ \A k \in C : \/ Distance(i, Nearest(i, C)) < Distance(i, k)
                           \/ Distance(i, Nearest(i, C)) = Distance(i, k) /\ Nearest(i, C) <= k
<1> DEFINE D == {Distance(i, j) : j \in C}
<1>1. \A j \in C : Distance(i, j) \in Nat
  BY DEF Distance
<1>2. D \subseteq Nat /\ D # {}
  BY <1>1
<1>3. PICK m \in D : \A k \in D : m <= k
  <2> HIDE DEF D
  <2> QED BY <1>2, LeastOf
<1> DEFINE At_ == {j \in C : Distance(i, j) = m}
<1>4. At_ \subseteq Nat /\ At_ # {}
  BY <1>3
<1>5. PICK j \in At_ : \A k \in At_ : j <= k
  <2> HIDE DEF At_
  <2> QED BY <1>4, LeastOf
<1>6. ASSUME NEW k \in C
      PROVE  \/ Distance(i, j) < Distance(i, k)
             \/ Distance(i, j) = Distance(i, k) /\ j <= k
  <2>1. m <= Distance(i, k) /\ m \in Nat /\ Distance(i, k) \in Nat /\ Distance(i, j) = m
    BY <1>1, <1>2, <1>3, <1>5
  <2>2. CASE Distance(i, k) = m
    BY <1>5, <2>1, <2>2
  <2>3. CASE Distance(i, k) # m
    BY <2>1, <2>3
  <2> QED BY <2>2, <2>3
<1>7. j \in C
  BY <1>5
<1> HIDE DEF At_, D
<1> QED BY <1>6, <1>7 DEF Nearest

\* The function PairExact goes by.
LEMMA PairExactIs ==
    ASSUME NEW A, NEW B, A \subseteq Nat, B \subseteq Nat, NEW same
    PROVE  \E f : IsPairing(A, B, same, f) /\ PairExact(A, B, same) = f[Max(A \cup {0})]
<1> DEFINE S == SUBSET (A \X B)
           Free(n, s) == FreeFor(n, B, same, s)
           Step(n, s) == IF n \in A /\ Free(n, s) # {} THEN s \cup {<<n, Nearest(n, Free(n, s))>>}
                         ELSE s
           Next_ == [n \in Nat |-> [s \in S |-> Step(n, s)]]
           Body(f) == [n \in Nat |->
               IF n = 0 THEN {}
               ELSE LET free == {j \in B : <<n, j>> \in same /\ \A p \in f[n - 1] : p[2] # j}
                    IN IF n \in A /\ free # {} THEN f[n - 1] \cup {<<n, Nearest(n, free)>>}
                       ELSE f[n - 1]]
<1>1. ASSUME NEW n \in Nat, NEW s \in S PROVE Step(n, s) \in S
  <2>1. Free(n, s) \subseteq B
    BY DEF FreeFor
  <2>2. Free(n, s) # {} => Nearest(n, Free(n, s)) \in B
    <3> HIDE DEF Free
    <3> QED BY <2>1, NearestOf
  <2> HIDE DEF Free
  <2> QED BY <2>2
<1>2. Next_ \in [Nat -> [S -> S]]
  <2> HIDE DEF Step, S
  <2> QED BY <1>1
<1>3. {} \in S
  OBVIOUS
<1>4. PICK f \in [Nat -> S] : f[0] = {} /\ \A n \in Nat : f[n + 1] = Next_[n + 1][f[n]]
  <2> HIDE DEF S, Next_
  <2>1. \E f \in [Nat -> S] : Recurs({}, Next_, f)
    BY <1>2, <1>3, RecursionOver
  <2> QED BY <2>1 DEF Recurs
<1>5. \A n \in Nat : f[n + 1] = Step(n + 1, f[n])
  <2> HIDE DEF S, Step
  <2> TAKE n \in Nat
  <2>1. n + 1 \in Nat /\ f[n] \in S
    OBVIOUS
  <2>2. Next_[n + 1] = [s \in S |-> Step(n + 1, s)]
    BY <2>1
  <2> HIDE DEF Next_
  <2>3. f[n + 1] = Next_[n + 1][f[n]]
    BY <1>4
  <2> QED BY <2>1, <2>2, <2>3
<1>6. \A n \in Nat : n # 0 => n - 1 \in Nat /\ (n - 1) + 1 = n
  OBVIOUS
<1>7. f = Body(f)
  <2>1. \A n \in Nat : f[n] = IF n = 0 THEN {} ELSE Step(n, f[n - 1])
    <3> HIDE DEF Step, S
    <3> QED BY <1>4, <1>5, <1>6
  <2>2. \A n \in Nat : Body(f)[n] = IF n = 0 THEN {} ELSE Step(n, f[n - 1])
    BY DEF FreeFor
  <2>3. DOMAIN f = Nat /\ DOMAIN Body(f) = Nat /\ f = [n \in Nat |-> f[n]]
    BY <1>4
  <2> HIDE DEF Body, Step, S
  <2>4. Body(f) = [n \in Nat |-> Body(f)[n]]
    BY DEF Body
  <2> QED BY <2>1, <2>2, <2>3, <2>4
<1> DEFINE g == CHOOSE h : h = Body(h)
<1>8. g = Body(g)
  <2> HIDE DEF Body
  <2> QED BY <1>7
<1>9. PairExact(A, B, same) = g[Max(A \cup {0})]
  BY DEF PairExact
<1>10. IsPairing(A, B, same, g)
  <2>1. \A n \in Nat : g[n] = Body(g)[n]
    <3> HIDE DEF Body, g
    <3> QED BY <1>8
  <2> HIDE DEF g
  <2>2. g[0] = {}
    BY <2>1
  <2>3. ASSUME NEW n \in Nat PROVE g[n + 1] = Step(n + 1, g[n])
    <3>1. n + 1 \in Nat /\ n + 1 # 0 /\ (n + 1) - 1 = n
      OBVIOUS
    <3>2. g[n + 1] = Body(g)[n + 1]
      BY <2>1, <3>1
    <3>3. Body(g)[n + 1] = Step(n + 1, g[n])
      BY <3>1 DEF FreeFor
    <3> QED BY <3>2, <3>3
  <2> HIDE DEF Body
  <2> QED BY <2>2, <2>3 DEF IsPairing
<1> HIDE DEF g
<1> QED BY <1>9, <1>10

\* What is paired is as the pairs in same, and nothing is paired twice.
LEMMA ExactPaired ==
    ASSUME NEW A, NEW B, A \subseteq Nat, B \subseteq Nat, NEW same,
           NEW last \in Nat, A \subseteq 0..last
    PROVE  Matches(PairExact(A, B, same), A, B) /\ PairExact(A, B, same) \subseteq same
<1> DEFINE Good(n, s) == /\ Matches(s, A, B) /\ s \subseteq same
                         /\ \A p \in s : p[1] <= n
<1>1. PICK f : IsPairing(A, B, same, f) /\ PairExact(A, B, same) = f[Max(A \cup {0})]
  BY PairExactIs
<1> DEFINE Bad == {n \in Nat : ~Good(n, f[n])}
<1>2. Good(0, f[0])
  BY <1>1 DEF IsPairing, Matches
<1>3. ASSUME NEW n \in Nat, NEW s, Good(n, s),
             NEW t, LET free == FreeFor(n + 1, B, same, s) IN
                    t = IF n + 1 \in A /\ free # {} THEN s \cup {<<n + 1, Nearest(n + 1, free)>>} ELSE s
      PROVE  Good(n + 1, t)
  <2> DEFINE free == FreeFor(n + 1, B, same, s)
             j == Nearest(n + 1, free)
  <2>1. \A p \in s : p[1] \in Nat /\ p[1] <= n /\ p[1] <= n + 1 /\ p[1] # n + 1
    <3> TAKE p \in s
    <3>1. p[1] \in A /\ p[1] <= n
      BY <1>3 DEF Matches
    <3>2. p[1] \in Nat
      BY <3>1
    <3> QED BY <3>1, <3>2
  <2>2. CASE ~(n + 1 \in A /\ free # {})
    BY <1>3, <2>1, <2>2
  <2>3. CASE n + 1 \in A /\ free # {}
    <3>1. free \subseteq Nat
      BY DEF FreeFor
    <3>2. j \in free
      <4> HIDE DEF free
      <4> QED BY <2>3, <3>1, NearestOf
    <3>3. j \in B /\ <<n + 1, j>> \in same /\ \A p \in s : p[2] # j
      <4> HIDE DEF j
      <4> QED BY <3>2 DEF FreeFor
    <3>4. t = s \cup {<<n + 1, j>>}
      BY <1>3, <2>3
    <3> HIDE DEF free, j
    <3>5. t \subseteq A \X B /\ t \subseteq same /\ \A p \in t : p[1] <= n + 1
      BY <1>3, <2>1, <2>3, <3>3, <3>4 DEF Matches
    <3>6. \A p \in s : p[1] # n + 1 /\ p[2] # j
      BY <2>1, <3>3
    <3>7. \A p, q \in t : p[1] = q[1] <=> p[2] = q[2]
      BY <1>3, <3>4, <3>6 DEF Matches
    <3> QED BY <3>5, <3>7 DEF Matches
  <2> QED BY <2>2, <2>3
<1>4. ASSUME NEW n \in Nat, Good(n, f[n]) PROVE Good(n + 1, f[n + 1])
  <2> HIDE DEF Good
  <2> QED BY <1>1, <1>3, <1>4 DEF IsPairing
<1>5. Bad = {}
  <2> SUFFICES ASSUME Bad # {} PROVE FALSE
    OBVIOUS
  <2>1. Bad \subseteq Nat
    OBVIOUS
  <2> HIDE DEF Good
  <2>2. PICK n \in Bad : \A k \in Bad : n <= k
    <3> HIDE DEF Bad
    <3> QED BY <2>1, LeastOf
  <2>3. n # 0
    BY <1>2, <2>2
  <2>4. n \in Nat /\ n - 1 \in Nat /\ (n - 1) + 1 = n /\ ~(n <= n - 1)
    BY <2>1, <2>2, <2>3
  <2>5. n - 1 \notin Bad
    <3> HIDE DEF Bad
    <3> QED BY <2>2, <2>4
  <2>6. Good(n - 1, f[n - 1])
    BY <2>4, <2>5
  <2>7. Good(n, f[n])
    BY <1>4, <2>4, <2>6
  <2> QED BY <2>2, <2>7
<1>6. Max(A \cup {0}) \in Nat
  <2>1. A \cup {0} \subseteq 0..last /\ A \cup {0} # {}
    OBVIOUS
  <2> DEFINE m == Max(A \cup {0})
  <2>2. m \in A \cup {0}
    BY <2>1, GreatestOf
  <2> HIDE DEF m
  <2>3. m \in Nat
    BY <2>2
  <2> QED BY <2>3 DEF m
<1>7. Good(Max(A \cup {0}), f[Max(A \cup {0})])
  <2> HIDE DEF Good
  <2> QED BY <1>5, <1>6
<1> QED BY <1>1, <1>7

\* Of the same places on both sides, each alike with itself, each takes its own.
LEMMA ExactOfSame ==
    ASSUME NEW A, A \subseteq Nat, NEW last \in Nat, A \subseteq 1..last,
           NEW same, \A i \in A : <<i, i>> \in same
    PROVE  PairExact(A, A, same) = {<<i, i>> : i \in A}
<1> DEFINE Upto(n) == {<<i, i>> : i \in {i \in A : i <= n}}
<1>1. PICK f : IsPairing(A, A, same, f) /\ PairExact(A, A, same) = f[Max(A \cup {0})]
  BY PairExactIs
<1> DEFINE Bad == {n \in Nat : f[n] # Upto(n)}
<1>2. f[0] = Upto(0)
  <2>1. \A i \in A : ~(i <= 0)
    OBVIOUS
  <2> QED BY <1>1, <2>1 DEF IsPairing
<1>3. ASSUME NEW n \in Nat, f[n] = Upto(n) PROVE f[n + 1] = Upto(n + 1)
  <2> DEFINE free == FreeFor(n + 1, A, same, f[n])
             j == Nearest(n + 1, free)
  <2>1. f[n + 1] = IF n + 1 \in A /\ free # {} THEN f[n] \cup {<<n + 1, j>>} ELSE f[n]
    BY <1>1 DEF IsPairing
  <2>2. \A i \in A : i <= n + 1 <=> (i <= n \/ i = n + 1)
    OBVIOUS
  <2>3. CASE n + 1 \notin A
    <3>1. {i \in A : i <= n + 1} = {i \in A : i <= n}
      BY <2>2, <2>3
    <3> QED BY <1>3, <2>1, <2>3, <3>1
  <2>4. CASE n + 1 \in A
    <3>1. \A p \in f[n] : p[2] # n + 1
      BY <1>3
    <3>2. n + 1 \in free
      BY <2>4, <3>1 DEF FreeFor
    <3>3. free \subseteq Nat /\ free # {} /\ n + 1 \in Nat
      BY <3>2 DEF FreeFor
    <3>4. j \in Nat /\ (Distance(n + 1, j) < Distance(n + 1, n + 1) \/
             (Distance(n + 1, j) = Distance(n + 1, n + 1) /\ j <= n + 1))
      <4> HIDE DEF free
      <4>1. /\ Nearest(n + 1, free) \in free
            /\ \A k \in free : \/ Distance(n + 1, Nearest(n + 1, free)) < Distance(n + 1, k)
                               \/ Distance(n + 1, Nearest(n + 1, free)) = Distance(n + 1, k)
                                  /\ Nearest(n + 1, free) <= k
        BY <3>3, NearestOf
      <4> QED BY <3>2, <3>3, <4>1
    <3> HIDE DEF free, j
    <3>5. j = n + 1
      BY <3>4 DEF Distance
    <3>6. f[n + 1] = f[n] \cup {<<n + 1, n + 1>>}
      BY <2>1, <2>4, <3>3, <3>5
    <3>7. {i \in A : i <= n + 1} = {i \in A : i <= n} \cup {n + 1}
      BY <2>2, <2>4
    <3> QED BY <1>3, <3>6, <3>7
  <2> QED BY <2>3, <2>4
<1>4. Bad = {}
  <2> SUFFICES ASSUME Bad # {} PROVE FALSE
    OBVIOUS
  <2>1. Bad \subseteq Nat
    OBVIOUS
  <2> HIDE DEF Upto
  <2>2. PICK n \in Bad : \A k \in Bad : n <= k
    <3> HIDE DEF Bad
    <3> QED BY <2>1, LeastOf
  <2>3. n # 0
    BY <1>2, <2>2
  <2>4. n \in Nat /\ n - 1 \in Nat /\ (n - 1) + 1 = n /\ ~(n <= n - 1)
    BY <2>1, <2>2, <2>3
  <2>5. n - 1 \notin Bad
    <3> HIDE DEF Bad
    <3> QED BY <2>2, <2>4
  <2>6. f[n - 1] = Upto(n - 1)
    BY <2>4, <2>5
  <2>7. f[n] = Upto(n)
    BY <1>3, <2>4, <2>6
  <2> QED BY <2>2, <2>7
<1>5. Max(A \cup {0}) \in Nat /\ \A i \in A : i <= Max(A \cup {0})
  <2>1. A \cup {0} \subseteq 0..last /\ A \cup {0} # {}
    OBVIOUS
  <2> DEFINE m == Max(A \cup {0})
  <2>2. m \in A \cup {0} /\ \A i \in A \cup {0} : i <= m
    BY <2>1, GreatestOf
  <2> HIDE DEF m
  <2>3. m \in Nat /\ \A i \in A : i <= m
    BY <2>2
  <2> QED BY <2>3 DEF m
<1>6. f[Max(A \cup {0})] = Upto(Max(A \cup {0}))
  <2> HIDE DEF Upto
  <2> QED BY <1>4, <1>5
<1>7. {i \in A : i <= Max(A \cup {0})} = A
  BY <1>5
<1> QED BY <1>1, <1>6, <1>7

\* The pairs of a match are a function one to one from those paired on the left.
LEMMA MatchOf ==
    ASSUME NEW A, NEW B, NEW M, Matches(M, A, B), IsFiniteSet(A)
    PROVE  /\ Lefts(M) \subseteq A /\ Rights(M) \subseteq B
           /\ IsFiniteSet(Lefts(M)) /\ IsFiniteSet(Rights(M))
           /\ Cardinality(Lefts(M)) = Cardinality(Rights(M))
           /\ \E f \in Bijection(Lefts(M), Rights(M)) : \A p \in M : f[p[1]] = p[2]
<1> DEFINE L == Lefts(M) R == Rights(M)
           f == [i \in L |-> (CHOOSE p \in M : p[1] = i)[2]]
<1>1. L \subseteq A /\ R \subseteq B
  BY DEF Matches, Lefts, Rights
<1>2. IsFiniteSet(L)
  BY <1>1, FS_Subset
<1>3. \A i \in L : (CHOOSE p \in M : p[1] = i) \in M /\ (CHOOSE p \in M : p[1] = i)[1] = i
  BY DEF Lefts
<1>4. ASSUME NEW p \in M PROVE p[1] \in L /\ p[2] \in R /\ f[p[1]] = p[2]
  <2>1. p[1] \in L /\ p[2] \in R
    BY DEF Lefts, Rights
  <2> HIDE DEF L, R
  <2>2. f[p[1]] = (CHOOSE q \in M : q[1] = p[1])[2]
    BY <2>1
  <2> QED BY <1>3, <2>1, <2>2 DEF Matches
<1>5. \A i \in L : \E p \in M : p[1] = i /\ f[i] = p[2]
  BY <1>3
<1>6. \A j \in R : \E p \in M : p[2] = j
  BY DEF Rights
<1>7. DOMAIN f = L /\ f = [i \in L |-> f[i]]
  OBVIOUS
<1> HIDE DEF f, L, R
<1>8. \A i \in L : f[i] \in R
  BY <1>4, <1>5
<1>9. f \in [L -> R]
  BY <1>7, <1>8
<1>10. \A i, j \in L : f[i] = f[j] => i = j
  BY <1>5 DEF Matches
<1>11. \A j \in R : \E i \in L : f[i] = j
  BY <1>4, <1>6
<1>12. f \in Bijection(L, R)
  BY <1>7, <1>9, <1>10, <1>11 DEF Bijection, Injection, Surjection, IsInjective
<1>13. ExistsBijection(L, R)
  BY <1>12 DEF ExistsBijection
<1>14. IsFiniteSet(R) /\ Cardinality(R) = Cardinality(L)
  BY <1>2, <1>13, FS_Bijection
<1>15. \E g \in Bijection(L, R) : \A p \in M : g[p[1]] = p[2]
  BY <1>4, <1>12
<1> QED BY <1>1, <1>2, <1>14, <1>15 DEF L, R

\* A match that leaves nothing out if both sides are of one size.
FullMatch(M, A, B) ==
    /\ Matches(M, A, B)
    /\ Cardinality(A) = Cardinality(B) => Lefts(M) = A /\ Rights(M) = B

\* What is paired first and the rest in order make one.
LEMMA ExactAndRest ==
    ASSUME NEW A, NEW B, A \subseteq Nat, B \subseteq Nat, IsFiniteSet(A), IsFiniteSet(B),
           NEW E, Matches(E, A, B),
           NEW rest, rest = PairRest(A \ Lefts(E), B \ Rights(E))
    PROVE  FullMatch(E \cup rest, A, B)
<1> DEFINE C == A \ Lefts(E) D == B \ Rights(E)
<1>1. /\ Lefts(E) \subseteq A /\ Rights(E) \subseteq B
      /\ Cardinality(Lefts(E)) = Cardinality(Rights(E))
  BY MatchOf
<1>2. /\ IsFiniteSet(C) /\ Cardinality(C) = Cardinality(A) - Cardinality(Lefts(E))
      /\ IsFiniteSet(D) /\ Cardinality(D) = Cardinality(B) - Cardinality(Rights(E))
  <2>1. A \cap Lefts(E) = Lefts(E) /\ B \cap Rights(E) = Rights(E)
    BY <1>1
  <2>2. IsFiniteSet(C) /\ Cardinality(C) = Cardinality(A) - Cardinality(A \cap Lefts(E))
    BY FS_Difference
  <2>3. IsFiniteSet(D) /\ Cardinality(D) = Cardinality(B) - Cardinality(B \cap Rights(E))
    BY FS_Difference
  <2> QED BY <2>1, <2>2, <2>3
<1>3. C \subseteq Nat /\ D \subseteq Nat
  OBVIOUS
<1>4. C \cap Lefts(E) = {} /\ D \cap Rights(E) = {} /\ C \subseteq A /\ D \subseteq B
  OBVIOUS
<1>5. A = C \cup Lefts(E) /\ B = D \cup Rights(E)
  BY <1>1
<1>6. rest = PairRest(C, D)
  OBVIOUS
<1> HIDE DEF C, D
<1>7. /\ Matches(rest, C, D)
      /\ Cardinality(C) <= Cardinality(D) => Lefts(rest) = C
      /\ Cardinality(D) <= Cardinality(C) => Rights(rest) = D
  BY <1>2, <1>3, <1>6, RestPaired
<1>8. \A p \in E : p[1] \in Lefts(E) /\ p[2] \in Rights(E)
  BY DEF Lefts, Rights
<1>9. \A p \in rest : p[1] \in C /\ p[2] \in D
  BY <1>7 DEF Matches
<1>10. Matches(E \cup rest, A, B)
  <2>1. E \cup rest \subseteq A \X B
    BY <1>4, <1>7 DEF Matches
  <2>2. ASSUME NEW p \in E \cup rest, NEW q \in E \cup rest
        PROVE  p[1] = q[1] <=> p[2] = q[2]
    <3>1. CASE p \in E /\ q \in E
      BY <3>1 DEF Matches
    <3>2. CASE p \in rest /\ q \in rest
      BY <1>7, <3>2 DEF Matches
    <3>3. CASE p \in E /\ q \in rest
      <4>1. p[1] # q[1] /\ p[2] # q[2]
        BY <1>4, <1>8, <1>9, <3>3
      <4> QED BY <4>1
    <3>4. CASE p \in rest /\ q \in E
      <4>1. p[1] # q[1] /\ p[2] # q[2]
        BY <1>4, <1>8, <1>9, <3>4
      <4> QED BY <4>1
    <3> QED BY <3>1, <3>2, <3>3, <3>4
  <2> QED BY <2>1, <2>2 DEF Matches
<1>11. ASSUME Cardinality(A) = Cardinality(B)
       PROVE  Lefts(E \cup rest) = A /\ Rights(E \cup rest) = B
  <2>1. Cardinality(C) = Cardinality(D) /\ Cardinality(C) \in Nat
    <3>1. Cardinality(C) \in Nat
      BY <1>2, FS_CardinalityType
    <3> QED BY <1>1, <1>2, <1>11, <3>1
  <2>2. Lefts(rest) = C /\ Rights(rest) = D
    BY <1>7, <2>1
  <2>3. /\ Lefts(E \cup rest) = Lefts(E) \cup Lefts(rest)
        /\ Rights(E \cup rest) = Rights(E) \cup Rights(rest)
    BY DEF Lefts, Rights
  <2> QED BY <1>5, <2>2, <2>3
<1> QED BY <1>10, <1>11 DEF FullMatch

-----------------------------------------------------------------------------
(* Which rows are the same *)

\* The places of an ingredient in the rows of a document.
OfIngredient(d, x) == {i \in DOMAIN d.ingredients : d.ingredients[i].ingredient = x}

\* Those of one ingredient that are paired as alike.
AlikePairs(b, t, x) ==
    PairExact(OfIngredient(b, x), OfIngredient(t, x),
              {p \in OfIngredient(b, x) \X OfIngredient(t, x) :
                 IngredientSignature(b.ingredients[p[1]]) = IngredientSignature(t.ingredients[p[2]])})

PairsOf(b, t, x) ==
    AlikePairs(b, t, x) \cup PairRest(OfIngredient(b, x) \ Lefts(AlikePairs(b, t, x)),
                                      OfIngredient(t, x) \ Rights(AlikePairs(b, t, x)))

\* The pairs of rows of two documents, ingredient by ingredient.
LEMMA SamePairsIs ==
    ASSUME NEW b, NEW t
    PROVE  SamePairs(b, t) = UNION {PairsOf(b, t, x) : x \in {r.ingredient : r \in ToSet(b.ingredients)}}
BY DEF SamePairs, PairsOf, AlikePairs, OfIngredient

\* The rows of one ingredient.
LEMMA OfIngredientIs ==
    ASSUME NEW d, WellFormed(d), NEW x
    PROVE  /\ OfIngredient(d, x) \subseteq 1..Len(d.ingredients) /\ Len(d.ingredients) \in Nat
           /\ OfIngredient(d, x) \subseteq Nat /\ IsFiniteSet(OfIngredient(d, x))
           /\ OfIngredient(d, x) \subseteq 0..Len(d.ingredients)
<1>1. Len(d.ingredients) \in Nat /\ DOMAIN d.ingredients = 1..Len(d.ingredients)
  BY RowsOf
<1>2. OfIngredient(d, x) \subseteq 1..Len(d.ingredients)
  BY <1>1 DEF OfIngredient
<1>3. IsFiniteSet(1..Len(d.ingredients))
  BY <1>1, FS_Interval
<1>4. IsFiniteSet(OfIngredient(d, x))
  BY <1>2, <1>3, FS_Subset
<1>5. \A i \in 1..Len(d.ingredients) : i \in Nat /\ i \in 0..Len(d.ingredients)
  BY <1>1
<1> QED BY <1>1, <1>2, <1>4, <1>5

\* No row is the same as two.
LEMMA SamePairsMatch ==
    ASSUME NEW b, WellFormed(b), NEW t, WellFormed(t)
    PROVE  /\ Matches(SamePairs(b, t), DOMAIN b.ingredients, DOMAIN t.ingredients)
           /\ \A p \in SamePairs(b, t) : b.ingredients[p[1]].ingredient = t.ingredients[p[2]].ingredient
<1> DEFINE X == {r.ingredient : r \in ToSet(b.ingredients)}
<1>1. ASSUME NEW x PROVE Matches(PairsOf(b, t, x), OfIngredient(b, x), OfIngredient(t, x))
  <2>1. /\ OfIngredient(b, x) \subseteq Nat /\ IsFiniteSet(OfIngredient(b, x))
        /\ OfIngredient(t, x) \subseteq Nat /\ IsFiniteSet(OfIngredient(t, x))
        /\ OfIngredient(b, x) \subseteq 0..Len(b.ingredients) /\ Len(b.ingredients) \in Nat
    BY OfIngredientIs
  <2>2. Matches(AlikePairs(b, t, x), OfIngredient(b, x), OfIngredient(t, x))
    BY <2>1, ExactPaired DEF AlikePairs
  <2>3. FullMatch(PairsOf(b, t, x), OfIngredient(b, x), OfIngredient(t, x))
    BY <2>1, <2>2, ExactAndRest DEF PairsOf
  <2> QED BY <2>3 DEF FullMatch
<1>2. SamePairs(b, t) = UNION {PairsOf(b, t, x) : x \in X}
  BY SamePairsIs
<1>3. ASSUME NEW x, NEW p \in PairsOf(b, t, x)
      PROVE  /\ p \in (DOMAIN b.ingredients) \X (DOMAIN t.ingredients)
             /\ b.ingredients[p[1]].ingredient = x /\ t.ingredients[p[2]].ingredient = x
  <2>1. p \in OfIngredient(b, x) \X OfIngredient(t, x)
    BY <1>1 DEF Matches
  <2>2. p[1] \in OfIngredient(b, x) /\ p[2] \in OfIngredient(t, x) /\ p = <<p[1], p[2]>>
    BY <2>1
  <2> QED BY <2>2 DEF OfIngredient
<1> HIDE DEF X
<1>4. ASSUME NEW p \in SamePairs(b, t)
      PROVE  /\ p \in (DOMAIN b.ingredients) \X (DOMAIN t.ingredients)
             /\ b.ingredients[p[1]].ingredient = t.ingredients[p[2]].ingredient
  BY <1>2, <1>3
<1>5. ASSUME NEW p \in SamePairs(b, t), NEW q \in SamePairs(b, t)
      PROVE  p[1] = q[1] <=> p[2] = q[2]
  <2>1. PICK x : p \in PairsOf(b, t, x)
    BY <1>2
  <2>2. PICK y : q \in PairsOf(b, t, y)
    BY <1>2
  <2>3. p[1] = q[1] \/ p[2] = q[2] => x = y
    BY <1>3, <2>1, <2>2
  <2>4. x = y => (p[1] = q[1] <=> p[2] = q[2])
    BY <1>1, <2>1, <2>2 DEF Matches
  <2> QED BY <2>3, <2>4
<1> QED BY <1>4, <1>5 DEF Matches

\* A comparison without a change of rows pairs every row with one that has its fields.
LEMMA NoRowChange ==
    ASSUME NEW b, WellFormed(b), NEW t, WellFormed(t),
           \A f \in DOMAIN IngredientDiff(b, t) : IngredientDiff(b, t)[f] = {}
    PROVE  /\ Lefts(SamePairs(b, t)) = DOMAIN b.ingredients
           /\ Rights(SamePairs(b, t)) = DOMAIN t.ingredients
           /\ \A p \in SamePairs(b, t) :
                /\ b.ingredients[p[1]].ingredient = t.ingredients[p[2]].ingredient
                /\ b.ingredients[p[1]].measure = t.ingredients[p[2]].measure
                /\ b.ingredients[p[1]].notes = t.ingredients[p[2]].notes
<1> DEFINE same == SamePairs(b, t)
           before == Unpaired(b, Lefts(same))
           after == Unpaired(t, Rights(same))
           replaced == ReplacedPairs(b, t, before, after)
           modified == {p \in same : IngredientFields(b.ingredients[p[1]], t.ingredients[p[2]]) # {}}
           diff == [modified |-> modified, replaced |-> replaced,
                    removed |-> before \ Lefts(replaced), added |-> after \ Rights(replaced)]
<1>1. IngredientDiff(b, t) = diff
  BY DEF IngredientDiff
<1> HIDE DEF modified, replaced, before, after
<1>2. modified = {} /\ replaced = {} /\ before \ Lefts(replaced) = {} /\ after \ Rights(replaced) = {}
  <2>1. \A f \in {"modified", "replaced", "removed", "added"} : diff[f] = {}
    BY <1>1
  <2> QED BY <2>1
<1>3. Lefts({}) = {} /\ Rights({}) = {}
  BY DEF Lefts, Rights
<1>4. before = {} /\ after = {}
  BY <1>2, <1>3
<1>5. Lefts(same) \subseteq DOMAIN b.ingredients /\ Rights(same) \subseteq DOMAIN t.ingredients
  BY SamePairsMatch DEF Matches, Lefts, Rights
<1>6. Lefts(same) = DOMAIN b.ingredients /\ Rights(same) = DOMAIN t.ingredients
  <2> HIDE DEF same
  <2> QED BY <1>4, <1>5 DEF before, after, Unpaired
<1>7. ASSUME NEW p \in same
      PROVE  /\ b.ingredients[p[1]].ingredient = t.ingredients[p[2]].ingredient
             /\ b.ingredients[p[1]].measure = t.ingredients[p[2]].measure
             /\ b.ingredients[p[1]].notes = t.ingredients[p[2]].notes
  <2> DEFINE r == b.ingredients[p[1]] s == t.ingredients[p[2]]
  <2>1. IngredientFields(r, s) = {}
    <3> HIDE DEF same
    <3> QED BY <1>2 DEF modified
  <2>2. p[1] \in DOMAIN b.ingredients /\ p[2] \in DOMAIN t.ingredients
    BY <1>6 DEF Lefts, Rights
  <2>3. r \in RowsOver(Nat) /\ s \in RowsOver(Nat)
    BY <2>2, RowsOf, ElementOfSeq
  <2> HIDE DEF r, s
  <2>4. r["ingredient"] = s["ingredient"] /\ r["measure"] = s["measure"] /\ r["notes"] = s["notes"]
    BY <2>1 DEF IngredientFields
  <2>5. r.ingredient = s.ingredient /\ r.measure = s.measure /\ r.notes = s.notes
    BY <2>3, <2>4 DEF RowsOver
  <2> QED BY <2>5 DEF r, s
<1> QED BY <1>6, <1>7

-----------------------------------------------------------------------------
(* Which actions are the same *)

OfType(s, type) == {n \in DOMAIN s : s[n].type = type}
Types(s) == [n \in DOMAIN s |-> s[n].type]

\* Every action of either list is in a pair, with one of its type.
PairsCover(pairs, x, y) ==
    /\ \A p \in pairs : p[1] \in DOMAIN x /\ p[2] \in DOMAIN y /\ x[p[1]].type = y[p[2]].type
    /\ \A m \in DOMAIN x : \E p \in pairs : p[1] = m
    /\ \A n \in DOMAIN y : \E p \in pairs : p[2] = n

\* Where two lists have each type of action as often, every action is paired with one of its type.
LEMMA ActionsCovered ==
    ASSUME NEW b, NEW t, NEW same, NEW x \in Seq(ActionsOver(Nat)), NEW y \in Seq(ActionsOver(Nat)),
           ToBag(Types(x)) = ToBag(Types(y))
    PROVE  PairsCover(ActionPairs(b, t, same, x, y), x, y)
<1> DEFINE alike == {p \in (DOMAIN x) \X (DOMAIN y) :
                       ActionSignature(b, same, 1, x[p[1]]) = ActionSignature(t, same, 2, y[p[2]])}
           E == PairExact(DOMAIN x, DOMAIN y, alike)
           Rest(type) == PairRest({m \in DOMAIN x \ Lefts(E) : x[m].type = type},
                                  {n \in DOMAIN y \ Rights(E) : y[n].type = type})
           pairs == ActionPairs(b, t, same, x, y)
           X(type) == OfType(x, type)
           Y(type) == OfType(y, type)
           In(type) == {p \in E : x[p[1]].type = type}
<1>1. pairs = E \cup (UNION {Rest(a.type) : a \in ToSet(x)})
  BY DEF ActionPairs
<1>2. /\ Len(x) \in Nat /\ DOMAIN x = 1..Len(x) /\ Len(y) \in Nat /\ DOMAIN y = 1..Len(y)
  BY LenProperties
<1>3. /\ DOMAIN x \subseteq Nat /\ DOMAIN y \subseteq Nat /\ DOMAIN x \subseteq 0..Len(x)
      /\ IsFiniteSet(DOMAIN x) /\ IsFiniteSet(DOMAIN y)
  <2>1. IsFiniteSet(1..Len(x)) /\ IsFiniteSet(1..Len(y))
    BY <1>2, FS_Interval
  <2>2. DOMAIN x \subseteq Nat /\ DOMAIN y \subseteq Nat /\ DOMAIN x \subseteq 0..Len(x)
    BY <1>2
  <2> QED BY <1>2, <2>1, <2>2
<1>4. Matches(E, DOMAIN x, DOMAIN y) /\ E \subseteq alike
  <2> HIDE DEF alike
  <2> QED BY <1>2, <1>3, ExactPaired
<1>5. \A p \in E : p[1] \in DOMAIN x /\ p[2] \in DOMAIN y /\ x[p[1]].type = y[p[2]].type
  <2> SUFFICES ASSUME NEW p \in alike
               PROVE  p[1] \in DOMAIN x /\ p[2] \in DOMAIN y /\ x[p[1]].type = y[p[2]].type
    BY <1>4
  <2> DEFINE u == ActionSignature(b, same, 1, x[p[1]]) v == ActionSignature(t, same, 2, y[p[2]])
  <2>1. u.type = x[p[1]].type /\ v.type = y[p[2]].type
    BY DEF ActionSignature
  <2>2. p[1] \in DOMAIN x /\ p[2] \in DOMAIN y /\ u = v
    OBVIOUS
  <2> HIDE DEF u, v, alike
  <2> QED BY <2>1, <2>2
<1> HIDE DEF E
<1>6. ASSUME NEW type
      PROVE  /\ X(type) \subseteq Nat /\ IsFiniteSet(X(type))
             /\ Y(type) \subseteq Nat /\ IsFiniteSet(Y(type))
             /\ Matches(In(type), X(type), Y(type))
             /\ Rest(type) = PairRest(X(type) \ Lefts(In(type)), Y(type) \ Rights(In(type)))
  <2>1. X(type) \subseteq DOMAIN x /\ Y(type) \subseteq DOMAIN y
    BY DEF OfType
  <2>2. IsFiniteSet(X(type)) /\ IsFiniteSet(Y(type))
    BY <1>3, <2>1, FS_Subset
  <2>3. \A p \in In(type) : p[1] \in X(type) /\ p[2] \in Y(type)
    BY <1>5 DEF OfType
  <2>4. Matches(In(type), X(type), Y(type))
    <3>1. In(type) \subseteq X(type) \X Y(type)
      <4>1. \A p \in In(type) : p = <<p[1], p[2]>>
        BY <1>4 DEF Matches
      <4> HIDE DEF In
      <4> QED BY <2>3, <4>1
    <3> QED BY <1>4, <3>1 DEF Matches
  <2>5. {m \in DOMAIN x \ Lefts(E) : x[m].type = type} = X(type) \ Lefts(In(type))
    BY <1>5 DEF Lefts, OfType
  <2>6. {n \in DOMAIN y \ Rights(E) : y[n].type = type} = Y(type) \ Rights(In(type))
    BY <1>5 DEF Rights, OfType
  <2> QED BY <1>3, <2>1, <2>2, <2>4, <2>5, <2>6
<1>7. ASSUME NEW type
      PROVE  FullMatch(In(type) \cup Rest(type), X(type), Y(type))
  <2> HIDE DEF X, Y, In, Rest
  <2> QED BY <1>6, ExactAndRest
<1>8. ASSUME NEW type, Cardinality(X(type)) = Cardinality(Y(type))
      PROVE  Lefts(In(type) \cup Rest(type)) = X(type) /\ Rights(In(type) \cup Rest(type)) = Y(type)
  <2> HIDE DEF X, Y, In, Rest
  <2> QED BY <1>7, <1>8 DEF FullMatch
<1>9. ASSUME NEW a \in ToSet(x) PROVE In(a.type) \cup Rest(a.type) \subseteq pairs
  <2> HIDE DEF Rest, pairs
  <2> QED BY <1>1
<1>10. ASSUME NEW p \in pairs
       PROVE  p[1] \in DOMAIN x /\ p[2] \in DOMAIN y /\ x[p[1]].type = y[p[2]].type
  <2>1. CASE p \in E
    BY <1>5, <2>1
  <2>2. CASE p \notin E
    <3>1. PICK a \in ToSet(x) : p \in Rest(a.type)
      <4> HIDE DEF Rest, pairs
      <4> QED BY <1>1, <2>2
    <3>2. p[1] \in X(a.type) /\ p[2] \in Y(a.type)
      <4> HIDE DEF Rest, X, Y, In
      <4> QED BY <1>7, <3>1 DEF Matches, FullMatch
    <3> QED BY <3>2 DEF OfType
  <2> QED BY <2>1, <2>2
<1> HIDE DEF pairs, Rest
<1>11. /\ Range(Types(x)) = Range(Types(y))
       /\ \A type \in Range(Types(x)) : Cardinality(X(type)) = Cardinality(Y(type))
  <2>1. ASSUME NEW s
        PROVE  /\ DOMAIN ToBag(Types(s)) = Range(Types(s))
               /\ \A type \in Range(Types(s)) : ToBag(Types(s))[type] = Cardinality(OfType(s, type))
    <3>1. \A type : {i \in DOMAIN Types(s) : Types(s)[i] = type} = OfType(s, type)
      BY DEF Types, OfType
    <3> QED BY <3>1 DEF ToBag
  <2>2. /\ DOMAIN ToBag(Types(x)) = Range(Types(x)) /\ DOMAIN ToBag(Types(y)) = Range(Types(y))
    BY <2>1
  <2>3. \A type \in Range(Types(x)) : ToBag(Types(x))[type] = Cardinality(OfType(x, type))
    BY <2>1
  <2>4. \A type \in Range(Types(y)) : ToBag(Types(y))[type] = Cardinality(OfType(y, type))
    BY <2>1
  <2> QED BY <2>2, <2>3, <2>4
<1>12. /\ \A m \in DOMAIN x : x[m].type \in Range(Types(x)) /\ x[m] \in ToSet(x)
       /\ \A n \in DOMAIN y : y[n].type \in Range(Types(y))
       /\ \A type \in Range(Types(x)) : \E m \in DOMAIN x : x[m].type = type
  BY DEF Range, Types, ToSet
<1>13. ASSUME NEW m \in DOMAIN x PROVE \E p \in pairs : p[1] = m
  <2> DEFINE type == x[m].type
  <2>1. Lefts(In(type) \cup Rest(type)) = X(type) /\ In(type) \cup Rest(type) \subseteq pairs
    BY <1>8, <1>9, <1>11, <1>12
  <2>2. m \in X(type)
    BY DEF OfType
  <2> HIDE DEF type, X, In
  <2> QED BY <2>1, <2>2 DEF Lefts
<1>14. ASSUME NEW n \in DOMAIN y PROVE \E p \in pairs : p[2] = n
  <2> DEFINE type == y[n].type
  <2>1. PICK m \in DOMAIN x : x[m].type = type
    BY <1>11, <1>12
  <2>2. Rights(In(type) \cup Rest(type)) = Y(type) /\ In(type) \cup Rest(type) \subseteq pairs
    BY <1>8, <1>9, <1>11, <1>12, <2>1
  <2>3. n \in Y(type)
    BY DEF OfType
  <2> HIDE DEF type, Y, In
  <2> QED BY <2>2, <2>3 DEF Rights
<1> QED BY <1>10, <1>13, <1>14 DEF pairs, PairsCover

-----------------------------------------------------------------------------
(* No change, the same content *)

\* Two actions are one but for what their rows are called.
ActionSame(b, t, same, x, y) ==
    /\ x.type = y.type /\ x.duration = y.duration /\ x.temperature = y.temperature
    /\ Inputs(b, same, 1, x) = Inputs(t, same, 2, y)

StepSame(b, t, same, i, j) ==
    LET x == b.instructions[i] y == t.instructions[j] IN
    /\ x.text = y.text
    /\ DOMAIN x.actions = DOMAIN y.actions
    /\ \A m \in DOMAIN x.actions : ActionSame(b, t, same, x.actions[m], y.actions[m])

\* Steps of one signature are the same.
LEMMA AlikeStepsSame ==
    ASSUME NEW b, NEW t, NEW same, NEW i, NEW j,
           StepSignature(b, same, 1, i) = StepSignature(t, same, 2, j)
    PROVE  StepSame(b, t, same, i, j)
<1> DEFINE x == b.instructions[i] y == t.instructions[j]
           U(m) == ActionSignature(b, same, 1, x.actions[m])
           V(m) == ActionSignature(t, same, 2, y.actions[m])
<1>1. x.text = y.text
      /\ [m \in DOMAIN x.actions |-> U(m)] = [m \in DOMAIN y.actions |-> V(m)]
  BY DEF StepSignature
<1>2. DOMAIN x.actions = DOMAIN y.actions /\ \A m \in DOMAIN x.actions : U(m) = V(m)
  <2> HIDE DEF U, V
  <2> QED BY <1>1
<1>3. ASSUME NEW m PROVE /\ U(m).type = x.actions[m].type /\ V(m).type = y.actions[m].type
                         /\ U(m).duration = x.actions[m].duration /\ V(m).duration = y.actions[m].duration
                         /\ U(m).temperature = x.actions[m].temperature
                         /\ V(m).temperature = y.actions[m].temperature
                         /\ U(m).inputs = Inputs(b, same, 1, x.actions[m])
                         /\ V(m).inputs = Inputs(t, same, 2, y.actions[m])
  BY DEF ActionSignature
<1>4. \A m \in DOMAIN x.actions : ActionSame(b, t, same, x.actions[m], y.actions[m])
  <2> TAKE m \in DOMAIN x.actions
  <2>1. U(m) = V(m)
    BY <1>2
  <2> HIDE DEF U, V
  <2> QED BY <1>3, <2>1 DEF ActionSame
<1> QED BY <1>1, <1>2, <1>4 DEF StepSame

\* Steps in which no field is found changed are the same.
LEMMA UnchangedStepsSame ==
    ASSUME NEW b, WellFormed(b), NEW t, WellFormed(t), NEW same,
           NEW i \in DOMAIN b.instructions, NEW j \in DOMAIN t.instructions,
           StepFields(b, t, same, i, j) = {}
    PROVE  StepSame(b, t, same, i, j)
<1> DEFINE x == b.instructions[i].actions
           y == t.instructions[j].actions
           pairs == ActionPairs(b, t, same, x, y)
           typesChanged == ToBag(Types(x)) # ToBag(Types(y))
           Moved_ == \E p \in pairs : p[1] # p[2]
           Used == \E p \in pairs : Inputs(b, same, 1, x[p[1]]) # Inputs(t, same, 2, y[p[2]])
           Text == b.instructions[i].text # t.instructions[j].text
           Differ(f) == \E p \in pairs : x[p[1]][f] # y[p[2]][f]
           Changed(f) == CASE f = "text" -> Text
                           [] f = "actions" -> typesChanged
                           [] f = "inputs" -> Used
                           [] f = "action_order" -> ~typesChanged /\ Moved_
                           [] OTHER -> Differ(f)
           fields == {"text", "actions", "inputs", "action_order", "duration", "temperature"}
<1>1. {f \in fields : Changed(f)} = {}
  BY DEF StepFields, Types
<1>2. \A f \in fields : ~Changed(f)
  <2> HIDE DEF Changed, fields
  <2> QED BY <1>1
<1>3. ~Text /\ ~typesChanged /\ ~Used /\ ~Moved_ /\ ~Differ("duration") /\ ~Differ("temperature")
  <2> HIDE DEF Text, typesChanged, Used, Moved_, Differ
  <2>1. (Changed("text") <=> Text) /\ (Changed("actions") <=> typesChanged) /\ (Changed("inputs") <=> Used)
    OBVIOUS
  <2>2. Changed("action_order") <=> ~typesChanged /\ Moved_
    OBVIOUS
  <2>3. (Changed("duration") <=> Differ("duration")) /\ (Changed("temperature") <=> Differ("temperature"))
    OBVIOUS
  <2>4. /\ "text" \in fields /\ "actions" \in fields /\ "inputs" \in fields
        /\ "action_order" \in fields /\ "duration" \in fields /\ "temperature" \in fields
    OBVIOUS
  <2> HIDE DEF Changed, fields
  <2> QED BY <1>2, <2>1, <2>2, <2>3, <2>4
<1>4. /\ x \in Seq(ActionsOver(Nat)) /\ y \in Seq(ActionsOver(Nat))
      /\ \A m \in DOMAIN x : x[m] \in ActionsOver(Nat)
      /\ \A n \in DOMAIN y : y[n] \in ActionsOver(Nat)
  BY StepsOf DEF WellUsed
<1>5. PairsCover(pairs, x, y)
  <2>1. ToBag(Types(x)) = ToBag(Types(y))
    BY <1>3
  <2> HIDE DEF x, y
  <2> QED BY <1>4, <2>1, ActionsCovered
<1>6. \A p \in pairs : /\ p[1] = p[2]
                       /\ Inputs(b, same, 1, x[p[1]]) = Inputs(t, same, 2, y[p[2]])
                       /\ x[p[1]]["duration"] = y[p[2]]["duration"]
                       /\ x[p[1]]["temperature"] = y[p[2]]["temperature"]
  BY <1>3
<1> HIDE DEF x, y, pairs
<1>7. DOMAIN x = DOMAIN y
  <2>1. \A m \in DOMAIN x : m \in DOMAIN y
    BY <1>5, <1>6 DEF PairsCover
  <2>2. \A n \in DOMAIN y : n \in DOMAIN x
    BY <1>5, <1>6 DEF PairsCover
  <2> QED BY <2>1, <2>2
<1>8. ASSUME NEW m \in DOMAIN x PROVE ActionSame(b, t, same, x[m], y[m])
  <2>1. PICK p \in pairs : p[1] = m /\ p[2] = m
    BY <1>5, <1>6 DEF PairsCover
  <2>2. /\ x[m].type = y[m].type
        /\ Inputs(b, same, 1, x[m]) = Inputs(t, same, 2, y[m])
        /\ x[m]["duration"] = y[m]["duration"]
        /\ x[m]["temperature"] = y[m]["temperature"]
    BY <1>5, <1>6, <2>1 DEF PairsCover
  <2>3. x[m] \in ActionsOver(Nat) /\ y[m] \in ActionsOver(Nat)
    BY <1>4, <1>7
  <2> QED BY <2>2, <2>3 DEF ActionSame, ActionsOver
<1> QED BY <1>3, <1>7, <1>8 DEF StepSame, x, y

\* Sequences are equal that have the same in the same places.
LEMMA SameSequence ==
    ASSUME NEW X, NEW s \in Seq(X), NEW u \in Seq(X), DOMAIN s = DOMAIN u,
           \A n \in DOMAIN s : s[n] = u[n]
    PROVE  s = u
<1>1. s \in [1..Len(s) -> X] /\ u \in [1..Len(u) -> X]
  BY SeqDef, LenProperties
<1>2. s = [n \in DOMAIN s |-> s[n]] /\ u = [n \in DOMAIN u |-> u[n]]
  BY <1>1
<1> QED BY <1>2

\* What a row is called in a comparison in which every row is paired.
LEMMA ReferenceOf ==
    ASSUME NEW A, NEW B, NEW same, Matches(same, A, B), Lefts(same) = A, Rights(same) = B,
           NEW i \in A, NEW j \in B, Reference(same, 1, i) = Reference(same, 2, j)
    PROVE  <<i, j>> \in same
<1> DEFINE P == CHOOSE p \in same : p[1] = i
           Q == CHOOSE p \in same : p[2] = j
<1>1. (\E p \in same : p[1] = i) /\ (\E p \in same : p[2] = j)
  BY DEF Lefts, Rights
<1>2. P \in same /\ P[1] = i /\ Q \in same /\ Q[2] = j
  BY <1>1
<1>3. Reference(same, 1, i) = <<0, P>> /\ Reference(same, 2, j) = <<0, Q>>
  BY <1>1 DEF Reference
<1> HIDE DEF P, Q
<1>4. P = Q
  BY <1>3
<1>5. P = <<P[1], P[2]>>
  BY <1>2 DEF Matches
<1> QED BY <1>2, <1>4, <1>5

\* The row of t that is the same as a row of b, where every row is.
IsPartner(b, t, f) ==
    /\ f \in Bijection(DOMAIN b.ingredients, DOMAIN t.ingredients)
    /\ \A p \in SamePairs(b, t) : f[p[1]] = p[2]

NameBy(b, t, f) == [k \in Keys(b) |-> t.ingredients[f[RowOf(b, k)]].key]

AllSame(b, t) ==
    /\ Lefts(SamePairs(b, t)) = DOMAIN b.ingredients
    /\ Rights(SamePairs(b, t)) = DOMAIN t.ingredients

\* The names of the rows are those of the partners.
LEMMA NameByOf ==
    ASSUME NEW b, WellFormed(b), NEW t, WellFormed(t), NEW f, IsPartner(b, t, f)
    PROVE  /\ NameBy(b, t, f) \in [Keys(b) -> Nat]
           /\ \A i \in DOMAIN b.ingredients : /\ f[i] \in DOMAIN t.ingredients
                                              /\ NameBy(b, t, f)[b.ingredients[i].key] = t.ingredients[f[i]].key
<1>1. \A i \in DOMAIN b.ingredients : f[i] \in DOMAIN t.ingredients
  BY DEF IsPartner, Bijection, Injection
<1>2. \A j \in DOMAIN t.ingredients : t.ingredients[j].key \in Nat
  <2>1. \A j \in DOMAIN t.ingredients : t.ingredients[j] \in RowsOver(Nat)
    BY RowsOf, ElementOfSeq
  <2> QED BY <2>1 DEF RowsOver
<1>3. \A k \in Keys(b) : RowOf(b, k) \in DOMAIN b.ingredients
  BY RowOfKey
<1>4. \A i \in DOMAIN b.ingredients : b.ingredients[i].key \in Keys(b) /\ RowOf(b, b.ingredients[i].key) = i
  BY RowOfKey
<1>5. \A k \in Keys(b) : t.ingredients[f[RowOf(b, k)]].key \in Nat
  BY <1>1, <1>2, <1>3
<1>6. NameBy(b, t, f) \in [Keys(b) -> Nat]
  BY <1>5 DEF NameBy
<1>7. \A i \in DOMAIN b.ingredients : NameBy(b, t, f)[b.ingredients[i].key] = t.ingredients[f[i]].key
  BY <1>4 DEF NameBy
<1> QED BY <1>1, <1>6, <1>7

\* The inputs of an action are the partners of those of the same action.
LEMMA InputsSame ==
    ASSUME NEW b, WellFormed(b), NEW t, WellFormed(t), AllSame(b, t), NEW f, IsPartner(b, t, f),
           NEW x, ToSet(x.inputs) \subseteq Keys(b), NEW y, ToSet(y.inputs) \subseteq Keys(t),
           Inputs(b, SamePairs(b, t), 1, x) = Inputs(t, SamePairs(b, t), 2, y)
    PROVE  /\ DOMAIN y.inputs = DOMAIN x.inputs
           /\ \A n \in DOMAIN x.inputs : y.inputs[n] = NameBy(b, t, f)[x.inputs[n]]
<1> DEFINE same == SamePairs(b, t)
           U(n) == Reference(same, 1, RowOf(b, x.inputs[n]))
           V(n) == Reference(same, 2, RowOf(t, y.inputs[n]))
<1>1. [n \in DOMAIN x.inputs |-> U(n)] = [n \in DOMAIN y.inputs |-> V(n)]
  BY DEF Inputs
<1>2. DOMAIN x.inputs = DOMAIN y.inputs /\ \A n \in DOMAIN x.inputs : U(n) = V(n)
  <2> HIDE DEF U, V
  <2> QED BY <1>1
<1>3. Matches(same, DOMAIN b.ingredients, DOMAIN t.ingredients)
  BY SamePairsMatch
<1>4. ASSUME NEW n \in DOMAIN x.inputs PROVE y.inputs[n] = NameBy(b, t, f)[x.inputs[n]]
  <2> DEFINE i == RowOf(b, x.inputs[n]) j == RowOf(t, y.inputs[n])
  <2>1. x.inputs[n] \in Keys(b) /\ y.inputs[n] \in Keys(t)
    BY <1>2 DEF ToSet
  <2>2. i \in DOMAIN b.ingredients /\ b.ingredients[i].key = x.inputs[n]
    BY <2>1, RowOfKey
  <2>3. j \in DOMAIN t.ingredients /\ t.ingredients[j].key = y.inputs[n]
    BY <2>1, RowOfKey
  <2>4. Reference(same, 1, i) = Reference(same, 2, j)
    BY <1>2
  <2> HIDE DEF i, j, same
  <2>5. <<i, j>> \in same
    <3>1. Lefts(same) = DOMAIN b.ingredients /\ Rights(same) = DOMAIN t.ingredients
      BY DEF AllSame, same
    <3> QED BY <1>3, <2>2, <2>3, <2>4, <3>1, ReferenceOf
  <2>6. f[i] = j
    BY <2>5 DEF IsPartner, same
  <2>7. NameBy(b, t, f)[b.ingredients[i].key] = t.ingredients[f[i]].key
    BY <2>2, NameByOf
  <2> QED BY <2>2, <2>3, <2>6, <2>7
<1> QED BY <1>2, <1>4

\* Same steps are equal once the rows of one are called as those of the other.
LEMMA SameStepsEqual ==
    ASSUME NEW b, WellFormed(b), NEW t, WellFormed(t), AllSame(b, t), NEW f, IsPartner(b, t, f),
           NEW i \in DOMAIN b.instructions, NEW j \in DOMAIN t.instructions,
           StepSame(b, t, SamePairs(b, t), i, j)
    PROVE  Renamed(b, NameBy(b, t, f)).instructions[i] = t.instructions[j]
<1> DEFINE name == NameBy(b, t, f)
           e == Renamed(b, name)
           u == e.instructions[i]
           v == t.instructions[j]
           w == b.instructions[i]
<1>1. name \in [Keys(b) -> Nat]
  BY NameByOf
<1>2. e \in Documents(Nat) /\ IsCalled(b, name, e)
  <2> HIDE DEF name
  <2> QED BY <1>1, RenamedIs
<1> HIDE DEF e
<1>3. u \in StepsOver(Nat)
  <2>1. e.instructions \in Seq(StepsOver(Nat)) /\ i \in DOMAIN e.instructions
    BY <1>2, FormedOf DEF IsCalled
  <2> QED BY <2>1, LenProperties, ElementOfSeq
<1>4. v \in StepsOver(Nat) /\ w \in StepsOver(Nat)
  BY StepsOf
<1>5. StepCalled(w, name, u)
  BY <1>2 DEF IsCalled
<1>6. /\ u.text = w.text /\ DOMAIN u.actions = DOMAIN w.actions
      /\ \A a \in DOMAIN w.actions : ActionCalled(w.actions[a], name, u.actions[a])
  BY <1>5 DEF StepCalled
<1>7. /\ w.text = v.text /\ DOMAIN w.actions = DOMAIN v.actions
      /\ \A a \in DOMAIN w.actions : ActionSame(b, t, SamePairs(b, t), w.actions[a], v.actions[a])
  BY DEF StepSame
<1>8. u.actions \in Seq(ActionsOver(Nat)) /\ v.actions \in Seq(ActionsOver(Nat))
  BY <1>3, <1>4 DEF StepsOver
<1>9. \A a \in DOMAIN w.actions : ToSet(w.actions[a].inputs) \subseteq Keys(b)
  BY StepsOf
<1>10. \A a \in DOMAIN v.actions : ToSet(v.actions[a].inputs) \subseteq Keys(t)
  BY StepsOf
<1> HIDE DEF u, v, w, name
<1>11. ASSUME NEW a \in DOMAIN u.actions PROVE u.actions[a] = v.actions[a]
  <2> DEFINE x == w.actions[a] y == v.actions[a] z == u.actions[a]
  <2>1. a \in DOMAIN w.actions /\ a \in DOMAIN v.actions
    BY <1>6, <1>7
  <2>2. y \in ActionsOver(Nat) /\ z \in ActionsOver(Nat)
    BY <1>8, <2>1, LenProperties, ElementOfSeq
  <2>3. ActionCalled(x, name, z) /\ ActionSame(b, t, SamePairs(b, t), x, y)
    BY <1>6, <1>7, <2>1
  <2>4. ToSet(x.inputs) \subseteq Keys(b) /\ ToSet(y.inputs) \subseteq Keys(t)
    BY <1>9, <1>10, <2>1
  <2>5. Inputs(b, SamePairs(b, t), 1, x) = Inputs(t, SamePairs(b, t), 2, y)
    BY <2>3 DEF ActionSame
  <2> HIDE DEF x, y, z
  <2>6. /\ DOMAIN y.inputs = DOMAIN x.inputs
        /\ \A n \in DOMAIN x.inputs : y.inputs[n] = name[x.inputs[n]]
    BY <2>4, <2>5, InputsSame DEF name
  <2>7. /\ DOMAIN z.inputs = DOMAIN x.inputs
        /\ \A n \in DOMAIN x.inputs : z.inputs[n] = name[x.inputs[n]]
    BY <2>3 DEF ActionCalled
  <2>8. z.inputs \in Seq(Nat) /\ y.inputs \in Seq(Nat)
    BY <2>2 DEF ActionsOver
  <2>9. z.inputs = y.inputs
    BY <2>6, <2>7, <2>8, SameSequence
  <2>10. z.type = y.type /\ z.duration = y.duration /\ z.temperature = y.temperature
    BY <2>3 DEF ActionCalled, ActionSame
  <2>11. z = y
    BY <2>2, <2>9, <2>10 DEF ActionsOver
  <2> QED BY <2>11 DEF y, z
<1>12. u.actions = v.actions
  BY <1>6, <1>7, <1>8, <1>11, SameSequence
<1>13. u = v
  BY <1>3, <1>4, <1>6, <1>7, <1>12 DEF StepsOver
<1> QED BY <1>13 DEF u, v, e, name

\* A comparison without a change of instructions pairs every step with one that is the same.
LEMMA NoStepChange ==
    ASSUME NEW b, WellFormed(b), NEW t, WellFormed(t),
           \A f \in DOMAIN InstructionDiff(b, t) : InstructionDiff(b, t)[f] = {}
    PROVE  \E g \in Bijection(DOMAIN b.instructions, DOMAIN t.instructions) :
               \A i \in DOMAIN b.instructions : StepSame(b, t, SamePairs(b, t), i, g[i])
<1> DEFINE same == SamePairs(b, t)
           A == DOMAIN b.instructions
           B == DOMAIN t.instructions
           alike == {p \in A \X B : StepSignature(b, same, 1, p[1]) = StepSignature(t, same, 2, p[2])}
           exact == PairExact(A, B, alike)
           before == A \ Lefts(exact)
           after == B \ Rights(exact)
           rest == PairRest(before, after)
           modified == {p \in rest : StepFields(b, t, same, p[1], p[2]) # {}}
           diff == [modified |-> modified, removed |-> before \ Lefts(rest),
                    added |-> after \ Rights(rest)]
           M == exact \cup rest
<1>1. InstructionDiff(b, t) = diff
  BY DEF InstructionDiff
<1>2. /\ Len(b.instructions) \in Nat /\ A = 1..Len(b.instructions)
      /\ Len(t.instructions) \in Nat /\ B = 1..Len(t.instructions)
  BY StepsOf
<1>3. /\ A \subseteq Nat /\ B \subseteq Nat /\ A \subseteq 0..Len(b.instructions)
      /\ IsFiniteSet(A) /\ IsFiniteSet(B)
  <2>1. IsFiniteSet(1..Len(b.instructions)) /\ IsFiniteSet(1..Len(t.instructions))
    BY <1>2, FS_Interval
  <2>2. A \subseteq Nat /\ B \subseteq Nat /\ A \subseteq 0..Len(b.instructions)
    BY <1>2
  <2> HIDE DEF A, B
  <2> QED BY <1>2, <2>1, <2>2
<1> HIDE DEF A, B
<1>4. Matches(exact, A, B) /\ exact \subseteq alike
  <2> HIDE DEF alike
  <2> QED BY <1>2, <1>3, ExactPaired
<1>5. \A p \in alike : StepSame(b, t, same, p[1], p[2])
  <2> HIDE DEF same
  <2> QED BY AlikeStepsSame
<1> HIDE DEF exact
<1>6. FullMatch(M, A, B)
  <2> HIDE DEF same
  <2> QED BY <1>3, <1>4, ExactAndRest
<1> HIDE DEF rest, modified, before, after
<1>7. modified = {} /\ before \ Lefts(rest) = {} /\ after \ Rights(rest) = {}
  <2>1. \A f \in {"modified", "removed", "added"} : diff[f] = {}
    BY <1>1
  <2> QED BY <2>1
<1>8. Matches(M, A, B)
  BY <1>6 DEF FullMatch
<1>9. Lefts(M) = A /\ Rights(M) = B
  <2>1. Lefts(M) = Lefts(exact) \cup Lefts(rest) /\ Rights(M) = Rights(exact) \cup Rights(rest)
    BY DEF Lefts, Rights
  <2>2. Lefts(M) \subseteq A /\ Rights(M) \subseteq B
    <3> HIDE DEF M
    <3> QED BY <1>3, <1>8, MatchOf
  <2> HIDE DEF M
  <2> QED BY <1>7, <2>1, <2>2 DEF before, after
<1>10. \A p \in M : StepSame(b, t, same, p[1], p[2])
  <2> TAKE p \in M
  <2>1. p[1] \in A /\ p[2] \in B
    BY <1>8 DEF Matches
  <2>2. CASE p \in exact
    BY <1>4, <1>5, <2>2
  <2>3. CASE p \in rest
    <3>1. StepFields(b, t, same, p[1], p[2]) = {}
      BY <1>7, <2>3 DEF modified
    <3>2. p[1] \in DOMAIN b.instructions /\ p[2] \in DOMAIN t.instructions
      BY <2>1 DEF A, B
    <3> HIDE DEF same, M
    <3> QED BY <3>1, <3>2, UnchangedStepsSame
  <2> QED BY <2>2, <2>3
<1> HIDE DEF M, same
<1>11. PICK g \in Bijection(Lefts(M), Rights(M)) : \A p \in M : g[p[1]] = p[2]
  BY <1>3, <1>8, MatchOf
<1>12. ASSUME NEW i \in A PROVE StepSame(b, t, same, i, g[i])
  <2>1. PICK p \in M : p[1] = i
    BY <1>9 DEF Lefts
  <2> QED BY <1>10, <1>11, <2>1
<1>13. \E h \in Bijection(A, B) : \A i \in A : StepSame(b, t, same, i, h[i])
  BY <1>9, <1>11, <1>12
<1> QED BY <1>13 DEF A, B, same

\* A comparison that shows no change is one of the same content.
LEMMA UnchangedIsSame ==
    ASSUME NEW b, WellFormed(b), NEW t, WellFormed(t), ~HasChanges(b, t)
    PROVE  SameContent(b, t)
<1>1. /\ b.header = t.header
      /\ \A f \in DOMAIN IngredientDiff(b, t) : IngredientDiff(b, t)[f] = {}
      /\ \A f \in DOMAIN InstructionDiff(b, t) : InstructionDiff(b, t)[f] = {}
  BY DEF HasChanges
<1>2. /\ AllSame(b, t)
      /\ \A p \in SamePairs(b, t) :
           /\ b.ingredients[p[1]].ingredient = t.ingredients[p[2]].ingredient
           /\ b.ingredients[p[1]].measure = t.ingredients[p[2]].measure
           /\ b.ingredients[p[1]].notes = t.ingredients[p[2]].notes
  BY <1>1, NoRowChange DEF AllSame
<1>3. PICK g \in Bijection(DOMAIN b.instructions, DOMAIN t.instructions) :
            \A i \in DOMAIN b.instructions : StepSame(b, t, SamePairs(b, t), i, g[i])
  BY <1>1, NoStepChange
<1>4. PICK f : IsPartner(b, t, f)
  <2> DEFINE M == SamePairs(b, t) A == DOMAIN b.ingredients B == DOMAIN t.ingredients
  <2>1. Matches(M, A, B)
    BY SamePairsMatch
  <2>2. IsFiniteSet(A)
    <3>1. A = 1..Len(b.ingredients) /\ Len(b.ingredients) \in Nat
      BY RowsOf
    <3>2. IsFiniteSet(1..Len(b.ingredients))
      BY <3>1, FS_Interval
    <3> HIDE DEF A
    <3> QED BY <3>1, <3>2
  <2>3. Lefts(M) = A /\ Rights(M) = B
    BY <1>2 DEF AllSame
  <2> HIDE DEF M, A, B
  <2>4. \E f \in Bijection(Lefts(M), Rights(M)) : \A p \in M : f[p[1]] = p[2]
    BY <2>1, <2>2, MatchOf
  <2>5. \E f \in Bijection(A, B) : \A p \in M : f[p[1]] = p[2]
    BY <2>3, <2>4
  <2> QED BY <2>5 DEF IsPartner, M, A, B
<1> DEFINE name == NameBy(b, t, f)
<1>5. ASSUME NEW i \in DOMAIN b.ingredients
      PROVE  [b.ingredients[i] EXCEPT !.key = name[@]] = t.ingredients[f[i]]
  <2> DEFINE r == b.ingredients[i] s == t.ingredients[f[i]]
  <2>1. f[i] \in DOMAIN t.ingredients /\ name[r.key] = s.key
    BY <1>4, NameByOf
  <2>2. r \in RowsOver(Nat) /\ s \in RowsOver(Nat)
    BY <2>1, RowsOf, ElementOfSeq
  <2>3. PICK p \in SamePairs(b, t) : p[1] = i
    BY <1>2 DEF AllSame, Lefts
  <2>4. p[2] = f[i]
    BY <1>4, <2>3 DEF IsPartner
  <2>5. r.ingredient = s.ingredient /\ r.measure = s.measure /\ r.notes = s.notes
    BY <1>2, <2>3, <2>4
  <2> HIDE DEF r, s, name
  <2>6. [r EXCEPT !.key = name[r.key]] = s
    BY <2>1, <2>2, <2>5 DEF RowsOver
  <2> QED BY <2>6 DEF r, s
<1>6. ASSUME NEW i \in DOMAIN b.instructions
      PROVE  Renamed(b, name).instructions[i] = t.instructions[g[i]]
  <2>1. g[i] \in DOMAIN t.instructions
    BY DEF Bijection, Injection
  <2>2. StepSame(b, t, SamePairs(b, t), i, g[i])
    BY <1>3
  <2> QED BY <1>2, <1>4, <2>1, <2>2, SameStepsEqual
<1>7. f \in Bijection(DOMAIN b.ingredients, DOMAIN t.ingredients)
  BY <1>4 DEF IsPartner
<1> DEFINE called(h) == [k \in Keys(b) |-> t.ingredients[h[RowOf(b, k)]].key]
<1>8. name = called(f)
  BY DEF NameBy
<1> HIDE DEF name
<1>9. /\ \A i \in DOMAIN b.ingredients :
           [b.ingredients[i] EXCEPT !.key = called(f)[@]] = t.ingredients[f[i]]
      /\ \A i \in DOMAIN b.instructions : Renamed(b, called(f)).instructions[i] = t.instructions[g[i]]
  <2> HIDE DEF called
  <2> QED BY <1>5, <1>6, <1>8
<1> QED BY <1>1, <1>7, <1>9 DEF SameContent

-----------------------------------------------------------------------------
(* The same copies, no change *)

\* Actions that say the same of the rows in the same places.
ActionPlaced(b, t, x, y) ==
    /\ x.type = y.type /\ x.duration = y.duration /\ x.temperature = y.temperature
    /\ DOMAIN x.inputs = DOMAIN y.inputs
    /\ \A n \in DOMAIN x.inputs : RowOf(b, x.inputs[n]) = RowOf(t, y.inputs[n])

StepPlaced(b, t, x, y) ==
    /\ x.text = y.text
    /\ DOMAIN x.actions = DOMAIN y.actions
    /\ \A a \in DOMAIN x.actions : ActionPlaced(b, t, x.actions[a], y.actions[a])

RowsPlaced(b, t) ==
    /\ DOMAIN b.ingredients = DOMAIN t.ingredients
    /\ \A i \in DOMAIN b.ingredients :
         /\ b.ingredients[i].ingredient = t.ingredients[i].ingredient
         /\ b.ingredients[i].measure = t.ingredients[i].measure
         /\ b.ingredients[i].notes = t.ingredients[i].notes

StepsPlaced(b, t) ==
    /\ DOMAIN b.instructions = DOMAIN t.instructions
    /\ \A i \in DOMAIN b.instructions : StepPlaced(b, t, b.instructions[i], t.instructions[i])

\* What documents share that have one copy.
LEMMA OneCopy ==
    ASSUME NEW b, WellFormed(b), NEW t, WellFormed(t), Copied(t) = Copied(b)
    PROVE  b.header = t.header /\ RowsPlaced(b, t) /\ StepsPlaced(b, t)
<1> DEFINE c == Copied(b)
           p == [k \in Keys(b) |-> RowOf(b, k)]
           q == [k \in Keys(t) |-> RowOf(t, k)]
<1>1. IsCalled(b, p, c)
  <2>1. c = Renamed(b, p) /\ p \in [Keys(b) -> Nat]
    BY CopiedOf
  <2> HIDE DEF c, p
  <2> QED BY <2>1, RenamedIs
<1>2. IsCalled(t, q, c)
  <2>1. c = Renamed(t, q) /\ q \in [Keys(t) -> Nat]
    BY CopiedOf
  <2> HIDE DEF c, q
  <2> QED BY <2>1, RenamedIs
<1> HIDE DEF c
<1>3. b.header = t.header /\ RowsPlaced(b, t)
  <2> HIDE DEF p, q
  <2> QED BY <1>1, <1>2 DEF IsCalled, RowsCalled, RowsPlaced
<1>4. DOMAIN b.instructions = DOMAIN t.instructions
  BY <1>1, <1>2 DEF IsCalled
<1>5. ASSUME NEW i \in DOMAIN b.instructions
      PROVE  StepPlaced(b, t, b.instructions[i], t.instructions[i])
  <2> DEFINE x == b.instructions[i] y == t.instructions[i] z == c.instructions[i]
  <2>1. StepCalled(x, p, z) /\ StepCalled(y, q, z)
    <3> HIDE DEF p, q
    <3> QED BY <1>1, <1>2, <1>4 DEF IsCalled
  <2>2. \A a \in DOMAIN x.actions : ToSet(x.actions[a].inputs) \subseteq Keys(b)
    BY StepsOf
  <2>3. \A a \in DOMAIN y.actions : ToSet(y.actions[a].inputs) \subseteq Keys(t)
    BY <1>4, StepsOf
  <2> HIDE DEF x, y, z
  <2>4. x.text = y.text /\ DOMAIN x.actions = DOMAIN y.actions
    BY <2>1 DEF StepCalled
  <2>5. ASSUME NEW a \in DOMAIN x.actions PROVE ActionPlaced(b, t, x.actions[a], y.actions[a])
    <3> DEFINE u == x.actions[a] v == y.actions[a] w == z.actions[a]
    <3>1. ActionCalled(u, p, w) /\ ActionCalled(v, q, w)
      BY <2>1, <2>4 DEF StepCalled
    <3>2. ToSet(u.inputs) \subseteq Keys(b) /\ ToSet(v.inputs) \subseteq Keys(t)
      BY <2>2, <2>3, <2>4
    <3> HIDE DEF u, v, w
    <3>3. /\ u.type = v.type /\ u.duration = v.duration /\ u.temperature = v.temperature
          /\ DOMAIN u.inputs = DOMAIN v.inputs
          /\ \A n \in DOMAIN u.inputs : p[u.inputs[n]] = q[v.inputs[n]]
      <4> HIDE DEF p, q
      <4> QED BY <3>1 DEF ActionCalled
    <3>4. \A n \in DOMAIN u.inputs : u.inputs[n] \in Keys(b) /\ v.inputs[n] \in Keys(t)
      BY <3>2, <3>3 DEF ToSet
    <3>5. \A n \in DOMAIN u.inputs : RowOf(b, u.inputs[n]) = RowOf(t, v.inputs[n])
      BY <3>3, <3>4
    <3>6. ActionPlaced(b, t, u, v)
      BY <3>3, <3>5 DEF ActionPlaced
    <3> QED BY <3>6 DEF u, v
  <2>6. StepPlaced(b, t, x, y)
    BY <2>4, <2>5 DEF StepPlaced
  <2> QED BY <2>6 DEF x, y
<1> QED BY <1>3, <1>4, <1>5 DEF StepsPlaced

\* Nothing is left to pair in order.
LEMMA NoRest == PairRest({}, {}) = {}
BY DEF PairRest

\* The sides of pairs of each row of a set with itself.
LEMMA OwnSides ==
    ASSUME NEW A
    PROVE  Lefts({<<i, i>> : i \in A}) = A /\ Rights({<<i, i>> : i \in A}) = A
<1> DEFINE own == {<<i, i>> : i \in A}
<1>1. \A i \in A : <<i, i>> \in own /\ <<i, i>>[1] = i /\ <<i, i>>[2] = i
  OBVIOUS
<1>2. \A p \in own : p[1] \in A /\ p[2] \in A
  OBVIOUS
<1> HIDE DEF own
<1>3. Lefts(own) = A
  BY <1>1, <1>2 DEF Lefts
<1>4. Rights(own) = A
  BY <1>1, <1>2 DEF Rights
<1> QED BY <1>3, <1>4 DEF own

\* Rows that are the same in every place are paired place by place.
LEMMA PlacedPairs ==
    ASSUME NEW b, WellFormed(b), NEW t, WellFormed(t), RowsPlaced(b, t)
    PROVE  SamePairs(b, t) = {<<i, i>> : i \in DOMAIN b.ingredients}
<1> DEFINE X == {r.ingredient : r \in ToSet(b.ingredients)}
<1>1. ASSUME NEW x PROVE PairsOf(b, t, x) = {<<i, i>> : i \in OfIngredient(b, x)}
  <2> DEFINE A == OfIngredient(b, x)
             alike == {p \in OfIngredient(b, x) \X OfIngredient(t, x) :
                 IngredientSignature(b.ingredients[p[1]]) = IngredientSignature(t.ingredients[p[2]])}
             own == {<<i, i>> : i \in A}
  <2>1. OfIngredient(t, x) = A
    BY DEF OfIngredient, RowsPlaced
  <2>2. \A i \in A : IngredientSignature(b.ingredients[i]) = IngredientSignature(t.ingredients[i])
    BY DEF OfIngredient, RowsPlaced, IngredientSignature
  <2>3. \A i \in A : <<i, i>> \in alike
    <3> TAKE i \in A
    <3>1. <<i, i>> \in OfIngredient(b, x) \X OfIngredient(t, x)
      BY <2>1
    <3> QED BY <2>2, <3>1
  <2>4. A \subseteq Nat /\ A \subseteq 1..Len(b.ingredients) /\ Len(b.ingredients) \in Nat
    BY OfIngredientIs
  <2>5. AlikePairs(b, t, x) = PairExact(A, A, alike)
    BY <2>1 DEF AlikePairs
  <2> HIDE DEF A, alike
  <2>6. AlikePairs(b, t, x) = own
    BY <2>3, <2>4, <2>5, ExactOfSame
  <2>7. Lefts(own) = A /\ Rights(own) = A
    BY OwnSides
  <2> HIDE DEF own
  <2>8. PairsOf(b, t, x) = own \cup PairRest(A \ A, A \ A)
    BY <2>1, <2>6, <2>7 DEF PairsOf, A
  <2>9. A \ A = {}
    OBVIOUS
  <2>10. PairsOf(b, t, x) = own
    BY <2>8, <2>9, NoRest
  <2> QED BY <2>10 DEF own, A
<1>2. SamePairs(b, t) = UNION {PairsOf(b, t, x) : x \in X}
  BY SamePairsIs
<1>3. \A i \in DOMAIN b.ingredients : b.ingredients[i].ingredient \in X
  BY DEF ToSet
<1> HIDE DEF X
<1>4. ASSUME NEW p \in SamePairs(b, t) PROVE \E i \in DOMAIN b.ingredients : p = <<i, i>>
  <2>1. PICK x \in X : p \in PairsOf(b, t, x)
    BY <1>2
  <2>2. PICK i \in OfIngredient(b, x) : p = <<i, i>>
    BY <1>1, <2>1
  <2> QED BY <2>2 DEF OfIngredient
<1>5. ASSUME NEW i \in DOMAIN b.ingredients PROVE <<i, i>> \in SamePairs(b, t)
  <2> DEFINE x == b.ingredients[i].ingredient
  <2>1. i \in OfIngredient(b, x) /\ x \in X
    BY <1>3 DEF OfIngredient
  <2> HIDE DEF x
  <2>2. <<i, i>> \in PairsOf(b, t, x)
    BY <1>1, <2>1
  <2> QED BY <1>2, <2>1, <2>2
<1> QED BY <1>4, <1>5

\* With nothing left over nothing is replaced.
LEMMA NoneReplaced ==
    ASSUME NEW b, NEW t
    PROVE  ReplacedPairs(b, t, {}, {}) = {}
<1> DEFINE Found(n, s) == Assign(b, t, {})[<<n, [pairs |-> s, visited |-> {}, done |-> FALSE]>>].pairs
           Body(f) == [n \in Nat |-> IF n = 0 THEN {} ELSE IF n \in {} THEN Found(n, f[n - 1]) ELSE f[n - 1]]
           f == [n \in Nat |-> {}]
           g == CHOOSE h : h = Body(h)
<1>1. f = Body(f)
  <2> HIDE DEF Found
  <2>1. \A n \in Nat : n # 0 => n - 1 \in Nat
    OBVIOUS
  <2> QED BY <2>1
<1>2. g = Body(g)
  <2> HIDE DEF Body, f
  <2> QED BY <1>1
<1>3. g[0] = {}
  <2> HIDE DEF g, Found
  <2> QED BY <1>2
<1>4. ReplacedPairs(b, t, {}, {}) = g[Max({} \cup {0})]
  BY DEF ReplacedPairs
<1>5. Max({} \cup {0}) = 0
  <2>1. {} \cup {0} = {0}
    OBVIOUS
  <2>2. Max({0}) = 0
    BY GreatestOf
  <2> QED BY <2>1, <2>2
<1> QED BY <1>3, <1>4, <1>5

\* A row in its own place is called by that place on both sides.
LEMMA PlacedReference ==
    ASSUME NEW A, NEW i \in A
    PROVE  Reference({<<k, k>> : k \in A}, 1, i) = Reference({<<k, k>> : k \in A}, 2, i)
<1> DEFINE own == {<<k, k>> : k \in A}
           P == CHOOSE p \in own : p[1] = i
           Q == CHOOSE p \in own : p[2] = i
<1>1. <<i, i>> \in own /\ <<i, i>>[1] = i /\ <<i, i>>[2] = i
  OBVIOUS
<1>2. \A p \in own : p = <<p[1], p[1]>> /\ p = <<p[2], p[2]>>
  OBVIOUS
<1> HIDE DEF own
<1>3. P \in own /\ P[1] = i /\ Q \in own /\ Q[2] = i
  BY <1>1
<1>4. P = <<i, i>> /\ Q = <<i, i>>
  <2> HIDE DEF P, Q
  <2> QED BY <1>2, <1>3
<1>5. Reference(own, 1, i) = <<0, P>> /\ Reference(own, 2, i) = <<0, Q>>
  BY <1>1 DEF Reference
<1> QED BY <1>4, <1>5 DEF own

\* Steps that say the same of the rows in the same places have one signature.
LEMMA PlacedSignature ==
    ASSUME NEW b, WellFormed(b), NEW t, WellFormed(t), RowsPlaced(b, t), StepsPlaced(b, t),
           NEW i \in DOMAIN b.instructions
    PROVE  StepSignature(b, SamePairs(b, t), 1, i) = StepSignature(t, SamePairs(b, t), 2, i)
<1> DEFINE same == SamePairs(b, t) x == b.instructions[i] y == t.instructions[i]
           U(a) == ActionSignature(b, same, 1, x.actions[a])
           V(a) == ActionSignature(t, same, 2, y.actions[a])
<1>1. same = {<<k, k>> : k \in DOMAIN b.ingredients}
  BY PlacedPairs
<1>2. StepPlaced(b, t, x, y)
  BY DEF StepsPlaced
<1>3. \A a \in DOMAIN x.actions : ToSet(x.actions[a].inputs) \subseteq Keys(b)
  BY StepsOf
<1> HIDE DEF same, x, y
<1>4. ASSUME NEW a \in DOMAIN x.actions PROVE U(a) = V(a)
  <2> DEFINE u == x.actions[a] v == y.actions[a]
  <2>1. ActionPlaced(b, t, u, v) /\ ToSet(u.inputs) \subseteq Keys(b)
    BY <1>2, <1>3 DEF StepPlaced
  <2> HIDE DEF u, v
  <2>2. /\ u.type = v.type /\ u.duration = v.duration /\ u.temperature = v.temperature
        /\ DOMAIN u.inputs = DOMAIN v.inputs
        /\ \A n \in DOMAIN u.inputs : RowOf(b, u.inputs[n]) = RowOf(t, v.inputs[n])
    BY <2>1 DEF ActionPlaced
  <2>3. \A n \in DOMAIN u.inputs : RowOf(b, u.inputs[n]) \in DOMAIN b.ingredients
    BY <2>1, RowOfKey DEF ToSet
  <2>4. \A n \in DOMAIN u.inputs :
          Reference(same, 1, RowOf(b, u.inputs[n])) = Reference(same, 2, RowOf(t, v.inputs[n]))
    <3> TAKE n \in DOMAIN u.inputs
    <3> DEFINE r == RowOf(b, u.inputs[n])
    <3>1. r = RowOf(t, v.inputs[n]) /\ r \in DOMAIN b.ingredients
      BY <2>2, <2>3
    <3> HIDE DEF r
    <3>2. Reference(same, 1, r) = Reference(same, 2, r)
      BY <1>1, <3>1, PlacedReference
    <3> QED BY <3>1, <3>2 DEF r
  <2>5. Inputs(b, same, 1, u) = Inputs(t, same, 2, v)
    BY <2>2, <2>4 DEF Inputs
  <2>6. ActionSignature(b, same, 1, u) = ActionSignature(t, same, 2, v)
    BY <2>2, <2>5 DEF ActionSignature
  <2> QED BY <2>6 DEF u, v
<1>5. x.text = y.text /\ DOMAIN x.actions = DOMAIN y.actions
  BY <1>2 DEF StepPlaced
<1>6. [a \in DOMAIN x.actions |-> U(a)] = [a \in DOMAIN y.actions |-> V(a)]
  <2> HIDE DEF U, V
  <2> QED BY <1>4, <1>5
<1>7. /\ StepSignature(b, same, 1, i) = <<x.text, [a \in DOMAIN x.actions |-> U(a)]>>
      /\ StepSignature(t, same, 2, i) = <<y.text, [a \in DOMAIN y.actions |-> V(a)]>>
  BY DEF StepSignature, x, y
<1>8. StepSignature(b, same, 1, i) = StepSignature(t, same, 2, i)
  <2> HIDE DEF U, V
  <2> QED BY <1>5, <1>6, <1>7
<1> QED BY <1>8 DEF same

\* Content in the same places compares without a change.
LEMMA SameIsUnchanged ==
    ASSUME NEW b, WellFormed(b), NEW t, WellFormed(t), Copied(t) = Copied(b)
    PROVE  ~HasChanges(b, t)
<1>1. b.header = t.header /\ RowsPlaced(b, t) /\ StepsPlaced(b, t)
  BY OneCopy
<1> DEFINE same == SamePairs(b, t)
<1>2. same = {<<i, i>> : i \in DOMAIN b.ingredients}
  BY <1>1, PlacedPairs
<1>3. \A f \in DOMAIN IngredientDiff(b, t) : IngredientDiff(b, t)[f] = {}
  <2> DEFINE before == Unpaired(b, Lefts(same))
             after == Unpaired(t, Rights(same))
             replaced == ReplacedPairs(b, t, before, after)
             modified == {p \in same : IngredientFields(b.ingredients[p[1]], t.ingredients[p[2]]) # {}}
             diff == [modified |-> modified, replaced |-> replaced,
                      removed |-> before \ Lefts(replaced), added |-> after \ Rights(replaced)]
  <2>1. IngredientDiff(b, t) = diff
    BY DEF IngredientDiff
  <2>2. before = {} /\ after = {}
    <3>1. Lefts(same) = DOMAIN b.ingredients /\ Rights(same) = DOMAIN t.ingredients
      BY <1>1, <1>2, OwnSides DEF RowsPlaced
    <3> HIDE DEF same
    <3> QED BY <3>1 DEF Unpaired
  <2>3. replaced = {}
    BY <2>2, NoneReplaced
  <2>4. modified = {}
    <3> SUFFICES ASSUME NEW p \in same
                 PROVE  IngredientFields(b.ingredients[p[1]], t.ingredients[p[2]]) = {}
      OBVIOUS
    <3>1. PICK i \in DOMAIN b.ingredients : p = <<i, i>>
      BY <1>2
    <3> DEFINE r == b.ingredients[i] s == t.ingredients[i]
    <3>2. r.ingredient = s.ingredient /\ r.measure = s.measure /\ r.notes = s.notes
      BY <1>1 DEF RowsPlaced
    <3>3. i \in DOMAIN t.ingredients
      BY <1>1 DEF RowsPlaced
    <3>4. r \in RowsOver(Nat) /\ s \in RowsOver(Nat)
      BY <3>3, RowsOf, ElementOfSeq
    <3> HIDE DEF r, s
    <3>5. \A f \in {"ingredient", "measure", "notes"} : r[f] = s[f]
      BY <3>2, <3>4 DEF RowsOver
    <3>6. IngredientFields(r, s) = {}
      BY <3>5 DEF IngredientFields
    <3> QED BY <3>1, <3>6 DEF r, s
  <2> HIDE DEF before, after, replaced, modified
  <2>5. diff = [modified |-> {}, replaced |-> {}, removed |-> {}, added |-> {}]
    BY <2>2, <2>3, <2>4
  <2> QED BY <2>1, <2>5
<1>4. \A f \in DOMAIN InstructionDiff(b, t) : InstructionDiff(b, t)[f] = {}
  <2> DEFINE A == DOMAIN b.instructions
             B == DOMAIN t.instructions
             alike == {p \in A \X B : StepSignature(b, same, 1, p[1]) = StepSignature(t, same, 2, p[2])}
             exact == PairExact(A, B, alike)
             before == A \ Lefts(exact)
             after == B \ Rights(exact)
             rest == PairRest(before, after)
             modified == {p \in rest : StepFields(b, t, same, p[1], p[2]) # {}}
             diff == [modified |-> modified, removed |-> before \ Lefts(rest),
                      added |-> after \ Rights(rest)]
  <2>1. InstructionDiff(b, t) = diff
    BY DEF InstructionDiff
  <2>2. A = B
    BY <1>1 DEF StepsPlaced
  <2>3. \A i \in A : <<i, i>> \in alike
    <3> TAKE i \in A
    <3>1. StepSignature(b, same, 1, i) = StepSignature(t, same, 2, i)
      BY <1>1, PlacedSignature
    <3> HIDE DEF same, A, B
    <3> QED BY <2>2, <3>1
  <2>4. A \subseteq Nat /\ Len(b.instructions) \in Nat /\ A \subseteq 1..Len(b.instructions)
    <3>1. Len(b.instructions) \in Nat /\ A = 1..Len(b.instructions)
      BY StepsOf
    <3> HIDE DEF A
    <3> QED BY <3>1
  <2> HIDE DEF A, B, alike
  <2>5. exact = {<<i, i>> : i \in A}
    BY <2>2, <2>3, <2>4, ExactOfSame
  <2>6. before = {} /\ after = {}
    <3>1. Lefts(exact) = A /\ Rights(exact) = A
      BY <2>5, OwnSides
    <3> HIDE DEF exact
    <3> QED BY <2>2, <3>1
  <2>7. rest = {}
    BY <2>6, NoRest
  <2>8. modified = {}
    <3> HIDE DEF rest
    <3> QED BY <2>7
  <2> HIDE DEF before, after, rest, modified
  <2>9. diff = [modified |-> {}, removed |-> {}, added |-> {}]
    BY <2>6, <2>8
  <2> QED BY <2>1, <2>9
<1> QED BY <1>1, <1>3, <1>4 DEF HasChanges

\* Whatever is edited, a comparison that shows no change is one of the same content, however
\* rows and steps are matched and paired; and content in the same order never shows one.
THEOREM ChangesAreShown == Spec => []NoChangeMeansSame
<1>1. WellFormedInv => NoChangeMeansSame
  <2> SUFFICES ASSUME WellFormedInv, target # None
               PROVE  /\ ~HasChanges(base, target) => SameContent(base, target)
                      /\ Copied(target) = Copied(base) => ~HasChanges(base, target)
    BY DEF NoChangeMeansSame
  <2>1. WellFormed(target)
    BY DEF WellFormedInv
  <2>2. WellFormed(base)
    BY VersionsOf DEF WellFormedInv, TypeOK
  <2> QED BY <2>1, <2>2, UnchangedIsSame, SameIsUnchanged
<1> QED BY <1>1, AlwaysWellFormed, PTL

-----------------------------------------------------------------------------
(* Which row is preferred *)

Leasts(S, f) == {x \in S : \A y \in S : f[x] <= f[y]}

\* Of some, one has the least value.
LEMMA LeastValue ==
    ASSUME NEW S, S # {}, NEW f \in [S -> Nat]
    PROVE  Leasts(S, f) # {}
<1> DEFINE V == {f[x] : x \in S}
<1>1. V \subseteq Nat /\ V # {}
  OBVIOUS
<1>2. PICK v \in V : \A w \in V : v <= w
  <2> HIDE DEF V
  <2> QED BY <1>1, LeastOf
<1>3. PICK x \in S : f[x] = v
  BY <1>2
<1> QED BY <1>2, <1>3 DEF Leasts

\* One of the free rows is preferred.
LEMMA PreferredOf ==
    ASSUME NEW b, NEW t, NEW i \in Nat, NEW free, free \subseteq Nat, free # {}
    PROVE  Preferred(b, t, i, free) \in free
<1> DEFINE P(j) == Preference(b, t, i, j)
           f1 == [j \in free |-> P(j)[1]]
           S1 == Leasts(free, f1)
           f2 == [j \in S1 |-> P(j)[2]]
           S2 == Leasts(S1, f2)
           f3 == [j \in S2 |-> P(j)[3]]
           S3 == Leasts(S2, f3)
           f4 == [j \in S3 |-> P(j)[4]]
           S4 == Leasts(S3, f4)
           f5 == [j \in S4 |-> P(j)[5]]
           S5 == Leasts(S4, f5)
<1>1. ASSUME NEW j \in free
      PROVE  /\ P(j)[1] \in Nat /\ P(j)[2] \in Nat /\ P(j)[3] \in Nat /\ P(j)[4] \in Nat
             /\ P(j)[5] \in Nat /\ P(j)[5] = j
  <2>1. j \in Nat
    OBVIOUS
  <2> QED BY <2>1 DEF Preference, Distance
<1> HIDE DEF P
<1>2. S1 # {} /\ S1 \subseteq free
  <2>1. f1 \in [free -> Nat]
    BY <1>1
  <2>2. S1 \subseteq free
    BY DEF Leasts
  <2> HIDE DEF f1
  <2>3. S1 # {}
    BY <2>1, LeastValue
  <2> QED BY <2>2, <2>3
<1>3. \A x \in S1 : \A y \in free : P(x)[1] <= P(y)[1]
  BY DEF Leasts
<1> HIDE DEF S1
<1>4. S2 # {} /\ S2 \subseteq S1
  <2>1. f2 \in [S1 -> Nat]
    BY <1>1, <1>2
  <2>2. S2 \subseteq S1
    BY DEF Leasts
  <2> HIDE DEF f2
  <2>3. S2 # {}
    BY <1>2, <2>1, LeastValue
  <2> QED BY <2>2, <2>3
<1>5. \A x \in S2 : \A y \in S1 : P(x)[2] <= P(y)[2]
  BY DEF Leasts
<1>6. \A x \in free : x \in S1 <=> \A y \in free : P(x)[1] <= P(y)[1]
  BY DEF S1, Leasts
<1>7. \A x \in S1 : x \in S2 <=> \A y \in S1 : P(x)[2] <= P(y)[2]
  BY DEF Leasts
<1> HIDE DEF S2
<1>8. S3 # {} /\ S3 \subseteq S2
  <2>1. f3 \in [S2 -> Nat]
    BY <1>1, <1>2, <1>4
  <2>2. S3 \subseteq S2
    BY DEF Leasts
  <2> HIDE DEF f3
  <2>3. S3 # {}
    BY <1>4, <2>1, LeastValue
  <2> QED BY <2>2, <2>3
<1>9. \A x \in S2 : x \in S3 <=> \A y \in S2 : P(x)[3] <= P(y)[3]
  BY DEF Leasts
<1> HIDE DEF S3
<1>10. S4 # {} /\ S4 \subseteq S3
  <2>1. f4 \in [S3 -> Nat]
    BY <1>1, <1>2, <1>4, <1>8
  <2>2. S4 \subseteq S3
    BY DEF Leasts
  <2> HIDE DEF f4
  <2>3. S4 # {}
    BY <1>8, <2>1, LeastValue
  <2> QED BY <2>2, <2>3
<1>11. \A x \in S3 : x \in S4 <=> \A y \in S3 : P(x)[4] <= P(y)[4]
  BY DEF Leasts
<1> HIDE DEF S4
<1>12. S5 # {} /\ S5 \subseteq S4
  <2>1. f5 \in [S4 -> Nat]
    BY <1>1, <1>2, <1>4, <1>8, <1>10
  <2>2. S5 \subseteq S4
    BY DEF Leasts
  <2> HIDE DEF f5
  <2>3. S5 # {}
    BY <1>10, <2>1, LeastValue
  <2> QED BY <2>2, <2>3
<1>13. \A x \in S5 : \A y \in S4 : P(x)[5] <= P(y)[5]
  BY DEF Leasts
<1> HIDE DEF S5
<1>14. PICK j \in S5 : TRUE
  BY <1>12
<1>15. j \in S4 /\ j \in S3 /\ j \in S2 /\ j \in S1 /\ j \in free
  BY <1>2, <1>4, <1>8, <1>10, <1>12
<1> DEFINE Before(k, n) == P(j)[n] < P(k)[n] /\ \A l \in 1..(n - 1) : P(j)[l] = P(k)[l]
<1>16. ASSUME NEW k \in free \ {j} PROVE \E n \in 1..5 : Before(k, n)
  <2>1. /\ P(j)[1] \in Nat /\ P(j)[2] \in Nat /\ P(j)[3] \in Nat /\ P(j)[4] \in Nat
        /\ P(j)[5] = j /\ j \in Nat
    BY <1>1, <1>15
  <2>2. /\ P(k)[1] \in Nat /\ P(k)[2] \in Nat /\ P(k)[3] \in Nat /\ P(k)[4] \in Nat
        /\ P(k)[5] = k /\ k \in Nat
    BY <1>1
  <2>3. CASE k \notin S1
    <3>1. P(j)[1] < P(k)[1]
      <4>1. PICK y \in free : ~(P(k)[1] <= P(y)[1])
        BY <1>6, <2>3
      <4>2. P(j)[1] <= P(y)[1] /\ P(y)[1] \in Nat
        BY <1>1, <1>6, <1>15
      <4> QED BY <2>1, <2>2, <4>1, <4>2
    <3>2. 1 \in 1..5 /\ Before(k, 1)
      BY <3>1
    <3> QED BY <3>2
  <2>4. CASE k \in S1
    <3>1. P(j)[1] = P(k)[1]
      BY <1>6, <1>15, <2>1, <2>2, <2>4
    <3>2. CASE k \notin S2
      <4>1. P(j)[2] < P(k)[2]
        <5>1. PICK y \in S1 : ~(P(k)[2] <= P(y)[2])
          BY <1>7, <2>4, <3>2
        <5>2. P(j)[2] <= P(y)[2] /\ P(y)[2] \in Nat
          BY <1>1, <1>2, <1>7, <1>15
        <5> QED BY <2>1, <2>2, <5>1, <5>2
      <4>2. 2 \in 1..5 /\ \A l \in 1..(2 - 1) : l = 1
        OBVIOUS
      <4> QED BY <3>1, <4>1, <4>2
    <3>3. CASE k \in S2
      <4>1. P(j)[2] = P(k)[2]
        BY <1>7, <1>15, <2>1, <2>2, <2>4, <3>3
      <4>2. CASE k \notin S3
        <5>1. P(j)[3] < P(k)[3]
          <6>1. PICK y \in S2 : ~(P(k)[3] <= P(y)[3])
            BY <1>9, <3>3, <4>2
          <6>2. P(j)[3] <= P(y)[3] /\ P(y)[3] \in Nat
            BY <1>1, <1>2, <1>4, <1>9, <1>15
          <6> QED BY <2>1, <2>2, <6>1, <6>2
        <5>2. 3 \in 1..5 /\ \A l \in 1..(3 - 1) : l = 1 \/ l = 2
          OBVIOUS
        <5> QED BY <3>1, <4>1, <5>1, <5>2
      <4>3. CASE k \in S3
        <5>1. P(j)[3] = P(k)[3]
          BY <1>9, <1>15, <2>1, <2>2, <3>3, <4>3
        <5>2. CASE k \notin S4
          <6>1. P(j)[4] < P(k)[4]
            <7>1. PICK y \in S3 : ~(P(k)[4] <= P(y)[4])
              BY <1>11, <4>3, <5>2
            <7>2. P(j)[4] <= P(y)[4] /\ P(y)[4] \in Nat
              BY <1>1, <1>2, <1>4, <1>8, <1>11, <1>15
            <7> QED BY <2>1, <2>2, <7>1, <7>2
          <6>2. 4 \in 1..5 /\ \A l \in 1..(4 - 1) : l = 1 \/ l = 2 \/ l = 3
            OBVIOUS
          <6> QED BY <3>1, <4>1, <5>1, <6>1, <6>2
        <5>3. CASE k \in S4
          <6>1. P(j)[4] = P(k)[4]
            BY <1>11, <1>15, <2>1, <2>2, <4>3, <5>3
          <6>2. P(j)[5] < P(k)[5]
            BY <1>13, <2>1, <2>2, <5>3
          <6>3. 5 \in 1..5 /\ \A l \in 1..(5 - 1) : l = 1 \/ l = 2 \/ l = 3 \/ l = 4
            OBVIOUS
          <6> QED BY <3>1, <4>1, <5>1, <6>1, <6>2, <6>3
        <5> QED BY <5>2, <5>3
      <4> QED BY <4>2, <4>3
    <3> QED BY <3>2, <3>3
  <2> QED BY <2>3, <2>4
<1>17. \E x \in free : \A k \in free \ {x} :
         \E n \in 1..5 : P(x)[n] < P(k)[n] /\ \A l \in 1..(n - 1) : P(x)[l] = P(k)[l]
  BY <1>15, <1>16
<1> QED BY <1>17 DEF Preferred, P

-----------------------------------------------------------------------------
(* One call of the search for replacements *)

\* What may replace row i of b, and what of it was not visited yet.
Takeable(b, t, B, i) == {j \in B : MayReplace(b, t, i, j)}
Untried(b, t, B, i, s) == {j \in B \ s.visited : MayReplace(b, t, i, j)}
Target(b, t, B, i, s) == Preferred(b, t, i, Untried(b, t, B, i, s))
Seen(b, t, B, i, s) == [s EXCEPT !.visited = @ \cup {Target(b, t, B, i, s)}]
Holders(s, j) == {p \in s.pairs : p[2] = j}
HolderOf(s, j) == (CHOOSE p \in Holders(s, j) : TRUE)[1]
Onward(F, b, t, B, i, s) ==
    LET j == Target(b, t, B, i, s) IN
    IF Holders(s, j) = {} THEN [Seen(b, t, B, i, s) EXCEPT !.done = TRUE]
    ELSE F[<<HolderOf(s, j), Seen(b, t, B, i, s)>>]
Taken(moved, i, j) ==
    [moved EXCEPT !.pairs = {p \in moved.pairs : p[2] # j} \cup {<<i, j>>}]

\* A call in these words.
LEMMA TriedIs ==
    ASSUME NEW b, NEW t, NEW B, NEW F, NEW i, NEW s
    PROVE  Tried(b, t, B, F, i, s) =
             IF Untried(b, t, B, i, s) = {} THEN s
             ELSE IF Onward(F, b, t, B, i, s).done
             THEN Taken(Onward(F, b, t, B, i, s), i, Target(b, t, B, i, s))
             ELSE F[<<i, Onward(F, b, t, B, i, s)>>]
BY DEF Tried, Untried, Target, Seen, Holders, HolderOf, Onward, Taken

\* The rows of the two sides have places, and those of B are finitely many.
SidesOf(b, t, B) ==
    /\ DOMAIN b.ingredients \subseteq Nat /\ DOMAIN t.ingredients \subseteq Nat
    /\ B \subseteq DOMAIN t.ingredients /\ IsFiniteSet(B)

\* How many of B a search has not visited.
Unvisited(B, s) == Cardinality(B \ s.visited)

\* A search that visited one more has fewer left.
LEMMA FewerLeft ==
    ASSUME NEW B, IsFiniteSet(B), NEW s, NEW r, NEW j \in B \ s.visited,
           s.visited \subseteq r.visited, j \in r.visited
    PROVE  Unvisited(B, r) < Unvisited(B, s)
<1> DEFINE S == B \ s.visited R == B \ r.visited
<1>1. IsFiniteSet(S)
  BY FS_Difference
<1>2. IsFiniteSet(S \ {j}) /\ Cardinality(S \ {j}) = Cardinality(S) - 1
  <2>1. j \in S
    OBVIOUS
  <2> HIDE DEF S
  <2> QED BY <1>1, <2>1, FS_RemoveElement
<1>3. R \in SUBSET (S \ {j})
  OBVIOUS
<1> HIDE DEF S, R
<1>4. Cardinality(R) <= Cardinality(S \ {j}) /\ IsFiniteSet(R)
  BY <1>2, <1>3, FS_Subset
<1>5. Cardinality(R) \in Nat /\ Cardinality(S) \in Nat
  BY <1>1, <1>4, FS_CardinalityType
<1> QED BY <1>2, <1>4, <1>5 DEF Unvisited, R, S

\* The row tried is one of B not visited; afterwards it is.
SeenIs(b, t, B, i, s) ==
    LET j == Target(b, t, B, i, s) seen == Seen(b, t, B, i, s) IN
    /\ j \in B /\ j \notin s.visited /\ MayReplace(b, t, i, j)
    /\ seen \in Searches(b, t)
    /\ seen.pairs = s.pairs /\ seen.visited = s.visited \cup {j} /\ seen.done = s.done

\* What is tried is what may be.
LEMMA SeenOf ==
    ASSUME NEW b, NEW t, NEW B, SidesOf(b, t, B), NEW i \in DOMAIN b.ingredients,
           NEW s \in Searches(b, t), Untried(b, t, B, i, s) # {}
    PROVE  SeenIs(b, t, B, i, s)
<1> DEFINE j == Target(b, t, B, i, s) U == Untried(b, t, B, i, s)
<1>1. U \subseteq Nat /\ i \in Nat
  BY DEF SidesOf, Untried
<1>2. Preferred(b, t, i, U) \in U
  <2>1. U # {}
    OBVIOUS
  <2> HIDE DEF U
  <2> QED BY <1>1, <2>1, PreferredOf
<1>3. j \in U
  BY <1>2 DEF Target
<1>4. j \in B /\ j \notin s.visited /\ MayReplace(b, t, i, j)
  BY <1>3 DEF Untried
<1> HIDE DEF j
<1>5. j \in DOMAIN t.ingredients
  BY <1>4 DEF SidesOf
<1>6. [s EXCEPT !.visited = s.visited \cup {j}] \in Searches(b, t)
  BY <1>5 DEF Searches
<1>7. /\ [s EXCEPT !.visited = s.visited \cup {j}].pairs = s.pairs
      /\ [s EXCEPT !.visited = s.visited \cup {j}].visited = s.visited \cup {j}
      /\ [s EXCEPT !.visited = s.visited \cup {j}].done = s.done
  BY DEF Searches
<1>8. Seen(b, t, B, i, s) = [s EXCEPT !.visited = s.visited \cup {j}]
  BY DEF Seen, j
<1> QED BY <1>4, <1>6, <1>7, <1>8 DEF SeenIs, j

\* Searches that only ever visit more.
Growing(b, t) ==
    {F \in [(DOMAIN b.ingredients) \X Searches(b, t) -> Searches(b, t)] :
        \A i \in DOMAIN b.ingredients, s \in Searches(b, t) :
            s.visited \subseteq F[<<i, s>>].visited}

\* The step from a search's visit to what came of it.
OnwardIs(F, b, t, B, i, s) ==
    LET moved == Onward(F, b, t, B, i, s) IN
    /\ moved \in Searches(b, t)
    /\ Seen(b, t, B, i, s).visited \subseteq moved.visited

\* What holds a row is a row of the other side.
LEMMA HolderIs ==
    ASSUME NEW b, NEW t, NEW s \in Searches(b, t), NEW j, Holders(s, j) # {}
    PROVE  /\ HolderOf(s, j) \in DOMAIN b.ingredients
           /\ <<HolderOf(s, j), j>> \in s.pairs
<1> DEFINE p == CHOOSE q \in Holders(s, j) : TRUE
<1>1. p \in Holders(s, j)
  OBVIOUS
<1>2. HolderOf(s, j) = p[1]
  BY DEF HolderOf
<1> HIDE DEF p
<1>3. p \in s.pairs /\ p[2] = j
  BY <1>1 DEF Holders
<1>4. p \in (DOMAIN b.ingredients) \X (DOMAIN t.ingredients)
  BY <1>3 DEF Searches
<1> QED BY <1>2, <1>3, <1>4

\* The search goes on from one that visited more.
LEMMA OnwardTyped ==
    ASSUME NEW b, NEW t, NEW B, SidesOf(b, t, B), NEW F \in Growing(b, t),
           NEW i \in DOMAIN b.ingredients, NEW s \in Searches(b, t), Untried(b, t, B, i, s) # {}
    PROVE  OnwardIs(F, b, t, B, i, s)
<1> DEFINE j == Target(b, t, B, i, s) seen == Seen(b, t, B, i, s)
<1>1. seen \in Searches(b, t)
  BY SeenOf DEF SeenIs
<1>2. CASE Holders(s, j) = {}
  <2>1. Onward(F, b, t, B, i, s) = [seen EXCEPT !.done = TRUE]
    BY <1>2 DEF Onward
  <2> HIDE DEF seen
  <2>2. [seen EXCEPT !.done = TRUE] \in Searches(b, t) /\ [seen EXCEPT !.done = TRUE].visited = seen.visited
    BY <1>1 DEF Searches
  <2> QED BY <2>1, <2>2 DEF OnwardIs, seen
<1>3. CASE Holders(s, j) # {}
  <2> DEFINE k == HolderOf(s, j)
  <2>1. Onward(F, b, t, B, i, s) = F[<<k, seen>>]
    BY <1>3 DEF Onward
  <2>2. k \in DOMAIN b.ingredients
    <3> HIDE DEF j
    <3> QED BY <1>3, HolderIs
  <2> HIDE DEF k, seen, j
  <2>3. F[<<k, seen>>] \in Searches(b, t) /\ seen.visited \subseteq F[<<k, seen>>].visited
    BY <1>1, <2>2 DEF Growing
  <2> QED BY <2>1, <2>3 DEF OnwardIs, seen
<1> QED BY <1>2, <1>3

\* A call gives a search again.
TriedTypedIs(F, b, t, B, i, s) ==
    /\ Tried(b, t, B, F, i, s) \in Searches(b, t)
    /\ s.visited \subseteq Tried(b, t, B, F, i, s).visited

\* One call over searches that only visit more does that too.
LEMMA TriedTyped ==
    ASSUME NEW b, NEW t, NEW B, SidesOf(b, t, B), NEW F \in Growing(b, t),
           NEW i \in DOMAIN b.ingredients, NEW s \in Searches(b, t)
    PROVE  TriedTypedIs(F, b, t, B, i, s)
<1> DEFINE j == Target(b, t, B, i, s) moved == Onward(F, b, t, B, i, s)
<1>1. CASE Untried(b, t, B, i, s) = {}
  BY <1>1, TriedIs DEF TriedTypedIs
<1>2. CASE Untried(b, t, B, i, s) # {}
  <2>1. moved \in Searches(b, t) /\ Seen(b, t, B, i, s).visited \subseteq moved.visited
    BY <1>2, OnwardTyped DEF OnwardIs
  <2>2. s.visited \subseteq moved.visited /\ j \in DOMAIN t.ingredients
    BY <1>2, <2>1, SeenOf DEF SeenIs, SidesOf
  <2>3. Tried(b, t, B, F, i, s) = IF moved.done THEN Taken(moved, i, j) ELSE F[<<i, moved>>]
    BY <1>2, TriedIs
  <2> HIDE DEF moved, j
  <2>4. Taken(moved, i, j) \in Searches(b, t) /\ Taken(moved, i, j).visited = moved.visited
    BY <2>1, <2>2 DEF Taken, Searches
  <2>5. F[<<i, moved>>] \in Searches(b, t) /\ moved.visited \subseteq F[<<i, moved>>].visited
    BY <2>1 DEF Growing
  <2> QED BY <2>2, <2>3, <2>4, <2>5 DEF TriedTypedIs
<1> QED BY <1>1, <1>2

\* Two recursions that agree where fewer than m are left agree one call further.
LEMMA TriedAgrees ==
    ASSUME NEW b, NEW t, NEW B, SidesOf(b, t, B), NEW F \in Growing(b, t), NEW G, NEW m \in Nat,
           \A i \in DOMAIN b.ingredients, s \in Searches(b, t) :
               Unvisited(B, s) < m => F[<<i, s>>] = G[<<i, s>>],
           NEW i \in DOMAIN b.ingredients, NEW s \in Searches(b, t), Unvisited(B, s) < m + 1
    PROVE  Tried(b, t, B, F, i, s) = Tried(b, t, B, G, i, s)
<1> DEFINE j == Target(b, t, B, i, s) seen == Seen(b, t, B, i, s)
           moved == Onward(F, b, t, B, i, s)
<1>1. CASE Untried(b, t, B, i, s) = {}
  BY <1>1, TriedIs
<1>2. CASE Untried(b, t, B, i, s) # {}
  <2>1. /\ j \in B \ s.visited /\ seen \in Searches(b, t)
        /\ seen.visited = s.visited \cup {j}
    BY <1>2, SeenOf DEF SeenIs
  <2>2. moved \in Searches(b, t) /\ seen.visited \subseteq moved.visited
    BY <1>2, OnwardTyped DEF OnwardIs
  <2>3. ASSUME NEW r \in Searches(b, t), seen.visited \subseteq r.visited
        PROVE  Unvisited(B, r) < m
    <3>1. s.visited \subseteq r.visited /\ j \in r.visited
      BY <2>1, <2>3
    <3>2. IsFiniteSet(B)
      BY DEF SidesOf
    <3> HIDE DEF j
    <3>3. Unvisited(B, r) < Unvisited(B, s)
      BY <2>1, <3>1, <3>2, FewerLeft
    <3>4. Unvisited(B, r) \in Nat /\ Unvisited(B, s) \in Nat
      BY <3>2, FS_Difference, FS_CardinalityType DEF Unvisited
    <3> HIDE DEF Unvisited
    <3> QED BY <3>3, <3>4
  <2>4. moved = Onward(G, b, t, B, i, s)
    <3>1. CASE Holders(s, j) = {}
      BY <3>1 DEF Onward
    <3>2. CASE Holders(s, j) # {}
      <4>1. HolderOf(s, j) \in DOMAIN b.ingredients
        <5> HIDE DEF j
        <5> QED BY <3>2, HolderIs
      <4>2. Unvisited(B, seen) < m
        <5> HIDE DEF seen
        <5> QED BY <2>1, <2>3
      <4>3. F[<<HolderOf(s, j), seen>>] = G[<<HolderOf(s, j), seen>>]
        <5> HIDE DEF seen, j
        <5> QED BY <2>1, <4>1, <4>2
      <4> QED BY <3>2, <4>3 DEF Onward
    <3> QED BY <3>1, <3>2
  <2>5. F[<<i, moved>>] = G[<<i, moved>>]
    <3> HIDE DEF moved, seen
    <3>1. Unvisited(B, moved) < m
      BY <2>2, <2>3
    <3> QED BY <2>2, <3>1
  <2> QED BY <1>2, <2>4, <2>5, TriedIs
<1> QED BY <1>1, <1>2

\* The search is a function, and a call of it is what one call is.
AssignOf(b, t, B) ==
    /\ Assign(b, t, B) \in Growing(b, t)
    /\ \A i \in DOMAIN b.ingredients, s \in Searches(b, t) :
           Assign(b, t, B)[<<i, s>>] = Tried(b, t, B, Assign(b, t, B), i, s)

\* The search ends: every call has fewer rows left than the one that made it, so it is
\* worked out in as many rounds as there are rows, and in only one way.
LEMMA AssignIs ==
    ASSUME NEW b, NEW t, NEW B, SidesOf(b, t, B)
    PROVE  AssignOf(b, t, B)
<1> DEFINE I == DOMAIN b.ingredients SS == Searches(b, t) S == Growing(b, t)
           D == I \X SS
           Step(F) == [c \in D |-> Tried(b, t, B, F, c[1], c[2])]
           first == [c \in D |-> c[2]]
           Next_ == [n \in Nat |-> [F \in S |-> Step(F)]]
<1>1. ASSUME NEW F \in S PROVE Step(F) \in S
  <2>1. ASSUME NEW i \in I, NEW s \in SS
        PROVE  Tried(b, t, B, F, i, s) \in SS /\ s.visited \subseteq Tried(b, t, B, F, i, s).visited
    BY TriedTyped DEF TriedTypedIs
  <2>2. \A c \in D : c[1] \in I /\ c[2] \in SS
    OBVIOUS
  <2>3. \A i \in I, s \in SS : <<i, s>> \in D /\ Step(F)[<<i, s>>] = Tried(b, t, B, F, i, s)
    OBVIOUS
  <2>4. \A c \in D : Tried(b, t, B, F, c[1], c[2]) \in SS
    BY <2>1, <2>2
  <2>5. Step(F) \in [D -> SS]
    BY <2>4
  <2>6. S = {G \in [D -> SS] : \A i \in I, s \in SS : s.visited \subseteq G[<<i, s>>].visited}
    BY DEF Growing
  <2>7. \A i \in I, s \in SS : s.visited \subseteq Step(F)[<<i, s>>].visited
    BY <2>1, <2>3
  <2> HIDE DEF Step, S, I, SS, D
  <2> QED BY <2>5, <2>6, <2>7
<1>2. first \in S
  <2>1. S = {G \in [D -> SS] : \A i \in I, s \in SS : s.visited \subseteq G[<<i, s>>].visited}
    BY DEF Growing
  <2>2. first \in [D -> SS]
    OBVIOUS
  <2>3. \A i \in I, s \in SS : first[<<i, s>>] = s
    OBVIOUS
  <2> HIDE DEF first, S, I, SS, D
  <2> QED BY <2>1, <2>2, <2>3
<1>3. \A i \in I, s \in SS : <<i, s>> \in D
  OBVIOUS
<1>4. \A F \in S : \A i \in I, s \in SS : Step(F)[<<i, s>>] = Tried(b, t, B, F, i, s)
  BY <1>3
<1>5. S \subseteq [D -> SS]
  BY DEF Growing
<1>6. Next_ \in [Nat -> [S -> S]] /\ \A n \in Nat : \A F \in S : Next_[n][F] = Step(F)
  <2> HIDE DEF S, Step
  <2> QED BY <1>1
<1>7. \E f \in [Nat -> S] : f[0] = first /\ \A n \in Nat : f[n + 1] = Next_[n + 1][f[n]]
  <2> HIDE DEF Next_, S, first
  <2>1. \E f \in [Nat -> S] : Recurs(first, Next_, f)
    BY <1>2, <1>6, RecursionOver
  <2> QED BY <2>1 DEF Recurs
<1>8. PICK f \in [Nat -> S] : \A n \in Nat : f[n + 1] = Step(f[n])
  <2>1. PICK f \in [Nat -> S] : \A n \in Nat : f[n + 1] = Next_[n + 1][f[n]]
    BY <1>7
  <2> HIDE DEF Next_, S, Step
  <2>2. \A n \in Nat : n + 1 \in Nat /\ f[n] \in S
    OBVIOUS
  <2> QED BY <1>6, <2>1, <2>2
<1>9. ASSUME NEW s \in SS PROVE Unvisited(B, s) \in Nat /\ Unvisited(B, s) < Cardinality(B) + 1
  <2>1. IsFiniteSet(B)
    BY DEF SidesOf
  <2>2. B \ s.visited \in SUBSET B
    OBVIOUS
  <2>3. Cardinality(B \ s.visited) <= Cardinality(B) /\ IsFiniteSet(B \ s.visited)
    BY <2>1, <2>2, FS_Subset
  <2>4. Cardinality(B \ s.visited) \in Nat /\ Cardinality(B) \in Nat
    BY <2>1, <2>3, FS_CardinalityType
  <2> QED BY <2>3, <2>4 DEF Unvisited
<1> DEFINE Agree(F, G, m) == \A i \in I, s \in SS : Unvisited(B, s) < m => F[<<i, s>>] = G[<<i, s>>]
<1>10. ASSUME NEW F \in S, NEW G, NEW m \in Nat, Agree(F, G, m),
              NEW i \in I, NEW s \in SS, Unvisited(B, s) < m + 1
       PROVE  Tried(b, t, B, F, i, s) = Tried(b, t, B, G, i, s)
  BY <1>10, TriedAgrees
<1>11. \A F, G : Agree(F, G, 0)
  BY <1>9
<1>12. \A n \in Nat : Agree(f[n], f[n + 1], n)
  <2> DEFINE Bad == {n \in Nat : ~Agree(f[n], f[n + 1], n)}
  <2> SUFFICES ASSUME Bad # {} PROVE FALSE
    OBVIOUS
  <2>1. PICK n \in Bad : \A k \in Bad : n <= k
    <3>1. Bad \subseteq Nat
      OBVIOUS
    <3> HIDE DEF Bad
    <3> QED BY <3>1, LeastOf
  <2>2. n \in Nat /\ ~Agree(f[n], f[n + 1], n)
    BY <2>1
  <2>3. n # 0
    <3> HIDE DEF Agree
    <3> QED BY <1>11, <2>2
  <2>4. n - 1 \in Nat /\ ~(n <= n - 1) /\ (n - 1) + 1 = n
    BY <2>2, <2>3
  <2>5. Agree(f[n - 1], f[n], n - 1)
    <3>1. n - 1 \notin Bad
      <4> HIDE DEF Bad
      <4> QED BY <2>1, <2>4
    <3> HIDE DEF Agree
    <3> QED BY <2>4, <3>1
  <2> HIDE DEF Bad
  <2>6. f[n] = Step(f[n - 1]) /\ f[n + 1] = Step(f[n])
    <3> HIDE DEF Step, S
    <3>1. f[(n - 1) + 1] = Step(f[n - 1])
      BY <1>8, <2>4
    <3> QED BY <1>8, <2>2, <2>4, <3>1
  <2>7. f[n - 1] \in S /\ f[n] \in S
    <3> HIDE DEF S, Step
    <3> QED BY <1>8, <2>2, <2>4
  <2>8. ASSUME NEW i \in I, NEW s \in SS, Unvisited(B, s) < n
        PROVE  f[n][<<i, s>>] = f[n + 1][<<i, s>>]
    <3>1. Unvisited(B, s) < (n - 1) + 1
      BY <2>4, <2>8
    <3> HIDE DEF Agree, S
    <3>2. Tried(b, t, B, f[n - 1], i, s) = Tried(b, t, B, f[n], i, s)
      BY <1>10, <2>4, <2>5, <2>7, <3>1
    <3> HIDE DEF Step, I, SS
    <3>3. f[n][<<i, s>>] = Tried(b, t, B, f[n - 1], i, s) /\ f[n + 1][<<i, s>>] = Tried(b, t, B, f[n], i, s)
      BY <1>4, <2>6, <2>7
    <3> QED BY <3>2, <3>3
  <2>9. Agree(f[n], f[n + 1], n)
    BY <2>8
  <2> HIDE DEF Agree
  <2> QED BY <2>2, <2>9
<1> DEFINE K == Cardinality(B) + 1 F == f[K]
<1>13. K \in Nat
  BY FS_CardinalityType DEF SidesOf
<1>14. F \in S
  <2> HIDE DEF K, S
  <2> QED BY <1>13
<1>15. ASSUME NEW i \in I, NEW s \in SS PROVE F[<<i, s>>] = Tried(b, t, B, F, i, s)
  <2>1. Unvisited(B, s) < K
    BY <1>9
  <2> HIDE DEF K
  <2>2. f[K][<<i, s>>] = f[K + 1][<<i, s>>]
    BY <1>12, <1>13, <2>1
  <2>3. f[K + 1] = Step(f[K])
    <3> HIDE DEF Step, S
    <3> QED BY <1>8, <1>13
  <2> HIDE DEF S, Step, I, SS
  <2>4. Step(f[K])[<<i, s>>] = Tried(b, t, B, f[K], i, s)
    BY <1>4, <1>14
  <2> QED BY <2>2, <2>3, <2>4
<1> HIDE DEF F
<1>16. F = Step(F)
  <2>1. F \in [D -> SS]
    <3> HIDE DEF S, D, SS
    <3> QED BY <1>5, <1>14
  <2>2. \A c \in D : c[1] \in I /\ c[2] \in SS /\ c = <<c[1], c[2]>>
    OBVIOUS
  <2>3. \A c \in D : F[c] = Tried(b, t, B, F, c[1], c[2])
    <3> HIDE DEF I, SS, D
    <3> QED BY <1>15, <2>2
  <2> HIDE DEF D, SS
  <2> QED BY <2>1, <2>3
<1> DEFINE g == CHOOSE h : h = Step(h)
<1>17. g = Step(g)
  <2> HIDE DEF Step
  <2> QED BY <1>16
<1>18. Assign(b, t, B) = g
  BY DEF Assign
<1> HIDE DEF g
<1>19. ASSUME NEW i \in I, NEW s \in SS PROVE g[<<i, s>>] = Tried(b, t, B, g, i, s)
  <2>1. <<i, s>> \in D
    BY <1>3
  <2>2. Step(g)[<<i, s>>] = Tried(b, t, B, g, i, s)
    BY <2>1
  <2> HIDE DEF Step
  <2> QED BY <1>17, <2>2
<1>20. \A n \in Nat : Agree(F, g, n)
  <2> DEFINE Bad == {n \in Nat : ~Agree(F, g, n)}
  <2> SUFFICES ASSUME Bad # {} PROVE FALSE
    OBVIOUS
  <2>1. PICK n \in Bad : \A k \in Bad : n <= k
    <3>1. Bad \subseteq Nat
      OBVIOUS
    <3> HIDE DEF Bad
    <3> QED BY <3>1, LeastOf
  <2>2. n \in Nat /\ ~Agree(F, g, n)
    BY <2>1
  <2>3. n # 0
    <3> HIDE DEF Agree
    <3> QED BY <1>11, <2>2
  <2>4. n - 1 \in Nat /\ ~(n <= n - 1) /\ (n - 1) + 1 = n
    BY <2>2, <2>3
  <2>5. Agree(F, g, n - 1)
    <3>1. n - 1 \notin Bad
      <4> HIDE DEF Bad
      <4> QED BY <2>1, <2>4
    <3> HIDE DEF Agree
    <3> QED BY <2>4, <3>1
  <2> HIDE DEF Bad
  <2>6. ASSUME NEW i \in I, NEW s \in SS, Unvisited(B, s) < n
        PROVE  F[<<i, s>>] = g[<<i, s>>]
    <3>1. Unvisited(B, s) < (n - 1) + 1
      BY <2>4, <2>6
    <3>2. F[<<i, s>>] = Tried(b, t, B, F, i, s) /\ g[<<i, s>>] = Tried(b, t, B, g, i, s)
      BY <1>15, <1>19
    <3> HIDE DEF Agree, S
    <3>3. Tried(b, t, B, F, i, s) = Tried(b, t, B, g, i, s)
      BY <1>10, <1>14, <2>4, <2>5, <3>1
    <3> QED BY <3>2, <3>3
  <2>7. Agree(F, g, n)
    BY <2>6
  <2> HIDE DEF Agree
  <2> QED BY <2>2, <2>7
<1>21. F = g
  <2>1. \A i \in I, s \in SS : F[<<i, s>>] = g[<<i, s>>]
    <3> HIDE DEF I, SS
    <3>1. \A s \in SS : Unvisited(B, s) < K
      BY <1>9
    <3> HIDE DEF K
    <3> QED BY <1>13, <1>20, <3>1
  <2>2. \A c \in D : c[1] \in I /\ c[2] \in SS /\ c = <<c[1], c[2]>>
    OBVIOUS
  <2>3. \A c \in D : F[c] = g[c]
    <3> HIDE DEF I, SS, D
    <3> QED BY <2>1, <2>2
  <2>4. F = [c \in D |-> F[c]]
    BY <1>5, <1>14
  <2>5. g = [c \in D |-> g[c]]
    BY <1>17
  <2> HIDE DEF D
  <2> QED BY <2>3, <2>4, <2>5
<1>22. g \in S
  <2> HIDE DEF S
  <2> QED BY <1>14, <1>21
<1> HIDE DEF Step
<1> QED BY <1>18, <1>19, <1>22 DEF AssignOf

-----------------------------------------------------------------------------
(* What a search finds *)

\* The pairs that may be shown as a replacement.
EdgesOf(b, t, A, B) == {e \in A \X B : MayReplace(b, t, e[1], e[2])}

\* A search as it is begun for row i: pairs that match, and a partner i already has is
\* not to be visited.
Ready(b, t, A, B, i, s) ==
    /\ i \in A /\ s \in Searches(b, t) /\ s.done = FALSE /\ s.visited \subseteq B
    /\ s.pairs \subseteq EdgesOf(b, t, A, B) /\ Matches(s.pairs, A, B)
    /\ \A p \in s.pairs : p[1] = i => p[2] \in s.visited

\* A search that found nothing for i: all that may replace i was visited, and what was
\* visited on the way is held by a row all of whose choices were visited too.
Missed(b, t, B, i, s, r) ==
    /\ r.pairs = s.pairs /\ s.visited \subseteq r.visited /\ r.visited \subseteq B
    /\ Takeable(b, t, B, i) \subseteq r.visited
    /\ \A j \in r.visited \ s.visited :
         \E p \in s.pairs : p[2] = j /\ Takeable(b, t, B, p[1]) \subseteq r.visited

\* A search that found something: the pairs it leaves, without the partner i had, match
\* and cover i as well, and those with what was visited before are the same.
Found(b, t, A, B, i, M, V, Q) ==
    /\ Q \subseteq EdgesOf(b, t, A, B) /\ \A p, q \in Q : p[2] = q[2] => p = q
    /\ \A p \in Q \cup M : p[2] \in V => (p \in Q <=> p \in M)
    /\ Matches({p \in Q : ~(p \in M /\ p[1] = i)}, A, B)
    /\ Lefts({p \in Q : ~(p \in M /\ p[1] = i)}) = Lefts(M) \cup {i}

RightOf(b, t, A, B, i, s, r) ==
    IF r.done THEN Found(b, t, A, B, i, s.pairs, s.visited, r.pairs)
    ELSE Missed(b, t, B, i, s, r)

\* Pairs that leave row j free let i have it.
FreeOf(b, t, A, B, M, V, j, N) ==
    /\ N \subseteq EdgesOf(b, t, A, B) /\ Matches(N, A, B) /\ Lefts(N) = Lefts(M)
    /\ \A p \in N : p[2] # j
    /\ \A p \in N \cup M : p[2] \in V => (p \in N <=> p \in M)

\* Giving i a row that is free.
LEMMA FoundFree ==
    ASSUME NEW b, NEW t, NEW A, NEW B, NEW i \in A, NEW j \in B, MayReplace(b, t, i, j),
           NEW M, M \subseteq EdgesOf(b, t, A, B), Matches(M, A, B), NEW V, j \notin V,
           \A p \in M : p[1] = i => p[2] \in V,
           NEW N, FreeOf(b, t, A, B, M, V, j, N)
    PROVE  Found(b, t, A, B, i, M, V, N \cup {<<i, j>>})
<1> DEFINE Q == N \cup {<<i, j>>} R == {p \in Q : ~(p \in M /\ p[1] = i)}
<1>1. \A p \in A \X B : p = <<p[1], p[2]>>
  OBVIOUS
<1>2. <<i, j>> \in EdgesOf(b, t, A, B)
  BY DEF EdgesOf
<1>3. N \subseteq A \X B /\ M \subseteq A \X B
  BY DEF FreeOf, Matches
<1>4. <<i, j>>[1] = i /\ <<i, j>>[2] = j
  OBVIOUS
<1>5. <<i, j>> \notin M
  BY <1>4
<1>6. \A p, q \in N : (p[1] = q[1] <=> p[2] = q[2]) /\ (p[2] = q[2] => p = q)
  BY <1>1, <1>3 DEF FreeOf, Matches
<1>7. ASSUME NEW p \in N, p[1] = i PROVE p \in M
  <2>1. i \in Lefts(M)
    BY <1>7 DEF FreeOf, Lefts
  <2>2. PICK q \in M : q[1] = i
    BY <2>1 DEF Lefts
  <2>3. q \in N
    BY <2>2 DEF FreeOf
  <2>4. p = q
    BY <1>6, <1>7, <2>2, <2>3
  <2> QED BY <2>4
<1>8. \A p : p \in R <=> (p \in N /\ p[1] # i) \/ p = <<i, j>>
  BY <1>4, <1>5, <1>7
<1>9. Q \subseteq EdgesOf(b, t, A, B)
  BY <1>2 DEF FreeOf
<1>10. ASSUME NEW p \in Q, NEW q \in Q, p[2] = q[2] PROVE p = q
  <2>1. \A r \in N : r[2] # j
    BY DEF FreeOf
  <2> QED BY <1>4, <1>6, <1>10, <2>1
<1>11. ASSUME NEW p \in Q \cup M, p[2] \in V PROVE p \in Q <=> p \in M
  <2>1. p # <<i, j>>
    BY <1>4, <1>11
  <2>2. p \in Q <=> p \in N
    BY <2>1
  <2> QED BY <1>11, <2>2 DEF FreeOf
<1> HIDE DEF R, Q
<1>12. Matches(R, A, B)
  <2>1. R \subseteq A \X B
    BY <1>3, <1>8
  <2>2. ASSUME NEW p \in R, NEW q \in R PROVE p[1] = q[1] <=> p[2] = q[2]
    <3>1. CASE p = <<i, j>> /\ q = <<i, j>>
      BY <3>1
    <3>2. CASE p \in N /\ q \in N
      BY <1>6, <3>2
    <3>3. CASE p \in N /\ p[1] # i /\ q = <<i, j>>
      <4>1. p[2] # j
        BY <3>3 DEF FreeOf
      <4> QED BY <1>4, <3>3, <4>1
    <3>4. CASE q \in N /\ q[1] # i /\ p = <<i, j>>
      <4>1. q[2] # j
        BY <3>4 DEF FreeOf
      <4> QED BY <1>4, <3>4, <4>1
    <3> QED BY <1>8, <3>1, <3>2, <3>3, <3>4
  <2> QED BY <2>1, <2>2 DEF Matches
<1>13. Lefts(R) = Lefts(M) \cup {i}
  <2>1. Lefts(N) = Lefts(M)
    BY DEF FreeOf
  <2>2. ASSUME NEW k \in Lefts(R) PROVE k \in Lefts(M) \cup {i}
    <3>1. PICK p \in R : p[1] = k
      BY DEF Lefts
    <3>2. CASE p = <<i, j>>
      BY <1>4, <3>1, <3>2
    <3>3. CASE p \in N
      <4>1. k \in Lefts(N)
        BY <3>1, <3>3 DEF Lefts
      <4> QED BY <2>1, <4>1
    <3> QED BY <1>8, <3>2, <3>3
  <2>3. i \in Lefts(R)
    <3>1. <<i, j>> \in R
      BY <1>8
    <3> QED BY <1>4, <3>1 DEF Lefts
  <2>4. ASSUME NEW k \in Lefts(M), k # i PROVE k \in Lefts(R)
    <3>1. k \in Lefts(N)
      BY <2>1
    <3>2. PICK p \in N : p[1] = k
      BY <3>1 DEF Lefts
    <3>3. p \in R
      BY <1>8, <2>4, <3>2
    <3> QED BY <3>2, <3>3 DEF Lefts
  <2> QED BY <2>2, <2>3, <2>4
<1> QED BY <1>9, <1>10, <1>11, <1>12, <1>13 DEF Found, R, Q

\* What holds row j found another, and leaves j free.
LEMMA FreedOf ==
    ASSUME NEW b, NEW t, NEW A, NEW B, NEW M, Matches(M, A, B), NEW V, NEW k, NEW j,
           j \notin V, <<k, j>> \in M, NEW Q, Found(b, t, A, B, k, M, V \cup {j}, Q)
    PROVE  FreeOf(b, t, A, B, M, V, j, {p \in Q : p[2] # j})
<1> DEFINE N == {p \in Q : p[2] # j} R == {p \in Q : ~(p \in M /\ p[1] = k)}
<1>1. <<k, j>>[1] = k /\ <<k, j>>[2] = j
  OBVIOUS
<1>2. \A p \in Q : p[2] = j => p \in M
  BY DEF Found
<1>3. \A p \in M : p[1] = k <=> p[2] = j
  BY <1>1 DEF Matches
<1>4. \A p : p \in N <=> p \in R
  BY <1>2, <1>3
<1>5. N = R
  BY <1>4
<1>6. Matches(R, A, B) /\ Lefts(R) = Lefts(M) \cup {k}
  BY DEF Found
<1>7. k \in Lefts(M)
  BY <1>1 DEF Lefts
<1>8. N \subseteq EdgesOf(b, t, A, B)
  BY DEF Found
<1>9. ASSUME NEW p \in N \cup M, p[2] \in V PROVE p \in N <=> p \in M
  <2>1. CASE p[2] = j
    BY <1>9, <2>1
  <2>2. CASE p[2] # j
    <3>1. p \in Q \cup M /\ p[2] \in V \cup {j}
      BY <1>9
    <3>2. p \in Q <=> p \in M
      BY <3>1 DEF Found
    <3> QED BY <2>2, <3>2
  <2> QED BY <2>1, <2>2
<1> HIDE DEF N, R
<1>10. Lefts(N) = Lefts(M)
  BY <1>5, <1>6, <1>7
<1>11. \A p \in N : p[2] # j
  BY DEF N
<1> QED BY <1>5, <1>6, <1>8, <1>9, <1>10, <1>11 DEF FreeOf, N

\* What was found by one that had visited more was found by one that had visited less.
LEMMA FoundLess ==
    ASSUME NEW b, NEW t, NEW A, NEW B, NEW i, NEW M, NEW V, NEW W, V \subseteq W, NEW Q,
           Found(b, t, A, B, i, M, W, Q)
    PROVE  Found(b, t, A, B, i, M, V, Q)
<1>1. \A p \in Q \cup M : p[2] \in V => (p \in Q <=> p \in M)
  BY DEF Found
<1> QED BY <1>1 DEF Found

\* A search that misses after the holder k of row j missed has missed on the whole.
LEMMA MissedOn ==
    ASSUME NEW b, NEW t, NEW B, NEW i, NEW j \in B, NEW k, NEW s, NEW seen, NEW w, NEW r,
           seen.pairs = s.pairs, seen.visited = s.visited \cup {j}, <<k, j>> \in s.pairs,
           Missed(b, t, B, k, seen, w), Missed(b, t, B, i, w, r)
    PROVE  Missed(b, t, B, i, s, r)
<1>1. r.pairs = s.pairs /\ w.pairs = s.pairs
  BY DEF Missed
<1>2. s.visited \subseteq w.visited /\ w.visited \subseteq r.visited /\ r.visited \subseteq B /\ j \in w.visited
  BY DEF Missed
<1>3. Takeable(b, t, B, i) \subseteq r.visited /\ Takeable(b, t, B, k) \subseteq r.visited
  BY <1>2 DEF Missed
<1>4. ASSUME NEW l \in r.visited \ s.visited
      PROVE  \E p \in s.pairs : p[2] = l /\ Takeable(b, t, B, p[1]) \subseteq r.visited
  <2>1. CASE l = j
    <3>1. <<k, j>>[1] = k /\ <<k, j>>[2] = j
      OBVIOUS
    <3> QED BY <1>3, <2>1, <3>1
  <2>2. CASE l \in w.visited /\ l # j
    <3>1. l \in w.visited \ seen.visited
      BY <1>4, <2>2
    <3>2. PICK p \in seen.pairs : p[2] = l /\ Takeable(b, t, B, p[1]) \subseteq w.visited
      BY <3>1 DEF Missed
    <3>3. Takeable(b, t, B, p[1]) \subseteq r.visited
      BY <1>2, <3>2
    <3> QED BY <3>2, <3>3
  <2>3. CASE l \notin w.visited
    <3>1. l \in r.visited \ w.visited
      BY <1>4, <2>3
    <3>2. PICK p \in w.pairs : p[2] = l /\ Takeable(b, t, B, p[1]) \subseteq r.visited
      BY <3>1 DEF Missed
    <3> QED BY <1>1, <3>2
  <2> QED BY <2>1, <2>2, <2>3
<1> QED BY <1>1, <1>2, <1>3, <1>4 DEF Missed

\* Pairs whose row j nobody holds leave j free.
LEMMA FreeAlready ==
    ASSUME NEW b, NEW t, NEW A, NEW B, NEW M, M \subseteq EdgesOf(b, t, A, B), Matches(M, A, B),
           NEW V, NEW j, \A p \in M : p[2] # j
    PROVE  FreeOf(b, t, A, B, M, V, j, M)
BY DEF FreeOf

\* The sides of the pairs: rows of the two documents, those of the target finitely many.
RowSets(b, t, A, B) == SidesOf(b, t, B) /\ A \subseteq DOMAIN b.ingredients

\* A call is right if those it makes are, all of which have fewer rows left.
LEMMA TriedRight ==
    ASSUME NEW b, NEW t, NEW A, NEW B, RowSets(b, t, A, B), NEW F \in Growing(b, t), NEW m \in Nat,
           \A i, s : Ready(b, t, A, B, i, s) /\ Unvisited(B, s) < m
                        => RightOf(b, t, A, B, i, s, F[<<i, s>>]),
           NEW i, NEW s, Ready(b, t, A, B, i, s), Unvisited(B, s) < m + 1
    PROVE  RightOf(b, t, A, B, i, s, Tried(b, t, B, F, i, s))
<1> DEFINE j == Target(b, t, B, i, s) seen == Seen(b, t, B, i, s)
           w == Onward(F, b, t, B, i, s) M == s.pairs V == s.visited
<1>1. /\ i \in A /\ i \in DOMAIN b.ingredients /\ s \in Searches(b, t) /\ s.done = FALSE /\ V \subseteq B
      /\ M \subseteq EdgesOf(b, t, A, B) /\ Matches(M, A, B) /\ M \subseteq A \X B
      /\ \A p \in M : p[1] = i => p[2] \in V
  BY DEF Ready, RowSets, Matches
<1>2. SidesOf(b, t, B) /\ IsFiniteSet(B)
  BY DEF RowSets, SidesOf
<1>3. CASE Untried(b, t, B, i, s) = {}
  <2>1. Tried(b, t, B, F, i, s) = s
    BY <1>3, TriedIs
  <2>2. Takeable(b, t, B, i) \subseteq V
    BY <1>3 DEF Takeable, Untried
  <2>3. Missed(b, t, B, i, s, s)
    BY <1>1, <2>2 DEF Missed
  <2> QED BY <1>1, <2>1, <2>3 DEF RightOf
<1>4. CASE Untried(b, t, B, i, s) # {}
  <2>1. /\ j \in B /\ j \notin V /\ MayReplace(b, t, i, j) /\ seen \in Searches(b, t)
        /\ seen.pairs = M /\ seen.visited = V \cup {j} /\ seen.done = FALSE
    BY <1>1, <1>2, <1>4, SeenOf DEF SeenIs
  <2>2. w \in Searches(b, t) /\ seen.visited \subseteq w.visited
    BY <1>1, <1>2, <1>4, OnwardTyped DEF OnwardIs
  <2>3. Tried(b, t, B, F, i, s) = IF w.done THEN Taken(w, i, j) ELSE F[<<i, w>>]
    BY <1>4, TriedIs
  <2>4. ASSUME NEW r \in Searches(b, t), seen.visited \subseteq r.visited
        PROVE  Unvisited(B, r) < m
    <3>1. V \subseteq r.visited /\ j \in r.visited /\ j \in B \ V
      BY <2>1, <2>4
    <3> HIDE DEF j
    <3>2. Unvisited(B, r) < Unvisited(B, s)
      BY <1>2, <3>1, FewerLeft
    <3>3. Unvisited(B, r) \in Nat /\ Unvisited(B, s) \in Nat
      BY <1>2, FS_Difference, FS_CardinalityType DEF Unvisited
    <3> HIDE DEF Unvisited
    <3> QED BY <3>2, <3>3
  <2>5. ASSUME w.done, FreeOf(b, t, A, B, M, V, j, {p \in w.pairs : p[2] # j})
        PROVE  RightOf(b, t, A, B, i, s, Tried(b, t, B, F, i, s))
    <3> DEFINE N == {p \in w.pairs : p[2] # j}
    <3>1. Tried(b, t, B, F, i, s) = Taken(w, i, j)
      BY <2>3, <2>5
    <3> HIDE DEF w, j, M, V
    <3>2. Taken(w, i, j).done /\ Taken(w, i, j).pairs = N \cup {<<i, j>>}
      BY <2>2, <2>5 DEF Taken, Searches
    <3>3. FreeOf(b, t, A, B, M, V, j, N)
      BY <2>5
    <3> HIDE DEF N
    <3>4. Found(b, t, A, B, i, M, V, N \cup {<<i, j>>})
      BY <1>1, <2>1, <3>3, FoundFree
    <3> QED BY <3>1, <3>2, <3>4 DEF RightOf, M, V
  <2>6. CASE Holders(s, j) = {}
    <3>1. w = [seen EXCEPT !.done = TRUE]
      BY <2>6 DEF Onward
    <3>2. w.done /\ w.pairs = M
      <4> HIDE DEF w, seen
      <4> QED BY <2>1, <3>1 DEF Searches
    <3>3. \A p \in M : p[2] # j
      BY <2>6 DEF Holders
    <3> HIDE DEF w, j, M, V
    <3>4. FreeOf(b, t, A, B, M, V, j, M)
      BY <1>1, <3>3, FreeAlready
    <3>5. {p \in w.pairs : p[2] # j} = M
      BY <3>2, <3>3
    <3>6. FreeOf(b, t, A, B, M, V, j, {p \in w.pairs : p[2] # j})
      BY <3>4, <3>5
    <3> QED BY <2>5, <3>2, <3>6 DEF w, j, M, V
  <2>7. CASE Holders(s, j) # {}
    <3> DEFINE k == HolderOf(s, j)
    <3>1. w = F[<<k, seen>>]
      BY <2>7 DEF Onward
    <3>2. <<k, j>> \in M
      <4> HIDE DEF j
      <4> QED BY <1>1, <2>7, HolderIs
    <3> HIDE DEF k, j, seen, M, V
    <3>3. Ready(b, t, A, B, k, seen)
      <4>1. k \in A
        BY <1>1, <3>2
      <4>2. <<k, j>>[1] = k /\ <<k, j>>[2] = j
        OBVIOUS
      <4>3. \A p \in M : p[1] = k => p[2] = j
        BY <1>1, <3>2, <4>2 DEF Matches
      <4> QED BY <1>1, <2>1, <4>1, <4>3 DEF Ready
    <3>4. Unvisited(B, seen) < m
      BY <2>1, <2>4
    <3>5. RightOf(b, t, A, B, k, seen, w)
      <4> HIDE DEF w
      <4>1. RightOf(b, t, A, B, k, seen, F[<<k, seen>>])
        BY <3>3, <3>4
      <4> QED BY <3>1, <4>1
    <3>6. CASE w.done
      <4> HIDE DEF w
      <4>1. Found(b, t, A, B, k, M, V \cup {j}, w.pairs)
        BY <2>1, <3>5, <3>6 DEF RightOf
      <4>2. FreeOf(b, t, A, B, M, V, j, {p \in w.pairs : p[2] # j})
        BY <1>1, <2>1, <3>2, <4>1, FreedOf
      <4> QED BY <2>5, <3>6, <4>2 DEF w, j, M, V
    <3>7. CASE ~w.done
      <4> DEFINE r == F[<<i, w>>]
      <4>1. Tried(b, t, B, F, i, s) = r
        BY <2>3, <3>7
      <4> HIDE DEF w
      <4>2. Missed(b, t, B, k, seen, w)
        BY <3>5, <3>7 DEF RightOf
      <4>3. w.pairs = M /\ V \subseteq w.visited /\ w.visited \subseteq B /\ w.done = FALSE
        <5>1. w.done \in BOOLEAN
          BY <2>2 DEF Searches
        <5> QED BY <2>1, <3>7, <4>2, <5>1 DEF Missed
      <4>4. Ready(b, t, A, B, i, w)
        BY <1>1, <2>2, <4>3 DEF Ready
      <4>5. Unvisited(B, w) < m
        BY <2>2, <2>4
      <4>6. RightOf(b, t, A, B, i, w, r)
        BY <4>4, <4>5
      <4> HIDE DEF r
      <4>7. CASE r.done
        <5>1. Found(b, t, A, B, i, M, w.visited, r.pairs)
          BY <4>3, <4>6, <4>7 DEF RightOf
        <5>2. Found(b, t, A, B, i, M, V, r.pairs)
          BY <4>3, <5>1, FoundLess
        <5> QED BY <4>1, <4>7, <5>2 DEF RightOf, M, V
      <4>8. CASE ~r.done
        <5>1. Missed(b, t, B, i, w, r)
          BY <4>6, <4>8 DEF RightOf
        <5>2. seen.pairs = s.pairs /\ seen.visited = s.visited \cup {j} /\ <<k, j>> \in s.pairs
          BY <2>1, <3>2 DEF M, V
        <5>3. Missed(b, t, B, i, s, r)
          BY <2>1, <4>2, <5>1, <5>2, MissedOn
        <5> QED BY <4>1, <4>8, <5>3 DEF RightOf
      <4> QED BY <4>7, <4>8
    <3> QED BY <3>6, <3>7
  <2> QED BY <2>6, <2>7
<1> QED BY <1>3, <1>4

\* Every search is right.
LEMMA AssignRight ==
    ASSUME NEW b, NEW t, NEW A, NEW B, RowSets(b, t, A, B),
           NEW i, NEW s, Ready(b, t, A, B, i, s)
    PROVE  RightOf(b, t, A, B, i, s, Assign(b, t, B)[<<i, s>>])
<1> DEFINE g == Assign(b, t, B)
           Right(m) == \A k, r : Ready(b, t, A, B, k, r) /\ Unvisited(B, r) < m
                                   => RightOf(b, t, A, B, k, r, g[<<k, r>>])
           Bad == {m \in Nat : ~Right(m)}
<1>1. SidesOf(b, t, B) /\ IsFiniteSet(B)
  BY DEF RowSets, SidesOf
<1>2. g \in Growing(b, t)
  BY <1>1, AssignIs DEF AssignOf
<1>3. ASSUME NEW k, NEW r, Ready(b, t, A, B, k, r)
      PROVE  g[<<k, r>>] = Tried(b, t, B, g, k, r)
  <2>1. k \in DOMAIN b.ingredients /\ r \in Searches(b, t)
    BY <1>3 DEF Ready, RowSets
  <2> QED BY <1>1, <2>1, AssignIs DEF AssignOf
<1>4. \A r : Unvisited(B, r) \in Nat
  BY <1>1, FS_Difference, FS_CardinalityType DEF Unvisited
<1>5. Bad = {}
  <2> SUFFICES ASSUME Bad # {} PROVE FALSE
    OBVIOUS
  <2>1. PICK n \in Bad : \A k \in Bad : n <= k
    <3>1. Bad \subseteq Nat
      OBVIOUS
    <3> HIDE DEF Bad
    <3> QED BY <3>1, LeastOf
  <2>2. n \in Nat /\ ~Right(n)
    BY <2>1
  <2>3. n # 0
    <3>1. \A r : ~(Unvisited(B, r) < 0)
      BY <1>4
    <3> QED BY <2>2, <3>1
  <2>4. n - 1 \in Nat /\ ~(n <= n - 1) /\ (n - 1) + 1 = n
    BY <2>2, <2>3
  <2>5. Right(n - 1)
    <3>1. n - 1 \notin Bad
      <4> HIDE DEF Bad
      <4> QED BY <2>1, <2>4
    <3> HIDE DEF Right
    <3> QED BY <2>4, <3>1
  <2> HIDE DEF Bad
  <2>6. ASSUME NEW k, NEW r, Ready(b, t, A, B, k, r), Unvisited(B, r) < n
        PROVE  RightOf(b, t, A, B, k, r, g[<<k, r>>])
    <3>1. Unvisited(B, r) < (n - 1) + 1
      BY <2>4, <2>6
    <3> HIDE DEF g
    <3>2. RightOf(b, t, A, B, k, r, Tried(b, t, B, g, k, r))
      BY <1>2, <2>4, <2>5, <2>6, <3>1, TriedRight
    <3> QED BY <1>3, <2>6, <3>2
  <2>7. Right(n)
    BY <2>6
  <2> HIDE DEF Right
  <2> QED BY <2>2, <2>7
<1>6. Right(Unvisited(B, s) + 1)
  <2>1. Unvisited(B, s) + 1 \in Nat
    BY <1>4
  <2> HIDE DEF Right
  <2> QED BY <1>5, <2>1
<1>7. Unvisited(B, s) < Unvisited(B, s) + 1
  BY <1>4
<1> QED BY <1>6, <1>7

-----------------------------------------------------------------------------
(* As many as can be *)

\* Matched pairs are as many as their left sides.
LEMMA PairsCount ==
    ASSUME NEW A, NEW B, IsFiniteSet(A), NEW M, Matches(M, A, B)
    PROVE  IsFiniteSet(M) /\ Cardinality(M) = Cardinality(Lefts(M))
<1> DEFINE L == Lefts(M) f == [i \in L |-> CHOOSE p \in M : p[1] = i]
<1>1. IsFiniteSet(L)
  BY MatchOf
<1>2. \A i \in L : f[i] \in M /\ f[i][1] = i
  BY DEF Lefts
<1>3. \A p \in M : p[1] \in L
  BY DEF Lefts
<1>4. ASSUME NEW p \in M, NEW q \in M, p[1] = q[1] PROVE p = q
  <2>1. p \in A \X B /\ q \in A \X B /\ p[2] = q[2]
    BY <1>4 DEF Matches
  <2>2. p = <<p[1], p[2]>> /\ q = <<q[1], q[2]>>
    BY <2>1
  <2> QED BY <1>4, <2>1, <2>2
<1>5. f = [i \in L |-> f[i]]
  OBVIOUS
<1> HIDE DEF f, L
<1>6. \A p \in M : f[p[1]] = p
  BY <1>2, <1>3, <1>4
<1>7. f \in [L -> M]
  BY <1>2, <1>5
<1>8. \A i, k \in L : f[i] = f[k] => i = k
  BY <1>2
<1>9. \A p \in M : \E i \in L : f[i] = p
  BY <1>3, <1>6
<1>10. DOMAIN f = L
  BY <1>5
<1>11. f \in Bijection(L, M)
  BY <1>7, <1>8, <1>9, <1>10 DEF Bijection, Injection, Surjection, IsInjective
<1>12. ExistsBijection(L, M)
  BY <1>11 DEF ExistsBijection
<1>13. IsFiniteSet(M) /\ Cardinality(M) = Cardinality(L)
  BY <1>1, <1>12, FS_Bijection
<1> QED BY <1>13 DEF L

\* A one-to-one relation from a finite set into another shows which is the smaller.
LEMMA NoMoreThan ==
    ASSUME NEW S, NEW T, IsFiniteSet(T), NEW f, f \in [S -> T],
           \A x, y \in S : f[x] = f[y] => x = y
    PROVE  IsFiniteSet(S) /\ Cardinality(S) <= Cardinality(T)
<1>1. f \in Injection(S, T)
  BY DEF Injection, IsInjective
<1> QED BY <1>1, FS_Injection

\* Rows C and D such that every pair of the rows up to n has one of them, no more of them
\* than there are pairs in M.
Covers(b, t, A, B, n, M, C, D) ==
    /\ C \subseteq A /\ (\A i \in C : i <= n) /\ D \subseteq B
    /\ \A e \in EdgesOf(b, t, A, B) : e[1] <= n => e[1] \in C \/ e[2] \in D
    /\ Cardinality(C) + Cardinality(D) <= Cardinality(Lefts(M))

\* Pairs of the rows up to n that are as many as can be.
MostUpTo(b, t, A, B, n, M) ==
    /\ M \subseteq EdgesOf(b, t, A, B) /\ Matches(M, A, B) /\ \A p \in M : p[1] <= n
    /\ \E C, D : Covers(b, t, A, B, n, M, C, D)

\* Two finite sides, and the places of the first are numbers.
FiniteSides(A, B) == A \subseteq Nat /\ IsFiniteSet(A) /\ IsFiniteSet(B)

\* With another row found there is another pair, and the row joins the cover.
LEMMA MostFound ==
    ASSUME NEW b, NEW t, NEW A, NEW B, FiniteSides(A, B), NEW n \in Nat, n + 1 \in A, NEW M,
           MostUpTo(b, t, A, B, n, M), NEW Q, Found(b, t, A, B, n + 1, M, {}, Q)
    PROVE  MostUpTo(b, t, A, B, n + 1, Q)
<1> DEFINE i == n + 1
<1>1. i \in A /\ i \in Nat /\ ~(i <= n)
  OBVIOUS
<1>2. /\ M \subseteq EdgesOf(b, t, A, B) /\ Matches(M, A, B) /\ \A p \in M : p[1] <= n
  BY DEF MostUpTo
<1>3. PICK C, D : Covers(b, t, A, B, n, M, C, D)
  BY DEF MostUpTo
<1>4. A \subseteq Nat /\ IsFiniteSet(A) /\ IsFiniteSet(B)
  BY DEF FiniteSides
<1>5. /\ Q \subseteq EdgesOf(b, t, A, B) /\ Matches({p \in Q : ~(p \in M /\ p[1] = i)}, A, B)
      /\ Lefts({p \in Q : ~(p \in M /\ p[1] = i)}) = Lefts(M) \cup {i}
  BY DEF Found
<1> HIDE DEF i
<1>6. {p \in Q : ~(p \in M /\ p[1] = i)} = Q
  BY <1>1, <1>2
<1>7. Matches(Q, A, B) /\ Lefts(Q) = Lefts(M) \cup {i}
  BY <1>5, <1>6
<1>8. Lefts(M) \subseteq A /\ IsFiniteSet(Lefts(M))
  BY <1>2, <1>4, MatchOf
<1>9. i \notin Lefts(M)
  BY <1>1, <1>2 DEF Lefts
<1>10. Cardinality(Lefts(M) \cup {i}) = Cardinality(Lefts(M)) + 1
  BY <1>8, <1>9, FS_AddElement
<1>11. i \notin C /\ C \in SUBSET A /\ D \in SUBSET B
  BY <1>1, <1>3 DEF Covers
<1>12. IsFiniteSet(C) /\ IsFiniteSet(D)
  BY <1>4, <1>11, FS_Subset
<1>13. Cardinality(C \cup {i}) = Cardinality(C) + 1
  BY <1>11, <1>12, FS_AddElement
<1>14. Cardinality(C \cup {i}) + Cardinality(D) <= Cardinality(Lefts(Q))
  <2>1. Cardinality(C) + Cardinality(D) <= Cardinality(Lefts(M))
    BY <1>3 DEF Covers
  <2>2. Cardinality(C) \in Nat /\ Cardinality(D) \in Nat /\ Cardinality(Lefts(M)) \in Nat
    BY <1>8, <1>12, FS_CardinalityType
  <2>3. Cardinality(Lefts(Q)) = Cardinality(Lefts(M)) + 1
    BY <1>7, <1>10
  <2> QED BY <1>13, <2>1, <2>2, <2>3
<1>15. ASSUME NEW k \in A, k <= i PROVE k <= n \/ k = i
  BY <1>4, <1>15 DEF i
<1>16. \A k \in Nat : k <= n => k <= i
  BY DEF i
<1>17. \A k \in C \cup {i} : k <= i
  <2>1. \A k \in C : k \in Nat /\ k <= n
    BY <1>3, <1>4 DEF Covers
  <2> QED BY <1>1, <1>16, <2>1
<1>18. \A p \in Q : p[1] <= i
  <2> TAKE p \in Q
  <2>1. p[1] \in Lefts(M) \cup {i}
    BY <1>7 DEF Lefts
  <2>2. CASE p[1] \in Lefts(M)
    <3>1. p[1] <= n /\ p[1] \in Nat
      BY <1>2, <1>4, <1>8, <2>2 DEF Lefts
    <3> QED BY <1>16, <3>1
  <2> QED BY <1>1, <2>1, <2>2
<1>19. ASSUME NEW e \in EdgesOf(b, t, A, B), e[1] <= i PROVE e[1] \in C \cup {i} \/ e[2] \in D
  <2>1. e[1] \in A
    BY DEF EdgesOf
  <2>2. e[1] <= n \/ e[1] = i
    BY <1>15, <1>19, <2>1
  <2> QED BY <1>3, <2>2 DEF Covers
<1>20. Covers(b, t, A, B, i, Q, C \cup {i}, D)
  BY <1>1, <1>11, <1>14, <1>17, <1>19 DEF Covers
<1>21. MostUpTo(b, t, A, B, i, Q)
  BY <1>5, <1>7, <1>18, <1>20 DEF MostUpTo
<1> QED BY <1>21 DEF i

\* With nothing found for a row, what was visited joins the cover in the place of what
\* holds it.
LEMMA MostMissed ==
    ASSUME NEW b, NEW t, NEW A, NEW B, FiniteSides(A, B), NEW n \in Nat, n + 1 \in A, NEW M,
           MostUpTo(b, t, A, B, n, M), NEW s, NEW r, s.pairs = M, s.visited = {},
           Missed(b, t, B, n + 1, s, r)
    PROVE  MostUpTo(b, t, A, B, n + 1, M)
<1> DEFINE i == n + 1 V == r.visited H == {k \in A : \E p \in M : p[1] = k /\ p[2] \in V}
<1>1. i \in A /\ i \in Nat
  OBVIOUS
<1>2. M \subseteq EdgesOf(b, t, A, B) /\ Matches(M, A, B) /\ \A p \in M : p[1] <= n
  BY DEF MostUpTo
<1>3. PICK C, D : Covers(b, t, A, B, n, M, C, D)
  BY DEF MostUpTo
<1>4. A \subseteq Nat /\ IsFiniteSet(A) /\ IsFiniteSet(B)
  BY DEF FiniteSides
<1>5. /\ V \subseteq B /\ Takeable(b, t, B, i) \subseteq V
      /\ \A j \in V : \E p \in M : p[2] = j /\ Takeable(b, t, B, p[1]) \subseteq V
  BY DEF Missed
<1>6. C \in SUBSET A /\ D \in SUBSET B /\ C \cap H \in SUBSET A /\ V \in SUBSET B
  BY <1>3, <1>5 DEF Covers
<1> HIDE DEF H, V
<1>7. /\ IsFiniteSet(C) /\ IsFiniteSet(D) /\ IsFiniteSet(C \cap H) /\ IsFiniteSet(V)
  BY <1>4, <1>6, FS_Subset
<1>8. IsFiniteSet(V \ D) /\ Cardinality(V \ D) <= Cardinality(C \cap H)
  <2> DEFINE P(j) == CHOOSE p \in M : p[2] = j
             f == [j \in V \ D |-> P(j)[1]]
  <2>1. \A j \in V : P(j) \in M /\ P(j)[2] = j
    BY <1>5
  <2> HIDE DEF P
  <2>2. ASSUME NEW j \in V \ D PROVE P(j)[1] \in C \cap H
    <3>1. P(j) \in M /\ P(j)[2] = j /\ P(j)[1] <= n /\ P(j) \in EdgesOf(b, t, A, B)
      BY <1>2, <2>1
    <3>2. P(j)[1] \in C
      BY <1>3, <3>1 DEF Covers
    <3>3. P(j)[1] \in A
      BY <1>6, <3>2
    <3> QED BY <3>1, <3>2, <3>3 DEF H
  <2>3. f \in [V \ D -> C \cap H]
    BY <2>2
  <2>4. \A j, k \in V \ D : f[j] = f[k] => j = k
    BY <1>2, <2>1 DEF Matches
  <2> HIDE DEF f
  <2> QED BY <1>7, <2>3, <2>4, NoMoreThan
<1>9. /\ Cardinality(C \ H) = Cardinality(C) - Cardinality(C \cap H)
      /\ Cardinality(D \cup V) <= Cardinality(D) + Cardinality(V \ D)
  <2>1. Cardinality(C \ H) = Cardinality(C) - Cardinality(C \cap H)
    BY <1>7, FS_Difference
  <2>2. D \cup V = D \cup (V \ D) /\ D \cap (V \ D) = {}
    OBVIOUS
  <2>3. Cardinality(D \cup (V \ D)) =
          Cardinality(D) + Cardinality(V \ D) - Cardinality(D \cap (V \ D))
    BY <1>7, <1>8, FS_Union
  <2>4. Cardinality(D \cap (V \ D)) = 0
    BY <2>2, FS_EmptySet
  <2>5. Cardinality(D) \in Nat /\ Cardinality(V \ D) \in Nat
    BY <1>7, <1>8, FS_CardinalityType
  <2>6. Cardinality(D \cup V) = Cardinality(D \cup (V \ D))
    BY <2>2
  <2> DEFINE d == Cardinality(D) v == Cardinality(V \ D) z == Cardinality(D \cap (V \ D))
             u == Cardinality(D \cup (V \ D))
  <2>7. u = d + v - z /\ z = 0 /\ d \in Nat /\ v \in Nat
    BY <2>3, <2>4, <2>5
  <2>8. u <= d + v
    <3> HIDE DEF u, d, v, z
    <3> QED BY <2>7
  <2> QED BY <2>1, <2>6, <2>8
<1>10. Cardinality(C \ H) + Cardinality(D \cup V) <= Cardinality(Lefts(M))
  <2>1. Cardinality(C) + Cardinality(D) <= Cardinality(Lefts(M))
    BY <1>3 DEF Covers
  <2>2. /\ Cardinality(C) \in Nat /\ Cardinality(D) \in Nat /\ Cardinality(C \cap H) \in Nat
        /\ Cardinality(V \ D) \in Nat
    BY <1>7, <1>8, FS_CardinalityType
  <2>3. IsFiniteSet(Lefts(M)) /\ IsFiniteSet(D \cup V)
    <3>1. Lefts(M) \in SUBSET A /\ D \cup V \in SUBSET B
      BY <1>2, <1>6 DEF Lefts, Matches
    <3> QED BY <1>4, <3>1, FS_Subset
  <2>4. Cardinality(Lefts(M)) \in Nat /\ Cardinality(D \cup V) \in Nat
    BY <2>3, FS_CardinalityType
  <2> QED BY <1>8, <1>9, <2>1, <2>2, <2>4
<1>11. \A k \in Nat : (k <= n => k <= i) /\ (k <= i => k <= n \/ k = i)
  OBVIOUS
<1> HIDE DEF i
<1>12. \A k \in C \ H : k <= i
  BY <1>3, <1>4, <1>6, <1>11 DEF Covers
<1>13. ASSUME NEW e \in EdgesOf(b, t, A, B), e[1] <= i PROVE e[1] \in C \ H \/ e[2] \in D \cup V
  <2>1. e[1] \in A /\ e[1] \in Nat /\ e[2] \in B /\ e[2] \in Takeable(b, t, B, e[1])
    BY <1>4 DEF EdgesOf, Takeable
  <2>2. CASE e[1] = i
    BY <1>5, <2>1, <2>2
  <2>3. CASE e[1] \in H
    <3>1. PICK p \in M : p[1] = e[1] /\ p[2] \in V
      BY <2>3 DEF H
    <3>2. PICK q \in M : q[2] = p[2] /\ Takeable(b, t, B, q[1]) \subseteq V
      BY <1>5, <3>1
    <3>3. q[1] = e[1]
      BY <1>2, <3>1, <3>2 DEF Matches
    <3> QED BY <2>1, <3>2, <3>3
  <2>4. CASE e[1] # i /\ e[1] \notin H
    <3>1. e[1] <= n
      BY <1>11, <1>13, <2>1, <2>4
    <3> QED BY <1>3, <2>4, <3>1 DEF Covers
  <2> QED BY <2>2, <2>3, <2>4
<1>14. Covers(b, t, A, B, i, M, C \ H, D \cup V)
  BY <1>6, <1>10, <1>12, <1>13 DEF Covers
<1>15. \A p \in M : p[1] <= i
  <2>1. \A p \in M : p[1] \in Nat
    BY <1>2, <1>4 DEF Matches
  <2> QED BY <1>2, <1>11, <2>1
<1>16. MostUpTo(b, t, A, B, i, M)
  BY <1>2, <1>14, <1>15 DEF MostUpTo
<1> QED BY <1>16 DEF i

\* No matching has more pairs than there are rows in a cover, so none has more than M.
MostPairs(b, t, A, B, M) ==
    /\ M \subseteq EdgesOf(b, t, A, B) /\ Matches(M, A, B)
    /\ \A N \in SUBSET EdgesOf(b, t, A, B) :
         Matches(N, A, B) => Cardinality(N) <= Cardinality(M)

\* What is most up to the last row is most.
LEMMA MostOf ==
    ASSUME NEW b, NEW t, NEW A, NEW B, FiniteSides(A, B), NEW n \in Nat, \A i \in A : i <= n,
           NEW M, MostUpTo(b, t, A, B, n, M)
    PROVE  MostPairs(b, t, A, B, M)
<1>1. M \subseteq EdgesOf(b, t, A, B) /\ Matches(M, A, B)
  BY DEF MostUpTo
<1>2. PICK C, D : Covers(b, t, A, B, n, M, C, D)
  BY DEF MostUpTo
<1>3. IsFiniteSet(A) /\ IsFiniteSet(B)
  BY DEF FiniteSides
<1>4. C \in SUBSET A /\ D \in SUBSET B
  BY <1>2 DEF Covers
<1>5. IsFiniteSet(C) /\ IsFiniteSet(D)
  BY <1>3, <1>4, FS_Subset
<1>6. ASSUME NEW N \in SUBSET EdgesOf(b, t, A, B), Matches(N, A, B)
      PROVE  Cardinality(N) <= Cardinality(M)
  <2> DEFINE L == Lefts(N)
  <2>1. Cardinality(N) = Cardinality(L) /\ Cardinality(M) = Cardinality(Lefts(M))
    BY <1>1, <1>3, <1>6, PairsCount
  <2>2. IsFiniteSet(L) /\ \E f \in Bijection(L, Rights(N)) : \A p \in N : f[p[1]] = p[2]
    BY <1>3, <1>6, MatchOf
  <2>3. PICK f \in Bijection(L, Rights(N)) : \A p \in N : f[p[1]] = p[2]
    BY <2>2
  <2> DEFINE h == [k \in L \ C |-> f[k]]
  <2>4. ASSUME NEW k \in L \ C PROVE f[k] \in D
    <3>1. PICK p \in N : p[1] = k
      BY DEF Lefts
    <3>2. p \in EdgesOf(b, t, A, B) /\ p[1] <= n
      BY <3>1 DEF EdgesOf
    <3> QED BY <1>2, <2>3, <3>1, <3>2 DEF Covers
  <2>5. \A k, l \in L : f[k] = f[l] => k = l
    BY <2>3 DEF Bijection, Injection, IsInjective
  <2>6. h \in [L \ C -> D] /\ \A k, l \in L \ C : h[k] = h[l] => k = l
    BY <2>4, <2>5
  <2> HIDE DEF h, L
  <2>7. Cardinality(L \ C) <= Cardinality(D) /\ IsFiniteSet(L \ C)
    BY <1>5, <2>6, NoMoreThan
  <2>8. L \cap C \in SUBSET C
    OBVIOUS
  <2>9. IsFiniteSet(L \cap C) /\ Cardinality(L \cap C) <= Cardinality(C)
    BY <1>5, <2>8, FS_Subset
  <2>10. Cardinality(L \ C) = Cardinality(L) - Cardinality(L \cap C)
    BY <2>2, FS_Difference
  <2>11. /\ Cardinality(L) \in Nat /\ Cardinality(L \cap C) \in Nat /\ Cardinality(C) \in Nat
         /\ Cardinality(D) \in Nat
    BY <1>5, <2>2, <2>9, FS_CardinalityType
  <2>12. Cardinality(Lefts(M)) \in Nat
    BY <1>1, <1>3, MatchOf, FS_CardinalityType
  <2>13. Cardinality(C) + Cardinality(D) <= Cardinality(Lefts(M))
    BY <1>2 DEF Covers
  <2>14. Cardinality(L) <= Cardinality(Lefts(M))
    BY <2>7, <2>9, <2>10, <2>11, <2>12, <2>13
  <2> QED BY <2>1, <2>14
<1> QED BY <1>1, <1>6 DEF MostPairs

\* The search begun for row n with the pairs so far.
Begun(M) == [pairs |-> M, visited |-> {}, done |-> FALSE]
FoundFor(b, t, B, n, M) == Assign(b, t, B)[<<n, Begun(M)>>].pairs

\* The pairs after each row: none before the first, and a row of A has its search.
ReplacedIs(b, t, A, B, f) ==
    /\ f[0] = {} /\ ReplacedPairs(b, t, A, B) = f[Max(A \cup {0})]
    /\ \A n \in Nat : f[n + 1] = IF n + 1 \in A THEN FoundFor(b, t, B, n + 1, f[n]) ELSE f[n]

\* The replacements are worked out row by row.
LEMMA ReplacedOf ==
    ASSUME NEW b, NEW t, NEW A, NEW B, RowSets(b, t, A, B)
    PROVE  \E f : ReplacedIs(b, t, A, B, f)
<1> DEFINE S == SUBSET ((DOMAIN b.ingredients) \X (DOMAIN t.ingredients))
           After(n, M) == IF n \in A THEN FoundFor(b, t, B, n, M) ELSE M
           Body(f) == [n \in Nat |-> IF n = 0 THEN {} ELSE After(n, f[n - 1])]
           Next_ == [n \in Nat |-> [M \in S |-> After(n, M)]]
           g == CHOOSE f : f = Body(f)
<1>1. Assign(b, t, B) \in Growing(b, t)
  BY AssignIs DEF RowSets, AssignOf
<1>2. ASSUME NEW n \in Nat, NEW M \in S PROVE After(n, M) \in S
  <2>1. Begun(M) \in Searches(b, t)
    BY DEF Begun, Searches
  <2>2. n \in A => n \in DOMAIN b.ingredients
    BY DEF RowSets
  <2>3. n \in A => Assign(b, t, B)[<<n, Begun(M)>>] \in Searches(b, t)
    BY <1>1, <2>1, <2>2 DEF Growing
  <2> QED BY <2>3 DEF FoundFor, Searches
<1>3. {} \in S
  OBVIOUS
<1> HIDE DEF S, After
<1>4. Next_ \in [Nat -> [S -> S]] /\ \A n \in Nat : \A M \in S : Next_[n][M] = After(n, M)
  BY <1>2
<1>5. \E f \in [Nat -> S] : f[0] = {} /\ \A n \in Nat : f[n + 1] = Next_[n + 1][f[n]]
  <2> HIDE DEF Next_
  <2>1. \E f \in [Nat -> S] : Recurs({}, Next_, f)
    BY <1>3, <1>4, RecursionOver
  <2> QED BY <2>1 DEF Recurs
<1>6. PICK f \in [Nat -> S] : f[0] = {} /\ \A n \in Nat : f[n + 1] = Next_[n + 1][f[n]]
  BY <1>5
<1> HIDE DEF Next_
<1>7. \A n \in Nat : n # 0 => f[n] = After(n, f[n - 1])
  <2> TAKE n \in Nat
  <2> HAVE n # 0
  <2>1. n - 1 \in Nat /\ (n - 1) + 1 = n
    OBVIOUS
  <2>2. f[(n - 1) + 1] = Next_[(n - 1) + 1][f[n - 1]] /\ f[n - 1] \in S
    BY <1>6, <2>1
  <2> QED BY <1>4, <2>1, <2>2
<1>8. f = Body(f)
  BY <1>6, <1>7
<1>9. g = Body(g)
  <2> HIDE DEF Body
  <2> QED BY <1>8
<1>10. ReplacedPairs(b, t, A, B) = g[Max(A \cup {0})]
  BY DEF ReplacedPairs, After, FoundFor, Begun
<1> HIDE DEF g
<1>11. g[0] = {}
  BY <1>9
<1>12. ASSUME NEW n \in Nat PROVE g[n + 1] = After(n + 1, g[n])
  <2>1. n + 1 \in Nat /\ n + 1 # 0 /\ (n + 1) - 1 = n
    OBVIOUS
  <2>2. g[n + 1] = After(n + 1, g[(n + 1) - 1])
    BY <1>9, <2>1
  <2> QED BY <2>1, <2>2
<1>13. ReplacedIs(b, t, A, B, g)
  BY <1>10, <1>11, <1>12 DEF ReplacedIs, After
<1> QED BY <1>13

\* No row, no pair.
LEMMA MostAtFirst ==
    ASSUME NEW b, NEW t, NEW A, NEW B, \A i \in A : ~(i <= 0)
    PROVE  MostUpTo(b, t, A, B, 0, {})
<1>1. Lefts({}) = {} /\ Cardinality({}) = 0
  BY FS_EmptySet DEF Lefts
<1>2. \A e \in EdgesOf(b, t, A, B) : ~(e[1] <= 0)
  BY DEF EdgesOf
<1>3. Covers(b, t, A, B, 0, {}, {}, {})
  BY <1>1, <1>2 DEF Covers
<1> QED BY <1>3 DEF MostUpTo, Matches

\* A row that is not in A changes nothing.
LEMMA MostSkipped ==
    ASSUME NEW b, NEW t, NEW A, NEW B, A \subseteq Nat, NEW n \in Nat, n + 1 \notin A, NEW M,
           MostUpTo(b, t, A, B, n, M)
    PROVE  MostUpTo(b, t, A, B, n + 1, M)
<1>1. \A k \in A : k <= n <=> k <= n + 1
  <2> TAKE k \in A
  <2>1. k \in Nat /\ k # n + 1
    OBVIOUS
  <2> QED BY <2>1
<1>2. PICK C, D : Covers(b, t, A, B, n, M, C, D)
  BY DEF MostUpTo
<1>3. \A e \in EdgesOf(b, t, A, B) : e[1] \in A
  BY DEF EdgesOf
<1>4. Covers(b, t, A, B, n + 1, M, C, D)
  BY <1>1, <1>2, <1>3 DEF Covers
<1>5. \A p \in M : p[1] \in A
  BY DEF MostUpTo, Matches
<1>6. \A p \in M : p[1] <= n + 1
  BY <1>1, <1>5 DEF MostUpTo
<1> QED BY <1>4, <1>6 DEF MostUpTo

\* A row of A: what its search finds is most again.
LEMMA MostSearched ==
    ASSUME NEW b, NEW t, NEW A, NEW B, RowSets(b, t, A, B), FiniteSides(A, B),
           NEW n \in Nat, n + 1 \in A, NEW M, MostUpTo(b, t, A, B, n, M)
    PROVE  MostUpTo(b, t, A, B, n + 1, FoundFor(b, t, B, n + 1, M))
<1> DEFINE s == Begun(M) i == n + 1 r == Assign(b, t, B)[<<i, s>>]
<1>1. s.pairs = M /\ s.visited = {} /\ s.done = FALSE
  BY DEF Begun
<1>2. M \subseteq EdgesOf(b, t, A, B) /\ Matches(M, A, B) /\ \A p \in M : p[1] <= n
  BY DEF MostUpTo
<1>3. A \subseteq DOMAIN b.ingredients /\ B \subseteq DOMAIN t.ingredients
  BY DEF RowSets, SidesOf
<1>4. s \in Searches(b, t)
  <2>1. M \subseteq (DOMAIN b.ingredients) \X (DOMAIN t.ingredients)
    BY <1>2, <1>3 DEF Matches
  <2> QED BY <2>1 DEF Begun, Searches
<1>5. \A p \in M : p[1] # i
  <2>1. ~(i <= n)
    OBVIOUS
  <2> HIDE DEF i
  <2> QED BY <1>2, <2>1
<1>6. FoundFor(b, t, B, i, M) = r.pairs
  BY DEF FoundFor
<1>7. i \in A
  OBVIOUS
<1> HIDE DEF s, i
<1>8. Ready(b, t, A, B, i, s)
  BY <1>1, <1>2, <1>4, <1>5, <1>7 DEF Ready
<1>9. RightOf(b, t, A, B, i, s, r)
  BY <1>8, AssignRight
<1> HIDE DEF r
<1>10. CASE r.done
  <2>1. Found(b, t, A, B, i, M, {}, r.pairs)
    BY <1>1, <1>9, <1>10 DEF RightOf
  <2>2. MostUpTo(b, t, A, B, n + 1, r.pairs)
    BY <2>1, MostFound DEF i
  <2> QED BY <1>6, <2>2 DEF i
<1>11. CASE ~r.done
  <2>1. Missed(b, t, B, i, s, r)
    BY <1>9, <1>11 DEF RightOf
  <2>2. r.pairs = M
    BY <1>1, <2>1 DEF Missed
  <2>3. MostUpTo(b, t, A, B, n + 1, M)
    BY <1>1, <2>1, MostMissed DEF i
  <2> QED BY <1>6, <2>2, <2>3 DEF i
<1> QED BY <1>10, <1>11

\* The replacements are as many as can be.
LEMMA ReplacedMost ==
    ASSUME NEW b, NEW t, NEW A, NEW B, RowSets(b, t, A, B), FiniteSides(A, B),
           NEW len \in Nat, A \subseteq 1..len
    PROVE  MostPairs(b, t, A, B, ReplacedPairs(b, t, A, B))
<1>1. PICK f : ReplacedIs(b, t, A, B, f)
  BY ReplacedOf
<1> DEFINE Most(n) == MostUpTo(b, t, A, B, n, f[n])
           Bad == {n \in Nat : ~Most(n)}
<1>2. A \subseteq Nat
  BY DEF FiniteSides
<1>3. Bad = {}
  <2> SUFFICES ASSUME Bad # {} PROVE FALSE
    OBVIOUS
  <2>1. PICK n \in Bad : \A k \in Bad : n <= k
    <3>1. Bad \subseteq Nat
      OBVIOUS
    <3> HIDE DEF Bad
    <3> QED BY <3>1, LeastOf
  <2>2. n \in Nat /\ ~Most(n)
    BY <2>1
  <2>3. n # 0
    <3>1. \A i \in A : ~(i <= 0)
      OBVIOUS
    <3>2. MostUpTo(b, t, A, B, 0, {})
      BY <3>1, MostAtFirst
    <3>3. f[0] = {}
      BY <1>1 DEF ReplacedIs
    <3> QED BY <2>2, <3>2, <3>3
  <2>4. n - 1 \in Nat /\ ~(n <= n - 1) /\ (n - 1) + 1 = n
    BY <2>2, <2>3
  <2>5. Most(n - 1)
    <3>1. n - 1 \notin Bad
      <4> HIDE DEF Bad
      <4> QED BY <2>1, <2>4
    <3> HIDE DEF Most
    <3> QED BY <2>4, <3>1
  <2> HIDE DEF Bad
  <2> DEFINE m == n - 1
  <2>6. m \in Nat /\ m + 1 = n /\ MostUpTo(b, t, A, B, m, f[m])
    BY <2>4, <2>5
  <2> HIDE DEF m
  <2>7. f[m + 1] = IF m + 1 \in A THEN FoundFor(b, t, B, m + 1, f[m]) ELSE f[m]
    BY <1>1, <2>6 DEF ReplacedIs
  <2>8. MostUpTo(b, t, A, B, m + 1, f[m + 1])
    <3>1. CASE m + 1 \in A
      BY <2>6, <2>7, <3>1, MostSearched
    <3>2. CASE m + 1 \notin A
      BY <1>2, <2>6, <2>7, <3>2, MostSkipped
    <3> QED BY <3>1, <3>2
  <2> QED BY <2>2, <2>6, <2>8
<1> DEFINE K == Max(A \cup {0})
<1>4. K \in Nat /\ \A i \in A : i <= K
  <2>1. A \cup {0} \subseteq 0..len /\ A \cup {0} # {}
    OBVIOUS
  <2>2. Max(A \cup {0}) \in A \cup {0} /\ \A x \in A \cup {0} : x <= Max(A \cup {0})
    BY <2>1, GreatestOf
  <2> HIDE DEF K
  <2>3. K \in A \cup {0} /\ \A x \in A \cup {0} : x <= K
    BY <2>2 DEF K
  <2> QED BY <1>2, <2>3
<1>5. ReplacedPairs(b, t, A, B) = f[K]
  BY <1>1 DEF ReplacedIs
<1> HIDE DEF K
<1>6. MostUpTo(b, t, A, B, K, f[K])
  BY <1>3, <1>4
<1>7. MostPairs(b, t, A, B, f[K])
  BY <1>4, <1>6, MostOf
<1> QED BY <1>5, <1>7

\* As many rows as can be are shown as replaced by what may replace them, none twice, for
\* every two versions and every set of curated pairs: the search that lets a row take
\* another's partner if that one finds a new one never gives up too early.
THEOREM MostAreReplaced == Spec => []ReplacementsAreMost
<1>1. ASSUME NEW b, NEW t, WellFormed(b), WellFormed(t)
      PROVE  LET same == SamePairs(b, t)
                 A == Unpaired(b, Lefts(same)) B == Unpaired(t, Rights(same))
             IN MostPairs(b, t, A, B, ReplacedPairs(b, t, A, B))
  <2> DEFINE same == SamePairs(b, t)
             A == Unpaired(b, Lefts(same)) B == Unpaired(t, Rights(same))
             len == Len(b.ingredients)
  <2>1. /\ len \in Nat /\ DOMAIN b.ingredients = 1..len
        /\ Len(t.ingredients) \in Nat /\ DOMAIN t.ingredients = 1..Len(t.ingredients)
    BY <1>1, FormedOf, LenProperties DEF WellFormed
  <2>2. IsFiniteSet(DOMAIN b.ingredients) /\ IsFiniteSet(DOMAIN t.ingredients)
    BY <2>1, FS_Interval
  <2>3. A \in SUBSET DOMAIN b.ingredients /\ B \in SUBSET DOMAIN t.ingredients
    BY DEF Unpaired
  <2> HIDE DEF A, B, len
  <2>4. IsFiniteSet(A) /\ IsFiniteSet(B)
    BY <2>2, <2>3, FS_Subset
  <2>5. DOMAIN b.ingredients \subseteq Nat /\ DOMAIN t.ingredients \subseteq Nat /\ A \subseteq 1..len
    BY <2>1, <2>3
  <2>6. RowSets(b, t, A, B) /\ FiniteSides(A, B)
    BY <2>3, <2>4, <2>5 DEF RowSets, SidesOf, FiniteSides
  <2>7. MostPairs(b, t, A, B, ReplacedPairs(b, t, A, B))
    BY <2>1, <2>5, <2>6, ReplacedMost
  <2> QED BY <2>7 DEF A, B
<1>2. WellFormedInv => ReplacementsAreMost
  <2> SUFFICES ASSUME WellFormedInv, target # None PROVE ReplacementsAreMost
    BY DEF ReplacementsAreMost
  <2> DEFINE same == SamePairs(base, target)
             A == Unpaired(base, Lefts(same)) B == Unpaired(target, Rights(same))
             E == EdgesOf(base, target, A, B)
             Matching(M) == \A p, q \in M : p # q => p[1] # q[1] /\ p[2] # q[2]
             R == ReplacedPairs(base, target, A, B)
  <2>1. WellFormed(base) /\ WellFormed(target)
    BY VersionsOf DEF WellFormedInv, TypeOK
  <2>2. MostPairs(base, target, A, B, R)
    BY <1>1, <2>1
  <2>3. IngredientDiff(base, target).replaced = R
    BY DEF IngredientDiff
  <2>4. E = {e \in A \X B : <<base.ingredients[e[1]].ingredient,
                             target.ingredients[e[2]].ingredient>> \in Substitutes}
    BY DEF EdgesOf, MayReplace
  <2>5. (R \subseteq E /\ Matching(R) /\ \A M \in SUBSET E : Matching(M) => Cardinality(M) <= Cardinality(R))
            => ReplacementsAreMost
    BY <2>3, <2>4 DEF ReplacementsAreMost
  <2>6. E \subseteq A \X B /\ \A p \in A \X B : p = <<p[1], p[2]>>
    BY DEF EdgesOf
  <2> HIDE DEF A, B, R
  <2>7. \A M \in SUBSET E : Matches(M, A, B) <=> Matching(M)
    <3> TAKE M \in SUBSET E
    <3>1. M \subseteq A \X B
      BY <2>6
    <3>2. \A p, q \in M : p[1] = q[1] /\ p[2] = q[2] => p = q
      BY <2>6, <3>1
    <3> HIDE DEF E
    <3> QED BY <3>1, <3>2 DEF Matches
  <2> HIDE DEF Matching
  <2>8. /\ R \subseteq E /\ Matches(R, A, B)
        /\ \A M \in SUBSET E : Matches(M, A, B) => Cardinality(M) <= Cardinality(R)
    BY <2>2 DEF MostPairs
  <2> QED BY <2>5, <2>7, <2>8
<1> QED BY <1>2, AlwaysWellFormed, PTL

-----------------------------------------------------------------------------
(* Fractions *)

Divides(g, m) == \E a \in Nat : m = g * a

\* A number leaves a remainder that has the same divisors in common with what it is
\* divided by.
LEMMA RemainderOf ==
    ASSUME NEW m \in Nat, NEW n \in Nat \ {0}
    PROVE  /\ m % n \in Nat /\ m % n < n /\ m \div n \in Nat
           /\ m = n * (m \div n) + (m % n)
           /\ \A k \in Nat : Divides(k, m) /\ Divides(k, n) <=> Divides(k, n) /\ Divides(k, m % n)
<1>1. m % n \in Nat /\ m % n < n /\ m \div n \in Nat
  OBVIOUS
<1>2. m = n * (m \div n) + (m % n)
  OBVIOUS
<1> DEFINE q == m \div n r == m % n
<1>3. q \in Nat /\ r \in Nat /\ m = n * q + r /\ n \in Nat
  BY <1>1, <1>2
<1> HIDE DEF q, r
<1>4. ASSUME NEW k \in Nat, Divides(k, m), Divides(k, n) PROVE Divides(k, r)
  <2>1. PICK a \in Nat : m = k * a
    BY <1>4 DEF Divides
  <2>2. PICK b \in Nat : n = k * b
    BY <1>4 DEF Divides
  <2>3. CASE k = 0
    <3>1. k * a = 0 /\ k * b = 0
      BY <2>3
    <3> QED BY <2>2, <3>1
  <2>4. CASE k # 0
    <3>1. r = k * (a - b * q)
      <4>1. (k * b) * q = k * (b * q) /\ k * a - k * (b * q) = k * (a - b * q)
        BY <1>3
      <4> QED BY <1>3, <2>1, <2>2, <4>1
    <3>2. a - b * q \in Int
      BY <1>3
    <3>3. a - b * q >= 0
      <4> DEFINE c == a - b * q
      <4>1. c \in Int /\ r = k * c /\ k > 0
        BY <2>4, <3>1, <3>2
      <4> HIDE DEF c
      <4>2. c >= 0
        BY <1>3, <4>1
      <4> QED BY <4>2 DEF c
    <3>4. a - b * q \in Nat
      BY <3>2, <3>3
    <3> QED BY <3>1, <3>4 DEF Divides
  <2> QED BY <2>3, <2>4
<1>5. ASSUME NEW k \in Nat, Divides(k, r), Divides(k, n) PROVE Divides(k, m)
  <2>1. PICK a \in Nat : r = k * a
    BY <1>5 DEF Divides
  <2>2. PICK b \in Nat : n = k * b
    BY <1>5 DEF Divides
  <2>3. m = k * (b * q + a)
    <3>1. (k * b) * q = k * (b * q) /\ k * (b * q) + k * a = k * (b * q + a)
      BY <1>3
    <3> QED BY <1>3, <2>1, <2>2, <3>1
  <2>4. b * q + a \in Nat
    BY <1>3
  <2> QED BY <2>3, <2>4 DEF Divides
<1>6. \A k \in Nat : Divides(k, m) /\ Divides(k, n) <=> Divides(k, n) /\ Divides(k, r)
  BY <1>4, <1>5
<1> QED BY <1>1, <1>2, <1>6 DEF r

\* Euclid's recursion has a solution: the number whose divisors are those in common.
LEMMA GcdFunction ==
    \A p \in Nat \X Nat : Gcd[p] = IF p[2] = 0 THEN p[1] ELSE Gcd[<<p[2], p[1] % p[2]>>]
<1> DEFINE D == Nat \X Nat
           Common(m, n) == {k \in Nat : Divides(k, m) /\ Divides(k, n)}
           Greatest(C) == CHOOSE g \in Nat : \A k \in Nat : k \in C <=> Divides(k, g)
           Step(f) == [p \in D |-> IF p[2] = 0 THEN p[1] ELSE f[<<p[2], p[1] % p[2]>>]]
           h == [p \in D |-> Greatest(Common(p[1], p[2]))]
<1>1. ASSUME NEW m \in Nat PROVE Greatest(Common(m, 0)) = m
  <2>1. \A k \in Nat : Divides(k, 0)
    <3>1. \A k \in Nat : 0 = k * 0 /\ 0 \in Nat
      OBVIOUS
    <3> QED BY <3>1 DEF Divides
  <2>2. \A k \in Nat : k \in Common(m, 0) <=> Divides(k, m)
    BY <2>1
  <2>3. ASSUME NEW g \in Nat, \A k \in Nat : k \in Common(m, 0) <=> Divides(k, g) PROVE g = m
    <3>1. \A k \in Nat : Divides(k, k)
      <4>1. \A k \in Nat : k = k * 1 /\ 1 \in Nat
        OBVIOUS
      <4> QED BY <4>1 DEF Divides
    <3>2. Divides(g, m) /\ Divides(m, g)
      BY <2>2, <2>3, <3>1
    <3>3. PICK a \in Nat : m = g * a
      BY <3>2 DEF Divides
    <3>4. PICK b \in Nat : g = m * b
      BY <3>2 DEF Divides
    <3>5. CASE g = 0
      BY <3>3, <3>5
    <3>6. CASE g # 0
      <4>1. m # 0
        BY <3>4, <3>6
      <4>2. m >= g /\ g >= m
        <5>1. a # 0 /\ b # 0
          BY <3>3, <3>4, <3>6, <4>1
        <5>2. a >= 1 /\ b >= 1
          BY <5>1
        <5>3. g * a >= g * 1 /\ m * b >= m * 1
          BY <5>2
        <5> QED BY <3>3, <3>4, <5>3
      <4> QED BY <4>2
    <3> QED BY <3>5, <3>6
  <2> HIDE DEF Common
  <2> QED BY <2>2, <2>3
<1>2. ASSUME NEW m \in Nat, NEW n \in Nat, n # 0 PROVE Common(m, n) = Common(n, m % n)
  <2>1. \A k \in Nat : Divides(k, m) /\ Divides(k, n) <=> Divides(k, n) /\ Divides(k, m % n)
    BY <1>2, RemainderOf
  <2> QED BY <2>1
<1>3. h = Step(h)
  <2>1. ASSUME NEW p \in D PROVE h[p] = IF p[2] = 0 THEN p[1] ELSE h[<<p[2], p[1] % p[2]>>]
    <3>1. p[1] \in Nat /\ p[2] \in Nat
      OBVIOUS
    <3>2. CASE p[2] = 0
      <4> HIDE DEF Greatest, Common
      <4> QED BY <1>1, <3>1, <3>2
    <3>3. CASE p[2] # 0
      <4>1. <<p[2], p[1] % p[2]>> \in D
        BY <3>1, <3>3, RemainderOf
      <4> HIDE DEF Greatest, Common
      <4> QED BY <1>2, <3>1, <3>3, <4>1
    <3> QED BY <3>2, <3>3
  <2> HIDE DEF Greatest, Common
  <2> QED BY <2>1
<1> DEFINE g == CHOOSE f : f = Step(f)
<1>4. g = Step(g)
  <2> HIDE DEF h, Step
  <2> QED BY <1>3
<1>5. Gcd = g
  BY DEF Gcd
<1> HIDE DEF g
<1>6. \A p \in D : g[p] = IF p[2] = 0 THEN p[1] ELSE g[<<p[2], p[1] % p[2]>>]
  BY <1>4
<1> QED BY <1>5, <1>6

\* A divisor of both that is a combination of both.
IsGcd(g, m, n) ==
    /\ g \in Nat /\ Divides(g, m) /\ Divides(g, n)
    /\ \E x, y \in Int : g = x * m + y * n

\* What Euclid's recursion computes.
LEMMA GcdOf ==
    ASSUME NEW m \in Nat, NEW n \in Nat
    PROVE  IsGcd(Gcd[<<m, n>>], m, n)
<1> DEFINE Right(k) == \A l \in Nat : IsGcd(Gcd[<<l, k>>], l, k)
           Bad == {k \in Nat : ~Right(k)}
<1>1. Bad = {}
  <2> SUFFICES ASSUME Bad # {} PROVE FALSE
    OBVIOUS
  <2>1. PICK k \in Bad : \A i \in Bad : k <= i
    <3>1. Bad \subseteq Nat
      OBVIOUS
    <3> HIDE DEF Bad
    <3> QED BY <3>1, LeastOf
  <2>2. k \in Nat
    BY <2>1
  <2>3. ASSUME NEW l \in Nat PROVE IsGcd(Gcd[<<l, k>>], l, k)
    <3>1. <<l, k>> \in Nat \X Nat /\ <<l, k>>[1] = l /\ <<l, k>>[2] = k
      BY <2>2
    <3>2. CASE k = 0
      <4>1. Gcd[<<l, k>>] = l
        BY <3>1, <3>2, GcdFunction
      <4>2. l = l * 1 /\ 0 = l * 0 /\ l = 1 * l + 0 * 0 /\ 0 \in Nat /\ 1 \in Nat /\ 0 \in Int /\ 1 \in Int
        OBVIOUS
      <4> QED BY <3>2, <4>1, <4>2 DEF IsGcd, Divides
    <3>3. CASE k # 0
      <4> DEFINE r == l % k q == l \div k
      <4>1. r \in Nat /\ r < k /\ q \in Nat /\ l = k * q + r
        BY <2>2, <3>3, RemainderOf
      <4>2. Gcd[<<l, k>>] = Gcd[<<k, r>>]
        BY <3>1, <3>3, GcdFunction
      <4>3. \A i \in Nat : Divides(i, k) /\ Divides(i, r) => Divides(i, l)
        BY <2>2, <3>3, RemainderOf
      <4> HIDE DEF r, q
      <4>4. r \notin Bad
        <5>1. ~(k <= r)
          BY <2>2, <4>1
        <5> HIDE DEF Bad
        <5> QED BY <2>1, <5>1
      <4>5. IsGcd(Gcd[<<k, r>>], k, r)
        BY <2>2, <4>1, <4>4
      <4> DEFINE g == Gcd[<<k, r>>]
      <4> HIDE DEF g
      <4>6. g \in Nat /\ Divides(g, k) /\ Divides(g, r) /\ \E x, y \in Int : g = x * k + y * r
        BY <4>5 DEF IsGcd, g
      <4>7. PICK x, y \in Int : g = x * k + y * r
        BY <4>6
      <4>8. g = y * l + (x - y * q) * k
        <5>1. y * (k * q + r) + (x - y * q) * k = x * k + y * r
          BY <2>2, <4>1
        <5> QED BY <4>1, <4>7, <5>1
      <4>9. y \in Int /\ x - y * q \in Int
        BY <4>1
      <4>10. IsGcd(g, l, k)
        BY <4>3, <4>6, <4>8, <4>9 DEF IsGcd
      <4> QED BY <4>2, <4>10 DEF g
    <3> QED BY <3>2, <3>3
  <2> QED BY <2>1, <2>3
<1> QED BY <1>1

Coprime(a, b) == \E x, y \in Int : x * a + y * b = 1

\* The numerator and the denominator of a fraction have no divisor in common.
IsReduced(n, d, f) ==
    /\ f \in Int \X (Nat \ {0})
    /\ \E g \in Nat \ {0} : n = g * f[1] /\ d = g * f[2]
    /\ Coprime(f[1], f[2])

\* A fraction is reduced.
LEMMA FractionOf ==
    ASSUME NEW n \in Int, NEW d \in Nat \ {0}
    PROVE  IsReduced(n, d, Fraction(n, d))
<1> DEFINE m == IF n < 0 THEN -n ELSE n g == Gcd[<<m, d>>]
<1>1. m \in Nat /\ (m = n \/ m = -n) /\ d \in Nat /\ d > 0
  OBVIOUS
<1>2. Fraction(n, d) = <<n \div g, d \div g>>
  BY DEF Fraction
<1>3. IsGcd(g, m, d)
  <2> HIDE DEF m
  <2> QED BY <1>1, GcdOf
<1> HIDE DEF m, g
<1>4. PICK a \in Nat : m = g * a
  BY <1>3 DEF IsGcd, Divides
<1>5. PICK b \in Nat : d = g * b
  BY <1>3 DEF IsGcd, Divides
<1>6. PICK x, y \in Int : g = x * m + y * d
  BY <1>3 DEF IsGcd
<1>7. g \in Nat \ {0} /\ b \in Nat \ {0}
  <2>1. g \in Nat
    BY <1>3 DEF IsGcd
  <2>2. g # 0
    BY <1>1, <1>5
  <2>3. b # 0
    BY <1>1, <1>5, <2>1
  <2> QED BY <2>1, <2>2, <2>3
<1>8. PICK c \in Int, z \in Int : n = g * c /\ z * n = x * m
  <2>1. CASE m = n
    BY <1>4, <2>1
  <2>2. CASE m = -n
    <3>1. n = g * (-a) /\ (-x) * n = x * m /\ -a \in Int /\ -x \in Int
      <4>1. n = -m
        BY <1>1, <2>2
      <4>2. g * (-a) = -(g * a) /\ (-x) * (-m) = x * m
        BY <1>1, <1>7
      <4> QED BY <1>4, <4>1, <4>2
    <3> QED BY <3>1
  <2> QED BY <1>1, <2>1, <2>2
<1>9. n \div g = c /\ d \div g = b
  <2>1. (g * c) \div g = c /\ (g * b) \div g = b
    BY <1>7
  <2> QED BY <1>5, <1>8, <2>1
<1>10. z * c + y * b = 1
  <2>1. g * (z * c + y * b) = z * (g * c) + y * (g * b)
    BY <1>7
  <2>2. g * (z * c + y * b) = g * 1
    BY <1>5, <1>6, <1>7, <1>8, <2>1
  <2> DEFINE s == z * c + y * b
  <2>3. s \in Int
    BY <1>7
  <2> HIDE DEF s
  <2>4. g * s = g * 1
    BY <2>2 DEF s
  <2>5. s = 1
    BY <1>7, <2>3, <2>4
  <2> QED BY <2>5 DEF s
<1>11. Fraction(n, d) = <<c, b>>
  BY <1>2, <1>9
<1>12. IsReduced(n, d, <<c, b>>)
  BY <1>5, <1>7, <1>8, <1>10 DEF IsReduced, Coprime
<1> QED BY <1>11, <1>12

\* Of two reduced fractions of one value the denominator of one divides that of the other.
LEMMA DenominatorOf ==
    ASSUME NEW a \in Int, NEW b \in Nat \ {0}, NEW c \in Int, NEW e \in Nat \ {0}, a * e = c * b,
           Coprime(a, b)
    PROVE  Divides(b, e)
<1> PICK x \in Int, y \in Int : x * a + y * b = 1
  BY DEF Coprime
<1> DEFINE k == x * c + y * e
<1>1. e * (x * a + y * b) = x * (a * e) + y * (b * e)
  OBVIOUS
<1>2. x * (c * b) + y * (b * e) = b * k
  OBVIOUS
<1>3. e * 1 = b * k
  BY <1>1, <1>2
<1>4. k \in Int
  OBVIOUS
<1> HIDE DEF k
<1>5. e = b * k /\ k > 0
  BY <1>3, <1>4
<1> QED BY <1>4, <1>5 DEF Divides

\* Two fractions are one if and only if their values are.
LEMMA FractionsEqual ==
    ASSUME NEW n \in Int, NEW d \in Nat \ {0}, NEW m \in Int, NEW e \in Nat \ {0}
    PROVE  Fraction(n, d) = Fraction(m, e) <=> n * e = m * d
<1> DEFINE F == Fraction(n, d) G == Fraction(m, e)
           a == F[1] b == F[2] c == G[1] f == G[2]
<1>1. IsReduced(n, d, F) /\ IsReduced(m, e, G)
  BY FractionOf
<1> HIDE DEF F, G
<1>2. a \in Int /\ b \in Nat \ {0} /\ c \in Int /\ f \in Nat \ {0} /\ F = <<a, b>> /\ G = <<c, f>>
  BY <1>1 DEF IsReduced
<1>3. PICK g \in Nat \ {0} : n = g * a /\ d = g * b
  BY <1>1 DEF IsReduced
<1>4. PICK h \in Nat \ {0} : m = h * c /\ e = h * f
  BY <1>1 DEF IsReduced
<1>5. Coprime(a, b)
  BY <1>1 DEF IsReduced
<1>6. Coprime(c, f)
  BY <1>1 DEF IsReduced
<1> HIDE DEF a, b, c, f
<1>7. n * e = (g * h) * (a * f) /\ m * d = (g * h) * (c * b) /\ g * h \in Nat \ {0}
  <2>1. (g * a) * (h * f) = (g * h) * (a * f)
    BY <1>2
  <2>2. (h * c) * (g * b) = (g * h) * (c * b)
    BY <1>2
  <2> QED BY <1>3, <1>4, <2>1, <2>2
<1>8. a * f \in Int /\ c * b \in Int
  BY <1>2
<1>9. ASSUME F = G PROVE n * e = m * d
  <2>1. a = c /\ b = f
    BY <1>2, <1>9
  <2>2. a * f = c * b
    BY <1>2, <2>1
  <2> QED BY <1>7, <2>2
<1>10. ASSUME n * e = m * d PROVE F = G
  <2>1. a * f = c * b
    <3> DEFINE p == a * f q == c * b r == g * h
    <3>1. r * p = r * q /\ r \in Nat \ {0} /\ p \in Int /\ q \in Int
      BY <1>7, <1>8, <1>10
    <3> HIDE DEF p, q, r
    <3>2. p = q
      BY <3>1
    <3> QED BY <3>2 DEF p, q
  <2>2. PICK k \in Nat : f = b * k
    <3>1. Divides(b, f)
      BY <1>2, <1>5, <2>1, DenominatorOf
    <3> QED BY <3>1 DEF Divides
  <2>3. PICK l \in Nat : b = f * l
    <3>1. c * b = a * f
      BY <2>1
    <3>2. Divides(f, b)
      BY <1>2, <1>6, <3>1, DenominatorOf
    <3> QED BY <3>2 DEF Divides
  <2>4. f = b
    <3>1. k # 0 /\ l # 0
      BY <1>2, <2>2, <2>3
    <3>2. b * k >= b * 1 /\ f * l >= f * 1
      BY <1>2, <3>1
    <3> QED BY <1>2, <2>2, <2>3, <3>2
  <2>5. a = c
    BY <1>2, <2>1, <2>4
  <2> QED BY <1>2, <2>4, <2>5
<1>11. F = G <=> n * e = m * d
  BY <1>9, <1>10
<1> QED BY <1>11 DEF F, G

-----------------------------------------------------------------------------
(* Measures *)

\* The amount v of a unit in the base of its rule, as module RecipeAuthoring compares it.
BaseValue(v, u) ==
    IF u.rule = None THEN <<v[1], v[2]>>
    ELSE <<(v[1] * u.rule.offset[2] + u.rule.offset[1] * v[2]) * u.rule.scale[1],
           v[2] * u.rule.offset[2] * u.rule.scale[2]>>

\* A converted value is the fraction of the value in the base.
LEMMA ConvertedIs ==
    ASSUME NEW v, IsFraction(v), NEW u, IsUnit(u)
    PROVE  /\ BaseValue(v, u) \in Int \X (Nat \ {0})
           /\ Converted(v, u.rule) = Fraction(BaseValue(v, u)[1], BaseValue(v, u)[2])
<1> DEFINE a == v[1] b == v[2]
<1>1. a \in Int /\ b \in Nat \ {0} /\ v = Fraction(a, b) /\ v = <<a, b>>
  BY DEF IsFraction
<1> HIDE DEF a, b
<1>2. CASE u.rule = None
  <2>1. BaseValue(v, u) = <<a, b>> /\ Converted(v, u.rule) = v
    BY <1>2 DEF BaseValue, Converted, a, b
  <2>2. BaseValue(v, u)[1] = a /\ BaseValue(v, u)[2] = b
    BY <2>1
  <2>3. Converted(v, u.rule) = Fraction(a, b)
    BY <1>1, <2>1
  <2>4. BaseValue(v, u) \in Int \X (Nat \ {0})
    BY <1>1, <2>1
  <2> QED BY <2>2, <2>3, <2>4
<1>3. CASE u.rule # None
  <2> DEFINE o == u.rule.offset s == u.rule.scale c == o[1] d == o[2] e == s[1] f == s[2]
             N == a * d + c * b M == b * d P == Fraction(N, M) p == P[1] q == P[2]
  <2>1. IsFraction(s) /\ e > 0 /\ IsFraction(o)
    BY <1>3 DEF IsUnit, IsRule
  <2>2. c \in Int /\ d \in Nat \ {0} /\ e \in Int /\ f \in Nat \ {0}
    BY <2>1 DEF IsFraction
  <2>3. BaseValue(v, u) = <<N * e, M * f>>
    BY <1>3 DEF BaseValue, a, b
  <2>4. Converted(v, u.rule) = Times(Plus(v, o), s)
    BY <1>3 DEF Converted
  <2>5. Plus(v, o) = P
    BY DEF Plus, a, b
  <2>6. Times(P, s) = Fraction(p * e, q * f)
    BY DEF Times
  <2> HIDE DEF P, o, s, c, d, e, f
  <2>7. N \in Int /\ M \in Nat \ {0}
    BY <1>1, <2>2
  <2> HIDE DEF N, M
  <2>8. IsReduced(N, M, P)
    BY <2>7, FractionOf DEF P
  <2>9. p \in Int /\ q \in Nat \ {0}
    BY <2>8 DEF IsReduced
  <2>10. PICK g \in Nat \ {0} : N = g * p /\ M = g * q
    BY <2>8 DEF IsReduced
  <2> HIDE DEF p, q
  <2>11. p * e \in Int /\ q * f \in Nat \ {0} /\ N * e \in Int /\ M * f \in Nat \ {0}
    BY <2>2, <2>7, <2>9
  <2>12. (p * e) * (M * f) = (N * e) * (q * f)
    <3>1. (p * e) * ((g * q) * f) = ((g * p) * e) * (q * f)
      BY <2>2, <2>9
    <3> QED BY <2>10, <3>1
  <2>13. Fraction(p * e, q * f) = Fraction(N * e, M * f)
    BY <2>11, <2>12, FractionsEqual
  <2> QED BY <2>3, <2>4, <2>5, <2>6, <2>11, <2>13
<1> QED BY <1>2, <1>3

SameUnit(u, w) ==
    \/ u = w
    \/ u.rule # None /\ w.rule # None /\ u.rule.base = w.rule.base

\* Units that give way to the same are the same, or have rules to the same base.
LEMMA UnitsEqual ==
    ASSUME NEW u, NEW w, IsUnit(u), IsUnit(w), SameKind(u, w)
    PROVE  CanonicalUnit(u) = CanonicalUnit(w) <=> SameUnit(u, w)
<1> DEFINE Key(x) == IF x.rule = None THEN x.key ELSE x.rule.base
<1>1. CanonicalUnit(u) = CanonicalUnit(w) <=>
         /\ Key(u) = Key(w) /\ u.dimension = w.dimension /\ u.family = w.family
         /\ (u.rule # None) = (w.rule # None)
  BY DEF CanonicalUnit
<1>2. u = [key |-> u.key, dimension |-> u.dimension, family |-> u.family, rule |-> u.rule]
  BY DEF IsUnit
<1>3. w = [key |-> w.key, dimension |-> w.dimension, family |-> w.family, rule |-> w.rule]
  BY DEF IsUnit
<1>4. CASE u.rule = None /\ w.rule = None
  <2>1. Key(u) = u.key /\ Key(w) = w.key
    BY <1>4
  <2> HIDE DEF Key
  <2>2. u.key = w.key /\ u.dimension = w.dimension /\ u.family = w.family => u = w
    BY <1>2, <1>3, <1>4
  <2> QED BY <1>1, <1>4, <2>1, <2>2 DEF SameUnit
<1>5. CASE u.rule # None /\ w.rule # None
  <2>1. Key(u) = u.rule.base /\ Key(w) = w.rule.base
    BY <1>5
  <2> HIDE DEF Key
  <2> QED BY <1>1, <1>5, <2>1 DEF SameUnit, SameKind
<1>6. CASE (u.rule = None) # (w.rule = None)
  BY <1>1, <1>6 DEF SameUnit
<1> QED BY <1>4, <1>5, <1>6

\* A measure of a kind, as the documents have them.
Measured(m, semantic) == IsQuantity(m) /\ IsMeasure(m, semantic) /\ CanonicalMeasure(m) # None

\* A canonical measure field by field.
LEMMA CanonicalOf ==
    ASSUME NEW m, NEW semantic, Measured(m, semantic)
    PROVE  /\ m # None
           /\ m = [mode |-> m.mode, values |-> m.values, unit |-> m.unit, package |-> m.package]
           /\ m.mode \in Qualitative => m.unit = None /\ CanonicalMeasure(m) = m
           /\ m.mode \notin Qualitative =>
                CanonicalMeasure(m) =
                    [mode |-> m.mode,
                     values |-> [i \in DOMAIN m.values |-> Converted(m.values[i], m.unit.rule)],
                     unit |-> CanonicalUnit(m.unit), package |-> m.package]
<1>1. m # None
  BY DEF Measured, IsMeasure
<1>2. m = [mode |-> m.mode, values |-> m.values, unit |-> m.unit, package |-> m.package]
  BY DEF Measured, IsQuantity
<1>3. ASSUME m.mode \in Qualitative PROVE m.unit = None /\ CanonicalMeasure(m) = m
  <2>1. m.mode \notin {"exact", "range"}
    BY <1>3 DEF Qualitative
  <2>2. m.unit = None
    BY <2>1 DEF Measured, IsMeasure
  <2> QED BY <1>3, <2>2 DEF CanonicalMeasure
<1>4. ASSUME m.mode \notin Qualitative
      PROVE  CanonicalMeasure(m) =
               [mode |-> m.mode,
                values |-> [i \in DOMAIN m.values |-> Converted(m.values[i], m.unit.rule)],
                unit |-> CanonicalUnit(m.unit), package |-> m.package]
  <2> DEFINE c == CanonicalUnit(m.unit)
             x == [i \in DOMAIN m.values |-> Converted(m.values[i], m.unit.rule)]
  <2>1. CanonicalMeasure(m) = [m EXCEPT !.unit = c, !.values = x]
    BY <1>1, <1>4 DEF CanonicalMeasure
  <2> HIDE DEF c, x
  <2> DEFINE r == [mode |-> m.mode, values |-> m.values, unit |-> m.unit,
                   package |-> m.package]
             t == [r EXCEPT !.unit = c, !.values = x]
  <2>2. CanonicalMeasure(m) = t
    BY <1>2, <2>1
  <2>3. t = [mode |-> m.mode, values |-> x, unit |-> c, package |-> m.package]
    <3> DEFINE q == [r EXCEPT !.unit = c]
    <3>1. q = [mode |-> m.mode, values |-> m.values, unit |-> c, package |-> m.package]
      OBVIOUS
    <3>2. t = [q EXCEPT !.values = x]
      OBVIOUS
    <3> HIDE DEF q
    <3> QED BY <3>1, <3>2
  <2> QED BY <2>2, <2>3 DEF c, x
<1> QED BY <1>1, <1>2, <1>3, <1>4

Kindred(m, n) == m # None /\ n # None /\ m.unit # None /\ n.unit # None => SameKind(m.unit, n.unit)

\* Two measures have one canonical form if and only if they are of one amount.
LEMMA MeasuresEqual ==
    ASSUME NEW semantic, NEW m, NEW n, Measured(m, semantic), Measured(n, semantic), Kindred(m, n)
    PROVE  CanonicalMeasure(m) = CanonicalMeasure(n) <=> SameAmount(m, n)
<1> DEFINE Values(x) == [i \in DOMAIN x.values |-> Converted(x.values[i], x.unit.rule)]
           Alike == /\ m.mode = n.mode /\ m.package = n.package
                    /\ Len(m.values) = Len(n.values)
                    /\ m.unit # None /\ n.unit # None
                    /\ SameUnit(m.unit, n.unit)
                    /\ \A i \in DOMAIN m.values :
                         LET p == BaseValue(m.values[i], m.unit) q == BaseValue(n.values[i], n.unit)
                         IN p[1] * q[2] = q[1] * p[2]
<1>1. /\ m # None /\ n # None
      /\ m.mode \in Qualitative => m.unit = None /\ CanonicalMeasure(m) = m
      /\ n.mode \in Qualitative => n.unit = None /\ CanonicalMeasure(n) = n
      /\ m.mode \notin Qualitative =>
           CanonicalMeasure(m) = [mode |-> m.mode, values |-> Values(m),
                                  unit |-> CanonicalUnit(m.unit), package |-> m.package]
      /\ n.mode \notin Qualitative =>
           CanonicalMeasure(n) = [mode |-> n.mode, values |-> Values(n),
                                  unit |-> CanonicalUnit(n.unit), package |-> n.package]
  BY CanonicalOf
<1>2. SameAmount(m, n) <=> m = n \/ Alike
  BY <1>1 DEF SameAmount, SameUnit, BaseValue
<1>3. CASE m.mode \in Qualitative /\ n.mode \in Qualitative
  BY <1>1, <1>2, <1>3
<1>4. CASE (m.mode \in Qualitative) # (n.mode \in Qualitative)
  <2>1. CanonicalMeasure(m).mode = m.mode
    <3> HIDE DEF Values
    <3> QED BY <1>1
  <2>2. CanonicalMeasure(n).mode = n.mode
    <3> HIDE DEF Values
    <3> QED BY <1>1
  <2>3. m.mode # n.mode
    BY <1>4
  <2> QED BY <1>2, <2>1, <2>2, <2>3
<1>5. CASE m.mode \notin Qualitative /\ n.mode \notin Qualitative
  <2>1. CanonicalMeasure(m) = CanonicalMeasure(n) <=>
          /\ m.mode = n.mode /\ m.package = n.package
          /\ CanonicalUnit(m.unit) = CanonicalUnit(n.unit) /\ Values(m) = Values(n)
    <3> HIDE DEF Values
    <3> QED BY <1>1, <1>5
  <2>2. /\ m.unit # None /\ n.unit # None /\ IsUnit(m.unit) /\ IsUnit(n.unit)
        /\ SameKind(m.unit, n.unit)
    BY <1>1, <1>5 DEF Measured, IsMeasure, IsQuantity, Kindred
  <2>3. CanonicalUnit(m.unit) = CanonicalUnit(n.unit) <=> SameUnit(m.unit, n.unit)
    BY <2>2, UnitsEqual
  <2>4. /\ m.values \in Seq(Int \X Nat) /\ \A i \in DOMAIN m.values : IsFraction(m.values[i])
        /\ n.values \in Seq(Int \X Nat) /\ \A i \in DOMAIN n.values : IsFraction(n.values[i])
    BY DEF Measured, IsQuantity
  <2>5. /\ Len(m.values) \in Nat /\ DOMAIN m.values = 1..Len(m.values)
        /\ Len(n.values) \in Nat /\ DOMAIN n.values = 1..Len(n.values)
    BY <2>4, LenProperties
  <2>6. DOMAIN m.values = DOMAIN n.values <=> Len(m.values) = Len(n.values)
    BY <2>5
  <2>7. ASSUME NEW i \in DOMAIN m.values, i \in DOMAIN n.values
        PROVE  Converted(m.values[i], m.unit.rule) = Converted(n.values[i], n.unit.rule) <=>
                 BaseValue(m.values[i], m.unit)[1] * BaseValue(n.values[i], n.unit)[2] =
                 BaseValue(n.values[i], n.unit)[1] * BaseValue(m.values[i], m.unit)[2]
    <3> DEFINE p == BaseValue(m.values[i], m.unit) q == BaseValue(n.values[i], n.unit)
    <3>1. p \in Int \X (Nat \ {0}) /\ Converted(m.values[i], m.unit.rule) = Fraction(p[1], p[2])
      BY <2>2, <2>4, ConvertedIs
    <3>2. q \in Int \X (Nat \ {0}) /\ Converted(n.values[i], n.unit.rule) = Fraction(q[1], q[2])
      BY <2>2, <2>4, <2>7, ConvertedIs
    <3> HIDE DEF p, q
    <3>3. p[1] \in Int /\ p[2] \in Nat \ {0} /\ q[1] \in Int /\ q[2] \in Nat \ {0}
      BY <3>1, <3>2
    <3>4. Fraction(p[1], p[2]) = Fraction(q[1], q[2]) <=> p[1] * q[2] = q[1] * p[2]
      BY <3>3, FractionsEqual
    <3> QED BY <3>1, <3>2, <3>4 DEF p, q
  <2>8. Values(m) = Values(n) <=>
          /\ DOMAIN m.values = DOMAIN n.values
          /\ \A i \in DOMAIN m.values :
               Converted(m.values[i], m.unit.rule) = Converted(n.values[i], n.unit.rule)
    <3>1. ASSUME Values(m) = Values(n)
          PROVE  /\ DOMAIN m.values = DOMAIN n.values
                 /\ \A i \in DOMAIN m.values :
                      Converted(m.values[i], m.unit.rule) = Converted(n.values[i], n.unit.rule)
      <4>1. DOMAIN Values(m) = DOMAIN m.values /\ DOMAIN Values(n) = DOMAIN n.values
        OBVIOUS
      <4>2. DOMAIN m.values = DOMAIN n.values
        BY <3>1, <4>1
      <4>3. \A i \in DOMAIN m.values : Values(m)[i] = Converted(m.values[i], m.unit.rule)
        OBVIOUS
      <4>4. \A i \in DOMAIN n.values : Values(n)[i] = Converted(n.values[i], n.unit.rule)
        OBVIOUS
      <4> HIDE DEF Values
      <4> QED BY <3>1, <4>2, <4>3, <4>4
    <3> QED BY <3>1
  <2>9. Values(m) = Values(n) <=>
          /\ Len(m.values) = Len(n.values)
          /\ \A i \in DOMAIN m.values :
               BaseValue(m.values[i], m.unit)[1] * BaseValue(n.values[i], n.unit)[2] =
               BaseValue(n.values[i], n.unit)[1] * BaseValue(m.values[i], m.unit)[2]
    <3> HIDE DEF Values
    <3> QED BY <2>6, <2>7, <2>8
  <2>10. Alike <=> /\ m.mode = n.mode /\ m.package = n.package /\ SameUnit(m.unit, n.unit)
                   /\ Values(m) = Values(n)
    <3> HIDE DEF Values
    <3> QED BY <2>2, <2>9
  <2>11. m = n => CanonicalMeasure(m) = CanonicalMeasure(n)
    OBVIOUS
  <2> HIDE DEF Values, Alike
  <2> QED BY <1>2, <2>1, <2>3, <2>10, <2>11
<1> QED BY <1>3, <1>4, <1>5

\* What a complete document has where there may be a measure.
MaybeMeasured(m, semantic) == m = None \/ Measured(m, semantic)

\* The same of durations and temperatures, which may be left out.
LEMMA AmountsEqual ==
    ASSUME NEW semantic, NEW m, NEW n, MaybeMeasured(m, semantic), MaybeMeasured(n, semantic),
           Kindred(m, n)
    PROVE  CanonicalMeasure(m) = CanonicalMeasure(n) <=> SameAmount(m, n)
<1>1. CanonicalMeasure(None) = None
  BY DEF CanonicalMeasure
<1>2. \A x : Measured(x, semantic) => x # None /\ CanonicalMeasure(x) # None
  BY CanonicalOf DEF Measured
<1>3. CASE m = None \/ n = None
  <2>1. SameAmount(m, n) <=> m = n
    BY <1>3 DEF SameAmount
  <2> QED BY <1>1, <1>2, <1>3, <2>1 DEF MaybeMeasured
<1>4. CASE m # None /\ n # None
  BY <1>4, MeasuresEqual DEF MaybeMeasured
<1> QED BY <1>3, <1>4

\* The measures of a row and of an action.
RowMeasured(row) == Measured(row.measure, "ingredient_amount")
ActionMeasured(x) == MaybeMeasured(x.duration, "duration") /\ MaybeMeasured(x.temperature, "temperature")

IsMeasurable(d) ==
    /\ \A i \in DOMAIN d.ingredients : RowMeasured(d.ingredients[i])
    /\ \A i \in DOMAIN d.instructions : \A a \in DOMAIN d.instructions[i].actions :
         ActionMeasured(d.instructions[i].actions[a])

\* Measures of the documents are related by reviewed rules.
LEMMA AllKindred ==
    ASSUME NEW m, NEW n, m \in Amounts \cup Durations \cup Temperatures \cup {None},
           n \in Amounts \cup Durations \cup Temperatures \cup {None}
    PROVE  Kindred(m, n)
<1>1. \A x, y \in Amounts \cup Durations \cup Temperatures :
        x.unit # None /\ y.unit # None => SameKind(x.unit, y.unit)
  BY QuantitiesAssumption
<1> QED BY <1>1 DEF Kindred

\* A complete document's measures are measures.
LEMMA MeasurableOf ==
    ASSUME NEW d, WellFormed(d), IsComplete(d)
    PROVE  IsMeasurable(d)
<1>1. \A m \in Amounts : Measured(m, "ingredient_amount")
  BY QuantitiesAssumption, MeasuresAssumption DEF Measured
<1>2. \A m \in Durations : Measured(m, "duration")
  BY QuantitiesAssumption, MeasuresAssumption DEF Measured
<1>3. \A m \in Temperatures : Measured(m, "temperature")
  BY QuantitiesAssumption, MeasuresAssumption DEF Measured
<1>4. ASSUME NEW i \in DOMAIN d.ingredients PROVE RowMeasured(d.ingredients[i])
  <2>1. d.ingredients[i] \in RowsOver(Nat)
    BY RowsOf
  <2>2. d.ingredients[i].measure \in Amounts \cup {None}
    BY <2>1 DEF RowsOver
  <2>3. d.ingredients[i].measure # None
    BY DEF IsComplete, IsMeasure
  <2> QED BY <1>1, <2>2, <2>3 DEF RowMeasured
<1>5. ASSUME NEW i \in DOMAIN d.instructions, NEW a \in DOMAIN d.instructions[i].actions
      PROVE  ActionMeasured(d.instructions[i].actions[a])
  <2>1. d.instructions[i].actions[a] \in ActionsOver(Nat)
    BY StepsOf
  <2>2. /\ d.instructions[i].actions[a].duration \in Durations \cup {None}
        /\ d.instructions[i].actions[a].temperature \in Temperatures \cup {None}
    BY <2>1 DEF ActionsOver
  <2> QED BY <1>2, <1>3, <2>2 DEF ActionMeasured, MaybeMeasured
<1> QED BY <1>4, <1>5 DEF IsMeasurable

-----------------------------------------------------------------------------
(* The order of rows by their uses *)

Triples == Nat \X Nat \X Nat

\* Which of two places of inputs is read first.
LEMMA EarlierIs ==
    ASSUME NEW u \in Triples, NEW v \in Triples
    PROVE  /\ Earlier(u, v) <=> \/ u[1] < v[1]
                                \/ u[1] = v[1] /\ u[2] < v[2]
                                \/ u[1] = v[1] /\ u[2] = v[2] /\ u[3] < v[3]
           /\ u = v <=> u[1] = v[1] /\ u[2] = v[2] /\ u[3] = v[3]
           /\ u[1] \in Nat /\ u[2] \in Nat /\ u[3] \in Nat
<1>1. u = <<u[1], u[2], u[3]>> /\ v = <<v[1], v[2], v[3]>>
  BY DEF Triples
<1>2. u[1] \in Nat /\ u[2] \in Nat /\ u[3] \in Nat
  BY DEF Triples
<1>3. 1..3 = {1, 2, 3} /\ 1..(1 - 1) = {} /\ 1..(2 - 1) = {1} /\ 1..(3 - 1) = {1, 2}
  OBVIOUS
<1>4. Earlier(u, v) <=> \/ u[1] < v[1]
                        \/ u[2] < v[2] /\ u[1] = v[1]
                        \/ u[3] < v[3] /\ u[1] = v[1] /\ u[2] = v[2]
  BY <1>3 DEF Earlier
<1>5. u = v <=> u[1] = v[1] /\ u[2] = v[2] /\ u[3] = v[3]
  BY <1>1
<1> QED BY <1>2, <1>4, <1>5

IsFirst(S, u) == u \in S /\ \A v \in S : v = u \/ Earlier(u, v)
First(S) == CHOOSE u \in S : IsFirst(S, u)

\* Of places of inputs there is a first.
LEMMA FirstOf ==
    ASSUME NEW S, S \subseteq Triples, S # {}
    PROVE  IsFirst(S, First(S))
<1> DEFINE A == {u[1] : u \in S}
<1>1. PICK a \in A : \A x \in A : a <= x
  <2>1. A \subseteq Nat /\ A # {}
    BY EarlierIs
  <2> HIDE DEF A
  <2> QED BY <2>1, LeastOf
<1> DEFINE B == {u[2] : u \in {w \in S : w[1] = a}}
<1>2. PICK b \in B : \A x \in B : b <= x
  <2>1. B \subseteq Nat /\ B # {}
    BY <1>1, EarlierIs
  <2> HIDE DEF A, B
  <2> QED BY <2>1, LeastOf
<1> DEFINE C == {u[3] : u \in {w \in S : w[1] = a /\ w[2] = b}}
<1>3. PICK c \in C : \A x \in C : c <= x
  <2>1. C \subseteq Nat /\ C # {}
    BY <1>2, EarlierIs
  <2> HIDE DEF A, B, C
  <2> QED BY <2>1, LeastOf
<1>4. PICK u \in S : u[1] = a /\ u[2] = b /\ u[3] = c
  BY <1>3
<1>5. ASSUME NEW v \in S PROVE v = u \/ Earlier(u, v)
  <2>1. a <= v[1]
    BY <1>1
  <2>2. v[1] = a => b <= v[2]
    BY <1>2
  <2>3. v[1] = a /\ v[2] = b => c <= v[3]
    BY <1>3
  <2> HIDE DEF A, B, C
  <2>4. u \in Triples /\ v \in Triples
    OBVIOUS
  <2> QED BY <1>4, <2>1, <2>2, <2>3, <2>4, EarlierIs
<1>6. \E w \in S : IsFirst(S, w)
  BY <1>4, <1>5 DEF IsFirst
<1> QED BY <1>6 DEF First

\* The firsts of places tell whether some is earlier than all others.
LEMMA FirstsOrder ==
    ASSUME NEW S, S \subseteq Triples, S # {}, NEW T, T \subseteq Triples, T # {}
    PROVE  (\E u \in S : \A v \in T : Earlier(u, v)) <=> Earlier(First(S), First(T))
<1> DEFINE s == First(S) t == First(T)
<1>1. s \in S /\ (\A v \in S : v = s \/ Earlier(s, v))
  BY FirstOf DEF IsFirst
<1>2. t \in T /\ (\A v \in T : v = t \/ Earlier(t, v))
  BY FirstOf DEF IsFirst
<1> HIDE DEF s, t
<1>3. ASSUME NEW u \in Triples, NEW v \in Triples, NEW w \in Triples, Earlier(u, v), Earlier(v, w)
      PROVE  Earlier(u, w)
  BY <1>3, EarlierIs
<1>4. ASSUME NEW u \in S, \A v \in T : Earlier(u, v) PROVE Earlier(s, t)
  <2>1. Earlier(u, t) /\ s \in Triples /\ t \in Triples /\ u \in Triples
    BY <1>1, <1>2, <1>4
  <2>2. u = s \/ Earlier(s, u)
    BY <1>1
  <2> QED BY <1>3, <2>1, <2>2
<1>5. ASSUME Earlier(s, t) PROVE \A v \in T : Earlier(s, v)
  <2> TAKE v \in T
  <2>1. v \in Triples /\ s \in Triples /\ t \in Triples
    BY <1>1, <1>2
  <2>2. v = t \/ Earlier(t, v)
    BY <1>2
  <2> QED BY <1>3, <1>5, <2>1, <2>2
<1> QED BY <1>1, <1>4, <1>5 DEF s, t

\* The places of inputs.
IsPath(d, u) ==
    /\ u = <<u[1], u[2], u[3]>>
    /\ u[1] \in DOMAIN d.instructions
    /\ u[2] \in DOMAIN d.instructions[u[1]].actions
    /\ u[3] \in DOMAIN d.instructions[u[1]].actions[u[2]].inputs

\* What a place of an input is.
LEMMA PathsAre ==
    ASSUME NEW d, NEW u
    PROVE  u \in Paths(d) <=> IsPath(d, u)
<1> DEFINE In(i, a) == {<<i, a, n>> : n \in DOMAIN d.instructions[i].actions[a].inputs}
<1> DEFINE Of(i) == UNION {In(i, a) : a \in DOMAIN d.instructions[i].actions}
<1>1. Paths(d) = UNION {Of(i) : i \in DOMAIN d.instructions}
  BY DEF Paths
<1>2. \A i, a : u \in In(i, a) <=> \E n \in DOMAIN d.instructions[i].actions[a].inputs : u = <<i, a, n>>
  OBVIOUS
<1> HIDE DEF In
<1>3. \A i : u \in Of(i) <=> \E a \in DOMAIN d.instructions[i].actions : u \in In(i, a)
  OBVIOUS
<1> HIDE DEF Of
<1>4. u \in Paths(d) <=> \E i \in DOMAIN d.instructions : u \in Of(i)
  BY <1>1
<1>5. ASSUME u \in Paths(d) PROVE IsPath(d, u)
  <2>1. PICK i \in DOMAIN d.instructions : u \in Of(i)
    BY <1>4, <1>5
  <2>3. PICK a \in DOMAIN d.instructions[i].actions : u \in In(i, a)
    BY <1>3, <2>1
  <2>4. PICK n \in DOMAIN d.instructions[i].actions[a].inputs : u = <<i, a, n>>
    BY <1>2, <2>3
  <2>2. u[1] = i /\ u[2] = a /\ u[3] = n
    BY <2>4
  <2> QED BY <2>2, <2>4 DEF IsPath
<1>6. ASSUME IsPath(d, u) PROVE u \in Paths(d)
  <2>1. u \in In(u[1], u[2])
    BY <1>2, <1>6 DEF IsPath
  <2>2. u \in Of(u[1])
    BY <1>3, <1>6, <2>1 DEF IsPath
  <2> QED BY <1>4, <1>6, <2>2 DEF IsPath
<1> QED BY <1>5, <1>6

\* A place of an input in a document is three numbers.
LEMMA PathsNumbers ==
    ASSUME NEW d, WellFormed(d)
    PROVE  Paths(d) \subseteq Triples
<1> SUFFICES ASSUME NEW u \in Paths(d) PROVE u \in Triples
  OBVIOUS
<1>1. IsPath(d, u)
  BY PathsAre
<1>2. u[1] \in Nat
  BY <1>1, StepsOf DEF IsPath
<1>3. u[2] \in Nat /\ u[3] \in Nat
  <2> DEFINE s == d.instructions[u[1]].actions x == s[u[2]]
  <2>1. WellUsed(s, Keys(d)) /\ u[2] \in DOMAIN s /\ u[3] \in DOMAIN x.inputs
    BY <1>1, StepsOf DEF IsPath
  <2>2. x \in ActionsOver(Nat)
    BY <1>1, StepsOf DEF IsPath
  <2> HIDE DEF s
  <2>3. s \in Seq(ActionsOver(Nat))
    BY <2>1 DEF WellUsed
  <2>4. u[2] \in Nat
    BY <2>1, <2>3, LenProperties
  <2> HIDE DEF x
  <2>5. x.inputs \in Seq(Nat)
    BY <2>2 DEF ActionsOver
  <2> QED BY <2>1, <2>4, <2>5, LenProperties
<1> QED BY <1>1, <1>2, <1>3 DEF IsPath, Triples

\* Where a row is used no other is.
LEMMA UsesOf ==
    ASSUME NEW d, WellFormed(d), NEW i \in DOMAIN d.ingredients, NEW j \in DOMAIN d.ingredients
    PROVE  /\ Uses(d, i) \subseteq Triples
           /\ i # j => Uses(d, i) \cap Uses(d, j) = {}
<1>1. Uses(d, i) \subseteq Triples
  BY PathsNumbers DEF Uses
<1>2. d.ingredients[i].key = d.ingredients[j].key => i = j
  BY RowsOf DEF WellKeyed
<1> QED BY <1>1, <1>2 DEF Uses

FirstUse(d, i) == First(Uses(d, i))

\* Rows are ordered by their first uses, after those not used.
LEMMA UsedBeforeIs ==
    ASSUME NEW d, WellFormed(d), NEW i \in DOMAIN d.ingredients, NEW j \in DOMAIN d.ingredients
    PROVE  /\ UsedBefore(d, i, j) <=>
                /\ Uses(d, j) # {}
                /\ Uses(d, i) # {} => Earlier(FirstUse(d, i), FirstUse(d, j))
           /\ Uses(d, i) # {} => FirstUse(d, i) \in Uses(d, i) /\ FirstUse(d, i) \in Triples
<1>1. Uses(d, i) \subseteq Triples /\ Uses(d, j) \subseteq Triples
  BY UsesOf
<1>2. UsedBefore(d, i, j) <=>
        /\ Uses(d, j) # {}
        /\ Uses(d, i) # {} => Earlier(FirstUse(d, i), FirstUse(d, j))
  BY <1>1, FirstsOrder DEF UsedBefore, FirstUse
<1>3. Uses(d, i) # {} => FirstUse(d, i) \in Uses(d, i)
  BY <1>1, FirstOf DEF FirstUse, IsFirst
<1> QED BY <1>1, <1>2, <1>3

\* The order in which the rows of one core are numbered.
Precedes(d, i, j) == UsedBefore(d, i, j) \/ (~UsedBefore(d, j, i) /\ i < j)

\* It is a strict and total order.
LEMMA PrecedesOrder ==
    ASSUME NEW d, WellFormed(d), NEW i \in DOMAIN d.ingredients, NEW j \in DOMAIN d.ingredients,
           NEW k \in DOMAIN d.ingredients
    PROVE  /\ ~Precedes(d, i, i)
           /\ i # j => Precedes(d, i, j) \/ Precedes(d, j, i)
           /\ Precedes(d, i, j) /\ Precedes(d, j, k) => Precedes(d, i, k)
           /\ i # j /\ Uses(d, i) # {} => UsedBefore(d, i, j) \/ UsedBefore(d, j, i)
<1> DEFINE U(x) == Uses(d, x) # {}
           F(x) == FirstUse(d, x)
           R == DOMAIN d.ingredients
<1>1. \A x, y \in R : UsedBefore(d, x, y) <=> U(y) /\ (U(x) => Earlier(F(x), F(y)))
  BY UsedBeforeIs
<1>2. \A x \in R : U(x) => F(x) \in Triples
  BY UsedBeforeIs
<1>3. i \in Int /\ j \in Int /\ k \in Int
  BY RowsOf
<1>4. ~Precedes(d, i, i)
  BY <1>1, <1>2, <1>3, EarlierIs DEF Precedes
<1>5. i # j => Precedes(d, i, j) \/ Precedes(d, j, i)
  BY <1>3 DEF Precedes
<1>6. \A u, v, w \in Triples : Earlier(u, v) /\ Earlier(v, w) => Earlier(u, w)
  BY EarlierIs
<1>7. \A u, v \in Triples : u = v \/ Earlier(u, v) \/ Earlier(v, u)
  BY EarlierIs
<1>8. \A u, v \in Triples : ~(Earlier(u, v) /\ Earlier(v, u)) /\ ~Earlier(u, u)
  BY EarlierIs
<1>9. i # j /\ U(i) => UsedBefore(d, i, j) \/ UsedBefore(d, j, i)
  <2> SUFFICES ASSUME i # j, U(i) PROVE UsedBefore(d, i, j) \/ UsedBefore(d, j, i)
    OBVIOUS
  <2>1. CASE ~U(j)
    BY <1>1, <2>1
  <2>2. CASE U(j)
    <3>1. Uses(d, i) \cap Uses(d, j) = {} /\ F(i) \in Uses(d, i) /\ F(j) \in Uses(d, j)
      BY <2>2, UsesOf, UsedBeforeIs
    <3> HIDE DEF F
    <3>2. F(i) # F(j)
      BY <3>1
    <3> QED BY <1>1, <1>2, <1>7, <2>2, <3>2
  <2> QED BY <2>1, <2>2
<1> HIDE DEF U, F
<1>10. ASSUME Precedes(d, i, j), Precedes(d, j, k) PROVE Precedes(d, i, k)
  <2>1. i \in R /\ j \in R /\ k \in R
    OBVIOUS
  <2> HIDE DEF R
  <2>2. CASE UsedBefore(d, i, j) /\ UsedBefore(d, j, k)
    BY <1>1, <1>2, <1>6, <2>1, <2>2 DEF Precedes
  <2>3. CASE UsedBefore(d, i, j) /\ ~UsedBefore(d, j, k)
    BY <1>1, <1>2, <1>6, <1>7, <1>10, <2>1, <2>3 DEF Precedes
  <2>4. CASE ~UsedBefore(d, i, j) /\ UsedBefore(d, j, k)
    BY <1>1, <1>2, <1>6, <1>7, <1>10, <2>1, <2>4 DEF Precedes
  <2>5. CASE ~UsedBefore(d, i, j) /\ ~UsedBefore(d, j, k)
    <3>1. i < j /\ j < k /\ ~UsedBefore(d, j, i) /\ ~UsedBefore(d, k, j)
      BY <1>10, <2>5 DEF Precedes
    <3>2. i < k
      BY <1>3, <3>1
    <3>3. ~UsedBefore(d, k, i)
      BY <1>1, <1>2, <1>6, <1>7, <2>1, <2>5, <3>1
    <3> QED BY <3>2, <3>3 DEF Precedes
  <2> QED BY <2>2, <2>3, <2>4, <2>5
<1> QED BY <1>4, <1>5, <1>9, <1>10 DEF U

-----------------------------------------------------------------------------
(* The numbers of rows of one core *)

CoreAt(d, i) == Core(d.ingredients[i])
OfCore(d, c) == {i \in DOMAIN d.ingredients : CoreAt(d, i) = c}
Numbered(d, i) == {j \in OfCore(d, CoreAt(d, i)) : j = i \/ Precedes(d, j, i)}

\* The number of a row counts it and those before it.
LEMMA TokenIs ==
    ASSUME NEW d, WellFormed(d), NEW i \in DOMAIN d.ingredients
    PROVE  Token(d, i) = Cardinality(Numbered(d, i))
<1> DEFINE T == {j \in DOMAIN d.ingredients :
                   /\ Core(d.ingredients[j]) = Core(d.ingredients[i])
                   /\ \/ UsedBefore(d, j, i)
                      \/ ~UsedBefore(d, i, j) /\ j <= i}
<1>1. DOMAIN d.ingredients \subseteq Int
  BY RowsOf
<1>2. ~UsedBefore(d, i, i)
  BY PrecedesOrder DEF Precedes
<1>3. \A j \in DOMAIN d.ingredients :
        (UsedBefore(d, j, i) \/ (~UsedBefore(d, i, j) /\ j <= i)) <=> (j = i \/ Precedes(d, j, i))
  BY <1>1, <1>2 DEF Precedes
<1>4. \A j : j \in T <=> j \in Numbered(d, i)
  BY <1>3 DEF Numbered, OfCore, CoreAt
<1>5. T = Numbered(d, i)
  BY <1>4
<1>6. Token(d, i) = Cardinality(T)
  BY DEF Token
<1> QED BY <1>5, <1>6

\* The rows are few.
LEMMA OfCoreFinite ==
    ASSUME NEW d, WellFormed(d), NEW c
    PROVE  /\ IsFiniteSet(DOMAIN d.ingredients) /\ IsFiniteSet(OfCore(d, c))
           /\ Cardinality(OfCore(d, c)) \in Nat
<1>1. IsFiniteSet(DOMAIN d.ingredients)
  <2>1. DOMAIN d.ingredients = 1..Len(d.ingredients) /\ Len(d.ingredients) \in Nat
    BY RowsOf
  <2> QED BY <2>1, FS_Interval
<1>2. OfCore(d, c) \subseteq DOMAIN d.ingredients
  BY DEF OfCore
<1> QED BY <1>1, <1>2, FS_Subset, FS_CardinalityType

\* The rows of a core are numbered from one to their number, each with one of its own.
LEMMA TokensOf ==
    ASSUME NEW d, WellFormed(d), NEW c, NEW i \in OfCore(d, c), NEW j \in OfCore(d, c)
    PROVE  /\ Token(d, i) \in 1..Cardinality(OfCore(d, c))
           /\ Token(d, i) = Token(d, j) => i = j
<1>1. IsFiniteSet(OfCore(d, c)) /\ Cardinality(OfCore(d, c)) \in Nat
  BY OfCoreFinite
<1>2. \A x \in OfCore(d, c) : /\ x \in DOMAIN d.ingredients /\ CoreAt(d, x) = c
                              /\ Numbered(d, x) \subseteq OfCore(d, c) /\ x \in Numbered(d, x)
                              /\ Token(d, x) = Cardinality(Numbered(d, x))
  BY TokenIs DEF OfCore, Numbered
<1>3. \A x \in OfCore(d, c) : IsFiniteSet(Numbered(d, x)) /\ Token(d, x) \in Nat
                              /\ Token(d, x) <= Cardinality(OfCore(d, c))
  BY <1>1, <1>2, FS_Subset, FS_CardinalityType
<1>4. Token(d, i) # 0
  <2>1. Numbered(d, i) # {}
    BY <1>2
  <2> QED BY <1>2, <1>3, <2>1, FS_EmptySet
<1>5. ASSUME NEW x \in OfCore(d, c), NEW y \in OfCore(d, c), Precedes(d, x, y)
      PROVE  Token(d, x) # Token(d, y)
  <2>1. \A z \in Numbered(d, x) : z \in Numbered(d, y)
    <3> TAKE z \in Numbered(d, x)
    <3>1. z \in OfCore(d, c) /\ (z = x \/ Precedes(d, z, x))
      BY <1>2 DEF Numbered
    <3>2. z = x \/ Precedes(d, z, y)
      BY <1>2, <1>5, <3>1, PrecedesOrder
    <3> QED BY <1>2, <1>5, <3>1, <3>2 DEF Numbered
  <2>2. y \notin Numbered(d, x)
    <3>1. ~Precedes(d, y, x)
      BY <1>2, <1>5, PrecedesOrder
    <3>2. x # y
      BY <1>2, <1>5, PrecedesOrder
    <3> QED BY <3>1, <3>2 DEF Numbered
  <2>3. Numbered(d, x) \subseteq Numbered(d, y) /\ Numbered(d, x) # Numbered(d, y)
    BY <1>2, <2>1, <2>2
  <2>4. IsFiniteSet(Numbered(d, y))
    BY <1>3
  <2>5. Cardinality(Numbered(d, x)) # Cardinality(Numbered(d, y))
    BY <2>3, <2>4, FS_Subset
  <2> QED BY <1>2, <2>5
<1>6. i # j => Token(d, i) # Token(d, j)
  <2>1. i # j => Precedes(d, i, j) \/ Precedes(d, j, i)
    BY <1>2, PrecedesOrder
  <2> QED BY <1>5, <2>1
<1>7. Token(d, i) \in 1..Cardinality(OfCore(d, c))
  BY <1>1, <1>3, <1>4
<1> QED BY <1>6, <1>7

\* Every number up to theirs is that of a row.
LEMMA TokenTaken ==
    ASSUME NEW d, WellFormed(d), NEW c, NEW n \in 1..Cardinality(OfCore(d, c))
    PROVE  \E i \in OfCore(d, c) : Token(d, i) = n
<1> DEFINE S == OfCore(d, c) N == Cardinality(S) f == [i \in S |-> Token(d, i)]
           T == {f[i] : i \in S}
<1>1. IsFiniteSet(S) /\ N \in Nat
  BY OfCoreFinite
<1>2. \A i \in S : f[i] = Token(d, i)
  OBVIOUS
<1>3. f = [i \in S |-> f[i]]
  OBVIOUS
<1> HIDE DEF f
<1>4. \A i \in S : f[i] \in 1..N
  BY <1>2, TokensOf
<1>5. \A i, j \in S : f[i] = f[j] => i = j
  BY <1>2, TokensOf
<1> HIDE DEF S, N
<1>6. f \in [S -> T] /\ DOMAIN f = S
  BY <1>3
<1>7. f \in Bijection(S, T)
  <2>1. \A t \in T : \E i \in S : f[i] = t
    OBVIOUS
  <2> HIDE DEF T
  <2> QED BY <1>5, <1>6, <2>1 DEF Bijection, Injection, Surjection, IsInjective
<1>8. T \subseteq 1..N
  BY <1>4
<1> HIDE DEF T
<1>9. Cardinality(T) = Cardinality(S)
  BY <1>1, <1>7, FS_Bijection DEF ExistsBijection
<1>10. IsFiniteSet(1..N) /\ Cardinality(1..N) = N
  BY <1>1, FS_Interval
<1>11. T = 1..N
  BY <1>8, <1>9, <1>10, FS_Subset DEF N
<1> QED BY <1>2, <1>11 DEF T, S, N

\* A used row is numbered by the rows used before it.
LEMMA TokenUsed ==
    ASSUME NEW d, WellFormed(d), NEW i \in DOMAIN d.ingredients, Uses(d, i) # {}
    PROVE  \A j : j \in Numbered(d, i) <=>
             /\ j \in OfCore(d, CoreAt(d, i))
             /\ j = i \/ UsedBefore(d, j, i)
<1> TAKE j
<1> SUFFICES ASSUME j \in OfCore(d, CoreAt(d, i)), j # i
             PROVE  Precedes(d, j, i) <=> UsedBefore(d, j, i)
  BY DEF Numbered
<1>1. j \in DOMAIN d.ingredients
  BY DEF OfCore
<1>2. UsedBefore(d, i, j) \/ UsedBefore(d, j, i)
  BY <1>1, PrecedesOrder
<1>3. UsedBefore(d, j, i) => Precedes(d, j, i)
  BY DEF Precedes
<1> QED BY <1>2, <1>3 DEF Precedes

-----------------------------------------------------------------------------
(* What two fingerprints share *)

\* The part of a set that another's answers to is as large.
LEMMA PartsAsLarge ==
    ASSUME NEW R, NEW Q, NEW p \in [R -> Q], \A x, y \in R : p[x] = p[y] => x = y,
           \A z \in Q : \E x \in R : p[x] = z,
           NEW S \in SUBSET R, NEW T \in SUBSET Q, IsFiniteSet(S), \A x \in R : x \in S <=> p[x] \in T
    PROVE  Cardinality(S) = Cardinality(T)
<1> DEFINE f == [x \in S |-> p[x]]
<1>1. f = [x \in S |-> f[x]] /\ \A x \in S : f[x] = p[x]
  OBVIOUS
<1> HIDE DEF f
<1>2. \A x \in S : f[x] \in T
  BY <1>1
<1>3. f \in [S -> T] /\ DOMAIN f = S
  BY <1>1, <1>2
<1>4. \A x, y \in S : f[x] = f[y] => x = y
  BY <1>1
<1>5. \A z \in T : \E x \in S : f[x] = z
  <2> TAKE z \in T
  <2>1. PICK x \in R : p[x] = z
    OBVIOUS
  <2> QED BY <1>1, <2>1
<1>6. f \in Bijection(S, T)
  BY <1>3, <1>4, <1>5 DEF Bijection, Injection, Surjection, IsInjective
<1> QED BY <1>6, FS_Bijection DEF ExistsBijection

Cores(d) == [i \in DOMAIN d.ingredients |-> Core(d.ingredients[i])]
CoresAlike(d, e) == \A c : Cardinality(OfCore(d, c)) = Cardinality(OfCore(e, c))

\* The counted cores of two documents are the same if and only if they have as many of each.
LEMMA CoresEqual ==
    ASSUME NEW d, WellFormed(d), NEW e, WellFormed(e)
    PROVE  ToBag(Cores(d)) = ToBag(Cores(e)) <=> CoresAlike(d, e)
<1>1. ASSUME NEW x, WellFormed(x)
      PROVE  /\ DOMAIN ToBag(Cores(x)) = Range(Cores(x))
             /\ \A c \in Range(Cores(x)) : ToBag(Cores(x))[c] = Cardinality(OfCore(x, c))
             /\ \A c : c \in Range(Cores(x)) <=> Cardinality(OfCore(x, c)) # 0
             /\ ToBag(Cores(x)) = [c \in Range(Cores(x)) |-> Cardinality(OfCore(x, c))]
  <2>1. ASSUME NEW c PROVE {i \in DOMAIN Cores(x) : Cores(x)[i] = c} = OfCore(x, c)
    BY DEF Cores, OfCore, CoreAt
  <2>2. ToBag(Cores(x)) = [c \in Range(Cores(x)) |-> Cardinality(OfCore(x, c))]
    BY <2>1 DEF ToBag
  <2>3. ASSUME NEW c PROVE c \in Range(Cores(x)) <=> OfCore(x, c) # {}
    BY DEF Range, Cores, OfCore, CoreAt
  <2>4. ASSUME NEW c PROVE OfCore(x, c) # {} <=> Cardinality(OfCore(x, c)) # 0
    BY <1>1, OfCoreFinite, FS_EmptySet
  <2> QED BY <2>2, <2>3, <2>4
<1>2. ASSUME ToBag(Cores(d)) = ToBag(Cores(e)) PROVE CoresAlike(d, e)
  <2>1. Range(Cores(d)) = Range(Cores(e))
    BY <1>1, <1>2
  <2>2. ASSUME NEW c PROVE Cardinality(OfCore(d, c)) = Cardinality(OfCore(e, c))
    <3>1. CASE c \in Range(Cores(d))
      BY <1>1, <1>2, <2>1, <3>1
    <3>2. CASE c \notin Range(Cores(d))
      <4>1. Cardinality(OfCore(d, c)) = 0 /\ Cardinality(OfCore(e, c)) = 0
        BY <1>1, <2>1, <3>2
      <4> QED BY <4>1
    <3> QED BY <3>1, <3>2
  <2> QED BY <2>2 DEF CoresAlike
<1>3. ASSUME CoresAlike(d, e) PROVE ToBag(Cores(d)) = ToBag(Cores(e))
  <2>1. \A c : c \in Range(Cores(d)) <=> c \in Range(Cores(e))
    BY <1>1, <1>3 DEF CoresAlike
  <2>2. Range(Cores(d)) = Range(Cores(e))
    BY <2>1
  <2>3. [c \in Range(Cores(d)) |-> Cardinality(OfCore(d, c))] =
        [c \in Range(Cores(e)) |-> Cardinality(OfCore(e, c))]
    BY <1>3, <2>2 DEF CoresAlike
  <2> QED BY <1>1, <2>3
<1> QED BY <1>2, <1>3

\* How an action of one is that of another: the same but for the names of the rows.
ActionsAlike(d, e, x, y) ==
    /\ x.type = y.type
    /\ DOMAIN x.inputs = DOMAIN y.inputs
    /\ \A n \in DOMAIN x.inputs : Occurrence(d, x.inputs[n]) = Occurrence(e, y.inputs[n])
    /\ CanonicalMeasure(x.duration) = CanonicalMeasure(y.duration)
    /\ CanonicalMeasure(x.temperature) = CanonicalMeasure(y.temperature)

StepsAlike(d, e, s, t) ==
    DOMAIN s = DOMAIN t /\ \A a \in DOMAIN s : ActionsAlike(d, e, s[a], t[a])

DocumentsAlike(d, e) ==
    /\ CoresAlike(d, e)
    /\ DOMAIN d.instructions = DOMAIN e.instructions
    /\ \A i \in DOMAIN d.instructions :
         StepsAlike(d, e, d.instructions[i].actions, e.instructions[i].actions)

\* An action, and the steps of a document, as the fingerprint has them.
ActionPrint(d, x) ==
    [type |-> x.type,
     inputs |-> [n \in DOMAIN x.inputs |-> Occurrence(d, x.inputs[n])],
     duration |-> CanonicalMeasure(x.duration),
     temperature |-> CanonicalMeasure(x.temperature)]
StepPrint(d, s) == [a \in DOMAIN s |-> ActionPrint(d, s[a])]

\* Two actions look alike in the fingerprints of their documents.
LEMMA ActionPrintsEqual ==
    ASSUME NEW d, NEW e, NEW x, NEW y
    PROVE  ActionPrint(d, x) = ActionPrint(e, y) <=> ActionsAlike(d, e, x, y)
<1> DEFINE f == [n \in DOMAIN x.inputs |-> Occurrence(d, x.inputs[n])]
           g == [n \in DOMAIN y.inputs |-> Occurrence(e, y.inputs[n])]
<1>1. ActionPrint(d, x) = ActionPrint(e, y) <=>
        /\ x.type = y.type /\ f = g
        /\ CanonicalMeasure(x.duration) = CanonicalMeasure(y.duration)
        /\ CanonicalMeasure(x.temperature) = CanonicalMeasure(y.temperature)
  <2>1. /\ ActionPrint(d, x) = [type |-> x.type, inputs |-> f, duration |-> CanonicalMeasure(x.duration),
                                temperature |-> CanonicalMeasure(x.temperature)]
        /\ ActionPrint(e, y) = [type |-> y.type, inputs |-> g, duration |-> CanonicalMeasure(y.duration),
                                temperature |-> CanonicalMeasure(y.temperature)]
    BY DEF ActionPrint
  <2> HIDE DEF f, g
  <2> QED BY <2>1
<1>2. DOMAIN f = DOMAIN x.inputs /\ DOMAIN g = DOMAIN y.inputs
  OBVIOUS
<1>3. \A n \in DOMAIN x.inputs : f[n] = Occurrence(d, x.inputs[n])
  OBVIOUS
<1>4. \A n \in DOMAIN y.inputs : g[n] = Occurrence(e, y.inputs[n])
  OBVIOUS
<1>5. f = [n \in DOMAIN x.inputs |-> f[n]] /\ g = [n \in DOMAIN y.inputs |-> g[n]]
  OBVIOUS
<1> HIDE DEF f, g
<1>6. f = g <=> /\ DOMAIN x.inputs = DOMAIN y.inputs
                /\ \A n \in DOMAIN x.inputs : f[n] = g[n]
  BY <1>2, <1>5
<1> QED BY <1>1, <1>3, <1>4, <1>6 DEF ActionsAlike

\* Two steps look alike in the fingerprints of their documents.
LEMMA StepPrintsEqual ==
    ASSUME NEW d, NEW e, NEW s, NEW t
    PROVE  StepPrint(d, s) = StepPrint(e, t) <=> StepsAlike(d, e, s, t)
<1> DEFINE f == StepPrint(d, s) g == StepPrint(e, t)
<1>1. /\ DOMAIN f = DOMAIN s /\ f = [a \in DOMAIN s |-> f[a]]
      /\ \A a \in DOMAIN s : f[a] = ActionPrint(d, s[a])
  BY DEF StepPrint
<1>2. /\ DOMAIN g = DOMAIN t /\ g = [a \in DOMAIN t |-> g[a]]
      /\ \A a \in DOMAIN t : g[a] = ActionPrint(e, t[a])
  BY DEF StepPrint
<1> HIDE DEF f, g
<1>3. f = g <=> DOMAIN s = DOMAIN t /\ \A a \in DOMAIN s : f[a] = g[a]
  BY <1>1, <1>2
<1>4. f = g <=> DOMAIN s = DOMAIN t /\ \A a \in DOMAIN s : ActionPrint(d, s[a]) = ActionPrint(e, t[a])
  BY <1>1, <1>2, <1>3
<1>5. f = g <=> StepsAlike(d, e, s, t)
  BY <1>4, ActionPrintsEqual DEF StepsAlike
<1> QED BY <1>5 DEF f, g

\* What it takes for the fingerprints of two complete documents to be one.
LEMMA FingerprintsEqual ==
    ASSUME NEW d, WellFormed(d), IsComplete(d), NEW e, WellFormed(e), IsComplete(e)
    PROVE  Fingerprint(d) = Fingerprint(e) <=> DocumentsAlike(d, e)
<1> DEFINE Steps(x) == [i \in DOMAIN x.instructions |-> StepPrint(x, x.instructions[i].actions)]
<1>1. ASSUME NEW x, IsComplete(x)
      PROVE  Fingerprint(x) = [ingredients |-> ToBag(Cores(x)), instructions |-> Steps(x)]
  BY <1>1 DEF Fingerprint, Cores, StepPrint, ActionPrint
<1>2. ASSUME NEW x
      PROVE  /\ DOMAIN Steps(x) = DOMAIN x.instructions
             /\ Steps(x) = [i \in DOMAIN x.instructions |-> Steps(x)[i]]
             /\ \A i \in DOMAIN x.instructions :
                  Steps(x)[i] = StepPrint(x, x.instructions[i].actions)
  OBVIOUS
<1> HIDE DEF Steps
<1>3. Fingerprint(d) = Fingerprint(e) <=>
        ToBag(Cores(d)) = ToBag(Cores(e)) /\ Steps(d) = Steps(e)
  BY <1>1
<1>4. Steps(d) = Steps(e) <=>
        /\ DOMAIN d.instructions = DOMAIN e.instructions
        /\ \A i \in DOMAIN d.instructions : Steps(d)[i] = Steps(e)[i]
  BY <1>2
<1>5. Steps(d) = Steps(e) <=>
        /\ DOMAIN d.instructions = DOMAIN e.instructions
        /\ \A i \in DOMAIN d.instructions :
             StepsAlike(d, e, d.instructions[i].actions, e.instructions[i].actions)
  BY <1>2, <1>4, StepPrintsEqual
<1> QED BY <1>3, <1>5, CoresEqual DEF DocumentsAlike

\* What stands in a fingerprint for a row.
LEMMA OccurrenceIs ==
    ASSUME NEW d, WellFormed(d), NEW e, WellFormed(e), NEW k \in Keys(d), NEW l \in Keys(e)
    PROVE  Occurrence(d, k) = Occurrence(e, l) <=>
             /\ CoreAt(d, RowOf(d, k)) = CoreAt(e, RowOf(e, l))
             /\ Token(d, RowOf(d, k)) = Token(e, RowOf(e, l))
<1>1. Occurrence(d, k) = [core |-> CoreAt(d, RowOf(d, k)), token |-> Token(d, RowOf(d, k))]
  BY DEF Occurrence, RowOf, CoreAt
<1>2. Occurrence(e, l) = [core |-> CoreAt(e, RowOf(e, l)), token |-> Token(e, RowOf(e, l))]
  BY DEF Occurrence, RowOf, CoreAt
<1> QED BY <1>1, <1>2

-----------------------------------------------------------------------------
(* One fingerprint, one structure *)

ActionsSame(x, y, f) ==
    /\ x.type = y.type
    /\ DOMAIN x.inputs = DOMAIN y.inputs
    /\ \A n \in DOMAIN x.inputs : y.inputs[n] = f[x.inputs[n]]
    /\ SameAmount(x.duration, y.duration)
    /\ SameAmount(x.temperature, y.temperature)

\* The steps of one are those of the other action by action and input by input.
LEMMA SameStepsAre ==
    ASSUME NEW d, WellFormed(d), NEW e, WellFormed(e), NEW f
    PROVE  SameSteps(d, e, f) <=>
             /\ DOMAIN d.instructions = DOMAIN e.instructions
             /\ \A i \in DOMAIN d.instructions :
                  /\ DOMAIN d.instructions[i].actions = DOMAIN e.instructions[i].actions
                  /\ \A a \in DOMAIN d.instructions[i].actions :
                       ActionsSame(d.instructions[i].actions[a], e.instructions[i].actions[a], f)
<1>1. ASSUME NEW s, NEW t, NEW X, NEW Y, s \in Seq(X), t \in Seq(Y)
      PROVE  Len(s) = Len(t) <=> DOMAIN s = DOMAIN t
  <2>1. Len(s) \in Nat /\ DOMAIN s = 1..Len(s) /\ Len(t) \in Nat /\ DOMAIN t = 1..Len(t)
    BY <1>1, LenProperties
  <2>2. ASSUME NEW m \in Nat, NEW n \in Nat, 1..m = 1..n PROVE m = n
    <3>1. \A x \in Int : x \in 1..m <=> x \in 1..n
      BY <2>2
    <3>2. m # 0 => m <= n
      BY <3>1
    <3>3. n # 0 => n <= m
      BY <3>1
    <3> QED BY <3>2, <3>3
  <2> QED BY <2>1, <2>2
<1>2. Len(d.instructions) = Len(e.instructions) <=> DOMAIN d.instructions = DOMAIN e.instructions
  BY <1>1, StepsOf
<1>3. ASSUME NEW i \in DOMAIN d.instructions, i \in DOMAIN e.instructions
      PROVE  Len(d.instructions[i].actions) = Len(e.instructions[i].actions) <=>
             DOMAIN d.instructions[i].actions = DOMAIN e.instructions[i].actions
  <2>1. /\ d.instructions[i].actions \in Seq(ActionsOver(Nat))
        /\ e.instructions[i].actions \in Seq(ActionsOver(Nat))
    BY <1>3, StepsOf DEF WellUsed
  <2> QED BY <1>1, <2>1
<1>4. ASSUME NEW i \in DOMAIN d.instructions, i \in DOMAIN e.instructions,
             NEW a \in DOMAIN d.instructions[i].actions, a \in DOMAIN e.instructions[i].actions
      PROVE  LET x == d.instructions[i].actions[a] y == e.instructions[i].actions[a] IN
             (/\ x.type = y.type
              /\ y.inputs = [n \in DOMAIN x.inputs |-> f[x.inputs[n]]]
              /\ SameAmount(x.duration, y.duration)
              /\ SameAmount(x.temperature, y.temperature)) <=> ActionsSame(x, y, f)
  <2> DEFINE x == d.instructions[i].actions[a] y == e.instructions[i].actions[a]
             g == [n \in DOMAIN x.inputs |-> f[x.inputs[n]]]
  <2>1. y \in ActionsOver(Nat)
    BY <1>4, StepsOf
  <2> HIDE DEF x, y
  <2>2. y.inputs \in Seq(Nat)
    BY <2>1 DEF ActionsOver
  <2>3. y.inputs = [n \in DOMAIN y.inputs |-> y.inputs[n]]
    <3>1. y.inputs \in [1..Len(y.inputs) -> Nat]
      BY <2>2, LenProperties
    <3> QED BY <3>1
  <2>4. DOMAIN g = DOMAIN x.inputs /\ \A n \in DOMAIN x.inputs : g[n] = f[x.inputs[n]]
    OBVIOUS
  <2>5. y.inputs = g <=> /\ DOMAIN x.inputs = DOMAIN y.inputs
                         /\ \A n \in DOMAIN x.inputs : y.inputs[n] = f[x.inputs[n]]
    <3>1. g = [n \in DOMAIN x.inputs |-> g[n]]
      OBVIOUS
    <3> HIDE DEF g
    <3> QED BY <2>3, <2>4, <3>1
  <2>6. (/\ x.type = y.type /\ y.inputs = g
         /\ SameAmount(x.duration, y.duration)
         /\ SameAmount(x.temperature, y.temperature)) <=> ActionsSame(x, y, f)
    <3> HIDE DEF g
    <3> QED BY <2>5 DEF ActionsSame
  <2> QED BY <2>6 DEF x, y
<1>5. ASSUME NEW i \in DOMAIN d.instructions, i \in DOMAIN e.instructions,
             DOMAIN d.instructions[i].actions = DOMAIN e.instructions[i].actions
      PROVE  (\A a \in DOMAIN d.instructions[i].actions :
                LET x == d.instructions[i].actions[a] y == e.instructions[i].actions[a] IN
                /\ x.type = y.type
                /\ y.inputs = [n \in DOMAIN x.inputs |-> f[x.inputs[n]]]
                /\ SameAmount(x.duration, y.duration)
                /\ SameAmount(x.temperature, y.temperature)) <=>
             (\A a \in DOMAIN d.instructions[i].actions :
                ActionsSame(d.instructions[i].actions[a], e.instructions[i].actions[a], f))
  BY <1>4, <1>5
<1> QED BY <1>2, <1>3, <1>5 DEF SameSteps

\* Rows have one core if and only if they are as much of one ingredient.
LEMMA CoresAre ==
    ASSUME NEW d, WellFormed(d), IsComplete(d), NEW e, WellFormed(e), IsComplete(e),
           NEW i \in DOMAIN d.ingredients, NEW j \in DOMAIN e.ingredients
    PROVE  CoreAt(d, i) = CoreAt(e, j) <=>
             /\ d.ingredients[i].ingredient = e.ingredients[j].ingredient
             /\ SameAmount(d.ingredients[i].measure, e.ingredients[j].measure)
<1> DEFINE m == d.ingredients[i].measure n == e.ingredients[j].measure
<1>1. Measured(m, "ingredient_amount") /\ Measured(n, "ingredient_amount")
  BY MeasurableOf DEF IsMeasurable, RowMeasured
<1>2. d.ingredients[i] \in RowsOver(Nat) /\ e.ingredients[j] \in RowsOver(Nat)
  BY RowsOf
<1>3. m \in Amounts \cup {None} /\ n \in Amounts \cup {None}
  BY <1>2 DEF RowsOver
<1>4. CoreAt(d, i) = CoreAt(e, j) <=>
        /\ d.ingredients[i].ingredient = e.ingredients[j].ingredient
        /\ CanonicalMeasure(m) = CanonicalMeasure(n)
  BY DEF CoreAt, Core
<1> HIDE DEF m, n
<1>5. Kindred(m, n)
  BY <1>3, AllKindred
<1>6. CanonicalMeasure(m) = CanonicalMeasure(n) <=> SameAmount(m, n)
  BY <1>1, <1>5, MeasuresEqual
<1> QED BY <1>4, <1>6 DEF m, n

\* Durations and temperatures have one canonical form if and only if they are of one amount.
LEMMA ParametersAre ==
    ASSUME NEW d, WellFormed(d), IsComplete(d), NEW e, WellFormed(e), IsComplete(e),
           NEW i \in DOMAIN d.instructions, NEW a \in DOMAIN d.instructions[i].actions,
           i \in DOMAIN e.instructions, a \in DOMAIN e.instructions[i].actions
    PROVE  LET x == d.instructions[i].actions[a] y == e.instructions[i].actions[a] IN
           /\ CanonicalMeasure(x.duration) = CanonicalMeasure(y.duration) <=>
                SameAmount(x.duration, y.duration)
           /\ CanonicalMeasure(x.temperature) = CanonicalMeasure(y.temperature) <=>
                SameAmount(x.temperature, y.temperature)
<1> DEFINE x == d.instructions[i].actions[a] y == e.instructions[i].actions[a]
<1>1. x \in ActionsOver(Nat) /\ y \in ActionsOver(Nat)
  BY StepsOf
<1>2. ActionMeasured(x) /\ ActionMeasured(y)
  BY MeasurableOf DEF IsMeasurable
<1> HIDE DEF x, y
<1>3. /\ x.duration \in Durations \cup {None} /\ y.duration \in Durations \cup {None}
      /\ x.temperature \in Temperatures \cup {None} /\ y.temperature \in Temperatures \cup {None}
  BY <1>1 DEF ActionsOver
<1>4. Kindred(x.duration, y.duration)
  BY <1>3, AllKindred
<1>5. Kindred(x.temperature, y.temperature)
  BY <1>3, AllKindred
<1>6. CanonicalMeasure(x.duration) = CanonicalMeasure(y.duration) <=>
        SameAmount(x.duration, y.duration)
  BY <1>2, <1>4, AmountsEqual DEF ActionMeasured
<1>7. CanonicalMeasure(x.temperature) = CanonicalMeasure(y.temperature) <=>
        SameAmount(x.temperature, y.temperature)
  BY <1>2, <1>5, AmountsEqual DEF ActionMeasured
<1> QED BY <1>6, <1>7 DEF x, y

\* j is the row of e that has the core and the number that i has in d.
Answers(d, e, i, j) ==
    j \in DOMAIN e.ingredients /\ CoreAt(e, j) = CoreAt(d, i) /\ Token(e, j) = Token(d, i)

\* With as many rows of each core there is one for each, and only one.
LEMMA AnswerOf ==
    ASSUME NEW d, WellFormed(d), NEW e, WellFormed(e), CoresAlike(d, e),
           NEW i \in DOMAIN d.ingredients
    PROVE  /\ \E j : Answers(d, e, i, j)
           /\ \A j, k : Answers(d, e, i, j) /\ Answers(d, e, i, k) => j = k
<1> DEFINE c == CoreAt(d, i)
<1>1. i \in OfCore(d, c)
  BY DEF OfCore
<1>2. Cardinality(OfCore(d, c)) = Cardinality(OfCore(e, c))
  BY DEF CoresAlike
<1>3. Token(d, i) \in 1..Cardinality(OfCore(d, c))
  BY <1>1, TokensOf
<1>4. \A j : Answers(d, e, i, j) <=> j \in OfCore(e, c) /\ Token(e, j) = Token(d, i)
  BY DEF Answers, OfCore
<1> HIDE DEF c
<1>5. \E j \in OfCore(e, c) : Token(e, j) = Token(d, i)
  BY <1>2, <1>3, TokenTaken
<1>6. \A j, k \in OfCore(e, c) : Token(e, j) = Token(e, k) => j = k
  BY TokensOf
<1> QED BY <1>4, <1>5, <1>6

\* f calls the rows of d by the keys of rows of e, all of them.
IsNaming(d, e, f) ==
    /\ f \in [Keys(d) -> Keys(e)]
    /\ \A k, l \in Keys(d) : f[k] = f[l] => k = l
    /\ \A l \in Keys(e) : \E k \in Keys(d) : f[k] = l

CoresKept(d, e, f) ==
    \A i \in DOMAIN d.ingredients : CoreAt(e, RowOf(e, f[d.ingredients[i].key])) = CoreAt(d, i)

\* What one structure is.
LEMMA SameStructureIs ==
    ASSUME NEW d, WellFormed(d), IsComplete(d), NEW e, WellFormed(e), IsComplete(e)
    PROVE  SameStructure(d, e) <=>
             \E f : IsNaming(d, e, f) /\ CoresKept(d, e, f) /\ SameSteps(d, e, f)
<1>1. ASSUME NEW f
      PROVE  f \in Bijection(Keys(d), Keys(e)) <=> IsNaming(d, e, f)
  BY DEF Bijection, Injection, Surjection, IsInjective, IsNaming
<1>2. ASSUME NEW f, IsNaming(d, e, f)
      PROVE  (\A i \in DOMAIN d.ingredients, j \in DOMAIN e.ingredients :
                f[d.ingredients[i].key] = e.ingredients[j].key =>
                  /\ d.ingredients[i].ingredient = e.ingredients[j].ingredient
                  /\ SameAmount(d.ingredients[i].measure, e.ingredients[j].measure))
             <=> CoresKept(d, e, f)
  <2>1. ASSUME NEW i \in DOMAIN d.ingredients
        PROVE  \A j \in DOMAIN e.ingredients :
                 f[d.ingredients[i].key] = e.ingredients[j].key <=>
                 j = RowOf(e, f[d.ingredients[i].key])
    <3>1. f[d.ingredients[i].key] \in Keys(e)
      BY <1>2, RowsOf DEF IsNaming
    <3> QED BY <3>1, RowOfKey
  <2>2. ASSUME NEW i \in DOMAIN d.ingredients
        PROVE  RowOf(e, f[d.ingredients[i].key]) \in DOMAIN e.ingredients
    <3>1. f[d.ingredients[i].key] \in Keys(e)
      BY <1>2, RowsOf DEF IsNaming
    <3> QED BY <3>1, RowOfKey
  <2>3. \A i \in DOMAIN d.ingredients, j \in DOMAIN e.ingredients :
          CoreAt(d, i) = CoreAt(e, j) <=>
             /\ d.ingredients[i].ingredient = e.ingredients[j].ingredient
             /\ SameAmount(d.ingredients[i].measure, e.ingredients[j].measure)
    BY CoresAre
  <2>4. CoresKept(d, e, f) <=>
          \A i \in DOMAIN d.ingredients, j \in DOMAIN e.ingredients :
             f[d.ingredients[i].key] = e.ingredients[j].key => CoreAt(d, i) = CoreAt(e, j)
    BY <2>1, <2>2 DEF CoresKept
  <2> QED BY <2>3, <2>4
<1> QED BY <1>1, <1>2 DEF SameStructure

\* Documents with one fingerprint have one structure.
LEMMA AlikeIsSame ==
    ASSUME NEW d, WellFormed(d), IsComplete(d), NEW e, WellFormed(e), IsComplete(e),
           DocumentsAlike(d, e)
    PROVE  SameStructure(d, e)
<1> DEFINE R == DOMAIN d.ingredients
           p == [i \in R |-> CHOOSE j : Answers(d, e, i, j)]
           f == [k \in Keys(d) |-> e.ingredients[p[RowOf(d, k)]].key]
<1>1. CoresAlike(d, e)
  BY DEF DocumentsAlike
<1>2. \A i \in R : Answers(d, e, i, p[i]) /\ \A j : Answers(d, e, i, j) => j = p[i]
  BY <1>1, AnswerOf
<1>3. \A k \in Keys(d) : f[k] = e.ingredients[p[RowOf(d, k)]].key
  OBVIOUS
<1>4. f = [k \in Keys(d) |-> f[k]]
  OBVIOUS
<1> HIDE DEF p, f
<1>5. \A i \in R : p[i] \in DOMAIN e.ingredients /\ CoreAt(e, p[i]) = CoreAt(d, i)
                   /\ Token(e, p[i]) = Token(d, i)
  BY <1>2 DEF Answers
<1>6. \A k \in Keys(d) : RowOf(d, k) \in R /\ d.ingredients[RowOf(d, k)].key = k
  BY RowOfKey
<1>7. \A k \in Keys(d) : f[k] \in Keys(e) /\ RowOf(e, f[k]) = p[RowOf(d, k)]
  BY <1>3, <1>5, <1>6, RowOfKey
<1>8. \A i \in R : d.ingredients[i].key \in Keys(d) /\ RowOf(d, d.ingredients[i].key) = i
  BY RowOfKey
<1>9. \A i, j \in R : p[i] = p[j] => i = j
  <2> SUFFICES ASSUME NEW i \in R, NEW j \in R, p[i] = p[j] PROVE i = j
    OBVIOUS
  <2>1. CoreAt(d, i) = CoreAt(d, j) /\ Token(d, i) = Token(d, j)
    BY <1>5
  <2>2. i \in OfCore(d, CoreAt(d, i)) /\ j \in OfCore(d, CoreAt(d, i))
    BY <2>1 DEF OfCore
  <2> QED BY <2>1, <2>2, TokensOf
<1>10. \A j \in DOMAIN e.ingredients : \E i \in R : p[i] = j
  <2> TAKE j \in DOMAIN e.ingredients
  <2>1. CoresAlike(e, d)
    BY <1>1 DEF CoresAlike
  <2>2. PICK i : Answers(e, d, j, i)
    BY <2>1, AnswerOf
  <2>3. i \in R /\ Answers(d, e, i, j)
    BY <2>2 DEF Answers
  <2> QED BY <1>2, <2>3
<1>11. IsNaming(d, e, f)
  <2>1. f \in [Keys(d) -> Keys(e)]
    BY <1>4, <1>7
  <2>2. \A k, l \in Keys(d) : f[k] = f[l] => k = l
    BY <1>6, <1>7, <1>9
  <2>3. \A l \in Keys(e) : \E k \in Keys(d) : f[k] = l
    <3> TAKE l \in Keys(e)
    <3>1. RowOf(e, l) \in DOMAIN e.ingredients /\ e.ingredients[RowOf(e, l)].key = l
      BY RowOfKey
    <3>2. PICK i \in R : p[i] = RowOf(e, l)
      BY <1>10, <3>1
    <3>3. f[d.ingredients[i].key] = l
      BY <1>3, <1>8, <3>1, <3>2
    <3> QED BY <1>8, <3>3
  <2> QED BY <2>1, <2>2, <2>3 DEF IsNaming
<1>12. CoresKept(d, e, f)
  BY <1>5, <1>7, <1>8 DEF CoresKept
<1>13. ASSUME NEW i \in DOMAIN d.instructions, NEW a \in DOMAIN d.instructions[i].actions,
              i \in DOMAIN e.instructions, a \in DOMAIN e.instructions[i].actions,
              ActionsAlike(d, e, d.instructions[i].actions[a], e.instructions[i].actions[a])
       PROVE  ActionsSame(d.instructions[i].actions[a], e.instructions[i].actions[a], f)
  <2> DEFINE x == d.instructions[i].actions[a] y == e.instructions[i].actions[a]
  <2>1. ToSet(x.inputs) \subseteq Keys(d) /\ ToSet(y.inputs) \subseteq Keys(e)
    BY <1>13, StepsOf
  <2>2. /\ CanonicalMeasure(x.duration) = CanonicalMeasure(y.duration) <=>
             SameAmount(x.duration, y.duration)
        /\ CanonicalMeasure(x.temperature) = CanonicalMeasure(y.temperature) <=>
             SameAmount(x.temperature, y.temperature)
    BY <1>13, ParametersAre
  <2> SUFFICES ActionsSame(x, y, f)
    OBVIOUS
  <2>3. ActionsAlike(d, e, x, y)
    BY <1>13
  <2> HIDE DEF x, y
  <2>4. \A n \in DOMAIN x.inputs : y.inputs[n] = f[x.inputs[n]]
    <3> TAKE n \in DOMAIN x.inputs
    <3> DEFINE k == x.inputs[n] l == y.inputs[n]
    <3>1. k \in Keys(d) /\ l \in Keys(e) /\ Occurrence(d, k) = Occurrence(e, l)
      BY <2>1, <2>3 DEF ActionsAlike, ToSet
    <3> HIDE DEF k, l
    <3>2. Answers(d, e, RowOf(d, k), RowOf(e, l))
      <4>1. /\ CoreAt(d, RowOf(d, k)) = CoreAt(e, RowOf(e, l))
            /\ Token(d, RowOf(d, k)) = Token(e, RowOf(e, l))
        BY <3>1, OccurrenceIs
      <4>2. RowOf(e, l) \in DOMAIN e.ingredients
        BY <3>1, RowOfKey
      <4> QED BY <4>1, <4>2 DEF Answers
    <3>3. RowOf(e, l) = p[RowOf(d, k)]
      BY <1>2, <1>6, <3>1, <3>2
    <3>4. e.ingredients[RowOf(e, l)].key = l
      BY <3>1, RowOfKey
    <3>5. l = f[k]
      BY <1>3, <3>1, <3>3, <3>4
    <3> QED BY <3>5 DEF k, l
  <2> QED BY <2>2, <2>3, <2>4 DEF ActionsAlike, ActionsSame
<1>14. SameSteps(d, e, f)
  <2>1. DOMAIN d.instructions = DOMAIN e.instructions
    BY DEF DocumentsAlike
  <2>2. ASSUME NEW i \in DOMAIN d.instructions
        PROVE  /\ DOMAIN d.instructions[i].actions = DOMAIN e.instructions[i].actions
               /\ \A a \in DOMAIN d.instructions[i].actions :
                    ActionsSame(d.instructions[i].actions[a], e.instructions[i].actions[a], f)
    <3>1. StepsAlike(d, e, d.instructions[i].actions, e.instructions[i].actions)
      BY DEF DocumentsAlike
    <3>2. DOMAIN d.instructions[i].actions = DOMAIN e.instructions[i].actions
      BY <3>1 DEF StepsAlike
    <3>3. \A a \in DOMAIN d.instructions[i].actions :
            ActionsAlike(d, e, d.instructions[i].actions[a], e.instructions[i].actions[a])
      BY <3>1 DEF StepsAlike
    <3> QED BY <1>13, <2>1, <3>2, <3>3
  <2> QED BY <2>1, <2>2, SameStepsAre
<1> QED BY <1>11, <1>12, <1>14, SameStructureIs

\* In documents of one structure rows that answer to each other are used in the same places.
LEMMA UsesKept ==
    ASSUME NEW d, WellFormed(d), NEW e, WellFormed(e), NEW f, IsNaming(d, e, f),
           SameSteps(d, e, f), NEW i \in DOMAIN d.ingredients
    PROVE  Uses(e, RowOf(e, f[d.ingredients[i].key])) = Uses(d, i)
<1> DEFINE k == d.ingredients[i].key j == RowOf(e, f[k])
           In(x, u) == x.instructions[u[1]].actions[u[2]].inputs
<1>1. k \in Keys(d) /\ f[k] \in Keys(e)
  BY RowsOf DEF IsNaming
<1>2. j \in DOMAIN e.ingredients /\ e.ingredients[j].key = f[k]
  BY <1>1, RowOfKey
<1>3. /\ DOMAIN d.instructions = DOMAIN e.instructions
      /\ \A s \in DOMAIN d.instructions :
           /\ DOMAIN d.instructions[s].actions = DOMAIN e.instructions[s].actions
           /\ \A a \in DOMAIN d.instructions[s].actions :
                ActionsSame(d.instructions[s].actions[a], e.instructions[s].actions[a], f)
  BY SameStepsAre
<1>4. ASSUME NEW u
      PROVE  /\ IsPath(d, u) <=> IsPath(e, u)
             /\ IsPath(d, u) => In(d, u)[u[3]] \in Keys(d) /\ In(e, u)[u[3]] = f[In(d, u)[u[3]]]
  <2>1. ASSUME u[1] \in DOMAIN d.instructions, u[2] \in DOMAIN d.instructions[u[1]].actions
        PROVE  /\ DOMAIN In(d, u) = DOMAIN In(e, u)
               /\ \A n \in DOMAIN In(d, u) : In(d, u)[n] \in Keys(d) /\ In(e, u)[n] = f[In(d, u)[n]]
    <3>1. ToSet(In(d, u)) \subseteq Keys(d)
      BY <2>1, StepsOf
    <3>2. \A n \in DOMAIN In(d, u) : In(d, u)[n] \in Keys(d)
      BY <3>1 DEF ToSet
    <3>3. ActionsSame(d.instructions[u[1]].actions[u[2]], e.instructions[u[1]].actions[u[2]], f)
      BY <1>3, <2>1
    <3> QED BY <3>2, <3>3 DEF ActionsSame
  <2>2. u[1] \in DOMAIN d.instructions =>
          DOMAIN d.instructions[u[1]].actions = DOMAIN e.instructions[u[1]].actions
    BY <1>3
  <2>3. DOMAIN d.instructions = DOMAIN e.instructions
    BY <1>3
  <2> QED BY <2>1, <2>2, <2>3 DEF IsPath
<1>5. ASSUME NEW u PROVE u \in Uses(d, i) <=> IsPath(d, u) /\ In(d, u)[u[3]] = k
  BY PathsAre DEF Uses
<1>6. ASSUME NEW u PROVE u \in Uses(e, j) <=> IsPath(e, u) /\ In(e, u)[u[3]] = f[k]
  BY <1>2, PathsAre DEF Uses
<1> HIDE DEF In, k, j
<1>7. \A x \in Keys(d) : f[x] = f[k] <=> x = k
  BY <1>1 DEF IsNaming
<1>8. \A u : u \in Uses(d, i) <=> u \in Uses(e, j)
  BY <1>4, <1>5, <1>6, <1>7
<1>9. Uses(e, j) = Uses(d, i)
  BY <1>8
<1> QED BY <1>9 DEF j, k

\* Documents of one structure have one fingerprint.
LEMMA SameIsAlike ==
    ASSUME NEW d, WellFormed(d), IsComplete(d), NEW e, WellFormed(e), IsComplete(e),
           SameStructure(d, e)
    PROVE  DocumentsAlike(d, e)
<1>1. PICK f : IsNaming(d, e, f) /\ CoresKept(d, e, f) /\ SameSteps(d, e, f)
  BY SameStructureIs
<1> DEFINE R == DOMAIN d.ingredients Q == DOMAIN e.ingredients
           p == [i \in R |-> RowOf(e, f[d.ingredients[i].key])]
<1>2. \A i \in R : p[i] = RowOf(e, f[d.ingredients[i].key])
  OBVIOUS
<1>3. p = [i \in R |-> p[i]]
  OBVIOUS
<1> HIDE DEF p
<1>4. \A i \in R : d.ingredients[i].key \in Keys(d) /\ RowOf(d, d.ingredients[i].key) = i
  BY RowOfKey
<1>5. \A i \in R : p[i] \in Q /\ e.ingredients[p[i]].key = f[d.ingredients[i].key]
  <2> TAKE i \in R
  <2>1. f[d.ingredients[i].key] \in Keys(e)
    BY <1>1, <1>4 DEF IsNaming
  <2> QED BY <1>2, <2>1, RowOfKey
<1>6. p \in [R -> Q]
  BY <1>3, <1>5
<1>7. \A i, j \in R : p[i] = p[j] => i = j
  BY <1>1, <1>4, <1>5 DEF IsNaming
<1>8. \A j \in Q : \E i \in R : p[i] = j
  <2> TAKE j \in Q
  <2>1. e.ingredients[j].key \in Keys(e) /\ RowOf(e, e.ingredients[j].key) = j
    BY RowOfKey
  <2>2. PICK k \in Keys(d) : f[k] = e.ingredients[j].key
    BY <1>1, <2>1 DEF IsNaming
  <2>3. RowOf(d, k) \in R /\ d.ingredients[RowOf(d, k)].key = k
    BY RowOfKey
  <2>4. p[RowOf(d, k)] = j
    BY <1>2, <2>1, <2>2, <2>3
  <2> QED BY <2>3, <2>4
<1>9. \A i \in R : CoreAt(e, p[i]) = CoreAt(d, i)
  BY <1>1, <1>2 DEF CoresKept
<1>10. \A i \in R : Uses(e, p[i]) = Uses(d, i)
  BY <1>1, <1>2, UsesKept
<1>11. \A i, j \in R : UsedBefore(e, p[i], p[j]) <=> UsedBefore(d, i, j)
  BY <1>10 DEF UsedBefore
<1>12. ASSUME NEW c
       PROVE  Cardinality(OfCore(d, c)) = Cardinality(OfCore(e, c))
  <2>1. OfCore(d, c) \in SUBSET R /\ OfCore(e, c) \in SUBSET Q
    BY DEF OfCore
  <2>2. \A i \in R : i \in OfCore(d, c) <=> p[i] \in OfCore(e, c)
    BY <1>5, <1>9 DEF OfCore
  <2>3. IsFiniteSet(OfCore(d, c))
    BY OfCoreFinite
  <2> HIDE DEF R, Q
  <2> QED BY <1>6, <1>7, <1>8, <2>1, <2>2, <2>3, PartsAsLarge
<1>13. ASSUME NEW i \in R, Uses(d, i) # {}
       PROVE  Token(d, i) = Token(e, p[i])
  <2>1. p[i] \in Q /\ Uses(e, p[i]) # {}
    BY <1>5, <1>10, <1>13
  <2>2. Numbered(d, i) \in SUBSET R /\ Numbered(e, p[i]) \in SUBSET Q
    BY DEF Numbered, OfCore
  <2>3. \A j \in R : j \in Numbered(d, i) <=> p[j] \in Numbered(e, p[i])
    <3> TAKE j \in R
    <3>1. j \in Numbered(d, i) <=> CoreAt(d, j) = CoreAt(d, i) /\ (j = i \/ UsedBefore(d, j, i))
      BY <1>13, TokenUsed DEF OfCore
    <3>2. p[j] \in Numbered(e, p[i]) <=>
            CoreAt(e, p[j]) = CoreAt(e, p[i]) /\ (p[j] = p[i] \/ UsedBefore(e, p[j], p[i]))
      BY <1>5, <2>1, TokenUsed DEF OfCore
    <3> QED BY <1>7, <1>9, <1>11, <3>1, <3>2
  <2>4. IsFiniteSet(Numbered(d, i))
    <3>1. IsFiniteSet(R)
      BY OfCoreFinite
    <3> QED BY <2>2, <3>1, FS_Subset
  <2>5. Cardinality(Numbered(d, i)) = Cardinality(Numbered(e, p[i]))
    <3> HIDE DEF R, Q
    <3> QED BY <1>6, <1>7, <1>8, <2>2, <2>3, <2>4, PartsAsLarge
  <2> QED BY <2>1, <2>5, TokenIs
<1>14. /\ DOMAIN d.instructions = DOMAIN e.instructions
       /\ \A s \in DOMAIN d.instructions :
            /\ DOMAIN d.instructions[s].actions = DOMAIN e.instructions[s].actions
            /\ \A a \in DOMAIN d.instructions[s].actions :
                 ActionsSame(d.instructions[s].actions[a], e.instructions[s].actions[a], f)
  BY <1>1, SameStepsAre
<1>15. ASSUME NEW s \in DOMAIN d.instructions, NEW a \in DOMAIN d.instructions[s].actions
       PROVE  ActionsAlike(d, e, d.instructions[s].actions[a], e.instructions[s].actions[a])
  <2> DEFINE x == d.instructions[s].actions[a] y == e.instructions[s].actions[a]
  <2>1. ActionsSame(x, y, f)
    BY <1>14
  <2>2. /\ CanonicalMeasure(x.duration) = CanonicalMeasure(y.duration) <=>
             SameAmount(x.duration, y.duration)
        /\ CanonicalMeasure(x.temperature) = CanonicalMeasure(y.temperature) <=>
             SameAmount(x.temperature, y.temperature)
    BY <1>14, ParametersAre
  <2>3. ToSet(x.inputs) \subseteq Keys(d)
    BY StepsOf
  <2>4. ASSUME NEW n \in DOMAIN x.inputs
        PROVE  Occurrence(d, x.inputs[n]) = Occurrence(e, y.inputs[n])
    <3> DEFINE k == x.inputs[n] i == RowOf(d, k)
    <3>1. k \in Keys(d)
      BY <2>3 DEF ToSet
    <3>2. i \in R /\ d.ingredients[i].key = k
      BY <3>1, RowOfKey
    <3>3. <<s, a, n>> \in Uses(d, i)
      <4> DEFINE u == <<s, a, n>>
      <4>1. u[1] = s /\ u[2] = a /\ u[3] = n
        OBVIOUS
      <4> HIDE DEF u
      <4>2. IsPath(d, u)
        BY <4>1 DEF IsPath, u
      <4> QED BY <3>2, <4>1, <4>2, PathsAre DEF Uses, u
    <3>4. Token(d, i) = Token(e, p[i]) /\ CoreAt(e, p[i]) = CoreAt(d, i)
      BY <1>9, <1>13, <3>2, <3>3
    <3>5. f[k] \in Keys(e) /\ RowOf(e, f[k]) = p[i]
      BY <1>1, <1>2, <3>1, <3>2 DEF IsNaming
    <3>6. y.inputs[n] = f[k]
      BY <2>1 DEF ActionsSame
    <3> HIDE DEF k, i, x, y
    <3>7. Occurrence(d, k) = Occurrence(e, f[k])
      BY <3>1, <3>4, <3>5, OccurrenceIs DEF i
    <3> QED BY <3>6, <3>7 DEF k
  <2> QED BY <2>1, <2>2, <2>4 DEF ActionsSame, ActionsAlike
<1>16. CoresAlike(d, e)
  BY <1>12 DEF CoresAlike
<1> QED BY <1>14, <1>15, <1>16 DEF DocumentsAlike, StepsAlike

\* Complete documents have one fingerprint if and only if they have one structure.
LEMMA FingerprintsAre ==
    ASSUME NEW d, WellFormed(d), IsComplete(d), NEW e, WellFormed(e), IsComplete(e)
    PROVE  Fingerprint(e) = Fingerprint(d) <=> SameStructure(d, e)
BY AlikeIsSame, SameIsAlike, FingerprintsEqual

\* Under other keys a complete document is complete, and of the same structure.
LEMMA RenamedIsSame ==
    ASSUME NEW d, WellFormed(d), IsComplete(d), NEW name \in Bijection(Keys(d), Keys(d))
    PROVE  /\ WellFormed(Renamed(d, name)) /\ IsComplete(Renamed(d, name))
           /\ SameStructure(d, Renamed(d, name))
<1> DEFINE e == Renamed(d, name)
<1>1. /\ name \in [Keys(d) -> Keys(d)] /\ IsInjective(name)
      /\ \A k, l \in Keys(d) : name[k] = name[l] => k = l
      /\ \A l \in Keys(d) : \E k \in Keys(d) : name[k] = l
  BY DEF Bijection, Injection, Surjection, IsInjective
<1>2. name \in [Keys(d) -> Nat]
  BY <1>1, RowsOf
<1>3. WellFormed(e)
  BY <1>1, <1>2, RenamedOf
<1>4. IsCalled(d, name, e)
  BY <1>2, RenamedIs
<1> HIDE DEF e
<1>5. /\ DOMAIN e.ingredients = DOMAIN d.ingredients
      /\ \A i \in DOMAIN d.ingredients :
           /\ e.ingredients[i].key = name[d.ingredients[i].key]
           /\ e.ingredients[i].ingredient = d.ingredients[i].ingredient
           /\ e.ingredients[i].measure = d.ingredients[i].measure
           /\ d.ingredients[i].key \in Keys(d)
  BY <1>4 DEF IsCalled, RowsCalled, Keys
<1>6. /\ DOMAIN e.instructions = DOMAIN d.instructions
      /\ \A s \in DOMAIN d.instructions :
           /\ DOMAIN e.instructions[s].actions = DOMAIN d.instructions[s].actions
           /\ \A a \in DOMAIN d.instructions[s].actions :
                ActionCalled(d.instructions[s].actions[a], name, e.instructions[s].actions[a])
  BY <1>4 DEF IsCalled, StepCalled
<1>7. \A k : k \in Keys(e) <=> k \in Keys(d)
  <2> TAKE k
  <2>1. k \in Keys(e) <=> \E i \in DOMAIN d.ingredients : k = name[d.ingredients[i].key]
    BY <1>5 DEF Keys
  <2>2. \A l : l \in Keys(d) <=> \E i \in DOMAIN d.ingredients : l = d.ingredients[i].key
    BY DEF Keys
  <2> QED BY <1>1, <2>1, <2>2
<1>8. Keys(e) = Keys(d)
  BY <1>7
<1>9. IsNaming(d, e, name)
  BY <1>1, <1>8 DEF IsNaming
<1>10. CoresKept(d, e, name)
  <2> SUFFICES ASSUME NEW i \in DOMAIN d.ingredients
               PROVE  CoreAt(e, RowOf(e, name[d.ingredients[i].key])) = CoreAt(d, i)
    BY DEF CoresKept
  <2>1. RowOf(e, e.ingredients[i].key) = i
    BY <1>3, <1>5, RowOfKey
  <2> QED BY <1>5, <2>1 DEF CoreAt, Core
<1>11. ASSUME NEW s \in DOMAIN d.instructions, NEW a \in DOMAIN d.instructions[s].actions
       PROVE  ActionsSame(d.instructions[s].actions[a], e.instructions[s].actions[a], name)
  BY <1>6 DEF ActionCalled, ActionsSame, SameAmount
<1>12. SameSteps(d, e, name)
  BY <1>3, <1>6, <1>11, SameStepsAre
<1>13. IsComplete(e)
  <2>1. e.ingredients # <<>> /\ e.instructions # <<>>
    <3>1. ASSUME NEW t, NEW X, t \in Seq(X) PROVE t # <<>> <=> DOMAIN t # {}
      <4>1. Len(t) \in Nat /\ DOMAIN t = 1..Len(t) /\ (t = <<>> <=> Len(t) = 0)
        BY <3>1, LenProperties, EmptySeq
      <4>2. Len(t) # 0 => 1 \in 1..Len(t)
        BY <4>1
      <4> QED BY <4>1, <4>2
    <3>2. d.ingredients # <<>> /\ d.instructions # <<>>
      BY DEF IsComplete
    <3>3. DOMAIN d.ingredients # {} /\ DOMAIN d.instructions # {}
      BY <3>1, <3>2, RowsOf, StepsOf
    <3> QED BY <1>3, <1>5, <1>6, <3>1, <3>3, RowsOf, StepsOf
  <2>2. ASSUME NEW i \in DOMAIN e.ingredients
        PROVE  /\ e.ingredients[i].ingredient \in Ingredients
               /\ IsMeasure(e.ingredients[i].measure, "ingredient_amount")
               /\ \A j \in 1..(i - 1) : e.ingredients[j].key # e.ingredients[i].key
    <3>1. /\ d.ingredients[i].ingredient \in Ingredients
          /\ IsMeasure(d.ingredients[i].measure, "ingredient_amount")
      BY <1>5 DEF IsComplete
    <3>2. ASSUME NEW j \in 1..(i - 1) PROVE e.ingredients[j].key # e.ingredients[i].key
      <4>1. /\ DOMAIN e.ingredients = 1..Len(e.ingredients) /\ Len(e.ingredients) \in Nat
            /\ WellKeyed(e.ingredients)
        BY <1>3, RowsOf
      <4>2. j \in DOMAIN e.ingredients /\ j # i
        BY <4>1
      <4> QED BY <4>1, <4>2 DEF WellKeyed
    <3> QED BY <1>5, <3>1, <3>2
  <2>3. ASSUME NEW s \in DOMAIN e.instructions
        PROVE  /\ e.instructions[s].actions # <<>>
               /\ \A x \in ToSet(e.instructions[s].actions) :
                    /\ x.type # None
                    /\ ToSet(x.inputs) \subseteq Keys(e) /\ IsInjective(x.inputs)
                    /\ x.duration # None => IsMeasure(x.duration, "duration")
                    /\ x.temperature # None => IsMeasure(x.temperature, "temperature")
    <3>1. e.instructions[s].actions # <<>>
      <4>1. d.instructions[s].actions # <<>>
        BY <1>6 DEF IsComplete
      <4>2. d.instructions[s].actions \in Seq(ActionsOver(Nat))
            /\ e.instructions[s].actions \in Seq(ActionsOver(Nat))
        BY <1>3, <1>6, StepsOf DEF WellUsed
      <4>3. ASSUME NEW t, NEW X, t \in Seq(X) PROVE t # <<>> <=> DOMAIN t # {}
        <5>1. Len(t) \in Nat /\ DOMAIN t = 1..Len(t) /\ (t = <<>> <=> Len(t) = 0)
          BY <4>3, LenProperties, EmptySeq
        <5>2. Len(t) # 0 => 1 \in 1..Len(t)
          BY <5>1
        <5> QED BY <5>1, <5>2
      <4> QED BY <1>6, <4>1, <4>2, <4>3
    <3>2. ASSUME NEW a \in DOMAIN e.instructions[s].actions
          PROVE  LET x == e.instructions[s].actions[a] IN
                 /\ x.type # None
                 /\ ToSet(x.inputs) \subseteq Keys(e) /\ IsInjective(x.inputs)
                 /\ x.duration # None => IsMeasure(x.duration, "duration")
                 /\ x.temperature # None => IsMeasure(x.temperature, "temperature")
      <4> DEFINE x == e.instructions[s].actions[a] y == d.instructions[s].actions[a]
      <4>1. x.type = y.type /\ x.duration = y.duration /\ x.temperature = y.temperature
        BY <1>6, <3>2 DEF ActionCalled
      <4>2. y \in ToSet(d.instructions[s].actions)
        BY <1>6, <3>2 DEF ToSet
      <4>3. ToSet(x.inputs) \subseteq Keys(e) /\ IsInjective(x.inputs)
        BY <1>3, StepsOf
      <4> HIDE DEF x, y
      <4>4. /\ y.type # None
            /\ y.duration # None => IsMeasure(y.duration, "duration")
            /\ y.temperature # None => IsMeasure(y.temperature, "temperature")
        BY <1>6, <4>2 DEF IsComplete
      <4> QED BY <4>1, <4>3, <4>4 DEF x
    <3> QED BY <3>1, <3>2 DEF ToSet
  <2> QED BY <2>1, <2>2, <2>3 DEF IsComplete
<1>14. SameStructure(d, e)
  BY <1>3, <1>9, <1>10, <1>12, <1>13, SameStructureIs
<1> QED BY <1>3, <1>13, <1>14 DEF e

\* FingerprintIsCanonical: a complete draft and the version it is of have one fingerprint if and
\* only if they differ in nothing but prose, the order and keys of rows and the units amounts are
\* written in (recipe_fingerprints.py, build_structural_fingerprint).
THEOREM OneFingerprint == Spec => []FingerprintIsCanonical
<1>1. WellFormedInv => FingerprintIsCanonical
  <2> SUFFICES ASSUME WellFormedInv, IsComplete(draft)
               PROVE  /\ \A name \in Bijection(Keys(draft), Keys(draft)) :
                           Fingerprint(Renamed(draft, name)) = Fingerprint(draft)
                      /\ (Fingerprint(draft) = Fingerprint(base)) <=> SameStructure(base, draft)
    BY DEF FingerprintIsCanonical
  <2>1. WellFormed(draft)
    BY DEF WellFormedInv
  <2>2. WellFormed(base) /\ IsComplete(base)
    BY VersionsOf, VersionsAssumption DEF WellFormedInv, TypeOK
  <2>3. ASSUME NEW name \in Bijection(Keys(draft), Keys(draft))
        PROVE  Fingerprint(Renamed(draft, name)) = Fingerprint(draft)
    <3>1. /\ WellFormed(Renamed(draft, name)) /\ IsComplete(Renamed(draft, name))
          /\ SameStructure(draft, Renamed(draft, name))
      BY <2>1, RenamedIsSame
    <3> QED BY <2>1, <3>1, FingerprintsAre
  <2>4. Fingerprint(draft) = Fingerprint(base) <=> SameStructure(base, draft)
    BY <2>1, <2>2, FingerprintsAre
  <2> QED BY <2>3, <2>4
<1> QED BY <1>1, AlwaysWellFormed, PTL

-----------------------------------------------------------------------------
(* Ratios *)

IsRatio(q) == IsFraction(q) /\ q[1] > 0

\* A ratio is a pair of positive numbers and the fraction of the two.
LEMMA RatioIs ==
    ASSUME NEW q, IsRatio(q)
    PROVE  /\ q[1] \in Nat \ {0} /\ q[2] \in Nat \ {0}
           /\ q = <<q[1], q[2]>> /\ q = Fraction(q[1], q[2])
BY DEF IsRatio, IsFraction

\* A fraction is a fraction.
LEMMA FractionIs ==
    ASSUME NEW n \in Int, NEW d \in Nat \ {0}
    PROVE  IsFraction(Fraction(n, d))
<1> DEFINE F == Fraction(n, d) a == F[1] b == F[2]
<1>1. IsReduced(n, d, F)
  BY FractionOf
<1> HIDE DEF F
<1>2. F \in Int \X (Nat \ {0}) /\ a \in Int /\ b \in Nat \ {0}
  BY <1>1 DEF IsReduced
<1>3. PICK g \in Nat \ {0} : n = g * a /\ d = g * b
  BY <1>1 DEF IsReduced
<1> HIDE DEF a, b
<1>4. a * d = n * b
  <2>1. (g * a) * b = a * (g * b)
    BY <1>2
  <2> QED BY <1>3, <2>1
<1>5. Fraction(a, b) = Fraction(n, d)
  BY <1>2, <1>4, FractionsEqual
<1>6. IsFraction(F)
  BY <1>2, <1>5 DEF IsFraction, F, a, b
<1> QED BY <1>6 DEF F

\* The fraction of two positive numbers is a ratio of their value.
LEMMA RatioOf ==
    ASSUME NEW n \in Nat \ {0}, NEW d \in Nat \ {0}
    PROVE  IsRatio(Fraction(n, d)) /\ Fraction(n, d)[1] * d = n * Fraction(n, d)[2]
<1> DEFINE F == Fraction(n, d) a == F[1] b == F[2]
<1>1. IsReduced(n, d, F)
  BY FractionOf
<1> HIDE DEF F
<1>2. a \in Int /\ b \in Nat \ {0} /\ F = <<a, b>>
  BY <1>1 DEF IsReduced
<1>3. PICK g \in Nat \ {0} : n = g * a /\ d = g * b
  BY <1>1 DEF IsReduced
<1> HIDE DEF a, b
<1>4. a > 0
  BY <1>2, <1>3
<1>5. n * b = a * d
  <2>1. (g * a) * b = a * (g * b)
    BY <1>2
  <2> QED BY <1>3, <2>1
<1>6. IsFraction(F)
  BY FractionIs DEF F
<1>7. IsRatio(F)
  BY <1>4, <1>6 DEF IsRatio, a
<1> QED BY <1>2, <1>5, <1>7 DEF F, a, b

\* Positive factors other than zero can be left out.
LEMMA Cancelled ==
    ASSUME NEW k \in Nat \ {0}, NEW p \in Int, NEW q \in Int, k * p = k * q
    PROVE  p = q
OBVIOUS

\* Products and quotients of ratios are ratios, and one undoes the other.
LEMMA ProductOf ==
    ASSUME NEW p, IsRatio(p), NEW q, IsRatio(q), NEW s, IsRatio(s)
    PROVE  /\ IsRatio(Times(p, s)) /\ IsRatio(Over(q, p))
           /\ Times(p, s) = q <=> s = Over(q, p)
           /\ Times(p, s) = q <=> (p[1] * s[1]) * q[2] = q[1] * (p[2] * s[2])
<1> DEFINE a == p[1] b == p[2] c == q[1] d == q[2] e == s[1] f == s[2]
<1>1. /\ a \in Nat \ {0} /\ b \in Nat \ {0} /\ c \in Nat \ {0} /\ d \in Nat \ {0}
      /\ e \in Nat \ {0} /\ f \in Nat \ {0}
  BY RatioIs
<1>2. q = Fraction(c, d) /\ s = Fraction(e, f)
  BY RatioIs
<1>3. Times(p, s) = Fraction(a * e, b * f) /\ Over(q, p) = Fraction(c * b, d * a)
  BY DEF Times, Over
<1> HIDE DEF a, b, c, d, e, f
<1>4. /\ a * e \in Nat \ {0} /\ b * f \in Nat \ {0} /\ c * b \in Nat \ {0}
      /\ d * a \in Nat \ {0}
  BY <1>1
<1>5. IsRatio(Times(p, s)) /\ IsRatio(Over(q, p))
  BY <1>3, <1>4, RatioOf
<1>6. Times(p, s) = q <=> (a * e) * d = c * (b * f)
  BY <1>1, <1>2, <1>3, <1>4, FractionsEqual
<1>7. s = Over(q, p) <=> e * (d * a) = (c * b) * f
  BY <1>1, <1>2, <1>3, <1>4, FractionsEqual
<1>8. e * (d * a) = (a * e) * d /\ (c * b) * f = c * (b * f)
  BY <1>1
<1> QED BY <1>5, <1>6, <1>7, <1>8 DEF a, b, c, d, e, f

\* One is a ratio that changes none.
LEMMA OneIs ==
    /\ IsRatio(One) /\ One[1] = 1 /\ One[2] = 1
    /\ \A p : IsRatio(p) => Times(p, One) = p
<1>1. One[1] = 1 /\ One[2] = 1 /\ One \in Int \X (Nat \ {0})
  BY DEF One
<1>2. IsRatio(One)
  <2> DEFINE F == Fraction(1, 1)
  <2>1. IsReduced(1, 1, F)
    BY FractionOf
  <2> HIDE DEF F
  <2>2. PICK g \in Nat \ {0} : 1 = g * F[1] /\ 1 = g * F[2]
    BY <2>1 DEF IsReduced
  <2>3. F[1] \in Int /\ F[2] \in Nat \ {0} /\ F = <<F[1], F[2]>>
    BY <2>1 DEF IsReduced
  <2>4. F[1] = 1 /\ F[2] = 1
    <3> DEFINE a == F[1] b == F[2]
    <3>1. a \in Int /\ b \in Int /\ 1 = g * a /\ 1 = g * b
      BY <2>2, <2>3
    <3> HIDE DEF a, b
    <3>2. a = 1 /\ b = 1
      BY <3>1
    <3> QED BY <3>2 DEF a, b
  <2>5. F = One
    BY <2>3, <2>4 DEF One
  <2> QED BY <1>1, <2>5 DEF IsRatio, IsFraction, F
<1>3. ASSUME NEW p, IsRatio(p) PROVE Times(p, One) = p
  <2>1. p[1] \in Nat \ {0} /\ p[2] \in Nat \ {0}
    BY <1>3, RatioIs
  <2>2. (p[1] * 1) * p[2] = p[1] * (p[2] * 1)
    BY <2>1
  <2> QED BY <1>1, <1>2, <1>3, <2>2, ProductOf
<1> QED BY <1>1, <1>2, <1>3

\* A scale is undone by its inverse.
LEMMA ScaleUndone ==
    ASSUME NEW p, IsRatio(p), NEW s, IsRatio(s)
    PROVE  /\ IsRatio(Over(One, s))
           /\ Times(Times(p, s), Over(One, s)) = p
<1> DEFINE t == Times(p, s) u == Over(One, s)
           a == p[1] b == p[2] c == s[1] d == s[2] e == t[1] f == t[2] g == u[1] h == u[2]
<1>1. IsRatio(t) /\ IsRatio(u) /\ IsRatio(One)
  BY OneIs, ProductOf
<1>2. (a * c) * f = e * (b * d)
  BY <1>1, ProductOf
<1>3. (c * g) * One[2] = One[1] * (d * h)
  BY <1>1, ProductOf
<1>4. /\ a \in Nat \ {0} /\ b \in Nat \ {0} /\ c \in Nat \ {0} /\ d \in Nat \ {0}
      /\ e \in Nat \ {0} /\ f \in Nat \ {0} /\ g \in Nat \ {0} /\ h \in Nat \ {0}
  BY <1>1, RatioIs
<1>5. Times(t, u) = p <=> (e * g) * b = a * (f * h)
  <2> HIDE DEF t, u
  <2> QED BY <1>1, ProductOf
<1> HIDE DEF a, b, c, d, e, f, g, h
<1>6. c * g = d * h
  BY <1>3, <1>4, OneIs
<1>7. (e * g) * b = a * (f * h)
  <2>1. (c * d) * ((e * g) * b) = (e * (b * d)) * (c * g)
    BY <1>4
  <2>2. (c * d) * (a * (f * h)) = ((a * c) * f) * (d * h)
    BY <1>4
  <2> DEFINE x == (e * g) * b y == a * (f * h) k == c * d
  <2>3. k \in Nat \ {0} /\ x \in Int /\ y \in Int
    BY <1>4
  <2>4. k * x = k * y
    BY <1>2, <1>6, <2>1, <2>2
  <2> HIDE DEF x, y, k
  <2>5. x = y
    BY <2>3, <2>4, Cancelled
  <2> QED BY <2>5 DEF x, y
<1> QED BY <1>1, <1>5, <1>7

\* Products with a positive factor are ordered as the other factors.
LEMMA ProductsOrdered ==
    ASSUME NEW k \in Nat \ {0}, NEW p \in Int, NEW q \in Int
    PROVE  k * p < k * q <=> p < q
OBVIOUS

\* The order of ratios.
LEMMA BelowOrders ==
    ASSUME NEW p, IsRatio(p)
    PROVE  /\ ~Below(p, p)
           /\ \A q, r : IsRatio(q) /\ IsRatio(r) /\ Below(p, q) /\ Below(q, r) => Below(p, r)
<1>1. p[1] \in Nat \ {0} /\ p[2] \in Nat \ {0}
  BY RatioIs
<1>2. ~Below(p, p)
  BY <1>1 DEF Below
<1>3. ASSUME NEW q, NEW r, IsRatio(q), IsRatio(r), Below(p, q), Below(q, r) PROVE Below(p, r)
  <2> DEFINE a == p[1] b == p[2] c == q[1] d == q[2] e == r[1] f == r[2]
  <2>1. /\ a \in Nat \ {0} /\ b \in Nat \ {0} /\ c \in Nat \ {0} /\ d \in Nat \ {0}
        /\ e \in Nat \ {0} /\ f \in Nat \ {0}
    BY <1>3, RatioIs
  <2>2. a * d < c * b /\ c * f < e * d
    BY <1>3 DEF Below
  <2> HIDE DEF a, b, c, d, e, f
  <2>3. f * (a * d) < f * (c * b)
    BY <2>1, <2>2, ProductsOrdered
  <2>4. b * (c * f) < b * (e * d)
    BY <2>1, <2>2, ProductsOrdered
  <2>5. d * (a * f) < d * (e * b)
    <3>1. d * (a * f) = f * (a * d) /\ f * (c * b) = b * (c * f) /\ b * (e * d) = d * (e * b)
      BY <2>1
    <3>2. f * (a * d) \in Int /\ b * (c * f) \in Int /\ d * (e * b) \in Int
      BY <2>1
    <3> QED BY <2>3, <2>4, <3>1, <3>2
  <2>6. a * f < e * b
    BY <2>1, <2>5, ProductsOrdered
  <2> QED BY <2>6 DEF Below, a, b, c, d, e, f
<1> QED BY <1>2, <1>3

\* Of finitely many ratios one is the least.
LEMMA LeastRatio ==
    ASSUME NEW S, IsFiniteSet(S), S # {}, \A s \in S : IsRatio(s)
    PROVE  \E s \in S : \A t \in S : ~Below(t, s)
<1> DEFINE Under(s) == {t \in S : Below(t, s)}
           f == [s \in S |-> Cardinality(Under(s))]
<1>1. \A s \in S : IsFiniteSet(Under(s)) /\ Cardinality(Under(s)) \in Nat
  <2> TAKE s \in S
  <2>1. IsFiniteSet(Under(s))
    BY FS_Subset
  <2> QED BY <2>1, FS_CardinalityType
<1>2. f \in [S -> Nat]
  BY <1>1
<1>3. PICK s \in Leasts(S, f) : TRUE
  BY <1>2, LeastValue
<1>4. s \in S /\ \A t \in S : Cardinality(Under(s)) <= Cardinality(Under(t))
  BY <1>3 DEF Leasts
<1>5. ASSUME NEW t \in S, Below(t, s) PROVE FALSE
  <2>1. Under(t) \subseteq Under(s)
    BY <1>4, <1>5, BelowOrders
  <2>2. t \in Under(s) /\ t \notin Under(t)
    BY <1>5, BelowOrders
  <2> HIDE DEF Under
  <2>3. Cardinality(Under(t)) <= Cardinality(Under(s)) /\ Cardinality(Under(t)) # Cardinality(Under(s))
    BY <1>1, <1>4, <2>1, <2>2, FS_Subset
  <2>4. Cardinality(Under(s)) <= Cardinality(Under(t))
    BY <1>4
  <2> QED BY <1>1, <1>4, <2>3, <2>4
<1> QED BY <1>4, <1>5

-----------------------------------------------------------------------------
(* Counted elements *)

Counted(B) == IsFiniteSet(DOMAIN B) /\ B \in [DOMAIN B -> Nat \ {0}]

\* The copies of an element are numbered up to their number.
LEMMA CopiesAre ==
    ASSUME NEW B, NEW o
    PROVE  /\ o \in Copies(B) <=> \E x \in DOMAIN B : \E n \in 1..B[x] : o = <<x, n>>
           /\ o \in Copies(B) => o[1] \in DOMAIN B /\ o[2] \in 1..B[o[1]] /\ o = <<o[1], o[2]>>
           /\ \A x, n : <<x, n>> \in Copies(B) <=> x \in DOMAIN B /\ n \in 1..B[x]
<1>1. \A z : z \in Copies(B) <=> \E x \in DOMAIN B : z \in {x} \X (1..B[x])
  BY DEF Copies
<1>2. \A z, x : z \in {x} \X (1..B[x]) <=> \E n \in 1..B[x] : z = <<x, n>>
  OBVIOUS
<1>3. \A z : z \in Copies(B) <=> \E x \in DOMAIN B : \E n \in 1..B[x] : z = <<x, n>>
  BY <1>1, <1>2
<1>4. ASSUME NEW x, NEW n PROVE <<x, n>> \in Copies(B) <=> x \in DOMAIN B /\ n \in 1..B[x]
  <2>1. \A y, m : <<x, n>> = <<y, m>> <=> x = y /\ n = m
    OBVIOUS
  <2> QED BY <1>3, <2>1
<1>5. ASSUME o \in Copies(B)
      PROVE  o[1] \in DOMAIN B /\ o[2] \in 1..B[o[1]] /\ o = <<o[1], o[2]>>
  <2>1. PICK x, n : x \in DOMAIN B /\ n \in 1..B[x] /\ o = <<x, n>>
    BY <1>3, <1>5
  <2> QED BY <2>1
<1> QED BY <1>3, <1>4, <1>5

\* What is counted has finitely many copies.
LEMMA CopiesFinite ==
    ASSUME NEW B, Counted(B)
    PROVE  IsFiniteSet(Copies(B)) /\ Cardinality(Copies(B)) \in Nat
<1> DEFINE f == [x \in DOMAIN B |-> {x} \X (1..B[x])]
           R == {{x} \X (1..B[x]) : x \in DOMAIN B}
<1>1. f \in Surjection(DOMAIN B, R)
  BY DEF Surjection
<1>2. IsFiniteSet(R)
  <2> HIDE DEF f, R
  <2> QED BY <1>1, FS_Surjection DEF Counted
<1>3. \A T \in R : IsFiniteSet(T)
  <2> SUFFICES ASSUME NEW x \in DOMAIN B PROVE IsFiniteSet({x} \X (1..B[x]))
    OBVIOUS
  <2>1. B[x] \in Int /\ 1 \in Int
    BY DEF Counted
  <2>2. IsFiniteSet(1..B[x])
    BY <2>1, FS_Interval
  <2>3. IsFiniteSet({x})
    BY FS_Singleton
  <2> QED BY <2>2, <2>3, FS_Product
<1>4. IsFiniteSet(UNION R)
  <2> HIDE DEF R
  <2> QED BY <1>2, <1>3, FS_UNION
<1>5. IsFiniteSet(Copies(B))
  BY <1>4 DEF Copies
<1> QED BY <1>5, FS_CardinalityType

\* With the same copies the same is counted.
LEMMA CopiesEqual ==
    ASSUME NEW B, NEW C, Counted(B), Counted(C), Copies(B) = Copies(C)
    PROVE  B = C
<1>1. ASSUME NEW D, NEW E, Counted(D), Counted(E), Copies(D) = Copies(E), NEW x \in DOMAIN D
      PROVE  x \in DOMAIN E /\ D[x] <= E[x] /\ D[x] \in Nat /\ E[x] \in Nat
  <2>1. D[x] \in Nat \ {0}
    BY <1>1 DEF Counted
  <2>2. D[x] \in 1..D[x]
    BY <2>1
  <2>3. <<x, D[x]>> \in Copies(D)
    BY <2>2, CopiesAre
  <2>4. x \in DOMAIN E /\ D[x] \in 1..E[x]
    BY <1>1, <2>3, CopiesAre
  <2>5. E[x] \in Nat \ {0}
    BY <1>1, <2>4 DEF Counted
  <2> QED BY <2>1, <2>4, <2>5
<1>2. DOMAIN B = DOMAIN C
  BY <1>1
<1>3. \A x \in DOMAIN B : B[x] = C[x]
  <2> TAKE x \in DOMAIN B
  <2>1. B[x] <= C[x] /\ C[x] <= B[x] /\ B[x] \in Nat /\ C[x] \in Nat
    BY <1>1, <1>2
  <2> QED BY <2>1
<1> QED BY <1>2, <1>3 DEF Counted

\* Where a family has a value.
ClassOf(F, x) == {o \in DOMAIN F : F[o] = x}

\* A family's values are counted one by one.
LEMMA CounterOf ==
    ASSUME NEW F, IsFiniteSet(DOMAIN F)
    PROVE  /\ Counted(Counter(F))
           /\ \A x : x \in DOMAIN Counter(F) <=> \E o \in DOMAIN F : F[o] = x
           /\ \A x \in DOMAIN Counter(F) : Counter(F)[x] = Cardinality(ClassOf(F, x))
<1>1. /\ DOMAIN Counter(F) = {F[o] : o \in DOMAIN F}
      /\ Counter(F) = [x \in DOMAIN Counter(F) |-> Counter(F)[x]]
      /\ \A x \in DOMAIN Counter(F) : Counter(F)[x] = Cardinality(ClassOf(F, x))
  BY DEF Counter, Range, ClassOf
<1>2. IsFiniteSet(DOMAIN Counter(F))
  <2> DEFINE R == {F[o] : o \in DOMAIN F} f == [o \in DOMAIN F |-> F[o]]
  <2>1. f \in Surjection(DOMAIN F, R)
    BY DEF Surjection
  <2> HIDE DEF f, R
  <2>2. IsFiniteSet(R)
    BY <2>1, FS_Surjection
  <2> QED BY <1>1, <2>2 DEF R
<1>3. ASSUME NEW x \in DOMAIN Counter(F) PROVE Counter(F)[x] \in Nat \ {0}
  <2>1. IsFiniteSet(ClassOf(F, x))
    BY FS_Subset DEF ClassOf
  <2>2. ClassOf(F, x) # {}
    BY <1>1 DEF ClassOf
  <2>3. Cardinality(ClassOf(F, x)) \in Nat /\ Cardinality(ClassOf(F, x)) # 0
    BY <2>1, <2>2, FS_CardinalityType, FS_EmptySet
  <2> QED BY <1>1, <2>3
<1>4. Counter(F) \in [DOMAIN Counter(F) -> Nat \ {0}]
  BY <1>1, <1>3
<1> QED BY <1>1, <1>2, <1>4 DEF Counted

\* All of a family are counted, each once.
LEMMA CounterCovers ==
    ASSUME NEW F, IsFiniteSet(DOMAIN F)
    PROVE  Cardinality(Copies(Counter(F))) = Cardinality(DOMAIN F)
<1> DEFINE C == Counter(F)
           b(x) == CHOOSE p : p \in Bijection(1..Cardinality(ClassOf(F, x)), ClassOf(F, x))
           h == [z \in Copies(C) |-> b(z[1])[z[2]]]
<1>1. ASSUME NEW x
      PROVE  /\ \A n \in 1..Cardinality(ClassOf(F, x)) : b(x)[n] \in ClassOf(F, x)
             /\ \A m, n \in 1..Cardinality(ClassOf(F, x)) : b(x)[m] = b(x)[n] => m = n
             /\ \A o \in ClassOf(F, x) : \E n \in 1..Cardinality(ClassOf(F, x)) : b(x)[n] = o
  <2>1. IsFiniteSet(ClassOf(F, x))
    BY FS_Subset DEF ClassOf
  <2>2. ExistsBijection(1..Cardinality(ClassOf(F, x)), ClassOf(F, x))
    BY <2>1, FS_CardinalityType
  <2>3. b(x) \in Bijection(1..Cardinality(ClassOf(F, x)), ClassOf(F, x))
    BY <2>2 DEF ExistsBijection
  <2> HIDE DEF b
  <2> QED BY <2>3 DEF Bijection, Injection, Surjection, IsInjective
<1> HIDE DEF b
<1>2. /\ \A x : x \in DOMAIN C <=> \E o \in DOMAIN F : F[o] = x
      /\ \A x \in DOMAIN C : C[x] = Cardinality(ClassOf(F, x))
      /\ Counted(C)
  BY CounterOf
<1> HIDE DEF C
<1>3. \A z \in Copies(C) : /\ z[1] \in DOMAIN C /\ z = <<z[1], z[2]>>
                           /\ z[2] \in 1..Cardinality(ClassOf(F, z[1]))
  BY <1>2, CopiesAre
<1>4. \A z \in Copies(C) : h[z] = b(z[1])[z[2]] /\ h[z] \in DOMAIN F /\ F[h[z]] = z[1]
  <2> TAKE z \in Copies(C)
  <2>1. h[z] = b(z[1])[z[2]]
    OBVIOUS
  <2>2. b(z[1])[z[2]] \in ClassOf(F, z[1])
    BY <1>1, <1>3
  <2> QED BY <2>1, <2>2 DEF ClassOf
<1>5. h = [z \in Copies(C) |-> h[z]] /\ DOMAIN h = Copies(C)
  OBVIOUS
<1> HIDE DEF h
<1>6. h \in [Copies(C) -> DOMAIN F]
  BY <1>4, <1>5
<1>7. ASSUME NEW y \in Copies(C), NEW z \in Copies(C), h[y] = h[z] PROVE y = z
  <2>1. y[1] = z[1]
    BY <1>4, <1>7
  <2>2. y[2] = z[2]
    BY <1>1, <1>3, <1>4, <1>7, <2>1
  <2> QED BY <1>3, <2>1, <2>2
<1>8. ASSUME NEW o \in DOMAIN F PROVE \E z \in Copies(C) : h[z] = o
  <2> DEFINE x == F[o]
  <2>1. o \in ClassOf(F, x)
    BY DEF ClassOf
  <2>2. PICK n \in 1..Cardinality(ClassOf(F, x)) : b(x)[n] = o
    BY <1>1, <2>1
  <2>3. x \in DOMAIN C /\ n \in 1..C[x]
    BY <1>2, <2>2
  <2>4. <<x, n>> \in Copies(C)
    BY <2>3, CopiesAre
  <2>5. <<x, n>>[1] = x /\ <<x, n>>[2] = n
    OBVIOUS
  <2>6. h[<<x, n>>] = o
    BY <1>4, <2>2, <2>4, <2>5
  <2> QED BY <2>4, <2>6
<1>9. h \in Bijection(Copies(C), DOMAIN F)
  BY <1>6, <1>7, <1>8, <1>5 DEF Bijection, Injection, Surjection, IsInjective
<1>10. IsFiniteSet(Copies(C))
  BY <1>2, CopiesFinite
<1>11. Cardinality(DOMAIN F) = Cardinality(Copies(C))
  BY <1>9, <1>10, FS_Bijection DEF ExistsBijection
<1> QED BY <1>11 DEF C

\* Two that are counted share no more than either has, all of it only if they are the same.
LEMMA SharedOf ==
    ASSUME NEW B, NEW C, Counted(B), Counted(C)
    PROVE  /\ Shared(B, C) \in Nat /\ Shared(B, C) = Shared(C, B)
           /\ Shared(B, C) <= Cardinality(Copies(B)) /\ Shared(B, C) <= Cardinality(Copies(C))
           /\ Shared(B, C) = Cardinality(Copies(B)) /\ Shared(B, C) = Cardinality(Copies(C)) => B = C
           /\ Shared(B, B) = Cardinality(Copies(B))
<1> DEFINE X == Copies(B) Y == Copies(C)
<1>1. IsFiniteSet(X) /\ IsFiniteSet(Y) /\ Cardinality(X) \in Nat /\ Cardinality(Y) \in Nat
  BY CopiesFinite
<1>2. X = Y => B = C
  BY CopiesEqual
<1>3. Shared(B, C) = Cardinality(X \cap Y) /\ Shared(C, B) = Cardinality(Y \cap X)
  BY DEF Shared
<1>4. Shared(B, B) = Cardinality(X)
  <2>1. X \cap X = X
    OBVIOUS
  <2> QED BY <2>1 DEF Shared
<1> HIDE DEF X, Y
<1>5. /\ IsFiniteSet(X \cap Y) /\ Cardinality(X \cap Y) <= Cardinality(X)
      /\ Cardinality(X \cap Y) = Cardinality(X) => X = X \cap Y
  <2>1. X \cap Y \in SUBSET X
    OBVIOUS
  <2> QED BY <1>1, <2>1, FS_Subset
<1>6. /\ Cardinality(X \cap Y) <= Cardinality(Y)
      /\ Cardinality(X \cap Y) = Cardinality(Y) => Y = X \cap Y
  <2>1. X \cap Y \in SUBSET Y
    OBVIOUS
  <2> QED BY <1>1, <2>1, FS_Subset
<1>7. Cardinality(X \cap Y) \in Nat
  BY <1>5, FS_CardinalityType
<1>8. X \cap Y = Y \cap X
  OBVIOUS
<1> QED BY <1>2, <1>3, <1>4, <1>5, <1>6, <1>7, <1>8 DEF X, Y

-----------------------------------------------------------------------------
(* Cores and their scales *)

Ratios == {q \in Int \X Nat : IsRatio(q)}

IsAmount(m) ==
    /\ m = [mode |-> m.mode, values |-> m.values, unit |-> m.unit, package |-> m.package]
    /\ m.values \in Seq(Ratios)
    /\ DOMAIN m.values \in {{}, 1..(IF m.mode = "exact" THEN 1 ELSE 2)}

IsCore(c) == c = [ingredient |-> c.ingredient, measure |-> c.measure] /\ IsAmount(c.measure)

\* The core e is c with its amounts multiplied.
ScaledAs(c, s, e) ==
    /\ e.ingredient = c.ingredient /\ e.measure.mode = c.measure.mode
    /\ e.measure.unit = c.measure.unit /\ e.measure.package = c.measure.package
    /\ DOMAIN e.measure.values = DOMAIN c.measure.values
    /\ \A v \in DOMAIN c.measure.values : e.measure.values[v] = Times(c.measure.values[v], s)

\* A core's amounts are ratios.
LEMMA AmountsOf ==
    ASSUME NEW c, IsCore(c)
    PROVE  /\ \A v \in DOMAIN c.measure.values : IsRatio(c.measure.values[v])
           /\ c.measure.values = <<>> <=> DOMAIN c.measure.values = {}
           /\ c.measure.values # <<>> => 1 \in DOMAIN c.measure.values
<1> DEFINE w == c.measure.values
<1>1. w \in Seq(Ratios)
  BY DEF IsCore, IsAmount
<1> HIDE DEF w
<1>2. Len(w) \in Nat /\ DOMAIN w = 1..Len(w) /\ (w = <<>> <=> Len(w) = 0)
  BY <1>1, LenProperties, EmptySeq
<1>3. \A v \in DOMAIN w : w[v] \in Ratios
  BY <1>1, <1>2, ElementOfSeq
<1>4. Len(w) # 0 => 1 \in 1..Len(w)
  BY <1>2
<1>5. Len(w) = 0 <=> DOMAIN w = {}
  BY <1>2, <1>4
<1> QED BY <1>2, <1>3, <1>4, <1>5 DEF Ratios, w

\* Scaling multiplies a core's amounts and leaves the rest of it alone.
LEMMA ScaledIs ==
    ASSUME NEW c, IsCore(c), NEW s, IsRatio(s)
    PROVE  IsCore(Scaled(c, s)) /\ ScaledAs(c, s, Scaled(c, s))
<1> DEFINE m == c.measure w == [v \in DOMAIN m.values |-> Times(m.values[v], s)]
           r == [mode |-> m.mode, values |-> w, unit |-> m.unit, package |-> m.package]
           e == [ingredient |-> c.ingredient, measure |-> r]
<1>1. /\ c = [ingredient |-> c.ingredient, measure |-> m]
      /\ m = [mode |-> m.mode, values |-> m.values, unit |-> m.unit, package |-> m.package]
      /\ m.values \in Seq(Ratios)
      /\ DOMAIN m.values \in {{}, 1..(IF m.mode = "exact" THEN 1 ELSE 2)}
  BY DEF IsCore, IsAmount
<1>2. Scaled(c, s) = e
  <2>1. Scaled(c, s) = [c EXCEPT !.measure = [m EXCEPT !.values = w]]
    BY <1>1 DEF Scaled
  <2> HIDE DEF w
  <2>2. [m EXCEPT !.values = w] = r
    <3> HIDE DEF m
    <3> QED BY <1>1
  <2> HIDE DEF r
  <2>3. [c EXCEPT !.measure = r] = e
    <3> HIDE DEF m
    <3> QED BY <1>1
  <2> QED BY <2>1, <2>2, <2>3
<1>3. /\ Len(m.values) \in Nat /\ DOMAIN m.values = 1..Len(m.values)
      /\ \A v \in DOMAIN m.values : IsRatio(m.values[v])
  BY <1>1, LenProperties, AmountsOf
<1>4. w \in Seq(Ratios)
  <2>1. \A v \in DOMAIN m.values : Times(m.values[v], s) \in Ratios
    <3> TAKE v \in DOMAIN m.values
    <3> DEFINE p == m.values[v] t == Times(p, s)
    <3>1. IsRatio(p)
      BY <1>3
    <3> HIDE DEF p
    <3>2. IsRatio(t)
      BY <3>1, ProductOf
    <3> HIDE DEF t
    <3>3. t[1] \in Int /\ t[2] \in Nat /\ t = <<t[1], t[2]>>
      BY <3>2, RatioIs
    <3>4. t \in Ratios
      BY <3>2, <3>3 DEF Ratios
    <3> QED BY <3>4 DEF t, p
  <2> DEFINE n == Len(m.values)
  <2>2. w \in [1..n -> Ratios] /\ n \in Nat
    BY <1>3, <2>1
  <2> HIDE DEF w, n
  <2> QED BY <2>2, SeqDef
<1>5. /\ e.ingredient = c.ingredient /\ e.measure = r
      /\ r.mode = m.mode /\ r.values = w /\ r.unit = m.unit /\ r.package = m.package
      /\ DOMAIN w = DOMAIN m.values /\ \A v \in DOMAIN m.values : w[v] = Times(m.values[v], s)
  OBVIOUS
<1>6. IsCore(e)
  <2>1. e = [ingredient |-> e.ingredient, measure |-> e.measure]
    OBVIOUS
  <2>2. r = [mode |-> r.mode, values |-> r.values, unit |-> r.unit, package |-> r.package]
    OBVIOUS
  <2> HIDE DEF e, r, w
  <2>3. IsAmount(r)
    BY <1>1, <1>4, <1>5, <2>2 DEF IsAmount
  <2> QED BY <1>5, <2>1, <2>3 DEF IsCore
<1>7. ScaledAs(c, s, e)
  <2> HIDE DEF e, r, w
  <2> QED BY <1>5 DEF ScaledAs
<1> QED BY <1>2, <1>6, <1>7

\* Cores are the same if their fields are.
LEMMA CoresSame ==
    ASSUME NEW c, NEW e, IsCore(c), IsCore(e),
           e.ingredient = c.ingredient, e.measure.mode = c.measure.mode,
           e.measure.unit = c.measure.unit, e.measure.package = c.measure.package,
           DOMAIN e.measure.values = DOMAIN c.measure.values,
           \A v \in DOMAIN c.measure.values : e.measure.values[v] = c.measure.values[v]
    PROVE  e = c
<1> DEFINE m == c.measure n == e.measure
<1>1. m.values \in Seq(Ratios) /\ n.values \in Seq(Ratios)
  BY DEF IsCore, IsAmount
<1>2. /\ Len(m.values) \in Nat /\ DOMAIN m.values = 1..Len(m.values)
      /\ Len(n.values) \in Nat /\ DOMAIN n.values = 1..Len(n.values)
  BY <1>1, LenProperties
<1>3. /\ m.values = [v \in DOMAIN m.values |-> m.values[v]]
      /\ n.values = [v \in DOMAIN n.values |-> n.values[v]]
  <2> DEFINE v == m.values w == n.values
  <2>1. v \in Seq(Ratios) /\ w \in Seq(Ratios)
    BY <1>1
  <2> HIDE DEF v, w
  <2>2. v \in [1..Len(v) -> Ratios] /\ w \in [1..Len(w) -> Ratios]
    BY <2>1, LenProperties
  <2>3. v = [i \in DOMAIN v |-> v[i]] /\ w = [i \in DOMAIN w |-> w[i]]
    BY <2>2
  <2> QED BY <2>3 DEF v, w
<1>4. n.values = m.values
  <2>1. DOMAIN n.values = DOMAIN m.values /\ \A v \in DOMAIN m.values : n.values[v] = m.values[v]
    OBVIOUS
  <2> HIDE DEF m, n
  <2> QED BY <1>3, <2>1
<1>5. n = m
  <2>1. /\ m = [mode |-> m.mode, values |-> m.values, unit |-> m.unit, package |-> m.package]
        /\ n = [mode |-> n.mode, values |-> n.values, unit |-> n.unit, package |-> n.package]
    BY DEF IsCore, IsAmount
  <2> QED BY <1>4, <2>1
<1> QED BY <1>5 DEF IsCore

\* Scaling by one changes nothing, is undone by the inverse, and is the same for no two cores;
\* a core without amounts it leaves alone.
LEMMA ScalesOf ==
    ASSUME NEW c, IsCore(c), NEW s, IsRatio(s)
    PROVE  /\ Scaled(c, One) = c
           /\ Scaled(Scaled(c, s), Over(One, s)) = c
           /\ \A e : IsCore(e) /\ Scaled(e, s) = Scaled(c, s) => e = c
           /\ Scaled(c, s).measure.values = <<>> <=> c.measure.values = <<>>
           /\ c.measure.values = <<>> => Scaled(c, s) = c
<1>1. IsRatio(One) /\ \A p : IsRatio(p) => Times(p, One) = p
  BY OneIs
<1>2. \A v \in DOMAIN c.measure.values : IsRatio(c.measure.values[v])
  BY AmountsOf
<1>3. Scaled(c, One) = c
  <2>1. IsCore(Scaled(c, One)) /\ ScaledAs(c, One, Scaled(c, One))
    BY <1>1, ScaledIs
  <2> QED BY <1>1, <1>2, <2>1, CoresSame DEF ScaledAs
<1> DEFINE u == Over(One, s)
<1>4. IsRatio(u) /\ \A p : IsRatio(p) => Times(Times(p, s), u) = p
  BY ScaleUndone
<1> HIDE DEF u
<1>5. ASSUME NEW e, IsCore(e) PROVE Scaled(Scaled(e, s), u) = e
  <2> DEFINE x == Scaled(e, s) y == Scaled(x, u)
  <2>1. IsCore(x) /\ ScaledAs(e, s, x)
    BY <1>5, ScaledIs
  <2> HIDE DEF x
  <2>2. IsCore(y) /\ ScaledAs(x, u, y)
    BY <1>4, <2>1, ScaledIs
  <2> HIDE DEF y
  <2>3. \A v \in DOMAIN e.measure.values : IsRatio(e.measure.values[v])
    BY <1>5, AmountsOf
  <2>4. DOMAIN y.measure.values = DOMAIN e.measure.values
        /\ \A v \in DOMAIN e.measure.values : y.measure.values[v] = e.measure.values[v]
    BY <1>4, <2>1, <2>2, <2>3 DEF ScaledAs
  <2>5. /\ y.ingredient = e.ingredient /\ y.measure.mode = e.measure.mode
        /\ y.measure.unit = e.measure.unit /\ y.measure.package = e.measure.package
    BY <2>1, <2>2 DEF ScaledAs
  <2>6. y = e
    BY <1>5, <2>2, <2>4, <2>5, CoresSame
  <2> QED BY <2>6 DEF x, y
<1>6. IsCore(Scaled(c, s)) /\ ScaledAs(c, s, Scaled(c, s))
  BY ScaledIs
<1>7. Scaled(c, s).measure.values = <<>> <=> c.measure.values = <<>>
  BY <1>6, AmountsOf DEF ScaledAs
<1>8. ASSUME c.measure.values = <<>> PROVE Scaled(c, s) = c
  <2>1. DOMAIN c.measure.values = {}
    BY <1>8, AmountsOf
  <2> QED BY <1>6, <2>1, CoresSame DEF ScaledAs
<1>9. ASSUME NEW e, IsCore(e), Scaled(e, s) = Scaled(c, s) PROVE e = c
  <2>1. Scaled(Scaled(e, s), u) = e /\ Scaled(Scaled(c, s), u) = c
    BY <1>5, <1>9
  <2> QED BY <1>9, <2>1
<1> QED BY <1>3, <1>5, <1>7, <1>8, <1>9 DEF u

-----------------------------------------------------------------------------
(* Quantities *)

IsCounted(f) == Counted(f.ingredients) /\ \A c \in DOMAIN f.ingredients : IsCore(c)

\* Scaled cores are as many as the cores they were.
LEMMA ScaledCoresOf ==
    ASSUME NEW f, IsCounted(f), NEW s, IsRatio(s)
    PROVE  /\ Counted(ScaledCores(f, s))
           /\ \A y : y \in DOMAIN ScaledCores(f, s) <=> \E c \in DOMAIN f.ingredients : y = Scaled(c, s)
           /\ \A c \in DOMAIN f.ingredients : ScaledCores(f, s)[Scaled(c, s)] = f.ingredients[c]
           /\ Cardinality(Copies(ScaledCores(f, s))) = Cardinality(Occurrences(f))
<1> DEFINE B == f.ingredients F == [o \in Occurrences(f) |-> Scaled(o[1], s)]
<1>1. Counted(B) /\ \A c \in DOMAIN B : IsCore(c)
  BY DEF IsCounted
<1>2. ScaledCores(f, s) = Counter(F) /\ Occurrences(f) = Copies(B)
  BY DEF ScaledCores, Occurrences
<1>3. DOMAIN F = Copies(B) /\ \A o \in Copies(B) : F[o] = Scaled(o[1], s)
  BY <1>2
<1> HIDE DEF B, F
<1>4. IsFiniteSet(DOMAIN F)
  BY <1>1, <1>3, CopiesFinite
<1>5. /\ Counted(Counter(F))
      /\ \A x : x \in DOMAIN Counter(F) <=> \E o \in DOMAIN F : F[o] = x
      /\ \A x \in DOMAIN Counter(F) : Counter(F)[x] = Cardinality(ClassOf(F, x))
  BY <1>4, CounterOf
<1>6. Cardinality(Copies(Counter(F))) = Cardinality(DOMAIN F)
  BY <1>4, CounterCovers
<1>7. ASSUME NEW c \in DOMAIN B
      PROVE  /\ 1 \in 1..B[c] /\ <<c, 1>> \in Copies(B) /\ F[<<c, 1>>] = Scaled(c, s)
             /\ B[c] \in Nat \ {0}
  <2>1. B[c] \in Nat \ {0}
    BY <1>1 DEF Counted
  <2>2. 1 \in 1..B[c]
    BY <2>1
  <2>3. <<c, 1>> \in Copies(B)
    BY <2>2, CopiesAre
  <2>4. <<c, 1>>[1] = c
    OBVIOUS
  <2> QED BY <1>3, <2>1, <2>2, <2>3, <2>4
<1>8. ASSUME NEW y PROVE y \in DOMAIN Counter(F) <=> \E c \in DOMAIN B : y = Scaled(c, s)
  <2>1. ASSUME NEW o \in DOMAIN F, F[o] = y PROVE \E c \in DOMAIN B : y = Scaled(c, s)
    <3>1. o[1] \in DOMAIN B
      BY <1>3, <2>1, CopiesAre
    <3> QED BY <1>3, <2>1, <3>1
  <2>2. ASSUME NEW c \in DOMAIN B, y = Scaled(c, s) PROVE \E o \in DOMAIN F : F[o] = y
    BY <1>3, <1>7, <2>2
  <2> QED BY <1>5, <2>1, <2>2
<1>9. ASSUME NEW c \in DOMAIN B PROVE Counter(F)[Scaled(c, s)] = B[c]
  <2>1. \A o \in Copies(B) : /\ o[1] \in DOMAIN B /\ o[2] \in 1..B[o[1]] /\ o = <<o[1], o[2]>>
                             /\ IsCore(o[1])
    BY <1>1, CopiesAre
  <2>2. \A e : IsCore(e) /\ Scaled(e, s) = Scaled(c, s) => e = c
    BY <1>1, ScalesOf
  <2>3. \A o : o \in ClassOf(F, Scaled(c, s)) <=> o \in Copies(B) /\ o[1] = c
    BY <1>3, <2>1, <2>2 DEF ClassOf
  <2>4. \A o : o \in Copies(B) /\ o[1] = c <=> o \in {c} \X (1..B[c])
    <3>1. \A n \in 1..B[c] : <<c, n>> \in Copies(B)
      BY CopiesAre
    <3> QED BY <2>1, <3>1
  <2>5. ClassOf(F, Scaled(c, s)) = {c} \X (1..B[c])
    BY <2>3, <2>4
  <2>6. IsFiniteSet({c}) /\ Cardinality({c}) = 1
    BY FS_Singleton
  <2> DEFINE n == B[c]
  <2>7. n \in Nat \ {0}
    BY <1>7
  <2> HIDE DEF n
  <2>8. IsFiniteSet(1..n) /\ Cardinality(1..n) = n
    <3>1. n \in Int /\ 1 \in Int /\ n - 1 + 1 = n /\ ~(1 > n)
      BY <2>7
    <3> QED BY <3>1, FS_Interval
  <2>9. Cardinality({c} \X (1..n)) = 1 * n
    BY <2>6, <2>8, FS_Product
  <2>10. 1 * n = n
    BY <2>7
  <2> QED BY <1>5, <1>8, <2>5, <2>9, <2>10 DEF n
<1> QED BY <1>2, <1>3, <1>5, <1>6, <1>8, <1>9 DEF B

\* Scaled by one the cores are what they were.
LEMMA UnscaledCores ==
    ASSUME NEW f, IsCounted(f)
    PROVE  ScaledCores(f, One) = f.ingredients
<1> DEFINE B == f.ingredients C == ScaledCores(f, One)
<1>1. /\ Counted(C)
      /\ \A y : y \in DOMAIN C <=> \E c \in DOMAIN B : y = Scaled(c, One)
      /\ \A c \in DOMAIN B : C[Scaled(c, One)] = B[c]
  BY OneIs, ScaledCoresOf
<1>2. Counted(B) /\ \A c \in DOMAIN B : Scaled(c, One) = c
  BY OneIs, ScalesOf DEF IsCounted
<1> HIDE DEF B, C
<1>3. DOMAIN C = DOMAIN B /\ \A c \in DOMAIN B : C[c] = B[c]
  BY <1>1, <1>2
<1>4. C = B
  BY <1>1, <1>2, <1>3 DEF Counted
<1> QED BY <1>4 DEF B, C

\* How many cores match under a scale.
LEMMA MatchesAre ==
    ASSUME NEW f, IsCounted(f), NEW g, IsCounted(g), NEW s, IsRatio(s)
    PROVE  LET B == ScaledCores(f, s) IN
           /\ QuantityMatches(f, g, s) = Shared(B, g.ingredients)
           /\ QuantityMatches(f, g, s) = Cardinality(Copies(B) \cap Copies(g.ingredients))
           /\ IsFiniteSet(Copies(B)) /\ IsFiniteSet(Copies(g.ingredients))
           /\ QuantityMatches(f, g, s) \in Nat
           /\ QuantityMatches(f, g, s) <= Cardinality(Occurrences(f))
           /\ QuantityMatches(f, g, s) <= Cardinality(Occurrences(g))
           /\ Cardinality(Occurrences(f)) \in Nat /\ Cardinality(Occurrences(g)) \in Nat
<1> DEFINE B == ScaledCores(f, s) C == g.ingredients
<1>1. Counted(B) /\ Cardinality(Copies(B)) = Cardinality(Occurrences(f))
  BY ScaledCoresOf
<1>2. Counted(C) /\ Copies(C) = Occurrences(g)
  BY DEF IsCounted, Occurrences
<1>3. QuantityMatches(f, g, s) = Shared(B, C)
  BY UnscaledCores DEF QuantityMatches
<1>4. Shared(B, C) = Cardinality(Copies(B) \cap Copies(C))
  BY DEF Shared
<1> HIDE DEF B, C
<1>5. /\ Shared(B, C) \in Nat
      /\ Shared(B, C) <= Cardinality(Copies(B)) /\ Shared(B, C) <= Cardinality(Copies(C))
  BY <1>1, <1>2, SharedOf
<1>6. /\ IsFiniteSet(Copies(B)) /\ IsFiniteSet(Copies(C))
      /\ Cardinality(Copies(B)) \in Nat /\ Cardinality(Copies(C)) \in Nat
  BY <1>1, <1>2, CopiesFinite
<1> QED BY <1>1, <1>2, <1>3, <1>4, <1>5, <1>6 DEF B, C

\* What matches under a scale one way matches under its inverse the other way.
LEMMA MatchesBack ==
    ASSUME NEW f, IsCounted(f), NEW g, IsCounted(g), NEW s, IsRatio(s)
    PROVE  IsRatio(Over(One, s)) /\ QuantityMatches(f, g, s) <= QuantityMatches(g, f, Over(One, s))
<1> DEFINE u == Over(One, s) X == Copies(ScaledCores(f, s)) \cap Copies(g.ingredients)
           Y == Copies(ScaledCores(g, u)) \cap Copies(f.ingredients)
           h == [z \in X |-> <<Scaled(z[1], u), z[2]>>]
<1>1. IsRatio(u)
  BY OneIs, ProductOf
<1>2. /\ QuantityMatches(f, g, s) = Cardinality(X)
      /\ QuantityMatches(g, f, u) = Cardinality(Y) /\ IsFiniteSet(Y)
  <2>1. QuantityMatches(f, g, s) = Cardinality(X)
    BY MatchesAre
  <2>2. QuantityMatches(g, f, u) = Cardinality(Y) /\ IsFiniteSet(Copies(f.ingredients))
    BY <1>1, MatchesAre
  <2>3. Y \in SUBSET Copies(f.ingredients)
    OBVIOUS
  <2> QED BY <2>1, <2>2, <2>3, FS_Subset
<1>3. /\ \A y : y \in DOMAIN ScaledCores(f, s) <=> \E c \in DOMAIN f.ingredients : y = Scaled(c, s)
      /\ \A c \in DOMAIN f.ingredients : ScaledCores(f, s)[Scaled(c, s)] = f.ingredients[c]
  BY ScaledCoresOf
<1>4. /\ \A y : y \in DOMAIN ScaledCores(g, u) <=> \E c \in DOMAIN g.ingredients : y = Scaled(c, u)
      /\ \A c \in DOMAIN g.ingredients : ScaledCores(g, u)[Scaled(c, u)] = g.ingredients[c]
  BY <1>1, ScaledCoresOf
<1>5. \A c \in DOMAIN f.ingredients : IsCore(c) /\ Scaled(Scaled(c, s), u) = c
  BY ScalesOf DEF IsCounted
<1> HIDE DEF u
<1>6. ASSUME NEW z \in X
      PROVE  /\ h[z] = <<Scaled(z[1], u), z[2]>> /\ h[z] \in Y
             /\ z = <<z[1], z[2]>> /\ Scaled(Scaled(z[1], u), s) = z[1]
  <2> DEFINE y == z[1] n == z[2]
  <2>1. /\ y \in DOMAIN ScaledCores(f, s) /\ n \in 1..ScaledCores(f, s)[y] /\ z = <<y, n>>
        /\ y \in DOMAIN g.ingredients /\ n \in 1..g.ingredients[y]
    BY CopiesAre
  <2> HIDE DEF y, n
  <2>2. PICK c \in DOMAIN f.ingredients : y = Scaled(c, s)
    BY <1>3, <2>1
  <2>3. Scaled(y, u) = c /\ n \in 1..f.ingredients[c]
    BY <1>3, <1>5, <2>1, <2>2
  <2>4. c \in DOMAIN ScaledCores(g, u) /\ n \in 1..ScaledCores(g, u)[c]
    BY <1>4, <2>1, <2>3
  <2>5. <<c, n>> \in Y
    BY <2>3, <2>4, CopiesAre
  <2>6. h[z] = <<Scaled(y, u), n>>
    BY DEF y, n
  <2> QED BY <2>1, <2>2, <2>3, <2>5, <2>6 DEF y, n
<1>7. h \in [X -> Y]
  BY <1>6
<1>8. ASSUME NEW x \in X, NEW z \in X, h[x] = h[z] PROVE x = z
  <2>1. Scaled(x[1], u) = Scaled(z[1], u) /\ x[2] = z[2]
    BY <1>6, <1>8
  <2> QED BY <1>6, <2>1
<1> HIDE DEF h, X, Y
<1>9. Cardinality(X) <= Cardinality(Y)
  BY <1>2, <1>7, <1>8, NoMoreThan
<1> QED BY <1>1, <1>2, <1>9 DEF u

\* The factor of a pair of amounts.
FactorOf(p) == Over(p[2].measure.values[p[3]], p[1].measure.values[p[3]])

\* There are finitely many pairs of amounts, and their factors are ratios.
LEMMA PairsOfAmounts ==
    ASSUME NEW f, IsCounted(f), NEW g, IsCounted(g)
    PROVE  IsFiniteSet(AmountPairs(f, g)) /\ \A p \in AmountPairs(f, g) : IsRatio(FactorOf(p))
<1> DEFINE A == DOMAIN f.ingredients B == DOMAIN g.ingredients S == (A \X B) \X (1..2)
           T == A \X B \X (1..2) h == [z \in S |-> <<z[1][1], z[1][2], z[2]>>]
<1>1. IsFiniteSet(A) /\ IsFiniteSet(B)
  BY DEF IsCounted, Counted
<1>2. IsFiniteSet(S)
  <2>1. IsFiniteSet(A \X B)
    BY <1>1, FS_Product
  <2>2. IsFiniteSet(1..2)
    <3>1. 1 \in Int /\ 2 \in Int
      OBVIOUS
    <3> QED BY <3>1, FS_Interval
  <2> HIDE DEF A, B
  <2> QED BY <2>1, <2>2, FS_Product
<1>3. IsFiniteSet(T)
  <2> HIDE DEF A, B
  <2>1. h \in [S -> T]
    OBVIOUS
  <2>2. ASSUME NEW p \in T PROVE \E z \in S : h[z] = p
    <3>1. p[1] \in A /\ p[2] \in B /\ p[3] \in 1..2 /\ p = <<p[1], p[2], p[3]>>
      OBVIOUS
    <3>2. <<p[1], p[2]>> \in A \X B
      BY <3>1
    <3>3. <<<<p[1], p[2]>>, p[3]>> \in S
      BY <3>1, <3>2
    <3>4. h[<<<<p[1], p[2]>>, p[3]>>] = <<p[1], p[2], p[3]>>
      BY <3>3
    <3> QED BY <3>1, <3>3, <3>4
  <2>3. h \in Surjection(S, T)
    <3> HIDE DEF h, S, T
    <3> QED BY <2>1, <2>2 DEF Surjection
  <2> HIDE DEF h, S, T
  <2> QED BY <1>2, <2>3, FS_Surjection
<1>4. AmountPairs(f, g) \in SUBSET T
  BY DEF AmountPairs
<1>5. ASSUME NEW p \in AmountPairs(f, g) PROVE IsRatio(FactorOf(p))
  <2> DEFINE m == p[1].measure n == p[2].measure v == p[3]
  <2>1. /\ p[1] \in A /\ p[2] \in B /\ Comparable(m, n) /\ v \in DOMAIN m.values
    BY DEF AmountPairs
  <2>2. IsCore(p[1]) /\ IsCore(p[2])
    BY <2>1 DEF IsCounted
  <2>3. m.values # <<>> /\ n.values # <<>> /\ m.mode = n.mode
    BY <2>1 DEF Comparable
  <2>4. DOMAIN m.values # {} /\ DOMAIN n.values # {}
    BY <2>2, <2>3, AmountsOf
  <2>5. DOMAIN m.values = DOMAIN n.values
    BY <2>2, <2>3, <2>4 DEF IsCore, IsAmount
  <2>6. IsRatio(m.values[v]) /\ IsRatio(n.values[v])
    BY <2>1, <2>2, <2>5, AmountsOf
  <2>7. FactorOf(p) = Over(n.values[v], m.values[v])
    BY DEF FactorOf
  <2> HIDE DEF m, n, v
  <2> QED BY <2>6, <2>7, ProductOf
<1> QED BY <1>3, <1>4, <1>5, FS_Subset

\* The candidates are finitely many ratios, one among them.
LEMMA CandidatesOf ==
    ASSUME NEW f, IsCounted(f), NEW g, IsCounted(g)
    PROVE  /\ One \in CandidateScales(f, g) /\ IsFiniteSet(CandidateScales(f, g))
           /\ \A s \in CandidateScales(f, g) : IsRatio(s)
           /\ \A p \in AmountPairs(f, g) : FactorOf(p) \in CandidateScales(f, g)
<1> DEFINE P == AmountPairs(f, g) R == {FactorOf(p) : p \in P} h == [p \in P |-> FactorOf(p)]
<1>1. CandidateScales(f, g) = {One} \cup R
  BY DEF CandidateScales, FactorOf
<1>2. IsFiniteSet(P) /\ \A p \in P : IsRatio(FactorOf(p))
  BY PairsOfAmounts
<1>3. IsFiniteSet(R)
  <2>1. h \in Surjection(P, R)
    BY DEF Surjection
  <2> HIDE DEF h, P, R
  <2> QED BY <1>2, <2>1, FS_Surjection
<1>4. IsFiniteSet({One} \cup R)
  <2> HIDE DEF R
  <2>1. IsFiniteSet({One})
    BY FS_Singleton
  <2> QED BY <1>3, <2>1, FS_Union
<1>5. \A s \in R : IsRatio(s)
  BY <1>2
<1>6. \A p \in P : FactorOf(p) \in R
  OBVIOUS
<1> HIDE DEF R
<1> QED BY <1>1, <1>4, <1>5, <1>6, OneIs

\* A scale that is no candidate matches nothing but cores without amounts.
LEMMA OthersMatchLess ==
    ASSUME NEW f, IsCounted(f), NEW g, IsCounted(g), NEW s, IsRatio(s), s \notin CandidateScales(f, g)
    PROVE  QuantityMatches(f, g, s) <= QuantityMatches(f, g, One)
<1> DEFINE B == ScaledCores(f, s) C == ScaledCores(f, One) D == g.ingredients
           X == Copies(B) \cap Copies(D) Y == Copies(C) \cap Copies(D)
<1>1. QuantityMatches(f, g, s) = Cardinality(X) /\ QuantityMatches(f, g, One) = Cardinality(Y)
      /\ IsFiniteSet(Copies(D))
  BY OneIs, MatchesAre
<1>2. /\ \A y : y \in DOMAIN B <=> \E c \in DOMAIN f.ingredients : y = Scaled(c, s)
      /\ \A c \in DOMAIN f.ingredients : B[Scaled(c, s)] = f.ingredients[c]
  BY ScaledCoresOf
<1>3. C = f.ingredients
  BY UnscaledCores
<1>4. ASSUME NEW c \in DOMAIN f.ingredients, Scaled(c, s) \in DOMAIN D PROVE Scaled(c, s) = c
  <2> DEFINE e == Scaled(c, s)
  <2>1. IsCore(c) /\ IsCore(e) /\ ScaledAs(c, s, e)
    BY ScaledIs DEF IsCounted
  <2>2. c.measure.values = <<>> => e = c
    BY <2>1, ScalesOf
  <2>3. ASSUME c.measure.values # <<>> PROVE FALSE
    <3> DEFINE p == <<c, e, 1>>
    <3>1. e \in DOMAIN D
      BY <1>4
    <3> HIDE DEF e
    <3>2. 1 \in DOMAIN c.measure.values /\ e.measure.values # <<>>
      BY <2>1, <2>3, AmountsOf DEF ScaledAs
    <3>3. Comparable(c.measure, e.measure) /\ c.ingredient = e.ingredient
      BY <2>1, <2>3, <3>2 DEF Comparable, ScaledAs
    <3>4. p[1] = c /\ p[2] = e /\ p[3] = 1 /\ p \in (DOMAIN f.ingredients) \X (DOMAIN g.ingredients) \X (1..2)
      <4>1. 1 \in 1..2
        OBVIOUS
      <4> QED BY <3>1, <4>1
    <3> HIDE DEF p
    <3>5. p \in AmountPairs(f, g)
      BY <3>2, <3>3, <3>4 DEF AmountPairs
    <3>6. FactorOf(p) = Over(e.measure.values[1], c.measure.values[1])
      BY <3>4 DEF FactorOf
    <3>7. /\ IsRatio(c.measure.values[1]) /\ IsRatio(e.measure.values[1])
          /\ e.measure.values[1] = Times(c.measure.values[1], s)
      BY <2>1, <3>2, AmountsOf DEF ScaledAs
    <3> DEFINE x == c.measure.values[1] y == e.measure.values[1]
    <3>8. IsRatio(x) /\ IsRatio(y) /\ Times(x, s) = y
      BY <3>7
    <3> HIDE DEF x, y
    <3>9. s = Over(y, x)
      BY <3>8, ProductOf
    <3>10. FactorOf(p) = s
      BY <3>6, <3>9 DEF x, y
    <3> QED BY <3>5, <3>10, CandidatesOf
  <2> QED BY <2>2, <2>3
<1> HIDE DEF B, C, D
<1>5. X \subseteq Y
  <2> SUFFICES ASSUME NEW z \in X PROVE z \in Y
    OBVIOUS
  <2>1. /\ z[1] \in DOMAIN B /\ z[2] \in 1..B[z[1]] /\ z = <<z[1], z[2]>>
        /\ z[1] \in DOMAIN D /\ z \in Copies(D)
    BY CopiesAre
  <2>2. PICK c \in DOMAIN f.ingredients : z[1] = Scaled(c, s)
    BY <1>2, <2>1
  <2>3. z[1] = c
    BY <1>4, <2>1, <2>2
  <2>4. z[1] \in DOMAIN C /\ z[2] \in 1..C[z[1]]
    BY <1>2, <1>3, <2>1, <2>2, <2>3
  <2>5. z \in Copies(C)
    BY <2>1, <2>4, CopiesAre
  <2> QED BY <2>1, <2>5
<1>6. IsFiniteSet(Y)
  BY <1>1, FS_Subset
<1> HIDE DEF X, Y
<1> QED BY <1>1, <1>5, <1>6, FS_Subset

\* The scale chosen is a candidate that no scale matches more than, and one if one is as good.
LEMMA BestScaleOf ==
    ASSUME NEW f, IsCounted(f), NEW g, IsCounted(g)
    PROVE  /\ BestScale(f, g) \in CandidateScales(f, g) /\ IsRatio(BestScale(f, g))
           /\ \A s : IsRatio(s) => QuantityMatches(f, g, s) <= QuantityMatches(f, g, BestScale(f, g))
           /\ BestScale(f, g) # One =>
                QuantityMatches(f, g, One) < QuantityMatches(f, g, BestScale(f, g))
<1> DEFINE S == CandidateScales(f, g) M(s) == QuantityMatches(f, g, s) best == MatchesMost(f, g)
<1>1. One \in S /\ IsFiniteSet(S) /\ \A s \in S : IsRatio(s)
  BY CandidatesOf
<1>2. /\ \A s : IsRatio(s) => M(s) \in Nat /\ M(s) <= Cardinality(Occurrences(f))
      /\ Cardinality(Occurrences(f)) \in Nat
  BY OneIs, MatchesAre
<1>3. \A s : s \in best <=> s \in S /\ \A t \in S : M(t) <= M(s)
  BY DEF MatchesMost
<1>4. \A s : IsRatio(s) /\ s \notin S => M(s) <= M(One)
  BY OthersMatchLess
<1> HIDE DEF S, M, best
<1>5. best # {}
  <2> DEFINE n == Cardinality(Occurrences(f)) V == {M(s) : s \in S}
  <2>1. V \subseteq 0..n /\ n \in Nat /\ V # {}
    <3>1. \A s \in S : M(s) \in 0..n
      BY <1>1, <1>2
    <3> QED BY <1>1, <1>2, <3>1
  <2>2. PICK v \in V : \A w \in V : w <= v
    <3> HIDE DEF V, n
    <3> QED BY <2>1, GreatestOf
  <2>3. PICK s \in S : v = M(s)
    BY <2>2
  <2>4. \A t \in S : M(t) <= M(s)
    BY <2>2, <2>3
  <2> QED BY <1>3, <2>4
<1>6. best \subseteq S /\ IsFiniteSet(best)
  <2>1. best \in SUBSET S
    BY <1>3
  <2> QED BY <1>1, <2>1, FS_Subset
<1>7. \E s \in best : \A t \in best : ~Below(t, s)
  BY <1>1, <1>5, <1>6, LeastRatio
<1>8. BestScale(f, g) \in best /\ (One \in best => BestScale(f, g) = One)
  BY <1>7 DEF BestScale, best
<1> DEFINE b == BestScale(f, g)
<1>9. b \in best /\ (One \in best => b = One)
  BY <1>8
<1> HIDE DEF b
<1>10. b \in S /\ IsRatio(b) /\ \A t \in S : M(t) <= M(b)
  BY <1>1, <1>3, <1>9
<1>11. ASSUME NEW s, IsRatio(s) PROVE M(s) <= M(b)
  <2>1. CASE s \in S
    BY <1>10, <2>1
  <2>2. CASE s \notin S
    <3>1. M(s) <= M(One) /\ M(One) <= M(b)
      BY <1>1, <1>4, <1>10, <1>11, <2>2
    <3>2. M(s) \in Nat /\ M(One) \in Nat /\ M(b) \in Nat
      BY <1>1, <1>2, <1>10, <1>11
    <3> QED BY <3>1, <3>2
  <2> QED BY <2>1, <2>2
<1>12. ASSUME b # One PROVE M(One) < M(b)
  <2>1. One \notin best
    BY <1>9, <1>12
  <2>2. PICK t \in S : ~(M(t) <= M(One))
    BY <1>1, <1>3, <2>1
  <2>3. M(t) <= M(b) /\ M(t) \in Nat /\ M(One) \in Nat /\ M(b) \in Nat
    BY <1>1, <1>2, <1>10
  <2> QED BY <2>2, <2>3
<1> QED BY <1>10, <1>11, <1>12 DEF b, M, S

-----------------------------------------------------------------------------
(* Scores of ingredients and quantities *)

\* A score does not depend on which comes first, is a ratio unless nothing matches, and is one
\* if all is matched.
LEMMA DiceOf ==
    ASSUME NEW k \in Nat, NEW m \in Nat, NEW n \in Nat
    PROVE  /\ Dice(k, m, n) = Dice(k, n, m)
           /\ Dice(k, m, n) = One <=> 2 * k = m + n \/ m + n = 0
           /\ IsFraction(Dice(k, m, n))
<1>1. m + n = n + m /\ m + n \in Nat
  OBVIOUS
<1>2. One = Fraction(1, 1)
  BY OneIs, RatioIs
<1>3. CASE m + n = 0
  <2>1. IsFraction(One)
    BY OneIs DEF IsRatio
  <2> QED BY <1>1, <1>3, <2>1 DEF Dice
<1>4. CASE m + n # 0
  <2> DEFINE t == m + n d == 2 * k
  <2>1. t \in Nat \ {0} /\ d \in Nat /\ d \in Int
    BY <1>1, <1>4
  <2>2. Dice(k, m, n) = Fraction(d, t) /\ Dice(k, n, m) = Fraction(d, t)
    BY <1>1, <1>4 DEF Dice
  <2> HIDE DEF t, d
  <2>3. Fraction(d, t) = Fraction(1, 1) <=> d * 1 = 1 * t
    BY <2>1, FractionsEqual
  <2>4. d * 1 = d /\ 1 * t = t
    BY <2>1
  <2>5. IsFraction(Fraction(d, t))
    BY <2>1, FractionIs
  <2> QED BY <1>2, <1>4, <2>2, <2>3, <2>4, <2>5 DEF t, d
<1> QED BY <1>3, <1>4

\* All is matched under a scale if and only if the scale makes the ones the others.
LEMMA WhollyMatched ==
    ASSUME NEW f, IsCounted(f), NEW g, IsCounted(g), NEW s, IsRatio(s)
    PROVE  /\ MatchScore(QuantityMatches(f, g, s), f, g) = One <=> ScaledCores(f, s) = g.ingredients
           /\ ScaledCores(f, s) = g.ingredients =>
                /\ QuantityMatches(f, g, s) = Cardinality(Occurrences(f))
                /\ QuantityMatches(f, g, s) = Cardinality(Occurrences(g))
<1> DEFINE k == QuantityMatches(f, g, s) m == Cardinality(Occurrences(f))
           n == Cardinality(Occurrences(g)) B == ScaledCores(f, s) C == g.ingredients
<1>1. k = Shared(B, C) /\ k \in Nat /\ k <= m /\ k <= n /\ m \in Nat /\ n \in Nat
  BY MatchesAre
<1>2. MatchScore(k, f, g) = Dice(k, m, n)
  BY DEF MatchScore
<1>3. Counted(B) /\ Counted(C) /\ Cardinality(Copies(B)) = m /\ Cardinality(Copies(C)) = n
  BY ScaledCoresOf DEF IsCounted, Occurrences
<1> HIDE DEF k, m, n, B, C
<1>4. Dice(k, m, n) = One <=> 2 * k = m + n \/ m + n = 0
  BY <1>1, DiceOf
<1>5. (2 * k = m + n \/ m + n = 0) => k = m /\ k = n
  BY <1>1
<1>6. k = m /\ k = n => 2 * k = m + n
  BY <1>1
<1>7. k = m /\ k = n => B = C
  BY <1>1, <1>3, SharedOf
<1>8. B = C => k = m /\ k = n
  BY <1>1, <1>3, SharedOf
<1> QED BY <1>2, <1>4, <1>5, <1>6, <1>7, <1>8 DEF k, m, n, B, C

\* The same number matches in both directions.
LEMMA QuantityScoreSymmetric ==
    ASSUME NEW f, IsCounted(f), NEW g, IsCounted(g)
    PROVE  QuantityScore(f, g) = QuantityScore(g, f)
<1> DEFINE b == BestScale(f, g) c == BestScale(g, f)
           k == QuantityMatches(f, g, b) l == QuantityMatches(g, f, c)
           m == Cardinality(Occurrences(f)) n == Cardinality(Occurrences(g))
<1>1. IsRatio(b) /\ IsRatio(c)
  BY BestScaleOf
<1>2. k \in Nat /\ l \in Nat /\ m \in Nat /\ n \in Nat
  BY <1>1, MatchesAre
<1>3. k <= l
  <2> DEFINE u == Over(One, b) j == QuantityMatches(g, f, u)
  <2>1. IsRatio(u) /\ k <= j
    BY <1>1, MatchesBack
  <2>2. j <= l
    BY <2>1, BestScaleOf
  <2>3. j \in Nat
    BY <2>1, MatchesAre
  <2> HIDE DEF j, k, l
  <2> QED BY <1>2, <2>1, <2>2, <2>3
<1>4. l <= k
  <2> DEFINE u == Over(One, c) j == QuantityMatches(f, g, u)
  <2>1. IsRatio(u) /\ l <= j
    BY <1>1, MatchesBack
  <2>2. j <= k
    BY <2>1, BestScaleOf
  <2>3. j \in Nat
    BY <2>1, MatchesAre
  <2> HIDE DEF j, k, l
  <2> QED BY <1>2, <2>1, <2>2, <2>3
<1>5. QuantityScore(f, g) = Dice(k, m, n) /\ QuantityScore(g, f) = Dice(l, n, m)
  BY DEF QuantityScore, MatchScore
<1> HIDE DEF k, l, m, n
<1>6. k = l
  BY <1>2, <1>3, <1>4
<1> QED BY <1>2, <1>5, <1>6, DiceOf

\* Like quantities score one, and only multiplied ones that are others are called scaled.
LEMMA QuantityScoreOf ==
    ASSUME NEW f, IsCounted(f), NEW g, IsCounted(g), NEW S, \A s \in S : IsRatio(s)
    PROVE  /\ f.ingredients = g.ingredients => QuantityScore(f, g) = One
           /\ QuantityReason(f, g) = "proportionally_scaled_quantities" <=>
                /\ f.ingredients # g.ingredients
                /\ \E s \in S \cup CandidateScales(f, g) : ScaledCores(f, s) = g.ingredients
<1> DEFINE b == BestScale(f, g) score == QuantityScore(f, g)
           B(s) == ScaledCores(f, s) C == g.ingredients
           M(s) == QuantityMatches(f, g, s)
           n == Cardinality(Occurrences(g))
<1>1. /\ b \in CandidateScales(f, g) /\ IsRatio(b)
      /\ \A s : IsRatio(s) => M(s) <= M(b)
      /\ b # One => M(One) < M(b)
  BY BestScaleOf
<1>2. IsRatio(One) /\ B(One) = f.ingredients /\ \A s \in CandidateScales(f, g) : IsRatio(s)
  BY OneIs, UnscaledCores, CandidatesOf
<1>3. score = MatchScore(M(b), f, g)
  BY DEF QuantityScore
<1>4. /\ \A s : IsRatio(s) => (MatchScore(M(s), f, g) = One <=> B(s) = C)
      /\ \A s : IsRatio(s) /\ B(s) = C => M(s) = n
  BY WhollyMatched
<1>5. n \in Nat /\ \A s : IsRatio(s) => M(s) \in Nat /\ M(s) <= n
  BY OneIs, MatchesAre
<1>6. QuantityReason(f, g) = "proportionally_scaled_quantities" <=> score = One /\ b # One
  BY DEF QuantityReason
<1> HIDE DEF b, score, B, C, M, n
<1>7. ASSUME NEW s, IsRatio(s), B(s) = C PROVE score = One
  <2>1. M(s) = n /\ M(s) <= M(b) /\ M(b) <= n /\ M(b) \in Nat
    BY <1>1, <1>4, <1>5, <1>7
  <2>2. M(b) = M(s)
    BY <1>5, <2>1
  <2> QED BY <1>3, <1>4, <1>7, <2>2
<1>8. ASSUME f.ingredients = C PROVE score = One /\ b = One
  <2>1. B(One) = C /\ M(One) = n
    BY <1>2, <1>4, <1>8
  <2>2. M(b) <= n /\ M(b) \in Nat
    BY <1>1, <1>5
  <2>3. ~(M(One) < M(b))
    BY <1>5, <2>1, <2>2
  <2> QED BY <1>1, <1>2, <1>7, <2>1, <2>3
<1>9. ASSUME score = One, b # One PROVE f.ingredients # C /\ B(b) = C
  BY <1>1, <1>3, <1>4, <1>8, <1>9
<1>10. ASSUME f.ingredients # C, NEW s \in S \cup CandidateScales(f, g), B(s) = C
       PROVE  score = One /\ b # One
  <2>1. IsRatio(s)
    BY <1>2
  <2>2. score = One
    BY <1>7, <1>10, <2>1
  <2>3. B(b) = C
    BY <1>1, <1>3, <1>4, <2>2
  <2> QED BY <1>2, <1>10, <2>2, <2>3
<1> QED BY <1>1, <1>6, <1>8, <1>9, <1>10 DEF B, C, score

\* The ingredients score the same either way, and one with themselves.
LEMMA IngredientScoreOf ==
    ASSUME NEW f, IsCounted(f), NEW g, IsCounted(g)
    PROVE  /\ IngredientScore(f, g) = IngredientScore(g, f)
           /\ f = g => IngredientScore(f, g) = One
<1>1. ASSUME NEW h, IsCounted(h)
      PROVE  /\ Counted(Identities(h))
             /\ Cardinality(Copies(Identities(h))) = Cardinality(Occurrences(h))
             /\ Cardinality(Occurrences(h)) \in Nat
  <2> DEFINE F == [o \in Occurrences(h) |-> o[1].ingredient]
  <2>1. IsFiniteSet(Occurrences(h)) /\ Cardinality(Occurrences(h)) \in Nat
    BY <1>1, CopiesFinite DEF IsCounted, Occurrences
  <2>2. DOMAIN F = Occurrences(h) /\ Identities(h) = Counter(F)
    BY DEF Identities
  <2> HIDE DEF F
  <2> QED BY <2>1, <2>2, CounterOf, CounterCovers
<1> DEFINE k == Shared(Identities(f), Identities(g))
           m == Cardinality(Occurrences(f)) n == Cardinality(Occurrences(g))
<1>2. k \in Nat /\ k = Shared(Identities(g), Identities(f))
  BY <1>1, SharedOf
<1>3. IngredientScore(f, g) = Dice(k, m, n) /\ IngredientScore(g, f) = Dice(k, n, m)
  BY <1>2 DEF IngredientScore, MatchScore
<1>4. m \in Nat /\ n \in Nat
  BY <1>1
<1>5. ASSUME f = g PROVE 2 * k = m + n
  <2>1. k = m /\ m = n
    BY <1>1, <1>5, SharedOf
  <2> HIDE DEF k, m, n
  <2> QED BY <1>2, <1>4, <2>1
<1> HIDE DEF k, m, n
<1> QED BY <1>2, <1>3, <1>4, <1>5, DiceOf

-----------------------------------------------------------------------------
(* Common subsequences *)

\* Pairs of like elements among the first i of s and the first j of t, no two of which cross.
IsChain(s, t, i, j, M) ==
    /\ \A p \in M : /\ p[1] \in 1..i /\ p[2] \in 1..j /\ p = <<p[1], p[2]>>
                    /\ s[p[1]] = t[p[2]]
    /\ \A p, q \in M : p[1] < q[1] <=> p[2] < q[2]

Chains(s, t, i, j) == {M \in SUBSET ((1..i) \X (1..j)) : IsChain(s, t, i, j, M)}

Longest(s, t, i, j) == Max({Cardinality(M) : M \in Chains(s, t, i, j)})

\* Chains are the sets of pairs that are chains.
LEMMA ChainsAre ==
    ASSUME NEW s, NEW t, NEW i \in Nat, NEW j \in Nat
    PROVE  \A M : M \in Chains(s, t, i, j) <=> IsChain(s, t, i, j, M)
<1> TAKE M
<1>1. ASSUME IsChain(s, t, i, j, M) PROVE M \in SUBSET ((1..i) \X (1..j))
  <2>1. \A p \in M : p[1] \in 1..i /\ p[2] \in 1..j /\ p = <<p[1], p[2]>>
    BY <1>1 DEF IsChain
  <2> QED BY <2>1
<1> QED BY <1>1 DEF Chains

\* A chain has no more pairs than there are elements to pair.
LEMMA ChainFinite ==
    ASSUME NEW s, NEW t, NEW i \in Nat, NEW j \in Nat, NEW M, IsChain(s, t, i, j, M)
    PROVE  /\ IsFiniteSet(M) /\ Cardinality(M) \in 0..i
           /\ \A p, q \in M : p[1] = q[1] => p = q
<1>1. \A p \in M : p[1] \in 1..i /\ p[2] \in 1..j /\ p = <<p[1], p[2]>>
  BY DEF IsChain
<1>2. ASSUME NEW p \in M, NEW q \in M, p[1] = q[1] PROVE p = q
  <2>1. /\ p[1] < q[1] <=> p[2] < q[2]
        /\ q[1] < p[1] <=> q[2] < p[2]
    BY DEF IsChain
  <2>2. p[1] \in Nat /\ q[1] \in Nat /\ p[2] \in Nat /\ q[2] \in Nat
    BY <1>1
  <2>3. p[2] = q[2]
    BY <1>2, <2>1, <2>2
  <2> QED BY <1>1, <1>2, <2>3
<1> DEFINE f == [p \in M |-> p[1]]
<1>3. f \in [M -> 1..i] /\ \A p, q \in M : f[p] = f[q] => p = q
  BY <1>1, <1>2
<1>4. IsFiniteSet(1..i) /\ Cardinality(1..i) = i
  <2>1. 1 \in Int /\ i \in Int /\ (IF 1 > i THEN 0 ELSE i - 1 + 1) = i
    OBVIOUS
  <2> QED BY <2>1, FS_Interval
<1>5. IsFiniteSet(M) /\ Cardinality(M) <= i
  <2> HIDE DEF f
  <2> QED BY <1>3, <1>4, NoMoreThan
<1>6. Cardinality(M) \in Nat
  BY <1>5, FS_CardinalityType
<1>7. Cardinality(M) \in 0..i
  BY <1>5, <1>6
<1> QED BY <1>2, <1>5, <1>7

\* A longest chain there is.
LEMMA LongestOf ==
    ASSUME NEW s, NEW t, NEW i \in Nat, NEW j \in Nat
    PROVE  /\ Longest(s, t, i, j) \in 0..i
           /\ \E M : IsChain(s, t, i, j, M) /\ Cardinality(M) = Longest(s, t, i, j)
           /\ \A M : IsChain(s, t, i, j, M) => Cardinality(M) <= Longest(s, t, i, j)
<1> DEFINE V == {Cardinality(M) : M \in Chains(s, t, i, j)}
<1>1. \A M : M \in Chains(s, t, i, j) <=> IsChain(s, t, i, j, M)
  BY ChainsAre
<1>2. V \subseteq 0..i
  BY <1>1, ChainFinite
<1>3. V # {}
  <2>1. IsChain(s, t, i, j, {})
    BY DEF IsChain
  <2> QED BY <1>1, <2>1
<1>4. Max(V) \in V /\ \A x \in V : x <= Max(V)
  <2> HIDE DEF V
  <2> QED BY <1>2, <1>3, GreatestOf
<1>5. Max(V) = Longest(s, t, i, j)
  BY DEF Longest
<1>6. PICK M \in Chains(s, t, i, j) : Cardinality(M) = Max(V)
  BY <1>4
<1>7. \A N \in Chains(s, t, i, j) : Cardinality(N) <= Max(V)
  BY <1>4
<1>8. Max(V) \in 0..i
  BY <1>2, <1>4
<1> HIDE DEF V
<1> QED BY <1>1, <1>5, <1>6, <1>7, <1>8

\* Of nothing and anything nothing is common.
LEMMA LongestOfNone ==
    ASSUME NEW s, NEW t, NEW i \in Nat, NEW j \in Nat, i = 0 \/ j = 0
    PROVE  Longest(s, t, i, j) = 0
<1>1. PICK M : IsChain(s, t, i, j, M) /\ Cardinality(M) = Longest(s, t, i, j)
  BY LongestOf
<1>2. M = {}
  <2>1. \A p \in M : p[1] \in 1..i /\ p[2] \in 1..j
    BY <1>1 DEF IsChain
  <2> QED BY <2>1
<1> QED BY <1>1, <1>2, FS_EmptySet

\* A shorter chain is a chain.
LEMMA ChainWithin ==
    ASSUME NEW s, NEW t, NEW i \in Nat, NEW j \in Nat, NEW k \in Nat, NEW l \in Nat, k <= i, l <= j,
           NEW M, IsChain(s, t, k, l, M)
    PROVE  IsChain(s, t, i, j, M)
<1>1. \A p \in M : p[1] \in 1..k /\ p[2] \in 1..l /\ p = <<p[1], p[2]>> /\ s[p[1]] = t[p[2]]
  BY DEF IsChain
<1>2. \A n : (n \in 1..k => n \in 1..i) /\ (n \in 1..l => n \in 1..j)
  OBVIOUS
<1>3. \A p, q \in M : p[1] < q[1] <=> p[2] < q[2]
  BY DEF IsChain
<1> QED BY <1>1, <1>2, <1>3 DEF IsChain

\* Like last elements are paired, after a longest chain of the elements before them.
LEMMA LongestOfLike ==
    ASSUME NEW s, NEW t, NEW i \in Nat \ {0}, NEW j \in Nat \ {0}, s[i] = t[j]
    PROVE  Longest(s, t, i, j) = Longest(s, t, i - 1, j - 1) + 1
<1> DEFINE m == Longest(s, t, i, j) n == Longest(s, t, i - 1, j - 1)
<1>1. i - 1 \in Nat /\ j - 1 \in Nat /\ i \in Nat /\ j \in Nat /\ i - 1 <= i /\ j - 1 <= j
  OBVIOUS
<1>2. m \in Nat /\ n \in Nat
  <2>1. m \in 0..i /\ n \in 0..(i - 1)
    BY <1>1, LongestOf
  <2> HIDE DEF m, n
  <2> QED BY <1>1, <2>1
<1>3. n + 1 <= m
  <2>1. PICK M : IsChain(s, t, i - 1, j - 1, M) /\ Cardinality(M) = n
    BY <1>1, LongestOf
  <2> DEFINE e == <<i, j>> N == M \cup {e}
  <2>2. /\ \A p \in M : p[1] \in 1..(i - 1) /\ p[2] \in 1..(j - 1) /\ p = <<p[1], p[2]>> /\ s[p[1]] = t[p[2]]
        /\ \A p, q \in M : p[1] < q[1] <=> p[2] < q[2]
    BY <2>1 DEF IsChain
  <2>3. e[1] = i /\ e[2] = j /\ e = <<e[1], e[2]>>
    OBVIOUS
  <2> HIDE DEF e
  <2>4. \A p \in M : p[1] \in Nat /\ p[2] \in Nat /\ p[1] < e[1] /\ p[2] < e[2]
                     /\ ~(e[1] < p[1]) /\ ~(e[2] < p[2])
    BY <1>1, <2>2, <2>3
  <2>5. IsChain(s, t, i, j, N)
    <3>1. IsChain(s, t, i, j, M)
      BY <1>1, <2>1, ChainWithin
    <3>2. \A p \in N : p[1] \in 1..i /\ p[2] \in 1..j /\ p = <<p[1], p[2]>> /\ s[p[1]] = t[p[2]]
      <4>1. i \in 1..i /\ j \in 1..j
        OBVIOUS
      <4> QED BY <2>3, <3>1, <4>1 DEF IsChain
    <3>3. \A p, q \in N : p[1] < q[1] <=> p[2] < q[2]
      <4>1. ~(e[1] < e[1]) /\ ~(e[2] < e[2])
        BY <1>1, <2>3
      <4> QED BY <2>2, <2>4, <4>1
    <3> HIDE DEF N
    <3> QED BY <3>2, <3>3 DEF IsChain
  <2>6. e \notin M
    BY <1>1, <2>3, <2>4
  <2>7. IsFiniteSet(M)
    BY <1>1, <2>1, ChainFinite
  <2>8. Cardinality(N) = n + 1
    BY <2>1, <2>6, <2>7, FS_AddElement
  <2>9. Cardinality(N) <= m
    BY <1>1, <2>5, LongestOf
  <2> HIDE DEF m, n, N
  <2> QED BY <2>8, <2>9
<1>4. m <= n + 1
  <2>1. PICK M : IsChain(s, t, i, j, M) /\ Cardinality(M) = m
    BY <1>1, LongestOf
  <2>2. /\ \A p \in M : p[1] \in 1..i /\ p[2] \in 1..j /\ p = <<p[1], p[2]>> /\ s[p[1]] = t[p[2]]
        /\ \A p, q \in M : p[1] < q[1] <=> p[2] < q[2]
    BY <2>1 DEF IsChain
  <2>3. IsFiniteSet(M) /\ \A p, q \in M : p[1] = q[1] => p = q
    BY <1>1, <2>1, ChainFinite
  <2>4. CASE M = {}
    <3>1. m = 0
      BY <2>1, <2>4, FS_EmptySet
    <3> HIDE DEF m, n
    <3> QED BY <1>2, <3>1
  <2>5. CASE M # {}
    <3> DEFINE f == [p \in M |-> i - p[1]]
    <3>1. f \in [M -> Nat]
      <4>1. \A p \in M : i - p[1] \in Nat
        BY <2>2
      <4> QED BY <4>1
    <3>2. PICK e \in Leasts(M, f) : TRUE
      BY <2>5, <3>1, LeastValue
    <3>3. e \in M /\ \A p \in M : i - e[1] <= i - p[1]
      BY <3>2 DEF Leasts
    <3>4. \A p \in M \ {e} : p[1] \in 1..(i - 1) /\ p[2] \in 1..(j - 1)
      <4> TAKE p \in M \ {e}
      <4>1. p \in M /\ e \in M /\ p[1] # e[1] /\ i - e[1] <= i - p[1]
        BY <2>3, <3>3
      <4>2. p[1] \in 1..i /\ e[1] \in 1..i /\ p[2] \in 1..j /\ e[2] \in 1..j
        BY <2>2, <4>1
      <4>3. p[1] < e[1]
        BY <4>1, <4>2
      <4>4. p[2] < e[2]
        BY <2>2, <4>1, <4>3
      <4> QED BY <4>2, <4>3, <4>4
    <3> DEFINE N == M \ {e}
    <3>5. IsChain(s, t, i - 1, j - 1, N)
      <4>1. \A p \in N : p[1] \in 1..(i - 1) /\ p[2] \in 1..(j - 1) /\ p = <<p[1], p[2]>> /\ s[p[1]] = t[p[2]]
        BY <2>2, <3>4
      <4>2. \A p, q \in N : p[1] < q[1] <=> p[2] < q[2]
        BY <2>2
      <4> HIDE DEF N
      <4> QED BY <4>1, <4>2 DEF IsChain
    <3>6. Cardinality(N) = Cardinality(M) - 1
      BY <2>3, <3>3, FS_RemoveElement
    <3>7. Cardinality(N) <= n
      BY <1>1, <3>5, LongestOf
    <3> HIDE DEF m, n, N
    <3> QED BY <1>2, <2>1, <3>6, <3>7
  <2> QED BY <2>4, <2>5
<1> HIDE DEF m, n
<1>5. m = n + 1
  BY <1>2, <1>3, <1>4
<1> QED BY <1>5 DEF m, n

\* Of last elements that differ one is left out.
LEMMA LongestOfOthers ==
    ASSUME NEW s, NEW t, NEW i \in Nat \ {0}, NEW j \in Nat \ {0}, s[i] # t[j]
    PROVE  Longest(s, t, i, j) = Max({Longest(s, t, i - 1, j), Longest(s, t, i, j - 1)})
<1> DEFINE m == Longest(s, t, i, j) x == Longest(s, t, i - 1, j) y == Longest(s, t, i, j - 1)
<1>1. i - 1 \in Nat /\ j - 1 \in Nat /\ i \in Nat /\ j \in Nat /\ i - 1 <= i /\ j - 1 <= j
      /\ i <= i /\ j <= j
  OBVIOUS
<1>2. m \in 0..i /\ x \in 0..i /\ y \in 0..i
  <2>1. m \in 0..i /\ x \in 0..(i - 1) /\ y \in 0..i
    BY <1>1, LongestOf
  <2> HIDE DEF m, x, y
  <2> QED BY <1>1, <2>1
<1>3. x <= m
  <2>1. PICK M : IsChain(s, t, i - 1, j, M) /\ Cardinality(M) = x
    BY <1>1, LongestOf
  <2>2. IsChain(s, t, i, j, M)
    BY <1>1, <2>1, ChainWithin
  <2> QED BY <1>1, <2>1, <2>2, LongestOf
<1>4. y <= m
  <2>1. PICK M : IsChain(s, t, i, j - 1, M) /\ Cardinality(M) = y
    BY <1>1, LongestOf
  <2>2. IsChain(s, t, i, j, M)
    BY <1>1, <2>1, ChainWithin
  <2> QED BY <1>1, <2>1, <2>2, LongestOf
<1>5. m <= x \/ m <= y
  <2>1. PICK M : IsChain(s, t, i, j, M) /\ Cardinality(M) = m
    BY <1>1, LongestOf
  <2>2. /\ \A p \in M : p[1] \in 1..i /\ p[2] \in 1..j /\ p = <<p[1], p[2]>> /\ s[p[1]] = t[p[2]]
        /\ \A p, q \in M : p[1] < q[1] <=> p[2] < q[2]
    BY <2>1 DEF IsChain
  <2>3. CASE \E e \in M : e[1] = i
    <3>1. PICK e \in M : e[1] = i
      BY <2>3
    <3>2. e[2] \in 1..j /\ e[2] # j
      BY <2>2, <3>1
    <3>3. \A p \in M : p[2] \in 1..(j - 1)
      <4> TAKE p \in M
      <4>1. p[1] \in 1..i /\ p[2] \in 1..j /\ (e[1] < p[1] <=> e[2] < p[2])
        BY <2>2, <3>1
      <4> QED BY <1>1, <3>1, <3>2, <4>1
    <3>4. IsChain(s, t, i, j - 1, M)
      BY <2>2, <3>3 DEF IsChain
    <3> QED BY <1>1, <2>1, <3>4, LongestOf
  <2>4. CASE ~ \E e \in M : e[1] = i
    <3>1. \A p \in M : p[1] \in 1..(i - 1)
      BY <1>1, <2>2, <2>4
    <3>2. IsChain(s, t, i - 1, j, M)
      BY <2>2, <3>1 DEF IsChain
    <3> QED BY <1>1, <2>1, <3>2, LongestOf
  <2> QED BY <2>3, <2>4
<1> HIDE DEF m, x, y
<1>6. Max({x, y}) \in {x, y} /\ \A z \in {x, y} : z <= Max({x, y})
  <2>1. {x, y} \subseteq 0..i /\ {x, y} # {}
    BY <1>2
  <2> QED BY <1>1, <2>1, GreatestOf
<1>7. Max({x, y}) = m
  <2> DEFINE z == Max({x, y})
  <2>1. (z = x \/ z = y) /\ x <= z /\ y <= z
    BY <1>6
  <2> HIDE DEF z
  <2>2. z = m
    BY <1>2, <1>3, <1>4, <1>5, <2>1
  <2> QED BY <2>2 DEF z
<1> QED BY <1>7 DEF m, x, y

\* What the recursion over prefixes computes is the length of a longest chain.
LEMMA LcsIs ==
    ASSUME NEW s, NEW t, Len(s) \in Nat, Len(t) \in Nat
    PROVE  LcsLength(s, t) = Longest(s, t, Len(s), Len(t))
<1> DEFINE m == Len(s) n == Len(t) D == (0..m) \X (0..n)
           h == [p \in D |-> Longest(s, t, p[1], p[2])]
<1> DEFINE Value(f, i, j) == IF i = 0 \/ j = 0 THEN 0
                             ELSE IF s[i] = t[j] THEN f[<<i - 1, j - 1>>] + 1
                             ELSE Max({f[<<i - 1, j>>], f[<<i, j - 1>>]})
<1> DEFINE Step(f) == [p \in D |-> Value(f, p[1], p[2])]
<1> DEFINE L == CHOOSE f : f = Step(f)
<1>1. LcsLength(s, t) = L[<<m, n>>]
  BY DEF LcsLength
<1>2. m \in Nat /\ n \in Nat
  OBVIOUS
<1> HIDE DEF m, n
<1>3. ASSUME NEW p \in D
      PROVE  /\ p[1] \in 0..m /\ p[2] \in 0..n /\ p = <<p[1], p[2]>>
             /\ p[1] # 0 /\ p[2] # 0 =>
                  /\ p[1] - 1 \in 0..m /\ p[2] - 1 \in 0..n
                  /\ <<p[1] - 1, p[2] - 1>> \in D /\ <<p[1] - 1, p[2]>> \in D /\ <<p[1], p[2] - 1>> \in D
  <2>1. p[1] \in 0..m /\ p[2] \in 0..n /\ p = <<p[1], p[2]>>
    OBVIOUS
  <2>2. \A k : /\ k \in 0..m /\ k # 0 => k - 1 \in 0..m
               /\ k \in 0..n /\ k # 0 => k - 1 \in 0..n
    BY <1>2
  <2> QED BY <2>1, <2>2
<1>4. \A i \in 0..m, j \in 0..n : <<i, j>> \in D /\ h[<<i, j>>] = Longest(s, t, i, j)
  <2> TAKE i \in 0..m, j \in 0..n
  <2>1. <<i, j>> \in D /\ <<i, j>>[1] = i /\ <<i, j>>[2] = j
    OBVIOUS
  <2> QED BY <2>1
<1>5. ASSUME NEW p \in D PROVE h[p] = Value(h, p[1], p[2])
  <2> DEFINE i == p[1] j == p[2]
  <2>1. i \in Nat /\ j \in Nat /\ h[p] = Longest(s, t, i, j)
    BY <1>2, <1>3
  <2>2. CASE i = 0 \/ j = 0
    BY <2>1, <2>2, LongestOfNone
  <2>3. CASE i # 0 /\ j # 0
    <3>1. /\ h[<<i - 1, j - 1>>] = Longest(s, t, i - 1, j - 1)
          /\ h[<<i - 1, j>>] = Longest(s, t, i - 1, j)
          /\ h[<<i, j - 1>>] = Longest(s, t, i, j - 1)
      BY <1>3, <1>4, <2>3
    <3> HIDE DEF h, i, j
    <3>2. i \in Nat \ {0} /\ j \in Nat \ {0}
      BY <2>1, <2>3
    <3>3. ASSUME s[i] = t[j] PROVE h[p] = Value(h, i, j)
      <4>1. Longest(s, t, i, j) = Longest(s, t, i - 1, j - 1) + 1
        BY <3>2, <3>3, LongestOfLike
      <4> QED BY <2>1, <2>3, <3>1, <3>3, <4>1
    <3>4. ASSUME s[i] # t[j] PROVE h[p] = Value(h, i, j)
      <4>1. Longest(s, t, i, j) = Max({Longest(s, t, i - 1, j), Longest(s, t, i, j - 1)})
        BY <3>2, <3>4, LongestOfOthers
      <4> QED BY <2>1, <2>3, <3>1, <3>4, <4>1
    <3>5. h[p] = Value(h, i, j)
      BY <3>3, <3>4
    <3> QED BY <3>5 DEF i, j
  <2> QED BY <2>2, <2>3
<1>6. h = Step(h)
  <2>1. h = [p \in D |-> h[p]]
    OBVIOUS
  <2> HIDE DEF h, Value, D
  <2> QED BY <1>5, <2>1
<1>7. L = Step(L)
  <2> HIDE DEF h, Step
  <2> QED BY <1>6
<1> HIDE DEF L
<1>8. \A p \in D : L[p] = Value(L, p[1], p[2])
  <2> HIDE DEF Value, D
  <2> QED BY <1>7
<1> DEFINE Bad == {k \in Nat : \E p \in D : p[1] + p[2] = k /\ L[p] # h[p]}
<1>9. Bad = {}
  <2> SUFFICES ASSUME Bad # {} PROVE FALSE
    OBVIOUS
  <2>1. PICK k \in Bad : \A l \in Bad : k <= l
    <3>1. Bad \subseteq Nat
      OBVIOUS
    <3> HIDE DEF Bad
    <3> QED BY <3>1, LeastOf
  <2>2. PICK p \in D : p[1] + p[2] = k /\ L[p] # h[p]
    BY <2>1
  <2>3. p[1] \in Nat /\ p[2] \in Nat /\ k \in Nat
    BY <1>2, <1>3, <2>1
  <2>4. ASSUME NEW q \in D, q[1] + q[2] < k PROVE L[q] = h[q]
    <3>1. q[1] + q[2] \in Nat
      BY <1>2, <1>3
    <3>2. ~(k <= q[1] + q[2])
      BY <2>3, <2>4, <3>1
    <3>3. q[1] + q[2] \notin Bad
      <4> HIDE DEF Bad
      <4> QED BY <2>1, <3>2
    <3> QED BY <3>1, <3>3
  <2>5. CASE p[1] = 0 \/ p[2] = 0
    <3>1. Value(L, p[1], p[2]) = Value(h, p[1], p[2])
      BY <2>5
    <3> HIDE DEF Value, h, D
    <3> QED BY <1>5, <1>8, <2>2, <3>1
  <2>6. CASE p[1] # 0 /\ p[2] # 0
    <3> DEFINE a == <<p[1] - 1, p[2] - 1>> b == <<p[1] - 1, p[2]>> c == <<p[1], p[2] - 1>>
    <3>1. a \in D /\ b \in D /\ c \in D
      BY <1>3, <2>6
    <3>2. a[1] + a[2] < k /\ b[1] + b[2] < k /\ c[1] + c[2] < k
      <4>1. /\ a[1] = p[1] - 1 /\ a[2] = p[2] - 1 /\ b[1] = p[1] - 1 /\ b[2] = p[2]
            /\ c[1] = p[1] /\ c[2] = p[2] - 1
        OBVIOUS
      <4> HIDE DEF a, b, c
      <4> QED BY <2>2, <2>3, <4>1
    <3>3. L[a] = h[a] /\ L[b] = h[b] /\ L[c] = h[c]
      <4> HIDE DEF a, b, c, D, h
      <4> QED BY <2>4, <3>1, <3>2
    <3>4. Value(L, p[1], p[2]) = Value(h, p[1], p[2])
      <4> HIDE DEF h, D
      <4> QED BY <3>3
    <3> HIDE DEF Value, h, D
    <3> QED BY <1>5, <1>8, <2>2, <3>4
  <2> QED BY <2>5, <2>6
<1>10. L[<<m, n>>] = h[<<m, n>>]
  <2>1. m \in 0..m /\ n \in 0..n
    BY <1>2
  <2>2. <<m, n>> \in D /\ <<m, n>>[1] = m /\ <<m, n>>[2] = n
    BY <1>4, <2>1
  <2>3. m + n \in Nat /\ m + n \notin Bad
    BY <1>2, <1>9
  <2> HIDE DEF D, h
  <2> QED BY <2>2, <2>3
<1>11. h[<<m, n>>] = Longest(s, t, m, n)
  <2>1. m \in 0..m /\ n \in 0..n
    BY <1>2
  <2> QED BY <1>4, <2>1
<1> QED BY <1>1, <1>10, <1>11 DEF m, n

\* A list: its places are the numbers up to its length.
IsList(s) == Len(s) \in Nat /\ DOMAIN s = 1..Len(s)

\* The recursion finds the longest common subsequence.
LEMMA LcsIsCommon ==
    ASSUME NEW s, NEW t, IsList(s), IsList(t)
    PROVE  LcsLength(s, t) = CommonLength(s, t)
<1> DEFINE m == Len(s) n == Len(t)
           Like == {p \in (DOMAIN s) \X (DOMAIN t) : s[p[1]] = t[p[2]]}
           Parallel(M) == \A p, q \in M : p[1] < q[1] <=> p[2] < q[2]
           C == {M \in SUBSET Like : Parallel(M)}
<1>1. m \in Nat /\ n \in Nat /\ DOMAIN s = 1..m /\ DOMAIN t = 1..n
  BY DEF IsList
<1>2. CommonLength(s, t) = Max({Cardinality(M) : M \in C})
  BY DEF CommonLength
<1> HIDE DEF m, n
<1>3. ASSUME NEW M PROVE M \in C <=> IsChain(s, t, m, n, M)
  <2>1. \A p : p \in Like <=> p[1] \in 1..m /\ p[2] \in 1..n /\ p = <<p[1], p[2]>> /\ s[p[1]] = t[p[2]]
    BY <1>1
  <2>2. M \in C <=> (\A p \in M : p \in Like) /\ Parallel(M)
    OBVIOUS
  <2> HIDE DEF Like, C
  <2> QED BY <2>1, <2>2 DEF IsChain
<1>4. C = Chains(s, t, m, n)
  <2> HIDE DEF C
  <2> QED BY <1>1, <1>3, ChainsAre
<1>5. LcsLength(s, t) = Longest(s, t, m, n)
  BY <1>1, LcsIs DEF m, n
<1> QED BY <1>2, <1>4, <1>5 DEF Longest

\* What two lists have in common does not depend on their order.
LEMMA LongestSymmetric ==
    ASSUME NEW s, NEW t, NEW i \in Nat, NEW j \in Nat
    PROVE  Longest(s, t, i, j) <= Longest(t, s, j, i)
<1>1. PICK M : IsChain(s, t, i, j, M) /\ Cardinality(M) = Longest(s, t, i, j)
  BY LongestOf
<1> DEFINE Turned(p) == <<p[2], p[1]>> N == {Turned(p) : p \in M} f == [p \in M |-> Turned(p)]
<1>2. \A p \in M : /\ p[1] \in 1..i /\ p[2] \in 1..j /\ p = <<p[1], p[2]>> /\ s[p[1]] = t[p[2]]
                   /\ Turned(p)[1] = p[2] /\ Turned(p)[2] = p[1] /\ Turned(p) = <<p[2], p[1]>>
  BY <1>1 DEF IsChain
<1>3. IsChain(t, s, j, i, N)
  <2>1. \A p, q \in M : p[1] < q[1] <=> p[2] < q[2]
    BY <1>1 DEF IsChain
  <2>2. \A z \in N : z[1] \in 1..j /\ z[2] \in 1..i /\ z = <<z[1], z[2]>> /\ t[z[1]] = s[z[2]]
    BY <1>2
  <2>3. ASSUME NEW y \in N, NEW z \in N PROVE y[1] < z[1] <=> y[2] < z[2]
    <3>1. PICK p \in M : y = Turned(p)
      OBVIOUS
    <3>2. PICK q \in M : z = Turned(q)
      OBVIOUS
    <3> QED BY <1>2, <2>1, <3>1, <3>2
  <2> HIDE DEF N
  <2> QED BY <2>2, <2>3 DEF IsChain
<1>4. Cardinality(N) <= Longest(t, s, j, i) /\ IsFiniteSet(N)
  <2> HIDE DEF N
  <2> QED BY <1>3, LongestOf, ChainFinite
<1>5. f \in [M -> N] /\ \A p, q \in M : f[p] = f[q] => p = q
  <2>1. \A p \in M : f[p] = Turned(p) /\ f[p] \in N
    OBVIOUS
  <2>2. ASSUME NEW p \in M, NEW q \in M, f[p] = f[q] PROVE p = q
    <3>1. Turned(p) = Turned(q)
      BY <2>1, <2>2
    <3> HIDE DEF Turned
    <3> QED BY <1>2, <3>1
  <2>3. f = [p \in M |-> f[p]]
    OBVIOUS
  <2> HIDE DEF f, N
  <2> QED BY <2>1, <2>2, <2>3
<1> HIDE DEF N, f
<1>6. Cardinality(M) <= Cardinality(N)
  BY <1>4, <1>5, NoMoreThan
<1>7. Cardinality(M) \in Nat /\ Cardinality(N) \in Nat /\ Longest(t, s, j, i) \in Nat
  <2>1. IsFiniteSet(M)
    BY <1>1, ChainFinite
  <2>2. Longest(t, s, j, i) \in 0..j
    BY LongestOf
  <2> QED BY <1>4, <2>1, <2>2, FS_CardinalityType
<1> QED BY <1>1, <1>4, <1>6, <1>7

\* All of a list is common to it and itself.
LEMMA LongestOfSame ==
    ASSUME NEW s, NEW n \in Nat
    PROVE  Longest(s, s, n, n) = n
<1> DEFINE M == {<<k, k>> : k \in 1..n} f == [k \in 1..n |-> <<k, k>>]
<1>1. IsChain(s, s, n, n, M)
  <2>1. \A p \in M : p[1] \in 1..n /\ p[2] = p[1] /\ p = <<p[1], p[2]>>
    OBVIOUS
  <2> HIDE DEF M
  <2> QED BY <2>1 DEF IsChain
<1>2. f \in [1..n -> M] /\ \A k, l \in 1..n : f[k] = f[l] => k = l
  OBVIOUS
<1> HIDE DEF f, M
<1>3. IsFiniteSet(M) /\ Cardinality(M) <= Longest(s, s, n, n)
  BY <1>1, LongestOf, ChainFinite
<1>4. Cardinality(1..n) <= Cardinality(M)
  BY <1>2, <1>3, NoMoreThan
<1>5. Cardinality(1..n) = n
  <2>1. 1 \in Int /\ n \in Int /\ (IF 1 > n THEN 0 ELSE n - 1 + 1) = n
    OBVIOUS
  <2> QED BY <2>1, FS_Interval
<1>6. Longest(s, s, n, n) \in 0..n /\ Cardinality(M) \in Nat
  BY <1>3, LongestOf, FS_CardinalityType
<1> QED BY <1>3, <1>4, <1>5, <1>6

\* Lists score the same either way, and one with themselves.
LEMMA LcsScoreOf ==
    ASSUME NEW s, NEW t, IsList(s), IsList(t)
    PROVE  /\ LcsScore(s, t) = LcsScore(t, s) /\ IsFraction(LcsScore(s, t))
           /\ s = t => LcsScore(s, t) = One
<1> DEFINE k == LcsLength(s, t) l == LcsLength(t, s) m == Len(s) n == Len(t)
<1>1. m \in Nat /\ n \in Nat
  BY DEF IsList
<1>2. k = Longest(s, t, m, n) /\ l = Longest(t, s, n, m)
  BY <1>1, LcsIs
<1>3. LcsScore(s, t) = Dice(k, m, n) /\ LcsScore(t, s) = Dice(l, n, m)
  BY DEF LcsScore
<1>4. s = t => m = n
  OBVIOUS
<1> HIDE DEF k, l, m, n
<1>5. k <= l /\ l <= k /\ k \in 0..m /\ l \in 0..n
  BY <1>1, <1>2, LongestSymmetric, LongestOf
<1>6. k = l /\ k \in Nat
  BY <1>1, <1>5
<1>7. ASSUME s = t PROVE 2 * k = m + n
  <2>1. k = m /\ m = n
    BY <1>1, <1>2, <1>4, <1>7, LongestOfSame
  <2> QED BY <1>1, <2>1
<1> QED BY <1>1, <1>3, <1>6, <1>7, DiceOf

-----------------------------------------------------------------------------
(* Lists of actions *)

\* A function over the first numbers is a list.
LEMMA ListOf ==
    ASSUME NEW n \in Nat, NEW s, s = [k \in 1..n |-> s[k]]
    PROVE  IsList(s) /\ Len(s) = n
<1> DEFINE X == {s[k] : k \in 1..n}
<1>1. s \in [1..n -> X]
  OBVIOUS
<1> HIDE DEF X
<1>2. s \in Seq(X)
  BY <1>1, SeqDef
<1>3. Len(s) \in Nat /\ DOMAIN s = 1..Len(s)
  BY <1>2, LenProperties
<1>4. DOMAIN s = 1..n
  BY <1>1
<1>5. Len(s) = n
  <2> DEFINE m == Len(s)
  <2>1. m \in Nat /\ 1..m = 1..n
    BY <1>3, <1>4
  <2> HIDE DEF m
  <2>2. /\ m \in 1..m \/ m = 0
        /\ n \in 1..n \/ n = 0
    BY <2>1
  <2>3. m <= n /\ n <= m
    BY <2>1, <2>2
  <2> QED BY <2>1, <2>3 DEF m
<1> QED BY <1>3, <1>5 DEF IsList

\* One list after the other is a list.
LEMMA FlattenOf ==
    ASSUME NEW X, NEW q \in Seq(Seq(X))
    PROVE  FlattenSeq(q) \in Seq(X)
<1> DEFINE n == Len(q) S == Seq(X)
<1>1. n \in Nat /\ DOMAIN q = 1..n /\ \A i \in 1..n : q[i] \in S
  BY LenProperties, ElementOfSeq
<1>2. CASE n = 0
  <2>1. q = <<>>
    BY <1>2, EmptySeq
  <2>2. FlattenSeq(q) = q
    BY <1>2 DEF FlattenSeq
  <2> QED BY <2>1, <2>2, EmptySeq
<1>3. CASE n # 0
  <2> DEFINE Step(f) == [i \in 1..n |-> IF i = 1 THEN q[i] ELSE f[i - 1] \o q[i]]
             flat == CHOOSE f : f = Step(f)
  <2>1. FlattenSeq(q) = flat[n]
    BY <1>3 DEF FlattenSeq
  <2> HIDE DEF n
  <2>2. \E f : f = Step(f)
    <3> DEFINE T(k) == [x \in S |-> IF k \notin 1..n THEN x ELSE IF k = 1 THEN q[k] ELSE x \o q[k]]
               N == [k \in Nat |-> T(k)]
    <3> HIDE DEF S
    <3>1. <<>> \in S
      BY EmptySeq DEF S
    <3>2. N \in [Nat -> [S -> S]]
      <4>1. ASSUME NEW k \in Nat, NEW x \in S
            PROVE  (IF k \notin 1..n THEN x ELSE IF k = 1 THEN q[k] ELSE x \o q[k]) \in S
        <5>1. CASE k \in 1..n
          <6>1. q[k] \in S
            BY <1>1, <5>1
          <6>2. x \o q[k] \in S
            BY <6>1, ConcatProperties DEF S
          <6> QED BY <5>1, <6>1, <6>2
        <5>2. CASE k \notin 1..n
          BY <5>2
        <5> QED BY <5>1, <5>2
      <4> QED BY <4>1
    <3> HIDE DEF N
    <3>3. PICK f \in [Nat -> S] : Recurs(<<>>, N, f)
      BY <3>1, <3>2, RecursionOver
    <3> DEFINE h == [i \in 1..n |-> f[i]]
    <3>4. ASSUME NEW i \in 1..n PROVE f[i] = IF i = 1 THEN q[i] ELSE h[i - 1] \o q[i]
      <4>1. i \in Nat /\ i - 1 \in Nat /\ (i - 1) + 1 = i
        BY <1>1
      <4>2. f[i] = N[i][f[i - 1]] /\ f[i - 1] \in S
        <5>1. \A m \in Nat : f[m + 1] = N[m + 1][f[m]]
          BY <3>3 DEF Recurs
        <5>2. f[(i - 1) + 1] = N[(i - 1) + 1][f[i - 1]]
          BY <4>1, <5>1
        <5> QED BY <4>1, <5>2
      <4>3. f[i] = IF i = 1 THEN q[i] ELSE f[i - 1] \o q[i]
        BY <4>1, <4>2 DEF N
      <4>4. CASE i = 1
        BY <4>3, <4>4
      <4>5. CASE i # 1
        <5>1. i - 1 \in 1..n
          BY <1>1, <4>5
        <5>2. h[i - 1] = f[i - 1]
          BY <5>1
        <5> HIDE DEF h
        <5> QED BY <4>3, <4>5, <5>2
      <4> QED BY <4>4, <4>5
    <3>5. h = Step(h)
      BY <3>4
    <3> QED BY <3>5
  <2>3. flat = Step(flat)
    <3> HIDE DEF Step
    <3> QED BY <2>2
  <2> HIDE DEF flat
  <2>4. \A i \in 1..n : flat[i] = IF i = 1 THEN q[i] ELSE flat[i - 1] \o q[i]
    BY <2>3
  <2> DEFINE Bad == {i \in 1..n : flat[i] \notin S}
  <2>5. Bad = {}
    <3> SUFFICES ASSUME Bad # {} PROVE FALSE
      OBVIOUS
    <3>1. PICK i \in Bad : \A k \in Bad : i <= k
      <4>1. Bad \subseteq Nat
        BY <1>1
      <4> HIDE DEF Bad
      <4> QED BY <4>1, LeastOf
    <3>2. i \in 1..n /\ flat[i] \notin S /\ q[i] \in S
      BY <1>1, <3>1
    <3>3. i # 1
      BY <2>4, <3>2
    <3>4. i - 1 \in 1..n /\ ~(i <= i - 1)
      BY <1>1, <3>2, <3>3
    <3>5. flat[i - 1] \in S
      <4>1. i - 1 \notin Bad
        <5> HIDE DEF Bad
        <5> QED BY <3>1, <3>4
      <4> QED BY <3>4, <4>1
    <3>6. flat[i] = flat[i - 1] \o q[i]
      BY <2>4, <3>2, <3>3
    <3> QED BY <3>2, <3>5, <3>6, ConcatProperties
  <2>6. n \in 1..n
    BY <1>1, <1>3
  <2>7. flat[n] \in S
    BY <2>5, <2>6
  <2> QED BY <2>1, <2>7 DEF n
<1> QED BY <1>2, <1>3

\* Lists of lists of actions, each with a list of inputs.
IsPrinted(f) ==
    \E X : f.instructions \in Seq(Seq(X)) /\ \A x \in X : \E Y : x.inputs \in Seq(Y)

\* What is compared of the actions are lists.
LEMMA ActionLists ==
    ASSUME NEW f, IsPrinted(f)
    PROVE  IsList(ActionVerbs(f)) /\ IsList(ActionInputs(f)) /\ IsList(ActionParameters(f))
<1>1. PICK X : f.instructions \in Seq(Seq(X)) /\ \A x \in X : \E Y : x.inputs \in Seq(Y)
  BY DEF IsPrinted
<1> DEFINE A == Actions(f) n == Len(A)
<1>2. A \in Seq(X)
  BY <1>1, FlattenOf DEF Actions
<1> HIDE DEF A
<1>3. n \in Nat /\ DOMAIN A = 1..n /\ \A a \in 1..n : A[a] \in X
  BY <1>2, LenProperties, ElementOfSeq
<1> HIDE DEF n
<1>4. IsList(ActionVerbs(f))
  <2> DEFINE s == [a \in 1..n |-> A[a].type]
  <2>1. s = [a \in 1..n |-> s[a]] /\ ActionVerbs(f) = s
    BY <1>3 DEF ActionVerbs, A
  <2> HIDE DEF s
  <2> QED BY <1>3, <2>1, ListOf
<1>5. IsList(ActionParameters(f))
  <2> DEFINE s == [a \in 1..n |-> <<A[a].type, A[a].duration, A[a].temperature>>]
  <2>1. s = [a \in 1..n |-> s[a]] /\ ActionParameters(f) = s
    BY <1>3 DEF ActionParameters, A
  <2> HIDE DEF s
  <2> QED BY <1>3, <2>1, ListOf
<1>6. IsList(ActionInputs(f))
  <2> DEFINE Of(x) == [k \in DOMAIN x.inputs |-> <<x.type, x.inputs[k].core.ingredient>>]
             q == [a \in 1..n |-> Of(A[a])]
             Values(a) == {Of(A[a])[k] : k \in DOMAIN A[a].inputs}
             Z == UNION {Values(a) : a \in 1..n}
  <2>1. ActionInputs(f) = FlattenSeq(q)
    BY <1>3 DEF ActionInputs, A
  <2>2. \A a \in 1..n : Of(A[a]) \in Seq(Z)
    <3> TAKE a \in 1..n
    <3>1. PICK Y : A[a].inputs \in Seq(Y)
      BY <1>1, <1>3
    <3> DEFINE m == Len(A[a].inputs) y == Of(A[a])
    <3>2. m \in Nat /\ DOMAIN A[a].inputs = 1..m
      BY <3>1, LenProperties
    <3> HIDE DEF m
    <3>3. y = [k \in 1..m |-> y[k]]
      BY <3>2
    <3>4. \A k \in 1..m : y[k] \in Z
      <4>1. \A k \in 1..m : y[k] \in Values(a)
        BY <3>2
      <4> HIDE DEF y, Values
      <4> QED BY <4>1
    <3> HIDE DEF y, Z, Values
    <3>5. y \in [1..m -> Z]
      BY <3>3, <3>4
    <3>6. y \in Seq(Z)
      BY <3>2, <3>5, SeqDef
    <3> QED BY <3>6 DEF y
  <2>3. q \in [1..n -> Seq(Z)]
    <3> HIDE DEF Z, Of, Values
    <3> QED BY <2>2
  <2> HIDE DEF q, Z, Values
  <2>4. q \in Seq(Seq(Z))
    BY <1>3, <2>3, SeqDef
  <2>5. FlattenSeq(q) \in Seq(Z)
    BY <2>4, FlattenOf
  <2> QED BY <2>1, <2>5, LenProperties DEF IsList
<1> QED BY <1>4, <1>5, <1>6

-----------------------------------------------------------------------------
(* The score *)

\* Hundredths add up.
LEMMA HundredthsAdd ==
    ASSUME NEW a \in Nat \ {0}, NEW b \in Nat \ {0}
    PROVE  Plus(Fraction(a, 100), Fraction(b, 100)) = Fraction(a + b, 100)
<1> DEFINE p == Fraction(a, 100) q == Fraction(b, 100) c == p[1] d == p[2] e == q[1] f == q[2]
<1>1. IsRatio(p) /\ IsRatio(q) /\ c * 100 = a * d /\ e * 100 = b * f
  <2>1. 100 \in Nat \ {0}
    OBVIOUS
  <2> QED BY <2>1, RatioOf
<1>2. c \in Nat \ {0} /\ d \in Nat \ {0} /\ e \in Nat \ {0} /\ f \in Nat \ {0}
  BY <1>1, RatioIs
<1>3. Plus(p, q) = Fraction(c * f + e * d, d * f)
  BY DEF Plus
<1> HIDE DEF p, q, c, d, e, f
<1>4. (c * f + e * d) * 100 = (a + b) * (d * f)
  <2>1. (c * f + e * d) * 100 = (c * 100) * f + (e * 100) * d
    BY <1>2
  <2>2. (a * d) * f + (b * f) * d = (a + b) * (d * f)
    BY <1>2
  <2> QED BY <1>1, <2>1, <2>2
<1>5. c * f + e * d \in Int /\ d * f \in Nat \ {0} /\ a + b \in Int /\ 100 \in Nat \ {0}
  BY <1>2
<1> DEFINE x == c * f + e * d y == d * f z == a + b
<1>6. x \in Int /\ y \in Nat \ {0} /\ z \in Int /\ 100 \in Nat \ {0} /\ x * 100 = z * y
  BY <1>4, <1>5
<1>7. Plus(p, q) = Fraction(x, y)
  BY <1>3
<1> HIDE DEF x, y, z
<1>8. Fraction(x, y) = Fraction(z, 100)
  BY <1>6, FractionsEqual
<1> QED BY <1>7, <1>8 DEF p, q, z

\* Parts that are whole make a whole when their weights make a hundred.
LEMMA WholeOfParts ==
    ASSUME NEW a \in Nat \ {0}, NEW b \in Nat \ {0}, NEW c \in Nat \ {0}, a + b + c = 100
    PROVE  Plus(Plus(Weighed(a, One), Weighed(b, One)), Weighed(c, One)) = One
<1>1. \A w \in Nat \ {0} : Weighed(w, One) = Fraction(w, 100)
  <2> TAKE w \in Nat \ {0}
  <2>1. Weighed(w, One) = Fraction(w * 1, 100 * 1)
    BY OneIs DEF Weighed, Times
  <2>2. w * 1 = w /\ 100 * 1 = 100
    OBVIOUS
  <2> QED BY <2>1, <2>2
<1>2. Plus(Fraction(a, 100), Fraction(b, 100)) = Fraction(a + b, 100)
  BY HundredthsAdd
<1>3. Plus(Fraction(a + b, 100), Fraction(c, 100)) = Fraction(a + b + c, 100)
  <2>1. a + b \in Nat \ {0}
    OBVIOUS
  <2> QED BY <2>1, HundredthsAdd
<1>4. Fraction(100, 100) = Fraction(1, 1)
  <2>1. 100 \in Int /\ 100 \in Nat \ {0} /\ 1 \in Int /\ 1 \in Nat \ {0} /\ 100 * 1 = 1 * 100
    OBVIOUS
  <2> QED BY <2>1, FractionsEqual
<1>5. One = Fraction(1, 1)
  BY OneIs, RatioIs
<1> QED BY <1>1, <1>2, <1>3, <1>4, <1>5

\* A sum does not depend on the order of its terms' recipes: the score is the same either way,
\* and one of a recipe with itself.
LEMMA ScoreOf ==
    ASSUME NEW f, IsCounted(f), IsPrinted(f), NEW g, IsCounted(g), IsPrinted(g)
    PROVE  /\ Score(f, g) = Score(g, f)
           /\ f = g => Score(f, g) = One /\ ActionScore(f, g) = One
<1>1. /\ IsList(ActionVerbs(f)) /\ IsList(ActionInputs(f)) /\ IsList(ActionParameters(f))
      /\ IsList(ActionVerbs(g)) /\ IsList(ActionInputs(g)) /\ IsList(ActionParameters(g))
  BY ActionLists
<1>2. ActionScore(f, g) = ActionScore(g, f)
  BY <1>1, LcsScoreOf DEF ActionScore
<1>3. Score(f, g) = Score(g, f)
  BY <1>2, IngredientScoreOf, QuantityScoreSymmetric DEF Score
<1>4. ASSUME f = g PROVE Score(f, g) = One /\ ActionScore(f, g) = One
  <2>1. /\ LcsScore(ActionVerbs(f), ActionVerbs(g)) = One
        /\ LcsScore(ActionInputs(f), ActionInputs(g)) = One
        /\ LcsScore(ActionParameters(f), ActionParameters(g)) = One
    BY <1>1, <1>4, LcsScoreOf
  <2>2. ActionScore(f, g) = One
    <3>1. 50 \in Nat \ {0} /\ 30 \in Nat \ {0} /\ 20 \in Nat \ {0} /\ 50 + 30 + 20 = 100
      OBVIOUS
    <3> QED BY <2>1, <3>1, WholeOfParts DEF ActionScore
  <2>3. IngredientScore(f, g) = One
    BY <1>4, IngredientScoreOf
  <2>4. QuantityScore(f, g) = One
    <3> DEFINE S == {One}
    <3>1. \A s \in S : IsRatio(s)
      BY OneIs
    <3> HIDE DEF S
    <3>2. f.ingredients = g.ingredients => QuantityScore(f, g) = One
      BY <3>1, QuantityScoreOf
    <3>3. f.ingredients = g.ingredients
      BY <1>4
    <3> QED BY <3>2, <3>3
  <2>5. Score(f, g) = One
    <3>1. 45 \in Nat \ {0} /\ 25 \in Nat \ {0} /\ 30 \in Nat \ {0} /\ 45 + 25 + 30 = 100
      OBVIOUS
    <3> QED BY <2>2, <2>3, <2>4, <3>1, WholeOfParts DEF Score
  <2> QED BY <2>2, <2>5
<1> QED BY <1>3, <1>4

-----------------------------------------------------------------------------
(* Fair scores *)

\* One number that is more than nothing is a ratio, and so is a greater one.
LEMMA RatiosAbove ==
    ASSUME NEW p, IsFraction(p), Below(<<0, 1>>, p)
    PROVE  IsRatio(p) /\ \A q : IsFraction(q) /\ Below(p, q) => IsRatio(q)
<1> DEFINE a == p[1] b == p[2]
<1>1. a \in Int /\ b \in Nat \ {0}
  BY DEF IsFraction
<1>2. 0 * b < a * 1
  BY DEF Below
<1> HIDE DEF a, b
<1>3. a \in Nat \ {0}
  BY <1>1, <1>2
<1>4. ASSUME NEW q, IsFraction(q), Below(p, q) PROVE IsRatio(q)
  <2> DEFINE c == q[1] d == q[2]
  <2>1. c \in Int /\ d \in Nat \ {0}
    BY <1>4 DEF IsFraction
  <2>2. a * d < c * b
    BY <1>4 DEF Below, a, b
  <2> HIDE DEF c, d
  <2>3. a * d \in Nat /\ c * b \in Int
    BY <1>1, <1>3, <2>1
  <2>4. c * b > 0
    BY <2>2, <2>3
  <2>5. c > 0
    BY <1>1, <2>1, <2>4
  <2> QED BY <1>4, <2>5 DEF IsRatio, c
<1>5. IsRatio(p)
  BY <1>3 DEF IsRatio, a
<1> QED BY <1>4, <1>5

\* The canonical form of an ingredient's amount is one that scales.
LEMMA AmountIs ==
    ASSUME NEW m, Measured(m, "ingredient_amount")
    PROVE  IsAmount(CanonicalMeasure(m))
<1> DEFINE C == CanonicalMeasure(m) V == C.values n == Len(m.values)
<1>1. CASE m.mode \in Qualitative
  <2>1. C = m /\ m = [mode |-> m.mode, values |-> m.values, unit |-> m.unit, package |-> m.package]
    BY <1>1, CanonicalOf
  <2>2. m.values = <<>>
    BY <1>1 DEF Measured, IsMeasure, Qualitative
  <2>3. <<>> \in Seq(Ratios) /\ DOMAIN <<>> = {}
    OBVIOUS
  <2> HIDE DEF C
  <2> QED BY <2>1, <2>2, <2>3 DEF IsAmount, C
<1>2. CASE m.mode \notin Qualitative
  <2>1. C = [mode |-> m.mode,
             values |-> [i \in DOMAIN m.values |-> Converted(m.values[i], m.unit.rule)],
             unit |-> CanonicalUnit(m.unit), package |-> m.package]
    BY <1>2, CanonicalOf
  <2>2. /\ m.unit # None /\ Len(V) = (IF m.mode = "exact" THEN 1 ELSE 2)
        /\ Below(<<0, 1>>, V[1])
        /\ m.mode # "exact" => Below(V[1], V[2])
    <3>1. "ingredient_amount" # "temperature"
      OBVIOUS
    <3>2. m.mode \in {"exact", "range"} /\ m.unit # None
      BY <1>2 DEF Measured, IsMeasure
    <3> QED BY <1>2, <3>1, <3>2 DEF Measured, IsMeasure
  <2>3. /\ m.values \in Seq(Int \X Nat) /\ \A i \in DOMAIN m.values : IsFraction(m.values[i])
        /\ IsUnit(m.unit)
    BY <2>2 DEF Measured, IsQuantity
  <2>4. n \in Nat /\ DOMAIN m.values = 1..n
    BY <2>3, LenProperties
  <2>5. C.mode = m.mode /\ C = [mode |-> C.mode, values |-> C.values, unit |-> C.unit, package |-> C.package]
    BY <2>1
  <2>6. V = [i \in 1..n |-> Converted(m.values[i], m.unit.rule)]
    BY <2>1, <2>4
  <2> HIDE DEF C, V, n
  <2>7. ASSUME NEW i \in 1..n PROVE IsFraction(V[i]) /\ V[i] \in Int \X Nat
    <3>1. IsFraction(m.values[i])
      BY <2>3, <2>4
    <3>2. V[i] = Converted(m.values[i], m.unit.rule)
      BY <2>6
    <3> DEFINE x == BaseValue(m.values[i], m.unit)
    <3>3. x \in Int \X (Nat \ {0}) /\ V[i] = Fraction(x[1], x[2])
      BY <2>3, <3>1, <3>2, ConvertedIs
    <3> HIDE DEF x
    <3>4. IsFraction(V[i])
      BY <3>3, FractionIs
    <3> QED BY <3>4 DEF IsFraction
  <2>8. V \in [1..n -> Int \X Nat] /\ DOMAIN V = 1..n
    BY <2>6, <2>7
  <2>9. V \in Seq(Int \X Nat) /\ Len(V) = n
    <3>1. V \in Seq(Int \X Nat)
      BY <2>4, <2>8, SeqDef
    <3> QED BY <2>4, <2>8, <3>1, LenProperties
  <2>10. n = (IF m.mode = "exact" THEN 1 ELSE 2)
    BY <2>2, <2>9
  <2>11. ASSUME NEW i \in 1..n PROVE IsRatio(V[i])
    <3>1. 1 \in 1..n
      BY <2>10
    <3>2. IsFraction(V[1]) /\ IsFraction(V[i])
      BY <2>7, <3>1
    <3>3. i = 1 \/ (i = 2 /\ m.mode # "exact")
      BY <2>10
    <3> QED BY <2>2, <3>2, <3>3, RatiosAbove
  <2>12. V \in [1..n -> Ratios]
    BY <2>7, <2>8, <2>11 DEF Ratios
  <2>13. V \in Seq(Ratios)
    BY <2>4, <2>12, SeqDef
  <2>14. DOMAIN V = 1..(IF C.mode = "exact" THEN 1 ELSE 2)
    BY <2>5, <2>8, <2>10
  <2> QED BY <2>5, <2>13, <2>14 DEF IsAmount, C, V
<1> QED BY <1>1, <1>2

\* The fingerprint of a complete document has what the scores go by.
LEMMA PrintOf ==
    ASSUME NEW d, WellFormed(d), IsComplete(d)
    PROVE  IsCounted(Fingerprint(d)) /\ IsPrinted(Fingerprint(d))
<1> DEFINE f == Fingerprint(d)
           Steps == [i \in DOMAIN d.instructions |-> StepPrint(d, d.instructions[i].actions)]
<1>1. f = [ingredients |-> ToBag(Cores(d)), instructions |-> Steps]
  BY DEF Fingerprint, Cores, StepPrint, ActionPrint
<1>2. f.ingredients = Counter(Cores(d)) /\ f.instructions = Steps
  BY <1>1 DEF ToBag, Counter
<1> HIDE DEF f
<1>3. IsCounted(f)
  <2>1. DOMAIN Cores(d) = DOMAIN d.ingredients /\ IsFiniteSet(DOMAIN Cores(d))
    BY OfCoreFinite DEF Cores
  <2>2. ASSUME NEW i \in DOMAIN Cores(d) PROVE IsCore(Cores(d)[i])
    <3> DEFINE m == d.ingredients[i].measure C == CanonicalMeasure(m)
    <3>1. Measured(m, "ingredient_amount")
      BY <2>1, MeasurableOf DEF IsMeasurable, RowMeasured
    <3>2. IsAmount(C)
      BY <3>1, AmountIs
    <3>3. Cores(d)[i] = [ingredient |-> d.ingredients[i].ingredient, measure |-> C]
      BY <2>1 DEF Cores, Core, CoreAt
    <3> HIDE DEF C
    <3> QED BY <3>2, <3>3 DEF IsCore
  <2>3. /\ Counted(Counter(Cores(d)))
        /\ \A x : x \in DOMAIN Counter(Cores(d)) <=> \E i \in DOMAIN Cores(d) : Cores(d)[i] = x
    BY <2>1, CounterOf
  <2>4. \A x \in DOMAIN Counter(Cores(d)) : IsCore(x)
    BY <2>2, <2>3
  <2> QED BY <1>2, <2>3, <2>4 DEF IsCounted
<1>4. IsPrinted(f)
  <2> DEFINE PrintAt(i, a) == ActionPrint(d, d.instructions[i].actions[a])
             Places == UNION {{i} \X DOMAIN d.instructions[i].actions : i \in DOMAIN d.instructions}
             X == {PrintAt(p[1], p[2]) : p \in Places}
  <2>1. ASSUME NEW i \in DOMAIN d.instructions
        PROVE  /\ Steps[i] \in Seq(X)
               /\ \A a \in DOMAIN d.instructions[i].actions : \E Y : PrintAt(i, a).inputs \in Seq(Y)
    <3> DEFINE s == d.instructions[i].actions n == Len(s) S == StepPrint(d, s)
    <3>1. d.instructions[i] \in StepsOver(Nat)
      BY StepsOf
    <3>2. s \in Seq(ActionsOver(Nat))
      BY <3>1 DEF StepsOver
    <3>3. n \in Nat /\ DOMAIN s = 1..n
      BY <3>2, LenProperties
    <3>4. S = [a \in 1..n |-> PrintAt(i, a)]
      BY <3>3 DEF StepPrint
    <3>5. ASSUME NEW a \in DOMAIN s PROVE PrintAt(i, a) \in X
      <4>1. <<i, a>> \in Places
        BY <3>5
      <4> QED BY <4>1
    <3>6. ASSUME NEW a \in DOMAIN s PROVE \E Y : PrintAt(i, a).inputs \in Seq(Y)
      <4> DEFINE q == s[a].inputs k == Len(q) O == [j \in DOMAIN q |-> Occurrence(d, q[j])]
                 Y == {Occurrence(d, q[j]) : j \in DOMAIN q}
      <4>1. s[a] \in ActionsOver(Nat)
        BY <3>2, <3>3, <3>6, ElementOfSeq
      <4>2. q \in Seq(Nat)
        BY <4>1 DEF ActionsOver
      <4>3. k \in Nat /\ DOMAIN q = 1..k
        BY <4>2, LenProperties
      <4>4. PrintAt(i, a).inputs = O
        BY DEF ActionPrint
      <4>5. O \in [1..k -> Y]
        BY <4>3
      <4> HIDE DEF O, Y, k, q
      <4>6. O \in Seq(Y)
        BY <4>3, <4>5, SeqDef
      <4> QED BY <4>4, <4>6
    <3> HIDE DEF X, PrintAt
    <3>7. S \in [1..n -> X]
      BY <3>3, <3>4, <3>5
    <3>8. Steps[i] = S
      OBVIOUS
    <3> HIDE DEF S, n, Steps
    <3>9. S \in Seq(X)
      BY <3>3, <3>7, SeqDef
    <3> QED BY <3>6, <3>8, <3>9
  <2>2. DOMAIN d.instructions = 1..Len(d.instructions) /\ Len(d.instructions) \in Nat
    BY StepsOf
  <2> DEFINE S == Seq(X) n == Len(d.instructions)
  <2>3. Steps \in [1..n -> S]
    BY <2>1, <2>2
  <2>4. ASSUME NEW x \in X PROVE \E Y : x.inputs \in Seq(Y)
    <3>1. PICK p \in Places : x = PrintAt(p[1], p[2])
      OBVIOUS
    <3>2. PICK i \in DOMAIN d.instructions : p \in {i} \X DOMAIN d.instructions[i].actions
      OBVIOUS
    <3>3. p[1] = i /\ p[2] \in DOMAIN d.instructions[i].actions
      BY <3>2
    <3> HIDE DEF PrintAt
    <3> QED BY <2>1, <3>1, <3>3
  <2> HIDE DEF Steps, S, n
  <2>5. Steps \in Seq(S)
    BY <2>2, <2>3, SeqDef DEF n
  <2> HIDE DEF X
  <2> QED BY <1>2, <2>4, <2>5 DEF IsPrinted, S
<1> QED BY <1>3, <1>4 DEF f

\* ScoresAreFair: the score of a version and a complete draft of it is the same either way, no
\* positive scale matches more amounts than the one chosen, what is used is compared by the
\* longest common subsequence, a recipe is wholly like itself, and a recipe is called scaled if and
\* only if all its amounts are those of the other by one scale (recipe_duplicate_scoring.py,
\* score_recipe_duplicate).
THEOREM FairScores == Spec => []ScoresAreFair
<1>1. WellFormedInv => ScoresAreFair
  <2> DEFINE f == Fingerprint(base) g == Fingerprint(draft)
             Fairness ==
               /\ Score(f, g) = Score(g, f)
               /\ \A s \in Factors :
                    QuantityMatches(f, g, s) <= QuantityMatches(f, g, BestScale(f, g))
               /\ LcsLength(ActionInputs(f), ActionInputs(g)) =
                      CommonLength(ActionInputs(f), ActionInputs(g))
               /\ f = g => Score(f, g) = One /\ ActionReason(f, g) = "matching_structured_actions"
               /\ QuantityReason(f, g) = "proportionally_scaled_quantities" <=>
                      /\ f.ingredients # g.ingredients
                      /\ \E s \in Factors \cup CandidateScales(f, g) :
                           ScaledCores(f, s) = g.ingredients
  <2> SUFFICES ASSUME WellFormedInv, IsComplete(draft) PROVE Fairness
    BY DEF ScoresAreFair
  <2>1. WellFormed(draft) /\ WellFormed(base) /\ IsComplete(base)
    BY VersionsOf, VersionsAssumption DEF WellFormedInv, TypeOK
  <2>2. IsCounted(f) /\ IsPrinted(f) /\ IsCounted(g) /\ IsPrinted(g)
    BY <2>1, PrintOf
  <2> HIDE DEF f, g
  <2>3. \A s \in Factors : IsRatio(s)
    BY FactorsAssumption, RatiosAbove
  <2>4. Score(f, g) = Score(g, f) /\ (f = g => Score(f, g) = One /\ ActionScore(f, g) = One)
    BY <2>2, ScoreOf
  <2>5. f = g => ActionReason(f, g) = "matching_structured_actions"
    BY <2>4 DEF ActionReason
  <2>6. \A s \in Factors : QuantityMatches(f, g, s) <= QuantityMatches(f, g, BestScale(f, g))
    BY <2>2, <2>3, BestScaleOf
  <2>7. LcsLength(ActionInputs(f), ActionInputs(g)) = CommonLength(ActionInputs(f), ActionInputs(g))
    BY <2>2, ActionLists, LcsIsCommon
  <2>8. QuantityReason(f, g) = "proportionally_scaled_quantities" <=>
          /\ f.ingredients # g.ingredients
          /\ \E s \in Factors \cup CandidateScales(f, g) : ScaledCores(f, s) = g.ingredients
    BY <2>2, <2>3, QuantityScoreOf
  <2> QED BY <2>4, <2>5, <2>6, <2>7, <2>8
<1> QED BY <1>1, AlwaysWellFormed, PTL

=============================================================================
