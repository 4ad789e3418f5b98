-------------------------- MODULE ProjectionProofs --------------------------
(***************************************************************************)
(* What the projection keeps for any events, in any order and number of    *)
(* deliveries: the identity of what it applied, the exact progress,        *)
(* well-formed jobs, the totals of every day and the closing balances.     *)
(*                                                                         *)
(* What a sum over the applied events comes to is proved by induction over *)
(* finite sets.  Induction is stated for a family of sets, not for a       *)
(* predicate, and rests on the well-founded order of strict inclusion.     *)
(***************************************************************************)
EXTENDS Projection, FiniteSetTheorems, WellFoundedInduction, TLAPS

(* Sums over finite sets *)

\* A family of subsets of a finite set that is not empty has a member without a smaller one.
LEMMA LeastSubset ==
  ASSUME NEW S, IsFiniteSet(S), NEW T, T \subseteq SUBSET S, T # {}
  PROVE  \E x \in T : \A y \in T : y \subseteq x => y = x
<1>1. T \subseteq FiniteSubsetsOf(S)
  BY FS_Subset, Zenon DEF FiniteSubsetsOf
<1>2. PICK x \in T : \A y \in T : ~(<<y, x>> \in StrictSubsetOrdering(S))
  BY <1>1, FS_StrictSubsetOrderingWellFounded, WFMin, Zenon
<1> QED BY <1>2 DEF StrictSubsetOrdering

\* The element that a fold takes first, and what it leaves.
First(s) == CHOOSE x \in s : TRUE
Rest(s)  == s \ {First(s)}

\* g sums up f over every subset of S.
Sums(f, S, g) ==
  g = [s \in SUBSET S |-> IF s = {} THEN 0 ELSE f[First(s)] + g[Rest(s)]]

LEMMA FirstOf ==
  ASSUME NEW s, s # {}
  PROVE  First(s) \in s /\ Rest(s) \subseteq s /\ Rest(s) # s
BY Zenon DEF First, Rest

\* Two tables of sums agree where both are defined.
LEMMA SumsAgree ==
  ASSUME NEW f, NEW S, NEW T, NEW g, NEW h, Sums(f, S, g), Sums(f, T, h), NEW s, s \subseteq S, s \subseteq T, IsFiniteSet(s)
  PROVE  g[s] = h[s]
<1> DEFINE B == {t \in SUBSET s : g[t] # h[t]}
<1> SUFFICES ASSUME B # {} PROVE FALSE
  BY Zenon
<1>1. PICK t \in B : \A y \in B : y \subseteq t => y = t
  <2>1. B \subseteq SUBSET s
    BY Zenon
  <2> HIDE DEF B
  <2> QED BY <2>1, LeastSubset
<1>2. g[t] = (IF t = {} THEN 0 ELSE f[First(t)] + g[Rest(t)]) /\ h[t] = (IF t = {} THEN 0 ELSE f[First(t)] + h[Rest(t)])
  BY Zenon DEF Sums
<1>3. t # {}
  BY <1>2, Zenon
<1>4. g[Rest(t)] = h[Rest(t)]
  BY <1>1, <1>3, FirstOf, Zenon
<1> QED BY <1>2, <1>3, <1>4, Zenon

\* The table of sums, where there is one.
Table(f, S) == CHOOSE g : Sums(f, S, g)

\* Every finite set has a table of sums.
LEMMA SumsExist ==
  ASSUME NEW f, NEW S, IsFiniteSet(S)
  PROVE  Sums(f, S, Table(f, S))
<1> DEFINE B == {t \in SUBSET S : ~ \E g : Sums(f, t, g)}
<1> SUFFICES ASSUME B # {} PROVE FALSE
  BY Zenon DEF Table
<1>1. PICK t \in B : \A y \in B : y \subseteq t => y = t
  <2>1. B \subseteq SUBSET S
    BY Zenon
  <2> HIDE DEF B
  <2> QED BY <2>1, LeastSubset
<1> DEFINE D(s) == Table(f, s)
           g == [s \in SUBSET t |-> IF s = {} THEN 0 ELSE f[First(s)] + D(Rest(s))[Rest(s)]]
<1>2. ASSUME NEW s \in SUBSET t, s # t
      PROVE  Sums(f, s, D(s))
  BY <1>1, <1>2, Zenon DEF Table
<1>3. ASSUME NEW s \in SUBSET t, s # {}
      PROVE  g[Rest(s)] = D(Rest(s))[Rest(s)]
  <2> DEFINE r == Rest(s)
  <2>1. r \in SUBSET t /\ r # t
    BY <1>3, FirstOf, Zenon
  <2>2. Sums(f, r, D(r))
    BY <1>2, <2>1, Zenon
  <2>3. D(r)[r] = IF r = {} THEN 0 ELSE f[First(r)] + D(r)[Rest(r)]
    BY <2>2, Zenon DEF Sums
  <2>4. g[r] = IF r = {} THEN 0 ELSE f[First(r)] + D(Rest(r))[Rest(r)]
    BY <2>1, Zenon
  <2>5. ASSUME r # {} PROVE D(r)[Rest(r)] = D(Rest(r))[Rest(r)]
    <3>1. Rest(r) \subseteq r /\ Rest(r) \subseteq t /\ Rest(r) # t
      BY <2>1, <2>5, FirstOf, Zenon
    <3>2. Sums(f, Rest(r), D(Rest(r)))
      BY <1>2, <3>1, Zenon
    <3>3. IsFiniteSet(Rest(r))
      BY <3>1, FS_Subset, Zenon
    <3> QED BY <2>2, <3>1, <3>2, <3>3, SumsAgree
  <2> QED BY <2>3, <2>4, <2>5, Zenon
<1>4. Sums(f, t, g)
  <2>1. \A s \in SUBSET t : g[s] = IF s = {} THEN 0 ELSE f[First(s)] + g[Rest(s)]
    BY <1>3, Zenon
  <2>2. g = [s \in SUBSET t |-> g[s]]
    BY Zenon
  <2> HIDE DEF g
  <2> QED BY <2>1, <2>2, Zenon DEF Sums
<1> QED BY <1>1, <1>4, Zenon

\* The sum of the library is the table's entry for the whole set.
LEMMA SumIs ==
  ASSUME NEW f, NEW S
  PROVE  SumFunctionOnSet(f, S) = Table(f, S)[S]
BY Zenon DEF SumFunctionOnSet, FoldFunctionOnSet, MapThenFoldSet, Table, Sums, First, Rest

LEMMA SumEmpty ==
  ASSUME NEW f
  PROVE  SumFunctionOnSet(f, {}) = 0
<1>1. Sums(f, {}, Table(f, {}))
  BY SumsExist, FS_EmptySet, Zenon
<1> QED BY <1>1, SumIs, Zenon DEF Sums

LEMMA SumFirst ==
  ASSUME NEW f, NEW S, IsFiniteSet(S), S # {}
  PROVE  SumFunctionOnSet(f, S) = f[First(S)] + SumFunctionOnSet(f, Rest(S))
<1>1. Rest(S) \subseteq S /\ IsFiniteSet(Rest(S))
  BY FirstOf, FS_Subset, Zenon
<1>2. Sums(f, S, Table(f, S)) /\ Sums(f, Rest(S), Table(f, Rest(S)))
  BY <1>1, SumsExist, Zenon
<1>3. Table(f, S)[S] = f[First(S)] + Table(f, S)[Rest(S)]
  BY <1>2, Zenon DEF Sums
<1>4. Table(f, S)[Rest(S)] = Table(f, Rest(S))[Rest(S)]
  BY <1>1, <1>2, SumsAgree
<1> QED BY <1>3, <1>4, SumIs, Zenon

\* Induction over a finite set, for a family of sets.
LEMMA FiniteInduction ==
  ASSUME NEW S, IsFiniteSet(S), NEW G, \A T \in SUBSET S : (\A U \in SUBSET T : U # T => U \in G) => T \in G
  PROVE  S \in G
<1> DEFINE B == (SUBSET S) \ G
<1> SUFFICES ASSUME B # {} PROVE FALSE
  BY Zenon
<1>1. PICK t \in B : \A y \in B : y \subseteq t => y = t
  <2>1. B \subseteq SUBSET S
    BY Zenon
  <2> HIDE DEF B
  <2> QED BY <2>1, LeastSubset
<1>2. \A U \in SUBSET t : U # t => U \in G
  BY <1>1
<1> QED BY <1>2, Zenon

\* Sums of integers are integers, and of naturals naturals.
LEMMA SumType ==
  ASSUME NEW S, IsFiniteSet(S), NEW f, \A x \in S : f[x] \in Int
  PROVE  /\ SumFunctionOnSet(f, S) \in Int
         /\ (\A x \in S : f[x] \in Nat) => SumFunctionOnSet(f, S) \in Nat
<1> DEFINE Good(T) == /\ SumFunctionOnSet(f, T) \in Int
                      /\ (\A x \in S : f[x] \in Nat) => SumFunctionOnSet(f, T) \in Nat
           G == {T \in SUBSET S : Good(T)}
<1>1. ASSUME NEW T \in SUBSET S, \A U \in SUBSET T : U # T => U \in G
      PROVE  T \in G
  <2>1. CASE T = {}
    BY <2>1, SumEmpty
  <2>2. CASE T # {}
    <3>1. First(T) \in S /\ Rest(T) \in G /\ IsFiniteSet(T)
      BY <1>1, <2>2, FirstOf, FS_Subset, Zenon
    <3>2. SumFunctionOnSet(f, T) = f[First(T)] + SumFunctionOnSet(f, Rest(T))
      BY <2>2, <3>1, SumFirst, Zenon
    <3> QED BY <3>1, <3>2
  <2> QED BY <2>1, <2>2
<1>2. S \in G
  <2> HIDE DEF G
  <2> QED BY <1>1, FiniteInduction
<1> QED BY <1>2, Zenon

\* Any element can be taken out of a sum.
LEMMA SumRemove ==
  ASSUME NEW S, IsFiniteSet(S), NEW f, \A x \in S : f[x] \in Int, NEW c \in S
  PROVE  SumFunctionOnSet(f, S) = f[c] + SumFunctionOnSet(f, S \ {c})
<1> DEFINE Good(T) == \A y \in T : SumFunctionOnSet(f, T) = f[y] + SumFunctionOnSet(f, T \ {y})
           G == {T \in SUBSET S : Good(T)}
<1>1. ASSUME NEW T \in SUBSET S, \A U \in SUBSET T : U # T => U \in G
      PROVE  T \in G
  <2> SUFFICES ASSUME NEW y \in T
               PROVE  SumFunctionOnSet(f, T) = f[y] + SumFunctionOnSet(f, T \ {y})
    BY Zenon
  <2> DEFINE d == First(T)
  <2>1. d \in T /\ IsFiniteSet(T) /\ Rest(T) = T \ {d}
    BY FirstOf, FS_Subset, Zenon DEF Rest
  <2>2. SumFunctionOnSet(f, T) = f[d] + SumFunctionOnSet(f, T \ {d})
    BY <2>1, SumFirst, Zenon
  <2>3. CASE y = d
    BY <2>2, <2>3, Zenon
  <2>4. CASE y # d
    <3> HIDE DEF d
    <3>1. T \ {d} \in G /\ T \ {y} \in G
      BY <1>1, <2>1, Zenon
    <3>2. y \in T \ {d} /\ d \in T \ {y} /\ (T \ {d}) \ {y} = (T \ {y}) \ {d}
      BY <2>1, <2>4, Zenon
    <3>3. SumFunctionOnSet(f, T \ {d}) = f[y] + SumFunctionOnSet(f, (T \ {y}) \ {d})
      BY <3>1, <3>2, Zenon
    <3>4. SumFunctionOnSet(f, T \ {y}) = f[d] + SumFunctionOnSet(f, (T \ {y}) \ {d})
      BY <3>1, <3>2, Zenon
    <3>5. SumFunctionOnSet(f, (T \ {y}) \ {d}) \in Int
      <4>1. IsFiniteSet((T \ {y}) \ {d}) /\ \A x \in (T \ {y}) \ {d} : f[x] \in Int
        BY <2>1, FS_Subset, Zenon
      <4> QED BY <4>1, SumType, Zenon
    <3>6. f[y] \in Int /\ f[d] \in Int
      BY <2>1
    <3> QED BY <2>2, <3>3, <3>4, <3>5, <3>6
  <2> QED BY <2>3, <2>4
<1>2. S \in G
  <2> HIDE DEF G
  <2> QED BY <1>1, FiniteInduction
<1> QED BY <1>2, Zenon

\* One more element adds its own value.
LEMMA SumAdd ==
  ASSUME NEW S, IsFiniteSet(S), NEW f, NEW c, c \notin S, \A x \in S \cup {c} : f[x] \in Int
  PROVE  SumFunctionOnSet(f, S \cup {c}) = SumFunctionOnSet(f, S) + f[c]
<1>1. IsFiniteSet(S \cup {c}) /\ (S \cup {c}) \ {c} = S
  BY FS_AddElement
<1>2. SumFunctionOnSet(f, S \cup {c}) = f[c] + SumFunctionOnSet(f, S)
  BY <1>1, SumRemove
<1>3. SumFunctionOnSet(f, S) \in Int
  BY SumType
<1> QED BY <1>2, <1>3

\* The sum over two sets that have nothing in common.
LEMMA SumUnion ==
  ASSUME NEW A, NEW B, IsFiniteSet(A), IsFiniteSet(B), A \cap B = {}, NEW f, \A x \in A \cup B : f[x] \in Int
  PROVE  SumFunctionOnSet(f, A \cup B) = SumFunctionOnSet(f, A) + SumFunctionOnSet(f, B)
<1> DEFINE G == {T \in SUBSET B : SumFunctionOnSet(f, A \cup T) = SumFunctionOnSet(f, A) + SumFunctionOnSet(f, T)}
<1>0. SumFunctionOnSet(f, A) \in Int
  BY SumType
<1>1. ASSUME NEW T \in SUBSET B, \A U \in SUBSET T : U # T => U \in G
      PROVE  T \in G
  <2>1. CASE T = {}
    <3>1. A \cup T = A
      BY <2>1
    <3> QED BY <1>0, <2>1, <3>1, SumEmpty
  <2>2. CASE T # {}
    <3> DEFINE c == First(T)
               R == Rest(T)
    <3>1. c \in T /\ R \in G /\ R \in SUBSET B /\ IsFiniteSet(R)
      BY <1>1, <2>2, FirstOf, FS_Subset, Zenon
    <3>0. c \notin R /\ T = R \cup {c}
      BY <3>1, Zenon DEF Rest
    <3> HIDE DEF c, R
    <3>2. IsFiniteSet(A \cup R) /\ c \notin A \cup R /\ A \cup T = (A \cup R) \cup {c}
      BY <3>1, <3>0, FS_Union
    <3>3. SumFunctionOnSet(f, A \cup T) = SumFunctionOnSet(f, A \cup R) + f[c]
      <4>1. \A x \in (A \cup R) \cup {c} : f[x] \in Int
        BY <3>1, Zenon
      <4> QED BY <3>2, <4>1, SumAdd
    <3>4. SumFunctionOnSet(f, T) = SumFunctionOnSet(f, R) + f[c]
      <4>1. \A x \in R \cup {c} : f[x] \in Int
        BY <3>1, Zenon
      <4> QED BY <3>1, <3>0, <4>1, SumAdd
    <3>5. f[c] \in Int /\ SumFunctionOnSet(f, R) \in Int
      BY <3>1, SumType
    <3> QED BY <1>0, <3>1, <3>3, <3>4, <3>5
  <2> QED BY <2>1, <2>2
<1>2. B \in G
  <2> HIDE DEF G
  <2> QED BY <1>1, FiniteInduction
<1> QED BY <1>2, Zenon

\* A sum of differences is the difference of the sums.
LEMMA SumMinus ==
  ASSUME NEW S, IsFiniteSet(S), NEW f, NEW g, NEW h,
         \A x \in S : f[x] \in Int /\ g[x] \in Int /\ h[x] = f[x] - g[x]
  PROVE  SumFunctionOnSet(h, S) = SumFunctionOnSet(f, S) - SumFunctionOnSet(g, S)
<1> DEFINE G == {T \in SUBSET S : SumFunctionOnSet(h, T) = SumFunctionOnSet(f, T) - SumFunctionOnSet(g, T)}
<1>1. ASSUME NEW T \in SUBSET S, \A U \in SUBSET T : U # T => U \in G
      PROVE  T \in G
  <2>1. CASE T = {}
    BY <2>1, SumEmpty
  <2>2. CASE T # {}
    <3> DEFINE c == First(T)
               R == Rest(T)
    <3>1. c \in S /\ R \in G /\ R \in SUBSET S /\ IsFiniteSet(T) /\ IsFiniteSet(R)
      BY <1>1, <2>2, FirstOf, FS_Subset, Zenon
    <3>2. /\ SumFunctionOnSet(h, T) = h[c] + SumFunctionOnSet(h, R)
          /\ SumFunctionOnSet(f, T) = f[c] + SumFunctionOnSet(f, R)
          /\ SumFunctionOnSet(g, T) = g[c] + SumFunctionOnSet(g, R)
      BY <2>2, <3>1, SumFirst, Zenon
    <3> HIDE DEF c, R
    <3>3. SumFunctionOnSet(f, R) \in Int /\ SumFunctionOnSet(g, R) \in Int
      BY <3>1, SumType
    <3>4. f[c] \in Int /\ g[c] \in Int /\ h[c] = f[c] - g[c]
      BY <3>1, Zenon
    <3>5. SumFunctionOnSet(h, R) = SumFunctionOnSet(f, R) - SumFunctionOnSet(g, R)
      BY <3>1, Zenon
    <3>6. SumFunctionOnSet(h, T) = SumFunctionOnSet(f, T) - SumFunctionOnSet(g, T)
      BY <3>2, <3>3, <3>4, <3>5
    <3> QED BY <3>6, Zenon
  <2> QED BY <2>1, <2>2
<1>2. S \in G
  <2> HIDE DEF G
  <2> QED BY <1>1, FiniteInduction
<1> QED BY <1>2, Zenon

-----------------------------------------------------------------------------
(* Totals and closing balances *)

\* The events of a day, and those until a day.
Of(I, d)    == {e \in I : e.date = d}
Until(I, d) == {e \in I : e.date <= d}
Preceding(I, d) == {e \in I : e.date < d}

\* The row of a day holds the totals of its events.
DayExact(row, I, d) ==
  /\ row \in Row
  /\ row.credits = SumFunctionOnSet(Credits, Of(I, d))
  /\ row.debits = SumFunctionOnSet(Debits, Of(I, d))
  /\ row.net = row.credits - row.debits
  /\ row.count = Cardinality(Of(I, d))

\* Balances hold the totals of the events I.
Totals(b, I) ==
  /\ DOMAIN b \subseteq Nat
  /\ \A d \in DOMAIN b : DayExact(b[d], I, d)
  /\ \A e \in I : e.date \in DOMAIN b

\* FinancialEffect: one of the two amounts is zero.
LEMMA EffectType ==
  ASSUME NEW e \in Event
  PROVE  /\ Credits[e] \in Nat /\ Debits[e] \in Nat /\ Net[e] \in Int /\ Net[e] = Credits[e] - Debits[e]
         /\ e.date \in Nat
<1>1. e.amount \in Nat /\ e.date \in Nat
  BY DEF Event
<1>2. Credits[e] \in Nat /\ Debits[e] \in Nat
  BY <1>1 DEF Credits, Debits
<1>3. Net[e] = Credits[e] - Debits[e]
  BY Zenon DEF Net
<1> QED BY <1>1, <1>2, <1>3

\* A day that has no events.
LEMMA EmptyDayExact ==
  ASSUME NEW I, NEW d, Of(I, d) = {}
  PROVE  DayExact(EmptyRow, I, d)
<1>1. EmptyRow \in Row
  BY DEF EmptyRow, Row
<1>2. SumFunctionOnSet(Credits, Of(I, d)) = 0 /\ SumFunctionOnSet(Debits, Of(I, d)) = 0 /\ Cardinality(Of(I, d)) = 0
  BY SumEmpty, FS_EmptySet, Zenon
<1> QED BY <1>1, <1>2 DEF DayExact, EmptyRow

\* The upsert adds the event to the totals of its day.
LEMMA AddEntryTotals ==
  ASSUME NEW b, NEW I \in SUBSET Event, IsFiniteSet(I), Totals(b, I), NEW e \in Event, e \notin I
  PROVE  Totals(AddEntry(b, e), I \cup {e})
<1> DEFINE J == I \cup {e}
           day == e.date
           A == AddEntry(b, e)
           old == IF day \in DOMAIN b THEN b[day] ELSE [EmptyRow EXCEPT !.closing = Net[e]]
           new == [credits |-> old.credits + Credits[e], debits |-> old.debits + Debits[e],
                   net |-> old.net + Net[e], count |-> old.count + 1, closing |-> old.closing]
<1>1. Credits[e] \in Nat /\ Debits[e] \in Nat /\ Net[e] \in Int /\ Net[e] = Credits[e] - Debits[e] /\ day \in Nat
  BY EffectType, Zenon
<1>2. DOMAIN A = DOMAIN b \cup {day} /\ A[day] = new /\ \A d \in DOMAIN b : d # day => A[d] = b[d]
  BY Zenon DEF AddEntry
<1>3. DayExact(old, I, day)
  <2>1. CASE day \in DOMAIN b
    BY <2>1, Zenon DEF Totals
  <2>2. CASE day \notin DOMAIN b
    <3>1. Of(I, day) = {}
      BY <2>2, Zenon DEF Totals, Of
    <3>2. DayExact(EmptyRow, I, day)
      BY <3>1, EmptyDayExact, Zenon
    <3>3. old = [EmptyRow EXCEPT !.closing = Net[e]]
      BY <2>2, Zenon
    <3> HIDE DEF old
    <3> QED BY <1>1, <3>2, <3>3 DEF DayExact, EmptyRow, Row
  <2> QED BY <2>1, <2>2
<1>4. Of(J, day) = Of(I, day) \cup {e} /\ e \notin Of(I, day) /\ \A d : d # day => Of(J, d) = Of(I, d)
  BY Zenon DEF Of
<1>5. IsFiniteSet(Of(I, day)) /\ Of(I, day) \subseteq I
  BY FS_Subset, Zenon DEF Of
<1> HIDE DEF old
<1>6. DayExact(new, J, day)
  <2>1. \A x \in Of(I, day) \cup {e} : Credits[x] \in Int /\ Debits[x] \in Int
    BY <1>5, EffectType
  <2>2. /\ SumFunctionOnSet(Credits, Of(J, day)) = SumFunctionOnSet(Credits, Of(I, day)) + Credits[e]
        /\ SumFunctionOnSet(Debits, Of(J, day)) = SumFunctionOnSet(Debits, Of(I, day)) + Debits[e]
    <3> DEFINE D == Of(I, day)
    <3>1. IsFiniteSet(D) /\ e \notin D /\ Of(J, day) = D \cup {e} /\ \A x \in D \cup {e} : Credits[x] \in Int /\ Debits[x] \in Int
      BY <1>4, <1>5, <2>1, Zenon
    <3> HIDE DEF D, J, day
    <3>2. SumFunctionOnSet(Credits, D \cup {e}) = SumFunctionOnSet(Credits, D) + Credits[e]
      BY <3>1, SumAdd
    <3>3. SumFunctionOnSet(Debits, D \cup {e}) = SumFunctionOnSet(Debits, D) + Debits[e]
      BY <3>1, SumAdd
    <3> QED BY <3>1, <3>2, <3>3, Zenon DEF D
  <2>3. Cardinality(Of(J, day)) = Cardinality(Of(I, day)) + 1
    BY <1>4, <1>5, FS_AddElement, Zenon
  <2>4. /\ old \in Row /\ old.credits = SumFunctionOnSet(Credits, Of(I, day))
        /\ old.debits = SumFunctionOnSet(Debits, Of(I, day)) /\ old.net = old.credits - old.debits
        /\ old.count = Cardinality(Of(I, day))
    BY <1>3, Zenon DEF DayExact
  <2>5. old.credits \in Nat /\ old.debits \in Nat /\ old.net \in Int /\ old.count \in Nat /\ old.closing \in Int
    BY <2>4 DEF Row
  <2>6. new \in Row /\ new.net = new.credits - new.debits
    BY <1>1, <2>4, <2>5 DEF Row
  <2>7. /\ new.credits = SumFunctionOnSet(Credits, Of(J, day)) /\ new.debits = SumFunctionOnSet(Debits, Of(J, day))
        /\ new.count = Cardinality(Of(J, day))
    BY <2>2, <2>3, <2>4
  <2> QED BY <2>6, <2>7, Zenon DEF DayExact
<1> HIDE DEF new
<1>7. ASSUME NEW d \in DOMAIN b, d # day
      PROVE  DayExact(A[d], J, d)
  BY <1>2, <1>4, <1>7, Zenon DEF Totals, DayExact
<1>8. \A d \in DOMAIN A : DayExact(A[d], J, d)
  BY <1>2, <1>6, <1>7, Zenon
<1>9. DOMAIN A \subseteq Nat /\ \A x \in J : x.date \in DOMAIN A
  BY <1>1, <1>2, Zenon DEF Totals
<1> HIDE DEF J, A
<1> QED BY <1>8, <1>9, Zenon DEF Totals, J, A

\* A row that is added for a day without events is right.
LEMMA MaterializeTotals ==
  ASSUME NEW b, NEW I, Totals(b, I), NEW first \in Nat, NEW last \in Nat
  PROVE  /\ DOMAIN Materialize(b, first, last) = DOMAIN b \cup (first .. last)
         /\ \A d \in DOMAIN b : Materialize(b, first, last)[d] = b[d]
         /\ Totals(Materialize(b, first, last), I)
<1> DEFINE M == Materialize(b, first, last)
<1>1. DOMAIN M = DOMAIN b \cup (first .. last) /\ \A d \in DOMAIN M : M[d] = IF d \in DOMAIN b THEN b[d] ELSE EmptyRow
  BY Zenon DEF Materialize
<1> HIDE DEF M
<1>2. ASSUME NEW d \in DOMAIN M
      PROVE  DayExact(M[d], I, d)
  <2>1. CASE d \in DOMAIN b
    BY <1>1, <2>1, Zenon DEF Totals
  <2>2. CASE d \notin DOMAIN b
    <3>1. Of(I, d) = {}
      BY <2>2, Zenon DEF Totals, Of
    <3> QED BY <1>1, <2>2, <3>1, EmptyDayExact, Zenon
  <2> QED BY <2>1, <2>2
<1>3. DOMAIN M \subseteq Nat
  BY <1>1 DEF Totals
<1>4. \A e \in I : e.date \in DOMAIN M
  BY <1>1, Zenon DEF Totals
<1>5. Totals(M, I)
  BY <1>2, <1>3, <1>4, Zenon DEF Totals
<1> QED BY <1>1, <1>5, Zenon DEF M

\* A bounded set of numbers has a greatest element.
LEMMA MaxOfBounded ==
  ASSUME NEW S \in SUBSET Nat, S # {}, NEW N \in Nat, \A n \in S : n <= N
  PROVE  Max(S) \in S /\ \A y \in S : Max(S) >= y
<1> DEFINE T == {N - n : n \in S}
<1>1. T \subseteq Nat /\ T # {}
  <2>1. \A n \in S : N - n \in Nat
    OBVIOUS
  <2>2. PICK n \in S : TRUE
    BY Zenon
  <2>3. N - n \in T
    BY Zenon
  <2> QED BY <2>1, <2>3
<1>2. PICK x \in T : \A y \in T : ~(<<y, x>> \in OpToRel(<, Nat))
  BY <1>1, NatLessThanWellFounded, WFMin, Zenon
<1>3. \A y \in T : ~(y < x)
  BY <1>1, <1>2, Zenon DEF OpToRel
<1>4. PICK m \in S : x = N - m
  BY Zenon
<1>5. \A y \in S : m >= y
  <2> SUFFICES ASSUME NEW y \in S PROVE m >= y
    BY Zenon
  <2>1. N - y \in T
    BY Zenon
  <2> QED BY <1>3, <1>4, <2>1
<1> QED BY <1>5 DEF Max

\* What a day nets is the sum over its events.
LEMMA NetOfDay ==
  ASSUME NEW b, NEW I \in SUBSET Event, IsFiniteSet(I), Totals(b, I), NEW d \in DOMAIN b
  PROVE  b[d].net = SumFunctionOnSet(Net, Of(I, d)) /\ b[d].net \in Int
<1> DEFINE D == Of(I, d)
<1>1. IsFiniteSet(D) /\ \A x \in D : Credits[x] \in Int /\ Debits[x] \in Int /\ Net[x] = Credits[x] - Debits[x]
  <2>1. D \subseteq I /\ IsFiniteSet(D)
    BY FS_Subset, Zenon DEF Of
  <2> QED BY <2>1, EffectType
<1>2. SumFunctionOnSet(Net, D) = SumFunctionOnSet(Credits, D) - SumFunctionOnSet(Debits, D)
  <2> HIDE DEF D
  <2> QED BY <1>1, SumMinus
<1>3. DayExact(b[d], I, d)
  BY Zenon DEF Totals
<1>4. b[d].net = SumFunctionOnSet(Net, D)
  BY <1>2, <1>3, Zenon DEF DayExact
<1>5. b[d].net \in Int
  BY <1>3 DEF DayExact, Row
<1> QED BY <1>4, <1>5

\* The sum until a day is the sum before it and the sum of the day.
LEMMA UntilSplit ==
  ASSUME NEW I \in SUBSET Event, IsFiniteSet(I), NEW d \in Nat
  PROVE  /\ SumFunctionOnSet(Net, Until(I, d))
              = SumFunctionOnSet(Net, Preceding(I, d)) + SumFunctionOnSet(Net, Of(I, d))
         /\ SumFunctionOnSet(Net, Preceding(I, d)) \in Int
         /\ SumFunctionOnSet(Net, Of(I, d)) \in Int
<1> DEFINE A == Preceding(I, d)
           B == Of(I, d)
<1>1. \A e \in I : e.date \in Nat /\ Net[e] \in Int
  BY EffectType
<1>2. Until(I, d) = A \cup B /\ A \cap B = {}
  <2>1. \A e \in I : (e.date <= d <=> e.date < d \/ e.date = d) /\ ~(e.date < d /\ e.date = d)
    BY <1>1
  <2> QED BY <2>1, Zenon DEF Until, Preceding, Of
<1>3. IsFiniteSet(A) /\ IsFiniteSet(B) /\ A \subseteq I /\ B \subseteq I
  BY FS_Subset, Zenon DEF Preceding, Of
<1>4. \A x \in A \cup B : Net[x] \in Int
  BY <1>1, <1>3, Zenon
<1> HIDE DEF A, B
<1>5. SumFunctionOnSet(Net, A \cup B) = SumFunctionOnSet(Net, A) + SumFunctionOnSet(Net, B)
  BY <1>2, <1>3, <1>4, SumUnion
<1>6. SumFunctionOnSet(Net, A) \in Int /\ SumFunctionOnSet(Net, B) \in Int
  <2>1. (\A x \in A : Net[x] \in Int) /\ (\A x \in B : Net[x] \in Int)
    BY <1>4, Zenon
  <2> QED BY <1>3, <2>1, SumType
<1> QED BY <1>2, <1>5, <1>6, Zenon DEF A, B

\* The rows that processRecomputeBlock leaves: only the closing balances of the block change.
LEMMA RecomputeRows ==
  ASSUME NEW b, NEW first \in Nat, NEW last \in Nat, NEW d \in DOMAIN b \cup (first .. last)
  PROVE  LET rows == Materialize(b, first, last)
             nets == [x \in DOMAIN rows |-> rows[x].net]
             R == Recompute(b, first, last)
         IN  /\ DOMAIN R = DOMAIN b \cup (first .. last)
             /\ R[d] = [rows[d] EXCEPT !.closing = IF d \in first .. last
                                                   THEN Baseline(rows, first) + SumFunctionOnSet(nets, first .. d)
                                                   ELSE rows[d].closing]
<1>1. DOMAIN Materialize(b, first, last) = DOMAIN b \cup (first .. last)
  BY Zenon DEF Materialize
<1> QED BY <1>1, Zenon DEF Recompute

\* The latest row before a block.
LEMMA BaselineOf ==
  ASSUME NEW b, NEW N \in Nat, DOMAIN b \subseteq 0 .. N, NEW first \in Nat
  PROVE  \/ (\A d \in DOMAIN b : ~(d < first)) /\ Baseline(b, first) = 0
         \/ \E p \in DOMAIN b : /\ p < first /\ Baseline(b, first) = b[p].closing
                                /\ \A d \in DOMAIN b : d < first => d <= p
<1> DEFINE E == {d \in DOMAIN b : d < first}
<1>1. CASE E = {}
  BY <1>1, Zenon DEF Baseline
<1>2. CASE E # {}
  <2>1. E \in SUBSET Nat /\ \A n \in E : n <= N
    OBVIOUS
  <2>2. Max(E) \in E /\ \A y \in E : Max(E) >= y
    <3> HIDE DEF E
    <3> QED BY <1>2, <2>1, MaxOfBounded, Zenon
  <2>3. Baseline(b, first) = b[Max(E)].closing
    BY <1>2, Zenon DEF Baseline
  <2>4. \A d \in DOMAIN b : d < first => d <= Max(E)
    BY <2>1, <2>2
  <2> QED BY <2>2, <2>3, <2>4, Zenon
<1> QED BY <1>1, <1>2

\* The running sum of the nets of a block, day by day.
LEMMA RunningSum ==
  ASSUME NEW b, NEW I \in SUBSET Event, IsFiniteSet(I), Totals(b, I), NEW first \in Nat, NEW d \in Nat,
         first <= d, first .. d \subseteq DOMAIN b, NEW nets,
         \A x \in first .. d : nets[x] = b[x].net
  PROVE  /\ SumFunctionOnSet(nets, first .. d) \in Int
         /\ SumFunctionOnSet(nets, first .. d) + SumFunctionOnSet(Net, Preceding(I, first))
              = SumFunctionOnSet(Net, Until(I, d))
<1> DEFINE S(n) == SumFunctionOnSet(nets, first .. n)
           base == SumFunctionOnSet(Net, Preceding(I, first))
           F(n) == SumFunctionOnSet(Net, Until(I, n))
           B == {n \in first .. d : S(n) + base # F(n)}
<1>1. \A x \in first .. d : nets[x] = SumFunctionOnSet(Net, Of(I, x)) /\ nets[x] \in Int
  BY NetOfDay, Zenon
<1>2. ASSUME NEW n \in Int, n <= d PROVE S(n) \in Int
  <2>1. IsFiniteSet(first .. n)
    BY FS_Interval
  <2>2. \A x \in first .. n : x \in first .. d
    BY <1>2
  <2>3. \A x \in first .. n : nets[x] \in Int
    BY <1>1, <2>2, Zenon
  <2> QED BY <2>1, <2>3, SumType, Zenon
<1>3. base \in Int
  BY UntilSplit, Zenon
<1>4. ASSUME B # {} PROVE FALSE
  <2>1. B \subseteq Nat
    OBVIOUS
  <2>2. PICK n \in B : \A m \in B : ~(<<m, n>> \in OpToRel(<, Nat))
    <3> HIDE DEF B
    <3> QED BY <1>4, <2>1, NatLessThanWellFounded, WFMin, Zenon
  <2>3. \A m \in B : ~(m < n)
    BY <2>1, <2>2, Zenon DEF OpToRel
  <2>4. n \in Nat /\ first <= n /\ n <= d /\ S(n) + base # F(n)
    BY SMT
  <2>5. S(n) = S(n - 1) + nets[n]
    <3> DEFINE D == first .. n
    <3>1. n \in D /\ D \ {n} = first .. (n - 1) /\ \A x \in D : x \in first .. d
      BY <2>4
    <3>2. IsFiniteSet(D) /\ \A x \in D : nets[x] \in Int
      <4>1. IsFiniteSet(D)
        BY <2>4, FS_Interval
      <4>2. \A x \in D : nets[x] \in Int
        BY <1>1, <3>1, Zenon
      <4> QED BY <4>1, <4>2
    <3> HIDE DEF D
    <3>3. SumFunctionOnSet(nets, D) = nets[n] + SumFunctionOnSet(nets, D \ {n})
      BY <3>1, <3>2, SumRemove, Zenon
    <3>4. S(n - 1) \in Int /\ nets[n] \in Int
      BY <1>2, <2>4, <3>1, <3>2
    <3>5. S(n) = nets[n] + S(n - 1)
      BY <3>1, <3>3, Zenon DEF D
    <3> HIDE DEF S
    <3> QED BY <3>4, <3>5
  <2>6. /\ F(n) = SumFunctionOnSet(Net, Preceding(I, n)) + SumFunctionOnSet(Net, Of(I, n))
        /\ SumFunctionOnSet(Net, Preceding(I, n)) \in Int /\ SumFunctionOnSet(Net, Of(I, n)) \in Int
    BY <2>4, UntilSplit, Zenon
  <2>7. nets[n] = SumFunctionOnSet(Net, Of(I, n))
    BY <1>1, <2>4
  <2>8. CASE n = first
    <3>1. first .. (n - 1) = {}
      BY <2>8
    <3>2. S(n - 1) = 0
      BY <3>1, SumEmpty, Zenon
    <3> HIDE DEF S, F
    <3> QED BY <1>3, <2>4, <2>5, <2>6, <2>7, <2>8, <3>2 DEF base
  <2>9. CASE n # first
    <3>1. n - 1 \in first .. d /\ n - 1 < n /\ n - 1 \in Nat
      BY <2>4, <2>9
    <3>2. S(n - 1) + base = F(n - 1)
      BY <2>3, <3>1, Zenon
    <3>3. Until(I, n - 1) = Preceding(I, n)
      <4>1. \A e \in I : e.date <= n - 1 <=> e.date < n
        BY <2>4, EffectType
      <4> QED BY <4>1, Zenon DEF Until, Preceding
    <3>4. F(n - 1) = SumFunctionOnSet(Net, Preceding(I, n))
      BY <3>3, Zenon
    <3>5. S(n - 1) \in Int
      BY <1>2, <2>4
    <3> HIDE DEF S, F, base
    <3> QED BY <1>3, <2>4, <2>5, <2>6, <2>7, <3>2, <3>4, <3>5
  <2> QED BY <2>8, <2>9
<1>5. S(d) + base = F(d)
  <2>1. d \in first .. d
    OBVIOUS
  <2> QED BY <1>4, <2>1, Zenon
<1>6. S(d) \in Int
  BY <1>2
<1> QED BY <1>5, <1>6, Zenon

\* A block keeps the totals, and the closing balances of the other days.
LEMMA RecomputeTotals ==
  ASSUME NEW b, NEW I \in SUBSET Event, IsFiniteSet(I), Totals(b, I),
         NEW N \in Nat, DOMAIN b \subseteq 0 .. N, NEW first \in Nat, NEW last \in Nat
  PROVE  /\ Totals(Recompute(b, first, last), I)
         /\ \A d \in DOMAIN b : d \notin first .. last => Recompute(b, first, last)[d].closing = b[d].closing
<1> DEFINE rows == Materialize(b, first, last)
           nets == [x \in DOMAIN rows |-> rows[x].net]
           R == Recompute(b, first, last)
           closing(d) == IF d \in first .. last THEN Baseline(rows, first) + SumFunctionOnSet(nets, first .. d)
                                                ELSE rows[d].closing
<1>1. DOMAIN rows = DOMAIN b \cup (first .. last) /\ Totals(rows, I) /\ \A d \in DOMAIN b : rows[d] = b[d]
  BY MaterializeTotals, Zenon
<1>2. DOMAIN R = DOMAIN rows /\ \A d \in DOMAIN rows : R[d] = [rows[d] EXCEPT !.closing = closing(d)]
  <2>1. DOMAIN R = DOMAIN rows
    BY Zenon DEF Recompute
  <2> QED BY <1>1, <2>1, RecomputeRows, Zenon
<1>3. \A d \in DOMAIN rows : rows[d] \in Row /\ rows[d].closing \in Int
  <2>1. \A d \in DOMAIN rows : rows[d] \in Row
    BY <1>1, Zenon DEF Totals, DayExact
  <2> QED BY <2>1 DEF Row
<1> HIDE DEF rows, R
<1>4. Baseline(rows, first) \in Int
  <2>1. PICK M \in Nat : DOMAIN rows \subseteq 0 .. M
    <3>1. CASE last <= N
      <4>1. DOMAIN rows \subseteq 0 .. N
        BY <1>1, <3>1
      <4> QED BY <4>1
    <3>2. CASE ~(last <= N)
      <4>1. DOMAIN rows \subseteq 0 .. last
        BY <1>1, <3>2
      <4> QED BY <4>1
    <3> QED BY <3>1, <3>2
  <2> QED BY <1>3, <2>1, BaselineOf
<1>5. ASSUME NEW d \in DOMAIN rows PROVE closing(d) \in Int
  <2>1. CASE d \in first .. last
    <3>1. first .. d \subseteq DOMAIN rows /\ d \in Nat /\ first <= d
      BY <1>1, <2>1
    <3>2. Totals(rows, I) /\ \A x \in first .. d : nets[x] = rows[x].net
      BY <1>1, <3>1, Zenon
    <3> HIDE DEF nets
    <3>3. SumFunctionOnSet(nets, first .. d) \in Int
      BY <3>1, <3>2, RunningSum, Zenon
    <3> QED BY <1>4, <2>1, <3>3
  <2>2. CASE d \notin first .. last
    BY <1>3, <2>2, Zenon
  <2> QED BY <2>1, <2>2
<1> HIDE DEF closing
<1>6. ASSUME NEW d \in DOMAIN rows PROVE DayExact(R[d], I, d)
  <2>1. DayExact(rows[d], I, d)
    BY <1>1, Zenon DEF Totals
  <2>2. R[d] = [rows[d] EXCEPT !.closing = closing(d)] /\ closing(d) \in Int /\ rows[d] \in Row
    BY <1>2, <1>3, <1>5, Zenon
  <2>3. /\ R[d] \in Row /\ R[d].credits = rows[d].credits /\ R[d].debits = rows[d].debits
        /\ R[d].net = rows[d].net /\ R[d].count = rows[d].count
    BY <2>2 DEF Row
  <2> QED BY <2>1, <2>3, Zenon DEF DayExact
<1>7. Totals(R, I)
  BY <1>1, <1>2, <1>6, Zenon DEF Totals
<1>8. ASSUME NEW d \in DOMAIN b, d \notin first .. last PROVE R[d].closing = b[d].closing
  <2>1. R[d] = [rows[d] EXCEPT !.closing = rows[d].closing] /\ rows[d] = b[d] /\ rows[d] \in Row
    BY <1>1, <1>2, <1>3, <1>8, Zenon DEF closing
  <2> QED BY <2>1 DEF Row
<1> QED BY <1>7, <1>8, Zenon DEF R

\* If the days before a block close right, so do the days until its end.
LEMMA RecomputeClosing ==
  ASSUME NEW b, NEW I \in SUBSET Event, IsFiniteSet(I), Totals(b, I),
         NEW N \in Nat, DOMAIN b \subseteq 0 .. N, NEW first \in Nat, NEW last \in Nat,
         \A d \in DOMAIN b : d < first => b[d].closing = SumFunctionOnSet(Net, Until(I, d)),
         NEW day \in DOMAIN Recompute(b, first, last), day <= last
  PROVE  Recompute(b, first, last)[day].closing = SumFunctionOnSet(Net, Until(I, day))
<1> DEFINE rows == Materialize(b, first, last)
           nets == [x \in DOMAIN rows |-> rows[x].net]
           R == Recompute(b, first, last)
           base == SumFunctionOnSet(Net, Preceding(I, first))
<1>1. DOMAIN rows = DOMAIN b \cup (first .. last) /\ Totals(rows, I) /\ \A d \in DOMAIN b : rows[d] = b[d]
  BY MaterializeTotals, Zenon
<1>2. DOMAIN R = DOMAIN b \cup (first .. last)
  BY RecomputeRows, Zenon DEF Recompute, Materialize
<1>3. CASE day \notin first .. last
  <2>1. day \in DOMAIN b /\ day < first
    BY <1>2, <1>3
  <2> QED BY <1>3, <2>1, RecomputeTotals, Zenon
<1>4. CASE day \in first .. last
  <2>1. R[day].closing = Baseline(rows, first) + SumFunctionOnSet(nets, first .. day)
    <3>1. R[day] = [rows[day] EXCEPT !.closing = Baseline(rows, first) + SumFunctionOnSet(nets, first .. day)]
      BY <1>2, <1>4, RecomputeRows, Zenon
    <3>2. rows[day] \in Row
      BY <1>1, <1>2, Zenon DEF Totals, DayExact
    <3> HIDE DEF rows, nets, R
    <3> QED BY <3>1, <3>2 DEF Row
  <2>2. /\ SumFunctionOnSet(nets, first .. day) \in Int
        /\ SumFunctionOnSet(nets, first .. day) + base = SumFunctionOnSet(Net, Until(I, day))
    <3>1. first .. day \subseteq DOMAIN rows /\ day \in Nat /\ first <= day
      BY <1>1, <1>4
    <3>2. Totals(rows, I) /\ \A x \in first .. day : nets[x] = rows[x].net
      BY <1>1, <3>1, Zenon
    <3> HIDE DEF rows, nets
    <3> QED BY <3>1, <3>2, RunningSum
  <2>3. Baseline(rows, first) = base
    <3> HIDE DEF rows
    <3>1. PICK M \in Nat : DOMAIN rows \subseteq 0 .. M
      <4>1. CASE last <= N
        <5>1. DOMAIN rows \subseteq 0 .. N
          BY <1>1, <4>1
        <5> QED BY <5>1
      <4>2. CASE ~(last <= N)
        <5>1. DOMAIN rows \subseteq 0 .. last
          BY <1>1, <4>2
        <5> QED BY <5>1
      <4> QED BY <4>1, <4>2
    <3>2. \A e \in I : e.date \in DOMAIN rows
      BY <1>1, Zenon DEF Totals
    <3>3. CASE (\A d \in DOMAIN rows : ~(d < first)) /\ Baseline(rows, first) = 0
      <4>1. Preceding(I, first) = {}
        BY <3>2, <3>3, Zenon DEF Preceding
      <4> QED BY <3>3, <4>1, SumEmpty, Zenon
    <3>4. ASSUME NEW p \in DOMAIN rows, p < first, Baseline(rows, first) = rows[p].closing,
                 \A d \in DOMAIN rows : d < first => d <= p
          PROVE  Baseline(rows, first) = base
      <4>1. p \in DOMAIN b
        BY <1>1, <3>1, <3>4
      <4>2. rows[p].closing = SumFunctionOnSet(Net, Until(I, p))
        BY <1>1, <3>4, <4>1, Zenon
      <4>3. Until(I, p) = Preceding(I, first)
        <5>1. ASSUME NEW e \in I PROVE e.date <= p <=> e.date < first
          <6>1. e.date \in Nat /\ p \in Nat
            BY <3>1, EffectType
          <6>2. e.date \in DOMAIN rows
            BY <3>2, Zenon
          <6> QED BY <3>4, <6>1, <6>2
        <5> QED BY <5>1, Zenon DEF Until, Preceding
      <4> QED BY <3>4, <4>2, <4>3, Zenon
    <3> QED BY <3>1, <3>3, <3>4, BaselineOf
  <2>4. base \in Int
    BY UntilSplit, Zenon
  <2> HIDE DEF nets, rows, base
  <2>5. Baseline(rows, first) + SumFunctionOnSet(nets, first .. day) = SumFunctionOnSet(Net, Until(I, day))
    BY <2>2, <2>3, <2>4
  <2> QED BY <2>1, <2>5, Zenon
<1> QED BY <1>3, <1>4

-----------------------------------------------------------------------------
(* Progress *)

\* The recursive query stops at the first position that is missing.
LEMMA ContiguousStops ==
  ASSUME NEW from \in Nat, NEW upTo \in Nat, from <= upTo, NEW received
  PROVE  LET c == Contiguous(from, upTo, received)
         IN  /\ c \in from .. upTo /\ (from + 1) .. c \subseteq received
             /\ c < upTo => c + 1 \notin received
<1> DEFINE S == {n \in from .. upTo : (from + 1) .. n \subseteq received}
           c == Contiguous(from, upTo, received)
<1>1. S \in SUBSET Nat /\ from \in S /\ \A n \in S : n <= upTo
  OBVIOUS
<1>2. c \in S /\ \A y \in S : c >= y
  BY <1>1, MaxOfBounded, Zenon DEF Contiguous
<1>3. c < upTo => c + 1 \notin received
  <2> SUFFICES ASSUME c < upTo, c + 1 \in received PROVE FALSE
    BY Zenon
  <2>1. c + 1 \in from .. upTo /\ (from + 1) .. (c + 1) \subseteq received
    BY <1>2
  <2> QED BY <1>2, <2>1
<1> HIDE DEF c
<1> QED BY <1>2, <1>3 DEF c

-----------------------------------------------------------------------------
(* The inductive invariant *)

\* What was refused meets a unique key for good.
IdentityInv ==
  /\ inbox \subseteq Events /\ IsFiniteSet(inbox) /\ IdentityKept
  /\ \A e \in refused : ~Fresh(e)

ProgressInv == source \in Nat /\ applied \in Nat /\ ProgressExact

\* Jobs are well formed, over a finite stretch of days.
JobsInv ==
  /\ \E last \in Nat : DOMAIN balance \subseteq 0 .. last
  /\ jobs \subseteq [id : Nat, next : Nat, through : Nat]
  /\ JobsBounded

\* The totals of all days are right, and their rows well typed.
BalanceInv == Totals(balance, inbox)

\* Every day that no job has still to reach closes right; a job goes on until the last day.
ClosingInv ==
  ~extended =>
    /\ \A j \in jobs : \A d \in DOMAIN balance : d <= j.through
    /\ \A d \in DOMAIN balance :
         (\A j \in jobs : d < j.next) => balance[d].closing = SumFunctionOnSet(Net, Until(inbox, d))

\* The rest of the types.
TypeInv == refused \subseteq Event /\ extended \in BOOLEAN

\* The inductive invariant of the projection.
ProjectionInv == IdentityInv /\ ProgressInv /\ JobsInv /\ BalanceInv /\ ClosingInv /\ TypeInv

\* No second event under an id or a position, whatever is redelivered.
LEMMA IdentityStep ==
  ASSUME IdentityInv, [Next]_vars
  PROVE  IdentityInv'
<1>1. CASE UNCHANGED vars
  BY <1>1, Zenon DEF vars, progress, IdentityInv, IdentityKept, Fresh
<1>2. CASE ResumeNext
  BY <1>2, Zenon DEF ResumeNext, IdentityInv, IdentityKept, Fresh
<1>3. ASSUME NEW e \in Events, ApplyFresh(e)
      PROVE  IdentityInv'
  <2>1. inbox' = inbox \cup {e} /\ accepted' = accepted \cup {e} /\ refused' = refused /\ Fresh(e)
    BY <1>3, Zenon DEF ApplyFresh
  <2>2. e \notin refused
    BY <2>1, Zenon DEF IdentityInv
  <2>3. \A f \in refused : ~Fresh(f)'
    BY <2>1, Zenon DEF IdentityInv, Fresh
  <2>4. \A f, g \in inbox' : f.id = g.id \/ f.position = g.position => f = g
    BY <2>1, Zenon DEF IdentityInv, IdentityKept, Fresh
  <2>5. IsFiniteSet(inbox')
    BY <2>1, FS_AddElement, Zenon DEF IdentityInv
  <2> QED BY <2>1, <2>2, <2>3, <2>4, <2>5 DEF IdentityInv, IdentityKept
<1>4. ASSUME NEW e \in Events, ApplyDuplicate(e)
      PROVE  IdentityInv'
  BY <1>4, Zenon DEF ApplyDuplicate, Identical, IdentityInv, IdentityKept, Fresh
<1>5. ASSUME NEW e \in Events, ApplyConflict(e)
      PROVE  IdentityInv'
  <2>1. inbox' = inbox /\ accepted' = accepted /\ refused' = refused \cup {e} /\ ~Fresh(e) /\ e \notin inbox
    BY <1>5, Zenon DEF ApplyConflict, Identical
  <2>2. \A f \in refused' : ~Fresh(f)'
    BY <2>1, Zenon DEF IdentityInv, Fresh
  <2> QED BY <2>1, <2>2 DEF IdentityInv, IdentityKept
<1> QED BY <1>1, <1>2, <1>3, <1>4, <1>5 DEF Next, Deliver, Apply

\* The received positions advance the progress as far as they follow each other.
LEMMA ProgressStep ==
  ASSUME IdentityInv, ProgressInv, [Next]_vars
  PROVE  ProgressInv'
<1>1. CASE UNCHANGED <<inbox, source, applied, gap>>
  BY <1>1, Zenon DEF ProgressInv, ProgressExact, Received
<1>2. ASSUME NEW e \in Events, ApplyFresh(e)
      PROVE  ProgressInv'
  <2> DEFINE old == Received(inbox)
             new == Received(inbox')
             top == IF e.position > source THEN e.position ELSE source
             c == Contiguous(applied, top, new)
  <2>1. inbox' = inbox \cup {e} /\ source' = top /\ applied' = c /\ gap' = IF c < top THEN c + 1 ELSE None
    BY <1>2, Zenon DEF ApplyFresh, AdvanceProgress
  <2>2. e.position \in Nat \ {0}
    BY ConstantsAssumption, Zenon DEF Event
  <2>3. new = old \cup {e.position}
    BY <2>1, Zenon DEF Received
  <2>4. /\ source \in Nat /\ applied \in Nat /\ 1 .. applied \subseteq old
        /\ old \subseteq 1 .. source /\ (source # 0 => source \in old)
    BY Zenon DEF ProgressInv, ProgressExact
  <2> HIDE DEF old, new, c
  <2>5. applied <= source /\ top \in Nat /\ applied <= top
    <3>1. applied = 0 \/ applied \in old
      BY <2>4
    <3> QED BY <2>2, <2>4, <3>1
  <2>6. c \in applied .. top /\ (applied + 1) .. c \subseteq new /\ (c < top => c + 1 \notin new)
    BY <2>4, <2>5, ContiguousStops, Zenon DEF c
  <2>7. new \subseteq 1 .. top /\ (top # 0 => top \in new)
    <3>1. CASE e.position > source
      <4>1. top = e.position /\ 1 .. source \subseteq 1 .. top /\ top \in 1 .. top
        BY <2>2, <2>4, <3>1
      <4> QED BY <2>3, <2>4, <4>1
    <3>2. CASE ~(e.position > source)
      <4>1. top = source /\ e.position \in 1 .. source
        BY <2>2, <2>4, <3>2
      <4> QED BY <2>3, <2>4, <4>1
    <3> QED BY <3>1, <3>2
  <2>8. 1 .. c \subseteq new
    BY <2>3, <2>4, <2>6
  <2>9. c + 1 \notin new
    BY <2>5, <2>6, <2>7
  <2>10. (IF c < top THEN c + 1 ELSE None) = (IF c = top THEN None ELSE c + 1)
    BY <2>5, <2>6
  <2>11. c \in Nat
    BY <2>4, <2>5, <2>6
  <2>12. ProgressExact'
    BY <2>1, <2>7, <2>8, <2>9, <2>10, Zenon DEF ProgressExact, new
  <2> QED BY <2>1, <2>5, <2>11, <2>12 DEF ProgressInv
<1>3. ASSUME NEW e \in Events, ApplyDuplicate(e) \/ ApplyConflict(e)
      PROVE  UNCHANGED <<inbox, source, applied, gap>>
  BY <1>3, Zenon DEF ApplyDuplicate, ApplyConflict, progress
<1>4. ResumeNext \/ UNCHANGED vars => UNCHANGED <<inbox, source, applied, gap>>
  BY Zenon DEF ResumeNext, vars, progress
<1> QED BY <1>1, <1>2, <1>3, <1>4 DEF Next, Deliver, Apply

\* A block begins and ends inside the range of its job.
LEMMA BlockInRange ==
  ASSUME NEW next \in Nat, NEW through \in Nat, next <= through
  PROVE  BlockEnd(next, through) \in next .. through
BY ConstantsAssumption DEF BlockEnd

\* A recomputation adds the days of its block, and no others.
LEMMA RecomputeDays ==
  ASSUME NEW b, NEW first \in Nat, NEW last \in Nat
  PROVE  DOMAIN Recompute(b, first, last) = DOMAIN b \cup (first .. last)
BY Zenon DEF Recompute, Materialize

\* What is left of a job after a block starts behind the days of the block.
LEMMA ContinueBounded ==
  ASSUME NEW job \in [id : Nat, next : Nat, through : Nat], job.next <= job.through,
         NEW days, job.through \in days, job.next .. BlockEnd(job.next, job.through) \subseteq days,
         NEW k \in Continue(job)
  PROVE  /\ k \in [id : Nat, next : Nat, through : Nat] /\ k.next <= k.through /\ k.through \in days
         /\ \E d \in days : d < k.next
<1> DEFINE last == BlockEnd(job.next, job.through)
<1>1. last \in job.next .. job.through
  BY BlockInRange, Zenon
<1> HIDE DEF last
<1>2. last < job.through /\ k = [job EXCEPT !.next = last + 1]
  BY Zenon DEF Continue, last
<1>3. k.next = last + 1 /\ k.through = job.through /\ k.id = job.id
  BY <1>2, Zenon
<1>4. k \in [id : Nat, next : Nat, through : Nat]
  BY <1>1, <1>2
<1>5. last \in days /\ last < last + 1 /\ last + 1 <= job.through
  BY <1>1, <1>2 DEF last
<1> QED BY <1>3, <1>4, <1>5

\* The days of a new entry's job: from its own day to the last one, which the block does not pass.
LEMMA FreshBlock ==
  ASSUME JobsInv, NEW e \in Events
  PROVE  LET added == AddEntry(balance, e)
             through == LastDay(added)
         IN  /\ e.date \in Nat /\ through \in Nat
             /\ DOMAIN added = DOMAIN balance \cup {e.date}
             /\ through \in DOMAIN added /\ DOMAIN added \subseteq 0 .. through
             /\ BlockEnd(e.date, through) \in e.date .. through
<1> DEFINE added == AddEntry(balance, e)
           through == LastDay(added)
<1>1. e.date \in Nat
  BY ConstantsAssumption, Zenon DEF Event
<1>2. DOMAIN added = DOMAIN balance \cup {e.date}
  BY Zenon DEF AddEntry
<1>3. PICK N \in Nat : DOMAIN balance \subseteq 0 .. N
  BY Zenon DEF JobsInv
<1> HIDE DEF added
<1>4. PICK M \in Nat : DOMAIN added \subseteq 0 .. M
  <2>1. CASE e.date > N
    <3>1. DOMAIN added \subseteq 0 .. e.date
      BY <1>1, <1>2, <1>3, <2>1
    <3> QED BY <1>1, <3>1
  <2>2. CASE ~(e.date > N)
    <3>1. DOMAIN added \subseteq 0 .. N
      BY <1>1, <1>2, <1>3, <2>2
    <3> QED BY <3>1
  <2> QED BY <2>1, <2>2
<1>5. through \in DOMAIN added /\ \A d \in DOMAIN added : through >= d
  <2>1. DOMAIN added \in SUBSET Nat /\ DOMAIN added # {} /\ \A d \in DOMAIN added : d <= M
    BY <1>2, <1>4
  <2> QED BY <2>1, MaxOfBounded DEF LastDay
<1> HIDE DEF through
<1>6. through \in Nat /\ DOMAIN added \subseteq 0 .. through /\ e.date <= through
  BY <1>1, <1>2, <1>4, <1>5
<1>7. BlockEnd(e.date, through) \in e.date .. through
  BY <1>1, <1>6, BlockInRange, Zenon
<1> QED BY <1>1, <1>2, <1>5, <1>6, <1>7, Zenon DEF added, through

\* Every job stays inside the days that have a row.
LEMMA JobsStep ==
  ASSUME IdentityInv, JobsInv, [Next]_vars
  PROVE  JobsInv'
<1> USE ConstantsAssumption
<1>1. CASE UNCHANGED <<balance, jobs>>
  BY <1>1, Zenon DEF JobsInv, JobsBounded
<1>2. ASSUME NEW e \in Events, ApplyFresh(e)
      PROVE  JobsInv'
  <2> DEFINE added == AddEntry(balance, e)
             job == NewJob(e, LastDay(added))
             last == BlockEnd(job.next, job.through)
  <2>1. balance' = Recompute(added, job.next, last) /\ jobs' = jobs \cup Continue(job)
    BY <1>2, Zenon DEF ApplyFresh
  <2>2. /\ e.date \in Nat /\ LastDay(added) \in Nat
        /\ DOMAIN added = DOMAIN balance \cup {e.date}
        /\ LastDay(added) \in DOMAIN added /\ DOMAIN added \subseteq 0 .. LastDay(added)
        /\ BlockEnd(e.date, LastDay(added)) \in e.date .. LastDay(added)
    BY FreshBlock, Zenon
  <2> HIDE DEF added
  <2>3. job.next = e.date /\ job.through = LastDay(added)
    BY Zenon DEF NewJob
  <2>4. last \in e.date .. LastDay(added) /\ e.date <= LastDay(added)
    <3>1. last \in e.date .. LastDay(added)
      BY <2>2, <2>3, Zenon
    <3> QED BY <2>2, <3>1
  <2>5. job \in [id : Nat, next : Nat, through : Nat]
    <3>1. Cardinality(inbox) \in Nat
      BY FS_CardinalityType, Zenon DEF IdentityInv
    <3> QED BY <2>2, <3>1 DEF NewJob
  <2> HIDE DEF job
  <2>6. DOMAIN balance' = DOMAIN balance \cup {e.date} \cup (e.date .. last)
    <3>1. e.date \in Nat /\ last \in Nat
      BY <2>2, <2>4
    <3>2. DOMAIN Recompute(added, e.date, last) = DOMAIN added \cup (e.date .. last)
      BY <3>1, RecomputeDays, Zenon
    <3> QED BY <2>1, <2>2, <2>3, <3>2
  <2>7. DOMAIN balance' \subseteq 0 .. LastDay(added)
    BY <2>2, <2>4, <2>6
  <2>8. LastDay(added) \in DOMAIN balance'
    BY <2>2, <2>6, Zenon
  <2>9. ASSUME NEW k \in Continue(job)
        PROVE  /\ k \in [id : Nat, next : Nat, through : Nat]
               /\ k.next <= k.through /\ k.through \in DOMAIN balance' /\ \E d \in DOMAIN balance' : d < k.next
    <3>1. job.next <= job.through /\ job.through \in DOMAIN balance' /\ job.next .. last \subseteq DOMAIN balance'
      BY <2>3, <2>4, <2>6, <2>8, Zenon
    <3> QED BY <2>5, <3>1, ContinueBounded
  <2>10. ASSUME NEW k \in jobs
         PROVE  k.next <= k.through /\ k.through \in DOMAIN balance' /\ \E d \in DOMAIN balance' : d < k.next
    BY <2>6, Zenon DEF JobsInv, JobsBounded
  <2>11. JobsBounded'
    BY <2>1, <2>9, <2>10, Zenon DEF JobsBounded
  <2> QED BY <2>1, <2>2, <2>7, <2>9, <2>11 DEF JobsInv
<1>3. ASSUME NEW j \in jobs, balance' = Recompute(balance, j.next, BlockEnd(j.next, j.through)),
             jobs' = (jobs \ {j}) \cup Continue(j)
      PROVE  JobsInv'
  <2> DEFINE last == BlockEnd(j.next, j.through)
  <2>1. j \in [id : Nat, next : Nat, through : Nat] /\ j.next <= j.through /\ j.through \in DOMAIN balance
    BY Zenon DEF JobsInv, JobsBounded
  <2>2. last \in j.next .. j.through
    BY <2>1, BlockInRange, Zenon
  <2>3. DOMAIN balance' = DOMAIN balance \cup (j.next .. last)
    <3>1. last \in Nat
      BY <2>1, <2>2
    <3> HIDE DEF last
    <3>2. DOMAIN Recompute(balance, j.next, last) = DOMAIN balance \cup (j.next .. last)
      BY <2>1, <3>1, RecomputeDays, Zenon
    <3> QED BY <1>3, <3>2 DEF last
  <2>4. PICK N \in Nat : DOMAIN balance \subseteq 0 .. N
    BY Zenon DEF JobsInv
  <2> HIDE DEF last
  <2>5. DOMAIN balance' \subseteq 0 .. N
    BY <2>1, <2>2, <2>3, <2>4
  <2>6. ASSUME NEW k \in Continue(j)
        PROVE  /\ k \in [id : Nat, next : Nat, through : Nat]
               /\ k.next <= k.through /\ k.through \in DOMAIN balance' /\ \E d \in DOMAIN balance' : d < k.next
    BY <2>1, <2>3, ContinueBounded, Zenon DEF last
  <2>7. ASSUME NEW k \in jobs
        PROVE  k.next <= k.through /\ k.through \in DOMAIN balance' /\ \E d \in DOMAIN balance' : d < k.next
    BY <2>3, Zenon DEF JobsInv, JobsBounded
  <2>8. JobsBounded'
    BY <1>3, <2>6, <2>7, Zenon DEF JobsBounded
  <2> QED BY <1>3, <2>5, <2>6, <2>8 DEF JobsInv
<1>4. ASSUME NEW e \in Events, ApplyDuplicate(e) \/ ApplyConflict(e)
      PROVE  UNCHANGED <<balance, jobs>>
  BY <1>4, Zenon DEF ApplyDuplicate, ApplyConflict
<1>5. UNCHANGED vars => UNCHANGED <<balance, jobs>>
  BY Zenon DEF vars
<1> QED BY <1>1, <1>2, <1>3, <1>4, <1>5 DEF Next, Deliver, Apply, ResumeNext

\* The totals stay exact.
LEMMA BalanceStep ==
  ASSUME IdentityInv, JobsInv, BalanceInv, [Next]_vars
  PROVE  BalanceInv'
<1> USE ConstantsAssumption
<1>0. inbox \in SUBSET Event /\ IsFiniteSet(inbox)
  BY DEF IdentityInv
<1>1. CASE UNCHANGED <<balance, inbox>>
  BY <1>1, Zenon DEF BalanceInv, Totals, DayExact, Of
<1>2. ASSUME NEW e \in Events, ApplyFresh(e)
      PROVE  BalanceInv'
  <2> DEFINE added == AddEntry(balance, e)
             through == LastDay(added)
             last == BlockEnd(e.date, through)
             J == inbox \cup {e}
  <2>1. inbox' = J /\ balance' = Recompute(added, e.date, last) /\ e \notin inbox
    BY <1>2, Zenon DEF ApplyFresh, NewJob, Fresh
  <2>2. e.date \in Nat /\ through \in Nat /\ last \in Nat /\ DOMAIN added \subseteq 0 .. through
    <3>1. last \in e.date .. through /\ e.date \in Nat /\ through \in Nat /\ DOMAIN added \subseteq 0 .. through
      BY FreshBlock, Zenon
    <3> HIDE DEF last, through, added
    <3> QED BY <3>1
  <2>3. J \in SUBSET Event /\ IsFiniteSet(J) /\ e \in Event
    BY <1>0, FS_AddElement, Zenon
  <2>4. Totals(added, J)
    BY <1>0, <2>1, <2>3, AddEntryTotals, Zenon DEF BalanceInv
  <2> HIDE DEF added, through, last, J
  <2>5. Totals(Recompute(added, e.date, last), J)
    BY <2>2, <2>3, <2>4, RecomputeTotals
  <2> QED BY <2>1, <2>5, Zenon DEF BalanceInv
<1>3. ASSUME NEW j \in jobs, balance' = Recompute(balance, j.next, BlockEnd(j.next, j.through)), inbox' = inbox
      PROVE  BalanceInv'
  <2> DEFINE last == BlockEnd(j.next, j.through)
  <2>1. j.next \in Nat /\ j.through \in Nat /\ j.next <= j.through
    BY DEF JobsInv, JobsBounded
  <2>2. last \in Nat
    <3>1. last \in j.next .. j.through
      BY <2>1, BlockInRange, Zenon
    <3> HIDE DEF last
    <3> QED BY <2>1, <3>1
  <2>3. PICK N \in Nat : DOMAIN balance \subseteq 0 .. N
    BY Zenon DEF JobsInv
  <2> HIDE DEF last
  <2>4. Totals(Recompute(balance, j.next, last), inbox)
    BY <1>0, <2>1, <2>2, <2>3, RecomputeTotals DEF BalanceInv
  <2> QED BY <1>3, <2>4, Zenon DEF BalanceInv, last
<1>4. ASSUME NEW e \in Events, ApplyDuplicate(e) \/ ApplyConflict(e)
      PROVE  UNCHANGED <<balance, inbox>>
  BY <1>4, Zenon DEF ApplyDuplicate, ApplyConflict
<1>5. UNCHANGED vars => UNCHANGED <<balance, inbox>>
  BY Zenon DEF vars
<1> QED BY <1>1, <1>2, <1>3, <1>4, <1>5, Zenon DEF Next, Deliver, Apply, ResumeNext

\* Closing balances stay right where no job has still to come.
LEMMA ClosingStep ==
  ASSUME IdentityInv, JobsInv, BalanceInv, ClosingInv, [Next]_vars
  PROVE  ClosingInv'
<1> USE ConstantsAssumption
<1> DEFINE F(I, d) == SumFunctionOnSet(Net, Until(I, d))
<1>0. inbox \in SUBSET Event /\ IsFiniteSet(inbox) /\ DOMAIN balance \subseteq Nat
  BY DEF IdentityInv, BalanceInv, Totals
<1>1. CASE UNCHANGED <<balance, inbox, jobs, extended>>
  BY <1>1, Zenon DEF ClosingInv
<1>2. ASSUME NEW e \in Events, ApplyFresh(e), ~extended'
      PROVE  /\ \A j \in jobs' : \A d \in DOMAIN balance' : d <= j.through
             /\ \A d \in DOMAIN balance' : (\A j \in jobs' : d < j.next) => balance'[d].closing = F(inbox', d)
  <2> DEFINE added == AddEntry(balance, e)
             through == LastDay(added)
             last == BlockEnd(e.date, through)
             job == NewJob(e, through)
             J == inbox \cup {e}
             R == Recompute(added, e.date, last)
  <2>1. /\ inbox' = J /\ balance' = R /\ e \notin inbox /\ jobs' = jobs \cup Continue(job)
        /\ ~extended /\ (jobs # {} => \E d \in DOMAIN balance : ~(d < e.date))
    BY <1>2, Zenon DEF ApplyFresh, NewJob, Fresh
  <2>2. /\ e.date \in Nat /\ through \in Nat /\ last \in e.date .. through
        /\ DOMAIN added = DOMAIN balance \cup {e.date} /\ through \in DOMAIN added /\ DOMAIN added \subseteq 0 .. through
    BY FreshBlock, Zenon
  <2>3. J \in SUBSET Event /\ IsFiniteSet(J) /\ e \in Event
    BY <1>0, FS_AddElement, Zenon
  <2>4. Totals(added, J)
    BY <1>0, <2>1, <2>3, AddEntryTotals, Zenon DEF BalanceInv
  <2>5. \A d \in DOMAIN balance : d # e.date => added[d] = balance[d]
    BY Zenon DEF AddEntry
  <2>6. \A k \in Continue(job) : last < through /\ k.next = last + 1 /\ k.through = through
    BY Zenon DEF Continue, NewJob
  <2>7. last < through => \E k \in Continue(job) : k.next = last + 1
    BY Zenon DEF Continue, NewJob
  <2>8. /\ \A j \in jobs : j.next \in Nat /\ j.through \in Nat /\ \A d \in DOMAIN balance : d <= j.through
        /\ \A d \in DOMAIN balance : (\A j \in jobs : d < j.next) => balance[d].closing = F(inbox, d)
    <3>1. \A j \in jobs : j.next \in Nat /\ j.through \in Nat
      BY DEF JobsInv
    <3> QED BY <2>1, <3>1, Zenon DEF ClosingInv
  <2>9. \A d \in DOMAIN balance : d < e.date => Until(J, d) = Until(inbox, d)
    <3>1. \A d \in DOMAIN balance : d < e.date => ~(e.date <= d)
      BY <1>0, <2>2
    <3> QED BY <3>1, Zenon DEF Until
  <2> HIDE DEF added, through, job, J, R, F
  <2> HIDE DEF last
  <2>0. e.date \in Nat /\ last \in Nat
    BY <2>2
  <2>10. DOMAIN R = DOMAIN added \cup (e.date .. last)
    <3>1. DOMAIN Recompute(added, e.date, last) = DOMAIN added \cup (e.date .. last)
      BY <2>0, RecomputeDays, Zenon
    <3> QED BY <3>1, Zenon DEF R
  <2>11. DOMAIN R \subseteq 0 .. through
    BY <2>2, <2>10
  <2>12. ASSUME NEW j \in jobs PROVE through <= j.through
    <3>1. CASE through \in DOMAIN balance
      BY <2>8, <3>1, Zenon
    <3>2. CASE through = e.date
      <4>1. PICK d \in DOMAIN balance : ~(d < e.date)
        BY <2>1, Zenon
      <4>2. d <= j.through /\ d \in Nat /\ j.through \in Nat
        BY <1>0, <2>8, Zenon
      <4> QED BY <2>2, <3>2, <4>1, <4>2
    <3> QED BY <2>2, <3>1, <3>2
  <2>13. ASSUME NEW j \in jobs', NEW d \in DOMAIN R PROVE d <= j.through
    <3>1. j.through \in Nat /\ through <= j.through
      <4>1. CASE j \in jobs
        BY <2>8, <2>12, <4>1
      <4>2. CASE j \in Continue(job)
        BY <2>2, <2>6, <4>2
      <4> QED BY <2>1, <4>1, <4>2
    <3> QED BY <2>2, <2>11, <3>1
  <2>14. ASSUME NEW d \in DOMAIN R, \A j \in jobs' : d < j.next
         PROVE  R[d].closing = F(J, d)
    <3>1. d \in Nat /\ d <= through
      BY <2>11
    <3>2. \A j \in jobs : d < j.next
      BY <2>1, <2>14, Zenon
    <3>3. d <= last
      <4>1. CASE last < through
        <5>1. d < last + 1
          BY <2>1, <2>7, <2>14, <4>1, Zenon
        <5> QED BY <2>0, <3>1, <5>1
      <4>2. CASE ~(last < through)
        BY <2>2, <2>0, <3>1, <4>2
      <4> QED BY <4>1, <4>2
    <3>4. CASE d < e.date
      <4>1. d \in DOMAIN balance /\ d # e.date /\ d \notin e.date .. last
        BY <2>2, <2>0, <2>10, <3>1, <3>4
      <4>2. balance[d].closing = F(J, d)
        BY <2>8, <2>9, <3>2, <3>4, <4>1, Zenon DEF F
      <4>3. R[d].closing = added[d].closing
        BY <2>2, <2>3, <2>4, <2>0, <4>1, RecomputeTotals DEF R
      <4> QED BY <2>5, <4>1, <4>2, <4>3, Zenon
    <3>5. CASE ~(d < e.date)
      <4>1. ASSUME NEW c \in DOMAIN added, c < e.date
            PROVE  added[c].closing = F(J, c)
        <5>1. c \in DOMAIN balance /\ c # e.date /\ c \in Nat
          BY <1>0, <2>2, <4>1
        <5>2. \A j \in jobs : c < j.next
          BY <2>2, <2>8, <3>1, <3>2, <3>5, <4>1, <5>1
        <5>3. balance[c].closing = F(inbox, c)
          BY <2>8, <5>1, <5>2, Zenon
        <5> QED BY <2>5, <2>9, <4>1, <5>1, <5>3, Zenon DEF F
      <4>2. \A c \in DOMAIN added : c < e.date => added[c].closing = SumFunctionOnSet(Net, Until(J, c))
        BY <4>1, Zenon DEF F
      <4>3. Recompute(added, e.date, last)[d].closing = SumFunctionOnSet(Net, Until(J, d))
        <5>1. d \in DOMAIN Recompute(added, e.date, last)
          BY Zenon DEF R
        <5> QED BY <2>2, <2>3, <2>4, <2>0, <3>3, <4>2, <5>1, RecomputeClosing
      <4> QED BY <4>3, Zenon DEF R, F
    <3> QED BY <3>4, <3>5
  <2> QED BY <2>1, <2>13, <2>14, Zenon
<1>3. ASSUME NEW j \in jobs, NextJob(j), balance' = Recompute(balance, j.next, BlockEnd(j.next, j.through)),
             inbox' = inbox, jobs' = (jobs \ {j}) \cup Continue(j), extended' = extended, ~extended
      PROVE  /\ \A k \in jobs' : \A d \in DOMAIN balance' : d <= k.through
             /\ \A d \in DOMAIN balance' : (\A k \in jobs' : d < k.next) => balance'[d].closing = F(inbox, d)
  <2> DEFINE last == BlockEnd(j.next, j.through)
             R == Recompute(balance, j.next, last)
  <2>1. \A k \in jobs : k.next \in Nat /\ k.through \in Nat /\ k.next <= k.through /\ k.through \in DOMAIN balance
    BY DEF JobsInv, JobsBounded
  <2>2. /\ \A k \in jobs : \A d \in DOMAIN balance : d <= k.through
        /\ \A d \in DOMAIN balance : (\A k \in jobs : d < k.next) => balance[d].closing = F(inbox, d)
    BY <1>3, Zenon DEF ClosingInv
  <2>3. last \in j.next .. j.through
    BY <2>1, BlockInRange, Zenon
  <2>4. \A k \in Continue(j) : last < j.through /\ k.next = last + 1 /\ k.through = j.through
    <3>1. j \in [id : Nat, next : Nat, through : Nat]
      BY Zenon DEF JobsInv
    <3> QED BY <3>1 DEF Continue
  <2>5. last < j.through => \E k \in Continue(j) : k.next = last + 1
    <3>1. j \in [id : Nat, next : Nat, through : Nat]
      BY Zenon DEF JobsInv
    <3> QED BY <3>1 DEF Continue
  <2> HIDE DEF last, F
  <2>6. last \in Nat
    BY <2>1, <2>3
  <2>7. DOMAIN R = DOMAIN balance \cup (j.next .. last)
    BY <2>1, <2>6, RecomputeDays, Zenon
  <2> HIDE DEF R
  <2>8. ASSUME NEW k \in jobs', NEW d \in DOMAIN R PROVE d <= k.through
    <3>1. k.through \in Nat /\ j.through <= k.through /\ \A c \in DOMAIN balance : c <= k.through
      <4>1. CASE k \in jobs
        BY <2>1, <2>2, <4>1, Zenon
      <4>2. CASE k \in Continue(j)
        BY <2>1, <2>2, <2>4, <4>2
      <4> QED BY <1>3, <4>1, <4>2
    <3> QED BY <2>1, <2>3, <2>6, <2>7, <3>1
  <2>9. ASSUME NEW d \in DOMAIN R, \A k \in jobs' : d < k.next
        PROVE  R[d].closing = F(inbox, d)
    <3>1. d \in Nat /\ d <= j.through
      BY <1>0, <2>1, <2>2, <2>3, <2>6, <2>7
    <3>2. d <= last
      <4>1. CASE last < j.through
        <5>1. d < last + 1
          BY <1>3, <2>5, <2>9, <4>1, Zenon
        <5> QED BY <2>6, <3>1, <5>1
      <4>2. CASE ~(last < j.through)
        BY <2>1, <2>3, <2>6, <3>1, <4>2
      <4> QED BY <4>1, <4>2
    <3>3. ASSUME NEW c \in DOMAIN balance, c < j.next
          PROVE  balance[c].closing = SumFunctionOnSet(Net, Until(inbox, c))
      <4>1. \A k \in jobs : c < k.next
        BY <1>0, <1>3, <2>1, <3>3 DEF NextJob
      <4> QED BY <2>2, <4>1, Zenon DEF F
    <3>4. PICK N \in Nat : DOMAIN balance \subseteq 0 .. N
      BY Zenon DEF JobsInv
    <3>5. Recompute(balance, j.next, last)[d].closing = SumFunctionOnSet(Net, Until(inbox, d))
      <4>1. d \in DOMAIN Recompute(balance, j.next, last)
        BY Zenon DEF R
      <4>2. Totals(balance, inbox)
        BY Zenon DEF BalanceInv
      <4> QED BY <1>0, <2>1, <2>6, <3>2, <3>3, <3>4, <4>1, <4>2, RecomputeClosing
    <3> QED BY <3>5, Zenon DEF R, F
  <2> QED BY <1>3, <2>8, <2>9, Zenon DEF R, last
<1>4. ASSUME NEW e \in Events, ApplyDuplicate(e) \/ ApplyConflict(e)
      PROVE  UNCHANGED <<balance, inbox, jobs, extended>>
  BY <1>4, Zenon DEF ApplyDuplicate, ApplyConflict
<1>5. UNCHANGED vars => UNCHANGED <<balance, inbox, jobs, extended>>
  BY Zenon DEF vars
<1>6. CASE \E e \in Events : ApplyFresh(e)
  BY <1>2, <1>6, Zenon DEF ClosingInv
<1>7. CASE ResumeNext
  <2> SUFFICES ASSUME ~extended'
               PROVE  /\ \A k \in jobs' : \A d \in DOMAIN balance' : d <= k.through
                      /\ \A d \in DOMAIN balance' : (\A k \in jobs' : d < k.next) => balance'[d].closing = F(inbox', d)
    BY Zenon DEF ClosingInv
  <2>1. inbox' = inbox /\ extended' = extended
    BY <1>7, Zenon DEF ResumeNext
  <2>2. PICK j \in jobs : /\ NextJob(j) /\ balance' = Recompute(balance, j.next, BlockEnd(j.next, j.through))
                          /\ jobs' = (jobs \ {j}) \cup Continue(j)
    BY <1>7, Zenon DEF ResumeNext
  <2> HIDE DEF F
  <2> QED BY <1>3, <2>1, <2>2
<1> QED BY <1>1, <1>4, <1>5, <1>6, <1>7, Zenon DEF Next, Deliver, Apply

\* What is refused is an event; extended is a flag.
LEMMA TypeStep ==
  ASSUME TypeInv, [Next]_vars
  PROVE  TypeInv'
<1> USE ConstantsAssumption
<1>1. CASE UNCHANGED <<refused, extended>>
  BY <1>1, Zenon DEF TypeInv
<1>2. ASSUME NEW e \in Events, ApplyFresh(e)
      PROVE  TypeInv'
  BY <1>2, Zenon DEF ApplyFresh, TypeInv
<1>3. ASSUME NEW e \in Events, ApplyConflict(e)
      PROVE  TypeInv'
  BY <1>3, Zenon DEF ApplyConflict, TypeInv
<1>4. ASSUME NEW e \in Events, ApplyDuplicate(e)
      PROVE  UNCHANGED <<refused, extended>>
  BY <1>4, Zenon DEF ApplyDuplicate
<1>5. ResumeNext \/ UNCHANGED vars => UNCHANGED <<refused, extended>>
  BY Zenon DEF ResumeNext, vars
<1> QED BY <1>1, <1>2, <1>3, <1>4, <1>5, Zenon DEF Next, Deliver, Apply

-----------------------------------------------------------------------------
(* The theorems *)

\* An empty projection satisfies the invariant.
LEMMA ProjectionStart == Init => ProjectionInv
<1> SUFFICES ASSUME Init PROVE ProjectionInv
  BY Zenon
<1>1. IdentityInv
  BY FS_EmptySet, Zenon DEF Init, IdentityInv, IdentityKept
<1>2. ProgressInv
  BY DEF Init, ProgressInv, ProgressExact, Received
<1>3. JobsInv
  <2>1. DOMAIN balance \subseteq 0 .. 0
    BY Zenon DEF Init
  <2> QED BY <2>1 DEF Init, JobsInv, JobsBounded
<1>4. BalanceInv
  BY Zenon DEF Init, BalanceInv, Totals
<1>5. ClosingInv
  BY Zenon DEF Init, ClosingInv
<1>6. TypeInv
  BY Zenon DEF Init, TypeInv
<1> QED BY <1>1, <1>2, <1>3, <1>4, <1>5, <1>6, Zenon DEF ProjectionInv

\* Every step of the projection keeps it.
LEMMA ProjectionStep ==
  ASSUME ProjectionInv, [Next]_vars
  PROVE  ProjectionInv'
BY IdentityStep, ProgressStep, JobsStep, BalanceStep, ClosingStep, TypeStep, Zenon DEF ProjectionInv

\* The invariant in the terms of Projection.
LEMMA ProjectionFacts ==
  ASSUME ProjectionInv
  PROVE  TypeOK /\ TotalsExact /\ ClosingExact
<1> USE ConstantsAssumption
<1>1. /\ inbox \subseteq Event /\ DOMAIN balance \subseteq Nat
      /\ \A d \in DOMAIN balance : DayExact(balance[d], inbox, d)
      /\ \A e \in inbox : e.date \in DOMAIN balance
  BY Zenon DEF ProjectionInv, BalanceInv, IdentityInv, Totals
<1>2. TypeOK
  <2>1. gap \in Nat \cup {None} /\ source \in Nat /\ applied \in Nat
    BY DEF ProjectionInv, ProgressInv, ProgressExact
  <2>2. \A d \in DOMAIN balance : balance[d] \in Row
    BY <1>1, Zenon DEF DayExact
  <2>3. jobs \subseteq [id : Nat, next : Nat, through : Nat] /\ refused \subseteq Event /\ extended \in BOOLEAN
    BY Zenon DEF ProjectionInv, JobsInv, TypeInv
  <2>4. accepted \subseteq Event
    BY <1>1, Zenon DEF ProjectionInv, IdentityInv, IdentityKept
  <2> QED BY <1>1, <2>1, <2>2, <2>3, <2>4, Zenon DEF TypeOK
<1>3. TotalsExact
  BY <1>1, Zenon DEF TotalsExact, DayExact, Of, OnDay
<1>4. ClosingExact
  BY Zenon DEF ClosingExact, ProjectionInv, ClosingInv, ClosingIs, Until, UntilDay
<1> QED BY <1>2, <1>3, <1>4

\* Every column keeps its type, for any events: the sums of int64 columns are whole numbers
\* and the totals are never negative.
THEOREM ProjectionTypeOK == Spec => []TypeOK
BY ProjectionStart, ProjectionStep, ProjectionFacts, PTL DEF Spec

\* For any events in any order and number of deliveries, every applied entry counts exactly
\* once in its day, and a day that a block adds is zero (the upsert of Store.Apply and the rows
\* that processRecomputeBlock materializes).
THEOREM ProjectionTotalsExact == Spec => []TotalsExact
BY ProjectionStart, ProjectionStep, ProjectionFacts, PTL DEF Spec

\* For any span of a block, any dates and any order, the closing balance of a day that no job
\* has still to reach is the sum of all entries until that day, however many blocks it took
\* (the baseline and the running sum of processRecomputeBlock, and the order of ResumeNext).
THEOREM ProjectionClosingExact == Spec => []ClosingExact
BY ProjectionStart, ProjectionStep, ProjectionFacts, PTL DEF Spec

\* Adding a day under a pending job is the only way to a wrong closing balance that no job is
\* left to correct: in every behaviour without it, the query may rely on an empty recompute_job.
THEOREM ProjectionDoneMeansExact == Spec => [](~extended => DoneMeansExact)
<1>1. ClosingExact => (~extended => DoneMeansExact)
  BY Zenon DEF ClosingExact, DoneMeansExact
<1> QED BY <1>1, ProjectionClosingExact, PTL

\* For any events in any order and number of deliveries, an applied event keeps its id and
\* position for itself, and no event is both applied and refused (insertInbox and
\* resolveDuplicate of the projector).
THEOREM ProjectionKeepsIdentity == Spec => []IdentityKept
<1>1. ProjectionInv => IdentityKept
  BY Zenon DEF ProjectionInv, IdentityInv
<1> QED BY <1>1, ProjectionStart, ProjectionStep, PTL DEF Spec

\* The watermark is exact for any set of positions and any order of arrival: the recursive
\* query of advanceProgress neither stops short of a gap nor skips one.
THEOREM ProjectionProgressExact == Spec => []ProgressExact
<1>1. ProjectionInv => ProgressExact
  BY Zenon DEF ProjectionInv, ProgressInv
<1> QED BY <1>1, ProjectionStart, ProjectionStep, PTL DEF Spec

\* For any span of a block and any dates, the job that a transaction leaves behind satisfies
\* the CHECK constraints of recompute_job (Continue of processRecomputeBlock).
THEOREM ProjectionJobsBounded == Spec => []JobsBounded
<1>1. ProjectionInv => JobsBounded
  BY Zenon DEF ProjectionInv, JobsInv
<1> QED BY <1>1, ProjectionStart, ProjectionStep, PTL DEF Spec
=============================================================================
