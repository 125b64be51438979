------------------------- MODULE Reporting_proofs ---------------------------
(***************************************************************************)
(* Proofs about telemetry, for every set of handlers, providers and decode *)
(* errors and every capacity: nothing is lost or counted twice on the way  *)
(* to the remote endpoint, every reporting window is whole, and the        *)
(* shutdown reports all that had been counted.                             *)
(***************************************************************************)
EXTENDS Reporting, FiniteSetTheorems, FunctionTheorems, SequenceTheorems, TLAPS

-----------------------------------------------------------------------------
(* Sums: the units of a function, those of one argument and the others.    *)
Others(f, x) == {u \in Units(f) : u[1] # x}

LEMMA UnitFacts ==
    ASSUME NEW S, NEW f \in [S -> Nat]
    PROVE  \A u : u \in Units(f) <=> \E x \in S : \E i \in 1..f[x] : u = <<x, i>>
<1>1. DOMAIN f = S
  OBVIOUS
<1>2. ASSUME NEW u \in Units(f) PROVE \E x \in S : \E i \in 1..f[x] : u = <<x, i>>
  BY <1>1 DEF Units
<1>3. ASSUME NEW x \in S, NEW i \in 1..f[x] PROVE <<x, i>> \in Units(f)
  <2>1. <<x, i>> \in {x} \X (1..f[x])
    OBVIOUS
  <2> QED
    BY <1>1, <2>1 DEF Units
<1> QED
  BY <1>2, <1>3

LEMMA UnitsFinite ==
    ASSUME NEW S, IsFiniteSet(S), NEW f \in [S -> Nat]
    PROVE  IsFiniteSet(Units(f)) /\ SumOver(f) \in Nat
<1> DEFINE rows == {{x} \X (1..f[x]) : x \in S}
           row == [x \in S |-> {x} \X (1..f[x])]
<1>1. IsFiniteSet(rows)
  <2>1. row \in Surjection(S, rows)
    BY DEF Surjection
  <2> HIDE DEF row, rows
  <2> QED
    BY <2>1, FS_Surjection
<1>2. ASSUME NEW r \in rows PROVE IsFiniteSet(r)
  <2>1. PICK x \in S : r = {x} \X (1..f[x])
    OBVIOUS
  <2>2. 1 \in Int /\ f[x] \in Int
    OBVIOUS
  <2>3. IsFiniteSet({x}) /\ IsFiniteSet(1..f[x])
    <3> HIDE DEF rows, row
    <3> QED
      BY <2>2, FS_Singleton, FS_Interval
  <2> QED
    BY <2>1, <2>3, FS_Product
<1>3. Units(f) = UNION rows
  BY DEF Units
<1>4. IsFiniteSet(Units(f))
  <2> HIDE DEF rows
  <2> QED
    BY <1>1, <1>2, <1>3, FS_UNION
<1> QED
  BY <1>4, FS_CardinalityType DEF SumOver

(* A sum is one value and the rest. *)
LEMMA SumRow ==
    ASSUME NEW S, IsFiniteSet(S), NEW f \in [S -> Nat], NEW x \in S
    PROVE  /\ SumOver(f) = f[x] + Cardinality(Others(f, x))
           /\ Cardinality(Others(f, x)) \in Nat
<1> DEFINE row == {x} \X (1..f[x])
           rest == Others(f, x)
<1>1. row \cup rest = Units(f)
  BY UnitFacts DEF Others
<1>2. row \cap rest = {}
  BY DEF Others
<1>3. IsFiniteSet(row) /\ Cardinality(row) = f[x]
  <2>1. IsFiniteSet({x}) /\ Cardinality({x}) = 1
    BY FS_Singleton
  <2>2. IsFiniteSet(1..f[x]) /\ Cardinality(1..f[x]) = IF 1 > f[x] THEN 0 ELSE f[x] - 1 + 1
    BY FS_Interval
  <2>3. f[x] \in Nat
    OBVIOUS
  <2>4. Cardinality(1..f[x]) = f[x]
    BY <2>2, <2>3
  <2>5. IsFiniteSet(row) /\ Cardinality(row) = 1 * Cardinality(1..f[x])
    BY <2>1, <2>2, FS_Product
  <2> QED
    BY <2>3, <2>4, <2>5
<1>4. IsFiniteSet(Units(f)) /\ IsFiniteSet(rest)
  <2>1. rest \in SUBSET Units(f)
    BY DEF Others
  <2> QED
    BY <2>1, UnitsFinite, FS_Subset
<1> HIDE DEF row, rest
<1>5. Cardinality(row \cup rest) = Cardinality(row) + Cardinality(rest) - Cardinality({})
  BY <1>2, <1>3, <1>4, FS_Union
<1>6. Cardinality(rest) \in Nat /\ f[x] \in Nat /\ Cardinality({}) = 0
  BY <1>4, FS_CardinalityType, FS_EmptySet
<1>7. Cardinality(Units(f)) = Cardinality(row) + Cardinality(rest) - Cardinality({})
  BY <1>1, <1>5
<1>8. Cardinality(Units(f)) = f[x] + Cardinality(rest)
  BY <1>3, <1>6, <1>7
<1> QED
  BY <1>6, <1>8 DEF SumOver, rest

LEMMA SumZero ==
    ASSUME NEW S, NEW f \in [S -> Nat], \A x \in S : f[x] = 0
    PROVE  SumOver(f) = 0
<1>1. Units(f) = {}
  BY UnitFacts
<1> QED
  BY <1>1, FS_EmptySet DEF SumOver

(* One value changes. *)
LEMMA SumUpdate ==
    ASSUME NEW S, IsFiniteSet(S), NEW f \in [S -> Nat], NEW g \in [S -> Nat],
           NEW x \in S, \A y \in S \ {x} : g[y] = f[y]
    PROVE  SumOver(g) + f[x] = SumOver(f) + g[x]
<1>1. Others(g, x) = Others(f, x)
  <2>1. \A u : u \in Others(g, x) <=> u \in Others(f, x)
    BY UnitFacts DEF Others
  <2> QED
    BY <2>1
<1>2. /\ SumOver(f) = f[x] + Cardinality(Others(f, x))
      /\ SumOver(g) = g[x] + Cardinality(Others(g, x))
      /\ Cardinality(Others(f, x)) \in Nat /\ f[x] \in Nat /\ g[x] \in Nat
  BY SumRow
<1> QED
  BY <1>1, <1>2

(* One argument is added. *)
Grows(f, g, x) ==
    /\ IsFiniteSet(DOMAIN f) /\ x \in DOMAIN g /\ DOMAIN f = DOMAIN g \ {x}
    /\ f \in [DOMAIN f -> Nat] /\ g \in [DOMAIN g -> Nat]
    /\ \A y \in DOMAIN f : g[y] = f[y]

LEMMA SumGrow ==
    ASSUME NEW f, NEW g, NEW x, Grows(f, g, x)
    PROVE  SumOver(g) = SumOver(f) + g[x]
<1> DEFINE S == DOMAIN f
           T == DOMAIN g
<1>0. /\ IsFiniteSet(S) /\ x \in T /\ S = T \ {x} /\ f \in [S -> Nat] /\ g \in [T -> Nat]
      /\ \A y \in S : g[y] = f[y]
  BY DEF Grows
<1> HIDE DEF S, T
<1>1. Others(g, x) = Units(f)
  <2>1. \A u : u \in Others(g, x) <=> u \in Units(f)
    BY <1>0, UnitFacts DEF Others
  <2> QED
    BY <2>1
<1>2. SumOver(g) = g[x] + Cardinality(Others(g, x)) /\ g[x] \in Nat
  <2>1. T = S \cup {x}
    BY <1>0
  <2>2. IsFiniteSet(T)
    BY <1>0, <2>1, FS_AddElement
  <2> QED
    BY <1>0, <2>2, SumRow
<1>3. SumOver(f) \in Nat
  BY <1>0, UnitsFinite
<1> QED
  BY <1>1, <1>2, <1>3 DEF SumOver

(* The same values at other arguments. *)
Moved(f, g, b) ==
    /\ IsFiniteSet(DOMAIN f) /\ f \in [DOMAIN f -> Nat] /\ g \in [DOMAIN g -> Nat]
    /\ b \in Bijection(DOMAIN f, DOMAIN g) /\ \A x \in DOMAIN f : g[b[x]] = f[x]

LEMMA SumMoved ==
    ASSUME NEW f, NEW g, NEW b, Moved(f, g, b)
    PROVE  SumOver(g) = SumOver(f)
<1> DEFINE S == DOMAIN f
           T == DOMAIN g
           move == [u \in Units(f) |-> <<b[u[1]], u[2]>>]
<1>0. /\ IsFiniteSet(S) /\ f \in [S -> Nat] /\ g \in [T -> Nat]
      /\ b \in Bijection(S, T) /\ \A x \in S : g[b[x]] = f[x]
  BY DEF Moved
<1> HIDE DEF S, T
<1>1. /\ b \in [S -> T] /\ \A x, y \in S : b[x] = b[y] => x = y
      /\ \A z \in T : \E x \in S : b[x] = z
  BY <1>0 DEF Bijection, Injection, IsInjective, Surjection
<1>2. \A u \in Units(f) : <<b[u[1]], u[2]>> \in Units(g)
  BY <1>0, <1>1, UnitFacts
<1>3. move \in Injection(Units(f), Units(g))
  <2>1. ASSUME NEW u \in Units(f), NEW v \in Units(f), move[u] = move[v] PROVE u = v
    <3>1. b[u[1]] = b[v[1]] /\ u[2] = v[2]
      BY <2>1
    <3>2. u[1] \in S /\ v[1] \in S /\ u = <<u[1], u[2]>> /\ v = <<v[1], v[2]>>
      BY <1>0, UnitFacts
    <3> QED
      BY <1>1, <3>1, <3>2
  <2> QED
    BY <1>2, <2>1 DEF Injection, IsInjective
<1>4. move \in Surjection(Units(f), Units(g))
  <2>1. ASSUME NEW v \in Units(g) PROVE \E u \in Units(f) : move[u] = v
    <3>1. PICK z \in T : \E i \in 1..g[z] : v = <<z, i>>
      BY <1>0, UnitFacts
    <3>2. PICK i \in 1..g[z] : v = <<z, i>>
      BY <3>1
    <3>3. PICK x \in S : b[x] = z
      BY <1>1
    <3>4. <<x, i>> \in Units(f)
      BY <1>0, <3>2, <3>3, UnitFacts
    <3> QED
      BY <3>2, <3>3, <3>4
  <2> QED
    BY <1>2, <2>1 DEF Surjection
<1>5. ExistsBijection(Units(f), Units(g))
  <2> HIDE DEF move
  <2> QED
    BY <1>3, <1>4 DEF ExistsBijection, Bijection
<1> QED
  BY <1>0, <1>5, UnitsFinite, FS_Bijection DEF SumOver

(* Sums along a sequence, at whose end a value is put and whose first is    *)
(* taken.                                                                   *)
LEMMA SumAppend ==
    ASSUME NEW n \in Nat, NEW f \in [1..n -> Nat], NEW g \in [1..(n + 1) -> Nat],
           \A i \in 1..n : g[i] = f[i]
    PROVE  SumOver(g) = SumOver(f) + g[n + 1]
<1>1. n + 1 \in 1..(n + 1) /\ 1..n = (1..(n + 1)) \ {n + 1} /\ n \in Int
  OBVIOUS
<1>2. IsFiniteSet(1..n)
  BY <1>1, FS_Interval
<1>3. Grows(f, g, n + 1)
  BY <1>1, <1>2 DEF Grows
<1> QED
  BY <1>3, SumGrow

LEMMA SumTail ==
    ASSUME NEW n \in Nat, NEW f \in [1..(n + 1) -> Nat], NEW g \in [1..n -> Nat],
           \A i \in 1..n : g[i] = f[i + 1]
    PROVE  SumOver(f) = SumOver(g) + f[1]
<1> DEFINE S == 2..(n + 1)
           h == [i \in S |-> f[i]]
           b == [i \in 1..n |-> i + 1]
<1>1. 1 \in 1..(n + 1) /\ S = (1..(n + 1)) \ {1} /\ n \in Int /\ n + 1 \in Int
  OBVIOUS
<1>2. IsFiniteSet(S) /\ IsFiniteSet(1..n)
  BY <1>1, FS_Interval
<1>3. h \in [S -> Nat] /\ \A i \in S : f[i] = h[i]
  OBVIOUS
<1>4. b \in Bijection(1..n, S)
  <2>1. b \in [1..n -> S]
    OBVIOUS
  <2>2. \A i, j \in 1..n : b[i] = b[j] => i = j
    OBVIOUS
  <2>3. ASSUME NEW j \in S PROVE \E i \in 1..n : b[i] = j
    <3>1. j - 1 \in 1..n /\ b[j - 1] = j
      OBVIOUS
    <3> QED
      BY <3>1
  <2> QED
    BY <2>1, <2>2, <2>3 DEF Bijection, Injection, IsInjective, Surjection
<1>5. \A i \in 1..n : h[b[i]] = g[i]
  OBVIOUS
<1> HIDE DEF S, h, b
<1>6. Moved(g, h, b)
  BY <1>2, <1>3, <1>4, <1>5 DEF Moved
<1>7. Grows(h, f, 1)
  BY <1>1, <1>2, <1>3 DEF Grows
<1> QED
  BY <1>6, <1>7, SumMoved, SumGrow

(* The sum of sums. *)
Added(S, f, g, h) ==
    /\ IsFiniteSet(S) /\ f \in [S -> Nat] /\ g \in [S -> Nat] /\ h \in [S -> Nat]
    /\ \A x \in S : h[x] = f[x] + g[x]

LEMMA SumPlus ==
    ASSUME NEW S, NEW f, NEW g, NEW h, Added(S, f, g, h)
    PROVE  SumOver(h) = SumOver(f) + SumOver(g)
<1>0. /\ IsFiniteSet(S) /\ f \in [S -> Nat] /\ g \in [S -> Nat] /\ h \in [S -> Nat]
      /\ \A x \in S : h[x] = f[x] + g[x]
  BY DEF Added
<1> USE <1>0
<1> DEFINE move == [u \in Units(g) |-> <<u[1], f[u[1]] + u[2]>>]
           above == {<<u[1], f[u[1]] + u[2]>> : u \in Units(g)}
<1>1. \A x \in S : f[x] \in Nat /\ g[x] \in Nat /\ h[x] \in Nat
  OBVIOUS
<1>2. \A u : u \in above <=> \E x \in S : \E i \in 1..g[x] : u = <<x, f[x] + i>>
  <2>1. ASSUME NEW v \in Units(g)
        PROVE  \E x \in S : \E i \in 1..g[x] : <<v[1], f[v[1]] + v[2]>> = <<x, f[x] + i>>
    BY UnitFacts
  <2>2. ASSUME NEW x \in S, NEW i \in 1..g[x] PROVE <<x, f[x] + i>> \in above
    <3>1. <<x, i>> \in Units(g)
      BY UnitFacts
    <3>2. <<x, i>>[1] = x /\ <<x, i>>[2] = i
      OBVIOUS
    <3> QED
      BY <3>1, <3>2
  <2> QED
    BY <2>1, <2>2
<1>3. ExistsBijection(Units(g), above)
  <2>1. move \in [Units(g) -> above]
    OBVIOUS
  <2>2. ASSUME NEW u \in Units(g), NEW v \in Units(g), move[u] = move[v] PROVE u = v
    <3>1. PICK x \in S : \E i \in 1..g[x] : u = <<x, i>>
      BY UnitFacts
    <3>2. PICK i \in 1..g[x] : u = <<x, i>>
      BY <3>1
    <3>3. PICK y \in S : \E j \in 1..g[y] : v = <<y, j>>
      BY UnitFacts
    <3>4. PICK j \in 1..g[y] : v = <<y, j>>
      BY <3>3
    <3>5. <<x, f[x] + i>> = <<y, f[y] + j>>
      BY <2>2, <3>2, <3>4
    <3>6. x = y /\ f[x] + i = f[x] + j
      BY <3>5
    <3>7. f[x] \in Nat /\ i \in Nat /\ j \in Nat
      BY <1>1, <3>2, <3>4, <3>6
    <3>8. i = j
      BY <3>6, <3>7
    <3> QED
      BY <3>2, <3>4, <3>6, <3>8
  <2>3. \A v \in above : \E u \in Units(g) : move[u] = v
    OBVIOUS
  <2>4. move \in Bijection(Units(g), above)
    <3> HIDE DEF move, above
    <3> QED
      BY <2>1, <2>2, <2>3 DEF Bijection, Injection, IsInjective, Surjection
  <2> HIDE DEF move, above
  <2> QED
    BY <2>4 DEF ExistsBijection
<1> HIDE DEF move, above
<1>4. IsFiniteSet(above) /\ Cardinality(above) = SumOver(g)
  BY <1>3, UnitsFinite, FS_Bijection DEF SumOver
<1>5. Units(h) = Units(f) \cup above
  <2>1. ASSUME NEW u \in Units(h) PROVE u \in Units(f) \/ u \in above
    <3>1. PICK x \in S : \E i \in 1..h[x] : u = <<x, i>>
      BY UnitFacts
    <3>2. PICK i \in 1..h[x] : u = <<x, i>>
      BY <3>1
    <3>3. h[x] = f[x] + g[x] /\ f[x] \in Nat /\ g[x] \in Nat
      BY <1>1
    <3>4. CASE i <= f[x]
      <4>1. i \in 1..f[x]
        BY <3>2, <3>3, <3>4
      <4> QED
        BY <3>2, <4>1, UnitFacts
    <3>5. CASE i > f[x]
      <4>1. i - f[x] \in 1..g[x] /\ i = f[x] + (i - f[x])
        BY <3>2, <3>3, <3>5
      <4> QED
        BY <1>2, <3>2, <4>1
    <3>6. i \in Int /\ f[x] \in Int
      BY <3>2, <3>3
    <3> QED
      BY <3>4, <3>5, <3>6
  <2>2. ASSUME NEW x \in S, NEW i \in 1..f[x] PROVE <<x, i>> \in Units(h)
    <3>1. i \in 1..h[x]
      BY <1>1
    <3> QED
      BY <3>1, UnitFacts
  <2>3. ASSUME NEW x \in S, NEW i \in 1..g[x] PROVE <<x, f[x] + i>> \in Units(h)
    <3>1. f[x] + i \in 1..h[x]
      BY <1>1
    <3> QED
      BY <3>1, UnitFacts
  <2>4. Units(f) \subseteq Units(h)
    BY <2>2, UnitFacts
  <2>5. above \subseteq Units(h)
    BY <1>2, <2>3
  <2> QED
    BY <2>1, <2>4, <2>5
<1>6. Units(f) \cap above = {}
  <2>1. ASSUME NEW u \in Units(f), u \in above PROVE FALSE
    <3>1. PICK x \in S : \E i \in 1..f[x] : u = <<x, i>>
      BY UnitFacts
    <3>2. PICK i \in 1..f[x] : u = <<x, i>>
      BY <3>1
    <3>3. PICK y \in S : \E j \in 1..g[y] : u = <<y, f[y] + j>>
      BY <1>2, <2>1
    <3>4. PICK j \in 1..g[y] : u = <<y, f[y] + j>>
      BY <3>3
    <3>5. x = y /\ i = f[x] + j
      BY <3>2, <3>4
    <3> QED
      BY <1>1, <3>2, <3>4, <3>5
  <2> QED
    BY <2>1
<1>7. IsFiniteSet(Units(f)) /\ SumOver(f) \in Nat /\ SumOver(g) \in Nat
  BY UnitsFinite
<1>8. Cardinality(Units(f) \cup above)
        = Cardinality(Units(f)) + Cardinality(above) - Cardinality({})
  BY <1>4, <1>6, <1>7, FS_Union
<1>9. SumOver(h) = SumOver(f) + SumOver(g) - Cardinality({})
  BY <1>4, <1>5, <1>8 DEF SumOver
<1> QED
  BY <1>7, <1>9, FS_EmptySet

(* Arguments whose value is zero may be left out. *)
Used(S, T, f, g) ==
    /\ T \subseteq S /\ f \in [S -> Nat] /\ g \in [T -> Nat]
    /\ \A x \in T : g[x] = f[x]
    /\ \A x \in S \ T : f[x] = 0

LEMMA SumUsed ==
    ASSUME NEW S, NEW T, NEW f, NEW g, Used(S, T, f, g)
    PROVE  SumOver(g) = SumOver(f)
<1>0. /\ T \subseteq S /\ f \in [S -> Nat] /\ g \in [T -> Nat]
      /\ \A x \in T : g[x] = f[x]
      /\ \A x \in S \ T : f[x] = 0
  BY DEF Used
<1> USE <1>0
<1>1. \A u : u \in Units(g) => u \in Units(f)
  BY UnitFacts
<1>2. ASSUME NEW u \in Units(f) PROVE u \in Units(g)
  <2>1. PICK x \in S : \E i \in 1..f[x] : u = <<x, i>>
    BY UnitFacts
  <2>2. f[x] # 0
    BY <2>1
  <2>3. x \in T /\ g[x] = f[x]
    BY <2>2
  <2> QED
    BY <2>1, <2>3, UnitFacts
<1>3. Units(g) = Units(f)
  BY <1>1, <1>2
<1> QED
  BY <1>3 DEF SumOver

(* Two parts, one behind the other. *)
LEMMA SumConcat ==
    ASSUME NEW a \in Nat, NEW b \in Nat, NEW f \in [1..a -> Nat], NEW g \in [1..b -> Nat],
           NEW h \in [1..(a + b) -> Nat],
           \A i \in 1..a : h[i] = f[i], \A i \in 1..b : h[a + i] = g[i]
    PROVE  SumOver(h) = SumOver(f) + SumOver(g)
<1> DEFINE S == 1..(a + b)
           f0 == [i \in S |-> IF i \in 1..a THEN h[i] ELSE 0]
           g0 == [i \in S |-> IF i \in 1..a THEN 0 ELSE h[i]]
           T == (a + 1)..(a + b)
           g1 == [i \in T |-> h[i]]
           shift == [i \in 1..b |-> a + i]
<1>1. IsFiniteSet(S) /\ IsFiniteSet(1..b)
  <2>1. 1 \in Int /\ a + b \in Int /\ b \in Int
    OBVIOUS
  <2> QED
    BY <2>1, FS_Interval
<1>2. \A i \in S : h[i] \in Nat
  OBVIOUS
<1>3. /\ f0 \in [S -> Nat] /\ g0 \in [S -> Nat] /\ h \in [S -> Nat]
      /\ \A i \in S : h[i] = f0[i] + g0[i]
  BY <1>2
<1>4. T \subseteq S /\ 1..a \subseteq S /\ \A i \in S : i \in T <=> i \notin 1..a
  OBVIOUS
<1>5. /\ g1 \in [T -> Nat] /\ \A i \in T : g1[i] = g0[i] /\ g1[i] = h[i]
      /\ \A i \in S \ T : g0[i] = 0
  BY <1>2, <1>4
<1>6. /\ \A i \in 1..a : f[i] = f0[i]
      /\ \A i \in S \ (1..a) : f0[i] = 0
  BY <1>4
<1>7. shift \in Bijection(1..b, T)
  <2>1. shift \in [1..b -> T]
    OBVIOUS
  <2>2. \A i, j \in 1..b : shift[i] = shift[j] => i = j
    OBVIOUS
  <2>3. ASSUME NEW j \in T PROVE \E i \in 1..b : shift[i] = j
    <3>1. j - a \in 1..b /\ shift[j - a] = j
      OBVIOUS
    <3> QED
      BY <3>1
  <2> QED
    BY <2>1, <2>2, <2>3 DEF Bijection, Injection, IsInjective, Surjection
<1>8. \A i \in 1..b : g1[shift[i]] = g[i]
  <2>1. \A i \in 1..b : shift[i] = a + i /\ shift[i] \in T
    OBVIOUS
  <2> HIDE DEF shift, T
  <2> QED
    BY <1>5, <2>1
<1> HIDE DEF S, T, f0, g0, g1, shift
<1>9. SumOver(h) = SumOver(f0) + SumOver(g0)
  <2>1. Added(S, f0, g0, h)
    BY <1>1, <1>3 DEF Added
  <2> QED
    BY <2>1, SumPlus
<1>10. SumOver(f) = SumOver(f0)
  <2>1. Used(S, 1..a, f0, f)
    BY <1>3, <1>4, <1>6 DEF Used
  <2> QED
    BY <2>1, SumUsed
<1>11. SumOver(g1) = SumOver(g0)
  <2>1. Used(S, T, g0, g1)
    BY <1>3, <1>4, <1>5 DEF Used
  <2> QED
    BY <2>1, SumUsed
<1>12. Moved(g, g1, shift)
  BY <1>1, <1>5, <1>7, <1>8 DEF Moved
<1> QED
  BY <1>9, <1>10, <1>11, <1>12, SumMoved

-----------------------------------------------------------------------------
(* Tallies, and what several of them say together.                         *)
Tally == [Measures -> Nat]

Of(tallies, m) == [x \in DOMAIN tallies |-> tallies[x][m]]

LEMMA NamedMeasures ==
    /\ "parsed" \in Measures /\ "queue_dropped" \in Measures
    /\ "batch_unsupported" \in Measures /\ "accepted" \in Measures
    /\ "rejected" \in Measures /\ "fee_samples" \in Measures
    /\ "calls" \in Measures /\ "latencies" \in Measures /\ "raw" \in Measures
    /\ DecodeErrors \subseteq Measures
  BY DEF Measures, Named

LEMMA TallyFacts ==
    /\ Zero \in Tally
    /\ \A m \in Measures : Zero[m] = 0
    /\ \A n \in Nat : \A x : Copies(n, x) \in Tally
    /\ \A n \in Nat : \A x : \A m \in Measures : Copies(n, x)[m] = IF m = x THEN n ELSE 0
    /\ \A x : One(x) \in Tally
    /\ \A x : \A m \in Measures : One(x)[m] = IF m = x THEN 1 ELSE 0
<1>1. Zero \in Tally /\ \A m \in Measures : Zero[m] = 0
  BY DEF Zero, Tally
<1>2. ASSUME NEW n \in Nat, NEW x
      PROVE  /\ Copies(n, x) \in Tally
             /\ \A m \in Measures : Copies(n, x)[m] = IF m = x THEN n ELSE 0
  BY DEF Copies, Tally
<1> QED
  BY <1>1, <1>2 DEF One

LEMMA PlusFacts ==
    ASSUME NEW a \in Tally, NEW b \in Tally
    PROVE  /\ a (+) b \in Tally
           /\ \A m \in Measures : (a (+) b)[m] = a[m] + b[m]
<1>1. \A m \in Measures : a[m] + b[m] \in Nat
  BY DEF Tally
<1> QED
  BY <1>1 DEF Tally, (+)

LEMMA TallyValue ==
    ASSUME NEW a \in Tally, NEW m \in Measures
    PROVE  a[m] \in Nat
  BY DEF Tally

LEMMA TotalOf ==
    ASSUME NEW tallies, NEW m \in Measures
    PROVE  Total(tallies)[m] = SumOver(Of(tallies, m))
  BY DEF Total, Of

LEMMA OfTyped ==
    ASSUME NEW S, NEW f \in [S -> Tally], NEW m \in Measures
    PROVE  Of(f, m) \in [S -> Nat] /\ \A x \in S : Of(f, m)[x] = f[x][m]
  BY TallyValue DEF Of

Rows(S, f) == f \in [S -> Tally]
Numbers(S, f, m) == Of(f, m) \in [S -> Nat] /\ \A x \in S : Of(f, m)[x] = f[x][m]

LEMMA OfRows ==
    ASSUME NEW S, NEW f, Rows(S, f), NEW m \in Measures
    PROVE  Numbers(S, f, m)
  BY OfTyped DEF Rows, Numbers

LEMMA TotalTyped ==
    ASSUME NEW S, IsFiniteSet(S), NEW f \in [S -> Tally]
    PROVE  Total(f) \in Tally
<1>1. ASSUME NEW m \in Measures PROVE SumOver(Of(f, m)) \in Nat
  BY OfTyped, UnitsFinite
<1>2. Total(f) = [m \in Measures |-> SumOver(Of(f, m))]
  BY DEF Total, Of
<1> QED
  BY <1>1, <1>2 DEF Tally

(* One of them changes. *)
Varies(S, f, g, x) ==
    /\ IsFiniteSet(S) /\ f \in [S -> Tally] /\ g \in [S -> Tally]
    /\ x \in S /\ \A y \in S \ {x} : g[y] = f[y]

LEMMA TotalUpdated ==
    ASSUME NEW S, NEW f, NEW g, NEW x, Varies(S, f, g, x), NEW m \in Measures
    PROVE  Total(g)[m] + f[x][m] = Total(f)[m] + g[x][m]
<1>0. /\ IsFiniteSet(S) /\ f \in [S -> Tally] /\ g \in [S -> Tally]
      /\ x \in S /\ \A y \in S \ {x} : g[y] = f[y]
  BY DEF Varies
<1>1. /\ Of(f, m) \in [S -> Nat] /\ \A y \in S : Of(f, m)[y] = f[y][m]
      /\ Of(g, m) \in [S -> Nat] /\ \A y \in S : Of(g, m)[y] = g[y][m]
  BY <1>0, OfTyped
<1>2. \A y \in S \ {x} : Of(g, m)[y] = Of(f, m)[y]
  BY <1>0, <1>1
<1>3. SumOver(Of(g, m)) + Of(f, m)[x] = SumOver(Of(f, m)) + Of(g, m)[x]
  BY <1>0, <1>1, <1>2, SumUpdate
<1> QED
  BY <1>0, <1>1, <1>3, TotalOf

LEMMA TotalZero ==
    ASSUME NEW S, NEW f \in [S -> Tally], \A x \in S : f[x] = Zero
    PROVE  Total(f) = Zero
<1>1. ASSUME NEW m \in Measures PROVE SumOver(Of(f, m)) = 0
  <2>1. Of(f, m) \in [S -> Nat] /\ \A x \in S : Of(f, m)[x] = 0
    BY OfTyped, TallyFacts
  <2> QED
    BY <2>1, SumZero
<1>2. Total(f) = [m \in Measures |-> SumOver(Of(f, m))]
  BY DEF Total, Of
<1> QED
  BY <1>1, <1>2 DEF Zero

(* Sequences of tallies. *)
LEMMA SequenceTyped ==
    ASSUME NEW s \in Seq(Tally)
    PROVE  /\ s \in [1..Len(s) -> Tally] /\ Len(s) \in Nat /\ IsFiniteSet(1..Len(s))
           /\ Total(s) \in Tally
<1>1. s \in [1..Len(s) -> Tally] /\ Len(s) \in Nat
  BY LenProperties
<1>2. IsFiniteSet(1..Len(s))
  <2>1. 1 \in Int /\ Len(s) \in Int
    BY <1>1
  <2> QED
    BY <2>1, FS_Interval
<1> QED
  BY <1>1, <1>2, TotalTyped

LEMMA TotalEmpty == Total(<<>>) = Zero
<1>1. <<>> \in [{} -> Tally]
  OBVIOUS
<1> QED
  BY <1>1, TotalZero

LEMMA TotalConcat ==
    ASSUME NEW s \in Seq(Tally), NEW r \in Seq(Tally), NEW m \in Measures
    PROVE  Total(s \o r)[m] = Total(s)[m] + Total(r)[m]
<1> DEFINE a == Len(s)
           b == Len(r)
           t == s \o r
<1>1. /\ t \in Seq(Tally) /\ Len(t) = a + b
      /\ \A i \in 1..a : t[i] = s[i]
      /\ \A i \in 1..b : t[a + i] = r[i]
  <2>1. t \in Seq(Tally) /\ Len(t) = a + b /\ a \in Nat /\ b \in Nat
    BY ConcatProperties, LenProperties
  <2>2. \A i \in 1..(a + b) : t[i] = IF i <= a THEN s[i] ELSE r[i - a]
    BY ConcatProperties
  <2>3. ASSUME NEW i \in 1..a PROVE t[i] = s[i]
    <3>1. i \in 1..(a + b) /\ i <= a
      BY <2>1
    <3> QED
      BY <2>2, <3>1
  <2>4. ASSUME NEW i \in 1..b PROVE t[a + i] = r[i]
    <3>1. a + i \in 1..(a + b) /\ ~(a + i <= a) /\ (a + i) - a = i
      BY <2>1
    <3> QED
      BY <2>2, <3>1
  <2> QED
    BY <2>1, <2>3, <2>4
<1>2. /\ a \in Nat /\ b \in Nat /\ s \in [1..a -> Tally] /\ r \in [1..b -> Tally]
      /\ t \in [1..(a + b) -> Tally]
  BY <1>1, SequenceTyped
<1> HIDE DEF t, a, b
<1>3. /\ Of(s, m) \in [1..a -> Nat] /\ \A i \in 1..a : Of(s, m)[i] = s[i][m]
      /\ Of(r, m) \in [1..b -> Nat] /\ \A i \in 1..b : Of(r, m)[i] = r[i][m]
      /\ Of(t, m) \in [1..(a + b) -> Nat] /\ \A i \in 1..(a + b) : Of(t, m)[i] = t[i][m]
  <2>1. Of(s, m) \in [1..a -> Nat] /\ \A i \in 1..a : Of(s, m)[i] = s[i][m]
    <3>1. Rows(1..a, s)
      BY <1>2 DEF Rows
    <3>2. Numbers(1..a, s, m)
      BY <3>1, OfRows
    <3> QED
      BY <3>2 DEF Numbers
  <2>2. Of(r, m) \in [1..b -> Nat] /\ \A i \in 1..b : Of(r, m)[i] = r[i][m]
    <3>1. Rows(1..b, r)
      BY <1>2 DEF Rows
    <3>2. Numbers(1..b, r, m)
      BY <3>1, OfRows
    <3> QED
      BY <3>2 DEF Numbers
  <2>3. Of(t, m) \in [1..(a + b) -> Nat] /\ \A i \in 1..(a + b) : Of(t, m)[i] = t[i][m]
    <3>1. Rows(1..(a + b), t)
      BY <1>2 DEF Rows
    <3>2. Numbers(1..(a + b), t, m)
      BY <3>1, OfRows
    <3> QED
      BY <3>2 DEF Numbers
  <2> QED
    BY <2>1, <2>2, <2>3
<1>4. /\ \A i \in 1..a : i \in 1..(a + b)
      /\ \A i \in 1..b : a + i \in 1..(a + b)
  BY <1>2
<1>5. /\ \A i \in 1..a : Of(t, m)[i] = Of(s, m)[i]
      /\ \A i \in 1..b : Of(t, m)[a + i] = Of(r, m)[i]
  <2>1. ASSUME NEW i \in 1..a PROVE Of(t, m)[i] = Of(s, m)[i]
    <3>1. Of(t, m)[i] = t[i][m] /\ Of(s, m)[i] = s[i][m]
      BY <1>3, <1>4
    <3>2. t[i] = s[i]
      BY <1>1
    <3> QED
      BY <3>1, <3>2
  <2>2. ASSUME NEW i \in 1..b PROVE Of(t, m)[a + i] = Of(r, m)[i]
    <3>1. a + i \in 1..(a + b)
      BY <1>4
    <3>2. Of(t, m)[a + i] = t[a + i][m] /\ Of(r, m)[i] = r[i][m]
      BY <1>3, <3>1
    <3>3. t[a + i] = r[i]
      BY <1>1
    <3> QED
      BY <3>2, <3>3
  <2> QED
    BY <2>1, <2>2
<1>6. SumOver(Of(t, m)) = SumOver(Of(s, m)) + SumOver(Of(r, m))
  BY <1>2, <1>3, <1>5, SumConcat
<1> QED
  BY <1>6, TotalOf DEF t

LEMMA TotalAppended ==
    ASSUME NEW s \in Seq(Tally), NEW e \in Tally, NEW m \in Measures
    PROVE  Total(Append(s, e))[m] = Total(s)[m] + e[m]
<1> DEFINE n == Len(s)
           t == Append(s, e)
<1>1. /\ t \in Seq(Tally) /\ Len(t) = n + 1 /\ n \in Nat /\ t[n + 1] = e
      /\ \A i \in 1..n : t[i] = s[i]
  BY AppendProperties, LenProperties
<1>2. s \in [1..n -> Tally] /\ t \in [1..(n + 1) -> Tally]
  BY <1>1, SequenceTyped
<1> HIDE DEF t, n
<1>3. /\ Of(s, m) \in [1..n -> Nat] /\ \A i \in 1..n : Of(s, m)[i] = s[i][m]
      /\ Of(t, m) \in [1..(n + 1) -> Nat] /\ \A i \in 1..(n + 1) : Of(t, m)[i] = t[i][m]
  <2>1. Of(s, m) \in [1..n -> Nat] /\ \A i \in 1..n : Of(s, m)[i] = s[i][m]
    <3>1. Rows(1..n, s)
      BY <1>2 DEF Rows
    <3>2. Numbers(1..n, s, m)
      BY <3>1, OfRows
    <3> QED
      BY <3>2 DEF Numbers
  <2>2. Of(t, m) \in [1..(n + 1) -> Nat] /\ \A i \in 1..(n + 1) : Of(t, m)[i] = t[i][m]
    <3>1. Rows(1..(n + 1), t)
      BY <1>2 DEF Rows
    <3>2. Numbers(1..(n + 1), t, m)
      BY <3>1, OfRows
    <3> QED
      BY <3>2 DEF Numbers
  <2> QED
    BY <2>1, <2>2
<1>4. n + 1 \in 1..(n + 1) /\ \A i \in 1..n : i \in 1..(n + 1)
  BY <1>1
<1>5. Of(t, m)[n + 1] = e[m] /\ \A i \in 1..n : Of(t, m)[i] = Of(s, m)[i]
  BY <1>1, <1>3, <1>4
<1>6. SumOver(Of(t, m)) = SumOver(Of(s, m)) + Of(t, m)[n + 1]
  BY <1>1, <1>3, <1>5, SumAppend
<1> QED
  BY <1>5, <1>6, TotalOf DEF t

LEMMA TotalOne ==
    ASSUME NEW e \in Tally, NEW m \in Measures
    PROVE  Total(<<e>>)[m] = e[m]
<1>1. <<e>> = Append(<<>>, e) /\ <<>> \in Seq(Tally)
  OBVIOUS
<1>2. Total(<<e>>)[m] = Total(<<>>)[m] + e[m]
  BY <1>1, TotalAppended
<1>3. Total(<<>>)[m] = 0 /\ e[m] \in Nat
  BY TotalEmpty, TallyFacts, TallyValue
<1> QED
  BY <1>2, <1>3

LEMMA TotalTaken ==
    ASSUME NEW s \in Seq(Tally), s # <<>>, NEW m \in Measures
    PROVE  Total(s)[m] = Total(Tail(s))[m] + Head(s)[m]
<1> DEFINE t == Tail(s)
           n == Len(t)
<1>1. /\ t \in Seq(Tally) /\ Len(s) = n + 1 /\ n \in Nat /\ Head(s) = s[1]
      /\ \A i \in 1..n : t[i] = s[i + 1]
  BY HeadTailProperties, LenProperties
<1>2. t \in [1..n -> Tally] /\ s \in [1..(n + 1) -> Tally]
  BY <1>1, SequenceTyped
<1> HIDE DEF t, n
<1>3. /\ Of(t, m) \in [1..n -> Nat] /\ \A i \in 1..n : Of(t, m)[i] = t[i][m]
      /\ Of(s, m) \in [1..(n + 1) -> Nat] /\ \A i \in 1..(n + 1) : Of(s, m)[i] = s[i][m]
  <2>1. Of(t, m) \in [1..n -> Nat] /\ \A i \in 1..n : Of(t, m)[i] = t[i][m]
    <3>1. Rows(1..n, t)
      BY <1>2 DEF Rows
    <3>2. Numbers(1..n, t, m)
      BY <3>1, OfRows
    <3> QED
      BY <3>2 DEF Numbers
  <2>2. Of(s, m) \in [1..(n + 1) -> Nat] /\ \A i \in 1..(n + 1) : Of(s, m)[i] = s[i][m]
    <3>1. Rows(1..(n + 1), s)
      BY <1>2 DEF Rows
    <3>2. Numbers(1..(n + 1), s, m)
      BY <3>1, OfRows
    <3> QED
      BY <3>2 DEF Numbers
  <2> QED
    BY <2>1, <2>2
<1>4. 1 \in 1..(n + 1) /\ \A i \in 1..n : i + 1 \in 1..(n + 1)
  BY <1>1
<1>5. Of(s, m)[1] = Head(s)[m] /\ \A i \in 1..n : Of(t, m)[i] = Of(s, m)[i + 1]
  BY <1>1, <1>3, <1>4
<1>6. SumOver(Of(s, m)) = SumOver(Of(t, m)) + Of(s, m)[1]
  BY <1>1, <1>3, <1>5, SumTail
<1> QED
  BY <1>5, <1>6, TotalOf DEF t

(* The tallies that are not zero, in whatever order, say what all do. *)
LEMMA TotalInOrder ==
    ASSUME NEW S, IsFiniteSet(S), NEW f \in [S -> Tally],
           NEW used, used = {x \in S : f[x] # Zero},
           NEW order \in Injection(1..Cardinality(used), used), NEW m \in Measures
    PROVE  LET events == [i \in DOMAIN order |-> f[order[i]]]
           IN  events \in Seq(Tally) /\ Total(events)[m] = Total(f)[m]
<1> DEFINE n == Cardinality(used)
           events == [i \in DOMAIN order |-> f[order[i]]]
           g == [x \in used |-> f[x]]
<1>1. IsFiniteSet(used) /\ n \in Nat
  <2>1. used \in SUBSET S
    OBVIOUS
  <2> QED
    BY <2>1, FS_Subset, FS_CardinalityType
<1>2. order \in [1..n -> used] /\ \A i, j \in 1..n : order[i] = order[j] => i = j
  BY DEF Injection, IsInjective
<1>3. IsFiniteSet(1..n) /\ Cardinality(1..n) = n
  <2>1. /\ IsFiniteSet(1..n)
        /\ Cardinality(1..n) = IF 1 > n THEN 0 ELSE n - 1 + 1
    <3>1. 1 \in Int /\ n \in Int
      BY <1>1
    <3> HIDE DEF n
    <3> QED
      BY <3>1, FS_Interval
  <2> HIDE DEF n
  <2> QED
    BY <1>1, <2>1
<1>4. order \in Bijection(1..n, used)
  <2>1. order \in Surjection(1..n, used)
    BY <1>1, <1>3, FS_Injection
  <2> QED
    BY <2>1 DEF Bijection
<1>5. events \in [1..n -> Tally] /\ \A i \in 1..n : events[i] = f[order[i]]
  BY <1>2
<1>6. events \in Seq(Tally)
  <2>1. \A k \in Nat : \A e \in [1..k -> Tally] : e \in Seq(Tally)
    OBVIOUS
  <2> HIDE DEF n, events
  <2> QED
    BY <1>1, <1>5, <2>1
<1>7. g \in [used -> Tally] /\ \A x \in used : g[x] = f[x]
  OBVIOUS
<1> HIDE DEF n, events, g
<1>8. /\ Of(events, m) \in [1..n -> Nat] /\ \A i \in 1..n : Of(events, m)[i] = events[i][m]
      /\ Of(g, m) \in [used -> Nat] /\ \A x \in used : Of(g, m)[x] = g[x][m]
      /\ Of(f, m) \in [S -> Nat] /\ \A x \in S : Of(f, m)[x] = f[x][m]
  <2>1. Of(events, m) \in [1..n -> Nat] /\ \A i \in 1..n : Of(events, m)[i] = events[i][m]
    <3>1. Rows(1..n, events)
      BY <1>5 DEF Rows
    <3>2. Numbers(1..n, events, m)
      BY <3>1, OfRows
    <3> QED
      BY <3>2 DEF Numbers
  <2>2. Of(g, m) \in [used -> Nat] /\ \A x \in used : Of(g, m)[x] = g[x][m]
    BY <1>7, OfTyped
  <2>3. Of(f, m) \in [S -> Nat] /\ \A x \in S : Of(f, m)[x] = f[x][m]
    BY OfTyped
  <2> QED
    BY <2>1, <2>2, <2>3
<1>9. SumOver(Of(g, m)) = SumOver(Of(events, m))
  <2>1. ASSUME NEW i \in 1..n PROVE Of(g, m)[order[i]] = Of(events, m)[i]
    <3>1. order[i] \in used
      BY <1>2
    <3>2. Of(g, m)[order[i]] = g[order[i]][m] /\ g[order[i]] = f[order[i]]
      BY <1>7, <1>8, <3>1
    <3>3. Of(events, m)[i] = events[i][m] /\ events[i] = f[order[i]]
      BY <1>5, <1>8
    <3> QED
      BY <3>2, <3>3
  <2>2. Moved(Of(events, m), Of(g, m), order)
    BY <1>3, <1>4, <1>8, <2>1 DEF Moved
  <2> QED
    BY <2>2, SumMoved
<1>10. SumOver(Of(g, m)) = SumOver(Of(f, m))
  <2>1. \A x \in S \ used : Of(f, m)[x] = 0
    BY <1>8, TallyFacts
  <2>2. Used(S, used, Of(f, m), Of(g, m))
    BY <1>7, <1>8, <2>1 DEF Used
  <2> QED
    BY <2>2, SumUsed
<1>11. Total(events)[m] = Total(f)[m]
  BY <1>9, <1>10, TotalOf
<1> QED
  BY <1>6, <1>11 DEF events

-----------------------------------------------------------------------------
(* The inductive invariant, in four layers.                                *)

(* Where everybody can be, and what is then known of the others.           *)
Mover == [at : {"idle", "counted", "report", "done"}, key : Keys, owes : Tally]

Phases == {"serving", "historical", "tx", "tx_wait", "decoded", "registered",
           "waiting", "exited"}

ReportTyped ==
    /\ hand \in [Handlers -> Mover] /\ worker \in Mover
    /\ queue \in Seq(Keys \cup {Flush})
    /\ buckets \in Tally /\ tx_buckets \in [Keys -> Tally]
    /\ channel \in Nat /\ dropped \in Nat /\ aggregates \in Nat
    /\ batch \in Seq(Tally) /\ sending \in Seq(Tally)
    /\ task \in {"select", "tick", "post", "flush", "post_flush"}
    /\ permit \in BOOLEAN /\ waiters \in BOOLEAN
    /\ main \in Phases
    /\ told \in Tally /\ attempted \in Tally /\ due \in Tally

(* What a handler and the worker owe, by their place.                      *)
MoversInv ==
    /\ \A h \in Handlers :
          /\ hand[h].at = "idle" => hand[h] = Idle
          /\ hand[h].at = "done" => hand[h] = Done
          /\ hand[h].at = "counted" => hand[h].owes = Submission(hand[h].key)
          /\ main # "serving" => hand[h] \in {Idle, Done}
    /\ worker # Idle => worker.at = "report"

(* The decode queue: one Flush, last, and only while run() waits for it.   *)
QueueInv ==
    /\ main \in {"serving", "historical", "tx"} =>
          \A i \in 1..Len(queue) : queue[i] # Flush
    /\ main = "tx_wait" =>
          /\ queue # <<>>
          /\ \A i \in 1..Len(queue) : queue[i] = Flush <=> i = Len(queue)
    /\ main \in {"decoded", "registered", "waiting", "exited"} =>
          queue = <<>> /\ worker = Idle

(* The flush task and the shutdown's handshake with it.                    *)
FlushInv ==
    /\ permit => main = "waiting"
    /\ waiters <=> main \in {"registered", "waiting"}
    /\ task \in {"flush", "post_flush"} => main = "waiting" /\ ~permit
    /\ main = "exited" => task = "select"

(* What is empty when, and what is never in a bucket of the requests.      *)
PlacesInv ==
    /\ task \notin {"post", "post_flush"} => sending = <<>>
    /\ task = "post_flush" \/ main = "exited" => batch = <<>>
    /\ task \in {"flush", "post_flush"} \/ main = "exited" =>
          \A k \in Keys : tx_buckets[k] = Zero
    /\ \A m \in Measures \ {"calls", "latencies"} : buckets[m] = 0

ControlInv == ReportTyped /\ MoversInv /\ QueueInv /\ FlushInv /\ PlacesInv

(* Measure by measure, where everything that was told is.                  *)
Owed == [h \in Handlers |-> hand[h].owes]
Waiting == [i \in DOMAIN queue |-> Queued(queue[i])]

RawEvents == Copies(channel + dropped, "raw")

Found(m) ==
    Total(Owed)[m] + Total(Waiting)[m] + worker.owes[m]
      + buckets[m] + Total(tx_buckets)[m]
      + Total(batch)[m] + Total(sending)[m] + attempted[m] + RawEvents[m]

OnceInv == \A m \in Measures : told[m] = Found(m)

(* A transaction bucket is whole, and so is what is still to be added to it. *)
Submissions == {"accepted", "rejected"}
Decodes == DecodeResults \cup {"queue_dropped"}

WholeFor(k, e) ==
    /\ Count(Submissions, e) = Count(Decodes, e)
    /\ k = None => e["accepted"] = 0 /\ e["fee_samples"] = 0
    /\ k # None => e["rejected"] = 0 /\ e["fee_samples"] = e["parsed"]

Whole(e) ==
    /\ Count(Submissions, e) = Count(Decodes, e)
    /\ e["fee_samples"] = IF e["accepted"] > 0 THEN e["parsed"] ELSE 0

WindowInv ==
    /\ \A h \in Handlers : hand[h].at = "report" => WholeFor(hand[h].key, hand[h].owes)
    /\ WholeFor(worker.key, worker.owes)
    /\ \A k \in Keys : WholeFor(k, tx_buckets[k])
    /\ \A i \in 1..Len(batch) : Whole(batch[i])
    /\ \A i \in 1..Len(sending) : Whole(sending[i])

(* Where all that was due is, from the final drain to the exit.            *)
DueInv ==
    \A m \in Measures :
        /\ main \in {"registered", "waiting"} => due[m] <= told[m]
        /\ task = "flush" =>
              due[m] <= Total(batch)[m] + attempted[m] + RawEvents[m]
        /\ task = "post_flush" =>
              due[m] <= Total(sending)[m] + attempted[m] + Copies(dropped, "raw")[m]
        /\ main = "exited" => due[m] <= attempted[m] + Copies(dropped, "raw")[m]

-----------------------------------------------------------------------------
(* Layer 1: the control.                                                   *)
LEMMA KeyFacts == Flush \notin Keys /\ None \in Keys /\ Providers \subseteq Keys
  BY ReportingAssumption DEF Keys

LEMMA Labels ==
    /\ \A k : Submission(k) \in Tally
    /\ \A k : \A r : Decode(k, r) \in Tally
    /\ \A r \in DecodeResults : r \in Measures
<1>1. \A r \in DecodeResults : r \in Measures
  BY DEF DecodeResults, Measures, Named
<1>2. \A k : Submission(k) \in Tally
  BY TallyFacts DEF Submission
<1>3. ASSUME NEW k, NEW r PROVE Decode(k, r) \in Tally
  <2>1. One(r) \in Tally /\ One("fee_samples") \in Tally /\ Zero \in Tally
    BY TallyFacts
  <2> QED
    BY <2>1, PlusFacts DEF Decode
<1> QED
  BY <1>1, <1>2, <1>3

LEMMA MoverFacts ==
    /\ Idle \in Mover /\ Done \in Mover
    /\ Idle.at = "idle" /\ Done.at = "done" /\ Idle.owes = Zero /\ Done.owes = Zero
    /\ Idle.key = None
    /\ \A p \in {"idle", "counted", "report", "done"}, k \in Keys, owes \in Tally :
          /\ At(p, k, owes) \in Mover
          /\ At(p, k, owes).at = p /\ At(p, k, owes).key = k /\ At(p, k, owes).owes = owes
  BY TallyFacts, KeyFacts DEF Idle, Done, At, Mover

(* A handler is somewhere else; the others stay. *)
LEMMA HandMoves ==
    ASSUME NEW h \in Handlers, NEW f \in [Handlers -> Mover], NEW v \in Mover,
           NEW g, g = [f EXCEPT ![h] = v]
    PROVE  /\ g \in [Handlers -> Mover] /\ g[h] = v
           /\ \A x \in Handlers \ {h} : g[x] = f[x]
  OBVIOUS

Places(r, p, o) == [r EXCEPT !.at = p, !.owes = o]

LEMMA MoverMoves ==
    ASSUME NEW P, NEW r \in [at : P, key : Keys, owes : Tally], NEW p, NEW o
    PROVE  Places(r, p, o) = At(p, r.key, o)
<1>1. ASSUME NEW g, g = [r EXCEPT !.at = p, !.owes = o]
      PROVE  g = [at |-> p, key |-> r.key, owes |-> o]
  BY <1>1
<1> QED
  BY <1>1 DEF Places, At

(* Dropping the decode keeps the handler's place in finish(). *)
LEMMA DroppedDecode ==
    ASSUME ReportTyped, NEW h \in Handlers
    PROVE  LET owes == hand[h].owes (+) Decode(hand[h].key, "queue_dropped")
               to == At("report", hand[h].key, owes)
           IN  /\ [hand EXCEPT ![h].at = "report",
                               ![h].owes = @ (+) Decode(hand[h].key, "queue_dropped")]
                     = [hand EXCEPT ![h] = to]
               /\ hand[h].key \in Keys /\ hand[h].owes \in Tally
               /\ owes \in Tally /\ to \in Mover
<1> DEFINE d == Decode(hand[h].key, "queue_dropped")
           owes == hand[h].owes (+) d
           to == At("report", hand[h].key, owes)
<1>1. hand \in [Handlers -> Mover] /\ hand[h] \in Mover
  BY DEF ReportTyped
<1>2. hand[h].key \in Keys /\ hand[h].owes \in Tally /\ d \in Tally
  BY <1>1, Labels DEF Mover
<1>3. owes \in Tally
  <2> HIDE DEF d
  <2> QED
    BY <1>2, PlusFacts
<1>4. to \in Mover
  <2> HIDE DEF owes
  <2> QED
    BY <1>2, <1>3, MoverFacts
<1>5. [hand EXCEPT ![h].at = "report", ![h].owes = @ (+) d] = [hand EXCEPT ![h] = to]
  <2> HIDE DEF d
  <2>1. Places(hand[h], "report", owes) = to
    <3>1. hand[h] \in [at : {"idle", "counted", "report", "done"}, key : Keys, owes : Tally]
      BY <1>1 DEF Mover
    <3> HIDE DEF owes
    <3> QED
      BY <3>1, MoverMoves
  <2>2. [hand EXCEPT ![h].at = "report", ![h].owes = @ (+) d]
           = [hand EXCEPT ![h] = Places(hand[h], "report", owes)]
    BY <1>1 DEF Places
  <2> QED
    BY <2>1, <2>2
<1> QED
  BY <1>2, <1>3, <1>4, <1>5

LEMMA KeysFinite == IsFiniteSet(Keys)
<1>1. IsFiniteSet({None}) /\ IsFiniteSet(Providers)
  BY ReportingAssumption, FS_Singleton
<1> QED
  BY <1>1, FS_Union DEF Keys

(* A bucket becomes an event if there is one. *)
LEMMA BucketEvents ==
    ASSUME NEW b \in Tally
    PROVE  LET events == IF b = Zero THEN <<>> ELSE <<b>>
           IN  /\ events \in Seq(Tally)
               /\ \A m \in Measures : Total(events)[m] = b[m]
               /\ \A i \in 1..Len(events) : events[i] = b
<1>1. CASE b = Zero
  <2>1. <<>> \in Seq(Tally) /\ 1..Len(<<>>) = {}
    OBVIOUS
  <2> QED
    BY <1>1, <2>1, TotalEmpty
<1>2. CASE b # Zero
  <2>1. <<b>> \in Seq(Tally) /\ Len(<<b>>) = 1 /\ <<b>>[1] = b
    OBVIOUS
  <2>2. \A i \in 1..Len(<<b>>) : <<b>>[i] = b
    BY <2>1
  <2> QED
    BY <1>2, <2>1, <2>2, TotalOne
<1> QED
  BY <1>1, <1>2

(* The elements of two sequences, one behind the other. *)
LEMMA ConcatElements ==
    ASSUME NEW s \in Seq(Tally), NEW r \in Seq(Tally)
    PROVE  /\ s \o r \in Seq(Tally)
           /\ \A i \in 1..Len(s \o r) :
                 \/ \E j \in 1..Len(s) : (s \o r)[i] = s[j]
                 \/ \E j \in 1..Len(r) : (s \o r)[i] = r[j]
<1>1. s \o r \in Seq(Tally) /\ Len(s \o r) = Len(s) + Len(r) /\ Len(s) \in Nat /\ Len(r) \in Nat
  BY ConcatProperties, LenProperties
<1>2. \A i \in 1..(Len(s) + Len(r)) : (s \o r)[i] = IF i <= Len(s) THEN s[i] ELSE r[i - Len(s)]
  BY ConcatProperties
<1>3. ASSUME NEW i \in 1..Len(s \o r)
      PROVE  \/ \E j \in 1..Len(s) : (s \o r)[i] = s[j]
             \/ \E j \in 1..Len(r) : (s \o r)[i] = r[j]
  <2>1. i \in 1..(Len(s) + Len(r)) /\ i \in Int
    BY <1>1
  <2>2. CASE i <= Len(s)
    BY <1>1, <1>2, <2>1, <2>2
  <2>3. CASE ~(i <= Len(s))
    <3>1. i - Len(s) \in 1..Len(r)
      BY <1>1, <2>1, <2>3
    <3> QED
      BY <1>2, <2>1, <2>3, <3>1
  <2> QED
    BY <2>2, <2>3
<1> QED
  BY <1>1, <1>3

(* Draining moves what the buckets hold into the batch, whatever the order. *)
FromBuckets(e) == e = buckets \/ \E k \in Keys : e = tx_buckets[k]

LEMMA DrainFacts ==
    ASSUME ReportTyped, Drain
    PROVE  /\ batch' \in Seq(Tally)
           /\ \A m \in Measures : Total(batch')[m]
                                    = Total(batch)[m] + buckets[m] + Total(tx_buckets)[m]
           /\ \A i \in 1..Len(batch') :
                 \/ \E j \in 1..Len(batch) : batch'[i] = batch[j]
                 \/ FromBuckets(batch'[i])
           /\ buckets' = Zero
           /\ tx_buckets' \in [Keys -> Tally] /\ \A k \in Keys : tx_buckets'[k] = Zero
<1> DEFINE used == {k \in Keys : tx_buckets[k] # Zero}
           middle == IF buckets = Zero THEN <<>> ELSE <<buckets>>
<1>1. PICK order \in Injection(1..Cardinality(used), used) :
         batch' = batch \o middle \o [i \in DOMAIN order |-> tx_buckets[order[i]]]
  BY DEF Drain
<1> DEFINE events == [i \in DOMAIN order |-> tx_buckets[order[i]]]
           n == Cardinality(used)
<1>2. batch \in Seq(Tally) /\ buckets \in Tally /\ tx_buckets \in [Keys -> Tally]
  BY DEF ReportTyped
<1>3. /\ middle \in Seq(Tally) /\ \A m \in Measures : Total(middle)[m] = buckets[m]
      /\ \A i \in 1..Len(middle) : middle[i] = buckets
  BY <1>2, BucketEvents
<1>4. events \in Seq(Tally) /\ \A m \in Measures : Total(events)[m] = Total(tx_buckets)[m]
  <2>0. "raw" \in Measures
    BY NamedMeasures
  <2>1. ASSUME NEW m \in Measures
        PROVE  events \in Seq(Tally) /\ Total(events)[m] = Total(tx_buckets)[m]
    BY <1>2, KeysFinite, TotalInOrder
  <2> QED
    BY <2>0, <2>1
<1>5. \A i \in 1..Len(events) : \E k \in Keys : events[i] = tx_buckets[k]
  <2>1. order \in [1..n -> used] /\ n \in Nat
    <3>1. used \in SUBSET Keys
      OBVIOUS
    <3>2. n \in Nat
      BY <3>1, KeysFinite, FS_Subset, FS_CardinalityType
    <3> QED
      BY <3>2 DEF Injection
  <2>2. Len(events) = n /\ \A i \in 1..n : events[i] = tx_buckets[order[i]] /\ order[i] \in Keys
    <3>1. \A i \in 1..n : order[i] \in used
      BY <2>1
    <3>2. DOMAIN order = 1..n
      BY <2>1
    <3>3. events \in [1..n -> Tally]
      BY <1>2, <3>1, <3>2
    <3>4. \A j \in Nat : \A e \in [1..j -> Tally] : Len(e) = j
      OBVIOUS
    <3>5. Len(events) = n
      <4> HIDE DEF events, n, used
      <4> QED
        BY <2>1, <3>3, <3>4
    <3> HIDE DEF n
    <3> QED
      BY <3>1, <3>2, <3>5
  <2> QED
    BY <2>2
<1> HIDE DEF used, middle, events, n
<1>6. batch' = (batch \o middle) \o events
  BY <1>1 DEF events
<1>7. batch \o middle \in Seq(Tally)
  BY <1>2, <1>3, ConcatElements
<1>8. batch' \in Seq(Tally)
  BY <1>4, <1>6, <1>7, ConcatElements
<1>9. ASSUME NEW m \in Measures
      PROVE  Total(batch')[m] = Total(batch)[m] + buckets[m] + Total(tx_buckets)[m]
  <2>1. Total(batch \o middle)[m] = Total(batch)[m] + Total(middle)[m]
    BY <1>2, <1>3, TotalConcat
  <2>2. Total(batch')[m] = Total(batch \o middle)[m] + Total(events)[m]
    BY <1>4, <1>6, <1>7, TotalConcat
  <2> QED
    BY <1>3, <1>4, <2>1, <2>2
<1>10. ASSUME NEW i \in 1..Len(batch')
       PROVE  (\E j \in 1..Len(batch) : batch'[i] = batch[j]) \/ FromBuckets(batch'[i])
  <2>1. \/ \E j \in 1..Len(batch \o middle) : batch'[i] = (batch \o middle)[j]
        \/ \E j \in 1..Len(events) : batch'[i] = events[j]
    BY <1>4, <1>6, <1>7, ConcatElements
  <2>2. \A j \in 1..Len(batch \o middle) :
           \/ \E l \in 1..Len(batch) : (batch \o middle)[j] = batch[l]
           \/ \E l \in 1..Len(middle) : (batch \o middle)[j] = middle[l]
    BY <1>2, <1>3, ConcatElements
  <2> QED
    BY <1>3, <1>5, <2>1, <2>2 DEF FromBuckets
<1>11. buckets' = Zero /\ tx_buckets' = [k \in Keys |-> Zero]
  BY DEF Drain
<1>12. tx_buckets' \in [Keys -> Tally] /\ \A k \in Keys : tx_buckets'[k] = Zero
  BY <1>11, TallyFacts
<1> QED
  BY <1>8, <1>9, <1>10, <1>11, <1>12

(* Every step keeps the types: one step for each action. *)
LEMMA TypedStep ==
    ASSUME ReportTyped, [Next]_vars
    PROVE  ReportTyped'
<1> USE DEF ReportTyped, Phases
<1>1. ASSUME NEW h \in Handlers, FinishCounts(h) PROVE ReportTyped'
  <2>1. PICK k \in Keys :
           \/ /\ hand' = [hand EXCEPT ![h] = At("report", k, Decode(k, "batch_unsupported"))]
              /\ told' = told (+) Decode(k, "batch_unsupported")
           \/ /\ hand' = [hand EXCEPT ![h] = At("counted", k, Submission(k))]
              /\ told' = told (+) Submission(k)
    BY <1>1 DEF FinishCounts
  <2>2. /\ At("report", k, Decode(k, "batch_unsupported")) \in Mover
        /\ At("counted", k, Submission(k)) \in Mover
    BY Labels, MoverFacts
  <2>3. hand' \in [Handlers -> Mover]
    BY <2>1, <2>2
  <2>4. told' \in Tally
    BY <2>1, Labels, PlusFacts
  <2> QED
    BY <1>1, <2>3, <2>4 DEF FinishCounts
<1>2. ASSUME NEW h \in Handlers, FinishSends(h) PROVE ReportTyped'
  <2>1. hand[h].key \in Keys
    BY DroppedDecode
  <2>2. CASE Len(queue) < TX_DECODE_QUEUE_CAPACITY
    <3>0. hand' = [hand EXCEPT ![h] = Done] /\ queue' = Append(queue, hand[h].key)
      BY <1>2, <2>2 DEF FinishSends
    <3>1. hand' \in [Handlers -> Mover]
      BY <3>0, MoverFacts
    <3>2. queue' \in Seq(Keys \cup {Flush})
      BY <2>1, <3>0, AppendProperties
    <3> QED
      BY <1>2, <2>2, <3>1, <3>2 DEF FinishSends
  <2>3. CASE ~(Len(queue) < TX_DECODE_QUEUE_CAPACITY)
    <3>1. hand' \in [Handlers -> Mover]
      <4>1. hand' = [hand EXCEPT ![h].at = "report",
                                 ![h].owes = @ (+) Decode(hand[h].key, "queue_dropped")]
        BY <1>2, <2>3 DEF FinishSends
      <4>2. PICK to \in Mover : hand' = [hand EXCEPT ![h] = to]
        BY <4>1, DroppedDecode
      <4> QED
        BY <4>2
    <3>2. told' \in Tally
      BY <1>2, <2>3, Labels, PlusFacts DEF FinishSends
    <3> QED
      BY <1>2, <2>3, <3>1, <3>2 DEF FinishSends
  <2> QED
    BY <2>2, <2>3
<1>3. ASSUME NEW h \in Handlers, FinishReports(h) PROVE ReportTyped'
  <2>1. hand' \in [Handlers -> Mover]
    BY <1>3, MoverFacts DEF FinishReports
  <2>2. hand[h].owes \in Tally
    BY DroppedDecode
  <2>3. \A k \in Keys : tx_buckets[k] (+) hand[h].owes \in Tally
    BY <2>2, PlusFacts
  <2>4. tx_buckets' \in [Keys -> Tally]
    BY <1>3, <2>3 DEF FinishReports
  <2> QED
    BY <1>3, <2>1, <2>4 DEF FinishReports
<1>4. CASE WorkerReceives
  <2>1. queue # <<>> /\ queue' = Tail(queue)
    BY <1>4 DEF WorkerReceives
  <2>2. queue' \in Seq(Keys \cup {Flush}) /\ Head(queue) \in Keys \cup {Flush}
    BY <2>1, HeadTailProperties
  <2>3. CASE Head(queue) = Flush
    BY <1>4, <2>2, <2>3 DEF WorkerReceives
  <2>4. CASE Head(queue) # Flush
    <3> DEFINE k == Head(queue)
    <3>1. PICK r \in DecodeResults :
             /\ worker' = At("report", k, Submission(k) (+) Decode(k, r))
             /\ told' = told (+) Decode(k, r)
      BY <1>4, <2>4 DEF WorkerReceives
    <3>2. k \in Keys
      BY <2>2, <2>4
    <3> HIDE DEF k
    <3>3. Submission(k) (+) Decode(k, r) \in Tally /\ told (+) Decode(k, r) \in Tally
      BY Labels, PlusFacts
    <3>4. worker' \in Mover
      BY <3>1, <3>2, <3>3, MoverFacts
    <3> QED
      BY <1>4, <2>2, <2>4, <3>1, <3>3, <3>4 DEF WorkerReceives
  <2> QED
    BY <2>3, <2>4
<1>5. CASE WorkerReports
  <2>1. worker.owes \in Tally
    BY DEF Mover
  <2>2. \A k \in Keys : tx_buckets[k] (+) worker.owes \in Tally
    BY <2>1, PlusFacts
  <2>3. tx_buckets' \in [Keys -> Tally]
    BY <1>5, <2>2 DEF WorkerReports
  <2> QED
    BY <1>5, <2>3, MoverFacts DEF WorkerReports
<1>6. CASE RecordRequest
  <2>1. PICK n \in Calls : LET leg == Copies(n, "calls") (+) One("latencies")
                           IN  buckets' = buckets (+) leg /\ told' = told (+) leg
    BY <1>6 DEF RecordRequest
  <2>2. n \in Nat
    BY ReportingAssumption
  <2>3. Copies(n, "calls") \in Tally /\ One("latencies") \in Tally
    BY <2>2, TallyFacts
  <2>4. Copies(n, "calls") (+) One("latencies") \in Tally
    BY <2>3, PlusFacts
  <2>5. buckets' \in Tally /\ told' \in Tally
    BY <2>1, <2>4, PlusFacts
  <2> QED
    BY <1>6, <2>5 DEF RecordRequest
<1>7. CASE Emit /\ aggregates' \in Nat /\ main' \in Phases
             /\ UNCHANGED <<hand, queue, worker, buckets, tx_buckets, batch, sending, task,
                            permit, waiters, attempted, due>>
  <2>1. told' \in Tally
    BY <1>7, TallyFacts, PlusFacts DEF Emit
  <2>2. channel' \in Nat /\ dropped' \in Nat
    BY <1>7 DEF Emit
  <2> QED
    BY <1>7, <2>1, <2>2
<1>8. CASE EmitEvent
  BY <1>7, <1>8 DEF EmitEvent
<1>9. CASE TaskReceives
  <2>1. One("raw") \in Tally
    BY TallyFacts
  <2>2. Append(batch, One("raw")) \in Seq(Tally) /\ <<>> \in Seq(Tally)
    BY <2>1, AppendProperties
  <2>3. channel' \in Nat
    BY <1>9 DEF TaskReceives
  <2> QED
    BY <1>9, <2>2, <2>3 DEF TaskReceives
<1>10. CASE TaskTicks
  BY <1>10, DrainFacts, TallyFacts DEF TaskTicks
<1>11. CASE TaskNotified
  BY <1>11, DrainFacts, TallyFacts DEF TaskNotified
<1>12. CASE TaskDrainsChannel
  <2>1. One("raw") \in Tally
    BY TallyFacts
  <2>2. Append(batch, One("raw")) \in Seq(Tally) /\ <<>> \in Seq(Tally)
    BY <2>1, AppendProperties
  <2>3. channel' \in Nat /\ batch' \in Seq(Tally) /\ sending' \in Seq(Tally)
    <3>1. CASE /\ channel > 0 /\ channel' = channel - 1
               /\ batch' = Append(batch, One("raw")) /\ UNCHANGED sending
      BY <2>2, <3>1
    <3>2. CASE sending' = batch /\ batch' = <<>> /\ UNCHANGED channel
      BY <2>2, <3>2
    <3>3. CASE UNCHANGED <<channel, batch, sending>>
      BY <3>3
    <3> QED
      BY <1>12, <3>1, <3>2, <3>3 DEF TaskDrainsChannel
  <2> QED
    BY <1>12, <2>3 DEF TaskDrainsChannel, EndBranch
<1>13. CASE SendEnds
  <2>1. Total(sending) \in Tally /\ <<>> \in Seq(Tally)
    BY SequenceTyped
  <2>2. attempted' \in Tally
    BY <1>13, <2>1, PlusFacts DEF SendEnds
  <2> QED
    BY <1>13, <2>1, <2>2 DEF SendEnds, EndBranch
<1>14. CASE ServeEnds
  <2>1. aggregates' \in Nat
    BY <1>14, ReportingAssumption DEF ServeEnds
  <2> QED
    BY <1>14, <2>1 DEF ServeEnds
<1>15. CASE HistoricalFlush
  <2>1. CASE aggregates > 0
    BY <1>7, <1>15, <2>1 DEF HistoricalFlush
  <2>2. CASE ~(aggregates > 0)
    BY <1>15, <2>2 DEF HistoricalFlush
  <2> QED
    BY <2>1, <2>2
<1>16. CASE TxFlush
  BY <1>16, AppendProperties DEF TxFlush
<1>17. CASE PushWaiter
  BY <1>17 DEF PushWaiter
<1>18. CASE NotifyOne
  BY <1>18 DEF NotifyOne
<1>19. CASE Exited \/ UNCHANGED vars
  BY <1>19 DEF Exited, vars
<1> QED
  BY <1>1, <1>2, <1>3, <1>4, <1>5, <1>6, <1>8, <1>9, <1>10, <1>11, <1>12, <1>13, <1>14,
     <1>15, <1>16, <1>17, <1>18, <1>19 DEF Next, Finish, Worker, Main

LEMMA TypedInit == Init => ReportTyped
<1> SUFFICES ASSUME Init PROVE ReportTyped
  OBVIOUS
<1>1. /\ hand \in [Handlers -> Mover] /\ worker \in Mover
      /\ queue \in Seq(Keys \cup {Flush})
      /\ buckets \in Tally /\ tx_buckets \in [Keys -> Tally]
      /\ batch \in Seq(Tally) /\ sending \in Seq(Tally)
      /\ told \in Tally /\ attempted \in Tally /\ due \in Tally
  BY TallyFacts, MoverFacts DEF Init
<1> QED
  BY <1>1 DEF Init, ReportTyped, Phases

Parts == MoversInv /\ QueueInv /\ FlushInv /\ PlacesInv

LEMMA ControlIs == ControlInv <=> ReportTyped /\ Parts
  BY DEF ControlInv, Parts

(* What a step on a handler leaves to show. *)
LEMMA HandStep ==
    ASSUME ControlInv, NEW h \in Handlers, NEW v \in Mover,
           hand' = [hand EXCEPT ![h] = v], UNCHANGED <<worker, main>>,
           \/ v = Done
           \/ v.at = "report"
           \/ v.at = "counted" /\ v.owes = Submission(v.key),
           v = Done \/ main = "serving"
    PROVE  MoversInv'
<1>1. hand \in [Handlers -> Mover]
  BY DEF ControlInv, ReportTyped
<1>2. hand'[h] = v /\ \A x \in Handlers \ {h} : hand'[x] = hand[x]
  BY <1>1
<1>3. ASSUME NEW x \in Handlers
      PROVE  /\ hand'[x].at = "idle" => hand'[x] = Idle
             /\ hand'[x].at = "done" => hand'[x] = Done
             /\ hand'[x].at = "counted" => hand'[x].owes = Submission(hand'[x].key)
             /\ main' # "serving" => hand'[x] \in {Idle, Done}
  <2>1. CASE x # h
    BY <1>2, <2>1 DEF ControlInv, MoversInv
  <2>2. CASE x = h
    BY <1>2, <2>2, MoverFacts
  <2> QED
    BY <2>1, <2>2
<1> QED
  BY <1>3 DEF ControlInv, MoversInv

LEMMA PartsStep ==
    ASSUME ControlInv, [Next]_vars
    PROVE  Parts'
<1>0. ReportTyped /\ MoversInv /\ QueueInv /\ FlushInv /\ PlacesInv
  BY DEF ControlInv
<1>1. ASSUME NEW h \in Handlers, FinishCounts(h) PROVE Parts'
  <2>1. PICK v \in Mover : /\ hand' = [hand EXCEPT ![h] = v]
                           /\ \/ v.at = "report"
                              \/ v.at = "counted" /\ v.owes = Submission(v.key)
    <3>1. \A k \in Keys :
             LET r == At("report", k, Decode(k, "batch_unsupported"))
                 c == At("counted", k, Submission(k))
             IN  /\ r \in Mover /\ r.at = "report"
                 /\ c \in Mover /\ c.at = "counted" /\ c.owes = Submission(c.key)
      BY Labels, MoverFacts
    <3> QED
      BY <1>1, <3>1 DEF FinishCounts
  <2>2. MoversInv'
    BY <1>1, <2>1, HandStep DEF FinishCounts
  <2> QED
    BY <1>0, <1>1, <2>2 DEF Parts, FinishCounts, QueueInv, FlushInv, PlacesInv
<1>2. ASSUME NEW h \in Handlers, FinishSends(h) PROVE Parts'
  <2>0. hand[h] \in Mover /\ hand[h].key \in Keys /\ main = "serving"
    <3>1. hand[h] \in Mover
      BY <1>0 DEF ReportTyped
    <3>2. hand[h].at = "counted"
      BY <1>2 DEF FinishSends
    <3> QED
      BY <1>0, <3>1, <3>2, MoverFacts DEF MoversInv, Mover
  <2>1. PICK v \in Mover : /\ hand' = [hand EXCEPT ![h] = v]
                           /\ v = Done \/ v.at = "report"
    <3>1. CASE Len(queue) < TX_DECODE_QUEUE_CAPACITY
      BY <1>2, <3>1, MoverFacts DEF FinishSends
    <3>2. CASE ~(Len(queue) < TX_DECODE_QUEUE_CAPACITY)
      <4>1. hand' = [hand EXCEPT ![h].at = "report",
                                 ![h].owes = @ (+) Decode(hand[h].key, "queue_dropped")]
        BY <1>2, <3>2 DEF FinishSends
      <4> DEFINE owes == hand[h].owes (+) Decode(hand[h].key, "queue_dropped")
                 to == At("report", hand[h].key, owes)
      <4>2. hand' = [hand EXCEPT ![h] = to] /\ to \in Mover /\ owes \in Tally
        BY <1>0, <4>1, DroppedDecode
      <4>3. to.at = "report"
        <5> HIDE DEF owes
        <5> QED
          BY <2>0, <4>2, MoverFacts
      <4> QED
        BY <4>2, <4>3
    <3> QED
      BY <3>1, <3>2
  <2>2. MoversInv'
    BY <1>2, <2>0, <2>1, HandStep DEF FinishSends
  <2>3. main' = main /\ worker' = worker
    BY <1>2 DEF FinishSends
  <2>4. QueueInv'
    <3>1. CASE Len(queue) < TX_DECODE_QUEUE_CAPACITY
      <4>1. queue' = Append(queue, hand[h].key)
        BY <1>2, <3>1 DEF FinishSends
      <4>2. hand[h].key # Flush
        BY <2>0, KeyFacts
      <4>3. \A i \in 1..Len(queue) : queue[i] # Flush
        BY <1>0, <2>0 DEF QueueInv
      <4>4. \A i \in 1..Len(queue') : queue'[i] # Flush
        BY <1>0, <2>0, <4>1, <4>2, <4>3, AppendProperties DEF ReportTyped
      <4> QED
        BY <2>0, <2>3, <4>4 DEF QueueInv
    <3>2. CASE ~(Len(queue) < TX_DECODE_QUEUE_CAPACITY)
      BY <1>0, <1>2, <3>2 DEF FinishSends, QueueInv
    <3> QED
      BY <3>1, <3>2
  <2> QED
    BY <1>0, <1>2, <2>2, <2>4 DEF Parts, FinishSends, FlushInv, PlacesInv
<1>3. ASSUME NEW h \in Handlers, FinishReports(h) PROVE Parts'
  <2>1. main = "serving"
    BY <1>0, <1>3, MoverFacts DEF FinishReports, MoversInv
  <2>2. MoversInv'
    BY <1>3, MoverFacts, HandStep DEF FinishReports
  <2>3. ~(task \in {"flush", "post_flush"} \/ main = "exited")
    BY <1>0, <2>1 DEF FlushInv
  <2> QED
    BY <1>0, <1>3, <2>2, <2>3 DEF Parts, FinishReports, QueueInv, FlushInv, PlacesInv
<1>4. CASE WorkerReceives
  <2>0. worker = Idle /\ queue # <<>> /\ queue' = Tail(queue) /\ UNCHANGED <<hand, task>>
    BY <1>4 DEF WorkerReceives
  <2>1. /\ Len(queue) \in Nat /\ Len(queue) >= 1 /\ Head(queue) = queue[1]
        /\ Len(queue') = Len(queue) - 1
        /\ \A i \in 1..Len(queue') : queue'[i] = queue[i + 1]
    BY <1>0, <2>0, HeadTailProperties, LenProperties, EmptySeq DEF ReportTyped
  <2>2. CASE Head(queue) = Flush
    <3>0. /\ main \in Phases /\ main \notin {"decoded", "registered", "waiting", "exited"}
          /\ main \notin {"serving", "historical", "tx"}
      <4>1. 1 \in 1..Len(queue) /\ queue[1] = Flush
        BY <2>1, <2>2
      <4>2. main \notin {"serving", "historical", "tx"}
        BY <1>0, <4>1 DEF QueueInv
      <4> QED
        BY <1>0, <2>0, <4>2 DEF QueueInv, ReportTyped
    <3>1. main = "tx_wait" /\ main' = "decoded" /\ worker' = worker
      BY <1>4, <2>2, <3>0 DEF WorkerReceives, Phases
    <3>2. Len(queue) = 1
      BY <1>0, <2>1, <2>2, <3>1 DEF QueueInv
    <3>3. queue' = <<>>
      BY <1>0, <2>0, <2>1, <3>2, HeadTailProperties, EmptySeq DEF ReportTyped
    <3>4. QueueInv'
      BY <2>0, <3>1, <3>3 DEF QueueInv
    <3>5. MoversInv'
      BY <1>0, <2>0, <3>1 DEF MoversInv
    <3> QED
      BY <1>0, <1>4, <3>1, <3>4, <3>5 DEF Parts, WorkerReceives, FlushInv, PlacesInv
  <2>3. CASE Head(queue) # Flush
    <3>1. main' = main
      BY <1>4, <2>3 DEF WorkerReceives
    <3>2. worker'.at = "report"
      <4>0. Head(queue) \in Keys
        BY <1>0, <2>0, <2>3, HeadTailProperties DEF ReportTyped
      <4> DEFINE k == Head(queue)
      <4>1. PICK r \in DecodeResults :
               worker' = At("report", k, Submission(k) (+) Decode(k, r))
        BY <1>4, <2>3 DEF WorkerReceives
      <4>2. Submission(k) (+) Decode(k, r) \in Tally
        BY Labels, PlusFacts
      <4> QED
        BY <4>0, <4>1, <4>2, MoverFacts
    <3>3. MoversInv'
      BY <1>0, <2>0, <3>1, <3>2 DEF MoversInv
    <3>4. ASSUME main \in {"serving", "historical", "tx"} PROVE QueueInv'
      <4>1. \A i \in 1..Len(queue') : queue'[i] # Flush
        BY <1>0, <2>1, <3>4 DEF QueueInv
      <4> QED
        BY <3>1, <3>4, <4>1 DEF QueueInv
    <3>5. ASSUME main = "tx_wait" PROVE QueueInv'
      <4>1. \A i \in 1..Len(queue) : queue[i] = Flush <=> i = Len(queue)
        BY <1>0, <3>5 DEF QueueInv
      <4>2. \A i \in 1..Len(queue') : queue'[i] = Flush <=> i = Len(queue')
        BY <2>1, <4>1
      <4>3. Len(queue') # 0
        BY <2>1, <2>3, <4>1
      <4>4. queue' # <<>>
        BY <4>3
      <4> QED
        BY <3>1, <3>5, <4>2, <4>4 DEF QueueInv
    <3>6. main \notin {"decoded", "registered", "waiting", "exited"} /\ main \in Phases
      BY <1>0, <2>0 DEF QueueInv, ReportTyped
    <3>7. QueueInv'
      BY <3>4, <3>5, <3>6 DEF Phases
    <3> QED
      BY <1>0, <1>4, <3>1, <3>3, <3>7 DEF Parts, WorkerReceives, FlushInv, PlacesInv
  <2> QED
    BY <2>2, <2>3
<1>5. CASE WorkerReports
  <2>1. main \notin {"decoded", "registered", "waiting", "exited"}
    BY <1>0, <1>5 DEF WorkerReports, QueueInv
  <2>2. ~(task \in {"flush", "post_flush"} \/ main = "exited")
    BY <1>0, <2>1 DEF FlushInv
  <2>3. MoversInv'
    BY <1>0, <1>5 DEF WorkerReports, MoversInv
  <2> QED
    BY <1>0, <1>5, <2>1, <2>2, <2>3 DEF Parts, WorkerReports, QueueInv, FlushInv, PlacesInv
<1>6. CASE RecordRequest
  <2>1. ASSUME NEW m \in Measures \ {"calls", "latencies"} PROVE buckets'[m] = 0
    <3>1. PICK n \in Calls :
             buckets' = buckets (+) (Copies(n, "calls") (+) One("latencies"))
      BY <1>6 DEF RecordRequest
    <3>2. n \in Nat /\ buckets \in Tally
      BY <1>0, ReportingAssumption DEF ReportTyped
    <3>3. /\ Copies(n, "calls") \in Tally /\ One("latencies") \in Tally
          /\ Copies(n, "calls")[m] = 0 /\ One("latencies")[m] = 0
      BY <3>2, TallyFacts
    <3>4. /\ Copies(n, "calls") (+) One("latencies") \in Tally
          /\ (Copies(n, "calls") (+) One("latencies"))[m] = 0
      BY <3>3, PlusFacts
    <3>5. buckets'[m] = buckets[m] + 0
      BY <3>1, <3>2, <3>4, PlusFacts
    <3>6. buckets[m] = 0
      BY <1>0 DEF PlacesInv
    <3> QED
      BY <3>5, <3>6
  <2>2. PlacesInv'
    BY <1>0, <1>6, <2>1 DEF RecordRequest, PlacesInv
  <2> QED
    BY <1>0, <1>6, <2>2 DEF Parts, RecordRequest, MoversInv, QueueInv, FlushInv
<1>7. CASE EmitEvent
  BY <1>0, <1>7 DEF Parts, EmitEvent, MoversInv, QueueInv, FlushInv, PlacesInv
<1>8. CASE TaskReceives
  <2>0. /\ UNCHANGED <<hand, queue, worker, main, permit, waiters, tx_buckets, buckets>>
        /\ task = "select" /\ main # "exited" /\ task' \in {"select", "post"}
        /\ task' = "post" \/ UNCHANGED sending
    BY <1>8 DEF TaskReceives, Running
  <2>1. MoversInv' /\ QueueInv'
    BY <1>0, <2>0 DEF MoversInv, QueueInv
  <2>2. FlushInv'
    BY <1>0, <2>0 DEF FlushInv
  <2>3. PlacesInv'
    BY <1>0, <2>0 DEF PlacesInv
  <2> QED
    BY <2>1, <2>2, <2>3 DEF Parts
<1>9. CASE TaskTicks \/ TaskNotified
  <2>1. MoversInv' /\ QueueInv'
    BY <1>0, <1>9 DEF TaskTicks, TaskNotified, MoversInv, QueueInv
  <2>2. FlushInv'
    BY <1>0, <1>9 DEF TaskTicks, TaskNotified, Running, FlushInv
  <2>3. buckets' = Zero /\ \A k \in Keys : tx_buckets'[k] = Zero
    BY <1>0, <1>9, DrainFacts DEF TaskTicks, TaskNotified
  <2>4. PlacesInv'
    BY <1>0, <1>9, <2>3, TallyFacts DEF TaskTicks, TaskNotified, Running, PlacesInv
  <2> QED
    BY <2>1, <2>2, <2>4 DEF Parts
<1>10. CASE TaskDrainsChannel
  <2>1. main' # "serving" <=> main # "serving"
    BY <1>0, <1>10 DEF TaskDrainsChannel, EndBranch, FlushInv, Running
  <2>2. MoversInv'
    BY <1>0, <1>10, <2>1 DEF TaskDrainsChannel, MoversInv
  <2>3. FlushInv'
    BY <1>0, <1>10 DEF TaskDrainsChannel, EndBranch, Running, FlushInv
  <2>4. QueueInv'
    BY <1>0, <1>10 DEF TaskDrainsChannel, EndBranch, Running, FlushInv, QueueInv
  <2>5. PlacesInv'
    BY <1>0, <1>10 DEF TaskDrainsChannel, EndBranch, Running, FlushInv, PlacesInv
  <2> QED
    BY <2>2, <2>3, <2>4, <2>5 DEF Parts
<1>11. CASE SendEnds
  <2>1. main' # "serving" <=> main # "serving"
    BY <1>0, <1>11 DEF SendEnds, EndBranch, FlushInv, Running
  <2>2. MoversInv'
    BY <1>0, <1>11, <2>1 DEF SendEnds, MoversInv
  <2>3. FlushInv'
    BY <1>0, <1>11 DEF SendEnds, EndBranch, Running, FlushInv
  <2>4. QueueInv'
    BY <1>0, <1>11 DEF SendEnds, EndBranch, Running, FlushInv, QueueInv
  <2>5. PlacesInv'
    BY <1>0, <1>11 DEF SendEnds, EndBranch, Running, FlushInv, PlacesInv
  <2> QED
    BY <2>2, <2>3, <2>4, <2>5 DEF Parts
<1>12. CASE ServeEnds
  BY <1>0, <1>12 DEF Parts, ServeEnds, MoversInv, QueueInv, FlushInv, PlacesInv
<1>13. CASE HistoricalFlush
  BY <1>0, <1>13 DEF Parts, HistoricalFlush, Emit, MoversInv, QueueInv, FlushInv, PlacesInv
<1>14. CASE TxFlush
  <2>1. /\ Len(queue') = Len(queue) + 1 /\ queue'[Len(queue) + 1] = Flush
        /\ \A i \in 1..Len(queue) : queue'[i] = queue[i]
        /\ Len(queue) \in Nat
    BY <1>0, <1>14, AppendProperties, LenProperties DEF TxFlush, ReportTyped
  <2>2. \A i \in 1..Len(queue) : queue[i] # Flush
    BY <1>0, <1>14 DEF TxFlush, QueueInv
  <2>3. \A i \in 1..Len(queue') : queue'[i] = Flush <=> i = Len(queue')
    BY <2>1, <2>2
  <2>4. queue' # <<>>
    BY <2>1
  <2>5. QueueInv'
    BY <1>14, <2>3, <2>4 DEF TxFlush, QueueInv
  <2> QED
    BY <1>0, <1>14, <2>5 DEF Parts, TxFlush, MoversInv, FlushInv, PlacesInv
<1>15. CASE PushWaiter
  BY <1>0, <1>15 DEF Parts, PushWaiter, MoversInv, QueueInv, FlushInv, PlacesInv
<1>16. CASE NotifyOne
  <2>0. /\ UNCHANGED <<hand, queue, worker, buckets, tx_buckets, batch, sending, task, waiters>>
        /\ main = "registered" /\ main' = "waiting" /\ permit'
    BY <1>16 DEF NotifyOne
  <2>1. MoversInv' /\ QueueInv'
    BY <1>0, <2>0 DEF MoversInv, QueueInv
  <2>2. FlushInv'
    BY <1>0, <2>0 DEF FlushInv
  <2>3. PlacesInv'
    BY <1>0, <2>0 DEF PlacesInv
  <2> QED
    BY <2>1, <2>2, <2>3 DEF Parts
<1>17. CASE Exited \/ UNCHANGED vars
  BY <1>0, <1>17 DEF Parts, Exited, vars, MoversInv, QueueInv, FlushInv, PlacesInv
<1> QED
  BY <1>1, <1>2, <1>3, <1>4, <1>5, <1>6, <1>7, <1>8, <1>9, <1>10, <1>11, <1>12, <1>13, <1>14,
     <1>15, <1>16, <1>17 DEF Next, Finish, Worker, Main

LEMMA PartsInit == Init => Parts
<1> SUFFICES ASSUME Init PROVE Parts
  OBVIOUS
<1>1. MoversInv /\ QueueInv
  BY MoverFacts DEF Init, MoversInv, QueueInv
<1>2. FlushInv /\ PlacesInv
  BY TallyFacts DEF Init, FlushInv, PlacesInv
<1> QED
  BY <1>1, <1>2 DEF Parts

LEMMA ControlStep ==
    ASSUME ControlInv, [Next]_vars
    PROVE  ControlInv'
<1>1. ReportTyped' /\ Parts'
  BY TypedStep, PartsStep DEF ControlInv
<1> QED
  BY <1>1 DEF ControlInv, Parts

-----------------------------------------------------------------------------
(* Layer 2: everything that was told is in exactly one place.              *)
LEMMA PlaceTypes ==
    ASSUME ReportTyped
    PROVE  /\ Owed \in [Handlers -> Tally] /\ Waiting \in Seq(Tally)
           /\ worker.owes \in Tally /\ worker.key \in Keys
<1>1. hand \in [Handlers -> Mover] /\ worker \in Mover /\ queue \in Seq(Keys \cup {Flush})
  BY DEF ReportTyped
<1>2. Owed \in [Handlers -> Tally]
  BY <1>1 DEF Owed, Mover
<1>3. \A k : Queued(k) \in Tally
  BY Labels, TallyFacts DEF Queued
<1>4. Waiting \in Seq(Tally)
  <2>1. Len(queue) \in Nat /\ DOMAIN queue = 1..Len(queue)
    BY <1>1, LenProperties
  <2>2. Waiting \in [1..Len(queue) -> Tally]
    BY <1>3, <2>1 DEF Waiting
  <2>3. \A n \in Nat : \A e \in [1..n -> Tally] : e \in Seq(Tally)
    OBVIOUS
  <2> QED
    BY <2>1, <2>2, <2>3
<1> QED
  BY <1>1, <1>2, <1>4 DEF Mover

LEMMA PlaceValues ==
    ASSUME ReportTyped, NEW m \in Measures
    PROVE  /\ told[m] \in Nat /\ Total(Owed)[m] \in Nat /\ Total(Waiting)[m] \in Nat
           /\ worker.owes[m] \in Nat /\ buckets[m] \in Nat /\ Total(tx_buckets)[m] \in Nat
           /\ Total(batch)[m] \in Nat /\ Total(sending)[m] \in Nat /\ attempted[m] \in Nat
           /\ RawEvents[m] \in Nat
           /\ Copies(dropped, "raw")[m] \in Nat
           /\ due[m] \in Nat
<1>1. IsFiniteSet(Handlers)
  BY ReportingAssumption
<1>2. Total(Owed) \in Tally
  BY <1>1, PlaceTypes, TotalTyped
<1>3. Total(Waiting) \in Tally
  BY PlaceTypes, SequenceTyped
<1>4. Total(tx_buckets) \in Tally
  BY KeysFinite, TotalTyped DEF ReportTyped
<1>5. Total(batch) \in Tally /\ Total(sending) \in Tally
  BY SequenceTyped DEF ReportTyped
<1>6. RawEvents \in Tally /\ Copies(dropped, "raw") \in Tally
  <2>1. channel + dropped \in Nat /\ dropped \in Nat
    BY DEF ReportTyped
  <2> QED
    BY <2>1, TallyFacts DEF RawEvents
<1>7. told \in Tally /\ buckets \in Tally /\ attempted \in Tally /\ worker.owes \in Tally
      /\ due \in Tally
  BY PlaceTypes DEF ReportTyped
<1> QED
  BY <1>2, <1>3, <1>4, <1>5, <1>6, <1>7, TallyValue

(* A handler owes something else. *)
LEMMA OwedMoves ==
    ASSUME ReportTyped, NEW h \in Handlers, NEW v \in Mover,
           hand' = [hand EXCEPT ![h] = v], NEW m \in Measures
    PROVE  /\ Total(Owed')[m] + hand[h].owes[m] = Total(Owed)[m] + v.owes[m]
           /\ Total(Owed')[m] \in Nat /\ hand[h].owes[m] \in Nat /\ v.owes[m] \in Nat
<1>1. hand \in [Handlers -> Mover] /\ IsFiniteSet(Handlers)
  BY ReportingAssumption DEF ReportTyped
<1>2. hand' \in [Handlers -> Mover] /\ hand'[h] = v
      /\ \A x \in Handlers \ {h} : hand'[x] = hand[x]
  BY <1>1
<1>3. Owed \in [Handlers -> Tally] /\ Owed[h] = hand[h].owes
  BY <1>1 DEF Owed, Mover
<1>4. Owed' \in [Handlers -> Tally] /\ Owed'[h] = v.owes
      /\ \A x \in Handlers \ {h} : Owed'[x] = Owed[x]
  BY <1>1, <1>2 DEF Owed, Mover
<1>5. Total(Owed')[m] + Owed[h][m] = Total(Owed)[m] + Owed'[h][m]
  <2>1. Varies(Handlers, Owed, Owed', h)
    BY <1>1, <1>3, <1>4 DEF Varies
  <2> QED
    BY <2>1, TotalUpdated
<1>6. Total(Owed') \in Tally
  BY <1>1, <1>4, TotalTyped
<1> QED
  BY <1>3, <1>4, <1>5, <1>6, TallyValue

(* A bucket of the transactions grows. *)
LEMMA TotalGrows ==
    ASSUME NEW S, NEW f, NEW g, NEW x, Varies(S, f, g, x), NEW e \in Tally,
           g[x] = f[x] (+) e, NEW m \in Measures
    PROVE  Total(g)[m] = Total(f)[m] + e[m]
<1>1. Total(g)[m] + f[x][m] = Total(f)[m] + g[x][m]
  BY TotalUpdated
<1>2. f[x] \in Tally /\ Total(f) \in Tally /\ Total(g) \in Tally
  BY TotalTyped DEF Varies
<1>3. g[x][m] = f[x][m] + e[m]
  BY <1>2, PlusFacts
<1>4. f[x][m] \in Nat /\ e[m] \in Nat /\ Total(f)[m] \in Nat /\ Total(g)[m] \in Nat
  BY <1>2, TallyValue
<1> QED
  BY <1>1, <1>3, <1>4

Raised(k, e) == tx_buckets' = [tx_buckets EXCEPT ![k] = @ (+) e]

LEMMA BucketGrows ==
    ASSUME ReportTyped, NEW k \in Keys, NEW e \in Tally, Raised(k, e)
    PROVE  /\ \A m \in Measures : Total(tx_buckets')[m] = Total(tx_buckets)[m] + e[m]
           /\ tx_buckets'[k] = tx_buckets[k] (+) e
           /\ \A x \in Keys \ {k} : tx_buckets'[x] = tx_buckets[x]
<1> DEFINE sum == tx_buckets[k] (+) e
<1>1. tx_buckets \in [Keys -> Tally] /\ tx_buckets[k] \in Tally
  BY DEF ReportTyped
<1>2. sum \in Tally
  BY <1>1, PlusFacts
<1>3. tx_buckets' = [tx_buckets EXCEPT ![k] = sum]
  BY <1>1 DEF Raised
<1>4. tx_buckets'[k] = sum
  <2> HIDE DEF sum
  <2> QED
    BY <1>1, <1>3
<1>5. \A x \in Keys \ {k} : tx_buckets'[x] = tx_buckets[x]
  BY <1>1, <1>3
<1>6. tx_buckets' \in [Keys -> Tally]
  <2> HIDE DEF sum
  <2> QED
    BY <1>1, <1>2, <1>3
<1>7. Varies(Keys, tx_buckets, tx_buckets', k)
  BY <1>1, <1>5, <1>6, KeysFinite DEF Varies
<1> HIDE DEF sum
<1>8. ASSUME NEW m \in Measures
      PROVE  Total(tx_buckets')[m] = Total(tx_buckets)[m] + e[m]
  <2>1. tx_buckets'[k] = tx_buckets[k] (+) e
    BY <1>4 DEF sum
  <2> QED
    BY <1>7, <2>1, TotalGrows
<1> QED
  BY <1>4, <1>5, <1>8 DEF sum

(* A message enters the decode queue, and the first leaves it. *)
LEMMA QueueGrows ==
    ASSUME ReportTyped, NEW k \in Keys \cup {Flush}, queue' = Append(queue, k),
           NEW m \in Measures
    PROVE  Total(Waiting')[m] = Total(Waiting)[m] + Queued(k)[m]
<1>1. queue \in Seq(Keys \cup {Flush}) /\ Len(queue) \in Nat
  BY LenProperties DEF ReportTyped
<1>2. \A x : Queued(x) \in Tally
  BY Labels, TallyFacts DEF Queued
<1>3. /\ DOMAIN queue = 1..Len(queue) /\ DOMAIN queue' = 1..(Len(queue) + 1)
      /\ queue'[Len(queue) + 1] = k /\ \A i \in 1..Len(queue) : queue'[i] = queue[i]
  BY <1>1, AppendProperties, LenProperties
<1>4. Waiting \in Seq(Tally) /\ Len(Waiting) = Len(queue)
  <2>1. Waiting \in Seq(Tally) /\ DOMAIN Waiting = 1..Len(queue)
    BY <1>3, PlaceTypes DEF Waiting
  <2> QED
    BY <1>1, <2>1, LenProperties
<1>5. Waiting' = Append(Waiting, Queued(k))
  <2> DEFINE w == Append(Waiting, Queued(k))
  <2>1. /\ DOMAIN w = 1..(Len(queue) + 1) /\ w[Len(queue) + 1] = Queued(k)
        /\ \A i \in 1..Len(queue) : w[i] = Waiting[i]
        /\ w = [i \in DOMAIN w |-> w[i]]
    <3>1. w \in Seq(Tally) /\ Len(w) = Len(queue) + 1
      BY <1>2, <1>4, AppendProperties
    <3>2. w[Len(queue) + 1] = Queued(k) /\ \A i \in 1..Len(queue) : w[i] = Waiting[i]
      BY <1>2, <1>4, AppendProperties
    <3> HIDE DEF w
    <3>3. DOMAIN w = 1..(Len(queue) + 1) /\ w = [i \in DOMAIN w |-> w[i]]
      BY <3>1, LenProperties
    <3> QED
      BY <3>2, <3>3
  <2>2. Waiting' = [i \in 1..(Len(queue) + 1) |-> Queued(queue'[i])]
    BY <1>3 DEF Waiting
  <2>3. \A i \in 1..Len(queue) : Waiting[i] = Queued(queue[i])
    BY <1>3 DEF Waiting
  <2> HIDE DEF w
  <2>4. ASSUME NEW i \in 1..(Len(queue) + 1) PROVE w[i] = Queued(queue'[i])
    <3>1. i = Len(queue) + 1 \/ i \in 1..Len(queue)
      BY <1>1
    <3> QED
      BY <1>3, <2>1, <2>3, <3>1
  <2>5. w = [i \in 1..(Len(queue) + 1) |-> w[i]]
    BY <2>1
  <2>6. Waiting' = w
    BY <2>2, <2>4, <2>5
  <2> QED
    BY <2>6 DEF w
<1> QED
  BY <1>2, <1>4, <1>5, TotalAppended

LEMMA QueueShrinks ==
    ASSUME ReportTyped, queue # <<>>, queue' = Tail(queue), NEW m \in Measures
    PROVE  Total(Waiting)[m] = Total(Waiting')[m] + Queued(Head(queue))[m]
<1>1. /\ queue \in Seq(Keys \cup {Flush}) /\ Len(queue) \in Nat /\ Len(queue) >= 1
      /\ DOMAIN queue = 1..Len(queue) /\ Head(queue) = queue[1]
      /\ Len(queue') = Len(queue) - 1 /\ DOMAIN queue' = 1..(Len(queue) - 1)
      /\ \A i \in 1..(Len(queue) - 1) : queue'[i] = queue[i + 1]
  BY HeadTailProperties, LenProperties, EmptySeq DEF ReportTyped
<1>2. Waiting \in Seq(Tally) /\ Len(Waiting) = Len(queue)
  <2>1. Waiting \in Seq(Tally) /\ DOMAIN Waiting = 1..Len(queue)
    BY <1>1, PlaceTypes DEF Waiting
  <2> QED
    BY <1>1, <2>1, LenProperties
<1>3. \A i \in 1..Len(queue) : Waiting[i] = Queued(queue[i])
  BY <1>1 DEF Waiting
<1>4. Waiting # <<>> /\ Head(Waiting) = Queued(Head(queue))
  <2>1. Waiting # <<>>
    BY <1>1, <1>2, EmptySeq
  <2> QED
    BY <1>1, <1>2, <1>3, <2>1, HeadTailProperties
<1>5. Waiting' = Tail(Waiting)
  <2> DEFINE w == Tail(Waiting)
             n == Len(queue) - 1
  <2>1. /\ DOMAIN w = 1..n /\ \A i \in 1..n : w[i] = Waiting[i + 1]
        /\ w = [i \in DOMAIN w |-> w[i]]
    <3>1. /\ w \in Seq(Tally) /\ Len(w) = Len(Waiting) - 1
          /\ \A i \in 1..Len(w) : w[i] = Waiting[i + 1]
      BY <1>2, <1>4, HeadTailProperties
    <3> HIDE DEF w
    <3>2. DOMAIN w = 1..Len(w) /\ w = [i \in DOMAIN w |-> w[i]]
      BY <3>1, LenProperties
    <3>3. Len(w) = n
      BY <1>2, <3>1
    <3> HIDE DEF n
    <3> QED
      BY <3>1, <3>2, <3>3
  <2>2. Waiting' = [i \in 1..n |-> Queued(queue'[i])]
    BY <1>1 DEF Waiting
  <2>3. \A i \in 1..n : i + 1 \in 1..Len(queue)
    BY <1>1
  <2>4. \A i \in 1..n : w[i] = Queued(queue'[i])
    BY <1>1, <1>3, <2>1, <2>3
  <2> HIDE DEF w, n
  <2>5. w = [i \in 1..n |-> w[i]]
    BY <2>1
  <2>6. Waiting' = w
    BY <2>2, <2>4, <2>5
  <2> QED
    BY <2>6 DEF w
<1> QED
  BY <1>2, <1>4, <1>5, TotalTaken

(* One more raw event. *)
LEMMA OneMore ==
    ASSUME NEW n \in Nat, NEW m \in Measures
    PROVE  /\ Copies(n + 1, "raw")[m] = Copies(n, "raw")[m] + One("raw")[m]
           /\ Copies(n, "raw")[m] \in Nat /\ One("raw")[m] \in Nat
<1>1. n + 1 \in Nat
  OBVIOUS
<1>2. /\ Copies(n + 1, "raw")[m] = IF m = "raw" THEN n + 1 ELSE 0
      /\ Copies(n, "raw")[m] = IF m = "raw" THEN n ELSE 0
      /\ One("raw")[m] = IF m = "raw" THEN 1 ELSE 0
  BY <1>1, TallyFacts
<1> QED
  BY <1>2

LEMMA Emitted ==
    ASSUME ReportTyped, Emit, NEW m \in Measures
    PROVE  /\ told'[m] = told[m] + One("raw")[m]
           /\ RawEvents'[m] = RawEvents[m] + One("raw")[m]
           /\ One("raw")[m] \in Nat
<1>1. told \in Tally /\ channel \in Nat /\ dropped \in Nat /\ One("raw") \in Tally
  BY TallyFacts DEF ReportTyped
<1>2. told'[m] = told[m] + One("raw")[m]
  BY <1>1, PlusFacts DEF Emit
<1>3. channel' + dropped' = (channel + dropped) + 1 /\ channel + dropped \in Nat
  BY <1>1 DEF Emit
<1> QED
  BY <1>2, <1>3, OneMore DEF RawEvents

(* The task takes an event out of the channel. *)
LEMMA Received ==
    ASSUME ReportTyped, channel > 0, channel' = channel - 1, UNCHANGED dropped,
           NEW m \in Measures
    PROVE  /\ RawEvents[m] = RawEvents'[m] + One("raw")[m]
           /\ RawEvents'[m] \in Nat /\ One("raw")[m] \in Nat
           /\ Total(Append(batch, One("raw")))[m] = Total(batch)[m] + One("raw")[m]
           /\ One("raw") \in Tally
<1>1. channel \in Nat /\ dropped \in Nat /\ batch \in Seq(Tally) /\ One("raw") \in Tally
  BY TallyFacts DEF ReportTyped
<1>2. channel + dropped = (channel' + dropped') + 1 /\ channel' + dropped' \in Nat
  BY <1>1
<1> QED
  BY <1>1, <1>2, OneMore, TotalAppended DEF RawEvents

LEMMA OnceStep ==
    ASSUME ControlInv, OnceInv, [Next]_vars
    PROVE  OnceInv'
<1>0. ReportTyped /\ MoversInv /\ QueueInv /\ FlushInv /\ PlacesInv
  BY DEF ControlInv
<1> SUFFICES ASSUME NEW m \in Measures PROVE told'[m] = Found(m)'
  BY DEF OnceInv
<1> DEFINE Goal == told'[m] = Found(m)'
<1>a. /\ told[m] \in Nat /\ Total(Owed)[m] \in Nat /\ Total(Waiting)[m] \in Nat
      /\ worker.owes[m] \in Nat /\ buckets[m] \in Nat /\ Total(tx_buckets)[m] \in Nat
      /\ Total(batch)[m] \in Nat /\ Total(sending)[m] \in Nat /\ attempted[m] \in Nat
      /\ RawEvents[m] \in Nat
  BY <1>0, PlaceValues
<1>b. told[m] = Total(Owed)[m] + Total(Waiting)[m] + worker.owes[m]
                  + buckets[m] + Total(tx_buckets)[m]
                  + Total(batch)[m] + Total(sending)[m] + attempted[m] + RawEvents[m]
  BY DEF OnceInv, Found
<1>c. Goal <=> told'[m] = Total(Owed')[m] + Total(Waiting')[m] + worker'.owes[m]
                            + buckets'[m] + Total(tx_buckets')[m]
                            + Total(batch')[m] + Total(sending')[m] + attempted'[m]
                            + RawEvents'[m]
  BY DEF Found
<1> HIDE DEF Goal
<1> SUFFICES Goal
  BY DEF Goal
<1>1. ASSUME NEW h \in Handlers, FinishCounts(h) PROVE Goal
  <2>0. UNCHANGED <<Waiting, RawEvents, worker, buckets, tx_buckets, batch, sending, attempted>>
    BY <1>1 DEF FinishCounts, Waiting, RawEvents
  <2>1. PICK v \in Mover, e \in Tally :
           /\ hand' = [hand EXCEPT ![h] = v] /\ told' = told (+) e /\ v.owes = e
    <3>1. \A k \in Keys :
             LET b == Decode(k, "batch_unsupported")
                 s == Submission(k)
             IN  /\ b \in Tally /\ At("report", k, b) \in Mover /\ At("report", k, b).owes = b
                 /\ s \in Tally /\ At("counted", k, s) \in Mover /\ At("counted", k, s).owes = s
      BY Labels, MoverFacts
    <3> QED
      BY <1>1, <3>1 DEF FinishCounts
  <2>2. /\ Total(Owed')[m] + hand[h].owes[m] = Total(Owed)[m] + v.owes[m]
        /\ Total(Owed')[m] \in Nat /\ v.owes[m] \in Nat
    BY <1>0, <2>1, OwedMoves
  <2>3. hand[h].owes[m] = 0
    BY <1>1, MoverFacts, TallyFacts DEF FinishCounts
  <2>4. told'[m] = told[m] + v.owes[m]
    BY <1>0, <2>1, PlusFacts DEF ReportTyped
  <2> QED
    BY <1>a, <1>b, <1>c, <2>0, <2>2, <2>3, <2>4
<1>2. ASSUME NEW h \in Handlers, FinishSends(h) PROVE Goal
  <2>0. UNCHANGED <<RawEvents, worker, buckets, tx_buckets, batch, sending, attempted>>
    BY <1>2 DEF FinishSends, RawEvents
  <2>1. hand[h].at = "counted" /\ hand[h].owes = Submission(hand[h].key) /\ hand[h].key \in Keys
    BY <1>0, <1>2, DroppedDecode DEF FinishSends, MoversInv
  <2>2. CASE Len(queue) < TX_DECODE_QUEUE_CAPACITY
    <3>1. /\ hand' = [hand EXCEPT ![h] = Done] /\ queue' = Append(queue, hand[h].key)
          /\ told' = told
      BY <1>2, <2>2 DEF FinishSends
    <3>2. /\ Total(Owed')[m] + hand[h].owes[m] = Total(Owed)[m] + Done.owes[m]
          /\ Total(Owed')[m] \in Nat /\ hand[h].owes[m] \in Nat
      <4>1. PICK v \in Mover : v = Done /\ hand' = [hand EXCEPT ![h] = v]
        BY <3>1, MoverFacts
      <4> QED
        BY <1>0, <4>1, OwedMoves
    <3>3. Done.owes[m] = 0
      BY MoverFacts, TallyFacts
    <3>4. Total(Waiting')[m] = Total(Waiting)[m] + Queued(hand[h].key)[m]
      BY <1>0, <2>1, <3>1, QueueGrows
    <3>5. Queued(hand[h].key) = hand[h].owes
      BY <2>1, KeyFacts DEF Queued
    <3> QED
      <4>1. Total(Waiting')[m] = Total(Waiting)[m] + hand[h].owes[m]
        BY <3>4, <3>5
      <4>2. Total(Owed')[m] + hand[h].owes[m] = Total(Owed)[m]
        BY <1>a, <3>2, <3>3
      <4>3. told' = told
        BY <3>1
      <4> QED
        BY <1>a, <1>b, <1>c, <2>0, <3>2, <4>1, <4>2, <4>3
  <2>3. CASE ~(Len(queue) < TX_DECODE_QUEUE_CAPACITY)
    <3> DEFINE d == Decode(hand[h].key, "queue_dropped")
               owes == hand[h].owes (+) d
               to == At("report", hand[h].key, owes)
    <3>1. UNCHANGED Waiting /\ told' = told (+) d
      BY <1>2, <2>3 DEF FinishSends, Waiting
    <3>2. hand' = [hand EXCEPT ![h] = to] /\ to \in Mover /\ owes \in Tally
          /\ hand[h].owes \in Tally
      <4>1. hand' = [hand EXCEPT ![h].at = "report",
                                 ![h].owes = @ (+) Decode(hand[h].key, "queue_dropped")]
        BY <1>2, <2>3 DEF FinishSends
      <4> QED
        BY <1>0, <4>1, DroppedDecode
    <3>3. to.owes = owes
      <4> HIDE DEF owes
      <4> QED
        BY <2>1, <3>2, MoverFacts
    <3> HIDE DEF to
    <3>4. /\ Total(Owed')[m] + hand[h].owes[m] = Total(Owed)[m] + to.owes[m]
          /\ Total(Owed')[m] \in Nat /\ hand[h].owes[m] \in Nat
      BY <1>0, <3>2, OwedMoves
    <3>5. d \in Tally
      BY Labels
    <3> HIDE DEF d
    <3>6. owes[m] = hand[h].owes[m] + d[m] /\ d[m] \in Nat
      BY <3>2, <3>5, PlusFacts, TallyValue
    <3>7. told'[m] = told[m] + d[m]
      BY <1>0, <3>1, <3>5, PlusFacts DEF ReportTyped
    <3> HIDE DEF owes
    <3> QED
      BY <1>a, <1>b, <1>c, <2>0, <3>1, <3>3, <3>4, <3>6, <3>7
  <2> QED
    BY <2>2, <2>3
<1>3. ASSUME NEW h \in Handlers, FinishReports(h) PROVE Goal
  <2>0. UNCHANGED <<told, Waiting, RawEvents, worker, buckets, batch, sending, attempted>>
    BY <1>3 DEF FinishReports, Waiting, RawEvents
  <2>1. /\ Total(Owed')[m] + hand[h].owes[m] = Total(Owed)[m] + Done.owes[m]
        /\ Total(Owed')[m] \in Nat /\ hand[h].owes[m] \in Nat
    <3>1. PICK v \in Mover : v = Done /\ hand' = [hand EXCEPT ![h] = v]
      BY <1>3, MoverFacts DEF FinishReports
    <3> QED
      BY <1>0, <3>1, OwedMoves
  <2>2. Done.owes[m] = 0
    BY MoverFacts, TallyFacts
  <2>3. Raised(hand[h].key, hand[h].owes) /\ hand[h].key \in Keys /\ hand[h].owes \in Tally
    BY <1>0, <1>3, DroppedDecode DEF FinishReports, Raised
  <2>4. Total(tx_buckets')[m] = Total(tx_buckets)[m] + hand[h].owes[m]
    BY <1>0, <2>3, BucketGrows
  <2> QED
    BY <1>a, <1>b, <1>c, <2>0, <2>1, <2>2, <2>4
<1>4. CASE WorkerReceives
  <2>0. UNCHANGED <<Owed, RawEvents, buckets, tx_buckets, batch, sending, attempted>>
    BY <1>4 DEF WorkerReceives, Owed, RawEvents
  <2>1. queue # <<>> /\ queue' = Tail(queue) /\ worker = Idle
    BY <1>4 DEF WorkerReceives
  <2>2. Total(Waiting)[m] = Total(Waiting')[m] + Queued(Head(queue))[m]
    BY <1>0, <2>1, QueueShrinks
  <2>3. worker.owes[m] = 0
    BY <2>1, MoverFacts, TallyFacts
  <2>4. Total(Waiting')[m] \in Nat
    <3>1. ReportTyped'
      BY <1>0, TypedStep
    <3>2. queue' \in Seq(Keys \cup {Flush})
      BY <3>1 DEF ReportTyped
    <3>3. \A x : Queued(x) \in Tally
      BY Labels, TallyFacts DEF Queued
    <3>4. Len(queue') \in Nat /\ DOMAIN queue' = 1..Len(queue')
      BY <3>2, LenProperties
    <3>5. Waiting' \in [1..Len(queue') -> Tally]
      BY <3>3, <3>4 DEF Waiting
    <3>6. \A n \in Nat : \A e \in [1..n -> Tally] : e \in Seq(Tally)
      OBVIOUS
    <3>7. Waiting' \in Seq(Tally)
      BY <3>4, <3>5, <3>6
    <3> QED
      BY <3>7, SequenceTyped, TallyValue
  <2>5. CASE Head(queue) = Flush
    <3>1. UNCHANGED <<worker, told>>
      BY <1>4, <2>5 DEF WorkerReceives
    <3>2. Queued(Head(queue))[m] = 0
      BY <2>5, TallyFacts DEF Queued
    <3> QED
      BY <1>a, <1>b, <1>c, <2>0, <2>2, <2>4, <3>1, <3>2
  <2>6. CASE Head(queue) # Flush
    <3> DEFINE k == Head(queue)
               s == Submission(k)
    <3>1. PICK r \in DecodeResults :
             worker' = At("report", k, s (+) Decode(k, r)) /\ told' = told (+) Decode(k, r)
      BY <1>4, <2>6 DEF WorkerReceives
    <3> DEFINE d == Decode(k, r)
    <3>2. s \in Tally /\ d \in Tally
      BY Labels
    <3>3. Queued(k) = s
      BY <2>6 DEF Queued
    <3>4. worker'.owes = s (+) d
      BY <3>1 DEF At
    <3> HIDE DEF s, d
    <3>5. worker'.owes[m] = s[m] + d[m] /\ s[m] \in Nat /\ d[m] \in Nat
      BY <3>2, <3>4, PlusFacts, TallyValue
    <3>6. told'[m] = told[m] + d[m]
      BY <1>0, <3>1, <3>2, PlusFacts DEF ReportTyped, d
    <3> QED
      BY <1>a, <1>b, <1>c, <2>0, <2>2, <2>3, <2>4, <3>3, <3>5, <3>6
  <2> QED
    BY <2>5, <2>6
<1>5. CASE WorkerReports
  <2>0. UNCHANGED <<told, Owed, Waiting, RawEvents, buckets, batch, sending, attempted>>
    BY <1>5 DEF WorkerReports, Owed, Waiting, RawEvents
  <2>1. Raised(worker.key, worker.owes) /\ worker.key \in Keys /\ worker.owes \in Tally
    BY <1>0, <1>5, PlaceTypes DEF WorkerReports, Raised
  <2>2. Total(tx_buckets')[m] = Total(tx_buckets)[m] + worker.owes[m]
    BY <1>0, <2>1, BucketGrows
  <2>3. worker'.owes[m] = 0
    BY <1>5, MoverFacts, TallyFacts DEF WorkerReports
  <2> QED
    BY <1>a, <1>b, <1>c, <2>0, <2>2, <2>3
<1>6. CASE RecordRequest
  <2>0. UNCHANGED <<Owed, Waiting, RawEvents, worker, tx_buckets, batch, sending, attempted>>
    BY <1>6 DEF RecordRequest, Owed, Waiting, RawEvents
  <2>1. PICK n \in Calls : LET leg == Copies(n, "calls") (+) One("latencies")
                           IN  buckets' = buckets (+) leg /\ told' = told (+) leg
    BY <1>6 DEF RecordRequest
  <2> DEFINE leg == Copies(n, "calls") (+) One("latencies")
  <2>2. leg \in Tally
    <3>1. Copies(n, "calls") \in Tally /\ One("latencies") \in Tally
      BY ReportingAssumption, TallyFacts
    <3> QED
      BY <3>1, PlusFacts
  <2>3. buckets' = buckets (+) leg /\ told' = told (+) leg
    BY <2>1
  <2> HIDE DEF leg
  <2>4. buckets'[m] = buckets[m] + leg[m] /\ told'[m] = told[m] + leg[m] /\ leg[m] \in Nat
    BY <1>0, <2>2, <2>3, PlusFacts, TallyValue DEF ReportTyped
  <2> QED
    BY <1>a, <1>b, <1>c, <2>0, <2>4
<1>7. ASSUME Emit, UNCHANGED <<hand, queue, worker, buckets, tx_buckets, batch, sending, attempted>>
      PROVE  Goal
  <2>0. UNCHANGED <<Owed, Waiting, worker, buckets, tx_buckets, batch, sending, attempted>>
    BY <1>7 DEF Owed, Waiting
  <2> QED
    BY <1>0, <1>7, <1>a, <1>b, <1>c, <2>0, Emitted
<1>8. CASE EmitEvent
  BY <1>7, <1>8 DEF EmitEvent
<1>9. CASE TaskReceives
  <2>0. /\ UNCHANGED <<told, Owed, Waiting, worker, buckets, tx_buckets, attempted, dropped>>
        /\ channel > 0 /\ channel' = channel - 1 /\ task = "select"
    BY <1>9 DEF TaskReceives, Owed, Waiting
  <2>1. /\ RawEvents[m] = RawEvents'[m] + One("raw")[m]
        /\ RawEvents'[m] \in Nat /\ One("raw")[m] \in Nat
        /\ Total(Append(batch, One("raw")))[m] = Total(batch)[m] + One("raw")[m]
    BY <1>0, <2>0, Received
  <2>2. Total(sending)[m] = 0 /\ Total(<<>>)[m] = 0
    BY <1>0, <2>0, TotalEmpty, TallyFacts DEF PlacesInv
  <2>3. \/ sending' = Append(batch, One("raw")) /\ batch' = <<>>
        \/ batch' = Append(batch, One("raw")) /\ UNCHANGED sending
    BY <1>9 DEF TaskReceives
  <2>4. \/ /\ Total(sending')[m] = Total(batch)[m] + One("raw")[m]
           /\ Total(batch')[m] = 0
        \/ /\ Total(batch')[m] = Total(batch)[m] + One("raw")[m]
           /\ Total(sending')[m] = 0
    <3>1. CASE sending' = Append(batch, One("raw")) /\ batch' = <<>>
      BY <2>1, <2>2, <3>1
    <3>2. CASE batch' = Append(batch, One("raw")) /\ UNCHANGED sending
      BY <2>1, <2>2, <3>2
    <3> QED
      BY <2>3, <3>1, <3>2
  <2>5. UNCHANGED <<told, Owed, Waiting, worker, buckets, tx_buckets, attempted>>
    BY <2>0
  <2>6. /\ RawEvents[m] = RawEvents'[m] + One("raw")[m]
        /\ RawEvents'[m] \in Nat /\ One("raw")[m] \in Nat
        /\ Total(sending)[m] = 0
    BY <2>1, <2>2
  <2>7. /\ Total(batch')[m] + Total(sending')[m] = Total(batch)[m] + One("raw")[m]
        /\ Total(batch')[m] \in Nat /\ Total(sending')[m] \in Nat
    BY <1>a, <2>4, <2>6
  <2> QED
    BY <1>a, <1>b, <1>c, <2>5, <2>6, <2>7
<1>10. CASE TaskTicks \/ TaskNotified
  <2>0. /\ UNCHANGED <<told, Owed, Waiting, RawEvents, worker, sending, attempted>>
        /\ Drain
    BY <1>10 DEF TaskTicks, TaskNotified, Owed, Waiting, RawEvents
  <2>1. /\ Total(batch')[m] = Total(batch)[m] + buckets[m] + Total(tx_buckets)[m]
        /\ buckets' = Zero
        /\ tx_buckets' \in [Keys -> Tally] /\ \A k \in Keys : tx_buckets'[k] = Zero
    BY <1>0, <2>0, DrainFacts
  <2>2. Total(tx_buckets')[m] = 0 /\ buckets'[m] = 0
    BY <2>1, TotalZero, TallyFacts
  <2> QED
    BY <1>a, <1>b, <1>c, <2>0, <2>1, <2>2
<1>11. CASE TaskDrainsChannel
  <2>0. UNCHANGED <<told, Owed, Waiting, worker, buckets, tx_buckets, attempted, dropped>>
    BY <1>11 DEF TaskDrainsChannel, Owed, Waiting
  <2>1. ASSUME channel > 0, channel' = channel - 1, batch' = Append(batch, One("raw")),
               UNCHANGED sending
        PROVE  Goal
    <3>1. /\ RawEvents[m] = RawEvents'[m] + One("raw")[m]
          /\ RawEvents'[m] \in Nat /\ One("raw")[m] \in Nat
          /\ Total(batch')[m] = Total(batch)[m] + One("raw")[m]
      BY <1>0, <2>0, <2>1, Received
    <3>2. UNCHANGED <<told, Owed, Waiting, worker, buckets, tx_buckets, attempted, sending>>
      BY <2>0, <2>1
    <3> QED
      BY <1>a, <1>b, <1>c, <3>1, <3>2
  <2>2. ASSUME sending' = batch, batch' = <<>>, UNCHANGED channel
        PROVE  Goal
    <3>1. sending = <<>>
      BY <1>0, <1>11 DEF TaskDrainsChannel, PlacesInv
    <3>2. Total(sending)[m] = 0 /\ Total(batch')[m] = 0 /\ Total(sending')[m] = Total(batch)[m]
      BY <2>2, <3>1, TotalEmpty, TallyFacts
    <3>3. UNCHANGED RawEvents
      BY <2>0, <2>2 DEF RawEvents
    <3> QED
      BY <1>a, <1>b, <1>c, <2>0, <3>2, <3>3
  <2>3. ASSUME UNCHANGED <<channel, batch, sending>> PROVE Goal
    <3>1. UNCHANGED RawEvents
      BY <2>0, <2>3 DEF RawEvents
    <3> QED
      BY <1>b, <1>c, <2>0, <2>3, <3>1
  <2> QED
    BY <1>11, <2>1, <2>2, <2>3 DEF TaskDrainsChannel
<1>12. CASE SendEnds
  <2>0. /\ UNCHANGED <<told, Owed, Waiting, RawEvents, worker, buckets, tx_buckets, batch>>
        /\ attempted' = attempted (+) Total(sending) /\ sending' = <<>>
    BY <1>12 DEF SendEnds, Owed, Waiting, RawEvents
  <2>1. attempted'[m] = attempted[m] + Total(sending)[m]
    BY <1>0, <2>0, SequenceTyped, PlusFacts DEF ReportTyped
  <2>2. Total(sending')[m] = 0
    BY <2>0, TotalEmpty, TallyFacts
  <2>3. UNCHANGED <<told, Owed, Waiting, RawEvents, worker, buckets, tx_buckets, batch>>
    BY <2>0
  <2> QED
    BY <1>a, <1>b, <1>c, <2>1, <2>2, <2>3
<1>13. ASSUME UNCHANGED <<told, hand, queue, channel, dropped, worker, buckets, tx_buckets, batch,
                          sending, attempted>>
       PROVE  Goal
  <2>0. UNCHANGED <<told, Owed, Waiting, RawEvents, worker, buckets, tx_buckets, batch,
                    sending, attempted>>
    BY <1>13 DEF Owed, Waiting, RawEvents
  <2> QED
    BY <1>b, <1>c, <2>0
<1>14. CASE ServeEnds \/ PushWaiter \/ NotifyOne \/ Exited \/ UNCHANGED vars
  BY <1>13, <1>14 DEF ServeEnds, PushWaiter, NotifyOne, Exited, vars
<1>15. CASE HistoricalFlush
  BY <1>7, <1>13, <1>15 DEF HistoricalFlush
<1>16. CASE TxFlush
  <2>0. /\ UNCHANGED <<told, Owed, RawEvents, worker, buckets, tx_buckets, batch, sending, attempted>>
        /\ queue' = Append(queue, Flush)
    BY <1>16 DEF TxFlush, Owed, RawEvents
  <2>1. Total(Waiting')[m] = Total(Waiting)[m] + Queued(Flush)[m]
    BY <1>0, <2>0, QueueGrows
  <2>2. Queued(Flush)[m] = 0
    BY TallyFacts DEF Queued
  <2> QED
    BY <1>a, <1>b, <1>c, <2>0, <2>1, <2>2
<1> QED
  BY <1>1, <1>2, <1>3, <1>4, <1>5, <1>6, <1>8, <1>9, <1>10, <1>11, <1>12, <1>14, <1>15, <1>16
  DEF Next, Finish, Worker, Main

LEMMA OnceInit == ASSUME Init PROVE OnceInv
<1>0. ReportTyped
  BY TypedInit
<1>1. Owed \in [Handlers -> Tally] /\ \A h \in Handlers : Owed[h] = Zero
  BY <1>0, PlaceTypes, MoverFacts DEF Init, Owed
<1>2. Waiting = <<>>
  BY DEF Init, Waiting
<1>3. tx_buckets \in [Keys -> Tally] /\ \A k \in Keys : tx_buckets[k] = Zero
  BY <1>0 DEF Init, ReportTyped
<1>4. Total(Owed) = Zero /\ Total(Waiting) = Zero /\ Total(tx_buckets) = Zero
  BY <1>1, <1>2, <1>3, TotalZero, TotalEmpty
<1>5. Total(batch) = Zero /\ Total(sending) = Zero /\ worker.owes = Zero
  BY TotalEmpty, MoverFacts DEF Init
<1>6. told = Zero /\ buckets = Zero /\ attempted = Zero /\ channel + dropped = 0
  BY DEF Init
<1>7. ASSUME NEW m \in Measures PROVE RawEvents[m] = 0 /\ Zero[m] = 0
  BY <1>6, TallyFacts DEF RawEvents
<1> QED
  BY <1>4, <1>5, <1>6, <1>7 DEF OnceInv, Found

(* The sum of the nine places is the sum of the nine tallies. *)
LEMMA OnceImplies == ASSUME ReportTyped, OnceInv PROVE ReportedOnce
<1> DEFINE raw == Copies(channel + dropped, "raw")
           a2 == Total(Owed) (+) Total(Waiting)
           a3 == a2 (+) worker.owes
           a4 == a3 (+) buckets
           a5 == a4 (+) Total(tx_buckets)
           a6 == a5 (+) Total(batch)
           a7 == a6 (+) Total(sending)
           a8 == a7 (+) attempted
           a9 == a8 (+) raw
<1>1. /\ Total(Owed) \in Tally /\ Total(Waiting) \in Tally /\ worker.owes \in Tally
      /\ buckets \in Tally /\ Total(tx_buckets) \in Tally /\ Total(batch) \in Tally
      /\ Total(sending) \in Tally /\ attempted \in Tally /\ raw \in Tally /\ told \in Tally
  <2>1. IsFiniteSet(Handlers)
    BY ReportingAssumption
  <2>2. Total(Owed) \in Tally /\ Total(tx_buckets) \in Tally
    BY <2>1, KeysFinite, PlaceTypes, TotalTyped DEF ReportTyped
  <2>3. Total(Waiting) \in Tally /\ Total(batch) \in Tally /\ Total(sending) \in Tally
    BY PlaceTypes, SequenceTyped DEF ReportTyped
  <2>4. channel + dropped \in Nat
    BY DEF ReportTyped
  <2>5. raw \in Tally
    BY <2>4, TallyFacts
  <2> QED
    BY <2>2, <2>3, <2>5, PlaceTypes DEF ReportTyped
<1> HIDE DEF raw
<1>2. a2 \in Tally /\ \A m \in Measures : a2[m] = Total(Owed)[m] + Total(Waiting)[m]
  BY <1>1, PlusFacts
<1> HIDE DEF a2
<1>3. a3 \in Tally /\ \A m \in Measures : a3[m] = a2[m] + worker.owes[m]
  BY <1>1, <1>2, PlusFacts
<1> HIDE DEF a3
<1>4. a4 \in Tally /\ \A m \in Measures : a4[m] = a3[m] + buckets[m]
  BY <1>1, <1>3, PlusFacts
<1> HIDE DEF a4
<1>5. a5 \in Tally /\ \A m \in Measures : a5[m] = a4[m] + Total(tx_buckets)[m]
  BY <1>1, <1>4, PlusFacts
<1> HIDE DEF a5
<1>6. a6 \in Tally /\ \A m \in Measures : a6[m] = a5[m] + Total(batch)[m]
  BY <1>1, <1>5, PlusFacts
<1> HIDE DEF a6
<1>7. a7 \in Tally /\ \A m \in Measures : a7[m] = a6[m] + Total(sending)[m]
  BY <1>1, <1>6, PlusFacts
<1> HIDE DEF a7
<1>8. a8 \in Tally /\ \A m \in Measures : a8[m] = a7[m] + attempted[m]
  BY <1>1, <1>7, PlusFacts
<1> HIDE DEF a8
<1>9. a9 \in Tally /\ \A m \in Measures : a9[m] = a8[m] + raw[m]
  BY <1>1, <1>8, PlusFacts
<1> HIDE DEF a9
<1>10. ASSUME NEW m \in Measures PROVE told[m] = a9[m]
  <2>1. told[m] = Total(Owed)[m] + Total(Waiting)[m] + worker.owes[m]
                    + buckets[m] + Total(tx_buckets)[m]
                    + Total(batch)[m] + Total(sending)[m] + attempted[m] + raw[m]
    BY DEF OnceInv, Found, RawEvents, raw
  <2> QED
    BY <1>2, <1>3, <1>4, <1>5, <1>6, <1>7, <1>8, <1>9, <2>1
<1>11. \A f, g \in Tally : (\A m \in Measures : f[m] = g[m]) => f = g
  BY DEF Tally
<1>12. told = a9
  BY <1>1, <1>9, <1>10, <1>11
<1> QED
  BY <1>12 DEF ReportedOnce, Carried, Owed, Waiting, raw, a2, a3, a4, a5, a6, a7, a8, a9

-----------------------------------------------------------------------------
(* Layer 3: the windows are whole.                                         *)
LEMMA CountedSets ==
    /\ IsFiniteSet(Submissions) /\ Submissions \subseteq Measures
    /\ IsFiniteSet(Decodes) /\ Decodes \subseteq Measures
    /\ Submissions \cap Decodes = {} /\ "parsed" \in Decodes
    /\ "queue_dropped" \in Decodes /\ DecodeResults \subseteq Decodes
    /\ {"fee_samples", "batch_unsupported", "raw", "calls", "latencies"}
           \cap (Submissions \cup Decodes) = {}
<1>1. IsFiniteSet(Submissions)
  <2>1. IsFiniteSet({"accepted"}) /\ IsFiniteSet({"rejected"})
    BY FS_Singleton
  <2>2. Submissions = {"accepted"} \cup {"rejected"}
    BY DEF Submissions
  <2> QED
    BY <2>1, <2>2, FS_Union
<1>2. IsFiniteSet(Decodes)
  <2>1. IsFiniteSet({"parsed"}) /\ IsFiniteSet({"queue_dropped"}) /\ IsFiniteSet(DecodeErrors)
    BY FS_Singleton, ReportingAssumption
  <2>2. IsFiniteSet(DecodeResults)
    BY <2>1, FS_Union DEF DecodeResults
  <2> QED
    BY <2>1, <2>2, FS_Union DEF Decodes
<1>3. DecodeErrors \cap Named = {}
  BY ReportingAssumption
<1>4. /\ Submissions \subseteq Measures /\ Decodes \subseteq Measures
      /\ "parsed" \in Decodes /\ "queue_dropped" \in Decodes
      /\ DecodeResults \subseteq Decodes
  BY DEF Submissions, Decodes, DecodeResults, Measures, Named
<1>5. /\ Submissions \cap Decodes = {}
      /\ {"fee_samples", "batch_unsupported", "raw", "calls", "latencies"}
            \cap (Submissions \cup Decodes) = {}
  BY <1>3 DEF Submissions, Decodes, DecodeResults, Named
<1> QED
  BY <1>1, <1>2, <1>4, <1>5

Part(S, e) == [m \in S |-> e[m]]

LEMMA PartTyped ==
    ASSUME NEW S \in SUBSET Measures, NEW e \in Tally
    PROVE  Part(S, e) \in [S -> Nat] /\ \A m \in S : Part(S, e)[m] = e[m]
  BY TallyValue DEF Part

LEMMA CountFacts ==
    ASSUME NEW S \in SUBSET Measures, IsFiniteSet(S)
    PROVE  /\ \A e \in Tally : Count(S, e) \in Nat
           /\ \A e \in Tally : \A m \in S : e[m] <= Count(S, e)
           /\ \A e \in Tally : (\A m \in S : e[m] = 0) => Count(S, e) = 0
           /\ \A x \in S : Count(S, One(x)) = 1
<1>1. \A e : Count(S, e) = SumOver(Part(S, e))
  BY DEF Count, Part
<1>2. ASSUME NEW e \in Tally PROVE Count(S, e) \in Nat
  BY <1>1, PartTyped, UnitsFinite
<1>3. ASSUME NEW e \in Tally, NEW m \in S PROVE e[m] <= Count(S, e)
  <2>1. Part(S, e) \in [S -> Nat] /\ Part(S, e)[m] = e[m] /\ e[m] \in Nat
    BY PartTyped, TallyValue
  <2>2. /\ SumOver(Part(S, e)) = Part(S, e)[m] + Cardinality(Others(Part(S, e), m))
        /\ Cardinality(Others(Part(S, e), m)) \in Nat
    BY <2>1, SumRow
  <2> QED
    BY <1>1, <2>1, <2>2
<1>4. ASSUME NEW e \in Tally, \A m \in S : e[m] = 0 PROVE Count(S, e) = 0
  <2>1. Part(S, e) \in [S -> Nat] /\ \A m \in S : Part(S, e)[m] = 0
    BY <1>4, PartTyped
  <2> QED
    BY <1>1, <2>1, SumZero
<1>5. ASSUME NEW x \in S PROVE Count(S, One(x)) = 1
  <2>1. /\ One(x) \in Tally /\ Zero \in Tally
        /\ \A m \in S : One(x)[m] = (IF m = x THEN 1 ELSE 0) /\ Zero[m] = 0
    BY TallyFacts
  <2>2. Part(S, One(x)) \in [S -> Nat] /\ \A m \in S : Part(S, One(x))[m] = One(x)[m]
    BY <2>1, PartTyped
  <2>3. Part(S, Zero) \in [S -> Nat] /\ \A m \in S : Part(S, Zero)[m] = Zero[m]
    BY <2>1, PartTyped
  <2>4. \A m \in S \ {x} : Part(S, One(x))[m] = Part(S, Zero)[m]
    BY <2>1, <2>2, <2>3
  <2>5. SumOver(Part(S, One(x))) + Part(S, Zero)[x] = SumOver(Part(S, Zero)) + Part(S, One(x))[x]
    BY <2>2, <2>3, <2>4, SumUpdate
  <2>6. SumOver(Part(S, Zero)) = 0
    BY <2>1, <2>3, SumZero
  <2>7. SumOver(Part(S, One(x))) \in Nat
    BY <2>2, UnitsFinite
  <2> QED
    BY <1>1, <2>1, <2>2, <2>3, <2>5, <2>6, <2>7
<1> QED
  BY <1>2, <1>3, <1>4, <1>5

LEMMA CountPlus ==
    ASSUME NEW S \in SUBSET Measures, IsFiniteSet(S), NEW a \in Tally, NEW b \in Tally
    PROVE  Count(S, a (+) b) = Count(S, a) + Count(S, b)
<1> DEFINE c == a (+) b
<1>1. c \in Tally /\ \A m \in Measures : c[m] = a[m] + b[m]
  BY PlusFacts
<1> HIDE DEF c
<1>2. Part(S, a) \in [S -> Nat] /\ \A m \in S : Part(S, a)[m] = a[m]
  BY PartTyped
<1>3. Part(S, b) \in [S -> Nat] /\ \A m \in S : Part(S, b)[m] = b[m]
  BY PartTyped
<1>4. Part(S, c) \in [S -> Nat] /\ \A m \in S : Part(S, c)[m] = c[m]
  BY <1>1, PartTyped
<1>5. Added(S, Part(S, a), Part(S, b), Part(S, c))
  BY <1>1, <1>2, <1>3, <1>4 DEF Added
<1>6. SumOver(Part(S, c)) = SumOver(Part(S, a)) + SumOver(Part(S, b))
  BY <1>5, SumPlus
<1> QED
  BY <1>6 DEF Count, Part, c

(* What a bucket gathers stays whole. *)
LEMMA WholePlus ==
    ASSUME NEW k, NEW a \in Tally, NEW b \in Tally, WholeFor(k, a), WholeFor(k, b)
    PROVE  WholeFor(k, a (+) b)
<1> DEFINE c == a (+) b
<1>1. c \in Tally /\ \A m \in Measures : c[m] = a[m] + b[m]
  BY PlusFacts
<1>2. Count(Submissions, c) = Count(Submissions, a) + Count(Submissions, b)
  BY CountedSets, CountPlus
<1>3. Count(Decodes, c) = Count(Decodes, a) + Count(Decodes, b)
  BY CountedSets, CountPlus
<1>4. /\ c["accepted"] = a["accepted"] + b["accepted"]
      /\ c["rejected"] = a["rejected"] + b["rejected"]
      /\ c["fee_samples"] = a["fee_samples"] + b["fee_samples"]
      /\ c["parsed"] = a["parsed"] + b["parsed"]
  BY <1>1, NamedMeasures
<1> HIDE DEF c
<1>5. WholeFor(k, c)
  BY <1>2, <1>3, <1>4 DEF WholeFor
<1> QED
  BY <1>5 DEF c

NoTransactions(e) == \A m \in Submissions \cup Decodes \cup {"fee_samples"} : e[m] = 0

LEMMA WholeWithout ==
    ASSUME NEW e \in Tally, NoTransactions(e)
    PROVE  Whole(e) /\ \A k : WholeFor(k, e)
<1>1. Count(Submissions, e) = 0 /\ Count(Decodes, e) = 0
  BY CountedSets, CountFacts DEF NoTransactions
<1>2. e["accepted"] = 0 /\ e["rejected"] = 0 /\ e["fee_samples"] = 0 /\ e["parsed"] = 0
  BY CountedSets DEF NoTransactions, Submissions
<1> QED
  BY <1>1, <1>2 DEF Whole, WholeFor

LEMMA WholeFacts ==
    /\ Whole(One("raw"))
    /\ \A k : WholeFor(k, Zero)
    /\ \A k : WholeFor(k, Decode(k, "batch_unsupported"))
<1>1. NoTransactions(One("raw")) /\ NoTransactions(Zero)
  BY CountedSets, NamedMeasures, TallyFacts DEF NoTransactions
<1>2. ASSUME NEW k PROVE WholeFor(k, Decode(k, "batch_unsupported"))
  <2> DEFINE d == Decode(k, "batch_unsupported")
  <2>1. d = One("batch_unsupported") (+) Zero
    BY DEF Decode
  <2>2. One("batch_unsupported") \in Tally /\ Zero \in Tally
    BY TallyFacts
  <2>3. ASSUME NEW m \in Submissions \cup Decodes \cup {"fee_samples"} PROVE d[m] = 0
    <3>1. m \in Measures /\ m # "batch_unsupported"
      BY CountedSets, NamedMeasures
    <3>2. One("batch_unsupported")[m] = 0 /\ Zero[m] = 0
      BY <3>1, TallyFacts
    <3>3. (One("batch_unsupported") (+) Zero)[m] = One("batch_unsupported")[m] + Zero[m]
      BY <2>2, <3>1, PlusFacts
    <3> HIDE DEF d
    <3> QED
      BY <2>1, <3>2, <3>3
  <2>4. d \in Tally
    BY Labels
  <2> HIDE DEF d
  <2>5. WholeFor(k, d)
    BY <2>3, <2>4, WholeWithout DEF NoTransactions
  <2> QED
    BY <2>5 DEF d
<1> QED
  BY <1>1, <1>2, TallyFacts, WholeWithout

(* A submission and its decode result together are whole. *)
LEMMA WholeSubmission ==
    ASSUME NEW k, NEW r \in Decodes
    PROVE  WholeFor(k, Submission(k) (+) Decode(k, r))
<1> DEFINE s == Submission(k)
           x == IF k = None THEN "rejected" ELSE "accepted"
           one == One(r)
           fee == IF r = "parsed" /\ k # None THEN One("fee_samples") ELSE Zero
           d == one (+) fee
           e == s (+) d
<1>1. s = One(x) /\ x \in Submissions /\ d = Decode(k, r)
  BY DEF Submission, Submissions, Decode
<1>2. /\ s \in Tally /\ one \in Tally /\ fee \in Tally
      /\ \A m \in Measures : s[m] = IF m = x THEN 1 ELSE 0
      /\ \A m \in Measures : one[m] = IF m = r THEN 1 ELSE 0
      /\ \A m \in Measures \ {"fee_samples"} : fee[m] = 0
      /\ fee["fee_samples"] = IF r = "parsed" /\ k # None THEN 1 ELSE 0
  BY <1>1, TallyFacts, NamedMeasures
<1>3. x \notin Decodes /\ r \notin Submissions /\ "fee_samples" \notin Submissions \cup Decodes
      /\ r # "fee_samples"
  BY <1>1, CountedSets
<1>4. Count(Submissions, s) = 1 /\ Count(Decodes, one) = 1
  BY <1>1, CountedSets, CountFacts
<1> HIDE DEF s, one, fee
<1>5. /\ \A m \in Submissions : one[m] = 0 /\ fee[m] = 0
      /\ \A m \in Decodes : s[m] = 0 /\ fee[m] = 0
  BY <1>2, <1>3, CountedSets
<1>6. Count(Submissions, one) = 0 /\ Count(Submissions, fee) = 0
      /\ Count(Decodes, s) = 0 /\ Count(Decodes, fee) = 0
  <2>1. \A t \in Tally : (\A m \in Submissions : t[m] = 0) => Count(Submissions, t) = 0
    BY CountedSets, CountFacts
  <2>2. \A t \in Tally : (\A m \in Decodes : t[m] = 0) => Count(Decodes, t) = 0
    BY CountedSets, CountFacts
  <2>3. Count(Submissions, one) = 0 /\ Count(Submissions, fee) = 0
    BY <1>2, <1>5, <2>1
  <2>4. Count(Decodes, s) = 0 /\ Count(Decodes, fee) = 0
    BY <1>2, <1>5, <2>2
  <2> QED
    BY <2>3, <2>4
<1>a. /\ \A t, u \in Tally : t (+) u \in Tally
      /\ \A t, u \in Tally : \A m \in Measures : (t (+) u)[m] = t[m] + u[m]
  BY PlusFacts
<1>b. \A t, u \in Tally :
          Count(Submissions, t (+) u) = Count(Submissions, t) + Count(Submissions, u)
  BY CountedSets, CountPlus
<1>c. \A t, u \in Tally : Count(Decodes, t (+) u) = Count(Decodes, t) + Count(Decodes, u)
  BY CountedSets, CountPlus
<1>7. /\ d \in Tally /\ \A m \in Measures : d[m] = one[m] + fee[m]
      /\ Count(Submissions, d) = Count(Submissions, one) + Count(Submissions, fee)
      /\ Count(Decodes, d) = Count(Decodes, one) + Count(Decodes, fee)
  BY <1>2, <1>a, <1>b, <1>c
<1> HIDE DEF d
<1>8. /\ e \in Tally /\ \A m \in Measures : e[m] = s[m] + d[m]
      /\ Count(Submissions, e) = Count(Submissions, s) + Count(Submissions, d)
      /\ Count(Decodes, e) = Count(Decodes, s) + Count(Decodes, d)
  BY <1>2, <1>7, <1>a, <1>b, <1>c
<1> HIDE DEF e
<1>9. Count(Submissions, e) = 1 /\ Count(Decodes, e) = 1
  BY <1>4, <1>6, <1>7, <1>8
<1>10. /\ e["accepted"] = s["accepted"] + (one["accepted"] + fee["accepted"])
       /\ e["rejected"] = s["rejected"] + (one["rejected"] + fee["rejected"])
       /\ e["fee_samples"] = s["fee_samples"] + (one["fee_samples"] + fee["fee_samples"])
       /\ e["parsed"] = s["parsed"] + (one["parsed"] + fee["parsed"])
  BY <1>7, <1>8, NamedMeasures
<1>11. /\ one["accepted"] = 0 /\ fee["accepted"] = 0
       /\ one["rejected"] = 0 /\ fee["rejected"] = 0
       /\ one["fee_samples"] = 0 /\ s["fee_samples"] = 0
       /\ fee["parsed"] = 0 /\ s["parsed"] = 0
       /\ one["parsed"] = IF r = "parsed" THEN 1 ELSE 0
  BY <1>1, <1>2, <1>3, <1>5, NamedMeasures, CountedSets DEF Submissions
<1>12. k = None => s["accepted"] = 0 /\ fee["fee_samples"] = 0
  BY <1>2, NamedMeasures
<1>13. k # None => s["rejected"] = 0 /\ fee["fee_samples"] = one["parsed"]
  BY <1>2, <1>11, NamedMeasures
<1>14. WholeFor(k, e)
  BY <1>9, <1>10, <1>11, <1>12, <1>13 DEF WholeFor
<1> QED
  BY <1>1, <1>14 DEF e, s

(* A bucket that is whole makes a whole event. *)
LEMMA WholeImplies ==
    ASSUME NEW k, NEW e \in Tally, WholeFor(k, e)
    PROVE  Whole(e)
<1>1. /\ e["accepted"] \in Nat /\ e["rejected"] \in Nat /\ e["parsed"] \in Nat
      /\ e["fee_samples"] \in Nat
  BY NamedMeasures, TallyValue
<1>2. Count(Submissions, e) = Count(Decodes, e)
  BY DEF WholeFor
<1>3. CASE k = None
  BY <1>1, <1>2, <1>3 DEF WholeFor, Whole
<1>4. CASE k # None
  <2>1. e["rejected"] = 0 /\ e["fee_samples"] = e["parsed"]
    BY <1>4 DEF WholeFor
  <2>2. ASSUME e["accepted"] = 0 PROVE e["parsed"] = 0
    <3>1. Count(Submissions, e) = 0
      <4>1. \A m \in Submissions : e[m] = 0
        BY <2>1, <2>2 DEF Submissions
      <4> QED
        BY <4>1, CountedSets, CountFacts
    <3>2. e["parsed"] <= Count(Decodes, e)
      BY CountedSets, CountFacts
    <3> QED
      BY <1>1, <1>2, <3>1, <3>2
  <2> QED
    BY <1>1, <1>2, <2>1, <2>2 DEF Whole
<1> QED
  BY <1>3, <1>4

LEMMA SubmissionWhole ==
    \A k : /\ \A r \in DecodeResults : WholeFor(k, Submission(k) (+) Decode(k, r))
           /\ WholeFor(k, Submission(k) (+) Decode(k, "queue_dropped"))
  BY CountedSets, WholeSubmission

(* Another event at the end. *)
LEMMA RawAppended ==
    ASSUME ReportTyped, WindowInv
    PROVE  /\ \A i \in 1..Len(Append(batch, One("raw"))) : Whole(Append(batch, One("raw"))[i])
           /\ \A i \in 1..Len(<<>>) : Whole(<<>>[i])
<1> DEFINE t == Append(batch, One("raw"))
           n == Len(batch)
<1>1. /\ n \in Nat /\ Len(t) = n + 1 /\ t[n + 1] = One("raw")
      /\ \A i \in 1..n : t[i] = batch[i]
  BY AppendProperties, LenProperties, TallyFacts DEF ReportTyped
<1>2. \A i \in 1..n : Whole(batch[i])
  BY DEF WindowInv
<1> HIDE DEF t, n
<1>3. ASSUME NEW i \in 1..Len(t) PROVE Whole(t[i])
  <2>1. i = n + 1 \/ i \in 1..n
    BY <1>1
  <2> QED
    BY <1>1, <1>2, <2>1, WholeFacts
<1>4. 1..Len(<<>>) = {}
  OBVIOUS
<1> QED
  BY <1>3, <1>4 DEF t

LEMMA WindowStep ==
    ASSUME ControlInv, WindowInv, [Next]_vars
    PROVE  WindowInv'
<1>0. ReportTyped /\ MoversInv /\ PlacesInv
  BY DEF ControlInv
<1> DEFINE W1 == \A h \in Handlers : hand[h].at = "report" => WholeFor(hand[h].key, hand[h].owes)
           W2 == WholeFor(worker.key, worker.owes)
           W3 == \A k \in Keys : WholeFor(k, tx_buckets[k])
           W4 == \A i \in 1..Len(batch) : Whole(batch[i])
           W5 == \A i \in 1..Len(sending) : Whole(sending[i])
<1>a. W1 /\ W2 /\ W3 /\ W4 /\ W5
  BY DEF WindowInv
<1>b. ASSUME W1', W2', W3', W4', W5' PROVE WindowInv'
  BY <1>b DEF WindowInv
<1>c. ASSUME UNCHANGED hand PROVE W1'
  BY <1>a, <1>c
<1>d. ASSUME UNCHANGED worker PROVE W2'
  BY <1>a, <1>d
<1>e. ASSUME UNCHANGED tx_buckets PROVE W3'
  BY <1>a, <1>e
<1>f. ASSUME UNCHANGED batch PROVE W4'
  BY <1>a, <1>f
<1>g. ASSUME UNCHANGED sending PROVE W5'
  BY <1>a, <1>g
<1>h. hand \in [Handlers -> Mover]
  BY <1>0 DEF ReportTyped
<1>i. ASSUME NEW h \in Handlers, NEW v, hand' = [hand EXCEPT ![h] = v],
             v.at = "report" => WholeFor(v.key, v.owes)
      PROVE  W1'
  <2>1. hand'[h] = v /\ \A x \in Handlers \ {h} : hand'[x] = hand[x]
    BY <1>h, <1>i
  <2>2. ASSUME NEW x \in Handlers, hand'[x].at = "report"
        PROVE  WholeFor(hand'[x].key, hand'[x].owes)
    <3>1. CASE x = h
      BY <1>i, <2>1, <2>2, <3>1
    <3>2. CASE x # h
      BY <1>a, <2>1, <2>2, <3>2
    <3> QED
      BY <3>1, <3>2
  <2> QED
    BY <2>2
<1>j. ASSUME NEW k \in Keys, NEW e \in Tally, Raised(k, e), WholeFor(k, e) PROVE W3'
  <2>1. /\ tx_buckets'[k] = tx_buckets[k] (+) e
        /\ \A x \in Keys \ {k} : tx_buckets'[x] = tx_buckets[x]
    BY <1>0, <1>j, BucketGrows
  <2>2. tx_buckets[k] \in Tally
    BY <1>0 DEF ReportTyped
  <2>3. WholeFor(k, tx_buckets'[k])
    BY <1>a, <1>j, <2>1, <2>2, WholePlus
  <2>4. ASSUME NEW x \in Keys PROVE WholeFor(x, tx_buckets'[x])
    <3>1. CASE x = k
      BY <2>3, <3>1
    <3>2. CASE x # k
      BY <1>a, <2>1, <3>2
    <3> QED
      BY <3>1, <3>2
  <2> QED
    BY <2>4
<1> HIDE DEF W1, W2, W3, W4, W5
<1>1. ASSUME NEW h \in Handlers, FinishCounts(h) PROVE WindowInv'
  <2>1. PICK v : /\ hand' = [hand EXCEPT ![h] = v]
                 /\ v.at = "report" => WholeFor(v.key, v.owes)
    <3>1. \A k \in Keys :
             LET b == Decode(k, "batch_unsupported")
                 r == At("report", k, b)
                 c == At("counted", k, Submission(k))
             IN  r.key = k /\ r.owes = b /\ WholeFor(k, b) /\ c.at = "counted"
      BY Labels, MoverFacts, WholeFacts
    <3> QED
      BY <1>1, <3>1 DEF FinishCounts
  <2>2. W1'
    BY <1>i, <2>1
  <2> QED
    BY <1>1, <1>b, <1>d, <1>e, <1>f, <1>g, <2>2 DEF FinishCounts
<1>2. ASSUME NEW h \in Handlers, FinishSends(h) PROVE WindowInv'
  <2>0. hand[h].owes = Submission(hand[h].key) /\ hand[h].key \in Keys
    BY <1>0, <1>2, DroppedDecode DEF FinishSends, MoversInv
  <2>1. CASE Len(queue) < TX_DECODE_QUEUE_CAPACITY
    <3>1. hand' = [hand EXCEPT ![h] = Done]
      BY <1>2, <2>1 DEF FinishSends
    <3>2. W1'
      BY <1>i, <3>1, MoverFacts
    <3> QED
      BY <1>2, <1>b, <1>d, <1>e, <1>f, <1>g, <3>2 DEF FinishSends
  <2>2. CASE ~(Len(queue) < TX_DECODE_QUEUE_CAPACITY)
    <3> DEFINE k == hand[h].key
               owes == hand[h].owes (+) Decode(k, "queue_dropped")
               to == At("report", k, owes)
    <3>1. hand' = [hand EXCEPT ![h] = to]
      <4>1. hand' = [hand EXCEPT ![h].at = "report",
                                 ![h].owes = @ (+) Decode(hand[h].key, "queue_dropped")]
        BY <1>2, <2>2 DEF FinishSends
      <4> QED
        BY <1>0, <4>1, DroppedDecode
    <3>2. WholeFor(to.key, to.owes)
      <4>1. owes = Submission(k) (+) Decode(k, "queue_dropped")
        BY <2>0
      <4>2. WholeFor(k, owes)
        <5> HIDE DEF owes, k
        <5> QED
          BY <4>1, SubmissionWhole
      <4>3. to.key = k /\ to.owes = owes
        BY DEF At
      <4> QED
        BY <4>2, <4>3
    <3> HIDE DEF to
    <3>3. W1'
      BY <1>i, <3>1, <3>2
    <3> QED
      BY <1>2, <1>b, <1>d, <1>e, <1>f, <1>g, <3>3 DEF FinishSends
  <2> QED
    BY <2>1, <2>2
<1>3. ASSUME NEW h \in Handlers, FinishReports(h) PROVE WindowInv'
  <2>1. hand' = [hand EXCEPT ![h] = Done]
    BY <1>3 DEF FinishReports
  <2>2. W1'
    BY <1>i, <2>1, MoverFacts
  <2>3. /\ Raised(hand[h].key, hand[h].owes) /\ hand[h].key \in Keys /\ hand[h].owes \in Tally
        /\ WholeFor(hand[h].key, hand[h].owes)
    BY <1>0, <1>3, <1>a, DroppedDecode DEF FinishReports, Raised, W1
  <2>4. W3'
    BY <1>j, <2>3
  <2> QED
    BY <1>3, <1>b, <1>d, <1>f, <1>g, <2>2, <2>4 DEF FinishReports
<1>4. CASE WorkerReceives
  <2>1. W2'
    <3>1. CASE Head(queue) = Flush
      BY <1>4, <1>d, <3>1 DEF WorkerReceives
    <3>2. CASE Head(queue) # Flush
      <4> DEFINE k == Head(queue)
      <4>1. PICK r \in DecodeResults :
               worker' = At("report", k, Submission(k) (+) Decode(k, r))
        BY <1>4, <3>2 DEF WorkerReceives
      <4>2. worker'.key = k /\ worker'.owes = Submission(k) (+) Decode(k, r)
        BY <4>1 DEF At
      <4> HIDE DEF k
      <4>3. WholeFor(worker'.key, worker'.owes)
        BY <4>2, SubmissionWhole
      <4> QED
        BY <4>3 DEF W2
    <3> QED
      BY <3>1, <3>2
  <2> QED
    BY <1>4, <1>b, <1>c, <1>e, <1>f, <1>g, <2>1 DEF WorkerReceives
<1>5. CASE WorkerReports
  <2>1. /\ Raised(worker.key, worker.owes) /\ worker.key \in Keys /\ worker.owes \in Tally
        /\ WholeFor(worker.key, worker.owes)
    BY <1>0, <1>5, <1>a, PlaceTypes DEF WorkerReports, Raised, W2
  <2>2. W3'
    BY <1>j, <2>1
  <2>3. W2'
    BY <1>5, MoverFacts, WholeFacts DEF WorkerReports, W2
  <2> QED
    BY <1>5, <1>b, <1>c, <1>f, <1>g, <2>2, <2>3 DEF WorkerReports
<1>6. CASE TaskReceives
  <2>1. W4' /\ W5'
    <3>1. CASE sending' = Append(batch, One("raw")) /\ batch' = <<>>
      BY <1>0, <3>1, RawAppended DEF W4, W5
    <3>2. CASE batch' = Append(batch, One("raw")) /\ UNCHANGED sending
      BY <1>0, <1>g, <3>2, RawAppended DEF W4
    <3> QED
      BY <1>6, <3>1, <3>2 DEF TaskReceives
  <2> QED
    BY <1>6, <1>b, <1>c, <1>d, <1>e, <2>1 DEF TaskReceives
<1>7. CASE TaskTicks \/ TaskNotified
  <2>1. Drain /\ UNCHANGED <<hand, worker, sending>>
    BY <1>7 DEF TaskTicks, TaskNotified
  <2>2. Whole(buckets)
    <3>1. buckets \in Tally
      BY <1>0 DEF ReportTyped
    <3>2. NoTransactions(buckets)
      BY <1>0, CountedSets, NamedMeasures DEF PlacesInv, NoTransactions
    <3> QED
      BY <3>1, <3>2, WholeWithout
  <2>3. \A k \in Keys : Whole(tx_buckets[k])
    BY <1>0, <1>a, WholeImplies DEF W3, ReportTyped
  <2>4. W4'
    <3>1. \A i \in 1..Len(batch') :
              (\E j \in 1..Len(batch) : batch'[i] = batch[j]) \/ FromBuckets(batch'[i])
      BY <1>0, <2>1, DrainFacts
    <3> QED
      BY <1>a, <2>2, <2>3, <3>1 DEF W4, FromBuckets
  <2>5. W3'
    <3>1. \A k \in Keys : tx_buckets'[k] = Zero
      BY <1>0, <2>1, DrainFacts
    <3> QED
      BY <3>1, WholeFacts DEF W3
  <2> QED
    BY <1>b, <1>c, <1>d, <1>g, <2>1, <2>4, <2>5
<1>8. CASE TaskDrainsChannel
  <2>1. W4' /\ W5'
    <3>1. CASE sending' = batch /\ batch' = <<>>
      BY <1>0, <1>a, <3>1, RawAppended DEF W4, W5
    <3>2. CASE batch' = Append(batch, One("raw")) /\ UNCHANGED sending
      BY <1>0, <1>g, <3>2, RawAppended DEF W4
    <3>3. CASE UNCHANGED <<batch, sending>>
      BY <1>f, <1>g, <3>3
    <3> QED
      BY <1>8, <3>1, <3>2, <3>3 DEF TaskDrainsChannel
  <2> QED
    BY <1>8, <1>b, <1>c, <1>d, <1>e, <2>1 DEF TaskDrainsChannel
<1>9. CASE SendEnds
  <2>1. W5'
    BY <1>0, <1>9, RawAppended DEF SendEnds, W5
  <2> QED
    BY <1>9, <1>b, <1>c, <1>d, <1>e, <1>f, <2>1 DEF SendEnds
<1>10. ASSUME UNCHANGED <<hand, worker, tx_buckets, batch, sending>> PROVE WindowInv'
  BY <1>10, <1>b, <1>c, <1>d, <1>e, <1>f, <1>g
<1>11. CASE RecordRequest \/ EmitEvent \/ Main \/ Exited \/ UNCHANGED vars
  BY <1>10, <1>11 DEF RecordRequest, EmitEvent, Main, ServeEnds, HistoricalFlush, TxFlush,
     PushWaiter, NotifyOne, Exited, vars
<1> QED
  BY <1>1, <1>2, <1>3, <1>4, <1>5, <1>6, <1>7, <1>8, <1>9, <1>11 DEF Next, Finish, Worker

LEMMA WindowInit == Init => WindowInv
<1> SUFFICES ASSUME Init PROVE WindowInv
  OBVIOUS
<1>1. \A h \in Handlers : hand[h].at # "report"
  BY MoverFacts DEF Init
<1>2. WholeFor(worker.key, worker.owes) /\ \A k \in Keys : WholeFor(k, tx_buckets[k])
  BY MoverFacts, WholeFacts DEF Init
<1>3. 1..Len(batch) = {} /\ 1..Len(sending) = {}
  BY DEF Init
<1> QED
  BY <1>1, <1>2, <1>3 DEF WindowInv

LEMMA WindowImplies == ASSUME ReportTyped, WindowInv PROVE WindowsAreWhole
<1>1. batch \in Seq(Tally) /\ sending \in Seq(Tally)
  BY DEF ReportTyped
<1>2. Range(batch) = {batch[i] : i \in 1..Len(batch)}
      /\ Range(sending) = {sending[i] : i \in 1..Len(sending)}
  BY <1>1, LenProperties DEF Range
<1>3. \A e \in Range(batch) \cup Range(sending) : Whole(e)
  BY <1>2 DEF WindowInv
<1> QED
  BY <1>3 DEF WindowsAreWhole, Whole, Submissions, Decodes

-----------------------------------------------------------------------------
(* Layer 4: what was due has been sent when the process exits.             *)

(* Once the server has stopped nobody owes the reporter anything, and behind *)
(* the Flush of the decode queue neither the queue nor the worker does.      *)
LEMMA Quiet ==
    ASSUME ControlInv, main \in {"decoded", "registered", "waiting", "exited"},
           NEW m \in Measures
    PROVE  Total(Owed)[m] = 0 /\ Total(Waiting)[m] = 0 /\ worker.owes[m] = 0
<1>1. Owed \in [Handlers -> Tally] /\ \A h \in Handlers : Owed[h] = Zero
  BY PlaceTypes, MoverFacts DEF ControlInv, MoversInv, Owed
<1>2. queue = <<>> /\ worker = Idle
  BY DEF ControlInv, QueueInv
<1>3. Waiting = <<>>
  BY <1>2 DEF Waiting
<1> QED
  BY <1>1, <1>2, <1>3, TotalZero, TotalEmpty, TallyFacts, MoverFacts

LEMMA DroppedMore ==
    ASSUME NEW a \in Nat, NEW b \in Nat, a <= b, NEW m \in Measures
    PROVE  Copies(a, "raw")[m] <= Copies(b, "raw")[m]
<1>1. /\ Copies(a, "raw")[m] = IF m = "raw" THEN a ELSE 0
      /\ Copies(b, "raw")[m] = IF m = "raw" THEN b ELSE 0
  BY TallyFacts
<1> QED
  BY <1>1

LEMMA DueStep ==
    ASSUME ControlInv, OnceInv, DueInv, [Next]_vars
    PROVE  DueInv'
<1>0. ReportTyped /\ MoversInv /\ QueueInv /\ FlushInv /\ PlacesInv
  BY DEF ControlInv
<1> SUFFICES ASSUME NEW m \in Measures
             PROVE  /\ main' \in {"registered", "waiting"} => due'[m] <= told'[m]
                    /\ task' = "flush" =>
                          due'[m] <= Total(batch')[m] + attempted'[m] + RawEvents'[m]
                    /\ task' = "post_flush" =>
                          due'[m] <= Total(sending')[m] + attempted'[m]
                                       + Copies(dropped', "raw")[m]
                    /\ main' = "exited" =>
                          due'[m] <= attempted'[m] + Copies(dropped', "raw")[m]
  BY DEF DueInv
<1> DEFINE raw0 == Copies(dropped, "raw")[m]
           D1 == main \in {"registered", "waiting"} => due[m] <= told[m]
           D2 == task = "flush" => due[m] <= Total(batch)[m] + attempted[m] + RawEvents[m]
           D3 == task = "post_flush" => due[m] <= Total(sending)[m] + attempted[m] + raw0
           D4 == main = "exited" => due[m] <= attempted[m] + raw0
           Goal == D1' /\ D2' /\ D3' /\ D4'
<1>a. D1 /\ D2 /\ D3 /\ D4
  BY DEF DueInv
<1> SUFFICES Goal
  OBVIOUS
<1>b. /\ told[m] \in Nat /\ due[m] \in Nat /\ attempted[m] \in Nat /\ RawEvents[m] \in Nat
      /\ Total(batch)[m] \in Nat /\ Total(sending)[m] \in Nat /\ raw0 \in Nat
      /\ channel \in Nat /\ dropped \in Nat
  BY <1>0, PlaceValues DEF ReportTyped
<1>c. ASSUME UNCHANGED <<main, due>>, told'[m] = told[m] \/ main = "serving" PROVE D1'
  BY <1>a, <1>c
<1>d. ASSUME UNCHANGED <<task, batch, attempted, channel, dropped, due>> PROVE D2'
  <2>1. UNCHANGED RawEvents
    BY <1>d DEF RawEvents
  <2> QED
    BY <1>a, <1>d, <2>1
<1>e. ASSUME UNCHANGED <<task, sending, attempted, dropped, due>> PROVE D3'
  BY <1>a, <1>e
<1>f. ASSUME UNCHANGED <<main, attempted, dropped, due>> PROVE D4'
  BY <1>a, <1>f
<1>g. ASSUME task' \notin {"flush", "post_flush"} PROVE D2' /\ D3'
  BY <1>g
<1>h. ASSUME main' \notin {"registered", "waiting"} PROVE D1'
  BY <1>h
<1>i. ASSUME main' # "exited" PROVE D4'
  BY <1>i
<1>j. ASSUME main # "waiting", UNCHANGED task PROVE D2' /\ D3'
  BY <1>0, <1>g, <1>j DEF FlushInv
<1> HIDE DEF D1, D2, D3, D4, raw0
<1>1. ASSUME NEW h \in Handlers, Finish(h) PROVE Goal
  <2>1. main = "serving" /\ UNCHANGED <<main, task>>
    BY <1>0, <1>1, MoverFacts DEF Finish, FinishCounts, FinishSends, FinishReports, MoversInv
  <2> QED
    BY <1>h, <1>i, <1>j, <2>1
<1>2. CASE WorkerReceives
  <2>1. main \notin {"decoded", "registered", "waiting", "exited"}
    BY <1>0, <1>2 DEF WorkerReceives, QueueInv
  <2>2. main' \in {main, "decoded"} /\ UNCHANGED task
    BY <1>2 DEF WorkerReceives
  <2> QED
    BY <1>h, <1>i, <1>j, <2>1, <2>2
<1>3. ASSUME UNCHANGED <<told, main, task, batch, sending, attempted, channel, dropped, due>>
      PROVE  Goal
  BY <1>3, <1>c, <1>d, <1>e, <1>f
<1>4. CASE WorkerReports \/ Exited \/ UNCHANGED vars
  BY <1>3, <1>4 DEF WorkerReports, Exited, vars
<1>5. CASE RecordRequest
  <2>1. told[m] <= told'[m]
    <3>1. PICK n \in Calls : told' = told (+) (Copies(n, "calls") (+) One("latencies"))
      BY <1>5 DEF RecordRequest
    <3> DEFINE leg == Copies(n, "calls") (+) One("latencies")
    <3>2. Copies(n, "calls") \in Tally /\ One("latencies") \in Tally
      BY ReportingAssumption, TallyFacts
    <3>3. leg \in Tally
      BY <3>2, PlusFacts
    <3> HIDE DEF leg
    <3>4. told'[m] = told[m] + leg[m] /\ leg[m] \in Nat
      BY <1>0, <3>1, <3>3, PlusFacts, TallyValue DEF ReportTyped, leg
    <3> QED
      BY <1>b, <3>4
  <2>2. UNCHANGED <<main, task, batch, sending, attempted, channel, dropped, due>>
    BY <1>5 DEF RecordRequest
  <2>3. told'[m] \in Nat
    <3>1. ReportTyped'
      BY <1>0, TypedStep
    <3> QED
      BY <3>1, TallyValue DEF ReportTyped
  <2>4. D1'
    BY <1>a, <1>b, <2>1, <2>2, <2>3 DEF D1
  <2> QED
    BY <1>d, <1>e, <1>f, <2>2, <2>4
<1>6. CASE EmitEvent
  <2>1. /\ told'[m] = told[m] + One("raw")[m]
        /\ RawEvents'[m] = RawEvents[m] + One("raw")[m]
        /\ One("raw")[m] \in Nat
    BY <1>0, <1>6, Emitted DEF EmitEvent
  <2>2. UNCHANGED <<main, task, batch, sending, attempted, due>> /\ main # "exited"
    BY <1>6 DEF EmitEvent, Running
  <2>3. raw0 <= raw0' /\ raw0' \in Nat
    <3>1. dropped' \in Nat /\ dropped <= dropped'
      BY <1>b, <1>6 DEF EmitEvent, Emit
    <3> QED
      BY <1>b, <3>1, DroppedMore, TallyFacts, TallyValue DEF raw0
  <2>4. D1'
    BY <1>a, <1>b, <2>1, <2>2 DEF D1
  <2>5. D2'
    BY <1>a, <1>b, <2>1, <2>2 DEF D2
  <2>6. D3'
    BY <1>a, <1>b, <2>2, <2>3 DEF D3
  <2> QED
    BY <1>i, <2>2, <2>4, <2>5, <2>6
<1>7. CASE TaskReceives \/ TaskTicks
  <2>1. /\ task' \notin {"flush", "post_flush"} /\ main # "exited"
        /\ UNCHANGED <<main, told, due>>
    BY <1>7 DEF TaskReceives, TaskTicks, Running
  <2> QED
    BY <1>c, <1>g, <1>i, <2>1
<1>8. CASE TaskNotified
  <2>1. /\ task' = "flush" /\ main # "exited" /\ permit /\ task = "select" /\ Drain
        /\ UNCHANGED <<main, told, due, attempted, channel, dropped>>
    BY <1>8 DEF TaskNotified, Running
  <2>2. main = "waiting" /\ sending = <<>>
    BY <1>0, <2>1 DEF FlushInv, PlacesInv
  <2>3. Total(batch')[m] = Total(batch)[m] + buckets[m] + Total(tx_buckets)[m]
    BY <1>0, <2>1, DrainFacts
  <2>4. /\ Total(Owed)[m] = 0 /\ Total(Waiting)[m] = 0 /\ worker.owes[m] = 0
        /\ Total(sending)[m] = 0
    BY <2>2, Quiet, TotalEmpty, TallyFacts
  <2>5. told[m] = Total(Owed)[m] + Total(Waiting)[m] + worker.owes[m]
                    + buckets[m] + Total(tx_buckets)[m]
                    + Total(batch)[m] + Total(sending)[m] + attempted[m] + RawEvents[m]
    BY DEF OnceInv, Found
  <2>6. buckets[m] \in Nat /\ Total(tx_buckets)[m] \in Nat
    BY <1>0, PlaceValues
  <2>7. UNCHANGED RawEvents
    BY <2>1 DEF RawEvents
  <2>8. due[m] <= told[m]
    BY <1>a, <2>2 DEF D1
  <2>9. due[m] <= Total(batch')[m] + attempted[m] + RawEvents[m]
    BY <1>b, <2>3, <2>4, <2>5, <2>6, <2>8
  <2>10. D2'
    BY <2>1, <2>7, <2>9 DEF D2
  <2>11. D3'
    BY <2>1 DEF D3
  <2> QED
    BY <1>c, <1>i, <2>1, <2>10, <2>11
<1>9. CASE TaskDrainsChannel
  <2>0. /\ UNCHANGED <<told, attempted, dropped, due>> /\ main # "exited"
        /\ task \in {"tick", "flush"}
    BY <1>9 DEF TaskDrainsChannel, Running
  <2>1. CASE task = "tick"
    <3>1. task' \notin {"flush", "post_flush"} /\ UNCHANGED main
      BY <1>9, <2>1 DEF TaskDrainsChannel, EndBranch
    <3> QED
      BY <1>c, <1>g, <1>i, <2>0, <3>1
  <2>2. CASE task = "flush"
    <3>0. due[m] <= Total(batch)[m] + attempted[m] + RawEvents[m]
      BY <1>a, <2>2 DEF D2
    <3>1. ASSUME channel > 0, channel' = channel - 1, batch' = Append(batch, One("raw")),
                 UNCHANGED <<sending, task, waiters, main>>
          PROVE  Goal
      <4>1. /\ RawEvents[m] = RawEvents'[m] + One("raw")[m]
            /\ RawEvents'[m] \in Nat /\ One("raw")[m] \in Nat
            /\ Total(batch')[m] = Total(batch)[m] + One("raw")[m]
        BY <1>0, <2>0, <3>1, Received
      <4>2. due[m] <= Total(batch')[m] + attempted[m] + RawEvents'[m]
        BY <1>b, <3>0, <4>1
      <4>3. D2'
        BY <2>0, <4>2 DEF D2
      <4>4. D1' /\ D3' /\ D4'
        BY <1>c, <1>e, <1>f, <2>0, <3>1
      <4> QED
        BY <4>3, <4>4
    <3>2. ASSUME channel = 0 PROVE RawEvents[m] = raw0
      BY <1>b, <3>2 DEF RawEvents, raw0
    <3>3. ASSUME channel = 0, sending' = batch, task' = "post_flush",
                 UNCHANGED <<channel, waiters, main>>
          PROVE  Goal
      <4>1. Total(sending')[m] = Total(batch)[m] /\ UNCHANGED raw0
        BY <2>0, <3>3 DEF raw0
      <4>2. due[m] <= Total(sending')[m] + attempted[m] + raw0
        BY <3>0, <3>2, <3>3, <4>1
      <4>3. D3'
        BY <2>0, <4>1, <4>2 DEF D3
      <4>4. D2'
        BY <3>3 DEF D2
      <4>5. D1' /\ D4'
        BY <1>c, <1>f, <2>0, <3>3
      <4> QED
        BY <4>3, <4>4, <4>5
    <3>4. ASSUME channel = 0, batch = <<>>, EndBranch("flush")
          PROVE  Goal
      <4>1. Total(batch)[m] = 0
        BY <3>4, TotalEmpty, TallyFacts
      <4>2. due[m] <= attempted[m] + raw0
        BY <1>b, <3>0, <3>2, <3>4, <4>1
      <4>3. UNCHANGED raw0
        BY <2>0 DEF raw0
      <4>4. D4'
        BY <2>0, <4>2, <4>3 DEF D4
      <4>5. task' = "select" /\ main' \in {main, "exited"}
        BY <3>4 DEF EndBranch
      <4>6. D1'
        BY <1>c, <1>h, <2>0, <4>5
      <4> QED
        BY <1>g, <4>4, <4>5, <4>6
    <3> QED
      BY <1>9, <2>2, <3>1, <3>3, <3>4 DEF TaskDrainsChannel
  <2> QED
    BY <2>0, <2>1, <2>2
<1>10. CASE SendEnds
  <2>0. /\ UNCHANGED <<told, dropped, due>> /\ main # "exited"
        /\ task \in {"post", "post_flush"} /\ task' = "select"
        /\ main' \in {main, "exited"}
        /\ task = "post" => UNCHANGED main
        /\ attempted' = attempted (+) Total(sending)
    BY <1>10 DEF SendEnds, EndBranch, Running
  <2>1. D1'
    <3>0. main' = main \/ main' = "exited"
      BY <2>0
    <3>1. CASE main' = main
      BY <1>c, <2>0, <3>1
    <3>2. CASE main' = "exited"
      BY <1>h, <3>2
    <3> QED
      BY <3>0, <3>1, <3>2
  <2>2. D4'
    <3>1. CASE task = "post"
      BY <1>i, <2>0, <3>1
    <3>2. CASE task = "post_flush"
      <4>1. attempted'[m] = attempted[m] + Total(sending)[m]
        BY <1>0, <2>0, SequenceTyped, PlusFacts DEF ReportTyped
      <4>2. due[m] <= Total(sending)[m] + attempted[m] + raw0
        BY <1>a, <3>2 DEF D3
      <4>3. UNCHANGED raw0
        BY <2>0 DEF raw0
      <4>4. due[m] <= attempted'[m] + raw0
        BY <1>b, <4>1, <4>2
      <4> QED
        BY <2>0, <4>3, <4>4 DEF D4
    <3> QED
      BY <2>0, <3>1, <3>2
  <2> QED
    BY <1>g, <2>0, <2>1, <2>2
<1>11. CASE ServeEnds \/ HistoricalFlush \/ TxFlush
  <2>1. /\ main # "waiting" /\ UNCHANGED task /\ main' \in {"historical", "tx", "tx_wait"}
    BY <1>11 DEF ServeEnds, HistoricalFlush, TxFlush
  <2> QED
    BY <1>h, <1>i, <1>j, <2>1
<1>12. CASE PushWaiter
  <2>1. main = "decoded" /\ main' = "registered" /\ due' = told /\ UNCHANGED <<task, told>>
    BY <1>12 DEF PushWaiter
  <2>2. D1'
    BY <1>b, <2>1 DEF D1
  <2> QED
    BY <1>i, <1>j, <2>1, <2>2
<1>13. CASE NotifyOne
  <2>1. main = "registered" /\ main' = "waiting" /\ UNCHANGED <<task, told, due>>
    BY <1>13 DEF NotifyOne
  <2>2. D1'
    BY <1>a, <2>1 DEF D1
  <2> QED
    BY <1>i, <1>j, <2>1, <2>2
<1> QED
  BY <1>1, <1>2, <1>4, <1>5, <1>6, <1>7, <1>8, <1>9, <1>10, <1>11, <1>12, <1>13
  DEF Next, Worker, Main

LEMMA DueInit == Init => DueInv
  BY DEF Init, DueInv

LEMMA DueImplies ==
    ASSUME ControlInv, OnceInv, DueInv
    PROVE  ShutdownReportsAll
<1> SUFFICES ASSUME main = "exited"
             PROVE  /\ due \sqsubseteq (attempted (+) Copies(dropped, "raw"))
                    /\ \A m \in Results \cup {"accepted", "rejected", "fee_samples"} :
                          attempted[m] = told[m]
  BY DEF ShutdownReportsAll
<1>0. ReportTyped
  BY DEF ControlInv
<1>1. ASSUME NEW m \in Measures PROVE due[m] <= (attempted (+) Copies(dropped, "raw"))[m]
  <2>1. due[m] <= attempted[m] + Copies(dropped, "raw")[m]
    BY DEF DueInv
  <2>2. attempted \in Tally /\ Copies(dropped, "raw") \in Tally
    BY <1>0, TallyFacts DEF ReportTyped
  <2> QED
    BY <2>1, <2>2, PlusFacts
<1>2. ASSUME NEW m \in Results \cup {"accepted", "rejected", "fee_samples"}
      PROVE  attempted[m] = told[m]
  <2>1. m \in Measures /\ m \notin {"calls", "latencies", "raw"}
    BY ReportingAssumption DEF Results, DecodeResults, Measures, Named
  <2>2. Total(Owed)[m] = 0 /\ Total(Waiting)[m] = 0 /\ worker.owes[m] = 0
    BY <2>1, Quiet
  <2>3. buckets[m] = 0
    BY <2>1 DEF ControlInv, PlacesInv
  <2>4. Total(tx_buckets)[m] = 0 /\ Total(batch)[m] = 0 /\ Total(sending)[m] = 0
    <3>1. batch = <<>> /\ sending = <<>> /\ \A k \in Keys : tx_buckets[k] = Zero
      BY DEF ControlInv, PlacesInv, FlushInv
    <3>2. tx_buckets \in [Keys -> Tally]
      BY <1>0 DEF ReportTyped
    <3> QED
      BY <2>1, <3>1, <3>2, TotalZero, TotalEmpty, TallyFacts
  <2>5. RawEvents[m] = 0
    <3>1. channel + dropped \in Nat
      BY <1>0 DEF ReportTyped
    <3> QED
      BY <2>1, <3>1, TallyFacts DEF RawEvents
  <2>6. attempted[m] \in Nat
    BY <1>0, <2>1, PlaceValues
  <2>7. told[m] = Total(Owed)[m] + Total(Waiting)[m] + worker.owes[m]
                    + buckets[m] + Total(tx_buckets)[m]
                    + Total(batch)[m] + Total(sending)[m] + attempted[m] + RawEvents[m]
    BY <2>1 DEF OnceInv, Found
  <2> QED
    BY <2>2, <2>3, <2>4, <2>5, <2>6, <2>7
<1> QED
  BY <1>1, <1>2 DEF \sqsubseteq

-----------------------------------------------------------------------------
(* The invariant, and the properties that follow from it.                  *)
ReportingInv == ControlInv /\ OnceInv /\ WindowInv /\ DueInv

LEMMA ReportingInvariant == Spec => []ReportingInv
<1>1. Init => ReportingInv
  <2> SUFFICES ASSUME Init PROVE ReportingInv
    OBVIOUS
  <2>1. ControlInv
    BY TypedInit, PartsInit DEF ControlInv, Parts
  <2> QED
    BY <2>1, OnceInit, WindowInit, DueInit DEF ReportingInv
<1>2. ReportingInv /\ [Next]_vars => ReportingInv'
  <2> SUFFICES ASSUME ReportingInv, [Next]_vars PROVE ReportingInv'
    OBVIOUS
  <2>1. ControlInv /\ OnceInv /\ WindowInv /\ DueInv
    BY DEF ReportingInv
  <2>2. ControlInv' /\ OnceInv' /\ WindowInv' /\ DueInv'
    BY <2>1, ControlStep, OnceStep, WindowStep, DueStep
  <2> QED
    BY <2>2 DEF ReportingInv
<1> QED
  BY <1>1, <1>2, PTL DEF Spec

(* The shutdown is a handshake that nobody can overtake: the Flush of the   *)
(* decode queue is behind every job, run() goes on only when the queue and  *)
(* the worker are empty, the flush task's final branch runs only while      *)
(* run() waits for it, and by then the transaction buckets are empty        *)
(* (flush_transaction_analytics, flush_and_wait and flush_task).            *)
THEOREM ControlCorrect == Spec => []ControlInv
<1>1. ReportingInv => ControlInv
  BY DEF ReportingInv
<1> QED
  BY <1>1, ReportingInvariant, PTL

(* Whatever Prometheus was told is in exactly one place on its way to the   *)
(* remote endpoint, or was a raw event dropped at a full channel: finish(), *)
(* the decode worker, the Aggregator, emit() and flush_task, whatever the   *)
(* capacities, the batch size and the order in which a drain walks its map. *)
THEOREM ReportedOnceCorrect == Spec => []ReportedOnce
<1>1. ReportingInv => ReportedOnce
  BY OnceImplies DEF ReportingInv, ControlInv
<1> QED
  BY <1>1, ReportingInvariant, PTL

(* Every event of every batch is a whole window: as many decode results as  *)
(* submissions, and fee samples for exactly the parsed of the accepted      *)
(* (record_transaction_result, which takes the lock once).                  *)
THEOREM WindowsAreWholeCorrect == Spec => []WindowsAreWhole
<1>1. ReportingInv => WindowsAreWhole
  BY WindowImplies DEF ReportingInv, ControlInv
<1> QED
  BY <1>1, ReportingInvariant, PTL

(* When run() returns, a POST has been attempted for all that had been      *)
(* counted when flush_and_wait was called, and for every transaction.       *)
THEOREM ShutdownReportsAllCorrect == Spec => []ShutdownReportsAll
<1>1. ReportingInv => ShutdownReportsAll
  BY DueImplies DEF ReportingInv
<1> QED
  BY <1>1, ReportingInvariant, PTL

=============================================================================
