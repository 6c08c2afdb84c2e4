--------------------------- MODULE HpaSearchProofs ---------------------------
(***************************************************************************)
(* A search on the hierarchical map finds a path exactly when the steps    *)
(* the map knows lead to the target, on levels of every size.              *)
(*                                                                         *)
(* It rests on three facts.  What Spread reaches in as many steps as there *)
(* are places is all that can be reached.  From wherever a border can be   *)
(* crossed, an entrance that is kept can be walked to within the cluster.  *)
(* And as long as no open tile is blocked, every edge stands for a way     *)
(* (Sound) and every entrance is in the graph (Served): a border that is   *)
(* not made anew by an update has the openings it had.                     *)
(***************************************************************************)
EXTENDS HpaMapProofs, WellFoundedInduction

-----------------------------------------------------------------------------
(* Numbers *)

\* A set of naturals that is not empty has a least element.
LEMMA HasLeast ==
  ASSUME NEW B \in SUBSET Nat, B # {}
  PROVE  \E m \in B : \A n \in B : m <= n
<1> DEFINE R == OpToRel(<, Nat)
<1>1. IsWellFoundedOn(R, Nat)
  BY NatLessThanWellFounded
<1>2. PICK m \in B : \A n \in B : <<n, m>> \notin R
  <2> HIDE DEF R
  <2> QED
    BY <1>1, WFMin
<1>3. \A n \in B : ~ n < m
  BY <1>2 DEF OpToRel
<1> HIDE DEF R
<1> QED
  BY <1>3, SMT

\* A set that holds 0 and with a number the next one holds them all.
LEMMA AllNumbers ==
  ASSUME NEW T \in SUBSET Nat, 0 \in T, \A n \in T : n + 1 \in T
  PROVE  T = Nat
<1> SUFFICES ASSUME Nat \ T # {} PROVE FALSE
  OBVIOUS
<1>1. PICK m \in Nat \ T : \A n \in Nat \ T : m <= n
  BY HasLeast
<1>2. m # 0 /\ m - 1 \in Nat
  BY <1>1
<1>3. m - 1 \in T
  BY <1>1, <1>2
<1> QED
  BY <1>1, <1>2, <1>3

\* Clusters are as wide as they are high; the next place along a row or a column
\* is in the same cluster or in the next one.
LEMMA ClusterBounds ==
  ASSUME NEW a \in Nat
  PROVE  /\ a \div ClusterSize \in Nat
         /\ (a \div ClusterSize) * ClusterSize <= a
         /\ a < (a \div ClusterSize) * ClusterSize + ClusterSize
BY HpaAssumption

\* The next column or row is in the same cluster or begins the next one.
LEMMA ClusterNext ==
  ASSUME NEW a \in Nat
  PROVE  /\ (a + 1) \div ClusterSize \in {a \div ClusterSize, a \div ClusterSize + 1}
         /\ (a + 1) \div ClusterSize = a \div ClusterSize + 1
              => a + 1 = (a \div ClusterSize + 1) * ClusterSize
<1> DEFINE c == a \div ClusterSize
           d == (a + 1) \div ClusterSize
<1>1. c \in Nat /\ c * ClusterSize <= a /\ a < c * ClusterSize + ClusterSize
  BY ClusterBounds
<1>2. d \in Nat /\ d * ClusterSize <= a + 1 /\ a + 1 < d * ClusterSize + ClusterSize
  BY ClusterBounds
<1>3. ClusterSize \in Nat \ {0}
  BY HpaAssumption
<1> HIDE DEF c, d
<1>4. d <= c + 1
  <2> SUFFICES ASSUME d >= c + 2 PROVE FALSE
    BY <1>1, <1>2
  <2>1. (c + 2) * ClusterSize <= d * ClusterSize
    BY <1>1, <1>2, <1>3
  <2>2. (c + 2) * ClusterSize = c * ClusterSize + 2 * ClusterSize
    BY <1>1, <1>3
  <2> QED
    BY <1>1, <1>2, <1>3, <2>1, <2>2
<1>5. c <= d
  <2> SUFFICES ASSUME c >= d + 1 PROVE FALSE
    BY <1>1, <1>2
  <2>1. (d + 1) * ClusterSize <= c * ClusterSize
    BY <1>1, <1>2, <1>3
  <2>2. (d + 1) * ClusterSize = d * ClusterSize + ClusterSize
    BY <1>1, <1>2, <1>3
  <2> QED
    BY <1>1, <1>2, <1>3, <2>1, <2>2
<1>6. (c + 1) * ClusterSize = c * ClusterSize + ClusterSize
  BY <1>1, <1>3
<1>7. d = c + 1 => a + 1 = (c + 1) * ClusterSize
  BY <1>1, <1>2, <1>3, <1>6
<1> QED
  BY <1>1, <1>2, <1>4, <1>5, <1>7 DEF c, d
-----------------------------------------------------------------------------
(* What Spread reaches *)

\* One more of the steps.
Wider(r, steps) == r \cup {s[2] : s \in {t \in steps : t[1] \in r}}

\* r is what is reached from x in 0 to k of the steps.
Rows(r, x, steps, k) == r = [n \in 0 .. k |-> IF n = 0 THEN {x} ELSE Wider(r[n - 1], steps)]

\* The rows of Spread can be made for any number of steps.
LEMMA RowsExist ==
  ASSUME NEW x, NEW steps PROVE \A k \in Nat : \E r : Rows(r, x, steps, k)
<1> DEFINE T == {k \in Nat : \E r : Rows(r, x, steps, k)}
<1>1. 0 \in T
  <2> DEFINE r == [n \in 0 .. 0 |-> {x}]
  <2>1. r = [n \in 0 .. 0 |-> IF n = 0 THEN {x} ELSE Wider(r[n - 1], steps)]
    OBVIOUS
  <2> HIDE DEF r
  <2> QED
    BY <2>1 DEF Rows
<1>2. ASSUME NEW k \in T PROVE k + 1 \in T
  <2>1. PICK r : Rows(r, x, steps, k)
    OBVIOUS
  <2> DEFINE w == [n \in 0 .. k + 1 |-> IF n = 0 THEN {x} ELSE Wider(r[n - 1], steps)]
  <2>2. k \in Nat
    OBVIOUS
  <2>3. ASSUME NEW n \in 0 .. k PROVE w[n] = r[n]
    <3>1. r[n] = IF n = 0 THEN {x} ELSE Wider(r[n - 1], steps)
      BY <2>1 DEF Rows
    <3> QED
      BY <2>2, <3>1
  <2>4. w = [n \in 0 .. k + 1 |-> IF n = 0 THEN {x} ELSE Wider(w[n - 1], steps)]
    <3> SUFFICES ASSUME NEW n \in 0 .. k + 1, n # 0
                 PROVE  Wider(r[n - 1], steps) = Wider(w[n - 1], steps)
      OBVIOUS
    <3>1. n - 1 \in 0 .. k
      BY <2>2
    <3> QED
      BY <2>3, <3>1
  <2> HIDE DEF w
  <2> QED
    BY <2>2, <2>4 DEF Rows
<1> HIDE DEF T
<1>3. T \in SUBSET Nat
  BY DEF T
<1>4. T = Nat
  BY <1>1, <1>2, <1>3, AllNumbers
<1> QED
  BY <1>4 DEF T

\* Longer rows go on where shorter ones end.
LEMMA RowsAgree ==
  ASSUME NEW x, NEW steps, NEW k \in Nat, NEW l \in Nat, k <= l,
         NEW r, Rows(r, x, steps, k), NEW w, Rows(w, x, steps, l)
  PROVE  r[k] = w[k]
<1> DEFINE T == {n \in Nat : n <= k => r[n] = w[n]}
<1>1. /\ \A n \in 0 .. k : r[n] = IF n = 0 THEN {x} ELSE Wider(r[n - 1], steps)
      /\ \A n \in 0 .. l : w[n] = IF n = 0 THEN {x} ELSE Wider(w[n - 1], steps)
  BY DEF Rows
<1>2. 0 \in T
  BY <1>1
<1>3. ASSUME NEW n \in T PROVE n + 1 \in T
  <2> SUFFICES ASSUME n + 1 <= k PROVE r[n + 1] = w[n + 1]
    OBVIOUS
  <2>1. r[n] = w[n] /\ n + 1 \in 0 .. k /\ n + 1 \in 0 .. l /\ n + 1 # 0 /\ (n + 1) - 1 = n
    OBVIOUS
  <2>2. r[n + 1] = Wider(r[n], steps) /\ w[n + 1] = Wider(w[n], steps)
    BY <1>1, <2>1
  <2> QED
    BY <2>1, <2>2
<1>4. T \in SUBSET Nat
  OBVIOUS
<1> HIDE DEF T
<1>5. T = Nat
  BY <1>2, <1>3, <1>4, AllNumbers
<1> QED
  BY <1>5 DEF T

\* Nothing but x is reached in no step, and with one more step what is one step on.
LEMMA SpreadSteps ==
  ASSUME NEW x, NEW steps
  PROVE  /\ Spread(x, steps)[0] = {x}
         /\ \A n \in Nat : Spread(x, steps)[n + 1] = Wider(Spread(x, steps)[n], steps)
<1> DEFINE Is(f) == f = [n \in Nat |-> IF n = 0 THEN {x} ELSE Wider(f[n - 1], steps)]
           row(n) == CHOOSE r : Rows(r, x, steps, n)
           g == [n \in Nat |-> row(n)[n]]
<1>1. \A n \in Nat : Rows(row(n), x, steps, n)
  BY RowsExist
<1>2. ASSUME NEW n \in Nat PROVE g[n] = IF n = 0 THEN {x} ELSE Wider(g[n - 1], steps)
  <2>1. row(n)[n] = IF n = 0 THEN {x} ELSE Wider(row(n)[n - 1], steps)
    <3> HIDE DEF row
    <3>1. Rows(row(n), x, steps, n)
      BY <1>1
    <3>2. \A r : Rows(r, x, steps, n) => r[n] = IF n = 0 THEN {x} ELSE Wider(r[n - 1], steps)
      <4> SUFFICES ASSUME NEW r, Rows(r, x, steps, n)
                   PROVE  r[n] = IF n = 0 THEN {x} ELSE Wider(r[n - 1], steps)
        OBVIOUS
      <4>1. \A m \in 0 .. n : r[m] = IF m = 0 THEN {x} ELSE Wider(r[m - 1], steps)
        BY DEF Rows
      <4>2. n \in 0 .. n
        OBVIOUS
      <4> QED
        BY <4>1, <4>2, Zenon
    <3> QED
      BY <3>1, <3>2, Zenon
  <2>2. ASSUME n # 0 PROVE row(n)[n - 1] = g[n - 1]
    <3>1. n - 1 \in Nat /\ n - 1 <= n
      BY <2>2
    <3>2. Rows(row(n - 1), x, steps, n - 1) /\ Rows(row(n), x, steps, n)
      BY <1>1, <3>1
    <3> HIDE DEF row
    <3>3. row(n - 1)[n - 1] = row(n)[n - 1]
      BY <3>1, <3>2, RowsAgree
    <3> QED
      BY <3>1, <3>3
  <2> QED
    BY <2>1, <2>2
<1>3. \E f : Is(f)
  <2> HIDE DEF row
  <2>1. g = [n \in Nat |-> IF n = 0 THEN {x} ELSE Wider(g[n - 1], steps)]
    BY <1>2
  <2> HIDE DEF g
  <2> QED
    BY <2>1
<1>4. Spread(x, steps) = CHOOSE f : Is(f)
  BY Zenon DEF Spread, Wider
<1> DEFINE h == Spread(x, steps)
<1>5. Is(h)
  BY <1>3, <1>4, Zenon
<1> HIDE DEF h
<1>6. \A n \in Nat : h[n] = IF n = 0 THEN {x} ELSE Wider(h[n - 1], steps)
  BY <1>5, Zenon
<1>7. ASSUME NEW n \in Nat PROVE h[n + 1] = Wider(h[n], steps)
  <2>1. n + 1 \in Nat /\ n + 1 # 0 /\ (n + 1) - 1 = n
    OBVIOUS
  <2> QED
    BY <1>6, <2>1
<1>8. h[0] = {x}
  BY <1>6
<1> QED
  BY <1>7, <1>8 DEF h
\* No step leads out of r.
Closed(r, steps) == \A s \in steps : s[1] \in r => s[2] \in r

\* What one more round adds.
LEMMA WiderHas ==
  ASSUME NEW r, NEW steps
  PROVE  /\ \A y \in Wider(r, steps) : y \in r \/ \E s \in steps : s[1] \in r /\ y = s[2]
         /\ r \subseteq Wider(r, steps)
         /\ \A s \in steps : s[1] \in r => s[2] \in Wider(r, steps)
BY DEF Wider

\* A closed set is never left.
LEMMA SpreadWithin ==
  ASSUME NEW x, NEW steps, NEW C, x \in C, Closed(C, steps)
  PROVE  \A n \in Nat : Spread(x, steps)[n] \subseteq C
<1> DEFINE h == Spread(x, steps)
           T == {n \in Nat : h[n] \subseteq C}
<1>1. h[0] = {x} /\ \A n \in Nat : h[n + 1] = Wider(h[n], steps)
  BY SpreadSteps
<1> HIDE DEF h
<1>2. 0 \in T
  BY <1>1
<1>3. ASSUME NEW n \in T PROVE n + 1 \in T
  <2>1. n \in Nat /\ h[n] \subseteq C /\ h[n + 1] = Wider(h[n], steps)
    BY <1>1
  <2>2. ASSUME NEW y \in Wider(h[n], steps) PROVE y \in C
    <3>1. y \in h[n] \/ \E s \in steps : s[1] \in h[n] /\ y = s[2]
      BY WiderHas
    <3> QED
      BY <2>1, <3>1 DEF Closed
  <2> QED
    BY <2>1, <2>2
<1>4. T \in SUBSET Nat
  OBVIOUS
<1> HIDE DEF T
<1>5. T = Nat
  BY <1>2, <1>3, <1>4, AllNumbers
<1> QED
  BY <1>5 DEF T, h

\* As long as a step leads further, more is reached: after as many steps as there
\* are places no step does.
LEMMA SpreadFull ==
  ASSUME NEW V, IsFiniteSet(V), NEW x \in V, NEW steps \in SUBSET (V \X V),
         NEW N \in Nat, Cardinality(V) <= N
  PROVE  /\ x \in Spread(x, steps)[N] /\ Spread(x, steps)[N] \subseteq V
         /\ Closed(Spread(x, steps)[N], steps)
<1> DEFINE h == Spread(x, steps)
           T == {n \in Nat : /\ x \in h[n]
                             /\ Closed(h[n], steps) \/ Cardinality(h[n]) > n}
<1>1. h[0] = {x} /\ \A n \in Nat : h[n + 1] = Wider(h[n], steps)
  BY SpreadSteps
<1>2. \A n \in Nat : h[n] \subseteq V
  <2>1. Closed(V, steps)
    BY DEF Closed
  <2> QED
    BY <2>1, SpreadWithin
<1> HIDE DEF h
<1>3. \A n \in Nat : IsFiniteSet(h[n]) /\ Cardinality(h[n]) \in Nat /\ Cardinality(h[n]) <= Cardinality(V)
  BY <1>2, FS_Subset, FS_CardinalityType
<1>4. 0 \in T
  <2>1. Cardinality({x}) = 1
    BY FS_Singleton
  <2>2. x \in h[0] /\ Cardinality(h[0]) > 0
    BY <1>1, <2>1
  <2> QED
    BY <2>2
<1>5. ASSUME NEW n \in T PROVE n + 1 \in T
  <2>1. n \in Nat /\ n + 1 \in Nat /\ x \in h[n] /\ h[n + 1] = Wider(h[n], steps)
    BY <1>1
  <2>2. h[n] \subseteq h[n + 1] /\ x \in h[n + 1]
    BY <2>1, WiderHas
  <2>3. CASE Closed(h[n], steps)
    <3>1. ASSUME NEW y \in h[n + 1] PROVE y \in h[n]
      <4>1. y \in h[n] \/ \E s \in steps : s[1] \in h[n] /\ y = s[2]
        BY <2>1, WiderHas
      <4> QED
        BY <2>3, <4>1 DEF Closed
    <3>2. h[n + 1] = h[n]
      BY <2>2, <3>1
    <3> QED
      BY <2>1, <2>2, <2>3, <3>2
  <2>4. CASE ~ Closed(h[n], steps)
    <3>1. PICK s \in steps : s[1] \in h[n] /\ s[2] \notin h[n]
      BY <2>4 DEF Closed
    <3>2. s[2] \in h[n + 1]
      BY <2>1, <3>1, WiderHas
    <3>3. Cardinality(h[n] \cup {s[2]}) = Cardinality(h[n]) + 1
      BY <1>3, <2>1, <3>1, FS_AddElement
    <3>4. Cardinality(h[n] \cup {s[2]}) <= Cardinality(h[n + 1])
      BY <1>3, <2>1, <2>2, <3>2, FS_Subset
    <3>5. Cardinality(h[n]) > n
      BY <2>4
    <3>6. Cardinality(h[n + 1]) > n + 1
      BY <1>3, <2>1, <3>3, <3>4, <3>5
    <3> QED
      BY <2>1, <2>2, <3>6
  <2> QED
    BY <2>3, <2>4
<1>6. T \in SUBSET Nat
  OBVIOUS
<1> HIDE DEF T
<1>7. T = Nat
  BY <1>4, <1>5, <1>6, AllNumbers
<1>8. x \in h[N] /\ (Closed(h[N], steps) \/ Cardinality(h[N]) > N)
  BY <1>7 DEF T
<1>9. ~ (Cardinality(h[N]) > N)
  BY <1>3, FS_CardinalityType
<1> QED
  BY <1>2, <1>8, <1>9 DEF h

\* The steps lead from p to q.
Leads(p, q, steps) == \A r \in SUBSET Pos : p \in r /\ Closed(r, steps) => q \in r

\* With as many rounds as there are places, Spread is reachability.
LEMMA SpreadLeads ==
  ASSUME NEW V \in SUBSET Pos, IsFiniteSet(V), NEW x \in V, NEW steps \in SUBSET (V \X V),
         NEW N \in Nat, Cardinality(V) <= N, NEW q
  PROVE  q \in Spread(x, steps)[N] <=> Leads(x, q, steps)
<1> DEFINE r == Spread(x, steps)[N]
<1>1. x \in r /\ r \subseteq V /\ Closed(r, steps)
  BY SpreadFull
<1>2. \A C : x \in C /\ Closed(C, steps) => r \subseteq C
  BY SpreadWithin
<1> HIDE DEF r
<1>3. ASSUME q \in r PROVE Leads(x, q, steps)
  BY <1>2, <1>3 DEF Leads
<1>4. ASSUME Leads(x, q, steps) PROVE q \in r
  <2>1. r \in SUBSET Pos
    BY <1>1
  <2> QED
    BY <1>1, <1>4, <2>1 DEF Leads
<1> QED
  BY <1>3, <1>4 DEF r

\* What leads on leads on with more steps, and further; and back, if every step can
\* be walked back.
LEMMA LeadsOn ==
  ASSUME NEW steps, NEW more, steps \subseteq more, NEW p, NEW q, Leads(p, q, steps)
  PROVE  Leads(p, q, more)
BY DEF Leads, Closed

\* Ways can be put together,
LEMMA LeadsFar ==
  ASSUME NEW steps, NEW p, NEW q, NEW s, Leads(p, q, steps), Leads(q, s, steps)
  PROVE  Leads(p, s, steps)
BY DEF Leads

\* made longer by a step,
LEMMA LeadsStep ==
  ASSUME NEW steps, NEW p, NEW q, NEW s, Leads(p, q, steps), <<q, s>> \in steps
  PROVE  Leads(p, s, steps)
BY DEF Leads, Closed

\* and gone back, if the steps can.
LEMMA LeadsBack ==
  ASSUME NEW steps \in SUBSET (Pos \X Pos), \A s \in steps : <<s[2], s[1]>> \in steps,
         NEW p \in Pos, NEW q \in Pos, Leads(p, q, steps)
  PROVE  Leads(q, p, steps)
<1> SUFFICES ASSUME NEW r \in SUBSET Pos, q \in r, Closed(r, steps), p \notin r PROVE FALSE
  BY DEF Leads
<1>1. Closed(Pos \ r, steps)
  <2> SUFFICES ASSUME NEW s \in steps, s[1] \in Pos \ r, s[2] \in r PROVE FALSE
    BY DEF Closed
  <2>1. <<s[2], s[1]>> \in steps /\ <<s[2], s[1]>>[1] = s[2] /\ <<s[2], s[1]>>[2] = s[1]
    OBVIOUS
  <2>2. <<s[2], s[1]>>[2] \in r
    BY <2>1, Zenon DEF Closed
  <2> QED
    BY <2>1, <2>2
<1>2. q \in Pos \ r
  BY <1>1 DEF Leads
<1> QED
  BY <1>2
-----------------------------------------------------------------------------
(* Ways on the tiles *)

\* The numbers of an interval, counted.
LEMMA RowFew ==
  ASSUME NEW lo \in Int, NEW n \in Nat
  PROVE  IsFiniteSet(lo .. lo + n - 1) /\ Cardinality(lo .. lo + n - 1) = n
<1> DEFINE hi == lo + n - 1
<1>1. hi \in Int /\ hi - lo + 1 = n /\ (lo > hi => n = 0)
  OBVIOUS
<1> HIDE DEF hi
<1>2. IsFiniteSet(lo .. hi) /\ Cardinality(lo .. hi) = IF lo > hi THEN 0 ELSE hi - lo + 1
  BY <1>1, FS_Interval
<1>3. IsFiniteSet(lo .. hi) /\ Cardinality(lo .. hi) = n
  BY <1>1, <1>2
<1> QED
  BY <1>3 DEF hi

\* The places of a level, counted.
LEMMA PosFew == IsFiniteSet(Pos) /\ Cardinality(Pos) = Width * Height
<1> DEFINE row(n) == 0 .. n - 1
<1>1. Width \in Nat /\ Height \in Nat
  BY HpaAssumption
<1>2. ASSUME NEW n \in Nat PROVE IsFiniteSet(row(n)) /\ Cardinality(row(n)) = n
  <2>1. 0 + n - 1 = n - 1
    OBVIOUS
  <2>2. IsFiniteSet(0 .. 0 + n - 1) /\ Cardinality(0 .. 0 + n - 1) = n
    BY RowFew
  <2> QED
    BY <2>1, <2>2
<1>3. Pos = row(Width) \X row(Height)
  BY DEF Pos
<1> HIDE DEF row
<1> QED
  BY <1>1, <1>2, <1>3, FS_Product

\* A cluster, cut short or not, has at most ClusterSize^2 places.
LEMMA CellsFew ==
  ASSUME NEW p \in Pos
  PROVE  /\ Cells(ClusterOf(p)) \in SUBSET Pos /\ IsFiniteSet(Cells(ClusterOf(p)))
         /\ Cardinality(Cells(ClusterOf(p))) <= ClusterSize * ClusterSize
<1> DEFINE c == p[1] \div ClusterSize
           d == p[2] \div ClusterSize
           row(i) == i * ClusterSize .. i * ClusterSize + ClusterSize - 1
<1>1. ClusterSize \in Nat \ {0} /\ p[1] \in Nat /\ p[2] \in Nat /\ ClusterOf(p) = <<c, d>>
  BY HpaAssumption DEF Pos, ClusterOf
<1>2. c \in Nat /\ d \in Nat
  BY <1>1, ClusterBounds
<1> HIDE DEF c, d
<1>3. ASSUME NEW i \in Nat PROVE IsFiniteSet(row(i)) /\ Cardinality(row(i)) = ClusterSize
  <2> DEFINE lo == i * ClusterSize
  <2>1. lo \in Int
    BY <1>1
  <2> HIDE DEF lo
  <2>2. IsFiniteSet(lo .. lo + ClusterSize - 1) /\ Cardinality(lo .. lo + ClusterSize - 1) = ClusterSize
    BY <1>1, <2>1, RowFew
  <2> QED
    BY <2>2 DEF lo
<1>4. /\ IsFiniteSet(row(c) \X row(d))
      /\ Cardinality(row(c) \X row(d)) = ClusterSize * ClusterSize
  <2> HIDE DEF row
  <2> QED
    BY <1>2, <1>3, FS_Product
<1>5. ASSUME NEW q \in Pos, ClusterOf(q) = <<c, d>> PROVE q \in row(c) \X row(d)
  <2>1. q[1] \in Nat /\ q[2] \in Nat /\ q = <<q[1], q[2]>>
    BY HpaAssumption DEF Pos
  <2>2. c = q[1] \div ClusterSize /\ d = q[2] \div ClusterSize
    BY <1>5 DEF ClusterOf
  <2>3. /\ c * ClusterSize <= q[1] /\ q[1] < c * ClusterSize + ClusterSize
        /\ d * ClusterSize <= q[2] /\ q[2] < d * ClusterSize + ClusterSize
    BY <2>1, <2>2, ClusterBounds
  <2>4. q[1] \in row(c) /\ q[2] \in row(d)
    BY <1>1, <1>2, <2>1, <2>3
  <2> QED
    BY <2>1, <2>4
<1>6. Cells(ClusterOf(p)) \subseteq row(c) \X row(d) /\ Cells(ClusterOf(p)) \subseteq Pos
  BY <1>1, <1>5 DEF Cells
<1> HIDE DEF row
<1> QED
  BY <1>4, <1>6, FS_Subset

\* A step can be walked back.
LEMMA StepBack ==
  ASSUME NEW p \in Pos, NEW q \in Pos
  PROVE  /\ Straight(p, q) => Straight(q, p)
         /\ \A a, b : CanStep(p, a, q, b) => CanStep(q, b, p, a)
<1>1. p[1] \in Int /\ p[2] \in Int /\ q[1] \in Int /\ q[2] \in Int
  BY DEF Pos
<1>2. Adjacent(p, q) => Adjacent(q, p)
  BY <1>1 DEF Adjacent, Near
<1> QED
  BY <1>2 DEF Straight, CanStep

\* Links of a cluster are pairs of its places, in both directions.
LEMMA LinksAre ==
  ASSUME NEW k, NEW c
  PROVE  /\ Links(k, c) \in SUBSET (Cells(c) \X Cells(c))
         /\ Links(k, c) \in SUBSET (Pos \X Pos)
         /\ \A s \in Links(k, c) : <<s[2], s[1]>> \in Links(k, c)
<1>1. Links(k, c) \in SUBSET (Cells(c) \X Cells(c))
  BY DEF Links
<1>2. Cells(c) \subseteq Pos
  BY DEF Cells
<1>3. ASSUME NEW s \in Links(k, c) PROVE <<s[2], s[1]>> \in Links(k, c)
  <2>1. /\ s[1] \in Cells(c) /\ s[2] \in Cells(c) /\ CanStep(s[1], k[s[1]], s[2], k[s[2]])
    BY DEF Links
  <2>2. CanStep(s[2], k[s[2]], s[1], k[s[1]])
    BY <1>2, <2>1, StepBack
  <2> QED
    BY <2>1, <2>2 DEF Links
<1> QED
  BY <1>1, <1>2, <1>3

\* Within a cluster there is a distance exactly if there is a way.
LEMMA WayWithin ==
  ASSUME NEW k, NEW a, NEW b, a.at \in Pos, b.at \in Pos, Home(a) = Home(b)
  PROVE  DistanceOf(k, a, b) # NoPath <=> Leads(a.at, b.at, Links(k, Home(a)))
<1> DEFINE links == Links(k, Home(a))
           cells == Cells(Home(a))
           ends == {a.at, b.at}
           p == CHOOSE p \in ends : TRUE
           q == CHOOSE q \in ends : ends = {p, q}
           enough == ClusterSize * ClusterSize
           few == {n \in 0 .. enough : q \notin Spread(p, links)[n]}
<1>1. /\ links \in SUBSET (cells \X cells) /\ links \in SUBSET (Pos \X Pos)
      /\ \A s \in links : <<s[2], s[1]>> \in links
  BY LinksAre
<1>2. /\ cells \in SUBSET Pos /\ IsFiniteSet(cells) /\ Cardinality(cells) <= enough
      /\ a.at \in cells /\ b.at \in cells
  BY CellsFew DEF Home, Cells
<1>3. p \in ends
  OBVIOUS
<1>4. q \in ends /\ ends = {p, q}
  <2> HIDE DEF p
  <2>1. \E r \in ends : ends = {p, r}
    BY <1>3
  <2> QED
    BY <2>1
<1>5. enough \in Nat
  BY HpaAssumption
<1>6. Distance(links, ends) =
        IF q \in Spread(p, links)[enough] THEN Cardinality(few) ELSE NoPath
  BY DEF Distance
<1>7. Cardinality(few) \in Nat
  <2>1. IsFiniteSet(0 .. enough)
    BY <1>5, FS_Interval
  <2> QED
    BY <2>1, FS_Subset, FS_CardinalityType
<1> HIDE DEF links, cells, p, q, enough, few
<1>8. Distance(links, ends) # NoPath <=> q \in Spread(p, links)[enough]
  BY <1>6, <1>7 DEF NoPath
<1>9. q \in Spread(p, links)[enough] <=> Leads(p, q, links)
  BY <1>1, <1>2, <1>4, <1>5, SpreadLeads
<1>10. Leads(p, q, links) <=> Leads(a.at, b.at, links)
  <2>1. (p = a.at /\ q = b.at) \/ (p = b.at /\ q = a.at)
    BY <1>3, <1>4
  <2>2. Leads(a.at, b.at, links) <=> Leads(b.at, a.at, links)
    BY <1>1, LeadsBack
  <2> QED
    BY <2>1, <2>2
<1> QED
  BY <1>8, <1>9, <1>10 DEF DistanceOf, links
-----------------------------------------------------------------------------
(* Borders *)

\* A border is between a cluster and the one on its right, or the one below.
LEMMA BorderIs ==
  ASSUME NEW b \in Borders
  PROVE  \E x, y \in Int : \/ b = <<<<x, y>>, <<x + 1, y>>>>
                           \/ b = <<<<x, y>>, <<x, y + 1>>>>
<1>1. b[1] \in Int \X Int /\ b = <<b[1], b[2]>>
  BY DEF Borders
<1>2. b[2] \in {<<b[1][1] + 1, b[1][2]>>, <<b[1][1], b[1][2] + 1>>}
  BY DEF Borders
<1>3. PICK x, y \in Int : b[1] = <<x, y>>
  BY <1>1
<1>4. b[2] = <<x + 1, y>> \/ b[2] = <<x, y + 1>>
  BY <1>2, <1>3
<1>5. b = <<<<x, y>>, <<x + 1, y>>>> \/ b = <<<<x, y>>, <<x, y + 1>>>>
  BY <1>1, <1>3, <1>4
<1> QED
  BY <1>5

\* addEdges names the border of two tiles that face each other across it.
LEMMA BorderNamed ==
  ASSUME NEW b \in Borders, NEW p \in Pos, NEW q \in Pos, ClusterOf(p) = b[1], ClusterOf(q) = b[2]
  PROVE  BorderOf(p, q) = b /\ BorderOf(q, p) = b /\ b[1] # b[2]
<1>1. PICK x, y \in Int : \/ b = <<<<x, y>>, <<x + 1, y>>>>
                          \/ b = <<<<x, y>>, <<x, y + 1>>>>
  BY BorderIs
<1>2. CASE b = <<<<x, y>>, <<x + 1, y>>>>
  <2>1. ClusterOf(p) = <<x, y>> /\ ClusterOf(q) = <<x + 1, y>>
    BY <1>2
  <2>2. x < x + 1 /\ x + 1 > x /\ ~ (x + 1 < x) /\ (x + 1) - 1 = x
    OBVIOUS
  <2>3. BorderOf(p, q) = b
    BY <1>2, <2>1, <2>2 DEF BorderOf
  <2>4. BorderOf(q, p) = <<<<(x + 1) - 1, y>>, <<x + 1, y>>>>
    BY <2>1, <2>2 DEF BorderOf
  <2> QED
    BY <1>2, <2>2, <2>3, <2>4
<1>3. CASE b = <<<<x, y>>, <<x, y + 1>>>>
  <2>1. ClusterOf(p) = <<x, y>> /\ ClusterOf(q) = <<x, y + 1>>
    BY <1>3
  <2>2. y < y + 1 /\ ~ (y + 1 < y) /\ ~ (x < x) /\ ~ (x > x) /\ (y + 1) - 1 = y
    OBVIOUS
  <2>3. BorderOf(p, q) = b
    BY <1>3, <2>1, <2>2 DEF BorderOf
  <2>4. BorderOf(q, p) = <<<<x, (y + 1) - 1>>, <<x, y + 1>>>>
    BY <2>1, <2>2 DEF BorderOf
  <2> QED
    BY <1>3, <2>2, <2>3, <2>4
<1> QED
  BY <1>1, <1>2, <1>3

\* A step straight ahead into another cluster is a step across a border.
LEMMA BorderCrossed ==
  ASSUME NEW p \in Pos, NEW q \in Pos, Straight(p, q), ClusterOf(p) # ClusterOf(q)
  PROVE  \E b \in Borders : \/ ClusterOf(p) = b[1] /\ ClusterOf(q) = b[2]
                            \/ ClusterOf(q) = b[1] /\ ClusterOf(p) = b[2]
<1> DEFINE X(r) == r[1] \div ClusterSize
           Y(r) == r[2] \div ClusterSize
<1>1. \A r \in Pos : r[1] \in Nat /\ r[2] \in Nat /\ r = <<r[1], r[2]>>
  BY HpaAssumption DEF Pos
<1>2. \A r \in Pos : X(r) \in Nat /\ Y(r) \in Nat
  BY <1>1, ClusterBounds
<1>3. \A r : ClusterOf(r) = <<X(r), Y(r)>>
  BY DEF ClusterOf
<1>4. \/ p[1] = q[1] /\ (q[2] = p[2] + 1 \/ p[2] = q[2] + 1)
      \/ p[2] = q[2] /\ (q[1] = p[1] + 1 \/ p[1] = q[1] + 1)
  <2>1. p # q => p[1] # q[1] \/ p[2] # q[2]
    BY <1>1
  <2> QED
    BY <1>1, <2>1 DEF Straight, Adjacent, Near
<1>5. \/ X(p) = X(q) /\ Y(q) \in {Y(p), Y(p) + 1}
      \/ X(p) = X(q) /\ Y(p) \in {Y(q), Y(q) + 1}
      \/ Y(p) = Y(q) /\ X(q) \in {X(p), X(p) + 1}
      \/ Y(p) = Y(q) /\ X(p) \in {X(q), X(q) + 1}
  BY <1>1, <1>4, ClusterNext
<1> HIDE DEF X, Y
<1>6. \/ X(p) = X(q) /\ Y(q) = Y(p) + 1
      \/ X(p) = X(q) /\ Y(p) = Y(q) + 1
      \/ Y(p) = Y(q) /\ X(q) = X(p) + 1
      \/ Y(p) = Y(q) /\ X(p) = X(q) + 1
  BY <1>3, <1>5
<1>7. ASSUME NEW c \in Int \X Int, NEW d \in Int \X Int,
             d = <<c[1] + 1, c[2]>> \/ d = <<c[1], c[2] + 1>>
      PROVE  <<c, d>> \in Borders
  BY <1>7 DEF Borders
<1>8. ClusterOf(p) \in Int \X Int /\ ClusterOf(q) \in Int \X Int
  BY ClusterType
<1>9. <<ClusterOf(p), ClusterOf(q)>> \in Borders \/ <<ClusterOf(q), ClusterOf(p)>> \in Borders
  BY <1>3, <1>6, <1>7, <1>8
<1> QED
  BY <1>9

\* The pairs that face each other across a border are in line.
LEMMA FacingLine ==
  ASSUME NEW k, NEW b \in Borders, NEW s \in Facing(k, b)
  PROVE  /\ s[1] \in Pos /\ s[2] \in Pos /\ ClusterOf(s[1]) = b[1] /\ ClusterOf(s[2]) = b[2]
         /\ Straight(s[1], s[2]) /\ k[s[1]] \in Open /\ k[s[2]] \in Open
         /\ Along(b, s) \in Nat /\ Along(b, s) <= Width + Height /\ s = <<s[1], s[2]>>
         /\ b[1][2] = b[2][2] =>
              /\ s[1] = <<(b[1][1] + 1) * ClusterSize - 1, Along(b, s)>>
              /\ s[2] = <<(b[1][1] + 1) * ClusterSize, Along(b, s)>>
         /\ b[1][2] # b[2][2] =>
              /\ s[1] = <<Along(b, s), (b[1][2] + 1) * ClusterSize - 1>>
              /\ s[2] = <<Along(b, s), (b[1][2] + 1) * ClusterSize>>
<1>1. /\ s \in Cells(b[1]) \X Cells(b[2])
      /\ Straight(s[1], s[2]) /\ k[s[1]] \in Open /\ k[s[2]] \in Open
  BY DEF Facing
<1>2. s[1] \in Pos /\ s[2] \in Pos /\ ClusterOf(s[1]) = b[1] /\ ClusterOf(s[2]) = b[2]
  BY <1>1 DEF Cells
<1>3. PICK x1, y1 \in Nat : s[1] = <<x1, y1>> /\ x1 < Width /\ y1 < Height
  BY <1>2, HpaAssumption DEF Pos
<1>4. PICK x2, y2 \in Nat : s[2] = <<x2, y2>> /\ x2 < Width /\ y2 < Height
  BY <1>2, HpaAssumption DEF Pos
<1>5. /\ b[1] = <<x1 \div ClusterSize, y1 \div ClusterSize>>
      /\ b[2] = <<x2 \div ClusterSize, y2 \div ClusterSize>>
  BY <1>2, <1>3, <1>4 DEF ClusterOf
<1>6. PICK x, y \in Int : \/ b = <<<<x, y>>, <<x + 1, y>>>>
                          \/ b = <<<<x, y>>, <<x, y + 1>>>>
  BY BorderIs
<1>7. x1 - x2 \in -1 .. 1 /\ y1 - y2 \in -1 .. 1 /\ (x1 = x2 \/ y1 = y2)
  BY <1>1, <1>3, <1>4 DEF Straight, Adjacent, Near
<1>8. ClusterSize \in Nat \ {0} /\ Width \in Nat /\ Height \in Nat
  BY HpaAssumption
<1>9. CASE b = <<<<x, y>>, <<x + 1, y>>>>
  <2>1. x1 \div ClusterSize = x /\ x2 \div ClusterSize = x + 1
    BY <1>5, <1>9
  <2>2. x1 < x * ClusterSize + ClusterSize /\ (x + 1) * ClusterSize <= x2
    BY <2>1, ClusterBounds
  <2>3. (x + 1) * ClusterSize = x * ClusterSize + ClusterSize /\ x * ClusterSize \in Int
    BY <1>8
  <2>4. x2 = (x + 1) * ClusterSize /\ x1 = (x + 1) * ClusterSize - 1 /\ y1 = y2
    BY <1>7, <1>8, <2>2, <2>3
  <2>5. b[1][2] = b[2][2] /\ b[1][1] = x /\ Along(b, s) = y1
    BY <1>3, <1>9 DEF Along
  <2>6. y1 <= Width + Height
    BY <1>3, <1>8
  <2> QED
    BY <1>1, <1>2, <1>3, <1>4, <2>4, <2>5, <2>6
<1>10. CASE b = <<<<x, y>>, <<x, y + 1>>>>
  <2>1. y1 \div ClusterSize = y /\ y2 \div ClusterSize = y + 1
    BY <1>5, <1>10
  <2>2. y1 < y * ClusterSize + ClusterSize /\ (y + 1) * ClusterSize <= y2
    BY <2>1, ClusterBounds
  <2>3. (y + 1) * ClusterSize = y * ClusterSize + ClusterSize /\ y * ClusterSize \in Int
    BY <1>8
  <2>4. y2 = (y + 1) * ClusterSize /\ y1 = (y + 1) * ClusterSize - 1 /\ x1 = x2
    BY <1>7, <1>8, <2>2, <2>3
  <2>5. b[1][2] # b[2][2] /\ b[1][2] = y /\ Along(b, s) = x1
    BY <1>3, <1>10 DEF Along
  <2>6. x1 <= Width + Height
    BY <1>3, <1>8
  <2> QED
    BY <1>1, <1>2, <1>3, <1>4, <2>4, <2>5, <2>6
<1> QED
  BY <1>6, <1>9, <1>10

\* Where there is one of them it is the only one; the next one is a step away on
\* either side.
LEMMA FacingNext ==
  ASSUME NEW k, NEW b \in Borders, NEW s \in Facing(k, b), NEW t \in Facing(k, b)
  PROVE  /\ Along(b, t) = Along(b, s) => t = s
         /\ Along(b, t) = Along(b, s) + 1 =>
              <<s[1], t[1]>> \in Links(k, b[1]) /\ <<s[2], t[2]>> \in Links(k, b[2])
<1> DEFINE i == Along(b, s)
           j == Along(b, t)
<1>1. /\ s[1] \in Pos /\ s[2] \in Pos /\ ClusterOf(s[1]) = b[1] /\ ClusterOf(s[2]) = b[2]
      /\ k[s[1]] \in Open /\ k[s[2]] \in Open
      /\ i \in Nat /\ s = <<s[1], s[2]>>
  BY FacingLine
<1>2. /\ t[1] \in Pos /\ t[2] \in Pos /\ ClusterOf(t[1]) = b[1] /\ ClusterOf(t[2]) = b[2]
      /\ k[t[1]] \in Open /\ k[t[2]] \in Open
      /\ j \in Nat /\ t = <<t[1], t[2]>>
  BY FacingLine
<1>3. \E v, w \in Int : \/ /\ s[1] = <<v, i>> /\ t[1] = <<v, j>>
                           /\ s[2] = <<w, i>> /\ t[2] = <<w, j>>
                        \/ /\ s[1] = <<i, v>> /\ t[1] = <<j, v>>
                           /\ s[2] = <<i, w>> /\ t[2] = <<j, w>>
  <2>0. PICK x, y \in Int : b[1] = <<x, y>>
    BY BorderIs
  <2>1. CASE b[1][2] = b[2][2]
    <3> DEFINE v == (x + 1) * ClusterSize - 1
               w == (x + 1) * ClusterSize
    <3>1. v \in Int /\ w \in Int
      BY HpaAssumption
    <3>2. /\ s[1] = <<v, i>> /\ t[1] = <<v, j>>
          /\ s[2] = <<w, i>> /\ t[2] = <<w, j>>
      BY <2>0, <2>1, FacingLine
    <3> QED
      BY <3>1, <3>2
  <2>2. CASE b[1][2] # b[2][2]
    <3> DEFINE v == (y + 1) * ClusterSize - 1
               w == (y + 1) * ClusterSize
    <3>1. v \in Int /\ w \in Int
      BY HpaAssumption
    <3>2. /\ s[1] = <<i, v>> /\ t[1] = <<j, v>>
          /\ s[2] = <<i, w>> /\ t[2] = <<j, w>>
      BY <2>0, <2>2, FacingLine
    <3> QED
      BY <3>1, <3>2
  <2> QED
    BY <2>1, <2>2
<1> HIDE DEF i, j
<1>4. j = i => t = s
  BY <1>1, <1>2, <1>3
<1>5. ASSUME j = i + 1 PROVE Straight(s[1], t[1]) /\ Straight(s[2], t[2])
  BY <1>1, <1>3, <1>5 DEF Straight, Adjacent, Near
<1>6. j = i + 1 => <<s[1], t[1]>> \in Links(k, b[1]) /\ <<s[2], t[2]>> \in Links(k, b[2])
  BY <1>1, <1>2, <1>5 DEF Links, Cells, CanStep
<1> QED
  BY <1>4, <1>6 DEF i, j
\* Everywhere from lo to hi two open tiles face each other.
Opened(k, b, lo, hi) == \A i \in lo .. hi : \E s \in Facing(k, b) : Along(b, s) = i

\* Between two ends of an opening one can walk along either side of it.
LEMMA WalkAlong ==
  ASSUME NEW k, NEW b \in Borders, NEW lo \in Nat, NEW hi \in Nat, Opened(k, b, lo, hi),
         NEW s \in Facing(k, b), Along(b, s) \in lo .. hi,
         NEW t \in Facing(k, b), Along(b, t) \in lo .. hi
  PROVE  Leads(s[1], t[1], Links(k, b[1])) /\ Leads(s[2], t[2], Links(k, b[2]))
<1>0. \A x, y \in Facing(k, b) : Along(b, x) = Along(b, y) => x = y
  BY FacingNext
<1> DEFINE here == Links(k, b[1])
           there == Links(k, b[2])
<1>1. lo <= hi
  OBVIOUS
<1>2. PICK o \in Facing(k, b) : Along(b, o) = lo
  BY <1>1 DEF Opened
<1> DEFINE To(r) == Leads(o[1], r[1], here) /\ Leads(o[2], r[2], there)
           T == {n \in Nat : lo + n <= hi => \A r \in Facing(k, b) : Along(b, r) = lo + n => To(r)}
<1>3. 0 \in T
  <2> SUFFICES ASSUME NEW r \in Facing(k, b), Along(b, r) = lo + 0 PROVE To(r)
    OBVIOUS
  <2>1. Along(b, r) = Along(b, o)
    BY <1>2
  <2>2. Along(b, r) = Along(b, o) => r = o
    BY <1>0
  <2>3. r = o
    BY <2>1, <2>2
  <2> QED
    BY <2>3 DEF Leads
<1>4. ASSUME NEW n \in T PROVE n + 1 \in T
  <2> SUFFICES ASSUME lo + (n + 1) <= hi, NEW r \in Facing(k, b), Along(b, r) = lo + (n + 1)
               PROVE  To(r)
    OBVIOUS
  <2>1. n \in Nat /\ lo + n \in lo .. hi /\ (lo + n) + 1 = lo + (n + 1)
    OBVIOUS
  <2>2. PICK q \in Facing(k, b) : Along(b, q) = lo + n
    BY <2>1 DEF Opened
  <2>3. To(q)
    BY <2>1, <2>2
  <2>4. <<q[1], r[1]>> \in here /\ <<q[2], r[2]>> \in there
    BY <2>1, <2>2, FacingNext
  <2> HIDE DEF here, there
  <2> QED
    BY <2>3, <2>4, LeadsStep
<1>5. T \in SUBSET Nat
  OBVIOUS
<1> HIDE DEF T
<1>6. T = Nat
  BY <1>3, <1>4, <1>5, AllNumbers
<1>7. ASSUME NEW r \in Facing(k, b), Along(b, r) \in lo .. hi PROVE To(r)
  <2>1. Along(b, r) - lo \in Nat /\ lo + (Along(b, r) - lo) = Along(b, r) /\ Along(b, r) <= hi
    BY <1>7
  <2> HIDE DEF To
  <2> QED
    BY <1>6, <2>1 DEF T
<1>8. To(s) /\ To(t)
  BY <1>7
<1>9. \A c : /\ Links(k, c) \in SUBSET (Pos \X Pos)
             /\ \A x \in Links(k, c) : <<x[2], x[1]>> \in Links(k, c)
  BY LinksAre
<1>10. s[1] \in Pos /\ s[2] \in Pos /\ o[1] \in Pos /\ o[2] \in Pos
  BY FacingLine
<1>11. Leads(s[1], o[1], here) /\ Leads(s[2], o[2], there)
  <2> HIDE DEF here, there
  <2>1. /\ here \in SUBSET (Pos \X Pos) /\ \A x \in here : <<x[2], x[1]>> \in here
        /\ there \in SUBSET (Pos \X Pos) /\ \A x \in there : <<x[2], x[1]>> \in there
    BY <1>9 DEF here, there
  <2> QED
    BY <1>8, <1>10, <2>1, LeadsBack
<1> HIDE DEF here, there
<1>12. Leads(s[1], t[1], here) /\ Leads(s[2], t[2], there)
  BY <1>8, <1>11, LeadsFar
<1> QED
  BY <1>12 DEF here, there

\* From wherever one can cross a border, an entrance that is kept can be walked to
\* within the cluster, on either side.
LEMMA EntranceNear ==
  ASSUME NEW k, NEW b \in Borders, NEW s \in Facing(k, b)
  PROVE  \E t \in Entrances(k, b) :
           Leads(s[1], t[1], Links(k, b[1])) /\ Leads(s[2], t[2], Links(k, b[2]))
<1> DEFINE open == {Along(b, r) : r \in Facing(k, b)}
           j == Along(b, s)
           Opening(lo, hi) == lo .. hi \subseteq open /\ lo - 1 \notin open /\ hi + 1 \notin open
           Chosen(i) == \E lo, hi \in open :
                          /\ lo <= i /\ i <= hi /\ Opening(lo, hi)
                          /\ IF hi - lo + 1 > MaxEntranceWidth THEN i \in {lo, hi}
                             ELSE i = (lo + hi) \div 2
<1>1. \A i \in open : i \in Nat /\ i <= Width + Height
  BY FacingLine
<1>2. j \in open
  OBVIOUS
<1>3. Entrances(k, b) = {r \in Facing(k, b) : Chosen(Along(b, r))}
  BY DEF Entrances
<1>4. \A i \in open : \E r \in Facing(k, b) : Along(b, r) = i
  OBVIOUS
<1> HIDE DEF open, j
<1>5. PICK hi \in Nat : j <= hi /\ hi + 1 \notin open /\ j .. hi \subseteq open
  <2> DEFINE H == {h \in Nat : j <= h /\ h + 1 \notin open}
  <2>1. Width + Height \in H
    BY <1>1, <1>2, HpaAssumption
  <2>2. PICK h \in H : \A i \in H : h <= i
    BY <2>1, HasLeast
  <2>3. ASSUME NEW i \in j .. h PROVE i \in open
    <3>1. CASE i = j
      BY <1>2, <3>1
    <3>2. CASE i # j
      <4>1. i - 1 \in Nat /\ j <= i - 1 /\ i - 1 < h /\ (i - 1) + 1 = i
        BY <1>1, <1>2, <3>2
      <4>2. i - 1 \notin H
        BY <2>2, <4>1
      <4> QED
        BY <4>1, <4>2
    <3> QED
      BY <3>1, <3>2
  <2> QED
    BY <2>2, <2>3
<1>6. PICK lo \in Nat : lo <= j /\ lo - 1 \notin open /\ lo .. j \subseteq open
  <2> DEFINE L == {l \in Nat : l <= j /\ l .. j \subseteq open}
  <2>1. j \in L
    BY <1>1, <1>2
  <2>2. PICK l \in L : \A i \in L : l <= i
    BY <2>1, HasLeast
  <2>3. ASSUME l - 1 \in open PROVE FALSE
    <3>1. l - 1 \in Nat /\ l - 1 <= j
      BY <1>1, <1>2, <2>3
    <3>2. \A i \in l - 1 .. j : i = l - 1 \/ i \in l .. j
      BY <1>1, <1>2, <3>1
    <3>3. l - 1 .. j \subseteq open
      BY <2>3, <3>2
    <3>4. l - 1 \in L
      BY <3>1, <3>3
    <3> QED
      BY <2>2, <3>1, <3>4
  <2> QED
    BY <2>2, <2>3
<1>7. j \in Nat /\ MaxEntranceWidth \in Nat
  BY <1>1, <1>2, HpaAssumption
<1>8. \A i \in lo .. hi : i \in lo .. j \/ i \in j .. hi
  BY <1>5, <1>6, <1>7
<1>9. lo .. hi \subseteq open /\ lo \in open /\ hi \in open /\ lo <= hi
  BY <1>5, <1>6, <1>7, <1>8
<1> DEFINE i == IF hi - lo + 1 > MaxEntranceWidth THEN lo ELSE (lo + hi) \div 2
<1>10. i \in lo .. hi
  BY <1>5, <1>6, <1>9
<1>11. Chosen(i)
  <2>1. Opening(lo, hi)
    BY <1>5, <1>6, <1>9
  <2>2. IF hi - lo + 1 > MaxEntranceWidth THEN i \in {lo, hi} ELSE i = (lo + hi) \div 2
    OBVIOUS
  <2>3. lo <= i /\ i <= hi
    BY <1>10
  <2> HIDE DEF Opening, i
  <2> QED
    BY <1>9, <2>1, <2>2, <2>3
<1> HIDE DEF i, Chosen
<1>12. PICK t \in Facing(k, b) : Along(b, t) = i
  BY <1>4, <1>9, <1>10
<1>13. t \in Entrances(k, b)
  BY <1>3, <1>11, <1>12
<1>14. Opened(k, b, lo, hi)
  BY <1>4, <1>9 DEF Opened
<1>15. Along(b, s) \in lo .. hi /\ Along(b, t) \in lo .. hi
  BY <1>5, <1>6, <1>7, <1>10, <1>12 DEF j
<1>16. Leads(s[1], t[1], Links(k, b[1])) /\ Leads(s[2], t[2], Links(k, b[2]))
  BY <1>14, <1>15, WalkAlong
<1> QED
  BY <1>13, <1>16
-----------------------------------------------------------------------------
(* What joins the graph to the tiles *)

\* KnownSteps, when the tiles are k.
Steps(k) ==
  {s \in Pos \X Pos : /\ CanStep(s[1], k[s[1]], s[2], k[s[2]])
                      /\ (ClusterOf(s[1]) = ClusterOf(s[2]) \/ Straight(s[1], s[2]))}

\* Every edge stands for a way.
Sound(es, k) == \A e \in es : Leads(e.from.at, e.to.at, Steps(k))

\* Every entrance is there: two nodes of its border, joined by an edge.
Served(es, ns, k) ==
  \A b \in Borders : \A s \in Entrances(k, b) :
    \E e \in es : /\ e.from \in ns /\ e.to \in ns /\ e.from.of = b /\ e.to.of = b
                  /\ e.from.at = s[1] /\ e.to.at = s[2]

\* The graph is finite, the search's own nodes are in their clusters, and as long as
\* no open tile was blocked the edges are sound and every entrance is served.
Routed ==
  /\ IsFiniteSet(nodes)
  /\ Temps \subseteq live
  /\ ~ obstructed => Sound(edges, kind) /\ Served(edges, live, kind)

\* KnownSteps are pairs of places, in both directions, with the links of each cluster.
LEMMA StepsAre ==
  ASSUME NEW k
  PROVE  /\ Steps(k) \in SUBSET (Pos \X Pos)
         /\ \A s \in Steps(k) : <<s[2], s[1]>> \in Steps(k)
         /\ \A c : Links(k, c) \subseteq Steps(k)
<1>1. Steps(k) \in SUBSET (Pos \X Pos)
  BY DEF Steps
<1>2. ASSUME NEW s \in Steps(k) PROVE <<s[2], s[1]>> \in Steps(k)
  <2>1. /\ s[1] \in Pos /\ s[2] \in Pos /\ CanStep(s[1], k[s[1]], s[2], k[s[2]])
        /\ (ClusterOf(s[1]) = ClusterOf(s[2]) \/ Straight(s[1], s[2]))
    BY DEF Steps
  <2>2. CanStep(s[2], k[s[2]], s[1], k[s[1]]) /\ (Straight(s[1], s[2]) => Straight(s[2], s[1]))
    BY <2>1, StepBack
  <2> QED
    BY <2>1, <2>2 DEF Steps
<1>3. \A c : Links(k, c) \subseteq Steps(k)
  BY DEF Links, Steps, Cells
<1> QED
  BY <1>1, <1>2, <1>3

\* Two places that face each other across a border are a step apart.
LEMMA FacingStep ==
  ASSUME NEW k, NEW b \in Borders, NEW s \in Facing(k, b)
  PROVE  <<s[1], s[2]>> \in Steps(k) /\ <<s[2], s[1]>> \in Steps(k)
<1>1. /\ s[1] \in Pos /\ s[2] \in Pos /\ Straight(s[1], s[2])
      /\ k[s[1]] \in Open /\ k[s[2]] \in Open
  BY FacingLine
<1>2. <<s[1], s[2]>> \in Steps(k)
  BY <1>1 DEF Steps, CanStep
<1> QED
  BY <1>2, StepsAre

\* An edge within a cluster, that holds what the distance is, stands for a way.
LEMMA EdgeWithin ==
  ASSUME NEW es, NEW ns, NEW k, Holds(es, ns, k),
         NEW e \in es, e.from \in ns, e.to \in ns, Home(e.from) = Home(e.to), e.cost # NoPath,
         e.from.at \in Pos, e.to.at \in Pos
  PROVE  Leads(e.from.at, e.to.at, Steps(k))
<1>1. DistanceOf(k, e.from, e.to) # NoPath
  BY DEF Holds
<1>2. Leads(e.from.at, e.to.at, Links(k, Home(e.from)))
  BY <1>1, WayWithin
<1> QED
  BY <1>2, StepsAre, LeadsOn

-----------------------------------------------------------------------------
(* An update keeps them joined *)

\* A tile that shows as open was seen in this batch, or was known to be open.
LEMMA OpenAfter ==
  ASSUME NEW obs \in Observations, kind \in [Pos -> Kinds], NEW p \in Pos
  PROVE  /\ p \in Changed(obs) => After(obs)[p] = obs[p]
         /\ p \notin Changed(obs) => After(obs)[p] = kind[p]
BY DEF After, Changed

\* The later of two tiles that now face each other sees the earlier one.
LEMMA OpeningSeen ==
  ASSUME NEW obs \in Observations, kind \in [Pos -> Kinds],
         NEW p \in Changed(obs), NEW q \in Pos, Straight(p, q), ClusterOf(p) # ClusterOf(q),
         After(obs)[p] \in Open, After(obs)[q] \in Open,
         q \notin Changed(obs) \/ q[1] < p[1] \/ (q[1] = p[1] /\ q[2] < p[2])
  PROVE  BorderOf(p, q) \in Batch(obs).reopened
<1>1. p \in Pos
  BY DEF Changed
<1>2. obs[p] \in Open
  BY <1>1, OpenAfter
<1>3. KnownOf(q, p, obs) = After(obs)[q]
  BY <1>1, OpenAfter DEF KnownOf
<1>4. CanStep(p, obs[p], q, KnownOf(q, p, obs)) /\ Adjacent(p, q)
  BY <1>2, <1>3 DEF CanStep, Straight
<1>5. <<p, q>> \in Openings(obs)
  BY <1>4 DEF Openings
<1> QED
  BY <1>5 DEF Batch

\* Where no open tile was blocked, a border that is not made anew is what it was.
LEMMA FacingStays ==
  ASSUME NEW obs \in Observations, kind \in [Pos -> Kinds],
         \A p \in Changed(obs) : kind[p] \notin Open,
         NEW b \in Borders, b \notin Batch(obs).reopened
  PROVE  Facing(After(obs), b) = Facing(kind, b)
<1>1. ASSUME NEW s \in Facing(kind, b) PROVE s \in Facing(After(obs), b)
  <2>1. s[1] \in Pos /\ s[2] \in Pos /\ kind[s[1]] \in Open /\ kind[s[2]] \in Open
    BY FacingLine
  <2>2. After(obs)[s[1]] = kind[s[1]] /\ After(obs)[s[2]] = kind[s[2]]
    BY <2>1, OpenAfter
  <2> QED
    BY <2>1, <2>2 DEF Facing
<1>2. ASSUME NEW s \in Facing(After(obs), b), s \notin Facing(kind, b) PROVE FALSE
  <2> DEFINE p == s[1]
             q == s[2]
  <2>1. /\ p \in Pos /\ q \in Pos /\ ClusterOf(p) = b[1] /\ ClusterOf(q) = b[2]
        /\ Straight(p, q) /\ After(obs)[p] \in Open /\ After(obs)[q] \in Open
    BY FacingLine
  <2>2. Straight(q, p)
    BY <2>1, StepBack
  <2>3. BorderOf(p, q) = b /\ BorderOf(q, p) = b /\ ClusterOf(p) # ClusterOf(q)
    BY <2>1, BorderNamed
  <2>4. kind[p] \notin Open \/ kind[q] \notin Open
    BY <1>2, <2>1 DEF Facing
  <2>5. p \in Changed(obs) \/ q \in Changed(obs)
    BY <2>1, <2>4, OpenAfter
  <2>6. \/ q[1] < p[1] \/ (q[1] = p[1] /\ q[2] < p[2])
        \/ p[1] < q[1] \/ (q[1] = p[1] /\ p[2] < q[2])
    <3>1. p[1] \in Int /\ p[2] \in Int /\ q[1] \in Int /\ q[2] \in Int /\ p = <<p[1], p[2]>> /\ q = <<q[1], q[2]>>
      BY <2>1 DEF Pos
    <3>2. p # q
      BY <2>3
    <3> QED
      BY <3>1, <3>2
  <2> HIDE DEF p, q
  <2>7. CASE p \in Changed(obs) /\ (q \notin Changed(obs) \/ q[1] < p[1] \/ (q[1] = p[1] /\ q[2] < p[2]))
    BY <2>1, <2>3, <2>7, OpeningSeen
  <2>8. CASE q \in Changed(obs) /\ (p \notin Changed(obs) \/ p[1] < q[1] \/ (p[1] = q[1] /\ p[2] < q[2]))
    BY <2>1, <2>2, <2>3, <2>8, OpeningSeen
  <2> QED
    BY <2>5, <2>6, <2>7, <2>8
<1>3. \A s \in Facing(kind, b) : s \in Facing(After(obs), b)
  BY <1>1
<1>4. \A s \in Facing(After(obs), b) : s \in Facing(kind, b)
  BY <1>2
<1> QED
  BY <1>3, <1>4

\* The entrances follow from the pairs that face each other.
LEMMA EntrancesOf ==
  ASSUME NEW k, NEW m, NEW b, Facing(k, b) = Facing(m, b)
  PROVE  Entrances(k, b) = Entrances(m, b)
BY DEF Entrances
\* Finitely many nodes are made.
LEMMA ImageFinite ==
  ASSUME NEW S, IsFiniteSet(S), NEW f, DOMAIN f = S, f = [x \in S |-> f[x]]
  PROVE  IsFiniteSet({f[x] : x \in S})
<1> DEFINE T == {f[x] : x \in S}
<1>1. f \in [S -> T]
  OBVIOUS
<1>2. \A y \in T : \E x \in S : f[x] = y
  OBVIOUS
<1> HIDE DEF T
<1>3. f \in Surjection(S, T)
  BY <1>1, <1>2 DEF Surjection
<1>4. IsFiniteSet(T)
  BY <1>3, FS_Surjection
<1> QED
  BY <1>4 DEF T

\* An update makes finitely many nodes.
LEMMA MadeFinite ==
  ASSUME NEW obs \in Observations, kind \in [Pos -> Kinds], NEW u, u = Batch(obs),
         updates \in Nat, updates < MaxUpdates
  PROVE  IsFiniteSet(Made(u))
<1> DEFINE f == [s \in Openings(obs) |-> BorderOf(s[1], s[2])]
           g == [x \in Pos \X u.reopened |-> [at |-> x[1], of |-> x[2], made |-> updates + 1]]
<1>1. IsFiniteSet(Pos \X Pos)
  BY PosFew, FS_Product
<1>2. Openings(obs) \in SUBSET (Pos \X Pos)
  BY DEF Openings, Changed
<1>3. IsFiniteSet(Openings(obs))
  BY <1>1, <1>2, FS_Subset
<1>4. u.reopened = {f[s] : s \in Openings(obs)}
  BY DEF Batch
<1>5. IsFiniteSet({f[s] : s \in Openings(obs)})
  <2>1. DOMAIN f = Openings(obs) /\ f = [s \in Openings(obs) |-> f[s]]
    OBVIOUS
  <2> HIDE DEF f
  <2> QED
    BY <1>3, <2>1, ImageFinite
<1>6. IsFiniteSet(Pos \X u.reopened)
  BY <1>4, <1>5, PosFew, FS_Product
<1> DEFINE X == Pos \X u.reopened
<1>7. IsFiniteSet({g[x] : x \in X})
  <2>1. DOMAIN g = X /\ g = [x \in X |-> g[x]] /\ IsFiniteSet(X)
    BY <1>6
  <2> HIDE DEF g, X
  <2> QED
    BY <2>1, ImageFinite
<1>8. ASSUME NEW n \in Made(u) PROVE n \in {g[x] : x \in Pos \X u.reopened}
  <2>1. u.reopened \subseteq Borders
    BY BatchIs
  <2>2. n \in Nodes /\ n.made = updates + 1 /\ n.of \in u.reopened
    BY <2>1, MadeAre
  <2>3. n = [at |-> n.at, of |-> n.of, made |-> updates + 1] /\ n.at \in Pos
    BY <2>2 DEF Nodes
  <2>4. <<n.at, n.of>> \in Pos \X u.reopened /\ g[<<n.at, n.of>>] = n
    BY <2>2, <2>3
  <2> QED
    BY <2>4
<1> HIDE DEF g
<1> QED
  BY <1>7, <1>8, FS_Subset

\* The new edges across a border are those of its entrances, both ways.
LEMMA CrossingsServe ==
  ASSUME NEW u
  PROVE  /\ \A e \in BothWays(Crossings(u)) : \E b \in u.reopened : \E s \in Entrances(u.tiles, b) :
              \/ e.from.at = s[1] /\ e.to.at = s[2]
              \/ e.from.at = s[2] /\ e.to.at = s[1]
         /\ \A b \in u.reopened : \A s \in Entrances(u.tiles, b) : \E e \in BothWays(Crossings(u)) :
              e.from.of = b /\ e.to.of = b /\ e.from.at = s[1] /\ e.to.at = s[2]
<1> DEFINE New(p, b) == [at |-> p, of |-> b, made |-> updates + 1]
           both == BothWays(Crossings(u))
<1>1. \A a, b, c : Edge(a, b, c).from = a /\ Edge(a, b, c).to = b /\ Edge(a, b, c).cost = c
  BY DEF Edge
<1>2. both = Crossings(u) \cup {Edge(e.to, e.from, e.cost) : e \in Crossings(u)}
  BY DEF BothWays
<1>3. \A e \in Crossings(u) : \E b \in u.reopened : \E s \in Entrances(u.tiles, b) :
        e = Edge(New(s[1], b), New(s[2], b), 1)
  BY DEF Crossings
<1>4. ASSUME NEW b \in u.reopened, NEW s \in Entrances(u.tiles, b)
      PROVE  Edge(New(s[1], b), New(s[2], b), 1) \in Crossings(u)
  <2> DEFINE of(c) == {Edge(New(r[1], c), New(r[2], c), 1) : r \in Entrances(u.tiles, c)}
  <2>1. Crossings(u) = UNION {of(c) : c \in u.reopened}
    BY DEF Crossings
  <2>2. Edge(New(s[1], b), New(s[2], b), 1) \in of(b)
    OBVIOUS
  <2> HIDE DEF of
  <2> QED
    BY <2>1, <2>2
<1>5. \A p, b : New(p, b).at = p /\ New(p, b).of = b
  OBVIOUS
<1> HIDE DEF New
<1>6. ASSUME NEW e \in Crossings(u)
      PROVE  \E b \in u.reopened : \E s \in Entrances(u.tiles, b) : e.from.at = s[1] /\ e.to.at = s[2]
  BY <1>1, <1>3, <1>5
<1>7. ASSUME NEW e \in both
      PROVE  \E b \in u.reopened : \E s \in Entrances(u.tiles, b) :
               \/ e.from.at = s[1] /\ e.to.at = s[2]
               \/ e.from.at = s[2] /\ e.to.at = s[1]
  <2>1. CASE e \in Crossings(u)
    BY <1>6, <2>1
  <2>2. CASE e \notin Crossings(u)
    <3>1. PICK d \in Crossings(u) : e = Edge(d.to, d.from, d.cost)
      BY <1>2, <2>2
    <3>2. e.from = d.to /\ e.to = d.from
      BY <1>1, <3>1
    <3> QED
      BY <1>6, <3>2
  <2> QED
    BY <2>1, <2>2
<1>8. ASSUME NEW b \in u.reopened, NEW s \in Entrances(u.tiles, b)
      PROVE  \E e \in both : e.from.of = b /\ e.to.of = b /\ e.from.at = s[1] /\ e.to.at = s[2]
  BY <1>1, <1>2, <1>4, <1>5
<1> QED
  BY <1>7, <1>8

\* An update keeps the edges sound and the entrances served;
LEMMA UpdateRouted ==
  ASSUME IInv, IInv', Routed, NEW obs \in Observations, Update(obs) PROVE Routed'
<1> DEFINE u == Batch(obs)
           both == BothWays(Crossings(u))
<1>1. /\ pc = "idle" /\ updates < MaxUpdates /\ Rebuild(u)
      /\ obstructed' = (obstructed \/ \E p \in Changed(obs) : kind[p] \in Open)
      /\ UNCHANGED <<pc, from, to>>
  BY DEF Update
<1>2. TypeOK /\ MapInv /\ kind \in [Pos -> Kinds] /\ updates \in Nat
  BY HpaAssumption DEF IInv, TypeOK
<1>3. /\ kind' = u.tiles /\ nodes' = (nodes \ Lone(u)) \cup Made(u)
      /\ live' = LiveAfter(u) /\ edges' = EdgesAfter(u)
  BY <1>1 DEF Rebuild
<1>4. u.tiles = After(obs) /\ u.reopened \subseteq Borders
  BY <1>2, BatchIs DEF Batch
<1>5. IsFiniteSet(nodes')
  <2>1. IsFiniteSet(Made(u))
    BY <1>1, <1>2, MadeFinite
  <2>2. IsFiniteSet(nodes \ Lone(u))
    BY FS_Difference DEF Routed
  <2> QED
    BY <1>3, <2>1, <2>2, FS_Union
<1>6. Temps' \subseteq live'
  BY <1>1 DEF Temps
<1> SUFFICES ASSUME ~ obstructed' PROVE Sound(edges', kind') /\ Served(edges', live', kind')
  BY <1>5, <1>6 DEF Routed
<1>7. /\ \A p \in Changed(obs) : kind[p] \notin Open
      /\ Sound(edges, kind) /\ Served(edges, live, kind)
  BY <1>1 DEF Routed
<1>8. Steps(kind) \subseteq Steps(kind')
  <2>1. ASSUME NEW p \in Pos, kind[p] \in Open PROVE kind'[p] = kind[p]
    BY <1>2, <1>3, <1>4, <1>7, <2>1, OpenAfter
  <2> QED
    BY <2>1 DEF Steps, CanStep
<1>9. both = BothWays(Crossings(u)) /\ both \subseteq edges'
  BY <1>3 DEF EdgesAfter
<1>10. \A e \in both : e.from \in live' /\ e.to \in live'
  BY <1>1, <1>2, <1>3, <1>4, MadeAre DEF LiveAfter
<1> HIDE DEF u, both
<1>11. ASSUME NEW e \in edges' PROVE Leads(e.from.at, e.to.at, Steps(kind'))
  <2>1. \/ e \in KeptEdges(u) \/ e \in both
        \/ e.cost # NoPath /\ <<e.from, e.to>> \in Mates(u)
    BY <1>3, <1>9 DEF EdgesAfter
  <2>2. CASE e \in KeptEdges(u)
    <3>1. Leads(e.from.at, e.to.at, Steps(kind))
      BY <1>7, <2>2 DEF KeptEdges, Sound
    <3> QED
      BY <1>8, <3>1, LeadsOn
  <2>3. CASE e \in both
    <3>1. PICK b \in u.reopened : \E s \in Entrances(u.tiles, b) :
                 \/ e.from.at = s[1] /\ e.to.at = s[2]
                 \/ e.from.at = s[2] /\ e.to.at = s[1]
      BY <1>9, <2>3, CrossingsServe
    <3>2. PICK s \in Entrances(u.tiles, b) : \/ e.from.at = s[1] /\ e.to.at = s[2]
                                             \/ e.from.at = s[2] /\ e.to.at = s[1]
      BY <3>1
    <3>3. s \in Facing(kind', b) /\ b \in Borders
      BY <1>3, <1>4 DEF Entrances
    <3>4. <<e.from.at, e.to.at>> \in Steps(kind')
      BY <3>2, <3>3, FacingStep
    <3>5. Leads(e.from.at, e.from.at, Steps(kind'))
      BY DEF Leads
    <3> QED
      BY <3>4, <3>5, LeadsStep
  <2>4. CASE e.cost # NoPath /\ <<e.from, e.to>> \in Mates(u)
    <3>1. e.from \in live' /\ e.to \in live' /\ Home(e.from) = Home(e.to)
      BY <1>3, <2>4 DEF Mates
    <3>2. Holds(edges', live', kind') /\ live' \subseteq Nodes
      BY DEF IInv, MapInv, DistancesExact, GraphOK
    <3>3. e.from.at \in Pos /\ e.to.at \in Pos
      BY <3>1, <3>2 DEF Nodes
    <3> QED
      BY <2>4, <3>1, <3>2, <3>3, EdgeWithin
  <2> QED
    BY <2>1, <2>2, <2>3, <2>4
<1>12. ASSUME NEW b \in Borders, NEW s \in Entrances(kind', b)
       PROVE  \E e \in edges' : /\ e.from \in live' /\ e.to \in live' /\ e.from.of = b /\ e.to.of = b
                                /\ e.from.at = s[1] /\ e.to.at = s[2]
  <2>1. CASE b \in u.reopened
    <3>1. PICK e \in both : e.from.of = b /\ e.to.of = b /\ e.from.at = s[1] /\ e.to.at = s[2]
      BY <1>3, <1>9, <2>1, CrossingsServe
    <3> QED
      BY <1>9, <1>10, <3>1
  <2>2. CASE b \notin u.reopened
    <3>1. Facing(After(obs), b) = Facing(kind, b)
      BY <1>2, <1>7, <2>2, FacingStays DEF u
    <3>2. s \in Entrances(kind, b)
      BY <1>3, <1>4, <3>1, EntrancesOf
    <3>3. PICK e \in edges : /\ e.from \in live /\ e.to \in live /\ e.from.of = b /\ e.to.of = b
                             /\ e.from.at = s[1] /\ e.to.at = s[2]
      BY <1>7, <3>2 DEF Served
    <3>4. Home(e.from) # Home(e.to)
      <4>1. /\ s[1] \in Pos /\ s[2] \in Pos /\ ClusterOf(s[1]) = b[1] /\ ClusterOf(s[2]) = b[2]
        BY <3>2, FacingLine DEF Entrances
      <4> QED
        BY <3>3, <4>1, BorderNamed DEF Home
    <3>5. e \in KeptEdges(u)
      BY <2>2, <3>3, <3>4 DEF KeptEdges
    <3>6. e \in edges'
      BY <1>3, <3>5 DEF EdgesAfter
    <3>7. e.from \in live' /\ e.to \in live'
      BY <1>3, <2>2, <3>3 DEF LiveAfter, Dropped
    <3> QED
      BY <3>3, <3>6, <3>7
  <2> QED
    BY <2>1, <2>2
<1> QED
  BY <1>11, <1>12 DEF Sound, Served
-----------------------------------------------------------------------------
(* A search keeps them joined *)

\* so does a search when it inserts a node,
LEMMA InsertRouted ==
  ASSUME MapInv, MapInv', Routed, NEW n, n.at \in Pos, Insert(n), UNCHANGED <<kind, obstructed>>
  PROVE  /\ IsFiniteSet(nodes')
         /\ ~ obstructed' => Sound(edges', kind') /\ Served(edges', live', kind')
<1>1. /\ nodes' = nodes \cup {n} /\ live' = live \cup {n}
      /\ edges' = edges \cup {e \in Spokes(n) : e.cost # NoPath}
  BY DEF Insert
<1>2. IsFiniteSet(nodes')
  BY <1>1, FS_AddElement DEF Routed
<1> SUFFICES ASSUME ~ obstructed' PROVE Sound(edges', kind') /\ Served(edges', live', kind')
  BY <1>2
<1>3. Sound(edges, kind) /\ Served(edges, live, kind) /\ kind' = kind
  BY DEF Routed
<1>4. ASSUME NEW e \in edges' PROVE Leads(e.from.at, e.to.at, Steps(kind'))
  <2>1. CASE e \in edges
    BY <1>3, <2>1 DEF Sound
  <2>2. CASE e \notin edges
    <3>1. e \in Spokes(n) /\ e.cost # NoPath
      BY <1>1, <2>2
    <3>2. PICK m \in live : /\ Home(m) = Home(n)
                            /\ \/ e = Edge(n, m, DistanceOf(kind, n, m))
                               \/ e = Edge(m, n, DistanceOf(kind, m, n))
      BY <3>1, SpokesAre
    <3>3. (e.from = n /\ e.to = m) \/ (e.from = m /\ e.to = n)
      BY <3>2 DEF Edge
    <3>4. m.at \in Pos
      BY DEF MapInv, GraphOK, Nodes
    <3>5. Holds(edges', live', kind')
      BY DEF MapInv, DistancesExact
    <3> QED
      BY <1>1, <3>1, <3>2, <3>3, <3>4, <3>5, EdgeWithin
  <2> QED
    BY <2>1, <2>2
<1> QED
  BY <1>1, <1>3, <1>4 DEF Sound, Served

\* and when it removes one.
LEMMA RemoveRouted ==
  ASSUME MapInv, Routed, NEW n, Temp(n), Remove(n), UNCHANGED <<kind, obstructed>>
  PROVE  /\ IsFiniteSet(nodes')
         /\ ~ obstructed' => Sound(edges', kind') /\ Served(edges', live', kind')
<1>1. /\ nodes' = nodes \ {n} /\ live' = live \ {n}
      /\ edges' = {e \in edges : e.from # n /\ e.to # n}
  BY UnlinkedAre DEF Remove, MapInv
<1>2. IsFiniteSet(nodes')
  BY <1>1, FS_RemoveElement DEF Routed
<1> SUFFICES ASSUME ~ obstructed' PROVE Sound(edges', kind') /\ Served(edges', live', kind')
  BY <1>2
<1>3. Sound(edges, kind) /\ Served(edges, live, kind) /\ kind' = kind
  BY DEF Routed
<1>4. \A m : m.of \in Borders => m # n
  BY NamesAssumption DEF Temp
<1> QED
  BY <1>1, <1>3, <1>4 DEF Sound, Served

\* At the start there is nothing: neither nodes nor openings.
LEMMA InitRouted == Init => Routed
<1> SUFFICES ASSUME Init PROVE Routed
  OBVIOUS
<1>1. IsFiniteSet(nodes) /\ Temps \subseteq live /\ Sound(edges, kind)
  BY FS_EmptySet DEF Init, Temps, Sound
<1>2. \A b \in Borders : Entrances(kind, b) = {}
  <2> SUFFICES ASSUME NEW b \in Borders, NEW s \in Facing(kind, b) PROVE FALSE
    BY DEF Entrances
  <2>1. s[1] \in Pos /\ kind[s[1]] \in Open
    BY FacingLine
  <2> QED
    BY <2>1 DEF Init, Open
<1> QED
  BY <1>1, <1>2 DEF Routed, Served

\* Every step keeps the map routed.
LEMMA NextRouted ==
  ASSUME IInv, IInv', Routed, [Next]_vars PROVE Routed'
<1>1. CASE \E obs \in Observations : Update(obs)
  BY <1>1, UpdateRouted
<1>2. MapInv /\ MapInv' /\ Named /\ Places \subseteq Pos
  BY HpaAssumption DEF IInv
<1>3. ASSUME NEW p \in Places, BeginSearch(p) PROVE Routed'
  <2>1. /\ pc = "idle" /\ pc' = "started" /\ from' = p /\ Insert(StartNode(p))
        /\ UNCHANGED <<kind, obstructed>>
    BY <1>3 DEF BeginSearch
  <2>2. StartNode(p).at \in Pos
    BY <1>2 DEF StartNode
  <2>3. Temps' \subseteq live'
    BY <2>1 DEF Temps, Insert, StartNode
  <2> QED
    BY <1>2, <2>1, <2>2, <2>3, InsertRouted DEF Routed
<1>4. ASSUME NEW p \in Places, InsertTarget(p) PROVE Routed'
  <2>1. /\ pc \in {"started", "answered"} /\ pc' = "inserted" /\ to' = p /\ Insert(TargetNode(p))
        /\ UNCHANGED <<kind, obstructed, from>>
    BY <1>4 DEF InsertTarget
  <2>2. TargetNode(p).at \in Pos
    BY <1>2 DEF TargetNode
  <2>3. StartNode(from) \in live
    BY <2>1 DEF Routed, Temps
  <2>4. Temps' \subseteq live'
    BY <2>1, <2>3 DEF Temps, Insert, StartNode, TargetNode
  <2> QED
    BY <1>2, <2>1, <2>2, <2>4, InsertRouted DEF Routed
<1>5. CASE Answer
  <2>1. /\ pc = "inserted" /\ pc' = "answered" /\ Remove(TargetNode(to))
        /\ UNCHANGED <<kind, obstructed, from>>
    BY <1>5 DEF Answer
  <2>2. from \in Pos /\ to \in Pos
    BY <1>2, <2>1 DEF Named
  <2>3. Temp(TargetNode(to)) /\ StartNode(from) # TargetNode(to)
    BY <2>2, HpaAssumption DEF Temp, StartNode, TargetNode
  <2>4. StartNode(from) \in live
    BY <2>1 DEF Routed, Temps
  <2>5. Temps' \subseteq live'
    BY <2>1, <2>3, <2>4 DEF Temps, Remove, StartNode
  <2> QED
    BY <1>2, <2>1, <2>3, <2>5, RemoveRouted DEF Routed
<1>6. CASE EndSearch
  <2>1. pc' = "idle" /\ Remove(StartNode(from)) /\ UNCHANGED <<kind, obstructed>>
    BY <1>6 DEF EndSearch
  <2>2. Temp(StartNode(from)) /\ Temps' \subseteq live'
    BY <2>1 DEF Temp, StartNode, Temps
  <2> QED
    BY <1>2, <2>1, <2>2, RemoveRouted DEF Routed
<1>7. CASE UNCHANGED vars
  BY <1>7 DEF vars, Routed, Temps, Sound, Served
<1> QED
  BY <1>1, <1>3, <1>4, <1>5, <1>6, <1>7 DEF Next
-----------------------------------------------------------------------------
(* What a search finds *)

\* D is not left by an edge.
Follows(D) == \A e \in edges : e.from \in D => e.to \in D

\* All nodes that can be walked to from p within its cluster are in D.
Covers(D, p) ==
  \A n \in live : Home(n) = ClusterOf(p) /\ Leads(p, n.at, Links(kind, ClusterOf(p))) => n \in D

\* A node that can be walked to within the cluster is joined by an edge.
LEMMA JoinedWithin ==
  ASSUME MapInv, NEW D, Follows(D), NEW n \in live, NEW m \in live, n \in D,
         Home(n) = Home(m), Leads(n.at, m.at, Links(kind, Home(n)))
  PROVE  m \in D
<1> SUFFICES ASSUME n # m PROVE m \in D
  OBVIOUS
<1>1. n.at \in Pos /\ m.at \in Pos
  BY DEF MapInv, GraphOK, Nodes
<1>2. DistanceOf(kind, n, m) # NoPath
  BY <1>1, WayWithin
<1>3. Edge(n, m, DistanceOf(kind, n, m)) \in edges
  BY <1>2 DEF MapInv, DistancesExact, Holds
<1>4. \A c : Edge(n, m, c).from = n /\ Edge(n, m, c).to = m
  BY DEF Edge
<1> QED
  BY <1>3, <1>4 DEF Follows

\* Across a border one gets by the entrance that is kept nearby.
LEMMA AcrossBorder ==
  ASSUME MapInv, Served(edges, live, kind), NEW D, Follows(D),
         NEW p \in Pos, NEW q \in Pos, Covers(D, p),
         <<p, q>> \in Steps(kind), ClusterOf(p) # ClusterOf(q)
  PROVE  Covers(D, q)
<1>1. Straight(p, q) /\ kind[p] \in Open /\ kind[q] \in Open
  BY DEF Steps, CanStep
<1>2. Straight(q, p)
  BY <1>1, StepBack
<1>3. PICK b \in Borders : \/ ClusterOf(p) = b[1] /\ ClusterOf(q) = b[2]
                           \/ ClusterOf(q) = b[1] /\ ClusterOf(p) = b[2]
  BY <1>1, BorderCrossed
<1>4. \E x, y \in Pos : \E e \in edges :
        /\ e.from \in live /\ e.to \in live /\ e.from.at = x /\ e.to.at = y
        /\ Home(e.from) = ClusterOf(p) /\ Home(e.to) = ClusterOf(q)
        /\ Leads(p, x, Links(kind, ClusterOf(p))) /\ Leads(q, y, Links(kind, ClusterOf(q)))
  <2>1. CASE ClusterOf(p) = b[1] /\ ClusterOf(q) = b[2]
    <3>1. <<p, q>> \in Facing(kind, b)
      BY <1>1, <2>1 DEF Facing, Cells
    <3>2. PICK t \in Entrances(kind, b) : /\ Leads(p, t[1], Links(kind, b[1]))
                                          /\ Leads(q, t[2], Links(kind, b[2]))
      BY <3>1, EntranceNear
    <3>3. PICK e \in edges : e.from \in live /\ e.to \in live /\ e.from.at = t[1] /\ e.to.at = t[2]
      BY DEF Served
    <3>4. t[1] \in Pos /\ t[2] \in Pos /\ ClusterOf(t[1]) = b[1] /\ ClusterOf(t[2]) = b[2]
      BY FacingLine DEF Entrances
    <3> QED
      BY <2>1, <3>2, <3>3, <3>4 DEF Home
  <2>2. CASE ClusterOf(q) = b[1] /\ ClusterOf(p) = b[2]
    <3>1. <<q, p>> \in Facing(kind, b)
      BY <1>1, <1>2, <2>2 DEF Facing, Cells
    <3>2. PICK t \in Entrances(kind, b) : /\ Leads(q, t[1], Links(kind, b[1]))
                                          /\ Leads(p, t[2], Links(kind, b[2]))
      BY <3>1, EntranceNear
    <3>3. PICK d \in edges : d.from \in live /\ d.to \in live /\ d.from.at = t[1] /\ d.to.at = t[2]
      BY DEF Served
    <3>4. t[1] \in Pos /\ t[2] \in Pos /\ ClusterOf(t[1]) = b[1] /\ ClusterOf(t[2]) = b[2]
      BY FacingLine DEF Entrances
    <3> DEFINE e == Edge(d.to, d.from, d.cost)
    <3>5. e \in edges /\ e.from = d.to /\ e.to = d.from
      BY DEF MapInv, EdgesMatched, Edge
    <3> HIDE DEF e
    <3> QED
      BY <2>2, <3>2, <3>3, <3>4, <3>5 DEF Home
  <2> QED
    BY <1>3, <2>1, <2>2
<1>5. PICK x, y \in Pos : \E e \in edges :
        /\ e.from \in live /\ e.to \in live /\ e.from.at = x /\ e.to.at = y
        /\ Home(e.from) = ClusterOf(p) /\ Home(e.to) = ClusterOf(q)
        /\ Leads(p, x, Links(kind, ClusterOf(p))) /\ Leads(q, y, Links(kind, ClusterOf(q)))
  BY <1>4
<1>6. PICK e \in edges :
        /\ e.from \in live /\ e.to \in live /\ e.from.at = x /\ e.to.at = y
        /\ Home(e.from) = ClusterOf(p) /\ Home(e.to) = ClusterOf(q)
        /\ Leads(p, x, Links(kind, ClusterOf(p))) /\ Leads(q, y, Links(kind, ClusterOf(q)))
  BY <1>5
<1>7. e.to \in D
  BY <1>6 DEF Covers, Follows
<1>8. ASSUME NEW n \in live, Home(n) = ClusterOf(q), Leads(q, n.at, Links(kind, ClusterOf(q)))
      PROVE  n \in D
  <2>1. Leads(y, q, Links(kind, ClusterOf(q)))
    BY <1>6, LinksAre, LeadsBack
  <2>2. Leads(y, n.at, Links(kind, ClusterOf(q)))
    BY <1>8, <2>1, LeadsFar
  <2> QED
    BY <1>6, <1>7, <1>8, <2>2, JoinedWithin
<1> QED
  BY <1>8 DEF Covers

\* A step the map knows is one the graph can follow.
LEMMA StepCovered ==
  ASSUME MapInv, Served(edges, live, kind), NEW D, Follows(D),
         NEW p \in Pos, NEW q \in Pos, Covers(D, p), <<p, q>> \in Steps(kind)
  PROVE  Covers(D, q)
<1>1. CASE ClusterOf(p) # ClusterOf(q)
  BY <1>1, AcrossBorder
<1>2. CASE ClusterOf(p) = ClusterOf(q)
  <2> DEFINE links == Links(kind, ClusterOf(p))
  <2>1. <<p, q>> \in links
    BY <1>2 DEF Steps, Links, Cells
  <2>2. Leads(p, p, links)
    BY DEF Leads
  <2> HIDE DEF links
  <2>3. Leads(p, q, links)
    BY <2>1, <2>2, LeadsStep
  <2>4. \A r : Leads(q, r, links) => Leads(p, r, links)
    BY <2>3, LeadsFar
  <2> QED
    BY <1>2, <2>4 DEF Covers, links
<1> QED
  BY <1>1, <1>2

\* A* finds the target exactly when the known steps lead to it.
LEMMA AnswerTells ==
  ASSUME IInv, Routed, Answer, ~ obstructed
  PROVE  found' <=> Leads(from, to, Steps(kind))
<1> DEFINE a == StartNode(from)
           z == TargetNode(to)
           pairs == {<<e.from, e.to>> : e \in edges}
           D == Spread(a, pairs)[Cardinality(nodes)]
<1>1. /\ pc = "inserted" /\ found' = (z \in D)
  BY DEF Answer, Connected
<1>2. MapInv /\ from \in Pos /\ to \in Pos /\ live \subseteq nodes /\ nodes \subseteq Nodes
  BY <1>1 DEF IInv, Named, MapInv, GraphOK
<1>3. a \in live /\ z \in live /\ a.at = from /\ z.at = to
  BY <1>1 DEF Routed, Temps, StartNode, TargetNode
<1>4. Sound(edges, kind) /\ Served(edges, live, kind) /\ IsFiniteSet(nodes)
  BY DEF Routed
<1>5. pairs \in SUBSET (nodes \X nodes)
  BY <1>2 DEF MapInv, GraphOK
<1>6. Cardinality(nodes) \in Nat
  BY <1>4, FS_CardinalityType
<1>7. \A C : Closed(C, pairs) <=> Follows(C)
  <2>1. \A e \in edges : <<e.from, e.to>> \in pairs
    OBVIOUS
  <2>2. \A s \in pairs : \E e \in edges : s[1] = e.from /\ s[2] = e.to
    OBVIOUS
  <2> HIDE DEF pairs
  <2> SUFFICES ASSUME NEW C PROVE Closed(C, pairs) <=> Follows(C)
    OBVIOUS
  <2>3. ASSUME Closed(C, pairs), NEW e \in edges, e.from \in C PROVE e.to \in C
    <3>1. <<e.from, e.to>>[1] \in C => <<e.from, e.to>>[2] \in C
      BY <2>1, <2>3 DEF Closed
    <3> QED
      BY <2>3, <3>1
  <2>4. ASSUME Follows(C), NEW s \in pairs, s[1] \in C PROVE s[2] \in C
    BY <2>2, <2>4 DEF Follows
  <2> QED
    BY <2>3, <2>4 DEF Closed, Follows
<1> HIDE DEF a, z, pairs
<1>8. a \in D /\ Closed(D, pairs)
  BY <1>2, <1>3, <1>4, <1>5, <1>6, SpreadFull
<1>9. \A C : a \in C /\ Closed(C, pairs) => D \subseteq C
  BY <1>6, SpreadWithin
<1> HIDE DEF D
<1>10. ASSUME z \in D PROVE Leads(from, to, Steps(kind))
  <2> DEFINE C == {n \in nodes : Leads(from, n.at, Steps(kind))}
  <2>1. a \in C
    BY <1>2, <1>3 DEF Leads
  <2>2. ASSUME NEW e \in edges, e.from \in C PROVE e.to \in C
    <3>1. e.to \in nodes /\ Leads(from, e.from.at, Steps(kind)) /\ Leads(e.from.at, e.to.at, Steps(kind))
      BY <1>2, <1>4, <2>2 DEF MapInv, GraphOK, Sound
    <3> QED
      BY <3>1, LeadsFar
  <2>3. Closed(C, pairs)
    <3> HIDE DEF C
    <3> QED
      BY <1>7, <2>2 DEF Follows
  <2> HIDE DEF C
  <2>4. z \in C
    BY <1>9, <1>10, <2>1, <2>3
  <2> QED
    BY <1>3, <2>4 DEF C
<1>11. ASSUME Leads(from, to, Steps(kind)) PROVE z \in D
  <2> DEFINE r == {p \in Pos : Covers(D, p)}
  <2>1. Follows(D)
    BY <1>7, <1>8
  <2>2. Covers(D, from)
    BY <1>2, <1>3, <1>8, <2>1, JoinedWithin DEF Covers, Home
  <2>3. Closed(r, Steps(kind))
    <3>1. ASSUME NEW s \in Steps(kind), s[1] \in r PROVE s[2] \in r
      <4>1. s[1] \in Pos /\ s[2] \in Pos /\ s = <<s[1], s[2]>>
        BY DEF Steps
      <4> QED
        BY <1>2, <1>4, <2>1, <3>1, <4>1, StepCovered
    <3> QED
      BY <3>1 DEF Closed
  <2>4. Covers(D, to)
    <3>1. from \in r /\ r \in SUBSET Pos
      BY <1>2, <2>2
    <3> HIDE DEF r
    <3>2. to \in r
      BY <1>11, <2>3, <3>1 DEF Leads
    <3> QED
      BY <3>2 DEF r
  <2>5. Leads(to, to, Links(kind, ClusterOf(to)))
    BY DEF Leads
  <2> QED
    BY <1>3, <2>4, <2>5 DEF Covers, Home
<1> QED
  BY <1>1, <1>10, <1>11

\* The last answer tells what the tiles say.
Told == pc = "answered" /\ ~ obstructed => (found <=> Leads(from, to, Steps(kind)))

\* Every step keeps the answer of the search true.
LEMMA NextTold ==
  ASSUME IInv, Routed, Told, [Next]_vars PROVE Told'
<1>1. CASE Answer
  <2>1. UNCHANGED <<from, to, kind, obstructed>>
    BY <1>1 DEF Answer
  <2> QED
    BY <1>1, <2>1, AnswerTells DEF Told
<1>2. CASE UNCHANGED vars
  BY <1>2 DEF vars, Told
<1>3. CASE Next /\ ~ Answer
  <2>1. pc' # "answered"
    BY <1>3 DEF Next, Update, BeginSearch, InsertTarget, EndSearch
  <2> QED
    BY <2>1 DEF Told
<1> QED
  BY <1>1, <1>2, <1>3

\* As long as no open tile was blocked, on levels of every size, with clusters and
\* openings of every size: a path is found exactly when known steps lead to the
\* target.  The entrances that are kept lose no way, and no edge promises one.
THEOREM PathFoundIfReachable == Spec => []FoundIfReachable
<1> DEFINE Inv == IInv /\ Routed /\ Told
<1>1. Init => Inv
  BY InitInv, InitRouted DEF Init, Told
<1>2. Inv /\ [Next]_vars => Inv'
  BY NextInv, NextRouted, NextTold
<1>3. Inv => FoundIfReachable
  <2> SUFFICES ASSUME IInv, Told, pc = "answered", ~ obstructed
               PROVE  found <=> to \in Spread(from, KnownSteps)[Width * Height]
    BY DEF FoundIfReachable
  <2>1. from \in Pos
    BY DEF IInv, Named
  <2>2. KnownSteps = Steps(kind) /\ Width * Height \in Nat
    BY HpaAssumption DEF KnownSteps, Steps
  <2>3. Steps(kind) \in SUBSET (Pos \X Pos)
    BY StepsAre
  <2>4. to \in Spread(from, Steps(kind))[Width * Height] <=> Leads(from, to, Steps(kind))
    BY <2>1, <2>2, <2>3, PosFew, SpreadLeads
  <2> QED
    BY <2>2, <2>4 DEF Told
<1> QED
  BY <1>1, <1>2, <1>3, PTL DEF Spec
=============================================================================
