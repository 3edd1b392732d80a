----------------------------- MODULE AuditProofs -----------------------------
(***************************************************************************)
(* The counters of the compaction account for all it did, and a compactor  *)
(* that stops pruning leaves the table at its ceiling.  The first is about *)
(* a sum over the compactors, which is unfolded by induction on their set; *)
(* the second about the size of a batch of oldest rows, by induction on    *)
(* the rows.                                                               *)
(***************************************************************************)
EXTENDS Audit, FiniteSetTheorems, WellFoundedInduction, TLAPS

Counts == [cleared : Nat, pruned : Nat]

\* Rows have a moment and an id each, and no two the same id.
Numbered(K) ==
    /\ \A r \in K : r.id \in Nat /\ r.at \in Nat
    /\ \A r, q \in K : r.id = q.id => r = q

Pc == {"idle", "expire", "clear", "prune", "tell"}

\* A new row's id is larger than all the others.
TypeOK ==
    /\ IsFiniteSet(rows)
    /\ \A r \in rows : r \in [id : 1 .. made, at : Nat, kept : BOOLEAN, cleared : BOOLEAN]
    /\ {now, made} \subseteq Nat
    /\ pc \in [Compactor -> Pc] /\ began \in [Compactor -> Nat]
    /\ result \in [Compactor -> Counts]
    /\ {stats, done, lost} \subseteq Counts

IInv == TypeOK /\ Numbered(rows) /\ CountersAccount

-----------------------------------------------------------------------------
(* Numbers and finite sets *)

\* Every set of natural numbers that is not empty has a least element.
LEMMA LeastNumber ==
  ASSUME NEW T \in SUBSET Nat, T # {}
  PROVE  \E x \in T : \A y \in T : x <= y
<1> DEFINE R == OpToRel(<, Nat)
<1>1. IsWellFoundedOn(R, Nat)
  BY NatLessThanWellFounded
<1>2. \A x, y \in Nat : <<y, x>> \in R <=> y < x
  BY DEF OpToRel
<1> HIDE DEF R
<1>3. PICK x \in T : \A y \in T : ~ (<<y, x>> \in R)
  BY <1>1, WFMin
<1>4. \A y \in T : ~ (y < x)
  BY <1>2, <1>3
<1>5. x \in Nat /\ T \subseteq Nat
  OBVIOUS
<1> HIDE <1>2, <1>3
<1> QED
  BY <1>4, <1>5

\* A set of numbers with 0 and with the successor of each of its members is Nat.
LEMMA NumberInduction ==
  ASSUME NEW T \in SUBSET Nat, 0 \in T, \A n \in T : n + 1 \in T
  PROVE  T = Nat
<1> DEFINE U == Nat \ T
<1> SUFFICES ASSUME U # {} PROVE FALSE
  OBVIOUS
<1>1. PICK x \in U : \A y \in U : x <= y
  BY LeastNumber
<1>2. x # 0 /\ x - 1 \in T
  BY <1>1
<1> QED
  BY <1>2

\* A family of subsets of a finite set that has a set whenever it has all the sets
\* of one element less has them all.
LEMMA SetInduction ==
  ASSUME NEW S, IsFiniteSet(S), NEW P \in SUBSET SUBSET S, {} \in P,
         \A s \in SUBSET S : s # {} /\ (\A x \in s : s \ {x} \in P) => s \in P
  PROVE  P = SUBSET S
<1> DEFINE T == {n \in Nat : \A s \in SUBSET S : Cardinality(s) = n => s \in P}
<1>1. \A s \in SUBSET S : /\ IsFiniteSet(s) /\ Cardinality(s) \in Nat
                          /\ Cardinality(s) = 0 => s = {}
  BY FS_Subset, FS_CardinalityType, FS_EmptySet
<1>2. 0 \in T
  BY <1>1
<1>3. ASSUME NEW n \in T PROVE n + 1 \in T
  <2>1. n \in Nat /\ \A s \in SUBSET S : Cardinality(s) = n => s \in P
    BY DEF T
  <2>2. ASSUME NEW s \in SUBSET S, Cardinality(s) = n + 1 PROVE s \in P
    <3>1. Cardinality({}) = 0
      BY FS_EmptySet
    <3>2. s # {}
      BY <2>1, <2>2, <3>1
    <3>3. ASSUME NEW x \in s PROVE s \ {x} \in P
      <4>1. IsFiniteSet(s)
        BY <1>1
      <4>2. Cardinality(s \ {x}) = Cardinality(s) - 1
        BY <4>1, FS_RemoveElement
      <4>3. Cardinality(s \ {x}) = n
        BY <2>1, <2>2, <4>2
      <4> QED
        BY <2>1, <4>3
    <3> QED
      BY <3>2, <3>3
  <2> QED
    BY <2>1, <2>2
<1>4. T = Nat
  <2> HIDE DEF T
  <2>1. T \in SUBSET Nat
    BY DEF T
  <2> QED
    BY <1>2, <1>3, <2>1, NumberInduction
<1> QED
  BY <1>1, <1>4

\* The values of a function on a finite set are finitely many.
LEMMA ValuesFinite ==
  ASSUME NEW S, IsFiniteSet(S), NEW f
  PROVE  IsFiniteSet({f[x] : x \in S})
<1> DEFINE T == {f[x] : x \in S}
           g == [x \in S |-> f[x]]
<1>1. g \in Surjection(S, T)
  <2>1. g \in [S -> T]
    OBVIOUS
  <2>2. \A t \in T : \E s \in S : g[s] = t
    OBVIOUS
  <2> HIDE DEF g, T
  <2> QED
    BY <2>1, <2>2 DEF Surjection
<1> HIDE DEF g, T
<1>2. IsFiniteSet(T)
  BY <1>1, FS_Surjection
<1> QED
  BY <1>2 DEF T

-----------------------------------------------------------------------------
(* The sum over the compactors *)

Pick(s) == CHOOSE x \in s : TRUE
Unfold(g, f, base, s) == IF s = {} THEN base ELSE Plus(g[s \ {Pick(s)}], f[Pick(s)])
Folds(g, f, base) == g = [s \in SUBSET Compactor |-> Unfold(g, f, base, s)]
Small(n) == {s \in SUBSET Compactor : Cardinality(s) <= n}

\* What is left of a set of compactors when the next one is taken out.
LEMMA Rest ==
  ASSUME NEW s \in SUBSET Compactor, s # {}
  PROVE  /\ IsFiniteSet(s) /\ Pick(s) \in s
         /\ s \ {Pick(s)} \in SUBSET Compactor
         /\ Cardinality(s) \in Nat /\ Cardinality(s \ {Pick(s)}) \in Nat
         /\ Cardinality(s \ {Pick(s)}) = Cardinality(s) - 1
<1>1. IsFiniteSet(s)
  BY FS_Subset, AuditAssumption
<1>2. Pick(s) \in s
  BY Zenon DEF Pick
<1> QED
  BY <1>1, <1>2, FS_RemoveElement, FS_CardinalityType

\* A function that unfolds on small sets can be continued to those of one more.
LEMMA SmallExtends ==
  ASSUME NEW f, NEW base, NEW n \in Nat,
         \E g : \A s \in Small(n) : g[s] = Unfold(g, f, base, s)
  PROVE  \E g : \A s \in Small(n + 1) : g[s] = Unfold(g, f, base, s)
<1>1. PICK g : \A s \in Small(n) : g[s] = Unfold(g, f, base, s)
  OBVIOUS
<1> DEFINE h == [s \in SUBSET Compactor |-> Unfold(g, f, base, s)]
<1>2. ASSUME NEW s \in Small(n + 1) PROVE h[s] = Unfold(h, f, base, s)
  <2>1. s \in SUBSET Compactor /\ h[s] = Unfold(g, f, base, s)
    BY DEF Small
  <2>2. CASE s = {}
    BY <2>1, <2>2 DEF Unfold
  <2>3. CASE s # {}
    <3>1. s \ {Pick(s)} \in SUBSET Compactor /\ Cardinality(s \ {Pick(s)}) <= n
      <4>1. /\ Cardinality(s) \in Nat /\ Cardinality(s \ {Pick(s)}) \in Nat
            /\ Cardinality(s \ {Pick(s)}) = Cardinality(s) - 1
            /\ s \ {Pick(s)} \in SUBSET Compactor
        BY <2>1, <2>3, Rest, Zenon
      <4>2. Cardinality(s) <= n + 1
        BY DEF Small
      <4> QED
        BY <4>1, <4>2
    <3>2. g[s \ {Pick(s)}] = Unfold(g, f, base, s \ {Pick(s)})
      BY <1>1, <3>1 DEF Small
    <3>3. h[s \ {Pick(s)}] = g[s \ {Pick(s)}]
      BY <3>1, <3>2
    <3> HIDE DEF h
    <3> QED
      BY <2>1, <2>3, <3>3 DEF Unfold
  <2> QED
    BY <2>2, <2>3
<1> HIDE DEF h
<1> QED
  BY <1>2

\* There is a function that unfolds on every set of compactors.
LEMMA FoldExists ==
  ASSUME NEW f, NEW base
  PROVE  Folds(CHOOSE g : Folds(g, f, base), f, base)
<1> DEFINE T == {n \in Nat : \E g : \A s \in Small(n) : g[s] = Unfold(g, f, base, s)}
<1>1. 0 \in T
  <2> DEFINE g == [s \in SUBSET Compactor |-> base]
  <2>1. ASSUME NEW s \in Small(0) PROVE g[s] = Unfold(g, f, base, s)
    <3>1. s \in SUBSET Compactor /\ Cardinality(s) <= 0
      BY DEF Small
    <3>2. s = {}
      <4>1. SUFFICES ASSUME s # {} PROVE FALSE
        BY Zenon
      <4>2. /\ Cardinality(s) \in Nat /\ Cardinality(s \ {Pick(s)}) \in Nat
            /\ Cardinality(s \ {Pick(s)}) = Cardinality(s) - 1
        BY <3>1, <4>1, Rest, Zenon
      <4> QED
        BY <4>2, <3>1
    <3> QED
      BY <3>1, <3>2 DEF Unfold
  <2> HIDE DEF g
  <2> QED
    BY <2>1
<1>2. ASSUME NEW n \in T PROVE n + 1 \in T
  <2>1. n \in Nat /\ \E g : \A s \in Small(n) : g[s] = Unfold(g, f, base, s)
    BY DEF T
  <2>2. \E g : \A s \in Small(n + 1) : g[s] = Unfold(g, f, base, s)
    BY <2>1, SmallExtends
  <2>3. n + 1 \in Nat
    BY <2>1
  <2> QED
    BY <2>2, <2>3, Zenon DEF T
<1>3. T = Nat
  <2> HIDE DEF T
  <2>1. T \in SUBSET Nat
    BY DEF T
  <2> QED
    BY <1>1, <1>2, <2>1, NumberInduction
<1>4. Cardinality(Compactor) \in Nat /\ Small(Cardinality(Compactor)) = SUBSET Compactor
  BY AuditAssumption, FS_CardinalityType, FS_Subset DEF Small
<1>5. PICK g : \A s \in SUBSET Compactor : g[s] = Unfold(g, f, base, s)
  BY <1>3, <1>4
<1> DEFINE h == [s \in SUBSET Compactor |-> g[s]]
<1>6. ASSUME NEW s \in SUBSET Compactor PROVE h[s] = Unfold(h, f, base, s)
  <2>1. CASE s = {}
    BY <1>5, <2>1 DEF Unfold
  <2>2. CASE s # {}
    BY <1>5, <2>2, Rest DEF Unfold
  <2> QED
    BY <2>1, <2>2
<1>7. Folds(h, f, base)
  <2>1. h = [s \in SUBSET Compactor |-> h[s]]
    OBVIOUS
  <2> HIDE DEF h
  <2> QED
    BY <1>6, <2>1 DEF Folds
<1> HIDE DEF h
<1> QED
  BY <1>7, Zenon

G(f, base) == CHOOSE g : Folds(g, f, base)

\* The sum over a set: the base, or a compactor's counts and the sum over the rest.
LEMMA FoldUnfolds ==
  ASSUME NEW f, NEW base, NEW s \in SUBSET Compactor
  PROVE  G(f, base)[s] = Unfold(G(f, base), f, base, s)
<1>1. Folds(G(f, base), f, base)
  BY FoldExists DEF G
<1> DEFINE g == G(f, base)
<1>2. g = [t \in SUBSET Compactor |-> Unfold(g, f, base, t)]
  BY <1>1 DEF Folds
<1> HIDE DEF g
<1>3. g[s] = Unfold(g, f, base, s)
  BY <1>2
<1> QED
  BY <1>3 DEF g

\* A sum of counts is counts.
LEMMA FoldTyped ==
  ASSUME NEW f \in [Compactor -> Counts], NEW base \in Counts,
         NEW s \in SUBSET Compactor
  PROVE  G(f, base)[s] \in Counts
<1> DEFINE P == {t \in SUBSET Compactor : G(f, base)[t] \in Counts}
<1>1. {} \in P
  <2>1. G(f, base)[{}] = base
    BY FoldUnfolds DEF Unfold
  <2> QED
    BY <2>1
<1>2. ASSUME NEW t \in SUBSET Compactor, t # {}, \A x \in t : t \ {x} \in P
      PROVE  t \in P
  <2>1. Pick(t) \in t
    BY <1>2, Rest
  <2>2. G(f, base)[t \ {Pick(t)}] \in Counts /\ f[Pick(t)] \in Counts
    BY <1>2, <2>1
  <2>3. G(f, base)[t] = Plus(G(f, base)[t \ {Pick(t)}], f[Pick(t)])
    BY <1>2, FoldUnfolds DEF Unfold
  <2>4. \A a, b \in Counts : Plus(a, b) \in Counts
    BY DEF Plus, Counts
  <2> QED
    BY <2>2, <2>3, <2>4
<1>3. P = SUBSET Compactor
  <2> HIDE DEF P
  <2>1. P \in SUBSET SUBSET Compactor
    BY DEF P
  <2> QED
    BY <1>1, <1>2, <2>1, SetInduction, AuditAssumption
<1> QED
  BY <1>3

\* The new sum is the old one, more and less these.
Moved(new, old, more, less) ==
    /\ new.cleared = old.cleared + more.cleared - less.cleared
    /\ new.pruned = old.pruned + more.pruned - less.pruned

\* When one compactor's counts and the base change, the sum changes by as much.
LEMMA FoldMoves ==
  ASSUME NEW f \in [Compactor -> Counts], NEW base \in Counts,
         NEW c \in Compactor, NEW v \in Counts, NEW b \in Counts
  PROVE  Moved(G([f EXCEPT ![c] = v], b)[Compactor], G(f, base)[Compactor],
               Plus(b, v), Plus(base, f[c]))
<1> DEFINE h == [f EXCEPT ![c] = v]
           F(t) == G(f, base)[t]
           H(t) == G(h, b)[t]
           P == {t \in SUBSET Compactor :
                  /\ c \in t => Moved(H(t), F(t), Plus(b, v), Plus(base, f[c]))
                  /\ c \notin t => Moved(H(t), F(t), b, base)}
<1>0. h \in [Compactor -> Counts] /\ f[c] \in Counts
  OBVIOUS
<1>1. {} \in P
  <2>1. F({}) = base /\ H({}) = b
    BY FoldUnfolds DEF Unfold
  <2> QED
    BY <2>1 DEF Moved, Counts
<1>2. ASSUME NEW t \in SUBSET Compactor, t # {}, \A x \in t : t \ {x} \in P
      PROVE  t \in P
  <2> DEFINE p == Pick(t)
             r == t \ {p}
  <2>1. p \in t /\ p \in Compactor /\ r \in SUBSET Compactor /\ r \in P
    BY <1>2, Rest, Zenon
  <2>2. F(t) = Plus(F(r), f[p]) /\ H(t) = Plus(H(r), h[p])
    <3> HIDE DEF h
    <3>1. F(t) = Unfold(G(f, base), f, base, t)
      BY FoldUnfolds
    <3>2. H(t) = Unfold(G(h, b), h, b, t)
      BY FoldUnfolds
    <3> QED
      BY <1>2, <3>1, <3>2, Zenon DEF Unfold
  <2>3. F(r) \in Counts /\ H(r) \in Counts /\ f[p] \in Counts /\ h[p] \in Counts
    BY <1>0, <2>1, FoldTyped
  <2>4. h[p] = IF p = c THEN v ELSE f[p]
    BY <2>1
  <2>5. /\ c \in r => Moved(H(r), F(r), Plus(b, v), Plus(base, f[c]))
        /\ c \notin r => Moved(H(r), F(r), b, base)
    BY <2>1
  <2>6. c \in t <=> c = p \/ c \in r
    BY <2>1
  <2>7. c \notin r \/ c # p
    OBVIOUS
  <2>8. SUFFICES /\ c \in t => Moved(H(t), F(t), Plus(b, v), Plus(base, f[c]))
                 /\ c \notin t => Moved(H(t), F(t), b, base)
    OBVIOUS
  <2> HIDE DEF p, r, h, F, H, P
  <2> HIDE <1>2
  <2>9. CASE c = p
    <3>1. h[p] = v /\ c \in t /\ Moved(H(r), F(r), b, base)
      BY <2>4, <2>5, <2>6, <2>7, <2>9
    <3> QED
      BY <3>1, <2>2, <2>3, <2>9 DEF Moved, Plus, Counts
  <2>10. CASE c # p /\ c \in t
    <3>1. h[p] = f[p] /\ Moved(H(r), F(r), Plus(b, v), Plus(base, f[c]))
      BY <2>4, <2>5, <2>6, <2>10
    <3> QED
      BY <3>1, <1>0, <2>2, <2>3, <2>10 DEF Moved, Plus, Counts
  <2>11. CASE c # p /\ c \notin t
    <3>1. h[p] = f[p] /\ Moved(H(r), F(r), b, base)
      BY <2>4, <2>5, <2>6, <2>11
    <3> QED
      BY <3>1, <2>2, <2>3, <2>11 DEF Moved, Plus, Counts
  <2> QED
    BY <2>9, <2>10, <2>11
<1>3. P = SUBSET Compactor
  <2> HIDE DEF P
  <2>1. P \in SUBSET SUBSET Compactor
    BY DEF P
  <2> QED
    BY <1>1, <1>2, <2>1, SetInduction, AuditAssumption
<1> QED
  BY <1>3

-----------------------------------------------------------------------------
(* Batches of oldest rows *)

\* One of the rows is the newest.
LEMMA NewestExists ==
  ASSUME NEW K, IsFiniteSet(K), Numbered(K), K # {}
  PROVE  \E m \in K : \A r \in K \ {m} : Before(r, m)
<1> DEFINE P == {s \in SUBSET K : s # {} => \E m \in s : \A r \in s \ {m} : Before(r, m)}
<1>1. {} \in P
  OBVIOUS
<1>2. ASSUME NEW s \in SUBSET K, s # {}, \A x \in s : s \ {x} \in P
      PROVE  s \in P
  <2>1. PICK x \in s : TRUE
    BY <1>2
  <2>2. CASE s = {x}
    BY <2>2
  <2>3. CASE s # {x}
    <3>1. PICK m \in s \ {x} : \A r \in (s \ {x}) \ {m} : Before(r, m)
      <4>1. s \ {x} # {} /\ s \ {x} \in P
        BY <1>2, <2>1, <2>3
      <4> QED
        BY <4>1
    <3>2. Before(x, m) \/ Before(m, x)
      BY <3>1 DEF Before, Numbered
    <3>3. CASE Before(x, m)
      <4>1. \A r \in s \ {m} : Before(r, m)
        BY <3>1, <3>3
      <4> QED
        BY <3>1, <4>1
    <3>4. CASE Before(m, x)
      <4>1. ASSUME NEW r \in s \ {x} PROVE Before(r, x)
        <5>1. r = m \/ Before(r, m)
          BY <3>1
        <5>2. r \in K /\ m \in K /\ x \in K
          BY <2>1, <3>1
        <5> QED
          BY <3>4, <5>1, <5>2 DEF Before, Numbered
      <4> QED
        BY <2>1, <4>1
    <3> QED
      BY <3>2, <3>3, <3>4
  <2> QED
    BY <2>2, <2>3
<1>3. P = SUBSET K
  <2> HIDE DEF P
  <2>1. P \in SUBSET SUBSET K
    BY DEF P
  <2> QED
    BY <1>1, <1>2, <2>1, SetInduction
<1> QED
  BY <1>3

\* The oldest n rows of a table that has as many are n rows.
LEMMA OldestCounts ==
  ASSUME NEW K, IsFiniteSet(K), Numbered(K), NEW n \in 0 .. Cardinality(K)
  PROVE  Cardinality(Oldest(K, n)) = n
<1> DEFINE P == {s \in SUBSET K :
                   \A k \in 0 .. Cardinality(s) : Cardinality(Oldest(s, k)) = k}
<1>0. \A s \in SUBSET K : IsFiniteSet(s) /\ Cardinality(s) \in Nat
  BY FS_Subset, FS_CardinalityType
<1>1. {} \in P
  <2>1. Oldest({}, 0) = {}
    BY DEF Oldest
  <2> QED
    BY <2>1, FS_EmptySet
<1>2. ASSUME NEW s \in SUBSET K, s # {}, \A x \in s : s \ {x} \in P
      PROVE  s \in P
  <2>1. PICK m \in s : \A r \in s \ {m} : Before(r, m)
    <3>1. IsFiniteSet(s) /\ Numbered(s)
      BY <1>0 DEF Numbered
    <3> QED
      BY <1>2, <3>1, NewestExists
  <2> DEFINE t == s \ {m}
             Rank(u, r) == Cardinality({q \in u : Before(q, r)})
  <2>2. t \in P /\ Cardinality(t) = Cardinality(s) - 1 /\ t \in SUBSET K
    BY <1>0, <1>2, <2>1, FS_RemoveElement
  <2>3. ASSUME NEW r \in t PROVE Rank(s, r) = Rank(t, r)
    <3>1. ~ Before(m, r)
      BY <2>1 DEF Before, Numbered
    <3>2. {q \in s : Before(q, r)} = {q \in t : Before(q, r)}
      BY <3>1
    <3> QED
      BY <3>2
  <2>4. Rank(s, m) = Cardinality(t)
    <3>1. ~ Before(m, m)
      BY <2>1 DEF Before, Numbered
    <3>2. {q \in s : Before(q, m)} = t
      BY <2>1, <3>1
    <3> QED
      BY <3>2
  <2>5. ASSUME NEW r \in t PROVE Rank(t, r) \in Nat /\ Rank(t, r) < Cardinality(t)
    <3> DEFINE u == {q \in t : Before(q, r)}
    <3>1. ~ Before(r, r)
      BY DEF Before, Numbered
    <3>2. u \in SUBSET t /\ u # t
      BY <3>1
    <3>3. IsFiniteSet(t) /\ Cardinality(t) \in Nat
      BY <1>0, <2>2
    <3> HIDE DEF t, u
    <3>4. IsFiniteSet(u) /\ Cardinality(u) <= Cardinality(t) /\ Cardinality(u) # Cardinality(t)
      BY <3>2, <3>3, FS_Subset
    <3>5. Cardinality(u) \in Nat
      BY <3>4, FS_CardinalityType
    <3>6. Cardinality(u) < Cardinality(t)
      BY <3>3, <3>4, <3>5
    <3> QED
      BY <3>5, <3>6 DEF u
  <2>6. ASSUME NEW k \in 0 .. Cardinality(s) PROVE Cardinality(Oldest(s, k)) = k
    <3>1. CASE k <= Cardinality(t)
      <4>1. Oldest(s, k) = Oldest(t, k)
        <5>1. ~ (Rank(s, m) < k)
          BY <1>0, <2>2, <2>4, <3>1
        <5>2. \A r \in t : Rank(s, r) = Rank(t, r)
          BY <2>3
        <5> QED
          BY <5>1, <5>2 DEF Oldest
      <4>2. k \in 0 .. Cardinality(t)
        BY <1>0, <2>2, <3>1
      <4> QED
        BY <2>2, <4>1, <4>2
    <3>2. CASE k > Cardinality(t)
      <4>1. Cardinality(t) \in Nat /\ k = Cardinality(s) /\ k = Cardinality(t) + 1
        BY <1>0, <2>2, <3>2
      <4>2. ASSUME NEW r \in s PROVE Rank(s, r) < k
        <5>1. CASE r = m
          <6> HIDE DEF t, Rank
          <6> QED
            BY <2>4, <4>1, <5>1
        <5>2. CASE r # m
          <6>1. r \in t
            BY <5>2
          <6> HIDE DEF t, Rank
          <6>2. Rank(s, r) = Rank(t, r) /\ Rank(t, r) \in Nat /\ Rank(t, r) < Cardinality(t)
            BY <2>3, <2>5, <6>1
          <6> QED
            BY <4>1, <6>2
        <5> QED
          BY <5>1, <5>2
      <4>3. Oldest(s, k) = s
        BY <4>2 DEF Oldest
      <4> QED
        BY <4>1, <4>3
    <3> QED
      BY <1>0, <2>2, <3>1, <3>2
  <2> QED
    BY <2>6
<1>3. P = SUBSET K
  <2> HIDE DEF P
  <2>1. P \in SUBSET SUBSET K
    BY DEF P
  <2> QED
    BY <1>1, <1>2, <2>1, SetInduction
<1>4. K \in P
  BY <1>3
<1> QED
  BY <1>4

\* The lesser of two numbers.
LEMMA LesserOf ==
  ASSUME NEW a \in Int, NEW b \in Int
  PROVE  Min({a, b}) = IF a <= b THEN a ELSE b
BY DEF Min

-----------------------------------------------------------------------------
(* The invariant *)

\* The sum with another compactor's counts and another base, as the counters use it.
LEMMA SumMoves ==
  ASSUME TypeOK, CountersAccount, NEW c \in Compactor,
         result' = [result EXCEPT ![c] = result'[c]], result'[c] \in Counts,
         {stats', lost'} \subseteq Counts, done' \in Counts,
         Moved(done', done, Plus(Plus(stats', lost'), result'[c]),
               Plus(Plus(stats, lost), result[c]))
  PROVE  CountersAccount'
<1> DEFINE b == Plus(stats, lost)
           bb == Plus(stats', lost')
           v == result'[c]
           h == [result EXCEPT ![c] = v]
<1>1. result \in [Compactor -> Counts] /\ b \in Counts /\ bb \in Counts /\ v \in Counts
  BY DEF TypeOK, Plus, Counts
<1>2. done = G(result, b)[Compactor]
  BY Zenon DEF CountersAccount, FoldSet, MapThenFoldSet, Folds, Pick, Unfold, G
<1>3. Moved(G(h, bb)[Compactor], G(result, b)[Compactor], Plus(bb, v), Plus(b, result[c]))
  BY <1>1, FoldMoves
<1>4. G(h, bb)[Compactor] \in Counts
  BY <1>1, FoldTyped
<1>5. done' = G(h, bb)[Compactor]
  <2> DEFINE new == G(h, bb)[Compactor]
  <2>1. Moved(new, done, Plus(bb, v), Plus(b, result[c])) /\ new \in Counts
    BY <1>2, <1>3, <1>4
  <2>2. Moved(done', done, Plus(bb, v), Plus(b, result[c]))
    OBVIOUS
  <2> HIDE DEF new, b, bb, v, h
  <2>3. done'.cleared = new.cleared /\ done'.pruned = new.pruned
    BY <2>1, <2>2 DEF Moved
  <2>4. done' \in Counts
    OBVIOUS
  <2> QED
    BY <2>1, <2>3, <2>4 DEF Counts, new
<1>6. result' = h
  OBVIOUS
<1>7. done' = G(result', bb)[Compactor]
  BY <1>5, <1>6
<1> QED
  BY <1>7, Zenon DEF CountersAccount, FoldSet, MapThenFoldSet, Folds, Pick, Unfold, G

\* While nothing that is counted changes, the counters still account for it.
LEMMA Unmoved ==
  ASSUME CountersAccount, UNCHANGED <<result, stats, lost, done>>
  PROVE  CountersAccount'
<1>1. done = G(result, Plus(stats, lost))[Compactor]
  BY Zenon DEF CountersAccount, FoldSet, MapThenFoldSet, Folds, Pick, Unfold, G
<1>2. done' = G(result', Plus(stats', lost'))[Compactor]
  BY <1>1
<1> QED
  BY <1>2, Zenon DEF CountersAccount, FoldSet, MapThenFoldSet, Folds, Pick, Unfold, G

\* A batch is a part of the table, and of the rows it is taken from.
LEMMA BatchOfRows ==
  ASSUME TypeOK, NEW K \in SUBSET rows, NEW n
  PROVE  /\ Oldest(K, n) \in SUBSET K /\ IsFiniteSet(Oldest(K, n))
         /\ Cardinality(Oldest(K, n)) \in Nat
<1>1. Oldest(K, n) \in SUBSET K
  BY DEF Oldest
<1>2. IsFiniteSet(K)
  BY FS_Subset DEF TypeOK
<1> QED
  BY <1>1, <1>2, FS_Subset, FS_CardinalityType

\* What Clear and Prune count is counted once, in the result and in the history.
LEMMA CountingMoves ==
  ASSUME TypeOK, CountersAccount, NEW c \in Compactor, NEW count \in Counts,
         result' = [result EXCEPT ![c] = Plus(@, count)], done' = Plus(done, count),
         UNCHANGED <<stats, lost>>
  PROVE  /\ result' \in [Compactor -> Counts] /\ done' \in Counts
         /\ CountersAccount'
<1>0. \A a, b \in Counts : Plus(a, b) \in Counts
  BY DEF Plus, Counts
<1>1. result \in [Compactor -> Counts] /\ result[c] \in Counts
      /\ {stats, done, lost} \subseteq Counts
  BY DEF TypeOK
<1>2. result'[c] = Plus(result[c], count)
  BY <1>1
<1>3. result' \in [Compactor -> Counts] /\ result'[c] \in Counts /\ done' \in Counts
  BY <1>0, <1>1, <1>2
<1>4. result' = [result EXCEPT ![c] = result'[c]]
  BY <1>1, <1>2
<1>5. Moved(done', done, Plus(Plus(stats', lost'), result'[c]), Plus(Plus(stats, lost), result[c]))
  BY <1>1, <1>2 DEF Moved, Plus, Counts
<1>6. {stats', lost'} \subseteq Counts
  BY <1>1
<1>7. CountersAccount'
  BY <1>3, <1>4, <1>5, <1>6, SumMoves
<1> QED
  BY <1>3, <1>7

\* A compactor that leaves moves its result to the counters or to what is lost.
LEMMA LeavingMoves ==
  ASSUME TypeOK, CountersAccount, NEW c \in Compactor, Leave(c), UNCHANGED done,
         \/ stats' = Plus(stats, result[c]) /\ UNCHANGED lost
         \/ lost' = Plus(lost, result[c]) /\ UNCHANGED stats
  PROVE  /\ pc' \in [Compactor -> Pc] /\ began' \in [Compactor -> Nat]
         /\ result' \in [Compactor -> Counts] /\ {stats', lost'} \subseteq Counts
         /\ CountersAccount'
<1>0. \A a, b \in Counts : Plus(a, b) \in Counts
  BY DEF Plus, Counts
<1>1. result \in [Compactor -> Counts] /\ result[c] \in Counts
      /\ {stats, done, lost} \subseteq Counts
  BY DEF TypeOK
<1>2. Nothing \in Counts
  BY DEF Nothing, Counts
<1>3. result' = [result EXCEPT ![c] = Nothing] /\ result'[c] = Nothing
  BY <1>1 DEF Leave
<1>4. result' \in [Compactor -> Counts] /\ {stats', lost'} \subseteq Counts
  BY <1>0, <1>1, <1>2, <1>3
<1>5. result' = [result EXCEPT ![c] = result'[c]]
  BY <1>3
<1>6. Moved(done', done, Plus(Plus(stats', lost'), result'[c]), Plus(Plus(stats, lost), result[c]))
  BY <1>1, <1>3 DEF Moved, Plus, Counts, Nothing
<1>7. CountersAccount'
  BY <1>1, <1>2, <1>3, <1>4, <1>5, <1>6, SumMoves
<1>8. pc' \in [Compactor -> Pc] /\ began' \in [Compactor -> Nat]
  BY DEF Leave, TypeOK, Pc
<1> QED
  BY <1>4, <1>7, <1>8

\* Without rows of its own, a step keeps the table as it is typed.
LEMMA FewerRows ==
  ASSUME TypeOK, Numbered(rows), NEW B, rows' = rows \ B, made' = made
  PROVE  /\ IsFiniteSet(rows')
         /\ \A r \in rows' : r \in [id : 1 .. made', at : Nat, kept : BOOLEAN, cleared : BOOLEAN]
         /\ Numbered(rows')
<1>1. rows' \in SUBSET rows
  OBVIOUS
<1> QED
  BY <1>1, FS_Subset DEF TypeOK, Numbered

\* The next place of a phase is a place.
LEMMA NextPlace ==
  ASSUME TypeOK, NEW c \in Compactor, NEW n, NEW p \in Pc, NextPhase(c, n, p)
  PROVE  pc' \in [Compactor -> Pc]
BY DEF NextPhase, TypeOK, Pc

\* New rows, and rows whose payload was cleared, are rows with ids of their own.
LEMMA ObserveInv == ASSUME IInv, Observe PROVE IInv'
<1>1. PICK at \in 0 .. now, kept \in BOOLEAN, n \in 1 .. MaxRows - made :
        /\ made' = made + n
        /\ rows' = rows \cup {[id |-> i, at |-> at, kept |-> kept, cleared |-> FALSE] :
                                i \in made + 1 .. made + n}
        /\ UNCHANGED <<stats, now, compactor, kills, done, lost>>
  BY DEF Observe
<1> DEFINE f == [i \in made + 1 .. made + n |->
                   [id |-> i, at |-> at, kept |-> kept, cleared |-> FALSE]]
           new == {f[i] : i \in made + 1 .. made + n}
<1>2. made \in Nat /\ now \in Nat /\ MaxRows \in Nat /\ n \in Nat /\ at \in Nat
  BY AuditAssumption DEF IInv, TypeOK
<1>3. rows' = rows \cup new
  BY <1>1
<1>4. IsFiniteSet(made + 1 .. made + n)
  BY <1>2, FS_Interval
<1>5. IsFiniteSet(new)
  <2> HIDE DEF f
  <2> QED
    BY <1>4, ValuesFinite
<1>6. \A r \in new : /\ r.id \in made + 1 .. made + n /\ r = f[r.id]
                     /\ r \in [id : 1 .. made', at : Nat, kept : BOOLEAN, cleared : BOOLEAN]
  <2>1. ASSUME NEW i \in made + 1 .. made + n
        PROVE  /\ f[i].id = i
               /\ f[i] \in [id : 1 .. made', at : Nat, kept : BOOLEAN, cleared : BOOLEAN]
    <3>1. i \in 1 .. made'
      BY <1>1, <1>2
    <3>2. f[i] = [id |-> i, at |-> at, kept |-> kept, cleared |-> FALSE]
      OBVIOUS
    <3> QED
      BY <1>2, <3>1, <3>2
  <2> HIDE DEF f
  <2> QED
    BY <2>1
<1> HIDE DEF new, f
<1>7. IsFiniteSet(rows')
  BY <1>3, <1>5, FS_Union DEF IInv, TypeOK
<1>8. \A r \in rows : /\ r.id \in 1 .. made
                      /\ r \in [id : 1 .. made', at : Nat, kept : BOOLEAN, cleared : BOOLEAN]
  BY <1>1, <1>2 DEF IInv, TypeOK
<1>9. \A r \in rows' : r \in [id : 1 .. made', at : Nat, kept : BOOLEAN, cleared : BOOLEAN]
  BY <1>3, <1>6, <1>8
<1>10. (\A r \in rows : r.id <= made) /\ \A q \in new : q.id > made
  BY <1>2, <1>6, <1>8
<1>11. Numbered(rows')
  <2>1. \A r \in rows' : r.id \in Nat /\ r.at \in Nat
    BY <1>1, <1>2, <1>9
  <2>2. ASSUME NEW r \in rows', NEW q \in rows', r.id = q.id PROVE r = q
    <3>1. CASE r \in rows /\ q \in rows
      BY <2>2, <3>1 DEF IInv, Numbered
    <3>2. CASE r \in new /\ q \in new
      BY <1>6, <2>2, <3>2
    <3>3. CASE ~ (r \in rows /\ q \in rows) /\ ~ (r \in new /\ q \in new)
      BY <1>2, <1>3, <1>6, <1>8, <2>2, <3>3
    <3> QED
      BY <1>3, <3>1, <3>2, <3>3
  <2> QED
    BY <2>1, <2>2 DEF Numbered
<1>12. TypeOK'
  <2>1. made' \in Nat
    BY <1>1, <1>2
  <2> QED
    BY <1>1, <1>7, <1>9, <2>1 DEF IInv, TypeOK, compactor
<1>13. CountersAccount'
  BY <1>1, Unmoved DEF IInv, compactor
<1> QED
  BY <1>11, <1>12, <1>13 DEF IInv

LEMMA ExpireInv == ASSUME IInv, NEW c \in Compactor, Expire(c) PROVE IInv'
<1>1. PICK B, n : rows' = rows \ B /\ NextPhase(c, n, "clear")
  BY DEF Expire
<1>2. UNCHANGED <<stats, now, began, result, made, kills, done, lost>>
  BY DEF Expire
<1>3. pc' \in [Compactor -> Pc]
  BY <1>1, NextPlace DEF IInv, Pc
<1>4. TypeOK' /\ Numbered(rows')
  <2>1. /\ IsFiniteSet(rows')
        /\ \A r \in rows' : r \in [id : 1 .. made', at : Nat, kept : BOOLEAN, cleared : BOOLEAN]
        /\ Numbered(rows')
    BY <1>1, <1>2, FewerRows DEF IInv
  <2> QED
    BY <1>2, <1>3, <2>1 DEF IInv, TypeOK
<1>5. CountersAccount'
  BY <1>2, Unmoved DEF IInv
<1> QED
  BY <1>4, <1>5 DEF IInv

LEMMA ClearInv == ASSUME IInv, NEW c \in Compactor, Clear(c) PROVE IInv'
<1> DEFINE batch == IF PayloadRetention = 0 THEN {} ELSE Oldest(Clearable(c), BatchSize)
           count == [cleared |-> Cardinality(batch), pruned |-> 0]
           f == [r \in batch |-> [r EXCEPT !.cleared = TRUE]]
           new == {f[r] : r \in batch}
<1>1. /\ rows' = (rows \ batch) \cup new
      /\ result' = [result EXCEPT ![c] = Plus(@, count)]
      /\ done' = Plus(done, count) /\ NextPhase(c, count.cleared, "prune")
      /\ UNCHANGED <<stats, now, began, made, kills, lost>>
  BY DEF Clear
<1>2. batch \in SUBSET rows /\ IsFiniteSet(batch) /\ Cardinality(batch) \in Nat
  <2>1. Clearable(c) \in SUBSET rows
    BY DEF Clearable, Kept
  <2> QED
    BY <2>1, BatchOfRows, FS_EmptySet, FS_CardinalityType DEF IInv
<1> HIDE DEF batch
<1>3. count \in Counts
  BY <1>2 DEF Counts
<1>4. IsFiniteSet(new)
  <2> HIDE DEF f
  <2> QED
    BY <1>2, ValuesFinite
<1>5. \A q \in new : \E r \in batch : /\ q.id = r.id /\ q = f[r]
                                      /\ q \in [id : 1 .. made, at : Nat, kept : BOOLEAN,
                                                cleared : BOOLEAN]
  <2> DEFINE Row == [id : 1 .. made, at : Nat, kept : BOOLEAN, cleared : BOOLEAN]
  <2>1. \A r \in batch : r \in Row
    BY <1>2 DEF IInv, TypeOK
  <2>2. \A r \in batch : f[r].id = r.id /\ f[r] \in Row
    BY <2>1
  <2> HIDE DEF Row
  <2>3. \A q \in new : \E r \in batch : q = f[r]
    BY DEF new
  <2> HIDE DEF new, f
  <2>4. \A q \in new : \E r \in batch : q.id = r.id /\ q = f[r] /\ q \in Row
    BY <2>2, <2>3
  <2> QED
    BY <2>4 DEF Row
<1> HIDE DEF new, f, count
<1>6. IsFiniteSet(rows')
  BY <1>1, <1>2, <1>4, FS_Subset, FS_Union DEF IInv, TypeOK
<1>7. \A r \in rows' : r \in [id : 1 .. made, at : Nat, kept : BOOLEAN, cleared : BOOLEAN]
  BY <1>1, <1>5 DEF IInv, TypeOK
<1>8. Numbered(rows')
  <2>1. \A r \in rows' : r.id \in Nat /\ r.at \in Nat
    BY <1>7 DEF IInv, TypeOK
  <2>2. \A r, q \in rows : r.id = q.id => r = q
    BY DEF IInv, Numbered
  <2>3. ASSUME NEW r \in rows', NEW q \in rows', r.id = q.id PROVE r = q
    <3>1. CASE r \in rows \ batch /\ q \in rows \ batch
      BY <2>2, <2>3, <3>1
    <3>2. CASE r \in new /\ q \in new
      BY <1>2, <1>5, <2>2, <2>3, <3>2
    <3>3. CASE r \in new /\ q \in rows \ batch
      BY <1>2, <1>5, <2>2, <2>3, <3>3
    <3>4. CASE r \in rows \ batch /\ q \in new
      BY <1>2, <1>5, <2>2, <2>3, <3>4
    <3> QED
      BY <1>1, <3>1, <3>2, <3>3, <3>4
  <2> QED
    BY <2>1, <2>3 DEF Numbered
<1>9. result' \in [Compactor -> Counts] /\ done' \in Counts /\ CountersAccount'
  BY <1>1, <1>3, CountingMoves DEF IInv
<1>10. pc' \in [Compactor -> Pc]
  BY <1>1, NextPlace DEF IInv, Pc
<1>11. TypeOK'
  BY <1>1, <1>6, <1>7, <1>9, <1>10 DEF IInv, TypeOK
<1> QED
  BY <1>8, <1>9, <1>11 DEF IInv

LEMMA PruneInv == ASSUME IInv, NEW c \in Compactor, Prune(c) PROVE IInv'
<1> DEFINE count == [cleared |-> 0, pruned |-> Cardinality(Pruned(c))]
<1>1. /\ rows' = rows \ Pruned(c)
      /\ result' = [result EXCEPT ![c] = Plus(@, count)]
      /\ done' = Plus(done, count) /\ NextPhase(c, count.pruned, "tell")
      /\ UNCHANGED <<stats, now, began, made, kills, lost>>
  BY DEF Prune
<1>2. Cardinality(Pruned(c)) \in Nat
  <2>1. Kept \in SUBSET rows
    BY DEF Kept
  <2> QED
    BY <2>1, BatchOfRows, FS_EmptySet DEF IInv, Pruned
<1>3. count \in Counts
  BY <1>2 DEF Counts
<1> HIDE DEF count
<1>4. result' \in [Compactor -> Counts] /\ done' \in Counts /\ CountersAccount'
  BY <1>1, <1>3, CountingMoves DEF IInv
<1>5. pc' \in [Compactor -> Pc]
  BY <1>1, NextPlace DEF IInv, Pc
<1>6. TypeOK' /\ Numbered(rows')
  <2>1. /\ IsFiniteSet(rows')
        /\ \A r \in rows' : r \in [id : 1 .. made', at : Nat, kept : BOOLEAN, cleared : BOOLEAN]
        /\ Numbered(rows')
    BY <1>1, FewerRows DEF IInv
  <2> QED
    BY <1>1, <1>4, <1>5, <2>1 DEF IInv, TypeOK
<1> QED
  BY <1>4, <1>6 DEF IInv

LEMMA TellInv == ASSUME IInv, NEW c \in Compactor, Tell(c) PROVE IInv'
<1>1. Leave(c) /\ UNCHANGED <<rows, now, made, kills, done, lost>>
  BY DEF Tell
<1>2. stats' = Plus(stats, result[c])
  <2>1. CASE result[c] = Nothing
    <3>1. stats \in Counts
      BY DEF IInv, TypeOK
    <3>2. Plus(stats, Nothing) = stats
      BY <3>1 DEF Plus, Nothing, Counts
    <3> QED
      BY <2>1, <3>2 DEF Tell
  <2>2. CASE result[c] # Nothing
    BY <2>2 DEF Tell, Added
  <2> QED
    BY <2>1, <2>2
<1>3. /\ pc' \in [Compactor -> Pc] /\ began' \in [Compactor -> Nat]
      /\ result' \in [Compactor -> Counts] /\ {stats', lost'} \subseteq Counts
      /\ CountersAccount'
  BY <1>1, <1>2, LeavingMoves DEF IInv
<1>4. TypeOK' /\ Numbered(rows')
  BY <1>1, <1>3 DEF IInv, TypeOK, Numbered
<1> QED
  BY <1>3, <1>4 DEF IInv

LEMMA KillInv == ASSUME IInv, NEW c \in Compactor, Kill(c) PROVE IInv'
<1>1. Leave(c) /\ UNCHANGED <<rows, stats, now, made, done>> /\ lost' = Plus(lost, result[c])
  BY DEF Kill, table
<1>2. /\ pc' \in [Compactor -> Pc] /\ began' \in [Compactor -> Nat]
      /\ result' \in [Compactor -> Counts] /\ {stats', lost'} \subseteq Counts
      /\ CountersAccount'
  BY <1>1, LeavingMoves DEF IInv
<1>3. TypeOK' /\ Numbered(rows')
  BY <1>1, <1>2 DEF IInv, TypeOK, Numbered
<1> QED
  BY <1>2, <1>3 DEF IInv

LEMMA BeginInv == ASSUME IInv, NEW c \in Compactor, Begin(c) PROVE IInv'
<1>1. /\ pc' = [pc EXCEPT ![c] = "expire"] /\ began' = [began EXCEPT ![c] = now]
      /\ UNCHANGED <<rows, stats, now, result, made, kills, done, lost>>
  BY DEF Begin, table
<1>2. CountersAccount'
  BY <1>1, Unmoved DEF IInv
<1> QED
  BY <1>1, <1>2 DEF IInv, TypeOK, Numbered, Pc

LEMMA InitInv == ASSUME Init PROVE IInv
<1>1. TypeOK /\ Numbered(rows)
  BY FS_EmptySet DEF Init, TypeOK, Numbered, Counts, Nothing, Pc
<1>2. result \in [Compactor -> Counts] /\ Plus(stats, lost) = Nothing /\ done = Nothing
  BY <1>1 DEF Init, Plus, Nothing, TypeOK
<1> DEFINE P == {s \in SUBSET Compactor : G(result, Nothing)[s] = Nothing}
<1>3. {} \in P
  BY FoldUnfolds DEF Unfold
<1>4. ASSUME NEW s \in SUBSET Compactor, s # {}, \A x \in s : s \ {x} \in P
      PROVE  s \in P
  <2>1. Pick(s) \in s
    BY <1>4, Rest
  <2>2. G(result, Nothing)[s] = Plus(G(result, Nothing)[s \ {Pick(s)}], result[Pick(s)])
    BY <1>4, FoldUnfolds DEF Unfold
  <2>3. G(result, Nothing)[s \ {Pick(s)}] = Nothing /\ result[Pick(s)] = Nothing
    BY <1>4, <2>1 DEF Init
  <2> QED
    BY <2>2, <2>3 DEF Plus, Nothing
<1>5. P = SUBSET Compactor
  <2> HIDE DEF P
  <2>1. P \in SUBSET SUBSET Compactor
    BY DEF P
  <2> QED
    BY <1>3, <1>4, <2>1, SetInduction, AuditAssumption
<1>6. done = G(result, Plus(stats, lost))[Compactor]
  BY <1>2, <1>5
<1>7. CountersAccount
  BY <1>6, Zenon DEF CountersAccount, FoldSet, MapThenFoldSet, Folds, Pick, Unfold, G
<1> QED
  BY <1>1, <1>7 DEF IInv

\* IInv holds of every state of every run of the compactors.
THEOREM Invariance == Spec => []IInv
<1>1. Init => IInv
  BY InitInv
<1>2. IInv /\ [Next]_vars => IInv'
  <2> SUFFICES ASSUME IInv, [Next]_vars PROVE IInv'
    OBVIOUS
  <2>1. CASE Tick
    <3>1. now' \in Nat /\ UNCHANGED <<table, compactor, made, kills, done, lost>>
      BY <2>1, AuditAssumption DEF Tick, IInv, TypeOK
    <3>2. CountersAccount'
      BY <3>1, Unmoved DEF IInv, table, compactor
    <3> QED
      BY <3>1, <3>2 DEF IInv, TypeOK, Numbered, table, compactor
  <2>2. CASE Observe
    BY <2>2, ObserveInv
  <2>3. ASSUME NEW c \in Compactor, Work(c) PROVE IInv'
    BY <2>3, BeginInv, ExpireInv, ClearInv, PruneInv, TellInv DEF Work
  <2>4. ASSUME NEW c \in Compactor, Kill(c) PROVE IInv'
    BY <2>4, KillInv
  <2>5. CASE UNCHANGED vars
    <3>1. CountersAccount'
      BY <2>5, Unmoved DEF IInv, vars, table, compactor
    <3> QED
      BY <2>5, <3>1 DEF IInv, TypeOK, Numbered, vars, table, compactor
  <2> QED
    BY <2>1, <2>2, <2>3, <2>4, <2>5 DEF Next
<1> QED
  BY <1>1, <1>2, PTL DEF Spec

\* CompactionStats: the stored counters account for every cleared payload and pruned
\* row, whatever compactors run at once and whenever they are killed.
THEOREM CountersAreExact == Spec => []CountersAccount
<1>1. IInv => CountersAccount
  BY DEF IInv
<1> QED
  BY <1>1, Invariance, PTL

\* A batch of the excess, when it is not a full one, leaves the ceiling.
LEMMA LastBatch ==
  ASSUME IInv, NEW c \in Compactor, Prune(c), Ceiling > 0,
         Cardinality(Pruned(c)) < BatchSize
  PROVE  Cardinality({r \in rows' : r.kept}) <= Ceiling
<1>1. rows' = rows \ Pruned(c)
  BY DEF Prune
<1>2. IsFiniteSet(Kept) /\ Cardinality(Kept) \in Nat /\ Kept \in SUBSET rows /\ Numbered(Kept)
  <2>1. Kept \in SUBSET rows
    BY DEF Kept
  <2> QED
    BY <2>1, FS_Subset, FS_CardinalityType DEF IInv, TypeOK, Numbered
<1>3. {r \in rows' : r.kept} = Kept \ Pruned(c)
  BY <1>1 DEF Kept
<1>4. Ceiling \in Nat /\ BatchSize \in Nat \ {0}
  BY AuditAssumption
<1> DEFINE excess == Cardinality(Kept) - Ceiling
           K == Cardinality(Kept)
<1>5. CASE excess <= 0
  <2>1. Pruned(c) = {}
    BY <1>5 DEF Pruned, Excess
  <2>2. Kept \ Pruned(c) = Kept
    BY <2>1
  <2> QED
    BY <1>2, <1>3, <1>4, <1>5, <2>2
<1>6. CASE excess > 0
  <2> DEFINE n == IF excess <= BatchSize THEN excess ELSE BatchSize
  <2>1. Pruned(c) = Oldest(Kept, n)
    <3>1. Min({excess, BatchSize}) = n
      BY <1>2, <1>4, LesserOf
    <3> HIDE DEF n
    <3> QED
      BY <1>2, <1>4, <1>6, <3>1 DEF Pruned, Excess
  <2>2. n \in 0 .. K
    BY <1>2, <1>4, <1>6
  <2>3. Cardinality(Pruned(c)) = n
    <3> HIDE DEF n
    <3> QED
      BY <1>2, <2>1, <2>2, OldestCounts
  <2>4. n = K - Ceiling
    BY <1>2, <1>4, <1>6, <2>3
  <2>5. Pruned(c) \in SUBSET Kept
    BY <2>1 DEF Oldest
  <2>6. Cardinality(Kept \ Pruned(c)) = K - Cardinality(Pruned(c))
    <3>1. Kept \cap Pruned(c) = Pruned(c)
      BY <2>5
    <3> QED
      BY <1>2, <3>1, FS_Difference
  <2>7. K \in Nat /\ Cardinality(Kept \ Pruned(c)) = K - (K - Ceiling)
    BY <1>2, <2>3, <2>4, <2>6
  <2> HIDE DEF n, K
  <2>8. Cardinality(Kept \ Pruned(c)) = Ceiling
    BY <1>4, <2>7
  <2> QED
    BY <1>3, <1>4, <2>8
<1> QED
  BY <1>2, <1>4, <1>5, <1>6

\* _prune_changed_observations: a compactor that stops pruning leaves the table at its
\* ceiling or below, whatever arrived and whoever else pruned since it began.
THEOREM CeilingIsReached == Spec => CeilingReached
<1>1. IInv /\ [Next]_vars =>
        [\A c \in Compactor : pc[c] = "prune" /\ pc'[c] = "tell" /\ Ceiling > 0
           => Cardinality({r \in rows' : r.kept}) <= Ceiling]_vars
  <2> SUFFICES ASSUME IInv, Next, NEW c \in Compactor,
                      pc[c] = "prune", pc'[c] = "tell", Ceiling > 0
               PROVE  Cardinality({r \in rows' : r.kept}) <= Ceiling
    OBVIOUS
  <2>1. pc \in [Compactor -> Pc]
    BY DEF IInv, TypeOK
  <2>2. ~ Tick /\ ~ Observe
    BY DEF Tick, Observe, compactor
  <2>3. ASSUME NEW d \in Compactor, Work(d) \/ Kill(d) PROVE d = c /\ Prune(c)
    <3>1. \E p : pc' = [pc EXCEPT ![d] = p]
      BY <2>3 DEF Work, Kill, Begin, Expire, Clear, Prune, Tell, Leave, NextPhase
    <3>2. d = c
      BY <2>1, <3>1
    <3>3. ~ Kill(c) /\ ~ Begin(c) /\ ~ Expire(c) /\ ~ Clear(c) /\ ~ Tell(c)
      BY <2>1 DEF Kill, Begin, Expire, Clear, Tell, Leave
    <3> QED
      BY <2>3, <3>2, <3>3 DEF Work
  <2>4. Prune(c)
    BY <2>2, <2>3 DEF Next
  <2>5. Cardinality(Pruned(c)) < BatchSize
    BY <2>1, <2>4 DEF Prune, NextPhase
  <2> QED
    BY <2>4, <2>5, LastBatch
<1> QED
  BY <1>1, Invariance, PTL DEF Spec, CeilingReached
=============================================================================
