--------------------------- MODULE ProjectionProofs ---------------------------
(***************************************************************************)
(* What the projections of the catalog say, for any markets, policies and  *)
(* manual actions, whenever they are rebuilt.  IInv says that the mappings *)
(* are a function of what the last market rebuild read, which makes them   *)
(* agree with each other, and that each log replays to what it explains.   *)
(***************************************************************************)
EXTENDS Projection, FiniteSetTheorems, WellFoundedInduction, TLAPS

-----------------------------------------------------------------------------
(* Numbers and finite sets *)

\* Every set of natural numbers that is not empty has a least element.
LEMMA LeastNumber ==
  ASSUME NEW T \in SUBSET Nat, T # {}
  PROVE  \E x \in T : \A y \in T : x <= y
<1> DEFINE R == OpToRel(<, Nat)
<1>1. IsWellFoundedOn(R, Nat)
  BY NatLessThanWellFounded
<1>2. \A x, y \in Nat : <<y, x>> \in R <=> y < x
  BY DEF OpToRel
<1> HIDE DEF R
<1>3. PICK x \in T : \A y \in T : ~ (<<y, x>> \in R)
  BY <1>1, WFMin
<1>4. \A y \in T : ~ (y < x)
  BY <1>2, <1>3
<1>5. x \in Nat /\ T \subseteq Nat
  OBVIOUS
<1> HIDE <1>2, <1>3
<1> QED
  BY <1>4, <1>5

\* A set of numbers with 0 and with the successor of each of its members is Nat.
LEMMA NumberInduction ==
  ASSUME NEW T \in SUBSET Nat, 0 \in T, \A n \in T : n + 1 \in T
  PROVE  T = Nat
<1> DEFINE U == Nat \ T
<1> SUFFICES ASSUME U # {} PROVE FALSE
  OBVIOUS
<1>1. PICK x \in U : \A y \in U : x <= y
  BY LeastNumber
<1>2. x # 0 /\ x - 1 \in T
  BY <1>1
<1> QED
  BY <1>2

\* The values of a function on a finite set are finitely many.
LEMMA ValuesFinite ==
  ASSUME NEW S, IsFiniteSet(S), NEW f
  PROVE  IsFiniteSet({f[x] : x \in S})
<1> DEFINE T == {f[x] : x \in S}
           g == [x \in S |-> f[x]]
<1>1. g \in Surjection(S, T)
  <2>1. g \in [S -> T]
    OBVIOUS
  <2>2. \A t \in T : \E s \in S : g[s] = t
    OBVIOUS
  <2> HIDE DEF g, T
  <2> QED
    BY <2>1, <2>2 DEF Surjection
<1> HIDE DEF g, T
<1>2. IsFiniteSet(T)
  BY <1>1, FS_Surjection
<1> QED
  BY <1>2 DEF T

-----------------------------------------------------------------------------
(* What a rebuild computes, as a function of what it reads *)

\* Catalogs and manual actions, as a rebuild may read them.
Catalogs == {rs \in [Market -> (UNION {Offers[m] : m \in Market}) \cup {None}] :
               \A m \in Market : rs[m] \in Offers[m] \cup {None}}
Overrides == [Key -> Symbol \cup {None}]

Members(rs, ov, s) == {m \in ListedIn(rs) : Decide(rs, ov, m).symbol = s}

MapOf(rs, ov, m) ==
    LET choice == Decide(rs, ov, m)
        group == Group(Members(rs, ov, choice.symbol))
    IN  [market |-> m, asset |-> choice.symbol, rule |-> choice.rule, group |-> group,
         confidence |-> Confidence(choice.rule, group, Evidence(rs, m))]

\* A finite set of numbers that is not empty has its greatest among them.
LEMMA GreatestIn ==
  ASSUME NEW S \in SUBSET Int, IsFiniteSet(S), S # {}
  PROVE  Max(S) \in S
<1> DEFINE above(x) == {y \in S : y > x}
           T == {Cardinality(above(x)) : x \in S}
<1>1. \A x \in S : IsFiniteSet(above(x)) /\ Cardinality(above(x)) \in Nat
  BY FS_Subset, FS_CardinalityType
<1>2. T \in SUBSET Nat /\ T # {}
  BY <1>1
<1> HIDE DEF T
<1>3. PICK k \in T : \A j \in T : k <= j
  BY <1>2, LeastNumber
<1>4. PICK x \in S : Cardinality(above(x)) = k
  BY DEF T
<1>5. ASSUME NEW y \in S, y > x PROVE FALSE
  <2>1. x \in Int /\ y \in Int /\ S \subseteq Int
    OBVIOUS
  <2>2. above(y) \subseteq above(x) /\ y \in above(x) /\ y \notin above(y)
    <3>1. ~(y > y) /\ \A z \in S : z > y => z > x
      BY <1>5, <2>1
    <3> QED
      BY <1>5, <3>1, Zenon
  <2>3. Cardinality(above(y)) \in T
    BY DEF T
  <2> HIDE DEF above
  <2>4. Cardinality(above(y)) <= Cardinality(above(x)) /\ Cardinality(above(y)) # Cardinality(above(x))
    <3>1. /\ Cardinality(above(y)) <= Cardinality(above(x))
          /\ Cardinality(above(y)) = Cardinality(above(x)) => above(y) = above(x)
      BY <1>1, <2>2, FS_Subset
    <3>2. above(y) # above(x)
      BY <2>2
    <3> QED
      BY <3>1, <3>2
  <2>5. k <= Cardinality(above(y)) /\ k \in Nat /\ Cardinality(above(y)) \in Nat
    BY <1>1, <1>2, <1>3, <2>3
  <2> QED
    BY <1>4, <2>4, <2>5
<1>6. x \in S /\ \A y \in S : x >= y
  BY <1>5
<1> QED
  BY <1>6, Zenon DEF Max

\* A listed market is one of the offers of it.
LEMMA ListedRow ==
  ASSUME NEW rs \in Catalogs, NEW m \in ListedIn(rs)
  PROVE  /\ m \in Market /\ rs[m] \in Offers[m] /\ rs[m].symbol \in Symbol
         /\ DOMAIN rs[m].hints = 1 .. Len(rs[m].hints) /\ Len(rs[m].hints) \in Nat
         /\ \A i \in DOMAIN rs[m].hints : rs[m].hints[i].to \in Symbol
<1>1. m \in Market /\ rs[m] \in Offers[m]
  BY DEF Catalogs, ListedIn
<1> QED
  BY <1>1, ProjectionAssumption

\* The policies choose a symbol, by the rule for which there is accepted evidence.
LEMMA PolicyChooses ==
  ASSUME NEW rs \in Catalogs, NEW m \in ListedIn(rs)
  PROVE  /\ Policy(rs, m) \in [symbol : Symbol, rule : {"EXACT", "UNIT", "ALIAS", "SUFFIX"}]
         /\ Policy(rs, m).rule # "EXACT" =>
              \E p \in Proposals(rs, m) :
                 p.rule = Policy(rs, m).rule /\ p.to = Policy(rs, m).symbol /\ p.accepted
         /\ Policy(rs, m).rule = "UNIT" => Policy(rs, m).symbol = Unit[rs[m].symbol]
         /\ Policy(rs, m).rule = "EXACT" => Policy(rs, m).symbol = rs[m].symbol
<1> DEFINE s == rs[m].symbol
           all == rs[m].hints
           hints == {i \in DOMAIN all : HintAccepted(rs, m, all[i])}
           choice == IF Strip[s] # None THEN Choice(Strip[s], "SUFFIX")
                     ELSE IF hints # {} THEN Choice(all[Max(hints)].to, "ALIAS")
                     ELSE IF Unit[s] \in Exact(rs) THEN Choice(Unit[s], "UNIT")
                     ELSE Choice(s, "EXACT")
<1>1. Policy(rs, m) = choice
  BY Zenon DEF Policy
<1>2. /\ s \in Symbol /\ DOMAIN all = 1 .. Len(all) /\ Len(all) \in Nat
      /\ \A i \in DOMAIN all : all[i].to \in Symbol
  BY ListedRow
<1>3. Strip[s] \in Symbol \cup {None} /\ Unit[s] \in Symbol \cup {None}
  BY <1>2, MatchingAssumption
<1>4. CASE Strip[s] # None
  <2>1. choice = Choice(Strip[s], "SUFFIX")
    BY <1>4
  <2>2. Proposal("SUFFIX", Strip[s], TRUE, 100) \in Proposals(rs, m)
    BY <1>4 DEF Proposals, SuffixProposals
  <2> QED
    BY <1>1, <1>3, <1>4, <2>1, <2>2 DEF Choice, Proposal
<1>5. CASE Strip[s] = None /\ hints # {}
  <2>1. Max(hints) \in hints
    <3>1. hints \in SUBSET (1 .. Len(all))
      BY <1>2
    <3>2. IsFiniteSet(1 .. Len(all))
      BY <1>2, FS_Interval
    <3>3. hints \in SUBSET Int /\ IsFiniteSet(hints)
      BY <1>2, <3>1, <3>2, FS_Subset
    <3> HIDE DEF hints
    <3> QED
      BY <1>5, <3>3, GreatestIn
  <2> DEFINE i == Max(hints)
  <2>2. i \in DOMAIN all /\ HintAccepted(rs, m, all[i])
    BY <2>1
  <2> HIDE DEF i
  <2>3. choice = Choice(all[i].to, "ALIAS")
    BY <1>5 DEF i
  <2>4. Proposal("ALIAS", all[i].to, HintAccepted(rs, m, all[i]), Percent(Checks(rs, m, all[i])))
          \in Proposals(rs, m)
    BY <2>2 DEF Proposals, AliasProposals
  <2> DEFINE p == Proposal("ALIAS", all[i].to, HintAccepted(rs, m, all[i]),
                           Percent(Checks(rs, m, all[i])))
  <2>5. p.rule = "ALIAS" /\ p.to = all[i].to /\ p.accepted = HintAccepted(rs, m, all[i])
    BY DEF Proposal
  <2>6. p.accepted
    BY <2>2, <2>5, Zenon
  <2> HIDE DEF p
  <2>7. p \in Proposals(rs, m)
    BY <2>4 DEF p
  <2>8. Policy(rs, m).rule = "ALIAS" /\ Policy(rs, m).symbol = all[i].to
        /\ Policy(rs, m) \in [symbol : Symbol, rule : {"EXACT", "UNIT", "ALIAS", "SUFFIX"}]
    <3>1. Policy(rs, m) = [symbol |-> all[i].to, rule |-> "ALIAS"] /\ all[i].to \in Symbol
      BY <1>1, <1>2, <2>2, <2>3 DEF Choice
    <3> HIDE DEF all, choice, hints
    <3> QED
      BY <3>1
  <2> QED
    BY <2>5, <2>6, <2>7, <2>8, Zenon
<1>6. CASE Strip[s] = None /\ hints = {} /\ Unit[s] \in Exact(rs)
  <2>1. choice = Choice(Unit[s], "UNIT")
    BY <1>6
  <2>2. Unit[s] \in Symbol
    <3>1. \A n \in ListedIn(rs) : rs[n].symbol \in Symbol
      BY ListedRow
    <3> QED
      BY <1>6, <3>1 DEF Exact
  <2>3. Proposal("UNIT", Unit[s], TRUE, 95) \in Proposals(rs, m)
    BY <1>6, <2>2, MatchingAssumption DEF Proposals, UnitProposals
  <2>4. Policy(rs, m) = [symbol |-> Unit[s], rule |-> "UNIT"]
    BY <1>1, <2>1 DEF Choice
  <2> DEFINE p == Proposal("UNIT", Unit[s], TRUE, 95)
  <2>5. p.rule = "UNIT" /\ p.to = Unit[s] /\ p.accepted
    BY DEF Proposal
  <2>6. p \in Proposals(rs, m)
    BY <2>3
  <2> HIDE DEF p
  <2>7. Policy(rs, m).rule = "UNIT" /\ Policy(rs, m).symbol = Unit[s]
        /\ Policy(rs, m) \in [symbol : Symbol, rule : {"EXACT", "UNIT", "ALIAS", "SUFFIX"}]
    BY <2>2, <2>4
  <2> QED
    BY <2>5, <2>6, <2>7, Zenon
<1>7. CASE Strip[s] = None /\ hints = {} /\ ~ (Unit[s] \in Exact(rs))
  <2>1. choice = Choice(s, "EXACT")
    BY <1>7
  <2>2. Policy(rs, m) = [symbol |-> s, rule |-> "EXACT"] /\ s \in Symbol
    BY <1>1, <1>2, <2>1 DEF Choice
  <2>3. Policy(rs, m).symbol = rs[m].symbol /\ Policy(rs, m).rule = "EXACT"
    BY <2>2
  <2> HIDE DEF s, choice, hints
  <2> QED
    BY <2>2, <2>3
<1> QED
  BY <1>4, <1>5, <1>6, <1>7

\* What is decided is a symbol, and no renamed one unless an action maps to it.
LEMMA DecideChooses ==
  ASSUME NEW rs \in Catalogs, NEW ov \in Overrides, NEW m \in ListedIn(rs)
  PROVE  /\ Decide(rs, ov, m) \in [symbol : Symbol, rule : Rules]
         /\ Decide(rs, ov, m).rule \notin {"MANUAL_MAP", "MANUAL_RENAME"} =>
              /\ Decide(rs, ov, m) = Policy(rs, m)
              /\ ov[<<None, Decide(rs, ov, m).symbol>>] = None
<1> DEFINE policy == Policy(rs, m)
           map == ov[<<Venue[m], rs[m].symbol>>]
           rename == ov[<<None, policy.symbol>>]
<1>1. policy \in [symbol : Symbol, rule : {"EXACT", "UNIT", "ALIAS", "SUFFIX"}]
  BY PolicyChooses
<1>2. map \in Symbol \cup {None} /\ rename \in Symbol \cup {None}
  <2>1. <<Venue[m], rs[m].symbol>> \in Key /\ <<None, policy.symbol>> \in Key
    BY <1>1, ListedRow DEF Key
  <2> QED
    BY <2>1 DEF Overrides
<1>3. Decide(rs, ov, m) = IF map # None THEN Choice(map, "MANUAL_MAP")
                          ELSE IF rename # None THEN Choice(rename, "MANUAL_RENAME")
                          ELSE policy
  BY Zenon DEF Decide
<1> HIDE DEF policy, map
<1>4. CASE map # None
  BY <1>2, <1>3, <1>4 DEF Choice, Rules
<1>5. CASE map = None /\ rename # None
  BY <1>2, <1>3, <1>5 DEF Choice, Rules
<1>6. CASE map = None /\ rename = None
  <2>1. Decide(rs, ov, m) = policy
    BY <1>3, <1>6
  <2>2. policy.rule \notin {"MANUAL_MAP", "MANUAL_RENAME"}
    BY <1>1
  <2> QED
    BY <1>1, <1>6, <2>1, <2>2 DEF Rules, policy
<1> QED
  BY <1>4, <1>5, <1>6

\* A rebuild maps every listed market, as MapOf says.
LEMMA MappedIs ==
  ASSUME NEW rs, NEW ov
  PROVE  Mapped(rs, ov) = {MapOf(rs, ov, m) : m \in ListedIn(rs)}
<1> DEFINE chosen == {[market |-> m, choice |-> Decide(rs, ov, m)] : m \in ListedIn(rs)}
           members(s) == {c.market : c \in {d \in chosen : d.choice.symbol = s}}
           row(c) == [market |-> c.market, asset |-> c.choice.symbol, rule |-> c.choice.rule,
                      group |-> Group(members(c.choice.symbol)),
                      confidence |-> Confidence(c.choice.rule, Group(members(c.choice.symbol)),
                                                Evidence(rs, c.market))]
<1>1. Mapped(rs, ov) = {row(c) : c \in chosen}
  BY Zenon DEF Mapped
<1>2. ASSUME NEW s PROVE members(s) = Members(rs, ov, s)
  <2>1. ASSUME NEW m \in members(s) PROVE m \in Members(rs, ov, s)
    <3>1. PICK c \in chosen : c.choice.symbol = s /\ m = c.market
      OBVIOUS
    <3>2. PICK n \in ListedIn(rs) : c = [market |-> n, choice |-> Decide(rs, ov, n)]
      OBVIOUS
    <3> QED
      BY <3>1, <3>2 DEF Members
  <2>2. ASSUME NEW m \in Members(rs, ov, s) PROVE m \in members(s)
    <3> DEFINE c == [market |-> m, choice |-> Decide(rs, ov, m)]
    <3>1. m \in ListedIn(rs) /\ Decide(rs, ov, m).symbol = s
      BY DEF Members
    <3>2. c \in chosen /\ c.choice.symbol = s /\ c.market = m
      BY <3>1
    <3> HIDE DEF chosen, c
    <3> QED
      BY <3>2
  <2> HIDE DEF members
  <2> QED
    BY <2>1, <2>2
<1>3. ASSUME NEW m \in ListedIn(rs)
      PROVE  row([market |-> m, choice |-> Decide(rs, ov, m)]) = MapOf(rs, ov, m)
  <2> HIDE DEF members
  <2> QED
    BY <1>2 DEF MapOf
<1> HIDE DEF row
<1> QED
  BY <1>1, <1>3

\* Evidence is a score.
LEMMA EvidenceIsNumber ==
  ASSUME NEW rs \in Catalogs, NEW m \in ListedIn(rs)
  PROVE  Evidence(rs, m) \in Nat
<1> DEFINE all == rs[m].hints
           alias(i) == Proposal("ALIAS", all[i].to, HintAccepted(rs, m, all[i]),
                                Percent(Checks(rs, m, all[i])))
           scores == {p.score : p \in {q \in Proposals(rs, m) : q.accepted}}
<1>1. \A i \in DOMAIN all : Percent(Checks(rs, m, all[i])) \in Nat
  <2> SUFFICES ASSUME NEW i \in DOMAIN all PROVE Percent(Checks(rs, m, all[i])) \in Nat
    OBVIOUS
  <2> DEFINE c == Checks(rs, m, all[i])
             yes == {j \in DOMAIN c : c[j]}
  <2>1. DOMAIN c = 1 .. 5 /\ Len(c) = 5
    BY DEF Checks
  <2>2. IsFiniteSet(1 .. 5)
    <3>1. 1 \in Int /\ 5 \in Int
      OBVIOUS
    <3> QED
      BY <3>1, FS_Interval, Zenon
  <2>5. yes \in SUBSET (1 .. 5)
    BY <2>1
  <2>3. Cardinality(yes) \in Nat
    BY <2>2, <2>5, FS_Subset, FS_CardinalityType
  <2> HIDE DEF c
  <2> QED
    BY <2>1, <2>3 DEF Percent, c
<1>2. IsFiniteSet(Proposals(rs, m)) /\ \A p \in Proposals(rs, m) : p.score \in Nat
  <2>1. IsFiniteSet(UnitProposals(rs, m)) /\ \A p \in UnitProposals(rs, m) : p.score \in Nat
    <3>1. CASE Unit[rs[m].symbol] = None
      BY <3>1, FS_EmptySet DEF UnitProposals
    <3>2. CASE Unit[rs[m].symbol] # None
      <4> DEFINE p == LET u == Unit[rs[m].symbol] IN
                      Proposal("UNIT", u, u \in Exact(rs), IF u \in Exact(rs) THEN 95 ELSE 50)
      <4>1. UnitProposals(rs, m) = {p}
        BY <3>2 DEF UnitProposals
      <4>2. p.score \in Nat
        BY DEF Proposal
      <4> HIDE DEF p
      <4>3. IsFiniteSet({p})
        BY FS_Singleton
      <4> QED
        BY <4>1, <4>2, <4>3
    <3> QED
      BY <3>1, <3>2
  <2>2. IsFiniteSet(SuffixProposals(rs, m)) /\ \A p \in SuffixProposals(rs, m) : p.score \in Nat
    <3>1. CASE Strip[rs[m].symbol] = None
      BY <3>1, FS_EmptySet DEF SuffixProposals
    <3>2. CASE Strip[rs[m].symbol] # None
      <4> DEFINE p == Proposal("SUFFIX", Strip[rs[m].symbol], TRUE, 100)
      <4>1. SuffixProposals(rs, m) = {p}
        BY <3>2 DEF SuffixProposals
      <4>2. p.score \in Nat
        BY DEF Proposal
      <4> HIDE DEF p
      <4>3. IsFiniteSet({p})
        BY FS_Singleton
      <4> QED
        BY <4>1, <4>2, <4>3
    <3> QED
      BY <3>1, <3>2
  <2>3. IsFiniteSet(AliasProposals(rs, m)) /\ \A p \in AliasProposals(rs, m) : p.score \in Nat
    <3> DEFINE f == [i \in DOMAIN all |-> alias(i)]
    <3>1. AliasProposals(rs, m) = {f[i] : i \in DOMAIN all}
      <4>1. AliasProposals(rs, m) = {alias(i) : i \in DOMAIN all}
        BY Zenon DEF AliasProposals
      <4>2. \A i \in DOMAIN all : f[i] = alias(i)
        OBVIOUS
      <4> HIDE DEF alias, f, all
      <4> QED
        BY <4>1, <4>2
    <3>2. IsFiniteSet(DOMAIN all)
      <4>1. DOMAIN all = 1 .. Len(all) /\ 1 \in Int /\ Len(all) \in Int
        BY ListedRow
      <4> HIDE DEF all
      <4>2. IsFiniteSet(1 .. Len(all))
        BY <4>1, FS_Interval
      <4> QED
        BY <4>1, <4>2
    <3>3. IsFiniteSet({f[i] : i \in DOMAIN all})
      <4> HIDE DEF f
      <4> QED
        BY <3>2, ValuesFinite
    <3>4. \A i \in DOMAIN all : alias(i).score \in Nat
      BY <1>1 DEF Proposal
    <3>5. \A i \in DOMAIN all : f[i] = alias(i)
      OBVIOUS
    <3> HIDE DEF f, alias, all
    <3> QED
      BY <3>1, <3>3, <3>4, <3>5
  <2> QED
    BY <2>1, <2>2, <2>3, FS_Union DEF Proposals
<1>3. IsFiniteSet(scores)
  <2> DEFINE A == {q \in Proposals(rs, m) : q.accepted}
             g == [p \in A |-> p.score]
  <2>1. IsFiniteSet(A)
    BY <1>2, FS_Subset
  <2>2. scores = {g[p] : p \in A}
    OBVIOUS
  <2> HIDE DEF g, A, scores
  <2>3. IsFiniteSet({g[p] : p \in A})
    BY <2>1, ValuesFinite
  <2> QED
    BY <2>2, <2>3
<1>4. scores \subseteq Nat
  BY <1>2
<1>5. Evidence(rs, m) = Max(scores \cup {0})
  BY DEF Evidence
<1> HIDE DEF scores
<1>6. IsFiniteSet(scores \cup {0}) /\ scores \cup {0} \in SUBSET Nat
  BY <1>3, <1>4, FS_AddElement
<1>7. Max(scores \cup {0}) \in scores \cup {0}
  BY <1>6, GreatestIn
<1> QED
  BY <1>5, <1>6, <1>7

\* What a rebuild says of a market is a row, and one that says how it was decided.
LEMMA MapOfTyped ==
  ASSUME NEW rs \in Catalogs, NEW ov \in Overrides, NEW m \in ListedIn(rs)
  PROVE  MapOf(rs, ov, m) \in MappingRow /\ MapOf(rs, ov, m) # None
<1> DEFINE choice == Decide(rs, ov, m)
           group == Group(Members(rs, ov, choice.symbol))
           e == Evidence(rs, m)
<1>1. choice \in [symbol : Symbol, rule : Rules]
  BY DecideChooses
<1>2. group \in Groups
  BY DEF Group, Groups
<1>3. e \in Nat
  BY EvidenceIsNumber
<1>4. m \in Market
  BY DEF ListedIn
<1> HIDE DEF choice, group, e
<1>5. GroupConfidence(group) \in Nat
  BY <1>2 DEF Groups, GroupConfidence
<1>6. Confidence(choice.rule, group, e) \in Nat
  <2> DEFINE g == GroupConfidence(group)
  <2>1. Max({g, e}) \in Nat
    <3>1. IsFiniteSet({g, e})
      <4> HIDE DEF g
      <4>1. {g, e} = {g} \cup {e}
        OBVIOUS
      <4>2. IsFiniteSet({g}) /\ IsFiniteSet({e})
        BY FS_Singleton, Zenon
      <4>3. IsFiniteSet({g} \cup {e})
        BY <4>2, FS_Union
      <4> QED
        BY <4>1, <4>3
    <3>2. {g, e} \in SUBSET Int /\ {g, e} # {}
      BY <1>3, <1>5
    <3>3. Max({g, e}) \in {g, e}
      BY <3>1, <3>2, GreatestIn
    <3> QED
      BY <1>3, <1>5, <3>3
  <2> DEFINE x == Max({g, e})
  <2>2. Min({x, 99}) \in Nat
    <3>1. x \in Nat
      BY <2>1
    <3> HIDE DEF x
    <3>2. \E y \in {x, 99} : \A z \in {x, 99} : y <= z
      BY <3>1
    <3>3. Min({x, 99}) \in {x, 99}
      BY <3>2, Zenon DEF Min
    <3> QED
      BY <3>1, <3>3
  <2> HIDE DEF g, x
  <2> QED
    BY <1>5, <2>2 DEF Confidence, g, x
<1>7. MapOf(rs, ov, m) = [market |-> m, asset |-> choice.symbol, rule |-> choice.rule,
                          group |-> group, confidence |-> Confidence(choice.rule, group, e)]
  BY Zenon DEF MapOf, choice, group, e
<1>8. MapOf(rs, ov, m) \in MappingRow
  BY <1>1, <1>2, <1>4, <1>6, <1>7 DEF MappingRow
<1> QED
  BY <1>8, ProjectionAssumption

\* The row a rebuild chooses for a listed market is the one MapOf says.
LEMMA ChosenIs ==
  ASSUME NEW rs, NEW ov, NEW m \in ListedIn(rs)
  PROVE  (CHOOSE r \in Mapped(rs, ov) : r.market = m) = MapOf(rs, ov, m)
<1>1. \A n \in ListedIn(rs) : MapOf(rs, ov, n).market = n
  BY DEF MapOf
<1>2. MapOf(rs, ov, m) \in Mapped(rs, ov) /\ MapOf(rs, ov, m).market = m
  BY <1>1, MappedIs
<1>3. \A r \in Mapped(rs, ov) : r.market = m => r = MapOf(rs, ov, m)
  BY <1>1, MappedIs
<1> QED
  BY <1>2, <1>3

-----------------------------------------------------------------------------
(* The inductive invariant *)

TypeOK ==
    /\ rows \in Catalogs /\ over \in Overrides
    /\ read.rows \in Catalogs /\ read.over \in Overrides
    /\ mapping \in [Market -> MappingRow \cup {None}]
    /\ revisions \in [Market -> Seq(MappingRow)]
    /\ finMapping \in [Product -> FinMappingRow \cup {None}]
    /\ finRevisions \in [Product -> Seq(FinMappingRow)]
    /\ snapped \in BOOLEAN /\ behind \in BOOLEAN

\* A mapping is what the last rebuild made of what it read, and its candidates
\* are recorded.  Listed markets stay listed.
Projected ==
    \A m \in Market : mapping[m] # None =>
        /\ m \in ListedIn(read.rows) /\ m \in ListedIn(rows)
        /\ mapping[m] = MapOf(read.rows, read.over, m)
        /\ Proposals(read.rows, m) \subseteq candidates[m]

\* Until the next snapshot the catalog is the one that was read, and those unit
\* prefixes multiply that decided a mapping.
Current ==
    ~snapped => /\ rows = read.rows
                /\ \A m \in Market : mapping[m] # None => (unit[m] <=> mapping[m].rule = "UNIT")

IInv == TypeOK /\ Projected /\ Current /\ RevisionsExplain /\ FinancingFollows

-----------------------------------------------------------------------------
(* What the mappings say of each other *)

\* A mapping is decided for its market by what the last rebuild read.
LEMMA DecidedBy ==
  ASSUME TypeOK, Projected, NEW m \in Market, mapping[m] # None
  PROVE  /\ m \in ListedIn(read.rows) /\ m \in ListedIn(rows)
         /\ mapping[m].asset = Decide(read.rows, read.over, m).symbol
         /\ mapping[m].rule = Decide(read.rows, read.over, m).rule
         /\ mapping[m].group = Group(Members(read.rows, read.over, mapping[m].asset))
<1>1. m \in ListedIn(read.rows) /\ m \in ListedIn(rows)
      /\ mapping[m] = MapOf(read.rows, read.over, m)
  BY DEF Projected
<1>2. /\ MapOf(read.rows, read.over, m).asset = Decide(read.rows, read.over, m).symbol
      /\ MapOf(read.rows, read.over, m).rule = Decide(read.rows, read.over, m).rule
      /\ MapOf(read.rows, read.over, m).group
           = Group(Members(read.rows, read.over, Decide(read.rows, read.over, m).symbol))
  BY DEF MapOf
<1> QED
  BY <1>1, <1>2

LEMMA RenamesDecide == ASSUME TypeOK, Projected PROVE RenameIsComplete
<1> SUFFICES ASSUME NEW m \in Market, mapping[m] # None,
                    read.over[<<None, mapping[m].asset>>] # None
             PROVE  mapping[m].rule \in {"MANUAL_MAP", "MANUAL_RENAME"}
  BY DEF RenameIsComplete
<1>1. read.rows \in Catalogs /\ read.over \in Overrides
  BY DEF TypeOK
<1>2. /\ m \in ListedIn(read.rows)
      /\ mapping[m].asset = Decide(read.rows, read.over, m).symbol
      /\ mapping[m].rule = Decide(read.rows, read.over, m).rule
  BY DecidedBy
<1> QED
  BY <1>1, <1>2, DecideChooses

LEMMA GroupsAgree == ASSUME TypeOK, Projected PROVE MappingsAgree
<1>1. read.rows \in Catalogs /\ read.over \in Overrides
  BY DEF TypeOK
<1>2. ASSUME NEW m \in Market, NEW n \in Market, mapping[m] # None, mapping[n] # None,
             mapping[m].asset = mapping[n].asset
      PROVE  mapping[m].group = mapping[n].group
  BY <1>2, DecidedBy
<1>3. ASSUME NEW m \in Market, mapping[m] # None, mapping[m].rule \in {"UNIT", "ALIAS", "SUFFIX"}
      PROVE  \E p \in candidates[m] :
                p.rule = mapping[m].rule /\ p.to = mapping[m].asset /\ p.accepted
  <2>1. /\ m \in ListedIn(read.rows)
        /\ mapping[m].asset = Decide(read.rows, read.over, m).symbol
        /\ mapping[m].rule = Decide(read.rows, read.over, m).rule
    BY <1>3, DecidedBy
  <2>2. Decide(read.rows, read.over, m) = Policy(read.rows, m)
    BY <1>1, <1>3, <2>1, DecideChooses
  <2>3. PICK p \in Proposals(read.rows, m) :
           p.rule = Policy(read.rows, m).rule /\ p.to = Policy(read.rows, m).symbol /\ p.accepted
    <3>1. Policy(read.rows, m).rule # "EXACT"
      BY <1>3, <2>1, <2>2
    <3> QED
      BY <1>1, <2>1, <3>1, PolicyChooses
  <2>4. p \in candidates[m]
    BY <1>3, <2>3 DEF Projected
  <2> QED
    BY <2>1, <2>2, <2>3, <2>4, Zenon
<1> QED
  BY <1>2, <1>3 DEF MappingsAgree

LEMMA UnitsCount == ASSUME TypeOK, Projected, Current PROVE UnitCountsOnce
<1> SUFFICES ASSUME ~snapped, NEW m \in Market, mapping[m] # None
             PROVE  /\ unit[m] => mapping[m].asset = Unit[rows[m].symbol]
                    /\ (mapping[m].asset = Unit[rows[m].symbol] /\ mapping[m].rule \in {"EXACT", "UNIT"})
                         => unit[m]
  BY DEF UnitCountsOnce
<1>1. read.rows \in Catalogs /\ read.over \in Overrides /\ rows = read.rows
  BY DEF TypeOK, Current
<1>2. unit[m] <=> mapping[m].rule = "UNIT"
  BY DEF Current
<1>3. /\ m \in ListedIn(read.rows)
      /\ mapping[m].asset = Decide(read.rows, read.over, m).symbol
      /\ mapping[m].rule = Decide(read.rows, read.over, m).rule
  BY DecidedBy
<1>4. ASSUME mapping[m].rule \in {"EXACT", "UNIT"}
      PROVE  Decide(read.rows, read.over, m) = Policy(read.rows, m)
  BY <1>1, <1>3, <1>4, DecideChooses
<1>5. CASE unit[m]
  <2>1. Policy(read.rows, m).symbol = Unit[read.rows[m].symbol]
    BY <1>1, <1>2, <1>3, <1>4, <1>5, PolicyChooses
  <2> QED
    BY <1>1, <1>2, <1>3, <1>4, <1>5, <2>1
<1>6. CASE mapping[m].rule = "EXACT"
  <2>1. Policy(read.rows, m).symbol = read.rows[m].symbol
    BY <1>1, <1>3, <1>4, <1>6, PolicyChooses
  <2>2. mapping[m].asset = rows[m].symbol
    BY <1>1, <1>3, <1>4, <1>6, <2>1
  <2>3. rows[m].symbol \in Symbol
    BY <1>1, <1>3, ListedRow
  <2> QED
    BY <1>2, <1>6, <2>2, <2>3, MatchingAssumption
<1> QED
  BY <1>2, <1>5, <1>6

-----------------------------------------------------------------------------
(* The steps *)

\* The revisions explain the mappings while neither is written.
LEMMA RevisionsStay ==
  ASSUME RevisionsExplain, UNCHANGED <<mapping, revisions>>, UNCHANGED <<finMapping, finRevisions>>
  PROVE  RevisionsExplain'
BY DEF RevisionsExplain

\* A history goes on with a row that differs from its last.
LEMMA RevisedGoesOn ==
  ASSUME NEW S, NEW log \in Seq(S), NEW was, NEW now \in S,
         log # <<>> => Last(log) = was, was \in S => log # <<>>
  PROVE  /\ Revised(log, was, now) \in Seq(S) /\ Revised(log, was, now) # <<>>
         /\ Last(Revised(log, was, now)) = now
         /\ (\A i \in 1 .. Len(log) - 1 : log[i] # log[i + 1]) =>
              \A i \in 1 .. Len(Revised(log, was, now)) - 1 :
                 Revised(log, was, now)[i] # Revised(log, was, now)[i + 1]
<1>1. CASE was = now
  <2>1. Revised(log, was, now) = log
    BY <1>1 DEF Revised
  <2> QED
    BY <1>1, <2>1
<1>2. CASE was # now
  <2> DEFINE longer == Append(log, now)
  <2>1. Revised(log, was, now) = longer
    BY <1>2 DEF Revised
  <2>2. longer \in Seq(S) /\ Len(longer) = Len(log) + 1 /\ longer[Len(log) + 1] = now
        /\ \A i \in 1 .. Len(log) : longer[i] = log[i]
    OBVIOUS
  <2>3. Len(log) \in Nat /\ (log = <<>> <=> Len(log) = 0)
    OBVIOUS
  <2>4. Last(longer) = now
    <3> HIDE DEF longer
    <3> QED
      BY <2>2 DEF Last
  <2>5. ASSUME \A i \in 1 .. Len(log) - 1 : log[i] # log[i + 1],
               NEW i \in 1 .. Len(longer) - 1
        PROVE  longer[i] # longer[i + 1]
    <3> HIDE DEF longer
    <3>1. CASE i < Len(log)
      BY <2>2, <2>3, <2>5, <3>1
    <3>2. CASE i = Len(log)
      <4>1. longer[i] = log[Len(log)] /\ longer[i + 1] = now /\ log # <<>>
        BY <2>2, <2>3, <3>2
      <4>2. log[Len(log)] = was
        BY <4>1 DEF Last
      <4> QED
        BY <1>2, <4>1, <4>2
    <3>3. i <= Len(log)
      BY <2>2, <2>3
    <3> QED
      BY <2>3, <3>1, <3>2, <3>3
  <2>6. longer # <<>>
    BY <2>2, <2>3
  <2> HIDE DEF longer
  <2> QED
    BY <2>1, <2>2, <2>4, <2>5, <2>6
<1> QED
  BY <1>1, <1>2

\* A row of the mappings explained by its revisions.
Explained(now, log) ==
    /\ now = None <=> log = <<>>
    /\ now # None => Last(log) = now
    /\ \A i \in 1 .. Len(log) - 1 : log[i] # log[i + 1]

LEMMA ObserveMarketsInv == ASSUME IInv, NEW s, ObserveMarkets(s) PROVE IInv'
<1> DEFINE mine == {m \in Market : Source[m] = s}
<1>1. PICK said \in (SUBSET mine) \ {{}} : \E news \in [said -> UNION {Offers[m] : m \in said}] :
        /\ \A m \in said : news[m] \in Offers[m]
        /\ rows' = [m \in Market |-> IF m \in said THEN news[m] ELSE rows[m]]
        /\ snapped' = TRUE /\ behind' = TRUE
        /\ UNCHANGED <<over, markets, finMapped>>
  BY DEF ObserveMarkets
<1>2. PICK news \in [said -> UNION {Offers[m] : m \in said}] :
        /\ \A m \in said : news[m] \in Offers[m]
        /\ rows' = [m \in Market |-> IF m \in said THEN news[m] ELSE rows[m]]
        /\ snapped' = TRUE /\ behind' = TRUE
        /\ UNCHANGED <<over, markets, finMapped>>
  BY <1>1
<1>3. said \subseteq Market
  OBVIOUS
<1> HIDE DEF mine
<1>4. UNCHANGED <<over, mapping, revisions, candidates, read, finMapping, finRevisions>>
  BY <1>2 DEF markets, finMapped
<1>5. rows' \in Catalogs /\ \A m \in ListedIn(rows) : m \in ListedIn(rows')
  <2>1. rows \in Catalogs
    BY DEF IInv, TypeOK
  <2>2. \A m \in Market : rows'[m] \in Offers[m] \cup {None}
    BY <1>2, <2>1 DEF Catalogs
  <2>3. \A m \in Market : rows[m] # None => rows'[m] # None
    BY <1>2, <1>3, ProjectionAssumption
  <2>4. rows' \in [Market -> (UNION {Offers[m] : m \in Market}) \cup {None}]
    <3>1. \A m \in Market : rows'[m] \in (UNION {Offers[n] : n \in Market}) \cup {None}
      <4> DEFINE U == UNION {Offers[n] : n \in Market}
      <4>1. \A m \in Market : Offers[m] \subseteq U
        BY Zenon
      <4> HIDE DEF U
      <4>2. \A m \in Market : rows'[m] \in U \cup {None}
        BY <2>2, <4>1
      <4> QED
        BY <4>2 DEF U
    <3>2. rows' = [m \in Market |-> rows'[m]]
      BY <1>2
    <3> QED
      BY <3>1, <3>2
  <2>5. rows' \in Catalogs
    BY <2>2, <2>4 DEF Catalogs
  <2> QED
    BY <2>3, <2>5 DEF ListedIn
<1>6. TypeOK'
  BY <1>2, <1>4, <1>5 DEF IInv, TypeOK
<1>7. Projected'
  BY <1>4, <1>5 DEF IInv, Projected
<1>8. Current' /\ FinancingFollows'
  BY <1>2 DEF Current, FinancingFollows
<1>9. RevisionsExplain'
  BY <1>4, RevisionsStay DEF IInv
<1> QED
  BY <1>6, <1>7, <1>8, <1>9 DEF IInv

LEMMA ActOnInv == ASSUME IInv, NEW k, ActOn(k) PROVE IInv'
<1>1. PICK target \in Target \cup {None} : over' = [over EXCEPT ![k] = target]
  BY DEF ActOn
<1>2. UNCHANGED <<rows, markets, unit, finMapped, history>>
  BY DEF ActOn
<1>3. UNCHANGED <<rows, mapping, revisions, candidates, read, unit, finMapping, finRevisions,
                  snapped, behind>>
  BY <1>2 DEF markets, finMapped, history
<1>4. TypeOK'
  <2>1. over' \in Overrides
    BY <1>1, ProjectionAssumption DEF IInv, TypeOK, Overrides
  <2> QED
    BY <1>3, <2>1 DEF IInv, TypeOK
<1>5. Projected' /\ Current'
  BY <1>3 DEF IInv, Projected, Current
<1>6. RevisionsExplain'
  BY <1>3, RevisionsStay DEF IInv
<1>7. FinancingFollows'
  BY <1>3 DEF IInv, FinancingFollows, Options, Candidates
<1> QED
  BY <1>4, <1>5, <1>6, <1>7 DEF IInv

\* Products, tags and steps of neither leave the mappings alone.
LEMMA ElsewhereInv ==
  ASSUME IInv, UNCHANGED <<catalog, markets, unit, finMapped, history>>
  PROVE  IInv'
<1>1. UNCHANGED <<rows, over, mapping, revisions, candidates, read, unit, finMapping,
                  finRevisions, snapped, behind>>
  BY DEF catalog, markets, finMapped, history
<1>2. TypeOK'
  BY <1>1 DEF IInv, TypeOK
<1>3. Projected' /\ Current'
  BY <1>1 DEF IInv, Projected, Current
<1>4. RevisionsExplain'
  BY <1>1, RevisionsStay DEF IInv
<1>5. FinancingFollows'
  BY <1>1 DEF IInv, FinancingFollows, Options, Candidates
<1> QED
  BY <1>2, <1>3, <1>4, <1>5 DEF IInv

LEMMA RebuildMarketsInv == ASSUME IInv, RebuildMarkets PROVE IInv'
<1> DEFINE of(m) == CHOOSE r \in Mapped(rows, over) : r.market = m
           map(m) == MapOf(rows, over, m)
<1>1. rows \in Catalogs /\ over \in Overrides /\ mapping \in [Market -> MappingRow \cup {None}]
      /\ revisions \in [Market -> Seq(MappingRow)] /\ behind \in BOOLEAN
      /\ finMapping \in [Product -> FinMappingRow \cup {None}]
      /\ finRevisions \in [Product -> Seq(FinMappingRow)]
  BY DEF IInv, TypeOK
<1>2. \A m \in ListedIn(rows) : of(m) = map(m)
  BY ChosenIs
<1>3. \A m \in ListedIn(rows) : map(m) \in MappingRow /\ map(m) # None
  BY <1>1, MapOfTyped
<1>4. /\ mapping' = [m \in Market |-> IF rows[m] = None THEN None ELSE of(m)]
      /\ revisions' = [m \in Market |->
           IF rows[m] = None THEN <<>> ELSE Revised(revisions[m], mapping[m], of(m))]
      /\ candidates' = [m \in Market |-> IF rows[m] = None THEN {} ELSE Evaluated(m)]
      /\ unit' = [m \in Market |-> rows[m] # None /\ Multiplied(of(m).rule, rows[m].symbol)]
      /\ read' = [rows |-> rows, over |-> over] /\ snapped' = FALSE /\ behind' = TRUE
      /\ UNCHANGED <<catalog, finMapped>>
  BY Zenon DEF RebuildMarkets
<1> HIDE DEF of, map
<1>5. UNCHANGED <<rows, over, finMapping, finRevisions>>
  BY <1>4 DEF catalog, finMapped
<1>6. \A m \in Market :
        /\ rows[m] = None => mapping'[m] = None /\ revisions'[m] = <<>>
        /\ rows[m] # None => /\ mapping'[m] = map(m) /\ candidates'[m] = Evaluated(m)
                             /\ revisions'[m] = Revised(revisions[m], mapping[m], map(m))
  BY <1>2, <1>4 DEF ListedIn
<1>7. ASSUME NEW m \in Market PROVE revisions'[m] \in Seq(MappingRow) /\ Explained(mapping'[m], revisions'[m])
  <2>1. CASE rows[m] = None
    <3>1. mapping'[m] = None /\ revisions'[m] = <<>>
      BY <1>6, <2>1
    <3>2. Len(<<>>) = 0 /\ <<>> \in Seq(MappingRow)
      OBVIOUS
    <3>3. \A i \in 1 .. Len(<<>>) - 1 : FALSE
      BY <3>2
    <3> QED
      BY <3>1, <3>2, <3>3, Zenon DEF Explained
  <2>2. CASE rows[m] # None
    <3> DEFINE log == revisions[m]
               was == mapping[m]
               now == map(m)
    <3>1. now \in MappingRow /\ now # None /\ was \in MappingRow \cup {None} /\ log \in Seq(MappingRow)
      BY <1>1, <1>3, <2>2 DEF ListedIn
    <3>2. Explained(was, log)
      BY DEF IInv, RevisionsExplain, Explained
    <3>3. mapping'[m] = now /\ revisions'[m] = Revised(log, was, now)
      BY <1>6, <2>2
    <3> HIDE DEF log, was, now
    <3>4. (log # <<>> => Last(log) = was) /\ (was \in MappingRow => log # <<>>)
      BY <3>2, ProjectionAssumption DEF Explained
    <3>5. /\ Revised(log, was, now) \in Seq(MappingRow) /\ Revised(log, was, now) # <<>>
          /\ Last(Revised(log, was, now)) = now
          /\ \A i \in 1 .. Len(Revised(log, was, now)) - 1 :
                 Revised(log, was, now)[i] # Revised(log, was, now)[i + 1]
      BY <3>1, <3>2, <3>4, RevisedGoesOn DEF Explained
    <3> QED
      BY <3>1, <3>3, <3>5 DEF Explained
  <2> QED
    BY <2>1, <2>2
<1>8. TypeOK'
  <2>1. mapping' \in [Market -> MappingRow \cup {None}]
    BY <1>2, <1>3, <1>4 DEF ListedIn
  <2>2. revisions' \in [Market -> Seq(MappingRow)]
    BY <1>4, <1>7
  <2> QED
    BY <1>1, <1>4, <1>5, <2>1, <2>2 DEF TypeOK
<1>9. Projected'
  <2> SUFFICES ASSUME NEW m \in Market, mapping'[m] # None
               PROVE  /\ m \in ListedIn(read'.rows) /\ m \in ListedIn(rows')
                      /\ mapping'[m] = MapOf(read'.rows, read'.over, m)
                      /\ Proposals(read'.rows, m) \subseteq candidates'[m]
    BY DEF Projected
  <2>1. rows[m] # None
    BY <1>6
  <2>2. read'.rows = rows /\ read'.over = over /\ rows' = rows
    BY <1>4, <1>5
  <2>3. mapping'[m] = MapOf(rows, over, m) /\ candidates'[m] = Evaluated(m)
    BY <1>6, <2>1 DEF map
  <2>4. Proposals(rows, m) \subseteq Evaluated(m)
    BY DEF Evaluated
  <2> QED
    BY <2>1, <2>2, <2>3, <2>4 DEF ListedIn
<1>10. Current'
  <2>1. rows' = read'.rows
    BY <1>4, <1>5
  <2>2. ASSUME NEW m \in Market, mapping'[m] # None PROVE unit'[m] <=> mapping'[m].rule = "UNIT"
    <3>1. rows[m] # None /\ mapping'[m] = map(m) /\ of(m) = map(m)
      BY <1>2, <1>6, <2>2 DEF ListedIn
    <3>2. unit'[m] <=> of(m).rule = "UNIT"
      BY <1>4, <3>1, Zenon DEF Multiplied
    <3> QED
      BY <3>1, <3>2
  <2> QED
    BY <2>1, <2>2 DEF Current
<1>11. FinancingFollows'
  BY <1>4 DEF FinancingFollows
<1>12. RevisionsExplain'
  <2>1. \A f \in Product : finMapping[f] # None =>
           finRevisions[f] # <<>> /\ Last(finRevisions[f]) = finMapping[f]
    BY DEF IInv, RevisionsExplain
  <2> QED
    BY <1>5, <1>7, <2>1 DEF RevisionsExplain, Explained
<1> QED
  BY <1>8, <1>9, <1>10, <1>11, <1>12 DEF IInv

\* What a product takes is a mapping to the one asset there is, or none.
LEMMA TakenIs ==
  ASSUME TypeOK, NEW f \in Product, NEW c \in Takes(f), c # None
  PROVE  c \in FinMappingRow /\ Options(f) = {c.asset}
<1> DEFINE exact == Candidates(f, {FinSymbol[f]})
           all == Candidates(f, Spellings(FinSymbol[f]))
           asset == [m \in all |-> mapping[m].asset]
<1>1. Cardinality(Options(f)) = 1
  BY DEF Takes
<1>2. PICK m \in IF exact # {} THEN exact ELSE all :
         c = [asset |-> mapping[m].asset, exact |-> exact # {}, confidence |-> mapping[m].confidence]
  BY <1>1 DEF Takes
<1>3. exact \subseteq all /\ all \subseteq Market
  BY DEF Candidates, Spellings
<1>4. m \in all /\ m \in Market /\ mapping[m] \in MappingRow
  <2>1. m \in all /\ m \in Market
    BY <1>3
  <2>2. mapping[m] # None
    BY <2>1 DEF Candidates
  <2> QED
    BY <2>1, <2>2 DEF TypeOK
<1>5. c \in FinMappingRow /\ c.asset = mapping[m].asset
  <2>1. mapping[m].asset \in Symbol /\ mapping[m].confidence \in Nat
    BY <1>4 DEF MappingRow
  <2>2. (exact # {}) \in BOOLEAN
    BY Zenon
  <2>3. c.asset = mapping[m].asset
    BY <1>2
  <2> HIDE DEF exact
  <2> QED
    BY <1>2, <2>1, <2>2, <2>3, Zenon DEF FinMappingRow
<1>6. Options(f) = {asset[n] : n \in all}
  BY DEF Options
<1>7. IsFiniteSet(Options(f))
  <2>1. IsFiniteSet(all)
    BY <1>3, ProjectionAssumption, FS_Subset
  <2> HIDE DEF all, asset
  <2> QED
    BY <1>6, <2>1, ValuesFinite
<1>8. PICK x : Options(f) = {x}
  BY <1>1, <1>7, FS_Singleton
<1>9. c.asset \in Options(f)
  BY <1>4, <1>5, <1>6
<1> QED
  BY <1>5, <1>8, <1>9

LEMMA RebuildFinancingInv == ASSUME IInv, RebuildFinancing PROVE IInv'
<1> DEFINE now(choice) == [f \in Product |->
              IF product[f] # None /\ product[f].active THEN choice[f] ELSE None]
<1>1. PICK choice \in [Product -> UNION {Takes(f) : f \in Product}] :
        /\ \A f \in Product : choice[f] \in Takes(f)
        /\ finMapping' = now(choice)
        /\ finRevisions' = [f \in Product |->
             IF now(choice)[f] = None THEN finRevisions[f]
             ELSE Revised(finRevisions[f], finMapping[f], now(choice)[f])]
        /\ behind' = FALSE
        /\ UNCHANGED <<catalog, markets, unit, snapped>>
  BY Zenon DEF RebuildFinancing
<1>2. UNCHANGED <<rows, over, mapping, revisions, candidates, read, unit, snapped>>
  BY <1>1 DEF catalog, markets
<1>3. TypeOK
  BY DEF IInv
<1>4. \A f \in Product : now(choice)[f] # None =>
         now(choice)[f] \in Takes(f)
  BY <1>1
<1> DEFINE new == now(choice)
<1>5. new = [f \in Product |-> new[f]]
  OBVIOUS
<1>6. \A f \in Product : new[f] # None => new[f] \in FinMappingRow /\ Options(f) = {new[f].asset}
  BY <1>3, <1>4, TakenIs
<1>7. /\ finMapping' = new
      /\ finRevisions' = [f \in Product |->
             IF new[f] = None THEN finRevisions[f] ELSE Revised(finRevisions[f], finMapping[f], new[f])]
  BY <1>1
<1> HIDE DEF new, now
<1>8. ASSUME NEW f \in Product
      PROVE  /\ finRevisions'[f] \in Seq(FinMappingRow)
             /\ new[f] # None => finRevisions'[f] # <<>> /\ Last(finRevisions'[f]) = new[f]
  <2> DEFINE log == finRevisions[f]
             was == finMapping[f]
  <2>1. log \in Seq(FinMappingRow)
    BY <1>3 DEF TypeOK
  <2>2. CASE new[f] = None
    BY <1>7, <2>1, <2>2
  <2>3. CASE new[f] # None
    <3>1. finRevisions'[f] = Revised(log, was, new[f])
      BY <1>7, <2>3
    <3>2. new[f] \in FinMappingRow
      BY <1>6, <2>3
    <3>3. was # None => log # <<>> /\ Last(log) = was
      BY DEF IInv, RevisionsExplain
    <3> HIDE DEF log, was
    <3>4. CASE was = new[f]
      BY <2>1, <2>3, <3>1, <3>3, <3>4 DEF Revised
    <3>5. CASE was # new[f]
      <4> DEFINE n == new[f]
                 longer == Append(log, n)
      <4>1. finRevisions'[f] = longer
        BY <3>1, <3>5 DEF Revised
      <4> HIDE DEF n
      <4>2. n \in FinMappingRow
        BY <3>2 DEF n
      <4>3. longer \in Seq(FinMappingRow) /\ Len(longer) = Len(log) + 1 /\ longer[Len(log) + 1] = n
            /\ Len(log) \in Nat
        BY <2>1, <4>2
      <4> HIDE DEF longer
      <4>4. Last(longer) = n /\ longer # <<>>
        BY <4>3 DEF Last
      <4> QED
        BY <4>1, <4>3, <4>4 DEF n
    <3> QED
      BY <3>4, <3>5
  <2> QED
    BY <2>2, <2>3
<1>9. TypeOK'
  <2>1. finMapping' \in [Product -> FinMappingRow \cup {None}]
    BY <1>5, <1>6, <1>7
  <2>2. finRevisions' \in [Product -> Seq(FinMappingRow)]
    BY <1>7, <1>8
  <2> QED
    BY <1>1, <1>2, <1>3, <2>1, <2>2 DEF TypeOK
<1>10. Projected' /\ Current'
  BY <1>2 DEF IInv, Projected, Current
<1>11. RevisionsExplain'
  <2>1. \A m \in Market :
          /\ mapping[m] = None <=> revisions[m] = <<>>
          /\ mapping[m] # None => Last(revisions[m]) = mapping[m]
          /\ \A i \in 1 .. Len(revisions[m]) - 1 : revisions[m][i] # revisions[m][i + 1]
    BY DEF IInv, RevisionsExplain
  <2> QED
    BY <1>2, <1>7, <1>8, <2>1 DEF RevisionsExplain
<1>12. FinancingFollows'
  <2>1. \A f \in Product : Options(f)' = Options(f)
    BY <1>2 DEF Options, Candidates
  <2> QED
    BY <1>6, <1>7, <2>1 DEF FinancingFollows
<1> QED
  BY <1>9, <1>10, <1>11, <1>12 DEF IInv

LEMMA InitInv == ASSUME Init PROVE IInv
<1>1. rows \in Catalogs
  BY ProjectionAssumption DEF Init, Catalogs
<1>2. over \in Overrides
  <2>1. over = [k \in Key |-> None]
    BY DEF Init
  <2> QED
    BY <2>1 DEF Overrides
<1>3. TypeOK
  <2>1. read.rows = rows /\ read.over = over
    BY DEF Init
  <2>2. /\ mapping = [m \in Market |-> None] /\ revisions = [m \in Market |-> <<>>]
        /\ finMapping = [f \in Product |-> None] /\ finRevisions = [f \in Product |-> <<>>]
        /\ snapped = TRUE /\ behind = FALSE
    BY DEF Init
  <2>3. <<>> \in Seq(MappingRow) /\ <<>> \in Seq(FinMappingRow)
    OBVIOUS
  <2>4. revisions \in [Market -> Seq(MappingRow)] /\ finRevisions \in [Product -> Seq(FinMappingRow)]
    BY <2>2, <2>3
  <2>5. mapping \in [Market -> MappingRow \cup {None}]
        /\ finMapping \in [Product -> FinMappingRow \cup {None}]
    BY <2>2
  <2>6. snapped \in BOOLEAN /\ behind \in BOOLEAN
    BY <2>2
  <2> QED
    BY <1>1, <1>2, <2>1, <2>4, <2>5, <2>6 DEF TypeOK
<1>4. Projected /\ Current
  BY DEF Init, Projected, Current
<1>5. RevisionsExplain
  <2>1. \A i \in 1 .. Len(<<>>) - 1 : FALSE
    OBVIOUS
  <2> QED
    BY <2>1 DEF Init, RevisionsExplain
<1>6. FinancingFollows
  BY DEF Init, FinancingFollows
<1> QED
  BY <1>3, <1>4, <1>5, <1>6 DEF IInv

-----------------------------------------------------------------------------
(* The theorems *)

\* Mappings are always what the last rebuild made of what it read, with revisions
\* that explain them, and financing mappings follow them (db.py, rebuild_mappings
\* and rebuild_financing_mappings).
THEOREM Invariance == Spec => []IInv
<1>1. ASSUME IInv, [Next]_vars PROVE IInv'
  <2>1. CASE \E s \in {Source[m] : m \in Market} : ObserveMarkets(s)
    BY <1>1, <2>1, ObserveMarketsInv
  <2>2. CASE \E k \in Override : ActOn(k)
    BY <1>1, <2>2, ActOnInv
  <2>3. CASE \E s \in {FinSource[f] : f \in Product} : ApplyFinancing(s)
    <3>1. UNCHANGED <<catalog, markets, unit, finMapped, history>>
      BY <2>3 DEF ApplyFinancing
    <3> QED
      BY <1>1, <3>1, ElsewhereInv
  <2>4. CASE RebuildMarkets
    BY <1>1, <2>4, RebuildMarketsInv
  <2>5. CASE RebuildFinancing
    BY <1>1, <2>5, RebuildFinancingInv
  <2>6. CASE RebuildTags
    <3>1. UNCHANGED <<catalog, markets, unit, finMapped, history>>
      BY <2>6 DEF RebuildTags
    <3> QED
      BY <1>1, <3>1, ElsewhereInv
  <2>7. CASE UNCHANGED vars
    <3>1. UNCHANGED <<catalog, markets, unit, finMapped, history>>
      BY <2>7 DEF vars
    <3> QED
      BY <1>1, <3>1, ElsewhereInv
  <2> QED
    BY <1>1, <2>1, <2>2, <2>3, <2>4, <2>5, <2>6, <2>7 DEF Next
<1> QED
  BY <1>1, InitInv, PTL DEF Spec

\* Each mapping in force is the last of its revisions, and no two in a row are the
\* same (db.py, rebuild_mappings and rebuild_financing_mappings).
THEOREM RevisionsAreTheHistory == Spec => []RevisionsExplain
<1>1. IInv => RevisionsExplain
  BY DEF IInv
<1> QED
  BY <1>1, Invariance, PTL

\* A market is mapped to a renamed symbol only by an action (db.py, rebuild_mappings).
THEOREM RenamesAreComplete == Spec => []RenameIsComplete
<1>1. IInv => RenameIsComplete
  BY RenamesDecide DEF IInv
<1> QED
  BY <1>1, Invariance, PTL

\* Markets of one asset have one evidence, and policies an accepted candidate
\* (db.py, rebuild_mappings; matching.py).
THEOREM AssetsAgree == Spec => []MappingsAgree
<1>1. IInv => MappingsAgree
  BY GroupsAgree DEF IInv
<1> QED
  BY <1>1, Invariance, PTL

\* Once rebuilt, a market with a multiplier is mapped to the symbol without the prefix, and
\* one that the rules map there has the multiplier (db.py, _rebuild_market_symbol_matches).
THEOREM UnitsCountOnce == Spec => []UnitCountsOnce
<1>1. IInv => UnitCountsOnce
  BY UnitsCount DEF IInv
<1> QED
  BY <1>1, Invariance, PTL

\* Financing rebuilt after the markets names the one asset of its symbol (db.py,
\* rebuild_financing_mappings).
THEOREM FinancingIsCurrent == Spec => []FinancingFollows
<1>1. IInv => FinancingFollows
  BY DEF IInv
<1> QED
  BY <1>1, Invariance, PTL

-----------------------------------------------------------------------------
(* Tags *)

Words == {"ADDED", "REMOVED"}

\* What TagLogExplains says of one log, and whether its tag is in force.
TagTold(log) ==
    /\ log \in Seq(Words)
    /\ \A i \in DOMAIN log : log[i] = IF i % 2 = 1 THEN "ADDED" ELSE "REMOVED"
On(log) == Len(log) % 2 = 1

TagInv == \A k \in Symbol \X Tag : TagTold(tagLog[k]) /\ (k \in tags <=> On(tagLog[k]))

\* Adding what is not there, or removing what is, keeps the log alternating.
LEMMA TagAppended ==
  ASSUME NEW log, NEW e, TagTold(log), e = IF On(log) THEN "REMOVED" ELSE "ADDED"
  PROVE  TagTold(log \o <<e>>) /\ (On(log \o <<e>>) <=> ~On(log))
<1> DEFINE longer == log \o <<e>>
           n == Len(log)
<1>1. log \in Seq(Words) /\ e \in Words /\ n \in Nat
  BY DEF TagTold, Words
<1>2. /\ longer \in Seq(Words) /\ Len(longer) = n + 1 /\ longer[n + 1] = e
      /\ \A i \in 1 .. n : longer[i] = log[i]
      /\ DOMAIN longer = 1 .. n + 1 /\ DOMAIN log = 1 .. n
  BY <1>1
<1>3. On(log) <=> n % 2 = 1
  BY DEF On
<1>4. \A i \in 1 .. n : log[i] = IF i % 2 = 1 THEN "ADDED" ELSE "REMOVED"
  BY <1>2 DEF TagTold
<1>5. (n + 1) % 2 = 1 <=> ~ (n % 2 = 1)
  <2> HIDE DEF n
  <2> QED
    BY <1>1
<1>6. e = IF (n + 1) % 2 = 1 THEN "ADDED" ELSE "REMOVED"
  BY <1>3, <1>5
<1> HIDE DEF longer, n
<1>7. ASSUME NEW i \in 1 .. n + 1 PROVE longer[i] = IF i % 2 = 1 THEN "ADDED" ELSE "REMOVED"
  <2>1. CASE i = n + 1
    BY <1>2, <1>6, <2>1
  <2>2. CASE i # n + 1
    <3>1. i \in 1 .. n
      BY <1>1, <2>2
    <3> QED
      BY <1>2, <1>4, <3>1
  <2> QED
    BY <2>1, <2>2
<1>8. On(longer) <=> ~On(log)
  BY <1>2, <1>3, <1>5 DEF On
<1>9. TagTold(longer)
  BY <1>2, <1>7 DEF TagTold
<1> QED
  BY <1>8, <1>9 DEF longer

LEMMA RebuildTagsInv == ASSUME TagInv, RebuildTags PROVE TagInv'
<1> SUFFICES ASSUME NEW k \in Symbol \X Tag
             PROVE  TagTold(tagLog'[k]) /\ (k \in tags' <=> On(tagLog'[k]))
  BY DEF TagInv
<1> DEFINE log == tagLog[k]
<1>1. tags' = Desired /\ tagLog'[k] = log \o TagEvents(k)
  BY DEF RebuildTags
<1>2. TagTold(log) /\ (k \in tags <=> On(log))
  BY DEF TagInv
<1> HIDE DEF log
<1>3. CASE k \in Desired /\ k \notin tags
  <2>1. TagEvents(k) = <<"ADDED">>
    BY <1>3 DEF TagEvents
  <2>2. TagTold(log \o <<"ADDED">>) /\ (On(log \o <<"ADDED">>) <=> ~On(log))
    BY <1>2, <1>3, TagAppended
  <2> QED
    BY <1>1, <1>2, <1>3, <2>1, <2>2
<1>4. CASE k \notin Desired /\ k \in tags
  <2>1. TagEvents(k) = <<"REMOVED">>
    BY <1>4 DEF TagEvents
  <2>2. TagTold(log \o <<"REMOVED">>) /\ (On(log \o <<"REMOVED">>) <=> ~On(log))
    BY <1>2, <1>4, TagAppended
  <2> QED
    BY <1>1, <1>2, <1>4, <2>1, <2>2
<1>5. CASE k \in Desired <=> k \in tags
  <2>1. TagEvents(k) = <<>>
    BY <1>5 DEF TagEvents
  <2>2. log \in Seq(Words)
    BY <1>2 DEF TagTold
  <2>3. log \o <<>> = log
    BY <2>2
  <2> QED
    BY <1>1, <1>2, <1>5, <2>1, <2>3
<1> QED
  BY <1>3, <1>4, <1>5

\* A tag is in force exactly after an odd number of events, added and removed in
\* turn (db.py, rebuild_asset_tags).
THEOREM TagsAreTold == Spec => []TagLogExplains
<1>1. ASSUME Init PROVE TagInv
  <2>1. tags = {} /\ tagLog = [k \in Symbol \X Tag |-> <<>>]
    BY <1>1 DEF Init
  <2>2. TagTold(<<>>) /\ ~On(<<>>)
    BY DEF TagTold, On
  <2> QED
    BY <2>1, <2>2 DEF TagInv
<1>2. ASSUME TagInv, [Next]_vars PROVE TagInv'
  <2>1. CASE RebuildTags
    BY <1>2, <2>1, RebuildTagsInv
  <2>2. CASE UNCHANGED <<tags, tagLog>>
    BY <1>2, <2>2 DEF TagInv
  <2>3. RebuildTags \/ UNCHANGED <<tags, tagLog>>
    BY <1>2 DEF Next, vars, tagging, ObserveMarkets, ActOn, ApplyFinancing, RebuildMarkets,
                RebuildFinancing
  <2> QED
    BY <2>1, <2>2, <2>3
<1>3. TagInv => TagLogExplains
  BY DEF TagInv, TagTold, On, TagLogExplains
<1> QED
  BY <1>1, <1>2, <1>3, PTL DEF Spec

-----------------------------------------------------------------------------
(* Financing events *)

Untold == [status |-> None, eligible |-> None]

\* The function ToldBy(log) is defined to be.
Tells(log, told) ==
    told = [i \in 0 .. Len(log) |-> IF i = 0 THEN Untold ELSE Telling(told[i - 1], log[i])]

\* A log tells something, by induction on its length.
LEMMA TellsSomething ==
  ASSUME NEW log, Len(log) \in Nat
  PROVE  \E told : Tells(log, told)
<1> DEFINE T == {n \in Nat : \E g : g[0] = Untold /\ \A i \in 1 .. n : g[i] = Telling(g[i - 1], log[i])}
<1>1. 0 \in T
  <2> DEFINE g == [i \in {0} |-> Untold]
  <2>1. g[0] = Untold /\ \A i \in 1 .. 0 : g[i] = Telling(g[i - 1], log[i])
    OBVIOUS
  <2> HIDE DEF g
  <2> QED
    BY <2>1
<1>2. ASSUME NEW n \in T PROVE n + 1 \in T
  <2>1. PICK g : g[0] = Untold /\ \A i \in 1 .. n : g[i] = Telling(g[i - 1], log[i])
    OBVIOUS
  <2>2. n \in Nat
    OBVIOUS
  <2> DEFINE h == [i \in 0 .. n + 1 |-> IF i = n + 1 THEN Telling(g[n], log[n + 1]) ELSE g[i]]
  <2>3. h[n + 1] = Telling(g[n], log[n + 1]) /\ \A i \in 0 .. n : h[i] = g[i]
    BY <2>2
  <2>4. h[0] = Untold
    BY <2>1, <2>2, <2>3
  <2>5. ASSUME NEW i \in 1 .. n + 1 PROVE h[i] = Telling(h[i - 1], log[i])
    <3> HIDE DEF h
    <3>1. CASE i = n + 1
      <4>1. i - 1 = n /\ n \in 0 .. n
        BY <2>2, <3>1
      <4> QED
        BY <2>3, <3>1, <4>1
    <3>2. CASE i # n + 1
      <4>1. i \in 1 .. n /\ i \in 0 .. n /\ i - 1 \in 0 .. n
        BY <2>2, <3>2
      <4> QED
        BY <2>1, <2>3, <4>1
    <3> QED
      BY <3>1, <3>2
  <2> HIDE DEF h
  <2>6. \E f : f[0] = Untold /\ \A i \in 1 .. n + 1 : f[i] = Telling(f[i - 1], log[i])
    BY <2>4, <2>5
  <2> QED
    BY <2>2, <2>6
<1>3. T = Nat
  <2> HIDE DEF T
  <2>1. T \in SUBSET Nat
    BY DEF T
  <2> QED
    BY <1>1, <1>2, <2>1, NumberInduction
<1>4. PICK g : g[0] = Untold /\ \A i \in 1 .. Len(log) : g[i] = Telling(g[i - 1], log[i])
  BY <1>3
<1> DEFINE told == [i \in 0 .. Len(log) |-> g[i]]
<1>5. ASSUME NEW i \in 0 .. Len(log)
      PROVE  told[i] = IF i = 0 THEN Untold ELSE Telling(told[i - 1], log[i])
  <2>1. CASE i = 0
    BY <1>4, <2>1
  <2>2. CASE i # 0
    <3>1. i \in 1 .. Len(log) /\ i - 1 \in 0 .. Len(log)
      BY <2>2
    <3>2. told[i] = g[i] /\ told[i - 1] = g[i - 1]
      BY <3>1
    <3> HIDE DEF told
    <3> QED
      BY <1>4, <2>2, <3>1, <3>2
  <2> QED
    BY <2>1, <2>2
<1>6. told = [i \in 0 .. Len(log) |-> told[i]]
  OBVIOUS
<1> HIDE DEF told
<1>7. Tells(log, told)
  BY <1>5, <1>6 DEF Tells
<1> QED
  BY <1>7, Zenon

\* What a log tells at first, and with every event.
LEMMA ToldUnfolds ==
  ASSUME NEW log, Len(log) \in Nat
  PROVE  /\ ToldBy(log)[0] = Untold
         /\ \A i \in 1 .. Len(log) : ToldBy(log)[i] = Telling(ToldBy(log)[i - 1], log[i])
<1>1. ToldBy(log) = CHOOSE told : Tells(log, told)
  BY Zenon DEF ToldBy, Tells, Untold
<1> DEFINE told == CHOOSE g : Tells(log, g)
<1>2. Tells(log, told)
  BY TellsSomething, Zenon
<1> HIDE DEF told
<1>3. told = [i \in 0 .. Len(log) |-> IF i = 0 THEN Untold ELSE Telling(told[i - 1], log[i])]
  BY <1>2 DEF Tells
<1>4. told[0] = Untold /\ \A i \in 1 .. Len(log) : told[i] = Telling(told[i - 1], log[i])
  <2>1. \A i \in 0 .. Len(log) : told[i] = IF i = 0 THEN Untold ELSE Telling(told[i - 1], log[i])
    BY <1>3
  <2> QED
    BY <2>1
<1> QED
  BY <1>1, <1>4 DEF told

EndOf(log) == ToldBy(log)[Len(log)]

\* The events a list holds.
Held(log) == {log[i] : i \in DOMAIN log}

\* A list of events, each starting where the ones before left off.
Sound(log) ==
    /\ log \in Seq(Held(log))
    /\ \A i \in 1 .. Len(log) : Follows(ToldBy(log)[i - 1], log[i])
    /\ EndOf(log) = [status |-> EndOf(log).status, eligible |-> EndOf(log).eligible]

LEMMA ListOfItsOwn ==
  ASSUME NEW S, NEW log \in Seq(S)
  PROVE  log \in Seq(Held(log)) /\ Len(log) \in Nat
<1>1. log = [i \in 1 .. Len(log) |-> log[i]] /\ Len(log) \in Nat /\ DOMAIN log = 1 .. Len(log)
  OBVIOUS
<1>2. \A i \in 1 .. Len(log) : log[i] \in Held(log)
  BY <1>1 DEF Held
<1> QED
  BY <1>1, <1>2

LEMMA Lengthened ==
  ASSUME NEW log, log \in Seq(Held(log)), NEW e
  PROVE  /\ log \o <<e>> \in Seq(Held(log \o <<e>>))
         /\ Len(log) \in Nat /\ Len(log \o <<e>>) = Len(log) + 1
         /\ (log \o <<e>>)[Len(log) + 1] = e
         /\ \A i \in 1 .. Len(log) : (log \o <<e>>)[i] = log[i]
<1> DEFINE S == Held(log) \cup {e}
           longer == log \o <<e>>
<1>1. log \in Seq(S)
  <2>1. Held(log) \subseteq S
    OBVIOUS
  <2> HIDE DEF S
  <2> QED
    BY <2>1
<1>2. e \in S
  OBVIOUS
<1> HIDE DEF S
<1>3. /\ longer \in Seq(S) /\ Len(log) \in Nat /\ Len(longer) = Len(log) + 1
      /\ longer[Len(log) + 1] = e /\ \A i \in 1 .. Len(log) : longer[i] = log[i]
  BY <1>1, <1>2
<1>4. longer \in Seq(Held(longer))
  <2> HIDE DEF longer
  <2> QED
    BY <1>3, ListOfItsOwn
<1> QED
  BY <1>3, <1>4

LEMMA JoinedInTurn ==
  ASSUME NEW S, NEW p \in Seq(S), NEW q \in Seq(S), NEW r \in Seq(S)
  PROVE  p \o (q \o r) = (p \o q) \o r
  OBVIOUS

\* An event that follows a sound log makes a sound log, which tells that event last.
LEMMA SoundGoesOn ==
  ASSUME NEW log, Sound(log), NEW e, Follows(EndOf(log), e),
         Telling(EndOf(log), e)
           = [status |-> Telling(EndOf(log), e).status, eligible |-> Telling(EndOf(log), e).eligible]
  PROVE  Sound(log \o <<e>>) /\ EndOf(log \o <<e>>) = Telling(EndOf(log), e)
<1> DEFINE longer == log \o <<e>>
           n == Len(log)
           was == ToldBy(log)
           now == ToldBy(longer)
<1>1. /\ longer \in Seq(Held(longer))
      /\ n \in Nat /\ Len(longer) = n + 1 /\ longer[n + 1] = e
      /\ \A i \in 1 .. n : longer[i] = log[i]
  <2>1. log \in Seq(Held(log))
    BY DEF Sound
  <2> QED
    BY <2>1, Lengthened
<1>2. was[0] = Untold /\ \A i \in 1 .. n : was[i] = Telling(was[i - 1], log[i])
  BY <1>1, ToldUnfolds
<1>3. now[0] = Untold /\ \A i \in 1 .. n + 1 : now[i] = Telling(now[i - 1], longer[i])
  <2> HIDE DEF longer
  <2>1. Len(longer) \in Nat
    BY <1>1
  <2> QED
    BY <1>1, <2>1, ToldUnfolds
<1>4. EndOf(log) = was[n] /\ EndOf(longer) = now[n + 1]
  BY <1>1 DEF EndOf
<1>5. \A i \in 1 .. n : Follows(was[i - 1], log[i])
  BY DEF Sound
<1> HIDE DEF longer, was, now, n
<1>6. \A i \in 0 .. n : now[i] = was[i]
  <2> DEFINE T == {i \in Nat : i <= n => now[i] = was[i]}
  <2>1. 0 \in T
    BY <1>2, <1>3
  <2>2. ASSUME NEW i \in T PROVE i + 1 \in T
    <3> SUFFICES ASSUME i + 1 <= n PROVE now[i + 1] = was[i + 1]
      OBVIOUS
    <3>1. i \in Nat /\ now[i] = was[i]
      BY <1>1
    <3>2. i + 1 \in 1 .. n /\ i + 1 \in 1 .. n + 1 /\ (i + 1) - 1 = i
      BY <1>1, <3>1
    <3>3. now[i + 1] = Telling(now[i], longer[i + 1]) /\ was[i + 1] = Telling(was[i], log[i + 1])
      BY <1>2, <1>3, <3>2
    <3> QED
      BY <1>1, <3>1, <3>2, <3>3
  <2>3. T = Nat
    <3> HIDE DEF T
    <3>1. T \in SUBSET Nat
      BY DEF T
    <3> QED
      BY <2>1, <2>2, <3>1, NumberInduction
  <2> QED
    BY <1>1, <2>3
<1>7. now[n + 1] = Telling(was[n], e)
  <2>1. n + 1 \in 1 .. n + 1 /\ n \in 0 .. n /\ (n + 1) - 1 = n
    BY <1>1
  <2> QED
    BY <1>1, <1>3, <1>6, <2>1
<1>8. ASSUME NEW i \in 1 .. n + 1 PROVE Follows(now[i - 1], longer[i])
  <2>1. i - 1 \in 0 .. n
    BY <1>1
  <2>2. CASE i = n + 1
    <3>1. i - 1 = n
      BY <1>1, <2>2
    <3>2. now[i - 1] = was[n] /\ longer[i] = e
      BY <1>1, <1>6, <2>1, <2>2, <3>1
    <3> QED
      BY <1>4, <3>2
  <2>3. CASE i # n + 1
    <3>1. i \in 1 .. n
      BY <1>1, <2>3
    <3> QED
      BY <1>1, <1>5, <1>6, <2>1, <3>1
  <2> QED
    BY <2>2, <2>3
<1>9. EndOf(longer) = Telling(EndOf(log), e)
  BY <1>4, <1>7
<1>10. Sound(longer)
  <2>1. \A i \in 1 .. Len(longer) : Follows(ToldBy(longer)[i - 1], longer[i])
    BY <1>1, <1>8 DEF now
  <2> QED
    BY <1>1, <1>9, <2>1 DEF Sound
<1> QED
  BY <1>9, <1>10 DEF longer

At(s, g) == [status |-> s, eligible |-> g]

\* What each kind of event needs and tells.
LEMMA EventTells ==
  ASSUME NEW s, NEW g, NEW o, NEW n, NEW t \in {"DISCOVERED", "ACTIVATED", "MISSING"}
  PROVE  /\ Telling(At(s, g), Event("ELIGIBILITY_CHANGED", o, n)) = At(s, n)
         /\ Telling(At(s, g), Event("STATUS_CHANGED", o, n)) = At(n, g)
         /\ Telling(At(s, g), Event(t, o, n)) = At(n, None)
         /\ o # n /\ g \in {None, o} => Follows(At(s, g), Event("ELIGIBILITY_CHANGED", o, n))
         /\ o # n /\ s = o => Follows(At(s, g), Event("STATUS_CHANGED", o, n))
         /\ o # n /\ s = o => Follows(At(s, g), Event(t, o, n))
<1>1. \A k : /\ Event(k, o, n).type = k /\ Event(k, o, n).old = o /\ Event(k, o, n).new = n
  BY Zenon DEF Event
<1>2. At(s, g).status = s /\ At(s, g).eligible = g
  BY Zenon DEF At
<1>3. Telling(At(s, g), Event("ELIGIBILITY_CHANGED", o, n)) = At(s, n)
  <2>1. [At(s, g) EXCEPT !.eligible = n] = At(s, n)
    BY DEF At
  <2> QED
    BY <1>1, <2>1 DEF Telling
<1>4. Telling(At(s, g), Event("STATUS_CHANGED", o, n)) = At(n, g)
  <2>1. [At(s, g) EXCEPT !.status = n] = At(n, g)
    BY DEF At
  <2> QED
    BY <1>1, <2>1 DEF Telling
<1>5. Telling(At(s, g), Event(t, o, n)) = At(n, None)
  BY <1>1 DEF Telling, At
<1>6. o # n /\ g \in {None, o} => Follows(At(s, g), Event("ELIGIBILITY_CHANGED", o, n))
  BY <1>1, <1>2 DEF Follows
<1>7. o # n /\ s = o => Follows(At(s, g), Event("STATUS_CHANGED", o, n))
  BY <1>1, <1>2 DEF Follows
<1>8. o # n /\ s = o => Follows(At(s, g), Event(t, o, n))
  BY <1>1, <1>2 DEF Follows
<1> QED
  BY <1>3, <1>4, <1>5, <1>6, <1>7, <1>8

\* A sound log goes on with a change of eligibility from what it tells, if anything.
LEMMA EligibilityGoesOn ==
  ASSUME NEW log, NEW s, NEW g, Sound(log), EndOf(log) = At(s, g),
         NEW o, NEW n, o # n, g \in {None, o},
         NEW e, e = Event("ELIGIBILITY_CHANGED", o, n)
  PROVE  Sound(log \o <<e>>) /\ EndOf(log \o <<e>>) = At(s, n)
<1>1. Follows(EndOf(log), e) /\ Telling(EndOf(log), e) = At(s, n)
  BY EventTells
<1>2. At(s, n) = [status |-> At(s, n).status, eligible |-> At(s, n).eligible]
  BY DEF At
<1> QED
  BY <1>1, <1>2, SoundGoesOn

\* It goes on with a change of status.
LEMMA StatusGoesOn ==
  ASSUME NEW log, NEW s, NEW g, Sound(log), EndOf(log) = At(s, g),
         NEW o, NEW n, o # n, s = o,
         NEW e, e = Event("STATUS_CHANGED", o, n)
  PROVE  Sound(log \o <<e>>) /\ EndOf(log \o <<e>>) = At(n, g)
<1>1. Follows(EndOf(log), e) /\ Telling(EndOf(log), e) = At(n, g)
  BY EventTells
<1>2. At(n, g) = [status |-> At(n, g).status, eligible |-> At(n, g).eligible]
  BY DEF At
<1> QED
  BY <1>1, <1>2, SoundGoesOn

\* It goes on with an appearance or a disappearance, which leaves eligibility untold.
LEMMA TurnGoesOn ==
  ASSUME NEW log, NEW s, NEW g, Sound(log), EndOf(log) = At(s, g),
         NEW o, NEW n, o # n, s = o, NEW t \in {"DISCOVERED", "ACTIVATED", "MISSING"},
         NEW e, e = Event(t, o, n)
  PROVE  Sound(log \o <<e>>) /\ EndOf(log \o <<e>>) = At(n, None)
<1>1. Follows(EndOf(log), e) /\ Telling(EndOf(log), e) = At(n, None)
  BY EventTells
<1>2. At(n, None) = [status |-> At(n, None).status, eligible |-> At(n, None).eligible]
  BY DEF At
<1> QED
  BY <1>1, <1>2, SoundGoesOn

\* What the events of a product say of its row.
Means(log, row) ==
    /\ Sound(log)
    /\ row = None => log = <<>>
    /\ row # None => /\ EndOf(log).status = IF row.active THEN row.status ELSE "MISSING"
                     /\ EndOf(log).eligible \in {None, row.eligible}

LEMMA NothingTold == Sound(<<>>) /\ EndOf(<<>>) = Untold
<1>1. Len(<<>>) = 0 /\ <<>> \in Seq(Held(<<>>))
  OBVIOUS
<1>2. ToldBy(<<>>)[0] = Untold
  BY <1>1, ToldUnfolds
<1>3. EndOf(<<>>) = Untold
  BY <1>1, <1>2 DEF EndOf
<1> QED
  BY <1>1, <1>3 DEF Sound, Untold

\* A product that is seen is told of as it is now said to be.
LEMMA SeenTells ==
  ASSUME NEW log, NEW was \in ProductRow \cup {None}, Means(log, was), NEW terms \in Terms
  PROVE  Means(log \o SeenEvents(was, terms), Active(terms))
<1>1. /\ terms.status \in Status /\ terms.status # None /\ terms.status # "MISSING"
      /\ terms.eligible \in BOOLEAN
  BY ProjectionAssumption DEF Status
<1>2. /\ Active(terms) # None /\ Active(terms).active /\ Active(terms).status = terms.status
      /\ Active(terms).eligible = terms.eligible
  <2>1. Active(terms) \in ProductRow
    BY <1>1 DEF Active, ProductRow
  <2>2. Active(terms).active = TRUE
    BY DEF Active
  <2> QED
    BY <2>1, <2>2, ProjectionAssumption, Zenon DEF Active
<1> DEFINE new == log \o SeenEvents(was, terms)
<1> SUFFICES /\ Sound(new) /\ EndOf(new).status = terms.status
             /\ EndOf(new).eligible \in {None, terms.eligible}
  BY <1>2, Zenon DEF Means
<1>3. Sound(log)
  BY DEF Means
<1>4. \A s, g : At(s, g).status = s /\ At(s, g).eligible = g
  BY Zenon DEF At
<1>5. CASE was = None
  <2>1. log = <<>> /\ EndOf(log) = At(None, None)
    BY <1>5, NothingTold DEF Means, Untold, At
  <2> DEFINE e == Event("DISCOVERED", None, terms.status)
  <2>2. SeenEvents(was, terms) = <<e>>
    BY <1>5 DEF SeenEvents
  <2> HIDE DEF e
  <2>3. Sound(log \o <<e>>) /\ EndOf(log \o <<e>>) = At(terms.status, None)
    <3>1. PICK t \in {"DISCOVERED", "ACTIVATED", "MISSING"} : t = "DISCOVERED"
      OBVIOUS
    <3>2. PICK o : o = None
      OBVIOUS
    <3>3. o # terms.status /\ EndOf(log) = At(o, None)
      BY <1>1, <2>1, <3>2
    <3>4. e = Event(t, o, terms.status)
      BY <3>1, <3>2 DEF e
    <3> QED
      BY <1>3, <3>3, <3>4, TurnGoesOn
  <2> QED
    BY <1>4, <2>2, <2>3
<1>6. CASE was # None /\ ~was.active
  <2> DEFINE g == EndOf(log).eligible
             e == Event("ACTIVATED", "MISSING", terms.status)
  <2>1. EndOf(log) = At("MISSING", g)
    BY <1>6 DEF Means, Sound, At
  <2>2. SeenEvents(was, terms) = <<e>>
    BY <1>6 DEF SeenEvents
  <2> HIDE DEF e
  <2>3. Sound(log \o <<e>>) /\ EndOf(log \o <<e>>) = At(terms.status, None)
    BY <1>1, <1>3, <2>1, TurnGoesOn DEF e
  <2> QED
    BY <1>4, <2>2, <2>3
<1>7. CASE was # None /\ was.active
  <2> DEFINE g == EndOf(log).eligible
             el == EligibilityEvents(was, terms)
             st == StatusEvents(was, terms)
             mid == log \o el
  <2>1. EndOf(log) = At(was.status, g) /\ g \in {None, was.eligible}
    BY <1>7 DEF Means, Sound, At
  <2>2. SeenEvents(was, terms) = el \o st
    BY <1>7 DEF SeenEvents
  <2>3. /\ Sound(mid)
        /\ \E h \in {None, terms.eligible} : EndOf(mid) = At(was.status, h)
    <3>1. CASE was.eligible = terms.eligible
      <4>1. el = <<>>
        BY <3>1 DEF EligibilityEvents
      <4>2. mid = log
        BY <1>3, <4>1 DEF Sound
      <4>3. g \in {None, terms.eligible}
        BY <2>1, <3>1, Zenon
      <4> HIDE DEF g, mid
      <4> QED
        BY <1>3, <2>1, <4>2, <4>3
    <3>2. CASE was.eligible # terms.eligible
      <4> DEFINE e == Event("ELIGIBILITY_CHANGED", was.eligible, terms.eligible)
      <4>1. el = <<e>>
        BY <3>2 DEF EligibilityEvents
      <4> HIDE DEF e, g
      <4>2. Sound(log \o <<e>>) /\ EndOf(log \o <<e>>) = At(was.status, terms.eligible)
        BY <1>3, <2>1, <3>2, EligibilityGoesOn DEF e
      <4> QED
        BY <4>1, <4>2
    <3> QED
      BY <3>1, <3>2
  <2>4. PICK h \in {None, terms.eligible} : EndOf(mid) = At(was.status, h)
    BY <2>3
  <2>5. new = mid \o st
    <3>1. \E S : log \in Seq(S) /\ el \in Seq(S) /\ st \in Seq(S)
      <4> DEFINE e == Event("ELIGIBILITY_CHANGED", was.eligible, terms.eligible)
                 d == Event("STATUS_CHANGED", was.status, terms.status)
                 R == Held(log)
                 S == R \cup {e, d}
      <4>1. log \in Seq(R)
        BY <1>3 DEF Sound
      <4>2. el \in {<<>>, <<e>>} /\ st \in {<<>>, <<d>>}
        BY DEF EligibilityEvents, StatusEvents
      <4>3. R \subseteq S /\ e \in S /\ d \in S
        OBVIOUS
      <4> HIDE DEF R, S, e, d, el, st
      <4>4. log \in Seq(S) /\ el \in Seq(S) /\ st \in Seq(S)
        <5>1. log \in Seq(S)
          BY <4>1, <4>3
        <5>2. <<>> \in Seq(S) /\ <<e>> \in Seq(S) /\ <<d>> \in Seq(S)
          BY <4>3
        <5> QED
          BY <4>2, <5>1, <5>2
      <4> QED
        BY <4>4
    <3>2. PICK S : log \in Seq(S) /\ el \in Seq(S) /\ st \in Seq(S)
      BY <3>1
    <3> HIDE DEF el, st
    <3>3. log \o (el \o st) = (log \o el) \o st
      BY <3>2, JoinedInTurn
    <3> QED
      BY <2>2, <3>3
  <2>6. CASE was.status = terms.status
    <3>1. st = <<>>
      BY <2>6 DEF StatusEvents
    <3>2. mid \in Seq(Held(mid))
      BY <2>3 DEF Sound
    <3> HIDE DEF mid
    <3>3. new = mid
      BY <2>5, <3>1, <3>2
    <3> HIDE DEF new
    <3> QED
      BY <1>4, <2>3, <2>4, <2>6, <3>3
  <2>7. CASE was.status # terms.status
    <3> DEFINE e == Event("STATUS_CHANGED", was.status, terms.status)
    <3>1. st = <<e>>
      BY <2>7 DEF StatusEvents
    <3> HIDE DEF mid, e
    <3>2. Sound(mid \o <<e>>) /\ EndOf(mid \o <<e>>) = At(terms.status, h)
      BY <2>3, <2>4, <2>7, StatusGoesOn DEF e
    <3> HIDE DEF new
    <3> QED
      BY <1>4, <2>4, <2>5, <3>1, <3>2
  <2> QED
    BY <2>6, <2>7
<1> QED
  BY <1>5, <1>6, <1>7

\* A product that is not seen any more is told of as missing, once.
LEMMA MissingTells ==
  ASSUME NEW log, NEW was \in ProductRow \cup {None}, Means(log, was)
  PROVE  Means(log \o MissingEvents(was), IF was # None THEN [was EXCEPT !.active = FALSE] ELSE was)
<1> DEFINE gone == [was EXCEPT !.active = FALSE]
<1>1. Sound(log) /\ log \o <<>> = log
  BY DEF Means, Sound
<1>2. CASE was = None
  BY <1>1, <1>2 DEF MissingEvents
<1>3. CASE was # None
  <2>1. /\ was \in ProductRow /\ gone \in ProductRow /\ gone # None
        /\ gone.active = FALSE /\ gone.status = was.status /\ gone.eligible = was.eligible
    <3>1. was \in ProductRow /\ gone \in ProductRow
      BY <1>3 DEF ProductRow
    <3>2. gone.active = FALSE /\ gone.status = was.status /\ gone.eligible = was.eligible
      BY <3>1 DEF ProductRow
    <3> QED
      BY <3>1, <3>2, ProjectionAssumption, Zenon
  <2> HIDE DEF gone
  <2> DEFINE g == EndOf(log).eligible
             new == log \o MissingEvents(was)
  <2>2. Sound(new) /\ EndOf(new).status = "MISSING" /\ EndOf(new).eligible \in {None, was.eligible}
    <3>1. CASE was.active
      <4> DEFINE e == Event("MISSING", was.status, "MISSING")
      <4>1. EndOf(log) = At(was.status, g)
        BY <1>3, <3>1 DEF Means, Sound, At
      <4>2. MissingEvents(was) = <<e>>
        BY <1>3, <3>1 DEF MissingEvents
      <4>3. was.status # "MISSING"
        BY <2>1 DEF ProductRow, Status
      <4> HIDE DEF e, g
      <4>4. Sound(log \o <<e>>) /\ EndOf(log \o <<e>>) = At("MISSING", None)
        BY <1>1, <4>1, <4>3, TurnGoesOn DEF e
      <4>5. At("MISSING", None).status = "MISSING" /\ At("MISSING", None).eligible = None
        BY DEF At
      <4> QED
        BY <4>2, <4>4, <4>5
    <3>2. CASE ~was.active
      <4>1. MissingEvents(was) = <<>>
        BY <1>3, <3>2 DEF MissingEvents
      <4>2. EndOf(log).status = "MISSING" /\ EndOf(log).eligible \in {None, was.eligible}
        BY <1>3, <3>2 DEF Means
      <4> QED
        BY <1>1, <4>1, <4>2
    <3> QED
      BY <3>1, <3>2
  <2> HIDE DEF new
  <2>3. EndOf(new).eligible \in {None, gone.eligible}
    BY <2>1, <2>2, Zenon
  <2>4. Means(new, gone)
    BY <2>1, <2>2, <2>3 DEF Means
  <2> QED
    BY <1>3, <2>4 DEF gone, new
<1> QED
  BY <1>2, <1>3

FinancingInv ==
    \A f \in Product : product[f] \in ProductRow \cup {None} /\ Means(finLog[f], product[f])

LEMMA ApplyFinancingInv == ASSUME FinancingInv, NEW s, ApplyFinancing(s) PROVE FinancingInv'
<1> DEFINE mine == {f \in Product : FinSource[f] = s}
<1>1. PICK seen \in (SUBSET mine) \ {{}} : \E terms \in [seen -> Terms] :
        /\ product' = [f \in Product |->
             IF f \in seen THEN Active(terms[f])
             ELSE IF f \in mine /\ product[f] # None THEN [product[f] EXCEPT !.active = FALSE]
             ELSE product[f]]
        /\ finLog' = [f \in Product |->
             IF f \in seen THEN finLog[f] \o SeenEvents(product[f], terms[f])
             ELSE IF f \in mine THEN finLog[f] \o MissingEvents(product[f])
             ELSE finLog[f]]
  BY DEF ApplyFinancing
<1>2. PICK terms \in [seen -> Terms] :
        /\ product' = [f \in Product |->
             IF f \in seen THEN Active(terms[f])
             ELSE IF f \in mine /\ product[f] # None THEN [product[f] EXCEPT !.active = FALSE]
             ELSE product[f]]
        /\ finLog' = [f \in Product |->
             IF f \in seen THEN finLog[f] \o SeenEvents(product[f], terms[f])
             ELSE IF f \in mine THEN finLog[f] \o MissingEvents(product[f])
             ELSE finLog[f]]
  BY <1>1
<1> HIDE DEF mine
<1> SUFFICES ASSUME NEW f \in Product
             PROVE  product'[f] \in ProductRow \cup {None} /\ Means(finLog'[f], product'[f])
  BY DEF FinancingInv
<1> DEFINE was == product[f]
           log == finLog[f]
<1>3. was \in ProductRow \cup {None} /\ Means(log, was)
  BY DEF FinancingInv
<1>4. CASE f \in seen
  <2>1. product'[f] = Active(terms[f]) /\ finLog'[f] = log \o SeenEvents(was, terms[f])
    BY <1>2, <1>4
  <2>2. terms[f] \in Terms
    BY <1>4
  <2>3. Active(terms[f]) \in ProductRow
    BY <2>2, ProjectionAssumption DEF Active, ProductRow
  <2> HIDE DEF was, log
  <2> QED
    BY <1>3, <2>1, <2>2, <2>3, SeenTells
<1>5. CASE f \notin seen /\ f \in mine
  <2> DEFINE gone == IF was # None THEN [was EXCEPT !.active = FALSE] ELSE was
  <2>1. product'[f] = gone
    BY <1>2, <1>5
  <2>2. finLog'[f] = log \o MissingEvents(was)
    BY <1>2, <1>5
  <2> HIDE DEF was, log
  <2>3. Means(log \o MissingEvents(was), gone)
    BY <1>3, MissingTells
  <2>4. gone \in ProductRow \cup {None}
    BY <1>3 DEF ProductRow
  <2> QED
    BY <2>1, <2>2, <2>3, <2>4
<1>6. CASE f \notin seen /\ f \notin mine
  <2>1. product'[f] = was /\ finLog'[f] = log
    BY <1>2, <1>6
  <2> QED
    BY <1>3, <2>1
<1> QED
  BY <1>4, <1>5, <1>6

\* The events of a financing product replay to its row without a jump, through
\* every disappearance and return (db.py, apply_financing_snapshot).
THEOREM FinancingIsTold == Spec => []FinancingLogExplains
<1>1. ASSUME Init PROVE FinancingInv
  <2>1. product = [f \in Product |-> None] /\ finLog = [f \in Product |-> <<>>]
    BY <1>1 DEF Init
  <2>2. Means(<<>>, None)
    BY NothingTold DEF Means
  <2> QED
    BY <2>1, <2>2 DEF FinancingInv
<1>2. ASSUME FinancingInv, [Next]_vars PROVE FinancingInv'
  <2>1. CASE \E s \in {FinSource[f] : f \in Product} : ApplyFinancing(s)
    BY <1>2, <2>1, ApplyFinancingInv
  <2>2. CASE UNCHANGED <<product, finLog>>
    BY <1>2, <2>2 DEF FinancingInv
  <2>3. \/ \E s \in {FinSource[f] : f \in Product} : ApplyFinancing(s)
        \/ UNCHANGED <<product, finLog>>
    BY <1>2 DEF Next, vars, financing, ObserveMarkets, ActOn, RebuildMarkets,
                RebuildFinancing, RebuildTags
  <2> QED
    BY <2>1, <2>2, <2>3
<1>3. FinancingInv => FinancingLogExplains
  BY DEF FinancingInv, Means, Sound, EndOf, FinancingLogExplains
<1> QED
  BY <1>1, <1>2, <1>3, PTL DEF Spec
=============================================================================
