----------------------------- MODULE ServiceProofs -----------------------------
(***************************************************************************)
(* What the service gives those who ask it: a sign-in, an exported file, a *)
(* page of a listing.  Three machines that share nothing, each with names  *)
(* of its own, and each proved for any values of its constants:            *)
(*   - attempts hashed side by side account for every slot and every       *)
(*     reservation, and stay within the budget of failures;                *)
(*   - what an export fetches is what its sources listed meanwhile, and    *)
(*     the file it writes is whole whenever it is read;                    *)
(*   - a page is what its filters mean in the states of the store that its *)
(*     statements were evaluated in.                                       *)
(***************************************************************************)
EXTENDS SignIn, Export, Listing, FiniteSetTheorems, SequenceTheorems, TLAPS

-----------------------------------------------------------------------------
(* Sign-in *)

SignInTypeOK ==
    /\ now \in Nat /\ remembered \in Seq(Address)
    /\ failures \in [Address -> Seq(Nat)] /\ counted \in [Address -> Seq(Nat)]
    /\ pending \in [Address -> Int] /\ free \in Int
    /\ hashing \in [Request -> Address \cup {"none"}]

\* What the deque of an address still has are the last of its counted failures: the
\* others are too old to matter.
Remembered ==
    \A a \in Address :
        LET gone == Len(counted[a]) - Len(failures[a])
        IN  /\ gone >= 0
            /\ \A i \in 1 .. gone : counted[a][i] < now - Window
            /\ \A i \in 1 .. Len(failures[a]) : failures[a][i] = counted[a][gone + i]

\* The counted failures of a that are within the window now.
Current(a) == {i \in DOMAIN counted[a] : counted[a][i] >= now - Window}

\* They and the reservations share one budget.  This is what an attempt is admitted on,
\* and what makes BudgetHolds inductive.
Shared == \A a \in Address : Cardinality(Current(a)) + pending[a] <= Limit

\* No failure is of a time that has not come.
Past == \A a \in Address : \A i \in DOMAIN counted[a] : counted[a][i] <= now

SignInIInv == SignInTypeOK /\ ReservationsAccount /\ Remembered /\ Past /\ Shared /\ BudgetHolds

-----------------------------------------------------------------------------
(* Slots and reservations *)

Hashing == {r \in Request : hashing[r] # "none"}
HashingFor(a) == {r \in Request : hashing[r] = a}

\* A request more, or a request less, of finitely many.
LEMMA Counts ==
  ASSUME NEW S \in SUBSET Request, NEW r \in Request
  PROVE  /\ Cardinality(S) \in Nat
         /\ r \notin S => Cardinality(S \cup {r}) = Cardinality(S) + 1
         /\ r \in S => Cardinality(S \ {r}) = Cardinality(S) - 1
<1>1. IsFiniteSet(S)
  BY SignInAssumption, FS_Subset
<1> QED
  BY <1>1, FS_CardinalityType, FS_AddElement, FS_RemoveElement

\* The definition, with names for the counted sets.
LEMMA Accounted ==
  ReservationsAccount <=>
      /\ free = Slots - Cardinality(Hashing)
      /\ \A a \in Address : pending[a] = Cardinality(HashingFor(a))
BY DEF ReservationsAccount, Hashing, HashingFor

\* A reservation is made for one request and taken back for one.
LEMMA AdmitAccounts ==
  ASSUME SignInTypeOK, ReservationsAccount, NEW r \in Request, NEW a \in Address, Admit(r, a)
  PROVE  ReservationsAccount'
<1>1. hashing' = [hashing EXCEPT ![r] = a] /\ hashing[r] = "none" /\ a # "none"
      /\ hashing \in [Request -> Address \cup {"none"}]
  BY SignInAssumption DEF SignInTypeOK, Admit
<1>2. free' = free - 1 /\ pending' = [pending EXCEPT ![a] = @ + 1]
      /\ pending \in [Address -> Int] /\ Slots \in Nat
  BY SignInAssumption DEF SignInTypeOK, Admit
<1>3. Hashing' = Hashing \cup {r} /\ r \notin Hashing /\ Hashing \in SUBSET Request
  BY <1>1 DEF Hashing
<1>4. HashingFor(a)' = HashingFor(a) \cup {r} /\ r \notin HashingFor(a)
      /\ HashingFor(a) \in SUBSET Request
  BY <1>1 DEF HashingFor
<1>5. \A b \in Address \ {a} : HashingFor(b)' = HashingFor(b)
  BY <1>1, SignInAssumption DEF HashingFor
<1>6. Cardinality(Hashing') = Cardinality(Hashing) + 1 /\ Cardinality(Hashing) \in Nat
  BY <1>3, Counts
<1>7. Cardinality(HashingFor(a)') = Cardinality(HashingFor(a)) + 1
  BY <1>4, Counts
<1>8. free' = Slots - Cardinality(Hashing')
  BY <1>2, <1>6, Accounted
<1>9. \A b \in Address : pending'[b] = Cardinality(HashingFor(b)')
  BY <1>2, <1>5, <1>7, Accounted
<1> QED
  BY <1>8, <1>9 DEF ReservationsAccount, Hashing, HashingFor

LEMMA ReturnAccounts ==
  ASSUME SignInTypeOK, ReservationsAccount, NEW r \in Request, Return(r)
  PROVE  ReservationsAccount'
<1>0. PICK a \in Address : a = hashing[r]
  BY DEF SignInTypeOK, Return
<1>1. hashing' = [hashing EXCEPT ![r] = "none"] /\ a # "none"
      /\ hashing \in [Request -> Address \cup {"none"}]
  BY <1>0 DEF SignInTypeOK, Return
<1>2. free' = free + 1 /\ pending' = [pending EXCEPT ![a] = @ - 1]
      /\ pending \in [Address -> Int] /\ Slots \in Nat
  BY <1>0, SignInAssumption DEF SignInTypeOK, Return
<1>3. Hashing' = Hashing \ {r} /\ r \in Hashing /\ Hashing \in SUBSET Request
  BY <1>0, <1>1 DEF Hashing
<1>4. HashingFor(a)' = HashingFor(a) \ {r} /\ r \in HashingFor(a)
      /\ HashingFor(a) \in SUBSET Request
  BY <1>0, <1>1 DEF HashingFor
<1>5. \A b \in Address \ {a} : HashingFor(b)' = HashingFor(b)
  BY <1>0, <1>1, SignInAssumption DEF HashingFor
<1>6. Cardinality(Hashing') = Cardinality(Hashing) - 1 /\ Cardinality(Hashing) \in Nat
  BY <1>3, Counts
<1>7. Cardinality(HashingFor(a)') = Cardinality(HashingFor(a)) - 1
  BY <1>4, Counts
<1>8. free' = Slots - Cardinality(Hashing')
  BY <1>2, <1>6, Accounted
<1>9. \A b \in Address : pending'[b] = Cardinality(HashingFor(b)')
  BY <1>2, <1>5, <1>7, Accounted
<1> QED
  BY <1>8, <1>9 DEF ReservationsAccount, Hashing, HashingFor

LEMMA AccountStep ==
  ASSUME SignInTypeOK, ReservationsAccount, [SignInNext]_signInVars
  PROVE  ReservationsAccount'
<1>1. CASE free' = free /\ pending' = pending /\ hashing' = hashing
  BY <1>1 DEF ReservationsAccount
<1>2. ASSUME NEW r \in Request, Succeed(r) \/ Fail(r) \/ Raise(r)
      PROVE  ReservationsAccount'
  BY <1>2, ReturnAccounts DEF Succeed, Fail, Raise
<1>3. ASSUME NEW r \in Request, NEW a \in Address, Admit(r, a)
      PROVE  ReservationsAccount'
  BY <1>3, AdmitAccounts
<1> QED
  BY <1>1, <1>2, <1>3 DEF SignInNext, signInVars, budget, Tick, Refuse

-----------------------------------------------------------------------------
(* Failures *)

\* Looking up a budget takes away a first part of the deque, all of it too old.
LEMMA OldIsAPrefix ==
  ASSUME SignInTypeOK, NEW a \in Address
  PROVE  \E k \in 0 .. Len(failures[a]) :
            /\ \A i \in 1 .. k : failures[a][i] < now - Window
            /\ Recent(a) = SubSeq(failures[a], k + 1, Len(failures[a]))
<1> DEFINE n == Len(failures[a])
           k == Cardinality(Old(a))
<1>1. failures[a] \in Seq(Nat) /\ n \in Nat /\ DOMAIN failures[a] = 1 .. n
  BY DEF SignInTypeOK
<1>2. Old(a) \subseteq 1 .. n
  BY <1>1 DEF Old
<1>3. IsFiniteSet(1 .. n) /\ Cardinality(1 .. n) = n
  BY <1>1, FS_Interval
<1>4. IsFiniteSet(Old(a)) /\ k \in 0 .. n
  BY <1>1, <1>2, <1>3, FS_Subset, FS_CardinalityType
<1>5. 1 .. k \subseteq Old(a)
  <2> SUFFICES ASSUME NEW i \in 1 .. k, i \notin Old(a) PROVE FALSE
    OBVIOUS
  <2>1. i \in 1 .. n
    BY <1>1, <1>4
  <2>2. Old(a) \subseteq 1 .. i - 1
    <3> SUFFICES ASSUME NEW j \in Old(a), j >= i PROVE FALSE
      BY <1>1, <1>2, <2>1
    <3>1. \A m \in 1 .. i : m \in 1 .. j
      BY <1>1, <1>2, <2>1
    <3> QED
      BY <1>1, <2>1, <3>1 DEF Old
  <2>3. IsFiniteSet(1 .. i - 1) /\ Cardinality(1 .. i - 1) = i - 1
    BY <2>1, FS_Interval
  <2>4. k <= i - 1
    BY <2>2, <2>3, FS_Subset
  <2> QED
    BY <1>4, <2>1, <2>4
<1>6. \A i \in 1 .. k : failures[a][i] < now - Window
  BY <1>1, <1>4, <1>5 DEF Old
<1> QED
  BY <1>4, <1>6 DEF Recent

\* Whatever the lookup takes away, the deque still has every failure within the window.
LEMMA RecentFacts ==
  ASSUME SignInTypeOK, Remembered, NEW a \in Address
  PROVE  /\ Recent(a) \in Seq(Nat)
         /\ LET gone == Len(counted[a]) - Len(Recent(a))
            IN  /\ gone >= 0
                /\ \A i \in 1 .. gone : counted[a][i] < now - Window
                /\ \A i \in 1 .. Len(Recent(a)) : Recent(a)[i] = counted[a][gone + i]
<1> DEFINE f == failures[a]
           c == counted[a]
           d == Len(c) - Len(f)
<1>1. f \in Seq(Nat) /\ c \in Seq(Nat) /\ Len(f) \in Nat /\ Len(c) \in Nat /\ d \in Int
  BY DEF SignInTypeOK
<1>2. d \in Nat /\ Len(c) = d + Len(f)
  <2>1. d >= 0
    BY DEF Remembered
  <2> QED
    BY <1>1, <2>1
<1>3. (\A i \in 1 .. d : c[i] < now - Window) /\ (\A i \in 1 .. Len(f) : f[i] = c[d + i])
  BY DEF Remembered
<1>4. PICK k \in 0 .. Len(f) : /\ \A i \in 1 .. k : f[i] < now - Window
                               /\ Recent(a) = SubSeq(f, k + 1, Len(f))
  BY OldIsAPrefix
<1>5. k \in Nat /\ k <= Len(f) /\ Len(f) \in Nat
  BY <1>1
<1>6. /\ Recent(a) \in Seq(Nat) /\ Len(Recent(a)) = Len(f) - k
      /\ \A i \in 1 .. Len(f) - k : Recent(a)[i] = f[k + i]
  BY <1>1, <1>4
<1> HIDE DEF f, c, d
<1>7. Len(c) - Len(Recent(a)) = d + k /\ d + k >= 0
  <2>1. Len(Recent(a)) = Len(f) - k
    BY <1>6
  <2> QED
    BY <1>2, <1>5, <2>1
<1>8. ASSUME NEW i \in 1 .. d + k PROVE c[i] < now - Window
  <2>1. CASE i <= d
    <3>1. i \in 1 .. d
      BY <1>2, <1>5, <2>1
    <3> QED
      BY <1>3, <3>1
  <2>2. CASE i > d
    <3>1. i - d \in 1 .. k /\ i - d \in 1 .. Len(f) /\ d + (i - d) = i
      BY <1>2, <1>5, <2>2
    <3> QED
      BY <1>3, <1>4, <3>1
  <2> QED
    BY <1>2, <1>5, <2>1, <2>2
<1>9. ASSUME NEW i \in 1 .. Len(f) - k PROVE Recent(a)[i] = c[d + k + i]
  <2>1. k + i \in 1 .. Len(f) /\ d + (k + i) = d + k + i
    BY <1>2, <1>5
  <2>2. Recent(a)[i] = f[k + i] /\ f[k + i] = c[d + (k + i)]
    BY <1>3, <1>6, <2>1
  <2> QED
    BY <2>1, <2>2
<1> QED
  BY <1>6, <1>7, <1>8, <1>9 DEF c

\* The failures within the window are finitely many, and no more than the deque holds.
LEMMA CurrentFits ==
  ASSUME SignInTypeOK, Remembered, NEW a \in Address
  PROVE  /\ IsFiniteSet(Current(a)) /\ Cardinality(Current(a)) \in Nat
         /\ Cardinality(Current(a)) <= Len(Recent(a))
<1> DEFINE n == Len(counted[a])
           m == Len(Recent(a))
<1>1. counted[a] \in Seq(Nat) /\ n \in Nat /\ DOMAIN counted[a] = 1 .. n /\ now - Window \in Int
  BY SignInAssumption DEF SignInTypeOK
<1>2. m \in Nat /\ n - m >= 0 /\ (\A i \in 1 .. n - m : counted[a][i] < now - Window)
  BY RecentFacts
<1> HIDE DEF n, m
<1>3. Current(a) \subseteq (n - m + 1) .. n
  <2> SUFFICES ASSUME NEW i \in Current(a) PROVE i \in (n - m + 1) .. n
    OBVIOUS
  <2>1. i \in 1 .. n /\ counted[a][i] >= now - Window /\ counted[a][i] \in Nat
    BY <1>1 DEF Current
  <2>2. ~(i \in 1 .. n - m)
    BY <1>1, <1>2, <2>1
  <2> QED
    BY <1>1, <1>2, <2>1, <2>2
<1>4. IsFiniteSet((n - m + 1) .. n) /\ Cardinality((n - m + 1) .. n) = m
  <2> DEFINE low == n - m + 1
  <2>1. low \in Int /\ n \in Int /\ low <= n + 1 /\ n - low + 1 = m
    BY <1>1, <1>2
  <2> HIDE DEF low
  <2>2. IsFiniteSet(low .. n)
    BY <2>1, FS_Interval
  <2>3. Cardinality(low .. n) = IF low > n THEN 0 ELSE n - low + 1
    BY <2>1, FS_Interval
  <2>4. Cardinality(low .. n) = m
    BY <2>1, <2>3
  <2> QED
    BY <2>2, <2>4 DEF low
<1>5. IsFiniteSet(Current(a)) /\ Cardinality(Current(a)) \in Nat
      /\ Cardinality(Current(a)) <= Cardinality((n - m + 1) .. n)
  BY <1>3, <1>4, FS_Subset, FS_CardinalityType
<1> QED
  BY <1>4, <1>5 DEF m

-----------------------------------------------------------------------------
(* What a step does to the budget of an address *)

Spares(a) ==
    /\ now' = now /\ failures'[a] = failures[a] /\ counted'[a] = counted[a]
    /\ pending'[a] <= pending[a]

Looks(a) ==
    /\ now' = now /\ failures'[a] = Recent(a) /\ counted'[a] = counted[a]
    /\ \/ pending'[a] = pending[a]
       \/ Allowed(a) /\ pending'[a] = pending[a] + 1

Forgets(a) ==
    /\ now' = now /\ failures'[a] = <<>> /\ counted'[a] = <<>>
    /\ pending'[a] <= pending[a]

Adds(a) ==
    /\ now' = now /\ failures'[a] = Append(failures[a], now)
    /\ counted'[a] = Append(counted[a], now) /\ pending'[a] = pending[a] - 1

Ages(a) ==
    /\ now' = now + 1 /\ failures'[a] = failures[a] /\ counted'[a] = counted[a]
    /\ pending'[a] = pending[a]

Affects(a) == Spares(a) \/ Looks(a) \/ Forgets(a) \/ Adds(a) \/ Ages(a)

LEMMA RemoveAtType ==
  ASSUME NEW S, NEW s \in Seq(S), NEW i \in 1 .. Len(s)
  PROVE  RemoveAt(s, i) \in Seq(S)
<1>1. SubSeq(s, 1, i - 1) \in Seq(S)
  <2>1. \A j \in 1 .. i - 1 : s[j] \in S
    OBVIOUS
  <2> QED
    BY <2>1, SubSeqProperties
<1>2. SubSeq(s, i + 1, Len(s)) \in Seq(S)
  <2>1. \A j \in i + 1 .. Len(s) : s[j] \in S
    OBVIOUS
  <2> QED
    BY <2>1, SubSeqProperties
<1> QED
  BY <1>1, <1>2, ConcatProperties DEF RemoveAt

\* Every step keeps the types and is one of these for every address.
LEMMA Effects ==
  ASSUME SignInTypeOK, Remembered, [SignInNext]_signInVars
  PROVE  SignInTypeOK' /\ \A a \in Address : Affects(a)
<1> USE DEF SignInTypeOK, budget
<1>1. CASE UNCHANGED signInVars
  BY <1>1 DEF signInVars, Affects, Spares
<1>2. CASE Tick
  BY <1>2 DEF Tick, Affects, Ages
<1>3. ASSUME NEW a \in Address, LookUp(a)
      PROVE  /\ remembered' \in Seq(Address)
             /\ failures' \in [Address -> Seq(Nat)] /\ counted' \in [Address -> Seq(Nat)]
             /\ failures'[a] = Recent(a) /\ counted'[a] = counted[a]
             /\ \A b \in Address \ {a} :
                   \/ failures'[b] = failures[b] /\ counted'[b] = counted[b]
                   \/ failures'[b] = <<>> /\ counted'[b] = <<>>
  <2>1. a \notin Forgotten(a) /\ (Forgotten(a) # {} => remembered # <<>>)
    <3> SUFFICES ASSUME Forgotten(a) # {}
                 PROVE  remembered # <<>> /\ a # Head(remembered)
      BY DEF Forgotten
    <3>1. remembered # <<>> /\ ~Known(a)
      BY DEF Forgotten
    <3> QED
      BY <3>1 DEF Known, Contains
  <2>2. remembered' \in Seq(Address)
    BY <1>3, <2>1 DEF LookUp
  <2>3. failures'[a] = Recent(a) /\ counted'[a] = counted[a]
    BY <1>3, <2>1 DEF LookUp
  <2>4. Recent(a) \in Seq(Nat) /\ <<>> \in Seq(Nat)
    BY RecentFacts
  <2>5. failures' \in [Address -> Seq(Nat)] /\ counted' \in [Address -> Seq(Nat)]
    BY <1>3, <2>4 DEF LookUp
  <2>6. \A b \in Address \ {a} :
           \/ failures'[b] = failures[b] /\ counted'[b] = counted[b]
           \/ failures'[b] = <<>> /\ counted'[b] = <<>>
    BY <1>3 DEF LookUp
  <2> QED
    BY <2>2, <2>3, <2>5, <2>6
<1>4. ASSUME NEW a \in Address, Refuse(a)
      PROVE  SignInTypeOK' /\ \A b \in Address : Affects(b)
  BY <1>3, <1>4 DEF Refuse, Affects, Looks, Spares, Forgets
<1>5. ASSUME NEW r \in Request, NEW a \in Address, Admit(r, a)
      PROVE  SignInTypeOK' /\ \A b \in Address : Affects(b)
  BY <1>3, <1>5 DEF Admit, Affects, Looks, Spares, Forgets
<1>6. ASSUME NEW r \in Request, Return(r)
      PROVE  /\ now' = now /\ free' \in Int /\ hashing[r] \in Address
             /\ hashing' \in [Request -> Address \cup {"none"}]
             /\ pending' \in [Address -> Int]
             /\ pending'[hashing[r]] = pending[hashing[r]] - 1
             /\ \A b \in Address \ {hashing[r]} : pending'[b] = pending[b]
  BY <1>6 DEF Return
<1>7. ASSUME NEW r \in Request, Succeed(r)
      PROVE  SignInTypeOK' /\ \A b \in Address : Affects(b)
  <2>1. remembered' \in Seq(Address)
    <3>1. CASE Known(hashing[r])
      <4>1. Place(hashing[r]) \in 1 .. Len(remembered)
        BY <3>1 DEF Known, Contains, Place
      <4> QED
        BY <1>7, <3>1, <4>1, RemoveAtType DEF Succeed
    <3> QED
      BY <1>7, <3>1 DEF Succeed
  <2> QED
    BY <1>6, <1>7, <2>1 DEF Succeed, Affects, Spares, Forgets
<1>8. ASSUME NEW r \in Request, Fail(r)
      PROVE  SignInTypeOK' /\ \A b \in Address : Affects(b)
  <2> DEFINE a == hashing[r]
  <2>1. /\ Return(r) /\ a \in Address
        /\ remembered' = IF Known(a) THEN remembered ELSE Append(remembered, a)
        /\ failures' = [failures EXCEPT ![a] = Append(@, now)]
        /\ counted' = [counted EXCEPT ![a] = Append(@, now)]
    BY <1>6, <1>8 DEF Fail
  <2> HIDE DEF a
  <2>2. SignInTypeOK'
    BY <1>6, <2>1
  <2>3. \A b \in Address \ {a} : Spares(b)
    BY <1>6, <2>1 DEF Spares, a
  <2>4. Adds(a)
    BY <1>6, <2>1 DEF Adds, a
  <2> QED
    BY <2>1, <2>2, <2>3, <2>4 DEF Affects
<1>9. ASSUME NEW r \in Request, Raise(r)
      PROVE  SignInTypeOK' /\ \A b \in Address : Affects(b)
  <2>1. Return(r) /\ remembered' = remembered /\ failures' = failures /\ counted' = counted
    BY <1>9 DEF Raise
  <2>2. SignInTypeOK'
    BY <1>6, <2>1
  <2>3. ASSUME NEW b \in Address PROVE pending'[b] <= pending[b]
    <3>1. pending[b] \in Int
      OBVIOUS
    <3>2. CASE b = hashing[r]
      BY <1>6, <2>1, <3>1, <3>2
    <3>3. CASE b # hashing[r]
      BY <1>6, <2>1, <3>1, <3>3
    <3> QED
      BY <3>2, <3>3
  <2> QED
    BY <1>6, <2>1, <2>2, <2>3 DEF Affects, Spares
<1> QED
  BY <1>1, <1>2, <1>4, <1>5, <1>7, <1>8, <1>9 DEF SignInNext

-----------------------------------------------------------------------------
(* The budget *)

\* A lookup, a failure and the passing of time leave the deque the end of the count.
LEMMA RememberedStep ==
  ASSUME SignInTypeOK, SignInTypeOK', Remembered, \A a \in Address : Affects(a)
  PROVE  Remembered'
<1> SUFFICES ASSUME NEW a \in Address
             PROVE  LET gone == Len(counted'[a]) - Len(failures'[a])
                    IN  /\ gone >= 0
                        /\ \A i \in 1 .. gone : counted'[a][i] < now' - Window
                        /\ \A i \in 1 .. Len(failures'[a]) :
                               failures'[a][i] = counted'[a][gone + i]
  BY DEF Remembered
<1> DEFINE f == failures[a]
           c == counted[a]
           d == Len(c) - Len(f)
<1>1. f \in Seq(Nat) /\ c \in Seq(Nat) /\ Len(f) \in Nat /\ Len(c) \in Nat /\ now \in Nat
      /\ Window \in Nat
  <2>1. f \in Seq(Nat) /\ c \in Seq(Nat) /\ now \in Nat
    BY DEF SignInTypeOK
  <2>2. Window \in Nat
    BY SignInAssumption
  <2> QED
    BY <2>1, <2>2
<1>2. /\ d >= 0 /\ (\A i \in 1 .. d : c[i] < now - Window)
      /\ (\A i \in 1 .. Len(f) : f[i] = c[d + i])
  BY DEF Remembered
<1>3. CASE Spares(a)
  BY <1>2, <1>3 DEF Spares
<1>4. CASE Looks(a)
  BY <1>4, RecentFacts DEF Looks
<1>5. CASE Forgets(a)
  BY <1>1, <1>5 DEF Forgets
<1>6. CASE Adds(a)
  <2>1. /\ failures'[a] \in Seq(Nat) /\ Len(failures'[a]) = Len(f) + 1
        /\ failures'[a][Len(f) + 1] = now
        /\ \A i \in 1 .. Len(f) : failures'[a][i] = f[i]
    BY <1>1, <1>6 DEF Adds
  <2>2. /\ counted'[a] \in Seq(Nat) /\ Len(counted'[a]) = Len(c) + 1
        /\ counted'[a][Len(c) + 1] = now
        /\ \A i \in 1 .. Len(c) : counted'[a][i] = c[i]
    BY <1>1, <1>6 DEF Adds
  <2>3. Len(counted'[a]) - Len(failures'[a]) = d /\ now' = now
    BY <1>1, <1>6, <2>1, <2>2 DEF Adds
  <2>4. d \in Nat /\ Len(c) = d + Len(f)
    <3>1. d >= 0
      BY <1>2
    <3> QED
      BY <1>1, <3>1
  <2> HIDE DEF f, c, d
  <2>5. ASSUME NEW i \in 1 .. d PROVE counted'[a][i] < now - Window
    <3>1. i \in 1 .. Len(c)
      BY <1>1, <2>4
    <3> QED
      BY <1>2, <2>2, <3>1
  <2>6. ASSUME NEW i \in 1 .. Len(f) + 1 PROVE failures'[a][i] = counted'[a][d + i]
    <3>1. CASE i = Len(f) + 1
      <4>1. d + i = Len(c) + 1
        BY <1>1, <2>4, <3>1
      <4> QED
        BY <2>1, <2>2, <3>1, <4>1
    <3>2. CASE i # Len(f) + 1
      <4>1. i \in 1 .. Len(f) /\ d + i \in 1 .. Len(c)
        BY <1>1, <2>4, <3>2
      <4> QED
        BY <1>2, <2>1, <2>2, <4>1
    <3> QED
      BY <3>1, <3>2
  <2>7. \A i \in 1 .. d : counted'[a][i] < now' - Window
    BY <2>3, <2>5
  <2>8. \A i \in 1 .. Len(failures'[a]) : failures'[a][i] = counted'[a][d + i]
    BY <2>1, <2>6
  <2>9. d >= 0
    BY <2>4
  <2> HIDE <2>1, <2>2, <2>4, <2>5, <2>6
  <2> QED
    BY <2>3, <2>7, <2>8, <2>9
<1>7. CASE Ages(a)
  <2>1. \A i \in 1 .. d : c[i] < now + 1 - Window
    <3> SUFFICES ASSUME NEW i \in 1 .. d PROVE c[i] < now + 1 - Window
      OBVIOUS
    <3>1. c[i] < now - Window
      BY <1>2
    <3>2. i \in 1 .. Len(c)
      BY <1>1
    <3>3. c[i] \in Nat
      BY <1>1, <3>2, ElementOfSeq
    <3> HIDE DEF c
    <3> QED
      BY <1>1, <3>1, <3>3
  <2>2. failures'[a] = f /\ counted'[a] = c /\ now' = now + 1
    BY <1>7 DEF Ages
  <2>3. ASSUME NEW i \in 1 .. d PROVE counted'[a][i] < now' - Window
    BY <1>1, <2>1, <2>2
  <2>4. Len(counted'[a]) - Len(failures'[a]) = d
    BY <2>2
  <2>5. \A i \in 1 .. Len(failures'[a]) : failures'[a][i] = counted'[a][d + i]
    BY <1>2, <2>2
  <2> QED
    BY <1>2, <2>3, <2>4, <2>5
<1> QED
  BY <1>3, <1>4, <1>5, <1>6, <1>7 DEF Affects

LEMMA PastStep ==
  ASSUME SignInTypeOK, Past, \A a \in Address : Affects(a)
  PROVE  Past'
<1> SUFFICES ASSUME NEW a \in Address, NEW i \in DOMAIN counted'[a]
             PROVE  counted'[a][i] <= now'
  BY DEF Past
<1>1. /\ counted[a] \in Seq(Nat) /\ now \in Nat
      /\ \A j \in DOMAIN counted[a] : counted[a][j] <= now
  BY DEF SignInTypeOK, Past
<1>2. CASE counted'[a] = counted[a] /\ (now' = now \/ now' = now + 1)
  BY <1>1, <1>2
<1>3. CASE counted'[a] = <<>>
  BY <1>3
<1>4. CASE counted'[a] = Append(counted[a], now) /\ now' = now
  BY <1>1, <1>4
<1> QED
  BY <1>2, <1>3, <1>4 DEF Affects, Spares, Looks, Forgets, Adds, Ages

\* The failures that a budget is checked against are those of the property's last window.
LEMMA CurrentStep ==
  ASSUME SignInTypeOK, SignInTypeOK', Remembered, Past, NEW a \in Address, Affects(a)
  PROVE  /\ Current(a)' \subseteq Current(a) \/ Adds(a)
         /\ Adds(a) => /\ Current(a)' = Current(a) \cup {Len(counted[a]) + 1}
                       /\ Len(counted[a]) + 1 \notin Current(a)
<1> DEFINE c == counted[a]
<1>1. c \in Seq(Nat) /\ counted'[a] \in Seq(Nat) /\ Len(c) \in Nat /\ now \in Nat /\ Window \in Nat
  BY SignInAssumption DEF SignInTypeOK
<1>2. CASE counted'[a] = c /\ (now' = now \/ now' = now + 1)
  <2> SUFFICES ASSUME NEW i \in Current(a)' PROVE i \in Current(a)
    BY <1>2, <1>1 DEF Adds
  <2>1. i \in 1 .. Len(c) /\ c[i] >= now' - Window /\ c[i] \in Nat
    BY <1>1, <1>2 DEF Current
  <2>2. c[i] >= now - Window
    BY <1>1, <1>2, <2>1
  <2> QED
    BY <1>1, <2>1, <2>2 DEF Current
<1>3. CASE counted'[a] = <<>>
  <2>1. DOMAIN counted'[a] = {}
    BY <1>3
  <2>2. Current(a)' = {}
    BY <2>1 DEF Current
  <2>3. ~Adds(a)
    <3>1. Len(Append(c, now)) = Len(c) + 1
      BY <1>1
    <3>2. Append(c, now) # <<>>
      <4> DEFINE more == Append(c, now)
      <4>1. Len(more) > 0 /\ Len(<<>>) = 0
        BY <1>1, <3>1
      <4> HIDE DEF more
      <4>2. more # <<>>
        BY <4>1
      <4> QED
        BY <4>2 DEF more
    <3> QED
      BY <1>3, <3>2 DEF Adds
  <2> QED
    BY <2>2, <2>3
<1>4. CASE Adds(a)
  <2>1. /\ Len(counted'[a]) = Len(c) + 1 /\ counted'[a][Len(c) + 1] = now /\ now' = now
        /\ \A i \in 1 .. Len(c) : counted'[a][i] = c[i]
    BY <1>1, <1>4 DEF Adds
  <2>2. now >= now - Window
    BY <1>1
  <2>3. Current(a) = {i \in 1 .. Len(c) : c[i] >= now - Window}
    BY <1>1 DEF Current
  <2>4. Current(a)' = {i \in 1 .. Len(c) + 1 : counted'[a][i] >= now - Window}
    <3>1. DOMAIN counted'[a] = 1 .. Len(c) + 1
      BY <1>1, <2>1
    <3> QED
      BY <2>1, <3>1 DEF Current
  <2> HIDE DEF c
  <2>5. 1 .. Len(c) + 1 = (1 .. Len(c)) \cup {Len(c) + 1} /\ Len(c) + 1 \notin 1 .. Len(c)
    BY <1>1
  <2> QED
    BY <1>4, <2>1, <2>2, <2>3, <2>4, <2>5 DEF c
<1> QED
  BY <1>2, <1>3, <1>4 DEF Affects, Spares, Looks, Forgets, Adds, Ages

\* Nothing makes failures and reservations together exceed the budget: an attempt is only
\* admitted below it, and a failure uses the entry that was reserved for it.
LEMMA SharedStep ==
  ASSUME SignInTypeOK, SignInTypeOK', Remembered, Remembered', Past, Shared, \A a \in Address : Affects(a)
  PROVE  Shared'
<1> SUFFICES ASSUME NEW a \in Address
             PROVE  Cardinality(Current(a)') + pending'[a] <= Limit
  BY DEF Shared
<1>1. /\ IsFiniteSet(Current(a)) /\ Cardinality(Current(a)) \in Nat
      /\ Cardinality(Current(a)) <= Len(Recent(a)) /\ Len(Recent(a)) \in Nat
  BY CurrentFits, RecentFacts
<1>2. /\ Cardinality(Current(a)) + pending[a] <= Limit
      /\ pending[a] \in Int /\ pending'[a] \in Int /\ Limit \in Nat
  BY SignInAssumption DEF Shared, SignInTypeOK
<1>3. CASE Current(a)' \subseteq Current(a) /\ pending'[a] <= pending[a]
  <2>1. Cardinality(Current(a)') \in Nat /\ Cardinality(Current(a)') <= Cardinality(Current(a))
    BY <1>1, <1>3, FS_Subset, FS_CardinalityType
  <2> QED
    BY <1>1, <1>2, <1>3, <2>1
<1>4. CASE Current(a)' \subseteq Current(a) /\ Allowed(a) /\ pending'[a] = pending[a] + 1
  <2>1. Cardinality(Current(a)') \in Nat /\ Cardinality(Current(a)') <= Cardinality(Current(a))
    BY <1>1, <1>4, FS_Subset, FS_CardinalityType
  <2>2. Len(Recent(a)) + pending[a] < Limit
    BY <1>4 DEF Allowed
  <2> QED
    BY <1>1, <1>2, <1>4, <2>1, <2>2
<1>5. CASE Adds(a)
  <2>1. Cardinality(Current(a)') = Cardinality(Current(a)) + 1
    BY <1>1, <1>5, CurrentStep, FS_AddElement DEF Affects
  <2> QED
    BY <1>1, <1>2, <1>5, <2>1 DEF Adds
<1>6. Current(a)' \subseteq Current(a) \/ Adds(a)
  BY CurrentStep
<1>7. CASE Spares(a)
  BY <1>3, <1>5, <1>6, <1>7 DEF Spares
<1>8. CASE Looks(a)
  BY <1>2, <1>3, <1>4, <1>5, <1>6, <1>8 DEF Looks
<1>9. CASE Forgets(a)
  BY <1>3, <1>5, <1>6, <1>9 DEF Forgets
<1>10. CASE Ages(a)
  BY <1>2, <1>3, <1>5, <1>6, <1>10 DEF Ages
<1> QED
  BY <1>5, <1>7, <1>8, <1>9, <1>10 DEF Affects

\* A window that has passed gets no more failures, and the one that has not is counted in
\* the budget.
LEMMA BudgetStep ==
  ASSUME SignInTypeOK, SignInTypeOK', Remembered', Past', Shared', ReservationsAccount', BudgetHolds,
         \A a \in Address : Affects(a)
  PROVE  BudgetHolds'
<1> SUFFICES ASSUME NEW a \in Address, NEW t \in 0 .. MaxTime
             PROVE  Cardinality({i \in DOMAIN counted'[a] :
                                    counted'[a][i] \in t .. t + Window}) <= Limit
  BY DEF BudgetHolds
<1> DEFINE Within(c) == {i \in DOMAIN c : c[i] \in t .. t + Window}
<1>1. /\ counted[a] \in Seq(Nat) /\ counted'[a] \in Seq(Nat)
      /\ now \in Nat /\ now' \in Nat /\ Window \in Nat /\ t \in Nat /\ Limit \in Nat
  BY SignInAssumption DEF SignInTypeOK
<1>2. Cardinality(Within(counted[a])) <= Limit
  BY DEF BudgetHolds
<1>3. CASE counted'[a] = counted[a]
  BY <1>2, <1>3
<1>4. CASE counted'[a] = <<>>
  <2>1. Within(counted'[a]) = {}
    BY <1>4
  <2>2. Cardinality(Within(counted'[a])) = 0
    BY <2>1, FS_EmptySet
  <2> QED
    BY <1>1, <2>2
<1>5. CASE Adds(a)
  <2>1. /\ Len(counted'[a]) = Len(counted[a]) + 1 /\ Len(counted[a]) \in Nat
        /\ counted'[a][Len(counted[a]) + 1] = now /\ now' = now
        /\ \A i \in 1 .. Len(counted[a]) : counted'[a][i] = counted[a][i]
    BY <1>1, <1>5 DEF Adds
  <2>2. CASE now \notin t .. t + Window
    <3>1. Within(counted'[a]) = Within(counted[a])
      <4>1. DOMAIN counted'[a] = 1 .. Len(counted[a]) + 1 /\ DOMAIN counted[a] = 1 .. Len(counted[a])
        BY <1>1, <2>1
      <4>2. 1 .. Len(counted[a]) + 1 = (1 .. Len(counted[a])) \cup {Len(counted[a]) + 1}
        BY <2>1
      <4> QED
        BY <2>1, <2>2, <4>1, <4>2
    <3> QED
      BY <1>2, <3>1
  <2>3. CASE now \in t .. t + Window
    <3>1. Within(counted'[a]) \subseteq Current(a)'
      <4> SUFFICES ASSUME NEW i \in Within(counted'[a]) PROVE i \in Current(a)'
        OBVIOUS
      <4>1. i \in DOMAIN counted'[a] /\ counted'[a][i] \in Nat /\ counted'[a][i] >= t
        BY <1>1
      <4>2. counted'[a][i] >= now' - Window
        BY <1>1, <2>1, <2>3, <4>1
      <4> QED
        BY <4>1, <4>2 DEF Current
    <3>2. IsFiniteSet(Current(a)') /\ Cardinality(Current(a)') \in Nat
      <4>1. DOMAIN counted'[a] = 1 .. Len(counted'[a]) /\ Len(counted'[a]) \in Nat
        BY <1>1
      <4>2. IsFiniteSet(DOMAIN counted'[a])
        BY <4>1, FS_Interval
      <4>3. Current(a)' \subseteq DOMAIN counted'[a]
        BY DEF Current
      <4> QED
        BY <4>2, <4>3, FS_Subset, FS_CardinalityType
    <3>3. Cardinality(Within(counted'[a])) \in Nat /\ Cardinality(Within(counted'[a])) <= Cardinality(Current(a)')
      BY <3>1, <3>2, FS_Subset, FS_CardinalityType
    <3>4. Cardinality(Current(a)') + pending'[a] <= Limit /\ pending'[a] \in Nat
      <4>1. Cardinality(HashingFor(a)') \in Nat
        <5>1. HashingFor(a)' \in SUBSET Request
          BY DEF HashingFor
        <5> QED
          BY <5>1, SignInAssumption, FS_Subset, FS_CardinalityType
      <4> QED
        BY <4>1 DEF Shared, ReservationsAccount, HashingFor
    <3> QED
      BY <1>1, <3>2, <3>3, <3>4
  <2> QED
    BY <2>2, <2>3
<1> QED
  BY <1>3, <1>4, <1>5 DEF Affects, Spares, Looks, Forgets, Ages

-----------------------------------------------------------------------------
LEMMA SignInInitially == SignInInit => SignInIInv
<1> SUFFICES ASSUME SignInInit PROVE SignInIInv
  OBVIOUS
<1> USE SignInAssumption DEF SignInInit
<1>1. SignInTypeOK
  BY DEF SignInTypeOK
<1>2. \A S \in SUBSET Request : S = {} => Cardinality(S) = 0
  BY FS_EmptySet
<1>3. ReservationsAccount
  BY <1>2 DEF ReservationsAccount
<1>4. Remembered /\ Past
  BY DEF Remembered, Past
<1>5. \A a \in Address : Current(a) = {}
  BY DEF Current
<1>6. Shared
  BY <1>5, FS_EmptySet DEF Shared
<1>7. BudgetHolds
  <2>1. \A a \in Address : DOMAIN counted[a] = {}
    OBVIOUS
  <2> QED
    BY <2>1, FS_EmptySet DEF BudgetHolds
<1> QED
  BY <1>1, <1>3, <1>4, <1>6, <1>7 DEF SignInIInv

LEMMA SignInInductive == SignInIInv /\ [SignInNext]_signInVars => SignInIInv'
<1> SUFFICES ASSUME SignInIInv, [SignInNext]_signInVars PROVE SignInIInv'
  OBVIOUS
<1> USE DEF SignInIInv
<1>1. SignInTypeOK' /\ \A a \in Address : Affects(a)
  BY Effects
<1>2. ReservationsAccount'
  BY AccountStep
<1>3. Remembered'
  BY <1>1, RememberedStep
<1>4. Past'
  BY <1>1, PastStep
<1>5. Shared'
  BY <1>1, <1>3, SharedStep
<1>6. BudgetHolds'
  BY <1>1, <1>2, <1>3, <1>4, <1>5, BudgetStep
<1> QED
  BY <1>1, <1>2, <1>3, <1>4, <1>5, <1>6

\* Attempts, their reservations and their failures account for each other in every state.
THEOREM SignInInvariant == SignInSpec => []SignInIInv
<1> QED
  BY SignInInitially, SignInInductive, PTL DEF SignInSpec

\* The slots and the pending attempts are those of the requests being hashed, however
\* they end (authenticate_bounded's finally clause).
THEOREM SlotsAreReturned == SignInSpec => []ReservationsAccount
<1>1. SignInIInv => ReservationsAccount
  BY DEF SignInIInv
<1> QED
  BY <1>1, SignInInvariant, PTL

\* No address is allowed more failures within a window than the limit, though its
\* attempts are hashed side by side (attempts_allowed).
THEOREM BudgetIsKept == SignInSpec => []BudgetHolds
<1>1. SignInIInv => BudgetHolds
  BY DEF SignInIInv
<1> QED
  BY <1>1, SignInInvariant, PTL

-----------------------------------------------------------------------------
(* Export: the invariant *)

\* A bundle as a run writes it: an entry for every source that an export collects, with
\* records if its fetch succeeded.
Entries == {[status |-> "FAILED", records |-> FALSE], [status |-> "SUCCEEDED", records |-> TRUE]}
WholeBundle == [of : Nat \ {0}, whole : {TRUE}, synced : {TRUE}, entries : [Collectable -> Entries]]

FetchState ==
    [state : {"queued", "fetching", "settled"}, page : Nat, cursor : Nat, attempt : Nat,
     response : Seq(Nat), rows : Seq(Nat), status : {"none", "FAILED", "PARTIAL", "COMPLETE"}]

ExportTypeOK ==
    /\ listed \in [Source -> SUBSET Instrument]
    /\ fetch \in [Source -> FetchState]
    /\ seen \in [Source -> SUBSET SUBSET Instrument]
    /\ stage \in {"idle", "fetching", "written", "replaced", "exited"}
    /\ export \in Nat /\ exited \in Nat
    /\ file \in {Absent} \cup WholeBundle /\ durable \in {Absent} \cup WholeBundle

\* What a fetch f of s holds of the listings that s had meanwhile.  A stream that is open
\* is one of them, whole, of which some is still to be read.  Pages hold what was listed
\* throughout, as far as the cursor, and nothing that never was.
Served(s, f, meanwhile) ==
    /\ Paging[s] = "stream" =>
           IF f.response = <<>> THEN f.rows = <<>>
           ELSE \E was \in meanwhile : f.rows \o f.response = InOrder(was) \o <<0>>
    /\ Paging[s] # "stream" => f.response = <<>>
    /\ Paging[s] = "cursor" =>
           /\ Range(f.rows) \subseteq UNION meanwhile
           /\ \A i \in Instrument :
                  i <= f.cursor /\ (\A was \in meanwhile : i \in was) => i \in Range(f.rows)

\* What FetchIsExact says of a snapshot with those records.
Exact(s, records, meanwhile) ==
    /\ Paging[s] = "stream" => records \in meanwhile
    /\ Paging[s] = "cursor" => records \subseteq UNION meanwhile
    /\ Paging[s] = "cursor" =>
           \A i \in Instrument : (\A was \in meanwhile : i \in was) => i \in records

\* What a fetch f of s may be, given those listings.
Sound(s, f, meanwhile) ==
    /\ f.state = "queued" => f = Queued
    /\ f.state = "fetching" => f.status = "none" /\ Served(s, f, meanwhile)
    /\ f.state = "settled" =>
           /\ f.status \in {"FAILED", "PARTIAL", "COMPLETE"}
           /\ f.status # "FAILED" => Readable(f.rows) # {}
           /\ f.status = "COMPLETE" => Exact(s, Readable(f.rows), meanwhile)

\* Every fetch is of an export that is fetching, and among the listings it may tell of is
\* the one the source has now.
FetchesSound ==
    \A s \in Source :
        /\ Sound(s, fetch[s], seen[s])
        /\ fetch[s].state = "fetching" => stage = "fetching" /\ listed[s] \in seen[s]
        /\ fetch[s].state # "queued" => s \in Collectable

\* Where an export is: what its fetches, its file and the earlier ones are then.
StagesOrdered ==
    /\ stage \in {"idle", "exited"} => \A s \in Source : fetch[s] = Queued
    /\ stage \notin {"idle", "exited"} => export > 0
    /\ stage \in {"written", "replaced"} => \A s \in Collectable : Settled(s)
    /\ stage = "replaced" => file.of = export
    /\ exited <= file.of /\ exited <= durable.of
    /\ file.of <= export /\ durable.of <= export

ExportIInv == ExportTypeOK /\ FetchesSound /\ StagesOrdered

-----------------------------------------------------------------------------
(* The pages *)

\* The instruments in order are a sequence without repetitions, of all of them.
LEMMA OrderExists ==
  ASSUME NEW S \in SUBSET Instrument
  PROVE  \E items \in [1 .. Cardinality(S) -> S] :
             \A i, j \in DOMAIN items : i < j => items[i] < items[j]
<1> DEFINE n == Cardinality(S)
           Upto(x) == {y \in S : y <= x}
           rank == [x \in S |-> Cardinality(Upto(x))]
<1>1. IsFiniteSet(S) /\ S \subseteq Nat /\ n \in Nat
  BY ExportAssumption, FS_Subset, FS_CardinalityType
<1>2. ASSUME NEW x \in S
      PROVE  /\ IsFiniteSet(Upto(x)) /\ Cardinality(Upto(x)) \in Nat
             /\ Cardinality(Upto(x)) <= n /\ Cardinality(Upto(x)) >= 1
  <2>1. Upto(x) \in SUBSET S /\ x \in Upto(x)
    BY <1>1
  <2>2. IsFiniteSet(Upto(x)) /\ Cardinality(Upto(x)) <= n
    BY <1>1, <2>1, FS_Subset
  <2> HIDE DEF Upto, n
  <2>3. Cardinality(Upto(x)) \in Nat
    BY <2>2, FS_CardinalityType
  <2>4. Cardinality(Upto(x)) # 0
    BY <2>1, <2>2, FS_EmptySet
  <2> QED
    BY <2>2, <2>3, <2>4
<1>3. ASSUME NEW x \in S, NEW y \in S, x < y
      PROVE  rank[x] < rank[y]
  <2>0. y <= y /\ ~(y <= x) /\ \A z \in S : z <= x => z <= y
    BY <1>1, <1>3
  <2>1. Upto(x) \in SUBSET Upto(y) /\ y \in Upto(y) /\ y \notin Upto(x)
    BY <2>0, Zenon
  <2> HIDE DEF Upto
  <2>2. IsFiniteSet(Upto(y)) /\ Cardinality(Upto(x)) \in Nat /\ Cardinality(Upto(y)) \in Nat
    BY <1>2
  <2>3. Cardinality(Upto(x)) <= Cardinality(Upto(y)) /\ Cardinality(Upto(x)) # Cardinality(Upto(y))
    BY <2>1, <2>2, FS_Subset
  <2> QED
    BY <2>2, <2>3
<1>4. rank \in [S -> 1 .. n]
  <2> HIDE DEF Upto
  <2> QED
    BY <1>1, <1>2
<1> HIDE DEF rank, n
<1>5. rank \in Injection(S, 1 .. n)
  <2>1. ASSUME NEW x \in S, NEW y \in S, rank[x] = rank[y] PROVE x = y
    <3>1. rank[x] \in 1 .. n /\ rank[y] \in 1 .. n
      BY <1>4
    <3>2. ~(x < y) /\ ~(y < x)
      BY <1>1, <1>3, <2>1, <3>1
    <3> QED
      BY <1>1, <3>2
  <2> QED
    BY <1>4, <2>1 DEF Injection, IsInjective
<1>6. IsFiniteSet(1 .. n) /\ Cardinality(1 .. n) = n
  BY <1>1, FS_Interval
<1>7. rank \in Surjection(S, 1 .. n)
  <2>1. Cardinality(S) = Cardinality(1 .. n)
    BY <1>6 DEF n
  <2> QED
    BY <1>5, <1>6, <2>1, FS_Injection
<1> DEFINE items == [k \in 1 .. n |-> CHOOSE x \in S : rank[x] = k]
<1>8. \A k \in 1 .. n : \E x \in S : rank[x] = k
  BY <1>7 DEF Surjection
<1>9. \A k \in 1 .. n : items[k] \in S /\ rank[items[k]] = k
  BY <1>8
<1> HIDE DEF items
<1>10. ASSUME NEW i \in 1 .. n, NEW j \in 1 .. n, i < j PROVE items[i] < items[j]
  <2>1. items[i] \in S /\ items[j] \in S /\ rank[items[i]] = i /\ rank[items[j]] = j
    BY <1>9
  <2>2. items[i] # items[j]
    BY <1>10, <2>1
  <2>3. ~(items[j] < items[i])
    <3> SUFFICES ASSUME items[j] < items[i] PROVE FALSE
      OBVIOUS
    <3>1. rank[items[j]] < rank[items[i]]
      BY <1>3, <2>1
    <3> QED
      BY <1>10, <2>1, <3>1
  <2>4. items[i] \in Nat /\ items[j] \in Nat
    BY <1>1, <2>1
  <2> QED
    BY <2>2, <2>3, <2>4
<1>11. items \in [1 .. n -> S]
  BY <1>9 DEF items
<1>12. DOMAIN items = 1 .. n
  BY <1>11
<1> QED
  BY <1>10, <1>11, <1>12 DEF n

LEMMA InstrumentsInOrder ==
  ASSUME NEW S \in SUBSET Instrument
  PROVE  /\ InOrder(S) \in Seq(S) /\ InOrder(S) \in Seq(Nat)
         /\ Len(InOrder(S)) = Cardinality(S) /\ Len(InOrder(S)) \in Nat
         /\ Range(InOrder(S)) = S
         /\ \A i, j \in 1 .. Len(InOrder(S)) : i < j => InOrder(S)[i] < InOrder(S)[j]
<1> DEFINE n == Cardinality(S)
           items == InOrder(S)
<1>1. IsFiniteSet(S) /\ S \subseteq Nat /\ n \in Nat
  BY ExportAssumption, FS_Subset, FS_CardinalityType
<1>2. items \in [1 .. n -> S] /\ \A i, j \in DOMAIN items : i < j => items[i] < items[j]
  BY OrderExists DEF InOrder
<1> HIDE DEF items, n
<1>3. items \in Seq(S) /\ Len(items) = n
  BY <1>1, <1>2
<1>4. items \in Seq(Nat)
  BY <1>1, <1>3, SeqMonotonic
<1>5. DOMAIN items = 1 .. n
  BY <1>2
<1>6. items \in Injection(1 .. n, S)
  <2>1. ASSUME NEW i \in 1 .. n, NEW j \in 1 .. n, items[i] = items[j] PROVE i = j
    <3>1. items[i] \in Nat /\ items[j] \in Nat
      BY <1>1, <1>2
    <3>2. ~(i < j) /\ ~(j < i)
      BY <1>2, <1>5, <2>1, <3>1
    <3> QED
      BY <1>1, <3>2
  <2> QED
    BY <1>2, <2>1 DEF Injection, IsInjective
<1>7. items \in Surjection(1 .. n, S)
  <2>1. Cardinality(1 .. n) = Cardinality(S)
    BY <1>1, FS_Interval DEF n
  <2> QED
    BY <1>1, <1>6, <2>1, FS_Injection
<1>8. Range(items) = S
  BY <1>5, <1>7 DEF Surjection, Range
<1> QED
  BY <1>1, <1>2, <1>3, <1>4, <1>5, <1>8 DEF items, n

LEMMA Least == \A a, b \in Nat : Min({a, b}) = IF a <= b THEN a ELSE b
<1> SUFFICES ASSUME NEW a \in Nat, NEW b \in Nat PROVE Min({a, b}) = IF a <= b THEN a ELSE b
  OBVIOUS
<1> DEFINE least == IF a <= b THEN a ELSE b
<1>1. least \in {a, b} /\ \A y \in {a, b} : least <= y
  OBVIOUS
<1>2. \A x \in {a, b} : (\A y \in {a, b} : x <= y) => x = least
  OBVIOUS
<1> HIDE DEF least
<1>3. (CHOOSE x \in {a, b} : \A y \in {a, b} : x <= y) = least
  BY <1>1, <1>2
<1> QED
  BY <1>3 DEF Min, least

LEMMA FirstOf ==
  ASSUME NEW items, NEW k \in Nat, \A i \in 1 .. k : items[i] \in Nat
  PROVE  /\ SubSeq(items, 1, k) \in Seq(Nat) /\ Len(SubSeq(items, 1, k)) = k
         /\ \A i \in 1 .. k : SubSeq(items, 1, k)[i] = items[i]
<1>1. /\ SubSeq(items, 1, k) \in Seq(Nat)
      /\ Len(SubSeq(items, 1, k)) = IF 1 <= k THEN k - 1 + 1 ELSE 0
      /\ \A i \in 1 .. k - 1 + 1 : SubSeq(items, 1, k)[i] = items[1 + i - 1]
  BY SubSeqProperties
<1>2. k - 1 + 1 = k /\ \A i \in 1 .. k : 1 + i - 1 = i
  OBVIOUS
<1> QED
  BY <1>1, <1>2

\* A page of what remains: all of it, or all of it as far as the page's last instrument.
LEMMA PageOfRemaining ==
  ASSUME NEW B \in SUBSET Instrument,
         NEW sheet, sheet = SubSeq(InOrder(B), 1, Min({PageSize, Len(InOrder(B))}))
  PROVE  /\ sheet \in Seq(Nat) /\ Range(sheet) \subseteq B
         /\ ~(Len(InOrder(B)) > PageSize) => Range(sheet) = B
         /\ Len(InOrder(B)) > PageSize =>
                /\ Last(sheet) \in B
                /\ \A i \in B : i <= Last(sheet) => i \in Range(sheet)
<1> DEFINE items == InOrder(B)
           n == Len(InOrder(B))
           k == IF PageSize <= n THEN PageSize ELSE n
<1>1. /\ items \in Seq(B) /\ items \in Seq(Nat) /\ n \in Nat /\ n = Len(items) /\ Range(items) = B
      /\ \A i, j \in 1 .. n : i < j => items[i] < items[j]
  BY InstrumentsInOrder
<1>2. PageSize \in Nat \ {0} /\ B \subseteq Nat
  BY ExportAssumption
<1>3. Min({PageSize, n}) = k
  BY <1>1, <1>2, Least
<1>4. sheet = SubSeq(items, 1, k)
  BY <1>3
<1> HIDE DEF items, n
<1>5. k \in Nat /\ k <= n /\ (~(n > PageSize) => k = n) /\ (n > PageSize => k = PageSize /\ k > 0)
  BY <1>1, <1>2
<1> HIDE DEF k
<1>6. DOMAIN items = 1 .. n /\ \A i \in 1 .. n : items[i] \in B
  BY <1>1, ElementOfSeq, LenProperties
<1>15. n \in Nat
  BY <1>1
<1>16. \A i \in 1 .. k : i \in 1 .. n
  BY <1>5, <1>15
<1>7. \A i \in 1 .. k : items[i] \in Nat
  BY <1>2, <1>6, <1>16
<1>8. sheet \in Seq(Nat) /\ Len(sheet) = k /\ \A i \in 1 .. k : sheet[i] = items[i]
  BY <1>4, <1>5, <1>7, FirstOf
<1>9. DOMAIN sheet = 1 .. k
  BY <1>8, LenProperties
<1>10. Range(sheet) = {items[i] : i \in 1 .. k}
  BY <1>8, <1>9 DEF Range
<1>11. B = {items[i] : i \in 1 .. n}
  BY <1>1, <1>6 DEF Range
<1>12. Range(sheet) \subseteq B
  BY <1>6, <1>10, <1>16
<1>13. ~(n > PageSize) => Range(sheet) = B
  BY <1>5, <1>10, <1>11
<1>14. ASSUME n > PageSize
       PROVE  Last(sheet) \in B /\ \A i \in B : i <= Last(sheet) => i \in Range(sheet)
  <2>0. k \in 1 .. k
    BY <1>5, <1>14
  <2>1. Last(sheet) = items[k] /\ k \in 1 .. k /\ k \in 1 .. n
    BY <1>8, <1>16, <2>0 DEF Last
  <2>2. ASSUME NEW i \in B, i <= items[k] PROVE i \in Range(sheet)
    <3>1. PICK j \in 1 .. n : i = items[j]
      BY <1>11
    <3>2. items[j] \in Nat /\ items[k] \in Nat
      BY <1>2, <1>6, <2>1
    <3>3. ~(k < j)
      BY <1>1, <2>1, <2>2, <3>1, <3>2
    <3>4. j \in 1 .. k
      BY <1>1, <1>5, <3>3
    <3> QED
      BY <1>10, <3>1, <3>4
  <2> QED
    BY <1>6, <2>1, <2>2
<1> QED
  BY <1>8, <1>12, <1>13, <1>14 DEF n

-----------------------------------------------------------------------------
(* What a connector makes of the rows *)

LEMMA RangeIsFinite ==
  ASSUME NEW items \in Seq(Nat)
  PROVE  /\ IsFiniteSet(Range(items)) /\ Cardinality(Range(items)) \in Nat
         /\ Cardinality(Range(items)) <= Len(items) /\ Len(items) \in Nat
<1>1. Len(items) \in Nat /\ DOMAIN items = 1 .. Len(items)
  BY LenProperties
<1>2. items \in Surjection(1 .. Len(items), Range(items))
  <2>1. items \in [1 .. Len(items) -> Range(items)]
    BY <1>1 DEF Range
  <2>2. \A t \in Range(items) : \E i \in 1 .. Len(items) : items[i] = t
    BY <1>1 DEF Range
  <2> QED
    BY <2>1, <2>2 DEF Surjection
<1>3. IsFiniteSet(1 .. Len(items)) /\ Cardinality(1 .. Len(items)) = Len(items)
  <2> DEFINE n == Len(items)
  <2>1. n \in Nat
    BY <1>1
  <2> HIDE DEF n
  <2>2. IsFiniteSet(1 .. n) /\ Cardinality(1 .. n) = n
    BY <2>1, FS_Interval
  <2> QED
    BY <2>2 DEF n
<1>4. IsFiniteSet(Range(items)) /\ Cardinality(Range(items)) <= Len(items)
  <2> DEFINE places == 1 .. Len(items)
             read == Range(items)
  <2>1. IsFiniteSet(places) /\ items \in Surjection(places, read) /\ Cardinality(places) = Len(items)
    BY <1>2, <1>3
  <2> HIDE DEF places, read
  <2>2. IsFiniteSet(read) /\ Cardinality(read) <= Cardinality(places)
    BY <2>1, FS_Surjection
  <2> QED
    BY <2>1, <2>2 DEF read
<1> QED
  BY <1>1, <1>4, FS_CardinalityType

\* Without issues, every row is read and none repeats another.
LEMMA CompleteReadsAll ==
  ASSUME NEW s \in Source, NEW items \in Seq(Nat)
  PROVE  /\ Status(s, items) \in {"FAILED", "PARTIAL", "COMPLETE"}
         /\ Status(s, items) # "FAILED" => Readable(items) # {}
         /\ Status(s, items) = "COMPLETE" => Readable(items) = Range(items)
<1>1. Status(s, items) \in {"FAILED", "PARTIAL", "COMPLETE"}
  BY DEF Status
<1>2. Status(s, items) # "FAILED" => Readable(items) # {}
  BY DEF Status
<1>3. ASSUME Status(s, items) = "COMPLETE" PROVE Readable(items) = Range(items)
  <2>1. ~(Len(items) > Cardinality(Readable(items)))
    BY <1>3 DEF Status, Issues
  <2>2. Readable(items) \in SUBSET Range(items)
    BY DEF Readable
  <2>3. /\ IsFiniteSet(Range(items)) /\ Cardinality(Range(items)) \in Nat
        /\ Cardinality(Range(items)) <= Len(items) /\ Len(items) \in Nat
    BY RangeIsFinite
  <2>4. /\ IsFiniteSet(Readable(items)) /\ Cardinality(Readable(items)) <= Cardinality(Range(items))
        /\ Cardinality(Range(items)) = Cardinality(Readable(items)) => Range(items) = Readable(items)
    BY <2>2, <2>3, FS_Subset
  <2>5. Cardinality(Readable(items)) \in Nat
    BY <2>4, FS_CardinalityType
  <2> QED
    BY <2>1, <2>3, <2>4, <2>5
<1> QED
  BY <1>1, <1>2, <1>3

\* The fetch that Settle leaves.
SettledWith(status, items) ==
    [Queued EXCEPT !.state = "settled", !.status = status, !.rows = items]

LEMMA SettledSound ==
  ASSUME NEW s \in Source, NEW items \in Seq(Nat), NEW among, NEW status,
         status \in {"FAILED", "PARTIAL", "COMPLETE"},
         status # "FAILED" => Readable(items) # {},
         status = "COMPLETE" => Exact(s, Readable(items), among)
  PROVE  /\ SettledWith(status, items) \in FetchState
         /\ SettledWith(status, items).state = "settled"
         /\ Sound(s, SettledWith(status, items), among)
<1> DEFINE f == SettledWith(status, items)
<1>1. Queued \in FetchState
  BY DEF Queued, FetchState
<1>2. f \in FetchState
  BY <1>1 DEF SettledWith, FetchState
<1>3. f.state = "settled" /\ f.status = status /\ f.rows = items
  BY DEF SettledWith, Queued
<1> HIDE DEF f
<1>4. Sound(s, f, among)
  BY <1>3 DEF Sound
<1> QED
  BY <1>2, <1>3, <1>4 DEF f

LEMMA FailedSound ==
  ASSUME NEW s \in Source, NEW among
  PROVE  /\ SettledWith("FAILED", <<>>) \in FetchState
         /\ SettledWith("FAILED", <<>>).state = "settled"
         /\ Sound(s, SettledWith("FAILED", <<>>), among)
<1>1. <<>> \in Seq(Nat)
  OBVIOUS
<1> QED
  BY <1>1, SettledSound

\* A listing more can only make what was listed throughout less.
LEMMA ServedMore ==
  ASSUME NEW s \in Source, NEW f, NEW A, NEW B, A \subseteq B, Served(s, f, A)
  PROVE  Served(s, f, B)
<1>1. Paging[s] = "stream" =>
          IF f.response = <<>> THEN f.rows = <<>>
          ELSE \E was \in B : f.rows \o f.response = InOrder(was) \o <<0>>
  BY DEF Served
<1>2. Paging[s] # "stream" => f.response = <<>>
  BY DEF Served
<1>3. ASSUME Paging[s] = "cursor" PROVE Range(f.rows) \subseteq UNION B
  BY <1>3 DEF Served
<1>4. ASSUME Paging[s] = "cursor", NEW i \in Instrument, i <= f.cursor, \A was \in B : i \in was
      PROVE  i \in Range(f.rows)
  BY <1>4 DEF Served
<1> QED
  BY <1>1, <1>2, <1>3, <1>4 DEF Served

-----------------------------------------------------------------------------
(* The fetches *)

\* What the invariant says of a fetch that is under way.
LEMMA Underway ==
  ASSUME ExportIInv, NEW s \in Source, Fetching(s)
  PROVE  /\ stage = "fetching" /\ fetch[s] \in FetchState /\ fetch[s].state = "fetching"
         /\ fetch[s].status = "none" /\ Served(s, fetch[s], seen[s])
         /\ listed[s] \in seen[s] /\ listed[s] \in SUBSET Instrument
         /\ seen[s] \in SUBSET SUBSET Instrument /\ s \in Collectable
         /\ fetch[s].rows \in Seq(Nat) /\ fetch[s].response \in Seq(Nat)
         /\ fetch[s].cursor \in Nat /\ fetch[s].page \in Nat /\ fetch[s].attempt \in Nat
<1>1. stage = "fetching" /\ fetch[s].state = "fetching"
  BY DEF Fetching
<1>2. fetch[s] \in FetchState /\ listed[s] \in SUBSET Instrument
      /\ seen[s] \in SUBSET SUBSET Instrument
  BY DEF ExportIInv, ExportTypeOK
<1>3. Sound(s, fetch[s], seen[s]) /\ listed[s] \in seen[s] /\ s \in Collectable
  BY <1>1 DEF ExportIInv, FetchesSound
<1>4. fetch[s].status = "none" /\ Served(s, fetch[s], seen[s])
  BY <1>1, <1>3 DEF Sound
<1>5. /\ fetch[s].rows \in Seq(Nat) /\ fetch[s].response \in Seq(Nat)
      /\ fetch[s].cursor \in Nat /\ fetch[s].page \in Nat /\ fetch[s].attempt \in Nat
  BY <1>2 DEF FetchState
<1> QED
  BY <1>1, <1>2, <1>3, <1>4, <1>5

\* A step of a fetch that leaves it sound disturbs nothing else.
LEMMA FetchStep ==
  ASSUME ExportIInv, NEW s \in Source, Fetching(s), Same,
         NEW f \in FetchState, f.state \in {"fetching", "settled"},
         fetch' = [fetch EXCEPT ![s] = f], Sound(s, f, seen[s])
  PROVE  ExportIInv'
<1>1. ExportTypeOK'
  BY DEF ExportIInv, ExportTypeOK, Same
<1>2. \A t \in Source : fetch'[t] = IF t = s THEN f ELSE fetch[t]
  BY DEF ExportIInv, ExportTypeOK
<1>3. seen' = seen /\ listed' = listed /\ stage' = stage /\ export' = export
      /\ exited' = exited /\ file' = file /\ durable' = durable
  BY DEF Same
<1>4. stage = "fetching" /\ listed[s] \in seen[s] /\ s \in Collectable
  BY Underway
<1>5. FetchesSound'
  <2> SUFFICES ASSUME NEW t \in Source
               PROVE  /\ Sound(t, fetch'[t], seen[t])
                      /\ fetch'[t].state = "fetching" => stage = "fetching" /\ listed[t] \in seen[t]
                      /\ fetch'[t].state # "queued" => t \in Collectable
    BY <1>3 DEF FetchesSound
  <2>1. CASE t = s
    BY <1>2, <1>4, <2>1
  <2>2. CASE t # s
    BY <1>2, <2>2 DEF ExportIInv, FetchesSound
  <2> QED
    BY <2>1, <2>2
<1>6. StagesOrdered'
  BY <1>3, <1>4 DEF ExportIInv, StagesOrdered
<1> QED
  BY <1>1, <1>5, <1>6 DEF ExportIInv

LEMMA FailedKeeps ==
  ASSUME ExportIInv, NEW s \in Source, Fetching(s), Same, Failed(s)
  PROVE  ExportIInv'
<1> DEFINE f == SettledWith("FAILED", <<>>)
<1>1. f \in FetchState /\ f.state = "settled" /\ Sound(s, f, seen[s])
  BY FailedSound
<1>2. fetch' = [fetch EXCEPT ![s] = f]
  BY DEF Failed, Settle, SettledWith
<1> QED
  BY <1>1, <1>2, FetchStep

\* A fetch that is parsed is sound when its rows are exact.
LEMMA ParsedKeeps ==
  ASSUME ExportIInv, NEW s \in Source, Fetching(s), Same,
         NEW items \in Seq(Nat), Parsed(s, items), Exact(s, Range(items), seen[s])
  PROVE  ExportIInv'
<1> DEFINE f == SettledWith(Status(s, items), items)
<1>1. /\ Status(s, items) \in {"FAILED", "PARTIAL", "COMPLETE"}
      /\ Status(s, items) # "FAILED" => Readable(items) # {}
      /\ Status(s, items) = "COMPLETE" => Exact(s, Readable(items), seen[s])
  BY CompleteReadsAll
<1>2. f \in FetchState /\ f.state = "settled" /\ Sound(s, f, seen[s])
  BY <1>1, SettledSound
<1>3. fetch' = [fetch EXCEPT ![s] = f]
  BY DEF Parsed, Settle, SettledWith
<1> QED
  BY <1>2, <1>3, FetchStep

LEMMA PageIsTyped ==
  ASSUME ExportIInv, NEW s \in Source, Fetching(s), Paging[s] # "stream"
  PROVE  Page(s) \in Seq(Nat) /\ (HasNext(s) => Last(Page(s)) \in Nat)
<1> DEFINE left == Remaining(s)
           all == InOrder(listed[s])
           from == fetch[s].page * PageSize + 1
<1>1. listed[s] \in SUBSET Instrument /\ fetch[s].page \in Nat /\ PageSize \in Nat \ {0}
  BY Underway, ExportAssumption
<1>2. all \in Seq(Nat) /\ Len(all) \in Nat
  BY <1>1, InstrumentsInOrder
<1>3. left \in Seq(Nat)
  <2>1. CASE Paging[s] = "cursor"
    <3>1. {i \in listed[s] : i > fetch[s].cursor} \in SUBSET Instrument
      BY <1>1
    <3>2. left = InOrder({i \in listed[s] : i > fetch[s].cursor})
      BY <2>1 DEF Remaining
    <3> QED
      BY <3>1, <3>2, InstrumentsInOrder
  <2>2. CASE Paging[s] = "number"
    <3>1. from \in Int /\ from >= 1
      BY <1>1
    <3>2. left = SubSeq(all, from, Len(all))
      BY <2>2 DEF Remaining
    <3> HIDE DEF from, all
    <3>3. \A i \in from .. Len(all) : all[i] \in Nat
      BY <1>2, <3>1
    <3>4. SubSeq(all, from, Len(all)) \in Seq(Nat)
      BY <1>2, <3>1, <3>3, SubSeqProperties
    <3> QED
      BY <3>2, <3>4
  <2> QED
    BY <2>1, <2>2, ExportAssumption
<1> DEFINE k == IF PageSize <= Len(left) THEN PageSize ELSE Len(left)
<1> HIDE DEF left, all, from
<1>4. Len(left) \in Nat
  BY <1>3
<1>5. Min({PageSize, Len(left)}) = k
  BY <1>1, <1>4, Least
<1>6. Page(s) = SubSeq(left, 1, k)
  BY <1>5 DEF Page, left
<1>7. k \in Nat /\ k <= Len(left) /\ (HasNext(s) => k > 0)
  BY <1>1, <1>4 DEF HasNext, left
<1> HIDE DEF k
<1>8. \A i \in 1 .. k : left[i] \in Nat
  BY <1>3, <1>4, <1>7
<1>9. Page(s) \in Seq(Nat) /\ Len(Page(s)) = k
  BY <1>6, <1>7, <1>8, FirstOf
<1>10. HasNext(s) => Last(Page(s)) \in Nat
  BY <1>7, <1>9 DEF Last
<1> QED
  BY <1>9, <1>10

\* With one page more the rows hold what was listed throughout as far as the page goes.
LEMMA PageFollows ==
  ASSUME ExportIInv, NEW s \in Source, Fetching(s), Paging[s] = "cursor",
         NEW items, items = fetch[s].rows \o Page(s)
  PROVE  /\ items \in Seq(Nat) /\ Range(items) \subseteq UNION seen[s]
         /\ ~HasNext(s) => \A i \in Instrument :
                               (\A was \in seen[s] : i \in was) => i \in Range(items)
         /\ HasNext(s) => \A i \in Instrument :
                i <= Last(Page(s)) /\ (\A was \in seen[s] : i \in was) => i \in Range(items)
<1> DEFINE B == {i \in listed[s] : i > fetch[s].cursor}
           sheet == Page(s)
           had == fetch[s].rows
<1>1. /\ listed[s] \in SUBSET Instrument /\ listed[s] \in seen[s] /\ fetch[s].cursor \in Nat
      /\ had \in Seq(Nat) /\ Served(s, fetch[s], seen[s])
  BY Underway
<1>2. B \in SUBSET Instrument
  BY <1>1
<1>3. Remaining(s) = InOrder(B)
  BY DEF Remaining
<1>4. sheet = SubSeq(InOrder(B), 1, Min({PageSize, Len(InOrder(B))}))
  BY <1>3 DEF Page
<1>5. HasNext(s) <=> Len(InOrder(B)) > PageSize
  BY <1>3 DEF HasNext
<1> HIDE DEF sheet
<1>6. /\ sheet \in Seq(Nat) /\ Range(sheet) \subseteq B
      /\ ~HasNext(s) => Range(sheet) = B
      /\ HasNext(s) => \A i \in B : i <= Last(sheet) => i \in Range(sheet)
  <2> HIDE DEF B
  <2>1. /\ sheet \in Seq(Nat) /\ Range(sheet) \subseteq B
        /\ ~(Len(InOrder(B)) > PageSize) => Range(sheet) = B
        /\ Len(InOrder(B)) > PageSize =>
               /\ Last(sheet) \in B
               /\ \A i \in B : i <= Last(sheet) => i \in Range(sheet)
    BY <1>2, <1>4, PageOfRemaining, ZenonT(30)
  <2> QED
    BY <1>5, <2>1
<1>7. /\ Range(had) \subseteq UNION seen[s]
      /\ \A i \in Instrument :
             i <= fetch[s].cursor /\ (\A was \in seen[s] : i \in was) => i \in Range(had)
  BY <1>1 DEF Served
<1> HIDE DEF had
<1>13. items = had \o sheet
  BY DEF had, sheet
<1>8. items \in Seq(Nat) /\ Range(items) = Range(had) \cup Range(sheet)
  BY <1>1, <1>6, <1>13, RangeConcatenation, ConcatProperties
<1>9. Range(items) \subseteq UNION seen[s]
  BY <1>1, <1>6, <1>7, <1>8
<1>10. \A i \in Instrument : i \in listed[s] => i <= fetch[s].cursor \/ i \in B
  <2>1. \A i \in Instrument : i \in Nat
    BY ExportAssumption
  <2>2. \A i \in Instrument : i <= fetch[s].cursor \/ i > fetch[s].cursor
    BY <1>1, <2>1
  <2> QED
    BY <2>2
<1> HIDE DEF B
<1>11. ASSUME ~HasNext(s), NEW i \in Instrument, \A was \in seen[s] : i \in was
       PROVE  i \in Range(items)
  BY <1>1, <1>6, <1>7, <1>8, <1>10, <1>11
<1>12. ASSUME HasNext(s), NEW i \in Instrument, i <= Last(sheet), \A was \in seen[s] : i \in was
       PROVE  i \in Range(items)
  BY <1>1, <1>6, <1>7, <1>8, <1>10, <1>12
<1> QED
  BY <1>8, <1>9, <1>11, <1>12 DEF sheet

LEMMA AnswerKeeps ==
  ASSUME ExportIInv, NEW s \in Source, Answer(s)
  PROVE  ExportIInv'
<1> DEFINE items == fetch[s].rows \o Page(s)
           f == [fetch[s] EXCEPT !.rows = items, !.page = @ + 1,
                                 !.cursor = Last(Page(s)), !.attempt = 0]
<1>1. Fetching(s) /\ Paging[s] # "stream" /\ Same
  BY DEF Answer
<1>2. /\ fetch[s] \in FetchState /\ fetch[s].state = "fetching" /\ fetch[s].status = "none"
      /\ Served(s, fetch[s], seen[s]) /\ fetch[s].rows \in Seq(Nat) /\ fetch[s].page \in Nat
  BY <1>1, Underway
<1>3. Page(s) \in Seq(Nat) /\ (HasNext(s) => Last(Page(s)) \in Nat)
  BY <1>1, PageIsTyped
<1>4. items \in Seq(Nat)
  BY <1>2, <1>3, ConcatProperties
<1>5. Paging[s] = "cursor" =>
          /\ Range(items) \subseteq UNION seen[s]
          /\ ~HasNext(s) => \A i \in Instrument :
                                (\A was \in seen[s] : i \in was) => i \in Range(items)
          /\ HasNext(s) => \A i \in Instrument :
                 i <= Last(Page(s)) /\ (\A was \in seen[s] : i \in was) => i \in Range(items)
  BY <1>1, PageFollows
<1>6. \/ ~HasNext(s) /\ Parsed(s, items)
      \/ HasNext(s) /\ Failed(s)
      \/ HasNext(s) /\ fetch' = [fetch EXCEPT ![s].rows = items, ![s].page = @ + 1,
                                              ![s].cursor = Last(Page(s)), ![s].attempt = 0]
  BY DEF Answer
<1>7. CASE ~HasNext(s) /\ Parsed(s, items)
  <2> HIDE DEF items
  <2>1. Exact(s, Range(items), seen[s])
    BY <1>1, <1>5, <1>7 DEF Exact
  <2> QED
    BY <1>1, <1>4, <1>7, <2>1, ParsedKeeps
<1>8. CASE HasNext(s) /\ Failed(s)
  BY <1>1, <1>8, FailedKeeps
<1>9. CASE HasNext(s) /\ fetch' = [fetch EXCEPT ![s].rows = items, ![s].page = @ + 1,
                                                ![s].cursor = Last(Page(s)), ![s].attempt = 0]
  <2> HIDE DEF items
  <2>1. fetch' = [fetch EXCEPT ![s] = f]
    BY <1>9
  <2> DEFINE last == Last(Page(s))
  <2>6. last \in Nat /\ fetch[s].page + 1 \in Nat /\ 0 \in Nat
    BY <1>2, <1>3, <1>9
  <2> HIDE DEF last
  <2>2. f \in FetchState
    BY <1>2, <1>4, <2>6 DEF FetchState, last
  <2>3. /\ f.state = "fetching" /\ f.status = "none" /\ f.rows = items
        /\ f.cursor = Last(Page(s)) /\ f.response = fetch[s].response
    BY <1>2 DEF FetchState
  <2> HIDE DEF f
  <2>4. Served(s, f, seen[s])
    BY <1>1, <1>2, <1>5, <1>9, <2>3 DEF Served
  <2>5. Sound(s, f, seen[s])
    BY <2>3, <2>4 DEF Sound
  <2> QED
    BY <1>1, <2>1, <2>2, <2>3, <2>5, FetchStep
<1> QED
  BY <1>6, <1>7, <1>8, <1>9

-----------------------------------------------------------------------------
(* A stream *)

LEMMA OpenKeeps ==
  ASSUME ExportIInv, NEW s \in Source, Open(s)
  PROVE  ExportIInv'
<1> DEFINE all == InOrder(listed[s])
           f == [fetch[s] EXCEPT !.response = Append(all, 0)]
<1>1. /\ Fetching(s) /\ Paging[s] = "stream" /\ fetch[s].response = <<>> /\ Same
      /\ fetch' = [fetch EXCEPT ![s].response = Append(all, 0)]
  BY DEF Open
<1>2. /\ fetch[s] \in FetchState /\ fetch[s].state = "fetching" /\ fetch[s].status = "none"
      /\ Served(s, fetch[s], seen[s]) /\ listed[s] \in seen[s] /\ listed[s] \in SUBSET Instrument
  BY <1>1, Underway
<1>3. all \in Seq(Nat)
  BY <1>2, InstrumentsInOrder
<1> HIDE DEF all
<1>4. fetch' = [fetch EXCEPT ![s] = f]
  BY <1>1
<1>5. f \in FetchState
  <2>1. Append(all, 0) \in Seq(Nat)
    BY <1>3
  <2> QED
    BY <1>2, <2>1 DEF FetchState
<1>6. /\ f.state = "fetching" /\ f.status = "none" /\ f.rows = fetch[s].rows
      /\ f.response = Append(all, 0)
  BY <1>2 DEF FetchState
<1> HIDE DEF f
<1>7. f.rows = <<>>
  BY <1>1, <1>2, <1>6 DEF Served
<1>8. f.rows \o f.response = all \o <<0>> /\ f.response # <<>>
  <2>1. Append(all, 0) = all \o <<0>> /\ Append(all, 0) \in Seq(Nat) /\ Append(all, 0) # <<>>
    BY <1>3, AppendIsConcat, AppendProperties
  <2> QED
    BY <1>6, <1>7, <2>1, ConcatEmptySeq
<1>9. Served(s, f, seen[s])
  BY <1>1, <1>2, <1>8 DEF Served, all
<1>10. Sound(s, f, seen[s])
  BY <1>6, <1>9 DEF Sound
<1> QED
  BY <1>1, <1>4, <1>5, <1>6, <1>10, FetchStep

\* What is read is appended to the rows, and gone from the response.
LEMMA ReadMoves ==
  ASSUME NEW items \in Seq(Nat), NEW response \in Seq(Nat), Len(response) > 1
  PROVE  /\ Append(items, Head(response)) \in Seq(Nat) /\ Tail(response) \in Seq(Nat)
         /\ Tail(response) # <<>>
         /\ Append(items, Head(response)) \o Tail(response) = items \o response
<1>1. response # <<>>
  OBVIOUS
<1>2. Head(response) \in Nat /\ Tail(response) \in Seq(Nat) /\ Len(Tail(response)) = Len(response) - 1
  BY <1>1, HeadTailProperties
<1>3. Tail(response) # <<>>
  <2>1. Len(response) \in Nat
    BY LenProperties
  <2>2. Len(Tail(response)) # 0
    <3> DEFINE n == Len(response)
               m == Len(Tail(response))
    <3>1. n \in Nat /\ n > 1 /\ m = n - 1
      BY <1>2, <2>1, Zenon
    <3> HIDE DEF n, m
    <3>2. m # 0
      BY <3>1
    <3> QED
      BY <3>2 DEF m
  <2>3. Len(<<>>) = 0
    BY EmptySeq
  <2> QED
    BY <2>2, <2>3, Zenon
<1>4. Append(items, Head(response)) \in Seq(Nat)
  BY <1>2
<1>5. Append(items, Head(response)) \o Tail(response) = items \o response
  <2>1. Append(items, Head(response)) = items \o <<Head(response)>>
    BY <1>2, AppendIsConcat
  <2>2. <<Head(response)>> \in Seq(Nat)
    BY <1>2
  <2>3. (items \o <<Head(response)>>) \o Tail(response) = items \o (<<Head(response)>> \o Tail(response))
    <3>1. Tail(response) \in Seq(Nat)
      BY <1>2
    <3> DEFINE tail == Tail(response)
    <3>2. tail \in Seq(Nat)
      BY <3>1
    <3> HIDE DEF tail
    <3>3. PICK head : head = <<Head(response)>>
      OBVIOUS
    <3>4. head \in Seq(Nat)
      BY <2>2, <3>3
    <3>5. (items \o head) \o tail = items \o (head \o tail)
      BY <3>2, <3>4, SMTT(30)
    <3> QED
      BY <3>3, <3>5 DEF tail
  <2>4. <<Head(response)>> \o Tail(response) = response
    BY <1>1, <1>2
  <2> QED
    BY <2>1, <2>3, <2>4
<1> QED
  BY <1>2, <1>3, <1>4, <1>5

LEMMA ReadKeeps ==
  ASSUME ExportIInv, NEW s \in Source, Read(s)
  PROVE  ExportIInv'
<1> DEFINE f == [fetch[s] EXCEPT !.rows = Append(@, Head(fetch[s].response)),
                                 !.response = Tail(@)]
<1>1. /\ Fetching(s) /\ Len(fetch[s].response) > 1 /\ Same
      /\ fetch' = [fetch EXCEPT ![s].rows = Append(@, Head(fetch[s].response)),
                                ![s].response = Tail(@)]
  BY DEF Read
<1>2. /\ fetch[s] \in FetchState /\ fetch[s].state = "fetching" /\ fetch[s].status = "none"
      /\ Served(s, fetch[s], seen[s])
      /\ fetch[s].rows \in Seq(Nat) /\ fetch[s].response \in Seq(Nat)
  BY <1>1, Underway
<1>3. fetch[s].response # <<>> /\ Paging[s] = "stream"
  BY <1>1, <1>2 DEF Served
<1>4. /\ Append(fetch[s].rows, Head(fetch[s].response)) \in Seq(Nat)
      /\ Tail(fetch[s].response) \in Seq(Nat) /\ Tail(fetch[s].response) # <<>>
      /\ Append(fetch[s].rows, Head(fetch[s].response)) \o Tail(fetch[s].response)
             = fetch[s].rows \o fetch[s].response
  BY <1>1, <1>2, ReadMoves
<1>5. fetch' = [fetch EXCEPT ![s] = f]
  BY <1>1
<1>6. f \in FetchState
  BY <1>2, <1>4 DEF FetchState
<1>7. /\ f.state = "fetching" /\ f.status = "none"
      /\ f.rows = Append(fetch[s].rows, Head(fetch[s].response))
      /\ f.response = Tail(fetch[s].response)
  BY <1>2 DEF FetchState
<1> HIDE DEF f
<1>8. f.rows \o f.response = fetch[s].rows \o fetch[s].response /\ f.response # <<>>
  BY <1>4, <1>7
<1>9. \E was \in seen[s] : fetch[s].rows \o fetch[s].response = InOrder(was) \o <<0>>
  BY <1>2, <1>3 DEF Served
<1>10. Served(s, f, seen[s])
  BY <1>3, <1>8, <1>9 DEF Served
<1>11. Sound(s, f, seen[s])
  BY <1>7, <1>10 DEF Sound
<1> QED
  BY <1>1, <1>5, <1>6, <1>7, <1>11, FetchStep

LEMMA CloseKeeps ==
  ASSUME ExportIInv, NEW s \in Source, Close(s)
  PROVE  ExportIInv'
<1> DEFINE items == fetch[s].rows
<1>1. Fetching(s) /\ Same /\ fetch[s].response = <<0>> /\ Parsed(s, items)
  BY DEF Close
<1>2. /\ Served(s, fetch[s], seen[s]) /\ seen[s] \in SUBSET SUBSET Instrument /\ items \in Seq(Nat)
  BY <1>1, Underway
<1>3. fetch[s].response # <<>> /\ Paging[s] = "stream"
  BY <1>1, <1>2 DEF Served
<1>4. PICK was \in seen[s] : items \o <<0>> = InOrder(was) \o <<0>>
  BY <1>1, <1>2, <1>3 DEF Served
<1> HIDE DEF items
<1>5. InOrder(was) \in Seq(Nat) /\ Range(InOrder(was)) = was
  BY <1>2, InstrumentsInOrder
<1>6. <<0>> \in Seq(Nat)
  OBVIOUS
<1>7. items = InOrder(was)
  BY <1>2, <1>4, <1>5, <1>6, ConcatSimplifications
<1>8. Exact(s, Range(items), seen[s])
  BY <1>3, <1>5, <1>7 DEF Exact
<1> QED
  BY <1>1, <1>2, <1>8, ParsedKeeps

LEMMA InterruptKeeps ==
  ASSUME ExportIInv, NEW s \in Source, Interrupt(s)
  PROVE  ExportIInv'
<1> DEFINE f == [fetch[s] EXCEPT !.attempt = @ + 1, !.rows = Kept(s), !.response = <<>>]
<1>1. /\ Fetching(s) /\ Same
      /\ \/ Failed(s)
         \/ fetch' = [fetch EXCEPT ![s].attempt = @ + 1, ![s].rows = Kept(s),
                                   ![s].response = <<>>]
  BY DEF Interrupt
<1>2. /\ fetch[s] \in FetchState /\ fetch[s].state = "fetching" /\ fetch[s].status = "none"
      /\ Served(s, fetch[s], seen[s])
      /\ fetch[s].rows \in Seq(Nat) /\ fetch[s].attempt \in Nat
  BY <1>1, Underway
<1>3. CASE Failed(s)
  BY <1>1, <1>3, FailedKeeps
<1>4. CASE fetch' = [fetch EXCEPT ![s].attempt = @ + 1, ![s].rows = Kept(s),
                                  ![s].response = <<>>]
  <2>1. Kept(s) \in Seq(Nat) /\ <<>> \in Seq(Nat) /\ fetch[s].attempt + 1 \in Nat
    BY <1>2 DEF Kept
  <2>2. fetch' = [fetch EXCEPT ![s] = f]
    BY <1>4
  <2>3. f \in FetchState
    BY <1>2, <2>1 DEF FetchState
  <2>4. /\ f.state = "fetching" /\ f.status = "none" /\ f.rows = Kept(s)
        /\ f.response = <<>> /\ f.cursor = fetch[s].cursor
    BY <1>2 DEF FetchState
  <2> HIDE DEF f
  <2>5. Served(s, f, seen[s])
    BY <1>2, <2>4 DEF Served, Kept
  <2>6. Sound(s, f, seen[s])
    BY <2>4, <2>5 DEF Sound
  <2> QED
    BY <1>1, <2>2, <2>3, <2>4, <2>6, FetchStep
<1> QED
  BY <1>1, <1>3, <1>4

LEMMA RejectKeeps ==
  ASSUME ExportIInv, NEW s \in Source, Reject(s)
  PROVE  ExportIInv'
BY FailedKeeps DEF Reject

-----------------------------------------------------------------------------
(* The provider and the start of a fetch *)

LEMMA ListKeeps ==
  ASSUME ExportIInv, NEW s \in Source, NEW was \in SUBSET Instrument, List(s, was)
  PROVE  ExportIInv'
<1>1. /\ listed' = [listed EXCEPT ![s] = was]
      /\ seen' = [seen EXCEPT ![s] = IF Fetching(s) THEN @ \union {was} ELSE @]
      /\ fetch' = fetch /\ export' = export /\ stage' = stage
      /\ file' = file /\ durable' = durable /\ exited' = exited
  BY DEF List
<1>2. ExportTypeOK'
  BY <1>1 DEF ExportIInv, ExportTypeOK
<1>3. ASSUME NEW t \in Source
      PROVE  /\ Sound(t, fetch[t], seen'[t])
             /\ fetch[t].state = "fetching" => stage = "fetching" /\ listed'[t] \in seen'[t]
             /\ fetch[t].state # "queued" => t \in Collectable
  <2>1. /\ Sound(t, fetch[t], seen[t])
        /\ fetch[t].state = "fetching" => stage = "fetching" /\ listed[t] \in seen[t]
        /\ fetch[t].state # "queued" => t \in Collectable
    BY DEF ExportIInv, FetchesSound
  <2>2. CASE t # s
    <3>1. listed'[t] = listed[t] /\ seen'[t] = seen[t]
      BY <1>1, <2>2 DEF ExportIInv, ExportTypeOK
    <3> QED
      BY <2>1, <3>1
  <2>3. CASE t = s /\ ~Fetching(s)
    <3>1. seen'[t] = seen[t] /\ fetch[t].state # "fetching"
      BY <1>1, <2>1, <2>3 DEF ExportIInv, ExportTypeOK, Fetching
    <3> QED
      BY <2>1, <3>1
  <2>4. CASE t = s /\ Fetching(s)
    <3>1. /\ seen'[t] = seen[t] \cup {was} /\ listed'[t] = was
          /\ fetch[t].state = "fetching" /\ stage = "fetching"
      BY <1>1, <2>4 DEF ExportIInv, ExportTypeOK, Fetching
    <3>2. fetch[t].status = "none" /\ Served(t, fetch[t], seen[t])
      BY <2>1, <3>1 DEF Sound
    <3>3. Served(t, fetch[t], seen'[t])
      BY <3>1, <3>2, ServedMore
    <3>4. Sound(t, fetch[t], seen'[t])
      BY <3>1, <3>2, <3>3 DEF Sound
    <3> QED
      BY <2>1, <3>1, <3>4
  <2> QED
    BY <2>2, <2>3, <2>4
<1>4. FetchesSound'
  BY <1>1, <1>3 DEF FetchesSound
<1>5. StagesOrdered'
  BY <1>1 DEF ExportIInv, StagesOrdered, Settled
<1> QED
  BY <1>2, <1>4, <1>5 DEF ExportIInv

LEMMA StartFetchKeeps ==
  ASSUME ExportIInv, NEW s \in Source, StartFetch(s)
  PROVE  ExportIInv'
<1> DEFINE f == [fetch[s] EXCEPT !.state = "fetching"]
<1>1. /\ stage = "fetching" /\ s \in Collectable /\ fetch[s].state = "queued"
      /\ fetch' = [fetch EXCEPT ![s].state = "fetching"]
      /\ seen' = [seen EXCEPT ![s] = {listed[s]}]
      /\ listed' = listed /\ export' = export /\ stage' = stage
      /\ file' = file /\ durable' = durable /\ exited' = exited
  BY DEF StartFetch
<1>2. fetch[s] \in FetchState /\ listed[s] \in SUBSET Instrument
  BY DEF ExportIInv, ExportTypeOK
<1>3. fetch[s] = Queued
  BY <1>1 DEF ExportIInv, FetchesSound, Sound
<1>4. f \in FetchState /\ fetch' = [fetch EXCEPT ![s] = f]
  BY <1>1, <1>2 DEF FetchState
<1>5. /\ f.state = "fetching" /\ f.status = "none" /\ f.rows = <<>> /\ f.response = <<>>
      /\ f.cursor = 0
  BY <1>3 DEF Queued
<1> HIDE DEF f
<1>6. ExportTypeOK'
  BY <1>1, <1>2, <1>4 DEF ExportIInv, ExportTypeOK
<1>7. Served(s, f, {listed[s]})
  <2>1. Range(f.rows) = {}
    BY <1>5 DEF Range
  <2>2. \A i \in Instrument : ~(i <= f.cursor)
    BY <1>5, ExportAssumption
  <2> QED
    BY <1>5, <2>1, <2>2 DEF Served
<1>8. Sound(s, f, {listed[s]})
  BY <1>5, <1>7 DEF Sound
<1>9. ASSUME NEW t \in Source
      PROVE  /\ Sound(t, fetch'[t], seen'[t])
             /\ fetch'[t].state = "fetching" => stage = "fetching" /\ listed[t] \in seen'[t]
             /\ fetch'[t].state # "queued" => t \in Collectable
  <2>1. CASE t = s
    <3>1. fetch'[t] = f /\ seen'[t] = {listed[s]}
      BY <1>1, <1>4, <2>1 DEF ExportIInv, ExportTypeOK
    <3> QED
      BY <1>1, <1>5, <1>8, <2>1, <3>1
  <2>2. CASE t # s
    <3>1. fetch'[t] = fetch[t] /\ seen'[t] = seen[t]
      BY <1>1, <1>4, <2>2 DEF ExportIInv, ExportTypeOK
    <3> QED
      BY <3>1 DEF ExportIInv, FetchesSound
  <2> QED
    BY <2>1, <2>2
<1>10. FetchesSound'
  BY <1>1, <1>9 DEF FetchesSound
<1>11. StagesOrdered'
  BY <1>1 DEF ExportIInv, StagesOrdered
<1> QED
  BY <1>6, <1>10, <1>11 DEF ExportIInv

-----------------------------------------------------------------------------
(* The process and the file *)

LEMMA FilesTyped ==
  ASSUME ExportIInv
  PROVE  /\ file.of \in Nat /\ durable.of \in Nat
         /\ exited \in Nat /\ export \in Nat /\ exited <= file.of /\ exited <= durable.of
         /\ file # Absent => file \in WholeBundle
         /\ \A found \in {file, durable} : found = Absent \/ found.synced
<1>1. Absent.of \in Nat
  BY DEF Absent
<1>2. \A bundle \in WholeBundle : bundle.of \in Nat /\ bundle.synced
  BY DEF WholeBundle
<1>3. \A found \in {file, durable} : found = Absent \/ found \in WholeBundle
  BY DEF ExportIInv, ExportTypeOK
<1>4. \A found \in {file, durable} : found.of \in Nat /\ (found = Absent \/ found.synced)
  BY <1>1, <1>2, <1>3
<1>5. exited \in Nat /\ export \in Nat /\ exited <= file.of /\ exited <= durable.of
  BY DEF ExportIInv, ExportTypeOK, StagesOrdered
<1> QED
  BY <1>3, <1>4, <1>5

LEMMA BeginKeeps ==
  ASSUME ExportIInv, Begin
  PROVE  ExportIInv'
<1>1. /\ stage \in {"idle", "exited"} /\ export' = export + 1 /\ stage' = "fetching"
      /\ listed' = listed /\ fetch' = fetch /\ seen' = seen
      /\ file' = file /\ durable' = durable /\ exited' = exited
  BY DEF Begin
<1>2. ExportTypeOK'
  BY <1>1 DEF ExportIInv, ExportTypeOK
<1>3. FetchesSound'
  BY <1>1 DEF ExportIInv, FetchesSound
<1>4. export \in Nat /\ exited \in Nat /\ file.of <= export /\ durable.of <= export
      /\ exited <= file.of /\ exited <= durable.of
  BY DEF ExportIInv, ExportTypeOK, StagesOrdered
<1>5. file.of \in Nat /\ durable.of \in Nat
  BY FilesTyped
<1>6. StagesOrdered'
  BY <1>1, <1>4, <1>5 DEF StagesOrdered
<1> QED
  BY <1>2, <1>3, <1>6 DEF ExportIInv

LEMMA WriteKeeps ==
  ASSUME ExportIInv, Write
  PROVE  ExportIInv'
<1>1. /\ stage = "fetching" /\ (\A s \in Collectable : Settled(s)) /\ stage' = "written"
      /\ listed' = listed /\ fetch' = fetch /\ seen' = seen /\ export' = export
      /\ file' = file /\ durable' = durable /\ exited' = exited
  BY DEF Write
<1>2. ExportTypeOK'
  BY <1>1 DEF ExportIInv, ExportTypeOK
<1>3. FetchesSound'
  <2> SUFFICES ASSUME NEW s \in Source
               PROVE  /\ Sound(s, fetch[s], seen[s])
                      /\ fetch[s].state # "fetching"
                      /\ fetch[s].state # "queued" => s \in Collectable
    BY <1>1 DEF FetchesSound
  <2> QED
    BY <1>1 DEF ExportIInv, FetchesSound, Settled
<1>4. StagesOrdered'
  BY <1>1 DEF ExportIInv, StagesOrdered, Settled
<1> QED
  BY <1>2, <1>3, <1>4 DEF ExportIInv

\* The entries of a bundle are those that an import decodes.
LEMMA BundleIsWhole ==
  ASSUME ExportIInv, stage = "written"
  PROVE  Promoted \in WholeBundle /\ Promoted.of = export
<1>1. \A s \in Collectable : fetch[s].state = "settled" /\ s \in Source
  BY DEF ExportIInv, StagesOrdered, Settled, Collectable
<1>2. \A s \in Collectable : fetch[s].status # "FAILED" => Readable(fetch[s].rows) # {}
  BY <1>1 DEF ExportIInv, FetchesSound, Sound
<1>3. \A s \in Collectable : Entry(s) \in Entries
  BY <1>2 DEF Entry, Entries
<1>4. export \in Nat \ {0}
  BY DEF ExportIInv, ExportTypeOK, StagesOrdered
<1>5. Promoted = [of |-> export, whole |-> TRUE, synced |-> TRUE,
                  entries |-> [s \in Collectable |-> Entry(s)]]
  BY DEF Promoted, Bundle
<1>6. [s \in Collectable |-> Entry(s)] \in [Collectable -> Entries]
  BY <1>3
<1> QED
  BY <1>4, <1>5, <1>6 DEF WholeBundle

LEMMA ReplaceKeeps ==
  ASSUME ExportIInv, Replace
  PROVE  ExportIInv'
<1>1. /\ stage = "written" /\ stage' = "replaced" /\ file' = Promoted
      /\ listed' = listed /\ fetch' = fetch /\ seen' = seen /\ export' = export
      /\ durable' = durable /\ exited' = exited
  BY DEF Replace
<1>2. Promoted \in WholeBundle /\ Promoted.of = export
  BY <1>1, BundleIsWhole
<1>3. ExportTypeOK'
  BY <1>1, <1>2 DEF ExportIInv, ExportTypeOK
<1>4. FetchesSound'
  <2> SUFFICES ASSUME NEW s \in Source
               PROVE  /\ Sound(s, fetch[s], seen[s])
                      /\ fetch[s].state # "fetching"
                      /\ fetch[s].state # "queued" => s \in Collectable
    BY <1>1 DEF FetchesSound
  <2> QED
    BY <1>1 DEF ExportIInv, FetchesSound
<1>5. /\ export \in Nat /\ exited \in Nat /\ file.of <= export /\ durable.of <= export /\ export > 0
      /\ exited <= file.of /\ exited <= durable.of /\ \A s \in Collectable : Settled(s)
  BY <1>1 DEF ExportIInv, ExportTypeOK, StagesOrdered
<1>6. file.of \in Nat /\ durable.of \in Nat
  BY FilesTyped
<1>7. exited <= export
  BY <1>5, <1>6
<1>8. StagesOrdered'
  BY <1>1, <1>2, <1>5, <1>7 DEF StagesOrdered, Settled
<1> QED
  BY <1>3, <1>4, <1>8 DEF ExportIInv

\* What the process held is gone; what is found of files may be any of the two there were.
LEMMA EndKeeps ==
  ASSUME ExportIInv, NEW to \in {"idle", "exited"}, End(to),
         file' \in {file, durable}, durable' \in {file, durable},
         exited' \in Nat, exited' <= file'.of, exited' <= durable'.of
  PROVE  ExportIInv'
<1>1. /\ stage' = to /\ fetch' = [s \in Source |-> Queued] /\ seen' = [s \in Source |-> {}]
      /\ listed' = listed /\ export' = export
  BY DEF End
<1>2. Queued \in FetchState
  BY DEF Queued, FetchState
<1>3. ExportTypeOK'
  BY <1>1, <1>2 DEF ExportIInv, ExportTypeOK
<1>4. \A s \in Source : fetch'[s] = Queued
  BY <1>1
<1>5. Queued.state = "queued"
  BY DEF Queued
<1>6. FetchesSound'
  BY <1>4, <1>5 DEF FetchesSound, Sound
<1>7. file'.of <= export /\ durable'.of <= export
  BY DEF ExportIInv, StagesOrdered
<1>8. StagesOrdered'
  BY <1>1, <1>4, <1>7 DEF StagesOrdered
<1> QED
  BY <1>3, <1>6, <1>8 DEF ExportIInv

LEMMA ExitKeeps ==
  ASSUME ExportIInv, Exit
  PROVE  ExportIInv'
<1>1. /\ stage = "replaced" /\ End("exited") /\ durable' = file /\ exited' = export /\ file' = file
  BY DEF Exit
<1>2. file.of = export
  BY <1>1 DEF ExportIInv, StagesOrdered
<1>3. export \in Nat
  BY FilesTyped
<1> QED
  BY <1>1, <1>2, <1>3, EndKeeps

LEMMA KillKeeps ==
  ASSUME ExportIInv, Kill
  PROVE  ExportIInv'
<1>1. End("idle") /\ file' = file /\ durable' = durable /\ exited' = exited
  BY DEF Kill
<1> QED
  BY <1>1, FilesTyped, EndKeeps

\* Every file there is has been forced to disk, so that none is torn.
LEMMA PowerLossKeeps ==
  ASSUME ExportIInv, PowerLoss
  PROVE  ExportIInv'
<1>1. PICK found \in {file, durable} :
          LET left == IF found = Absent \/ found.synced THEN found
                      ELSE [found EXCEPT !.whole = FALSE]
          IN  file' = left /\ durable' = left
  BY DEF PowerLoss
<1>2. End("idle") /\ exited' = exited
  BY DEF PowerLoss
<1>3. found = Absent \/ found.synced
  BY FilesTyped
<1>4. file' = found /\ durable' = found
  BY <1>1, <1>3
<1>5. exited \in Nat /\ exited <= found.of
  BY FilesTyped
<1> QED
  BY <1>2, <1>4, <1>5, EndKeeps

-----------------------------------------------------------------------------
LEMMA ExportInitially == ExportInit => ExportIInv
<1> SUFFICES ASSUME ExportInit PROVE ExportIInv
  OBVIOUS
<1>1. Queued \in FetchState /\ Queued.state = "queued"
  BY DEF Queued, FetchState
<1>2. /\ listed \in [Source -> SUBSET Instrument] /\ fetch = [s \in Source |-> Queued]
      /\ export = 0 /\ stage = "idle" /\ file = Absent /\ durable = Absent
      /\ seen = [s \in Source |-> {}] /\ exited = 0
  BY DEF ExportInit
<1>3. ExportTypeOK
  BY <1>1, <1>2 DEF ExportTypeOK
<1>4. \A s \in Source : fetch[s] = Queued
  BY <1>2
<1>5. FetchesSound
  BY <1>1, <1>4 DEF FetchesSound, Sound
<1>6. StagesOrdered
  BY <1>2, <1>4 DEF StagesOrdered, Absent
<1> QED
  BY <1>3, <1>5, <1>6 DEF ExportIInv

LEMMA ExportInductive == ExportIInv /\ [ExportNext]_exportVars => ExportIInv'
<1> SUFFICES ASSUME ExportIInv, [ExportNext]_exportVars
             PROVE  ExportIInv'
  OBVIOUS
<1>1. ASSUME NEW s \in Source, NEW was \in SUBSET Instrument, List(s, was)
      PROVE  ExportIInv'
  BY <1>1, ListKeeps
<1>2. ASSUME NEW s \in Source, StartFetch(s)
      PROVE  ExportIInv'
  BY <1>2, StartFetchKeeps
<1>3. ASSUME NEW s \in Source, Answer(s)
      PROVE  ExportIInv'
  BY <1>3, AnswerKeeps
<1>4. ASSUME NEW s \in Source, Open(s)
      PROVE  ExportIInv'
  BY <1>4, OpenKeeps
<1>5. ASSUME NEW s \in Source, Read(s)
      PROVE  ExportIInv'
  BY <1>5, ReadKeeps
<1>6. ASSUME NEW s \in Source, Close(s)
      PROVE  ExportIInv'
  BY <1>6, CloseKeeps
<1>7. ASSUME NEW s \in Source, Interrupt(s)
      PROVE  ExportIInv'
  BY <1>7, InterruptKeeps
<1>8. ASSUME NEW s \in Source, Reject(s)
      PROVE  ExportIInv'
  BY <1>8, RejectKeeps
<1>9. CASE Begin
  BY <1>9, BeginKeeps
<1>10. CASE Write
  BY <1>10, WriteKeeps
<1>11. CASE Replace
  BY <1>11, ReplaceKeeps
<1>12. CASE Exit
  BY <1>12, ExitKeeps
<1>13. CASE Kill
  BY <1>13, KillKeeps
<1>14. CASE PowerLoss
  BY <1>14, PowerLossKeeps
<1>15. CASE UNCHANGED exportVars
  BY <1>15 DEF exportVars, ExportIInv, ExportTypeOK, FetchesSound, StagesOrdered, Settled
<1> QED
  BY <1>1, <1>2, <1>3, <1>4, <1>5, <1>6, <1>7, <1>8, <1>9, <1>10, <1>11, <1>12, <1>13,
     <1>14, <1>15 DEF ExportNext

\* Every fetch of an export tells of listings that its source had meanwhile, the stages
\* of an export follow each other, and no file is of a later export than it may be.
THEOREM ExportInvariant == ExportSpec => []ExportIInv
<1>1. ExportInit => ExportIInv
  BY ExportInitially
<1>2. ExportIInv /\ [ExportNext]_exportVars => ExportIInv'
  BY ExportInductive
<1> QED
  BY <1>1, <1>2, PTL DEF ExportSpec

\* A stream that is stored as complete is one listing of its source, and pages stored as
\* complete hold whatever was listed throughout and nothing that never was, for any page
\* sizes, answers, retries and changes meanwhile (the connectors' paging loops).
THEOREM FetchesAreExact == ExportSpec => []FetchIsExact
<1>1. ExportIInv => FetchIsExact
  <2> SUFFICES ASSUME ExportIInv, NEW s \in Source, fetch[s].status = "COMPLETE"
               PROVE  Exact(s, Readable(fetch[s].rows), seen[s])
    BY DEF FetchIsExact, Exact
  <2>1. Sound(s, fetch[s], seen[s]) /\ fetch[s] \in FetchState
    BY DEF ExportIInv, FetchesSound, ExportTypeOK
  <2>2. fetch[s].state = "settled"
    <3>1. fetch[s].state \in {"queued", "fetching", "settled"}
      BY <2>1 DEF FetchState
    <3>2. fetch[s].state # "queued"
      BY <2>1 DEF Sound, Queued
    <3>3. fetch[s].state # "fetching"
      BY <2>1 DEF Sound
    <3> QED
      BY <3>1, <3>2, <3>3
  <2> QED
    BY <2>1, <2>2 DEF Sound
<1> QED
  BY <1>1, ExportInvariant, PTL

\* What an import asks of a bundle, but for the sources that it must have.
Decodable(bundle) ==
    /\ bundle.whole /\ DOMAIN bundle.entries = Collectable
    /\ \A s \in Collectable :
           bundle.entries[s].status = "SUCCEEDED" <=> bundle.entries[s].records

\* The file is one that decodes, and none older than the last export that ended well.
NoneTorn ==
    /\ file # Absent => Decodable(file)
    /\ file.of >= exited

LEMMA WholeIsDecodable == ExportIInv => NoneTorn
<1> SUFFICES ASSUME ExportIInv PROVE NoneTorn
  OBVIOUS
<1>1. file.of >= exited
  BY FilesTyped
<1>2. ASSUME file # Absent PROVE Decodable(file)
  <2>1. file \in WholeBundle
    BY <1>2, FilesTyped
  <2>2. file.whole /\ file.entries \in [Collectable -> Entries]
    BY <2>1 DEF WholeBundle
  <2>3. \A s \in Collectable : file.entries[s] \in Entries
    BY <2>2
  <2>4. \A e \in Entries : e.status = "SUCCEEDED" <=> e.records
    BY DEF Entries
  <2> QED
    BY <2>2, <2>3, <2>4 DEF Decodable
<1> QED
  BY <1>1, <1>2 DEF NoneTorn

\* Whatever is killed and whenever power is lost, the file holds a whole bundle, with one
\* entry for every source that an export collects, and never an older one than an export
\* that has exited (the private write: a temporary file, synced, then renamed).
THEOREM FilesAreWhole == ExportSpec => []NoneTorn
BY WholeIsDecodable, ExportInvariant, PTL

\* While every registered source is collected, an import therefore accepts the file.  It
\* does not once a source is terminal: the finding on exports of retired sources.
THEOREM FilesAreAccepted ==
  ASSUME Terminal = {}
  PROVE  ExportSpec => []FileIsWhole
<1>1. Collectable = Source
  BY DEF Collectable
<1>2. NoneTorn => FileIsWhole
  BY <1>1 DEF NoneTorn, Decodable, FileIsWhole, Accepted
<1> QED
  BY <1>2, FilesAreWhole, PTL

-----------------------------------------------------------------------------
(* What the comparisons of SQL come to, whose third value is unknown. *)

Truth == {"true", "false", "unknown"}

LEMMA Negation ==
    ASSUME NEW t \in Truth
    PROVE  /\ Not(t) \in Truth
           /\ Not(t) = "true" <=> t = "false"
           /\ Not(t) = "false" <=> t = "true"
  BY DEF Truth, Not

LEMMA Membership ==
    ASSUME NEW x, NEW values
    PROVE  /\ In(x, values) \in Truth
           /\ In(x, values) = "true" <=> x # None /\ x \in values
           /\ In(x, values) = "unknown" <=> x = None
  BY DEF Truth, In

LEMMA Disjunction ==
    ASSUME NEW ts
    PROVE  /\ Or(ts) \in Truth
           /\ Or(ts) = "true" <=> "true" \in ts
           /\ Or(ts) = "unknown" => "unknown" \in ts
           /\ Or(ts) = "false" => "unknown" \notin ts
  BY DEF Truth, Or

LEMMA Conjunction ==
    ASSUME NEW ts \in SUBSET Truth
    PROVE  /\ And(ts) \in Truth
           /\ And(ts) = "true" <=> \A t \in ts : t = "true"
           /\ And(ts) = "unknown" => "unknown" \in ts /\ "false" \notin ts
  <1> DEFINE negated == {Not(t) : t \in ts}
  <1>1. /\ "true" \in negated <=> "false" \in ts
        /\ "unknown" \in negated <=> "unknown" \in ts
        /\ \A t \in ts : t \in Truth
    BY DEF Truth, Not
  <1>2. And(ts) = Not(Or(negated))
    BY DEF And
  <1>3. Or(negated) \in Truth /\ (Or(negated) = "true" <=> "true" \in negated)
        /\ (Or(negated) = "unknown" => "unknown" \in negated)
        /\ (Or(negated) = "false" => "unknown" \notin negated)
    BY Disjunction
  <1>4. /\ Not(Or(negated)) \in Truth
        /\ Not(Or(negated)) = "true" <=> Or(negated) = "false"
        /\ Not(Or(negated)) = "unknown" => Or(negated) = "unknown"
    BY <1>3 DEF Truth, Not
  <1> HIDE DEF negated
  <1> QED BY <1>1, <1>2, <1>3, <1>4 DEF Truth

Product == {"PERP", "DATED", "CQ", "NQ"}

LEMMA ProductsAre == {"PERP", "DATED"} \union DOMAIN CycleOf = Product /\ DOMAIN CycleOf = {"CQ", "NQ"}
                     /\ CycleOf["CQ"] = "Q" /\ CycleOf["NQ"] = "BQ"
  BY DEF Product, CycleOf

LEMMA ContractMeans ==
    ASSUME NEW m \in Market, NEW values \in SUBSET Product
    PROVE  /\ OfContract(m, values) \in Truth
           /\ OfContract(m, values) = "true" <=> MatchesContract(m, values)
           /\ OfContract(m, values) = "unknown" =>
                 /\ values \intersect DOMAIN CycleOf # {}
                 /\ Contract[m] = "DATED" /\ Dim[m]["expiry"] = None
  <1> DEFINE cycle(alias) == {In(Contract[m], {"DATED"}), In(Dim[m]["expiry"], {CycleOf[alias]})}
             plain == In(Contract[m], values \intersect {"PERP", "DATED"})
             all == {plain} \union {And(cycle(alias)) : alias \in values \intersect DOMAIN CycleOf}
  <1>1. /\ Contract[m] \in {"SPOT", "PERP", "DATED"} /\ Contract[m] # None
        /\ None # "Q" /\ None # "BQ"
    BY ListingAssumption DEF SensibleCatalog
  <1>2. /\ plain = "true" <=> Contract[m] \in values
        /\ plain # "unknown"
    BY <1>1, Membership DEF Product
  <1>3. ASSUME NEW alias \in values \intersect DOMAIN CycleOf
        PROVE  /\ And(cycle(alias)) \in Truth
               /\ And(cycle(alias)) = "true" <=>
                     Contract[m] = "DATED" /\ Dim[m]["expiry"] = CycleOf[alias]
               /\ And(cycle(alias)) = "unknown" =>
                     Contract[m] = "DATED" /\ Dim[m]["expiry"] = None
    <2> DEFINE c == In(Contract[m], {"DATED"})
               e == In(Dim[m]["expiry"], {CycleOf[alias]})
    <2>1. /\ c \in Truth /\ c # "unknown" /\ (c = "true" <=> Contract[m] = "DATED")
      BY <1>1, Membership
    <2>2. CycleOf[alias] # None
      BY <1>1, ProductsAre
    <2>3. /\ e \in Truth /\ (e = "true" <=> Dim[m]["expiry"] = CycleOf[alias])
          /\ (e = "unknown" => Dim[m]["expiry"] = None)
      BY <2>2, Membership
    <2> HIDE DEF c, e
    <2>4. /\ And({c, e}) \in Truth
          /\ And({c, e}) = "true" <=> c = "true" /\ e = "true"
          /\ And({c, e}) = "unknown" => "unknown" \in {c, e} /\ "false" \notin {c, e}
      <3>1. {c, e} \in SUBSET Truth
        BY <2>1, <2>3
      <3> QED BY <3>1, Conjunction
    <2>5. cycle(alias) = {c, e}
      BY DEF c, e
    <2> HIDE DEF cycle
    <2> QED BY <2>1, <2>3, <2>4, <2>5 DEF Truth
  <1>4. OfContract(m, values) = Or(all)
    BY DEF OfContract
  <1>5. MatchesContract(m, values) <=>
            \/ Contract[m] \in values
            \/ \E alias \in values \intersect DOMAIN CycleOf :
                   Contract[m] = "DATED" /\ Dim[m]["expiry"] = CycleOf[alias]
    BY DEF MatchesContract
  <1>6. \A t : t \in all <=>
            t = plain \/ \E alias \in values \intersect DOMAIN CycleOf : t = And(cycle(alias))
    OBVIOUS
  <1>7. /\ Or(all) \in Truth
        /\ Or(all) = "true" <=> "true" \in all
        /\ Or(all) = "unknown" => "unknown" \in all
    BY Disjunction
  <1> HIDE DEF all, plain, cycle
  <1>8. "true" \in all <=> MatchesContract(m, values)
    BY <1>2, <1>3, <1>5, <1>6
  <1>9. "unknown" \in all => \E alias \in values \intersect DOMAIN CycleOf :
                                Contract[m] = "DATED" /\ Dim[m]["expiry"] = None
    BY <1>2, <1>3, <1>6
  <1> QED BY <1>4, <1>7, <1>8, <1>9

\* The names a market goes by in a state of the store.
NamesIn(st, m) == Names[m] \union {Canonical[a] : a \in {st.rows[m].asset} \ {None}}

LEMMA LikeMeans ==
    ASSUME NEW st, NEW m \in Market, NEW p, SensibleStore(st)
    PROVE  /\ Like(st, m, p) \in Truth
           /\ Like(st, m, p) = "true" <=> NamesIn(st, m) \intersect Matches[p] # {}
           /\ Like(st, m, p) = "unknown" => st.rows[m].asset = None
  <1> DEFINE a == st.rows[m].asset
             own == {In(name, Matches[p]) : name \in Names[m]}
             ofAsset == IF a = None THEN "unknown" ELSE In(Canonical[a], Matches[p])
  <1>1. a \in Asset \union {None}
    BY DEF SensibleStore
  <1>2. None \notin Names[m] /\ (a # None => Canonical[a] # None)
    BY <1>1, ListingAssumption DEF SensibleCatalog
  <1>3. /\ "true" \in own <=> Names[m] \intersect Matches[p] # {}
        /\ "unknown" \notin own
    BY <1>2, Membership
  <1>4. /\ ofAsset = "true" <=> a # None /\ Canonical[a] \in Matches[p]
        /\ ofAsset = "unknown" <=> a = None
    BY <1>2, Membership
  <1>5. Like(st, m, p) = Or(own \union {ofAsset})
    BY DEF Like
  <1>6. NamesIn(st, m) \intersect Matches[p] # {} <=>
            \/ Names[m] \intersect Matches[p] # {}
            \/ a # None /\ Canonical[a] \in Matches[p]
    BY DEF NamesIn
  <1>7. /\ Or(own \union {ofAsset}) \in Truth
        /\ Or(own \union {ofAsset}) = "true" <=> "true" \in own \union {ofAsset}
        /\ Or(own \union {ofAsset}) = "unknown" => "unknown" \in own \union {ofAsset}
    BY Disjunction
  <1>8. \A t : t \in own \union {ofAsset} <=> t \in own \/ t = ofAsset
    OBVIOUS
  <1> HIDE DEF own, ofAsset, a
  <1>9. /\ "true" \in own \union {ofAsset} <=> NamesIn(st, m) \intersect Matches[p] # {}
        /\ "unknown" \in own \union {ofAsset} => a = None
    BY <1>3, <1>4, <1>6, <1>8
  <1>10. /\ Like(st, m, p) \in Truth
         /\ Like(st, m, p) = "true" <=> NamesIn(st, m) \intersect Matches[p] # {}
         /\ Like(st, m, p) = "unknown" => a = None
    BY <1>5, <1>7, <1>9
  <1> QED BY <1>10 DEF a

-----------------------------------------------------------------------------
(* The listings, filter by filter. *)

\* A market page lists what its filters admit, but for the three cases that the property names.
LEMMA MarketsAreAdmitted ==
    ASSUME NEW st, SensibleStore(st), NEW q, SensibleQuery(q)
    PROVE  /\ MarketList(st, q) \subseteq Admitted(st, q)
           /\ \A m \in Admitted(st, q) \ MarketList(st, q) :
                  \/ Cardinality(q.symbol) > 1
                  \/ q.symbolNot # {} /\ st.rows[m].asset = None
                  \/ /\ q.contractNot \intersect DOMAIN CycleOf # {}
                     /\ Contract[m] = "DATED" /\ Dim[m]["expiry"] = None
  <1>1. /\ \A d \in Dimension : None \notin q.in[d] /\ None \notin q.out[d]
        /\ q.contract \in SUBSET Product /\ q.contractNot \in SUBSET Product
        /\ IsFiniteSet(q.symbol)
    BY ProductsAre DEF SensibleQuery
  <1> DEFINE Met(m, patterns) == \E p \in patterns : NamesIn(st, m) \intersect Matches[p] # {}
  <1>2. ASSUME NEW m \in Market
        PROVE  m \in Admitted(st, q) <=>
                   /\ \A d \in Dimension : (q.in[d] # {} => Dim[m][d] \in q.in[d])
                                           /\ Dim[m][d] \notin q.out[d]
                   /\ q.contract # {} => MatchesContract(m, q.contract)
                   /\ ~MatchesContract(m, q.contractNot)
                   /\ ActiveFilter(st.rows[m].active, q)
                   /\ q.symbol # {} => Met(m, q.symbol)
                   /\ ~Met(m, q.symbolNot)
                   /\ q.tags \subseteq Tagged(st, m) /\ q.tagsNot \intersect Tagged(st, m) = {}
    BY DEF Admitted, NamesIn
  <1>3. ASSUME NEW m \in Market
        PROVE  m \in MarketList(st, q) <=>
                   /\ \A d \in Dimension : q.in[d] # {} => In(Dim[m][d], q.in[d]) = "true"
                   /\ \A d \in Dimension : q.out[d] # {} => Passes(m, d, q.out[d])
                   /\ q.contract # {} => OfContract(m, q.contract) = "true"
                   /\ q.contractNot # {} => Not(OfContract(m, q.contractNot)) = "true"
                   /\ ActiveFilter(st.rows[m].active, q)
                   /\ \A p \in q.symbol : Like(st, m, p) = "true"
                   /\ \A p \in q.symbolNot : Not(Like(st, m, p)) = "true"
                   /\ q.tags \subseteq Tagged(st, m) /\ q.tagsNot \intersect Tagged(st, m) = {}
    BY DEF MarketList
  <1>4. ASSUME NEW m \in Market, NEW d \in Dimension
        PROVE  /\ In(Dim[m][d], q.in[d]) = "true" <=> Dim[m][d] \in q.in[d]
               /\ Passes(m, d, q.out[d]) <=> Dim[m][d] \notin q.out[d]
    <2>1. In(Dim[m][d], q.in[d]) = "true" <=> Dim[m][d] \in q.in[d]
      BY <1>1, Membership
    <2>2. /\ In(Dim[m][d], q.out[d]) \in Truth
          /\ In(Dim[m][d], q.out[d]) = "true" <=> Dim[m][d] # None /\ Dim[m][d] \in q.out[d]
          /\ In(Dim[m][d], q.out[d]) = "unknown" <=> Dim[m][d] = None
      BY Membership
    <2>3. Not(In(Dim[m][d], q.out[d])) = "true" <=> In(Dim[m][d], q.out[d]) = "false"
      BY <2>2, Negation
    <2> QED BY <1>1, <2>1, <2>2, <2>3 DEF Passes, Truth
  <1>5. ASSUME NEW m \in Market
        PROVE  /\ OfContract(m, q.contract) = "true" <=> MatchesContract(m, q.contract)
               /\ Not(OfContract(m, q.contractNot)) = "true" => ~MatchesContract(m, q.contractNot)
               /\ ~MatchesContract(m, q.contractNot) =>
                     \/ Not(OfContract(m, q.contractNot)) = "true"
                     \/ /\ q.contractNot \intersect DOMAIN CycleOf # {}
                        /\ Contract[m] = "DATED" /\ Dim[m]["expiry"] = None
    <2>1. OfContract(m, q.contract) = "true" <=> MatchesContract(m, q.contract)
      BY <1>1, ContractMeans
    <2> DEFINE c == OfContract(m, q.contractNot)
    <2>2. /\ c \in Truth /\ (c = "true" <=> MatchesContract(m, q.contractNot))
          /\ c = "unknown" => /\ q.contractNot \intersect DOMAIN CycleOf # {}
                              /\ Contract[m] = "DATED" /\ Dim[m]["expiry"] = None
      BY <1>1, ContractMeans
    <2> HIDE DEF c
    <2>3. Not(c) = "true" <=> c = "false"
      BY <2>2, Negation
    <2>4. /\ Not(c) = "true" => ~MatchesContract(m, q.contractNot)
          /\ ~MatchesContract(m, q.contractNot) =>
                 \/ Not(c) = "true"
                 \/ /\ q.contractNot \intersect DOMAIN CycleOf # {}
                    /\ Contract[m] = "DATED" /\ Dim[m]["expiry"] = None
      BY <2>2, <2>3 DEF Truth
    <2> QED BY <2>1, <2>4 DEF c
  <1>6. ASSUME NEW m \in Market, NEW p
        PROVE  /\ Like(st, m, p) = "true" <=> NamesIn(st, m) \intersect Matches[p] # {}
               /\ Not(Like(st, m, p)) = "true" => NamesIn(st, m) \intersect Matches[p] = {}
               /\ NamesIn(st, m) \intersect Matches[p] = {} =>
                     Not(Like(st, m, p)) = "true" \/ st.rows[m].asset = None
    <2> DEFINE c == Like(st, m, p)
    <2>1. /\ c \in Truth /\ (c = "true" <=> NamesIn(st, m) \intersect Matches[p] # {})
          /\ (c = "unknown" => st.rows[m].asset = None)
      BY LikeMeans
    <2> HIDE DEF c
    <2>2. Not(c) = "true" <=> c = "false"
      BY <2>1, Negation
    <2>3. /\ c = "true" <=> NamesIn(st, m) \intersect Matches[p] # {}
          /\ Not(c) = "true" => NamesIn(st, m) \intersect Matches[p] = {}
          /\ NamesIn(st, m) \intersect Matches[p] = {} => Not(c) = "true" \/ st.rows[m].asset = None
      BY <2>1, <2>2 DEF Truth
    <2> QED BY <2>3 DEF c
  <1>7. ASSUME NEW a \in q.symbol, NEW b \in q.symbol, a # b
        PROVE  Cardinality(q.symbol) > 1
    <2>1. {a, b} \subseteq q.symbol /\ Cardinality({a, b}) = 2
      <3>1. IsFiniteSet({a}) /\ Cardinality({a}) = 1
        BY FS_Singleton
      <3>2. Cardinality({a} \union {b}) = Cardinality({a}) + 1
        BY <1>7, <3>1, FS_AddElement
      <3>3. {a, b} = {a} \union {b}
        OBVIOUS
      <3> QED BY <3>1, <3>2, <3>3
    <2>2. Cardinality({a, b}) <= Cardinality(q.symbol) /\ Cardinality(q.symbol) \in Nat
      BY <1>1, <2>1, FS_Subset, FS_CardinalityType
    <2> QED BY <2>1, <2>2
  <1> HIDE DEF Met
  <1>8. ASSUME NEW m \in MarketList(st, q)
        PROVE  m \in Admitted(st, q)
    <2>1. m \in Market
      BY DEF MarketList
    <2>2. q.symbol # {} => Met(m, q.symbol)
      BY <2>1, <1>3, <1>6 DEF Met
    <2>3. ~Met(m, q.symbolNot)
      BY <2>1, <1>3, <1>6 DEF Met
    <2>4. ~MatchesContract(m, q.contractNot)
      <3>1. CASE q.contractNot = {}
        BY <3>1 DEF MatchesContract
      <3>2. CASE q.contractNot # {}
        BY <3>2, <2>1, <1>3, <1>5
      <3> QED BY <3>1, <3>2
    <2>5. q.contract # {} => MatchesContract(m, q.contract)
      BY <2>1, <1>3, <1>5
    <2>6. \A d \in Dimension : (q.in[d] # {} => Dim[m][d] \in q.in[d]) /\ Dim[m][d] \notin q.out[d]
      BY <2>1, <1>3, <1>4
    <2> QED BY <2>1, <2>2, <2>3, <2>4, <2>5, <2>6, <1>2, <1>3
  <1>9. ASSUME NEW m \in Admitted(st, q), m \notin MarketList(st, q)
        PROVE  \/ Cardinality(q.symbol) > 1
               \/ q.symbolNot # {} /\ st.rows[m].asset = None
               \/ /\ q.contractNot \intersect DOMAIN CycleOf # {}
                  /\ Contract[m] = "DATED" /\ Dim[m]["expiry"] = None
    <2>1. m \in Market
      BY DEF Admitted
    <2>2. /\ \A d \in Dimension : q.in[d] # {} => In(Dim[m][d], q.in[d]) = "true"
          /\ \A d \in Dimension : q.out[d] # {} => Passes(m, d, q.out[d])
          /\ q.contract # {} => OfContract(m, q.contract) = "true"
          /\ ActiveFilter(st.rows[m].active, q)
          /\ q.tags \subseteq Tagged(st, m) /\ q.tagsNot \intersect Tagged(st, m) = {}
      BY <2>1, <1>2, <1>4, <1>5
    <2>3. \/ q.contractNot # {} /\ Not(OfContract(m, q.contractNot)) # "true"
          \/ \E p \in q.symbol : Like(st, m, p) # "true"
          \/ \E p \in q.symbolNot : Not(Like(st, m, p)) # "true"
      BY <1>9, <2>1, <2>2, <1>3
    <2>4. ASSUME NEW p \in q.symbol, Like(st, m, p) # "true"
          PROVE  Cardinality(q.symbol) > 1
      <3>1. PICK o \in q.symbol : NamesIn(st, m) \intersect Matches[o] # {}
        BY <2>1, <1>2 DEF Met
      <3>2. o # p
        BY <2>1, <2>4, <3>1, <1>6
      <3> QED BY <3>1, <3>2, <1>7
    <2>5. ASSUME NEW p \in q.symbolNot, Not(Like(st, m, p)) # "true"
          PROVE  q.symbolNot # {} /\ st.rows[m].asset = None
      <3>1. NamesIn(st, m) \intersect Matches[p] = {}
        BY <2>1, <1>2 DEF Met
      <3> QED BY <2>1, <2>5, <3>1, <1>6
    <2>6. ~MatchesContract(m, q.contractNot)
      BY <2>1, <1>2
    <2> QED BY <2>1, <2>3, <2>4, <2>5, <2>6, <1>5
  <1> QED BY <1>8, <1>9

\* A filter that only includes.
LEMMA ListedAlone ==
    ASSUME NEW st, NEW f, NEW m \in Market,
           f.active = {}, f.activeNot = {}, \A d \in Dimension : f.out[d] = {},
           f.contractNot = {}, f.symbolNot = {}, f.tagsNot = {}
    PROVE  m \in MarketList(st, f) <=>
               /\ st.rows[m].active
               /\ \A d \in Dimension : f.in[d] # {} => In(Dim[m][d], f.in[d]) = "true"
               /\ f.contract # {} => OfContract(m, f.contract) = "true"
               /\ \A p \in f.symbol : Like(st, m, p) = "true"
               /\ f.tags \subseteq Tagged(st, m)
  BY DEF MarketList, ActiveFilter

LEMMA ListedOfValue ==
    ASSUME NEW st, NEW m \in Market, NEW d \in Dimension, NEW v, v # None
    PROVE  m \in MarketList(st, [NoFilter EXCEPT !.in[d] = {v}]) <=>
               st.rows[m].active /\ Dim[m][d] = v
  <1> DEFINE f == [NoFilter EXCEPT !.in[d] = {v}]
  <1>1. /\ f.active = {} /\ f.activeNot = {} /\ \A c \in Dimension : f.out[c] = {}
        /\ f.contractNot = {} /\ f.symbolNot = {} /\ f.tagsNot = {}
        /\ f.contract = {} /\ f.symbol = {} /\ f.tags = {}
    BY DEF NoFilter
  <1>2. \A c \in Dimension : f.in[c] = IF c = d THEN {v} ELSE {}
    BY DEF NoFilter
  <1>3. In(Dim[m][d], {v}) = "true" <=> Dim[m][d] = v
    BY Membership
  <1> HIDE DEF f
  <1>4. m \in MarketList(st, f) <=>
            /\ st.rows[m].active
            /\ \A c \in Dimension : f.in[c] # {} => In(Dim[m][c], f.in[c]) = "true"
    BY <1>1, ListedAlone
  <1>5. (\A c \in Dimension : f.in[c] # {} => In(Dim[m][c], f.in[c]) = "true") <=> Dim[m][d] = v
    BY <1>2, <1>3
  <1>6. m \in MarketList(st, f) <=> st.rows[m].active /\ Dim[m][d] = v
    BY <1>4, <1>5
  <1> QED BY <1>6 DEF f

LEMMA ListedOfContract ==
    ASSUME NEW st, NEW m \in Market, NEW c \in Product
    PROVE  m \in MarketList(st, [NoFilter EXCEPT !.contract = {c}]) <=>
               st.rows[m].active /\ MatchesContract(m, {c})
  <1> DEFINE f == [NoFilter EXCEPT !.contract = {c}]
  <1>1. /\ f.active = {} /\ f.activeNot = {} /\ \A x \in Dimension : f.out[x] = {}
        /\ f.contractNot = {} /\ f.symbolNot = {} /\ f.tagsNot = {}
        /\ f.contract = {c} /\ f.symbol = {} /\ f.tags = {}
        /\ \A x \in Dimension : f.in[x] = {}
    BY DEF NoFilter
  <1>2. OfContract(m, {c}) = "true" <=> MatchesContract(m, {c})
    BY ContractMeans
  <1> HIDE DEF f
  <1>3. m \in MarketList(st, f) <=>
            st.rows[m].active /\ (f.contract # {} => OfContract(m, f.contract) = "true")
    BY <1>1, ListedAlone
  <1>4. m \in MarketList(st, f) <=> st.rows[m].active /\ MatchesContract(m, {c})
    BY <1>1, <1>2, <1>3
  <1> QED BY <1>4 DEF f

LEMMA ListedOfSymbol ==
    ASSUME NEW st, NEW m \in Market, NEW p
    PROVE  m \in MarketList(st, [NoFilter EXCEPT !.symbol = {p}]) <=>
               st.rows[m].active /\ Like(st, m, p) = "true"
  <1> DEFINE f == [NoFilter EXCEPT !.symbol = {p}]
  <1>1. /\ f.active = {} /\ f.activeNot = {} /\ \A x \in Dimension : f.out[x] = {}
        /\ f.contractNot = {} /\ f.symbolNot = {} /\ f.tagsNot = {}
        /\ f.contract = {} /\ f.symbol = {p} /\ f.tags = {}
        /\ \A x \in Dimension : f.in[x] = {}
    BY DEF NoFilter
  <1> HIDE DEF f
  <1>2. m \in MarketList(st, f) <=>
            st.rows[m].active /\ \A o \in f.symbol : Like(st, m, o) = "true"
    BY <1>1, ListedAlone
  <1>3. m \in MarketList(st, f) <=> st.rows[m].active /\ Like(st, m, p) = "true"
    BY <1>1, <1>2
  <1> QED BY <1>3 DEF f

LEMMA ListedOfTags ==
    ASSUME NEW st, NEW m \in Market, NEW ts
    PROVE  m \in MarketList(st, [NoFilter EXCEPT !.tags = ts]) <=>
               st.rows[m].active /\ ts \subseteq Tagged(st, m)
  <1> DEFINE f == [NoFilter EXCEPT !.tags = ts]
  <1>1. /\ f.active = {} /\ f.activeNot = {} /\ \A x \in Dimension : f.out[x] = {}
        /\ f.contractNot = {} /\ f.symbolNot = {} /\ f.tagsNot = {}
        /\ f.contract = {} /\ f.symbol = {} /\ f.tags = ts
        /\ \A x \in Dimension : f.in[x] = {}
    BY DEF NoFilter
  <1> HIDE DEF f
  <1>2. m \in MarketList(st, f) <=> st.rows[m].active /\ f.tags \subseteq Tagged(st, m)
    BY <1>1, ListedAlone
  <1>3. m \in MarketList(st, f) <=> st.rows[m].active /\ ts \subseteq Tagged(st, m)
    BY <1>1, <1>2
  <1> QED BY <1>3 DEF f

LEMMA ListedIncluded ==
    ASSUME NEW st, NEW m \in Market, NEW q, SensibleQuery(q)
    PROVE  m \in MarketList(st, [NoFilter EXCEPT !.in = q.in, !.contract = q.contract]) <=>
               st.rows[m].active /\ MatchesIncluded(m, q)
  <1> DEFINE f == [NoFilter EXCEPT !.in = q.in, !.contract = q.contract]
  <1>1. /\ f.active = {} /\ f.activeNot = {} /\ \A x \in Dimension : f.out[x] = {}
        /\ f.contractNot = {} /\ f.symbolNot = {} /\ f.tagsNot = {}
        /\ f.contract = q.contract /\ f.symbol = {} /\ f.tags = {} /\ f.in = q.in
    BY DEF NoFilter
  <1>2. q.contract \in SUBSET Product /\ \A d \in Dimension : None \notin q.in[d]
    BY ProductsAre DEF SensibleQuery
  <1>3. OfContract(m, q.contract) = "true" <=> MatchesContract(m, q.contract)
    BY <1>2, ContractMeans
  <1>4. \A d \in Dimension : In(Dim[m][d], q.in[d]) = "true" <=> Dim[m][d] \in q.in[d]
    BY <1>2, Membership
  <1> HIDE DEF f
  <1>5. m \in MarketList(st, f) <=>
            /\ st.rows[m].active
            /\ \A d \in Dimension : q.in[d] # {} => In(Dim[m][d], q.in[d]) = "true"
            /\ q.contract # {} => OfContract(m, q.contract) = "true"
    BY <1>1, ListedAlone
  <1>6. m \in MarketList(st, f) <=> st.rows[m].active /\ MatchesIncluded(m, q)
    BY <1>3, <1>4, <1>5 DEF MatchesIncluded
  <1> QED BY <1>6 DEF f

\* The rows that an asset page reads in a state of the store, and those of an asset.
RowsOf(st, q) ==
    LET mapped == {m \in Market : st.rows[m].active /\ st.rows[m].asset # None}
        like == {st.rows[m].asset : m \in {n \in mapped :
                    \E p \in q.symbol : Like(st, n, p) = "true"}}
    IN  {[market |-> m, asset |-> st.rows[m].asset] : m \in
            {n \in mapped : q.symbol # {} => st.rows[n].asset \in like}}
MarketsOf(rs, a) == {r.market : r \in {s \in rs : s.asset = a}}

\* The active markets of an asset.
Own(st, a) == {m \in Market : st.rows[m].active /\ st.rows[m].asset = a}

LEMMA MarketsRead ==
    ASSUME NEW st, NEW q, NEW a, a # None
    PROVE  /\ MarketsOf(RowsOf(st, q), a) \subseteq Own(st, a)
           /\ \/ q.symbol = {}
              \/ \E m \in Own(st, a), p \in q.symbol : Like(st, m, p) = "true"
              => MarketsOf(RowsOf(st, q), a) = Own(st, a)
           /\ ~(\/ q.symbol = {}
                \/ \E m \in Own(st, a), p \in q.symbol : Like(st, m, p) = "true")
              => MarketsOf(RowsOf(st, q), a) = {}
  <1> DEFINE mapped == {m \in Market : st.rows[m].active /\ st.rows[m].asset # None}
             like == {st.rows[m].asset : m \in {n \in mapped :
                         \E p \in q.symbol : Like(st, n, p) = "true"}}
             kept == {n \in mapped : q.symbol # {} => st.rows[n].asset \in like}
  <1>1. RowsOf(st, q) = {[market |-> m, asset |-> st.rows[m].asset] : m \in kept}
    BY DEF RowsOf
  <1>2. a \in like <=> \E m \in Own(st, a), p \in q.symbol : Like(st, m, p) = "true"
    BY DEF Own
  <1> HIDE DEF like
  <1>3. \A m : m \in kept /\ st.rows[m].asset = a <=>
                   m \in Own(st, a) /\ (q.symbol # {} => a \in like)
    BY DEF Own
  <1> HIDE DEF kept
  <1>4. \A m : m \in MarketsOf(RowsOf(st, q), a) <=> m \in kept /\ st.rows[m].asset = a
    <2> DEFINE row(m) == [market |-> m, asset |-> st.rows[m].asset]
    <2>1. \A m : m \in MarketsOf(RowsOf(st, q), a) <=>
                    \E r : r \in RowsOf(st, q) /\ r.asset = a /\ r.market = m
      BY DEF MarketsOf
    <2>2. \A r : r \in RowsOf(st, q) <=> \E m \in kept : r = row(m)
      BY <1>1
    <2>3. \A m : row(m).market = m /\ row(m).asset = st.rows[m].asset
      OBVIOUS
    <2> HIDE DEF row
    <2> QED BY <2>1, <2>2, <2>3
  <1> QED BY <1>2, <1>3, <1>4

\* What an asset page lists in one state of the store is what its filters mean there.
LEMMA AssetsAreMeant ==
    ASSUME NEW st, SensibleStore(st), NEW q, SensibleQuery(q), NEW a \in Asset
    PROVE  Listed(a, MarketsOf(RowsOf(st, q), a), q, st.tags, st.loans) <=> a \in Meant(st, q)
  <1> DEFINE some(f) == {st.rows[m].asset : m \in MarketList(st, f)}
             included == MarketList(st, [NoFilter EXCEPT !.in = q.in, !.contract = q.contract])
             matching == {m \in Own(st, a) : MatchesIncluded(m, q)}
             futures == {m \in matching : Dim[m]["type"] = "FUTURE"}
             venues == {Dim[m]["venue"] : m \in futures}
             keys == Borrowable(st.loans, a)
             ownTags == {t \in Tag : <<a, t>> \in st.tags}
             of == MarketsOf(RowsOf(st, q), a)
             mine == Own(st, a)
             ofValue(d, v) == [NoFilter EXCEPT !.in[d] = {v}]
  <1>0. /\ a # None
        /\ \A d \in Dimension : None \notin q.in[d] /\ None \notin q.out[d]
        /\ q.contract \in SUBSET Product /\ q.contractNot \in SUBSET Product
    BY ListingAssumption, ProductsAre DEF SensibleQuery, SensibleCatalog
  \* In terms of the asset's markets.
  <1>1. \A m : m \in included /\ st.rows[m].asset = a <=> m \in matching
    <2>1. included \subseteq Market
      BY DEF MarketList
    <2>2. \A m \in Market : m \in included <=> st.rows[m].active /\ MatchesIncluded(m, q)
      BY ListedIncluded
    <2> QED BY <2>1, <2>2 DEF Own
  <1>2. a \in {st.rows[m].asset : m \in included} \ {None} <=> matching # {}
    BY <1>0, <1>1
  <1>3. {Dim[m]["venue"] : m \in {n \in included : st.rows[n].asset = a /\ Dim[n]["type"] = "FUTURE"}}
            = venues
    BY <1>1
  <1>4. ASSUME NEW f
        PROVE  a \in some(f) <=> \E m \in Market : m \in MarketList(st, f) /\ st.rows[m].asset = a
    <2>1. MarketList(st, f) \subseteq Market
      BY DEF MarketList
    <2> QED BY <2>1
  <1>5. ASSUME NEW d \in Dimension, NEW v, v # None
        PROVE  a \in some(ofValue(d, v)) <=> \E m \in mine : Dim[m][d] = v
    <2>1. \A m \in Market : m \in MarketList(st, ofValue(d, v)) <=> st.rows[m].active /\ Dim[m][d] = v
      BY <1>5, ListedOfValue
    <2> HIDE DEF ofValue, some
    <2> QED BY <1>4, <2>1 DEF Own
  <1>6. ASSUME NEW c \in Product
        PROVE  a \in some([NoFilter EXCEPT !.contract = {c}]) <=> \E m \in mine : MatchesContract(m, {c})
    BY <1>4, ListedOfContract DEF Own
  <1>7. ASSUME NEW p
        PROVE  a \in some([NoFilter EXCEPT !.symbol = {p}]) <=> \E m \in mine : Like(st, m, p) = "true"
    BY <1>4, ListedOfSymbol DEF Own
  <1>8. ASSUME NEW ts
        PROVE  a \in some([NoFilter EXCEPT !.tags = ts]) <=> mine # {} /\ ts \subseteq ownTags
    <2>1. \A m \in mine : Tagged(st, m) = ownTags
      BY DEF Own, Tagged
    <2>2. a \in some([NoFilter EXCEPT !.tags = ts]) <=> \E m \in mine : ts \subseteq Tagged(st, m)
      BY <1>4, ListedOfTags DEF Own
    <2> QED BY <2>1, <2>2
  \* What is meant, clause by clause.
  <1>10. a \in Meant(st, q) <=>
           /\ matching # {}
           /\ \A d \in Dimension : \A v \in q.out[d] : a \notin some(ofValue(d, v))
           /\ \A c \in q.contractNot : a \notin some([NoFilter EXCEPT !.contract = {c}])
           /\ q.symbol # {} => \E p \in q.symbol : a \in some([NoFilter EXCEPT !.symbol = {p}])
           /\ \A p \in q.symbolNot : a \notin some([NoFilter EXCEPT !.symbol = {p}])
           /\ a \in some([NoFilter EXCEPT !.tags = q.tags])
           /\ \A t \in q.tagsNot : a \notin some([NoFilter EXCEPT !.tags = {t}])
           /\ q.stock # {} => (a \in Stock) \in q.stock
           /\ (a \in Stock) \notin q.stockNot
           /\ q.financing \subseteq keys /\ q.financingNot \intersect keys = {}
           /\ q.futures \subseteq venues /\ q.futuresNot \intersect venues = {}
           /\ q.contract \union q.futures \union q.futuresNot # {} => venues # {}
    BY <1>2, <1>3, Zenon DEF Meant, Borrowable
  \* What is listed, clause by clause.
  <1> DEFINE Clauses(ms, fs, vs) ==
           /\ ms # {}
           /\ \A d \in Dimension : \A v \in q.out[d] : ~\E m \in mine : Dim[m][d] = v
           /\ \A c \in q.contractNot : ~\E m \in mine : MatchesContract(m, {c})
           /\ q.symbol # {} => \E p \in q.symbol, m \in mine : Like(st, m, p) = "true"
           /\ ~\E p \in q.symbolNot, m \in mine : Like(st, m, p) = "true"
           /\ mine # {} /\ q.tags \subseteq ownTags
           /\ \A t \in q.tagsNot : ~(mine # {} /\ {t} \subseteq ownTags)
           /\ q.stock # {} => (a \in Stock) \in q.stock
           /\ (a \in Stock) \notin q.stockNot
           /\ q.financing \subseteq keys /\ q.financingNot \intersect keys = {}
           /\ q.futures \subseteq vs /\ q.futuresNot \intersect vs = {}
           /\ q.contract \union q.futures \union q.futuresNot # {} => fs # {}
  <1>11. a \in Meant(st, q) <=> Clauses(matching, venues, venues)
    <2> HIDE DEF some, matching, venues, keys, mine, ownTags, ofValue
    <2>1. (\A d \in Dimension : \A v \in q.out[d] : a \notin some(ofValue(d, v)))
            <=> \A d \in Dimension : \A v \in q.out[d] : ~\E m \in mine : Dim[m][d] = v
      BY <1>0, <1>5
    <2>2. (\A c \in q.contractNot : a \notin some([NoFilter EXCEPT !.contract = {c}]))
            <=> \A c \in q.contractNot : ~\E m \in mine : MatchesContract(m, {c})
      BY <1>0, <1>6
    <2>3. /\ (\E p \in q.symbol : a \in some([NoFilter EXCEPT !.symbol = {p}]))
              <=> \E p \in q.symbol, m \in mine : Like(st, m, p) = "true"
          /\ (\A p \in q.symbolNot : a \notin some([NoFilter EXCEPT !.symbol = {p}]))
              <=> ~\E p \in q.symbolNot, m \in mine : Like(st, m, p) = "true"
      BY <1>7
    <2>4. /\ a \in some([NoFilter EXCEPT !.tags = q.tags]) <=> mine # {} /\ q.tags \subseteq ownTags
          /\ (\A t \in q.tagsNot : a \notin some([NoFilter EXCEPT !.tags = {t}]))
              <=> \A t \in q.tagsNot : ~(mine # {} /\ {t} \subseteq ownTags)
      BY <1>8
    <2> QED BY <1>10, <2>1, <2>2, <2>3, <2>4
  <1>12. venues = {} <=> futures = {}
    OBVIOUS
  <1>13. Listed(a, mine, q, st.tags, st.loans) <=>
            /\ mine # {}
            /\ q.financing \subseteq keys /\ q.financingNot \intersect keys = {}
            /\ q.tags \subseteq ownTags /\ q.tagsNot \intersect ownTags = {}
            /\ q.stock # {} => (a \in Stock) \in q.stock
            /\ (a \in Stock) \notin q.stockNot
            /\ ~\E m \in mine : MatchesContract(m, q.contractNot)
            /\ ~\E m \in mine, d \in Dimension : Dim[m][d] \in q.out[d]
            /\ (q.contract # {} \/ \E d \in Dimension : q.in[d] # {}) => matching # {}
            /\ q.contract \union q.futures \union q.futuresNot # {} => futures # {}
            /\ q.futures \subseteq venues /\ q.futuresNot \intersect venues = {}
            /\ q.symbol # {} => MatchesSymbol(a, mine, q.symbol)
            /\ ~MatchesSymbol(a, mine, q.symbolNot)
    BY Zenon DEF Listed
  <1>14. ASSUME mine # {}, NEW patterns
         PROVE  MatchesSymbol(a, mine, patterns) <=>
                    \E p \in patterns, m \in mine : Like(st, m, p) = "true"
    <2>1. \A m \in mine : m \in Market /\ st.rows[m].asset = a
      BY DEF Own
    <2>2. \A m \in mine : \A p : Like(st, m, p) = "true" <=>
              \E name \in Names[m] \union {Canonical[a]} : name \in Matches[p]
      <3> SUFFICES ASSUME NEW m \in mine, NEW p
                   PROVE  Like(st, m, p) = "true" <=>
                              \E name \in Names[m] \union {Canonical[a]} : name \in Matches[p]
        OBVIOUS
      <3>1. NamesIn(st, m) = Names[m] \union {Canonical[a]}
        BY <2>1, <1>0 DEF NamesIn
      <3>2. Like(st, m, p) = "true" <=> NamesIn(st, m) \intersect Matches[p] # {}
        BY <2>1, LikeMeans
      <3> QED BY <3>1, <3>2
    <2>3. MatchesSymbol(a, mine, patterns) <=>
              \E p \in patterns : \/ Canonical[a] \in Matches[p]
                                  \/ \E m \in mine : \E name \in Names[m] : name \in Matches[p]
      BY DEF MatchesSymbol
    <2> HIDE DEF mine
    <2> QED BY <2>2, <2>3, <1>14
  <1>15. (\E m \in mine : MatchesContract(m, q.contractNot))
            <=> \E c \in q.contractNot : \E m \in mine : MatchesContract(m, {c})
    BY DEF MatchesContract
  <1>16. (q.contract # {} \/ \E d \in Dimension : q.in[d] # {}) \/ matching = mine
    BY DEF MatchesIncluded
  <1>17. CASE \/ q.symbol = {}
              \/ \E m \in Own(st, a), p \in q.symbol : Like(st, m, p) = "true"
    <2>1. of = mine
      BY <1>0, <1>17, MarketsRead
    <2>2. Listed(a, mine, q, st.tags, st.loans) <=> Clauses(matching, futures, venues)
      <3>1. matching \subseteq mine
        OBVIOUS
      <3>2. (q.tagsNot \intersect ownTags = {}) <=> \A t \in q.tagsNot : ~({t} \subseteq ownTags)
        OBVIOUS
      <3>3. (~\E m \in mine, d \in Dimension : Dim[m][d] \in q.out[d])
               <=> \A d \in Dimension : \A v \in q.out[d] : ~\E m \in mine : Dim[m][d] = v
        BY Zenon
      <3> HIDE DEF some, matching, venues, keys, mine, ownTags, futures
      <3> QED BY <3>1, <3>2, <3>3, <1>13, <1>14, <1>15, <1>16
    <2>3. Clauses(matching, futures, venues) <=> Clauses(matching, venues, venues)
      <3> HIDE DEF some, matching, venues, keys, mine, ownTags, futures
      <3> QED BY <1>12
    <2> HIDE DEF Clauses, matching, venues, futures, of, mine
    <2> QED BY <2>1, <2>2, <2>3, <1>11 DEF of
  <1>18. CASE ~(\/ q.symbol = {}
               \/ \E m \in Own(st, a), p \in q.symbol : Like(st, m, p) = "true")
    <2>1. of = {}
      BY <1>0, <1>18, MarketsRead
    <2>2. ~Listed(a, {}, q, st.tags, st.loans)
      BY DEF Listed
    <2>3. ~Clauses(matching, venues, venues)
      BY <1>18
    <2> HIDE DEF Clauses, matching, venues, futures, of
    <2> QED BY <2>1, <2>2, <2>3, <1>11 DEF of
  <1> QED BY <1>17, <1>18

-----------------------------------------------------------------------------
(* The invariant: what each statement of a page has returned is what it returns in a *)
(* state that the store has been in since the page was asked for.                    *)

\* A state of the store.
Sane(st) ==
    /\ st = [rows |-> st.rows, tags |-> st.tags, loans |-> st.loans, complete |-> st.complete,
             runs |-> st.runs, log |-> st.log]
    /\ SensibleStore(st)

\* What each statement returns, as operators of the state it is read in.
AssetsOf(r, t, l, q) ==
    {a \in Asset : Listed(a, MarketsOf(RowsOf(r, q), a), q, t.tags, l.loans)}

ValuesOf(st, kind) ==
    LET active == {m \in Market : st.rows[m].active}
    IN  CASE kind = "futures" ->
                IF st.complete # {} THEN st.complete
                ELSE {Dim[m]["venue"] : m \in {n \in active : Dim[n]["type"] = "FUTURE"}}
          [] kind = "tags" -> {t \in Tag : \E a \in Asset : <<a, t>> \in st.tags}
          [] kind = "financing" -> {l.key : l \in {k \in st.loans : k.role = "BORROWABLE"}}
          [] OTHER -> {Dim[m][kind] : m \in {n \in active : kind = "expiry" => Dim[n]["type"] = "FUTURE"}}
                          \ {None}

ShownIn(st, m) == IF st.rows[m].asset = None THEN Base[m] ELSE Canonical[st.rows[m].asset]
MarketChanges(st, of, q) ==
    {e \in Changed(st) :
        /\ ~OfTag(e) /\ e.run \in of
        /\ Filters(q) => Keeps(e, {ShownIn(st, e.of), Raw[e.of]}, Contract[e.of], q)}
TagChanges(st, of, q) ==
    {e \in Changed(st) :
        /\ OfTag(e) /\ e.run \in of
        /\ Filters(q) => Keeps(e, {Canonical[e.of[1]]}, None, q)}

\* What a page that is at its statement `what' has gathered, of the states it was read in.
GatheredIn(states, what, q, g) ==
    /\ what = "tags" => \E r \in states : g = [rows |-> RowsOf(r, q)]
    /\ what = "financing" => \E r, t \in states : g = [rows |-> RowsOf(r, q), tags |-> t.tags]
    /\ what = "details" => \E r, t, l \in states :
          g = [rows |-> RowsOf(r, q), tags |-> t.tags, loans |-> l.loans, assets |-> AssetsOf(r, t, l, q)]
    /\ what = "metadata" =>
          /\ \E n \in 0 .. Len(Kinds) - 1 :
                Cardinality(DOMAIN g) = n /\ DOMAIN g = {Kinds[i] : i \in 1 .. n}
          /\ IsFiniteSet(DOMAIN g)
          /\ \A k \in DOMAIN g : \E st \in states : g[k] = ValuesOf(st, k)
    /\ what = "runs" => \E s \in states : g = [count |-> Cardinality(Selected(s, q))]
    /\ what = "changes" => \E s, r \in states :
          g = [count |-> Cardinality(Selected(s, q)), runs |-> Selected(r, q)]
    /\ what = "tagged" => \E s, r, c \in states :
          g = [count |-> Cardinality(Selected(s, q)), runs |-> Selected(r, q),
               changes |-> MarketChanges(c, Selected(r, q), q)]

\* The history has the present store, and no log that has lost a change since.
StoresRemembered ==
    /\ Sane(Store)
    /\ page # "none" => Store \in during
    /\ \A st \in during : Sane(st) /\ st.log \subseteq log
Asked ==
    /\ page \in {"markets", "assets", "tags", "financing", "details"} => query \in Query
    /\ page \in {"log", "runs", "changes", "tagged"} => query \in LogQuery
Gathered == GatheredIn(during, page, query, got)

ListingIInv ==
    /\ StoresRemembered
    /\ Asked
    /\ Gathered
    /\ AssetsMeanTheirFilters
    /\ MarketsMeanTheirFilters
    /\ MetadataOffers
    /\ LogMeansItsFilter

-----------------------------------------------------------------------------
(* The writers. *)

LEMMA GatheredGrows ==
    ASSUME NEW states, NEW more, states \subseteq more, NEW what, NEW q, NEW g,
           GatheredIn(states, what, q, g)
    PROVE  GatheredIn(more, what, q, g)
  <1>1. what = "tags" => \E r \in more : g = [rows |-> RowsOf(r, q)]
    BY DEF GatheredIn
  <1>2. what = "financing" => \E r, t \in more : g = [rows |-> RowsOf(r, q), tags |-> t.tags]
    BY Zenon DEF GatheredIn
  <1>3. what = "details" => \E r, t, l \in more :
            g = [rows |-> RowsOf(r, q), tags |-> t.tags, loans |-> l.loans, assets |-> AssetsOf(r, t, l, q)]
    BY Zenon DEF GatheredIn
  <1>4. what = "metadata" =>
            /\ \E n \in 0 .. Len(Kinds) - 1 :
                  Cardinality(DOMAIN g) = n /\ DOMAIN g = {Kinds[i] : i \in 1 .. n}
            /\ IsFiniteSet(DOMAIN g)
            /\ \A k \in DOMAIN g : \E st \in more : g[k] = ValuesOf(st, k)
    BY Zenon DEF GatheredIn
  <1>5. what = "runs" => \E s \in more : g = [count |-> Cardinality(Selected(s, q))]
    BY Zenon DEF GatheredIn
  <1>6. what = "changes" => \E s, r \in more :
            g = [count |-> Cardinality(Selected(s, q)), runs |-> Selected(r, q)]
    BY Zenon DEF GatheredIn
  <1>7. what = "tagged" => \E s, r, c \in more :
            g = [count |-> Cardinality(Selected(s, q)), runs |-> Selected(r, q),
                 changes |-> MarketChanges(c, Selected(r, q), q)]
    BY Zenon DEF GatheredIn
  <1> QED BY <1>1, <1>2, <1>3, <1>4, <1>5, <1>6, <1>7, Zenon DEF GatheredIn

LEMMA StoreIs ==
    /\ Store.rows = rows /\ Store.tags = tags /\ Store.loans = loans
    /\ Store.complete = complete /\ Store.runs = runs /\ Store.log = log
    /\ Store = [rows |-> Store.rows, tags |-> Store.tags, loans |-> Store.loans,
                complete |-> Store.complete, runs |-> Store.runs, log |-> Store.log]
  BY DEF Store

LEMMA StoreIsSane ==
    Sane(Store) <=>
        /\ rows \in [Market -> [active : BOOLEAN, asset : Asset \union {None}]]
        /\ IsFiniteSet(DOMAIN runs)
        /\ \A e \in log : e.day \in Int /\ (OfTag(e) \/ e.of \in Market)
  BY StoreIs DEF Sane, SensibleStore

LEMMA StoreStaysSane ==
    ASSUME rows' \in [Market -> [active : BOOLEAN, asset : Asset \union {None}]],
           IsFiniteSet(DOMAIN runs'),
           \A e \in log' : e.day \in Int /\ (OfTag(e) \/ e.of \in Market)
    PROVE  Sane(Store)'
  <1>1. /\ Store'.rows = rows' /\ Store'.runs = runs' /\ Store'.log = log'
        /\ Store' = [rows |-> Store'.rows, tags |-> Store'.tags, loans |-> Store'.loans,
                     complete |-> Store'.complete, runs |-> Store'.runs, log |-> Store'.log]
    BY DEF Store
  <1>2. Sane(Store')
    BY <1>1 DEF Sane, SensibleStore
  <1> QED BY <1>2

LEMMA ListingInitially == ASSUME ListingInit PROVE ListingIInv
  <1>1. PICK st \in Start : /\ rows = st.rows /\ tags = st.tags
                            /\ loans = st.loans /\ complete = st.complete
                            /\ runs = st.runs /\ log = st.log
    BY DEF ListingInit
  <1>2. SensibleStore(st)
    BY ListingAssumption
  <1>3. Sane(Store)
    BY <1>1, <1>2, StoreIsSane DEF SensibleStore
  <1>4. page = "none" /\ during = {}
    BY DEF ListingInit
  <1>5. StoresRemembered
    BY <1>3, <1>4 DEF StoresRemembered
  <1>6. Asked
    BY <1>4 DEF Asked
  <1>7. Gathered
    BY <1>4 DEF Gathered, GatheredIn
  <1> QED BY <1>4, <1>5, <1>6, <1>7 DEF ListingIInv, AssetsMeanTheirFilters,
             MarketsMeanTheirFilters, MetadataOffers, LogMeansItsFilter

\* A commit leaves a page what its statements have returned.
LEMMA WritingKeeps ==
    ASSUME ListingIInv, Writing, Sane(Store)', log \subseteq log'
    PROVE  ListingIInv'
  <1>1. /\ page # "end" /\ page' = page /\ query' = query /\ got' = got
        /\ during' = IF page = "none" THEN {} ELSE during \union {Store'}
    BY DEF Writing, reader
  <1>2. StoresRemembered'
    <2>1. page' # "none" => Store' \in during'
      BY <1>1
    <2>2. ASSUME NEW st \in during'
          PROVE  Sane(st) /\ st.log \subseteq log'
      <3>1. CASE st \in during
        BY <3>1 DEF ListingIInv, StoresRemembered
      <3>2. CASE st = Store'
        <4>1. Store'.log = log'
          BY DEF Store
        <4> QED BY <3>2, <4>1
      <3> QED BY <1>1, <2>2, <3>1, <3>2
    <2> QED BY <2>1, <2>2 DEF StoresRemembered
  <1>3. Asked'
    BY <1>1 DEF ListingIInv, Asked
  <1>4. Gathered'
    <2>1. CASE page = "none"
      BY <1>1, <2>1 DEF Gathered, GatheredIn
    <2>2. CASE page # "none"
      <3>1. during \subseteq during' /\ GatheredIn(during, page, query, got)
        BY <1>1, <2>2 DEF ListingIInv, Gathered
      <3>2. GatheredIn(during', page, query, got)
        BY <3>1, GatheredGrows
      <3> QED BY <1>1, <3>2 DEF Gathered
    <2> QED BY <2>1, <2>2
  <1> QED BY <1>1, <1>2, <1>3, <1>4 DEF ListingIInv, AssetsMeanTheirFilters,
             MarketsMeanTheirFilters, MetadataOffers, LogMeansItsFilter

LEMMA RunKeeps ==
    ASSUME Sane(Store), NEW run, NEW venue, Run(run, venue)
    PROVE  IsFiniteSet(DOMAIN runs')
  <1>1. DOMAIN runs' = DOMAIN runs \union {run}
    BY DEF Run
  <1>2. IsFiniteSet(DOMAIN runs)
    BY StoreIsSane
  <1> QED BY <1>1, <1>2, FS_AddElement

LEMMA ChangeIsOfADay ==
    ASSUME NEW run \in Int, NEW kind, NEW of
    PROVE  LET e == Change(run, kind, of) IN e.day \in Int /\ e.of = of /\ e.kind = kind
  BY DEF Change

LEMMA LastRunIsInt ==
    ASSUME Sane(Store)
    PROVE  LastRun \in Int
  <1>1. Cardinality(DOMAIN runs) \in Nat
    BY StoreIsSane, FS_CardinalityType
  <1> QED BY <1>1 DEF LastRun

LEMMA CollectKeeps ==
    ASSUME ListingIInv, NEW run \in {LastRun, LastRun + 1}, NEW m \in Market, Collect(m, run)
    PROVE  ListingIInv'
  <1>0. /\ Sane(Store) /\ run \in Int
    BY LastRunIsInt DEF ListingIInv, StoresRemembered
  <1>1. rows \in [Market -> [active : BOOLEAN, asset : Asset \union {None}]]
    BY <1>0, StoreIsSane
  <1>2. rows' \in [Market -> [active : BOOLEAN, asset : Asset \union {None}]]
    <2>1. rows' = [rows EXCEPT ![m] = [rows[m] EXCEPT !.active = ~rows[m].active]]
      BY DEF Collect
    <2>2. [rows[m] EXCEPT !.active = ~rows[m].active] \in [active : BOOLEAN, asset : Asset \union {None}]
      BY <1>1
    <2> QED BY <1>1, <2>1, <2>2
  <1>3. IsFiniteSet(DOMAIN runs')
    BY <1>0, RunKeeps DEF Collect
  <1>4. PICK kind : log' = log \union {Change(run, kind, m)}
    BY DEF Collect
  <1>5. \A e \in log' : e.day \in Int /\ (OfTag(e) \/ e.of \in Market)
    BY <1>0, <1>4, StoreIsSane, ChangeIsOfADay
  <1>6. Sane(Store)'
    BY <1>2, <1>3, <1>5, StoreStaysSane
  <1>7. Writing
    BY DEF Collect
  <1> QED BY <1>4, <1>6, <1>7, WritingKeeps

LEMMA ConfirmKeeps ==
    ASSUME ListingIInv, NEW run, NEW venue, Confirm(venue, run)
    PROVE  ListingIInv'
  <1>0. Sane(Store)
    BY DEF ListingIInv, StoresRemembered
  <1>1. IsFiniteSet(DOMAIN runs')
    BY <1>0, RunKeeps DEF Confirm
  <1>2. rows' = rows /\ log' = log
    BY DEF Confirm, catalog
  <1>3. /\ rows' \in [Market -> [active : BOOLEAN, asset : Asset \union {None}]]
        /\ \A e \in log' : e.day \in Int /\ (OfTag(e) \/ e.of \in Market)
    BY <1>0, <1>2, StoreIsSane
  <1>4. Sane(Store)'
    BY <1>1, <1>3, StoreStaysSane
  <1> QED BY <1>2, <1>4, WritingKeeps DEF Confirm

LEMMA FinanceKeeps ==
    ASSUME ListingIInv, NEW loan, Finance(loan)
    PROVE  ListingIInv'
  <1>0. Sane(Store)
    BY DEF ListingIInv, StoresRemembered
  <1>1. rows' = rows /\ log' = log /\ runs' = runs
    BY DEF Finance
  <1>2. /\ rows' \in [Market -> [active : BOOLEAN, asset : Asset \union {None}]]
        /\ IsFiniteSet(DOMAIN runs')
        /\ \A e \in log' : e.day \in Int /\ (OfTag(e) \/ e.of \in Market)
    BY <1>0, <1>1, StoreIsSane
  <1>3. Sane(Store)'
    BY <1>2, StoreStaysSane
  <1> QED BY <1>1, <1>3, WritingKeeps DEF Finance

LEMMA RemapKeeps ==
    ASSUME ListingIInv, NEW m \in Market, NEW a \in Asset, Remap(m, a)
    PROVE  ListingIInv'
  <1>0. Sane(Store)
    BY DEF ListingIInv, StoresRemembered
  <1>1. /\ rows' = [rows EXCEPT ![m] = [rows[m] EXCEPT !.asset = a]] /\ log' = log /\ runs' = runs
    BY DEF Remap
  <1>2. rows' \in [Market -> [active : BOOLEAN, asset : Asset \union {None}]]
    <2>1. rows \in [Market -> [active : BOOLEAN, asset : Asset \union {None}]]
      BY <1>0, StoreIsSane
    <2>2. [rows[m] EXCEPT !.asset = a] \in [active : BOOLEAN, asset : Asset \union {None}]
      BY <2>1
    <2> QED BY <1>1, <2>1, <2>2
  <1>3. /\ IsFiniteSet(DOMAIN runs')
        /\ \A e \in log' : e.day \in Int /\ (OfTag(e) \/ e.of \in Market)
    BY <1>0, <1>1, StoreIsSane
  <1>4. Sane(Store)'
    BY <1>2, <1>3, StoreStaysSane
  <1> QED BY <1>1, <1>4, WritingKeeps DEF Remap

LEMMA RetagKeeps ==
    ASSUME ListingIInv, NEW tag, Retag(tag)
    PROVE  ListingIInv'
  <1>0. Sane(Store) /\ LastRun \in Int
    BY LastRunIsInt DEF ListingIInv, StoresRemembered
  <1>1. rows' = rows /\ runs' = runs
    BY DEF Retag
  <1>2. PICK kind \in {"REMOVED", "ADDED"} : log' = log \union {Change(LastRun, kind, tag)}
    BY DEF Retag
  <1>3. \A e \in log' : e.day \in Int /\ (OfTag(e) \/ e.of \in Market)
    <2>1. LET e == Change(LastRun, kind, tag) IN e.day \in Int /\ OfTag(e)
      BY <1>0, <1>2, ChangeIsOfADay DEF OfTag
    <2>2. \A e \in log : e.day \in Int /\ (OfTag(e) \/ e.of \in Market)
      BY <1>0, StoreIsSane
    <2> QED BY <1>2, <2>1, <2>2
  <1>4. /\ rows' \in [Market -> [active : BOOLEAN, asset : Asset \union {None}]]
        /\ IsFiniteSet(DOMAIN runs')
    BY <1>0, <1>1, StoreIsSane
  <1>5. Sane(Store)'
    BY <1>3, <1>4, StoreStaysSane
  <1>6. Writing
    BY DEF Retag
  <1> QED BY <1>2, <1>5, <1>6, WritingKeeps

-----------------------------------------------------------------------------
(* The readers. *)

LEMMA KindsAre ==
    /\ Len(Kinds) = 3 + Len(Columns) /\ Len(Columns) \in Nat
    /\ Kinds[1] = "futures" /\ Kinds[2] = "tags" /\ Kinds[3] = "financing"
    /\ \A i \in DOMAIN Columns : Kinds[i + 3] = Columns[i]
    /\ DOMAIN Columns = 1 .. Len(Columns)
  <1>1. Columns \in Seq(Dimension)
    BY ListingAssumption
  <1> QED BY <1>1 DEF Kinds

LEMMA KindsDiffer ==
    ASSUME NEW i \in 1 .. Len(Kinds), NEW j \in 1 .. Len(Kinds), Kinds[i] = Kinds[j]
    PROVE  i = j
  <1>1. /\ Columns \in Seq(Dimension)
        /\ \A x, y \in DOMAIN Columns : Columns[x] = Columns[y] => x = y
        /\ Dimension \intersect {"futures", "tags", "financing"} = {}
    BY ListingAssumption
  <1>2. ASSUME NEW x \in 1 .. Len(Kinds), x > 3
        PROVE  /\ x - 3 \in DOMAIN Columns /\ Kinds[x] = Columns[x - 3]
               /\ Kinds[x] \in Dimension
    <2>1. x - 3 \in DOMAIN Columns /\ (x - 3) + 3 = x
      BY <1>2, KindsAre
    <2>2. Kinds[x] = Columns[x - 3]
      BY <2>1, KindsAre
    <2> QED BY <1>1, <2>1, <2>2
  <1>3. ASSUME NEW x \in 1 .. Len(Kinds), ~(x > 3)
        PROVE  /\ x \in {1, 2, 3} /\ Kinds[x] \in {"futures", "tags", "financing"}
    <2>1. x \in {1, 2, 3}
      BY <1>3, KindsAre
    <2> QED BY <2>1, KindsAre
  <1>4. CASE i > 3 /\ j > 3
    <2>1. Columns[i - 3] = Columns[j - 3]
      BY <1>2, <1>4
    <2>2. i - 3 = j - 3
      BY <1>1, <1>2, <1>4, <2>1
    <2> QED BY <2>2, KindsAre
  <1>5. CASE ~(i > 3) /\ ~(j > 3)
    BY <1>3, <1>5, KindsAre
  <1> QED BY <1>1, <1>2, <1>3, <1>4, <1>5

LEMMA KindsCover ==
    {Kinds[i] : i \in 1 .. Len(Kinds)} = {"futures", "tags", "financing"} \union Dimension
  <1>1. Columns \in Seq(Dimension)
    BY ListingAssumption
  <1>2. ASSUME NEW x \in 1 .. Len(Kinds)
        PROVE  Kinds[x] \in {"futures", "tags", "financing"} \union Dimension
    <2>1. CASE x \in {1, 2, 3}
      BY <2>1, KindsAre
    <2>2. CASE x \notin {1, 2, 3}
      <3>1. x - 3 \in DOMAIN Columns /\ (x - 3) + 3 = x
        BY <2>2, KindsAre
      <3>2. Kinds[x] = Columns[x - 3]
        BY <3>1, KindsAre
      <3> QED BY <1>1, <3>1, <3>2
    <2> QED BY <2>1, <2>2
  <1>3. ASSUME NEW d \in Dimension
        PROVE  \E x \in 1 .. Len(Kinds) : Kinds[x] = d
    <2>1. PICK i \in DOMAIN Columns : Columns[i] = d
      BY DEF Dimension
    <2>2. i + 3 \in 1 .. Len(Kinds)
      BY KindsAre
    <2> QED BY <2>1, <2>2, KindsAre
  <1>4. {1, 2, 3} \subseteq 1 .. Len(Kinds)
    BY KindsAre
  <1> QED BY <1>2, <1>3, <1>4, KindsAre

LEMMA ReadingRemembers ==
    ASSUME ListingIInv, page # "none", UNCHANGED <<store, writes, query, during>>
    PROVE  StoresRemembered' /\ Store' = Store /\ Store \in during
  <1>1. /\ rows' = rows /\ tags' = tags /\ loans' = loans /\ complete' = complete
        /\ runs' = runs /\ log' = log /\ during' = during
    BY DEF store, catalog
  <1>2. Store' = Store
    BY <1>1 DEF Store
  <1>3. Store \in during /\ Sane(Store)
    BY DEF ListingIInv, StoresRemembered
  <1>4. \A st \in during' : Sane(st) /\ st.log \subseteq log'
    BY <1>1 DEF ListingIInv, StoresRemembered
  <1>5. Sane(Store)'
    BY <1>2, <1>3
  <1> QED BY <1>1, <1>2, <1>3, <1>4, <1>5 DEF StoresRemembered

\* Nothing is promised of a page before its last statement.
LEMMA NotYet ==
    ASSUME page # "end"
    PROVE  AssetsMeanTheirFilters /\ MarketsMeanTheirFilters /\ MetadataOffers /\ LogMeansItsFilter
  BY DEF AssetsMeanTheirFilters, MarketsMeanTheirFilters, MetadataOffers, LogMeansItsFilter
LEMMA NotYetNext ==
    ASSUME page' # "end"
    PROVE  AssetsMeanTheirFilters' /\ MarketsMeanTheirFilters' /\ MetadataOffers' /\ LogMeansItsFilter'
  BY DEF AssetsMeanTheirFilters, MarketsMeanTheirFilters, MetadataOffers, LogMeansItsFilter

\* And nothing is read after it.
LEMMA AtTheEnd ==
    ASSUME page' = "end"
    PROVE  Asked' /\ Gathered'
  BY DEF Asked, Gathered, GatheredIn

LEMMA AskKeeps ==
    ASSUME ListingIInv, NEW what, NEW q, Ask(what, q),
           \/ what \in {"markets", "assets"} /\ q \in Query
           \/ what = "metadata"
           \/ what = "log" /\ q \in LogQuery
    PROVE  ListingIInv'
  <1>1. /\ page' = what /\ query' = q /\ got' = <<>> /\ during' = {Store}
        /\ rows' = rows /\ tags' = tags /\ loans' = loans /\ complete' = complete
        /\ runs' = runs /\ log' = log
    BY DEF Ask, store, catalog
  <1>2. StoresRemembered'
    <2>1. Store' = Store
      BY <1>1 DEF Store
    <2>2. Sane(Store) /\ Store.log = log
      BY StoreIs DEF ListingIInv, StoresRemembered
    <2>3. Sane(Store)'
      BY <2>1, <2>2
    <2> QED BY <1>1, <2>1, <2>2, <2>3 DEF StoresRemembered
  <1>3. Asked'
    BY <1>1 DEF Asked
  <1>4. Gathered'
    <2>1. CASE what = "metadata"
      <3>1. DOMAIN <<>> = {} /\ IsFiniteSet({}) /\ Cardinality({}) = 0
        BY FS_EmptySet
      <3>2. 0 \in 0 .. Len(Kinds) - 1 /\ {Kinds[i] : i \in 1 .. 0} = {}
        BY KindsAre
      <3> QED BY <1>1, <2>1, <3>1, <3>2 DEF Gathered, GatheredIn
    <2>2. CASE what # "metadata"
      BY <1>1, <2>2 DEF Gathered, GatheredIn
    <2> QED BY <2>1, <2>2
  <1>5. page' # "end"
    BY <1>1
  <1> QED BY <1>2, <1>3, <1>4, <1>5, NotYetNext DEF ListingIInv

LEMMA ReadMarketsKeeps ==
    ASSUME ListingIInv, ReadMarkets
    PROVE  ListingIInv'
  <1>1. /\ page = "markets" /\ page' = "end" /\ got' = [markets |-> MarketList(Store, query)]
        /\ query' = query /\ during' = during
        /\ UNCHANGED <<store, writes, query, during>>
    BY DEF ReadMarkets
  <1>2. StoresRemembered' /\ Store \in during
    BY <1>1, ReadingRemembers
  <1>3. SensibleStore(Store) /\ SensibleQuery(query)
    BY <1>1, ListingAssumption DEF ListingIInv, StoresRemembered, Asked, Sane
  <1>4. DOMAIN got' = {"markets"} /\ got'.markets = MarketList(Store, query)
    BY <1>1
  <1>5. /\ MarketList(Store, query) \subseteq Admitted(Store, query)
        /\ \A m \in Admitted(Store, query) \ MarketList(Store, query) :
               \/ Cardinality(query.symbol) > 1
               \/ query.symbolNot # {} /\ Store.rows[m].asset = None
               \/ /\ query.contractNot \intersect DOMAIN CycleOf # {}
                  /\ Contract[m] = "DATED" /\ Dim[m]["expiry"] = None
    BY <1>3, MarketsAreAdmitted
  <1>6. MarketsMeanTheirFilters'
    BY <1>1, <1>2, <1>4, <1>5 DEF MarketsMeanTheirFilters
  <1>7. AssetsMeanTheirFilters' /\ MetadataOffers' /\ LogMeansItsFilter'
    BY <1>4 DEF AssetsMeanTheirFilters, MetadataOffers, LogMeansItsFilter
  <1> QED BY <1>1, <1>2, <1>6, <1>7, AtTheEnd DEF ListingIInv

(* The asset listing. *)

LEMMA ReadRowsKeeps ==
    ASSUME ListingIInv, ReadRows
    PROVE  ListingIInv'
  <1> DEFINE mapped == {m \in Market : rows[m].active /\ rows[m].asset # None}
             like == {rows[m].asset : m \in {n \in mapped :
                         \E p \in query.symbol : Like(Store, n, p) = "true"}}
             read == {[market |-> m, asset |-> rows[m].asset] : m \in
                         {n \in mapped : query.symbol # {} => rows[n].asset \in like}}
  <1>1. /\ page = "assets" /\ page' = "tags" /\ got' = [rows |-> read]
        /\ query' = query /\ during' = during
        /\ UNCHANGED <<store, writes, query, during>>
    BY DEF ReadRows
  <1>2. StoresRemembered' /\ Store \in during
    BY <1>1, ReadingRemembers
  <1>3. read = RowsOf(Store, query)
    <2>1. Store.rows = rows
      BY StoreIs
    <2> QED BY <2>1 DEF RowsOf
  <1> HIDE DEF read
  <1>4. Gathered'
    BY <1>1, <1>2, <1>3 DEF Gathered, GatheredIn
  <1>5. Asked'
    BY <1>1 DEF ListingIInv, Asked
  <1> QED BY <1>1, <1>2, <1>4, <1>5, NotYetNext DEF ListingIInv

LEMMA ReadTagsKeeps ==
    ASSUME ListingIInv, ReadTags
    PROVE  ListingIInv'
  <1>1. /\ page = "tags" /\ page' = "financing" /\ got' = [rows |-> got.rows, tags |-> tags]
        /\ query' = query /\ during' = during
        /\ UNCHANGED <<store, writes, query, during>>
    BY DEF ReadTags
  <1>2. StoresRemembered' /\ Store \in during /\ Store.tags = tags
    BY <1>1, ReadingRemembers, StoreIs
  <1>3. PICK r \in during : got = [rows |-> RowsOf(r, query)]
    BY <1>1 DEF ListingIInv, Gathered, GatheredIn
  <1>4. got' = [rows |-> RowsOf(r, query), tags |-> Store.tags]
    BY <1>1, <1>2, <1>3
  <1>5. Gathered'
    BY <1>1, <1>2, <1>4 DEF Gathered, GatheredIn
  <1>6. Asked'
    BY <1>1 DEF ListingIInv, Asked
  <1> QED BY <1>1, <1>2, <1>5, <1>6, NotYetNext DEF ListingIInv

LEMMA ReadFinancingKeeps ==
    ASSUME ListingIInv, ReadFinancing
    PROVE  ListingIInv'
  <1> DEFINE of(a) == {r.market : r \in {s \in got.rows : s.asset = a}}
             chosen == {a \in Asset : Listed(a, of(a), query, got.tags, loans)}
  <1>1. /\ page = "financing" /\ page' = IF Refused(query) THEN "end" ELSE "details"
        /\ got' = IF Refused(query) THEN [refused |-> TRUE]
                  ELSE [rows |-> got.rows, tags |-> got.tags, loans |-> loans, assets |-> chosen]
        /\ query' = query /\ during' = during
        /\ UNCHANGED <<store, writes, query, during>>
    BY DEF ReadFinancing
  <1>2. StoresRemembered' /\ Store \in during /\ Store.loans = loans
    BY <1>1, ReadingRemembers, StoreIs
  <1>3. CASE Refused(query)
    <2>1. page' = "end" /\ DOMAIN got' = {"refused"}
      BY <1>1, <1>3
    <2>2. /\ AssetsMeanTheirFilters' /\ MarketsMeanTheirFilters'
          /\ MetadataOffers' /\ LogMeansItsFilter'
      BY <2>1 DEF AssetsMeanTheirFilters, MarketsMeanTheirFilters, MetadataOffers, LogMeansItsFilter
    <2> QED BY <1>2, <2>1, <2>2, AtTheEnd DEF ListingIInv
  <1>4. CASE ~Refused(query)
    <2>1. PICK r, t \in during : got = [rows |-> RowsOf(r, query), tags |-> t.tags]
      BY <1>1 DEF ListingIInv, Gathered, GatheredIn
    <2>2. got.rows = RowsOf(r, query) /\ got.tags = t.tags
      BY <2>1
    <2>3. chosen = AssetsOf(r, t, Store, query)
      BY <1>2, <2>2 DEF AssetsOf, MarketsOf
    <2> HIDE DEF chosen
    <2>4. /\ page' = "details"
          /\ got' = [rows |-> RowsOf(r, query), tags |-> t.tags, loans |-> Store.loans,
                     assets |-> AssetsOf(r, t, Store, query)]
      BY <1>1, <1>2, <1>4, <2>2, <2>3
    <2>5. Gathered'
      BY <1>1, <1>2, <2>1, <2>4 DEF Gathered, GatheredIn
    <2>6. Asked'
      BY <1>1, <2>4 DEF ListingIInv, Asked
    <2> QED BY <1>2, <2>4, <2>5, <2>6, NotYetNext DEF ListingIInv
  <1> QED BY <1>3, <1>4

\* A store with the rows of one state, the tags of another and the financing of a third.
LEMMA MixedStore ==
    ASSUME NEW r, NEW t, NEW l, Sane(r)
    PROVE  LET st == [r EXCEPT !.tags = t.tags, !.loans = l.loans]
           IN  /\ st.rows = r.rows /\ st.tags = t.tags /\ st.loans = l.loans
               /\ SensibleStore(st)
  <1> DEFINE st == [r EXCEPT !.tags = t.tags, !.loans = l.loans]
  <1>1. /\ st.rows = r.rows /\ st.tags = t.tags /\ st.loans = l.loans
        /\ st.runs = r.runs /\ st.log = r.log
    BY DEF Sane
  <1> HIDE DEF st
  <1>2. SensibleStore(st)
    BY <1>1 DEF Sane, SensibleStore
  <1>3. /\ st.rows = r.rows /\ st.tags = t.tags /\ st.loans = l.loans
        /\ SensibleStore(st)
    BY <1>1, <1>2
  <1> QED BY <1>3 DEF st

LEMMA AssetPageIsMeant ==
    ASSUME NEW r, NEW t, NEW l, NEW q, SensibleQuery(q), NEW st, SensibleStore(st),
           st.rows = r.rows, st.tags = t.tags, st.loans = l.loans
    PROVE  AssetsOf(r, t, l, q) = Meant(st, q)
  <1>1. /\ st.rows = r.rows /\ st.tags = t.tags /\ st.loans = l.loans
        /\ SensibleStore(st)
    OBVIOUS
  <1>2. \A m, p : Like(st, m, p) = Like(r, m, p)
    BY <1>1 DEF Like
  <1>3. RowsOf(st, q) = RowsOf(r, q)
    BY <1>1, <1>2 DEF RowsOf
  <1>4. \A a \in Asset : a \in AssetsOf(r, t, l, q) <=> a \in Meant(st, q)
    <2>1. \A a \in Asset : Listed(a, MarketsOf(RowsOf(st, q), a), q, st.tags, st.loans)
                               <=> a \in Meant(st, q)
      BY <1>1, AssetsAreMeant
    <2> QED BY <1>1, <1>3, <2>1 DEF AssetsOf
  <1>5. Meant(st, q) \subseteq Asset
    <2> DEFINE included == MarketList(st, [NoFilter EXCEPT !.in = q.in, !.contract = q.contract])
    <2>1. \A m \in included : st.rows[m].asset \in Asset \union {None}
      <3>1. included \subseteq Market
        BY DEF MarketList
      <3> HIDE DEF included
      <3> QED BY <1>1, <3>1 DEF SensibleStore
    <2>2. Meant(st, q) \subseteq {st.rows[m].asset : m \in included} \ {None}
      BY Zenon DEF Meant
    <2> HIDE DEF included
    <2> QED BY <2>1, <2>2
  <1>6. AssetsOf(r, t, l, q) \subseteq Asset
    BY DEF AssetsOf
  <1> QED BY <1>4, <1>5, <1>6

LEMMA ReadDetailsKeeps ==
    ASSUME ListingIInv, ReadDetails
    PROVE  ListingIInv'
  <1> DEFINE shown == [a \in got.assets |-> {l \in loans : l.asset = a}]
  <1>1. /\ page = "details" /\ page' = "end"
        /\ got' = [rows |-> got.rows, tags |-> got.tags, loans |-> got.loans,
                   assets |-> got.assets, shown |-> shown]
        /\ query' = query /\ during' = during
        /\ UNCHANGED <<store, writes, query, during>>
    BY DEF ReadDetails
  <1>2. StoresRemembered' /\ Store \in during /\ Store.loans = loans
    BY <1>1, ReadingRemembers, StoreIs
  <1>3. PICK r, t, l \in during :
            got = [rows |-> RowsOf(r, query), tags |-> t.tags, loans |-> l.loans,
                   assets |-> AssetsOf(r, t, l, query)]
    BY <1>1 DEF ListingIInv, Gathered, GatheredIn
  <1>4. /\ got.assets = AssetsOf(r, t, l, query) /\ got'.assets = got.assets
        /\ got'.shown = shown
        /\ DOMAIN got' = {"rows", "tags", "loans", "assets", "shown"}
    BY <1>1, <1>3
  <1>5. Sane(r) /\ SensibleQuery(query)
    BY <1>1, ListingAssumption DEF ListingIInv, StoresRemembered, Asked
  <1>6. got'.assets = Meant([r EXCEPT !.tags = t.tags, !.loans = l.loans], query)
    <2> DEFINE st == [r EXCEPT !.tags = t.tags, !.loans = l.loans]
    <2>1. /\ st.rows = r.rows /\ st.tags = t.tags /\ st.loans = l.loans
          /\ SensibleStore(st)
      BY <1>5, MixedStore, Zenon
    <2> HIDE DEF st
    <2>2. AssetsOf(r, t, l, query) = Meant(st, query)
      BY <1>5, <2>1, AssetPageIsMeant
    <2>3. got'.assets = Meant(st, query)
      BY <1>4, <2>2
    <2> QED BY <2>3, Zenon DEF st
  <1>7. ASSUME NEW a \in got'.assets
        PROVE  \/ query.financing \subseteq
                      {o.key : o \in {s \in got'.shown[a] : s.role = "BORROWABLE"}}
               \/ \E s, u \in during : s.loans # u.loans
    <2>1. CASE l.loans = loans
      <3>1. query.financing \subseteq Borrowable(loans, a)
        BY <1>4, <2>1 DEF AssetsOf, Listed
      <3>2. got'.shown[a] = {o \in loans : o.asset = a}
        BY <1>4
      <3>3. Borrowable(loans, a) = {o.key : o \in {s \in got'.shown[a] : s.role = "BORROWABLE"}}
        BY <3>2 DEF Borrowable
      <3> QED BY <3>1, <3>3
    <2>2. CASE l.loans # loans
      BY <1>2, <2>2
    <2> QED BY <2>1, <2>2
  <1>8. AssetsMeanTheirFilters'
    <2>1. \E x, y, z \in during :
              got'.assets = Meant([x EXCEPT !.tags = y.tags, !.loans = z.loans], query)
      BY <1>6, Zenon
    <2>2. ASSUME NEW a \in got'.assets
          PROVE  \/ query'.financing \subseteq
                        {o.key : o \in {s \in got'.shown[a] : s.role = "BORROWABLE"}}
                 \/ \E s, u \in during' : s.loans # u.loans
      BY <1>1, <1>7
    <2>3. \E x, y, z \in during' :
              got'.assets = Meant([x EXCEPT !.tags = y.tags, !.loans = z.loans], query')
      BY <1>1, <2>1
    <2> QED BY <2>2, <2>3, Zenon DEF AssetsMeanTheirFilters
  <1>9. MarketsMeanTheirFilters' /\ MetadataOffers' /\ LogMeansItsFilter'
    BY <1>4 DEF MarketsMeanTheirFilters, MetadataOffers, LogMeansItsFilter
  <1> QED BY <1>1, <1>2, <1>8, <1>9, AtTheEnd DEF ListingIInv

(* The metadata. *)

LEMMA ValuesAre ==
    ASSUME NEW kind
    PROVE  Values(kind) = ValuesOf(Store, kind)
  <1>1. Active = {m \in Market : Store.rows[m].active}
    BY StoreIs DEF Active
  <1>2. FutureVenues = IF Store.complete # {} THEN Store.complete
            ELSE {Dim[m]["venue"] : m \in {n \in {x \in Market : Store.rows[x].active} :
                     Dim[n]["type"] = "FUTURE"}}
    BY <1>1, StoreIs DEF FutureVenues
  <1>3. Offered(kind) = {Dim[m][kind] : m \in {n \in {x \in Market : Store.rows[x].active} :
                           kind = "expiry" => Dim[n]["type"] = "FUTURE"}} \ {None}
    BY <1>1 DEF Offered
  <1>4. Store.tags = tags /\ Store.loans = loans
    BY StoreIs
  <1> QED BY <1>2, <1>3, <1>4 DEF Values, ValuesOf

\* A dimension offers the values by which a market page lists something.
LEMMA DimensionOffers ==
    ASSUME NEW st, NEW d \in Dimension
    PROVE  ValuesOf(st, d) = {v \in Value(d) : MarketList(st, [NoFilter EXCEPT !.in[d] = {v}]) # {}}
  <1> DEFINE ofValue(v) == [NoFilter EXCEPT !.in[d] = {v}]
             active == {m \in Market : st.rows[m].active}
             offered == {Dim[m][d] : m \in {n \in active : d = "expiry" => Dim[n]["type"] = "FUTURE"}}
                            \ {None}
  <1>1. d \notin {"futures", "tags", "financing"}
    BY ListingAssumption
  <1>2. ValuesOf(st, d) = offered
    BY <1>1 DEF ValuesOf
  <1>3. \A m \in Market : d = "expiry" /\ Dim[m][d] # None => Dim[m]["type"] = "FUTURE"
    BY ListingAssumption DEF SensibleCatalog
  <1>4. \A v : v \in offered <=> v # None /\ \E m \in Market : st.rows[m].active /\ Dim[m][d] = v
    BY <1>3
  <1>5. ASSUME NEW v, v # None
        PROVE  MarketList(st, ofValue(v)) # {} <=> \E m \in Market : st.rows[m].active /\ Dim[m][d] = v
    <2>1. MarketList(st, ofValue(v)) \subseteq Market
      BY DEF MarketList
    <2>2. \A m \in Market : m \in MarketList(st, ofValue(v)) <=> st.rows[m].active /\ Dim[m][d] = v
      BY <1>5, ListedOfValue
    <2> HIDE DEF ofValue
    <2> QED BY <2>1, <2>2
  <1>6. \A v : v \in Value(d) <=> v # None /\ \E m \in Market : Dim[m][d] = v
    BY DEF Value
  <1> HIDE DEF offered, ofValue
  <1>7. \A v : v \in offered <=> v \in Value(d) /\ MarketList(st, ofValue(v)) # {}
    BY <1>4, <1>5, <1>6
  <1>8. offered = {v \in Value(d) : MarketList(st, ofValue(v)) # {}}
    BY <1>7
  <1> QED BY <1>2, <1>8, Zenon DEF ofValue

\* An asset is meant by a filter of its futures, of its tags, of its financing.
LEMMA MeantByFutures ==
    ASSUME NEW st, NEW v, Meant(st, [NoFilter EXCEPT !.futures = {v}]) # {}
    PROVE  \E m \in Market : st.rows[m].active /\ Dim[m]["type"] = "FUTURE" /\ Dim[m]["venue"] = v
  <1> DEFINE f == [NoFilter EXCEPT !.futures = {v}]
             included == MarketList(st, [NoFilter EXCEPT !.in = f.in, !.contract = f.contract])
             futures(a) == {Dim[m]["venue"] : m \in {n \in included :
                              st.rows[n].asset = a /\ Dim[n]["type"] = "FUTURE"}}
  <1>1. PICK a : a \in Meant(st, f)
    OBVIOUS
  <1>2. f.futures \subseteq futures(a)
    BY <1>1, Zenon DEF Meant
  <1>3. f.futures = {v}
    BY DEF NoFilter
  <1>4. SensibleQuery(f)
    <2>1. f.in = [d \in Dimension |-> {}] /\ f.out = [d \in Dimension |-> {}]
          /\ f.contract = {} /\ f.contractNot = {} /\ f.symbol = {}
      BY DEF NoFilter
    <2> HIDE DEF f
    <2> QED BY <2>1, FS_EmptySet DEF SensibleQuery
  <1> HIDE DEF f
  <1>5. included \subseteq Market /\ \A m \in included : st.rows[m].active
    <2>1. included \subseteq Market
      BY DEF MarketList
    <2>2. \A m \in Market : m \in included => st.rows[m].active
      BY <1>4, ListedIncluded
    <2> QED BY <2>1, <2>2
  <1> HIDE DEF included
  <1> QED BY <1>2, <1>3, <1>5

LEMMA MeantByTags ==
    ASSUME NEW st, SensibleStore(st), NEW t \in Tag, Meant(st, [NoFilter EXCEPT !.tags = {t}]) # {}
    PROVE  \E a \in Asset : <<a, t>> \in st.tags
  <1> DEFINE f == [NoFilter EXCEPT !.tags = {t}]
             some(g) == {st.rows[m].asset : m \in MarketList(st, g)}
             included == MarketList(st, [NoFilter EXCEPT !.in = f.in, !.contract = f.contract])
  <1>1. PICK a : a \in Meant(st, f)
    OBVIOUS
  <1>2. a \in some([NoFilter EXCEPT !.tags = f.tags]) /\ a # None
    BY <1>1, Zenon DEF Meant
  <1>3. f.tags = {t}
    BY DEF NoFilter
  <1> HIDE DEF f
  <1>4. PICK m \in Market : m \in MarketList(st, [NoFilter EXCEPT !.tags = f.tags]) /\ st.rows[m].asset = a
    <2>1. MarketList(st, [NoFilter EXCEPT !.tags = f.tags]) \subseteq Market
      BY DEF MarketList
    <2> QED BY <1>2, <2>1
  <1>5. f.tags \subseteq Tagged(st, m)
    BY <1>4, ListedOfTags
  <1>6. a \in Asset
    BY <1>2, <1>4 DEF SensibleStore
  <1> QED BY <1>3, <1>4, <1>5, <1>6 DEF Tagged

LEMMA MeantByFinancing ==
    ASSUME NEW st, NEW key, Meant(st, [NoFilter EXCEPT !.financing = {key}]) # {}
    PROVE  \E k \in st.loans : k.role = "BORROWABLE" /\ k.key = key
  <1> DEFINE f == [NoFilter EXCEPT !.financing = {key}]
             keys(a) == {l.key : l \in {k \in st.loans : k.asset = a /\ k.role = "BORROWABLE"}}
  <1>1. PICK a : a \in Meant(st, f)
    OBVIOUS
  <1>2. f.financing \subseteq keys(a)
    BY <1>1, Zenon DEF Meant
  <1>3. f.financing = {key}
    BY DEF NoFilter
  <1> HIDE DEF f
  <1> QED BY <1>2, <1>3

\* What the metadata offers, each of its lists as of a state that the store was in.
LEMMA OffersAreListed ==
    ASSUME ListingIInv, NEW g,
           DOMAIN g = {"futures", "tags", "financing"} \union Dimension,
           \A k \in DOMAIN g : \E st \in during : g[k] = ValuesOf(st, k)
    PROVE  LET lists(q) == \A st \in during : Meant(st, q) # {}
           IN  /\ \A d \in Dimension : \E st \in during :
                     g[d] = {v \in Value(d) : MarketList(st, [NoFilter EXCEPT !.in[d] = {v}]) # {}}
               /\ \A v \in Venue : lists([NoFilter EXCEPT !.futures = {v}]) =>
                     v \in g.futures \/ \E st \in during : st.complete # {} /\ v \notin st.complete
               /\ \A t \in Tag : lists([NoFilter EXCEPT !.tags = {t}]) => t \in g.tags
               /\ \A l \in Loan : lists([NoFilter EXCEPT !.financing = {l.key}]) => l.key \in g.financing
  <1>1. ASSUME NEW d \in Dimension
        PROVE  \E st \in during :
                   g[d] = {v \in Value(d) : MarketList(st, [NoFilter EXCEPT !.in[d] = {v}]) # {}}
    <2>1. PICK st \in during : g[d] = ValuesOf(st, d)
      OBVIOUS
    <2>2. ValuesOf(st, d) = {v \in Value(d) : MarketList(st, [NoFilter EXCEPT !.in[d] = {v}]) # {}}
      BY DimensionOffers, Zenon
    <2> QED BY <2>1, <2>2, Zenon
  <1>2. ASSUME NEW v \in Venue, \A st \in during : Meant(st, [NoFilter EXCEPT !.futures = {v}]) # {}
        PROVE  v \in g.futures \/ \E st \in during : st.complete # {} /\ v \notin st.complete
    <2>1. PICK st \in during : g["futures"] = ValuesOf(st, "futures")
      OBVIOUS
    <2>2. Meant(st, [NoFilter EXCEPT !.futures = {v}]) # {}
      BY <1>2, Zenon
    <2>3. PICK m \in Market : st.rows[m].active /\ Dim[m]["type"] = "FUTURE" /\ Dim[m]["venue"] = v
      BY <2>2, MeantByFutures, Zenon
    <2>4. st.complete = {} => v \in ValuesOf(st, "futures")
      BY <2>3 DEF ValuesOf
    <2>5. st.complete # {} => ValuesOf(st, "futures") = st.complete
      BY DEF ValuesOf
    <2> QED BY <2>1, <2>4, <2>5
  <1>3. ASSUME NEW t \in Tag, \A st \in during : Meant(st, [NoFilter EXCEPT !.tags = {t}]) # {}
        PROVE  t \in g.tags
    <2>1. PICK st \in during : g["tags"] = ValuesOf(st, "tags")
      OBVIOUS
    <2>2. Meant(st, [NoFilter EXCEPT !.tags = {t}]) # {}
      BY <1>3, Zenon
    <2>3. SensibleStore(st)
      BY DEF ListingIInv, StoresRemembered, Sane
    <2>4. \E a \in Asset : <<a, t>> \in st.tags
      BY <2>2, <2>3, MeantByTags, Zenon
    <2> QED BY <2>1, <2>4 DEF ValuesOf
  <1>4. ASSUME NEW l \in Loan,
               \A st \in during : Meant(st, [NoFilter EXCEPT !.financing = {l.key}]) # {}
        PROVE  l.key \in g.financing
    <2>1. PICK st \in during : g["financing"] = ValuesOf(st, "financing")
      OBVIOUS
    <2>2. Meant(st, [NoFilter EXCEPT !.financing = {l.key}]) # {}
      BY <1>4, Zenon
    <2>3. \E k \in st.loans : k.role = "BORROWABLE" /\ k.key = l.key
      BY <2>2, MeantByFinancing, Zenon
    <2> QED BY <2>1, <2>3 DEF ValuesOf
  <1> QED BY <1>1, <1>2, <1>3, <1>4, Zenon

LEMMA ReadValuesKeeps ==
    ASSUME ListingIInv, ReadValues
    PROVE  ListingIInv'
  <1> DEFINE next == Cardinality(DOMAIN got) + 1
             kind == Kinds[next]
  <1>1. /\ page = "metadata" /\ page' = IF next = Len(Kinds) THEN "end" ELSE page
        /\ got' = [k \in DOMAIN got \union {kind} |-> IF k = kind THEN Values(kind) ELSE got[k]]
        /\ query' = query /\ during' = during
        /\ UNCHANGED <<store, writes, query, during>>
    BY DEF ReadValues
  <1>2. StoresRemembered' /\ Store \in during
    BY <1>1, ReadingRemembers
  <1>3. PICK n \in 0 .. Len(Kinds) - 1 :
            Cardinality(DOMAIN got) = n /\ DOMAIN got = {Kinds[i] : i \in 1 .. n}
    BY <1>1 DEF ListingIInv, Gathered, GatheredIn
  <1>4. IsFiniteSet(DOMAIN got) /\ \A k \in DOMAIN got : \E st \in during : got[k] = ValuesOf(st, k)
    BY <1>1 DEF ListingIInv, Gathered, GatheredIn
  <1>5. next = n + 1 /\ next \in 1 .. Len(Kinds) /\ Len(Kinds) \in Nat
    BY <1>3, KindsAre
  <1>6. DOMAIN got' = DOMAIN got \union {kind}
    BY <1>1
  <1>7. DOMAIN got' = {Kinds[i] : i \in 1 .. n + 1}
    <2>1. 1 .. n + 1 = (1 .. n) \union {n + 1}
      OBVIOUS
    <2> QED BY <1>3, <1>5, <1>6, <2>1
  <1>8. kind \notin DOMAIN got
    <2>1. ASSUME NEW i \in 1 .. n, Kinds[i] = kind
          PROVE  FALSE
      <3>1. i \in 1 .. Len(Kinds)
        BY <1>3, <1>5
      <3>2. i = next
        BY <1>5, <2>1, <3>1, KindsDiffer
      <3> QED BY <1>5, <3>2
    <2> QED BY <1>3, <2>1
  <1>9. IsFiniteSet(DOMAIN got') /\ Cardinality(DOMAIN got') = n + 1
    <2> DEFINE read == DOMAIN got
    <2>1. IsFiniteSet(read) /\ Cardinality(read) = n /\ kind \notin read
      BY <1>3, <1>4, <1>8
    <2> HIDE DEF read, kind
    <2>2. IsFiniteSet(read \union {kind}) /\ Cardinality(read \union {kind}) = n + 1
      BY <2>1, FS_AddElement
    <2> QED BY <1>6, <2>2 DEF read
  <1>10. \A k \in DOMAIN got' : \E st \in during : got'[k] = ValuesOf(st, k)
    <2>1. Values(kind) = ValuesOf(Store, kind)
      BY ValuesAre
    <2> HIDE DEF kind
    <2>2. \A k \in DOMAIN got' : got'[k] = IF k = kind THEN Values(kind) ELSE got[k]
      BY <1>1, <1>6
    <2> QED BY <1>2, <1>4, <1>6, <2>1, <2>2
  <1> HIDE DEF next, kind
  <1>11. CASE next # Len(Kinds)
    <2>1. page' = "metadata" /\ n + 1 \in 0 .. Len(Kinds) - 1
      BY <1>1, <1>3, <1>5, <1>11
    <2>2. Gathered'
      BY <1>1, <1>7, <1>9, <1>10, <2>1 DEF Gathered, GatheredIn
    <2>3. Asked'
      BY <2>1 DEF Asked
    <2> QED BY <1>2, <2>1, <2>2, <2>3, NotYetNext DEF ListingIInv
  <1>12. CASE next = Len(Kinds)
    <2>1. page' = "end"
      BY <1>1, <1>12
    <2>2. DOMAIN got' = {"futures", "tags", "financing"} \union Dimension
      BY <1>5, <1>7, <1>12, KindsCover
    <2>3. PICK g : g = got'
      OBVIOUS
    <2>4. LET lists(q) == \A st \in during : Meant(st, q) # {}
          IN  /\ \A d \in Dimension : \E st \in during :
                    g[d] = {v \in Value(d) : MarketList(st, [NoFilter EXCEPT !.in[d] = {v}]) # {}}
              /\ \A v \in Venue : lists([NoFilter EXCEPT !.futures = {v}]) =>
                    v \in g.futures \/ \E st \in during : st.complete # {} /\ v \notin st.complete
              /\ \A t \in Tag : lists([NoFilter EXCEPT !.tags = {t}]) => t \in g.tags
              /\ \A l \in Loan : lists([NoFilter EXCEPT !.financing = {l.key}]) => l.key \in g.financing
      <3>1. /\ DOMAIN g = {"futures", "tags", "financing"} \union Dimension
            /\ \A k \in DOMAIN g : \E st \in during : g[k] = ValuesOf(st, k)
        BY <1>10, <2>2, <2>3
      <3> QED BY <3>1, OffersAreListed, Zenon
    <2>5. MetadataOffers'
      BY <1>1, <2>3, <2>4, Zenon DEF MetadataOffers
    <2>6. "assets" \notin DOMAIN got' /\ "markets" \notin DOMAIN got' /\ "changes" \notin DOMAIN got'
      BY <2>2, ListingAssumption
    <2>7. AssetsMeanTheirFilters' /\ MarketsMeanTheirFilters' /\ LogMeansItsFilter'
      BY <2>6 DEF AssetsMeanTheirFilters, MarketsMeanTheirFilters, LogMeansItsFilter
    <2> QED BY <1>2, <2>1, <2>5, <2>7, AtTheEnd DEF ListingIInv
  <1> QED BY <1>11, <1>12

(* The change log. *)

\* Whether a filter selects a change in the runs is what it says of the change.
LEMMA SelectsWhatMeets ==
    ASSUME NEW st, SensibleStore(st), NEW e \in st.log, NEW q, SensibleLogQuery(q)
    PROVE  SelectsMarket(st, e, q) \/ SelectsTag(e, q) <=> Meets(st, e, q)
  <1>1. e.day \in Int /\ q.from \in Int /\ q.to \in Int /\ (OfTag(e) \/ e.of \in Market)
    BY DEF SensibleStore, SensibleLogQuery
  <1>2. Common(e, q) <=>
            /\ q.action # None => e.kind = KindOf[q.action]
            /\ q.venue # None => VenueOf(e) = q.venue
            /\ q.from <= e.day /\ e.day <= q.to
    BY <1>1 DEF Common
  <1>3. ASSUME ~OfTag(e)
        PROVE  Like(st, e.of, q.symbol) = "true" <=> NamesIn(st, e.of) \intersect Matches[q.symbol] # {}
    BY <1>1, <1>3, LikeMeans
  <1>4. Meets(st, e, q) <=>
            /\ q.action # None => e.kind = KindOf[q.action]
            /\ q.venue # None => VenueOf(e) = q.venue
            /\ q.tag # None => OfTag(e) /\ e.of[2] = q.tag
            /\ q.product # None => ~OfTag(e) /\ Contract[e.of] = q.product
            /\ q.symbol # None => ~OfTag(e) /\ NamesIn(st, e.of) \intersect Matches[q.symbol] # {}
            /\ q.from <= e.day /\ e.day <= q.to
    BY Zenon DEF Meets, NamesIn
  <1> QED BY <1>2, <1>3, <1>4 DEF SelectsMarket, SelectsTag

\* The runs that have a change which meets the filter.
RunsMeant(st, q) ==
    {run \in DOMAIN st.runs :
        /\ q.venue # None => q.venue \in st.runs[run]
        /\ Filters(q) => \E e \in st.log : e.run = run /\ Meets(st, e, q)}

LEMMA SelectedIsMeant ==
    ASSUME NEW st, SensibleStore(st), NEW q, SensibleLogQuery(q)
    PROVE  Selected(st, q) = RunsMeant(st, q)
  <1>1. \A e \in st.log : SelectsMarket(st, e, q) \/ SelectsTag(e, q) <=> Meets(st, e, q)
    BY SelectsWhatMeets
  <1>2. q.changed => Filters(q)
    BY DEF Filters
  <1>3. \A run : run \in Selected(st, q) <=>
            /\ run \in DOMAIN st.runs
            /\ q.venue # None => q.venue \in st.runs[run]
            /\ q.changed => \E e \in st.log : e.run = run
            /\ Filters(q) => \E e \in st.log : e.run = run /\ (SelectsMarket(st, e, q) \/ SelectsTag(e, q))
    BY Zenon DEF Selected
  <1>4. \A run : run \in RunsMeant(st, q) <=>
            /\ run \in DOMAIN st.runs
            /\ q.venue # None => q.venue \in st.runs[run]
            /\ Filters(q) => \E e \in st.log : e.run = run /\ Meets(st, e, q)
    BY Zenon DEF RunsMeant
  <1>5. \A run : run \in Selected(st, q) <=> run \in RunsMeant(st, q)
    BY <1>1, <1>2, <1>3, <1>4
  <1> QED BY <1>5

\* A change of a market is shown for a filter that it meets, unless by its base symbol alone.
LEMMA MarketIsShown ==
    ASSUME NEW st, SensibleStore(st), NEW e \in st.log, NEW q, SensibleLogQuery(q), ~OfTag(e)
    PROVE  LET shown == Keeps(e, {ShownIn(st, e.of), Raw[e.of]}, Contract[e.of], q)
           IN  /\ shown => Meets(st, e, q)
               /\ Meets(st, e, q) => shown \/ (q.symbol # None /\ Base[e.of] \in Matches[q.symbol])
  <1> DEFINE names == {ShownIn(st, e.of), Raw[e.of]}
             shown == Keeps(e, names, Contract[e.of], q)
  <1>1. e.day \in Int /\ q.from \in Int /\ q.to \in Int /\ e.of \in Market
    BY DEF SensibleStore, SensibleLogQuery
  <1>2. Meets(st, e, q) <=>
            /\ q.action # None => e.kind = KindOf[q.action]
            /\ q.venue # None => VenueOf(e) = q.venue
            /\ q.tag # None => OfTag(e) /\ e.of[2] = q.tag
            /\ q.product # None => ~OfTag(e) /\ Contract[e.of] = q.product
            /\ q.symbol # None => ~OfTag(e) /\ NamesIn(st, e.of) \intersect Matches[q.symbol] # {}
            /\ q.from <= e.day /\ e.day <= q.to
    BY Zenon DEF Meets, NamesIn
  <1>3. shown <=>
            /\ q.action # None => e.kind = KindOf[q.action]
            /\ q.venue # None => VenueOf(e) = q.venue
            /\ q.from <= e.day /\ e.day <= q.to
            /\ q.tag # None => OfTag(e) /\ e.of[2] = q.tag
            /\ q.symbol # None => names \intersect Matches[q.symbol] # {}
            /\ q.product # None => Contract[e.of] = q.product
    BY <1>1 DEF Keeps, Common
  <1>4. Names[e.of] = {Raw[e.of], Base[e.of]}
    BY <1>1 DEF Names
  <1>5. NamesIn(st, e.of) = names \union {Base[e.of]}
    <2>1. CASE st.rows[e.of].asset = None
      BY <1>4, <2>1 DEF NamesIn, ShownIn
    <2>2. CASE st.rows[e.of].asset # None
      BY <1>4, <2>2 DEF NamesIn, ShownIn
    <2> QED BY <2>1, <2>2
  <1>6. /\ shown => Meets(st, e, q)
        /\ Meets(st, e, q) => shown \/ (q.symbol # None /\ Base[e.of] \in Matches[q.symbol])
    <2> HIDE DEF names, shown
    <2> QED BY <1>2, <1>3, <1>5
  <1> QED BY <1>6

\* A change of a tag is shown for a filter that it meets; and for a symbol besides.
LEMMA TagIsShown ==
    ASSUME NEW st, SensibleStore(st), NEW e \in st.log, NEW q, SensibleLogQuery(q), OfTag(e), NEW names
    PROVE  LET shown == Keeps(e, names, None, q)
           IN  /\ shown => Meets(st, e, q) \/ q.symbol # None
               /\ Meets(st, e, q) => shown
  <1> DEFINE shown == Keeps(e, names, None, q)
  <1>1. e.day \in Int /\ q.from \in Int /\ q.to \in Int
    BY DEF SensibleStore, SensibleLogQuery
  <1>2. Meets(st, e, q) <=>
            /\ q.action # None => e.kind = KindOf[q.action]
            /\ q.venue # None => VenueOf(e) = q.venue
            /\ q.tag # None => OfTag(e) /\ e.of[2] = q.tag
            /\ q.product # None => ~OfTag(e) /\ Contract[e.of] = q.product
            /\ q.symbol # None => ~OfTag(e) /\ NamesIn(st, e.of) \intersect Matches[q.symbol] # {}
            /\ q.from <= e.day /\ e.day <= q.to
    BY Zenon DEF Meets, NamesIn
  <1>3. shown <=>
            /\ q.action # None => e.kind = KindOf[q.action]
            /\ q.venue # None => VenueOf(e) = q.venue
            /\ q.from <= e.day /\ e.day <= q.to
            /\ q.tag # None => OfTag(e) /\ e.of[2] = q.tag
            /\ q.symbol # None => names \intersect Matches[q.symbol] # {}
            /\ q.product # None => None = q.product
    BY <1>1 DEF Keeps, Common
  <1>4. /\ shown => Meets(st, e, q) \/ q.symbol # None
        /\ Meets(st, e, q) => shown
    <2> HIDE DEF shown
    <2> QED BY <1>2, <1>3
  <1> QED BY <1>4

LEMMA CountRunsKeeps ==
    ASSUME ListingIInv, CountRuns
    PROVE  ListingIInv'
  <1>1. /\ page = "log" /\ page' = IF Contradicts(query) THEN "end" ELSE "runs"
        /\ got' = IF Contradicts(query) THEN [refused |-> TRUE]
                  ELSE [count |-> Cardinality(Selected(Store, query))]
        /\ query' = query /\ during' = during
        /\ UNCHANGED <<store, writes, query, during>>
    BY DEF CountRuns
  <1>2. StoresRemembered' /\ Store \in during
    BY <1>1, ReadingRemembers
  <1>3. CASE Contradicts(query)
    <2>1. page' = "end" /\ DOMAIN got' = {"refused"}
      BY <1>1, <1>3
    <2>2. /\ AssetsMeanTheirFilters' /\ MarketsMeanTheirFilters'
          /\ MetadataOffers' /\ LogMeansItsFilter'
      BY <2>1 DEF AssetsMeanTheirFilters, MarketsMeanTheirFilters, MetadataOffers, LogMeansItsFilter
    <2> QED BY <1>2, <2>1, <2>2, AtTheEnd DEF ListingIInv
  <1>4. CASE ~Contradicts(query)
    <2>1. page' = "runs" /\ got' = [count |-> Cardinality(Selected(Store, query))]
      BY <1>1, <1>4
    <2>2. Gathered'
      BY <1>1, <1>2, <2>1 DEF Gathered, GatheredIn
    <2>3. Asked'
      BY <1>1, <2>1 DEF ListingIInv, Asked
    <2> QED BY <1>2, <2>1, <2>2, <2>3, NotYetNext DEF ListingIInv
  <1> QED BY <1>3, <1>4

LEMMA ReadRunsKeeps ==
    ASSUME ListingIInv, ReadRuns
    PROVE  ListingIInv'
  <1>1. /\ page = "runs" /\ page' = "changes"
        /\ got' = [count |-> got.count, runs |-> Selected(Store, query)]
        /\ query' = query /\ during' = during
        /\ UNCHANGED <<store, writes, query, during>>
    BY DEF ReadRuns
  <1>2. StoresRemembered' /\ Store \in during
    BY <1>1, ReadingRemembers
  <1>3. PICK s \in during : got = [count |-> Cardinality(Selected(s, query))]
    BY <1>1 DEF ListingIInv, Gathered, GatheredIn
  <1>4. got' = [count |-> Cardinality(Selected(s, query)), runs |-> Selected(Store, query)]
    BY <1>1, <1>3
  <1>5. Gathered'
    BY <1>1, <1>2, <1>4 DEF Gathered, GatheredIn
  <1>6. Asked'
    BY <1>1 DEF ListingIInv, Asked
  <1> QED BY <1>1, <1>2, <1>5, <1>6, NotYetNext DEF ListingIInv

\* What the log promises of a page, read while the store was in some states.
LogPromise(states, q, g) ==
    /\ \E st \in states : g.runs = RunsMeant(st, q)
    /\ \E st \in states : g.count = Cardinality(RunsMeant(st, q))
    /\ ~Filters(q) => \E st \in states :
           {e \in Changed(st) : e.run \in g.runs} \subseteq g.changes
    /\ Filters(q) => \A e \in g.changes :
           \/ \E st \in states : Meets(st, e, q)
           \/ q.symbol # None /\ OfTag(e)
    /\ Filters(q) => \A e \in UNION {Changed(st) : st \in states} :
           /\ e.run \in g.runs
           /\ \A st \in states : e \in st.log /\ Meets(st, e, q)
           => e \in g.changes \/ (q.symbol # None /\ Base[e.of] \in Matches[q.symbol])

\* What the log shows of the runs it has selected, a market's changes as of one state and a
\* tag's as of a later one.
LEMMA LogIsMeant ==
    ASSUME ListingIInv, NEW s \in during, NEW r \in during, NEW c \in during, NEW t \in during,
           c.log \subseteq t.log, NEW q, SensibleLogQuery(q), NEW g,
           g.count = Cardinality(Selected(s, q)), g.runs = Selected(r, q),
           g.changes = MarketChanges(c, g.runs, q) \union TagChanges(t, g.runs, q)
    PROVE  LogPromise(during, q, g)
  <1>1. \A st \in during : SensibleStore(st)
    BY DEF ListingIInv, StoresRemembered, Sane
  <1>2. \E st \in during : g.runs = RunsMeant(st, q)
    BY <1>1, SelectedIsMeant
  <1>3. \E st \in during : g.count = Cardinality(RunsMeant(st, q))
    <2>1. Selected(s, q) = RunsMeant(s, q)
      BY <1>1, SelectedIsMeant
    <2> QED BY <2>1
  <1>4. \A e : e \in MarketChanges(c, g.runs, q) <=>
            /\ e \in c.log /\ e.kind # "SESSION" /\ ~OfTag(e) /\ e.run \in g.runs
            /\ Filters(q) => Keeps(e, {ShownIn(c, e.of), Raw[e.of]}, Contract[e.of], q)
    BY Zenon DEF MarketChanges, Changed
  <1>5. \A e : e \in TagChanges(t, g.runs, q) <=>
            /\ e \in t.log /\ e.kind # "SESSION" /\ OfTag(e) /\ e.run \in g.runs
            /\ Filters(q) => Keeps(e, {Canonical[e.of[1]]}, None, q)
    BY Zenon DEF TagChanges, Changed
  <1>6. \A st : \A e : e \in Changed(st) <=> e \in st.log /\ e.kind # "SESSION"
    BY DEF Changed
  <1>7. \A e \in c.log : ~OfTag(e) =>
            /\ Keeps(e, {ShownIn(c, e.of), Raw[e.of]}, Contract[e.of], q) => Meets(c, e, q)
            /\ Meets(c, e, q) => \/ Keeps(e, {ShownIn(c, e.of), Raw[e.of]}, Contract[e.of], q)
                                 \/ q.symbol # None /\ Base[e.of] \in Matches[q.symbol]
    BY <1>1, MarketIsShown
  <1>8. \A e \in t.log : OfTag(e) =>
            /\ Keeps(e, {Canonical[e.of[1]]}, None, q) => Meets(t, e, q) \/ q.symbol # None
            /\ Meets(t, e, q) => Keeps(e, {Canonical[e.of[1]]}, None, q)
    BY <1>1, TagIsShown
  <1>9. ASSUME ~Filters(q)
        PROVE  {e \in Changed(c) : e.run \in g.runs} \subseteq g.changes
    BY <1>4, <1>5, <1>6, <1>9
  <1>10. ASSUME Filters(q), NEW e \in g.changes
         PROVE  \/ \E st \in during : Meets(st, e, q)
                \/ q.symbol # None /\ OfTag(e)
    <2>1. CASE e \in MarketChanges(c, g.runs, q)
      BY <1>4, <1>7, <1>10, <2>1
    <2>2. CASE e \in TagChanges(t, g.runs, q)
      BY <1>5, <1>8, <1>10, <2>2
    <2> QED BY <2>1, <2>2
  <1>11. ASSUME Filters(q), NEW e \in UNION {Changed(st) : st \in during}, e.run \in g.runs,
                \A st \in during : e \in st.log /\ Meets(st, e, q)
         PROVE  e \in g.changes \/ (q.symbol # None /\ Base[e.of] \in Matches[q.symbol])
    <2>1. e.kind # "SESSION"
      BY <1>6
    <2>2. CASE OfTag(e)
      BY <1>5, <1>8, <1>11, <2>1, <2>2
    <2>3. CASE ~OfTag(e)
      BY <1>4, <1>7, <1>11, <2>1, <2>3
    <2> QED BY <2>2, <2>3
  <1> QED BY <1>2, <1>3, <1>9, <1>10, <1>11 DEF LogPromise

\* The promise of the log, for what a page has gathered.
LEMMA LogEnds ==
    ASSUME ListingIInv, page' = "end", query' = query, during' = during,
           DOMAIN got' = {"count", "runs", "changes"},
           SensibleLogQuery(query),
           NEW s \in during, NEW r \in during, NEW c \in during, NEW t \in during,
           c.log \subseteq t.log,
           got'.count = Cardinality(Selected(s, query)), got'.runs = Selected(r, query),
           got'.changes = MarketChanges(c, got'.runs, query) \union TagChanges(t, got'.runs, query)
    PROVE  /\ AssetsMeanTheirFilters' /\ MarketsMeanTheirFilters'
           /\ MetadataOffers' /\ LogMeansItsFilter'
  <1>1. PICK g : g = got'
    OBVIOUS
  <1>2. LogPromise(during, query, g)
    <2>1. /\ g.count = Cardinality(Selected(s, query)) /\ g.runs = Selected(r, query)
          /\ g.changes = MarketChanges(c, g.runs, query) \union TagChanges(t, g.runs, query)
      BY <1>1
    <2>2. PICK q : q = query
      OBVIOUS
    <2>3. /\ SensibleLogQuery(q)
          /\ g.count = Cardinality(Selected(s, q)) /\ g.runs = Selected(r, q)
          /\ g.changes = MarketChanges(c, g.runs, q) \union TagChanges(t, g.runs, q)
      BY <2>1, <2>2
    <2>4. LogPromise(during, q, g)
      BY <2>3, LogIsMeant
    <2> QED BY <2>2, <2>4
  <1>3. LogPromise(during', query', got')
    BY <1>1, <1>2
  <1>4. LogMeansItsFilter'
    BY <1>3, Zenon DEF LogMeansItsFilter, LogPromise, RunsMeant
  <1>5. AssetsMeanTheirFilters' /\ MarketsMeanTheirFilters' /\ MetadataOffers'
    BY DEF AssetsMeanTheirFilters, MarketsMeanTheirFilters, MetadataOffers
  <1> QED BY <1>4, <1>5

LEMMA ReadChangesKeeps ==
    ASSUME ListingIInv, ReadChanges
    PROVE  ListingIInv'
  <1> DEFINE read == {e \in Changed(Store) :
                         /\ ~OfTag(e) /\ e.run \in got.runs
                         /\ Filters(query) =>
                                Keeps(e, {Shown(e.of), Raw[e.of]}, Contract[e.of], query)}
  <1>1. /\ page = "changes" /\ page' = IF got.runs = {} THEN "end" ELSE "tagged"
        /\ got' = [count |-> got.count, runs |-> got.runs, changes |-> read]
        /\ query' = query /\ during' = during
        /\ UNCHANGED <<store, writes, query, during>>
    BY DEF ReadChanges
  <1>2. StoresRemembered' /\ Store \in during
    BY <1>1, ReadingRemembers
  <1>3. PICK s, r \in during : got = [count |-> Cardinality(Selected(s, query)),
                                    runs |-> Selected(r, query)]
    BY <1>1 DEF ListingIInv, Gathered, GatheredIn
  <1>4. got.count = Cardinality(Selected(s, query)) /\ got.runs = Selected(r, query)
    BY <1>3
  <1>5. read = MarketChanges(Store, got.runs, query)
    <2>1. \A m : Shown(m) = ShownIn(Store, m)
      BY StoreIs DEF Shown, ShownIn
    <2> QED BY <2>1 DEF MarketChanges
  <1> HIDE DEF read
  <1>6. /\ got'.count = Cardinality(Selected(s, query)) /\ got'.runs = Selected(r, query)
        /\ got'.changes = MarketChanges(Store, got'.runs, query)
        /\ DOMAIN got' = {"count", "runs", "changes"}
        /\ got' = [count |-> Cardinality(Selected(s, query)), runs |-> Selected(r, query),
                   changes |-> MarketChanges(Store, Selected(r, query), query)]
    BY <1>1, <1>4, <1>5
  <1>7. CASE got.runs = {}
    <2>1. page' = "end"
      BY <1>1, <1>7
    <2>2. SensibleLogQuery(query)
      BY <1>1, ListingAssumption DEF ListingIInv, Asked
    <2>3. TagChanges(Store, got'.runs, query) = {}
      BY <1>4, <1>6, <1>7 DEF TagChanges
    <2>4. got'.changes = MarketChanges(Store, got'.runs, query) \union TagChanges(Store, got'.runs, query)
      BY <1>6, <2>3
    <2>5. /\ AssetsMeanTheirFilters' /\ MarketsMeanTheirFilters'
          /\ MetadataOffers' /\ LogMeansItsFilter'
      BY <1>1, <1>2, <1>6, <2>1, <2>2, <2>4, LogEnds
    <2> QED BY <1>2, <2>1, <2>5, AtTheEnd DEF ListingIInv
  <1>8. CASE got.runs # {}
    <2>1. page' = "tagged"
      BY <1>1, <1>8
    <2>2. Gathered'
      <3>1. \E x, y, z \in during :
                got' = [count |-> Cardinality(Selected(x, query)), runs |-> Selected(y, query),
                        changes |-> MarketChanges(z, Selected(y, query), query)]
        BY <1>2, <1>6, Zenon
      <3>2. \E x, y, z \in during' :
                got' = [count |-> Cardinality(Selected(x, query')), runs |-> Selected(y, query'),
                        changes |-> MarketChanges(z, Selected(y, query'), query')]
        BY <1>1, <3>1
      <3> QED BY <2>1, <3>2 DEF Gathered, GatheredIn
    <2>3. Asked'
      BY <1>1, <2>1 DEF ListingIInv, Asked
    <2> QED BY <1>2, <2>1, <2>2, <2>3, NotYetNext DEF ListingIInv
  <1> QED BY <1>7, <1>8

LEMMA ReadTaggedKeeps ==
    ASSUME ListingIInv, ReadTagged
    PROVE  ListingIInv'
  <1> DEFINE read == {e \in Changed(Store) :
                         /\ OfTag(e) /\ e.run \in got.runs
                         /\ Filters(query) => Keeps(e, {Canonical[e.of[1]]}, None, query)}
  <1>1. /\ page = "tagged" /\ page' = "end"
        /\ got' = [got EXCEPT !.changes = got.changes \union read]
        /\ query' = query /\ during' = during
        /\ UNCHANGED <<store, writes, query, during>>
    BY DEF ReadTagged
  <1>2. StoresRemembered' /\ Store \in during
    BY <1>1, ReadingRemembers
  <1>3. PICK s, r, c \in during :
            got = [count |-> Cardinality(Selected(s, query)), runs |-> Selected(r, query),
                   changes |-> MarketChanges(c, Selected(r, query), query)]
    BY <1>1 DEF ListingIInv, Gathered, GatheredIn
  <1>4. read = TagChanges(Store, got.runs, query)
    BY DEF TagChanges
  <1> HIDE DEF read
  <1>5. /\ got'.count = Cardinality(Selected(s, query)) /\ got'.runs = Selected(r, query)
        /\ got'.changes = MarketChanges(c, got'.runs, query) \union TagChanges(Store, got'.runs, query)
        /\ DOMAIN got' = {"count", "runs", "changes"}
    <2>1. /\ DOMAIN got = {"count", "runs", "changes"}
          /\ got.count = Cardinality(Selected(s, query)) /\ got.runs = Selected(r, query)
          /\ got.changes = MarketChanges(c, Selected(r, query), query)
      BY <1>3
    <2>2. /\ DOMAIN got' = DOMAIN got
          /\ got'.count = got.count /\ got'.runs = got.runs /\ got'.changes = got.changes \union read
      BY <1>1, <1>3
    <2> QED BY <1>4, <2>1, <2>2
  <1>6. c.log \subseteq Store.log
    BY StoreIs DEF ListingIInv, StoresRemembered
  <1>7. SensibleLogQuery(query)
    BY <1>1, ListingAssumption DEF ListingIInv, Asked
  <1>8. /\ AssetsMeanTheirFilters' /\ MarketsMeanTheirFilters'
        /\ MetadataOffers' /\ LogMeansItsFilter'
    BY <1>1, <1>2, <1>5, <1>6, <1>7, LogEnds
  <1> QED BY <1>1, <1>2, <1>8, AtTheEnd DEF ListingIInv

-----------------------------------------------------------------------------
LEMMA ListingInductive ==
    ASSUME ListingIInv, [ListingNext]_listingVars
    PROVE  ListingIInv'
  <1>1. CASE UNCHANGED listingVars
    <2>1. /\ rows' = rows /\ tags' = tags /\ loans' = loans /\ complete' = complete
          /\ runs' = runs /\ log' = log /\ page' = page /\ query' = query /\ got' = got
          /\ during' = during
      BY <1>1 DEF listingVars, store, catalog, reader
    <2>2. Store' = Store
      BY <2>1 DEF Store
    <2>3. StoresRemembered' /\ Asked' /\ Gathered'
      BY <2>1, <2>2 DEF ListingIInv, StoresRemembered, Asked, Gathered
    <2>4. /\ AssetsMeanTheirFilters' <=> AssetsMeanTheirFilters
          /\ MarketsMeanTheirFilters' <=> MarketsMeanTheirFilters
      BY <2>1 DEF AssetsMeanTheirFilters, MarketsMeanTheirFilters
    <2>5. /\ MetadataOffers' <=> MetadataOffers
          /\ LogMeansItsFilter' <=> LogMeansItsFilter
      BY <2>1 DEF MetadataOffers, LogMeansItsFilter
    <2> QED BY <2>3, <2>4, <2>5 DEF ListingIInv
  <1>2. CASE ListingNext
    <2>1. ASSUME NEW run \in {LastRun, LastRun + 1}, NEW m \in Market, Collect(m, run)
          PROVE  ListingIInv'
      BY <2>1, CollectKeeps
    <2>2. ASSUME NEW run \in {LastRun, LastRun + 1}, NEW venue \in Venue, Confirm(venue, run)
          PROVE  ListingIInv'
      BY <2>2, ConfirmKeeps
    <2>3. ASSUME NEW m \in Market, NEW a \in Asset, Remap(m, a)
          PROVE  ListingIInv'
      BY <2>3, RemapKeeps
    <2>4. ASSUME NEW loan \in Loan, Finance(loan)
          PROVE  ListingIInv'
      BY <2>4, FinanceKeeps
    <2>5. ASSUME NEW tag \in Asset \X Tag, Retag(tag)
          PROVE  ListingIInv'
      BY <2>5, RetagKeeps
    <2>6. ASSUME NEW q \in Query, Ask("markets", q) \/ Ask("assets", q)
          PROVE  ListingIInv'
      BY <2>6, AskKeeps
    <2>7. ASSUME Ask("metadata", None)
          PROVE  ListingIInv'
      BY <2>7, AskKeeps
    <2>8. ASSUME NEW q \in LogQuery, Ask("log", q)
          PROVE  ListingIInv'
      BY <2>8, AskKeeps
    <2>9. CASE ReadMarkets
      BY <2>9, ReadMarketsKeeps
    <2>10. CASE ReadRows \/ ReadTags \/ ReadFinancing \/ ReadDetails
      BY <2>10, ReadRowsKeeps, ReadTagsKeeps, ReadFinancingKeeps, ReadDetailsKeeps
    <2>11. CASE ReadValues
      BY <2>11, ReadValuesKeeps
    <2>12. CASE CountRuns \/ ReadRuns \/ ReadChanges \/ ReadTagged
      BY <2>12, CountRunsKeeps, ReadRunsKeeps, ReadChangesKeeps, ReadTaggedKeeps
    <2> QED BY <1>2, <2>1, <2>2, <2>3, <2>4, <2>5, <2>6, <2>7, <2>8, <2>9, <2>10, <2>11, <2>12
            DEF ListingNext
  <1> QED BY <1>1, <1>2

\* What a page has gathered is, statement by statement, what a state of the store returns
\* that it was in since the page was asked for.
THEOREM ListingInvariant == ListingSpec => []ListingIInv
  <1>1. ListingInit => ListingIInv
    BY ListingInitially
  <1>2. ListingIInv /\ [ListingNext]_listingVars => ListingIInv'
    BY ListingInductive
  <1> QED BY <1>1, <1>2, PTL DEF ListingSpec

\* A page of assets lists exactly what its filters mean in the vocabulary of single market
\* filters, for any catalog, writes and requests, though SQL and Python each evaluate a part
\* (list_assets, _asset_matches).
THEOREM AssetPagesMeanTheirFilters == ListingSpec => []AssetsMeanTheirFilters
  <1>1. ListingIInv => AssetsMeanTheirFilters
    BY DEF ListingIInv
  <1> QED BY <1>1, ListingInvariant, PTL

\* A page of markets differs from a filter without absent values in three cases only
\* (list_markets and the comparisons of its WHERE with NULL).
THEOREM MarketPagesMeanTheirFilters == ListingSpec => []MarketsMeanTheirFilters
  <1>1. ListingIInv => MarketsMeanTheirFilters
    BY DEF ListingIInv
  <1> QED BY <1>1, ListingInvariant, PTL

\* The metadata offers the values by which a page lists something (filter_metadata).
THEOREM MetadataOffersWhatPagesList == ListingSpec => []MetadataOffers
  <1>1. ListingIInv => MetadataOffers
    BY DEF ListingIInv
  <1> QED BY <1>1, ListingInvariant, PTL

\* The log's runs and its changes are filtered by two programs, in SQL and in Python, at
\* different instants, and still agree but for the cases the property names
\* (list_change_log, selected_change).
THEOREM LogPagesMeanTheirFilter == ListingSpec => []LogMeansItsFilter
  <1>1. ListingIInv => LogMeansItsFilter
    BY DEF ListingIInv
  <1> QED BY <1>1, ListingInvariant, PTL
=============================================================================
