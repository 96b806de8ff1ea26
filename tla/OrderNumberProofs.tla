-------------------------- MODULE OrderNumberProofs --------------------------
(***************************************************************************)
(* The proofs of OrderNumber, for numbers of any length: OrderNumberCheck   *)
(* accepts what ends in its check digit, and no mistyped neighbour of it.   *)
(***************************************************************************)
EXTENDS OrderNumber, FiniteSetTheorems, SequenceTheorems, TLAPS

Characters == Digits \cup {NotDigit}

\* The number is made of characters.
TypedInv == number \in Seq(Characters)

Under(f, S) == {p \in S \X (1..18) : p[2] <= f[p[1]]}

LEMMA TotalIs ==
  ASSUME NEW f, NEW S
  PROVE  Total(f, S) = Cardinality(Under(f, S))
BY DEF Total, Under

LEMMA UpTo ==
  ASSUME NEW k \in Nat
  PROVE  IsFiniteSet(1..k) /\ Cardinality(1..k) = k
<1>1. 1 \in Int /\ k \in Int /\ (1 > k => k = 0) /\ k - 1 + 1 = k
  OBVIOUS
<1> QED
  BY <1>1, FS_Interval

LEMMA UnderFinite ==
  ASSUME NEW f, NEW S, IsFiniteSet(S)
  PROVE  IsFiniteSet(Under(f, S)) /\ Total(f, S) \in Nat
<1>1. IsFiniteSet(1..18)
  <2>1. 18 \in Nat
    OBVIOUS
  <2> QED BY <2>1, UpTo, Zenon
<1>2. IsFiniteSet(S \X (1..18))
  BY <1>1, FS_Product
<1>3. Under(f, S) \in SUBSET (S \X (1..18))
  BY DEF Under
<1> QED
  BY <1>2, <1>3, FS_Subset, FS_CardinalityType, TotalIs

\* A sum is a matter of its terms only.
LEMMA SameTotal ==
  ASSUME NEW f, NEW g, NEW S, \A x \in S : f[x] = g[x]
  PROVE  Total(f, S) = Total(g, S)
<1>1. Under(f, S) = Under(g, S)
  BY DEF Under
<1> QED
  BY <1>1, TotalIs

LEMMA TotalOfOne ==
  ASSUME NEW f, NEW x, f[x] \in 0..9
  PROVE  /\ IsFiniteSet(Under(f, {x}))
         /\ Cardinality(Under(f, {x})) = f[x]
<1>1. PICK k \in Nat : k = f[x] /\ k <= 9
  OBVIOUS
<1>2. Under(f, {x}) = {x} \X (1..k)
  BY <1>1 DEF Under
<1>3. IsFiniteSet(1..k) /\ Cardinality(1..k) = k
  BY UpTo
<1>4. IsFiniteSet({x}) /\ Cardinality({x}) = 1
  BY FS_Singleton
<1>5. /\ IsFiniteSet({x} \X (1..k))
      /\ Cardinality({x} \X (1..k)) = 1 * k
  BY <1>3, <1>4, FS_Product
<1>6. 1 * k = k
  BY <1>1
<1>7. IsFiniteSet(Under(f, {x})) /\ Cardinality(Under(f, {x})) = k
  BY <1>2, <1>5, <1>6, Zenon
<1> QED
  BY <1>1, <1>7, Zenon

\* A sum is one of its terms and the sum of the others.
LEMMA TotalSplits ==
  ASSUME NEW f, NEW S, IsFiniteSet(S), NEW x \in S, f[x] \in 0..9
  PROVE  /\ IsFiniteSet(S \ {x})
         /\ Total(f, S \ {x}) \in Nat
         /\ Total(f, S) = Total(f, S \ {x}) + f[x]
<1>0. IsFiniteSet(S \ {x})
  BY FS_RemoveElement
<1>1. Under(f, S) = Under(f, S \ {x}) \cup Under(f, {x})
  BY DEF Under
<1>2. Under(f, S \ {x}) \cap Under(f, {x}) = {}
  BY DEF Under
<1>3. IsFiniteSet(Under(f, S \ {x})) /\ IsFiniteSet(Under(f, {x}))
  BY <1>0, UnderFinite, TotalOfOne
<1>4. PICK k \in Int : k = f[x] /\ Cardinality(Under(f, {x})) = k
  BY TotalOfOne
<1>5. PICK c \in Int : Cardinality(Under(f, S \ {x})) = c
  BY <1>3, FS_CardinalityType
<1>6. Cardinality(Under(f, S)) = c + k - Cardinality({})
  BY <1>1, <1>2, <1>3, <1>4, <1>5, FS_Union
<1>7. Cardinality(Under(f, S)) = c + k
  BY <1>6, FS_EmptySet
<1>8. Total(f, S) = Total(f, S \ {x}) + f[x]
  BY <1>4, <1>5, <1>7, TotalIs
<1> QED
  BY <1>0, <1>8, UnderFinite
\* Two sums of the same terms but one.
LEMMA OneTermDiffers ==
  ASSUME NEW f, NEW g, NEW S, IsFiniteSet(S), NEW x \in S, f[x] \in 0..9, g[x] \in 0..9,
         \A y \in S \ {x} : f[y] = g[y]
  PROVE  /\ Total(f, S \ {x}) \in Nat
         /\ Total(f, S) = Total(f, S \ {x}) + f[x]
         /\ Total(g, S) = Total(f, S \ {x}) + g[x]
<1>1. Total(f, S \ {x}) = Total(g, S \ {x})
  BY SameTotal
<1>2. Total(f, S \ {x}) \in Nat /\ Total(f, S) = Total(f, S \ {x}) + f[x]
  BY TotalSplits
<1>3. Total(g, S) = Total(g, S \ {x}) + g[x]
  BY TotalSplits
<1> QED BY <1>1, <1>2, <1>3

-----------------------------------------------------------------------------
\* Two digits that count the same are the same, also when they are doubled.
LEMMA WeightedIs ==
  ASSUME NEW d \in Digits, NEW p \in Nat
  PROVE  Weighted(d, p) \in 0..9
BY DEF Weighted, Digits

LEMMA WeightedDiffers ==
  ASSUME NEW d \in Digits, NEW e \in Digits, NEW p \in Nat, d # e
  PROVE  Weighted(d, p) # Weighted(e, p)
BY DEF Weighted, Digits

\* Swapped, these two digits are seen.
Differ(d, e) == d # e /\ {d, e} # {0, 9}

\* What two neighbours count changes when they are swapped, unless they are 0 and 9.
LEMMA SwapDiffers ==
  ASSUME NEW d \in Digits, NEW e \in Digits, NEW p \in Nat, Differ(d, e),
         NEW t \in Nat, (t + Weighted(d, p + 1) + Weighted(e, p)) % 10 = 0
  PROVE  (t + Weighted(e, p + 1) + Weighted(d, p)) % 10 # 0
<1>1. d # e /\ ~(d = 0 /\ e = 9) /\ ~(d = 9 /\ e = 0)
  BY DEF Differ
<1>2. p % 2 = 0 <=> (p + 1) % 2 # 0
  OBVIOUS
<1>3. CASE p % 2 = 0
  BY <1>1, <1>2, <1>3 DEF Weighted, Digits
<1>4. CASE p % 2 # 0
  BY <1>1, <1>2, <1>4 DEF Weighted, Digits
<1> QED BY <1>3, <1>4

\* Of the digits that can end a sum only one makes it a multiple of 10.
LEMMA OneRemainder ==
  ASSUME NEW t \in Nat, NEW a \in 0..9, NEW b \in 0..9,
         (t + a) % 10 = 0, (t + b) % 10 = 0
  PROVE  a = b
OBVIOUS

LEMMA SomeRemainder ==
  ASSUME NEW t \in Nat
  PROVE  \E d \in 0..9 : (t + d) % 10 = 0
<1>1. t % 10 \in 0..9
  OBVIOUS
<1>2. t % 10 = 0 => (t + 0) % 10 = 0
  OBVIOUS
<1>3. t % 10 # 0 => 10 - (t % 10) \in 0..9 /\ (t + (10 - (t % 10))) % 10 = 0
  BY <1>1
<1> QED BY <1>2, <1>3

\* If both are multiples of 10, the term that may differ does not.
LEMMA OneTermCounts ==
  ASSUME NEW f, NEW g, NEW S, IsFiniteSet(S), NEW x \in S, f[x] \in 0..9, g[x] \in 0..9,
         \A y \in S \ {x} : f[y] = g[y],
         Total(f, S) % 10 = 0, Total(g, S) % 10 = 0
  PROVE  f[x] = g[x]
<1>1. /\ Total(f, S \ {x}) \in Nat
      /\ Total(f, S) = Total(f, S \ {x}) + f[x]
      /\ Total(g, S) = Total(f, S \ {x}) + g[x]
  BY OneTermDiffers
<1> QED BY <1>1, OneRemainder
-----------------------------------------------------------------------------
\* n is a number of digits.
AllDigits(n) == \A i \in 1..Len(n) : n[i] \in Digits

LEMMA WeightsAre ==
  ASSUME NEW n \in Seq(Characters), AllDigits(n)
  PROVE  \A i \in 1..Len(n) : /\ Weights(n)[i] = Weighted(n[i], Len(n) - i + 1)
                              /\ Len(n) - i + 1 \in Nat
                              /\ Weights(n)[i] \in 0..9
<1> SUFFICES ASSUME NEW i \in 1..Len(n)
             PROVE  /\ Weights(n)[i] = Weighted(n[i], Len(n) - i + 1)
                    /\ Len(n) - i + 1 \in Nat
                    /\ Weights(n)[i] \in 0..9
  OBVIOUS
<1>1. Len(n) \in Nat /\ Len(n) - i + 1 \in Nat
  OBVIOUS
<1>2. Weights(n)[i] = Weighted(n[i], Len(n) - i + 1)
  BY DEF Weights
<1> QED BY <1>1, <1>2, WeightedIs DEF AllDigits

LEMMA PlacesFinite ==
  ASSUME NEW n \in Seq(Characters)
  PROVE  IsFiniteSet(1..Len(n)) /\ Len(n) \in Nat
BY FS_Interval

\* One digit changed: the sum changes, and by less than 10.
LEMMA OneTypo ==
  ASSUME NEW n \in Seq(Characters), OrderNumberCheck(n),
         NEW i \in 1..Len(n), NEW d \in Characters, d # n[i],
         NEW m, m = [n EXCEPT ![i] = d]
  PROVE  ~OrderNumberCheck(m)
<1> SUFFICES ASSUME OrderNumberCheck(m) PROVE FALSE
  OBVIOUS
<1> DEFINE S == 1..Len(n)
<1>1. m \in Seq(Characters) /\ Len(m) = Len(n) /\ m[i] = d
      /\ \A j \in S \ {i} : m[j] = n[j]
  OBVIOUS
<1>2. AllDigits(n) /\ AllDigits(m) /\ d \in Digits /\ n[i] \in Digits
  BY <1>1 DEF OrderNumberCheck, AllDigits
<1>3. /\ \A j \in S : Weights(n)[j] = Weighted(n[j], Len(n) - j + 1)
      /\ \A j \in S : Weights(m)[j] = Weighted(m[j], Len(n) - j + 1)
      /\ Weights(n)[i] \in 0..9 /\ Weights(m)[i] \in 0..9
      /\ Len(n) - i + 1 \in Nat
  BY <1>1, <1>2, WeightsAre
<1>4. \A j \in S \ {i} : Weights(n)[j] = Weights(m)[j]
  BY <1>1, <1>3
<1>5. IsFiniteSet(S) /\ i \in S
  BY PlacesFinite
<1>t. Total(Weights(n), S) % 10 = 0 /\ Total(Weights(m), S) % 10 = 0
  BY <1>1 DEF OrderNumberCheck
<1> HIDE DEF S
<1>8. Weights(n)[i] = Weights(m)[i]
  <2>1. PICK f, g : f = Weights(n) /\ g = Weights(m)
    OBVIOUS
  <2>2. /\ f[i] \in 0..9 /\ g[i] \in 0..9
        /\ \A y \in S \ {i} : f[y] = g[y]
        /\ Total(f, S) % 10 = 0 /\ Total(g, S) % 10 = 0
    BY <1>3, <1>4, <1>t, <2>1
  <2>3. f[i] = g[i]
    BY <1>5, <2>2, OneTermCounts
  <2> QED BY <2>1, <2>3
<1>9. Weighted(n[i], Len(n) - i + 1) = Weighted(d, Len(n) - i + 1)
  BY <1>1, <1>3, <1>5, <1>8
<1> QED BY <1>2, <1>3, <1>9, WeightedDiffers

\* Two neighbours swapped: one of them was doubled, and now it is the other.
LEMMA OneSwap ==
  ASSUME NEW n \in Seq(Characters), OrderNumberCheck(n),
         NEW i \in 1..(Len(n) - 1), Differ(n[i], n[i + 1]),
         NEW m, m = [n EXCEPT ![i] = n[i + 1], ![i + 1] = n[i]]
  PROVE  ~OrderNumberCheck(m)
<1> DEFINE S == 1..Len(n)
           R == (S \ {i + 1}) \ {i}
           p == Len(n) - i
<1>0. i \in S /\ i + 1 \in S /\ i \in S \ {i + 1} /\ p \in Nat
  OBVIOUS
<1>1. m \in Seq(Characters) /\ Len(m) = Len(n) /\ m[i] = n[i + 1] /\ m[i + 1] = n[i]
      /\ \A j \in R : m[j] = n[j]
  OBVIOUS
<1>2. AllDigits(n) /\ AllDigits(m) /\ n[i] \in Digits /\ n[i + 1] \in Digits
  BY <1>0, <1>1 DEF OrderNumberCheck, AllDigits
<1>3. /\ \A j \in S : Weights(n)[j] = Weighted(n[j], Len(n) - j + 1)
      /\ \A j \in S : Weights(m)[j] = Weighted(m[j], Len(n) - j + 1)
      /\ \A j \in S : Weights(n)[j] \in 0..9 /\ Weights(m)[j] \in 0..9
  BY <1>1, <1>2, WeightsAre
<1>4. \A j \in R : Weights(n)[j] = Weights(m)[j]
  BY <1>1, <1>3
<1>5. Len(n) - i + 1 = p + 1 /\ Len(n) - (i + 1) + 1 = p
  OBVIOUS
<1>6. /\ Weights(n)[i] = Weighted(n[i], p + 1)
      /\ Weights(n)[i + 1] = Weighted(n[i + 1], p)
      /\ Weights(m)[i] = Weighted(n[i + 1], p + 1)
      /\ Weights(m)[i + 1] = Weighted(n[i], p)
  BY <1>0, <1>1, <1>3, <1>5
<1>s. /\ Total(Weights(n), S) % 10 = 0
      /\ OrderNumberCheck(m) => Total(Weights(m), S) % 10 = 0
  BY <1>1 DEF OrderNumberCheck
<1>7. PICK k : k = i + 1
  OBVIOUS
<1>f. IsFiniteSet(S) /\ k \in S /\ i \in S \ {k} /\ R = (S \ {k}) \ {i}
  BY <1>0, <1>7, PlacesFinite
<1> HIDE DEF S, R, p
<1>8. Total(Weights(m), S) % 10 # 0
  <2>1. PICK f, g : f = Weights(n) /\ g = Weights(m)
    OBVIOUS
  <2>2. PICK d \in Digits, e \in Digits : d = n[i] /\ e = n[k]
    BY <1>2, <1>7
  <2>3. /\ f[i] = Weighted(d, p + 1) /\ f[k] = Weighted(e, p)
        /\ g[i] = Weighted(e, p + 1) /\ g[k] = Weighted(d, p)
        /\ Differ(d, e) /\ p \in Nat
        /\ \A y \in (S \ {k}) \ {i} : f[y] = g[y]
        /\ Total(f, S) % 10 = 0
    BY <1>0, <1>4, <1>6, <1>7, <1>f, <1>s, <2>1, <2>2
  <2>4. Weighted(d, p + 1) \in 0..9 /\ Weighted(e, p + 1) \in 0..9
        /\ Weighted(d, p) \in 0..9 /\ Weighted(e, p) \in 0..9
    <3>1. p \in Nat /\ p + 1 \in Nat
      BY <2>3
    <3> QED BY <3>1, WeightedIs
  <2>5. PICK t \in Nat : /\ Total(f, S) = t + f[i] + f[k]
                         /\ Total(g, S) = t + g[i] + g[k]
    <3>1. /\ f[k] \in 0..9 /\ f[i] \in 0..9 /\ g[k] \in 0..9 /\ g[i] \in 0..9
          /\ \A y \in (S \ {k}) \ {i} : f[y] = g[y]
      BY <2>3, <2>4
    <3>2. /\ Total(f, (S \ {k}) \ {i}) \in Nat
          /\ Total(f, S) = Total(f, (S \ {k}) \ {i}) + f[i] + f[k]
          /\ Total(g, S) = Total(f, (S \ {k}) \ {i}) + g[i] + g[k]
      <4>1. IsFiniteSet(S) /\ k \in S /\ i \in S \ {k}
        BY <1>f
      <4>2. /\ IsFiniteSet(S \ {k})
            /\ Total(f, S) = Total(f, S \ {k}) + f[k]
        BY <4>1, <3>1, TotalSplits
      <4>3. Total(g, S) = Total(g, S \ {k}) + g[k]
        BY <4>1, <3>1, TotalSplits
      <4>4. /\ Total(f, (S \ {k}) \ {i}) \in Nat
            /\ Total(f, S \ {k}) = Total(f, (S \ {k}) \ {i}) + f[i]
            /\ Total(g, S \ {k}) = Total(f, (S \ {k}) \ {i}) + g[i]
        BY <4>1, <4>2, <3>1, OneTermDiffers
      <4> QED BY <4>2, <4>3, <4>4, <3>1
    <3> QED BY <3>2
  <2>6. (t + Weighted(d, p + 1) + Weighted(e, p)) % 10 = 0
    BY <2>3, <2>5
  <2>7. (t + Weighted(e, p + 1) + Weighted(d, p)) % 10 # 0
    BY <2>3, <2>5, <2>6, SwapDiffers
  <2>8. Total(g, S) % 10 # 0
    BY <2>3, <2>5, <2>7
  <2> QED BY <2>1, <2>8
<1> QED BY <1>8, <1>s
-----------------------------------------------------------------------------
\* The table of the standard says what the check computes.
LEMMA TableIsWeighted ==
  ASSUME NEW d \in Digits, NEW p \in Nat
  PROVE  /\ p % 2 = 0 => <<0, 2, 4, 6, 8, 1, 3, 5, 7, 9>>[d + 1] = Weighted(d, p)
         /\ p % 2 # 0 => d = Weighted(d, p)
BY DEF Weighted, Digits

LEMMA RestIs ==
  ASSUME NEW n \in Seq(Characters), NEW k \in Nat, Len(n) = k + 1
  PROVE  /\ Len(SubSeq(n, 1, k)) = k
         /\ \A j \in 1..k : SubSeq(n, 1, k)[j] = n[j]
<1>1. \A j \in 1..k : n[j] \in Characters
  OBVIOUS
<1>2. 1 \in Int /\ k \in Int /\ k - 1 + 1 = k /\ (~(1 <= k) => k = 0)
  OBVIOUS
<1>3. /\ Len(SubSeq(n, 1, k)) = IF 1 <= k THEN k - 1 + 1 ELSE 0
      /\ \A j \in 1..(k - 1 + 1) : SubSeq(n, 1, k)[j] = n[1 + j - 1]
  BY <1>1, <1>2, SubSeqProperties
<1> QED BY <1>2, <1>3

\* Two places to the left the same digits are doubled.
LEMMA SameParity ==
  ASSUME NEW l \in Nat, NEW j \in 1..l, j # l
  PROVE  \E p \in Nat : p = l - j + 1 /\ (p % 2 = 0 <=> (l - 1 - j) % 2 = 0)
<1>1. l - 1 - j \in Nat /\ l - j + 1 \in Nat /\ l - j + 1 = (l - 1 - j) + 2
  OBVIOUS
<1>2. \A q \in Nat : (q + 2) % 2 = 0 <=> q % 2 = 0
  OBVIOUS
<1> QED BY <1>1, <1>2

LEMMA EndsInCheckDigit ==
  ASSUME NEW n \in Seq(Characters), n # <<>>, AllDigits(n),
         NEW rest, rest = SubSeq(n, 1, Len(n) - 1)
  PROVE  OrderNumberCheck(n) <=> n[Len(n)] = CheckDigit(rest)
<1> DEFINE l == Len(n)
           S == 1..l
           f == [i \in 1..Len(rest) |->
                   IF (Len(rest) - i) % 2 = 0
                   THEN <<0, 2, 4, 6, 8, 1, 3, 5, 7, 9>>[rest[i] + 1] ELSE rest[i]]
<1>1. l \in Nat /\ l > 0 /\ l \in S /\ n[l] \in Digits
  BY DEF AllDigits
<1>2. Len(rest) = l - 1 /\ 1..Len(rest) = S \ {l} /\ \A j \in S \ {l} : rest[j] = n[j]
  <2>1. /\ Len(rest) = l - 1
        /\ \A j \in 1..(l - 1) : rest[j] = n[j]
    <3>1. PICK k \in Nat : k = l - 1 /\ Len(n) = k + 1
      BY <1>1
    <3> QED BY <3>1, RestIs
  <2>2. 1..(l - 1) = S \ {l}
    BY <1>1
  <2> QED BY <2>1, <2>2
<1>3. ASSUME NEW j \in S \ {l} PROVE f[j] = Weights(n)[j]
  <2>1. j \in 1..Len(rest) /\ n[j] \in Digits /\ rest[j] = n[j]
    BY <1>2 DEF AllDigits
  <2>2. PICK p \in Nat : p = l - j + 1 /\ (p % 2 = 0 <=> (l - 1 - j) % 2 = 0)
    BY <1>1, SameParity
  <2>3. Weights(n)[j] = Weighted(n[j], p)
    BY <2>2, WeightsAre
  <2>4. f[j] = IF p % 2 = 0 THEN <<0, 2, 4, 6, 8, 1, 3, 5, 7, 9>>[n[j] + 1] ELSE n[j]
    BY <1>2, <2>1, <2>2
  <2> QED BY <2>1, <2>3, <2>4, TableIsWeighted
<1>4. Weights(n)[l] = n[l] /\ Weights(n)[l] \in 0..9
  <2>1. Weights(n)[l] = Weighted(n[l], l - l + 1) /\ Weights(n)[l] \in 0..9
    BY <1>1, WeightsAre
  <2>2. l - l + 1 = 1 /\ 1 % 2 # 0
    BY <1>1
  <2> QED BY <1>1, <2>1, <2>2, TableIsWeighted
<1>c. CheckDigit(rest) = CHOOSE d \in Digits : (Total(f, 1..Len(rest)) + d) % 10 = 0
  BY DEF CheckDigit
<1>5. PICK t \in Nat : t = Total(f, S \ {l}) /\ Total(Weights(n), S) = t + n[l]
  <2>1. IsFiniteSet(S) /\ l \in S
    BY <1>1, PlacesFinite
  <2> HIDE DEF S, l, f
  <2>2. Total(f, S \ {l}) = Total(Weights(n), S \ {l})
    BY <1>3, SameTotal
  <2>3. /\ Total(Weights(n), S \ {l}) \in Nat
        /\ Total(Weights(n), S) = Total(Weights(n), S \ {l}) + Weights(n)[l]
    BY <1>4, <2>1, TotalSplits
  <2> QED BY <1>4, <2>2, <2>3
<1>6. Total(f, 1..Len(rest)) = t
  BY <1>2, <1>5
<1>7. OrderNumberCheck(n) <=> (t + n[l]) % 10 = 0
  BY <1>5 DEF OrderNumberCheck, AllDigits
<1> HIDE DEF f
<1>8. CheckDigit(rest) = CHOOSE d \in Digits : (t + d) % 10 = 0
  BY <1>6, <1>c
<1>9. CheckDigit(rest) \in Digits /\ (t + CheckDigit(rest)) % 10 = 0
  BY <1>8, SomeRemainder DEF Digits
<1> QED BY <1>1, <1>7, <1>9, OneRemainder DEF Digits
-----------------------------------------------------------------------------
LEMMA Typed == Spec => []TypedInv
<1>1. Init => TypedInv
  BY DEF Init, TypedInv
<1>2. TypedInv /\ [Type]_number => TypedInv'
  BY DEF TypedInv, Type, Characters
<1> QED BY <1>1, <1>2, PTL DEF Spec

\* OrderNumberCheck accepts, of numbers of every length, those that end in the check
\* digit of ISO/IEC 7812.
THEOREM CheckDigitIsAccepted == Spec => []AcceptsCheckDigit
<1>1. TypedInv => AcceptsCheckDigit
  BY EndsInCheckDigit DEF TypedInv, AcceptsCheckDigit, AllDigits
<1> QED BY <1>1, Typed, PTL

\* In numbers of every length OrderNumberCheck finds a digit mistyped and neighbours
\* swapped.
THEOREM TyposRefused == Spec => []TyposAreRefused
<1>1. TypedInv => TyposAreRefused
  BY OneTypo, OneSwap DEF TypedInv, TyposAreRefused, Characters, Differ
<1> QED BY <1>1, Typed, PTL
=============================================================================
