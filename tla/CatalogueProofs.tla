-------------------------- MODULE CatalogueProofs --------------------------
(***************************************************************************)
(* What the bar sells and what its shop lists, which share no state.       *)
(*                                                                         *)
(*   The catalogue: the lines of a package come to its price but for cents *)
(* of the division, and what an order names stays on file; for packages of *)
(* any length, and any number of rows and requests.                        *)
(*   The shop: what was bought stays on the books, and an archived listing *)
(* stays as it was, for any number of listings, photos, bags and admins.   *)
(* A listing is archived for having been sold, and lines of a cart never   *)
(* go away; so no request that saw it unsold can delete it later, and none *)
(* that saw it live can write it, for there is no way back to live.        *)
(***************************************************************************)
EXTENDS Catalogue, Shop, TLAPS, FiniteSetTheorems, WellFoundedInduction, SequenceTheorems

-----------------------------------------------------------------------------
(* Sums.                                                                   *)

\* The n of which a claim is proved from the one before are all of them: of a set
\* that leaves one out, the least it leaves out has none before it.
LEMMA Counting ==
    ASSUME NEW T, 0 \in T, \A k \in Nat : k \in T => k + 1 \in T, NEW n \in Nat
    PROVE  n \in T
<1>1. SUFFICES ASSUME n \notin T PROVE FALSE
  OBVIOUS
<1> DEFINE Out == {0..k : k \in {j \in 0..n : j \notin T}}
<1>2. Out \subseteq FiniteSubsetsOf(0..n)
  <2>1. ASSUME NEW k \in 0..n PROVE 0..k \subseteq 0..n /\ IsFiniteSet(0..k)
    BY FS_Interval
  <2>2. QED BY <2>1 DEF FiniteSubsetsOf
<1>3. Out # {}
  <2>1. 0..n \in Out
    BY <1>1
  <2>2. QED BY <2>1
<1>4. PICK x \in Out : \A y \in Out : ~(<<y, x>> \in StrictSubsetOrdering(0..n))
  <2> HIDE DEF Out
  <2>1. QED BY <1>2, <1>3, WFMin, FS_StrictSubsetOrderingWellFounded
<1>5. PICK k \in 0..n : k \notin T /\ x = 0..k
  OBVIOUS
<1>6. k # 0 /\ k - 1 \in 0..n /\ k - 1 \notin T
  BY <1>5
<1>7. 0..(k - 1) \in Out
  BY <1>6
<1>8. 0..(k - 1) \subseteq 0..k /\ 0..k \subseteq 0..n /\ k \in 0..k /\ k \notin 0..(k - 1)
  BY <1>5
<1>9. <<0..(k - 1), x>> \in StrictSubsetOrdering(0..n)
  <2>1. 0..(k - 1) # 0..k
    BY <1>8
  <2>2. QED BY <1>5, <1>8, <2>1 DEF StrictSubsetOrdering
<1>10. QED BY <1>4, <1>7, <1>9

\* f adds up the first n of parts, one after the other.
Sums(f, parts, n) ==
    f \in [0..n -> Int] /\ f[0] = 0 /\ \A i \in 1..n : f[i] = f[i - 1] + parts[i]

LEMMA SumsExist ==
    ASSUME NEW n \in Nat, NEW parts \in [1..n -> Int]
    PROVE  \E f : Sums(f, parts, n)
<1> DEFINE T == {k \in Nat : k <= n => \E f : Sums(f, parts, k)}
<1>1. 0 \in T
  <2>1. Sums([i \in 0..0 |-> 0], parts, 0)
    BY DEF Sums
  <2>2. QED BY <2>1
<1>2. ASSUME NEW k \in Nat, k \in T PROVE k + 1 \in T
  <2>1. SUFFICES ASSUME k + 1 <= n PROVE \E f : Sums(f, parts, k + 1)
    OBVIOUS
  <2>2. PICK f : Sums(f, parts, k)
    BY <1>2, <2>1
  <2> DEFINE g == [i \in 0..(k + 1) |-> IF i = k + 1 THEN f[k] + parts[k + 1] ELSE f[i]]
  <2>3. f \in [0..k -> Int] /\ k \in 0..k /\ parts[k + 1] \in Int
    BY <2>1, <2>2 DEF Sums
  <2>4. g \in [0..(k + 1) -> Int]
    BY <2>3
  <2>5. g[0] = 0
    BY <2>2 DEF Sums
  <2>6. ASSUME NEW i \in 1..(k + 1) PROVE g[i] = g[i - 1] + parts[i]
    <3>1. CASE i = k + 1
      BY <3>1
    <3>2. CASE i # k + 1
      <4>1. i \in 1..k /\ i - 1 \in 0..(k + 1) /\ i - 1 # k + 1 /\ i \in 0..(k + 1)
        BY <3>2
      <4>2. f[i] = f[i - 1] + parts[i]
        BY <2>2, <4>1 DEF Sums
      <4>3. g[i] = f[i] /\ g[i - 1] = f[i - 1]
        BY <3>2, <4>1
      <4>4. QED BY <4>2, <4>3
    <3>3. QED BY <3>1, <3>2
  <2>7. Sums(g, parts, k + 1)
    BY <2>4, <2>5, <2>6 DEF Sums
  <2>8. QED BY <2>7
<1>3. n \in T
  <2> HIDE DEF T
  <2>1. QED BY <1>1, <1>2, Counting
<1>4. QED BY <1>3

LEMMA PartsAreASequence ==
    ASSUME NEW n \in Nat, NEW S, NEW parts \in [1..n -> S]
    PROVE  parts \in Seq(S) /\ Len(parts) = n
<1>1. parts \in Seq(S)
  BY IsASeq
<1>2. DOMAIN parts = 1..n /\ DOMAIN parts = 1..Len(parts) /\ Len(parts) \in Nat
  BY <1>1, LenProperties
<1>3. QED BY <1>1, <1>2

LEMMA TotalIsTheSum ==
    ASSUME NEW n \in Nat, NEW parts \in [1..n -> Int], NEW f, Sums(f, parts, n)
    PROVE  Total(parts) = f[n] /\ f[n] \in Int
<1> DEFINE Adds(g) == g = [k \in 0..n |-> IF k = 0 THEN 0 ELSE g[k - 1] + parts[k]]
           sum == CHOOSE g : Adds(g)
<1>1. Len(parts) = n
  BY PartsAreASequence
<1>2. Total(parts) = sum[n]
  BY <1>1 DEF Total
<1>3. Adds(f)
  <2>1. ASSUME NEW k \in 0..n PROVE f[k] = IF k = 0 THEN 0 ELSE f[k - 1] + parts[k]
    BY DEF Sums
  <2>2. QED BY <2>1 DEF Sums
<1>4. Adds(sum)
  <2> HIDE DEF Adds
  <2>1. QED BY <1>3
<1>6. \A k \in 0..n : sum[k] = IF k = 0 THEN 0 ELSE sum[k - 1] + parts[k]
  <2> HIDE DEF sum
  <2>1. QED BY <1>4
<1>7. DOMAIN sum = 0..n /\ sum = [k \in 0..n |-> sum[k]]
  <2> HIDE DEF sum
  <2>1. QED BY <1>4
<1>8. sum[n] = f[n]
  <2> HIDE DEF sum
  <2> DEFINE T == {k \in Nat : k <= n => sum[k] = f[k]}
  <2>1. 0 \in T
    BY <1>6 DEF Sums
  <2>2. ASSUME NEW k \in Nat, k \in T PROVE k + 1 \in T
    <3>1. SUFFICES ASSUME k + 1 <= n PROVE sum[k + 1] = f[k + 1]
      OBVIOUS
    <3>2. sum[k] = f[k] /\ k + 1 \in 1..n /\ k + 1 \in 0..n /\ k + 1 # 0
      BY <2>2, <3>1
    <3>3. f[k + 1] = f[(k + 1) - 1] + parts[k + 1] /\ sum[k + 1] = sum[(k + 1) - 1] + parts[k + 1]
      BY <1>6, <3>2 DEF Sums
    <3>4. QED BY <3>2, <3>3
  <2>3. n \in T
    <3> HIDE DEF T
    <3>1. QED BY <2>1, <2>2, Counting
  <2>4. QED BY <2>3
<1>9. QED BY <1>2, <1>8 DEF Sums

LEMMA TotalIsAnInt ==
    ASSUME NEW n \in Nat, NEW parts \in [1..n -> Int]
    PROVE  Total(parts) \in Int
<1>1. PICK f : Sums(f, parts, n)
  BY SumsExist
<1>2. QED BY <1>1, TotalIsTheSum

\* Part by part less is less altogether.
LEMMA TotalIsMonotone ==
    ASSUME NEW n \in Nat, NEW a \in [1..n -> Int], NEW b \in [1..n -> Int],
           \A i \in 1..n : a[i] <= b[i]
    PROVE  Total(a) <= Total(b)
<1>1. PICK f : Sums(f, a, n)
  BY SumsExist
<1>2. PICK g : Sums(g, b, n)
  BY SumsExist
<1> DEFINE T == {k \in Nat : k <= n => f[k] <= g[k]}
<1>3. 0 \in T
  BY <1>1, <1>2 DEF Sums
<1>4. ASSUME NEW k \in Nat, k \in T PROVE k + 1 \in T
  <2>1. SUFFICES ASSUME k + 1 <= n PROVE f[k + 1] <= g[k + 1]
    OBVIOUS
  <2>2. f[k] <= g[k] /\ k + 1 \in 1..n /\ k \in 0..n
    BY <1>4, <2>1
  <2>3. f[k + 1] = f[(k + 1) - 1] + a[k + 1] /\ g[k + 1] = g[(k + 1) - 1] + b[k + 1]
    BY <1>1, <1>2, <2>2 DEF Sums
  <2>4. f[k] \in Int /\ g[k] \in Int /\ a[k + 1] \in Int /\ b[k + 1] \in Int /\ a[k + 1] <= b[k + 1]
    BY <1>1, <1>2, <2>2 DEF Sums
  <2>5. QED BY <2>2, <2>3, <2>4
<1>5. n \in T
  <2> HIDE DEF T
  <2>1. QED BY <1>3, <1>4, Counting
<1>6. QED BY <1>1, <1>2, <1>5, TotalIsTheSum

LEMMA TotalOfTwo ==
    ASSUME NEW n \in Nat, NEW a \in [1..n -> Int], NEW b \in [1..n -> Int],
           NEW c \in [1..n -> Int], \A i \in 1..n : c[i] = a[i] + b[i]
    PROVE  Total(c) = Total(a) + Total(b)
<1>1. PICK f : Sums(f, a, n)
  BY SumsExist
<1>2. PICK g : Sums(g, b, n)
  BY SumsExist
<1> DEFINE h == [k \in 0..n |-> f[k] + g[k]]
<1>3. Sums(h, c, n)
  <2>1. h \in [0..n -> Int] /\ h[0] = 0
    BY <1>1, <1>2 DEF Sums
  <2>2. ASSUME NEW i \in 1..n PROVE h[i] = h[i - 1] + c[i]
    <3>1. f[i] = f[i - 1] + a[i] /\ g[i] = g[i - 1] + b[i] /\ i \in 0..n /\ i - 1 \in 0..n
      BY <1>1, <1>2 DEF Sums
    <3>2. f[i - 1] \in Int /\ g[i - 1] \in Int /\ a[i] \in Int /\ b[i] \in Int
      BY <1>1, <1>2, <3>1 DEF Sums
    <3>3. QED BY <3>1, <3>2
  <2>3. QED BY <2>1, <2>2 DEF Sums
<1>4. h[n] = f[n] + g[n]
  OBVIOUS
<1>5. QED BY <1>1, <1>2, <1>3, <1>4, TotalIsTheSum

\* What one part has more, all have more.
LEMMA TotalOfChange ==
    ASSUME NEW n \in Nat, NEW a \in [1..n -> Int], NEW h \in 1..n, NEW d \in Int
    PROVE  Total([a EXCEPT ![h] = @ + d]) = Total(a) + d
<1> DEFINE b == [a EXCEPT ![h] = @ + d]
<1>1. PICK f : Sums(f, a, n)
  BY SumsExist
<1> DEFINE g == [k \in 0..n |-> IF k < h THEN f[k] ELSE f[k] + d]
<1>2. b \in [1..n -> Int]
  OBVIOUS
<1>3. Sums(g, b, n)
  <2>1. g \in [0..n -> Int] /\ g[0] = 0
    BY <1>1 DEF Sums
  <2>2. ASSUME NEW i \in 1..n PROVE g[i] = g[i - 1] + b[i]
    <3>1. f[i] = f[i - 1] + a[i] /\ i \in 0..n /\ i - 1 \in 0..n
      BY <1>1 DEF Sums
    <3>2. f[i - 1] \in Int /\ a[i] \in Int
      BY <1>1, <3>1 DEF Sums
    <3>3. CASE i < h
      BY <3>1, <3>2, <3>3
    <3>4. CASE i = h
      BY <3>1, <3>2, <3>4
    <3>5. CASE i > h
      BY <3>1, <3>2, <3>5
    <3>6. QED BY <3>3, <3>4, <3>5
  <2>3. QED BY <2>1, <2>2 DEF Sums
<1>4. g[n] = f[n] + d
  OBVIOUS
<1>5. QED BY <1>1, <1>2, <1>3, <1>4, TotalIsTheSum

LEMMA GreatestOfSome ==
    ASSUME NEW n \in Nat, NEW B \in SUBSET (1..n), B # {}
    PROVE  Max(B) \in B
<1> DEFINE Greatest == \E m \in B : \A j \in B : m >= j
           U == {k \in Nat : (\E m \in B : m + k >= n) => Greatest}
<1>1. B \subseteq Nat
  OBVIOUS
<1>2. 0 \in U
  <2>1. ASSUME NEW m \in B, m + 0 >= n PROVE Greatest
    <3>1. \A j \in B : m >= j
      BY <2>1
    <3>2. QED BY <3>1
  <2> HIDE DEF Greatest
  <2>2. QED BY <2>1
<1>3. ASSUME NEW k \in Nat, k \in U PROVE k + 1 \in U
  <2>1. ASSUME NEW m \in B, m + (k + 1) >= n PROVE Greatest
    <3>1. CASE \E o \in B : o + k >= n
      <4> HIDE DEF Greatest
      <4>1. QED BY <1>3, <3>1
    <3>2. CASE ~\E o \in B : o + k >= n
      <4>1. \A j \in B : m >= j
        BY <1>1, <2>1, <3>2
      <4>2. QED BY <4>1
    <3>3. QED BY <3>1, <3>2
  <2> HIDE DEF Greatest
  <2>2. QED BY <2>1
<1>4. n \in U
  <2> HIDE DEF U
  <2>1. QED BY <1>2, <1>3, Counting
<1>5. Greatest
  <2> HIDE DEF Greatest
  <2>1. PICK m : m \in B
    OBVIOUS
  <2>2. m \in Nat
    BY <1>1, <2>1
  <2>3. m + n >= n
    BY <2>2
  <2>4. QED BY <1>4, <2>1, <2>3
<1>6. QED BY <1>5 DEF Max

\* Among finitely many weights there is a greatest, and a last one that is greatest.
LEMMA SomeIsHeaviest ==
    ASSUME NEW n \in Nat \ {0}, NEW weights \in [1..n -> Int]
    PROVE  Max({i \in 1..n : \A j \in 1..n : weights[j] <= weights[i]}) \in 1..n
<1> DEFINE T == {k \in Nat : k + 1 <= n => \E i \in 1..(k + 1) : \A j \in 1..(k + 1) : weights[j] <= weights[i]}
           Best == {i \in 1..n : \A j \in 1..n : weights[j] <= weights[i]}
<1>1. 0 \in T
  <2>1. \E i \in 1..1 : \A j \in 1..1 : weights[j] <= weights[i]
    <3>1. \A j \in 1..1 : weights[j] <= weights[1]
      OBVIOUS
    <3>2. QED BY <3>1
  <2>2. QED BY <2>1
<1>2. ASSUME NEW k \in Nat, k \in T PROVE k + 1 \in T
  <2>1. SUFFICES ASSUME k + 2 <= n
                 PROVE  \E i \in 1..(k + 2) : \A j \in 1..(k + 2) : weights[j] <= weights[i]
    OBVIOUS
  <2>2. PICK i \in 1..(k + 1) : \A j \in 1..(k + 1) : weights[j] <= weights[i]
    BY <1>2, <2>1
  <2>3. weights[i] \in Int /\ weights[k + 2] \in Int /\ k + 2 \in 1..(k + 2) /\ i \in 1..(k + 2)
    BY <2>1
  <2>4. CASE weights[k + 2] <= weights[i]
    <3>1. \A j \in 1..(k + 2) : weights[j] <= weights[i]
      <4>1. \A j \in 1..(k + 2) : j = k + 2 \/ j \in 1..(k + 1)
        OBVIOUS
      <4>2. QED BY <2>2, <2>4, <4>1
    <3>2. QED BY <2>3, <3>1
  <2>5. CASE ~(weights[k + 2] <= weights[i])
    <3>1. \A j \in 1..(k + 2) : weights[j] <= weights[k + 2]
      <4>1. \A j \in 1..(k + 2) : (j = k + 2 \/ j \in 1..(k + 1)) /\ weights[j] \in Int
        BY <2>1
      <4>2. QED BY <2>2, <2>3, <2>5, <4>1
    <3>2. QED BY <2>3, <3>1
  <2>6. QED BY <2>4, <2>5
<1>3. n - 1 \in T
  <2> HIDE DEF T
  <2>1. n - 1 \in Nat
    OBVIOUS
  <2>2. QED BY <1>1, <1>2, <2>1, Counting
<1>4. Best # {}
  <2>1. (n - 1) + 1 = n
    OBVIOUS
  <2>2. \E i \in 1..n : \A j \in 1..n : weights[j] <= weights[i]
    BY <1>3, <2>1
  <2>3. QED BY <2>2
<1>5. Best \subseteq 1..n
  OBVIOUS
<1>6. Max(Best) \in Best
  <2> HIDE DEF Best
  <2>1. n \in Nat
    OBVIOUS
  <2>2. QED BY <1>4, <1>5, <2>1, GreatestOfSome
<1>7. QED BY <1>6

-----------------------------------------------------------------------------
(* The parts of a package.                                                 *)

LEMMA SplitPriceAddsUp ==
    ASSUME NEW n \in Nat \ {0}, NEW weights \in [1..n -> Int], NEW total \in Int
    PROVE  /\ SplitPrice(total, weights) \in [1..n -> Int]
           /\ Total(SplitPrice(total, weights)) = total
<1> DEFINE sum == Total(weights)
           share == [i \in 1..n |-> IF sum <= 0 THEN total \div n ELSE (total * weights[i]) \div sum]
           heaviest == IF sum <= 0 THEN 1 ELSE Max({i \in 1..n : \A j \in 1..n : weights[j] <= weights[i]})
           rest == total - Total(share)
<1>1. Len(weights) = n /\ sum \in Int
  BY PartsAreASequence, TotalIsAnInt
<1>2. share \in [1..n -> Int]
  <2>1. ASSUME NEW i \in 1..n PROVE share[i] \in Int
    <3> HIDE DEF sum
    <3>1. CASE sum <= 0
      BY <3>1
    <3>2. CASE ~(sum <= 0)
      <4>1. sum \in Int /\ sum > 0 /\ total * weights[i] \in Int
        BY <1>1, <3>2
      <4>2. (total * weights[i]) \div sum \in Int
        BY <4>1
      <4>3. QED BY <3>2, <4>2
    <3>3. QED BY <3>1, <3>2
  <2>2. QED BY <2>1
<1>3. heaviest \in 1..n
  BY SomeIsHeaviest
<1>4. Total(share) \in Int /\ rest \in Int
  <2> HIDE DEF share
  <2>1. QED BY <1>2, TotalIsAnInt
<1>5. SplitPrice(total, weights) = [share EXCEPT ![heaviest] = @ + total - Total(share)]
  BY <1>1 DEF SplitPrice
<1>6. [share EXCEPT ![heaviest] = @ + total - Total(share)] = [share EXCEPT ![heaviest] = @ + rest]
  <2> HIDE DEF share, heaviest
  <2>1. share[heaviest] \in Int
    BY <1>2, <1>3
  <2>2. share[heaviest] + total - Total(share) = share[heaviest] + rest
    BY <1>4, <2>1
  <2>3. QED BY <2>2
<1>7. [share EXCEPT ![heaviest] = @ + rest] \in [1..n -> Int]
  <2>1. PICK s, h, d : s = share /\ h = heaviest /\ d = rest
    OBVIOUS
  <2> HIDE DEF share, heaviest, rest
  <2>2. s \in [1..n -> Int] /\ h \in 1..n /\ d \in Int /\ s[h] + d \in Int
    BY <1>2, <1>3, <1>4, <2>1
  <2>3. [s EXCEPT ![h] = @ + d] \in [1..n -> Int]
    BY <2>2
  <2>4. QED BY <2>1, <2>3
<1>8. Total([share EXCEPT ![heaviest] = @ + rest]) = Total(share) + rest
  <2>1. PICK s, h, d : s = share /\ h = heaviest /\ d = rest
    OBVIOUS
  <2> HIDE DEF share, heaviest, rest
  <2>2. n \in Nat /\ s \in [1..n -> Int] /\ h \in 1..n /\ d \in Int
    BY <1>2, <1>3, <1>4, <2>1
  <2>3. Total([s EXCEPT ![h] = @ + d]) = Total(s) + d
    BY <2>2, TotalOfChange
  <2>4. QED BY <2>1, <2>3
<1>9. Total(share) + rest = total
  <2>1. PICK t \in Int : t = Total(share)
    BY <1>4
  <2>2. rest = total - t
    BY <2>1
  <2> HIDE DEF share, rest
  <2>3. QED BY <2>1, <2>2
<1>10. QED
  <2> HIDE DEF share, heaviest, rest
  <2>1. QED BY <1>5, <1>6, <1>7, <1>8, <1>9

\* Division by the bottles of a line loses less than a cent for each but one.
LEMMA DividedByBottles ==
    ASSUME NEW part \in Int, NEW bottles \in Nat \ {0}
    PROVE  /\ part \div bottles \in Int
           /\ (part \div bottles) * bottles <= part
           /\ part <= (part \div bottles) * bottles + (bottles - 1)
OBVIOUS

\* What lines say they cost is price, short of less than a cent for each bottle
\* after the first of a line.
AddsUp(price, lines) ==
    LET charged == Total([i \in DOMAIN lines |-> lines[i].unit * lines[i].quantity])
        bottles == Total([i \in DOMAIN lines |-> lines[i].quantity - 1])
    IN charged <= price /\ price <= charged + bottles

LEMMA PartsAddUp ==
    ASSUME NEW n \in Nat \ {0}, NEW price \in Int, NEW part \in [1..n -> Int], Total(part) = price,
           NEW lines, DOMAIN lines = 1..n,
           \A i \in 1..n : /\ lines[i].quantity \in Nat \ {0}
                           /\ lines[i].unit = part[i] \div lines[i].quantity
    PROVE  /\ AddsUp(price, lines)
           /\ \A i \in 1..n : lines[i].unit \in Int
<1> DEFINE charged == [i \in 1..n |-> lines[i].unit * lines[i].quantity]
           bottles == [i \in 1..n |-> lines[i].quantity - 1]
           both == [i \in 1..n |-> charged[i] + bottles[i]]
<1>1. ASSUME NEW i \in 1..n
      PROVE  /\ lines[i].unit \in Int
             /\ lines[i].unit * lines[i].quantity \in Int
             /\ lines[i].quantity - 1 \in Int
             /\ lines[i].unit * lines[i].quantity <= part[i]
             /\ part[i] <= lines[i].unit * lines[i].quantity + (lines[i].quantity - 1)
  <2>1. PICK q \in Nat \ {0} : q = lines[i].quantity
    OBVIOUS
  <2>2. PICK p \in Int : p = part[i]
    OBVIOUS
  <2>3. lines[i].unit = p \div q
    BY <2>1, <2>2
  <2>4. PICK u \in Int : u = p \div q
    BY DividedByBottles
  <2>5. u * q <= p /\ p <= u * q + (q - 1)
    <3>1. (p \div q) * q <= p /\ p <= (p \div q) * q + (q - 1)
      BY DividedByBottles
    <3>2. QED BY <2>4, <3>1, Zenon
  <2>7. u * q \in Int /\ q - 1 \in Int
    OBVIOUS
  <2>8. QED BY <2>1, <2>2, <2>3, <2>4, <2>5, <2>7, Zenon
<1>2. charged \in [1..n -> Int] /\ bottles \in [1..n -> Int]
  BY <1>1
<1>3. both \in [1..n -> Int] /\ \A i \in 1..n : both[i] = charged[i] + bottles[i]
  <2> HIDE DEF charged, bottles
  <2>1. QED BY <1>2
<1>4. \A i \in 1..n : charged[i] <= part[i] /\ part[i] <= both[i]
  BY <1>1
<1> HIDE DEF charged, bottles, both
<1>5. Total(charged) <= Total(part) /\ Total(part) <= Total(both)
  BY <1>2, <1>3, <1>4, TotalIsMonotone
<1>6. n \in Nat
  OBVIOUS
<1>10. Total(both) = Total(charged) + Total(bottles)
  <2>1. charged \in [1..n -> Int] /\ bottles \in [1..n -> Int] /\ both \in [1..n -> Int]
    BY <1>2, <1>3
  <2>2. \A i \in 1..n : both[i] = charged[i] + bottles[i]
    BY <1>3
  <2>3. QED BY <1>6, <2>1, <2>2, TotalOfTwo, ZenonT(30)
<1>7. Total(charged) <= price /\ price <= Total(charged) + Total(bottles)
  BY <1>5, <1>10
<1>8. AddsUp(price, lines)
  BY <1>7 DEF AddsUp, charged, bottles
<1>9. QED BY <1>1, <1>8

-----------------------------------------------------------------------------
(* The invariant.                                                          *)

\* What intake has read of a package: it has items, and its lines cost what it costs.
Reckoned(r) ==
    /\ r.pc = "items" => r.items # << >>
    /\ r.pc = "lines" /\ r.p # Nothing =>
         AddsUp(r.price, r.lines) /\ \A i \in DOMAIN r.lines : r.lines[i].unit \in Int

DesksInv ==
    /\ DOMAIN desk = Desks
    /\ \A d \in Desks : desk[d] \in Desk /\ Reckoned(desk[d])

\* The rows of the bar are typed and their keys hold.
RowsTyped ==
    /\ ingredient \in [Ingredients -> {"none", "off", "on", "gone"}]
    /\ scent \in [Scents -> Scent]
    /\ DOMAIN package = Packages /\ \A p \in Packages : package[p] \in Package
    /\ DOMAIN sale = Sales /\ \A x \in Sales : sale[x] \in Sale
FormulasOnFile ==
    \A s \in Scents : \A g \in Made(scent[s].formula) : ingredient[g] \in {"off", "on"}
ItemsOnFile ==
    \A p \in Packages : \A i \in Range(package[p].items) : Exists(i.scent)

RowsInv == RowsTyped /\ FormulasOnFile /\ ItemsOnFile /\ HistoryIsReadable

CatalogueInv == RowsInv /\ DesksInv /\ PackagesAddUp

LEMMA CatalogueInvIsTyped ==
    ASSUME CatalogueInv
    PROVE  CatalogueTypeOK /\ HistoryIsReadable /\ PackagesAddUp
BY DEF CatalogueInv, RowsInv, RowsTyped, FormulasOnFile, ItemsOnFile, DesksInv, CatalogueTypeOK

-----------------------------------------------------------------------------
(* Rows and requests.                                                      *)

LEMMA CatalogueRows ==
    ASSUME RowsTyped
    PROVE  /\ \A s \in Scents : /\ scent[s].is \in {"none", "off", "on", "gone"}
                                /\ scent[s].prices \in Price
                                /\ scent[s].formula \in Formulas \union {Empty}
           /\ \A p \in Packages : /\ package[p].is \in {"none", "offered", "withdrawn", "gone"}
                                  /\ package[p].price \in Nat /\ package[p].items \in Seq(Item)
           /\ \A x \in Sales : sale[x].is = "lead" =>
                /\ sale[x].p \in Packages \union {Nothing}
                /\ sale[x].price \in Nat /\ sale[x].lines \in Seq(Line)
BY DEF RowsTyped, Scent, Package, Sale

LEMMA CatalogueRequests ==
    ASSUME NEW r \in Desk
    PROVE  /\ r.pc = "edit" => r.s \in Scents /\ r.edit \in ScentEdit
           /\ r.pc = "delete scent" => r.s \in Scents
           /\ r.pc = "delete ingredient" => r.g \in Ingredients
           /\ r.pc = "delete package" => r.p \in Packages
           /\ r.pc = "package" => r.p \in Packages /\ r.price \in Nat
           /\ r.pc = "items" => r.p \in Packages /\ r.price \in Nat /\ r.items \in Seq(Item)
           /\ r.pc = "lines" =>
                r.p \in Packages \union {Nothing} /\ r.price \in Nat /\ r.lines \in Seq(Line)
BY DEF Desk

\* The members of a sequence are of its set.
LEMMA Members ==
    ASSUME NEW S, NEW seq \in Seq(S)
    PROVE  /\ Len(seq) \in Nat /\ DOMAIN seq = 1..Len(seq) /\ seq \in [1..Len(seq) -> S]
           /\ Range(seq) \subseteq S
<1>1. Len(seq) \in Nat /\ DOMAIN seq = 1..Len(seq) /\ seq \in [1..Len(seq) -> S]
  BY LenProperties
<1>2. QED BY <1>1 DEF Range

LEMMA DesksStep ==
    ASSUME DesksInv, NEW d \in Desks, NEW r \in Desk, Reckoned(r), Goto(d, r)
    PROVE  DesksInv'
<1>1. DOMAIN desk' = Desks /\ \A e \in Desks : desk'[e] = IF e = d THEN r ELSE desk[e]
  BY DEF DesksInv, Goto
<1>2. ASSUME NEW e \in Desks PROVE desk'[e] \in Desk /\ Reckoned(desk'[e])
  <2>1. PICK q : q = desk'[e]
    OBVIOUS
  <2>2. q \in Desk /\ Reckoned(q)
    BY <1>1, <2>1 DEF DesksInv
  <2>3. QED BY <2>1, <2>2
<1>3. QED BY <1>1, <1>2 DEF DesksInv

LEMMA DesksStay == ASSUME DesksInv, UNCHANGED desk PROVE DesksInv'
BY DEF DesksInv

LEMMA RequestIsDone ==
    ASSUME DesksInv, NEW d \in Desks, Goto(d, NoRequest)
    PROVE  DesksInv'
<1>1. NoRequest \in Desk /\ Reckoned(NoRequest)
  BY DEF NoRequest, Desk, Reckoned
<1>2. QED BY <1>1, DesksStep

LEMMA RowsStay ==
    ASSUME RowsInv, PackagesAddUp, UNCHANGED <<ingredient, scent, package, sale>>
    PROVE  RowsInv' /\ PackagesAddUp'
<1>1. RowsTyped' /\ FormulasOnFile' /\ ItemsOnFile'
  BY DEF RowsInv, RowsTyped, FormulasOnFile, ItemsOnFile, Made, Exists
<1>2. HistoryIsReadable'
  BY DEF RowsInv, HistoryIsReadable, Made, Exists
<1>3. PackagesAddUp'
  BY DEF PackagesAddUp
<1>4. QED BY <1>1, <1>2, <1>3 DEF RowsInv

LEMMA SalesStay == ASSUME PackagesAddUp, UNCHANGED sale PROVE PackagesAddUp'
BY DEF PackagesAddUp

\* A request that only reads.
LEMMA ReadsOnly ==
    ASSUME CatalogueInv, NEW d \in Desks, NEW r \in Desk, Reckoned(r), Goto(d, r),
           UNCHANGED <<ingredient, scent, package, sale>>
    PROVE  CatalogueInv'
BY DesksStep, RowsStay DEF CatalogueInv

-----------------------------------------------------------------------------
(* Ingredients.                                                            *)

\* An ingredient may change while no formula that is on file names one that goes.
LEMMA IngredientsStep ==
    ASSUME RowsInv, UNCHANGED <<scent, package, sale>>,
           ingredient' \in [Ingredients -> {"none", "off", "on", "gone"}],
           \A g \in Ingredients : ingredient[g] \in {"off", "on"} /\ UsedIn(g) # {} => ingredient'[g] \in {"off", "on"}
    PROVE  RowsInv'
<1>1. RowsTyped' /\ ItemsOnFile'
  BY DEF RowsInv, RowsTyped, ItemsOnFile, Exists
<1>2. ASSUME NEW s \in Scents, NEW g \in Made(scent[s].formula) PROVE ingredient'[g] \in {"off", "on"}
  <2>1. g \in Ingredients /\ ingredient[g] \in {"off", "on"}
    BY DEF RowsInv, FormulasOnFile, Made
  <2>2. s \in UsedIn(g)
    BY DEF UsedIn
  <2>3. QED BY <2>1, <2>2
<1>3. FormulasOnFile'
  BY <1>2 DEF FormulasOnFile, Made
<1>4. ASSUME NEW x \in Sales, sale[x].is = "lead", NEW l \in Range(sale[x].lines)
      PROVE  l.scent \in Scents /\ Exists(l.scent)
  <2>1. sale[x].lines \in Seq(Line)
    BY <1>4, CatalogueRows DEF RowsInv
  <2>2. l \in Line
    BY <2>1, Members
  <2>3. QED BY <1>4, <2>2 DEF Line, RowsInv, HistoryIsReadable
<1>5. HistoryIsReadable'
  <2>1. SUFFICES ASSUME NEW x \in Sales, sale[x].is = "lead"
                 PROVE  /\ \A l \in Range(sale[x].lines) :
                             /\ Exists(l.scent)
                             /\ \A g \in Made(scent[l.scent].formula) : ingredient'[g] \in {"off", "on"}
                        /\ sale[x].p # Nothing => package[sale[x].p].is \in {"offered", "withdrawn"}
    BY DEF HistoryIsReadable, Exists, Made
  <2>2. QED BY <1>2, <1>4, <2>1 DEF RowsInv, HistoryIsReadable
<1>6. QED BY <1>1, <1>3, <1>5 DEF RowsInv

LEMMA CreateIngredientKeeps ==
    ASSUME CatalogueInv, NEW g \in Ingredients, CreateIngredient(g) \/ SwitchIngredient(g)
    PROVE  CatalogueInv'
<1>1. ingredient \in [Ingredients -> {"none", "off", "on", "gone"}]
  BY DEF CatalogueInv, RowsInv, RowsTyped
<1>2. /\ ingredient' \in [Ingredients -> {"none", "off", "on", "gone"}]
      /\ \A h \in Ingredients : ingredient[h] \in {"off", "on"} => ingredient'[h] \in {"off", "on"}
      /\ UNCHANGED <<scent, package, sale, desk>>
  BY <1>1 DEF CreateIngredient, SwitchIngredient
<1>3. RowsInv'
  BY <1>2, IngredientsStep DEF CatalogueInv
<1>4. QED BY <1>2, <1>3, DesksStay, SalesStay DEF CatalogueInv

LEMMA DeleteIngredientKeeps ==
    ASSUME CatalogueInv, NEW d \in Desks, DeleteIngredient(d)
    PROVE  CatalogueInv'
<1>1. PICK g : g = desk[d].g
  OBVIOUS
<1>2. g \in Ingredients
  BY <1>1, CatalogueRequests DEF CatalogueInv, DesksInv, DeleteIngredient
<1>3. /\ UsedIn(g) = {} /\ ingredient' = [ingredient EXCEPT ![g] = "gone"]
      /\ UNCHANGED <<scent, package, sale>> /\ Goto(d, NoRequest)
  BY <1>1 DEF DeleteIngredient, Unused
<1>4. /\ ingredient' \in [Ingredients -> {"none", "off", "on", "gone"}]
      /\ \A h \in Ingredients : ingredient[h] \in {"off", "on"} /\ UsedIn(h) # {} => ingredient'[h] \in {"off", "on"}
  BY <1>2, <1>3 DEF CatalogueInv, RowsInv, RowsTyped
<1>5. RowsInv'
  BY <1>3, <1>4, IngredientsStep DEF CatalogueInv
<1>6. QED BY <1>3, <1>5, RequestIsDone, SalesStay DEF CatalogueInv

-----------------------------------------------------------------------------
(* Scents.                                                                 *)

LEMMA EmptyIsKeyed == Made(Empty) = {}
BY DEF Made, Empty

\* A scent may be written with a formula that is on file, and may go when no order
\* and no package names it.
LEMMA ScentStep ==
    ASSUME RowsInv, NEW s \in Scents, NEW row \in Scent, scent' = [scent EXCEPT ![s] = row],
           UNCHANGED <<ingredient, package, sale>>, Keyed(row.formula),
           row.is \in {"off", "on"} \/ (OnSales(s) = {} /\ InPackages(s) = {})
    PROVE  RowsInv'
<1>1. /\ scent \in [Scents -> Scent]
      /\ \A t \in Scents : scent'[t] = IF t = s THEN row ELSE scent[t]
  BY DEF RowsInv, RowsTyped
<1>2. RowsTyped'
  BY DEF RowsInv, RowsTyped
<1>3. FormulasOnFile'
  <2>1. ASSUME NEW t \in Scents, NEW g \in Ingredients, g \in DOMAIN scent'[t].formula
        PROVE  ingredient[g] \in {"off", "on"}
    <3>1. CASE t = s
      BY <1>1, <2>1, <3>1 DEF Keyed, Made
    <3>2. CASE t # s
      BY <1>1, <2>1, <3>2 DEF RowsInv, FormulasOnFile, Made
    <3>3. QED BY <3>1, <3>2
  <2>2. QED BY <2>1 DEF FormulasOnFile, Made
<1>4. ItemsOnFile'
  <2>1. ASSUME NEW p \in Packages, NEW i \in Range(package[p].items)
        PROVE  scent'[i.scent].is \in {"off", "on"}
    <3>1. i \in Item
      BY Members, CatalogueRows DEF RowsInv
    <3>2. i.scent \in Scents /\ scent[i.scent].is \in {"off", "on"}
      BY <2>1, <3>1 DEF Item, RowsInv, ItemsOnFile, Exists
    <3>3. CASE i.scent = s
      <4>1. p \in InPackages(s)
        BY <2>1, <3>3 DEF InPackages
      <4>2. QED BY <1>1, <3>3, <4>1
    <3>4. CASE i.scent # s
      BY <1>1, <3>2, <3>4
    <3>5. QED BY <3>3, <3>4
  <2>2. QED BY <2>1 DEF ItemsOnFile, Exists
<1>5. HistoryIsReadable'
  <2>1. ASSUME NEW x \in Sales, sale[x].is = "lead", NEW l \in Range(sale[x].lines)
        PROVE  l.scent \in Scents /\ scent'[l.scent].is \in {"off", "on"}
    <3>1. l \in Line
      BY <2>1, Members, CatalogueRows DEF RowsInv
    <3>2. l.scent \in Scents /\ scent[l.scent].is \in {"off", "on"}
      BY <2>1, <3>1 DEF Line, RowsInv, HistoryIsReadable, Exists
    <3>3. CASE l.scent = s
      <4>1. x \in OnSales(s)
        BY <2>1, <3>3 DEF OnSales
      <4>2. QED BY <1>1, <3>2, <3>3, <4>1
    <3>4. CASE l.scent # s
      BY <1>1, <3>2, <3>4
    <3>5. QED BY <3>3, <3>4
  <2>2. SUFFICES ASSUME NEW x \in Sales, sale[x].is = "lead"
                 PROVE  /\ \A l \in Range(sale[x].lines) :
                             /\ scent'[l.scent].is \in {"off", "on"}
                             /\ \A g \in Ingredients : g \in DOMAIN scent'[l.scent].formula => ingredient'[g] \in {"off", "on"}
                        /\ sale[x].p # Nothing => package[sale[x].p].is \in {"offered", "withdrawn"}
    BY DEF HistoryIsReadable, Exists, Made
  <2>3. ASSUME NEW l \in Range(sale[x].lines), NEW g \in Ingredients, g \in DOMAIN scent'[l.scent].formula
        PROVE  ingredient'[g] \in {"off", "on"}
    BY <1>3, <2>1, <2>2, <2>3 DEF FormulasOnFile, Made
  <2>4. QED BY <2>1, <2>2, <2>3 DEF RowsInv, HistoryIsReadable
<1>6. QED BY <1>2, <1>3, <1>4, <1>5 DEF RowsInv

LEMMA ValidIsKeyed == ASSUME NEW f, ValidFormula(f) PROVE Keyed(f)
BY EmptyIsKeyed DEF ValidFormula, Keyed

LEMMA CreateScentKeeps ==
    ASSUME CatalogueInv, NEW s \in Scents, NEW f \in Formulas \union {Empty}, CreateScent(s, f)
    PROVE  CatalogueInv'
<1>1. PICK row : row = [is |-> IF f = Empty THEN "off" ELSE "on", formula |-> f, prices |-> NoPrices]
  OBVIOUS
<1>2. row \in Scent /\ row.is \in {"off", "on"} /\ row.formula = f
  BY <1>1 DEF Scent, NoPrices, Price
<1>3. scent' = [scent EXCEPT ![s] = row] /\ Keyed(row.formula) /\ UNCHANGED <<ingredient, package, sale, desk>>
  BY <1>1, <1>2, ValidIsKeyed DEF CreateScent
<1>4. RowsInv'
  BY <1>2, <1>3, ScentStep DEF CatalogueInv
<1>5. QED BY <1>3, <1>4, DesksStay, SalesStay DEF CatalogueInv

LEMMA EditedIsScent ==
    ASSUME NEW row \in Scent, NEW edit \in ScentEdit
    PROVE  /\ Edited(row, edit) \in Scent
           /\ row.is \in {"off", "on"} => Edited(row, edit).is \in {"off", "on"}
           /\ Edited(row, edit).formula = IF edit.formula = Same THEN row.formula ELSE edit.formula
BY DEF Edited, Scent, ScentEdit

LEMMA FinishEditKeeps ==
    ASSUME CatalogueInv, NEW d \in Desks, FinishEdit(d)
    PROVE  CatalogueInv'
<1>1. PICK s, edit : s = desk[d].s /\ edit = desk[d].edit
  OBVIOUS
<1>2. s \in Scents /\ edit \in ScentEdit
  BY <1>1, CatalogueRequests DEF CatalogueInv, DesksInv, FinishEdit
<1>3. PICK row : row = Edited(scent[s], edit)
  OBVIOUS
<1>4. scent[s] \in Scent /\ scent[s].is \in {"off", "on"} /\ Keyed(scent[s].formula)
  BY <1>1, <1>2 DEF CatalogueInv, RowsInv, RowsTyped, FormulasOnFile, Keyed, FinishEdit, Exists
<1>5. row \in Scent /\ row.is \in {"off", "on"}
  BY <1>2, <1>3, <1>4, EditedIsScent
<1>6. Keyed(row.formula)
  <2>1. edit.formula # Same => Keyed(edit.formula)
    BY <1>1 DEF FinishEdit
  <2>2. row.formula = IF edit.formula = Same THEN scent[s].formula ELSE edit.formula
    BY <1>2, <1>3, <1>4, EditedIsScent
  <2>3. QED BY <1>4, <2>1, <2>2
<1>7. scent' = [scent EXCEPT ![s] = row] /\ UNCHANGED <<ingredient, package, sale>> /\ Goto(d, NoRequest)
  BY <1>1, <1>2, <1>3 DEF FinishEdit, CatalogueInv, RowsInv, RowsTyped
<1>8. RowsInv'
  BY <1>2, <1>5, <1>6, <1>7, ScentStep DEF CatalogueInv
<1>9. QED BY <1>7, <1>8, RequestIsDone, SalesStay DEF CatalogueInv

LEMMA DeleteScentKeeps ==
    ASSUME CatalogueInv, NEW d \in Desks, DeleteScent(d)
    PROVE  CatalogueInv'
<1>1. PICK s : s = desk[d].s
  OBVIOUS
<1>2. s \in Scents
  BY <1>1, CatalogueRequests DEF CatalogueInv, DesksInv, DeleteScent
<1>3. PICK row : row = [NoScent EXCEPT !.is = "gone"]
  OBVIOUS
<1>4. row \in Scent /\ row.formula = Empty
  BY <1>3 DEF NoScent, Scent, NoPrices, Price
<1>5. Keyed(row.formula)
  BY <1>4, EmptyIsKeyed DEF Keyed
<1>6. /\ OnSales(s) = {} /\ InPackages(s) = {} /\ scent' = [scent EXCEPT ![s] = row]
      /\ UNCHANGED <<ingredient, package, sale>> /\ Goto(d, NoRequest)
  BY <1>1, <1>3 DEF DeleteScent
<1>7. RowsInv'
  BY <1>2, <1>4, <1>5, <1>6, ScentStep DEF CatalogueInv
<1>8. QED BY <1>6, <1>7, RequestIsDone, SalesStay DEF CatalogueInv

-----------------------------------------------------------------------------
(* Packages.                                                               *)

\* A package may be written when its items are on file, and may go unsold.
LEMMA PackageStep ==
    ASSUME RowsInv, NEW p \in Packages, NEW row \in Package, package' = [package EXCEPT ![p] = row],
           UNCHANGED <<ingredient, scent, sale>>, \A i \in Range(row.items) : Exists(i.scent),
           row.is \in {"offered", "withdrawn"} \/ SoldAs(p) = {}
    PROVE  RowsInv'
<1>1. DOMAIN package' = Packages /\ \A q \in Packages : package'[q] = IF q = p THEN row ELSE package[q]
  BY DEF RowsInv, RowsTyped
<1>2. RowsTyped' /\ FormulasOnFile'
  BY <1>1 DEF RowsInv, RowsTyped, FormulasOnFile, Made
<1>3. ItemsOnFile'
  BY <1>1 DEF RowsInv, ItemsOnFile, Exists
<1>4. HistoryIsReadable'
  <2>1. ASSUME NEW x \in Sales, sale[x].is = "lead", sale[x].p # Nothing
        PROVE  package'[sale[x].p].is \in {"offered", "withdrawn"}
    <3>1. sale[x].p \in Packages
      BY <2>1, CatalogueRows DEF RowsInv
    <3>2. CASE sale[x].p = p
      <4>1. x \in SoldAs(p)
        BY <2>1, <3>2 DEF SoldAs
      <4>2. QED BY <1>1, <3>2, <4>1
    <3>3. CASE sale[x].p # p
      BY <1>1, <2>1, <3>1, <3>3 DEF RowsInv, HistoryIsReadable
    <3>4. QED BY <3>2, <3>3
  <2>2. QED BY <2>1 DEF RowsInv, HistoryIsReadable, Exists, Made
<1>5. QED BY <1>2, <1>3, <1>4 DEF RowsInv

LEMMA WritePackageKeeps ==
    ASSUME CatalogueInv, NEW p \in Packages, NEW deal \in Deals, NEW is \in {"offered", "withdrawn"},
           WritePackage(p, deal, is)
    PROVE  CatalogueInv'
<1>1. PICK row : row = [is |-> is, price |-> deal.price, items |-> deal.items]
  OBVIOUS
<1>2. row \in Package /\ row.is \in {"offered", "withdrawn"} /\ row.items = deal.items
  BY <1>1, DealsAssumption DEF Deal, Package
<1>3. /\ package' = [package EXCEPT ![p] = row] /\ \A i \in Range(row.items) : Exists(i.scent)
      /\ UNCHANGED <<ingredient, scent, sale, desk>>
  BY <1>1, <1>2 DEF WritePackage
<1>4. RowsInv'
  BY <1>2, <1>3, PackageStep DEF CatalogueInv
<1>5. QED BY <1>3, <1>4, DesksStay, SalesStay DEF CatalogueInv

LEMMA DeletePackageKeeps ==
    ASSUME CatalogueInv, NEW d \in Desks, DeletePackage(d)
    PROVE  CatalogueInv'
<1>1. PICK p : p = desk[d].p
  OBVIOUS
<1>2. p \in Packages
  BY <1>1, CatalogueRequests DEF CatalogueInv, DesksInv, DeletePackage
<1>3. PICK row : row = [NoPackage EXCEPT !.is = "gone"]
  OBVIOUS
<1>4. row \in Package /\ Range(row.items) = {}
  <2>1. row = [is |-> "gone", price |-> 0, items |-> << >>]
    BY <1>3 DEF NoPackage
  <2>2. << >> \in Seq(Item) /\ Range(<< >>) = {}
    BY DEF Range
  <2>3. QED BY <2>1, <2>2 DEF Package
<1>5. /\ SoldAs(p) = {} /\ package' = [package EXCEPT ![p] = row]
      /\ UNCHANGED <<ingredient, scent, sale>> /\ Goto(d, NoRequest)
  BY <1>1, <1>3 DEF DeletePackage, Unsold
<1>6. RowsInv'
  BY <1>2, <1>4, <1>5, PackageStep DEF CatalogueInv
<1>7. QED BY <1>5, <1>6, RequestIsDone, SalesStay DEF CatalogueInv

-----------------------------------------------------------------------------
(* Requests that read.                                                     *)

LEMMA LookKeeps ==
    ASSUME CatalogueInv, NEW d \in Desks,
           \/ \E g \in Ingredients : StartDeleteIngredient(d, g)
           \/ \E s \in Scents : StartDeleteScent(d, s)
           \/ \E s \in Scents, edit \in ScentEdits : StartEdit(d, s, edit)
           \/ \E p \in Packages : StartDeletePackage(d, p)
           \/ \E p \in Packages : StartPackage(d, p)
           \/ Refused(d)
    PROVE  CatalogueInv'
<1>1. ASSUME NEW g \in Ingredients, StartDeleteIngredient(d, g) PROVE CatalogueInv'
  <2>1. PICK r : r = [pc |-> "delete ingredient", g |-> g]
    OBVIOUS
  <2>2. r \in Desk /\ Reckoned(r)
    BY <2>1 DEF Desk, Reckoned
  <2>3. QED BY <1>1, <2>1, <2>2, ReadsOnly DEF StartDeleteIngredient
<1>2. ASSUME NEW s \in Scents, StartDeleteScent(d, s) PROVE CatalogueInv'
  <2>1. PICK r : r = [pc |-> "delete scent", s |-> s]
    OBVIOUS
  <2>2. r \in Desk /\ Reckoned(r)
    BY <2>1 DEF Desk, Reckoned
  <2>3. QED BY <1>2, <2>1, <2>2, ReadsOnly DEF StartDeleteScent
<1>3. ASSUME NEW s \in Scents, NEW edit \in ScentEdits, StartEdit(d, s, edit) PROVE CatalogueInv'
  <2>1. PICK r : r = [pc |-> "edit", s |-> s, edit |-> edit]
    OBVIOUS
  <2>2. r \in Desk /\ Reckoned(r)
    BY <2>1, ScentEditsAssumption DEF Desk, Reckoned
  <2>3. QED BY <1>3, <2>1, <2>2, ReadsOnly DEF StartEdit
<1>4. ASSUME NEW p \in Packages, StartDeletePackage(d, p) PROVE CatalogueInv'
  <2>1. PICK r : r = [pc |-> "delete package", p |-> p]
    OBVIOUS
  <2>2. r \in Desk /\ Reckoned(r)
    BY <2>1 DEF Desk, Reckoned
  <2>3. QED BY <1>4, <2>1, <2>2, ReadsOnly DEF StartDeletePackage
<1>5. ASSUME NEW p \in Packages, StartPackage(d, p) PROVE CatalogueInv'
  <2>1. PICK r : r = [pc |-> "package", p |-> p, price |-> package[p].price]
    OBVIOUS
  <2>2. package[p].price \in Nat
    BY CatalogueRows DEF CatalogueInv, RowsInv
  <2>3. r \in Desk /\ Reckoned(r)
    BY <2>1, <2>2 DEF Desk, Reckoned
  <2>4. QED BY <1>5, <2>1, <2>3, ReadsOnly DEF StartPackage
<1>6. CASE Refused(d)
  BY <1>6, RequestIsDone, RowsStay DEF Refused, CatalogueInv
<1>7. QED BY <1>1, <1>2, <1>3, <1>4, <1>5, <1>6

-----------------------------------------------------------------------------
(* Intake.                                                                 *)

LEMMA StartLineKeeps ==
    ASSUME CatalogueInv, NEW d \in Desks, NEW s \in Scents, NEW size \in Sizes,
           StartLine(d, s, size, 2)
    PROVE  CatalogueInv'
<1>1. PICK line : line = [scent |-> s, size |-> size, quantity |-> 2, unit |-> Nothing]
  OBVIOUS
<1>2. line \in Line
  BY <1>1 DEF Line
<1>3. PICK r : r = [pc |-> "lines", p |-> Nothing, price |-> 0, lines |-> <<line>>]
  OBVIOUS
<1>4. <<line>> \in Seq(Line)
  BY <1>2
<1>5. r \in Desk /\ Reckoned(r)
  BY <1>3, <1>4 DEF Desk, Reckoned
<1>6. Goto(d, r) /\ UNCHANGED <<ingredient, scent, package, sale>>
  BY <1>1, <1>3 DEF StartLine
<1>7. QED BY <1>5, <1>6, ReadsOnly

LEMMA ReadItemsKeeps ==
    ASSUME CatalogueInv, NEW d \in Desks, ReadItems(d)
    PROVE  CatalogueInv'
<1>1. PICK p, price : p = desk[d].p /\ price = desk[d].price
  OBVIOUS
<1>2. p \in Packages /\ price \in Nat
  BY <1>1, CatalogueRequests DEF CatalogueInv, DesksInv, ReadItems
<1>3. PICK items : items = package[p].items
  OBVIOUS
<1>4. items \in Seq(Item) /\ items # << >>
  BY <1>1, <1>2, <1>3, CatalogueRows DEF CatalogueInv, RowsInv, ReadItems
<1>5. PICK r : r = [pc |-> "items", p |-> p, price |-> price, items |-> items]
  OBVIOUS
<1>6. r \in Desk /\ Reckoned(r)
  BY <1>2, <1>4, <1>5 DEF Desk, Reckoned
<1>7. Goto(d, r) /\ UNCHANGED <<ingredient, scent, package, sale>>
  BY <1>1, <1>3, <1>5 DEF ReadItems
<1>8. QED BY <1>6, <1>7, ReadsOnly

LEMMA WeightIsAnInt ==
    ASSUME RowsTyped, NEW item \in Item
    PROVE  Weight(item) \in Int
<1>1. item.scent \in Scents /\ item.size \in Sizes /\ item.quantity \in Nat
  BY DEF Item
<1>2. scent[item.scent].prices[item.size] \in Nat \union {Nothing}
  BY <1>1, CatalogueRows DEF Price
<1>3. QED BY <1>1, <1>2 DEF Weight

\* The lines that come of items cost what the package costs.
LEMMA LinesOfItems ==
    ASSUME NEW items \in Seq(Item), items # << >>, NEW weights \in [DOMAIN items -> Int],
           NEW price \in Nat, NEW part, part = SplitPrice(price, weights),
           NEW lines,
           lines = [i \in DOMAIN items |->
             [scent |-> items[i].scent, size |-> items[i].size,
              quantity |-> items[i].quantity, unit |-> part[i] \div items[i].quantity]]
    PROVE  /\ lines \in Seq(Line)
           /\ AddsUp(price, lines)
           /\ \A i \in DOMAIN lines : lines[i].unit \in Int
<1>1. PICK n : n = Len(items)
  OBVIOUS
<1>2. n \in Nat /\ DOMAIN items = 1..n /\ items \in [1..n -> Item]
  BY <1>1, Members
<1>3. n # 0
  BY <1>1, EmptySeq
<1>4. n \in Nat \ {0} /\ weights \in [1..n -> Int] /\ price \in Int
  BY <1>2, <1>3
<1>5. part \in [1..n -> Int] /\ Total(part) = price
  BY <1>4, SplitPriceAddsUp
<1>6. DOMAIN lines = 1..n
  BY <1>2
<1>7. ASSUME NEW i \in 1..n
      PROVE  /\ lines[i].scent \in Scents /\ lines[i].size \in Sizes
             /\ lines[i].quantity \in Nat \ {0}
             /\ lines[i].unit = part[i] \div lines[i].quantity
             /\ lines[i].unit \in Int => lines[i] \in Line
  <2>1. PICK item \in Item : item = items[i]
    BY <1>2
  <2>2. PICK unit : unit = part[i] \div item.quantity
    OBVIOUS
  <2>3. PICK line : line = [scent |-> item.scent, size |-> item.size,
                            quantity |-> item.quantity, unit |-> unit]
    OBVIOUS
  <2>4. lines[i] = line
    BY <1>2, <2>1, <2>2, <2>3
  <2>5. item.scent \in Scents /\ item.size \in Sizes /\ item.quantity \in Nat \ {0}
    BY DEF Item
  <2>6. unit \in Int => line \in Line
    BY <2>3, <2>5 DEF Line
  <2>7. line.scent = item.scent /\ line.size = item.size /\ line.quantity = item.quantity /\ line.unit = unit
    BY <2>3
  <2>8. QED BY <2>2, <2>4, <2>5, <2>6, <2>7
<1>8. AddsUp(price, lines) /\ \A i \in 1..n : lines[i].unit \in Int
  <2>1. \A i \in 1..n : /\ lines[i].quantity \in Nat \ {0}
                        /\ lines[i].unit = part[i] \div lines[i].quantity
    BY <1>7
  <2>2. QED BY <1>4, <1>5, <1>6, <2>1, PartsAddUp
<1>9. ASSUME NEW i \in 1..n PROVE lines[i] \in Line
  BY <1>7, <1>8
<1>10. lines \in [1..n -> Line]
  <2>1. lines = [i \in 1..n |-> lines[i]]
    BY <1>2
  <2>2. QED BY <1>9, <2>1
<1>11. lines \in Seq(Line)
  BY <1>2, <1>10, PartsAreASequence
<1>12. QED BY <1>6, <1>8, <1>11

LEMMA ResolvePackageKeeps ==
    ASSUME CatalogueInv, NEW d \in Desks, ResolvePackage(d)
    PROVE  CatalogueInv'
<1>1. PICK p, price, items : p = desk[d].p /\ price = desk[d].price /\ items = desk[d].items
  OBVIOUS
<1>2. p \in Packages /\ price \in Nat /\ items \in Seq(Item) /\ items # << >>
  BY <1>1, CatalogueRequests DEF CatalogueInv, DesksInv, Reckoned, ResolvePackage
<1>3. PICK weights : weights = [i \in DOMAIN items |-> Weight(items[i])]
  OBVIOUS
<1>4. weights \in [DOMAIN items -> Int]
  <2>1. ASSUME NEW i \in DOMAIN items PROVE Weight(items[i]) \in Int
    <3>1. items[i] \in Item
      BY <1>2, Members
    <3>2. QED BY <3>1, WeightIsAnInt DEF CatalogueInv, RowsInv
  <2>2. QED BY <1>3, <2>1
<1>5. PICK part : part = SplitPrice(price, weights)
  OBVIOUS
<1>6. PICK lines : lines = [i \in DOMAIN items |->
             [scent |-> items[i].scent, size |-> items[i].size,
              quantity |-> items[i].quantity, unit |-> part[i] \div items[i].quantity]]
  OBVIOUS
<1>7. lines \in Seq(Line) /\ AddsUp(price, lines) /\ \A i \in DOMAIN lines : lines[i].unit \in Int
  BY <1>2, <1>4, <1>5, <1>6, LinesOfItems
<1>8. PICK r : r = [pc |-> "lines", p |-> p, price |-> price, lines |-> lines]
  OBVIOUS
<1>9. r \in Desk /\ Reckoned(r)
  BY <1>2, <1>7, <1>8 DEF Desk, Reckoned
<1>10. Goto(d, r) /\ UNCHANGED <<ingredient, scent, package, sale>>
  BY <1>1, <1>3, <1>5, <1>6, <1>8 DEF ResolvePackage
<1>11. QED BY <1>9, <1>10, ReadsOnly

LEMMA PricedIsLine ==
    ASSUME RowsTyped, NEW line \in Line
    PROVE  /\ Priced(line) \in Line
           /\ Priced(line).scent = line.scent
           /\ line.unit # Nothing => Priced(line) = line
<1>1. line.scent \in Scents /\ line.size \in Sizes
  BY DEF Line
<1>2. scent[line.scent].prices[line.size] \in Int \union {Nothing}
  BY <1>1, CatalogueRows DEF Price
<1>3. QED BY <1>2 DEF Priced, Line

LEMMA RecordKeeps ==
    ASSUME CatalogueInv, NEW d \in Desks, NEW x \in Sales, Record(d, x)
    PROVE  CatalogueInv'
<1>1. PICK p, price, lines : p = desk[d].p /\ price = desk[d].price /\ lines = desk[d].lines
  OBVIOUS
<1>2. p \in Packages \union {Nothing} /\ price \in Nat /\ lines \in Seq(Line)
  BY <1>1, CatalogueRequests DEF CatalogueInv, DesksInv, Record
<1>3. p # Nothing => AddsUp(price, lines) /\ \A i \in DOMAIN lines : lines[i].unit \in Int
  BY <1>1 DEF CatalogueInv, DesksInv, Reckoned, Record
<1>4. PICK n : n = Len(lines)
  OBVIOUS
<1>5. n \in Nat /\ DOMAIN lines = 1..n /\ lines \in [1..n -> Line]
  BY <1>2, <1>4, Members
<1>6. PICK priced : priced = [i \in DOMAIN lines |-> Priced(lines[i])]
  OBVIOUS
<1>7. ASSUME NEW i \in 1..n
      PROVE  /\ priced[i] \in Line /\ priced[i].scent = lines[i].scent
             /\ p # Nothing => priced[i] = lines[i]
  <2>1. lines[i] \in Line /\ priced[i] = Priced(lines[i])
    BY <1>5, <1>6
  <2>2. p # Nothing => lines[i].unit # Nothing
    BY <1>3, <1>5, NothingAssumption
  <2>3. QED BY <2>1, <2>2, PricedIsLine DEF CatalogueInv, RowsInv
<1>8. priced \in Seq(Line) /\ DOMAIN priced = 1..n /\ priced = [i \in 1..n |-> priced[i]]
  <2>1. DOMAIN priced = 1..n /\ priced = [i \in 1..n |-> priced[i]]
    BY <1>5, <1>6
  <2>2. priced \in [1..n -> Line]
    BY <1>7, <2>1
  <2>3. QED BY <1>5, <2>1, <2>2, PartsAreASequence
<1>9. p # Nothing => priced = lines
  <2>1. lines = [i \in 1..n |-> lines[i]]
    BY <1>5
  <2>2. QED BY <1>7, <1>8, <2>1
<1>10. PICK row : row = [is |-> "lead", p |-> p, price |-> price, lines |-> priced]
  OBVIOUS
<1>11. row \in Sale /\ row.p = p /\ row.price = price /\ row.lines = priced
  BY <1>2, <1>8, <1>10 DEF Sale
<1>12. /\ sale' = [sale EXCEPT ![x] = row] /\ Goto(d, NoRequest)
       /\ UNCHANGED <<ingredient, scent, package>>
       /\ \A l \in Range(lines) : Exists(l.scent)
       /\ p # Nothing => package[p].is \in {"offered", "withdrawn"}
  BY <1>1, <1>6, <1>10 DEF Record
<1>13. DOMAIN sale' = Sales /\ \A y \in Sales : sale'[y] = IF y = x THEN row ELSE sale[y]
  BY <1>12 DEF CatalogueInv, RowsInv, RowsTyped
<1>14. RowsTyped' /\ FormulasOnFile' /\ ItemsOnFile'
  BY <1>11, <1>12, <1>13 DEF CatalogueInv, RowsInv, RowsTyped, FormulasOnFile, ItemsOnFile, Exists, Made
<1>15. ASSUME NEW l \in Range(priced)
       PROVE  /\ Exists(l.scent)
              /\ \A g \in Made(scent[l.scent].formula) : ingredient[g] \in {"off", "on"}
  <2>1. PICK i \in 1..n : l = priced[i]
    BY <1>8 DEF Range
  <2>2. lines[i] \in Line /\ lines[i] \in Range(lines) /\ l.scent = lines[i].scent
    BY <1>5, <1>7, <2>1 DEF Range
  <2>3. l.scent \in Scents /\ Exists(l.scent)
    BY <1>12, <2>2 DEF Line
  <2>4. QED BY <2>3 DEF CatalogueInv, RowsInv, FormulasOnFile
<1>16. HistoryIsReadable'
  <2>1. ASSUME NEW y \in Sales, sale'[y].is = "lead"
        PROVE  /\ \A l \in Range(sale'[y].lines) :
                    Exists(l.scent) /\ \A g \in Made(scent[l.scent].formula) : ingredient[g] \in {"off", "on"}
               /\ sale'[y].p # Nothing => package[sale'[y].p].is \in {"offered", "withdrawn"}
    <3>1. CASE y = x
      BY <1>11, <1>12, <1>13, <1>15, <3>1
    <3>2. CASE y # x
      BY <1>13, <2>1, <3>2 DEF CatalogueInv, RowsInv, HistoryIsReadable
    <3>3. QED BY <3>1, <3>2
  <2>2. QED BY <1>12, <2>1 DEF HistoryIsReadable, Exists, Made
<1>17. PackagesAddUp'
  <2>1. ASSUME NEW y \in Sales, sale'[y].is = "lead", sale'[y].p # Nothing
        PROVE  AddsUp(sale'[y].price, sale'[y].lines)
    <3>1. CASE y = x
      <4>1. sale'[y] = row
        BY <1>13, <3>1
      <4>2. AddsUp(price, priced)
        BY <1>3, <1>9, <1>11, <2>1, <4>1
      <4>3. QED BY <1>11, <4>1, <4>2
    <3>2. CASE y # x
      <4>1. sale'[y] = sale[y]
        BY <1>13, <3>2
      <4>2. AddsUp(sale[y].price, sale[y].lines)
        BY <2>1, <4>1 DEF CatalogueInv, PackagesAddUp, AddsUp
      <4>3. QED BY <4>1, <4>2
    <3>3. QED BY <3>1, <3>2
  <2>2. QED BY <2>1 DEF PackagesAddUp, AddsUp
<1>18. DesksInv'
  BY <1>12, RequestIsDone DEF CatalogueInv
<1>19. QED BY <1>14, <1>16, <1>17, <1>18 DEF CatalogueInv, RowsInv

-----------------------------------------------------------------------------
(* The catalogue.                                                          *)

LEMMA CatalogueInitInv == CatalogueInit => CatalogueInv
<1> SUFFICES ASSUME CatalogueInit PROVE CatalogueInv
  OBVIOUS
<1>1. NoScent \in Scent /\ Made(NoScent.formula) = {}
  BY EmptyIsKeyed DEF NoScent, Scent, NoPrices, Price
<1>2. NoPackage \in Package /\ Range(NoPackage.items) = {}
  <2>1. << >> \in Seq(Item) /\ Range(<< >>) = {}
    BY DEF Range
  <2>2. QED BY <2>1 DEF NoPackage, Package
<1>3. NoSale \in Sale /\ NoSale.is # "lead"
  BY DEF NoSale, Sale
<1>4. NoRequest \in Desk /\ Reckoned(NoRequest)
  BY DEF NoRequest, Desk, Reckoned
<1>5. RowsTyped /\ FormulasOnFile /\ ItemsOnFile
  BY <1>1, <1>2, <1>3 DEF CatalogueInit, RowsTyped, FormulasOnFile, ItemsOnFile
<1>6. HistoryIsReadable /\ PackagesAddUp
  BY <1>3 DEF CatalogueInit, HistoryIsReadable, PackagesAddUp
<1>7. DesksInv
  BY <1>4 DEF CatalogueInit, DesksInv
<1>8. QED BY <1>5, <1>6, <1>7 DEF CatalogueInv, RowsInv

LEMMA CatalogueStep == CatalogueInv /\ [CatalogueNext]_catalogueVars => CatalogueInv'
<1> SUFFICES ASSUME CatalogueInv, [CatalogueNext]_catalogueVars PROVE CatalogueInv'
  OBVIOUS
<1>1. ASSUME NEW g \in Ingredients, CreateIngredient(g) \/ SwitchIngredient(g) PROVE CatalogueInv'
  BY <1>1, CreateIngredientKeeps
<1>2. ASSUME NEW s \in Scents, NEW f \in Formulas \union {Empty}, CreateScent(s, f) PROVE CatalogueInv'
  BY <1>2, CreateScentKeeps
<1>3. ASSUME NEW p \in Packages, NEW deal \in Deals, NEW is \in {"offered", "withdrawn"},
             WritePackage(p, deal, is)
      PROVE  CatalogueInv'
  BY <1>3, WritePackageKeeps
<1>4. ASSUME NEW d \in Desks,
             \/ FinishEdit(d) \/ DeleteIngredient(d) \/ DeleteScent(d) \/ DeletePackage(d)
             \/ ReadItems(d) \/ ResolvePackage(d)
      PROVE  CatalogueInv'
  BY <1>4, FinishEditKeeps, DeleteIngredientKeeps, DeleteScentKeeps, DeletePackageKeeps,
     ReadItemsKeeps, ResolvePackageKeeps
<1>5. ASSUME NEW d \in Desks,
             \/ \E g \in Ingredients : StartDeleteIngredient(d, g)
             \/ \E s \in Scents : StartDeleteScent(d, s)
             \/ \E s \in Scents, edit \in ScentEdits : StartEdit(d, s, edit)
             \/ \E p \in Packages : StartDeletePackage(d, p)
             \/ \E p \in Packages : StartPackage(d, p)
             \/ Refused(d)
      PROVE  CatalogueInv'
  BY <1>5, LookKeeps
<1>6. ASSUME NEW d \in Desks, NEW s \in Scents, NEW size \in Sizes, StartLine(d, s, size, 2)
      PROVE  CatalogueInv'
  BY <1>6, StartLineKeeps
<1>7. ASSUME NEW d \in Desks, NEW x \in Sales, Record(d, x) PROVE CatalogueInv'
  BY <1>7, RecordKeeps
<1>8. CASE UNCHANGED catalogueVars
  BY <1>8, RowsStay, DesksStay DEF catalogueVars, CatalogueInv
<1>9. QED BY <1>1, <1>2, <1>3, <1>4, <1>5, <1>6, <1>7, <1>8 DEF CatalogueNext

LEMMA CatalogueAlways == CatalogueSpec => []CatalogueInv
BY CatalogueInitInv, CatalogueStep, PTL DEF CatalogueSpec

\* The rows and requests of the catalogue are typed, no formula on file names an
\* ingredient that is gone and no package a scent that is.
THEOREM CatalogueIsTyped == CatalogueSpec => []CatalogueTypeOK
BY CatalogueAlways, CatalogueInvIsTyped, PTL

\* The scents of every order, their ingredients and its package are on file,
\* whatever is deleted between the reads of an intake and its transaction.
THEOREM HistoryStaysReadable == CatalogueSpec => []HistoryIsReadable
BY CatalogueAlways, CatalogueInvIsTyped, PTL

\* The lines of a package, of any length and at any prices, come to its price as
\* intake read it, short of less than a cent for each bottle but the first of a line.
THEOREM PackagesCostTheirPrice == CatalogueSpec => []PackagesAddUp
BY CatalogueAlways, CatalogueInvIsTyped, PTL

-----------------------------------------------------------------------------
(* The shop.                                                               *)

\* Archived listings are off the page, and on somebody's cart.
ArchivedWasSold ==
    \A l \in Listings : listing[l].state = "archived" => listing[l].face = "hidden" /\ OnACart(l)

\* What a request saw sold is sold.
SoldWasSeen ==
    \A t \in Tabs : tab[t].pc = "remove" /\ tab[t].sold => OnACart(tab[t].l)

ShopInv ==
    /\ TypeOK
    /\ ArchivedWasSold
    /\ SoldWasSeen
    /\ SoldIsListed

-----------------------------------------------------------------------------
(* Rows and requests.                                                      *)

LEMMA Rows ==
    ASSUME TypeOK
    PROVE  /\ \A l \in Listings : /\ listing[l] \in Listing
                                  /\ listing[l].state \in {"none", "live", "archived", "deleted"}
                                  /\ listing[l].photo \in Photos \union {None}
                                  /\ listing[l].scent \in ShopScents \union {None}
           /\ \A t \in Tabs : tab[t] \in Tab
           /\ \A b \in Bags : bag[b] \in Bag /\ bag[b].lines \in SUBSET Listings
BY DEF TypeOK, Listing, Bag

LEMMA Requests ==
    ASSUME NEW r \in Tab
    PROVE  /\ r.pc = "create" => r.edit \in Edit
           /\ r.pc = "update" => r.l \in Listings /\ r.edit \in Edit /\ r.had \in Photos \union {None}
           /\ r.pc = "remove" => r.l \in Listings /\ r.had \in Photos \union {None} /\ r.sold \in BOOLEAN
           /\ r.pc = "drop" => r.had \in Photos \union {None}
BY DEF Tab

LEMMA RowIsListing ==
    ASSUME NEW edit \in Edit
    PROVE  /\ Row(edit) \in Listing
           /\ Row(edit).state = "live"
           /\ Row(edit).photo = edit.photo /\ Row(edit).scent = edit.scent
BY DEF Row, Edit, Listing

LEMMA ArchivedIsListing ==
    ASSUME NEW row \in Listing
    PROVE  /\ Archived(row) \in Listing
           /\ Archived(row).state = "archived" /\ Archived(row).face = "hidden"
           /\ Archived(row).photo = row.photo
           /\ row.state = "archived" /\ row.face = "hidden" => Archived(row) = row
BY DEF Archived, Listing, Face

LEMMA DeletedIsListing ==
    ASSUME NEW row \in Listing
    PROVE  /\ Deleted(row) \in Listing
           /\ Deleted(row).state = "deleted" /\ Deleted(row).photo = None
BY DEF Deleted, NoListing, Listing, Face

LEMMA NoListingIsListing == NoListing \in Listing /\ NoListing.state = "none"
BY DEF NoListing, Listing, Face

LEMMA IdleIsRequest == Idle \in Tab /\ Idle.pc = "idle"
BY DEF Idle, Tab

\* A request's next step leaves the others alone.
LEMMA OneTab ==
    ASSUME TypeOK, NEW t \in Tabs, NEW r \in Tab, tab' = [tab EXCEPT ![t] = r]
    PROVE  /\ tab'[t] = r
           /\ \A u \in Tabs \ {t} : tab'[u] = tab[u]
           /\ tab' \in [Tabs -> Tab]
BY DEF TypeOK

-----------------------------------------------------------------------------
(* What the steps have in common.                                          *)

CartsStay == \A b \in Bags : bag[b].pc = "cart" => bag'[b] = bag[b]
ArchivedStays == \A l \in Listings : listing[l].state = "archived" => listing'[l] = listing[l]

LEMMA OnACartStays ==
    ASSUME CartsStay, NEW l \in Listings, OnACart(l)
    PROVE  OnACart(l)'
BY DEF CartsStay, OnACart

LEMMA SeenStays ==
    ASSUME TypeOK, SoldWasSeen, CartsStay,
           \A t \in Tabs : tab'[t] = tab[t] \/ tab'[t].pc # "remove"
    PROVE  SoldWasSeen'
<1> SUFFICES ASSUME NEW t \in Tabs, tab'[t].pc = "remove", tab'[t].sold
             PROVE  OnACart(tab[t].l)'
  BY DEF SoldWasSeen, OnACart
<1>1. tab'[t] = tab[t] /\ OnACart(tab[t].l)
  BY DEF SoldWasSeen
<1>2. tab[t].l \in Listings
  BY <1>1, Rows, Requests
<1> QED
  BY <1>1, <1>2, OnACartStays

\* A photo that is used is not dropped, whatever becomes of the others.
PhotosStay ==
    /\ photo' \in [Photos -> {"none", "new", "old", "gone"}]
    /\ \A i \in Photos : i \in Stored /\ Used(i) => photo'[i] \in {"new", "old"}

\* Rows do not change, but for those a step says.
LEMMA ListingsSame ==
    ASSUME ShopInv, listing' = listing, PhotosStay, CartsStay,
           tab' \in [Tabs -> Tab], bag' = bag, onSale' \in SUBSET ShopScents,
           SoldWasSeen'
    PROVE  ShopInv' /\ ArchivedStays
<1>1. TypeOK'
  BY DEF ShopInv, TypeOK, PhotosStay, Stored, Used, Live
<1>2. ArchivedWasSold'
  BY DEF ShopInv, ArchivedWasSold, OnACart
<1>3. SoldIsListed'
  BY DEF ShopInv, SoldIsListed
<1> QED
  BY <1>1, <1>2, <1>3 DEF ShopInv, ArchivedStays

\* One row changes, and neither the photos nor the bags.
LEMMA ListingWritten ==
    ASSUME ShopInv, NEW l \in Listings, NEW row \in Listing,
           listing' = [listing EXCEPT ![l] = row],
           row.state \in {"live", "archived"} => row.photo \in Stored \union {None},
           row.state = "live" => Allowed(l, row),
           row.state = "archived" => row.face = "hidden" /\ OnACart(l),
           row.state \in {"none", "deleted"} => ~OnACart(l),
           listing[l].state = "archived" => row = listing[l],
           UNCHANGED <<photo, onSale, bag>>, tab' \in [Tabs -> Tab], SoldWasSeen'
    PROVE  ShopInv' /\ ArchivedStays
<1>1. /\ listing'[l] = row
      /\ \A m \in Listings \ {l} : listing'[m] = listing[m]
      /\ listing' \in [Listings -> Listing]
  BY DEF ShopInv, TypeOK
<1>2. TypeOK'
  <2>1. ASSUME NEW i \in Photos, Used(i)' PROVE i \in Stored'
    <3>1. PICK m \in Listings : listing'[m].state \in {"live", "archived"} /\ listing'[m].photo = i
      BY <2>1 DEF Used
    <3>2. CASE m = l
      BY <1>1, <3>1, <3>2, NoneAssumption DEF Stored
    <3>3. CASE m # l
      BY <1>1, <3>1, <3>3 DEF ShopInv, TypeOK, Used, Stored
    <3> QED
      BY <3>2, <3>3
  <2>2. ASSUME NEW m \in Listings, NEW n \in Listings, Live(m)', Live(n)',
               listing'[m].scent = listing'[n].scent, m # n
        PROVE  listing'[m].scent = None
    BY <1>1, <2>2 DEF ShopInv, TypeOK, Live, Allowed
  <2> QED
    BY <1>1, <2>1, <2>2 DEF ShopInv, TypeOK
<1>3. ArchivedWasSold'
  BY <1>1 DEF ShopInv, ArchivedWasSold, OnACart
<1>4. SoldIsListed'
  <2> SUFFICES ASSUME NEW b \in Bags, bag[b].pc = "cart", NEW m \in Listings, m \in bag[b].lines
               PROVE  listing'[m].state \in {"live", "archived"}
    BY Rows DEF ShopInv, SoldIsListed
  <2>1. OnACart(m)
    BY DEF OnACart
  <2>2. listing[m].state \in {"live", "archived"}
    BY DEF ShopInv, SoldIsListed
  <2> QED
    BY <1>1, <2>1, <2>2 DEF Listing
<1>5. ArchivedStays
  BY <1>1 DEF ArchivedStays
<1> QED
  BY <1>2, <1>3, <1>4, <1>5 DEF ShopInv

LEMMA TabStepsOn ==
    ASSUME ShopInv, NEW t \in Tabs, NEW r \in Tab, tab' = [tab EXCEPT ![t] = r],
           r.pc # "remove", bag' = bag
    PROVE  /\ tab' \in [Tabs -> Tab]
           /\ SoldWasSeen'
           /\ CartsStay
<1>1. tab' \in [Tabs -> Tab] /\ \A u \in Tabs : tab'[u] = tab[u] \/ tab'[u].pc # "remove"
  BY OneTab DEF ShopInv
<1>2. CartsStay
  BY DEF CartsStay
<1> QED
  BY <1>1, <1>2, SeenStays DEF ShopInv

LEMMA PhotosUnchanged ==
    ASSUME TypeOK, photo' = photo
    PROVE  PhotosStay
BY DEF TypeOK, PhotosStay, Stored

-----------------------------------------------------------------------------
(* Photos.                                                                 *)

LEMMA AgeKeeps ==
    ASSUME ShopInv, NEW i \in Photos, Age(i)
    PROVE  ShopInv' /\ ArchivedStays
<1>1. PhotosStay
  BY DEF Age, ShopInv, TypeOK, PhotosStay, Stored
<1>2. CartsStay /\ SoldWasSeen'
  BY DEF Age, CartsStay, ShopInv, SoldWasSeen, OnACart
<1> QED
  BY <1>1, <1>2, ListingsSame DEF Age, ShopInv, TypeOK

LEMMA UploadKeeps ==
    ASSUME ShopInv, NEW i \in Photos, Upload(i)
    PROVE  ShopInv' /\ ArchivedStays
<1>1. PhotosStay
  BY DEF Upload, ShopInv, TypeOK, PhotosStay, Stored
<1>2. CartsStay /\ SoldWasSeen'
  BY DEF Upload, CartsStay, ShopInv, SoldWasSeen, OnACart
<1> QED
  BY <1>1, <1>2, ListingsSame DEF Upload, ShopInv, TypeOK

LEMMA DropPhotoKeeps ==
    ASSUME ShopInv, NEW t \in Tabs, DropPhoto(t)
    PROVE  ShopInv' /\ ArchivedStays
<1>1. tab' \in [Tabs -> Tab] /\ SoldWasSeen' /\ CartsStay
  BY TabStepsOn, IdleIsRequest DEF DropPhoto, Done
<1>2. PhotosStay
  BY DEF DropPhoto, Droppable, ShopInv, TypeOK, PhotosStay, Stored
\* So the key has nothing to set to null.
<1>3. \A l \in Listings : listing[l].photo # None /\ photo'[listing[l].photo] = "gone"
                            => listing[l].state \in {"none", "deleted"}
  BY <1>2, Rows DEF ShopInv, PhotosStay, Used, TypeOK
<1>4. \A l \in Listings :
        \/ listing'[l] = listing[l]
        \/ /\ listing'[l] = [listing[l] EXCEPT !.photo = None]
           /\ listing[l].state \in {"none", "deleted"}
  BY <1>3 DEF DropPhoto
<1>5. \A l \in Listings : /\ listing'[l] \in Listing
                          /\ listing'[l].state = listing[l].state
                          /\ listing[l].state \in {"live", "archived"} => listing'[l] = listing[l]
  <2> SUFFICES ASSUME NEW l \in Listings
               PROVE  /\ listing'[l] \in Listing
                      /\ listing'[l].state = listing[l].state
                      /\ listing[l].state \in {"live", "archived"} => listing'[l] = listing[l]
    OBVIOUS
  <2>1. listing[l] \in Listing
    BY Rows DEF ShopInv
  <2>2. /\ [listing[l] EXCEPT !.photo = None] \in Listing
        /\ [listing[l] EXCEPT !.photo = None].state = listing[l].state
    BY <2>1 DEF Listing
  <2>3. CASE listing'[l] = listing[l]
    BY <2>1, <2>3
  <2>4. CASE listing'[l] = [listing[l] EXCEPT !.photo = None] /\ listing[l].state \in {"none", "deleted"}
    BY <2>2, <2>4
  <2> QED
    BY <1>4, <2>3, <2>4
<1>6. listing' \in [Listings -> Listing]
  BY <1>5 DEF DropPhoto
<1>7. TypeOK'
  <2>1. ASSUME NEW i \in Photos, Used(i)' PROVE i \in Stored'
    BY <1>2, <1>5, <2>1 DEF ShopInv, TypeOK, PhotosStay, Stored, Used
  <2>2. ASSUME NEW l \in Listings, NEW m \in Listings, Live(l)', Live(m)',
               listing'[l].scent = listing'[m].scent, l # m
        PROVE  listing'[l].scent = None
    BY <1>5, <2>2 DEF ShopInv, TypeOK, Live
  <2> QED
    BY <1>1, <1>2, <1>6, <2>1, <2>2 DEF ShopInv, TypeOK, PhotosStay, DropPhoto
<1>8. ArchivedWasSold'
  BY <1>5 DEF ShopInv, ArchivedWasSold, OnACart, DropPhoto
<1>9. SoldIsListed'
  BY <1>5, Rows DEF ShopInv, SoldIsListed, DropPhoto
<1> QED
  BY <1>1, <1>5, <1>7, <1>8, <1>9 DEF ShopInv, ArchivedStays

-----------------------------------------------------------------------------
(* Listings.                                                               *)

\* Steps that only read the listings.
LEMMA TabKeeps ==
    ASSUME ShopInv, NEW t \in Tabs, NEW r \in Tab, tab' = [tab EXCEPT ![t] = r],
           r.pc # "remove", UNCHANGED <<listing, photo, onSale, bag>>
    PROVE  ShopInv' /\ ArchivedStays
BY TabStepsOn, PhotosUnchanged, ListingsSame DEF ShopInv, TypeOK

LEMMA StartCreateKeeps ==
    ASSUME ShopInv, NEW t \in Tabs, NEW edit \in Edits, StartCreate(t, edit)
    PROVE  ShopInv' /\ ArchivedStays
<1> DEFINE r == [pc |-> "create", edit |-> edit]
<1>1. r \in Tab /\ r.pc # "remove"
  BY EditsAssumption DEF Tab
<1> HIDE DEF r
<1>2. tab' = [tab EXCEPT ![t] = r] /\ UNCHANGED <<listing, photo, onSale, bag>>
  BY DEF StartCreate, r
<1> QED
  BY <1>1, <1>2, TabKeeps

LEMMA StartUpdateKeeps ==
    ASSUME ShopInv, NEW t \in Tabs, NEW l \in Listings, NEW edit \in Edits, StartUpdate(t, l, edit)
    PROVE  ShopInv' /\ ArchivedStays
<1> DEFINE r == [pc |-> "update", l |-> l, edit |-> edit, had |-> listing[l].photo]
<1>1. r \in Tab /\ r.pc # "remove"
  BY EditsAssumption, Rows DEF Tab, ShopInv
<1> HIDE DEF r
<1>2. tab' = [tab EXCEPT ![t] = r] /\ UNCHANGED <<listing, photo, onSale, bag>>
  BY DEF StartUpdate, r
<1> QED
  BY <1>1, <1>2, TabKeeps

LEMMA LeaveKeeps ==
    ASSUME ShopInv, NEW t \in Tabs, Leave(t)
    PROVE  ShopInv' /\ ArchivedStays
BY IdleIsRequest, TabKeeps DEF Leave, Done

LEMMA StartRemoveKeeps ==
    ASSUME ShopInv, NEW t \in Tabs, NEW l \in Listings, StartRemove(t, l)
    PROVE  ShopInv' /\ ArchivedStays
<1> DEFINE r == [pc |-> "remove", l |-> l, had |-> listing[l].photo, sold |-> OnACart(l)]
<1>1. r \in Tab
  <2>1. OnACart(l) \in BOOLEAN
    BY DEF OnACart
  <2> QED
    BY <2>1, Rows DEF Tab, ShopInv
<1>2. r.l = l /\ r.sold = OnACart(l)
  OBVIOUS
<1> HIDE DEF r
<1>3. tab' = [tab EXCEPT ![t] = r] /\ UNCHANGED <<listing, photo, onSale, bag>>
  BY DEF StartRemove, r
<1>4. /\ tab'[t] = r
      /\ \A u \in Tabs \ {t} : tab'[u] = tab[u]
      /\ tab' \in [Tabs -> Tab]
  BY <1>1, <1>3, OneTab DEF ShopInv
<1>5. SoldWasSeen'
  BY <1>2, <1>3, <1>4 DEF ShopInv, SoldWasSeen, OnACart
<1>6. CartsStay
  BY <1>3 DEF CartsStay
<1> QED
  BY <1>3, <1>4, <1>5, <1>6, PhotosUnchanged, ListingsSame DEF ShopInv, TypeOK

LEMMA CreateKeeps ==
    ASSUME ShopInv, NEW t \in Tabs, NEW l \in Listings, Create(t, l)
    PROVE  ShopInv' /\ ArchivedStays
<1>1. tab' \in [Tabs -> Tab] /\ SoldWasSeen' /\ CartsStay
  BY TabStepsOn, IdleIsRequest DEF Create, Done
<1>2. PICK row : row = Row(tab[t].edit)
  OBVIOUS
<1>3. row \in Listing /\ row.state = "live"
  BY <1>2, Rows, Requests, RowIsListing DEF Create, ShopInv
<1>4. CASE Allowed(l, row)
  <2>1. listing' = [listing EXCEPT ![l] = row] /\ listing[l].state = "none"
    BY <1>2, <1>4 DEF Create
  <2>2. row.photo \in Stored \union {None}
    BY <1>4 DEF Allowed
  <2> QED
    BY <1>1, <1>3, <1>4, <2>1, <2>2, ListingWritten DEF Create
<1>5. CASE ~Allowed(l, row)
  BY <1>1, <1>2, <1>5, PhotosUnchanged, ListingsSame DEF Create, ShopInv, TypeOK
<1> QED
  BY <1>4, <1>5

LEMMA UpdateKeeps ==
    ASSUME ShopInv, NEW t \in Tabs, Update(t)
    PROVE  ShopInv' /\ ArchivedStays
<1>1. PICK l \in Listings, row \in Listing :
        l = tab[t].l /\ row = Row(tab[t].edit) /\ row.state = "live"
  BY Rows, Requests, RowIsListing DEF Update, ShopInv
<1>2. PICK r \in Tab : tab' = [tab EXCEPT ![t] = r] /\ r.pc # "remove"
  <2>1. [pc |-> "drop", had |-> tab[t].had] \in Tab
    BY Rows, Requests DEF Update, ShopInv, Tab
  <2> QED
    BY <2>1, IdleIsRequest DEF Update, Done
<1>3. UNCHANGED <<photo, onSale, bag>>
  BY DEF Update
<1>4. tab' \in [Tabs -> Tab] /\ SoldWasSeen' /\ CartsStay
  BY <1>2, <1>3, TabStepsOn
<1>5. CASE Live(l) /\ Allowed(l, row)
  <2>1. listing' = [listing EXCEPT ![l] = row] /\ listing[l].state = "live"
    BY <1>1, <1>5 DEF Update, Updates, Live
  <2>2. row.photo \in Stored \union {None}
    BY <1>5 DEF Allowed
  <2> QED
    BY <1>1, <1>3, <1>4, <1>5, <2>1, <2>2, ListingWritten
<1>6. CASE ~(Live(l) /\ Allowed(l, row))
  <2>1. listing' = listing
    BY <1>1, <1>6 DEF Update, Updates
  <2> QED
    BY <1>3, <1>4, <2>1, PhotosUnchanged, ListingsSame DEF ShopInv, TypeOK
<1> QED
  BY <1>5, <1>6

\* It was sold; if it is archived already, it stays as it is.
LEMMA ArchiveKeeps ==
    ASSUME ShopInv, NEW t \in Tabs, Archive(t)
    PROVE  ShopInv' /\ ArchivedStays
<1>1. tab' \in [Tabs -> Tab] /\ SoldWasSeen' /\ CartsStay
  BY TabStepsOn, IdleIsRequest DEF Archive, Done
<1>2. PICK l \in Listings : l = tab[t].l /\ OnACart(l)
  BY Rows, Requests DEF Archive, ShopInv, SoldWasSeen
<1>3. listing[l].state \in {"live", "archived"}
  BY <1>2 DEF OnACart, ShopInv, SoldIsListed
<1>4. PICK row : row = Archived(listing[l])
  OBVIOUS
<1>5. listing' = [listing EXCEPT ![l] = row]
  BY <1>2, <1>3, <1>4 DEF Archive
<1>6. /\ row \in Listing
      /\ row.state = "archived" /\ row.face = "hidden" /\ row.photo = listing[l].photo
      /\ listing[l].state = "archived" => row = listing[l]
  BY <1>4, Rows, ArchivedIsListing DEF ShopInv, ArchivedWasSold
<1>7. row.photo \in Stored \union {None}
  BY <1>3, <1>6, Rows DEF ShopInv, TypeOK, Used
<1> QED
  BY <1>1, <1>2, <1>5, <1>6, <1>7, ListingWritten DEF Archive

LEMMA DeleteKeeps ==
    ASSUME ShopInv, NEW t \in Tabs, Delete(t)
    PROVE  ShopInv' /\ ArchivedStays
<1>1. PICK l \in Listings : l = tab[t].l
  BY Rows, Requests DEF Delete, ShopInv
<1>2. CASE Deletable(l)
  <2>1. [pc |-> "drop", had |-> tab[t].had] \in Tab
    BY Rows, Requests DEF Delete, ShopInv, Tab
  <2>2. tab' \in [Tabs -> Tab] /\ SoldWasSeen' /\ CartsStay
    BY <1>1, <1>2, <2>1, TabStepsOn DEF Delete
  <2>3. ~OnACart(l) /\ listing[l].state # "archived"
    BY <1>2 DEF Deletable, ShopInv, ArchivedWasSold
  <2>4. PICK row : row = Deleted(listing[l])
    OBVIOUS
  <2>5. row \in Listing /\ row.state = "deleted"
    BY <2>4, Rows, DeletedIsListing DEF ShopInv
  <2>6. listing' = [listing EXCEPT ![l] = row]
    BY <1>1, <1>2, <2>4 DEF Delete
  <2> QED
    BY <2>2, <2>3, <2>5, <2>6, ListingWritten DEF Delete
<1>3. CASE ~Deletable(l)
  BY <1>1, <1>3, IdleIsRequest, TabKeeps DEF Delete, Done
<1> QED
  BY <1>2, <1>3

-----------------------------------------------------------------------------
(* Bags, and scents on sale.                                               *)

\* A bag that is no cart yet is priced, or becomes one.
LEMMA BagKeeps ==
    ASSUME ShopInv, NEW b \in Bags, NEW r \in Bag, bag' = [bag EXCEPT ![b] = r],
           bag[b].pc # "cart",
           r.pc = "cart" => \A l \in r.lines : listing[l].state \in {"live", "archived"},
           UNCHANGED <<listing, photo, onSale, tab>>
    PROVE  ShopInv' /\ ArchivedStays
<1>1. /\ bag'[b] = r
      /\ \A c \in Bags \ {b} : bag'[c] = bag[c]
      /\ bag' \in [Bags -> Bag]
  BY DEF ShopInv, TypeOK
<1>2. CartsStay
  BY <1>1 DEF CartsStay
<1>3. TypeOK'
  BY <1>1 DEF ShopInv, TypeOK, Used, Stored, Live
<1>4. ArchivedWasSold'
  BY <1>2, OnACartStays DEF ShopInv, ArchivedWasSold
<1>5. SoldWasSeen'
  BY <1>2, SeenStays DEF ShopInv
<1>6. SoldIsListed'
  BY <1>1 DEF ShopInv, SoldIsListed
<1> QED
  BY <1>3, <1>4, <1>5, <1>6 DEF ShopInv, ArchivedStays

LEMMA PriceBagKeeps ==
    ASSUME ShopInv, NEW b \in Bags, NEW some \in SUBSET Listings, PriceBag(b, some)
    PROVE  ShopInv' /\ ArchivedStays
<1>1. PICK r \in Bag : r = [pc |-> "priced", lines |-> some]
  BY DEF Bag
<1> QED
  BY <1>1, BagKeeps DEF PriceBag

LEMMA WriteCartKeeps ==
    ASSUME ShopInv, NEW b \in Bags, WriteCart(b)
    PROVE  ShopInv' /\ ArchivedStays
<1>1. PICK pc \in {"cart", "failed"} :
        /\ bag' = [bag EXCEPT ![b].pc = pc]
        /\ pc = "cart" => \A l \in bag[b].lines : listing[l].state \in {"live", "archived"}
  BY DEF WriteCart
<1>2. PICK r : r = [bag[b] EXCEPT !.pc = pc]
  OBVIOUS
<1>3. bag[b] \in Bag
  BY Rows DEF ShopInv
<1>4. r \in Bag /\ r.pc = pc /\ r.lines = bag[b].lines
  BY <1>2, <1>3 DEF Bag
<1>5. bag' = [bag EXCEPT ![b] = r]
  BY <1>1, <1>2
<1> QED
  BY <1>1, <1>4, <1>5, BagKeeps DEF WriteCart

LEMMA SetOnSaleKeeps ==
    ASSUME ShopInv, NEW s \in ShopScents, SetOnSale(s)
    PROVE  ShopInv' /\ ArchivedStays
<1>1. CartsStay /\ SoldWasSeen' /\ PhotosStay
  BY PhotosUnchanged DEF SetOnSale, CartsStay, ShopInv, SoldWasSeen, OnACart
<1> QED
  BY <1>1, ListingsSame DEF SetOnSale, ShopInv, TypeOK

-----------------------------------------------------------------------------

LEMMA InitShop == Init => ShopInv
<1> SUFFICES ASSUME Init PROVE ShopInv
  OBVIOUS
<1>1. TypeOK
  BY NoListingIsListing, IdleIsRequest DEF Init, TypeOK, Bag, Used, Live
<1> QED
  BY <1>1, NoListingIsListing, IdleIsRequest
  DEF Init, ShopInv, ArchivedWasSold, SoldWasSeen, SoldIsListed

LEMMA NextShop == ShopInv /\ [Next]_vars => ShopInv' /\ ArchivedStays
<1> SUFFICES ASSUME ShopInv, [Next]_vars PROVE ShopInv' /\ ArchivedStays
  OBVIOUS
<1>1. ASSUME NEW i \in Photos, Age(i) \/ Upload(i) PROVE ShopInv' /\ ArchivedStays
  BY <1>1, AgeKeeps, UploadKeeps
<1>2. ASSUME NEW t \in Tabs, NEW edit \in Edits,
             StartCreate(t, edit) \/ \E l \in Listings : StartUpdate(t, l, edit)
      PROVE  ShopInv' /\ ArchivedStays
  BY <1>2, StartCreateKeeps, StartUpdateKeeps
<1>3. ASSUME NEW t \in Tabs, NEW l \in Listings, Create(t, l) \/ StartRemove(t, l)
      PROVE  ShopInv' /\ ArchivedStays
  BY <1>3, CreateKeeps, StartRemoveKeeps
<1>4. ASSUME NEW t \in Tabs, Update(t) \/ Archive(t) \/ Delete(t) \/ DropPhoto(t) \/ Leave(t)
      PROVE  ShopInv' /\ ArchivedStays
  BY <1>4, UpdateKeeps, ArchiveKeeps, DeleteKeeps, DropPhotoKeeps, LeaveKeeps
<1>5. ASSUME NEW s \in ShopScents, SetOnSale(s) PROVE ShopInv' /\ ArchivedStays
  BY <1>5, SetOnSaleKeeps
<1>6. ASSUME NEW b \in Bags, WriteCart(b) \/ \E some \in SUBSET Listings : PriceBag(b, some)
      PROVE  ShopInv' /\ ArchivedStays
  BY <1>6, WriteCartKeeps, PriceBagKeeps
<1>7. ASSUME UNCHANGED vars PROVE ShopInv' /\ ArchivedStays
  BY <1>7, PhotosUnchanged, ListingsSame
  DEF vars, ShopInv, TypeOK, CartsStay, SoldWasSeen, OnACart
<1> QED
  BY <1>1, <1>2, <1>3, <1>4, <1>5, <1>6, <1>7 DEF Next

\* The invariant the theorems rest on.
THEOREM ShopInvariant == Spec => []ShopInv
BY InitShop, NextShop, PTL DEF Spec

\* Types, and the keys of migration 0024: photos that are used
\* are there, and a scent has one live listing.
THEOREM ShopIsTyped == Spec => []TypeOK
<1>1. ShopInv => TypeOK
  BY DEF ShopInv
<1> QED
  BY <1>1, ShopInvariant, PTL

\* The listing of every line of a cart is there, whatever admins remove while
\* the bag is being checked out (shop::remove and shop::checkout).
THEOREM SoldStaysListed == Spec => []SoldIsListed
<1>1. ShopInv => SoldIsListed
  BY DEF ShopInv
<1> QED
  BY <1>1, ShopInvariant, PTL

\* An archived listing stays as it was, whatever updates, removals and photo
\* sweeps were under way when it was archived.
THEOREM ArchiveIsForGood == Spec => ArchivedForGood
<1>1. ShopInv /\ [Next]_vars =>
        [\A l \in Listings : listing[l].state = "archived" => listing'[l] = listing[l]]_vars
  BY NextShop DEF ArchivedStays
<1> QED
  BY <1>1, ShopInvariant, PTL DEF Spec, ArchivedForGood
=============================================================================
