--------------------------- MODULE ServicesProofs ---------------------------
(***************************************************************************)
(* Theorems about the services around the schedules, for any number of     *)
(* people, days, addresses and tokens: the rate limiter, the co-presence   *)
(* cache, the calendar feed, the pages of a day and the holiday service.   *)
(***************************************************************************)
EXTENDS RateLimit, CoPresence, Feeds, Presence, Holiday,
        FiniteSetTheorems, WellFoundedInduction, TLAPS

-----------------------------------------------------------------------------
(* Sets *)

\* Some subsets of a finite set.
IsFamily(S, B) == IsFiniteSet(S) /\ B \subseteq SUBSET S /\ B # {}

(* Induction without a predicate: of some subsets of a finite set one has  *)
(* no smaller one among them.                                              *)
LEMMA SmallestOfFamily ==
  ASSUME NEW S, NEW B, IsFamily(S, B)
  PROVE  \E T \in B : \A U \in B : U \subseteq T => U = T
<1>1. IsWellFoundedOn(StrictSubsetOrdering(S), SUBSET S)
  BY FS_StrictSubsetOrderingWellFounded, FS_FiniteSubsetsOfFinite DEF IsFamily
<1>2. PICK T \in B : \A U \in B : <<U, T>> \notin StrictSubsetOrdering(S)
  BY <1>1, WFMin DEF IsFamily
<1> QED
  BY <1>2 DEF StrictSubsetOrdering, IsFamily

LEMMA FiniteSetHasMin ==
  ASSUME NEW S \in SUBSET Nat, IsFiniteSet(S), S # {}
  PROVE  Min(S) \in S /\ \A y \in S : Min(S) <= y
<1> DEFINE below(x) == {y \in S : y < x}
           B == {below(x) : x \in S}
<1>a. IsFamily(S, B)
  BY DEF IsFamily
<1>b. \A x \in S : B # {} /\ below(x) \in B
  OBVIOUS
<1>c. \A T \in B : \E x \in S : T = below(x)
  OBVIOUS
<1> HIDE DEF B
<1>1. PICK T \in B : \A U \in B : U \subseteq T => U = T
  BY <1>a, SmallestOfFamily
<1>2. PICK x \in S : T = below(x)
  BY <1>1, <1>c
<1>3. ASSUME NEW y \in S
      PROVE  x <= y
  <2>1. CASE y < x
    <3>1. \A z \in S : z < y => z < x
      BY <2>1
    <3>2. below(y) \subseteq below(x)
      BY <3>1
    <3>3. y \in below(x) /\ y \notin below(y)
      BY <2>1
    <3>4. below(y) = T
      BY <1>1, <1>2, <1>b, <3>2
    <3> QED
      BY <1>2, <3>3, <3>4
  <2> QED
    BY <2>1
<1> QED
  BY <1>3 DEF Min

LEMMA FiniteSetHasMax ==
  ASSUME NEW S \in SUBSET Nat, IsFiniteSet(S), S # {}
  PROVE  Max(S) \in S /\ \A y \in S : y <= Max(S)
<1> DEFINE above(x) == {y \in S : y > x}
           B == {above(x) : x \in S}
<1>a. IsFamily(S, B)
  BY DEF IsFamily
<1>b. \A x \in S : B # {} /\ above(x) \in B
  OBVIOUS
<1>c. \A T \in B : \E x \in S : T = above(x)
  OBVIOUS
<1> HIDE DEF B
<1>1. PICK T \in B : \A U \in B : U \subseteq T => U = T
  BY <1>a, SmallestOfFamily
<1>2. PICK x \in S : T = above(x)
  BY <1>1, <1>c
<1>3. ASSUME NEW y \in S
      PROVE  y <= x
  <2>1. CASE y > x
    <3>1. \A z \in S : z > y => z > x
      BY <2>1
    <3>2. above(y) \subseteq above(x)
      BY <3>1
    <3>3. y \in above(x) /\ y \notin above(y)
      BY <2>1
    <3>4. above(y) = T
      BY <1>1, <1>2, <1>b, <3>2
    <3> QED
      BY <1>2, <3>3, <3>4
  <2> QED
    BY <2>1
<1> QED
  BY <1>3 DEF Max

-----------------------------------------------------------------------------
(* Sums *)

\* What f adds up to over S, in the words of the folds.
Total(f, S) == MapThenSumSet(LAMBDA t : f[t], S)

\* g knows the sums of all the subsets of S.
Sums(g, f, S) ==
  g = [s \in SUBSET S |->
         IF s = {} THEN 0
         ELSE f[CHOOSE x \in s : TRUE] + g[s \ {CHOOSE x \in s : TRUE}]]

LEMMA TotalIsIter ==
  ASSUME NEW f, NEW S, NEW h, \A g : Sums(g, f, S) <=> g = h
  PROVE  Total(f, S) = h[S]
<1> DEFINE right(g) == g = [s \in SUBSET S |->
         IF s = {} THEN 0
         ELSE f[CHOOSE x \in s : TRUE] + g[s \ {CHOOSE x \in s : TRUE}]]
<1>1. Total(f, S) = (CHOOSE g : right(g))[S]
  BY Zenon DEF Total, MapThenSumSet, MapThenFoldSet
<1>2. \A g : right(g) <=> g = h
  BY DEF Sums
<1> HIDE DEF right
<1>3. (CHOOSE g : right(g)) = h
  BY <1>2
<1> QED
  BY <1>1, <1>3

\* What a sum over s is made of.
SumStep(f, g, s) ==
  g[s] = IF s = {} THEN 0
         ELSE f[CHOOSE x \in s : TRUE] + g[s \ {CHOOSE x \in s : TRUE}]

LEMMA SumsAreSteps ==
  ASSUME NEW f, NEW S, NEW g
  PROVE  /\ Sums(g, f, S) => DOMAIN g = SUBSET S /\ \A s \in SUBSET S : SumStep(f, g, s)
         /\ (g = [s \in SUBSET S |-> g[s]] /\ \A s \in SUBSET S : SumStep(f, g, s)) => Sums(g, f, S)
BY DEF Sums, SumStep

(* Those who know the sums agree on them.                                  *)
LEMMA SumsAgree ==
  ASSUME NEW f, NEW S, NEW T, IsFiniteSet(S), NEW g, NEW h, Sums(g, f, S), Sums(h, f, T),
         NEW s \in SUBSET (S \cap T)
  PROVE  g[s] = h[s]
<1>0. /\ \A t \in SUBSET S : SumStep(f, g, t)
      /\ \A t \in SUBSET T : SumStep(f, h, t)
  BY SumsAreSteps
<1> DEFINE B == {t \in SUBSET (S \cap T) : g[t] # h[t]}
<1>1. SUFFICES ASSUME B # {} PROVE FALSE
  OBVIOUS
<1>2. IsFamily(S, B)
  BY <1>1 DEF IsFamily
<1>3. PICK t \in B : \A u \in B : u \subseteq t => u = t
  BY <1>2, SmallestOfFamily
<1> DEFINE x == CHOOSE x \in t : TRUE
<1>4. SumStep(f, g, t) /\ SumStep(f, h, t)
  BY <1>0, <1>3
<1>5. t # {}
  BY <1>3, <1>4 DEF SumStep
<1>6. x \in t
  BY <1>5
<1>7. g[t \ {x}] = h[t \ {x}]
  BY <1>3, <1>6
<1> QED
  BY <1>3, <1>4, <1>5, <1>7 DEF SumStep

(* The sums over the subsets of a finite set are known.                    *)
LEMMA SumsExist ==
  ASSUME NEW f, NEW S, IsFiniteSet(S)
  PROVE  \E g : Sums(g, f, S)
<1> DEFINE B == {s \in SUBSET S : ~ \E g : Sums(g, f, s)}
<1>1. SUFFICES ASSUME B # {} PROVE FALSE
  OBVIOUS
<1>2. IsFamily(S, B)
  BY <1>1 DEF IsFamily
<1>3. \A s \in SUBSET S : s \in B <=> ~ \E g : Sums(g, f, s)
  OBVIOUS
<1> HIDE DEF B
<1>4. PICK s \in B : \A u \in B : u \subseteq s => u = s
  BY <1>2, SmallestOfFamily
<1>11. s \in SUBSET S
  BY <1>2 DEF IsFamily
<1>12. \A u \in SUBSET s : u # s => \E g : Sums(g, f, u)
  BY <1>3, <1>4, <1>11
<1>5. IsFiniteSet(s)
  BY <1>11, FS_Subset
<1> DEFINE known(u) == CHOOSE g : Sums(g, f, u)
           x == CHOOSE x \in s : TRUE
           part(u) == known(u)[u]
           h == [u \in SUBSET s |-> IF u # s THEN part(u)
                                    ELSE IF s = {} THEN 0 ELSE f[x] + part(s \ {x})]
<1>6. \A u \in SUBSET s : u # s => Sums(known(u), f, u)
  BY <1>12
<1> HIDE DEF known
<1>7. \A u, w \in SUBSET s : u # s /\ w # s /\ w \subseteq u => known(u)[w] = part(w)
  <2> SUFFICES ASSUME NEW u \in SUBSET s, NEW w \in SUBSET s, u # s, w # s, w \subseteq u
               PROVE  known(u)[w] = known(w)[w]
    OBVIOUS
  <2>1. Sums(known(u), f, u) /\ Sums(known(w), f, w)
    BY <1>6
  <2>2. IsFiniteSet(u) /\ w \in SUBSET (u \cap w)
    BY <1>5, FS_Subset
  <2> QED
    BY <2>1, <2>2, SumsAgree
<1>8. \A u \in SUBSET s : SumStep(f, h, u)
  <2> SUFFICES ASSUME NEW u \in SUBSET s
               PROVE  SumStep(f, h, u)
    OBVIOUS
  <2> DEFINE y == CHOOSE y \in u : TRUE
  <2>1. u # {} => y \in u
    OBVIOUS
  <2>2. CASE u # s
    <3>1. SumStep(f, known(u), u)
      BY <1>6, <2>2, SumsAreSteps
    <3>2. h[u] = part(u)
      BY <2>2
    <3>3. CASE u = {}
      BY <3>1, <3>2, <3>3 DEF SumStep
    <3>4. CASE u # {}
      <4>1. u \ {y} \in SUBSET s /\ u \ {y} # s /\ u \ {y} \subseteq u
        BY <2>1, <2>2, <3>4
      <4>2. known(u)[u \ {y}] = part(u \ {y}) /\ h[u \ {y}] = part(u \ {y})
        BY <1>7, <2>2, <4>1
      <4> QED
        BY <3>1, <3>2, <3>4, <4>2 DEF SumStep
    <3> QED
      BY <3>3, <3>4
  <2>3. CASE u = s
    <3>1. CASE u = {}
      BY <2>3, <3>1 DEF SumStep
    <3>2. CASE u # {}
      <4>1. x \in s /\ s \ {x} \in SUBSET s /\ s \ {x} # s
        BY <2>3, <3>2
      <4>2. h[s \ {x}] = part(s \ {x}) /\ h[s] = f[x] + part(s \ {x})
        BY <2>3, <3>2, <4>1
      <4> QED
        BY <2>3, <3>2, <4>2 DEF SumStep
    <3> QED
      BY <3>1, <3>2
  <2> QED
    BY <2>2, <2>3
<1>9. h = [u \in SUBSET s |-> h[u]]
  OBVIOUS
<1> HIDE DEF h
<1>10. Sums(h, f, s)
  BY <1>8, <1>9, SumsAreSteps
<1> QED
  BY <1>3, <1>4, <1>10, <1>11

(* What a sum is: nothing, or one of them and the sum of the others.       *)
LEMMA TotalFolds ==
  ASSUME NEW f, NEW S, IsFiniteSet(S)
  PROVE  /\ Total(f, {}) = 0
         /\ S # {} => Total(f, S) = f[CHOOSE x \in S : TRUE] + Total(f, S \ {CHOOSE x \in S : TRUE})
<1>1. ASSUME NEW T \in SUBSET S, NEW g, Sums(g, f, S)
      PROVE  Total(f, T) = g[T]
  <2>1. IsFiniteSet(T)
    BY FS_Subset
  <2>2. PICK h : Sums(h, f, T)
    BY <2>1, SumsExist
  <2>3. \A k : Sums(k, f, T) => k = h
    <3> SUFFICES ASSUME NEW k, Sums(k, f, T)
                 PROVE  k = h
      OBVIOUS
    <3>1. \A t \in SUBSET T : k[t] = h[t]
      BY <2>1, <2>2, SumsAgree
    <3>2. k = [t \in SUBSET T |-> k[t]] /\ h = [t \in SUBSET T |-> h[t]]
      BY <2>2 DEF Sums
    <3> QED
      BY <3>1, <3>2
  <2>4. Total(f, T) = h[T]
    BY <2>2, <2>3, TotalIsIter
  <2>5. h[T] = g[T]
    BY <1>1, <2>1, <2>2, SumsAgree
  <2> QED
    BY <2>4, <2>5
<1>2. PICK g : Sums(g, f, S)
  BY SumsExist
<1>3. {} \in SUBSET S /\ SumStep(f, g, {}) /\ SumStep(f, g, S)
  BY <1>2, SumsAreSteps
<1>4. Total(f, {}) = 0
  <2>1. Total(f, {}) = g[{}]
    BY <1>1, <1>2, <1>3
  <2> QED
    BY <1>3, <2>1 DEF SumStep
<1>5. ASSUME S # {}
      PROVE  Total(f, S) = f[CHOOSE x \in S : TRUE] + Total(f, S \ {CHOOSE x \in S : TRUE})
  <2> DEFINE x == CHOOSE x \in S : TRUE
  <2>1. S \in SUBSET S /\ S \ {x} \in SUBSET S
    OBVIOUS
  <2>2. Total(f, S) = g[S] /\ Total(f, S \ {x}) = g[S \ {x}]
    BY <1>1, <1>2, <2>1
  <2> QED
    BY <1>3, <1>5, <2>2 DEF SumStep
<1> QED
  BY <1>4, <1>5

(* A sum of naturals: any element can be the one that is added last.       *)
LEMMA TotalIsNat ==
  ASSUME NEW f, NEW S, IsFiniteSet(S), \A t \in S : f[t] \in Nat
  PROVE  Total(f, S) \in Nat
<1> DEFINE B == {s \in SUBSET S : Total(f, s) \notin Nat}
<1>1. SUFFICES ASSUME B # {} PROVE FALSE
  OBVIOUS
<1>2. IsFamily(S, B)
  BY <1>1 DEF IsFamily
<1>3. PICK s \in B : \A u \in B : u \subseteq s => u = s
  BY <1>2, SmallestOfFamily
<1>4. IsFiniteSet(s)
  BY <1>3, FS_Subset
<1> DEFINE x == CHOOSE x \in s : TRUE
<1>5. Total(f, {}) = 0 /\ (s # {} => Total(f, s) = f[x] + Total(f, s \ {x}))
  BY <1>4, TotalFolds
<1>6. s # {}
  <2>1. s = {} => Total(f, s) = 0
    BY <1>5
  <2>2. Total(f, s) \notin Nat
    BY <1>3
  <2> QED
    BY <2>1, <2>2
<1>7. x \in s
  BY <1>6
<1>8. Total(f, s \ {x}) \in Nat
  BY <1>3, <1>7
<1>9. f[x] \in Nat
  BY <1>3, <1>7
<1> HIDE DEF x
<1> QED
  BY <1>3, <1>5, <1>6, <1>8, <1>9

LEMMA TotalAgrees ==
  ASSUME NEW f, NEW g, NEW S, IsFiniteSet(S), \A t \in S : f[t] = g[t]
  PROVE  Total(f, S) = Total(g, S)
<1> DEFINE B == {s \in SUBSET S : Total(f, s) # Total(g, s)}
<1>1. SUFFICES ASSUME B # {} PROVE FALSE
  OBVIOUS
<1>2. IsFamily(S, B)
  BY <1>1 DEF IsFamily
<1>3. PICK s \in B : \A u \in B : u \subseteq s => u = s
  BY <1>2, SmallestOfFamily
<1>4. IsFiniteSet(s)
  BY <1>3, FS_Subset
<1> DEFINE x == CHOOSE x \in s : TRUE
<1>5. /\ Total(f, {}) = 0 /\ (s # {} => Total(f, s) = f[x] + Total(f, s \ {x}))
      /\ Total(g, {}) = 0 /\ (s # {} => Total(g, s) = g[x] + Total(g, s \ {x}))
  BY <1>4, TotalFolds
<1>6. s # {}
  BY <1>3, <1>5
<1>7. x \in s
  BY <1>6
<1>8. Total(f, s \ {x}) = Total(g, s \ {x}) /\ f[x] = g[x]
  BY <1>3, <1>7
<1> QED
  BY <1>3, <1>5, <1>6, <1>8

LEMMA TotalTakesAny ==
  ASSUME NEW f, NEW S, IsFiniteSet(S), \A t \in S : f[t] \in Nat, NEW y \in S
  PROVE  Total(f, S) = f[y] + Total(f, S \ {y})
<1> DEFINE wrong(s) == \E z \in s : Total(f, s) # f[z] + Total(f, s \ {z})
           B == {s \in SUBSET S : wrong(s)}
<1>1. SUFFICES ASSUME B # {} PROVE FALSE
  OBVIOUS
<1>2. IsFamily(S, B)
  BY <1>1 DEF IsFamily
<1>a. \A s \in SUBSET S : s \in B <=> wrong(s)
  OBVIOUS
<1> HIDE DEF B
<1>3. PICK s \in B : \A u \in B : u \subseteq s => u = s
  BY <1>2, SmallestOfFamily
<1>b. s \in SUBSET S
  BY <1>2 DEF IsFamily
<1>4. PICK z \in s : Total(f, s) # f[z] + Total(f, s \ {z})
  BY <1>3, <1>a, <1>b
<1>5. \A u \in SUBSET s : IsFiniteSet(u) /\ Total(f, u) \in Nat
  <2> SUFFICES ASSUME NEW u \in SUBSET s
               PROVE  IsFiniteSet(u) /\ Total(f, u) \in Nat
    OBVIOUS
  <2>1. IsFiniteSet(u) /\ \A t \in u : f[t] \in Nat
    BY <1>b, FS_Subset
  <2> QED
    BY <2>1, TotalIsNat
<1>6. \A u \in SUBSET s : u # s => ~wrong(u)
  BY <1>3, <1>a, <1>b
<1> DEFINE x == CHOOSE x \in s : TRUE
<1>7. x \in s
  BY <1>4
<1>8. Total(f, s) = f[x] + Total(f, s \ {x})
  BY <1>4, <1>5, TotalFolds
<1>9. x # z
  BY <1>4, <1>8
<1> HIDE DEF x, wrong
<1> DEFINE both == s \ {x, z}
<1>10. /\ s \ {x} \in SUBSET s /\ s \ {x} # s /\ z \in s \ {x} /\ (s \ {x}) \ {z} = both
       /\ s \ {z} \in SUBSET s /\ s \ {z} # s /\ x \in s \ {z} /\ (s \ {z}) \ {x} = both
  BY <1>7, <1>9
<1>11. ~wrong(s \ {x}) /\ ~wrong(s \ {z})
  BY <1>6, <1>10
<1>12. Total(f, s \ {x}) = f[z] + Total(f, both) /\ Total(f, s \ {z}) = f[x] + Total(f, both)
  BY <1>10, <1>11 DEF wrong
<1>13. Total(f, both) \in Nat /\ f[x] \in Nat /\ f[z] \in Nat
  BY <1>5, <1>7, <1>b
<1> HIDE DEF both
<1> QED
  BY <1>4, <1>8, <1>12, <1>13

-----------------------------------------------------------------------------
(* RateLimit *)

Full == Capacity * Cost

\* What address a would find now.
Credit(a) == Refilled(Lookup(a))

RateTypes ==
  /\ clock \in Ticks /\ DOMAIN buckets = Addresses
  /\ \A a \in Addresses :
       /\ buckets[a] # NoBucket =>
            buckets[a].tokens \in Nat /\ buckets[a].last \in Nat /\ buckets[a].last <= clock
  /\ DOMAIN admitted = Addresses
  /\ \A a \in Addresses : DOMAIN admitted[a] = Ticks /\ \A t \in Ticks : admitted[a][t] \in Nat
  /\ DOMAIN promise = Addresses /\ \A a \in Addresses : promise[a] \in Nat

\* Every request that was let in has been paid for, by the capacity or by what came
\* back since, and what is left of that is the credit.
Paid(a) ==
  \A s \in 0..clock : Cost * Total(admitted[a], s..clock) + Credit(a) <= Full + (clock - s)

\* A refused client has what it takes, or will when its time has come.
Kept(a) ==
  promise[a] > 0 =>
    Credit(a) >= Cost \/ (promise[a] >= clock /\ Credit(a) + (promise[a] - clock) >= Cost)

RateInv ==
  /\ RateTypes
  /\ \A a \in Addresses : Paid(a) /\ Kept(a) /\ \A t \in Ticks : t > clock => admitted[a][t] = 0

LEMMA Amounts ==
  ASSUME RateAssumption
  PROVE  /\ Full \in Nat /\ Cost \in Nat /\ Cost > 0 /\ Full >= Cost /\ LastTick \in Nat
         /\ TicksPerSecond \in Nat /\ TicksPerSecond > 0
         /\ \A n \in Nat : Cost * n \in Nat /\ Cost * (n + 1) = Cost * n + Cost
         /\ Cost * 0 = 0
<1>1. /\ Cost \in Nat /\ Cost > 0 /\ LastTick \in Nat /\ TicksPerSecond \in Nat /\ TicksPerSecond > 0
      /\ Capacity \in Nat /\ Capacity >= 1
  BY DEF RateAssumption
<1>2. Full \in Nat /\ Full >= Cost
  <2>1. PICK k \in Nat : Capacity = k + 1
    <3>1. Capacity - 1 \in Nat /\ Capacity = (Capacity - 1) + 1
      BY <1>1
    <3> QED
      BY <3>1
  <2>2. Full = k * Cost + Cost
    BY <1>1, <2>1 DEF Full
  <2>3. k * Cost \in Nat
    BY <1>1, <2>1
  <2> QED
    BY <1>1, <2>2, <2>3
<1>3. \A n \in Nat : Cost * n \in Nat /\ Cost * (n + 1) = Cost * n + Cost
  BY <1>1
<1>4. Cost * 0 = 0
  BY <1>1
<1> QED
  BY <1>1, <1>2, <1>3, <1>4

LEMMA Stretch ==
  ASSUME RateAssumption, NEW c \in Ticks, NEW s \in 0..c
  PROVE  /\ c \in Nat /\ s \in Nat /\ s <= c /\ IsFiniteSet(s..c)
         /\ c \in s..c /\ s..c \subseteq Ticks
<1>1. LastTick \in Nat
  BY DEF RateAssumption
<1>2. c \in Nat /\ s \in Nat /\ s <= c /\ c <= LastTick
  BY <1>1 DEF Ticks
<1>3. IsFiniteSet(s..c)
  BY <1>2, FS_Interval
<1> QED
  BY <1>1, <1>2, <1>3 DEF Ticks

LEMMA ClockIsNat ==
  ASSUME RateAssumption, RateTypes
  PROVE  clock \in Nat /\ clock \in Ticks /\ clock <= LastTick /\ LastTick \in Nat
<1>1. LastTick \in Nat
  BY DEF RateAssumption
<1> QED
  BY <1>1 DEF RateTypes, Ticks

LEMMA LesserOfTwo ==
  ASSUME NEW x \in Nat, NEW y \in Nat
  PROVE  Min({x, y}) = IF x <= y THEN x ELSE y
BY DEF Min

(* The credit of an address.                                               *)
LEMMA CreditIs ==
  ASSUME RateAssumption, RateTypes, NEW a \in Addresses
  PROVE  /\ Credit(a) \in Nat /\ Credit(a) <= Full
         /\ buckets[a] = NoBucket => Credit(a) = Full
         /\ buckets[a] # NoBucket =>
              LET sum == buckets[a].tokens + (clock - buckets[a].last)
              IN Credit(a) = IF Full <= sum THEN Full ELSE sum
<1> USE DEF Full
<1>1. Full \in Nat /\ clock \in Nat
  BY Amounts DEF RateTypes, Ticks
<1> HIDE DEF Full
<1>2. CASE buckets[a] = NoBucket
  <2>1. Lookup(a) = [tokens |-> Full, last |-> clock]
    BY <1>2 DEF Lookup, NewTokenBucket, Full
  <2>2. Credit(a) = Min({Full, Full + (clock - clock)})
    BY <2>1 DEF Credit, Refilled, Full
  <2>3. Full + (clock - clock) = Full
    BY <1>1
  <2>4. Credit(a) = Full
    BY <1>1, <2>2, <2>3, LesserOfTwo
  <2> QED
    BY <1>1, <1>2, <2>4
<1>3. CASE buckets[a] # NoBucket
  <2> DEFINE sum == buckets[a].tokens + (clock - buckets[a].last)
  <2>1. sum \in Nat
    BY <1>1, <1>3 DEF RateTypes
  <2>2. Credit(a) = Min({Full, sum})
    BY <1>3 DEF Credit, Refilled, Full, Lookup
  <2> HIDE DEF sum
  <2>3. Credit(a) = IF Full <= sum THEN Full ELSE sum
    BY <1>1, <2>1, <2>2, LesserOfTwo
  <2>4. Credit(a) \in Nat /\ Credit(a) <= Full
    BY <1>1, <2>1, <2>3
  <2> QED
    BY <1>3, <2>3, <2>4 DEF sum
<1> QED
  BY <1>2, <1>3

(* Whole seconds are never less than the wait.                             *)
LEMMA RoundedUp ==
  ASSUME RateAssumption, NEW wait \in Nat, wait > 0
  PROVE  /\ retryAfter(wait) \in Nat
         /\ retryAfter(wait) * TicksPerSecond \in Nat
         /\ retryAfter(wait) * TicksPerSecond >= wait
<1> DEFINE n == wait + TicksPerSecond - 1
           q == n \div TicksPerSecond
<1>0. TicksPerSecond \in Nat /\ TicksPerSecond > 0
  BY Amounts
<1>1. n \in Nat
  BY <1>0
<1> HIDE DEF n
<1>2. q \in Nat /\ n < TicksPerSecond * q + TicksPerSecond
  BY <1>0, <1>1
<1>3. q * TicksPerSecond = TicksPerSecond * q /\ TicksPerSecond * q \in Nat
  BY <1>0, <1>2
<1> HIDE DEF q
<1>4. q * TicksPerSecond >= wait
  BY <1>0, <1>2, <1>3 DEF n
<1> QED
  BY <1>2, <1>3, <1>4 DEF retryAfter, q, n

(* A request pays with its own address's credit: the one that is let in    *)
(* takes Cost from it and one is added to the tick's requests.             *)
LEMMA AllowKeepsRate ==
  ASSUME RateAssumption, RateInv, NEW a \in Addresses, Allow(a)
  PROVE  RateInv'
<1> DEFINE tokens == Credit(a)
           let == tokens >= Cost
<1>1. RateTypes /\ \A c \in Addresses : Paid(c) /\ Kept(c) /\ \A t \in Ticks : t > clock => admitted[c][t] = 0
  BY DEF RateInv
<1>2. /\ clock' = clock
      /\ let => /\ buckets' = [buckets EXCEPT ![a] = [tokens |-> tokens - Cost, last |-> clock]]
                /\ admitted' = [admitted EXCEPT ![a][clock] = @ + 1]
                /\ promise' = [promise EXCEPT ![a] = 0]
      /\ ~let => /\ buckets' = [buckets EXCEPT ![a] = [tokens |-> tokens, last |-> clock]]
                 /\ promise' = [promise EXCEPT ![a] = clock + retryAfter(Cost - tokens) * TicksPerSecond]
                 /\ admitted' = admitted
  BY DEF Allow, Credit
<1>3. tokens \in Nat /\ tokens <= Full /\ clock \in Nat /\ clock \in Ticks
  BY <1>1, CreditIs DEF RateTypes, Ticks
<1> HIDE DEF tokens
<1>4. Full \in Nat /\ Cost \in Nat /\ Cost > 0 /\ Full >= Cost
  BY Amounts
<1> DEFINE left == IF let THEN tokens - Cost ELSE tokens
           new == [tokens |-> left, last |-> clock]
<1>5. left \in Nat /\ left <= Full
  BY <1>3, <1>4
<1>6. buckets' = [buckets EXCEPT ![a] = new]
  BY <1>2
<1>7. new.tokens = left /\ new.last = clock
  OBVIOUS
<1> HIDE DEF new
<1>8. /\ \A c \in Addresses \ {a} : /\ buckets'[c] = buckets[c] /\ admitted'[c] = admitted[c]
                                    /\ promise'[c] = promise[c]
      /\ buckets'[a] = new
      /\ DOMAIN buckets' = Addresses /\ DOMAIN admitted' = Addresses /\ DOMAIN promise' = Addresses
  BY <1>1, <1>2, <1>6 DEF RateTypes
<1>9. /\ DOMAIN admitted'[a] = Ticks
      /\ \A t \in Ticks \ {clock} : admitted'[a][t] = admitted[a][t]
      /\ admitted'[a][clock] = IF let THEN admitted[a][clock] + 1 ELSE admitted[a][clock]
  BY <1>1, <1>2, <1>3 DEF RateTypes
<1>10. promise'[a] = IF let THEN 0 ELSE clock + retryAfter(Cost - tokens) * TicksPerSecond
  BY <1>1, <1>2 DEF RateTypes
<1>11. ~let => LET wait == retryAfter(Cost - tokens) * TicksPerSecond
               IN wait \in Nat /\ tokens + wait >= Cost
  <2> SUFFICES ASSUME ~let
               PROVE  LET wait == retryAfter(Cost - tokens) * TicksPerSecond
                      IN wait \in Nat /\ tokens + wait >= Cost
    OBVIOUS
  <2>1. Cost - tokens \in Nat /\ Cost - tokens > 0
    BY <1>3, <1>4
  <2>2. /\ retryAfter(Cost - tokens) * TicksPerSecond \in Nat
        /\ retryAfter(Cost - tokens) * TicksPerSecond >= Cost - tokens
    BY <2>1, RoundedUp
  <2> QED
    BY <1>3, <1>4, <2>2
<1>12. RateTypes'
  <2>1. \A c \in Addresses : buckets'[c] # NoBucket =>
           buckets'[c].tokens \in Nat /\ buckets'[c].last \in Nat /\ buckets'[c].last <= clock'
    BY <1>1, <1>2, <1>3, <1>5, <1>7, <1>8 DEF RateTypes
  <2>2. \A c \in Addresses : DOMAIN admitted'[c] = Ticks /\ \A t \in Ticks : admitted'[c][t] \in Nat
    <3>1. \A c \in Addresses : DOMAIN admitted[c] = Ticks /\ \A t \in Ticks : admitted[c][t] \in Nat
      BY <1>1 DEF RateTypes
    <3>2. \A t \in Ticks : admitted'[a][t] \in Nat
      BY <1>3, <1>9, <3>1
    <3> QED
      BY <1>8, <1>9, <3>1, <3>2
  <2>3. \A c \in Addresses : promise'[c] \in Nat
    BY <1>1, <1>3, <1>8, <1>10, <1>11 DEF RateTypes
  <2> QED
    BY <1>2, <1>3, <1>8, <2>1, <2>2, <2>3 DEF RateTypes
<1>13. ASSUME NEW c \in Addresses \ {a}
       PROVE  Paid(c)' /\ Kept(c)'
  <2>1. Credit(c)' = Credit(c)
    BY <1>2, <1>8 DEF Credit, Refilled, Lookup, NewTokenBucket
  <2> QED
    BY <1>1, <1>2, <1>8, <2>1 DEF Paid, Kept
<1>14. Credit(a)' = left
  <2>1. a \in Addresses /\ clock' \in Nat
    BY <1>2, <1>3
  <2>2. new # NoBucket
    <3>1. left \in 0..Capacity * Cost /\ clock \in 0..LastTick
      BY <1>3, <1>4, <1>5 DEF Full, Ticks
    <3> HIDE DEF left
    <3>2. new \in [tokens : 0..Capacity * Cost, last : 0..LastTick]
      BY <3>1 DEF new
    <3> QED
      BY <3>2 DEF RateAssumption
  <2>3. Lookup(a)' = new
    BY <1>8, <2>2 DEF Lookup
  <2>4. Credit(a)' = Min({Full, left + (clock - clock)})
    BY <1>2, <1>7, <2>3 DEF Credit, Refilled, Full
  <2>5. left + (clock - clock) = left
    BY <1>3, <1>5
  <2> QED
    BY <1>4, <1>5, <2>4, <2>5, LesserOfTwo
<1>15. Kept(a)'
  BY <1>2, <1>3, <1>4, <1>10, <1>11, <1>14 DEF Kept
<1>16. Paid(a)'
  <2> SUFFICES ASSUME NEW s \in 0..clock
               PROVE  Cost * Total(admitted'[a], s..clock) + left <= Full + (clock - s)
    BY <1>2, <1>14 DEF Paid
  <2> DEFINE S == s..clock
             old == Total(admitted[a], S)
  <2>1. IsFiniteSet(S) /\ clock \in S /\ S \subseteq Ticks
    BY <1>3, Stretch
  <2>2. Cost * old + tokens <= Full + (clock - s)
    BY <1>1 DEF Paid, tokens
  <2>3. \A t \in S : admitted[a][t] \in Nat /\ admitted'[a][t] \in Nat
    BY <1>1, <1>12, <2>1 DEF RateTypes
  <2> HIDE DEF S
  <2>4. old \in Nat
    BY <2>1, <2>3, TotalIsNat
  <2>5. CASE ~let
    BY <1>2, <1>8, <2>2, <2>5 DEF S
  <2>6. CASE let
    <3>1. Total(admitted[a], S) = admitted[a][clock] + Total(admitted[a], S \ {clock})
      BY <2>1, <2>3, TotalTakesAny
    <3>2. Total(admitted'[a], S) = admitted'[a][clock] + Total(admitted'[a], S \ {clock})
      BY <2>1, <2>3, TotalTakesAny
    <3>3. IsFiniteSet(S \ {clock}) /\ \A t \in S \ {clock} : admitted'[a][t] = admitted[a][t]
      BY <1>9, <2>1, FS_Subset
    <3>4. Total(admitted'[a], S \ {clock}) = Total(admitted[a], S \ {clock})
      BY <3>3, TotalAgrees
    <3>5. Total(admitted[a], S \ {clock}) \in Nat
      BY <2>1, <2>3, <3>3, TotalIsNat
    <3>6. Total(admitted'[a], S) = old + 1
      BY <1>9, <2>1, <2>3, <2>6, <3>1, <3>2, <3>4, <3>5
    <3>7. Cost * (old + 1) = Cost * old + Cost /\ Cost * old \in Nat
      BY <2>4, Amounts
    <3> QED
      BY <1>3, <1>4, <2>2, <2>6, <3>6, <3>7 DEF S
  <2> QED
    BY <2>5, <2>6
<1>17. \A c \in Addresses : \A t \in Ticks : t > clock' => admitted'[c][t] = 0
  BY <1>1, <1>2, <1>3, <1>8, <1>9
<1> QED
  BY <1>12, <1>13, <1>15, <1>16, <1>17 DEF RateInv

(* A tick gives back one unit, to the full bucket nothing.                 *)
LEMMA TickKeepsRate ==
  ASSUME RateAssumption, RateInv, Tick
  PROVE  RateInv'
<1>1. RateTypes /\ \A c \in Addresses : Paid(c) /\ Kept(c) /\ \A t \in Ticks : t > clock => admitted[c][t] = 0
  BY DEF RateInv
<1>2. clock' = clock + 1 /\ clock < LastTick /\ UNCHANGED <<buckets, admitted, promise>>
  BY DEF Tick
<1>3. clock \in Nat /\ clock' \in Nat /\ clock' \in Ticks /\ clock \in Ticks
  <2>1. clock \in Nat /\ LastTick \in Nat /\ clock \in Ticks
    BY <1>1, ClockIsNat
  <2> QED
    BY <1>2, <2>1 DEF Ticks
<1>4. Full \in Nat /\ Cost \in Nat /\ Cost > 0 /\ Full >= Cost
  BY Amounts
<1>5. RateTypes'
  BY <1>1, <1>2, <1>3 DEF RateTypes
<1>6. \A a \in Addresses : /\ Credit(a) \in Nat /\ Credit(a)' \in Nat /\ Credit(a)' <= Full
                           /\ Credit(a) <= Credit(a)' /\ Credit(a)' <= Credit(a) + 1
                           /\ Credit(a)' = Credit(a) + 1 \/ Credit(a)' = Full
  <2> SUFFICES ASSUME NEW a \in Addresses
               PROVE  /\ Credit(a) \in Nat /\ Credit(a)' \in Nat /\ Credit(a)' <= Full
                      /\ Credit(a) <= Credit(a)' /\ Credit(a)' <= Credit(a) + 1
                      /\ Credit(a)' = Credit(a) + 1 \/ Credit(a)' = Full
    OBVIOUS
  <2>1. CASE buckets[a] = NoBucket
    <3>1. Credit(a) = Full
      BY <1>1, <2>1, CreditIs
    <3>2. Lookup(a)' = [tokens |-> Full, last |-> clock']
      BY <1>2, <2>1 DEF Lookup, NewTokenBucket, Full
    <3>3. Credit(a)' = Min({Full, Full + (clock' - clock')})
      BY <3>2 DEF Credit, Refilled, Full
    <3>4. \A c \in Nat : Full + (c - c) = Full
      BY <1>4
    <3>5. Credit(a)' = Full
      BY <1>3, <1>4, <3>3, <3>4, LesserOfTwo
    <3> QED
      BY <1>4, <3>1, <3>5
  <2>2. CASE buckets[a] # NoBucket
    <3> DEFINE sum == buckets[a].tokens + (clock - buckets[a].last)
    <3>1. Credit(a) = (IF Full <= sum THEN Full ELSE sum)
      BY <1>1, <2>2, CreditIs
    <3>2. Credit(a)' = Min({Full, buckets[a].tokens + (clock' - buckets[a].last)})
      BY <1>2, <2>2 DEF Credit, Refilled, Lookup, Full
    <3>3. sum \in Nat /\ buckets[a].tokens + (clock' - buckets[a].last) = sum + 1
      BY <1>1, <1>2, <1>3, <2>2 DEF RateTypes
    <3> HIDE DEF sum
    <3>4. Credit(a)' = Min({Full, sum + 1})
      BY <3>2, <3>3
    <3>5. Credit(a)' = IF Full <= sum + 1 THEN Full ELSE sum + 1
      BY <1>4, <3>3, <3>4, LesserOfTwo
    <3> QED
      BY <1>4, <3>1, <3>3, <3>5
  <2> QED
    BY <2>1, <2>2
<1>7. ASSUME NEW a \in Addresses
      PROVE  Paid(a)'
  <2> SUFFICES ASSUME NEW s \in 0..clock'
               PROVE  Cost * Total(admitted[a], s..clock') + Credit(a)' <= Full + (clock' - s)
    BY <1>2 DEF Paid
  <2>1. /\ IsFiniteSet(s..clock') /\ clock' \in s..clock' /\ (s..clock') \ {clock'} = s..clock
        /\ s \in Nat /\ s <= clock'
    <3>1. IsFiniteSet(s..clock') /\ clock' \in s..clock' /\ s \in Nat /\ s <= clock'
      BY <1>3, Stretch
    <3>2. (s..clock') \ {clock'} = s..clock
      BY <1>2, <1>3, <3>1
    <3> QED
      BY <3>1, <3>2
  <2>2. s..clock' \subseteq Ticks
    BY <1>3, Stretch
  <2>3. \A t \in s..clock' : admitted[a][t] \in Nat
    BY <1>1, <2>2 DEF RateTypes
  <2>4. admitted[a][clock'] = 0
    BY <1>1, <1>2, <1>3
  <2>5. Total(admitted[a], s..clock') = 0 + Total(admitted[a], s..clock)
    <3>1. Total(admitted[a], s..clock') = admitted[a][clock'] + Total(admitted[a], (s..clock') \ {clock'})
      BY <2>1, <2>3, TotalTakesAny
    <3> QED
      BY <2>1, <2>4, <3>1
  <2>6. IsFiniteSet(s..clock) /\ \A t \in s..clock : admitted[a][t] \in Nat
    BY <2>1, <2>3, FS_RemoveElement
  <2>7. Total(admitted[a], s..clock) \in Nat
    BY <2>6, TotalIsNat
  <2>8. Total(admitted[a], s..clock') = Total(admitted[a], s..clock)
    BY <2>5, <2>7
  <2>9. CASE s <= clock
    <3>1. Cost * Total(admitted[a], s..clock) + Credit(a) <= Full + (clock - s)
      BY <1>1, <1>3, <2>9 DEF Paid
    <3>2. Cost * Total(admitted[a], s..clock) \in Nat
      BY <2>7, Amounts
    <3> QED
      BY <1>2, <1>3, <1>4, <1>6, <2>8, <3>1, <3>2
  <2>10. CASE s = clock'
    <3>1. s..clock = {}
      BY <1>2, <1>3, <2>10
    <3>2. Total(admitted[a], s..clock) = 0
      BY <2>6, <3>1, TotalFolds
    <3>3. Cost * Total(admitted[a], s..clock') = 0
      BY <2>8, <3>2, Amounts
    <3> QED
      BY <1>3, <1>4, <1>6, <2>10, <3>3
  <2> QED
    BY <1>2, <1>3, <2>1, <2>9, <2>10
<1>8. ASSUME NEW a \in Addresses
      PROVE  Kept(a)'
  <2>1. promise[a] \in Nat
    BY <1>1 DEF RateTypes
  <2> QED
    BY <1>1, <1>2, <1>3, <1>4, <1>6, <2>1 DEF Kept
<1>9. \A c \in Addresses : \A t \in Ticks : t > clock' => admitted'[c][t] = 0
  BY <1>1, <1>2, <1>3 DEF Ticks
<1> QED
  BY <1>5, <1>7, <1>8, <1>9 DEF RateInv

(* A limiter that nobody has asked yet.                                    *)
LEMMA NothingTotals ==
  ASSUME RateAssumption, NEW c \in Ticks, NEW s \in 0..c, NEW f, \A t \in Ticks : f[t] = 0
  PROVE  Cost * Total(f, s..c) = 0
<1> DEFINE B == {u \in SUBSET (s..c) : Total(f, u) # 0}
<1>1. IsFiniteSet(s..c) /\ s..c \subseteq Ticks
  BY Stretch
<1>2. SUFFICES ASSUME B # {} PROVE FALSE
  <2>1. B = {} => Total(f, s..c) = 0
    OBVIOUS
  <2> QED
    BY <2>1, Amounts
<1>3. IsFamily(s..c, B)
  BY <1>1, <1>2 DEF IsFamily
<1>4. \A u \in SUBSET (s..c) : u \in B <=> Total(f, u) # 0
  OBVIOUS
<1> HIDE DEF B
<1>5. PICK u \in B : \A w \in B : w \subseteq u => w = u
  BY <1>3, SmallestOfFamily
<1>6. u \in SUBSET (s..c)
  BY <1>3 DEF IsFamily
<1>7. IsFiniteSet(u)
  BY <1>1, <1>6, FS_Subset
<1> DEFINE x == CHOOSE x \in u : TRUE
<1>8. Total(f, {}) = 0 /\ (u # {} => Total(f, u) = f[x] + Total(f, u \ {x}))
  BY <1>7, TotalFolds
<1>9. u # {}
  BY <1>4, <1>5, <1>6, <1>8
<1>10. u \ {x} \in SUBSET (s..c) /\ u \ {x} \subseteq u /\ u \ {x} # u /\ x \in s..c
  BY <1>6, <1>9
<1>11. u \ {x} \notin B
  BY <1>5, <1>10
<1>12. f[x] = 0 /\ Total(f, u \ {x}) = 0
  BY <1>1, <1>4, <1>10, <1>11
<1> QED
  BY <1>4, <1>5, <1>6, <1>8, <1>9, <1>12

LEMMA RateBegins ==
  ASSUME RateAssumption, RateInit
  PROVE  RateInv
<1>1. /\ buckets = [a \in Addresses |-> NoBucket] /\ clock = 0 /\ promise = [a \in Addresses |-> 0]
      /\ admitted = [a \in Addresses |-> [t \in Ticks |-> 0]]
  BY DEF RateInit
<1>2. Full \in Nat /\ 0 \in Ticks
  BY Amounts DEF Ticks
<1>3. RateTypes
  BY <1>1, <1>2 DEF RateTypes
<1>4. ASSUME NEW a \in Addresses
      PROVE  Paid(a) /\ Kept(a)
  <2>1. Credit(a) = Full
    BY <1>1, <1>3, CreditIs
  <2>2. \A s \in 0..clock : Cost * Total(admitted[a], s..clock) = 0
    BY <1>1, <1>2, NothingTotals
  <2>3. \A s \in 0..clock : clock - s \in Nat
    BY <1>1
  <2>4. Paid(a)
    BY <1>2, <2>1, <2>2, <2>3 DEF Paid
  <2> QED
    BY <1>1, <2>4 DEF Kept
<1> QED
  BY <1>1, <1>3, <1>4 DEF RateInv

LEMMA NewLimiterKeepsRate ==
  ASSUME RateAssumption, RateInv, NewLimiter
  PROVE  RateInv'
<1>1. /\ buckets' = [a \in Addresses |-> NoBucket] /\ clock' = clock
      /\ admitted' = [a \in Addresses |-> [t \in Ticks |-> 0]]
      /\ promise' = [a \in Addresses |-> 0]
  BY DEF NewLimiter
<1>2. clock \in Ticks /\ clock \in Nat /\ Full \in Nat
  BY ClockIsNat, Amounts DEF RateInv
<1>3. RateTypes'
  BY <1>1, <1>2 DEF RateTypes
<1>4. ASSUME NEW a \in Addresses
      PROVE  Paid(a)' /\ Kept(a)'
  <2>1. Credit(a)' = Full
    <3>1. Lookup(a)' = [tokens |-> Full, last |-> clock]
      BY <1>1 DEF Lookup, NewTokenBucket, Full
    <3>2. Credit(a)' = Min({Full, Full + (clock - clock)})
      BY <1>1, <3>1 DEF Credit, Refilled, Full
    <3>3. Full + (clock - clock) = Full
      BY <1>2
    <3> QED
      BY <1>2, <3>2, <3>3, LesserOfTwo
  <2>2. \A s \in 0..clock : Cost * Total(admitted'[a], s..clock) = 0
    BY <1>1, <1>2, NothingTotals
  <2>3. \A s \in 0..clock : clock - s \in Nat
    BY <1>2
  <2>4. Paid(a)'
    <3> SUFFICES ASSUME NEW s \in 0..clock
                 PROVE  Cost * Total(admitted'[a], s..clock) + Credit(a)' <= Full + (clock - s)
      BY <1>1 DEF Paid
    <3>1. Cost * Total(admitted'[a], s..clock) = 0 /\ clock - s \in Nat
      BY <2>2, <2>3
    <3> QED
      BY <1>2, <2>1, <3>1
  <2> QED
    BY <1>1, <2>4 DEF Kept
<1> QED
  BY <1>1, <1>3, <1>4 DEF RateInv

LEMMA RateGoesOn ==
  ASSUME RateAssumption, RateInv, [RateNext]_rateVars
  PROVE  RateInv'
<1>1. CASE \E a \in Addresses : Allow(a)
  BY <1>1, AllowKeepsRate
<1>2. CASE Tick
  BY <1>2, TickKeepsRate
<1>3. CASE NewLimiter
  BY <1>3, NewLimiterKeepsRate
<1>4. CASE UNCHANGED rateVars
  <2>1. UNCHANGED <<buckets, clock, admitted, promise>>
    BY <1>4 DEF rateVars
  <2>2. RateTypes' <=> RateTypes
    BY <2>1 DEF RateTypes
  <2>3. \A a \in Addresses : Credit(a)' = Credit(a)
    BY <2>1 DEF Credit, Refilled, Lookup, NewTokenBucket
  <2>4. \A a \in Addresses : (Paid(a)' <=> Paid(a)) /\ (Kept(a)' <=> Kept(a))
    BY <2>1, <2>3 DEF Paid, Kept
  <2> QED
    BY <2>1, <2>2, <2>4 DEF RateInv
<1> QED
  BY <1>1, <1>2, <1>3, <1>4 DEF RateNext

(* In every stretch of time an address gets no more requests through than  *)
(* the capacity and what is refilled meanwhile, and the time a refused     *)
(* client is told to wait suffices: for any capacity, rate and clock.      *)
THEOREM TheRateIsKept == RateSpec => []RateIsKept
<1>1. RateInit => RateInv
  BY RateBegins, RateAssumption
<1>2. RateInv /\ [RateNext]_rateVars => RateInv'
  BY RateGoesOn, RateAssumption
<1>3. RateInv => RateIsKept
  <2> SUFFICES ASSUME RateInv, NEW a \in Addresses
               PROVE  /\ \A s \in 0..clock : Cost * Total(admitted[a], s..clock) <= Full + (clock - s)
                      /\ promise[a] \in 1..clock => Credit(a) >= Cost
    BY DEF RateIsKept, Total, Full, Credit
  <2>1. RateTypes /\ Paid(a) /\ Kept(a)
    BY DEF RateInv
  <2>2. Credit(a) \in Nat /\ clock \in Nat /\ Cost \in Nat /\ Full \in Nat
    BY <2>1, CreditIs, Amounts, ClockIsNat, RateAssumption
  <2>3. ASSUME NEW s \in 0..clock
        PROVE  Cost * Total(admitted[a], s..clock) <= Full + (clock - s)
    <3>1. IsFiniteSet(s..clock) /\ \A t \in s..clock : admitted[a][t] \in Nat
      BY <2>1, Stretch, RateAssumption DEF RateTypes
    <3>2. Cost * Total(admitted[a], s..clock) \in Nat
      BY <3>1, TotalIsNat, Amounts, RateAssumption
    <3> QED
      BY <2>1, <2>2, <3>2 DEF Paid
  <2>4. promise[a] \in 1..clock => Credit(a) >= Cost
    BY <2>1, <2>2 DEF Kept
  <2> QED
    BY <2>3, <2>4
<1> QED
  BY <1>1, <1>2, <1>3, PTL DEF RateSpec

LEMMA RateTypesKept ==
  ASSUME RateAssumption, RateInv, RateTypeOK, [RateNext]_rateVars
  PROVE  RateTypeOK'
<1>1. RateTypes /\ clock \in Nat /\ clock \in Ticks /\ LastTick \in Nat
  BY ClockIsNat DEF RateInv
<1>2. CASE \E a \in Addresses : Allow(a)
  <2>1. PICK a \in Addresses : Allow(a)
    BY <1>2
  <2> DEFINE tokens == Credit(a)
  <2>2. tokens \in Nat /\ tokens <= Full /\ Full \in Nat /\ Cost \in Nat /\ Cost > 0
    BY <1>1, CreditIs, Amounts
  <2>3. \A n \in Nat : n <= Full => [tokens |-> n, last |-> clock] \in [tokens : 0..Full, last : Ticks]
    BY <1>1, <2>2
  <2>4. clock' = clock /\ MaxPerTick \in Nat /\ TicksPerSecond \in Nat /\ TicksPerSecond > 0
    BY <2>1 DEF Allow, RateAssumption
  <2>5. admitted[a][clock] \in Nat /\ refused[a] \in Nat /\ admitted[a][clock] + refused[a] < MaxPerTick
    BY <1>1, <2>1, <2>4 DEF Allow, RateTypeOK
  <2>6. CASE tokens >= Cost
    <3>1. /\ buckets' = [buckets EXCEPT ![a] = [tokens |-> tokens - Cost, last |-> clock]]
          /\ admitted' = [admitted EXCEPT ![a][clock] = @ + 1]
          /\ promise' = [promise EXCEPT ![a] = 0] /\ refused' = refused
      BY <2>1, <2>6 DEF Allow, Credit
    <3>2. tokens - Cost \in Nat /\ tokens - Cost <= Full
      BY <2>2, <2>6
    <3>3. [tokens |-> tokens - Cost, last |-> clock] \in [tokens : 0..Full, last : Ticks]
      BY <2>3, <3>2
    <3>4. admitted[a][clock] + 1 \in 0..MaxPerTick
      BY <2>4, <2>5
    <3> HIDE DEF tokens
    <3> QED
      BY <1>1, <2>4, <3>1, <3>3, <3>4 DEF RateTypeOK, Full
  <2>7. CASE ~(tokens >= Cost)
    <3>1. /\ buckets' = [buckets EXCEPT ![a] = [tokens |-> tokens, last |-> clock]]
          /\ promise' = [promise EXCEPT ![a] = clock + retryAfter(Cost - tokens) * TicksPerSecond]
          /\ refused' = [refused EXCEPT ![a] = @ + 1] /\ admitted' = admitted
      BY <2>1, <2>7 DEF Allow, Credit
    <3>2. [tokens |-> tokens, last |-> clock] \in [tokens : 0..Full, last : Ticks]
      BY <2>2, <2>3
    <3>3. refused[a] + 1 \in 0..MaxPerTick
      BY <2>4, <2>5
    <3>4. clock + retryAfter(Cost - tokens) * TicksPerSecond \in Nat
      <4>1. Cost - tokens + TicksPerSecond - 1 \in Nat
        BY <2>2, <2>4, <2>7
      <4>2. retryAfter(Cost - tokens) \in Nat
        BY <2>4, <4>1 DEF retryAfter
      <4> QED
        BY <1>1, <2>4, <4>2
    <3> HIDE DEF tokens
    <3> QED
      BY <1>1, <2>4, <3>1, <3>2, <3>3, <3>4 DEF RateTypeOK, Full
  <2> QED
    BY <2>6, <2>7
<1>3. CASE Tick
  <2>1. clock' \in Ticks
    BY <1>1, <1>3 DEF Tick, Ticks
  <2>2. MaxPerTick \in Nat
    BY DEF RateAssumption
  <2> QED
    BY <1>3, <2>1, <2>2 DEF Tick, RateTypeOK, Ticks
<1>4. CASE NewLimiter
  <2>1. MaxPerTick \in Nat
    BY DEF RateAssumption
  <2> QED
    BY <1>4, <2>1 DEF NewLimiter, RateTypeOK, Ticks
<1>5. CASE UNCHANGED rateVars
  BY <1>5 DEF rateVars, RateTypeOK, Ticks
<1> QED
  BY <1>2, <1>3, <1>4, <1>5 DEF RateNext

(* Buckets never hold more than the capacity, nor were they filled in the *)
(* future, whatever happens.                                               *)
THEOREM RateTypeCorrect == RateSpec => []RateTypeOK
<1>1. RateInit => RateInv /\ RateTypeOK
  <2>1. LastTick \in Nat /\ MaxPerTick \in Nat
    BY RateAssumption DEF RateAssumption
  <2>2. RateInit => RateTypeOK
    BY <2>1 DEF RateInit, RateTypeOK, Ticks
  <2> QED
    BY <2>2, RateBegins, RateAssumption
<1>2. RateInv /\ RateTypeOK /\ [RateNext]_rateVars => (RateInv /\ RateTypeOK)'
  BY RateGoesOn, RateTypesKept, RateAssumption
<1> QED
  BY <1>1, <1>2, PTL DEF RateSpec

-----------------------------------------------------------------------------
(* CoPresence *)

\* The working day that comes i working days after d.
WorkingDay(d, i) == LET j == (d % 7) - 1 + i IN d + i + 2 * (j \div 5)

(* There are more than n working days among 2n days that begin with one,   *)
(* when n is 3 or more.                                                    *)
LEMMA WorkingDaysInARow ==
  ASSUME NEW d \in Nat, ~Weekend(d), NEW n \in Nat, n >= 3, NEW i \in 0..n
  PROVE  /\ WorkingDay(d, i) \in Nat /\ WorkingDay(d, i) >= d /\ WorkingDay(d, i) < d + 2 * n
         /\ ~Weekend(WorkingDay(d, i))
<1> DEFINE k == (d % 7) - 1
           j == k + i
           q == j \div 5
           w == WorkingDay(d, i)
<1>1. k \in 0..4
  BY DEF Weekend
<1>2. j \in Nat /\ q \in Nat /\ j = 5 * q + (j % 5) /\ (j % 5) \in 0..4
  BY <1>1
<1>3. w = d + i + 2 * q
  BY DEF WorkingDay
<1>4. d = 7 * (d \div 7) + (k + 1) /\ d \div 7 \in Nat /\ j = k + i /\ i \in Nat
  OBVIOUS
<1> HIDE DEF k, w, j, q
<1>5. w = 7 * ((d \div 7) + q) + ((j % 5) + 1)
  <2>1. ASSUME NEW m \in Nat, NEW x \in 0..4, d = 7 * m + (k + 1), j = 5 * q + x
        PROVE  w = 7 * (m + q) + (x + 1)
    BY <1>1, <1>2, <1>3, <1>4, <2>1
  <2> QED
    BY <1>2, <1>4, <2>1
<1>6. w \in Nat
  BY <1>2, <1>3, <1>4
<1> DEFINE m == (d \div 7) + q
           r == (j % 5) + 1
<1>7. m \in Nat /\ r \in 1..5 /\ w = 7 * m + r
  BY <1>2, <1>4, <1>5
<1> HIDE DEF m, r
<1>8. w % 7 = r
  BY <1>6, <1>7
<1>9. ~Weekend(w)
  BY <1>7, <1>8 DEF Weekend
<1>10. w >= d
  BY <1>2, <1>3, <1>4
<1>11. w < d + 2 * n
  <2>1. 5 * q <= k + i
    BY <1>2, <1>4
  <2>2. i \in Nat /\ i <= n
    OBVIOUS
  <2>3. i + 2 * q < 2 * n
    BY <1>1, <1>2, <2>1, <2>2
  <2> QED
    BY <1>2, <1>3, <2>2, <2>3
<1> QED
  BY <1>6, <1>9, <1>10, <1>11 DEF w

LEMMA WorkingDaysDiffer ==
  ASSUME NEW d \in Nat, ~Weekend(d), NEW i \in Nat, NEW h \in Nat, i < h
  PROVE  WorkingDay(d, i) < WorkingDay(d, h)
<1>1. (d % 7) - 1 \in Nat
  BY DEF Weekend
<1> DEFINE a == (d % 7) - 1 + i
           b == (d % 7) - 1 + h
<1>2. a \in Nat /\ b \in Nat /\ a <= b
  BY <1>1
<1> HIDE DEF a, b
<1>3. a \div 5 <= b \div 5 /\ a \div 5 \in Nat /\ b \div 5 \in Nat
  BY <1>2
<1>4. WorkingDay(d, i) = d + i + 2 * (a \div 5) /\ WorkingDay(d, h) = d + h + 2 * (b \div 5)
  BY DEF WorkingDay, a, b
<1> QED
  BY <1>3, <1>4

(* The backfill goes back far enough for the last DaysBack working days.   *)
LEMMA LastDaysAreVisited ==
  ASSUME CoPresenceAssumption, date \in CoDates
  PROVE  LastWorkingDays \subseteq Visited
<1>1. DaysBack \in Nat /\ DaysBack >= 3 /\ date \in Nat
  BY DEF CoPresenceAssumption, CoDates
<1>2. ASSUME NEW d \in LastWorkingDays
      PROVE  date - d < maxIter
  <2> DEFINE W == {e \in d..(date - 1) : ~Weekend(e)}
  <2>1. d \in Nat /\ d < date /\ ~Weekend(d) /\ Cardinality(W) <= DaysBack
    BY <1>2 DEF LastWorkingDays, CoDates
  <2>2. SUFFICES ASSUME date >= d + 2 * DaysBack
                 PROVE  FALSE
    BY <1>1, <2>1 DEF maxIter
  <2>3. IsFiniteSet(d..(date - 1))
    BY <1>1, <2>1, FS_Interval
  <2>4. IsFiniteSet(W)
    BY <2>3, FS_Subset
  <2> DEFINE ith == [i \in 0..DaysBack |-> WorkingDay(d, i)]
  <2>5. ith \in [0..DaysBack -> W]
    <3>1. ASSUME NEW i \in 0..DaysBack
          PROVE  WorkingDay(d, i) \in W
      <4>1. /\ WorkingDay(d, i) \in Nat /\ WorkingDay(d, i) >= d /\ WorkingDay(d, i) < d + 2 * DaysBack
            /\ ~Weekend(WorkingDay(d, i))
        BY <1>1, <2>1, WorkingDaysInARow
      <4>2. WorkingDay(d, i) \in d..(date - 1)
        BY <1>1, <2>1, <2>2, <4>1
      <4> QED
        BY <4>1, <4>2
    <3> QED
      BY <3>1
  <2>6. IsFiniteSet(0..DaysBack) /\ Cardinality(0..DaysBack) = DaysBack + 1
    <3>1. 0 \in Int /\ DaysBack \in Int /\ ~(0 > DaysBack) /\ DaysBack - 0 + 1 = DaysBack + 1
      BY <1>1
    <3> QED
      BY <3>1, FS_Interval
  <2>7. Cardinality(W) \in Nat
    BY <2>4, FS_CardinalityType
  <2>8. Cardinality(W) < Cardinality(0..DaysBack)
    BY <1>1, <2>1, <2>6, <2>7
  <2> HIDE DEF W, ith
  <2>9. \E i, h \in 0..DaysBack : i # h /\ ith[i] = ith[h]
    BY <2>4, <2>5, <2>6, <2>8, FS_PigeonHole
  <2>10. PICK i \in 0..DaysBack, h \in 0..DaysBack : i # h /\ WorkingDay(d, i) = WorkingDay(d, h)
    BY <2>9 DEF ith
  <2>11. WorkingDay(d, i) \in Nat /\ WorkingDay(d, h) \in Nat
    BY <1>1, <2>1, WorkingDaysInARow
  <2>12. i < h \/ h < i
    BY <1>1, <2>10
  <2> QED
    BY <1>1, <2>1, <2>10, <2>11, <2>12, WorkingDaysDiffer
<1> QED
  BY <1>2 DEF LastWorkingDays, Visited

\* Every pair on site on day d has its row.
Written(d) ==
  \A r \in CoRow : r.day = d /\ {r.a, r.b} \subseteq onSiteCohortIDs(d) => r \in coPresence

\* Nothing has moved and no day has passed since the backfill began.
NothingHappened == walk.since = <<moves, date>>

CoTypes ==
  /\ date \in CoDates /\ moves \in Nat /\ coPresence \subseteq CoRow
  /\ walk.at \in {"idle", "read", "write"}

WalkTypes ==
  walk.at # "idle" =>
    /\ walk.since \in Nat \X Nat /\ walk.since[1] <= moves /\ walk.since[2] <= date
    /\ walk.days \subseteq {d \in CoDates : d < date}

\* The days that an undisturbed backfill has left behind are written, and the cohort
\* that it has in its hands is the one of the day it is at.
WalkedDays ==
  walk.at # "idle" /\ NothingHappened =>
    /\ walk.days \subseteq Visited
    /\ \A d \in Visited \ walk.days : Written(d)

CohortInHand ==
  walk.at = "write" =>
    /\ walk.days # {}
    /\ NothingHappened => walk.cohort = onSiteCohortIDs(Max(walk.days))

CoInv ==
  /\ CoTypes /\ WalkTypes /\ WalkedDays /\ CohortInHand
  /\ \A r \in coPresence : r.day < date

LEMMA DaysAreFinite ==
  ASSUME CoPresenceAssumption
  PROVE  /\ LastDate \in Nat /\ IsFiniteSet(CoDates) /\ CoDates \subseteq Nat
         /\ \A S \in SUBSET CoDates : S # {} => Max(S) \in S /\ \A d \in S : d <= Max(S)
<1>1. LastDate \in Nat
  BY DEF CoPresenceAssumption
<1>2. IsFiniteSet(CoDates) /\ CoDates \subseteq Nat
  <2>1. IsFiniteSet(1..LastDate)
    BY <1>1, FS_Interval
  <2> QED
    BY <1>1, <2>1 DEF CoDates
<1>3. ASSUME NEW S \in SUBSET CoDates, S # {}
      PROVE  Max(S) \in S /\ \A d \in S : d <= Max(S)
  <2>1. S \in SUBSET Nat /\ IsFiniteSet(S)
    BY <1>2, FS_Subset
  <2> QED
    BY <1>3, <2>1, FiniteSetHasMax
<1> QED
  BY <1>1, <1>2, <1>3

(* A move or a new day disturbs the backfill for good.                     *)
LEMMA DisturbedForGood ==
  ASSUME CoPresenceAssumption, CoTypes, WalkTypes, walk.at # "idle", walk' = walk,
         \/ moves' = moves + 1 /\ date' = date
         \/ date' = date + 1 /\ moves' = moves
  PROVE  ~NothingHappened'
<1>1. date \in Nat /\ moves \in Nat
  BY DaysAreFinite DEF CoTypes
<1>2. walk.since[1] <= moves /\ walk.since[2] <= date /\ walk.since \in Nat \X Nat
  BY DEF WalkTypes
<1>3. walk.since # <<moves', date'>>
  BY <1>1, <1>2
<1> QED
  BY <1>3 DEF NothingHappened

LEMMA WalkGoesOn ==
  ASSUME CoPresenceAssumption, CoInv, [CoNext]_coVars
  PROVE  CoInv'
<1>0. /\ CoTypes /\ WalkTypes /\ WalkedDays /\ CohortInHand
      /\ \A r \in coPresence : r.day < date
  BY DEF CoInv
<1>a. date \in CoDates /\ date \in Nat /\ moves \in Nat /\ coPresence \subseteq CoRow
  BY <1>0, DaysAreFinite DEF CoTypes
<1>1. CASE BackfillCoPresence
  <2>1. walk' = [at |-> "read", days |-> Visited, since |-> <<moves, date>>]
        /\ UNCHANGED <<date, place, moves, coPresence>>
    BY <1>1 DEF BackfillCoPresence
  <2>2. walk'.at = "read" /\ walk'.days = Visited /\ walk'.since = <<moves, date>>
    BY <2>1
  <2>3. Visited' = Visited
    BY <2>1 DEF Visited
  <2>4. CoTypes'
    BY <1>0, <2>1, <2>2 DEF CoTypes
  <2>5. WalkTypes'
    BY <1>a, <2>1, <2>2 DEF WalkTypes, Visited
  <2>6. WalkedDays'
    BY <2>2, <2>3 DEF WalkedDays
  <2>7. CohortInHand'
    BY <2>2 DEF CohortInHand
  <2> QED
    BY <1>0, <2>1, <2>4, <2>5, <2>6, <2>7 DEF CoInv
<1>2. CASE WriteCoPresenceForPastDate
  <2> DEFINE cohort == onSiteCohortIDs(Max(walk.days))
  <2>1. /\ walk.at = "read" /\ walk.days # {} /\ UNCHANGED <<date, place, moves, coPresence>>
        /\ walk' = [at |-> "write", days |-> walk.days, since |-> walk.since, cohort |-> cohort]
    BY <1>2 DEF WriteCoPresenceForPastDate
  <2>2. cohort' = onSiteCohortIDs(Max(walk'.days)) /\ \A d : onSiteCohortIDs(d)' = onSiteCohortIDs(d)
    BY <2>1 DEF onSiteCohortIDs
  <2>3. cohort = onSiteCohortIDs(Max(walk.days))
    OBVIOUS
  <2> HIDE DEF cohort
  <2>4. walk'.at = "write" /\ walk'.days = walk.days /\ walk'.since = walk.since /\ walk'.cohort = cohort
    BY <2>1
  <2>5. Visited' = Visited /\ (NothingHappened' <=> NothingHappened) /\ \A d : Written(d)' <=> Written(d)
    BY <2>1, <2>4 DEF Visited, NothingHappened, Written, onSiteCohortIDs
  <2>6. CoTypes' /\ WalkTypes'
    BY <1>0, <2>1, <2>4 DEF CoTypes, WalkTypes
  <2>7. WalkedDays'
    BY <1>0, <2>1, <2>4, <2>5 DEF WalkedDays
  <2>8. CohortInHand'
    BY <2>1, <2>2, <2>3, <2>4 DEF CohortInHand, onSiteCohortIDs
  <2> QED
    BY <1>0, <2>1, <2>6, <2>7, <2>8 DEF CoInv
<1>3. CASE writeCoPresencePairs
  <2>0. PICK last : last = Max(walk.days)
    OBVIOUS
  <2> DEFINE rows == {r \in CoRow : r.day = last /\ {r.a, r.b} \subseteq walk.cohort}
  <2>1. /\ walk.at = "write" /\ UNCHANGED <<date, place, moves>>
        /\ coPresence' = coPresence \cup rows
        /\ walk' = [at |-> "read", days |-> walk.days \ {last}, since |-> walk.since]
    BY <1>3, <2>0 DEF writeCoPresencePairs
  <2>2. last \in walk.days /\ walk.days \subseteq {d \in CoDates : d < date}
    <3>1. walk.days \subseteq {d \in CoDates : d < date} /\ walk.days # {}
      BY <1>0, <2>1 DEF WalkTypes, CohortInHand
    <3>2. walk.days \in SUBSET CoDates
      BY <3>1
    <3> QED
      BY <2>0, <3>1, <3>2, DaysAreFinite
  <2>3. rows \subseteq CoRow /\ \A r \in rows : r.day < date
    BY <2>2
  <2>4. walk'.at = "read" /\ walk'.days = walk.days \ {last} /\ walk'.since = walk.since
    BY <2>1
  <2>5. Visited' = Visited /\ (NothingHappened' <=> NothingHappened)
    BY <2>1, <2>4 DEF Visited, NothingHappened
  <2>6. \A d : onSiteCohortIDs(d)' = onSiteCohortIDs(d)
    BY <2>1 DEF onSiteCohortIDs
  <2>7. \A d : Written(d) => Written(d)'
    BY <2>1, <2>6 DEF Written
  <2>8. NothingHappened => Written(last)'
    <3> SUFFICES ASSUME NothingHappened
                 PROVE  Written(last)'
      OBVIOUS
    <3>1. walk.cohort = onSiteCohortIDs(last)
      BY <1>0, <2>0, <2>1 DEF CohortInHand
    <3>2. \A r \in CoRow : r.day = last /\ {r.a, r.b} \subseteq onSiteCohortIDs(last) => r \in coPresence'
      BY <2>1, <3>1
    <3> QED
      BY <2>6, <3>2 DEF Written
  <2>9. CoTypes' /\ WalkTypes'
    BY <1>0, <1>a, <2>1, <2>3, <2>4 DEF CoTypes, WalkTypes
  <2>10. WalkedDays'
    BY <1>0, <2>1, <2>4, <2>5, <2>7, <2>8 DEF WalkedDays
  <2>11. CohortInHand'
    BY <2>4 DEF CohortInHand
  <2> QED
    BY <1>0, <2>1, <2>3, <2>9, <2>10, <2>11 DEF CoInv
<1>4. CASE BackfillDone \/ BackfillStops
  <2>1. walk'.at = "idle" /\ UNCHANGED <<date, place, moves, coPresence>>
    BY <1>4 DEF BackfillDone, BackfillStops, Resting
  <2> QED
    BY <1>0, <2>1 DEF CoInv, CoTypes, WalkTypes, WalkedDays, CohortInHand
<1>5. CASE Move \/ DayPasses
  <2>1. /\ \/ moves' = moves + 1 /\ date' = date
           \/ date' = date + 1 /\ moves' = moves /\ date < LastDate
        /\ UNCHANGED <<coPresence, walk>>
    BY <1>5 DEF Move, DayPasses
  <2>2. walk.at # "idle" => ~NothingHappened'
    BY <1>0, <2>1, DisturbedForGood
  <2>3. date' \in CoDates /\ date' \in Nat /\ moves' \in Nat /\ date <= date' /\ moves <= moves'
    BY <1>a, <2>1, DaysAreFinite DEF CoDates
  <2>4. CoTypes'
    BY <1>0, <2>1, <2>3 DEF CoTypes
  <2>5. WalkTypes'
    <3> SUFFICES ASSUME walk.at # "idle"
                 PROVE  /\ walk.since[1] <= moves' /\ walk.since[2] <= date'
                        /\ walk.days \subseteq {d \in CoDates : d < date'}
      BY <1>0, <2>1 DEF WalkTypes
    <3>1. /\ walk.since \in Nat \X Nat /\ walk.since[1] <= moves /\ walk.since[2] <= date
          /\ walk.days \subseteq {d \in CoDates : d < date}
      BY <1>0 DEF WalkTypes
    <3>2. \A d \in CoDates : d < date => d < date'
      BY <1>a, <2>3, DaysAreFinite
    <3>3. walk.since[1] \in Nat /\ walk.since[2] \in Nat
      BY <3>1
    <3>4. walk.since[1] <= moves' /\ walk.since[2] <= date'
      BY <1>a, <2>3, <3>1, <3>3
    <3>5. walk.days \subseteq {d \in CoDates : d < date'}
      BY <3>1, <3>2
    <3> QED
      BY <3>4, <3>5
  <2>6. WalkedDays' /\ CohortInHand'
    BY <1>0, <2>1, <2>2 DEF WalkedDays, CohortInHand
  <2>7. \A r \in coPresence' : r.day < date'
    <3>1. \A r \in coPresence : r.day < date /\ r.day \in Nat
      BY <1>0, <1>a, DaysAreFinite DEF CoRow
    <3> QED
      BY <1>a, <2>1, <2>3, <3>1
  <2> QED
    BY <2>4, <2>5, <2>6, <2>7 DEF CoInv
<1>6. CASE UNCHANGED coVars
  <2>1. UNCHANGED <<date, place, moves, coPresence, walk>>
    BY <1>6 DEF coVars
  <2>2. Visited' = Visited /\ (NothingHappened' <=> NothingHappened) /\ \A d : Written(d)' <=> Written(d)
    BY <2>1 DEF Visited, NothingHappened, Written, onSiteCohortIDs
  <2> QED
    BY <1>0, <2>1, <2>2 DEF CoInv, CoTypes, WalkTypes, WalkedDays, CohortInHand, onSiteCohortIDs
<1> QED
  BY <1>1, <1>2, <1>3, <1>4, <1>5, <1>6 DEF CoNext

(* A pair that has its row meets in the score.                             *)
LEMMA RowsCount ==
  ASSUME CoPresenceAssumption, CoInv, NEW d \in CoDates, d < date, date - d < HorizonDays,
         Written(d), NEW c \in onSiteCohortIDs(d), NEW cohort, NEW n \in cohort, n # c,
         n \in onSiteCohortIDs(d)
  PROVE  coPresenceScore(c, cohort) <= Min({date - d, HorizonDays + 1})
<1>1. HorizonDays \in Nat /\ date \in Nat /\ date \in CoDates /\ d \in Nat /\ d >= 1 /\ LastDate \in Nat
  BY DaysAreFinite DEF CoPresenceAssumption, CoInv, CoTypes, CoDates
<1>2. c \in Staff /\ n \in Staff /\ c \in Nat /\ n \in Nat
  BY DEF onSiteCohortIDs, CoPresenceAssumption
<1> DEFINE from == (date + 1) - Min({HorizonDays, date})
           days == {r.day : r \in Meetings(c, cohort, from)}
           last == Max(days \cup {0})
<1>3. from <= d
  <2>1. Min({HorizonDays, date}) = (IF HorizonDays <= date THEN HorizonDays ELSE date)
    BY <1>1, LesserOfTwo
  <2> QED
    BY <1>1, <2>1
<1> HIDE DEF from
<1>4. d \in days
  <2> DEFINE r == [day |-> d, a |-> IF c < n THEN c ELSE n, b |-> IF c < n THEN n ELSE c]
  <2>1. r \in CoRow /\ r.day = d /\ {r.a, r.b} = {c, n}
    BY <1>2 DEF CoRow
  <2>2. (r.a = c /\ r.b = n) \/ (r.b = c /\ r.a = n)
    OBVIOUS
  <2> HIDE DEF r
  <2>3. r \in coPresence
    BY <2>1 DEF Written
  <2>4. r \in Meetings(c, cohort, from)
    BY <1>3, <2>1, <2>2, <2>3 DEF Meetings
  <2> QED
    BY <2>1, <2>4
<1>5. days \subseteq CoDates /\ \A e \in days : e < date
  BY DEF Meetings, CoInv, CoTypes, CoRow
<1> HIDE DEF days
<1>6. last \in days \cup {0} /\ d <= last
  <2>1. IsFiniteSet(days)
    BY <1>5, DaysAreFinite, FS_Subset
  <2>2. IsFiniteSet(days \cup {0})
    BY <2>1, FS_AddElement
  <2>3. days \cup {0} \in SUBSET Nat
    BY <1>5, DaysAreFinite
  <2> QED
    BY <1>4, <2>2, <2>3, FiniteSetHasMax
<1> HIDE DEF last
<1>7. last \in Nat /\ last # 0 /\ last < date
  BY <1>1, <1>5, <1>6, DaysAreFinite
<1>8. coPresenceScore(c, cohort) = Min({date - last, HorizonDays + 1})
  BY <1>7 DEF coPresenceScore, GetLatestCoPresenceWithCohort, last, days, from
<1>9. date - last \in Nat /\ date - d \in Nat /\ HorizonDays + 1 \in Nat /\ date - last <= date - d
  BY <1>1, <1>6, <1>7
<1>10. /\ Min({date - last, HorizonDays + 1})
            = (IF date - last <= HorizonDays + 1 THEN date - last ELSE HorizonDays + 1)
       /\ Min({date - d, HorizonDays + 1})
            = (IF date - d <= HorizonDays + 1 THEN date - d ELSE HorizonDays + 1)
  BY <1>9, LesserOfTwo
<1> QED
  BY <1>8, <1>9, <1>10

LEMMA WrittenDaysAreKnown ==
  ASSUME CoPresenceAssumption, CoInv
  PROVE  ScoreKnowsTheLastDays
<1>1. SUFFICES ASSUME walk.at = "read", walk.days = {}, NothingHappened,
                      NEW c \in onSiteCohortIDs(date)
               PROVE  LET cohort == pickerCohortIDs \ {c}
                          met == {d \in LastWorkingDays :
                                    /\ date - d < HorizonDays /\ c \in onSiteCohortIDs(d)
                                    /\ cohort \cap onSiteCohortIDs(d) # {}}
                      IN met # {} => coPresenceScore(c, pickerCohortIDs)
                                       <= Min({date - Max(met), HorizonDays + 1})
  BY DEF ScoreKnowsTheLastDays, NothingHappened
<1> DEFINE cohort == pickerCohortIDs \ {c}
           met == {d \in LastWorkingDays :
                     /\ date - d < HorizonDays /\ c \in onSiteCohortIDs(d)
                     /\ cohort \cap onSiteCohortIDs(d) # {}}
<1>2. SUFFICES ASSUME met # {}
               PROVE  coPresenceScore(c, pickerCohortIDs) <= Min({date - Max(met), HorizonDays + 1})
  OBVIOUS
<1>3. met \in SUBSET CoDates
  BY DEF LastWorkingDays
<1> DEFINE d == Max(met)
<1>4. d \in met
  BY <1>2, <1>3, DaysAreFinite
<1> HIDE DEF d
<1>5. /\ d \in CoDates /\ d < date /\ date - d < HorizonDays /\ c \in onSiteCohortIDs(d)
      /\ d \in LastWorkingDays
  BY <1>4 DEF LastWorkingDays
<1>6. PICK n \in pickerCohortIDs : n # c /\ n \in onSiteCohortIDs(d)
  BY <1>4
<1>7. d \in Visited
  BY <1>5, LastDaysAreVisited DEF CoInv, CoTypes
<1>8. Written(d)
  BY <1>1, <1>7 DEF CoInv, WalkedDays
<1>9. coPresenceScore(c, pickerCohortIDs) <= Min({date - d, HorizonDays + 1})
  BY <1>5, <1>6, <1>8, RowsCount
<1> QED
  BY <1>9 DEF d

LEMMA CoBegins ==
  ASSUME CoPresenceAssumption, CoInit
  PROVE  CoInv
<1>1. date \in CoDates
  BY DEF CoInit, CoDates, CoPresenceAssumption
<1> QED
  BY <1>1 DEF CoInit, Resting, CoInv, CoTypes, WalkTypes, WalkedDays, CohortInHand

(* When an undisturbed backfill ends, the score of every candidate knows   *)
(* of the last of the working days on which he was on site with one of the *)
(* cohort: for any team, any retention of three days or more and any       *)
(* horizon, over weekends.                                                 *)
THEOREM BackfillIsKnown == CoSpec => []ScoreKnowsTheLastDays
<1>1. CoInit => CoInv
  BY CoBegins, CoPresenceAssumption
<1>2. CoInv /\ [CoNext]_coVars => CoInv'
  BY WalkGoesOn, CoPresenceAssumption
<1>3. CoInv => ScoreKnowsTheLastDays
  BY WrittenDaysAreKnown, CoPresenceAssumption
<1> QED
  BY <1>1, <1>2, <1>3, PTL DEF CoSpec

(* What the backfill keeps are days of the calendar and pairs in order.    *)
THEOREM CoTypeCorrect == CoSpec => []CoTypeOK
<1> DEFINE Bounded == /\ moves \in 0..MaxMoves
                      /\ place \in [CoDates -> [Staff -> {"office", "home", "leave"}]]
<1>1. CoInit => CoInv /\ Bounded
  <2>1. CoInit => CoInv
    BY CoBegins, CoPresenceAssumption
  <2>2. MaxMoves \in Nat
    BY CoPresenceAssumption DEF CoPresenceAssumption
  <2> QED
    BY <2>1, <2>2 DEF CoInit
<1>2. CoInv /\ Bounded /\ [CoNext]_coVars => (CoInv /\ Bounded)'
  <2> SUFFICES ASSUME CoInv, Bounded, [CoNext]_coVars
               PROVE  CoInv' /\ Bounded'
    OBVIOUS
  <2>1. CoInv'
    BY WalkGoesOn, CoPresenceAssumption
  <2>2. MaxMoves \in Nat
    BY CoPresenceAssumption DEF CoPresenceAssumption
  <2>3. CASE Move
    <3>1. PICK d \in CoDates, m \in Staff : \E to \in {"office", "home", "leave"} :
            place' = [place EXCEPT ![d][m] = to]
      BY <2>3 DEF Move
    <3>2. place' \in [CoDates -> [Staff -> {"office", "home", "leave"}]]
      BY <3>1
    <3>3. moves' \in 0..MaxMoves
      BY <2>2, <2>3 DEF Move
    <3> QED
      BY <2>1, <3>2, <3>3 DEF CoDates
  <2>4. CASE UNCHANGED <<place, moves>>
    BY <2>1, <2>4 DEF CoDates
  <2> QED
    BY <2>1, <2>3, <2>4 DEF CoNext, coVars, BackfillCoPresence, WriteCoPresenceForPastDate,
                            writeCoPresencePairs, BackfillDone, BackfillStops, DayPasses
<1>3. CoInv /\ Bounded => CoTypeOK
  BY DEF CoInv, CoTypes, CoTypeOK
<1> QED
  BY <1>1, <1>2, <1>3, PTL DEF CoSpec
-----------------------------------------------------------------------------
(* Feeds *)

Row == [id : 1..MaxRows, day : RotaDays, who : Crew, cover : BOOLEAN, of : 0..MaxRows]

\* A day has one original and one cover at most, and its cover is that original's.
WellPaired(rows) ==
  /\ \A r, s \in rows : r.day = s.day /\ r.cover = s.cover => r = s
  /\ \A c, r \in rows : c.cover /\ ~r.cover => (c.of = r.id <=> c.day = r.day)

\* Ids are not given out again.
RotaSound ==
  /\ hats \subseteq Row /\ WellPaired(hats)
  /\ \A r, s \in hats : r.id = s.id => r = s
  /\ made \in 0..MaxRows /\ \A r \in hats : r.id <= made /\ r.of <= made
  /\ edits \in 0..MaxEdits /\ now \in 1..LastDay

Line == [day : RotaDays, form : {"event", "text", "html"}, who : Crew \cup {NoOne}]

Feed ==
  [at : {"list", "covered", "names", "leave", "support", "answer"},
   kind : {"personal", "team", "meetings", "day"},
   token : FeedTokens, who : Crew, days : SUBSET RotaDays, left : SUBSET RotaDays,
   form : {"text", "html"}, named : SUBSET Crew,
   rows : SUBSET Row, told : SUBSET Line, since : (0..MaxEdits) \X (1..LastDay)]

Listed == client.kind \in {"personal", "team"}
Mine(r) == r.who = client.who <=> client.kind = "personal"
OneEach(rows) == \A r, s \in rows : r.day = s.day => r = s
OneLineEach(lines) == \A m, n \in lines : m.day = n.day /\ m.form = n.form => m = n
RowsOfDuty == {r \in UNION {OnDuty(d) : d \in client.days} : Mine(r)}

\* The rota is still as it was when the feed was asked for.
Fresh == client.since = <<edits, now>>

\* What a feed has read that is made from a list.
ListSoFar ==
  /\ client.at \in {"list", "covered", "names", "answer"}
  /\ client.at = "covered" => WellPaired(client.rows)
  /\ client.at = "names" => client.kind = "team" /\ OneEach(client.rows)
  /\ Fresh =>
       /\ client.kind = "personal" => client.days = BeforeTheEnd
       /\ client.at = "covered" => client.rows = {r \in hats : r.day \in client.days /\ Mine(r)}
       /\ client.at = "names" => client.rows = RowsOfDuty

\* The texts that are finished: of each day both, of the one at work maybe the first.
Wrote(d, form) ==
  \/ d \in client.days \ client.left
  \/ client.left # {} /\ d = Min(client.left) /\ form = "text" /\ client.form = "html"

\* What a feed of meetings has read and written.
MeetingsSoFar ==
  /\ client.at \in {"list", "leave", "support", "answer"}
  /\ client.left \subseteq client.days
  /\ client.form = "html" \/ client.at \in {"leave", "support"} => client.left # {}
  /\ client.at = "answer" => client.left = {}
  /\ OneLineEach(client.told)
  /\ \A l \in client.told : l.form # "event" /\ Wrote(l.day, l.form)
  /\ Fresh =>
       /\ \A d \in client.days, form \in {"text", "html"} : Wrote(d, form) =>
            \A w \in Crew \cup {NoOne} :
              [day |-> d, form |-> form, who |-> w] \in client.told <=> w \in Marks(d)
       /\ client.at = "leave" => client.named = GetActiveTeamMembers
       /\ client.at = "support" => client.named = {w \in Crew : Present(w, Min(client.left))}

ReadSoFar ==
  /\ client \in Feed
  /\ client.since[1] <= edits /\ client.since[2] <= now
  /\ IF Listed THEN ListSoFar ELSE MeetingsSoFar

FeedInv ==
  /\ FeedTypeOK /\ RotaSound
  /\ client # NoFeed => ReadSoFar
  /\ FeedTellsDuty

-----------------------------------------------------------------------------
\* The steps that change the rota or the team, and those of a client.
ClientStep ==
  \/ handleCalendarICS \/ handleTeamCalendarICS \/ handleMeetingsCalendarICS
  \/ handleMeetingsDayHTML \/ ReadAssignments \/ GenerateICal \/ GenerateTeamCalendar
  \/ getPresenceForDate \/ leaveOnMeetingDay \/ GenerateMeetings \/ FeedFails \/ Touch

RotaStep ==
  \/ CreateRotaAssignment \/ DeleteRotaAssignment \/ UpdateAssignmentMember
  \/ DeleteTeamMember \/ SetMemberActive \/ ReportLeave

SubscriptionStep ==
  \/ \E t \in Tabs : loadUserSubscription(t) \/ autoCreateSubscription(t)
  \/ handleCalendarAdminPost \/ handleCalendarSubscriptionsCleanup

(* Every step is of one of these kinds, which say what it leaves alone.    *)
LEMMA FeedSteps ==
  ASSUME FeedInv, [FeedNext]_feedVars
  PROVE  \/ ClientStep /\ UNCHANGED <<rotaState, tab, handed, now>>
         \/ RotaStep /\ UNCHANGED <<tab, handed, client, now>>
         \/ SubscriptionStep /\ UNCHANGED <<rotaState, client, now>>
         \/ NextDay /\ UNCHANGED <<rotaState, subState, client>>
         \/ UNCHANGED feedVars
<1> USE DEF rotaState, subState
<1>1. ClientStep => UNCHANGED <<rotaState, tab, handed, now>>
  BY DEF ClientStep, handleCalendarICS, handleTeamCalendarICS, handleMeetingsCalendarICS,
         handleMeetingsDayHTML, RequestFeed, ReadAssignments, GenerateICal, GenerateTeamCalendar,
         getPresenceForDate, leaveOnMeetingDay, GenerateMeetings, FeedFails, Touch
<1>2. RotaStep => UNCHANGED <<tab, handed, client, now>>
  BY DEF RotaStep, CreateRotaAssignment, DeleteRotaAssignment, UpdateAssignmentMember,
         DeleteTeamMember, SetMemberActive, ReportLeave
<1>3. SubscriptionStep => UNCHANGED <<rotaState, client, now>>
  BY DEF SubscriptionStep, loadUserSubscription, autoCreateSubscription,
         handleCalendarAdminPost, handleCalendarSubscriptionsCleanup
<1>4. NextDay => UNCHANGED <<rotaState, subState, client>>
  BY DEF NextDay
<1> QED
  BY <1>1, <1>2, <1>3, <1>4 DEF FeedNext, ClientStep, RotaStep, SubscriptionStep

-----------------------------------------------------------------------------
(* The rota. *)

(* A member's row may be given to another one, and a row may go.           *)
LEMMA Repointed ==
  ASSUME RotaSound, NEW rows, rows \subseteq Row,
         \A x \in rows : \E y \in hats : /\ x.id = y.id /\ x.day = y.day
                                         /\ x.cover = y.cover /\ x.of = y.of,
         \A x, y \in rows : x.id = y.id => x = y
  PROVE  /\ WellPaired(rows) /\ \A r \in rows : r.id <= made /\ r.of <= made
BY DEF RotaSound, WellPaired

LEMMA AddedIsSound ==
  ASSUME RotaSound, FeedAssumption, NEW d \in RotaDays, NEW w \in Crew,
         NEW cover \in BOOLEAN, NEW of \in 0..made, Added(d, w, cover, of),
         edits' \in 0..MaxEdits, now' = now,
         \/ ~cover /\ of = 0 /\ RowsOn(d) = {}
         \/ cover /\ Covers(RowsOn(d)) = {} /\ \E r \in RowsOn(d) : of = r.id
  PROVE  RotaSound'
<1> DEFINE new == [id |-> made + 1, day |-> d, who |-> w, cover |-> cover, of |-> of]
<1>1. /\ made + 1 \in 1..MaxRows /\ made' = made + 1 /\ hats' = hats \cup {new}
  BY DEF Added, RotaSound, FeedAssumption
<1>2. new \in Row
  BY <1>1 DEF Row, RotaSound
<1>3. \A r \in hats : r.id # new.id /\ r.id \in Nat /\ r.of \in Nat /\ r.of # new.id
  BY <1>1 DEF RotaSound, Row
<1>4. \A r \in hats : ~(r.day = d /\ r.cover = cover)
  <2>1. CASE RowsOn(d) = {}
    BY <2>1 DEF RowsOn
  <2>2. CASE cover /\ Covers(RowsOn(d)) = {}
    BY <2>2 DEF RowsOn, Covers, RotaSound, Row
  <2> QED
    BY <2>1, <2>2
<1>5. ~cover => \A c \in hats : c.of # new.id /\ c.day # d
  BY <1>3 DEF RowsOn
<1>6. cover => \A r \in hats : ~r.cover => (of = r.id <=> r.day = d)
  <2>1. SUFFICES ASSUME cover
                 PROVE  \A r \in hats : ~r.cover => (of = r.id <=> r.day = d)
    OBVIOUS
  <2>2. PICK s \in RowsOn(d) : of = s.id
    BY <2>1
  <2>3. s \in hats /\ s.day = d /\ ~s.cover
    BY <2>1 DEF RowsOn, Covers
  <2> QED
    BY <2>2, <2>3 DEF RotaSound, WellPaired, Row
<1>7. WellPaired(hats')
  BY <1>1, <1>2, <1>4, <1>5, <1>6 DEF WellPaired, RotaSound, Row
<1>8. \A r, s \in hats' : r.id = s.id => r = s
  BY <1>1, <1>3 DEF RotaSound
<1>9. \A r \in hats' : r.id <= made' /\ r.of <= made'
  BY <1>1, <1>3 DEF RotaSound
<1> QED
  BY <1>1, <1>2, <1>7, <1>8, <1>9 DEF RotaSound

LEMMA RotaStaysSound ==
  ASSUME FeedAssumption, FeedInv, RotaStep, UNCHANGED now
  PROVE  RotaSound'
<1> USE DEF FeedInv
<1>e. edits \in Nat /\ MaxEdits \in Nat /\ edits \in 0..MaxEdits /\ made \in Nat
  BY DEF RotaSound, FeedAssumption
<1>f. Edit => edits' \in 0..MaxEdits
  BY <1>e DEF Edit
<1>1. CASE CreateRotaAssignment
  <2>1. PICK d \in RotaDays, w \in Crew :
          \/ RowsOn(d) = {} /\ Added(d, w, FALSE, 0)
          \/ /\ Covers(RowsOn(d)) = {}
             /\ \E r \in RowsOn(d) : Added(d, w, TRUE, r.id)
    BY <1>1 DEF CreateRotaAssignment
  <2>2. Edit
    BY <1>1 DEF CreateRotaAssignment
  <2>3. CASE RowsOn(d) = {} /\ Added(d, w, FALSE, 0)
    <3>1. 0 \in 0..made
      BY <1>e
    <3> QED
      BY <1>f, <2>2, <2>3, <3>1, AddedIsSound
  <2>4. CASE Covers(RowsOn(d)) = {} /\ \E r \in RowsOn(d) : Added(d, w, TRUE, r.id)
    <3>1. PICK r \in RowsOn(d) : Added(d, w, TRUE, r.id)
      BY <2>4
    <3>2. r.id \in 0..made
      BY DEF RowsOn, RotaSound, Row
    <3> QED
      BY <1>f, <2>2, <2>4, <3>1, <3>2, AddedIsSound
  <2> QED
    BY <2>1, <2>3, <2>4
<1>2. CASE DeleteRotaAssignment
  <2>1. hats' \subseteq hats /\ made' = made /\ edits' \in 0..MaxEdits
    BY <1>2, <1>f DEF DeleteRotaAssignment
  <2> QED
    BY <2>1 DEF RotaSound, WellPaired
<1>3. CASE UpdateAssignmentMember
  <2>1. made' = made /\ edits' \in 0..MaxEdits
    BY <1>3, <1>f DEF UpdateAssignmentMember
  <2>2. CASE \E r \in Covers(hats), w \in Crew : hats' = (hats \ {r}) \cup {[r EXCEPT !.who = w]}
    <3>1. PICK r \in Covers(hats), w \in Crew : hats' = (hats \ {r}) \cup {[r EXCEPT !.who = w]}
      BY <2>2
    <3> DEFINE n == [r EXCEPT !.who = w]
    <3>2. r \in hats /\ r \in Row
      BY DEF Covers, RotaSound
    <3>3. n \in Row /\ n.id = r.id /\ n.day = r.day /\ n.cover = r.cover /\ n.of = r.of
      BY <3>2 DEF Row
    <3> HIDE DEF n
    <3>4. hats' \subseteq Row
      BY <3>1, <3>3 DEF RotaSound, n
    <3>5. \A x \in hats' : \E y \in hats : x.id = y.id /\ x.day = y.day /\ x.cover = y.cover /\ x.of = y.of
      BY <3>1, <3>2, <3>3 DEF n
    <3>6. \A x, y \in hats' : x.id = y.id => x = y
      BY <3>1, <3>2, <3>3 DEF RotaSound, n
    <3> QED
      BY <2>1, <3>4, <3>5, <3>6, Repointed DEF RotaSound
  <2>3. CASE \E d, e \in RotaDays : \E r \in OnDuty(d), s \in OnDuty(e) :
               /\ d < e /\ r.who # s.who
               /\ hats' = (hats \ {r, s}) \cup {[r EXCEPT !.who = s.who], [s EXCEPT !.who = r.who]}
    <3>1. PICK d \in RotaDays, e \in RotaDays : \E r \in OnDuty(d), s \in OnDuty(e) :
               /\ d < e /\ r.who # s.who
               /\ hats' = (hats \ {r, s}) \cup {[r EXCEPT !.who = s.who], [s EXCEPT !.who = r.who]}
      BY <2>3
    <3>2. PICK r \in OnDuty(d), s \in OnDuty(e) :
               hats' = (hats \ {r, s}) \cup {[r EXCEPT !.who = s.who], [s EXCEPT !.who = r.who]}
               /\ r.who # s.who
      BY <3>1
    <3> DEFINE n == [r EXCEPT !.who = s.who]
               m == [s EXCEPT !.who = r.who]
    <3>3. r \in hats /\ r \in Row /\ s \in hats /\ s \in Row
      BY DEF OnDuty, RowsOn, Covers, Originals, RotaSound
    <3>4. n \in Row /\ n.id = r.id /\ n.day = r.day /\ n.cover = r.cover /\ n.of = r.of
      BY <3>3 DEF Row
    <3>5. m \in Row /\ m.id = s.id /\ m.day = s.day /\ m.cover = s.cover /\ m.of = s.of
      BY <3>3 DEF Row
    <3>6. hats' = (hats \ {r, s}) \cup {n, m}
      BY <3>2
    <3> HIDE DEF n, m
    <3>7. hats' \subseteq Row
      BY <3>6, <3>4, <3>5 DEF RotaSound
    <3>8. \A x \in hats' : \E y \in hats : x.id = y.id /\ x.day = y.day /\ x.cover = y.cover /\ x.of = y.of
      BY <3>3, <3>4, <3>5, <3>6
    <3>9. \A x, y \in hats' : x.id = y.id => x = y
      <4>1. r.id # s.id
        BY <3>2, <3>3 DEF RotaSound
      <4> QED
        BY <3>3, <3>4, <3>5, <3>6, <4>1 DEF RotaSound
    <3> QED
      BY <2>1, <3>7, <3>8, <3>9, Repointed DEF RotaSound
  <2> QED
    BY <1>3, <2>2, <2>3 DEF UpdateAssignmentMember
<1>4. CASE DeleteTeamMember
  <2>1. made' = made /\ edits' \in 0..MaxEdits
    BY <1>4, <1>f DEF DeleteTeamMember
  <2>2. PICK w \in Crew :
          LET left == {r \in hats : r.who # w}
          IN hats' = {IF \E s \in left : s.id = r.of THEN r ELSE [r EXCEPT !.of = 0] : r \in left}
    BY <1>4 DEF DeleteTeamMember
  <2> DEFINE left == {r \in hats : r.who # w}
             Original(r) == \E s \in left : s.id = r.of
             new(r) == IF Original(r) THEN r ELSE [r EXCEPT !.of = 0]
  <2>3. hats' = {new(r) : r \in left}
    BY <2>2
  <2>4. \A r \in left : r \in hats /\ r \in Row
    BY DEF RotaSound
  <2>5. \A r \in left : /\ new(r) \in Row /\ new(r).id = r.id /\ new(r).day = r.day
                        /\ new(r).cover = r.cover /\ new(r).of \in {0, r.of}
                        /\ Original(r) => new(r).of = r.of
                        /\ ~Original(r) => new(r).of = 0
    BY <2>4, <1>e DEF Row, FeedAssumption
  <2>6. \A c, r \in left : Original(c) \/ c.of # r.id
    OBVIOUS
  <2>7. \A r \in left : r.id > 0
    BY <2>4 DEF Row
  <2> HIDE DEF new, Original
  <2>8. \A c, r \in left : new(c).cover /\ ~new(r).cover =>
                             (new(c).of = new(r).id <=> new(c).day = new(r).day)
    <3>1. SUFFICES ASSUME NEW c \in left, NEW r \in left, new(c).cover, ~new(r).cover
                   PROVE  new(c).of = new(r).id <=> new(c).day = new(r).day
      OBVIOUS
    <3>2. c.cover /\ ~r.cover /\ (c.of = r.id <=> c.day = r.day)
      BY <3>1, <2>4, <2>5 DEF RotaSound, WellPaired
    <3>3. CASE Original(c)
      BY <3>2, <3>3, <2>5
    <3>4. CASE ~Original(c)
      <4>1. c.of # r.id /\ c.day # r.day
        BY <3>4, <3>2, <2>6
      <4>2. new(c).of = 0 /\ new(r).id = r.id /\ r.id # 0
        BY <3>4, <2>5, <2>7
      <4>3. new(c).day # new(r).day
        BY <4>1, <2>5
      <4> QED
        BY <4>2, <4>3
    <3> QED
      BY <3>3, <3>4
  <2>9. \A r, s \in left : new(r).day = new(s).day /\ new(r).cover = new(s).cover => r = s
    BY <2>4, <2>5 DEF RotaSound, WellPaired
  <2>10. \A r, s \in left : new(r).id = new(s).id => r = s
    BY <2>4, <2>5 DEF RotaSound
  <2>11. \A r \in left : new(r).id <= made /\ new(r).of <= made
    BY <2>4, <2>5, <1>e DEF RotaSound
  <2> HIDE DEF left
  <2>12. WellPaired(hats')
    BY <2>3, <2>8, <2>9 DEF WellPaired
  <2>13. (\A r, s \in hats' : r.id = s.id => r = s) /\ \A r \in hats' : r.id <= made /\ r.of <= made
    BY <2>3, <2>10, <2>11
  <2>14. hats' \subseteq Row
    BY <2>3, <2>5
  <2> QED
    BY <2>1, <2>12, <2>13, <2>14 DEF RotaSound
<1>5. CASE SetMemberActive \/ ReportLeave
  BY <1>5, <1>f DEF SetMemberActive, ReportLeave, RotaSound
<1> QED
  BY <1>1, <1>2, <1>3, <1>4, <1>5 DEF RotaStep

LEMMA FeedTypesKept ==
  ASSUME FeedAssumption, FeedInv, [FeedNext]_feedVars, RotaSound'
  PROVE  /\ (hats \subseteq Row)' /\ (crew \in [Crew -> {"active", "inactive", "gone"}])'
         /\ (leave \subseteq Crew \X RotaDays)'
         /\ (subs \in [FeedTokens -> [who : Crew, created : 1..LastDay, used : 0..LastDay] \cup {NoSub}])'
         /\ (tab \in [Tabs -> Crew \cup {NoSub}])'
         /\ (handed \in 0..MaxSubscriptions)'
<1> DEFINE Sub == [who : Crew, created : 1..LastDay, used : 0..LastDay]
<1> USE DEF FeedInv, FeedTypeOK
<1>1. (hats \subseteq Row)'
  BY DEF RotaSound
<1>t. /\ subs \in [FeedTokens -> Sub \cup {NoSub}] /\ tab \in [Tabs -> Crew \cup {NoSub}]
      /\ handed \in 0..MaxSubscriptions /\ MaxSubscriptions \in Nat
      /\ now \in 1..LastDay /\ now \in 0..LastDay /\ LastDay \in Nat
      /\ crew \in [Crew -> {"active", "inactive", "gone"}] /\ leave \subseteq Crew \X RotaDays
  BY DEF RotaSound, FeedAssumption
<1>n. ASSUME NEW w \in Crew, CreateCalendarSubscription(w)
      PROVE  subs' \in [FeedTokens -> Sub \cup {NoSub}] /\ handed' \in 0..MaxSubscriptions
  <2>1. [who |-> w, created |-> now, used |-> 0] \in Sub
    BY <1>t
  <2> QED
    BY <1>t, <1>n, <2>1 DEF CreateCalendarSubscription, FeedTokens
<1> HIDE DEF Sub
<1>2. CASE ClientStep /\ UNCHANGED <<rotaState, tab, handed, now>>
  <2>1. CASE Touch
    <3>1. CASE subs' = subs
      BY <1>1, <1>2, <1>t, <3>1 DEF rotaState, Sub
    <3>2. CASE /\ subs[client.token] # NoSub
               /\ subs' = [subs EXCEPT ![client.token] = [subs[client.token] EXCEPT !.used = now]]
      <4>1. CASE client.token \in FeedTokens
        <5>1. [subs[client.token] EXCEPT !.used = now] \in Sub
          BY <1>t, <3>2, <4>1 DEF Sub
        <5> QED
          BY <1>1, <1>2, <1>t, <3>2, <5>1 DEF rotaState, Sub
      <4>2. CASE client.token \notin FeedTokens
        BY <1>1, <1>2, <1>t, <3>2, <4>2 DEF rotaState, Sub
      <4> QED
        BY <4>1, <4>2
    <3> QED
      BY <2>1, <3>1, <3>2 DEF Touch
  <2>2. CASE subs' = subs
    BY <1>1, <1>2, <1>t, <2>2 DEF rotaState, Sub
  <2> QED
    BY <1>2, <2>1, <2>2 DEF ClientStep, handleCalendarICS, handleTeamCalendarICS,
         handleMeetingsCalendarICS, handleMeetingsDayHTML, RequestFeed, ReadAssignments,
         GenerateICal, GenerateTeamCalendar, getPresenceForDate, leaveOnMeetingDay,
         GenerateMeetings, FeedFails, subState
<1>3. CASE RotaStep /\ UNCHANGED <<tab, handed, client, now>>
  <2>1. crew' \in [Crew -> {"active", "inactive", "gone"}]
    BY <1>3, <1>t DEF RotaStep, CreateRotaAssignment, DeleteRotaAssignment,
         UpdateAssignmentMember, DeleteTeamMember, SetMemberActive, ReportLeave
  <2>2. subs' \in [FeedTokens -> Sub \cup {NoSub}]
    BY <1>3, <1>t DEF RotaStep, CreateRotaAssignment, DeleteRotaAssignment,
         UpdateAssignmentMember, DeleteTeamMember, SetMemberActive, ReportLeave, subState
  <2>3. leave' \subseteq Crew \X RotaDays
    <3>1. \/ leave' \subseteq leave
          \/ \E w \in Crew, d \in RotaDays : leave' = leave \cup {<<w, d>>}
      BY <1>3 DEF RotaStep, CreateRotaAssignment, DeleteRotaAssignment,
           UpdateAssignmentMember, DeleteTeamMember, SetMemberActive, ReportLeave
    <3> QED
      BY <1>t, <3>1
  <2> QED
    BY <1>1, <1>3, <1>t, <2>1, <2>2, <2>3 DEF Sub
<1>4. CASE SubscriptionStep /\ UNCHANGED <<rotaState, client, now>>
  <2>1. ASSUME NEW t \in Tabs, loadUserSubscription(t)
        PROVE  /\ subs' \in [FeedTokens -> Sub \cup {NoSub}] /\ handed' \in 0..MaxSubscriptions
               /\ tab' \in [Tabs -> Crew \cup {NoSub}]
    BY <2>1, <1>t DEF loadUserSubscription
  <2>2. ASSUME NEW t \in Tabs, autoCreateSubscription(t)
        PROVE  /\ subs' \in [FeedTokens -> Sub \cup {NoSub}] /\ handed' \in 0..MaxSubscriptions
               /\ tab' \in [Tabs -> Crew \cup {NoSub}]
    <3>1. tab[t] \in Crew /\ tab' \in [Tabs -> Crew \cup {NoSub}]
      BY <2>2, <1>t DEF autoCreateSubscription
    <3>2. CASE CreateCalendarSubscription(tab[t])
      BY <3>1, <3>2, <1>n
    <3>3. CASE UNCHANGED <<subs, handed>>
      BY <3>1, <3>3, <1>t
    <3> QED
      BY <2>2, <3>2, <3>3 DEF autoCreateSubscription
  <2>3. ASSUME handleCalendarAdminPost
        PROVE  /\ subs' \in [FeedTokens -> Sub \cup {NoSub}] /\ handed' \in 0..MaxSubscriptions
               /\ tab' \in [Tabs -> Crew \cup {NoSub}]
    BY <2>3, <1>n, <1>t DEF handleCalendarAdminPost
  <2>4. ASSUME handleCalendarSubscriptionsCleanup
        PROVE  /\ subs' \in [FeedTokens -> Sub \cup {NoSub}] /\ handed' \in 0..MaxSubscriptions
               /\ tab' \in [Tabs -> Crew \cup {NoSub}]
    BY <2>4, <1>t DEF handleCalendarSubscriptionsCleanup
  <2> QED
    BY <1>1, <1>4, <1>t, <2>1, <2>2, <2>3, <2>4 DEF SubscriptionStep, rotaState, Sub
<1>5. CASE NextDay /\ UNCHANGED <<rotaState, subState, client>>
  BY <1>1, <1>5, <1>t DEF rotaState, subState, Sub
<1>6. CASE UNCHANGED feedVars
  BY <1>1, <1>6, <1>t DEF feedVars, Sub
<1> QED
  BY <1>2, <1>3, <1>4, <1>5, <1>6, FeedSteps

\* Time and changes go one way, and the rota stands still between changes.
LEMMA RotaGoesOn ==
  ASSUME FeedAssumption, FeedInv, [FeedNext]_feedVars
  PROVE  /\ RotaSound'
         /\ edits <= edits' /\ now <= now'
         /\ edits' = edits => UNCHANGED <<hats, crew, leave>>
<1> USE DEF FeedInv
<1>e. edits \in 0..MaxEdits /\ now \in 1..LastDay /\ MaxEdits \in Nat /\ LastDay \in Nat
  BY DEF RotaSound, FeedAssumption
<1>1. CASE RotaStep /\ UNCHANGED <<tab, handed, client, now>>
  <2>1. edits' = edits + 1
    BY <1>1 DEF RotaStep, CreateRotaAssignment, DeleteRotaAssignment,
         UpdateAssignmentMember, DeleteTeamMember, SetMemberActive, ReportLeave, Edit
  <2> QED
    BY <1>1, <1>e, <2>1, RotaStaysSound
<1>2. CASE NextDay /\ UNCHANGED <<rotaState, subState, client>>
  BY <1>2, <1>e DEF NextDay, RotaSound, rotaState
<1>3. CASE UNCHANGED <<rotaState, now>>
  BY <1>3, <1>e DEF RotaSound, rotaState
<1> QED
  BY <1>1, <1>2, <1>3, FeedSteps DEF feedVars, rotaState

-----------------------------------------------------------------------------
(* The feed that is being made. *)

\* What duty, presence and the marks are made of.
LEMMA SameDuty ==
  ASSUME UNCHANGED <<hats, crew, leave, now>>
  PROVE  /\ \A d : OnDuty(d)' = OnDuty(d)
         /\ \A d : \A w : Present(w, d)' <=> Present(w, d)
         /\ \A d : Marks(d)' = Marks(d)
         /\ BeforeTheEnd' = BeforeTheEnd /\ ToTheEnd' = ToTheEnd
         /\ GetActiveTeamMembers' = GetActiveTeamMembers
<1>1. \A d : OnDuty(d)' = OnDuty(d)
  BY DEF OnDuty, Covers, Originals, RowsOn
<1>2. \A d : \A w : Present(w, d)' <=> Present(w, d)
  BY DEF Present, Active
<1>3. \A d : Holders(d)' = Holders(d)
  BY <1>1 DEF Holders
<1>4. \A d : Marks(d)' = Marks(d)
  BY <1>2, <1>3 DEF Marks
<1> QED
  BY <1>1, <1>2, <1>4 DEF BeforeTheEnd, ToTheEnd, GetActiveTeamMembers, Active

LEMMA SameTold ==
  ASSUME UNCHANGED <<hats, crew, leave, now>>, client'.kind = client.kind, client'.who = client.who
  PROVE  \A d : ToldOf(d)' = ToldOf(d)
<1> TAKE d
<1>1. OnDuty(d)' = OnDuty(d) /\ Marks(d)' = Marks(d)
  BY SameDuty
<1>2. Holders(d)' = Holders(d)
  BY <1>1 DEF Holders
<1> DEFINE others(h) == {IF Active(w) THEN w ELSE NoOne : w \in h}
<1>3. others(Holders(d) \ {client.who})' = others(Holders(d) \ {client.who})
  BY <1>2 DEF Active
<1> HIDE DEF others
<1>4. CASE client.kind = "personal"
  BY <1>2, <1>4 DEF ToldOf, Lines
<1>5. CASE client.kind = "team"
  <2>1. ToldOf(d) = Lines(d, "event", others(Holders(d) \ {client.who}))
    BY <1>5 DEF ToldOf, others
  <2>2. ToldOf(d)' = Lines(d, "event", others(Holders(d) \ {client.who})')
    BY <1>5 DEF ToldOf, others, Lines
  <2> QED
    BY <1>3, <2>1, <2>2
<1>6. CASE client.kind \notin {"personal", "team"}
  <2>1. ToldOf(d) = UNION {Lines(d, form, Marks(d)) : form \in {"text", "html"}}
    BY <1>6 DEF ToldOf
  <2>2. ToldOf(d)' = UNION {Lines(d, form, Marks(d)') : form \in {"text", "html"}}
    BY <1>6 DEF ToldOf, Lines
  <2> QED
    BY <1>1, <2>1, <2>2
<1> QED
  BY <1>4, <1>5, <1>6

\* Somebody on duty of one day, at most, is marked.
LEMMA OnDutyIsOne ==
  ASSUME RotaSound, NEW d \in RotaDays
  PROVE  /\ OneEach(OnDuty(d)) /\ OnDuty(d) \subseteq Row /\ \A r \in OnDuty(d) : r.day = d
         /\ Holders(d) \subseteq Crew /\ \A v, w \in Holders(d) : v = w
         /\ Marks(d) \subseteq Crew \cup {NoOne} /\ \E w : Marks(d) = {w}
<1>1. OneEach(OnDuty(d)) /\ OnDuty(d) \subseteq Row /\ \A r \in OnDuty(d) : r.day = d
  BY DEF RotaSound, WellPaired, OneEach, OnDuty, Covers, Originals, RowsOn, Row
<1>2. Holders(d) \subseteq Crew /\ \A v, w \in Holders(d) : v = w
  BY <1>1 DEF Holders, OneEach, Row
<1> QED
  BY <1>1, <1>2 DEF Marks

\* Nothing to a feed that is left alone: either the rota is as before, or it is no
\* longer the one that the feed began with.
LEMMA WaitingFeed ==
  ASSUME FeedAssumption, FeedInv, [FeedNext]_feedVars, UNCHANGED client
  PROVE  /\ (client # NoFeed => ReadSoFar)'
         /\ FeedTellsDuty'
<1> USE DEF FeedInv
<1>1. /\ RotaSound' /\ edits <= edits' /\ now <= now'
      /\ edits' = edits => UNCHANGED <<hats, crew, leave>>
  BY RotaGoesOn
<1>2. CASE client = NoFeed
  BY <1>2 DEF FeedTellsDuty, NoFeed
<1>3. CASE client # NoFeed
  <2>1. ReadSoFar /\ client.since \in (0..MaxEdits) \X (1..LastDay)
    BY <1>3 DEF ReadSoFar, Feed
  <2>2. edits \in Nat /\ now \in Nat /\ edits' \in Nat /\ now' \in Nat
    BY <1>1 DEF RotaSound
  <2>3. Fresh' => Fresh /\ UNCHANGED <<hats, crew, leave, edits, now>>
    <3>1. client.since[1] <= edits /\ client.since[2] <= now
      BY <2>1 DEF ReadSoFar
    <3>2. client.since[1] \in Nat /\ client.since[2] \in Nat
      BY <2>1
    <3>3. Fresh' => client.since[1] = edits' /\ client.since[2] = now'
      BY DEF Fresh
    <3>4. Fresh' => edits' = edits /\ now' = now
      BY <1>1, <2>2, <3>1, <3>2, <3>3
    <3> QED
      BY <1>1, <3>4 DEF Fresh
  <2>4. client.since[1] <= edits' /\ client.since[2] <= now'
    BY <1>1, <2>1, <2>2 DEF ReadSoFar
  <2>5. /\ Listed' <=> Listed
        /\ \A rows : (OneEach(rows)' <=> OneEach(rows)) /\ (WellPaired(rows)' <=> WellPaired(rows))
        /\ \A lines : OneLineEach(lines)' <=> OneLineEach(lines)
        /\ \A d, form : Wrote(d, form)' <=> Wrote(d, form)
    BY DEF Listed, OneEach, WellPaired, OneLineEach, Wrote
  <2>6. CASE Fresh'
    <3>1. Fresh /\ UNCHANGED <<hats, crew, leave, edits, now>>
      BY <2>3, <2>6
    <3>2. /\ \A d : OnDuty(d)' = OnDuty(d)
          /\ \A d : \A w : Present(w, d)' <=> Present(w, d)
          /\ \A d : Marks(d)' = Marks(d)
          /\ BeforeTheEnd' = BeforeTheEnd /\ ToTheEnd' = ToTheEnd
          /\ GetActiveTeamMembers' = GetActiveTeamMembers
      BY <3>1, SameDuty
    <3>3. /\ \A r : Mine(r)' <=> Mine(r)
          /\ RowsOfDuty' = RowsOfDuty
      BY <3>2 DEF Mine, RowsOfDuty
    <3>4. ListSoFar' <=> ListSoFar
      BY <2>5, <2>6, <3>1, <3>2, <3>3 DEF ListSoFar
    <3>5. MeetingsSoFar' <=> MeetingsSoFar
      BY <2>5, <2>6, <3>1, <3>2, <3>3 DEF MeetingsSoFar
    <3>6. ReadSoFar'
      BY <2>1, <2>4, <2>5, <3>4, <3>5 DEF ReadSoFar
    <3>7. \A d : ToldOf(d)' = ToldOf(d)
      BY <3>1, SameTold
    <3>8. FeedTellsDuty'
      BY <3>1, <3>7 DEF FeedTellsDuty
    <3> QED
      BY <3>6, <3>8
  <2>7. CASE ~Fresh'
    <3>1. ListSoFar => ListSoFar'
      BY <2>5, <2>7 DEF ListSoFar
    <3>2. MeetingsSoFar => MeetingsSoFar'
      BY <2>5, <2>7 DEF MeetingsSoFar
    <3>3. ReadSoFar'
      BY <2>1, <2>4, <2>5, <3>1, <3>2 DEF ReadSoFar
    <3>4. FeedTellsDuty'
      BY <2>7 DEF FeedTellsDuty, Fresh
    <3> QED
      BY <3>3, <3>4
  <2> QED
    BY <2>6, <2>7
<1> QED
  BY <1>2, <1>3

\* A new feed has read nothing.
LEMMA NewFeed ==
  ASSUME FeedAssumption, FeedInv, NEW kind \in {"personal", "team", "meetings", "day"},
         NEW days \in SUBSET RotaDays, RequestFeed(kind, days),
         kind = "personal" => days = BeforeTheEnd
  PROVE  (client # NoFeed => ReadSoFar)' /\ FeedTellsDuty'
<1> USE DEF FeedInv
<1>1. PICK k \in FeedTokens :
        /\ subs[k] # NoSub
        /\ client' = [at |-> "list", kind |-> kind, token |-> k, who |-> subs[k].who,
                      days |-> days, left |-> days, form |-> "text", named |-> {},
                      rows |-> {}, told |-> {}, since |-> <<edits, now>>]
  BY DEF RequestFeed, GetMemberByToken
<1>2. subs[k].who \in Crew
  BY <1>1 DEF FeedTypeOK
<1>3. UNCHANGED <<hats, crew, leave, edits, now>>
  BY DEF RequestFeed, rotaState
<1>4. edits \in 0..MaxEdits /\ now \in 1..LastDay /\ edits <= edits /\ now <= now
  BY DEF RotaSound, FeedAssumption
<1>5. client' \in Feed
  BY <1>1, <1>2, <1>4 DEF Feed
<1>6. /\ client'.at = "list" /\ client'.kind = kind /\ client'.days = days /\ client'.left = days
      /\ client'.form = "text" /\ client'.told = {} /\ client'.since = <<edits, now>>
  BY <1>1
<1>7. BeforeTheEnd' = BeforeTheEnd
  BY <1>3, SameDuty
<1>8. ListSoFar'
  BY <1>6, <1>7 DEF ListSoFar
<1>9. MeetingsSoFar'
  <2>1. \A d \in days : \A form : ~Wrote(d, form)'
    BY <1>6 DEF Wrote
  <2> QED
    BY <1>6, <2>1 DEF MeetingsSoFar, OneLineEach
<1>10. ReadSoFar'
  BY <1>3, <1>4, <1>5, <1>6, <1>8, <1>9 DEF ReadSoFar
<1>11. FeedTellsDuty'
  BY <1>6 DEF FeedTellsDuty
<1> QED
  BY <1>10, <1>11

LEMMA ListIsRead ==
  ASSUME FeedAssumption, FeedInv, ReadAssignments
  PROVE  (client # NoFeed => ReadSoFar)' /\ FeedTellsDuty'
<1> USE DEF FeedInv
<1> DEFINE rows == IF client.kind = "personal" THEN GetUpcomingAssignments(client.who)
                   ELSE {r \in GetAssignmentsByDateRange(client.days) : r.who # client.who}
<1>1. /\ client.at = "list" /\ Listed /\ client' = [client EXCEPT !.at = "covered", !.rows = rows]
      /\ UNCHANGED <<hats, crew, leave, edits, now>>
  BY DEF ReadAssignments, Listed, rotaState
<1>2. client # NoFeed /\ ReadSoFar /\ ListSoFar /\ client \in Feed
  BY <1>1 DEF NoFeed, ReadSoFar
<1>3. Fresh => rows = {r \in hats : r.day \in client.days /\ Mine(r)}
  BY <1>1, <1>2 DEF GetUpcomingAssignments, GetAssignmentsByDateRange, Mine, Listed, ListSoFar
<1>4. rows \subseteq hats
  BY DEF GetUpcomingAssignments, GetAssignmentsByDateRange
<1> HIDE DEF rows
<1>5. rows \subseteq Row /\ WellPaired(rows)
  BY <1>4 DEF RotaSound, WellPaired
<1>6. client' \in Feed
  BY <1>1, <1>2, <1>5 DEF Feed
<1>7. /\ client'.at = "covered" /\ client'.rows = rows /\ client'.kind = client.kind
      /\ client'.who = client.who /\ client'.days = client.days /\ client'.since = client.since
  BY <1>1, <1>2 DEF Feed
<1>8. BeforeTheEnd' = BeforeTheEnd /\ (Listed' <=> Listed) /\ (Fresh' <=> Fresh)
  BY <1>1, <1>7, SameDuty DEF Listed, Fresh
<1>9. (\A r : Mine(r)' <=> Mine(r)) /\ WellPaired(client.rows)'
  BY <1>5, <1>7 DEF Mine, WellPaired
<1>10. ListSoFar'
  BY <1>1, <1>2, <1>3, <1>7, <1>8, <1>9 DEF ListSoFar
<1>11. ReadSoFar'
  BY <1>1, <1>2, <1>6, <1>7, <1>8, <1>10 DEF ReadSoFar
<1> QED
  BY <1>7, <1>11 DEF FeedTellsDuty

\* Of a list of rows that are well paired the covered originals go.
LEMMA SuppressedOnce ==
  ASSUME NEW rows, rows \subseteq Row, WellPaired(rows), NEW ids
  PROVE  OneEach(suppressCoveredOriginals(rows, ids))
<1> DEFINE res == suppressCoveredOriginals(rows, ids)
<1>1. ASSUME NEW r \in res, NEW s \in res, r.day = s.day, r # s
      PROVE  FALSE
  <2>1. r \in rows /\ s \in rows
    BY DEF suppressCoveredOriginals
  <2>2. r.cover # s.cover
    BY <1>1, <2>1 DEF WellPaired
  <2>3. \A c, o \in rows : c.cover /\ ~o.cover /\ c.day = o.day
                             => o.id \in unionWithSliceCovers(rows, ids)
    BY DEF WellPaired, unionWithSliceCovers, Covers, Row
  <2>4. r.cover \in BOOLEAN /\ s.cover \in BOOLEAN
    BY <2>1 DEF Row
  <2> QED
    BY <1>1, <2>1, <2>2, <2>3, <2>4 DEF suppressCoveredOriginals
<1> QED
  BY <1>1 DEF OneEach

\* In the rota as it stands an original of the days is covered just when its day is.
LEMMA CoveredOriginalsAreCovered ==
  ASSUME RotaSound, NEW days, NEW r \in hats, ~r.cover, r.day \in days
  PROVE  r.id \in GetCoveredOriginalIDsInRange(days) <=> Covers(RowsOn(r.day)) # {}
<1>1. ASSUME NEW c \in Covers(RowsOn(r.day))
      PROVE  r.id \in GetCoveredOriginalIDsInRange(days)
  <2>1. c \in hats /\ c.cover /\ c.day = r.day
    BY DEF Covers, RowsOn
  <2>2. c.of = r.id
    BY <2>1 DEF RotaSound, WellPaired
  <2>3. r.id # 0
    BY DEF RotaSound, Row
  <2> QED
    BY <2>1, <2>2, <2>3 DEF GetCoveredOriginalIDsInRange, Covers
<1>2. ASSUME r.id \in GetCoveredOriginalIDsInRange(days)
      PROVE  Covers(RowsOn(r.day)) # {}
  <2>1. PICK c \in Covers(hats) : c.of = r.id
    BY <1>2 DEF GetCoveredOriginalIDsInRange
  <2>2. c \in hats /\ c.cover /\ c.day = r.day
    BY <2>1 DEF Covers, RotaSound, WellPaired
  <2> QED
    BY <2>2 DEF Covers, RowsOn
<1> QED
  BY <1>1, <1>2

\* The covered originals may be those of more days than the list has.
LEMMA SuppressedIsDuty ==
  ASSUME RotaSound, NEW rows, NEW days, client.days \subseteq days, client.days \subseteq RotaDays,
         rows = {r \in hats : r.day \in client.days /\ Mine(r)}
  PROVE  suppressCoveredOriginals(rows, GetCoveredOriginalIDsInRange(days)) = RowsOfDuty
<1> DEFINE ids == GetCoveredOriginalIDsInRange(days)
<1>1. \A r \in hats : r.cover => r \in OnDuty(r.day)
  BY DEF OnDuty, Covers, RowsOn
<1>2. \A r \in hats : ~r.cover => (r \in OnDuty(r.day) <=> Covers(RowsOn(r.day)) = {})
  BY DEF OnDuty, Covers, Originals, RowsOn
<1>3. \A d : \A r \in OnDuty(d) : r \in hats /\ r.day = d
  BY DEF OnDuty, Covers, Originals, RowsOn
<1>4. \A i : i \in unionWithSliceCovers(rows, ids) <=> i \in ids
  <2>1. ASSUME NEW c \in Covers(rows), c.of # 0
        PROVE  c.of \in ids
    BY <2>1 DEF GetCoveredOriginalIDsInRange, Covers
  <2> QED
    BY <2>1 DEF unionWithSliceCovers
<1>5. \A r \in hats : r.day \in client.days => (r \in OnDuty(r.day) <=> r.cover \/ r.id \notin ids)
  BY <1>1, <1>2, CoveredOriginalsAreCovered
<1>6. suppressCoveredOriginals(rows, ids) = {r \in rows : r.cover \/ r.id \notin ids}
  BY <1>4 DEF suppressCoveredOriginals
<1> HIDE DEF ids
<1>7. \A r : r \in RowsOfDuty <=> r \in hats /\ r.day \in client.days /\ Mine(r) /\ r \in OnDuty(r.day)
  BY <1>3 DEF RowsOfDuty
<1> QED
  BY <1>5, <1>6, <1>7 DEF ids

\* What the events of those rows tell.
LEMMA DutyIsTold ==
  ASSUME RotaSound, Listed, client.days \subseteq RotaDays,
         NEW named, IF client.kind = "personal" THEN named = {client.who} ELSE named = GetActiveTeamMembers
  PROVE  Events(RowsOfDuty, named) = UNION {ToldOf(d) : d \in client.days}
<1> DEFINE event(r) == [day |-> r.day, form |-> "event", who |-> IF r.who \in named THEN r.who ELSE NoOne]
<1>1. \A d \in client.days : \A r \in OnDuty(d) : r.day = d
  BY OnDutyIsOne
<1>2. CASE client.kind = "personal"
  <2>1. \A d : ToldOf(d) = Lines(d, "event", Holders(d) \cap {client.who})
    BY <1>2 DEF ToldOf
  <2>2. \A d \in client.days : \A l : l \in ToldOf(d) <=> \E r \in OnDuty(d) : Mine(r) /\ l = event(r)
    BY <1>1, <1>2, <2>1 DEF Lines, Holders, Mine
  <2> HIDE DEF event
  <2>3. \A l : l \in UNION {ToldOf(d) : d \in client.days} <=>
               \E r \in RowsOfDuty : l = event(r)
    BY <2>2 DEF RowsOfDuty
  <2> QED
    BY <2>3 DEF Events, event
<1>3. CASE client.kind = "team"
  <2>1. \A d : ToldOf(d) = Lines(d, "event", {IF Active(w) THEN w ELSE NoOne : w \in Holders(d) \ {client.who}})
    BY <1>3 DEF ToldOf
  <2>2. \A d \in client.days : \A r \in OnDuty(d) : r.who \in named <=> Active(r.who)
    BY <1>3, OnDutyIsOne DEF GetActiveTeamMembers, Row
  <2>3. \A d \in client.days : \A l : l \in ToldOf(d) <=> \E r \in OnDuty(d) : Mine(r) /\ l = event(r)
    BY <1>1, <1>3, <2>1, <2>2 DEF Lines, Holders, Mine
  <2> HIDE DEF event
  <2>4. \A l : l \in UNION {ToldOf(d) : d \in client.days} <=>
               \E r \in RowsOfDuty : l = event(r)
    BY <2>3 DEF RowsOfDuty
  <2> QED
    BY <2>4 DEF Events, event
<1> QED
  BY <1>2, <1>3 DEF Listed

\* Whoever is named, there is one event for a row.
LEMMA EventsOfRows ==
  ASSUME NEW rows, rows \subseteq Row, NEW named, OneEach(rows)
  PROVE  Events(rows, named) \subseteq Line /\ OneLineEach(Events(rows, named))
BY DEF Events, Row, Line, OneEach, OneLineEach

LEMMA ListIsAnswered ==
  ASSUME FeedAssumption, FeedInv, GenerateICal
  PROVE  (client # NoFeed => ReadSoFar)' /\ FeedTellsDuty'
<1> USE DEF FeedInv
<1> DEFINE mine == client.kind = "personal"
           days == IF mine THEN ToTheEnd ELSE client.days
           rows == suppressCoveredOriginals(client.rows, GetCoveredOriginalIDsInRange(days))
<1>1. /\ client.at = "covered"
      /\ client' = IF mine THEN [client EXCEPT !.at = "answer", !.rows = rows,
                                               !.told = Events(rows, {client.who})]
                   ELSE [client EXCEPT !.at = "names", !.rows = rows]
      /\ UNCHANGED <<hats, crew, leave, edits, now>>
  BY DEF GenerateICal, rotaState
<1>2. client # NoFeed /\ ReadSoFar /\ client \in Feed
  BY <1>1 DEF NoFeed, ReadSoFar
<1>3. Listed /\ ListSoFar
  BY <1>1, <1>2 DEF ReadSoFar, MeetingsSoFar
<1>4. client.rows \subseteq Row /\ WellPaired(client.rows) /\ client.days \subseteq RotaDays
  BY <1>1, <1>2, <1>3 DEF ListSoFar, Feed
<1>5. rows \subseteq Row
  BY <1>4 DEF suppressCoveredOriginals
<1>6. OneEach(rows)
  BY <1>4, SuppressedOnce
<1>7. Fresh => rows = RowsOfDuty
  <2>1. SUFFICES ASSUME Fresh
                 PROVE  rows = RowsOfDuty
    OBVIOUS
  <2>2. client.rows = {r \in hats : r.day \in client.days /\ Mine(r)}
    BY <1>1, <1>3, <2>1 DEF ListSoFar
  <2>3. client.days \subseteq days
    <3>1. mine => client.days = BeforeTheEnd
      BY <1>3, <2>1 DEF ListSoFar
    <3>2. \A d \in RotaDays : d \in Nat
      BY DEF FeedAssumption
    <3>3. now \in Nat /\ Lookahead \in Nat
      BY DEF FeedAssumption, RotaSound
    <3>4. ASSUME NEW d \in BeforeTheEnd
          PROVE  d \in ToTheEnd
      BY <3>2, <3>3 DEF BeforeTheEnd, ToTheEnd
    <3> QED
      BY <3>1, <3>4
  <2> QED
    BY <1>4, <2>2, <2>3, SuppressedIsDuty
<1> HIDE DEF rows
<1>8. CASE mine
  <2> DEFINE told == Events(rows, {client.who})
  <2>1. told \subseteq Line /\ OneLineEach(told)
    BY <1>5, <1>6, EventsOfRows
  <2>2. Fresh => told = UNION {ToldOf(d) : d \in client.days}
    BY <1>3, <1>4, <1>7, <1>8, DutyIsTold
  <2> HIDE DEF told
  <2>3. client' = [client EXCEPT !.at = "answer", !.rows = rows, !.told = told]
    BY <1>1, <1>8 DEF told
  <2>4. /\ client' \in Feed
        /\ client'.at = "answer" /\ client'.told = told /\ client'.kind = client.kind
        /\ client'.who = client.who /\ client'.days = client.days /\ client'.since = client.since
    BY <1>2, <1>5, <2>1, <2>3 DEF Feed
  <2>5. BeforeTheEnd' = BeforeTheEnd /\ (Listed' <=> Listed) /\ (Fresh' <=> Fresh)
    BY <1>1, <2>4, SameDuty DEF Listed, Fresh
  <2>6. ReadSoFar'
    BY <1>1, <1>2, <1>3, <2>4, <2>5 DEF ReadSoFar, ListSoFar
  <2>7. \A d : ToldOf(d)' = ToldOf(d)
    BY <1>1, <2>4, SameTold
  <2>8. FeedTellsDuty'
    BY <1>1, <2>1, <2>2, <2>4, <2>7 DEF FeedTellsDuty, OneLineEach, Fresh
  <2> QED
    BY <2>6, <2>8
<1>9. CASE ~mine
  <2>1. client' = [client EXCEPT !.at = "names", !.rows = rows]
    BY <1>1, <1>9
  <2>2. /\ client' \in Feed
        /\ client'.at = "names" /\ client'.rows = rows /\ client'.kind = client.kind
        /\ client'.who = client.who /\ client'.days = client.days /\ client'.since = client.since
    BY <1>2, <1>5, <2>1 DEF Feed
  <2>3. (Listed' <=> Listed) /\ (Fresh' <=> Fresh)
    BY <1>1, <2>2 DEF Listed, Fresh
  <2>4. RowsOfDuty' = RowsOfDuty
    BY <1>1, <2>2, SameDuty DEF RowsOfDuty, Mine
  <2>5. ListSoFar'
    BY <1>3, <1>6, <1>7, <1>9, <2>2, <2>3, <2>4 DEF ListSoFar, OneEach, Listed
  <2>6. ReadSoFar'
    BY <1>1, <1>2, <1>3, <2>2, <2>3, <2>5 DEF ReadSoFar
  <2> QED
    BY <2>2, <2>6 DEF FeedTellsDuty
<1> QED
  BY <1>8, <1>9

LEMMA NamesAreRead ==
  ASSUME FeedAssumption, FeedInv, GenerateTeamCalendar
  PROVE  (client # NoFeed => ReadSoFar)' /\ FeedTellsDuty'
<1> USE DEF FeedInv
<1> DEFINE told == Events(client.rows, GetActiveTeamMembers)
<1>1. /\ client.at = "names" /\ client' = [client EXCEPT !.at = "answer", !.told = told]
      /\ UNCHANGED <<hats, crew, leave, edits, now>>
  BY DEF GenerateTeamCalendar, rotaState
<1>2. client # NoFeed /\ ReadSoFar /\ client \in Feed
  BY <1>1 DEF NoFeed, ReadSoFar
<1>3. Listed /\ ListSoFar /\ client.kind = "team"
  BY <1>1, <1>2 DEF ReadSoFar, MeetingsSoFar, ListSoFar
<1>4. told \subseteq Line /\ OneLineEach(told)
  BY <1>1, <1>2, <1>3, EventsOfRows DEF ListSoFar, Feed
<1>5. Fresh => told = UNION {ToldOf(d) : d \in client.days}
  <2>1. Fresh => client.rows = RowsOfDuty
    BY <1>1, <1>3 DEF ListSoFar
  <2>2. client.days \subseteq RotaDays
    BY <1>2 DEF Feed
  <2> QED
    BY <1>3, <2>1, <2>2, DutyIsTold
<1> HIDE DEF told
<1>6. /\ client' \in Feed
      /\ client'.at = "answer" /\ client'.told = told /\ client'.kind = client.kind
      /\ client'.who = client.who /\ client'.days = client.days /\ client'.since = client.since
  BY <1>1, <1>2, <1>4 DEF Feed
<1>7. (Listed' <=> Listed) /\ (Fresh' <=> Fresh)
  BY <1>1, <1>6 DEF Listed, Fresh
<1>8. ReadSoFar'
  BY <1>1, <1>2, <1>3, <1>6, <1>7 DEF ReadSoFar, ListSoFar
<1>9. \A d : ToldOf(d)' = ToldOf(d)
  BY <1>1, <1>6, SameTold
<1>10. FeedTellsDuty'
  BY <1>1, <1>4, <1>5, <1>6, <1>9 DEF FeedTellsDuty, OneLineEach, Fresh
<1> QED
  BY <1>8, <1>10

-----------------------------------------------------------------------------
(* The meetings. *)

\* What a feed of meetings keeps while it is made.
LEMMA MeetingsStand ==
  ASSUME FeedInv, client # NoFeed, ~Listed
  PROVE  /\ ReadSoFar /\ MeetingsSoFar /\ client \in Feed
         /\ client.days \subseteq RotaDays /\ client.left \subseteq client.days
BY DEF FeedInv, ReadSoFar, MeetingsSoFar, Feed

\* The day at work.
LEMMA MeetingDay ==
  ASSUME FeedAssumption, NEW days, days \subseteq RotaDays, days # {}
  PROVE  Min(days) \in days
<1>1. days \subseteq 1..LastDay /\ LastDay \in Nat
  BY DEF FeedAssumption
<1>2. IsFiniteSet(1..LastDay)
  BY <1>1, FS_Interval
<1>f. IsFiniteSet(days)
  BY <1>1, <1>2, FS_Subset
<1>3. days \in SUBSET Nat
  BY <1>1
<1> QED
  BY <1>f, <1>3, FiniteSetHasMin

\* A step that writes nothing yet.
LEMMA MeetingGoesOn ==
  ASSUME FeedInv, client # NoFeed, ~Listed, UNCHANGED <<hats, crew, leave, edits, now>>,
         NEW at \in {"leave", "support", "answer"}, NEW named \in SUBSET Crew,
         client' = [client EXCEPT !.at = at, !.named = named],
         client.left = {} <=> at = "answer",
         Fresh /\ at = "leave" => named = GetActiveTeamMembers,
         Fresh /\ at = "support" => named = {w \in Crew : Present(w, Min(client.left))}
  PROVE  ReadSoFar'
<1>1. ReadSoFar /\ MeetingsSoFar /\ client \in Feed
  BY MeetingsStand
<1>2. /\ client' \in Feed /\ client'.at = at /\ client'.named = named
      /\ client'.kind = client.kind /\ client'.days = client.days /\ client'.left = client.left
      /\ client'.form = client.form /\ client'.told = client.told /\ client'.since = client.since
  BY <1>1 DEF Feed
<1>3. ~Listed' /\ (Fresh' <=> Fresh) /\ \A d, form : Wrote(d, form)' <=> Wrote(d, form)
  BY <1>2 DEF Listed, Fresh, Wrote
<1>4. /\ \A d : Marks(d)' = Marks(d) /\ \A w : Present(w, d)' <=> Present(w, d)
      /\ GetActiveTeamMembers' = GetActiveTeamMembers
  BY SameDuty
<1>5. MeetingsSoFar'
  BY <1>1, <1>2, <1>3, <1>4 DEF MeetingsSoFar, OneLineEach
<1> QED
  BY <1>1, <1>2, <1>3, <1>5 DEF ReadSoFar

LEMMA TeamIsRead ==
  ASSUME FeedAssumption, FeedInv, getPresenceForDate
  PROVE  (client # NoFeed => ReadSoFar)' /\ FeedTellsDuty'
<1>1. /\ client.at = "list" /\ client.kind \in {"meetings", "day"}
      /\ UNCHANGED <<hats, crew, leave, edits, now>>
  BY DEF getPresenceForDate, rotaState
<1>2. client # NoFeed /\ ~Listed
  BY <1>1 DEF NoFeed, Listed
<1>3. ReadSoFar /\ MeetingsSoFar /\ client \in Feed /\ client.days \subseteq RotaDays
  BY <1>2, MeetingsStand
<1>4. CASE client.left = {}
  <2>1. client' = [client EXCEPT !.at = "answer"]
    BY <1>4 DEF getPresenceForDate
  <2>2. client' = [client EXCEPT !.at = "answer", !.named = client.named] /\ client.named \in SUBSET Crew
    BY <1>3, <2>1 DEF Feed
  <2>3. ReadSoFar'
    BY <1>1, <1>2, <1>4, <2>2, MeetingGoesOn
  <2>4. /\ client'.told = client.told /\ client'.days = client.days
        /\ client'.kind = client.kind /\ client'.since = client.since
    BY <1>3, <2>1 DEF Feed
  <2>5. OneLineEach(client.told)
    BY <1>3 DEF MeetingsSoFar
  <2>6. Fresh => client.told = UNION {ToldOf(d) : d \in client.days}
    <3>1. SUFFICES ASSUME Fresh
                   PROVE  client.told = UNION {ToldOf(d) : d \in client.days}
      OBVIOUS
    <3>2. \A d, form : Wrote(d, form) <=> d \in client.days
      BY <1>4 DEF Wrote
    <3>3. \A d \in client.days, form \in {"text", "html"}, w \in Crew \cup {NoOne} :
            [day |-> d, form |-> form, who |-> w] \in client.told <=> w \in Marks(d)
      BY <1>3, <3>1, <3>2 DEF MeetingsSoFar
    <3>4. \A d \in client.days : Marks(d) \subseteq Crew \cup {NoOne}
      BY <1>3, OnDutyIsOne DEF FeedInv
    <3>5. \A d \in client.days : ToldOf(d) =
            {[day |-> d, form |-> form, who |-> w] : form \in {"text", "html"}, w \in Marks(d)}
      BY <1>2 DEF ToldOf, Listed, Lines
    <3>6. ASSUME NEW l \in client.told
          PROVE  \E d \in client.days : l \in ToldOf(d)
      <4>1. /\ l = [day |-> l.day, form |-> l.form, who |-> l.who]
            /\ l.day \in client.days /\ l.form \in {"text", "html"} /\ l.who \in Crew \cup {NoOne}
        BY <1>3, <3>2 DEF MeetingsSoFar, Feed, Line
      <4>2. l.who \in Marks(l.day)
        BY <3>3, <4>1
      <4> QED
        BY <3>5, <4>1, <4>2
    <3>7. ASSUME NEW d \in client.days, NEW l \in ToldOf(d)
          PROVE  l \in client.told
      BY <3>3, <3>4, <3>5
    <3> QED
      BY <3>6, <3>7
  <2>7. \A d : ToldOf(d)' = ToldOf(d)
    <3>1. client'.who = client.who
      BY <1>3, <2>1 DEF Feed
    <3> QED
      BY <1>1, <2>4, <3>1, SameTold
  <2>8. FeedTellsDuty'
    BY <1>1, <2>4, <2>5, <2>6, <2>7 DEF FeedTellsDuty, OneLineEach, Fresh
  <2> QED
    BY <2>3, <2>8
<1>5. CASE client.left # {}
  <2>1. client' = [client EXCEPT !.at = "leave", !.named = GetActiveTeamMembers]
    BY <1>5 DEF getPresenceForDate
  <2>2. GetActiveTeamMembers \in SUBSET Crew
    BY DEF GetActiveTeamMembers
  <2>3. ReadSoFar'
    BY <1>1, <1>2, <1>5, <2>1, <2>2, MeetingGoesOn
  <2>4. client'.at = "leave"
    BY <1>3, <2>1 DEF Feed
  <2> QED
    BY <2>3, <2>4 DEF FeedTellsDuty
<1> QED
  BY <1>4, <1>5

LEMMA LeaveIsRead ==
  ASSUME FeedAssumption, FeedInv, leaveOnMeetingDay
  PROVE  (client # NoFeed => ReadSoFar)' /\ FeedTellsDuty'
<1> DEFINE named == {w \in client.named : <<w, Min(client.left)>> \notin leave}
<1>1. /\ client.at = "leave" /\ client' = [client EXCEPT !.at = "support", !.named = named]
      /\ UNCHANGED <<hats, crew, leave, edits, now>>
  BY DEF leaveOnMeetingDay, rotaState
<1>2. client # NoFeed /\ ~Listed
  BY <1>1 DEF NoFeed, FeedInv, ReadSoFar, ListSoFar
<1>3. MeetingsSoFar /\ client \in Feed
  BY <1>2, MeetingsStand
<1>4. named \in SUBSET Crew /\ client.left # {}
  BY <1>1, <1>3 DEF MeetingsSoFar, Feed
<1>5. Fresh => named = {w \in Crew : Present(w, Min(client.left))}
  BY <1>1, <1>3 DEF MeetingsSoFar, GetActiveTeamMembers, Present
<1> HIDE DEF named
<1>6. ReadSoFar'
  BY <1>1, <1>2, <1>4, <1>5, MeetingGoesOn
<1>7. client'.at = "support"
  BY <1>1, <1>3 DEF Feed
<1> QED
  BY <1>6, <1>7 DEF FeedTellsDuty

\* A meeting marks one of those who are present and on duty.
LEMMA TheMark ==
  ASSUME RotaSound, NEW d \in RotaDays, NEW present \in SUBSET Crew
  PROVE  /\ shuffleOrderLines(present, OnDuty(d)) \in Crew \cup {NoOne}
         /\ present = {w \in Crew : Present(w, d)} =>
              Marks(d) = {shuffleOrderLines(present, OnDuty(d))}
<1> DEFINE holders == Holders(d) \cap present
<1>1. /\ Holders(d) \subseteq Crew /\ \A v, w \in Holders(d) : v = w
  BY OnDutyIsOne
<1>2. shuffleOrderLines(present, OnDuty(d)) = IF holders = {} THEN NoOne ELSE CHOOSE w \in holders : TRUE
  BY DEF shuffleOrderLines, Holders
<1>3. holders # {} => (CHOOSE w \in holders : TRUE) \in holders
  OBVIOUS
<1>4. present = {w \in Crew : Present(w, d)} => holders = {w \in Holders(d) : Present(w, d)}
  BY <1>1
<1> QED
  BY <1>1, <1>2, <1>3, <1>4 DEF Marks

LEMMA MeetingsAreMade ==
  ASSUME FeedAssumption, FeedInv, GenerateMeetings
  PROVE  (client # NoFeed => ReadSoFar)' /\ FeedTellsDuty'
<1> DEFINE d == Min(client.left)
           f == client.form
           who == shuffleOrderLines(client.named, OnDuty(d))
           line == [day |-> d, form |-> f, who |-> who]
           left == IF f = "html" THEN client.left \ {d} ELSE client.left
           next == IF f = "text" THEN "html" ELSE "text"
<1>1. /\ client.at = "support"
      /\ client' = [client EXCEPT !.at = "list", !.told = @ \cup {line}, !.form = next, !.left = left]
      /\ UNCHANGED <<hats, crew, leave, edits, now>>
  BY DEF GenerateMeetings, rotaState
<1>2. client # NoFeed /\ ~Listed
  BY <1>1 DEF NoFeed, FeedInv, ReadSoFar, ListSoFar
<1>3. /\ ReadSoFar /\ MeetingsSoFar /\ client \in Feed
      /\ client.days \subseteq RotaDays /\ client.left \subseteq client.days
  BY <1>2, MeetingsStand
<1>4. d \in client.left
  BY <1>1, <1>3, MeetingDay DEF MeetingsSoFar
<1>5. d \in client.days /\ d \in RotaDays /\ f \in {"text", "html"} /\ client.named \in SUBSET Crew
  BY <1>3, <1>4 DEF Feed
<1>6. who \in Crew \cup {NoOne}
  BY <1>5, TheMark DEF FeedInv
<1>7. Fresh => Marks(d) = {who}
  BY <1>1, <1>3, <1>5, TheMark DEF FeedInv, MeetingsSoFar
<1>8. line \in Line
  BY <1>5, <1>6 DEF Line
<1>n. line.day = d /\ line.form = f /\ line.who = who /\ next \in {"text", "html"}
  BY <1>5
<1> HIDE DEF who
<1>9. /\ client' \in Feed /\ client'.at = "list" /\ client'.told = client.told \cup {line}
      /\ client'.form = next /\ client'.left = left
      /\ client'.kind = client.kind /\ client'.days = client.days /\ client'.since = client.since
  <2>1. client.told \cup {line} \subseteq Line
    BY <1>3, <1>8 DEF Feed
  <2>2. left \subseteq RotaDays
    BY <1>3
  <2> HIDE DEF line, left, next
  <2> QED
    BY <1>1, <1>3, <1>n, <2>1, <2>2 DEF Feed
<1>10. \A e, form : Wrote(e, form) /\ form \in {"text", "html"} => ~(e = d /\ form = f)
  BY <1>4 DEF Wrote
<1>11. \A e \in client.days, form \in {"text", "html"} :
         Wrote(e, form)' <=> Wrote(e, form) \/ (e = d /\ form = f)
  <2>1. CASE f = "text"
    BY <1>4, <1>5, <1>9, <2>1 DEF Wrote
  <2>2. CASE f = "html"
    BY <1>4, <1>5, <1>9, <2>2 DEF Wrote
  <2> QED
    BY <1>5, <2>1, <2>2
<1> HIDE DEF line, left, next
<1>12. ~Listed' /\ (Fresh' <=> Fresh) /\ \A e : Marks(e)' = Marks(e)
  BY <1>1, <1>2, <1>9, SameDuty DEF Listed, Fresh
<1>13. \A l \in client.told : /\ l.day \in client.days /\ l.form \in {"text", "html"}
                              /\ Wrote(l.day, l.form)
  <2>1. \A l \in client.told : l.form # "event" /\ Wrote(l.day, l.form) /\ l \in Line
    BY <1>3 DEF MeetingsSoFar, Feed
  <2>2. \A e, form : Wrote(e, form) => e \in client.days
    BY <1>3, <1>4 DEF Wrote
  <2> QED
    BY <2>1, <2>2 DEF Line
<1>14. OneLineEach(client.told)'
  <2>1. OneLineEach(client.told)
    BY <1>3 DEF MeetingsSoFar
  <2>2. \A l \in client.told : ~(l.day = line.day /\ l.form = line.form)
    BY <1>10, <1>13, <1>n
  <2> QED
    BY <1>9, <2>1, <2>2 DEF OneLineEach
<1>15. \A l \in client'.told : l.form # "event" /\ Wrote(l.day, l.form)'
  BY <1>5, <1>9, <1>11, <1>13, <1>n
<1>16. ASSUME Fresh, NEW e \in client.days, NEW form \in {"text", "html"}, Wrote(e, form)',
              NEW w \in Crew \cup {NoOne}
       PROVE  [day |-> e, form |-> form, who |-> w] \in client'.told <=> w \in Marks(e)
  <2>1. CASE Wrote(e, form)
    <3>1. [day |-> e, form |-> form, who |-> w] # line
      BY <1>10, <1>n, <2>1
    <3>2. [day |-> e, form |-> form, who |-> w] \in client.told <=> w \in Marks(e)
      BY <1>3, <1>16, <2>1 DEF MeetingsSoFar
    <3> QED
      BY <1>9, <3>1, <3>2
  <2>2. CASE e = d /\ form = f
    <3>1. [day |-> e, form |-> form, who |-> w] = line <=> w = who
      BY <2>2 DEF line
    <3>2. [day |-> e, form |-> form, who |-> w] \notin client.told
      BY <1>10, <1>13, <2>2
    <3> QED
      BY <1>7, <1>9, <1>16, <2>2, <3>1, <3>2
  <2> QED
    BY <1>11, <1>16, <2>1, <2>2
<1>17. left \subseteq client.days /\ (next = "html" => left # {})
  BY <1>3, <1>4 DEF left, next
<1>18. MeetingsSoFar'
  BY <1>9, <1>12, <1>14, <1>15, <1>16, <1>17 DEF MeetingsSoFar
<1>19. ReadSoFar'
  BY <1>1, <1>3, <1>9, <1>12, <1>18 DEF ReadSoFar
<1> QED
  BY <1>9, <1>19 DEF FeedTellsDuty

LEMMA FeedInvIsInductive ==
  ASSUME FeedAssumption, FeedInv, [FeedNext]_feedVars
  PROVE  FeedInv'
<1> USE DEF FeedInv
<1>1. RotaSound'
  BY RotaGoesOn
<1>2. (client # NoFeed => ReadSoFar)' /\ FeedTellsDuty'
  <2>1. CASE UNCHANGED client
    BY <2>1, WaitingFeed
  <2>2. CASE ClientStep
    <3>1. CASE handleCalendarICS \/ handleTeamCalendarICS \/ handleMeetingsCalendarICS
      <4>1. BeforeTheEnd \in SUBSET RotaDays /\ ToTheEnd \in SUBSET RotaDays
        BY DEF BeforeTheEnd, ToTheEnd
      <4> QED
        BY <3>1, <4>1, NewFeed DEF handleCalendarICS, handleTeamCalendarICS, handleMeetingsCalendarICS
    <3>2. CASE handleMeetingsDayHTML
      <4>1. PICK d \in RotaDays : RequestFeed("day", {d})
        BY <3>2 DEF handleMeetingsDayHTML
      <4> QED
        BY <4>1, NewFeed
    <3>3. CASE Touch \/ FeedFails
      BY <3>3 DEF Touch, FeedFails, FeedTellsDuty, NoFeed
    <3> QED
      BY <2>2, <3>1, <3>2, <3>3, ListIsRead, ListIsAnswered, NamesAreRead, TeamIsRead,
         LeaveIsRead, MeetingsAreMade DEF ClientStep
  <2> QED
    BY <2>1, <2>2, FeedSteps DEF feedVars
<1>3. FeedTypeOK'
  <2>1. (client.at \in {"none", "list", "covered", "names", "leave", "support", "answer"})'
    BY <1>2 DEF ReadSoFar, Feed, NoFeed
  <2> QED
    BY <1>1, <2>1, FeedTypesKept DEF FeedTypeOK, Row
<1> QED
  BY <1>1, <1>2, <1>3

LEMMA FeedInvInitially ==
  ASSUME FeedAssumption, FeedInit
  PROVE  FeedInv
<1>1. PICK holder \in [RotaDays -> Crew] :
        hats = {[id |-> d, day |-> d, who |-> holder[d], cover |-> FALSE, of |-> 0] : d \in RotaDays}
  BY DEF FeedInit
<1>2. \A r \in hats : /\ r.id = r.day /\ r.day \in RotaDays /\ r.who = holder[r.day]
                      /\ r.cover = FALSE /\ r.of = 0
                      /\ r = [id |-> r.day, day |-> r.day, who |-> holder[r.day], cover |-> FALSE, of |-> 0]
  BY <1>1
<1>3. /\ LastDay \in Nat /\ LastDay > 0 /\ MaxRows \in Nat /\ MaxRows >= LastDay /\ MaxEdits \in Nat
      /\ MaxSubscriptions \in Nat /\ RotaDays \subseteq 1..LastDay
  BY DEF FeedAssumption
<1>4. hats \subseteq Row
  <2>1. \A d \in RotaDays : d \in 1..MaxRows /\ 0 \in 0..MaxRows
    BY <1>3
  <2>2. ASSUME NEW d \in RotaDays
        PROVE  [id |-> d, day |-> d, who |-> holder[d], cover |-> FALSE, of |-> 0] \in Row
    BY <2>1 DEF Row
  <2> QED
    BY <1>1, <2>2
<1>5. WellPaired(hats) /\ \A r, s \in hats : r.id = s.id => r = s
  BY <1>2 DEF WellPaired
<1>6. RotaSound
  BY <1>2, <1>3, <1>4, <1>5 DEF FeedInit, RotaSound
<1>7. client = NoFeed
  BY DEF FeedInit
<1>8. FeedTypeOK
  BY <1>3, <1>4, <1>7 DEF FeedInit, FeedTypeOK, Row, NoFeed
<1>9. FeedTellsDuty
  BY <1>7 DEF FeedTellsDuty, NoFeed
<1> QED
  BY <1>6, <1>7, <1>8, <1>9 DEF FeedInv

(* The calendar feed reflects who is actually on duty, for every team,     *)
(* calendar and number of changes: no feed names two people for one day in *)
(* one place, whatever happens between its queries (calendar/ical.go,      *)
(* suppressCoveredOriginals), and one that nothing has overtaken has just  *)
(* the days of whoever is on duty, and in both texts of a meeting the mark *)
(* of the hat just where the holder is there (meetings.go).                *)
THEOREM FeedsTellDuty == FeedSpec => []FeedTellsDuty
<1>1. FeedInit => FeedInv
  BY FeedInvInitially, FeedAssumption
<1>2. FeedInv /\ [FeedNext]_feedVars => FeedInv'
  BY FeedInvIsInductive, FeedAssumption
<1>3. FeedInv => FeedTellsDuty
  BY DEF FeedInv
<1> QED
  BY <1>1, <1>2, <1>3, PTL DEF FeedSpec

(* The types of the tables, the tabs and the client's fetch.               *)
THEOREM FeedTypeCorrect == FeedSpec => []FeedTypeOK
<1>1. FeedInit => FeedInv
  BY FeedInvInitially, FeedAssumption
<1>2. FeedInv /\ [FeedNext]_feedVars => FeedInv'
  BY FeedInvIsInductive, FeedAssumption
<1>3. FeedInv => FeedTypeOK
  BY DEF FeedInv
<1> QED
  BY <1>1, <1>2, <1>3, PTL DEF FeedSpec
-----------------------------------------------------------------------------
(* Presence *)

\* What the pages can see of a day.  A contract that becomes a row changes none of it.
Seen(members, off, rows, duty) ==
  LET approved == {m \in members : rows[m] \in {"approved", "assigned"}}
  IN [team |-> members, leave |-> off, hat |-> duty,
      home |-> approved \cup {m \in members \cap Contract : rows[m] = "none"},
      out |-> approved \cup (members \cap Contract)]

View == Seen(roster, onLeave, wfhRow, hat)

Views == [team : SUBSET Colleagues, leave : SUBSET Colleagues, hat : Hats,
          home : SUBSET Colleagues, out : SUBSET Colleagues]

Sensible(v) == v \in Views /\ v.home \subseteq v.out /\ v.out \ v.home \subseteq Contract

\* Where a page is, and further on.
FromHome == {"rows", "done"}
FromAbsent == {"absent"} \cup FromHome
FromMark == {"assigned"} \cup FromAbsent
FromTeam == {"team"} \cup FromMark
FromOnCall == {"onCall"} \cup FromTeam
FromBanner == {"banner"} \cup FromOnCall
FromEnsure == {"ensure"} \cup FromBanner
FromStatus == {"status"} \cup FromEnsure
FromButton == {"button"} \cup FromStatus
FromBadge == {"badge"} \cup FromButton

Marked(v) == IF v.hat.cover \in v.team THEN v.hat.cover
             ELSE IF v.hat.primary \in v.team THEN v.hat.primary ELSE Nobody

PartOf(page) ==
  /\ page.absent \cup page.atHome \cup page.onSite = page.team
  /\ page.onSite \cap (page.absent \cup page.atHome) = {}

\* What each page has put together so far, in any case ...
DashboardShape(d, asOf) ==
  /\ d.at \in {"idle"} \cup FromBadge /\ "at" \in DOMAIN d
  /\ d.at \in FromBadge =>
       /\ {"user", "away", "since", "opened", "failed"} \subseteq DOMAIN d
       /\ d.user \in Colleagues \cup {Nobody} /\ d.since \in Nat /\ d.opened \in Nat
       /\ d.opened <= d.since /\ d.since <= asOf
  /\ d.at \in FromBadge /\ d.at # "done" => HasMatrix(d)
  /\ d.at \in FromButton => "duty" \in DOMAIN d
  /\ d.at \in FromStatus => "canSignal" \in DOMAIN d
  /\ d.at \in FromEnsure => "status" \in DOMAIN d
  /\ d.at \in FromOnCall => "duties" \in DOMAIN d
  /\ d.at \in FromTeam => "banner" \in DOMAIN d
  /\ d.at \in FromMark => "team" \in DOMAIN d
  /\ d.at \in FromAbsent => "assigned" \in DOMAIN d
  /\ d.at \in FromHome => "absent" \in DOMAIN d /\ d.absent \subseteq d.team
  /\ d.at = "done" =>
       /\ {"atHome", "onSite", "till"} \subseteq DOMAIN d
       /\ PartOf(d) /\ d.absent \cap d.atHome = {}
       /\ ~HasMatrix(d) => d.team = {} /\ d.onSite = {}
       /\ d.till \in Nat /\ d.since <= d.till /\ d.till <= asOf

\* ... and what it is of a day seen as v, as far as its queries did not fail.
DashboardOf(d, v) ==
  /\ d.at \in FromBadge /\ Known(d, {"leave"}) => (d.away <=> d.user \in v.leave)
  /\ d.at \in FromButton /\ d.opened = d.since /\ d.duty =>
       /\ d.user \in {v.hat.primary, v.hat.cover}
       /\ Known(d, {"leave"}) => d.user \notin v.leave
  /\ d.at \in FromStatus => (d.canSignal /\ d.user \in v.team => d.user \in v.home)
  /\ d.at \in FromEnsure /\ d.user \in v.team /\ Known(d, {"leave", "status"}) =>
       d.status = (IF d.user \in v.leave THEN "away" ELSE IF d.user \in v.home THEN "wfh" ELSE "onsite")
  /\ d.at \in FromBanner => (v.hat.linked => v.hat.primary \in v.leave)
  /\ d.at \in FromOnCall /\ Known(d, {"banner"}) => d.duties = v.hat
  /\ d.at \in FromTeam /\ Known(d, {"banner", "onCall"}) =>
       d.banner = (IF v.hat.primary \in v.leave /\ v.hat.cover # Nobody THEN v.hat.cover ELSE v.hat.primary)
  /\ HasMatrix(d) =>
       /\ d.at \in FromMark => d.team = v.team
       /\ d.at \in FromAbsent /\ Known(d, {"assigned"}) => d.assigned = Marked(v)
       /\ d.at \in FromHome => d.absent = v.leave \cap v.team
       /\ d.at = "done" => /\ d.atHome = (v.team \ v.leave) \cap v.home
                           /\ d.onSite = (v.team \ v.leave) \ v.home

CalendarShape(c, asOf) ==
  /\ c.at \in {"idle", "pick", "active", "leave", "rows", "hat", "done"} /\ "at" \in DOMAIN c
  /\ c.at # "idle" => "since" \in DOMAIN c /\ c.since \in Nat /\ c.since <= asOf
  /\ c.at \in {"leave", "rows", "hat", "done"} => "team" \in DOMAIN c
  /\ c.at \in {"rows", "hat", "done"} => "absent" \in DOMAIN c
  /\ c.at \in {"hat", "done"} =>
       {"atHome", "onSite"} \subseteq DOMAIN c /\ PartOf(c) /\ c.absent \cap c.atHome = {}
  /\ c.at = "done" =>
       {"assigned", "till"} \subseteq DOMAIN c /\ c.till \in Nat /\ c.since <= c.till /\ c.till <= asOf

CalendarOf(c, v) ==
  /\ c.at \in {"leave", "rows", "hat", "done"} => c.team = v.team
  /\ c.at = "rows" => c.absent = v.leave
  /\ c.at \in {"hat", "done"} =>
       /\ c.absent = v.leave \cap v.team
       /\ c.atHome = (v.team \ v.leave) \cap v.home /\ c.onSite = (v.team \ v.leave) \ v.home
  /\ c.at = "done" => c.assigned = (IF v.hat.cover # Nobody THEN v.hat.cover ELSE v.hat.primary)

ApiShape(s, asOf) ==
  /\ s.at \in {"idle", "leave", "rows", "hat", "done"} /\ "at" \in DOMAIN s
  /\ s.at # "idle" => {"team", "since"} \subseteq DOMAIN s /\ s.since \in Nat /\ s.since <= asOf
  /\ s.at \in {"rows", "hat", "done"} => "absent" \in DOMAIN s /\ s.absent \subseteq s.team
  /\ s.at \in {"hat", "done"} => {"atHome", "onSite"} \subseteq DOMAIN s /\ PartOf(s)
  /\ s.at = "done" =>
       {"assigned", "till"} \subseteq DOMAIN s /\ s.till \in Nat /\ s.since <= s.till /\ s.till <= asOf

ApiOf(s, v) ==
  /\ s.at # "idle" => s.team = v.team
  /\ s.at \in {"rows", "hat", "done"} => s.absent = v.leave \cap v.team
  /\ s.at \in {"hat", "done"} => s.onSite = (v.team \ v.leave) \ v.out
  /\ s.at = "done" => s.assigned = Marked(v)

ShapeOf(p, page, asOf) ==
  /\ p = "dashboard" => DashboardShape(page, asOf)
  /\ p = "calendar" => CalendarShape(page, asOf)
  /\ p = "api" => ApiShape(page, asOf)

Shapes == \A p \in Pages : ShapeOf(p, shown[p], news)

PageOf(p, page, v) ==
  /\ p = "dashboard" => DashboardOf(page, v)
  /\ p = "calendar" => CalendarOf(page, v)
  /\ p = "api" => ApiOf(page, v)

\* A page on the way that nothing has happened to.
Current(p) == shown[p].at \notin {"idle", "done"} /\ shown[p].since = news

NoneLeft == \A m \in Contract \cap roster : wfhRow[m] # "none"

\* The calendar has put the contracts into rows and not yet read them.
Filled(page) == page.at \in {"pick", "active", "leave", "rows"}

PresenceTypes ==
  /\ roster \subseteq Colleagues /\ onLeave \subseteq Colleagues
  /\ wfhRow \in [Colleagues -> RowStates] /\ hat \in Hats
  /\ news \in Nat /\ DOMAIN shown = Pages

\* The days that there have been, by their news; a finished page is of one of them.
Remembered(past) ==
  /\ past \in [Nat -> Views] /\ \A n \in Nat : Sensible(past[n])
  /\ past[news] = View
  /\ \A p \in Pages : Undisturbed(p) => PageOf(p, shown[p], past[shown[p].till])

PresenceInv ==
  /\ PresenceTypes /\ Shapes
  /\ \A p \in Pages : Current(p) => PageOf(p, shown[p], View)
  /\ Current("calendar") /\ Filled(shown["calendar"]) => NoneLeft
  /\ \E past : Remembered(past)

-----------------------------------------------------------------------------
(* Pages that are finished agree. *)

LEMMA RememberedPagesAgree ==
  ASSUME PresenceAssumption, PresenceInv
  PROVE  PagesAgree
<1> DEFINE d == shown["dashboard"]
           c == shown["calendar"]
           api == shown["api"]
<1>1. PICK past : Remembered(past)
  BY DEF PresenceInv
<1>2. \A h \in Hats : /\ h.primary \in Colleagues \cup {Nobody} /\ h.cover \in Colleagues \cup {Nobody}
                      /\ h.linked \in BOOLEAN /\ (h.linked => h.primary # Nobody /\ h.cover # Nobody)
  BY DEF Hats
<1>3. Nobody \notin Colleagues
  BY DEF PresenceAssumption
<1>4. ASSUME NEW p \in Pages, Undisturbed(p)
      PROVE  /\ shown[p].till \in Nat /\ Sensible(past[shown[p].till])
             /\ PageOf(p, shown[p], past[shown[p].till])
  <2>1. shown[p].till \in Nat
    BY <1>4 DEF PresenceInv, Shapes, ShapeOf, DashboardShape, CalendarShape, ApiShape, Undisturbed, Done, Pages
  <2> QED
    BY <1>1, <1>4, <2>1 DEF Remembered
<1>5. ASSUME NEW p \in Pages, Done(p)
      PROVE  PartOf(shown[p]) /\ (p # "api" => shown[p].absent \cap shown[p].atHome = {})
  BY <1>5 DEF PresenceInv, Shapes, ShapeOf, DashboardShape, CalendarShape, ApiShape, Done, Pages
<1>6. \A p \in Pages : Done(p) =>
        /\ shown[p].absent \cup shown[p].atHome \cup shown[p].onSite = shown[p].team
        /\ shown[p].onSite \cap (shown[p].absent \cup shown[p].atHome) = {}
        /\ p # "api" => shown[p].absent \cap shown[p].atHome = {}
  BY <1>5 DEF PartOf
<1>7. ASSUME Undisturbed("dashboard")
      PROVE  DashboardIsConsistent(d)
  <2> DEFINE v == past[d.till]
  <2>1. Sensible(v) /\ DashboardOf(d, v)
    BY <1>4, <1>7 DEF PageOf, Pages
  <2> HIDE DEF v
  <2>2. /\ d.at = "done" /\ d.since = d.till
        /\ ~HasMatrix(d) => d.team = {} /\ d.onSite = {}
    <3>1. d.at = "done" /\ d.since = d.till
      BY <1>7 DEF Undisturbed, Done
    <3>2. DashboardShape(d, news)
      BY DEF PresenceInv, Shapes, ShapeOf, Pages
    <3> QED
      BY <3>1, <3>2 DEF DashboardShape
  <2>3. /\ d.opened = d.since /\ d.duty =>
             /\ d.user \in {v.hat.primary, v.hat.cover}
             /\ Known(d, {"leave"}) => d.user \notin v.leave
        /\ d.canSignal /\ d.user \in v.team => d.user \in v.home
        /\ d.user \in v.team /\ Known(d, {"leave", "status"}) =>
             d.status = (IF d.user \in v.leave THEN "away" ELSE IF d.user \in v.home THEN "wfh" ELSE "onsite")
        /\ v.hat.linked => v.hat.primary \in v.leave
        /\ Known(d, {"banner"}) => d.duties = v.hat
        /\ Known(d, {"banner", "onCall"}) =>
             d.banner = (IF v.hat.primary \in v.leave /\ v.hat.cover # Nobody THEN v.hat.cover ELSE v.hat.primary)
        /\ HasMatrix(d) =>
             /\ d.team = v.team /\ d.absent = v.leave \cap v.team
             /\ Known(d, {"assigned"}) => d.assigned = Marked(v)
             /\ d.atHome = (v.team \ v.leave) \cap v.home /\ d.onSite = (v.team \ v.leave) \ v.home
    BY <2>1, <2>2 DEF DashboardOf, FromBadge, FromButton,
         FromStatus, FromEnsure, FromBanner, FromOnCall, FromTeam, FromMark, FromAbsent, FromHome
  <2>4. v.hat \in Hats /\ v.team \subseteq Colleagues
    BY <2>1 DEF Sensible, Views
  <2>5. d.user \in d.team /\ Known(d, {"leave", "status"}) => d.status = cell(d, d.user)
    BY <2>2, <2>3 DEF cell
  <2>6. d.canSignal => d.user \notin d.onSite
    BY <2>2, <2>3
  <2>7. Known(d, {"banner", "assigned"}) /\ (d.duties.cover # Nobody => d.duties.linked) =>
          /\ d.banner \in d.team /\ Known(d, {"onCall"}) => d.banner = d.assigned
          /\ d.duty /\ d.user \in d.team /\ d.opened = d.till /\ Known(d, {"leave"}) =>
               d.user = d.assigned
    <3>1. SUFFICES ASSUME HasMatrix(d), Known(d, {"banner"}), Known(d, {"assigned"}),
                          v.hat.cover # Nobody => v.hat.linked
                   PROVE  /\ d.banner \in d.team /\ Known(d, {"onCall"}) => d.banner = d.assigned
                          /\ d.duty /\ d.user \in d.team /\ d.opened = d.till /\ Known(d, {"leave"}) =>
                               d.user = d.assigned
      BY <2>2, <2>3 DEF Known
    <3>2. /\ d.team = v.team /\ d.assigned = Marked(v)
          /\ d.duty /\ d.opened = d.till =>
               /\ d.user \in {v.hat.primary, v.hat.cover}
               /\ Known(d, {"leave"}) => d.user \notin v.leave
          /\ Known(d, {"onCall"}) =>
               d.banner = (IF v.hat.primary \in v.leave /\ v.hat.cover # Nobody THEN v.hat.cover
                           ELSE v.hat.primary)
      BY <2>2, <2>3, <3>1 DEF Known
    <3>3. CASE v.hat.cover = Nobody
      <4>1. v.hat.cover \notin v.team
        BY <1>3, <2>4, <3>3
      <4> QED
        BY <1>3, <2>4, <3>2, <3>3, <4>1 DEF Marked
    <3>4. CASE v.hat.cover # Nobody
      <4>1. v.hat.primary \in v.leave
        BY <2>3, <3>1, <3>4
      <4> QED
        BY <3>2, <3>4, <4>1 DEF Marked
    <3> QED
      BY <3>3, <3>4
  <2> QED
    BY <2>5, <2>6, <2>7 DEF DashboardIsConsistent
<1>8. ASSUME SameDay("dashboard", "calendar"), HasMatrix(d)
      PROVE  /\ <<d.absent, d.atHome, d.onSite>> = <<c.absent, c.atHome, c.onSite>>
             /\ c.assigned \in c.team /\ Known(d, {"assigned"}) => c.assigned = d.assigned
  <2> DEFINE v == past[d.till]
  <2>1. d.till = c.till /\ d.at = "done" /\ c.at = "done"
    BY <1>8 DEF SameDay, Undisturbed, Done
  <2>2. Sensible(v) /\ DashboardOf(d, v) /\ CalendarOf(c, v)
    BY <1>4, <1>8, <2>1 DEF PageOf, SameDay, Pages
  <2> HIDE DEF v
  <2>3. /\ d.absent = c.absent /\ d.atHome = c.atHome /\ d.onSite = c.onSite
        /\ (Known(d, {"assigned"}) => d.assigned = Marked(v)) /\ c.team = v.team
        /\ c.assigned = (IF v.hat.cover # Nobody THEN v.hat.cover ELSE v.hat.primary)
    BY <1>8, <2>1, <2>2 DEF DashboardOf, CalendarOf, FromMark, FromAbsent, FromHome
  <2>4. v.team \subseteq Colleagues
    BY <2>2 DEF Sensible, Views
  <2>5. c.assigned \in c.team /\ Known(d, {"assigned"}) => c.assigned = d.assigned
    BY <1>3, <2>3, <2>4 DEF Marked
  <2> QED
    BY <2>3, <2>5
<1>9. ASSUME SameDay("dashboard", "api"), HasMatrix(d)
      PROVE  /\ api.absent = d.absent /\ (Known(d, {"assigned"}) => api.assigned = d.assigned)
             /\ api.onSite \subseteq d.onSite /\ d.onSite \ api.onSite \subseteq Contract
  <2> DEFINE v == past[d.till]
  <2>1. d.till = api.till /\ d.at = "done" /\ api.at = "done"
    BY <1>9 DEF SameDay, Undisturbed, Done
  <2>2. Sensible(v) /\ DashboardOf(d, v) /\ ApiOf(api, v)
    BY <1>4, <1>9, <2>1 DEF PageOf, SameDay, Pages
  <2> HIDE DEF v
  <2>3. /\ d.absent = api.absent /\ (Known(d, {"assigned"}) => d.assigned = api.assigned)
        /\ d.onSite = (v.team \ v.leave) \ v.home /\ api.onSite = (v.team \ v.leave) \ v.out
    BY <1>9, <2>1, <2>2 DEF DashboardOf, ApiOf, FromMark, FromAbsent, FromHome
  <2> QED
    BY <2>2, <2>3 DEF Sensible
<1> QED
  BY <1>6, <1>7, <1>8, <1>9 DEF PagesAgree

-----------------------------------------------------------------------------
(* One page goes on. *)

LEMMA Overlaid ==
  ASSUME NEW f, NEW g
  PROVE  /\ DOMAIN Over(f, g) = DOMAIN f \cup DOMAIN g
         /\ \A k \in DOMAIN f : Over(f, g)[k] = f[k]
         /\ \A k \in DOMAIN g \ DOMAIN f : Over(f, g)[k] = g[k]
BY DEF Over

(* What a query adds to its page, and what it leaves there.                *)
LEMMA PageMoves ==
  ASSUME PresenceTypes, NEW p \in Pages, NEW here, NEW next, NEW found, Reads(p, here, next, found)
  PROVE  /\ shown[p].at = here /\ DOMAIN shown' = Pages
         /\ \A q \in Pages \ {p} : shown'[q] = shown[q]
         /\ DOMAIN shown'[p] = {"at"} \cup DOMAIN found \cup DOMAIN shown[p]
         /\ shown'[p].at = next
         /\ \A k \in DOMAIN found \ {"at"} : shown'[p][k] = found[k]
         /\ \A k \in DOMAIN shown[p] \ ({"at"} \cup DOMAIN found) : shown'[p][k] = shown[p][k]
<1>1. DOMAIN shown = Pages
  BY DEF PresenceTypes
<1> DEFINE top == [at |-> next]
           new == Over(found, shown[p])
<1>2. shown' = [shown EXCEPT ![p] = Over(top, new)]
  BY DEF Reads
<1>3. shown'[p] = Over(top, new)
  BY <1>1, <1>2
<1>4. DOMAIN shown' = Pages /\ \A q \in Pages \ {p} : shown'[q] = shown[q]
  BY <1>1, <1>2
<1>5. DOMAIN top = {"at"} /\ top["at"] = next
  OBVIOUS
<1> HIDE DEF top
<1>6. /\ DOMAIN new = DOMAIN found \cup DOMAIN shown[p]
      /\ \A k \in DOMAIN found : new[k] = found[k]
      /\ \A k \in DOMAIN shown[p] \ DOMAIN found : new[k] = shown[p][k]
  BY Overlaid
<1> HIDE DEF new
<1>7. /\ DOMAIN Over(top, new) = {"at"} \cup DOMAIN new
      /\ Over(top, new)["at"] = next
      /\ \A k \in DOMAIN new \ {"at"} : Over(top, new)[k] = new[k]
  <2>1. /\ DOMAIN Over(top, new) = DOMAIN top \cup DOMAIN new
        /\ \A k \in DOMAIN top : Over(top, new)[k] = top[k]
        /\ \A k \in DOMAIN new \ DOMAIN top : Over(top, new)[k] = new[k]
    BY Overlaid
  <2> QED
    BY <1>5, <2>1
<1>8. shown'[p]["at"] = next
  BY <1>3, <1>7
<1>9. DOMAIN shown'[p] = {"at"} \cup DOMAIN found \cup DOMAIN shown[p]
  BY <1>3, <1>6, <1>7
<1>10. \A k \in DOMAIN found \ {"at"} : shown'[p][k] = found[k]
  BY <1>3, <1>6, <1>7
<1>11. \A k \in DOMAIN shown[p] \ ({"at"} \cup DOMAIN found) : shown'[p][k] = shown[p][k]
  BY <1>3, <1>6, <1>7
<1> QED
  BY <1>4, <1>8, <1>9, <1>10, <1>11 DEF Reads

-----------------------------------------------------------------------------
(* The day goes on. *)

LEMMA SeenIsSensible ==
  ASSUME PresenceAssumption, NEW members \in SUBSET Colleagues, NEW off \in SUBSET Colleagues,
         NEW rows, NEW duty \in Hats
  PROVE  Sensible(Seen(members, off, rows, duty))
BY DEF PresenceAssumption, Seen, Views, Sensible

LEMMA ContractsAreSeen ==
  ASSUME PresenceAssumption, PresenceTypes, materializeRecurring
  PROVE  /\ wfhRow' \in [Colleagues -> RowStates] /\ View' = View /\ NoneLeft'
         /\ UNCHANGED <<roster, onLeave, hat, news>>
<1>1. /\ UNCHANGED <<roster, onLeave, hat, news>>
      /\ wfhRow' = [m \in Colleagues |-> IF m \in Contract \cap roster /\ wfhRow[m] = "none"
                                         THEN "approved" ELSE wfhRow[m]]
  BY DEF materializeRecurring
<1>2. roster \subseteq Colleagues /\ wfhRow \in [Colleagues -> RowStates]
  BY DEF PresenceTypes
<1>3. wfhRow' \in [Colleagues -> RowStates]
  BY <1>1, <1>2 DEF RowStates
<1>4. \A m \in Contract \cap roster : wfhRow'[m] # "none"
  BY <1>1, <1>2
<1>5. \A m \in roster : wfhRow'[m] \in {"approved", "assigned"}
                          <=> \/ wfhRow[m] \in {"approved", "assigned"}
                              \/ m \in Contract /\ wfhRow[m] = "none"
  BY <1>1, <1>2
<1> DEFINE sent(rows) == {m \in roster : rows[m] \in {"approved", "assigned"}}
           none(rows) == {m \in roster \cap Contract : rows[m] = "none"}
<1>6. sent(wfhRow') \cup none(wfhRow') = sent(wfhRow) \cup none(wfhRow)
  BY <1>4, <1>5
<1>7. sent(wfhRow') \cup (roster \cap Contract) = sent(wfhRow) \cup (roster \cap Contract)
  BY <1>5
<1>8. View' = View
  BY <1>1, <1>6, <1>7 DEF View, Seen
<1> QED
  BY <1>1, <1>3, <1>4, <1>8 DEF NoneLeft

(* News are numbered, and between two of them what can be seen of the day  *)
(* stays as it is.                                                         *)
LEMMA DayGoesOn ==
  ASSUME PresenceAssumption, PresenceTypes, [PresenceNext]_presenceVars
  PROVE  /\ roster' \subseteq Colleagues /\ onLeave' \subseteq Colleagues
         /\ wfhRow' \in [Colleagues -> RowStates] /\ hat' \in Hats /\ news' \in Nat
         /\ news <= news'
         /\ news' = news => View' = View /\ (NoneLeft => NoneLeft')
<1>0. /\ roster \subseteq Colleagues /\ onLeave \subseteq Colleagues
      /\ wfhRow \in [Colleagues -> RowStates] /\ hat \in Hats /\ news \in Nat
  BY DEF PresenceTypes
<1>1. CASE UNCHANGED worldVars
  <2>1. UNCHANGED <<roster, onLeave, wfhRow, hat, news>>
    BY <1>1 DEF worldVars
  <2> QED
    BY <1>0, <2>1 DEF View, NoneLeft
<1>2. CASE EnsureSchedule
  <2>1. PICK h \in reconcileCovers(hat) : hat' \in GenerateMissingDays(h)
    BY <1>2 DEF EnsureSchedule
  <2>2. h \in Hats
    BY <1>0 DEF reconcileCovers, Hats
  <2>3. hat' \in Hats
    BY <2>1, <2>2 DEF GenerateMissingDays
  <2>4. UNCHANGED <<roster, onLeave, wfhRow>> /\ news' = (IF hat' = hat THEN news ELSE news + 1)
    BY <1>2 DEF EnsureSchedule
  <2>5. news' \in Nat /\ news <= news' /\ (news' = news => hat' = hat)
    BY <1>0, <2>4
  <2>6. news' = news => View' = View /\ (NoneLeft => NoneLeft')
    BY <2>4, <2>5 DEF View, NoneLeft
  <2> QED
    BY <1>0, <2>3, <2>4, <2>5, <2>6
<1>3. CASE materializeRecurring
  BY <1>0, <1>3, ContractsAreSeen
<1>4. CASE RefreshFor
  <2>1. PICK picks \in SUBSET {m \in roster \ onLeave : wfhRow[m] = "none"} :
          /\ wfhRow' = [m \in Colleagues |-> IF m \in picks THEN "assigned" ELSE wfhRow[m]]
          /\ news' = IF picks = {} THEN news ELSE news + 1
    BY <1>4 DEF RefreshFor
  <2>2. UNCHANGED <<roster, onLeave, hat>>
    BY <1>4 DEF RefreshFor
  <2>3. wfhRow' \in [Colleagues -> RowStates]
    BY <1>0, <2>1 DEF RowStates
  <2>4. news' \in Nat /\ news <= news' /\ (news' = news => picks = {})
    BY <1>0, <2>1
  <2>5. picks = {} => wfhRow' = wfhRow
    BY <1>0, <2>1
  <2>6. news' = news => View' = View /\ (NoneLeft => NoneLeft')
    BY <2>2, <2>4, <2>5 DEF View, NoneLeft
  <2> QED
    BY <1>0, <2>2, <2>3, <2>4, <2>6
<1>5. CASE News
  <2>1. news' = news + 1
    BY <1>5 DEF News
  <2>2. roster' \subseteq Colleagues /\ onLeave' \subseteq Colleagues
    BY <1>0, <1>5 DEF News
  <2>3. wfhRow' \in [Colleagues -> RowStates]
    BY <1>0, <1>5 DEF News
  <2>4. hat' \in Hats
    BY <1>0, <1>5 DEF News, Hats
  <2> QED
    BY <1>0, <2>1, <2>2, <2>3, <2>4
<1> QED
  BY <1>1, <1>2, <1>3, <1>4, <1>5
  DEF PresenceNext, presenceVars, worldVars, buildUserLeaveDates, noMember, HasHATDay, loadSignalOnSiteOptions,
      loadCurrentUserPresenceStatus, loadCurrentHAT, isPrimaryOnLeaveToday, getUpcomingPresenceFrom,
      getAssignedMember, GetLeaveByDate, buildPresenceList, loadActive, loadLeave, splitActiveByFlags,
      getHATForDate, handleGetPresenceToday, apiLeave, buildPresenceListsWithWFH, selectSupportMember

-----------------------------------------------------------------------------
(* The pages that wait, and the one that goes on. *)

(* A page that has its parts keeps them, whatever happens elsewhere.       *)
LEMMA ShapesLast ==
  ASSUME NEW p \in Pages, NEW page, NEW asOf \in Nat, NEW later \in Nat, asOf <= later,
         ShapeOf(p, page, asOf)
  PROVE  ShapeOf(p, page, later)
<1>1. p = "dashboard" => DashboardShape(page, later)
  BY DEF ShapeOf, DashboardShape
<1>2. p = "calendar" => CalendarShape(page, later)
  BY DEF ShapeOf, CalendarShape
<1>3. p = "api" => ApiShape(page, later)
  BY DEF ShapeOf, ApiShape
<1> QED
  BY <1>1, <1>2, <1>3 DEF ShapeOf

LEMMA PagesHaveSeen ==
  ASSUME NEW p \in Pages, NEW page, NEW asOf \in Nat, ShapeOf(p, page, asOf)
  PROVE  /\ page.at # "idle" => page.since \in Nat /\ page.since <= asOf
         /\ page.at = "done" => page.till \in Nat /\ page.till <= asOf
<1>1. CASE p = "dashboard"
  BY <1>1 DEF ShapeOf, DashboardShape, FromBadge, FromButton,
       FromStatus, FromEnsure, FromBanner, FromOnCall, FromTeam, FromMark, FromAbsent, FromHome
<1>2. CASE p = "calendar"
  BY <1>2 DEF ShapeOf, CalendarShape
<1>3. CASE p = "api"
  BY <1>3 DEF ShapeOf, ApiShape
<1> QED
  BY <1>1, <1>2, <1>3 DEF Pages

\* What is to be shown of the page that makes a step.
Advanced(p) ==
  /\ ShapeOf(p, shown'[p], news')
  /\ shown'[p].at # "idle" /\ shown'[p].since = news' => PageOf(p, shown'[p], View')
  /\ shown'[p].at = "done" => shown'[p].till = news'
  /\ p = "calendar" /\ Filled(shown'[p]) /\ shown'[p].since = news' => NoneLeft'

LEMMA OnePageAdvances ==
  ASSUME PresenceAssumption, PresenceInv, [PresenceNext]_presenceVars,
         NEW p \in Pages, \A q \in Pages \ {p} : shown'[q] = shown[q], DOMAIN shown' = Pages,
         shown'[p] = shown[p] \/ Advanced(p)
  PROVE  PresenceInv'
<1>1. /\ roster' \subseteq Colleagues /\ onLeave' \subseteq Colleagues
      /\ wfhRow' \in [Colleagues -> RowStates] /\ hat' \in Hats /\ news' \in Nat
      /\ news <= news'
      /\ news' = news => View' = View /\ (NoneLeft => NoneLeft')
  BY DayGoesOn DEF PresenceInv
<1>2. news \in Nat /\ PresenceTypes'
  BY <1>1 DEF PresenceInv, PresenceTypes
<1>3. \A q \in Pages : shown'[q] = shown[q] \/ (q = p /\ Advanced(p))
  OBVIOUS
<1>4. \A q \in Pages : /\ ShapeOf(q, shown[q], news)
                       /\ shown[q].at # "idle" => shown[q].since \in Nat /\ shown[q].since <= news
                       /\ shown[q].at = "done" => shown[q].till \in Nat /\ shown[q].till <= news
  BY <1>2, PagesHaveSeen DEF PresenceInv, Shapes
<1>5. \A q \in Pages : ShapeOf(q, shown'[q], news')
  <2> SUFFICES ASSUME NEW q \in Pages
               PROVE  ShapeOf(q, shown'[q], news')
    OBVIOUS
  <2>1. ShapeOf(q, shown[q], news')
    BY <1>1, <1>2, <1>4, ShapesLast
  <2> QED
    BY <1>3, <2>1 DEF Advanced
<1>6. \A q \in Pages : /\ shown'[q] = shown[q] /\ shown[q].at # "idle" /\ shown[q].since = news'
                       => shown[q].since = news /\ news' = news
  BY <1>1, <1>2, <1>4
<1>7. \A q \in Pages : Current(q)' => PageOf(q, shown'[q], View')
  <2> SUFFICES ASSUME NEW q \in Pages, shown'[q].at \notin {"idle", "done"}, shown'[q].since = news'
               PROVE  PageOf(q, shown'[q], View')
    BY DEF Current
  <2>1. CASE shown'[q] = shown[q]
    BY <1>1, <1>6, <2>1 DEF Current, PresenceInv
  <2>2. CASE q = p /\ Advanced(p)
    BY <2>2 DEF Advanced
  <2> QED
    BY <1>3, <2>1, <2>2
<1>8. (Current("calendar") /\ Filled(shown["calendar"]) => NoneLeft)'
  <2> SUFFICES ASSUME Filled(shown'["calendar"]), shown'["calendar"].since = news'
               PROVE  NoneLeft'
    BY DEF Current, Filled
  <2>1. CASE shown'["calendar"] = shown["calendar"]
    BY <1>1, <1>6, <2>1 DEF Current, PresenceInv, Filled, Pages
  <2>2. CASE p = "calendar" /\ Advanced(p)
    BY <2>2 DEF Advanced
  <2> QED
    BY <1>3, <2>1, <2>2 DEF Pages
<1>9. (\E past : Remembered(past))'
  <2>1. PICK old : Remembered(old)
    BY DEF PresenceInv
  <2>2. Sensible(View')
    BY <1>1, SeenIsSensible DEF View
  <2>3. old \in [Nat -> Views] /\ \A n \in Nat : Sensible(old[n])
    BY <2>1 DEF Remembered
  <2>4. PICK past \in [Nat -> Views] :
          past[news'] = View' /\ \A n \in Nat \ {news'} : past[n] = old[n]
    <3> DEFINE new == [old EXCEPT ![news'] = View']
    <3>1. new \in [Nat -> Views] /\ new[news'] = View' /\ \A n \in Nat \ {news'} : new[n] = old[n]
      BY <1>1, <2>2, <2>3 DEF Sensible
    <3> QED
      BY <3>1
  <2>5. \A n \in Nat : n <= news => past[n] = old[n]
    <3>1. news' = news => past[news] = old[news]
      BY <1>1, <2>1, <2>4 DEF Remembered
    <3> QED
      BY <1>1, <1>2, <2>4, <3>1
  <2>6. \A n \in Nat : Sensible(past[n])
    BY <2>2, <2>3, <2>4
  <2>7. ASSUME NEW q \in Pages, shown'[q].at = "done", shown'[q].since = shown'[q].till
        PROVE  PageOf(q, shown'[q], past[shown'[q].till])
    <3>1. CASE shown'[q] = shown[q]
      <4>1. shown[q].till \in Nat /\ shown[q].till <= news
        BY <1>4, <2>7, <3>1
      <4>2. PageOf(q, shown[q], old[shown[q].till])
        BY <2>1, <2>7, <3>1 DEF Remembered, Undisturbed, Done
      <4> QED
        BY <2>5, <3>1, <4>1, <4>2
    <3>2. CASE q = p /\ Advanced(p)
      BY <2>4, <2>7, <3>2 DEF Advanced
    <3> QED
      BY <1>3, <3>1, <3>2
  <2>8. Remembered(past)'
    BY <2>4, <2>6, <2>7 DEF Remembered, Undisturbed, Done
  <2> QED
    BY <2>8
<1>10. Shapes'
  BY <1>5 DEF Shapes
<1> QED
  BY <1>2, <1>7, <1>8, <1>9, <1>10 DEF PresenceInv

-----------------------------------------------------------------------------
(* Every query takes its page one step on. *)

\* Page p goes on, the others wait.
Went(p) ==
  /\ DOMAIN shown' = Pages /\ \A q \in Pages \ {p} : shown'[q] = shown[q]
  /\ Advanced(p)

(* The world does not move while a page reads.                             *)
LEMMA WorldStays ==
  ASSUME UNCHANGED worldVars
  PROVE  View' = View /\ news' = news /\ (NoneLeft' <=> NoneLeft)
BY DEF worldVars, View, NoneLeft

(* A page that has begun and is not finished.                              *)
LEMMA PageSoFar ==
  ASSUME PresenceInv, NEW p \in Pages
  PROVE  /\ PresenceTypes /\ news \in Nat /\ ShapeOf(p, shown[p], news)
         /\ shown[p].at \notin {"idle", "done"} /\ shown[p].since = news => PageOf(p, shown[p], View)
         /\ p = "calendar" /\ shown[p].at \notin {"idle", "done"} /\ Filled(shown[p])
              /\ shown[p].since = news => NoneLeft
BY DEF PresenceInv, PresenceTypes, Shapes, Current

(* The page that reads: it has what was found and keeps the rest.          *)
LEMMA PageReads ==
  ASSUME PresenceInv, NEW p \in Pages, NEW here, NEW next, NEW found, Reads(p, here, next, found)
  PROVE  /\ DOMAIN shown' = Pages /\ \A q \in Pages \ {p} : shown'[q] = shown[q]
         /\ shown[p].at = here /\ shown'[p].at = next
         /\ DOMAIN shown'[p] = {"at"} \cup DOMAIN found \cup DOMAIN shown[p]
         /\ \A k \in DOMAIN found \ {"at"} : shown'[p][k] = found[k]
         /\ \A k \in DOMAIN shown[p] \ ({"at"} \cup DOMAIN found) : shown'[p][k] = shown[p][k]
         /\ news \in Nat /\ ShapeOf(p, shown[p], news)
         /\ here \notin {"idle", "done"} /\ shown[p].since = news => PageOf(p, shown[p], View)
         /\ p = "calendar" /\ here \notin {"idle", "done"} /\ Filled(shown[p])
              /\ shown[p].since = news => NoneLeft
BY PageMoves, PageSoFar

(* The dashboard: what a query found is put on the page, or, where it       *)
(* failed, what the page has without it.                                   *)
HasFound(here, next, found) ==
  LET d == shown["dashboard"]
      e == shown'["dashboard"]
  IN /\ DOMAIN shown' = Pages /\ \A q \in Pages \ {"dashboard"} : shown'[q] = shown[q]
     /\ d.at = here /\ e.at = next
     /\ DOMAIN e = {"at"} \cup DOMAIN found \cup DOMAIN d
     /\ \A k \in DOMAIN found \ {"at"} : e[k] = found[k]
     /\ \A k \in DOMAIN d \ ({"at"} \cup DOMAIN found) : e[k] = d[k]
     /\ e.failed = d.failed /\ "failed" \in DOMAIN d
     /\ DashboardShape(d, news) /\ news \in Nat
     /\ here # "done" /\ d.since = news => DashboardOf(d, View)

HasLost(here, next, without) ==
  LET d == shown["dashboard"]
      e == shown'["dashboard"]
  IN /\ DOMAIN shown' = Pages /\ \A q \in Pages \ {"dashboard"} : shown'[q] = shown[q]
     /\ d.at = here /\ e.at = next
     /\ DOMAIN e = {"at"} \cup DOMAIN without \cup DOMAIN d
     /\ \A k \in DOMAIN without \ {"at"} : e[k] = without[k]
     /\ \A k \in DOMAIN d \ ({"at", "failed"} \cup DOMAIN without) : e[k] = d[k]
     /\ e.failed = d.failed \cup {here} /\ "failed" \in DOMAIN d
     /\ DashboardShape(d, news) /\ news \in Nat
     /\ here # "done" /\ d.since = news => DashboardOf(d, View)

LEMMA DashboardReads ==
  ASSUME PresenceInv, NEW here, here # "idle", NEW next, NEW found,
         "failed" \notin DOMAIN found, Reads("dashboard", here, next, found)
  PROVE  HasFound(here, next, found)
<1>1. DashboardShape(shown["dashboard"], news)
  BY PageReads DEF Pages, ShapeOf
<1>2. "failed" \in DOMAIN shown["dashboard"]
  BY <1>1, PageReads
  DEF Pages, DashboardShape, FromBadge, FromButton, FromStatus, FromEnsure, FromBanner, FromOnCall,
      FromTeam, FromMark, FromAbsent, FromHome
<1> QED
  BY <1>1, <1>2, PageReads DEF Pages, PageOf, HasFound

LEMMA DashboardGoesOn ==
  ASSUME PresenceInv, NEW here, here # "idle", NEW next, NEW without,
         "failed" \notin DOMAIN without, GoesOn(here, next, without)
  PROVE  HasLost(here, next, without)
<1> DEFINE d == shown["dashboard"]
           top == [failed |-> Failed \cup {here}]
           found == Over(top, without)
<1>1. Reads("dashboard", here, next, found)
  BY DEF GoesOn
<1>2. DOMAIN top = {"failed"} /\ top["failed"] = Failed \cup {here}
  OBVIOUS
<1> HIDE DEF top
<1>3. /\ DOMAIN found = {"failed"} \cup DOMAIN without /\ found["failed"] = Failed \cup {here}
      /\ \A k \in DOMAIN without : found[k] = without[k]
  <2>1. /\ DOMAIN found = DOMAIN top \cup DOMAIN without
        /\ \A k \in DOMAIN top : found[k] = top[k]
        /\ \A k \in DOMAIN without \ DOMAIN top : found[k] = without[k]
    BY Overlaid
  <2> QED
    BY <1>2, <2>1
<1> HIDE DEF found
<1>4. DashboardShape(d, news) /\ d.at = here
  BY <1>1, PageReads DEF Pages, ShapeOf
<1>5. "failed" \in DOMAIN d
  BY <1>4
  DEF DashboardShape, FromBadge, FromButton, FromStatus, FromEnsure, FromBanner, FromOnCall,
      FromTeam, FromMark, FromAbsent, FromHome
<1>6. Failed = d.failed
  BY <1>4 DEF Failed
<1> QED
  BY <1>1, <1>3, <1>4, <1>5, <1>6, PageReads DEF Pages, PageOf, HasLost

LEMMA HasHATDayAdvances ==
  ASSUME PresenceAssumption, PresenceInv, HasHATDay
  PROVE  Went("dashboard")
<1> DEFINE d == shown["dashboard"]
           e == shown'["dashboard"]
           found == d.user \in {hat.primary, hat.cover} /\ ~d.away
           without == FALSE
           kept == {"user", "away", "since", "opened"}
<1>1. Asks("badge", "button", [duty |-> found], [duty |-> without]) /\ UNCHANGED worldVars
  BY DEF HasHATDay
<1> HIDE DEF found, without
<1> DEFINE got == [duty |-> found]
           lost == [duty |-> without]
<1>8. DOMAIN got = {"duty"} /\ DOMAIN lost = {"duty"} /\ got["duty"] = found /\ lost["duty"] = without
  OBVIOUS
<1>9. Asks("badge", "button", got, lost)
  BY <1>1
<1> HIDE DEF got, lost
<1>2. /\ DOMAIN shown' = Pages /\ \A q \in Pages \ {"dashboard"} : shown'[q] = shown[q]
      /\ d.at = "badge" /\ e.at = "button" /\ DOMAIN e = {"at", "duty"} \cup DOMAIN d
      /\ \/ e.failed = d.failed /\ e.duty = found
         \/ e.failed = d.failed \cup {"badge"} /\ e.duty = without
      /\ \A k \in DOMAIN d \ {"at", "failed", "duty"} : e[k] = d[k]
      /\ "failed" \in DOMAIN d
      /\ DashboardShape(d, news) /\ news \in Nat /\ (d.since = news => DashboardOf(d, View))
  <2>1. CASE Reads("dashboard", "badge", "button", got)
    <3>1. HasFound("badge", "button", got)
      BY <1>8, <2>1, DashboardReads
    <3> QED
      BY <1>8, <3>1 DEF HasFound
  <2>2. CASE GoesOn("badge", "button", lost)
    <3>1. HasLost("badge", "button", lost)
      BY <1>8, <2>2, DashboardGoesOn
    <3> QED
      BY <1>8, <3>1 DEF HasLost
  <2> QED
    BY <1>9, <2>1, <2>2 DEF Asks
<1>3. kept \subseteq DOMAIN d
  BY <1>2
  DEF DashboardShape, FromBadge, FromButton, FromStatus, FromEnsure, FromBanner, FromOnCall,
      FromTeam, FromMark, FromAbsent, FromHome
<1>4. \A k \in kept : e[k] = d[k]
  BY <1>2, <1>3
<1>5. DashboardShape(e, news)
  BY <1>2, <1>3, <1>4
  DEF DashboardShape, Known, HasMatrix, FromBadge, FromButton, FromStatus, FromEnsure, FromBanner, FromOnCall,
      FromTeam, FromMark, FromAbsent, FromHome
<1>6. e.since = news => DashboardOf(e, View)
  <2> SUFFICES ASSUME d.since = news
               PROVE  DashboardOf(e, View)
    BY <1>4
  <2>1. View.hat = hat
    BY DEF View, Seen, PresenceInv, PresenceTypes
  <2>2. DashboardOf(d, View)
    BY <1>2
  <2> QED
    BY <1>2, <1>4, <2>1, <2>2
    DEF found, without, DashboardOf, Known, HasMatrix, FromBadge, FromButton, FromStatus, FromEnsure, FromBanner, FromOnCall,
      FromTeam, FromMark, FromAbsent, FromHome
<1> QED
  BY <1>1, <1>2, <1>5, <1>6, WorldStays DEF Went, Advanced, ShapeOf, PageOf

LEMMA loadSignalOnSiteOptionsAdvances ==
  ASSUME PresenceAssumption, PresenceInv, loadSignalOnSiteOptions
  PROVE  Went("dashboard")
<1> DEFINE d == shown["dashboard"]
           e == shown'["dashboard"]
           found == wfhRow[d.user] = "approved"
           without == FALSE
           kept == {"user", "away", "since", "opened", "duty"}
<1>1. Asks("button", "status", [canSignal |-> found], [canSignal |-> without]) /\ UNCHANGED worldVars
  BY DEF loadSignalOnSiteOptions
<1> HIDE DEF found, without
<1> DEFINE got == [canSignal |-> found]
           lost == [canSignal |-> without]
<1>8. DOMAIN got = {"canSignal"} /\ DOMAIN lost = {"canSignal"} /\ got["canSignal"] = found /\ lost["canSignal"] = without
  OBVIOUS
<1>9. Asks("button", "status", got, lost)
  BY <1>1
<1> HIDE DEF got, lost
<1>2. /\ DOMAIN shown' = Pages /\ \A q \in Pages \ {"dashboard"} : shown'[q] = shown[q]
      /\ d.at = "button" /\ e.at = "status" /\ DOMAIN e = {"at", "canSignal"} \cup DOMAIN d
      /\ \/ e.failed = d.failed /\ e.canSignal = found
         \/ e.failed = d.failed \cup {"button"} /\ e.canSignal = without
      /\ \A k \in DOMAIN d \ {"at", "failed", "canSignal"} : e[k] = d[k]
      /\ "failed" \in DOMAIN d
      /\ DashboardShape(d, news) /\ news \in Nat /\ (d.since = news => DashboardOf(d, View))
  <2>1. CASE Reads("dashboard", "button", "status", got)
    <3>1. HasFound("button", "status", got)
      BY <1>8, <2>1, DashboardReads
    <3> QED
      BY <1>8, <3>1 DEF HasFound
  <2>2. CASE GoesOn("button", "status", lost)
    <3>1. HasLost("button", "status", lost)
      BY <1>8, <2>2, DashboardGoesOn
    <3> QED
      BY <1>8, <3>1 DEF HasLost
  <2> QED
    BY <1>9, <2>1, <2>2 DEF Asks
<1>3. kept \subseteq DOMAIN d
  BY <1>2
  DEF DashboardShape, FromBadge, FromButton, FromStatus, FromEnsure, FromBanner, FromOnCall,
      FromTeam, FromMark, FromAbsent, FromHome
<1>4. \A k \in kept : e[k] = d[k]
  BY <1>2, <1>3
<1>5. DashboardShape(e, news)
  BY <1>2, <1>3, <1>4
  DEF DashboardShape, Known, HasMatrix, FromBadge, FromButton, FromStatus, FromEnsure, FromBanner, FromOnCall,
      FromTeam, FromMark, FromAbsent, FromHome
<1>6. e.since = news => DashboardOf(e, View)
  <2> SUFFICES ASSUME d.since = news
               PROVE  DashboardOf(e, View)
    BY <1>4
  <2>1. roster \subseteq Colleagues /\ View.team = roster /\ \A m \in roster : wfhRow[m] = "approved" => m \in View.home
    BY DEF View, Seen, PresenceInv, PresenceTypes
  <2>2. DashboardOf(d, View)
    BY <1>2
  <2> QED
    BY <1>2, <1>4, <2>1, <2>2
    DEF found, without, DashboardOf, Known, HasMatrix, FromBadge, FromButton, FromStatus, FromEnsure, FromBanner, FromOnCall,
      FromTeam, FromMark, FromAbsent, FromHome
<1> QED
  BY <1>1, <1>2, <1>5, <1>6, WorldStays DEF Went, Advanced, ShapeOf, PageOf

LEMMA loadCurrentUserPresenceStatusAdvances ==
  ASSUME PresenceAssumption, PresenceInv, loadCurrentUserPresenceStatus
  PROVE  Went("dashboard")
<1> DEFINE d == shown["dashboard"]
           e == shown'["dashboard"]
           found == IF d.away THEN "away"
                    ELSE IF d.user \in Approved \/ (wfhRow[d.user] = "none" /\ d.user \in Contract)
                         THEN "wfh" ELSE "onsite"
           without == IF d.away THEN "away" ELSE IF d.user \in Contract THEN "wfh" ELSE "onsite"
           kept == {"user", "away", "since", "opened", "duty", "canSignal"}
<1>1. Asks("status", "ensure", [status |-> found], [status |-> without]) /\ UNCHANGED worldVars
  BY DEF loadCurrentUserPresenceStatus
<1> HIDE DEF found, without
<1> DEFINE got == [status |-> found]
           lost == [status |-> without]
<1>8. DOMAIN got = {"status"} /\ DOMAIN lost = {"status"} /\ got["status"] = found /\ lost["status"] = without
  OBVIOUS
<1>9. Asks("status", "ensure", got, lost)
  BY <1>1
<1> HIDE DEF got, lost
<1>2. /\ DOMAIN shown' = Pages /\ \A q \in Pages \ {"dashboard"} : shown'[q] = shown[q]
      /\ d.at = "status" /\ e.at = "ensure" /\ DOMAIN e = {"at", "status"} \cup DOMAIN d
      /\ \/ e.failed = d.failed /\ e.status = found
         \/ e.failed = d.failed \cup {"status"} /\ e.status = without
      /\ \A k \in DOMAIN d \ {"at", "failed", "status"} : e[k] = d[k]
      /\ "failed" \in DOMAIN d
      /\ DashboardShape(d, news) /\ news \in Nat /\ (d.since = news => DashboardOf(d, View))
  <2>1. CASE Reads("dashboard", "status", "ensure", got)
    <3>1. HasFound("status", "ensure", got)
      BY <1>8, <2>1, DashboardReads
    <3> QED
      BY <1>8, <3>1 DEF HasFound
  <2>2. CASE GoesOn("status", "ensure", lost)
    <3>1. HasLost("status", "ensure", lost)
      BY <1>8, <2>2, DashboardGoesOn
    <3> QED
      BY <1>8, <3>1 DEF HasLost
  <2> QED
    BY <1>9, <2>1, <2>2 DEF Asks
<1>3. kept \subseteq DOMAIN d
  BY <1>2
  DEF DashboardShape, FromBadge, FromButton, FromStatus, FromEnsure, FromBanner, FromOnCall,
      FromTeam, FromMark, FromAbsent, FromHome
<1>4. \A k \in kept : e[k] = d[k]
  BY <1>2, <1>3
<1>5. DashboardShape(e, news)
  BY <1>2, <1>3, <1>4
  DEF DashboardShape, Known, HasMatrix, FromBadge, FromButton, FromStatus, FromEnsure, FromBanner, FromOnCall,
      FromTeam, FromMark, FromAbsent, FromHome
<1>6. e.since = news => DashboardOf(e, View)
  <2> SUFFICES ASSUME d.since = news
               PROVE  DashboardOf(e, View)
    BY <1>4
  <2>1. View.team = roster /\ View.leave = onLeave /\ roster \subseteq Colleagues /\ \A m \in roster :
          m \in View.home <=> m \in Approved \/ (wfhRow[m] = "none" /\ m \in Contract)
    BY DEF View, Seen, PresenceInv, PresenceTypes, Approved
  <2>2. DashboardOf(d, View)
    BY <1>2
  <2> QED
    BY <1>2, <1>4, <2>1, <2>2
    DEF found, without, DashboardOf, Known, HasMatrix, FromBadge, FromButton, FromStatus, FromEnsure, FromBanner, FromOnCall,
      FromTeam, FromMark, FromAbsent, FromHome
<1> QED
  BY <1>1, <1>2, <1>5, <1>6, WorldStays DEF Went, Advanced, ShapeOf, PageOf

LEMMA loadCurrentHATAdvances ==
  ASSUME PresenceAssumption, PresenceInv, loadCurrentHAT
  PROVE  Went("dashboard")
<1> DEFINE d == shown["dashboard"]
           e == shown'["dashboard"]
           kept == {"user", "away", "since", "opened", "duty", "canSignal", "status"}
<1>1. UNCHANGED worldVars
  BY DEF loadCurrentHAT
<1>2. ASSUME DashboardShape(e, news), d.since = news => DashboardOf(e, View), e.since = d.since,
             e.at # "done", DOMAIN shown' = Pages,
             \A q \in Pages \ {"dashboard"} : shown'[q] = shown[q]
      PROVE  Went("dashboard")
  BY <1>1, <1>2, WorldStays DEF Went, Advanced, ShapeOf, PageOf
<1>3. CASE Reads("dashboard", "banner", "onCall", [duties |-> hat])
  <2> DEFINE got == [duties |-> hat]
  <2>6. DOMAIN got = {"duties"} /\ got["duties"] = hat
    OBVIOUS
  <2>7. Reads("dashboard", "banner", "onCall", got)
    BY <1>3
  <2> HIDE DEF got
  <2>1. /\ DOMAIN shown' = Pages /\ \A q \in Pages \ {"dashboard"} : shown'[q] = shown[q]
        /\ d.at = "banner" /\ e.at = "onCall" /\ DOMAIN e = {"at", "duties"} \cup DOMAIN d
        /\ e.duties = hat /\ \A k \in DOMAIN d \ {"at", "duties"} : e[k] = d[k]
        /\ e.failed = d.failed /\ "failed" \in DOMAIN d
        /\ DashboardShape(d, news) /\ news \in Nat /\ (d.since = news => DashboardOf(d, View))
    <3>1. HasFound("banner", "onCall", got)
      BY <2>6, <2>7, DashboardReads
    <3> QED
      BY <2>6, <3>1 DEF HasFound
  <2>2. kept \subseteq DOMAIN d
    BY <2>1
    DEF DashboardShape, FromBadge, FromButton, FromStatus, FromEnsure, FromBanner, FromOnCall,
      FromTeam, FromMark, FromAbsent, FromHome
  <2>3. \A k \in kept : e[k] = d[k]
    BY <2>1, <2>2
  <2>4. DashboardShape(e, news)
    BY <2>1, <2>2, <2>3
    DEF DashboardShape, Known, HasMatrix, FromBadge, FromButton, FromStatus, FromEnsure, FromBanner, FromOnCall,
      FromTeam, FromMark, FromAbsent, FromHome
  <2>5. d.since = news => DashboardOf(e, View)
    <3>1. View.hat = hat
      BY DEF View, Seen
    <3> QED
      BY <2>1, <2>3, <3>1
      DEF DashboardOf, Known, HasMatrix, FromBadge, FromButton, FromStatus, FromEnsure, FromBanner, FromOnCall,
      FromTeam, FromMark, FromAbsent, FromHome
  <2> QED
    BY <1>2, <2>1, <2>3, <2>4, <2>5
<1>4. CASE GoesOn("banner", "team", [duties |-> NoHat, banner |-> Nobody])
  <2> DEFINE lost == [duties |-> NoHat, banner |-> Nobody]
  <2>6. DOMAIN lost = {"duties", "banner"}
    OBVIOUS
  <2>7. GoesOn("banner", "team", lost)
    BY <1>4
  <2> HIDE DEF lost
  <2>1. /\ DOMAIN shown' = Pages /\ \A q \in Pages \ {"dashboard"} : shown'[q] = shown[q]
        /\ d.at = "banner" /\ e.at = "team" /\ DOMAIN e = {"at", "duties", "banner"} \cup DOMAIN d
        /\ \A k \in DOMAIN d \ {"at", "failed", "duties", "banner"} : e[k] = d[k]
        /\ e.failed = d.failed \cup {"banner"} /\ "failed" \in DOMAIN d
        /\ DashboardShape(d, news) /\ news \in Nat /\ (d.since = news => DashboardOf(d, View))
    <3>1. HasLost("banner", "team", lost)
      BY <2>6, <2>7, DashboardGoesOn
    <3> QED
      BY <2>6, <3>1 DEF HasLost
  <2>2. kept \subseteq DOMAIN d
    BY <2>1
    DEF DashboardShape, FromBadge, FromButton, FromStatus, FromEnsure, FromBanner, FromOnCall,
      FromTeam, FromMark, FromAbsent, FromHome
  <2>3. \A k \in kept : e[k] = d[k]
    BY <2>1, <2>2
  <2>4. DashboardShape(e, news)
    BY <2>1, <2>2, <2>3
    DEF DashboardShape, Known, HasMatrix, FromBadge, FromButton, FromStatus, FromEnsure, FromBanner, FromOnCall,
      FromTeam, FromMark, FromAbsent, FromHome
  <2>5. d.since = news => DashboardOf(e, View)
    BY <2>1, <2>3
    DEF DashboardOf, Known, HasMatrix, FromBadge, FromButton, FromStatus, FromEnsure, FromBanner, FromOnCall,
      FromTeam, FromMark, FromAbsent, FromHome
  <2> QED
    BY <1>2, <2>1, <2>3, <2>4, <2>5
<1> QED
  BY <1>3, <1>4 DEF loadCurrentHAT

LEMMA isPrimaryOnLeaveTodayAdvances ==
  ASSUME PresenceAssumption, PresenceInv, isPrimaryOnLeaveToday
  PROVE  Went("dashboard")
<1> DEFINE d == shown["dashboard"]
           e == shown'["dashboard"]
           found == IF d.duties.primary \in onLeave /\ d.duties.cover # Nobody
                    THEN d.duties.cover ELSE d.duties.primary
           kept == {"user", "away", "since", "opened", "duty", "canSignal", "status", "duties"}
<1>1. PICK without : Asks("onCall", "team", [banner |-> found], [banner |-> without])
  BY DEF isPrimaryOnLeaveToday, Asks
<1>7. UNCHANGED worldVars
  BY DEF isPrimaryOnLeaveToday
<1> HIDE DEF found
<1> DEFINE got == [banner |-> found]
           lost == [banner |-> without]
<1>8. DOMAIN got = {"banner"} /\ DOMAIN lost = {"banner"} /\ got["banner"] = found /\ lost["banner"] = without
  OBVIOUS
<1>9. Asks("onCall", "team", got, lost)
  BY <1>1
<1> HIDE DEF got, lost
<1>2. /\ DOMAIN shown' = Pages /\ \A q \in Pages \ {"dashboard"} : shown'[q] = shown[q]
      /\ d.at = "onCall" /\ e.at = "team" /\ DOMAIN e = {"at", "banner"} \cup DOMAIN d
      /\ \/ e.failed = d.failed /\ e.banner = found
         \/ e.failed = d.failed \cup {"onCall"} /\ e.banner = without
      /\ \A k \in DOMAIN d \ {"at", "failed", "banner"} : e[k] = d[k]
      /\ "failed" \in DOMAIN d
      /\ DashboardShape(d, news) /\ news \in Nat /\ (d.since = news => DashboardOf(d, View))
  <2>1. CASE Reads("dashboard", "onCall", "team", got)
    <3>1. HasFound("onCall", "team", got)
      BY <1>8, <2>1, DashboardReads
    <3> QED
      BY <1>8, <3>1 DEF HasFound
  <2>2. CASE GoesOn("onCall", "team", lost)
    <3>1. HasLost("onCall", "team", lost)
      BY <1>8, <2>2, DashboardGoesOn
    <3> QED
      BY <1>8, <3>1 DEF HasLost
  <2> QED
    BY <1>9, <2>1, <2>2 DEF Asks
<1>3. kept \subseteq DOMAIN d
  BY <1>2
  DEF DashboardShape, FromBadge, FromButton, FromStatus, FromEnsure, FromBanner, FromOnCall,
      FromTeam, FromMark, FromAbsent, FromHome
<1>4. \A k \in kept : e[k] = d[k]
  BY <1>2, <1>3
<1>5. DashboardShape(e, news)
  BY <1>2, <1>3, <1>4
  DEF DashboardShape, Known, HasMatrix, FromBadge, FromButton, FromStatus, FromEnsure, FromBanner, FromOnCall,
      FromTeam, FromMark, FromAbsent, FromHome
<1>6. e.since = news => DashboardOf(e, View)
  <2> SUFFICES ASSUME d.since = news
               PROVE  DashboardOf(e, View)
    BY <1>4
  <2>1. View.hat = hat /\ View.leave = onLeave
    BY DEF View, Seen, PresenceInv, PresenceTypes
  <2>2. DashboardOf(d, View)
    BY <1>2
  <2> QED
    BY <1>2, <1>4, <2>1, <2>2
    DEF found, DashboardOf, Known, HasMatrix, FromBadge, FromButton, FromStatus, FromEnsure, FromBanner, FromOnCall,
      FromTeam, FromMark, FromAbsent, FromHome
<1> QED
  BY <1>2, <1>5, <1>6, <1>7, WorldStays DEF Went, Advanced, ShapeOf, PageOf

(* Without a matrix the page is finished, and empty.                        *)
LEMMA MatrixIsGone ==
  ASSUME PresenceAssumption, PresenceInv, UNCHANGED worldVars,
         NEW here \in {"team", "absent", "rows"}, GoesOn(here, "done", NoMatrix)
  PROVE  Went("dashboard")
<1> DEFINE d == shown["dashboard"]
           e == shown'["dashboard"]
           kept == {"user", "away", "since", "opened", "duty", "canSignal", "status", "duties", "banner"}
<1>1. /\ DOMAIN NoMatrix = {"team", "absent", "atHome", "onSite", "assigned", "till"}
      /\ NoMatrix.team = {} /\ NoMatrix.absent = {} /\ NoMatrix.atHome = {} /\ NoMatrix.onSite = {}
      /\ NoMatrix.till = news
  BY DEF NoMatrix, Closed, Over
<1>10. here # "idle" /\ here # "done" /\ "failed" \notin DOMAIN NoMatrix
  BY <1>1
<1>2. /\ DOMAIN shown' = Pages /\ \A q \in Pages \ {"dashboard"} : shown'[q] = shown[q]
      /\ d.at = here /\ e.at = "done" /\ DOMAIN e = {"at"} \cup DOMAIN NoMatrix \cup DOMAIN d
      /\ \A k \in DOMAIN NoMatrix \ {"at"} : e[k] = NoMatrix[k]
      /\ \A k \in DOMAIN d \ ({"at", "failed"} \cup DOMAIN NoMatrix) : e[k] = d[k]
      /\ e.failed = d.failed \cup {here} /\ "failed" \in DOMAIN d
      /\ DashboardShape(d, news) /\ news \in Nat /\ (d.since = news => DashboardOf(d, View))
  <2>1. HasLost(here, "done", NoMatrix)
    BY <1>10, DashboardGoesOn
  <2> QED
    BY <1>10, <2>1 DEF HasLost
<1>3. kept \subseteq DOMAIN d
  BY <1>2
  DEF DashboardShape, FromBadge, FromButton, FromStatus, FromEnsure, FromBanner, FromOnCall,
      FromTeam, FromMark, FromAbsent, FromHome
<1>4. \A k \in kept : e[k] = d[k]
  BY <1>1, <1>2, <1>3
<1>5. e.team = {} /\ e.absent = {} /\ e.atHome = {} /\ e.onSite = {} /\ e.till = news
  BY <1>1, <1>2
<1>6. PartOf(e) /\ ~HasMatrix(e)
  BY <1>2, <1>5 DEF PartOf, HasMatrix, Known
<1>7. d.user \in Colleagues \cup {Nobody} /\ d.since \in Nat /\ d.opened \in Nat
      /\ d.opened <= d.since /\ d.since <= news
  BY <1>2
  DEF DashboardShape, FromBadge, FromButton, FromStatus, FromEnsure, FromBanner, FromOnCall,
      FromTeam, FromMark, FromAbsent, FromHome
<1>8. DashboardShape(e, news)
  BY <1>1, <1>2, <1>3, <1>4, <1>5, <1>6, <1>7
  DEF DashboardShape, Known, HasMatrix, FromBadge, FromButton, FromStatus, FromEnsure, FromBanner, FromOnCall,
      FromTeam, FromMark, FromAbsent, FromHome
<1>9. e.since = news => DashboardOf(e, View)
  BY <1>2, <1>4, <1>6
  DEF DashboardOf, Known, FromBadge, FromButton, FromStatus, FromEnsure, FromBanner, FromOnCall,
      FromTeam, FromMark, FromAbsent, FromHome
<1> QED
  BY <1>2, <1>5, <1>8, <1>9, WorldStays DEF Went, Advanced, ShapeOf, PageOf

LEMMA getUpcomingPresenceFromAdvances ==
  ASSUME PresenceAssumption, PresenceInv, getUpcomingPresenceFrom
  PROVE  Went("dashboard")
<1> DEFINE d == shown["dashboard"]
           e == shown'["dashboard"]
           kept == {"user", "away", "since", "opened", "duty", "canSignal", "status", "duties", "banner"}
<1>1. UNCHANGED worldVars
  BY DEF getUpcomingPresenceFrom
<1>2. CASE GoesOn("team", "done", NoMatrix)
  BY <1>1, <1>2, MatrixIsGone
<1>3. CASE Reads("dashboard", "team", "assigned", [team |-> roster])
  <2> DEFINE got == [team |-> roster]
  <2>6. DOMAIN got = {"team"} /\ got["team"] = roster
    OBVIOUS
  <2>7. Reads("dashboard", "team", "assigned", got)
    BY <1>3
  <2> HIDE DEF got
  <2>1. /\ DOMAIN shown' = Pages /\ \A q \in Pages \ {"dashboard"} : shown'[q] = shown[q]
        /\ d.at = "team" /\ e.at = "assigned" /\ DOMAIN e = {"at", "team"} \cup DOMAIN d
        /\ e.team = roster /\ \A k \in DOMAIN d \ {"at", "team"} : e[k] = d[k]
        /\ e.failed = d.failed /\ "failed" \in DOMAIN d
        /\ DashboardShape(d, news) /\ news \in Nat /\ (d.since = news => DashboardOf(d, View))
    <3>1. HasFound("team", "assigned", got)
      BY <2>6, <2>7, DashboardReads
    <3> QED
      BY <2>6, <3>1 DEF HasFound
  <2>2. kept \subseteq DOMAIN d
    BY <2>1
    DEF DashboardShape, FromBadge, FromButton, FromStatus, FromEnsure, FromBanner, FromOnCall,
      FromTeam, FromMark, FromAbsent, FromHome
  <2>3. \A k \in kept : e[k] = d[k]
    BY <2>1, <2>2
  <2>4. DashboardShape(e, news)
    BY <2>1, <2>2, <2>3
    DEF DashboardShape, Known, HasMatrix, FromBadge, FromButton, FromStatus, FromEnsure, FromBanner, FromOnCall,
      FromTeam, FromMark, FromAbsent, FromHome
  <2>5. d.since = news => DashboardOf(e, View)
    <3>1. View.team = roster
      BY DEF View, Seen
    <3> QED
      BY <2>1, <2>3, <3>1
      DEF DashboardOf, Known, HasMatrix, FromBadge, FromButton, FromStatus, FromEnsure, FromBanner, FromOnCall,
      FromTeam, FromMark, FromAbsent, FromHome
  <2> QED
    BY <1>1, <2>1, <2>3, <2>4, <2>5, WorldStays DEF Went, Advanced, ShapeOf, PageOf
<1> QED
  BY <1>2, <1>3 DEF getUpcomingPresenceFrom

LEMMA getAssignedMemberAdvances ==
  ASSUME PresenceAssumption, PresenceInv, getAssignedMember
  PROVE  Went("dashboard")
<1> DEFINE d == shown["dashboard"]
           e == shown'["dashboard"]
           found == OnCall(d.team)
           without == Nobody
           kept == {"user", "away", "since", "opened", "duty", "canSignal", "status", "duties", "banner", "team"}
<1>1. Asks("assigned", "absent", [assigned |-> found], [assigned |-> without]) /\ UNCHANGED worldVars
  BY DEF getAssignedMember
<1> HIDE DEF found, without
<1> DEFINE got == [assigned |-> found]
           lost == [assigned |-> without]
<1>8. DOMAIN got = {"assigned"} /\ DOMAIN lost = {"assigned"} /\ got["assigned"] = found /\ lost["assigned"] = without
  OBVIOUS
<1>9. Asks("assigned", "absent", got, lost)
  BY <1>1
<1> HIDE DEF got, lost
<1>2. /\ DOMAIN shown' = Pages /\ \A q \in Pages \ {"dashboard"} : shown'[q] = shown[q]
      /\ d.at = "assigned" /\ e.at = "absent" /\ DOMAIN e = {"at", "assigned"} \cup DOMAIN d
      /\ \/ e.failed = d.failed /\ e.assigned = found
         \/ e.failed = d.failed \cup {"assigned"} /\ e.assigned = without
      /\ \A k \in DOMAIN d \ {"at", "failed", "assigned"} : e[k] = d[k]
      /\ "failed" \in DOMAIN d
      /\ DashboardShape(d, news) /\ news \in Nat /\ (d.since = news => DashboardOf(d, View))
  <2>1. CASE Reads("dashboard", "assigned", "absent", got)
    <3>1. HasFound("assigned", "absent", got)
      BY <1>8, <2>1, DashboardReads
    <3> QED
      BY <1>8, <3>1 DEF HasFound
  <2>2. CASE GoesOn("assigned", "absent", lost)
    <3>1. HasLost("assigned", "absent", lost)
      BY <1>8, <2>2, DashboardGoesOn
    <3> QED
      BY <1>8, <3>1 DEF HasLost
  <2> QED
    BY <1>9, <2>1, <2>2 DEF Asks
<1>3. kept \subseteq DOMAIN d
  BY <1>2
  DEF DashboardShape, FromBadge, FromButton, FromStatus, FromEnsure, FromBanner, FromOnCall,
      FromTeam, FromMark, FromAbsent, FromHome
<1>4. \A k \in kept : e[k] = d[k]
  BY <1>2, <1>3
<1>5. DashboardShape(e, news)
  BY <1>2, <1>3, <1>4
  DEF DashboardShape, Known, HasMatrix, FromBadge, FromButton, FromStatus, FromEnsure, FromBanner, FromOnCall,
      FromTeam, FromMark, FromAbsent, FromHome
<1>6. e.since = news => DashboardOf(e, View)
  <2> SUFFICES ASSUME d.since = news
               PROVE  DashboardOf(e, View)
    BY <1>4
  <2>1. View.hat = hat /\ View.team = roster
    BY DEF View, Seen, PresenceInv, PresenceTypes
  <2>2. DashboardOf(d, View)
    BY <1>2
  <2> QED
    BY <1>2, <1>4, <2>1, <2>2
    DEF found, without, DashboardOf, Known, HasMatrix, FromBadge, FromButton, FromStatus, FromEnsure, FromBanner, FromOnCall,
      FromTeam, FromMark, FromAbsent, FromHome,
        OnCall, Marked
<1> QED
  BY <1>1, <1>2, <1>5, <1>6, WorldStays DEF Went, Advanced, ShapeOf, PageOf

LEMMA GetLeaveByDateAdvances ==
  ASSUME PresenceAssumption, PresenceInv, GetLeaveByDate
  PROVE  Went("dashboard")
<1> DEFINE d == shown["dashboard"]
           e == shown'["dashboard"]
           kept == {"user", "away", "since", "opened", "duty", "canSignal", "status", "duties", "banner", "team", "assigned"}
<1>1. UNCHANGED worldVars
  BY DEF GetLeaveByDate
<1>2. CASE GoesOn("absent", "done", NoMatrix)
  BY <1>1, <1>2, MatrixIsGone
<1>3. CASE Reads("dashboard", "absent", "rows", [absent |-> onLeave \cap d.team])
  <2> DEFINE got == [absent |-> onLeave \cap d.team]
  <2>6. DOMAIN got = {"absent"} /\ got["absent"] = onLeave \cap d.team
    OBVIOUS
  <2>7. Reads("dashboard", "absent", "rows", got)
    BY <1>3
  <2> HIDE DEF got
  <2>1. /\ DOMAIN shown' = Pages /\ \A q \in Pages \ {"dashboard"} : shown'[q] = shown[q]
        /\ d.at = "absent" /\ e.at = "rows" /\ DOMAIN e = {"at", "absent"} \cup DOMAIN d
        /\ e.absent = onLeave \cap d.team /\ \A k \in DOMAIN d \ {"at", "absent"} : e[k] = d[k]
        /\ e.failed = d.failed /\ "failed" \in DOMAIN d
        /\ DashboardShape(d, news) /\ news \in Nat /\ (d.since = news => DashboardOf(d, View))
    <3>1. HasFound("absent", "rows", got)
      BY <2>6, <2>7, DashboardReads
    <3> QED
      BY <2>6, <3>1 DEF HasFound
  <2>2. kept \subseteq DOMAIN d
    BY <2>1
    DEF DashboardShape, FromBadge, FromButton, FromStatus, FromEnsure, FromBanner, FromOnCall,
      FromTeam, FromMark, FromAbsent, FromHome
  <2>3. \A k \in kept : e[k] = d[k]
    BY <2>1, <2>2
  <2>4. DashboardShape(e, news)
    BY <2>1, <2>2, <2>3
    DEF DashboardShape, Known, HasMatrix, FromBadge, FromButton, FromStatus, FromEnsure, FromBanner, FromOnCall,
      FromTeam, FromMark, FromAbsent, FromHome
  <2>5. d.since = news => DashboardOf(e, View)
    <3>1. View.leave = onLeave
      BY DEF View, Seen
    <3> QED
      BY <2>1, <2>3, <3>1
      DEF DashboardOf, Known, HasMatrix, FromBadge, FromButton, FromStatus, FromEnsure, FromBanner, FromOnCall,
      FromTeam, FromMark, FromAbsent, FromHome
  <2> QED
    BY <1>1, <2>1, <2>3, <2>4, <2>5, WorldStays DEF Went, Advanced, ShapeOf, PageOf
<1> QED
  BY <1>2, <1>3 DEF GetLeaveByDate

LEMMA buildUserLeaveDatesAdvances ==
  ASSUME PresenceAssumption, PresenceInv, buildUserLeaveDates
  PROVE  Went("dashboard")
<1> DEFINE d == shown["dashboard"]
           e == shown'["dashboard"]
<1>1. PICK m \in Colleagues, away \in BOOLEAN, failed \in {{}, {"leave"}} :
        /\ failed = {} => (away <=> m \in onLeave)
        /\ Reads("dashboard", "idle", "badge", Opened([user |-> m, away |-> away, failed |-> failed]))
  <2>1. PICK m \in Colleagues :
          \/ Reads("dashboard", "idle", "badge",
                   Opened([user |-> m, away |-> m \in onLeave, failed |-> {}]))
          \/ Reads("dashboard", "idle", "badge",
                   Opened([user |-> m, away |-> FALSE, failed |-> {"leave"}]))
    BY DEF buildUserLeaveDates
  <2>2. (m \in onLeave) \in BOOLEAN /\ FALSE \in BOOLEAN /\ {"leave"} # {}
    OBVIOUS
  <2> QED
    BY <2>1, <2>2
<1>2. UNCHANGED worldVars
  BY DEF buildUserLeaveDates
<1> DEFINE found == Opened([user |-> m, away |-> away, failed |-> failed])
<1>3. /\ DOMAIN found = {"user", "away", "failed", "since", "opened"}
      /\ found.user = m /\ found.away = away /\ found.failed = failed
      /\ found.since = news /\ found.opened = news
  BY DEF Opened, Over
<1> HIDE DEF found
<1>4. /\ DOMAIN shown' = Pages /\ \A q \in Pages \ {"dashboard"} : shown'[q] = shown[q]
      /\ e.at = "badge" /\ DOMAIN e = {"at"} \cup DOMAIN found \cup DOMAIN d
      /\ \A k \in DOMAIN found \ {"at"} : e[k] = found[k]
      /\ news \in Nat
  BY <1>1, PageReads DEF Pages, found
<1>5. e.user = m /\ e.away = away /\ e.failed = failed /\ e.since = news /\ e.opened = news
  BY <1>3, <1>4
<1>6. DashboardShape(e, news)
  BY <1>3, <1>4, <1>5
  DEF DashboardShape, Known, HasMatrix, FromBadge, FromButton, FromStatus, FromEnsure, FromBanner, FromOnCall,
      FromTeam, FromMark, FromAbsent, FromHome
<1>7. View.leave = onLeave
  BY DEF View, Seen
<1>8. DashboardOf(e, View)
  BY <1>1, <1>4, <1>5, <1>7
  DEF DashboardOf, Known, HasMatrix, FromBadge, FromButton, FromStatus, FromEnsure, FromBanner, FromOnCall,
      FromTeam, FromMark, FromAbsent, FromHome
<1> QED
  BY <1>2, <1>4, <1>6, <1>8, WorldStays DEF Went, Advanced, ShapeOf, PageOf

LEMMA noMemberAdvances ==
  ASSUME PresenceAssumption, PresenceInv, noMember
  PROVE  Went("dashboard")
<1> DEFINE d == shown["dashboard"]
           e == shown'["dashboard"]
           found == Opened([user |-> Nobody, away |-> FALSE, failed |-> {}, duty |-> FALSE,
                            canSignal |-> FALSE, status |-> "none"])
<1>1. Reads("dashboard", "idle", "ensure", found) /\ UNCHANGED worldVars
  BY DEF noMember
<1>2. /\ DOMAIN found = {"user", "away", "failed", "duty", "canSignal", "status", "since", "opened"}
      /\ found.user = Nobody /\ found.away = FALSE /\ found.failed = {} /\ found.duty = FALSE
      /\ found.canSignal = FALSE /\ found.since = news /\ found.opened = news
  BY DEF Opened, Over
<1> HIDE DEF found
<1>3. /\ DOMAIN shown' = Pages /\ \A q \in Pages \ {"dashboard"} : shown'[q] = shown[q]
      /\ e.at = "ensure" /\ DOMAIN e = {"at"} \cup DOMAIN found \cup DOMAIN d
      /\ \A k \in DOMAIN found \ {"at"} : e[k] = found[k]
      /\ news \in Nat
  BY <1>1, PageReads DEF Pages
<1>4. /\ e.user = Nobody /\ e.away = FALSE /\ e.failed = {} /\ e.duty = FALSE
      /\ e.canSignal = FALSE /\ e.since = news /\ e.opened = news
  BY <1>2, <1>3
<1>5. DashboardShape(e, news)
  BY <1>2, <1>3, <1>4
  DEF DashboardShape, Known, HasMatrix, FromBadge, FromButton, FromStatus, FromEnsure, FromBanner, FromOnCall,
      FromTeam, FromMark, FromAbsent, FromHome
<1>6. Nobody \notin View.leave /\ Nobody \notin View.team
  BY DEF View, Seen, PresenceAssumption, PresenceInv, PresenceTypes
<1>7. DashboardOf(e, View)
  BY <1>3, <1>4, <1>6
  DEF DashboardOf, Known, HasMatrix, FromBadge, FromButton, FromStatus, FromEnsure, FromBanner, FromOnCall,
      FromTeam, FromMark, FromAbsent, FromHome
<1> QED
  BY <1>1, <1>3, <1>5, <1>7, WorldStays DEF Went, Advanced, ShapeOf, PageOf

LEMMA PresenceIsListed ==
  ASSUME PresenceAssumption, PresenceInv, UNCHANGED worldVars,
         LET d == shown["dashboard"]
             present == d.team \ d.absent
         IN Reads("dashboard", "rows", "done",
                  Closed([atHome |-> present \cap wfhMemberIDs(d.team),
                          onSite |-> present \ wfhMemberIDs(d.team)]))
  PROVE  Went("dashboard")
<1> DEFINE d == shown["dashboard"]
           e == shown'["dashboard"]
           atHome == (d.team \ d.absent) \cap wfhMemberIDs(d.team)
           onSite == (d.team \ d.absent) \ wfhMemberIDs(d.team)
           found == Closed([atHome |-> atHome, onSite |-> onSite])
           kept == {"user", "away", "since", "opened", "failed", "duty", "canSignal", "status", "duties",
                    "banner", "team", "assigned", "absent"}
<1>1. Reads("dashboard", "rows", "done", found)
  OBVIOUS
<1>2. /\ DOMAIN found = {"atHome", "onSite", "till"}
      /\ found.atHome = atHome /\ found.onSite = onSite /\ found.till = news
  BY DEF Closed, Over
<1> HIDE DEF found
<1>3. /\ DOMAIN shown' = Pages /\ \A q \in Pages \ {"dashboard"} : shown'[q] = shown[q]
      /\ d.at = "rows" /\ e.at = "done"
      /\ DOMAIN e = {"at"} \cup DOMAIN found \cup DOMAIN d
      /\ \A k \in DOMAIN found \ {"at"} : e[k] = found[k]
      /\ \A k \in DOMAIN d \ ({"at"} \cup DOMAIN found) : e[k] = d[k]
      /\ e.failed = d.failed /\ "failed" \in DOMAIN d
      /\ DashboardShape(d, news) /\ news \in Nat /\ (d.since = news => DashboardOf(d, View))
  <2>1. "failed" \notin DOMAIN found
    BY <1>2
  <2> QED
    BY <1>1, <2>1, DashboardReads DEF HasFound
<1>4. kept \subseteq DOMAIN d
  BY <1>3
  DEF DashboardShape, FromBadge, FromButton, FromStatus, FromEnsure, FromBanner, FromOnCall,
      FromTeam, FromMark, FromAbsent, FromHome
<1>5. \A k \in kept : e[k] = d[k]
  BY <1>2, <1>3, <1>4
<1>6. e.atHome = atHome /\ e.onSite = onSite /\ e.till = news
  BY <1>2, <1>3
<1>7. d.absent \subseteq d.team
  BY <1>3 DEF DashboardShape, FromHome
<1>8. PartOf(e) /\ e.absent \cap e.atHome = {}
  BY <1>5, <1>6, <1>7 DEF PartOf
<1> HIDE DEF atHome, onSite
<1>11. ~HasMatrix(e) => e.team = {} /\ e.onSite = {}
  <2>1. HasMatrix(d)
    BY <1>3 DEF DashboardShape
  <2> QED
    BY <1>3, <2>1 DEF HasMatrix, Known
<1>9. DashboardShape(e, news)
  BY <1>2, <1>3, <1>4, <1>5, <1>6, <1>8, <1>11
  DEF DashboardShape, Known, HasMatrix, FromBadge, FromButton, FromStatus, FromEnsure, FromBanner, FromOnCall,
      FromTeam, FromMark, FromAbsent, FromHome, HasMatrix, Known
<1>10. e.since = news => DashboardOf(e, View)
  <2> SUFFICES ASSUME d.since = news
               PROVE  DashboardOf(e, View)
    BY <1>5
  <2>5. HasMatrix(d)
    BY <1>3 DEF DashboardShape
  <2>1. d.team = roster /\ d.absent = onLeave \cap roster /\ View.team = roster /\ View.leave = onLeave
    BY <1>3, <2>5 DEF DashboardOf, View, Seen, FromMark, FromAbsent, FromHome
  <2>2. roster \subseteq Colleagues
    BY DEF PresenceInv, PresenceTypes
  <2>3. \A m \in roster : m \in wfhMemberIDs(roster) <=> m \in View.home
    BY <2>2 DEF wfhMemberIDs, View, Seen, Approved
  <2>4. atHome = (View.team \ View.leave) \cap View.home /\ onSite = (View.team \ View.leave) \ View.home
    BY <2>1, <2>3 DEF atHome, onSite
  <2> QED
    BY <1>3, <1>5, <1>6, <2>4
    DEF DashboardOf, Known, HasMatrix, DashboardShape, FromBadge, FromButton, FromStatus, FromEnsure, FromBanner,
        FromOnCall, FromTeam, FromMark, FromAbsent, FromHome
<1> QED
  BY <1>1, <1>3, <1>6, <1>9, <1>10, WorldStays DEF Went, Advanced, ShapeOf, PageOf

LEMMA buildPresenceListAdvances ==
  ASSUME PresenceAssumption, PresenceInv, buildPresenceList
  PROVE  Went("dashboard")
<1>1. UNCHANGED worldVars
  BY DEF buildPresenceList
<1>2. CASE GoesOn("rows", "done", NoMatrix)
  BY <1>1, <1>2, MatrixIsGone
<1>3. CASE LET d == shown["dashboard"]
               present == d.team \ d.absent
           IN Reads("dashboard", "rows", "done",
                    Closed([atHome |-> present \cap wfhMemberIDs(d.team),
                            onSite |-> present \ wfhMemberIDs(d.team)]))
  BY <1>1, <1>3, PresenceIsListed
<1> QED
  BY <1>2, <1>3 DEF buildPresenceList

(* Whatever the rota had to put right: no cover refers to an original who   *)
(* is not on leave, as the pages after this one see it.                    *)
LEMMA EnsureScheduleAdvances ==
  ASSUME PresenceAssumption, PresenceInv, EnsureSchedule
  PROVE  Went("dashboard")
<1> DEFINE d == shown["dashboard"]
           e == shown'["dashboard"]
           found == [since |-> IF d.since = news THEN news' ELSE d.since]
           kept == {"user", "away", "opened", "failed", "duty", "canSignal", "status"}
<1>1. Reads("dashboard", "ensure", "banner", found)
  BY DEF EnsureSchedule
<1>2. /\ UNCHANGED <<roster, onLeave, wfhRow>>
      /\ news' = (IF hat' = hat THEN news ELSE news + 1)
  BY DEF EnsureSchedule
<1>3. hat \in Hats
  BY DEF PresenceInv, PresenceTypes
<1>4. hat'.linked => hat'.primary \in onLeave'
  <2>1. PICK h \in reconcileCovers(hat) : hat' \in GenerateMissingDays(h)
    BY DEF EnsureSchedule
  <2>2. h \in Hats /\ (h.linked => h.primary \in onLeave)
    BY <1>3 DEF reconcileCovers, Hats
  <2> QED
    BY <1>2, <2>1, <2>2 DEF GenerateMissingDays
<1>5. /\ DOMAIN shown' = Pages /\ \A q \in Pages \ {"dashboard"} : shown'[q] = shown[q]
      /\ d.at = "ensure" /\ e.at = "banner"
      /\ DOMAIN e = {"at"} \cup DOMAIN found \cup DOMAIN d
      /\ \A k \in DOMAIN found \ {"at"} : e[k] = found[k]
      /\ \A k \in DOMAIN d \ ({"at"} \cup DOMAIN found) : e[k] = d[k]
      /\ DashboardShape(d, news) /\ news \in Nat /\ (d.since = news => DashboardOf(d, View))
  BY <1>1, PageReads DEF Pages, ShapeOf, PageOf
<1>6. DOMAIN found = {"since"} /\ e.since = found.since
  BY <1>5
<1>7. /\ kept \subseteq DOMAIN d /\ d.user \in Colleagues \cup {Nobody}
      /\ d.since \in Nat /\ d.opened \in Nat /\ d.opened <= d.since /\ d.since <= news
  BY <1>5
  DEF DashboardShape, FromBadge, FromButton, FromStatus, FromEnsure, FromBanner, FromOnCall,
      FromTeam, FromMark, FromAbsent, FromHome
<1>8. \A k \in kept : e[k] = d[k]
  BY <1>5, <1>6, <1>7
<1>9. news' \in Nat /\ news <= news' /\ (d.since = news => e.since = news') /\ (d.since # news => e.since = d.since)
  BY <1>2, <1>5, <1>6
<1>10. e.since \in Nat /\ e.opened <= e.since /\ e.since <= news'
  BY <1>5, <1>7, <1>8, <1>9
<1>11. DashboardShape(e, news')
  BY <1>5, <1>6, <1>7, <1>8, <1>10
  DEF DashboardShape, Known, HasMatrix, FromBadge, FromButton, FromStatus, FromEnsure, FromBanner, FromOnCall,
      FromTeam, FromMark, FromAbsent, FromHome
<1>12. e.since = news' => DashboardOf(e, View')
  <2> SUFFICES ASSUME e.since = news'
               PROVE  DashboardOf(e, View')
    OBVIOUS
  <2>1. d.since = news
    BY <1>5, <1>7, <1>9
  <2>2. /\ View'.team = View.team /\ View'.leave = View.leave /\ View'.home = View.home
        /\ View.leave = onLeave /\ View.hat = hat /\ View'.hat = hat'
    BY <1>2 DEF View, Seen
  <2>3. /\ Known(d, {"leave"}) => (d.away <=> d.user \in View.leave)
        /\ d.opened = d.since /\ d.duty =>
             /\ d.user \in {hat.primary, hat.cover}
             /\ Known(d, {"leave"}) => d.user \notin View.leave
        /\ d.canSignal /\ d.user \in View.team => d.user \in View.home
        /\ d.user \in View.team /\ Known(d, {"leave", "status"}) =>
             d.status = (IF d.user \in View.leave THEN "away"
                         ELSE IF d.user \in View.home THEN "wfh" ELSE "onsite")
    BY <1>5, <2>1, <2>2 DEF DashboardOf, FromBadge, FromButton, FromStatus, FromEnsure
  <2>4. e.opened = e.since => e.opened = d.since /\ hat' = hat
    BY <1>2, <1>5, <1>7, <1>8, <1>9, <2>1
  <2>8. \A queries : Known(e, queries) <=> Known(d, queries)
    BY <1>8 DEF Known
  <2>5. e.opened = e.since /\ e.duty =>
          /\ e.user \in {View'.hat.primary, View'.hat.cover}
          /\ Known(e, {"leave"}) => e.user \notin View'.leave
    BY <1>8, <2>2, <2>3, <2>4, <2>8
  <2>6. View'.hat.linked => View'.hat.primary \in View'.leave
    BY <1>2, <1>4, <2>2
  <2>7. /\ Known(e, {"leave"}) => (e.away <=> e.user \in View'.leave)
        /\ e.canSignal /\ e.user \in View'.team => e.user \in View'.home
        /\ e.user \in View'.team /\ Known(e, {"leave", "status"}) =>
             e.status = (IF e.user \in View'.leave THEN "away"
                         ELSE IF e.user \in View'.home THEN "wfh" ELSE "onsite")
    BY <1>8, <2>2, <2>3, <2>8
  <2> QED
    BY <1>5, <2>5, <2>6, <2>7
    DEF DashboardOf, FromBadge, FromButton, FromStatus, FromEnsure, FromBanner, FromOnCall,
        FromTeam, FromMark, FromAbsent, FromHome
<1> QED
  BY <1>5, <1>11, <1>12 DEF Went, Advanced, ShapeOf, PageOf

-----------------------------------------------------------------------------
(* The calendar. *)

LEMMA materializeRecurringAdvances ==
  ASSUME PresenceAssumption, PresenceInv, materializeRecurring
  PROVE  Went("calendar")
<1> DEFINE c == shown["calendar"]
           e == shown'["calendar"]
           found == [since |-> news, opened |-> news]
<1>1. Reads("calendar", "idle", "pick", found)
  BY DEF materializeRecurring
<1>2. /\ DOMAIN shown' = Pages /\ \A q \in Pages \ {"calendar"} : shown'[q] = shown[q]
      /\ e.at = "pick" /\ DOMAIN e = {"at"} \cup DOMAIN found \cup DOMAIN c
      /\ \A k \in DOMAIN found \ {"at"} : e[k] = found[k]
      /\ news \in Nat
  BY <1>1, PageReads DEF Pages
<1>3. DOMAIN found = {"since", "opened"} /\ e.since = news
  BY <1>2
<1>4. news' = news /\ NoneLeft'
  BY ContractsAreSeen DEF PresenceInv
<1>5. CalendarShape(e, news')
  BY <1>2, <1>3, <1>4 DEF CalendarShape
<1>6. CalendarOf(e, View')
  BY <1>2 DEF CalendarOf
<1> QED
  BY <1>2, <1>4, <1>5, <1>6 DEF Went, Advanced, ShapeOf, PageOf

(* Who is picked had no row; a contract that was left without one would    *)
(* have had to be picked, and is none.                                     *)
LEMMA RefreshForAdvances ==
  ASSUME PresenceAssumption, PresenceInv, RefreshFor
  PROVE  Went("calendar")
<1> DEFINE c == shown["calendar"]
           e == shown'["calendar"]
           found == [since |-> IF c.since = news THEN news' ELSE c.since]
<1>1. Reads("calendar", "pick", "active", found)
  BY DEF RefreshFor
<1>2. PICK picks \in SUBSET {m \in roster \ onLeave : wfhRow[m] = "none"} :
        /\ wfhRow' = [m \in Colleagues |-> IF m \in picks THEN "assigned" ELSE wfhRow[m]]
        /\ news' = IF picks = {} THEN news ELSE news + 1
  BY DEF RefreshFor
<1>3. UNCHANGED <<roster, onLeave, hat>> /\ wfhRow \in [Colleagues -> RowStates] /\ roster \subseteq Colleagues
  BY DEF RefreshFor, PresenceInv, PresenceTypes
<1>4. /\ DOMAIN shown' = Pages /\ \A q \in Pages \ {"calendar"} : shown'[q] = shown[q]
      /\ c.at = "pick" /\ e.at = "active"
      /\ DOMAIN e = {"at"} \cup DOMAIN found \cup DOMAIN c
      /\ \A k \in DOMAIN found \ {"at"} : e[k] = found[k]
      /\ CalendarShape(c, news) /\ news \in Nat
      /\ Filled(c) /\ c.since = news => NoneLeft
  BY <1>1, PageReads DEF Pages, ShapeOf, PageOf
<1>5. DOMAIN found = {"since"} /\ e.since = found.since
  BY <1>4
<1>6. c.since \in Nat /\ c.since <= news
  BY <1>4 DEF CalendarShape
<1>7. news' \in Nat /\ news <= news'
  BY <1>2, <1>4
<1>8. e.since \in Nat /\ e.since <= news' /\ (e.since = news' => c.since = news)
  BY <1>4, <1>5, <1>6, <1>7
<1>9. CalendarShape(e, news')
  BY <1>4, <1>5, <1>8 DEF CalendarShape
<1>10. CalendarOf(e, View')
  BY <1>4 DEF CalendarOf
<1>11. NoneLeft => NoneLeft'
  BY <1>2, <1>3 DEF NoneLeft
<1>12. e.since = news' => NoneLeft'
  BY <1>4, <1>8, <1>11 DEF Filled
<1> QED
  BY <1>4, <1>9, <1>10, <1>12 DEF Went, Advanced, ShapeOf, PageOf

LEMMA loadActiveAdvances ==
  ASSUME PresenceAssumption, PresenceInv, loadActive
  PROVE  Went("calendar")
<1> DEFINE c == shown["calendar"]
           e == shown'["calendar"]
           found == [team |-> roster]
           kept == {"since"}
<1>1. Reads("calendar", "active", "leave", found) /\ UNCHANGED worldVars
  BY DEF loadActive
<1>2. /\ DOMAIN shown' = Pages /\ \A q \in Pages \ {"calendar"} : shown'[q] = shown[q]
      /\ c.at = "active" /\ e.at = "leave"
      /\ DOMAIN e = {"at"} \cup DOMAIN found \cup DOMAIN c
      /\ \A k \in DOMAIN found \ {"at"} : e[k] = found[k]
      /\ \A k \in DOMAIN c \ ({"at"} \cup DOMAIN found) : e[k] = c[k]
      /\ CalendarShape(c, news) /\ news \in Nat /\ (c.since = news => CalendarOf(c, View))
      /\ Filled(c) /\ c.since = news => NoneLeft
  BY <1>1, PageReads DEF Pages, ShapeOf, PageOf
<1>3. DOMAIN found = {"team"} /\ e.team = found.team
  BY <1>2
<1>4. kept \subseteq DOMAIN c
  BY <1>2 DEF CalendarShape
<1>5. \A k \in kept : e[k] = c[k]
  BY <1>2, <1>3, <1>4
<1>6. CalendarShape(e, news)
  BY <1>2, <1>3, <1>4, <1>5 DEF CalendarShape
<1>7. e.since = news => CalendarOf(e, View)
  <2>1. View.team = roster
    BY DEF View, Seen
  <2> QED
    BY <1>2, <1>3, <1>5, <2>1 DEF CalendarOf
<1> QED
  BY <1>1, <1>2, <1>5, <1>6, <1>7, WorldStays DEF Went, Advanced, ShapeOf, PageOf, Filled

LEMMA loadLeaveAdvances ==
  ASSUME PresenceAssumption, PresenceInv, loadLeave
  PROVE  Went("calendar")
<1> DEFINE c == shown["calendar"]
           e == shown'["calendar"]
           found == [absent |-> onLeave]
           kept == {"since", "team"}
<1>1. Reads("calendar", "leave", "rows", found) /\ UNCHANGED worldVars
  BY DEF loadLeave
<1>2. /\ DOMAIN shown' = Pages /\ \A q \in Pages \ {"calendar"} : shown'[q] = shown[q]
      /\ c.at = "leave" /\ e.at = "rows"
      /\ DOMAIN e = {"at"} \cup DOMAIN found \cup DOMAIN c
      /\ \A k \in DOMAIN found \ {"at"} : e[k] = found[k]
      /\ \A k \in DOMAIN c \ ({"at"} \cup DOMAIN found) : e[k] = c[k]
      /\ CalendarShape(c, news) /\ news \in Nat /\ (c.since = news => CalendarOf(c, View))
      /\ Filled(c) /\ c.since = news => NoneLeft
  BY <1>1, PageReads DEF Pages, ShapeOf, PageOf
<1>3. DOMAIN found = {"absent"} /\ e.absent = found.absent
  BY <1>2
<1>4. kept \subseteq DOMAIN c
  BY <1>2 DEF CalendarShape
<1>5. \A k \in kept : e[k] = c[k]
  BY <1>2, <1>3, <1>4
<1>6. CalendarShape(e, news)
  BY <1>2, <1>3, <1>4, <1>5 DEF CalendarShape
<1>7. e.since = news => CalendarOf(e, View)
  <2>1. View.leave = onLeave
    BY DEF View, Seen
  <2> QED
    BY <1>2, <1>3, <1>5, <2>1 DEF CalendarOf
<1> QED
  BY <1>1, <1>2, <1>5, <1>6, <1>7, WorldStays DEF Went, Advanced, ShapeOf, PageOf, Filled

LEMMA splitActiveByFlagsAdvances ==
  ASSUME PresenceAssumption, PresenceInv, splitActiveByFlags
  PROVE  Went("calendar")
<1> DEFINE c == shown["calendar"]
           e == shown'["calendar"]
           found == [absent |-> c.team \cap c.absent,
                     atHome |-> (c.team \ c.absent) \cap Approved,
                     onSite |-> (c.team \ c.absent) \ Approved]
           kept == {"since", "team"}
<1>1. Reads("calendar", "rows", "hat", found) /\ UNCHANGED worldVars
  BY DEF splitActiveByFlags
<1>2. /\ DOMAIN shown' = Pages /\ \A q \in Pages \ {"calendar"} : shown'[q] = shown[q]
      /\ c.at = "rows" /\ e.at = "hat"
      /\ DOMAIN e = {"at"} \cup DOMAIN found \cup DOMAIN c
      /\ \A k \in DOMAIN found \ {"at"} : e[k] = found[k]
      /\ \A k \in DOMAIN c \ ({"at"} \cup DOMAIN found) : e[k] = c[k]
      /\ CalendarShape(c, news) /\ news \in Nat /\ (c.since = news => CalendarOf(c, View))
      /\ Filled(c) /\ c.since = news => NoneLeft
  BY <1>1, PageReads DEF Pages, ShapeOf, PageOf
<1>3. /\ DOMAIN found = {"absent", "atHome", "onSite"} /\ e.absent = c.team \cap c.absent
      /\ e.atHome = (c.team \ c.absent) \cap Approved /\ e.onSite = (c.team \ c.absent) \ Approved
  BY <1>2
<1>4. kept \subseteq DOMAIN c
  BY <1>2 DEF CalendarShape
<1>5. \A k \in kept : e[k] = c[k]
  BY <1>2, <1>3, <1>4
<1>6. PartOf(e) /\ e.absent \cap e.atHome = {}
  BY <1>3, <1>5 DEF PartOf
<1>7. CalendarShape(e, news)
  BY <1>2, <1>3, <1>4, <1>5, <1>6 DEF CalendarShape
<1>8. e.since = news => CalendarOf(e, View)
  <2> SUFFICES ASSUME c.since = news
               PROVE  CalendarOf(e, View)
    BY <1>5
  <2>1. c.team = roster /\ c.absent = onLeave /\ View.team = roster /\ View.leave = onLeave
    BY <1>2 DEF CalendarOf, View, Seen
  <2>2. NoneLeft /\ roster \subseteq Colleagues
    BY <1>2 DEF Filled, PresenceInv, PresenceTypes
  <2>3. \A m \in roster : m \in Approved <=> m \in View.home
    BY <2>2 DEF View, Seen, Approved, NoneLeft
  <2>4. /\ e.absent = View.leave \cap View.team
        /\ e.atHome = (View.team \ View.leave) \cap View.home /\ e.onSite = (View.team \ View.leave) \ View.home
    BY <1>3, <2>1, <2>3
  <2> QED
    BY <1>2, <1>5, <2>1, <2>4 DEF CalendarOf
<1> QED
  BY <1>1, <1>2, <1>7, <1>8, WorldStays DEF Went, Advanced, ShapeOf, PageOf, Filled

LEMMA getHATForDateAdvances ==
  ASSUME PresenceAssumption, PresenceInv, getHATForDate
  PROVE  Went("calendar")
<1> DEFINE c == shown["calendar"]
           e == shown'["calendar"]
           first == IF hat.cover # Nobody THEN hat.cover ELSE hat.primary
           found == Closed([assigned |-> first])
           kept == {"since", "team", "absent", "atHome", "onSite"}
<1>1. Reads("calendar", "hat", "done", found) /\ UNCHANGED worldVars
  BY DEF getHATForDate
<1>2. DOMAIN found = {"assigned", "till"} /\ found.assigned = first /\ found.till = news
  BY DEF Closed, Over
<1> HIDE DEF found
<1>3. /\ DOMAIN shown' = Pages /\ \A q \in Pages \ {"calendar"} : shown'[q] = shown[q]
      /\ c.at = "hat" /\ e.at = "done"
      /\ DOMAIN e = {"at"} \cup DOMAIN found \cup DOMAIN c
      /\ \A k \in DOMAIN found \ {"at"} : e[k] = found[k]
      /\ \A k \in DOMAIN c \ ({"at"} \cup DOMAIN found) : e[k] = c[k]
      /\ CalendarShape(c, news) /\ news \in Nat /\ (c.since = news => CalendarOf(c, View))
  BY <1>1, PageReads DEF Pages, ShapeOf, PageOf
<1>4. kept \subseteq DOMAIN c
  BY <1>3 DEF CalendarShape
<1>5. \A k \in kept : e[k] = c[k]
  BY <1>2, <1>3, <1>4
<1>6. e.assigned = first /\ e.till = news
  BY <1>2, <1>3
<1>7. PartOf(e) /\ e.absent \cap e.atHome = {}
  BY <1>3, <1>5 DEF CalendarShape, PartOf
<1>8. CalendarShape(e, news)
  BY <1>2, <1>3, <1>4, <1>5, <1>6, <1>7 DEF CalendarShape
<1>9. e.since = news => CalendarOf(e, View)
  <2> SUFFICES ASSUME c.since = news
               PROVE  CalendarOf(e, View)
    BY <1>5
  <2>1. View.hat = hat
    BY DEF View, Seen
  <2> QED
    BY <1>3, <1>5, <1>6, <2>1 DEF CalendarOf
<1> QED
  BY <1>1, <1>3, <1>6, <1>8, <1>9, WorldStays DEF Went, Advanced, ShapeOf, PageOf, Filled

-----------------------------------------------------------------------------
(* GET /presence/today. *)

LEMMA handleGetPresenceTodayAdvances ==
  ASSUME PresenceAssumption, PresenceInv, handleGetPresenceToday
  PROVE  Went("api")
<1> DEFINE a == shown["api"]
           e == shown'["api"]
           found == Opened([team |-> roster])
<1>1. Reads("api", "idle", "leave", found) /\ UNCHANGED worldVars
  BY DEF handleGetPresenceToday
<1>2. DOMAIN found = {"team", "since", "opened"} /\ found.team = roster /\ found.since = news
  BY DEF Opened, Over
<1> HIDE DEF found
<1>3. /\ DOMAIN shown' = Pages /\ \A q \in Pages \ {"api"} : shown'[q] = shown[q]
      /\ e.at = "leave" /\ DOMAIN e = {"at"} \cup DOMAIN found \cup DOMAIN a
      /\ \A k \in DOMAIN found \ {"at"} : e[k] = found[k]
      /\ news \in Nat
  BY <1>1, PageReads DEF Pages
<1>4. e.team = roster /\ e.since = news
  BY <1>2, <1>3
<1>5. ApiShape(e, news)
  BY <1>2, <1>3, <1>4 DEF ApiShape
<1>6. ApiOf(e, View)
  BY <1>3, <1>4 DEF ApiOf, View, Seen
<1> QED
  BY <1>1, <1>3, <1>5, <1>6, WorldStays DEF Went, Advanced, ShapeOf, PageOf

LEMMA apiLeaveAdvances ==
  ASSUME PresenceAssumption, PresenceInv, apiLeave
  PROVE  Went("api")
<1> DEFINE a == shown["api"]
           e == shown'["api"]
           found == [absent |-> onLeave \cap a.team]
           kept == {"since", "team"}
<1>1. Reads("api", "leave", "rows", found) /\ UNCHANGED worldVars
  BY DEF apiLeave
<1>2. /\ DOMAIN shown' = Pages /\ \A q \in Pages \ {"api"} : shown'[q] = shown[q]
      /\ a.at = "leave" /\ e.at = "rows"
      /\ DOMAIN e = {"at"} \cup DOMAIN found \cup DOMAIN a
      /\ \A k \in DOMAIN found \ {"at"} : e[k] = found[k]
      /\ \A k \in DOMAIN a \ ({"at"} \cup DOMAIN found) : e[k] = a[k]
      /\ ApiShape(a, news) /\ news \in Nat /\ (a.since = news => ApiOf(a, View))
  BY <1>1, PageReads DEF Pages, ShapeOf, PageOf
<1>3. DOMAIN found = {"absent"} /\ e.absent = found.absent
  BY <1>2
<1>4. kept \subseteq DOMAIN a
  BY <1>2 DEF ApiShape
<1>5. \A k \in kept : e[k] = a[k]
  BY <1>2, <1>3, <1>4
<1>6. ApiShape(e, news)
  BY <1>2, <1>3, <1>4, <1>5 DEF ApiShape
<1>7. e.since = news => ApiOf(e, View)
  <2>1. View.leave = onLeave
    BY DEF View, Seen
  <2> QED
    BY <1>2, <1>3, <1>5, <2>1 DEF ApiOf
<1> QED
  BY <1>1, <1>2, <1>5, <1>6, <1>7, WorldStays DEF Went, Advanced, ShapeOf, PageOf

LEMMA buildPresenceListsWithWFHAdvances ==
  ASSUME PresenceAssumption, PresenceInv, buildPresenceListsWithWFH
  PROVE  Went("api")
<1> DEFINE a == shown["api"]
           e == shown'["api"]
           remote == (Approved \cap a.team) \cup ((Contract \cap a.team) \ a.absent)
           found == [atHome |-> remote, onSite |-> a.team \ (a.absent \cup remote)]
           kept == {"since", "team", "absent"}
<1>1. Reads("api", "rows", "hat", found) /\ UNCHANGED worldVars
  BY DEF buildPresenceListsWithWFH
<1>2. /\ DOMAIN shown' = Pages /\ \A q \in Pages \ {"api"} : shown'[q] = shown[q]
      /\ a.at = "rows" /\ e.at = "hat"
      /\ DOMAIN e = {"at"} \cup DOMAIN found \cup DOMAIN a
      /\ \A k \in DOMAIN found \ {"at"} : e[k] = found[k]
      /\ \A k \in DOMAIN a \ ({"at"} \cup DOMAIN found) : e[k] = a[k]
      /\ ApiShape(a, news) /\ news \in Nat /\ (a.since = news => ApiOf(a, View))
  BY <1>1, PageReads DEF Pages, ShapeOf, PageOf
<1>3. DOMAIN found = {"atHome", "onSite"} /\ e.atHome = remote /\ e.onSite = a.team \ (a.absent \cup remote)
  BY <1>2
<1>4. kept \subseteq DOMAIN a
  BY <1>2 DEF ApiShape
<1>5. \A k \in kept : e[k] = a[k]
  BY <1>2, <1>3, <1>4
<1>6. a.absent \subseteq a.team
  BY <1>2 DEF ApiShape
<1>7. PartOf(e)
  BY <1>3, <1>5, <1>6 DEF PartOf
<1>8. ApiShape(e, news)
  BY <1>2, <1>3, <1>4, <1>5, <1>6, <1>7 DEF ApiShape
<1>9. e.since = news => ApiOf(e, View)
  <2> SUFFICES ASSUME a.since = news
               PROVE  ApiOf(e, View)
    BY <1>5
  <2>1. /\ a.team = roster /\ a.absent = onLeave \cap roster
        /\ View.team = roster /\ View.leave = onLeave /\ roster \subseteq Colleagues
    BY <1>2 DEF ApiOf, View, Seen, PresenceInv, PresenceTypes
  <2>2. \A m \in roster : m \in View.out <=> m \in Approved \cup Contract
    BY <2>1 DEF View, Seen, Approved
  <2>3. e.onSite = (View.team \ View.leave) \ View.out
    BY <1>3, <2>1, <2>2
  <2> QED
    BY <1>2, <1>5, <2>1, <2>3 DEF ApiOf
<1> QED
  BY <1>1, <1>2, <1>8, <1>9, WorldStays DEF Went, Advanced, ShapeOf, PageOf

LEMMA selectSupportMemberAdvances ==
  ASSUME PresenceAssumption, PresenceInv, selectSupportMember
  PROVE  Went("api")
<1> DEFINE a == shown["api"]
           e == shown'["api"]
           found == Closed([assigned |-> OnCall(a.team)])
           kept == {"since", "team", "absent", "atHome", "onSite"}
<1>1. Reads("api", "hat", "done", found) /\ UNCHANGED worldVars
  BY DEF selectSupportMember
<1>2. DOMAIN found = {"assigned", "till"} /\ found.assigned = OnCall(a.team) /\ found.till = news
  BY DEF Closed, Over
<1> HIDE DEF found
<1>3. /\ DOMAIN shown' = Pages /\ \A q \in Pages \ {"api"} : shown'[q] = shown[q]
      /\ a.at = "hat" /\ e.at = "done"
      /\ DOMAIN e = {"at"} \cup DOMAIN found \cup DOMAIN a
      /\ \A k \in DOMAIN found \ {"at"} : e[k] = found[k]
      /\ \A k \in DOMAIN a \ ({"at"} \cup DOMAIN found) : e[k] = a[k]
      /\ ApiShape(a, news) /\ news \in Nat /\ (a.since = news => ApiOf(a, View))
  BY <1>1, PageReads DEF Pages, ShapeOf, PageOf
<1>4. kept \subseteq DOMAIN a
  BY <1>3 DEF ApiShape
<1>5. \A k \in kept : e[k] = a[k]
  BY <1>2, <1>3, <1>4
<1>6. e.assigned = OnCall(a.team) /\ e.till = news
  BY <1>2, <1>3
<1>7. a.absent \subseteq a.team /\ PartOf(e)
  BY <1>3, <1>5 DEF ApiShape, PartOf
<1>8. ApiShape(e, news)
  BY <1>2, <1>3, <1>4, <1>5, <1>6, <1>7 DEF ApiShape
<1>9. e.since = news => ApiOf(e, View)
  <2> SUFFICES ASSUME a.since = news
               PROVE  ApiOf(e, View)
    BY <1>5
  <2>1. View.hat = hat /\ View.team = roster
    BY DEF View, Seen
  <2>2. OnCall(roster) = Marked(View)
    BY <2>1 DEF OnCall, Marked
  <2> QED
    BY <1>3, <1>5, <1>6, <2>1, <2>2 DEF ApiOf
<1> QED
  BY <1>1, <1>3, <1>6, <1>8, <1>9, WorldStays DEF Went, Advanced, ShapeOf, PageOf

-----------------------------------------------------------------------------
(* The whole of it. *)

LEMMA PresenceBegins ==
  ASSUME PresenceAssumption, PresenceInit
  PROVE  PresenceInv
<1>1. /\ roster = Colleagues /\ onLeave = {} /\ news = 0 /\ hat \in Hats
      /\ wfhRow = [m \in Colleagues |-> "none"] /\ shown = [p \in Pages |-> [at |-> "idle"]]
  BY DEF PresenceInit
<1>2. PresenceTypes
  BY <1>1 DEF PresenceTypes, RowStates
<1>3. \A p \in Pages : shown[p].at = "idle" /\ "at" \in DOMAIN shown[p]
  BY <1>1
<1>4. Shapes
  BY <1>3
  DEF Shapes, ShapeOf, Pages, DashboardShape, CalendarShape, ApiShape, FromBadge, FromButton, FromStatus,
      FromEnsure, FromBanner, FromOnCall, FromTeam, FromMark, FromAbsent, FromHome
<1>5. \A p \in Pages : ~Current(p) /\ ~Undisturbed(p)
  BY <1>3 DEF Current, Undisturbed, Done
<1>6. Sensible(View)
  BY <1>1, SeenIsSensible DEF View
<1> DEFINE past == [n \in Nat |-> View]
<1>7. past \in [Nat -> Views] /\ past[news] = View /\ \A n \in Nat : past[n] = View
  BY <1>1, <1>6 DEF Sensible
<1> HIDE DEF past
<1>8. Remembered(past)
  BY <1>5, <1>6, <1>7 DEF Remembered
<1> QED
  BY <1>2, <1>4, <1>5, <1>8 DEF PresenceInv, Pages

(* One step of a page, or of the world.                                    *)
LEMMA PresenceGoesOn ==
  ASSUME PresenceAssumption, PresenceInv, [PresenceNext]_presenceVars
  PROVE  PresenceInv'
<1>1. ASSUME NEW p \in Pages, Went(p)
      PROVE  PresenceInv'
  BY <1>1, OnePageAdvances DEF Went
<1>2. ASSUME UNCHANGED shown
      PROVE  PresenceInv'
  <2>1. /\ DOMAIN shown' = Pages /\ shown'["api"] = shown["api"]
        /\ \A q \in Pages \ {"api"} : shown'[q] = shown[q]
    BY <1>2 DEF PresenceInv, PresenceTypes
  <2> QED
    BY <2>1, OnePageAdvances DEF Pages
<1>3. CASE \/ buildUserLeaveDates \/ noMember \/ HasHATDay \/ loadSignalOnSiteOptions
           \/ loadCurrentUserPresenceStatus \/ EnsureSchedule \/ loadCurrentHAT
           \/ isPrimaryOnLeaveToday \/ getUpcomingPresenceFrom \/ getAssignedMember
           \/ GetLeaveByDate \/ buildPresenceList
  <2>1. Went("dashboard")
    BY <1>3, buildUserLeaveDatesAdvances, noMemberAdvances, HasHATDayAdvances, loadSignalOnSiteOptionsAdvances,
       loadCurrentUserPresenceStatusAdvances, EnsureScheduleAdvances, loadCurrentHATAdvances,
       isPrimaryOnLeaveTodayAdvances, getUpcomingPresenceFromAdvances, getAssignedMemberAdvances,
       GetLeaveByDateAdvances, buildPresenceListAdvances
  <2> QED
    BY <1>1, <2>1 DEF Pages
<1>4. CASE \/ materializeRecurring \/ RefreshFor \/ loadActive \/ loadLeave
           \/ splitActiveByFlags \/ getHATForDate
  <2>1. Went("calendar")
    BY <1>4, materializeRecurringAdvances, RefreshForAdvances, loadActiveAdvances, loadLeaveAdvances,
       splitActiveByFlagsAdvances, getHATForDateAdvances
  <2> QED
    BY <1>1, <2>1 DEF Pages
<1>5. CASE handleGetPresenceToday \/ apiLeave \/ buildPresenceListsWithWFH \/ selectSupportMember
  <2>1. Went("api")
    BY <1>5, handleGetPresenceTodayAdvances, apiLeaveAdvances, buildPresenceListsWithWFHAdvances,
       selectSupportMemberAdvances
  <2> QED
    BY <1>1, <2>1 DEF Pages
<1>6. CASE News
  BY <1>2, <1>6 DEF News
<1>7. CASE UNCHANGED presenceVars
  BY <1>2, <1>7 DEF presenceVars
<1> QED
  BY <1>3, <1>4, <1>5, <1>6, <1>7 DEF PresenceNext

(* The dashboard, the calendar and GET /presence/today tell the same of a  *)
(* day on which nothing happened between their first and last queries, and *)
(* no finished page leaves out a member of its team or has him both on     *)
(* site and away: for any team, however the steps of the pages and of the  *)
(* world interleave.                                                       *)
THEOREM PagesTellTheSame == PresenceSpec => []PagesAgree
<1>1. PresenceInit => PresenceInv
  BY PresenceBegins, PresenceAssumption
<1>2. PresenceInv /\ [PresenceNext]_presenceVars => PresenceInv'
  BY PresenceGoesOn, PresenceAssumption
<1>3. PresenceInv => PagesAgree
  BY RememberedPagesAgree, PresenceAssumption
<1> QED
  BY <1>1, <1>2, <1>3, PTL DEF PresenceSpec

-----------------------------------------------------------------------------
(* Holiday *)

\* A goroutine that has begun to fetch is waited for: Stop does not return before it
\* has stored what it found.  Those that were only asked for look at the service first.
FetchesAreWaitedFor ==
  /\ DOMAIN fetch = Fetches
  /\ \A i \in Fetches : Fetching(i, "get") => service \in {"running", "stopping"}

LEMMA FetchingGoesOn ==
  ASSUME FetchesAreWaitedFor, [HolidayNext]_holidayVars
  PROVE  FetchesAreWaitedFor'
<1> USE DEF FetchesAreWaitedFor, Fetching
<1>1. CASE InitializeHolidayService
  BY <1>1 DEF InitializeHolidayService, Spawn
<1>2. CASE periodicFetch
  BY <1>2 DEF periodicFetch, Spawn
<1>3. CASE handleRefreshHolidays
  BY <1>3 DEF handleRefreshHolidays
<1>4. ASSUME NEW i \in Fetches, FetchStep(i)
      PROVE  FetchesAreWaitedFor'
  <2>1. CASE ForceFetch(i)
    BY <2>1 DEF ForceFetch, Spawn
  <2>2. CASE runFetch(i)
    BY <2>2 DEF runFetch, StillRunning, NoFetch
  <2>3. CASE FetchAndParse(i)
    BY <2>3 DEF FetchAndParse
  <2>4. CASE FetchMultiple(i)
    BY <2>4 DEF FetchMultiple, NoFetch
  <2> QED
    BY <1>4, <2>1, <2>2, <2>3, <2>4 DEF FetchStep
<1>5. ASSUME NEW i \in Fetches, RequestEnds(i)
      PROVE  FetchesAreWaitedFor'
  BY <1>5 DEF RequestEnds
<1>6. CASE Stop
  BY <1>6 DEF Stop
<1>7. CASE StopReturns
  BY <1>7 DEF StopReturns
<1>8. CASE ReassignDay \/ Change \/ UNCHANGED holidayVars
  BY <1>8 DEF ReassignDay, Change, holidayVars
<1> QED
  BY <1>1, <1>2, <1>3, <1>4, <1>5, <1>6, <1>7, <1>8 DEF HolidayNext

(* Once Stop has returned no goroutine changes the store, whether it was    *)
(* started by the ticker or asked for by an administrator, for any number  *)
(* of feeds and goroutines.                                                *)
THEOREM StoreIsQuietAfterStop ==
  HolidaySpec => QuietAfterStop
<1>1. HolidayInit => FetchesAreWaitedFor
  BY DEF HolidayInit, FetchesAreWaitedFor, Fetching, NoFetch
<1>2. FetchesAreWaitedFor /\ [HolidayNext]_holidayVars => FetchesAreWaitedFor'
  BY FetchingGoesOn
<1>3. FetchesAreWaitedFor /\ [HolidayNext]_holidayVars => [service = "stopped" => store' = store]_holidayVars
  <2>1. SUFFICES ASSUME FetchesAreWaitedFor, [HolidayNext]_holidayVars, service = "stopped"
                 PROVE  store' = store
    OBVIOUS
  <2>2. \A i \in Fetches : ~FetchMultiple(i)
    BY <2>1 DEF FetchesAreWaitedFor, FetchMultiple
  <2> QED
    BY <2>1, <2>2
    DEF HolidayNext, holidayVars, InitializeHolidayService, periodicFetch, handleRefreshHolidays, FetchStep,
        ForceFetch, runFetch, FetchAndParse, RequestEnds, Stop, StopReturns, ReassignDay, Change
<1> QED
  BY <1>1, <1>2, <1>3, PTL DEF HolidaySpec, QuietAfterStop

\* What a goroutine is at, and what it has fetched so far.
Idles == [at : {"none", "asked"}]
Runs == [at : {"run"}, ctx : {"background", "request", "cancelled"}]
Gets == [at : {"get"}, ctx : {"background", "request", "cancelled"},
         todo : SUBSET Feeds, got : SUBSET Dates, failed : BOOLEAN]
FetchShapes == fetch \in [Fetches -> Idles \cup Runs \cup Gets]

LEMMA FetchKinds ==
  ASSUME FetchShapes, NEW i \in Fetches
  PROVE  /\ fetch[i].at \in {"none", "asked", "run", "get"}
         /\ fetch[i].at \in {"none", "asked"} => fetch[i] \in Idles
         /\ fetch[i].at = "run" => fetch[i] \in Runs
         /\ fetch[i].at = "get" => fetch[i] \in Gets
<1>1. CASE fetch[i] \in Idles
  <2>1. fetch[i].at \in {"none", "asked"}
    BY <1>1 DEF Idles
  <2> QED
    BY <1>1, <2>1
<1>2. CASE fetch[i] \in Runs
  <2>1. fetch[i].at = "run"
    BY <1>2 DEF Runs
  <2> QED
    BY <1>2, <2>1
<1>3. CASE fetch[i] \in Gets
  <2>1. fetch[i].at = "get"
    BY <1>3 DEF Gets
  <2> QED
    BY <1>3, <2>1
<1> QED
  BY <1>1, <1>2, <1>3 DEF FetchShapes

LEMMA FetchShapesKept ==
  ASSUME FetchShapes, HolidayTypeOK, [HolidayNext]_holidayVars
  PROVE  FetchShapes'
<1>1. CASE \E i \in Fetches : ForceFetch(i)
  BY <1>1 DEF ForceFetch, Spawn, FetchShapes, Runs
<1>2. CASE \E i \in Fetches : runFetch(i)
  <2>1. PICK i \in Fetches : runFetch(i)
    BY <1>2
  <2>2. fetch[i].at = "run" /\ fetch[i] \in Runs
    BY <2>1, FetchKinds DEF runFetch, Fetching
  <2>3. fetch[i].ctx \in {"background", "request", "cancelled"}
    BY <2>2 DEF Runs
  <2> DEFINE begun == [at |-> "get", ctx |-> fetch[i].ctx, todo |-> Feeds, got |-> {}, failed |-> FALSE]
  <2>4. begun \in Gets /\ NoFetch \in Idles
    BY <2>3 DEF Gets, Idles, NoFetch
  <2>5. fetch' = [fetch EXCEPT ![i] = IF StillRunning THEN begun ELSE NoFetch]
    BY <2>1 DEF runFetch
  <2> HIDE DEF begun
  <2> QED
    BY <2>4, <2>5 DEF FetchShapes
<1>3. CASE \E i \in Fetches : RequestEnds(i)
  <2>1. PICK i \in Fetches : RequestEnds(i)
    BY <1>3
  <2>2. fetch' = [fetch EXCEPT ![i] = [fetch[i] EXCEPT !.ctx = "cancelled"]]
    BY <2>1 DEF RequestEnds
  <2>3. fetch[i] \in Runs => [fetch[i] EXCEPT !.ctx = "cancelled"] \in Runs
    BY DEF Runs
  <2>4. fetch[i] \in Gets => [fetch[i] EXCEPT !.ctx = "cancelled"] \in Gets
    BY DEF Gets
  <2>5. fetch[i] \in Runs \/ fetch[i] \in Gets
    BY <2>1, FetchKinds DEF RequestEnds
  <2> QED
    BY <2>2, <2>3, <2>4, <2>5 DEF FetchShapes
<1>4. CASE \E i \in Fetches : FetchAndParse(i)
  <2>1. PICK i \in Fetches : FetchAndParse(i)
    BY <1>4
  <2>2. fetch[i] \in Gets
    BY <2>1, FetchKinds DEF FetchAndParse, Fetching
  <2>3. PICK f \in fetch[i].todo :
          LET ok == f \in reachable /\ fetch[i].ctx # "cancelled" /\ published[f] # {}
          IN fetch' = [fetch EXCEPT ![i] = [fetch[i] EXCEPT
                         !.todo = fetch[i].todo \ {f},
                         !.got = IF ok THEN fetch[i].got \cup published[f] ELSE fetch[i].got,
                         !.failed = fetch[i].failed \/ ~ok]]
    BY <2>1 DEF FetchAndParse
  <2> DEFINE ok == f \in reachable /\ fetch[i].ctx # "cancelled" /\ published[f] # {}
             todo == fetch[i].todo \ {f}
             got == IF ok THEN fetch[i].got \cup published[f] ELSE fetch[i].got
             failed == fetch[i].failed \/ ~ok
  <2>4. todo \in SUBSET Feeds /\ got \in SUBSET Dates /\ failed \in BOOLEAN
    <3>1. fetch[i].todo \in SUBSET Feeds /\ fetch[i].got \in SUBSET Dates
      BY <2>2 DEF Gets
    <3>2. published[f] \in SUBSET Dates
      BY <3>1 DEF HolidayTypeOK
    <3> QED
      BY <3>1, <3>2
  <2>5. fetch' = [fetch EXCEPT ![i] = [fetch[i] EXCEPT !.todo = todo, !.got = got, !.failed = failed]]
    BY <2>3
  <2> HIDE DEF ok, todo, got, failed
  <2>6. [fetch[i] EXCEPT !.todo = todo, !.got = got, !.failed = failed] \in Gets
    BY <2>2, <2>4 DEF Gets
  <2> QED
    BY <2>5, <2>6 DEF FetchShapes
<1>5. CASE \E i \in Fetches : FetchMultiple(i)
  BY <1>5 DEF FetchMultiple, NoFetch, Idles, FetchShapes
<1>6. CASE InitializeHolidayService \/ periodicFetch
  BY <1>6 DEF InitializeHolidayService, periodicFetch, Spawn, FetchShapes, Runs
<1>7. CASE handleRefreshHolidays
  <2>1. PICK i \in Fetches : fetch[i].at = "none" /\ fetch' = [fetch EXCEPT ![i] = [fetch[i] EXCEPT !.at = "asked"]]
    BY <1>7 DEF handleRefreshHolidays, Fetching
  <2>2. fetch[i] \in Idles
    BY <2>1, FetchKinds
  <2>3. [fetch[i] EXCEPT !.at = "asked"] \in Idles
    BY <2>2 DEF Idles
  <2> QED
    BY <2>1, <2>3 DEF FetchShapes
<1>8. CASE UNCHANGED fetch
  BY <1>8 DEF FetchShapes
<1> QED
  BY <1>1, <1>2, <1>3, <1>4, <1>5, <1>6, <1>7, <1>8
     DEF HolidayNext, FetchStep, holidayVars, Stop, StopReturns, ReassignDay, Change

LEMMA HolidayTypesKept ==
  ASSUME HolidayTypeOK, FetchShapes, [HolidayNext]_holidayVars
  PROVE  HolidayTypeOK'
<1>0. FetchShapes' /\ {MaxChanges, MaxRefreshes} \subseteq Nat
  BY FetchShapesKept, HolidayAssumption DEF HolidayAssumption
<1>a. \A i \in Fetches : fetch'[i].at \in {"none", "asked", "run", "get"}
  BY <1>0 DEF FetchShapes, Idles, Runs, Gets
<1>1. CASE \E i \in Fetches : ForceFetch(i) \/ runFetch(i) \/ RequestEnds(i) \/ FetchAndParse(i)
  BY <1>a, <1>1 DEF ForceFetch, runFetch, RequestEnds, FetchAndParse, world, reassignment, HolidayTypeOK
<1>2. CASE \E i \in Fetches : FetchMultiple(i)
  <2>1. PICK i \in Fetches : FetchMultiple(i)
    BY <1>2
  <2>2. fetch[i].got \in SUBSET Dates
    BY <2>1, FetchKinds DEF FetchMultiple, Fetching, Gets
  <2>3. store' \subseteq Dates
    BY <2>1, <2>2 DEF FetchMultiple, UpdateHolidays, HolidayTypeOK
  <2> QED
    BY <1>a, <2>1, <2>3 DEF FetchMultiple, world, reassignment, HolidayTypeOK
<1>3. CASE InitializeHolidayService \/ periodicFetch
  BY <1>a, <1>3 DEF InitializeHolidayService, periodicFetch, world, reassignment, HolidayTypeOK
<1>4. CASE handleRefreshHolidays
  BY <1>0, <1>a, <1>4 DEF handleRefreshHolidays, world, reassignment, HolidayTypeOK
<1>5. CASE Stop \/ StopReturns
  BY <1>a, <1>5 DEF Stop, StopReturns, world, reassignment, HolidayTypeOK
<1>6. CASE ReassignDay
  BY <1>a, <1>6 DEF ReassignDay, world, HolidayTypeOK
<1>7. CASE Change
  BY <1>0, <1>a, <1>7 DEF Change, reassignment, HolidayTypeOK
<1>8. CASE UNCHANGED holidayVars
  BY <1>a, <1>8 DEF holidayVars, HolidayTypeOK
<1> QED
  BY <1>1, <1>2, <1>3, <1>4, <1>5, <1>6, <1>7, <1>8 DEF HolidayNext, FetchStep

(* The store holds dates that some feed can publish, and covers are only   *)
(* given to days that were looked at.                                      *)
THEOREM HolidayTypeCorrect == HolidaySpec => []HolidayTypeOK
<1>1. HolidayInit => HolidayTypeOK /\ FetchShapes
  BY HolidayAssumption DEF HolidayInit, HolidayTypeOK, FetchShapes, Idles, NoFetch, HolidayAssumption
<1>2. HolidayTypeOK /\ FetchShapes /\ [HolidayNext]_holidayVars => (HolidayTypeOK /\ FetchShapes)'
  BY HolidayTypesKept, FetchShapesKept
<1> QED
  BY <1>1, <1>2, PTL DEF HolidaySpec

=============================================================================
