----------------------------- MODULE RotaProofs -----------------------------
(***************************************************************************)
(* What the pure operators of the rotation promise for every team and      *)
(* every calendar, and the proof that the hat goes round.                  *)
(***************************************************************************)
EXTENDS Rota, FiniteSetTheorems, FunctionTheorems, SequenceTheorems, TLAPS

-----------------------------------------------------------------------------
(* Sets in order. *)

\* A strict total order on a finite set; before[x] are the elements below x.
IsOrder(S, before) ==
  /\ IsFiniteSet(S) /\ before \in [S -> SUBSET S]
  /\ \A x \in S : x \notin before[x]
  /\ \A x, y \in S : x = y \/ x \in before[y] \/ y \in before[x]
  /\ \A x, y \in S : x \in before[y] => before[x] \subseteq before[y]

\* As many places as elements, each taken by one element.
PlacesAreTaken(S, before) ==
  /\ Cardinality(S) \in Nat
  /\ \A x \in S : Cardinality(before[x]) \in 0..Cardinality(S)-1
  /\ \A x, y \in S : Cardinality(before[x]) = Cardinality(before[y]) => x = y
  /\ \A i \in 0..Cardinality(S)-1 : \E x \in S : Cardinality(before[x]) = i

(* In a strict total order on a finite set every position is taken, and by *)
(* one element only: the elements are counted by those before them.        *)
LEMMA RanksAreOnto ==
  ASSUME NEW S, NEW before, IsOrder(S, before)
  PROVE  PlacesAreTaken(S, before)
<1> USE DEF IsOrder
<1> DEFINE n == Cardinality(S)
           rank == [x \in S |-> Cardinality(before[x])]
<1>1. n \in Nat
  BY FS_CardinalityType
<1>2. ASSUME NEW T \in SUBSET S, NEW U \in SUBSET T, U # T
      PROVE  Cardinality(U) \in Nat /\ Cardinality(T) \in Nat /\ Cardinality(U) < Cardinality(T)
  <2>1. IsFiniteSet(T)
    BY FS_Subset
  <2>2. IsFiniteSet(U) /\ Cardinality(U) <= Cardinality(T) /\ Cardinality(U) # Cardinality(T)
    BY <2>1, <1>2, FS_Subset
  <2>3. Cardinality(T) \in Nat /\ Cardinality(U) \in Nat
    BY <2>1, <2>2, FS_CardinalityType
  <2> QED
    BY <2>2, <2>3
<1>3. ASSUME NEW x \in S
      PROVE  Cardinality(before[x]) \in 0..n-1
  <2>1. before[x] \in SUBSET S /\ before[x] # S
    OBVIOUS
  <2> QED
    BY <2>1, <1>1, <1>2
<1>4. ASSUME NEW x \in S, NEW y \in S, x \in before[y]
      PROVE  Cardinality(before[x]) < Cardinality(before[y])
  <2>1. before[y] \in SUBSET S /\ before[x] \in SUBSET before[y] /\ before[x] # before[y]
    BY <1>4
  <2> QED
    BY <2>1, <1>2
<1>5. ASSUME NEW x \in S, NEW y \in S, Cardinality(before[x]) = Cardinality(before[y])
      PROVE  x = y
  <2>1. Cardinality(before[x]) \in Nat /\ Cardinality(before[y]) \in Nat
    BY <1>1, <1>3
  <2> QED
    BY <2>1, <1>4, <1>5
<1>6. rank \in Injection(S, 0..n-1)
  <2>1. rank \in [S -> 0..n-1]
    BY <1>3
  <2>2. \A x, y \in S : rank[x] = rank[y] => x = y
    BY <1>5
  <2> QED
    BY <2>1, <2>2, Fun_IsInj
<1>7. IsFiniteSet(0..n-1) /\ Cardinality(0..n-1) = n
  BY <1>1, FS_Interval
<1>8. rank \in Surjection(S, 0..n-1)
  BY <1>6, <1>7, FS_Injection
<1>9. \A i \in 0..n-1 : \E x \in S : Cardinality(before[x]) = i
  BY <1>8, Fun_SurjectionProperties DEF Surjection
<1> QED
  BY <1>1, <1>3, <1>5, <1>9 DEF PlacesAreTaken

(* Ranked lists every element of such a set, and nothing else. *)
LEMMA RankedLists ==
  ASSUME NEW S, NEW before, IsOrder(S, before)
  PROVE  /\ Ranked(S, before) \in Seq(S)
         /\ \A x \in S : \E i \in 1..Len(Ranked(S, before)) : Ranked(S, before)[i] = x
<1> DEFINE n == Cardinality(S)
           Nth(i) == CHOOSE x \in S : Cardinality(before[x]) = i - 1
           list == Ranked(S, before)
<1>1. /\ n \in Nat
      /\ \A x \in S : Cardinality(before[x]) \in 0..n-1
      /\ \A x, y \in S : Cardinality(before[x]) = Cardinality(before[y]) => x = y
      /\ \A i \in 0..n-1 : \E x \in S : Cardinality(before[x]) = i
  BY RanksAreOnto DEF PlacesAreTaken
<1>2. list = [i \in 1..n |-> Nth(i)]
  BY DEF Ranked
<1>3. ASSUME NEW i \in 1..n
      PROVE  Nth(i) \in S /\ Cardinality(before[Nth(i)]) = i - 1
  <2>1. i - 1 \in 0..n-1
    BY <1>1
  <2> QED
    BY <2>1, <1>1
<1>4. list \in [1..n -> S]
  BY <1>2, <1>3
<1>5. list \in Seq(S) /\ Len(list) = n
  BY <1>1, <1>4, SeqDef, LenProperties
<1>6. ASSUME NEW x \in S
      PROVE  \E i \in 1..Len(list) : list[i] = x
  <2> DEFINE i == Cardinality(before[x]) + 1
  <2>1. i \in 1..n /\ i - 1 = Cardinality(before[x])
    BY <1>1
  <2> HIDE DEF i
  <2>2. Nth(i) = x
    BY <2>1, <1>1, <1>3
  <2>3. list[i] = x
    BY <2>1, <2>2, <1>2
  <2> QED
    BY <2>1, <2>3, <1>5
<1> QED
  BY <1>5, <1>6

-----------------------------------------------------------------------------
(* Slots: the positions of a team in alphabetical order. *)

(* SlotOf and At are inverse to each other: the rotation can name every    *)
(* member of a team and nobody else.                                       *)
LEMMA SlotsNameMembers ==
  ASSUME NEW ms \in SUBSET Nat, IsFiniteSet(ms)
  PROVE  /\ Cardinality(ms) \in Nat
         /\ \A m \in ms : SlotOf(ms, m) \in 0..Cardinality(ms)-1
         /\ \A m \in ms : At(ms, SlotOf(ms, m)) = m
         /\ \A i \in 0..Cardinality(ms)-1 : At(ms, i) \in ms /\ SlotOf(ms, At(ms, i)) = i
<1> DEFINE n == Cardinality(ms)
           before == [m \in ms |-> {x \in ms : x < m}]
<1>1. before \in [ms -> SUBSET ms] /\ \A m \in ms : before[m] = {x \in ms : x < m}
  OBVIOUS
<1>2. \A m \in ms : m \notin before[m]
  BY <1>1
<1>3. \A x, y \in ms : x = y \/ x \in before[y] \/ y \in before[x]
  BY <1>1
<1>4. ASSUME NEW x \in ms, NEW y \in ms, x \in before[y]
      PROVE  before[x] \subseteq before[y]
  <2>1. x \in Nat /\ y \in Nat /\ x < y
    BY <1>1, <1>4
  <2>2. ASSUME NEW z \in ms, z < x
        PROVE  z < y
    <3>1. z \in Nat
      OBVIOUS
    <3> QED
      BY <2>1, <2>2, <3>1
  <2> QED
    BY <1>1, <2>2
<1>5. \A m \in ms : SlotOf(ms, m) = Cardinality(before[m])
  BY <1>1 DEF SlotOf
<1> HIDE DEF before, n
<1>a. before \in [ms -> SUBSET ms]
  BY <1>1
<1>b. \A x, y \in ms : x \in before[y] => before[x] \subseteq before[y]
  BY <1>4
<1>6. /\ n \in Nat
      /\ \A m \in ms : Cardinality(before[m]) \in 0..n-1
      /\ \A x, y \in ms : Cardinality(before[x]) = Cardinality(before[y]) => x = y
      /\ \A i \in 0..n-1 : \E m \in ms : Cardinality(before[m]) = i
  <2>1. IsOrder(ms, before)
    BY <1>a, <1>2, <1>3, <1>b DEF IsOrder
  <2>2. PlacesAreTaken(ms, before)
    BY <2>1, RanksAreOnto
  <2> QED
    BY <2>2 DEF n, PlacesAreTaken
<1>7. ASSUME NEW i \in 0..n-1
      PROVE  At(ms, i) \in ms /\ SlotOf(ms, At(ms, i)) = i
  <2>1. \E m \in ms : SlotOf(ms, m) = i
    BY <1>5, <1>6
  <2> QED
    BY <2>1 DEF At
<1>8. ASSUME NEW m \in ms
      PROVE  SlotOf(ms, m) \in 0..n-1 /\ At(ms, SlotOf(ms, m)) = m
  <2>1. SlotOf(ms, m) \in 0..n-1
    BY <1>5, <1>6
  <2>2. At(ms, SlotOf(ms, m)) \in ms /\ SlotOf(ms, At(ms, SlotOf(ms, m))) = SlotOf(ms, m)
    BY <2>1, <1>7
  <2> QED
    BY <2>1, <2>2, <1>5, <1>6
<1> QED
  BY <1>6, <1>7, <1>8 DEF n

(* A loop over dates runs one step for each of its dates.                  *)
LEMMA PerDayRunsEachDay ==
  ASSUME NEW D \in SUBSET Nat, IsFiniteSet(D), NEW step, \A d \in D : step[d].d = d
  PROVE  /\ PerDay({step[d] : d \in D}) \in Seq({step[d] : d \in D})
         /\ \A d \in D : \E i \in 1..Len(PerDay({step[e] : e \in D})) :
              PerDay({step[e] : e \in D})[i] = step[d]
<1> DEFINE S == {step[d] : d \in D}
           before == [s \in S |-> {t \in S : t.d < s.d}]
           f == [d \in D |-> step[d]]
<1>1. IsFiniteSet(S)
  <2>1. f \in Surjection(D, S)
    BY DEF Surjection
  <2> QED
    BY <2>1, FS_Surjection
<1>2. /\ \A s \in S : s.d \in Nat
      /\ \A s, t \in S : s.d = t.d => s = t
  <2>1. ASSUME NEW s \in S
        PROVE  s.d \in D /\ s = step[s.d]
    <3>1. PICK d \in D : s = step[d]
      OBVIOUS
    <3> QED
      BY <3>1
  <2> HIDE DEF S
  <2> QED
    BY <2>1
<1>3. before \in [S -> SUBSET S] /\ \A s, t \in S : t \in before[s] <=> t.d < s.d
  <2> HIDE DEF S
  <2> QED
    OBVIOUS
<1>4. PerDay(S) = Ranked(S, before)
  BY DEF PerDay
<1> HIDE DEF before, S
<1>5. \A s \in S : s \notin before[s]
  BY <1>2, <1>3
<1>6. \A s, t \in S : s = t \/ s \in before[t] \/ t \in before[s]
  BY <1>2, <1>3
<1>7. ASSUME NEW s \in S, NEW t \in S, s \in before[t]
      PROVE  before[s] \subseteq before[t]
  <2>1. s.d \in Nat /\ t.d \in Nat /\ s.d < t.d
    BY <1>2, <1>3, <1>7
  <2>2. ASSUME NEW u \in before[s]
        PROVE  u \in before[t]
    <3>1. u \in S /\ u.d \in Nat /\ u.d < s.d
      BY <1>2, <1>3, <2>2
    <3> QED
      BY <2>1, <3>1, <1>3
  <2> QED
    BY <2>2
<1>8. /\ PerDay(S) \in Seq(S)
      /\ \A s \in S : \E i \in 1..Len(PerDay(S)) : PerDay(S)[i] = s
  <2>1. IsOrder(S, before)
    BY <1>1, <1>3, <1>5, <1>6, <1>7 DEF IsOrder
  <2> QED
    BY <2>1, <1>4, RankedLists
<1>9. \A d \in D : step[d] \in S
  BY DEF S
<1> QED
  BY <1>8, <1>9 DEF S

-----------------------------------------------------------------------------
(* Arithmetic of the rotation. *)

LEMMA RemainderRange ==
  ASSUME NEW a \in Int, NEW n \in Nat \ {0}
  PROVE  a % n \in 0..n-1
OBVIOUS

LEMMA DivideWithRemainder ==
  ASSUME NEW a \in Int, NEW n \in Nat \ {0}
  PROVE  \E q \in Int : a = n * q + (a % n)
<1>1. a = n * (a \div n) + (a % n) /\ (a \div n) \in Int
  OBVIOUS
<1> QED
  BY <1>1

(* A remainder is determined by its class.                                 *)
LEMMA RemainderIsUnique ==
  ASSUME NEW n \in Nat \ {0}, NEW p \in Int, NEW q \in Int, NEW r \in 0..n-1, NEW s \in 0..n-1,
         n * p + r = n * q + s
  PROVE  r = s
<1>1. n * (p - q) = s - r
  OBVIOUS
<1>2. CASE p - q >= 1
  <2>1. n * (p - q) >= n
    BY <1>2
  <2> QED
    BY <1>1, <2>1
<1>3. CASE p - q <= -1
  <2>1. n * (p - q) <= -n
    BY <1>3
  <2> QED
    BY <1>1, <2>1
<1>4. CASE p = q
  BY <1>1, <1>4
<1> QED
  BY <1>2, <1>3, <1>4

LEMMA RemainderOfSum ==
  ASSUME NEW a \in Int, NEW k \in Int, NEW n \in Nat \ {0}
  PROVE  ((a % n) + k) % n = (a + k) % n
<1> DEFINE r == a % n
<1>1. r \in 0..n-1
  BY RemainderRange
<1>2. PICK p \in Int : a = n * p + r
  BY DivideWithRemainder
<1> HIDE DEF r
<1>a. ASSUME NEW z \in Int
      PROVE  \E q \in Int : z = n * q + (z % n)
  BY DivideWithRemainder
<1>b. r + k \in Int /\ a + k \in Int
  BY <1>1
<1>3. PICK q \in Int : r + k = n * q + ((r + k) % n)
  BY <1>a, <1>b
<1>4. PICK t \in Int : a + k = n * t + ((a + k) % n)
  BY <1>a, <1>b
<1>5. (r + k) % n \in 0..n-1 /\ (a + k) % n \in 0..n-1
  BY <1>1, RemainderRange
<1> DEFINE x == (r + k) % n
           y == (a + k) % n
<1>6. x \in 0..n-1 /\ y \in 0..n-1 /\ r + k = n * q + x /\ a + k = n * t + y
  BY <1>3, <1>4, <1>5
<1> HIDE DEF x, y
<1>7. n * (p + q) = n * p + n * q /\ n * p \in Int /\ n * q \in Int /\ n * t \in Int
  OBVIOUS
<1>8. n * (p + q) + x = n * t + y
  BY <1>1, <1>2, <1>6, <1>7
<1>9. x = y
  BY <1>6, <1>8, RemainderIsUnique
<1> QED
  BY <1>9 DEF x, y, r

LEMMA SmallRemainder ==
  ASSUME NEW n \in Nat \ {0}, NEW i \in 0..n-1
  PROVE  i % n = i
OBVIOUS

-----------------------------------------------------------------------------
(* Working days between two dates. *)

LEMMA WorkingDaysAreCounted ==
  ASSUME NEW d \in Days, NEW e \in Days
  PROVE  /\ WorkingDaysBetween(d, e) \in Nat
         /\ d >= e => WorkingDaysBetween(d, e) = 0
<1> DEFINE W == {x \in Working : d <= x /\ x < e}
<1>1. Working \in SUBSET (0..LastDay) /\ LastDay \in Nat /\ d \in Nat /\ e \in Nat
  BY RotaAssumption DEF Days
<1>2. IsFiniteSet(0..LastDay)
  BY <1>1, FS_Interval
<1>3. W \in SUBSET (0..LastDay)
  BY <1>1
<1>4. IsFiniteSet(W) /\ Cardinality(W) \in Nat
  <2>1. IsFiniteSet(W)
    BY <1>2, <1>3, FS_Subset
  <2> QED
    BY <2>1, FS_CardinalityType
<1>5. ASSUME d >= e
      PROVE  W = {}
  <2>1. ASSUME NEW x \in Working
        PROVE  ~(d <= x /\ x < e)
    <3>1. x \in Nat
      BY <1>1
    <3> QED
      BY <1>1, <1>5, <3>1
  <2> QED
    BY <2>1
<1> QED
  BY <1>4, <1>5, FS_EmptySet DEF WorkingDaysBetween

(* Working days add up over a day in between.                              *)
LEMMA WorkingDaysAddUp ==
  ASSUME NEW a \in Days, NEW b \in Days, NEW c \in Days, a <= b, b <= c
  PROVE  WorkingDaysBetween(a, c) = WorkingDaysBetween(a, b) + WorkingDaysBetween(b, c)
<1> DEFINE W == {x \in Working : a <= x /\ x < b}
           V == {x \in Working : b <= x /\ x < c}
           U == {x \in Working : a <= x /\ x < c}
<1>1. /\ Working \in SUBSET (0..LastDay) /\ LastDay \in Nat
      /\ a \in Nat /\ b \in Nat /\ c \in Nat /\ \A x \in Working : x \in Nat
  BY RotaAssumption DEF Days
<1>2. IsFiniteSet(0..LastDay)
  BY <1>1, FS_Interval
<1>3. IsFiniteSet(W) /\ IsFiniteSet(V)
  <2>1. W \in SUBSET (0..LastDay) /\ V \in SUBSET (0..LastDay)
    BY <1>1
  <2> QED
    BY <1>2, <2>1, FS_Subset
<1>4. U = W \cup V /\ W \cap V = {}
  <2>1. ASSUME NEW x \in Working
        PROVE  /\ (a <= x /\ x < c) <=> ((a <= x /\ x < b) \/ (b <= x /\ x < c))
               /\ ~((a <= x /\ x < b) /\ (b <= x /\ x < c))
    <3>1. x \in Nat
      BY <1>1
    <3> QED
      BY <1>1, <3>1
  <2> QED
    BY <2>1
<1>5. Cardinality(W) \in Nat /\ Cardinality(V) \in Nat
  BY <1>3, FS_CardinalityType
<1> HIDE DEF W, V, U
<1>6. Cardinality(W \cup V) = Cardinality(W) + Cardinality(V) - Cardinality({})
  BY <1>3, <1>4, FS_Union
<1>7. Cardinality(U) = Cardinality(W) + Cardinality(V)
  BY <1>4, <1>5, <1>6, FS_EmptySet
<1> QED
  BY <1>7 DEF WorkingDaysBetween, W, V, U

(* From one working day to another it does not matter which of the two is  *)
(* left out of the count.                                                  *)
LEMMA EitherEndCounts ==
  ASSUME NEW d \in Working, NEW e \in Working, d < e
  PROVE  WorkingDaysBetween(d, e) = Cardinality({x \in Working : d < x /\ x <= e})
<1> DEFINE A == {x \in Working : d < x /\ x < e}
<1>1. /\ Working \in SUBSET (0..LastDay) /\ LastDay \in Nat
      /\ d \in Nat /\ e \in Nat /\ \A x \in Working : x \in Nat
  BY RotaAssumption
<1>2. IsFiniteSet(A) /\ Cardinality(A) \in Nat
  <2>1. IsFiniteSet(0..LastDay)
    BY <1>1, FS_Interval
  <2>2. A \in SUBSET (0..LastDay)
    BY <1>1
  <2> QED
    BY <2>1, <2>2, FS_Subset, FS_CardinalityType
<1>3. {x \in Working : d <= x /\ x < e} = A \cup {d}
  <2>1. ASSUME NEW x \in Working
        PROVE  (d <= x /\ x < e) <=> ((d < x /\ x < e) \/ x = d)
    <3>1. x \in Nat
      BY <1>1
    <3> QED
      BY <1>1, <3>1
  <2> QED
    BY <2>1
<1>4. {x \in Working : d < x /\ x <= e} = A \cup {e}
  <2>1. ASSUME NEW x \in Working
        PROVE  (d < x /\ x <= e) <=> ((d < x /\ x < e) \/ x = e)
    <3>1. x \in Nat
      BY <1>1
    <3> QED
      BY <1>1, <3>1
  <2> QED
    BY <2>1
<1>5. d \notin A /\ e \notin A
  BY <1>1
<1> HIDE DEF A
<1>6. Cardinality(A \cup {d}) = Cardinality(A) + 1 /\ Cardinality(A \cup {e}) = Cardinality(A) + 1
  BY <1>2, <1>5, FS_AddElement
<1> QED
  BY <1>3, <1>4, <1>6 DEF WorkingDaysBetween

\* A team that can take turns.
IsTeam(ms) == ms \in SUBSET Nat /\ IsFiniteSet(ms) /\ ms # {}

LEMMA TeamSize ==
  ASSUME NEW ms, IsTeam(ms)
  PROVE  Cardinality(ms) \in Nat \ {0}
BY FS_CardinalityType, FS_EmptySet DEF IsTeam

(* It is always somebody's turn.                                           *)
LEMMA TurnsAreSlots ==
  ASSUME NEW ms, IsTeam(ms), NEW pos \in Position \cup {None}, NEW d \in Days
  PROVE  TurnOf(pos, d, ms) \in 0..Cardinality(ms)-1
<1>1. Cardinality(ms) \in Nat \ {0}
  BY TeamSize
<1>2. CASE pos = None
  BY <1>1, <1>2 DEF TurnOf
<1>3. CASE pos # None
  <2>1. pos \in Position /\ pos.last \in Days /\ pos.slot \in Nat
    BY <1>3 DEF Position
  <2>2. WorkingDaysBetween(pos.last, d) \in Int /\ WorkingDaysBetween(d, pos.last) \in Int
    BY <2>1, WorkingDaysAreCounted
  <2> DEFINE steps == IF pos.last <= d THEN WorkingDaysBetween(pos.last, d)
                                       ELSE -WorkingDaysBetween(d, pos.last)
  <2>3. pos.slot + steps \in Int
    BY <2>1, <2>2
  <2>4. TurnOf(pos, d, ms) = (pos.slot + steps) % Cardinality(ms)
    BY <1>3 DEF TurnOf, Turn
  <2> QED
    BY <1>1, <2>3, <2>4, RemainderRange
<1> QED
  BY <1>2, <1>3

(* The turn moves on by one slot per working day, forwards and backwards   *)
(* from the stored position.                                               *)
LEMMA TurnsMoveOn ==
  ASSUME NEW ms, IsTeam(ms), NEW pos \in Position, NEW d \in Days, NEW e \in Days, d <= e
  PROVE  Turn(pos, e, ms) = (Turn(pos, d, ms) + WorkingDaysBetween(d, e)) % Cardinality(ms)
<1> DEFINE Steps(x) == IF pos.last <= x THEN WorkingDaysBetween(pos.last, x)
                                        ELSE -WorkingDaysBetween(x, pos.last)
           between == WorkingDaysBetween(d, e)
           n == Cardinality(ms)
<1>1. n \in Nat \ {0}
  BY TeamSize
<1>2. pos.last \in Days /\ pos.slot \in Nat /\ d \in Nat /\ e \in Nat /\ pos.last \in Nat
  BY RotaAssumption DEF Position, Days
<1>3. /\ WorkingDaysBetween(pos.last, d) \in Nat /\ WorkingDaysBetween(d, pos.last) \in Nat
      /\ WorkingDaysBetween(pos.last, e) \in Nat /\ WorkingDaysBetween(e, pos.last) \in Nat
      /\ between \in Nat
  BY <1>2, WorkingDaysAreCounted
<1>4. Steps(e) = Steps(d) + between /\ Steps(d) \in Int
  <2>1. CASE pos.last <= d
    BY <1>2, <1>3, <2>1, WorkingDaysAddUp
  <2>2. CASE d < pos.last /\ pos.last <= e
    <3>1. between = WorkingDaysBetween(d, pos.last) + WorkingDaysBetween(pos.last, e)
      BY <1>2, <2>2, WorkingDaysAddUp
    <3> QED
      BY <1>2, <1>3, <2>2, <3>1
  <2>3. CASE e < pos.last
    <3>1. WorkingDaysBetween(d, pos.last) = between + WorkingDaysBetween(e, pos.last)
      BY <1>2, <2>3, WorkingDaysAddUp
    <3> QED
      BY <1>2, <1>3, <2>3, <3>1
  <2> QED
    BY <1>2, <2>1, <2>2, <2>3
<1>5. /\ Turn(pos, d, ms) = (pos.slot + Steps(d)) % n
      /\ Turn(pos, e, ms) = (pos.slot + Steps(e)) % n
  BY DEF Turn
<1> HIDE DEF Steps, between, n
<1>6. pos.slot + Steps(d) \in Int /\ between \in Int
  BY <1>2, <1>3, <1>4
<1>7. (((pos.slot + Steps(d)) % n) + between) % n = (pos.slot + Steps(d) + between) % n
  BY <1>1, <1>6, RemainderOfSum
<1>8. pos.slot + Steps(e) = pos.slot + Steps(d) + between
  BY <1>2, <1>4, <1>6
<1> QED
  BY <1>5, <1>7, <1>8 DEF between, n

(* Who holds the position's day has its slot.                              *)
LEMMA TurnOfTheStoredDay ==
  ASSUME NEW ms, IsTeam(ms), NEW pos \in Position, pos.slot \in 0..Cardinality(ms)-1
  PROVE  Turn(pos, pos.last, ms) = pos.slot
<1>1. Cardinality(ms) \in Nat \ {0}
  BY TeamSize
<1>2. pos.last \in Days /\ pos.last <= pos.last
  BY RotaAssumption DEF Position, Days
<1>3. WorkingDaysBetween(pos.last, pos.last) = 0
  BY <1>2, WorkingDaysAreCounted
<1>4. Turn(pos, pos.last, ms) = pos.slot % Cardinality(ms)
  BY <1>1, <1>2, <1>3 DEF Turn
<1> QED
  BY <1>1, <1>4, SmallRemainder

-----------------------------------------------------------------------------
(* The search for a cover. *)

(* Every nonempty set of natural numbers below a bound has a least element.*)
LEMMA LeastElement ==
  ASSUME NEW K \in SUBSET Nat, IsFiniteSet(K), K # {}
  PROVE  \E k \in K : \A j \in K : k <= j
<1> DEFINE first == At(K, 0)
<1>1. Cardinality(K) \in Nat \ {0}
  BY FS_CardinalityType, FS_EmptySet
<1>2. 0 \in 0..Cardinality(K)-1
  BY <1>1
<1>3. first \in K /\ SlotOf(K, first) = 0
  BY <1>2, SlotsNameMembers
<1> HIDE DEF first
<1>4. {x \in K : x < first} = {}
  <2>1. IsFiniteSet({x \in K : x < first})
    BY FS_Subset
  <2> QED
    BY <1>3, <2>1, FS_EmptySet DEF SlotOf
<1>5. \A j \in K : first <= j
  BY <1>3, <1>4
<1> QED
  BY <1>3, <1>5

(* FindCover walks the whole team: it gives up only when everybody is      *)
(* away, and never names somebody who is.                                  *)
LEMMA FindCoverIsFree ==
  ASSUME NEW ms, IsTeam(ms), NEW away, NEW slot \in Nat
  PROVE  /\ ms \subseteq away => FindCover(ms, away, slot) = None
         /\ ~(ms \subseteq away) => FindCover(ms, away, slot) \in ms \ away
<1> DEFINE n == Cardinality(ms)
           Free(k) == At(ms, (slot + k) % n) \notin away
           K == {k \in 0..n-1 : Free(k)}
<1>1. n \in Nat \ {0}
  BY TeamSize
<1>2. ms \in SUBSET Nat /\ IsFiniteSet(ms)
  BY DEF IsTeam
<1>3. ASSUME ~(ms \subseteq away)
      PROVE  FindCover(ms, away, slot) \in ms \ away
  <2>1. PICK m \in ms : m \notin away
    BY <1>3
  <2> DEFINE i == SlotOf(ms, m)
             k0 == (i - slot) % n
  <2>2. i \in 0..n-1 /\ At(ms, i) = m
    BY <1>2, SlotsNameMembers
  <2> HIDE DEF i
  <2>3. k0 \in 0..n-1
    <3>1. i - slot \in Int
      BY <2>2
    <3> HIDE DEF n
    <3> QED
      BY <1>1, <3>1, RemainderRange
  <2>4. (slot + k0) % n = i
    <3>1. i - slot \in Int /\ slot \in Int
      BY <2>2
    <3>2. (((i - slot) % n) + slot) % n = ((i - slot) + slot) % n
      BY <1>1, <3>1, RemainderOfSum
    <3>3. (i - slot) + slot = i /\ slot + k0 = k0 + slot
      BY <1>1, <2>2, <2>3
    <3>4. i % n = i
      BY <1>1, <2>2, SmallRemainder
    <3> QED
      BY <3>2, <3>3, <3>4
  <2> HIDE DEF k0
  <2>5. Free(k0)
    BY <2>1, <2>2, <2>4
  <2>6. PICK k \in K : \A j \in K : k <= j
    <3>1. K \in SUBSET Nat /\ K # {}
      BY <1>1, <2>3, <2>5
    <3>2. IsFiniteSet(K)
      <4>1. IsFiniteSet(0..n-1) /\ K \in SUBSET (0..n-1)
        BY <1>1, FS_Interval
      <4> QED
        BY <4>1, FS_Subset
    <3> HIDE DEF K
    <3> QED
      BY <3>1, <3>2, LeastElement
  <2>7. k \in 0..n-1 /\ Free(k) /\ \A j \in 0..k-1 : ~Free(j)
    <3>1. k \in 0..n-1 /\ Free(k)
      OBVIOUS
    <3>2. ASSUME NEW j \in 0..k-1
          PROVE  ~Free(j)
      <4>1. j \in 0..n-1 /\ j < k
        BY <1>1, <3>1
      <4>2. Free(j) => j \in K
        BY <4>1
      <4> HIDE DEF K, Free
      <4> QED
        BY <2>6, <3>1, <4>1, <4>2
    <3> QED
      BY <3>1, <3>2
  <2> DEFINE first == CHOOSE x \in 0..n-1 : Free(x) /\ \A j \in 0..x-1 : ~Free(j)
  <2>8. first \in 0..n-1 /\ Free(first)
    <3> HIDE DEF Free
    <3> QED
      BY <2>7
  <2>9. FindCover(ms, away, slot) = At(ms, (slot + first) % n)
    BY <1>3 DEF FindCover
  <2> HIDE DEF first
  <2>10. (slot + first) % n \in 0..n-1
    <3>1. slot + first \in Int
      BY <2>8
    <3> HIDE DEF n
    <3> QED
      BY <1>1, <3>1, RemainderRange
  <2>11. At(ms, (slot + first) % n) \in ms
    BY <1>2, <2>10, SlotsNameMembers
  <2> QED
    BY <2>8, <2>9, <2>11
<1> QED
  BY <1>3 DEF FindCover

-----------------------------------------------------------------------------
(* The state of requests, as far as the proofs need it. *)

\* A sequence of whatever it contains.
IsList(s) == s \in Seq({s[i] : i \in DOMAIN s})

IsRequest(w) ==
  /\ w = [job |-> w.job, about |-> w.about, todo |-> w.todo, queue |-> w.queue, team |-> w.team,
          anchor |-> w.anchor, failed |-> w.failed]
  /\ IsList(w.todo)

WorkOK == work = [h \in Handlers |-> work[h]] /\ \A h \in Handlers : IsRequest(work[h])

\* Loops are over days of the calendar, and the steps of a loop about one of them.
ItemTyped(t) ==
  /\ t.do \in {"index", "compare", "dates", "members", "wipe", "team"} => t.days \in SUBSET Days
  /\ t.do \in {"drop", "leaves", "r1", "r2", "slot", "original", "advance", "cover", "duty", "away",
               "turn", "look", "repoint"} => t.d \in Days

Typed(w) == \A i \in 1..Len(w.todo) : ItemTyped(w.todo[i])

TodoInv == WorkOK /\ \A h \in Handlers : Typed(work[h])

-----------------------------------------------------------------------------
(* The hat goes round: the invariant. *)

\* Nobody joined or left, no statement failed and no process died.
Undisturbed == changes = 0 /\ faults = 0

\* The member whose slot has its turn on day d.
OnTurn(d, m) == m \in team /\ SlotOf(team, m) = TurnOf(r1, d, team)

RotaTypes ==
  /\ team \in SUBSET Members
  /\ r1 \in Position \cup {None}
  /\ orig = [d \in Days |-> orig[d]]
  /\ \A d \in Days : orig[d] # None =>
       orig[d] = [member |-> orig[d].member, swapped |-> orig[d].swapped, id |-> orig[d].id]

\* The first assignment of all is written before the position it defines.
IsFirst(d) ==
  \E h \in Handlers : /\ Doing(h, "advance")
                      /\ Now(h).d = d /\ Now(h).m = orig[d].member

(* Every original was on turn by the first R1 row, unless it was swapped.  *)
OriginalsOnTurn ==
  \A d \in Days : orig[d] # None =>
    IF r1 = None THEN IsFirst(d) ELSE ~orig[d].swapped => OnTurn(d, orig[d].member)

(* A member chosen by R1 is still on turn when the row is written: no step *)
(* comes between the choice and the write but that of the cover's slot,    *)
(* and the position moves right after the write.                           *)
\* A statement of a request whose copy of the team is ms.
StepFits(ms, t) ==
  /\ t.do \in {"leaves", "r1", "r2", "original", "advance"} => t.d \in Days /\ ms = team /\ team # {}
  /\ t.do \in {"r2", "original"} => OnTurn(t.d, t.m)
  /\ t.do = "advance" => t.m \in team

\* A choice is not kept waiting.
InPlace(q, i) ==
  /\ q[i].do \in {"r2", "advance"} => i = 1
  /\ q[i].do = "original" => i = 1 \/ (i = 2 /\ q[1].do = "slot")

Fits(ms, q) == \A i \in 1..Len(q) : StepFits(ms, q[i]) /\ InPlace(q, i)

ChoicesOnTurn(h) == Fits(work[h].team, work[h].todo)

FairInv ==
  /\ TodoInv
  /\ changes \in Nat /\ faults \in Nat
  /\ Undisturbed => RotaTypes /\ OriginalsOnTurn /\ \A h \in Handlers : ChoicesOnTurn(h)

OneHandler == \A g, h \in Handlers : g = h

-----------------------------------------------------------------------------
(* Lists of statements. *)

LEMMA SequencesAreLists ==
  ASSUME NEW S, NEW s \in Seq(S)
  PROVE  IsList(s)
<1>1. Len(s) \in Nat /\ s \in [1..Len(s) -> S] /\ DOMAIN s = 1..Len(s)
  BY LenProperties
<1>2. s \in [1..Len(s) -> {s[i] : i \in DOMAIN s}]
  BY <1>1
<1> QED
  BY <1>1, <1>2, SeqDef DEF IsList

LEMMA ShortLists ==
  /\ IsList(<<>>) /\ Len(<<>>) = 0
  /\ \A a : IsList(<<a>>)
  /\ \A a, b : IsList(<<a, b>>)
  /\ \A a, b, c : IsList(<<a, b, c>>)
<1>1. IsList(<<>>) /\ Len(<<>>) = 0
  BY EmptySeq, SequencesAreLists
<1>2. ASSUME NEW a
      PROVE  IsList(<<a>>)
  <2>1. <<a>> \in Seq({a})
    OBVIOUS
  <2> QED
    BY <2>1, SequencesAreLists
<1>3. ASSUME NEW a, NEW b
      PROVE  IsList(<<a, b>>)
  <2>1. <<a, b>> \in Seq({a, b})
    OBVIOUS
  <2> QED
    BY <2>1, SequencesAreLists
<1>4. ASSUME NEW a, NEW b, NEW c
      PROVE  IsList(<<a, b, c>>)
  <2>1. <<a, b, c>> \in Seq({a, b, c})
    OBVIOUS
  <2> QED
    BY <2>1, SequencesAreLists
<1> QED
  BY <1>1, <1>2, <1>3, <1>4

LEMMA ListLength ==
  ASSUME NEW s, IsList(s)
  PROVE  /\ Len(s) \in Nat /\ DOMAIN s = 1..Len(s)
         /\ s = <<>> <=> Len(s) = 0
         /\ s # <<>> => Head(s) = s[1] /\ Len(s) \in Nat \ {0}
<1> DEFINE S == {s[i] : i \in DOMAIN s}
<1>1. s \in Seq(S)
  BY DEF IsList
<1> HIDE DEF S
<1>2. Len(s) \in Nat /\ DOMAIN s = 1..Len(s)
  BY <1>1, LenProperties
<1>3. s = <<>> => Len(s) = 0
  BY EmptySeq
<1>4. s # <<>> => Len(s) \in Nat \ {0}
  BY <1>1, EmptySeq
<1>5. s # <<>> => Head(s) = s[1]
  BY <1>1
<1> QED
  BY <1>2, <1>3, <1>4, <1>5

\* v is the request w with other statements in place of its first one.
GoesOn(w, v, steps) ==
  /\ Len(steps) \in Nat /\ Len(w.todo) \in Nat \ {0}
  /\ Len(v.todo) = Len(steps) + Len(w.todo) - 1
  /\ \A i \in 1..Len(steps) : v.todo[i] = steps[i]
  /\ \A i \in 1..Len(v.todo) : i > Len(steps) => v.todo[i] = w.todo[i - Len(steps) + 1]

LEMMA ListsJoin ==
  ASSUME NEW s, IsList(s), NEW t, IsList(t)
  PROVE  /\ IsList(s \o t) /\ Len(s \o t) = Len(s) + Len(t)
         /\ \A i \in 1..Len(s) : (s \o t)[i] = s[i]
         /\ \A i \in 1..Len(t) : (s \o t)[Len(s) + i] = t[i]
<1> DEFINE S == {s[i] : i \in DOMAIN s}
           T == {t[i] : i \in DOMAIN t}
<1>1. s \in Seq(S) /\ t \in Seq(T)
  BY DEF IsList
<1> HIDE DEF S, T
<1>2. s \in Seq(S \cup T) /\ t \in Seq(S \cup T)
  BY <1>1, SeqMonotonic
<1>3. /\ s \o t \in Seq(S \cup T) /\ Len(s \o t) = Len(s) + Len(t)
      /\ \A i \in 1..Len(s) + Len(t) :
           (s \o t)[i] = IF i <= Len(s) THEN s[i] ELSE t[i - Len(s)]
  BY <1>2, ConcatProperties
<1>4. Len(s) \in Nat /\ Len(t) \in Nat
  BY ListLength
<1>5. IsList(s \o t)
  BY <1>3, SequencesAreLists
<1>6. ASSUME NEW i \in 1..Len(s)
      PROVE  (s \o t)[i] = s[i]
  BY <1>3, <1>4
<1>7. ASSUME NEW i \in 1..Len(t)
      PROVE  (s \o t)[Len(s) + i] = t[i]
  <2> DEFINE j == Len(s) + i
  <2>1. j \in 1..Len(s) + Len(t) /\ ~(j <= Len(s)) /\ j - Len(s) = i
    BY <1>4
  <2> HIDE DEF j
  <2>2. (s \o t)[j] = t[i]
    BY <1>3, <2>1
  <2> QED
    BY <2>2 DEF j
<1> QED
  BY <1>3, <1>5, <1>6, <1>7

LEMMA ListTail ==
  ASSUME NEW s, IsList(s), s # <<>>
  PROVE  /\ IsList(Tail(s)) /\ Len(Tail(s)) = Len(s) - 1
         /\ \A i \in 1..Len(Tail(s)) : Tail(s)[i] = s[i + 1]
<1> DEFINE S == {s[i] : i \in DOMAIN s}
<1>1. s \in Seq(S)
  BY DEF IsList
<1> HIDE DEF S
<1> QED
  BY <1>1, HeadTailProperties, SequencesAreLists

\* The request w with some of its fields replaced.
LEMMA RequestFields ==
  ASSUME NEW w, IsRequest(w), NEW todo, NEW ms, NEW fail
  PROVE  /\ [w EXCEPT !.todo = todo] =
              [job |-> w.job, about |-> w.about, todo |-> todo, queue |-> w.queue,
               team |-> w.team, anchor |-> w.anchor, failed |-> w.failed]
         /\ [w EXCEPT !.todo = todo, !.failed = fail] =
              [job |-> w.job, about |-> w.about, todo |-> todo, queue |-> w.queue,
               team |-> w.team, anchor |-> w.anchor, failed |-> fail]
         /\ [w EXCEPT !.team = ms, !.todo = todo] =
              [job |-> w.job, about |-> w.about, todo |-> todo, queue |-> w.queue,
               team |-> ms, anchor |-> w.anchor, failed |-> w.failed]
<1>1. PICK a, b, c, d, e, f, g :
        w = [job |-> a, about |-> b, todo |-> c, queue |-> d, team |-> e, anchor |-> f, failed |-> g]
  BY DEF IsRequest
<1>2. w.job = a /\ w.about = b /\ w.queue = d /\ w.team = e /\ w.anchor = f /\ w.failed = g
  BY <1>1
<1>3. [w EXCEPT !.todo = todo] =
        [job |-> a, about |-> b, todo |-> todo, queue |-> d, team |-> e, anchor |-> f, failed |-> g]
  BY <1>1
<1>4. [w EXCEPT !.todo = todo, !.failed = fail] =
        [job |-> a, about |-> b, todo |-> todo, queue |-> d, team |-> e, anchor |-> f, failed |-> fail]
  <2> DEFINE v == [w EXCEPT !.todo = todo]
  <2>1. v = [job |-> a, about |-> b, todo |-> todo, queue |-> d, team |-> e, anchor |-> f, failed |-> g]
    BY <1>1
  <2>2. [w EXCEPT !.todo = todo, !.failed = fail] = [v EXCEPT !.failed = fail]
    OBVIOUS
  <2> HIDE DEF v
  <2>3. [v EXCEPT !.failed = fail] = [job |-> a, about |-> b, todo |-> todo, queue |-> d, team |-> e, anchor |-> f, failed |-> fail]
    BY <2>1
  <2> QED
    BY <2>2, <2>3
<1>5. [w EXCEPT !.team = ms, !.todo = todo] =
        [job |-> a, about |-> b, todo |-> todo, queue |-> d, team |-> ms, anchor |-> f, failed |-> g]
  <2> DEFINE v == [w EXCEPT !.team = ms]
  <2>1. v = [job |-> a, about |-> b, todo |-> c, queue |-> d, team |-> ms, anchor |-> f, failed |-> g]
    BY <1>1
  <2>2. [w EXCEPT !.team = ms, !.todo = todo] = [v EXCEPT !.todo = todo]
    OBVIOUS
  <2> HIDE DEF v
  <2>3. [v EXCEPT !.todo = todo] = [job |-> a, about |-> b, todo |-> todo, queue |-> d, team |-> ms, anchor |-> f, failed |-> g]
    BY <2>1
  <2> QED
    BY <2>2, <2>3
<1> QED
  BY <1>2, <1>3, <1>4, <1>5

LEMMA AnchorFields ==
  ASSUME NEW w, IsRequest(w), NEW todo, NEW anchor
  PROVE  [w EXCEPT !.anchor = anchor, !.todo = todo] =
           [job |-> w.job, about |-> w.about, todo |-> todo, queue |-> w.queue, team |-> w.team,
            anchor |-> anchor, failed |-> w.failed]
<1>1. PICK a, b, c, d, e, f, g :
        w = [job |-> a, about |-> b, todo |-> c, queue |-> d, team |-> e, anchor |-> f, failed |-> g]
  BY DEF IsRequest
<1>2. w.job = a /\ w.about = b /\ w.queue = d /\ w.team = e /\ w.anchor = f /\ w.failed = g
  BY <1>1
<1>3. [w EXCEPT !.anchor = anchor, !.todo = todo] =
        [job |-> a, about |-> b, todo |-> todo, queue |-> d, team |-> e, anchor |-> anchor, failed |-> g]
  <2> DEFINE v == [w EXCEPT !.anchor = anchor]
  <2>1. v = [job |-> a, about |-> b, todo |-> c, queue |-> d, team |-> e, anchor |-> anchor, failed |-> g]
    BY <1>1
  <2>2. [w EXCEPT !.anchor = anchor, !.todo = todo] = [v EXCEPT !.todo = todo]
    OBVIOUS
  <2> HIDE DEF v
  <2>3. [v EXCEPT !.todo = todo] = [job |-> a, about |-> b, todo |-> todo, queue |-> d, team |-> e, anchor |-> anchor, failed |-> g]
    BY <2>1
  <2> QED
    BY <2>2, <2>3
<1> QED
  BY <1>2, <1>3

LEMMA AnchorFieldsInOrder ==
  ASSUME NEW w, IsRequest(w), NEW todo, NEW anchor
  PROVE  [w EXCEPT !.todo = todo, !.anchor = anchor] =
           [job |-> w.job, about |-> w.about, todo |-> todo, queue |-> w.queue, team |-> w.team,
            anchor |-> anchor, failed |-> w.failed]
<1>1. PICK a, b, c, d, e, f, g :
        w = [job |-> a, about |-> b, todo |-> c, queue |-> d, team |-> e, anchor |-> f, failed |-> g]
  BY DEF IsRequest
<1>2. w.job = a /\ w.about = b /\ w.queue = d /\ w.team = e /\ w.anchor = f /\ w.failed = g
  BY <1>1
<1>3. [w EXCEPT !.todo = todo, !.anchor = anchor] =
        [job |-> a, about |-> b, todo |-> todo, queue |-> d, team |-> e, anchor |-> anchor, failed |-> g]
  <2> DEFINE v == [w EXCEPT !.todo = todo]
  <2>1. v = [job |-> a, about |-> b, todo |-> todo, queue |-> d, team |-> e, anchor |-> f, failed |-> g]
    BY <1>1
  <2>2. [w EXCEPT !.todo = todo, !.anchor = anchor] = [v EXCEPT !.anchor = anchor]
    OBVIOUS
  <2> HIDE DEF v
  <2>3. [v EXCEPT !.anchor = anchor] = [job |-> a, about |-> b, todo |-> todo, queue |-> d, team |-> e, anchor |-> anchor, failed |-> g]
    BY <2>1
  <2> QED
    BY <2>2, <2>3
<1> QED
  BY <1>2, <1>3

\* What a statement leaves of request h when other statements replace it.
Runs(h, w, steps) ==
  /\ w.todo = steps \o Tail(work[h].todo)
  /\ w = [job |-> w.job, about |-> w.about, todo |-> w.todo, queue |-> w.queue, team |-> w.team,
          anchor |-> w.anchor, failed |-> w.failed]

(* What a statement that is replaced by others does to its request.        *)
LEMMA StatementRuns ==
  ASSUME NEW h \in Handlers, WorkOK, work[h].todo # <<>>, NEW steps, IsList(steps), NEW w,
         Runs(h, w, steps), work' = [work EXCEPT ![h] = w]
  PROVE  /\ WorkOK' /\ work'[h] = w /\ GoesOn(work[h], w, steps)
         /\ Now(h) = work[h].todo[1]
<1> DEFINE s == work[h].todo
<1>1. IsList(s) /\ work = [g \in Handlers |-> work[g]] /\ \A g \in Handlers : IsRequest(work[g])
  BY DEF WorkOK, IsRequest
<1>2. work' = [g \in Handlers |-> IF g = h THEN w ELSE work[g]]
  BY <1>1
<1>3. work'[h] = w /\ \A g \in Handlers : g # h => work'[g] = work[g]
  BY <1>2
<1> HIDE DEF s
<1>4. /\ IsList(Tail(s)) /\ Len(Tail(s)) = Len(s) - 1
      /\ \A i \in 1..Len(Tail(s)) : Tail(s)[i] = s[i + 1]
  BY <1>1, ListTail DEF s
<1>5. /\ IsList(steps \o Tail(s)) /\ Len(steps \o Tail(s)) = Len(steps) + Len(Tail(s))
      /\ \A i \in 1..Len(steps) : (steps \o Tail(s))[i] = steps[i]
      /\ \A i \in 1..Len(Tail(s)) : (steps \o Tail(s))[Len(steps) + i] = Tail(s)[i]
  BY <1>4, ListsJoin
<1>6. Len(steps) \in Nat /\ Len(s) \in Nat \ {0} /\ Head(s) = s[1]
  BY <1>1, ListLength DEF s
<1>7. w.todo = steps \o Tail(s)
  BY DEF s, Runs
<1>8. IsRequest(w)
  BY <1>5, <1>7 DEF IsRequest, Runs
<1>9. WorkOK'
  <2>1. work' = [g \in Handlers |-> work'[g]]
    BY <1>2
  <2>2. \A g \in Handlers : IsRequest(work'[g])
    BY <1>1, <1>3, <1>8
  <2> QED
    BY <2>1, <2>2 DEF WorkOK
<1>10. GoesOn(work[h], w, steps)
  <2>1. ASSUME NEW i \in 1..Len(w.todo), i > Len(steps)
        PROVE  w.todo[i] = s[i - Len(steps) + 1]
    <3> DEFINE j == i - Len(steps)
    <3>1. j \in 1..Len(Tail(s)) /\ i = Len(steps) + j /\ Len(Tail(s)) \in Nat
      BY <1>4, <1>5, <1>6, <1>7, <2>1
    <3> HIDE DEF j
    <3>2. w.todo[i] = Tail(s)[j]
      BY <1>5, <1>7, <3>1
    <3>3. Tail(s)[j] = s[j + 1]
      BY <1>4, <3>1
    <3> QED
      BY <3>2, <3>3 DEF j
  <2>2. Len(w.todo) = Len(steps) + Len(s) - 1
    BY <1>4, <1>5, <1>6, <1>7
  <2>3. \A i \in 1..Len(steps) : w.todo[i] = steps[i]
    BY <1>5, <1>7
  <2> QED
    BY <1>6, <2>1, <2>2, <2>3 DEF GoesOn, s
<1> QED
  BY <1>3, <1>6, <1>9, <1>10 DEF Now, s

LEMMA ThenRuns ==
  ASSUME NEW h \in Handlers, WorkOK, work[h].todo # <<>>, NEW steps, IsList(steps), Then(h, steps)
  PROVE  /\ WorkOK' /\ GoesOn(work[h], work'[h], steps) /\ Now(h) = work[h].todo[1]
         /\ work'[h] = [work[h] EXCEPT !.todo = work'[h].todo]
         /\ work'[h].todo = steps \o Tail(work[h].todo)
<1> DEFINE w == [work[h] EXCEPT !.todo = steps \o Tail(work[h].todo)]
<1>1. IsRequest(work[h])
  BY DEF WorkOK
<1>2. /\ w.todo = steps \o Tail(work[h].todo)
      /\ w = [job |-> w.job, about |-> w.about, todo |-> w.todo, queue |-> w.queue,
              team |-> w.team, anchor |-> w.anchor, failed |-> w.failed]
  <2> DEFINE todo == steps \o Tail(work[h].todo)
  <2>1. [work[h] EXCEPT !.todo = todo] =
          [job |-> work[h].job, about |-> work[h].about, todo |-> todo, queue |-> work[h].queue,
           team |-> work[h].team, anchor |-> work[h].anchor, failed |-> work[h].failed]
    <3> HIDE DEF todo
    <3> QED
      BY <1>1, RequestFields
  <2> QED
    BY <2>1
<1>3. work' = [work EXCEPT ![h] = w]
  BY DEF Then
<1>4. w = [work[h] EXCEPT !.todo = w.todo]
  BY <1>2
<1> HIDE DEF w
<1>5. WorkOK' /\ work'[h] = w /\ GoesOn(work[h], w, steps) /\ Now(h) = work[h].todo[1]
  BY <1>2, <1>3, StatementRuns DEF Runs
<1> QED
  BY <1>2, <1>4, <1>5

LEMMA RequestReplaced ==
  ASSUME NEW h \in Handlers, WorkOK, NEW w, IsRequest(w), work' = [work EXCEPT ![h] = w]
  PROVE  WorkOK' /\ work'[h] = w
<1>1. work = [g \in Handlers |-> work[g]] /\ \A g \in Handlers : IsRequest(work[g])
  BY DEF WorkOK
<1>2. work' = [g \in Handlers |-> IF g = h THEN w ELSE work[g]]
  BY <1>1
<1>3. work' = [g \in Handlers |-> work'[g]] /\ work'[h] = w
  BY <1>2
<1>4. \A g \in Handlers : IsRequest(work'[g])
  BY <1>1, <1>2
<1> QED
  BY <1>3, <1>4 DEF WorkOK

LEMMA AbortStops ==
  ASSUME NEW h \in Handlers, WorkOK, Abort(h)
  PROVE  /\ WorkOK' /\ work'[h].todo = <<>> /\ work'[h].failed = TRUE
         /\ work'[h].job = work[h].job /\ work'[h].queue = work[h].queue
         /\ work'[h].about = work[h].about
         /\ work'[h].team = work[h].team /\ work'[h].anchor = work[h].anchor
<1> DEFINE w == [work[h] EXCEPT !.todo = <<>>, !.failed = TRUE]
<1>1. IsRequest(work[h])
  BY DEF WorkOK
<1>2. /\ w.todo = <<>> /\ w.failed = TRUE /\ w.job = work[h].job /\ w.queue = work[h].queue
      /\ w.about = work[h].about /\ w.team = work[h].team /\ w.anchor = work[h].anchor
      /\ IsRequest(w)
  <2> DEFINE yes == TRUE
             v == [work[h] EXCEPT !.todo = <<>>, !.failed = yes]
  <2>1. w = v /\ yes = TRUE
    OBVIOUS
  <2> HIDE DEF w, yes
  <2>2. v = [job |-> work[h].job, about |-> work[h].about, todo |-> <<>>, queue |-> work[h].queue,
             team |-> work[h].team, anchor |-> work[h].anchor, failed |-> yes]
    BY <1>1, RequestFields
  <2> HIDE DEF v
  <2>3. /\ v.todo = <<>> /\ v.failed = yes /\ v.job = work[h].job /\ v.queue = work[h].queue
        /\ v.about = work[h].about /\ v.team = work[h].team /\ v.anchor = work[h].anchor
        /\ IsRequest(v)
    BY <2>2, ShortLists DEF IsRequest
  <2> QED
    BY <2>1, <2>3
<1>3. work' = [work EXCEPT ![h] = w]
  BY DEF Abort
<1> HIDE DEF w
<1>4. WorkOK' /\ work'[h] = w
  BY <1>2, <1>3, RequestReplaced
<1> QED
  BY <1>2, <1>4

\* A request with the four fields replaced that Begin sets.
Fresh(w, job, about, todo, queue) ==
  [w EXCEPT !.job = job, !.about = about, !.todo = todo, !.queue = queue]

LEMMA FreshRequest ==
  ASSUME NEW w, IsRequest(w), NEW job, NEW about, NEW todo, NEW queue
  PROVE  Fresh(w, job, about, todo, queue) =
           [job |-> job, about |-> about, todo |-> todo, queue |-> queue, team |-> w.team,
            anchor |-> w.anchor, failed |-> w.failed]
<1>0. PICK a, b, c, d, e, f, g :
        w = [job |-> a, about |-> b, todo |-> c, queue |-> d, team |-> e, anchor |-> f, failed |-> g]
  BY DEF IsRequest
<1>6. w.team = e /\ w.anchor = f /\ w.failed = g
  BY <1>0
<1> DEFINE w1 == [w EXCEPT !.job = job]
           w2 == [w1 EXCEPT !.about = about]
           w3 == [w2 EXCEPT !.todo = todo]
<1>1. Fresh(w, job, about, todo, queue) = [w3 EXCEPT !.queue = queue]
  BY DEF Fresh
<1>2. w1 = [job |-> job, about |-> b, todo |-> c, queue |-> d, team |-> e, anchor |-> f, failed |-> g]
  BY <1>0
<1> HIDE DEF w1
<1>3. w2 = [job |-> job, about |-> about, todo |-> c, queue |-> d, team |-> e, anchor |-> f, failed |-> g]
  BY <1>2
<1> HIDE DEF w2
<1>4. w3 = [job |-> job, about |-> about, todo |-> todo, queue |-> d, team |-> e, anchor |-> f, failed |-> g]
  BY <1>3
<1> HIDE DEF w3
<1>5. [w3 EXCEPT !.queue = queue] =
        [job |-> job, about |-> about, todo |-> todo, queue |-> queue, team |-> e, anchor |-> f, failed |-> g]
  BY <1>4
<1> QED
  BY <1>1, <1>5, <1>6

LEMMA BeginStarts ==
  ASSUME NEW h \in Handlers, WorkOK, NEW job, NEW about, NEW todo, NEW queue, IsList(todo),
         Begin(h, job, about, todo, queue)
  PROVE  /\ WorkOK' /\ work[h].todo = <<>> /\ work[h].job = "none"
         /\ work'[h].job = job /\ work'[h].about = about
         /\ work'[h].todo = todo /\ work'[h].queue = queue
         /\ work'[h].failed = FALSE /\ work'[h].team = {} /\ work'[h].anchor = None
         /\ \A g \in Handlers : ~Starting(g)
<1> DEFINE w == [job |-> job, about |-> about, todo |-> todo, queue |-> queue, team |-> {},
                 anchor |-> None, failed |-> FALSE]
<1>1. work' = [work EXCEPT ![h] = w]
  <2>1. [Idle EXCEPT !.job = job, !.about = about, !.todo = todo, !.queue = queue] = w
    <3> DEFINE no == FALSE
               none == {}
               empty == <<>>
    <3>1. /\ Idle = [job |-> "none", about |-> None, todo |-> empty, queue |-> empty, team |-> none,
                     anchor |-> None, failed |-> no]
          /\ w = [job |-> job, about |-> about, todo |-> todo, queue |-> queue, team |-> none,
                  anchor |-> None, failed |-> no]
      BY DEF Idle
    <3> HIDE DEF no, none, empty, w
    <3>2. [Idle EXCEPT !.job = job, !.about = about, !.todo = todo, !.queue = queue] =
            [job |-> job, about |-> about, todo |-> todo, queue |-> queue, team |-> none,
             anchor |-> None, failed |-> no]
      <4>1. IsRequest(Idle) /\ Idle.team = none /\ Idle.anchor = None /\ Idle.failed = no
        BY <3>1, ShortLists DEF IsRequest, empty
      <4>2. Fresh(Idle, job, about, todo, queue) =
              [job |-> job, about |-> about, todo |-> todo, queue |-> queue, team |-> Idle.team,
               anchor |-> Idle.anchor, failed |-> Idle.failed]
        BY ONLY <4>1, FreshRequest
      <4> QED
        BY <4>1, <4>2 DEF Fresh
    <3> QED
      BY <3>1, <3>2, Zenon
  <2> QED
    BY <2>1 DEF Begin
<1>2. IsRequest(w)
  BY DEF IsRequest
<1>3. /\ work[h].todo = <<>> /\ work[h].job = "none"
      /\ \A g \in Handlers : ~Starting(g)
  <2>1. work[h] = Idle /\ \A g \in Handlers : ~Starting(g)
    BY DEF Begin
  <2> QED
    BY <2>1 DEF Idle
<1>4. /\ w.job = job /\ w.about = about /\ w.todo = todo /\ w.queue = queue
      /\ w.failed = FALSE /\ w.team = {} /\ w.anchor = None
  OBVIOUS
<1> HIDE DEF w
<1>5. WorkOK' /\ work'[h] = w
  BY <1>1, <1>2, RequestReplaced
<1> QED
  BY <1>3, <1>4, <1>5

\* The statements the requests begin with.
Opening(todo) ==
  /\ IsList(todo)
  /\ \A i \in 1..Len(todo) :
       /\ todo[i].do \in {"index", "dates", "members", "change", "leave", "edit", "delete"}
       /\ ItemTyped(todo[i])

LEMMA RequestsOpen ==
  /\ Opening(<<>>)
  /\ \A lo, hi : /\ Opening(Reconcile(lo, hi)) /\ Opening(Fill(lo, hi))
                 /\ \A wipe : Opening(Generate(lo, hi, wipe))
  /\ \A s, t : Opening(s) /\ Opening(t) => Opening(s \o t)
  /\ \A l : /\ Opening(<<[do |-> "change", l |-> l]>>) /\ Opening(<<[do |-> "leave", l |-> l]>>)
            /\ Opening(<<[do |-> "delete", l |-> l]>>)
            /\ \A row : Opening(<<[do |-> "edit", l |-> l, row |-> row], [do |-> "change", l |-> l]>>)
<1>1. Opening(<<>>)
  BY ShortLists DEF Opening
<1>2. ASSUME NEW a, a.do \in {"index", "dates", "members", "change", "leave", "edit", "delete"},
             ItemTyped(a)
      PROVE  Opening(<<a>>)
  <2>1. IsList(<<a>>) /\ Len(<<a>>) = 1 /\ <<a>>[1] = a
    BY ShortLists
  <2>2. \A k \in 1..1 : k = 1
    OBVIOUS
  <2> QED
    BY <1>2, <2>1, <2>2 DEF Opening
<1>3. ASSUME NEW s, NEW t, Opening(s), Opening(t)
      PROVE  Opening(s \o t)
  <2>1. /\ IsList(s) /\ IsList(t) /\ IsList(s \o t) /\ Len(s \o t) = Len(s) + Len(t)
        /\ Len(s) \in Nat /\ Len(t) \in Nat
        /\ \A i \in 1..Len(s) : (s \o t)[i] = s[i]
        /\ \A i \in 1..Len(t) : (s \o t)[Len(s) + i] = t[i]
    BY <1>3, ListsJoin, ListLength DEF Opening
  <2>2. ASSUME NEW i \in 1..Len(s \o t)
        PROVE  /\ (s \o t)[i].do \in {"index", "dates", "members", "change", "leave", "edit", "delete"}
               /\ ItemTyped((s \o t)[i])
    <3>1. CASE i \in 1..Len(s)
      BY <1>3, <2>1, <3>1 DEF Opening
    <3>2. CASE i \notin 1..Len(s)
      <4> DEFINE j == i - Len(s)
      <4>1. j \in 1..Len(t) /\ i = Len(s) + j
        BY <2>1, <3>2
      <4> HIDE DEF j
      <4> QED
        BY <1>3, <2>1, <4>1 DEF Opening
    <3> QED
      BY <3>1, <3>2
  <2> QED
    BY <2>1, <2>2 DEF Opening
<1>4. ASSUME NEW lo, NEW hi
      PROVE  /\ Opening(Reconcile(lo, hi)) /\ Opening(Fill(lo, hi))
             /\ \A wipe : Opening(Generate(lo, hi, wipe))
  <2> DEFINE D == DayRange(lo, hi)
  <2>1. D \in SUBSET Days
    BY DEF DayRange
  <2> HIDE DEF D
  <2>2. ItemTyped([do |-> "index", days |-> D]) /\ ItemTyped([do |-> "dates", days |-> D])
    BY <2>1 DEF ItemTyped
  <2>3. \A wipe : ItemTyped([do |-> "members", days |-> D, wipe |-> wipe])
    BY <2>1 DEF ItemTyped
  <2>4. Opening(<<[do |-> "index", days |-> D]>>) /\ Opening(<<[do |-> "dates", days |-> D]>>)
    BY <1>2, <2>2
  <2>5. \A wipe : Opening(<<[do |-> "members", days |-> D, wipe |-> wipe]>>)
    BY <1>2, <2>3
  <2> QED
    BY <2>4, <2>5 DEF Reconcile, Fill, Generate, D
<1>5. ASSUME NEW l
      PROVE  /\ Opening(<<[do |-> "change", l |-> l]>>) /\ Opening(<<[do |-> "leave", l |-> l]>>)
             /\ Opening(<<[do |-> "delete", l |-> l]>>)
  <2>1. /\ ItemTyped([do |-> "change", l |-> l]) /\ ItemTyped([do |-> "leave", l |-> l])
        /\ ItemTyped([do |-> "delete", l |-> l])
    BY DEF ItemTyped
  <2> QED
    BY <1>2, <2>1
<1>6. ASSUME NEW l, NEW row
      PROVE  Opening(<<[do |-> "edit", l |-> l, row |-> row], [do |-> "change", l |-> l]>>)
  <2> DEFINE a == [do |-> "edit", l |-> l, row |-> row]
             b == [do |-> "change", l |-> l]
             s == <<a, b>>
  <2>1. a.do = "edit" /\ b.do = "change" /\ ItemTyped(a) /\ ItemTyped(b)
    BY DEF ItemTyped
  <2> HIDE DEF a, b
  <2>2. IsList(s) /\ Len(s) = 2 /\ s[1] = a /\ s[2] = b
    BY ShortLists
  <2> HIDE DEF s
  <2>3. \A k \in 1..2 : k = 1 \/ k = 2
    OBVIOUS
  <2>4. Opening(s)
    BY <2>1, <2>2, <2>3 DEF Opening
  <2> QED
    BY <2>4 DEF s, a, b
<1> QED
  BY <1>1, <1>3, <1>4, <1>5, <1>6

-----------------------------------------------------------------------------
(* Statements that start loops. *)

\* q runs step[d] for each day d of D.
RunsOver(q, D, step) ==
  /\ IsList(q)
  /\ \A i \in 1..Len(q) : \E d \in D : q[i] = step[d]
  /\ \A d \in D : \E i \in 1..Len(q) : q[i] = step[d]

LEMMA PerDayRunsOver ==
  ASSUME NEW D \in SUBSET Days, NEW step, \A d \in D : step[d].d = d
  PROVE  RunsOver(PerDay({step[d] : d \in D}), D, step)
<1> DEFINE S == {step[d] : d \in D}
           q == PerDay(S)
<1>1. D \in SUBSET Nat /\ IsFiniteSet(D)
  <2>1. LastDay \in Nat
    BY RotaAssumption
  <2>2. IsFiniteSet(Days) /\ Days \in SUBSET Nat
    BY <2>1, FS_Interval DEF Days
  <2> QED
    BY <2>2, FS_Subset
<1>2. q \in Seq(S) /\ \A d \in D : \E i \in 1..Len(q) : q[i] = step[d]
  BY <1>1, PerDayRunsEachDay
<1> HIDE DEF q
<1>3. \A i \in 1..Len(q) : q[i] \in S
  BY <1>2, ElementOfSeq
<1>4. IsList(q)
  BY <1>2, SequencesAreLists
<1> QED
  BY <1>2, <1>3, <1>4 DEF RunsOver, q

LEMMA HeadIsTyped ==
  ASSUME TodoInv, NEW h \in Handlers, work[h].todo # <<>>
  PROVE  /\ Now(h) = work[h].todo[1] /\ 1 \in 1..Len(work[h].todo) /\ ItemTyped(Now(h))
         /\ IsRequest(work[h]) /\ Len(work[h].todo) \in Nat \ {0}
<1>1. IsRequest(work[h]) /\ IsList(work[h].todo) /\ Typed(work[h])
  BY DEF TodoInv, WorkOK, IsRequest
<1>2. Len(work[h].todo) \in Nat \ {0} /\ Head(work[h].todo) = work[h].todo[1]
  BY <1>1, ListLength
<1>3. 1 \in 1..Len(work[h].todo)
  BY <1>2
<1> QED
  BY <1>1, <1>2, <1>3 DEF Typed, Now

\* What FindStale, GetMembers and LoadTeam run for a day.
Drops(D) == [d \in D |-> [do |-> "drop", d |-> d, id |-> cover[d].id]]
Dates(D) == [d \in D |-> [do |-> "leaves", d |-> d]]
Duties(D, l, m) == [d \in D |-> [do |-> "duty", d |-> d, l |-> l, m |-> m]]
StaleDays(h) == {e \in Now(h).days : IsStale(e, Now(h).away)}

LEMMA FindStaleRuns ==
  ASSUME TodoInv, NEW h \in Handlers, FindStale(h)
  PROVE  /\ StaleDays(h) \in SUBSET Days
         /\ \E q : Then(h, q) /\ RunsOver(q, StaleDays(h), Drops(StaleDays(h)))
<1> DEFINE D == StaleDays(h)
           Drop(d) == [do |-> "drop", d |-> d, id |-> cover[d].id]
           step == Drops(D)
<1>1. D \in SUBSET Days
  <2>1. work[h].todo # <<>> /\ Now(h).do = "compare"
    BY DEF FindStale, Doing, Now
  <2>2. Now(h).days \in SUBSET Days
    BY <2>1, HeadIsTyped DEF ItemTyped
  <2> QED
    BY <2>2 DEF StaleDays
<1>2. Then(h, PerDay({Drop(d) : d \in D}))
  BY DEF FindStale, StaleDays
<1>3. {Drop(d) : d \in D} = {step[d] : d \in D} /\ \A d \in D : step[d].d = d
  <2>1. \A d \in D : step[d] = Drop(d)
    BY DEF Drops
  <2>2. \A d \in D : Drop(d).d = d
    OBVIOUS
  <2> HIDE DEF D, step, Drop
  <2>3. \A x : x \in {Drop(d) : d \in D} <=> x \in {step[d] : d \in D}
    BY <2>1
  <2> QED
    BY <2>1, <2>2, <2>3
<1> HIDE DEF D, step
<1>4. RunsOver(PerDay({step[d] : d \in D}), D, step)
  BY <1>1, <1>3, PerDayRunsOver
<1> QED
  BY <1>1, <1>2, <1>3, <1>4 DEF D, step

LEMMA LoadTeamRuns ==
  ASSUME TodoInv, NEW h \in Handlers, LoadTeam(h)
  PROVE  /\ Now(h).days \in SUBSET Days
         /\ \E q : /\ RunsOver(q, Now(h).days, Duties(Now(h).days, Now(h).l, Now(h).m))
                   /\ WorkOK' /\ GoesOn(work[h], work'[h], q) /\ Now(h) = work[h].todo[1]
                   /\ work'[h] = [work[h] EXCEPT !.team = team, !.todo = work'[h].todo]
<1> DEFINE t == Now(h)
           D == t.days
           Date(d) == [do |-> "duty", d |-> d, l |-> t.l, m |-> t.m]
           step == Duties(D, t.l, t.m)
           q == PerDay({Date(d) : d \in D})
           todo == q \o Tail(work[h].todo)
           w == [work[h] EXCEPT !.team = team, !.todo = todo]
<1>1. D \in SUBSET Days /\ IsRequest(work[h]) /\ work[h].todo # <<>> /\ WorkOK
  <2>1. work[h].todo # <<>> /\ t.do = "team"
    BY DEF LoadTeam, Doing, Now
  <2> HIDE DEF t
  <2>2. ItemTyped(t) /\ IsRequest(work[h])
    BY <2>1, HeadIsTyped DEF t
  <2> QED
    BY <2>1, <2>2 DEF ItemTyped, TodoInv
<1>2. work' = [work EXCEPT ![h] = w]
  BY DEF LoadTeam
<1>3. {Date(d) : d \in D} = {step[d] : d \in D} /\ \A d \in D : step[d].d = d
  <2>1. \A d \in D : step[d] = Date(d)
    BY DEF Duties
  <2>2. \A d \in D : Date(d).d = d
    OBVIOUS
  <2> HIDE DEF D, step, Date
  <2>3. \A x : x \in {Date(d) : d \in D} <=> x \in {step[d] : d \in D}
    BY <2>1
  <2> QED
    BY <2>1, <2>2, <2>3
<1>4. RunsOver(q, D, step)
  <2> HIDE DEF D, step
  <2> QED
    BY <1>1, <1>3, PerDayRunsOver
<1>5. IsList(q)
  BY <1>4 DEF RunsOver
<1> HIDE DEF q
<1>6. w = [job |-> work[h].job, about |-> work[h].about, todo |-> todo, queue |-> work[h].queue,
           team |-> team, anchor |-> work[h].anchor, failed |-> work[h].failed]
  <2> HIDE DEF todo
  <2> QED
    BY <1>1, RequestFields
<1>7. /\ w.todo = q \o Tail(work[h].todo)
      /\ w = [job |-> w.job, about |-> w.about, todo |-> w.todo, queue |-> w.queue,
              team |-> w.team, anchor |-> w.anchor, failed |-> w.failed]
  <2> HIDE DEF w
  <2> QED
    BY <1>6
<1>8. w = [work[h] EXCEPT !.team = team, !.todo = w.todo]
  <2>1. w.todo = todo
    <3> HIDE DEF w
    <3> QED
      BY <1>7
  <2> QED
    BY <2>1
<1> HIDE DEF w, todo
<1>9. WorkOK' /\ work'[h] = w /\ GoesOn(work[h], w, q) /\ Now(h) = work[h].todo[1]
  BY <1>1, <1>2, <1>5, <1>7, StatementRuns DEF Runs
<1> QED
  BY <1>1, <1>4, <1>8, <1>9

LEMMA GetMembersRuns ==
  ASSUME TodoInv, NEW h \in Handlers, GetMembers(h), team # {}
  PROVE  /\ Now(h).days \in SUBSET Days /\ Now(h).days \cap Working \in SUBSET Days
         /\ \E q, wipe :
              /\ RunsOver(q, Now(h).days \cap Working, Dates(Now(h).days \cap Working))
              /\ wipe = IF Now(h).wipe THEN <<[do |-> "wipe", days |-> Now(h).days]>> ELSE <<>>
              /\ IsList(wipe) /\ IsList(wipe \o q)
              /\ WorkOK' /\ GoesOn(work[h], work'[h], wipe \o q) /\ Now(h) = work[h].todo[1]
              /\ work'[h] = [work[h] EXCEPT !.team = team, !.todo = work'[h].todo]
<1> DEFINE t == Now(h)
           D == t.days \cap Working
           Date(d) == [do |-> "leaves", d |-> d]
           step == Dates(D)
           q == PerDay({Date(d) : d \in D})
           wipe == IF t.wipe THEN <<[do |-> "wipe", days |-> t.days]>> ELSE <<>>
           steps == wipe \o q
           todo == steps \o Tail(work[h].todo)
           w == [work[h] EXCEPT !.team = team, !.todo = todo]
<1>1. /\ t.days \in SUBSET Days /\ D \in SUBSET Days
      /\ IsRequest(work[h]) /\ work[h].todo # <<>> /\ WorkOK
  <2>1. work[h].todo # <<>> /\ t.do = "members"
    BY DEF GetMembers, Doing, Now
  <2> HIDE DEF t
  <2>2. ItemTyped(t) /\ IsRequest(work[h])
    BY <2>1, HeadIsTyped DEF t
  <2> QED
    BY <2>1, <2>2 DEF ItemTyped, TodoInv
<1>2. work' = [work EXCEPT ![h] = w]
  BY DEF GetMembers
<1>3. {Date(d) : d \in D} = {step[d] : d \in D} /\ \A d \in D : step[d].d = d
  <2>1. \A d \in D : step[d] = Date(d)
    BY DEF Dates
  <2>2. \A d \in D : Date(d).d = d
    OBVIOUS
  <2> HIDE DEF D, step, Date
  <2>3. \A x : x \in {Date(d) : d \in D} <=> x \in {step[d] : d \in D}
    BY <2>1
  <2> QED
    BY <2>1, <2>2, <2>3
<1>4. RunsOver(q, D, step)
  <2> HIDE DEF D, step
  <2> QED
    BY <1>1, <1>3, PerDayRunsOver
<1>5. IsList(q)
  BY <1>4 DEF RunsOver
<1> HIDE DEF q
<1>6. IsList(wipe)
  BY ShortLists
<1>7. wipe = IF t.wipe THEN <<[do |-> "wipe", days |-> t.days]>> ELSE <<>>
  OBVIOUS
<1> HIDE DEF wipe
<1>8. IsList(steps)
  BY <1>5, <1>6, ListsJoin
<1>9. w = [job |-> work[h].job, about |-> work[h].about, todo |-> todo, queue |-> work[h].queue,
           team |-> team, anchor |-> work[h].anchor, failed |-> work[h].failed]
  <2> HIDE DEF todo
  <2> QED
    BY <1>1, RequestFields
<1>10. /\ w.todo = steps \o Tail(work[h].todo)
       /\ w = [job |-> w.job, about |-> w.about, todo |-> w.todo, queue |-> w.queue,
               team |-> w.team, anchor |-> w.anchor, failed |-> w.failed]
  <2> HIDE DEF w
  <2> QED
    BY <1>9
<1>11. w = [work[h] EXCEPT !.team = team, !.todo = w.todo]
  <2>1. w.todo = todo
    <3> HIDE DEF w
    <3> QED
      BY <1>10
  <2> QED
    BY <2>1
<1> HIDE DEF w, todo
<1>12. WorkOK' /\ work'[h] = w /\ GoesOn(work[h], w, steps) /\ Now(h) = work[h].todo[1]
  <2> HIDE DEF steps
  <2> QED
    BY <1>1, <1>2, <1>8, <1>10, StatementRuns DEF Runs
<1> QED
  BY <1>1, <1>4, <1>6, <1>7, <1>8, <1>11, <1>12

-----------------------------------------------------------------------------
(* Loops stay inside the calendar. *)

LEMMA TypedStep ==
  ASSUME TodoInv, NEW h \in Handlers, WorkOK', \A g \in Handlers : g # h => work'[g] = work[g],
         NEW steps, GoesOn(work[h], work'[h], steps), \A i \in 1..Len(steps) : ItemTyped(steps[i])
  PROVE  TodoInv'
<1>1. ASSUME NEW i \in 1..Len(work'[h].todo)
      PROVE  ItemTyped(work'[h].todo[i])
  <2>1. Typed(work[h])
    BY DEF TodoInv
  <2>2. CASE i \in 1..Len(steps)
    BY <2>2 DEF GoesOn
  <2>3. CASE i \notin 1..Len(steps)
    <3> DEFINE j == i - Len(steps) + 1
    <3>1. j \in 1..Len(work[h].todo) /\ i > Len(steps)
      BY <2>3 DEF GoesOn
    <3>2. work'[h].todo[i] = work[h].todo[j]
      BY <3>1 DEF GoesOn
    <3> HIDE DEF j
    <3> QED
      BY <2>1, <3>1, <3>2 DEF Typed
  <2> QED
    BY <2>2, <2>3
<1>2. \A g \in Handlers : Typed(work'[g])
  BY <1>1 DEF TodoInv, Typed
<1> QED
  BY <1>2 DEF TodoInv

LEMMA OthersWait ==
  ASSUME NEW h \in Handlers, WorkOK, NEW w, work' = [work EXCEPT ![h] = w]
  PROVE  \A g \in Handlers : g # h => work'[g] = work[g]
BY DEF WorkOK

LEMMA ThenKeepsTypes ==
  ASSUME TodoInv, NEW h \in Handlers, work[h].todo # <<>>, NEW steps, IsList(steps),
         \A i \in 1..Len(steps) : ItemTyped(steps[i]), Then(h, steps)
  PROVE  TodoInv'
<1>1. WorkOK
  BY DEF TodoInv
<1>2. WorkOK' /\ GoesOn(work[h], work'[h], steps)
  BY <1>1, ThenRuns
<1>3. \A g \in Handlers : g # h => work'[g] = work[g]
  BY <1>1, OthersWait DEF Then
<1> QED
  BY <1>2, <1>3, TypedStep

LEMMA ThenNothing ==
  ASSUME TodoInv, NEW h \in Handlers, work[h].todo # <<>>, Then(h, <<>>)
  PROVE  TodoInv'
BY ShortLists, ThenKeepsTypes

LEMMA ThenOne ==
  ASSUME TodoInv, NEW h \in Handlers, work[h].todo # <<>>, NEW a, ItemTyped(a), Then(h, <<a>>)
  PROVE  TodoInv'
<1>1. IsList(<<a>>) /\ Len(<<a>>) = 1 /\ <<a>>[1] = a
  BY ShortLists
<1>2. \A i \in 1..Len(<<a>>) : ItemTyped(<<a>>[i])
  BY <1>1
<1> QED
  BY <1>1, <1>2, ThenKeepsTypes

LEMMA ThenTwo ==
  ASSUME TodoInv, NEW h \in Handlers, work[h].todo # <<>>, NEW a, NEW b,
         ItemTyped(a), ItemTyped(b), Then(h, <<a, b>>)
  PROVE  TodoInv'
<1>1. IsList(<<a, b>>) /\ Len(<<a, b>>) = 2 /\ <<a, b>>[1] = a /\ <<a, b>>[2] = b
  BY ShortLists
<1>2. \A i \in 1..2 : i = 1 \/ i = 2
  OBVIOUS
<1>3. \A i \in 1..Len(<<a, b>>) : ItemTyped(<<a, b>>[i])
  BY <1>1, <1>2
<1> QED
  BY <1>1, <1>3, ThenKeepsTypes

LEMMA ThenThree ==
  ASSUME TodoInv, NEW h \in Handlers, work[h].todo # <<>>, NEW a, NEW b, NEW c,
         ItemTyped(a), ItemTyped(b), ItemTyped(c), Then(h, <<a, b, c>>)
  PROVE  TodoInv'
<1>1. /\ IsList(<<a, b, c>>) /\ Len(<<a, b, c>>) = 3
      /\ <<a, b, c>>[1] = a /\ <<a, b, c>>[2] = b /\ <<a, b, c>>[3] = c
  BY ShortLists
<1>2. \A i \in 1..3 : i = 1 \/ i = 2 \/ i = 3
  OBVIOUS
<1>3. \A i \in 1..Len(<<a, b, c>>) : ItemTyped(<<a, b, c>>[i])
  BY <1>1, <1>2
<1> QED
  BY <1>1, <1>3, ThenKeepsTypes

LEMMA AbortKeepsTypes ==
  ASSUME TodoInv, NEW h \in Handlers, Abort(h)
  PROVE  TodoInv'
<1>1. WorkOK
  BY DEF TodoInv
<1>2. WorkOK' /\ work'[h].todo = <<>>
  BY <1>1, AbortStops
<1>3. \A g \in Handlers : g # h => work'[g] = work[g]
  BY <1>1 DEF Abort, WorkOK
<1>4. Len(work'[h].todo) = 0
  BY <1>2, ShortLists
<1>5. \A g \in Handlers : Typed(work'[g])
  BY <1>3, <1>4 DEF TodoInv, Typed
<1> QED
  BY <1>2, <1>5 DEF TodoInv

LEMMA ReplacedKeepsTypes ==
  ASSUME TodoInv, NEW h \in Handlers, NEW w, IsRequest(w), Typed(w), work' = [work EXCEPT ![h] = w]
  PROVE  TodoInv'
<1>1. WorkOK
  BY DEF TodoInv
<1>2. WorkOK' /\ work'[h] = w
  BY <1>1, RequestReplaced
<1>3. \A g \in Handlers : g # h => work'[g] = work[g]
  BY <1>1, OthersWait
<1>4. \A g \in Handlers : Typed(work'[g])
  BY <1>2, <1>3 DEF TodoInv
<1> QED
  BY <1>2, <1>4 DEF TodoInv

LEMMA BeginKeepsTypes ==
  ASSUME TodoInv, NEW h \in Handlers, NEW job, NEW about, NEW todo, NEW queue, Opening(todo),
         Begin(h, job, about, todo, queue)
  PROVE  TodoInv'
<1>1. WorkOK
  BY DEF TodoInv
<1>2. IsList(todo) /\ \A i \in 1..Len(todo) : ItemTyped(todo[i])
  BY DEF Opening
<1>3. WorkOK' /\ work'[h].todo = todo
  BY <1>1, <1>2, BeginStarts
<1>4. \A g \in Handlers : g # h => work'[g] = work[g]
  BY <1>1 DEF Begin, WorkOK
<1>5. \A g \in Handlers : Typed(work'[g])
  BY <1>2, <1>3, <1>4 DEF TodoInv, Typed
<1> QED
  BY <1>3, <1>5 DEF TodoInv

(* recordActualCoverSlot of a reassign run: the slot is remembered.        *)
\* The request v, its first statement run and the position kept.
Remembers(w, v, anchor) ==
  w = [job |-> v.job, about |-> v.about, todo |-> Tail(v.todo), queue |-> v.queue,
       team |-> v.team, anchor |-> anchor, failed |-> v.failed]

LEMMA RequestRewritten ==
  ASSUME NEW h \in Handlers, WorkOK, work[h].todo # <<>>, NEW anchor, NEW w,
         Remembers(w, work[h], anchor), work' = [work EXCEPT ![h] = w]
  PROVE  WorkOK' /\ work'[h] = w /\ GoesOn(work[h], w, <<>>)
<1> DEFINE todo == Tail(work[h].todo)
           empty == <<>>
<1>1. IsList(work[h].todo)
  BY DEF WorkOK, IsRequest
<1>2. IsList(todo) /\ IsList(empty)
  BY <1>1, ListTail, ShortLists
<1>3. todo = empty \o todo
  <2> HIDE DEF todo
  <2> QED
    BY <1>2, ConcatEmptySeq DEF IsList
<1>4. Runs(h, w, empty)
  BY <1>3 DEF Runs, Remembers
<1> HIDE DEF empty
<1>5. WorkOK' /\ work'[h] = w /\ GoesOn(work[h], w, empty)
  BY <1>2, <1>4, StatementRuns
<1> QED
  BY <1>5 DEF empty

LEMMA SlotRemembered ==
  ASSUME NEW h \in Handlers, WorkOK, work[h].todo # <<>>, NEW anchor, NEW w,
         \/ w = [work[h] EXCEPT !.anchor = anchor, !.todo = Tail(work[h].todo)]
         \/ w = [work[h] EXCEPT !.todo = Tail(work[h].todo), !.anchor = anchor],
         work' = [work EXCEPT ![h] = w]
  PROVE  /\ WorkOK' /\ GoesOn(work[h], work'[h], <<>>)
         /\ \A g \in Handlers : g # h => work'[g] = work[g]
         /\ work'[h].job = work[h].job /\ work'[h].team = work[h].team
         /\ work'[h].about = work[h].about /\ work'[h].queue = work[h].queue
         /\ work'[h].failed = work[h].failed /\ work'[h].todo = Tail(work[h].todo)
         /\ work'[h].anchor = anchor
<1> DEFINE todo == Tail(work[h].todo)
<1>1. IsRequest(work[h])
  BY DEF WorkOK
<1>2. Remembers(w, work[h], anchor)
  <2> HIDE DEF todo
  <2>1. [work[h] EXCEPT !.anchor = anchor, !.todo = todo] =
          [job |-> work[h].job, about |-> work[h].about, todo |-> todo, queue |-> work[h].queue,
           team |-> work[h].team, anchor |-> anchor, failed |-> work[h].failed]
    BY ONLY <1>1, AnchorFields
  <2>2. [work[h] EXCEPT !.todo = todo, !.anchor = anchor] =
          [job |-> work[h].job, about |-> work[h].about, todo |-> todo, queue |-> work[h].queue,
           team |-> work[h].team, anchor |-> anchor, failed |-> work[h].failed]
    BY ONLY <1>1, AnchorFieldsInOrder
  <2> QED
    BY <2>1, <2>2, Zenon DEF todo, Remembers
<1>3. WorkOK' /\ work'[h] = w /\ GoesOn(work[h], w, <<>>)
  <2>1. h \in Handlers /\ WorkOK /\ work[h].todo # <<>> /\ work' = [work EXCEPT ![h] = w]
    OBVIOUS
  <2> QED
    BY ONLY <1>2, <2>1, RequestRewritten
<1>4. \A g \in Handlers : g # h => work'[g] = work[g]
  <2>1. h \in Handlers /\ WorkOK /\ work' = [work EXCEPT ![h] = w]
    OBVIOUS
  <2> QED
    BY ONLY <2>1, OthersWait
<1>5. /\ w.job = work[h].job /\ w.team = work[h].team /\ w.about = work[h].about
      /\ w.queue = work[h].queue /\ w.failed = work[h].failed /\ w.todo = todo /\ w.anchor = anchor
  <2> HIDE DEF todo
  <2> QED
    BY ONLY <1>2 DEF Remembers, todo
<1> QED
  BY <1>3, <1>4, <1>5

LEMMA SlotKeepsTypes ==
  ASSUME TodoInv, NEW h \in Handlers, work[h].todo # <<>>, NEW anchor, NEW w,
         \/ w = [work[h] EXCEPT !.anchor = anchor, !.todo = Tail(work[h].todo)]
         \/ w = [work[h] EXCEPT !.todo = Tail(work[h].todo), !.anchor = anchor],
         work' = [work EXCEPT ![h] = w]
  PROVE  TodoInv'
<1>1. WorkOK
  BY DEF TodoInv
<1>2. WorkOK' /\ GoesOn(work[h], work'[h], <<>>) /\ \A g \in Handlers : g # h => work'[g] = work[g]
  BY <1>1, SlotRemembered, Zenon
<1> DEFINE empty == <<>>
<1>3. GoesOn(work[h], work'[h], empty) /\ Len(empty) = 0
  BY <1>2, ShortLists
<1> HIDE DEF empty
<1>4. \A i \in 1..Len(empty) : ItemTyped(empty[i])
  BY <1>3
<1> QED
  BY <1>2, <1>3, <1>4, TypedStep

LEMMA DayItems ==
  ASSUME NEW d \in Days
  PROVE  /\ \A a : ItemTyped([do |-> "r1", d |-> d, away |-> a])
         /\ \A a, m : ItemTyped([do |-> "r2", d |-> d, away |-> a, m |-> m])
         /\ \A m, c : ItemTyped([do |-> "original", d |-> d, m |-> m, c |-> c])
         /\ \A m : ItemTyped([do |-> "advance", d |-> d, m |-> m])
         /\ \A c : ItemTyped([do |-> "slot", d |-> d, c |-> c])
         /\ \A c, id : ItemTyped([do |-> "cover", d |-> d, c |-> c, id |-> id])
         /\ \A l, id : ItemTyped([do |-> "away", d |-> d, l |-> l, id |-> id])
         /\ \A l, id, a : ItemTyped([do |-> "turn", d |-> d, l |-> l, id |-> id, away |-> a])
         /\ \A id, c : ItemTyped([do |-> "look", d |-> d, id |-> id, c |-> c])
         /\ \A c : ItemTyped([do |-> "repoint", d |-> d, c |-> c])
BY DEF ItemTyped

LEMMA LoopItems ==
  ASSUME NEW D \in SUBSET Days
  PROVE  /\ \A a : ItemTyped([do |-> "compare", days |-> D, away |-> a])
         /\ \A wipe : ItemTyped([do |-> "members", days |-> D, wipe |-> wipe])
         /\ \A l, m : ItemTyped([do |-> "team", l |-> l, m |-> m, days |-> D])
         /\ ItemTyped([do |-> "wipe", days |-> D])
BY DEF ItemTyped

LEMMA StatusItem == \A l : ItemTyped([do |-> "status", l |-> l])
BY DEF ItemTyped

LEMMA LoopsAreTyped ==
  ASSUME NEW D \in SUBSET Days, NEW q
  PROVE  /\ RunsOver(q, D, Drops(D)) => \A i \in 1..Len(q) : ItemTyped(q[i])
         /\ RunsOver(q, D, Dates(D)) => \A i \in 1..Len(q) : ItemTyped(q[i])
         /\ \A l, m : RunsOver(q, D, Duties(D, l, m)) => \A i \in 1..Len(q) : ItemTyped(q[i])
<1>1. \A d \in D : d \in Days
  OBVIOUS
<1>2. \A d \in D : Drops(D)[d] = [do |-> "drop", d |-> d, id |-> cover[d].id]
  BY DEF Drops
<1>3. \A d \in D : Dates(D)[d] = [do |-> "leaves", d |-> d]
  BY DEF Dates
<1>4. \A l, m : \A d \in D : Duties(D, l, m)[d] = [do |-> "duty", d |-> d, l |-> l, m |-> m]
  BY DEF Duties
<1>5. \A d \in D : ItemTyped(Drops(D)[d])
  <2>1. \A id : \A d \in Days : ItemTyped([do |-> "drop", d |-> d, id |-> id])
    BY DEF ItemTyped
  <2> QED
    BY <1>1, <1>2, <2>1
<1>6. \A d \in D : ItemTyped(Dates(D)[d])
  <2>1. \A d \in Days : ItemTyped([do |-> "leaves", d |-> d])
    BY DEF ItemTyped
  <2> QED
    BY <1>1, <1>3, <2>1
<1>7. ASSUME NEW l, NEW m, NEW d \in D
      PROVE  ItemTyped(Duties(D, l, m)[d])
  <2>1. ItemTyped([do |-> "duty", d |-> d, l |-> l, m |-> m])
    BY <1>1 DEF ItemTyped
  <2> QED
    BY <1>4, <2>1
<1> QED
  BY <1>5, <1>6, <1>7 DEF RunsOver

LEMMA ItemsJoin ==
  ASSUME NEW s, IsList(s), NEW t, IsList(t),
         \A i \in 1..Len(s) : ItemTyped(s[i]), \A i \in 1..Len(t) : ItemTyped(t[i])
  PROVE  \A i \in 1..Len(s \o t) : ItemTyped((s \o t)[i])
<1>1. /\ Len(s \o t) = Len(s) + Len(t) /\ Len(s) \in Nat /\ Len(t) \in Nat
      /\ \A i \in 1..Len(s) : (s \o t)[i] = s[i]
      /\ \A i \in 1..Len(t) : (s \o t)[Len(s) + i] = t[i]
  BY ListsJoin, ListLength
<1>2. ASSUME NEW i \in 1..Len(s \o t)
      PROVE  ItemTyped((s \o t)[i])
  <2>1. CASE i \in 1..Len(s)
    BY <1>1, <2>1
  <2>2. CASE i \notin 1..Len(s)
    <3> DEFINE j == i - Len(s)
    <3>1. j \in 1..Len(t) /\ i = Len(s) + j
      BY <1>1, <2>2
    <3> HIDE DEF j
    <3> QED
      BY <1>1, <3>1
  <2> QED
    BY <2>1, <2>2
<1> QED
  BY <1>2

-----------------------------------------------------------------------------
(* The statements that read or write, then go on with others. *)

LEMMA ReadsKeepTypes ==
  ASSUME TodoInv, NEW h \in Handlers,
         \/ BuildLeaveIndex(h) \/ GetDatesWithAssignments(h) \/ ReadLeaves(h) \/ LoadLeave(h)
         \/ EnsureOriginalAssignment(h) \/ ReadOtherLeaves(h)
  PROVE  TodoInv'
<1> DEFINE t == Now(h)
<1>0. work[h].todo # <<>> => ItemTyped(t)
  BY HeadIsTyped
<1> HIDE DEF t
<1>1. CASE BuildLeaveIndex(h)
  <2>1. work[h].todo # <<>> /\ t.do = "index"
    BY <1>1 DEF BuildLeaveIndex, Doing, Now, t
  <2>2. t.days \in SUBSET Days
    BY <1>0, <2>1 DEF ItemTyped
  <2>3. \E a : Then(h, <<[do |-> "compare", days |-> t.days, away |-> a]>>)
    BY <1>1, Zenon DEF BuildLeaveIndex, t
  <2> QED
    BY <2>1, <2>2, <2>3, LoopItems, ThenOne
<1>2. CASE GetDatesWithAssignments(h)
  <2>1. work[h].todo # <<>> /\ t.do = "dates"
    BY <1>2 DEF GetDatesWithAssignments, Doing, Now, t
  <2>2. Unassigned(t.days) \in SUBSET Days
    BY <1>0, <2>1 DEF ItemTyped, Unassigned
  <2>3. \E w : Then(h, <<[do |-> "members", days |-> Unassigned(t.days), wipe |-> w]>>)
    BY <1>2, Zenon DEF GetDatesWithAssignments, t
  <2> QED
    BY <2>1, <2>2, <2>3, LoopItems, ThenOne
<1>3. CASE ReadLeaves(h)
  <2>1. work[h].todo # <<>> /\ t.do = "leaves"
    BY <1>3 DEF ReadLeaves, Doing, Now, t
  <2>2. t.d \in Days
    BY <1>0, <2>1 DEF ItemTyped
  <2>3. \E a : Then(h, <<[do |-> "r1", d |-> t.d, away |-> a]>>)
    BY <1>3, Zenon DEF ReadLeaves, t
  <2> QED
    BY <2>1, <2>2, <2>3, DayItems, ThenOne
<1>4. CASE LoadLeave(h)
  <2>1. work[h].todo # <<>>
    BY <1>4 DEF LoadLeave, Doing
  <2>2. CASE Abort(h)
    BY <2>2, AbortKeepsTypes
  <2>3. CASE ~Abort(h)
    <3>1. PICK l, m, lo, hi : Then(h, <<[do |-> "team", l |-> l, m |-> m, days |-> DayRange(lo, hi) \cap Working]>>)
      BY <1>4, <2>3, Zenon DEF LoadLeave
    <3>2. DayRange(lo, hi) \cap Working \in SUBSET Days
      BY DEF DayRange
    <3> QED
      BY <2>1, <3>1, <3>2, LoopItems, ThenOne
  <2> QED
    BY <2>2, <2>3
<1>5. CASE EnsureOriginalAssignment(h)
  <2>1. work[h].todo # <<>> /\ t.do = "duty"
    BY <1>5 DEF EnsureOriginalAssignment, Doing, Now, t
  <2>2. t.d \in Days
    BY <1>0, <2>1 DEF ItemTyped
  <2>3. Then(h, <<>>) \/ \E l, id : Then(h, <<[do |-> "away", d |-> t.d, l |-> l, id |-> id]>>)
    <3>1. CASE Scheduled(t.d, t.m)
      BY <1>5, <3>1, Zenon DEF EnsureOriginalAssignment, t
    <3>2. CASE ~Scheduled(t.d, t.m)
      BY <1>5, <3>2, Zenon DEF EnsureOriginalAssignment, t
    <3> QED
      BY <3>1, <3>2
  <2> QED
    BY <2>1, <2>2, <2>3, DayItems, ThenNothing, ThenOne
<1>6. CASE ReadOtherLeaves(h)
  <2>1. work[h].todo # <<>> /\ t.do = "away"
    BY <1>6 DEF ReadOtherLeaves, Doing, Now, t
  <2>2. t.d \in Days
    BY <1>0, <2>1 DEF ItemTyped
  <2>3. \E l, id, a : Then(h, <<[do |-> "turn", d |-> t.d, l |-> l, id |-> id, away |-> a]>>)
    BY <1>6, Zenon DEF ReadOtherLeaves, t
  <2> QED
    BY <2>1, <2>2, <2>3, DayItems, ThenOne
<1> QED
  BY <1>1, <1>2, <1>3, <1>4, <1>5, <1>6

LEMMA ChoicesKeepTypes ==
  ASSUME TodoInv, NEW h \in Handlers,
         \/ PickOriginal(h) \/ DetermineCoveringMember(h) \/ PickLeaveCover(h) \/ CreateCoverAssignment(h)
         \/ FindStale(h) \/ LoadTeam(h) \/ GetMembers(h) \/ HandleLeaveChange(h)
  PROVE  TodoInv'
<1> DEFINE t == Now(h)
<1>0. work[h].todo # <<>> => ItemTyped(t)
  BY HeadIsTyped
<1> HIDE DEF t
<1>1. CASE PickOriginal(h)
  <2>1. work[h].todo # <<>> /\ t.do = "r1"
    BY <1>1 DEF PickOriginal, Doing, Now, t
  <2>2. t.d \in Days
    BY <1>0, <2>1 DEF ItemTyped
  <2>3. \E m : \/ Then(h, <<[do |-> "r2", d |-> t.d, away |-> t.away, m |-> m]>>)
               \/ Then(h, <<[do |-> "original", d |-> t.d, m |-> m, c |-> m]>>)
    <3> DEFINE m == At(work[h].team, TurnOf(r1, t.d, work[h].team))
    <3>1. CASE m \in t.away
      BY <1>1, <3>1, Zenon DEF PickOriginal, t
    <3>2. CASE m \notin t.away
      BY <1>1, <3>2, Zenon DEF PickOriginal, t
    <3> QED
      BY <3>1, <3>2
  <2> QED
    BY <2>1, <2>2, <2>3, DayItems, ThenOne
<1>2. CASE DetermineCoveringMember(h)
  <2>1. work[h].todo # <<>> /\ t.do = "r2"
    BY <1>2 DEF DetermineCoveringMember, Doing, Now, t
  <2>2. t.d \in Days
    BY <1>0, <2>1 DEF ItemTyped
  <2>3. \E m, c : \/ Then(h, <<[do |-> "original", d |-> t.d, m |-> m, c |-> c]>>)
                  \/ Then(h, <<[do |-> "slot", d |-> t.d, c |-> c],
                               [do |-> "original", d |-> t.d, m |-> m, c |-> c]>>)
    <3> DEFINE c == FindCover(work[h].team, t.away, TurnOf(rotation, t.d, work[h].team))
    <3>1. CASE c = None
      BY <1>2, <3>1, Zenon DEF DetermineCoveringMember, t
    <3>2. CASE c # None
      BY <1>2, <3>2, Zenon DEF DetermineCoveringMember, t
    <3> QED
      BY <3>1, <3>2
  <2> QED
    BY <2>1, <2>2, <2>3, DayItems, ThenOne, ThenTwo
<1>3. CASE PickLeaveCover(h)
  <2>1. work[h].todo # <<>> /\ t.do = "turn"
    BY <1>3 DEF PickLeaveCover, Doing, Now, t
  <2>2. t.d \in Days
    BY <1>0, <2>1 DEF ItemTyped
  <2>3. \/ Then(h, <<>>)
        \/ \E id, c, l : Then(h, <<[do |-> "look", d |-> t.d, id |-> id, c |-> c],
                                   [do |-> "status", l |-> l],
                                   [do |-> "slot", d |-> t.d, c |-> c]>>)
    <3> DEFINE c == FindCover(work[h].team, t.away,
                              TurnOf(IF Reassigning(h) THEN work[h].anchor ELSE rotation, t.d, work[h].team))
    <3>1. CASE c = None
      BY <1>3, <3>1, Zenon DEF PickLeaveCover, t
    <3>2. CASE c # None
      BY <1>3, <3>2, Zenon DEF PickLeaveCover, t
    <3> QED
      BY <3>1, <3>2
  <2> QED
    BY <2>1, <2>2, <2>3, DayItems, StatusItem, ThenNothing, ThenThree
<1>4. CASE CreateCoverAssignment(h)
  <2>1. work[h].todo # <<>> /\ t.do = "look"
    BY <1>4 DEF CreateCoverAssignment, Doing, Now, t
  <2>2. t.d \in Days
    BY <1>0, <2>1 DEF ItemTyped
  <2>3. \/ Then(h, <<>>)
        \/ \E c, id : Then(h, <<[do |-> "cover", d |-> t.d, c |-> c, id |-> id]>>)
        \/ \E c : Then(h, <<[do |-> "repoint", d |-> t.d, c |-> c]>>)
    <3>1. CASE cover[t.d] = None
      BY <1>4, <3>1, Zenon DEF CreateCoverAssignment, t
    <3>2. CASE cover[t.d] # None /\ (cover[t.d].swapped \/ cover[t.d].member = t.c)
      BY <1>4, <3>2, Zenon DEF CreateCoverAssignment, t
    <3>3. CASE cover[t.d] # None /\ ~(cover[t.d].swapped \/ cover[t.d].member = t.c)
      BY <1>4, <3>3, Zenon DEF CreateCoverAssignment, t
    <3> QED
      BY <3>1, <3>2, <3>3
  <2> QED
    BY <2>1, <2>2, <2>3, DayItems, ThenNothing, ThenOne
<1>5. CASE FindStale(h)
  <2>1. PICK q : Then(h, q) /\ RunsOver(q, StaleDays(h), Drops(StaleDays(h)))
    BY <1>5, FindStaleRuns
  <2>2. StaleDays(h) \in SUBSET Days /\ work[h].todo # <<>>
    BY <1>5, FindStaleRuns DEF FindStale, Doing
  <2>3. IsList(q) /\ \A i \in 1..Len(q) : ItemTyped(q[i])
    BY <2>1, <2>2, LoopsAreTyped DEF RunsOver
  <2> QED
    BY <2>1, <2>2, <2>3, ThenKeepsTypes
<1>6. CASE LoadTeam(h)
  <2>1. Now(h).days \in SUBSET Days
    BY <1>6, LoadTeamRuns
  <2>2. PICK q : /\ RunsOver(q, Now(h).days, Duties(Now(h).days, Now(h).l, Now(h).m))
                 /\ WorkOK' /\ GoesOn(work[h], work'[h], q)
    BY <1>6, LoadTeamRuns
  <2>3. \A i \in 1..Len(q) : ItemTyped(q[i])
    BY <2>1, <2>2, LoopsAreTyped
  <2>4. \A g \in Handlers : g # h => work'[g] = work[g]
    BY <1>6 DEF LoadTeam, TodoInv, WorkOK
  <2> QED
    BY <2>2, <2>3, <2>4, TypedStep
<1>7. CASE GetMembers(h) /\ team = {}
  <2>1. Abort(h)
    BY <1>7 DEF GetMembers
  <2> QED
    BY <2>1, AbortKeepsTypes
<1>8. CASE GetMembers(h) /\ team # {}
  <2> DEFINE D == Now(h).days
  <2>1. D \in SUBSET Days /\ D \cap Working \in SUBSET Days
    BY <1>8, GetMembersRuns
  <2>2. PICK q, wipe :
          /\ RunsOver(q, D \cap Working, Dates(D \cap Working))
          /\ wipe = IF Now(h).wipe THEN <<[do |-> "wipe", days |-> D]>> ELSE <<>>
          /\ IsList(wipe) /\ WorkOK' /\ GoesOn(work[h], work'[h], wipe \o q)
    BY <1>8, GetMembersRuns
  <2> HIDE DEF D
  <2>3. IsList(q) /\ \A i \in 1..Len(q) : ItemTyped(q[i])
    BY <2>1, <2>2, LoopsAreTyped DEF RunsOver
  <2>4. \A i \in 1..Len(wipe) : ItemTyped(wipe[i])
    <3>1. ItemTyped([do |-> "wipe", days |-> D])
      BY <2>1, LoopItems
    <3>2. CASE Now(h).wipe
      <4>1. wipe = <<[do |-> "wipe", days |-> D]>>
        BY <2>2, <3>2
      <4>2. Len(wipe) = 1 /\ wipe[1] = [do |-> "wipe", days |-> D]
        BY <4>1
      <4> QED
        BY <3>1, <4>2
    <3>3. CASE ~Now(h).wipe
      BY <2>2, <3>3, ShortLists
    <3> QED
      BY <3>2, <3>3
  <2>5. \A i \in 1..Len(wipe \o q) : ItemTyped((wipe \o q)[i])
    BY <2>2, <2>3, <2>4, ItemsJoin
  <2>6. \A g \in Handlers : g # h => work'[g] = work[g]
    BY <1>8 DEF GetMembers, TodoInv, WorkOK
  <2> DEFINE steps == wipe \o q
  <2>7. GoesOn(work[h], work'[h], steps) /\ \A i \in 1..Len(steps) : ItemTyped(steps[i])
    BY <2>2, <2>5
  <2> HIDE DEF steps
  <2> QED
    BY <2>2, <2>6, <2>7, TypedStep
<1>9. CASE HandleLeaveChange(h)
  <2>1. work[h].todo # <<>>
    BY <1>9 DEF HandleLeaveChange, Doing
  <2>2. CASE Abort(h)
    BY <2>2, AbortKeepsTypes
  <2>3. CASE ~Abort(h)
    <3>1. PICK l, lo, hi : Then(h, Reconcile(lo, hi) \o <<[do |-> "leave", l |-> l]>>)
      BY <1>9, <2>3, Zenon DEF HandleLeaveChange
    <3> DEFINE steps == Reconcile(lo, hi) \o <<[do |-> "leave", l |-> l]>>
    <3>2. Opening(steps)
      BY RequestsOpen
    <3>3. Then(h, steps)
      BY <3>1
    <3> HIDE DEF steps
    <3>4. IsList(steps) /\ \A i \in 1..Len(steps) : ItemTyped(steps[i])
      BY <3>2 DEF Opening
    <3> QED
      BY <2>1, <3>3, <3>4, ThenKeepsTypes
  <2> QED
    BY <2>2, <2>3
<1> QED
  BY <1>1, <1>2, <1>3, <1>4, <1>5, <1>6, <1>7, <1>8, <1>9

LEMMA IdleIsTyped == IsRequest(Idle) /\ Typed(Idle) /\ Idle.todo = <<>>
<1> DEFINE no == FALSE
           none == {}
           empty == <<>>
<1>1. Idle = [job |-> "none", about |-> None, todo |-> empty, queue |-> empty, team |-> none,
              anchor |-> None, failed |-> no]
  BY DEF Idle
<1>2. IsList(empty) /\ Len(empty) = 0
  BY ShortLists
<1> HIDE DEF no, none
<1>3. Idle.todo = empty
  BY <1>1
<1> HIDE DEF empty
<1>4. IsRequest(Idle) /\ Typed(Idle)
  BY <1>1, <1>2 DEF IsRequest, Typed
<1> QED
  BY <1>3, <1>4 DEF empty

LEMMA WritesKeepTypes ==
  ASSUME TodoInv, NEW h \in Handlers,
         \/ DropCover(h) \/ DeleteAssignmentsInRange(h) \/ InsertOriginal(h) \/ AdvanceR1(h)
         \/ InsertCover(h) \/ RepointCover(h) \/ UpdateLeaveStatus(h) \/ UpdateLeaveRecord(h)
         \/ DeleteLeaveRecord(h)
  PROVE  TodoInv'
<1> DEFINE t == Now(h)
<1>0. work[h].todo # <<>> /\ ItemTyped(t)
  <2>1. work[h].todo # <<>>
    BY DEF DropCover, DeleteAssignmentsInRange, InsertOriginal, AdvanceR1, InsertCover, RepointCover,
           UpdateLeaveStatus, UpdateLeaveRecord, DeleteLeaveRecord, Doing
  <2> QED
    BY <2>1, HeadIsTyped
<1> HIDE DEF t
<1>1. CASE \/ DropCover(h) \/ DeleteAssignmentsInRange(h) \/ AdvanceR1(h)
           \/ UpdateLeaveStatus(h) \/ DeleteLeaveRecord(h)
  <2>1. Then(h, <<>>)
    BY <1>1, Zenon DEF DropCover, DeleteAssignmentsInRange, AdvanceR1, UpdateLeaveStatus, DeleteLeaveRecord
  <2> QED
    BY <1>0, <2>1, ThenNothing
<1>2. CASE InsertCover(h) \/ RepointCover(h) \/ UpdateLeaveRecord(h)
  <2>1. Then(h, <<>>) \/ Abort(h)
    <3>1. CASE InsertCover(h)
      BY <3>1 DEF InsertCover
    <3>2. CASE RepointCover(h)
      BY <3>2 DEF RepointCover
    <3>3. CASE UpdateLeaveRecord(h)
      BY <3>3 DEF UpdateLeaveRecord
    <3> QED
      BY <1>2, <3>1, <3>2, <3>3
  <2> QED
    BY <1>0, <2>1, ThenNothing, AbortKeepsTypes
<1>3. CASE InsertOriginal(h)
  <2>1. t.d \in Days
    BY <1>0, <1>3 DEF InsertOriginal, Doing, ItemTyped, t, Now
  <2>2. \/ Abort(h)
        \/ \E m : Then(h, <<[do |-> "advance", d |-> t.d, m |-> m]>>)
        \/ \E m, c, id : Then(h, <<[do |-> "advance", d |-> t.d, m |-> m]>> \o
                                 <<[do |-> "cover", d |-> t.d, c |-> c, id |-> id]>>)
    <3>1. CASE ~(orig[t.d] = None /\ t.m \in team)
      BY <1>3, <3>1 DEF InsertOriginal, t
    <3>2. CASE (orig[t.d] = None /\ t.m \in team) /\ t.c = t.m
      BY <1>3, <3>2, Zenon DEF InsertOriginal, t
    <3>3. CASE (orig[t.d] = None /\ t.m \in team) /\ t.c # t.m
      BY <1>3, <3>3, Zenon DEF InsertOriginal, t
    <3> QED
      BY <3>1, <3>2, <3>3
  <2>3. CASE Abort(h)
    BY <2>3, AbortKeepsTypes
  <2>4. CASE \E m : Then(h, <<[do |-> "advance", d |-> t.d, m |-> m]>>)
    BY <1>0, <2>1, <2>4, DayItems, ThenOne
  <2>5. ASSUME NEW m, NEW c, NEW id,
               Then(h, <<[do |-> "advance", d |-> t.d, m |-> m]>> \o
                       <<[do |-> "cover", d |-> t.d, c |-> c, id |-> id]>>)
        PROVE  TodoInv'
    <3> DEFINE a == [do |-> "advance", d |-> t.d, m |-> m]
               b == [do |-> "cover", d |-> t.d, c |-> c, id |-> id]
    <3>1. ItemTyped(a) /\ ItemTyped(b)
      BY <2>1, DayItems
    <3>2. Then(h, <<a>> \o <<b>>)
      BY <2>5
    <3> HIDE DEF a, b
    <3>3. /\ IsList(<<a>>) /\ Len(<<a>>) = 1 /\ <<a>>[1] = a
          /\ IsList(<<b>>) /\ Len(<<b>>) = 1 /\ <<b>>[1] = b
      BY ShortLists
    <3> DEFINE s == <<a>>
               r == <<b>>
    <3>4. /\ IsList(s) /\ \A i \in 1..Len(s) : ItemTyped(s[i])
          /\ IsList(r) /\ \A i \in 1..Len(r) : ItemTyped(r[i])
      <4>1. \A i \in 1..1 : i = 1
        OBVIOUS
      <4> QED
        BY <3>1, <3>3, <4>1
    <3>5. Then(h, s \o r)
      BY <3>2
    <3> HIDE DEF s, r
    <3>6. IsList(s \o r)
      BY <3>4, ListsJoin
    <3>7. \A i \in 1..Len(s \o r) : ItemTyped((s \o r)[i])
      BY <3>4, ItemsJoin
    <3> QED
      BY <1>0, <3>5, <3>6, <3>7, ThenKeepsTypes
  <2> QED
    BY <2>2, <2>3, <2>4, <2>5
<1> QED
  BY <1>1, <1>2, <1>3

LEMMA SlotRuns ==
  ASSUME WorkOK, NEW h \in Handlers, CommitCoverSlot(h)
  PROVE  /\ work[h].todo # <<>> /\ Now(h).do = "slot"
         /\ \/ Then(h, <<>>)
            \/ \E w, anchor : /\ \/ w = [work[h] EXCEPT !.anchor = anchor, !.todo = Tail(work[h].todo)]
                                 \/ w = [work[h] EXCEPT !.todo = Tail(work[h].todo), !.anchor = anchor]
                              /\ work' = [work EXCEPT ![h] = w]
<1>1. work[h].todo # <<>> /\ Now(h).do = "slot"
  BY DEF CommitCoverSlot, Doing, Now
<1>2. CASE ~Reassigning(h)
  <2>1. Then(h, <<>>)
    BY <1>2 DEF CommitCoverSlot
  <2> QED
    BY <1>1, <2>1
<1>3. CASE Reassigning(h)
  <2> DEFINE w == [work[h] EXCEPT !.anchor = SlotPosition(h), !.todo = Tail(work[h].todo)]
  <2>1. work' = [work EXCEPT ![h] = w]
    BY <1>3 DEF CommitCoverSlot
  <2> QED
    BY <1>1, <2>1, Zenon
<1> QED
  BY <1>2, <1>3

\* The request w at the next leave of the list.
Advanced(w, queue, todo) == [w EXCEPT !.queue = queue, !.todo = todo]

LEMMA AdvancedFields ==
  ASSUME NEW w, IsRequest(w), NEW queue, NEW todo
  PROVE  Advanced(w, queue, todo) =
           [job |-> w.job, about |-> w.about, todo |-> todo, queue |-> queue, team |-> w.team,
            anchor |-> w.anchor, failed |-> w.failed]
<1>0. PICK a, b, c, d, e, f, g :
        w = [job |-> a, about |-> b, todo |-> c, queue |-> d, team |-> e, anchor |-> f, failed |-> g]
  BY DEF IsRequest
<1>1. w.job = a /\ w.about = b /\ w.team = e /\ w.anchor = f /\ w.failed = g
  BY <1>0
<1> DEFINE v == [w EXCEPT !.queue = queue]
<1>2. Advanced(w, queue, todo) = [v EXCEPT !.todo = todo]
  BY DEF Advanced
<1>3. v = [job |-> a, about |-> b, todo |-> c, queue |-> queue, team |-> e, anchor |-> f, failed |-> g]
  BY <1>0
<1> HIDE DEF v
<1>4. [v EXCEPT !.todo = todo] =
        [job |-> a, about |-> b, todo |-> todo, queue |-> queue, team |-> e, anchor |-> f, failed |-> g]
  BY <1>3
<1> QED
  BY <1>1, <1>2, <1>4

LEMMA OtherStatementsKeepTypes ==
  ASSUME TodoInv, NEW h \in Handlers, CommitCoverSlot(h) \/ ReassignNext(h) \/ Reply(h)
  PROVE  TodoInv'
<1>0. WorkOK /\ IsRequest(work[h])
  BY DEF TodoInv, WorkOK
<1>1. CASE CommitCoverSlot(h)
  <2>1. work[h].todo # <<>>
    BY <1>0, <1>1, SlotRuns
  <2>2. CASE Then(h, <<>>)
    BY <2>1, <2>2, ThenNothing
  <2>3. CASE ~Then(h, <<>>)
    <3>1. PICK w, anchor :
            /\ \/ w = [work[h] EXCEPT !.anchor = anchor, !.todo = Tail(work[h].todo)]
               \/ w = [work[h] EXCEPT !.todo = Tail(work[h].todo), !.anchor = anchor]
            /\ work' = [work EXCEPT ![h] = w]
      BY <1>0, <1>1, <2>3, SlotRuns, Zenon
    <3> QED
      BY <2>1, <3>1, SlotKeepsTypes, Zenon
  <2> QED
    BY <2>2, <2>3
<1>2. CASE ReassignNext(h)
  <2>1. PICK lo, hi, l, queue :
          work' = [work EXCEPT ![h] = [work[h] EXCEPT !.queue = queue,
                                         !.todo = Reconcile(lo, hi) \o <<[do |-> "leave", l |-> l]>>]]
    BY <1>2 DEF ReassignNext
  <2> DEFINE todo == Reconcile(lo, hi) \o <<[do |-> "leave", l |-> l]>>
             w == [work[h] EXCEPT !.queue = queue, !.todo = todo]
  <2>2. Opening(todo)
    BY RequestsOpen
  <2> HIDE DEF todo
  <2>3. w = [job |-> work[h].job, about |-> work[h].about, todo |-> todo, queue |-> queue,
             team |-> work[h].team, anchor |-> work[h].anchor, failed |-> work[h].failed]
    <3>1. w = Advanced(work[h], queue, todo)
      BY DEF Advanced
    <3> HIDE DEF w
    <3> QED
      BY ONLY <1>0, <3>1, AdvancedFields
  <2>4. work' = [work EXCEPT ![h] = w]
    BY <2>1 DEF todo
  <2> HIDE DEF w
  <2>5. IsRequest(w) /\ Typed(w)
    BY <2>2, <2>3 DEF Opening, IsRequest, Typed
  <2> QED
    BY <2>4, <2>5, ReplacedKeepsTypes
<1>3. CASE Reply(h)
  <2>1. work' = [work EXCEPT ![h] = Idle]
    BY <1>3 DEF Reply
  <2> QED
    BY <2>1, IdleIsTyped, ReplacedKeepsTypes
<1> QED
  BY <1>1, <1>2, <1>3

LEMMA StatementKeepsTypes ==
  ASSUME TodoInv, NEW h \in Handlers, Statement(h)
  PROVE  TodoInv'
BY ReadsKeepTypes, ChoicesKeepTypes, WritesKeepTypes, OtherStatementsKeepTypes DEF Statement

LEMMA RequestsBegin ==
  ASSUME NEW h \in Handlers, ViewDashboard(h) \/ Request(h)
  PROVE  \E job, about, todo, queue : Opening(todo) /\ Begin(h, job, about, todo, queue)
<1>1. Opening(EnsureSteps)
  BY RequestsOpen DEF EnsureSteps
<1>2. CASE ViewDashboard(h)
  BY <1>1, <1>2, Zenon DEF ViewDashboard
<1>3. CASE Reassign(h)
  BY <1>3, RequestsOpen, Zenon DEF Reassign
<1>4. ASSUME NEW lo, NEW hi, GenerateDays(h, lo, hi)
      PROVE  \E job, about, todo, queue : Opening(todo) /\ Begin(h, job, about, todo, queue)
  <2>1. CASE Begin(h, "fill", None, Fill(lo, hi), <<>>)
    BY <2>1, RequestsOpen, Zenon
  <2>2. CASE \E wipe : Begin(h, "generate", None, Generate(lo, hi, wipe), <<>>)
    BY <2>2, RequestsOpen, Zenon
  <2> QED
    BY <1>4, <2>1, <2>2, Zenon DEF GenerateDays
<1>5. ASSUME NEW lo, NEW hi, SwapDays(h, lo, hi)
      PROVE  \E job, about, todo, queue : Opening(todo) /\ Begin(h, job, about, todo, queue)
  BY <1>5, RequestsOpen, Zenon DEF SwapDays
<1>6. ASSUME NEW l, NEW m, NEW lo, NEW hi,
             handleLeaveReportPost(h, l, m, lo, hi) \/ handleReportLeave(h, l, m, lo, hi)
      PROVE  \E job, about, todo, queue : Opening(todo) /\ Begin(h, job, about, todo, queue)
  BY <1>6, RequestsOpen, Zenon DEF handleLeaveReportPost, handleReportLeave
<1>7. ASSUME NEW l, NEW m, NEW lo, NEW hi, EditLeave(h, l, m, lo, hi)
      PROVE  \E job, about, todo, queue : Opening(todo) /\ Begin(h, job, about, todo, queue)
  <2>1. PICK row : Begin(h, "leave", l, <<[do |-> "edit", l |-> l, row |-> row], [do |-> "change", l |-> l]>>, <<>>)
    BY <1>7, Zenon DEF EditLeave
  <2> QED
    BY <2>1, RequestsOpen, Zenon
<1>8. ASSUME NEW l, DeleteLeave(h, l)
      PROVE  \E job, about, todo, queue : Opening(todo) /\ Begin(h, job, about, todo, queue)
  <2>1. PICK lo, hi : Begin(h, "delete", None,
                            <<[do |-> "delete", l |-> l]>> \o Reconcile(lo, hi) \o Fill(lo, hi), <<>>)
    BY <1>8, Zenon DEF DeleteLeave
  <2>2. Opening(<<[do |-> "delete", l |-> l]>> \o Reconcile(lo, hi))
    BY RequestsOpen
  <2>3. Opening(<<[do |-> "delete", l |-> l]>> \o Reconcile(lo, hi) \o Fill(lo, hi))
    BY <2>2, RequestsOpen
  <2> QED
    BY <2>1, <2>3, Zenon
<1>9. ASSUME NEW m, handleTeamPost(h, m) \/ handleAddTeam(h, m) \/ DeleteMember(h, m)
      PROVE  \E job, about, todo, queue : Opening(todo) /\ Begin(h, job, about, todo, queue)
  BY <1>1, <1>9, RequestsOpen, Zenon DEF handleTeamPost, handleAddTeam, DeleteMember
<1> QED
  BY <1>2, <1>3, <1>4, <1>5, <1>6, <1>7, <1>8, <1>9 DEF Request

LEMMA FailKeepsTypes ==
  ASSUME TodoInv, NEW h \in Handlers, Fail(h)
  PROVE  TodoInv'
<1>1. work[h].todo # <<>>
  BY DEF Fail
<1>2. CASE Now(h).do # "slot"
  <2>1. Abort(h)
    BY <1>2 DEF Fail
  <2> QED
    BY <2>1, AbortKeepsTypes
<1>3. CASE Now(h).do = "slot"
  <2> DEFINE anchor == IF Reassigning(h) THEN SlotPosition(h) ELSE work[h].anchor
             w == [work[h] EXCEPT !.todo = Tail(work[h].todo), !.anchor = anchor]
  <2>1. work' = [work EXCEPT ![h] = w]
    BY <1>3 DEF Fail
  <2> HIDE DEF anchor
  <2>2. \E a, v : /\ \/ v = [work[h] EXCEPT !.anchor = a, !.todo = Tail(work[h].todo)]
                     \/ v = [work[h] EXCEPT !.todo = Tail(work[h].todo), !.anchor = a]
                  /\ work' = [work EXCEPT ![h] = v]
    BY <2>1, Zenon
  <2>3. PICK a, v : /\ \/ v = [work[h] EXCEPT !.anchor = a, !.todo = Tail(work[h].todo)]
                       \/ v = [work[h] EXCEPT !.todo = Tail(work[h].todo), !.anchor = a]
                    /\ work' = [work EXCEPT ![h] = v]
    BY <2>2, Zenon
  <2> QED
    BY <1>1, <2>3, SlotKeepsTypes, Zenon
<1> QED
  BY <1>2, <1>3

LEMMA RestartKeepsTypes ==
  ASSUME NEW h \in Handlers, Restart(h)
  PROVE  TodoInv'
<1> DEFINE queue == Chronological
           w == [Idle EXCEPT !.job = "boot", !.queue = queue]
<1>1. work' = [g \in Handlers |-> IF g = h THEN w ELSE Idle]
  BY DEF Restart
<1> HIDE DEF queue
<1>2. IsRequest(w) /\ Typed(w)
  <2> DEFINE empty == <<>>
             none == {}
             no == FALSE
             v == [Idle EXCEPT !.job = "boot"]
  <2>1. Idle = [job |-> "none", about |-> None, todo |-> empty, queue |-> empty, team |-> none,
                anchor |-> None, failed |-> no]
    BY DEF Idle
  <2>2. IsList(empty) /\ Len(empty) = 0
    BY ShortLists
  <2>3. w = [v EXCEPT !.queue = queue]
    OBVIOUS
  <2> HIDE DEF w, empty, none, no
  <2>4. v = [job |-> "boot", about |-> None, todo |-> empty, queue |-> empty, team |-> none,
             anchor |-> None, failed |-> no]
    BY <2>1
  <2> HIDE DEF v
  <2>5. w = [job |-> "boot", about |-> None, todo |-> empty, queue |-> queue, team |-> none,
             anchor |-> None, failed |-> no]
    BY <2>3, <2>4
  <2> QED
    BY <2>2, <2>5 DEF IsRequest, Typed
<1> HIDE DEF w
<1>3. \A g \in Handlers : IsRequest(work'[g]) /\ Typed(work'[g])
  BY <1>1, <1>2, IdleIsTyped
<1>4. work' = [g \in Handlers |-> work'[g]]
  BY <1>1
<1> QED
  BY <1>3, <1>4 DEF TodoInv, WorkOK

(* The requests keep their shape whatever interleaves with them, fails or  *)
(* restarts: each statement list is one, and its loops stay in the         *)
(* calendar.  The other proofs rest on it.                                 *)
THEOREM RequestsAreTyped == Spec => []TodoInv
<1>1. Init => TodoInv
  <2> SUFFICES ASSUME Init PROVE TodoInv
    OBVIOUS
  <2>2. work = [h \in Handlers |-> Idle]
    BY DEF Init
  <2>3. \A h \in Handlers : IsRequest(work[h]) /\ Typed(work[h])
    BY <2>2, IdleIsTyped
  <2> QED
    BY <2>2, <2>3 DEF TodoInv, WorkOK
<1>2. TodoInv /\ [Next]_vars => TodoInv'
  <2> SUFFICES ASSUME TodoInv, [Next]_vars PROVE TodoInv'
    OBVIOUS
  <2>1. ASSUME NEW h \in Handlers, ViewDashboard(h) \/ Request(h)
        PROVE  TodoInv'
    <3>1. PICK job, about, todo, queue : Opening(todo) /\ Begin(h, job, about, todo, queue)
      BY <2>1, RequestsBegin
    <3> QED
      BY <3>1, BeginKeepsTypes
  <2>2. ASSUME NEW h \in Handlers, Statement(h)
        PROVE  TodoInv'
    BY <2>2, StatementKeepsTypes
  <2>3. ASSUME NEW h \in Handlers, Fail(h)
        PROVE  TodoInv'
    BY <2>3, FailKeepsTypes
  <2>4. ASSUME NEW h \in Handlers, Restart(h)
        PROVE  TodoInv'
    BY <2>4, RestartKeepsTypes
  <2>5. CASE Tick \/ UNCHANGED vars
    BY <2>5 DEF Tick, vars, TodoInv, WorkOK, Typed, IsRequest
  <2> QED
    BY <2>1, <2>2, <2>3, <2>4, <2>5 DEF Next
<1> QED
  BY <1>1, <1>2, PTL DEF Spec

-----------------------------------------------------------------------------
(* The hat goes round: every statement keeps the choices on turn. *)

LEMMA RosterIsTeam ==
  ASSUME RotaTypes, team # {}
  PROVE  IsTeam(team)
<1>1. Members \in SUBSET Nat /\ IsFiniteSet(Members)
  BY RotaAssumption, FiniteAssumption
<1> QED
  BY <1>1, FS_Subset DEF RotaTypes, IsTeam

\* What the invariant says of request h before a step.
LEMMA FairBefore ==
  ASSUME FairInv, OneHandler, Undisturbed, NEW h \in Handlers, work[h].todo # <<>>
  PROVE  /\ RotaTypes /\ OriginalsOnTurn /\ ChoicesOnTurn(h)
         /\ StepFits(work[h].team, Now(h))
         /\ r1 = None /\ Now(h).do # "advance" => \A d \in Days : orig[d] = None
<1>1. /\ TodoInv /\ RotaTypes /\ OriginalsOnTurn /\ ChoicesOnTurn(h)
  BY DEF FairInv
<1>2. Now(h) = work[h].todo[1] /\ 1 \in 1..Len(work[h].todo)
  BY <1>1, HeadIsTyped
<1>3. StepFits(work[h].team, Now(h))
  BY <1>1, <1>2 DEF ChoicesOnTurn, Fits
<1>4. ASSUME r1 = None, Now(h).do # "advance", NEW d \in Days, orig[d] # None
      PROVE  FALSE
  <2>1. IsFirst(d)
    BY <1>1, <1>4 DEF OriginalsOnTurn
  <2>2. PICK g \in Handlers : Doing(g, "advance")
    BY <2>1 DEF IsFirst
  <2>3. g = h
    BY DEF OneHandler
  <2> QED
    BY <1>4, <2>2, <2>3 DEF Doing, Now
<1> QED
  BY <1>1, <1>3, <1>4

LEMMA NobodyServed ==
  ASSUME FairInv, OneHandler, Undisturbed, NEW h \in Handlers, work[h].todo = <<>>
  PROVE  RotaTypes /\ OriginalsOnTurn /\ (r1 = None => \A d \in Days : orig[d] = None)
<1>1. RotaTypes /\ OriginalsOnTurn
  BY DEF FairInv
<1>2. ASSUME r1 = None, NEW d \in Days, orig[d] # None
      PROVE  FALSE
  <2>1. IsFirst(d)
    BY <1>1, <1>2 DEF OriginalsOnTurn
  <2>2. PICK g \in Handlers : Doing(g, "advance")
    BY <2>1 DEF IsFirst
  <2>3. g = h
    BY DEF OneHandler
  <2> QED
    BY <2>2, <2>3 DEF Doing
<1> QED
  BY <1>1, <1>2

\* The steps that have nothing to do with R1.
Aside(q) == \A i \in 1..Len(q) : q[i].do \notin {"leaves", "r1", "r2", "original", "advance"}

LEMMA AsideFits ==
  ASSUME NEW q, Aside(q), NEW ms
  PROVE  Fits(ms, q)
BY DEF Aside, Fits, StepFits, InPlace

(* What is left of a request fits still after its first statement was      *)
(* replaced.                                                               *)
LEMMA RestFits ==
  ASSUME NEW w, NEW v, NEW steps, GoesOn(w, v, steps), Fits(w.team, w.todo),
         v.team \in {w.team, team}, Fits(v.team, steps),
         Len(steps) = 0 \/ w.todo[1].do # "slot"
  PROVE  Fits(v.team, v.todo)
<1>1. ASSUME NEW i \in 1..Len(v.todo)
      PROVE  StepFits(v.team, v.todo[i]) /\ InPlace(v.todo, i)
  <2>1. Len(steps) \in Nat /\ Len(w.todo) \in Nat \ {0} /\ Len(v.todo) = Len(steps) + Len(w.todo) - 1
    BY DEF GoesOn
  <2>2. CASE i \in 1..Len(steps)
    <3>1. v.todo[i] = steps[i] /\ v.todo[1] = steps[1]
      BY <2>1, <2>2 DEF GoesOn
    <3>2. StepFits(v.team, steps[i]) /\ InPlace(steps, i)
      BY <2>2 DEF Fits
    <3> QED
      BY <3>1, <3>2 DEF InPlace
  <2>3. CASE i \notin 1..Len(steps)
    <3> DEFINE j == i - Len(steps) + 1
    <3>1. j \in 1..Len(w.todo) /\ i > Len(steps) /\ j # 1 /\ (j = 2 <=> i = Len(steps) + 1)
      BY <2>1, <2>3
    <3>2. v.todo[i] = w.todo[j]
      BY <3>1 DEF GoesOn
    <3> HIDE DEF j
    <3>3. StepFits(w.team, w.todo[j]) /\ InPlace(w.todo, j)
      BY <3>1 DEF Fits
    <3>4. StepFits(v.team, v.todo[i])
      BY <3>2, <3>3 DEF StepFits
    <3>5. InPlace(v.todo, i)
      BY <2>1, <3>1, <3>2, <3>3 DEF InPlace
    <3> QED
      BY <3>4, <3>5
  <2> QED
    BY <2>2, <2>3
<1> QED
  BY <1>1 DEF Fits

(* A statement that leaves originals, position and team alone.             *)
LEMMA FairStep ==
  ASSUME FairInv, TodoInv', OneHandler, NEW h \in Handlers, work[h].todo # <<>>,
         UNCHANGED <<team, orig, r1, changes, faults>>,
         Now(h).do = "advance" => r1 # None,
         Undisturbed => Fits(work'[h].team, work'[h].todo)
  PROVE  FairInv'
<1> SUFFICES ASSUME Undisturbed
             PROVE  RotaTypes' /\ OriginalsOnTurn' /\ \A g \in Handlers : ChoicesOnTurn(g)'
  BY DEF FairInv, Undisturbed
<1>1. RotaTypes /\ OriginalsOnTurn /\ (r1 = None => \A d \in Days : orig[d] = None)
  BY FairBefore
<1>2. RotaTypes'
  BY <1>1 DEF RotaTypes
<1>3. OriginalsOnTurn'
  BY <1>1 DEF OriginalsOnTurn, OnTurn
<1>4. ASSUME NEW g \in Handlers
      PROVE  ChoicesOnTurn(g)'
  <2>1. g = h
    BY DEF OneHandler
  <2>2. Fits(work'[g].team, work'[g].todo)
    BY <2>1
  <2> QED
    BY <2>2 DEF ChoicesOnTurn, Fits, StepFits, InPlace, OnTurn
<1> QED
  BY <1>2, <1>3, <1>4

LEMMA FairThen ==
  ASSUME FairInv, TodoInv', OneHandler, NEW h \in Handlers, work[h].todo # <<>>,
         UNCHANGED <<team, orig, r1, changes, faults>>,
         Now(h).do = "advance" => r1 # None,
         NEW steps, IsList(steps), Then(h, steps), Len(steps) = 0 \/ Now(h).do # "slot",
         Undisturbed => Fits(work[h].team, steps)
  PROVE  FairInv'
<1>1. WorkOK
  BY DEF FairInv, TodoInv
<1>2. /\ GoesOn(work[h], work'[h], steps) /\ Now(h) = work[h].todo[1]
      /\ work'[h] = [work[h] EXCEPT !.todo = work'[h].todo]
  BY <1>1, ThenRuns
<1>3. work'[h].team = work[h].team
  BY <1>1, <1>2 DEF WorkOK, IsRequest
<1>4. ASSUME Undisturbed
      PROVE  Fits(work'[h].team, work'[h].todo)
  <2>1. Fits(work[h].team, work[h].todo)
    BY <1>4, FairBefore DEF ChoicesOnTurn
  <2> QED
    BY <1>2, <1>3, <1>4, <2>1, RestFits
<1> QED
  BY <1>4, FairStep

LEMMA FairAbort ==
  ASSUME FairInv, TodoInv', OneHandler, NEW h \in Handlers, work[h].todo # <<>>,
         UNCHANGED <<team, orig, r1, changes, faults>>, Now(h).do # "advance", Abort(h)
  PROVE  FairInv'
<1>1. work'[h].todo = <<>>
  BY AbortStops DEF FairInv, TodoInv
<1>2. Len(work'[h].todo) = 0
  BY <1>1, ShortLists
<1>3. Fits(work'[h].team, work'[h].todo)
  BY <1>2 DEF Fits
<1> QED
  BY <1>3, FairStep

LEMMA AsideLists ==
  /\ IsList(<<>>) /\ Aside(<<>>) /\ Len(<<>>) = 0
  /\ \A a : a.do \notin {"leaves", "r1", "r2", "original", "advance"} => IsList(<<a>>) /\ Aside(<<a>>)
  /\ \A a, b, c : {a.do, b.do, c.do} \cap {"leaves", "r1", "r2", "original", "advance"} = {}
                    => IsList(<<a, b, c>>) /\ Aside(<<a, b, c>>)
<1>1. IsList(<<>>) /\ Aside(<<>>) /\ Len(<<>>) = 0
  BY ShortLists DEF Aside
<1>2. ASSUME NEW a, a.do \notin {"leaves", "r1", "r2", "original", "advance"}
      PROVE  IsList(<<a>>) /\ Aside(<<a>>)
  <2>1. IsList(<<a>>) /\ Len(<<a>>) = 1 /\ <<a>>[1] = a
    BY ShortLists
  <2>2. \A i \in 1..1 : i = 1
    OBVIOUS
  <2> QED
    BY <1>2, <2>1, <2>2 DEF Aside
<1>3. ASSUME NEW a, NEW b, NEW c,
             {a.do, b.do, c.do} \cap {"leaves", "r1", "r2", "original", "advance"} = {}
      PROVE  IsList(<<a, b, c>>) /\ Aside(<<a, b, c>>)
  <2>1. /\ IsList(<<a, b, c>>) /\ Len(<<a, b, c>>) = 3
        /\ <<a, b, c>>[1] = a /\ <<a, b, c>>[2] = b /\ <<a, b, c>>[3] = c
    BY ShortLists
  <2>2. \A i \in 1..3 : i = 1 \/ i = 2 \/ i = 3
    OBVIOUS
  <2> QED
    BY <1>3, <2>1, <2>2 DEF Aside
<1> QED
  BY <1>1, <1>2, <1>3

LEMMA OpeningsAside ==
  ASSUME NEW q, Opening(q)
  PROVE  IsList(q) /\ Aside(q)
BY DEF Opening, Aside

\* A statement that touches neither the originals nor the position.
StepsAside(h) ==
  /\ work[h].todo # <<>> /\ Now(h).do \notin {"slot", "advance"}
  /\ UNCHANGED <<team, orig, r1, changes, faults>>
  /\ Abort(h) \/ \E steps : IsList(steps) /\ Aside(steps) /\ Then(h, steps)

LEMMA FairAside ==
  ASSUME FairInv, TodoInv', OneHandler, NEW h \in Handlers, StepsAside(h)
  PROVE  FairInv'
<1>1. /\ work[h].todo # <<>> /\ Now(h).do \notin {"slot", "advance"}
      /\ UNCHANGED <<team, orig, r1, changes, faults>>
  BY DEF StepsAside
<1>2. CASE Abort(h)
  BY <1>1, <1>2, FairAbort
<1>3. CASE \E steps : IsList(steps) /\ Aside(steps) /\ Then(h, steps)
  <2>1. PICK steps : IsList(steps) /\ Aside(steps) /\ Then(h, steps)
    BY <1>3
  <2>2. Fits(work[h].team, steps)
    BY <2>1, AsideFits
  <2> QED
    BY <1>1, <2>1, <2>2, FairThen
<1> QED
  BY <1>2, <1>3 DEF StepsAside

LEMMA ReadsAside ==
  ASSUME NEW h \in Handlers,
         \/ BuildLeaveIndex(h) \/ GetDatesWithAssignments(h) \/ LoadLeave(h)
         \/ EnsureOriginalAssignment(h) \/ ReadOtherLeaves(h)
  PROVE  StepsAside(h)
<1> DEFINE t == Now(h)
<1>1. /\ work[h].todo # <<>> /\ t.do \notin {"slot", "advance"}
      /\ UNCHANGED <<team, orig, r1, changes, faults>>
  BY DEF BuildLeaveIndex, GetDatesWithAssignments, LoadLeave, EnsureOriginalAssignment, ReadOtherLeaves,
         Doing, Now, tables, bounds
<1> HIDE DEF t
<1>2. CASE BuildLeaveIndex(h)
  <2>1. \E a : Then(h, <<[do |-> "compare", days |-> t.days, away |-> a]>>)
    BY <1>2, Zenon DEF BuildLeaveIndex, t
  <2>2. \A a : /\ IsList(<<[do |-> "compare", days |-> t.days, away |-> a]>>)
               /\ Aside(<<[do |-> "compare", days |-> t.days, away |-> a]>>)
    BY AsideLists
  <2> QED
    BY <1>1, <2>1, <2>2, Zenon DEF StepsAside, t
<1>3. CASE GetDatesWithAssignments(h)
  <2>1. \E u, w : Then(h, <<[do |-> "members", days |-> u, wipe |-> w]>>)
    BY <1>3, Zenon DEF GetDatesWithAssignments
  <2>2. \A u, w : /\ IsList(<<[do |-> "members", days |-> u, wipe |-> w]>>)
                  /\ Aside(<<[do |-> "members", days |-> u, wipe |-> w]>>)
    BY AsideLists
  <2> QED
    BY <1>1, <2>1, <2>2, Zenon DEF StepsAside, t
<1>4. CASE LoadLeave(h)
  <2>1. Abort(h) \/ \E l, m, u : Then(h, <<[do |-> "team", l |-> l, m |-> m, days |-> u]>>)
    BY <1>4, Zenon DEF LoadLeave
  <2>2. \A l, m, u : /\ IsList(<<[do |-> "team", l |-> l, m |-> m, days |-> u]>>)
                     /\ Aside(<<[do |-> "team", l |-> l, m |-> m, days |-> u]>>)
    BY AsideLists
  <2> QED
    BY <1>1, <2>1, <2>2, Zenon DEF StepsAside, t
<1>5. CASE EnsureOriginalAssignment(h)
  <2>1. Then(h, <<>>) \/ \E d, l, id : Then(h, <<[do |-> "away", d |-> d, l |-> l, id |-> id]>>)
    <3>1. CASE Scheduled(t.d, t.m)
      BY <1>5, <3>1, Zenon DEF EnsureOriginalAssignment, t
    <3>2. CASE ~Scheduled(t.d, t.m)
      BY <1>5, <3>2, Zenon DEF EnsureOriginalAssignment, t
    <3> QED
      BY <3>1, <3>2
  <2>2. \A d, l, id : /\ IsList(<<[do |-> "away", d |-> d, l |-> l, id |-> id]>>)
                      /\ Aside(<<[do |-> "away", d |-> d, l |-> l, id |-> id]>>)
    BY AsideLists
  <2> QED
    BY <1>1, <2>1, <2>2, AsideLists, Zenon DEF StepsAside, t
<1>6. CASE ReadOtherLeaves(h)
  <2>1. \E d, l, id, a : Then(h, <<[do |-> "turn", d |-> d, l |-> l, id |-> id, away |-> a]>>)
    BY <1>6, Zenon DEF ReadOtherLeaves
  <2>2. \A d, l, id, a : /\ IsList(<<[do |-> "turn", d |-> d, l |-> l, id |-> id, away |-> a]>>)
                         /\ Aside(<<[do |-> "turn", d |-> d, l |-> l, id |-> id, away |-> a]>>)
    BY AsideLists
  <2> QED
    BY <1>1, <2>1, <2>2, Zenon DEF StepsAside, t
<1> QED
  BY <1>2, <1>3, <1>4, <1>5, <1>6

LEMMA WritesAside ==
  ASSUME NEW h \in Handlers,
         \/ DropCover(h) \/ InsertCover(h) \/ RepointCover(h) \/ UpdateLeaveStatus(h)
         \/ UpdateLeaveRecord(h) \/ DeleteLeaveRecord(h)
  PROVE  StepsAside(h)
<1>1. /\ work[h].todo # <<>> /\ Now(h).do \notin {"slot", "advance"}
      /\ UNCHANGED <<team, orig, r1, changes, faults>>
  <2> USE DEF Doing, Now, bounds
  <2>1. CASE DropCover(h)
    BY <2>1 DEF DropCover
  <2>2. CASE InsertCover(h)
    BY <2>2 DEF InsertCover
  <2>3. CASE RepointCover(h)
    BY <2>3 DEF RepointCover
  <2>4. CASE UpdateLeaveStatus(h)
    BY <2>4 DEF UpdateLeaveStatus
  <2>5. CASE UpdateLeaveRecord(h)
    BY <2>5 DEF UpdateLeaveRecord
  <2>6. CASE DeleteLeaveRecord(h)
    BY <2>6 DEF DeleteLeaveRecord
  <2> QED
    BY <2>1, <2>2, <2>3, <2>4, <2>5, <2>6
<1>2. Then(h, <<>>) \/ Abort(h)
  <2>1. CASE InsertCover(h)
    BY <2>1 DEF InsertCover
  <2>2. CASE RepointCover(h)
    BY <2>2 DEF RepointCover
  <2>3. CASE UpdateLeaveRecord(h)
    BY <2>3 DEF UpdateLeaveRecord
  <2>4. CASE DropCover(h) \/ UpdateLeaveStatus(h) \/ DeleteLeaveRecord(h)
    BY <2>4, Zenon DEF DropCover, UpdateLeaveStatus, DeleteLeaveRecord
  <2> QED
    BY <2>1, <2>2, <2>3, <2>4
<1> QED
  BY <1>1, <1>2, AsideLists, Zenon DEF StepsAside

LEMMA CoverChoicesAside ==
  ASSUME NEW h \in Handlers, PickLeaveCover(h) \/ CreateCoverAssignment(h) \/ HandleLeaveChange(h)
  PROVE  StepsAside(h)
<1> DEFINE t == Now(h)
<1>1. /\ work[h].todo # <<>> /\ t.do \notin {"slot", "advance"}
      /\ UNCHANGED <<team, orig, r1, changes, faults>>
  BY DEF PickLeaveCover, CreateCoverAssignment, HandleLeaveChange, Doing, Now, tables, bounds
<1> HIDE DEF t
<1>2. CASE PickLeaveCover(h)
  <2>1. \/ Then(h, <<>>)
        \/ \E d, id, c, l : Then(h, <<[do |-> "look", d |-> d, id |-> id, c |-> c],
                                      [do |-> "status", l |-> l],
                                      [do |-> "slot", d |-> d, c |-> c]>>)
    <3> DEFINE c == FindCover(work[h].team, t.away,
                              TurnOf(IF Reassigning(h) THEN work[h].anchor ELSE rotation, t.d, work[h].team))
    <3>1. CASE c = None
      BY <1>2, <3>1, Zenon DEF PickLeaveCover, t
    <3>2. CASE c # None
      BY <1>2, <3>2, Zenon DEF PickLeaveCover, t
    <3> QED
      BY <3>1, <3>2
  <2>2. ASSUME NEW d, NEW id, NEW c, NEW l
        PROVE  /\ IsList(<<[do |-> "look", d |-> d, id |-> id, c |-> c], [do |-> "status", l |-> l],
                           [do |-> "slot", d |-> d, c |-> c]>>)
               /\ Aside(<<[do |-> "look", d |-> d, id |-> id, c |-> c], [do |-> "status", l |-> l],
                          [do |-> "slot", d |-> d, c |-> c]>>)
    <3> DEFINE u == [do |-> "look", d |-> d, id |-> id, c |-> c]
               v == [do |-> "status", l |-> l]
               w == [do |-> "slot", d |-> d, c |-> c]
    <3>1. u.do = "look" /\ v.do = "status" /\ w.do = "slot"
      OBVIOUS
    <3> HIDE DEF u, v, w
    <3>2. {u.do, v.do, w.do} \cap {"leaves", "r1", "r2", "original", "advance"} = {}
      BY <3>1
    <3>3. IsList(<<u, v, w>>) /\ Aside(<<u, v, w>>)
      BY <3>2, AsideLists
    <3> QED
      BY <3>3 DEF u, v, w
  <2> QED
    BY <1>1, <2>1, <2>2, AsideLists, Zenon DEF StepsAside, t
<1>3. CASE CreateCoverAssignment(h)
  <2>1. \/ Then(h, <<>>)
        \/ \E d, c, id : Then(h, <<[do |-> "cover", d |-> d, c |-> c, id |-> id]>>)
        \/ \E d, c : Then(h, <<[do |-> "repoint", d |-> d, c |-> c]>>)
    <3>1. CASE cover[t.d] = None
      BY <1>3, <3>1, Zenon DEF CreateCoverAssignment, t
    <3>2. CASE cover[t.d] # None /\ (cover[t.d].swapped \/ cover[t.d].member = t.c)
      BY <1>3, <3>2, Zenon DEF CreateCoverAssignment, t
    <3>3. CASE cover[t.d] # None /\ ~(cover[t.d].swapped \/ cover[t.d].member = t.c)
      BY <1>3, <3>3, Zenon DEF CreateCoverAssignment, t
    <3> QED
      BY <3>1, <3>2, <3>3
  <2>2. \A d, c, id : /\ IsList(<<[do |-> "cover", d |-> d, c |-> c, id |-> id]>>)
                      /\ Aside(<<[do |-> "cover", d |-> d, c |-> c, id |-> id]>>)
    BY AsideLists
  <2>3. \A d, c : /\ IsList(<<[do |-> "repoint", d |-> d, c |-> c]>>)
                  /\ Aside(<<[do |-> "repoint", d |-> d, c |-> c]>>)
    BY AsideLists
  <2> QED
    BY <1>1, <2>1, <2>2, <2>3, AsideLists, Zenon DEF StepsAside, t
<1>4. CASE HandleLeaveChange(h)
  <2>1. Abort(h) \/ \E l, lo, hi : Then(h, Reconcile(lo, hi) \o <<[do |-> "leave", l |-> l]>>)
    BY <1>4, Zenon DEF HandleLeaveChange
  <2>2. ASSUME NEW l, NEW lo, NEW hi
        PROVE  /\ IsList(Reconcile(lo, hi) \o <<[do |-> "leave", l |-> l]>>)
               /\ Aside(Reconcile(lo, hi) \o <<[do |-> "leave", l |-> l]>>)
    <3>1. Opening(Reconcile(lo, hi) \o <<[do |-> "leave", l |-> l]>>)
      BY RequestsOpen
    <3> QED
      BY <3>1, OpeningsAside
  <2> QED
    BY <1>1, <2>1, <2>2, Zenon DEF StepsAside, t
<1> QED
  BY <1>2, <1>3, <1>4

LEMMA LoopsAside ==
  ASSUME TodoInv, NEW h \in Handlers, FindStale(h)
  PROVE  StepsAside(h)
<1>1. /\ work[h].todo # <<>> /\ Now(h).do \notin {"slot", "advance"}
      /\ UNCHANGED <<team, orig, r1, changes, faults>>
  BY DEF FindStale, Doing, Now, tables, bounds
<1>2. PICK q : Then(h, q) /\ RunsOver(q, StaleDays(h), Drops(StaleDays(h)))
  BY FindStaleRuns
<1>3. \A d \in StaleDays(h) : Drops(StaleDays(h))[d].do = "drop"
  BY DEF Drops
<1>4. IsList(q) /\ Aside(q)
  BY <1>2, <1>3 DEF RunsOver, Aside
<1> QED
  BY <1>1, <1>2, <1>4 DEF StepsAside

LEMMA FairLoadTeam ==
  ASSUME FairInv, TodoInv', OneHandler, NEW h \in Handlers, LoadTeam(h)
  PROVE  FairInv'
<1>0. TodoInv
  BY DEF FairInv
<1>1. /\ work[h].todo # <<>> /\ Now(h).do \notin {"slot", "advance"}
      /\ UNCHANGED <<team, orig, r1, changes, faults>>
  BY DEF LoadTeam, Doing, Now, tables, bounds
<1> DEFINE D == Now(h).days
           step == Duties(D, Now(h).l, Now(h).m)
<1>2. PICK q : /\ RunsOver(q, D, step) /\ GoesOn(work[h], work'[h], q) /\ Now(h) = work[h].todo[1]
               /\ work'[h] = [work[h] EXCEPT !.team = team, !.todo = work'[h].todo]
  BY <1>0, LoadTeamRuns
<1>3. work'[h].team = team
  <2>1. IsRequest(work[h])
    BY <1>0 DEF TodoInv, WorkOK
  <2> QED
    BY <1>2, <2>1 DEF IsRequest
<1>4. \A d \in D : step[d].do = "duty"
  BY DEF Duties
<1> HIDE DEF D, step
<1>5. Aside(q)
  BY <1>2, <1>4 DEF RunsOver, Aside
<1>6. ASSUME Undisturbed
      PROVE  Fits(work'[h].team, work'[h].todo)
  <2>1. Fits(work[h].team, work[h].todo)
    BY <1>1, <1>6, FairBefore DEF ChoicesOnTurn
  <2>2. Fits(work'[h].team, q)
    BY <1>5, AsideFits
  <2> QED
    BY <1>1, <1>2, <1>3, <2>1, <2>2, RestFits
<1> QED
  BY <1>1, <1>6, FairStep

(* Lists of one or two steps.                                              *)
LEMMA OneFits ==
  ASSUME NEW ms, NEW a, StepFits(ms, a)
  PROVE  IsList(<<a>>) /\ Fits(ms, <<a>>)
<1>1. IsList(<<a>>) /\ Len(<<a>>) = 1 /\ <<a>>[1] = a
  BY ShortLists
<1>2. \A i \in 1..1 : i = 1
  OBVIOUS
<1> QED
  BY <1>1, <1>2 DEF Fits, InPlace

LEMMA SlotFits ==
  ASSUME NEW ms, NEW a, NEW b, StepFits(ms, a), StepFits(ms, b), a.do = "slot", b.do = "original"
  PROVE  IsList(<<a, b>>) /\ Fits(ms, <<a, b>>)
<1>1. IsList(<<a, b>>) /\ Len(<<a, b>>) = 2 /\ <<a, b>>[1] = a /\ <<a, b>>[2] = b
  BY ShortLists
<1>2. \A i \in 1..2 : i = 1 \/ i = 2
  OBVIOUS
<1> DEFINE q == <<a, b>>
<1> HIDE DEF q
<1>3. \A i \in 1..2 : StepFits(ms, q[i]) /\ InPlace(q, i)
  BY <1>1, <1>2 DEF InPlace, q
<1> QED
  BY <1>1, <1>3 DEF Fits, q

LEMMA StepsThatFit ==
  ASSUME NEW d \in Days, team # {}
  PROVE  /\ \A a : StepFits(team, [do |-> "r1", d |-> d, away |-> a])
         /\ \A a, m : OnTurn(d, m) => StepFits(team, [do |-> "r2", d |-> d, away |-> a, m |-> m])
         /\ \A m, c : OnTurn(d, m) => StepFits(team, [do |-> "original", d |-> d, m |-> m, c |-> c])
         /\ \A m \in team : StepFits(team, [do |-> "advance", d |-> d, m |-> m])
         /\ \A c : StepFits(team, [do |-> "slot", d |-> d, c |-> c])
         /\ \A c, id : StepFits(team, [do |-> "cover", d |-> d, c |-> c, id |-> id])
         /\ StepFits(team, [do |-> "leaves", d |-> d])
BY DEF StepFits

LEMMA FairReadLeaves ==
  ASSUME FairInv, TodoInv', OneHandler, NEW h \in Handlers, ReadLeaves(h)
  PROVE  FairInv'
<1> DEFINE t == Now(h)
<1>1. /\ work[h].todo # <<>> /\ t.do = "leaves"
      /\ UNCHANGED <<team, orig, r1, changes, faults>>
  BY DEF ReadLeaves, Doing, Now, tables, bounds
<1> HIDE DEF t
<1>2. PICK a : Then(h, <<[do |-> "r1", d |-> t.d, away |-> a]>>)
  BY Zenon DEF ReadLeaves, t
<1> DEFINE s == [do |-> "r1", d |-> t.d, away |-> a]
<1>3. Then(h, <<s>>)
  BY <1>2
<1>4. ASSUME Undisturbed
      PROVE  StepFits(work[h].team, s)
  <2>1. t.d \in Days /\ work[h].team = team /\ team # {}
    BY <1>1, <1>4, FairBefore DEF StepFits, t
  <2> QED
    BY <2>1, StepsThatFit
<1> HIDE DEF s
<1>5. IsList(<<s>>) /\ (Undisturbed => Fits(work[h].team, <<s>>))
  BY <1>4, OneFits, ShortLists
<1> QED
  BY <1>1, <1>3, <1>5, FairThen DEF t

(* R1 chooses the member whose slot it is.                                 *)
LEMMA FairPickOriginal ==
  ASSUME FairInv, TodoInv', OneHandler, NEW h \in Handlers, PickOriginal(h)
  PROVE  FairInv'
<1> DEFINE t == Now(h)
           m == At(work[h].team, TurnOf(r1, t.d, work[h].team))
<1>1. /\ work[h].todo # <<>> /\ t.do = "r1"
      /\ UNCHANGED <<team, orig, r1, changes, faults>>
  BY DEF PickOriginal, Doing, Now, tables, bounds
<1> HIDE DEF t
<1>2. \/ Then(h, <<[do |-> "r2", d |-> t.d, away |-> t.away, m |-> m]>>)
      \/ Then(h, <<[do |-> "original", d |-> t.d, m |-> m, c |-> m]>>)
  <2>1. CASE m \in t.away
    BY <2>1, Zenon DEF PickOriginal, t
  <2>2. CASE m \notin t.away
    BY <2>2, Zenon DEF PickOriginal, t
  <2> QED
    BY <2>1, <2>2
<1>3. ASSUME Undisturbed
      PROVE  t.d \in Days /\ work[h].team = team /\ team # {} /\ OnTurn(t.d, m)
  <2>1. t.d \in Days /\ work[h].team = team /\ team # {} /\ RotaTypes
    BY <1>1, <1>3, FairBefore DEF StepFits, t
  <2>2. IsTeam(team)
    BY <2>1, RosterIsTeam
  <2>3. TurnOf(r1, t.d, team) \in 0..Cardinality(team)-1
    BY <2>1, <2>2, TurnsAreSlots DEF RotaTypes
  <2>4. m \in team /\ SlotOf(team, m) = TurnOf(r1, t.d, team)
    BY <2>1, <2>2, <2>3, SlotsNameMembers DEF IsTeam
  <2> QED
    BY <2>1, <2>4 DEF OnTurn
<1> HIDE DEF m
<1>4. PICK s : /\ Then(h, <<s>>)
               /\ \/ s = [do |-> "r2", d |-> t.d, away |-> t.away, m |-> m]
                  \/ s = [do |-> "original", d |-> t.d, m |-> m, c |-> m]
  BY <1>2, Zenon
<1>5. Undisturbed => StepFits(work[h].team, s)
  BY <1>3, <1>4, StepsThatFit
<1>6. IsList(<<s>>) /\ (Undisturbed => Fits(work[h].team, <<s>>))
  BY <1>5, OneFits, ShortLists
<1>7. Now(h).do # "advance" /\ Now(h).do # "slot"
  BY <1>1 DEF t
<1>8. Then(h, <<s>>)
  BY <1>4
<1> QED
  BY ONLY <1>1, <1>6, <1>7, <1>8, FairThen, FairInv, TodoInv', OneHandler, h \in Handlers

(* R2 chooses the cover; the original stays who R1 chose.                  *)
LEMMA FairDetermineCover ==
  ASSUME FairInv, TodoInv', OneHandler, NEW h \in Handlers, DetermineCoveringMember(h)
  PROVE  FairInv'
<1> DEFINE t == Now(h)
           c == FindCover(work[h].team, t.away, TurnOf(rotation, t.d, work[h].team))
<1>1. /\ work[h].todo # <<>> /\ t.do = "r2"
      /\ UNCHANGED <<team, orig, r1, changes, faults>>
  BY DEF DetermineCoveringMember, Doing, Now, tables, bounds
<1> HIDE DEF t
<1>2. \/ Then(h, <<[do |-> "original", d |-> t.d, m |-> t.m, c |-> t.m]>>)
      \/ Then(h, <<[do |-> "slot", d |-> t.d, c |-> c],
                   [do |-> "original", d |-> t.d, m |-> t.m, c |-> c]>>)
  <2>1. CASE c = None
    BY <2>1, Zenon DEF DetermineCoveringMember, t
  <2>2. CASE c # None
    BY <2>2, Zenon DEF DetermineCoveringMember, t
  <2> QED
    BY <2>1, <2>2
<1> HIDE DEF c
<1>3. ASSUME Undisturbed
      PROVE  t.d \in Days /\ work[h].team = team /\ team # {} /\ OnTurn(t.d, t.m)
  BY <1>1, <1>3, FairBefore DEF StepFits, t
<1>4. Now(h).do # "advance" /\ Now(h).do # "slot"
  BY <1>1 DEF t
<1>5. ASSUME NEW steps, Then(h, steps), IsList(steps), Undisturbed => Fits(work[h].team, steps)
      PROVE  FairInv'
  BY <1>1, <1>4, <1>5, FairThen
<1>6. CASE Then(h, <<[do |-> "original", d |-> t.d, m |-> t.m, c |-> t.m]>>)
  <2> DEFINE s == [do |-> "original", d |-> t.d, m |-> t.m, c |-> t.m]
  <2>1. Then(h, <<s>>)
    BY <1>6
  <2>2. Undisturbed => StepFits(work[h].team, s)
    BY <1>3, StepsThatFit
  <2> HIDE DEF s
  <2>3. IsList(<<s>>) /\ (Undisturbed => Fits(work[h].team, <<s>>))
    BY <2>2, OneFits, ShortLists
  <2> QED
    BY <1>5, <2>1, <2>3
<1>7. CASE Then(h, <<[do |-> "slot", d |-> t.d, c |-> c],
                     [do |-> "original", d |-> t.d, m |-> t.m, c |-> c]>>)
  <2> DEFINE a == [do |-> "slot", d |-> t.d, c |-> c]
             b == [do |-> "original", d |-> t.d, m |-> t.m, c |-> c]
  <2>1. Then(h, <<a, b>>) /\ a.do = "slot" /\ b.do = "original"
    BY <1>7
  <2>2. Undisturbed => StepFits(work[h].team, a) /\ StepFits(work[h].team, b)
    BY <1>3, StepsThatFit
  <2> HIDE DEF a, b
  <2>3. IsList(<<a, b>>) /\ (Undisturbed => Fits(work[h].team, <<a, b>>))
    BY <2>1, <2>2, SlotFits, ShortLists
  <2> QED
    BY <1>5, <2>1, <2>3
<1> QED
  BY <1>2, <1>6, <1>7

LEMMA FairCommitCoverSlot ==
  ASSUME FairInv, TodoInv', OneHandler, NEW h \in Handlers, CommitCoverSlot(h)
  PROVE  FairInv'
<1>0. WorkOK
  BY DEF FairInv, TodoInv
<1>1. /\ work[h].todo # <<>> /\ Now(h).do # "advance"
      /\ UNCHANGED <<team, orig, r1, changes, faults>>
  BY DEF CommitCoverSlot, Doing, Now, bounds
<1> DEFINE none == <<>>
<1>2. IsList(none) /\ Len(none) = 0
  BY ShortLists
<1>3. CASE Then(h, none)
  <2> HIDE DEF none
  <2>1. Fits(work[h].team, none)
    BY <1>2 DEF Fits
  <2> QED
    BY <1>1, <1>2, <1>3, <2>1, FairThen
<1>4. CASE ~Then(h, none)
  <2>1. PICK w, anchor :
          /\ \/ w = [work[h] EXCEPT !.anchor = anchor, !.todo = Tail(work[h].todo)]
             \/ w = [work[h] EXCEPT !.todo = Tail(work[h].todo), !.anchor = anchor]
          /\ work' = [work EXCEPT ![h] = w]
    BY <1>0, <1>4, SlotRuns, Zenon
  <2>2. GoesOn(work[h], work'[h], none) /\ work'[h].team = work[h].team
    BY <1>0, <1>1, <2>1, SlotRemembered, Zenon
  <2> HIDE DEF none
  <2>3. ASSUME Undisturbed
        PROVE  Fits(work'[h].team, work'[h].todo)
    <3>1. Fits(work[h].team, work[h].todo)
      BY ONLY <1>1, <2>3, FairBefore, FairInv, OneHandler, h \in Handlers DEF ChoicesOnTurn
    <3>2. Fits(work'[h].team, none)
      BY ONLY <1>2 DEF Fits
    <3> QED
      BY ONLY <1>2, <2>2, <3>1, <3>2, RestFits
  <2> QED
    BY ONLY <1>1, <2>3, FairStep, FairInv, TodoInv', OneHandler, h \in Handlers
<1> QED
  BY <1>3, <1>4

(* The first position is that of the first original; the others only add   *)
(* rows that are never read.                                               *)
LEMMA FairAdvanceR1 ==
  ASSUME FairInv, TodoInv', OneHandler, NEW h \in Handlers, AdvanceR1(h)
  PROVE  FairInv'
<1> DEFINE t == Now(h)
           none == <<>>
<1>1. /\ work[h].todo # <<>> /\ t.do = "advance"
      /\ UNCHANGED <<team, orig, changes, faults>> /\ Then(h, none)
      /\ r1' = IF r1 = None THEN [last |-> t.d, slot |-> SlotOf(work[h].team, t.m)] ELSE r1
  BY DEF AdvanceR1, Doing, Now, bounds
<1>2. IsList(none) /\ Len(none) = 0
  BY ShortLists
<1> HIDE DEF t, none
<1>3. CASE r1 # None
  <2>1. UNCHANGED <<team, orig, r1, changes, faults>>
    BY <1>1, <1>3
  <2>2. Fits(work[h].team, none)
    BY <1>2 DEF Fits
  <2> QED
    BY <1>1, <1>2, <1>3, <2>1, <2>2, FairThen
<1>4. CASE r1 = None
  <2> SUFFICES ASSUME Undisturbed
               PROVE  RotaTypes' /\ OriginalsOnTurn' /\ \A g \in Handlers : ChoicesOnTurn(g)'
    BY <1>1 DEF FairInv, Undisturbed
  <2>0. WorkOK
    BY DEF FairInv, TodoInv
  <2>1. /\ RotaTypes /\ OriginalsOnTurn /\ ChoicesOnTurn(h)
        /\ t.d \in Days /\ work[h].team = team /\ team # {} /\ t.m \in team
    BY <1>1, FairBefore DEF StepFits, t
  <2>2. IsTeam(team) /\ team \in SUBSET Nat /\ IsFiniteSet(team)
    BY <2>1, RosterIsTeam DEF IsTeam
  <2> DEFINE pos == [last |-> t.d, slot |-> SlotOf(team, t.m)]
  <2>3. r1' = pos
    BY <1>1, <1>4, <2>1
  <2>4. SlotOf(team, t.m) \in 0..Cardinality(team)-1 /\ Cardinality(team) \in Nat
    BY <2>1, <2>2, SlotsNameMembers
  <2>5. SlotOf(team, t.m) \in Nat
    BY <2>4
  <2>6. pos \in Position /\ pos.last = t.d /\ pos.slot = SlotOf(team, t.m)
    BY <2>1, <2>5 DEF Position
  <2> HIDE DEF pos
  <2>7. Turn(pos, t.d, team) = SlotOf(team, t.m)
    BY <2>2, <2>4, <2>6, TurnOfTheStoredDay
  <2>8. pos # None
    BY <2>6, NoneAssumption DEF Position, Days
  <2>9. RotaTypes'
    BY <1>1, <2>1, <2>3, <2>6 DEF RotaTypes
  <2>10. ASSUME NEW d \in Days, orig[d] # None
         PROVE  d = t.d /\ orig[d].member = t.m
    <3>1. IsFirst(d)
      BY <1>4, <2>1, <2>10 DEF OriginalsOnTurn
    <3>2. PICK g \in Handlers : Now(g).d = d /\ Now(g).m = orig[d].member
      BY <3>1 DEF IsFirst
    <3>3. g = h
      BY DEF OneHandler
    <3> QED
      BY <3>2, <3>3 DEF t
  <2>11. OriginalsOnTurn'
    <3>1. ASSUME NEW d \in Days, orig'[d] # None
          PROVE  OnTurn(d, orig[d].member)'
      <4>1. d = t.d /\ orig'[d].member = t.m
        BY <1>1, <2>10, <3>1
      <4>2. t.m \in team' /\ SlotOf(team', t.m) = TurnOf(r1', d, team')
        BY <1>1, <2>1, <2>3, <2>7, <2>8, <4>1 DEF TurnOf
      <4> QED
        BY <4>1, <4>2 DEF OnTurn
    <3> QED
      BY <2>3, <2>8, <3>1 DEF OriginalsOnTurn
  <2>12. GoesOn(work[h], work'[h], none) /\ work'[h] = [work[h] EXCEPT !.todo = work'[h].todo]
    BY <1>1, <1>2, <2>0, ThenRuns
  <2>13. work'[h].team = team
    BY <2>0, <2>1, <2>12 DEF WorkOK, IsRequest
  <2>14. ASSUME NEW i \in 1..Len(work'[h].todo)
         PROVE  (StepFits(work[h].team, work[h].todo[i]) /\ InPlace(work[h].todo, i))'
    <3> DEFINE q == work[h].todo
               v == work'[h].todo
    <3>1. i + 1 \in 1..Len(q) /\ v[i] = q[i + 1] /\ 1 \in 1..Len(q) /\ Len(v) = Len(q) - 1
      BY <1>2, <2>12 DEF GoesOn
    <3>2. StepFits(team, q[i + 1]) /\ InPlace(q, i + 1)
      BY <2>1, <3>1 DEF ChoicesOnTurn, Fits
    <3>3. q[1].do = "advance"
      BY <1>1, HeadIsTyped DEF t, FairInv
    <3>4. v[i].do \notin {"r2", "original", "advance"}
      BY <3>1, <3>2, <3>3 DEF InPlace
    <3>5. v[i].do \in {"leaves", "r1"} => v[i].d \in Days
      BY <3>1, <3>2 DEF StepFits
    <3> HIDE DEF v
    <3>6. StepFits(work[h].team, work[h].todo[i])'
      BY <1>1, <2>1, <2>13, <3>4, <3>5 DEF StepFits, v
    <3>7. InPlace(work[h].todo, i)'
      BY <3>4 DEF InPlace, v
    <3> QED
      BY <3>6, <3>7
  <2>15. ASSUME NEW g \in Handlers
         PROVE  ChoicesOnTurn(g)'
    <3>1. g = h
      BY DEF OneHandler
    <3> QED
      BY <2>14, <3>1 DEF ChoicesOnTurn, Fits
  <2> QED
    BY <2>9, <2>11, <2>15
<1> QED
  BY <1>3, <1>4

(* The wipe of a regeneration only takes originals away.                   *)
LEMMA FairWipe ==
  ASSUME FairInv, TodoInv', OneHandler, NEW h \in Handlers, DeleteAssignmentsInRange(h)
  PROVE  FairInv'
<1> DEFINE none == <<>>
<1>0. WorkOK
  BY DEF FairInv, TodoInv
<1>1. /\ work[h].todo # <<>> /\ Now(h).do = "wipe"
      /\ UNCHANGED <<team, r1, changes, faults>> /\ Then(h, none)
      /\ orig' = [d \in Days |-> IF d \in Now(h).days THEN None ELSE orig[d]]
  BY DEF DeleteAssignmentsInRange, Doing, Now, bounds
<1>2. IsList(none) /\ Len(none) = 0
  BY ShortLists
<1> HIDE DEF none
<1> SUFFICES ASSUME Undisturbed
             PROVE  RotaTypes' /\ OriginalsOnTurn' /\ \A g \in Handlers : ChoicesOnTurn(g)'
  BY <1>1 DEF FairInv, Undisturbed
<1>3. /\ RotaTypes /\ OriginalsOnTurn /\ ChoicesOnTurn(h)
      /\ (r1 = None => \A d \in Days : orig[d] = None)
  BY <1>1, FairBefore
<1>4. /\ \A d \in Days : orig'[d] # None => orig'[d] = orig[d]
      /\ orig' = [d \in Days |-> orig'[d]]
  BY <1>1
<1>5. RotaTypes'
  BY <1>1, <1>3, <1>4 DEF RotaTypes
<1>6. OriginalsOnTurn'
  BY <1>1, <1>3, <1>4 DEF OriginalsOnTurn, OnTurn
<1>7. GoesOn(work[h], work'[h], none) /\ work'[h] = [work[h] EXCEPT !.todo = work'[h].todo]
  BY <1>0, <1>1, <1>2, ThenRuns
<1>8. work'[h].team = work[h].team
  BY <1>0, <1>7 DEF WorkOK, IsRequest
<1>9. Fits(work'[h].team, work'[h].todo)
  <2>1. Fits(work'[h].team, none)
    BY <1>2 DEF Fits
  <2> QED
    BY <1>2, <1>3, <1>7, <1>8, <2>1, RestFits DEF ChoicesOnTurn
<1>10. ASSUME NEW g \in Handlers
       PROVE  ChoicesOnTurn(g)'
  <2>1. g = h
    BY DEF OneHandler
  <2> QED
    BY <1>1, <1>9, <2>1 DEF ChoicesOnTurn, Fits, StepFits, InPlace, OnTurn
<1> QED
  BY <1>5, <1>6, <1>10

(* The choice is written: by the position that made it, or as the first of *)
(* all, which the next statement makes the position.                       *)
LEMMA FairInsertOriginal ==
  ASSUME FairInv, TodoInv', OneHandler, NEW h \in Handlers, InsertOriginal(h)
  PROVE  FairInv'
<1> DEFINE t == Now(h)
           a == [do |-> "advance", d |-> t.d, m |-> t.m]
<1>0. WorkOK
  BY DEF FairInv, TodoInv
<1>1. /\ work[h].todo # <<>> /\ t.do = "original"
      /\ UNCHANGED <<team, r1, changes, faults>>
  BY DEF InsertOriginal, Doing, Now, bounds
<1> HIDE DEF t
<1>2. CASE Abort(h) /\ orig' = orig
  <2>1. Now(h).do # "advance" /\ UNCHANGED <<team, orig, r1, changes, faults>>
    BY <1>1, <1>2 DEF t
  <2> QED
    BY <1>1, <1>2, <2>1, FairAbort
<1>3. CASE ~(Abort(h) /\ orig' = orig)
  <2>1. orig[t.d] = None /\ t.m \in team
    BY <1>3 DEF InsertOriginal, t
  <2>2. PICK id : /\ orig' = [orig EXCEPT ![t.d] = [member |-> t.m, swapped |-> FALSE, id |-> id]]
                  /\ \/ Then(h, <<a>>)
                     \/ Then(h, <<a>> \o <<[do |-> "cover", d |-> t.d, c |-> t.c, id |-> id]>>)
    <3> DEFINE id == NewId(t.d)
    <3>1. orig' = [orig EXCEPT ![t.d] = [member |-> t.m, swapped |-> FALSE, id |-> id]]
      BY <2>1 DEF InsertOriginal, t
    <3>2. CASE t.c = t.m
      <4>1. Then(h, <<a>>)
        BY <2>1, <3>2, Zenon DEF InsertOriginal, t
      <4> QED
        BY <3>1, <4>1, Zenon
    <3>3. CASE t.c # t.m
      <4>1. Then(h, <<a>> \o <<[do |-> "cover", d |-> t.d, c |-> t.c, id |-> id]>>)
        BY <2>1, <3>3, Zenon DEF InsertOriginal, t
      <4> QED
        BY <3>1, <4>1, Zenon
    <3> QED
      BY <3>2, <3>3
  <2> DEFINE b == [do |-> "cover", d |-> t.d, c |-> t.c, id |-> id]
  <2>3. a.do = "advance" /\ a.d = t.d /\ a.m = t.m /\ b.do = "cover"
    OBVIOUS
  <2>4. \/ Then(h, <<a>>) \/ Then(h, <<a>> \o <<b>>)
    BY <2>2
  <2> SUFFICES ASSUME Undisturbed
               PROVE  RotaTypes' /\ OriginalsOnTurn' /\ \A g \in Handlers : ChoicesOnTurn(g)'
    BY <1>1 DEF FairInv, Undisturbed
  <2>5. /\ RotaTypes /\ OriginalsOnTurn /\ ChoicesOnTurn(h)
        /\ (r1 = None => \A d \in Days : orig[d] = None)
        /\ t.d \in Days /\ work[h].team = team /\ team # {} /\ OnTurn(t.d, t.m)
    BY <1>1, FairBefore DEF StepFits, t
  <2>6. StepFits(team, a) /\ StepFits(team, b)
    BY <2>1, <2>5, StepsThatFit
  <2> HIDE DEF a, b
  <2>7. PICK steps : /\ Then(h, steps) /\ IsList(steps) /\ Fits(team, steps)
                     /\ Len(steps) \in Nat \ {0} /\ steps[1] = a
    <3>1. CASE Then(h, <<a>>)
      <4>1. IsList(<<a>>) /\ Fits(team, <<a>>) /\ Len(<<a>>) = 1 /\ <<a>>[1] = a
        BY <2>6, OneFits, ShortLists
      <4> QED
        BY <3>1, <4>1
    <3>2. CASE Then(h, <<a>> \o <<b>>)
      <4> DEFINE s == <<a>>
                 r == <<b>>
      <4>1. /\ IsList(s) /\ Len(s) = 1 /\ s[1] = a
            /\ IsList(r) /\ Len(r) = 1 /\ r[1] = b
        BY ShortLists
      <4>2. Then(h, s \o r)
        BY <3>2
      <4> HIDE DEF s, r
      <4>3. /\ IsList(s \o r) /\ Len(s \o r) = 2
            /\ (s \o r)[1] = a /\ (s \o r)[2] = b
        <5>1. /\ IsList(s \o r) /\ Len(s \o r) = Len(s) + Len(r)
              /\ \A i \in 1..Len(s) : (s \o r)[i] = s[i]
              /\ \A i \in 1..Len(r) : (s \o r)[Len(s) + i] = r[i]
          <6>1. IsList(s) /\ IsList(r)
            BY <4>1
          <6> QED
            BY ONLY <6>1, ListsJoin
        <5>2. 1 \in 1..1 /\ 1 + 1 = 2
          OBVIOUS
        <5> QED
          BY <4>1, <5>1, <5>2
      <4> DEFINE q == s \o r
      <4> HIDE DEF q
      <4>4. IsList(q) /\ Len(q) = 2 /\ q[1] = a /\ q[2] = b /\ Then(h, q)
        BY <4>2, <4>3 DEF q
      <4>5. \A i \in 1..2 : i = 1 \/ i = 2
        OBVIOUS
      <4>6. Fits(team, q)
        BY <2>3, <2>6, <4>4, <4>5 DEF Fits, InPlace
      <4> QED
        BY <4>4, <4>6
    <3> QED
      BY <2>4, <3>1, <3>2
  <2>8. /\ GoesOn(work[h], work'[h], steps) /\ Now(h) = work[h].todo[1]
        /\ work'[h] = [work[h] EXCEPT !.todo = work'[h].todo] /\ WorkOK'
    BY <1>0, <1>1, <2>7, ThenRuns
  <2>9. work'[h].team = team
    BY <1>0, <2>5, <2>8 DEF WorkOK, IsRequest
  <2>10. Fits(work'[h].team, work'[h].todo)
    BY <1>1, <2>5, <2>7, <2>8, <2>9, RestFits DEF ChoicesOnTurn, t
  <2>11. ASSUME NEW g \in Handlers
         PROVE  ChoicesOnTurn(g)'
    <3>1. g = h
      BY DEF OneHandler
    <3> QED
      BY <1>1, <2>10, <3>1 DEF ChoicesOnTurn, Fits, StepFits, InPlace, OnTurn
  <2>12. /\ orig' = [d \in Days |-> orig'[d]]
         /\ orig'[t.d] = [member |-> t.m, swapped |-> FALSE, id |-> id]
         /\ orig'[t.d].member = t.m
         /\ \A d \in Days : d # t.d => orig'[d] = orig[d]
    BY <2>2, <2>5 DEF RotaTypes
  <2>13. RotaTypes'
    BY <1>1, <2>5, <2>12 DEF RotaTypes
  <2>14. work'[h].todo # <<>> /\ Head(work'[h].todo) = a
    <3>1. /\ Len(work'[h].todo) \in Nat \ {0} /\ work'[h].todo[1] = a
      BY <2>7, <2>8 DEF GoesOn
    <3>2. IsList(work'[h].todo)
      BY <2>8 DEF WorkOK, IsRequest
    <3> QED
      BY <3>1, <3>2, ListLength
  <2>15. OriginalsOnTurn'
    <3>1. ASSUME NEW d \in Days, orig'[d] # None, r1' = None
          PROVE  IsFirst(d)'
      <4>1. d = t.d /\ orig'[d].member = t.m
        BY <1>1, <2>5, <2>12, <3>1
      <4> QED
        BY <2>3, <2>14, <4>1 DEF IsFirst, Doing, Now
    <3>2. ASSUME NEW d \in Days, orig'[d] # None, r1' # None, ~orig'[d].swapped
          PROVE  OnTurn(d, orig[d].member)'
      <4>1. CASE d = t.d
        BY <1>1, <2>5, <2>12, <4>1 DEF OnTurn
      <4>2. CASE d # t.d
        BY <1>1, <2>5, <2>12, <3>2, <4>2 DEF OnTurn, OriginalsOnTurn
      <4> QED
        BY <4>1, <4>2
    <3> QED
      BY <3>1, <3>2 DEF OriginalsOnTurn
  <2> QED
    BY <2>11, <2>13, <2>15
<1> QED
  BY <1>2, <1>3

LEMMA FairGetMembers ==
  ASSUME FairInv, TodoInv', OneHandler, NEW h \in Handlers, GetMembers(h)
  PROVE  FairInv'
<1>0. TodoInv
  BY DEF FairInv
<1>1. /\ work[h].todo # <<>> /\ Now(h).do = "members"
      /\ UNCHANGED <<team, orig, r1, changes, faults>>
  BY DEF GetMembers, Doing, Now, tables, bounds
<1>2. CASE team = {}
  <2>1. Abort(h)
    BY <1>2 DEF GetMembers
  <2> QED
    BY <1>1, <2>1, FairAbort
<1>3. CASE team # {}
  <2> DEFINE all == Now(h).days
             D == all \cap Working
             step == Dates(D)
  <2>1. D \in SUBSET Days
    BY <1>3, GetMembersRuns, <1>0
  <2>2. PICK q, wipe :
          /\ RunsOver(q, D, step)
          /\ wipe = IF Now(h).wipe THEN <<[do |-> "wipe", days |-> all]>> ELSE <<>>
          /\ IsList(wipe) /\ GoesOn(work[h], work'[h], wipe \o q) /\ Now(h) = work[h].todo[1]
          /\ work'[h] = [work[h] EXCEPT !.team = team, !.todo = work'[h].todo]
    BY <1>0, <1>3, GetMembersRuns
  <2>3. work'[h].team = team
    <3>1. IsRequest(work[h])
      BY <1>0 DEF TodoInv, WorkOK
    <3> QED
      BY <2>2, <3>1 DEF IsRequest
  <2>4. \A d \in D : step[d].do = "leaves" /\ step[d].d = d
    BY DEF Dates
  <2> HIDE DEF all, D, step
  <2>5. \A d \in D : StepFits(team, step[d]) /\ step[d].do = "leaves"
    <3> SUFFICES ASSUME NEW d \in D
                 PROVE  StepFits(team, step[d]) /\ step[d].do = "leaves"
      OBVIOUS
    <3>1. d \in Days /\ step[d].do = "leaves" /\ step[d].d = d
      BY <2>1, <2>4
    <3> QED
      BY <1>3, <3>1 DEF StepFits
  <2>6. IsList(q) /\ \A i \in 1..Len(q) : StepFits(team, q[i]) /\ q[i].do = "leaves"
    BY <2>2, <2>5 DEF RunsOver
  <2>7. Aside(wipe)
    <3>1. CASE Now(h).wipe
      <4>1. wipe = <<[do |-> "wipe", days |-> all]>>
        BY <2>2, <3>1
      <4> QED
        BY <4>1, AsideLists
    <3>2. CASE ~Now(h).wipe
      BY <2>2, <3>2, AsideLists
    <3> QED
      BY <3>1, <3>2
  <2> DEFINE steps == wipe \o q
  <2>8. Fits(team, steps)
    <3>1. Fits(team, wipe)
      BY <2>7, AsideFits
    <3>2. /\ Len(steps) = Len(wipe) + Len(q) /\ Len(wipe) \in Nat /\ Len(q) \in Nat
          /\ \A i \in 1..Len(wipe) : steps[i] = wipe[i]
          /\ \A i \in 1..Len(q) : steps[Len(wipe) + i] = q[i]
      <4>1. IsList(wipe) /\ IsList(q)
        BY <2>2, <2>6
      <4> QED
        BY ONLY <4>1, ListsJoin, ListLength
    <3> HIDE DEF steps
    <3>3. ASSUME NEW i \in 1..Len(steps)
          PROVE  StepFits(team, steps[i]) /\ steps[i].do \notin {"r2", "original", "advance"}
      <4>1. CASE i \in 1..Len(wipe)
        BY <2>7, <3>1, <3>2, <4>1 DEF Fits, Aside
      <4>2. CASE i \notin 1..Len(wipe)
        <5> DEFINE j == i - Len(wipe)
        <5>1. j \in 1..Len(q) /\ i = Len(wipe) + j
          BY <3>2, <4>2
        <5> HIDE DEF j
        <5> QED
          BY <2>6, <3>2, <5>1
      <4> QED
        BY <4>1, <4>2
    <3> QED
      BY <3>3 DEF Fits, InPlace
  <2>9. GoesOn(work[h], work'[h], steps)
    BY <2>2
  <2> HIDE DEF steps
  <2>10. ASSUME Undisturbed
         PROVE  Fits(work'[h].team, work'[h].todo)
    <3>1. Fits(work[h].team, work[h].todo)
      BY <1>1, <2>10, FairBefore DEF ChoicesOnTurn
    <3> QED
      BY <1>1, <2>2, <2>3, <2>8, <2>9, <3>1, RestFits
  <2>11. Now(h).do # "advance"
    BY <1>1
  <2> QED
    BY <1>1, <2>10, <2>11, FairStep
<1> QED
  BY <1>2, <1>3

LEMMA FairStatement ==
  ASSUME FairInv, OneHandler, NEW h \in Handlers, Statement(h), ~ReassignNext(h), ~Reply(h)
  PROVE  FairInv'
<1>1. TodoInv /\ TodoInv'
  BY StatementKeepsTypes DEF FairInv
<1>2. CASE StepsAside(h)
  BY <1>1, <1>2, FairAside
<1>3. CASE ~StepsAside(h)
  <2>1. \/ ReadLeaves(h) \/ PickOriginal(h) \/ DetermineCoveringMember(h) \/ CommitCoverSlot(h)
        \/ InsertOriginal(h) \/ AdvanceR1(h) \/ DeleteAssignmentsInRange(h) \/ GetMembers(h)
        \/ LoadTeam(h)
    BY <1>1, <1>3, ReadsAside, WritesAside, CoverChoicesAside, LoopsAside DEF Statement
  <2> QED
    BY <1>1, <2>1, FairReadLeaves, FairPickOriginal, FairDetermineCover, FairCommitCoverSlot,
       FairInsertOriginal, FairAdvanceR1, FairWipe, FairGetMembers, FairLoadTeam
<1> QED
  BY <1>2, <1>3

(* Between two requests, and at the start of one.                          *)
LEMMA FairBetween ==
  ASSUME FairInv, TodoInv', OneHandler, NEW h \in Handlers, work[h].todo = <<>>,
         UNCHANGED <<team, orig, r1, changes, faults>>, Aside(work'[h].todo)
  PROVE  FairInv'
<1> SUFFICES ASSUME Undisturbed
             PROVE  RotaTypes' /\ OriginalsOnTurn' /\ \A g \in Handlers : ChoicesOnTurn(g)'
  BY DEF FairInv, Undisturbed
<1>1. RotaTypes /\ OriginalsOnTurn /\ (r1 = None => \A d \in Days : orig[d] = None)
  BY NobodyServed
<1>2. RotaTypes'
  BY <1>1 DEF RotaTypes
<1>3. OriginalsOnTurn'
  BY <1>1 DEF OriginalsOnTurn, OnTurn
<1>4. ASSUME NEW g \in Handlers
      PROVE  ChoicesOnTurn(g)'
  <2>1. g = h
    BY DEF OneHandler
  <2> QED
    BY <2>1 DEF ChoicesOnTurn, Fits, StepFits, InPlace, Aside
<1> QED
  BY <1>2, <1>3, <1>4

LEMMA FairNextLeave ==
  ASSUME FairInv, TodoInv', OneHandler, NEW h \in Handlers, ReassignNext(h) \/ Reply(h)
  PROVE  FairInv'
<1>0. WorkOK /\ IsRequest(work[h])
  BY DEF FairInv, TodoInv, WorkOK
<1>1. work[h].todo = <<>> /\ UNCHANGED <<team, orig, r1, changes, faults>>
  BY DEF ReassignNext, Reply, tables, bounds
<1>2. CASE ReassignNext(h)
  <2>1. PICK lo, hi, l, queue :
          work' = [work EXCEPT ![h] = [work[h] EXCEPT !.queue = queue,
                                         !.todo = Reconcile(lo, hi) \o <<[do |-> "leave", l |-> l]>>]]
    BY <1>2 DEF ReassignNext
  <2> DEFINE todo == Reconcile(lo, hi) \o <<[do |-> "leave", l |-> l]>>
             w == Advanced(work[h], queue, todo)
  <2>2. Opening(todo)
    BY RequestsOpen
  <2>3. work' = [work EXCEPT ![h] = w]
    BY <2>1 DEF Advanced
  <2> HIDE DEF todo
  <2>4. w = [job |-> work[h].job, about |-> work[h].about, todo |-> todo, queue |-> queue,
             team |-> work[h].team, anchor |-> work[h].anchor, failed |-> work[h].failed]
    BY ONLY <1>0, AdvancedFields
  <2> HIDE DEF w
  <2>5. work'[h] = w
    BY <1>0, <2>3 DEF WorkOK
  <2>6. work'[h].todo = todo
    BY <2>4, <2>5
  <2>7. Aside(work'[h].todo)
    BY <2>2, <2>6, OpeningsAside
  <2> QED
    BY <1>1, <2>7, FairBetween
<1>3. CASE Reply(h)
  <2>1. work' = [work EXCEPT ![h] = Idle]
    BY <1>3 DEF Reply
  <2>2. work'[h].todo = <<>>
    BY <1>0, <2>1, IdleIsTyped DEF WorkOK
  <2>3. Aside(work'[h].todo)
    BY <2>2, AsideLists
  <2> QED
    BY <1>1, <2>3, FairBetween
<1> QED
  BY <1>2, <1>3

\* The rows of the originals.
IsRow(r) == r = [member |-> r.member, swapped |-> r.swapped, id |-> r.id]
Rows(o) == o = [d \in Days |-> o[d]] /\ \A d \in Days : o[d] # None => IsRow(o[d])
Held(o, d, m) == [o EXCEPT ![d].member = m]
Marked(o, d) == [o EXCEPT ![d].swapped = TRUE]

LEMMA HeldRows ==
  ASSUME NEW o, Rows(o), NEW d \in Days, IsRow(o[d]), NEW m
  PROVE  /\ Rows(Held(o, d, m)) /\ IsRow(Held(o, d, m)[d])
         /\ Held(o, d, m)[d].swapped = o[d].swapped
         /\ \A e \in Days : e # d => Held(o, d, m)[e] = o[e]
<1> DEFINE p == Held(o, d, m)
           r == [o[d] EXCEPT !.member = m]
<1>1. p = [e \in Days |-> IF e = d THEN r ELSE o[e]]
  BY DEF Held, Rows
<1>2. r = [member |-> m, swapped |-> o[d].swapped, id |-> o[d].id]
  BY DEF IsRow
<1> HIDE DEF p, r
<1>3. IsRow(r) /\ r.swapped = o[d].swapped
  BY <1>2 DEF IsRow
<1>4. p = [e \in Days |-> p[e]] /\ p[d] = r /\ \A e \in Days : e # d => p[e] = o[e]
  BY <1>1
<1>5. Rows(p)
  BY <1>3, <1>4 DEF Rows
<1> QED
  BY <1>3, <1>4, <1>5 DEF p

LEMMA MarkedRows ==
  ASSUME NEW o, Rows(o), NEW d \in Days, IsRow(o[d])
  PROVE  /\ Rows(Marked(o, d)) /\ IsRow(Marked(o, d)[d])
         /\ Marked(o, d)[d].swapped
         /\ \A e \in Days : e # d => Marked(o, d)[e] = o[e]
<1> DEFINE yes == TRUE
           p == Marked(o, d)
           r == [o[d] EXCEPT !.swapped = yes]
<1>1. p = [e \in Days |-> IF e = d THEN r ELSE o[e]]
  BY DEF Marked, Rows
<1>2. yes
  OBVIOUS
<1> HIDE DEF yes
<1>3. r = [member |-> o[d].member, swapped |-> yes, id |-> o[d].id]
  BY DEF IsRow
<1> HIDE DEF p, r
<1>4. IsRow(r) /\ r.swapped = yes
  BY <1>3 DEF IsRow
<1>5. p = [e \in Days |-> p[e]] /\ p[d] = r /\ \A e \in Days : e # d => p[e] = o[e]
  BY <1>1
<1>6. Rows(p)
  BY <1>4, <1>5 DEF Rows
<1> QED
  BY <1>2, <1>4, <1>5, <1>6 DEF p

(* A swap marks the rows whose members it exchanges.                       *)
LEMMA SwapMarks ==
  ASSUME Rows(orig), NEW h \in Handlers, NEW d \in Days, NEW e \in Days, SwapDays(h, d, e)
  PROVE  Rows(orig') /\ \A x \in Days : orig'[x] = orig[x] \/ (orig[x] # None /\ orig'[x].swapped)
<1> SUFFICES ASSUME orig' # orig
             PROVE  Rows(orig') /\ \A x \in Days : orig'[x] = orig[x] \/ (orig[x] # None /\ orig'[x].swapped)
  OBVIOUS
<1>1. orig[d] # None /\ IsRow(orig[d])
  BY DEF SwapDays, Rows
<1> DEFINE o1(m) == Held(orig, d, m)
           o2(m) == Marked(o1(m), d)
           o3(m, k) == Held(o2(m), e, k)
           o4(m, k) == Marked(o3(m, k), e)
<1>2. ASSUME NEW m
      PROVE  /\ Rows(o2(m)) /\ o2(m)[d].swapped
             /\ \A x \in Days : x # d => o2(m)[x] = orig[x]
  <2>1. /\ Rows(o1(m)) /\ IsRow(o1(m)[d]) /\ \A x \in Days : x # d => o1(m)[x] = orig[x]
    BY <1>1, HeldRows
  <2> HIDE DEF o1
  <2> QED
    BY <2>1, MarkedRows
<1>3. ASSUME NEW m, NEW k, orig[e] # None, d # e
      PROVE  /\ Rows(o4(m, k)) /\ o4(m, k)[d].swapped /\ o4(m, k)[e].swapped
             /\ \A x \in Days : x # d /\ x # e => o4(m, k)[x] = orig[x]
  <2>1. Rows(o2(m)) /\ o2(m)[d].swapped /\ IsRow(o2(m)[e])
    BY <1>1, <1>2, <1>3 DEF Rows
  <2> HIDE DEF o2
  <2>2. /\ Rows(o3(m, k)) /\ IsRow(o3(m, k)[e])
        /\ \A x \in Days : x # e => o3(m, k)[x] = o2(m)[x]
    BY <2>1, HeldRows
  <2> HIDE DEF o3
  <2>3. /\ Rows(o4(m, k)) /\ o4(m, k)[e].swapped
        /\ \A x \in Days : x # e => o4(m, k)[x] = o3(m, k)[x]
    BY <2>2, MarkedRows
  <2> HIDE DEF o4
  <2> QED
    BY <1>1, <1>2, <2>1, <2>2, <2>3
<1>4. \/ \E m : orig' = o2(m)
      \/ orig[e] # None /\ d # e /\ \E m, k : orig' = o4(m, k)
  BY DEF SwapDays, Held, Marked
<1> HIDE DEF o2, o4
<1>5. CASE \E m : orig' = o2(m)
  BY <1>1, <1>2, <1>5
<1>6. CASE orig[e] # None /\ d # e /\ \E m, k : orig' = o4(m, k)
  BY <1>1, <1>3, <1>6
<1> QED
  BY <1>1, <1>4, <1>5, <1>6

LEMMA FairSwap ==
  ASSUME FairInv, TodoInv', OneHandler, NEW h \in Handlers, NEW d \in Days, NEW e \in Days,
         SwapDays(h, d, e)
  PROVE  FairInv'
<1>0. WorkOK
  BY DEF FairInv, TodoInv
<1>1. UNCHANGED <<team, r1, changes, faults>> /\ Begin(h, "swap", None, <<>>, <<>>)
  BY DEF SwapDays
<1>2. work[h].todo = <<>> /\ work'[h].todo = <<>>
  <2> DEFINE empty == <<>>
  <2>1. IsList(empty) /\ Begin(h, "swap", None, empty, empty)
    BY <1>1, ShortLists
  <2> HIDE DEF empty
  <2>2. work[h].todo = <<>> /\ work'[h].todo = empty
    BY <1>0, <2>1, BeginStarts
  <2> QED
    BY <2>2 DEF empty
<1> SUFFICES ASSUME Undisturbed
             PROVE  RotaTypes' /\ OriginalsOnTurn' /\ \A g \in Handlers : ChoicesOnTurn(g)'
  BY <1>1 DEF FairInv, Undisturbed
<1>3. RotaTypes /\ OriginalsOnTurn /\ (r1 = None => \A x \in Days : orig[x] = None)
  BY <1>2, NobodyServed
<1>4. Rows(orig)
  BY <1>3 DEF RotaTypes, Rows, IsRow
<1>5. /\ Rows(orig')
      /\ \A x \in Days : orig'[x] = orig[x] \/ (orig[x] # None /\ orig'[x].swapped)
  BY <1>4, SwapMarks
<1>6. RotaTypes'
  BY <1>1, <1>3, <1>5 DEF RotaTypes, Rows, IsRow
<1>7. OriginalsOnTurn'
  <2>1. r1' = r1 /\ (r1 = None => \A x \in Days : orig'[x] = orig[x])
    BY <1>1, <1>3, <1>5
  <2> QED
    BY <1>1, <1>3, <1>5, <2>1 DEF OriginalsOnTurn, OnTurn
<1>8. ASSUME NEW g \in Handlers
      PROVE  ChoicesOnTurn(g)'
  <2>1. g = h
    BY DEF OneHandler
  <2>2. Len(work'[g].todo) = 0
    BY <1>2, <2>1, ShortLists
  <2> QED
    BY <2>2 DEF ChoicesOnTurn, Fits
<1> QED
  BY <1>6, <1>7, <1>8

\* A fault or a change of the team ends what the property is about.
LEMMA Disturbed ==
  ASSUME FairInv, TodoInv', \/ changes' = changes + 1 /\ faults' = faults
                            \/ faults' = faults + 1 /\ changes' = changes
  PROVE  FairInv'
BY DEF FairInv, Undisturbed

LEMMA FairRequest ==
  ASSUME FairInv, OneHandler, NEW h \in Handlers, ViewDashboard(h) \/ Request(h)
  PROVE  FairInv'
<1>1. PICK job, about, todo, queue : Opening(todo) /\ Begin(h, job, about, todo, queue)
  BY RequestsBegin
<1>2. WorkOK /\ TodoInv /\ IsList(todo) /\ Aside(todo)
  BY <1>1, OpeningsAside DEF FairInv, TodoInv
<1>3. TodoInv' /\ work[h].todo = <<>> /\ work'[h].todo = todo
  BY <1>1, <1>2, BeginKeepsTypes, BeginStarts
<1>4. CASE UNCHANGED <<team, orig, r1, changes, faults>>
  BY <1>2, <1>3, <1>4, FairBetween
<1>5. CASE \E d, e \in Days : SwapDays(h, d, e)
  BY <1>3, <1>5, FairSwap
<1>6. CASE changes' = changes + 1 /\ faults' = faults
  BY <1>3, <1>6, Disturbed
<1>7. \/ UNCHANGED <<team, orig, r1, changes, faults>>
      \/ \E d, e \in Days : SwapDays(h, d, e)
      \/ changes' = changes + 1 /\ faults' = faults
  <2>1. CASE ViewDashboard(h)
    BY <2>1 DEF ViewDashboard, tables, bounds
  <2>2. CASE Reassign(h)
    BY <2>2 DEF Reassign, tables
  <2>3. ASSUME NEW lo \in Days, NEW hi \in Days, GenerateDays(h, lo, hi)
        PROVE  UNCHANGED <<team, orig, r1, changes, faults>>
    BY <2>3 DEF GenerateDays, tables
  <2>4. ASSUME NEW lo \in Days, NEW hi \in Days, NEW l \in Leaves, NEW m \in Members,
               \/ handleLeaveReportPost(h, l, m, lo, hi) \/ handleReportLeave(h, l, m, lo, hi)
        PROVE  UNCHANGED <<team, orig, r1, changes, faults>>
    BY <2>4 DEF handleLeaveReportPost, handleReportLeave, CreateLeaveRecord
  <2>5. ASSUME NEW lo \in Days, NEW hi \in Days, NEW l \in Leaves, NEW m \in Members,
               EditLeave(h, l, m, lo, hi)
        PROVE  UNCHANGED <<team, orig, r1, changes, faults>>
    BY <2>5 DEF EditLeave, tables
  <2>6. ASSUME NEW l \in Leaves, DeleteLeave(h, l)
        PROVE  UNCHANGED <<team, orig, r1, changes, faults>>
    BY <2>6 DEF DeleteLeave, tables
  <2>7. ASSUME NEW m \in Members, handleTeamPost(h, m) \/ handleAddTeam(h, m) \/ DeleteMember(h, m)
        PROVE  changes' = changes + 1 /\ faults' = faults
    BY <2>7 DEF handleTeamPost, handleAddTeam, AddTeamMember, DeleteMember
  <2> QED
    BY <2>1, <2>2, <2>3, <2>4, <2>5, <2>6, <2>7 DEF Request
<1> QED
  BY <1>4, <1>5, <1>6, <1>7

LEMMA FairInductive ==
  ASSUME OneHandler, FairInv, [Next]_vars
  PROVE  FairInv'
<1>1. TodoInv
  BY DEF FairInv
<1>2. ASSUME NEW h \in Handlers, ViewDashboard(h) \/ Request(h)
      PROVE  FairInv'
  BY <1>2, FairRequest
<1>3. ASSUME NEW h \in Handlers, Statement(h)
      PROVE  FairInv'
  <2>1. TodoInv'
    BY <1>1, <1>3, StatementKeepsTypes
  <2> QED
    BY <1>3, <2>1, FairStatement, FairNextLeave
<1>4. ASSUME NEW h \in Handlers, Fail(h)
      PROVE  FairInv'
  <2>1. TodoInv'
    BY <1>1, <1>4, FailKeepsTypes
  <2>2. faults' = faults + 1 /\ changes' = changes
    BY <1>4 DEF Fail
  <2> QED
    BY <2>1, <2>2, Disturbed
<1>5. ASSUME NEW h \in Handlers, Restart(h)
      PROVE  FairInv'
  <2>1. TodoInv'
    BY <1>5, RestartKeepsTypes
  <2>2. faults' = faults + 1 /\ changes' = changes
    BY <1>5 DEF Restart
  <2> QED
    BY <2>1, <2>2, Disturbed
<1>6. CASE Tick \/ UNCHANGED vars
  <2>1. UNCHANGED <<team, orig, r1, work, changes, faults>>
    BY <1>6 DEF Tick, vars, bounds
  <2>2. TodoInv'
    BY <1>1, <2>1 DEF TodoInv, WorkOK, Typed, IsRequest
  <2> QED
    BY <2>1, <2>2 DEF FairInv, Undisturbed, RotaTypes, OriginalsOnTurn, ChoicesOnTurn, Fits, StepFits,
                      InPlace, OnTurn, IsFirst, Doing, Now
<1> QED
  BY <1>2, <1>3, <1>4, <1>5, <1>6 DEF Next

LEMMA FairAtFirst ==
  ASSUME Init
  PROVE  FairInv
<1>1. /\ changes = 0 /\ faults = 0 /\ r1 = None /\ team \in Teams
      /\ work = [h \in Handlers |-> Idle] /\ orig = [d \in Days |-> None]
  BY DEF Init
<1>2. TodoInv
  <2>1. \A h \in Handlers : IsRequest(work[h]) /\ Typed(work[h])
    BY <1>1, IdleIsTyped
  <2> QED
    BY <1>1, <2>1 DEF TodoInv, WorkOK
<1>3. RotaTypes /\ OriginalsOnTurn
  BY <1>1, RotaAssumption DEF RotaTypes, OriginalsOnTurn
<1>4. ASSUME NEW h \in Handlers
      PROVE  ChoicesOnTurn(h)
  <2>1. Len(work[h].todo) = 0
    BY <1>1, IdleIsTyped, ShortLists
  <2> QED
    BY <2>1 DEF ChoicesOnTurn, Fits
<1> QED
  BY <1>1, <1>2, <1>3, <1>4 DEF FairInv

LEMMA FairIsFair ==
  ASSUME FairInv, OneHandler
  PROVE  FairRotation
<1> SUFFICES ASSUME Undisturbed, NEW d \in Working, NEW e \in Working, d < e,
                    orig[d] # None, orig[e] # None, ~orig[d].swapped, ~orig[e].swapped
             PROVE  SlotOf(team, orig[e].member) =
                      (SlotOf(team, orig[d].member) + Cardinality({x \in Working : d < x /\ x <= e}))
                        % Cardinality(team)
  BY DEF FairRotation, Undisturbed
<1>1. d \in Days /\ e \in Days /\ d \in Nat /\ e \in Nat
  BY RotaAssumption DEF Days
<1>2. RotaTypes /\ OriginalsOnTurn
  BY DEF FairInv
<1>3. r1 # None
  <2> SUFFICES ASSUME r1 = None PROVE FALSE
    OBVIOUS
  <2>1. IsFirst(d) /\ IsFirst(e)
    BY <1>1, <1>2 DEF OriginalsOnTurn
  <2>2. PICK g, h \in Handlers : Now(g).d = d /\ Now(h).d = e
    BY <2>1 DEF IsFirst
  <2>3. g = h
    BY DEF OneHandler
  <2> QED
    BY <1>1, <2>2, <2>3
<1>4. OnTurn(d, orig[d].member) /\ OnTurn(e, orig[e].member)
  BY <1>1, <1>2, <1>3 DEF OriginalsOnTurn
<1>5. IsTeam(team) /\ r1 \in Position
  BY <1>2, <1>3, <1>4, RosterIsTeam DEF OnTurn, RotaTypes
<1>6. /\ SlotOf(team, orig[d].member) = Turn(r1, d, team)
      /\ SlotOf(team, orig[e].member) = Turn(r1, e, team)
  BY <1>3, <1>4 DEF OnTurn, TurnOf
<1>7. Turn(r1, e, team) = (Turn(r1, d, team) + WorkingDaysBetween(d, e)) % Cardinality(team)
  BY <1>1, <1>5, TurnsMoveOn
<1>8. WorkingDaysBetween(d, e) = Cardinality({x \in Working : d < x /\ x <= e})
  BY EitherEndCounts
<1> QED
  BY <1>6, <1>7, <1>8

(* The hat goes round.  With one request at a time, an unchanged team and  *)
(* no failed statement, the originals of any two dates are as many slots   *)
(* apart as there are working days between them, for every calendar, team  *)
(* and way of splitting the generation up, although R1's position is only  *)
(* ever the first row written.  Two requests at a time may both find no    *)
(* row and give two dates the first slot.                                  *)
THEOREM HatGoesRound ==
  ASSUME OneHandler
  PROVE  Spec => []FairRotation
<1>1. Init => FairInv
  BY FairAtFirst
<1>2. FairInv /\ [Next]_vars => FairInv'
  BY FairInductive
<1>3. FairInv => FairRotation
  BY FairIsFair
<1> QED
  BY <1>1, <1>2, <1>3, PTL DEF Spec

=============================================================================
