--------------------------- MODULE EndpointProofs ----------------------------
(***************************************************************************)
(* The two endpoints of a generation, from opening to exchange, for every  *)
(* limit and ring.  Opening (module Establish): an endpoint acts on the    *)
(* envelope that was meant for it and the two agree, whatever deviation    *)
(* the envelopes suffer.  Exchange (module Channel): what is accepted is   *)
(* delivered whole, once and in order.  Both rest on the capacity rule,    *)
(* which is first: a batch the limits allow fits an empty ring at every    *)
(* offset.                                                                 *)
(***************************************************************************)
EXTENDS Establish, ChannelProperties, FiniteSetTheorems, WellFoundedInduction,
        SequenceTheorems, TLAPS

\* A set of numbers with 0 and each successor of its members is Nat.
LEMMA SetInduction ==
  ASSUME NEW P \in SUBSET Nat, 0 \in P, \A n \in P : n + 1 \in P
  PROVE  P = Nat
<1> SUFFICES ASSUME P # Nat PROVE FALSE
  OBVIOUS
<1> DEFINE T == {0 .. k : k \in Nat \ P}
           R == StrictSubsetOrdering(Nat)
<1>1. T \subseteq FiniteSubsetsOf(Nat)
  <2>1. \A k \in Nat : IsFiniteSet(0 .. k) /\ 0 .. k \in SUBSET Nat
    BY FS_Interval
  <2> QED BY <2>1 DEF FiniteSubsetsOf
<1>2. T # {}
  OBVIOUS
<1>3. IsWellFoundedOn(R, FiniteSubsetsOf(Nat))
  BY FS_StrictSubsetOrderingWellFounded
<1> HIDE DEF R
<1>4. \E x \in T : \A y \in T : ~ (<<y, x>> \in R)
  <2> HIDE DEF T
  <2> QED BY <1>1, <1>2, <1>3, WFMin
<1>5. PICK k \in Nat \ P : \A j \in Nat \ P : ~ (<<0 .. j, 0 .. k>> \in R)
  BY <1>4
<1>6. PICK j \in Nat : k = j + 1
  OBVIOUS
<1>7. <<0 .. j, 0 .. k>> \in R
  <2>1. 0 .. j \in SUBSET Nat /\ 0 .. k \in SUBSET Nat /\ 0 .. j \subseteq 0 .. k
    BY <1>6
  <2>2. k \in 0 .. k /\ k \notin 0 .. j
    BY <1>6
  <2>3. 0 .. j # 0 .. k
    BY <2>2
  <2> QED BY <2>1, <2>3 DEF R, StrictSubsetOrdering
<1>8. j \in P
  BY <1>5, <1>7
<1> QED BY <1>5, <1>6, <1>8

-----------------------------------------------------------------------------
(* The capacity rule.                                                      *)

\* A number modulo m that is below 2 * m.
LEMMA ModSmall ==
  ASSUME NEW m \in Nat \ {0}, NEW x \in Nat, x < 2 * m
  PROVE  /\ x < m => x % m = x
         /\ x >= m => x % m = x - m
OBVIOUS

\* One record after cells that wrapped, after tail cells, or did not wrap.
Taken(capacity, offset, cells, length) ==
  LET room == capacity - ((offset + cells) % capacity)
  IN  cells + length + (IF length > room THEN room ELSE 0)

\* A record that fits before the end takes its own length.
LEMMA TakenPlain ==
  ASSUME NEW capacity \in Nat \ {0}, NEW longest \in Nat, NEW offset \in 0 .. capacity - 1,
         NEW a \in Nat, NEW l \in 1 .. longest, offset + a < capacity
  PROVE  \/ /\ Taken(capacity, offset, a, l) = a + l
            /\ offset + a + l <= capacity
         \/ \E tail \in 0 .. longest - 1 :
              /\ Taken(capacity, offset, a, l) = a + l + tail
              /\ offset + a + l + tail >= capacity
<1>1. (offset + a) % capacity = offset + a
  <2>1. offset + a \in Nat /\ offset + a < 2 * capacity
    OBVIOUS
  <2> QED BY <2>1, ModSmall
<1>2. CASE l > capacity - (offset + a)
  <2>1. PICK tail \in 0 .. longest - 1 : tail = capacity - (offset + a)
    BY <1>2
  <2>2. Taken(capacity, offset, a, l) = a + l + tail
    BY <1>1, <1>2, <2>1 DEF Taken
  <2>3. offset + a + l + tail >= capacity
    BY <2>1
  <2> QED BY <2>2, <2>3
<1>3. CASE ~(l > capacity - (offset + a))
  <2>1. Taken(capacity, offset, a, l) = a + l + 0
    BY <1>1, <1>3 DEF Taken
  <2> QED BY <1>3, <2>1
<1> QED BY <1>2, <1>3

\* A record that does not takes the tail as well, at most longest - 1 cells.
LEMMA TakenWrapped ==
  ASSUME NEW capacity \in Nat \ {0}, NEW offset \in Nat, NEW cells \in Nat, NEW l \in Nat \ {0},
         offset + cells >= capacity, offset + cells + l < 2 * capacity
  PROVE  Taken(capacity, offset, cells, l) = cells + l
<1>1. PICK x \in Nat : x = offset + cells /\ x >= capacity /\ x + l < 2 * capacity
                       /\ x < 2 * capacity
  OBVIOUS
<1>2. x % capacity = x - capacity
  BY <1>1, ModSmall
<1>3. ~(l > capacity - (x - capacity))
  BY <1>1
<1> QED BY <1>1, <1>2, <1>3 DEF Taken

\* Records that together with the longest possible tail fit in a ring fit in it
\* from every offset: a batch wraps once at most.
LEMMA BatchPlanned ==
  ASSUME NEW capacity \in Nat, NEW longest \in Nat, longest > 1,
         NEW offset \in 0 .. capacity - 1,
         NEW N \in Nat, NEW lengths, Len(lengths) = N,
         \A i \in 1 .. N : lengths[i] \in 1 .. longest,
         NEW sums \in [0 .. N -> Nat], sums[0] = 0,
         \A i \in 1 .. N : sums[i] = sums[i - 1] + lengths[i],
         \A i \in 0 .. N : sums[i] + longest - 1 <= capacity
  PROVE  PlannedCells(capacity, offset, lengths) <= capacity
<1> DEFINE Next1(cells, length) == Taken(capacity, offset, cells, length)
           Upto(f) == f = [n \in 0 .. N |->
                             IF n = 0 THEN 0
                             ELSE LET cells == f[n - 1]
                                      room == capacity - ((offset + cells) % capacity)
                                  IN  cells + lengths[n] + (IF lengths[n] > room THEN room ELSE 0)]
           Run(n, f) == f[0] = 0 /\ \A k \in 1 .. n : f[k] = Next1(f[k - 1], lengths[k])
           P == {n \in Nat : n <= N => \E f \in [0 .. n -> Int] : Run(n, f)}
<1>1. PlannedCells(capacity, offset, lengths) = (CHOOSE f : Upto(f))[N]
  BY DEF PlannedCells
<1>2. capacity \in Nat \ {0}
  OBVIOUS
<1>3. \A cells \in Int, length \in Int : Next1(cells, length) \in Int
  BY <1>2 DEF Taken
<1>4. 0 \in P
  <2> DEFINE f == [k \in 0 .. 0 |-> 0]
  <2> HIDE DEF Next1
  <2>1. f \in [0 .. 0 -> Int] /\ Run(0, f)
    OBVIOUS
  <2> QED BY <2>1
<1>5. ASSUME NEW n \in P PROVE n + 1 \in P
  <2> HIDE DEF Next1
  <2>0. n \in Nat /\ n + 1 \in Nat /\ (n <= N => \E f \in [0 .. n -> Int] : Run(n, f))
    <3> HIDE DEF Run
    <3> QED OBVIOUS
  <2> SUFFICES ASSUME n + 1 <= N PROVE \E f \in [0 .. n + 1 -> Int] : Run(n + 1, f)
    <3> HIDE DEF Run
    <3> QED BY <2>0
  <2>1. PICK e \in [0 .. n -> Int] : Run(n, e)
    <3> HIDE DEF Run, P
    <3>1. n <= N
      BY <2>0
    <3> QED BY <2>0, <3>1
  <2>2. PICK y \in Int : y = Next1(e[n], lengths[n + 1])
    <3>1. e[n] \in Int /\ lengths[n + 1] \in Int
      BY <2>0
    <3> QED BY <1>3, <3>1
  <2> DEFINE f == [k \in 0 .. n + 1 |-> IF k <= n THEN e[k] ELSE y]
  <2>3. f \in [0 .. n + 1 -> Int]
    BY <2>0
  <2>4. f[0] = 0
    BY <2>0, <2>1
  <2>5. ASSUME NEW k \in 1 .. n + 1 PROVE f[k] = Next1(f[k - 1], lengths[k])
    <3>1. CASE k \in 1 .. n
      <4>1. f[k] = e[k] /\ f[k - 1] = e[k - 1]
        BY <2>0, <3>1
      <4> HIDE DEF f
      <4> QED BY <2>1, <3>1, <4>1
    <3>2. CASE k = n + 1
      <4>1. f[k] = y /\ f[k - 1] = e[n]
        BY <2>0, <3>2
      <4> HIDE DEF f
      <4> QED BY <2>2, <3>2, <4>1
    <3> QED BY <2>0, <3>1, <3>2
  <2> HIDE DEF f
  <2> QED BY <2>3, <2>4, <2>5
<1>6. PICK c : /\ c[0] = 0 /\ PlannedCells(capacity, offset, lengths) = c[N]
               /\ \A n \in 1 .. N : c[n] = Next1(c[n - 1], lengths[n])
  <2>1. P = Nat
    <3>1. P \in SUBSET Nat
      OBVIOUS
    <3> HIDE DEF P
    <3> QED BY <1>4, <1>5, <3>1, SetInduction
  <2>2. PICK e \in [0 .. N -> Int] : Run(N, e)
    <3>1. N \in P
      BY <2>1
    <3> HIDE DEF Run
    <3> QED BY <3>1
  <2>3. Upto(e)
    <3>1. ASSUME NEW n \in 0 .. N
          PROVE  e[n] = IF n = 0 THEN 0 ELSE Next1(e[n - 1], lengths[n])
      <4> HIDE DEF Next1
      <4>1. n = 0 \/ n \in 1 .. N
        OBVIOUS
      <4> QED BY <2>2, <4>1
    <3> QED BY <3>1 DEF Taken
  <2> HIDE DEF P, Run
  <2>4. PICK c : Upto(c) /\ PlannedCells(capacity, offset, lengths) = c[N]
    <3> HIDE DEF Upto
    <3> QED BY <1>1, <2>3
  <2>5. 0 \in 0 .. N /\ \A n \in 1 .. N : n \in 0 .. N /\ n # 0
    OBVIOUS
  <2>6. c[0] = 0
    BY <2>4, <2>5
  <2>7. \A n \in 1 .. N : c[n] = Next1(c[n - 1], lengths[n])
    BY <2>4, <2>5 DEF Taken
  <2> QED BY <2>4, <2>6, <2>7
<1> HIDE DEF Upto, Run, P, Next1
<1> DEFINE Plain(n) == c[n] = sums[n] /\ offset + sums[n] < capacity
           Wrapped(n) == \E tail \in 0 .. longest - 1 :
                           c[n] = sums[n] + tail /\ offset + sums[n] + tail >= capacity
           T == {n \in Nat : n <= N => Plain(n) \/ Wrapped(n)}
<1>7. 0 \in T
  BY <1>6
<1>8. ASSUME NEW n \in T PROVE n + 1 \in T
  <2> SUFFICES ASSUME n + 1 <= N PROVE Plain(n + 1) \/ Wrapped(n + 1)
    OBVIOUS
  <2>1. /\ n \in Nat /\ n + 1 \in 1 .. N /\ (n + 1) - 1 = n /\ n \in 0 .. N /\ n + 1 \in 0 .. N
        /\ Plain(n) \/ Wrapped(n)
    OBVIOUS
  <2> HIDE DEF T
  <2>2. PICK a \in Nat, b \in Nat, l \in 1 .. longest :
          /\ a = sums[n] /\ l = lengths[n + 1] /\ b = sums[n + 1] /\ b = a + l
          /\ b + longest - 1 <= capacity
    BY <2>1
  <2>3. c[n + 1] = Next1(c[n], l)
    BY <1>6, <2>1, <2>2
  <2>a. /\ b = a + l /\ b + longest - 1 <= capacity /\ a + l + longest - 1 <= capacity
        /\ l \in Nat /\ l >= 1
    BY <2>2
  <2>b. sums[n] = a /\ sums[n + 1] = b
    BY <2>2
  <2>4. CASE Plain(n)
    <3>1. c[n + 1] = Taken(capacity, offset, a, l) /\ offset + a < capacity
      BY <2>2, <2>3, <2>4 DEF Next1
    <3>2. CASE Taken(capacity, offset, a, l) = a + l /\ offset + a + l <= capacity
      <4>1. 0 \in 0 .. longest - 1 /\ c[n + 1] = b + 0 /\ c[n + 1] = b
        BY <2>2, <3>1, <3>2
      <4>2. offset + b < capacity \/ offset + b + 0 >= capacity
        BY <2>2
      <4> QED BY <2>2, <4>1, <4>2
    <3>3. ASSUME NEW tail \in 0 .. longest - 1, Taken(capacity, offset, a, l) = a + l + tail,
                 offset + a + l + tail >= capacity
          PROVE  Wrapped(n + 1)
      <4>1. b + tail = a + l + tail /\ offset + b + tail = offset + a + l + tail
        BY <2>a
      <4>2. c[n + 1] = b + tail /\ offset + b + tail >= capacity
        BY <3>1, <3>3, <4>1
      <4> QED BY <2>b, <4>2
    <3> HIDE DEF Plain, Wrapped
    <3> QED BY <1>2, <3>1, <3>2, <3>3, TakenPlain
  <2>5. CASE Wrapped(n)
    <3>1. PICK tail \in 0 .. longest - 1 : c[n] = a + tail /\ offset + a + tail >= capacity
      BY <2>2, <2>5
    <3>2. Taken(capacity, offset, a + tail, l) = a + l + tail
      <4>1. PICK cells \in Nat : cells = a + tail
        OBVIOUS
      <4>2. offset + cells >= capacity
        BY <3>1, <4>1
      <4>3. offset + cells + l < 2 * capacity
        BY <1>2, <2>a, <4>1
      <4>4. l \in Nat \ {0} /\ offset \in Nat
        BY <1>2, <2>a
      <4>5. Taken(capacity, offset, cells, l) = cells + l
        BY <1>2, <4>2, <4>3, <4>4, TakenWrapped
      <4> QED BY <2>a, <4>1, <4>5
    <3>3. c[n + 1] = a + l + tail
      BY <2>3, <3>1, <3>2 DEF Next1
    <3>4. b + tail = a + l + tail /\ offset + b + tail >= capacity
      BY <2>a, <3>1
    <3> QED BY <2>b, <3>3, <3>4
  <2> QED BY <2>1, <2>4, <2>5
<1>9. N \in T
  <2>1. T \in SUBSET Nat
    OBVIOUS
  <2> HIDE DEF T
  <2> QED BY <1>7, <1>8, <2>1, SetInduction
<1>10. Plain(N) \/ Wrapped(N)
  BY <1>9
<1>11. sums[N] \in Nat /\ sums[N] + longest - 1 <= capacity
  OBVIOUS
<1> QED BY <1>6, <1>10, <1>11

\* A record takes at least its prefix, and more for more bytes.
LEMMA RecordCellsGrow ==
  ASSUME NEW a \in Nat, NEW b \in Nat, a <= b
  PROVE  /\ RecordCells(a) \in Nat /\ RecordCells(b) \in Nat
         /\ 3 <= RecordCells(a) /\ RecordCells(a) <= RecordCells(b)
BY DEF RecordCells, PrefixBytes, CellBytes

\* A record takes a natural number of cells.
LEMMA RecordCellsNat == \A a \in Nat : RecordCells(a) \in Nat
BY DEF RecordCells, PrefixBytes, CellBytes

\* Division with remainder, and products of whole numbers.
LEMMA Divides ==
  ASSUME NEW p \in Nat, NEW n \in Nat \ {0}
  PROVE  /\ p \div n \in Nat /\ p % n \in 0 .. n - 1
         /\ p = (p \div n) * n + (p % n)
OBVIOUS

\* Quotient and remainder are the only ones there are.
LEMMA DividesOnce ==
  ASSUME NEW n \in Nat \ {0}, NEW q \in Nat, NEW r \in 0 .. n - 1
  PROVE  (q * n + r) \div n = q /\ (q * n + r) % n = r
OBVIOUS

\* Products of naturals, as far as the solvers need them.
LEMMA Products ==
  ASSUME NEW a \in Nat, NEW b \in Nat, NEW n \in Nat
  PROVE  /\ a * n \in Nat /\ (a + 1) * n = a * n + n
         /\ a <= b => a * n <= b * n
OBVIOUS

\* What the whole message takes bounds what a shorter one takes.
LEMMA WireCellsGrow ==
  ASSUME NEW inline \in Nat \ {0}, NEW message \in Nat, NEW payload \in 0 .. message
  PROVE  WireCells(inline, payload) \in Nat
         /\ WireCells(inline, payload) <= WireCells(inline, message)
<1>1. PICK q \in Nat, r \in 0 .. inline - 1 :
        q = payload \div inline /\ r = payload % inline /\ payload = q * inline + r
  BY Divides
<1>2. PICK Q \in Nat, M \in 0 .. inline - 1 :
        Q = message \div inline /\ M = message % inline /\ message = Q * inline + M
  BY Divides
<1>3. PICK R \in Nat, Rr \in Nat, Rm \in Nat :
        /\ R = RecordCells(inline) /\ Rr = RecordCells(r) /\ Rm = RecordCells(M)
        /\ Rr <= R /\ Rm <= R /\ (r <= M => Rr <= Rm)
  BY RecordCellsGrow
<1>4. /\ WireCells(inline, payload) = q * R + (IF r = 0 THEN 0 ELSE Rr)
      /\ WireCells(inline, message) = Q * R + (IF M = 0 THEN 0 ELSE Rm)
  BY <1>1, <1>2, <1>3 DEF WireCells
<1>5. q <= Q
  <2> SUFFICES ASSUME Q + 1 <= q PROVE FALSE
    OBVIOUS
  <2>1. (Q + 1) * inline <= q * inline /\ (Q + 1) * inline = Q * inline + inline
    BY Products
  <2>2. Q * inline \in Nat /\ q * inline \in Nat
    BY Products
  <2> QED BY <1>1, <1>2, <2>1, <2>2
<1>6. PICK a \in Nat, b \in Nat : a = q * R /\ b = Q * R
  BY Products
<1>a. /\ WireCells(inline, payload) = a + (IF r = 0 THEN 0 ELSE Rr)
      /\ WireCells(inline, message) = b + (IF M = 0 THEN 0 ELSE Rm)
  BY <1>4, <1>6
<1>7. CASE q = Q
  <2>1. r <= M /\ a = b
    BY <1>1, <1>2, <1>6, <1>7, Products
  <2> QED BY <1>3, <1>a, <2>1
<1>8. CASE q + 1 <= Q
  <2>1. a + R <= b
    <3>1. (q + 1) * R <= Q * R /\ (q + 1) * R = q * R + R
      BY <1>8, Products
    <3> QED BY <1>6, <3>1
  <2> QED BY <1>3, <1>a, <2>1
<1> QED BY <1>5, <1>7, <1>8

\* The sizes of the fragments of a payload: q full ones, and what is left.
Split(inline, payload, q, r, N) ==
  /\ q = payload \div inline /\ r = payload % inline
  /\ payload = q * inline + r /\ q >= 1 /\ N = (IF r = 0 THEN q ELSE q + 1)
  /\ FragmentSizes(inline, payload) \in Seq(Nat)
  /\ DOMAIN FragmentSizes(inline, payload) = 1 .. N
  /\ \A i \in 1 .. N : FragmentSizes(inline, payload)[i] = IF i <= q THEN inline ELSE r

\* A payload larger than one record is split as Split says.
LEMMA SizesAre ==
  ASSUME NEW inline \in Nat \ {0}, NEW payload \in Nat, inline < payload
  PROVE  \E q \in Nat, r \in 0 .. inline - 1, N \in Nat : Split(inline, payload, q, r, N)
<1>1. PICK q \in Nat, r \in 0 .. inline - 1 :
        q = payload \div inline /\ r = payload % inline /\ payload = q * inline + r
  BY Divides
<1>2. \A i \in Nat : i * inline \in Nat /\ (i <= q => i * inline <= q * inline)
                     /\ (q + 1 <= i => (q + 1) * inline <= i * inline)
  BY Products
<1>3. (q + 1) * inline = q * inline + inline /\ q * inline \in Nat
  BY Products
<1>4. q >= 1
  BY <1>1
<1>5. PICK N \in Nat : N = IF r = 0 THEN q ELSE q + 1
  OBVIOUS
<1>6. (payload + inline - 1) \div inline = N
  <2>1. CASE r = 0
    <3>1. payload + inline - 1 = q * inline + (inline - 1) /\ inline - 1 \in 0 .. inline - 1
      BY <1>1, <1>3, <2>1
    <3> QED BY <1>5, <2>1, <3>1, DividesOnce
  <2>2. CASE r # 0
    <3>1. payload + inline - 1 = (q + 1) * inline + (r - 1) /\ r - 1 \in 0 .. inline - 1
      BY <1>1, <1>3, <2>2
    <3>2. q + 1 \in Nat
      OBVIOUS
    <3> QED BY <1>5, <2>2, <3>1, <3>2, DividesOnce
  <2> QED BY <2>1, <2>2
<1>7. \A i \in 1 .. N : (i * inline <= payload) <=> i <= q
  <2> SUFFICES ASSUME NEW i \in 1 .. N PROVE (i * inline <= payload) <=> i <= q
    OBVIOUS
  <2>1. i \in Nat /\ (i <= q \/ q + 1 <= i) /\ (i <= q <=> ~(q + 1 <= i))
    BY <1>5
  <2>2. PICK a \in Nat, b \in Nat : /\ a = i * inline /\ b = q * inline /\ payload = b + r
                                    /\ (q + 1) * inline = b + inline
    BY <1>1, <1>2, <1>3, <2>1
  <2>3. i <= q => a <= b
    BY <1>2, <2>1, <2>2
  <2>4. q + 1 <= i => b + inline <= a
    BY <1>2, <2>1, <2>2
  <2>5. (a <= payload) <=> i <= q
    BY <2>1, <2>2, <2>3, <2>4
  <2> QED BY <2>2, <2>5
<1>8. FragmentSizes(inline, payload) = [i \in 1 .. N |-> IF i <= q THEN inline ELSE r]
  <2>1. ~(payload <= inline)
    OBVIOUS
  <2> QED BY <1>1, <1>6, <1>7, <2>1 DEF FragmentSizes
<1>9. FragmentSizes(inline, payload) \in [1 .. N -> Nat]
  BY <1>8
<1>10. /\ FragmentSizes(inline, payload) \in Seq(Nat)
       /\ DOMAIN FragmentSizes(inline, payload) = 1 .. N
       /\ \A i \in 1 .. N : FragmentSizes(inline, payload)[i] = IF i <= q THEN inline ELSE r
  BY <1>8, <1>9
<1>11. N = (IF r = 0 THEN q ELSE q + 1)
  BY <1>5
<1>12. Split(inline, payload, q, r, N)
  BY <1>1, <1>4, <1>10, <1>11, Zenon DEF Split
<1> QED BY <1>12

\* The lengths of the records of a payload: a first part of full records.
LEMMA LengthsAre ==
  ASSUME NEW inline \in Nat \ {0}, NEW payload \in Nat, inline < payload
  PROVE  \E q \in Nat, r \in 0 .. inline - 1, N \in Nat :
           /\ q >= 1 /\ N = (IF r = 0 THEN q ELSE q + 1)
           /\ WireCells(inline, payload) =
                q * RecordCells(inline) + (IF r = 0 THEN 0 ELSE RecordCells(r))
           /\ Len(RecordLengths(inline, payload)) = N
           /\ \A i \in 1 .. N : RecordLengths(inline, payload)[i] =
                                  IF i <= q THEN RecordCells(inline) ELSE RecordCells(r)
<1>0. PICK q \in Nat, r \in 0 .. inline - 1, N \in Nat : Split(inline, payload, q, r, N)
  BY SizesAre
<1>1. /\ q = payload \div inline /\ r = payload % inline
      /\ q >= 1 /\ N = (IF r = 0 THEN q ELSE q + 1)
      /\ FragmentSizes(inline, payload) \in Seq(Nat)
      /\ DOMAIN FragmentSizes(inline, payload) = 1 .. N
      /\ \A i \in 1 .. N : FragmentSizes(inline, payload)[i] = IF i <= q THEN inline ELSE r
  BY <1>0 DEF Split
<1>9. RecordLengths(inline, payload) =
        [i \in 1 .. N |-> RecordCells(IF i <= q THEN inline ELSE r)]
  BY <1>1 DEF RecordLengths
<1>10. Len(RecordLengths(inline, payload)) = N
  <2> DEFINE l == [i \in 1 .. N |-> RecordCells(IF i <= q THEN inline ELSE r)]
  <2>1. l \in [1 .. N -> Nat]
    <3>1. \A i \in 1 .. N : RecordCells(IF i <= q THEN inline ELSE r) \in Nat
      BY RecordCellsGrow
    <3> QED BY <3>1
  <2>2. DOMAIN l = 1 .. N
    OBVIOUS
  <2> HIDE DEF l
  <2>3. Len(l) = N
    BY <2>1, <2>2
  <2> QED BY <1>9, <2>3 DEF l
<1>11. \A i \in 1 .. N : RecordLengths(inline, payload)[i] =
                           IF i <= q THEN RecordCells(inline) ELSE RecordCells(r)
  BY <1>9
<1>12. WireCells(inline, payload) =
         q * RecordCells(inline) + (IF r = 0 THEN 0 ELSE RecordCells(r))
  BY <1>1 DEF WireCells
<1> QED BY <1>1, <1>10, <1>11, <1>12

\* ChannelConfig::validate_capacity asks for enough: a ring of the capacity it
\* demands takes every message within the limit, in one batch, from any offset.
THEOREM CapacityRuleSuffices ==
  ASSUME NEW inline \in Nat \ {0}, NEW message \in Nat, inline < message,
         NEW capacity \in Nat, RequiredCapacity(inline, message) <= capacity,
         NEW payload \in 0 .. message, NEW offset \in 0 .. capacity - 1
  PROVE  PlannedCells(capacity, offset, RecordLengths(inline, payload)) <= capacity
<1>1. PICK longest \in Nat : longest = RecordCells(inline) /\ longest >= 3
  BY RecordCellsGrow
<1>2. PICK wire \in Nat : wire = WireCells(inline, message) /\ wire + longest - 1 <= capacity
  <2>1. WireCells(inline, message) \in Nat
    BY WireCellsGrow
  <2> QED BY <1>1, <2>1 DEF RequiredCapacity, BatchCells
<1>3. longest <= wire
  <2>1. PICK Q \in Nat, M \in 0 .. inline - 1, N \in Nat :
          /\ Q >= 1 /\ N = (IF M = 0 THEN Q ELSE Q + 1)
          /\ WireCells(inline, message) =
               Q * RecordCells(inline) + (IF M = 0 THEN 0 ELSE RecordCells(M))
          /\ Len(RecordLengths(inline, message)) = N
          /\ \A i \in 1 .. N : RecordLengths(inline, message)[i] =
                                 IF i <= Q THEN RecordCells(inline) ELSE RecordCells(M)
    BY LengthsAre, ZenonT(30)
  <2>a. wire = Q * longest + (IF M = 0 THEN 0 ELSE RecordCells(M))
    BY <1>1, <1>2, <2>1
  <2>2. RecordCells(M) \in Nat
    BY RecordCellsGrow
  <2>3. 1 * longest <= Q * longest /\ Q * longest \in Nat
    BY <2>1, Products
  <2>4. PICK whole \in Nat : whole = Q * longest /\ longest <= whole
    BY <2>3
  <2>5. wire = whole + (IF M = 0 THEN 0 ELSE RecordCells(M))
    BY <2>a, <2>4
  <2> QED BY <2>2, <2>4, <2>5
<1>4. CASE payload <= inline
  <2>1. PICK l \in Nat : l = RecordCells(payload) /\ 3 <= l /\ l <= longest
    BY <1>1, <1>4, RecordCellsGrow
  <2>2. RecordLengths(inline, payload) = <<l>>
    <3>1. FragmentSizes(inline, payload) = <<payload>>
      BY <1>4 DEF FragmentSizes
    <3> QED BY <2>1, <3>1 DEF RecordLengths
  <2> DEFINE sums == [i \in 0 .. 1 |-> IF i = 0 THEN 0 ELSE l]
  <2>3. sums \in [0 .. 1 -> Nat] /\ sums[0] = 0 /\ sums[1] = l
    OBVIOUS
  <2> HIDE DEF sums
  <2>a. Len(<<l>>) = 1 /\ <<l>>[1] = l
    OBVIOUS
  <2>4. PICK lengths : lengths = <<l>> /\ Len(lengths) = 1 /\ lengths[1] = l
    BY <2>a, Zenon
  <2>5. PICK N \in Nat : N = 1
    OBVIOUS
  <2>6. Len(lengths) = N /\ sums \in [0 .. N -> Nat] /\ sums[0] = 0 /\ longest > 1
    BY <1>1, <2>3, <2>4, <2>5
  <2>7. ASSUME NEW i \in 1 .. N
        PROVE  lengths[i] \in 1 .. longest /\ sums[i] = sums[i - 1] + lengths[i]
    <3>1. i = 1 /\ i - 1 = 0
      BY <2>5
    <3>2. sums[1] = sums[0] + lengths[1] /\ lengths[1] \in 1 .. longest
      BY <2>1, <2>3, <2>4
    <3> QED BY <3>1, <3>2
  <2>8. \A i \in 0 .. N : sums[i] + longest - 1 <= capacity
    BY <1>2, <1>3, <2>1, <2>3, <2>5
  <2>9. PlannedCells(capacity, offset, lengths) <= capacity
    BY <2>6, <2>7, <2>8, BatchPlanned
  <2> QED BY <2>2, <2>4, <2>9
<1>5. CASE inline < payload
  <2>1. PICK q \in Nat, r \in 0 .. inline - 1, N \in Nat :
          /\ q >= 1 /\ N = (IF r = 0 THEN q ELSE q + 1)
          /\ WireCells(inline, payload) =
               q * RecordCells(inline) + (IF r = 0 THEN 0 ELSE RecordCells(r))
          /\ Len(RecordLengths(inline, payload)) = N
          /\ \A i \in 1 .. N : RecordLengths(inline, payload)[i] =
                                 IF i <= q THEN RecordCells(inline) ELSE RecordCells(r)
    <3>1. payload \in Nat
      OBVIOUS
    <3> QED BY <1>5, <3>1, LengthsAre, ZenonT(30)
  <2>a. /\ WireCells(inline, payload) = q * longest + (IF r = 0 THEN 0 ELSE RecordCells(r))
        /\ \A i \in 1 .. N : RecordLengths(inline, payload)[i] =
                               IF i <= q THEN longest ELSE RecordCells(r)
    BY <1>1, <2>1
  <2>2. PICK rest \in Nat : rest = RecordCells(r) /\ 3 <= rest /\ rest <= longest
    BY <1>1, RecordCellsGrow
  <2>3. PICK lengths : lengths = RecordLengths(inline, payload)
    OBVIOUS
  <2>4. q * longest + (IF r = 0 THEN 0 ELSE rest) <= wire
    BY <1>2, <2>a, <2>2, WireCellsGrow
  <2> DEFINE sums == [i \in 0 .. N |-> IF i <= q THEN i * longest ELSE q * longest + rest]
  <2>5. \A i \in 0 .. N : i * longest \in Nat /\ q * longest \in Nat
                          /\ (i <= q => i * longest <= q * longest)
    BY Products
  <2>6. sums \in [0 .. N -> Nat]
    <3>1. q * longest + rest \in Nat
      BY Products
    <3> QED BY <2>5, <3>1
  <2>7. sums[0] = 0
    <3>1. 0 * longest = 0 /\ 0 <= q /\ 0 \in 0 .. N
      BY <1>1
    <3> QED BY <3>1
  <2>8. ASSUME NEW i \in 1 .. N
        PROVE  lengths[i] \in 1 .. longest /\ sums[i] = sums[i - 1] + lengths[i]
    <3>1. i \in 0 .. N /\ i - 1 \in 0 .. N
      OBVIOUS
    <3>2. CASE i <= q
      <4>1. lengths[i] = longest
        BY <2>a, <2>3, <3>2
      <4>2. sums[i] = i * longest /\ sums[i - 1] = (i - 1) * longest
        BY <3>1, <3>2
      <4> HIDE DEF sums
      <4>3. ((i - 1) + 1) * longest = (i - 1) * longest + longest /\ (i - 1) + 1 = i
        <5>1. i - 1 \in Nat
          OBVIOUS
        <5> QED BY <5>1, Products
      <4> QED BY <1>1, <4>1, <4>2, <4>3
    <3>3. CASE i = q + 1
      <4>1. lengths[i] = rest
        BY <2>a, <2>2, <2>3, <3>3
      <4>2. sums[i] = q * longest + rest /\ sums[i - 1] = q * longest
        BY <3>1, <3>3
      <4> HIDE DEF sums
      <4> QED BY <2>2, <4>1, <4>2
    <3> QED BY <2>1, <3>2, <3>3
  <2>9. ASSUME NEW i \in 0 .. N PROVE sums[i] + longest - 1 <= capacity
    <3>1. sums[i] <= wire
      <4>1. PICK whole \in Nat : whole = q * longest
        BY <2>5
      <4>2. CASE i <= q
        <5>1. sums[i] = i * longest
          BY <4>2
        <5>2. i * longest <= whole /\ i * longest \in Nat
          BY <2>5, <4>1, <4>2
        <5> HIDE DEF sums
        <5> QED BY <2>2, <2>4, <4>1, <5>1, <5>2
      <4>3. CASE ~(i <= q)
        <5>1. sums[i] = whole + rest /\ r # 0
          BY <2>1, <4>1, <4>3
        <5> HIDE DEF sums
        <5> QED BY <2>4, <4>1, <5>1
      <4> QED BY <4>2, <4>3
    <3>2. sums[i] \in Nat
      BY <2>6
    <3> HIDE DEF sums
    <3> QED BY <1>1, <1>2, <3>1, <3>2
  <2> HIDE DEF sums
  <2>10. longest > 1 /\ Len(lengths) = N
    BY <1>1, <2>1, <2>3
  <2> QED BY <2>3, <2>6, <2>7, <2>8, <2>9, <2>10, BatchPlanned
<1> QED BY <1>4, <1>5

-----------------------------------------------------------------------------
(* The inductive invariant.                                                *)

Mapped == given.mode = "mapped"
Envelopes == {"renderer", "peer"}

\* What the host hands out, deviations included: a form that decodes carries
\* what was meant, and regions that attach are the ones that were prepared.
DecodesMeant(g) ==
    /\ Decodes(g.wire) => Carried(g.wire.fields) = g.meant["peer"]
    /\ PlistDecodes(g.plist) => PlistCarried(g.plist) = g.meant["renderer"]

MeantAttaches(g, e, other) ==
    LET x == g.meant[e]
    IN EndpointAttaches(x.memory.config, x.memory.regions[e], x.memory.regions[other],
                        x.session, x.generation, e, other)

MeansPrepared(g, e, other) ==
    /\ g.meant[e].memory.config = g.config
    /\ MeantAttaches(g, e, other) =>
           g.meant[e].memory.regions = Prepared(g.config, Session, Generation)

Sound(g) ==
    /\ g.mode \in {"mapped", "process"}
    /\ g.config.inline \in Nat /\ g.config.message \in Nat
    /\ DecodesMeant(g)
    /\ g.mode = "mapped" => MeansPrepared(g, "renderer", "peer")
                            /\ MeansPrepared(g, "peer", "renderer")

Places == {"decode", "attach", "validate", "hello", "accept", "acknowledge"} \cup Ended

Shape ==
    /\ pc \in [Endpoints -> Places]
    /\ DOMAIN env = Endpoints /\ env = [e \in Endpoints |-> env[e]]
    /\ DOMAIN inbound = Endpoints /\ inbound = [e \in Endpoints |-> inbound[e]]
    /\ DOMAIN chosen = Endpoints /\ chosen = [e \in Endpoints |-> chosen[e]]

\* Which endpoint is where.
Roles ==
    \A e \in Endpoints :
        /\ pc[e] \in {"hello", "acknowledge"} => e = Initiator
        /\ pc[e] = "accept" => e = Acceptor
        /\ e = "coordinator" => pc[e] \notin {"decode", "attach", "validate"}
        /\ e \notin {Initiator, Acceptor} => pc[e] = "absent"

\* What an endpoint knows where it is.
Ready(e) ==
    /\ pc[e] # "decode"
    /\ e # "coordinator" => env[e] = given.meant[e]
    /\ Mapped => Attachable(e)

Informed ==
    \A e \in Endpoints :
        /\ e # "coordinator" => env[e] = Nothing \/ env[e] = given.meant[e]
        /\ pc[e] \in {"attach", "validate"} => env[e] = given.meant[e]
        /\ (pc[e] = "validate" /\ Mapped /\ e = "peer") => Attachable(e)
        /\ pc[e] \in {"hello", "accept", "acknowledge", "open"} => Ready(e)

\* The acceptor has taken the offer of the initiator.
Offer == Hello(InitiatorConfig)
Granted ==
    /\ Ready(Initiator) /\ Ready(Acceptor)
    /\ pc[Acceptor] \notin {"attach", "validate", "accept"}
    /\ Acceptable(AcceptorConfig, Offer)
    /\ chosen[Acceptor] = Selection(AcceptorConfig, Offer)

\* Each ring or stream holds one frame at most.
Offered ==
    inbound[Acceptor] # <<>> =>
        /\ pc[Initiator] \notin {"attach", "validate", "hello"} /\ Ready(Initiator)
        /\ inbound[Acceptor] = <<[key |-> Key(Initiator), frame |-> Offer]>>

Answered ==
    inbound[Initiator] # <<>> =>
        /\ Granted
        /\ inbound[Initiator] =
             <<[key |-> Key(Acceptor), frame |-> Ack(AcceptorConfig, chosen[Acceptor])]>>

Opened ==
    pc[Initiator] = "open" =>
        /\ Granted /\ chosen[Initiator] = chosen[Acceptor]
        /\ Acknowledges(InitiatorConfig, Ack(AcceptorConfig, chosen[Acceptor]))

EstablishInv ==
    Sound(given) /\ Shape /\ Roles /\ Informed /\ Offered /\ Answered /\ Opened

\* There are two endpoints, each the opposite of the other.
LEMMA TwoEnds ==
  ASSUME Sound(given)
  PROVE  /\ Initiator \in Endpoints /\ Acceptor \in Endpoints /\ Initiator # Acceptor
         /\ Other(Initiator) = Acceptor /\ Other(Acceptor) = Initiator
         /\ Mapped => Initiator = "renderer" /\ Acceptor = "peer"
         /\ ~Mapped => Initiator = "peer" /\ Acceptor = "coordinator"
BY DEF Sound, Initiator, Acceptor, Other, Endpoints, Mapped

\* What depends on the initiator's envelope alone.
LEMMA SameOffer ==
  ASSUME given' = given, env'[Initiator] = env[Initiator]
  PROVE  /\ Initiator' = Initiator /\ Acceptor' = Acceptor /\ Mapped' = Mapped
         /\ InitiatorConfig' = InitiatorConfig /\ Offer' = Offer
         /\ Key(Initiator)' = Key(Initiator)
<1>1. Initiator' = Initiator /\ Acceptor' = Acceptor /\ Mapped' = Mapped /\ Required' = Required
  BY DEF Initiator, Acceptor, Mapped, Required
<1>2. ProofOf(Initiator)' = ProofOf(Initiator) /\ Key(Initiator)' = Key(Initiator)
  BY <1>1 DEF ProofOf, Key
<1>3. InitiatorConfig' = InitiatorConfig
  BY <1>1, <1>2 DEF InitiatorConfig
<1> QED BY <1>1, <1>2, <1>3 DEF Offer

LEMMA SameEnvelopes ==
  ASSUME given' = given, env' = env
  PROVE  /\ Initiator' = Initiator /\ Acceptor' = Acceptor /\ Mapped' = Mapped
         /\ AcceptorConfig' = AcceptorConfig /\ Offer' = Offer
         /\ InitiatorConfig' = InitiatorConfig
         /\ \A e : Key(e)' = Key(e) /\ Other(e)' = Other(e) /\ Attachable(e)' = Attachable(e)
<1>1. /\ Initiator' = Initiator /\ Acceptor' = Acceptor /\ Mapped' = Mapped
      /\ InitiatorConfig' = InitiatorConfig /\ Offer' = Offer
  BY SameOffer
<1>2. \A e : ProofOf(e)' = ProofOf(e) /\ Key(e)' = Key(e) /\ Other(e)' = Other(e)
  BY <1>1 DEF ProofOf, Key, Other
<1>3. \A e : Attachable(e)' = Attachable(e)
  BY <1>2 DEF Attachable
<1>4. AcceptorConfig' = AcceptorConfig
  BY <1>1, <1>2 DEF AcceptorConfig
<1> QED BY <1>1, <1>2, <1>3, <1>4

\* An endpoint moves on, or ends, and nothing else changes.
LEMMA Moves ==
  ASSUME EstablishInv, NEW e \in Endpoints, NEW p \in Places \ {"open", "decode", "absent"},
         given' = given, env' = env, inbound' = inbound, chosen' = chosen,
         pc' = [pc EXCEPT ![e] = p],
         e \in {Initiator, Acceptor},
         p \in {"hello", "acknowledge"} => e = Initiator,
         p = "accept" => e = Acceptor,
         p \in {"attach", "validate"} => e # "coordinator",
         p \notin {"failed", "dead"} => (e # "coordinator" => env[e] = given.meant[e]),
         (p = "validate" /\ Mapped /\ e = "peer") => Attachable(e),
         (p \in {"hello", "accept", "acknowledge"} /\ Mapped) => Attachable(e),
         p \in {"attach", "validate", "hello", "accept"} =>
            pc[e] \in {"decode", "attach", "validate"},
         pc[e] # "open"
  PROVE  EstablishInv'
<1>1. /\ Sound(given) /\ Shape /\ Roles /\ Informed /\ Offered /\ Answered /\ Opened
  BY DEF EstablishInv
<1>2. /\ Initiator' = Initiator /\ Acceptor' = Acceptor /\ Mapped' = Mapped
      /\ AcceptorConfig' = AcceptorConfig /\ Offer' = Offer
      /\ InitiatorConfig' = InitiatorConfig
      /\ \A x : Key(x)' = Key(x) /\ Other(x)' = Other(x) /\ Attachable(x)' = Attachable(x)
  BY SameEnvelopes
<1>3. /\ pc' \in [Endpoints -> Places] /\ pc'[e] = p
      /\ \A x \in Endpoints \ {e} : pc'[x] = pc[x]
  BY <1>1 DEF Shape
<1>4. \A x \in Endpoints : Ready(x) => Ready(x)'
  BY <1>2, <1>3 DEF Ready
<1>5. Granted => Granted'
  <2> SUFFICES ASSUME Granted PROVE Granted'
    OBVIOUS
  <2>1. Ready(Initiator)' /\ Ready(Acceptor)'
    <3>1. Ready(Initiator) /\ Ready(Acceptor)
      BY DEF Granted
    <3> QED BY <1>1, <1>2, <1>4, <3>1, TwoEnds
  <2>2. pc'[Acceptor] \notin {"attach", "validate", "accept"}
    BY <1>1, <1>3, TwoEnds DEF Granted, Ready
  <2> QED BY <1>2, <2>1, <2>2 DEF Granted
<1>6. Sound(given)' /\ Shape'
  BY <1>1, <1>3 DEF Shape, Sound, DecodesMeant, MeansPrepared, MeantAttaches
<1>7. Roles'
  BY <1>1, <1>2, <1>3 DEF Roles
<1>8. Informed'
  BY <1>1, <1>2, <1>3, <1>4 DEF Informed, Ready
<1>9. Offered'
  BY <1>1, <1>2, <1>3, <1>4, TwoEnds DEF Offered, Ready
<1>10. Answered'
  BY <1>1, <1>2, <1>5 DEF Answered
<1>11. Opened'
  BY <1>1, <1>2, <1>3, <1>5, TwoEnds DEF Opened
<1> QED BY <1>6, <1>7, <1>8, <1>9, <1>10, <1>11 DEF EstablishInv

\* An endpoint has decoded the envelope meant for it.
LEMMA Decoded ==
  ASSUME EstablishInv, NEW e \in Envelopes, NEW p \in {"attach", "validate"},
         pc[e] = "decode",
         given' = given, inbound' = inbound, chosen' = chosen,
         env' = [env EXCEPT ![e] = given.meant[e]],
         pc' = [pc EXCEPT ![e] = p],
         ~(p = "validate" /\ Mapped /\ e = "peer")
  PROVE  EstablishInv'
<1>1. /\ Sound(given) /\ Shape /\ Roles /\ Informed /\ Offered /\ Answered /\ Opened
  BY DEF EstablishInv
<1>2. /\ e \in Endpoints /\ e # "coordinator" /\ e \in {Initiator, Acceptor}
      /\ p \in Places
  BY <1>1 DEF Envelopes, Endpoints, Roles, Places
<1>3. /\ pc' \in [Endpoints -> Places] /\ pc'[e] = p
      /\ \A x \in Endpoints \ {e} : pc'[x] = pc[x]
  BY <1>1, <1>2 DEF Shape
<1>4. /\ env' = [x \in Endpoints |-> env'[x]] /\ env'[e] = given.meant[e]
      /\ DOMAIN env' = Endpoints
      /\ \A x \in Endpoints \ {e} : env'[x] = env[x]
  BY <1>1, <1>2 DEF Shape
<1>5. Initiator' = Initiator /\ Acceptor' = Acceptor /\ Mapped' = Mapped
  BY DEF Initiator, Acceptor, Mapped
<1>6. \A x \in Endpoints \ {e} : Attachable(x)' = Attachable(x)
  BY <1>4, <1>5 DEF Attachable, Other
<1>7. ~Granted /\ inbound[Initiator] = <<>> /\ pc[Initiator] # "open"
  <2>1. ~Granted
    BY <1>2 DEF Granted, Ready
  <2> QED BY <1>1, <2>1 DEF Answered, Opened
<1>8. inbound'[Initiator] = <<>> /\ pc'[Initiator] # "open"
  BY <1>1, <1>3, <1>7, TwoEnds
<1>9. Sound(given)' /\ Shape'
  BY <1>1, <1>3, <1>4 DEF Shape, Sound, DecodesMeant, MeansPrepared, MeantAttaches
<1>10. Roles'
  BY <1>1, <1>2, <1>3, <1>5 DEF Roles
<1>11. Informed'
  <2> SUFFICES ASSUME NEW x \in Endpoints
               PROVE  /\ x # "coordinator" => env'[x] = Nothing \/ env'[x] = given'.meant[x]
                      /\ pc'[x] \in {"attach", "validate"} => env'[x] = given'.meant[x]
                      /\ (pc'[x] = "validate" /\ Mapped' /\ x = "peer") => Attachable(x)'
                      /\ pc'[x] \in {"hello", "accept", "acknowledge", "open"} => Ready(x)'
    BY DEF Informed, Nothing
  <2>1. CASE x = e
    BY <1>3, <1>4, <1>5, <2>1
  <2>2. CASE x # e
    BY <1>1, <1>3, <1>4, <1>5, <1>6, <2>2 DEF Informed, Ready
  <2> QED BY <2>1, <2>2
<1>12. Offered'
  <2> SUFFICES ASSUME inbound'[Acceptor] # <<>>
               PROVE  /\ pc'[Initiator] \notin {"attach", "validate", "hello"}
                      /\ Ready(Initiator)'
                      /\ inbound'[Acceptor] =
                           <<[key |-> Key(Initiator)', frame |-> Offer']>>
    BY <1>5 DEF Offered
  <2>1. /\ pc[Initiator] \notin {"attach", "validate", "hello"} /\ Ready(Initiator)
        /\ inbound[Acceptor] = <<[key |-> Key(Initiator), frame |-> Offer]>>
    BY <1>1 DEF Offered
  <2>2. e # Initiator
    BY <2>1 DEF Ready
  <2>3. Initiator \in Endpoints \ {e}
    BY <1>1, <2>2, TwoEnds
  <2>4. env'[Initiator] = env[Initiator] /\ pc'[Initiator] = pc[Initiator]
    BY <1>3, <1>4, <2>3
  <2>5. Offer' = Offer /\ Key(Initiator)' = Key(Initiator)
    BY <2>4, SameOffer
  <2>6. Ready(Initiator)'
    BY <1>5, <1>6, <2>1, <2>3, <2>4 DEF Ready
  <2> QED BY <2>1, <2>4, <2>5, <2>6
<1>13. Answered' /\ Opened'
  BY <1>5, <1>8 DEF Answered, Opened
<1> QED BY <1>9, <1>10, <1>11, <1>12, <1>13 DEF EstablishInv

\* A sequence of one.
LEMMA OneFrame ==
  ASSUME NEW m
  PROVE  /\ <<m>> # <<>> /\ Head(<<m>>) = m /\ Tail(<<m>>) = <<>>
         /\ Append(<<>>, m) = <<m>>
<1>1. <<>> \in Seq({m}) /\ <<m>> \in Seq({m})
  OBVIOUS
<1> QED BY <1>1

\* The handshake steps change pc, inbound and chosen only.
LEMMA HelloStep ==
  ASSUME EstablishInv, NEW e \in Endpoints, SendHello(e)
  PROVE  EstablishInv'
<1>1. /\ Sound(given) /\ Shape /\ Roles /\ Informed /\ Offered /\ Answered /\ Opened
  BY DEF EstablishInv
<1>2. /\ pc[e] = "hello" /\ given' = given /\ env' = env /\ chosen' = chosen
      /\ inbound' = [inbound EXCEPT ![Other(e)] =
                        Append(@, [key |-> Key(e), frame |-> Offer])]
      /\ \E p \in {"acknowledge", "failed"} : pc' = [pc EXCEPT ![e] = p]
  BY DEF SendHello, Put, Becomes, Fails, Offer
<1>3. PICK p \in {"acknowledge", "failed"} : pc' = [pc EXCEPT ![e] = p]
  BY <1>2
<1>4. e = Initiator /\ Other(e) = Acceptor /\ Initiator # Acceptor /\ Acceptor \in Endpoints
  BY <1>1, <1>2, TwoEnds DEF Roles
<1>5. /\ Initiator' = Initiator /\ Acceptor' = Acceptor /\ Mapped' = Mapped
      /\ AcceptorConfig' = AcceptorConfig /\ Offer' = Offer
      /\ InitiatorConfig' = InitiatorConfig
      /\ \A x : Key(x)' = Key(x) /\ Other(x)' = Other(x) /\ Attachable(x)' = Attachable(x)
  BY <1>2, SameEnvelopes
<1>6. /\ pc' \in [Endpoints -> Places] /\ pc'[e] = p
      /\ \A x \in Endpoints \ {e} : pc'[x] = pc[x]
  BY <1>1, <1>3 DEF Shape, Places, Ended
<1>7. \A x \in Endpoints : Ready(x) => Ready(x)'
  BY <1>2, <1>5, <1>6 DEF Ready
<1>8. Ready(Initiator) /\ Ready(Initiator)'
  <2>1. Ready(e)
    BY <1>1, <1>2 DEF Informed
  <2> QED BY <1>4, <1>5, <1>7, <2>1
<1>9. inbound[Acceptor] = <<>>
  BY <1>1, <1>2, <1>4 DEF Offered
<1>10. /\ inbound'[Acceptor] = <<[key |-> Key(Initiator), frame |-> Offer]>>
       /\ inbound'[Initiator] = inbound[Initiator]
       /\ inbound' = [x \in Endpoints |-> inbound'[x]] /\ DOMAIN inbound' = Endpoints
  <2>1. inbound'[Acceptor] = Append(inbound[Acceptor], [key |-> Key(Initiator), frame |-> Offer])
    BY <1>1, <1>2, <1>4 DEF Shape
  <2>2. inbound'[Acceptor] = <<[key |-> Key(Initiator), frame |-> Offer]>>
    BY <1>9, <2>1, OneFrame
  <2> QED BY <1>1, <1>2, <1>4, <2>2, TwoEnds DEF Shape
<1>11. Granted => Granted'
  BY <1>1, <1>2, <1>4, <1>5, <1>6, <1>7, TwoEnds DEF Granted
<1>12. Sound(given)' /\ Shape'
  BY <1>1, <1>2, <1>6, <1>10 DEF Shape, Sound, DecodesMeant, MeansPrepared, MeantAttaches
<1>13. Roles'
  BY <1>1, <1>4, <1>5, <1>6 DEF Roles
<1>14. Informed'
  BY <1>1, <1>2, <1>4, <1>5, <1>6, <1>7, <1>8 DEF Informed
<1>15. Offered'
  BY <1>4, <1>5, <1>6, <1>8, <1>10 DEF Offered
<1>16. Answered'
  BY <1>1, <1>2, <1>5, <1>10, <1>11 DEF Answered
<1>17. Opened'
  BY <1>4, <1>5, <1>6 DEF Opened
<1> QED BY <1>12, <1>13, <1>14, <1>15, <1>16, <1>17 DEF EstablishInv

LEMMA AcceptStep ==
  ASSUME EstablishInv, NEW e \in Endpoints, Accept(e)
  PROVE  EstablishInv'
<1>1. /\ Sound(given) /\ Shape /\ Roles /\ Informed /\ Offered /\ Answered /\ Opened
  BY DEF EstablishInv
<1>2. /\ pc[e] = "accept" /\ inbound[e] # <<>> /\ given' = given /\ env' = env
  BY DEF Accept
<1>4. /\ e = Acceptor /\ Other(e) = Initiator /\ Initiator # Acceptor
      /\ Acceptor \in Endpoints /\ Initiator \in Endpoints
  BY <1>1, <1>2, TwoEnds DEF Roles
<1>5. /\ Initiator' = Initiator /\ Acceptor' = Acceptor /\ Mapped' = Mapped
      /\ AcceptorConfig' = AcceptorConfig /\ Offer' = Offer
      /\ InitiatorConfig' = InitiatorConfig
      /\ \A x : Key(x)' = Key(x) /\ Other(x)' = Other(x) /\ Attachable(x)' = Attachable(x)
  BY <1>2, SameEnvelopes
<1>6. PICK m : /\ m.frame = Offer
               /\ inbound[e] = <<m>> /\ Head(inbound[e]) = m /\ Tail(inbound[e]) = <<>>
  <2>1. PICK m : m = [key |-> Key(Initiator), frame |-> Offer]
    OBVIOUS
  <2>2. m.frame = Offer
    BY <2>1
  <2>3. inbound[e] = <<m>>
    BY <1>1, <1>2, <1>4, <2>1 DEF Offered
  <2>4. Head(inbound[e]) = m /\ Tail(inbound[e]) = <<>>
    BY <2>3, OneFrame
  <2> QED BY <2>2, <2>3, <2>4
<1>7. Ready(Initiator) /\ Ready(Acceptor)
  BY <1>1, <1>2, <1>4 DEF Offered, Informed
<1>8. ~Granted /\ inbound[Initiator] = <<>> /\ pc[Initiator] # "open"
  <2>1. ~Granted
    BY <1>2, <1>4 DEF Granted
  <2> QED BY <1>1, <2>1 DEF Answered, Opened
<1> DEFINE s == Selection(AcceptorConfig, Offer)
<1>9. \/ /\ Acceptable(AcceptorConfig, Offer)
         /\ inbound' = [inbound EXCEPT ![e] = <<>>, ![Initiator] =
                          Append(@, [key |-> Key(e), frame |-> Ack(AcceptorConfig, s)])]
         /\ chosen' = [chosen EXCEPT ![e] = s]
         /\ \E p \in {"open", "failed"} : pc' = [pc EXCEPT ![e] = p]
      \/ /\ inbound' = [inbound EXCEPT ![e] = <<>>] /\ chosen' = chosen
         /\ pc' = [pc EXCEPT ![e] = "failed"]
  BY <1>4, <1>6 DEF Accept, Becomes, Fails
<1> HIDE DEF s
<1>10. PICK p \in {"open", "failed"} : pc' = [pc EXCEPT ![e] = p]
  BY <1>9
<1>11. /\ pc' \in [Endpoints -> Places] /\ pc'[e] = p
       /\ \A x \in Endpoints \ {e} : pc'[x] = pc[x]
  BY <1>1, <1>10 DEF Shape, Places, Ended
<1>12. \A x \in Endpoints : Ready(x) => Ready(x)'
  BY <1>2, <1>5, <1>11 DEF Ready
<1>13. /\ DOMAIN inbound' = Endpoints /\ inbound' = [x \in Endpoints |-> inbound'[x]]
       /\ DOMAIN chosen' = Endpoints /\ chosen' = [x \in Endpoints |-> chosen'[x]]
       /\ inbound'[Acceptor] = <<>> /\ chosen'[Initiator] = chosen[Initiator]
  BY <1>1, <1>4, <1>9 DEF Shape
<1>14. \/ inbound'[Initiator] = <<>>
       \/ /\ Acceptable(AcceptorConfig, Offer) /\ chosen'[Acceptor] = s
          /\ inbound'[Initiator] = <<[key |-> Key(Acceptor), frame |-> Ack(AcceptorConfig, s)]>>
  <2>1. CASE /\ Acceptable(AcceptorConfig, Offer)
             /\ inbound' = [inbound EXCEPT ![e] = <<>>, ![Initiator] =
                              Append(@, [key |-> Key(e), frame |-> Ack(AcceptorConfig, s)])]
             /\ chosen' = [chosen EXCEPT ![e] = s]
    <3>1. chosen'[Acceptor] = s
      BY <1>1, <1>4, <2>1 DEF Shape
    <3>2. inbound'[Initiator] =
            Append(inbound[Initiator], [key |-> Key(e), frame |-> Ack(AcceptorConfig, s)])
      BY <1>1, <1>4, <2>1 DEF Shape
    <3>3. inbound'[Initiator] = <<[key |-> Key(Acceptor), frame |-> Ack(AcceptorConfig, s)]>>
      BY <1>4, <1>8, <3>2, OneFrame
    <3> QED BY <2>1, <3>1, <3>3
  <2>2. CASE inbound' = [inbound EXCEPT ![e] = <<>>]
    BY <1>1, <1>4, <1>8, <2>2 DEF Shape
  <2> QED BY <1>9, <2>1, <2>2
<1>15. Sound(given)' /\ Shape'
  BY <1>1, <1>2, <1>11, <1>13 DEF Shape, Sound, DecodesMeant, MeansPrepared, MeantAttaches
<1>16. Roles'
  BY <1>1, <1>4, <1>5, <1>11 DEF Roles
<1>17. Informed'
  BY <1>1, <1>2, <1>4, <1>5, <1>7, <1>11, <1>12 DEF Informed
<1>18. Offered'
  BY <1>5, <1>13 DEF Offered
<1>19. Answered'
  <2> SUFFICES ASSUME inbound'[Initiator] # <<>>
               PROVE  /\ Granted'
                      /\ inbound'[Initiator] =
                           <<[key |-> Key(Acceptor)',
                              frame |-> Ack(AcceptorConfig', chosen'[Acceptor])]>>
    BY <1>5 DEF Answered
  <2>1. Ready(Initiator)' /\ Ready(Acceptor)'
    BY <1>4, <1>5, <1>7, <1>12
  <2> QED BY <1>4, <1>5, <1>11, <1>14, <2>1 DEF Granted, s
<1>20. Opened'
  BY <1>4, <1>5, <1>8, <1>11 DEF Opened
<1> QED BY <1>15, <1>16, <1>17, <1>18, <1>19, <1>20 DEF EstablishInv

LEMMA AcknowledgeStep ==
  ASSUME EstablishInv, NEW e \in Endpoints, Acknowledge(e)
  PROVE  EstablishInv'
<1>1. /\ Sound(given) /\ Shape /\ Roles /\ Informed /\ Offered /\ Answered /\ Opened
  BY DEF EstablishInv
<1>2. /\ pc[e] = "acknowledge" /\ inbound[e] # <<>> /\ given' = given /\ env' = env
      /\ inbound' = [inbound EXCEPT ![e] = Tail(@)]
  BY DEF Acknowledge
<1>4. /\ e = Initiator /\ Initiator # Acceptor
      /\ Acceptor \in Endpoints /\ Initiator \in Endpoints
  BY <1>1, <1>2, TwoEnds DEF Roles
<1>5. /\ Initiator' = Initiator /\ Acceptor' = Acceptor /\ Mapped' = Mapped
      /\ AcceptorConfig' = AcceptorConfig /\ Offer' = Offer
      /\ InitiatorConfig' = InitiatorConfig
      /\ \A x : Key(x)' = Key(x) /\ Other(x)' = Other(x) /\ Attachable(x)' = Attachable(x)
  BY <1>2, SameEnvelopes
<1>6. PICK m : /\ m.frame = Ack(AcceptorConfig, chosen[Acceptor])
               /\ inbound[e] = <<m>> /\ Head(inbound[e]) = m /\ Tail(inbound[e]) = <<>>
  <2>1. PICK m : m = [key |-> Key(Acceptor), frame |-> Ack(AcceptorConfig, chosen[Acceptor])]
    OBVIOUS
  <2>2. m.frame = Ack(AcceptorConfig, chosen[Acceptor])
    BY <2>1
  <2>3. inbound[e] = <<m>>
    BY <1>1, <1>2, <1>4, <2>1 DEF Answered
  <2>4. Head(inbound[e]) = m /\ Tail(inbound[e]) = <<>>
    BY <2>3, OneFrame
  <2> QED BY <2>2, <2>3, <2>4
<1>7. Granted
  BY <1>1, <1>2, <1>4 DEF Answered
<1>8. m.frame.selection = chosen[Acceptor]
  BY <1>6 DEF Ack
<1>9. \/ /\ Acknowledges(InitiatorConfig, m.frame) /\ pc' = [pc EXCEPT ![e] = "open"]
         /\ chosen' = [chosen EXCEPT ![e] = m.frame.selection]
      \/ pc' = [pc EXCEPT ![e] = "failed"] /\ chosen' = chosen
  BY <1>6 DEF Acknowledge, Becomes, Fails
<1>10. PICK p \in {"open", "failed"} : pc' = [pc EXCEPT ![e] = p]
  BY <1>9
<1>11. /\ pc' \in [Endpoints -> Places] /\ pc'[e] = p
       /\ \A x \in Endpoints \ {e} : pc'[x] = pc[x]
  BY <1>1, <1>10 DEF Shape, Places, Ended
<1>12. \A x \in Endpoints : Ready(x) => Ready(x)'
  BY <1>2, <1>5, <1>11 DEF Ready
<1>13. /\ DOMAIN inbound' = Endpoints /\ inbound' = [x \in Endpoints |-> inbound'[x]]
       /\ DOMAIN chosen' = Endpoints /\ chosen' = [x \in Endpoints |-> chosen'[x]]
       /\ inbound'[Initiator] = <<>> /\ inbound'[Acceptor] = inbound[Acceptor]
       /\ chosen'[Acceptor] = chosen[Acceptor]
  BY <1>1, <1>2, <1>4, <1>6, <1>9 DEF Shape
<1>14. Granted'
  BY <1>4, <1>5, <1>7, <1>11, <1>12, <1>13 DEF Granted
<1>15. Sound(given)' /\ Shape'
  BY <1>1, <1>2, <1>11, <1>13 DEF Shape, Sound, DecodesMeant, MeansPrepared, MeantAttaches
<1>16. Roles'
  BY <1>1, <1>4, <1>5, <1>11 DEF Roles
<1>17. Informed'
  <2>1. Ready(Initiator)'
    BY <1>5, <1>14 DEF Granted
  <2> QED BY <1>1, <1>2, <1>4, <1>5, <1>11, <1>12, <2>1 DEF Informed
<1>18. Offered'
  BY <1>1, <1>4, <1>5, <1>11, <1>12, <1>13 DEF Offered
<1>19. Answered'
  BY <1>5, <1>13 DEF Answered
<1>20. Opened'
  <2>1. pc'[Initiator] = "open" =>
          /\ chosen'[Initiator] = chosen[Acceptor]
          /\ Acknowledges(InitiatorConfig, Ack(AcceptorConfig, chosen[Acceptor]))
    <3>1. CASE /\ Acknowledges(InitiatorConfig, m.frame)
               /\ chosen' = [chosen EXCEPT ![e] = m.frame.selection]
      <4>1. chosen'[e] = m.frame.selection
        BY <1>1, <3>1 DEF Shape
      <4> QED BY <1>4, <1>6, <1>8, <3>1, <4>1
    <3>2. CASE pc' = [pc EXCEPT ![e] = "failed"]
      BY <1>1, <1>4, <3>2 DEF Shape
    <3> QED BY <1>9, <3>1, <3>2
  <2> QED BY <1>5, <1>13, <1>14, <2>1 DEF Opened
<1> QED BY <1>15, <1>16, <1>17, <1>18, <1>19, <1>20 DEF EstablishInv

LEMMA DecodeStep ==
  ASSUME EstablishInv, PeerConsumes \/ RendererDecodes
  PROVE  EstablishInv'
<1>1. /\ Sound(given) /\ Shape /\ Roles
  BY DEF EstablishInv
<1>2. CASE PeerConsumes
  <2>1. /\ pc["peer"] = "decode" /\ given' = given /\ inbound' = inbound /\ chosen' = chosen
        /\ "peer" \in Endpoints /\ "peer" \in Envelopes
    BY <1>2 DEF PeerConsumes, Endpoints, Envelopes
  <2>2. CASE /\ Decodes(given.wire)
             /\ env' = [env EXCEPT !["peer"] = Carried(given.wire.fields)]
             /\ Becomes("peer", IF given.mode = "mapped" THEN "attach" ELSE "validate")
    <3>1. env' = [env EXCEPT !["peer"] = given.meant["peer"]]
      BY <1>1, <2>2 DEF Sound, DecodesMeant
    <3>2. PICK p \in {"attach", "validate"} :
            pc' = [pc EXCEPT !["peer"] = p] /\ ~(p = "validate" /\ Mapped)
      BY <2>2 DEF Becomes, Mapped
    <3> QED BY <2>1, <3>1, <3>2, Decoded
  <2>3. CASE Fails("peer") /\ UNCHANGED env
    <3>1. "peer" \in {Initiator, Acceptor}
      BY <1>1, <2>1 DEF Roles
    <3>2. "failed" \in Places \ {"open", "decode", "absent"}
      BY DEF Places, Ended
    <3> QED BY <2>1, <2>3, <3>1, <3>2, Moves DEF Fails, Becomes
  <2> QED BY <1>2, <2>2, <2>3 DEF PeerConsumes
<1>3. CASE RendererDecodes
  <2>1. /\ pc["renderer"] = "decode" /\ given' = given /\ inbound' = inbound
        /\ chosen' = chosen /\ "renderer" \in Endpoints /\ "renderer" \in Envelopes
    BY <1>3 DEF RendererDecodes, Endpoints, Envelopes
  <2>2. CASE /\ PlistDecodes(given.plist)
             /\ env' = [env EXCEPT !["renderer"] = PlistCarried(given.plist)]
             /\ Becomes("renderer", "validate")
    <3>1. env' = [env EXCEPT !["renderer"] = given.meant["renderer"]]
      BY <1>1, <2>2 DEF Sound, DecodesMeant
    <3> QED BY <2>1, <2>2, <3>1, Decoded DEF Becomes
  <2>3. CASE Fails("renderer") /\ UNCHANGED env
    <3>1. "renderer" \in {Initiator, Acceptor}
      BY <1>1, <2>1 DEF Roles
    <3>2. "failed" \in Places \ {"open", "decode", "absent"}
      BY DEF Places, Ended
    <3> QED BY <2>1, <2>3, <3>1, <3>2, Moves DEF Fails, Becomes
  <2> QED BY <1>3, <2>2, <2>3 DEF RendererDecodes
<1> QED BY <1>2, <1>3

LEMMA LocalStep ==
  ASSUME EstablishInv, NEW e \in Endpoints,
         Attach(e) \/ Validate(e) \/ HelloRefused(e) \/ StreamEnds(e) \/ Dies(e)
  PROVE  EstablishInv'
<1>1. /\ Sound(given) /\ Shape /\ Roles /\ Informed
  BY DEF EstablishInv
<1>2. /\ given' = given /\ env' = env /\ inbound' = inbound /\ chosen' = chosen
  BY DEF Attach, Validate, HelloRefused, StreamEnds, Dies
<1>3. pc[e] \notin Ended
  BY DEF Attach, Validate, HelloRefused, StreamEnds, Dies, Ended
<1>4. e \in {Initiator, Acceptor}
  BY <1>1, <1>3 DEF Roles, Ended
<1>5. ASSUME NEW p \in {"failed", "dead"}, pc' = [pc EXCEPT ![e] = p] PROVE EstablishInv'
  <2>1. p \in Places \ {"open", "decode", "absent"} /\ pc[e] # "open"
    BY <1>3 DEF Places, Ended
  <2> QED BY <1>2, <1>4, <1>5, <2>1, Moves
<1>6. CASE Attach(e) /\ Attachable(e)
  <2>1. pc[e] = "attach" /\ e # "coordinator" /\ env[e] = given.meant[e]
    BY <1>1, <1>6 DEF Attach, Roles, Informed
  <2>2. PICK p \in {"validate", "hello"} :
          pc' = [pc EXCEPT ![e] = p] /\ (p = "validate" <=> e = "peer")
    BY <1>6 DEF Attach, Becomes
  <2>3. p = "hello" => e = Initiator
    BY <1>4, <2>1, <2>2 DEF Initiator, Acceptor
  <2>4. p \in Places \ {"open", "decode", "absent"}
    BY DEF Places
  <2> QED BY <1>2, <1>4, <1>6, <2>1, <2>2, <2>3, <2>4, Moves
<1>7. CASE Validate(e) /\ ~Fails(e)
  <2>1. pc[e] = "validate" /\ e # "coordinator" /\ env[e] = given.meant[e]
    BY <1>1, <1>7 DEF Validate, Roles, Informed
  <2>2. pc' = [pc EXCEPT ![e] = IF e = "renderer" THEN "attach"
                                ELSE IF e = Initiator THEN "hello" ELSE "accept"]
    BY <1>7 DEF Validate, Becomes
  <2>3. PICK p \in {"attach", "hello", "accept"} :
          /\ pc' = [pc EXCEPT ![e] = p]
          /\ p = IF e = "renderer" THEN "attach"
                 ELSE IF e = Initiator THEN "hello" ELSE "accept"
    BY <2>2
  <2>4. /\ p = "hello" => e = Initiator
        /\ p = "accept" => e = Acceptor
        /\ p # "attach" => e = "peer"
    BY <1>4, <2>1, <2>3 DEF Endpoints
  <2>5. (p # "attach" /\ Mapped) => Attachable(e)
    BY <1>1, <2>1, <2>4 DEF Informed
  <2>6. p \in Places \ {"open", "decode", "absent"}
    BY DEF Places
  <2> QED BY <1>2, <1>4, <2>1, <2>3, <2>4, <2>5, <2>6, Moves
<1>8. CASE Fails(e) \/ Becomes(e, "dead")
  BY <1>5, <1>8 DEF Fails, Becomes
<1> QED BY <1>6, <1>7, <1>8 DEF Attach, HelloRefused, StreamEnds, Dies

LEMMA QuietStep ==
  ASSUME EstablishInv, UNCHANGED <<given, pc, env, inbound, chosen>>
  PROVE  EstablishInv'
<1>1. /\ Sound(given) /\ Shape /\ Roles /\ Informed /\ Offered /\ Answered /\ Opened
  BY DEF EstablishInv
<1>2. /\ Initiator' = Initiator /\ Acceptor' = Acceptor /\ Mapped' = Mapped
      /\ AcceptorConfig' = AcceptorConfig /\ Offer' = Offer
      /\ InitiatorConfig' = InitiatorConfig
      /\ \A x : Key(x)' = Key(x) /\ Other(x)' = Other(x) /\ Attachable(x)' = Attachable(x)
  BY SameEnvelopes
<1>3. \A x \in Endpoints : Ready(x)' = Ready(x)
  BY <1>2 DEF Ready
<1>4. Granted' = Granted
  BY <1>1, <1>2, <1>3, TwoEnds DEF Granted
<1>5. Sound(given)' /\ Shape' /\ Roles'
  BY <1>1, <1>2 DEF Shape, Roles, Sound, DecodesMeant, MeansPrepared, MeantAttaches
<1>6. Informed'
  BY <1>1, <1>2, <1>3 DEF Informed
<1>7. Offered' /\ Answered' /\ Opened'
  BY <1>1, <1>2, <1>3, <1>4, TwoEnds DEF Offered, Answered, Opened
<1> QED BY <1>5, <1>6, <1>7 DEF EstablishInv

LEMMA EstablishStep ==
  ASSUME EstablishInv, [Next]_vars
  PROVE  EstablishInv'
<1>1. CASE WritePipe \/ HostDies \/ UNCHANGED vars
  BY <1>1, QuietStep DEF WritePipe, HostDies, vars
<1>2. CASE PeerConsumes \/ RendererDecodes
  BY <1>2, DecodeStep
<1>3. ASSUME NEW e \in Endpoints, Step(e) \/ Dies(e) PROVE EstablishInv'
  BY <1>3, LocalStep, HelloStep, AcceptStep, AcknowledgeStep DEF Step
<1> QED BY <1>1, <1>2, <1>3 DEF Next

-----------------------------------------------------------------------------
(* What the invariant says of the endpoints.                               *)

LEMMA AttachedAsPrepared ==
  ASSUME Sound(given), Mapped, NEW e \in Envelopes, Ready(e)
  PROVE  /\ env[e].memory.config = given.config
         /\ env[e].memory.regions = Prepared(given.config, Session, Generation)
         /\ \E facing : EndpointAttaches(given.config, env[e].memory.regions[e], facing,
                                           env[e].session, env[e].generation, e, Other(e))
<1>1. PICK other : other = Other(e) /\ other = IF e = "renderer" THEN "peer" ELSE "renderer"
  BY TwoEnds DEF Envelopes, Other
<1>2. env[e] = given.meant[e] /\ Attachable(e)
  BY DEF Ready, Envelopes
<1>3. MeansPrepared(given, e, other)
  BY <1>1 DEF Sound, Mapped, Envelopes
<1>4. MeantAttaches(given, e, other)
  BY <1>1, <1>2 DEF Attachable, MeantAttaches
<1> QED BY <1>1, <1>2, <1>3, <1>4 DEF MeansPrepared, MeantAttaches

LEMMA DecodedAsMeant == EstablishInv => DecodesAsMeant
BY DEF EstablishInv, Informed, DecodesAsMeant, Endpoints

LEMMA Agreed == EstablishInv => AgreeOnSelection
<1> SUFFICES ASSUME EstablishInv, pc[Initiator] = "open"
             PROVE  LET s == chosen[Initiator]
                    IN /\ chosen[Acceptor] = s
                       /\ Required \subseteq s.capabilities
                       /\ s.capabilities \subseteq given.supported
                       /\ s.limit <= PeerLimit
                       /\ given.mode = "mapped" =>
                            /\ env["renderer"].memory.regions = env["peer"].memory.regions
                            /\ \A e \in {"renderer", "peer"} :
                                 s.limit + 1 + FrameOverhead <= FrameLimit(env[e].memory.config)
  BY DEF AgreeOnSelection
<1>1. /\ Sound(given) /\ Granted /\ chosen[Initiator] = chosen[Acceptor]
      /\ Acknowledges(InitiatorConfig, Ack(AcceptorConfig, chosen[Acceptor]))
  BY DEF EstablishInv, Opened
<1>2. PICK s : s = chosen[Initiator] /\ s = chosen[Acceptor]
  BY <1>1
<1>3. /\ s.capabilities = given.supported \cap Required
      /\ s.limit = Smaller(AcceptorConfig.limit, InitiatorConfig.limit)
  BY <1>1, <1>2 DEF Granted, Selection, Offer, Hello, AcceptorConfig, InitiatorConfig
<1>4. Required \subseteq s.capabilities /\ s.limit <= InitiatorConfig.limit
  <2>1. /\ InitiatorConfig.required \subseteq s.capabilities
        /\ s.limit <= InitiatorConfig.limit
    BY <1>1, <1>2 DEF Acknowledges, Ack
  <2>2. InitiatorConfig.required = Required
    BY DEF InitiatorConfig
  <2> QED BY <2>1, <2>2
<1>5. CASE ~Mapped
  <2>1. AcceptorConfig.limit = PeerLimit + 1 /\ InitiatorConfig.limit = PeerLimit
    BY <1>5 DEF AcceptorConfig, InitiatorConfig, Mapped
  <2> QED BY <1>2, <1>3, <1>4, <1>5, <2>1, EstablishAssumption DEF Smaller, Mapped
<1>6. CASE Mapped
  <2>1. Initiator = "renderer" /\ Acceptor = "peer" /\ Ready("renderer") /\ Ready("peer")
    BY <1>1, <1>6, TwoEnds DEF Granted
  <2>2. \A e \in Envelopes :
          /\ env[e].memory.config = given.config
          /\ env[e].memory.regions = Prepared(given.config, Session, Generation)
    BY <1>1, <1>6, <2>1, AttachedAsPrepared DEF Envelopes
  <2>3. PICK message \in Nat : message = given.config.message
    BY <1>1 DEF Sound
  <2>4. AcceptorConfig.limit = PeerLimit /\ InitiatorConfig.limit = message
    BY <1>6, <2>1, <2>2, <2>3 DEF AcceptorConfig, InitiatorConfig, Mapped, Envelopes
  <2>5. s.limit <= PeerLimit /\ s.limit \in Nat /\ s.limit <= message
    BY <1>3, <2>3, <2>4, EstablishAssumption DEF Smaller
  <2>6. \A e \in Envelopes :
          s.limit + 1 + FrameOverhead <= FrameLimit(env[e].memory.config)
    BY <2>2, <2>3, <2>5, FrameOverheadAssumption DEF FrameLimit
  <2> QED BY <1>2, <1>3, <1>4, <2>2, <2>5, <2>6 DEF Envelopes
<1> QED BY <1>5, <1>6

LEMMA Fits == EstablishInv => EmptyRingFits
<1> SUFFICES ASSUME EstablishInv, NEW e \in Envelopes, Mapped,
                    pc[e] \in {"hello", "accept", "acknowledge", "open"}
             PROVE  LET c == env[e].memory.config
                        cells == env[e].memory.regions[e].capacity \div CellBytes
                    IN \A payload \in 0 .. FrameLimit(c), offset \in 0 .. cells - 1 :
                         PlannedCells(cells, offset, RecordLengths(InlineLimit(c), payload))
                           <= cells
  BY DEF EmptyRingFits, Envelopes, Mapped
<1>1. Sound(given) /\ Ready(e)
  BY DEF EstablishInv, Informed, Envelopes, Endpoints
<1>2. PICK c, region, facing :
        /\ c = env[e].memory.config /\ c = given.config
        /\ region = env[e].memory.regions[e]
        /\ EndpointAttaches(c, region, facing, env[e].session, env[e].generation, e, Other(e))
  BY <1>1, AttachedAsPrepared
<1>3. PICK inline \in Nat \ {0}, message \in Nat :
        inline = InlineLimit(c) /\ message = FrameLimit(c) /\ inline < message
  <2>1. c.inline \in Nat /\ c.message \in Nat /\ 0 < c.inline /\ c.inline <= c.message
    BY <1>1, <1>2 DEF Sound, EndpointAttaches, ValidConfiguration
  <2>2. c.inline < FrameLimit(c) /\ FrameLimit(c) \in Nat
    BY <2>1, FrameOverheadAssumption DEF FrameLimit
  <2>3. InlineLimit(c) = c.inline
    BY <2>1, <2>2 DEF InlineLimit
  <2> QED BY <2>1, <2>2, <2>3
<1>4. PICK capacity \in Nat : /\ capacity = region.capacity
                              /\ CellBytes * RequiredCapacity(inline, message) <= capacity
  <2>1. /\ region.capacity = CapacityOf(region.total)
        /\ CapacityOf(region.total) \in CellBytes .. MaxRingCapacity
        /\ CellBytes * RequiredCapacity(inline, message) <= region.capacity
    BY <1>2, <1>3 DEF EndpointAttaches, RegionMatches, LayoutDecodes, LayoutAllowed
  <2>2. region.capacity \in Nat
    BY <2>1 DEF CellBytes
  <2> QED BY <2>1, <2>2
<1>5. PICK cells \in Nat : cells = capacity \div CellBytes /\ RequiredCapacity(inline, message) <= cells
  <2>1. WireCells(inline, message) \in Nat /\ RecordCells(inline) \in Nat
    <3>1. message \in 0 .. message /\ inline \in Nat /\ inline <= inline
      OBVIOUS
    <3> QED BY <3>1, WireCellsGrow, RecordCellsGrow
  <2>2. PICK required \in Int : required = RequiredCapacity(inline, message)
    BY <2>1 DEF RequiredCapacity, BatchCells
  <2> QED BY <1>4, <2>2 DEF CellBytes
<1>6. \A payload \in 0 .. message, offset \in 0 .. cells - 1 :
        PlannedCells(cells, offset, RecordLengths(inline, payload)) <= cells
  BY <1>3, <1>5, CapacityRuleSuffices
<1> QED BY <1>2, <1>3, <1>4, <1>5, <1>6

-----------------------------------------------------------------------------
(* What the host may hand out.                                             *)

IsEnvelope(x) == x = [k \in KnownKinds |-> x[k]]
WireMeans(w, x) == Decodes(w) => Carried(w.fields) = x
PlistMeans(d, x) == PlistDecodes(d) => PlistCarried(d) = x

\* The fields of an envelope that the decoder knows.
LEMMA KnownAre ==
  /\ DOMAIN Kinds = 1 .. 7 /\ \A i \in 1 .. 7 : Kinds[i] \in KnownKinds
  /\ KnownKinds = {"session", "generation", "protocols", "role", "memory", "signal", "secret"}
<1>1. DOMAIN Kinds = 1 .. 7
  BY DEF Kinds
<1>2. KnownKinds = {Kinds[i] : i \in 1 .. 7}
  BY <1>1 DEF KnownKinds, Range
<1>3. 1 .. 7 = {1, 2, 3, 4, 5, 6, 7}
  OBVIOUS
<1> QED BY <1>1, <1>2, <1>3 DEF Kinds

\* One field of each kind, in a sequence of n.
LEMMA OnlyOne ==
  ASSUME NEW n \in Nat, NEW T \in SUBSET (1 .. n), Cardinality(T) = 1
  PROVE  \E i \in 1 .. n : T = {i}
<1>1. IsFiniteSet(T)
  <2>1. IsFiniteSet(1 .. n)
    BY FS_Interval
  <2> QED BY <2>1, FS_Subset
<1>2. \E i : T = {i}
  BY <1>1, FS_Singleton
<1> QED BY <1>2

\* Fields that say what was meant decode to it, or not at all.
LEMMA TruthfulFields ==
  ASSUME NEW w, NEW x, IsEnvelope(x), NEW n \in Nat, DOMAIN w.fields = 1 .. n,
         \A i \in 1 .. n :
            w.fields[i].kind \in KnownKinds => w.fields[i].value = x[w.fields[i].kind]
  PROVE  WireMeans(w, x)
<1> SUFFICES ASSUME Decodes(w) PROVE Carried(w.fields) = x
  BY DEF WireMeans
<1> DEFINE Latest(k, i) == /\ w.fields[i].kind = k
                           /\ \A j \in 1 .. n : w.fields[j].kind = k => j <= i
<1>1. ASSUME NEW k \in KnownKinds
      PROVE  w.fields[CHOOSE i \in 1 .. n : Latest(k, i)].value = x[k]
  <2> DEFINE T == {i \in 1 .. n : w.fields[i].kind = k}
  <2>1. Cardinality(T) = 1 /\ T \in SUBSET (1 .. n)
    BY DEF Decodes, FieldsDecode
  <2>2. PICK i \in 1 .. n : T = {i}
    <3> HIDE DEF T
    <3> QED BY <2>1, OnlyOne
  <2>3. Latest(k, i)
    BY <2>2
  <2>4. PICK last \in 1 .. n : /\ last = CHOOSE j \in 1 .. n : Latest(k, j)
                               /\ Latest(k, last)
    <3> HIDE DEF Latest
    <3> QED BY <2>3
  <2> QED BY <2>4
<1>2. Carried(w.fields) =
        [k \in KnownKinds |-> w.fields[CHOOSE i \in 1 .. n : Latest(k, i)].value]
  BY DEF Carried
<1> HIDE DEF Latest
<1>3. Carried(w.fields) = [k \in KnownKinds |-> x[k]]
  BY <1>1, <1>2
<1> QED BY <1>3 DEF IsEnvelope

LEMMA TruthfulEntries ==
  ASSUME NEW d, NEW x, IsEnvelope(x),
         \A f \in d.entries : f.kind \in KnownKinds => f.value = x[f.kind]
  PROVE  PlistMeans(d, x)
<1> SUFFICES ASSUME PlistDecodes(d) PROVE PlistCarried(d) = x
  BY DEF PlistMeans
<1>1. ASSUME NEW k \in KnownKinds PROVE (CHOOSE f \in d.entries : f.kind = k).value = x[k]
  <2>1. PICK f \in d.entries : f.kind = k
    BY DEF PlistDecodes
  <2>2. PICK g \in d.entries : g = (CHOOSE h \in d.entries : h.kind = k) /\ g.kind = k
    BY <2>1
  <2> QED BY <2>2
<1>2. PlistCarried(d) = [k \in KnownKinds |-> x[k]]
  BY <1>1 DEF PlistCarried
<1> QED BY <1>2 DEF IsEnvelope

LEMMA FunctionIsSequence ==
  ASSUME NEW T, NEW n \in Nat, NEW f \in [1 .. n -> T]
  PROVE  f \in Seq(T) /\ Len(f) = n /\ DOMAIN f = 1 .. n
OBVIOUS

LEMMA SequencesOver ==
  ASSUME NEW T, NEW s \in Seq(T), NEW i \in 1 .. Len(s), NEW f \in T
  PROVE  /\ RemoveAt(s, i) \in Seq(T) /\ Append(s, f) \in Seq(T)
         /\ InsertAt(s, i, f) \in Seq(T) /\ Reverse(s) \in Seq(T)
<1>1. Len(s) \in Nat /\ \A j \in 1 .. Len(s) : s[j] \in T
  OBVIOUS
<1>2. Append(s, f) \in Seq(T) /\ <<f>> \in Seq(T)
  OBVIOUS
<1>3. ASSUME NEW a \in 1 .. Len(s) + 1, NEW b \in 0 .. Len(s) PROVE SubSeq(s, a, b) \in Seq(T)
  <2>1. \A j \in a .. b : s[j] \in T
    BY <1>1
  <2>a. (IF a <= b THEN b - a + 1 ELSE 0) \in Nat
    OBVIOUS
  <2>2. PICK n \in Nat : n = IF a <= b THEN b - a + 1 ELSE 0
    BY <2>a, Zenon
  <2>3. SubSeq(s, a, b) = [j \in 1 .. n |-> s[a + j - 1]]
    BY <2>2
  <2>4. \A j \in 1 .. n : s[a + j - 1] \in T
    BY <1>1, <2>2
  <2>5. [j \in 1 .. n |-> s[a + j - 1]] \in [1 .. n -> T]
    BY <2>4
  <2> QED BY <2>3, <2>5, FunctionIsSequence
<1>4. /\ SubSeq(s, 1, i - 1) \in Seq(T) /\ SubSeq(s, i + 1, Len(s)) \in Seq(T)
      /\ SubSeq(s, i, Len(s)) \in Seq(T)
  BY <1>1, <1>3
<1>5. \A u \in Seq(T), v \in Seq(T) : u \o v \in Seq(T)
  OBVIOUS
<1>6. RemoveAt(s, i) \in Seq(T)
  BY <1>4, <1>5 DEF RemoveAt
<1>7. InsertAt(s, i, f) \in Seq(T)
  <2>1. SubSeq(s, 1, i - 1) \o <<f>> \in Seq(T)
    BY <1>2, <1>4, <1>5
  <2> QED BY <1>4, <1>5, <2>1 DEF InsertAt
<1>8. Reverse(s) \in Seq(T)
  <2>1. \A j \in 1 .. Len(s) : s[(Len(s) - j) + 1] \in T
    BY <1>1
  <2>2. Reverse(s) \in [1 .. Len(s) -> T]
    BY <2>1 DEF Reverse
  <2> QED BY <1>1, <2>2, FunctionIsSequence
<1> QED BY <1>2, <1>6, <1>7, <1>8

LEMMA UnknownKind ==
  ASSUME NEW r
  PROVE  UnknownField(r).kind \notin KnownKinds
<1>1. UnknownField(r).kind = "future"
  BY DEF UnknownField, Field
<1> QED BY <1>1, KnownAre

\* The fields that say what x does, and those of an unknown kind.
Truthful(x) == {Field(k, x[k]) : k \in KnownKinds}
Readable(x) == Truthful(x) \cup {UnknownField(r) : r \in BOOLEAN}

LEMMA ReadableIsTrue ==
  ASSUME NEW x, NEW f \in Readable(x)
  PROVE  /\ f.kind \in KnownKinds => f.value = x[f.kind]
         /\ f \in Truthful(x) => f.kind \in KnownKinds
<1>1. ASSUME f \in Truthful(x) PROVE f.kind \in KnownKinds /\ f.value = x[f.kind]
  <2>1. PICK k \in KnownKinds : f = Field(k, x[k])
    BY <1>1 DEF Truthful
  <2>2. Field(k, x[k]).kind = k /\ Field(k, x[k]).value = x[k]
    BY DEF Field
  <2> QED BY <2>1, <2>2
<1>2. ASSUME NEW r \in BOOLEAN, f = UnknownField(r) PROVE f.kind \notin KnownKinds
  BY <1>2, UnknownKind
<1> QED BY <1>1, <1>2 DEF Readable

LEMMA EncodedFields ==
  ASSUME NEW x
  PROVE  \E fields : /\ Encode(x) = [schema |-> SchemaVersion, cut |-> FALSE, fields |-> fields]
                     /\ fields \in Seq(Truthful(x)) /\ fields \in Seq(Readable(x))
                     /\ Len(fields) = 7 /\ DOMAIN fields = 1 .. 7
                     /\ \A i \in 1 .. 7 : /\ fields[i] = Field(Kinds[i], x[Kinds[i]])
                                           /\ fields[i] \in Readable(x)
<1>1. PICK fields : fields = [i \in 1 .. 7 |-> Field(Kinds[i], x[Kinds[i]])]
  OBVIOUS
<1>2. Encode(x) = [schema |-> SchemaVersion, cut |-> FALSE, fields |-> fields]
  BY <1>1, KnownAre DEF Encode
<1>3. \A i \in 1 .. 7 : fields[i] \in Truthful(x) /\ fields[i] \in Readable(x)
  <2> SUFFICES ASSUME NEW i \in 1 .. 7 PROVE Field(Kinds[i], x[Kinds[i]]) \in Truthful(x)
    BY <1>1 DEF Readable
  <2> QED BY KnownAre DEF Truthful
<1>4. fields \in [1 .. 7 -> Truthful(x)] /\ fields \in [1 .. 7 -> Readable(x)] /\ 7 \in Nat
  BY <1>1, <1>3
<1>5. /\ fields \in Seq(Truthful(x)) /\ fields \in Seq(Readable(x))
      /\ Len(fields) = 7 /\ DOMAIN fields = 1 .. 7
  <2>1. fields \in Seq(Truthful(x)) /\ Len(fields) = 7 /\ DOMAIN fields = 1 .. 7
    BY <1>4, FunctionIsSequence
  <2>2. fields \in Seq(Readable(x))
    BY <1>4, FunctionIsSequence
  <2> QED BY <2>1, <2>2
<1>6. \A i \in 1 .. 7 : fields[i] = Field(Kinds[i], x[Kinds[i]])
  BY <1>1
<1> QED BY <1>2, <1>3, <1>5, <1>6

\* A sequence over fields that say what was meant, whatever its order.
LEMMA TruthfulSequence ==
  ASSUME NEW w, NEW x, IsEnvelope(x), NEW S, w.fields \in Seq(S),
         \A f \in S : f.kind \in KnownKinds => f.value = x[f.kind]
  PROVE  WireMeans(w, x)
<1>1. PICK n \in Nat : n = Len(w.fields) /\ DOMAIN w.fields = 1 .. n
  OBVIOUS
<1>2. \A i \in 1 .. n : w.fields[i] \in S
  BY <1>1
<1> QED BY <1>1, <1>2, TruthfulFields

LEMMA FormsMean ==
  ASSUME NEW x, IsEnvelope(x), NEW W, W = Encode(x), NEW w \in WireForms(W)
  PROVE  WireMeans(w, x)
<1>2. PICK fields :
        /\ W = [schema |-> SchemaVersion, cut |-> FALSE, fields |-> fields]
        /\ fields \in Seq(Readable(x)) /\ Len(fields) = 7 /\ DOMAIN fields = 1 .. 7
        /\ \A i \in 1 .. 7 : /\ fields[i] = Field(Kinds[i], x[Kinds[i]])
                              /\ fields[i] \in Readable(x)
  BY EncodedFields
<1>3. W.fields = fields
  BY <1>2
<1>4. \A i \in 1 .. 7 : /\ fields[i].kind = Kinds[i] /\ fields[i].kind \in KnownKinds
                        /\ fields[i] \in Readable(x)
  <2> TAKE i \in 1 .. 7
  <2>1. fields[i].kind = Kinds[i]
    BY <1>2 DEF Field
  <2>2. Kinds[i] \in KnownKinds
    BY KnownAre
  <2>3. fields[i] \in Readable(x)
    BY <1>2
  <2> QED BY <2>1, <2>2, <2>3
<1>5. ASSUME NEW g, w = WithFields(W, g) PROVE w.fields = g
  BY <1>2, <1>5 DEF WithFields
<1>6. ASSUME NEW g \in Seq(Readable(x)), w = WithFields(W, g) PROVE WireMeans(w, x)
  BY <1>5, <1>6, ReadableIsTrue, TruthfulSequence
<1>7. CASE w = [W EXCEPT !.cut = TRUE] \/ w = [W EXCEPT !.schema = @ + 1]
  <2>1. w.cut = TRUE \/ w.schema = SchemaVersion + 1
    BY <1>2, <1>7
  <2>2. ~Decodes(w)
    BY <2>1, SchemaVersionAssumption DEF Decodes
  <2> QED BY <2>2 DEF WireMeans
<1>8. ASSUME NEW i \in 1 .. 7, w = WithFields(W, RemoveAt(fields, i)) PROVE WireMeans(w, x)
  <2>1. RemoveAt(fields, i) \in Seq(Readable(x))
    BY <1>2, <1>4, SequencesOver
  <2> QED BY <1>6, <1>8, <2>1
<1>9. ASSUME NEW i \in 1 .. 7, w = WithFields(W, Append(fields, Doubled(fields[i])))
      PROVE  WireMeans(w, x)
  <2>1. CASE fields[i].kind # "generation"
    <3>1. Doubled(fields[i]) = fields[i]
      BY <2>1 DEF Doubled
    <3>2. Append(fields, Doubled(fields[i])) \in Seq(Readable(x))
      BY <1>2, <1>4, <3>1, SequencesOver
    <3> QED BY <1>6, <1>9, <3>2
  <2>2. CASE fields[i].kind = "generation"
    <3>1. PICK f : f = Doubled(fields[i])
      OBVIOUS
    <3>2. f.kind = "generation"
      <4>1. fields[i] = Field(Kinds[i], x[Kinds[i]])
        BY <1>2
      <4>2. f = [fields[i] EXCEPT !.value = @ - 1]
        BY <2>2, <3>1 DEF Doubled
      <4> QED BY <2>2, <4>1, <4>2 DEF Field
    <3>3. w.fields = Append(fields, f)
      BY <1>5, <1>9, <3>1
    <3>4. /\ DOMAIN Append(fields, f) = 1 .. 8 /\ Append(fields, f)[8] = f
          /\ Append(fields, f)[i] = fields[i]
      <4>1. PICK T : T = Readable(x) \cup {f}
        OBVIOUS
      <4>2. fields \in [1 .. 7 -> T] /\ f \in T
        BY <1>2, <1>4, <4>1
      <4>3. fields \in Seq(T)
        <5>1. 7 \in Nat
          OBVIOUS
        <5> QED BY <4>2, <5>1, FunctionIsSequence
      <4>4. Len(Append(fields, f)) = 8
        <5>1. Len(Append(fields, f)) = Len(fields) + 1
          BY <4>2, <4>3
        <5> QED BY <1>2, <5>1
      <4> QED BY <1>2, <4>2, <4>3, <4>4
    <3>5. ~Decodes(w)
      <4> DEFINE T == {j \in DOMAIN w.fields : w.fields[j].kind = "generation"}
      <4> SUFFICES ASSUME Cardinality(T) = 1 PROVE FALSE
        BY KnownAre DEF Decodes, FieldsDecode
      <4>a. /\ DOMAIN w.fields = 1 .. 8 /\ w.fields[8].kind = "generation"
            /\ w.fields[i].kind = "generation"
        BY <2>2, <3>2, <3>3, <3>4
      <4>1. i \in T /\ 8 \in T /\ T \in SUBSET (1 .. 8) /\ i # 8
        BY <4>a
      <4>2. 8 \in Nat
        OBVIOUS
      <4> HIDE DEF T
      <4>3. \E j \in 1 .. 8 : T = {j}
        BY <4>1, <4>2, OnlyOne
      <4> QED BY <4>1, <4>3
    <3> QED BY <3>5 DEF WireMeans
  <2> QED BY <2>1, <2>2
<1>10. ASSUME NEW i \in 1 .. 7, w = WithFields(W, [fields EXCEPT ![i].sound = FALSE])
       PROVE  WireMeans(w, x)
  <2>1. w.fields = [fields EXCEPT ![i].sound = FALSE]
    BY <1>5, <1>10
  <2>2. PICK f : f = fields[i] /\ f = Field(Kinds[i], x[Kinds[i]]) /\ f.kind \in KnownKinds
    BY <1>2, <1>4
  <2>3. DOMAIN w.fields = 1 .. 7 /\ w.fields[i] = [f EXCEPT !.sound = FALSE]
    BY <1>2, <2>1, <2>2
  <2>4. [f EXCEPT !.sound = FALSE].kind = f.kind /\ [f EXCEPT !.sound = FALSE].sound = FALSE
    BY <2>2 DEF Field
  <2>5. ~Decodes(w)
    BY <2>2, <2>3, <2>4 DEF Decodes, FieldsDecode
  <2> QED BY <2>5 DEF WireMeans
<1>11. ASSUME NEW i \in 1 .. 7, NEW r \in BOOLEAN,
              w = WithFields(W, InsertAt(fields, i, UnknownField(r)))
       PROVE  WireMeans(w, x)
  <2>1. UnknownField(r) \in Readable(x)
    BY DEF Readable
  <2>2. InsertAt(fields, i, UnknownField(r)) \in Seq(Readable(x))
    BY <1>2, <2>1, SequencesOver
  <2> QED BY <1>6, <1>11, <2>2
<1>12. ASSUME w = WithFields(W, Reverse(fields)) PROVE WireMeans(w, x)
  <2>1. Reverse(fields) \in Seq(Readable(x))
    <3>1. 1 \in 1 .. 7
      OBVIOUS
    <3>2. 1 \in 1 .. Len(fields) /\ fields[1] \in Readable(x)
      BY <1>2, <1>4, <3>1
    <3> QED BY <1>2, <3>2, SequencesOver
  <2> QED BY <1>6, <1>12, <2>1
<1>13. \/ w \in {[W EXCEPT !.cut = TRUE], [W EXCEPT !.schema = @ + 1]}
       \/ \E i \in DOMAIN W.fields :
            \/ w = WithFields(W, RemoveAt(W.fields, i))
            \/ w = WithFields(W, Append(W.fields, Doubled(W.fields[i])))
            \/ w = WithFields(W, [W.fields EXCEPT ![i].sound = FALSE])
            \/ \E r \in BOOLEAN : w = WithFields(W, InsertAt(W.fields, i, UnknownField(r)))
       \/ w = WithFields(W, Reverse(W.fields))
  <2> DEFINE A1 == {[W EXCEPT !.cut = TRUE], [W EXCEPT !.schema = @ + 1]}
             A2 == {WithFields(W, RemoveAt(W.fields, i)) : i \in DOMAIN W.fields}
             A3 == {WithFields(W, Append(W.fields, Doubled(W.fields[i]))) : i \in DOMAIN W.fields}
             A4 == {WithFields(W, [W.fields EXCEPT ![i].sound = FALSE]) : i \in DOMAIN W.fields}
             A5 == {WithFields(W, InsertAt(W.fields, i, UnknownField(r))) :
                      i \in DOMAIN W.fields, r \in BOOLEAN}
             A6 == {WithFields(W, Reverse(W.fields))}
  <2>1. WireForms(W) = A1 \cup A2 \cup A3 \cup A4 \cup A5 \cup A6
    BY DEF WireForms
  <2>2. w \in A1 \/ w \in A2 \/ w \in A3 \/ w \in A4 \/ w \in A5 \/ w \in A6
    <3> HIDE DEF A1, A2, A3, A4, A5, A6
    <3> QED BY <2>1
  <2>3. w \in A2 => \E i \in DOMAIN W.fields : w = WithFields(W, RemoveAt(W.fields, i))
    OBVIOUS
  <2>4. w \in A3 => \E i \in DOMAIN W.fields :
                      w = WithFields(W, Append(W.fields, Doubled(W.fields[i])))
    OBVIOUS
  <2>5. w \in A4 => \E i \in DOMAIN W.fields :
                      w = WithFields(W, [W.fields EXCEPT ![i].sound = FALSE])
    OBVIOUS
  <2>6. w \in A5 => \E i \in DOMAIN W.fields, r \in BOOLEAN :
                      w = WithFields(W, InsertAt(W.fields, i, UnknownField(r)))
    OBVIOUS
  <2>7. w \in A6 => w = WithFields(W, Reverse(W.fields))
    OBVIOUS
  <2> HIDE DEF A2, A3, A4, A5, A6
  <2> QED BY <2>2, <2>3, <2>4, <2>5, <2>6, <2>7, Zenon
<1> QED BY <1>2, <1>3, <1>7, <1>8, <1>9, <1>10, <1>11, <1>12, <1>13

LEMMA PlistFormsMean ==
  ASSUME NEW x, IsEnvelope(x), NEW d \in PlistForms(EncodePlist(x))
  PROVE  PlistMeans(d, x)
<1>1. PICK D : /\ D = EncodePlist(x) /\ D = [schema |-> SchemaVersion, entries |-> Truthful(x)]
  BY DEF EncodePlist, Truthful
<1>2. D.schema = SchemaVersion /\ D.entries = Truthful(x)
  BY <1>1
<1>3. \A f \in Truthful(x) : f.kind \in KnownKinds /\ f.value = x[f.kind]
  BY ReadableIsTrue DEF Readable
<1>4. CASE d = [D EXCEPT !.schema = @ + 1]
  <2>1. d.schema = SchemaVersion + 1
    BY <1>1, <1>4
  <2>2. ~PlistDecodes(d)
    BY <2>1, SchemaVersionAssumption DEF PlistDecodes
  <2> QED BY <2>2 DEF PlistMeans
<1>5. CASE d = [D EXCEPT !.entries = @ \cup {UnknownField(FALSE)}]
  <2>1. d.entries = Truthful(x) \cup {UnknownField(FALSE)}
    BY <1>1, <1>5
  <2> QED BY <1>3, <2>1, UnknownKind, TruthfulEntries
<1>6. ASSUME NEW f \in Truthful(x), d = [D EXCEPT !.entries = @ \ {f}] PROVE PlistMeans(d, x)
  <2>1. d.entries = Truthful(x) \ {f}
    BY <1>1, <1>6
  <2> QED BY <1>3, <2>1, TruthfulEntries
<1>7. ASSUME NEW f \in Truthful(x),
             d = [D EXCEPT !.entries = (@ \ {f}) \cup {[f EXCEPT !.sound = FALSE]}]
      PROVE  PlistMeans(d, x)
  <2>1. PICK k \in KnownKinds : f = Field(k, x[k])
    BY DEF Truthful
  <2>2. PICK unsound : unsound = [f EXCEPT !.sound = FALSE]
    OBVIOUS
  <2>3. unsound.kind = k /\ unsound.value = x[k]
    BY <2>1, <2>2 DEF Field
  <2>4. d.entries = (Truthful(x) \ {f}) \cup {unsound}
    BY <1>1, <1>7, <2>2
  <2> QED BY <1>3, <2>3, <2>4, TruthfulEntries
<1>8. PlistForms(D) =
        {[D EXCEPT !.schema = @ + 1], [D EXCEPT !.entries = @ \cup {UnknownField(FALSE)}]}
        \cup {[D EXCEPT !.entries = @ \ {f}] : f \in Truthful(x)}
        \cup {[D EXCEPT !.entries = (@ \ {f}) \cup {[f EXCEPT !.sound = FALSE]}] :
                f \in Truthful(x)}
  BY <1>2 DEF PlistForms
<1>9. d \in PlistForms(D)
  BY <1>1
<1> QED BY <1>4, <1>5, <1>6, <1>7, <1>8, <1>9, Zenon

LEMMA EncodedMeans ==
  ASSUME NEW x, IsEnvelope(x)
  PROVE  WireMeans(Encode(x), x) /\ PlistMeans(EncodePlist(x), x)
<1>1. Encode(x).fields \in Seq(Readable(x)) /\ EncodePlist(x).entries = Truthful(x)
  <2>1. PICK fields : /\ Encode(x) = [schema |-> SchemaVersion, cut |-> FALSE, fields |-> fields]
                      /\ fields \in Seq(Readable(x))
    BY EncodedFields
  <2>2. Encode(x).fields = fields
    BY <2>1
  <2> QED BY <2>1, <2>2 DEF EncodePlist, Truthful
<1>2. WireMeans(Encode(x), x)
  BY <1>1, ReadableIsTrue, TruthfulSequence
<1>3. \A f \in EncodePlist(x).entries : f.kind \in KnownKinds => f.value = x[f.kind]
  BY <1>1, ReadableIsTrue DEF Readable
<1> QED BY <1>2, <1>3, TruthfulEntries

\* The configurations that the host tries are made of whole numbers.
Whole(c) == c.capacity \in Int /\ c.inline \in Nat /\ c.message \in Nat

LEMMA WholeConfigurations ==
  ASSUME NEW inline \in Nat \ {0}, NEW message \in Nat, NEW cells \in Int
  PROVE  Whole(Configuration(inline, message, cells))
BY DEF Whole, Configuration, CellBytes

LEMMA RequiredIsWhole ==
  ASSUME NEW inline \in Nat \ {0}, NEW message \in Nat
  PROVE  RequiredCapacity(inline, message) \in Int
<1>1. WireCells(inline, message) \in Nat /\ RecordCells(inline) \in Nat
  <2>1. message \in 0 .. message /\ inline \in Nat /\ inline <= inline
    OBVIOUS
  <2> QED BY <2>1, WireCellsGrow, RecordCellsGrow
<1> QED BY <1>1 DEF RequiredCapacity, BatchCells

LEMMA CommonIsWhole == Whole(Common)
<1>1. 21 + FrameOverhead \in Nat /\ 9 \in Nat \ {0} /\ 20 \in Nat
  BY FrameOverheadAssumption
<1>2. PICK cells \in Int : cells = RequiredCapacity(9, 21 + FrameOverhead)
  BY <1>1, RequiredIsWhole
<1> QED BY <1>1, <1>2, WholeConfigurations DEF Common

LEMMA FittingIsWhole ==
  ASSUME NEW inline \in Nat \ {0}, NEW message \in Nat, NEW c \in Fitting(inline, message)
  PROVE  Whole(c)
<1>1. message + 1 + FrameOverhead \in Nat
  BY FrameOverheadAssumption
<1>2. PICK cells \in Int : cells = RequiredCapacity(inline, message + 1 + FrameOverhead)
  BY <1>1, RequiredIsWhole
<1>3. \E n \in {cells, cells + 1} : c = Configuration(inline, message, n)
  BY <1>2 DEF Fitting
<1>4. PICK n \in Int : c = Configuration(inline, message, n)
  BY <1>3
<1> QED BY <1>4, WholeConfigurations

\* An envelope of configuration c whose regions are the prepared ones, or do
\* not attach.
Attaches(x, e, other) ==
    EndpointAttaches(x.memory.config, x.memory.regions[e], x.memory.regions[other],
                     x.session, x.generation, e, other)
AsPrepared(x, c) ==
    /\ x.memory.config = c
    /\ \/ x.memory.regions = Prepared(c, Session, Generation)
       \/ ~Attaches(x, "renderer", "peer") /\ ~Attaches(x, "peer", "renderer")

LEMMA PlainEnvelope ==
  ASSUME NEW m \in {"mapped", "process"}, NEW c, NEW role
  PROVE  /\ IsEnvelope(EnvelopeOf(m, c, role))
         /\ EnvelopeOf(m, c, role).session = Session
         /\ EnvelopeOf(m, c, role).generation = Generation
         /\ m = "mapped" => EnvelopeOf(m, c, role).memory = MemoryDescriptor(c)
<1>1. EnvelopeOf(m, c, role) =
        [session |-> Session, generation |-> Generation, protocols |-> ProtocolRange(1, 1),
         role |-> role, secret |-> Secret(Generation),
         memory |-> IF m = "mapped" THEN MemoryDescriptor(c) ELSE TestDescriptor,
         signal |-> IF m = "mapped" THEN [provider |-> "Hybrid", generation |-> Generation]
                                    ELSE TestDescriptor]
  BY DEF EnvelopeOf
<1> QED BY <1>1, KnownAre DEF IsEnvelope

\* Envelopes that differ from x in one field.
LEMMA OtherField ==
  ASSUME NEW x, IsEnvelope(x), NEW k \in KnownKinds, NEW v
  PROVE  /\ IsEnvelope([x EXCEPT ![k] = v])
         /\ [x EXCEPT ![k] = v][k] = v
         /\ \A j \in KnownKinds \ {k} : [x EXCEPT ![k] = v][j] = x[j]
BY DEF IsEnvelope

LEMMA MixedEnvelope ==
  ASSUME NEW x, IsEnvelope(x), NEW y \in MixedUp(x)
  PROVE  /\ IsEnvelope(y)
         /\ \/ y.memory = x.memory
            \/ y.memory = [x.memory EXCEPT !.provider = "Hybrid"]
<1>1. \A k \in {"generation", "secret", "session", "role", "memory"} : k \in KnownKinds
  BY KnownAre
<1>2. \/ \E k \in {"generation", "secret", "session", "role"} : \E v : y = [x EXCEPT ![k] = v]
      \/ y = [x EXCEPT !["memory"] = [x.memory EXCEPT !.provider = "Hybrid"]]
  BY DEF MixedUp
<1>3. ASSUME NEW k \in {"generation", "secret", "session", "role"}, NEW v,
             y = [x EXCEPT ![k] = v]
      PROVE  IsEnvelope(y) /\ y.memory = x.memory
  <2>1. k \in KnownKinds /\ "memory" \in KnownKinds \ {k}
    BY <1>1
  <2>2. IsEnvelope(y) /\ \A j \in KnownKinds \ {k} : y[j] = x[j]
    BY <1>3, <2>1 DEF IsEnvelope
  <2> QED BY <2>1, <2>2
<1>4. ASSUME NEW v, y = [x EXCEPT !["memory"] = v] PROVE IsEnvelope(y) /\ y.memory = v
  <2>1. "memory" \in KnownKinds
    BY <1>1
  <2> QED BY <1>4, <2>1, OtherField
<1> QED BY <1>2, <1>3, <1>4

LEMMA MixedAsPrepared ==
  ASSUME NEW c, NEW role, NEW x, x = EnvelopeOf("mapped", c, role),
         NEW y, y.memory = x.memory \/ y.memory = [x.memory EXCEPT !.provider = "Hybrid"]
  PROVE  AsPrepared(y, c)
<1>1. x.memory = MemoryDescriptor(c)
  BY PlainEnvelope
<1>2. y.memory.config = c /\ y.memory.regions = Prepared(c, Session, Generation)
  BY <1>1 DEF MemoryDescriptor
<1> QED BY <1>2 DEF AsPrepared

\* Bundles of other regions attach at neither endpoint.
LEMMA OtherAsPrepared ==
  ASSUME NEW c, Whole(c), NEW role, NEW x, x = EnvelopeOf("mapped", c, role),
         NEW y \in OtherRegions(x)
  PROVE  IsEnvelope(y) /\ AsPrepared(y, c)
<1>1. /\ IsEnvelope(x) /\ x.memory = MemoryDescriptor(c)
      /\ x.session = Session /\ x.generation = Generation
  BY PlainEnvelope
<1>2. PICK r : r = x.memory.regions /\ r = Prepared(c, Session, Generation)
  BY <1>1 DEF MemoryDescriptor
<1>3. PICK total \in Int : /\ total = HeaderSize + c.capacity
                           /\ r["renderer"] = Layout(Session, Generation, "renderer", total, c.inline)
                           /\ r["peer"] = Layout(Session, Generation, "peer", total, c.inline)
                           /\ r = [o \in Envelopes |-> r[o]]
  BY <1>2, HeaderSizeAssumption DEF Prepared, Whole, Envelopes
<1>4. PICK q \in {[r EXCEPT !["renderer"] = r["peer"], !["peer"] = r["renderer"]],
                  [r EXCEPT !["peer"].generation = 1],
                  [r EXCEPT !["renderer"].mapped = @ - CellBytes],
                  [r EXCEPT !["peer"].sound = FALSE]} :
        y = [x EXCEPT !.memory.regions = q]
  BY <1>2 DEF OtherRegions
<1>5. /\ y = [x EXCEPT !["memory"] = [MemoryDescriptor(c) EXCEPT !.regions = q]]
      /\ "memory" \in KnownKinds /\ "session" \in KnownKinds /\ "generation" \in KnownKinds
  BY <1>1, <1>4, KnownAre
<1>6. /\ IsEnvelope(y) /\ y.memory = [MemoryDescriptor(c) EXCEPT !.regions = q]
      /\ y.session = Session /\ y.generation = Generation
  BY <1>1, <1>5, OtherField
<1>7. y.memory.config = c /\ y.memory.regions = q
  BY <1>6 DEF MemoryDescriptor
<1>8. \/ q["renderer"].owner # "renderer" /\ q["peer"].owner # "peer"
      \/ q["peer"].generation # Generation
      \/ q["renderer"].mapped # q["renderer"].total
      \/ q["peer"].sound = FALSE
  <2>1. CASE q = [r EXCEPT !["renderer"] = r["peer"], !["peer"] = r["renderer"]]
    BY <1>3, <2>1 DEF Layout, Envelopes
  <2>2. CASE q = [r EXCEPT !["peer"].generation = 1]
    <3>1. q["peer"] = [r["peer"] EXCEPT !.generation = 1]
      BY <1>3, <2>2 DEF Envelopes
    <3> QED BY <1>3, <3>1 DEF Layout, Generation
  <2>3. CASE q = [r EXCEPT !["renderer"].mapped = @ - CellBytes]
    <3>a. r["renderer"].mapped = total
      BY <1>3 DEF Layout
    <3>1. q["renderer"] = [r["renderer"] EXCEPT !.mapped = total - CellBytes]
      BY <1>3, <2>3, <3>a DEF Envelopes
    <3>2. q["renderer"].mapped = total - CellBytes /\ q["renderer"].total = total
      BY <1>3, <3>1 DEF Layout
    <3> QED BY <3>2 DEF CellBytes
  <2>4. CASE q = [r EXCEPT !["peer"].sound = FALSE]
    <3>1. q["peer"] = [r["peer"] EXCEPT !.sound = FALSE]
      BY <1>3, <2>4 DEF Envelopes
    <3> QED BY <1>3, <3>1 DEF Layout
  <2> QED BY <1>4, <2>1, <2>2, <2>3, <2>4
<1>9. ~Attaches(y, "renderer", "peer") /\ ~Attaches(y, "peer", "renderer")
  BY <1>6, <1>7, <1>8 DEF Attaches, EndpointAttaches, RegionMatches, LayoutDecodes
<1> QED BY <1>6, <1>7, <1>9 DEF AsPrepared

LEMMA GivenFields ==
  ASSUME NEW m, NEW c
  PROVE  LET g == Given(m, c)
         IN /\ g = [mode |-> m, config |-> c, meant |-> g.meant, wire |-> g.wire,
                    plist |-> g.plist, told |-> g.told, supported |-> g.supported]
            /\ g.meant = [e \in {"peer", "renderer"} |-> EnvelopeOf(m, c, e)]
            /\ g.wire = Encode(EnvelopeOf(m, c, "peer"))
            /\ g.plist = EncodePlist(EnvelopeOf(m, c, "renderer"))
BY DEF Given

\* A host's handout whose forms mean what was meant, over such envelopes.
LEMMA SoundHandout ==
  ASSUME NEW g, NEW m \in {"mapped", "process"}, NEW c, Whole(c), g.mode = m, g.config = c,
         WireMeans(g.wire, g.meant["peer"]), PlistMeans(g.plist, g.meant["renderer"]),
         m = "mapped" => \A e \in Envelopes : AsPrepared(g.meant[e], c)
  PROVE  Sound(g)
<1>1. DecodesMeant(g)
  BY DEF DecodesMeant, WireMeans, PlistMeans
<1>2. m = "mapped" => MeansPrepared(g, "renderer", "peer") /\ MeansPrepared(g, "peer", "renderer")
  BY DEF MeansPrepared, MeantAttaches, AsPrepared, Attaches, Envelopes
<1> QED BY <1>1, <1>2 DEF Sound, Whole

LEMMA PlainMeans ==
  ASSUME NEW m \in {"mapped", "process"}, NEW c, NEW e, NEW x, x = EnvelopeOf(m, c, e)
  PROVE  IsEnvelope(x) /\ (m = "mapped" => AsPrepared(x, c))
<1>1. IsEnvelope(x)
  BY PlainEnvelope
<1>2. ASSUME m = "mapped" PROVE AsPrepared(x, c)
  <2>1. x = EnvelopeOf("mapped", c, e) /\ x.memory = x.memory
    BY <1>2
  <2> QED BY <2>1, MixedAsPrepared
<1> QED BY <1>1, <1>2

LEMMA DeviatingMeans ==
  ASSUME NEW m \in {"mapped", "process"}, NEW c, Whole(c), NEW e,
         NEW x, x = EnvelopeOf(m, c, e),
         NEW y, y \in MixedUp(x) \/ (m = "mapped" /\ y \in OtherRegions(x))
  PROVE  IsEnvelope(y) /\ (m = "mapped" => AsPrepared(y, c))
<1>1. CASE y \in MixedUp(x)
  <2>1. IsEnvelope(x)
    BY PlainEnvelope
  <2>2. /\ IsEnvelope(y)
        /\ y.memory = x.memory \/ y.memory = [x.memory EXCEPT !.provider = "Hybrid"]
    BY <1>1, <2>1, MixedEnvelope
  <2>3. ASSUME m = "mapped" PROVE AsPrepared(y, c)
    <3>1. x = EnvelopeOf("mapped", c, e)
      BY <2>3
    <3> QED BY <2>2, <3>1, MixedAsPrepared
  <2> QED BY <2>2, <2>3
<1>2. CASE m = "mapped" /\ y \in OtherRegions(x)
  <2>1. x = EnvelopeOf("mapped", c, e)
    BY <1>2
  <2> QED BY <1>2, <2>1, OtherAsPrepared
<1> QED BY <1>1, <1>2

LEMMA GivenIsSound ==
  ASSUME NEW m \in {"mapped", "process"}, NEW c, Whole(c)
  PROVE  Sound(Given(m, c))
<1>1. PICK g : g = Given(m, c)
  OBVIOUS
<1>2. /\ g.mode = m /\ g.config = c
      /\ g.wire = Encode(g.meant["peer"]) /\ g.plist = EncodePlist(g.meant["renderer"])
      /\ \A e \in Envelopes : g.meant[e] = EnvelopeOf(m, c, e)
  BY <1>1 DEF Given, Envelopes
<1>3. \A e \in Envelopes : /\ IsEnvelope(g.meant[e])
                           /\ m = "mapped" => AsPrepared(g.meant[e], c)
  BY <1>2, PlainMeans
<1>4. WireMeans(g.wire, g.meant["peer"]) /\ PlistMeans(g.plist, g.meant["renderer"])
  BY <1>2, <1>3, EncodedMeans DEF Envelopes
<1> QED BY <1>1, <1>2, <1>3, <1>4, SoundHandout

LEMMA DeviatingIsSound ==
  ASSUME NEW m \in {"mapped", "process"}, NEW h \in Deviating(m)
  PROVE  Sound(h)
<1>1. PICK g : /\ g = Given(m, Common)
               /\ h \in WrittenOtherwise(g) \/ h \in MeantOtherwise(g) \/ h \in ToldOtherwise(g)
  BY DEF Deviating
<1>2. PICK c : c = Common /\ Whole(c)
  BY CommonIsWhole
<1>3. /\ g.mode = m /\ g.config = c /\ g.meant = [e \in Envelopes |-> EnvelopeOf(m, c, e)]
      /\ g.wire = Encode(EnvelopeOf(m, c, "peer"))
      /\ g.plist = EncodePlist(EnvelopeOf(m, c, "renderer"))
      /\ g = [mode |-> m, config |-> c, meant |-> g.meant, wire |-> g.wire,
              plist |-> g.plist, told |-> g.told, supported |-> g.supported]
  BY <1>1, <1>2 DEF Given, Envelopes
<1>4. \A e \in Envelopes : g.meant[e] = EnvelopeOf(m, c, e)
  BY <1>3
<1>5. \A e \in Envelopes : /\ IsEnvelope(g.meant[e])
                           /\ m = "mapped" => AsPrepared(g.meant[e], c)
  BY <1>4, PlainMeans
<1>6. WireMeans(g.wire, g.meant["peer"]) /\ PlistMeans(g.plist, g.meant["renderer"])
  BY <1>3, <1>4, <1>5, EncodedMeans DEF Envelopes
<1> DEFINE Mixed(e) == MixedUp(e) \cup (IF g.mode = "mapped" THEN OtherRegions(e) ELSE {})
<1>7. ASSUME NEW e \in Envelopes, NEW x \in Mixed(g.meant[e])
      PROVE  IsEnvelope(x) /\ (m = "mapped" => AsPrepared(x, c))
  <2>1. g.meant[e] = EnvelopeOf(m, c, e)
    BY <1>4
  <2>2. x \in MixedUp(g.meant[e]) \/ (m = "mapped" /\ x \in OtherRegions(g.meant[e]))
    BY <1>3, <1>7
  <2> QED BY <1>2, <2>1, <2>2, DeviatingMeans
<1>8. \/ \E w \in WireForms(g.wire) : h = [g EXCEPT !.wire = w]
      \/ \E d \in PlistForms(g.plist) : h = [g EXCEPT !.plist = d]
      \/ \E x \in Mixed(g.meant["peer"]) : h = [g EXCEPT !.wire = Encode(x), !.meant["peer"] = x]
      \/ \E x \in Mixed(g.meant["renderer"]) :
            h = [g EXCEPT !.plist = EncodePlist(x), !.meant["renderer"] = x]
      \/ \E e \in Endpoints, x \in Misinformed : h = [g EXCEPT !.told[e] = x]
      \/ \E s : h = [g EXCEPT !.supported = s]
  <2>1. CASE h \in WrittenOtherwise(g)
    BY <2>1 DEF WrittenOtherwise
  <2>2. CASE h \in MeantOtherwise(g)
    BY <2>2 DEF MeantOtherwise
  <2>3. ASSUME h \in ToldOtherwise(g)
        PROVE  \/ \E e \in Endpoints, x \in Misinformed : h = [g EXCEPT !.told[e] = x]
               \/ \E s : h = [g EXCEPT !.supported = s]
    <3> DEFINE A == {[g EXCEPT !.told[e] = x] : e \in Endpoints, x \in Misinformed}
               B == {[g EXCEPT !.supported = x] :
                       x \in {g.supported \ {"binary"}, g.supported \cup {"newer"}}}
    <3>1. ToldOtherwise(g) = A \cup B
      BY DEF ToldOtherwise
    <3>2. h \in A => \E e \in Endpoints, x \in Misinformed : h = [g EXCEPT !.told[e] = x]
      OBVIOUS
    <3>3. h \in B => \E s : h = [g EXCEPT !.supported = s]
      OBVIOUS
    <3> HIDE DEF A, B
    <3> QED BY <2>3, <3>1, <3>2, <3>3
  <2> QED BY <1>1, <2>1, <2>2, <2>3
<1> HIDE DEF Mixed
<1>9. CASE \E w \in WireForms(g.wire) : h = [g EXCEPT !.wire = w]
  <2>1. PICK w \in WireForms(g.wire) : h = [g EXCEPT !.wire = w]
    BY <1>9
  <2>2. h.mode = m /\ h.config = c /\ h.meant = g.meant /\ h.wire = w /\ h.plist = g.plist
    BY <1>3, <2>1
  <2>3. WireMeans(w, g.meant["peer"])
    BY <1>3, <1>4, <1>5, FormsMean DEF Envelopes
  <2> QED BY <1>2, <1>5, <1>6, <2>2, <2>3, SoundHandout
<1>10. CASE \E d \in PlistForms(g.plist) : h = [g EXCEPT !.plist = d]
  <2>1. PICK d \in PlistForms(g.plist) : h = [g EXCEPT !.plist = d]
    BY <1>10
  <2>2. h.mode = m /\ h.config = c /\ h.meant = g.meant /\ h.wire = g.wire /\ h.plist = d
    BY <1>3, <2>1
  <2>3. PlistMeans(d, g.meant["renderer"])
    BY <1>3, <1>4, <1>5, PlistFormsMean DEF Envelopes
  <2> QED BY <1>2, <1>5, <1>6, <2>2, <2>3, SoundHandout
<1>11. CASE \E x \in Mixed(g.meant["peer"]) :
              h = [g EXCEPT !.wire = Encode(x), !.meant["peer"] = x]
  <2>1. PICK x \in Mixed(g.meant["peer"]) :
          h = [g EXCEPT !.wire = Encode(x), !.meant["peer"] = x]
    BY <1>11
  <2>2. IsEnvelope(x) /\ (m = "mapped" => AsPrepared(x, c))
    BY <1>7 DEF Envelopes
  <2>3. /\ h.mode = m /\ h.config = c /\ h.wire = Encode(x) /\ h.plist = g.plist
        /\ h.meant = [g.meant EXCEPT !["peer"] = x]
    BY <1>3, <2>1
  <2>4. h.meant["peer"] = x /\ h.meant["renderer"] = g.meant["renderer"]
    BY <1>3, <2>3 DEF Envelopes
  <2>5. WireMeans(h.wire, x)
    BY <2>2, <2>3, EncodedMeans
  <2>6. m = "mapped" => \A e \in Envelopes : AsPrepared(h.meant[e], c)
    BY <1>5, <2>2, <2>4 DEF Envelopes
  <2> QED BY <1>2, <1>6, <2>3, <2>4, <2>5, <2>6, SoundHandout
<1>12. CASE \E x \in Mixed(g.meant["renderer"]) :
              h = [g EXCEPT !.plist = EncodePlist(x), !.meant["renderer"] = x]
  <2>1. PICK x \in Mixed(g.meant["renderer"]) :
          h = [g EXCEPT !.plist = EncodePlist(x), !.meant["renderer"] = x]
    BY <1>12
  <2>2. IsEnvelope(x) /\ (m = "mapped" => AsPrepared(x, c))
    BY <1>7 DEF Envelopes
  <2>3. /\ h.mode = m /\ h.config = c /\ h.wire = g.wire /\ h.plist = EncodePlist(x)
        /\ h.meant = [g.meant EXCEPT !["renderer"] = x]
    BY <1>3, <2>1
  <2>4. h.meant["renderer"] = x /\ h.meant["peer"] = g.meant["peer"]
    BY <1>3, <2>3 DEF Envelopes
  <2>5. PlistMeans(h.plist, x)
    BY <2>2, <2>3, EncodedMeans
  <2>6. m = "mapped" => \A e \in Envelopes : AsPrepared(h.meant[e], c)
    BY <1>5, <2>2, <2>4 DEF Envelopes
  <2> QED BY <1>2, <1>6, <2>3, <2>4, <2>5, <2>6, SoundHandout
<1>13. CASE \/ \E e \in Endpoints, x \in Misinformed : h = [g EXCEPT !.told[e] = x]
            \/ \E s : h = [g EXCEPT !.supported = s]
  <2>1. h.mode = m /\ h.config = c /\ h.meant = g.meant /\ h.wire = g.wire /\ h.plist = g.plist
    BY <1>3, <1>13
  <2> QED BY <1>2, <1>5, <1>6, <2>1, SoundHandout
<1> QED BY <1>8, <1>9, <1>10, <1>11, <1>12, <1>13

LEMMA EstablishStart == Init => EstablishInv
<1> SUFFICES ASSUME Init PROVE EstablishInv
  OBVIOUS
<1>1. Sound(given)
  <2>1. CASE \E m \in {"mapped", "process"} : given \in {Given(m, Common)} \cup Deviating(m)
    BY <2>1, CommonIsWhole, GivenIsSound, DeviatingIsSound
  <2>2. ASSUME NEW inline \in 1 .. MaxInline, NEW message \in 1 .. MaxMessage,
               NEW c \in Fitting(inline, message), given = Given("mapped", c)
        PROVE  Sound(given)
    <3>1. inline \in Nat \ {0} /\ message \in Nat
      BY EstablishAssumption
    <3> QED BY <2>2, <3>1, FittingIsWhole, GivenIsSound
  <2> QED BY <2>1, <2>2 DEF Init
<1>2. \A e \in Endpoints :
        /\ pc[e] \in {"absent", "accept", "decode"} /\ env[e] = Nothing /\ inbound[e] = <<>>
        /\ pc[e] = "accept" => e = "coordinator" /\ e \in {Initiator, Acceptor}
        /\ pc[e] = "decode" => e # "coordinator"
        /\ e \notin {Initiator, Acceptor} => pc[e] = "absent"
  BY DEF Init
<1>3. Shape
  BY <1>2 DEF Init, Shape, Places, Ended
<1>4. Roles
  BY <1>1, <1>2, TwoEnds DEF Roles
<1>5. Informed
  <2> SUFFICES ASSUME NEW e \in Endpoints, pc[e] = "accept" PROVE Ready(e)
    BY <1>2 DEF Informed
  <2>1. e = "coordinator" /\ ~Mapped
    BY <1>1, <1>2, TwoEnds
  <2> QED BY <2>1 DEF Ready
<1>6. Offered /\ Answered /\ Opened
  BY <1>1, <1>2, TwoEnds DEF Offered, Answered, Opened
<1> QED BY <1>1, <1>3, <1>4, <1>5, <1>6 DEF EstablishInv

-----------------------------------------------------------------------------
(* The theorems.                                                           *)

\* The invariant holds of every establishment, whatever limits are tried.
THEOREM EstablishInvariance == Spec => []EstablishInv
<1>1. Init => EstablishInv
  BY EstablishStart
<1>2. EstablishInv /\ [Next]_vars => EstablishInv'
  BY EstablishStep
<1> QED BY <1>1, <1>2, PTL DEF Spec

\* An endpoint acts on the envelope that was meant for it or on none, whatever
\* became of the fields on the way (nwipc-bootstrap-codec::decode).
THEOREM EstablishDecodes == Spec => []DecodesAsMeant
BY EstablishInvariance, DecodedAsMeant, PTL

\* An open initiator and its acceptor agree on the selection, on the regions
\* and on a limit that fits the frames of both channels.
THEOREM EstablishAgrees == Spec => []AgreeOnSelection
BY EstablishInvariance, Agreed, PTL

\* The empty ring of an attached endpoint takes every frame within its limit.
THEOREM EstablishFits == Spec => []EmptyRingFits
BY EstablishInvariance, Fits, PTL

-----------------------------------------------------------------------------
(* The cells and the wrap tails of a batch: what the recursive functions   *)
(* of Channel compute, step by step.                                       *)

\* The values that N steps take from base.
StepsFrom(S, base, N, step, f) ==
  f \in [0 .. N -> S] /\ f[0] = base /\ \A n \in 1 .. N : f[n] = step[n][f[n - 1]]

\* Recursion over N steps has a value, whatever the steps.
LEMMA RecursionExists ==
  ASSUME NEW S, NEW base \in S, NEW N \in Nat, NEW step \in [1 .. N -> [S -> S]]
  PROVE  \E f : StepsFrom(S, base, N, step, f)
<1> DEFINE P == {n \in Nat : n <= N => \E f : StepsFrom(S, base, n, step, f)}
<1>1. 0 \in P
  <2> DEFINE f == [k \in 0 .. 0 |-> base]
  <2>1. StepsFrom(S, base, 0, step, f)
    BY DEF StepsFrom
  <2> QED BY <2>1
<1>2. ASSUME NEW n \in P PROVE n + 1 \in P
  <2>0. n \in Nat /\ n + 1 \in Nat /\ (n <= N => \E f : StepsFrom(S, base, n, step, f))
    OBVIOUS
  <2> SUFFICES ASSUME n + 1 <= N PROVE \E f : StepsFrom(S, base, n + 1, step, f)
    BY <2>0
  <2>1. PICK e : StepsFrom(S, base, n, step, e)
    BY <2>0
  <2>2. /\ e \in [0 .. n -> S] /\ e[0] = base
        /\ \A k \in 1 .. n : e[k] = step[k][e[k - 1]]
    BY <2>1 DEF StepsFrom
  <2>3. PICK y \in S : y = step[n + 1][e[n]]
    <3>1. e[n] \in S /\ n + 1 \in 1 .. N
      BY <2>0, <2>2
    <3>2. step[n + 1] \in [S -> S]
      BY <3>1
    <3> QED BY <3>1, <3>2
  <2> DEFINE f == [k \in 0 .. n + 1 |-> IF k <= n THEN e[k] ELSE y]
  <2>4. f \in [0 .. n + 1 -> S] /\ f[0] = base
    BY <2>0, <2>2
  <2>5. ASSUME NEW k \in 1 .. n + 1 PROVE f[k] = step[k][f[k - 1]]
    <3>1. CASE k \in 1 .. n
      <4>1. f[k] = e[k] /\ f[k - 1] = e[k - 1]
        BY <2>0, <3>1
      <4> HIDE DEF f
      <4> QED BY <2>2, <3>1, <4>1
    <3>2. CASE k = n + 1
      <4>1. f[k] = y /\ f[k - 1] = e[n]
        BY <2>0, <3>2
      <4> HIDE DEF f
      <4> QED BY <2>3, <3>2, <4>1
    <3> QED BY <2>0, <3>1, <3>2
  <2> HIDE DEF f
  <2>6. StepsFrom(S, base, n + 1, step, f)
    BY <2>4, <2>5 DEF StepsFrom
  <2> QED BY <2>6
<1>3. P = Nat
  <2>1. P \in SUBSET Nat
    OBVIOUS
  <2> HIDE DEF P
  <2> QED BY <1>1, <1>2, <2>1, SetInduction
<1>4. N \in P
  BY <1>3
<1> QED BY <1>4

-----------------------------------------------------------------------------
(* Records, and the cells they take.                                       *)

Record == [kind : EntryKinds, id : Nat, size : Nat, length : Nat,
           fragmented : BOOLEAN, end : BOOLEAN]

CellsRun(u, records) ==
  /\ u \in [0 .. Len(records) -> Nat] /\ u[0] = 0
  /\ \A n \in 1 .. Len(records) : u[n] = u[n - 1] + records[n].length

\* CellsIn is where any run of its recursion ends.
LEMMA CellsAre ==
  ASSUME NEW records \in Seq(Record), NEW u, CellsRun(u, records)
  PROVE  CellsIn(records) = u[Len(records)]
<1> DEFINE N == Len(records)
           Eq(f) == f = [n \in 0 .. N |-> IF n = 0 THEN 0 ELSE f[n - 1] + records[n].length]
           f == CHOOSE f : Eq(f)
           P == {n \in Nat : n <= N => f[n] = u[n]}
<1>0. N \in Nat
  OBVIOUS
<1>1. CellsIn(records) = f[N]
  BY DEF CellsIn
<1>2. Eq(u)
  <2> DEFINE g == [n \in 0 .. N |-> IF n = 0 THEN 0 ELSE u[n - 1] + records[n].length]
  <2>1. \A n \in 0 .. N : u[n] = g[n]
    <3> SUFFICES ASSUME NEW n \in 0 .. N PROVE u[n] = g[n]
      OBVIOUS
    <3>1. n = 0 \/ n \in 1 .. N
      BY <1>0
    <3> QED BY <3>1 DEF CellsRun
  <2>2. u \in [0 .. N -> Nat] /\ DOMAIN g = 0 .. N
    BY DEF CellsRun
  <2>3. u = [n \in 0 .. N |-> u[n]]
    BY <2>2
  <2>4. g = [n \in 0 .. N |-> g[n]]
    OBVIOUS
  <2> HIDE DEF g
  <2>5. u = g
    BY <2>1, <2>3, <2>4
  <2> QED BY <2>5 DEF g
<1>3. Eq(f)
  <2> HIDE DEF Eq
  <2> QED BY <1>2
<1> HIDE DEF f
<1>4. 0 \in P
  <2>1. f[0] = 0
    BY <1>0, <1>3
  <2> QED BY <2>1 DEF CellsRun
<1>5. ASSUME NEW n \in P PROVE n + 1 \in P
  <2> SUFFICES ASSUME n + 1 <= N PROVE f[n + 1] = u[n + 1]
    OBVIOUS
  <2>1. n \in Nat /\ n + 1 \in 1 .. N /\ n + 1 \in 0 .. N /\ n + 1 # 0 /\ (n + 1) - 1 = n /\ f[n] = u[n]
    BY <1>0
  <2>2. f[n + 1] = f[n] + records[n + 1].length
    BY <1>3, <2>1
  <2> QED BY <2>1, <2>2 DEF CellsRun
<1>6. N \in P
  <2>1. P \in SUBSET Nat
    OBVIOUS
  <2> HIDE DEF P
  <2>2. P = Nat
    BY <1>4, <1>5, <2>1, SetInduction
  <2> QED BY <1>0, <2>2
<1> QED BY <1>1, <1>6

\* The recursion of CellsIn has a run.
LEMMA CellsHaveRun ==
  ASSUME NEW records \in Seq(Record)
  PROVE  \E u : CellsRun(u, records)
<1>0. PICK N \in Nat : N = Len(records) /\ \A n \in 1 .. N : records[n] \in Record
  OBVIOUS
<1> DEFINE step == [n \in 1 .. N |-> [x \in Nat |-> x + records[n].length]]
<1>1. step \in [1 .. N -> [Nat -> Nat]]
  BY <1>0 DEF Record
<1>2. \A n \in 1 .. N, x \in Nat : step[n][x] = x + records[n].length
  OBVIOUS
<1> HIDE DEF step
<1>3. PICK u : StepsFrom(Nat, 0, N, step, u)
  BY <1>1, RecursionExists
<1>4. u \in [0 .. N -> Nat] /\ u[0] = 0 /\ \A n \in 1 .. N : u[n] = step[n][u[n - 1]]
  BY <1>3 DEF StepsFrom
<1>5. \A n \in 1 .. N : u[n - 1] \in Nat
  BY <1>4
<1>6. CellsRun(u, records)
  BY <1>0, <1>2, <1>4, <1>5 DEF CellsRun
<1> QED BY <1>6

\* No records take no cells.
LEMMA CellsOfNone == CellsIn(<<>>) = 0
<1> DEFINE u == [n \in 0 .. 0 |-> 0]
<1>1. <<>> \in Seq(Record) /\ Len(<<>>) = 0
  OBVIOUS
<1>2. CellsRun(u, <<>>)
  BY DEF CellsRun
<1> QED BY <1>1, <1>2, CellsAre

\* One record more takes its length more.
LEMMA CellsAppend ==
  ASSUME NEW records \in Seq(Record), NEW r \in Record
  PROVE  /\ CellsIn(records) \in Nat
         /\ CellsIn(Append(records, r)) = CellsIn(records) + r.length
<1>1. PICK u : CellsRun(u, records)
  BY CellsHaveRun
<1>2. PICK N \in Nat : N = Len(records)
  OBVIOUS
<1>3. PICK l \in Nat : l = r.length
  BY DEF Record
<1>4. PICK s : s = Append(records, r)
  OBVIOUS
<1>b. /\ s \in Seq(Record) /\ Len(s) = Len(records) + 1
      /\ s[Len(records) + 1] = r /\ \A n \in 1 .. Len(records) : s[n] = records[n]
  BY <1>4, AppendProperties
<1>c. s \in Seq(Record) /\ Len(s) = N + 1 /\ s[N + 1] = r /\ \A n \in 1 .. N : s[n] = records[n]
  BY <1>2, <1>b
<1>a. u \in [0 .. N -> Nat] /\ u[0] = 0 /\ \A n \in 1 .. N : u[n] = u[n - 1] + records[n].length
  BY <1>1, <1>2 DEF CellsRun
<1> DEFINE v == [n \in 0 .. N + 1 |-> IF n <= N THEN u[n] ELSE u[N] + l]
<1>5. v \in [0 .. N + 1 -> Nat] /\ v[0] = 0 /\ v[N + 1] = u[N] + l
  BY <1>a
<1>6. \A n \in 1 .. N + 1 : v[n] = v[n - 1] + s[n].length
  <2> SUFFICES ASSUME NEW n \in 1 .. N + 1 PROVE v[n] = v[n - 1] + s[n].length
    OBVIOUS
  <2>1. CASE n \in 1 .. N
    <3>1. v[n] = u[n] /\ v[n - 1] = u[n - 1] /\ s[n] = records[n]
      BY <1>c, <2>1
    <3> HIDE DEF v
    <3> QED BY <1>a, <2>1, <3>1
  <2>2. CASE n = N + 1
    <3>1. v[n] = u[N] + l /\ v[n - 1] = u[N] /\ s[n] = r
      BY <1>c, <2>2
    <3> HIDE DEF v
    <3> QED BY <1>3, <3>1
  <2> QED BY <2>1, <2>2
<1> HIDE DEF v
<1>7. CellsRun(v, s)
  BY <1>c, <1>5, <1>6 DEF CellsRun
<1>8. CellsIn(s) = v[N + 1]
  BY <1>c, <1>7, CellsAre
<1>9. CellsIn(records) = u[N] /\ u[N] \in Nat
  BY <1>1, <1>2, <1>a, CellsAre
<1> QED BY <1>3, <1>4, <1>5, <1>8, <1>9

-----------------------------------------------------------------------------
(* The batch with its wrap tails.                                          *)

TailBefore(start, w, r) == WrapPadding(start + CellsIn(w), r.length)

Padded(start, w, r) ==
  w \o (IF TailBefore(start, w, r) = 0 THEN <<r>> ELSE <<Padding(TailBefore(start, w, r)), r>>)

PaddedRun(start, w, records) ==
  /\ w \in [0 .. Len(records) -> Seq(Record)] /\ w[0] = <<>>
  /\ \A n \in 1 .. Len(records) : w[n] = Padded(start, w[n - 1], records[n])

\* A record planned after others comes last, after its tail if it needs one.
LEMMA PaddedIs ==
  ASSUME NEW start \in Nat, NEW w \in Seq(Record), NEW r \in Record
  PROVE  /\ Padded(start, w, r) \in Seq(Record)
         /\ TailBefore(start, w, r) \in Nat
         /\ CellsIn(Padded(start, w, r)) = CellsIn(w) + r.length + TailBefore(start, w, r)
         /\ IF TailBefore(start, w, r) = 0
            THEN Padded(start, w, r) = Append(w, r)
            ELSE /\ Padding(TailBefore(start, w, r)) \in Record
                 /\ Padded(start, w, r) = Append(Append(w, Padding(TailBefore(start, w, r))), r)
<1>1. Capacity \in Nat \ {0} /\ CellsIn(w) \in Nat
  BY GeometryAssumption, CellsAppend
<1>2. PICK l \in Nat : l = r.length
  BY DEF Record
<1>3. PICK tail \in Nat : tail = TailBefore(start, w, r)
  <2>1. PICK x \in Nat : x = start + CellsIn(w)
    BY <1>1
  <2>2. x % Capacity \in 0 .. Capacity - 1
    BY <1>1
  <2>3. Capacity - (x % Capacity) \in Nat
    BY <1>1, <2>2
  <2> QED BY <1>2, <2>1, <2>3 DEF TailBefore, WrapPadding, RoomBeforeEnd, Offset
<1>4. CASE tail = 0
  <2>1. Padded(start, w, r) = Append(w, r)
    BY <1>3, <1>4 DEF Padded
  <2>2. Append(w, r) \in Seq(Record) /\ CellsIn(Append(w, r)) = CellsIn(w) + r.length
    BY CellsAppend
  <2> QED BY <1>1, <1>2, <1>3, <1>4, <2>1, <2>2
<1>5. CASE tail # 0
  <2>1. Padding(tail) \in Record /\ Padding(tail).length = tail
    BY DEF Padding, Record, EntryKinds
  <2>2. PICK p \in Record : p = Padding(tail) /\ p.length = tail
    BY <2>1
  <2>a. Append(w, p) \in Seq(Record)
    BY AppendProperties
  <2>3. PICK v \in Seq(Record) : v = Append(w, p)
    BY <2>a
  <2>4. CellsIn(v) = CellsIn(w) + tail
    BY <2>2, <2>3, CellsAppend
  <2>5. Append(v, r) \in Seq(Record) /\ CellsIn(Append(v, r)) = CellsIn(v) + r.length
    BY CellsAppend
  <2>6. Padded(start, w, r) = w \o <<p, r>>
    BY <1>3, <1>5, <2>2 DEF Padded
  <2>7. w \o <<p, r>> = Append(v, r)
    <3>1. /\ <<p, r>> \in Seq(Record) /\ Len(<<p, r>>) = 2 /\ <<p, r>>[1] = p /\ <<p, r>>[2] = r
      OBVIOUS
    <3>2. PICK t \in Seq(Record) : t = <<p, r>> /\ Len(t) = 2 /\ t[1] = p /\ t[2] = r
      BY <3>1
    <3>3. /\ w \o t \in Seq(Record) /\ Len(w \o t) = Len(w) + 2
          /\ \A i \in 1 .. Len(w) + 2 : (w \o t)[i] = IF i <= Len(w) THEN w[i] ELSE t[i - Len(w)]
      BY <3>2, ConcatProperties
    <3>4. /\ Len(v) = Len(w) + 1 /\ v[Len(w) + 1] = p /\ \A i \in 1 .. Len(w) : v[i] = w[i]
      BY <2>3, AppendProperties
    <3>5. /\ Len(Append(v, r)) = Len(v) + 1 /\ Append(v, r)[Len(v) + 1] = r
          /\ \A i \in 1 .. Len(v) : Append(v, r)[i] = v[i]
      BY AppendProperties
    <3>6. PICK m \in Nat : m = Len(w)
      OBVIOUS
    <3>7. PICK a, b : a = w \o t /\ b = Append(v, r)
      OBVIOUS
    <3>8. ASSUME NEW i \in 1 .. m + 2 PROVE a[i] = b[i]
      <4>1. CASE i \in 1 .. m
        BY <3>3, <3>4, <3>5, <3>6, <3>7, <4>1
      <4>2. CASE i = m + 1
        <5>1. i \in 1 .. m + 2 /\ ~(i <= m) /\ i - m = 1 /\ i \in 1 .. m + 1
          BY <4>2
        <5> QED BY <3>2, <3>3, <3>4, <3>5, <3>6, <3>7, <4>2, <5>1
      <4>3. CASE i = m + 2
        <5>1. i \in 1 .. m + 2 /\ ~(i <= m) /\ i - m = 2 /\ i = (m + 1) + 1
          BY <4>3
        <5> QED BY <3>2, <3>3, <3>4, <3>5, <3>6, <3>7, <5>1
      <4> QED BY <3>6, <4>1, <4>2, <4>3
    <3>9. /\ a \in Seq(Record) /\ b \in Seq(Record) /\ Len(a) = m + 2 /\ Len(b) = m + 2
      BY <2>5, <3>3, <3>4, <3>5, <3>6, <3>7
    <3>10. a = b
      BY <3>8, <3>9, SeqEqual
    <3> QED BY <3>2, <3>7, <3>10
  <2>8. CellsIn(Padded(start, w, r)) = CellsIn(w) + l + tail
    <3>1. CellsIn(Append(v, r)) = CellsIn(v) + l /\ CellsIn(v) = CellsIn(w) + tail
      BY <1>2, <2>4, <2>5
    <3>2. CellsIn(Append(v, r)) = CellsIn(w) + l + tail
      BY <1>1, <3>1
    <3> QED BY <2>6, <2>7, <3>2
  <2>9. Padded(start, w, r) = Append(Append(w, Padding(tail)), r)
    BY <2>2, <2>3, <2>6, <2>7
  <2>10. Padded(start, w, r) \in Seq(Record)
    BY <2>5, <2>6, <2>7
  <2> QED BY <1>2, <1>3, <1>5, <2>1, <2>8, <2>9, <2>10
<1> QED BY <1>4, <1>5

\* WithPadding is where any run of its recursion ends.
LEMMA PaddingIsRun ==
  ASSUME NEW start \in Nat, NEW records \in Seq(Record), NEW w, PaddedRun(start, w, records)
  PROVE  WithPadding(start, records) = w[Len(records)]
<1> DEFINE N == Len(records)
           Eq(f) == f = [n \in 0 .. N |->
                           IF n = 0 THEN <<>> ELSE
                             LET planned == f[n - 1]
                                 tail == WrapPadding(start + CellsIn(planned), records[n].length)
                             IN  planned \o (IF tail = 0 THEN <<records[n]>>
                                             ELSE <<Padding(tail), records[n]>>)]
           f == CHOOSE f : Eq(f)
           P == {n \in Nat : n <= N => f[n] = w[n]}
<1>0. N \in Nat
  OBVIOUS
<1>1. WithPadding(start, records) = f[N]
  BY DEF WithPadding
<1>2. Eq(w)
  <2> DEFINE g == [n \in 0 .. N |-> IF n = 0 THEN <<>> ELSE Padded(start, w[n - 1], records[n])]
  <2>1. \A n \in 0 .. N : w[n] = g[n]
    <3> SUFFICES ASSUME NEW n \in 0 .. N PROVE w[n] = g[n]
      OBVIOUS
    <3>1. n = 0 \/ n \in 1 .. N
      BY <1>0
    <3> QED BY <3>1 DEF PaddedRun
  <2>2. w \in [0 .. N -> Seq(Record)] /\ DOMAIN g = 0 .. N
    BY DEF PaddedRun
  <2>3. w = [n \in 0 .. N |-> w[n]]
    BY <2>2
  <2>4. g = [n \in 0 .. N |-> g[n]]
    OBVIOUS
  <2> HIDE DEF g
  <2>5. w = g
    BY <2>1, <2>3, <2>4
  <2> QED BY <2>5 DEF g, Padded, TailBefore
<1>3. Eq(f)
  <2> HIDE DEF Eq
  <2> QED BY <1>2
<1>a. f[0] = <<>> /\ \A n \in 1 .. N : f[n] = Padded(start, f[n - 1], records[n])
  <2> HIDE DEF f
  <2>1. 0 \in 0 .. N /\ \A n \in 1 .. N : n \in 0 .. N /\ n # 0
    BY <1>0
  <2>2. f[0] = <<>>
    BY <1>3, <2>1
  <2>3. ASSUME NEW n \in 1 .. N PROVE f[n] = Padded(start, f[n - 1], records[n])
    BY <1>3, <2>1 DEF Padded, TailBefore
  <2> QED BY <2>2, <2>3
<1> HIDE DEF f
<1>4. 0 \in P
  BY <1>a DEF PaddedRun
<1>5. ASSUME NEW n \in P PROVE n + 1 \in P
  <2> SUFFICES ASSUME n + 1 <= N PROVE f[n + 1] = w[n + 1]
    OBVIOUS
  <2>1. n \in Nat /\ n + 1 \in 1 .. N /\ (n + 1) - 1 = n /\ f[n] = w[n]
    BY <1>0
  <2> QED BY <1>a, <2>1 DEF PaddedRun
<1>6. N \in P
  <2>1. P \in SUBSET Nat
    OBVIOUS
  <2> HIDE DEF P
  <2>2. P = Nat
    BY <1>4, <1>5, <2>1, SetInduction
  <2> QED BY <1>0, <2>2
<1> QED BY <1>1, <1>6

\* The recursion of WithPadding has a run.
LEMMA PaddingHasRun ==
  ASSUME NEW start \in Nat, NEW records \in Seq(Record)
  PROVE  \E w : PaddedRun(start, w, records)
<1>0. PICK N \in Nat : N = Len(records) /\ \A n \in 1 .. N : records[n] \in Record
  OBVIOUS
<1> DEFINE S == Seq(Record)
           step == [n \in 1 .. N |-> [x \in S |-> Padded(start, x, records[n])]]
<1>1. step \in [1 .. N -> [S -> S]]
  BY <1>0, PaddedIs
<1>2. \A n \in 1 .. N, x \in S : step[n][x] = Padded(start, x, records[n])
  OBVIOUS
<1>a. <<>> \in S
  OBVIOUS
<1> HIDE DEF step, S
<1>3. PICK u : StepsFrom(S, <<>>, N, step, u)
  BY <1>1, <1>a, RecursionExists
<1>4. u \in [0 .. N -> S] /\ u[0] = <<>> /\ \A n \in 1 .. N : u[n] = step[n][u[n - 1]]
  BY <1>3 DEF StepsFrom
<1>5. \A n \in 1 .. N : u[n - 1] \in S
  BY <1>4
<1>6. \A n \in 1 .. N : u[n] = Padded(start, u[n - 1], records[n])
  BY <1>2, <1>4, <1>5
<1>7. PaddedRun(start, u, records)
  BY <1>0, <1>4, <1>6 DEF PaddedRun, S
<1> QED BY <1>7

\* What PlannedCells counts, step by step.
PlannedRun(capacity, offset, lengths, N, c) ==
  /\ Len(lengths) = N /\ c \in [0 .. N -> Nat] /\ c[0] = 0
  /\ \A n \in 1 .. N : c[n] = Taken(capacity, offset, c[n - 1], lengths[n])

\* PlannedCells is where any run of its recursion ends.
LEMMA PlannedIs ==
  ASSUME NEW capacity, NEW offset, NEW lengths, NEW N \in Nat, NEW c,
         PlannedRun(capacity, offset, lengths, N, c)
  PROVE  PlannedCells(capacity, offset, lengths) = c[N]
<1> DEFINE Eq(f) == f = [n \in 0 .. N |->
                           IF n = 0 THEN 0
                           ELSE LET cells == f[n - 1]
                                    room == capacity - ((offset + cells) % capacity)
                                IN  cells + lengths[n] + (IF lengths[n] > room THEN room ELSE 0)]
           f == CHOOSE f : Eq(f)
           P == {n \in Nat : n <= N => f[n] = c[n]}
<1>0. /\ Len(lengths) = N /\ c \in [0 .. N -> Nat] /\ c[0] = 0
      /\ \A n \in 1 .. N : c[n] = Taken(capacity, offset, c[n - 1], lengths[n])
  BY DEF PlannedRun
<1>1. PlannedCells(capacity, offset, lengths) = f[N]
  BY <1>0 DEF PlannedCells
<1>2. Eq(c)
  <2> DEFINE g == [n \in 0 .. N |-> IF n = 0 THEN 0 ELSE Taken(capacity, offset, c[n - 1], lengths[n])]
  <2>1. \A n \in 0 .. N : c[n] = g[n]
    <3> SUFFICES ASSUME NEW n \in 0 .. N PROVE c[n] = g[n]
      OBVIOUS
    <3>1. n = 0 \/ n \in 1 .. N
      OBVIOUS
    <3> QED BY <1>0, <3>1
  <2>2. DOMAIN g = 0 .. N
    OBVIOUS
  <2>3. c = [n \in 0 .. N |-> c[n]]
    BY <1>0
  <2>4. g = [n \in 0 .. N |-> g[n]]
    OBVIOUS
  <2> HIDE DEF g
  <2>5. c = g
    BY <2>1, <2>3, <2>4
  <2> QED BY <2>5 DEF g, Taken
<1>3. Eq(f)
  <2> HIDE DEF Eq
  <2> QED BY <1>2
<1>a. f[0] = 0 /\ \A n \in 1 .. N : f[n] = Taken(capacity, offset, f[n - 1], lengths[n])
  <2> HIDE DEF f
  <2>1. 0 \in 0 .. N /\ \A n \in 1 .. N : n \in 0 .. N /\ n # 0
    OBVIOUS
  <2>2. f[0] = 0
    BY <1>3, <2>1
  <2>3. ASSUME NEW n \in 1 .. N PROVE f[n] = Taken(capacity, offset, f[n - 1], lengths[n])
    BY <1>3, <2>1 DEF Taken
  <2> QED BY <2>2, <2>3
<1> HIDE DEF f
<1>4. 0 \in P
  BY <1>0, <1>a
<1>5. ASSUME NEW n \in P PROVE n + 1 \in P
  <2> SUFFICES ASSUME n + 1 <= N PROVE f[n + 1] = c[n + 1]
    OBVIOUS
  <2>1. n \in Nat /\ n + 1 \in 1 .. N /\ (n + 1) - 1 = n /\ f[n] = c[n]
    OBVIOUS
  <2> QED BY <1>0, <1>a, <2>1
<1>6. N \in P
  <2>1. P \in SUBSET Nat
    OBVIOUS
  <2> HIDE DEF P
  <2>2. P = Nat
    BY <1>4, <1>5, <2>1, SetInduction
  <2> QED BY <2>2
<1> QED BY <1>1, <1>6

\* A planned batch takes the cells that the capacity rule counts.
LEMMA PaddedCells ==
  ASSUME NEW start \in Nat, NEW records \in Seq(Record), NEW lengths,
         Len(lengths) = Len(records),
         \A n \in 1 .. Len(records) : lengths[n] = records[n].length
  PROVE  CellsIn(WithPadding(start, records)) = PlannedCells(Capacity, start, lengths)
<1>1. PICK N \in Nat : N = Len(records) /\ \A n \in 1 .. N : records[n] \in Record
  OBVIOUS
<1>2. PICK w : PaddedRun(start, w, records)
  BY PaddingHasRun
<1>3. /\ w \in [0 .. N -> Seq(Record)] /\ w[0] = <<>>
      /\ \A n \in 1 .. N : w[n] = Padded(start, w[n - 1], records[n])
  BY <1>1, <1>2 DEF PaddedRun
<1>4. WithPadding(start, records) = w[N]
  BY <1>1, <1>2, PaddingIsRun
<1> DEFINE c == [n \in 0 .. N |-> CellsIn(w[n])]
<1>5. c \in [0 .. N -> Nat]
  <2>1. \A v \in Seq(Record) : CellsIn(v) \in Nat
    <3> SUFFICES ASSUME NEW v \in Seq(Record) PROVE CellsIn(v) \in Nat
      OBVIOUS
    <3>1. PICK r : r \in Record
      <4>1. Padding(1) \in Record
        BY DEF Padding, Record, EntryKinds
      <4> QED BY <4>1
    <3> QED BY <3>1, CellsAppend
  <2> QED BY <1>3, <2>1
<1>6. c[0] = 0
  BY <1>3, CellsOfNone
<1>7. ASSUME NEW n \in 1 .. N PROVE c[n] = Taken(Capacity, start, c[n - 1], lengths[n])
  <2>1. n - 1 \in 0 .. N /\ n \in 0 .. N /\ records[n] \in Record /\ lengths[n] = records[n].length
    BY <1>1
  <2>2. PICK v \in Seq(Record) : v = w[n - 1]
    BY <1>3, <2>1
  <2>3. PICK r \in Record : r = records[n]
    BY <2>1
  <2>4. w[n] = Padded(start, v, r)
    BY <1>3, <2>2, <2>3
  <2>5. CellsIn(Padded(start, v, r)) = CellsIn(v) + r.length + TailBefore(start, v, r)
    BY PaddedIs
  <2>6. c[n] = CellsIn(v) + r.length + TailBefore(start, v, r) /\ c[n - 1] = CellsIn(v)
    BY <2>1, <2>2, <2>4, <2>5
  <2> HIDE DEF c
  <2> QED BY <2>1, <2>3, <2>6 DEF Taken, TailBefore, WrapPadding, RoomBeforeEnd, Offset
<1>8. CellsIn(w[N]) = c[N]
  OBVIOUS
<1> HIDE DEF c
<1>9. Capacity \in Nat \ {0}
  BY GeometryAssumption
<1>10. PlannedCells(Capacity, start, lengths) = c[N]
  <2>1. Len(lengths) = N
    BY <1>1
  <2>2. PlannedRun(Capacity, start, lengths, N, c)
    BY <1>5, <1>6, <1>7, <2>1 DEF PlannedRun
  <2> QED BY <2>2, PlannedIs
<1> QED BY <1>4, <1>8, <1>10

-----------------------------------------------------------------------------
(* What the receiver makes of the records, one after the other.            *)

Partial == [id : Nat, size : Nat]

\* A record taken in its place leaves q of the partial message p.
Turn(p, r, q) ==
  \/ r.kind = "padding" /\ ~r.end /\ r.size = 0 /\ q = p
  \/ r.kind = "data" /\ ~OutOfPlace(p, r) /\ q = PartialAfter(p, r)
  \/ r.kind \in {"close", "reset"} /\ r.end /\ r.size = 0 /\ p = NoPartial /\ q = NoPartial

Turns(p, s, q, c) ==
  /\ c \in [0 .. Len(s) -> Partial] /\ c[0] = p /\ c[Len(s)] = q
  /\ \A n \in 1 .. Len(s) : Turn(c[n - 1], s[n], c[n])

\* Records each in its place, from the partial message p to q.
Chain(p, s, q) == \E c : Turns(p, s, q, c)

\* The records of one call of send, before padding: the message they make.
Message(records, N, c) ==
  /\ records \in Seq(Record) /\ Len(records) = N
  /\ Turns(NoPartial, records, NoPartial, c)
  /\ \A n \in 1 .. N : records[n].end <=> n = N

\* What the constants of a channel are assumed to be.
LEMMA LimitsHold ==
  /\ Inline \in Nat \ {0} /\ Largest \in Nat /\ Inline <= Largest
  /\ RequiredCapacity(Inline, Largest) <= Capacity
  /\ Capacity \in Nat \ {0}
BY ChannelAssumption, GeometryAssumption DEF ValidConfig, ValidLimits

\* One record that ends in its place is a message.
LEMMA OneRecord ==
  ASSUME NEW r \in Record, Turn(NoPartial, r, NoPartial), r.end
  PROVE  \E c : Message(<<r>>, 1, c)
<1> DEFINE c == [n \in 0 .. 1 |-> NoPartial]
<1>1. <<r>> \in Seq(Record) /\ Len(<<r>>) = 1 /\ <<r>>[1] = r
  OBVIOUS
<1>2. PICK s : s = <<r>>
  OBVIOUS
<1>3. s \in Seq(Record) /\ Len(s) = 1 /\ s[1] = r
  BY <1>1, <1>2
<1>4. c \in [0 .. 1 -> Partial] /\ c[0] = NoPartial /\ c[1] = NoPartial
  BY DEF Partial, NoPartial
<1> HIDE DEF c
<1>5. Turns(NoPartial, s, NoPartial, c)
  <2>1. ASSUME NEW n \in 1 .. 1 PROVE Turn(c[n - 1], s[n], c[n])
    <3>1. n = 1 /\ n - 1 = 0
      OBVIOUS
    <3> QED BY <1>3, <1>4, <3>1
  <2> QED BY <1>3, <1>4, <2>1 DEF Turns
<1>6. \A n \in 1 .. 1 : s[n].end <=> n = 1
  BY <1>3
<1>7. Message(s, 1, c)
  BY <1>3, <1>5, <1>6 DEF Message
<1> QED BY <1>2, <1>7

\* The record of a close or reset is a message of its own.
LEMMA EndIsMessage ==
  ASSUME NEW e, nextId[e] \in Nat \ {0}, NEW kind \in {"close", "reset"}
  PROVE  \E r \in Record : /\ ControlRecord(e, kind) = <<r>> /\ r.kind = kind
                           /\ \E c : Message(<<r>>, 1, c)
<1> DEFINE r == [kind |-> kind, id |-> nextId[e], size |-> 0, length |-> RecordCells(0),
                 fragmented |-> FALSE, end |-> TRUE]
<1>1. r \in Record /\ r.kind = kind /\ r.size = 0 /\ r.end
  BY RecordCellsGrow DEF Record, EntryKinds
<1>2. ControlRecord(e, kind) = <<r>>
  BY DEF ControlRecord
<1> HIDE DEF r
<1>3. Turn(NoPartial, r, NoPartial)
  BY <1>1 DEF Turn
<1> QED BY <1>1, <1>2, <1>3, OneRecord

\* A payload that one record holds makes one record.
LEMMA SmallIsMessage ==
  ASSUME NEW e, nextId[e] \in Nat \ {0}, NEW payload \in Nat, payload <= Inline
  PROVE  \E r \in Record : /\ DataRecords(e, payload) = <<r>>
                           /\ r.kind = "data" /\ r.length = RecordCells(payload)
                           /\ \E c : Message(<<r>>, 1, c)
<1> DEFINE r == [kind |-> "data", id |-> nextId[e], size |-> payload,
                 length |-> RecordCells(payload), fragmented |-> FALSE, end |-> TRUE]
<1>1. r \in Record /\ r.kind = "data" /\ r.length = RecordCells(payload) /\ r.end /\ ~r.fragmented
  BY RecordCellsGrow DEF Record, EntryKinds
<1>2. DataRecords(e, payload) = <<r>>
  <2>1. FragmentSizes(Inline, payload) = <<payload>>
    BY DEF FragmentSizes
  <2>2. Len(<<payload>>) = 1 /\ DOMAIN <<payload>> = {1} /\ <<payload>>[1] = payload
    OBVIOUS
  <2>3. PICK s : s = <<payload>> /\ Len(s) = 1 /\ DOMAIN s = {1} /\ s[1] = payload
    BY <2>2
  <2>4. DataRecords(e, payload) =
          [i \in DOMAIN s |-> [kind |-> "data", id |-> nextId[e], size |-> s[i],
             length |-> RecordCells(s[i]), fragmented |-> Len(s) > 1, end |-> i = Len(s)]]
    BY <2>1, <2>3 DEF DataRecords
  <2>5. \A i \in {1} : [kind |-> "data", id |-> nextId[e], size |-> s[i],
             length |-> RecordCells(s[i]), fragmented |-> Len(s) > 1, end |-> i = Len(s)] = r
    <3> SUFFICES ASSUME NEW i \in {1}
                 PROVE  [kind |-> "data", id |-> nextId[e], size |-> s[i],
                         length |-> RecordCells(s[i]), fragmented |-> Len(s) > 1,
                         end |-> i = Len(s)] = r
      OBVIOUS
    <3>1. (Len(s) > 1) = FALSE /\ (i = Len(s)) = TRUE /\ s[i] = payload
      BY <2>3
    <3> QED BY <3>1, Zenon
  <2>6. DataRecords(e, payload) = [i \in {1} |-> r]
    BY <2>3, <2>4, <2>5
  <2> HIDE DEF r
  <2>7. [i \in {1} |-> r] = <<r>>
    <3>1. {1} = 1 .. 1
      OBVIOUS
    <3>2. [i \in 1 .. 1 |-> r] = <<r>>
      OBVIOUS
    <3> QED BY <3>1, <3>2
  <2> QED BY <2>6, <2>7
<1> HIDE DEF r
<1>3. Turn(NoPartial, r, NoPartial)
  BY <1>1 DEF Turn, OutOfPlace, PartialAfter
<1> QED BY <1>1, <1>2, <1>3, OneRecord

\* How far a message has come after n of its fragments.
Reached(id, N, n) == IF n = 0 \/ n = N THEN NoPartial ELSE [id |-> id, size |-> n * Inline]

\* One fragment of a larger message, in its place.
LEMMA FragmentTurns ==
  ASSUME NEW id \in Nat \ {0}, NEW payload \in 0 .. Largest,
         NEW q \in Nat, NEW rest \in 0 .. Inline - 1, NEW N \in Nat,
         payload = q * Inline + rest, q >= 1, Inline < payload,
         N = IF rest = 0 THEN q ELSE q + 1,
         NEW n \in 1 .. N, NEW r \in Record, r.kind = "data", r.id = id, r.fragmented,
         r.size = IF n <= q THEN Inline ELSE rest,
         r.end <=> n = N
  PROVE  Turn(Reached(id, N, n - 1), r, Reached(id, N, n))
<1>1. Inline \in Nat \ {0} /\ Largest \in Nat
  BY LimitsHold
<1>2. N >= 2
  <2>1. CASE q >= 2
    BY <2>1
  <2>2. CASE q = 1
    <3>1. q * Inline = Inline
      BY <1>1, <2>2
    <3> QED BY <1>1, <2>2, <3>1
  <2> QED BY <2>1, <2>2
<1>3. PICK a \in Nat, b \in Nat, whole \in Nat :
        /\ a = (n - 1) * Inline /\ b = n * Inline /\ b = a + Inline /\ whole = q * Inline
        /\ n <= q => b <= whole
        /\ n > 1 => Inline <= a
  <2>1. n - 1 \in Nat /\ n \in Nat /\ (n - 1) + 1 = n
    OBVIOUS
  <2>2. (n - 1) * Inline \in Nat /\ ((n - 1) + 1) * Inline = (n - 1) * Inline + Inline
    BY <1>1, <2>1, Products
  <2>3. n * Inline \in Nat /\ q * Inline \in Nat /\ (n <= q => n * Inline <= q * Inline)
    BY <1>1, <2>1, Products
  <2>4. n > 1 => 1 * Inline <= (n - 1) * Inline
    BY <1>1, <2>1, Products
  <2> QED BY <1>1, <2>1, <2>2, <2>3, <2>4
<1>4. n <= q \/ (n = N /\ n = q + 1 /\ rest # 0)
  OBVIOUS
<1>5. payload = whole + rest
  BY <1>3
<1>6. PICK p : p = Reached(id, N, n - 1)
  OBVIOUS
<1>7. p.size = a /\ (p = NoPartial <=> n = 1) /\ (n # 1 => p.id = id)
  <2>1. CASE n = 1
    <3>1. p = NoPartial /\ a = 0
      BY <1>1, <1>3, <1>6, <2>1 DEF Reached
    <3> QED BY <2>1, <3>1 DEF NoPartial
  <2>2. CASE n # 1
    <3>1. p = [id |-> id, size |-> (n - 1) * Inline]
      BY <1>6, <2>2 DEF Reached
    <3>2. p = [id |-> id, size |-> a]
      BY <1>3, <3>1
    <3>3. p.id = id /\ p.size = a /\ NoPartial.id = 0
      BY <3>2 DEF NoPartial
    <3> QED BY <2>2, <3>3
  <2> QED BY <2>1, <2>2
<1>8. r.size # 0
  BY <1>1, <1>4
<1>9. a + r.size <= Largest
  <2>1. CASE n <= q
    BY <1>1, <1>3, <1>5, <2>1
  <2>2. CASE n = N /\ n = q + 1 /\ rest # 0
    <3>1. b = whole + Inline
      BY <1>1, <1>3, <2>2, Products
    <3>2. a = whole
      BY <1>1, <1>3, <3>1
    <3> QED BY <1>1, <1>5, <2>2, <3>2
  <2> QED BY <1>4, <2>1, <2>2
<1>10. ~OutOfPlace(p, r)
  <2>1. ~(p = NoPartial /\ r.end)
    BY <1>2, <1>7
  <2>2. ~(p # NoPartial /\ p.id # r.id)
    BY <1>7
  <2>3. ~(p.size + r.size > Largest)
    BY <1>1, <1>7, <1>9 DEF Record
  <2> QED BY <1>8, <2>1, <2>2, <2>3 DEF OutOfPlace
<1>11. PartialAfter(p, r) = Reached(id, N, n)
  <2>1. CASE n = N
    BY <2>1 DEF PartialAfter, Reached
  <2>2. CASE n # N
    <3>1. ~r.end /\ n <= q
      BY <1>4, <2>2
    <3>2. PartialAfter(p, r) = [id |-> id, size |-> a + Inline]
      BY <1>7, <1>10, <3>1 DEF PartialAfter, Extended
    <3>3. Reached(id, N, n) = [id |-> id, size |-> n * Inline]
      BY <2>2 DEF Reached
    <3> QED BY <1>3, <3>2, <3>3
  <2> QED BY <2>1, <2>2
<1> QED BY <1>6, <1>10, <1>11 DEF Turn

\* The fragments of a larger payload make a message, each in its place.
LEMMA LargeIsMessage ==
  ASSUME NEW e, nextId[e] \in Nat \ {0}, NEW payload \in 0 .. Largest, Inline < payload
  PROVE  \E N \in Nat \ {0} :
           /\ \E c : Message(DataRecords(e, payload), N, c)
           /\ Len(RecordLengths(Inline, payload)) = N
           /\ \A n \in 1 .. N :
                /\ DataRecords(e, payload)[n].length = RecordLengths(Inline, payload)[n]
                /\ DataRecords(e, payload)[n].kind = "data"
<1>1. Inline \in Nat \ {0} /\ Largest \in Nat /\ payload \in Nat
  BY LimitsHold
<1>0. PICK q \in Nat, rest \in 0 .. Inline - 1, N \in Nat : Split(Inline, payload, q, rest, N)
  BY <1>1, SizesAre
<1>2. /\ payload = q * Inline + rest /\ q >= 1 /\ N = (IF rest = 0 THEN q ELSE q + 1)
      /\ FragmentSizes(Inline, payload) \in Seq(Nat)
      /\ DOMAIN FragmentSizes(Inline, payload) = 1 .. N
      /\ \A i \in 1 .. N : FragmentSizes(Inline, payload)[i] = IF i <= q THEN Inline ELSE rest
  BY <1>0, Zenon DEF Split
<1>a. payload = q * Inline + rest /\ q >= 1 /\ N = (IF rest = 0 THEN q ELSE q + 1)
  BY <1>2
<1>3. PICK s \in Seq(Nat) : /\ s = FragmentSizes(Inline, payload) /\ DOMAIN s = 1 .. N
                            /\ \A i \in 1 .. N : s[i] = IF i <= q THEN Inline ELSE rest
  BY <1>2
<1>4. Len(s) = N
  BY <1>3
<1>5. N > 1
  <2>1. CASE q >= 2
    BY <1>a, <2>1
  <2>2. CASE q = 1
    <3>1. q * Inline = Inline
      BY <1>1, <2>2
    <3> QED BY <1>1, <1>a, <2>2, <3>1
  <2> QED BY <1>a, <2>1, <2>2
<1>6. PICK id \in Nat \ {0} : id = nextId[e]
  OBVIOUS
<1> DEFINE Part(i) == [kind |-> "data", id |-> id, size |-> s[i], length |-> RecordCells(s[i]),
                       fragmented |-> TRUE, end |-> i = N]
           records == [i \in 1 .. N |-> Part(i)]
<1>7. DataRecords(e, payload) = records
  <2>1. DataRecords(e, payload) =
          [i \in DOMAIN s |-> [kind |-> "data", id |-> nextId[e], size |-> s[i],
             length |-> RecordCells(s[i]), fragmented |-> Len(s) > 1, end |-> i = Len(s)]]
    BY <1>3 DEF DataRecords
  <2>2. (Len(s) > 1) = TRUE
    BY <1>4, <1>5
  <2> QED BY <1>3, <1>4, <1>6, <2>1, <2>2, Zenon
<1>8. ASSUME NEW i \in 1 .. N
      PROVE  /\ Part(i) \in Record /\ Part(i).kind = "data" /\ Part(i).id = id
             /\ Part(i).fragmented /\ Part(i).size = s[i] /\ Part(i).length = RecordCells(s[i])
             /\ (Part(i).end <=> i = N)
  <2>1. s[i] \in Nat
    BY <1>3
  <2>2. RecordCells(s[i]) \in Nat
    BY <2>1, RecordCellsNat
  <2>3. (i = N) \in BOOLEAN /\ "data" \in EntryKinds
    BY DEF EntryKinds
  <2>4. Part(i) \in Record
    BY <2>1, <2>2, <2>3, Zenon DEF Record
  <2>5. (Part(i).end) = (i = N)
    BY Zenon
  <2> QED BY <2>4, <2>5
<1> HIDE DEF Part
<1>9. records \in Seq(Record) /\ Len(records) = N /\ \A i \in 1 .. N : records[i] = Part(i)
  <2>1. records \in [1 .. N -> Record]
    BY <1>8
  <2>2. DOMAIN records = 1 .. N
    OBVIOUS
  <2>3. \A i \in 1 .. N : records[i] = Part(i)
    OBVIOUS
  <2> HIDE DEF records
  <2> QED BY <2>1, <2>2, <2>3
<1> HIDE DEF records
<1> DEFINE c == [n \in 0 .. N |-> Reached(id, N, n)]
<1>10. c \in [0 .. N -> Partial] /\ c[0] = NoPartial /\ c[N] = NoPartial
  <2>1. \A n \in 0 .. N : n * Inline \in Nat
    BY <1>1, Products
  <2>2. \A n \in 0 .. N : Reached(id, N, n) \in Partial
    BY <2>1 DEF Reached, Partial, NoPartial
  <2> QED BY <2>2 DEF Reached
<1>11. ASSUME NEW n \in 1 .. N PROVE Turn(c[n - 1], records[n], c[n])
  <2>1. PICK r \in Record : r = Part(n)
    BY <1>8
  <2>2. /\ r.kind = "data" /\ r.id = id /\ r.fragmented
        /\ r.size = IF n <= q THEN Inline ELSE rest
        /\ (r.end <=> n = N)
    BY <1>3, <1>8, <2>1
  <2>3. Turn(Reached(id, N, n - 1), r, Reached(id, N, n))
    BY <1>a, <2>2, FragmentTurns
  <2>4. c[n - 1] = Reached(id, N, n - 1) /\ c[n] = Reached(id, N, n)
    OBVIOUS
  <2> HIDE DEF c
  <2> QED BY <1>9, <2>1, <2>3, <2>4
<1> HIDE DEF c
<1>12. Turns(NoPartial, records, NoPartial, c)
  BY <1>9, <1>10, <1>11 DEF Turns
<1>13. Message(records, N, c)
  BY <1>8, <1>9, <1>12 DEF Message
<1>14. Len(RecordLengths(Inline, payload)) = N
       /\ \A n \in 1 .. N : RecordLengths(Inline, payload)[n] = RecordCells(s[n])
  <2>1. RecordLengths(Inline, payload) = [i \in 1 .. N |-> RecordCells(s[i])]
    BY <1>3 DEF RecordLengths
  <2> DEFINE l == [i \in 1 .. N |-> RecordCells(s[i])]
  <2>2. l \in [1 .. N -> Nat] /\ DOMAIN l = 1 .. N /\ \A i \in 1 .. N : l[i] = RecordCells(s[i])
    <3>1. \A i \in 1 .. N : s[i] \in Nat
      BY <1>3
    <3> QED BY <3>1, RecordCellsNat
  <2> HIDE DEF l
  <2>3. Len(l) = N
    BY <2>2
  <2> QED BY <2>1, <2>2, <2>3 DEF l
<1>15. \A n \in 1 .. N : /\ records[n].length = RecordLengths(Inline, payload)[n]
                         /\ records[n].kind = "data"
  <2> SUFFICES ASSUME NEW n \in 1 .. N
               PROVE  /\ records[n].length = RecordLengths(Inline, payload)[n]
                      /\ records[n].kind = "data"
    OBVIOUS
  <2>1. records[n] = Part(n)
    BY <1>9
  <2>2. Part(n).kind = "data" /\ Part(n).length = RecordCells(s[n])
    BY <1>8
  <2> QED BY <1>14, <2>1, <2>2
<1>16. N \in Nat \ {0}
  BY <1>5
<1> QED BY <1>7, <1>13, <1>14, <1>15, <1>16

\* No records leave the partial message as it is.
LEMMA ChainNone ==
  ASSUME NEW p \in Partial PROVE Chain(p, <<>>, p)
<1> DEFINE c == [n \in 0 .. 0 |-> p]
<1>1. c \in [0 .. 0 -> Partial] /\ c[0] = p /\ Len(<<>>) = 0
  OBVIOUS
<1>2. Turns(p, <<>>, p, c)
  BY <1>1 DEF Turns
<1> QED BY <1>2 DEF Chain

\* A chain grows by a record in its place at its end.
LEMMA ChainAppend ==
  ASSUME NEW s \in Seq(Record), NEW r \in Record, NEW p, NEW q, NEW x \in Partial,
         Chain(p, s, q), Turn(q, r, x)
  PROVE  Chain(p, Append(s, r), x)
<1>1. PICK c : Turns(p, s, q, c)
  BY DEF Chain
<1>2. PICK N \in Nat : N = Len(s)
  OBVIOUS
<1>3. /\ c \in [0 .. N -> Partial] /\ c[0] = p /\ c[N] = q
      /\ \A n \in 1 .. N : Turn(c[n - 1], s[n], c[n])
  BY <1>1, <1>2 DEF Turns
<1>4. PICK t : t = Append(s, r)
  OBVIOUS
<1>5. Len(t) = N + 1 /\ t[N + 1] = r /\ \A n \in 1 .. N : t[n] = s[n]
  BY <1>2, <1>4, AppendProperties
<1> DEFINE d == [n \in 0 .. N + 1 |-> IF n <= N THEN c[n] ELSE x]
<1>6. d \in [0 .. N + 1 -> Partial] /\ d[0] = p /\ d[N + 1] = x
  BY <1>3
<1>7. ASSUME NEW n \in 1 .. N + 1 PROVE Turn(d[n - 1], t[n], d[n])
  <2>1. CASE n \in 1 .. N
    <3>1. d[n] = c[n] /\ d[n - 1] = c[n - 1] /\ t[n] = s[n]
      BY <1>5, <2>1
    <3> QED BY <1>3, <2>1, <3>1
  <2>2. CASE n = N + 1
    <3>1. d[n] = x /\ d[n - 1] = q /\ t[n] = r
      BY <1>3, <1>5, <2>2
    <3> QED BY <3>1
  <2> QED BY <2>1, <2>2
<1> HIDE DEF d
<1>8. Turns(p, t, x, d)
  BY <1>5, <1>6, <1>7 DEF Turns
<1> QED BY <1>4, <1>8 DEF Chain

\* A chain loses its first record to a reader.
LEMMA ChainTail ==
  ASSUME NEW s \in Seq(Record), s # <<>>, NEW p, NEW q, Chain(p, s, q)
  PROVE  \E x \in Partial : Turn(p, Head(s), x) /\ Chain(x, Tail(s), q)
<1>1. PICK c : Turns(p, s, q, c)
  BY DEF Chain
<1>2. PICK N \in Nat : N + 1 = Len(s)
  <2>1. Len(s) \in Nat \ {0}
    BY EmptySeq
  <2> QED BY <2>1
<1>3. /\ c \in [0 .. N + 1 -> Partial] /\ c[0] = p /\ c[N + 1] = q
      /\ \A n \in 1 .. N + 1 : Turn(c[n - 1], s[n], c[n])
  BY <1>1, <1>2 DEF Turns
<1>4. PICK t : t = Tail(s)
  OBVIOUS
<1>5. Len(t) = N /\ Head(s) = s[1] /\ \A n \in 1 .. N : t[n] = s[n + 1]
  BY <1>2, <1>4, HeadTailProperties
<1>6. c[1] \in Partial /\ Turn(p, Head(s), c[1])
  <2>1. 1 \in 0 .. N + 1 /\ 1 \in 1 .. N + 1 /\ 1 - 1 = 0
    OBVIOUS
  <2> QED BY <1>3, <1>5, <2>1
<1> DEFINE d == [n \in 0 .. N |-> c[n + 1]]
<1>7. d \in [0 .. N -> Partial] /\ d[0] = c[1] /\ d[N] = q
  BY <1>3
<1>8. ASSUME NEW n \in 1 .. N PROVE Turn(d[n - 1], t[n], d[n])
  <2>1. d[n - 1] = c[n] /\ d[n] = c[n + 1] /\ t[n] = s[n + 1]
    BY <1>5
  <2>2. n + 1 \in 1 .. N + 1 /\ (n + 1) - 1 = n
    OBVIOUS
  <2> HIDE DEF d
  <2>3. Turn(c[(n + 1) - 1], s[n + 1], c[n + 1])
    BY <1>3, <2>2
  <2> QED BY <2>1, <2>2, <2>3
<1> HIDE DEF d
<1>9. Turns(c[1], t, q, d)
  BY <1>5, <1>7, <1>8 DEF Turns
<1> QED BY <1>4, <1>6, <1>9 DEF Chain

\* Two chains that meet are one.
LEMMA ChainConcat ==
  ASSUME NEW s \in Seq(Record), NEW t \in Seq(Record), NEW p, NEW q, NEW x,
         Chain(p, s, q), Chain(q, t, x)
  PROVE  Chain(p, s \o t, x)
<1>1. PICK c, d : Turns(p, s, q, c) /\ Turns(q, t, x, d)
  BY DEF Chain
<1>2. PICK M \in Nat, N \in Nat : M = Len(s) /\ N = Len(t)
  OBVIOUS
<1>3. /\ c \in [0 .. M -> Partial] /\ c[0] = p /\ c[M] = q
      /\ \A n \in 1 .. M : Turn(c[n - 1], s[n], c[n])
  BY <1>1, <1>2 DEF Turns
<1>4. /\ d \in [0 .. N -> Partial] /\ d[0] = q /\ d[N] = x
      /\ \A n \in 1 .. N : Turn(d[n - 1], t[n], d[n])
  BY <1>1, <1>2 DEF Turns
<1>5. PICK u : u = s \o t
  OBVIOUS
<1>6. Len(u) = M + N /\ \A n \in 1 .. M + N : u[n] = IF n <= M THEN s[n] ELSE t[n - M]
  BY <1>2, <1>5, ConcatProperties
<1> DEFINE f == [n \in 0 .. M + N |-> IF n <= M THEN c[n] ELSE d[n - M]]
<1>7. f \in [0 .. M + N -> Partial] /\ f[0] = p /\ f[M + N] = x
  <2>1. ASSUME NEW n \in 0 .. M + N PROVE f[n] \in Partial
    <3>1. n \in 0 .. M \/ (~(n <= M) /\ n - M \in 0 .. N)
      OBVIOUS
    <3> QED BY <1>3, <1>4, <3>1
  <2>2. f[0] = p
    BY <1>3
  <2>3. f[M + N] = x
    <3>1. M + N \in 0 .. M + N /\ (M + N <= M => N = 0 /\ M + N = M) /\ (M + N) - M = N
      OBVIOUS
    <3> QED BY <1>3, <1>4, <3>1
  <2>4. f = [n \in 0 .. M + N |-> f[n]]
    OBVIOUS
  <2> HIDE DEF f
  <2> QED BY <2>1, <2>2, <2>3, <2>4
<1>8. ASSUME NEW n \in 1 .. M + N PROVE Turn(f[n - 1], u[n], f[n])
  <2>1. CASE n <= M
    <3>1. f[n] = c[n] /\ f[n - 1] = c[n - 1] /\ u[n] = s[n] /\ n \in 1 .. M
      BY <1>6, <2>1
    <3> HIDE DEF f
    <3> QED BY <1>3, <3>1
  <2>2. CASE n > M
    <3>1. PICK k \in 1 .. N : k = n - M
      BY <2>2
    <3>2. f[n] = d[k] /\ f[n - 1] = d[k - 1] /\ u[n] = t[k]
      <4>1. f[n] = d[k] /\ u[n] = t[k]
        BY <1>6, <2>2, <3>1
      <4>2. CASE k = 1
        BY <1>3, <1>4, <3>1, <4>1, <4>2
      <4>3. CASE k # 1
        <5>1. ~(n - 1 <= M) /\ (n - 1) - M = k - 1 /\ n - 1 \in 0 .. M + N
          BY <3>1, <4>3
        <5> QED BY <4>1, <5>1
      <4> QED BY <4>2, <4>3
    <3> HIDE DEF f
    <3> QED BY <1>4, <3>1, <3>2
  <2> QED BY <2>1, <2>2
<1> HIDE DEF f
<1>9. Turns(p, u, x, f)
  BY <1>6, <1>7, <1>8 DEF Turns
<1> QED BY <1>5, <1>9 DEF Chain

-----------------------------------------------------------------------------
(* A batch: the records of one message or of one end, with its wrap tails. *)

Batch(records, data) ==
  /\ records \in Seq(Record) /\ records # <<>>
  /\ Chain(NoPartial, records, NoPartial)
  /\ \A n \in 1 .. Len(records) : records[n].end <=> n = Len(records)
  /\ data <=> records[Len(records)].kind = "data"

\* A padded record is in its place wherever the record was.
LEMMA PaddedTurns ==
  ASSUME NEW start \in Nat, NEW w \in Seq(Record), NEW r \in Record,
         NEW p, NEW q \in Partial, NEW x \in Partial, Chain(p, w, q), Turn(q, r, x),
         \A n \in 1 .. Len(w) : ~w[n].end
  PROVE  LET v == Padded(start, w, r)
         IN  /\ v \in Seq(Record) /\ v # <<>> /\ Chain(p, v, x) /\ v[Len(v)] = r
             /\ \A n \in 1 .. Len(v) - 1 : ~v[n].end
<1>1. CASE TailBefore(start, w, r) = 0
  <2>1. PICK v \in Seq(Record) : v = Padded(start, w, r) /\ v = Append(w, r)
    BY <1>1, PaddedIs
  <2>2. Chain(p, v, x)
    BY <2>1, ChainAppend
  <2>3. v # <<>> /\ Len(v) = Len(w) + 1 /\ v[Len(w) + 1] = r /\ \A n \in 1 .. Len(w) : v[n] = w[n]
    BY <2>1, AppendProperties
  <2>4. \A n \in 1 .. Len(v) - 1 : ~v[n].end
    BY <2>3
  <2> QED BY <2>1, <2>2, <2>3, <2>4
<1>2. CASE TailBefore(start, w, r) # 0
  <2>1. PICK tail : tail = TailBefore(start, w, r)
    OBVIOUS
  <2>2. PICK pad \in Record : pad = Padding(tail)
    BY <1>2, <2>1, PaddedIs
  <2>3. Append(w, pad) \in Seq(Record)
    BY AppendProperties
  <2>4. PICK u \in Seq(Record) : u = Append(w, pad)
    BY <2>3
  <2>a. Padded(start, w, r) = Append(Append(w, Padding(tail)), r)
    BY <1>2, <2>1, PaddedIs
  <2>b. Padded(start, w, r) = Append(u, r) /\ Padded(start, w, r) \in Seq(Record)
    <3>1. Padded(start, w, r) \in Seq(Record)
      BY PaddedIs
    <3> QED BY <2>2, <2>4, <2>a, <3>1
  <2>5. PICK v \in Seq(Record) : v = Padded(start, w, r) /\ v = Append(u, r)
    BY <2>b
  <2>6. pad.kind = "padding" /\ ~pad.end /\ pad.size = 0
    BY <2>2 DEF Padding
  <2>7. Chain(p, u, q)
    <3>1. Turn(q, pad, q)
      BY <2>6 DEF Turn
    <3> QED BY <2>4, <3>1, ChainAppend
  <2>8. Chain(p, v, x)
    BY <2>5, <2>7, ChainAppend
  <2>9. Len(u) = Len(w) + 1 /\ u[Len(w) + 1] = pad /\ \A n \in 1 .. Len(w) : u[n] = w[n]
    BY <2>4, AppendProperties
  <2>10. v # <<>> /\ Len(v) = Len(u) + 1 /\ v[Len(u) + 1] = r /\ \A n \in 1 .. Len(u) : v[n] = u[n]
    BY <2>5, AppendProperties
  <2>11. PICK m \in Nat : m = Len(w)
    OBVIOUS
  <2>12. ASSUME NEW n \in 1 .. Len(v) - 1 PROVE ~v[n].end
    <3>1. n \in 1 .. m + 1 /\ v[n] = u[n]
      BY <2>9, <2>10, <2>11
    <3>2. n \in 1 .. m \/ n = m + 1
      BY <3>1
    <3> QED BY <2>6, <2>9, <2>11, <3>1, <3>2
  <2> QED BY <2>5, <2>8, <2>10, <2>12
<1> QED BY <1>1, <1>2

\* A message stays one batch when its wrap tail is put in its place.
LEMMA PaddedMessage ==
  ASSUME NEW start \in Nat, NEW N \in Nat \ {0}, NEW records, NEW c, Message(records, N, c)
  PROVE  Batch(WithPadding(start, records), records[N].kind = "data")
<1>1. /\ records \in Seq(Record) /\ Len(records) = N
      /\ c \in [0 .. N -> Partial] /\ c[0] = NoPartial /\ c[N] = NoPartial
      /\ \A n \in 1 .. N : Turn(c[n - 1], records[n], c[n])
      /\ \A n \in 1 .. N : records[n].end <=> n = N
  BY DEF Message, Turns
<1>2. PICK w : PaddedRun(start, w, records)
  BY <1>1, PaddingHasRun
<1>3. /\ w \in [0 .. N -> Seq(Record)] /\ w[0] = <<>>
      /\ \A n \in 1 .. N : w[n] = Padded(start, w[n - 1], records[n])
  BY <1>1, <1>2 DEF PaddedRun
<1>4. WithPadding(start, records) = w[N]
  BY <1>1, <1>2, PaddingIsRun
<1> DEFINE Good(n) == /\ Chain(NoPartial, w[n], c[n])
                      /\ \A k \in 1 .. Len(w[n]) : ~w[n][k].end
           P == {n \in Nat : n < N => Good(n)}
<1>5. ASSUME NEW n \in Nat, n < N, Good(n)
      PROVE  /\ w[n + 1] \in Seq(Record) /\ w[n + 1] # <<>>
             /\ Chain(NoPartial, w[n + 1], c[n + 1])
             /\ w[n + 1][Len(w[n + 1])] = records[n + 1]
             /\ \A k \in 1 .. Len(w[n + 1]) - 1 : ~w[n + 1][k].end
  <2>1. n + 1 \in 1 .. N /\ n \in 0 .. N /\ n + 1 \in 0 .. N /\ (n + 1) - 1 = n
    BY <1>5
  <2>2. PICK v \in Seq(Record), r \in Record, q \in Partial, x \in Partial :
          v = w[n] /\ r = records[n + 1] /\ q = c[n] /\ x = c[n + 1]
    <3>1. w[n] \in Seq(Record) /\ c[n] \in Partial /\ c[n + 1] \in Partial
      BY <1>1, <1>3, <2>1
    <3>2. records[n + 1] \in Record
      BY <1>1, <2>1, ElementOfSeq
    <3> QED BY <3>1, <3>2
  <2>3. Turn(q, r, x) /\ w[n + 1] = Padded(start, v, r)
    BY <1>1, <1>3, <2>1, <2>2
  <2>4. Chain(NoPartial, v, q) /\ \A k \in 1 .. Len(v) : ~v[k].end
    BY <1>5, <2>2
  <2> HIDE DEF Good
  <2>5. LET u == Padded(start, v, r)
        IN  /\ u \in Seq(Record) /\ u # <<>> /\ Chain(NoPartial, u, x) /\ u[Len(u)] = r
            /\ \A k \in 1 .. Len(u) - 1 : ~u[k].end
    BY <2>3, <2>4, PaddedTurns
  <2> QED BY <2>2, <2>3, <2>5
<1>6. 0 \in P
  <2>1. NoPartial \in Partial /\ Len(<<>>) = 0
    BY DEF NoPartial, Partial
  <2>2. Chain(NoPartial, w[0], c[0])
    BY <1>1, <1>3, <2>1, ChainNone
  <2> QED BY <1>3, <2>1, <2>2
<1>7. ASSUME NEW n \in P PROVE n + 1 \in P
  <2> SUFFICES ASSUME n + 1 < N PROVE Good(n + 1)
    OBVIOUS
  <2>1. n \in Nat /\ n < N /\ Good(n)
    OBVIOUS
  <2>2. /\ w[n + 1] \in Seq(Record) /\ w[n + 1] # <<>> /\ Chain(NoPartial, w[n + 1], c[n + 1])
        /\ w[n + 1][Len(w[n + 1])] = records[n + 1]
        /\ \A k \in 1 .. Len(w[n + 1]) - 1 : ~w[n + 1][k].end
    <3> HIDE DEF Good, P
    <3> QED BY <1>5, <2>1
  <2>3. ~records[n + 1].end
    BY <1>1, <2>1
  <2>4. ASSUME NEW k \in 1 .. Len(w[n + 1]) PROVE ~w[n + 1][k].end
    <3>1. k \in 1 .. Len(w[n + 1]) - 1 \/ k = Len(w[n + 1])
      BY <2>2
    <3> QED BY <2>2, <2>3, <3>1
  <2> QED BY <2>2, <2>4
<1>8. P = Nat
  <2>1. P \in SUBSET Nat
    OBVIOUS
  <2> HIDE DEF P
  <2> QED BY <1>6, <1>7, <2>1, SetInduction
<1>9. PICK n \in Nat : n + 1 = N
  OBVIOUS
<1>10. n \in P /\ n < N
  BY <1>8, <1>9
<1>11. Good(n)
  BY <1>10
<1> HIDE DEF Good, P
<1>12. /\ w[n + 1] \in Seq(Record) /\ w[n + 1] # <<>> /\ Chain(NoPartial, w[n + 1], c[n + 1])
       /\ w[n + 1][Len(w[n + 1])] = records[n + 1]
       /\ \A k \in 1 .. Len(w[n + 1]) - 1 : ~w[n + 1][k].end
  BY <1>5, <1>10, <1>11
<1>13. PICK b : b = w[N]
  OBVIOUS
<1>14. /\ b \in Seq(Record) /\ b # <<>> /\ Chain(NoPartial, b, NoPartial)
       /\ b[Len(b)] = records[N] /\ \A k \in 1 .. Len(b) - 1 : ~b[k].end
  BY <1>1, <1>9, <1>12, <1>13
<1>15. records[N].end
  BY <1>1
<1>16. ASSUME NEW k \in 1 .. Len(b) PROVE b[k].end <=> k = Len(b)
  <2>1. k \in 1 .. Len(b) - 1 \/ k = Len(b)
    BY <1>14
  <2>2. Len(b) \in Nat
    BY <1>14
  <2> QED BY <1>14, <1>15, <2>1, <2>2
<1>17. Batch(b, records[N].kind = "data")
  BY <1>14, <1>16 DEF Batch
<1> QED BY <1>4, <1>13, <1>17

-----------------------------------------------------------------------------
(* The items that records make.                                            *)

Item == [kind : EntryKinds \cup {"message"}, id : Nat, size : Nat]

Sofar == [items : Seq(Item), size : Nat]

\* One record read.
ReadOne(x, r) ==
  IF r.end THEN [items |-> Append(x.items, ItemOf(r, x.size)), size |-> 0]
  ELSE [items |-> x.items, size |-> x.size + r.size]

ReadRun(size, s, f) ==
  /\ f \in [0 .. Len(s) -> Sofar] /\ f[0] = [items |-> <<>>, size |-> size]
  /\ \A n \in 1 .. Len(s) : f[n] = ReadOne(f[n - 1], s[n])

\* Reassembled is where any run of its recursion ends.
LEMMA ReadIs ==
  ASSUME NEW size \in Nat, NEW s \in Seq(Record), NEW g, ReadRun(size, s, g)
  PROVE  Reassembled(size, s) = g[Len(s)]
<1> DEFINE N == Len(s)
           Eq(f) == f = [n \in 0 .. N |->
                           IF n = 0 THEN [items |-> <<>>, size |-> size]
                           ELSE LET before == f[n - 1]
                                    r == s[n]
                                IN  IF r.end
                                    THEN [items |-> Append(before.items, ItemOf(r, before.size)),
                                          size |-> 0]
                                    ELSE [items |-> before.items, size |-> before.size + r.size]]
           f == CHOOSE f : Eq(f)
           P == {n \in Nat : n <= N => f[n] = g[n]}
<1>0. N \in Nat
  OBVIOUS
<1>1. Reassembled(size, s) = f[N]
  BY DEF Reassembled
<1>2. Eq(g)
  <2> DEFINE h == [n \in 0 .. N |-> IF n = 0 THEN [items |-> <<>>, size |-> size]
                                    ELSE ReadOne(g[n - 1], s[n])]
  <2>1. \A n \in 0 .. N : g[n] = h[n]
    <3> SUFFICES ASSUME NEW n \in 0 .. N PROVE g[n] = h[n]
      OBVIOUS
    <3>1. n = 0 \/ n \in 1 .. N
      BY <1>0
    <3> QED BY <3>1 DEF ReadRun
  <2>2. g \in [0 .. N -> Sofar] /\ DOMAIN h = 0 .. N
    BY DEF ReadRun
  <2>3. g = [n \in 0 .. N |-> g[n]]
    BY <2>2
  <2>4. h = [n \in 0 .. N |-> h[n]]
    OBVIOUS
  <2> HIDE DEF h
  <2>5. g = h
    BY <2>1, <2>3, <2>4
  <2> QED BY <2>5 DEF h, ReadOne
<1>3. Eq(f)
  <2> HIDE DEF Eq
  <2> QED BY <1>2
<1>a. f[0] = [items |-> <<>>, size |-> size] /\ \A n \in 1 .. N : f[n] = ReadOne(f[n - 1], s[n])
  <2> HIDE DEF f
  <2>1. 0 \in 0 .. N /\ \A n \in 1 .. N : n \in 0 .. N /\ n # 0
    BY <1>0
  <2>2. f[0] = [items |-> <<>>, size |-> size]
    BY <1>3, <2>1
  <2>3. ASSUME NEW n \in 1 .. N PROVE f[n] = ReadOne(f[n - 1], s[n])
    BY <1>3, <2>1 DEF ReadOne
  <2> QED BY <2>2, <2>3
<1> HIDE DEF f
<1>4. 0 \in P
  BY <1>a DEF ReadRun
<1>5. ASSUME NEW n \in P PROVE n + 1 \in P
  <2> SUFFICES ASSUME n + 1 <= N PROVE f[n + 1] = g[n + 1]
    OBVIOUS
  <2>1. n \in Nat /\ n + 1 \in 1 .. N /\ (n + 1) - 1 = n /\ f[n] = g[n]
    BY <1>0
  <2> QED BY <1>a, <2>1 DEF ReadRun
<1>6. N \in P
  <2>1. P \in SUBSET Nat
    OBVIOUS
  <2> HIDE DEF P
  <2>2. P = Nat
    BY <1>4, <1>5, <2>1, SetInduction
  <2> QED BY <1>0, <2>2
<1> QED BY <1>1, <1>6

\* A record completes an item.
LEMMA ItemsAre ==
  ASSUME NEW r \in Record, NEW size \in Nat PROVE ItemOf(r, size) \in Item
<1>1. (IF r.kind = "data" THEN "message" ELSE r.kind) \in EntryKinds \cup {"message"}
  BY DEF Record
<1>2. size + r.size \in Nat /\ r.id \in Nat
  BY DEF Record
<1> QED BY <1>1, <1>2 DEF ItemOf, Item

\* One record read keeps the type of what was read.
LEMMA ReadType ==
  ASSUME NEW x \in Sofar, NEW r \in Record PROVE ReadOne(x, r) \in Sofar
<1>1. x.items \in Seq(Item) /\ x.size \in Nat /\ r.size \in Nat
  BY DEF Sofar, Record
<1>2. Append(x.items, ItemOf(r, x.size)) \in Seq(Item)
  BY <1>1, ItemsAre, AppendProperties
<1>3. x.size + r.size \in Nat
  BY <1>1
<1> QED BY <1>1, <1>2, <1>3 DEF ReadOne, Sofar

\* The recursion of Reassembled has a run.
LEMMA ReadHasRun ==
  ASSUME NEW size \in Nat, NEW s \in Seq(Record)
  PROVE  \E f : ReadRun(size, s, f)
<1>0. PICK N \in Nat : N = Len(s) /\ \A n \in 1 .. N : s[n] \in Record
  OBVIOUS
<1> DEFINE base == [items |-> <<>>, size |-> size]
           step == [n \in 1 .. N |-> [x \in Sofar |-> ReadOne(x, s[n])]]
<1>1. step \in [1 .. N -> [Sofar -> Sofar]]
  BY <1>0, ReadType
<1>2. \A n \in 1 .. N, x \in Sofar : step[n][x] = ReadOne(x, s[n])
  OBVIOUS
<1>a. base \in Sofar
  BY DEF Sofar
<1> HIDE DEF step, base
<1>3. PICK u : StepsFrom(Sofar, base, N, step, u)
  BY <1>1, <1>a, RecursionExists
<1>4. u \in [0 .. N -> Sofar] /\ u[0] = base /\ \A n \in 1 .. N : u[n] = step[n][u[n - 1]]
  BY <1>3 DEF StepsFrom
<1>5. \A n \in 1 .. N : u[n - 1] \in Sofar
  BY <1>4
<1>6. \A n \in 1 .. N : u[n] = ReadOne(u[n - 1], s[n])
  BY <1>2, <1>4, <1>5
<1>7. ReadRun(size, s, u)
  BY <1>0, <1>4, <1>6 DEF ReadRun, base
<1> QED BY <1>7

\* No records make no items.
LEMMA ReadNone ==
  ASSUME NEW size \in Nat PROVE Reassembled(size, <<>>) = [items |-> <<>>, size |-> size]
<1> DEFINE x == [items |-> <<>>, size |-> size]
           f == [n \in 0 .. 0 |-> x]
<1>1. x \in Sofar
  BY DEF Sofar
<1> HIDE DEF x
<1>2. <<>> \in Seq(Record) /\ Len(<<>>) = 0 /\ f \in [0 .. 0 -> Sofar] /\ f[0] = x
  BY <1>1
<1>3. ReadRun(size, <<>>, f)
  BY <1>2 DEF ReadRun, x
<1> HIDE DEF f
<1> QED BY <1>2, <1>3, ReadIs DEF x

\* Reassembled makes a sequence of items and some bytes left over.
LEMMA ReadTyped ==
  ASSUME NEW size \in Nat, NEW s \in Seq(Record) PROVE Reassembled(size, s) \in Sofar
<1>1. PICK f : ReadRun(size, s, f)
  BY ReadHasRun
<1>2. Len(s) \in 0 .. Len(s) /\ f \in [0 .. Len(s) -> Sofar]
  BY <1>1 DEF ReadRun
<1> QED BY <1>1, <1>2, ReadIs

\* A record in its place leaves as many bytes as the partial message has.
LEMMA TurnSize ==
  ASSUME NEW p \in Partial, NEW r \in Record, NEW q, Turn(p, r, q)
  PROVE  q \in Partial /\ q.size = IF r.end THEN 0 ELSE p.size + r.size
<1>1. /\ p.size \in Nat /\ p.id \in Nat /\ r.size \in Nat /\ r.id \in Nat
      /\ NoPartial.size = 0 /\ NoPartial \in Partial
  BY DEF Partial, Record, NoPartial
<1>2. CASE r.kind = "padding" /\ ~r.end /\ r.size = 0 /\ q = p
  BY <1>1, <1>2
<1>3. CASE r.kind = "data" /\ ~OutOfPlace(p, r) /\ q = PartialAfter(p, r)
  <2>1. CASE r.end
    BY <1>1, <1>3, <2>1 DEF PartialAfter
  <2>2. CASE ~r.end
    <3>1. q = [id |-> r.id, size |-> p.size + r.size]
      BY <1>3, <2>2 DEF PartialAfter, Extended
    <3> QED BY <1>1, <2>2, <3>1 DEF Partial
  <2> QED BY <2>1, <2>2
<1>4. CASE r.kind \in {"close", "reset"} /\ r.end /\ r.size = 0 /\ p = NoPartial /\ q = NoPartial
  BY <1>1, <1>4
<1> QED BY <1>2, <1>3, <1>4 DEF Turn

\* Along a chain, the bytes read are those of the partial message.
LEMMA ChainSize ==
  ASSUME NEW p \in Partial, NEW q, NEW s \in Seq(Record), Chain(p, s, q)
  PROVE  Reassembled(p.size, s).size = q.size
<1>0. PICK N \in Nat : N = Len(s) /\ \A n \in 1 .. N : s[n] \in Record
  OBVIOUS
<1>a. p.size \in Nat
  BY DEF Partial
<1>1. PICK c : Turns(p, s, q, c)
  BY DEF Chain
<1>2. /\ c \in [0 .. N -> Partial] /\ c[0] = p /\ c[N] = q
      /\ \A n \in 1 .. N : Turn(c[n - 1], s[n], c[n])
  BY <1>0, <1>1 DEF Turns
<1>3. PICK f : ReadRun(p.size, s, f)
  BY <1>a, ReadHasRun
<1>4. /\ f \in [0 .. N -> Sofar] /\ f[0] = [items |-> <<>>, size |-> p.size]
      /\ \A n \in 1 .. N : f[n] = ReadOne(f[n - 1], s[n])
  BY <1>0, <1>3 DEF ReadRun
<1> DEFINE P == {n \in Nat : n <= N => f[n].size = c[n].size}
<1>5. 0 \in P
  BY <1>2, <1>4
<1>6. ASSUME NEW n \in P PROVE n + 1 \in P
  <2> SUFFICES ASSUME n + 1 <= N PROVE f[n + 1].size = c[n + 1].size
    OBVIOUS
  <2>1. n \in Nat /\ n + 1 \in 1 .. N /\ (n + 1) - 1 = n /\ f[n].size = c[n].size /\ n \in 0 .. N
    OBVIOUS
  <2>2. PICK r \in Record : r = s[n + 1]
    BY <1>0, <2>1
  <2>3. c[n] \in Partial /\ Turn(c[n], r, c[n + 1])
    BY <1>2, <2>1, <2>2
  <2>4. c[n + 1].size = IF r.end THEN 0 ELSE c[n].size + r.size
    BY <2>3, TurnSize
  <2>5. f[n + 1] = ReadOne(f[n], r)
    BY <1>4, <2>1, <2>2
  <2>6. f[n + 1].size = IF r.end THEN 0 ELSE f[n].size + r.size
    BY <2>5 DEF ReadOne
  <2> QED BY <2>1, <2>4, <2>6
<1>7. N \in P
  <2>1. P \in SUBSET Nat
    OBVIOUS
  <2> HIDE DEF P
  <2>2. P = Nat
    BY <1>5, <1>6, <2>1, SetInduction
  <2> QED BY <2>2
<1>8. Reassembled(p.size, s) = f[N]
  BY <1>0, <1>3, <1>a, ReadIs
<1> QED BY <1>2, <1>7, <1>8

\* Appending to the second of two sequences appends to both.
LEMMA ConcatAppend ==
  ASSUME NEW a \in Seq(Item), NEW b \in Seq(Item), NEW i \in Item
  PROVE  Append(a \o b, i) = a \o Append(b, i)
<1>1. /\ a \o b \in Seq(Item) /\ Append(b, i) \in Seq(Item) /\ <<i>> \in Seq(Item)
  BY ConcatProperties, AppendProperties
<1>2. Append(a \o b, i) = (a \o b) \o <<i>> /\ Append(b, i) = b \o <<i>>
  BY <1>1, AppendIsConcat
<1> QED BY <1>1, <1>2, ConcatAssociative

\* Items read before do not matter to the next record.
LEMMA ReadPrefixed ==
  ASSUME NEW x \in Sofar, NEW first \in Seq(Item), NEW r \in Record
  PROVE  ReadOne([items |-> first \o x.items, size |-> x.size], r) =
           [items |-> first \o ReadOne(x, r).items, size |-> ReadOne(x, r).size]
<1>1. x.items \in Seq(Item) /\ x.size \in Nat
  BY DEF Sofar
<1>2. PICK i \in Item : i = ItemOf(r, x.size)
  BY <1>1, ItemsAre
<1>3. Append(first \o x.items, i) = first \o Append(x.items, i)
  BY <1>1, ConcatAppend
<1>4. CASE r.end
  BY <1>2, <1>3, <1>4 DEF ReadOne
<1>5. CASE ~r.end
  BY <1>5 DEF ReadOne
<1> QED BY <1>4, <1>5

\* The items of records are what the first makes and then the others.
LEMMA ReadTail ==
  ASSUME NEW size \in Nat, NEW s \in Seq(Record), s # <<>>
  PROVE  Reassembled(size, s).items =
           IF Head(s).end THEN <<ItemOf(Head(s), size)>> \o Reassembled(0, Tail(s)).items
           ELSE Reassembled(size + Head(s).size, Tail(s)).items
<1>1. PICK r \in Record, t \in Seq(Record) : r = Head(s) /\ t = Tail(s)
  BY HeadTailProperties
<1>2. PICK N \in Nat : N + 1 = Len(s)
  <2>1. Len(s) \in Nat \ {0}
    BY EmptySeq
  <2> QED BY <2>1
<1>3. Len(t) = N /\ r = s[1] /\ \A n \in 1 .. N : t[n] = s[n + 1] /\ t[n] \in Record
  BY <1>1, <1>2, HeadTailProperties
<1>4. PICK i \in Item : i = ItemOf(r, size)
  BY ItemsAre
<1>5. PICK left \in Nat : left = IF r.end THEN 0 ELSE size + r.size
  BY DEF Record
<1>6. PICK first \in Seq(Item) : first = IF r.end THEN <<i>> ELSE <<>>
  <2>1. <<i>> \in Seq(Item) /\ <<>> \in Seq(Item)
    OBVIOUS
  <2>2. (IF r.end THEN <<i>> ELSE <<>>) \in Seq(Item)
    BY <2>1
  <2> QED BY <2>2
<1>7. PICK g : ReadRun(left, t, g)
  BY ReadHasRun
<1>8. /\ g \in [0 .. N -> Sofar] /\ g[0] = [items |-> <<>>, size |-> left]
      /\ \A n \in 1 .. N : g[n] = ReadOne(g[n - 1], t[n])
  BY <1>3, <1>7 DEF ReadRun
<1> DEFINE After(x) == [items |-> first \o x.items, size |-> x.size]
           f == [n \in 0 .. N + 1 |-> IF n = 0 THEN [items |-> <<>>, size |-> size]
                                      ELSE After(g[n - 1])]
<1>9. \A x \in Sofar : After(x) \in Sofar
  BY ConcatProperties DEF Sofar
<1>10. f \in [0 .. N + 1 -> Sofar]
  <2>1. [items |-> <<>>, size |-> size] \in Sofar
    BY DEF Sofar
  <2>2. \A n \in 0 .. N + 1 : n # 0 => n - 1 \in 0 .. N
    OBVIOUS
  <2> HIDE DEF After
  <2> QED BY <1>8, <1>9, <2>1, <2>2
<1>11. f[0] = [items |-> <<>>, size |-> size] /\ \A n \in 1 .. N + 1 : f[n] = After(g[n - 1])
  OBVIOUS
<1> HIDE DEF f
<1>12. ASSUME NEW n \in 1 .. N + 1 PROVE f[n] = ReadOne(f[n - 1], s[n])
  <2>1. CASE n = 1
    <3>1. f[1] = After(g[0]) /\ f[1 - 1] = [items |-> <<>>, size |-> size]
      <4>1. 1 \in 1 .. N + 1 /\ 1 - 1 = 0
        OBVIOUS
      <4> HIDE DEF After
      <4> QED BY <1>11, <4>1
    <3>2. After(g[0]) = [items |-> first \o <<>>, size |-> left]
      BY <1>8
    <3>3. first \o <<>> = first
      BY ConcatEmptySeq
    <3>4. ReadOne([items |-> <<>>, size |-> size], r) = [items |-> first, size |-> left]
      <4>1. Append(<<>>, i) = <<i>>
        OBVIOUS
      <4>2. CASE r.end
        BY <1>4, <1>5, <1>6, <4>1, <4>2 DEF ReadOne
      <4>3. CASE ~r.end
        BY <1>5, <1>6, <4>3 DEF ReadOne
      <4> QED BY <4>2, <4>3
    <3> HIDE DEF After
    <3> QED BY <1>3, <2>1, <3>1, <3>2, <3>3, <3>4
  <2>2. CASE n # 1
    <3>1. PICK k \in 1 .. N : n = k + 1
      BY <2>2
    <3>2. f[n] = After(g[k]) /\ f[n - 1] = After(g[k - 1])
      <4>1. n - 1 = k /\ n - 1 \in 1 .. N + 1 /\ (n - 1) - 1 = k - 1
        BY <3>1
      <4> HIDE DEF After
      <4> QED BY <1>11, <4>1
    <3>3. PICK x \in Sofar, y \in Record : x = g[k - 1] /\ y = t[k]
      <4>1. k - 1 \in 0 .. N
        OBVIOUS
      <4> QED BY <1>3, <1>8, <4>1
    <3>4. g[k] = ReadOne(x, y) /\ s[n] = y
      BY <1>3, <1>8, <3>1, <3>3
    <3>5. ReadOne(After(x), y) = After(ReadOne(x, y))
      BY ReadPrefixed
    <3> HIDE DEF After
    <3> QED BY <3>2, <3>3, <3>4, <3>5
  <2> QED BY <2>1, <2>2
<1>13. ReadRun(size, s, f)
  BY <1>2, <1>10, <1>11, <1>12 DEF ReadRun
<1>14. Reassembled(size, s) = f[N + 1] /\ Reassembled(left, t) = g[N]
  BY <1>2, <1>3, <1>7, <1>13, ReadIs
<1>15. f[N + 1] = After(g[N])
  <2>1. N + 1 \in 1 .. N + 1 /\ (N + 1) - 1 = N
    OBVIOUS
  <2> HIDE DEF After
  <2> QED BY <1>11, <2>1
<1>16. Reassembled(size, s).items = first \o Reassembled(left, t).items
  BY <1>14, <1>15
<1>17. PICK z \in Seq(Item) : z = Reassembled(left, t).items
  BY ReadTyped DEF Sofar
<1>18. <<>> \o z = z
  BY ConcatEmptySeq
<1>19. CASE r.end
  BY <1>1, <1>4, <1>5, <1>6, <1>16, <1>19
<1>20. CASE ~r.end
  BY <1>1, <1>5, <1>6, <1>16, <1>17, <1>18, <1>20
<1> QED BY <1>1, <1>19, <1>20

\* Records read after a whole message make the items they make alone.
LEMMA ReadConcat ==
  ASSUME NEW size \in Nat, NEW s \in Seq(Record), NEW t \in Seq(Record),
         Reassembled(size, s).size = 0
  PROVE  Reassembled(size, s \o t).items =
           Reassembled(size, s).items \o Reassembled(0, t).items
<1>1. PICK M \in Nat, N \in Nat : M = Len(s) /\ N = Len(t)
  OBVIOUS
<1>2. PICK f, g : ReadRun(size, s, f) /\ ReadRun(0, t, g)
  BY ReadHasRun
<1>3. /\ f \in [0 .. M -> Sofar] /\ f[0] = [items |-> <<>>, size |-> size]
      /\ \A n \in 1 .. M : f[n] = ReadOne(f[n - 1], s[n])
  BY <1>1, <1>2 DEF ReadRun
<1>4. /\ g \in [0 .. N -> Sofar] /\ g[0] = [items |-> <<>>, size |-> 0]
      /\ \A n \in 1 .. N : g[n] = ReadOne(g[n - 1], t[n])
  BY <1>1, <1>2 DEF ReadRun
<1>5. Reassembled(size, s) = f[M] /\ Reassembled(0, t) = g[N]
  BY <1>1, <1>2, ReadIs
<1>6. PICK first \in Seq(Item) : first = f[M].items /\ f[M].size = 0
  BY <1>3, <1>5 DEF Sofar
<1>7. PICK u : u = s \o t
  OBVIOUS
<1>8. /\ u \in Seq(Record) /\ Len(u) = M + N
      /\ \A n \in 1 .. M + N : u[n] = IF n <= M THEN s[n] ELSE t[n - M]
  BY <1>1, <1>7, ConcatProperties
<1> DEFINE After(x) == [items |-> first \o x.items, size |-> x.size]
           h == [n \in 0 .. M + N |-> IF n <= M THEN f[n] ELSE After(g[n - M])]
<1>9. \A x \in Sofar : After(x) \in Sofar
  BY ConcatProperties DEF Sofar
<1>10. After(g[0]) = f[M]
  <2>1. first \o <<>> = first
    BY ConcatEmptySeq
  <2>2. f[M] \in Sofar
    BY <1>3
  <2> QED BY <1>4, <1>6, <2>1, <2>2 DEF Sofar
<1> HIDE DEF After
<1>11. ASSUME NEW n \in 0 .. M + N PROVE h[n] \in Sofar
  <2>1. n \in 0 .. M \/ (~(n <= M) /\ n - M \in 0 .. N)
    OBVIOUS
  <2> QED BY <1>3, <1>4, <1>9, <2>1
<1>12. /\ DOMAIN h = 0 .. M + N /\ h = [n \in 0 .. M + N |-> h[n]]
       /\ h[0] = [items |-> <<>>, size |-> size]
       /\ \A n \in 0 .. M : h[n] = f[n]
  BY <1>3
<1>13. \A k \in 0 .. N : h[M + k] = After(g[k])
  <2> SUFFICES ASSUME NEW k \in 0 .. N PROVE h[M + k] = After(g[k])
    OBVIOUS
  <2>1. M + k \in 0 .. M + N /\ (M + k) - M = k /\ (M + k <= M <=> k = 0) /\ M + 0 = M
    OBVIOUS
  <2> QED BY <1>10, <2>1
<1> HIDE DEF h
<1>14. ASSUME NEW n \in 1 .. M + N PROVE h[n] = ReadOne(h[n - 1], u[n])
  <2>1. CASE n <= M
    <3>0. n \in 0 .. M /\ n - 1 \in 0 .. M /\ n \in 1 .. M
      BY <2>1
    <3>1. h[n] = f[n] /\ h[n - 1] = f[n - 1]
      BY <1>12, <3>0
    <3>2. u[n] = s[n]
      BY <1>8, <2>1
    <3> QED BY <1>3, <3>0, <3>1, <3>2
  <2>2. CASE n > M
    <3>1. PICK k \in 1 .. N : n = M + k
      <4>1. n - M \in 1 .. N /\ n = M + (n - M)
        BY <2>2
      <4> QED BY <4>1
    <3>2. h[n] = After(g[k]) /\ h[n - 1] = After(g[k - 1])
      <4>1. k \in 0 .. N /\ k - 1 \in 0 .. N /\ n - 1 = M + (k - 1)
        BY <3>1
      <4> QED BY <1>13, <3>1, <4>1
    <3>3. u[n] = t[k]
      BY <1>8, <2>2, <3>1
    <3>4. PICK x \in Sofar, y \in Record : x = g[k - 1] /\ y = t[k]
      <4>1. k - 1 \in 0 .. N /\ t[k] \in Record
        BY <1>1
      <4> QED BY <1>4, <4>1
    <3>5. ReadOne(After(x), y) = After(ReadOne(x, y))
      BY ReadPrefixed DEF After
    <3> QED BY <1>4, <3>2, <3>3, <3>4, <3>5
  <2> QED BY <2>1, <2>2
<1>15. ReadRun(size, u, h)
  BY <1>8, <1>11, <1>12, <1>14 DEF ReadRun
<1>16. Reassembled(size, u) = h[M + N]
  BY <1>8, <1>15, ReadIs
<1>17. h[M + N] = After(g[N])
  BY <1>13
<1>18. After(g[N]).items = first \o g[N].items
  BY DEF After
<1>19. first = Reassembled(size, s).items
  BY <1>5, <1>6
<1>20. Reassembled(size, u).items = first \o Reassembled(0, t).items
  BY <1>5, <1>16, <1>17, <1>18
<1> QED BY <1>7, <1>19, <1>20

\* A batch makes one item.
LEMMA BatchItem ==
  ASSUME NEW b, NEW data \in BOOLEAN, Batch(b, data)
  PROVE  \E i \in Item : Reassembled(0, b).items = <<i>> /\ (i.kind = "message" <=> data)
<1>1. /\ b \in Seq(Record) /\ b # <<>> /\ \A n \in 1 .. Len(b) : b[n].end <=> n = Len(b)
      /\ data <=> b[Len(b)].kind = "data"
  BY DEF Batch
<1>2. PICK N \in Nat : N + 1 = Len(b)
  <2>1. Len(b) \in Nat \ {0}
    BY <1>1, EmptySeq
  <2> QED BY <2>1
<1>3. PICK f : ReadRun(0, b, f)
  BY <1>1, ReadHasRun
<1>4. /\ f \in [0 .. N + 1 -> Sofar] /\ f[0] = [items |-> <<>>, size |-> 0]
      /\ \A n \in 1 .. N + 1 : f[n] = ReadOne(f[n - 1], b[n])
  BY <1>2, <1>3 DEF ReadRun
<1> DEFINE P == {n \in Nat : n <= N => f[n].items = <<>>}
<1>5. 0 \in P
  BY <1>4
<1>6. ASSUME NEW n \in P PROVE n + 1 \in P
  <2> SUFFICES ASSUME n + 1 <= N PROVE f[n + 1].items = <<>>
    OBVIOUS
  <2>1. n \in Nat /\ n + 1 \in 1 .. N + 1 /\ (n + 1) - 1 = n /\ f[n].items = <<>> /\ n + 1 # Len(b)
    BY <1>2
  <2>2. ~b[n + 1].end
    BY <1>1, <1>2, <2>1
  <2>3. f[n + 1] = ReadOne(f[n], b[n + 1])
    BY <1>4, <2>1
  <2>4. ReadOne(f[n], b[n + 1]) = [items |-> f[n].items, size |-> f[n].size + b[n + 1].size]
    BY <2>2 DEF ReadOne
  <2> QED BY <2>1, <2>3, <2>4
<1>7. N \in P
  <2>1. P \in SUBSET Nat
    OBVIOUS
  <2> HIDE DEF P
  <2>2. P = Nat
    BY <1>5, <1>6, <2>1, SetInduction
  <2> QED BY <2>2
<1>8. f[N].items = <<>> /\ f[N] \in Sofar
  BY <1>4, <1>7
<1>9. PICK r \in Record : r = b[N + 1] /\ r.end
  <2>1. N + 1 \in 1 .. Len(b)
    BY <1>2
  <2> QED BY <1>1, <1>2, <2>1, ElementOfSeq
<1>10. PICK size \in Nat : size = f[N].size
  BY <1>8 DEF Sofar
<1>11. PICK i \in Item : i = ItemOf(r, size)
  BY ItemsAre
<1>12. f[N + 1].items = <<i>>
  <2>1. f[N + 1] = ReadOne(f[N], r)
    <3>1. N + 1 \in 1 .. N + 1 /\ (N + 1) - 1 = N
      OBVIOUS
    <3> QED BY <1>4, <1>9, <3>1
  <2>2. Append(<<>>, i) = <<i>>
    OBVIOUS
  <2> QED BY <1>8, <1>9, <1>10, <1>11, <2>1, <2>2 DEF ReadOne
<1>13. i.kind = "message" <=> r.kind = "data"
  <2>1. r.kind \in EntryKinds /\ i.kind = IF r.kind = "data" THEN "message" ELSE r.kind
    BY <1>11 DEF Record, ItemOf
  <2> QED BY <2>1 DEF EntryKinds
<1>14. Reassembled(0, b) = f[N + 1]
  <2>1. b \in Seq(Record) /\ ReadRun(0, b, f) /\ 0 \in Nat
    BY <1>1, <1>3
  <2>2. Reassembled(0, b) = f[Len(b)]
    BY <2>1, ReadIs
  <2> QED BY <1>2, <2>2
<1> QED BY <1>1, <1>2, <1>9, <1>12, <1>13, <1>14

\* What send plans is one batch that makes one message.
LEMMA SendIsBatch ==
  ASSUME NEW e \in End, position[e] \in Offsets, nextId[e] \in Nat \ {0},
         NEW payload \in 0 .. Largest
  PROVE  Batch(PlannedSend(e, payload), TRUE)
<1>1. PICK start \in Nat : start = position[e]
  BY DEF Offsets
<1>2. payload \in Nat /\ Inline \in Nat
  BY LimitsHold
<1>3. \E N, c : /\ N \in Nat \ {0}
                /\ Message(DataRecords(e, payload), N, c)
                /\ DataRecords(e, payload)[N].kind = "data"
  <2>1. CASE payload <= Inline
    <3>1. PICK r, c : /\ r \in Record /\ r.kind = "data"
                     /\ DataRecords(e, payload) = <<r>> /\ Message(<<r>>, 1, c)
      BY <1>2, <2>1, SmallIsMessage
    <3>2. <<r>>[1] = r /\ 1 \in Nat \ {0}
      OBVIOUS
    <3>3. Message(DataRecords(e, payload), 1, c) /\ DataRecords(e, payload)[1].kind = "data"
      BY <3>1, <3>2
    <3> QED BY <3>2, <3>3
  <2>2. CASE Inline < payload
    <3>1. PICK N, c :
            /\ N \in Nat \ {0}
            /\ Message(DataRecords(e, payload), N, c)
            /\ \A n \in 1 .. N : DataRecords(e, payload)[n].kind = "data"
      BY <2>2, LargeIsMessage
    <3>2. N \in 1 .. N
      BY <3>1
    <3> QED BY <3>1, <3>2
  <2> QED BY <1>2, <2>1, <2>2
<1>4. PICK N, records, c :
        N \in Nat \ {0} /\ records = DataRecords(e, payload) /\ Message(records, N, c) /\ records[N].kind = "data"
  BY <1>3
<1>5. Batch(WithPadding(start, records), records[N].kind = "data")
  BY <1>4, PaddedMessage
<1>6. (records[N].kind = "data") = TRUE
  BY <1>4
<1> QED BY <1>1, <1>4, <1>5, <1>6 DEF PlannedSend

\* What close and reset plan is one batch that makes one end.
LEMMA EndIsBatch ==
  ASSUME NEW e \in End, position[e] \in Offsets, nextId[e] \in Nat \ {0},
         NEW kind \in {"close", "reset"}
  PROVE  Batch(WithPadding(position[e], ControlRecord(e, kind)), FALSE)
<1>1. PICK start \in Nat : start = position[e]
  BY DEF Offsets
<1>2. PICK r, c : /\ r \in Record /\ r.kind = kind
                 /\ ControlRecord(e, kind) = <<r>> /\ Message(<<r>>, 1, c)
  BY EndIsMessage
<1>a. <<r>>[1] = r
  OBVIOUS
<1>3. PICK records : records = <<r>> /\ records[1] = r
  BY <1>a
<1>4. Message(records, 1, c) /\ 1 \in Nat \ {0}
  BY <1>2, <1>3
<1>5. Batch(WithPadding(start, records), records[1].kind = "data")
  BY <1>4, PaddedMessage
<1>6. (records[1].kind = "data") = FALSE
  BY <1>2, <1>3
<1> QED BY <1>1, <1>2, <1>3, <1>5, <1>6

\* What an application may send fits an empty ring at every offset.
LEMMA SendFitsEmptyRing ==
  ASSUME Inline < Largest, NEW e \in End, position[e] \in Offsets, nextId[e] \in Nat \ {0},
         NEW payload \in 0 .. Largest
  PROVE  CellsIn(PlannedSend(e, payload)) <= Capacity
<1>1. PICK start \in 0 .. Capacity - 1 : start = position[e]
  BY DEF Offsets
<1>2. payload \in Nat /\ Inline \in Nat \ {0} /\ Largest \in Nat /\ Capacity \in Nat
  BY LimitsHold
<1>3. PICK records, lengths :
        /\ records = DataRecords(e, payload) /\ lengths = RecordLengths(Inline, payload)
        /\ records \in Seq(Record) /\ Len(lengths) = Len(records)
        /\ \A n \in 1 .. Len(records) : lengths[n] = records[n].length
  <2>1. CASE payload <= Inline
    <3>1. PICK r \in Record : DataRecords(e, payload) = <<r>> /\ r.length = RecordCells(payload)
      BY <1>2, <2>1, SmallIsMessage
    <3>2. RecordLengths(Inline, payload) = <<r.length>>
      <4>1. FragmentSizes(Inline, payload) = <<payload>>
        BY <2>1 DEF FragmentSizes
      <4>a. DOMAIN <<payload>> = 1 .. 1 /\ <<payload>>[1] = payload
        OBVIOUS
      <4>2. PICK s : s = <<payload>> /\ DOMAIN s = 1 .. 1 /\ s[1] = payload
        BY <4>a
      <4>3. RecordLengths(Inline, payload) = [i \in 1 .. 1 |-> RecordCells(s[i])]
        BY <4>1, <4>2 DEF RecordLengths
      <4>4. \A i \in 1 .. 1 : s[i] = payload
        BY <4>2
      <4>5. RecordLengths(Inline, payload) = [i \in 1 .. 1 |-> r.length]
        BY <3>1, <4>3, <4>4
      <4>6. PICK x : x = r.length
        OBVIOUS
      <4>7. [i \in 1 .. 1 |-> x] = <<x>>
        OBVIOUS
      <4> QED BY <4>5, <4>6, <4>7
    <3>3. PICK x : x = r.length
      OBVIOUS
    <3>4. Len(<<r>>) = 1 /\ <<r>>[1] = r /\ Len(<<x>>) = 1 /\ <<x>>[1] = x /\ <<r>> \in Seq(Record)
      OBVIOUS
    <3>5. PICK records, lengths : records = <<r>> /\ lengths = <<x>>
      OBVIOUS
    <3>6. /\ records \in Seq(Record) /\ Len(lengths) = Len(records)
          /\ \A n \in 1 .. Len(records) : lengths[n] = records[n].length
      BY <3>3, <3>4, <3>5
    <3> QED BY <3>1, <3>2, <3>3, <3>5, <3>6
  <2>2. CASE Inline < payload
    <3>1. PICK N, c :
            /\ N \in Nat \ {0}
            /\ Message(DataRecords(e, payload), N, c)
            /\ Len(RecordLengths(Inline, payload)) = N
            /\ \A n \in 1 .. N :
                 DataRecords(e, payload)[n].length = RecordLengths(Inline, payload)[n]
      BY <2>2, LargeIsMessage
    <3>2. DataRecords(e, payload) \in Seq(Record) /\ Len(DataRecords(e, payload)) = N
      BY <3>1 DEF Message
    <3> QED BY <3>1, <3>2
  <2> QED BY <1>2, <2>1, <2>2
<1>4. start \in Nat
  OBVIOUS
<1>5. CellsIn(WithPadding(start, records)) = PlannedCells(Capacity, start, lengths)
  BY <1>3, <1>4, PaddedCells
<1>6. RequiredCapacity(Inline, Largest) <= Capacity
  BY LimitsHold
<1>7. PlannedCells(Capacity, start, lengths) <= Capacity
  BY <1>2, <1>3, <1>6, CapacityRuleSuffices
<1> QED BY <1>1, <1>3, <1>5, <1>7 DEF PlannedSend

\* There are two ends, each the opposite of the other.
LEMMA OppositeIs ==
  ASSUME NEW e \in End
  PROVE  Opposite(e) \in End /\ Opposite(e) # e /\ Opposite(Opposite(e)) = e
         /\ \A f \in End : f = e \/ f = Opposite(e)
<1>1. "a" \in End /\ "b" \in End /\ "a" # "b"
  BY DEF End
<1>2. \A f \in End : \E g \in End : g # f
  BY <1>1
<1>3. \A f \in End : Opposite(f) \in End /\ Opposite(f) # f
  BY <1>2 DEF Opposite
<1>4. \A f \in End : f = "a" \/ f = "b"
  BY DEF End
<1> QED BY <1>1, <1>3, <1>4

ChannelTypes ==
  /\ position \in [End -> Offsets] /\ nextId \in [End -> Nat \ {0}]
  /\ backpressured \in [End -> BOOLEAN]
  /\ localClosed \in [End -> BOOLEAN] /\ remoteClosed \in [End -> BOOLEAN]
  /\ partial \in [End -> Partial] /\ ring \in [End -> Seq(Record)]
  /\ at \in [End -> Polling \cup {"idle", "publishing", "notifying", "answering",
                                  "waiting", "dead"}]
  /\ pending \in [End -> [records : Seq(Record), before : Nat, data : BOOLEAN]]
  /\ taken \in [End -> Item \cup {NoEvent}]
  /\ event \in [End -> Item \cup {NoEvent, Writable, Failure}]
  /\ hint \in [End -> BOOLEAN]

\* What is on its way in each direction makes whole messages.
WholeMessages == \A e \in End : Chain(partial[Opposite(e)], ring[e], NoPartial)

\* A batch about to be published is a message or an end, of an endpoint still open.
Planned ==
  \A e \in End : at[e] = "publishing" =>
    ~localClosed[e] /\ Batch(pending[e].records, pending[e].data)

\* An event has been taken exactly while its call is going to return it.
Returning ==
  \A e \in End : /\ at[e] = "answering" => taken[e] # NoEvent
                 /\ taken[e] # NoEvent => at[e] \in {"answering", "dead"}

ChannelInv == ChannelTypes /\ WholeMessages /\ Planned /\ Returning

QueueOf(t, p, s) ==
  (IF t = NoEvent THEN <<>> ELSE <<t>>) \o Reassembled(p.size, s).items

\* A queue is the event in hand and what the records will make.
LEMMA QueueIs ==
  ASSUME NEW f \in End
  PROVE  /\ Queue(f) = QueueOf(taken[Opposite(f)], partial[Opposite(f)], ring[f])
         /\ Queue(f)' = QueueOf(taken'[Opposite(f)], partial'[Opposite(f)], ring'[f])
BY DEF Queue, QueueOf

\* A queue changes only with what it is made of.
LEMMA QueueSame ==
  ASSUME NEW f \in End, taken'[Opposite(f)] = taken[Opposite(f)],
         partial'[Opposite(f)] = partial[Opposite(f)], ring'[f] = ring[f]
  PROVE  Queue(f)' = Queue(f)
BY QueueIs

\* No queue changes while rings, partial messages and events stay.
LEMMA QueuesSame ==
  ASSUME UNCHANGED <<ring, partial, taken>>
  PROVE  [f \in End |-> Queue(f)]' = [f \in End |-> Queue(f)]
<1>1. ASSUME NEW f \in End PROVE Queue(f)' = Queue(f)
  BY QueueSame
<1> QED BY <1>1

\* An item is an event.
LEMMA ItemIsEvent == ASSUME NEW i \in Item PROVE i # NoEvent
BY DEF Item, NoEvent, EntryKinds

\* Records take a natural number of cells.
LEMMA CellsAreNat == ASSUME NEW s \in Seq(Record) PROVE CellsIn(s) \in Nat
<1>1. PICK u : CellsRun(u, s)
  BY CellsHaveRun
<1>2. u \in [0 .. Len(s) -> Nat] /\ Len(s) \in 0 .. Len(s)
  BY <1>1 DEF CellsRun
<1> QED BY <1>1, <1>2, CellsAre

\* Observing the flow gives a flag.
LEMMA FlowIsFlag ==
  ASSUME NEW f \in BOOLEAN, NEW n \in Nat PROVE Flow(f, n) \in BOOLEAN
<1>1. (n > Low) \in BOOLEAN /\ (n >= High) \in BOOLEAN
  BY WatermarkAssumption
<1> QED BY <1>1, Zenon DEF Flow

\* A new channel satisfies the invariant and is an empty link.
LEMMA ChannelInitially == ChannelInit => ChannelInv /\ Link!Init
<1> SUFFICES ASSUME ChannelInit PROVE ChannelInv /\ Link!Init
  OBVIOUS
<1> USE DEF ChannelInit, EndpointInit, TransportInit
<1>1. ChannelTypes
  <2>1. 0 \in Offsets
    BY LimitsHold DEF Offsets
  <2>2. NoPartial \in Partial /\ <<>> \in Seq(Record)
    BY DEF NoPartial, Partial
  <2>3. NoBatch \in [records : Seq(Record), before : Nat, data : BOOLEAN]
    BY DEF NoBatch
  <2> QED BY <2>1, <2>2, <2>3 DEF ChannelTypes
<1>2. WholeMessages
  <2>1. NoPartial \in Partial
    BY DEF NoPartial, Partial
  <2> QED BY <2>1, ChainNone, OppositeIs DEF WholeMessages
<1>3. Planned /\ Returning
  BY DEF Planned, Returning
<1>4. Link!Init
  <2>1. ASSUME NEW f \in End PROVE Queue(f) = <<>>
    <3>1. taken[Opposite(f)] = NoEvent /\ partial[Opposite(f)].size = 0 /\ ring[f] = <<>>
      BY OppositeIs DEF NoPartial
    <3>2. Reassembled(0, <<>>).items = <<>>
      BY ReadNone
    <3>3. <<>> \o <<>> = <<>>
      OBVIOUS
    <3> QED BY <3>1, <3>2, <3>3, QueueIs DEF QueueOf
  <2> QED BY <2>1 DEF Link!Init
<1> QED BY <1>1, <1>2, <1>3, <1>4 DEF ChannelInv

-----------------------------------------------------------------------------
(* A call that plans, or that only starts or ends.                         *)

\* A send that only plans, or is refused, delivers nothing.
LEMMA SendSteps ==
  ASSUME ChannelInv, NEW e \in End, NEW payload \in Payloads[e],
         SendRefused(e, payload) \/ SendPlanned(e, payload)
  PROVE  ChannelInv' /\ Link!Pause(e)
<1>1. payload \in 0 .. Largest
  BY ChannelAssumption
<1>2. Batch(PlannedSend(e, payload), TRUE)
  BY <1>1, SendIsBatch DEF ChannelInv, ChannelTypes
<1>3. /\ SendCall(e) /\ at[e] = "idle" /\ ~localClosed[e]
      /\ event' = [event EXCEPT ![e] = NoEvent]
      /\ UNCHANGED <<position, ring, nextId, localClosed, remoteClosed, partial, hint, taken>>
  BY DEF SendRefused, SendPlanned, SendCall, IsClosed
<1>4. \/ UNCHANGED <<at, pending>>
      \/ /\ at' = [at EXCEPT ![e] = "publishing"]
         /\ pending' = [pending EXCEPT ![e] = [records |-> PlannedSend(e, payload),
                                               before |-> Used(e), data |-> TRUE]]
  BY DEF SendRefused, SendPlanned, Plan
<1>5. ChannelTypes'
  <2>0. Used(e) \in Nat
    BY CellsAreNat DEF Used, ChannelInv, ChannelTypes
  <2>1. backpressured' \in [End -> BOOLEAN]
    <3>1. backpressured' = [backpressured EXCEPT ![e] = Flow(@, Used(e))]
      BY <1>3 DEF SendCall, RefreshFlow
    <3>2. Flow(backpressured[e], Used(e)) \in BOOLEAN
      BY <2>0, FlowIsFlag DEF ChannelInv, ChannelTypes
    <3> QED BY <3>1, <3>2 DEF ChannelInv, ChannelTypes
  <2>2. PlannedSend(e, payload) \in Seq(Record)
    BY <1>2 DEF Batch
  <2>3. Used(e) \in Nat
    BY CellsAreNat DEF Used, ChannelInv, ChannelTypes
  <2>a. [records |-> PlannedSend(e, payload), before |-> Used(e), data |-> TRUE]
          \in [records : Seq(Record), before : Nat, data : BOOLEAN]
    BY <2>2, <2>3
  <2>4. pending' \in [End -> [records : Seq(Record), before : Nat, data : BOOLEAN]]
    BY <1>4, <2>a DEF ChannelInv, ChannelTypes
  <2>5. at' \in [End -> Polling \cup {"idle", "publishing", "notifying", "answering",
                                      "waiting", "dead"}]
    BY <1>4 DEF ChannelInv, ChannelTypes
  <2>6. event' \in [End -> Item \cup {NoEvent, Writable, Failure}]
    BY <1>3 DEF ChannelInv, ChannelTypes
  <2> QED BY <1>3, <2>1, <2>4, <2>5, <2>6 DEF ChannelInv, ChannelTypes
<1>6. WholeMessages'
  BY <1>3 DEF ChannelInv, WholeMessages
<1>7. Planned'
  <2>1. CASE UNCHANGED <<at, pending>>
    BY <1>3, <2>1 DEF ChannelInv, Planned
  <2>2. CASE /\ at' = [at EXCEPT ![e] = "publishing"]
             /\ pending' = [pending EXCEPT ![e] = [records |-> PlannedSend(e, payload),
                                                   before |-> Used(e), data |-> TRUE]]
    <3>1. pending'[e].records = PlannedSend(e, payload) /\ pending'[e].data = TRUE
      BY <2>2 DEF ChannelInv, ChannelTypes
    <3>2. \A f \in End : f # e => at'[f] = at[f] /\ pending'[f] = pending[f]
      BY <2>2 DEF ChannelInv, ChannelTypes
    <3> SUFFICES ASSUME NEW f \in End, at'[f] = "publishing"
                 PROVE  ~localClosed'[f] /\ Batch(pending'[f].records, pending'[f].data)
      BY DEF Planned
    <3>3. CASE f = e
      BY <1>2, <1>3, <3>1, <3>3
    <3>4. CASE f # e
      BY <1>3, <3>2, <3>4 DEF ChannelInv, Planned
    <3> QED BY <3>3, <3>4
  <2> QED BY <1>4, <2>1, <2>2
<1>8. Returning'
  BY <1>3, <1>4 DEF ChannelInv, ChannelTypes, Returning
<1>9. Link!Pause(e)
  <2>1. event'[e] = NoEvent /\ event' = [event EXCEPT ![e] = event'[e]]
    BY <1>3 DEF ChannelInv, ChannelTypes
  <2> QED BY <1>3, <2>1, QueuesSame DEF Link!Pause
<1> QED BY <1>5, <1>6, <1>7, <1>8, <1>9 DEF ChannelInv

\* Neither does a close or reset that only plans.
LEMMA EndSteps ==
  ASSUME ChannelInv, NEW e \in End, NEW kind \in {"close", "reset"}, EndBegin(e, kind)
  PROVE  ChannelInv' /\ Link!Pause(e)
<1>1. PICK planned : planned = WithPadding(position[e], ControlRecord(e, kind))
  OBVIOUS
<1>2. Batch(planned, FALSE)
  BY <1>1, EndIsBatch DEF ChannelInv, ChannelTypes
<1>3. /\ at[e] = "idle" /\ ~localClosed[e]
      /\ event' = [event EXCEPT ![e] = NoEvent]
      /\ at' = [at EXCEPT ![e] = "publishing"]
      /\ pending' = [pending EXCEPT ![e] = [records |-> planned, before |-> Used(e),
                                            data |-> FALSE]]
      /\ UNCHANGED <<position, ring, nextId, backpressured, localClosed, remoteClosed,
                     partial, hint, taken>>
  BY <1>1 DEF EndBegin, Plan
<1>5. ChannelTypes'
  <2>2. planned \in Seq(Record)
    BY <1>2 DEF Batch
  <2>3. Used(e) \in Nat
    BY CellsAreNat DEF Used, ChannelInv, ChannelTypes
  <2>4. pending' \in [End -> [records : Seq(Record), before : Nat, data : BOOLEAN]]
    BY <1>3, <2>2, <2>3 DEF ChannelInv, ChannelTypes
  <2>5. at' \in [End -> Polling \cup {"idle", "publishing", "notifying", "answering",
                                      "waiting", "dead"}]
    BY <1>3 DEF ChannelInv, ChannelTypes
  <2>6. event' \in [End -> Item \cup {NoEvent, Writable, Failure}]
    BY <1>3 DEF ChannelInv, ChannelTypes
  <2> QED BY <1>3, <2>4, <2>5, <2>6 DEF ChannelInv, ChannelTypes
<1>6. WholeMessages'
  BY <1>3 DEF ChannelInv, WholeMessages
<1>7. Planned'
  <2>1. pending'[e].records = planned /\ pending'[e].data = FALSE
    BY <1>3 DEF ChannelInv, ChannelTypes
  <2>2. \A f \in End : f # e => at'[f] = at[f] /\ pending'[f] = pending[f]
    BY <1>3 DEF ChannelInv, ChannelTypes
  <2> SUFFICES ASSUME NEW f \in End, at'[f] = "publishing"
               PROVE  ~localClosed'[f] /\ Batch(pending'[f].records, pending'[f].data)
    BY DEF Planned
  <2>3. CASE f = e
    BY <1>2, <1>3, <2>1, <2>3
  <2>4. CASE f # e
    BY <1>3, <2>2, <2>4 DEF ChannelInv, Planned
  <2> QED BY <2>3, <2>4
<1>8. Returning'
  BY <1>3 DEF ChannelInv, ChannelTypes, Returning
<1>9. Link!Pause(e)
  <2>1. event'[e] = NoEvent /\ event' = [event EXCEPT ![e] = event'[e]]
    BY <1>3 DEF ChannelInv, ChannelTypes
  <2> QED BY <1>3, <2>1, QueuesSame DEF Link!Pause
<1> QED BY <1>5, <1>6, <1>7, <1>8, <1>9 DEF ChannelInv

\* A queue is a sequence of items.
LEMMA QueueTyped ==
  ASSUME ChannelInv, NEW f \in End PROVE Queue(f) \in Seq(Item)
<1>1. PICK g \in End : g = Opposite(f)
  BY OppositeIs
<1>2. taken[g] \in Item \cup {NoEvent} /\ partial[g] \in Partial /\ ring[f] \in Seq(Record)
  BY DEF ChannelInv, ChannelTypes
<1>3. partial[g].size \in Nat
  BY <1>2 DEF Partial
<1>4. PICK rest \in Seq(Item) : rest = Reassembled(partial[g].size, ring[f]).items
  BY <1>2, <1>3, ReadTyped DEF Sofar
<1>5. PICK first \in Seq(Item) : first = IF taken[g] = NoEvent THEN <<>> ELSE <<taken[g]>>
  <2>1. <<>> \in Seq(Item)
    OBVIOUS
  <2>2. taken[g] # NoEvent => <<taken[g]>> \in Seq(Item)
    BY <1>2
  <2>3. (IF taken[g] = NoEvent THEN <<>> ELSE <<taken[g]>>) \in Seq(Item)
    BY <2>1, <2>2
  <2> QED BY <2>3
<1>6. first \o rest \in Seq(Item)
  BY ConcatProperties
<1> QED BY <1>1, <1>4, <1>5, <1>6, QueueIs DEF QueueOf

\* A planned batch is a sequence of records.
LEMMA PendingTyped ==
  ASSUME ChannelInv, NEW e \in End
  PROVE  pending[e].records \in Seq(Record) /\ pending[e].data \in BOOLEAN
<1>1. pending[e] \in [records : Seq(Record), before : Nat, data : BOOLEAN]
  BY DEF ChannelInv, ChannelTypes
<1>2. pending[e].records \in Seq(Record)
  BY <1>1
<1>3. pending[e].data \in BOOLEAN
  BY <1>1, Zenon
<1> QED BY <1>2, <1>3

\* A published batch is one more item at the end of its direction.
LEMMA PublishQueue ==
  ASSUME ChannelInv, NEW e \in End, Publish(e)
  PROVE  /\ \E i \in Item : Queue(e)' = Append(Queue(e), i) /\ (i.kind = "message" <=> pending[e].data)
         /\ Chain(partial[Opposite(e)], ring'[e], NoPartial)
         /\ ring'[e] \in Seq(Record)
<1>1. PICK g \in End : g = Opposite(e)
  BY OppositeIs
<1>2. PICK p \in Partial, s \in Seq(Record), b \in Seq(Record), data \in BOOLEAN :
        p = partial[g] /\ s = ring[e] /\ b = pending[e].records /\ data = pending[e].data
  <2>1. partial[g] \in Partial /\ ring[e] \in Seq(Record)
    BY DEF ChannelInv, ChannelTypes
  <2> QED BY <2>1, PendingTyped, Zenon
<1>3. Chain(p, s, NoPartial) /\ Batch(b, data)
  BY <1>1, <1>2 DEF Publish, ChannelInv, WholeMessages, Planned
<1>4. b \in Seq(Record) /\ Chain(NoPartial, b, NoPartial)
  BY <1>3 DEF Batch
<1>5. ring'[e] = s \o b /\ taken' = taken /\ partial' = partial
  BY <1>2 DEF Publish, ChannelInv, ChannelTypes
<1>6. Chain(p, s \o b, NoPartial) /\ s \o b \in Seq(Record)
  BY <1>3, <1>4, ChainConcat, ConcatProperties
<1>7. PICK size \in Nat : size = p.size
  BY DEF Partial
<1>8. Reassembled(size, s).size = 0
  <2>1. Reassembled(p.size, s).size = NoPartial.size
    BY <1>3, ChainSize
  <2> QED BY <1>7, <2>1 DEF NoPartial
<1>9. PICK i \in Item : Reassembled(0, b).items = <<i>> /\ (i.kind = "message" <=> data)
  BY <1>3, BatchItem
<1>10. PICK old \in Seq(Item) : old = Reassembled(size, s).items
  BY ReadTyped DEF Sofar
<1>11. Reassembled(size, s \o b).items = old \o <<i>>
  BY <1>4, <1>8, <1>9, <1>10, ReadConcat
<1>12. PICK first \in Seq(Item) : first = IF taken[g] = NoEvent THEN <<>> ELSE <<taken[g]>>
  <2>1. <<>> \in Seq(Item)
    OBVIOUS
  <2>2. taken[g] # NoEvent => <<taken[g]>> \in Seq(Item)
    BY DEF ChannelInv, ChannelTypes
  <2>3. (IF taken[g] = NoEvent THEN <<>> ELSE <<taken[g]>>) \in Seq(Item)
    BY <2>1, <2>2
  <2> QED BY <2>3
<1>13. Queue(e) = first \o old
  BY <1>1, <1>2, <1>7, <1>10, <1>12, QueueIs DEF QueueOf
<1>14. Queue(e)' = first \o (old \o <<i>>)
  BY <1>1, <1>2, <1>5, <1>7, <1>11, <1>12, QueueIs DEF QueueOf
<1>15. old \o <<i>> = Append(old, i) /\ Append(first \o old, i) = first \o Append(old, i)
  BY AppendIsConcat, ConcatAppend
<1>16. Queue(e)' = Append(Queue(e), i)
  BY <1>13, <1>14, <1>15
<1> QED BY <1>1, <1>2, <1>5, <1>6, <1>9, <1>16

\* A publication is an acceptance by the link.
LEMMA PublishSteps ==
  ASSUME ChannelInv, NEW e \in End, Publish(e)
  PROVE  ChannelInv' /\ Link!Accept(e)
<1>0. PICK g \in End : g = Opposite(e) /\ e = Opposite(g) /\ \A f \in End : f = e \/ f = g
  BY OppositeIs
<1>1. PICK b \in Seq(Record), data \in BOOLEAN :
        b = pending[e].records /\ data = pending[e].data
  BY PendingTyped, Zenon
<1>2. Batch(b, data) /\ ~localClosed[e] /\ at[e] = "publishing"
  BY <1>1 DEF Publish, ChannelInv, Planned
<1>3. /\ ring' = [ring EXCEPT ![e] = @ \o b]
      /\ position' = [position EXCEPT ![e] = (@ + CellsIn(b)) % Capacity]
      /\ backpressured' =
           IF data THEN [backpressured EXCEPT ![e] = Flow(@, pending[e].before + CellsIn(b))]
           ELSE backpressured
      /\ localClosed' = [localClosed EXCEPT ![e] = @ \/ ~data]
      /\ at' = [at EXCEPT ![e] = IF pending[e].before = 0 THEN "notifying" ELSE "idle"]
      /\ nextId' = [nextId EXCEPT ![e] = NextId(@)]
      /\ pending' = [pending EXCEPT ![e] = NoBatch]
      /\ UNCHANGED <<remoteClosed, partial, hint, taken, event>>
  BY <1>1 DEF Publish
<1>4. PICK i \in Item : Queue(e)' = Append(Queue(e), i) /\ (i.kind = "message" <=> data)
  BY <1>1, PublishQueue
<1>5. Chain(partial[g], ring'[e], NoPartial) /\ ring'[e] \in Seq(Record)
  BY <1>0, PublishQueue
<1>6. PICK cells \in Nat : cells = CellsIn(b)
  BY <1>2, CellsAreNat DEF Batch
<1>7. ChannelTypes'
  <2>1. position' \in [End -> Offsets]
    <3>1. position[e] \in Nat /\ Capacity \in Nat \ {0}
      BY LimitsHold DEF ChannelInv, ChannelTypes, Offsets
    <3>2. (position[e] + cells) % Capacity \in Offsets
      BY <3>1 DEF Offsets
    <3> QED BY <1>3, <1>6, <3>2 DEF ChannelInv, ChannelTypes
  <2>2. ring' \in [End -> Seq(Record)]
    <3>1. ring' = [ring EXCEPT ![e] = ring'[e]]
      BY <1>3 DEF ChannelInv, ChannelTypes
    <3> QED BY <1>5, <3>1 DEF ChannelInv, ChannelTypes
  <2>3. backpressured' \in [End -> BOOLEAN]
    <3>1. pending[e].before + cells \in Nat
      BY DEF ChannelInv, ChannelTypes
    <3>2. Flow(backpressured[e], pending[e].before + cells) \in BOOLEAN
      BY <3>1, FlowIsFlag DEF ChannelInv, ChannelTypes
    <3> QED BY <1>3, <1>6, <3>2 DEF ChannelInv, ChannelTypes
  <2>4. localClosed' \in [End -> BOOLEAN]
    BY <1>3 DEF ChannelInv, ChannelTypes
  <2>5. nextId' \in [End -> Nat \ {0}]
    <3>1. PICK n \in Nat \ {0}, m \in Nat \ {0, 1} : n = nextId[e] /\ m = IdModulus
      BY ChannelAssumption DEF ChannelInv, ChannelTypes
    <3>2. (n + 1) % m \in 0 .. m - 1
      OBVIOUS
    <3>3. NextId(n) \in Nat \ {0}
      BY <3>1, <3>2 DEF NextId
    <3> QED BY <1>3, <3>1, <3>3 DEF ChannelInv, ChannelTypes
  <2>6. pending' \in [End -> [records : Seq(Record), before : Nat, data : BOOLEAN]]
    <3>1. NoBatch \in [records : Seq(Record), before : Nat, data : BOOLEAN]
      BY DEF NoBatch
    <3> QED BY <1>3, <3>1 DEF ChannelInv, ChannelTypes
  <2>7. at' \in [End -> Polling \cup {"idle", "publishing", "notifying", "answering",
                                      "waiting", "dead"}]
    BY <1>3 DEF ChannelInv, ChannelTypes
  <2> QED BY <1>3, <2>1, <2>2, <2>3, <2>4, <2>5, <2>6, <2>7 DEF ChannelInv, ChannelTypes
<1>8. WholeMessages'
  <2>1. ring'[g] = ring[g] \/ g = e
    BY <1>3 DEF ChannelInv, ChannelTypes
  <2>2. Chain(partial'[Opposite(e)], ring'[e], NoPartial)
    BY <1>0, <1>3, <1>5
  <2>3. g # e => Chain(partial'[Opposite(g)], ring'[g], NoPartial)
    BY <1>0, <1>3, <2>1 DEF ChannelInv, WholeMessages
  <2> QED BY <1>0, <2>2, <2>3 DEF WholeMessages
<1>9. Planned'
  BY <1>3 DEF ChannelInv, ChannelTypes, Planned
<1>10. Returning'
  BY <1>2, <1>3 DEF ChannelInv, ChannelTypes, Returning
<1>11. Link!Accept(e)
  <2> DEFINE queue == [f \in End |-> Queue(f)]
             queueNext == [f \in End |-> Queue(f)']
  <2>1. Queue(e) \in Seq(Item)
    BY QueueTyped
  <2>2. PICK n \in Nat : n = Len(Queue(e))
    BY <2>1
  <2>3. Len(Queue(e)') = n + 1 /\ Queue(e)'[n + 1] = i
    BY <1>4, <2>1, <2>2, AppendProperties
  <2>4. ASSUME NEW f \in End, f # e PROVE Queue(f)' = Queue(f)
    <3>1. ring'[f] = ring[f] /\ taken' = taken /\ partial' = partial
      BY <1>3, <2>4 DEF ChannelInv, ChannelTypes
    <3> QED BY <3>1, QueueSame
  <2>5. queueNext = [queue EXCEPT ![e] = Append(@, i)]
    BY <1>4, <2>4
  <2>6. localClosed' = [localClosed EXCEPT ![e] = i.kind # "message"]
    <3>1. (localClosed[e] \/ ~data) = (i.kind # "message")
      BY <1>2, <1>4
    <3> QED BY <1>3, <3>1
  <2>7. queueNext[e] = Queue(e)' /\ queue[e] = Queue(e)
    OBVIOUS
  <2>8. event' = event
    BY <1>3
  <2> QED BY <1>2, <2>2, <2>3, <2>5, <2>6, <2>7, <2>8 DEF Link!Accept
<1> QED BY <1>7, <1>8, <1>9, <1>10, <1>11 DEF ChannelInv

-----------------------------------------------------------------------------
(* Taking a record off the ring.                                           *)

\* A step of e that takes r, of which the partial message x and perhaps an event
\* are made.
Takes(e, r, x) ==
  LET f == Opposite(e)
  IN  /\ at[e] \in Polling /\ ring[f] # <<>> /\ r = Head(ring[f])
      /\ ring' = [ring EXCEPT ![f] = Tail(@)]
      /\ partial' = [partial EXCEPT ![e] = x]
      /\ taken' = [taken EXCEPT ![e] = IF r.end THEN ItemOf(r, partial[e].size) ELSE NoEvent]
      /\ at' = [at EXCEPT ![e] = IF r.end THEN "answering" ELSE @]
      /\ remoteClosed' \in [End -> BOOLEAN]
      /\ UNCHANGED <<position, nextId, backpressured, localClosed, hint, pending, event>>

\* The next record of a ring is in its place.
LEMMA NextRecord ==
  ASSUME ChannelInv, NEW e \in End, at[e] \in Polling, ring[Opposite(e)] # <<>>
  PROVE  /\ taken[e] = NoEvent
         /\ Head(ring[Opposite(e)]) \in Record
         /\ \E x \in Partial : /\ Turn(partial[e], Head(ring[Opposite(e)]), x)
                               /\ Chain(x, Tail(ring[Opposite(e)]), NoPartial)
<1>1. PICK f \in End : f = Opposite(e) /\ e = Opposite(f)
  BY OppositeIs
<1>2. PICK p \in Partial, s \in Seq(Record) : p = partial[e] /\ s = ring[f] /\ s # <<>>
  BY <1>1 DEF ChannelInv, ChannelTypes
<1>3. Chain(p, s, NoPartial)
  BY <1>1, <1>2 DEF ChannelInv, WholeMessages
<1>4. \E x \in Partial : Turn(p, Head(s), x) /\ Chain(x, Tail(s), NoPartial)
  BY <1>2, <1>3, ChainTail
<1>5. Head(s) \in Record
  BY <1>2, HeadTailProperties
<1>6. taken[e] = NoEvent
  BY DEF ChannelInv, Returning, Polling
<1> QED BY <1>1, <1>2, <1>4, <1>5, <1>6

\* Taking a record in its place leaves every queue as it was.
LEMMA TakesSteps ==
  ASSUME ChannelInv, NEW e \in End, NEW r \in Record, NEW x \in Partial, Takes(e, r, x),
         Turn(partial[e], r, x), Chain(x, Tail(ring[Opposite(e)]), NoPartial)
  PROVE  ChannelInv' /\ UNCHANGED Link!vars
<1>1. PICK f \in End : f = Opposite(e) /\ e = Opposite(f) /\ e # f /\ \A g \in End : g = e \/ g = f
  BY OppositeIs
<1>2. PICK p \in Partial, s \in Seq(Record), t \in Seq(Record) :
        p = partial[e] /\ s = ring[f] /\ s # <<>> /\ r = Head(s) /\ t = Tail(s)
  <2>1. partial[e] \in Partial /\ ring[f] \in Seq(Record) /\ ring[f] # <<>>
    BY <1>1 DEF ChannelInv, ChannelTypes, Takes
  <2>2. Tail(ring[f]) \in Seq(Record)
    BY <2>1, HeadTailProperties
  <2> QED BY <1>1, <2>1, <2>2 DEF Takes
<1>3. /\ at[e] \in Polling
      /\ ring' = [ring EXCEPT ![f] = t]
      /\ partial' = [partial EXCEPT ![e] = x]
      /\ taken' = [taken EXCEPT ![e] = IF r.end THEN ItemOf(r, p.size) ELSE NoEvent]
      /\ at' = [at EXCEPT ![e] = IF r.end THEN "answering" ELSE @]
      /\ remoteClosed' \in [End -> BOOLEAN]
      /\ UNCHANGED <<position, nextId, backpressured, localClosed, hint, pending, event>>
  BY <1>1, <1>2 DEF Takes, ChannelInv, ChannelTypes
<1>4. PICK size \in Nat : size = p.size
  BY DEF Partial
<1>5. PICK i \in Item : i = ItemOf(r, size) /\ i # NoEvent
  BY ItemsAre, ItemIsEvent
<1>6. ChannelTypes'
  <2>1. ring' \in [End -> Seq(Record)] /\ partial' \in [End -> Partial]
    BY <1>3 DEF ChannelInv, ChannelTypes
  <2>2. taken' \in [End -> Item \cup {NoEvent}]
    BY <1>3, <1>4, <1>5 DEF ChannelInv, ChannelTypes
  <2>3. at' \in [End -> Polling \cup {"idle", "publishing", "notifying", "answering",
                                      "waiting", "dead"}]
    BY <1>3 DEF ChannelInv, ChannelTypes
  <2> QED BY <1>3, <2>1, <2>2, <2>3 DEF ChannelInv, ChannelTypes
<1>7. WholeMessages'
  <2>1. partial'[e] = x /\ ring'[f] = t /\ partial'[f] = partial[f] /\ ring'[e] = ring[e]
    BY <1>1, <1>3 DEF ChannelInv, ChannelTypes
  <2>2. Chain(x, t, NoPartial)
    BY <1>1, <1>2
  <2>3. Chain(partial[f], ring[e], NoPartial)
    BY <1>1 DEF ChannelInv, WholeMessages
  <2> QED BY <1>1, <2>1, <2>2, <2>3 DEF WholeMessages
<1>8. Planned'
  BY <1>3 DEF ChannelInv, ChannelTypes, Planned, Polling
<1>9. Returning'
  <2>1. taken'[e] # NoEvent <=> r.end
    BY <1>3, <1>4, <1>5 DEF ChannelInv, ChannelTypes
  <2>2. at'[e] = IF r.end THEN "answering" ELSE at[e]
    BY <1>3 DEF ChannelInv, ChannelTypes
  <2>3. at[e] # "answering"
    BY <1>3 DEF Polling
  <2>4. \A g \in End : g # e => taken'[g] = taken[g] /\ at'[g] = at[g]
    BY <1>3 DEF ChannelInv, ChannelTypes
  <2> QED BY <2>1, <2>2, <2>3, <2>4 DEF ChannelInv, Returning
<1>10. Queue(f)' = Queue(f)
  <2>1. taken[e] = NoEvent
    BY <1>3 DEF ChannelInv, Returning, Polling
  <2>2. PICK old \in Seq(Item) : old = Reassembled(size, s).items /\ <<>> \o old = old
    <3>1. Reassembled(size, s).items \in Seq(Item)
      BY <1>2, ReadTyped DEF Sofar
    <3> QED BY <3>1, ConcatEmptySeq
  <2>3. Queue(f) = old
    BY <1>1, <1>2, <1>4, <2>1, <2>2, QueueIs DEF QueueOf
  <2>4. x.size = IF r.end THEN 0 ELSE size + r.size
    BY <1>2, <1>4, TurnSize
  <2>5. PICK left \in Nat : left = x.size
    BY DEF Partial
  <2>6. PICK new \in Seq(Item) : new = Reassembled(left, t).items /\ <<>> \o new = new
    <3>1. Reassembled(left, t).items \in Seq(Item)
      BY <1>2, ReadTyped DEF Sofar
    <3> QED BY <3>1, ConcatEmptySeq
  <2>7. old = IF r.end THEN <<i>> \o new ELSE new
    BY <1>2, <1>5, <2>2, <2>4, <2>5, <2>6, ReadTail
  <2>8. taken'[e] = (IF r.end THEN i ELSE NoEvent) /\ partial'[e] = x /\ ring'[f] = t
    BY <1>1, <1>3, <1>4, <1>5 DEF ChannelInv, ChannelTypes
  <2>9. Queue(f)' = (IF taken'[e] = NoEvent THEN <<>> ELSE <<taken'[e]>>) \o new
    BY <1>1, <2>5, <2>6, <2>8, QueueIs DEF QueueOf
  <2> QED BY <1>5, <2>3, <2>6, <2>7, <2>8, <2>9
<1>11. Queue(e)' = Queue(e)
  <2>1. taken'[f] = taken[f] /\ partial'[f] = partial[f] /\ ring'[e] = ring[e]
    BY <1>1, <1>3 DEF ChannelInv, ChannelTypes
  <2> QED BY <1>1, <2>1, QueueSame
<1>12. UNCHANGED Link!vars
  <2>1. \A g \in End : Queue(g)' = Queue(g)
    BY <1>1, <1>10, <1>11
  <2> QED BY <1>3, <2>1 DEF Link!vars
<1> QED BY <1>6, <1>7, <1>8, <1>9, <1>12 DEF ChannelInv

\* So does padding,
LEMMA PaddingSteps ==
  ASSUME ChannelInv, NEW e \in End, TakePadding(e)
  PROVE  ChannelInv' /\ UNCHANGED Link!vars
<1>1. PICK r : r = Head(ring[Opposite(e)]) /\ r.kind = "padding"
  BY DEF TakePadding, Take
<1>2. at[e] \in Polling /\ ring[Opposite(e)] # <<>>
  BY DEF TakePadding, Take
<1>3. PICK x \in Partial : /\ Turn(partial[e], r, x)
                           /\ Chain(x, Tail(ring[Opposite(e)]), NoPartial)
  BY <1>1, <1>2, NextRecord
<1>4. taken[e] = NoEvent /\ r \in Record
  BY <1>1, <1>2, NextRecord
<1>5. ~r.end /\ x = partial[e]
  BY <1>1, <1>3 DEF Turn
<1>6. Takes(e, r, x)
  BY <1>1, <1>2, <1>4, <1>5 DEF TakePadding, Take, Takes, ChannelInv, ChannelTypes
<1> QED BY <1>3, <1>4, <1>6, TakesSteps

\* so does a data record,
LEMMA DataSteps ==
  ASSUME ChannelInv, NEW e \in End, TakeData(e)
  PROVE  ChannelInv' /\ UNCHANGED Link!vars
<1>1. PICK r : r = Head(ring[Opposite(e)]) /\ r.kind = "data"
  BY DEF TakeData, Take
<1>2. at[e] \in Polling /\ ring[Opposite(e)] # <<>>
  BY DEF TakeData, Take
<1>3. PICK x \in Partial : /\ Turn(partial[e], r, x)
                           /\ Chain(x, Tail(ring[Opposite(e)]), NoPartial)
  BY <1>1, <1>2, NextRecord
<1>4. taken[e] = NoEvent /\ r \in Record
  BY <1>1, <1>2, NextRecord
<1>5. ~OutOfPlace(partial[e], r) /\ x = PartialAfter(partial[e], r)
  BY <1>1, <1>3 DEF Turn
<1>6. Completed(partial[e], r) = ItemOf(r, partial[e].size)
  BY <1>1 DEF Completed, ItemOf
<1>7. Takes(e, r, x)
  <2>1. partial' = [partial EXCEPT ![e] = x]
    BY <1>1, <1>5 DEF TakeData, ChannelInv, ChannelTypes
  <2>2. taken' = [taken EXCEPT ![e] = IF r.end THEN ItemOf(r, partial[e].size) ELSE NoEvent]
    BY <1>1, <1>4, <1>5, <1>6 DEF TakeData, ChannelInv, ChannelTypes
  <2>3. at' = [at EXCEPT ![e] = IF r.end THEN "answering" ELSE @]
    BY <1>1, <1>5 DEF TakeData, ChannelInv, ChannelTypes
  <2> QED BY <1>1, <1>2, <2>1, <2>2, <2>3 DEF TakeData, Take, Takes, ChannelInv, ChannelTypes
<1> QED BY <1>3, <1>4, <1>7, TakesSteps

\* and so does a close or reset.
LEMMA TakeEndSteps ==
  ASSUME ChannelInv, NEW e \in End, TakeEnd(e)
  PROVE  ChannelInv' /\ UNCHANGED Link!vars
<1>1. PICK r : r = Head(ring[Opposite(e)]) /\ r.kind \in {"close", "reset"}
  BY DEF TakeEnd, Take
<1>2. at[e] \in Polling /\ ring[Opposite(e)] # <<>>
  BY DEF TakeEnd, Take
<1>3. PICK x \in Partial : /\ Turn(partial[e], r, x)
                           /\ Chain(x, Tail(ring[Opposite(e)]), NoPartial)
  BY <1>1, <1>2, NextRecord
<1>4. taken[e] = NoEvent /\ r \in Record
  BY <1>1, <1>2, NextRecord
<1>5. r.end /\ r.size = 0 /\ partial[e] = NoPartial /\ x = NoPartial
  BY <1>1, <1>3 DEF Turn
<1>6. [kind |-> r.kind, id |-> r.id, size |-> 0] = ItemOf(r, partial[e].size)
  <2>1. partial[e].size + r.size = 0
    BY <1>5 DEF NoPartial
  <2> QED BY <1>1, <2>1 DEF ItemOf
<1>7. Takes(e, r, x)
  <2>1. partial' = [partial EXCEPT ![e] = x]
    BY <1>5 DEF TakeEnd
  <2>2. taken' = [taken EXCEPT ![e] = IF r.end THEN ItemOf(r, partial[e].size) ELSE NoEvent]
    BY <1>1, <1>5, <1>6 DEF TakeEnd
  <2>3. at' = [at EXCEPT ![e] = IF r.end THEN "answering" ELSE @]
    BY <1>5 DEF TakeEnd
  <2>4. remoteClosed' \in [End -> BOOLEAN]
    BY DEF TakeEnd, ChannelInv, ChannelTypes
  <2> QED BY <1>1, <1>2, <2>1, <2>2, <2>3, <2>4 DEF TakeEnd, Take, Takes
<1> QED BY <1>3, <1>4, <1>7, TakesSteps

-----------------------------------------------------------------------------
(* Returning from a call, and the steps that only move a hint or a call.   *)

\* The event taken is the first of the queue of the other side.
LEMMA AnswerQueue ==
  ASSUME ChannelInv, NEW e \in End, at[e] = "answering",
         taken' = [taken EXCEPT ![e] = NoEvent], UNCHANGED <<ring, partial>>
  PROVE  LET queue == [g \in End |-> Queue(g)]
         IN  /\ queue[Opposite(e)] # <<>>
             /\ Head(queue[Opposite(e)]) = taken[e]
             /\ queue' = [queue EXCEPT ![Opposite(e)] = Tail(@)]
<1>1. PICK f \in End : f = Opposite(e) /\ e = Opposite(f) /\ e # f /\ \A g \in End : g = e \/ g = f
  BY OppositeIs
<1>2. PICK i \in Item : i = taken[e] /\ i # NoEvent
  BY DEF ChannelInv, ChannelTypes, Returning
<1>3. PICK rest \in Seq(Item) : rest = Reassembled(partial[e].size, ring[f]).items
  <2>1. partial[e].size \in Nat /\ ring[f] \in Seq(Record)
    BY DEF ChannelInv, ChannelTypes, Partial
  <2> QED BY <2>1, ReadTyped DEF Sofar
<1>4. Queue(f) = <<i>> \o rest
  BY <1>1, <1>2, <1>3, QueueIs DEF QueueOf
<1>5. Queue(f)' = rest
  <2>1. taken'[e] = NoEvent
    BY DEF ChannelInv, ChannelTypes
  <2>2. <<>> \o rest = rest
    BY ConcatEmptySeq
  <2> QED BY <1>1, <1>3, <2>1, <2>2, QueueIs DEF QueueOf
<1>6. <<i>> \o rest # <<>> /\ Head(<<i>> \o rest) = i /\ Tail(<<i>> \o rest) = rest
  OBVIOUS
<1>7. Queue(e)' = Queue(e)
  <2>1. taken'[f] = taken[f]
    BY <1>1 DEF ChannelInv, ChannelTypes
  <2> QED BY <1>1, <2>1, QueueSame
<1> DEFINE queue == [g \in End |-> Queue(g)]
           queueNext == [g \in End |-> Queue(g)']
<1>8. queueNext = [queue EXCEPT ![f] = Tail(@)]
  BY <1>1, <1>4, <1>5, <1>6, <1>7
<1> QED BY <1>1, <1>2, <1>4, <1>6, <1>8

\* Returning from a poll delivers the event, or loses it and says so.
LEMMA AnswerSteps ==
  ASSUME ChannelInv, NEW e \in End, Answer(e) \/ AnswerFails(e)
  PROVE  ChannelInv' /\ (Link!Deliver(e) \/ Link!Lose(e))
<1>1. PICK i \in Item \cup {Failure} :
        /\ i = taken[e] \/ i = Failure
        /\ event' = [event EXCEPT ![e] = i]
  <2>1. CASE Answer(e)
    <3>1. taken[e] \in Item
      BY <2>1 DEF Answer, ChannelInv, ChannelTypes, Returning
    <3> QED BY <2>1, <3>1 DEF Answer
  <2>2. CASE AnswerFails(e)
    BY <2>2 DEF AnswerFails
  <2> QED BY <2>1, <2>2
<1>2. /\ at[e] = "answering"
      /\ taken' = [taken EXCEPT ![e] = NoEvent]
      /\ at' = [at EXCEPT ![e] = "idle"]
      /\ UNCHANGED <<position, ring, nextId, backpressured, localClosed, remoteClosed,
                     partial, hint, pending>>
  BY DEF Answer, AnswerFails
<1>3. ChannelTypes'
  <2>1. event' \in [End -> Item \cup {NoEvent, Writable, Failure}]
    BY <1>1 DEF ChannelInv, ChannelTypes
  <2>2. taken' \in [End -> Item \cup {NoEvent}]
    BY <1>2 DEF ChannelInv, ChannelTypes
  <2>3. at' \in [End -> Polling \cup {"idle", "publishing", "notifying", "answering",
                                      "waiting", "dead"}]
    BY <1>2 DEF ChannelInv, ChannelTypes
  <2> QED BY <1>2, <2>1, <2>2, <2>3 DEF ChannelInv, ChannelTypes
<1>4. WholeMessages'
  BY <1>2 DEF ChannelInv, WholeMessages
<1>5. Planned' /\ Returning'
  BY <1>2 DEF ChannelInv, ChannelTypes, Planned, Returning
<1>6. Link!Deliver(e) \/ Link!Lose(e)
  BY <1>1, <1>2, AnswerQueue DEF Link!Deliver, Link!Lose
<1> QED BY <1>3, <1>4, <1>5, <1>6 DEF ChannelInv

\* A poll that begins delivers nothing.
LEMMA PollBeginSteps ==
  ASSUME ChannelInv, NEW e \in End, NEW stage \in Polling, PollBegin(e, stage)
  PROVE  ChannelInv' /\ Link!Pause(e)
<1>1. /\ at[e] = "idle"
      /\ at' = [at EXCEPT ![e] = stage]
      /\ event' = [event EXCEPT ![e] = NoEvent]
      /\ UNCHANGED <<position, ring, nextId, backpressured, localClosed, remoteClosed,
                     partial, hint, pending, taken>>
  BY DEF PollBegin
<1>2. ChannelTypes'
  <2>1. event' \in [End -> Item \cup {NoEvent, Writable, Failure}]
    BY <1>1 DEF ChannelInv, ChannelTypes
  <2>2. at' \in [End -> Polling \cup {"idle", "publishing", "notifying", "answering",
                                      "waiting", "dead"}]
    BY <1>1 DEF ChannelInv, ChannelTypes
  <2> QED BY <1>1, <2>1, <2>2 DEF ChannelInv, ChannelTypes
<1>3. WholeMessages'
  BY <1>1 DEF ChannelInv, WholeMessages
<1>4. Planned' /\ Returning'
  BY <1>1 DEF ChannelInv, ChannelTypes, Planned, Returning, Polling
<1>5. Link!Pause(e)
  <2>1. event'[e] = NoEvent /\ event' = [event EXCEPT ![e] = event'[e]]
    BY <1>1 DEF ChannelInv, ChannelTypes
  <2> QED BY <1>1, <2>1, QueuesSame DEF Link!Pause
<1> QED BY <1>2, <1>3, <1>4, <1>5 DEF ChannelInv

\* A poll that finds nothing delivers at most the writable edge.
LEMMA PollEmptySteps ==
  ASSUME ChannelInv, NEW e \in End, PollEmpty(e)
  PROVE  ChannelInv' /\ Link!Pause(e)
<1>1. PICK i \in {NoEvent, Writable}, next \in {"waiting", "idle"} :
        /\ event' = [event EXCEPT ![e] = i]
        /\ at' = [at EXCEPT ![e] = next]
  <2> DEFINE edge == BecameWritable(backpressured[e], Used(e))
  <2>1. /\ event' = [event EXCEPT ![e] = IF edge THEN Writable ELSE NoEvent]
        /\ at' = [at EXCEPT ![e] = IF at[e] = "first poll" /\ ~edge THEN "waiting" ELSE "idle"]
    BY DEF PollEmpty, ChannelInv, ChannelTypes
  <2> HIDE DEF edge
  <2> QED BY <2>1
<1>2. /\ at[e] \in Polling
      /\ backpressured' = [backpressured EXCEPT ![e] = Flow(@, Used(e))]
      /\ UNCHANGED <<position, ring, nextId, localClosed, remoteClosed, partial,
                     hint, pending, taken>>
  BY DEF PollEmpty, RefreshFlow
<1>3. ChannelTypes'
  <2>1. event' \in [End -> Item \cup {NoEvent, Writable, Failure}]
    BY <1>1 DEF ChannelInv, ChannelTypes
  <2>2. at' \in [End -> Polling \cup {"idle", "publishing", "notifying", "answering",
                                      "waiting", "dead"}]
    BY <1>1 DEF ChannelInv, ChannelTypes
  <2>3. Used(e) \in Nat
    BY CellsAreNat DEF Used, ChannelInv, ChannelTypes
  <2>4. Flow(backpressured[e], Used(e)) \in BOOLEAN
    BY <2>3, FlowIsFlag DEF ChannelInv, ChannelTypes
  <2>5. backpressured' \in [End -> BOOLEAN]
    BY <1>2, <2>4 DEF ChannelInv, ChannelTypes
  <2> QED BY <1>2, <2>1, <2>2, <2>5 DEF ChannelInv, ChannelTypes
<1>4. WholeMessages'
  BY <1>2 DEF ChannelInv, WholeMessages
<1>5. Planned' /\ Returning'
  BY <1>1, <1>2 DEF ChannelInv, ChannelTypes, Planned, Returning, Polling
<1>6. Link!Pause(e)
  <2>1. event'[e] \in {NoEvent, Writable} /\ event' = [event EXCEPT ![e] = event'[e]]
    BY <1>1 DEF ChannelInv, ChannelTypes
  <2> QED BY <1>2, <2>1, QueuesSame DEF Link!Pause
<1> QED BY <1>3, <1>4, <1>5, <1>6 DEF ChannelInv

\* Hints and deaths are not seen by the link.
LEMMA QuietSteps ==
  ASSUME ChannelInv, NEW e \in End, NotifyPeer(e) \/ Wake(e) \/ Die(e)
  PROVE  ChannelInv' /\ UNCHANGED Link!vars
<1>1. PICK next \in {"idle", "polling", "dead"} :
        /\ at' = [at EXCEPT ![e] = next]
        /\ at[e] = "answering" => next = "dead"
        /\ taken[e] # NoEvent => next = "dead"
  BY DEF NotifyPeer, Wake, Die, ChannelInv, Returning
<1>2. UNCHANGED <<position, ring, nextId, backpressured, localClosed, remoteClosed,
                  partial, pending, taken, event>>
  BY DEF NotifyPeer, Wake, Die
<1>3. hint' \in [End -> BOOLEAN]
  <2>1. CASE NotifyPeer(e)
    <3>1. PICK arrives \in BOOLEAN : hint' = [hint EXCEPT ![Opposite(e)] = @ \/ arrives]
      BY <2>1 DEF NotifyPeer
    <3> QED BY <3>1, OppositeIs DEF ChannelInv, ChannelTypes
  <2>2. CASE Wake(e)
    <3>1. PICK source : hint' = [hint EXCEPT ![e] = @ /\ source # "primary"]
      BY <2>2 DEF Wake
    <3> QED BY <3>1 DEF ChannelInv, ChannelTypes
  <2>3. CASE Die(e)
    BY <2>3 DEF Die, ChannelInv, ChannelTypes
  <2> QED BY <2>1, <2>2, <2>3
<1>4. ChannelTypes'
  <2>1. at' \in [End -> Polling \cup {"idle", "publishing", "notifying", "answering",
                                      "waiting", "dead"}]
    BY <1>1 DEF ChannelInv, ChannelTypes, Polling
  <2> QED BY <1>2, <1>3, <2>1 DEF ChannelInv, ChannelTypes
<1>5. WholeMessages'
  BY <1>2 DEF ChannelInv, WholeMessages
<1>6. Planned' /\ Returning'
  BY <1>1, <1>2 DEF ChannelInv, ChannelTypes, Planned, Returning
<1>7. UNCHANGED Link!vars
  BY <1>2, QueuesSame DEF Link!vars
<1> QED BY <1>4, <1>5, <1>6, <1>7 DEF ChannelInv

-----------------------------------------------------------------------------
(* The channel.                                                            *)

\* Every step keeps the invariant and is a step of the link or none.
LEMMA ChannelSteps ==
  ASSUME ChannelInv, [ChannelNext]_channelVars
  PROVE  ChannelInv' /\ [Link!Next]_(Link!vars)
<1>1. CASE ChannelNext
  <2>1. PICK e \in End :
          \/ \E payload \in Payloads[e] : SendRefused(e, payload) \/ SendPlanned(e, payload)
          \/ Ends(e) \/ Poll(e) \/ Continue(e) \/ Die(e)
    BY <1>1 DEF ChannelNext
  <2>2. CASE \E payload \in Payloads[e] : SendRefused(e, payload) \/ SendPlanned(e, payload)
    BY <2>2, SendSteps DEF Link!Next
  <2>3. CASE Ends(e)
    BY <2>3, EndSteps DEF Ends, Link!Next
  <2>4. CASE Poll(e)
    BY <2>4, PollBeginSteps DEF Poll, Link!Next
  <2>5. CASE Publish(e)
    BY <2>5, PublishSteps DEF Link!Next
  <2>6. CASE Answer(e) \/ AnswerFails(e)
    BY <2>6, AnswerSteps DEF Link!Next
  <2>7. CASE PollEmpty(e)
    BY <2>7, PollEmptySteps DEF Link!Next
  <2>8. CASE TakePadding(e) \/ TakeData(e) \/ TakeEnd(e)
    BY <2>8, PaddingSteps, DataSteps, TakeEndSteps
  <2>9. CASE NotifyPeer(e) \/ Wake(e) \/ Die(e)
    BY <2>9, QuietSteps
  <2> QED BY <2>1, <2>2, <2>3, <2>4, <2>5, <2>6, <2>7, <2>8, <2>9 DEF Continue
<1>2. CASE UNCHANGED channelVars
  <2>1. UNCHANGED <<position, nextId, backpressured, localClosed, remoteClosed, partial, ring,
                    hint, at, pending, taken, event>>
    BY <1>2 DEF channelVars, endpointVars, transportVars, callVars
  <2>2. ChannelInv'
    BY <2>1 DEF ChannelInv, ChannelTypes, WholeMessages, Planned, Returning
  <2>3. UNCHANGED Link!vars
    BY <2>1, QueuesSame DEF Link!vars
  <2> QED BY <2>2, <2>3
<1> QED BY <1>1, <1>2

\* In every state of a channel, whatever its limits and ring: records on their
\* way make whole messages, a planned batch is one message or end of an endpoint
\* still open, and an event in hand is one that a call is about to return.
THEOREM ChannelInvariance == ChannelSpec => []ChannelInv
<1>1. ChannelInit => ChannelInv
  BY ChannelInitially
<1>2. ChannelInv /\ [ChannelNext]_channelVars => ChannelInv'
  BY ChannelSteps
<1> QED BY <1>1, <1>2, PTL DEF ChannelSpec

\* send, close, reset and poll deliver every accepted message whole, once and in
\* order, and an end last, whatever fragments, wrap tails, lost hints, failed
\* notifications and deaths come in between.
THEOREM ChannelImplementsLink == ChannelSpec => ImplementsLink
<1>1. ChannelInit => Link!Init
  BY ChannelInitially
<1>2. ChannelInv /\ [ChannelNext]_channelVars => [Link!Next]_(Link!vars)
  BY ChannelSteps
<1> QED BY <1>1, <1>2, ChannelInvariance, PTL DEF ChannelSpec, ImplementsLink, Link!Spec

\* Where messages may be larger than one record, a ring with nothing in it never
\* refuses a message for lack of room: the capacity rule of the configuration
\* counts the worst wrap tail, at every offset of the producer.
THEOREM ChannelEmptyRingAccepts ==
  ASSUME Inline < Largest PROVE ChannelSpec => EmptyRingAccepts
<1> DEFINE Refuses == \A e \in End : \A payload \in Payloads[e] :
                        SendRefused(e, payload) => Used(e) > 0
<1>1. ChannelInv => Refuses
  <2> SUFFICES ASSUME ChannelInv, NEW e \in End, NEW payload \in Payloads[e],
                      SendRefused(e, payload)
               PROVE  Used(e) > 0
    OBVIOUS
  <2>1. payload \in 0 .. Largest
    BY ChannelAssumption
  <2>2. Used(e) \in Nat
    BY CellsAreNat DEF Used, ChannelInv, ChannelTypes
  <2>3. backpressured'[e] = Flow(backpressured[e], Used(e))
    BY DEF SendRefused, SendCall, RefreshFlow, ChannelInv, ChannelTypes
  <2>4. CASE backpressured'[e]
    <3>1. Low \in Nat /\ High \in Nat /\ Low < High
      BY WatermarkAssumption DEF ValidWatermarks
    <3>2. Used(e) > Low \/ Used(e) >= High
      BY <2>3, <2>4, Zenon DEF Flow
    <3> QED BY <2>2, <3>1, <3>2
  <2>5. CASE ~BatchFits(e, PlannedSend(e, payload))
    <3>1. CellsIn(PlannedSend(e, payload)) <= Capacity
      BY <2>1, SendFitsEmptyRing DEF ChannelInv, ChannelTypes
    <3>2. CellsIn(PlannedSend(e, payload)) \in Nat
      BY <2>1, SendIsBatch, CellsAreNat DEF Batch, ChannelInv, ChannelTypes
    <3> QED BY <2>2, <2>5, <3>1, <3>2, LimitsHold DEF BatchFits
  <2> QED BY <2>4, <2>5 DEF SendRefused
<1>2. ChannelInv /\ [ChannelNext]_channelVars => [Refuses]_channelVars
  BY <1>1
<1> QED BY <1>2, ChannelInvariance, PTL DEF ChannelSpec, EmptyRingAccepts
=============================================================================
