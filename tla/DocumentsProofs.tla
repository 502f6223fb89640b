--------------------------- MODULE DocumentsProofs ---------------------------
(***************************************************************************)
(* The web content process, for any number of documents, connections and   *)
(* messages: what the script hears of a connection.                        *)
(***************************************************************************)
EXTENDS Documents, FiniteSetTheorems, WellFoundedInduction, TLAPS

(***************************************************************************)
(* Recursion over the elements of a sequence.  The library states          *)
(* induction for operators; over sets of numbers it follows from its       *)
(* theorem that the finite sets are well-founded under strict inclusion.   *)
(***************************************************************************)

\* A set of numbers with 0 and each successor of its members is Nat.
LEMMA SetInduction ==
  ASSUME NEW P \in SUBSET Nat, 0 \in P, \A n \in P : n + 1 \in P
  PROVE  P = Nat
<1> SUFFICES ASSUME P # Nat PROVE FALSE
  OBVIOUS
<1> DEFINE T == {0 .. k : k \in Nat \ P}
           R == StrictSubsetOrdering(Nat)
<1>1. T \subseteq FiniteSubsetsOf(Nat)
  <2>1. \A k \in Nat : IsFiniteSet(0 .. k) /\ 0 .. k \in SUBSET Nat
    BY FS_Interval
  <2> QED BY <2>1 DEF FiniteSubsetsOf
<1>2. T # {}
  OBVIOUS
<1>3. IsWellFoundedOn(R, FiniteSubsetsOf(Nat))
  BY FS_StrictSubsetOrderingWellFounded
<1> HIDE DEF R
<1>4. \E x \in T : \A y \in T : ~ (<<y, x>> \in R)
  <2> HIDE DEF T
  <2> QED BY <1>1, <1>2, <1>3, WFMin
<1>5. PICK k \in Nat \ P : \A j \in Nat \ P : ~ (<<0 .. j, 0 .. k>> \in R)
  BY <1>4
<1>6. PICK j \in Nat : k = j + 1
  OBVIOUS
<1>7. <<0 .. j, 0 .. k>> \in R
  <2>1. 0 .. j \in SUBSET Nat /\ 0 .. k \in SUBSET Nat /\ 0 .. j \subseteq 0 .. k
    BY <1>6
  <2>2. k \in 0 .. k /\ k \notin 0 .. j
    BY <1>6
  <2>3. 0 .. j # 0 .. k
    BY <2>2
  <2> QED BY <2>1, <2>3 DEF R, StrictSubsetOrdering
<1>8. j \in P
  BY <1>5, <1>7
<1> QED BY <1>5, <1>6, <1>8

-----------------------------------------------------------------------------
(* What a queue holds for a port.                                          *)

QueueEntry == [port : Connection, item : ItemOf]

\* One step of ItemsFor.
Picked(p, items, entry) ==
  IF entry.port = p /\ entry.item.kind # "writable" THEN Append(items, entry.item) ELSE items

\* f[n] are the items for p among the first n entries.
Collects(p, f, queue) ==
  /\ f \in [0 .. Len(queue) -> Seq(ItemOf)]
  /\ f[0] = <<>>
  /\ \A n \in 1 .. Len(queue) : f[n] = Picked(p, f[n - 1], queue[n])

LEMMA EntryTypes ==
  /\ \A e \in QueueEntry : e.item \in ItemOf
  /\ \A p \in Connection, items \in Seq(ItemOf), e \in QueueEntry :
       Picked(p, items, e) \in Seq(ItemOf)
<1>1. \A e \in QueueEntry : e.item \in ItemOf
  BY DEF QueueEntry
<1>2. ASSUME NEW p \in Connection, NEW items \in Seq(ItemOf), NEW e \in QueueEntry
      PROVE  Picked(p, items, e) \in Seq(ItemOf)
  BY <1>1 DEF Picked
<1> QED BY <1>1, <1>2

\* There is one function that collects, and ItemsFor is its last value.
LEMMA ItemsForIs ==
  ASSUME NEW p \in Connection, NEW queue \in Seq(QueueEntry)
  PROVE  /\ \E f : Collects(p, f, queue)
         /\ \A f : Collects(p, f, queue) => ItemsFor(p, queue) = f[Len(queue)]
<1> DEFINE S == Seq(ItemOf)
<1>1. PICK N \in Nat : N = Len(queue) /\ \A n \in 1 .. N : queue[n] \in QueueEntry
  OBVIOUS
<1> DEFINE g == [n \in 1 .. N |-> [r \in S |-> Picked(p, r, queue[n])]]
           Upto(f) == f = [n \in 0 .. N |->
                             IF n = 0 THEN <<>>
                             ELSE IF queue[n].port = p /\ queue[n].item.kind # "writable"
                                  THEN Append(f[n - 1], queue[n].item)
                             ELSE f[n - 1]]
<1>2. ItemsFor(p, queue) = (CHOOSE f : Upto(f))[N]
  BY <1>1 DEF ItemsFor
<1>3. ASSUME NEW f, Upto(f)
      PROVE  f[0] = <<>> /\ \A n \in 1 .. N : f[n] = Picked(p, f[n - 1], queue[n])
  <2>1. 0 \in 0 .. N /\ \A n \in 1 .. N : n \in 0 .. N /\ n # 0
    OBVIOUS
  <2>2. f[0] = <<>>
    BY <1>3, <2>1
  <2>3. ASSUME NEW n \in 1 .. N PROVE f[n] = Picked(p, f[n - 1], queue[n])
    BY <1>3, <2>1 DEF Picked
  <2> QED BY <2>2, <2>3
<1>4. ASSUME NEW f, Collects(p, f, queue) PROVE Upto(f)
  <2>1. f \in [0 .. N -> S]
    BY <1>1, <1>4 DEF Collects
  <2>2. ASSUME NEW n \in 0 .. N
        PROVE  f[n] = IF n = 0 THEN <<>>
                      ELSE IF queue[n].port = p /\ queue[n].item.kind # "writable"
                           THEN Append(f[n - 1], queue[n].item)
                      ELSE f[n - 1]
    <3>1. n = 0 \/ n \in 1 .. N
      OBVIOUS
    <3> QED BY <1>1, <1>4, <3>1 DEF Collects, Picked
  <2> QED BY <2>1, <2>2
<1>5. g \in [1 .. N -> [S -> S]] /\ <<>> \in S
  <2>1. \A n \in 1 .. N, r \in S : Picked(p, r, queue[n]) \in S
    BY <1>1, EntryTypes
  <2>2. <<>> \in S
    OBVIOUS
  <2> HIDE DEF S
  <2> QED BY <2>1, <2>2
<1>6. \A n \in 1 .. N, r \in S : g[n][r] = Picked(p, r, queue[n])
  OBVIOUS
<1>7. PICK c : Upto(c) /\ (\E f : Collects(p, f, queue)) /\ ItemsFor(p, queue) = c[N]
  <2> HIDE DEF g, S
  <2> DEFINE Run(n, e) == e[0] = <<>> /\ \A k \in 1 .. n : e[k] = g[k][e[k - 1]]
             P == {n \in Nat : n <= N => \E e \in [0 .. n -> S] : Run(n, e)}
  <2>a. 0 \in P
    <3>1. PICK x \in S : x = <<>>
      BY <1>5
    <3> DEFINE e == [k \in 0 .. 0 |-> x]
    <3>2. e \in [0 .. 0 -> S] /\ Run(0, e)
      BY <3>1
    <3> QED BY <3>2
  <2>b. ASSUME NEW n \in P PROVE n + 1 \in P
    <3> SUFFICES ASSUME n + 1 <= N PROVE \E e \in [0 .. n + 1 -> S] : Run(n + 1, e)
      OBVIOUS
    <3>1. PICK e \in [0 .. n -> S] : Run(n, e)
      OBVIOUS
    <3>2. PICK y \in S : y = g[n + 1][e[n]]
      <4>1. g[n + 1] \in [S -> S] /\ e[n] \in S
        BY <1>5
      <4> QED BY <4>1
    <3> DEFINE f == [k \in 0 .. n + 1 |-> IF k <= n THEN e[k] ELSE y]
    <3>3. f \in [0 .. n + 1 -> S]
      OBVIOUS
    <3>4. f[0] = <<>>
      BY <3>1
    <3>5. ASSUME NEW k \in 1 .. n + 1 PROVE f[k] = g[k][f[k - 1]]
      <4>1. CASE k \in 1 .. n
        <5>1. f[k] = e[k] /\ f[k - 1] = e[k - 1]
          BY <4>1
        <5> QED BY <3>1, <4>1, <5>1
      <4>2. CASE k = n + 1
        <5>1. f[k] = y /\ f[k - 1] = e[n]
          BY <4>2
        <5> QED BY <3>2, <4>2, <5>1
      <4> QED BY <4>1, <4>2
    <3> QED BY <3>3, <3>4, <3>5
  <2>1. PICK e \in [0 .. N -> S] : e[0] = <<>> /\ \A n \in 1 .. N : e[n] = g[n][e[n - 1]]
    <3>1. P = Nat
      <4>1. P \in SUBSET Nat
        OBVIOUS
      <4> HIDE DEF P
      <4> QED BY <2>a, <2>b, <4>1, SetInduction
    <3>2. N \in P
      BY <3>1
    <3> QED BY <3>2
  <2> HIDE DEF P
  <2>2. ASSUME NEW n \in 1 .. N PROVE e[n] = Picked(p, e[n - 1], queue[n])
    <3>1. n - 1 \in 0 .. N
      OBVIOUS
    <3> QED BY <1>6, <2>1, <3>1
  <2>3. Collects(p, e, queue)
    BY <1>1, <2>1, <2>2 DEF Collects, S
  <2> HIDE DEF Upto
  <2>4. Upto(e)
    BY <1>4, <2>3
  <2> QED BY <1>2, <2>3, <2>4
<1>8. ASSUME NEW f, Collects(p, f, queue) PROVE ItemsFor(p, queue) = f[N]
  <2> HIDE DEF Upto
  <2>1. c[0] = f[0]
    BY <1>3, <1>7, <1>8 DEF Collects
  <2>2. \A n \in 1 .. N : f[n] = Picked(p, f[n - 1], queue[n])
    BY <1>1, <1>8 DEF Collects
  <2>3. \A n \in 1 .. N : c[n] = Picked(p, c[n - 1], queue[n])
    BY <1>3, <1>7
  <2>4. \A n \in 1 .. N : c[n - 1] = f[n - 1] => c[n] = f[n]
    BY <2>2, <2>3
  <2>5. \A n \in 0 .. N : c[n] = f[n]
    <3> DEFINE P == {n \in Nat : n <= N => c[n] = f[n]}
    <3>1. 0 \in P /\ P \in SUBSET Nat
      BY <2>1
    <3>2. ASSUME NEW n \in P PROVE n + 1 \in P
      <4> SUFFICES ASSUME n + 1 <= N PROVE c[n + 1] = f[n + 1]
        OBVIOUS
      <4>1. n + 1 \in 1 .. N /\ (n + 1) - 1 = n /\ c[n] = f[n]
        OBVIOUS
      <4> QED BY <2>4, <4>1
    <3>3. P = Nat
      <4> HIDE DEF P
      <4> QED BY <3>1, <3>2, SetInduction
    <3> QED BY <3>3
  <2> QED BY <1>7, <2>5
<1> QED BY <1>1, <1>7, <1>8

\* The items of a concatenation.
LEMMA ItemsForConcat ==
  ASSUME NEW p \in Connection, NEW s \in Seq(QueueEntry), NEW t \in Seq(QueueEntry)
  PROVE  /\ ItemsFor(p, s \o t) = ItemsFor(p, s) \o ItemsFor(p, t)
         /\ ItemsFor(p, s) \in Seq(ItemOf)
<1>1. PICK M \in Nat, N \in Nat : M = Len(s) /\ N = Len(t)
  OBVIOUS
<1>2. /\ s \o t \in Seq(QueueEntry) /\ Len(s \o t) = M + N
      /\ \A n \in 1 .. M : (s \o t)[n] = s[n] /\ s[n] \in QueueEntry
      /\ \A n \in 1 .. N : (s \o t)[M + n] = t[n] /\ t[n] \in QueueEntry
  BY <1>1
<1>3. PICK f : Collects(p, f, s) /\ ItemsFor(p, s) = f[M]
  BY <1>1, ItemsForIs
<1>4. PICK e : Collects(p, e, t) /\ ItemsFor(p, t) = e[N]
  BY <1>1, ItemsForIs
<1>5. /\ f \in [0 .. M -> Seq(ItemOf)] /\ f[0] = <<>>
      /\ \A n \in 1 .. M : f[n] = Picked(p, f[n - 1], s[n])
  BY <1>1, <1>3 DEF Collects
<1>6. /\ e \in [0 .. N -> Seq(ItemOf)] /\ e[0] = <<>>
      /\ \A n \in 1 .. N : e[n] = Picked(p, e[n - 1], t[n])
  BY <1>1, <1>4 DEF Collects
<1>7. \A a, b \in Seq(ItemOf), w \in QueueEntry : a \o Picked(p, b, w) = Picked(p, a \o b, w)
  <2> SUFFICES ASSUME NEW a \in Seq(ItemOf), NEW b \in Seq(ItemOf), NEW w \in QueueEntry
               PROVE  a \o Picked(p, b, w) = Picked(p, a \o b, w)
    OBVIOUS
  <2>1. PICK r \in ItemOf : r = w.item
    BY EntryTypes
  <2>2. a \o Append(b, r) = Append(a \o b, r)
    OBVIOUS
  <2> QED BY <2>1, <2>2 DEF Picked
<1>8. \A a \in Seq(ItemOf) : a \o <<>> = a
  OBVIOUS
<1>9. \A a, b \in Seq(ItemOf) : a \o b \in Seq(ItemOf)
  OBVIOUS
<1> DEFINE h == [n \in 0 .. M + N |-> IF n <= M THEN f[n] ELSE f[M] \o e[n - M]]
<1>10. /\ \A n \in 0 .. M : h[n] = f[n]
       /\ \A n \in 0 .. N : h[M + n] = f[M] \o e[n]
  <2>1. \A n \in 0 .. M : h[n] = f[n]
    OBVIOUS
  <2>2. ASSUME NEW n \in 0 .. N PROVE h[M + n] = f[M] \o e[n]
    <3>1. CASE n = 0
      <4>1. h[M + n] = f[M]
        BY <3>1, <2>1
      <4> HIDE DEF h
      <4> QED BY <1>5, <1>6, <1>8, <3>1, <4>1
    <3>2. CASE n # 0
      <4>1. M + n \in 0 .. M + N /\ ~(M + n <= M) /\ (M + n) - M = n
        BY <3>2
      <4> QED BY <4>1
    <3> QED BY <3>1, <3>2
  <2> QED BY <2>1, <2>2
<1>11. h \in [0 .. M + N -> Seq(ItemOf)]
  <2>1. \A n \in 0 .. M + N : h[n] \in Seq(ItemOf)
    <3>1. \A n \in 0 .. M : h[n] \in Seq(ItemOf)
      <4> HIDE DEF h
      <4> QED BY <1>5, <1>10
    <3>2. \A n \in 0 .. N : h[M + n] \in Seq(ItemOf)
      <4> HIDE DEF h
      <4>1. f[M] \in Seq(ItemOf)
        BY <1>5
      <4> QED BY <1>6, <1>9, <1>10, <4>1
    <3>3. \A n \in 0 .. M + N : n \in 0 .. M \/ \E k \in 0 .. N : n = M + k
      <4> SUFFICES ASSUME NEW n \in 0 .. M + N, n \notin 0 .. M
                   PROVE  n - M \in 0 .. N /\ n = M + (n - M)
        OBVIOUS
      <4> QED OBVIOUS
    <3> HIDE DEF h
    <3> QED BY <3>1, <3>2, <3>3
  <2> QED BY <2>1
<1> HIDE DEF h
<1>12. Collects(p, h, s \o t)
  <2>1. h[0] = <<>>
    BY <1>5, <1>10
  <2>2. ASSUME NEW n \in 1 .. M + N PROVE h[n] = Picked(p, h[n - 1], (s \o t)[n])
    <3>1. CASE n \in 1 .. M
      <4>1. n - 1 \in 0 .. M /\ n \in 0 .. M
        BY <3>1
      <4> QED BY <1>2, <1>5, <1>10, <3>1, <4>1
    <3>2. CASE n \notin 1 .. M
      <4>1. PICK k \in 1 .. N : n = M + k
        <5>1. n - M \in 1 .. N /\ n = M + (n - M)
          BY <3>2
        <5> QED BY <5>1
      <4>2. k \in 0 .. N /\ k - 1 \in 0 .. N /\ n - 1 = M + (k - 1)
        BY <4>1
      <4>3. h[n] = f[M] \o e[k] /\ h[n - 1] = f[M] \o e[k - 1] /\ (s \o t)[n] = t[k]
        BY <1>2, <1>10, <4>1, <4>2
      <4>4. e[k] = Picked(p, e[k - 1], t[k]) /\ e[k - 1] \in Seq(ItemOf)
        BY <1>6, <4>1, <4>2
      <4>5. f[M] \in Seq(ItemOf) /\ t[k] \in QueueEntry
        BY <1>2, <1>5, <4>1
      <4> HIDE DEF h
      <4>6. Picked(p, f[M] \o e[k - 1], t[k]) = f[M] \o Picked(p, e[k - 1], t[k])
        BY <1>7, <4>4, <4>5
      <4>7. h[n] = Picked(p, h[n - 1], t[k])
        BY <4>3, <4>4, <4>6
      <4> QED BY <4>3, <4>7
    <3> QED BY <3>1, <3>2
  <2> QED BY <1>2, <1>11, <2>1, <2>2 DEF Collects
<1>13. ItemsFor(p, s \o t) = h[M + N]
  BY <1>2, <1>12, ItemsForIs
<1>14. M \in 0 .. M /\ N \in 0 .. N
  OBVIOUS
<1>15. h[M + N] = f[M] \o e[N]
  BY <1>10, <1>14
<1>16. f[M] \in Seq(ItemOf)
  BY <1>5, <1>14
<1> QED BY <1>3, <1>4, <1>13, <1>15, <1>16

\* The items of no entry and of one entry.
LEMMA ItemsForSmall ==
  ASSUME NEW p \in Connection
  PROVE  /\ ItemsFor(p, <<>>) = <<>>
         /\ \A w \in QueueEntry :
              ItemsFor(p, <<w>>) =
                IF w.port = p /\ w.item.kind # "writable" THEN <<w.item>> ELSE <<>>
<1>1. PICK none \in Seq(ItemOf) : none = <<>>
  <2>1. <<>> \in Seq(ItemOf)
    OBVIOUS
  <2> QED BY <2>1, Zenon
<1>2. ItemsFor(p, <<>>) = <<>>
  <2> DEFINE f == [n \in 0 .. 0 |-> none]
  <2>1. f \in [0 .. 0 -> Seq(ItemOf)] /\ f[0] = none
    OBVIOUS
  <2> HIDE DEF f
  <2>2. <<>> \in Seq(QueueEntry) /\ Len(<<>>) = 0
    OBVIOUS
  <2>3. Collects(p, f, <<>>)
    BY <1>1, <2>1, <2>2 DEF Collects
  <2> QED BY <1>1, <2>1, <2>2, <2>3, ItemsForIs
<1>3. ASSUME NEW w \in QueueEntry
      PROVE  ItemsFor(p, <<w>>) = IF w.port = p /\ w.item.kind # "writable" THEN <<w.item>> ELSE <<>>
  <2>1. PICK kept \in Seq(ItemOf) : kept = Picked(p, none, w)
    BY EntryTypes
  <2> DEFINE f == [n \in 0 .. 1 |-> IF n = 0 THEN none ELSE kept]
  <2>2. f \in [0 .. 1 -> Seq(ItemOf)] /\ f[0] = none /\ f[1] = kept
    OBVIOUS
  <2> HIDE DEF f
  <2>3. <<w>> \in Seq(QueueEntry) /\ Len(<<w>>) = 1 /\ <<w>>[1] = w
    OBVIOUS
  <2>4. \A n \in 1 .. 1 : f[n] = Picked(p, f[n - 1], <<w>>[n])
    BY <2>1, <2>2, <2>3
  <2>5. Collects(p, f, <<w>>)
    BY <1>1, <2>2, <2>3, <2>4 DEF Collects
  <2>6. ItemsFor(p, <<w>>) = kept
    BY <2>2, <2>3, <2>5, ItemsForIs
  <2>7. w.item \in ItemOf /\ Append(<<>>, w.item) = <<w.item>>
    BY EntryTypes
  <2> QED BY <1>1, <2>1, <2>6, <2>7 DEF Picked
<1> QED BY <1>2, <1>3

\* A queue that holds nothing for p, and one that holds nothing else.
LEMMA ItemsForNone ==
  ASSUME NEW p \in Connection, NEW queue \in Seq(QueueEntry),
         \A i \in DOMAIN queue : queue[i].port # p \/ queue[i].item.kind = "writable"
  PROVE  ItemsFor(p, queue) = <<>>
<1>1. PICK none \in Seq(ItemOf) : none = <<>>
  <2>1. <<>> \in Seq(ItemOf)
    OBVIOUS
  <2> QED BY <2>1, Zenon
<1>2. PICK N \in Nat : N = Len(queue) /\ DOMAIN queue = 1 .. N
  OBVIOUS
<1> DEFINE f == [n \in 0 .. N |-> none]
<1>3. f \in [0 .. N -> Seq(ItemOf)] /\ f[0] = none /\ f[N] = none
  OBVIOUS
<1>4. \A n \in 1 .. N : f[n] = Picked(p, f[n - 1], queue[n])
  BY <1>2 DEF Picked
<1> HIDE DEF f
<1>5. Collects(p, f, queue)
  BY <1>1, <1>2, <1>3, <1>4 DEF Collects
<1> QED BY <1>1, <1>2, <1>3, <1>5, ItemsForIs

LEMMA ItemsForAll ==
  ASSUME NEW p \in Connection, NEW items \in Seq(ItemOf),
         \A i \in DOMAIN items : items[i].kind # "writable"
  PROVE  ItemsFor(p, [i \in DOMAIN items |-> Queued(p, items[i])]) = items
<1>1. PICK N \in Nat : N = Len(items) /\ DOMAIN items = 1 .. N
  OBVIOUS
<1>2. PICK queue : queue = [i \in 1 .. N |-> Queued(p, items[i])]
  OBVIOUS
<1>3. /\ queue \in Seq(QueueEntry) /\ Len(queue) = N
      /\ \A i \in 1 .. N : queue[i].port = p /\ queue[i].item = items[i]
  <2>1. \A i \in 1 .. N : Queued(p, items[i]) \in QueueEntry
    BY <1>1 DEF Queued, QueueEntry
  <2>2. queue \in [1 .. N -> QueueEntry]
    BY <1>2, <2>1
  <2> QED BY <1>2, <2>2 DEF Queued
<1> DEFINE f == [n \in 0 .. N |-> SubSeq(items, 1, n)]
<1>4. /\ f \in [0 .. N -> Seq(ItemOf)] /\ f[0] = <<>> /\ f[N] = items
  <2>1. \A n \in 0 .. N : SubSeq(items, 1, n) \in Seq(ItemOf)
    BY <1>1
  <2>2. SubSeq(items, 1, 0) = <<>> /\ SubSeq(items, 1, N) = items
    BY <1>1
  <2> QED BY <2>1, <2>2
<1>5. ASSUME NEW n \in 1 .. N PROVE f[n] = Picked(p, f[n - 1], queue[n])
  <2>1. SubSeq(items, 1, n) = Append(SubSeq(items, 1, n - 1), items[n])
    BY <1>1
  <2>2. n - 1 \in 0 .. N /\ n \in 0 .. N
    OBVIOUS
  <2> QED BY <1>1, <1>3, <2>1, <2>2 DEF Picked
<1> HIDE DEF f
<1>6. Collects(p, f, queue)
  BY <1>3, <1>4, <1>5 DEF Collects
<1>7. ItemsFor(p, queue) = items
  BY <1>3, <1>4, <1>6, ItemsForIs
<1> QED BY <1>1, <1>2, <1>7

-----------------------------------------------------------------------------
(* The inductive invariant.                                                *)

PortStates == {"none", "open", "closing"} \cup Terminal

PortRecord == [state : PortStates, backpressured : BOOLEAN]

TransportRecord == [inbox : Seq(ItemOf), used : 0 .. Capacity, flow : BOOLEAN, posted : Nat]

ScriptRecord ==
  [state : PortStates, backpressured : BOOLEAN, bufferedAmount : Nat, waiters : Nat,
   handler : BOOLEAN]

Types ==
  /\ core \in [Connection -> PortRecord]
  /\ events \in Seq(QueueEntry)
  /\ transport \in [Connection -> TransportRecord]
  /\ script \in [Connection -> ScriptRecord]
  /\ given \in [Connection -> Seq(ItemOf)]
  /\ heard \in [Connection -> Seq(ItemOf)]
  /\ pc \in {"idle", "dispatching"}
  /\ pc = "dispatching" => events # <<>>

\* The shim's generation counts the documents.
Generations == document \in 0 .. LastDocument /\ generation \in 1 .. LastDocument + 1

\* A peer sends messages and then at most one ending.
GivenIsWellFormed ==
  \A p \in Connection : \A i \in 1 .. Len(given[p]) :
    /\ given[p][i].kind \in {"message"} \cup Endings
    /\ i < Len(given[p]) => given[p][i].kind = "message"

\* items are some of what was given, and then an ending.
EndsWith(items, gave) ==
  /\ items # <<>>
  /\ items[Len(items)].kind \in Endings
  /\ Len(items) - 1 <= Len(gave)
  /\ \A i \in 1 .. Len(items) - 1 : items[i] = gave[i] /\ items[i].kind = "message"

Unconnected(p) ==
  /\ heard[p] = <<>> /\ Waiting(p) = <<>>
  /\ transport[p].inbox = <<>> /\ given[p] = <<>> /\ script[p] = NoScript

Live(p) ==
  /\ (heard[p] \o Waiting(p)) \o transport[p].inbox = given[p]
  /\ \A i \in 1 .. Len(heard[p] \o Waiting(p)) : (heard[p] \o Waiting(p))[i].kind = "message"
  /\ script[p].state \in {"open", "closing"} /\ script[p].handler

Done(p) ==
  /\ EndsWith(heard[p] \o Waiting(p), given[p])
  /\ script[p].state # "none"
  /\ script[p].handler <=> (script[p].state \notin Terminal)
  /\ script[p].state \in Terminal => Waiting(p) = <<>>

PortInv(p) ==
  /\ core[p].state = "none" => Unconnected(p)
  /\ core[p].state \in {"open", "closing"} => Live(p)
  /\ core[p].state \in Terminal => Done(p)

DocumentsInv == Types /\ Generations /\ GivenIsWellFormed /\ \A p \in Connection : PortInv(p)

-----------------------------------------------------------------------------
(* Steps that leave what a port has been given and has heard alone.        *)

\* Nothing of PortInv(p) changes.
PortKept(p) ==
  /\ core'[p].state = core[p].state
  /\ transport'[p].inbox = transport[p].inbox
  /\ given'[p] = given[p] /\ heard'[p] = heard[p]
  /\ ItemsFor(p, events') = ItemsFor(p, events)
  /\ script[p] = NoScript => script'[p] = NoScript
  /\ script[p].state = script'[p].state \/ {script[p].state, script'[p].state} = {"open", "closing"}
  /\ script'[p].handler = script[p].handler

LEMMA KeptStays ==
  ASSUME NEW p \in Connection, PortInv(p), PortKept(p)
  PROVE  PortInv(p)'
<1>1. heard'[p] \o ItemsFor(p, events') = heard[p] \o ItemsFor(p, events)
  BY DEF PortKept
<1>2. Unconnected(p) => Unconnected(p)'
  BY DEF PortKept, Unconnected, Waiting
<1>3. Live(p) => Live(p)'
  BY <1>1 DEF PortKept, Live, Waiting
<1>4. Done(p) => Done(p)'
  BY <1>1 DEF PortKept, Done, Waiting, Terminal
<1> QED BY <1>2, <1>3, <1>4 DEF PortInv, PortKept

LEMMA InitInv == Init => DocumentsInv
<1> SUFFICES ASSUME Init PROVE DocumentsInv
  OBVIOUS
<1> USE DocumentsAssumption DEF Init
<1>1. Types
  <2>1. NoPort \in PortRecord /\ NoScript \in ScriptRecord
    BY DEF NoPort, NoScript, PortRecord, ScriptRecord, PortStates
  <2>2. Capacity \in Nat
    BY WatermarkAssumption, GeometryAssumption
  <2>3. Idle \in TransportRecord
    BY <2>2 DEF Idle, TransportRecord
  <2> QED BY <2>1, <2>3 DEF Types
<1>2. Generations
  BY DEF Generations
<1>3. GivenIsWellFormed
  BY DEF GivenIsWellFormed
<1>4. ASSUME NEW p \in Connection PROVE PortInv(p)
  <2>1. ItemsFor(p, <<>>) = <<>>
    BY ItemsForSmall
  <2>2. Unconnected(p)
    BY <2>1 DEF Unconnected, Waiting, Idle
  <2> QED BY <2>2 DEF PortInv, NoPort, Terminal
<1> QED BY <1>1, <1>2, <1>3, <1>4 DEF DocumentsInv

LEMMA ShimStep ==
  ASSUME DocumentsInv, Shim
  PROVE  DocumentsInv'
<1> USE DocumentsAssumption
<1>1. Cleared /\ pc' = pc /\ pc = "idle"
  BY DEF Shim, DidClearWindowObject, WillDestroyPage
<1>2. Types'
  <2>1. NoPort \in PortRecord /\ NoScript \in ScriptRecord
    BY DEF NoPort, NoScript, PortRecord, ScriptRecord, PortStates
  <2>2. Capacity \in Nat
    BY GeometryAssumption
  <2>3. Idle \in TransportRecord
    BY <2>2 DEF Idle, TransportRecord
  <2> QED BY <1>1, <2>1, <2>3 DEF Types, Cleared
<1>3. Generations'
  BY DEF DocumentsInv, Generations, Shim, DidClearWindowObject, WillDestroyPage, Install
<1>4. GivenIsWellFormed'
  BY <1>1 DEF GivenIsWellFormed, Cleared
<1>5. ASSUME NEW p \in Connection PROVE PortInv(p)'
  <2>1. ItemsFor(p, <<>>) = <<>>
    BY ItemsForSmall
  <2>2. Unconnected(p)'
    BY <1>1, <2>1 DEF Unconnected, Waiting, Idle, Cleared
  <2>3. core'[p].state = "none"
    BY <1>1 DEF Cleared, NoPort
  <2> QED BY <2>2, <2>3 DEF PortInv, Terminal
<1> QED BY <1>2, <1>3, <1>4, <1>5 DEF DocumentsInv

LEMMA FlowIsBoolean ==
  ASSUME NEW flag \in BOOLEAN, NEW used \in Nat
  PROVE  Flow(flag, used) \in BOOLEAN
<1>1. (used > Low) \in BOOLEAN /\ (used >= High) \in BOOLEAN
  OBVIOUS
<1>2. CASE flag
  BY <1>1, <1>2, Zenon DEF Flow
<1>3. CASE ~flag
  BY <1>1, <1>3, Zenon DEF Flow
<1> QED BY <1>2, <1>3

\* The steps of the ring that carries what the script posts, and of its flags.
LEMMA RingStep ==
  ASSUME DocumentsInv, NEW c \in Connection,
         PeerTakes(c) \/ PostMessage(c) \/ PostRefused(c) \/ AskWritable(c)
  PROVE  DocumentsInv'
<1> USE DocumentsAssumption
<1>1. Types /\ Generations /\ GivenIsWellFormed /\ \A p \in Connection : PortInv(p)
  BY DEF DocumentsInv
<1>2. Capacity \in Nat /\ High \in Nat /\ Low \in Nat
  BY GeometryAssumption, WatermarkAssumption
<1>3. UNCHANGED <<document, generation, events, pc, given, heard>>
  BY DEF PeerTakes, PostMessage, PostRefused, AskWritable
<1>4. /\ core' \in [Connection -> PortRecord]
      /\ transport' \in [Connection -> TransportRecord]
      /\ script' \in [Connection -> ScriptRecord]
      /\ \A p \in Connection :
           /\ core'[p].state = core[p].state /\ transport'[p].inbox = transport[p].inbox
           /\ script[p] = NoScript => script'[p] = NoScript
           /\ script'[p].state = script[p].state /\ script'[p].handler = script[p].handler
  <2>1. /\ core \in [Connection -> PortRecord] /\ transport \in [Connection -> TransportRecord]
        /\ script \in [Connection -> ScriptRecord]
    BY <1>1 DEF Types
  <2>2. CASE PeerTakes(c)
    <3>1. [transport[c] EXCEPT !.used = @ - 1] \in TransportRecord
      <4>1. PICK used \in 0 .. Capacity : used = transport[c].used - 1
        <5>1. transport[c].used \in 0 .. Capacity /\ transport[c].used > 0
          BY <2>1, <2>2 DEF TransportRecord, PeerTakes
        <5>2. transport[c].used - 1 \in 0 .. Capacity
          BY <1>2, <5>1
        <5> QED BY <5>2
      <4>2. [transport[c] EXCEPT !.used = used] \in TransportRecord
        BY <2>1 DEF TransportRecord
      <4> QED BY <4>1, <4>2
    <3>2. [transport[c] EXCEPT !.used = @ - 1].inbox = transport[c].inbox
      BY <2>1 DEF TransportRecord
    <3> QED BY <2>1, <2>2, <3>1, <3>2 DEF PeerTakes
  <2>3. CASE PostMessage(c)
    <3>1. transport[c].used \in Nat /\ transport[c].used + 1 \in 0 .. Capacity
      <4>1. transport[c].used \in 0 .. Capacity /\ transport[c].used < Capacity
        BY <2>1, <2>3 DEF TransportRecord, PostMessage
      <4> QED BY <1>2, <4>1
    <3>2. PICK more \in 0 .. Capacity, full \in BOOLEAN, posted \in Nat :
            more = transport[c].used + 1 /\ full = Flow(FALSE, more) /\ posted = transport[c].posted + 1
      <4>1. Flow(FALSE, transport[c].used + 1) \in BOOLEAN
        <5>1. (transport[c].used + 1 >= High) \in BOOLEAN
          OBVIOUS
        <5> QED BY <5>1, Zenon DEF Flow
      <4>2. transport[c].posted + 1 \in Nat
        BY <2>1 DEF TransportRecord
      <4> QED BY <3>1, <4>1, <4>2
    <3> DEFINE t == [transport[c] EXCEPT !.used = more, !.flow = full, !.posted = posted]
               k == [core[c] EXCEPT !.backpressured = full]
               s == [script[c] EXCEPT !.backpressured = full, !.bufferedAmount = more]
    <3>3. t \in TransportRecord /\ t.inbox = transport[c].inbox
      BY <2>1 DEF TransportRecord
    <3>4. k \in PortRecord /\ k.state = core[c].state
      BY <2>1 DEF PortRecord
    <3>a. s \in ScriptRecord /\ s.state = script[c].state /\ s.handler = script[c].handler
      <4>1. more \in Nat
        BY <1>2
      <4> QED BY <2>1, <4>1 DEF ScriptRecord
    <3>5. script[c] # NoScript
      BY <2>3 DEF PostMessage, NoScript
    <3>6. /\ transport' = [transport EXCEPT ![c] = t] /\ core' = [core EXCEPT ![c] = k]
          /\ script' = [script EXCEPT ![c] = s]
      <4>1. transport' = [transport EXCEPT ![c] = [transport[c] EXCEPT
               !.used = transport[c].used + 1, !.flow = Flow(FALSE, transport[c].used + 1),
               !.posted = transport[c].posted + 1]]
        BY <2>3, SMT DEF PostMessage
      <4>2. core' = [core EXCEPT ![c] = [core[c] EXCEPT
               !.backpressured = Flow(FALSE, transport[c].used + 1)]]
        BY <2>3, Zenon DEF PostMessage
      <4>3. script' = [script EXCEPT ![c] = [script[c] EXCEPT
               !.backpressured = Flow(FALSE, transport[c].used + 1),
               !.bufferedAmount = transport[c].used + 1]]
        BY <2>3, Zenon DEF PostMessage
      <4> QED BY <3>2, <4>1, <4>2, <4>3, Zenon
    <3> HIDE DEF t, k, s
    <3> QED BY <2>1, <3>a, <3>3, <3>4, <3>5, <3>6
  <2>4. CASE PostRefused(c)
    <3>1. UNCHANGED <<core, script>>
      BY <2>4 DEF PostRefused
    <3>2. \/ transport' = [transport EXCEPT ![c].flow = Flow(@, transport[c].used)]
          \/ UNCHANGED transport
      BY <2>4 DEF PostRefused
    <3>3. PICK f : f = Flow(transport[c].flow, transport[c].used)
      OBVIOUS
    <3>4. f \in BOOLEAN
      <4>1. transport[c].used \in Nat /\ transport[c].flow \in BOOLEAN
        BY <1>2, <2>1 DEF TransportRecord
      <4> QED BY <3>3, <4>1, FlowIsBoolean
    <3> DEFINE t == [transport[c] EXCEPT !.flow = f]
    <3>5. t \in TransportRecord /\ t.inbox = transport[c].inbox
      BY <2>1, <3>4 DEF TransportRecord
    <3>6. transport' = [transport EXCEPT ![c] = t] \/ transport' = transport
      BY <3>2, <3>3
    <3> HIDE DEF t
    <3> QED BY <2>1, <3>1, <3>5, <3>6
  <2>5. CASE AskWritable(c)
    <3> DEFINE s == [script[c] EXCEPT !.waiters = 1]
    <3>1. s \in ScriptRecord /\ s.state = script[c].state /\ s.handler = script[c].handler
      BY <2>1 DEF ScriptRecord
    <3>2. script[c] # NoScript
      BY <2>5 DEF AskWritable, NoScript
    <3>3. script' = [script EXCEPT ![c] = s] /\ UNCHANGED <<core, transport>>
      BY <2>5 DEF AskWritable
    <3> HIDE DEF s
    <3> QED BY <2>1, <3>1, <3>2, <3>3
  <2> QED BY <2>2, <2>3, <2>4, <2>5
<1>5. Types' /\ Generations' /\ GivenIsWellFormed'
  BY <1>1, <1>3, <1>4 DEF Types, Generations, GivenIsWellFormed
<1>6. ASSUME NEW p \in Connection PROVE PortInv(p)'
  <2>1. PortKept(p)
    BY <1>3, <1>4 DEF PortKept
  <2> QED BY <1>1, <2>1, KeptStays
<1> QED BY <1>5, <1>6 DEF DocumentsInv

(***************************************************************************)
(* The peer.                                                               *)
(***************************************************************************)

\* Appending to the second of two sequences.
LEMMA AppendSecond ==
  ASSUME NEW S, NEW a \in Seq(S), NEW b \in Seq(S), NEW x \in S
  PROVE  /\ a \o Append(b, x) = Append(a \o b, x)
         /\ a \o b \in Seq(S) /\ Append(b, x) \in Seq(S)
OBVIOUS

LEMMA ArriveStep ==
  ASSUME DocumentsInv, NEW c \in Connection, NEW item \in ItemOf, Arrive(c, item),
         item.kind \in {"message"} \cup Endings
  PROVE  DocumentsInv'
<1>1. Types /\ Generations /\ GivenIsWellFormed /\ \A p \in Connection : PortInv(p)
  BY DEF DocumentsInv
<1>2. /\ transport \in [Connection -> TransportRecord]
      /\ given \in [Connection -> Seq(ItemOf)] /\ heard \in [Connection -> Seq(ItemOf)]
      /\ events \in Seq(QueueEntry)
  BY <1>1 DEF Types
<1>3. UNCHANGED <<document, generation, core, events, script, pc, heard>>
  BY DEF Arrive
<1>a. PICK inbox \in Seq(ItemOf) : inbox = Append(transport[c].inbox, item)
  <2>1. transport[c].inbox \in Seq(ItemOf)
    BY <1>2 DEF TransportRecord
  <2>2. Append(transport[c].inbox, item) \in Seq(ItemOf)
    BY <2>1, AppendSecond
  <2> QED BY <2>2, Zenon
<1> DEFINE t == [transport[c] EXCEPT !.inbox = inbox]
<1>4. t \in TransportRecord /\ t.inbox = Append(transport[c].inbox, item)
  BY <1>2, <1>a DEF TransportRecord
<1>5. transport' = [transport EXCEPT ![c] = t]
  BY <1>a DEF Arrive
<1> HIDE DEF t
<1>6. /\ given[c] \in Seq(ItemOf) /\ transport[c].inbox \in Seq(ItemOf)
      /\ given'[c] = Append(given[c], item) /\ \A p \in Connection \ {c} : given'[p] = given[p]
      /\ transport'[c].inbox = Append(transport[c].inbox, item)
      /\ \A p \in Connection \ {c} : transport'[p] = transport[p]
  BY <1>2, <1>4, <1>5 DEF Arrive, TransportRecord
<1>7. Types'
  <2>1. given' \in [Connection -> Seq(ItemOf)]
    <3>1. Append(given[c], item) \in Seq(ItemOf)
      BY <1>6
    <3> QED BY <1>2, <3>1 DEF Arrive
  <2> QED BY <1>1, <1>2, <1>3, <1>4, <1>5, <2>1 DEF Types
<1>8. Generations'
  BY <1>1, <1>3 DEF Generations
<1>9. \A i \in 1 .. Len(given[c]) : given[c][i].kind = "message"
  <2>1. \A i \in 1 .. Len(given[c]) : given[c][i].kind \notin Endings
    BY <1>6 DEF Arrive, Ended, ToSet
  <2> QED BY <1>1, <2>1 DEF GivenIsWellFormed
<1>10. GivenIsWellFormed'
  <2> SUFFICES ASSUME NEW p \in Connection, NEW i \in 1 .. Len(given'[p])
               PROVE  /\ given'[p][i].kind \in {"message"} \cup Endings
                      /\ i < Len(given'[p]) => given'[p][i].kind = "message"
    BY DEF GivenIsWellFormed
  <2>1. CASE p # c
    BY <1>1, <1>6, <2>1 DEF GivenIsWellFormed
  <2>2. CASE p = c
    <3>1. PICK g \in Seq(ItemOf) : g = given[c]
      BY <1>6
    <3>2. \A k \in 1 .. Len(g) : g[k].kind = "message"
      BY <1>9, <3>1
    <3>3. given'[p] = Append(g, item)
      BY <1>6, <2>2, <3>1
    <3>4. /\ Len(Append(g, item)) = Len(g) + 1 /\ Append(g, item)[Len(g) + 1] = item
          /\ \A k \in 1 .. Len(g) : Append(g, item)[k] = g[k]
      BY <3>1
    <3> QED BY <3>2, <3>3, <3>4
  <2> QED BY <2>1, <2>2
<1>11. ASSUME NEW p \in Connection PROVE PortInv(p)'
  <2>1. CASE p # c
    <3>1. PortKept(p)
      BY <1>3, <1>6, <2>1 DEF PortKept
    <3> QED BY <1>1, <3>1, KeptStays
  <2>2. CASE p = c
    <3>1. PICK w \in Seq(ItemOf) : w = Waiting(c) /\ w = Waiting(c)'
      BY <1>2, <1>3, ItemsForConcat DEF Waiting
    <3>2. PICK items \in Seq(ItemOf) : items = heard[c] \o w
      <4>1. heard[c] \in Seq(ItemOf)
        BY <1>2
      <4> QED BY <4>1, AppendSecond
    <3>3. heard' = heard /\ core' = core /\ script' = script
      BY <1>3
    <3>4. core[c].state # "none"
      BY DEF Arrive, Attached
    <3>5. Live(c) => Live(c)'
      <4>1. items \o transport'[c].inbox = Append(items \o transport[c].inbox, item)
        <5>1. PICK b \in Seq(ItemOf) : b = transport[c].inbox
          BY <1>6
        <5>2. items \o Append(b, item) = Append(items \o b, item)
          BY AppendSecond
        <5> QED BY <1>6, <5>1, <5>2
      <4> QED BY <1>6, <3>1, <3>2, <3>3, <4>1 DEF Live
    <3>6. Done(c) => Done(c)'
      <4>1. EndsWith(items, given[c]) => EndsWith(items, given'[c])
        BY <1>6 DEF EndsWith
      <4> QED BY <3>1, <3>2, <3>3, <4>1 DEF Done
    <3> QED BY <1>1, <2>2, <3>3, <3>4, <3>5, <3>6 DEF PortInv
  <2> QED BY <2>1, <2>2
<1> QED BY <1>7, <1>8, <1>10, <1>11 DEF DocumentsInv

(***************************************************************************)
(* The script opens and closes a port.                                     *)
(***************************************************************************)

LEMMA ConnectStep ==
  ASSUME DocumentsInv, NEW c \in Connection, Connect(c)
  PROVE  DocumentsInv'
<1>1. Types /\ Generations /\ GivenIsWellFormed /\ \A p \in Connection : PortInv(p)
  BY DEF DocumentsInv
<1>2. /\ core \in [Connection -> PortRecord] /\ script \in [Connection -> ScriptRecord]
      /\ heard \in [Connection -> Seq(ItemOf)] /\ given \in [Connection -> Seq(ItemOf)]
  BY <1>1 DEF Types
<1>3. /\ UNCHANGED <<document, generation, events, transport, pc, given, heard>>
      /\ core' = [core EXCEPT ![c] = OpenPort] /\ script' = [script EXCEPT ![c] = OpenScript]
      /\ core[c].state = "none"
  BY DEF Connect, Attached
<1>4. /\ OpenPort \in PortRecord /\ OpenPort.state = "open"
      /\ OpenScript \in ScriptRecord /\ OpenScript.state = "open" /\ OpenScript.handler
  BY DEF OpenPort, OpenScript, SetHandler, NoScript, PortRecord, ScriptRecord, PortStates
<1>5. Types'
  BY <1>1, <1>2, <1>3, <1>4 DEF Types
<1>6. Generations' /\ GivenIsWellFormed'
  BY <1>1, <1>3 DEF Generations, GivenIsWellFormed
<1>7. ASSUME NEW p \in Connection PROVE PortInv(p)'
  <2>1. CASE p # c
    <3>1. PortKept(p)
      BY <1>2, <1>3, <2>1 DEF PortKept
    <3> QED BY <1>1, <3>1, KeptStays
  <2>2. CASE p = c
    <3>1. Unconnected(c)
      BY <1>1, <1>3 DEF PortInv
    <3>2. core'[c].state = "open" /\ script'[c] = OpenScript
      BY <1>2, <1>3, <1>4
    <3>3. PICK none \in Seq(ItemOf) : none = <<>>
      <4>1. <<>> \in Seq(ItemOf)
        OBVIOUS
      <4> QED BY <4>1, Zenon
    <3>4. none \o none = none /\ Len(none) = 0
      BY <3>3
    <3>5. /\ heard'[c] = none /\ Waiting(c)' = none /\ transport'[c].inbox = none
          /\ given'[c] = none
      BY <1>3, <3>1, <3>3 DEF Unconnected, Waiting
    <3>6. Live(c)'
      BY <1>4, <3>2, <3>4, <3>5 DEF Live
    <3> QED BY <2>2, <3>2, <3>6 DEF PortInv, Terminal
  <2> QED BY <2>1, <2>2
<1> QED BY <1>5, <1>6, <1>7 DEF DocumentsInv

LEMMA CloseStep ==
  ASSUME DocumentsInv, NEW c \in Connection, Close(c)
  PROVE  DocumentsInv'
<1>1. Types /\ Generations /\ GivenIsWellFormed /\ \A p \in Connection : PortInv(p)
  BY DEF DocumentsInv
<1>2. /\ core \in [Connection -> PortRecord] /\ script \in [Connection -> ScriptRecord]
      /\ heard \in [Connection -> Seq(ItemOf)] /\ given \in [Connection -> Seq(ItemOf)]
      /\ events \in Seq(QueueEntry) /\ transport \in [Connection -> TransportRecord]
  BY <1>1 DEF Types
<1>3. /\ UNCHANGED <<document, generation, transport, pc, given, heard>>
      /\ core[c].state # "none" /\ script[c].state = "open"
  BY DEF Close, RequirePort, Attached
<1> DEFINE s == [script[c] EXCEPT !.state = "closing"]
<1>4. /\ s \in ScriptRecord /\ s.state = "closing" /\ s.handler = script[c].handler
      /\ script' = [script EXCEPT ![c] = s]
  BY <1>2 DEF Close, ScriptRecord, PortStates
<1> HIDE DEF s
<1>5. script' \in [Connection -> ScriptRecord] /\ script'[c] = s
      /\ \A p \in Connection \ {c} : script'[p] = script[p]
  BY <1>2, <1>4
<1>6. Generations' /\ GivenIsWellFormed'
  BY <1>1, <1>3 DEF Generations, GivenIsWellFormed
<1>7. CASE core[c].state = "open" /\ core' = [core EXCEPT ![c].state = "closing"] /\ UNCHANGED events
  <2>1. /\ core' \in [Connection -> PortRecord] /\ core'[c].state = "closing"
        /\ \A p \in Connection \ {c} : core'[p] = core[p]
    BY <1>2, <1>7 DEF PortRecord, PortStates
  <2>2. Types'
    BY <1>1, <1>3, <1>5, <1>7, <2>1 DEF Types
  <2>3. ASSUME NEW p \in Connection PROVE PortInv(p)'
    <3>1. CASE p # c
      <4>1. PortKept(p)
        BY <1>3, <1>5, <1>7, <2>1, <3>1 DEF PortKept
      <4> QED BY <1>1, <4>1, KeptStays
    <3>2. CASE p = c
      <4>1. Live(c)
        BY <1>1, <1>7 DEF PortInv
      <4>2. Live(c)'
        BY <1>3, <1>4, <1>5, <1>7, <4>1 DEF Live, Waiting
      <4> QED BY <2>1, <3>2, <4>2 DEF PortInv, Terminal
    <3> QED BY <3>1, <3>2
  <2> QED BY <1>6, <2>2, <2>3 DEF DocumentsInv
<1>8. ASSUME core[c].state = "open", core' = [core EXCEPT ![c].state = "failed"],
             events' = Append(events, Queued(c, [kind |-> "error", id |-> 0]))
      PROVE  DocumentsInv'
  <2>1. /\ core' \in [Connection -> PortRecord] /\ core'[c].state = "failed"
        /\ \A p \in Connection \ {c} : core'[p] = core[p]
    BY <1>2, <1>8 DEF PortRecord, PortStates, Terminal
  <2>2. PICK item \in ItemOf, w \in QueueEntry :
          item = [kind |-> "error", id |-> 0] /\ w = Queued(c, item)
    <3>1. [kind |-> "error", id |-> 0] \in ItemOf
      BY DEF ItemOf, Endings
    <3>2. \A item \in ItemOf : Queued(c, item) \in QueueEntry
      BY DEF QueueEntry, Queued
    <3> QED BY <3>1, <3>2
  <2>3. w.port = c /\ w.item = item /\ item.kind = "error"
    BY <2>2 DEF Queued
  <2>4. /\ <<w>> \in Seq(QueueEntry) /\ events' = events \o <<w>>
        /\ events' \in Seq(QueueEntry) /\ events' # <<>>
    BY <1>2, <1>8, <2>2
  <2>5. Types'
    BY <1>1, <1>3, <1>5, <2>1, <2>4 DEF Types
  <2>6. ASSUME NEW p \in Connection
        PROVE  /\ ItemsFor(p, events') = ItemsFor(p, events) \o ItemsFor(p, <<w>>)
               /\ ItemsFor(p, events) \in Seq(ItemOf)
    BY <1>2, <2>4, ItemsForConcat
  <2>7. \A p \in Connection : ItemsFor(p, <<w>>) = IF p = c THEN <<item>> ELSE <<>>
    BY <2>3, ItemsForSmall
  <2>8. ASSUME NEW p \in Connection PROVE PortInv(p)'
    <3>1. CASE p # c
      <4>1. ItemsFor(p, events') = ItemsFor(p, events)
        <5>1. PICK b \in Seq(ItemOf) : b = ItemsFor(p, events)
          BY <2>6
        <5>2. b \o <<>> = b
          OBVIOUS
        <5> QED BY <2>6, <2>7, <3>1, <5>1, <5>2
      <4>2. PortKept(p)
        BY <1>3, <1>5, <2>1, <3>1, <4>1 DEF PortKept
      <4> QED BY <1>1, <4>2, KeptStays
    <3>2. CASE p = c
      <4>1. Live(c)
        BY <1>1, <1>8 DEF PortInv
      <4>2. PICK a \in Seq(ItemOf), b \in Seq(ItemOf), g \in Seq(ItemOf), inbox \in Seq(ItemOf) :
              a = heard[c] /\ b = ItemsFor(c, events) /\ g = given[c] /\ inbox = transport[c].inbox
        BY <1>2, <2>6 DEF TransportRecord
      <4>3. Waiting(c)' = b \o <<item>>
        BY <2>6, <2>7, <4>2 DEF Waiting
      <4>4. PICK items \in Seq(ItemOf) : items = a \o b
        BY AppendSecond
      <4>5. a \o (b \o <<item>>) = items \o <<item>>
        BY <4>4
      <4>6. items \o inbox = g /\ \A i \in 1 .. Len(items) : items[i].kind = "message"
        BY <4>1, <4>2, <4>4 DEF Live, Waiting
      <4>7. EndsWith(items \o <<item>>, g)
        <5>1. Len(items) <= Len(g) /\ \A i \in 1 .. Len(items) : g[i] = items[i]
          BY <4>6
        <5>2. /\ Len(items \o <<item>>) = Len(items) + 1
              /\ (items \o <<item>>)[Len(items) + 1] = item
              /\ \A i \in 1 .. Len(items) : (items \o <<item>>)[i] = items[i]
          BY <2>2
        <5>3. items \o <<item>> # <<>>
          BY <5>2
        <5> QED BY <2>3, <4>6, <5>1, <5>2, <5>3 DEF EndsWith, Endings
      <4>8. heard'[c] \o Waiting(c)' = items \o <<item>> /\ given'[c] = g
        BY <1>3, <4>2, <4>3, <4>5
      <4>9. script[c].handler
        BY <4>1 DEF Live
      <4>10. Done(c)'
        BY <1>4, <1>5, <4>7, <4>8, <4>9 DEF Done, Terminal
      <4> QED BY <2>1, <3>2, <4>10 DEF PortInv, Terminal
    <3> QED BY <3>1, <3>2
  <2> QED BY <1>6, <2>5, <2>8 DEF DocumentsInv
<1>9. CASE UNCHANGED <<core, events>>
  <2>1. Types'
    BY <1>1, <1>3, <1>5, <1>9 DEF Types
  <2>2. ASSUME NEW p \in Connection PROVE PortInv(p)'
    <3>1. script[c] # NoScript
      BY <1>3 DEF NoScript
    <3>2. PortKept(p)
      BY <1>3, <1>4, <1>5, <1>9, <3>1 DEF PortKept
    <3> QED BY <1>1, <3>2, KeptStays
  <2> QED BY <1>6, <2>1, <2>2 DEF DocumentsInv
<1> QED BY <1>7, <1>8, <1>9 DEF Close

(***************************************************************************)
(* An event is handed out.                                                 *)
(***************************************************************************)

LEMMA OnEventIs ==
  ASSUME NEW port \in ScriptRecord, NEW item \in ItemOf
  PROVE  /\ OnEvent(port, item) \in ScriptRecord
         /\ item.kind = "message" => OnEvent(port, item) = port
         /\ item.kind = "writable" => /\ OnEvent(port, item).state = port.state
                                      /\ OnEvent(port, item).handler = port.handler
         /\ item.kind \in Endings => /\ OnEvent(port, item).state \in Terminal
                                     /\ ~OnEvent(port, item).handler
<1>1. CASE item.kind = "message"
  BY <1>1 DEF OnEvent, Endings
<1>2. CASE item.kind = "writable"
  <2> DEFINE kept == [port EXCEPT !.bufferedAmount = 0]
             settled == [port EXCEPT !.backpressured = FALSE, !.waiters = 0, !.bufferedAmount = 0]
  <2>1. kept \in ScriptRecord /\ kept.state = port.state /\ kept.handler = port.handler
    BY DEF ScriptRecord
  <2>2. settled \in ScriptRecord /\ settled.state = port.state /\ settled.handler = port.handler
    BY DEF ScriptRecord
  <2>3. OnEvent(port, item) \in {kept, settled}
    BY <1>2 DEF OnEvent
  <2> HIDE DEF kept, settled
  <2> QED BY <1>2, <2>1, <2>2, <2>3 DEF Endings
<1>3. CASE item.kind \in Endings
  <2>1. PICK state \in Terminal : state = IF item.kind = "error" THEN "failed" ELSE "closed"
    BY DEF Terminal
  <2> DEFINE over == [port EXCEPT !.state = state, !.backpressured = FALSE, !.waiters = 0,
                                  !.handler = FALSE]
  <2>2. over \in ScriptRecord /\ over.state \in Terminal /\ ~over.handler
    BY DEF ScriptRecord, PortStates
  <2>3. OnEvent(port, item) = over
    BY <1>3, <2>1 DEF OnEvent, Endings
  <2> HIDE DEF over
  <2> QED BY <1>3, <2>2, <2>3 DEF Endings
<1>4. item.kind = "message" \/ item.kind = "writable" \/ item.kind \in Endings
  BY DEF ItemOf
<1> QED BY <1>1, <1>2, <1>3, <1>4

LEMMA HandOutStep ==
  ASSUME DocumentsInv, HandOut
  PROVE  DocumentsInv'
<1>1. Types /\ Generations /\ GivenIsWellFormed /\ \A p \in Connection : PortInv(p)
  BY DEF DocumentsInv
<1>2. /\ core \in [Connection -> PortRecord] /\ script \in [Connection -> ScriptRecord]
      /\ heard \in [Connection -> Seq(ItemOf)] /\ given \in [Connection -> Seq(ItemOf)]
      /\ events \in Seq(QueueEntry) /\ events # <<>>
  BY <1>1 DEF Types, HandOut
<1>3. PICK w \in QueueEntry, rest \in Seq(QueueEntry) :
        w = Head(events) /\ rest = Tail(events) /\ events = <<w>> \o rest
  <2>1. /\ Head(events) \in QueueEntry /\ Tail(events) \in Seq(QueueEntry)
        /\ events = <<Head(events)>> \o Tail(events)
    BY <1>2
  <2> QED BY <2>1
<1>4. PICK c \in Connection, item \in ItemOf : w.port = c /\ w.item = item
  BY DEF QueueEntry
<1>5. /\ UNCHANGED <<document, generation, core, transport, given>>
      /\ script' = [script EXCEPT ![c] = IF @.handler THEN OnEvent(@, item) ELSE @]
      /\ heard' = [heard EXCEPT ![c] = IF Listens(script[c], item) THEN Append(@, item) ELSE @]
      /\ events' = rest
      /\ pc' \in {"idle", "dispatching"} /\ (pc' = "dispatching" => events' # <<>>)
  BY <1>3, <1>4 DEF HandOut, Remaining
<1>6. ASSUME NEW p \in Connection
      PROVE  /\ ItemsFor(p, events) = ItemsFor(p, <<w>>) \o ItemsFor(p, rest)
             /\ ItemsFor(p, rest) \in Seq(ItemOf)
             /\ ItemsFor(p, <<w>>) = IF c = p /\ item.kind # "writable" THEN <<item>> ELSE <<>>
  <2>1. <<w>> \in Seq(QueueEntry)
    OBVIOUS
  <2>2. ItemsFor(p, <<w>> \o rest) = ItemsFor(p, <<w>>) \o ItemsFor(p, rest)
    BY <2>1, ItemsForConcat
  <2>3. \A t \in Seq(QueueEntry) : ItemsFor(p, t) \in Seq(ItemOf)
    BY ItemsForConcat
  <2> QED BY <1>3, <1>4, <2>2, <2>3, ItemsForSmall
<1>7. PICK s \in ScriptRecord :
        s = (IF script[c].handler THEN OnEvent(script[c], item) ELSE script[c])
  BY <1>2, OnEventIs
<1>8. PICK h \in Seq(ItemOf) :
        h = (IF Listens(script[c], item) THEN Append(heard[c], item) ELSE heard[c])
  <2>1. heard[c] \in Seq(ItemOf)
    BY <1>2
  <2>2. Append(heard[c], item) \in Seq(ItemOf)
    BY <2>1, AppendSecond
  <2> QED BY <2>1, <2>2
<1>9. /\ script' = [script EXCEPT ![c] = s] /\ heard' = [heard EXCEPT ![c] = h]
      /\ script'[c] = s /\ heard'[c] = h
      /\ \A p \in Connection \ {c} : script'[p] = script[p] /\ heard'[p] = heard[p]
  BY <1>2, <1>5, <1>7, <1>8
<1>10. Types'
  BY <1>1, <1>2, <1>5, <1>9 DEF Types
<1>11. Generations' /\ GivenIsWellFormed'
  BY <1>1, <1>5 DEF Generations, GivenIsWellFormed
<1>12. ASSUME NEW p \in Connection, p # c \/ item.kind = "writable" PROVE PortInv(p)'
  <2>1. ItemsFor(p, events') = ItemsFor(p, events)
    <3>1. PICK b \in Seq(ItemOf) : b = ItemsFor(p, rest)
      BY <1>6
    <3>2. <<>> \o b = b
      OBVIOUS
    <3>3. ItemsFor(p, <<w>>) = <<>>
      BY <1>6, <1>12
    <3>4. ItemsFor(p, events) = ItemsFor(p, <<w>>) \o ItemsFor(p, rest)
      BY <1>6
    <3> QED BY <1>5, <3>1, <3>2, <3>3, <3>4
  <2>2. PortKept(p)
    <3>1. CASE p # c
      BY <1>5, <1>9, <2>1, <3>1 DEF PortKept
    <3>2. CASE p = c
      <4>1. item.kind = "writable" /\ heard'[c] = heard[c]
        BY <1>8, <1>9, <1>12, <3>2 DEF Listens
      <4>2. s.state = script[c].state /\ s.handler = script[c].handler
        BY <1>2, <1>7, <4>1, OnEventIs
      <4>3. script[c] = NoScript => s = NoScript
        BY <1>7 DEF NoScript
      <4> QED BY <1>5, <1>9, <2>1, <3>2, <4>1, <4>2, <4>3 DEF PortKept
    <3> QED BY <3>1, <3>2
  <2> QED BY <1>1, <2>2, KeptStays
<1>13. ASSUME item.kind # "writable" PROVE PortInv(c)'
  <2>1. PICK a \in Seq(ItemOf), b \in Seq(ItemOf) : a = heard[c] /\ b = ItemsFor(c, rest)
    BY <1>2, <1>6
  <2>2. Waiting(c) = <<item>> \o b /\ Waiting(c)' = b
    BY <1>5, <1>6, <1>13, <2>1 DEF Waiting
  <2>3. Waiting(c) # <<>>
    <3>1. Len(<<item>> \o b) = 1 + Len(b) /\ Len(<<>>) = 0 /\ Len(b) \in Nat
      OBVIOUS
    <3> QED BY <2>2, <3>1
  <2>4. core[c].state \in PortStates
    BY <1>2 DEF PortRecord
  <2>5. \/ core[c].state \in {"open", "closing"} /\ Live(c)
        \/ core[c].state \in Terminal /\ Done(c)
    BY <1>1, <2>3, <2>4 DEF PortInv, Unconnected, PortStates
  <2>6. script[c].state # "none" /\ script[c].state \notin Terminal /\ script[c].handler
    BY <2>3, <2>5 DEF Live, Done, Terminal
  <2>7. heard'[c] = Append(a, item) /\ s = OnEvent(script[c], item)
    BY <1>7, <1>8, <1>9, <1>13, <2>1, <2>6 DEF Listens
  <2>8. PICK items \in Seq(ItemOf) : items = a \o (<<item>> \o b)
    <3>1. <<item>> \o b \in Seq(ItemOf)
      OBVIOUS
    <3> QED BY <3>1, AppendSecond
  <2>9. heard'[c] \o Waiting(c)' = items /\ heard[c] \o Waiting(c) = items
    <3>1. Append(a, item) \o b = a \o (<<item>> \o b)
      OBVIOUS
    <3> QED BY <2>1, <2>2, <2>7, <2>8, <3>1
  <2>10. /\ Len(a) + 1 \in 1 .. Len(items) /\ items[Len(a) + 1] = item
         /\ Len(items) = Len(a) + 1 + Len(b)
    BY <2>8
  <2>a. script'[c] = s
    BY <1>9
  <2>b. core' = core /\ transport' = transport /\ given' = given
    BY <1>5
  <2>11. CASE core[c].state \in {"open", "closing"} /\ Live(c)
    <3>1. item.kind = "message"
      BY <2>9, <2>10, <2>11 DEF Live
    <3>2. s = script[c]
      BY <1>2, <2>7, <3>1, OnEventIs
    <3>3. Live(c)'
      BY <2>a, <2>b, <2>9, <2>11, <3>2 DEF Live
    <3> QED BY <2>b, <2>11, <3>3 DEF PortInv, Terminal
  <2>12. CASE core[c].state \in Terminal /\ Done(c)
    <3>1. EndsWith(items, given'[c])
      BY <1>5, <2>9, <2>12 DEF Done
    <3>2. CASE item.kind = "message"
      <4>1. s = script[c]
        BY <1>2, <2>7, <3>2, OnEventIs
      <4>2. Done(c)'
        BY <2>a, <2>6, <2>9, <3>1, <4>1 DEF Done
      <4> QED BY <2>b, <2>12, <4>2 DEF PortInv, Terminal
    <3>3. CASE item.kind \in Endings
      <4>1. s.state \in Terminal /\ ~s.handler
        BY <1>2, <2>7, <3>3, OnEventIs
      <4>2. Len(b) = 0
        <5>1. item.kind # "message"
          BY <3>3 DEF Endings
        <5>2. ~(Len(a) + 1 \in 1 .. Len(items) - 1)
          BY <2>10, <3>1, <5>1 DEF EndsWith
        <5>3. Len(a) \in Nat /\ Len(b) \in Nat
          OBVIOUS
        <5> QED BY <2>10, <5>2, <5>3
      <4>3. b = <<>>
        BY <4>2
      <4>4. Done(c)'
        BY <2>a, <2>2, <2>9, <3>1, <4>1, <4>3 DEF Done, Terminal
      <4> QED BY <2>b, <2>12, <4>4 DEF PortInv, Terminal
    <3> QED BY <1>13, <3>2, <3>3 DEF ItemOf
  <2> QED BY <2>5, <2>11, <2>12
<1>14. \A p \in Connection : PortInv(p)'
  BY <1>12, <1>13
<1> QED BY <1>10, <1>11, <1>14 DEF DocumentsInv

(***************************************************************************)
(* A tick of the dispatch timer.                                           *)
(***************************************************************************)

\* What a poll of c queues: nothing for another port, and for c what had arrived.
LEMMA PollIs ==
  ASSUME DocumentsInv, NEW c \in Connection
  PROVE  /\ Poll(c) \in Seq(QueueEntry)
         /\ \A p \in Connection \ {c} : ItemsFor(p, Poll(c)) = <<>>
         /\ core[c].state \in {"open", "closing"} => ItemsFor(c, Poll(c)) = transport[c].inbox
         /\ core[c].state \notin {"open", "closing"} => ItemsFor(c, Poll(c)) = <<>>
<1>1. transport[c].inbox \in Seq(ItemOf) /\ heard[c] \in Seq(ItemOf) /\ Waiting(c) \in Seq(ItemOf)
  <2>1. events \in Seq(QueueEntry)
    BY DEF DocumentsInv, Types
  <2>2. Waiting(c) \in Seq(ItemOf)
    BY <2>1, ItemsForConcat DEF Waiting
  <2> QED BY <2>2 DEF DocumentsInv, Types, TransportRecord
<1>2. CASE core[c].state \notin {"open", "closing"}
  <2>1. Poll(c) = <<>> /\ <<>> \in Seq(QueueEntry)
    BY <1>2 DEF Poll
  <2> QED BY <1>2, <2>1, ItemsForSmall
<1>3. CASE core[c].state \in {"open", "closing"}
  <2>1. PICK inbox \in Seq(ItemOf), N \in Nat :
          inbox = transport[c].inbox /\ N = Len(inbox) /\ DOMAIN inbox = 1 .. N
    <3>1. \A b \in Seq(ItemOf) : Len(b) \in Nat /\ DOMAIN b = 1 .. Len(b)
      OBVIOUS
    <3> QED BY <1>1, <3>1, Zenon
  <2>2. \A i \in 1 .. N : inbox[i].kind # "writable"
    <3>1. PICK items \in Seq(ItemOf) : items = heard[c] \o Waiting(c)
      <4>1. \A a, b \in Seq(ItemOf) : a \o b \in Seq(ItemOf)
        OBVIOUS
      <4> QED BY <1>1, <4>1, Zenon
    <3>2. items \o inbox = given[c]
      BY <1>3, <2>1, <3>1 DEF DocumentsInv, PortInv, Live
    <3>3. /\ Len(items \o inbox) = Len(items) + N /\ Len(items) \in Nat
          /\ \A i \in 1 .. N : (items \o inbox)[Len(items) + i] = inbox[i]
      BY <2>1
    <3>4. \A i \in 1 .. Len(given[c]) : given[c][i].kind \in {"message"} \cup Endings
      BY DEF DocumentsInv, GivenIsWellFormed
    <3>5. ASSUME NEW i \in 1 .. N PROVE inbox[i].kind \in {"message"} \cup Endings
      <4>1. Len(items) + i \in 1 .. Len(given[c])
        BY <3>2, <3>3
      <4> QED BY <3>2, <3>3, <3>4, <4>1
    <3> QED BY <3>5 DEF Endings
  <2>3. PICK head : head = [i \in 1 .. N |-> Queued(c, inbox[i])]
    OBVIOUS
  <2>4. /\ head \in Seq(QueueEntry) /\ Len(head) = N
        /\ \A i \in 1 .. N : head[i].port = c
    <3>1. \A i \in 1 .. N : Queued(c, inbox[i]) \in QueueEntry
      BY <2>1 DEF Queued, QueueEntry
    <3>2. head \in [1 .. N -> QueueEntry]
      BY <2>3, <3>1
    <3> QED BY <2>3, <3>2 DEF Queued
  <2>5. PICK edge \in Seq(QueueEntry) :
          /\ edge = ForwardedEdge(c)
          /\ \A i \in DOMAIN edge : edge[i].port = c /\ edge[i].item.kind = "writable"
    <3>1. PICK item \in ItemOf : item = [kind |-> "writable", id |-> 0]
      <4>1. [kind |-> "writable", id |-> 0] \in ItemOf
        BY DEF ItemOf
      <4> QED BY <4>1
    <3>2. PICK w \in QueueEntry : w = Queued(c, item) /\ w.port = c /\ w.item = item
      <4>1. Queued(c, item) \in QueueEntry
        BY DEF Queued, QueueEntry
      <4> QED BY <4>1 DEF Queued
    <3>3. ForwardedEdge(c) \in {<<w>>, <<>>}
      BY <3>1, <3>2 DEF ForwardedEdge
    <3>4. /\ <<w>> \in Seq(QueueEntry) /\ <<>> \in Seq(QueueEntry)
          /\ DOMAIN <<w>> = 1 .. 1 /\ DOMAIN <<>> = 1 .. 0 /\ <<w>>[1] = w
      OBVIOUS
    <3>5. w.item.kind = "writable"
      BY <3>1, <3>2
    <3>6. \A i \in DOMAIN <<w>> : <<w>>[i].port = c /\ <<w>>[i].item.kind = "writable"
      BY <3>2, <3>4, <3>5
    <3>7. CASE ForwardedEdge(c) = <<w>>
      BY <3>4, <3>6, <3>7
    <3>8. CASE ForwardedEdge(c) = <<>>
      <4>1. \A i \in DOMAIN <<>> : FALSE
        BY <3>4
      <4>2. <<>> \in Seq(QueueEntry)
        BY <3>4
      <4> QED BY <3>8, <4>1, <4>2, Zenon
    <3> QED BY <3>3, <3>7, <3>8
  <2>6. Poll(c) = head \o edge
    BY <1>3, <2>1, <2>3, <2>5 DEF Poll
  <2>7. Poll(c) \in Seq(QueueEntry)
    BY <2>4, <2>6
  <2>8. \A p \in Connection : ItemsFor(p, Poll(c)) = ItemsFor(p, head) \o ItemsFor(p, edge)
    BY <2>4, <2>6, ItemsForConcat
  <2>9. \A p \in Connection : ItemsFor(p, edge) = <<>>
    BY <2>5, ItemsForNone
  <2>10. ASSUME NEW p \in Connection \ {c} PROVE ItemsFor(p, head) = <<>>
    <3>1. \A i \in DOMAIN head : head[i].port # p
      BY <2>4
    <3> QED BY <2>4, <3>1, ItemsForNone
  <2>11. ItemsFor(c, head) = inbox
    BY <2>1, <2>2, <2>3, ItemsForAll
  <2>12. inbox \o <<>> = inbox /\ <<>> \o <<>> = <<>>
    OBVIOUS
  <2> QED BY <1>3, <2>1, <2>7, <2>8, <2>9, <2>10, <2>11, <2>12
<1> QED BY <1>2, <1>3

\* A sequence of all connections, each once, has every one of them.
LEMMA EveryConnection ==
  ASSUME NEW order \in SetToSeqs(Connection)
  PROVE  /\ order \in [1 .. LastPort -> Connection]
         /\ \A i, j \in 1 .. LastPort : i # j => order[i] # order[j]
         /\ \A p \in Connection : \E k \in 1 .. LastPort : order[k] = p
<1>1. IsFiniteSet(Connection) /\ Cardinality(Connection) = LastPort /\ LastPort \in Nat
  BY DocumentsAssumption, FS_Interval DEF Connection
<1>2. /\ order \in [1 .. LastPort -> Connection]
      /\ \A i, j \in 1 .. LastPort : i # j => order[i] # order[j]
  BY <1>1 DEF SetToSeqs
<1>3. order \in Injection(Connection, Connection)
  BY <1>2 DEF Injection, IsInjective, Connection
<1>4. order \in Surjection(Connection, Connection)
  BY <1>1, <1>3, FS_Injection
<1> QED BY <1>2, <1>4 DEF Surjection, Connection

\* After a tick the queue holds for each port what it held and what its poll queued.
LEMMA DispatchEvents ==
  ASSUME DocumentsInv, DispatchReadable
  PROVE  /\ events' \in Seq(QueueEntry)
         /\ \A p \in Connection : ItemsFor(p, events') = Waiting(p) \o ItemsFor(p, Poll(p))
<1> DEFINE S == Seq(QueueEntry)
<1>1. \A c \in Connection : Poll(c) \in S
  BY PollIs
<1>2. events \in S
  BY DEF DocumentsInv, Types
<1>3. PICK N \in Nat : N = LastPort
  BY DocumentsAssumption
<1>4. PICK order \in SetToSeqs(Connection) :
        events' = LET Upto[n \in 0 .. N] ==
                        IF n = 0 THEN events ELSE Upto[n - 1] \o Poll(order[n])
                  IN  Upto[N]
  BY <1>3, Zenon DEF DispatchReadable
<1>5. /\ \A n \in 1 .. N : order[n] \in Connection
      /\ \A i, j \in 1 .. N : i # j => order[i] # order[j]
      /\ \A p \in Connection : \E k \in 1 .. N : order[k] = p
  BY <1>3, EveryConnection
<1> DEFINE Upto(f) == f = [n \in 0 .. N |-> IF n = 0 THEN events ELSE f[n - 1] \o Poll(order[n])]
           Run(n, f) == f[0] = events /\ \A k \in 1 .. n : f[k] = f[k - 1] \o Poll(order[k])
           P == {n \in Nat : n <= N => \E f \in [0 .. n -> S] : Run(n, f)}
<1>6. events' = (CHOOSE f : Upto(f))[N]
  BY <1>4
<1>7. 0 \in P
  <2> DEFINE f == [k \in 0 .. 0 |-> events]
  <2> HIDE DEF S
  <2>1. f \in [0 .. 0 -> S] /\ Run(0, f)
    BY <1>2
  <2> QED BY <2>1
<1>8. ASSUME NEW n \in P PROVE n + 1 \in P
  <2>0. n \in Nat /\ n + 1 \in Nat /\ (n <= N => \E f \in [0 .. n -> S] : Run(n, f))
    <3> HIDE DEF S, Run
    <3> QED OBVIOUS
  <2> SUFFICES ASSUME n + 1 <= N PROVE \E f \in [0 .. n + 1 -> S] : Run(n + 1, f)
    <3> HIDE DEF S, Run
    <3> QED BY <2>0
  <2>1. PICK e \in [0 .. n -> S] : Run(n, e)
    <3> HIDE DEF S, Run, P
    <3>1. n <= N
      BY <2>0
    <3> QED BY <2>0, <3>1
  <2>2. PICK y \in S : y = e[n] \o Poll(order[n + 1])
    <3>1. \A a, b \in S : a \o b \in S
      OBVIOUS
    <3>2. e[n] \in S /\ Poll(order[n + 1]) \in S
      <4>1. n + 1 \in 1 .. N
        OBVIOUS
      <4> HIDE DEF S
      <4> QED BY <1>1, <1>5, <4>1
    <3> HIDE DEF S
    <3> QED BY <3>1, <3>2
  <2> HIDE DEF S
  <2> DEFINE f == [k \in 0 .. n + 1 |-> IF k <= n THEN e[k] ELSE y]
  <2>3. f \in [0 .. n + 1 -> S]
    OBVIOUS
  <2>4. f[0] = events
    BY <2>1
  <2>5. ASSUME NEW k \in 1 .. n + 1 PROVE f[k] = f[k - 1] \o Poll(order[k])
    <3>1. CASE k \in 1 .. n
      <4>1. f[k] = e[k] /\ f[k - 1] = e[k - 1]
        BY <3>1
      <4> HIDE DEF f
      <4> QED BY <2>1, <3>1, <4>1
    <3>2. CASE k = n + 1
      <4>1. f[k] = y /\ f[k - 1] = e[n]
        BY <3>2
      <4> HIDE DEF f
      <4> QED BY <2>2, <3>2, <4>1
    <3> QED BY <3>1, <3>2
  <2> HIDE DEF f
  <2> QED BY <2>3, <2>4, <2>5
<1>9. PICK c : /\ c[0] = events /\ events' = c[N]
               /\ \A n \in 1 .. N : c[n] = c[n - 1] \o Poll(order[n])
  <2> HIDE DEF S
  <2>1. P = Nat
    <3>1. P \in SUBSET Nat
      OBVIOUS
    <3> HIDE DEF P
    <3> QED BY <1>7, <1>8, <3>1, SetInduction
  <2>2. PICK e \in [0 .. N -> S] : Run(N, e)
    <3>1. N \in P
      BY <2>1
    <3> HIDE DEF Run
    <3> QED BY <3>1
  <2>3. Upto(e)
    <3>1. ASSUME NEW n \in 0 .. N
          PROVE  e[n] = IF n = 0 THEN events ELSE e[n - 1] \o Poll(order[n])
      <4>1. n = 0 \/ n \in 1 .. N
        OBVIOUS
      <4> QED BY <2>2, <4>1
    <3> QED BY <3>1
  <2> HIDE DEF P, Run
  <2>4. PICK c : Upto(c) /\ events' = c[N]
    <3> HIDE DEF Upto
    <3> QED BY <1>6, <2>3
  <2>5. 0 \in 0 .. N /\ \A n \in 1 .. N : n \in 0 .. N /\ n # 0
    OBVIOUS
  <2>6. c[0] = events
    BY <2>4, <2>5
  <2>7. \A n \in 1 .. N : c[n] = c[n - 1] \o Poll(order[n])
    BY <2>4, <2>5
  <2> QED BY <2>4, <2>6, <2>7
<1> HIDE DEF Upto, Run, P
<1>10. ASSUME NEW p \in Connection
       PROVE  /\ c[N] \in S
              /\ ItemsFor(p, c[N]) = Waiting(p) \o ItemsFor(p, Poll(p))
  <2>1. PICK w \in Seq(ItemOf), q \in Seq(ItemOf) : w = Waiting(p) /\ q = ItemsFor(p, Poll(p))
    <3>1. \A s \in S : ItemsFor(p, s) \in Seq(ItemOf)
      BY ItemsForConcat
    <3> HIDE DEF S
    <3> QED BY <1>1, <1>2, <3>1 DEF Waiting
  <2>2. \A a \in Seq(ItemOf) : a \o <<>> = a
    OBVIOUS
  <2> DEFINE Had(n) == \E k \in 1 .. n : order[k] = p
             T == {n \in Nat : n <= N => /\ c[n] \in S
                                         /\ ItemsFor(p, c[n]) = IF Had(n) THEN w \o q ELSE w}
  <2> HIDE DEF Had
  <2>3. 0 \in T
    <3>1. ~Had(0)
      BY DEF Had
    <3> HIDE DEF S
    <3> QED BY <1>2, <1>9, <2>1, <3>1 DEF Waiting
  <2>4. ASSUME NEW n \in T PROVE n + 1 \in T
    <3> SUFFICES ASSUME n + 1 <= N
                 PROVE  /\ c[n + 1] \in S
                        /\ ItemsFor(p, c[n + 1]) = IF Had(n + 1) THEN w \o q ELSE w
      OBVIOUS
    <3>1. /\ n + 1 \in 1 .. N /\ (n + 1) - 1 = n /\ n \in Nat
          /\ c[n] \in S /\ ItemsFor(p, c[n]) = IF Had(n) THEN w \o q ELSE w
      OBVIOUS
    <3> HIDE DEF T
    <3>2. PICK r \in Connection : r = order[n + 1]
      BY <1>5, <3>1
    <3>3. c[n + 1] = c[n] \o Poll(r) /\ Poll(r) \in S
      BY <1>1, <1>9, <3>1, <3>2
    <3>4. c[n + 1] \in S
      <4>1. \A a, b \in S : a \o b \in S
        OBVIOUS
      <4> HIDE DEF S
      <4> QED BY <3>1, <3>3, <4>1
    <3>5. ItemsFor(p, c[n + 1]) = ItemsFor(p, c[n]) \o ItemsFor(p, Poll(r))
      <4>1. \A s, t \in S : ItemsFor(p, s \o t) = ItemsFor(p, s) \o ItemsFor(p, t)
        BY ItemsForConcat
      <4> HIDE DEF S
      <4> QED BY <3>1, <3>3, <4>1
    <3>6. CASE r = p
      <4>1. Had(n + 1)
        <5>1. n + 1 \in 1 .. n + 1
          BY <3>1
        <5> QED BY <3>2, <3>6, <5>1 DEF Had
      <4>2. ~Had(n)
        <5>1. \A k \in 1 .. n : k \in 1 .. N /\ k # n + 1
          BY <3>1
        <5> QED BY <1>5, <3>1, <3>2, <3>6, <5>1 DEF Had
      <4> QED BY <2>1, <3>1, <3>4, <3>5, <3>6, <4>1, <4>2
    <3>7. CASE r # p
      <4>1. ItemsFor(p, Poll(r)) = <<>>
        BY <3>7, PollIs
      <4>2. Had(n + 1) <=> Had(n)
        <5>1. \A k \in 1 .. n + 1 : k \in 1 .. n \/ k = n + 1
          BY <3>1
        <5>2. \A k \in 1 .. n : k \in 1 .. n + 1
          BY <3>1
        <5> QED BY <3>2, <3>7, <5>1, <5>2 DEF Had
      <4>3. PICK a \in Seq(ItemOf) : a = ItemsFor(p, c[n])
        BY <3>1, ItemsForConcat
      <4> QED BY <2>2, <3>1, <3>4, <3>5, <4>1, <4>2, <4>3
    <3> QED BY <3>6, <3>7
  <2>5. T = Nat
    <3>1. T \in SUBSET Nat
      OBVIOUS
    <3> HIDE DEF T
    <3> QED BY <2>3, <2>4, <3>1, SetInduction
  <2>6. Had(N)
    BY <1>5 DEF Had
  <2>7. N \in T
    BY <2>5
  <2> QED BY <2>1, <2>6, <2>7
<1>11. 1 \in Connection
  BY DocumentsAssumption DEF Connection
<1> QED BY <1>9, <1>10, <1>11

\* What a poll leaves of a port.
LEMMA PolledIs ==
  ASSUME DocumentsInv, NEW p \in Connection
  PROVE  /\ PolledPort(p) \in PortRecord /\ PolledTransport(p) \in TransportRecord
         /\ core[p].state \in {"open", "closing"} =>
              /\ PolledTransport(p).inbox = <<>>
              /\ Ended(p) => PolledPort(p).state \in Terminal
              /\ ~Ended(p) => PolledPort(p).state = core[p].state
         /\ core[p].state \notin {"open", "closing"} =>
              PolledTransport(p) = transport[p] /\ PolledPort(p).state = core[p].state
<1>1. core[p] \in PortRecord /\ transport[p] \in TransportRecord
  BY DEF DocumentsInv, Types
<1>2. PICK flow \in BOOLEAN : flow = IF Ended(p) THEN transport[p].flow
                                     ELSE Flow(transport[p].flow, transport[p].used)
  <2>1. transport[p].flow \in BOOLEAN /\ transport[p].used \in Nat
    BY <1>1, GeometryAssumption DEF TransportRecord
  <2>2. Flow(transport[p].flow, transport[p].used) \in BOOLEAN
    BY <2>1, FlowIsBoolean
  <2> QED BY <2>1, <2>2, Zenon
<1>3. PICK none \in Seq(ItemOf) : none = <<>>
  <2>1. <<>> \in Seq(ItemOf)
    OBVIOUS
  <2> QED BY <2>1, Zenon
<1> DEFINE t == [transport[p] EXCEPT !.inbox = none, !.flow = flow]
<1>4. t \in TransportRecord /\ t.inbox = none
  BY <1>1 DEF TransportRecord
<1>5. PolledTransport(p) = IF core[p].state \in {"open", "closing"} THEN t ELSE transport[p]
  BY <1>2, <1>3 DEF PolledTransport
<1> HIDE DEF t
<1>6. PICK bp \in BOOLEAN : bp = (core[p].backpressured /\ (Ended(p) \/ ~Edge(p)))
  OBVIOUS
<1>7. PICK state \in PortStates :
        state = IF Ended(p) /\ core[p].state \in {"open", "closing"}
                THEN IF Last(given[p]).kind = "error" THEN "failed" ELSE "closed"
                ELSE core[p].state
  BY <1>1 DEF PortRecord, PortStates, Terminal
<1>8. PolledPort(p) = [state |-> state, backpressured |-> bp]
  BY <1>6, <1>7 DEF PolledPort
<1>9. PolledPort(p) \in PortRecord /\ PolledPort(p).state = state
  BY <1>8 DEF PortRecord
<1>10. PolledTransport(p) \in TransportRecord
  BY <1>1, <1>4, <1>5
<1>11. CASE core[p].state \in {"open", "closing"}
  <2>1. Ended(p) => state \in Terminal
    BY <1>7, <1>11 DEF Terminal
  <2>2. ~Ended(p) => state = core[p].state
    BY <1>7
  <2> QED BY <1>3, <1>4, <1>5, <1>9, <1>10, <1>11, <2>1, <2>2
<1>12. CASE core[p].state \notin {"open", "closing"}
  BY <1>5, <1>7, <1>9, <1>10, <1>12
<1> QED BY <1>11, <1>12

LEMMA TickStep ==
  ASSUME DocumentsInv, Tick
  PROVE  DocumentsInv'
<1>1. Types /\ Generations /\ GivenIsWellFormed /\ \A p \in Connection : PortInv(p)
  BY DEF DocumentsInv
<1>2. /\ UNCHANGED <<document, generation, script, given, heard>>
      /\ core' = [p \in Connection |-> PolledPort(p)]
      /\ transport' = [p \in Connection |-> PolledTransport(p)]
      /\ pc' \in {"idle", "dispatching"} /\ (pc' = "dispatching" => events' # <<>>)
      /\ DispatchReadable
  BY DEF Tick, DispatchReadable
<1>3. /\ events' \in Seq(QueueEntry)
      /\ \A p \in Connection : ItemsFor(p, events') = Waiting(p) \o ItemsFor(p, Poll(p))
  BY <1>2, DispatchEvents
<1>4. /\ core' \in [Connection -> PortRecord] /\ transport' \in [Connection -> TransportRecord]
      /\ \A p \in Connection : core'[p] = PolledPort(p) /\ transport'[p] = PolledTransport(p)
  BY <1>2, PolledIs
<1>5. Types'
  BY <1>1, <1>2, <1>3, <1>4 DEF Types
<1>6. Generations' /\ GivenIsWellFormed'
  BY <1>1, <1>2 DEF Generations, GivenIsWellFormed
<1>7. script' = script /\ given' = given /\ heard' = heard
  BY <1>2
<1>8. ASSUME NEW p \in Connection PROVE PortInv(p)'
  <2>1. PICK a \in Seq(ItemOf), w \in Seq(ItemOf), inbox \in Seq(ItemOf), g \in Seq(ItemOf) :
          a = heard[p] /\ w = Waiting(p) /\ inbox = transport[p].inbox /\ g = given[p]
    <3>1. events \in Seq(QueueEntry)
      BY <1>1 DEF Types
    <3>2. Waiting(p) \in Seq(ItemOf)
      BY <3>1, ItemsForConcat DEF Waiting
    <3> QED BY <1>1, <3>2 DEF Types, TransportRecord
  <2>2. CASE core[p].state \notin {"open", "closing"}
    <3>1. ItemsFor(p, events') = w \o <<>> /\ w \o <<>> = w
      <4>1. ItemsFor(p, Poll(p)) = <<>>
        BY <2>2, PollIs
      <4>2. w \o <<>> = w
        OBVIOUS
      <4>3. ItemsFor(p, events') = Waiting(p) \o ItemsFor(p, Poll(p))
        BY <1>3
      <4> QED BY <2>1, <4>1, <4>2, <4>3, Zenon
    <3>2. core'[p].state = core[p].state /\ transport'[p] = transport[p]
      BY <1>4, <2>2, PolledIs
    <3>3. PortKept(p)
      BY <1>7, <2>1, <3>1, <3>2 DEF PortKept, Waiting
    <3> QED BY <1>1, <3>3, KeptStays
  <2>3. CASE core[p].state \in {"open", "closing"}
    <3>1. Live(p)
      BY <1>1, <2>3 DEF PortInv
    <3>2. Waiting(p)' = w \o inbox
      BY <1>3, <2>1, <2>3, PollIs DEF Waiting
    <3>3. heard'[p] \o Waiting(p)' = g
      <4>1. a \o (w \o inbox) = (a \o w) \o inbox
        OBVIOUS
      <4> QED BY <1>7, <2>1, <3>1, <3>2, <4>1 DEF Live
    <3>4. \A i \in 1 .. Len(g) :
            /\ g[i].kind \in {"message"} \cup Endings
            /\ i < Len(g) => g[i].kind = "message"
      BY <1>1, <2>1 DEF GivenIsWellFormed
    <3>5. CASE ~Ended(p)
      <4>1. core'[p].state = core[p].state /\ transport'[p].inbox = <<>>
        BY <1>4, <2>3, <3>5, PolledIs
      <4>2. \A i \in 1 .. Len(g) : g[i].kind = "message"
        <5>1. \A i \in 1 .. Len(g) : g[i].kind \notin Endings
          BY <2>1, <3>5 DEF Ended, ToSet
        <5> QED BY <3>4, <5>1
      <4>3. g \o <<>> = g
        OBVIOUS
      <4>4. Live(p)'
        BY <1>7, <2>1, <3>1, <3>3, <4>1, <4>2, <4>3 DEF Live
      <4> QED BY <2>3, <4>1, <4>4 DEF PortInv, Terminal
    <3>6. CASE Ended(p)
      <4>1. core'[p].state \in Terminal
        BY <1>4, <2>3, <3>6, PolledIs
      <4>2. PICK k \in 1 .. Len(g) : g[k].kind \in Endings
        BY <2>1, <3>6 DEF Ended, ToSet
      <4>3. k = Len(g) /\ g # <<>>
        <5>1. g[k].kind # "message"
          BY <4>2 DEF Endings
        <5>2. ~(k < Len(g))
          BY <3>4, <5>1
        <5>3. g = <<>> => Len(g) = 0
          OBVIOUS
        <5> QED BY <4>2, <5>2, <5>3
      <4>4. EndsWith(g, g)
        <5>1. Len(g) - 1 <= Len(g)
          OBVIOUS
        <5>2. \A i \in 1 .. Len(g) - 1 : g[i].kind = "message"
          BY <3>4
        <5> QED BY <4>2, <4>3, <5>1, <5>2 DEF EndsWith
      <4>5. Done(p)'
        BY <1>7, <2>1, <3>1, <3>3, <4>4 DEF Done, Live, Terminal
      <4> QED BY <4>1, <4>5 DEF PortInv, Terminal
    <3> QED BY <3>5, <3>6
  <2> QED BY <2>2, <2>3
<1> QED BY <1>5, <1>6, <1>8 DEF DocumentsInv

-----------------------------------------------------------------------------
\* The invariant of a web content process, for any number of documents,
\* connections and messages.
THEOREM DocumentsInvariance == Spec => []DocumentsInv
<1>1. Init => DocumentsInv
  BY InitInv
<1>2. DocumentsInv /\ [Next]_vars => DocumentsInv'
  <2> SUFFICES ASSUME DocumentsInv, [Next]_vars PROVE DocumentsInv'
    OBVIOUS
  <2>1. CASE Shim
    BY <2>1, ShimStep
  <2>2. CASE Tick
    BY <2>2, TickStep
  <2>3. CASE HandOut
    BY <2>3, HandOutStep
  <2>4. ASSUME NEW p \in Connection, Script(p) PROVE DocumentsInv'
    BY <2>4, ConnectStep, CloseStep, RingStep DEF Script
  <2>5. ASSUME NEW p \in Connection, Peer(p) PROVE DocumentsInv'
    <3>1. CASE PeerTakes(p)
      BY <3>1, RingStep
    <3>2. CASE PeerSends(p)
      <4>1. PICK item \in ItemOf : item = [kind |-> "message", id |-> Len(given[p]) + 1]
        <5>1. given[p] \in Seq(ItemOf)
          BY DEF DocumentsInv, Types
        <5>2. Len(given[p]) + 1 \in Nat
          BY <5>1
        <5> QED BY <5>2 DEF ItemOf
      <4> QED BY <3>2, <4>1, ArriveStep DEF PeerSends
    <3>3. CASE PeerEnds(p)
      <4>1. PICK kind \in Endings : Arrive(p, [kind |-> kind, id |-> 0])
        BY <3>3 DEF PeerEnds
      <4>2. PICK item \in ItemOf : item = [kind |-> kind, id |-> 0]
        BY DEF ItemOf
      <4> QED BY <4>1, <4>2, ArriveStep
    <3> QED BY <2>5, <3>1, <3>2, <3>3 DEF Peer
  <2>6. CASE UNCHANGED vars
    <3>1. UNCHANGED <<core, events, transport, script, given, heard, pc, document, generation>>
      BY <2>6 DEF vars
    <3>2. Types' /\ Generations' /\ GivenIsWellFormed'
      BY <3>1 DEF DocumentsInv, Types, Generations, GivenIsWellFormed
    <3>3. ASSUME NEW p \in Connection PROVE PortInv(p)'
      <4>1. PortKept(p)
        BY <3>1 DEF PortKept
      <4> QED BY <4>1, KeptStays DEF DocumentsInv
    <3> QED BY <3>2, <3>3 DEF DocumentsInv
  <2> QED BY <2>1, <2>2, <2>3, <2>4, <2>5, <2>6 DEF Next
<1> QED BY <1>1, <1>2, PTL DEF Spec

LEMMA InvGivesHeardInOrder == DocumentsInv => HeardInOrder
<1> SUFFICES ASSUME DocumentsInv, NEW p \in Connection
             PROVE  LET items == heard[p] \o Waiting(p)
                    IN  IF core[p].state \in Terminal
                        THEN /\ items # <<>> /\ Last(items).kind \in Endings
                             /\ IsPrefix(Front(items), given[p])
                             /\ \A i \in 1 .. Len(items) - 1 : items[i].kind = "message"
                        ELSE items \o transport[p].inbox = given[p]
  BY DEF HeardInOrder
<1>1. PICK items \in Seq(ItemOf), g \in Seq(ItemOf) :
        items = heard[p] \o Waiting(p) /\ g = given[p]
  <2>1. Waiting(p) \in Seq(ItemOf)
    BY ItemsForConcat DEF Waiting, DocumentsInv, Types
  <2>2. heard[p] \in Seq(ItemOf) /\ given[p] \in Seq(ItemOf)
    BY DEF DocumentsInv, Types
  <2>3. \A a, b \in Seq(ItemOf) : a \o b \in Seq(ItemOf)
    OBVIOUS
  <2> QED BY <2>1, <2>2, <2>3, Zenon
<1>2. CASE core[p].state \in Terminal
  <2>1. EndsWith(items, g)
    BY <1>1, <1>2 DEF DocumentsInv, PortInv, Done
  <2>2. IsPrefix(Front(items), g)
    <3>1. PICK n \in Nat : n = Len(items) - 1 /\ n <= Len(g) /\ \A i \in 1 .. n : items[i] = g[i]
      <4>1. Len(items) - 1 \in Nat
        BY <2>1 DEF EndsWith
      <4> QED BY <2>1, <4>1 DEF EndsWith
    <3>2. Front(items) = [i \in 1 .. n |-> items[i]] /\ Len(Front(items)) = n
      <4>1. Front(items) = SubSeq(items, 1, n)
        BY <3>1 DEF Front
      <4>2. \A s \in Seq(ItemOf), k \in Nat :
              k <= Len(s) => /\ SubSeq(s, 1, k) = [i \in 1 .. k |-> s[i]]
                             /\ Len(SubSeq(s, 1, k)) = k
        OBVIOUS
      <4>3. n <= Len(items)
        BY <3>1
      <4> QED BY <4>1, <4>2, <4>3
    <3>3. SubSeq(Front(items), 1, n) = [i \in 1 .. n |-> items[i]]
      BY <3>1, <3>2
    <3>4. SubSeq(g, 1, n) = [i \in 1 .. n |-> items[i]]
      BY <3>1
    <3> QED BY <3>1, <3>2, <3>3, <3>4 DEF IsPrefix
  <2> QED BY <1>1, <1>2, <2>1, <2>2 DEF EndsWith, Last
<1>3. CASE core[p].state \notin Terminal
  <2>1. core[p].state \in {"none", "open", "closing"}
    BY <1>3 DEF DocumentsInv, Types, PortRecord, PortStates
  <2>2. CASE core[p].state = "none"
    <3>1. Unconnected(p)
      BY <2>2 DEF DocumentsInv, PortInv
    <3>2. <<>> \o <<>> = <<>>
      OBVIOUS
    <3> QED BY <1>3, <3>1, <3>2 DEF Unconnected
  <2>3. CASE core[p].state \in {"open", "closing"}
    BY <1>3, <2>3 DEF DocumentsInv, PortInv, Live
  <2> QED BY <2>1, <2>2, <2>3
<1> QED BY <1>2, <1>3

\* Whatever the script calls from its handlers, and whichever of them throw: a
\* live connection is heard once and in order, and one that is over is heard as a
\* prefix of what was sent and then its one ending (RendererCore::poll_port,
\* JscBinding::dispatch, NativeMessagePort).
THEOREM DocumentsHeardInOrder == Spec => []HeardInOrder
BY DocumentsInvariance, InvGivesHeardInOrder, PTL
=============================================================================
