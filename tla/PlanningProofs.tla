---------------------------- MODULE PlanningProofs ----------------------------
(***************************************************************************)
(* For any answers of a model and any number of amendments: the check      *)
(* finds every cycle, the order is a topological one, the graph is sound,  *)
(* and the scheduler's operators are the loops they stand for.             *)
(***************************************************************************)
EXTENDS Planning, SequenceTheorems, FiniteSetTheorems, TLAPS

-----------------------------------------------------------------------------
(* Induction and iteration over numbers, with a set in place of a predicate *)
(* and a table in place of a step.                                         *)

LEMMA SmallestNumber ==
    ASSUME NEW S, S \subseteq Nat, S # {}
    PROVE  \E i \in S : \A j \in S : i <= j
<1> DEFINE R == OpToRel(<, Nat)
<1>1. IsWellFoundedOn(R, Nat)
  BY NatLessThanWellFounded
<1>2. \A i, j \in Nat : <<j, i>> \notin R => i <= j
  BY DEF OpToRel
<1> HIDE DEF R
<1>3. \E i \in S : \A j \in S : ~(<<j, i>> \in R)
  BY <1>1, WFMin
<1> QED
  BY <1>2, <1>3

LEMMA UpTo ==
    ASSUME NEW N \in Nat, NEW Q, 0 \in Q, \A n \in 1 .. N : n - 1 \in Q => n \in Q
    PROVE  \A n \in 0 .. N : n \in Q
<1> DEFINE bad == (0 .. N) \ Q
<1>1. SUFFICES ASSUME bad # {} PROVE FALSE
  OBVIOUS
<1>2. PICK n \in bad : \A m \in bad : n <= m
  <2>1. bad \subseteq Nat
    OBVIOUS
  <2> HIDE DEF bad
  <2> QED
    BY <1>1, <2>1, SmallestNumber
<1>3. n \in 1 .. N /\ n - 1 \in 0 .. N
  BY <1>2
<1>4. n - 1 \in Q
  BY <1>2, <1>3
<1> QED
  BY <1>2, <1>3, <1>4

(* A step that stays in a set can be taken any number of times.             *)
Iterates(f, N, S, c, D) ==
    /\ f \in [0 .. N -> S] /\ f[0] = c
    /\ \A n \in 1 .. N : f[n] = D[n][f[n - 1]]

LEMMA Iteration ==
    ASSUME NEW N \in Nat, NEW S, NEW c \in S, NEW D \in [1 .. N -> [S -> S]]
    PROVE  \E f : Iterates(f, N, S, c, D)
<1> DEFINE Q == {m \in 0 .. N : \E f : Iterates(f, m, S, c, D)}
<1>1. 0 \in Q
  <2> DEFINE f == [i \in 0 .. 0 |-> c]
  <2>1. Iterates(f, 0, S, c, D)
    BY DEF Iterates
  <2> HIDE DEF f
  <2> QED
    BY <2>1
<1>2. ASSUME NEW m \in 1 .. N, m - 1 \in Q PROVE m \in Q
  <2>1. PICK f : Iterates(f, m - 1, S, c, D)
    BY <1>2
  <2> DEFINE g == [i \in 0 .. m |-> IF i = m THEN D[m][f[m - 1]] ELSE f[i]]
  <2>2. g \in [0 .. m -> S]
    BY <2>1 DEF Iterates
  <2>3. g[0] = c
    BY <2>1 DEF Iterates
  <2>4. ASSUME NEW n \in 1 .. m PROVE g[n] = D[n][g[n - 1]]
    <3>1. CASE n = m
      BY <3>1
    <3>2. CASE n # m
      BY <2>1, <3>2 DEF Iterates
    <3> QED
      BY <3>1, <3>2
  <2>5. Iterates(g, m, S, c, D)
    BY <2>2, <2>3, <2>4 DEF Iterates
  <2> HIDE DEF g
  <2> QED
    BY <2>5
<1>3. N \in Q
  <2> HIDE DEF Q
  <2>1. \A n \in 0 .. N : n \in Q
    BY <1>1, <1>2, UpTo
  <2> QED
    BY <2>1
<1> QED
  BY <1>3

-----------------------------------------------------------------------------
(* Lists *)

(* The elements kept are picked at places that go up, and at all that       *)
(* count.                                                                  *)
Places(seq, S, n, list, place) ==
    /\ place \in [1 .. Len(list) -> 1 .. n]
    /\ \A i, j \in 1 .. Len(list) : i < j => place[i] < place[j]
    /\ \A i \in 1 .. Len(list) : list[i] = seq[place[i]]
    /\ \A p \in 1 .. n : seq[p] \in S <=> \E i \in 1 .. Len(list) : place[i] = p

LEMMA FilteredPlaces ==
    ASSUME NEW X, NEW seq \in Seq(X), NEW S
    PROVE  /\ Filtered(seq, S) \in Seq(X)
           /\ \E place : Places(seq, S, Len(seq), Filtered(seq, S), place)
<1> DEFINE N == Len(seq)
           Lists == Seq(X)
           Step(n, v) == IF seq[n] \in S THEN Append(v, seq[n]) ELSE v
           D == [n \in 1 .. N |-> [v \in Lists |-> Step(n, v)]]
           Is(f) == f = [i \in 0 .. N |->
                           IF i = 0 THEN << >>
                           ELSE IF seq[i] \in S THEN Append(f[i - 1], seq[i])
                           ELSE f[i - 1]]
           kept == CHOOSE f : Is(f)
<1>1. N \in Nat /\ \A n \in 1 .. N : seq[n] \in X
  OBVIOUS
<1>2. << >> \in Lists /\ \A n \in 1 .. N, v \in Lists : Step(n, v) \in Lists
  BY <1>1
<1>3. Filtered(seq, S) = kept[N]
  BY DEF Filtered
<1>4. \A f : Is(f) <=> f = [i \in 0 .. N |-> IF i = 0 THEN << >> ELSE Step(i, f[i - 1])]
  OBVIOUS
<1> HIDE DEF N, Lists, Step, Is
<1>5. D \in [1 .. N -> [Lists -> Lists]]
  BY <1>2
<1>6. PICK f : Iterates(f, N, Lists, << >>, D)
  <2> DEFINE c == << >>
  <2>1. N \in Nat /\ c \in Lists
    BY <1>1, <1>2
  <2> HIDE DEF D, kept, c
  <2>2. \E g : Iterates(g, N, Lists, c, D)
    BY <1>5, <2>1, Iteration
  <2> QED
    BY <2>2 DEF c
<1>7. \A n \in 1 .. N : f[n] = Step(n, f[n - 1])
  <2>1. \A n \in 1 .. N : n - 1 \in 0 .. N
    BY <1>1
  <2> QED
    BY <1>6, <2>1 DEF Iterates
<1>8. Is(f)
  BY <1>1, <1>4, <1>6, <1>7 DEF Iterates
<1>9. Is(kept)
  BY <1>8
<1> HIDE DEF kept
<1>10. kept[0] = << >> /\ \A n \in 1 .. N : kept[n] = Step(n, kept[n - 1])
  BY <1>1, <1>4, <1>9
<1> USE DEF N, Lists, Step
<1> DEFINE Q == {n \in 0 .. N : /\ kept[n] \in Seq(X)
                                /\ \E place : Places(seq, S, n, kept[n], place)}
<1>11. 0 \in Q
  <2>1. Places(seq, S, 0, << >>, [i \in {} |-> i])
    BY DEF Places
  <2> QED
    <3>1. \E place : Places(seq, S, 0, kept[0], place)
      BY <1>10, <2>1
    <3>2. kept[0] \in Seq(X) /\ 0 \in 0 .. N
      BY <1>1, <1>10
    <3> QED
      BY <3>1, <3>2
<1>12. ASSUME NEW n \in 1 .. N, n - 1 \in Q PROVE n \in Q
  <2>1. PICK place : Places(seq, S, n - 1, kept[n - 1], place)
    BY <1>12
  <2>2. kept[n - 1] \in Seq(X)
    BY <1>12
  <2> DEFINE v == kept[n - 1]
             m == Len(v)
  <2>3. m \in Nat
    BY <2>2
  <2>4. CASE seq[n] \notin S
    <3>1. kept[n] = v
      BY <1>10, <2>4
    <3>2. Places(seq, S, n, v, place)
      <4>1. place \in [1 .. m -> 1 .. n]
        BY <2>1, <2>3 DEF Places
      <4>2. \A p \in 1 .. n : seq[p] \in S <=> \E i \in 1 .. m : place[i] = p
        <5>1. ASSUME NEW p \in 1 .. n, p # n
              PROVE  seq[p] \in S <=> \E i \in 1 .. m : place[i] = p
          BY <2>1, <5>1 DEF Places
        <5>2. \A i \in 1 .. m : place[i] # n
          BY <2>1, <2>3 DEF Places
        <5> QED
          BY <2>4, <5>1, <5>2
      <4> QED
        BY <2>1, <4>1, <4>2 DEF Places
    <3> QED
      BY <2>2, <3>1, <3>2
  <2>5. CASE seq[n] \in S
    <3> DEFINE w == Append(v, seq[n])
               next == [i \in 1 .. m + 1 |-> IF i = m + 1 THEN n ELSE place[i]]
    <3>1. kept[n] = w
      BY <1>10, <2>5
    <3>2. w \in Seq(X) /\ Len(w) = m + 1 /\ w[m + 1] = seq[n]
          /\ \A i \in 1 .. m : w[i] = v[i]
      BY <1>1, <2>2
    <3> HIDE DEF w, v
    <3>3. place \in [1 .. m -> 1 .. n - 1]
      BY <2>1 DEF Places, v
    <3>4. Places(seq, S, n, w, next)
      <4>1. next \in [1 .. Len(w) -> 1 .. n]
        BY <2>3, <3>2, <3>3
      <4>2. \A i, j \in 1 .. Len(w) : i < j => next[i] < next[j]
        <5> SUFFICES ASSUME NEW i \in 1 .. m + 1, NEW j \in 1 .. m + 1, i < j
                     PROVE  next[i] < next[j]
          BY <3>2
        <5>1. i \in 1 .. m /\ next[i] = place[i]
          BY <2>3
        <5>2. CASE j = m + 1
          BY <2>3, <3>3, <5>1, <5>2
        <5>3. CASE j # m + 1
          <6>1. j \in 1 .. m /\ next[j] = place[j]
            BY <2>3, <5>3
          <6> QED
            BY <2>1, <5>1, <6>1 DEF Places, v
        <5> QED
          BY <5>2, <5>3
      <4>3. \A i \in 1 .. Len(w) : w[i] = seq[next[i]]
        BY <2>1, <2>3, <3>2, <3>3 DEF Places, v
      <4>4. ASSUME NEW p \in 1 .. n
            PROVE  seq[p] \in S <=> \E i \in 1 .. Len(w) : next[i] = p
        <5>1. CASE p = n
          BY <2>3, <2>5, <3>2, <5>1
        <5>2. CASE p # n
          <6>1. seq[p] \in S <=> \E i \in 1 .. m : place[i] = p
            BY <2>1, <5>2 DEF Places, v
          <6>2. (\E i \in 1 .. m : place[i] = p) <=> \E i \in 1 .. m + 1 : next[i] = p
            BY <2>3, <3>3, <5>2
          <6> QED
            BY <3>2, <6>1, <6>2
        <5> QED
          BY <5>1, <5>2
      <4> QED
        BY <4>1, <4>2, <4>3, <4>4 DEF Places
    <3> QED
      BY <3>1, <3>2, <3>4
  <2> QED
    BY <2>4, <2>5
<1>13. N \in Q
  <2> HIDE DEF Q
  <2>1. \A n \in 0 .. N : n \in Q
    BY <1>1, <1>11, <1>12, UpTo
  <2> QED
    BY <1>1, <2>1
<1> QED
  BY <1>3, <1>13 DEF Q

LEMMA FilteredElements ==
    ASSUME NEW X, NEW seq \in Seq(X), NEW S
    PROVE  /\ Filtered(seq, S) \in Seq(X)
           /\ Elements(Filtered(seq, S)) = Elements(seq) \cap S
           /\ IsInjective(seq) => IsInjective(Filtered(seq, S))
<1> DEFINE list == Filtered(seq, S)
<1>1. list \in Seq(X)
  BY FilteredPlaces
<1>2. PICK place : Places(seq, S, Len(seq), list, place)
  BY FilteredPlaces
<1> HIDE DEF list
<1>3. Len(list) \in Nat /\ Len(seq) \in Nat /\ DOMAIN list = 1 .. Len(list)
      /\ DOMAIN seq = 1 .. Len(seq)
  BY <1>1
<1>4. Elements(list) = Elements(seq) \cap S
  BY <1>2 DEF Places, Elements
<1>5. ASSUME IsInjective(seq) PROVE IsInjective(list)
  <2> SUFFICES ASSUME NEW i \in 1 .. Len(list), NEW j \in 1 .. Len(list),
                      list[i] = list[j], i # j
               PROVE  FALSE
    BY <1>3 DEF IsInjective
  <2>1. place[i] = place[j]
    BY <1>2, <1>3, <1>5 DEF Places, IsInjective
  <2>2. place[i] \in Nat /\ place[j] \in Nat
    BY <1>2, <1>3 DEF Places
  <2>3. i < j \/ j < i
    BY <1>3
  <2> QED
    BY <1>2, <2>1, <2>2, <2>3 DEF Places
<1> QED
  BY <1>1, <1>4, <1>5 DEF list

LEMMA ElementsOfAppend ==
    ASSUME NEW X, NEW s \in Seq(X), NEW x \in X
    PROVE  /\ Append(s, x) \in Seq(X)
           /\ Elements(Append(s, x)) = Elements(s) \cup {x}
           /\ IsInjective(s) /\ x \notin Elements(s) => IsInjective(Append(s, x))
<1> DEFINE a == Append(s, x)
<1>1. a \in Seq(X) /\ Len(s) \in Nat /\ Len(a) = Len(s) + 1 /\ a[Len(s) + 1] = x
      /\ (\A i \in 1 .. Len(s) : a[i] = s[i])
      /\ DOMAIN a = 1 .. Len(a) /\ DOMAIN s = 1 .. Len(s)
  OBVIOUS
<1> HIDE DEF a
<1>2. Elements(a) = Elements(s) \cup {x}
  <2>1. \A i \in 1 .. Len(a) : i \in 1 .. Len(s) \/ i = Len(s) + 1
    BY <1>1
  <2>2. 1 .. Len(s) \subseteq 1 .. Len(a) /\ Len(s) + 1 \in 1 .. Len(a)
    BY <1>1
  <2> QED
    BY <1>1, <2>1, <2>2 DEF Elements
<1>3. IsInjective(s) /\ x \notin Elements(s) => IsInjective(a)
  BY <1>1 DEF Elements, IsInjective
<1> QED
  BY <1>1, <1>2, <1>3 DEF a

LEMMA ElementsOfConcat ==
    ASSUME NEW X, NEW s \in Seq(X), NEW t \in Seq(X)
    PROVE  /\ s \o t \in Seq(X)
           /\ Elements(s \o t) = Elements(s) \cup Elements(t)
           /\ IsInjective(s) /\ IsInjective(t) /\ Elements(s) \cap Elements(t) = {}
                => IsInjective(s \o t)
<1> DEFINE c == s \o t
           m == Len(s)
           n == Len(t)
<1>1. c \in Seq(X) /\ m \in Nat /\ n \in Nat /\ Len(c) = m + n
      /\ (\A i \in 1 .. m : c[i] = s[i])
      /\ (\A i \in 1 .. m + n : i > m => c[i] = t[i - m])
      /\ DOMAIN c = 1 .. Len(c) /\ DOMAIN s = 1 .. m /\ DOMAIN t = 1 .. n
  OBVIOUS
<1>2. \A i \in 1 .. n : c[i + m] = t[i]
  BY <1>1
<1> HIDE DEF c, m, n
<1>3. Elements(c) = {c[i] : i \in 1 .. m + n} /\ Elements(s) = {s[i] : i \in 1 .. m}
      /\ Elements(t) = {t[i] : i \in 1 .. n}
  BY <1>1 DEF Elements, c, m, n
<1>4. ASSUME NEW i \in 1 .. m + n PROVE c[i] \in Elements(s) \cup Elements(t)
  <2>1. CASE i \in 1 .. m
    BY <1>1, <1>3, <2>1
  <2>2. CASE i - m \in 1 .. n
    BY <1>1, <1>3, <2>2
  <2> QED
    BY <1>1, <2>1, <2>2
<1>5. \A i \in 1 .. m : c[i] = s[i] /\ i \in 1 .. m + n
  BY <1>1
<1>6. \A i \in 1 .. n : c[i + m] = t[i] /\ i + m \in 1 .. m + n
  BY <1>1, <1>2
<1>7. Elements(c) = Elements(s) \cup Elements(t)
  BY <1>3, <1>4, <1>5, <1>6
<1>8. ASSUME IsInjective(s), IsInjective(t), Elements(s) \cap Elements(t) = {}
      PROVE  IsInjective(c)
  <2> SUFFICES ASSUME NEW i \in 1 .. m + n, NEW j \in 1 .. m + n, c[i] = c[j]
               PROVE  i = j
    BY <1>1 DEF IsInjective
  <2>1. \A k \in 1 .. m + n : \/ k \in 1 .. m /\ c[k] = s[k] /\ c[k] \in Elements(s)
                              \/ k - m \in 1 .. n /\ c[k] = t[k - m] /\ c[k] \in Elements(t)
    <3> SUFFICES ASSUME NEW k \in 1 .. m + n
                 PROVE  \/ k \in 1 .. m /\ c[k] = s[k] /\ c[k] \in Elements(s)
                        \/ k - m \in 1 .. n /\ c[k] = t[k - m] /\ c[k] \in Elements(t)
      OBVIOUS
    <3>1. CASE k \in 1 .. m
      BY <1>1, <1>3, <3>1
    <3>2. CASE k - m \in 1 .. n
      BY <1>1, <1>3, <3>2
    <3> QED
      BY <1>1, <3>1, <3>2
  <2>2. CASE i \in 1 .. m /\ j \in 1 .. m /\ s[i] = s[j]
    BY <1>1, <1>8, <2>2 DEF IsInjective
  <2>3. CASE i - m \in 1 .. n /\ j - m \in 1 .. n /\ t[i - m] = t[j - m]
    <3>1. i - m = j - m
      BY <1>1, <1>8, <2>3 DEF IsInjective
    <3> QED
      BY <1>1, <3>1
  <2> QED
    BY <1>8, <2>1, <2>2, <2>3
<1> QED
  BY <1>1, <1>7, <1>8 DEF c

LEMMA HeadAndTail ==
    ASSUME NEW X, NEW s \in Seq(X), s # << >>
    PROVE  /\ Head(s) \in X /\ Tail(s) \in Seq(X)
           /\ Elements(s) = Elements(Tail(s)) \cup {Head(s)}
           /\ IsInjective(s) => IsInjective(Tail(s)) /\ Head(s) \notin Elements(Tail(s))
<1> DEFINE t == Tail(s)
           n == Len(s)
<1>1. n \in Nat /\ n > 0 /\ s[1] = Head(s) /\ s[1] \in X /\ t \in Seq(X) /\ Len(t) = n - 1
      /\ (\A i \in 1 .. n - 1 : t[i] = s[i + 1])
      /\ DOMAIN s = 1 .. n /\ DOMAIN t = 1 .. n - 1
  OBVIOUS
<1> HIDE DEF t, n
<1>2. Elements(s) = {s[i] : i \in 1 .. n} /\ Elements(t) = {t[i] : i \in 1 .. n - 1}
  BY <1>1 DEF Elements, n
<1>3. \A i \in 1 .. n : i = 1 \/ (i - 1 \in 1 .. n - 1 /\ t[i - 1] = s[i])
  BY <1>1
<1>4. \A i \in 1 .. n - 1 : i + 1 \in 1 .. n /\ t[i] = s[i + 1]
  BY <1>1
<1>5. 1 \in 1 .. n
  BY <1>1
<1>6. Elements(s) = Elements(t) \cup {s[1]}
  BY <1>2, <1>3, <1>4, <1>5
<1>7. ASSUME IsInjective(s) PROVE IsInjective(t) /\ s[1] \notin Elements(t)
  <2>1. s[1] \notin Elements(t)
    BY <1>1, <1>2, <1>4, <1>5, <1>7 DEF IsInjective
  <2>2. ASSUME NEW i \in 1 .. n - 1, NEW j \in 1 .. n - 1, t[i] = t[j] PROVE i = j
    <3>1. i + 1 = j + 1
      <4>1. s[i + 1] = s[j + 1]
        BY <1>4, <2>2
      <4>2. i + 1 \in DOMAIN s /\ j + 1 \in DOMAIN s
        BY <1>1, <1>4
      <4> QED
        BY <1>7, <4>1, <4>2 DEF IsInjective
    <3> QED
      BY <1>1, <3>1
  <2> QED
    BY <1>1, <2>1, <2>2 DEF IsInjective
<1> QED
  BY <1>1, <1>6, <1>7 DEF t

-----------------------------------------------------------------------------
(* Kahn's algorithm, as both modules of the program have it: what is in the *)
(* queue is moved to the order, and what waited for it alone is queued.     *)
(* need[t] is what t waits for; a task in held is never queued.             *)

WorkStep(tasks, need, held, order, queue, newOrder, newQueue) ==
    LET node == Head(queue)
    IN  /\ newOrder = Append(order, node)
        /\ newQueue = Tail(queue) \o
             Filtered(tasks, {t \in Elements(tasks) \ held :
                                node \in need[t] /\ need[t] \subseteq Elements(newOrder)})

WorkStart(tasks, need, held, order, queue) ==
    /\ order = << >>
    /\ queue = Filtered(tasks, {t \in Elements(tasks) \ held : need[t] = {}})

WorkInv(tasks, need, held, order, queue) ==
    /\ order \in Seq(Elements(tasks)) /\ queue \in Seq(Elements(tasks))
    /\ IsInjective(order) /\ IsInjective(queue)
    /\ Elements(order) \cap Elements(queue) = {}
    /\ \A i \in 1 .. Len(order) : need[order[i]] \subseteq {order[j] : j \in 1 .. i - 1}
    /\ \A t \in Elements(tasks) :
          t \in Elements(order) \cup Elements(queue) <=>
             t \notin held /\ need[t] \subseteq Elements(order)

LEMMA OwnElements ==
    ASSUME NEW X, NEW s \in Seq(X)
    PROVE  s \in Seq(Elements(s)) /\ Len(s) \in Nat /\ DOMAIN s = 1 .. Len(s)
BY DEF Elements

LEMMA WorkStarts ==
    ASSUME NEW X, NEW tasks \in Seq(X), IsInjective(tasks),
           NEW need \in [Elements(tasks) -> SUBSET Elements(tasks)], NEW held,
           NEW order, NEW queue, WorkStart(tasks, need, held, order, queue)
    PROVE  WorkInv(tasks, need, held, order, queue)
<1> DEFINE T == Elements(tasks)
           S == {t \in T \ held : need[t] = {}}
<1>1. tasks \in Seq(T)
  BY OwnElements
<1>2. order = << >> /\ queue = Filtered(tasks, S)
  BY DEF WorkStart
<1>3. queue \in Seq(T) /\ Elements(queue) = T \cap S /\ IsInjective(queue)
  BY <1>1, <1>2, FilteredElements
<1>4. order \in Seq(T) /\ IsInjective(order) /\ Elements(order) = {} /\ Len(order) = 0
  BY <1>2 DEF IsInjective, Elements
<1>5. \A t \in T : t \in Elements(queue) <=> t \notin held /\ need[t] \subseteq {}
  BY <1>3
<1> HIDE DEF T, S
<1> QED
  BY <1>3, <1>4, <1>5 DEF WorkInv, T

LEMMA WorkGoesOn ==
    ASSUME NEW X, NEW tasks \in Seq(X), IsInjective(tasks),
           NEW need \in [Elements(tasks) -> SUBSET Elements(tasks)], NEW held,
           NEW order, NEW queue, WorkInv(tasks, need, held, order, queue), queue # << >>,
           NEW newOrder, NEW newQueue,
           WorkStep(tasks, need, held, order, queue, newOrder, newQueue)
    PROVE  /\ WorkInv(tasks, need, held, newOrder, newQueue)
           /\ Len(newOrder) = Len(order) + 1
<1> DEFINE T == Elements(tasks)
           node == Head(queue)
           rest == Tail(queue)
           S == {t \in T \ held : node \in need[t] /\ need[t] \subseteq Elements(newOrder)}
           freed == Filtered(tasks, S)
<1>1. tasks \in Seq(T)
  BY OwnElements
<1>2. /\ order \in Seq(T) /\ queue \in Seq(T)
      /\ IsInjective(order) /\ IsInjective(queue)
      /\ Elements(order) \cap Elements(queue) = {}
      /\ \A i \in 1 .. Len(order) : need[order[i]] \subseteq {order[j] : j \in 1 .. i - 1}
      /\ \A t \in T : t \in Elements(order) \cup Elements(queue) <=>
                         t \notin held /\ need[t] \subseteq Elements(order)
  BY DEF WorkInv
<1>3. newOrder = Append(order, node) /\ newQueue = rest \o freed
  BY DEF WorkStep
<1>4. freed \in Seq(T) /\ Elements(freed) = T \cap S /\ IsInjective(freed)
  BY <1>1, FilteredElements
<1> HIDE DEF T, freed
<1>5. /\ node \in T /\ rest \in Seq(T) /\ Elements(queue) = Elements(rest) \cup {node}
      /\ IsInjective(rest) /\ node \notin Elements(rest)
  BY <1>2, HeadAndTail
<1> HIDE DEF node, rest
<1>6. /\ newOrder \in Seq(T) /\ Elements(newOrder) = Elements(order) \cup {node}
      /\ IsInjective(newOrder)
  <2>1. node \notin Elements(order)
    BY <1>2, <1>5
  <2> QED
    BY <1>2, <1>3, <1>5, <2>1, ElementsOfAppend
<1>7. /\ Len(order) \in Nat /\ Len(newOrder) = Len(order) + 1
      /\ newOrder[Len(order) + 1] = node
      /\ \A i \in 1 .. Len(order) : newOrder[i] = order[i]
  BY <1>2, <1>3, <1>5
<1>8. \A t \in S : t \notin Elements(order) \cup Elements(queue)
  BY <1>2, <1>5
<1>9. /\ newQueue \in Seq(T) /\ Elements(newQueue) = Elements(rest) \cup (T \cap S)
      /\ IsInjective(newQueue)
  <2>1. Elements(rest) \cap Elements(freed) = {}
    BY <1>4, <1>5, <1>8
  <2> QED
    BY <1>3, <1>4, <1>5, <2>1, ElementsOfConcat
<1>10. Elements(newOrder) \cap Elements(newQueue) = {}
  BY <1>2, <1>5, <1>6, <1>8, <1>9
<1>11. ASSUME NEW i \in 1 .. Len(newOrder)
       PROVE  need[newOrder[i]] \subseteq {newOrder[j] : j \in 1 .. i - 1}
  <2>1. CASE i \in 1 .. Len(order)
    <3>1. \A j \in 1 .. i - 1 : newOrder[j] = order[j]
      BY <1>7, <2>1
    <3>2. {newOrder[j] : j \in 1 .. i - 1} = {order[j] : j \in 1 .. i - 1}
      BY <3>1
    <3>3. newOrder[i] = order[i]
      BY <1>7, <2>1
    <3> QED
      BY <1>2, <2>1, <3>2, <3>3
  <2>2. CASE i = Len(order) + 1
    <3>1. need[node] \subseteq Elements(order)
      BY <1>2, <1>5
    <3>2. Elements(order) = {newOrder[j] : j \in 1 .. i - 1}
      BY <1>7, <2>2 DEF Elements
    <3> QED
      BY <1>7, <2>2, <3>1, <3>2
  <2> QED
    BY <1>7, <2>1, <2>2
<1>12. ASSUME NEW t \in T
       PROVE  t \in Elements(newOrder) \cup Elements(newQueue) <=>
                 t \notin held /\ need[t] \subseteq Elements(newOrder)
  <2>1. t \in Elements(newOrder) \cup Elements(newQueue) <=>
           t \in Elements(order) \cup Elements(queue) \/ t \in S
    BY <1>5, <1>6, <1>9
  <2>2. need[t] \subseteq Elements(newOrder) <=>
           \/ need[t] \subseteq Elements(order)
           \/ node \in need[t] /\ need[t] \subseteq Elements(newOrder)
    BY <1>6
  <2>3. t \in S <=> /\ t \notin held
                    /\ node \in need[t] /\ need[t] \subseteq Elements(newOrder)
    BY DEF T
  <2> QED
    BY <1>2, <2>1, <2>2, <2>3
<1> HIDE DEF S
<1> QED
  BY <1>6, <1>7, <1>9, <1>10, <1>11, <1>12 DEF WorkInv, T

(* A list without repetitions is as long as it has elements.                *)
LEMMA LengthCounts ==
    ASSUME NEW X, NEW s \in Seq(X), IsInjective(s)
    PROVE  IsFiniteSet(Elements(s)) /\ Cardinality(Elements(s)) = Len(s)
<1> DEFINE I == 1 .. Len(s)
<1>1. Len(s) \in Nat /\ DOMAIN s = I
  OBVIOUS
<1>2. IsFiniteSet(I) /\ Cardinality(I) = Len(s)
  <2>1. IsFiniteSet(1 .. Len(s))
        /\ Cardinality(1 .. Len(s)) = IF 1 > Len(s) THEN 0 ELSE Len(s) - 1 + 1
    BY <1>1, FS_Interval
  <2> QED
    BY <1>1, <2>1
<1>3. s \in [I -> Elements(s)]
  BY <1>1 DEF Elements
<1>4. \A a, b \in I : s[a] = s[b] => a = b
  BY <1>1 DEF IsInjective
<1>5. \A t \in Elements(s) : \E i \in I : s[i] = t
  BY DEF Elements
<1>6. s \in Bijection(I, Elements(s))
  BY <1>3, <1>4, <1>5 DEF Bijection, Injection, Surjection, IsInjective
<1> HIDE DEF I
<1>7. ExistsBijection(I, Elements(s))
  BY <1>6 DEF ExistsBijection
<1> QED
  BY <1>2, <1>7, FS_Bijection

(* The largest set of tasks that are held, or wait for another of the set.  *)
Waiting(T, need, held) ==
    UNION {S \in SUBSET T : \A t \in S : need[t] \cap S # {} \/ t \in held}

LEMMA WorkEnds ==
    ASSUME NEW X, NEW tasks \in Seq(X), IsInjective(tasks),
           NEW need \in [Elements(tasks) -> SUBSET Elements(tasks)], NEW held,
           NEW order, NEW queue, WorkInv(tasks, need, held, order, queue),
           queue = << >> \/ Len(order) = Len(tasks)
    PROVE  /\ Elements(order) = Elements(tasks) \ Waiting(Elements(tasks), need, held)
           /\ Len(order) = Len(tasks) <=> Elements(order) = Elements(tasks)
<1> DEFINE T == Elements(tasks)
           E == Elements(order)
<1>1. /\ order \in Seq(T) /\ queue \in Seq(T) /\ IsInjective(order)
      /\ \A i \in 1 .. Len(order) : need[order[i]] \subseteq {order[j] : j \in 1 .. i - 1}
      /\ \A t \in T : t \in E \cup Elements(queue) <=>
                         t \notin held /\ need[t] \subseteq E
  BY DEF WorkInv
<1>2. /\ IsFiniteSet(T) /\ Cardinality(T) = Len(tasks)
      /\ IsFiniteSet(E) /\ Cardinality(E) = Len(order)
  BY <1>1, LengthCounts
<1>3. E \subseteq T
  <2> HIDE DEF T
  <2> QED
    BY <1>1 DEF Elements
<1>4. Len(order) = Len(tasks) <=> E = T
  <2> HIDE DEF E, T
  <2> QED
    BY <1>2, <1>3, FS_Subset
<1>5. ASSUME NEW S \in SUBSET T, \A t \in S : need[t] \cap S # {} \/ t \in held
      PROVE  E \cap S = {}
  <2> DEFINE places == {i \in 1 .. Len(order) : order[i] \in S}
  <2>1. SUFFICES ASSUME places # {} PROVE FALSE
    BY DEF Elements
  <2>2. PICK i \in places : \A j \in places : i <= j
    <3>1. places \subseteq Nat
      OBVIOUS
    <3> HIDE DEF places
    <3> QED
      BY <2>1, <3>1, SmallestNumber
  <2>3. order[i] \in S /\ order[i] \in E /\ order[i] \in T /\ i \in 1 .. Len(order)
    BY DEF Elements
  <2>4. order[i] \notin held
    BY <1>1, <2>3
  <2>5. need[order[i]] \cap S # {}
    BY <1>5, <2>3, <2>4
  <2>6. PICK j \in 1 .. i - 1 : order[j] \in S
    BY <1>1, <2>3, <2>5
  <2>7. j \in places /\ j < i
    BY <1>1, <2>3, <2>6
  <2> QED
    BY <2>2, <2>3, <2>7
<1>6. \A t \in T \ E : need[t] \cap (T \ E) # {} \/ t \in held
  <2>1. CASE queue = << >>
    <3>1. Elements(queue) = {}
      BY <2>1 DEF Elements
    <3>2. \A t \in T : need[t] \subseteq T
      OBVIOUS
    <3> HIDE DEF E, T
    <3> QED
      BY <1>1, <3>1, <3>2
  <2>2. CASE Len(order) = Len(tasks)
    BY <1>4, <2>2
  <2> QED
    BY <2>1, <2>2
<1> DEFINE W == Waiting(T, need, held)
<1>7. T \ E \subseteq W
  <2>1. T \ E \in {S \in SUBSET T : \A t \in S : need[t] \cap S # {} \/ t \in held}
    BY <1>6
  <2> HIDE DEF E, T
  <2> QED
    BY <2>1 DEF Waiting
<1>8. W \subseteq T /\ W \cap E = {}
  <2> HIDE DEF E, T
  <2> QED
    BY <1>5 DEF Waiting
<1> HIDE DEF W
<1>9. E = T \ W
  BY <1>3, <1>7, <1>8
<1> QED
  BY <1>4, <1>9 DEF W

-----------------------------------------------------------------------------
(* The check of an amended graph *)

NeedsOf(g) == [t \in TaskIds(g) |-> Needs(g, t)]

KahnStates(g) ==
    {k \in [order : Seq(TaskIds(g)), queue : Seq(TaskIds(g))] :
        WorkInv(g.tasks, NeedsOf(g), {}, k.order, k.queue)}

KahnStart(g) ==
    [order |-> << >>,
     queue |-> Filtered(g.tasks, {t \in TaskIds(g) : Needs(g, t) = {}})]

LEMMA KahnStarts ==
    ASSUME NEW X, NEW g, g.tasks \in Seq(X), IsInjective(g.tasks)
    PROVE  KahnStart(g) \in KahnStates(g)
<1> DEFINE k == KahnStart(g)
           T == TaskIds(g)
           need == NeedsOf(g)
<1>1. T = Elements(g.tasks) /\ need \in [T -> SUBSET T] /\ \A t \in T : need[t] = Needs(g, t)
  BY DEF TaskIds, Elements, Needs, NeedsOf
<1>2. {t \in T : Needs(g, t) = {}} = {t \in T \ {} : need[t] = {}}
  BY <1>1
<1>3. WorkStart(g.tasks, need, {}, k.order, k.queue)
  BY <1>1, <1>2 DEF WorkStart, KahnStart
<1> HIDE DEF T, need
<1>4. WorkInv(g.tasks, need, {}, k.order, k.queue)
  BY <1>1, <1>3, WorkStarts
<1>5. k.order \in Seq(T) /\ k.queue \in Seq(T)
  BY <1>1, <1>4 DEF WorkInv
<1>6. k = [order |-> k.order, queue |-> k.queue]
  BY DEF KahnStart
<1> HIDE DEF k
<1>7. k \in [order : Seq(T), queue : Seq(T)]
  BY <1>5, <1>6
<1> QED
  BY <1>4, <1>7 DEF KahnStates, k, T, need

LEMMA KahnGoesOn ==
    ASSUME NEW X, NEW g, g.tasks \in Seq(X), IsInjective(g.tasks),
           NEW k \in KahnStates(g)
    PROVE  /\ KahnStep(g, k) \in KahnStates(g)
           /\ k.queue = << >> => KahnStep(g, k) = k
           /\ k.queue # << >> => Len(KahnStep(g, k).order) = Len(k.order) + 1
<1> DEFINE new == KahnStep(g, k)
           T == TaskIds(g)
           need == NeedsOf(g)
<1>1. T = Elements(g.tasks) /\ need \in [T -> SUBSET T] /\ \A t \in T : need[t] = Needs(g, t)
  BY DEF TaskIds, Elements, Needs, NeedsOf
<1>2. WorkInv(g.tasks, need, {}, k.order, k.queue)
  BY DEF KahnStates
<1>3. CASE k.queue = << >>
  BY <1>3 DEF KahnStep
<1>4. CASE k.queue # << >>
  <2> DEFINE node == Head(k.queue)
             order == Append(k.order, node)
             freed == {t \in T : /\ node \in Needs(g, t)
                                 /\ Needs(g, t) \subseteq Elements(order)}
             queue == Tail(k.queue) \o Filtered(g.tasks, freed)
  <2>1. new = [order |-> order, queue |-> queue]
    BY <1>4 DEF KahnStep
  <2>2. freed = {t \in T \ {} : node \in need[t] /\ need[t] \subseteq Elements(order)}
    BY <1>1
  <2>3. WorkStep(g.tasks, need, {}, k.order, k.queue, order, queue)
    BY <1>1, <2>2 DEF WorkStep
  <2> HIDE DEF order, queue, T, need
  <2>4. WorkInv(g.tasks, need, {}, order, queue) /\ Len(order) = Len(k.order) + 1
    BY <1>1, <1>2, <1>4, <2>3, WorkGoesOn
  <2>5. order \in Seq(T) /\ queue \in Seq(T)
    BY <1>1, <2>4 DEF WorkInv
  <2>6. new \in KahnStates(g)
    BY <2>1, <2>4, <2>5 DEF KahnStates, T, need
  <2> QED
    BY <1>4, <2>1, <2>4, <2>6
<1> QED
  BY <1>3, <1>4

(* After as many rounds as there are tasks, the queue is empty or all of    *)
(* them are ordered.                                                       *)
LEMMA KahnEnds ==
    ASSUME NEW X, NEW g, g.tasks \in Seq(X), IsInjective(g.tasks)
    PROVE  LET k == KahnRounds(g)[Len(g.tasks)]
           IN  /\ k \in KahnStates(g)
               /\ k.queue = << >> \/ Len(k.order) = Len(g.tasks)
<1> DEFINE N == Len(g.tasks)
           S == KahnStates(g)
           D == [n \in 1 .. N |-> [k \in S |-> KahnStep(g, k)]]
           Is(f) == f = [n \in 0 .. N |-> IF n = 0
                           THEN [order |-> << >>,
                                 queue |-> Filtered(g.tasks, {t \in TaskIds(g) : Needs(g, t) = {}})]
                           ELSE KahnStep(g, f[n - 1])]
           round == CHOOSE f : Is(f)
<1>1. N \in Nat /\ KahnStart(g) \in S
  BY KahnStarts
<1>2. D \in [1 .. N -> [S -> S]]
  BY KahnGoesOn
<1>3. KahnRounds(g) = round
  BY DEF KahnRounds
<1>4. \A f : Is(f) <=> f = [n \in 0 .. N |-> IF n = 0 THEN KahnStart(g) ELSE KahnStep(g, f[n - 1])]
  BY DEF KahnStart
<1> HIDE DEF N, Is
<1>5. PICK f : Iterates(f, N, S, KahnStart(g), D)
  <2> HIDE DEF D, S, round
  <2> QED
    BY <1>1, <1>2, Iteration
<1>6. Is(f)
  <2>1. \A n \in 1 .. N : n - 1 \in 0 .. N
    BY <1>1
  <2>2. \A n \in 1 .. N : f[n] = KahnStep(g, f[n - 1])
    BY <1>5, <2>1 DEF Iterates
  <2> QED
    BY <1>1, <1>4, <1>5, <2>2 DEF Iterates
<1>7. Is(round)
  BY <1>6
<1> HIDE DEF round, D, S
<1>8. /\ round[0] = KahnStart(g)
      /\ \A n \in 1 .. N : round[n] = KahnStep(g, round[n - 1])
  BY <1>1, <1>4, <1>7
<1> DEFINE Q == {n \in 0 .. N : /\ round[n] \in S
                                /\ \/ round[n].queue = << >>
                                   \/ Len(round[n].order) = n}
<1>9. 0 \in Q
  <2>1. Len(KahnStart(g).order) = 0
    BY DEF KahnStart
  <2> QED
    BY <1>1, <1>8, <2>1
<1>10. ASSUME NEW n \in 1 .. N, n - 1 \in Q PROVE n \in Q
  <2>1. /\ round[n - 1] \in S /\ round[n] = KahnStep(g, round[n - 1])
        /\ round[n - 1].queue = << >> \/ Len(round[n - 1].order) = n - 1
    BY <1>8, <1>10
  <2>2. CASE round[n - 1].queue = << >>
    BY <2>1, <2>2, KahnGoesOn DEF S
  <2>3. CASE round[n - 1].queue # << >>
    BY <2>1, <2>3, KahnGoesOn DEF S
  <2> QED
    BY <2>2, <2>3
<1>11. N \in Q
  <2> HIDE DEF Q
  <2>1. \A n \in 0 .. N : n \in Q
    BY <1>1, <1>9, <1>10, UpTo
  <2> QED
    BY <1>1, <2>1
<1> QED
  BY <1>3, <1>11 DEF N, S

(* _validate_task_graph accepts a graph exactly when no tasks of it wait    *)
(* for each other in a circle (replan_applier.py:100).                     *)
THEOREM AmendCheckIsExact ==
    ASSUME NEW X, NEW g, g.tasks \in Seq(X), IsInjective(g.tasks)
    PROVE  StaysValid(g) <=> Knots(g) = {}
<1> DEFINE T == TaskIds(g)
           need == NeedsOf(g)
           k == KahnRounds(g)[Len(g.tasks)]
           E == Elements(k.order)
<1>1. T = Elements(g.tasks) /\ need \in [T -> SUBSET T] /\ \A t \in T : need[t] = Needs(g, t)
  BY DEF TaskIds, Elements, Needs, NeedsOf
<1>2. k \in KahnStates(g) /\ (k.queue = << >> \/ Len(k.order) = Len(g.tasks))
  BY KahnEnds
<1>3. WorkInv(g.tasks, need, {}, k.order, k.queue)
  BY <1>2 DEF KahnStates
<1>4. StaysValid(g) <=> Len(k.order) = Len(g.tasks)
  BY DEF StaysValid
<1> HIDE DEF k, T, need
<1>5. E = T \ Waiting(T, need, {}) /\ (Len(k.order) = Len(g.tasks) <=> E = T)
  BY <1>1, <1>2, <1>3, WorkEnds
<1>6. Waiting(T, need, {}) \subseteq T
  BY DEF Waiting
<1>7. Waiting(T, need, {}) = UNION Knots(g)
  <2>1. \A S \in SUBSET T : (\A t \in S : need[t] \cap S # {} \/ t \in {})
                               <=> \A t \in S : g.deps[t] \cap S # {}
    BY <1>1 DEF Needs, T
  <2> DEFINE W == {S \in SUBSET T : \A t \in S : need[t] \cap S # {} \/ t \in {}}
  <2>2. \A S : S \in Knots(g) <=> S \in W /\ S # {}
    BY <2>1 DEF Knots, T
  <2>3. Waiting(T, need, {}) = UNION W
    BY DEF Waiting
  <2> HIDE DEF W
  <2>4. UNION W = UNION Knots(g)
    BY <2>2
  <2> QED
    BY <2>3, <2>4
<1>8. UNION Knots(g) = {} <=> Knots(g) = {}
  <2>1. \A S \in Knots(g) : S # {}
    BY DEF Knots
  <2> QED
    BY <2>1
<1> QED
  BY <1>4, <1>5, <1>6, <1>7, <1>8

-----------------------------------------------------------------------------
(* What the planners hand to validate_tasks: different ids, and dependencies *)
(* that are among them.                                                    *)
IsDraft(d) ==
    /\ d.tasks \in Seq(Ids(d)) /\ IsInjective(d.tasks)
    /\ d.deps \in [Ids(d) -> Seq(Ids(d))]

NeededIn(d) == [t \in Ids(d) |-> Known(d, t)]

DuplicatesIn(d) == {t \in Ids(d) : NamedTwice(d, t)}

(* The count of a task's dependencies is right just when none is repeated.   *)
LEMMA InDegreeCounts ==
    ASSUME NEW d, IsDraft(d), NEW t \in Ids(d)
    PROVE  /\ InDegree(d, t) \in Nat
           /\ IsFiniteSet(Known(d, t)) /\ Cardinality(Known(d, t)) \in Nat
           /\ Cardinality(Known(d, t)) <= InDegree(d, t)
           /\ Cardinality(Known(d, t)) = InDegree(d, t) <=> ~NamedTwice(d, t)
<1> DEFINE needs == d.deps[t]
           I == {i \in 1 .. Len(needs) : needs[i] \in Ids(d)}
           f == [i \in I |-> needs[i]]
           K == Known(d, t)
<1>1. needs \in Seq(Ids(d))
  BY DEF IsDraft
<1>2. IsFiniteSet(I)
  <2>1. Len(needs) \in Nat
    BY <1>1
  <2>2. IsFiniteSet(1 .. Len(needs))
    BY <2>1, FS_Interval
  <2>3. I \in SUBSET (1 .. Len(needs))
    OBVIOUS
  <2> HIDE DEF I
  <2> QED
    BY <2>2, <2>3, FS_Subset
<1>3. f \in Surjection(I, K)
  BY DEF Surjection, Known, Elements
<1>4. f \in Injection(I, K) <=> ~NamedTwice(d, t)
  BY <1>3 DEF Surjection, Injection, IsInjective, NamedTwice
<1>5. InDegree(d, t) = Cardinality(I)
  BY DEF InDegree
<1> HIDE DEF f, I, K
<1>6. /\ IsFiniteSet(K) /\ Cardinality(K) <= Cardinality(I)
      /\ Cardinality(K) = Cardinality(I) <=> f \in Injection(I, K)
  BY <1>2, <1>3, FS_Surjection
<1>7. Cardinality(I) \in Nat /\ Cardinality(K) \in Nat
  BY <1>2, <1>6, FS_CardinalityType
<1> QED
  BY <1>4, <1>5, <1>6, <1>7 DEF K

(* What is left of the count when some tasks are ordered.                   *)
Left(d, E) == [t \in Ids(d) |-> InDegree(d, t) - Cardinality(Known(d, t) \cap E)]

LEMMA LeftCounts ==
    ASSUME NEW d, IsDraft(d), NEW E, NEW t \in Ids(d)
    PROVE  /\ Left(d, E)[t] \in Int
           /\ Left(d, E)[t] = 0 <=> t \notin DuplicatesIn(d) /\ Known(d, t) \subseteq E
<1> DEFINE K == Known(d, t)
           m == Cardinality(K)
           n == Cardinality(K \cap E)
           k == InDegree(d, t)
<1>1. /\ k \in Nat /\ IsFiniteSet(K) /\ m \in Nat /\ m <= k
      /\ m = k <=> ~NamedTwice(d, t)
  BY InDegreeCounts
<1> HIDE DEF K
<1>2. K \cap E \in SUBSET K
  OBVIOUS
<1>3. IsFiniteSet(K \cap E) /\ n <= m /\ (m = n => K = K \cap E)
  BY <1>1, <1>2, FS_Subset
<1>4. n \in Nat
  BY <1>3, FS_CardinalityType
<1>5. m = n <=> K \subseteq E
  <2>1. K \subseteq E => K \cap E = K
    OBVIOUS
  <2> QED
    BY <1>3, <2>1
<1>6. Left(d, E)[t] = k - n
  BY DEF Left, K
<1> HIDE DEF m, n, k
<1>7. k - n = 0 <=> m = k /\ m = n
  BY <1>1, <1>3, <1>4
<1>8. k - n \in Int
  BY <1>1, <1>4
<1>9. t \in DuplicatesIn(d) <=> NamedTwice(d, t)
  BY DEF DuplicatesIn
<1> QED
  BY <1>1, <1>5, <1>6, <1>7, <1>8, <1>9 DEF K

LEMMA LeftGoesDown ==
    ASSUME NEW d, IsDraft(d), NEW E, NEW node, node \notin E, NEW t \in Ids(d)
    PROVE  Left(d, E \cup {node})[t] =
             IF node \in Known(d, t) THEN Left(d, E)[t] - 1 ELSE Left(d, E)[t]
<1> DEFINE K == Known(d, t)
           n == Cardinality(K \cap E)
           k == InDegree(d, t)
<1>1. k \in Nat /\ IsFiniteSet(K)
  BY InDegreeCounts
<1> HIDE DEF K, k
<1>2. IsFiniteSet(K \cap E)
  BY <1>1, FS_Intersection
<1>3. n \in Nat
  BY <1>2, FS_CardinalityType
<1>4. Left(d, E)[t] = k - n
  BY DEF Left, K, k
<1>5. Left(d, E \cup {node})[t] = k - Cardinality(K \cap (E \cup {node}))
  BY DEF Left, K, k
<1>6. CASE node \in K
  <2>1. K \cap (E \cup {node}) = (K \cap E) \cup {node}
    BY <1>6
  <2>2. Cardinality((K \cap E) \cup {node}) = n + 1
    <3>1. node \notin K \cap E
      OBVIOUS
    <3> QED
      BY <1>2, <3>1, FS_AddElement
  <2> HIDE DEF n
  <2>3. Left(d, E \cup {node})[t] = k - (n + 1)
    BY <1>5, <2>1, <2>2
  <2>4. k - (n + 1) = (k - n) - 1
    BY <1>1, <1>3
  <2> QED
    BY <1>4, <1>6, <2>3, <2>4 DEF K
<1>7. CASE node \notin K
  <2>1. K \cap (E \cup {node}) = K \cap E
    BY <1>7
  <2> QED
    BY <1>4, <1>5, <1>7, <2>1 DEF K
<1> QED
  BY <1>6, <1>7

-----------------------------------------------------------------------------
(* The order of the task engine *)

SortStates(d) ==
    {s \in [order : Seq(Ids(d)), degree : [Ids(d) -> Int], queue : Seq(Ids(d))] :
        /\ WorkInv(d.tasks, NeededIn(d), DuplicatesIn(d), s.order, s.queue)
        /\ s.degree = Left(d, Elements(s.order))}

LEMMA DraftFacts ==
    ASSUME NEW d, IsDraft(d)
    PROVE  /\ d.tasks \in Seq(Ids(d)) /\ IsInjective(d.tasks)
           /\ Ids(d) = Elements(d.tasks)
           /\ NeededIn(d) \in [Ids(d) -> SUBSET Ids(d)]
           /\ \A t \in Ids(d) : NeededIn(d)[t] = Known(d, t)
BY DEF IsDraft, Ids, NeededIn, Known

LEMMA SortStarts ==
    ASSUME NEW d, IsDraft(d)
    PROVE  NewSort(d) \in SortStates(d)
<1> DEFINE T == Ids(d)
           need == NeededIn(d)
           held == DuplicatesIn(d)
           degree == [t \in T |-> InDegree(d, t)]
           queue == Filtered(d.tasks, {t \in T : InDegree(d, t) = 0})
<1>1. /\ d.tasks \in Seq(T) /\ IsInjective(d.tasks) /\ T = Elements(d.tasks)
      /\ need \in [T -> SUBSET T] /\ \A t \in T : need[t] = Known(d, t)
  BY DraftFacts
<1>2. NewSort(d) = [order |-> << >>, degree |-> degree, queue |-> queue]
  BY DEF NewSort
<1>3. \A t \in T : Left(d, {})[t] = InDegree(d, t)
  <2>1. \A t \in T : InDegree(d, t) \in Nat
    BY InDegreeCounts
  <2>2. \A t \in T : Left(d, {})[t] = InDegree(d, t) - Cardinality(Known(d, t) \cap {})
    BY DEF Left
  <2>3. \A S : S \cap {} = {}
    OBVIOUS
  <2>4. Cardinality({}) = 0
    BY FS_EmptySet
  <2> HIDE DEF T
  <2> QED
    BY <2>1, <2>2, <2>3, <2>4
<1>4. degree = Left(d, {})
  <2>1. Left(d, {}) = [t \in T |-> Left(d, {})[t]]
    BY DEF Left
  <2> QED
    BY <1>3, <2>1
<1>5. Elements(<< >>) = {}
  BY DEF Elements
<1>6. {t \in T : InDegree(d, t) = 0} = {t \in T \ held : need[t] = {}}
  BY <1>1, <1>3, LeftCounts
<1>7. WorkStart(d.tasks, need, held, << >>, queue)
  BY <1>1, <1>6 DEF WorkStart
<1>8. degree \in [T -> Int]
  BY InDegreeCounts
<1> HIDE DEF queue, held, need, degree, T
<1>9. WorkInv(d.tasks, need, held, << >>, queue)
  BY <1>1, <1>7, WorkStarts
<1>10. << >> \in Seq(T) /\ queue \in Seq(T)
  BY <1>1, <1>9 DEF WorkInv
<1>11. NewSort(d) \in [order : Seq(T), degree : [T -> Int], queue : Seq(T)]
  BY <1>2, <1>8, <1>10
<1>12. /\ WorkInv(d.tasks, need, held, NewSort(d).order, NewSort(d).queue)
       /\ NewSort(d).degree = Left(d, Elements(NewSort(d).order))
  <2>1. /\ NewSort(d).order = << >> /\ NewSort(d).degree = degree
        /\ NewSort(d).queue = queue
    BY <1>2
  <2>2. Elements(NewSort(d).order) = {}
    BY <1>5, <2>1
  <2>3. WorkInv(d.tasks, need, held, NewSort(d).order, NewSort(d).queue)
    BY <1>9, <2>1
  <2> QED
    BY <1>4, <2>1, <2>2, <2>3
<1> QED
  BY <1>11, <1>12 DEF SortStates, T, need, held

LEMMA SortGoesOn ==
    ASSUME NEW d, IsDraft(d), NEW s \in SortStates(d)
    PROVE  /\ SortStep(d, s) \in SortStates(d)
           /\ s.queue = << >> => SortStep(d, s) = s
           /\ s.queue # << >> => Len(SortStep(d, s).order) = Len(s.order) + 1
<1> DEFINE T == Ids(d)
           need == NeededIn(d)
           held == DuplicatesIn(d)
<1>1. /\ d.tasks \in Seq(T) /\ IsInjective(d.tasks) /\ T = Elements(d.tasks)
      /\ need \in [T -> SUBSET T] /\ \A t \in T : need[t] = Known(d, t)
  BY DraftFacts
<1>2. /\ WorkInv(d.tasks, need, held, s.order, s.queue)
      /\ s.degree = Left(d, Elements(s.order))
      /\ s.order \in Seq(T) /\ s.queue \in Seq(T)
  BY DEF SortStates
<1>3. CASE s.queue = << >>
  BY <1>3 DEF SortStep
<1>4. CASE s.queue # << >>
  <2> DEFINE node == Head(s.queue)
             E == Elements(s.order)
             degree == [t \in T |-> IF node \in Known(d, t) THEN s.degree[t] - 1
                                    ELSE s.degree[t]]
             freed == {t \in T : Freed(d, degree, node, t)}
             order == Append(s.order, node)
             queue == Tail(s.queue) \o Filtered(d.tasks, freed)
  <2>1. SortStep(d, s) = [order |-> order, degree |-> degree, queue |-> queue]
    BY <1>4 DEF SortStep
  <2>2. node \in T /\ node \in Elements(s.queue)
    BY <1>2, <1>4, HeadAndTail
  <2>3. node \notin E
    BY <1>2, <2>2 DEF WorkInv
  <2> HIDE DEF node
  <2>4. Elements(order) = E \cup {node}
    BY <1>2, <2>2, ElementsOfAppend
  <2>5. degree = Left(d, Elements(order))
    <3>1. \A t \in T : degree[t] = Left(d, E \cup {node})[t]
      BY <1>2, <2>3, LeftGoesDown
    <3>2. Left(d, E \cup {node}) = [t \in T |-> Left(d, E \cup {node})[t]]
      BY DEF Left
    <3> QED
      BY <2>4, <3>1, <3>2
  <2>6. freed = {t \in T \ held : node \in need[t] /\ need[t] \subseteq Elements(order)}
    <3>1. \A t \in T : degree[t] = 0 <=> t \notin held /\ need[t] \subseteq Elements(order)
      <4>1. degree = Left(d, Elements(order))
        BY <2>5
      <4> HIDE DEF degree, order
      <4>2. \A t \in T : degree[t] = 0 <=>
                            t \notin held /\ Known(d, t) \subseteq Elements(order)
        BY <4>1, LeftCounts
      <4> QED
        BY <1>1, <4>2
    <3>2. \A t \in T : Freed(d, degree, node, t) <=> node \in need[t] /\ degree[t] = 0
      BY <1>1 DEF Freed
    <3> HIDE DEF degree, order, T, need, held
    <3> QED
      BY <3>1, <3>2
  <2>7. WorkStep(d.tasks, need, held, s.order, s.queue, order, queue)
    BY <1>1, <2>6 DEF WorkStep, node
  <2>8. degree \in [T -> Int]
    BY <2>5, LeftCounts
  <2> HIDE DEF order, queue, degree, T, need, held
  <2>9. WorkInv(d.tasks, need, held, order, queue) /\ Len(order) = Len(s.order) + 1
    BY <1>1, <1>2, <1>4, <2>7, WorkGoesOn
  <2>10. order \in Seq(T) /\ queue \in Seq(T)
    BY <1>1, <2>9 DEF WorkInv
  <2>11. SortStep(d, s) \in SortStates(d)
    BY <2>1, <2>5, <2>8, <2>9, <2>10 DEF SortStates, T, need, held
  <2> QED
    BY <1>4, <2>1, <2>9, <2>11
<1> QED
  BY <1>3, <1>4

LEMMA SortEnds ==
    ASSUME NEW d, IsDraft(d)
    PROVE  LET s == SortRounds(d)[Len(d.tasks)]
           IN  /\ s \in SortStates(d)
               /\ s.queue = << >> \/ Len(s.order) = Len(d.tasks)
<1> DEFINE N == Len(d.tasks)
           S == SortStates(d)
           D == [n \in 1 .. N |-> [s \in S |-> SortStep(d, s)]]
           Is(f) == f = [n \in 0 .. N |-> IF n = 0 THEN NewSort(d) ELSE SortStep(d, f[n - 1])]
           round == CHOOSE f : Is(f)
<1>1. N \in Nat /\ NewSort(d) \in S
  BY SortStarts DEF IsDraft
<1>2. D \in [1 .. N -> [S -> S]]
  BY SortGoesOn
<1>3. SortRounds(d) = round
  BY DEF SortRounds
<1> HIDE DEF N
<1>5. PICK f : Iterates(f, N, S, NewSort(d), D)
  <2> HIDE DEF D, S, round
  <2> QED
    BY <1>1, <1>2, Iteration
<1>6. Is(f)
  <2>1. \A n \in 1 .. N : n - 1 \in 0 .. N
    BY <1>1
  <2>2. \A n \in 1 .. N : f[n] = SortStep(d, f[n - 1])
    BY <1>5, <2>1 DEF Iterates
  <2> QED
    BY <1>1, <1>5, <2>2 DEF Iterates
<1> HIDE DEF Is
<1>7. Is(round)
  BY <1>6
<1> HIDE DEF round, D, S
<1>8. /\ round[0] = NewSort(d)
      /\ \A n \in 1 .. N : round[n] = SortStep(d, round[n - 1])
  BY <1>1, <1>7 DEF Is
<1> DEFINE Q == {n \in 0 .. N : /\ round[n] \in S
                                /\ \/ round[n].queue = << >>
                                   \/ Len(round[n].order) = n}
<1>9. 0 \in Q
  <2>1. Len(NewSort(d).order) = 0
    BY DEF NewSort
  <2> QED
    BY <1>1, <1>8, <2>1
<1>10. ASSUME NEW n \in 1 .. N, n - 1 \in Q PROVE n \in Q
  <2>1. /\ round[n - 1] \in S /\ round[n] = SortStep(d, round[n - 1])
        /\ round[n - 1].queue = << >> \/ Len(round[n - 1].order) = n - 1
    BY <1>8, <1>10
  <2>2. CASE round[n - 1].queue = << >>
    BY <2>1, <2>2, SortGoesOn DEF S
  <2>3. CASE round[n - 1].queue # << >>
    BY <2>1, <2>3, SortGoesOn DEF S
  <2> QED
    BY <2>2, <2>3
<1>11. N \in Q
  <2> HIDE DEF Q
  <2>1. \A n \in 0 .. N : n \in Q
    BY <1>1, <1>9, <1>10, UpTo
  <2> QED
    BY <1>1, <2>1
<1> QED
  BY <1>3, <1>11 DEF N, S

(* The order lists what is not held up, after all it needs, once each.       *)
THEOREM OrderIsTopological ==
    ASSUME NEW d, IsDraft(d)
    PROVE  LET order == TopologicalOrder(d)
           IN  /\ order \in Seq(Ids(d)) /\ IsInjective(order)
               /\ \A i \in 1 .. Len(order) :
                     Known(d, order[i]) \subseteq {order[j] : j \in 1 .. i - 1}
               /\ Elements(order) = Ids(d) \ HeldUp(Checked(d), d)
<1> DEFINE T == Ids(d)
           need == NeededIn(d)
           held == DuplicatesIn(d)
           s == SortRounds(d)[Len(d.tasks)]
           order == TopologicalOrder(d)
<1>1. /\ d.tasks \in Seq(T) /\ IsInjective(d.tasks) /\ T = Elements(d.tasks)
      /\ need \in [T -> SUBSET T] /\ \A t \in T : need[t] = Known(d, t)
  BY DraftFacts
<1>2. s \in SortStates(d) /\ (s.queue = << >> \/ Len(s.order) = Len(d.tasks))
  BY SortEnds
<1>3. order = s.order
  BY DEF TopologicalOrder
<1>4. WorkInv(d.tasks, need, held, order, s.queue)
  BY <1>2, <1>3 DEF SortStates
<1> HIDE DEF s, order, T, need, held
<1>5. /\ order \in Seq(T) /\ IsInjective(order)
      /\ \A i \in 1 .. Len(order) : need[order[i]] \subseteq {order[j] : j \in 1 .. i - 1}
  BY <1>1, <1>4 DEF WorkInv
<1>6. \A i \in 1 .. Len(order) : need[order[i]] = Known(d, order[i])
  BY <1>1, <1>5
<1>7. Elements(order) = T \ Waiting(T, need, held)
  BY <1>1, <1>2, <1>3, <1>4, WorkEnds
<1>8. Waiting(T, need, held) = HeldUp(Checked(d), d)
  <2>1. TaskIds(Checked(d)) = T
    BY DEF TaskIds, Checked, Ids, Elements, T
  <2>2. \A t \in T : Checked(d).deps[t] = need[t]
    BY <1>1 DEF Checked, T
  <2>3. \A t \in T : t \in held <=> NamedTwice(d, t)
    BY DEF held, DuplicatesIn, T
  <2>4. {S \in SUBSET T : \A t \in S : need[t] \cap S # {} \/ t \in held} =
        {S \in SUBSET T : \A t \in S : Checked(d).deps[t] \cap S # {} \/ NamedTwice(d, t)}
    BY <2>2, <2>3
  <2> QED
    BY <2>1, <2>4 DEF Waiting, HeldUp
<1> QED
  BY <1>5, <1>6, <1>7, <1>8 DEF order, T

-----------------------------------------------------------------------------
(* The search for cycles *)

LEMMA AllButLast ==
    ASSUME NEW X, NEW s \in Seq(X), s # << >>
    PROVE  LET last  == s[Len(s)]
               front == SubSeq(s, 1, Len(s) - 1)
           IN  /\ last \in X /\ front \in Seq(X) /\ Len(front) = Len(s) - 1
               /\ \A i \in 1 .. Len(s) - 1 : front[i] = s[i]
               /\ last \in Elements(s) /\ Elements(s) = Elements(front) \cup {last}
               /\ IsInjective(s) => IsInjective(front) /\ last \notin Elements(front)
<1> DEFINE n == Len(s)
           front == SubSeq(s, 1, n - 1)
<1>1. n \in Nat /\ n > 0 /\ s[n] \in X /\ DOMAIN s = 1 .. n
  OBVIOUS
<1>2. front \in Seq(X) /\ Len(front) = n - 1 /\ \A i \in 1 .. n - 1 : front[i] = s[i]
  <2>1. \A i \in 1 .. n - 1 : s[i] \in X
    BY <1>1
  <2> HIDE DEF n
  <2>2. 1 \in Int /\ n - 1 \in Int /\ n - 1 - 1 + 1 = n - 1
    BY <1>1
  <2>3. /\ front \in Seq(X) /\ Len(front) = IF 1 <= n - 1 THEN n - 1 - 1 + 1 ELSE 0
        /\ \A i \in 1 .. n - 1 - 1 + 1 : front[i] = s[1 + i - 1]
    BY <2>1, <2>2, SubSeqProperties
  <2>4. Len(front) = n - 1
    BY <1>1, <2>3
  <2>5. \A i \in 1 .. n - 1 : 1 + i - 1 = i
    BY <1>1
  <2> QED
    BY <2>2, <2>3, <2>4, <2>5
<1>3. DOMAIN front = 1 .. n - 1
  BY <1>2
<1> HIDE DEF front, n
<1>4. Elements(s) = {s[i] : i \in 1 .. n} /\ Elements(front) = {front[i] : i \in 1 .. n - 1}
  BY <1>2 DEF Elements, n
<1>5. n \in 1 .. n /\ \A i \in 1 .. n : i = n \/ i \in 1 .. n - 1
  BY <1>1
<1>6. \A i \in 1 .. n - 1 : i \in 1 .. n /\ i # n
  BY <1>1
<1>7. s[n] \in Elements(s) /\ Elements(s) = Elements(front) \cup {s[n]}
  BY <1>2, <1>4, <1>5, <1>6
<1>8. IsInjective(s) => IsInjective(front) /\ s[n] \notin Elements(front)
  BY <1>1, <1>2, <1>3, <1>4, <1>5, <1>6 DEF IsInjective
<1> QED
  BY <1>1, <1>2, <1>7, <1>8 DEF front, n

KnotsIn(d) == {S \in (SUBSET Ids(d)) \ {{}} : \A t \in S : Known(d, t) \cap S # {}}

LEMMA KnotsChecked == ASSUME NEW d PROVE KnotsIn(d) = Knots(Checked(d))
<1>1. TaskIds(Checked(d)) = Ids(d)
  BY DEF TaskIds, Checked, Ids, Elements
<1>2. \A t \in Ids(d) : Checked(d).deps[t] = Known(d, t)
  BY DEF Checked
<1> QED
  BY <1>1, <1>2 DEF KnotsIn, Knots

(* What the search has left for good: whole as to dependencies, and without *)
(* a knot.                                                                 *)
Finished(s) == s.visited \ Elements(s.path)

SearchStates(d) ==
    {s \in [visited : SUBSET Ids(d), path : Seq(Ids(d)), cycle : BOOLEAN] :
        /\ IsInjective(s.path) /\ Elements(s.path) \subseteq s.visited
        /\ \A i \in 1 .. Len(s.path) - 1 : s.path[i + 1] \in Known(d, s.path[i])
        /\ \A t \in Finished(s) : Known(d, t) \subseteq Finished(s)
        /\ \A S \in KnotsIn(d) : ~(S \subseteq Finished(s))
        /\ s.cycle => KnotsIn(d) # {}}

LEMMA SearchFacts ==
    ASSUME NEW d, NEW s \in SearchStates(d)
    PROVE  /\ s = [visited |-> s.visited, path |-> s.path, cycle |-> s.cycle]
           /\ s.visited \subseteq Ids(d) /\ s.path \in Seq(Ids(d)) /\ s.cycle \in BOOLEAN
           /\ IsInjective(s.path) /\ Elements(s.path) \subseteq s.visited
           /\ \A i \in 1 .. Len(s.path) - 1 : s.path[i + 1] \in Known(d, s.path[i])
           /\ \A t \in Finished(s) : Known(d, t) \subseteq Finished(s)
           /\ \A S \in KnotsIn(d) : ~(S \subseteq Finished(s))
           /\ s.cycle => KnotsIn(d) # {}
BY DEF SearchStates

LEMMA SearchStarts == ASSUME NEW d PROVE NewSearch \in SearchStates(d)
<1>1. Elements(<< >>) = {} /\ IsInjective(<< >>) /\ Len(<< >>) = 0
  BY DEF Elements, IsInjective
<1>2. NewSearch = [visited |-> {}, path |-> << >>, cycle |-> FALSE]
  BY DEF NewSearch
<1>3. Finished(NewSearch) = {}
  BY <1>2 DEF Finished
<1>4. \A S \in KnotsIn(d) : ~(S \subseteq {})
  BY DEF KnotsIn
<1>5. << >> \in Seq(Ids(d))
  OBVIOUS
<1> QED
  BY <1>1, <1>2, <1>3, <1>4, <1>5 DEF SearchStates

(* What the loop at the end of the path goes through.                       *)
LEMMA ScannedFacts ==
    ASSUME NEW d, IsDraft(d), NEW s \in SearchStates(d)
    PROVE  /\ Scanned(d, s) \in Seq(Ids(d))
           /\ s.path = << >> => Elements(Scanned(d, s)) = Ids(d)
           /\ s.path # << >> => Elements(Scanned(d, s)) = Known(d, s.path[Len(s.path)])
<1>1. s.path \in Seq(Ids(d))
  BY SearchFacts
<1>2. CASE s.path = << >>
  <2>1. Scanned(d, s) = d.tasks
    BY <1>2 DEF Scanned
  <2> QED
    BY <1>2, <2>1 DEF IsDraft, Ids
<1>3. CASE s.path # << >>
  <2>1. s.path[Len(s.path)] \in Ids(d)
    BY <1>1, <1>3
  <2>2. Scanned(d, s) = d.deps[s.path[Len(s.path)]]
    BY <1>3 DEF Scanned
  <2>3. Scanned(d, s) \in Seq(Ids(d))
    BY <2>1, <2>2 DEF IsDraft
  <2>4. Elements(Scanned(d, s)) \subseteq Ids(d)
    BY <2>3 DEF Elements
  <2> QED
    BY <1>3, <2>2, <2>3, <2>4 DEF Known
<1> QED
  BY <1>2, <1>3

LEMMA FirstIsThere ==
    ASSUME NEW places, places \subseteq Nat, places # {}
    PROVE  First(places) \in places /\ \A j \in places : First(places) <= j
<1>1. \E i \in places : \A j \in places : i <= j
  BY SmallestNumber
<1> QED
  BY <1>1 DEF First

(* A dependency back on the path closes a circle.                           *)
LEMMA BackEdge ==
    ASSUME NEW d, IsDraft(d), NEW s \in SearchStates(d), s.path # << >>,
           NEW t \in Elements(s.path), t \in Known(d, s.path[Len(s.path)])
    PROVE  KnotsIn(d) # {}
<1> DEFINE p == s.path
           n == Len(p)
<1>1. p \in Seq(Ids(d)) /\ \A i \in 1 .. n - 1 : p[i + 1] \in Known(d, p[i])
  BY SearchFacts
<1>2. n \in Nat /\ n > 0
  BY <1>1
<1>3. PICK i \in 1 .. n : p[i] = t
  BY DEF Elements
<1> DEFINE S == {p[j] : j \in i .. n}
<1>4. S \subseteq Ids(d) /\ S # {}
  BY <1>1, <1>2, <1>3
<1>5. ASSUME NEW j \in i .. n PROVE Known(d, p[j]) \cap S # {}
  <2>1. CASE j = n
    <3>1. t \in S
      BY <1>3
    <3> QED
      BY <2>1, <3>1
  <2>2. CASE j # n
    <3>1. j \in 1 .. n - 1 /\ j + 1 \in i .. n
      BY <1>2, <1>3, <2>2
    <3> QED
      BY <1>1, <3>1
  <2> QED
    BY <2>1, <2>2
<1>6. S \in KnotsIn(d)
  BY <1>4, <1>5 DEF KnotsIn
<1> QED
  BY <1>6

(* One round: TRUE is found, a task is gone to, or one is come back from.    *)
LEMMA SearchGoesOn ==
    ASSUME NEW d, IsDraft(d), NEW s \in SearchStates(d)
    PROVE  LET new == SearchStep(d, s)
           IN  /\ new \in SearchStates(d)
               /\ \/ new.cycle
                  \/ new = s /\ s.path = << >> /\ Open(d, s) = {}
                  \/ \E t \in Ids(d) \ s.visited : /\ new.visited = s.visited \cup {t}
                                                   /\ Len(new.path) = Len(s.path) + 1
                  \/ new.visited = s.visited /\ Len(new.path) = Len(s.path) - 1
<1> DEFINE new == SearchStep(d, s)
           T == Ids(d)
           path == s.path
           list == Scanned(d, s)
           open == Open(d, s)
           last == path[Len(path)]
<1>1. /\ s = [visited |-> s.visited, path |-> path, cycle |-> s.cycle]
      /\ s.visited \subseteq T /\ path \in Seq(T) /\ s.cycle \in BOOLEAN
      /\ IsInjective(path) /\ Elements(path) \subseteq s.visited
      /\ \A i \in 1 .. Len(path) - 1 : path[i + 1] \in Known(d, path[i])
      /\ \A t \in Finished(s) : Known(d, t) \subseteq Finished(s)
      /\ \A S \in KnotsIn(d) : ~(S \subseteq Finished(s))
      /\ s.cycle => KnotsIn(d) # {}
  BY SearchFacts
<1>2. /\ list \in Seq(T)
      /\ path = << >> => Elements(list) = T
      /\ path # << >> => Elements(list) = Known(d, last)
  BY ScannedFacts
<1>3. open = {i \in 1 .. Len(list) : /\ list[i] \in T
                                     /\ list[i] \in s.visited => list[i] \in Elements(path)}
  <2>1. \A t : OnPath(s, t) <=> t \in Elements(path)
    BY DEF OnPath
  <2>2. open = {i \in 1 .. Len(list) : /\ list[i] \in T
                                       /\ list[i] \in s.visited => OnPath(s, list[i])}
    BY DEF Open
  <2> HIDE DEF open, list, path
  <2> QED
    BY <2>1, <2>2
<1>4. open = {} => \A t \in Elements(list) : t \in Finished(s)
  BY <1>2, <1>3 DEF Elements, Finished
<1>5. CASE s.cycle
  BY <1>5 DEF SearchStep
<1>6. CASE ~s.cycle /\ open # {}
  <2> DEFINE t == list[First(open)]
  <2>1. First(open) \in open
    <3>1. open \subseteq Nat
      BY <1>3
    <3> HIDE DEF open
    <3> QED
      BY <1>6, <3>1, FirstIsThere
  <2>2. /\ t \in T /\ t \in Elements(list)
        /\ t \in s.visited => t \in Elements(path)
    BY <1>3, <2>1 DEF Elements
  <2>3. path # << >> => t \in Known(d, last)
    BY <1>2, <2>2
  <2>4. new = IF t \in Elements(path) THEN [s EXCEPT !.cycle = TRUE]
              ELSE [s EXCEPT !.visited = @ \cup {t}, !.path = Append(@, t)]
    BY <1>6 DEF SearchStep, OnPath
  <2> HIDE DEF t, new
  <2>5. CASE t \in Elements(path)
    <3>1. path # << >>
      BY <2>5 DEF Elements
    <3>2. KnotsIn(d) # {}
      BY <2>3, <2>5, <3>1, BackEdge
    <3>3. new = [visited |-> s.visited, path |-> path, cycle |-> TRUE]
      BY <1>1, <2>4, <2>5
    <3>4. Finished(new) = Finished(s)
      BY <3>3 DEF Finished
    <3>5. new.visited = s.visited /\ new.path = path /\ new.cycle = TRUE
      BY <3>3
    <3>6. new \in [visited : SUBSET T, path : Seq(T), cycle : BOOLEAN]
      BY <1>1, <3>3
    <3>7. new \in SearchStates(d)
      BY <1>1, <3>2, <3>4, <3>5, <3>6 DEF SearchStates
    <3> QED
      BY <3>5, <3>7 DEF new
  <2>6. CASE t \notin Elements(path)
    <3> DEFINE longer == Append(path, t)
    <3>1. new = [visited |-> s.visited \cup {t}, path |-> longer, cycle |-> FALSE]
      BY <1>1, <1>6, <2>4, <2>6
    <3>2. /\ longer \in Seq(T) /\ Elements(longer) = Elements(path) \cup {t}
          /\ IsInjective(longer)
      BY <1>1, <2>2, <2>6, ElementsOfAppend
    <3>3. /\ Len(path) \in Nat /\ Len(longer) = Len(path) + 1 /\ longer[Len(path) + 1] = t
          /\ \A i \in 1 .. Len(path) : longer[i] = path[i]
      BY <1>1, <2>2
    <3> HIDE DEF longer
    <3>4. new.visited = s.visited \cup {t} /\ new.path = longer /\ new.cycle = FALSE
      BY <3>1
    <3>5. t \notin s.visited
      BY <2>2, <2>6
    <3>6. Finished(new) = Finished(s)
      BY <3>2, <3>4, <3>5 DEF Finished
    <3>7. ASSUME NEW i \in 1 .. Len(longer) - 1
          PROVE  longer[i + 1] \in Known(d, longer[i])
      <4>1. i \in 1 .. Len(path) /\ longer[i] = path[i]
        BY <3>3
      <4>2. CASE i \in 1 .. Len(path) - 1
        <5>1. longer[i + 1] = path[i + 1]
          BY <3>3, <4>2
        <5> QED
          BY <1>1, <4>1, <4>2, <5>1
      <4>3. CASE i = Len(path)
        <5>1. path # << >>
          BY <4>1, <4>3
        <5> QED
          BY <2>3, <3>3, <4>1, <4>3, <5>1
      <4> QED
        BY <3>3, <4>1, <4>2, <4>3
    <3>8. new \in [visited : SUBSET T, path : Seq(T), cycle : BOOLEAN]
      BY <1>1, <2>2, <3>1, <3>2
    <3>9. Elements(longer) \subseteq s.visited \cup {t}
      BY <1>1, <3>2
    <3>10. new \in SearchStates(d)
      BY <1>1, <3>2, <3>4, <3>6, <3>7, <3>8, <3>9 DEF SearchStates
    <3> QED
      BY <2>2, <3>3, <3>4, <3>5, <3>10 DEF new
  <2> QED
    BY <2>5, <2>6
<1>7. CASE ~s.cycle /\ open = {} /\ path = << >>
  <2>1. new = s
    BY <1>7 DEF SearchStep
  <2> QED
    BY <1>7, <2>1
<1>8. CASE ~s.cycle /\ open = {} /\ path # << >>
  <2> DEFINE front == SubSeq(path, 1, Len(path) - 1)
             F == Finished(s)
  <2>1. new = [s EXCEPT !.path = front]
    BY <1>8 DEF SearchStep
  <2>2. /\ last \in T /\ front \in Seq(T) /\ Len(front) = Len(path) - 1
        /\ \A i \in 1 .. Len(path) - 1 : front[i] = path[i]
        /\ last \in Elements(path) /\ Elements(path) = Elements(front) \cup {last}
        /\ IsInjective(front) /\ last \notin Elements(front)
    BY <1>1, <1>8, AllButLast
  <2> HIDE DEF front, last, new
  <2>3. new = [visited |-> s.visited, path |-> front, cycle |-> FALSE]
    BY <1>1, <1>8, <2>1
  <2>4. new.visited = s.visited /\ new.path = front /\ new.cycle = FALSE
    BY <2>3
  <2>5. Finished(new) = F \cup {last} /\ last \notin F
    BY <1>1, <2>2, <2>4 DEF Finished
  <2>6. Known(d, last) \subseteq F
    BY <1>2, <1>4, <1>8 DEF last
  <2>7. \A t \in Finished(new) : Known(d, t) \subseteq Finished(new)
    BY <1>1, <2>5, <2>6
  <2>8. ASSUME NEW S \in KnotsIn(d), S \subseteq Finished(new) PROVE FALSE
    <3>1. S \subseteq T /\ \A t \in S : Known(d, t) \cap S # {}
      BY DEF KnotsIn
    <3> DEFINE R == S \ {last}
    <3>2. R \subseteq F /\ R \subseteq T
      BY <2>5, <2>8, <3>1
    <3>3. \A t \in R : Known(d, t) \cap R # {}
      BY <1>1, <2>5, <3>1, <3>2
    <3>4. R # {}
      <4>1. CASE last \in S
        BY <2>5, <2>6, <3>1, <4>1
      <4>2. CASE last \notin S
        BY <4>2 DEF KnotsIn
      <4> QED
        BY <4>1, <4>2
    <3>5. R \in KnotsIn(d)
      BY <3>2, <3>3, <3>4 DEF KnotsIn
    <3> QED
      BY <1>1, <3>2, <3>5
  <2>9. \A i \in 1 .. Len(front) - 1 : front[i + 1] \in Known(d, front[i])
    <3> SUFFICES ASSUME NEW i \in 1 .. Len(front) - 1
                 PROVE  front[i + 1] \in Known(d, front[i])
      OBVIOUS
    <3>1. Len(path) \in Nat
      BY <1>1
    <3>2. i \in 1 .. Len(path) - 1 /\ i + 1 \in 1 .. Len(path) - 1
      BY <2>2, <3>1
    <3> QED
      BY <1>1, <2>2, <3>2
  <2>10. new \in [visited : SUBSET T, path : Seq(T), cycle : BOOLEAN]
    BY <1>1, <2>2, <2>3
  <2>11. Elements(front) \subseteq s.visited
    BY <1>1, <2>2
  <2>12. new \in SearchStates(d)
    BY <1>1, <2>2, <2>4, <2>7, <2>8, <2>9, <2>10, <2>11 DEF SearchStates
  <2> QED
    BY <2>2, <2>4, <2>12 DEF new
<1> QED
  BY <1>1, <1>5, <1>6, <1>7, <1>8

(* After two rounds for each task, a circle is found or all is finished.     *)
LEMMA SearchEnds ==
    ASSUME NEW d, IsDraft(d)
    PROVE  LET s == SearchRounds(d)[2 * Len(d.tasks)]
           IN  s \in SearchStates(d) /\ (s.cycle \/ Finished(s) = Ids(d))
<1> DEFINE N == 2 * Len(d.tasks)
           T == Ids(d)
           S == SearchStates(d)
           D == [n \in 1 .. N |-> [s \in S |-> SearchStep(d, s)]]
           Is(f) == f = [n \in 0 .. N |-> IF n = 0 THEN NewSearch ELSE SearchStep(d, f[n - 1])]
           round == CHOOSE f : Is(f)
<1>1. Len(d.tasks) \in Nat /\ N \in Nat /\ NewSearch \in S
  <2>1. Len(d.tasks) \in Nat
    BY DEF IsDraft
  <2> QED
    BY <2>1, SearchStarts
<1>2. D \in [1 .. N -> [S -> S]]
  BY SearchGoesOn
<1>3. SearchRounds(d) = round
  BY DEF SearchRounds
<1>4. N = 2 * Len(d.tasks)
  OBVIOUS
<1> HIDE DEF N
<1>5. PICK f : Iterates(f, N, S, NewSearch, D)
  <2> HIDE DEF D, S, round
  <2> QED
    BY <1>1, <1>2, Iteration
<1>6. Is(f)
  <2>1. \A n \in 1 .. N : n - 1 \in 0 .. N
    BY <1>1
  <2>2. \A n \in 1 .. N : f[n] = SearchStep(d, f[n - 1])
    BY <1>5, <2>1 DEF Iterates
  <2> QED
    BY <1>1, <1>5, <2>2 DEF Iterates
<1> HIDE DEF Is
<1>7. Is(round)
  BY <1>6
<1> HIDE DEF round, D, S, T
<1>8. /\ round[0] = NewSearch
      /\ \A n \in 1 .. N : round[n] = SearchStep(d, round[n - 1])
  BY <1>1, <1>7 DEF Is
<1>9. IsFiniteSet(T) /\ Cardinality(T) = Len(d.tasks)
  BY LengthCounts DEF IsDraft, Ids, T
<1> DEFINE Count(s) == 2 * Cardinality(s.visited) - Len(s.path)
           Ended(s) == s.path = << >> /\ Open(d, s) = {}
           Q == {n \in 0 .. N : /\ round[n] \in S
                                /\ \/ round[n].cycle
                                   \/ Ended(round[n])
                                   \/ Count(round[n]) = n}
<1>10. \A s \in S : /\ s.visited \subseteq T /\ IsFiniteSet(s.visited)
                    /\ Cardinality(s.visited) \in Nat /\ Len(s.path) \in Nat
                    /\ s.path \in Seq(T)
  <2> SUFFICES ASSUME NEW s \in S
               PROVE  /\ s.visited \subseteq T /\ IsFiniteSet(s.visited)
                      /\ Cardinality(s.visited) \in Nat /\ Len(s.path) \in Nat
                      /\ s.path \in Seq(T)
    OBVIOUS
  <2>1. s.visited \subseteq T /\ s.path \in Seq(T)
    BY SearchFacts DEF S, T
  <2>2. IsFiniteSet(s.visited)
    BY <1>9, <2>1, FS_Subset
  <2> QED
    BY <2>1, <2>2, FS_CardinalityType
<1>11. 0 \in Q
  <2>1. NewSearch.visited = {} /\ NewSearch.path = << >>
    BY DEF NewSearch
  <2>2. Cardinality({}) = 0 /\ Len(<< >>) = 0
    BY FS_EmptySet
  <2>3. Count(NewSearch) = 0
    BY <2>1, <2>2
  <2> QED
    BY <1>1, <1>8, <2>3
<1>12. ASSUME NEW n \in 1 .. N, n - 1 \in Q PROVE n \in Q
  <2> DEFINE s == round[n - 1]
             new == round[n]
  <2>1. s \in S /\ new = SearchStep(d, s) /\ (s.cycle \/ Ended(s) \/ Count(s) = n - 1)
    BY <1>8, <1>12
  <2> HIDE DEF s, new
  <2>2. /\ new \in S
        /\ \/ new.cycle
           \/ new = s /\ Ended(s)
           \/ \E t \in T \ s.visited : /\ new.visited = s.visited \cup {t}
                                       /\ Len(new.path) = Len(s.path) + 1
           \/ new.visited = s.visited /\ Len(new.path) = Len(s.path) - 1
    BY <2>1, SearchGoesOn DEF S, T
  <2>3. s.cycle \/ Ended(s) => new = s
    BY <2>1 DEF SearchStep
  <2>4. CASE new.cycle \/ new = s
    <3>1. new = s /\ Count(s) = n - 1 => new.cycle \/ Ended(s)
      <4> SUFFICES ASSUME ~new.cycle, ~Ended(s), new = s PROVE Count(s) # n - 1
        OBVIOUS
      <4>1. \/ \E t \in T \ s.visited : s.visited = s.visited \cup {t}
            \/ Len(s.path) = Len(s.path) - 1
        BY <2>2
      <4>2. Len(s.path) \in Nat
        BY <1>10, <2>1
      <4> QED
        BY <4>1, <4>2
    <3> HIDE DEF Ended
    <3>2. new.cycle \/ Ended(new)
      BY <2>1, <2>4, <3>1
    <3> QED
      BY <2>2, <3>2 DEF new
  <2>5. CASE ~(new.cycle \/ new = s)
    <3>1. Count(s) = n - 1
      BY <2>1, <2>3, <2>5
    <3>2. /\ IsFiniteSet(s.visited) /\ Cardinality(s.visited) \in Nat /\ Len(s.path) \in Nat
      BY <1>10, <2>1
    <3>3. Count(new) = n
      <4>1. CASE \E t \in T \ s.visited : /\ new.visited = s.visited \cup {t}
                                          /\ Len(new.path) = Len(s.path) + 1
        <5>1. PICK t \in T \ s.visited : /\ new.visited = s.visited \cup {t}
                                         /\ Len(new.path) = Len(s.path) + 1
          BY <4>1
        <5>2. Cardinality(new.visited) = Cardinality(s.visited) + 1
          BY <3>2, <5>1, FS_AddElement
        <5> QED
          BY <3>1, <3>2, <5>1, <5>2
      <4>2. CASE new.visited = s.visited /\ Len(new.path) = Len(s.path) - 1
        BY <3>1, <3>2, <4>2
      <4> QED
        BY <2>2, <2>5, <4>1, <4>2
    <3> HIDE DEF Count
    <3> QED
      BY <2>2, <3>3 DEF new
  <2> QED
    BY <2>4, <2>5
<1>13. N \in Q
  <2> HIDE DEF Q
  <2>1. \A n \in 0 .. N : n \in Q
    BY <1>1, <1>11, <1>12, UpTo
  <2> QED
    BY <1>1, <2>1
<1> DEFINE s == round[N]
<1>14. s \in S /\ (s.cycle \/ Ended(s) \/ Count(s) = N)
  BY <1>13
<1> HIDE DEF s
<1>15. s.path = << >> /\ s.visited = T => Finished(s) = T
  <2>1. Elements(<< >>) = {}
    BY DEF Elements
  <2> QED
    BY <2>1 DEF Finished
<1>16. CASE Ended(s)
  <2>1. Elements(Scanned(d, s)) = T /\ Scanned(d, s) \in Seq(T)
    BY <1>14, <1>16, ScannedFacts DEF S, T
  <2>2. \A i \in 1 .. Len(Scanned(d, s)) : Scanned(d, s)[i] \in T => Scanned(d, s)[i] \in s.visited
    BY <1>16 DEF Open, T
  <2>3. T \subseteq s.visited
    BY <2>1, <2>2 DEF Elements
  <2>4. s.visited = T
    BY <1>10, <1>14, <2>3
  <2> QED
    BY <1>3, <1>4, <1>14, <1>15, <1>16, <2>4 DEF s, S, T
<1>17. CASE Count(s) = N
  <2> DEFINE v == Cardinality(s.visited)
             p == Len(s.path)
             t == Len(d.tasks)
  <2>1. /\ v \in Nat /\ p \in Nat /\ s.visited \subseteq T /\ s.path \in Seq(T)
    BY <1>10, <1>14
  <2>2. v <= t /\ (v = t => s.visited = T)
    BY <1>9, <2>1, FS_Subset
  <2>3. 2 * v - p = 2 * t
    BY <1>4, <1>17
  <2>4. t \in Nat
    BY <1>1
  <2> HIDE DEF v, t, p
  <2>5. v = t /\ p = 0
    BY <2>1, <2>2, <2>3, <2>4
  <2>6. s.path = << >>
    BY <2>1, <2>5 DEF p
  <2> QED
    BY <1>3, <1>4, <1>14, <1>15, <2>2, <2>5, <2>6 DEF s, S, T, t
<1> QED
  BY <1>3, <1>4, <1>14, <1>16, <1>17 DEF s, S, T

(* The search finds a cycle exactly when tasks wait for each other in a      *)
(* circle (task_engine.py:403).                                            *)
THEOREM SearchIsExact ==
    ASSUME NEW d, IsDraft(d)
    PROVE  CycleDetected(d) <=> Knots(Checked(d)) # {}
<1> DEFINE s == SearchRounds(d)[2 * Len(d.tasks)]
<1>1. s \in SearchStates(d) /\ (s.cycle \/ Finished(s) = Ids(d))
  BY SearchEnds
<1>2. CycleDetected(d) <=> s.cycle
  BY DEF CycleDetected
<1> HIDE DEF s
<1>3. (s.cycle => KnotsIn(d) # {}) /\ \A S \in KnotsIn(d) : ~(S \subseteq Finished(s))
  BY <1>1, SearchFacts
<1>4. \A S \in KnotsIn(d) : S \subseteq Ids(d)
  BY DEF KnotsIn
<1>5. s.cycle <=> KnotsIn(d) # {}
  BY <1>1, <1>3, <1>4
<1> QED
  BY <1>2, <1>5, KnotsChecked

-----------------------------------------------------------------------------
(* The rules' list of tasks *)

Phases == {"Foundation", "Core Business", "Engineering", "Advanced"}

RuleId == [phase : Phases, number : Nat]

IdsBefore(list, n) == {list[j].id : j \in 1 .. n}

(* Ids are numbered in their phase, so none comes twice, and a task needs    *)
(* only earlier ones.                                                      *)
RuleList(list) ==
    /\ list \in Seq([id : RuleId, needs : Seq(RuleId)])
    /\ \A i \in 1 .. Len(list) :
          list[i].id.number <= Cardinality(InPhase(list, list[i].id.phase))
    /\ \A i, j \in 1 .. Len(list) : list[i].id = list[j].id => i = j
    /\ \A i \in 1 .. Len(list) : list[i].needs \in Seq(IdsBefore(list, i - 1))

LEMMA PlacesAreFinite ==
    ASSUME NEW list, RuleList(list), NEW phase
    PROVE  IsFiniteSet(InPhase(list, phase)) /\ Cardinality(InPhase(list, phase)) \in Nat
<1>1. Len(list) \in Nat
  BY DEF RuleList
<1>2. IsFiniteSet(1 .. Len(list))
  BY <1>1, FS_Interval
<1>3. InPhase(list, phase) \in SUBSET (1 .. Len(list))
  BY DEF InPhase
<1>4. IsFiniteSet(InPhase(list, phase))
  BY <1>2, <1>3, FS_Subset
<1> QED
  BY <1>4, FS_CardinalityType

LEMMA AddKeeps ==
    ASSUME NEW list, RuleList(list), NEW phase \in Phases,
           NEW needs \in Seq(IdsBefore(list, Len(list)))
    PROVE  RuleList(Add(list, phase, needs)) /\ Add(list, phase, needs) # << >>
<1> DEFINE n == Len(list)
           id == NextTaskId(list, phase)
           task == [id |-> id, needs |-> needs]
           new == Add(list, phase, needs)
           Card(l, ph) == Cardinality(InPhase(l, ph))
<1>1. /\ list \in Seq([id : RuleId, needs : Seq(RuleId)]) /\ n \in Nat
      /\ \A i \in 1 .. n : list[i].id \in RuleId /\ list[i].needs \in Seq(RuleId)
      /\ \A i \in 1 .. n : list[i].id.number <= Card(list, list[i].id.phase)
      /\ \A i, j \in 1 .. n : list[i].id = list[j].id => i = j
      /\ \A i \in 1 .. n : list[i].needs \in Seq(IdsBefore(list, i - 1))
  <2>1. /\ list \in Seq([id : RuleId, needs : Seq(RuleId)])
        /\ \A i \in 1 .. n : list[i].id.number <= Card(list, list[i].id.phase)
        /\ \A i, j \in 1 .. n : list[i].id = list[j].id => i = j
        /\ \A i \in 1 .. n : list[i].needs \in Seq(IdsBefore(list, i - 1))
    BY DEF RuleList
  <2>2. n \in Nat /\ \A i \in 1 .. n : list[i] \in [id : RuleId, needs : Seq(RuleId)]
    <3> DEFINE R == [id : RuleId, needs : Seq(RuleId)]
    <3>1. list \in Seq(R)
      BY <2>1
    <3> HIDE DEF R
    <3>2. n \in Nat /\ \A i \in 1 .. n : list[i] \in R
      BY <3>1
    <3> QED
      BY <3>2 DEF R
  <2> QED
    BY <2>1, <2>2
<1>2. \A ph : IsFiniteSet(InPhase(list, ph)) /\ Card(list, ph) \in Nat
  BY PlacesAreFinite
<1>3. /\ id \in RuleId /\ id = [phase |-> phase, number |-> Card(list, phase) + 1]
      /\ id.phase = phase /\ id.number = Card(list, phase) + 1
  BY <1>2 DEF NextTaskId, RuleId
<1>4. needs \in Seq(RuleId)
  <2>1. IdsBefore(list, n) \subseteq RuleId
    BY <1>1 DEF IdsBefore
  <2> QED
    BY <2>1
<1>5. task \in [id : RuleId, needs : Seq(RuleId)] /\ task.id = id /\ task.needs = needs
  BY <1>3, <1>4
<1> HIDE DEF id, task
<1>6. new = Append(list, task)
  BY DEF Add, task, id
<1>7. /\ new \in Seq([id : RuleId, needs : Seq(RuleId)]) /\ Len(new) = n + 1
      /\ new[n + 1] = task /\ \A i \in 1 .. n : new[i] = list[i]
  BY <1>1, <1>5, <1>6
<1> HIDE DEF new, n
<1>8. \A i \in 1 .. n + 1 : i \in 1 .. n \/ i = n + 1
  BY <1>1
<1>9. ASSUME NEW ph PROVE InPhase(new, ph) = IF ph = phase THEN InPhase(list, ph) \cup {n + 1}
                                             ELSE InPhase(list, ph)
  <2>1. InPhase(list, ph) = {i \in 1 .. n : list[i].id.phase = ph}
    BY DEF InPhase, n
  <2>2. InPhase(new, ph) = {i \in 1 .. n + 1 : new[i].id.phase = ph}
    BY <1>7 DEF InPhase
  <2>3. \A i \in 1 .. n + 1 : new[i].id.phase = IF i = n + 1 THEN phase ELSE list[i].id.phase
    BY <1>3, <1>5, <1>7, <1>8
  <2>4. 1 .. n + 1 = (1 .. n) \cup {n + 1} /\ n + 1 \notin 1 .. n
    BY <1>1
  <2> QED
    BY <2>1, <2>2, <2>3, <2>4
<1>10. ASSUME NEW ph PROVE Card(new, ph) = IF ph = phase THEN Card(list, ph) + 1
                                           ELSE Card(list, ph)
  <2>1. n + 1 \notin InPhase(list, ph)
    BY <1>1 DEF InPhase, n
  <2>2. Cardinality(InPhase(list, ph) \cup {n + 1}) = Card(list, ph) + 1
    BY <1>2, <2>1, FS_AddElement
  <2> QED
    BY <1>9, <2>2
<1> HIDE DEF Card
<1>11. ASSUME NEW i \in 1 .. n + 1 PROVE new[i].id.number <= Card(new, new[i].id.phase)
  <2>1. CASE i \in 1 .. n
    <3>1. /\ new[i] = list[i] /\ list[i].id.number <= Card(list, list[i].id.phase)
          /\ list[i].id.number \in Nat
      BY <1>1, <1>7, <2>1 DEF RuleId
    <3>2. Card(list, list[i].id.phase) \in Nat
      BY <1>2
    <3>3. Card(new, list[i].id.phase) >= Card(list, list[i].id.phase)
      BY <1>10, <3>2
    <3> QED
      BY <1>10, <3>1, <3>2, <3>3
  <2>2. CASE i = n + 1
    BY <1>2, <1>3, <1>5, <1>7, <1>10, <2>2
  <2> QED
    BY <1>8, <2>1, <2>2
<1>12. \A i \in 1 .. n : list[i].id # id
  <2> SUFFICES ASSUME NEW i \in 1 .. n, list[i].id = id PROVE FALSE
    OBVIOUS
  <2>1. Card(list, phase) + 1 <= Card(list, phase)
    BY <1>1, <1>3
  <2> QED
    BY <1>2, <2>1
<1>13. \A i, j \in 1 .. n + 1 : new[i].id = new[j].id => i = j
  BY <1>1, <1>5, <1>7, <1>8, <1>12
<1>14. ASSUME NEW i \in 1 .. n + 1 PROVE new[i].needs \in Seq(IdsBefore(new, i - 1))
  <2>1. \A j \in 1 .. i - 1 : new[j] = list[j]
    BY <1>1, <1>7
  <2>2. IdsBefore(new, i - 1) = IdsBefore(list, i - 1)
    BY <2>1 DEF IdsBefore
  <2>3. CASE i \in 1 .. n
    BY <1>1, <1>7, <2>2, <2>3
  <2>4. CASE i = n + 1
    <3>1. i - 1 = n
      BY <1>1, <2>4
    <3>2. new[i].needs = needs
      BY <1>5, <1>7, <2>4
    <3> QED
      BY <2>2, <3>1, <3>2 DEF n
  <2> QED
    BY <1>8, <2>3, <2>4
<1>15. new # << >>
  BY <1>1, <1>7
<1> QED
  BY <1>7, <1>11, <1>13, <1>14, <1>15 DEF RuleList, Card, new

LEMMA LastIsThere ==
    ASSUME NEW list, RuleList(list), NEW places, places \subseteq 1 .. Len(list)
    PROVE  LastOf(list, places) \in Seq(IdsBefore(list, Len(list)))
<1>1. CASE places = {}
  BY <1>1 DEF LastOf
<1>2. CASE places # {}
  <2> DEFINE n == Len(list)
             back == {n - i : i \in places}
             last == CHOOSE i \in places : \A j \in places : j <= i
  <2>1. n \in Nat
    BY DEF RuleList
  <2>2. PICK b \in back : \A c \in back : b <= c
    <3>1. back \subseteq Nat /\ back # {}
      <4>1. \A i \in places : n - i \in Nat
        BY <2>1
      <4> QED
        BY <1>2, <4>1
    <3> HIDE DEF back
    <3> QED
      BY <3>1, SmallestNumber
  <2>3. \E i \in places : \A j \in places : j <= i
    <3>1. PICK i \in places : b = n - i
      BY <2>2
    <3>2. \A j \in places : n - i <= n - j
      BY <2>2, <3>1
    <3> QED
      BY <2>1, <3>2
  <2>4. last \in places
    BY <2>3
  <2>5. LastOf(list, places) = <<list[last].id>>
    BY <1>2 DEF LastOf
  <2> HIDE DEF last
  <2>6. list[last].id \in IdsBefore(list, n)
    BY <2>4 DEF IdsBefore
  <2> QED
    BY <2>5, <2>6
<1> QED
  BY <1>1, <1>2

LEMMA ChainKeeps ==
    ASSUME NEW list, RuleList(list), NEW phase \in Phases
    PROVE  RuleList(Chained(list, phase)) /\ Chained(list, phase) # << >>
BY AddKeeps, LastIsThere DEF Chained

LEMMA FollowKeeps ==
    ASSUME NEW list, RuleList(list), NEW phase \in Phases, NEW earlier
    PROVE  LET new == Add(list, phase, LastOf(list, InPhase(list, earlier)))
           IN  RuleList(new) /\ new # << >>
<1>1. InPhase(list, earlier) \subseteq 1 .. Len(list)
  BY DEF InPhase
<1> QED
  BY <1>1, AddKeeps, LastIsThere

LEMMA RuleTasksInOrder ==
    ASSUME NEW stack
    PROVE  RuleList(RuleTasks(stack)) /\ RuleTasks(stack) # << >>
<1>1. /\ "Foundation" \in Phases /\ "Core Business" \in Phases
      /\ "Engineering" \in Phases /\ "Advanced" \in Phases
  BY DEF Phases
<1>2. RuleList(<< >>) /\ << >> \in Seq(IdsBefore(<< >>, Len(<< >>)))
  BY DEF RuleList
<1>3. RuleList(FoundationTasks)
  BY <1>1, <1>2, AddKeeps, ChainKeeps DEF FoundationTasks
<1>4. ASSUME NEW list, RuleList(list) PROVE RuleList(CoreBusinessTasks(list, stack))
  BY <1>1, <1>4, FollowKeeps, ChainKeeps DEF CoreBusinessTasks
<1>5. ASSUME NEW list, RuleList(list) PROVE RuleList(EngineeringTasks(list, stack))
  BY <1>1, <1>5, FollowKeeps, ChainKeeps DEF EngineeringTasks
<1>6. ASSUME NEW list, RuleList(list)
      PROVE  RuleList(AdvancedTasks(list)) /\ AdvancedTasks(list) # << >>
  BY <1>1, <1>6, FollowKeeps, ChainKeeps DEF AdvancedTasks
<1> QED
  BY <1>3, <1>4, <1>5, <1>6 DEF RuleTasks

-----------------------------------------------------------------------------
(* The scheduler, on any list of tasks with any dependencies, cycles, self- *)
(* dependencies and unknown ids included.                                  *)

(* Every id has a place in a list, and one that is listed has its own.      *)
LEMMA PositionFacts ==
    ASSUME NEW X, NEW list \in Seq(X)
    PROVE  /\ \A t : Position(list, t) \in Nat
           /\ \A t \in {list[i] : i \in 1 .. Len(list)} :
                Position(list, t) \in 1 .. Len(list)
                /\ list[Position(list, t)] = t
<1>1. Len(list) \in Nat
  OBVIOUS
<1>2. ASSUME NEW t, NEW i \in 1 .. Len(list), list[i] = t
      PROVE  Position(list, t) \in 1 .. Len(list) /\ list[Position(list, t)] = t
  BY <1>2 DEF Position
<1>3. ASSUME NEW t, ~\E i \in 1 .. Len(list) : list[i] = t
      PROVE  Position(list, t) = Len(list) + 1
  BY <1>3 DEF Position
<1>4. \A t : Position(list, t) \in Nat
  <2> SUFFICES ASSUME NEW t PROVE Position(list, t) \in Nat
    OBVIOUS
  <2>1. CASE \E i \in 1 .. Len(list) : list[i] = t
    BY <1>1, <1>2, <2>1
  <2>2. CASE ~\E i \in 1 .. Len(list) : list[i] = t
    BY <1>1, <1>3, <2>2
  <2> QED
    BY <2>1, <2>2
<1> QED
  BY <1>2, <1>4

(* A set of ids, not empty, has one that no other of them comes before.     *)
LEMMA FirstByPosition ==
    ASSUME NEW X, NEW list \in Seq(X), NEW S, S # {}
    PROVE  \E t \in S : \A u \in S : Position(list, t) <= Position(list, u)
<1> DEFINE places == {Position(list, t) : t \in S}
<1>1. places \subseteq Nat /\ places # {}
  BY PositionFacts
<1>2. PICK i \in places : \A j \in places : i <= j
  BY <1>1, SmallestNumber
<1> QED
  BY <1>2

(* The tasks that a sweep blocks if those in B are blocked.                 *)
BlockedGiven(g, st, B) ==
    {t \in TaskIds(g) :
        /\ st[t] \in Idle
        /\ ~IsReady(g, st, t)
        /\ \/ IsBlockedByDependency(g, st, t)
           \/ \E d \in g.deps[t] \cap B :
                 Position(g.tasks, d) < Position(g.tasks, t)}

LEMMA SweepBlocksSomething ==
    ASSUME NEW g, NEW st
    PROVE  \E B \in SUBSET TaskIds(g) : SweepBlocks(g, st, B)
<1> DEFINE F(B) == BlockedGiven(g, st, B)
           Closed == {B \in SUBSET TaskIds(g) : F(B) \subseteq B}
           L == {t \in TaskIds(g) : \A B \in Closed : t \in B}
<1>1. \A B, C : B \subseteq C => F(B) \subseteq F(C)
  BY DEF BlockedGiven
<1>2. \A B : F(B) \subseteq TaskIds(g)
  BY DEF BlockedGiven
<1>3. L \in SUBSET TaskIds(g)
  OBVIOUS
<1>4. \A B : SweepBlocks(g, st, B) <=> B = F(B)
  BY DEF SweepBlocks, BlockedGiven
<1> HIDE DEF F
<1>5. \A B \in Closed : L \subseteq B
  OBVIOUS
<1>6. F(L) \subseteq L
  <2>1. \A B \in Closed : F(L) \subseteq B
    BY <1>1, <1>5
  <2> QED
    BY <1>2, <2>1
<1>7. F(L) \in Closed
  <2>1. F(F(L)) \subseteq F(L)
    <3> HIDE DEF L
    <3> QED
      BY <1>1, <1>6
  <2> QED
    BY <1>2, <2>1
<1>8. L = F(L)
  BY <1>5, <1>6, <1>7
<1> QED
  BY <1>3, <1>4, <1>8

(* The tasks that one sweep of update_states blocks are determined by the   *)
(* graph and the statuses it starts from (scheduler.py:31): a task sees the *)
(* BLOCKED of those before it in the list only, so no circle of tasks can   *)
(* hold each other blocked, and there is one outcome, and there always is.  *)
THEOREM SweepIsDetermined ==
    ASSUME NEW X, NEW g, g.tasks \in Seq(X), NEW st
    PROVE  \E new : /\ UpdateStates(g, st, new)
                    /\ \A other : UpdateStates(g, st, other) => other = new
<1>1. PICK B \in SUBSET TaskIds(g) : SweepBlocks(g, st, B)
  BY SweepBlocksSomething
<1>2. ASSUME NEW C \in SUBSET TaskIds(g), SweepBlocks(g, st, C)
      PROVE  C = B
  <2> DEFINE D == (B \ C) \cup (C \ B)
  <2>1. SUFFICES ASSUME D # {} PROVE FALSE
    OBVIOUS
  <2>2. PICK t \in D : \A u \in D : Position(g.tasks, t) <= Position(g.tasks, u)
    BY <2>1, FirstByPosition
  <2>3. \A d : Position(g.tasks, d) \in Nat
    BY PositionFacts
  <2>4. \A d : Position(g.tasks, d) < Position(g.tasks, t) => (d \in B <=> d \in C)
    BY <2>2, <2>3
  <2>5. t \in B <=> t \in C
    BY <1>1, <1>2, <2>4 DEF SweepBlocks
  <2> QED
    BY <2>5
<1>3. UpdateStates(g, st, Swept(g, st, B))
  BY <1>1 DEF UpdateStates
<1>4. \A other : UpdateStates(g, st, other) => other = Swept(g, st, B)
  BY <1>2 DEF UpdateStates
<1> QED
  BY <1>3, <1>4

(* The task that the serial body dispatches, wave[0] of sorted(ready), is    *)
(* determined (scheduler.py:50): whatever is ready has one head, whether    *)
(* the validation's order names all tasks, some or none.                   *)
THEOREM HeadIsDetermined ==
    ASSUME NEW X, NEW g, g.tasks \in Seq(X), g.topo \in Seq(X),
           NEW S \in SUBSET TaskIds(g), S # {}
    PROVE  \E t \in S : \A u : IsFirst(g, S, u) <=> u = t
<1> DEFINE order == DispatchOrder(g)
           P(t) == Position(order, t)
           Q(t) == Position(g.tasks, t)
<1>1. order \in Seq(X)
  BY DEF DispatchOrder
<1>2. \A t : P(t) \in Nat /\ Q(t) \in Nat
  BY <1>1, PositionFacts
<1>3. \A t, u \in TaskIds(g) : Q(t) = Q(u) => t = u
  BY PositionFacts DEF TaskIds
<1>4. PICK a \in S : \A u \in S : P(a) <= P(u)
  BY <1>1, FirstByPosition
<1> DEFINE ties == {u \in S : P(u) = P(a)}
<1>5. PICK t \in ties : \A u \in ties : Q(t) <= Q(u)
  <2>1. ties # {}
    OBVIOUS
  <2> QED
    BY <2>1, FirstByPosition
<1>6. \A u, v : Before(g, u, v) <=> \/ P(u) < P(v)
                                    \/ P(u) = P(v) /\ Q(u) < Q(v)
  BY DEF Before
<1> HIDE DEF P, Q
<1>7. IsFirst(g, S, t)
  <2>1. ASSUME NEW u \in S \ {t} PROVE Before(g, t, u)
    <3>1. P(t) <= P(u)
      BY <1>4, <1>5
    <3>2. CASE P(t) = P(u)
      <4>1. Q(t) <= Q(u) /\ Q(t) # Q(u)
        BY <1>3, <1>5, <3>2
      <4> QED
        BY <1>2, <1>6, <3>2, <4>1
    <3>3. CASE P(t) # P(u)
      BY <1>2, <1>6, <3>1, <3>3
    <3> QED
      BY <3>2, <3>3
  <2> QED
    BY <2>1 DEF IsFirst
<1>8. ASSUME NEW u, IsFirst(g, S, u) PROVE u = t
  <2>1. SUFFICES ASSUME u # t PROVE FALSE
    OBVIOUS
  <2>2. Before(g, u, t) /\ Before(g, t, u)
    BY <1>7, <1>8, <2>1 DEF IsFirst
  <2> QED
    BY <1>2, <1>6, <2>2
<1> QED
  BY <1>7, <1>8

(* Where the list names every task after what it needs, as the rules' plans  *)
(* do, one sweep settles all there is to settle: no task that it leaves     *)
(* idle needs a broken one, and sweeping again changes nothing.            *)
THEOREM OneSweepIsEnough ==
    ASSUME NEW X, NEW g, g.tasks \in Seq(X),
           \A t \in TaskIds(g) : \A d \in g.deps[t] \cap TaskIds(g) :
              Position(g.tasks, d) < Position(g.tasks, t),
           NEW st \in [TaskIds(g) -> TaskStatus],
           NEW new, UpdateStates(g, st, new)
    PROVE  /\ \A t \in TaskIds(g) : \A d \in g.deps[t] \cap TaskIds(g) :
                 new[t] \in Idle => new[d] \notin Broken
           /\ \A again : UpdateStates(g, new, again) => again = new
<1> DEFINE T == TaskIds(g)
<1>1. PICK B \in SUBSET T : SweepBlocks(g, st, B) /\ new = Swept(g, st, B)
  BY DEF UpdateStates
<1>2. new = [t \in T |-> IF t \in B THEN "BLOCKED"
                         ELSE IF st[t] \in Idle /\ IsReady(g, st, t) THEN "READY"
                         ELSE st[t]]
  BY <1>1 DEF Swept
<1>3. \A t \in B : st[t] \in Idle
  BY <1>1 DEF SweepBlocks
<1>4. ASSUME NEW t \in T, new[t] \in Idle
      PROVE  t \notin B /\ st[t] \in Idle
  BY <1>2, <1>4 DEF Idle
<1>5. ASSUME NEW t \in T, NEW d \in g.deps[t] \cap T,
             new[t] \in Idle, new[d] \in Broken
      PROVE  FALSE
  <2>1. d \in B \/ st[d] \in Broken
    BY <1>2, <1>5 DEF Broken
  <2>2. st[d] # "DONE"
    BY <1>3, <2>1 DEF Idle, Broken
  <2>3. ~IsReady(g, st, t)
    BY <2>2 DEF IsReady
  <2>4. t \in B
    BY <1>1, <1>4, <1>5, <2>1, <2>3 DEF SweepBlocks, IsBlockedByDependency
  <2> QED
    BY <1>4, <1>5, <2>4
<1>6. ASSUME NEW again, UpdateStates(g, new, again)
      PROVE  again = new
  <2>1. PICK C \in SUBSET T : SweepBlocks(g, new, C) /\ again = Swept(g, new, C)
    BY <1>6 DEF UpdateStates
  <2>2. C = {}
    <3>1. SUFFICES ASSUME C # {} PROVE FALSE
      OBVIOUS
    <3>2. PICK t \in C : \A u \in C : Position(g.tasks, t) <= Position(g.tasks, u)
      BY <3>1, FirstByPosition
    <3>3. /\ new[t] \in Idle
          /\ \/ IsBlockedByDependency(g, new, t)
             \/ \E d \in g.deps[t] \cap C :
                   Position(g.tasks, d) < Position(g.tasks, t)
      BY <2>1 DEF SweepBlocks
    <3>4. ~IsBlockedByDependency(g, new, t)
      BY <1>5, <3>3 DEF IsBlockedByDependency
    <3>5. \A d : Position(g.tasks, d) \in Nat
      BY PositionFacts
    <3> QED
      BY <3>2, <3>3, <3>4, <3>5
  <2>3. again = [t \in T |-> IF new[t] \in Idle /\ IsReady(g, new, t) THEN "READY"
                             ELSE new[t]]
    BY <1>2, <2>1, <2>2 DEF Swept
  <2>4. ASSUME NEW t \in T, new[t] \in Idle, IsReady(g, new, t)
        PROVE  new[t] = "READY"
    <3>1. t \notin B /\ st[t] \in Idle
      BY <1>4, <2>4
    <3>2. \A d \in g.deps[t] : d \in T /\ new[d] = "DONE"
      BY <2>4 DEF IsReady
    <3>3. \A d \in g.deps[t] : d \in T /\ st[d] = "DONE"
      BY <1>2, <3>2
    <3>4. IsReady(g, st, t)
      BY <3>1, <3>3 DEF IsReady, Idle, Settled
    <3> QED
      BY <1>2, <3>1, <3>4
  <2>5. \A t \in T : again[t] = new[t]
    BY <2>3, <2>4
  <2> QED
    BY <1>2, <2>3, <2>5
<1> QED
  BY <1>5, <1>6

-----------------------------------------------------------------------------
(* The planners' drafts *)

(* An id of a list without repetitions has the place it is at.              *)
LEMMA PlaceOf ==
    ASSUME NEW X, NEW list \in Seq(X), IsInjective(list), NEW i \in 1 .. Len(list)
    PROVE  Position(list, list[i]) = i
<1>1. Position(list, list[i]) \in 1 .. Len(list) /\ list[Position(list, list[i])] = list[i]
  BY PositionFacts
<1> QED
  BY <1>1 DEF IsInjective

LEMMA Widened == ASSUME NEW X, NEW Y, X \subseteq Y, NEW s \in Seq(X) PROVE s \in Seq(Y)
OBVIOUS

NeedsOthers(d) == \A t \in Ids(d) : t \notin Known(d, t)

(* Every task is listed after what it needs.                                *)
NeedsEarlier(g) ==
    \A t \in TaskIds(g), u \in TaskIds(g) :
        u \in g.deps[t] => Position(g.tasks, u) < Position(g.tasks, t)

LEMMA RuleDraftSound ==
    ASSUME NEW stack
    PROVE  LET d == RuleDraft(stack)
           IN  /\ IsDraft(d) /\ d.tasks # << >> /\ NeedsOthers(d)
               /\ NeedsEarlier(Checked(d))
<1> DEFINE list == RuleTasks(stack)
           n == Len(list)
           ids == {list[i].id : i \in 1 .. n}
           at(id) == CHOOSE i \in 1 .. n : list[i].id = id
           needs(id) == list[at(id)].needs
           d == RuleDraft(stack)
<1>1. /\ list \in Seq([id : RuleId, needs : Seq(RuleId)]) /\ list # << >>
      /\ \A i, j \in 1 .. n : list[i].id = list[j].id => i = j
      /\ \A i \in 1 .. n : list[i].needs \in Seq(IdsBefore(list, i - 1))
  BY RuleTasksInOrder DEF RuleList
<1>2. /\ d.tasks = [i \in 1 .. n |-> list[i].id]
      /\ d.deps = [id \in ids |-> Filtered(needs(id), ids \ {id})]
  BY DEF RuleDraft
<1> HIDE DEF list, d
<1>3. n \in Nat /\ n > 0
  BY <1>1
<1>4. \A i \in 1 .. n : needs(list[i].id) = list[i].needs
  <2>1. \A i \in 1 .. n : at(list[i].id) = i
    BY <1>1
  <2> HIDE DEF at
  <2> QED
    BY <2>1
<1> HIDE DEF needs
<1>5. Ids(d) = ids /\ Len(d.tasks) = n /\ d.tasks \in Seq(ids)
  <2>1. d.tasks \in Seq(ids) /\ Len(d.tasks) = n
    BY <1>2, <1>3
  <2> QED
    BY <1>2, <2>1 DEF Ids, Elements
<1>6. IsInjective(d.tasks) /\ d.tasks # << >>
  <2>1. DOMAIN d.tasks = 1 .. n
    BY <1>2
  <2>2. \A i, j \in 1 .. n : d.tasks[i] = d.tasks[j] => i = j
    BY <1>1, <1>2
  <2> QED
    BY <1>3, <1>5, <2>1, <2>2 DEF IsInjective
<1>7. ASSUME NEW i \in 1 .. n
      PROVE  /\ d.deps[list[i].id] \in Seq(ids)
             /\ Elements(d.deps[list[i].id]) \subseteq IdsBefore(list, i - 1) \ {list[i].id}
  <2> DEFINE id == list[i].id
             kept == Filtered(list[i].needs, ids \ {id})
  <2>1. id \in ids /\ d.deps[id] = kept
    BY <1>2, <1>4
  <2>2. IdsBefore(list, i - 1) \subseteq ids
    BY <1>3 DEF IdsBefore
  <2>3. list[i].needs \in Seq(IdsBefore(list, i - 1))
    BY <1>1
  <2> HIDE DEF ids, id
  <2>4. /\ kept \in Seq(IdsBefore(list, i - 1))
        /\ Elements(kept) = Elements(list[i].needs) \cap (ids \ {id})
    BY <2>3, FilteredElements
  <2>5. Elements(list[i].needs) \subseteq IdsBefore(list, i - 1)
    BY <2>3 DEF Elements
  <2> HIDE DEF kept
  <2>6. kept \in Seq(ids)
    BY <2>2, <2>4, Widened
  <2> QED
    BY <2>1, <2>4, <2>5, <2>6 DEF id
<1>8. ASSUME NEW t \in ids
      PROVE  d.deps[t] \in Seq(ids) /\ t \notin Elements(d.deps[t])
  <2>1. PICK i \in 1 .. n : t = list[i].id
    OBVIOUS
  <2> QED
    BY <1>7, <2>1
<1>9. IsDraft(d)
  <2>1. d.deps \in [ids -> Seq(ids)]
    <3>1. d.deps = [id \in ids |-> d.deps[id]]
      BY <1>2
    <3> QED
      BY <1>8, <3>1
  <2> QED
    BY <1>5, <1>6, <2>1 DEF IsDraft
<1>10. NeedsOthers(d)
  BY <1>5, <1>8 DEF NeedsOthers, Known
<1>11. NeedsEarlier(Checked(d))
  <2>1. /\ TaskIds(Checked(d)) = ids /\ Checked(d).tasks = d.tasks
        /\ \A t \in ids : Checked(d).deps[t] = Known(d, t)
    BY <1>5 DEF Checked, TaskIds, Ids, Elements
  <2> SUFFICES ASSUME NEW t \in ids, NEW u \in ids, u \in Known(d, t)
               PROVE  Position(d.tasks, u) < Position(d.tasks, t)
    BY <2>1 DEF NeedsEarlier
  <2>2. PICK i \in 1 .. n : t = list[i].id
    OBVIOUS
  <2>3. u \in IdsBefore(list, i - 1)
    BY <1>7, <2>2 DEF Known
  <2>4. PICK j \in 1 .. i - 1 : u = list[j].id
    BY <2>3 DEF IdsBefore
  <2>5. j \in 1 .. n /\ j < i
    BY <1>3, <2>4
  <2>6. t = d.tasks[i] /\ u = d.tasks[j]
    BY <1>2, <2>2, <2>4, <2>5
  <2>7. Position(d.tasks, t) = i /\ Position(d.tasks, u) = j
    <3> HIDE DEF n, ids
    <3> QED
      BY <1>5, <1>6, <2>5, <2>6, PlaceOf
  <2> QED
    BY <2>5, <2>7
<1> QED
  BY <1>6, <1>9, <1>10, <1>11 DEF d

LEMMA LlmDraftSound ==
    ASSUME NEW answer \in Answers, Acceptable(answer)
    PROVE  LET d == LlmDraft(answer)
           IN  IsDraft(d) /\ d.tasks # << >> /\ NeedsOthers(d)
<1> DEFINE T == Ids(answer)
           d == LlmDraft(answer)
<1>1. /\ answer.tasks \in Seq(Name) /\ answer.deps \in [T -> Seq(Name)]
      /\ IsInjective(answer.tasks) /\ answer.tasks # << >>
  BY PlanningAssumption DEF Acceptable
<1>2. d.tasks = answer.tasks /\ d.deps = [t \in T |-> Kept(answer, t)]
  BY DEF LlmDraft
<1> HIDE DEF d
<1>3. Ids(d) = T
  BY <1>2 DEF Ids
<1>4. d.tasks \in Seq(T)
  BY <1>1, <1>2, OwnElements DEF Ids
<1>5. ASSUME NEW t \in T
      PROVE  Kept(answer, t) \in Seq(T) /\ t \notin Elements(Kept(answer, t))
  <2>1. answer.deps[t] \in Seq(Name)
    BY <1>1
  <2> HIDE DEF T
  <2>2. /\ Kept(answer, t) \in Seq(Name)
        /\ Elements(Kept(answer, t)) = Elements(answer.deps[t]) \cap (T \ {t})
    BY <2>1, FilteredElements DEF Kept, T
  <2>3. Kept(answer, t) \in Seq(Elements(Kept(answer, t)))
    BY <2>2, OwnElements
  <2>4. Elements(Kept(answer, t)) \subseteq T
    BY <2>2
  <2>5. Kept(answer, t) \in Seq(T)
    BY <2>3, <2>4, Widened
  <2> QED
    BY <2>2, <2>5
<1> HIDE DEF T
<1>6. IsDraft(d)
  BY <1>1, <1>2, <1>3, <1>4, <1>5 DEF IsDraft
<1>7. NeedsOthers(d)
  BY <1>2, <1>3, <1>5 DEF NeedsOthers, Known
<1> QED
  BY <1>1, <1>2, <1>6, <1>7 DEF d

-----------------------------------------------------------------------------
(* The planned and amended graph *)

(* Ids are unique, every dependency is another task of the graph.           *)
Formed(g) ==
    /\ g = [tasks |-> g.tasks, deps |-> g.deps, topo |-> g.topo, check |-> g.check]
    /\ g.tasks \in Seq(TaskIds(g)) /\ g.tasks # << >> /\ IsInjective(g.tasks)
    /\ g.deps \in [TaskIds(g) -> SUBSET TaskIds(g)]
    /\ \A t \in TaskIds(g) : t \notin g.deps[t]

LEMMA CheckedIsFormed ==
    ASSUME NEW d, IsDraft(d), d.tasks # << >>, NeedsOthers(d)
    PROVE  Formed(Checked(d)) /\ TaskIds(Checked(d)) = Ids(d)
<1>1. /\ Checked(d).tasks = d.tasks /\ Checked(d).deps = [t \in Ids(d) |-> Known(d, t)]
      /\ Checked(d) = [tasks |-> Checked(d).tasks, deps |-> Checked(d).deps,
                       topo |-> Checked(d).topo, check |-> Checked(d).check]
  BY DEF Checked
<1>2. TaskIds(Checked(d)) = Ids(d)
  BY <1>1 DEF TaskIds, Ids, Elements
<1>3. Checked(d).deps \in [Ids(d) -> SUBSET Ids(d)]
  BY <1>1 DEF Known
<1>4. \A t \in Ids(d) : t \notin Checked(d).deps[t]
  BY <1>1 DEF NeedsOthers
<1> QED
  BY <1>1, <1>2, <1>3, <1>4 DEF Formed, IsDraft

(* What a proposal that is applied makes of a graph.                        *)
LEMMA AppliedGives ==
    ASSUME NEW p, NEW g, NEW st, Applied(p, g, st).ok
    PROVE  LET result == Applied(p, g, st)
           IN  /\ Applicable(p, g, st) /\ StaysValid(result.graph)
               /\ \/ result.graph = g /\ DOMAIN result.status = DOMAIN st
                  \/ /\ result.graph = SplitTask(g, p.task, p.parts)
                     /\ DOMAIN result.status = DOMAIN st \cup Elements(p.parts)
<1> DEFINE result == Applied(p, g, st)
           Refused == [ok |-> FALSE, graph |-> g, status |-> st]
           Changed(newGraph, newStatus) ==
               [ok |-> StaysValid(newGraph), graph |-> newGraph, status |-> newStatus]
           Split == [u \in DOMAIN st \cup Elements(p.parts) |->
                          IF u = p.task THEN "BLOCKED"
                          ELSE IF u \in Elements(p.parts) THEN "PENDING"
                          ELSE st[u]]
<1>1. result = IF ~Applicable(p, g, st) THEN Refused
               ELSE IF p.action = "RETRY"
                    THEN Changed(g, [st EXCEPT ![p.task] = Retried(st[p.task])])
               ELSE IF st[p.task] = "DONE" THEN Refused
               ELSE IF p.action = "BLOCK"
                    THEN Changed(g, [st EXCEPT ![p.task] = "BLOCKED"])
               ELSE Changed(SplitTask(g, p.task, p.parts), Split)
  BY DEF Applied
<1>2. result.ok
  OBVIOUS
<1> HIDE DEF result
<1>3. result # Refused
  BY <1>2
<1>4. Applicable(p, g, st)
  BY <1>1, <1>3
<1>5. \E newStatus :
         \/ result = Changed(g, newStatus) /\ DOMAIN newStatus = DOMAIN st
         \/ /\ result = Changed(SplitTask(g, p.task, p.parts), newStatus)
            /\ DOMAIN newStatus = DOMAIN st \cup Elements(p.parts)
  <2> HIDE DEF Refused, Split, Changed
  <2>1. DOMAIN Split = DOMAIN st \cup Elements(p.parts)
    BY DEF Split
  <2>2. CASE p.action = "RETRY"
    BY <1>1, <1>4, <2>2
  <2>3. CASE p.action # "RETRY" /\ p.action = "BLOCK"
    BY <1>1, <1>3, <1>4, <2>3
  <2>4. CASE p.action # "RETRY" /\ p.action # "BLOCK"
    BY <1>1, <1>3, <1>4, <2>1, <2>4
  <2> QED
    BY <2>2, <2>3, <2>4
<1> QED
  BY <1>2, <1>4, <1>5 DEF result

LEMMA SplitIsFormed ==
    ASSUME NEW g, Formed(g), NEW t \in TaskIds(g), NEW a, NEW b, a # b,
           a \notin TaskIds(g), b \notin TaskIds(g)
    PROVE  LET new == SplitTask(g, t, <<a, b>>)
           IN  /\ Formed(new) /\ TaskIds(new) = TaskIds(g) \cup {a, b}
               /\ new.topo = g.topo /\ new.check = g.check
               /\ NeedsEarlier(g) => NeedsEarlier(new)
<1> DEFINE new == SplitTask(g, t, <<a, b>>)
           T == TaskIds(g)
           U == T \cup {a, b}
           parts == <<a, b>>
           tasks == g.tasks \o parts
           deps == [u \in T \cup {a, b} |-> IF u \in {a, b} THEN g.deps[t] ELSE g.deps[u]]
           n == Len(g.tasks)
<1>1. /\ g = [tasks |-> g.tasks, deps |-> g.deps, topo |-> g.topo, check |-> g.check]
      /\ g.tasks \in Seq(T) /\ g.tasks # << >> /\ IsInjective(g.tasks)
      /\ g.deps \in [T -> SUBSET T] /\ (\A u \in T : u \notin g.deps[u])
      /\ T = Elements(g.tasks)
  BY DEF Formed, TaskIds, Elements
<1>2. Elements(parts) = {a, b}
  <2>1. Len(parts) = 2 /\ parts[1] = a /\ parts[2] = b
    OBVIOUS
  <2>2. 1 .. 2 = {1, 2}
    OBVIOUS
  <2> HIDE DEF parts
  <2> QED
    BY <2>1, <2>2 DEF Elements
<1>3. new = [tasks |-> tasks, deps |-> deps, topo |-> g.topo, check |-> g.check]
  <2>1. DOMAIN g.deps = T
    BY <1>1
  <2>2. new = [g EXCEPT !.tasks = g.tasks \o parts,
                        !.deps = [u \in DOMAIN g.deps \cup Elements(parts) |->
                                    IF u \in Elements(parts) THEN g.deps[t] ELSE g.deps[u]]]
    BY DEF SplitTask
  <2> HIDE DEF parts
  <2>3. new = [g EXCEPT !.tasks = tasks, !.deps = deps]
    BY <1>2, <2>1, <2>2
  <2> HIDE DEF tasks, deps, new
  <2> QED
    BY <1>1, <2>3
<1> HIDE DEF new
<1>4. /\ new.tasks = tasks /\ new.deps = deps /\ new.topo = g.topo /\ new.check = g.check
  BY <1>3
<1>5. parts \in Seq(U) /\ IsInjective(parts)
  BY DEF IsInjective
<1>6. g.tasks \in Seq(U)
  BY <1>1, Widened
<1>7. tasks \in Seq(U) /\ Elements(tasks) = U /\ IsInjective(tasks)
  <2>1. Elements(g.tasks) \cap Elements(parts) = {}
    BY <1>1, <1>2
  <2> HIDE DEF parts, U
  <2> QED
    BY <1>1, <1>2, <1>5, <1>6, <2>1, ElementsOfConcat DEF U
<1>8. TaskIds(new) = U
  <2> HIDE DEF tasks, U
  <2>1. TaskIds(new) = Elements(tasks)
    BY <1>4 DEF TaskIds, Elements
  <2> QED
    BY <1>7, <2>1
<1>9. deps \in [U -> SUBSET U] /\ \A u \in U : u \notin deps[u]
  BY <1>1
<1>10. tasks # << >>
  BY <1>1
<1>11. Formed(new)
  <2> HIDE DEF tasks, deps, U
  <2> QED
    BY <1>3, <1>4, <1>7, <1>8, <1>9, <1>10 DEF Formed
<1>12. ASSUME NeedsEarlier(g) PROVE NeedsEarlier(new)
  <2>1. n \in Nat /\ Len(tasks) = n + 2 /\ \A i \in 1 .. n : tasks[i] = g.tasks[i]
    BY <1>1
  <2> HIDE DEF tasks, n, U
  <2>2. ASSUME NEW u \in T
        PROVE  Position(tasks, u) = Position(g.tasks, u) /\ Position(tasks, u) \in 1 .. n
    <3> DEFINE i == Position(g.tasks, u)
    <3>1. i \in 1 .. n /\ g.tasks[i] = u
      BY <1>1, PositionFacts DEF n, Elements
    <3> HIDE DEF i
    <3>2. i \in 1 .. Len(tasks) /\ tasks[i] = u
      BY <2>1, <3>1
    <3>3. Position(tasks, u) = i
      BY <1>7, <3>2, PlaceOf
    <3> QED
      BY <3>1, <3>3 DEF i
  <2>3. ASSUME NEW u \in {a, b} PROVE Position(tasks, u) > n /\ Position(tasks, u) \in Nat
    <3> DEFINE i == Position(tasks, u)
    <3>1. u \in Elements(tasks)
      BY <1>7 DEF U
    <3>2. i \in 1 .. Len(tasks) /\ tasks[i] = u
      BY <1>7, <3>1, PositionFacts DEF Elements
    <3> HIDE DEF i
    <3>3. i \notin 1 .. n
      BY <1>1, <2>1, <3>2 DEF Elements, n
    <3> QED
      BY <2>1, <3>2, <3>3 DEF i
  <2> SUFFICES ASSUME NEW v \in U, NEW u \in U, u \in deps[v]
               PROVE  Position(tasks, u) < Position(tasks, v)
    BY <1>4, <1>8 DEF NeedsEarlier
  <2>4. CASE v \in T
    <3>1. deps[v] = g.deps[v] /\ u \in T
      BY <1>1, <2>4
    <3>2. Position(g.tasks, u) < Position(g.tasks, v)
      BY <1>12, <2>4, <3>1 DEF NeedsEarlier
    <3> QED
      BY <2>2, <2>4, <3>1, <3>2
  <2>5. CASE v \in {a, b}
    <3>1. u \in T
      BY <1>1, <2>5
    <3> QED
      BY <2>1, <2>2, <2>3, <2>5, <3>1
  <2> QED
    BY <2>4, <2>5 DEF U
<1> QED
  BY <1>4, <1>8, <1>11, <1>12 DEF new

-----------------------------------------------------------------------------
(* The inductive invariant: whoever planned, what the graph was made from is *)
(* a draft whose order is the graph's still; the graph is formed; it has no *)
(* circle once it was amended; and the rules' lists stay in order.          *)
PlanInv ==
    /\ amends \in Nat /\ (pc # "planned" => amends = 0)
    /\ pc = "planned" =>
          /\ IsDraft(draft) /\ graph.topo = TopologicalOrder(draft)
          /\ amends = 0 => graph = Checked(draft)
          /\ Formed(graph) /\ DOMAIN status = TaskIds(graph)
          /\ graph.topo \in Seq(TaskIds(graph)) /\ graph.check \in {"valid", "invalid"}
          /\ amends > 0 => Knots(graph) = {}
          /\ planner = "rule" => NeedsEarlier(graph)

LEMMA Adopted ==
    ASSUME PlanInv, pc = "asking", NEW name, NEW d, Adopt(name, d), amends' = amends,
           IsDraft(d), d.tasks # << >>, NeedsOthers(d),
           name = "rule" => NeedsEarlier(Checked(d))
    PROVE  PlanInv'
<1>1. /\ pc' = "planned" /\ planner' = name /\ draft' = d /\ graph' = Checked(d)
      /\ status' = [t \in Ids(d) |-> "PENDING"] /\ amends' = 0
  BY DEF Adopt, PlanInv
<1>2. Formed(Checked(d)) /\ TaskIds(Checked(d)) = Ids(d)
  BY CheckedIsFormed
<1>3. /\ Checked(d).topo = TopologicalOrder(d) /\ Checked(d).check \in {"valid", "invalid"}
      /\ TopologicalOrder(d) \in Seq(Ids(d))
  BY OrderIsTopological DEF Checked
<1> QED
  BY <1>1, <1>2, <1>3 DEF PlanInv

LEMMA Amended ==
    ASSUME PlanInv, Amend
    PROVE  PlanInv'
<1>1. /\ pc = "planned" /\ amends \in Nat
      /\ IsDraft(draft) /\ graph.topo = TopologicalOrder(draft)
      /\ Formed(graph) /\ DOMAIN status = TaskIds(graph)
      /\ graph.topo \in Seq(TaskIds(graph)) /\ graph.check \in {"valid", "invalid"}
      /\ planner = "rule" => NeedsEarlier(graph)
  BY DEF PlanInv, Amend
<1>2. amends' = amends + 1 /\ pc' = pc /\ planner' = planner /\ draft' = draft
  BY DEF Amend
<1>3. PICK t \in TaskIds(graph), action \in {"RETRY", "SPLIT", "BLOCK"} :
         LET parts == IF action = "SPLIT" THEN <<Part(t, "a"), Part(t, "b")>> ELSE << >>
             result == Applied([task |-> t, action |-> action, status |-> "APPROVED",
                                parts |-> parts], graph, status)
         IN  result.ok /\ graph' = result.graph /\ status' = result.status
  BY DEF Amend
<1> DEFINE a == Part(t, "a")
           b == Part(t, "b")
           parts == IF action = "SPLIT" THEN <<a, b>> ELSE << >>
           p == [task |-> t, action |-> action, status |-> "APPROVED", parts |-> parts]
           result == Applied(p, graph, status)
<1>4. result.ok /\ graph' = result.graph /\ status' = result.status
  BY <1>3
<1>5. p.task = t /\ p.parts = parts
  OBVIOUS
<1> HIDE DEF p, parts
<1>6. /\ Applicable(p, graph, status) /\ StaysValid(graph')
      /\ \/ graph' = graph /\ DOMAIN status' = DOMAIN status
         \/ /\ graph' = SplitTask(graph, t, parts)
            /\ DOMAIN status' = DOMAIN status \cup Elements(parts)
  BY <1>4, <1>5, AppliedGives
<1>7. /\ Formed(graph') /\ DOMAIN status' = TaskIds(graph')
      /\ graph'.topo = graph.topo /\ graph'.check = graph.check
      /\ TaskIds(graph) \subseteq TaskIds(graph')
      /\ NeedsEarlier(graph) => NeedsEarlier(graph')
  <2>1. CASE graph' = graph /\ DOMAIN status' = DOMAIN status
    BY <1>1, <2>1
  <2>2. CASE /\ action = "SPLIT" /\ graph' = SplitTask(graph, t, parts)
             /\ DOMAIN status' = DOMAIN status \cup Elements(parts)
    <3>1. parts = <<a, b>> /\ Elements(parts) = {a, b}
      <4>1. Elements(<<a, b>>) = {a, b}
        <5> DEFINE s == <<a, b>>
        <5>1. Len(s) = 2 /\ s[1] = a /\ s[2] = b /\ 1 .. 2 = {1, 2}
          OBVIOUS
        <5> HIDE DEF s, a, b
        <5> QED
          BY <5>1 DEF Elements, s
      <4> QED
        BY <2>2, <4>1 DEF parts
    <3>2. a # b
      <4>1. a.part = "a" /\ b.part = "b"
        BY DEF Part
      <4> QED
        BY <4>1
    <3>3. a \notin TaskIds(graph) /\ b \notin TaskIds(graph)
      BY <1>5, <1>6, <3>1 DEF Applicable
    <3> HIDE DEF a, b
    <3>4. /\ Formed(SplitTask(graph, t, <<a, b>>))
          /\ TaskIds(SplitTask(graph, t, <<a, b>>)) = TaskIds(graph) \cup {a, b}
          /\ SplitTask(graph, t, <<a, b>>).topo = graph.topo
          /\ SplitTask(graph, t, <<a, b>>).check = graph.check
          /\ NeedsEarlier(graph) => NeedsEarlier(SplitTask(graph, t, <<a, b>>))
      BY <1>1, <3>2, <3>3, SplitIsFormed
    <3> QED
      BY <1>1, <2>2, <3>1, <3>4
  <2>3. CASE /\ action # "SPLIT" /\ graph' = SplitTask(graph, t, parts)
             /\ DOMAIN status' = DOMAIN status \cup Elements(parts)
    <3>1. parts = << >> /\ Elements(parts) = {}
      BY <2>3 DEF parts, Elements
    <3>2. SplitTask(graph, t, << >>) = graph
      <4> DEFINE g == graph
                 tasks == g.tasks \o << >>
                 none == Elements(<< >>)
                 deps == [u \in DOMAIN g.deps \cup none |->
                            IF u \in none THEN g.deps[t] ELSE g.deps[u]]
      <4>1. none = {}
        BY DEF Elements
      <4>2. /\ g = [tasks |-> g.tasks, deps |-> g.deps, topo |-> g.topo, check |-> g.check]
            /\ g.tasks \in Seq(TaskIds(g)) /\ g.deps \in [TaskIds(g) -> SUBSET TaskIds(g)]
        BY <1>1 DEF Formed
      <4>3. tasks = g.tasks
        BY <4>2
      <4> HIDE DEF none
      <4>4. deps = g.deps
        BY <4>1, <4>2
      <4>5. SplitTask(g, t, << >>) = [g EXCEPT !.tasks = tasks, !.deps = deps]
        BY DEF SplitTask, none
      <4> HIDE DEF tasks, deps
      <4> QED
        BY <4>2, <4>3, <4>4, <4>5
    <3> QED
      BY <1>1, <2>3, <3>1, <3>2
  <2> QED
    BY <1>6, <2>1, <2>2, <2>3
<1>8. Knots(graph') = {}
  BY <1>6, <1>7, AmendCheckIsExact DEF Formed
<1>9. graph'.topo \in Seq(TaskIds(graph'))
  BY <1>1, <1>7, Widened
<1> QED
  BY <1>1, <1>2, <1>7, <1>8, <1>9 DEF PlanInv

LEMMA PlanInvHolds == Spec => []PlanInv
<1>1. Init => PlanInv
  BY DEF Init, PlanInv
<1>2. PlanInv /\ [Next]_vars => PlanInv'
  <2> SUFFICES ASSUME PlanInv, [Next]_vars PROVE PlanInv'
    OBVIOUS
  <2>1. CASE ExchangeFails
    BY <2>1 DEF ExchangeFails, MayAsk, PlanInv
  <2>2. CASE ModelAnswers
    <3>1. pc = "asking"
      BY <2>2 DEF ModelAnswers, MayAsk
    <3>2. PICK answer \in Answers :
             IF Acceptable(answer)
             THEN Adopt("llm", LlmDraft(answer)) /\ UNCHANGED <<configured, exchanges, amends>>
             ELSE /\ exchanges' = exchanges + 1
                  /\ UNCHANGED <<configured, pc, planner, draft, graph, status, amends>>
      BY <2>2 DEF ModelAnswers
    <3>3. CASE Acceptable(answer)
      <4>1. /\ IsDraft(LlmDraft(answer)) /\ LlmDraft(answer).tasks # << >>
            /\ NeedsOthers(LlmDraft(answer))
        BY <3>3, LlmDraftSound
      <4>2. Adopt("llm", LlmDraft(answer)) /\ amends' = amends
        BY <3>2, <3>3
      <4> DEFINE d == LlmDraft(answer)
      <4> HIDE DEF d
      <4> QED
        BY <3>1, <4>1, <4>2, Adopted DEF d
    <3>4. CASE ~Acceptable(answer)
      BY <3>1, <3>2, <3>4 DEF PlanInv
    <3> QED
      BY <3>3, <3>4
  <2>3. CASE AnswerIsMisshapen
    BY <2>3 DEF AnswerIsMisshapen, MayAsk, PlanInv
  <2>4. CASE FallBack
    <3>1. pc = "asking" /\ amends' = amends
      BY <2>4 DEF FallBack
    <3>2. PICK stack \in SUBSET {"REST API", "Redis", "MQ"} : Adopt("rule", RuleDraft(stack))
      BY <2>4 DEF FallBack
    <3> QED
      BY <3>1, <3>2, RuleDraftSound, Adopted
  <2>5. CASE Amend
    BY <2>5, Amended
  <2>6. CASE UNCHANGED vars
    BY <2>6 DEF vars, PlanInv
  <2> QED
    BY <2>1, <2>2, <2>3, <2>4, <2>5, <2>6 DEF Next
<1> QED
  BY <1>1, <1>2, PTL DEF Spec

(* Whoever planned, the graph is declared valid exactly when no tasks of it  *)
(* wait for each other in a circle (task_engine.py:403).                    *)
THEOREM ChecksFindCycles == Spec => []CheckFindsCycles
<1>1. PlanInv => CheckFindsCycles
  <2> SUFFICES ASSUME PlanInv, pc = "planned", amends = 0
               PROVE  graph.check = "invalid" <=> Knots(graph) # {}
    BY DEF CheckFindsCycles
  <2>1. IsDraft(draft) /\ graph = Checked(draft)
    BY DEF PlanInv
  <2>2. graph.check = "invalid" <=> CycleDetected(draft)
    BY <2>1 DEF Checked
  <2> QED
    BY <2>1, <2>2, SearchIsExact
<1> QED
  BY <1>1, PlanInvHolds, PTL

(* The order a graph is planned with, which no amendment touches, names each *)
(* task once and after all it needs, and leaves out just those that are on   *)
(* a circle, behind one, or behind a dependency named twice                 *)
(* (task_engine.py:440).                                                    *)
THEOREM OrdersAreSound == Spec => []OrderIsSound
<1>1. PlanInv => OrderIsSound
  <2> SUFFICES ASSUME PlanInv, pc = "planned" PROVE OrderIsSound
    BY DEF OrderIsSound
  <2> DEFINE order == TopologicalOrder(draft)
  <2>1. IsDraft(draft) /\ graph.topo = order
    BY DEF PlanInv
  <2>2. /\ order \in Seq(Ids(draft)) /\ IsInjective(order)
        /\ \A i \in 1 .. Len(order) :
              Known(draft, order[i]) \subseteq {order[j] : j \in 1 .. i - 1}
        /\ Elements(order) = Ids(draft) \ HeldUp(Checked(draft), draft)
    BY <2>1, OrderIsTopological
  <2> HIDE DEF order
  <2>3. \A i \in 1 .. Len(order) : Checked(draft).deps[order[i]] = Known(draft, order[i])
    BY <2>2 DEF Checked
  <2>4. \A i \in 1 .. Len(graph.topo) :
           Checked(draft).deps[graph.topo[i]] \subseteq {graph.topo[j] : j \in 1 .. i - 1}
    <3> SUFFICES ASSUME NEW i \in 1 .. Len(order)
                 PROVE  Checked(draft).deps[order[i]] \subseteq {order[j] : j \in 1 .. i - 1}
      BY <2>1
    <3> QED
      BY <2>2, <2>3
  <2> QED
    BY <2>1, <2>2, <2>4 DEF OrderIsSound
<1> QED
  BY <1>1, PlanInvHolds, PTL

(* However a graph was planned and however often it was amended, ids are     *)
(* unique, dependencies are other tasks of the graph, every task has a       *)
(* status, an amended graph has no circle, and the rules list every task     *)
(* after what it needs (llm_planner.py:141, replan_applier.py:100).          *)
THEOREM PlansAreSound == Spec => []PlannedGraphSound
<1>1. PlanInv => PlannedGraphSound
  BY DEF PlanInv, PlannedGraphSound, Formed, NeedsEarlier
<1> QED
  BY <1>1, PlanInvHolds, PTL

(* What OrchestratorAssumption and ReplanAssumption ask of a task graph.     *)
FitsRun(g) ==
    /\ g.tasks \in Seq(TaskIds(g)) /\ g.topo \in Seq(TaskIds(g))
    /\ g.deps \in [TaskIds(g) -> SUBSET TaskIds(g)]
    /\ g.check \in {"valid", "invalid"}

(* What the models of a run and of replanning assume of the graph they are   *)
(* given is what planning and amending deliver: a list and an order of its   *)
(* own ids, for each id a set of others, and a check that was made          *)
(* (task_engine.py:363, llm_planner.py:151, replan_applier.py:100).          *)
THEOREM PlansFitRuns == Spec => [](pc = "planned" => FitsRun(graph))
<1>1. PlanInv => (pc = "planned" => FitsRun(graph))
  BY DEF PlanInv, Formed, FitsRun
<1> QED
  BY <1>1, PlanInvHolds, PTL

-----------------------------------------------------------------------------
(* The scheduler's operators and the loops they stand for                   *)

LEMMA LoopRounds ==
    ASSUME Formed(graph), NEW st \in [TaskIds(graph) -> TaskStatus]
    PROVE  \E f : /\ Loop(st) = f[Len(graph.tasks)] /\ f[0] = st
                  /\ \A n \in 1 .. Len(graph.tasks) : f[n] = LoopBody(f[n - 1], graph.tasks[n])
<1> DEFINE N == Len(graph.tasks)
           T == TaskIds(graph)
           S == [T -> TaskStatus]
           D == [n \in 1 .. N |-> [v \in S |-> LoopBody(v, graph.tasks[n])]]
           Is(f) == f = [i \in 0 .. N |-> IF i = 0 THEN st
                                          ELSE LoopBody(f[i - 1], graph.tasks[i])]
           after == CHOOSE f : Is(f)
<1>1. N \in Nat /\ \A n \in 1 .. N : graph.tasks[n] \in T
  BY DEF Formed
<1>2. Loop(st) = after[N]
  BY DEF Loop
<1>3. D \in [1 .. N -> [S -> S]]
  <2> SUFFICES ASSUME NEW v \in S, NEW t \in T PROVE LoopBody(v, t) \in S
    BY <1>1
  <2>1. "READY" \in TaskStatus /\ "BLOCKED" \in TaskStatus
    BY DEF TaskStatus
  <2> QED
    BY <2>1 DEF LoopBody
<1> HIDE DEF N, Is
<1>4. PICK f : Iterates(f, N, S, st, D)
  <2> HIDE DEF D, after
  <2>1. st \in S
    OBVIOUS
  <2> HIDE DEF S
  <2> QED
    BY <1>1, <1>3, <2>1, Iteration
<1>5. Is(f)
  <2>1. \A n \in 1 .. N : n - 1 \in 0 .. N
    BY <1>1
  <2>2. \A n \in 1 .. N : f[n] = LoopBody(f[n - 1], graph.tasks[n])
    BY <1>4, <2>1 DEF Iterates
  <2> QED
    BY <1>1, <1>4, <2>2 DEF Iterates, Is
<1>6. Is(after)
  BY <1>5
<1> HIDE DEF after
<1>7. /\ after[0] = st
      /\ \A n \in 1 .. N : after[n] = LoopBody(after[n - 1], graph.tasks[n])
  <2>1. after = [i \in 0 .. N |-> IF i = 0 THEN st ELSE LoopBody(after[i - 1], graph.tasks[i])]
    BY <1>6 DEF Is
  <2>2. 0 \in 0 .. N /\ \A n \in 1 .. N : n \in 0 .. N /\ n # 0
    BY <1>1
  <2>3. \A n \in 0 .. N :
           after[n] = IF n = 0 THEN st ELSE LoopBody(after[n - 1], graph.tasks[n])
    BY <2>1, Zenon
  <2> QED
    BY <2>2, <2>3
<1> QED
  BY <1>2, <1>7 DEF N

(* The loop of update_states leaves what one sweep leaves.                   *)
THEOREM LoopIsASweep ==
    ASSUME Formed(graph), NEW st \in [TaskIds(graph) -> TaskStatus]
    PROVE  /\ UpdateStates(graph, st, Loop(st))
           /\ \A B \in SUBSET TaskIds(graph) :
                 SweepBlocks(graph, st, B) => Swept(graph, st, B) = Loop(st)
<1> DEFINE T == TaskIds(graph)
           N == Len(graph.tasks)
           place(t) == Position(graph.tasks, t)
<1>1. /\ graph.tasks \in Seq(T) /\ IsInjective(graph.tasks) /\ N \in Nat
      /\ graph.deps \in [T -> SUBSET T] /\ \A t \in T : t \notin graph.deps[t]
  BY DEF Formed
<1>2. PICK B \in SUBSET T : SweepBlocks(graph, st, B)
  BY SweepBlocksSomething
<1> DEFINE new == Swept(graph, st, B)
<1>3. new = [t \in T |-> IF t \in B THEN "BLOCKED"
                         ELSE IF st[t] \in Idle /\ IsReady(graph, st, t) THEN "READY"
                         ELSE st[t]]
  BY DEF Swept
<1>4. \A t \in T : t \in B <=> /\ st[t] \in Idle
                               /\ ~IsReady(graph, st, t)
                               /\ \/ IsBlockedByDependency(graph, st, t)
                                  \/ \E d \in graph.deps[t] \cap B : place(d) < place(t)
  BY <1>2 DEF SweepBlocks
<1> HIDE DEF new
<1>5. PICK f : /\ Loop(st) = f[N] /\ f[0] = st
               /\ \A n \in 1 .. N : f[n] = LoopBody(f[n - 1], graph.tasks[n])
  BY LoopRounds
<1>6. \A t \in T : place(t) \in 1 .. N
  BY <1>1, PositionFacts DEF TaskIds
<1>7. \A n \in 1 .. N : graph.tasks[n] \in T /\ place(graph.tasks[n]) = n
  BY <1>1, PlaceOf
<1>8. \A t \in T : graph.tasks[place(t)] = t
  BY <1>1, PositionFacts DEF TaskIds
<1> DEFINE At(n) == [t \in T |-> IF place(t) <= n THEN new[t] ELSE st[t]]
           Q == {n \in 0 .. N : f[n] = At(n)}
<1> HIDE DEF place, N
<1>9. 0 \in Q
  <2>1. \A t \in T : ~(place(t) <= 0)
    BY <1>1, <1>6
  <2>2. At(0) = st
    BY <2>1
  <2> QED
    BY <1>1, <1>5, <2>2
<1>10. ASSUME NEW n \in 1 .. N, n - 1 \in Q PROVE n \in Q
  <2> DEFINE t == graph.tasks[n]
             cur == At(n - 1)
  <2>1. f[n] = LoopBody(cur, t)
    BY <1>5, <1>10
  <2>2. t \in T /\ place(t) = n
    BY <1>7
  <2>3. \A u \in T : u # t => place(u) # n
    BY <1>8
  <2>4. \A u \in T : place(u) <= n <=> place(u) <= n - 1 \/ u = t
    BY <1>1, <1>6, <2>2, <2>3
  <2>5. cur[t] = st[t]
    BY <1>1, <2>2
  <2> HIDE DEF t
  <2>6. At(n) = [cur EXCEPT ![t] = new[t]]
    BY <2>2, <2>4
  <2>7. cur \in [T -> TaskStatus]
    BY <1>3 DEF TaskStatus
  <2>8. \A u \in T : cur[u] = IF place(u) <= n - 1 THEN new[u] ELSE st[u]
    OBVIOUS
  <2> HIDE DEF cur, At
  <2>9. \A u \in T : cur[u] = "DONE" <=> st[u] = "DONE"
    BY <1>3, <1>4, <2>8 DEF Idle
  <2>10. IsReady(graph, cur, t) <=> IsReady(graph, st, t)
    BY <1>1, <2>2, <2>5, <2>9 DEF IsReady
  <2>11. \A u \in T : cur[u] \in Broken <=> st[u] \in Broken \/ (u \in B /\ place(u) < place(t))
    <3> SUFFICES ASSUME NEW u \in T
                 PROVE  cur[u] \in Broken <=> st[u] \in Broken \/ (u \in B /\ place(u) < place(t))
      OBVIOUS
    <3>1. place(u) <= n - 1 <=> place(u) < place(t)
      BY <1>1, <1>6, <2>2
    <3>2. new[u] \in Broken <=> st[u] \in Broken \/ u \in B
      BY <1>3, <1>4 DEF Idle, Broken
    <3> QED
      BY <2>8, <3>1, <3>2
  <2>12. IsBlockedByDependency(graph, cur, t) <=>
            \/ IsBlockedByDependency(graph, st, t)
            \/ \E d \in graph.deps[t] \cap B : place(d) < place(t)
    BY <1>1, <2>2, <2>11 DEF IsBlockedByDependency
  <2>13. LoopBody(cur, t) = [cur EXCEPT ![t] = new[t]]
    <3>1. new[t] = IF t \in B THEN "BLOCKED"
                   ELSE IF st[t] \in Idle /\ IsReady(graph, st, t) THEN "READY"
                   ELSE st[t]
      BY <1>3, <2>2
    <3>2. cur = [cur EXCEPT ![t] = cur[t]]
      BY <2>7
    <3>3. CASE st[t] \notin Idle
      <4>1. LoopBody(cur, t) = cur /\ new[t] = cur[t]
        BY <1>4, <2>2, <2>5, <3>1, <3>3 DEF LoopBody
      <4> QED
        BY <3>2, <4>1
    <3>4. CASE st[t] \in Idle /\ IsReady(graph, st, t)
      <4>1. new[t] = "READY"
        BY <1>4, <2>2, <3>1, <3>4
      <4> QED
        BY <2>5, <2>10, <3>4, <4>1 DEF LoopBody
    <3>5. CASE st[t] \in Idle /\ ~IsReady(graph, st, t) /\ t \in B
      <4>1. new[t] = "BLOCKED" /\ IsBlockedByDependency(graph, cur, t)
        BY <1>4, <2>2, <2>12, <3>1, <3>5
      <4> QED
        BY <2>5, <2>10, <3>5, <4>1 DEF LoopBody
    <3>6. CASE st[t] \in Idle /\ ~IsReady(graph, st, t) /\ t \notin B
      <4>1. new[t] = cur[t] /\ ~IsBlockedByDependency(graph, cur, t)
        BY <1>4, <2>2, <2>5, <2>12, <3>1, <3>6
      <4>2. LoopBody(cur, t) = cur
        BY <2>5, <2>10, <3>6, <4>1 DEF LoopBody
      <4> QED
        BY <3>2, <4>1, <4>2
    <3> QED
      BY <3>3, <3>4, <3>5, <3>6
  <2>14. f[n] = At(n)
    BY <2>1, <2>6, <2>13
  <2>15. n \in 0 .. N
    BY <1>1
  <2> QED
    BY <2>14, <2>15
<1>11. N \in Q
  <2> HIDE DEF Q
  <2>1. \A n \in 0 .. N : n \in Q
    BY <1>1, <1>9, <1>10, UpTo
  <2> QED
    BY <1>1, <2>1
<1>12. Loop(st) = new
  <2>1. \A t \in T : place(t) <= N
    BY <1>1, <1>6
  <2>2. At(N) = [t \in T |-> new[t]]
    BY <2>1
  <2> QED
    BY <1>3, <1>5, <1>11, <2>2
<1>13. UpdateStates(graph, st, Loop(st))
  BY <1>2, <1>12 DEF UpdateStates, new
<1>14. ASSUME NEW C \in SUBSET T, SweepBlocks(graph, st, C)
       PROVE  Swept(graph, st, C) = Loop(st)
  <2>1. UpdateStates(graph, st, Swept(graph, st, C))
    BY <1>14 DEF UpdateStates
  <2> HIDE DEF T
  <2> QED
    BY <1>1, <1>13, <2>1, SweepIsDetermined
<1> QED
  BY <1>13, <1>14

(* The first of the least: what is taken is at a place of the list that no   *)
(* smaller key, and no equal one before it, is at.                          *)
LEMMA LeastIsFirst ==
    ASSUME NEW X, NEW list \in Seq(X), list # << >>, DispatchOrder(graph) \in Seq(X)
    PROVE  \E p \in 1 .. Len(list) :
             /\ Least(list) = list[p]
             /\ \A j \in 1 .. Len(list) :
                   LET a == Position(DispatchOrder(graph), list[p])
                       b == Position(DispatchOrder(graph), list[j])
                   IN  a < b \/ (a = b /\ p <= j)
<1> DEFINE N == Len(list)
           key(t) == Position(DispatchOrder(graph), t)
           Step(n, v) == IF key(list[n]) < key(v) THEN list[n] ELSE v
           D == [n \in 1 .. N |-> [v \in X |-> Step(n, v)]]
           Is(f) == f = [i \in 0 .. N |-> IF i = 0 THEN list[1] ELSE Step(i, f[i - 1])]
           best == CHOOSE f : Is(f)
<1>1. N \in Nat /\ N > 0 /\ (\A n \in 1 .. N : list[n] \in X) /\ list[1] \in X
  OBVIOUS
<1>2. \A t : key(t) \in Nat
  BY PositionFacts
<1>3. Least(list) = best[N]
  BY DEF Least
<1> HIDE DEF N, key, Is
<1>4. D \in [1 .. N -> [X -> X]]
  BY <1>1
<1>5. PICK f : Iterates(f, N, X, list[1], D)
  <2> HIDE DEF D, best
  <2> QED
    BY <1>1, <1>4, Iteration
<1>6. Is(f)
  <2>1. \A n \in 1 .. N : n - 1 \in 0 .. N
    BY <1>1
  <2>2. \A n \in 1 .. N : f[n] = Step(n, f[n - 1])
    BY <1>5, <2>1 DEF Iterates
  <2> HIDE DEF Step
  <2> QED
    BY <1>1, <1>5, <2>2 DEF Iterates, Is
<1>7. Is(best)
  BY <1>6
<1> HIDE DEF best
<1>8. best[0] = list[1] /\ \A n \in 1 .. N : best[n] = Step(n, best[n - 1])
  <2>1. best = [i \in 0 .. N |-> IF i = 0 THEN list[1] ELSE Step(i, best[i - 1])]
    BY <1>7 DEF Is
  <2>2. 0 \in 0 .. N /\ \A n \in 1 .. N : n \in 0 .. N /\ n # 0
    BY <1>1
  <2> HIDE DEF Step
  <2>3. \A n \in 0 .. N : best[n] = IF n = 0 THEN list[1] ELSE Step(n, best[n - 1])
    BY <2>1, Zenon
  <2> QED
    BY <2>2, <2>3
<1> DEFINE At(n, p) == /\ best[n] = list[p] /\ (p <= n \/ p = 1)
                       /\ \A j \in 1 .. n : \/ key(list[p]) < key(list[j])
                                            \/ key(list[p]) = key(list[j]) /\ p <= j
           Q == {n \in 0 .. N : \E p \in 1 .. N : At(n, p)}
<1>9. 0 \in Q
  <2>1. At(0, 1)
    BY <1>8
  <2> HIDE DEF At
  <2> QED
    BY <1>1, <2>1
<1>10. ASSUME NEW n \in 1 .. N, n - 1 \in Q PROVE n \in Q
  <2>1. PICK p \in 1 .. N : At(n - 1, p)
    BY <1>10
  <2>2. best[n] = IF key(list[n]) < key(list[p]) THEN list[n] ELSE list[p]
    BY <1>8, <2>1
  <2>3. \A j \in 1 .. n : j \in 1 .. n - 1 \/ j = n
    BY <1>1
  <2>4. CASE key(list[n]) < key(list[p])
    <3>1. At(n, n)
      <4>1. ASSUME NEW j \in 1 .. n
            PROVE  key(list[n]) < key(list[j]) \/ (key(list[n]) = key(list[j]) /\ n <= j)
        <5>1. CASE j = n
          BY <1>1, <5>1
        <5>2. CASE j \in 1 .. n - 1
          <6>1. key(list[p]) <= key(list[j])
            BY <1>2, <2>1, <5>2
          <6> QED
            BY <1>2, <2>4, <6>1
        <5> QED
          BY <2>3, <5>1, <5>2
      <4> QED
        BY <1>1, <2>2, <2>4, <4>1
    <3> HIDE DEF At
    <3> QED
      BY <1>1, <3>1
  <2>5. CASE ~(key(list[n]) < key(list[p]))
    <3>1. p <= n
      BY <1>1, <2>1
    <3>2. At(n, p)
      <4>1. ASSUME NEW j \in 1 .. n
            PROVE  key(list[p]) < key(list[j]) \/ (key(list[p]) = key(list[j]) /\ p <= j)
        <5>1. CASE j = n
          BY <1>2, <2>5, <3>1, <5>1
        <5>2. CASE j \in 1 .. n - 1
          BY <2>1, <5>2
        <5> QED
          BY <2>3, <5>1, <5>2
      <4> QED
        BY <2>2, <2>5, <3>1, <4>1
    <3> HIDE DEF At
    <3> QED
      BY <1>1, <3>2
  <2> QED
    BY <2>4, <2>5
<1>11. N \in Q
  <2> HIDE DEF Q
  <2>1. \A n \in 0 .. N : n \in Q
    BY <1>1, <1>9, <1>10, UpTo
  <2> QED
    BY <1>1, <2>1
<1>12. PICK p \in 1 .. N : At(N, p)
  BY <1>11
<1> QED
  BY <1>3, <1>12 DEF N, key

(* The least of the ready tasks, as they stand in the list, is the first in  *)
(* dispatch order.                                                         *)
THEOREM FirstIsTheSortedHead ==
    ASSUME Formed(graph), graph.topo \in Seq(TaskIds(graph)),
           NEW S \in SUBSET TaskIds(graph), Filtered(graph.tasks, S) # << >>
    PROVE  \A t \in TaskIds(graph) :
              IsFirst(graph, S, t) <=> t = Least(Filtered(graph.tasks, S))
<1> DEFINE T == TaskIds(graph)
           list == Filtered(graph.tasks, S)
           key(t) == Position(DispatchOrder(graph), t)
           place(t) == Position(graph.tasks, t)
<1>1. graph.tasks \in Seq(T) /\ IsInjective(graph.tasks) /\ Len(graph.tasks) \in Nat
  BY DEF Formed
<1>2. list \in Seq(T) /\ Elements(list) = T \cap S
  <2>1. Elements(graph.tasks) = T
    BY DEF Elements, TaskIds
  <2> HIDE DEF T
  <2> QED
    BY <1>1, <2>1, FilteredElements
<1>3. PICK at : Places(graph.tasks, S, Len(graph.tasks), list, at)
  BY <1>1, FilteredPlaces
<1>4. DispatchOrder(graph) \in Seq(T)
  BY <1>1 DEF DispatchOrder
<1> HIDE DEF list, T
<1>5. PICK p \in 1 .. Len(list) :
         /\ Least(list) = list[p]
         /\ \A j \in 1 .. Len(list) :
               key(list[p]) < key(list[j]) \/ (key(list[p]) = key(list[j]) /\ p <= j)
  BY <1>2, <1>4, LeastIsFirst DEF list
<1>6. \A j \in 1 .. Len(list) : place(list[j]) = at[j] /\ at[j] \in Nat
  <2>1. \A j \in 1 .. Len(list) : at[j] \in 1 .. Len(graph.tasks) /\ list[j] = graph.tasks[at[j]]
    BY <1>3 DEF Places
  <2> QED
    BY <1>1, <2>1, PlaceOf
<1>7. list[p] \in T /\ list[p] \in S
  BY <1>2, <1>5 DEF Elements
<1> HIDE DEF key, place
<1>8. ASSUME NEW u \in S \ {list[p]} PROVE Before(graph, list[p], u)
  <2>1. PICK j \in 1 .. Len(list) : u = list[j]
    BY <1>2, <1>8 DEF Elements, T
  <2>2. CASE key(list[p]) < key(u)
    BY <2>2 DEF Before, key
  <2>3. CASE key(list[p]) = key(u) /\ p <= j
    <3>1. Len(list) \in Nat /\ p < j
      BY <1>2, <1>8, <2>1, <2>3
    <3>2. at[p] < at[j]
      BY <1>3, <2>1, <3>1 DEF Places
    <3>3. place(list[p]) < place(u)
      BY <1>6, <2>1, <3>2
    <3> QED
      BY <2>3, <3>3 DEF Before, key, place
  <2> QED
    BY <1>5, <2>1, <2>2, <2>3
<1>9. IsFirst(graph, S, list[p])
  BY <1>7, <1>8 DEF IsFirst
<1>10. PICK h \in S : \A u : IsFirst(graph, S, u) <=> u = h
  <2>1. S # {}
    BY <1>7
  <2> QED
    BY <1>1, <2>1, HeadIsDetermined DEF T
<1> QED
  BY <1>5, <1>9, <1>10 DEF list

LEMMA ScheduledFacts ==
    ASSUME PlanInv, Scheduled
    PROVE  Formed(graph) /\ graph.topo \in Seq(TaskIds(graph))
BY DEF PlanInv, Scheduled

(* On every graph a model's answer leads to, one sweep of update_states is   *)
(* the loop over the list of tasks (scheduler.py:31).                       *)
THEOREM SweepsAreLoops == Spec => []SweepIsTheLoop
<1>1. PlanInv => SweepIsTheLoop
  <2> SUFFICES ASSUME PlanInv, Scheduled, NEW st \in Statuses
               PROVE  /\ UpdateStates(graph, st, Loop(st))
                      /\ \A B \in SUBSET TaskIds(graph) :
                            SweepBlocks(graph, st, B) => Swept(graph, st, B) = Loop(st)
    BY DEF SweepIsTheLoop
  <2>1. st \in [TaskIds(graph) -> TaskStatus]
    BY DEF Statuses
  <2> QED
    BY <2>1, ScheduledFacts, LoopIsASweep
<1> QED
  BY <1>1, PlanInvHolds, PTL

(* On every graph a model's answer leads to, what is dispatched first is the *)
(* head of the stable sort of the ready tasks (scheduler.py:50).             *)
THEOREM FirstsAreSortedHeads == Spec => []FirstIsSortedHead
<1>1. PlanInv => FirstIsSortedHead
  <2> SUFFICES ASSUME PlanInv, Scheduled, NEW st \in Statuses,
                      Filtered(graph.tasks, ReadyTasks(graph, st)) # << >>
               PROVE  \A t \in TaskIds(graph) :
                         IsFirst(graph, ReadyTasks(graph, st), t) <=>
                            t = Least(Filtered(graph.tasks, ReadyTasks(graph, st)))
    BY DEF FirstIsSortedHead
  <2>1. ReadyTasks(graph, st) \in SUBSET TaskIds(graph)
    BY DEF ReadyTasks
  <2> QED
    BY <2>1, ScheduledFacts, FirstIsTheSortedHead
<1> QED
  BY <1>1, PlanInvHolds, PTL

(* Where a model lists every task after what it needs, one sweep settles all *)
(* there is to settle (scheduler.py:31).                                    *)
THEOREM OneSweepAlwaysSuffices == Spec => []OneSweepSuffices
<1>1. PlanInv => OneSweepSuffices
  <2> SUFFICES ASSUME PlanInv, Scheduled,
                      \A t \in TaskIds(graph) : \A u \in graph.deps[t] :
                         Position(graph.tasks, u) < Position(graph.tasks, t),
                      NEW st \in Statuses, NEW B \in SUBSET TaskIds(graph),
                      SweepBlocks(graph, st, B)
               PROVE  LET new == Swept(graph, st, B)
                      IN  /\ \A t \in TaskIds(graph) : \A u \in graph.deps[t] :
                                new[t] \in Idle => new[u] \notin Broken
                          /\ Loop(new) = new
    BY DEF OneSweepSuffices
  <2> DEFINE new == Swept(graph, st, B)
             T == TaskIds(graph)
  <2>1. /\ Formed(graph) /\ graph.tasks \in Seq(T)
        /\ \A t \in T : graph.deps[t] \subseteq T
    BY ScheduledFacts DEF Formed
  <2>2. st \in [T -> TaskStatus]
    BY DEF Statuses
  <2>3. new \in [T -> TaskStatus]
    BY <2>2 DEF Swept, TaskStatus
  <2>4. UpdateStates(graph, st, new)
    BY DEF UpdateStates
  <2> HIDE DEF new
  <2>5. /\ \A t \in T : \A d \in graph.deps[t] \cap T : new[t] \in Idle => new[d] \notin Broken
        /\ \A again : UpdateStates(graph, new, again) => again = new
    BY <2>1, <2>2, <2>4, OneSweepIsEnough
  <2>6. UpdateStates(graph, new, Loop(new))
    BY <2>1, <2>3, LoopIsASweep
  <2> QED
    BY <2>1, <2>5, <2>6 DEF new
<1> QED
  BY <1>1, PlanInvHolds, PTL
===============================================================================
