------------------------- MODULE EvictWindowProofs -------------------------
(***************************************************************************)
(* Proofs about EvictWindow for every size of ring and buffer and every    *)
(* window: the two bounded histories count what the complete ones would.   *)
(*                                                                         *)
(* Both keep the newest entries of a history whose times never decrease,   *)
(* and give up an older one only when they are full or it has left the     *)
(* window.  HistoryCounted shows that such a part counts as well as the    *)
(* whole.                                                                  *)
(***************************************************************************)
EXTENDS EvictWindow, FiniteSetTheorems, FunctionTheorems, TLAPS

-----------------------------------------------------------------------------
(* Counting.                                                               *)

\* A set of naturals that is closed downwards is an interval.
LEMMA DownwardClosed ==
    ASSUME NEW S \in SUBSET Nat, IsFiniteSet(S), \A x \in S : \A y \in 0 .. x : y \in S
    PROVE  Cardinality(S) \in Nat /\ S = 0 .. Cardinality(S) - 1
<1>. DEFINE k == Cardinality(S)
<1>1. k \in Nat
  BY FS_CardinalityType
<1>2. ASSUME NEW x \in S PROVE x < k
  <2>1. 0 .. x \in SUBSET S /\ x \in Nat
    OBVIOUS
  <2>2. Cardinality(0 .. x) = x + 1
    BY <2>1, FS_Interval
  <2>3. Cardinality(0 .. x) <= k
    BY <2>1, FS_Subset
  <2>. QED  BY <1>1, <2>1, <2>2, <2>3
<1>. HIDE DEF k
<1>3. S \in SUBSET (0 .. k - 1)
  BY <1>1, <1>2
<1>4. IsFiniteSet(0 .. k - 1) /\ Cardinality(0 .. k - 1) = k
  BY <1>1, FS_Interval
<1>5. S = 0 .. k - 1
  BY <1>3, <1>4, FS_Subset DEF k
<1>. QED  BY <1>1, <1>5 DEF k

\* A function that is one-to-one and onto carries the cardinality over.
LEMMA SameCardinality ==
    ASSUME NEW S, NEW T, IsFiniteSet(S), NEW f \in [S -> T],
           \A a, b \in S : f[a] = f[b] => a = b, \A t \in T : \E s \in S : f[s] = t
    PROVE  IsFiniteSet(T) /\ Cardinality(T) = Cardinality(S)
<1>1. f \in Bijection(S, T)
  BY Fun_IsBij
<1>2. ExistsBijection(S, T)
  BY <1>1 DEF ExistsBijection
<1>. QED  BY <1>2, FS_Bijection

\* E is a history of <<number, time>>, N its latest number, g the times of its c
\* newest entries, newest first.  An older entry is missing from g only if g is
\* full or the entry was before t.
Newest(E, N, c, g, R, t) ==
    /\ IsFiniteSet(E) /\ \A e \in E : /\ e[1] \in Nat /\ e[1] <= N /\ e[2] \in Nat
                                      /\ e = <<e[1], e[2]>>
    /\ \A d, e \in E : d[1] = e[1] => d = e
    /\ \A d, e \in E : d[1] < e[1] => d[2] <= e[2]
    /\ \A i \in 0 .. c - 1 : g[i] \in Nat /\ <<N - i, g[i]>> \in E
    /\ \A e \in E : N - e[1] >= c => c = R \/ e[2] < t

Inside(c, g, t) == {i \in 0 .. c - 1 : g[i] >= t}
Since(E, t) == {e \in E : e[2] >= t}

LEMMA InsideClosed ==
    ASSUME NEW E, NEW N \in Nat, NEW R \in Nat, NEW c \in 0 .. R, NEW g, NEW t \in Int,
           Newest(E, N, c, g, R, t)
    PROVE  /\ IsFiniteSet(Inside(c, g, t)) /\ Cardinality(Inside(c, g, t)) \in 0 .. c
           /\ Inside(c, g, t) = 0 .. Cardinality(Inside(c, g, t)) - 1
<1>. DEFINE W == Inside(c, g, t)
<1>1. W \in SUBSET (0 .. c - 1) /\ W \in SUBSET Nat
  BY DEF Inside
<1>2. ASSUME NEW x \in W, NEW y \in 0 .. x PROVE y \in W
  <2>1. x \in 0 .. c - 1 /\ y \in 0 .. c - 1 /\ g[x] >= t
    BY <1>2 DEF Inside
  <2>2. /\ g[x] \in Nat /\ <<N - x, g[x]>> \in E
        /\ g[y] \in Nat /\ <<N - y, g[y]>> \in E
    BY <2>1 DEF Newest
  <2>3. CASE x = y
    BY <2>3
  <2>4. CASE x # y
    <3>1. N - x < N - y
      BY <2>1, <2>4
    <3>2. g[x] <= g[y]
      BY <2>2, <3>1 DEF Newest
    <3>. QED  BY <2>1, <2>2, <3>2 DEF Inside
  <2>. QED  BY <2>3, <2>4
<1>3. IsFiniteSet(0 .. c - 1) /\ Cardinality(0 .. c - 1) = c
  BY FS_Interval
<1>4. IsFiniteSet(W) /\ Cardinality(W) <= c
  BY <1>1, <1>3, FS_Subset
<1>5. Cardinality(W) \in Nat /\ W = 0 .. Cardinality(W) - 1
  <2>. HIDE DEF W
  <2>. QED  BY <1>1, <1>2, <1>4, DownwardClosed
<1>. QED  BY <1>4, <1>5

\* The newest entries count the entries since t, up to their own number, and
\* none of those is missing from them unless they are full.
Counts(E, N, c, g, R, t) ==
    /\ IsFiniteSet(Since(E, t)) /\ Cardinality(Since(E, t)) \in Nat
    /\ Cardinality(Inside(c, g, t)) =
          IF Cardinality(Since(E, t)) < R THEN Cardinality(Since(E, t)) ELSE R
    /\ \A e \in Since(E, t) : \/ N - e[1] < Cardinality(Inside(c, g, t))
                              \/ Cardinality(Inside(c, g, t)) = R

LEMMA HistoryCounted ==
    ASSUME NEW E, NEW N \in Nat, NEW R \in Nat, NEW c \in 0 .. R, NEW g, NEW t \in Int,
           Newest(E, N, c, g, R, t)
    PROVE  Counts(E, N, c, g, R, t)
<1>. DEFINE W == Inside(c, g, t)
            RE == Since(E, t)
            f == [i \in W |-> <<N - i, g[i]>>]
<1>1. IsFiniteSet(RE) /\ Cardinality(RE) \in Nat
  <2>1. RE \in SUBSET E /\ IsFiniteSet(E)
    BY DEF Since, Newest
  <2>. QED  BY <2>1, FS_Subset, FS_CardinalityType
<1>2. /\ IsFiniteSet(W) /\ Cardinality(W) \in 0 .. c /\ W = 0 .. Cardinality(W) - 1
      /\ \A i \in W : i \in 0 .. c - 1
  <2>1. \A i \in W : i \in 0 .. c - 1
    BY DEF Inside
  <2>. QED  BY <2>1, InsideClosed
<1>3. f \in [W -> RE]
  BY DEF Inside, Since, Newest
<1>4. \A a, b \in W : f[a] = f[b] => a = b
  BY <1>2
<1>5. CASE \E e \in RE : N - e[1] >= c
  <2>1. PICK e \in RE : N - e[1] >= c
    BY <1>5
  <2>2. /\ e \in E /\ e[2] >= t /\ c = R /\ e[1] \in Nat /\ e[1] <= N /\ e[2] \in Nat
    BY <2>1 DEF Since, Newest
  <2>3. ASSUME NEW i \in 0 .. c - 1 PROVE i \in W
    <3>1. g[i] \in Nat /\ <<N - i, g[i]>> \in E /\ e[1] < N - i
      BY <2>1, <2>2, <2>3 DEF Newest
    <3>2. e[2] <= g[i]
      BY <2>2, <3>1 DEF Newest
    <3>. QED  BY <2>2, <3>1, <3>2 DEF Inside
  <2>4. W = 0 .. R - 1
    BY <1>2, <2>2, <2>3
  <2>5. Cardinality(W) = R
    BY <2>4, FS_Interval
  <2>6. Cardinality(W) <= Cardinality(RE)
    <3>1. f \in Injection(W, RE)
      BY <1>3, <1>4, Fun_IsInj
    <3>. QED  BY <3>1, <1>1, FS_Injection
  <2>. QED  BY <1>1, <2>5, <2>6 DEF Counts
<1>6. CASE \A e \in RE : N - e[1] < c
  <2>1. ASSUME NEW e \in RE PROVE N - e[1] \in W /\ f[N - e[1]] = e
    <3>1. /\ e \in E /\ e[2] >= t /\ e[1] \in Nat /\ e[1] <= N /\ e[2] \in Nat
          /\ e = <<e[1], e[2]>>
      BY DEF Since, Newest
    <3>. DEFINE i == N - e[1]
    <3>2. i \in 0 .. c - 1 /\ N - i = e[1]
      BY <1>6, <3>1
    <3>. HIDE DEF i
    <3>3. g[i] \in Nat /\ <<N - i, g[i]>> \in E
      BY <3>2 DEF Newest
    <3>4. <<N - i, g[i]>> = e
      BY <3>1, <3>2, <3>3 DEF Newest
    <3>5. g[i] = e[2]
      BY <3>4
    <3>6. i \in W
      BY <3>1, <3>2, <3>5 DEF Inside
    <3>. QED  BY <3>4, <3>6 DEF i
  <2>2. \A e \in RE : \E i \in W : f[i] = e
    BY <2>1
  <2>3. Cardinality(RE) = Cardinality(W)
    <3>. HIDE DEF f, W, RE
    <3>. QED  BY <1>2, <1>3, <1>4, <2>2, SameCardinality
  <2>4. \A e \in RE : N - e[1] < Cardinality(W)
    <3>. HIDE DEF f, W, RE
    <3>1. \A i \in W : i < Cardinality(W)
      BY <1>2
    <3>. QED  BY <2>1, <3>1
  <2>. QED  BY <1>1, <1>2, <2>3, <2>4 DEF Counts
<1>7. \A e \in RE : N - e[1] \in Int
  BY DEF Since, Newest
<1>. QED  BY <1>5, <1>6, <1>7

\* The window moves on: what had left it stays out.
LEMMA NewestLater ==
    ASSUME NEW E, NEW N \in Nat, NEW R \in Nat, NEW c \in 0 .. R, NEW g, NEW t \in Int,
           Newest(E, N, c, g, R, t), NEW u \in Int, t <= u \/ t = 0
    PROVE  Newest(E, N, c, g, R, u)
<1>1. \A e \in E : N - e[1] >= c => c = R \/ e[2] < u
  BY DEF Newest
<1>. QED  BY <1>1 DEF Newest

\* An empty history.
LEMMA NewestEmpty == ASSUME NEW N \in Nat, NEW g, NEW R, NEW t PROVE Newest({}, N, 0, g, R, t)
  BY FS_EmptySet DEF Newest

\* A new entry in front; k are the entries kept behind it.
LEMMA NewestAdd ==
    ASSUME NEW E, NEW N \in Nat, NEW R \in Nat, NEW c \in 0 .. R, NEW g, NEW t \in Int,
           Newest(E, N, c, g, R, t),
           NEW time \in Nat, \A e \in E : e[2] <= time,
           NEW k \in 0 .. R - 1, NEW h, h[0] = time,
           \A i \in 1 .. k : i - 1 \in 0 .. c - 1 /\ h[i] = g[i - 1],
           \A e \in E : N - e[1] >= k => k + 1 = R \/ e[2] < t
    PROVE  Newest(E \cup {<<N + 1, time>>}, N + 1, k + 1, h, R, t)
<1>. DEFINE new == <<N + 1, time>>
            F == E \cup {new}
<1>1. IsFiniteSet(F)
  BY FS_AddElement DEF Newest
<1>2. \A e \in E : /\ e[1] \in Nat /\ e[1] <= N /\ e[2] \in Nat /\ e = <<e[1], e[2]>>
  BY DEF Newest
<1>3. new[1] = N + 1 /\ new[2] = time /\ new = <<new[1], new[2]>>
  OBVIOUS
<1>. HIDE DEF new
<1>4. \A e \in F : /\ e[1] \in Nat /\ e[1] <= N + 1 /\ e[2] \in Nat /\ e = <<e[1], e[2]>>
  BY <1>2, <1>3
<1>5. \A d, e \in F : d[1] = e[1] => d = e
  <2>1. \A e \in E : e[1] # new[1]
    BY <1>2, <1>3
  <2>2. \A d, e \in E : d[1] = e[1] => d = e
    BY DEF Newest
  <2>. QED  BY <2>1, <2>2
<1>6. \A d, e \in F : d[1] < e[1] => d[2] <= e[2]
  <2>1. \A e \in E : ~(new[1] < e[1])
    BY <1>2, <1>3
  <2>2. \A d, e \in E : d[1] < e[1] => d[2] <= e[2]
    BY DEF Newest
  <2>3. \A d \in E : d[2] <= new[2]
    BY <1>3
  <2>4. ~(new[1] < new[1])
    BY <1>3
  <2>. QED  BY <2>1, <2>2, <2>3, <2>4
<1>7. ASSUME NEW i \in 0 .. k PROVE h[i] \in Nat /\ <<N + 1 - i, h[i]>> \in F
  <2>1. CASE i = 0
    <3>1. N + 1 - i = N + 1 /\ h[i] = time
      BY <2>1
    <3>. QED  BY <3>1 DEF new
  <2>2. CASE i # 0
    <3>1. i - 1 \in 0 .. c - 1 /\ h[i] = g[i - 1] /\ N + 1 - i = N - (i - 1)
      BY <2>2
    <3>2. g[i - 1] \in Nat /\ <<N - (i - 1), g[i - 1]>> \in E
      BY <3>1 DEF Newest
    <3>. QED  BY <3>1, <3>2
  <2>. QED  BY <2>1, <2>2
<1>8. ASSUME NEW e \in F, N + 1 - e[1] >= k + 1 PROVE k + 1 = R \/ e[2] < t
  <2>1. e # new
    BY <1>3, <1>8
  <2>2. e \in E /\ N - e[1] >= k
    BY <1>2, <1>8, <2>1
  <2>. QED  BY <2>2
<1>9. Newest(F, N + 1, k + 1, h, R, t)
  <2>. DEFINE M == N + 1
              l == k + 1
  <2>. HIDE DEF F
  <2>1. \A i \in 0 .. l - 1 : h[i] \in Nat /\ <<M - i, h[i]>> \in F
    BY <1>7
  <2>2. ASSUME NEW e \in F, M - e[1] >= l PROVE l = R \/ e[2] < t
    BY <1>4, <1>8, <2>2
  <2>3. \A e \in F : /\ e[1] \in Nat /\ e[1] <= M /\ e[2] \in Nat /\ e = <<e[1], e[2]>>
    BY <1>4
  <2>. HIDE DEF M, l
  <2>4. Newest(F, M, l, h, R, t)
    BY <1>1, <1>5, <1>6, <2>1, <2>2, <2>3 DEF Newest
  <2>. QED  BY <2>4 DEF M, l
<1>. QED  BY <1>9 DEF new

-----------------------------------------------------------------------------
(* The inductive invariant.                                                *)

RingTimes == [i \in 0 .. RING_SIZE - 1 |-> thrash_ring[Back(i)]]
FailTimes == [d \in 0 .. class_a_fail_count - 1 |-> class_a_fail_ts[class_a_fail_count - 1 - d]]

\* The ring gives up an eviction only when it is full.
RingInv == /\ Newest(evictions, noted["evict"], thrash_ring_count, RingTimes, RING_SIZE, 0)
           /\ \A e \in evictions : e[2] <= now

\* The buffer gives up a failure when it is full or the failure is out of the
\* window.
FailInv == /\ Newest(fails, noted["fail"], class_a_fail_count, FailTimes, THRESHOLD,
                     now - FAIL_WINDOW)
           /\ \A e \in fails : e[2] <= now

WindowInv == TypeOK /\ RingInv /\ FailInv

\* The walk and the recent events in terms of a point in time.
LEMMA RecentSince ==
    ASSUME NEW E, \A e \in E : e[2] \in Nat, now \in Nat, NEW w \in Nat
    PROVE  Recent(E, w) = Cardinality(Since(E, now - w))
<1>1. {e \in E : now - e[2] <= w} = Since(E, now - w)
  BY DEF Since
<1>. QED  BY <1>1 DEF Recent

\* The walk of thrash_win_count stops where the window ends.
LEMMA WalkInside ==
    ASSUME TypeOK, RingInv
    PROVE  thrash_win_count = Cardinality(Inside(thrash_ring_count, RingTimes, now - WINDOW))
<1>. DEFINE c == thrash_ring_count
            t == now - WINDOW
            W == Inside(c, RingTimes, t)
            walk == {i \in 0 .. c - 1 : \A j \in 0 .. i : now - thrash_ring[Back(j)] <= WINDOW}
<1>1. /\ c \in 0 .. RING_SIZE /\ t \in Int /\ now \in Int /\ WINDOW \in Int
      /\ noted["evict"] \in Nat /\ RING_SIZE \in Nat
  BY WindowAssumption DEF TypeOK, Kinds
<1>2. Newest(evictions, noted["evict"], c, RingTimes, RING_SIZE, t)
  BY <1>1, NewestLater DEF RingInv
<1>3. Cardinality(W) \in Nat /\ W = 0 .. Cardinality(W) - 1
  BY <1>1, <1>2, InsideClosed
<1>4. \A j \in 0 .. c - 1 : RingTimes[j] = thrash_ring[Back(j)] /\ RingTimes[j] \in Nat
  <2>1. \A j \in 0 .. c - 1 : RingTimes[j] \in Nat
    BY <1>2 DEF Newest
  <2>2. \A j \in 0 .. c - 1 : RingTimes[j] = thrash_ring[Back(j)]
    BY <1>1 DEF RingTimes
  <2>. QED  BY <2>1, <2>2
<1>5. \A j \in 0 .. c - 1 : j \in W <=> now - thrash_ring[Back(j)] <= WINDOW
  BY <1>1, <1>4 DEF Inside
<1>6. \A i \in W : i \in 0 .. c - 1 /\ \A j \in 0 .. i : j \in W /\ j \in 0 .. c - 1
  <2>1. \A i \in W : i \in 0 .. c - 1
    BY DEF Inside
  <2>. HIDE DEF W
  <2>. QED  BY <1>1, <1>3, <2>1
<1>. HIDE DEF W, t
<1>7. \A i \in walk : i \in W
  BY <1>1, <1>5
<1>8. \A i \in W : i \in walk
  BY <1>5, <1>6
<1>9. walk = W
  BY <1>6, <1>7, <1>8
<1>. QED  BY <1>9 DEF thrash_win_count, W, t

\* So the ring counts what the complete history would.
LEMMA RingCounts == ASSUME TypeOK, RingInv PROVE WinCountExact /\ Recent(evictions, WINDOW) \in Nat
<1>. DEFINE t == now - WINDOW
<1>1. /\ thrash_ring_count \in 0 .. RING_SIZE /\ t \in Int /\ now \in Nat /\ WINDOW \in Nat
      /\ noted["evict"] \in Nat /\ RING_SIZE \in Nat
  BY WindowAssumption DEF TypeOK, Kinds
<1>2. Newest(evictions, noted["evict"], thrash_ring_count, RingTimes, RING_SIZE, t)
  BY <1>1, NewestLater DEF RingInv
<1>3. Recent(evictions, WINDOW) = Cardinality(Since(evictions, t))
  BY <1>1, <1>2, RecentSince DEF Newest
<1>4. Counts(evictions, noted["evict"], thrash_ring_count, RingTimes, RING_SIZE, t)
  BY <1>1, <1>2, HistoryCounted
<1>. QED  BY <1>3, <1>4, WalkInside DEF Counts, WinCountExact

-----------------------------------------------------------------------------
(* Evictions.                                                              *)

\* A remainder below twice the divisor.
LEMMA WrapOnce ==
    ASSUME NEW n \in Nat \ {0}, NEW a \in 0 .. n + n - 1
    PROVE  a % n = IF a < n THEN a ELSE a - n
  OBVIOUS

\* The place i before the newest one, without the remainder.
Before(head, i) == IF head - 1 - i >= 0 THEN head - 1 - i ELSE head - 1 - i + RING_SIZE

LEMMA BackIsBefore ==
    ASSUME thrash_ring_head \in 0 .. RING_SIZE - 1, NEW i \in 0 .. RING_SIZE - 1
    PROVE  Back(i) = Before(thrash_ring_head, i) /\ Back(i) \in 0 .. RING_SIZE - 1
<1>. DEFINE a == thrash_ring_head + RING_SIZE - 1 - i
<1>0. RING_SIZE \in Nat \ {0}
  BY WindowAssumption
<1>1. a \in 0 .. RING_SIZE + RING_SIZE - 1
  BY <1>0
<1>2. Back(i) = a % RING_SIZE
  BY DEF Back
<1>. HIDE DEF a
<1>3. Back(i) = IF a < RING_SIZE THEN a ELSE a - RING_SIZE
  BY <1>0, <1>1, <1>2, WrapOnce
<1>. QED  BY <1>0, <1>3 DEF a, Before

\* Writing at the head puts an entry in front of the others.
LEMMA RingShift ==
    ASSUME TypeOK, thrash_ring' = [thrash_ring EXCEPT ![thrash_ring_head] = now],
           thrash_ring_head' = HeadAfter
    PROVE  /\ thrash_ring_head' \in 0 .. RING_SIZE - 1
           /\ RingTimes'[0] = now
           /\ \A i \in 1 .. RING_SIZE - 1 : RingTimes'[i] = RingTimes[i - 1]
<1>. DEFINE h == thrash_ring_head
<1>0. RING_SIZE \in Nat \ {0} /\ h \in 0 .. RING_SIZE - 1 /\ h + 1 \in 0 .. RING_SIZE + RING_SIZE - 1
  BY WindowAssumption DEF TypeOK
<1>1. thrash_ring_head' = IF h + 1 < RING_SIZE THEN h + 1 ELSE 0
  <2>. DEFINE a == h + 1
  <2>1. a \in 0 .. RING_SIZE + RING_SIZE - 1 /\ thrash_ring_head' = a % RING_SIZE
    BY <1>0 DEF HeadAfter
  <2>. HIDE DEF a
  <2>2. thrash_ring_head' = IF a < RING_SIZE THEN a ELSE a - RING_SIZE
    BY <1>0, <2>1, WrapOnce
  <2>. QED  BY <1>0, <2>2 DEF a
<1>2. thrash_ring_head' \in 0 .. RING_SIZE - 1
  BY <1>0, <1>1
<1>3. \A i \in 0 .. RING_SIZE - 1 : Back(i)' = Before(thrash_ring_head', i)
  <2>. SUFFICES ASSUME NEW i \in 0 .. RING_SIZE - 1 PROVE Back(i)' = Before(thrash_ring_head', i)
    OBVIOUS
  <2>. DEFINE a == thrash_ring_head' + RING_SIZE - 1 - i
  <2>1. a \in 0 .. RING_SIZE + RING_SIZE - 1
    BY <1>0, <1>2
  <2>2. Back(i)' = a % RING_SIZE
    BY DEF Back
  <2>. HIDE DEF a
  <2>3. Back(i)' = IF a < RING_SIZE THEN a ELSE a - RING_SIZE
    BY <1>0, <2>1, <2>2, WrapOnce
  <2>. QED  BY <1>0, <1>2, <2>3 DEF a, Before
<1>4. Back(0)' = h
  <2>1. 0 \in 0 .. RING_SIZE - 1
    BY <1>0
  <2>2. Back(0)' = Before(thrash_ring_head', 0)
    BY <1>3, <2>1
  <2>. QED  BY <1>0, <1>1, <2>2 DEF Before
<1>5. ASSUME NEW i \in 1 .. RING_SIZE - 1
      PROVE  /\ i - 1 \in 0 .. RING_SIZE - 1 /\ i \in 0 .. RING_SIZE - 1
             /\ Back(i)' = Back(i - 1) /\ Back(i - 1) # h /\ Back(i - 1) \in 0 .. RING_SIZE - 1
  <2>1. i - 1 \in 0 .. RING_SIZE - 1 /\ i \in 0 .. RING_SIZE - 1
    BY <1>0
  <2>2. Back(i)' = Before(thrash_ring_head', i)
    BY <1>3, <2>1
  <2>3. Back(i - 1) = Before(h, i - 1) /\ Back(i - 1) \in 0 .. RING_SIZE - 1
    BY <1>0, <2>1, BackIsBefore
  <2>4. Before(thrash_ring_head', i) = Before(h, i - 1) /\ Before(h, i - 1) # h
    BY <1>0, <1>1 DEF Before
  <2>. QED  BY <2>1, <2>2, <2>3, <2>4
<1>6. /\ thrash_ring'[h] = now
      /\ \A j \in 0 .. RING_SIZE - 1 : j # h => thrash_ring'[j] = thrash_ring[j]
  BY <1>0 DEF TypeOK
<1>7. \A i \in 0 .. RING_SIZE - 1 : RingTimes'[i] = thrash_ring'[Back(i)']
  BY DEF RingTimes
<1>8. \A i \in 0 .. RING_SIZE - 1 : RingTimes[i] = thrash_ring[Back(i)]
  BY DEF RingTimes
<1>9. RingTimes'[0] = now
  BY <1>0, <1>4, <1>6, <1>7
<1>10. \A i \in 1 .. RING_SIZE - 1 : RingTimes'[i] = RingTimes[i - 1]
  BY <1>5, <1>6, <1>7, <1>8
<1>. QED  BY <1>2, <1>9, <1>10

\* noted counts each kind of event.
LEMMA NotedStep ==
    ASSUME TypeOK, NEW k \in Kinds, noted[k] < MaxEvents, noted' = [noted EXCEPT ![k] = @ + 1]
    PROVE  /\ noted' \in [Kinds -> 0 .. MaxEvents] /\ noted'[k] = noted[k] + 1
           /\ noted[k] + 1 \in 1 .. MaxEvents
           /\ \A j \in Kinds : j # k => noted'[j] = noted[j]
  BY WindowAssumption DEF TypeOK

\* A new event on top of a history.
LEMMA HistoryType ==
    ASSUME TypeOK, NEW E \in SUBSET ((1 .. MaxEvents) \X (0 .. MaxTime)), NEW n \in 1 .. MaxEvents,
           \A e \in E : e[2] <= now
    PROVE  /\ E \cup {<<n, now>>} \in SUBSET ((1 .. MaxEvents) \X (0 .. MaxTime))
           /\ \A e \in E \cup {<<n, now>>} : e[2] <= now
<1>1. now \in 0 .. MaxTime /\ now <= now
  BY WindowAssumption DEF TypeOK
<1>. QED  BY <1>1

LEMMA EvictStep == ASSUME WindowInv, thrash_note_bg_evict PROVE WindowInv'
<1>. DEFINE c == thrash_ring_count
            k == IF c < RING_SIZE THEN c ELSE RING_SIZE - 1
            N == noted["evict"]
<1>0. /\ TypeOK /\ RING_SIZE \in Nat \ {0} /\ c \in 0 .. RING_SIZE /\ now \in Nat /\ N \in Nat
      /\ thrash_ring_head \in 0 .. RING_SIZE - 1
  BY WindowAssumption DEF WindowInv, TypeOK, Kinds
<1>1. /\ noted' \in [Kinds -> 0 .. MaxEvents] /\ noted'["evict"] = N + 1
      /\ N + 1 \in 1 .. MaxEvents /\ noted'["fail"] = noted["fail"]
  BY <1>0, NotedStep DEF thrash_note_bg_evict, Kinds
<1>2. /\ evictions' = evictions \cup {<<N + 1, now>>} /\ now' = now
      /\ evictions' \in SUBSET ((1 .. MaxEvents) \X (0 .. MaxTime))
      /\ \A e \in evictions' : e[2] <= now
  <2>1. evictions' = evictions \cup {<<N + 1, now>>} /\ now' = now
    BY DEF thrash_note_bg_evict
  <2>2. evictions \in SUBSET ((1 .. MaxEvents) \X (0 .. MaxTime)) /\ \A e \in evictions : e[2] <= now
    BY <1>0 DEF WindowInv, TypeOK, RingInv
  <2>. QED  BY <1>0, <1>1, <2>1, <2>2, HistoryType
<1>3. /\ thrash_ring_head' \in 0 .. RING_SIZE - 1 /\ RingTimes'[0] = now
      /\ \A i \in 1 .. RING_SIZE - 1 : RingTimes'[i] = RingTimes[i - 1]
  BY <1>0, RingShift DEF thrash_note_bg_evict
<1>4. thrash_ring_count' = k + 1 /\ k \in 0 .. RING_SIZE - 1
  BY <1>0 DEF thrash_note_bg_evict
<1>5. Newest(evictions, N, c, RingTimes, RING_SIZE, 0) /\ \A e \in evictions : e[2] <= now
  BY DEF WindowInv, RingInv
<1>6. \A i \in 1 .. k : i - 1 \in 0 .. c - 1 /\ RingTimes'[i] = RingTimes[i - 1]
  <2>1. \A i \in 1 .. k : i - 1 \in 0 .. c - 1 /\ i \in 1 .. RING_SIZE - 1
    BY <1>0
  <2>. QED  BY <1>3, <2>1
<1>7. \A e \in evictions : N - e[1] >= k => k + 1 = RING_SIZE \/ e[2] < 0
  BY <1>0, <1>5 DEF Newest
<1>. HIDE DEF k
<1>8. Newest(evictions \cup {<<N + 1, now>>}, N + 1, k + 1, RingTimes', RING_SIZE, 0)
  BY <1>0, <1>3, <1>4, <1>5, <1>6, <1>7, NewestAdd
<1>9. RingInv'
  BY <1>1, <1>2, <1>4, <1>8 DEF RingInv
<1>10. thrash_ring' \in [0 .. RING_SIZE - 1 -> 0 .. MaxTime]
  BY <1>0 DEF thrash_note_bg_evict, TypeOK
<1>11. thrash_ring_count' \in 0 .. RING_SIZE
  BY <1>0, <1>4
<1>12. TypeOK'
  BY <1>0, <1>1, <1>2, <1>3, <1>10, <1>11 DEF thrash_note_bg_evict, classVars, TypeOK
<1>13. FailInv'
  <2>1. FailTimes' = FailTimes
    BY DEF thrash_note_bg_evict, classVars, FailTimes
  <2>. QED  BY <1>1, <2>1 DEF thrash_note_bg_evict, classVars, WindowInv, FailInv
<1>. QED  BY <1>9, <1>12, <1>13 DEF WindowInv

-----------------------------------------------------------------------------
(* Authentication failures.                                                *)

\* The failures of the buffer that are still in the window are its last ones.
LEMMA KeptLast ==
    ASSUME WindowInv
    PROVE  LET c == class_a_fail_count
               k == Cardinality(KeptFails)
           IN  /\ k \in 0 .. c /\ KeptFails = c - k .. c - 1
               /\ k = Cardinality(Inside(c, FailTimes, now - FAIL_WINDOW))
<1>. DEFINE c == class_a_fail_count
            t == now - FAIL_WINDOW
            W == Inside(c, FailTimes, t)
            k == Cardinality(W)
<1>0. /\ c \in 0 .. THRESHOLD /\ THRESHOLD \in Nat /\ t \in Int /\ now \in Nat /\ FAIL_WINDOW \in Nat
      /\ noted["fail"] \in Nat
  BY WindowAssumption DEF WindowInv, TypeOK, Kinds
<1>1. Newest(fails, noted["fail"], c, FailTimes, THRESHOLD, t)
  BY DEF WindowInv, FailInv
<1>2. k \in 0 .. c /\ W = 0 .. k - 1
  BY <1>0, <1>1, InsideClosed
<1>3. \A i \in 0 .. c - 1 : /\ c - 1 - i \in 0 .. c - 1
                            /\ FailTimes[c - 1 - i] = class_a_fail_ts[i]
                            /\ FailTimes[c - 1 - i] \in Nat
  <2>. SUFFICES ASSUME NEW i \in 0 .. c - 1
                PROVE  /\ c - 1 - i \in 0 .. c - 1
                       /\ FailTimes[c - 1 - i] = class_a_fail_ts[i]
                       /\ FailTimes[c - 1 - i] \in Nat
    OBVIOUS
  <2>1. c - 1 - i \in 0 .. c - 1 /\ c - 1 - (c - 1 - i) = i
    BY <1>0
  <2>2. FailTimes[c - 1 - i] = class_a_fail_ts[c - 1 - (c - 1 - i)]
    BY <2>1 DEF FailTimes
  <2>3. FailTimes[c - 1 - i] \in Nat
    BY <1>1, <2>1 DEF Newest
  <2>. QED  BY <2>1, <2>2, <2>3
<1>4. ASSUME NEW i \in 0 .. c - 1 PROVE i \in KeptFails <=> i >= c - k
  <2>1. i \in KeptFails <=> c - 1 - i \in W
    BY <1>0, <1>3 DEF KeptFails, Inside
  <2>. HIDE DEF W, k
  <2>2. c - 1 - i \in W <=> c - 1 - i <= k - 1
    BY <1>0, <1>2
  <2>. QED  BY <1>0, <1>2, <2>1, <2>2
<1>. HIDE DEF k
<1>5. KeptFails = c - k .. c - 1
  <2>1. \A i \in KeptFails : i \in 0 .. c - 1
    BY DEF KeptFails
  <2>. HIDE DEF W
  <2>2. \A i \in KeptFails : i \in c - k .. c - 1
    BY <1>0, <1>2, <1>4, <2>1
  <2>3. \A i \in c - k .. c - 1 : i \in 0 .. c - 1 /\ i >= c - k
    BY <1>0, <1>2
  <2>4. \A i \in c - k .. c - 1 : i \in KeptFails
    BY <1>4, <2>3
  <2>. QED  BY <2>2, <2>4
<1>6. Cardinality(KeptFails) = k
  BY <1>0, <1>2, <1>5, FS_Interval
<1>. QED  BY <1>2, <1>5, <1>6 DEF k

\* So the compaction moves them to the front in order.
LEMMA NthKeptIs ==
    ASSUME NEW c \in Nat, NEW k \in 0 .. c, KeptFails = c - k .. c - 1, NEW n \in 0 .. k - 1
    PROVE  NthKept(n) = c - k + n
<1>1. ASSUME NEW i \in KeptFails PROVE Cardinality({j \in KeptFails : j < i}) = i - (c - k)
  <2>1. {j \in KeptFails : j < i} = c - k .. i - 1
    OBVIOUS
  <2>2. c - k \in Int /\ i - 1 \in Int /\ i >= c - k
    OBVIOUS
  <2>3. Cardinality(c - k .. i - 1) = IF c - k > i - 1 THEN 0 ELSE i - 1 - (c - k) + 1
    BY <2>2, FS_Interval
  <2>4. (IF c - k > i - 1 THEN 0 ELSE i - 1 - (c - k) + 1) = i - (c - k)
    BY <2>2
  <2>. QED  BY <2>1, <2>3, <2>4
<1>2. c - k + n \in KeptFails
  OBVIOUS
<1>3. Cardinality({j \in KeptFails : j < c - k + n}) = n
  BY <1>1, <1>2
<1>4. \A i \in KeptFails : Cardinality({j \in KeptFails : j < i}) = n => i = c - k + n
  BY <1>1
<1>. QED  BY <1>2, <1>3, <1>4 DEF NthKept

\* The buffer after a failure: the new one in front, the kept ones behind it as
\* far as there is room.
LEMMA FailBuffer ==
    ASSUME WindowInv, class_a_note_fail
    PROVE  LET c == class_a_fail_count
               kept == Cardinality(KeptFails)
               k == IF kept < THRESHOLD THEN kept ELSE THRESHOLD - 1
           IN  /\ k \in 0 .. THRESHOLD - 1 /\ class_a_fail_count' = k + 1 /\ k <= c
               /\ class_a_fail_ts' \in [0 .. THRESHOLD - 1 -> 0 .. MaxTime]
               /\ class_a_fail_ts'[k] = now
               /\ \A i \in 1 .. k : class_a_fail_ts'[k - i] = class_a_fail_ts[c - i]
<1>. DEFINE c == class_a_fail_count
            kept == Cardinality(KeptFails)
            k == IF kept < THRESHOLD THEN kept ELSE THRESHOLD - 1
            ts == class_a_fail_ts
            compact == [i \in 0 .. THRESHOLD - 1 |-> IF i < kept THEN ts[NthKept(i)] ELSE ts[i]]
<1>0. /\ THRESHOLD \in Nat \ {0} /\ c \in 0 .. THRESHOLD /\ now \in 0 .. MaxTime
      /\ ts \in [0 .. THRESHOLD - 1 -> 0 .. MaxTime]
  BY WindowAssumption DEF WindowInv, TypeOK
<1>1. kept \in 0 .. c /\ KeptFails = c - kept .. c - 1
  BY KeptLast
<1>2. \A i \in 0 .. kept - 1 : NthKept(i) = c - kept + i
  <2>. SUFFICES ASSUME NEW i \in 0 .. kept - 1 PROVE NthKept(i) = c - kept + i
    OBVIOUS
  <2>. HIDE DEF kept
  <2>1. c \in Nat
    BY <1>0
  <2>. QED  BY <1>1, <2>1, NthKeptIs
<1>3. ts' = AppendFail(compact, kept) /\ c' = IF kept < THRESHOLD THEN kept + 1 ELSE kept
  BY DEF class_a_note_fail
<1>. HIDE DEF kept
<1>4. \A i \in 0 .. kept - 1 : /\ i \in 0 .. THRESHOLD - 1 /\ c - kept + i \in 0 .. THRESHOLD - 1
                               /\ compact[i] = ts[c - kept + i]
  <2>1. \A i \in 0 .. kept - 1 : /\ i \in 0 .. THRESHOLD - 1 /\ i < kept
                                 /\ c - kept + i \in 0 .. THRESHOLD - 1
    BY <1>0, <1>1
  <2>. QED  BY <1>2, <2>1
<1>5. compact \in [0 .. THRESHOLD - 1 -> 0 .. MaxTime]
  <2>. SUFFICES ASSUME NEW i \in 0 .. THRESHOLD - 1 PROVE compact[i] \in 0 .. MaxTime
    OBVIOUS
  <2>1. CASE i < kept
    <3>1. i \in 0 .. kept - 1
      BY <1>1, <2>1
    <3>2. c - kept + i \in 0 .. THRESHOLD - 1 /\ compact[i] = ts[c - kept + i]
      BY <1>4, <3>1
    <3>. HIDE DEF compact
    <3>. QED  BY <1>0, <3>2
  <2>2. CASE ~(i < kept)
    BY <1>0, <2>2
  <2>. QED  BY <2>1, <2>2
<1>. HIDE DEF compact
<1>6. k \in 0 .. THRESHOLD - 1 /\ c' = k + 1 /\ k <= c
  BY <1>0, <1>1, <1>3
<1>7. CASE kept < THRESHOLD
  <2>1. k = kept /\ ts' = [compact EXCEPT ![kept] = now] /\ kept \in 0 .. THRESHOLD - 1
    BY <1>0, <1>1, <1>3, <1>7 DEF AppendFail
  <2>2. ts' \in [0 .. THRESHOLD - 1 -> 0 .. MaxTime] /\ ts'[k] = now
    BY <1>0, <1>5, <2>1
  <2>3. ASSUME NEW i \in 1 .. k PROVE ts'[k - i] = ts[c - i]
    <3>1. /\ k - i \in 0 .. kept - 1 /\ k - i # kept /\ k - i \in 0 .. THRESHOLD - 1
          /\ c - kept + (k - i) = c - i
      BY <1>0, <1>1, <2>1
    <3>2. ts'[k - i] = compact[k - i]
      BY <1>5, <2>1, <3>1
    <3>. QED  BY <1>4, <3>1, <3>2
  <2>. QED  BY <1>6, <2>2, <2>3 DEF kept
<1>8. CASE ~(kept < THRESHOLD)
  <2>1. /\ k = THRESHOLD - 1 /\ kept = THRESHOLD /\ c = THRESHOLD
        /\ ts' = [i \in 0 .. THRESHOLD - 1 |-> IF i < THRESHOLD - 1 THEN compact[i + 1] ELSE now]
    BY <1>0, <1>1, <1>3, <1>8 DEF AppendFail
  <2>2. ts' \in [0 .. THRESHOLD - 1 -> 0 .. MaxTime] /\ ts'[k] = now
    BY <1>0, <1>5, <2>1
  <2>3. ASSUME NEW i \in 1 .. k PROVE ts'[k - i] = ts[c - i]
    <3>1. /\ k - i \in 0 .. THRESHOLD - 1 /\ k - i < THRESHOLD - 1 /\ k - i + 1 \in 0 .. kept - 1
          /\ c - kept + (k - i + 1) = c - i
      BY <1>0, <2>1
    <3>2. ts'[k - i] = compact[k - i + 1]
      BY <2>1, <3>1
    <3>. QED  BY <1>4, <3>1, <3>2
  <2>. QED  BY <1>6, <2>2, <2>3 DEF kept
<1>. QED  BY <1>7, <1>8

LEMMA FailStep == ASSUME WindowInv, class_a_note_fail PROVE WindowInv'
<1>. DEFINE c == class_a_fail_count
            kept == Cardinality(KeptFails)
            k == IF kept < THRESHOLD THEN kept ELSE THRESHOLD - 1
            M == noted["fail"]
            t == now - FAIL_WINDOW
<1>0. /\ TypeOK /\ THRESHOLD \in Nat \ {0} /\ c \in 0 .. THRESHOLD /\ now \in Nat /\ M \in Nat
      /\ t \in Int
  BY WindowAssumption DEF WindowInv, TypeOK, Kinds
<1>1. /\ noted' \in [Kinds -> 0 .. MaxEvents] /\ noted'["fail"] = M + 1
      /\ M + 1 \in 1 .. MaxEvents /\ noted'["evict"] = noted["evict"]
  BY <1>0, NotedStep DEF class_a_note_fail, Kinds
<1>2. /\ fails' = fails \cup {<<M + 1, now>>} /\ now' = now
      /\ fails' \in SUBSET ((1 .. MaxEvents) \X (0 .. MaxTime))
      /\ \A e \in fails' : e[2] <= now
  <2>1. fails' = fails \cup {<<M + 1, now>>} /\ now' = now
    BY DEF class_a_note_fail
  <2>2. fails \in SUBSET ((1 .. MaxEvents) \X (0 .. MaxTime)) /\ \A e \in fails : e[2] <= now
    BY <1>0 DEF WindowInv, TypeOK, FailInv
  <2>3. /\ fails \cup {<<M + 1, now>>} \in SUBSET ((1 .. MaxEvents) \X (0 .. MaxTime))
        /\ \A e \in fails \cup {<<M + 1, now>>} : e[2] <= now
    BY <1>0, <1>1, <2>2, HistoryType
  <2>. QED  BY <2>1, <2>3
<1>3. /\ k \in 0 .. THRESHOLD - 1 /\ class_a_fail_count' = k + 1 /\ k <= c
      /\ class_a_fail_ts' \in [0 .. THRESHOLD - 1 -> 0 .. MaxTime]
      /\ class_a_fail_ts'[k] = now
      /\ \A i \in 1 .. k : class_a_fail_ts'[k - i] = class_a_fail_ts[c - i]
  BY FailBuffer
<1>4. /\ Newest(fails, M, c, FailTimes, THRESHOLD, t) /\ \A e \in fails : e[2] <= now
      /\ \A e \in fails : e[1] \in Nat /\ e[2] \in Nat
  BY DEF WindowInv, FailInv, Newest
<1>5. /\ kept = Cardinality(Inside(c, FailTimes, t)) /\ kept \in 0 .. c
      /\ Counts(fails, M, c, FailTimes, THRESHOLD, t)
  BY <1>0, <1>4, KeptLast, HistoryCounted
<1>6. \A e \in fails : M - e[1] >= k => k + 1 = THRESHOLD \/ e[2] < t
  <2>. SUFFICES ASSUME NEW e \in fails, M - e[1] >= k, e[2] >= t PROVE k + 1 = THRESHOLD
    BY <1>0, <1>4
  <2>1. e \in Since(fails, t)
    BY DEF Since
  <2>2. M - e[1] < kept \/ kept = THRESHOLD
    BY <1>5, <2>1 DEF Counts
  <2>. HIDE DEF kept
  <2>. QED  BY <1>0, <1>4, <1>5, <2>2
<1>. HIDE DEF kept, k
<1>7. FailTimes'[0] = now /\ \A i \in 1 .. k : i - 1 \in 0 .. c - 1 /\ FailTimes'[i] = FailTimes[i - 1]
  <2>1. FailTimes' = [d \in 0 .. k + 1 - 1 |-> class_a_fail_ts'[k + 1 - 1 - d]]
    BY <1>3 DEF FailTimes
  <2>2. FailTimes'[0] = now
    BY <1>3, <2>1
  <2>3. ASSUME NEW i \in 1 .. k PROVE i - 1 \in 0 .. c - 1 /\ FailTimes'[i] = FailTimes[i - 1]
    <3>1. i - 1 \in 0 .. c - 1 /\ c - 1 - (i - 1) = c - i /\ k + 1 - 1 - i = k - i /\ i \in 0 .. k + 1 - 1
      BY <1>0, <1>3
    <3>2. FailTimes'[i] = class_a_fail_ts'[k - i]
      BY <2>1, <3>1
    <3>3. FailTimes[i - 1] = class_a_fail_ts[c - i]
      BY <3>1 DEF FailTimes
    <3>. QED  BY <1>3, <3>1, <3>2, <3>3
  <2>. QED  BY <2>2, <2>3
<1>8. Newest(fails \cup {<<M + 1, now>>}, M + 1, k + 1, FailTimes', THRESHOLD, t)
  <2>1. THRESHOLD \in Nat /\ c \in 0 .. THRESHOLD /\ now \in Nat /\ M \in Nat /\ t \in Int
    BY <1>0
  <2>2. k \in 0 .. THRESHOLD - 1
    BY <1>3
  <2>3. Newest(fails, M, c, FailTimes, THRESHOLD, t) /\ \A e \in fails : e[2] <= now
    BY <1>4
  <2>. HIDE DEF t, M, c
  <2>. QED  BY <2>1, <2>2, <2>3, <1>6, <1>7, NewestAdd
<1>9. FailInv'
  BY <1>1, <1>2, <1>3, <1>8 DEF FailInv
<1>10. /\ class_a_fail_count' \in 0 .. THRESHOLD /\ suspect' \in BOOLEAN
  <2>1. class_a_fail_count' \in 0 .. THRESHOLD
    BY <1>0, <1>3
  <2>2. suspect' \in BOOLEAN
    BY DEF class_a_note_fail
  <2>. QED  BY <2>1, <2>2
<1>11. TypeOK'
  BY <1>0, <1>1, <1>2, <1>3, <1>10 DEF class_a_note_fail, thrashVars, TypeOK
<1>12. RingInv'
  <2>1. RingTimes' = RingTimes
    BY DEF class_a_note_fail, thrashVars, RingTimes, Back
  <2>. QED  BY <1>1, <2>1 DEF class_a_note_fail, thrashVars, WindowInv, RingInv
<1>. QED  BY <1>9, <1>11, <1>12 DEF WindowInv

-----------------------------------------------------------------------------
(* All steps.                                                              *)

LEMMA ForgetStep == ASSUME WindowInv, class_a_note_ok \/ Switch PROVE WindowInv'
<1>0. /\ TypeOK /\ noted["evict"] \in Nat /\ noted["fail"] \in Nat
      /\ 0 \in 0 .. RING_SIZE - 1 /\ 0 \in 0 .. RING_SIZE /\ 0 \in 0 .. THRESHOLD
  BY WindowAssumption DEF WindowInv, TypeOK, Kinds
<1>1. FailInv'
  <2>1. Newest({}, noted["fail"], 0, FailTimes', THRESHOLD, (now - FAIL_WINDOW)')
    BY <1>0, NewestEmpty
  <2>. QED  BY <2>1 DEF class_a_note_ok, Switch, FailInv
<1>2. CASE class_a_note_ok
  <2>1. RingInv'
    <3>1. RingTimes' = RingTimes
      BY <1>2 DEF class_a_note_ok, thrashVars, RingTimes, Back
    <3>. QED  BY <1>2, <3>1 DEF class_a_note_ok, thrashVars, WindowInv, RingInv
  <2>2. TypeOK'
    BY <1>0, <1>2 DEF class_a_note_ok, thrashVars, TypeOK
  <2>. QED  BY <1>1, <2>1, <2>2 DEF WindowInv
<1>3. CASE Switch
  <2>1. RingInv'
    <3>1. Newest({}, noted["evict"], 0, RingTimes', RING_SIZE, 0)
      BY <1>0, NewestEmpty
    <3>. QED  BY <1>3, <3>1 DEF Switch, RingInv
  <2>2. TypeOK'
    BY <1>0, <1>3 DEF Switch, TypeOK
  <2>. QED  BY <1>1, <2>1, <2>2 DEF WindowInv
<1>. QED  BY <1>2, <1>3

LEMMA TickStep == ASSUME WindowInv, Tick PROVE WindowInv'
<1>0. /\ TypeOK /\ now \in Int /\ now' = now + 1 /\ now' \in 0 .. MaxTime /\ FAIL_WINDOW \in Int
      /\ noted["fail"] \in Nat /\ THRESHOLD \in Nat /\ class_a_fail_count \in 0 .. THRESHOLD
      /\ UNCHANGED <<thrashVars, classVars, noted>>
  BY WindowAssumption DEF WindowInv, TypeOK, Kinds, Tick
<1>1. RingTimes' = RingTimes /\ FailTimes' = FailTimes
  BY <1>0 DEF thrashVars, classVars, RingTimes, FailTimes, Back
<1>2. RingInv'
  <2>1. \A e \in evictions : e[2] <= now'
    BY <1>0 DEF WindowInv, RingInv, Newest
  <2>. QED  BY <1>0, <1>1, <2>1 DEF thrashVars, WindowInv, RingInv
<1>3. FailInv'
  <2>1. Newest(fails, noted["fail"], class_a_fail_count, FailTimes, THRESHOLD, now - FAIL_WINDOW)
        /\ \A e \in fails : e[2] <= now'
    BY <1>0 DEF WindowInv, FailInv, Newest
  <2>2. now - FAIL_WINDOW \in Int /\ now' - FAIL_WINDOW \in Int
        /\ now - FAIL_WINDOW <= now' - FAIL_WINDOW
    BY <1>0
  <2>3. Newest(fails, noted["fail"], class_a_fail_count, FailTimes, THRESHOLD, now' - FAIL_WINDOW)
    BY <1>0, <2>1, <2>2, NewestLater
  <2>. QED  BY <1>0, <1>1, <2>1, <2>3 DEF classVars, FailInv
<1>4. TypeOK'
  BY <1>0 DEF thrashVars, classVars, TypeOK
<1>. QED  BY <1>2, <1>3, <1>4 DEF WindowInv

LEMMA WindowStep == WindowInv /\ [Next]_vars => WindowInv'
<1>. SUFFICES ASSUME WindowInv, [Next]_vars PROVE WindowInv'
  OBVIOUS
<1>1. CASE UNCHANGED vars
  <2>1. RingTimes' = RingTimes /\ FailTimes' = FailTimes
    BY <1>1 DEF vars, thrashVars, classVars, RingTimes, FailTimes, Back
  <2>. QED  BY <1>1, <2>1 DEF vars, thrashVars, classVars, WindowInv, TypeOK, RingInv, FailInv
<1>. QED  BY <1>1, EvictStep, FailStep, ForgetStep, TickStep DEF Next

LEMMA WindowInit == Init => WindowInv
<1>. SUFFICES ASSUME Init PROVE WindowInv
  OBVIOUS
<1>1. TypeOK
  <2>1. 0 \in 0 .. MaxTime /\ 0 \in 0 .. MaxEvents /\ 0 \in 0 .. RING_SIZE - 1
        /\ 0 \in 0 .. RING_SIZE /\ 0 \in 0 .. THRESHOLD
    BY WindowAssumption
  <2>. QED  BY <2>1 DEF Init, TypeOK
<1>2. noted["evict"] \in Nat /\ noted["fail"] \in Nat
  BY DEF Init, Kinds
<1>3. RingInv /\ FailInv
  BY <1>2, NewestEmpty DEF Init, RingInv, FailInv
<1>. QED  BY <1>1, <1>3 DEF WindowInv

\* CLASS_A_SUSPECT is decided as on the complete histories.
SuspectDecided ==
    noted'["fail"] # noted["fail"] =>
       (suspect' <=> /\ Cardinality({e \in fails' : now - e[2] <= FAIL_WINDOW}) >= THRESHOLD
                     /\ Recent(evictions, WINDOW) < 2)

LEMMA SuspectStep == ASSUME WindowInv, [Next]_vars PROVE SuspectDecided
<1>. SUFFICES ASSUME noted'["fail"] # noted["fail"]
              PROVE  suspect' <=>
                        /\ Cardinality({e \in fails' : now - e[2] <= FAIL_WINDOW}) >= THRESHOLD
                        /\ Recent(evictions, WINDOW) < 2
  BY DEF SuspectDecided
<1>. DEFINE M == noted["fail"]
            c == class_a_fail_count
            kept == Cardinality(KeptFails)
            t == now - FAIL_WINDOW
            RF == Since(fails, t)
            new == <<M + 1, now>>
<1>0. /\ TypeOK /\ THRESHOLD \in Nat \ {0} /\ c \in 0 .. THRESHOLD /\ M \in Nat
      /\ now \in Nat /\ FAIL_WINDOW \in Nat /\ t \in Int /\ t <= now
  BY WindowAssumption DEF WindowInv, TypeOK, Kinds
<1>1. class_a_note_fail
  <2>1. ~thrash_note_bg_evict
    BY <1>0, NotedStep DEF thrash_note_bg_evict, Kinds
  <2>2. ~UNCHANGED noted
    OBVIOUS
  <2>. QED  BY <2>1, <2>2 DEF Next, vars, class_a_note_ok, Switch, Tick
<1>2. Newest(fails, M, c, FailTimes, THRESHOLD, t)
  BY DEF WindowInv, FailInv
<1>3. /\ IsFiniteSet(RF) /\ Cardinality(RF) \in Nat
      /\ kept = IF Cardinality(RF) < THRESHOLD THEN Cardinality(RF) ELSE THRESHOLD
  <2>1. Counts(fails, M, c, FailTimes, THRESHOLD, t)
    BY <1>0, <1>2, HistoryCounted
  <2>. QED  BY <2>1, KeptLast DEF Counts
<1>4. Cardinality({e \in fails' : now - e[2] <= FAIL_WINDOW}) = Cardinality(RF) + 1
  <2>1. fails' = fails \cup {new} /\ \A e \in fails : e[1] \in Nat /\ e[1] <= M /\ e[2] \in Nat
    BY <1>1, <1>2 DEF class_a_note_fail, Newest
  <2>2. new[1] = M + 1 /\ new[2] = now
    OBVIOUS
  <2>. HIDE DEF new
  <2>3. \A e \in fails : e # new /\ (e[2] >= t <=> now - e[2] <= FAIL_WINDOW)
    BY <1>0, <2>1, <2>2
  <2>4. now - new[2] <= FAIL_WINDOW
    BY <1>0, <2>2
  <2>5. {e \in fails' : now - e[2] <= FAIL_WINDOW} = RF \cup {new} /\ new \notin RF
    BY <2>1, <2>3, <2>4 DEF Since
  <2>. QED  BY <1>3, <2>5, FS_AddElement
<1>5. class_a_fail_count' = (IF kept < THRESHOLD THEN kept + 1 ELSE kept)
      /\ (suspect' <=> class_a_fail_count' >= THRESHOLD /\ thrash_win_count < 2)
  BY <1>1 DEF class_a_note_fail
<1>6. thrash_win_count < 2 <=> Recent(evictions, WINDOW) < 2
  <2>1. /\ Recent(evictions, WINDOW) \in Nat /\ RING_SIZE \in Nat /\ RING_SIZE >= 2
        /\ thrash_win_count = IF Recent(evictions, WINDOW) < RING_SIZE
                              THEN Recent(evictions, WINDOW) ELSE RING_SIZE
    BY WindowAssumption, RingCounts DEF WindowInv, WinCountExact
  <2>. QED  BY <2>1
<1>. HIDE DEF kept, RF
<1>7. class_a_fail_count' >= THRESHOLD <=> Cardinality(RF) + 1 >= THRESHOLD
  BY <1>0, <1>3, <1>5
<1>. QED  BY <1>4, <1>5, <1>6, <1>7

-----------------------------------------------------------------------------
\* thrash_win_count is exact for every size of ring and window, through every
\* wrap of the ring and every switch.
THEOREM WindowCountExact == Spec => []WinCountExact
<1>1. WindowInv => WinCountExact
  BY RingCounts DEF WindowInv
<1>. QED  BY <1>1, WindowInit, WindowStep, PTL DEF Spec

\* CLASS_A_SUSPECT is recorded exactly when it should be, for every threshold and
\* window: pruning and shifting the buffer of failures lose nothing that counts.
THEOREM SuspectRecordedExactly == Spec => SuspectExact
<1>1. WindowInv /\ [Next]_vars =>
        [noted'["fail"] # noted["fail"] =>
           (suspect' <=> /\ Cardinality({e \in fails' : now - e[2] <= FAIL_WINDOW}) >= THRESHOLD
                         /\ Recent(evictions, WINDOW) < 2)]_vars
  BY SuspectStep DEF SuspectDecided
<1>. QED  BY <1>1, WindowInit, WindowStep, PTL DEF Spec, SuspectExact

=============================================================================
