------------------------ MODULE IntrusiveListProofs ------------------------
(***************************************************************************)
(* The pointers of the price levels represent their queues, whatever is    *)
(* added, cancelled and filled, for any number of orders and levels.       *)
(***************************************************************************)
EXTENDS IntrusiveList, DataLemmas

(* The inductive invariant.                                                *)
Structure == TypeOK /\ ListsRepresentQueues /\ MakerIsOldest

USE IntrusiveListAssumption

(* At the initial state every list is empty.                               *)
LEMMA InitStructure == Init => Structure
<1> SUFFICES ASSUME Init PROVE Structure
  OBVIOUS
<1>1. /\ <<>> \in Seq(Order) /\ Len(<<>>) = 0 /\ IsInjective(<<>>)
  BY EmptyList
<1>2. TypeOK
  BY <1>1, QtyModAssumption DEF Init, TypeOK, NewLevel
<1>3. ListsRepresentQueues
  BY <1>1 DEF Init, ListsRepresentQueues, Represents, InOneQueue, At, NewLevel
<1>4. MakerIsOldest
  BY DEF Init, MakerIsOldest
<1> QED BY <1>2, <1>3, <1>4 DEF Structure

(* What the invariant says of the queue of one level: it names orders of   *)
(* this level only, each at one place, and the element beside one of them  *)
(* is an order too, or there is none.                                      *)
LEMMA QueueFacts ==
  ASSUME Structure, NEW l \in Level
  PROVE  LET q == levels[l].queue
         IN  /\ q \in Seq(Order) /\ Len(q) \in Nat /\ DOMAIN q = 1 .. Len(q)
             /\ \A i \in 1 .. Len(q) : /\ q[i] \in Order /\ q[i] # Null
                                       /\ level[q[i]] = l
                                       /\ next[q[i]] = At(q, i + 1)
                                       /\ prev[q[i]] = At(q, i - 1)
             /\ \A i, j \in 1 .. Len(q) : q[i] = q[j] => i = j
             /\ head[l] = At(q, 1) /\ tail[l] = At(q, Len(q))
             /\ orderCount[l] = Len(q)
<1> DEFINE q == levels[l].queue
<1>1. q \in Seq(Order) BY DEF Structure, TypeOK
<1>2. Represents(l) /\ IsInjective(q)
  BY DEF Structure, ListsRepresentQueues
<1>3. Len(q) \in Nat /\ DOMAIN q = 1 .. Len(q) /\ \A i \in 1 .. Len(q) : q[i] \in Order
  BY <1>1
<1>4. \A i, j \in 1 .. Len(q) : q[i] = q[j] => i = j
  BY <1>2, <1>3 DEF IsInjective
<1>5. /\ head[l] = At(q, 1) /\ tail[l] = At(q, Len(q)) /\ orderCount[l] = Len(q)
      /\ \A i \in 1 .. Len(q) : /\ level[q[i]] = l
                                /\ next[q[i]] = At(q, i + 1)
                                /\ prev[q[i]] = At(q, i - 1)
  BY <1>2 DEF Represents
<1> HIDE DEF q
<1>6. \A i \in 1 .. Len(q) : q[i] \in Order /\ q[i] # Null BY <1>3
<1> QED BY <1>1, <1>3, <1>4, <1>5, <1>6 DEF q

(* remove(): unlinking an order takes it, and nothing else, out of the     *)
(* queue of its level.                                                     *)
LEMMA UnlinkRepresents ==
  ASSUME Structure, NEW l \in Level, NEW i \in 1 .. Len(levels[l].queue),
         Unlink(l, levels[l].queue[i]),
         levels' \in [Level -> [price : {0}, totalVolume : 0 .. QtyMod - 1,
                                queue : Seq(Order)]],
         levels'[l].queue = RemoveAt(levels[l].queue, i),
         \A k \in Level \ {l} : levels'[k].queue = levels[k].queue
  PROVE  /\ ListsRepresentQueues'
         /\ head' \in [Level -> Order \cup {Null}]
         /\ tail' \in [Level -> Order \cup {Null}]
         /\ orderCount' \in [Level -> Nat]
         /\ prev' \in [Order -> Order \cup {Null}]
         /\ next' \in [Order -> Order \cup {Null}]
         /\ level' \in [Order -> Level \cup {Null}]
<1> DEFINE q == levels[l].queue
           n == Len(q)
           o == q[i]
           r == levels'[l].queue
<1>1. /\ q \in Seq(Order) /\ n \in Nat /\ i \in 1 .. n /\ o = q[i] /\ n = Len(q)
      /\ \A j \in 1 .. n : /\ q[j] \in Order /\ q[j] # Null
                           /\ level[q[j]] = l
                           /\ next[q[j]] = At(q, j + 1)
                           /\ prev[q[j]] = At(q, j - 1)
      /\ \A j, k \in 1 .. n : q[j] = q[k] => j = k
      /\ head[l] = At(q, 1) /\ tail[l] = At(q, n) /\ orderCount[l] = n
  BY QueueFacts
<1>2. /\ r \in Seq(Order) /\ Len(r) = n - 1 /\ IsInjective(r)
      /\ \A j \in 1 .. n - 1 : r[j] = IF j < i THEN q[j] ELSE q[j + 1]
  <2>1. IsInjective(q) BY DEF Structure, ListsRepresentQueues
  <2>2. r = RemoveAt(q, i) OBVIOUS
  <2> HIDE DEF q, n, o, r
  <2>3. /\ RemoveAt(q, i) \in Seq(Order) /\ Len(RemoveAt(q, i)) = Len(q) - 1
        /\ \A j \in 1 .. Len(q) - 1 :
             RemoveAt(q, i)[j] = IF j < i THEN q[j] ELSE q[j + 1]
    <3>1. q \in Seq(Order) /\ i \in 1 .. Len(q) BY <1>1
    <3> QED BY ONLY <3>1, RemoveAtList
  <2>4. IsInjective(RemoveAt(q, i)) BY <1>1, <2>1, RemoveList
  <2> QED BY <1>1, <2>2, <2>3, <2>4
<1>3. /\ head \in [Level -> Order \cup {Null}]
      /\ tail \in [Level -> Order \cup {Null}]
      /\ orderCount \in [Level -> Nat]
      /\ prev \in [Order -> Order \cup {Null}]
      /\ next \in [Order -> Order \cup {Null}]
      /\ level \in [Order -> Level \cup {Null}]
  BY DEF Structure, TypeOK
<1>4. /\ o \in Order /\ level[o] = l
      /\ next[o] = At(q, i + 1) /\ prev[o] = At(q, i - 1)
  BY <1>1
<1>5. /\ next' = [m \in Order |-> IF m = o THEN Null
                                  ELSE IF m = prev[o] THEN next[o] ELSE next[m]]
      /\ prev' = [m \in Order |-> IF m = o THEN Null
                                  ELSE IF m = next[o] THEN prev[o] ELSE prev[m]]
      /\ head' = IF prev[o] = Null THEN [head EXCEPT ![l] = next[o]] ELSE head
      /\ tail' = IF next[o] = Null THEN [tail EXCEPT ![l] = prev[o]] ELSE tail
      /\ orderCount' = [orderCount EXCEPT ![l] = IF @ > 0 THEN @ - 1 ELSE @]
      /\ level' = [level EXCEPT ![o] = Null]
  BY DEF Unlink, TailWithout
<1>6. /\ head' \in [Level -> Order \cup {Null}]
      /\ tail' \in [Level -> Order \cup {Null}]
      /\ orderCount' \in [Level -> Nat]
      /\ prev' \in [Order -> Order \cup {Null}]
      /\ next' \in [Order -> Order \cup {Null}]
      /\ level' \in [Order -> Level \cup {Null}]
  BY <1>3, <1>4, <1>5
<1> HIDE DEF q, n, o, r
<1>7. Represents(l)'
  <2>1. head'[l] = At(r, 1)
    BY <1>1, <1>2, <1>3, <1>4, <1>5 DEF At
  <2>2. tail'[l] = At(r, Len(r))
    BY <1>1, <1>2, <1>3, <1>4, <1>5 DEF At
  <2>3. orderCount'[l] = Len(r)
    BY <1>1, <1>2, <1>3, <1>5
  <2>4. ASSUME NEW j \in 1 .. Len(r)
        PROVE  /\ level'[r[j]] = l
               /\ next'[r[j]] = At(r, j + 1) /\ prev'[r[j]] = At(r, j - 1)
    <3> DEFINE k == IF j < i THEN j ELSE j + 1
    <3>1. k \in 1 .. n /\ k # i /\ r[j] = q[k] BY SMTT(20), <1>1, <1>2
    <3>2. q[k] \in Order /\ q[k] # o /\ level'[q[k]] = l
      BY <1>1, <1>3, <1>5, <3>1
    <3>3. q[k] = prev[o] <=> k = i - 1 BY <1>1, <1>4, <3>1 DEF At
    <3>4. q[k] = next[o] <=> k = i + 1 BY <1>1, <1>4, <3>1 DEF At
    <3>5. next'[q[k]] = At(r, j + 1)
      <4>1. next'[q[k]] = IF k = i - 1 THEN At(q, i + 1) ELSE At(q, k + 1)
        BY <1>1, <1>4, <1>5, <3>1, <3>2, <3>3
      <4>2. CASE k = i - 1
        <5>1. j = k /\ At(q, i + 1) = At(r, i)
          BY <1>1, <1>2, <3>1, <4>2 DEF At
        <5> QED BY <1>1, <4>1, <4>2, <5>1
      <4>3. CASE k # i - 1
        <5>1. At(q, k + 1) = At(r, j + 1)
          BY <1>1, <1>2, <3>1, <4>3 DEF At
        <5> QED BY <4>1, <4>3, <5>1
      <4> QED BY <4>2, <4>3
    <3>6. prev'[q[k]] = At(r, j - 1)
      <4>1. prev'[q[k]] = IF k = i + 1 THEN At(q, i - 1) ELSE At(q, k - 1)
        BY <1>1, <1>4, <1>5, <3>1, <3>2, <3>4
      <4>2. CASE k = i + 1
        <5>1. j = i /\ At(q, i - 1) = At(r, i - 1)
          BY <1>1, <1>2, <3>1, <4>2 DEF At
        <5> QED BY <4>1, <4>2, <5>1
      <4>3. CASE k # i + 1
        <5>1. At(q, k - 1) = At(r, j - 1)
          BY <1>1, <1>2, <3>1, <4>3 DEF At
        <5> QED BY <4>1, <4>3, <5>1
      <4> QED BY <4>2, <4>3
    <3> QED BY <3>1, <3>2, <3>5, <3>6
  <2> QED BY <2>1, <2>2, <2>3, <2>4 DEF Represents, r
<1>8. ASSUME NEW k \in Level, k # l PROVE (Represents(k) /\ IsInjective(levels[k].queue))'
  <2> DEFINE p == levels[k].queue
  <2>1. /\ p \in Seq(Order) /\ Len(p) \in Nat
        /\ \A j \in 1 .. Len(p) : /\ p[j] \in Order /\ level[p[j]] = k
                                  /\ next[p[j]] = At(p, j + 1)
                                  /\ prev[p[j]] = At(p, j - 1)
        /\ head[k] = At(p, 1) /\ tail[k] = At(p, Len(p))
        /\ orderCount[k] = Len(p)
    BY <1>8, QueueFacts
  <2>2. IsInjective(p) BY DEF Structure, ListsRepresentQueues
  <2>3. levels'[k].queue = p BY <1>8
  <2>4. head'[k] = head[k] /\ tail'[k] = tail[k] /\ orderCount'[k] = orderCount[k]
    BY <1>3, <1>5, <1>8
  <2>5. /\ prev[o] = Null \/ level[prev[o]] = l
        /\ next[o] = Null \/ level[next[o]] = l
    BY <1>1, <1>4 DEF At
  <2> HIDE DEF p
  <2>6. ASSUME NEW j \in 1 .. Len(p)
        PROVE  /\ level'[p[j]] = k
               /\ next'[p[j]] = next[p[j]] /\ prev'[p[j]] = prev[p[j]]
    BY <1>3, <1>4, <1>5, <1>8, <2>1, <2>5
  <2> QED BY <2>1, <2>2, <2>3, <2>4, <2>6 DEF Represents
<1>9. ASSUME NEW m \in Order PROVE InOneQueue(m)'
  <2>1. CASE m = o
    BY <1>3, <1>5, <2>1 DEF InOneQueue
  <2>2. CASE m # o /\ level[m] = Null
    <3>1. InOneQueue(m) BY DEF Structure, ListsRepresentQueues
    <3>2. m # prev[o] /\ m # next[o]
      BY <1>1, <1>4, <2>2 DEF At
    <3> QED BY <1>3, <1>5, <2>2, <3>1, <3>2 DEF InOneQueue
  <2>3. CASE m # o /\ level[m] = l
    <3>1. PICK k \in DOMAIN levels[l].queue : levels[l].queue[k] = m
      BY <2>3 DEF Structure, ListsRepresentQueues, InOneQueue
    <3>2. k \in 1 .. n /\ q[k] = m
      <4>1. DOMAIN q = 1 .. n BY <1>1
      <4> QED BY <3>1, <4>1 DEF q
    <3>2a. k # i BY <1>1, <2>3, <3>2
    <3>3. \E j \in 1 .. Len(r) : r[j] = m
      <4>1. CASE k < i
        <5>0. k \in Nat /\ 1 <= k /\ k < i /\ i <= n /\ i \in Nat /\ n \in Nat
          BY <1>1, <3>2, <4>1
        <5>2. k \in 1 .. n - 1 BY <5>0
        <5>1. k \in 1 .. Len(r) /\ r[k] = q[k] BY <1>2, <4>1, <5>2
        <5> QED BY <3>2, <5>1
      <4>2. CASE k > i
        <5>1. k - 1 \in 1 .. Len(r) /\ r[k - 1] = q[k]
          BY <1>1, <1>2, <3>2, <3>2a, <4>2
        <5> QED BY <3>2, <5>1
      <4> QED BY <1>1, <3>2, <3>2a, <4>1, <4>2
    <3>4. level'[m] = l BY <1>3, <1>5, <2>3
    <3>5. DOMAIN r = 1 .. Len(r) BY <1>2
    <3> QED BY <3>3, <3>4, <3>5 DEF InOneQueue, r
  <2>4. CASE m # o /\ level[m] # Null /\ level[m] # l
    <3>1. level[m] \in Level /\ level'[m] = level[m] BY <1>3, <1>5, <2>4
    <3>2. levels'[level[m]].queue = levels[level[m]].queue BY <2>4, <3>1
    <3>3. InOneQueue(m) BY DEF Structure, ListsRepresentQueues
    <3> QED BY <2>4, <3>1, <3>2, <3>3 DEF InOneQueue
  <2> QED BY <2>1, <2>2, <2>3, <2>4
<1> QED BY <1>2, <1>6, <1>7, <1>8, <1>9 DEF ListsRepresentQueues, r

(* append(): linking an order puts it, and nothing else, behind the queue  *)
(* of the level.                                                           *)
LEMMA LinkRepresents ==
  ASSUME Structure, NEW l \in Level, NEW o \in Order, level[o] = Null,
         Link(l, o),
         levels' \in [Level -> [price : {0}, totalVolume : 0 .. QtyMod - 1,
                                queue : Seq(Order)]],
         levels'[l].queue = Append(levels[l].queue, o),
         \A k \in Level \ {l} : levels'[k].queue = levels[k].queue
  PROVE  /\ ListsRepresentQueues'
         /\ head' \in [Level -> Order \cup {Null}]
         /\ tail' \in [Level -> Order \cup {Null}]
         /\ orderCount' \in [Level -> Nat]
         /\ prev' \in [Order -> Order \cup {Null}]
         /\ next' \in [Order -> Order \cup {Null}]
         /\ level' \in [Order -> Level \cup {Null}]
<1> DEFINE q == levels[l].queue
           n == Len(q)
           r == levels'[l].queue
<1>1. /\ q \in Seq(Order) /\ n \in Nat /\ n = Len(q)
      /\ \A j \in 1 .. n : /\ q[j] \in Order /\ q[j] # Null
                           /\ level[q[j]] = l
                           /\ next[q[j]] = At(q, j + 1)
                           /\ prev[q[j]] = At(q, j - 1)
      /\ \A j, k \in 1 .. n : q[j] = q[k] => j = k
      /\ head[l] = At(q, 1) /\ tail[l] = At(q, n) /\ orderCount[l] = n
  BY QueueFacts
<1>2. /\ r \in Seq(Order) /\ Len(r) = n + 1
      /\ \A j \in 1 .. n : r[j] = q[j]
      /\ r[n + 1] = o
  BY <1>1, AppendProperties
<1>3. /\ head \in [Level -> Order \cup {Null}]
      /\ tail \in [Level -> Order \cup {Null}]
      /\ orderCount \in [Level -> Nat]
      /\ prev \in [Order -> Order \cup {Null}]
      /\ next \in [Order -> Order \cup {Null}]
      /\ level \in [Order -> Level \cup {Null}]
  BY DEF Structure, TypeOK
<1>4. /\ next' = [m \in Order |-> IF m = o THEN Null
                                  ELSE IF m = tail[l] THEN o ELSE next[m]]
      /\ prev' = [prev EXCEPT ![o] = tail[l]]
      /\ head' = IF tail[l] = Null THEN [head EXCEPT ![l] = o] ELSE head
      /\ tail' = [tail EXCEPT ![l] = o]
      /\ orderCount' = [orderCount EXCEPT ![l] = @ + 1]
      /\ level' = [level EXCEPT ![o] = l]
  BY DEF Link
<1>5. /\ head' \in [Level -> Order \cup {Null}]
      /\ tail' \in [Level -> Order \cup {Null}]
      /\ orderCount' \in [Level -> Nat]
      /\ prev' \in [Order -> Order \cup {Null}]
      /\ next' \in [Order -> Order \cup {Null}]
      /\ level' \in [Order -> Level \cup {Null}]
  BY <1>3, <1>4
<1> HIDE DEF q, n, r
<1>6. \A j \in 1 .. n : q[j] # o
  BY <1>1
<1>7. IsInjective(r)
  <2>1. DOMAIN r = 1 .. n + 1 BY <1>2
  <2>2. ASSUME NEW j \in 1 .. n + 1, NEW k \in 1 .. n + 1, r[j] = r[k]
        PROVE  j = k
    <3>1. j \in 1 .. n \/ j = n + 1 BY <1>1
    <3>2. k \in 1 .. n \/ k = n + 1 BY <1>1
    <3> QED BY <1>1, <1>2, <1>6, <2>2, <3>1, <3>2
  <2> QED BY <2>1, <2>2 DEF IsInjective
<1>8. Represents(l)'
  <2>1. head'[l] = At(r, 1)
    BY <1>1, <1>2, <1>3, <1>4 DEF At
  <2>2. tail'[l] = At(r, Len(r))
    BY <1>1, <1>2, <1>3, <1>4 DEF At
  <2>3. orderCount'[l] = Len(r)
    BY <1>1, <1>2, <1>3, <1>4
  <2>4. ASSUME NEW j \in 1 .. Len(r)
        PROVE  /\ level'[r[j]] = l
               /\ next'[r[j]] = At(r, j + 1) /\ prev'[r[j]] = At(r, j - 1)
    <3>1. CASE j = n + 1
      <4>1. At(r, j + 1) = Null BY <1>1, <1>2, <3>1 DEF At
      <4>2. At(r, j - 1) = At(q, n) BY <1>1, <1>2, <3>1 DEF At
      <4> QED BY <1>1, <1>2, <1>3, <1>4, <3>1, <4>1, <4>2
    <3>2. CASE j # n + 1
      <4>1. j \in 1 .. n /\ r[j] = q[j] BY <1>1, <1>2, <3>2
      <4>2. q[j] \in Order /\ q[j] # o /\ level'[q[j]] = l
        BY <1>1, <1>3, <1>4, <1>6, <4>1
      <4>3. q[j] = tail[l] <=> j = n BY <1>1, <4>1 DEF At
      <4>4. At(r, j + 1) = IF j = n THEN o ELSE At(q, j + 1)
        BY <1>1, <1>2, <4>1 DEF At
      <4>5. At(r, j - 1) = At(q, j - 1)
        <5>1. CASE j = 1 BY <1>1, <1>2, <5>1 DEF At
        <5>2. CASE j # 1
          <6>1. j - 1 \in 1 .. n /\ j - 1 \in 1 .. n + 1 BY <1>1, <4>1, <5>2
          <6> QED BY <1>1, <1>2, <6>1 DEF At
        <5> QED BY <5>1, <5>2
      <4> QED BY <1>1, <1>3, <1>4, <4>1, <4>2, <4>3, <4>4, <4>5
    <3> QED BY <3>1, <3>2
  <2> QED BY <2>1, <2>2, <2>3, <2>4 DEF Represents, r
<1>9. ASSUME NEW k \in Level, k # l PROVE (Represents(k) /\ IsInjective(levels[k].queue))'
  <2> DEFINE p == levels[k].queue
  <2>1. /\ p \in Seq(Order) /\ Len(p) \in Nat
        /\ \A j \in 1 .. Len(p) : /\ p[j] \in Order /\ level[p[j]] = k
                                  /\ next[p[j]] = At(p, j + 1)
                                  /\ prev[p[j]] = At(p, j - 1)
        /\ head[k] = At(p, 1) /\ tail[k] = At(p, Len(p))
        /\ orderCount[k] = Len(p)
    BY <1>9, QueueFacts
  <2>2. IsInjective(p) BY DEF Structure, ListsRepresentQueues
  <2>3. levels'[k].queue = p BY <1>9
  <2>4. head'[k] = head[k] /\ tail'[k] = tail[k] /\ orderCount'[k] = orderCount[k]
    BY <1>3, <1>4, <1>9
  <2>5. tail[l] = Null \/ level[tail[l]] = l
    BY <1>1 DEF At
  <2> HIDE DEF p
  <2>6. ASSUME NEW j \in 1 .. Len(p)
        PROVE  /\ level'[p[j]] = k
               /\ next'[p[j]] = next[p[j]] /\ prev'[p[j]] = prev[p[j]]
    BY <1>3, <1>4, <1>9, <2>1, <2>5
  <2> QED BY <2>1, <2>2, <2>3, <2>4, <2>6 DEF Represents
<1>10. ASSUME NEW m \in Order PROVE InOneQueue(m)'
  <2>1. CASE m = o
    <3>1. level'[m] = l /\ DOMAIN r = 1 .. n + 1 /\ n + 1 \in DOMAIN r /\ r[n + 1] = m
      BY <1>1, <1>2, <1>3, <1>4, <2>1
    <3> QED BY <3>1 DEF InOneQueue, r
  <2>2. CASE m # o /\ level[m] = Null
    <3>1. InOneQueue(m) BY DEF Structure, ListsRepresentQueues
    <3>2. m # tail[l] BY <1>1, <2>2 DEF At
    <3> QED BY <1>3, <1>4, <2>2, <3>1, <3>2 DEF InOneQueue
  <2>3. CASE m # o /\ level[m] = l
    <3>1. PICK k \in DOMAIN levels[l].queue : levels[l].queue[k] = m
      BY <2>3 DEF Structure, ListsRepresentQueues, InOneQueue
    <3>2. k \in 1 .. n /\ q[k] = m
      <4>1. DOMAIN q = 1 .. n BY <1>1
      <4> QED BY <3>1, <4>1 DEF q
    <3>3. k \in DOMAIN r /\ r[k] = m /\ level'[m] = l
      <4>1. DOMAIN r = 1 .. n + 1 BY <1>2
      <4>2. k \in 1 .. n + 1 BY <1>1, <3>2
      <4> QED BY <1>2, <1>3, <1>4, <2>3, <3>2, <4>1, <4>2
    <3> QED BY <3>3 DEF InOneQueue, r
  <2>4. CASE m # o /\ level[m] # Null /\ level[m] # l
    <3>1. level[m] \in Level /\ level'[m] = level[m] BY <1>3, <1>4, <2>4
    <3>2. levels'[level[m]].queue = levels[level[m]].queue BY <2>4, <3>1
    <3>3. InOneQueue(m) BY DEF Structure, ListsRepresentQueues
    <3> QED BY <2>4, <3>1, <3>2, <3>3 DEF InOneQueue
  <2> QED BY <2>1, <2>2, <2>3, <2>4
<1> QED BY <1>5, <1>7, <1>8, <1>9, <1>10 DEF ListsRepresentQueues, r

-----------------------------------------------------------------------------
(* Where an order is in its level's queue.                                 *)
LEMMA OrderPosition ==
  ASSUME Structure, NEW o \in Order, level[o] # Null
  PROVE  /\ level[o] \in Level
         /\ Position(levels[level[o]], o) \in 1 .. Len(levels[level[o]].queue)
         /\ levels[level[o]].queue[Position(levels[level[o]], o)] = o
<1>1. level[o] \in Level BY DEF Structure, TypeOK
<1>2. \E i \in DOMAIN levels[level[o]].queue : levels[level[o]].queue[i] = o
  BY DEF Structure, ListsRepresentQueues, InOneQueue
<1>3. DOMAIN levels[level[o]].queue = 1 .. Len(levels[level[o]].queue)
  BY <1>1, QueueFacts
<1> QED BY <1>1, <1>2, <1>3 DEF Position

(* The volume of a level stays a 32-bit number, whatever is added to it or *)
(* taken off.                                                              *)
LEMMA VolumeFacts ==
  ASSUME NEW v \in 0 .. QtyMod - 1, NEW q \in 0 .. QtyMod - 1
  PROVE  /\ (v + q) % QtyMod \in 0 .. QtyMod - 1
         /\ (v + QtyMod - q) % QtyMod \in 0 .. QtyMod - 1
         /\ (IF v >= q THEN v - q ELSE 0) \in 0 .. QtyMod - 1
<1>1. QtyMod \in Nat \ {0} BY QtyModAssumption
<1> QED BY <1>1

LEMMA RestKeepsStructure ==
  ASSUME Structure, NEW l \in Level, NEW o \in Order, NEW qty \in Quantity,
         Rest(l, o, qty)
  PROVE  Structure'
<1>1. /\ levels \in [Level -> [price : {0}, totalVolume : 0 .. QtyMod - 1,
                               queue : Seq(Order)]]
      /\ remaining \in [Order -> 0 .. QtyMod - 1]
      /\ matching = Null /\ maker \in Order \cup {Null}
  BY DEF Structure, TypeOK, Rest
<1>2. qty \in 0 .. QtyMod - 1 BY QtyModAssumption
<1> DEFINE new == AppendOrder(levels[l], o, qty)
<1>3. new \in [price : {0}, totalVolume : 0 .. QtyMod - 1, queue : Seq(Order)]
  <2>1. Append(levels[l].queue, o) \in Seq(Order) BY <1>1, AppendProperties
  <2>2. (levels[l].totalVolume + qty) % QtyMod \in 0 .. QtyMod - 1
    BY <1>1, <1>2, VolumeFacts
  <2> QED BY <1>1, <2>1, <2>2 DEF AppendOrder
<1>4. new.queue = Append(levels[l].queue, o) BY <1>1 DEF AppendOrder
<1>5. levels' = [levels EXCEPT ![l] = new] BY DEF Rest
<1> HIDE DEF new
<1>6. /\ levels' \in [Level -> [price : {0}, totalVolume : 0 .. QtyMod - 1,
                                queue : Seq(Order)]]
      /\ levels'[l].queue = Append(levels[l].queue, o)
      /\ \A k \in Level \ {l} : levels'[k].queue = levels[k].queue
  BY <1>1, <1>3, <1>4, <1>5
<1>7. level[o] = Null /\ Link(l, o) /\ remaining' = [remaining EXCEPT ![o] = qty]
      /\ matching' = Null /\ maker' = maker
  BY <1>1 DEF Rest, loopVars
<1> QED BY <1>1, <1>2, <1>6, <1>7, LinkRepresents
      DEF Structure, TypeOK, MakerIsOldest

LEMMA CancelKeepsStructure ==
  ASSUME Structure, NEW o \in Order, Cancel(o)
  PROVE  Structure'
<1> DEFINE l == level[o]
           i == Position(levels[l], o)
           new == RemoveOrder(levels[l], o, remaining[o])
<1>1. /\ levels \in [Level -> [price : {0}, totalVolume : 0 .. QtyMod - 1,
                               queue : Seq(Order)]]
      /\ remaining \in [Order -> 0 .. QtyMod - 1]
      /\ matching = Null /\ maker \in Order \cup {Null}
  BY DEF Structure, TypeOK, Cancel
<1>2. /\ l \in Level /\ i \in 1 .. Len(levels[l].queue)
      /\ levels[l].queue[i] = o
  BY OrderPosition DEF Cancel
<1>3. RemoveAt(levels[l].queue, i) \in Seq(Order)
  BY <1>1, <1>2, RemoveAtList
<1>4. /\ new \in [price : {0}, totalVolume : 0 .. QtyMod - 1, queue : Seq(Order)]
      /\ new.queue = RemoveAt(levels[l].queue, i)
  <2>1. (IF levels[l].totalVolume >= remaining[o]
         THEN levels[l].totalVolume - remaining[o] ELSE 0) \in 0 .. QtyMod - 1
    BY <1>1, <1>2, VolumeFacts
  <2> QED BY <1>1, <1>2, <1>3, <2>1 DEF RemoveOrder
<1>5. /\ levels' = [levels EXCEPT ![l] = new] /\ Unlink(l, o)
      /\ remaining' = [remaining EXCEPT ![o] = 0]
      /\ matching' = Null /\ maker' = maker
  BY <1>1 DEF Cancel, loopVars
<1> HIDE DEF new, l, i
<1>6. /\ levels' \in [Level -> [price : {0}, totalVolume : 0 .. QtyMod - 1,
                                queue : Seq(Order)]]
      /\ levels'[l].queue = RemoveAt(levels[l].queue, i)
      /\ \A k \in Level \ {l} : levels'[k].queue = levels[k].queue
  BY <1>1, <1>2, <1>4, <1>5
<1>7. 0 \in 0 .. QtyMod - 1 BY QtyModAssumption
<1> QED BY <1>1, <1>2, <1>5, <1>6, <1>7, UnlinkRepresents
      DEF Structure, TypeOK, MakerIsOldest

(* The order the matching loop is at is the first of its level.            *)
LEMMA MakerFacts ==
  ASSUME Structure, matching # Null, maker # Null
  PROVE  /\ matching \in Level /\ maker \in Order
         /\ 1 \in 1 .. Len(levels[matching].queue)
         /\ levels[matching].queue[1] = maker
         /\ next[maker] = At(levels[matching].queue, 2)
         /\ \A lv : lv.queue = levels[matching].queue => Position(lv, maker) = 1
<1> DEFINE q == levels[matching].queue
<1>1. matching \in Level /\ maker \in Order BY DEF Structure, TypeOK
<1>2. maker = At(q, 1) BY DEF Structure, MakerIsOldest
<1>3. /\ Len(q) \in Nat /\ DOMAIN q = 1 .. Len(q)
      /\ \A j \in 1 .. Len(q) : next[q[j]] = At(q, j + 1)
      /\ \A j, k \in 1 .. Len(q) : q[j] = q[k] => j = k
  BY <1>1, QueueFacts
<1> HIDE DEF q
<1>4. 1 \in 1 .. Len(q) /\ q[1] = maker BY <1>2 DEF At
<1>5. next[maker] = At(q, 2) BY <1>3, <1>4
<1>6. ASSUME NEW lv, lv.queue = q PROVE Position(lv, maker) = 1
  <2>1. \E j \in DOMAIN lv.queue : lv.queue[j] = maker BY <1>3, <1>4, <1>6
  <2>2. Position(lv, maker) \in 1 .. Len(q) /\ q[Position(lv, maker)] = maker
    BY <1>3, <1>6, <2>1 DEF Position
  <2> QED BY <1>3, <1>4, <2>2
<1> QED BY <1>1, <1>4, <1>5, <1>6 DEF q

LEMMA FillWholeKeepsStructure ==
  ASSUME Structure, NEW goesOn \in BOOLEAN, FillWhole(goesOn)
  PROVE  Structure'
<1> DEFINE l == matching
           paid == DeductVolume(levels[l], remaining[maker])
           new == RemoveOrder(paid, maker, 0)
           q == levels[l].queue
<1>1. /\ levels \in [Level -> [price : {0}, totalVolume : 0 .. QtyMod - 1,
                               queue : Seq(Order)]]
      /\ remaining \in [Order -> 0 .. QtyMod - 1]
  BY DEF Structure, TypeOK
<1>2. /\ l \in Level /\ maker \in Order /\ 1 \in 1 .. Len(q) /\ q[1] = maker
      /\ next[maker] = At(q, 2)
      /\ \A lv : lv.queue = q => Position(lv, maker) = 1
  BY MakerFacts DEF FillWhole
<1>3. /\ paid \in [price : {0}, totalVolume : 0 .. QtyMod - 1, queue : Seq(Order)]
      /\ paid.queue = q
  <2>1. (levels[l].totalVolume + QtyMod - remaining[maker]) % QtyMod \in 0 .. QtyMod - 1
    BY <1>1, <1>2, VolumeFacts
  <2> QED BY <1>1, <1>2, <2>1 DEF DeductVolume
<1>4. q \in Seq(Order) BY <1>1, <1>2
<1> HIDE DEF paid
<1>5. /\ RemoveAt(q, 1) \in Seq(Order) /\ Len(RemoveAt(q, 1)) = Len(q) - 1
      /\ \A j \in 1 .. Len(q) - 1 : RemoveAt(q, 1)[j] = q[j + 1]
  <2> HIDE DEF q
  <2>1. /\ RemoveAt(q, 1) \in Seq(Order) /\ Len(RemoveAt(q, 1)) = Len(q) - 1
        /\ \A j \in 1 .. Len(q) - 1 :
             RemoveAt(q, 1)[j] = IF j < 1 THEN q[j] ELSE q[j + 1]
    BY <1>2, <1>4, RemoveAtList
  <2> QED BY <2>1
<1>6. /\ new \in [price : {0}, totalVolume : 0 .. QtyMod - 1, queue : Seq(Order)]
      /\ new.queue = RemoveAt(q, 1)
  <2>1. (IF paid.totalVolume >= 0 THEN paid.totalVolume - 0 ELSE 0) \in 0 .. QtyMod - 1
    BY <1>3
  <2>2. Position(paid, maker) = 1 BY <1>2, <1>3
  <2> QED BY <1>3, <1>5, <2>1, <2>2 DEF RemoveOrder
<1>7. /\ levels' = [levels EXCEPT ![l] = new] /\ Unlink(l, maker)
      /\ remaining' = [remaining EXCEPT ![maker] = 0]
      /\ matching' = IF goesOn THEN l ELSE Null
      /\ maker' = IF goesOn THEN next[maker] ELSE Null
  BY DEF FillWhole, NextMaker, paid
<1> HIDE DEF new, q
<1>8. /\ levels' \in [Level -> [price : {0}, totalVolume : 0 .. QtyMod - 1,
                                queue : Seq(Order)]]
      /\ levels'[l].queue = RemoveAt(q, 1)
      /\ \A k \in Level \ {l} : levels'[k].queue = levels[k].queue
  BY <1>1, <1>2, <1>6, <1>7
<1>9. /\ ListsRepresentQueues'
      /\ head' \in [Level -> Order \cup {Null}]
      /\ tail' \in [Level -> Order \cup {Null}]
      /\ orderCount' \in [Level -> Nat]
      /\ prev' \in [Order -> Order \cup {Null}]
      /\ next' \in [Order -> Order \cup {Null}]
      /\ level' \in [Order -> Level \cup {Null}]
  BY <1>2, <1>7, <1>8, UnlinkRepresents DEF q
<1>10. At(q, 2) = At(RemoveAt(q, 1), 1)
  BY <1>2, <1>4, <1>5 DEF At
<1>11. MakerIsOldest'
  BY <1>2, <1>7, <1>8, <1>10 DEF MakerIsOldest
<1>12. /\ remaining' \in [Order -> 0 .. QtyMod - 1]
       /\ matching' \in Level \cup {Null} /\ maker' \in Order \cup {Null}
  BY <1>1, <1>2, <1>7, QtyModAssumption DEF Structure, TypeOK
<1> QED BY <1>8, <1>9, <1>11, <1>12 DEF Structure, TypeOK

LEMMA FillPartKeepsStructure ==
  ASSUME Structure, NEW qty \in Quantity, FillPart(qty)
  PROVE  Structure'
<1> DEFINE new == DeductVolume(levels[matching], qty)
<1>1. /\ levels \in [Level -> [price : {0}, totalVolume : 0 .. QtyMod - 1,
                               queue : Seq(Order)]]
      /\ remaining \in [Order -> 0 .. QtyMod - 1]
  BY DEF Structure, TypeOK
<1>2. matching \in Level /\ maker \in Order BY MakerFacts DEF FillPart
<1>3. qty \in 0 .. QtyMod - 1 /\ remaining[maker] - qty \in 0 .. QtyMod - 1
  BY <1>1, <1>2, QtyModAssumption DEF FillPart
<1>4. /\ new \in [price : {0}, totalVolume : 0 .. QtyMod - 1, queue : Seq(Order)]
      /\ new.queue = levels[matching].queue
  BY <1>1, <1>2, <1>3, VolumeFacts DEF DeductVolume
<1>5. levels' = [levels EXCEPT ![matching] = new] BY DEF FillPart
<1> HIDE DEF new
<1>6. /\ levels' \in [Level -> [price : {0}, totalVolume : 0 .. QtyMod - 1,
                                queue : Seq(Order)]]
      /\ \A k \in Level : levels'[k].queue = levels[k].queue
  BY <1>1, <1>2, <1>4, <1>5
<1>7. /\ UNCHANGED <<head, tail, orderCount, prev, next, level>>
      /\ remaining' = [remaining EXCEPT ![maker] = @ - qty]
      /\ matching' = Null /\ maker' = Null
  BY DEF FillPart, linkVars
<1>8. TypeOK' BY <1>1, <1>3, <1>6, <1>7 DEF Structure, TypeOK
<1>9. ASSUME NEW l \in Level PROVE (Represents(l) /\ IsInjective(levels[l].queue))'
  <2>1. Represents(l) /\ IsInjective(levels[l].queue)
    BY DEF Structure, ListsRepresentQueues
  <2>2. levels'[l].queue = levels[l].queue BY <1>6
  <2> QED BY <1>7, <2>1, <2>2 DEF Represents
<1>10. ASSUME NEW o \in Order PROVE InOneQueue(o)'
  <2>1. InOneQueue(o) /\ level[o] \in Level \cup {Null}
    BY DEF Structure, ListsRepresentQueues, TypeOK
  <2> QED BY <1>6, <1>7, <2>1 DEF InOneQueue
<1> QED BY <1>7, <1>8, <1>9, <1>10 DEF Structure, ListsRepresentQueues, MakerIsOldest

(* The steps that only move the loop's pointer, and stuttering.            *)
LEMMA ListsUntouched ==
  ASSUME Structure, UNCHANGED <<levelVars, linkVars, remaining>>,
         matching' \in Level \cup {Null}, maker' \in Order \cup {Null}
  PROVE  TypeOK' /\ ListsRepresentQueues'
<1>1. UNCHANGED <<levels, head, tail, orderCount, prev, next, level, remaining>>
  BY DEF levelVars, linkVars
<1>2. TypeOK' BY <1>1 DEF Structure, TypeOK
<1>3. ASSUME NEW l \in Level PROVE (Represents(l) /\ IsInjective(levels[l].queue))'
  <2>1. Represents(l) /\ IsInjective(levels[l].queue)
    BY DEF Structure, ListsRepresentQueues
  <2> QED BY <1>1, <2>1 DEF Represents
<1>4. ASSUME NEW o \in Order PROVE InOneQueue(o)'
  <2>1. InOneQueue(o) BY DEF Structure, ListsRepresentQueues
  <2> QED BY <1>1, <2>1 DEF InOneQueue
<1> QED BY <1>2, <1>3, <1>4 DEF ListsRepresentQueues

LEMMA EnterLevelKeepsStructure ==
  ASSUME Structure, NEW l \in Level, EnterLevel(l)
  PROVE  Structure'
<1>1. head[l] = At(levels[l].queue, 1) /\ head[l] \in Order \cup {Null}
  BY QueueFacts DEF Structure, TypeOK
<1>2. matching' = l /\ maker' = head[l] /\ UNCHANGED <<levelVars, linkVars, remaining>>
  BY DEF EnterLevel
<1>3. TypeOK' /\ ListsRepresentQueues' BY <1>1, <1>2, ListsUntouched
<1>4. MakerIsOldest' BY <1>1, <1>2 DEF MakerIsOldest, levelVars
<1> QED BY <1>3, <1>4 DEF Structure

LEMMA LeaveLevelKeepsStructure ==
  ASSUME Structure, LeaveLevel \/ UNCHANGED vars
  PROVE  Structure'
<1>1. /\ UNCHANGED <<levelVars, linkVars, remaining>>
      /\ matching' \in {matching, Null} /\ maker' = maker
  BY DEF LeaveLevel, vars, loopVars
<1>2. TypeOK' /\ ListsRepresentQueues'
  BY <1>1, ListsUntouched DEF Structure, TypeOK
<1>3. MakerIsOldest' BY <1>1 DEF Structure, MakerIsOldest, levelVars
<1> QED BY <1>2, <1>3 DEF Structure

LEMMA NextKeepsStructure ==
  Structure /\ [Next]_vars => Structure'
<1> SUFFICES ASSUME Structure, [Next]_vars PROVE Structure'
  OBVIOUS
<1>1. CASE \E l \in Level, o \in Order, qty \in Quantity : Rest(l, o, qty)
  BY <1>1, RestKeepsStructure
<1>2. CASE \E o \in Order : Cancel(o)
  BY <1>2, CancelKeepsStructure
<1>3. CASE \E l \in Level : EnterLevel(l)
  BY <1>3, EnterLevelKeepsStructure
<1>4. CASE \E qty \in Quantity : FillPart(qty)
  BY <1>4, FillPartKeepsStructure
<1>5. CASE \E goesOn \in BOOLEAN : FillWhole(goesOn)
  BY <1>5, FillWholeKeepsStructure
<1>6. CASE LeaveLevel \/ UNCHANGED vars
  BY <1>6, LeaveLevelKeepsStructure
<1> QED BY <1>1, <1>2, <1>3, <1>4, <1>5, <1>6 DEF Next

LEMMA StructureInvariant == Spec => []Structure
BY InitStructure, NextKeepsStructure, PTL DEF Spec

(* Every pointer is null or leads to an order or a level, and volumes stay *)
(* in the range of their unsigned type (PriceLevel.hpp:9-14).              *)
THEOREM TypeCorrect == Spec => []TypeOK
<1>1. Structure => TypeOK BY DEF Structure
<1> QED BY <1>1, StructureInvariant, PTL

(* append() and remove() do to the pointers what AppendOrder() and         *)
(* RemoveOrder() do to the queue, so that a level can be modelled by its   *)
(* queue, as OrderBook does (PriceLevel.hpp:22-60).                        *)
THEOREM PointersRepresentQueues == Spec => []ListsRepresentQueues
<1>1. Structure => ListsRepresentQueues BY DEF Structure
<1> QED BY <1>1, StructureInvariant, PTL

(* The pointer the matching loop has read before it removed an order is    *)
(* that of the oldest order left (OrderBook.cpp:71-101).                   *)
THEOREM LoopVisitsOldest == Spec => []MakerIsOldest
<1>1. Structure => MakerIsOldest BY DEF Structure
<1> QED BY <1>1, StructureInvariant, PTL
=============================================================================
