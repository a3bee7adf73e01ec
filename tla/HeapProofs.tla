------------------------------ MODULE HeapProofs ------------------------------
(***************************************************************************)
(* The heap keeps its shape, for chunks of any size, any number of them    *)
(* and any requests: the free list is cyclic and in address order, blocks  *)
(* do not overlap, and free neighbours are merged.                         *)
(*                                                                         *)
(* The first half is about a list and a set of blocks as values: what      *)
(* removing, inserting, splitting and merging preserve.  An action of Heap *)
(* is one or two of these.  A free is a merge with the block on the right, *)
(* or none, and then a merge with the block on the left or an insertion.   *)
(***************************************************************************)
EXTENDS Heap, TLAPS

(* nx is a cyclic list of D in address order, base last. *)
List(D, nx) ==
  /\ base \in D /\ D \subseteq Nodes /\ nx \in [D -> D]
  /\ \A a, b \in D :
       /\ a # base => nx[a] > a /\ ~(a < b /\ b < nx[a])
       /\ a = base => nx[a] <= b

(* Blocks of sizes sz at E lie below brk and do not overlap; base has none. *)
Blocks(E, sz, brk) ==
  /\ base \in E /\ E \subseteq Nodes /\ sz \in [E -> Nat] /\ sz[base] = 0
  /\ \A a \in E \ {base} : sz[a] > 0 /\ a + sz[a] <= brk
  /\ \A a, b \in E \ {base} : a < b => a + sz[a] <= b

(* No block of D ends where one of D begins. *)
Apart(D, sz) == \A a \in D \ {base} : a + sz[a] \notin D

(* The nodes are numbers, and base is the largest. *)
LEMMA NodeFacts ==
  /\ base \in Nat /\ base \in Nodes
  /\ \A a \in Nodes : a \in Nat /\ (a # base => a < base /\ a \in Addresses)
  /\ \A a \in Nat : a < NALLOC * MaxChunks => a \in Nodes /\ a \in Addresses /\ a # base
  /\ NALLOC * MaxChunks \in Nat /\ base = NALLOC * MaxChunks + 1
<1>1. PICK m \in Nat : m = NALLOC * MaxChunks
  BY HeapAssumption
<1> QED
  BY <1>1 DEF Nodes, Addresses, base

(***************************************************************************)
(* The list.                                                               *)
(***************************************************************************)

(* Only base can be its own successor. *)
LEMMA ListNoLoop ==
  ASSUME NEW D, NEW nx, List(D, nx), NEW k \in D, nx[k] # base
  PROVE  nx[k] # k /\ nx[k] \in D /\ nx[nx[k]] \in D /\ nx[nx[k]] > nx[k]
<1>1. nx[k] \in D /\ nx[nx[k]] \in D
  BY DEF List
<1>2. nx[nx[k]] > nx[k]
  BY <1>1 DEF List
<1>3. nx[k] # k
  <2>1. CASE k = base
    BY <2>1
  <2>2. CASE k # base
    <3>1. nx[k] > k /\ k \in Nat
      BY <2>2, NodeFacts DEF List
    <3> QED BY <3>1
  <2> QED BY <2>1, <2>2
<1> QED
  BY <1>1, <1>2, <1>3

(* No two blocks have the same successor. *)
LEMMA ListInjective ==
  ASSUME NEW D, NEW nx, List(D, nx), NEW a \in D, NEW b \in D, nx[a] = nx[b]
  PROVE  a = b
<1>1. a \in Nat /\ b \in Nat /\ nx[a] \in Nat /\ nx[a] \in D
  BY NodeFacts DEF List
<1>2. CASE a # base /\ b # base
  <2>1. a < nx[a] /\ b < nx[a] /\ ~(a < b /\ b < nx[a]) /\ ~(b < a /\ a < nx[a])
    BY <1>2 DEF List
  <2> QED
    BY <1>1, <2>1
<1>3. CASE a = base /\ b # base
  <2>1. nx[a] <= b /\ nx[b] > b
    BY <1>3 DEF List
  <2> QED
    BY <1>1, <2>1
<1>4. CASE a # base /\ b = base
  <2>1. nx[b] <= a /\ nx[a] > a
    BY <1>4 DEF List
  <2> QED
    BY <1>1, <2>1
<1> QED
  BY <1>2, <1>3, <1>4

(* Taking the successor of k out leaves a list. *)
LEMMA ListRemove ==
  ASSUME NEW D, NEW nx, List(D, nx), NEW k \in D, nx[k] # base
  PROVE  List(D \ {nx[k]},
              [a \in D \ {nx[k]} |-> IF a = k THEN nx[nx[k]] ELSE nx[a]])
<1> DEFINE q == nx[k]
           mx == [a \in D \ {q} |-> IF a = k THEN nx[q] ELSE nx[a]]
<1>1. q \in D /\ q # k /\ nx[q] \in D /\ nx[q] > q /\ q # base
  BY ListNoLoop
<1>2. \A a \in D : a \in Nat /\ nx[a] \in D /\ nx[a] \in Nat
  BY NodeFacts DEF List
<1>3. base \in D \ {q} /\ D \ {q} \subseteq Nodes
  BY <1>1 DEF List
<1>4. ASSUME NEW a \in D \ {q} PROVE mx[a] \in D \ {q}
  <2>1. CASE a = k
    <3>1. nx[q] # q
      BY <1>1, <1>2
    <3> QED
      BY <2>1, <1>1, <3>1
  <2>2. CASE a # k
    <3>1. nx[a] # q
      BY <2>2, ListInjective
    <3> QED
      BY <2>2, <1>2, <3>1
  <2> QED BY <2>1, <2>2
<1>5. ASSUME NEW a \in D \ {q}, NEW b \in D \ {q}, a # base
      PROVE  mx[a] > a /\ ~(a < b /\ b < mx[a])
  <2>1. nx[a] > a /\ ~(a < b /\ b < nx[a])
    BY <1>5 DEF List
  <2>2. CASE a = k
    <3>1. mx[a] = nx[q]
      BY <2>2
    <3>2. ~(q < b /\ b < nx[q])
      BY <1>1 DEF List
    <3> QED
      BY <1>1, <1>2, <2>1, <2>2, <3>1, <3>2
  <2>3. CASE a # k
    BY <2>1, <2>3
  <2> QED BY <2>2, <2>3
<1>6. ASSUME NEW a \in D \ {q}, NEW b \in D \ {q}, a = base
      PROVE  mx[a] <= b
  <2>1. nx[a] <= b
    BY <1>6 DEF List
  <2>2. CASE a = k
    <3>1. mx[a] = nx[q]
      BY <2>2
    <3>2. ~(q < b /\ b < nx[q])
      BY <1>1 DEF List
    <3> QED
      BY <1>1, <1>2, <2>1, <2>2, <3>1, <3>2
  <2>3. CASE a # k
    BY <2>1, <2>3
  <2> QED BY <2>2, <2>3
<1>7. mx \in [D \ {q} -> D \ {q}]
  BY <1>4
<1> HIDE DEF mx
<1>8. List(D \ {q}, mx)
  BY <1>3, <1>5, <1>6, <1>7 DEF List
<1> QED
  BY <1>8 DEF mx

(* The successors once b has been put after k *)
Linked(D, nx, k, b) ==
  [a \in D \union {b} |-> IF a = k THEN b ELSE IF a = b THEN nx[k] ELSE nx[a]]

(* A block is put after k when it lies between k and its successor. *)
LEMMA ListInsert ==
  ASSUME NEW D, NEW nx, List(D, nx), NEW k \in D, NEW b \in Nodes \ D,
         k = base \/ k < b, b < nx[k]
  PROVE  List(D \union {b}, Linked(D, nx, k, b))
<1> DEFINE mx == [a \in D \union {b} |-> IF a = k THEN b ELSE IF a = b THEN nx[k] ELSE nx[a]]
<1>1. /\ b \in Nat /\ b # base /\ b # k /\ k \in Nat /\ nx[k] \in D /\ nx[k] \in Nat
      /\ \A a \in D : a \in Nat /\ nx[a] \in D /\ nx[a] \in Nat /\ a # b
  BY NodeFacts DEF List
<1>2. base \in D \union {b} /\ D \union {b} \subseteq Nodes
  BY DEF List
<1>3. mx \in [D \union {b} -> D \union {b}]
  BY <1>1
<1>4. mx[k] = b /\ mx[b] = nx[k] /\ \A a \in D \ {k} : mx[a] = nx[a]
  BY <1>1
<1> HIDE DEF mx
(* No block of the list lies between k and b, or between b and the successor. *)
<1>5. ASSUME NEW c \in D
      PROVE  c <= k \/ nx[k] <= c
  <2>1. CASE k = base
    BY <2>1, <1>1 DEF List
  <2>2. CASE k # base
    <3>1. ~(k < c /\ c < nx[k])
      BY <2>2 DEF List
    <3> QED
      BY <1>1, <3>1
  <2> QED BY <2>1, <2>2
<1>6. ASSUME NEW c \in D, k = base PROVE nx[k] <= c
  BY <1>6 DEF List
<1>7. ASSUME NEW a \in D \union {b}, NEW c \in D \union {b}, a # base
      PROVE  mx[a] > a /\ ~(a < c /\ c < mx[a])
  <2>1. CASE a = k
    <3>1. mx[a] = b /\ a < b
      BY <1>4, <1>7, <2>1
    <3>2. ~(a < c /\ c < b)
      BY <1>1, <1>5, <2>1
    <3> QED
      BY <1>1, <3>1, <3>2
  <2>2. CASE a = b
    <3>1. mx[a] = nx[k]
      BY <1>4, <2>2
    <3>2. ~(b < c /\ c < nx[k])
      BY <1>1, <1>5, <1>6
    <3> QED
      BY <1>1, <2>2, <3>1, <3>2
  <2>3. CASE a # k /\ a # b
    <3>1. a \in D /\ mx[a] = nx[a] /\ nx[a] > a
      BY <1>4, <1>7, <2>3 DEF List
    <3>2. \A d \in D : ~(a < d /\ d < nx[a])
      BY <1>7, <3>1 DEF List
    <3>3. ~(a < b /\ b < nx[a])
      BY <1>1, <1>5, <1>6, <2>3, <3>1, <3>2
    <3> QED
      BY <3>1, <3>2, <3>3
  <2> QED BY <2>1, <2>2, <2>3
<1>8. ASSUME NEW a \in D \union {b}, NEW c \in D \union {b}, a = base
      PROVE  mx[a] <= c
  <2>1. \A d \in D : nx[base] <= d
    BY DEF List
  <2>2. base \in D
    BY DEF List
  <2>3. CASE k = base
    BY <1>1, <1>4, <1>8, <2>1, <2>3
  <2>4. CASE k # base
    BY <1>1, <1>4, <1>8, <2>1, <2>2, <2>4
  <2> QED BY <2>3, <2>4
<1>9. List(D \union {b}, mx)
  BY <1>2, <1>3, <1>7, <1>8 DEF List
<1> QED
  BY <1>9 DEF mx, Linked

(* No block lies between one and its successor; none lies below that of base. *)
LEMMA ListGap ==
  ASSUME NEW D, NEW nx, List(D, nx), NEW k \in D, NEW c \in D
  PROVE  nx[k] <= c \/ c = k \/ (c < k /\ k # base)
<1>1. k \in Nat /\ c \in Nat /\ nx[k] \in Nat
  BY NodeFacts DEF List
<1>2. CASE k = base
  BY <1>2 DEF List
<1>3. CASE k # base
  <2>1. ~(k < c /\ c < nx[k])
    BY <1>3 DEF List
  <2> QED
    BY <1>1, <1>3, <2>1
<1> QED
  BY <1>2, <1>3

(***************************************************************************)
(* The blocks.                                                             *)
(***************************************************************************)

(* The part of the heap that has been mapped is within its bounds. *)
LEMMA BrkBound ==
  ASSUME NEW c \in 0 .. MaxChunks
  PROVE  /\ NALLOC * c \in Nat /\ NALLOC * c <= NALLOC * MaxChunks
         /\ NALLOC * c < base
         /\ NALLOC * (c + 1) = NALLOC * c + NALLOC
         /\ c < MaxChunks => NALLOC * c + NALLOC <= NALLOC * MaxChunks
<1>1. \A n, x \in Nat : n * x \in Nat
  OBVIOUS
<1>2. \A n, x, y \in Nat : n * (x + y) = n * x + n * y
  OBVIOUS
<1>3. PICK d \in Nat : d = MaxChunks - c
  BY HeapAssumption
<1>4. c \in Nat /\ NALLOC \in Nat /\ MaxChunks = c + d
  BY <1>3, HeapAssumption
<1>5. NALLOC * c \in Nat /\ NALLOC * d \in Nat
  BY <1>1, <1>4
<1>6. NALLOC * MaxChunks = NALLOC * c + NALLOC * d
  BY <1>2, <1>4
<1>7. NALLOC * (c + 1) = NALLOC * c + NALLOC
  <2>1. NALLOC * (c + 1) = NALLOC * c + NALLOC * 1
    BY <1>2, <1>4
  <2>2. NALLOC * 1 = NALLOC
    BY <1>4
  <2> QED BY <2>1, <2>2
<1>8. ASSUME c < MaxChunks PROVE NALLOC * d >= NALLOC
  <2>1. PICK e \in Nat : d = e + 1
    <3>1. d - 1 \in Nat /\ d = (d - 1) + 1
      BY <1>3, <1>4, <1>8
    <3> QED BY <3>1
  <2>2. NALLOC * d = NALLOC * e + NALLOC * 1
    BY <1>2, <1>4, <2>1
  <2>3. NALLOC * e \in Nat /\ NALLOC * 1 = NALLOC
    BY <1>1, <1>4
  <2> QED
    BY <1>4, <2>2, <2>3
<1>9. PICK m \in Nat : m = NALLOC * MaxChunks
  BY NodeFacts
<1>10. base = m + 1
  BY <1>9, NodeFacts
<1> QED
  BY <1>4, <1>5, <1>6, <1>7, <1>8, <1>9, <1>10

(* What the elements of a set of blocks are. *)
LEMMA BlockFacts ==
  ASSUME NEW c \in 0 .. MaxChunks, NEW E, NEW sz, Blocks(E, sz, NALLOC * c),
         NEW a \in E
  PROVE  /\ a \in Nat /\ sz[a] \in Nat
         /\ a # base => sz[a] > 0 /\ a + sz[a] < base
<1>1. PICK m \in Nat : m = NALLOC * c
  BY BrkBound
<1>2. a \in Nat /\ sz[a] \in Nat /\ m < base /\ base \in Nat
  BY <1>1, BrkBound, NodeFacts DEF Blocks
<1>3. ASSUME a # base PROVE sz[a] > 0 /\ a + sz[a] <= m
  BY <1>1, <1>3 DEF Blocks
<1> QED
  BY <1>2, <1>3

(* Blocks that are forgotten leave blocks. *)
LEMMA BlocksSubset ==
  ASSUME NEW E, NEW sz, NEW brk \in Nat, Blocks(E, sz, brk),
         NEW F \in SUBSET E, base \in F, NEW tz \in [F -> Nat],
         \A a \in F : tz[a] = sz[a]
  PROVE  Blocks(F, tz, brk)
BY DEF Blocks

(* A tail of n units cut off a larger block is a block of its own. *)
LEMMA BlocksSplit ==
  ASSUME NEW c \in 0 .. MaxChunks, NEW E, NEW sz, Blocks(E, sz, NALLOC * c),
         NEW k \in E \ {base}, NEW n \in Nat \ {0}, n < sz[k]
  PROVE  LET r == k + (sz[k] - n) IN
         /\ r \in Addresses /\ r \notin E
         /\ Blocks(E \union {r},
                   [a \in E \union {r} |->
                      IF a = k THEN sz[k] - n ELSE IF a = r THEN n ELSE sz[a]],
                   NALLOC * c)
<1> DEFINE r == k + (sz[k] - n)
           tz == [a \in E \union {r} |->
                    IF a = k THEN sz[k] - n ELSE IF a = r THEN n ELSE sz[a]]
<1>1. PICK m \in Nat : m = NALLOC * c /\ m <= NALLOC * MaxChunks
  BY BrkBound
<1>2. \A a \in E : a \in Nat /\ sz[a] \in Nat
  BY BlockFacts
<1>3. \A a \in E \ {base} : sz[a] > 0 /\ a + sz[a] <= m
  BY <1>1 DEF Blocks
<1>4. \A a, b \in E \ {base} : a < b => a + sz[a] <= b
  BY <1>1 DEF Blocks
<1>5. PICK x \in Nat : x = NALLOC * MaxChunks
  BY NodeFacts
<1>6. r \in Nat /\ k < r /\ r < k + sz[k] /\ r + n = k + sz[k]
  BY <1>2
<1>7. r < x
  BY <1>1, <1>3, <1>5, <1>6
<1>8. r \in Addresses /\ r \in Nodes /\ r # base
  BY <1>5, <1>6, <1>7, NodeFacts
<1>9. r \notin E
  <2> SUFFICES ASSUME r \in E PROVE FALSE
    OBVIOUS
  <2>1. k + sz[k] <= r
    BY <1>4, <1>6, <1>8
  <2> QED
    BY <1>2, <1>6, <2>1
<1>10. tz \in [E \union {r} -> Nat]
  BY <1>2, <1>6
<1>11. /\ tz[k] = sz[k] - n /\ tz[r] = n
       /\ \A a \in E \ {k} : tz[a] = sz[a]
  BY <1>6, <1>9
<1>12. base \in E /\ E \union {r} \subseteq Nodes /\ tz[base] = 0
  <2>1. base \in E /\ E \subseteq Nodes /\ sz[base] = 0
    BY DEF Blocks
  <2> QED
    BY <1>8, <1>11, <2>1
<1> HIDE DEF tz, r
<1>13. ASSUME NEW a \in (E \union {r}) \ {base} PROVE tz[a] > 0 /\ a + tz[a] <= m
  <2>1. CASE a = k
    BY <1>2, <1>3, <1>6, <1>11, <2>1
  <2>2. CASE a = r
    BY <1>3, <1>6, <1>11, <2>2
  <2>3. CASE a \in E \ {k}
    BY <1>3, <1>11, <1>13, <2>3
  <2> QED BY <2>1, <2>2, <2>3
<1>14. ASSUME NEW a \in (E \union {r}) \ {base}, NEW b \in (E \union {r}) \ {base}, a < b
       PROVE  a + tz[a] <= b
  <2>1. CASE a = r
    <3>1. b \in E \ {base} /\ k < b
      BY <1>2, <1>6, <1>14, <2>1
    <3>2. k + sz[k] <= b
      BY <1>4, <3>1
    <3> QED
      BY <1>6, <1>11, <2>1, <3>2
  <2>2. CASE a = k /\ b = r
    BY <1>2, <1>6, <1>11, <2>2
  <2>3. CASE a = k /\ b # r
    <3>1. b \in E \ {base} /\ b \in Nat
      BY <1>2, <1>14, <2>3
    <3>2. k + sz[k] <= b
      BY <1>4, <1>14, <2>3, <3>1
    <3> QED
      BY <1>2, <1>11, <2>3, <3>1, <3>2
  <2>4. CASE a \in E \ {k} /\ b = r
    <3>1. a \in Nat /\ a \in E \ {base} /\ sz[a] \in Nat /\ tz[a] = sz[a]
      BY <1>2, <1>11, <1>14, <2>4
    <3>2. CASE a < k
      <4>1. a + sz[a] <= k
        BY <1>4, <3>1, <3>2
      <4> QED
        BY <1>2, <1>6, <2>4, <3>1, <4>1
    <3>3. CASE k < a
      <4>1. k + sz[k] <= a
        BY <1>4, <3>1, <3>3
      <4> QED
        BY <1>2, <1>6, <1>14, <2>4, <3>1, <4>1
    <3> QED BY <1>2, <2>4, <3>1, <3>2, <3>3
  <2>5. CASE a \in E \ {k} /\ b \in E
    BY <1>4, <1>11, <1>14, <2>5
  <2> QED
    BY <1>14, <2>1, <2>2, <2>3, <2>4, <2>5
<1>15. Blocks(E \union {r}, tz, NALLOC * c)
  BY <1>1, <1>10, <1>12, <1>13, <1>14 DEF Blocks
<1> QED
  BY <1>8, <1>9, <1>15 DEF tz, r

(* The heap grows by a block of its own, at its end. *)
LEMMA BlocksAdd ==
  ASSUME NEW c \in 0 .. MaxChunks, c < MaxChunks,
         NEW E, NEW sz, Blocks(E, sz, NALLOC * c)
  PROVE  LET r == NALLOC * c IN
         /\ r \in Addresses /\ r \notin E
         /\ Blocks(E \union {r},
                   [a \in E \union {r} |-> IF a = r THEN NALLOC ELSE sz[a]],
                   NALLOC * (c + 1))
<1> DEFINE tz(r) == [a \in E \union {r} |-> IF a = r THEN NALLOC ELSE sz[a]]
<1>1. PICK r \in Nat : r = NALLOC * c
  BY BrkBound
<1>2. PICK m \in Nat : m = NALLOC * (c + 1)
  <2>1. NALLOC * (c + 1) \in Nat
    BY <1>1, BrkBound, HeapAssumption
  <2> QED BY <2>1
<1>3. /\ m = r + NALLOC /\ NALLOC \in Nat \ {0} /\ m <= NALLOC * MaxChunks
      /\ NALLOC * MaxChunks \in Nat
  BY <1>1, <1>2, BrkBound, NodeFacts, HeapAssumption
<1>4. r \in Addresses /\ r \in Nodes /\ r # base
  <2>1. r < NALLOC * MaxChunks
    BY <1>3
  <2> QED BY <2>1, NodeFacts
<1>5. \A a \in E : a \in Nat /\ sz[a] \in Nat
  BY BlockFacts
<1>6. \A a \in E \ {base} : sz[a] > 0 /\ a + sz[a] <= r
  BY <1>1 DEF Blocks
<1>7. r \notin E
  BY <1>4, <1>5, <1>6
<1>8. base \in E /\ E \union {r} \subseteq Nodes /\ tz(r)[base] = 0
  BY <1>4 DEF Blocks
<1>9. tz(r) \in [E \union {r} -> Nat]
  BY <1>3, <1>5
<1>10. tz(r)[r] = NALLOC /\ \A a \in E : tz(r)[a] = sz[a]
  BY <1>7
<1>11. \A a, b \in E \ {base} : a < b => a + sz[a] <= b
  BY DEF Blocks
<1> HIDE DEF tz
<1>12. ASSUME NEW a \in (E \union {r}) \ {base} PROVE tz(r)[a] > 0 /\ a + tz(r)[a] <= m
  <2>1. CASE a = r
    BY <1>3, <1>10, <2>1
  <2>2. CASE a \in E
    <3>1. a \in Nat /\ sz[a] \in Nat /\ sz[a] > 0 /\ a + sz[a] <= r
      BY <1>5, <1>6, <1>12, <2>2
    <3> QED
      BY <1>3, <1>10, <2>2, <3>1
  <2> QED BY <2>1, <2>2
<1>13. ASSUME NEW a \in (E \union {r}) \ {base}, NEW b \in (E \union {r}) \ {base}, a < b
       PROVE  a + tz(r)[a] <= b
  <2>1. CASE a = r
    <3>1. b \in E \ {base} /\ b \in Nat /\ sz[b] > 0 /\ b + sz[b] <= r /\ sz[b] \in Nat
      BY <1>5, <1>6, <1>13, <2>1
    <3> QED
      BY <1>13, <2>1, <3>1
  <2>2. CASE a \in E /\ b = r
    BY <1>6, <1>10, <1>13, <2>2
  <2>3. CASE a \in E /\ b \in E
    BY <1>10, <1>11, <1>13, <2>3
  <2> QED BY <2>1, <2>2, <2>3
<1>14. Blocks(E \union {r}, tz(r), m)
  BY <1>8, <1>9, <1>12, <1>13 DEF Blocks
<1> QED
  BY <1>1, <1>2, <1>4, <1>7, <1>14 DEF tz

(* A block that begins where another ends can be made part of it. *)
LEMMA BlocksMerge ==
  ASSUME NEW c \in 0 .. MaxChunks, NEW E, NEW sz, Blocks(E, sz, NALLOC * c),
         NEW k \in E \ {base}, NEW b \in E \ {base}, k + sz[k] = b
  PROVE  /\ k # b
         /\ Blocks(E \ {b},
                   [a \in E \ {b} |-> IF a = k THEN sz[k] + sz[b] ELSE sz[a]],
                   NALLOC * c)
<1> DEFINE tz == [a \in E \ {b} |-> IF a = k THEN sz[k] + sz[b] ELSE sz[a]]
<1>1. PICK m \in Nat : m = NALLOC * c
  BY BrkBound
<1>2. \A a \in E : a \in Nat /\ sz[a] \in Nat
  BY BlockFacts
<1>3. \A a \in E \ {base} : sz[a] > 0 /\ a + sz[a] <= m
  BY <1>1 DEF Blocks
<1>4. \A x, y \in E \ {base} : x < y => x + sz[x] <= y
  BY DEF Blocks
<1>5. k < b /\ k # b
  BY <1>2, <1>3
<1>6. tz \in [E \ {b} -> Nat]
  BY <1>2
<1>7. tz[k] = sz[k] + sz[b] /\ \A a \in (E \ {b}) \ {k} : tz[a] = sz[a]
  BY <1>5
<1>8. base \in E \ {b} /\ E \ {b} \subseteq Nodes /\ tz[base] = 0
  BY DEF Blocks
<1> HIDE DEF tz
<1>9. ASSUME NEW a \in (E \ {b}) \ {base} PROVE tz[a] > 0 /\ a + tz[a] <= m
  <2>1. CASE a = k
    BY <1>2, <1>3, <1>7, <2>1
  <2>2. CASE a # k
    BY <1>3, <1>7, <2>2
  <2> QED BY <2>1, <2>2
<1>10. ASSUME NEW x \in (E \ {b}) \ {base}, NEW y \in (E \ {b}) \ {base}, x < y
       PROVE  x + tz[x] <= y
  <2>1. CASE x = k
    <3>1. b <= y
      BY <1>4, <1>10, <2>1
    <3>2. b < y
      BY <1>2, <1>10, <3>1
    <3>3. b + sz[b] <= y
      BY <1>4, <3>2
    <3> QED
      BY <1>2, <1>7, <2>1, <3>3
  <2>2. CASE x # k
    BY <1>4, <1>7, <1>10, <2>2
  <2> QED BY <2>1, <2>2
<1>11. Blocks(E \ {b}, tz, NALLOC * c)
  BY <1>1, <1>6, <1>8, <1>9, <1>10 DEF Blocks
<1> QED
  BY <1>5, <1>11 DEF tz

(***************************************************************************)
(* Freeing a block: a merge to the right or none, then a merge to the left *)
(* or an insertion.                                                        *)
(***************************************************************************)

(* The list D, nx and the blocks E, sz are those of a heap. *)
Shape(D, nx, E, sz, brk) ==
  List(D, nx) /\ Blocks(E, sz, brk) /\ D \subseteq E /\ Apart(D, sz)

(* The block b is not free and its place on the list is after k. *)
Fits(D, nx, E, k, b) ==
  k \in D /\ b \in E \ D /\ (k = base \/ k < b) /\ b < nx[k]

(* What follows from that about the block, its neighbours and the others. *)
LEMMA FitsFacts ==
  ASSUME NEW c \in 0 .. MaxChunks, NEW D, NEW nx, NEW E, NEW sz,
         Shape(D, nx, E, sz, NALLOC * c), NEW k, NEW b, Fits(D, nx, E, k, b)
  PROVE  /\ k \in E /\ k \in Nat /\ b \in E /\ b \in Nat /\ b # base /\ k # b
         /\ nx[k] \in D /\ nx[k] \in E /\ nx[k] \in Nat
         /\ \A a \in D : a \in E /\ a \in Nat /\ nx[a] \in D /\ sz[a] \in Nat
         /\ \A a \in D : a # base /\ a < b => a <= k
         /\ \A a \in D : b < a => nx[k] <= a
<1>1. \A a \in D : a \in E /\ a \in Nat /\ nx[a] \in D /\ sz[a] \in Nat
  BY BlockFacts DEF Shape, List
<1>2. k \in D /\ b \in E /\ b \notin D /\ base \in D /\ b \in Nat
  BY BlockFacts DEF Shape, List, Fits
<1>3. ASSUME NEW a \in D, b < a PROVE nx[k] <= a
  <2>1. nx[k] <= a \/ a = k \/ (a < k /\ k # base)
    BY <1>2, <1>3, ListGap DEF Shape
  <2>2. k = base \/ k < b
    BY DEF Fits
  <2>3. CASE k = base
    BY <1>2, <2>3 DEF Shape, List
  <2>4. CASE k # base
    BY <1>1, <1>2, <1>3, <2>1, <2>2, <2>4
  <2> QED BY <2>3, <2>4
<1>4. ASSUME NEW a \in D, a # base, a < b PROVE a <= k
  <2>1. nx[k] <= a \/ a = k \/ (a < k /\ k # base)
    BY <1>2, ListGap DEF Shape
  <2>2. b < nx[k]
    BY DEF Fits
  <2>3. a \in Nat /\ k \in Nat /\ nx[k] \in Nat
    BY <1>1, <1>2
  <2> QED
    BY <1>2, <1>4, <2>1, <2>2, <2>3
<1> QED
  BY <1>1, <1>2, <1>3, <1>4

(* A block that does not end where its successor begins ends at no free block. *)
LEMMA RightApart ==
  ASSUME NEW c \in 0 .. MaxChunks, NEW D, NEW nx, NEW E, NEW sz,
         Shape(D, nx, E, sz, NALLOC * c), NEW k, NEW b, Fits(D, nx, E, k, b),
         b + sz[b] # nx[k]
  PROVE  b + sz[b] \notin D
<1> SUFFICES ASSUME NEW e \in D, e = b + sz[b] PROVE FALSE
  OBVIOUS
<1>1. b \in Nat /\ sz[b] \in Nat /\ sz[b] > 0 /\ b + sz[b] < base /\ b # base
  BY FitsFacts, BlockFacts DEF Shape
<1>2. b < e /\ e < base /\ e \in Nat
  BY <1>1
<1>3. nx[k] <= e /\ nx[k] \in Nat /\ nx[k] \in E
  BY <1>2, FitsFacts
<1>4. nx[k] < e /\ nx[k] # base /\ b < nx[k]
  BY <1>2, <1>3, NodeFacts DEF Fits
<1>5. b + sz[b] <= nx[k]
  <2>1. b \in E \ {base} /\ nx[k] \in E \ {base}
    BY <1>1, <1>3, <1>4, FitsFacts
  <2> QED
    BY <1>4, <2>1 DEF Shape, Blocks
<1> QED
  BY <1>2, <1>3, <1>4, <1>5

(* Merging with the successor. *)
LEMMA RightMerged ==
  ASSUME NEW c \in 0 .. MaxChunks, NEW D, NEW nx, NEW E, NEW sz,
         Shape(D, nx, E, sz, NALLOC * c), NEW k, NEW b, Fits(D, nx, E, k, b),
         b + sz[b] = nx[k]
  PROVE  LET q  == nx[k]
             mx == [a \in D \ {q} |-> IF a = k THEN nx[q] ELSE nx[a]]
             tz == [a \in E \ {q} |-> IF a = b THEN sz[b] + sz[q] ELSE sz[a]]
         IN /\ q # k /\ q # base
            /\ Shape(D \ {q}, mx, E \ {q}, tz, NALLOC * c)
            /\ Fits(D \ {q}, mx, E \ {q}, k, b)
            /\ b + tz[b] \notin D \ {q}
<1> DEFINE q  == nx[k]
           mx == [a \in D \ {q} |-> IF a = k THEN nx[q] ELSE nx[a]]
           tz == [a \in E \ {q} |-> IF a = b THEN sz[b] + sz[q] ELSE sz[a]]
<1>1. /\ k \in D /\ b \in E /\ b \notin D /\ b # base /\ b \in Nat /\ k # b
      /\ q \in D /\ q \in E /\ q \in Nat /\ b < q /\ (k = base \/ k < b)
  BY FitsFacts DEF Fits
<1>2. sz[b] \in Nat /\ b + sz[b] < base /\ sz[q] \in Nat
  BY <1>1, BlockFacts DEF Shape
<1>3. q # base
  BY <1>1, <1>2, NodeFacts
<1>4. q # k /\ nx[q] > q /\ nx[q] \in D
  BY <1>1, <1>3, ListNoLoop DEF Shape
<1>5. List(D \ {q}, mx)
  <2>1. List(D, nx)
    BY DEF Shape
  <2> QED
    BY <1>1, <1>3, <2>1, ListRemove
<1>6. Blocks(E \ {q}, tz, NALLOC * c)
  BY <1>1, <1>3, BlocksMerge DEF Shape
<1>7. tz[b] = sz[b] + sz[q] /\ \A a \in D \ {q} : tz[a] = sz[a]
  BY <1>1 DEF Shape
<1>8. mx[k] = nx[q]
  BY <1>1, <1>4
<1> HIDE DEF mx, tz
<1>9. Apart(D \ {q}, tz)
  BY <1>7 DEF Shape, Apart
<1>10. b + tz[b] \notin D \ {q}
  <2>1. q + sz[q] \notin D
    BY <1>1, <1>3 DEF Shape, Apart
  <2>2. b + tz[b] = q + sz[q]
    BY <1>1, <1>2, <1>7
  <2> QED BY <2>1, <2>2
<1>11. D \ {q} \subseteq E \ {q}
  BY DEF Shape
<1>12. b < mx[k]
  <2>1. nx[q] \in Nat
    BY <1>4, FitsFacts
  <2> QED
    BY <1>1, <1>4, <1>8, <2>1
<1>13. Fits(D \ {q}, mx, E \ {q}, k, b)
  BY <1>1, <1>4, <1>12 DEF Fits
<1>14. Shape(D \ {q}, mx, E \ {q}, tz, NALLOC * c)
  BY <1>5, <1>6, <1>9, <1>11 DEF Shape
<1> QED
  BY <1>3, <1>4, <1>10, <1>13, <1>14 DEF mx, tz

(* Merging with the predecessor, which is not base: base has no size. *)
LEMMA LeftMerged ==
  ASSUME NEW c \in 0 .. MaxChunks, NEW D, NEW nx, NEW E, NEW sz,
         Shape(D, nx, E, sz, NALLOC * c), NEW k, NEW b, Fits(D, nx, E, k, b),
         b + sz[b] \notin D, k + sz[k] = b
  PROVE  Shape(D, nx, E \ {b},
               [a \in E \ {b} |-> IF a = k THEN sz[k] + sz[b] ELSE sz[a]], NALLOC * c)
<1> DEFINE tz == [a \in E \ {b} |-> IF a = k THEN sz[k] + sz[b] ELSE sz[a]]
<1>1. k \in D /\ b \in E /\ b \notin D /\ b # base /\ b \in Nat /\ k \in E /\ k \in Nat
  BY FitsFacts DEF Fits
<1>2. k # base
  <2>1. sz[base] = 0
    BY DEF Shape, Blocks
  <2> QED
    BY <1>1, <2>1
<1>3. k # b /\ Blocks(E \ {b}, tz, NALLOC * c)
  <2>1. Blocks(E, sz, NALLOC * c) /\ k \in E \ {base} /\ b \in E \ {base}
    BY <1>1, <1>2 DEF Shape
  <2> QED
    BY <2>1, BlocksMerge
<1>4. D \subseteq E \ {b}
  BY <1>1 DEF Shape
<1>5. tz[k] = sz[k] + sz[b] /\ \A a \in D \ {k} : tz[a] = sz[a]
  BY <1>1, <1>3, <1>4
<1> HIDE DEF tz
<1>6. k + tz[k] = b + sz[b]
  BY <1>1, <1>5, BlockFacts DEF Shape
<1>7. Apart(D, tz)
  BY <1>5, <1>6 DEF Shape, Apart
<1>8. Shape(D, nx, E \ {b}, tz, NALLOC * c)
  BY <1>3, <1>4, <1>7 DEF Shape
<1> QED
  BY <1>8 DEF tz

(* Putting the block on the list by itself. *)
LEMMA Inserted ==
  ASSUME NEW c \in 0 .. MaxChunks, NEW D, NEW nx, NEW E, NEW sz,
         Shape(D, nx, E, sz, NALLOC * c), NEW k, NEW b, Fits(D, nx, E, k, b),
         b + sz[b] \notin D, k + sz[k] # b
  PROVE  Shape(D \union {b}, Linked(D, nx, k, b), E, sz, NALLOC * c)
<1>1. /\ k \in D /\ b \in E /\ b \notin D /\ b # base /\ b \in Nat /\ k \in E
      /\ k \in Nat /\ (k = base \/ k < b) /\ b < nx[k]
  BY FitsFacts DEF Fits
<1>2. b \in Nodes \ D
  BY <1>1 DEF Shape, Blocks
<1>3. List(D \union {b}, Linked(D, nx, k, b))
  <2>1. List(D, nx) /\ k \in D
    BY <1>1 DEF Shape
  <2>2. k = base \/ k < b
    BY <1>1
  <2>3. b < nx[k]
    BY <1>1
  <2> QED
    BY <2>1, <2>2, <2>3, <1>2, ListInsert, Zenon
<1>4. ASSUME NEW a \in (D \union {b}) \ {base} PROVE a + sz[a] \notin D \union {b}
  <2>1. sz[b] \in Nat /\ sz[b] > 0
    BY <1>1, BlockFacts DEF Shape
  <2>2. CASE a = b
    BY <1>1, <2>1, <2>2
  <2>3. CASE a \in D
    <3>1. a + sz[a] \notin D
      BY <1>4, <2>3 DEF Shape, Apart
    <3>2. a \in Nat /\ a \in E /\ sz[a] \in Nat /\ sz[a] > 0
      BY <1>4, <2>3, FitsFacts, BlockFacts DEF Shape
    <3>3. CASE a < b
      <4>1. a <= k
        BY <1>4, <2>3, <3>3, FitsFacts
      <4>2. CASE a = k
        BY <3>1, <4>2
      <4>3. CASE a < k /\ k = base
        <5>1. nx[k] <= a
          BY <2>3, <4>3 DEF Shape, List
        <5>2. nx[k] \in Nat
          BY FitsFacts
        <5> QED
          BY <1>1, <3>2, <3>3, <5>1, <5>2
      <4>4. CASE a < k /\ k # base
        <5>1. a + sz[a] <= k
          BY <1>1, <1>4, <3>2, <4>4 DEF Shape, Blocks
        <5> QED
          BY <1>1, <3>1, <3>2, <4>4, <5>1
      <4> QED BY <1>1, <3>2, <4>1, <4>2, <4>3, <4>4
    <3>4. CASE ~(a < b)
      BY <1>1, <2>3, <3>1, <3>2, <3>4
    <3> QED BY <3>3, <3>4
  <2> QED BY <2>2, <2>3
<1>5. D \union {b} \subseteq E
  BY <1>1 DEF Shape
<1> QED
  BY <1>3, <1>4, <1>5 DEF Shape, Apart

(***************************************************************************)
(* The state of the heap.                                                  *)
(***************************************************************************)

HeapShape ==
  Shape(DOMAIN next, next, DOMAIN size, size, NALLOC * total_malloc_chunks)

(* Where the call in progress is: what TypeOK says of everything but the list and
   the blocks, and that nobody owns a block while freep is off the list.  *)
Locals ==
  /\ freep \in DOMAIN next \union {NULL}
  /\ total_malloc_chunks \in 0 .. MaxChunks
  /\ pc \in {"idle", "search", "insert", "corrupt"}
  /\ nunits \in Requests \union {0}
  /\ p \in Nodes /\ prevp \in Nodes /\ bp \in Addresses \union {NULL}
  /\ pc = "search" =>
       /\ nunits # 0 /\ prevp \in DOMAIN next /\ p = next[prevp] /\ freep # NULL
  /\ pc \in {"search", "insert"} => p \in DOMAIN next
  /\ pc = "insert" => bp \in DOMAIN size \ DOMAIN next
  /\ growing => pc = "insert" /\ nunits # 0
  /\ forgotten \in BOOLEAN
  /\ freep \notin DOMAIN next => DOMAIN size = {base}

(* The inductive invariant *)
HInv == HeapShape /\ Locals

(* A list of base alone is a list. *)
LEMMA EmptyList ==
  ASSUME NEW nx, nx = [a \in {base} |-> base]
  PROVE  /\ DOMAIN nx = {base} /\ nx[base] = base /\ List(DOMAIN nx, nx)
         /\ \A sz : Apart(DOMAIN nx, sz)
BY NodeFacts DEF List, Apart

(* The heap starts in its invariant. *)
LEMMA InitInv == Init => HInv
<1> SUFFICES ASSUME Init PROVE HInv
  OBVIOUS
<1>1. DOMAIN next = {base} /\ List(DOMAIN next, next) /\ Apart(DOMAIN next, size)
  BY EmptyList DEF Init
<1>2. DOMAIN size = {base} /\ size[base] = 0
  BY DEF Init
<1>3. Blocks(DOMAIN size, size, NALLOC * total_malloc_chunks)
  BY <1>2, NodeFacts DEF Blocks, Init
<1>4. HeapShape
  BY <1>1, <1>2, <1>3 DEF HeapShape, Shape
<1>5. Locals
  <2>1. /\ freep = NULL /\ total_malloc_chunks = 0 /\ pc = "idle" /\ nunits = 0
        /\ p = base /\ prevp = base /\ bp = NULL /\ growing = FALSE /\ forgotten = FALSE
    BY DEF Init
  <2>2. 0 \in 0 .. MaxChunks /\ base \in Nodes
    BY HeapAssumption, NodeFacts
  <2> QED
    BY <1>2, <2>1, <2>2 DEF Locals
<1> QED
  BY <1>4, <1>5 DEF HInv

(* What every step relies on. *)
LEMMA StateFacts ==
  ASSUME HInv
  PROVE  /\ base \in DOMAIN next /\ DOMAIN next \subseteq DOMAIN size
         /\ DOMAIN size \subseteq Nodes /\ size[base] = 0
         /\ next \in [DOMAIN next -> DOMAIN next] /\ size \in [DOMAIN size -> Nat]
         /\ total_malloc_chunks \in 0 .. MaxChunks
         /\ \A n \in Requests : n \in Nat \ {0}
         /\ base # NULL
BY NodeFacts, HeapAssumption
   DEF HInv, HeapShape, Shape, List, Blocks, Locals, NULL

(* malloc begins, with the list as it is or with an empty one. *)
LEMMA MallocInv ==
  ASSUME HInv, NEW n \in Requests, Malloc(n)
  PROVE  HInv'
<1>1. /\ pc = "idle" /\ nunits' = n /\ prevp' = freep' /\ p' = next'[freep'] /\ pc' = "search"
      /\ total_malloc_chunks' = total_malloc_chunks /\ bp' = bp /\ growing' = growing
  BY DEF Malloc
<1>2. n \in Nat \ {0} /\ ~growing
  BY <1>1, StateFacts DEF HInv, Locals
<1>3. CASE freep = NULL
  <2>1. /\ next' = [a \in {base} |-> base] /\ freep' = base
        /\ size' = [a \in Owned \union {base} |-> IF a = base THEN 0 ELSE size[a]]
        /\ forgotten' \in BOOLEAN
    BY <1>3 DEF Malloc, HInv, Locals
  <2>2. DOMAIN next' = {base} /\ next'[base] = base /\ List(DOMAIN next', next')
        /\ Apart(DOMAIN next', size')
    BY <2>1, EmptyList
  <2>3. /\ DOMAIN size' = Owned \union {base}
        /\ \A a \in DOMAIN size' : size'[a] = size[a]
    BY <2>1, StateFacts
  <2>4. DOMAIN size' \in SUBSET DOMAIN size /\ base \in DOMAIN size'
    BY <1>1, <2>3, StateFacts DEF Owned
  <2>5. size' \in [DOMAIN size' -> Nat]
    BY <2>1, <2>3, <2>4, StateFacts
  <2>6. Blocks(DOMAIN size', size', NALLOC * total_malloc_chunks')
    <3>1. Blocks(DOMAIN size, size, NALLOC * total_malloc_chunks)
      BY DEF HInv, HeapShape, Shape
    <3>2. NALLOC * total_malloc_chunks \in Nat
      BY StateFacts, BrkBound
    <3> QED
      BY <1>1, <2>3, <2>4, <2>5, <3>1, <3>2, BlocksSubset
  <2>7. HeapShape'
    BY <2>2, <2>4, <2>6 DEF HeapShape, Shape
  <2>8. Locals'
    BY <1>1, <1>2, <2>1, <2>2, StateFacts, NodeFacts DEF HInv, Locals
  <2> QED BY <2>7, <2>8 DEF HInv
<1>4. CASE freep # NULL
  <2>1. UNCHANGED <<next, size, freep, forgotten>>
    BY <1>4 DEF Malloc
  <2>2. HeapShape'
    BY <1>1, <2>1 DEF HInv, HeapShape
  <2>3. freep \in DOMAIN next /\ next[freep] \in DOMAIN next
    BY <1>4, StateFacts DEF HInv, Locals
  <2>4. freep \in Nodes /\ next[freep] \in Nodes
    BY <2>3, StateFacts
  <2>5. Locals'
    BY <1>1, <1>2, <1>4, <2>1, <2>3, <2>4 DEF HInv, Locals
  <2> QED BY <2>2, <2>5 DEF HInv
<1> QED BY <1>3, <1>4

(* The locals at the end of a call *)
LEMMA Returned ==
  ASSUME HInv, Return, freep' \in DOMAIN next',
         total_malloc_chunks' = total_malloc_chunks, forgotten' = forgotten
  PROVE  Locals'
BY StateFacts, NodeFacts DEF HInv, Locals, Return

(* The block that fits is not base, which is smaller than any request. *)
LEMMA FoundFacts ==
  ASSUME HInv, pc = "search", size[p] >= nunits
  PROVE  /\ p \in DOMAIN next /\ p \in DOMAIN size /\ p # base
         /\ prevp \in DOMAIN next /\ p = next[prevp] /\ prevp # p
         /\ nunits \in Nat \ {0} /\ size[p] \in Nat
<1>1. /\ p \in DOMAIN next /\ prevp \in DOMAIN next /\ p = next[prevp]
      /\ nunits \in Requests /\ nunits # 0
  BY DEF HInv, Locals
<1>2. p \in DOMAIN size /\ size[p] \in Nat /\ nunits \in Nat \ {0}
  BY <1>1, StateFacts
<1>3. p # base
  BY <1>2, StateFacts
<1>4. List(DOMAIN next, next)
  BY DEF HInv, HeapShape, Shape
<1>5. prevp # p
  BY <1>1, <1>3, <1>4, ListNoLoop
<1> QED
  BY <1>1, <1>2, <1>3, <1>5

(* A block of the size asked for leaves the list and stays a block. *)
LEMMA TakeWholeInv ==
  ASSUME HInv, TakeWhole
  PROVE  HInv'
<1>1. /\ pc = "search" /\ size[p] = nunits /\ freep' = prevp /\ Return
      /\ next' = [a \in DOMAIN next \ {p} |-> IF a = prevp THEN next[p] ELSE next[a]]
      /\ size' = size /\ total_malloc_chunks' = total_malloc_chunks
      /\ forgotten' = forgotten
  BY DEF TakeWhole
<1>2. /\ p \in DOMAIN next /\ p # base /\ prevp \in DOMAIN next /\ p = next[prevp]
      /\ prevp # p
  <2>1. nunits \in Nat
    BY <1>1, StateFacts DEF HInv, Locals
  <2>2. size[p] >= nunits
    BY <1>1, <2>1
  <2> QED
    BY <1>1, <2>2, FoundFacts
<1>3. DOMAIN next' = DOMAIN next \ {p}
  BY <1>1
<1>4. List(DOMAIN next, next)
  BY DEF HInv, HeapShape, Shape
<1>5. List(DOMAIN next \ {p}, next')
  <2>1. List(DOMAIN next \ {next[prevp]},
             [a \in DOMAIN next \ {next[prevp]} |->
                IF a = prevp THEN next[next[prevp]] ELSE next[a]])
    BY <1>2, <1>4, ListRemove
  <2> QED
    BY <1>1, <1>2, <2>1
<1>6. HeapShape'
  BY <1>1, <1>3, <1>5 DEF HInv, HeapShape, Shape, Apart
<1>7. Locals'
  BY <1>1, <1>2, <1>3, Returned
<1> QED
  BY <1>6, <1>7 DEF HInv

(* The tail cut off is a block between the rest and what follows. *)
LEMMA TakeTailInv ==
  ASSUME HInv, TakeTail
  PROVE  HInv'
<1>1. /\ pc = "search" /\ size[p] > nunits /\ freep' = prevp /\ Return
      /\ next' = next /\ total_malloc_chunks' = total_malloc_chunks
      /\ forgotten' = forgotten
      /\ LET rest == size[p] - nunits IN
           size' = [a \in DOMAIN size \union {p + rest} |->
                      IF a = p THEN rest ELSE IF a = p + rest THEN nunits ELSE size[a]]
  BY DEF TakeTail
<1>2. /\ p \in DOMAIN next /\ p \in DOMAIN size \ {base} /\ prevp \in DOMAIN next
      /\ nunits \in Nat \ {0} /\ nunits < size[p] /\ size[p] \in Nat
  <2>1. nunits \in Nat /\ p \in DOMAIN size
    BY <1>1, StateFacts DEF HInv, Locals
  <2>2. size[p] >= nunits
    BY <1>1, <2>1, StateFacts
  <2> QED
    BY <1>1, <2>2, FoundFacts
<1>3. Blocks(DOMAIN size, size, NALLOC * total_malloc_chunks)
  BY DEF HInv, HeapShape, Shape
<1>4. PICK r : r = p + (size[p] - nunits)
  OBVIOUS
<1>5. /\ r \notin DOMAIN size
      /\ DOMAIN size' = DOMAIN size \union {r}
      /\ Blocks(DOMAIN size', size', NALLOC * total_malloc_chunks')
  BY <1>1, <1>2, <1>3, <1>4, StateFacts, BlocksSplit
<1>6. size'[p] = size[p] - nunits /\ \A a \in DOMAIN next \ {p} : size'[a] = size[a]
  BY <1>1, <1>2, <1>4, <1>5, StateFacts
<1>7. Apart(DOMAIN next', size')
  <2>1. p + size'[p] = r
    BY <1>4, <1>6
  <2>2. r \notin DOMAIN next
    BY <1>5, StateFacts
  <2>3. Apart(DOMAIN next, size)
    BY DEF HInv, HeapShape, Shape
  <2> QED
    BY <1>1, <1>6, <2>1, <2>2, <2>3 DEF Apart
<1>8. DOMAIN next' \subseteq DOMAIN size'
  BY <1>1, <1>5, StateFacts
<1>9. List(DOMAIN next', next')
  BY <1>1 DEF HInv, HeapShape, Shape
<1>10. HeapShape'
  BY <1>5, <1>7, <1>8, <1>9 DEF HeapShape, Shape
<1>11. Locals'
  BY <1>1, <1>2, Returned
<1> QED
  BY <1>10, <1>11 DEF HInv

(* Moving along the list *)
LEMMA AdvanceInv ==
  ASSUME HInv, Advance \/ InsertAdvance
  PROVE  HInv'
<1>1. /\ UNCHANGED <<freep, next, size, total_malloc_chunks, forgotten>>
      /\ UNCHANGED <<pc, nunits, bp, growing>>
      /\ p' = next[p] /\ (prevp' = p \/ prevp' = prevp)
      /\ pc = "search" => prevp' = p
      /\ pc = "search" \/ pc = "insert"
  BY DEF Advance, InsertAdvance, list_vars
<1>2. p \in DOMAIN next /\ next[p] \in DOMAIN next
  BY <1>1, StateFacts DEF HInv, Locals
<1>3. p \in Nodes /\ next[p] \in Nodes
  BY <1>2, StateFacts
<1>4. HeapShape'
  BY <1>1 DEF HInv, HeapShape
<1>5. Locals'
  BY <1>1, <1>2, <1>3 DEF HInv, Locals
<1> QED
  BY <1>4, <1>5 DEF HInv

(* A new chunk is a block above all others, about to be inserted. *)
LEMMA GrowInv ==
  ASSUME HInv, Grow
  PROVE  HInv'
<1>1. /\ pc = "search" /\ total_malloc_chunks < MaxChunks
      /\ bp' = NALLOC * total_malloc_chunks
      /\ size' = [a \in DOMAIN size \union {bp'} |-> IF a = bp' THEN NALLOC ELSE size[a]]
      /\ total_malloc_chunks' = total_malloc_chunks + 1
      /\ p' = freep /\ growing' = TRUE /\ pc' = "insert"
      /\ UNCHANGED <<freep, next, forgotten, nunits, prevp>>
  BY DEF Grow
<1>2. Blocks(DOMAIN size, size, NALLOC * total_malloc_chunks)
  BY DEF HInv, HeapShape, Shape
<1>3. /\ bp' \in Addresses /\ bp' \notin DOMAIN size
      /\ DOMAIN size' = DOMAIN size \union {bp'}
      /\ Blocks(DOMAIN size', size', NALLOC * total_malloc_chunks')
  BY <1>1, <1>2, StateFacts, BlocksAdd
<1>4. \A a \in DOMAIN size : size'[a] = size[a]
  BY <1>1, <1>3
<1>5. HeapShape'
  <2>1. List(DOMAIN next', next') /\ Apart(DOMAIN next, size)
    BY <1>1 DEF HInv, HeapShape, Shape
  <2>2. Apart(DOMAIN next', size')
    BY <1>1, <1>4, <2>1, StateFacts DEF Apart
  <2>3. DOMAIN next' \subseteq DOMAIN size'
    BY <1>1, <1>3, StateFacts
  <2> QED
    BY <1>3, <2>1, <2>2, <2>3 DEF HeapShape, Shape
<1>6. Locals'
  <2>1. total_malloc_chunks' \in 0 .. MaxChunks
    BY <1>1, StateFacts, HeapAssumption
  <2>2. bp' \in DOMAIN size' \ DOMAIN next'
    BY <1>1, <1>3, StateFacts
  <2>3. freep \in DOMAIN next /\ freep \in Nodes /\ nunits # 0
    BY <1>1, StateFacts DEF HInv, Locals
  <2> QED
    BY <1>1, <1>3, <2>1, <2>2, <2>3 DEF HInv, Locals
<1> QED
  BY <1>5, <1>6 DEF HInv

(* The kernel goes on with a null array. *)
LEMMA GrowUncheckedInv ==
  ASSUME HInv, GrowUnchecked
  PROVE  HInv'
<1>1. /\ UNCHANGED <<freep, next, size, total_malloc_chunks, forgotten>>
      /\ UNCHANGED <<nunits, p, prevp, bp, growing>> /\ pc' = "corrupt" /\ pc = "search"
  BY DEF GrowUnchecked, list_vars
<1>2. HeapShape'
  BY <1>1 DEF HInv, HeapShape
<1>3. Locals'
  BY <1>1 DEF HInv, Locals
<1> QED
  BY <1>2, <1>3 DEF HInv

(* free begins, with a block its caller owns. *)
LEMMA FreeInv ==
  ASSUME HInv, NEW a \in Owned, Free(a)
  PROVE  HInv'
<1>1. /\ UNCHANGED <<freep, next, size, total_malloc_chunks, forgotten>>
      /\ UNCHANGED <<nunits, prevp>> /\ pc = "idle"
      /\ bp' = a /\ p' = freep /\ growing' = FALSE /\ pc' = "insert"
  BY DEF Free, list_vars
<1>2. a \in DOMAIN size \ DOMAIN next
  BY DEF Owned
<1>3. a # base /\ a \in Addresses
  <2>1. a # base /\ a \in Nodes
    BY <1>2, StateFacts
  <2> QED
    BY <2>1, NodeFacts
<1>4. freep \in DOMAIN next /\ freep \in Nodes
  BY <1>2, <1>3, StateFacts DEF HInv, Locals
<1>5. HeapShape'
  BY <1>1 DEF HInv, HeapShape
<1>6. Locals'
  BY <1>1, <1>2, <1>3, <1>4 DEF HInv, Locals
<1> QED
  BY <1>5, <1>6 DEF HInv

(* The end test of the scan of free finds the place of the block. *)
LEMMA InsertHereFits ==
  ASSUME HInv, pc = "insert", InsertHere
  PROVE  Fits(DOMAIN next, next, DOMAIN size, p, bp)
<1>1. /\ p \in DOMAIN next /\ bp \in DOMAIN size /\ bp \notin DOMAIN next
      /\ next[p] \in DOMAIN next
  BY StateFacts DEF HInv, Locals
<1>2. p \in Nat /\ bp \in Nat /\ next[p] \in Nat /\ bp # base /\ bp < base
      /\ base \in Nat
  BY <1>1, StateFacts, NodeFacts
<1>3. p # base => next[p] > p
  BY <1>1 DEF HInv, HeapShape, Shape, List
<1>4. (p = base \/ p < bp) /\ bp < next[p]
  BY <1>2, <1>3 DEF InsertHere
<1> QED
  BY <1>1, <1>4 DEF Fits

(* The list and the blocks before the block is merged to the left or put on the
   list: bp is merged with the block after it, if they touch.  *)
LEMMA RightHalf ==
  ASSUME HInv, pc = "insert", InsertHere,
         NEW mx, mx = [a \in DOMAIN next \ Swallowed |->
                         IF a = p THEN MergedNext ELSE next[a]],
         NEW tz, tz = [a \in DOMAIN size \ Swallowed |->
                         IF a = bp THEN MergedSize ELSE size[a]]
  PROVE  /\ Shape(DOMAIN next \ Swallowed, mx, DOMAIN size \ Swallowed, tz,
                  NALLOC * total_malloc_chunks)
         /\ Fits(DOMAIN next \ Swallowed, mx, DOMAIN size \ Swallowed, p, bp)
         /\ bp + tz[bp] \notin DOMAIN next \ Swallowed
         /\ mx[p] = MergedNext /\ tz[bp] = MergedSize /\ tz[p] = size[p]
<1>1. Fits(DOMAIN next, next, DOMAIN size, p, bp)
  BY InsertHereFits
<1>2. Shape(DOMAIN next, next, DOMAIN size, size, NALLOC * total_malloc_chunks)
  BY DEF HInv, HeapShape
<1>3. total_malloc_chunks \in 0 .. MaxChunks
  BY StateFacts
<1>4. p # bp /\ p \in DOMAIN next /\ p \in DOMAIN size /\ bp \in DOMAIN size
      /\ bp \notin DOMAIN next /\ next[p] \in DOMAIN next
  BY <1>1, <1>2, <1>3, FitsFacts DEF Fits
<1>5. CASE MergesRight
  <2>1. bp + size[bp] = next[p]
    BY <1>5 DEF MergesRight
  <2>2. /\ Swallowed = {next[p]} /\ MergedNext = next[next[p]]
        /\ MergedSize = size[bp] + size[next[p]]
    BY <1>5 DEF Swallowed, MergedNext, MergedSize
  <2>3. /\ mx = [a \in DOMAIN next \ {next[p]} |-> IF a = p THEN next[next[p]] ELSE next[a]]
        /\ tz = [a \in DOMAIN size \ {next[p]} |->
                   IF a = bp THEN size[bp] + size[next[p]] ELSE size[a]]
    BY <2>2
  <2>4. /\ next[p] # p
        /\ Shape(DOMAIN next \ {next[p]}, mx, DOMAIN size \ {next[p]}, tz,
                 NALLOC * total_malloc_chunks)
        /\ Fits(DOMAIN next \ {next[p]}, mx, DOMAIN size \ {next[p]}, p, bp)
        /\ bp + tz[bp] \notin DOMAIN next \ {next[p]}
    <3>1. PICK D, E : D = DOMAIN next /\ E = DOMAIN size
      OBVIOUS
    <3>2. Shape(D, next, E, size, NALLOC * total_malloc_chunks) /\ Fits(D, next, E, p, bp)
      BY <1>1, <1>2, <3>1
    <3>3. LET q  == next[p]
              nm == [a \in D \ {q} |-> IF a = p THEN next[q] ELSE next[a]]
              sm == [a \in E \ {q} |-> IF a = bp THEN size[bp] + size[q] ELSE size[a]]
          IN /\ q # p /\ q # base
             /\ Shape(D \ {q}, nm, E \ {q}, sm, NALLOC * total_malloc_chunks)
             /\ Fits(D \ {q}, nm, E \ {q}, p, bp)
             /\ bp + sm[bp] \notin D \ {q}
      BY <1>3, <2>1, <3>2, RightMerged
    <3> QED
      BY <2>3, <3>1, <3>3
  <2>5. mx[p] = next[next[p]] /\ tz[bp] = size[bp] + size[next[p]] /\ tz[p] = size[p]
    BY <1>4, <2>3, <2>4
  <2> QED
    BY <2>2, <2>4, <2>5
<1>6. CASE ~MergesRight
  <2>1. Swallowed = {} /\ MergedNext = next[p] /\ MergedSize = size[bp]
    BY <1>6 DEF Swallowed, MergedNext, MergedSize
  <2>2. mx = next /\ tz = size
    <3>1. DOMAIN next \ Swallowed = DOMAIN next /\ DOMAIN size \ Swallowed = DOMAIN size
      BY <2>1
    <3>2. mx = [a \in DOMAIN next |-> next[a]] /\ tz = [a \in DOMAIN size |-> size[a]]
      BY <2>1, <3>1
    <3> QED
      BY <3>2, StateFacts
  <2>3. bp + size[bp] \notin DOMAIN next
    <3>1. bp + size[bp] # next[p]
      BY <1>6 DEF MergesRight
    <3> QED
      BY <1>1, <1>2, <1>3, <3>1, RightApart
  <2> QED
    BY <1>1, <1>2, <2>1, <2>2, <2>3
<1> QED
  BY <1>5, <1>6

(* free links its block in and merges it. *)
LEMMA InsertLinkInv ==
  ASSUME HInv, InsertLink
  PROVE  HInv'
<1> DEFINE D == DOMAIN next \ Swallowed
           E == DOMAIN size \ Swallowed
<1>1. /\ pc = "insert" /\ InsertHere /\ freep' = p
      /\ UNCHANGED <<total_malloc_chunks, forgotten>>
  BY DEF InsertLink
<1>2. PICK mx : mx = [a \in D |-> IF a = p THEN MergedNext ELSE next[a]]
  OBVIOUS
<1>3. PICK tz : tz = [a \in E |-> IF a = bp THEN MergedSize ELSE size[a]]
  OBVIOUS
<1>4. /\ Shape(D, mx, E, tz, NALLOC * total_malloc_chunks)
      /\ Fits(D, mx, E, p, bp) /\ bp + tz[bp] \notin D
      /\ mx[p] = MergedNext /\ tz[bp] = MergedSize /\ tz[p] = size[p]
  BY <1>1, <1>2, <1>3, RightHalf
<1>5. total_malloc_chunks \in 0 .. MaxChunks
  BY StateFacts
<1>6. p # bp /\ p \in D /\ bp \notin D /\ bp \in E
  BY <1>4, <1>5, FitsFacts DEF Fits
<1>7. /\ Shape(DOMAIN next', next', DOMAIN size', size', NALLOC * total_malloc_chunks)
      /\ p \in DOMAIN next'
  <2>1. CASE MergesLeft
    <3>1. /\ next' = [a \in D |-> IF a = p THEN MergedNext ELSE next[a]]
          /\ size' = [a \in E \ {bp} |-> IF a = p THEN size[p] + MergedSize ELSE size[a]]
      BY <2>1 DEF InsertLink
    <3>2. p + tz[p] = bp
      BY <1>4, <2>1 DEF MergesLeft
    <3>3. next' = mx /\ DOMAIN next' = D
      BY <1>2, <3>1
    <3>4. DOMAIN size' = E \ {bp}
      BY <3>1
    <3>5. size' = [a \in E \ {bp} |-> IF a = p THEN tz[p] + tz[bp] ELSE tz[a]]
      <4>1. \A a \in E \ {bp} : tz[a] = size[a]
        BY <1>3
      <4> QED
        BY <1>4, <3>1, <4>1
    <3>6. Shape(D, mx, E \ {bp},
                [a \in E \ {bp} |-> IF a = p THEN tz[p] + tz[bp] ELSE tz[a]],
                NALLOC * total_malloc_chunks)
      BY <1>4, <1>5, <3>2, LeftMerged
    <3> QED
      BY <1>6, <3>3, <3>4, <3>5, <3>6
  <2>2. CASE ~MergesLeft
    <3>1. /\ next' = [a \in D \union {bp} |->
                        IF a = p THEN bp ELSE IF a = bp THEN MergedNext ELSE next[a]]
          /\ size' = tz
      BY <1>3, <2>2 DEF InsertLink
    <3>2. p + tz[p] # bp
      BY <1>4, <2>2 DEF MergesLeft
    <3>3. next' = Linked(D, mx, p, bp) /\ DOMAIN next' = D \union {bp}
      <4>1. \A a \in D \ {p} : mx[a] = next[a]
        BY <1>2
      <4>2. mx[p] = MergedNext
        BY <1>4
      <4> QED
        BY <3>1, <4>1, <4>2 DEF Linked
    <3>4. DOMAIN size' = E
      BY <1>3, <3>1
    <3>5. Shape(D \union {bp}, Linked(D, mx, p, bp), E, tz, NALLOC * total_malloc_chunks)
      BY <1>4, <1>5, <3>2, Inserted
    <3> QED
      BY <1>6, <3>1, <3>3, <3>4, <3>5
  <2> QED BY <2>1, <2>2
<1>8. HeapShape'
  BY <1>1, <1>7 DEF HeapShape
<1>9. Locals'
  <2>1. CASE growing /\ freep' # NULL
    <3>1. /\ pc' = "search" /\ prevp' = p /\ p' = next'[p] /\ bp' = NULL
          /\ growing' = FALSE /\ nunits' = nunits
      BY <2>1 DEF InsertLink
    <3>2. next'[p] \in DOMAIN next' /\ DOMAIN next' \subseteq Nodes
      BY <1>7 DEF Shape, List
    <3> QED
      BY <1>1, <1>7, <2>1, <3>1, <3>2 DEF HInv, Locals
  <2>2. CASE ~(growing /\ freep' # NULL)
    <3>1. Return
      BY <2>2 DEF InsertLink
    <3> QED
      BY <1>1, <1>7, <3>1, Returned
  <2> QED BY <2>1, <2>2
<1> QED
  BY <1>8, <1>9 DEF HInv

(* The invariant is inductive. *)
LEMMA StepInv ==
  ASSUME HInv, [Next]_vars
  PROVE  HInv'
<1>1. ASSUME NEW n \in Requests, Malloc(n) PROVE HInv'
  BY <1>1, MallocInv
<1>2. ASSUME NEW a \in Owned, Free(a) PROVE HInv'
  BY <1>2, FreeInv
<1>3. CASE TakeWhole
  BY <1>3, TakeWholeInv
<1>4. CASE TakeTail
  BY <1>4, TakeTailInv
<1>5. CASE Advance \/ InsertAdvance
  BY <1>5, AdvanceInv
<1>6. CASE Grow
  BY <1>6, GrowInv
<1>7. CASE GrowUnchecked
  BY <1>7, GrowUncheckedInv
<1>8. CASE InsertLink
  BY <1>8, InsertLinkInv
<1>9. CASE UNCHANGED vars
  <2>1. /\ UNCHANGED <<freep, next, size, total_malloc_chunks, forgotten>>
        /\ UNCHANGED <<pc, nunits, p, prevp, bp, growing>>
    BY <1>9 DEF vars, list_vars
  <2>2. HeapShape'
    BY <2>1 DEF HInv, HeapShape
  <2>3. Locals'
    BY <2>1 DEF HInv, Locals
  <2> QED BY <2>2, <2>3 DEF HInv
<1> QED
  BY <1>1, <1>2, <1>3, <1>4, <1>5, <1>6, <1>7, <1>8, <1>9 DEF Next, Step

(* The invariant holds in every reachable state. *)
THEOREM HeapInvariant == Spec => []HInv
<1>1. Init => HInv
  BY InitInv
<1>2. HInv /\ [Next]_vars => HInv'
  BY StepInv
<1> QED
  BY <1>1, <1>2, PTL DEF Spec

(***************************************************************************)
(* What the invariant gives.                                               *)
(***************************************************************************)

(* Every pointer of the list leads to a header that is kept, whichever blocks were
   cut, taken, merged and freed before.  *)
THEOREM HeapTypeCorrect == Spec => []TypeOK
<1>1. HInv => TypeOK
  BY DEF HInv, HeapShape, Shape, List, Blocks, Locals, TypeOK
<1> QED
  BY <1>1, HeapInvariant, PTL

(* The free list of malloc.c is cyclic and in address order, base last. *)
THEOREM FreeListSorted == Spec => []Sorted
<1>1. HInv => Sorted
  BY DEF HInv, HeapShape, Shape, List, Sorted
<1> QED
  BY <1>1, HeapInvariant, PTL

(* No two blocks of the heap overlap, free or handed out by malloc, and all lie in
   the part of the heap that has been mapped.  *)
THEOREM BlocksDisjoint == Spec => []Disjoint
<1>1. HInv => Disjoint
  BY DEF HInv, HeapShape, Shape, Blocks, Disjoint
<1> QED
  BY <1>1, HeapInvariant, PTL

(* free leaves no two free blocks that touch. *)
THEOREM FreeNeighboursMerged == Spec => []Coalesced
<1>1. HInv => Coalesced
  BY DEF HInv, HeapShape, Shape, Apart, Coalesced
<1> QED
  BY <1>1, HeapInvariant, PTL

(***************************************************************************)
(* No unit of the heap is lost while the list is not thrown away.          *)
(***************************************************************************)

(* Every unit below brk belongs to a block. *)
Covered(E, sz, brk) == \A u \in 0 .. brk - 1 : \E a \in E : a <= u /\ u < a + sz[a]

(* Units of a block that is cut in two belong to one half or the other. *)
LEMMA CoveredSplit ==
  ASSUME NEW E, E \subseteq Nodes, NEW sz \in [E -> Nat], NEW brk, Covered(E, sz, brk),
         NEW k \in E, NEW n \in Nat, n < sz[k],
         NEW r, r = k + (sz[k] - n), r \notin E,
         NEW tz, tz[k] = sz[k] - n, tz[r] = n, \A a \in E \ {k} : tz[a] = sz[a]
  PROVE  Covered(E \union {r}, tz, brk)
<1> SUFFICES ASSUME NEW u \in 0 .. brk - 1
             PROVE  \E a \in E \union {r} : a <= u /\ u < a + tz[a]
  BY DEF Covered
<1>1. PICK a \in E : a <= u /\ u < a + sz[a]
  BY DEF Covered
<1>2. k \in Nat /\ sz[k] \in Nat /\ u \in Int /\ r \in Nat
  BY NodeFacts
<1>3. CASE a # k
  BY <1>1, <1>3
<1>4. CASE a = k /\ u < r
  <2>1. k <= u /\ u < k + tz[k]
    BY <1>1, <1>2, <1>4
  <2> QED BY <2>1
<1>5. CASE a = k /\ ~(u < r)
  <2>1. r <= u /\ u < r + tz[r]
    BY <1>1, <1>2, <1>5
  <2> QED BY <2>1
<1> QED BY <1>3, <1>4, <1>5

(* Units of a block that is merged into its neighbour belong to the neighbour. *)
LEMMA CoveredMerge ==
  ASSUME NEW E, E \subseteq Nodes, NEW sz \in [E -> Nat], NEW brk, Covered(E, sz, brk),
         NEW k \in E, NEW b \in E, k # b, k + sz[k] = b,
         NEW tz, tz[k] = sz[k] + sz[b], \A a \in (E \ {b}) \ {k} : tz[a] = sz[a]
  PROVE  Covered(E \ {b}, tz, brk)
<1> SUFFICES ASSUME NEW u \in 0 .. brk - 1
             PROVE  \E a \in E \ {b} : a <= u /\ u < a + tz[a]
  BY DEF Covered
<1>1. PICK a \in E : a <= u /\ u < a + sz[a]
  BY DEF Covered
<1>2. k \in Nat /\ b \in Nat /\ sz[k] \in Nat /\ sz[b] \in Nat /\ u \in Int
  BY NodeFacts
<1>3. CASE a # k /\ a # b
  BY <1>1, <1>3
<1>4. CASE a = k \/ a = b
  <2>1. k <= u /\ u < k + tz[k]
    BY <1>1, <1>2, <1>4
  <2> QED BY <2>1
<1> QED BY <1>3, <1>4

(* A new chunk is a block of its own. *)
LEMMA CoveredAdd ==
  ASSUME NEW c \in 0 .. MaxChunks, c < MaxChunks, NEW E, NEW sz,
         Covered(E, sz, NALLOC * c), NEW r, r = NALLOC * c, r \notin E,
         NEW tz, tz[r] = NALLOC, \A a \in E : tz[a] = sz[a]
  PROVE  Covered(E \union {r}, tz, NALLOC * (c + 1))
<1>1. PICK m : m = NALLOC * (c + 1)
  OBVIOUS
<1>2. r \in Nat /\ NALLOC \in Nat /\ m = r + NALLOC
  BY <1>1, BrkBound, HeapAssumption
<1> SUFFICES ASSUME NEW u \in 0 .. m - 1
             PROVE  \E a \in E \union {r} : a <= u /\ u < a + tz[a]
  BY <1>1 DEF Covered
<1>3. CASE u < r
  <2>1. u \in 0 .. r - 1
    BY <1>2, <1>3
  <2>2. PICK a \in E : a <= u /\ u < a + sz[a]
    BY <2>1 DEF Covered
  <2> QED BY <2>2
<1>4. CASE ~(u < r)
  <2>1. r <= u /\ u < r + tz[r]
    BY <1>2, <1>4
  <2> QED BY <2>1
<1> QED BY <1>3, <1>4

HeapCovered == Covered(DOMAIN size, size, NALLOC * total_malloc_chunks)

(* free: the units of the blocks merged stay in the block they become part of. *)
LEMMA InsertLinkCovers ==
  ASSUME HInv, HeapCovered, InsertLink
  PROVE  HeapCovered'
<1> DEFINE D == DOMAIN next \ Swallowed
           E == DOMAIN size \ Swallowed
<1>1. /\ pc = "insert" /\ InsertHere /\ total_malloc_chunks' = total_malloc_chunks
      /\ total_malloc_chunks \in 0 .. MaxChunks
  BY StateFacts DEF InsertLink
<1>2. PICK mx : mx = [a \in D |-> IF a = p THEN MergedNext ELSE next[a]]
  OBVIOUS
<1>3. PICK tz : tz = [a \in E |-> IF a = bp THEN MergedSize ELSE size[a]]
  OBVIOUS
<1>4. /\ Shape(D, mx, E, tz, NALLOC * total_malloc_chunks)
      /\ Fits(D, mx, E, p, bp) /\ tz[bp] = MergedSize /\ tz[p] = size[p]
  BY <1>1, <1>2, <1>3, RightHalf
<1>5. p # bp /\ p \in E /\ bp \in E /\ E \subseteq Nodes /\ tz \in [E -> Nat]
  <2>1. p # bp /\ p \in E /\ bp \in E
    BY <1>1, <1>4, FitsFacts
  <2> QED
    BY <1>4, <2>1 DEF Shape, Blocks
<1>6. bp \in DOMAIN size /\ next[p] \in DOMAIN size /\ bp # next[p]
  BY <1>1, StateFacts DEF HInv, Locals
<1>7. Covered(E, tz, NALLOC * total_malloc_chunks)
  <2>1. CASE MergesRight
    <3>1. /\ Swallowed = {next[p]} /\ MergedSize = size[bp] + size[next[p]]
          /\ bp + size[bp] = next[p]
      BY <2>1 DEF Swallowed, MergedSize, MergesRight
    <3>2. /\ tz[bp] = size[bp] + size[next[p]]
          /\ \A a \in (DOMAIN size \ {next[p]}) \ {bp} : tz[a] = size[a]
      BY <1>3, <1>4, <3>1
    <3>3. DOMAIN size \subseteq Nodes /\ size \in [DOMAIN size -> Nat]
      BY StateFacts
    <3> QED
      BY <1>6, <3>1, <3>2, <3>3, CoveredMerge DEF HeapCovered
  <2>2. CASE ~MergesRight
    <3>1. E = DOMAIN size /\ MergedSize = size[bp]
      BY <2>2 DEF Swallowed, MergedSize
    <3>2. \A a \in E : tz[a] = size[a]
      BY <1>3, <3>1
    <3> QED
      BY <3>1, <3>2 DEF HeapCovered, Covered
  <2> QED BY <2>1, <2>2
<1>8. CASE MergesLeft
  <2>1. /\ size' = [a \in E \ {bp} |-> IF a = p THEN size[p] + MergedSize ELSE size[a]]
        /\ DOMAIN size' = E \ {bp}
    BY <1>8 DEF InsertLink
  <2>2. p + tz[p] = bp
    BY <1>4, <1>8 DEF MergesLeft
  <2>3. size'[p] = tz[p] + tz[bp] /\ \A a \in (E \ {bp}) \ {p} : size'[a] = tz[a]
    BY <1>3, <1>4, <1>5, <2>1
  <2>4. Covered(E \ {bp}, size', NALLOC * total_malloc_chunks)
    BY <1>5, <1>7, <2>2, <2>3, CoveredMerge
  <2> QED
    BY <1>1, <2>1, <2>4 DEF HeapCovered
<1>9. CASE ~MergesLeft
  <2>1. size' = tz /\ DOMAIN size' = E
    BY <1>3, <1>9 DEF InsertLink
  <2> QED
    BY <1>1, <1>7, <2>1 DEF HeapCovered
<1> QED BY <1>8, <1>9

(* Every other step keeps the units covered, or throws the list away. *)
LEMMA StepCovers ==
  ASSUME HInv, [Next]_vars, ~forgotten => HeapCovered
  PROVE  ~forgotten' => HeapCovered'
<1> SUFFICES ASSUME ~forgotten' PROVE HeapCovered'
  OBVIOUS
<1>1. /\ base \in DOMAIN next /\ DOMAIN next \subseteq DOMAIN size
      /\ DOMAIN size \subseteq Nodes /\ size \in [DOMAIN size -> Nat]
      /\ total_malloc_chunks \in 0 .. MaxChunks
  BY StateFacts
<1>2. ASSUME NEW n \in Requests, Malloc(n) PROVE HeapCovered'
  <2>1. CASE freep = NULL
    <3>1. /\ ~forgotten /\ NULL \notin DOMAIN next
          /\ total_malloc_chunks' = total_malloc_chunks /\ pc = "idle"
          /\ size' = [a \in Owned \union {base} |-> IF a = base THEN 0 ELSE size[a]]
      BY <1>2, <2>1 DEF Malloc
    <3>2. DOMAIN size = {base}
      BY <2>1, <3>1 DEF HInv, Locals
    <3>3. Owned = {} /\ size[base] = 0
      BY <1>1, <3>1, <3>2, StateFacts DEF Owned
    <3>4. DOMAIN size' = DOMAIN size /\ \A a \in DOMAIN size : size'[a] = size[a]
      BY <3>1, <3>2, <3>3
    <3>5. HeapCovered
      BY <3>1
    <3> QED
      BY <3>1, <3>4, <3>5 DEF HeapCovered, Covered
  <2>2. CASE freep # NULL
    BY <1>2, <2>2 DEF Malloc, HeapCovered
  <2> QED BY <2>1, <2>2
<1>3. CASE TakeTail
  <2>1. PICK r : r = p + (size[p] - nunits)
    OBVIOUS
  <2>2. /\ forgotten' = forgotten /\ total_malloc_chunks' = total_malloc_chunks
        /\ pc = "search" /\ size[p] > nunits
        /\ size' = [a \in DOMAIN size \union {r} |->
                      IF a = p THEN size[p] - nunits ELSE IF a = r THEN nunits ELSE size[a]]
    BY <1>3, <2>1 DEF TakeTail
  <2>3. /\ p \in DOMAIN size \ {base} /\ nunits \in Nat \ {0} /\ nunits < size[p]
        /\ size[p] \in Nat
    <3>1. p \in DOMAIN size /\ nunits \in Nat /\ size[p] \in Nat
      BY <1>1, <2>2, StateFacts DEF HInv, Locals
    <3> QED
      BY <2>2, <3>1, FoundFacts
  <2>4. r \notin DOMAIN size
    <3>1. Blocks(DOMAIN size, size, NALLOC * total_malloc_chunks)
      BY DEF HInv, HeapShape, Shape
    <3> QED
      BY <1>1, <2>1, <2>3, <3>1, BlocksSplit
  <2>5. /\ DOMAIN size' = DOMAIN size \union {r}
        /\ size'[p] = size[p] - nunits /\ size'[r] = nunits
        /\ \A a \in DOMAIN size \ {p} : size'[a] = size[a]
    BY <2>2, <2>3, <2>4
  <2>6. Covered(DOMAIN size, size, NALLOC * total_malloc_chunks)
    BY <2>2 DEF HeapCovered
  <2>7. Covered(DOMAIN size \union {r}, size', NALLOC * total_malloc_chunks)
    BY <1>1, <2>1, <2>3, <2>4, <2>5, <2>6, CoveredSplit
  <2> QED
    BY <2>2, <2>5, <2>7 DEF HeapCovered
<1>4. CASE Grow
  <2>1. /\ forgotten' = forgotten /\ total_malloc_chunks < MaxChunks
        /\ total_malloc_chunks' = total_malloc_chunks + 1
        /\ bp' = NALLOC * total_malloc_chunks
        /\ size' = [a \in DOMAIN size \union {bp'} |-> IF a = bp' THEN NALLOC ELSE size[a]]
    BY <1>4 DEF Grow
  <2>2. bp' \notin DOMAIN size
    <3>1. Blocks(DOMAIN size, size, NALLOC * total_malloc_chunks)
      BY DEF HInv, HeapShape, Shape
    <3> QED
      BY <1>1, <2>1, <3>1, BlocksAdd
  <2>3. /\ DOMAIN size' = DOMAIN size \union {bp'} /\ size'[bp'] = NALLOC
        /\ \A a \in DOMAIN size : size'[a] = size[a]
    BY <2>1, <2>2
  <2>4. Covered(DOMAIN size, size, NALLOC * total_malloc_chunks)
    BY <2>1 DEF HeapCovered
  <2>5. Covered(DOMAIN size \union {bp'}, size', NALLOC * (total_malloc_chunks + 1))
    BY <1>1, <2>1, <2>2, <2>3, <2>4, CoveredAdd
  <2> QED
    BY <2>1, <2>3, <2>5 DEF HeapCovered
<1>5. CASE InsertLink
  <2>1. HeapCovered
    BY <1>5 DEF InsertLink
  <2> QED
    BY <1>5, <2>1, InsertLinkCovers
<1>6. ASSUME size' = size, total_malloc_chunks' = total_malloc_chunks, forgotten' = forgotten
      PROVE  HeapCovered'
  BY <1>6 DEF HeapCovered
<1>7. CASE TakeWhole
  BY <1>6, <1>7 DEF TakeWhole
<1>8. CASE Advance \/ GrowUnchecked \/ InsertAdvance \/ UNCHANGED vars
  BY <1>6, <1>8 DEF Advance, GrowUnchecked, InsertAdvance, vars, list_vars
<1>9. ASSUME NEW a \in Owned, Free(a) PROVE HeapCovered'
  BY <1>6, <1>9 DEF Free, list_vars
<1> QED
  BY <1>2, <1>3, <1>4, <1>5, <1>7, <1>8, <1>9 DEF Next, Step

(* Until malloc takes the block at address 0 for a missing list, every unit of the
   heap is on the list, owned, or being inserted: no call leaks memory.  *)
THEOREM NoUnitLost == Spec => []NothingLost
<1>1. Init => HeapCovered
  <2> SUFFICES ASSUME Init PROVE HeapCovered
    OBVIOUS
  <2>1. NALLOC * total_malloc_chunks = 0
    BY HeapAssumption DEF Init
  <2> QED
    BY <2>1 DEF HeapCovered, Covered
<1>2. HInv /\ [Next]_vars /\ (~forgotten => HeapCovered) => (~forgotten' => HeapCovered')
  BY StepCovers
<1>3. (~forgotten => HeapCovered) => NothingLost
  BY DEF HeapCovered, Covered, NothingLost
<1> QED
  BY <1>1, <1>2, <1>3, HeapInvariant, PTL DEF Spec

(***************************************************************************)
(* The heap grows only when no free block is large enough.                 *)
(***************************************************************************)

(* A search that began after f and has come to q has passed a: the blocks above f,
   and past base the lowest ones.  *)
Passed(f, a, q) ==
  IF f < q THEN f < a /\ a <= q
           ELSE q < f /\ (f < a \/ a <= q)

(* What a search knows: no block it has passed is large enough. *)
SearchInv ==
  pc = "search" => \A a \in DOMAIN next : Passed(freep, a, prevp) => size[a] < nunits

(* No node is above base. *)
LEMMA NodesBelow == base \in Nat /\ \A a \in Nodes : a \in Nat /\ a <= base
<1> SUFFICES ASSUME NEW a \in Nodes PROVE base \in Nat /\ a \in Nat /\ a <= base
  BY NodeFacts
<1>1. base \in Nat /\ a \in Nat /\ (a # base => a < base)
  BY NodeFacts
<1> QED
  BY <1>1

(* A search that begins has passed nothing. *)
LEMMA NothingPassed ==
  ASSUME NEW f \in Nat, NEW a \in Nat
  PROVE  ~Passed(f, a, f)
BY DEF Passed

(* One step along the list passes one more block. *)
LEMMA PassedNext ==
  ASSUME NEW D, NEW nx, List(D, nx), NEW f \in D, NEW q \in D, NEW a \in D,
         nx[q] # f, Passed(f, a, nx[q])
  PROVE  a = nx[q] \/ Passed(f, a, q)
<1>1. /\ nx[q] \in D /\ f \in Nat /\ q \in Nat /\ a \in Nat /\ nx[q] \in Nat
      /\ a <= base /\ f <= base /\ base \in Nat
  BY NodesBelow DEF List
<1>2. CASE q = base
  <2>1. nx[q] <= a /\ nx[q] <= f
    BY <1>2 DEF List
  <2> QED
    BY <1>1, <1>2, <2>1 DEF Passed
<1>3. CASE q # base
  <2>1. nx[q] > q /\ ~(q < a /\ a < nx[q]) /\ ~(q < f /\ f < nx[q])
    BY <1>3 DEF List
  <2> QED
    BY <1>1, <2>1 DEF Passed
<1> QED
  BY <1>2, <1>3

(* A search that has come round has passed every block but the one it began after. *)
LEMMA PassedAll ==
  ASSUME NEW D, NEW nx, List(D, nx), NEW q \in D, NEW a \in D, a # nx[q]
  PROVE  Passed(nx[q], a, q)
<1>1. /\ nx[q] \in D /\ q \in Nat /\ a \in Nat /\ nx[q] \in Nat
      /\ a <= base /\ base \in Nat
  BY NodesBelow DEF List
<1>2. CASE q = base
  <2>1. nx[q] <= a
    BY <1>2 DEF List
  <2> QED
    BY <1>1, <1>2, <2>1 DEF Passed
<1>3. CASE q # base
  <2>1. nx[q] > q /\ ~(q < a /\ a < nx[q])
    BY <1>3 DEF List
  <2> QED
    BY <1>1, <2>1 DEF Passed
<1> QED
  BY <1>2, <1>3

(* What a search knows is kept: it begins with nothing passed, goes on only past blocks
   that are too small, and ends with every other step.  *)
LEMMA StepSearch ==
  ASSUME HInv, HInv', SearchInv, [Next]_vars
  PROVE  SearchInv'
<1>1. /\ List(DOMAIN next, next) /\ List(DOMAIN next', next')
      /\ \A a \in DOMAIN next' : a \in Nat
  BY NodeFacts DEF HInv, HeapShape, Shape, List
<1>2. CASE pc' # "search"
  BY <1>2 DEF SearchInv
<1>3. ASSUME prevp' = freep', freep' \in DOMAIN next'
      PROVE  SearchInv'
  BY <1>1, <1>3, NothingPassed DEF SearchInv
<1>4. ASSUME NEW n \in Requests, Malloc(n) PROVE SearchInv'
  <2>1. prevp' = freep' /\ prevp' \in DOMAIN next'
    BY <1>4 DEF Malloc, HInv, Locals
  <2> QED
    BY <1>3, <2>1
<1>5. CASE Advance
  <2>1. /\ pc = "search" /\ size[p] < nunits /\ p # freep /\ prevp' = p
        /\ UNCHANGED <<freep, next, size, nunits>>
    BY <1>5 DEF Advance, list_vars
  <2>2. prevp \in DOMAIN next /\ p = next[prevp] /\ freep \in DOMAIN next
    BY <2>1 DEF HInv, Locals
  <2>3. \A a \in DOMAIN next : Passed(freep, a, p) => a = p \/ Passed(freep, a, prevp)
    BY <1>1, <2>1, <2>2, PassedNext
  <2> QED
    BY <2>1, <2>3 DEF SearchInv
<1>6. CASE InsertLink
  <2>1. CASE growing /\ freep' # NULL
    <3>1. prevp' = freep' /\ pc' = "search"
      BY <1>6, <2>1 DEF InsertLink
    <3>2. prevp' \in DOMAIN next'
      BY <3>1 DEF HInv, Locals
    <3> QED
      BY <1>3, <3>1, <3>2
  <2>2. CASE ~(growing /\ freep' # NULL)
    BY <1>2, <1>6, <2>2 DEF InsertLink, Return
  <2> QED
    BY <2>1, <2>2
<1>7. CASE TakeWhole \/ TakeTail \/ Grow \/ GrowUnchecked \/ InsertAdvance
  BY <1>2, <1>7 DEF TakeWhole, TakeTail, Return, Grow, GrowUnchecked, InsertAdvance
<1>8. ASSUME NEW a \in Owned, Free(a) PROVE SearchInv'
  BY <1>2, <1>8 DEF Free
<1>9. CASE UNCHANGED vars
  BY <1>9 DEF vars, list_vars, SearchInv
<1> QED
  BY <1>4, <1>5, <1>6, <1>7, <1>8, <1>9 DEF Next, Step

(* Every block of the list is too small when the search has come round. *)
LEMMA RoundShort ==
  ASSUME HInv, SearchInv, Grow
  PROVE  \A a \in DOMAIN next : size[a] < nunits
<1>1. pc = "search" /\ size[p] < nunits /\ p = freep
  BY DEF Grow
<1>2. prevp \in DOMAIN next /\ freep = next[prevp] /\ List(DOMAIN next, next)
  BY <1>1 DEF HInv, Locals, HeapShape, Shape
<1>3. \A a \in DOMAIN next : a = freep \/ Passed(freep, a, prevp)
  BY <1>2, PassedAll
<1> QED
  BY <1>1, <1>3 DEF SearchInv

(* malloc asks for another chunk only when no block of the free list is large enough,
   wherever freep was when the search began and however often the list was cut and
   merged before.  *)
THEOREM HeapGrowsOnlyWhenShort == Spec => GrowsOnlyWhenShort
<1>1. Init => SearchInv
  BY DEF Init, SearchInv
<1>2. HInv /\ HInv' /\ SearchInv /\ [Next]_vars => SearchInv'
  BY StepSearch
<1>3. HInv /\ SearchInv /\ [Next]_vars =>
        [total_malloc_chunks' # total_malloc_chunks =>
           \A a \in DOMAIN next : size[a] < nunits]_vars
  <2> SUFFICES ASSUME HInv, SearchInv, Next, total_malloc_chunks' # total_malloc_chunks
               PROVE  \A a \in DOMAIN next : size[a] < nunits
    OBVIOUS
  <2>1. Grow
    BY DEF Next, Step, Malloc, TakeWhole, TakeTail, Advance, GrowUnchecked,
           InsertAdvance, InsertLink, Free, list_vars
  <2> QED
    BY <2>1, RoundShort
<1> QED
  BY <1>1, <1>2, <1>3, HeapInvariant, PTL DEF Spec, GrowsOnlyWhenShort

(***************************************************************************)
(* The heap implements HeapArena: malloc hands out memory nobody owns, of  *)
(* the size this call asked for, and no call changes a block somebody owns *)
(* except the free of that block.  The start of a malloc is Arena!Ask,     *)
(* taking a block off the list and cutting a tail off one are Arena!Grant, *)
(* growing is Arena!Grow, a null freep after it Arena!Refuse, the start of *)
(* a free is Arena!Free; no other step changes anything a caller can see.  *)
(***************************************************************************)

(* What callers own, with sizes: `blocks' of Arena *)
Handed == [a \in Owned |-> size[a]]

Mapped == NALLOC * total_malloc_chunks

(* Between calls no request is pending: every way out of malloc ends it. *)
Answered == pc = "idle" => nunits = 0

LEMMA StepAnswered == Answered /\ [Next]_vars => Answered'
BY DEF Answered, Next, Step, Malloc, TakeWhole, TakeTail, Advance, Grow, GrowUnchecked,
       InsertAdvance, InsertLink, Free, Return, vars

(* What the refinement rests on *)
ArenaInv == HInv /\ Answered

(* Nothing a caller can see changes when the same blocks stay owned at their size. *)
LEMMA SameHanded ==
  ASSUME Owned' = Owned, \A a \in Owned : size'[a] = size[a]
  PROVE  Handed' = Handed
BY DEF Handed

(* One more block owned, at a, of n units *)
LEMMA OneHanded ==
  ASSUME NEW a, NEW n, Owned' = Owned \union {a}, a \notin Owned, size'[a] = n,
         \A b \in Owned : size'[b] = size[b]
  PROVE  Handed' = [b \in DOMAIN Handed \union {a} |-> IF b = a THEN n ELSE Handed[b]]
BY DEF Handed

(* Of disjoint blocks, no two overlap. *)
LEMMA NoOverlap ==
  ASSUME NEW c \in 0 .. MaxChunks, NEW E, NEW sz, Blocks(E, sz, NALLOC * c),
         NEW a \in E \ {base}, NEW b \in E \ {base}, a # b
  PROVE  ~Arena!Overlap(a, sz[a], b, sz[b])
<1>1. a \in Nat /\ b \in Nat /\ sz[a] \in Nat /\ sz[b] \in Nat
  BY BlockFacts
<1>2. (a < b => a + sz[a] <= b) /\ (b < a => b + sz[b] <= a)
  BY DEF Blocks
<1> QED
  BY <1>1, <1>2 DEF Arena!Overlap

(* Owned blocks are blocks, and none of them is on the list. *)
LEMMA OwnedFacts ==
  ASSUME HInv
  PROVE  /\ Owned \subseteq DOMAIN size \ {base}
         /\ \A a \in Owned : a \notin DOMAIN next
         /\ pc # "insert" => Owned = DOMAIN size \ DOMAIN next
         /\ pc = "insert" => Owned = (DOMAIN size \ DOMAIN next) \ {bp}
BY StateFacts DEF Owned

(* The block that has just become owned was nobody's. *)
LEMMA HandsOut ==
  ASSUME HInv, HInv', total_malloc_chunks' = total_malloc_chunks,
         NEW a, NEW n \in Requests, Owned' = Owned \union {a}, a \notin Owned,
         size'[a] = n, \A b \in Owned : size'[b] = size[b],
         nunits = n, nunits' = 0
  PROVE  Arena!Next
<1>1. Owned' \subseteq DOMAIN size' \ {base} /\ total_malloc_chunks' \in 0 .. MaxChunks
  BY DEF HInv, HeapShape, Shape, List, Blocks, Locals, Owned
<1>2. Blocks(DOMAIN size', size', NALLOC * total_malloc_chunks)
  BY DEF HInv, HeapShape, Shape
<1>3. a \in DOMAIN size' \ {base} /\ \A b \in Owned : b \in DOMAIN size' \ {base} /\ b # a
  BY <1>1
<1>4. PICK m : m = Mapped
  OBVIOUS
<1>5. a + n <= m /\ m \in Nat /\ a \in Nat /\ n \in Nat \ {0}
  BY <1>1, <1>2, <1>3, <1>4, BrkBound, BlockFacts, StateFacts DEF Blocks, Mapped
<1>6. a \in 0 .. m - 1
  BY <1>5
<1>7. \A b \in DOMAIN Handed : ~Arena!Overlap(a, n, b, Handed[b])
  <2> SUFFICES ASSUME NEW b \in Owned PROVE ~Arena!Overlap(a, n, b, size[b])
    BY DEF Handed
  <2>1. ~Arena!Overlap(a, size'[a], b, size'[b])
    BY <1>1, <1>2, <1>3, NoOverlap
  <2> QED BY <2>1
<1>8. Handed' = [b \in DOMAIN Handed \union {a} |-> IF b = a THEN n ELSE Handed[b]]
  BY OneHanded, SMTT(30)
<1>9. a \in 0 .. Mapped - 1 /\ Arena!Grant(a)
  BY <1>4, <1>5, <1>6, <1>7, <1>8 DEF Arena!Grant, Handed, Mapped
<1> QED
  BY <1>9 DEF Arena!Next, Mapped

(* malloc begins: a caller's blocks survive even when the list is thrown away. *)
LEMMA MallocMaps ==
  ASSUME HInv, NEW n \in Requests, Malloc(n)
  PROVE  Handed' = Handed /\ Mapped' = Mapped
<1>1. pc = "idle" /\ pc' = "search" /\ total_malloc_chunks' = total_malloc_chunks
  BY DEF Malloc
<1>2. Owned = DOMAIN size \ DOMAIN next /\ Owned' = DOMAIN size' \ DOMAIN next'
  BY <1>1 DEF Owned
<1>3. CASE freep = NULL
  <2>1. /\ next' = [a \in {base} |-> base]
        /\ size' = [a \in Owned \union {base} |-> IF a = base THEN 0 ELSE size[a]]
    BY <1>3 DEF Malloc
  <2>2. base \notin Owned
    BY OwnedFacts
  <2>3. Owned' = Owned
    BY <1>2, <2>1, <2>2
  <2>4. \A a \in Owned : size'[a] = size[a]
    BY <2>1, <2>2
  <2> QED
    BY <1>1, <2>3, <2>4, SameHanded DEF Mapped
<1>4. CASE freep # NULL
  <2>1. next' = next /\ size' = size
    BY <1>4 DEF Malloc
  <2> QED
    BY <1>1, <1>2, <2>1, SameHanded DEF Mapped
<1> QED BY <1>3, <1>4

(* A block taken off the list is handed out. *)
LEMMA TakeWholeMaps ==
  ASSUME HInv, HInv', TakeWhole
  PROVE  Arena!Next
<1>1. /\ pc = "search" /\ pc' = "idle" /\ size[p] = nunits /\ size' = size /\ nunits' = 0
      /\ DOMAIN next' = DOMAIN next \ {p} /\ total_malloc_chunks' = total_malloc_chunks
  BY DEF TakeWhole, Return
<1>2. p \in DOMAIN next /\ nunits \in Requests
  BY <1>1 DEF HInv, Locals
<1>3. Owned' = Owned \union {p} /\ p \notin Owned
  BY <1>1, <1>2, StateFacts DEF Owned
<1>4. size'[p] = nunits /\ \A b \in Owned : size'[b] = size[b]
  BY <1>1
<1> QED
  BY <1>1, <1>2, <1>3, <1>4, HandsOut, Zenon

(* So is a tail that is cut off. *)
LEMMA TakeTailMaps ==
  ASSUME HInv, HInv', TakeTail
  PROVE  Arena!Next
<1>1. PICK r : r = p + (size[p] - nunits)
  OBVIOUS
<1>2. /\ pc = "search" /\ pc' = "idle" /\ next' = next /\ nunits' = 0
      /\ total_malloc_chunks' = total_malloc_chunks /\ size[p] > nunits
      /\ size' = [a \in DOMAIN size \union {r} |->
                    IF a = p THEN size[p] - nunits ELSE IF a = r THEN nunits ELSE size[a]]
  BY <1>1 DEF TakeTail, Return
<1>3. p \in DOMAIN next /\ nunits \in Requests
  BY <1>2, StateFacts DEF HInv, Locals
<1>4. /\ p \in DOMAIN size \ {base} /\ nunits \in Nat \ {0} /\ nunits < size[p]
      /\ size[p] \in Nat
  <2>1. p \in DOMAIN size /\ nunits \in Nat \ {0} /\ size[p] \in Nat
    BY <1>3, StateFacts
  <2>2. p # base
    BY <1>2, <2>1, StateFacts
  <2> QED
    BY <1>2, <2>1, <2>2
<1>5. r \notin DOMAIN size
  <2>1. Blocks(DOMAIN size, size, NALLOC * total_malloc_chunks)
    BY DEF HInv, HeapShape, Shape
  <2> QED
    BY <1>1, <1>4, <2>1, StateFacts, BlocksSplit
<1>6. Owned = DOMAIN size \ DOMAIN next /\ Owned' = DOMAIN size' \ DOMAIN next
  BY <1>2 DEF Owned
<1>7. Owned' = Owned \union {r} /\ r \notin Owned
  BY <1>2, <1>5, <1>6, StateFacts
<1>8. size'[r] = nunits /\ \A b \in Owned : size'[b] = size[b]
  BY <1>2, <1>3, <1>4, <1>5, <1>6, StateFacts
<1> QED
  BY <1>2, <1>3, <1>7, <1>8, HandsOut, Zenon

(* The heap grows; the new chunk is nobody's. *)
LEMMA GrowMaps ==
  ASSUME HInv, HInv', Grow
  PROVE  Arena!Grow
<1>1. /\ pc = "search" /\ pc' = "insert" /\ next' = next
      /\ bp' = NALLOC * total_malloc_chunks
      /\ size' = [a \in DOMAIN size \union {bp'} |-> IF a = bp' THEN NALLOC ELSE size[a]]
      /\ total_malloc_chunks < MaxChunks
      /\ total_malloc_chunks' = total_malloc_chunks + 1
      /\ nunits' = nunits /\ nunits # 0
  BY DEF Grow, HInv, Locals
<1>2. bp' \notin DOMAIN size
  <2>1. Blocks(DOMAIN size, size, NALLOC * total_malloc_chunks)
    BY DEF HInv, HeapShape, Shape
  <2> QED
    BY <1>1, <2>1, StateFacts, BlocksAdd
<1>3. Owned' = Owned /\ \A a \in Owned : size'[a] = size[a]
  BY <1>1, <1>2 DEF Owned
<1>4. Handed' = Handed
  BY <1>3, SameHanded
<1>5. Mapped' > Mapped
  <2>1. PICK c \in Nat : c = total_malloc_chunks
    BY DEF HInv, Locals
  <2>2. NALLOC * (c + 1) = NALLOC * c + NALLOC /\ NALLOC * c \in Nat
    BY HeapAssumption
  <2> QED
    BY <1>1, <2>1, <2>2, HeapAssumption DEF Mapped
<1> QED
  BY <1>1, <1>4, <1>5 DEF Arena!Grow, Handed, Mapped

(* The block given to free stops being owned. *)
LEMMA FreeMaps ==
  ASSUME ArenaInv, NEW a \in Owned, Free(a)
  PROVE  a \in DOMAIN Handed /\ Arena!Free(a)
<1>1. /\ pc = "idle" /\ pc' = "insert" /\ next' = next /\ size' = size /\ bp' = a
      /\ total_malloc_chunks' = total_malloc_chunks /\ nunits = 0 /\ nunits' = 0
  BY DEF Free, list_vars, ArenaInv, Answered
<1>2. Owned' = Owned \ {a}
  BY <1>1 DEF Owned
<1>3. Handed' = [b \in DOMAIN Handed \ {a} |-> Handed[b]]
  BY <1>1, <1>2 DEF Handed
<1> QED
  BY <1>1, <1>3 DEF Arena!Free, Handed

(* Linking and merging touch the blocks of the list only. *)
LEMMA InsertLinkMaps ==
  ASSUME HInv, InsertLink
  PROVE  Handed' = Handed /\ Mapped' = Mapped
<1>1. /\ pc = "insert" /\ pc' # "insert" /\ p \in DOMAIN next
      /\ bp \in DOMAIN size \ DOMAIN next
      /\ total_malloc_chunks' = total_malloc_chunks
  BY DEF InsertLink, Return, HInv, Locals
<1>2. Owned = (DOMAIN size \ DOMAIN next) \ {bp} /\ Owned' = DOMAIN size' \ DOMAIN next'
  BY <1>1 DEF Owned
<1>3. Swallowed \subseteq DOMAIN next
  BY <1>1, StateFacts DEF Swallowed
<1>4. CASE MergesLeft
  <2>1. /\ DOMAIN next' = DOMAIN next \ Swallowed
        /\ size' = [a \in (DOMAIN size \ Swallowed) \ {bp} |->
                      IF a = p THEN size[p] + MergedSize ELSE size[a]]
    BY <1>4 DEF InsertLink
  <2>2. Owned' = Owned /\ \A a \in Owned : size'[a] = size[a]
    BY <1>1, <1>2, <1>3, <2>1
  <2> QED
    BY <1>1, <2>2, SameHanded DEF Mapped
<1>5. CASE ~MergesLeft
  <2>1. /\ DOMAIN next' = (DOMAIN next \ Swallowed) \union {bp}
        /\ size' = [a \in DOMAIN size \ Swallowed |->
                      IF a = bp THEN MergedSize ELSE size[a]]
    BY <1>5 DEF InsertLink
  <2>2. Owned' = Owned /\ \A a \in Owned : size'[a] = size[a]
    BY <1>1, <1>2, <1>3, <2>1
  <2> QED
    BY <1>1, <2>2, SameHanded DEF Mapped
<1> QED BY <1>4, <1>5

(* The other steps leave the list, the blocks and the block being freed alone. *)
LEMMA OthersMap ==
  ASSUME HInv, Advance \/ InsertAdvance \/ GrowUnchecked \/ UNCHANGED vars
  PROVE  Handed' = Handed /\ Mapped' = Mapped /\ nunits' = nunits
<1>1. /\ next' = next /\ size' = size /\ bp' = bp /\ nunits' = nunits
      /\ total_malloc_chunks' = total_malloc_chunks
      /\ (pc' = "insert" <=> pc = "insert")
  BY DEF Advance, InsertAdvance, GrowUnchecked, vars, list_vars
<1>2. Owned' = Owned
  BY <1>1 DEF Owned
<1> QED
  BY <1>1, <1>2, SameHanded DEF Mapped

(* Every step of the heap is a step of the arena or changes nothing of it. *)
LEMMA StepMaps ==
  ASSUME ArenaInv, ArenaInv', [Next]_vars
  PROVE  [Arena!Next]_(Arena!vars)
<1> DEFINE Still == Handed' = Handed /\ Mapped' = Mapped
<1>0. HInv /\ HInv'
  BY DEF ArenaInv
<1>1. Still /\ nunits' = nunits => UNCHANGED Arena!vars
  BY DEF Arena!vars, Handed, Mapped
<1>2. ASSUME NEW n \in Requests, Malloc(n) PROVE Arena!Next
  <2>1. Still
    BY <1>0, <1>2, MallocMaps
  <2>2. nunits = 0 /\ nunits' = n
    BY <1>2 DEF Malloc, ArenaInv, Answered
  <2>3. Arena!Ask(n)
    BY <2>1, <2>2 DEF Arena!Ask, Handed, Mapped
  <2> QED
    BY <2>3 DEF Arena!Next
<1>3. ASSUME NEW a \in Owned, Free(a) PROVE Arena!Next
  <2>1. a \in DOMAIN Handed /\ Arena!Free(a)
    BY <1>3, FreeMaps
  <2> QED
    BY <2>1 DEF Arena!Next, Handed
<1>4. CASE TakeWhole \/ TakeTail
  BY <1>0, <1>4, TakeWholeMaps, TakeTailMaps
<1>5. CASE Grow
  BY <1>0, <1>5, GrowMaps DEF Arena!Next
<1>6. CASE InsertLink
  <2>1. Still
    BY <1>0, <1>6, InsertLinkMaps
  <2>2. nunits' = nunits \/ nunits' = 0
    BY <1>6 DEF InsertLink, Return
  <2>3. CASE nunits' = nunits
    BY <1>1, <2>1, <2>3
  <2>4. CASE nunits # 0 /\ nunits' = 0
    <3>1. Arena!Refuse
      BY <2>1, <2>4 DEF Arena!Refuse, Handed, Mapped
    <3> QED BY <3>1 DEF Arena!Next
  <2> QED
    BY <2>2, <2>3, <2>4
<1>7. CASE Advance \/ InsertAdvance \/ GrowUnchecked \/ UNCHANGED vars
  BY <1>0, <1>1, <1>7, OthersMap
<1> QED
  BY <1>1, <1>2, <1>3, <1>4, <1>5, <1>6, <1>7 DEF Next, Step

(* An empty heap is an empty arena. *)
LEMMA InitMaps == Init => Arena!Init
<1> SUFFICES ASSUME Init PROVE Arena!Init
  OBVIOUS
<1>1. Owned = {}
  BY DEF Init, Owned
<1>2. NALLOC * total_malloc_chunks = 0 /\ nunits = 0
  BY HeapAssumption DEF Init
<1> QED
  BY <1>1, <1>2 DEF Arena!Init

(* malloc.c keeps what HeapArena promises: a block handed out is memory no caller
   owns, of the size its call asked for, it stays so until its owner frees it, and
   a malloc that returns NULL takes nothing.  *)
THEOREM ArenaRefinement == Spec => RefinesArena
<1>1. Init => Answered
  BY DEF Init, Answered
<1>2. ArenaInv /\ ArenaInv' /\ [Next]_vars => [Arena!Next]_(Arena!vars)
  BY StepMaps
<1>3. HInv /\ Answered => ArenaInv
  BY DEF ArenaInv
<1> QED
  BY <1>1, <1>2, <1>3, InitMaps, HeapInvariant, StepAnswered, PTL
  DEF Spec, RefinesArena, Arena!Spec

===============================================================================
