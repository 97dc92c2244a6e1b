---------------------------- MODULE WindowProofs ----------------------------
(***************************************************************************)
(* Proofs about Stream, for any fleet and any queue: what the page and the *)
(* badge show is, but for the sessions whose word went astray, what the    *)
(* last event on its way will make right.  And about Attention, whose      *)
(* notices are what Stream carries.                                        *)
(***************************************************************************)
EXTENDS Stream, Attention, FiniteSetTheorems, WellFoundedInduction,
   NaturalsInduction, TLAPS

In(Q, q) == \E k \in DOMAIN q : q[k] \in Q
Within(Q, B) == \E j \in DOMAIN B : In(Q, B[j])

(* Of the events of Q in a sequence, the last is one of V: a wrong one is  *)
(* followed by another.  The same of the batches still to be sent, and of  *)
(* these and the queue they are sent into.                                 *)
Ends(Q, V, q) ==
    \A k \in DOMAIN q : q[k] \in Q \ V => \E l \in DOMAIN q : k < l /\ q[l] \in Q
EndsLast(Q, V, B) ==
    \A j \in DOMAIN B :
        Ends(Q, V, B[j]) \/ \E i \in DOMAIN B : j < i /\ In(Q, B[i])
Tells(Q, V, B, q) == EndsLast(Q, V, B) /\ (Within(Q, B) \/ Ends(Q, V, q))
Word(Q, B, q) == Within(Q, B) \/ In(Q, q)

(* The batches when the one at place i has lost its head.                  *)
Without(B, i) == IF Len(B[i]) = 1 THEN RemoveAt(B, i)
                                  ELSE [B EXCEPT ![i] = Tail(@)]

-----------------------------------------------------------------------------
(* Sequences.                                                              *)

LEMMA Appended ==
    ASSUME NEW M, NEW q \in Seq(M), NEW m \in M
    PROVE  /\ Len(q) \in Nat /\ DOMAIN q = 1..Len(q)
           /\ Append(q, m) \in Seq(M) /\ DOMAIN Append(q, m) = 1..(Len(q) + 1)
           /\ \A k \in 1..Len(q) : Append(q, m)[k] = q[k]
           /\ Append(q, m)[Len(q) + 1] = m
OBVIOUS

LEMMA Tailed ==
    ASSUME NEW M, NEW q \in Seq(M), q # <<>>
    PROVE  /\ Len(q) \in Nat /\ 1 <= Len(q) /\ DOMAIN q = 1..Len(q)
           /\ Tail(q) \in Seq(M) /\ DOMAIN Tail(q) = 1..(Len(q) - 1)
           /\ \A k \in 1..(Len(q) - 1) : Tail(q)[k] = q[k + 1]
           /\ Head(q) = q[1] /\ Head(q) \in M
OBVIOUS

LEMMA Joined ==
    ASSUME NEW M, NEW a \in Seq(M), NEW b \in Seq(M)
    PROVE  /\ a \o b \in Seq(M) /\ Len(a) \in Nat /\ Len(b) \in Nat
           /\ DOMAIN a = 1..Len(a) /\ DOMAIN b = 1..Len(b)
           /\ DOMAIN (a \o b) = 1..(Len(a) + Len(b))
           /\ \A k \in 1..Len(a) : (a \o b)[k] = a[k]
           /\ \A k \in 1..Len(b) : (a \o b)[Len(a) + k] = b[k]
OBVIOUS

(* A sequence that takes in one more event.                                *)
LEMMA InAppend ==
    ASSUME NEW M, NEW q \in Seq(M), NEW m \in M, NEW Q
    PROVE  In(Q, Append(q, m)) <=> In(Q, q) \/ m \in Q
<1> DEFINE r == Append(q, m)
<1>1. /\ Len(q) \in Nat /\ DOMAIN q = 1..Len(q) /\ DOMAIN r = 1..(Len(q) + 1)
      /\ \A k \in 1..Len(q) : r[k] = q[k]
      /\ r[Len(q) + 1] = m
  BY Appended
<1> HIDE DEF r
<1>2. \A k \in 1..(Len(q) + 1) : k \in 1..Len(q) \/ k = Len(q) + 1
  BY <1>1
<1>3. Len(q) + 1 \in 1..(Len(q) + 1) /\ 1..Len(q) \subseteq 1..(Len(q) + 1)
  BY <1>1
<1>4. In(Q, r) => In(Q, q) \/ m \in Q
  BY <1>1, <1>2 DEF In
<1>5. In(Q, q) \/ m \in Q => In(Q, r)
  BY <1>1, <1>3 DEF In
<1> QED
  BY <1>4, <1>5 DEF r

LEMMA EndsAppend ==
    ASSUME NEW M, NEW q \in Seq(M), NEW m \in M, NEW Q, NEW V
    PROVE  /\ m \in Q /\ m \in V => Ends(Q, V, Append(q, m))
           /\ m \notin Q /\ Ends(Q, V, q) => Ends(Q, V, Append(q, m))
<1> DEFINE r == Append(q, m)
<1>1. /\ Len(q) \in Nat /\ DOMAIN q = 1..Len(q) /\ DOMAIN r = 1..(Len(q) + 1)
      /\ \A k \in 1..Len(q) : r[k] = q[k]
      /\ r[Len(q) + 1] = m
  BY Appended
<1> HIDE DEF r
<1>2. \A k \in 1..(Len(q) + 1) : (k \in 1..Len(q) /\ k < Len(q) + 1) \/ k = Len(q) + 1
  BY <1>1
<1>3. Len(q) + 1 \in 1..(Len(q) + 1) /\ 1..Len(q) \subseteq 1..(Len(q) + 1)
  BY <1>1
<1>4. ASSUME m \in Q, m \in V PROVE Ends(Q, V, r)
  <2> SUFFICES ASSUME NEW k \in 1..(Len(q) + 1), r[k] \in Q \ V
               PROVE  \E l \in 1..(Len(q) + 1) : k < l /\ r[l] \in Q
    BY <1>1 DEF Ends
  <2>1. k # Len(q) + 1
    BY <1>1, <1>4
  <2> QED
    BY <1>1, <1>2, <1>3, <1>4, <2>1
<1>5. ASSUME m \notin Q, Ends(Q, V, q) PROVE Ends(Q, V, r)
  <2> SUFFICES ASSUME NEW k \in 1..(Len(q) + 1), r[k] \in Q \ V
               PROVE  \E l \in 1..(Len(q) + 1) : k < l /\ r[l] \in Q
    BY <1>1 DEF Ends
  <2>1. k \in 1..Len(q) /\ q[k] \in Q \ V
    BY <1>1, <1>2, <1>5
  <2>2. PICK l \in 1..Len(q) : k < l /\ q[l] \in Q
    BY <1>1, <1>5, <2>1 DEF Ends
  <2> QED
    BY <1>1, <1>3, <2>2
<1> QED
  BY <1>4, <1>5 DEF r

(* A sequence that loses its head.                                         *)
LEMMA InTail ==
    ASSUME NEW M, NEW q \in Seq(M), q # <<>>, NEW Q
    PROVE  In(Q, q) <=> Head(q) \in Q \/ In(Q, Tail(q))
<1> DEFINE r == Tail(q)
<1>1. /\ Len(q) \in Nat /\ 1 <= Len(q) /\ DOMAIN q = 1..Len(q) /\ DOMAIN r = 1..(Len(q) - 1)
      /\ \A k \in 1..(Len(q) - 1) : r[k] = q[k + 1]
      /\ Head(q) = q[1]
  BY Tailed
<1> HIDE DEF r
<1>2. 1 \in 1..Len(q) /\ \A k \in 1..(Len(q) - 1) : k + 1 \in 1..Len(q)
  BY <1>1
<1>3. \A k \in 1..Len(q) : k = 1 \/ (k - 1 \in 1..(Len(q) - 1) /\ (k - 1) + 1 = k)
  BY <1>1
<1>4. ASSUME In(Q, q) PROVE Head(q) \in Q \/ In(Q, r)
  <2>1. PICK k \in 1..Len(q) : q[k] \in Q
    BY <1>1, <1>4 DEF In
  <2>2. CASE k = 1
    BY <1>1, <2>1, <2>2
  <2>3. CASE k # 1
    <3>1. k - 1 \in 1..(Len(q) - 1) /\ (k - 1) + 1 = k
      BY <1>3, <2>3
    <3>2. r[k - 1] = q[k]
      BY <1>1, <3>1
    <3> QED
      BY <1>1, <2>1, <3>1, <3>2 DEF In
  <2> QED
    BY <2>2, <2>3
<1>5. Head(q) \in Q => In(Q, q)
  BY <1>1, <1>2 DEF In
<1>6. In(Q, r) => In(Q, q)
  <2> SUFFICES ASSUME NEW k \in 1..(Len(q) - 1), r[k] \in Q PROVE In(Q, q)
    BY <1>1 DEF In
  <2>1. k + 1 \in 1..Len(q) /\ q[k + 1] \in Q
    BY <1>1, <1>2
  <2> QED
    BY <1>1, <2>1 DEF In
<1> QED
  BY <1>4, <1>5, <1>6 DEF r

LEMMA EndsTail ==
    ASSUME NEW M, NEW q \in Seq(M), q # <<>>, NEW Q, NEW V, Ends(Q, V, q)
    PROVE  /\ Ends(Q, V, Tail(q))
           /\ Head(q) \in Q /\ ~In(Q, Tail(q)) => Head(q) \in V
<1> DEFINE r == Tail(q)
<1>1. /\ Len(q) \in Nat /\ 1 <= Len(q) /\ DOMAIN q = 1..Len(q) /\ DOMAIN r = 1..(Len(q) - 1)
      /\ \A k \in 1..(Len(q) - 1) : r[k] = q[k + 1]
      /\ Head(q) = q[1]
  BY Tailed
<1> HIDE DEF r
<1>2. ASSUME NEW l \in 1..Len(q), NEW k \in Nat, k + 1 < l
      PROVE  l - 1 \in 1..(Len(q) - 1) /\ k < l - 1 /\ r[l - 1] = q[l]
  <2>1. l - 1 \in 1..(Len(q) - 1) /\ k < l - 1 /\ (l - 1) + 1 = l
    BY <1>1, <1>2
  <2>2. r[l - 1] = q[(l - 1) + 1]
    BY <1>1, <2>1
  <2> QED
    BY <2>1, <2>2
<1>3. Ends(Q, V, r)
  <2> SUFFICES ASSUME NEW k \in 1..(Len(q) - 1), r[k] \in Q \ V
               PROVE  \E l \in 1..(Len(q) - 1) : k < l /\ r[l] \in Q
    BY <1>1 DEF Ends
  <2>1. k \in Nat /\ k + 1 \in 1..Len(q)
    BY <1>1
  <2>2. q[k + 1] \in Q \ V
    BY <1>1
  <2>3. PICK l \in 1..Len(q) : k + 1 < l /\ q[l] \in Q
    BY <1>1, <2>1, <2>2 DEF Ends
  <2>4. l - 1 \in 1..(Len(q) - 1) /\ k < l - 1 /\ r[l - 1] = q[l]
    BY <1>2, <2>1, <2>3
  <2> QED
    BY <2>3, <2>4
<1>4. ASSUME Head(q) \in Q, Head(q) \notin V PROVE In(Q, r)
  <2>1. 1 \in 1..Len(q) /\ q[1] \in Q \ V
    BY <1>1, <1>4
  <2>2. PICK l \in 1..Len(q) : 1 < l /\ q[l] \in Q
    BY <1>1, <2>1 DEF Ends
  <2>3. 0 \in Nat /\ 0 + 1 < l
    BY <2>2
  <2>4. l - 1 \in 1..(Len(q) - 1) /\ r[l - 1] = q[l]
    BY <1>2, <2>3
  <2> QED
    BY <1>1, <2>2, <2>4 DEF In
<1> QED
  BY <1>3, <1>4 DEF r

LEMMA NothingEnds == ASSUME NEW q, NEW Q, NEW V, ~In(Q, q) PROVE Ends(Q, V, q)
BY DEF In, Ends

-----------------------------------------------------------------------------
(* Batches.                                                                *)

(* A thread leaves the mutex with a batch about something else.            *)
LEMMA WithinAppend ==
    ASSUME NEW M, NEW B \in Seq(Seq(M)), NEW b \in Seq(M), NEW Q
    PROVE  Within(Q, Append(B, b)) <=> Within(Q, B) \/ In(Q, b)
<1> DEFINE A == Append(B, b)
<1>1. /\ Len(B) \in Nat /\ DOMAIN B = 1..Len(B) /\ DOMAIN A = 1..(Len(B) + 1)
      /\ \A k \in 1..Len(B) : A[k] = B[k]
      /\ A[Len(B) + 1] = b
  BY Appended
<1> HIDE DEF A
<1>2. \A k \in 1..(Len(B) + 1) : k \in 1..Len(B) \/ k = Len(B) + 1
  BY <1>1
<1>3. Len(B) + 1 \in 1..(Len(B) + 1) /\ 1..Len(B) \subseteq 1..(Len(B) + 1)
  BY <1>1
<1>4. Within(Q, A) => Within(Q, B) \/ In(Q, b)
  BY <1>1, <1>2 DEF Within
<1>5. Within(Q, B) \/ In(Q, b) => Within(Q, A)
  BY <1>1, <1>3 DEF Within
<1> QED
  BY <1>4, <1>5 DEF A

LEMMA EndsLastAppend ==
    ASSUME NEW M, NEW B \in Seq(Seq(M)), NEW b \in Seq(M), NEW Q, NEW V, Ends(Q, V, b),
           In(Q, b) \/ EndsLast(Q, V, B)
    PROVE  EndsLast(Q, V, Append(B, b))
<1> DEFINE A == Append(B, b)
<1>1. /\ Len(B) \in Nat /\ DOMAIN B = 1..Len(B) /\ DOMAIN A = 1..(Len(B) + 1)
      /\ \A k \in 1..Len(B) : A[k] = B[k]
      /\ A[Len(B) + 1] = b
  BY Appended
<1> HIDE DEF A
<1>2. \A k \in 1..(Len(B) + 1) : (k \in 1..Len(B) /\ k < Len(B) + 1) \/ k = Len(B) + 1
  BY <1>1
<1>3. Len(B) + 1 \in 1..(Len(B) + 1) /\ 1..Len(B) \subseteq 1..(Len(B) + 1)
  BY <1>1
<1> SUFFICES ASSUME NEW j \in 1..(Len(B) + 1)
             PROVE  Ends(Q, V, A[j])
                    \/ \E i \in 1..(Len(B) + 1) : j < i /\ In(Q, A[i])
  BY <1>1 DEF EndsLast, A
<1>4. CASE j = Len(B) + 1
  BY <1>1, <1>4
<1>5. CASE j \in 1..Len(B) /\ j < Len(B) + 1
  <2>1. CASE In(Q, b)
    BY <1>1, <1>3, <1>5, <2>1
  <2>2. CASE EndsLast(Q, V, B)
    <3>1. CASE Ends(Q, V, B[j])
      BY <1>1, <1>5, <3>1
    <3>2. CASE \E i \in 1..Len(B) : j < i /\ In(Q, B[i])
      BY <1>1, <1>3, <3>2
    <3> QED
      BY <1>1, <1>5, <2>2, <3>1, <3>2 DEF EndsLast
  <2> QED
    BY <2>1, <2>2
<1> QED
  BY <1>2, <1>4, <1>5

(* What is left when a batch is done: each in its order.                   *)
LEMMA RemoveIs ==
    ASSUME NEW M, NEW B \in Seq(M), NEW i \in DOMAIN B
    PROVE  /\ Len(B) \in Nat /\ DOMAIN B = 1..Len(B) /\ i \in 1..Len(B)
           /\ RemoveAt(B, i) \in Seq(M) /\ DOMAIN RemoveAt(B, i) = 1..(Len(B) - 1)
           /\ \A j \in 1..(i - 1) : RemoveAt(B, i)[j] = B[j]
           /\ \A j \in i..(Len(B) - 1) : RemoveAt(B, i)[j] = B[j + 1]
<1> DEFINE a == SubSeq(B, 1, i - 1)
           b == SubSeq(B, i + 1, Len(B))
           r == RemoveAt(B, i)
<1>1. Len(B) \in Nat /\ DOMAIN B = 1..Len(B) /\ i \in 1..Len(B)
  OBVIOUS
<1>2. /\ a \in Seq(M) /\ Len(a) = i - 1
      /\ \A j \in 1..(i - 1) : a[j] = B[j]
  BY <1>1
<1>3. /\ b \in Seq(M) /\ Len(b) = Len(B) - i
      /\ \A j \in 1..(Len(B) - i) : b[j] = B[i + j]
  BY <1>1
<1>4. r = a \o b
  BY DEF RemoveAt
<1> HIDE DEF a, b, r
<1>5. /\ r \in Seq(M) /\ DOMAIN r = 1..(Len(a) + Len(b))
      /\ \A j \in 1..Len(a) : r[j] = a[j]
      /\ \A j \in 1..Len(b) : r[Len(a) + j] = b[j]
  <2>1. a \in Seq(M) /\ b \in Seq(M)
    BY <1>2, <1>3
  <2>2. r \in Seq(M) /\ DOMAIN r = 1..(Len(a) + Len(b))
    BY <1>4, <2>1, Joined
  <2>3. \A j \in 1..Len(a) : r[j] = a[j]
    BY <1>4, <2>1, Joined
  <2>4. \A j \in 1..Len(b) : r[Len(a) + j] = b[j]
    BY <1>4, <2>1, Joined
  <2> QED
    BY <2>2, <2>3, <2>4
<1>6. DOMAIN r = 1..(Len(B) - 1)
  BY <1>1, <1>2, <1>3, <1>5
<1>7. \A j \in 1..(i - 1) : r[j] = B[j]
  BY <1>2, <1>5
<1>8. \A j \in i..(Len(B) - 1) : r[j] = B[j + 1]
  <2> SUFFICES ASSUME NEW j \in i..(Len(B) - 1) PROVE r[j] = B[j + 1]
    OBVIOUS
  <2>1. /\ j \in Int /\ i \in Int /\ Len(B) \in Int
        /\ 1 <= i /\ i <= j /\ j <= Len(B) - 1
        /\ Len(a) = i - 1 /\ Len(b) = Len(B) - i
    BY <1>1, <1>2, <1>3
  <2>2. (j - i) + 1 \in Int /\ 1 <= (j - i) + 1 /\ (j - i) + 1 <= Len(B) - i
        /\ (i - 1) + ((j - i) + 1) = j /\ i + ((j - i) + 1) = j + 1
    BY <2>1
  <2>3. PICK h \in Int : 1 <= h /\ h <= Len(B) - i /\ (i - 1) + h = j /\ i + h = j + 1
    BY <2>2
  <2>4. h \in 1..Len(b) /\ h \in 1..(Len(B) - i) /\ Len(a) + h = j
    BY <2>1, <2>3
  <2>5. r[Len(a) + h] = b[h]
    BY <1>5, <2>4
  <2>6. b[h] = B[i + h]
    BY <1>3, <2>4
  <2> QED
    BY <2>4, <2>5, <2>3, <2>6
<1> QED
  BY <1>1, <1>5, <1>6, <1>7, <1>8 DEF r

LEMMA RemoveKeeps ==
    ASSUME NEW M, NEW B \in Seq(M), NEW i \in DOMAIN B
    PROVE  /\ \A j \in DOMAIN RemoveAt(B, i) : \E k \in DOMAIN B :
                 k # i /\ RemoveAt(B, i)[j] = B[k]
                 /\ \A n \in DOMAIN B : n # i /\ k < n =>
                       \E l \in DOMAIN RemoveAt(B, i) : j < l /\ RemoveAt(B, i)[l] = B[n]
           /\ \A n \in DOMAIN B : n # i =>
                 \E l \in DOMAIN RemoveAt(B, i) : RemoveAt(B, i)[l] = B[n]
<1> DEFINE r == RemoveAt(B, i)
           At(n) == IF n < i THEN n ELSE n - 1
           From(j) == IF j < i THEN j ELSE j + 1
<1>1. /\ Len(B) \in Nat /\ DOMAIN B = 1..Len(B) /\ i \in 1..Len(B)
      /\ DOMAIN r = 1..(Len(B) - 1)
      /\ \A j \in 1..(i - 1) : r[j] = B[j]
      /\ \A j \in i..(Len(B) - 1) : r[j] = B[j + 1]
  BY RemoveIs
<1> HIDE DEF r
<1>2. ASSUME NEW n \in 1..Len(B), n # i
      PROVE  At(n) \in 1..(Len(B) - 1) /\ r[At(n)] = B[n]
  <2>1. CASE n < i
    <3>1. n \in 1..(i - 1) /\ n \in 1..(Len(B) - 1) /\ At(n) = n
      BY <1>1, <1>2, <2>1
    <3> QED
      BY <1>1, <3>1
  <2>2. CASE n > i
    <3>1. At(n) = n - 1 /\ n - 1 \in i..(Len(B) - 1) /\ n - 1 \in 1..(Len(B) - 1)
          /\ (n - 1) + 1 = n
      BY <1>1, <1>2, <2>2
    <3>2. r[n - 1] = B[(n - 1) + 1]
      BY <1>1, <3>1
    <3> QED
      BY <3>1, <3>2
  <2> QED
    BY <1>1, <1>2, <2>1, <2>2
<1>3. ASSUME NEW j \in 1..(Len(B) - 1)
      PROVE  From(j) \in 1..Len(B) /\ From(j) # i /\ r[j] = B[From(j)]
  <2>1. CASE j < i
    <3>1. j \in 1..(i - 1) /\ j \in 1..Len(B) /\ From(j) = j
      BY <1>1, <2>1
    <3> QED
      BY <1>1, <2>1, <3>1
  <2>2. CASE j >= i
    <3>1. j \in i..(Len(B) - 1) /\ From(j) = j + 1 /\ j + 1 \in 1..Len(B) /\ j + 1 # i
      BY <1>1, <2>2
    <3> QED
      BY <1>1, <3>1
  <2> QED
    BY <1>1, <2>1, <2>2
<1>4. ASSUME NEW j \in 1..(Len(B) - 1), NEW n \in 1..Len(B), n # i, From(j) < n
      PROVE  j < At(n)
  BY <1>1, <1>4
<1> HIDE DEF At, From
<1>7. ASSUME NEW j \in DOMAIN r
      PROVE  \E k \in DOMAIN B :
                 k # i /\ r[j] = B[k]
                 /\ \A n \in DOMAIN B : n # i /\ k < n =>
                       \E l \in DOMAIN r : j < l /\ r[l] = B[n]
  <2>1. j \in 1..(Len(B) - 1)
    BY <1>1
  <2>2. From(j) \in DOMAIN B /\ From(j) # i /\ r[j] = B[From(j)]
    BY <1>1, <1>3, <2>1
  <2>3. ASSUME NEW n \in DOMAIN B, n # i, From(j) < n
        PROVE  \E l \in DOMAIN r : j < l /\ r[l] = B[n]
    <3>1. n \in 1..Len(B)
      BY <1>1
    <3>2. At(n) \in DOMAIN r /\ r[At(n)] = B[n]
      BY <1>1, <1>2, <2>3, <3>1
    <3>3. j < At(n)
      BY <1>4, <2>1, <2>3, <3>1
    <3> QED
      BY <3>2, <3>3
  <2> QED
    BY <2>2, <2>3
<1>8. \A n \in DOMAIN B : n # i => \E l \in DOMAIN r : r[l] = B[n]
  BY <1>1, <1>2
<1> QED
  BY <1>7, <1>8 DEF r

LEMMA EarlierIs ==
    ASSUME NEW M, NEW B \in Seq(M), NEW i \in DOMAIN B, NEW Q
    PROVE  Within(Q, SubSeq(B, 1, i - 1)) <=> \E j \in DOMAIN B : j < i /\ In(Q, B[j])
<1> DEFINE a == SubSeq(B, 1, i - 1)
<1>1. Len(B) \in Nat /\ DOMAIN B = 1..Len(B) /\ i \in 1..Len(B)
  OBVIOUS
<1>2. DOMAIN a = 1..(i - 1) /\ \A j \in 1..(i - 1) : a[j] = B[j]
  BY <1>1
<1> HIDE DEF a
<1>3. /\ \A j \in 1..(i - 1) : j \in 1..Len(B) /\ j < i
      /\ \A j \in 1..Len(B) : j < i => j \in 1..(i - 1)
  BY <1>1
<1>4. Within(Q, a) => \E j \in DOMAIN B : j < i /\ In(Q, B[j])
  BY <1>1, <1>2, <1>3 DEF Within
<1>5. (\E j \in DOMAIN B : j < i /\ In(Q, B[j])) => Within(Q, a)
  BY <1>1, <1>2, <1>3 DEF Within
<1> QED
  BY <1>4, <1>5 DEF a

LEMMA OneIs ==
    ASSUME NEW M, NEW q \in Seq(M), q # <<>>, Len(q) = 1, NEW Q
    PROVE  ~In(Q, Tail(q))
<1>1. DOMAIN Tail(q) = 1..(Len(q) - 1)
  BY Tailed
<1>2. \A k \in DOMAIN Tail(q) : FALSE
  BY <1>1
<1> QED
  BY <1>2 DEF In

LEMMA ReplacedIs ==
    ASSUME NEW M, NEW B \in Seq(M), NEW i \in DOMAIN B, NEW b \in M
    PROVE  /\ [B EXCEPT ![i] = b] \in Seq(M) /\ DOMAIN [B EXCEPT ![i] = b] = DOMAIN B
           /\ [B EXCEPT ![i] = b][i] = b
           /\ \A j \in DOMAIN B : j # i => [B EXCEPT ![i] = b][j] = B[j]
OBVIOUS

(* Batches are never empty, and the head of one is all that goes.          *)
Batches(M) == {B \in Seq(Seq(M)) : \A j \in DOMAIN B : B[j] # <<>>}

LEMMA WithoutType ==
    ASSUME NEW M, NEW B \in Batches(M), NEW i \in DOMAIN B
    PROVE  Without(B, i) \in Batches(M)
<1>1. /\ B \in Seq(Seq(M)) /\ B[i] \in Seq(M) /\ B[i] # <<>>
      /\ \A j \in DOMAIN B : B[j] # <<>>
  BY DEF Batches
<1>2. CASE Len(B[i]) = 1
  <2>1. RemoveAt(B, i) \in Seq(Seq(M))
    BY <1>1, RemoveIs
  <2>2. \A j \in DOMAIN RemoveAt(B, i) : \E k \in DOMAIN B : RemoveAt(B, i)[j] = B[k]
    BY <1>1, RemoveKeeps
  <2> QED
    BY <1>1, <1>2, <2>1, <2>2 DEF Without, Batches
<1>3. CASE Len(B[i]) # 1
  <2> DEFINE b == Tail(B[i])
             A == [B EXCEPT ![i] = b]
  <2>1. b \in Seq(M) /\ b # <<>>
    <3>1. b \in Seq(M) /\ Len(B[i]) \in Nat /\ 1 <= Len(B[i]) /\ DOMAIN b = 1..(Len(B[i]) - 1)
      BY <1>1, Tailed
    <3> HIDE DEF b
    <3>2. PICK n \in Nat : n = Len(B[i])
      BY <3>1
    <3>3. 1 \in DOMAIN b
      <4>1. DOMAIN b = 1..(n - 1) /\ 1 <= n /\ n # 1
        BY <1>3, <3>1, <3>2
      <4> QED
        BY <4>1
    <3>4. DOMAIN <<>> = {}
      OBVIOUS
    <3> QED
      BY <3>1, <3>3, <3>4
  <2>2. /\ A \in Seq(Seq(M)) /\ DOMAIN A = DOMAIN B /\ A[i] = b
        /\ \A j \in DOMAIN B : j # i => A[j] = B[j]
    <3> HIDE DEF b
    <3> QED
      BY <1>1, <2>1, ReplacedIs
  <2>3. Without(B, i) = A
    BY <1>3 DEF Without
  <2> QED
    BY <1>1, <2>1, <2>2, <2>3 DEF Batches
<1> QED
  BY <1>2, <1>3

LEMMA WithinWithout ==
    ASSUME NEW M, NEW B \in Batches(M), NEW i \in DOMAIN B, NEW Q
    PROVE  /\ Head(B[i]) \in M
           /\ Within(Q, B) <=> Head(B[i]) \in Q \/ Within(Q, Without(B, i))
<1> DEFINE A == Without(B, i)
<1>1. B \in Seq(Seq(M)) /\ B[i] \in Seq(M) /\ B[i] # <<>>
  BY DEF Batches
<1>2. In(Q, B[i]) <=> Head(B[i]) \in Q \/ In(Q, Tail(B[i]))
  BY <1>1, InTail
<1>3. Head(B[i]) \in M
  BY <1>1, Tailed
<1>4. CASE Len(B[i]) = 1
  <2>1. ~In(Q, Tail(B[i]))
    BY <1>1, <1>4, OneIs
  <2>2. A = RemoveAt(B, i)
    BY <1>4 DEF Without
  <2> HIDE DEF A
  <2>3. \A j \in DOMAIN A : \E k \in DOMAIN B : A[j] = B[k]
    BY <1>1, <2>2, RemoveKeeps
  <2>4. \A n \in DOMAIN B : n # i => \E l \in DOMAIN A : A[l] = B[n]
    BY <1>1, <2>2, RemoveKeeps
  <2>5. Within(Q, A) => Within(Q, B)
    BY <2>3 DEF Within
  <2>6. Head(B[i]) \in Q => Within(Q, B)
    BY <1>2 DEF Within
  <2>7. ASSUME Within(Q, B) PROVE Head(B[i]) \in Q \/ Within(Q, A)
    <3>1. PICK n \in DOMAIN B : In(Q, B[n])
      BY <2>7 DEF Within
    <3> QED
      BY <1>2, <2>1, <2>4, <3>1 DEF Within
  <2> QED
    BY <1>3, <2>5, <2>6, <2>7 DEF A
<1>5. CASE Len(B[i]) # 1
  <2> DEFINE b == Tail(B[i])
  <2>1. A = [B EXCEPT ![i] = b]
    BY <1>5 DEF Without
  <2>2. b \in Seq(M)
    BY <1>1, Tailed
  <2> HIDE DEF A, b
  <2>3. /\ DOMAIN A = DOMAIN B /\ A[i] = b
        /\ \A j \in DOMAIN B : j # i => A[j] = B[j]
    BY <1>1, <2>1, <2>2, ReplacedIs
  <2>4. In(Q, B[i]) <=> Head(B[i]) \in Q \/ In(Q, A[i])
    BY <1>2, <2>3 DEF b
  <2> QED
    BY <1>3, <2>3, <2>4 DEF Within, A
<1> QED
  BY <1>4, <1>5

(* An event that leaves its batch when none of its kind waits before it.   *)
LEMMA EndsLastWithout ==
    ASSUME NEW M, NEW B \in Batches(M), NEW i \in DOMAIN B, NEW Q, NEW V,
           EndsLast(Q, V, B),
           Head(B[i]) \in Q => ~Within(Q, SubSeq(B, 1, i - 1))
    PROVE  /\ EndsLast(Q, V, Without(B, i))
           /\ Head(B[i]) \in Q /\ ~Within(Q, Without(B, i)) => Head(B[i]) \in V
<1> DEFINE A == Without(B, i)
<1>1. B \in Seq(Seq(M)) /\ B[i] \in Seq(M) /\ B[i] # <<>>
      /\ Len(B) \in Nat /\ DOMAIN B = 1..Len(B)
  BY DEF Batches
<1>2. In(Q, B[i]) <=> Head(B[i]) \in Q \/ In(Q, Tail(B[i]))
  BY <1>1, InTail
<1>3. ASSUME NEW j \in DOMAIN B, j < i, Head(B[i]) \in Q PROVE Ends(Q, V, B[j])
  <2>1. ~In(Q, B[j])
    BY <1>1, <1>3, EarlierIs
  <2> QED
    BY <2>1, NothingEnds
<1>4. ASSUME NEW j \in DOMAIN B
      PROVE  Ends(Q, V, B[j]) \/ \E n \in DOMAIN B : j < n /\ In(Q, B[n])
  BY DEF EndsLast
<1>5. ASSUME Ends(Q, V, B[i])
      PROVE  /\ Ends(Q, V, Tail(B[i]))
             /\ Head(B[i]) \in Q /\ ~In(Q, Tail(B[i])) => Head(B[i]) \in V
  BY <1>1, <1>5, EndsTail
<1>6. CASE Len(B[i]) = 1
  <2>1. ~In(Q, Tail(B[i]))
    BY <1>1, <1>6, OneIs
  <2>2. A = RemoveAt(B, i)
    BY <1>6 DEF Without
  <2> HIDE DEF A
  <2>3. \A j \in DOMAIN A : \E k \in DOMAIN B :
            k # i /\ A[j] = B[k]
            /\ \A n \in DOMAIN B : n # i /\ k < n =>
                  \E l \in DOMAIN A : j < l /\ A[l] = B[n]
    <3>1. \A j \in DOMAIN RemoveAt(B, i) : \E k \in DOMAIN B :
              k # i /\ RemoveAt(B, i)[j] = B[k]
              /\ \A n \in DOMAIN B : n # i /\ k < n =>
                    \E l \in DOMAIN RemoveAt(B, i) : j < l /\ RemoveAt(B, i)[l] = B[n]
      BY <1>1, RemoveKeeps
    <3> SUFFICES ASSUME NEW j \in DOMAIN A
                 PROVE  \E k \in DOMAIN B :
                           k # i /\ A[j] = B[k]
                           /\ \A n \in DOMAIN B : n # i /\ k < n =>
                                 \E l \in DOMAIN A : j < l /\ A[l] = B[n]
      OBVIOUS
    <3>2. PICK k \in DOMAIN B :
              k # i /\ RemoveAt(B, i)[j] = B[k]
              /\ \A n \in DOMAIN B : n # i /\ k < n =>
                    \E l \in DOMAIN RemoveAt(B, i) : j < l /\ RemoveAt(B, i)[l] = B[n]
      BY <2>2, <3>1
    <3>3. \A n \in DOMAIN B : n # i /\ k < n =>
              \E l \in DOMAIN A : j < l /\ A[l] = B[n]
      BY <2>2, <3>2
    <3> QED
      BY <2>2, <3>2, <3>3
  <2>4. \A n \in DOMAIN B : n # i => \E l \in DOMAIN A : A[l] = B[n]
    BY <1>1, <2>2, RemoveKeeps
  <2>5. ASSUME NEW j \in DOMAIN A
        PROVE  Ends(Q, V, A[j]) \/ \E l \in DOMAIN A : j < l /\ In(Q, A[l])
    <3>1. PICK k \in DOMAIN B :
             k # i /\ A[j] = B[k]
             /\ \A n \in DOMAIN B : n # i /\ k < n =>
                   \E l \in DOMAIN A : j < l /\ A[l] = B[n]
      BY <2>3
    <3>2. CASE Ends(Q, V, B[k])
      BY <3>1, <3>2
    <3>3. CASE \E n \in DOMAIN B : k < n /\ In(Q, B[n])
      <4>1. PICK n \in DOMAIN B : k < n /\ In(Q, B[n])
        BY <3>3
      <4>2. CASE n # i
        BY <3>1, <4>1, <4>2
      <4>3. CASE n = i
        <5>1. Ends(Q, V, B[k])
          BY <1>2, <1>3, <2>1, <4>1, <4>3
        <5> QED
          BY <3>1, <5>1
      <4> QED
        BY <4>2, <4>3
    <3> QED
      BY <1>4, <3>2, <3>3
  <2>6. ASSUME Head(B[i]) \in Q, ~Within(Q, A) PROVE Head(B[i]) \in V
    <3>1. CASE Ends(Q, V, B[i])
      BY <1>5, <2>1, <2>6, <3>1
    <3>2. CASE \E n \in DOMAIN B : i < n /\ In(Q, B[n])
      <4>1. PICK n \in DOMAIN B : i < n /\ In(Q, B[n])
        BY <3>2
      <4>2. n # i
        BY <1>1, <4>1
      <4> QED
        BY <2>4, <2>6, <4>1, <4>2 DEF Within
    <3> QED
      BY <1>4, <3>1, <3>2
  <2> QED
    BY <2>5, <2>6 DEF EndsLast, A
<1>7. CASE Len(B[i]) # 1
  <2> DEFINE b == Tail(B[i])
  <2>1. A = [B EXCEPT ![i] = b]
    BY <1>7 DEF Without
  <2>2. b \in Seq(M)
    BY <1>1, Tailed
  <2>3. /\ In(Q, B[i]) <=> Head(B[i]) \in Q \/ In(Q, b)
        /\ Ends(Q, V, B[i]) =>
              /\ Ends(Q, V, b)
              /\ Head(B[i]) \in Q /\ ~In(Q, b) => Head(B[i]) \in V
    BY <1>2, <1>5
  <2> HIDE DEF A, b
  <2>4. /\ DOMAIN A = DOMAIN B /\ A[i] = b
        /\ \A j \in DOMAIN B : j # i => A[j] = B[j]
    BY <1>1, <2>1, <2>2, ReplacedIs
  <2>5. ASSUME NEW j \in DOMAIN B, j # i
        PROVE  Ends(Q, V, A[j]) \/ \E n \in DOMAIN A : j < n /\ In(Q, A[n])
    <3>1. CASE Ends(Q, V, B[j])
      BY <2>4, <2>5, <3>1
    <3>2. CASE \E n \in DOMAIN B : j < n /\ In(Q, B[n])
      <4>1. PICK n \in DOMAIN B : j < n /\ In(Q, B[n])
        BY <3>2
      <4>2. CASE n # i \/ In(Q, b)
        BY <2>4, <4>1, <4>2
      <4>3. CASE n = i /\ Head(B[i]) \in Q
        BY <1>3, <2>4, <2>5, <4>1, <4>3
      <4> QED
        BY <2>3, <4>1, <4>2, <4>3
    <3> QED
      BY <1>4, <3>1, <3>2
  <2>6. ASSUME NEW n \in DOMAIN B, i < n, In(Q, B[n])
        PROVE  n \in DOMAIN A /\ In(Q, A[n])
    <3>1. n # i
      BY <1>1, <2>6
    <3> QED
      BY <2>4, <2>6, <3>1
  <2>7. Ends(Q, V, A[i]) \/ \E n \in DOMAIN A : i < n /\ In(Q, A[n])
    BY <1>4, <2>3, <2>4, <2>6
  <2>8. ASSUME Head(B[i]) \in Q, ~Within(Q, A) PROVE Head(B[i]) \in V
    <3>1. \A n \in DOMAIN A : ~In(Q, A[n])
      BY <2>8 DEF Within
    <3>2. Ends(Q, V, B[i])
      BY <1>4, <2>6, <3>1
    <3> QED
      BY <2>3, <2>4, <2>8, <3>1, <3>2
  <2> QED
    BY <2>4, <2>5, <2>7, <2>8 DEF EndsLast, A
<1> QED
  BY <1>6, <1>7

-----------------------------------------------------------------------------
(* What the registry, the queue and the window do to the word on its way.  *)

LEMMA QuietBatch ==
    ASSUME NEW M, NEW B \in Seq(Seq(M)), NEW b \in Seq(M), NEW q, NEW Q, NEW V, ~In(Q, b)
    PROVE  /\ Tells(Q, V, B, q) => Tells(Q, V, Append(B, b), q)
           /\ Word(Q, B, q) <=> Word(Q, Append(B, b), q)
<1>1. Ends(Q, V, b)
  BY NothingEnds
<1>2. Within(Q, Append(B, b)) <=> Within(Q, B)
  BY WithinAppend
<1>3. EndsLast(Q, V, B) => EndsLast(Q, V, Append(B, b))
  BY <1>1, EndsLastAppend
<1> QED
  BY <1>2, <1>3 DEF Tells, Word

LEMMA TellingBatch ==
    ASSUME NEW M, NEW B \in Seq(Seq(M)), NEW b \in Seq(M), NEW q, NEW Q, NEW V,
           In(Q, b), Ends(Q, V, b)
    PROVE  Tells(Q, V, Append(B, b), q) /\ Word(Q, Append(B, b), q)
<1>1. Within(Q, Append(B, b))
  BY WithinAppend
<1>2. EndsLast(Q, V, Append(B, b))
  BY EndsLastAppend
<1> QED
  BY <1>1, <1>2 DEF Tells, Word

(* An event about something else is sent, into the queue or nowhere.       *)
LEMMA OtherSent ==
    ASSUME NEW M, NEW B \in Batches(M), NEW i \in DOMAIN B, NEW q \in Seq(M), NEW Q, NEW V,
           Head(B[i]) \notin Q, NEW r, r = q \/ r = Append(q, Head(B[i]))
    PROVE  /\ Tells(Q, V, B, q) => Tells(Q, V, Without(B, i), r)
           /\ Word(Q, Without(B, i), r) <=> Word(Q, B, q)
<1> DEFINE m == Head(B[i])
           A == Without(B, i)
<1>1. m \in M /\ (Within(Q, B) <=> Within(Q, A))
  BY WithinWithout
<1>2. EndsLast(Q, V, B) => EndsLast(Q, V, A)
  BY EndsLastWithout
<1>0. m \notin Q /\ (r = q \/ r = Append(q, m))
  OBVIOUS
<1> HIDE DEF m, A
<1>3. In(Q, r) <=> In(Q, q)
  <2>1. In(Q, Append(q, m)) <=> In(Q, q)
    BY <1>0, <1>1, InAppend
  <2> QED
    BY <1>0, <2>1
<1>4. Ends(Q, V, q) => Ends(Q, V, r)
  <2>1. Ends(Q, V, q) => Ends(Q, V, Append(q, m))
    BY <1>0, <1>1, EndsAppend
  <2> QED
    BY <1>0, <2>1
<1> QED
  BY <1>1, <1>2, <1>3, <1>4 DEF Tells, Word, A

(* An event is sent into the queue, and no older one is left behind.       *)
LEMMA WordSent ==
    ASSUME NEW M, NEW B \in Batches(M), NEW i \in DOMAIN B, NEW q \in Seq(M), NEW Q, NEW V,
           Head(B[i]) \in Q, ~Within(Q, SubSeq(B, 1, i - 1)), Tells(Q, V, B, q)
    PROVE  /\ Tells(Q, V, Without(B, i), Append(q, Head(B[i])))
           /\ Word(Q, Without(B, i), Append(q, Head(B[i])))
<1> DEFINE m == Head(B[i])
           A == Without(B, i)
<1>1. m \in M
  BY WithinWithout
<1>2. EndsLast(Q, V, A) /\ (~Within(Q, A) => m \in V)
  BY EndsLastWithout DEF Tells
<1> HIDE DEF m, A
<1>3. In(Q, Append(q, m))
  BY <1>1, InAppend DEF m
<1>4. m \in V => Ends(Q, V, Append(q, m))
  BY <1>1, EndsAppend DEF m
<1> QED
  BY <1>2, <1>3, <1>4 DEF Tells, Word, m, A

(* The last event on its way is sent into the queue, and it is right.      *)
LEMMA LastSent ==
    ASSUME NEW M, NEW B, NEW q \in Seq(M), NEW m \in M, NEW Q, NEW V,
           m \in Q, m \in V, ~Within(Q, B)
    PROVE  Tells(Q, V, B, Append(q, m)) /\ Word(Q, B, Append(q, m))
<1>1. In(Q, Append(q, m)) /\ Ends(Q, V, Append(q, m))
  BY InAppend, EndsAppend
<1>2. EndsLast(Q, V, B)
  BY NothingEnds DEF EndsLast, Within
<1> QED
  BY <1>1, <1>2 DEF Tells, Word

(* The window takes an event from the queue.                               *)
LEMMA Taken ==
    ASSUME NEW M, NEW B, NEW q \in Seq(M), q # <<>>, NEW Q, NEW V
    PROVE  /\ Tells(Q, V, B, q) => Tells(Q, V, B, Tail(q))
           /\ Word(Q, B, q) <=> Word(Q, B, Tail(q)) \/ Head(q) \in Q
           /\ Tells(Q, V, B, q) /\ Head(q) \in Q /\ ~Word(Q, B, Tail(q)) => Head(q) \in V
<1>1. In(Q, q) <=> Head(q) \in Q \/ In(Q, Tail(q))
  BY InTail
<1>2. ASSUME Ends(Q, V, q)
      PROVE  Ends(Q, V, Tail(q)) /\ (Head(q) \in Q /\ ~In(Q, Tail(q)) => Head(q) \in V)
  BY <1>2, EndsTail
<1> QED
  BY <1>1, <1>2 DEF Tells, Word

(* The queue is gone.                                                      *)
LEMMA QueueGone ==
    ASSUME NEW B, NEW Q, NEW V, NEW q, Tells(Q, V, B, q)
    PROVE  Tells(Q, V, B, <<>>)
<1>1. ~In(Q, <<>>)
  BY DEF In
<1> QED
  BY <1>1, NothingEnds DEF Tells

-----------------------------------------------------------------------------
(* The events of the model.                                                *)

Rows(s) == {m \in Message : m.session = s /\ m.kind \in OfRows}
Ended(s) == {m \in Message : m.session = s /\ m.kind = "gone"}
Notices(s, k) == {m \in Message : m.session = s /\ m.kind \in OfNotices /\ m.what = k}

(* The events that tell of a row as it is, and of a notice as it is.       *)
True(s) == {m \in Message : m.what = AsShown(standing[s])}
RightOf(k, keys) == {m \in Message : (m.kind = "raised") = (k \in keys)}
Right(s, k) == {m \in Message : (m.kind = "raised") = (k \in notices[s])}

LEMMA MessageIs ==
    /\ \A s \in Session, v \in Present : Msg("row", s, v) \in Message
    /\ \A s \in Session : Msg("gone", s, "none") \in Message
    /\ \A s \in Session, k \in Cause : Msg("raised", s, k) \in Message
                                     /\ Msg("retracted", s, k) \in Message
    /\ \A m \in Message :
          /\ m.session \in Session /\ m.kind \in OfRows \cup OfNotices
          /\ m.kind \in OfRows <=> m.kind \notin OfNotices
          /\ m.kind = "row" => m.what \in Present
          /\ m.kind = "gone" => m.what = "none"
          /\ m.kind \in OfNotices => m.what \in Cause
BY DEF Message, Msg, OfRows, OfNotices

LEMMA AboutIs ==
    ASSUME NEW B \in Seq(Seq(Message)), NEW s
    PROVE  /\ About(s, OfRows, B) <=> Within(Rows(s), B)
           /\ \A k : Within(Notices(s, k), B) => About(s, OfNotices, B)
<1>1. \A j \in DOMAIN B : B[j] \in Seq(Message) /\ \A k \in DOMAIN B[j] : B[j][k] \in Message
  OBVIOUS
<1>2. About(s, OfRows, B) <=> Within(Rows(s), B)
  BY <1>1 DEF About, Within, In, Rows
<1>3. \A k : Within(Notices(s, k), B) => About(s, OfNotices, B)
  BY DEF About, Within, In, Notices
<1> QED
  BY <1>2, <1>3

LEMMA AfterHeadIs == \A i : AfterHead(i) = Without(out, i)
BY DEF AfterHead, Without

-----------------------------------------------------------------------------
(* What is told of a change.                                               *)

LEMMA SequenceOf ==
    ASSUME NEW S, IsFiniteSet(S)
    PROVE  /\ SetToSeq(S) \in Seq(S)
           /\ \A x \in S : \E i \in DOMAIN SetToSeq(S) : SetToSeq(S)[i] = x
<1> DEFINE n == Cardinality(S)
           I == Injection(1..n, S)
           f == SetToSeq(S)
<1>1. n \in Nat /\ ExistsBijection(1..n, S)
  BY FS_CardinalityType
<1>2. I # {}
  BY <1>1 DEF ExistsBijection, Bijection
<1>3. f \in I
  BY <1>2 DEF SetToSeq, Injection
<1>4. IsFiniteSet(1..n) /\ Cardinality(1..n) = n
  <2> HIDE DEF n
  <2>1. IsFiniteSet(1..n) /\ Cardinality(1..n) = IF 1 > n THEN 0 ELSE n - 1 + 1
    BY <1>1, FS_Interval
  <2> QED
    BY <1>1, <2>1
<1> HIDE DEF f
<1>5. f \in Surjection(1..n, S)
  <2>1. Cardinality(1..n) = Cardinality(S)
    BY <1>4
  <2> HIDE DEF n
  <2>2. f \in Injection(1..n, S)
    BY <1>3
  <2> QED
    BY <2>1, <2>2, FS_Injection
<1> HIDE DEF n
<1>6. f \in [1..n -> S] /\ \A x \in S : \E i \in 1..n : f[i] = x
  BY <1>5 DEF Surjection
<1>7. f \in Seq(S) /\ DOMAIN f = 1..n
  BY <1>1, <1>6
<1> QED
  BY <1>6, <1>7 DEF f

(* The keys of one session, told in some order.                            *)
Keys(kind, s, keys) == {Msg(kind, s, k) : k \in keys}

LEMMA KeysAreFinite ==
    ASSUME NEW kind, NEW s, NEW keys \in SUBSET Cause
    PROVE  IsFiniteSet(Keys(kind, s, keys))
<1>1. IsFiniteSet(keys)
  BY StreamAssumption, FS_Subset
<1>2. PICK n \in Nat : ExistsBijection(1..n, keys)
  BY <1>1, FS_NatBijection
<1>3. PICK f \in Surjection(1..n, keys) : TRUE
  BY <1>2 DEF ExistsBijection, Bijection
<1> DEFINE g == [i \in 1..n |-> Msg(kind, s, f[i])]
<1>4. g \in Surjection(1..n, Keys(kind, s, keys))
  BY <1>3 DEF Surjection, Keys
<1>5. ExistsSurjection(1..n, Keys(kind, s, keys))
  BY <1>4 DEF ExistsSurjection
<1> QED
  BY <1>5, FS_NatSurjection

LEMMA ToldAre ==
    ASSUME NEW s \in Session, NEW keys \in SUBSET Cause, notices \in [Session -> SUBSET Cause]
    PROVE  Told([notices EXCEPT ![s] = keys])
             = SetToSeq(Keys("retracted", s, notices[s] \ keys))
                 \o SetToSeq(Keys("raised", s, keys \ notices[s]))
<1> DEFINE after == [notices EXCEPT ![s] = keys]
           Of(kind, has, hasnot) ==
               {Msg(kind, p[1], p[2]) : p \in
                   {p \in Session \X Cause : p[2] \in has[p[1]] \ hasnot[p[1]]}}
<1>1. /\ after[s] = keys
      /\ \A x \in Session : x # s => after[x] = notices[x]
      /\ \A x \in Session : after[x] \subseteq Cause /\ notices[x] \subseteq Cause
  OBVIOUS
<1>2. Told(after) = SetToSeq(Of("retracted", notices, after)) \o SetToSeq(Of("raised", after, notices))
  BY DEF Told
<1> HIDE DEF after
<1>3. Of("retracted", notices, after) = Keys("retracted", s, notices[s] \ keys)
  <2>1. ASSUME NEW p \in Session \X Cause
        PROVE  p[2] \in notices[p[1]] \ after[p[1]] <=> p[1] = s /\ p[2] \in notices[s] \ keys
    BY <1>1
  <2>2. ASSUME NEW m \in Of("retracted", notices, after)
        PROVE  m \in Keys("retracted", s, notices[s] \ keys)
    <3>1. PICK p \in Session \X Cause :
             p[2] \in notices[p[1]] \ after[p[1]] /\ m = Msg("retracted", p[1], p[2])
      BY <2>2
    <3>2. p[1] = s /\ p[2] \in notices[s] \ keys
      BY <2>1, <3>1
    <3> QED
      BY <3>1, <3>2 DEF Keys
  <2>3. ASSUME NEW k \in notices[s] \ keys
        PROVE  Msg("retracted", s, k) \in Of("retracted", notices, after)
    <3> DEFINE p == <<s, k>>
    <3>1. p \in Session \X Cause /\ p[1] = s /\ p[2] = k
      BY <1>1, <2>3
    <3>2. p[2] \in notices[p[1]] \ after[p[1]]
      BY <2>1, <2>3, <3>1
    <3> QED
      BY <3>1, <3>2
  <2> QED
    BY <2>2, <2>3 DEF Keys
<1>4. Of("raised", after, notices) = Keys("raised", s, keys \ notices[s])
  <2>1. ASSUME NEW p \in Session \X Cause
        PROVE  p[2] \in after[p[1]] \ notices[p[1]] <=> p[1] = s /\ p[2] \in keys \ notices[s]
    BY <1>1
  <2>2. ASSUME NEW m \in Of("raised", after, notices)
        PROVE  m \in Keys("raised", s, keys \ notices[s])
    <3>1. PICK p \in Session \X Cause :
             p[2] \in after[p[1]] \ notices[p[1]] /\ m = Msg("raised", p[1], p[2])
      BY <2>2
    <3>2. p[1] = s /\ p[2] \in keys \ notices[s]
      BY <2>1, <3>1
    <3> QED
      BY <3>1, <3>2 DEF Keys
  <2>3. ASSUME NEW k \in keys \ notices[s]
        PROVE  Msg("raised", s, k) \in Of("raised", after, notices)
    <3> DEFINE p == <<s, k>>
    <3>1. p \in Session \X Cause /\ p[1] = s /\ p[2] = k
      BY <1>1, <2>3
    <3>2. p[2] \in after[p[1]] \ notices[p[1]]
      BY <2>1, <2>3, <3>1
    <3> QED
      BY <3>1, <3>2
  <2> QED
    BY <2>2, <2>3 DEF Keys
<1> QED
  BY <1>2, <1>3, <1>4 DEF after

LEMMA SeqMore == ASSUME NEW S, NEW T, S \subseteq T, NEW q \in Seq(S) PROVE q \in Seq(T)
OBVIOUS

LEMMA InJoin ==
    ASSUME NEW M, NEW a \in Seq(M), NEW b \in Seq(M), NEW Q
    PROVE  In(Q, a \o b) <=> In(Q, a) \/ In(Q, b)
<1> DEFINE r == a \o b
           n == Len(a)
           p == Len(b)
<1>1. /\ n \in Nat /\ p \in Nat /\ DOMAIN a = 1..n /\ DOMAIN b = 1..p /\ DOMAIN r = 1..(n + p)
      /\ \A k \in 1..n : r[k] = a[k]
      /\ \A k \in 1..p : r[n + k] = b[k]
  <2>1. n \in Nat /\ p \in Nat /\ DOMAIN a = 1..n /\ DOMAIN b = 1..p /\ DOMAIN r = 1..(n + p)
    BY Joined
  <2>2. \A k \in 1..n : r[k] = a[k]
    BY Joined
  <2>3. \A k \in 1..p : r[n + k] = b[k]
    BY Joined
  <2> QED
    BY <2>1, <2>2, <2>3
<1> HIDE DEF r, n, p
<1>2. \A k \in 1..n : k \in 1..(n + p)
  BY <1>1
<1>3. \A k \in 1..p : n + k \in 1..(n + p)
  BY <1>1
<1>4. \A k \in 1..(n + p) : k \in 1..n \/ (k - n \in 1..p /\ n + (k - n) = k)
  BY <1>1
<1>5. In(Q, a) => In(Q, r)
  BY <1>1, <1>2 DEF In
<1>6. ASSUME In(Q, b) PROVE In(Q, r)
  <2>1. PICK k \in 1..p : b[k] \in Q
    BY <1>1, <1>6 DEF In
  <2>2. n + k \in 1..(n + p) /\ r[n + k] \in Q
    BY <1>1, <1>3, <2>1
  <2> QED
    BY <1>1, <2>2 DEF In
<1>7. ASSUME In(Q, r) PROVE In(Q, a) \/ In(Q, b)
  <2>1. PICK k \in 1..(n + p) : r[k] \in Q
    BY <1>1, <1>7 DEF In
  <2>2. CASE k \in 1..n
    BY <1>1, <2>1, <2>2 DEF In
  <2>3. CASE k - n \in 1..p /\ n + (k - n) = k
    <3>1. b[k - n] = r[n + (k - n)]
      BY <1>1, <2>3
    <3>2. b[k - n] \in Q
      BY <2>1, <2>3, <3>1
    <3> QED
      BY <1>1, <2>3, <3>2 DEF In
  <2> QED
    BY <1>4, <2>2, <2>3
<1> QED
  BY <1>5, <1>6, <1>7 DEF r

LEMMA InOne == ASSUME NEW m, NEW Q PROVE In(Q, <<m>>) <=> m \in Q
<1>1. DOMAIN <<m>> = {1} /\ <<m>>[1] = m
  OBVIOUS
<1> QED
  BY <1>1 DEF In

LEMMA RightEnds == ASSUME NEW q, NEW Q, NEW V, ~In(Q \ V, q) PROVE Ends(Q, V, q)
BY DEF In, Ends

LEMMA InSequenceOf ==
    ASSUME NEW S, IsFiniteSet(S), NEW Q
    PROVE  SetToSeq(S) \in Seq(S) /\ (In(Q, SetToSeq(S)) <=> S \cap Q # {})
<1> DEFINE q == SetToSeq(S)
<1>1. q \in Seq(S) /\ \A x \in S : \E i \in DOMAIN q : q[i] = x
  BY SequenceOf
<1> HIDE DEF q
<1>2. \A i \in DOMAIN q : q[i] \in S
  BY <1>1
<1>3. In(Q, q) <=> S \cap Q # {}
  BY <1>1, <1>2 DEF In
<1> QED
  BY <1>1, <1>3 DEF q

LEMMA ToldIs ==
    ASSUME NEW s \in Session, NEW keys \in SUBSET Cause, notices \in [Session -> SUBSET Cause]
    PROVE  /\ Told([notices EXCEPT ![s] = keys]) \in Seq(Message)
           /\ \A Q : In(Q, Told([notices EXCEPT ![s] = keys])) <=>
                 \/ \E k \in notices[s] \ keys : Msg("retracted", s, k) \in Q
                 \/ \E k \in keys \ notices[s] : Msg("raised", s, k) \in Q
<1> DEFINE old == notices[s] \ keys
           new == keys \ notices[s]
           a == SetToSeq(Keys("retracted", s, old))
           b == SetToSeq(Keys("raised", s, new))
           told == Told([notices EXCEPT ![s] = keys])
<1>1. old \in SUBSET Cause /\ new \in SUBSET Cause
  OBVIOUS
<1>2. told = a \o b
  BY ToldAre
<1> HIDE DEF old, new, told
<1>3. IsFiniteSet(Keys("retracted", s, old)) /\ IsFiniteSet(Keys("raised", s, new))
  BY <1>1, KeysAreFinite
<1>4. Keys("retracted", s, old) \subseteq Message /\ Keys("raised", s, new) \subseteq Message
  BY <1>1, MessageIs DEF Keys
<1>5. a \in Seq(Keys("retracted", s, old)) /\ b \in Seq(Keys("raised", s, new))
  BY <1>3, InSequenceOf
<1>6. \A Q : /\ In(Q, a) <=> Keys("retracted", s, old) \cap Q # {}
             /\ In(Q, b) <=> Keys("raised", s, new) \cap Q # {}
  BY <1>3, InSequenceOf
<1> HIDE DEF a, b
<1>7. a \in Seq(Message) /\ b \in Seq(Message)
  BY <1>4, <1>5, SeqMore
<1>8. told \in Seq(Message)
  BY <1>2, <1>7, Joined
<1>9. ASSUME NEW Q
      PROVE  In(Q, told) <=> \/ \E k \in old : Msg("retracted", s, k) \in Q
                             \/ \E k \in new : Msg("raised", s, k) \in Q
  <2>1. In(Q, told) <=> In(Q, a) \/ In(Q, b)
    BY <1>2, <1>7, InJoin
  <2>2. In(Q, a) <=> \E k \in old : Msg("retracted", s, k) \in Q
    BY <1>6 DEF Keys
  <2>3. In(Q, b) <=> \E k \in new : Msg("raised", s, k) \in Q
    BY <1>6 DEF Keys
  <2> QED
    BY <2>1, <2>2, <2>3
<1> QED
  BY <1>8, <1>9 DEF told, old, new

-----------------------------------------------------------------------------
(* Types.                                                                  *)

Loading == page \in {"asked", "answered"}
Shape ==
    /\ TypeOK
    /\ out \in Batches(Message)
    /\ \A j \in DOMAIN buffer : buffer[j].kind \in OfRows
    /\ ~Loading => buffer = <<>>
    /\ mends # {} => page = "answered"
    /\ shell = "asks" => badge = {}

LEMMA BatchType ==
    ASSUME Shape, NEW b \in Seq(Message), Sends(b)
    PROVE  /\ out' \in Batches(Message) /\ out' \in Seq(Seq(Message))
           /\ out' = out \/ out' = Append(out, b)
<1>1. out \in Seq(Seq(Message)) /\ \A j \in DOMAIN out : out[j] # <<>>
  BY DEF Shape, Batches
<1>2. CASE b = <<>>
  BY <1>1, <1>2 DEF Sends, Shape, Batches
<1>3. CASE b # <<>>
  <2>1. out' = Append(out, b)
    BY <1>3 DEF Sends
  <2>2. /\ Len(out) \in Nat /\ DOMAIN out = 1..Len(out)
        /\ out' \in Seq(Seq(Message)) /\ DOMAIN out' = 1..(Len(out) + 1)
        /\ \A k \in 1..Len(out) : out'[k] = out[k]
        /\ out'[Len(out) + 1] = b
    BY <1>1, <2>1, Appended
  <2>3. \A k \in 1..(Len(out) + 1) : k \in 1..Len(out) \/ k = Len(out) + 1
    BY <2>2
  <2>4. \A j \in DOMAIN out' : out'[j] # <<>>
    BY <1>1, <1>3, <2>2, <2>3
  <2> QED
    BY <2>1, <2>2, <2>4 DEF Batches
<1> QED
  BY <1>2, <1>3

(* What a change of a row sends, and what of it is about whom.             *)
LEMMA ChangeSends ==
    ASSUME Shape, NEW s \in Session, NEW keys \in SUBSET Cause,
           NEW h \in Seq(Message), NEW b, b = h \o Told([notices EXCEPT ![s] = keys])
    PROVE  b \in Seq(Message)
<1>1. Told([notices EXCEPT ![s] = keys]) \in Seq(Message)
  BY ToldIs DEF Shape, TypeOK
<1>2. h \o Told([notices EXCEPT ![s] = keys]) \in Seq(Message)
  BY <1>1, Joined
<1> QED
  BY <1>2

LEMMA ChangeTells ==
    ASSUME Shape, NEW s \in Session, NEW keys \in SUBSET Cause,
           NEW h \in Seq(Message), NEW Q
    PROVE  In(Q, h \o Told([notices EXCEPT ![s] = keys])) <=>
             \/ In(Q, h)
             \/ \E k \in notices[s] \ keys : Msg("retracted", s, k) \in Q
             \/ \E k \in keys \ notices[s] : Msg("raised", s, k) \in Q
<1> DEFINE told == Told([notices EXCEPT ![s] = keys])
<1>1. notices \in [Session -> SUBSET Cause]
  BY DEF Shape, TypeOK
<1>2. told \in Seq(Message)
  BY <1>1, ToldIs
<1>4. In(Q, told) <=>
           \/ \E k \in notices[s] \ keys : Msg("retracted", s, k) \in Q
           \/ \E k \in keys \ notices[s] : Msg("raised", s, k) \in Q
  BY <1>1, ToldIs
<1> HIDE DEF told
<1>5. In(Q, h \o told) <=> In(Q, h) \/ In(Q, told)
  BY <1>2, InJoin
<1> QED
  BY <1>4, <1>5 DEF told

LEMMA SentType ==
    ASSUME Shape, NEW i \in DOMAIN out
    PROVE  /\ out \in Seq(Seq(Message)) /\ out[i] \in Seq(Message) /\ out[i] # <<>>
           /\ Head(out[i]) \in Message
           /\ AfterHead(i) = Without(out, i)
           /\ Without(out, i) \in Batches(Message) /\ Without(out, i) \in Seq(Seq(Message))
<1>1. out \in Batches(Message) /\ out \in Seq(Seq(Message)) /\ out[i] # <<>>
  BY DEF Shape, Batches
<1>2. Without(out, i) \in Batches(Message) /\ Head(out[i]) \in Message
  BY <1>1, WithoutType, WithinWithout
<1>3. Without(out, i) \in Seq(Seq(Message)) /\ out[i] \in Seq(Message)
  BY <1>1, <1>2 DEF Batches
<1> QED
  BY <1>1, <1>2, <1>3, AfterHeadIs

LEMMA ShapeInit == Init => Shape
<1> SUFFICES ASSUME Init PROVE Shape
  OBVIOUS
<1>1. <<>> \in Batches(Message) /\ <<>> \in Seq(Message) /\ <<>> \in Seq(Seq(Message))
  BY DEF Batches
<1>2. TypeOK
  BY <1>1, StreamAssumption DEF Init, TypeOK, Standing, Silence, Nobody, Shown
<1> QED
  BY <1>1, <1>2 DEF Init, Shape, Loading

(* The registry's steps leave the queue and the window alone.              *)
LEMMA RegistryShape ==
    ASSUME Shape, UNCHANGED <<channel, window, history>>,
           standing' \in [Session -> Standing], notices' \in [Session -> SUBSET Cause],
           owes' \subseteq Session, changes' \in 0 .. MaxChanges, out' \in Batches(Message)
    PROVE  Shape'
<1>1. out' \in Seq(Seq(Message))
  BY DEF Batches
<1>2. TypeOK'
  BY <1>1 DEF Shape, TypeOK, window, pageVars, history
<1> QED
  BY <1>2 DEF Shape, Loading, window, pageVars, history

LEMMA SendShape ==
    ASSUME Shape, NEW i \in DOMAIN out, Emit(i)
    PROVE  Shape'
<1> DEFINE m == Head(out[i])
<1>1. m \in Message /\ out' \in Batches(Message) /\ out' \in Seq(Seq(Message))
  BY SentType DEF Emit
<1>2. /\ channel' = channel \/ channel' = Append(channel, m)
      /\ lost' = Marked(lost, m, i) /\ stale' = Marked(stale, m, i)
      /\ mends' = mends \/ mends' = mends \ {m.session}
      /\ silent' = silent \/ silent' = silent \cup {m.session}
      /\ UNCHANGED <<registry, owes, window>>
  BY DEF Emit
<1> HIDE DEF m
<1>3. m.session \in Session
  BY <1>1, MessageIs
<1>4. channel \in Seq(Message) /\ {lost, stale, mends, silent} \subseteq SUBSET Session
  BY DEF Shape, TypeOK
<1>5. channel' \in Seq(Message)
  BY <1>1, <1>2, <1>4
<1>6. lost' \subseteq Session /\ stale' \subseteq Session
  BY <1>2, <1>3, <1>4 DEF Marked
<1>7. mends' \subseteq Session /\ silent' \subseteq Session /\ (mends # {} \/ mends' = {})
  BY <1>2, <1>3, <1>4
<1>8. TypeOK'
  BY <1>1, <1>2, <1>5, <1>6, <1>7 DEF Shape, TypeOK, registry, window, pageVars
<1> QED
  BY <1>1, <1>2, <1>7, <1>8 DEF Shape, Loading, window, pageVars

LEMMA DeliverShape ==
    ASSUME Shape, Deliver
    PROVE  Shape'
<1> DEFINE m == Head(channel)
<1>1. /\ channel # <<>> /\ channel' = Tail(channel)
      /\ shell = "follows" /\ badge' = Counted(m)
      /\ shows' = shows \/ (m.kind \in OfRows /\ shows' = ApplyRow(shows, m))
      /\ toasts' = toasts \/ toasts' = ApplyToasts(m)
      /\ buffer' = buffer \/ (Loading /\ m.kind \in OfRows /\ buffer' = Append(buffer, m))
      /\ stale' = stale \/ stale' = stale \cup {m.session}
      /\ silent' = silent \/ silent' = silent \cup {m.session}
      /\ UNCHANGED <<registry, owes, out, shell, page, answer, opens, lost, mends>>
  <2>1. /\ channel # <<>> /\ channel' = Tail(channel)
        /\ shell = "follows" /\ badge' = Counted(m)
        /\ UNCHANGED <<registry, owes, out, shell, page, answer, opens, lost, mends>>
    BY DEF Deliver
  <2>2. shows' = shows \/ (m.kind \in OfRows /\ shows' = ApplyRow(shows, m))
    <3>1. shows' = IF page # "deaf" /\ m.kind \in OfRows THEN ApplyRow(shows, m) ELSE shows
      BY DEF Deliver
    <3> HIDE DEF m
    <3> QED
      BY <3>1
  <2>3. toasts' = toasts \/ toasts' = ApplyToasts(m)
    BY DEF Deliver
  <2>4. buffer' = buffer \/ (Loading /\ m.kind \in OfRows /\ buffer' = Append(buffer, m))
    <3>1. buffer' = IF Loading /\ m.kind \in OfRows THEN Append(buffer, m) ELSE buffer
      BY DEF Deliver, Loading
    <3> HIDE DEF m
    <3> QED
      BY <3>1
  <2>5. stale' = stale \/ stale' = stale \cup {m.session}
    BY DEF Deliver
  <2>6. silent' = silent \/ silent' = silent \cup {m.session}
    BY DEF Deliver
  <2> QED
    BY <2>1, <2>2, <2>3, <2>4, <2>5, <2>6
<1>2. channel \in Seq(Message) /\ buffer \in Seq(Message) /\ badge \subseteq Session
      /\ shows \in [Session -> Shown] /\ toasts \in [Session -> SUBSET Cause]
      /\ stale \subseteq Session /\ silent \subseteq Session
  BY DEF Shape, TypeOK
<1>3. m \in Message /\ channel' \in Seq(Message)
  BY <1>1, <1>2, Tailed
<1> HIDE DEF m
<1>4. /\ m.session \in Session
      /\ m.kind \in OfRows => m.what \in Shown
      /\ m.kind \in OfNotices => m.what \in Cause
  BY <1>3, MessageIs DEF OfRows, Shown, Present
<1>5. badge' \subseteq Session
  BY <1>1, <1>2, <1>3, <1>4, MessageIs DEF Counted
<1>6. shows' \in [Session -> Shown]
  BY <1>1, <1>2, <1>4 DEF ApplyRow
<1>7. toasts' \in [Session -> SUBSET Cause]
  <2>1. m.kind \in {"row", "gone", "raised", "retracted"}
    BY <1>3 DEF Message
  <2>2. CASE m.kind \in OfRows
    BY <1>1, <1>2, <1>4, <2>2 DEF ApplyToasts, OfRows
  <2>3. CASE m.kind \in OfNotices
    <3>1. m.what \in Cause
      BY <1>4, <2>3
    <3>2. CASE m.kind = "raised"
      <4>1. ApplyToasts(m) = [toasts EXCEPT ![m.session] = @ \cup {m.what}]
        BY <3>2 DEF ApplyToasts
      <4> QED
        BY <1>1, <1>2, <1>4, <3>1, <4>1
    <3>3. CASE m.kind = "retracted"
      <4>1. ApplyToasts(m) = [toasts EXCEPT ![m.session] = @ \ {m.what}]
        BY <3>3 DEF ApplyToasts
      <4> QED
        BY <1>1, <1>2, <1>4, <3>1, <4>1
    <3> QED
      BY <2>3, <3>2, <3>3 DEF OfNotices
  <2> QED
    BY <2>1, <2>2, <2>3 DEF OfRows, OfNotices
<1>8. buffer' \in Seq(Message) /\ \A j \in DOMAIN buffer' : buffer'[j].kind \in OfRows
  <2>1. \A j \in DOMAIN buffer : buffer[j].kind \in OfRows
    BY DEF Shape
  <2>2. CASE buffer' = buffer
    BY <1>2, <2>1, <2>2
  <2>3. CASE m.kind \in OfRows /\ buffer' = Append(buffer, m)
    <3>1. /\ Len(buffer) \in Nat /\ DOMAIN buffer = 1..Len(buffer)
          /\ buffer' \in Seq(Message) /\ DOMAIN buffer' = 1..(Len(buffer) + 1)
          /\ \A k \in 1..Len(buffer) : buffer'[k] = buffer[k]
          /\ buffer'[Len(buffer) + 1] = m
      BY <1>2, <1>3, <2>3, Appended
    <3>2. \A k \in 1..(Len(buffer) + 1) : k \in 1..Len(buffer) \/ k = Len(buffer) + 1
      BY <3>1
    <3> QED
      BY <2>1, <2>3, <3>1, <3>2
  <2> QED
    BY <1>1, <2>2, <2>3
<1>9. stale' \subseteq Session /\ silent' \subseteq Session
  BY <1>1, <1>2, <1>4
<1>10. TypeOK'
  BY <1>1, <1>3, <1>5, <1>6, <1>7, <1>8, <1>9 DEF Shape, TypeOK, registry
<1>11. ~Loading' => buffer' = <<>>
  BY <1>1 DEF Shape, Loading
<1> QED
  BY <1>1, <1>8, <1>10, <1>11 DEF Shape

LEMMA MaxIs ==
    ASSUME NEW n \in Nat, NEW I, I \subseteq 1..n, I # {}
    PROVE  Max(I) \in I /\ \A y \in I : y <= Max(I)
<1> DEFINE R == {ss \in Nat \X Nat : ss[1] < ss[2]}
           U == {u \in 0..n : n - u \in I}
<1>1. IsWellFoundedOn(R, Nat)
  BY NatLessThanWellFounded DEF OpToRel
<1>2. \A x, y \in Nat : x < y => <<x, y>> \in R
  OBVIOUS
<1> HIDE DEF R
<1>3. \A i \in I : n - i \in U /\ n - (n - i) = i /\ i \in Int
  OBVIOUS
<1>4. U # {} /\ U \subseteq Nat
  <2>1. U \subseteq Nat
    OBVIOUS
  <2>2. PICK i \in I : TRUE
    OBVIOUS
  <2>3. n - i \in U
    BY <1>3
  <2> HIDE DEF U
  <2> QED
    BY <2>1, <2>3
<1>5. PICK u \in U : \A y \in U : ~(<<y, u>> \in R)
  BY <1>1, <1>4, WFMin
<1>6. u \in Nat /\ \A y \in U : y \in Nat /\ u <= y
  <2>1. u \in Nat /\ \A y \in U : y \in Nat /\ ~(y < u)
    BY <1>2, <1>4, <1>5
  <2> QED
    BY <2>1
<1>7. n - u \in I
  OBVIOUS
<1> HIDE DEF U
<1>8. \A y \in I : n - u >= y
  <2> SUFFICES ASSUME NEW y \in I PROVE n - u >= y
    OBVIOUS
  <2>1. u <= n - y /\ y \in Int
    BY <1>3, <1>6
  <2> QED
    BY <1>6, <2>1
<1>9. Max(I) \in I /\ \A y \in I : Max(I) >= y
  BY <1>7, <1>8 DEF Max
<1>10. \A y \in I : y \in 1..n
  OBVIOUS
<1>11. Max(I) \in 1..n
  BY <1>9, <1>10
<1> SUFFICES ASSUME NEW y \in I PROVE y <= Max(I)
  BY <1>9
<1>12. y \in 1..n /\ Max(I) >= y
  BY <1>9, <1>10
<1> QED
  BY <1>11, <1>12

(* What the page makes of a snapshot: the last event it kept of a row, or  *)
(* the snapshot's word.                                                    *)
LEMMA ReconciledIs ==
    ASSUME Shape, NEW s \in Session
    PROVE  \/ ~In(Rows(s), buffer) /\ Reconciled[s] = answer[s]
           \/ \E k \in DOMAIN buffer :
                 /\ buffer[k] \in Rows(s) /\ Reconciled[s] = buffer[k].what
                 /\ \A l \in DOMAIN buffer : k < l => buffer[l] \notin Rows(s)
<1> DEFINE I == {k \in 1..Len(buffer) : buffer[k].session = s}
<1>1. /\ buffer \in Seq(Message) /\ Len(buffer) \in Nat /\ DOMAIN buffer = 1..Len(buffer)
      /\ \A k \in DOMAIN buffer : buffer[k] \in Message /\ buffer[k].kind \in OfRows
  BY DEF Shape, TypeOK
<1>2. \A k \in DOMAIN buffer : buffer[k] \in Rows(s) <=> k \in I
  BY <1>1 DEF Rows
<1>3. Reconciled[s] = LET last == IF I # {} THEN Max(I) ELSE 0
                      IN IF last = 0 THEN answer[s] ELSE buffer[last].what
  BY DEF Reconciled, SelectLastInSeq
<1>4. I \subseteq 1..Len(buffer)
  OBVIOUS
<1> HIDE DEF I
<1>5. CASE I = {}
  <2>1. Reconciled[s] = answer[s]
    BY <1>3, <1>5
  <2>2. ~In(Rows(s), buffer)
    BY <1>2, <1>5 DEF In
  <2> QED
    BY <2>1, <2>2
<1>6. CASE I # {}
  <2>1. Max(I) \in I /\ \A y \in I : y <= Max(I)
    BY <1>1, <1>4, <1>6, MaxIs
  <2>2. PICK k \in 1..Len(buffer) : k \in I /\ k = Max(I)
    BY <1>4, <2>1
  <2>3. k # 0 /\ Reconciled[s] = buffer[k].what
    BY <1>1, <1>3, <1>6, <2>2
  <2>4. \A l \in DOMAIN buffer : k < l => l \notin I
    BY <1>1, <2>1, <2>2
  <2> QED
    BY <1>1, <1>2, <2>2, <2>3, <2>4
<1> QED
  BY <1>5, <1>6

LEMMA PageShape ==
    ASSUME Shape, Page \/ Reopen \/ ShellFollows
    PROVE  Shape'
<1>1. <<>> \in Seq(Message)
  OBVIOUS
<1>2. \A s \in Session : AsShown(standing[s]) \in Shown
  BY DEF AsShown, Shown
<1>3. CASE LoadSnapshot
  BY <1>1, <1>3 DEF LoadSnapshot, Shape, TypeOK, Loading, registry, history
<1>4. CASE TakeSnapshot
  BY <1>2, <1>4 DEF TakeSnapshot, Shape, TypeOK, Loading, registry
<1>5. CASE SnapshotFails
  BY <1>1, <1>5 DEF SnapshotFails, Shape, TypeOK, Loading, registry, Nobody, Shown
<1>6. CASE SnapshotArrives
  <2>1. \A s \in Session : Reconciled[s] \in Shown
    <3> SUFFICES ASSUME NEW s \in Session PROVE Reconciled[s] \in Shown
      OBVIOUS
    <3>1. answer[s] \in Shown
      BY DEF Shape, TypeOK
    <3>2. \A k \in DOMAIN buffer : buffer[k] \in Message /\ buffer[k].kind \in OfRows
      BY DEF Shape, TypeOK
    <3>3. \A k \in DOMAIN buffer : buffer[k].what \in Shown
      BY <3>2, MessageIs DEF OfRows, Shown
    <3> QED
      BY <3>1, <3>3, ReconciledIs
  <2>2. Reconciled \in [Session -> Shown]
    BY <2>1 DEF Reconciled
  <2>3. toasts' \in [Session -> SUBSET Cause]
    BY <1>6 DEF SnapshotArrives, Shape, TypeOK
  <2>4. TypeOK'
    BY <1>1, <1>6, <2>2, <2>3 DEF SnapshotArrives, Shape, TypeOK, registry,
       Nobody, Shown
  <2> QED
    BY <1>6, <2>4 DEF SnapshotArrives, Shape, Loading
<1>7. CASE Reopen
  <2>1. toasts' \in [Session -> SUBSET Cause] /\ opens' \in 0 .. MaxOpens
    BY <1>7, StreamAssumption DEF Reopen, Shape, TypeOK
  <2>2. TypeOK'
    BY <1>1, <1>7, <2>1 DEF Reopen, Shape, TypeOK, registry, Nobody, Shown
  <2> QED
    BY <1>7, <2>2 DEF Reopen, Shape, Loading
<1>8. CASE ShellFollows
  BY <1>8 DEF ShellFollows, Waiting, Shape, TypeOK, Loading, registry, pageVars
<1> QED
  BY <1>3, <1>4, <1>5, <1>6, <1>7, <1>8 DEF Page

(* The types and bounds of the stream, and the shape of what is on its     *)
(* way, are kept by every step.                                            *)
LEMMA ShapeNext == ASSUME Shape, [Next]_vars PROVE Shape'
<1>0. /\ standing \in [Session -> Standing] /\ notices \in [Session -> SUBSET Cause]
      /\ owes \subseteq Session /\ changes \in 0 .. MaxChanges /\ out \in Batches(Message)
      /\ Present \subseteq Standing /\ {"gone", "unborn"} \subseteq Standing
  BY DEF Shape, TypeOK, Standing
<1>1. Happens => changes' \in 0 .. MaxChanges
  BY <1>0, StreamAssumption DEF Happens
<1>2. ASSUME NEW s \in Session, Registry(s) PROVE Shape'
  <2>1. ASSUME Launch(s) PROVE Shape'
    BY <1>0, <1>1, <2>1, RegistryShape DEF Launch, Present, Standing
  <2>2. ASSUME NEW v \in Present, Touch(s, v) PROVE Shape'
    BY <1>0, <1>1, <2>2, RegistryShape DEF Touch
  <2>3. ASSUME EmitSession(s) PROVE Shape'
    <3>1. CASE standing[s] \in Present
      <4>1. <<Msg("row", s, standing[s])>> \in Seq(Message)
        BY <3>1, MessageIs
      <4>2. out' \in Batches(Message)
        BY <2>3, <3>1, <4>1, BatchType DEF EmitSession
      <4> QED
        BY <1>0, <2>3, <4>2, RegistryShape DEF EmitSession, registry
    <3>2. CASE standing[s] \notin Present
      BY <1>0, <2>3, <3>2, RegistryShape DEF EmitSession, registry
    <3> QED
      BY <3>1, <3>2
  <2>4. ASSUME RemoveRow(s) PROVE Shape'
    <3> DEFINE b == <<Msg("gone", s, "none")>> \o Told([notices EXCEPT ![s] = {}])
    <3>1. <<Msg("gone", s, "none")>> \in Seq(Message) /\ {} \in SUBSET Cause
      BY MessageIs
    <3>2. b \in Seq(Message)
      BY <3>1, ChangeSends
    <3>3. Sends(b)
      BY <2>4 DEF RemoveRow
    <3>4. out' \in Batches(Message)
      BY <3>2, <3>3, BatchType
    <3>5. standing' \in [Session -> Standing] /\ notices' \in [Session -> SUBSET Cause]
      BY <1>0, <2>4 DEF RemoveRow
    <3> QED
      BY <1>0, <1>1, <2>4, <3>4, <3>5, RegistryShape DEF RemoveRow
  <2>5. ASSUME NEW v \in Present, NEW keys \in SUBSET Cause, Change(s, v, keys) PROVE Shape'
    <3> DEFINE b == <<Msg("row", s, v)>> \o Told([notices EXCEPT ![s] = keys])
    <3>1. <<Msg("row", s, v)>> \in Seq(Message)
      BY MessageIs
    <3>2. b \in Seq(Message)
      BY <3>1, ChangeSends
    <3>3. Sends(b)
      BY <2>5 DEF Change
    <3>4. out' \in Batches(Message)
      BY <3>2, <3>3, BatchType
    <3>5. standing' \in [Session -> Standing] /\ notices' \in [Session -> SUBSET Cause]
      BY <1>0, <2>5 DEF Change
    <3> QED
      BY <1>0, <1>1, <2>5, <3>4, <3>5, RegistryShape DEF Change
  <2>6. ASSUME NEW keys \in SUBSET Cause, Recheck(s, keys) PROVE Shape'
    <3> DEFINE b == Told([notices EXCEPT ![s] = keys])
    <3>1. b \in Seq(Message)
      BY <1>0, ToldIs
    <3>2. Sends(b)
      BY <2>6 DEF Recheck
    <3>3. out' \in Batches(Message)
      BY <3>1, <3>2, BatchType
    <3>4. notices' \in [Session -> SUBSET Cause]
      BY <1>0, <2>6 DEF Recheck
    <3> QED
      BY <1>0, <1>1, <2>6, <3>3, <3>4, RegistryShape DEF Recheck
  <2> QED
    BY <1>2, <2>1, <2>2, <2>3, <2>4, <2>5, <2>6 DEF Registry
<1>3. ASSUME Sender PROVE Shape'
  BY <1>3, SendShape DEF Sender
<1>4. ASSUME UNCHANGED vars PROVE Shape'
  BY <1>4 DEF vars, registry, window, pageVars, history, Shape, TypeOK, Loading
<1> QED
  BY <1>2, <1>3, <1>4, DeliverShape, PageShape DEF Next

-----------------------------------------------------------------------------
(* The invariant.                                                          *)

(* A thread is about to look at the row again; or the last event of it on  *)
(* its way is right, if there is one.                                      *)
Owed(s) == s \in owes /\ standing[s] \in Present
Towards(s) == Tells(Rows(s), True(s), out, channel)
Coming(s) == Word(Rows(s), out, channel)

(* The badge is right of the session, or is still to be asked for.         *)
Counts(s) == shell = "asks" \/ (s \in badge) = (standing[s] = "waiting")
BadgeInv(s) == s \notin lost => Owed(s) \/ (Towards(s) /\ (Coming(s) \/ Counts(s)))

ShowsIt(s) == shows[s] = AsShown(standing[s])
ShowsInv(s) == s \notin stale => Owed(s) \/ (Towards(s) /\ (Coming(s) \/ ShowsIt(s)))

(* The snapshot and the events kept since will make the row right.         *)
WillShow(s) ==
    /\ Ends(Rows(s), True(s), buffer)
    /\ In(Rows(s), buffer) \/ answer[s] = AsShown(standing[s])
MendsInv(s) == s \in mends => Owed(s) \/ (Towards(s) /\ (Coming(s) \/ WillShow(s)))

(* What the page kept it has also shown; and of a row that it shows right  *)
(* and the snapshot does not, it has kept an event or there is one coming. *)
Showing(s) == {m \in Message : m.what = shows[s]}
KeptInv(s) ==
    /\ Ends(Rows(s), Showing(s), buffer)
    /\ page = "answered" /\ s \notin stale /\ s \notin mends =>
           Coming(s) \/ In(Rows(s), buffer)

(* The same of each notice and its toast.                                  *)
ToastIs(s, k) ==
    /\ k \in toasts[s] => k \in notices[s]
    /\ opens = 0 /\ k \in notices[s] => k \in toasts[s]
ToastInv(s, k) ==
    s \notin silent =>
        /\ Tells(Notices(s, k), Right(s, k), out, channel)
        /\ Word(Notices(s, k), out, channel) \/ ToastIs(s, k)

(* A row's end is the last of it.                                          *)
EndedInv(s) ==
    /\ standing[s] \notin Present => notices[s] = {}
    /\ Word(Ended(s), out, channel) \/ In(Ended(s), buffer) => standing[s] = "gone"

RowInv(s) == BadgeInv(s) /\ ShowsInv(s) /\ MendsInv(s) /\ KeptInv(s)
NoticeInv(s) == EndedInv(s) /\ \A k \in Cause : ToastInv(s, k)
IInv == Shape /\ \A s \in Session : RowInv(s) /\ NoticeInv(s)

LEMMA InvInit == Init => IInv
<1> SUFFICES ASSUME Init PROVE IInv
  OBVIOUS
<1>1. \A Q : ~In(Q, <<>>) /\ ~Within(Q, <<>>)
  BY DEF In, Within
<1>2. \A Q, V : Ends(Q, V, <<>>) /\ EndsLast(Q, V, <<>>)
  BY DEF Ends, EndsLast
<1>3. ASSUME NEW s \in Session PROVE RowInv(s)
  <2>1. shows[s] = "none" /\ AsShown(standing[s]) = "none" /\ s \notin badge /\ standing[s] = "unborn"
    BY DEF Init, Nobody, AsShown, Present
  <2>2. Towards(s)
    BY <1>2 DEF Init, Towards, Tells
  <2> QED
    BY <1>2, <2>1, <2>2
       DEF Init, RowInv, BadgeInv, ShowsInv, MendsInv, KeptInv, Counts, ShowsIt
<1>4. ASSUME NEW s \in Session PROVE NoticeInv(s)
  BY <1>1, <1>2 DEF Init, NoticeInv, EndedInv, ToastInv, ToastIs, Tells, Word,
     Silence
<1> QED
  BY <1>3, <1>4, ShapeInit DEF IInv

-----------------------------------------------------------------------------
(* The registry's steps.                                                   *)

LEMMA BatchSent ==
    ASSUME Shape, NEW b \in Seq(Message), Sends(b), channel' = channel, NEW Q, NEW V
    PROVE  /\ ~In(Q, b) /\ Tells(Q, V, out, channel) => Tells(Q, V, out', channel')
           /\ ~In(Q, b) /\ Word(Q, out', channel') => Word(Q, out, channel)
           /\ Word(Q, out, channel) => Word(Q, out', channel')
           /\ In(Q, b) /\ Ends(Q, V, b) =>
                  Tells(Q, V, out', channel') /\ Word(Q, out', channel')
<1>1. out \in Seq(Seq(Message))
  BY DEF Shape, TypeOK
<1>2. CASE b = <<>>
  <2>1. out' = out
    BY <1>2 DEF Sends
  <2>2. ~In(Q, b)
    BY <1>2 DEF In
  <2> QED
    BY <2>1, <2>2
<1>3. CASE b # <<>>
  <2>1. out' = Append(out, b)
    BY <1>3 DEF Sends
  <2>2. ASSUME ~In(Q, b)
        PROVE  /\ Tells(Q, V, out, channel) => Tells(Q, V, Append(out, b), channel)
               /\ Word(Q, out, channel) <=> Word(Q, Append(out, b), channel)
    BY <1>1, <2>2, QuietBatch
  <2>3. ASSUME In(Q, b), Ends(Q, V, b)
        PROVE  Tells(Q, V, Append(out, b), channel) /\ Word(Q, Append(out, b), channel)
    BY <1>1, <2>3, TellingBatch
  <2>4. Word(Q, out, channel) => Word(Q, Append(out, b), channel)
    BY <1>1, WithinAppend DEF Word
  <2> QED
    BY <2>1, <2>2, <2>3, <2>4
<1> QED
  BY <1>2, <1>3

(* A batch starts with the events of H about a row.                        *)
Heads(s, h, H) == H \subseteq Rows(s) /\ \A Q : In(Q, h) <=> H \cap Q # {}

(* What a batch is about: the rows of H, and the keys that change.         *)
Announces(s, keys, H, b) ==
    /\ b \in Seq(Message)
    /\ \A x \in Session \ {s} :
          /\ ~In(Rows(x), b) /\ ~In(Ended(x), b)
          /\ \A k : ~In(Notices(x, k), b)
    /\ H = {} => ~In(Rows(s), b)
    /\ H # {} => In(Rows(s), b)
    /\ \A V : H \subseteq V => Ends(Rows(s), V, b)
    /\ In(Ended(s), b) => \E m \in H : m.kind = "gone"
    /\ \A k \in Cause : (k \in keys) = (k \in notices[s]) => ~In(Notices(s, k), b)
    /\ \A k \in Cause : (k \in keys) # (k \in notices[s]) =>
          In(Notices(s, k), b) /\ Ends(Notices(s, k), RightOf(k, keys), b)

LEMMA BatchAbout ==
    ASSUME Shape, NEW s \in Session, NEW keys \in SUBSET Cause,
           NEW h \in Seq(Message), NEW H, Heads(s, h, H),
           NEW b, b = h \o Told([notices EXCEPT ![s] = keys])
    PROVE  Announces(s, keys, H, b)
<1>1. b \in Seq(Message)
  BY ChangeSends
<1>2. ASSUME NEW Q
      PROVE  In(Q, b) <=>
                \/ \E m \in H : m \in Q
                \/ \E k \in notices[s] \ keys : Msg("retracted", s, k) \in Q
                \/ \E k \in keys \ notices[s] : Msg("raised", s, k) \in Q
  <2>1. In(Q, b) <=>
            \/ In(Q, h)
            \/ \E k \in notices[s] \ keys : Msg("retracted", s, k) \in Q
            \/ \E k \in keys \ notices[s] : Msg("raised", s, k) \in Q
    <3>1. In(Q, h \o Told([notices EXCEPT ![s] = keys])) <=>
            \/ In(Q, h)
            \/ \E k \in notices[s] \ keys : Msg("retracted", s, k) \in Q
            \/ \E k \in keys \ notices[s] : Msg("raised", s, k) \in Q
      BY ChangeTells
    <3> QED
      BY <3>1
  <2>2. In(Q, h) <=> \E m \in H : m \in Q
    <3>1. In(Q, h) <=> H \cap Q # {}
      BY DEF Heads
    <3> QED
      BY <3>1
  <2> QED
    BY <2>1, <2>2
<1>3. notices[s] \subseteq Cause
  BY DEF Shape, TypeOK
<1>4. \A k \in Cause :
         /\ Msg("retracted", s, k) \in Message /\ Msg("raised", s, k) \in Message
         /\ Msg("retracted", s, k).kind = "retracted" /\ Msg("raised", s, k).kind = "raised"
         /\ Msg("retracted", s, k).session = s /\ Msg("raised", s, k).session = s
         /\ Msg("retracted", s, k).what = k /\ Msg("raised", s, k).what = k
  BY MessageIs DEF Msg
<1>5. \A m \in H : m \in Message /\ m.session = s /\ m.kind \in OfRows
  BY DEF Heads, Rows
<1>6. ASSUME NEW x \in Session \ {s}
      PROVE  /\ ~In(Rows(x), b) /\ ~In(Ended(x), b)
             /\ \A k : ~In(Notices(x, k), b)
  <2>1. \A m \in Message : m.session = s =>
            m \notin Rows(x) /\ m \notin Ended(x) /\ \A k : m \notin Notices(x, k)
    BY <1>6 DEF Rows, Ended, Notices
  <2>2. ASSUME NEW Q, \A m \in Message : m.session = s => m \notin Q PROVE ~In(Q, b)
    <3>1. (\A m \in H : m \notin Q)
          /\ \A k \in Cause : Msg("retracted", s, k) \notin Q /\ Msg("raised", s, k) \notin Q
      BY <1>4, <1>5, <2>2
    <3> QED
      BY <1>2, <1>3, <3>1
  <2> QED
    BY <2>1, <2>2
<1>7. \A k \in Cause : Msg("retracted", s, k) \notin Rows(s) /\ Msg("raised", s, k) \notin Rows(s)
                     /\ Msg("retracted", s, k) \notin Ended(s) /\ Msg("raised", s, k) \notin Ended(s)
  BY <1>4 DEF Rows, Ended, OfRows
<1>8. (H = {} => ~In(Rows(s), b)) /\ (H # {} => In(Rows(s), b))
  BY <1>2, <1>3, <1>7 DEF Heads
<1>9. ASSUME NEW V, H \subseteq V PROVE Ends(Rows(s), V, b)
  <2>1. ~In(Rows(s) \ V, b)
    <3> DEFINE Q == Rows(s) \ V
    <3>1. (\A m \in H : m \notin Q)
          /\ \A k \in Cause : Msg("retracted", s, k) \notin Q /\ Msg("raised", s, k) \notin Q
      BY <1>7, <1>9
    <3> HIDE DEF Q
    <3>2. ~In(Q, b)
      BY <1>2, <1>3, <3>1
    <3> QED
      BY <3>2 DEF Q
  <2> QED
    BY <2>1, RightEnds
<1>10. In(Ended(s), b) => \E m \in H : m.kind = "gone"
  <2>1. ASSUME In(Ended(s), b) PROVE \E m \in H : m \in Ended(s)
    BY <1>2, <1>3, <1>7, <2>1
  <2> QED
    BY <2>1 DEF Ended
<1>11. \A m \in H, k \in Cause : m \notin Notices(s, k)
  BY <1>5 DEF Notices, OfRows, OfNotices
<1>12. \A k \in Cause, l \in Cause :
          /\ Msg("retracted", s, l) \in Notices(s, k) <=> l = k
          /\ Msg("raised", s, l) \in Notices(s, k) <=> l = k
  BY <1>4 DEF Notices, OfNotices
<1>13. ASSUME NEW k \in Cause, (k \in keys) = (k \in notices[s]) PROVE ~In(Notices(s, k), b)
  <2> DEFINE Q == Notices(s, k)
  <2>1. k \notin notices[s] \ keys /\ k \notin keys \ notices[s]
    BY <1>13
  <2>2. \A m \in H : m \notin Q
    BY <1>11
  <2>3. /\ \A l \in notices[s] \ keys : Msg("retracted", s, l) \notin Q
        /\ \A l \in keys \ notices[s] : Msg("raised", s, l) \notin Q
    BY <1>3, <1>12, <2>1
  <2> HIDE DEF Q
  <2>4. ~In(Q, b)
    BY <1>2, <2>2, <2>3
  <2> QED
    BY <2>4 DEF Q
<1>14. ASSUME NEW k \in Cause, (k \in keys) # (k \in notices[s])
       PROVE  In(Notices(s, k), b) /\ Ends(Notices(s, k), RightOf(k, keys), b)
  <2>1. k \in notices[s] \ keys \/ k \in keys \ notices[s]
    BY <1>14
  <2>2. In(Notices(s, k), b)
    BY <1>2, <1>12, <2>1
  <2>3. \A l \in notices[s] \ keys : l = k => Msg("retracted", s, l) \in RightOf(k, keys)
    BY <1>3, <1>4 DEF RightOf
  <2>4. \A l \in keys \ notices[s] : l = k => Msg("raised", s, l) \in RightOf(k, keys)
    BY <1>3, <1>4 DEF RightOf
  <2>5. ~In(Notices(s, k) \ RightOf(k, keys), b)
    <3> DEFINE Q == Notices(s, k) \ RightOf(k, keys)
    <3>1. \A m \in H : m \notin Q
      BY <1>11
    <3>2. \A l \in notices[s] \ keys : Msg("retracted", s, l) \notin Q
      BY <1>3, <1>12, <2>3
    <3>3. \A l \in keys \ notices[s] : Msg("raised", s, l) \notin Q
      BY <1>12, <2>4
    <3> HIDE DEF Q
    <3>4. ~In(Q, b)
      BY <1>2, <3>1, <3>2, <3>3
    <3> QED
      BY <3>4 DEF Q
  <2> QED
    BY <2>2, <2>5, RightEnds
<1> QED
  BY <1>1, <1>6, <1>8, <1>9, <1>10, <1>13, <1>14 DEF Announces

(* A step of the registry keeps what holds of a row when a thread is about *)
(* to look at it again, when it is told of, or when it stays as it was.    *)
LEMMA RegistryRow ==
    ASSUME NEW x, RowInv(x), UNCHANGED <<channel, window, history>>,
           Coming(x) => Coming(x)',
           \/ Owed(x)'
           \/ Towards(x)' /\ Coming(x)'
           \/ /\ standing'[x] = standing[x]
              /\ Owed(x) => Owed(x)'
              /\ Towards(x) => Towards(x)'
    PROVE  RowInv(x)'
<1>1. UNCHANGED <<shell, badge, shows, buffer, answer, page, lost, stale, mends>>
  BY DEF window, pageVars, history
<1>2. standing'[x] = standing[x] =>
        (Counts(x)' <=> Counts(x)) /\ (ShowsIt(x)' <=> ShowsIt(x))
  BY <1>1 DEF Counts, ShowsIt, AsShown
<1>3. standing'[x] = standing[x] => (WillShow(x)' <=> WillShow(x))
  <2>1. ASSUME standing'[x] = standing[x] PROVE True(x)' = True(x) /\ answer' = answer
    BY <1>1, <2>1 DEF True, AsShown
  <2> QED
    BY <1>1, <2>1 DEF WillShow, AsShown
<1>4. KeptInv(x)'
  BY <1>1 DEF RowInv, KeptInv, Showing
<1>5. BadgeInv(x)'
  BY <1>1, <1>2 DEF RowInv, BadgeInv
<1>6. ShowsInv(x)'
  BY <1>1, <1>2 DEF RowInv, ShowsInv
<1>7. MendsInv(x)'
  BY <1>1, <1>3 DEF RowInv, MendsInv
<1> QED
  BY <1>4, <1>5, <1>6, <1>7 DEF RowInv

(* The same of a notice: it is told of, or it stays as it was.             *)
LEMMA RegistryNotice ==
    ASSUME NEW x, NEW k, ToastInv(x, k), UNCHANGED <<channel, window, history>>,
           \/ /\ Tells(Notices(x, k), Right(x, k)', out', channel')
              /\ Word(Notices(x, k), out', channel')
           \/ /\ (k \in notices'[x]) = (k \in notices[x])
              /\ Tells(Notices(x, k), Right(x, k), out, channel) =>
                     Tells(Notices(x, k), Right(x, k), out', channel')
              /\ Word(Notices(x, k), out, channel) => Word(Notices(x, k), out', channel')
    PROVE  ToastInv(x, k)'
<1>1. UNCHANGED <<toasts, opens, silent>>
  BY DEF window, pageVars, history
<1>2. (k \in notices'[x]) = (k \in notices[x]) =>
          (ToastIs(x, k)' <=> ToastIs(x, k)) /\ Right(x, k)' = Right(x, k)
  BY <1>1 DEF ToastIs, Right
<1> QED
  BY <1>1, <1>2 DEF ToastInv, Notices

(* The events of H tell of the row as it has become; it is the only one    *)
(* that changes, and not unless there is one.                              *)
ToldOf(s, H) ==
    /\ \A x \in Session \ {s} : standing'[x] = standing[x]
    /\ H = {} => standing'[s] = standing[s]
    /\ \A m \in H : m.what = AsShown(standing'[s]) /\ (m.kind = "gone" => standing'[s] = "gone")

(* A row or its notices change, and a thread leaves the mutex with what is *)
(* to be told of them: the events of H about the row, and the keys that    *)
(* are now out or no longer.                                               *)
LEMMA BatchInv ==
    ASSUME IInv, NEW s \in Session, standing[s] \in Present, NEW keys \in SUBSET Cause,
           NEW h \in Seq(Message), NEW H, Heads(s, h, H),
           Sends(h \o Told([notices EXCEPT ![s] = keys])),
           notices' = [notices EXCEPT ![s] = keys],
           UNCHANGED <<owes, channel, window, history>>,
           ToldOf(s, H), standing'[s] \notin Present => keys = {}
    PROVE  \A x \in Session : (RowInv(x) /\ NoticeInv(x))'
<1> DEFINE b == h \o Told([notices EXCEPT ![s] = keys])
<1>0. Shape /\ Sends(b) /\ notices \in [Session -> SUBSET Cause]
  BY DEF IInv, Shape, TypeOK
<1>1. Announces(s, keys, H, b)
  <2>1. b = h \o Told([notices EXCEPT ![s] = keys])
    OBVIOUS
  <2> HIDE DEF b
  <2> QED
    BY <1>0, <2>1, BatchAbout
<1> HIDE DEF b
<1>2. channel' = channel /\ buffer' = buffer
  BY DEF window, pageVars
<1>3. ASSUME NEW Q, NEW V
      PROVE  /\ ~In(Q, b) /\ Tells(Q, V, out, channel) => Tells(Q, V, out', channel')
             /\ ~In(Q, b) /\ Word(Q, out', channel') => Word(Q, out, channel)
             /\ Word(Q, out, channel) => Word(Q, out', channel')
             /\ In(Q, b) /\ Ends(Q, V, b) =>
                    Tells(Q, V, out', channel') /\ Word(Q, out', channel')
  BY <1>0, <1>1, <1>2, BatchSent DEF Announces
<1>4. notices'[s] = keys /\ \A x \in Session \ {s} : notices'[x] = notices[x]
  BY <1>0
<1>5. ASSUME NEW x \in Session PROVE RowInv(x)'
  <2>1. RowInv(x)
    BY DEF IInv
  <2>2. Coming(x) => Coming(x)'
    BY <1>3 DEF Coming, Rows
  <2>3. CASE x # s \/ H = {}
    <3>1. ~In(Rows(x), b) /\ standing'[x] = standing[x]
      BY <1>1, <2>3 DEF Announces, ToldOf
    <3>2. True(x)' = True(x)
      BY <3>1 DEF True, AsShown
    <3>3. Towards(x) => Towards(x)'
      BY <1>3, <3>1, <3>2 DEF Towards, Rows
    <3>4. Owed(x) => Owed(x)'
      BY <3>1 DEF Owed
    <3> QED
      BY <2>1, <2>2, <3>1, <3>3, <3>4, RegistryRow
  <2>4. CASE x = s /\ H # {}
    <3>1. H \subseteq True(x)'
      BY <2>4 DEF True, Rows, Heads, ToldOf
    <3>2. In(Rows(x), b) /\ Ends(Rows(x), True(x)', b)
      BY <1>1, <2>4, <3>1 DEF Announces
    <3>3. Towards(x)' /\ Coming(x)'
      BY <1>3, <3>2 DEF Towards, Coming, Rows
    <3> QED
      BY <2>1, <2>2, <3>3, RegistryRow
  <2> QED
    BY <2>3, <2>4
<1>6. ASSUME NEW x \in Session PROVE EndedInv(x)'
  <2>1. EndedInv(x)
    BY DEF IInv, NoticeInv
  <2>2. CASE x # s
    <3>1. standing'[x] = standing[x] /\ notices'[x] = notices[x] /\ ~In(Ended(x), b)
      BY <1>1, <1>4, <2>2 DEF Announces, ToldOf
    <3>2. Word(Ended(x), out', channel') => Word(Ended(x), out, channel)
      BY <1>3, <3>1
    <3> QED
      BY <1>2, <2>1, <3>1, <3>2 DEF EndedInv, Ended
  <2>3. CASE x = s
    <3>1. ~Word(Ended(x), out, channel) /\ ~In(Ended(x), buffer)
      BY <2>1, <2>3 DEF EndedInv, Present
    <3>2. In(Ended(x), b) => standing'[x] = "gone"
      BY <1>1, <2>3 DEF Announces, ToldOf
    <3>3. Word(Ended(x), out', channel') => standing'[x] = "gone"
      BY <1>3, <3>1, <3>2
    <3> QED
      BY <1>2, <1>4, <2>3, <3>1, <3>3 DEF EndedInv, Ended
  <2> QED
    BY <2>2, <2>3
<1>7. ASSUME NEW x \in Session, NEW k \in Cause PROVE ToastInv(x, k)'
  <2>1. ToastInv(x, k)
    BY DEF IInv, NoticeInv
  <2>2. CASE x # s \/ (k \in keys) = (k \in notices[s])
    <3>1. ~In(Notices(x, k), b) /\ (k \in notices'[x]) = (k \in notices[x])
      BY <1>1, <1>4, <2>2 DEF Announces
    <3> QED
      BY <1>3, <2>1, <3>1, RegistryNotice
  <2>3. CASE x = s /\ (k \in keys) # (k \in notices[s])
    <3>1. Right(x, k)' = RightOf(k, keys)
      BY <1>4, <2>3 DEF Right, RightOf
    <3>2. In(Notices(x, k), b) /\ Ends(Notices(x, k), Right(x, k)', b)
      BY <1>1, <2>3, <3>1 DEF Announces
    <3>3. Tells(Notices(x, k), Right(x, k)', out', channel') /\ Word(Notices(x, k), out', channel')
      BY <1>3, <3>2
    <3> QED
      BY <2>1, <3>3, RegistryNotice
  <2> QED
    BY <2>2, <2>3
<1> QED
  BY <1>5, <1>6, <1>7 DEF NoticeInv

(* A row changes that a thread will look at again.                         *)
LEMMA OwedInv ==
    ASSUME IInv, NEW s \in Session, standing[s] # "gone", NEW v \in Present,
           standing' = [standing EXCEPT ![s] = v], owes' = owes \cup {s},
           UNCHANGED <<notices, out, channel, window, history>>
    PROVE  \A x \in Session : (RowInv(x) /\ NoticeInv(x))'
<1>0. standing \in [Session -> Standing] /\ buffer' = buffer
  BY DEF IInv, Shape, TypeOK, window, pageVars
<1>1. standing'[s] = v /\ \A x \in Session \ {s} : standing'[x] = standing[x]
  BY <1>0
<1>2. ASSUME NEW x \in Session PROVE RowInv(x)'
  <2>1. RowInv(x) /\ (Coming(x) => Coming(x)')
    BY DEF IInv, Coming, Rows
  <2>2. CASE x = s
    <3>1. Owed(x)'
      BY <1>1, <2>2 DEF Owed
    <3> QED
      BY <2>1, <3>1, RegistryRow
  <2>3. CASE x # s
    <3>1. standing'[x] = standing[x] /\ (Owed(x) => Owed(x)')
      BY <1>1, <2>3 DEF Owed
    <3>2. True(x)' = True(x)
      BY <3>1 DEF True, AsShown
    <3>3. Towards(x) => Towards(x)'
      BY <3>2 DEF Towards, Rows
    <3> QED
      BY <2>1, <3>1, <3>3, RegistryRow
  <2> QED
    BY <2>2, <2>3
<1>3. ASSUME NEW x \in Session PROVE EndedInv(x)'
  <2>1. EndedInv(x)
    BY DEF IInv, NoticeInv
  <2>2. \/ standing'[x] \in Present /\ standing[x] # "gone"
        \/ standing'[x] = standing[x]
    BY <1>1
  <2> QED
    BY <1>0, <2>1, <2>2 DEF EndedInv, Ended
<1>4. ASSUME NEW x \in Session, NEW k \in Cause PROVE ToastInv(x, k)'
  <2>1. ToastInv(x, k)
    BY DEF IInv, NoticeInv
  <2> QED
    BY <2>1, RegistryNotice
<1> QED
  BY <1>2, <1>3, <1>4 DEF NoticeInv

(* A thread looks at the row and sends it; a row that is gone, it leaves.  *)
LEMMA EmitInv ==
    ASSUME IInv, NEW s \in Session, EmitSession(s)
    PROVE  \A x \in Session : (RowInv(x) /\ NoticeInv(x))'
<1>0. /\ Shape /\ channel' = channel /\ buffer' = buffer /\ owes' = owes \ {s}
      /\ standing' = standing /\ notices' = notices
      /\ UNCHANGED <<channel, window, history>>
  BY DEF IInv, EmitSession, window, pageVars, registry
<1>1. PICK b \in Seq(Message) :
         /\ standing[s] \in Present => Sends(b) /\ In(Rows(s), b) /\ Ends(Rows(s), True(s), b)
         /\ \A x \in Session \ {s} : ~In(Rows(x), b)
         /\ \A x \in Session : ~In(Ended(x), b) /\ \A k \in Cause : ~In(Notices(x, k), b)
  <2>1. CASE standing[s] \in Present
    <3> DEFINE m == Msg("row", s, standing[s])
    <3>1. m \in Message /\ m.kind = "row" /\ m.session = s /\ m.what = standing[s]
      BY <2>1, MessageIs DEF Msg
    <3>2. Sends(<<m>>)
      BY <2>1 DEF EmitSession
    <3> HIDE DEF m
    <3>3. m \in Rows(s) /\ m \in True(s)
      BY <2>1, <3>1 DEF Rows, True, AsShown, OfRows
    <3>4. In(Rows(s), <<m>>) /\ ~In(Rows(s) \ True(s), <<m>>)
      BY <3>3, InOne
    <3>5. \A x \in Session \ {s} : ~In(Rows(x), <<m>>)
      BY <3>1, InOne DEF Rows
    <3>6. \A x \in Session : ~In(Ended(x), <<m>>) /\ \A k \in Cause : ~In(Notices(x, k), <<m>>)
      BY <3>1, InOne DEF Ended, Notices, OfNotices
    <3>7. Ends(Rows(s), True(s), <<m>>)
      BY <3>4, RightEnds
    <3>8. <<m>> \in Seq(Message)
      BY <3>1
    <3> QED
      BY <3>2, <3>4, <3>5, <3>6, <3>7, <3>8
  <2>2. CASE standing[s] \notin Present
    <3>1. <<>> \in Seq(Message) /\ \A Q : ~In(Q, <<>>)
      BY DEF In
    <3> QED
      BY <2>2, <3>1
  <2> QED
    BY <2>1, <2>2
<1>2. ASSUME NEW Q, NEW V
      PROVE  /\ ~In(Q, b) /\ Tells(Q, V, out, channel) => Tells(Q, V, out', channel')
             /\ ~In(Q, b) /\ Word(Q, out', channel') => Word(Q, out, channel)
             /\ Word(Q, out, channel) => Word(Q, out', channel')
             /\ standing[s] \in Present /\ In(Q, b) /\ Ends(Q, V, b) =>
                    Tells(Q, V, out', channel') /\ Word(Q, out', channel')
  <2>1. CASE standing[s] \in Present
    BY <1>0, <1>1, <2>1, BatchSent
  <2>2. CASE standing[s] \notin Present
    BY <1>0, <2>2 DEF EmitSession
  <2> QED
    BY <2>1, <2>2
<1>3. ASSUME NEW x \in Session PROVE RowInv(x)'
  <2>1. RowInv(x) /\ True(x)' = True(x) /\ standing'[x] = standing[x]
    BY <1>0 DEF IInv, True, AsShown
  <2>2. Coming(x) => Coming(x)'
    BY <1>2 DEF Coming, Rows
  <2>3. CASE x = s /\ standing[s] \in Present
    <3>1. Towards(x)' /\ Coming(x)'
      BY <1>1, <1>2, <2>1, <2>3 DEF Towards, Coming, Rows
    <3> QED
      BY <1>0, <2>1, <2>2, <3>1, RegistryRow
  <2>4. CASE x # s
    <3>1. Towards(x) => Towards(x)'
      BY <1>1, <1>2, <2>1, <2>4 DEF Towards, Rows
    <3>2. Owed(x) => Owed(x)'
      BY <1>0, <2>4 DEF Owed
    <3> QED
      BY <1>0, <2>1, <2>2, <3>1, <3>2, RegistryRow
  <2>5. CASE x = s /\ standing[s] \notin Present
    <3>1. out' = out /\ ~Owed(x)
      BY <2>5 DEF EmitSession, Owed
    <3>2. Towards(x) => Towards(x)'
      BY <1>0, <2>1, <3>1 DEF Towards, Rows
    <3> QED
      BY <1>0, <2>1, <2>2, <3>1, <3>2, RegistryRow
  <2> QED
    BY <2>3, <2>4, <2>5
<1>4. ASSUME NEW x \in Session PROVE EndedInv(x)'
  <2>1. EndedInv(x) /\ (Word(Ended(x), out', channel') => Word(Ended(x), out, channel))
    BY <1>1, <1>2 DEF IInv, NoticeInv
  <2> QED
    BY <1>0, <2>1 DEF EndedInv, Ended
<1>5. ASSUME NEW x \in Session, NEW k \in Cause PROVE ToastInv(x, k)'
  <2>1. ToastInv(x, k) /\ (k \in notices'[x]) = (k \in notices[x]) /\ ~In(Notices(x, k), b)
    BY <1>0, <1>1 DEF IInv, NoticeInv
  <2> QED
    BY <1>0, <1>2, <2>1, RegistryNotice
<1> QED
  BY <1>3, <1>4, <1>5 DEF NoticeInv

LEMMA RegistryInv ==
    ASSUME IInv, NEW s \in Session, Registry(s)
    PROVE  \A x \in Session : (RowInv(x) /\ NoticeInv(x))'
<1>0. standing \in [Session -> Standing]
  BY DEF IInv, Shape, TypeOK
<1>1. ASSUME Launch(s) PROVE \A x \in Session : (RowInv(x) /\ NoticeInv(x))'
  <2>1. "calm" \in Present
    BY DEF Present
  <2> QED
    BY <1>1, <2>1, OwedInv DEF Launch
<1>2. ASSUME NEW v \in Present, Touch(s, v)
      PROVE  \A x \in Session : (RowInv(x) /\ NoticeInv(x))'
  <2>1. standing[s] # "gone"
    BY <1>2 DEF Touch, Present
  <2> QED
    BY <1>2, <2>1, OwedInv DEF Touch
<1>3. ASSUME RemoveRow(s) PROVE \A x \in Session : (RowInv(x) /\ NoticeInv(x))'
  <2> DEFINE m == Msg("gone", s, "none")
  <2>1. m \in Message /\ m.kind = "gone" /\ m.session = s /\ m.what = "none"
    BY MessageIs DEF Msg
  <2>2. Sends(<<m>> \o Told([notices EXCEPT ![s] = {}]))
    BY <1>3 DEF RemoveRow
  <2> HIDE DEF m
  <2>3. <<m>> \in Seq(Message) /\ {m} \subseteq Rows(s)
    BY <2>1 DEF Rows, OfRows
  <2>4. Heads(s, <<m>>, {m})
    BY <2>3, InOne DEF Heads
  <2>5. standing'[s] = "gone" /\ \A x \in Session \ {s} : standing'[x] = standing[x]
    BY <1>0, <1>3 DEF RemoveRow
  <2>6. ToldOf(s, {m})
    BY <2>1, <2>5 DEF ToldOf, AsShown, Present
  <2>7. {} \in SUBSET Cause /\ standing[s] \in Present
        /\ notices' = [notices EXCEPT ![s] = {}]
        /\ UNCHANGED <<owes, channel, window, history>>
    BY <1>3 DEF RemoveRow
  <2> QED
    BY <2>2, <2>3, <2>4, <2>5, <2>6, <2>7, BatchInv
<1>4. ASSUME NEW v \in Present, NEW keys \in SUBSET Cause, Change(s, v, keys)
      PROVE  \A x \in Session : (RowInv(x) /\ NoticeInv(x))'
  <2> DEFINE m == Msg("row", s, v)
  <2>1. m \in Message /\ m.kind = "row" /\ m.session = s /\ m.what = v
    BY MessageIs DEF Msg
  <2>2. Sends(<<m>> \o Told([notices EXCEPT ![s] = keys]))
    BY <1>4 DEF Change
  <2> HIDE DEF m
  <2>3. <<m>> \in Seq(Message) /\ {m} \subseteq Rows(s)
    BY <2>1 DEF Rows, OfRows
  <2>4. Heads(s, <<m>>, {m})
    BY <2>3, InOne DEF Heads
  <2>5. standing'[s] = v /\ \A x \in Session \ {s} : standing'[x] = standing[x]
    BY <1>0, <1>4 DEF Change
  <2>6. ToldOf(s, {m}) /\ standing'[s] \in Present
    BY <2>1, <2>5 DEF ToldOf, AsShown
  <2>7. standing[s] \in Present /\ notices' = [notices EXCEPT ![s] = keys]
        /\ UNCHANGED <<owes, channel, window, history>>
    BY <1>4 DEF Change
  <2> QED
    BY <2>1, <2>2, <2>3, <2>4, <2>5, <2>6, <2>7, BatchInv
<1>5. ASSUME NEW keys \in SUBSET Cause, Recheck(s, keys)
      PROVE  \A x \in Session : (RowInv(x) /\ NoticeInv(x))'
  <2> DEFINE told == Told([notices EXCEPT ![s] = keys])
  <2>1. told \in Seq(Message)
    BY ToldIs DEF IInv, Shape, TypeOK
  <2>2. Sends(told)
    BY <1>5 DEF Recheck
  <2> HIDE DEF told
  <2>3. <<>> \o told = told
    BY <2>1
  <2>4. Sends(<<>> \o Told([notices EXCEPT ![s] = keys]))
    BY <2>2, <2>3 DEF told
  <2>5. Heads(s, <<>>, {}) /\ <<>> \in Seq(Message)
    BY DEF Heads, In
  <2>6. /\ standing[s] \in Present /\ standing' = standing /\ ToldOf(s, {})
        /\ notices' = [notices EXCEPT ![s] = keys]
        /\ UNCHANGED <<owes, channel, window, history>>
    BY <1>5 DEF Recheck, ToldOf
  <2> QED
    BY <2>4, <2>5, <2>6, BatchInv
<1> QED
  BY <1>1, <1>2, <1>3, <1>4, <1>5, EmitInv DEF Registry

-----------------------------------------------------------------------------
(* An event is sent.                                                       *)

LEMMA EarlierType ==
    ASSUME Shape, NEW i \in DOMAIN out
    PROVE  SubSeq(out, 1, i - 1) \in Seq(Seq(Message))
<1>1. out \in Seq(Seq(Message)) /\ Len(out) \in Nat /\ i \in 1..Len(out)
  BY DEF Shape, TypeOK
<1>2. i - 1 \in 0..Len(out)
  BY <1>1
<1> QED
  BY <1>1, <1>2

(* An event that does not go astray is in the queue, and no older one      *)
(* about the same is left behind.                                          *)
LEMMA NotAstray ==
    ASSUME Shape, NEW i \in DOMAIN out, NEW m, m = Head(out[i]), NEW x
    PROVE  /\ m \in Rows(x) /\ ~Astray(m, i, OfRows) =>
                 Len(channel) < Capacity /\ ~Within(Rows(x), SubSeq(out, 1, i - 1))
           /\ \A k : m \in Notices(x, k) /\ ~Astray(m, i, OfNotices) =>
                 Len(channel) < Capacity /\ ~Within(Notices(x, k), SubSeq(out, 1, i - 1))
<1>1. Len(channel) \in Nat /\ Capacity \in Nat
  BY StreamAssumption DEF Shape, TypeOK
<1>2. SubSeq(out, 1, i - 1) \in Seq(Seq(Message))
  BY EarlierType
<1>3. /\ About(x, OfRows, SubSeq(out, 1, i - 1)) <=> Within(Rows(x), SubSeq(out, 1, i - 1))
      /\ \A k : Within(Notices(x, k), SubSeq(out, 1, i - 1)) =>
                    About(x, OfNotices, SubSeq(out, 1, i - 1))
  BY <1>2, AboutIs
<1>4. /\ m \in Rows(x) => m.session = x /\ m.kind \in OfRows
      /\ \A k : m \in Notices(x, k) => m.session = x /\ m.kind \in OfNotices
  BY DEF Rows, Notices
<1> QED
  BY <1>1, <1>3, <1>4 DEF Astray

(* Of a row, the event is about another, or has gone astray, or is the     *)
(* last and right, or takes its turn.                                      *)
LEMMA SentRow ==
    ASSUME Shape, NEW i \in DOMAIN out, Emit(i), NEW x
    PROVE  \/ x \in lost' /\ x \in stale' /\ x \notin mends'
           \/ Towards(x)' /\ Coming(x)'
           \/ /\ x \in lost' <=> x \in lost
              /\ x \in stale' <=> x \in stale
              /\ x \in mends' <=> x \in mends
              /\ Towards(x) => Towards(x)'
              /\ Coming(x) => Coming(x)'
<1> DEFINE m == Head(out[i])
           A == Without(out, i)
           sent == Append(channel, m)
<1>1. /\ out \in Batches(Message) /\ channel \in Seq(Message)
      /\ m \in Message /\ A \in Seq(Seq(Message)) /\ AfterHead(i) = A
  BY SentType DEF Shape, TypeOK
<1>2. /\ out' = A
      /\ channel' = channel \/ channel' = sent
      /\ Len(channel) < Capacity => channel' = sent
      /\ lost' = Marked(lost, m, i) /\ stale' = Marked(stale, m, i)
      /\ mends' = IF Astray(m, i, OfRows) THEN mends \ {m.session} ELSE mends
      /\ True(x)' = True(x)
  BY <1>1 DEF Emit, registry, True, AsShown
<1>3. m \notin Rows(x) => (Towards(x) => Towards(x)') /\ (Coming(x) => Coming(x)')
  <2>1. ASSUME NEW V, m \notin Rows(x)
        PROVE  /\ Tells(Rows(x), V, out, channel) => Tells(Rows(x), V, A, channel')
               /\ Word(Rows(x), A, channel') <=> Word(Rows(x), out, channel)
    BY <1>1, <1>2, <2>1, OtherSent
  <2> QED
    BY <1>2, <2>1 DEF Towards, Coming, Rows
<1>4. m \in Rows(x) /\ ~Astray(m, i, OfRows) =>
          channel' = sent /\ ~Within(Rows(x), SubSeq(out, 1, i - 1))
  BY <1>2, NotAstray
<1>5. ASSUME m \in Rows(x), ~Astray(m, i, OfRows)
      PROVE  Towards(x) => Towards(x)' /\ Coming(x)'
  <2>1. ASSUME NEW V, Tells(Rows(x), V, out, channel)
        PROVE  Tells(Rows(x), V, A, sent) /\ Word(Rows(x), A, sent)
    BY <1>1, <1>4, <1>5, <2>1, WordSent
  <2> QED
    BY <1>2, <1>4, <1>5, <2>1 DEF Towards, Coming, Rows
<1>6. About(x, OfRows, A) <=> Within(Rows(x), A)
  BY <1>1, AboutIs
<1>7. ASSUME m \in Rows(x), ~Astray(m, i, OfRows)
      PROVE  Coming(x)'
  <2>1. In(Rows(x), sent)
    BY <1>1, <1>7, InAppend
  <2> QED
    BY <1>2, <1>4, <1>7, <2>1 DEF Coming, Word, Rows
<1>8. ASSUME m \in Rows(x), PutsRight(m, i)
      PROVE  Towards(x)' /\ Coming(x)'
  <2>1. m.session = x
    BY <1>8 DEF Rows
  <2>2. m \in True(x) /\ ~Within(Rows(x), A) /\ ~Astray(m, i, OfRows)
    BY <1>1, <1>6, <1>8, <2>1 DEF True, PutsRight
  <2>3. Tells(Rows(x), True(x), A, sent) /\ Word(Rows(x), A, sent)
    BY <1>1, <1>8, <2>2, LastSent
  <2> QED
    BY <1>2, <1>4, <1>8, <2>2, <2>3 DEF Towards, Coming, Rows
<1>9. m.session \in Session /\ (m \in Rows(x) <=> m.session = x /\ m.kind \in OfRows)
  BY <1>1, MessageIs DEF Rows
<1> HIDE DEF m, A, sent
<1>10. CASE m \notin Rows(x)
  <2>1. ASSUME NEW set PROVE x \in Marked(set, m, i) <=> x \in set
    BY <1>9, <1>10 DEF Marked, Astray, PutsRight
  <2>2. x \in mends' <=> x \in mends
    BY <1>2, <1>9, <1>10 DEF Astray
  <2> QED
    BY <1>2, <1>3, <1>10, <2>1, <2>2
<1>11. CASE m \in Rows(x) /\ Astray(m, i, OfRows)
  BY <1>2, <1>9, <1>11 DEF Marked
<1>12. CASE m \in Rows(x) /\ ~Astray(m, i, OfRows) /\ ~PutsRight(m, i)
  BY <1>2, <1>5, <1>7, <1>12 DEF Marked
<1> QED
  BY <1>8, <1>10, <1>11, <1>12

(* What is on its way after the event is sent was on its way before.       *)
LEMMA SentWord ==
    ASSUME Shape, NEW i \in DOMAIN out, Emit(i), NEW Q
    PROVE  Word(Q, out', channel') => Word(Q, out, channel)
<1> DEFINE m == Head(out[i])
           A == Without(out, i)
<1>1. /\ out \in Batches(Message) /\ channel \in Seq(Message)
      /\ m \in Message /\ AfterHead(i) = A
  BY SentType DEF Shape, TypeOK
<1>2. out' = A /\ (channel' = channel \/ channel' = Append(channel, m))
  BY <1>1 DEF Emit
<1>3. Within(Q, out) <=> m \in Q \/ Within(Q, A)
  BY <1>1, WithinWithout
<1>4. In(Q, Append(channel, m)) <=> In(Q, channel) \/ m \in Q
  BY <1>1, InAppend
<1> QED
  BY <1>2, <1>3, <1>4 DEF Word

LEMMA SentNotice ==
    ASSUME Shape, NEW i \in DOMAIN out, Emit(i), NEW x, NEW k, NEW V
    PROVE  \/ x \in silent'
           \/ /\ x \in silent' <=> x \in silent
              /\ Tells(Notices(x, k), V, out, channel) => Tells(Notices(x, k), V, out', channel')
              /\ Tells(Notices(x, k), V, out, channel) /\ Word(Notices(x, k), out, channel) =>
                     Word(Notices(x, k), out', channel')
<1> DEFINE m == Head(out[i])
           A == Without(out, i)
           sent == Append(channel, m)
           Q == Notices(x, k)
<1>1. /\ out \in Batches(Message) /\ channel \in Seq(Message)
      /\ m \in Message /\ A \in Seq(Seq(Message)) /\ AfterHead(i) = A
  BY SentType DEF Shape, TypeOK
<1>2. /\ out' = A
      /\ channel' = channel \/ channel' = sent
      /\ Len(channel) < Capacity => channel' = sent
      /\ silent' = IF Astray(m, i, OfNotices) THEN silent \cup {m.session} ELSE silent
  BY <1>1 DEF Emit
<1>3. m \notin Q =>
          /\ Tells(Q, V, out, channel) => Tells(Q, V, A, channel')
          /\ Word(Q, A, channel') <=> Word(Q, out, channel)
  BY <1>1, <1>2, OtherSent
<1>4. m \in Q /\ ~Astray(m, i, OfNotices) =>
          channel' = sent /\ ~Within(Q, SubSeq(out, 1, i - 1))
  BY <1>2, NotAstray
<1>5. m \in Q /\ ~Astray(m, i, OfNotices) /\ Tells(Q, V, out, channel) =>
          Tells(Q, V, A, channel') /\ Word(Q, A, channel')
  <2>1. ASSUME m \in Q, ~Within(Q, SubSeq(out, 1, i - 1)), Tells(Q, V, out, channel)
        PROVE  Tells(Q, V, A, sent) /\ Word(Q, A, sent)
    BY <1>1, <2>1, WordSent
  <2> QED
    BY <1>4, <2>1
<1>6. m \in Q => m.session = x
  BY DEF Notices
<1> HIDE DEF m, A, sent, Q
<1>7. x \in silent' \/ (x \in silent' <=> x \in silent)
  BY <1>2
<1>8. CASE m \in Q /\ Astray(m, i, OfNotices)
  BY <1>2, <1>6, <1>8
<1> QED
  BY <1>2, <1>3, <1>5, <1>7, <1>8 DEF Q

LEMMA SentInv ==
    ASSUME IInv, NEW i \in DOMAIN out, Emit(i)
    PROVE  \A x \in Session : (RowInv(x) /\ NoticeInv(x))'
<1>0. Shape
  BY DEF IInv
<1>1. UNCHANGED <<registry, owes, shell, badge, page, answer, buffer, shows, toasts, opens>>
  BY DEF Emit, window, pageVars
<1>2. ASSUME NEW x \in Session PROVE RowInv(x)'
  <2>1. RowInv(x)
    BY DEF IInv
  <2>2. \/ x \in lost' /\ x \in stale' /\ x \notin mends'
        \/ Towards(x)' /\ Coming(x)'
        \/ /\ x \in lost' <=> x \in lost
           /\ x \in stale' <=> x \in stale
           /\ x \in mends' <=> x \in mends
           /\ Towards(x) => Towards(x)'
           /\ Coming(x) => Coming(x)'
    BY <1>0, SentRow
  <2>3. /\ Owed(x)' <=> Owed(x)
        /\ Counts(x)' <=> Counts(x)
        /\ ShowsIt(x)' <=> ShowsIt(x)
        /\ WillShow(x)' <=> WillShow(x)
    BY <1>1 DEF registry, Owed, Counts, ShowsIt, WillShow, True, AsShown, Rows
  <2>4. Ends(Rows(x), Showing(x), buffer)' <=> Ends(Rows(x), Showing(x), buffer)
    BY <1>1 DEF Showing, Rows
  <2> QED
    BY <1>1, <2>1, <2>2, <2>3, <2>4 DEF RowInv, BadgeInv, ShowsInv, MendsInv,
       KeptInv
<1>3. ASSUME NEW x \in Session PROVE EndedInv(x)'
  <2>1. EndedInv(x)
    BY DEF IInv, NoticeInv
  <2>2. Word(Ended(x), out', channel') => Word(Ended(x), out, channel)
    BY <1>0, SentWord
  <2> QED
    BY <1>1, <2>1, <2>2 DEF EndedInv, Ended, registry
<1>4. ASSUME NEW x \in Session, NEW k \in Cause PROVE ToastInv(x, k)'
  <2>1. ToastInv(x, k)
    BY DEF IInv, NoticeInv
  <2>2. \/ x \in silent'
        \/ /\ x \in silent' <=> x \in silent
           /\ Tells(Notices(x, k), Right(x, k), out, channel) =>
                 Tells(Notices(x, k), Right(x, k), out', channel')
           /\ Tells(Notices(x, k), Right(x, k), out, channel)
                 /\ Word(Notices(x, k), out, channel) => Word(Notices(x, k), out', channel')
    BY <1>0, SentNotice
  <2>3. Right(x, k)' = Right(x, k) /\ (ToastIs(x, k)' <=> ToastIs(x, k))
    BY <1>1 DEF registry, Right, RightOf, ToastIs
  <2> QED
    BY <2>1, <2>2, <2>3 DEF ToastInv, Notices
<1> QED
  BY <1>2, <1>3, <1>4 DEF NoticeInv

-----------------------------------------------------------------------------
(* The window takes an event.                                              *)

(* What an event leaves of a session in the window.                        *)
LEMMA DeliverIs ==
    ASSUME Shape, Deliver, NEW m, m = Head(channel), NEW x \in Session
    PROVE  /\ m \in Message /\ channel # <<>> /\ channel \in Seq(Message) /\ buffer \in Seq(Message)
           /\ channel' = Tail(channel)
           /\ m \in Rows(x) => (x \in badge' <=> m.what = "waiting")
           /\ m \notin Rows(x) => (x \in badge' <=> x \in badge)
           /\ page = "deaf" => shows' = shows /\ toasts' = toasts
           /\ page # "deaf" /\ m \in Rows(x) => shows'[x] = m.what
           /\ m \notin Rows(x) => shows'[x] = shows[x]
           /\ page = "deaf" /\ m \in Rows(x) => x \in stale'
           /\ x \in stale => x \in stale'
           /\ Loading /\ m \in Rows(x) => buffer' = Append(buffer, m)
           /\ Loading => buffer' = buffer \/ buffer' = Append(buffer, m)
           /\ ~Loading => buffer' = buffer /\ buffer = <<>>
           /\ UNCHANGED <<registry, owes, out, shell, page, answer, opens, lost, mends>>
<1>1. /\ channel # <<>> /\ channel' = Tail(channel)
      /\ badge' = Counted(m)
      /\ shows' = IF page # "deaf" /\ m.kind \in OfRows THEN ApplyRow(shows, m) ELSE shows
      /\ toasts' = IF page # "deaf" THEN ApplyToasts(m) ELSE toasts
      /\ buffer' = IF Loading /\ m.kind \in OfRows THEN Append(buffer, m) ELSE buffer
      /\ stale' = IF page = "deaf" /\ m.kind \in OfRows
                  THEN stale \cup {m.session} ELSE stale
      /\ UNCHANGED <<registry, owes, out, shell, page, answer, opens, lost, mends>>
  BY DEF Deliver, Loading
<1>2. /\ channel \in Seq(Message) /\ buffer \in Seq(Message)
      /\ shows \in [Session -> Shown] /\ (~Loading => buffer = <<>>)
  BY DEF Shape, TypeOK
<1>3. m \in Message
  BY <1>1, <1>2
<1>4. /\ m.session \in Session /\ (m.kind \in OfRows \/ m.kind \in OfNotices)
      /\ m.kind \in OfRows <=> m.kind \notin OfNotices
      /\ m \in Rows(x) <=> m.session = x /\ m.kind \in OfRows
  BY <1>3, MessageIs DEF Rows
<1>5. /\ m \in Rows(x) => (x \in badge' <=> m.what = "waiting")
      /\ m \notin Rows(x) => (x \in badge' <=> x \in badge)
  BY <1>1, <1>4 DEF Counted
<1>6. /\ page # "deaf" /\ m \in Rows(x) => shows'[x] = m.what
      /\ m \notin Rows(x) => shows'[x] = shows[x]
  BY <1>1, <1>2, <1>4 DEF ApplyRow
<1> QED
  BY <1>1, <1>2, <1>3, <1>4, <1>5, <1>6 DEF Loading

LEMMA DeliverToasts ==
    ASSUME Shape, Deliver, NEW m, m = Head(channel), NEW x \in Session, NEW k \in Cause
    PROVE  /\ page = "deaf" => toasts' = toasts
           /\ page = "deaf" /\ m \in Notices(x, k) => x \in silent'
           /\ x \in silent => x \in silent'
           /\ page # "deaf" /\ m \in Notices(x, k) => (k \in toasts'[x] <=> m.kind = "raised")
           /\ m \notin Notices(x, k) /\ m \notin Ended(x) =>
                 (k \in toasts'[x] <=> k \in toasts[x])
           /\ k \in toasts'[x] /\ m \notin Notices(x, k) => k \in toasts[x]
<1>1. /\ toasts' = IF page # "deaf" THEN ApplyToasts(m) ELSE toasts
      /\ silent' = IF page = "deaf" /\ m.kind \in OfNotices
                   THEN silent \cup {m.session} ELSE silent
  BY DEF Deliver
<1>2. m \in Message /\ toasts \in [Session -> SUBSET Cause]
  <2>1. channel # <<>> /\ channel \in Seq(Message)
    BY DEF Shape, TypeOK, Deliver
  <2> QED
    BY <2>1 DEF Shape, TypeOK
<1>3. /\ m.session \in Session /\ m.kind \in {"row", "gone", "raised", "retracted"}
      /\ m \in Ended(x) <=> m.session = x /\ m.kind = "gone"
      /\ m \in Notices(x, k) <=> m.session = x /\ m.kind \in {"raised", "retracted"} /\ m.what = k
  BY <1>2 DEF Message, Ended, Notices, OfNotices
<1>4. CASE m.kind = "row"
  BY <1>1, <1>2, <1>3, <1>4 DEF ApplyToasts, OfNotices
<1>5. CASE m.kind = "gone"
  BY <1>1, <1>2, <1>3, <1>5 DEF ApplyToasts, OfNotices
<1>6. CASE m.kind = "raised"
  BY <1>1, <1>2, <1>3, <1>6 DEF ApplyToasts, OfNotices
<1>7. CASE m.kind = "retracted"
  BY <1>1, <1>2, <1>3, <1>7 DEF ApplyToasts, OfNotices
<1> QED
  BY <1>3, <1>4, <1>5, <1>6, <1>7

LEMMA DeliverInv ==
    ASSUME IInv, Deliver
    PROVE  \A x \in Session : (RowInv(x) /\ NoticeInv(x))'
<1> SUFFICES ASSUME NEW x \in Session PROVE RowInv(x)' /\ NoticeInv(x)'
  OBVIOUS
<1> DEFINE m == Head(channel)
<1>0. Shape /\ RowInv(x) /\ NoticeInv(x)
  BY DEF IInv
<1>1. /\ m \in Message /\ channel # <<>> /\ channel \in Seq(Message) /\ buffer \in Seq(Message)
      /\ channel' = Tail(channel)
      /\ m \in Rows(x) => (x \in badge' <=> m.what = "waiting")
      /\ m \notin Rows(x) => (x \in badge' <=> x \in badge)
      /\ page # "deaf" /\ m \in Rows(x) => shows'[x] = m.what
      /\ m \notin Rows(x) => shows'[x] = shows[x]
      /\ page = "deaf" /\ m \in Rows(x) => x \in stale'
      /\ x \in stale => x \in stale'
      /\ Loading /\ m \in Rows(x) => buffer' = Append(buffer, m)
      /\ Loading => buffer' = buffer \/ buffer' = Append(buffer, m)
      /\ ~Loading => buffer' = buffer /\ buffer = <<>>
  BY <1>0, DeliverIs
<1>2. UNCHANGED <<registry, owes, out, shell, page, answer, opens, lost, mends>>
  BY DEF Deliver
<1>3. ASSUME NEW Q, NEW V
      PROVE  /\ Tells(Q, V, out, channel) => Tells(Q, V, out', channel')
             /\ Word(Q, out, channel) <=> Word(Q, out', channel') \/ m \in Q
             /\ Tells(Q, V, out, channel) /\ m \in Q /\ ~Word(Q, out', channel') => m \in V
  BY <1>1, <1>2, Taken
<1>4. ASSUME NEW k \in Cause
      PROVE  /\ page = "deaf" /\ m \in Notices(x, k) => x \in silent'
             /\ x \in silent => x \in silent'
             /\ page # "deaf" /\ m \in Notices(x, k) => (k \in toasts'[x] <=> m.kind = "raised")
             /\ m \notin Notices(x, k) /\ m \notin Ended(x) =>
                   (k \in toasts'[x] <=> k \in toasts[x])
             /\ k \in toasts'[x] /\ m \notin Notices(x, k) => k \in toasts[x]
  BY <1>0, DeliverToasts
<1> HIDE DEF m
<1>5. True(x)' = True(x) /\ (Owed(x)' <=> Owed(x)) /\ Rows(x)' = Rows(x)
  BY <1>2 DEF registry, True, AsShown, Owed, Rows
<1>6. /\ Towards(x) => Towards(x)'
      /\ Coming(x) <=> Coming(x)' \/ m \in Rows(x)
      /\ Towards(x) /\ m \in Rows(x) /\ ~Coming(x)' => m \in True(x)
  BY <1>3, <1>5 DEF Towards, Coming
<1>7. m \in True(x) => m.what = AsShown(standing[x])
  BY DEF True
<1>8. BadgeInv(x)'
  <2>1. AsShown(standing[x]) = "waiting" <=> standing[x] = "waiting"
    BY DEF AsShown, Present
  <2>2. m \in Rows(x) /\ m \in True(x) => Counts(x)'
    BY <1>1, <1>2, <1>7, <2>1 DEF Counts, registry
  <2>3. m \notin Rows(x) => (Counts(x)' <=> Counts(x))
    BY <1>1, <1>2 DEF Counts, registry
  <2> QED
    BY <1>0, <1>2, <1>5, <1>6, <2>2, <2>3 DEF RowInv, BadgeInv
<1>9. ShowsInv(x)'
  <2>1. m \in Rows(x) /\ m \in True(x) /\ page # "deaf" => ShowsIt(x)'
    BY <1>1, <1>2, <1>7 DEF ShowsIt, AsShown, registry
  <2>2. m \notin Rows(x) => (ShowsIt(x)' <=> ShowsIt(x))
    BY <1>1, <1>2 DEF ShowsIt, AsShown, registry
  <2> QED
    BY <1>0, <1>1, <1>5, <1>6, <2>1, <2>2 DEF RowInv, ShowsInv
<1>10. ASSUME NEW Q, NEW V, Loading
       PROVE  /\ m \in Rows(x) => (In(Q, buffer') <=> In(Q, buffer) \/ m \in Q)
              /\ In(Q, buffer') => In(Q, buffer) \/ m \in Q
              /\ m \notin Q /\ Ends(Q, V, buffer) => Ends(Q, V, buffer')
              /\ m \in Rows(x) /\ m \in Q /\ m \in V => Ends(Q, V, buffer')
              /\ In(Q, buffer) => In(Q, buffer')
  <2>1. In(Q, Append(buffer, m)) <=> In(Q, buffer) \/ m \in Q
    BY <1>1, InAppend
  <2>2. /\ m \in Q /\ m \in V => Ends(Q, V, Append(buffer, m))
        /\ m \notin Q /\ Ends(Q, V, buffer) => Ends(Q, V, Append(buffer, m))
    BY <1>1, EndsAppend
  <2> QED
    BY <1>1, <1>10, <2>1, <2>2
<1>11. MendsInv(x)'
  <2>1. ASSUME x \in mends PROVE Loading
    BY <1>0, <2>1 DEF Shape, Loading
  <2>2. ASSUME x \in mends, m \in Rows(x), m \in True(x) PROVE WillShow(x)'
    <3>1. Ends(Rows(x), True(x), buffer') /\ In(Rows(x), buffer')
      BY <1>10, <2>1, <2>2
    <3> QED
      BY <1>5, <3>1 DEF WillShow
  <2>3. ASSUME x \in mends, m \notin Rows(x), WillShow(x) PROVE WillShow(x)'
    <3>1. Ends(Rows(x), True(x), buffer') /\ (In(Rows(x), buffer) => In(Rows(x), buffer'))
      BY <1>10, <2>1, <2>3 DEF WillShow
    <3>2. answer'[x] = answer[x] /\ AsShown(standing[x])' = AsShown(standing[x])
      BY <1>2 DEF registry, AsShown
    <3> QED
      BY <1>5, <2>3, <3>1, <3>2 DEF WillShow
  <2> QED
    BY <1>0, <1>2, <1>5, <1>6, <2>2, <2>3 DEF RowInv, MendsInv
<1>12. KeptInv(x)'
  <2>1. KeptInv(x)
    BY <1>0 DEF RowInv
  <2>2. CASE ~Loading
    <3>1. Ends(Rows(x), Showing(x)', buffer') /\ page' # "answered"
      BY <1>1, <1>2, <2>2, NothingEnds DEF In, Loading
    <3> QED
      BY <1>5, <3>1 DEF KeptInv
  <2>3. CASE Loading
    <3>1. page # "deaf" /\ page' = page /\ mends' = mends
      BY <1>2, <2>3 DEF Loading
    <3>2. m \in Rows(x) => m \in Showing(x)'
      BY <1>1, <3>1 DEF Showing
    <3>3. m \notin Rows(x) => Showing(x)' = Showing(x)
      BY <1>1 DEF Showing
    <3>4. Ends(Rows(x), Showing(x)', buffer')
      BY <1>10, <2>1, <2>3, <3>2, <3>3 DEF KeptInv
    <3>5. page' = "answered" /\ x \notin stale' /\ x \notin mends' =>
             Coming(x)' \/ In(Rows(x), buffer')
      BY <1>1, <1>6, <1>10, <2>1, <2>3, <3>1 DEF KeptInv
    <3> QED
      BY <1>5, <3>4, <3>5 DEF KeptInv
  <2> QED
    BY <2>2, <2>3
<1>13. EndedInv(x)'
  <2>1. EndedInv(x)
    BY <1>0 DEF NoticeInv
  <2>2. Word(Ended(x), out, channel) <=> Word(Ended(x), out', channel') \/ m \in Ended(x)
    BY <1>3
  <2>3. In(Ended(x), buffer') => In(Ended(x), buffer) \/ m \in Ended(x)
    BY <1>1, <1>10
  <2> QED
    BY <1>2, <2>1, <2>2, <2>3 DEF EndedInv, Ended, registry
<1>14. ASSUME NEW k \in Cause PROVE ToastInv(x, k)'
  <2>1. ToastInv(x, k) /\ EndedInv(x)
    BY <1>0 DEF NoticeInv
  <2>2. Right(x, k)' = Right(x, k) /\ Notices(x, k)' = Notices(x, k)
    BY <1>2 DEF registry, Right, RightOf, Notices
  <2>3. /\ Tells(Notices(x, k), Right(x, k), out, channel) =>
              Tells(Notices(x, k), Right(x, k), out', channel')
        /\ Word(Notices(x, k), out, channel) <=>
              Word(Notices(x, k), out', channel') \/ m \in Notices(x, k)
        /\ Tells(Notices(x, k), Right(x, k), out, channel) /\ m \in Notices(x, k)
              /\ ~Word(Notices(x, k), out', channel') => m \in Right(x, k)
    BY <1>3
  <2>4. m \in Right(x, k) => (m.kind = "raised" <=> k \in notices[x])
    BY DEF Right, RightOf
  <2>5. m \in Ended(x) => notices[x] = {}
    <3>1. m \in Ended(x) => Word(Ended(x), out, channel)
      BY <1>3
    <3> QED
      BY <2>1, <3>1 DEF EndedInv, Present
  <2>6. ASSUME x \notin silent', m \in Notices(x, k), m \in Right(x, k) PROVE ToastIs(x, k)'
    BY <1>2, <1>4, <2>4, <2>6 DEF ToastIs, registry
  <2>7. ASSUME m \notin Notices(x, k), ToastIs(x, k) PROVE ToastIs(x, k)'
    <3>1. /\ m \notin Ended(x) => (k \in toasts'[x] <=> k \in toasts[x])
          /\ k \in toasts'[x] => k \in toasts[x]
      BY <1>4, <2>7
    <3> QED
      BY <1>2, <2>5, <2>7, <3>1 DEF ToastIs, registry
  <2>8. x \notin silent' => x \notin silent
    BY <1>4
  <2> QED
    BY <2>1, <2>2, <2>3, <2>6, <2>7, <2>8 DEF ToastInv
<1> QED
  BY <1>8, <1>9, <1>11, <1>12, <1>13, <1>14 DEF RowInv, NoticeInv

-----------------------------------------------------------------------------
(* The page loads a snapshot.                                              *)

LEMMA NothingTells == ASSUME NEW Q, NEW V, NEW B, NEW q, ~Word(Q, B, q) PROVE Tells(Q, V, B, q)
<1>1. Ends(Q, V, q) /\ \A j \in DOMAIN B : Ends(Q, V, B[j])
  BY NothingEnds DEF Word, Within
<1> QED
  BY <1>1 DEF Tells, EndsLast

LEMMA OnTheWay ==
    ASSUME NEW M, NEW B \in Seq(Seq(M)), NEW q \in Seq(M), NEW r \in Seq(M), NEW Q
    PROVE  /\ B \o <<q, r>> \in Seq(Seq(M))
           /\ Within(Q, B \o <<q, r>>) <=> Word(Q, B, q) \/ In(Q, r)
<1> DEFINE P == {z \in Seq(M) : In(Q, z)}
           two == <<q, r>>
<1>1. two \in Seq(Seq(M)) /\ DOMAIN two = {1, 2} /\ two[1] = q /\ two[2] = r
  OBVIOUS
<1>2. In(P, two) <=> In(Q, q) \/ In(Q, r)
  <2> HIDE DEF two
  <2> QED
    BY <1>1 DEF In
<1> HIDE DEF two
<1>3. B \o two \in Seq(Seq(M))
  BY <1>1, Joined
<1>4. ASSUME NEW C \in Seq(Seq(M)) PROVE In(P, C) <=> Within(Q, C)
  <2>1. \A j \in DOMAIN C : C[j] \in Seq(M)
    OBVIOUS
  <2>2. \A j \in DOMAIN C : C[j] \in P <=> In(Q, C[j])
    BY <2>1
  <2> HIDE DEF P
  <2>3. In(P, C) <=> \E j \in DOMAIN C : C[j] \in P
    BY DEF In
  <2> QED
    BY <2>2, <2>3 DEF Within
<1> HIDE DEF P
<1>5. In(P, B \o two) <=> In(P, B) \/ In(P, two)
  BY <1>1, InJoin
<1>6. Within(Q, B \o two) <=> Within(Q, B) \/ In(Q, q) \/ In(Q, r)
  BY <1>2, <1>3, <1>4, <1>5
<1> QED
  BY <1>3, <1>6 DEF Word, two

(* What a step of the page leaves alone.                                   *)
LEMMA PageKeeps ==
    ASSUME NEW x \in Session, RowInv(x), NoticeInv(x),
           UNCHANGED <<registry, owes, out, channel, shell, badge, opens, lost, silent>>,
           In(Ended(x), buffer') => In(Ended(x), buffer),
           toasts'[x] = toasts[x] \/ (toasts'[x] = {} /\ notices[x] = {})
    PROVE  /\ BadgeInv(x)' /\ NoticeInv(x)'
           /\ Owed(x)' <=> Owed(x)
           /\ Towards(x)' <=> Towards(x)
           /\ Coming(x)' <=> Coming(x)
           /\ True(x)' = True(x) /\ Rows(x)' = Rows(x) /\ standing' = standing
<1>1. standing' = standing /\ notices' = notices
  BY DEF registry
<1>2. True(x)' = True(x) /\ Rows(x)' = Rows(x)
  BY <1>1 DEF True, AsShown, Rows
<1>3. Owed(x)' <=> Owed(x)
  BY <1>1 DEF Owed
<1>4. (Towards(x)' <=> Towards(x)) /\ (Coming(x)' <=> Coming(x))
  BY <1>2 DEF Towards, Coming
<1>5. BadgeInv(x)'
  BY <1>1, <1>3, <1>4 DEF RowInv, BadgeInv, Counts
<1>6. EndedInv(x)'
  BY <1>1 DEF NoticeInv, EndedInv, Ended
<1>7. ASSUME NEW k \in Cause PROVE ToastInv(x, k)'
  <2>1. ToastInv(x, k)
    BY DEF NoticeInv
  <2>2. Right(x, k)' = Right(x, k) /\ Notices(x, k)' = Notices(x, k)
    BY <1>1 DEF Right, RightOf, Notices
  <2>3. ToastIs(x, k) => ToastIs(x, k)'
    BY <1>1 DEF ToastIs
  <2> QED
    BY <2>1, <2>2, <2>3 DEF ToastInv
<1> QED
  BY <1>1, <1>2, <1>3, <1>4, <1>5, <1>6, <1>7 DEF NoticeInv

LEMMA NothingIn == \A Q, V : ~In(Q, <<>>) /\ Ends(Q, V, <<>>)
BY DEF In, Ends

LEMMA AskInv ==
    ASSUME IInv, LoadSnapshot \/ SnapshotFails
    PROVE  \A x \in Session : (RowInv(x) /\ NoticeInv(x))'
<1> SUFFICES ASSUME NEW x \in Session PROVE RowInv(x)' /\ NoticeInv(x)'
  OBVIOUS
<1>1. RowInv(x) /\ NoticeInv(x) /\ mends' = {}
  BY DEF IInv, Shape, LoadSnapshot, SnapshotFails, history
<1>2. /\ UNCHANGED <<registry, owes, out, channel, shell, badge, opens, lost, silent,
                     shows, toasts, stale>>
      /\ buffer' = <<>> /\ page' \in {"asked", "idle"}
  BY DEF LoadSnapshot, SnapshotFails, history
<1>3. /\ BadgeInv(x)' /\ NoticeInv(x)'
      /\ Owed(x)' <=> Owed(x)
      /\ Towards(x)' <=> Towards(x)
      /\ Coming(x)' <=> Coming(x)
      /\ standing' = standing
  BY <1>1, <1>2, NothingIn, PageKeeps
<1>4. ShowsInv(x)'
  BY <1>1, <1>2, <1>3 DEF RowInv, ShowsInv, ShowsIt, AsShown
<1>5. KeptInv(x)' /\ MendsInv(x)'
  BY <1>1, <1>2, NothingIn DEF KeptInv, MendsInv
<1> QED
  BY <1>3, <1>4, <1>5 DEF RowInv

LEMMA TakeInv ==
    ASSUME IInv, TakeSnapshot
    PROVE  \A x \in Session : (RowInv(x) /\ NoticeInv(x))'
<1> SUFFICES ASSUME NEW x \in Session PROVE RowInv(x)' /\ NoticeInv(x)'
  OBVIOUS
<1>1. RowInv(x) /\ NoticeInv(x)
  BY DEF IInv
<1>2. /\ UNCHANGED <<registry, owes, out, channel, shell, badge, opens, lost, silent,
                     shows, toasts, stale, buffer>>
      /\ answer'[x] = AsShown(standing[x])
      /\ x \in mends' <=> ~About(x, OfRows, out \o <<channel, buffer>>)
  BY DEF TakeSnapshot
<1>3. /\ BadgeInv(x)' /\ NoticeInv(x)'
      /\ Owed(x)' <=> Owed(x)
      /\ Towards(x)' <=> Towards(x)
      /\ Coming(x)' <=> Coming(x)
      /\ True(x)' = True(x) /\ Rows(x)' = Rows(x) /\ standing' = standing
  BY <1>1, <1>2, PageKeeps
<1>4. ShowsInv(x)'
  BY <1>1, <1>2, <1>3 DEF RowInv, ShowsInv, ShowsIt, AsShown
<1>5. x \in mends' <=> ~Coming(x) /\ ~In(Rows(x), buffer)
  <2>1. out \in Seq(Seq(Message)) /\ channel \in Seq(Message) /\ buffer \in Seq(Message)
    BY DEF IInv, Shape, TypeOK
  <2>2. /\ out \o <<channel, buffer>> \in Seq(Seq(Message))
        /\ Within(Rows(x), out \o <<channel, buffer>>) <=>
               Word(Rows(x), out, channel) \/ In(Rows(x), buffer)
    BY <2>1, OnTheWay
  <2>3. About(x, OfRows, out \o <<channel, buffer>>)
            <=> Within(Rows(x), out \o <<channel, buffer>>)
    BY <2>2, AboutIs
  <2> QED
    BY <1>2, <2>2, <2>3 DEF Coming
<1>6. MendsInv(x)'
  <2> SUFFICES ASSUME x \in mends' PROVE Towards(x)' /\ WillShow(x)'
    BY DEF MendsInv
  <2>1. Towards(x)'
    BY <1>3, <1>5, NothingTells DEF Towards, Coming
  <2>2. Ends(Rows(x), True(x), buffer)
    BY <1>5, NothingEnds
  <2> QED
    BY <1>2, <1>3, <2>1, <2>2 DEF WillShow, AsShown
<1>7. KeptInv(x)'
  BY <1>1, <1>2, <1>3, <1>5 DEF RowInv, KeptInv, Showing
<1> QED
  BY <1>3, <1>4, <1>6, <1>7 DEF RowInv

LEMMA ArriveInv ==
    ASSUME IInv, SnapshotArrives
    PROVE  \A x \in Session : (RowInv(x) /\ NoticeInv(x))'
<1> SUFFICES ASSUME NEW x \in Session PROVE RowInv(x)' /\ NoticeInv(x)'
  OBVIOUS
<1>1. RowInv(x) /\ NoticeInv(x) /\ Shape
  BY DEF IInv
<1>2. /\ UNCHANGED <<registry, owes, out, channel, shell, badge, opens, lost, silent>>
      /\ shows' = Reconciled /\ stale' = stale \ mends /\ mends' = {}
      /\ page = "answered" /\ page' = "idle" /\ buffer' = <<>>
      /\ toasts'[x] = IF \E k \in DOMAIN buffer : buffer[k].session = x /\ buffer[k].kind = "gone"
                      THEN {} ELSE toasts[x]
  BY DEF SnapshotArrives
<1>3. toasts'[x] = toasts[x] \/ (toasts'[x] = {} /\ notices[x] = {})
  <2>1. ASSUME NEW k \in DOMAIN buffer, buffer[k].session = x, buffer[k].kind = "gone"
        PROVE  notices[x] = {}
    <3>1. buffer[k] \in Message
      BY <1>1 DEF Shape, TypeOK
    <3>2. In(Ended(x), buffer)
      BY <2>1, <3>1 DEF In, Ended
    <3> QED
      BY <1>1, <3>2 DEF NoticeInv, EndedInv, Present
  <2> QED
    BY <1>2, <2>1
<1>4. /\ BadgeInv(x)' /\ NoticeInv(x)'
      /\ Owed(x)' <=> Owed(x)
      /\ Towards(x)' <=> Towards(x)
      /\ Coming(x)' <=> Coming(x)
      /\ True(x)' = True(x) /\ Rows(x)' = Rows(x) /\ standing' = standing
  BY <1>1, <1>2, <1>3, NothingIn, PageKeeps
<1>5. KeptInv(x)' /\ MendsInv(x)'
  BY <1>2, NothingIn DEF KeptInv, MendsInv
<1>6. ASSUME NEW V, Ends(Rows(x), V, buffer), In(Rows(x), buffer)
      PROVE  \E e \in V : Reconciled[x] = e.what
  <2>1. PICK k \in DOMAIN buffer :
           /\ buffer[k] \in Rows(x) /\ Reconciled[x] = buffer[k].what
           /\ \A l \in DOMAIN buffer : k < l => buffer[l] \notin Rows(x)
    BY <1>1, <1>6, ReconciledIs
  <2>2. buffer[k] \in V
    BY <1>6, <2>1 DEF Ends
  <2> QED
    BY <2>1, <2>2
<1>7. ~In(Rows(x), buffer) => Reconciled[x] = answer[x]
  BY <1>1, ReconciledIs DEF In
<1>8. ShowsIt(x)' <=> Reconciled[x] = AsShown(standing[x])
  BY <1>2, <1>4 DEF ShowsIt, AsShown
<1>9. WillShow(x) => ShowsIt(x)'
  <2>1. \A e \in True(x) : e.what = AsShown(standing[x])
    BY DEF True
  <2> QED
    BY <1>6, <1>7, <1>8, <2>1 DEF WillShow
<1>10. KeptInv(x) /\ In(Rows(x), buffer) /\ ShowsIt(x) => ShowsIt(x)'
  <2>1. \A e \in Showing(x) : e.what = shows[x]
    BY DEF Showing
  <2> QED
    BY <1>6, <1>8, <2>1 DEF KeptInv, ShowsIt
<1>11. ShowsInv(x)'
  <2>1. CASE x \in mends
    BY <1>1, <1>4, <1>9, <2>1 DEF RowInv, MendsInv, ShowsInv
  <2>2. CASE x \notin mends
    BY <1>1, <1>2, <1>4, <1>10, <2>2 DEF RowInv, KeptInv, ShowsInv
  <2> QED
    BY <2>1, <2>2
<1> QED
  BY <1>4, <1>5, <1>11 DEF RowInv

(* The window is opened again.                                             *)
LEMMA ReopenInv ==
    ASSUME IInv, Reopen
    PROVE  \A x \in Session : (RowInv(x) /\ NoticeInv(x))'
<1> SUFFICES ASSUME NEW x \in Session PROVE RowInv(x)' /\ NoticeInv(x)'
  OBVIOUS
<1>1. /\ RowInv(x) /\ NoticeInv(x)
      /\ out \in Seq(Seq(Message)) /\ opens \in Nat
  BY StreamAssumption DEF IInv, Shape, TypeOK
<1>2. /\ UNCHANGED <<registry, owes, out>>
      /\ channel' = <<>> /\ buffer' = <<>> /\ mends' = {} /\ page' = "deaf"
      /\ opens' = opens + 1 /\ toasts'[x] = {}
      /\ shell' = "asks"
      /\ x \in stale'
      /\ x \in lost' <=> x \in lost /\ About(x, OfRows, out)
      /\ x \in silent' <=> x \in silent /\ About(x, OfNotices, out)
  BY <1>1 DEF Reopen, IInv, Shape, TypeOK
<1>3. standing' = standing /\ notices' = notices
  BY <1>2 DEF registry
<1>4. /\ About(x, OfRows, out) <=> Within(Rows(x), out)
      /\ \A k : Within(Notices(x, k), out) => About(x, OfNotices, out)
  BY <1>1, AboutIs
<1>5. ASSUME NEW Q, NEW V, Tells(Q, V, out, channel) \/ ~Within(Q, out)
      PROVE  Tells(Q, V, out', channel')
  <2>1. ~Within(Q, out) => Tells(Q, V, out, <<>>)
    BY NothingIn, NothingTells DEF Word
  <2>2. Tells(Q, V, out, channel) => Tells(Q, V, out, <<>>)
    BY QueueGone
  <2> QED
    BY <1>2, <1>5, <2>1, <2>2
<1>6. BadgeInv(x)'
  <2>1. True(x)' = True(x) /\ Rows(x)' = Rows(x) /\ (Owed(x)' <=> Owed(x)) /\ Counts(x)'
    BY <1>2, <1>3 DEF True, Rows, AsShown, Owed, Counts
  <2>2. Towards(x) \/ ~Within(Rows(x), out) => Towards(x)'
    BY <1>5, <2>1 DEF Towards
  <2> QED
    BY <1>1, <1>2, <1>4, <2>1, <2>2 DEF RowInv, BadgeInv
<1>7. ShowsInv(x)' /\ MendsInv(x)' /\ KeptInv(x)'
  BY <1>2, NothingIn DEF ShowsInv, MendsInv, KeptInv
<1>8. EndedInv(x)'
  <2>1. Word(Ended(x), out', channel') => Word(Ended(x), out, channel)
    BY <1>2, NothingIn DEF Word
  <2> QED
    BY <1>1, <1>2, <1>3, <2>1, NothingIn DEF NoticeInv, EndedInv, Ended
<1>9. ASSUME NEW k \in Cause PROVE ToastInv(x, k)'
  <2>1. Right(x, k)' = Right(x, k) /\ Notices(x, k)' = Notices(x, k)
    BY <1>3 DEF Right, RightOf, Notices
  <2>2. ToastIs(x, k)'
    BY <1>1, <1>2 DEF ToastIs
  <2>3. x \notin silent' =>
            Tells(Notices(x, k), Right(x, k), out, channel) \/ ~Within(Notices(x, k), out)
    BY <1>1, <1>2, <1>4 DEF NoticeInv, ToastInv
  <2> QED
    BY <1>5, <2>1, <2>2, <2>3 DEF ToastInv
<1> QED
  BY <1>6, <1>7, <1>8, <1>9 DEF RowInv, NoticeInv

(* The shell's bridge has its snapshot, or has waited long enough for it.  *)
LEMMA FollowsInv ==
    ASSUME IInv, ShellFollows
    PROVE  \A x \in Session : (RowInv(x) /\ NoticeInv(x))'
<1> SUFFICES ASSUME NEW x \in Session PROVE RowInv(x)' /\ NoticeInv(x)'
  OBVIOUS
<1>1. /\ RowInv(x) /\ NoticeInv(x) /\ (shell = "asks" => badge = {})
      /\ out \in Seq(Seq(Message)) /\ channel \in Seq(Message)
  BY DEF IInv, Shape, TypeOK
<1>2. /\ UNCHANGED <<registry, owes, out, channel, page, answer, buffer, shows, toasts,
                     opens, stale, mends, silent>>
      /\ shell = "asks" /\ shell' = "follows"
      /\ \/ /\ badge' = Waiting
            /\ x \in lost' <=> x \in lost /\ About(x, OfRows, Append(out, channel))
         \/ /\ badge' = {}
            /\ x \in lost' <=> \/ x \in lost
                               \/ x \in Waiting /\ ~About(x, OfRows, Append(out, channel))
  BY <1>1 DEF ShellFollows, pageVars
<1>3. standing' = standing /\ notices' = notices
  BY <1>2 DEF registry
<1>4. True(x)' = True(x) /\ Rows(x)' = Rows(x)
  BY <1>3 DEF True, AsShown, Rows
<1>5. (Owed(x)' <=> Owed(x)) /\ (Towards(x)' <=> Towards(x)) /\ (Coming(x)' <=> Coming(x))
  BY <1>2, <1>3, <1>4 DEF Owed, Towards, Coming
<1>6. BadgeInv(x)'
  <2>1. /\ ~About(x, OfRows, Append(out, channel)) => Towards(x)
        /\ About(x, OfRows, Append(out, channel)) => Coming(x)
    <3>1. /\ Append(out, channel) \in Seq(Seq(Message))
          /\ Within(Rows(x), Append(out, channel)) <=> Word(Rows(x), out, channel)
      BY <1>1, WithinAppend DEF Word
    <3> QED
      BY <3>1, AboutIs, NothingTells DEF Towards, Coming
  <2>2. x \notin lost' => (Counts(x)' \/ Coming(x)) /\ (x \notin lost \/ Towards(x))
    BY <1>2, <1>3, <2>1 DEF Counts, Waiting
  <2> QED
    BY <1>1, <1>5, <2>2 DEF RowInv, BadgeInv
<1>7. ShowsInv(x)' /\ MendsInv(x)' /\ KeptInv(x)'
  BY <1>1, <1>2, <1>3, <1>4, <1>5
     DEF RowInv, ShowsInv, MendsInv, KeptInv, ShowsIt, WillShow, Showing, AsShown
<1>8. NoticeInv(x)'
  BY <1>1, <1>2, <1>3
     DEF NoticeInv, EndedInv, ToastInv, ToastIs, Ended, Right, RightOf, Notices
<1> QED
  BY <1>6, <1>7, <1>8 DEF RowInv

LEMMA RestInv ==
    ASSUME IInv, UNCHANGED vars
    PROVE  \A x \in Session : (RowInv(x) /\ NoticeInv(x))'
<1> SUFFICES ASSUME NEW x \in Session PROVE RowInv(x)' /\ NoticeInv(x)'
  OBVIOUS
<1>1. RowInv(x) /\ NoticeInv(x)
  BY DEF IInv
<1>2. UNCHANGED <<registry, owes, out, channel, shell, badge, page, answer, buffer, shows, toasts,
                  opens, lost, stale, mends, silent>>
  BY DEF vars, window, pageVars, history
<1>3. /\ BadgeInv(x)' /\ NoticeInv(x)'
      /\ Owed(x)' <=> Owed(x)
      /\ Towards(x)' <=> Towards(x)
      /\ Coming(x)' <=> Coming(x)
      /\ True(x)' = True(x) /\ Rows(x)' = Rows(x) /\ standing' = standing
  BY <1>1, <1>2, PageKeeps
<1>4. ShowsInv(x)'
  BY <1>1, <1>2, <1>3 DEF RowInv, ShowsInv, ShowsIt, AsShown
<1>5. MendsInv(x)'
  BY <1>1, <1>2, <1>3 DEF RowInv, MendsInv, WillShow, AsShown
<1>6. KeptInv(x)'
  BY <1>1, <1>2, <1>3 DEF RowInv, KeptInv, Showing
<1> QED
  BY <1>3, <1>4, <1>5, <1>6 DEF RowInv

-----------------------------------------------------------------------------
(* The theorems.                                                           *)

LEMMA InvNext == ASSUME IInv, [Next]_vars PROVE IInv'
<1>1. Shape'
  BY ShapeNext DEF IInv
<1>2. \A x \in Session : (RowInv(x) /\ NoticeInv(x))'
  <2>1. ASSUME NEW s \in Session, Registry(s)
        PROVE  \A x \in Session : (RowInv(x) /\ NoticeInv(x))'
    BY <2>1, RegistryInv
  <2>2. ASSUME Sender PROVE \A x \in Session : (RowInv(x) /\ NoticeInv(x))'
    BY <2>2, SentInv DEF Sender
  <2>3. ASSUME Page PROVE \A x \in Session : (RowInv(x) /\ NoticeInv(x))'
    BY <2>3, AskInv, TakeInv, ArriveInv DEF Page
  <2> QED
    BY <2>1, <2>2, <2>3, DeliverInv, ReopenInv, FollowsInv, RestInv DEF Next
<1> QED
  BY <1>1, <1>2 DEF IInv

(* The rows, the events on their way and what the window keeps of them     *)
(* have the types of TypeOK, whatever the registry's threads send and the  *)
(* queue drops.                                                            *)
THEOREM TypeHolds == Spec => []TypeOK
<1>1. IInv => TypeOK
  BY DEF IInv, Shape
<1> QED
  BY <1>1, InvInit, InvNext, PTL DEF Spec

LEMMA AllSent == ASSUME AtRest PROVE \A x : ~Owed(x) /\ \A Q : ~Word(Q, out, channel)
<1>1. \A Q : ~Within(Q, <<>>)
  BY DEF Within
<1> QED
  BY <1>1, NothingIn DEF AtRest, Owed, Word

(* However threads overtake each other and whatever the queue drops: once  *)
(* nothing is on its way, the page that has loaded shows every row as it   *)
(* is whose last word did not go astray or was put right.                  *)
THEOREM ShowsHolds == Spec => []ShowsTheFleet
<1>1. ASSUME IInv PROVE ShowsTheFleet
  BY <1>1, AllSent DEF IInv, RowInv, ShowsInv, Coming, ShowsIt, ShowsTheFleet
<1> QED
  BY <1>1, InvInit, InvNext, PTL DEF Spec

(* The same of whom the badge of a shell that follows counts, but for the  *)
(* sessions that waited, with no word of them on its way, when its         *)
(* snapshot was not answered in time.                                      *)
THEOREM BadgeHolds == Spec => []BadgeCountsTheWaiting
<1>1. ASSUME IInv PROVE BadgeCountsTheWaiting
  BY <1>1, AllSent DEF IInv, RowInv, BadgeInv, Coming, Counts,
     BadgeCountsTheWaiting
<1> QED
  BY <1>1, InvInit, InvNext, PTL DEF Spec

(* Once nothing is on its way, no toast outlives its notice, and a page    *)
(* that was there from the start has one for each.                         *)
THEOREM ToastsHold == Spec => []ToastsFollowNotices
<1>1. ASSUME IInv PROVE ToastsFollowNotices
  <2> SUFFICES ASSUME AtRest, NEW s \in Session, s \notin silent
               PROVE  toasts[s] \subseteq notices[s] /\ (opens = 0 => toasts[s] = notices[s])
    BY DEF ToastsFollowNotices
  <2>1. toasts[s] \subseteq Cause /\ notices[s] \subseteq Cause
    BY <1>1 DEF IInv, Shape, TypeOK
  <2>2. \A k \in Cause : ToastIs(s, k)
    BY <1>1, AllSent DEF IInv, NoticeInv, ToastInv
  <2> QED
    BY <2>1, <2>2 DEF ToastIs
<1> QED
  BY <1>1, InvInit, InvNext, PTL DEF Spec
-----------------------------------------------------------------------------
(* What the registry notices.                                              *)
(*                                                                         *)
(* NoticesAreCurrent speaks of each session alone, and all but the sweep   *)
(* touch one session at a time, so the proof keeps the invariant of one    *)
(* session, Current(s), and each step shows it of the session it changes.  *)
(* To it belongs that only a row that works is held to work long: the      *)
(* sweep raises a stall's notice by that alone.                            *)

Current(s) ==
    /\ StatusNotice(s) /\ StallNotice(s) /\ HeldBack(s)
    /\ s \in held => status[s] = "Working"
CenterInv == AttentionTypeOK /\ \A s \in Session : Current(s)

LEMMA CenterTypeInit == AttentionInit => AttentionTypeOK
BY DEF AttentionInit, AttentionTypeOK, Status

LEMMA CenterTypeNext == ASSUME AttentionTypeOK, [AttentionNext]_attentionVars PROVE AttentionTypeOK'
<1>1. CASE RecheckNotifications
  <2>1. \A s \in Session : Rechecked(s) \subseteq Key
    BY DEF Rechecked, Lasts, AttentionTypeOK, Key, Status, Live, Wanting
  <2>2. QED BY <1>1, <2>1 DEF RecheckNotifications, AttentionTypeOK
<1>2. CASE \E s \in Session : Row(s)
  <2>1. PICK s \in Session : Row(s)
    BY <1>2
  <2> DEFINE Lives == life' \in [Session -> {"down", "prepared", "running"}]
  <2>2. ASSUME NEW v \in Status, NEW grace \in BOOLEAN, SetStatus(s, v),
               Observe(s, v, grace), Lives
        PROVE AttentionTypeOK'
    BY <2>2 DEF SetStatus, Observe, AttentionTypeOK, Key, Suppressed, Raised,
       center
  <2>3. ASSUME NEW v \in Status, SetStatus(s, v), UNCHANGED center, Lives
        PROVE AttentionTypeOK'
    BY <2>3 DEF SetStatus, AttentionTypeOK, center
  <2>4. ASSUME NEW v \in Reports, NEW grace \in BOOLEAN, ApplyHook(s, v, grace)
        PROVE AttentionTypeOK'
    <3>1. v \in Status
      BY AttentionAssumption DEF Status, Live
    <3>2. Lives
      BY <2>4 DEF ApplyHook, AttentionTypeOK
    <3>3. QED BY <2>2, <2>4, <3>1, <3>2 DEF ApplyHook
  <2>5. CASE HandleOutput(s) \/ MarkProcessExit(s) \/ StartEnds(s)
    <3>1. Lives
      BY <2>5 DEF HandleOutput, MarkProcessExit, StartEnds, AttentionTypeOK
    <3>2. QED BY <2>2, <2>5, <3>1
           DEF HandleOutput, MarkProcessExit, StartEnds, Status, Live
  <2>6. CASE MarkProcessUnknown(s) \/ Begin(s) \/ Enqueue(s)
    <3>1. Lives
      BY <2>6 DEF MarkProcessUnknown, Begin, Enqueue, AttentionTypeOK
    <3>2. QED BY <2>3, <2>6, <3>1
           DEF MarkProcessUnknown, Begin, Enqueue, Status, Live, center
  <2>7. CASE RemoveEntry(s)
    BY <2>7 DEF RemoveEntry, AttentionTypeOK, Status
  <2>8. CASE WorksLong(s) \/ GraceEnds(s) \/ Registers(s)
    BY <2>8 DEF WorksLong, GraceEnds, Registers, AttentionTypeOK, rows, center
  <2>9. QED BY <2>1, <2>4, <2>5, <2>6, <2>7, <2>8 DEF Row
<1>3. CASE UNCHANGED attentionVars
  BY <1>3 DEF attentionVars, rows, center, AttentionTypeOK
<1>4. QED BY <1>1, <1>2, <1>3 DEF AttentionNext

(* The values of every variable have the types of TypeOK, whatever the     *)
(* hooks report and the monitors see (SessionStatus, NotificationCenter).  *)
THEOREM CenterTypeHolds == AttentionSpec => []AttentionTypeOK
<1>1. AttentionInit => AttentionTypeOK BY CenterTypeInit
<1>2. AttentionTypeOK /\ [AttentionNext]_attentionVars => AttentionTypeOK' BY CenterTypeNext
<1>3. QED BY <1>1, <1>2, PTL DEF AttentionSpec

----------------------------------------------------------------------------
(* A step that leaves alone what Current(s) reads keeps it.                *)
LEMMA SameView ==
    ASSUME NEW s \in Session, Current(s),
           status'[s] = status[s], active'[s] = active[s], pending'[s] = pending[s],
           s \in held' => s \in held
    PROVE  Current(s)'
BY DEF Current, StatusNotice, StallNotice, HeldBack

(* A row whose status the center is not asked about keeps its notices.     *)
LEMMA UnaskedCurrent ==
    ASSUME AttentionTypeOK, NEW s \in Session, Current(s),
           NEW v \in Unasked, SetStatus(s, v), UNCHANGED center
    PROVE  Current(s)'
<1>1. /\ status'[s] = v /\ active'[s] = active[s] /\ pending'[s] = pending[s]
      /\ s \in held' => s \in held /\ status[s] = v
  BY DEF SetStatus, center, AttentionTypeOK
<1>2. s \notin held'
  BY <1>1 DEF Current, Unasked
<1>3. StatusNotice(s)'
  BY <1>1 DEF Current, StatusNotice
<1>4. QED BY <1>1, <1>2, <1>3 DEF Current, StallNotice, HeldBack

(* observe leaves the session with what is due to the status it moved to.  *)
LEMMA ObserveCurrent ==
    ASSUME AttentionTypeOK, NEW s \in Session, Current(s),
           NEW v \in Status, NEW grace \in BOOLEAN,
           SetStatus(s, v), Observe(s, v, grace)
    PROVE  Current(s)'
<1>1. status'[s] = v /\ (s \in held' => s \in held /\ status[s] = v)
  BY DEF SetStatus, AttentionTypeOK
<1>2. CASE Raised(s, v)
  <2>1. active'[s] = active[s] /\ pending'[s] = pending[s]
    BY <1>2 DEF Observe, center
  <2>2. v \in Wanting /\ v \in active[s]
    BY <1>2 DEF Raised
  <2>3. active[s] = {v}
    BY <2>2 DEF Current, StatusNotice
  <2>4. pending[s] = "none"
    BY <2>2 DEF Current, HeldBack
  <2>5. QED BY <1>1, <2>1, <2>2, <2>3, <2>4
         DEF Current, StatusNotice, StallNotice, HeldBack, Wanting
<1>3. CASE ~Raised(s, v)
  <2>1. /\ pending'[s] = (IF Suppressed(s, v, grace) THEN v ELSE "none")
        /\ active'[s] = (IF v \in Wanting /\ ~Suppressed(s, v, grace) THEN {v} ELSE {})
    BY <1>3 DEF Observe, AttentionTypeOK
  <2>2. CASE Suppressed(s, v, grace)
    BY <1>1, <2>1, <2>2 DEF Current, StatusNotice, StallNotice, HeldBack, Wanting
  <2>3. CASE ~Suppressed(s, v, grace)
    BY <1>1, <2>1, <2>3 DEF Current, StatusNotice, StallNotice, HeldBack, Wanting
  <2>4. QED BY <2>2, <2>3
<1>4. QED BY <1>2, <1>3

(* What a step of one session leaves alone: every other one.               *)
LEMMA RowTouchesOne ==
    ASSUME AttentionTypeOK, NEW s \in Session, Row(s), NEW t \in Session, t # s
    PROVE  /\ status'[t] = status[t] /\ active'[t] = active[t] /\ pending'[t] = pending[t]
           /\ t \in held' => t \in held
BY DEF Row, ApplyHook, HandleOutput, MarkProcessExit, MarkProcessUnknown,
       Begin, Enqueue, Registers, StartEnds, RemoveEntry, WorksLong, GraceEnds, SetStatus, Observe, AttentionTypeOK, center, rows

LEMMA RowCurrent ==
    ASSUME AttentionTypeOK, NEW s \in Session, Current(s), Row(s) PROVE Current(s)'
<1>1. ASSUME NEW v \in Reports, NEW grace \in BOOLEAN, ApplyHook(s, v, grace)
      PROVE  Current(s)'
  <2>1. v \in Status
    BY AttentionAssumption DEF Status, Live
  <2>2. QED BY <1>1, <2>1, ObserveCurrent DEF ApplyHook
<1>2. CASE HandleOutput(s) \/ MarkProcessExit(s) \/ StartEnds(s)
  BY <1>2, ObserveCurrent DEF HandleOutput, MarkProcessExit, StartEnds, Status, Live
<1>3. CASE MarkProcessUnknown(s) \/ Begin(s) \/ Enqueue(s)
  BY <1>3, UnaskedCurrent
     DEF MarkProcessUnknown, Begin, Enqueue, Unasked, center
<1>5. CASE RemoveEntry(s)
  BY <1>5 DEF RemoveEntry, AttentionTypeOK, Current, StatusNotice, StallNotice,
     HeldBack
<1>6. CASE WorksLong(s)
  BY <1>6 DEF WorksLong, center, Current, StatusNotice, StallNotice, HeldBack
<1>7. CASE GraceEnds(s)
  BY <1>7, SameView DEF GraceEnds, rows
<1>8. CASE Registers(s)
  BY <1>8, SameView DEF Registers, center
<1>9. QED BY <1>1, <1>2, <1>3, <1>5, <1>6, <1>7, <1>8 DEF Row

(* The sweep raises a stall's notice for a row that works, which no wait's *)
(* notice can be out for, and a wait's for a wait that lasts.              *)
LEMMA RecheckCurrent ==
    ASSUME AttentionTypeOK, RecheckNotifications, NEW s \in Session, Current(s) PROVE Current(s)'
<1>1. /\ status'[s] = status[s] /\ held' = held
      /\ active'[s] = Rechecked(s)
      /\ pending'[s] = (IF s \in due THEN "none" ELSE pending[s])
  BY DEF RecheckNotifications, AttentionTypeOK
<1>2. CASE s \in held
  <2>1. status[s] = "Working"
    BY <1>2 DEF Current
  <2>2. active[s] \subseteq {"stalled"} /\ pending[s] = "none"
    BY <2>1 DEF Current, StatusNotice, HeldBack, AttentionTypeOK, Key, Wanting, Unasked
  <2>3. Rechecked(s) = {"stalled"}
    BY <1>2, <2>1, <2>2 DEF Rechecked, Lasts
  <2>4. QED BY <1>1, <2>1, <2>2, <2>3 DEF Current, StatusNotice, StallNotice, HeldBack, Wanting
<1>3. CASE s \notin held /\ Lasts(s)
  <2>1. status[s] = pending[s] /\ s \in due
    BY <1>3 DEF Lasts
  <2>2. pending[s] # "none"
    BY <2>1 DEF AttentionTypeOK, Status, Live, Wanting
  <2>3. Rechecked(s) = {status[s]} /\ status[s] \in Wanting
    BY <1>3, <2>1, <2>2 DEF Rechecked, AttentionTypeOK
  <2>4. QED BY <1>1, <1>3, <2>1, <2>3
         DEF Current, StatusNotice, StallNotice, HeldBack, Wanting
<1>4. CASE s \notin held /\ ~Lasts(s)
  <2>1. Rechecked(s) = active[s]
    BY <1>4 DEF Rechecked
  <2>2. QED BY <1>1, <1>4, <2>1 DEF Current, StatusNotice, StallNotice, HeldBack
<1>5. QED BY <1>2, <1>3, <1>4

LEMMA CenterInvNext == ASSUME CenterInv, [AttentionNext]_attentionVars PROVE CenterInv'
<1>1. AttentionTypeOK'
  BY CenterTypeNext DEF CenterInv
<1>2. ASSUME NEW t \in Session PROVE Current(t)'
  <2>1. CASE RecheckNotifications
    BY <2>1, RecheckCurrent DEF CenterInv
  <2>2. ASSUME NEW s \in Session, Row(s) PROVE Current(t)'
    <3>1. CASE t = s
      BY <2>2, <3>1, RowCurrent DEF CenterInv
    <3>2. CASE t # s
      BY <2>2, <3>2, RowTouchesOne, SameView DEF CenterInv
    <3>3. QED BY <3>1, <3>2
  <2>3. CASE UNCHANGED attentionVars
    BY <2>3, SameView DEF CenterInv, attentionVars, rows, center
  <2>4. QED BY <2>1, <2>2, <2>3 DEF AttentionNext
<1>3. QED BY <1>1, <1>2 DEF CenterInv

(* Every notice that is out, or held back, is for what its session is now  *)
(* waiting for or for a stall it is still in (NotificationCenter), when-   *)
(* ever hooks come, but in the statuses the registry sets without asking   *)
(* the center: of a row that starts, is queued or has been lost sight of.  *)
THEOREM NoticesHold == AttentionSpec => []NoticesAreCurrent
<1>1. AttentionInit => CenterInv
  <2>1. ASSUME AttentionInit, NEW s \in Session PROVE Current(s)
    BY <2>1 DEF AttentionInit, Current, StatusNotice, StallNotice, HeldBack
  <2>2. QED BY <2>1, CenterTypeInit DEF CenterInv
<1>2. CenterInv /\ [AttentionNext]_attentionVars => CenterInv'
  BY CenterInvNext
<1>3. CenterInv => NoticesAreCurrent
  BY DEF CenterInv, Current, NoticesAreCurrent
<1>4. QED BY <1>1, <1>2, <1>3, PTL DEF AttentionSpec
=============================================================================
