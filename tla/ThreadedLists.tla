--------------------------- MODULE ThreadedLists ----------------------------
(***************************************************************************)
(* Lists that are threaded through the elements of a set, as the free      *)
(* inodes, the index nodes of free blocks and the free descriptors of sfs  *)
(* are: a head, a successor for each element, and values that end a list.  *)
(* What the list functions of the code do to the head and the successors   *)
(* is stated here once, as what it does to the set.                        *)
(***************************************************************************)
EXTENDS Integers, FiniteSets, FunctionTheorems, FiniteSetTheorems,
        WellFoundedInduction, TLAPS

\* s[1], ..., s[n] are the elements of F, each once, in the order of the list that
\* starts at h and follows next; s[n + 1] is the value of End that ends it.
Listing(n, s, F, next, h, End) ==
  /\ n \in Nat
  /\ s \in [1..(n + 1) -> F \cup End]
  /\ F \cap End = {}
  /\ s[1] = h /\ s[n + 1] \in End
  /\ \A k \in 1..n : s[k] \in F /\ next[s[k]] = s[k + 1]
  /\ \A x \in F : \E k \in 1..n : s[k] = x
  /\ \A k, l \in 1..n : s[k] = s[l] => k = l

\* The list that starts at h has every element of F once, and no other.
Listed(F, next, h, End) == \E n \in Nat : \E s : Listing(n, s, F, next, h, End)

-----------------------------------------------------------------------------
\* Induction over the natural numbers, for sets: from the least number principle.
LEMMA NatInSet ==
  ASSUME NEW S, 0 \in S, \A n \in Nat : n \in S => n + 1 \in S
  PROVE  Nat \subseteq S
<1> SUFFICES ASSUME ~(Nat \subseteq S)
             PROVE  FALSE
  OBVIOUS
<1> DEFINE T == Nat \ S
           R == {p \in Nat \X Nat : p[1] < p[2]}
<1>1. IsWellFoundedOn(R, Nat)
  BY NatLessThanWellFounded DEF OpToRel
<1>2. T \subseteq Nat /\ T # {}
  OBVIOUS
<1>3. PICK x \in T : \A y \in T : <<y, x>> \notin R
  <2> HIDE DEF T, R
  <2> QED
    BY <1>1, <1>2, WFMin
<1>4. x # 0 /\ x - 1 \in Nat /\ x - 1 < x
  OBVIOUS
<1>5. x - 1 \notin T
  BY <1>3, <1>4
<1> QED
  BY <1>4, <1>5

\* A head that is an end is a list without elements.
LEMMA ListNil ==
  ASSUME NEW next, NEW End, NEW h \in End
  PROVE  Listed({}, next, h, End)
<1>1. Listing(0, [k \in 1..(0 + 1) |-> h], {}, next, h, End)
  BY DEF Listing
<1> QED
  BY <1>1 DEF Listed

\* A list that starts with its end has no elements.
LEMMA ListEmpty ==
  ASSUME NEW F, NEW next, NEW h, NEW End, Listed(F, next, h, End), h \in End
  PROVE  F = {}
BY DEF Listed, Listing

\* ... and one that does not has its head as an element.
LEMMA ListHead ==
  ASSUME NEW F, NEW next, NEW h, NEW End, Listed(F, next, h, End), h \notin End
  PROVE  h \in F /\ next[h] \in F \cup End /\ next[h] # h
<1>0. PICK n \in Nat : \E s : Listing(n, s, F, next, h, End)
  BY DEF Listed
<1>1. PICK s : Listing(n, s, F, next, h, End)
  BY <1>0
<1>2. n > 0
  BY <1>1 DEF Listing
<1>3. 1 \in 1..n /\ 2 \in 1..(n + 1)
  BY <1>2
<1>4. h \in F /\ next[h] = s[2] /\ s[2] \in F \cup End
  BY <1>1, <1>3 DEF Listing
<1>5. s[2] # s[1]
  <2>1. CASE n = 1
    BY <1>1, <1>3, <2>1 DEF Listing
  <2>2. CASE n # 1
    <3>1. 2 \in 1..n
      BY <1>2, <2>2
    <3> QED
      BY <1>1, <1>3, <3>1 DEF Listing
  <2> QED
    BY <2>1, <2>2
<1> QED
  BY <1>1, <1>4, <1>5 DEF Listing

\* Every successor in the list is an element or the end.
LEMMA ListNext ==
  ASSUME NEW F, NEW next, NEW h, NEW End, Listed(F, next, h, End), NEW x \in F
  PROVE  next[x] \in F \cup End /\ next[x] # h
<1>0. PICK n \in Nat : \E s : Listing(n, s, F, next, h, End)
  BY DEF Listed
<1>1. PICK s : Listing(n, s, F, next, h, End)
  BY <1>0
<1>2. PICK k \in 1..n : s[k] = x
  BY <1>1 DEF Listing
<1>3. next[x] = s[k + 1] /\ k + 1 \in 1..(n + 1)
  BY <1>1, <1>2 DEF Listing
<1>4. s[k + 1] # h
  <2>1. CASE k = n
    <3>1. n >= 1 /\ 1 \in 1..n
      BY <1>2
    <3> QED
      BY <1>1, <2>1, <3>1 DEF Listing
  <2>2. CASE k # n
    <3>1. k + 1 \in 1..n /\ 1 \in 1..n /\ k + 1 # 1
      BY <1>2, <2>2
    <3> QED
      BY <1>1, <3>1 DEF Listing
  <2> QED
    BY <2>1, <2>2
<1> QED
  BY <1>1, <1>3, <1>4 DEF Listing

\* Every element but the first has a predecessor in the list ...
LEMMA ListPrevious ==
  ASSUME NEW F, NEW next, NEW h, NEW End, Listed(F, next, h, End), NEW x \in F, x # h
  PROVE  \E y \in F : next[y] = x
<1>0. PICK n \in Nat : \E s : Listing(n, s, F, next, h, End)
  BY DEF Listed
<1>1. PICK s : Listing(n, s, F, next, h, End)
  BY <1>0
<1>2. PICK k \in 1..n : s[k] = x
  BY <1>1 DEF Listing
<1>3. k # 1
  BY <1>1, <1>2 DEF Listing
<1>4. k - 1 \in 1..n /\ (k - 1) + 1 = k
  BY <1>3
<1>5. s[k - 1] \in F /\ next[s[k - 1]] = s[(k - 1) + 1]
  BY <1>1, <1>4 DEF Listing
<1> QED
  BY <1>2, <1>4, <1>5

\* ... and only one.
LEMMA ListInjective ==
  ASSUME NEW F, NEW next, NEW h, NEW End, Listed(F, next, h, End),
         NEW x \in F, NEW y \in F, next[x] = next[y], next[x] \notin End
  PROVE  x = y
<1>0. PICK n \in Nat : \E s : Listing(n, s, F, next, h, End)
  BY DEF Listed
<1>1. PICK s : Listing(n, s, F, next, h, End)
  BY <1>0
<1>2. PICK k \in 1..n : s[k] = x
  BY <1>1 DEF Listing
<1>3. PICK l \in 1..n : s[l] = y
  BY <1>1 DEF Listing
<1>4. s[k + 1] = s[l + 1] /\ s[k + 1] \notin End
  BY <1>1, <1>2, <1>3 DEF Listing
<1>5. k # n /\ l # n
  BY <1>1, <1>4 DEF Listing
<1>6. k + 1 \in 1..n /\ l + 1 \in 1..n
  BY <1>5
<1>7. k + 1 = l + 1
  BY <1>1, <1>4, <1>6 DEF Listing
<1>8. k = l
  BY <1>7
<1> QED
  BY <1>2, <1>3, <1>8

\* Successors that are outside the list do not matter to it.
LEMMA ListFrame ==
  ASSUME NEW F, NEW next, NEW other, NEW h, NEW End, Listed(F, next, h, End),
         \A x \in F : other[x] = next[x]
  PROVE  Listed(F, other, h, End)
<1>0. PICK n \in Nat : \E s : Listing(n, s, F, next, h, End)
  BY DEF Listed
<1>1. PICK s : Listing(n, s, F, next, h, End)
  BY <1>0
<1>2. \A k \in 1..n : s[k] \in F /\ other[s[k]] = s[k + 1]
  BY <1>1 DEF Listing
<1>3. Listing(n, s, F, other, h, End)
  BY <1>1, <1>2 DEF Listing
<1> QED
  BY <1>3 DEF Listed

\* Taking the first element: the head becomes its successor.
LEMMA ListPop ==
  ASSUME NEW F, NEW next, NEW other, NEW h, NEW End, Listed(F, next, h, End), h \notin End,
         \A x \in F \ {h} : other[x] = next[x]
  PROVE  Listed(F \ {h}, other, next[h], End)
<1>0. PICK n \in Nat : \E s : Listing(n, s, F, next, h, End)
  BY DEF Listed
<1>1. PICK s : Listing(n, s, F, next, h, End)
  BY <1>0
<1>2. n > 0 /\ n - 1 \in Nat
  BY <1>1 DEF Listing
<1> DEFINE t == [k \in 1..((n - 1) + 1) |-> s[k + 1]]
<1>3. 1 \in 1..n /\ \A k \in 1..n : k + 1 \in 1..(n + 1) /\ (k + 1 = 1 => FALSE)
  BY <1>2
<1>4. \A k \in 1..(n - 1) : k + 1 \in 1..n /\ k \in 1..n /\ k + 1 \in 1..((n - 1) + 1)
  BY <1>2
<1>5. \A k \in 1..n : s[k] = h <=> k = 1
  BY <1>1, <1>3 DEF Listing
<1>6. t \in [1..((n - 1) + 1) -> (F \ {h}) \cup End]
  <2> SUFFICES ASSUME NEW k \in 1..n
               PROVE  s[k + 1] \in (F \ {h}) \cup End
    BY <1>2
  <2>1. CASE k = n
    BY <1>1, <2>1 DEF Listing
  <2>2. CASE k # n
    <3>1. k + 1 \in 1..n /\ k + 1 # 1
      BY <2>2
    <3> QED
      BY <1>1, <1>5, <3>1 DEF Listing
  <2> QED
    BY <2>1, <2>2
<1>7. t[1] = next[h] /\ t[(n - 1) + 1] \in End
  <2>1. t[1] = s[1 + 1] /\ t[(n - 1) + 1] = s[n + 1]
    BY <1>2
  <2> QED
    BY <1>1, <1>3, <2>1 DEF Listing
<1>8. \A k \in 1..(n - 1) : t[k] \in F \ {h} /\ other[t[k]] = t[k + 1]
  <2> SUFFICES ASSUME NEW k \in 1..(n - 1)
               PROVE  t[k] \in F \ {h} /\ other[t[k]] = t[k + 1]
    OBVIOUS
  <2>1. t[k] = s[k + 1] /\ t[k + 1] = s[k + 1 + 1] /\ k + 1 # 1
    BY <1>2
  <2>2. k + 1 \in 1..n
    BY <1>4
  <2>3. s[k + 1] \in F /\ next[s[k + 1]] = s[k + 1 + 1]
    BY <1>1, <2>2 DEF Listing
  <2>4. s[k + 1] # h
    BY <1>5, <2>1, <2>2
  <2> HIDE DEF t
  <2> QED
    BY <2>1, <2>3, <2>4
<1>9. \A x \in F \ {h} : \E k \in 1..(n - 1) : t[k] = x
  <2> SUFFICES ASSUME NEW x \in F \ {h}
               PROVE  \E k \in 1..(n - 1) : t[k] = x
    OBVIOUS
  <2>1. PICK k \in 1..n : s[k] = x
    BY <1>1 DEF Listing
  <2>2. k # 1
    BY <1>5, <2>1
  <2>3. k - 1 \in 1..(n - 1) /\ t[k - 1] = s[k]
    BY <2>2
  <2> QED
    BY <2>1, <2>3
<1>10. \A k, l \in 1..(n - 1) : t[k] = t[l] => k = l
  <2> SUFFICES ASSUME NEW k \in 1..(n - 1), NEW l \in 1..(n - 1), t[k] = t[l]
               PROVE  k = l
    OBVIOUS
  <2>1. s[k + 1] = s[l + 1] /\ k + 1 \in 1..n /\ l + 1 \in 1..n
    BY <1>2
  <2> QED
    BY <1>1, <2>1 DEF Listing
<1>11. (F \ {h}) \cap End = {}
  BY <1>1 DEF Listing
<1>12. Listing(n - 1, t, F \ {h}, other, next[h], End)
  <2> HIDE DEF t
  <2> QED
    BY <1>2, <1>6, <1>7, <1>8, <1>9, <1>10, <1>11 DEF Listing
<1> QED
  BY <1>2, <1>12 DEF Listed

\* Putting x in front: it becomes the head, the old head its successor.
LEMMA ListPush ==
  ASSUME NEW F, NEW next, NEW other, NEW h, NEW End, Listed(F, next, h, End),
         NEW x, x \notin F, x \notin End, other[x] = h,
         \A y \in F : other[y] = next[y]
  PROVE  Listed(F \cup {x}, other, x, End)
<1>0. PICK n \in Nat : \E s : Listing(n, s, F, next, h, End)
  BY DEF Listed
<1>1. PICK s : Listing(n, s, F, next, h, End)
  BY <1>0
<1> DEFINE G == F \cup {x}
           t == [k \in 1..((n + 1) + 1) |-> IF k = 1 THEN x ELSE s[k - 1]]
<1>2. \A k \in 1..(n + 1) : k + 1 \in 1..((n + 1) + 1) /\ t[k + 1] = s[k]
  OBVIOUS
<1>3. t[1] = x /\ \A k \in 2..((n + 1) + 1) : k - 1 \in 1..(n + 1) /\ t[k] = s[k - 1]
  OBVIOUS
<1>4. t \in [1..((n + 1) + 1) -> G \cup End]
  <2> SUFFICES ASSUME NEW k \in 1..((n + 1) + 1), k # 1
               PROVE  s[k - 1] \in G \cup End
    OBVIOUS
  <2>1. k - 1 \in 1..(n + 1)
    OBVIOUS
  <2> QED
    BY <1>1, <2>1 DEF Listing
<1>5. t[(n + 1) + 1] \in End
  BY <1>1, <1>2 DEF Listing
<1>6. ASSUME NEW k \in 1..(n + 1)
      PROVE  t[k] \in G /\ other[t[k]] = t[k + 1]
  <2>1. CASE k = 1
    <3>1. t[k] = x /\ t[k + 1] = s[1]
      BY <2>1
    <3> QED
      BY <1>1, <3>1 DEF Listing
  <2>2. CASE k # 1
    <3>1. k - 1 \in 1..n /\ t[k] = s[k - 1] /\ t[k + 1] = s[(k - 1) + 1]
      BY <2>2
    <3>2. s[k - 1] \in F /\ next[s[k - 1]] = s[(k - 1) + 1]
      BY <1>1, <3>1 DEF Listing
    <3> HIDE DEF t
    <3> QED
      BY <3>1, <3>2
  <2> QED
    BY <2>1, <2>2
<1>7. ASSUME NEW y \in G
      PROVE  \E k \in 1..(n + 1) : t[k] = y
  <2>1. CASE y = x
    BY <2>1
  <2>2. CASE y # x
    <3>1. PICK k \in 1..n : s[k] = y
      BY <1>1, <2>2 DEF Listing
    <3>2. k + 1 \in 1..(n + 1) /\ t[k + 1] = y
      BY <3>1
    <3> QED
      BY <3>2
  <2> QED
    BY <2>1, <2>2
<1>8. ASSUME NEW k \in 1..(n + 1), NEW l \in 1..(n + 1), t[k] = t[l]
      PROVE  k = l
  <2>1. \A m \in 1..(n + 1) : m # 1 => t[m] = s[m - 1] /\ m - 1 \in 1..n
    OBVIOUS
  <2>2. \A m \in 1..n : s[m] # x
    BY <1>1 DEF Listing
  <2>3. CASE k = 1 \/ l = 1
    <3> HIDE DEF t
    <3> QED
      BY <1>3, <1>8, <2>1, <2>2, <2>3
  <2>4. CASE k # 1 /\ l # 1
    <3> HIDE DEF t
    <3>1. s[k - 1] = s[l - 1] /\ k - 1 \in 1..n /\ l - 1 \in 1..n
      BY <1>8, <2>1, <2>4
    <3>2. k - 1 = l - 1
      BY <1>1, <3>1 DEF Listing
    <3> QED
      BY <3>2
  <2> QED
    BY <2>3, <2>4
<1>9. Listing(n + 1, t, G, other, x, End)
  <2>1. G \cap End = {} /\ n + 1 \in Nat
    BY <1>1 DEF Listing
  <2> HIDE DEF t, G
  <2> QED
    BY <1>3, <1>4, <1>5, <1>6, <1>7, <1>8, <2>1 DEF Listing
<1> QED
  BY <1>9 DEF Listed

\* An element at the end: the last successor becomes x, whose successor is the end.
LEMMA ListAppend ==
  ASSUME NEW F, NEW next, NEW other, NEW h, NEW End, Listed(F, next, h, End),
         NEW z \in F, next[z] \in End,
         NEW x, x \notin F, x \notin End, other[x] \in End, other[z] = x,
         \A y \in F \ {z} : other[y] = next[y]
  PROVE  Listed(F \cup {x}, other, h, End)
<1>0. PICK n \in Nat : \E s : Listing(n, s, F, next, h, End)
  BY DEF Listed
<1>1. PICK s : Listing(n, s, F, next, h, End)
  BY <1>0
<1> DEFINE G == F \cup {x}
           t == [k \in 1..((n + 1) + 1) |->
                   IF k <= n THEN s[k] ELSE IF k = n + 1 THEN x ELSE other[x]]
<1>2. PICK m \in 1..n : s[m] = z
  BY <1>1 DEF Listing
<1>3. m = n
  <2> SUFFICES ASSUME m # n
               PROVE  FALSE
    OBVIOUS
  <2>1. m + 1 \in 1..n
    OBVIOUS
  <2>2. s[m + 1] \in F /\ next[z] = s[m + 1]
    BY <1>1, <1>2, <2>1 DEF Listing
  <2> QED
    BY <1>1, <2>2 DEF Listing
<1>4. n >= 1 /\ s[n] = z /\ \A k \in 1..n : s[k] = z => k = n
  BY <1>1, <1>2, <1>3 DEF Listing
<1>5. /\ \A k \in 1..n : t[k] = s[k]
      /\ t[n + 1] = x /\ t[(n + 1) + 1] = other[x]
  OBVIOUS
<1>6. \A k \in 1..n : s[k] \in F
  BY <1>1 DEF Listing
<1>7. t \in [1..((n + 1) + 1) -> G \cup End]
  BY <1>6
<1>8. ASSUME NEW k \in 1..(n + 1)
      PROVE  t[k] \in G /\ other[t[k]] = t[k + 1]
  <2>1. CASE k = n + 1
    BY <2>1
  <2>2. CASE k = n
    <3> HIDE DEF t
    <3> QED
      BY <1>4, <1>5, <2>2
  <2>3. CASE k < n
    <3>1. k \in 1..n /\ k + 1 \in 1..n /\ k # n
      BY <2>3
    <3>2. s[k] \in F \ {z} /\ next[s[k]] = s[k + 1]
      BY <1>1, <1>4, <3>1 DEF Listing
    <3> HIDE DEF t
    <3> QED
      BY <1>5, <3>1, <3>2
  <2> QED
    BY <2>1, <2>2, <2>3
<1>9. ASSUME NEW y \in G
      PROVE  \E k \in 1..(n + 1) : t[k] = y
  <2>1. CASE y = x
    <3>1. n + 1 \in 1..(n + 1)
      OBVIOUS
    <3> QED
      BY <1>5, <2>1, <3>1
  <2>2. CASE y # x
    <3>1. PICK k \in 1..n : s[k] = y
      BY <1>1, <2>2 DEF Listing
    <3>2. k \in 1..(n + 1) /\ t[k] = y
      BY <1>5, <3>1
    <3> QED
      BY <3>2
  <2> QED
    BY <2>1, <2>2
<1>10. ASSUME NEW k \in 1..(n + 1), NEW l \in 1..(n + 1), t[k] = t[l]
       PROVE  k = l
  <2>1. \A j \in 1..(n + 1) : j # n + 1 => j \in 1..n
    OBVIOUS
  <2> HIDE DEF t
  <2>2. \A j \in 1..n : t[j] # x
    BY <1>5, <1>6
  <2>3. CASE k = n + 1 \/ l = n + 1
    BY <1>5, <1>10, <2>1, <2>2, <2>3
  <2>4. CASE k \in 1..n /\ l \in 1..n
    BY <1>1, <1>5, <1>10, <2>4 DEF Listing
  <2> QED
    BY <2>1, <2>3, <2>4
<1>11. Listing(n + 1, t, G, other, h, End)
  <2>1. G \cap End = {} /\ n + 1 \in Nat /\ t[1] = h
    BY <1>1, <1>4, <1>5 DEF Listing
  <2> HIDE DEF t, G
  <2> QED
    BY <1>5, <1>7, <1>8, <1>9, <1>10, <2>1 DEF Listing
<1> QED
  BY <1>11 DEF Listed

\* c, a function on 0..N, starts at the head, follows the successors, and stays at
\* the end once it is there.
Follows(c, N, F, next, h, End) ==
  /\ N \in Nat
  /\ c[0] = h
  /\ \A j \in 1..N : c[j - 1] \in F => c[j] = next[c[j - 1]]
  /\ \A j \in 1..N : c[j - 1] \in End => c[j] \in End

\* Such a function runs through the list.
LEMMA ListWalk ==
  ASSUME NEW F, NEW next, NEW h, NEW End, NEW n, NEW s, NEW N, NEW c,
         Listing(n, s, F, next, h, End), Follows(c, N, F, next, h, End)
  PROVE  \A j \in 0..N : (j <= n => c[j] = s[j + 1]) /\ (j > n => c[j] \in End)
<1> DEFINE S == {j \in Nat : j <= N => (j <= n => c[j] = s[j + 1]) /\ (j > n => c[j] \in End)}
<1>0. n \in Nat /\ N \in Nat
  BY DEF Listing, Follows
<1>1. 0 \in S
  BY <1>0 DEF Listing, Follows
<1>2. ASSUME NEW j \in Nat, j \in S
      PROVE  j + 1 \in S
  <2> SUFFICES ASSUME j + 1 <= N
               PROVE  /\ j + 1 <= n => c[j + 1] = s[(j + 1) + 1]
                      /\ j + 1 > n => c[j + 1] \in End
    OBVIOUS
  <2>1. /\ c[j] \in F => c[j + 1] = next[c[j]]
        /\ c[j] \in End => c[j + 1] \in End
    <3>1. j + 1 \in 1..N /\ (j + 1) - 1 = j
      BY <1>0
    <3> QED
      BY <3>1 DEF Follows
  <2>2. CASE j + 1 <= n
    <3>1. c[j] = s[j + 1] /\ j + 1 \in 1..n
      BY <1>0, <1>2, <2>2
    <3>2. s[j + 1] \in F /\ next[s[j + 1]] = s[(j + 1) + 1]
      BY <3>1 DEF Listing
    <3> QED
      BY <1>0, <2>1, <2>2, <3>1, <3>2
  <2>3. CASE j = n
    <3>1. c[j] = s[n + 1] /\ s[n + 1] \in End
      BY <1>0, <1>2, <2>3 DEF Listing
    <3> QED
      BY <1>0, <2>1, <2>3, <3>1
  <2>4. CASE j > n
    <3>1. c[j] \in End
      BY <1>0, <1>2, <2>4
    <3> QED
      BY <1>0, <2>1, <2>4, <3>1
  <2> QED
    BY <1>0, <2>2, <2>3, <2>4
<1>3. Nat \subseteq S
  <2> HIDE DEF S
  <2> QED
    BY <1>1, <1>2, NatInSet
<1> QED
  BY <1>0, <1>3

\* A list of numbers between 1 and N has at most N elements.
LEMMA ListLength ==
  ASSUME NEW F, NEW next, NEW h, NEW End, NEW n \in Nat, NEW s,
         Listing(n, s, F, next, h, End),
         NEW N \in Nat, F \subseteq 1..N
  PROVE  n <= N
<1> DEFINE t == [k \in 1..n |-> s[k]]
<1>1. t \in [1..n -> 1..N]
  BY DEF Listing
<1>2. \A k, l \in 1..n : t[k] = t[l] => k = l
  BY DEF Listing
<1>3. t \in Injection(1..n, 1..N)
  <2> HIDE DEF t
  <2> QED
    BY <1>1, <1>2, Fun_IsInj
<1>4. ExistsInjection(1..n, 1..N)
  BY <1>3 DEF ExistsInjection
<1> QED
  BY <1>4, Fun_NatInjLeq
=============================================================================
