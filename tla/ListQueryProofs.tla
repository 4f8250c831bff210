-------------------------- MODULE ListQueryProofs --------------------------
(***************************************************************************)
(* Facts about the operators of ListQuery, for any int and any list.       *)
(***************************************************************************)
EXTENDS ListQuery, FiniteSetTheorems, SequenceTheorems, WellFoundedInduction, TLAPS

(* Every set of naturals that is not empty has a least element. *)
LEMMA LeastNat ==
    ASSUME NEW T \in SUBSET Nat, T # {}
    PROVE  \E x \in T : \A y \in T : x <= y
<1>1. PICK x \in T : \A y \in T : ~(<<y, x>> \in OpToRel(<, Nat))
  <2>1. IsWellFoundedOn(OpToRel(<, Nat), Nat)
        BY NatLessThanWellFounded
  <2> HIDE DEF OpToRel
  <2> QED  BY <2>1, WFMin
<1>2. \A y \in T : ~(y < x)
      BY <1>1 DEF OpToRel
<1>3. \A y \in T : y \in Nat /\ x \in Nat
      OBVIOUS
<1> QED  BY <1>2, <1>3

Column == {"id", "name", "created_at"}
SortOn == {d \in SortSpec : d.field \in Column}

(* Whatever a client writes in ?sort=, the clauses that reach ORDER BY are *)
(* about the columns of the schema.                                        *)
THEOREM SortsAllowed ==
    ASSUME NEW sorts \in Seq(SortSpec)
    PROVE  ParseSorts(sorts) \in Seq(SortOn)
<1> DEFINE N == Len(sorts)
           Solves(f, m) ==
               f = [n \in 0 .. m |->
                      IF n = 0 THEN <<>>
                      ELSE IF Sortable(sorts[n]) THEN Append(f[n - 1], sorts[n])
                      ELSE f[n - 1]]
           Unsolved == {m \in 0 .. N : ~ \E f : Solves(f, m)}
<1>1. N \in Nat
      BY LenProperties
<1>2. \A n \in 1 .. N : sorts[n] \in SortSpec
      BY ElementOfSeq
<1>3. \A n \in 1 .. N : Sortable(sorts[n]) => sorts[n] \in SortOn
      BY <1>2 DEF Sortable, Schema, SortOn, Column
<1>4. Unsolved = {}
  <2> SUFFICES ASSUME Unsolved # {} PROVE FALSE
      OBVIOUS
  <2>1. Unsolved \in SUBSET Nat
        BY <1>1
  <2>2. PICK m \in Unsolved : \A k \in Unsolved : m <= k
    <3> HIDE DEF Unsolved
    <3> QED  BY <2>1, LeastNat
  <2>3. m \in 0 .. N /\ ~ \E f : Solves(f, m)
        OBVIOUS
  <2>4. CASE m = 0
    <3> DEFINE f == [n \in 0 .. 0 |-> <<>>]
    <3>1. Solves(f, 0)
          OBVIOUS
    <3> HIDE DEF f, Solves
    <3> QED  BY <2>3, <2>4, <3>1
  <2>5. CASE m # 0
    <3>1. m - 1 \in 0 .. N /\ m - 1 \notin Unsolved
      <4> HIDE DEF Unsolved
      <4> QED  BY <1>1, <2>2, <2>3, <2>5
    <3>2. PICK f : Solves(f, m - 1)
          BY <3>1
    <3> DEFINE last == IF Sortable(sorts[m]) THEN Append(f[m - 1], sorts[m])
                                             ELSE f[m - 1]
               g == [n \in 0 .. m |-> IF n = m THEN last ELSE f[n]]
    <3>3. \A n \in 0 .. m :
             g[n] = IF n = 0 THEN <<>>
                    ELSE IF Sortable(sorts[n]) THEN Append(g[n - 1], sorts[n])
                    ELSE g[n - 1]
      <4> SUFFICES ASSUME NEW n \in 0 .. m
                   PROVE  g[n] = IF n = 0 THEN <<>>
                                 ELSE IF Sortable(sorts[n]) THEN Append(g[n - 1], sorts[n])
                                 ELSE g[n - 1]
          OBVIOUS
      <4>1. CASE n = m
        <5>1. g[n - 1] = f[m - 1]
              BY <1>1, <2>3, <2>5, <4>1
        <5> QED  BY <2>5, <4>1, <5>1
      <4>2. CASE n # m
        <5>1. n \in 0 .. m - 1 /\ g[n] = f[n]
              BY <1>1, <2>3, <4>2
        <5>2. n # 0 => n - 1 \in 0 .. m /\ n - 1 # m /\ g[n - 1] = f[n - 1]
              BY <1>1, <2>3, <4>2
        <5>3. f[n] = IF n = 0 THEN <<>>
                     ELSE IF Sortable(sorts[n]) THEN Append(f[n - 1], sorts[n])
                     ELSE f[n - 1]
          <6> DEFINE h == [x \in 0 .. m - 1 |->
                      IF x = 0 THEN <<>>
                      ELSE IF Sortable(sorts[x]) THEN Append(f[x - 1], sorts[x])
                      ELSE f[x - 1]]
          <6>1. f = h
                BY <3>2
          <6>2. h[n] = IF n = 0 THEN <<>>
                     ELSE IF Sortable(sorts[n]) THEN Append(f[n - 1], sorts[n])
                     ELSE f[n - 1]
                BY <5>1
          <6> QED  BY <6>1, <6>2
        <5> HIDE DEF g
        <5> QED  BY <5>1, <5>2, <5>3
      <4> QED  BY <4>1, <4>2
    <3>4. Solves(g, m)
      <4>1. g = [n \in 0 .. m |-> g[n]]
            OBVIOUS
      <4> HIDE DEF g
      <4> QED  BY <3>3, <4>1
    <3> HIDE DEF g, Solves
    <3> QED  BY <2>3, <3>4
  <2> QED  BY <2>4, <2>5
<1>5. \E f : Solves(f, N)
  <2>1. N \in 0 .. N
        BY <1>1
  <2> HIDE DEF Solves, N
  <2> QED  BY <1>4, <2>1
<1> DEFINE opts[n \in 0 .. Len(sorts)] ==
                 IF n = 0 THEN <<>>
                 ELSE IF Sortable(sorts[n]) THEN Append(opts[n - 1], sorts[n])
                 ELSE opts[n - 1]
<1>6. Solves(opts, N)
      BY <1>5
<1> HIDE DEF opts
<1>7. \A n \in 0 .. N :
         opts[n] = IF n = 0 THEN <<>>
                   ELSE IF Sortable(sorts[n]) THEN Append(opts[n - 1], sorts[n])
                   ELSE opts[n - 1]
  <2> SUFFICES ASSUME NEW n \in 0 .. N
               PROVE  opts[n] = IF n = 0 THEN <<>>
                                ELSE IF Sortable(sorts[n])
                                  THEN Append(opts[n - 1], sorts[n])
                                ELSE opts[n - 1]
      OBVIOUS
  <2> DEFINE h == [x \in 0 .. N |->
                      IF x = 0 THEN <<>>
                      ELSE IF Sortable(sorts[x]) THEN Append(opts[x - 1], sorts[x])
                      ELSE opts[x - 1]]
  <2>1. opts = h
        BY <1>6
  <2>2. h[n] = IF n = 0 THEN <<>>
               ELSE IF Sortable(sorts[n]) THEN Append(opts[n - 1], sorts[n])
               ELSE opts[n - 1]
        OBVIOUS
  <2> QED  BY <2>1, <2>2
<1> DEFINE Bad == {n \in 0 .. N : opts[n] \notin Seq(SortOn)}
<1>8. Bad = {}
  <2> SUFFICES ASSUME Bad # {} PROVE FALSE
      OBVIOUS
  <2>1. Bad \in SUBSET Nat
        BY <1>1
  <2>2. PICK m \in Bad : \A k \in Bad : m <= k
    <3> HIDE DEF Bad
    <3> QED  BY <2>1, LeastNat
  <2>3. m \in 0 .. N /\ opts[m] \notin Seq(SortOn)
        OBVIOUS
  <2>4. m # 0
        BY <1>7, <2>3, EmptySeq
  <2>5. m - 1 \in 0 .. N /\ m - 1 \notin Bad
    <3> HIDE DEF Bad
    <3> QED  BY <1>1, <2>2, <2>3, <2>4
  <2>6. opts[m - 1] \in Seq(SortOn)
        BY <2>5
  <2>7. CASE Sortable(sorts[m])
    <3>1. sorts[m] \in SortOn
          BY <1>1, <1>3, <2>3, <2>4, <2>7
    <3>2. opts[m] = Append(opts[m - 1], sorts[m])
          BY <1>7, <2>3, <2>4, <2>7
    <3> QED  BY <2>3, <2>6, <3>1, <3>2, AppendProperties
  <2>8. CASE ~Sortable(sorts[m])
        BY <1>7, <2>3, <2>4, <2>6, <2>8
  <2> QED  BY <2>7, <2>8
<1>9. opts[N] \in Seq(SortOn)
      BY <1>1, <1>8
<1> QED  BY <1>9 DEF opts, ParseSorts


-----------------------------------------------------------------------------
(* The order *)

Numeric(row) == \A c \in Column : row[c] \in Int

(* Rows that differ in a column that is sorted by are told apart. *)
LEMMA PrecedesTotal ==
    ASSUME NEW sorts \in Seq(SortOn), NEW a, NEW b, Numeric(a), Numeric(b),
           NEW k \in DOMAIN sorts, a[sorts[k].field] # b[sorts[k].field]
    PROVE  Precedes(a, b, sorts) \/ Precedes(b, a, sorts)
<1> DEFINE D == {i \in DOMAIN sorts : a[sorts[i].field] # b[sorts[i].field]}
<1>1. DOMAIN sorts = 1 .. Len(sorts) /\ Len(sorts) \in Nat
      BY LenProperties
<1>2. D \in SUBSET Nat /\ D # {}
      BY <1>1
<1>3. PICK i \in D : \A j \in D : i <= j
  <2> HIDE DEF D
  <2> QED  BY <1>2, LeastNat
<1>4. i \in DOMAIN sorts /\ a[sorts[i].field] # b[sorts[i].field]
      OBVIOUS
<1>5. \A j \in 1 .. i - 1 : a[sorts[j].field] = b[sorts[j].field]
  <2> SUFFICES ASSUME NEW j \in 1 .. i - 1 PROVE a[sorts[j].field] = b[sorts[j].field]
      OBVIOUS
  <2>1. j \in DOMAIN sorts /\ ~(i <= j)
        BY <1>1, <1>4
  <2> QED  BY <1>3, <2>1
<1>6. sorts[i].field \in Column
      BY <1>1, <1>4, ElementOfSeq DEF SortOn
<1>7. a[sorts[i].field] < b[sorts[i].field] \/ b[sorts[i].field] < a[sorts[i].field]
      BY <1>4, <1>6 DEF Numeric
<1>8. CASE sorts[i].desc
      BY <1>4, <1>5, <1>7, <1>8 DEF Precedes
<1>9. CASE ~sorts[i].desc
      BY <1>4, <1>5, <1>7, <1>9 DEF Precedes
<1> QED  BY <1>8, <1>9

(* No two rows precede each other. *)
LEMMA PrecedesAsymmetric ==
    ASSUME NEW sorts \in Seq(SortOn), NEW a, NEW b, Numeric(a), Numeric(b),
           Precedes(a, b, sorts), Precedes(b, a, sorts)
    PROVE  FALSE
<1> DEFINE Before(x, y, i) ==
             IF sorts[i].desc THEN y[sorts[i].field] < x[sorts[i].field]
                              ELSE x[sorts[i].field] < y[sorts[i].field]
<1>1. DOMAIN sorts = 1 .. Len(sorts) /\ Len(sorts) \in Nat
      BY LenProperties
<1>2. PICK i \in DOMAIN sorts :
         /\ \A h \in 1 .. i - 1 : a[sorts[h].field] = b[sorts[h].field]
         /\ Before(a, b, i)
      BY DEF Precedes
<1>3. PICK j \in DOMAIN sorts :
         /\ \A h \in 1 .. j - 1 : b[sorts[h].field] = a[sorts[h].field]
         /\ Before(b, a, j)
      BY DEF Precedes
<1>4. \A h \in DOMAIN sorts : /\ a[sorts[h].field] \in Int
                              /\ b[sorts[h].field] \in Int
      BY <1>1, ElementOfSeq DEF SortOn, Numeric
<1>5. i \in 1 .. j - 1 \/ j \in 1 .. i - 1 \/ i = j
      BY <1>1
<1> QED  BY <1>2, <1>3, <1>4, <1>5

(* A sequence that lists the rows of a set lists all of them. *)
LEMMA OrderedOnto ==
    ASSUME NEW R, IsFiniteSet(R), NEW sorts, NEW s \in Ordered(R, sorts)
    PROVE  /\ Cardinality(R) \in Nat
           /\ s \in [1 .. Cardinality(R) -> R]
           /\ \A i, j \in 1 .. Cardinality(R) : s[i] = s[j] => i = j
           /\ \A x \in R : \E i \in 1 .. Cardinality(R) : s[i] = x
<1> DEFINE n == Cardinality(R)
<1>1. n \in Nat
      BY FS_CardinalityType
<1>2. /\ s \in [1 .. n -> R]
      /\ \A i, j \in 1 .. n : i < j => s[i] # s[j]
      BY DEF Ordered
<1>3. \A i, j \in 1 .. n : s[i] = s[j] => i = j
  <2> HIDE DEF n
  <2> QED  BY <1>1, <1>2
<1>4. s \in Injection(1 .. n, R)
      BY <1>2, <1>3 DEF Injection, IsInjective
<1>5. Cardinality(1 .. n) = n
  <2> HIDE DEF n
  <2> QED  BY <1>1, FS_Interval
<1>6. s \in Surjection(1 .. n, R)
      BY <1>4, <1>5, FS_Injection
<1>7. \A x \in R : \E i \in 1 .. n : s[i] = x
      BY <1>6 DEF Surjection
<1> QED  BY <1>1, <1>2, <1>3, <1>7

(* Sorted by the id, which no two rows share, rows come in one order only. *)
LEMMA OrderedUnique ==
    ASSUME NEW R, IsFiniteSet(R), \A a \in R : Numeric(a),
           \A a, b \in R : a.id = b.id => a = b,
           NEW sorts \in Seq(SortOn), NEW k \in DOMAIN sorts, sorts[k].field = "id",
           NEW s \in Ordered(R, sorts), NEW t \in Ordered(R, sorts)
    PROVE  s = t
<1> DEFINE n == Cardinality(R)
           D == {i \in 1 .. n : s[i] # t[i]}
<1>1. ASSUME NEW u \in Ordered(R, sorts)
      PROVE  /\ n \in Nat
             /\ u \in [1 .. n -> R]
             /\ \A i, j \in 1 .. n : u[i] = u[j] => i = j
             /\ \A x \in R : \E i \in 1 .. n : u[i] = x
      BY OrderedOnto
(* What comes later in one of them is preceded by what comes first. *)
<1>2. ASSUME NEW u \in Ordered(R, sorts), NEW i \in 1 .. n, NEW j \in 1 .. n, i < j
      PROVE  Precedes(u[i], u[j], sorts)
  <2>1. u \in [1 .. n -> R]
        BY <1>1
  <2>2. u[i] # u[j] /\ ~Precedes(u[j], u[i], sorts)
        BY <1>2, <2>1 DEF Ordered
  <2>3. u[i] \in R /\ u[j] \in R
        BY <2>1
  <2>4. u[i][sorts[k].field] # u[j][sorts[k].field]
        BY <2>2, <2>3
  <2> QED  BY <2>2, <2>3, <2>4, PrecedesTotal
(* Where they first differ, the row in one comes later in the other. *)
<1>3. ASSUME NEW u \in Ordered(R, sorts), NEW v \in Ordered(R, sorts),
             NEW i \in 1 .. n, \A j \in 1 .. i - 1 : u[j] = v[j], u[i] # v[i]
      PROVE  Precedes(u[i], v[i], sorts)
  <2>1. /\ n \in Nat /\ u \in [1 .. n -> R] /\ v \in [1 .. n -> R]
        /\ \A j, h \in 1 .. n : v[j] = v[h] => j = h
        BY <1>1
  <2>2. PICK j \in 1 .. n : u[j] = v[i]
        BY <1>1, <2>1
  <2>3. j # i
        BY <1>3, <2>2
  <2>4. ~(j < i)
    <3> SUFFICES ASSUME j < i PROVE FALSE
        OBVIOUS
    <3>1. j \in 1 .. i - 1
          BY <2>1
    <3>2. u[j] = v[j]
          BY <1>3, <3>1
    <3> QED  BY <2>1, <2>2, <2>3, <3>2
  <2>5. i < j
        BY <2>1, <2>3, <2>4
  <2> QED  BY <1>2, <2>2, <2>5
<1>4. D = {}
  <2> SUFFICES ASSUME D # {} PROVE FALSE
      OBVIOUS
  <2>1. n \in Nat /\ D \in SUBSET Nat
        BY <1>1
  <2>2. PICK i \in D : \A j \in D : i <= j
    <3> HIDE DEF D
    <3> QED  BY <2>1, LeastNat
  <2>3. i \in 1 .. n /\ s[i] # t[i]
        OBVIOUS
  <2>4. \A j \in 1 .. i - 1 : s[j] = t[j]
    <3> SUFFICES ASSUME NEW j \in 1 .. i - 1 PROVE s[j] = t[j]
        OBVIOUS
    <3> HIDE DEF n
    <3>1. j \in 1 .. n /\ ~(i <= j)
          BY <2>1, <2>3
    <3> QED  BY <2>2, <3>1
  <2>5. Precedes(s[i], t[i], sorts)
        BY <1>3, <2>3, <2>4
  <2>6. Precedes(t[i], s[i], sorts)
        BY <1>3, <2>3, <2>4
  <2>7. s[i] \in R /\ t[i] \in R
        BY <1>1, <2>3
  <2> QED  BY <2>5, <2>6, <2>7, PrecedesAsymmetric
<1>5. s \in [1 .. n -> R] /\ t \in [1 .. n -> R]
      BY <1>1
<1>6. \A i \in 1 .. n : s[i] = t[i]
      BY <1>4
<1>7. s = [i \in 1 .. n |-> s[i]] /\ t = [i \in 1 .. n |-> t[i]]
      BY <1>5
<1> HIDE DEF n
<1> QED  BY <1>6, <1>7

-----------------------------------------------------------------------------
(* Pages *)

(* An int that fits is not changed by wrapping it. *)
LEMMA WrapLemma ==
    ASSUME NEW n \in 0 .. IntMax PROVE Wrap(n) = n
<1>1. IntMax \in Nat
      BY ListAssumption
<1> DEFINE m == 2 * (IntMax + 1)
           a == n + IntMax + 1
<1>2. m \in Nat /\ m > 0 /\ a \in Nat /\ a < m
      BY <1>1
<1>3. a % m = a
  <2> HIDE DEF a, m
  <2>1. a = m * (a \div m) + (a % m) /\ a % m \in 0 .. m - 1 /\ a \div m \in Int
        BY <1>2
  <2> DEFINE q == a \div m
             x == a % m
  <2>2. a = m * q + x /\ x \in 0 .. m - 1 /\ q \in Int
        BY <2>1
  <2> HIDE DEF q, x
  <2>3. q = 0
    <3>1. CASE q >= 1
      <4>1. m * q >= m
            BY <1>2, <2>2, <3>1
      <4> QED  BY <1>2, <2>2, <4>1
    <3>2. CASE q <= -1
      <4>1. m * q <= -m
            BY <1>2, <2>2, <3>2
      <4> QED  BY <1>2, <2>2, <4>1
    <3> QED  BY <2>2, <3>1, <3>2
  <2>4. a = x
        BY <1>2, <2>2, <2>3
  <2> QED  BY <2>4 DEF x
<1> QED  BY <1>1, <1>3 DEF Wrap

LEMMA ParamsLemma ==
    ASSUME NEW page \in Int, NEW limit \in Int
    PROVE  /\ NewParams(page, limit).page \in Int
           /\ NewParams(page, limit).page >= 1
           /\ NewParams(page, limit).limit \in Int
           /\ NewParams(page, limit).limit >= 1
<1>1. DefaultLimit \in 1 .. MaxLimit /\ MaxLimit \in 1 .. IntMax /\ IntMax \in Nat
      BY ListAssumption
<1>2. DefaultLimit \in Int /\ DefaultLimit >= 1 /\ MaxLimit \in Int /\ MaxLimit >= 1
      BY <1>1
<1>3. (CASE limit < 1 -> DefaultLimit [] limit > MaxLimit -> MaxLimit [] OTHER -> limit)
         \in {x \in Int : x >= 1}
  <2>1. CASE limit < 1
        BY <1>2, <2>1
  <2>2. CASE ~(limit < 1) /\ limit > MaxLimit
        BY <1>2, <2>2
  <2>3. CASE ~(limit < 1) /\ ~(limit > MaxLimit)
        BY <1>2, <2>3
  <2> QED  BY <2>1, <2>2, <2>3
<1> QED  BY <1>3 DEF NewParams

LEMMA AtoiLemma == ASSUME NEW n \in Int PROVE Atoi(n) \in Int
<1>1. IntMax \in Nat
      BY ListAssumption
<1>2. CASE n > IntMax
      BY <1>1, <1>2 DEF Atoi
<1>3. CASE ~(n > IntMax) /\ n < -IntMax - 1
      BY <1>1, <1>3 DEF Atoi
<1>4. CASE ~(n > IntMax) /\ ~(n < -IntMax - 1)
      BY <1>1, <1>4 DEF Atoi
<1> QED  BY <1>2, <1>3, <1>4

(* The length of a page cut out of a sequence. *)
LEMMA PageLemma ==
    ASSUME NEW S, NEW n \in Nat, NEW s \in [1 .. n -> S],
           NEW offset \in Nat, NEW limit \in Nat
    PROVE  Len(PageOf(s, offset, limit)) =
              CASE n - offset < 0     -> 0
                [] n - offset > limit -> limit
                [] OTHER              -> n - offset
<1>1. s \in Seq(S) /\ Len(s) = n
      BY SeqDef, LenProperties
<1>2. First(offset) = offset
      BY DEF First
<1> DEFINE last == IF offset + limit < n THEN offset + limit ELSE n
<1>3. PageOf(s, offset, limit) = SubSeq(s, offset + 1, last)
      BY <1>1, <1>2 DEF PageOf
<1>4. last \in Int /\ last <= n /\ offset + 1 \in Int /\ offset + 1 >= 1
      OBVIOUS
<1>5. \A i \in offset + 1 .. last : s[i] \in S
      BY <1>4
<1>6. Len(PageOf(s, offset, limit)) =
         IF offset + 1 <= last THEN last - (offset + 1) + 1 ELSE 0
  <2> HIDE DEF last
  <2> QED  BY <1>3, <1>4, <1>5, SubSeqProperties
<1>7. CASE n - offset < 0
      BY <1>6, <1>7
<1>8. CASE ~(n - offset < 0) /\ n - offset > limit
      BY <1>6, <1>8
<1>9. CASE ~(n - offset < 0) /\ ~(n - offset > limit)
      BY <1>6, <1>9
<1> QED  BY <1>7, <1>8, <1>9

(* The rows on a page. *)
On(n, offset, limit) == {h \in 1 .. n : offset < h /\ h <= offset + limit}
RowsAt(s, J)         == {s[j] : j \in J}
RowsShown(page)      == {page[i] : i \in DOMAIN page}

LEMMA PageRows ==
    ASSUME NEW S, NEW n \in Nat, NEW s \in [1 .. n -> S],
           NEW offset \in Nat, NEW limit \in Nat
    PROVE  RowsShown(PageOf(s, offset, limit)) = RowsAt(s, On(n, offset, limit))
<1>1. s \in Seq(S) /\ Len(s) = n
      BY SeqDef, LenProperties
<1>2. First(offset) = offset
      BY DEF First
<1> DEFINE last == IF offset + limit < n THEN offset + limit ELSE n
           page == PageOf(s, offset, limit)
           J    == On(n, offset, limit)
<1>3. page = SubSeq(s, offset + 1, last)
      BY <1>1, <1>2 DEF PageOf
<1>4. last \in Int /\ last <= n /\ offset + 1 \in Int
      OBVIOUS
<1>5. J = offset + 1 .. last
      BY DEF On
<1> HIDE DEF J, last
<1>6. \A i \in offset + 1 .. last : s[i] \in S
      BY <1>4
<1>7. /\ page \in Seq(S)
      /\ Len(page) = IF offset + 1 <= last THEN last - (offset + 1) + 1 ELSE 0
      /\ \A i \in 1 .. last - (offset + 1) + 1 : page[i] = s[offset + 1 + i - 1]
      BY <1>3, <1>4, <1>6, SubSeqProperties
<1>8. DOMAIN page = 1 .. last - offset
      BY <1>4, <1>7, LenProperties
<1>9. \A i \in 1 .. last - offset : page[i] = s[offset + i]
      BY <1>4, <1>7
<1> HIDE DEF page
<1>10. ASSUME NEW i \in DOMAIN page PROVE \E j \in J : s[j] = page[i]
  <2>1. offset + i \in J
        BY <1>4, <1>5, <1>8
  <2> QED  BY <1>8, <1>9, <2>1
<1>11. ASSUME NEW j \in J PROVE \E i \in DOMAIN page : page[i] = s[j]
  <2>1. j - offset \in DOMAIN page
        BY <1>4, <1>5, <1>8
  <2>2. page[j - offset] = s[offset + (j - offset)]
        BY <1>8, <1>9, <2>1
  <2>3. offset + (j - offset) = j
        BY <1>4, <1>5
  <2> QED  BY <2>1, <2>2, <2>3
<1>12. RowsShown(page) = RowsAt(s, J)
       BY <1>10, <1>11 DEF RowsAt, RowsShown
<1> QED  BY <1>12 DEF page, J

(* A later page begins after the end of an earlier one. *)
LEMMA OffsetsApart ==
    ASSUME NEW p \in Nat, NEW q \in Nat, NEW l \in Nat, p < q
    PROVE  p * l \in Nat /\ q * l \in Nat /\ p * l + l <= q * l
<1> DEFINE d == q - p - 1
<1>1. d \in Nat /\ q = p + 1 + d
      OBVIOUS
<1>2. \A x, y \in Nat : x * y \in Nat
      OBVIOUS
<1>3. p * l \in Nat /\ q * l \in Nat /\ d * l \in Nat
      BY <1>1, <1>2
<1>4. q * l = p * l + l + d * l
  <2> HIDE DEF d
  <2> QED  BY <1>1
<1> HIDE DEF d
<1> QED  BY <1>3, <1>4

(* Two pages are enough for the rows that NewMeta counts two pages for. *)
LEMMA TwoPages ==
    ASSUME NEW total \in Nat, NEW p, p.limit \in Nat, p.limit >= 1,
           TotalPages(p, total) = 2
    PROVE  total <= p.limit + p.limit
<1> DEFINE l == p.limit
           a == total + l - 1
<1>1. a \in Nat /\ l \in Nat /\ l > 0 /\ a \div l = 2
      BY DEF TotalPages
<1> HIDE DEF a, l
<1>2. a = l * (a \div l) + (a % l) /\ a % l \in 0 .. l - 1
      BY <1>1
<1>3. a <= l * 2 + l - 1
      BY <1>1, <1>2
<1> QED  BY <1>1, <1>3 DEF a, l
=============================================================================
