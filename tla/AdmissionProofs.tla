--------------------------- MODULE AdmissionProofs ---------------------------
(***************************************************************************)
(* What Admission keeps for every set of requests, any ceilings and any    *)
(* number of restarts: its types, that the counters are the slots really   *)
(* promised, that no slot idles, that a restart keeps a build's place, and *)
(* that a request passed over often enough goes first.                     *)
(***************************************************************************)
EXTENDS Admission, FiniteSetTheorems, WellFoundedInduction, SequenceTheorems, TLAPS

\* Who stands in line waits, and chats never do.
LineWaits == \A i \in DOMAIN line : state[line[i]] = "waiting" /\ Kind[line[i]] # "chat"

\* A cancellation that has not been seen yet is of a coroutine at its await.
CancelledAwait == \A r \in cancelled : state[r] \in {"waiting", "woken"}

AdmissionInv ==
    TypeOK /\ LineWaits /\ CancelledAwait /\ SlotsAccounted /\ NoIdleSlot /\ PlaceSurvives

-----------------------------------------------------------------------------
(* Least and greatest numbers, and functions defined by recursion.         *)

LEMMA Least == ASSUME NEW T \in SUBSET Nat, T # {} PROVE \E m \in T : \A x \in T : m <= x
<1> DEFINE Less == OpToRel(<, Nat)
<1>1. IsWellFoundedOn(Less, Nat)
  BY NatLessThanWellFounded
<1>2. \A x, y \in Nat : x < y => <<x, y>> \in Less
  BY DEF OpToRel
<1> HIDE DEF Less
<1>3. PICK m \in T : \A x \in T : ~ (<<x, m>> \in Less)
  BY <1>1, WFMin
<1>4. \A x \in T : x \in Nat /\ m \in Nat /\ ~ (x < m)
  BY <1>2, <1>3
<1> QED
  BY <1>3, <1>4

LEMMA Greatest ==
    ASSUME NEW S \in SUBSET Nat, IsFiniteSet(S), S # {}
    PROVE  \E m \in S : \A x \in S : m >= x
<1> DEFINE Unbounded(U) == U # {} /\ \A m \in U : \E x \in U : ~ (m >= x)
           T == {n \in Nat : \E U \in SUBSET Nat : IsFiniteSet(U) /\ Unbounded(U) /\ Cardinality(U) = n}
<1> SUFFICES ASSUME Unbounded(S) PROVE FALSE
  OBVIOUS
<1>1. Cardinality(S) \in T
  BY FS_CardinalityType
<1>2. PICK n \in T : \A k \in T : n <= k
  BY <1>1, Least
<1>3. PICK U \in SUBSET Nat : IsFiniteSet(U) /\ Unbounded(U) /\ Cardinality(U) = n
  BY <1>2
<1>4. PICK u \in U : TRUE
  BY <1>3
<1>5. IsFiniteSet(U \ {u}) /\ Cardinality(U \ {u}) = n - 1
  BY <1>3, <1>4, FS_RemoveElement
<1>6. n - 1 \notin T
  BY <1>2
<1>7. n - 1 \in Nat
  BY <1>5, FS_CardinalityType
<1>8. ~ Unbounded(U \ {u})
  BY <1>5, <1>6, <1>7
<1>9. CASE U = {u}
  BY <1>3, <1>4, <1>9
<1>10. CASE U # {u}
  <2>1. PICK m \in U \ {u} : \A x \in U \ {u} : m >= x
    BY <1>4, <1>8, <1>10
  <2>2. m \in Nat /\ u \in Nat
    BY <1>3, <1>4, <2>1
  <2>3. \A x \in U : x \in Nat /\ (x = u \/ m >= x)
    BY <2>1
  <2>4. CASE m >= u
    BY <1>3, <2>1, <2>3, <2>4
  <2>5. CASE ~ (m >= u)
    <3>1. \A x \in U : u >= x
      BY <2>2, <2>3, <2>5
    <3> QED
      BY <1>3, <1>4, <3>1
  <2> QED
    BY <2>4, <2>5
<1> QED
  BY <1>9, <1>10

\* f starts with d, and its value at n is what G makes of n and the value before.
Follows(f, D, d, N, G) ==
    f \in [0..N -> D] /\ f[0] = d /\ \A n \in 1..N : f[n] = G[<<n, f[n - 1]>>]

\* A recursive definition on 0..N has a value at each number, in the set its steps stay in.
LEMMA Recursion ==
    ASSUME NEW D, NEW d \in D, NEW N \in Nat, NEW G \in [(1..N) \X D -> D]
    PROVE  \E f : Follows(f, D, d, N, G)
<1> DEFINE Upto(m, f) == f[0] = d /\ \A n \in 1..m : f[n] = G[<<n, f[n - 1]>>]
           T == {m \in 0..N : ~ \E f \in [0..m -> D] : Upto(m, f)}
<1> SUFFICES ASSUME N \in T PROVE FALSE
  BY DEF Follows
<1>a. T \subseteq 0..N
  OBVIOUS
<1>b. \A m \in 0..N : m \notin T => \E f \in [0..m -> D] : Upto(m, f)
  OBVIOUS
<1>c. \A m \in T : ~ \E f \in [0..m -> D] : Upto(m, f)
  OBVIOUS
<1> HIDE DEF T
<1>1. PICK m \in T : \A k \in T : m <= k
  BY <1>a, Least
<1>2. m # 0
  <2>1. [n \in 0..0 |-> d] \in [0..0 -> D] /\ Upto(0, [n \in 0..0 |-> d])
    OBVIOUS
  <2> QED
    BY <1>1, <1>c, <2>1
<1>3. m - 1 \in 0..N /\ m - 1 \notin T /\ m \in 1..N
  BY <1>a, <1>1, <1>2
<1>4. PICK f \in [0..(m - 1) -> D] : Upto(m - 1, f)
  BY <1>3, <1>b
<1> DEFINE g == [n \in 0..m |-> IF n = m THEN G[<<m, f[m - 1]>>] ELSE f[n]]
<1>5. f[m - 1] \in D /\ G[<<m, f[m - 1]>>] \in D
  BY <1>3, <1>4
<1>6. g \in [0..m -> D]
  BY <1>3, <1>4, <1>5
<1>7. g[0] = d
  BY <1>3, <1>4
<1>8. ASSUME NEW n \in 1..m PROVE g[n] = G[<<n, g[n - 1]>>]
  <2>1. n - 1 \in 0..m /\ n - 1 # m /\ n \in 0..m /\ g[n - 1] = f[n - 1]
    BY <1>3, <1>8
  <2>2. CASE n = m
    BY <2>1, <2>2
  <2>3. CASE n # m
    <3>1. n \in 1..(m - 1) /\ g[n] = f[n]
      BY <1>3, <1>8, <2>1, <2>3
    <3> QED
      BY <1>4, <2>1, <3>1
  <2> QED
    BY <2>2, <2>3
<1> QED
  BY <1>1, <1>6, <1>7, <1>8, <1>c

\* Induction over 0..N, for the set of the numbers that have the property.
LEMMA Numbers ==
    ASSUME NEW N \in Nat, NEW T \in SUBSET (0..N), 0 \in T, \A n \in 1..N : n - 1 \in T => n \in T
    PROVE  \A n \in 0..N : n \in T
<1> DEFINE Rest == (0..N) \ T
<1> SUFFICES ASSUME Rest # {} PROVE FALSE
  OBVIOUS
<1>1. Rest \in SUBSET Nat
  OBVIOUS
<1>2. PICK m \in Rest : \A k \in Rest : m <= k
  BY <1>1, Least
<1>3. m \in 1..N /\ m - 1 \in 0..N
  BY <1>2
<1>4. m - 1 \notin Rest
  BY <1>2, <1>3
<1> QED
  BY <1>2, <1>3, <1>4

LEMMA Singleton == ASSUME NEW x PROVE The({x}) = x
BY DEF The

-----------------------------------------------------------------------------
(* What happens to a line: one leaves it, or all that are gone.            *)

LEMMA RemoveOne ==
    ASSUME NEW X, NEW q \in Seq(X), IsInjective(q), NEW i \in DOMAIN q
    PROVE  /\ RemoveAt(q, i) \in Seq(X) /\ Len(RemoveAt(q, i)) = Len(q) - 1
           /\ IsInjective(RemoveAt(q, i))
           /\ \A j \in DOMAIN RemoveAt(q, i) : \E k \in DOMAIN q \ {i} : RemoveAt(q, i)[j] = q[k]
<1> DEFINE r == RemoveAt(q, i)
           before == SubSeq(q, 1, i - 1)
           after == SubSeq(q, i + 1, Len(q))
<1>1. Len(q) \in Nat /\ DOMAIN q = 1..Len(q) /\ i \in 1..Len(q)
  OBVIOUS
<1>2. before \in Seq(X) /\ Len(before) = i - 1 /\ \A j \in 1..(i - 1) : before[j] = q[j]
  <2>1. CASE i - 1 = 0
    BY <1>1, <2>1, SubSeqProperties
  <2>2. CASE i - 1 > 0
    BY <1>1, <2>2, SubSeqProperties
  <2> QED
    BY <1>1, <2>1, <2>2
<1>3. /\ after \in Seq(X) /\ Len(after) = Len(q) - i
      /\ \A j \in 1..(Len(q) - i) : after[j] = q[i + j]
  <2>1. i \in Nat /\ i + 1 \in Int /\ Len(q) \in Int /\ i <= Len(q)
    BY <1>1
  <2>2. \A j \in (i + 1)..Len(q) : q[j] \in X
    BY <1>1
  <2>3. /\ after \in Seq(X)
        /\ Len(after) = IF i + 1 <= Len(q) THEN Len(q) - (i + 1) + 1 ELSE 0
        /\ \A j \in 1..(Len(q) - (i + 1) + 1) : after[j] = q[(i + 1) + j - 1]
    BY <2>1, <2>2, SubSeqProperties
  <2> QED
    BY <2>1, <2>3
<1>4. r = before \o after
  BY DEF RemoveAt
<1> HIDE DEF before, after, r
<1>5. /\ r \in Seq(X) /\ Len(r) = Len(before) + Len(after)
      /\ \A j \in 1..(Len(before) + Len(after)) :
            r[j] = IF j <= Len(before) THEN before[j] ELSE after[j - Len(before)]
  <2>1. before \in Seq(X) /\ after \in Seq(X)
    BY <1>2, <1>3
  <2>2. /\ before \o after \in Seq(X) /\ Len(before \o after) = Len(before) + Len(after)
        /\ \A j \in 1..(Len(before) + Len(after)) :
              (before \o after)[j] =
                  IF j <= Len(before) THEN before[j] ELSE after[j - Len(before)]
    BY <2>1, ConcatProperties, Zenon
  <2> QED
    BY <1>4, <2>2, Zenon
<1>6. Len(r) = Len(q) - 1 /\ DOMAIN r = 1..(Len(q) - 1)
  BY <1>1, <1>2, <1>3, <1>5
<1>7. \A j \in 1..Len(r) : r[j] = IF j < i THEN q[j] ELSE q[j + 1]
  <2>1. \A j \in 1..(Len(before) + Len(after)) :
            r[j] = IF j <= Len(before) THEN before[j] ELSE after[j - Len(before)]
    BY <1>5
  <2> TAKE j \in 1..Len(r)
  <2>2. CASE j < i
    BY <1>1, <1>2, <1>3, <1>5, <2>1, <2>2
  <2>3. CASE ~ (j < i)
    <3>1. r[j] = after[j - (i - 1)] /\ j - (i - 1) \in 1..(Len(q) - i)
      BY <1>1, <1>2, <1>3, <1>5, <2>1, <2>3
    <3>2. after[j - (i - 1)] = q[i + (j - (i - 1))]
      BY <1>3, <3>1
    <3>3. i + (j - (i - 1)) = j + 1
      BY <1>1, <1>5
    <3> QED
      BY <2>3, <3>1, <3>2, <3>3
  <2> QED
    BY <2>2, <2>3
<1>8. \A j \in DOMAIN r : \E k \in DOMAIN q \ {i} : k = (IF j < i THEN j ELSE j + 1) /\ r[j] = q[k]
  BY <1>1, <1>6, <1>7
<1>9. ASSUME NEW j \in DOMAIN r, NEW l \in DOMAIN r, r[j] = r[l] PROVE j = l
  <2>1. PICK k \in DOMAIN q : k = (IF j < i THEN j ELSE j + 1) /\ r[j] = q[k]
    BY <1>8
  <2>2. PICK m \in DOMAIN q : m = (IF l < i THEN l ELSE l + 1) /\ r[l] = q[m]
    BY <1>8
  <2>3. k = m
    BY <1>9, <2>1, <2>2 DEF IsInjective
  <2> QED
    BY <1>1, <1>6, <2>1, <2>2, <2>3
<1> QED
  BY <1>5, <1>6, <1>8, <1>9 DEF r, IsInjective

\* The part of a line that has been kept after its first n places.
Kept(q, gone, n, s) ==
    /\ \A j \in DOMAIN s : \E i \in 1..n : s[j] = q[i] /\ q[i] \notin gone
    /\ IsInjective(q) => IsInjective(s)

LEMMA KeepOne ==
    ASSUME NEW X, NEW q \in Seq(X), NEW gone, NEW n \in 1..Len(q), NEW s \in Seq(X),
           Kept(q, gone, n - 1, s), q[n] \notin gone
    PROVE  Kept(q, gone, n, Append(s, q[n]))
<1> DEFINE t == Append(s, q[n])
<1>1. /\ t \in Seq(X) /\ Len(t) = Len(s) + 1 /\ t[Len(s) + 1] = q[n]
      /\ \A j \in 1..Len(s) : t[j] = s[j]
  OBVIOUS
<1>2. /\ Len(q) \in Nat /\ DOMAIN q = 1..Len(q) /\ Len(s) \in Nat /\ DOMAIN s = 1..Len(s)
      /\ DOMAIN t = 1..Len(t)
  BY <1>1
<1> HIDE DEF t
<1>3. \A j \in 1..Len(s) : \E i \in 1..(n - 1) : s[j] = q[i] /\ q[i] \notin gone
  BY <1>2 DEF Kept
<1>4. ASSUME NEW j \in DOMAIN t PROVE \E i \in 1..n : t[j] = q[i] /\ q[i] \notin gone
  <2>1. CASE j = Len(s) + 1
    BY <1>1, <2>1
  <2>2. CASE j \in 1..Len(s)
    BY <1>1, <1>3, <2>2
  <2>3. j \in 1..(Len(s) + 1)
    BY <1>1, <1>2
  <2>4. j = Len(s) + 1 \/ j \in 1..Len(s)
    BY <1>2, <2>3
  <2> QED
    BY <2>1, <2>2, <2>4, Zenon
<1>5. ASSUME IsInjective(q) PROVE IsInjective(t)
  <2>1. \A j \in 1..Len(s) : s[j] # q[n]
    <3> TAKE j \in 1..Len(s)
    <3>1. PICK i \in 1..(n - 1) : s[j] = q[i]
      BY <1>3
    <3>2. i \in DOMAIN q /\ n \in DOMAIN q /\ i # n
      BY <1>2
    <3> QED
      BY <1>5, <3>1, <3>2 DEF IsInjective
  <2>2. IsInjective(s)
    BY <1>5 DEF Kept
  <2> QED
    BY <1>1, <1>2, <2>1, <2>2 DEF IsInjective
<1> QED
  BY <1>4, <1>5 DEF Kept, t

LEMMA WithoutKeeps ==
    ASSUME NEW X, NEW q \in Seq(X), NEW gone
    PROVE  Without(q, gone) \in Seq(X) /\ Kept(q, gone, Len(q), Without(q, gone))
<1> DEFINE N == Len(q)
           G == [p \in (1..N) \X Seq(X) |->
                    IF q[p[1]] \in gone THEN p[2] ELSE Append(p[2], q[p[1]])]
           Value(f, n) == IF n = 0 THEN <<>>
                          ELSE IF q[n] \in gone THEN f[n - 1] ELSE Append(f[n - 1], q[n])
           Eq(f) == f = [n \in 0..N |-> Value(f, n)]
           kept == CHOOSE f : Eq(f)
<1>1. N \in Nat /\ DOMAIN q = 1..N
  OBVIOUS
<1>2. G \in [(1..N) \X Seq(X) -> Seq(X)]
  <2>1. \A p \in (1..N) \X Seq(X) : q[p[1]] \in X /\ p[2] \in Seq(X)
    OBVIOUS
  <2> QED
    BY <2>1
<1>3. \A n \in 1..N, s \in Seq(X) :
        G[<<n, s>>] = IF q[n] \in gone THEN s ELSE Append(s, q[n])
  OBVIOUS
<1>0. Without(q, gone) = kept[N]
  BY DEF Without
<1> HIDE DEF G, N
<1>4. <<>> \in Seq(X)
  OBVIOUS
<1>5. \E f : Eq(f)
  <2> DEFINE D == Seq(X)
             d == <<>>
  <2>1. d \in D /\ G \in [(1..N) \X D -> D]
    BY <1>2, <1>4
  <2>2. \A n \in 1..N, s \in D : \A f : f[n - 1] = s => G[<<n, s>>] = Value(f, n)
    BY <1>3
  <2>3. \A f : f[0] = d => f[0] = Value(f, 0)
    OBVIOUS
  <2> HIDE DEF D, d, Value
  <2>a. PICK f : Follows(f, D, d, N, G)
    BY <1>1, <2>1, Recursion
  <2>4. f \in [0..N -> D] /\ f[0] = d /\ \A n \in 1..N : f[n] = G[<<n, f[n - 1]>>]
    BY <2>a DEF Follows
  <2>5. ASSUME NEW n \in 0..N PROVE f[n] = Value(f, n)
    <3>1. CASE n = 0
      BY <2>3, <2>4, <3>1
    <3>2. CASE n # 0
      <4>1. n \in 1..N /\ n - 1 \in 0..N
        BY <1>1, <3>2
      <4>2. f[n - 1] \in D
        BY <2>4, <4>1
      <4> QED
        BY <2>2, <2>4, <4>1, <4>2
    <3> QED
      BY <3>1, <3>2
  <2> QED
    BY <2>4, <2>5
<1>6. Eq(kept)
  BY <1>5
<1> HIDE DEF kept
<1>7. \A n \in 0..N : kept[n] = Value(kept, n)
  <2> HIDE DEF Value
  <2> QED
    BY <1>6
<1>8. kept[0] = <<>>
  BY <1>1, <1>7
<1>9. \A n \in 1..N : kept[n] = IF q[n] \in gone THEN kept[n - 1] ELSE Append(kept[n - 1], q[n])
  BY <1>1, <1>7
<1> HIDE DEF Value
<1> DEFINE T == {n \in 0..N : kept[n] \in Seq(X) /\ Kept(q, gone, n, kept[n])}
<1>10. 0 \in T
  <2>1. \A s : s = <<>> => s \in Seq(X) /\ Kept(q, gone, 0, s)
    BY DEF Kept, IsInjective
  <2>2. kept[0] \in Seq(X) /\ Kept(q, gone, 0, kept[0])
    BY <1>8, <2>1
  <2> QED
    BY <1>1, <2>2
<1>11. ASSUME NEW n \in 1..N, n - 1 \in T PROVE n \in T
  <2>1. kept[n - 1] \in Seq(X) /\ Kept(q, gone, n - 1, kept[n - 1]) /\ q[n] \in X
    BY <1>1, <1>11
  <2>2. CASE q[n] \in gone
    <3>1. kept[n] = kept[n - 1]
      BY <1>9, <2>2
    <3>2. \A i \in 1..(n - 1) : i \in 1..n
      OBVIOUS
    <3> QED
      BY <2>1, <3>1, <3>2 DEF Kept
  <2>3. CASE q[n] \notin gone
    <3>1. kept[n] = Append(kept[n - 1], q[n])
      BY <1>9, <2>3
    <3>a. kept[n] \in Seq(X)
      BY <2>1, <3>1, AppendProperties
    <3>b. Kept(q, gone, n, kept[n])
      <4>1. n \in 1..Len(q)
        BY DEF N
      <4> QED
        BY <2>1, <2>3, <3>1, <4>1, KeepOne
    <3> QED
      BY <1>1, <3>a, <3>b
  <2> QED
    BY <2>2, <2>3
<1>12. \A n \in 0..N : n \in T
  <2>1. T \in SUBSET (0..N)
    OBVIOUS
  <2> HIDE DEF T
  <2> QED
    BY <1>1, <1>10, <1>11, <2>1, Numbers
<1> QED
  BY <1>0, <1>1, <1>12 DEF N

-----------------------------------------------------------------------------
(* One turn of the loop of _wake.                                          *)

Standings == {"idle", "waiting", "woken", "held"}
Ages == 0..AgeLimit

\* What a pass of _wake reads and writes, by its types.
Controllers == [held : [Kinds -> Nat], line : Seq(Requests), passed : [Requests -> Ages],
                fairness : [Builds -> Ages], state : [Requests -> Standings]]

Granted(t, k) == {v \in Requests : Kind[v] = k /\ t.state[v] \in {"woken", "held"}}

InLine(t, v) == \E i \in DOMAIN t.line : t.line[i] = v

\* The invariant of the loop: the counters are the slots promised, whoever stands in line waits.
Sound(t) ==
    /\ t \in Controllers /\ IsInjective(t.line)
    /\ \A v \in Requests : InLine(t, v) => t.state[v] = "waiting" /\ Kind[v] # "chat"
    /\ \A k \in Kinds : t.held[k] = Cardinality(Granted(t, k))

LEMMA FewPlaces == ASSUME NEW n \in Nat, NEW S \in SUBSET (1..n) PROVE IsFiniteSet(S)
<1>1. S \in SUBSET Nat /\ \A i \in S : i <= n
  OBVIOUS
<1> QED
  BY <1>1, FS_BoundedSetOfNaturals

LEMMA BestIn ==
    ASSUME NEW t \in Controllers, NEW places \in SUBSET DOMAIN t.line, places # {}
    PROVE  Best(t, places) \in places
<1> DEFINE reviews == {i \in places : Kind[t.line[i]] = "review"}
           kind == IF reviews # {} THEN reviews ELSE places
           values == {Unblocks[t.line[i]] : i \in kind}
           most == Max(values)
           first == {i \in kind : Unblocks[t.line[i]] = most}
<1>1. /\ Len(t.line) \in Nat /\ DOMAIN t.line = 1..Len(t.line)
      /\ \A i \in places : t.line[i] \in Requests /\ Unblocks[t.line[i]] \in Nat
  BY AdmissionAssumption DEF Controllers
<1>2. kind \subseteq places /\ kind # {}
  OBVIOUS
<1>3. Best(t, places) = Min(first)
  BY DEF Best
<1> HIDE DEF kind
<1>4. IsFiniteSet(kind)
  BY <1>1, <1>2, FewPlaces
<1>5. values \in SUBSET Nat /\ IsFiniteSet(values) /\ values # {}
  <2>1. IsFiniteSet(values)
    <3> DEFINE f == [i \in kind |-> Unblocks[t.line[i]]]
    <3>1. f \in Surjection(kind, values)
      BY DEF Surjection
    <3> HIDE DEF f, values
    <3> QED
      BY <1>4, <3>1, FS_Surjection
  <2> QED
    BY <1>1, <1>2, <2>1
<1>6. most \in values
  <2> HIDE DEF values
  <2>1. PICK m \in values : \A x \in values : m >= x
    BY <1>5, Greatest
  <2> QED
    BY <2>1 DEF Max
<1>7. first # {}
  BY <1>6
<1>8. first \in SUBSET Nat /\ first \subseteq kind
  BY <1>1, <1>2
<1> HIDE DEF first
<1>9. Min(first) \in first
  <2>1. PICK m \in first : \A x \in first : m <= x
    BY <1>7, <1>8, Least
  <2> QED
    BY <2>1 DEF Min
<1> QED
  BY <1>2, <1>3, <1>8, <1>9

\* The request chosen is an eligible one, and an aged one when an aged one is eligible.
LEMMA BestOfPool ==
    ASSUME NEW t \in Controllers, NEW c, NEW r, Eligible(t, c, r) # {}
    PROVE  /\ Best(t, Pool(t, c, r)) \in Eligible(t, c, r)
           /\ \A i \in Eligible(t, c, r) : t.passed[t.line[i]] >= AgeLimit =>
                  t.passed[t.line[Best(t, Pool(t, c, r))]] >= AgeLimit
<1>1. Eligible(t, c, r) \subseteq DOMAIN t.line
  BY DEF Eligible
<1>2. /\ Pool(t, c, r) # {} /\ Pool(t, c, r) \subseteq Eligible(t, c, r)
      /\ \A i \in Eligible(t, c, r) : t.passed[t.line[i]] >= AgeLimit =>
            \A j \in Pool(t, c, r) : t.passed[t.line[j]] >= AgeLimit
  <2> HIDE DEF Eligible
  <2> QED
    BY DEF Pool
<1>3. Best(t, Pool(t, c, r)) \in Pool(t, c, r)
  BY <1>1, <1>2, BestIn
<1> QED
  BY <1>2, <1>3

\* What a choice changes.
Chosen(t, u, w) ==
    /\ u.held = [t.held EXCEPT ![Kind[w]] = @ + 1]
    /\ Len(u.line) = Len(t.line) - 1
    /\ \A v \in Requests : InLine(u, v) => InLine(t, v) /\ v # w
    /\ \A v \in Requests : /\ t.passed[v] <= u.passed[v]
                           /\ ~ InLine(u, v) => u.passed[v] = t.passed[v]
    /\ u.state = [t.state EXCEPT ![w] = "woken"]

LEMMA ChooseTypes ==
    ASSUME NEW t, Sound(t), NEW place \in DOMAIN t.line
    PROVE  /\ Choose(t, place) \in Controllers /\ IsInjective(Choose(t, place).line)
           /\ Chosen(t, Choose(t, place), t.line[place])
<1> DEFINE u == Choose(t, place)
           w == t.line[place]
           rest == RemoveAt(t.line, place)
           over == {i \in DOMAIN rest : Build[rest[i]] # Build[w]}
           ours(b) == {i \in over : Build[rest[i]] = b}
           last(b) == CHOOSE i \in over : /\ Build[rest[i]] = b
                                          /\ \A j \in over : Build[rest[j]] = b => j <= i
<1>1. /\ t.held \in [Kinds -> Nat] /\ t.line \in Seq(Requests) /\ t.passed \in [Requests -> Ages]
      /\ t.fairness \in [Builds -> Ages] /\ t.state \in [Requests -> Standings]
      /\ IsInjective(t.line)
  BY DEF Sound, Controllers
<1>2. w \in Requests /\ Kind[w] \in Kinds
  BY <1>1, AdmissionAssumption
<1>3. /\ rest \in Seq(Requests) /\ Len(rest) = Len(t.line) - 1 /\ IsInjective(rest)
      /\ \A j \in DOMAIN rest : \E k \in DOMAIN t.line \ {place} : rest[j] = t.line[k]
  BY <1>1, RemoveOne
<1>4. /\ u.held = [t.held EXCEPT ![Kind[w]] = @ + 1] /\ u.line = rest
      /\ u.state = [t.state EXCEPT ![w] = "woken"]
      /\ u.passed = [v \in Requests |-> IF \E i \in over : rest[i] = v
                                        THEN Bump(t.passed[v]) ELSE t.passed[v]]
      /\ u.fairness = [b \in Builds |-> IF \E i \in over : Build[rest[i]] = b
                                        THEN Bump(t.passed[rest[last(b)]]) ELSE t.fairness[b]]
      /\ u = [held |-> u.held, line |-> u.line, passed |-> u.passed, fairness |-> u.fairness,
              state |-> u.state]
  BY DEF Choose
<1> HIDE DEF u, rest
<1>5. ASSUME NEW n \in Ages PROVE Bump(n) \in Ages /\ n <= Bump(n)
  BY AdmissionAssumption DEF Bump, Ages
<1>6. ASSUME NEW b \in Builds, \E i \in over : Build[rest[i]] = b PROVE rest[last(b)] \in Requests
  <2>1. DOMAIN rest = 1..Len(rest) /\ Len(rest) \in Nat
    BY <1>3
  <2>2. ours(b) \in SUBSET Nat /\ IsFiniteSet(ours(b)) /\ ours(b) # {}
    <3>1. ours(b) \subseteq 1..Len(rest)
      BY <2>1
    <3>2. ours(b) # {}
      BY <1>6
    <3> HIDE DEF ours
    <3>3. ours(b) \in SUBSET Nat
      BY <2>1, <3>1
    <3>4. IsFiniteSet(ours(b))
      BY <2>1, <3>1, FewPlaces
    <3> QED
      BY <3>2, <3>3, <3>4
  <2>3. PICK m \in ours(b) : \A j \in ours(b) : m >= j
    BY <2>2, Greatest
  <2>4. m \in over /\ Build[rest[m]] = b /\ \A j \in over : Build[rest[j]] = b => j <= m
    BY <2>1, <2>3
  <2>5. last(b) \in over
    BY <2>4
  <2> QED
    BY <1>3, <2>5
<1>7. u \in Controllers
  <2>1. u.held \in [Kinds -> Nat] /\ u.state \in [Requests -> Standings]
    <3> HIDE DEF w
    <3>1. t.held[Kind[w]] + 1 \in Nat
      BY <1>1, <1>2
    <3>2. u.held \in [Kinds -> Nat]
      <4> DEFINE k == Kind[w]
                 n == t.held[k] + 1
      <4>1. u.held = [t.held EXCEPT ![k] = n]
        BY <1>4
      <4>2. n \in Nat
        BY <3>1
      <4> HIDE DEF k, n
      <4>3. t.held \in [Kinds -> Nat]
        BY <1>1
      <4> QED
        BY <4>1, <4>2, <4>3
    <3>3. u.state \in [Requests -> Standings]
      BY <1>1, <1>4 DEF Standings
    <3> QED
      BY <3>2, <3>3
  <2> HIDE DEF over, last
  <2>2. u.passed \in [Requests -> Ages]
    <3>1. \A v \in Requests : t.passed[v] \in Ages /\ Bump(t.passed[v]) \in Ages
      BY <1>1, <1>5
    <3> HIDE DEF Ages
    <3> QED
      BY <1>4, <3>1
  <2>3. u.fairness \in [Builds -> Ages]
    <3>1. ASSUME NEW b \in Builds
          PROVE  (IF \E i \in over : Build[rest[i]] = b
                  THEN Bump(t.passed[rest[last(b)]]) ELSE t.fairness[b]) \in Ages
      BY <1>1, <1>5, <1>6
    <3> QED
      BY <1>4, <3>1
  <2> QED
    BY <1>3, <1>4, <2>1, <2>2, <2>3 DEF Controllers
<1>8. \A v \in Requests : InLine(u, v) => InLine(t, v) /\ v # w
  <2> TAKE v \in Requests
  <2>1. ASSUME NEW j \in DOMAIN rest, rest[j] = v PROVE InLine(t, v) /\ v # w
    <3>1. PICK k \in DOMAIN t.line \ {place} : rest[j] = t.line[k]
      BY <1>3
    <3> QED
      BY <1>1, <2>1, <3>1 DEF InLine, IsInjective
  <2> QED
    BY <1>4, <2>1 DEF InLine
<1>9. ASSUME NEW v \in Requests
      PROVE  /\ t.passed[v] <= u.passed[v]
             /\ ~ InLine(u, v) => u.passed[v] = t.passed[v]
  <2>1. t.passed[v] \in Ages /\ t.passed[v] <= t.passed[v] /\ t.passed[v] <= Bump(t.passed[v])
    BY <1>1, <1>5 DEF Ages
  <2>2. u.passed[v] = IF \E i \in over : rest[i] = v THEN Bump(t.passed[v]) ELSE t.passed[v]
    BY <1>4
  <2>3. (\E i \in over : rest[i] = v) => InLine(u, v)
    BY <1>4 DEF InLine
  <2> HIDE DEF over
  <2> QED
    BY <2>1, <2>2, <2>3
<1> QED
  BY <1>3, <1>4, <1>7, <1>8, <1>9 DEF Chosen, u

LEMMA GrantedType ==
    ASSUME NEW t, NEW k
    PROVE  IsFiniteSet(Granted(t, k)) /\ Cardinality(Granted(t, k)) \in 0..Cardinality(Requests)
<1>1. Granted(t, k) \in SUBSET Requests /\ IsFiniteSet(Requests)
  BY AdmissionAssumption DEF Granted
<1>2. IsFiniteSet(Granted(t, k)) /\ Cardinality(Granted(t, k)) <= Cardinality(Requests)
  BY <1>1, FS_Subset
<1> QED
  BY <1>1, <1>2, FS_CardinalityType

Counted(t) ==
    /\ t.held \in [Kinds -> Nat] /\ t.state \in [Requests -> Standings]
    /\ \A k \in Kinds : t.held[k] = Cardinality(Granted(t, k))

Grants(s, t, w) ==
    /\ s.state[w] \notin {"woken", "held"}
    /\ t.state = [s.state EXCEPT ![w] = "woken"] \/ t.state = [s.state EXCEPT ![w] = "held"]
    /\ t.held = [s.held EXCEPT ![Kind[w]] = @ + 1]

GivesBack(s, t, w) ==
    /\ s.state[w] \in {"woken", "held"} /\ t.state = [s.state EXCEPT ![w] = "idle"]
    /\ t.held = [s.held EXCEPT ![Kind[w]] = @ - 1]

\* Somebody is granted a slot: the set of those who have one grows by one.
LEMMA GrantedMore ==
    ASSUME NEW s, NEW t, NEW w \in Requests, Counted(s), Grants(s, t, w)
    PROVE  Counted(t)
<1>1. ASSUME NEW k \in Kinds PROVE t.held[k] = Cardinality(Granted(t, k))
  <2>1. s.state \in [Requests -> Standings] /\ s.held[k] = Cardinality(Granted(s, k))
    BY DEF Counted
  <2>2. CASE k = Kind[w]
    <3>1. Granted(t, k) = Granted(s, k) \cup {w} /\ w \notin Granted(s, k)
      BY <2>1, <2>2 DEF Granted, Grants
    <3>2. t.held[k] = s.held[k] + 1
      BY <2>2 DEF Grants, Counted
    <3> QED
      BY <2>1, <3>1, <3>2, GrantedType, FS_AddElement
  <2>3. CASE k # Kind[w]
    <3>1. Granted(t, k) = Granted(s, k)
      BY <2>1, <2>3 DEF Granted, Grants
    <3>2. t.held[k] = s.held[k]
      BY <2>3 DEF Grants, Counted
    <3> QED
      BY <2>1, <3>1, <3>2
  <2> QED
    BY <2>2, <2>3
<1>2. \A k \in Kinds : t.held[k] \in Nat
  BY <1>1, GrantedType
<1>3. t.state \in [Requests -> Standings]
  BY DEF Counted, Grants, Standings
<1>4. t.held \in [Kinds -> Nat]
  BY <1>2 DEF Counted, Grants
<1> QED
  BY <1>1, <1>3, <1>4 DEF Counted

\* Somebody gives a slot back.
LEMMA GrantedLess ==
    ASSUME NEW s, NEW t, NEW w \in Requests, Counted(s), GivesBack(s, t, w)
    PROVE  Counted(t)
<1>1. ASSUME NEW k \in Kinds PROVE t.held[k] = Cardinality(Granted(t, k))
  <2>1. s.state \in [Requests -> Standings] /\ s.held[k] = Cardinality(Granted(s, k))
    BY DEF Counted
  <2>2. CASE k = Kind[w]
    <3>1. Granted(t, k) = Granted(s, k) \ {w} /\ w \in Granted(s, k)
      BY <2>1, <2>2 DEF Granted, GivesBack
    <3>2. t.held[k] = s.held[k] - 1
      BY <2>2 DEF GivesBack, Counted
    <3> QED
      BY <2>1, <3>1, <3>2, GrantedType, FS_RemoveElement
  <2>3. CASE k # Kind[w]
    <3>1. Granted(t, k) = Granted(s, k)
      BY <2>1, <2>3 DEF Granted, GivesBack
    <3>2. t.held[k] = s.held[k]
      BY <2>3 DEF GivesBack, Counted
    <3> QED
      BY <2>1, <3>1, <3>2
  <2> QED
    BY <2>2, <2>3
<1>2. \A k \in Kinds : t.held[k] \in Nat
  BY <1>1, GrantedType
<1>3. t.state \in [Requests -> Standings]
  BY DEF Counted, GivesBack, Standings
<1>4. t.held \in [Kinds -> Nat]
  BY <1>2 DEF Counted, GivesBack
<1> QED
  BY <1>1, <1>3, <1>4 DEF Counted

LEMMA ChooseSound ==
    ASSUME NEW t, Sound(t), NEW place \in DOMAIN t.line
    PROVE  Sound(Choose(t, place))
<1> DEFINE u == Choose(t, place)
           w == t.line[place]
<1>1. u \in Controllers /\ IsInjective(u.line) /\ Chosen(t, u, w)
  BY ChooseTypes
<1>2. /\ t.held \in [Kinds -> Nat] /\ t.state \in [Requests -> Standings]
      /\ w \in Requests /\ InLine(t, w)
  BY DEF Sound, Controllers, InLine
<1> HIDE DEF u, w
<1>3. t.state[w] = "waiting" /\ Counted(t)
  BY <1>2 DEF Sound, Counted
<1>4. u.held = [t.held EXCEPT ![Kind[w]] = @ + 1] /\ u.state = [t.state EXCEPT ![w] = "woken"]
  BY <1>1 DEF Chosen
<1>5. Grants(t, u, w)
  BY <1>3, <1>4 DEF Grants
<1>6. Counted(u)
  BY <1>2, <1>3, <1>5, GrantedMore
<1>7. \A v \in Requests : InLine(u, v) => u.state[v] = "waiting" /\ Kind[v] # "chat"
  BY <1>1, <1>2, <1>4 DEF Sound, Chosen
<1> QED
  BY <1>1, <1>6, <1>7 DEF Sound, Counted, u

\* Whoever was admitted on the way from s to t, and not for his age, has left behind aged
\* requests only where a review took a slot no task may have.
Overtaken(s, t, c, r) ==
    \A v, a \in Requests :
        /\ t.state[v] # s.state[v] /\ t.passed[v] < AgeLimit
        /\ InLine(t, a) /\ s.passed[a] >= AgeLimit
        => Kind[a] = "task" /\ Kind[v] = "review" /\ Total(t.held) + r > c

\* What t keeps of the s from which turns of the loop led to it.
After(s, t, c, r) ==
    /\ Sound(t)
    /\ \A v \in Requests :
          /\ t.state[v] = s.state[v] \/ (s.state[v] = "waiting" /\ t.state[v] = "woken")
          /\ InLine(t, v) => InLine(s, v)
          /\ s.passed[v] <= t.passed[v]
    /\ Overtaken(s, t, c, r)

LEMMA TotalGrows ==
    ASSUME NEW g \in [Kinds -> Nat], NEW k \in Kinds, NEW h, h = [g EXCEPT ![k] = @ + 1]
    PROVE  Total(g) \in Nat /\ Total(h) = Total(g) + 1
<1>1. k = "task" \/ k = "review" \/ k = "chat"
  BY DEF Kinds
<1>2. g["task"] \in Nat /\ g["review"] \in Nat /\ g["chat"] \in Nat
  BY DEF Kinds
<1>3. \A l \in Kinds : h[l] = IF l = k THEN g[l] + 1 ELSE g[l]
  OBVIOUS
<1>4. /\ h["task"] = IF k = "task" THEN g["task"] + 1 ELSE g["task"]
      /\ h["review"] = IF k = "review" THEN g["review"] + 1 ELSE g["review"]
      /\ h["chat"] = IF k = "chat" THEN g["chat"] + 1 ELSE g["chat"]
  BY <1>3 DEF Kinds
<1> QED
  BY <1>1, <1>2, <1>4 DEF Total

\* One more turn keeps what the turns before have kept.
LEMMA TurnKeeps ==
    ASSUME NEW s, NEW t, NEW c \in Nat, NEW r \in Nat, s.state \in [Requests -> Standings],
           s.passed \in [Requests -> Ages], After(s, t, c, r)
    PROVE  /\ After(s, AdmitOne(t, c, r), c, r)
           /\ \/ Eligible(t, c, r) = {} /\ AdmitOne(t, c, r) = t
              \/ Eligible(t, c, r) # {} /\ Len(AdmitOne(t, c, r).line) = Len(t.line) - 1
<1>1. CASE Eligible(t, c, r) = {}
  BY <1>1 DEF AdmitOne
<1>2. CASE Eligible(t, c, r) # {}
  <2> DEFINE place == Best(t, Pool(t, c, r))
             u == Choose(t, place)
             w == t.line[place]
  <2>1. AdmitOne(t, c, r) = u
    BY <1>2, Singleton DEF AdmitOne
  <2>2. t \in Controllers /\ Sound(t)
    BY DEF After, Sound
  <2>3. /\ place \in Eligible(t, c, r)
        /\ \A i \in Eligible(t, c, r) : t.passed[t.line[i]] >= AgeLimit => t.passed[w] >= AgeLimit
    BY <1>2, <2>2, BestOfPool
  <2> HIDE DEF place
  <2>4. place \in DOMAIN t.line /\ RoomFor(Kind[w], t.held, c, r)
    BY <2>3 DEF Eligible
  <2>5. Sound(u) /\ Chosen(t, u, w)
    BY <2>2, <2>4, ChooseSound, ChooseTypes
  <2>6. /\ t.held \in [Kinds -> Nat] /\ t.state \in [Requests -> Standings]
        /\ t.passed \in [Requests -> Ages] /\ w \in Requests /\ InLine(t, w)
    BY <2>2, <2>4 DEF Controllers, InLine
  <2>7. \A a \in Requests : InLine(t, a) /\ t.passed[a] >= AgeLimit /\ ~ (t.passed[w] >= AgeLimit)
                               => ~ RoomFor(Kind[a], t.held, c, r)
    BY <2>3 DEF InLine, Eligible
  <2> HIDE DEF u, w
  <2>8. u.passed \in [Requests -> Ages]
    BY <2>5 DEF Sound, Controllers
  <2>9. \A v \in Requests : /\ s.passed[v] \in Nat /\ t.passed[v] \in Nat /\ u.passed[v] \in Nat
                            /\ s.passed[v] <= t.passed[v] /\ t.passed[v] <= u.passed[v]
                            /\ ~ InLine(u, v) => u.passed[v] = t.passed[v]
                            /\ InLine(u, v) => InLine(t, v) /\ v # w
    BY <2>5, <2>6, <2>8 DEF After, Chosen, Ages
  <2>10. Total(t.held) \in Nat /\ Total(u.held) = Total(t.held) + 1
    BY <2>5, <2>6, TotalGrows, AdmissionAssumption DEF Chosen
  <2>11. t.state[w] = "waiting" /\ Kind[w] # "chat" /\ Kind[w] \in Kinds
    BY <2>2, <2>6, AdmissionAssumption DEF Sound
  <2>12. u.state = [t.state EXCEPT ![w] = "woken"]
    BY <2>5 DEF Chosen
  <2>13. ASSUME NEW v \in Requests
         PROVE  u.state[v] = s.state[v] \/ (s.state[v] = "waiting" /\ u.state[v] = "woken")
    BY <2>6, <2>11, <2>12 DEF After
  <2>14. ASSUME NEW v \in Requests, NEW a \in Requests, u.state[v] # s.state[v],
                u.passed[v] < AgeLimit, InLine(u, a), s.passed[a] >= AgeLimit
         PROVE  Kind[a] = "task" /\ Kind[v] = "review" /\ Total(u.held) + r > c
    <3>1. InLine(t, a) /\ t.passed[a] >= AgeLimit /\ Kind[a] # "chat" /\ Kind[a] \in Kinds
      BY <2>2, <2>9, <2>14, AdmissionAssumption DEF Sound
    <3>2. CASE v = w
      <4>1. ~ InLine(u, w)
        BY <2>6, <2>9
      <4>2. ~ (t.passed[w] >= AgeLimit)
        BY <2>6, <2>9, <2>14, <3>2, <4>1, AdmissionAssumption
      <4>3. ~ RoomFor(Kind[a], t.held, c, r)
        BY <2>7, <3>1, <4>2
      <4>4. Kind[a] \in {"task", "review"} /\ Kind[w] \in {"task", "review"}
        BY <2>11, <3>1 DEF Kinds
      <4> QED
        BY <2>4, <2>10, <3>2, <4>3, <4>4 DEF RoomFor
    <3>3. CASE v # w
      <4>1. t.state[v] # s.state[v]
        BY <2>6, <2>12, <2>14, <3>3
      <4>2. t.passed[v] < AgeLimit
        BY <2>9, <2>14, AdmissionAssumption
      <4>3. Kind[a] = "task" /\ Kind[v] = "review" /\ Total(t.held) + r > c
        BY <2>14, <3>1, <4>1, <4>2 DEF After, Overtaken
      <4> QED
        BY <2>10, <4>3
    <3> QED
      BY <3>2, <3>3
  <2>15. After(s, u, c, r)
    <3>1. \A v \in Requests : (InLine(u, v) => InLine(s, v)) /\ s.passed[v] <= u.passed[v]
      BY <2>9 DEF After
    <3> QED
      BY <2>5, <2>13, <2>14, <3>1 DEF After, Overtaken
  <2>16. Len(u.line) = Len(t.line) - 1
    BY <2>5 DEF Chosen
  <2> QED
    BY <1>2, <2>1, <2>15, <2>16
<1> QED
  BY <1>1, <1>2

-----------------------------------------------------------------------------
(* The loop, and _wake.                                                    *)

\* No turn of the loop is left to take: the line is through, or nobody in it has room.
Exhausted(s, t, n, c, r) == Eligible(t, c, r) = {} \/ Len(t.line) = Len(s.line) - n

LEMMA AfterNone == ASSUME NEW s, NEW c, NEW r, Sound(s) PROVE After(s, s, c, r)
<1>1. \A v \in Requests : s.passed[v] <= s.passed[v]
  BY DEF Sound, Controllers, Ages
<1> QED
  BY <1>1 DEF After, Overtaken

LEMMA LoopEnds ==
    ASSUME NEW s, NEW c \in Nat, NEW r \in Nat, Sound(s)
    PROVE  After(s, Loop(s, c, r), c, r) /\ Eligible(Loop(s, c, r), c, r) = {}
<1> DEFINE N == Len(s.line)
           D == {t \in Controllers : After(s, t, c, r)}
           G == [p \in (1..N) \X D |-> AdmitOne(p[2], c, r)]
           Value(f, n) == IF n = 0 THEN s ELSE The({AdmitOne(t, c, r) : t \in {f[n - 1]}})
           Eq(f) == f = [n \in 0..N |-> Value(f, n)]
           turns == CHOOSE f : Eq(f)
<1>0. Loop(s, c, r) = turns[N]
  BY DEF Loop
<1>1. N \in Nat /\ s.passed \in [Requests -> Ages] /\ s.state \in [Requests -> Standings]
  BY DEF Sound, Controllers
<1>2. s \in D
  BY AfterNone DEF Sound
<1>3. ASSUME NEW t \in D
      PROVE  /\ AdmitOne(t, c, r) \in D
             /\ \/ Eligible(t, c, r) = {} /\ AdmitOne(t, c, r) = t
                \/ Eligible(t, c, r) # {} /\ Len(AdmitOne(t, c, r).line) = Len(t.line) - 1
  <2>1. After(s, AdmitOne(t, c, r), c, r)
    BY <1>1, TurnKeeps
  <2>2. AdmitOne(t, c, r) \in Controllers
    BY <2>1 DEF After, Sound
  <2> QED
    BY <1>1, <2>1, <2>2, TurnKeeps
<1>4. \A t : The({AdmitOne(u, c, r) : u \in {t}}) = AdmitOne(t, c, r)
  <2> TAKE t
  <2>1. {AdmitOne(u, c, r) : u \in {t}} = {AdmitOne(t, c, r)}
    OBVIOUS
  <2> QED
    BY <2>1, Singleton
<1>5. \A f, n : Value(f, n) = IF n = 0 THEN s ELSE AdmitOne(f[n - 1], c, r)
  BY <1>4
<1> HIDE DEF N, Value
<1>6. \E f : Eq(f)
  <2>1. G \in [(1..N) \X D -> D] /\ \A n \in 1..N, t \in D : G[<<n, t>>] = AdmitOne(t, c, r)
    <3> HIDE DEF D
    <3> QED
      BY <1>3
  <2> HIDE DEF D, G
  <2>2. PICK f : Follows(f, D, s, N, G)
    BY <1>1, <1>2, <2>1, Recursion
  <2>3. f \in [0..N -> D] /\ f[0] = s /\ \A n \in 1..N : f[n] = G[<<n, f[n - 1]>>]
    BY <2>2 DEF Follows
  <2>4. ASSUME NEW n \in 0..N PROVE f[n] = Value(f, n)
    <3>1. CASE n = 0
      BY <1>5, <2>3, <3>1
    <3>2. CASE n # 0
      <4>1. n \in 1..N /\ n - 1 \in 0..N
        BY <1>1, <3>2
      <4>2. f[n - 1] \in D
        BY <2>3, <4>1
      <4>3. f[n] = AdmitOne(f[n - 1], c, r)
        BY <2>1, <2>3, <4>1, <4>2
      <4> QED
        BY <1>5, <3>2, <4>3
    <3> QED
      BY <3>1, <3>2
  <2> QED
    BY <2>3, <2>4
<1>7. Eq(turns)
  BY <1>6
<1> HIDE DEF turns
<1>8. turns[0] = s /\ \A n \in 1..N : turns[n] = AdmitOne(turns[n - 1], c, r)
  <2>1. \A n \in 0..N : turns[n] = Value(turns, n)
    BY <1>7
  <2> QED
    BY <1>1, <1>5, <2>1
<1> DEFINE T == {n \in 0..N : turns[n] \in D /\ Exhausted(s, turns[n], n, c, r)}
<1>9. 0 \in T
  <2>1. Exhausted(s, turns[0], 0, c, r)
    BY <1>1, <1>8 DEF Exhausted, N
  <2> QED
    BY <1>1, <1>2, <1>8, <2>1
<1>10. ASSUME NEW n \in 1..N, n - 1 \in T PROVE n \in T
  <2> HIDE DEF D
  <2>1. turns[n - 1] \in D /\ Exhausted(s, turns[n - 1], n - 1, c, r)
    BY <1>10
  <2>2. turns[n] = AdmitOne(turns[n - 1], c, r)
    BY <1>8
  <2>3. turns[n] \in D
    BY <1>3, <2>1, <2>2
  <2>4. \/ Eligible(turns[n - 1], c, r) = {} /\ turns[n] = turns[n - 1]
        \/ Eligible(turns[n - 1], c, r) # {} /\ Len(turns[n].line) = Len(turns[n - 1].line) - 1
    BY <1>3, <2>1, <2>2
  <2>5. Len(s.line) \in Nat /\ n \in Int
    BY <1>1 DEF N
  <2>6. Exhausted(s, turns[n], n, c, r)
    <3>1. CASE Eligible(turns[n - 1], c, r) = {}
      BY <2>4, <3>1 DEF Exhausted
    <3>2. CASE Eligible(turns[n - 1], c, r) # {}
      <4>1. Len(turns[n - 1].line) = Len(s.line) - (n - 1)
        BY <2>1, <3>2 DEF Exhausted
      <4>2. Len(turns[n].line) = Len(turns[n - 1].line) - 1
        BY <2>4, <3>2
      <4>3. Len(turns[n].line) = Len(s.line) - n
        BY <2>5, <4>1, <4>2
      <4> QED
        BY <4>3 DEF Exhausted
    <3> QED
      BY <3>1, <3>2
  <2> QED
    BY <2>3, <2>6
<1>11. \A n \in 0..N : n \in T
  <2>1. T \in SUBSET (0..N)
    OBVIOUS
  <2> HIDE DEF T
  <2> QED
    BY <1>1, <1>9, <1>10, <2>1, Numbers
<1>12. turns[N] \in Controllers /\ After(s, turns[N], c, r) /\ Exhausted(s, turns[N], N, c, r)
  BY <1>1, <1>11
<1>13. Eligible(turns[N], c, r) = {}
  <2>1. CASE Len(turns[N].line) = 0
    <3>1. DOMAIN turns[N].line = {}
      BY <1>12, <2>1 DEF Controllers
    <3> QED
      BY <3>1 DEF Eligible
  <2> QED
    BY <1>1, <1>12, <2>1 DEF Exhausted, N
<1> QED
  BY <1>0, <1>12, <1>13

\* What _wake leaves of s: nobody who is cancelled, and nobody there is room for, in line.
LEMMA WokenIs ==
    ASSUME NEW s, NEW c \in Nat, NEW r \in Nat, Sound(s)
    PROVE  /\ After(s, Woken(s, c, r), c, r) /\ Eligible(Woken(s, c, r), c, r) = {}
           /\ \A v \in Requests : InLine(Woken(s, c, r), v) => v \notin cancelled
<1> DEFINE u == Live(s)
           t == Loop(u, c, r)
<1>1. Woken(s, c, r) = t
  <2>1. {Loop(live, c, r) : live \in {u}} = {t}
    OBVIOUS
  <2> QED
    BY <2>1, Singleton DEF Woken
<1>2. s \in Controllers /\ s.line \in Seq(Requests)
  BY DEF Sound, Controllers
<1>3. u = [s EXCEPT !.line = Without(s.line, cancelled)]
  BY DEF Live
<1>4. /\ u.line = Without(s.line, cancelled) /\ u.held = s.held /\ u.passed = s.passed
      /\ u.fairness = s.fairness /\ u.state = s.state
  BY <1>2, <1>3 DEF Controllers
<1>5. /\ u.line \in Seq(Requests) /\ IsInjective(u.line)
      /\ \A v \in Requests : InLine(u, v) => InLine(s, v) /\ v \notin cancelled
  <2>1. u.line \in Seq(Requests) /\ Kept(s.line, cancelled, Len(s.line), u.line)
    BY <1>2, <1>4, WithoutKeeps
  <2>2. DOMAIN s.line = 1..Len(s.line) /\ IsInjective(s.line)
    BY <1>2 DEF Sound
  <2> QED
    BY <2>1, <2>2 DEF Kept, InLine
<1>6. Sound(u)
  <2>1. u \in Controllers
    BY <1>2, <1>3, <1>5 DEF Controllers
  <2>2. \A k \in Kinds : Granted(u, k) = Granted(s, k)
    BY <1>4 DEF Granted
  <2> QED
    BY <1>4, <1>5, <2>1, <2>2 DEF Sound
<1>7. After(u, t, c, r) /\ Eligible(t, c, r) = {}
  BY <1>6, LoopEnds
<1> HIDE DEF u, t
<1>8. After(s, t, c, r) /\ \A v \in Requests : InLine(t, v) => v \notin cancelled
  BY <1>4, <1>5, <1>7 DEF After, Overtaken
<1> QED
  BY <1>1, <1>7, <1>8

-----------------------------------------------------------------------------
(* The steps of the controller.                                            *)

LEMMA Recount ==
    ASSUME NEW s, NEW t, Counted(s), t.held = s.held, t.state \in [Requests -> Standings],
           \A v \in Requests : t.state[v] \in {"woken", "held"} <=> s.state[v] \in {"woken", "held"}
    PROVE  Counted(t)
<1>1. \A k \in Kinds : Granted(t, k) = Granted(s, k)
  BY DEF Granted
<1> QED
  BY <1>1 DEF Counted

LEMMA NowSound ==
    ASSUME AdmissionInv
    PROVE  /\ Sound(Now) /\ Counted(Now)
           /\ Now.held = held /\ Now.line = line /\ Now.passed = passed
           /\ Now.fairness = fairness /\ Now.state = state
<1>1. /\ Now.held = held /\ Now.line = line /\ Now.passed = passed
      /\ Now.fairness = fairness /\ Now.state = state
  BY DEF Now
<1>2. held \in [Kinds -> Nat]
  <2>1. Cardinality(Requests) \in Nat
    BY AdmissionAssumption, FS_CardinalityType
  <2> QED
    BY <2>1 DEF AdmissionInv, TypeOK
<1>3. Now \in Controllers
  BY <1>2 DEF Now, Controllers, AdmissionInv, TypeOK, Ages, Standings
<1>4. \A k \in Kinds : held[k] = Cardinality(Granted(Now, k))
  BY <1>1 DEF AdmissionInv, SlotsAccounted, Granted
<1>5. \A v \in Requests : InLine(Now, v) => state[v] = "waiting" /\ Kind[v] # "chat"
  BY <1>1 DEF InLine, AdmissionInv, LineWaits
<1>6. IsInjective(line)
  BY DEF AdmissionInv, TypeOK
<1>7. state \in [Requests -> Standings]
  BY DEF AdmissionInv, TypeOK, Standings
<1> QED
  BY <1>1, <1>2, <1>3, <1>4, <1>5, <1>6, <1>7 DEF Sound, Counted

Ceilings(c, r) == c \in Capacities /\ r \in 0..ReviewReserve

LEMMA CeilingTypes == ASSUME NEW c, NEW r, Ceilings(c, r) PROVE c \in Nat /\ r \in Nat
BY AdmissionAssumption DEF Ceilings

\* The invariant holds where a step leads to a sound state in which nobody has room.
LEMMA Lands ==
    ASSUME NEW t, Sound(t), Becomes(t), Ceilings(capacity', reserve'),
           cancelled' \subseteq Requests, restarts' \in 0..MaxRestarts, disk' \in [Builds -> Ages],
           \A v \in cancelled' : t.state[v] \in {"waiting", "woken"},
           \A v \in Requests \ cancelled' :
               InLine(t, v) => ~ RoomFor(Kind[v], t.held, capacity', reserve'),
           t.line # <<>> => disk' = t.fairness
    PROVE  AdmissionInv'
<1>1. /\ held' = t.held /\ line' = t.line /\ passed' = t.passed /\ fairness' = t.fairness
      /\ state' = t.state
  BY DEF Becomes
<1>2. t \in Controllers /\ IsInjective(t.line)
  BY DEF Sound
<1>3. SlotsAccounted'
  BY <1>1 DEF Sound, Granted, SlotsAccounted
<1>4. held' \in [Kinds -> 0..Cardinality(Requests)]
  <2>1. \A k \in Kinds : t.held[k] \in 0..Cardinality(Requests)
    BY GrantedType DEF Sound
  <2> QED
    BY <1>1, <1>2, <2>1 DEF Controllers
<1>5. TypeOK'
  BY <1>1, <1>2, <1>4 DEF TypeOK, Controllers, Ages, Standings, Ceilings
<1>6. \A i \in DOMAIN t.line : t.line[i] \in Requests /\ InLine(t, t.line[i])
  BY <1>2 DEF Controllers, InLine
<1>7. LineWaits'
  BY <1>1, <1>6 DEF LineWaits, Sound
<1>8. CancelledAwait' /\ PlaceSurvives'
  BY <1>1 DEF CancelledAwait, PlaceSurvives
<1>9. NoIdleSlot'
  BY <1>1, <1>6 DEF NoIdleSlot, Range
<1> QED
  BY <1>3, <1>5, <1>7, <1>8, <1>9 DEF AdmissionInv

\* A step that ends with a wake of the line.
LEMMA WakeLands ==
    ASSUME AdmissionInv, NEW s, Sound(s), Wake(s, capacity', reserve'), Ceilings(capacity', reserve'),
           cancelled' \subseteq cancelled, UNCHANGED restarts,
           \A v \in cancelled' : s.state[v] \in {"waiting", "woken"}
    PROVE  AdmissionInv'
<1> DEFINE t == Woken(s, capacity', reserve')
<1>1. Settle(t)
  BY DEF Wake
<1>2. /\ After(s, t, capacity', reserve') /\ Eligible(t, capacity', reserve') = {}
      /\ Sound(t)
  BY CeilingTypes, WokenIs DEF After
<1> HIDE DEF t
<1>3. t \in Controllers
  BY <1>2 DEF Sound
<1>4. disk' \in [Builds -> Ages]
  BY <1>1, <1>3 DEF Settle, Controllers, AdmissionInv, TypeOK, Ages
<1>5. \A v \in cancelled' : t.state[v] \in {"waiting", "woken"}
  BY <1>2 DEF After, AdmissionInv, TypeOK
<1>6. \A v \in Requests : InLine(t, v) => ~ RoomFor(Kind[v], t.held, capacity', reserve')
  BY <1>2 DEF InLine, Eligible
<1>7. Becomes(t) /\ (t.line # <<>> => disk' = t.fairness)
  BY <1>1 DEF Settle
<1>8. cancelled' \subseteq Requests /\ restarts' \in 0..MaxRestarts
  BY DEF AdmissionInv, TypeOK
<1> QED
  BY <1>2, <1>4, <1>5, <1>6, <1>7, <1>8, Lands

LEMMA SameCeilings ==
    ASSUME AdmissionInv, UNCHANGED <<capacity, reserve>>
    PROVE  Ceilings(capacity', reserve')
BY DEF AdmissionInv, TypeOK, Ceilings

\* The states the line is woken in are sound: r has come, or r has left.
LEMMA JoinedSound ==
    ASSUME AdmissionInv, NEW r \in Requests, state[r] = "idle", Kind[r] # "chat"
    PROVE  Sound([Now EXCEPT !.line = Append(@, r), !.state[r] = "waiting",
                             !.passed[r] = fairness[Build[r]]])
<1> DEFINE s == [Now EXCEPT !.line = Append(@, r), !.state[r] = "waiting",
                            !.passed[r] = fairness[Build[r]]]
<1>1. /\ held \in [Kinds -> Nat] /\ line \in Seq(Requests) /\ passed \in [Requests -> Ages]
      /\ fairness \in [Builds -> Ages] /\ state \in [Requests -> Standings] /\ IsInjective(line)
      /\ Counted(Now) /\ Now.held = held /\ Now.state = state
      /\ \A i \in DOMAIN line : state[line[i]] = "waiting" /\ Kind[line[i]] # "chat"
  BY NowSound DEF Sound, Controllers, AdmissionInv, LineWaits
<1>2. s = [held |-> held, line |-> Append(line, r),
           passed |-> [passed EXCEPT ![r] = fairness[Build[r]]], fairness |-> fairness,
           state |-> [state EXCEPT ![r] = "waiting"]]
  <2> DEFINE q == Append(line, r)
             n == fairness[Build[r]]
  <2>1. s = [Now EXCEPT !.line = q, !.state[r] = "waiting", !.passed[r] = n]
    BY DEF Now
  <2> HIDE DEF q, n, s
  <2>2. s = [held |-> held, line |-> q, passed |-> [passed EXCEPT ![r] = n], fairness |-> fairness,
             state |-> [state EXCEPT ![r] = "waiting"]]
    BY <2>1 DEF Now
  <2> QED
    BY <2>2 DEF q, n
<1>3. fairness[Build[r]] \in Ages
  BY <1>1, AdmissionAssumption
<1> HIDE DEF s
<1>4. s \in Controllers
  <2>1. [passed EXCEPT ![r] = fairness[Build[r]]] \in [Requests -> Ages]
    BY <1>1, <1>3
  <2>2. [state EXCEPT ![r] = "waiting"] \in [Requests -> Standings]
    BY <1>1 DEF Standings
  <2>3. Append(line, r) \in Seq(Requests)
    BY <1>1
  <2> QED
    BY <1>1, <1>2, <2>1, <2>2, <2>3 DEF Controllers
<1>5. Counted(s)
  <2>1. s.held = Now.held /\ s.state \in [Requests -> Standings]
    BY <1>1, <1>2, <1>4 DEF Controllers
  <2>2. \A v \in Requests : s.state[v] \in {"woken", "held"} <=> Now.state[v] \in {"woken", "held"}
    BY <1>1, <1>2
  <2> QED
    BY <1>1, <2>1, <2>2, Recount
<1>6. IsInjective(s.line) /\ \A v \in Requests : InLine(s, v) => v = r \/ InLine(Now, v)
  <2>1. s.line = Append(line, r) /\ Now.line = line
    BY <1>2 DEF Now
  <2>2. \A i \in DOMAIN line : line[i] # r
    BY <1>1
  <2> QED
    BY <1>1, <2>1, <2>2 DEF InLine, IsInjective
<1>7. \A v \in Requests : InLine(s, v) => s.state[v] = "waiting" /\ Kind[v] # "chat"
  BY <1>1, <1>2, <1>6 DEF InLine, Now
<1> QED
  BY <1>4, <1>5, <1>6, <1>7 DEF Sound, Counted, s

LEMMA GoneIs ==
    ASSUME AdmissionInv, NEW r \in Requests
    PROVE  /\ Gone(r) = [held |-> held, line |-> line, passed |-> [passed EXCEPT ![r] = 0],
                         fairness |-> fairness, state |-> [state EXCEPT ![r] = "idle"]]
           /\ Gone(r) \in Controllers /\ IsInjective(line)
           /\ held \in [Kinds -> Nat] /\ state \in [Requests -> Standings]
           /\ [passed EXCEPT ![r] = 0] \in [Requests -> Ages]
<1>1. Gone(r) = [held |-> held, line |-> line, passed |-> [passed EXCEPT ![r] = 0],
                 fairness |-> fairness, state |-> [state EXCEPT ![r] = "idle"]]
  <2> DEFINE n == 0
  <2>1. Gone(r) = [Now EXCEPT !.state[r] = "idle", !.passed[r] = n]
    BY DEF Gone
  <2> HIDE DEF n
  <2>2. Gone(r) = [held |-> held, line |-> line, passed |-> [passed EXCEPT ![r] = n],
                   fairness |-> fairness, state |-> [state EXCEPT ![r] = "idle"]]
    BY <2>1 DEF Now
  <2> QED
    BY <2>2 DEF n
<1>2. /\ held \in [Kinds -> Nat] /\ line \in Seq(Requests) /\ passed \in [Requests -> Ages]
      /\ fairness \in [Builds -> Ages] /\ state \in [Requests -> Standings] /\ IsInjective(line)
  BY NowSound DEF Sound, Controllers
<1>3. 0 \in Ages
  BY AdmissionAssumption DEF Ages
<1>4. [passed EXCEPT ![r] = 0] \in [Requests -> Ages]
  BY <1>2, <1>3
<1>5. [state EXCEPT ![r] = "idle"] \in [Requests -> Standings]
  BY <1>2 DEF Standings
<1> QED
  BY <1>1, <1>2, <1>4, <1>5 DEF Controllers

LEMMA LeftSound ==
    ASSUME AdmissionInv, NEW r \in Requests, state[r] = "waiting"
    PROVE  LET s == [Gone(r) EXCEPT !.line = Without(@, {r})] IN
           /\ Sound(s) /\ s.held = held /\ s.fairness = fairness
           /\ s.state = [state EXCEPT ![r] = "idle"]
           /\ \A v \in Requests : InLine(s, v) => v # r /\ InLine(Now, v)
<1> DEFINE q == Without(line, {r})
           s == [Gone(r) EXCEPT !.line = Without(@, {r})]
<1>1. Sound(Now) /\ Counted(Now) /\ Now.held = held /\ Now.line = line /\ Now.state = state
  BY NowSound
<1>2. line \in Seq(Requests) /\ IsInjective(line)
  BY <1>1 DEF Sound, Controllers
<1>3. /\ q \in Seq(Requests) /\ IsInjective(q)
      /\ \A j \in DOMAIN q : q[j] # r /\ \E i \in DOMAIN line : q[j] = line[i]
  <2>1. q \in Seq(Requests) /\ Kept(line, {r}, Len(line), q)
    BY <1>2, WithoutKeeps
  <2>2. DOMAIN line = 1..Len(line)
    BY <1>2
  <2> HIDE DEF q
  <2> QED
    BY <1>2, <2>1, <2>2 DEF Kept
<1>4. s = [Gone(r) EXCEPT !.line = q]
  BY GoneIs
<1> HIDE DEF q, s
<1>5. s = [held |-> held, line |-> q, passed |-> [passed EXCEPT ![r] = 0],
           fairness |-> fairness, state |-> [state EXCEPT ![r] = "idle"]]
  <2> DEFINE p == [passed EXCEPT ![r] = 0]
             w == [state EXCEPT ![r] = "idle"]
  <2>1. Gone(r) = [held |-> held, line |-> line, passed |-> p, fairness |-> fairness, state |-> w]
    BY GoneIs
  <2> HIDE DEF p, w
  <2>2. s = [held |-> held, line |-> q, passed |-> p, fairness |-> fairness, state |-> w]
    BY <1>4, <2>1
  <2> QED
    BY <2>2 DEF p, w
<1>6. s \in Controllers
  BY <1>3, <1>4, GoneIs DEF Controllers
<1>7. Counted(s)
  <2>1. s.held = Now.held /\ s.state \in [Requests -> Standings]
    BY <1>1, <1>5, <1>6 DEF Controllers
  <2>2. \A v \in Requests : s.state[v] \in {"woken", "held"} <=> Now.state[v] \in {"woken", "held"}
    BY <1>1, <1>5, GoneIs
  <2> QED
    BY <1>1, <2>1, <2>2, Recount
<1>8. \A v \in Requests : InLine(s, v) => v # r /\ InLine(Now, v)
  BY <1>1, <1>3, <1>5 DEF InLine
<1>9. \A v \in Requests : InLine(s, v) => s.state[v] = "waiting" /\ Kind[v] # "chat"
  BY <1>1, <1>5, <1>8, GoneIs DEF Sound
<1> QED
  BY <1>3, <1>5, <1>6, <1>7, <1>8, <1>9 DEF Sound, Counted, s

\* A slot given back: to a request that was chosen and cancelled, or that is done.
Freed(r) == [Gone(r) EXCEPT !.held[Kind[r]] = @ - 1]

LEMMA FreedSound ==
    ASSUME AdmissionInv, NEW r \in Requests, state[r] \in {"woken", "held"}
    PROVE  /\ Sound(Freed(r)) /\ held[Kind[r]] # 0
           /\ Freed(r).state = [state EXCEPT ![r] = "idle"]
           /\ Freed(r).passed = [passed EXCEPT ![r] = 0]
           /\ Freed(r).line = line
<1> DEFINE s == Freed(r)
           h == [held EXCEPT ![Kind[r]] = @ - 1]
<1>1. Sound(Now) /\ Counted(Now) /\ Now.held = held /\ Now.line = line /\ Now.state = state
  BY NowSound
<1>2. s = [held |-> h, line |-> line, passed |-> [passed EXCEPT ![r] = 0],
           fairness |-> fairness, state |-> [state EXCEPT ![r] = "idle"]]
  <2> DEFINE p == [passed EXCEPT ![r] = 0]
             w == [state EXCEPT ![r] = "idle"]
  <2>1. Gone(r) = [held |-> held, line |-> line, passed |-> p, fairness |-> fairness, state |-> w]
    BY GoneIs
  <2> HIDE DEF p, w
  <2>2. s = [Gone(r) EXCEPT !.held = h]
    BY <2>1 DEF Freed
  <2> HIDE DEF s, h
  <2>3. s = [held |-> h, line |-> line, passed |-> p, fairness |-> fairness, state |-> w]
    BY <2>1, <2>2
  <2> QED
    BY <2>3 DEF p, w
<1>3. s.held = [Now.held EXCEPT ![Kind[r]] = @ - 1] /\ s.state = [Now.state EXCEPT ![r] = "idle"]
  BY <1>1, <1>2
<1> HIDE DEF s
<1>4. GivesBack(Now, s, r)
  BY <1>1, <1>3 DEF GivesBack
<1>5. Counted(s)
  BY <1>1, <1>4, GrantedLess
<1>6. s \in Controllers
  <2>1. h \in [Kinds -> Nat]
    BY <1>2, <1>5 DEF Counted
  <2>2. [passed EXCEPT ![r] = 0] \in [Requests -> Ages]
    BY GoneIs
  <2>3. /\ line \in Seq(Requests) /\ fairness \in [Builds -> Ages]
        /\ [state EXCEPT ![r] = "idle"] \in [Requests -> Standings]
    BY GoneIs DEF Controllers
  <2> HIDE DEF h
  <2> QED
    BY <1>2, <2>1, <2>2, <2>3 DEF Controllers
<1>7. \A v \in Requests : InLine(s, v) => InLine(Now, v)
  BY <1>1, <1>2 DEF InLine
<1>8. \A v \in Requests : InLine(s, v) => s.state[v] = "waiting" /\ Kind[v] # "chat"
  BY <1>1, <1>2, <1>7, GoneIs DEF Sound
<1>9. held[Kind[r]] # 0
  <2>1. Kind[r] \in Kinds /\ held[Kind[r]] = Cardinality(Granted(Now, Kind[r]))
    BY <1>1, AdmissionAssumption DEF Counted
  <2>2. r \in Granted(Now, Kind[r])
    BY <1>1 DEF Granted
  <2> QED
    BY <2>1, <2>2, GrantedType, FS_EmptySet
<1>10. /\ s.state = [state EXCEPT ![r] = "idle"] /\ s.passed = [passed EXCEPT ![r] = 0]
       /\ s.line = line
  BY <1>2
<1>11. IsInjective(s.line)
  BY <1>10, GoneIs
<1> QED
  BY <1>5, <1>6, <1>8, <1>9, <1>10, <1>11 DEF Sound, Counted, s

LEMMA AdmitSound ==
    ASSUME NEW t, Sound(t), NEW r \in Requests, t.state[r] = "woken"
    PROVE  /\ Sound(Admit(t, r)) /\ Admit(t, r).held = t.held /\ Admit(t, r).line = t.line
           /\ Admit(t, r).passed = t.passed
           /\ Admit(t, r).state = [t.state EXCEPT ![r] = "held"]
<1> DEFINE u == Admit(t, r)
<1>1. /\ t \in Controllers /\ t.state \in [Requests -> Standings]
      /\ t.fairness \in [Builds -> Ages] /\ t.held \in [Kinds -> Nat]
  BY DEF Sound, Controllers
<1>2. u = [t EXCEPT !.state = [t.state EXCEPT ![r] = "held"],
                    !.fairness = [t.fairness EXCEPT ![Build[r]] = 0]]
  BY <1>1 DEF Admit, Controllers
<1> HIDE DEF u
<1>3. /\ u.held = t.held /\ u.line = t.line /\ u.passed = t.passed
      /\ u.state = [t.state EXCEPT ![r] = "held"]
      /\ u.fairness = [t.fairness EXCEPT ![Build[r]] = 0]
  BY <1>1, <1>2 DEF Controllers
<1>4. u.state \in [Requests -> Standings] /\ u.fairness \in [Builds -> Ages]
  BY <1>1, <1>3, AdmissionAssumption DEF Ages, Standings
<1>5. u \in Controllers
  BY <1>1, <1>2, <1>3, <1>4 DEF Controllers
<1>6. Counted(u)
  <2>1. Counted(t)
    BY <1>1 DEF Sound, Counted
  <2>2. \A v \in Requests : u.state[v] \in {"woken", "held"} <=> t.state[v] \in {"woken", "held"}
    BY <1>1, <1>3
  <2> QED
    BY <1>3, <1>4, <2>1, <2>2, Recount
<1>7. \A v \in Requests : InLine(u, v) => u.state[v] = "waiting" /\ Kind[v] # "chat"
  BY <1>1, <1>3 DEF InLine, Sound
<1> QED
  BY <1>3, <1>5, <1>6, <1>7 DEF Sound, Counted, u

\* One step of AgedGoFirst.
Aged ==
    \A a, v \in Requests :
        /\ a \in Range(line) /\ a \in Range(line') /\ passed[a] >= AgeLimit
        /\ Admitted(v) /\ Kind[v] # "chat" /\ passed'[v] < AgeLimit
        => Kind[a] = "task" /\ Kind[v] = "review" /\ Total(held') + reserve' > capacity'

\* A step that wakes the line in a state s where nobody is admitted who was not before.
LEMMA WakeAged ==
    ASSUME AdmissionInv, NEW s, NEW t, After(s, t, capacity', reserve'), Sound(s),
           \A v \in Requests : s.state[v] \in {"woken", "held"} => state[v] \in {"woken", "held"},
           \A a \in Requests : InLine(Now, a) /\ InLine(s, a) => passed[a] <= s.passed[a],
           line' = t.line, held' = t.held, passed' = t.passed,
           \A v \in Requests : state'[v] \in {"woken", "held"} => t.state[v] \in {"woken", "held"}
    PROVE  Aged
<1> SUFFICES ASSUME NEW a \in Requests, NEW v \in Requests,
                    a \in Range(line), a \in Range(line'), passed[a] >= AgeLimit,
                    Admitted(v), Kind[v] # "chat", passed'[v] < AgeLimit
             PROVE  Kind[a] = "task" /\ Kind[v] = "review" /\ Total(held') + reserve' > capacity'
  BY DEF Aged
<1>1. InLine(Now, a) /\ InLine(t, a)
  BY NowSound DEF Range, InLine
<1>2. InLine(s, a)
  BY <1>1 DEF After
<1>3. passed[a] \in Ages /\ s.passed[a] \in Ages
  BY NowSound DEF Sound, Controllers
<1>4. s.passed[a] >= AgeLimit
  BY <1>1, <1>2, <1>3, AdmissionAssumption DEF Ages
<1>5. t.state[v] # s.state[v]
  BY DEF Admitted
<1> QED
  BY <1>1, <1>4, <1>5 DEF After, Overtaken

\* A step that admits nobody from the line, or that leaves no line.
LEMMA NobodyAged ==
    ASSUME \/ line = <<>> \/ line' = <<>>
           \/ \A v \in Requests : Admitted(v) => Kind[v] = "chat"
    PROVE  Aged
BY DEF Aged, Range

Good == AdmissionInv' /\ Aged

\* A step that ends with a wake of the line.
LEMMA WakeGood ==
    ASSUME AdmissionInv, NEW s, Sound(s), Wake(s, capacity', reserve'), Ceilings(capacity', reserve'),
           cancelled' \subseteq cancelled, UNCHANGED restarts,
           \A v \in cancelled' : s.state[v] \in {"waiting", "woken"},
           \A v \in Requests : s.state[v] \in {"woken", "held"} => state[v] \in {"woken", "held"},
           \A a \in Requests : InLine(Now, a) /\ InLine(s, a) => passed[a] <= s.passed[a]
    PROVE  Good
<1> DEFINE t == Woken(s, capacity', reserve')
<1>1. After(s, t, capacity', reserve')
  BY CeilingTypes, WokenIs
<1>2. Becomes(t)
  BY DEF Wake, Settle
<1> HIDE DEF t
<1>3. Aged
  BY <1>1, <1>2, WakeAged DEF Becomes
<1> QED
  BY <1>3, WakeLands DEF Good

LEMMA ResumeGood == ASSUME AdmissionInv, NEW r \in Requests, Resume(r) PROVE Good
<1> DEFINE t == Admit(Now, r)
<1>1. Sound(Now) /\ Now.held = held /\ Now.line = line /\ Now.state = state
  BY NowSound
<1>2. /\ Sound(t) /\ t.held = held /\ t.line = line /\ t.state = [state EXCEPT ![r] = "held"]
  BY <1>1, AdmitSound DEF Resume
<1>3. /\ Becomes(t) /\ disk' = t.fairness /\ cancelled' = cancelled /\ r \notin cancelled
      /\ state[r] = "woken" /\ UNCHANGED <<capacity, reserve, restarts>>
  BY DEF Resume, Becomes
<1> HIDE DEF t
<1>4. state \in [Requests -> Standings] /\ cancelled \subseteq Requests
  BY <1>1 DEF Sound, Controllers, AdmissionInv, TypeOK
<1>5. \A v \in cancelled' : t.state[v] \in {"waiting", "woken"}
  BY <1>2, <1>3, <1>4 DEF AdmissionInv, CancelledAwait
<1>6. \A v \in Requests \ cancelled' :
          InLine(t, v) => ~ RoomFor(Kind[v], t.held, capacity', reserve')
  BY <1>2, <1>3 DEF InLine, AdmissionInv, NoIdleSlot, Range
<1>7. disk' \in [Builds -> Ages] /\ restarts' \in 0..MaxRestarts /\ cancelled' \subseteq Requests
  BY <1>2, <1>3 DEF Sound, Controllers, AdmissionInv, TypeOK
<1>8. AdmissionInv'
  BY <1>2, <1>3, <1>5, <1>6, <1>7, SameCeilings, Lands
<1>9. \A v \in Requests : ~ Admitted(v)
  BY <1>2, <1>3, <1>4 DEF Becomes, Admitted
<1> QED
  BY <1>8, <1>9, NobodyAged DEF Good

LEMMA CancelGood == ASSUME AdmissionInv, NEW r \in Requests, Cancel(r) PROVE Good
<1>1. /\ UNCHANGED <<capacity, reserve, restarts, disk>> /\ cancelled' = cancelled \cup {r}
      /\ held' = held /\ line' = line /\ passed' = passed /\ fairness' = fairness /\ state' = state
      /\ state[r] \in {"waiting", "woken"}
  BY DEF Cancel, queue
<1>2. AdmissionInv'
  BY <1>1 DEF AdmissionInv, TypeOK, LineWaits, CancelledAwait, SlotsAccounted, NoIdleSlot,
              PlaceSurvives
<1>3. \A v \in Requests : ~ Admitted(v)
  BY <1>1 DEF Admitted
<1> QED
  BY <1>2, <1>3, NobodyAged DEF Good

LEMMA UnwindGood == ASSUME AdmissionInv, NEW r \in Requests, Unwind(r) PROVE Good
<1>1. /\ r \in cancelled /\ cancelled' = cancelled \ {r} /\ UNCHANGED <<capacity, reserve, restarts>>
      /\ state[r] \in {"waiting", "woken"} /\ Ceilings(capacity', reserve')
  BY SameCeilings DEF Unwind, AdmissionInv, CancelledAwait
<1>2. /\ Sound(Now) /\ state \in [Requests -> Standings] /\ cancelled \subseteq Requests
      /\ passed \in [Requests -> Ages] /\ Now.line = line /\ Now.state = state
      /\ \A v \in cancelled : state[v] \in {"waiting", "woken"}
  BY NowSound DEF Sound, Controllers, AdmissionInv, TypeOK, CancelledAwait
<1>3. CASE state[r] = "waiting"
  <2> DEFINE s == [Gone(r) EXCEPT !.line = Without(@, {r})]
  <2>1. Becomes(s) /\ disk' = disk
    BY <1>3 DEF Unwind
  <2>2. /\ Sound(s) /\ s.held = held /\ s.fairness = fairness
        /\ s.state = [state EXCEPT ![r] = "idle"]
        /\ \A v \in Requests : InLine(s, v) => v # r /\ InLine(Now, v)
    BY <1>3, LeftSound
  <2> HIDE DEF s
  <2>3. \A v \in cancelled' : s.state[v] \in {"waiting", "woken"}
    BY <1>1, <1>2, <2>2
  <2>4. \A v \in Requests \ cancelled' :
            InLine(s, v) => ~ RoomFor(Kind[v], s.held, capacity', reserve')
    BY <1>1, <1>2, <2>2 DEF InLine, AdmissionInv, NoIdleSlot, Range
  <2>5. s.line # <<>> => disk' = s.fairness
    <3>1. ASSUME s.line # <<>> PROVE line # <<>>
      <4>1. s.line \in Seq(Requests)
        BY <2>2 DEF Sound, Controllers
      <4>2. 1 \in DOMAIN s.line /\ s.line[1] \in Requests
        BY <3>1, <4>1
      <4>3. InLine(Now, s.line[1])
        BY <2>2, <4>2 DEF InLine
      <4> QED
        BY <1>2, <4>3 DEF InLine
    <3> QED
      BY <2>1, <2>2, <3>1 DEF AdmissionInv, PlaceSurvives
  <2>6. /\ disk' \in [Builds -> Ages] /\ restarts' \in 0..MaxRestarts /\ cancelled' \subseteq Requests
    BY <1>1, <2>1 DEF AdmissionInv, TypeOK, Ages
  <2>7. AdmissionInv'
    BY <1>1, <2>1, <2>2, <2>3, <2>4, <2>5, <2>6, Lands
  <2>8. \A v \in Requests : ~ Admitted(v)
    BY <1>2, <2>1, <2>2 DEF Becomes, Admitted
  <2> QED
    BY <2>7, <2>8, NobodyAged DEF Good
<1>4. CASE state[r] = "woken"
  <2>1. Wake(Freed(r), capacity', reserve')
    BY <1>1, <1>4 DEF Unwind, Freed
  <2>2. /\ Sound(Freed(r)) /\ Freed(r).state = [state EXCEPT ![r] = "idle"]
        /\ Freed(r).passed = [passed EXCEPT ![r] = 0] /\ Freed(r).line = line
    BY <1>4, FreedSound
  <2>3. \A v \in cancelled' : Freed(r).state[v] \in {"waiting", "woken"}
    BY <1>1, <1>2, <2>2
  <2>4. \A v \in Requests : Freed(r).state[v] \in {"woken", "held"} => state[v] \in {"woken", "held"}
    BY <1>2, <2>2
  <2>5. ASSUME NEW a \in Requests, InLine(Now, a) PROVE passed[a] <= Freed(r).passed[a]
    <3>1. a # r
      BY <1>2, <1>4, <2>5 DEF Sound
    <3> QED
      BY <1>2, <2>2, <3>1 DEF Ages
  <2> QED
    BY <1>1, <2>1, <2>2, <2>3, <2>4, <2>5, WakeGood
<1> QED
  BY <1>1, <1>3, <1>4

LEMMA ReleaseGood == ASSUME AdmissionInv, NEW r \in Requests, Release(r) PROVE Good
<1>1. /\ state[r] = "held" /\ UNCHANGED <<capacity, reserve, cancelled, restarts>>
      /\ Ceilings(capacity', reserve')
  BY SameCeilings DEF Release
<1>2. /\ Sound(Freed(r)) /\ Freed(r).state = [state EXCEPT ![r] = "idle"]
      /\ Freed(r).passed = [passed EXCEPT ![r] = 0] /\ Freed(r).line = line
      /\ held[Kind[r]] # 0
  BY <1>1, FreedSound
<1>3. /\ Sound(Now) /\ state \in [Requests -> Standings] /\ cancelled \subseteq Requests
      /\ passed \in [Requests -> Ages] /\ Now.line = line /\ Now.state = state
      /\ \A v \in cancelled : state[v] \in {"waiting", "woken"}
  BY NowSound DEF Sound, Controllers, AdmissionInv, TypeOK, CancelledAwait
<1>4. Wake(Freed(r), capacity', reserve')
  <2>1. Gone(r).held = held
    BY GoneIs
  <2>2. [Gone(r) EXCEPT !.held[Kind[r]] = IF @ = 0 THEN 0 ELSE @ - 1] = Freed(r)
    BY <1>2, <2>1 DEF Freed
  <2> QED
    BY <1>1, <2>2 DEF Release
<1>5. \A v \in cancelled' : Freed(r).state[v] \in {"waiting", "woken"}
  BY <1>1, <1>2, <1>3
<1>6. \A v \in Requests : Freed(r).state[v] \in {"woken", "held"} => state[v] \in {"woken", "held"}
  BY <1>2, <1>3
<1>7. ASSUME NEW a \in Requests, InLine(Now, a) PROVE passed[a] <= Freed(r).passed[a]
  <2>1. a # r
    BY <1>1, <1>3, <1>7 DEF Sound
  <2> QED
    BY <1>2, <1>3, <2>1 DEF Ages
<1> QED
  BY <1>1, <1>2, <1>4, <1>5, <1>6, <1>7, WakeGood

LEMMA SetCapacityGood == ASSUME AdmissionInv, NEW c \in Capacities, SetCapacity(c) PROVE Good
<1>1. /\ Wake(Now, capacity', reserve') /\ UNCHANGED <<cancelled, restarts>>
      /\ capacity' = c /\ reserve' = IF reserve < c THEN reserve ELSE c - 1
  BY DEF SetCapacity
<1>2. Ceilings(capacity', reserve')
  BY <1>1, AdmissionAssumption DEF Ceilings, AdmissionInv, TypeOK
<1>3. Sound(Now) /\ Now.passed = passed /\ Now.state = state /\ passed \in [Requests -> Ages]
  BY NowSound DEF Sound, Controllers
<1>4. \A v \in cancelled' : Now.state[v] \in {"waiting", "woken"}
  BY <1>1, <1>3 DEF AdmissionInv, CancelledAwait
<1>5. \A a \in Requests : passed[a] <= Now.passed[a]
  BY <1>3 DEF Ages
<1> QED
  BY <1>1, <1>2, <1>3, <1>4, <1>5, WakeGood

\* The controller of a process that has just started, with the counts f.
Start(f) == [held |-> [k \in Kinds |-> 0], line |-> <<>>, passed |-> [v \in Requests |-> 0],
             fairness |-> f, state |-> [v \in Requests |-> "idle"]]

LEMMA StartSound == ASSUME NEW f \in [Builds -> Ages] PROVE Sound(Start(f))
<1> DEFINE s == Start(f)
<1>1. 0 \in Ages
  BY AdmissionAssumption DEF Ages
<1>2. s \in Controllers
  <2>1. [v \in Requests |-> 0] \in [Requests -> Ages]
    BY <1>1
  <2>2. [k \in Kinds |-> 0] \in [Kinds -> Nat] /\ <<>> \in Seq(Requests)
    OBVIOUS
  <2>3. [v \in Requests |-> "idle"] \in [Requests -> Standings]
    BY DEF Standings
  <2> QED
    BY <2>1, <2>2, <2>3 DEF Start, Controllers
<1>3. DOMAIN s.line = {}
  BY DEF Start
<1>4. \A k \in Kinds : s.held[k] = Cardinality(Granted(s, k))
  <2> TAKE k \in Kinds
  <2>1. Granted(s, k) = {}
    BY DEF Start, Granted
  <2>2. s.held[k] = 0
    BY DEF Start
  <2> QED
    BY <2>1, <2>2, FS_EmptySet
<1> QED
  BY <1>2, <1>3, <1>4 DEF Sound, InLine, IsInjective

LEMMA RestartGood == ASSUME AdmissionInv, Restart PROVE Good
<1> DEFINE t == Start(disk)
<1>1. /\ capacity' = Capacity /\ reserve' = ReviewReserve /\ restarts' \in 0..MaxRestarts
      /\ cancelled' = {} /\ line' = <<>> /\ disk' = disk /\ disk \in [Builds -> Ages]
      /\ Becomes(t)
  BY AdmissionAssumption DEF Restart, AdmissionInv, TypeOK, Ages, Start, Becomes
<1>2. Sound(t) /\ t.line = <<>> /\ DOMAIN t.line = {}
  BY <1>1, StartSound DEF Start
<1> HIDE DEF t
<1>3. Ceilings(capacity', reserve')
  BY <1>1, AdmissionAssumption DEF Ceilings
<1>4. AdmissionInv'
  BY <1>1, <1>2, <1>3, Lands DEF InLine
<1> QED
  BY <1>1, <1>4, NobodyAged DEF Good

LEMMA InitGood == Init => AdmissionInv
<1> SUFFICES ASSUME Init PROVE AdmissionInv
  OBVIOUS
<1>1. 0 \in Ages /\ 0 \in 0..Cardinality(Requests)
  BY AdmissionAssumption, FS_CardinalityType DEF Ages
<1>2. fairness \in [Builds -> Ages]
  BY <1>1 DEF Init
<1>3. Sound(Start(fairness))
  BY <1>2, StartSound
<1>4. SlotsAccounted
  BY <1>3 DEF Init, Start, Sound, SlotsAccounted, Granted
<1>5. held \in [Kinds -> 0..Cardinality(Requests)] /\ passed \in [Requests -> Ages]
  BY <1>1 DEF Init
<1>6. TypeOK
  BY <1>2, <1>5, AdmissionAssumption DEF Init, TypeOK, Ages, IsInjective
<1> QED
  BY <1>4, <1>6 DEF AdmissionInv, Init, LineWaits, CancelledAwait, NoIdleSlot, PlaceSurvives, Range

\* Admitted at once: a chat, or somebody who fits while nobody waits.
AtOnce(r) == Kind[r] = "chat" \/ (line = <<>> /\ RoomFor(Kind[r], held, capacity, reserve))

LEMMA AtOnceGood == ASSUME AdmissionInv, NEW r \in Requests, Acquire(r), AtOnce(r) PROVE Good
<1> DEFINE t == [held |-> held', line |-> line, passed |-> passed, fairness |-> fairness',
                 state |-> [state EXCEPT ![r] = "held"]]
<1>1. /\ state[r] = "idle" /\ held' = [held EXCEPT ![Kind[r]] = @ + 1]
      /\ state' = [state EXCEPT ![r] = "held"]
      /\ \/ Kind[r] = "chat" /\ UNCHANGED <<fairness, disk>>
         \/ fairness' = [fairness EXCEPT ![Build[r]] = 0] /\ disk' = fairness'
      /\ UNCHANGED <<line, passed, capacity, reserve, cancelled, restarts>>
  BY DEF Acquire, AtOnce
<1>2. /\ Sound(Now) /\ Counted(Now) /\ Now.held = held /\ Now.line = line /\ Now.state = state
      /\ held \in [Kinds -> Nat] /\ line \in Seq(Requests) /\ passed \in [Requests -> Ages]
      /\ fairness \in [Builds -> Ages] /\ state \in [Requests -> Standings] /\ IsInjective(line)
  BY NowSound DEF Sound, Controllers
<1>3. /\ Becomes(t) /\ t.held = [held EXCEPT ![Kind[r]] = @ + 1] /\ t.line = line
      /\ t.state = [state EXCEPT ![r] = "held"] /\ t.fairness = fairness'
      /\ t.held = held'
  BY <1>1 DEF Becomes
<1>4. fairness' \in [Builds -> Ages]
  <2>1. 0 \in Ages
    BY AdmissionAssumption DEF Ages
  <2> QED
    BY <1>1, <1>2, <2>1
<1>5. Counted(t)
  <2> HIDE DEF t
  <2>1. Grants(Now, t, r)
    BY <1>1, <1>2, <1>3 DEF Grants
  <2> QED
    BY <1>2, <2>1, GrantedMore
<1>6. t \in Controllers
  <2>1. held' \in [Kinds -> Nat] /\ [state EXCEPT ![r] = "held"] \in [Requests -> Standings]
    BY <1>3, <1>5 DEF Counted
  <2> QED
    BY <1>2, <1>4, <2>1 DEF Controllers
<1> HIDE DEF t
<1>7. \A v \in Requests : InLine(t, v) => InLine(Now, v) /\ v # r
  BY <1>1, <1>2, <1>3 DEF InLine, Sound
<1>8. Sound(t)
  <2>1. \A v \in Requests : InLine(t, v) => t.state[v] = "waiting" /\ Kind[v] # "chat"
    BY <1>2, <1>3, <1>7 DEF Sound
  <2> QED
    BY <1>2, <1>3, <1>5, <1>6, <2>1 DEF Sound, Counted
<1>9. Total(held) \in Nat /\ Total(held') = Total(held) + 1
  <2> DEFINE k == Kind[r]
             h == held'
  <2>1. k \in Kinds /\ h = [held EXCEPT ![k] = @ + 1]
    BY <1>1, AdmissionAssumption
  <2> HIDE DEF k, h
  <2>2. Total(held) \in Nat /\ Total(h) = Total(held) + 1
    BY <1>2, <2>1, TotalGrows
  <2> QED
    BY <2>2 DEF h
<1>10. capacity \in Nat /\ reserve \in Nat
  BY SameCeilings, CeilingTypes, <1>1
<1>11. ASSUME NEW v \in Requests \ cancelled', InLine(t, v)
       PROVE  ~ RoomFor(Kind[v], t.held, capacity', reserve')
  <2>1. ~ RoomFor(Kind[v], held, capacity, reserve)
    BY <1>1, <1>2, <1>7, <1>11 DEF InLine, AdmissionInv, NoIdleSlot, Range
  <2> QED
    BY <1>1, <1>3, <1>9, <1>10, <2>1 DEF RoomFor
<1>12. /\ disk' \in [Builds -> Ages] /\ restarts' \in 0..MaxRestarts /\ cancelled' \subseteq Requests
  BY <1>1, <1>4 DEF AdmissionInv, TypeOK, Ages
<1>13. t.line # <<>> => disk' = t.fairness
  BY <1>1, <1>3 DEF AdmissionInv, PlaceSurvives
<1>14. \A v \in cancelled' : t.state[v] \in {"waiting", "woken"}
  BY <1>1, <1>2, <1>3 DEF AdmissionInv, CancelledAwait, TypeOK
<1>15. AdmissionInv'
  BY <1>1, <1>3, <1>8, <1>11, <1>12, <1>13, <1>14, SameCeilings, Lands
<1>16. line = <<>> \/ \A v \in Requests : Admitted(v) => Kind[v] = "chat"
  BY <1>1, <1>2 DEF AtOnce, Admitted
<1> QED
  BY <1>15, <1>16, NobodyAged DEF Good

LEMMA JoinGood == ASSUME AdmissionInv, NEW r \in Requests, Acquire(r), ~ AtOnce(r) PROVE Good
<1> DEFINE s == [Now EXCEPT !.line = Append(@, r), !.state[r] = "waiting",
                            !.passed[r] = fairness[Build[r]]]
           t == Woken(s, capacity, reserve)
           u == Admit(t, r)
<1>1. /\ state[r] = "idle" /\ Kind[r] # "chat"
      /\ UNCHANGED <<capacity, reserve, cancelled, restarts>>
      /\ IF t.state[r] = "woken" THEN Becomes(u) /\ disk' = fairness' ELSE Settle(t)
  BY DEF Acquire, AtOnce
<1>2. Sound(s)
  BY <1>1, JoinedSound
<1>3. /\ Sound(Now) /\ Now.line = line /\ Now.state = state /\ Now.passed = passed
      /\ state \in [Requests -> Standings] /\ passed \in [Requests -> Ages]
  BY NowSound DEF Sound, Controllers
<1>4. /\ s.state = [state EXCEPT ![r] = "waiting"]
      /\ s.passed = [passed EXCEPT ![r] = fairness[Build[r]]]
  BY DEF Now
<1>5. Wake(s, capacity, reserve) <=> Settle(t)
  BY DEF Wake
<1> HIDE DEF s
<1>6. Ceilings(capacity', reserve') /\ capacity \in Nat /\ reserve \in Nat
  BY <1>1, SameCeilings, CeilingTypes
<1>7. /\ After(s, t, capacity, reserve) /\ Eligible(t, capacity, reserve) = {} /\ Sound(t)
      /\ \A v \in Requests : InLine(t, v) => v \notin cancelled
  BY <1>2, <1>6, WokenIs DEF After
<1> HIDE DEF t
<1>8. cancelled \subseteq Requests /\ \A v \in cancelled : state[v] \in {"waiting", "woken"}
  BY DEF AdmissionInv, TypeOK, CancelledAwait
<1>9. \A v \in cancelled : v # r /\ s.state[v] \in {"waiting", "woken"}
  BY <1>1, <1>3, <1>4, <1>8
<1>10. \A v \in Requests : s.state[v] \in {"woken", "held"} => state[v] \in {"woken", "held"}
  BY <1>3, <1>4
<1>11. ASSUME NEW a \in Requests, InLine(Now, a) PROVE passed[a] <= s.passed[a]
  <2>1. a # r
    BY <1>1, <1>3, <1>11 DEF Sound
  <2> QED
    BY <1>3, <1>4, <2>1 DEF Ages
<1>12. CASE t.state[r] # "woken"
  <2>1. Wake(s, capacity', reserve')
    BY <1>1, <1>5, <1>12
  <2> QED
    BY <1>1, <1>2, <1>6, <1>9, <1>10, <1>11, <2>1, WakeGood
<1>13. CASE t.state[r] = "woken"
  <2>1. Becomes(u) /\ disk' = fairness'
    BY <1>1, <1>13
  <2>2. /\ Sound(u) /\ u.held = t.held /\ u.line = t.line /\ u.passed = t.passed
        /\ u.state = [t.state EXCEPT ![r] = "held"]
    BY <1>7, <1>13, AdmitSound
  <2> HIDE DEF u
  <2>3. t.state \in [Requests -> Standings]
    BY <1>7 DEF Sound, Controllers
  <2>4. \A v \in cancelled' : u.state[v] \in {"waiting", "woken"}
    BY <1>1, <1>7, <1>8, <1>9, <2>2, <2>3 DEF After
  <2>5. \A v \in Requests \ cancelled' :
            InLine(u, v) => ~ RoomFor(Kind[v], u.held, capacity', reserve')
    BY <1>1, <1>7, <2>2 DEF InLine, Eligible
  <2>6. disk' \in [Builds -> Ages] /\ disk' = u.fairness
    BY <2>1, <2>2 DEF Becomes, Sound, Controllers
  <2>7. cancelled' \subseteq Requests /\ restarts' \in 0..MaxRestarts
    BY <1>1, <1>8 DEF AdmissionInv, TypeOK
  <2>8. AdmissionInv'
    BY <1>6, <2>1, <2>2, <2>4, <2>5, <2>6, <2>7, Lands
  <2>9. \A v \in Requests : state'[v] \in {"woken", "held"} => t.state[v] \in {"woken", "held"}
    BY <1>13, <2>1, <2>2, <2>3 DEF Becomes
  <2>10. After(s, t, capacity', reserve')
    BY <1>1, <1>7
  <2>11. Aged
    BY <1>2, <1>10, <1>11, <2>1, <2>2, <2>9, <2>10, WakeAged DEF Becomes
  <2> QED
    BY <2>8, <2>11 DEF Good
<1> QED
  BY <1>12, <1>13

LEMMA StepGood == ASSUME AdmissionInv, Next PROVE Good
<1>1. ASSUME NEW r \in Requests, Acquire(r) PROVE Good
  BY <1>1, AtOnceGood, JoinGood
<1>2. ASSUME NEW r \in Requests, Run(r) PROVE Good
  BY <1>2, ResumeGood, UnwindGood, ReleaseGood DEF Run
<1> QED
  BY <1>1, <1>2, CancelGood, SetCapacityGood, RestartGood DEF Next

LEMMA IdleKeeps == AdmissionInv /\ UNCHANGED vars => AdmissionInv'
BY DEF AdmissionInv, TypeOK, LineWaits, CancelledAwait, SlotsAccounted, NoIdleSlot, PlaceSurvives,
       vars, queue

LEMMA AdmissionKept == Spec => []AdmissionInv
<1>1. AdmissionInv /\ [Next]_vars => AdmissionInv'
  BY StepGood, IdleKeeps DEF Good
<1> QED
  BY <1>1, InitGood, PTL DEF Spec

-----------------------------------------------------------------------------
(* Theorems.                                                               *)

\* Every counter stays within its bounds, and nobody stands twice in line, whoever is
\* cancelled before or after being chosen and however often the ceiling changes.
THEOREM TypeCorrect == Spec => []TypeOK
<1>1. AdmissionInv => TypeOK
  BY DEF AdmissionInv
<1> QED
  BY <1>1, AdmissionKept, PTL

\* The counters are the slots really promised: no path through a cancellation, a wake or a
\* release loses one or gives one back twice.
THEOREM SlotsAreAccounted == Spec => []SlotsAccounted
<1>1. AdmissionInv => SlotsAccounted
  BY DEF AdmissionInv
<1> QED
  BY <1>1, AdmissionKept, PTL

\* Whatever frees room wakes everyone it is room for: no slot idles before a request that fits.
THEOREM NoSlotIdles == Spec => []NoIdleSlot
<1>1. AdmissionInv => NoIdleSlot
  BY DEF AdmissionInv
<1> QED
  BY <1>1, AdmissionKept, PTL

\* While anyone waits, the counts on disk are those the line is ordered by.
THEOREM PlaceIsSaved == Spec => []PlaceSurvives
<1>1. AdmissionInv => PlaceSurvives
  BY DEF AdmissionInv
<1> QED
  BY <1>1, AdmissionKept, PTL

\* A request passed over AGE_LIMIT times is passed over by no younger one, but for a review in
\* a slot no task may have, over all the turns one wake takes.
THEOREM AgedAreFirst == Spec => AgedGoFirst
<1>1. AdmissionInv /\ [Next]_vars =>
        [\A r, s \in Requests :
          /\ r \in Range(line) /\ r \in Range(line') /\ passed[r] >= AgeLimit
          /\ Admitted(s) /\ Kind[s] # "chat" /\ passed'[s] < AgeLimit
          => /\ Kind[r] = "task" /\ Kind[s] = "review"
             /\ Total(held') + reserve' > capacity']_vars
  BY StepGood DEF Good, Aged
<1> QED
  BY <1>1, AdmissionKept, PTL DEF Spec, AgedGoFirst

=============================================================================
