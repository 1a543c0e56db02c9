---------------------------- MODULE RefreshAllProofs ----------------------------
(***************************************************************************)
(* The counters of "refresh all" for any number of accounts, callbacks and  *)
(* bulk requests.  What the toolbar still has to count (total - done) is     *)
(* compared with what is on its way (Outstanding), as cardinalities: each    *)
(* step moves an account from one of the four places it can wait in to       *)
(* another, counts it, or drops it.                                         *)
(***************************************************************************)
EXTENDS RefreshAll, FiniteSetTheorems, SequenceTheorems, TLAPS

-------------------------------------------------------------------------------
(* The four places. *)

LEMMA AccountsFinite ==
    /\ IsFiniteSet(Accounts)
    /\ \A S \in SUBSET Accounts : IsFiniteSet(S) /\ Cardinality(S) \in Nat
<1>1. IsFiniteSet(Accounts)
    BY Finite, FS_Union DEF Accounts
<1> QED
    BY <1>1, FS_Subset, FS_CardinalityType

\* Finitely many finite sets have a finite union.
LEMMA FamilyFinite ==
    ASSUME NEW I, IsFiniteSet(I), NEW f, DOMAIN f = I, \A i \in I : IsFiniteSet(f[i])
    PROVE  IsFiniteSet(UNION {f[i] : i \in I})
<1> DEFINE T == {f[i] : i \in I}
<1> DEFINE g == [i \in I |-> f[i]]
<1>1. g \in Surjection(I, T)
    BY DEF Surjection
<1>2. IsFiniteSet(T)
    BY <1>1, FS_Surjection
<1> QED
    BY <1>2, FS_UNION

LEMMA Tagged ==
    ASSUME NEW x, NEW S, IsFiniteSet(S)
    PROVE  IsFiniteSet({x} \X S) /\ Cardinality({x} \X S) = Cardinality(S)
<1>1. IsFiniteSet({x}) /\ Cardinality({x}) = 1 /\ Cardinality(S) \in Nat
    BY FS_Singleton, FS_CardinalityType
<1>2. IsFiniteSet({x} \X S) /\ Cardinality({x} \X S) = Cardinality({x}) * Cardinality(S)
    BY <1>1, FS_Product
<1>3. Cardinality({x}) * Cardinality(S) = Cardinality(S)
    BY <1>1
<1> QED
    BY <1>2, <1>3

LEMMA CallsFinite ==
    ASSUME NEW c \in [Accounts -> Nat]
    PROVE  IsFiniteSet(CallsDue(c)) /\ Cardinality(CallsDue(c)) \in Nat
<1> DEFINE f == [a \in Accounts |-> {a} \X (1..c[a])]
<1>1. \A a \in Accounts : IsFiniteSet(f[a])
  <2>1. \A n \in Nat : IsFiniteSet(1..n)
      BY FS_Interval
  <2> QED
      BY <2>1, Tagged
<1>2. {f[a] : a \in Accounts} = {{a} \X (1..c[a]) : a \in Accounts}
    OBVIOUS
<1>3. DOMAIN f = Accounts
    OBVIOUS
<1> HIDE DEF f
<1>4. IsFiniteSet(UNION {f[a] : a \in Accounts})
    BY <1>1, <1>3, AccountsFinite, FamilyFinite
<1> QED
    BY <1>2, <1>4, FS_CardinalityType DEF CallsDue

LEMMA WebFinite ==
    ASSUME NEW w \in Seq(SUBSET Full)
    PROVE  IsFiniteSet(WebDue(w)) /\ Cardinality(WebDue(w)) \in Nat
<1> DEFINE f == [i \in DOMAIN w |-> {i} \X w[i]]
<1>1. DOMAIN w = 1..Len(w) /\ Len(w) \in Nat /\ \A i \in DOMAIN w : w[i] \subseteq Full
    OBVIOUS
<1>2. \A i \in DOMAIN w : IsFiniteSet(w[i])
    BY <1>1, Finite, FS_Subset
<1>3. \A i \in DOMAIN w : IsFiniteSet(f[i])
    BY <1>2, Tagged
<1>4. {f[i] : i \in DOMAIN w} = {{i} \X w[i] : i \in DOMAIN w}
    OBVIOUS
<1>5. DOMAIN f = DOMAIN w /\ IsFiniteSet(DOMAIN w)
    BY <1>1, FS_Interval
<1> HIDE DEF f
<1>6. IsFiniteSet(UNION {f[i] : i \in DOMAIN w})
    BY <1>3, <1>5, FamilyFinite
<1> QED
    BY <1>4, <1>6, FS_CardinalityType DEF WebDue

LEMMA FetchesFinite ==
    ASSUME NEW f
    PROVE  IsFiniteSet(FetchesDue(f)) /\ Cardinality(FetchesDue(f)) \in Nat
    BY AccountsFinite DEF FetchesDue

\* One call more for each account of ids.
LEMMA AddCalls ==
    ASSUME NEW c \in [Accounts -> Nat], NEW d, NEW ids \in SUBSET Accounts,
           d = [a \in Accounts |-> c[a] + (IF a \in ids THEN 1 ELSE 0)]
    PROVE  /\ d \in [Accounts -> Nat]
           /\ Cardinality(CallsDue(d)) = Cardinality(CallsDue(c)) + Cardinality(ids)
<1> DEFINE New == {<<a, c[a] + 1>> : a \in ids}
<1> DEFINE f == [a \in ids |-> <<a, c[a] + 1>>]
<1>1. d \in [Accounts -> Nat]
    OBVIOUS
<1>2. f \in Bijection(ids, New)
    BY DEF Bijection, Injection, Surjection, IsInjective
<1>3. IsFiniteSet(New) /\ Cardinality(New) = Cardinality(ids)
    BY <1>2, AccountsFinite, FS_Bijection DEF ExistsBijection
<1>4. CallsDue(d) = CallsDue(c) \cup New
  <2>1. ASSUME NEW a \in Accounts
        PROVE  {a} \X (1..d[a]) = ({a} \X (1..c[a])) \cup (IF a \in ids THEN {<<a, c[a] + 1>>} ELSE {})
    <3>1. 1..d[a] = (1..c[a]) \cup (IF a \in ids THEN {c[a] + 1} ELSE {})
        BY <2>1
    <3> QED
        BY <3>1
  <2> QED
      BY <2>1 DEF CallsDue
<1>5. CallsDue(c) \cap New = {}
  <2>1. \A p \in CallsDue(c) : p[2] <= c[p[1]] /\ p[2] \in Nat /\ p[1] \in Accounts
      BY DEF CallsDue
  <2>2. \A p \in New : p[2] = c[p[1]] + 1 /\ p[1] \in Accounts
      OBVIOUS
  <2> QED
      BY <2>1, <2>2
<1> HIDE DEF New
<1>6. Cardinality({}) = 0
    BY FS_EmptySet
<1>7. IsFiniteSet(CallsDue(c)) /\ Cardinality(CallsDue(c)) \in Nat /\ Cardinality(ids) \in Nat
    BY CallsFinite, AccountsFinite
<1>8. Cardinality(CallsDue(c) \cup New)
         = Cardinality(CallsDue(c)) + Cardinality(New) - Cardinality(CallsDue(c) \cap New)
    BY <1>3, <1>7, FS_Union
<1>9. Cardinality(CallsDue(d)) = Cardinality(CallsDue(c)) + Cardinality(ids) - 0
    BY <1>3, <1>4, <1>5, <1>6, <1>8
<1> QED
    BY <1>1, <1>7, <1>9

LEMMA TakeCall ==
    ASSUME NEW c \in [Accounts -> Nat], NEW a \in Accounts, c[a] > 0
    PROVE  /\ [c EXCEPT ![a] = c[a] - 1] \in [Accounts -> Nat]
           /\ Cardinality(CallsDue([c EXCEPT ![a] = c[a] - 1])) = Cardinality(CallsDue(c)) - 1
<1> DEFINE d == [c EXCEPT ![a] = c[a] - 1]
<1>1. d \in [Accounts -> Nat] /\ d[a] = c[a] - 1 /\ \A b \in Accounts : b # a => d[b] = c[b]
    OBVIOUS
<1> HIDE DEF d
<1>2. CallsDue(d) = CallsDue(c) \ {<<a, c[a]>>}
  <2>1. ASSUME NEW b \in Accounts
        PROVE  {b} \X (1..d[b]) = ({b} \X (1..c[b])) \ {<<a, c[a]>>}
    <3>1. CASE b = a
      <4>1. 1..d[a] = (1..c[a]) \ {c[a]}
          BY <1>1
      <4> QED
          BY <3>1, <4>1
    <3>2. CASE b # a
        BY <1>1, <3>2
    <3> QED
        BY <3>1, <3>2
  <2> QED
      BY <2>1 DEF CallsDue
<1>3. <<a, c[a]>> \in CallsDue(c)
    BY DEF CallsDue
<1>4. IsFiniteSet(CallsDue(c)) /\ Cardinality(CallsDue(c)) \in Nat
    BY <1>1, CallsFinite
<1> HIDE DEF d
<1>5. Cardinality(CallsDue(c) \ {<<a, c[a]>>}) = Cardinality(CallsDue(c)) - 1
    BY <1>3, <1>4, FS_RemoveElement
<1> QED
    BY <1>1, <1>2, <1>5 DEF d

\* One bulk request more, with the accounts to go on with.
LEMMA AddWeb ==
    ASSUME NEW w \in Seq(SUBSET Full), NEW ids \in SUBSET Full
    PROVE  /\ Append(w, ids) \in Seq(SUBSET Full) /\ Len(Append(w, ids)) = Len(w) + 1
           /\ Cardinality(WebDue(Append(w, ids))) = Cardinality(WebDue(w)) + Cardinality(ids)
<1> DEFINE r == Append(w, ids)
<1> DEFINE n == Len(w) + 1
<1>1. /\ r \in Seq(SUBSET Full) /\ Len(r) = n /\ DOMAIN r = (DOMAIN w) \cup {n} /\ n \notin DOMAIN w
      /\ r[n] = ids /\ \A i \in DOMAIN w : r[i] = w[i]
    OBVIOUS
<1> HIDE DEF r, n
<1>2. WebDue(r) = WebDue(w) \cup ({n} \X ids)
    BY <1>1 DEF WebDue
<1>3. WebDue(w) \cap ({n} \X ids) = {}
    BY <1>1 DEF WebDue
<1>4. IsFiniteSet(ids) /\ Cardinality(ids) \in Nat
    BY AccountsFinite DEF Accounts
<1>5. IsFiniteSet({n} \X ids) /\ Cardinality({n} \X ids) = Cardinality(ids)
    BY <1>4, Tagged
<1>6. IsFiniteSet(WebDue(w)) /\ Cardinality(WebDue(w)) \in Nat
    BY WebFinite
<1>7. Cardinality(WebDue(r)) = Cardinality(WebDue(w)) + Cardinality({n} \X ids) - Cardinality({})
    BY <1>2, <1>3, <1>5, <1>6, FS_Union
<1>8. Cardinality(WebDue(r)) = Cardinality(WebDue(w)) + Cardinality(ids)
    BY <1>4, <1>5, <1>6, <1>7, FS_EmptySet
<1> QED
    BY <1>1, <1>8 DEF r, n

\* The requests after one of them has ended.
LEMMA RemoveAtProperties ==
    ASSUME NEW S, NEW w \in Seq(S), NEW i \in DOMAIN w
    PROVE  /\ RemoveAt(w, i) \in Seq(S)
           /\ Len(RemoveAt(w, i)) = Len(w) - 1
           /\ \A j \in 1..(Len(w) - 1) : RemoveAt(w, i)[j] = IF j < i THEN w[j] ELSE w[j + 1]
<1> DEFINE front == SubSeq(w, 1, i - 1)
<1> DEFINE back == SubSeq(w, i + 1, Len(w))
<1>1. i \in 1..Len(w) /\ Len(w) \in Nat /\ \A j \in 1..Len(w) : w[j] \in S
    OBVIOUS
<1>2. /\ front \in Seq(S) /\ Len(front) = i - 1
      /\ \A j \in 1..(i - 1) : front[j] = w[j]
  <2>1. /\ front \in Seq(S) /\ Len(front) = (IF 1 <= i - 1 THEN (i - 1) - 1 + 1 ELSE 0)
        /\ \A j \in 1..((i - 1) - 1 + 1) : front[j] = w[1 + j - 1]
      BY <1>1, SubSeqProperties
  <2> QED
      BY <1>1, <2>1
<1>3. /\ back \in Seq(S) /\ Len(back) = Len(w) - i
      /\ \A j \in 1..(Len(w) - i) : back[j] = w[i + j]
  <2>1. /\ back \in Seq(S) /\ Len(back) = (IF i + 1 <= Len(w) THEN Len(w) - (i + 1) + 1 ELSE 0)
        /\ \A j \in 1..(Len(w) - (i + 1) + 1) : back[j] = w[(i + 1) + j - 1]
      BY <1>1, SubSeqProperties
  <2> QED
      BY <1>1, <2>1
<1> HIDE DEF front, back
<1>4. /\ front \o back \in Seq(S) /\ Len(front \o back) = Len(front) + Len(back)
      /\ \A j \in 1..(Len(front) + Len(back)) :
            (front \o back)[j] = IF j <= Len(front) THEN front[j] ELSE back[j - Len(front)]
    BY <1>2, <1>3, ConcatProperties
<1>5. Len(front) + Len(back) = Len(w) - 1
    BY <1>1, <1>2, <1>3
<1>6. ASSUME NEW j \in 1..(Len(w) - 1)
      PROVE  (front \o back)[j] = IF j < i THEN w[j] ELSE w[j + 1]
  <2>1. CASE j < i
      BY <1>1, <1>2, <1>4, <1>5, <2>1
  <2>2. CASE ~(j < i)
    <3>a. j - (i - 1) \in 1..(Len(w) - i)
        BY <1>1, <2>2
    <3>b. j \in 1..(Len(front) + Len(back)) /\ ~(j <= Len(front)) /\ Len(front) = i - 1
        BY <1>1, <1>2, <1>5, <2>2
    <3>c. (front \o back)[j] = back[j - (i - 1)]
        BY <1>4, <3>b
    <3>2. back[j - (i - 1)] = w[i + (j - (i - 1))]
        BY <1>3, <3>a
    <3>3. i + (j - (i - 1)) = j + 1
        BY <1>1
    <3> QED
        BY <2>2, <3>c, <3>2, <3>3
  <2> QED
      BY <2>1, <2>2
<1> QED
    BY <1>4, <1>5, <1>6 DEF front, back, RemoveAt

\* The places left in 1..n without i, in order, are 1..(n - 1): where the j-th was.
Old(i, j) == IF j < i THEN j ELSE j + 1

LEMMA Shift ==
    ASSUME NEW n \in Nat, NEW i \in 1..n
    PROVE  /\ \A j \in 1..(n - 1) : Old(i, j) \in 1..n /\ Old(i, j) # i
           /\ \A j, k \in 1..(n - 1) : Old(i, j) = Old(i, k) => j = k
           /\ \A k \in 1..n : k # i => \E j \in 1..(n - 1) : Old(i, j) = k
<1>1. ASSUME NEW k \in 1..n, k # i PROVE \E j \in 1..(n - 1) : Old(i, j) = k
  <2>1. CASE k < i
    <3>1. k \in 1..(n - 1) /\ Old(i, k) = k
        BY <1>1, <2>1 DEF Old
    <3> QED
        BY <3>1
  <2>2. CASE k > i
    <3>1. k - 1 \in 1..(n - 1) /\ k - 1 \in Nat /\ ~(k - 1 < i)
        BY <1>1, <2>2
    <3>2. Old(i, k - 1) = k
        BY <3>1 DEF Old
    <3> QED
        BY <3>1, <3>2
  <2> QED
      BY <1>1, <2>1, <2>2
<1>2. ASSUME NEW j \in 1..(n - 1) PROVE Old(i, j) \in 1..n /\ Old(i, j) # i
    BY <1>2 DEF Old
<1>3. ASSUME NEW j \in 1..(n - 1), NEW k \in 1..(n - 1), Old(i, j) = Old(i, k) PROVE j = k
    BY <1>3 DEF Old
<1> QED
    BY <1>1, <1>2, <1>3

LEMMA TakeWeb ==
    ASSUME NEW w \in Seq(SUBSET Full), NEW i \in DOMAIN w
    PROVE  Cardinality(WebDue(RemoveAt(w, i))) = Cardinality(WebDue(w)) - Cardinality(w[i])
<1> DEFINE r == RemoveAt(w, i)
<1>a. /\ r \in Seq(SUBSET Full) /\ Len(r) = Len(w) - 1
      /\ \A j \in 1..(Len(w) - 1) : r[j] = IF j < i THEN w[j] ELSE w[j + 1]
    BY RemoveAtProperties
<1> HIDE DEF r
<1>b. DOMAIN r = 1..(Len(w) - 1) /\ DOMAIN w = 1..Len(w) /\ Len(w) \in Nat /\ w[i] \in SUBSET Full
    BY <1>a
<1>1. \A j \in DOMAIN r : r[j] = w[Old(i, j)]
  <2>1. \A j \in DOMAIN r : j \in Nat
      BY <1>b
  <2> QED
      BY <1>a, <1>b, <2>1 DEF Old
<1>2. /\ \A j \in DOMAIN r : Old(i, j) \in DOMAIN w /\ Old(i, j) # i
      /\ \A j, k \in DOMAIN r : Old(i, j) = Old(i, k) => j = k
      /\ \A k \in DOMAIN w : k # i => \E j \in DOMAIN r : Old(i, j) = k
  <2>1. i \in 1..Len(w) /\ Len(w) \in Nat
      BY <1>b
  <2> DEFINE n == Len(w)
  <2> HIDE DEF n
  <2>2. /\ \A j \in 1..(n - 1) : Old(i, j) \in 1..n /\ Old(i, j) # i
        /\ \A j, k \in 1..(n - 1) : Old(i, j) = Old(i, k) => j = k
        /\ \A k \in 1..n : k # i => \E j \in 1..(n - 1) : Old(i, j) = k
    <3>1. i \in 1..n /\ n \in Nat
        BY <2>1 DEF n
    <3> QED
        BY <3>1, Shift
  <2> QED
      BY <1>b, <2>2 DEF n
<1> DEFINE Rest == WebDue(w) \ ({i} \X w[i])
<1> DEFINE f == [p \in WebDue(r) |-> <<Old(i, p[1]), p[2]>>]
<1>3. \A p : p \in WebDue(r) <=> \E j \in DOMAIN r : \E a \in r[j] : p = <<j, a>>
    BY DEF WebDue
<1>4. \A p : p \in Rest <=> \E k \in DOMAIN w : \E a \in w[k] : k # i /\ p = <<k, a>>
    BY DEF WebDue
<1>5. f \in [WebDue(r) -> Rest]
  <2>1. ASSUME NEW p \in WebDue(r) PROVE <<Old(i, p[1]), p[2]>> \in Rest
    <3>1. PICK j \in DOMAIN r : \E a \in r[j] : p = <<j, a>>
        BY <1>3
    <3> PICK a \in r[j] : p = <<j, a>>
        BY <3>1
    <3>2. <<Old(i, p[1]), p[2]>> = <<Old(i, j), a>> /\ a \in w[Old(i, j)]
        BY <1>1, <3>1
    <3> HIDE DEF Rest
    <3> QED
        BY <1>2, <1>4, <3>2
  <2> QED
      BY <2>1
<1>6. IsInjective(f)
  <2>1. ASSUME NEW p \in WebDue(r), NEW q \in WebDue(r), <<Old(i, p[1]), p[2]>> = <<Old(i, q[1]), q[2]>>
        PROVE  p = q
    <3>1. PICK j \in DOMAIN r : \E a \in r[j] : p = <<j, a>>
        BY <1>3
    <3> PICK a \in r[j] : p = <<j, a>>
        BY <3>1
    <3>2. PICK k \in DOMAIN r : \E b \in r[k] : q = <<k, b>>
        BY <1>3
    <3> PICK b \in r[k] : q = <<k, b>>
        BY <3>2
    <3> QED
        BY <1>2, <2>1
  <2> QED
      BY <2>1 DEF IsInjective
<1>7. \A q \in Rest : \E p \in WebDue(r) : f[p] = q
  <2> SUFFICES ASSUME NEW q \in Rest PROVE \E p \in WebDue(r) : <<Old(i, p[1]), p[2]>> = q
      OBVIOUS
  <2>1. PICK k \in DOMAIN w : \E a \in w[k] : k # i /\ q = <<k, a>>
      BY <1>4
  <2> PICK a \in w[k] : q = <<k, a>>
      BY <2>1
  <2>2. PICK j \in DOMAIN r : Old(i, j) = k
      BY <1>2, <2>1
  <2>3. <<j, a>> \in WebDue(r)
      BY <1>1, <1>3, <2>1, <2>2
  <2> QED
      BY <2>1, <2>2, <2>3
<1> HIDE DEF f, Rest
<1>8. f \in Bijection(WebDue(r), Rest)
    BY <1>5, <1>6, <1>7 DEF Bijection, Injection, Surjection
<1>9. Cardinality(Rest) = Cardinality(WebDue(r))
    BY <1>a, <1>8, WebFinite, FS_Bijection DEF ExistsBijection
<1>10. IsFiniteSet(w[i]) /\ Cardinality(w[i]) \in Nat
    BY <1>b, AccountsFinite DEF Accounts
<1>11. WebDue(w) \cap ({i} \X w[i]) = {i} \X w[i] /\ Cardinality({i} \X w[i]) = Cardinality(w[i])
    BY <1>b, <1>10, Tagged DEF WebDue
<1>12. Cardinality(Rest) = Cardinality(WebDue(w)) - Cardinality(WebDue(w) \cap ({i} \X w[i]))
    BY WebFinite, FS_Difference DEF Rest
<1> QED
    BY <1>9, <1>11, <1>12 DEF r

-------------------------------------------------------------------------------
(* Sweeps and bulk requests keep to their types. *)

LEMMA AsFunction ==
    ASSUME NEW S, NEW n \in Nat, NEW f \in [1..n -> S]
    PROVE  f \in Seq(S) /\ Len(f) = n
    OBVIOUS

LEMMA BoundedSequence ==
    ASSUME NEW S, NEW n \in Nat, NEW w
    PROVE  w \in SeqOf(S, n) <=> w \in Seq(S) /\ Len(w) <= n
<1>1. ASSUME w \in SeqOf(S, n) PROVE w \in Seq(S) /\ Len(w) <= n
  <2>1. PICK m \in 0..n : w \in [1..m -> S]
      BY <1>1 DEF SeqOf
  <2>2. m \in Nat /\ m <= n
      BY <2>1
  <2> QED
      BY <2>1, <2>2, AsFunction
<1>2. ASSUME w \in Seq(S), Len(w) <= n PROVE w \in SeqOf(S, n)
  <2>1. Len(w) \in 0..n /\ w \in [1..Len(w) -> S]
      BY <1>2
  <2> QED
      BY <2>1 DEF SeqOf
<1> QED
    BY <1>1, <1>2

LEMMA AsSequence ==
    ASSUME NEW S \in SUBSET Nfa
    PROVE  SetToSeq(S) \in Seq(Nfa) /\ Len(SetToSeq(S)) = Cardinality(S)
<1> DEFINE n == Cardinality(S)
<1>1. n \in Nat /\ ExistsBijection(1..n, S)
    BY Finite, FS_Subset, FS_CardinalityType
<1>2. \E f \in [1..n -> S] : IsInjective(f)
    BY <1>1 DEF ExistsBijection, Bijection, Injection
<1>3. SetToSeq(S) \in [1..n -> S]
    BY <1>2 DEF SetToSeq
<1>4. SetToSeq(S) \in [1..n -> Nfa]
    BY <1>3
<1> HIDE DEF n
<1>5. SetToSeq(S) \in Seq(Nfa) /\ Len(SetToSeq(S)) = n
    BY <1>1, <1>4, AsFunction
<1> QED
    BY <1>5 DEF n

Sweeps == [active : BOOLEAN, feed : BOOLEAN, queue : Seq(Nfa), idx : Nat, client : BOOLEAN]

\* What TypeOK says of GcValidate.
SweepOK(v) == v \in Sweeps /\ IF v.active THEN v.idx \in DOMAIN v.queue ELSE v = Idle

LEMMA IdleSweep == SweepOK(Idle) /\ SweepDue(Idle) = 0
    BY DEF SweepOK, Sweeps, Idle, SweepDue

LEMMA SweepDueNat == ASSUME NEW v, SweepOK(v) PROVE SweepDue(v) \in Nat
<1>1. CASE v.active
  <2>1. v.idx \in 1..Len(v.queue) /\ Len(v.queue) \in Nat
      BY <1>1 DEF SweepOK, Sweeps
  <2> QED
      BY <2>1 DEF SweepDue
<1>2. CASE ~v.active
    BY <1>2, IdleSweep DEF SweepOK
<1> QED
    BY <1>1, <1>2

\* A sweep that goes on counts for one account less, if it counts at all.
LEMMA AdvanceSweep ==
    ASSUME NEW v, SweepOK(v), v.active
    PROVE  /\ SweepOK(Advance(v))
           /\ SweepDue(Advance(v)) = IF v.feed THEN SweepDue(v) - 1 ELSE SweepDue(v)
<1>1. v \in Sweeps /\ v.idx \in 1..Len(v.queue) /\ Len(v.queue) \in Nat
    BY DEF SweepOK, Sweeps
<1>2. CASE v.idx < Len(v.queue)
  <2> DEFINE u == [v EXCEPT !.client = FALSE, !.idx = v.idx + 1]
  <2>0. Advance(v) = u
      BY <1>2 DEF Advance
  <2>a. v.idx \in Nat /\ v.idx + 1 \in Nat
      BY <1>1
  <2>b. u.active = v.active /\ u.queue = v.queue /\ u.idx = v.idx + 1 /\ u.feed = v.feed
      BY <1>1 DEF Sweeps
  <2>c. u \in Sweeps
      BY <1>1, <2>a DEF Sweeps
  <2>1. /\ Advance(v) = u /\ u \in Sweeps /\ u.active = v.active /\ u.queue = v.queue
        /\ u.idx = v.idx + 1 /\ u.feed = v.feed
      BY <2>0, <2>b, <2>c
  <2> HIDE DEF u
  <2>2. u.idx \in DOMAIN u.queue
      BY <1>1, <1>2, <2>1 DEF Sweeps
  <2>3. SweepOK(Advance(v))
      BY <1>1, <2>1, <2>2 DEF SweepOK
  <2>4. Len(v.queue) \in Nat
      BY <1>1, LenProperties DEF Sweeps
  <2>5. SweepDue(Advance(v)) = IF v.feed THEN Len(v.queue) + 1 - (v.idx + 1) ELSE 0
      BY <2>1 DEF SweepDue
  <2>6. SweepDue(Advance(v)) = IF v.feed THEN SweepDue(v) - 1 ELSE SweepDue(v)
    <3>1. Len(v.queue) + 1 - (v.idx + 1) = (Len(v.queue) + 1 - v.idx) - 1
        BY <2>a, <2>4
    <3> QED
        BY <2>5, <3>1 DEF SweepDue
  <2> QED
      BY <2>3, <2>6
<1>3. CASE ~(v.idx < Len(v.queue))
  <2>1. Advance(v) = Idle /\ v.idx = Len(v.queue)
      BY <1>1, <1>3 DEF Advance
  <2> QED
      BY <1>1, <2>1, IdleSweep DEF SweepDue
<1> QED
    BY <1>2, <1>3

LEMMA NewSweep ==
    ASSUME NEW ids \in SUBSET Nfa, ids # {}, NEW feed \in BOOLEAN
    PROVE  /\ SweepOK(Sweep(SetToSeq(ids), feed))
           /\ SweepDue(Sweep(SetToSeq(ids), feed)) = IF feed THEN Cardinality(ids) ELSE 0
<1> DEFINE q == SetToSeq(ids)
<1>1. Cardinality(ids) \in Nat \ {0}
    BY Finite, FS_Subset, FS_CardinalityType, FS_EmptySet
<1>2. q \in Seq(Nfa) /\ Len(q) = Cardinality(ids)
    BY AsSequence
<1> HIDE DEF q
<1>3. 1 \in DOMAIN q
    BY <1>1, <1>2
<1> QED
    BY <1>1, <1>2, <1>3 DEF q, SweepOK, Sweeps, Sweep, SweepDue

LEMMA StartValidateOK ==
    ASSUME SweepOK(val), StartValidate
    PROVE  SweepOK(val') /\ SweepDue(val') >= SweepDue(val)
<1>1. CASE val.active
    BY <1>1, SweepDueNat DEF StartValidate
<1>2. CASE ~val.active
  <2>1. SweepDue(val) = 0
      BY <1>2, IdleSweep DEF SweepOK
  <2>2. PICK ids \in SUBSET (Present \cap Nfa) :
            val' = IF ids = {} THEN Idle ELSE Sweep(SetToSeq(ids), FALSE)
      BY <1>2 DEF StartValidate
  <2>3. SweepOK(val')
      BY <2>2, IdleSweep, NewSweep
  <2> QED
      BY <2>1, <2>3, SweepDueNat
<1> QED
    BY <1>1, <1>2

LEMMA QueueValidateOK ==
    ASSUME SweepOK(val), NEW a, QueueValidate(a)
    PROVE  SweepOK(val') /\ SweepDue(val') >= SweepDue(val)
<1>0. SweepDue(val) \in Nat
    BY SweepDueNat
<1>1. CASE a \notin Nfa \/ a \in ToSet(val.queue)
  <2>1. val' = val
      BY <1>1 DEF QueueValidate
  <2> QED
      BY <1>0, <2>1
<1>2. CASE a \in Nfa /\ a \notin ToSet(val.queue) /\ val.active
  <2> DEFINE q == Append(val.queue, a)
  <2>1. val \in Sweeps /\ val.idx \in 1..Len(val.queue) /\ Len(val.queue) \in Nat
      BY <1>2 DEF SweepOK, Sweeps
  <2>2. q \in Seq(Nfa) /\ Len(q) = Len(val.queue) + 1 /\ val.idx \in DOMAIN q
      BY <1>2, <2>1 DEF Sweeps
  <2> HIDE DEF q
  <2>3. val' = [val EXCEPT !.queue = q]
      BY <1>2 DEF QueueValidate, q
  <2>4. val' \in Sweeps /\ val'.queue = q /\ val'.active /\ val'.idx = val.idx /\ val'.feed = val.feed
      BY <1>2, <2>1, <2>2, <2>3 DEF Sweeps
  <2> QED
      BY <2>1, <2>2, <2>4 DEF SweepOK, SweepDue
<1>3. CASE a \in Nfa /\ a \notin ToSet(val.queue) /\ ~val.active
  <2>1. val' = Sweep(<<a>>, FALSE)
      BY <1>3 DEF QueueValidate
  <2>2. SweepOK(val') /\ SweepDue(val') = 0
      BY <1>3, <2>1 DEF SweepOK, Sweeps, Sweep, SweepDue
  <2>3. SweepDue(val) = 0
      BY <1>3, IdleSweep DEF SweepOK
  <2> QED
      BY <2>2, <2>3
<1> QED
    BY <1>1, <1>2, <1>3

-------------------------------------------------------------------------------
(* The invariant. *)

\* The headless run has no user and drops nothing: everything on its way is still
\* to be counted.
HeadlessRun ==
    headless =>
        /\ unlocked /\ vault = Accounts
        /\ val = Idle
        /\ \A a \in Accounts : fetch[a] # "single"
        /\ Outstanding <= total - done

\* The inductive invariant: for a user's refresh nothing counted is missing from
\* what is on its way, for the headless run nothing on its way is missing from
\* the counters.
RefreshInd == BatchInv /\ HeadlessRun

\* TypeOK without the counters.
RestOK ==
    /\ headless \in BOOLEAN /\ unlocked \in BOOLEAN /\ vault \subseteq Accounts
    /\ webDone \in BOOLEAN
    /\ web \in Seq(SUBSET Full) /\ Len(web) <= MaxWeb
    /\ calls \in [Accounts -> Nat]
    /\ fetch \in [Accounts -> {"no", "batch", "single"}]
    /\ recent \subseteq Accounts
    /\ SweepOK(val)
    /\ dropped \in BOOLEAN

CountersOK == total \in 0..Cardinality(Accounts) /\ done \in Nat

LEMMA Typed == TypeOK <=> RestOK /\ CountersOK
<1>1. MaxWeb \in Nat
    BY Bounds
<1> QED
    BY <1>1, BoundedSequence DEF TypeOK, RestOK, CountersOK, SweepOK, Sweeps

LEMMA TypedNext == TypeOK' <=> RestOK' /\ CountersOK'
<1>1. MaxWeb \in Nat
    BY Bounds
<1> QED
    BY <1>1, BoundedSequence DEF TypeOK, RestOK, CountersOK, SweepOK, Sweeps

LEMMA OutstandingNat ==
    ASSUME RestOK
    PROVE  /\ Outstanding \in Nat
           /\ Cardinality(CallsDue(calls)) \in Nat /\ Cardinality(FetchesDue(fetch)) \in Nat
           /\ Cardinality(WebDue(web)) \in Nat /\ SweepDue(val) \in Nat
<1>1. /\ Cardinality(CallsDue(calls)) \in Nat /\ Cardinality(FetchesDue(fetch)) \in Nat
      /\ Cardinality(WebDue(web)) \in Nat /\ SweepDue(val) \in Nat
    BY CallsFinite, FetchesFinite, WebFinite, SweepDueNat DEF RestOK
<1> QED
    BY <1>1 DEF Outstanding

LEMMA OutstandingNatNext ==
    ASSUME RestOK'
    PROVE  /\ Outstanding' \in Nat
           /\ Cardinality(CallsDue(calls')) \in Nat /\ Cardinality(FetchesDue(fetch')) \in Nat
           /\ Cardinality(WebDue(web')) \in Nat /\ SweepDue(val') \in Nat
<1>1. /\ Cardinality(CallsDue(calls')) \in Nat /\ Cardinality(FetchesDue(fetch')) \in Nat
      /\ Cardinality(WebDue(web')) \in Nat /\ SweepDue(val') \in Nat
    BY CallsFinite, FetchesFinite, WebFinite, SweepDueNat DEF RestOK
<1> QED
    BY <1>1 DEF Outstanding

\* What the headless run keeps beside the counters.
HeadlessState ==
    headless =>
        /\ unlocked /\ vault = Accounts
        /\ val = Idle
        /\ \A a \in Accounts : fetch[a] # "single"

\* A step that counts no account and loses none.
LEMMA NothingCounted ==
    ASSUME RefreshInd, RestOK', UNCHANGED <<headless, total, done>>, HeadlessState',
           total > 0 /\ ~dropped' => ~dropped /\ Outstanding' >= Outstanding,
           headless => Outstanding' <= Outstanding
    PROVE  RefreshInd'
<1>1. TypeOK'
    BY Typed, TypedNext DEF RefreshInd, BatchInv, CountersOK
<1>2. Outstanding \in Nat /\ Outstanding' \in Nat /\ total \in Nat /\ done \in Nat
    BY Typed, OutstandingNat, OutstandingNatNext DEF RefreshInd, BatchInv, CountersOK
<1>3. CountersSane'
    BY DEF RefreshInd, BatchInv, CountersSane
<1>4. NoneMissing'
    BY <1>2 DEF RefreshInd, BatchInv, NoneMissing
<1>5. HeadlessRun'
    BY <1>2 DEF RefreshInd, HeadlessRun, HeadlessState
<1> QED
    BY <1>1, <1>3, <1>4, <1>5 DEF RefreshInd, BatchInv

\* A step that counts one account, which is no longer on its way.
LEMMA OneCounted ==
    ASSUME RefreshInd, RestOK', UNCHANGED headless, Bump, HeadlessState',
           dropped' = dropped, Outstanding' = Outstanding - 1
    PROVE  RefreshInd'
<1>1. Outstanding \in Nat /\ Outstanding' \in Nat /\ total \in Nat /\ done \in Nat
    BY Typed, OutstandingNat, OutstandingNatNext DEF RefreshInd, BatchInv, CountersOK
<1>2. CountersOK'
  <2>1. Cardinality(Accounts) \in Nat /\ total \in 0..Cardinality(Accounts)
      BY AccountsFinite, Typed DEF RefreshInd, BatchInv, CountersOK
  <2>2. CASE done + 1 >= total
      BY <2>1, <2>2 DEF CountersOK, Bump
  <2>3. CASE ~(done + 1 >= total)
      BY <1>1, <2>1, <2>3 DEF CountersOK, Bump
  <2> QED
      BY <2>2, <2>3
<1>3. TypeOK'
    BY <1>2, TypedNext
<1>4. CountersSane'
    BY <1>1 DEF CountersSane, Bump
<1>5. NoneMissing'
    BY <1>1 DEF RefreshInd, BatchInv, NoneMissing, Bump
<1>6. HeadlessRun'
    BY <1>1 DEF RefreshInd, HeadlessRun, HeadlessState, Bump
<1> QED
    BY <1>3, <1>4, <1>5, <1>6 DEF RefreshInd, BatchInv

LEMMA InitRefresh == Init => RefreshInd
<1> SUFFICES ASSUME Init PROVE RefreshInd
    OBVIOUS
<1> USE DEF Init
<1>1. RestOK
  <2>1. web \in Seq(SUBSET Full) /\ Len(web) = 0 /\ 0 <= MaxWeb
      BY Bounds
  <2>2. SweepOK(val)
      BY IdleSweep
  <2>3. calls \in [Accounts -> Nat] /\ fetch \in [Accounts -> {"no", "batch", "single"}]
      OBVIOUS
  <2> QED
      BY <2>1, <2>2, <2>3 DEF RestOK
<1>2. CountersOK
    BY AccountsFinite DEF CountersOK
<1>3. CallsDue(calls) = {} /\ FetchesDue(fetch) = {} /\ WebDue(web) = {}
    BY DEF CallsDue, FetchesDue, WebDue
<1>4. Outstanding = 0
  <2>1. Cardinality({}) = 0
      BY FS_EmptySet
  <2>2. SweepDue(val) = 0
      BY IdleSweep
  <2>3. Cardinality(CallsDue(calls)) = 0 /\ Cardinality(FetchesDue(fetch)) = 0 /\ Cardinality(WebDue(web)) = 0
      BY <1>3, <2>1
  <2> HIDE DEF Init
  <2> QED
      BY <2>2, <2>3 DEF Outstanding
<1> QED
    BY <1>1, <1>2, <1>4, Typed DEF RefreshInd, BatchInv, HeadlessRun, CountersSane, NoneMissing

-------------------------------------------------------------------------------
(* The GC sweep. *)

LEMMA ValidateStep == ASSUME RefreshInd, ValidateNext \/ ValidateEnds PROVE RefreshInd'
<1> USE DEF userVars
<1>1. RestOK /\ SweepOK(val) /\ val.active /\ ~headless
    BY Typed DEF RefreshInd, BatchInv, RestOK, ValidateNext, ValidateEnds
<1>2. /\ UNCHANGED <<headless, unlocked, vault, webDone, web, calls, fetch, recent, dropped>>
      /\ HeadlessState'
    BY <1>1 DEF ValidateNext, ValidateEnds, HeadlessState
<1>3. CASE val' = Advance(val) /\ IF val.feed THEN Bump ELSE UNCHANGED counters
  <2>1. SweepOK(val') /\ SweepDue(val') = IF val.feed THEN SweepDue(val) - 1 ELSE SweepDue(val)
      BY <1>1, <1>3, AdvanceSweep
  <2>2. RestOK'
      BY <1>1, <1>2, <2>1 DEF RestOK
  <2>3. CASE val.feed
    <3>1. Outstanding' = Outstanding - 1
        BY <1>1, <1>2, <2>1, <2>3, OutstandingNat DEF Outstanding
    <3> QED
        BY <1>2, <1>3, <2>2, <2>3, <3>1, OneCounted
  <2>4. CASE ~val.feed
    <3>1. Outstanding' = Outstanding /\ Outstanding \in Nat
        BY <1>1, <1>2, <2>1, <2>4, OutstandingNat DEF Outstanding
    <3> QED
        BY <1>2, <1>3, <2>2, <2>4, <3>1, NothingCounted DEF counters
  <2> QED
      BY <2>3, <2>4
<1>4. CASE ValidateNext /\ val.queue[val.idx] \in Present
  <2>1. val' = [val EXCEPT !.client = TRUE] /\ UNCHANGED counters
      BY <1>4 DEF ValidateNext, Begin
  <2>2. SweepOK(val') /\ SweepDue(val') = SweepDue(val)
      BY <1>1, <2>1 DEF SweepOK, Sweeps, SweepDue
  <2>3. RestOK'
      BY <1>1, <1>2, <2>2 DEF RestOK
  <2>4. Outstanding' = Outstanding /\ Outstanding \in Nat
      BY <1>1, <1>2, <2>2, OutstandingNat DEF Outstanding
  <2> QED
      BY <1>2, <2>1, <2>3, <2>4, NothingCounted DEF counters
<1> QED
    BY <1>3, <1>4 DEF ValidateNext, ValidateEnds, Begin

-------------------------------------------------------------------------------
(* The results of a refresh. *)

LEMMA WebResultStep == ASSUME RefreshInd, WebResult PROVE RefreshInd'
<1>1. RestOK
    BY Typed DEF RefreshInd, BatchInv
<1>2. PICK i \in DOMAIN web : web' = RemoveAt(web, i) /\ calls' = CallsFor(web[i])
    BY DEF WebResult
<1>3. web[i] \in SUBSET Full /\ Full \subseteq Accounts /\ Cardinality(web[i]) \in Nat
    BY <1>1, AccountsFinite DEF RestOK, Accounts
<1>4. /\ web' \in Seq(SUBSET Full) /\ Len(web') = Len(web) - 1 /\ Len(web) \in Nat
      /\ Cardinality(WebDue(web')) = Cardinality(WebDue(web)) - Cardinality(web[i])
  <2>1. web \in Seq(SUBSET Full) /\ Len(web) \in Nat
      BY <1>1 DEF RestOK
  <2>2. /\ RemoveAt(web, i) \in Seq(SUBSET Full) /\ Len(RemoveAt(web, i)) = Len(web) - 1
        /\ Cardinality(WebDue(RemoveAt(web, i))) = Cardinality(WebDue(web)) - Cardinality(web[i])
      BY <2>1, RemoveAtProperties, TakeWeb
  <2> QED
      BY <1>2, <2>1, <2>2
<1>5. /\ calls' \in [Accounts -> Nat]
      /\ Cardinality(CallsDue(calls')) = Cardinality(CallsDue(calls)) + Cardinality(web[i])
    BY <1>1, <1>2, <1>3, AddCalls DEF RestOK, CallsFor
<1>6. /\ UNCHANGED <<headless, unlocked, vault, total, done, fetch, recent, val, dropped>>
      /\ webDone' = TRUE
    BY DEF WebResult, userVars, counters
<1>7. RestOK'
    BY <1>1, <1>4, <1>5, <1>6, Bounds DEF RestOK
<1>8. Outstanding' = Outstanding /\ Outstanding \in Nat
    BY <1>1, <1>3, <1>4, <1>5, <1>6, OutstandingNat DEF Outstanding
<1>9. HeadlessState'
    BY <1>6 DEF RefreshInd, HeadlessRun, HeadlessState
<1> QED
    BY <1>6, <1>7, <1>8, <1>9, NothingCounted

\* Beginning and ending a fetch of a batch.
LEMMA FetchBegun ==
    ASSUME NEW f \in [Accounts -> {"no", "batch", "single"}], NEW a \in Accounts, f[a] # "batch"
    PROVE  Cardinality(FetchesDue([f EXCEPT ![a] = "batch"])) = Cardinality(FetchesDue(f)) + 1
<1>1. FetchesDue([f EXCEPT ![a] = "batch"]) = FetchesDue(f) \cup {a} /\ a \notin FetchesDue(f)
    BY DEF FetchesDue
<1> QED
    BY <1>1, FetchesFinite, FS_AddElement

LEMMA FetchEnded ==
    ASSUME NEW f \in [Accounts -> {"no", "batch", "single"}], NEW a \in Accounts
    PROVE  Cardinality(FetchesDue([f EXCEPT ![a] = "no"]))
              = IF f[a] = "batch" THEN Cardinality(FetchesDue(f)) - 1 ELSE Cardinality(FetchesDue(f))
<1>1. FetchesDue([f EXCEPT ![a] = "no"]) = FetchesDue(f) \ {a} /\ (a \in FetchesDue(f) <=> f[a] = "batch")
    BY DEF FetchesDue
<1> QED
    BY <1>1, FetchesFinite, FS_RemoveElement

\* A fetch of the user's is not one of a batch.
LEMMA FetchBesides ==
    ASSUME NEW f \in [Accounts -> {"no", "batch", "single"}], NEW a \in Accounts, f[a] = "no"
    PROVE  Cardinality(FetchesDue([f EXCEPT ![a] = "single"])) = Cardinality(FetchesDue(f))
<1>1. FetchesDue([f EXCEPT ![a] = "single"]) = FetchesDue(f)
    BY DEF FetchesDue
<1> QED
    BY <1>1

LEMMA CallStep == ASSUME RefreshInd, NEW a \in Accounts, Call(a) PROVE RefreshInd'
<1>1. RestOK /\ TypeOK
    BY Typed DEF RefreshInd, BatchInv
<1>2. /\ calls' = [calls EXCEPT ![a] = calls[a] - 1] /\ calls[a] > 0
      /\ UNCHANGED <<headless, unlocked, vault, total, done, webDone, web, recent, val>>
    BY DEF Call, userVars, counters
<1>3. /\ calls' \in [Accounts -> Nat]
      /\ Cardinality(CallsDue(calls')) = Cardinality(CallsDue(calls)) - 1
    BY <1>1, <1>2, TakeCall DEF RestOK
<1>4. CASE MayFetch(a)
  <2>1. fetch' = [fetch EXCEPT ![a] = "batch"] /\ dropped' = dropped /\ fetch[a] = "no"
      BY <1>4 DEF Call, MayFetch
  <2>2. Cardinality(FetchesDue(fetch')) = Cardinality(FetchesDue(fetch)) + 1
      BY <1>1, <2>1, FetchBegun DEF RestOK
  <2>3. RestOK'
      BY <1>1, <1>2, <1>3, <2>1 DEF RestOK
  <2>4. Outstanding' = Outstanding /\ Outstanding \in Nat
      BY <1>1, <1>2, <1>3, <2>2, OutstandingNat DEF Outstanding
  <2>5. HeadlessState'
      BY <1>1, <1>2, <2>1 DEF RefreshInd, HeadlessRun, HeadlessState, RestOK
  <2> QED
      BY <1>2, <2>1, <2>3, <2>4, <2>5, NothingCounted
<1>5. CASE ~MayFetch(a)
  <2>1. fetch' = fetch /\ dropped' = (dropped \/ total > 0)
      BY <1>5 DEF Call
  <2>2. RestOK'
      BY <1>1, <1>2, <1>3, <2>1 DEF RestOK
  <2>3. Outstanding' = Outstanding - 1 /\ Outstanding \in Nat
      BY <1>1, <1>2, <1>3, <2>1, OutstandingNat DEF Outstanding
  <2>4. HeadlessState'
      BY <1>2, <2>1 DEF RefreshInd, HeadlessRun, HeadlessState
  <2>5. ~(total > 0 /\ ~dropped')
      BY <2>1
  <2>6. Outstanding' <= Outstanding
      BY <2>3
  <2> QED
      BY <1>2, <2>2, <2>4, <2>5, <2>6, NothingCounted
<1> QED
    BY <1>4, <1>5

LEMMA FetchEndsStep == ASSUME RefreshInd, NEW a \in Accounts, FetchEnds(a) PROVE RefreshInd'
<1>1. RestOK /\ TypeOK
    BY Typed DEF RefreshInd, BatchInv
<1>2. /\ fetch' = [fetch EXCEPT ![a] = "no"] /\ fetch[a] # "no"
      /\ UNCHANGED <<headless, unlocked, vault, webDone, web, calls, val>>
      /\ fetch' \in [Accounts -> {"no", "batch", "single"}]
    BY <1>1 DEF FetchEnds, userVars, RestOK
<1>3. Cardinality(FetchesDue(fetch'))
         = IF fetch[a] = "batch" THEN Cardinality(FetchesDue(fetch)) - 1
           ELSE Cardinality(FetchesDue(fetch))
    BY <1>1, <1>2, FetchEnded DEF RestOK
<1>4. HeadlessState' /\ Outstanding \in Nat
    BY <1>1, <1>2, OutstandingNat DEF RefreshInd, HeadlessRun, HeadlessState, RestOK
<1>5. recent' \subseteq Accounts /\ dropped' \in BOOLEAN
    BY <1>1 DEF FetchEnds, RestOK
<1>6. RestOK'
    BY <1>1, <1>2, <1>5 DEF RestOK
<1>7. Outstanding' = IF fetch[a] = "batch" THEN Outstanding - 1 ELSE Outstanding
    BY <1>1, <1>2, <1>3, OutstandingNat DEF Outstanding
<1>8. CASE a \in Present /\ fetch[a] = "batch"
  <2>1. Bump /\ dropped' = dropped
      BY <1>8 DEF FetchEnds
  <2> QED
      BY <1>2, <1>4, <1>6, <1>7, <1>8, <2>1, OneCounted
<1>9. CASE ~(a \in Present /\ fetch[a] = "batch")
  <2>1. UNCHANGED <<total, done>>
      BY <1>9 DEF FetchEnds, counters
  <2>2. total > 0 /\ ~dropped' => ~dropped /\ fetch[a] # "batch"
      BY <1>9 DEF FetchEnds
  <2> QED
      BY <1>2, <1>4, <1>6, <1>7, <2>1, <2>2, NothingCounted
<1> QED
    BY <1>8, <1>9

-------------------------------------------------------------------------------
(* What the user does while a refresh runs. *)

\* Steps outside the headless run that may put more on its way and count nothing.
LEMMA UserStep ==
    ASSUME RefreshInd, ~headless, RestOK', UNCHANGED <<headless, total, done, web, dropped>>,
           Cardinality(CallsDue(calls')) >= Cardinality(CallsDue(calls)),
           Cardinality(FetchesDue(fetch')) = Cardinality(FetchesDue(fetch)),
           SweepDue(val') >= SweepDue(val)
    PROVE  RefreshInd'
<1>1. RestOK
    BY Typed DEF RefreshInd, BatchInv
<1>2. Outstanding' >= Outstanding
  <2>1. WebDue(web') = WebDue(web)
      OBVIOUS
  <2> QED
      BY <1>1, <2>1, OutstandingNat, OutstandingNatNext DEF Outstanding
<1>3. HeadlessState'
    BY DEF HeadlessState
<1> QED
    BY <1>2, <1>3, NothingCounted

LEMMA HandStep ==
    ASSUME RefreshInd, NEW a, RefreshOne(a) \/ ValidateOne(a) \/ RefreshGcAll
    PROVE  RefreshInd'
<1> USE DEF userVars, counters
<1>1. RestOK
    BY Typed DEF RefreshInd, BatchInv
<1>2. /\ ~headless
      /\ UNCHANGED <<headless, unlocked, vault, total, done, webDone, web, calls, recent, dropped>>
    BY DEF RefreshOne, ValidateOne, RefreshGcAll
<1>3. SweepOK(val') /\ SweepDue(val') >= SweepDue(val)
    BY <1>1, StartValidateOK, QueueValidateOK DEF RefreshOne, ValidateOne, RefreshGcAll, RestOK
<1>4. /\ fetch' \in [Accounts -> {"no", "batch", "single"}]
      /\ Cardinality(FetchesDue(fetch')) = Cardinality(FetchesDue(fetch))
  <2>1. CASE fetch' = fetch
      BY <1>1, <2>1 DEF RestOK
  <2>2. CASE a \in Accounts /\ fetch' = [fetch EXCEPT ![a] = "single"] /\ fetch[a] = "no"
      BY <1>1, <2>2, FetchBesides DEF RestOK
  <2>3. Present \subseteq Accounts
      BY <1>1 DEF Present, RestOK
  <2> QED
      BY <2>1, <2>2, <2>3 DEF RefreshOne, ValidateOne, RefreshGcAll, MayFetch
<1>5. RestOK'
    BY <1>1, <1>2, <1>3, <1>4 DEF RestOK
<1>6. Cardinality(CallsDue(calls')) >= Cardinality(CallsDue(calls))
    BY <1>1, <1>2, OutstandingNat
<1> QED
    BY <1>2, <1>3, <1>4, <1>5, <1>6, UserStep

LEMMA ImportStep == ASSUME RefreshInd, NEW ids \in SUBSET Accounts, Import(ids) PROVE RefreshInd'
<1> USE DEF userVars, counters
<1>1. RestOK
    BY Typed DEF RefreshInd, BatchInv
<1>2. /\ ~headless /\ calls' = CallsFor(ids)
      /\ UNCHANGED <<headless, unlocked, vault, total, done, webDone, web, fetch, recent, dropped>>
    BY DEF Import
<1>3. SweepOK(val') /\ SweepDue(val') >= SweepDue(val)
  <2>1. CASE val' = val
      BY <1>1, <2>1, SweepDueNat DEF RestOK
  <2>2. CASE StartValidate
      BY <1>1, <2>2, StartValidateOK DEF RestOK
  <2> QED
      BY <2>1, <2>2 DEF Import
<1>4. /\ calls' \in [Accounts -> Nat]
      /\ Cardinality(CallsDue(calls')) = Cardinality(CallsDue(calls)) + Cardinality(ids)
    BY <1>1, <1>2, AddCalls DEF RestOK, CallsFor
<1>5. RestOK'
    BY <1>1, <1>2, <1>3, <1>4 DEF RestOK
<1>6. Cardinality(CallsDue(calls')) >= Cardinality(CallsDue(calls))
    BY <1>1, <1>4, OutstandingNat, AccountsFinite
<1>7. Cardinality(FetchesDue(fetch')) = Cardinality(FetchesDue(fetch))
    BY <1>2
<1> QED
    BY <1>2, <1>3, <1>5, <1>6, <1>7, UserStep

\* Removing an account, locking the vault and the passing of time leave everything
\* that is on its way alone.
LEMMA AroundStep ==
    ASSUME RefreshInd, NEW a, RemoveAccount(a) \/ LockOrUnlock \/ NoLongerRecent(a)
    PROVE  RefreshInd'
<1> USE DEF userVars, counters
<1>1. RestOK
    BY Typed DEF RefreshInd, BatchInv
<1>2. UNCHANGED <<headless, total, done, webDone, web, calls, fetch, val, dropped>>
    BY DEF RemoveAccount, LockOrUnlock, NoLongerRecent
<1>3. RestOK'
    BY <1>1, <1>2 DEF RestOK, RemoveAccount, LockOrUnlock, NoLongerRecent
<1>4. HeadlessState'
    BY <1>2 DEF RefreshInd, HeadlessRun, HeadlessState, RemoveAccount, LockOrUnlock, NoLongerRecent
<1>5. Outstanding' = Outstanding /\ Outstanding \in Nat
    BY <1>1, <1>2, OutstandingNat DEF Outstanding
<1> QED
    BY <1>2, <1>3, <1>4, <1>5, NothingCounted

-------------------------------------------------------------------------------
(* A refresh starts: the denominator is what is put on its way. *)

LEMMA StartStep == ASSUME RefreshInd, RefreshAccountData PROVE RefreshInd'
<1>1. RestOK /\ CountersOK /\ total = 0 /\ done = 0
    BY Typed DEF RefreshInd, BatchInv, CountersSane, CountersOK, RefreshAccountData
<1>2. UNCHANGED <<headless, unlocked, vault, fetch, recent>> /\ Len(web) < MaxWeb
    BY DEF RefreshAccountData, userVars
<1>3. PICK full \in SUBSET (Present \cap Full), nfa \in SUBSET (Present \cap Nfa), webIds \in BOOLEAN :
          /\ headless => nfa = {}
          /\ IF full = {} /\ nfa = {} /\ ~webIds THEN NothingDue ELSE StartRefresh(full, nfa, webIds)
    BY DEF RefreshAccountData
<1>4. CASE full = {} /\ nfa = {} /\ ~webIds
  <2>1. webDone' = TRUE /\ UNCHANGED <<total, done, val, web, calls, dropped>>
      BY <1>1, <1>3, <1>4 DEF NothingDue
  <2>2. RestOK'
      BY <1>1, <1>2, <2>1 DEF RestOK
  <2>3. HeadlessState'
      BY <1>2, <2>1 DEF RefreshInd, HeadlessRun, HeadlessState
  <2>4. Outstanding' = Outstanding /\ Outstanding \in Nat
      BY <1>1, <1>2, <2>1, OutstandingNat DEF Outstanding
  <2> QED
      BY <1>2, <2>1, <2>2, <2>3, <2>4, NothingCounted
<1>5. CASE ~(full = {} /\ nfa = {} /\ ~webIds)
  <2> DEFINE F == Cardinality(full)
  <2> DEFINE N == Cardinality(nfa)
  <2>1. /\ full \in SUBSET Full /\ nfa \in SUBSET Nfa /\ full \in SUBSET Accounts /\ nfa \in SUBSET Accounts
        /\ full \cap nfa = {} /\ full \cup nfa \in SUBSET Accounts
      BY Kinds DEF Accounts
  <2>2. F \in Nat /\ N \in Nat /\ F + N \in 0..Cardinality(Accounts)
    <3>1. F \in Nat /\ N \in Nat /\ IsFiniteSet(full) /\ IsFiniteSet(nfa)
        BY <2>1, AccountsFinite
    <3>2. Cardinality(full \cup nfa) = F + N - Cardinality({})
        BY <2>1, <3>1, FS_Union
    <3>3. Cardinality({}) = 0
        BY FS_EmptySet
    <3>4. Cardinality(full \cup nfa) <= Cardinality(Accounts) /\ Cardinality(Accounts) \in Nat
        BY <2>1, AccountsFinite, FS_Subset
    <3> QED
        BY <3>1, <3>2, <3>3, <3>4
  <2>3. /\ total' = F + N /\ done' = 0 /\ dropped' = FALSE
        /\ val' = IF nfa = {} THEN val ELSE Sweep(SetToSeq(nfa), TRUE)
        /\ IF webIds
           THEN webDone' = FALSE /\ web' = Append(web, full) /\ UNCHANGED calls
           ELSE webDone' = TRUE /\ calls' = CallsFor(full) /\ UNCHANGED web
      BY <1>3, <1>5 DEF StartRefresh, Arm
  <2>4. /\ SweepOK(val') /\ SweepDue(val') \in Nat /\ SweepDue(val') >= N
        /\ nfa = {} => val' = val /\ N = 0
    <3>1. CASE nfa = {}
        BY <1>1, <2>3, <3>1, SweepDueNat, FS_EmptySet DEF RestOK
    <3>2. CASE nfa # {}
      <4>1. SweepOK(Sweep(SetToSeq(nfa), TRUE)) /\ SweepDue(Sweep(SetToSeq(nfa), TRUE)) = N
          BY <2>1, <3>2, NewSweep
      <4>2. val' = Sweep(SetToSeq(nfa), TRUE)
          BY <2>3, <3>2
      <4>3. SweepOK(val') /\ SweepDue(val') = N
          BY <4>1, <4>2
      <4>4. N \in Nat
          BY <2>2
      <4>5. SweepDue(val') \in Nat /\ SweepDue(val') >= N
          BY <4>3, <4>4
      <4> QED
          BY <3>2, <4>3, <4>5
    <3> QED
        BY <3>1, <3>2
  <2>5. /\ web' \in Seq(SUBSET Full) /\ Len(web') <= MaxWeb /\ calls' \in [Accounts -> Nat]
        /\ webDone' \in BOOLEAN
        /\ Cardinality(CallsDue(calls')) + Cardinality(WebDue(web'))
              = Cardinality(CallsDue(calls)) + Cardinality(WebDue(web)) + F
    <3>1. web \in Seq(SUBSET Full) /\ Len(web) \in Nat /\ calls \in [Accounts -> Nat]
        BY <1>1 DEF RestOK
    <3>2. MaxWeb \in Nat /\ Cardinality(CallsDue(calls)) \in Nat /\ Cardinality(WebDue(web)) \in Nat
        BY <1>1, Bounds, OutstandingNat
    <3>3. CASE webIds
      <4>1. /\ web' \in Seq(SUBSET Full) /\ Len(web') = Len(web) + 1
            /\ Cardinality(WebDue(web')) = Cardinality(WebDue(web)) + F
          BY <2>1, <2>3, <3>1, <3>3, AddWeb
      <4>2. calls' = calls /\ webDone' = FALSE
          BY <2>3, <3>3
      <4>3. Cardinality(CallsDue(calls')) = Cardinality(CallsDue(calls))
          BY <4>2
      <4>4. Len(web') <= MaxWeb
          BY <1>2, <3>1, <3>2, <4>1
      <4>5. F \in Nat
          BY <2>2
      <4> HIDE DEF F
      <4>6. Cardinality(CallsDue(calls')) + Cardinality(WebDue(web'))
               = Cardinality(CallsDue(calls)) + Cardinality(WebDue(web)) + F
          BY <3>2, <4>1, <4>3, <4>5
      <4> QED
          BY <3>1, <4>1, <4>2, <4>4, <4>6
    <3>4. CASE ~webIds
      <4>1. /\ calls' \in [Accounts -> Nat]
            /\ Cardinality(CallsDue(calls')) = Cardinality(CallsDue(calls)) + F
          BY <2>1, <2>3, <3>1, <3>4, AddCalls DEF CallsFor
      <4> QED
          BY <1>2, <2>2, <2>3, <3>1, <3>2, <3>4, <4>1
    <3> QED
        BY <3>3, <3>4
  <2> HIDE DEF F, N
  <2>6. RestOK'
      BY <1>1, <1>2, <2>3, <2>4, <2>5 DEF RestOK
  <2>7. CountersOK'
      BY <2>2, <2>3 DEF CountersOK
  <2>8. Outstanding' = Outstanding - SweepDue(val) + F + SweepDue(val')
    <3>1. Cardinality(FetchesDue(fetch')) = Cardinality(FetchesDue(fetch))
        BY <1>2
    <3>2. /\ Cardinality(CallsDue(calls)) \in Nat /\ Cardinality(FetchesDue(fetch)) \in Nat
          /\ Cardinality(WebDue(web)) \in Nat /\ SweepDue(val) \in Nat
        BY <1>1, OutstandingNat
    <3>3. /\ Cardinality(CallsDue(calls')) \in Nat /\ Cardinality(FetchesDue(fetch')) \in Nat
          /\ Cardinality(WebDue(web')) \in Nat /\ SweepDue(val') \in Nat
        BY <2>6, OutstandingNatNext
    <3>4. Outstanding' = Cardinality(CallsDue(calls')) + Cardinality(FetchesDue(fetch'))
                            + Cardinality(WebDue(web')) + SweepDue(val')
        BY DEF Outstanding
    <3>5. Outstanding = Cardinality(CallsDue(calls)) + Cardinality(FetchesDue(fetch))
                            + Cardinality(WebDue(web)) + SweepDue(val)
        BY DEF Outstanding
    <3>6. /\ F \in Nat
          /\ Cardinality(CallsDue(calls')) + Cardinality(WebDue(web'))
                = Cardinality(CallsDue(calls)) + Cardinality(WebDue(web)) + F
        BY <2>2, <2>5
    <3>7. Outstanding' = Cardinality(CallsDue(calls)) + Cardinality(FetchesDue(fetch))
                            + Cardinality(WebDue(web)) + F + SweepDue(val')
        BY <3>1, <3>2, <3>3, <3>4, <3>6
    <3> QED
        BY <3>2, <3>3, <3>5, <3>6, <3>7
  <2>9. Outstanding \in Nat /\ Outstanding' \in Nat /\ SweepDue(val) \in Nat /\ SweepDue(val) <= Outstanding
      BY <1>1, <2>6, OutstandingNat, OutstandingNatNext DEF Outstanding
  <2>10. CountersSane'
      BY <2>2, <2>3 DEF CountersSane
  <2>11. NoneMissing'
    <3>1. total' - done' = F + N
        BY <2>2, <2>3
    <3>2. SweepDue(val') \in Nat /\ SweepDue(val') >= N
        BY <2>4
    <3>3. F + N <= Outstanding'
        BY <2>2, <2>8, <2>9, <3>2
    <3> QED
        BY <3>1, <3>3 DEF NoneMissing
  <2>12. HeadlessRun'
    <3> SUFFICES ASSUME headless PROVE HeadlessRun'
        BY <1>2 DEF HeadlessRun
    <3>1. nfa = {} /\ val = Idle /\ Outstanding <= 0
        BY <1>1, <1>3 DEF RefreshInd, HeadlessRun
    <3>2. val' = Idle /\ N = 0 /\ SweepDue(val) = 0 /\ SweepDue(val') = 0
        BY <2>4, <3>1, IdleSweep
    <3>3. Outstanding' <= total' - done'
        BY <2>2, <2>3, <2>8, <2>9, <3>1, <3>2
    <3> QED
        BY <1>2, <3>2, <3>3 DEF RefreshInd, HeadlessRun
  <2> QED
      BY <2>6, <2>7, <2>10, <2>11, <2>12, TypedNext DEF RefreshInd, BatchInv
<1> QED
    BY <1>4, <1>5

-------------------------------------------------------------------------------
LEMMA RefreshStep == ASSUME RefreshInd, [Next]_vars PROVE RefreshInd'
<1>1. CASE Ends
    BY <1>1, ValidateStep, WebResultStep, CallStep, FetchEndsStep, AroundStep DEF Ends
<1>2. CASE Starts
  <2>1. ASSUME RefreshGcAll \/ LockOrUnlock PROVE RefreshInd'
    <3>1. CASE RefreshGcAll
        BY <3>1, HandStep
    <3>2. CASE LockOrUnlock
        BY <3>2, AroundStep
    <3> QED
        BY <2>1, <3>1, <3>2
  <2> QED
      BY <1>2, <2>1, StartStep, HandStep, AroundStep, ImportStep DEF Starts
<1>3. CASE Left \/ UNCHANGED vars
  <2>1. UNCHANGED vars
      BY <1>3 DEF Left
  <2> QED
      BY <2>1 DEF vars, RefreshInd, BatchInv, TypeOK, CountersSane, NoneMissing, HeadlessRun, Outstanding
<1> QED
    BY <1>1, <1>2, <1>3 DEF Next

\* RefreshInd holds throughout.
THEOREM RefreshAlways == Spec => []RefreshInd
    BY InitRefresh, RefreshStep, PTL DEF Spec

\* The toolbar's N/Total is never complete or beyond, and every account it counts
\* is on its way unless one was dropped (the increments and resets of
\* refresh_all_done spread over app_state_refresh.cpp and cs2_autopull.cpp).
THEOREM CountersSafe == Spec => []BatchInv
<1>1. RefreshInd => BatchInv
    BY DEF RefreshInd
<1> QED
    BY <1>1, RefreshAlways, PTL

\* startup_refresh_complete(): the headless run leaves only when every account of
\* its refresh has been fetched.
THEOREM StartupSafe == Spec => []StartupIsComplete
<1>1. RefreshInd => StartupIsComplete
  <2> SUFFICES ASSUME RefreshInd, headless, Complete
               PROVE  /\ \A a \in Accounts : calls[a] = 0 /\ fetch[a] = "no"
                      /\ \A i \in DOMAIN web : web[i] = {}
      BY DEF StartupIsComplete
  <2>1. RestOK /\ CountersOK
      BY Typed DEF RefreshInd, BatchInv
  <2>2. Outstanding <= 0
      BY <2>1 DEF RefreshInd, BatchInv, HeadlessRun, CountersSane, Complete, CountersOK
  <2>3. /\ Cardinality(CallsDue(calls)) = 0 /\ Cardinality(FetchesDue(fetch)) = 0
        /\ Cardinality(WebDue(web)) = 0
    <3>1. /\ Cardinality(CallsDue(calls)) \in Nat /\ Cardinality(FetchesDue(fetch)) \in Nat
          /\ Cardinality(WebDue(web)) \in Nat /\ SweepDue(val) \in Nat
        BY <2>1, OutstandingNat
    <3>2. Cardinality(CallsDue(calls)) + Cardinality(FetchesDue(fetch))
             + Cardinality(WebDue(web)) + SweepDue(val) <= 0
        BY <2>2 DEF Outstanding
    <3> QED
        BY <3>1, <3>2
  <2>4. CallsDue(calls) = {} /\ FetchesDue(fetch) = {} /\ WebDue(web) = {}
      BY <2>1, <2>3, CallsFinite, FetchesFinite, WebFinite, FS_EmptySet DEF RestOK
  <2>5. ASSUME NEW a \in Accounts PROVE calls[a] = 0
    <3>1. CASE calls[a] # 0
      <4>1. <<a, 1>> \in CallsDue(calls)
          BY <2>1, <3>1 DEF CallsDue, RestOK
      <4> QED
          BY <2>4, <4>1
    <3> QED
        BY <3>1
  <2>6. \A a \in Accounts : fetch[a] = "no"
      BY <2>1, <2>4 DEF RestOK, FetchesDue, RefreshInd, HeadlessRun
  <2>7. \A i \in DOMAIN web : web[i] = {}
    <3> SUFFICES ASSUME NEW i \in DOMAIN web, NEW a \in web[i] PROVE FALSE
        BY <2>1 DEF RestOK
    <3>1. <<i, a>> \in WebDue(web)
        BY DEF WebDue
    <3> QED
        BY <2>4, <3>1
  <2> QED
      BY <2>5, <2>6, <2>7
<1> QED
    BY <1>1, RefreshAlways, PTL
=================================================================================
