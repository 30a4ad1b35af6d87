------------------------------ MODULE ListProofs ------------------------------
(***************************************************************************)
(* What the operations of ThreadList return, for every list.                *)
(***************************************************************************)
EXTENDS ThreadList, SequenceTheorems, FiniteSetTheorems, TLAPS

\* A non-empty set of natural numbers has a minimum: of the intervals 0..i
\* with i in the set, one has no smaller one.
LEMMA MinInSet ==
    ASSUME NEW I, I \subseteq Nat, I # {}
    PROVE  Min(I) \in I /\ \A j \in I : Min(I) <= j
<1> DEFINE F == {0..i : i \in I}
           R == StrictSubsetOrdering(Nat)
<1>1. F \subseteq FiniteSubsetsOf(Nat) /\ F # {}
  <2>1. ASSUME NEW i \in I PROVE 0..i \in SUBSET Nat /\ IsFiniteSet(0..i)
    <3>1. i \in Int /\ 0 \in Int
      OBVIOUS
    <3>2. IsFiniteSet(0..i)
      BY <3>1, FS_Interval
    <3> QED
      BY <3>2
  <2>2. \A x \in F : x \in SUBSET Nat /\ IsFiniteSet(x)
    BY <2>1
  <2> QED
    BY <2>2 DEF FiniteSubsetsOf
<1>2. PICK k \in I : \A j \in I : <<0..j, 0..k>> \notin R
  <2> HIDE DEF R, F
  <2>1. PICK x \in F : \A y \in F : ~ (<<y, x>> \in R)
    BY <1>1, FS_StrictSubsetOrderingWellFounded, WFMin DEF R
  <2> QED
    BY <2>1 DEF F
<1>3. ASSUME NEW j \in I, j < k PROVE FALSE
  <2>1. 0..j \subseteq 0..k /\ k \in 0..k /\ k \notin 0..j
    BY <1>3
  <2>2. 0..j \in SUBSET Nat /\ 0..k \in SUBSET Nat /\ 0..j # 0..k
    BY <2>1
  <2> QED
    BY <1>2, <2>1, <2>2 DEF StrictSubsetOrdering
<1>4. \A j \in I : k <= j
  BY <1>3
<1> QED
  BY <1>4 DEF Min

\* The parts of a list before and from index k, with or without the element there.
LEMMA RemoveAtProperties ==
    ASSUME NEW S, NEW s \in Seq(S), NEW k \in 1..Len(s)
    PROVE  /\ RemoveAt(s, k) \in Seq(S) /\ Len(RemoveAt(s, k)) = Len(s) - 1
           /\ \A i \in 1..Len(s)-1 : RemoveAt(s, k)[i] = IF i < k THEN s[i] ELSE s[i+1]
<1> DEFINE u == SubSeq(s, 1, k-1)
           v == SubSeq(s, k+1, Len(s))
<1>1. Len(s) \in Nat
  BY LenProperties
<1>2. /\ u \in Seq(S) /\ Len(u) = k-1
      /\ \A i \in 1..k-1 : u[i] = s[i]
  BY <1>1, SubSeqProperties, ElementOfSeq
<1>3. /\ v \in Seq(S) /\ Len(v) = Len(s)-k
      /\ \A i \in 1..Len(s)-k : v[i] = s[k+i]
  BY <1>1, SubSeqProperties, ElementOfSeq
<1> HIDE DEF u, v
<1> DEFINE r == u \o v
<1>4. /\ r \in Seq(S) /\ Len(r) = Len(u) + Len(v)
      /\ \A i \in 1..Len(u) + Len(v) : r[i] = IF i <= Len(u) THEN u[i] ELSE v[i-Len(u)]
  BY <1>2, <1>3, ConcatProperties
<1>5. RemoveAt(s, k) = r
  BY DEF RemoveAt, u, v
<1> HIDE DEF r
<1>6. Len(r) = Len(s) - 1
  BY <1>1, <1>2, <1>3, <1>4
<1>7. ASSUME NEW i \in 1..Len(s)-1 PROVE r[i] = IF i < k THEN s[i] ELSE s[i+1]
  <2>1. i \in 1..Len(u) + Len(v)
    BY <1>1, <1>2, <1>3
  <2>2. r[i] = IF i <= Len(u) THEN u[i] ELSE v[i-Len(u)]
    BY <1>4, <2>1
  <2>3. CASE i < k
    BY <1>1, <1>2, <2>2, <2>3
  <2>4. CASE i >= k
    <3>1. i-(k-1) \in 1..Len(s)-k /\ k+(i-(k-1)) = i+1
      BY <1>1, <2>4
    <3>2. v[i-(k-1)] = s[i+1]
      BY <1>3, <3>1
    <3> QED
      BY <1>1, <1>2, <2>2, <2>4, <3>2
  <2> QED
    BY <1>1, <2>3, <2>4
<1> QED
  BY <1>4, <1>5, <1>6, <1>7

LEMMA InsertAtProperties ==
    ASSUME NEW S, NEW s \in Seq(S), NEW k \in 1..Len(s)+1, NEW e \in S
    PROVE  /\ InsertAt(s, k, e) \in Seq(S) /\ Len(InsertAt(s, k, e)) = Len(s) + 1
           /\ \A i \in 1..Len(s)+1 : InsertAt(s, k, e)[i] =
                 IF i < k THEN s[i] ELSE IF i = k THEN e ELSE s[i-1]
<1> DEFINE u == SubSeq(s, 1, k-1)
           v == SubSeq(s, k, Len(s))
           w == u \o <<e>>
<1>1. Len(s) \in Nat
  BY LenProperties
<1>2. /\ u \in Seq(S) /\ Len(u) = k-1
      /\ \A i \in 1..k-1 : u[i] = s[i]
  BY <1>1, SubSeqProperties, ElementOfSeq
<1>3. /\ v \in Seq(S) /\ Len(v) = Len(s)-k+1
      /\ \A i \in 1..Len(s)-k+1 : v[i] = s[k+i-1]
  BY <1>1, SubSeqProperties, ElementOfSeq
<1> HIDE DEF u, v
<1>4. /\ w \in Seq(S) /\ Len(w) = k
      /\ \A i \in 1..k : w[i] = IF i < k THEN s[i] ELSE e
  <2>1. <<e>> \in Seq(S) /\ Len(<<e>>) = 1 /\ <<e>>[1] = e
    OBVIOUS
  <2>2. /\ w \in Seq(S) /\ Len(w) = (k-1) + 1
        /\ \A i \in 1..(k-1)+1 : w[i] = IF i <= k-1 THEN u[i] ELSE <<e>>[i-(k-1)]
    BY <1>2, <2>1, ConcatProperties
  <2> QED
    BY <1>1, <1>2, <2>1, <2>2
<1> HIDE DEF w
<1>5. /\ w \o v \in Seq(S) /\ Len(w \o v) = k + (Len(s)-k+1)
      /\ \A i \in 1..k + (Len(s)-k+1) : (w \o v)[i] = IF i <= k THEN w[i] ELSE v[i-k]
  BY SMTT(30), <1>3, <1>4, ConcatProperties
<1>6. InsertAt(s, k, e) = w \o v
  BY DEF InsertAt, u, v, w
<1> QED
  BY <1>1, <1>3, <1>4, <1>5, <1>6

-----------------------------------------------------------------------------

\* rt_list_remove of a thread that is linked at most once: it leaves the list,
\* the others stay.
LEMMA WithoutProperties ==
    ASSUME NEW S, NEW s \in Seq(S), NEW e, IsInjective(s)
    PROVE  /\ Without(s, e) \in Seq(S)
           /\ ToSet(Without(s, e)) = ToSet(s) \ {e}
           /\ IsInjective(Without(s, e))
<1>0. Len(s) \in Nat /\ DOMAIN s = 1..Len(s)
  BY LenProperties
<1>1. CASE e \notin ToSet(s)
  BY <1>1 DEF Without
<1>2. CASE e \in ToSet(s)
  <2> DEFINE k == CHOOSE i \in DOMAIN s : s[i] = e
             r == RemoveAt(s, k)
  <2>1. k \in 1..Len(s) /\ s[k] = e
    BY <1>0, <1>2 DEF ToSet
  <2>2. Without(s, e) = r
    BY <1>2 DEF Without
  <2> HIDE DEF k
  <2>3. /\ r \in Seq(S) /\ Len(r) = Len(s) - 1
        /\ \A i \in 1..Len(s)-1 : r[i] = IF i < k THEN s[i] ELSE s[i+1]
    BY <2>1, RemoveAtProperties
  <2> HIDE DEF r
  <2>4. DOMAIN r = 1..Len(s)-1
    BY <2>3, LenProperties
  <2>5. \A i, j \in 1..Len(s) : s[i] = s[j] => i = j
    BY <1>0 DEF IsInjective
  <2>6. \A i, j \in 1..Len(s)-1 : r[i] = r[j] => i = j
    BY <1>0, <2>1, <2>3, <2>5
  <2>7. IsInjective(r)
    BY <2>4, <2>6 DEF IsInjective
  <2>8. ASSUME NEW x \in ToSet(r) PROVE x \in ToSet(s) \ {e}
    <3>1. PICK i \in 1..Len(s)-1 : x = r[i]
      BY <2>4 DEF ToSet
    <3>2. PICK j \in 1..Len(s) : j # k /\ x = s[j]
      BY <1>0, <2>1, <2>3, <3>1
    <3> QED
      BY <1>0, <2>1, <2>5, <3>2 DEF ToSet
  <2>9. ASSUME NEW x \in ToSet(s) \ {e} PROVE x \in ToSet(r)
    <3>1. PICK j \in 1..Len(s) : j # k /\ x = s[j]
      BY <1>0, <2>1 DEF ToSet
    <3>2. CASE j < k
      BY <1>0, <2>1, <2>3, <2>4, <3>1, <3>2 DEF ToSet
    <3>3. CASE j > k
      <4>1. j-1 \in 1..Len(s)-1 /\ r[j-1] = s[j]
        BY <1>0, <2>1, <2>3, <3>3
      <4> QED
        BY <2>4, <3>1, <4>1 DEF ToSet
    <3> QED
      BY <2>1, <3>1, <3>2, <3>3
  <2> QED
    BY <2>2, <2>3, <2>7, <2>8, <2>9
<1> QED
  BY <1>1, <1>2

\* Inserting a thread that is not in the list, at whatever place.
LEMMA InsertAtAdds ==
    ASSUME NEW S, NEW s \in Seq(S), NEW k \in 1..Len(s)+1, NEW e \in S,
           IsInjective(s), e \notin ToSet(s)
    PROVE  /\ InsertAt(s, k, e) \in Seq(S)
           /\ ToSet(InsertAt(s, k, e)) = ToSet(s) \cup {e}
           /\ IsInjective(InsertAt(s, k, e))
<1> DEFINE r == InsertAt(s, k, e)
<1>1. Len(s) \in Nat /\ DOMAIN s = 1..Len(s)
  BY LenProperties
<1> HIDE DEF r
<1>2. /\ r \in Seq(S) /\ Len(r) = Len(s) + 1
      /\ \A i \in 1..Len(s)+1 : r[i] =
            IF i < k THEN s[i] ELSE IF i = k THEN e ELSE s[i-1]
  <2>1. r = InsertAt(s, k, e)
    BY DEF r
  <2>2. /\ InsertAt(s, k, e) \in Seq(S) /\ Len(InsertAt(s, k, e)) = Len(s) + 1
        /\ \A i \in 1..Len(s)+1 : InsertAt(s, k, e)[i] =
              IF i < k THEN s[i] ELSE IF i = k THEN e ELSE s[i-1]
    BY ONLY SMTT(30), s \in Seq(S), k \in 1..Len(s)+1, e \in S, InsertAtProperties
  <2> QED
    BY <2>1, <2>2, Zenon
<1>3. DOMAIN r = 1..Len(s)+1
  BY <1>2, LenProperties
<1>4. /\ \A i, j \in 1..Len(s) : s[i] = s[j] => i = j
      /\ \A i \in 1..Len(s) : s[i] # e
  BY <1>1 DEF IsInjective, ToSet
<1>5. \A i, j \in 1..Len(s)+1 : r[i] = r[j] => i = j
  BY SMTT(30), <1>1, <1>2, <1>4
<1>6. IsInjective(r)
  BY <1>3, <1>5 DEF IsInjective
<1>7. ASSUME NEW x \in ToSet(r) PROVE x \in ToSet(s) \cup {e}
  <2>1. PICK i \in 1..Len(s)+1 : x = r[i]
    BY <1>3 DEF ToSet
  <2>2. x = e \/ \E j \in 1..Len(s) : x = s[j]
    BY <1>1, <1>2, <2>1
  <2> QED
    BY <1>1, <2>2 DEF ToSet
<1>8. ASSUME NEW x \in ToSet(s) \cup {e} PROVE x \in ToSet(r)
  <2>1. CASE x = e
    <3>1. k \in DOMAIN r /\ r[k] = e
      BY <1>1, <1>2, <1>3
    <3> QED
      BY <2>1, <3>1 DEF ToSet
  <2>2. CASE x # e
    <3>1. PICK j \in 1..Len(s) : x = s[j]
      BY <1>1, <2>2 DEF ToSet
    <3>2. j < k => j \in DOMAIN r /\ r[j] = x
      BY <1>1, <1>2, <1>3, <3>1
    <3>3. j >= k => j+1 \in DOMAIN r /\ r[j+1] = x
      BY <1>1, <1>2, <1>3, <3>1
    <3> QED
      BY <3>2, <3>3 DEF ToSet
  <2> QED
    BY <2>1, <2>2
<1> QED
  BY <1>2, <1>6, <1>7, <1>8 DEF r

\* _ipc_list_suspend adds the thread, and only it, under either flag.
LEMMA PlaceProperties ==
    ASSUME NEW S, NEW s \in Seq(S), NEW t \in S, NEW flag, NEW prio,
           IsInjective(s), t \notin ToSet(s)
    PROVE  /\ Place(s, t, flag, prio) \in Seq(S)
           /\ ToSet(Place(s, t, flag, prio)) = ToSet(s) \cup {t}
           /\ IsInjective(Place(s, t, flag, prio))
<1> DEFINE Later == {i \in DOMAIN s : prio[t] < prio[s[i]]}
<1>1. Len(s) \in Nat /\ DOMAIN s = 1..Len(s)
  BY LenProperties
<1>2. CASE flag = "FIFO" \/ Later = {}
  <2>1. Append(s, t) = InsertAt(s, Len(s)+1, t)
    <3>1. /\ Append(s, t) \in Seq(S) /\ Len(Append(s, t)) = Len(s)+1
          /\ \A i \in 1..Len(s)+1 : Append(s, t)[i] = IF i = Len(s)+1 THEN t ELSE s[i]
      BY <1>1
    <3>2. Len(s)+1 \in 1..Len(s)+1
      BY <1>1
    <3>3. /\ InsertAt(s, Len(s)+1, t) \in Seq(S)
          /\ Len(InsertAt(s, Len(s)+1, t)) = Len(s)+1
          /\ \A i \in 1..Len(s)+1 : InsertAt(s, Len(s)+1, t)[i] =
                IF i < Len(s)+1 THEN s[i] ELSE IF i = Len(s)+1 THEN t ELSE s[i-1]
      BY ONLY SMTT(30), <3>2, s \in Seq(S), t \in S, InsertAtProperties
    <3>4. ASSUME NEW i \in 1..Len(s)+1
          PROVE  Append(s, t)[i] = InsertAt(s, Len(s)+1, t)[i]
      BY <1>1, <3>1, <3>3
    <3> QED
      BY <3>1, <3>3, <3>4, SeqEqual
  <2>2. Place(s, t, flag, prio) = InsertAt(s, Len(s)+1, t)
    BY <1>2, <2>1 DEF Place
  <2> QED
    BY <1>1, <2>2, InsertAtAdds
<1>3. CASE flag # "FIFO" /\ Later # {}
  <2>1. Later \subseteq Nat /\ Later # {} /\ Later \subseteq 1..Len(s)
    BY <1>1, <1>3
  <2>2. Place(s, t, flag, prio) = InsertAt(s, Min(Later), t)
    BY <1>3 DEF Place
  <2> HIDE DEF Later
  <2>3. Min(Later) \in Later
    BY <2>1, MinInSet
  <2>4. PICK k \in 1..Len(s)+1 : k = Min(Later)
    <3>1. Min(Later) \in 1..Len(s)
      BY ONLY <2>1, <2>3, Zenon
    <3>2. 1..Len(s) \subseteq 1..Len(s)+1
      BY ONLY <1>1
    <3> QED
      BY ONLY <3>1, <3>2, Zenon
  <2>5. Place(s, t, flag, prio) = InsertAt(s, k, t)
    BY <2>2, <2>4
  <2> QED
    BY ONLY <2>5, s \in Seq(S), t \in S, k \in 1..Len(s)+1,
            IsInjective(s), t \notin ToSet(s), InsertAtAdds
<1> QED
  BY <1>2, <1>3

\* The first thread of a list is in it.
LEMMA HeadProperties ==
    ASSUME NEW S, NEW s \in Seq(S), s # <<>>
    PROVE  Head(s) \in S /\ Head(s) \in ToSet(s)
<1>1. Len(s) \in Nat \ {0} /\ DOMAIN s = 1..Len(s) /\ s[1] \in S
  BY LenProperties, EmptySeq, ElementOfSeq
<1>2. Head(s) = s[1]
  BY <1>1
<1> QED
  BY <1>1, <1>2 DEF ToSet

LEMMA EmptyProperties ==
    ASSUME NEW S, NEW s \in Seq(S)
    PROVE  s = <<>> <=> ToSet(s) = {}
<1>1. s # <<>> => ToSet(s) # {}
  BY HeadProperties
<1>2. ToSet(<<>>) = {}
  BY DEF ToSet
<1> QED
  BY <1>1, <1>2

\* Without its first element a list still has each of the others once.
LEMMA TailProperties ==
    ASSUME NEW S, NEW s \in Seq(S), s # <<>>, IsInjective(s)
    PROVE  /\ Tail(s) \in Seq(S) /\ Len(Tail(s)) = Len(s) - 1
           /\ Head(s) \in ToSet(s) /\ ToSet(Tail(s)) = ToSet(s) \ {Head(s)}
           /\ IsInjective(Tail(s))
<1>1. Len(s) \in Nat \ {0} /\ DOMAIN s = 1..Len(s)
  BY LenProperties, EmptySeq
<1>2. /\ Tail(s) \in Seq(S) /\ Len(Tail(s)) = Len(s) - 1 /\ Head(s) = s[1]
      /\ DOMAIN Tail(s) = 1..Len(s) - 1
      /\ \A k \in 1..Len(s) - 1 : Tail(s)[k] = s[k + 1]
  BY <1>1, HeadTailProperties, LenProperties
<1>3. \A k \in 1..Len(s) - 1 : k + 1 \in 2..Len(s)
  BY <1>1
<1>4. \A k \in 2..Len(s) : k - 1 \in 1..Len(s) - 1 /\ k = (k - 1) + 1 /\ k \in 1..Len(s)
  BY <1>1
<1>5. \A k \in 2..Len(s) : s[k] # s[1]
  BY <1>1 DEF IsInjective
<1>6. ToSet(Tail(s)) \subseteq ToSet(s) \ {Head(s)}
  <2>1. \A k \in 2..Len(s) : s[k] \in ToSet(s)
    BY <1>1, <1>4 DEF ToSet
  <2> QED
    BY <1>2, <1>3, <1>5, <2>1 DEF ToSet
<1>7. ToSet(s) \ {Head(s)} \subseteq ToSet(Tail(s))
  <2>1. ASSUME NEW k \in 1..Len(s), s[k] # s[1] PROVE s[k] \in ToSet(Tail(s))
    <3>1. k \in 2..Len(s)
      BY <1>1, <2>1
    <3>2. k - 1 \in 1..Len(s) - 1 /\ Tail(s)[k - 1] = s[k]
      BY <1>2, <1>4, <3>1
    <3> QED
      BY <1>2, <3>2 DEF ToSet
  <2> QED
    BY <1>1, <1>2, <2>1 DEF ToSet
<1>8. IsInjective(Tail(s))
  <2> SUFFICES ASSUME NEW k \in 1..Len(s) - 1, NEW l \in 1..Len(s) - 1, Tail(s)[k] = Tail(s)[l]
               PROVE  k = l
    BY <1>2 DEF IsInjective
  <2>1. s[k + 1] = s[l + 1] /\ k + 1 \in 1..Len(s) /\ l + 1 \in 1..Len(s)
    BY <1>1, <1>2
  <2>2. k + 1 = l + 1
    BY <1>1, <2>1 DEF IsInjective
  <2> QED
    BY <2>2
<1>9. Head(s) \in ToSet(s)
  BY HeadProperties
<1> QED
  BY <1>2, <1>6, <1>7, <1>8, <1>9

\* Two lists one after the other.
LEMMA ConcatKeeps ==
    ASSUME NEW S, NEW s \in Seq(S), NEW t \in Seq(S),
           IsInjective(s), IsInjective(t), ToSet(s) \cap ToSet(t) = {}
    PROVE  /\ s \o t \in Seq(S) /\ Len(s \o t) = Len(s) + Len(t)
           /\ ToSet(s \o t) = ToSet(s) \cup ToSet(t)
           /\ IsInjective(s \o t)
<1> DEFINE r == s \o t
<1>1. /\ Len(s) \in Nat /\ DOMAIN s = 1..Len(s)
      /\ Len(t) \in Nat /\ DOMAIN t = 1..Len(t)
  BY LenProperties
<1>2. /\ r \in Seq(S) /\ Len(r) = Len(s) + Len(t) /\ DOMAIN r = 1..Len(s) + Len(t)
      /\ \A k \in 1..Len(s) + Len(t) : r[k] = IF k <= Len(s) THEN s[k] ELSE t[k - Len(s)]
  BY ConcatProperties, LenProperties
<1> HIDE DEF r
<1>3. \A k \in 1..Len(s) : k \in 1..Len(s) + Len(t) /\ k <= Len(s)
  BY <1>1
<1>4. \A k \in 1..Len(t) :
         k + Len(s) \in 1..Len(s) + Len(t) /\ ~(k + Len(s) <= Len(s)) /\ (k + Len(s)) - Len(s) = k
  BY <1>1
<1>5. \A k \in 1..Len(s) + Len(t) : k \in 1..Len(s) \/ (k > Len(s) /\ k - Len(s) \in 1..Len(t))
  BY <1>1
<1>6. /\ \A k \in 1..Len(s) : r[k] = s[k]
      /\ \A k \in 1..Len(t) : r[k + Len(s)] = t[k]
  BY <1>2, <1>3, <1>4
<1>7. \A k \in 1..Len(s) + Len(t) :
         \/ k \in 1..Len(s) /\ r[k] = s[k]
         \/ k > Len(s) /\ k - Len(s) \in 1..Len(t) /\ r[k] = t[k - Len(s)]
  BY <1>1, <1>2, <1>5
<1>8. ToSet(r) = ToSet(s) \cup ToSet(t)
  <2>1. \A k \in 1..Len(s) + Len(t) : r[k] \in ToSet(s) \cup ToSet(t)
    BY <1>1, <1>7 DEF ToSet
  <2>2. \A k \in 1..Len(s) : s[k] \in ToSet(r)
    BY <1>2, <1>3, <1>6 DEF ToSet
  <2>3. \A k \in 1..Len(t) : t[k] \in ToSet(r)
    BY <1>2, <1>4, <1>6 DEF ToSet
  <2>4. ToSet(r) = {r[k] : k \in 1..Len(s) + Len(t)}
    BY <1>2 DEF ToSet
  <2>5. ToSet(s) = {s[k] : k \in 1..Len(s)} /\ ToSet(t) = {t[k] : k \in 1..Len(t)}
    BY <1>1 DEF ToSet
  <2> QED
    BY <2>1, <2>2, <2>3, <2>4, <2>5
<1>9. IsInjective(r)
  <2> SUFFICES ASSUME NEW k \in 1..Len(s) + Len(t), NEW l \in 1..Len(s) + Len(t), r[k] = r[l]
               PROVE  k = l
    BY <1>2 DEF IsInjective
  <2>1. /\ \A i \in 1..Len(s) : s[i] \in ToSet(s)
        /\ \A i \in 1..Len(t) : t[i] \in ToSet(t)
    BY <1>1 DEF ToSet
  <2>2. CASE k \in 1..Len(s) /\ l \in 1..Len(s)
    BY <1>1, <1>6, <2>2 DEF IsInjective
  <2>3. CASE k > Len(s) /\ k - Len(s) \in 1..Len(t) /\ l > Len(s) /\ l - Len(s) \in 1..Len(t)
    <3>1. t[k - Len(s)] = t[l - Len(s)]
      BY <1>1, <1>2, <2>3
    <3>2. k - Len(s) = l - Len(s)
      BY <1>1, <2>3, <3>1 DEF IsInjective
    <3> QED
      BY <1>1, <3>2
  <2>4. CASE \/ k \in 1..Len(s) /\ l > Len(s)
             \/ l \in 1..Len(s) /\ k > Len(s)
    <3>1. \/ r[k] \in ToSet(s) /\ r[l] \in ToSet(t)
          \/ r[l] \in ToSet(s) /\ r[k] \in ToSet(t)
      BY <1>1, <1>7, <2>1, <2>4
    <3> QED
      BY <3>1
  <2> QED
    BY <1>7, <2>2, <2>3, <2>4
<1> QED
  BY <1>2, <1>8, <1>9 DEF r

\* A list of one element.
LEMMA SingleProperties ==
    ASSUME NEW S, NEW e \in S
    PROVE  /\ <<e>> \in Seq(S) /\ Len(<<e>>) = 1
           /\ ToSet(<<e>>) = {e} /\ IsInjective(<<e>>)
  BY DEF ToSet, IsInjective

\* rt_list_insert_before at the head of a list: the thread becomes the last one.
LEMMA AppendAdds ==
    ASSUME NEW S, NEW s \in Seq(S), NEW t \in S, IsInjective(s), t \notin ToSet(s)
    PROVE  /\ Append(s, t) \in Seq(S) /\ Append(s, t) # <<>>
           /\ ToSet(Append(s, t)) = ToSet(s) \cup {t}
           /\ IsInjective(Append(s, t))
<1> DEFINE p == <<t>>
<1>1. p \in Seq(S) /\ ToSet(p) = {t} /\ IsInjective(p)
  BY SingleProperties
<1>2. Append(s, t) = s \o p /\ Append(s, t) # <<>>
  BY AppendIsConcat, AppendProperties
<1> HIDE DEF p
<1>3. ToSet(s) \cap ToSet(p) = {}
  BY <1>1
<1>4. s \o p \in Seq(S) /\ ToSet(s \o p) = ToSet(s) \cup ToSet(p) /\ IsInjective(s \o p)
  BY ONLY <1>1, <1>3, s \in Seq(S), IsInjective(s), ConcatKeeps
<1> QED
  BY <1>1, <1>2, <1>4

\* A list in the opposite order.
LEMMA ReverseProperties ==
    ASSUME NEW S, NEW s \in Seq(S), IsInjective(s)
    PROVE  /\ Reverse(s) \in Seq(S) /\ Len(Reverse(s)) = Len(s)
           /\ ToSet(Reverse(s)) = ToSet(s) /\ IsInjective(Reverse(s))
<1> DEFINE r == [k \in 1..Len(s) |-> s[(Len(s) - k) + 1]]
<1>1. Len(s) \in Nat /\ DOMAIN s = 1..Len(s) /\ \A k \in 1..Len(s) : s[k] \in S
  BY LenProperties, ElementOfSeq
<1>2. \A k \in 1..Len(s) : (Len(s) - k) + 1 \in 1..Len(s) /\ (Len(s) - ((Len(s) - k) + 1)) + 1 = k
  BY <1>1
<1>3. r \in [1..Len(s) -> S] /\ DOMAIN r = 1..Len(s)
  BY <1>1, <1>2
<1>4. r \in Seq(S) /\ Len(r) = Len(s)
  BY <1>1, <1>3
<1>5. ToSet(r) = ToSet(s)
  <2>1. \A k \in 1..Len(s) : r[k] \in ToSet(s)
    BY <1>1, <1>2 DEF ToSet
  <2>2. \A k \in 1..Len(s) : s[k] = r[(Len(s) - k) + 1]
    BY <1>2
  <2>3. \A k \in 1..Len(s) : s[k] \in ToSet(r)
    BY <1>2, <1>3, <2>2 DEF ToSet
  <2>4. ToSet(r) = {r[k] : k \in 1..Len(s)} /\ ToSet(s) = {s[k] : k \in 1..Len(s)}
    BY <1>1, <1>3 DEF ToSet
  <2> QED
    BY <2>1, <2>3, <2>4
<1>6. IsInjective(r)
  <2> SUFFICES ASSUME NEW k \in 1..Len(s), NEW l \in 1..Len(s), r[k] = r[l] PROVE k = l
    BY <1>3 DEF IsInjective
  <2>1. (Len(s) - k) + 1 = (Len(s) - l) + 1
    BY <1>1, <1>2 DEF IsInjective
  <2> QED
    BY <1>1, <2>1
<1>7. Reverse(s) = r
  BY DEF Reverse
<1> QED
  BY <1>4, <1>5, <1>6, <1>7

\* A set as a list: every element once.
LEMMA SetToSeqProperties ==
    ASSUME NEW S, IsFiniteSet(S)
    PROVE  /\ SetToSeq(S) \in Seq(S) /\ Len(SetToSeq(S)) = Cardinality(S)
           /\ ToSet(SetToSeq(S)) = S /\ IsInjective(SetToSeq(S))
<1> DEFINE n == Cardinality(S)
           D == 1..n
<1>1. n \in Nat /\ ExistsBijection(D, S)
  BY FS_CardinalityType
<1>2. PICK f \in [D -> S] : IsInjective(f)
  BY <1>1 DEF ExistsBijection, Bijection, Injection
<1>3. SetToSeq(S) = CHOOSE g \in [D -> S] : IsInjective(g)
  BY DEF SetToSeq
<1> DEFINE q == SetToSeq(S)
<1>4. q \in [D -> S] /\ IsInjective(q)
  BY <1>2, <1>3
<1> HIDE DEF q
<1>5. IsFiniteSet(D) /\ Cardinality(D) = n
  <2>1. 1 \in Int /\ n \in Int
    BY <1>1
  <2>2. IsFiniteSet(D) /\ Cardinality(D) = IF 1 > n THEN 0 ELSE n - 1 + 1
    BY <2>1, FS_Interval
  <2> QED
    BY <1>1, <2>2
<1>6. q \in Injection(D, S)
  BY <1>4 DEF Injection
<1>7. q \in Surjection(D, S)
  <2> HIDE DEF D
  <2> QED
    BY <1>5, <1>6, FS_Injection
<1>8. ToSet(q) = S
  BY <1>4, <1>7 DEF Surjection, ToSet
<1>9. q \in Seq(S) /\ Len(q) = n
  BY <1>1, <1>4
<1> QED
  BY <1>4, <1>8, <1>9 DEF q

\* A list that holds nothing twice and misses an element of a finite set is
\* shorter than the set is large.
LEMMA ShorterThanSet ==
    ASSUME NEW S, IsFiniteSet(S), NEW s \in Seq(S), IsInjective(s), NEW e \in S, e \notin ToSet(s)
    PROVE  Len(s) < Cardinality(S)
<1> DEFINE D == 1..Len(s)
           T == S \ {e}
<1>1. Len(s) \in Nat /\ s \in [D -> S] /\ DOMAIN s = D
  BY LenProperties
<1>2. s \in [D -> T]
  BY <1>1 DEF ToSet
<1>3. IsFiniteSet(T) /\ Cardinality(T) = Cardinality(S) - 1 /\ Cardinality(S) \in Nat
  BY FS_RemoveElement, FS_CardinalityType
<1>4. Cardinality(D) = Len(s)
  <2>1. 1 \in Int /\ Len(s) \in Int
    BY <1>1
  <2>2. Cardinality(D) = IF 1 > Len(s) THEN 0 ELSE Len(s) - 1 + 1
    BY <2>1, FS_Interval
  <2> QED
    BY <1>1, <2>2
<1>5. s \in Injection(D, T)
  BY <1>2 DEF Injection
<1>6. Cardinality(D) <= Cardinality(T)
  <2> HIDE DEF D, T
  <2> QED
    BY <1>3, <1>5, FS_Injection
<1> QED
  BY <1>1, <1>3, <1>4, <1>6

-----------------------------------------------------------------------------
(* Lists by priority *)

\* The list that RT_IPC_FLAG_PRIO keeps: the more urgent threads come first.
ByUrgency(s, prio) == \A i, j \in 1..Len(s) : i < j => prio[s[i]] <= prio[s[j]]

\* rt_list_remove keeps the order of the others.
LEMMA WithoutByUrgency ==
    ASSUME NEW S, NEW s \in Seq(S), NEW e, NEW prio, ByUrgency(s, prio)
    PROVE  ByUrgency(Without(s, e), prio)
<1>1. Len(s) \in Nat /\ DOMAIN s = 1..Len(s)
  BY LenProperties
<1>2. CASE e \notin ToSet(s)
  BY <1>2 DEF Without
<1>3. CASE e \in ToSet(s)
  <2> DEFINE k == CHOOSE i \in DOMAIN s : s[i] = e
             r == RemoveAt(s, k)
  <2>1. k \in 1..Len(s)
    BY <1>1, <1>3 DEF ToSet
  <2>2. Without(s, e) = r
    BY <1>3 DEF Without
  <2> HIDE DEF k
  <2>3. /\ r \in Seq(S) /\ Len(r) = Len(s) - 1
        /\ \A i \in 1..Len(s)-1 : r[i] = IF i < k THEN s[i] ELSE s[i+1]
    BY <2>1, RemoveAtProperties
  <2> HIDE DEF r
  <2>4. ASSUME NEW i \in 1..Len(r), NEW j \in 1..Len(r), i < j PROVE prio[r[i]] <= prio[r[j]]
    <3>1. PICK m \in 1..Len(s) : r[i] = s[m] /\ m = IF i < k THEN i ELSE i + 1
      BY <1>1, <2>1, <2>3
    <3>2. PICK n \in 1..Len(s) : r[j] = s[n] /\ n = IF j < k THEN j ELSE j + 1
      BY <1>1, <2>1, <2>3
    <3>3. m < n
      BY <1>1, <2>1, <2>3, <2>4, <3>1, <3>2
    <3> QED
      BY <3>1, <3>2, <3>3 DEF ByUrgency
  <2> QED
    BY <2>2, <2>4 DEF ByUrgency
<1> QED
  BY <1>2, <1>3

\* A thread put behind those that are at least as urgent, and before the others.
LEMMA InsertByUrgency ==
    ASSUME NEW S, NEW s \in Seq(S), NEW t \in S, NEW prio \in [S -> Nat], ByUrgency(s, prio),
           NEW k \in 1..Len(s)+1,
           \A i \in 1..Len(s) : i < k => prio[s[i]] <= prio[t],
           \A i \in 1..Len(s) : k <= i => prio[t] <= prio[s[i]]
    PROVE  ByUrgency(InsertAt(s, k, t), prio)
<1>1. Len(s) \in Nat /\ DOMAIN s = 1..Len(s)
  BY LenProperties
<1> DEFINE r == InsertAt(s, k, t)
<1>2. /\ r \in Seq(S) /\ Len(r) = Len(s) + 1
      /\ \A i \in 1..Len(s)+1 : r[i] = IF i < k THEN s[i] ELSE IF i = k THEN t ELSE s[i-1]
  BY ONLY SMTT(30), s \in Seq(S), k \in 1..Len(s)+1, t \in S, InsertAtProperties
<1> HIDE DEF r
<1>a. ASSUME NEW i \in 1..Len(s)+1, i # k
      PROVE  \E m \in 1..Len(s) : r[i] = s[m] /\ m = IF i < k THEN i ELSE i - 1
  <2>1. CASE i < k
    <3>1. i \in 1..Len(s) /\ r[i] = s[i]
      BY <1>1, <1>2, <2>1
    <3> QED
      BY <2>1, <3>1
  <2>2. CASE ~(i < k)
    <3>1. i - 1 \in 1..Len(s) /\ r[i] = s[i-1]
      BY <1>1, <1>2, <1>a, <2>2
    <3> QED
      BY <2>2, <3>1
  <2> QED
    BY <2>1, <2>2
<1>3. ASSUME NEW i \in 1..Len(s)+1, NEW j \in 1..Len(s)+1, i < j PROVE prio[r[i]] <= prio[r[j]]
  <2>1. i # k => \E m \in 1..Len(s) : r[i] = s[m] /\ m = IF i < k THEN i ELSE i - 1
    BY <1>a
  <2>2. j # k => \E n \in 1..Len(s) : r[j] = s[n] /\ n = IF j < k THEN j ELSE j - 1
    BY <1>a
  <2>3. CASE i = k
    <3>1. PICK n \in 1..Len(s) : r[j] = s[n] /\ n = j - 1
      BY <1>3, <2>2, <2>3
    <3>2. k <= n /\ r[i] = t
      BY <1>2, <1>3, <2>3, <3>1
    <3> QED
      BY <3>1, <3>2
  <2>4. CASE j = k
    <3>1. PICK m \in 1..Len(s) : r[i] = s[m] /\ m = i
      BY <1>3, <2>1, <2>4
    <3>2. m < k /\ r[j] = t
      BY <1>2, <1>3, <2>4, <3>1
    <3> QED
      BY <3>1, <3>2
  <2>5. CASE i # k /\ j # k
    <3>1. PICK m \in 1..Len(s) : r[i] = s[m] /\ m = IF i < k THEN i ELSE i - 1
      BY <2>1, <2>5
    <3>2. PICK n \in 1..Len(s) : r[j] = s[n] /\ n = IF j < k THEN j ELSE j - 1
      BY <2>2, <2>5
    <3>3. m < n
      BY <1>3, <2>5, <3>1, <3>2
    <3> QED
      BY <3>1, <3>2, <3>3 DEF ByUrgency
  <2> QED
    BY <2>3, <2>4, <2>5
<1>4. ByUrgency(r, prio)
  BY <1>2, <1>3 DEF ByUrgency
<1> QED
  BY <1>4 DEF r

\* _ipc_list_suspend keeps the list sorted.
LEMMA PlaceByUrgency ==
    ASSUME NEW S, NEW s \in Seq(S), NEW t \in S, NEW prio \in [S -> Nat], ByUrgency(s, prio)
    PROVE  ByUrgency(Place(s, t, "PRIO", prio), prio)
<1> DEFINE Later == {i \in DOMAIN s : prio[t] < prio[s[i]]}
<1>1. Len(s) \in Nat /\ DOMAIN s = 1..Len(s) /\ \A i \in 1..Len(s) : s[i] \in S
  BY LenProperties, ElementOfSeq
<1>2. prio[t] \in Nat /\ \A i \in 1..Len(s) : prio[s[i]] \in Nat
  BY <1>1
<1>3. CASE Later = {}
  <2>1. \A i \in 1..Len(s) : prio[s[i]] <= prio[t]
    BY <1>1, <1>2, <1>3
  <2>2. Place(s, t, "PRIO", prio) = Append(s, t)
    BY <1>3 DEF Place
  <2> DEFINE r == Append(s, t)
  <2>3. /\ Len(r) = Len(s) + 1 /\ r[Len(s) + 1] = t
        /\ \A i \in 1..Len(s) : r[i] = s[i]
    BY <1>1
  <2> HIDE DEF r
  <2>4. ASSUME NEW i \in 1..Len(r), NEW j \in 1..Len(r), i < j PROVE prio[r[i]] <= prio[r[j]]
    <3>1. i \in 1..Len(s) /\ (j \in 1..Len(s) \/ j = Len(s) + 1)
      BY <1>1, <2>3, <2>4
    <3> QED
      BY <2>1, <2>3, <2>4, <3>1 DEF ByUrgency
  <2> QED
    BY <2>2, <2>4 DEF ByUrgency, r
<1>4. CASE Later # {}
  <2>1. Place(s, t, "PRIO", prio) = InsertAt(s, Min(Later), t)
    BY <1>4 DEF Place
  <2>2. Later \subseteq Nat /\ Later \subseteq 1..Len(s)
    BY <1>1
  <2>3. Min(Later) \in Later /\ \A j \in Later : Min(Later) <= j
    <3> HIDE DEF Later
    <3> QED
      BY <1>4, <2>2, MinInSet
  <2> DEFINE k == Min(Later)
  <2>4. k \in 1..Len(s) /\ prio[t] < prio[s[k]] /\ \A j \in 1..Len(s) : prio[t] < prio[s[j]] => k <= j
    <3>1. \A j \in 1..Len(s) : j \in Later <=> prio[t] < prio[s[j]]
      BY <1>1
    <3> HIDE DEF Later
    <3> QED
      BY <2>2, <2>3, <3>1
  <2> HIDE DEF k, Later
  <2>5. \A i \in 1..Len(s) : i < k => prio[s[i]] <= prio[t]
    BY <1>1, <1>2, <2>4
  <2>6. \A i \in 1..Len(s) : k <= i => prio[t] <= prio[s[i]]
    <3> SUFFICES ASSUME NEW i \in 1..Len(s), k <= i PROVE prio[t] <= prio[s[i]]
      OBVIOUS
    <3>1. k = i \/ prio[s[k]] <= prio[s[i]]
      BY <1>1, <2>4 DEF ByUrgency
    <3> QED
      BY <1>1, <1>2, <2>4, <3>1
  <2>7. k \in 1..Len(s)+1
    BY <1>1, <2>4
  <2>8. ByUrgency(InsertAt(s, k, t), prio)
    BY <2>5, <2>6, <2>7, InsertByUrgency
  <2> QED
    BY <2>1, <2>8 DEF k
<1> QED
  BY <1>3, <1>4
=============================================================================
