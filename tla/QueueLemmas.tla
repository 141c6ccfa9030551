----------------------------- MODULE QueueLemmas ----------------------------
(***************************************************************************)
(* What the three operations on _waiting_jobs do to its entries: an        *)
(* OrderedDict is a sequence without repetition, and the proofs about the  *)
(* backend only look at the set of its entries.                            *)
(***************************************************************************)
EXTENDS SequencesExt, SequenceTheorems, TLAPS

\* Removing the i-th entry shifts the entries behind it.
LEMMA RemoveAtEntries ==
    ASSUME NEW S, NEW s \in Seq(S), NEW i \in 1..Len(s)
    PROVE  /\ RemoveAt(s, i) \in Seq(S)
           /\ Len(RemoveAt(s, i)) = Len(s) - 1
           /\ \A k \in 1..(Len(s) - 1) :
                RemoveAt(s, i)[k] = IF k < i THEN s[k] ELSE s[k + 1]
<1> DEFINE front == SubSeq(s, 1, i - 1)
           back == SubSeq(s, i + 1, Len(s))
<1>1. front \in Seq(S) /\ Len(front) = i - 1 /\ \A k \in 1..(i - 1) : front[k] = s[k]
  <2>1. \A k \in 1..(i - 1) : s[k] \in S
    OBVIOUS
  <2> QED
    BY <2>1, SubSeqProperties
<1>2. /\ back \in Seq(S) /\ Len(back) = Len(s) - i
      /\ \A k \in 1..(Len(s) - i) : back[k] = s[k + i]
  OBVIOUS
<1>3. RemoveAt(s, i) = front \o back
  BY DEF RemoveAt
<1> HIDE DEF front, back
<1>4. /\ front \o back \in Seq(S)
      /\ Len(front \o back) = Len(s) - 1
      /\ \A k \in 1..(Len(s) - 1) :
           (front \o back)[k] = IF k <= i - 1 THEN front[k] ELSE back[k - (i - 1)]
  BY <1>1, <1>2, ConcatProperties
<1>5. \A k \in 1..(Len(s) - 1) : (front \o back)[k] = IF k < i THEN s[k] ELSE s[k + 1]
  <2> SUFFICES ASSUME NEW k \in 1..(Len(s) - 1)
               PROVE  (front \o back)[k] = IF k < i THEN s[k] ELSE s[k + 1]
    OBVIOUS
  <2>1. CASE k < i
    <3>1. k \in 1..(i - 1) /\ k <= i - 1
      BY <2>1
    <3> QED
      BY <2>1, <3>1, <1>1, <1>4
  <2>2. CASE ~(k < i)
    <3>1. k - (i - 1) \in 1..(Len(s) - i) /\ ~(k <= i - 1) /\ k - (i - 1) + i = k + 1
      BY <2>2
    <3> QED
      BY <2>2, <3>1, <1>2, <1>4
  <2> QED
    BY <2>1, <2>2
<1> QED
  BY <1>3, <1>4, <1>5

\* Deleting an entry of a queue without repetition takes this entry out, and
\* no other.
LEMMA QueueDelete ==
    ASSUME NEW S, NEW s \in Seq(S), IsInjective(s), NEW i \in DOMAIN s
    PROVE  /\ RemoveAt(s, i) \in Seq(S)
           /\ IsInjective(RemoveAt(s, i))
           /\ Range(RemoveAt(s, i)) = Range(s) \ {s[i]}
<1> DEFINE r == RemoveAt(s, i)
<1>1. i \in 1..Len(s)
  OBVIOUS
<1>2. /\ r \in Seq(S) /\ Len(r) = Len(s) - 1
      /\ \A k \in 1..(Len(s) - 1) : r[k] = IF k < i THEN s[k] ELSE s[k + 1]
  BY <1>1, RemoveAtEntries
<1> HIDE DEF r
<1>3. DOMAIN r = 1..(Len(s) - 1) /\ DOMAIN s = 1..Len(s)
  BY <1>2
<1>4. \A k \in DOMAIN r : \E m \in DOMAIN s : m # i /\ r[k] = s[m] /\ m = IF k < i THEN k ELSE k + 1
  BY <1>1, <1>2, <1>3
<1>5. \A m \in DOMAIN s : m # i => \E k \in DOMAIN r : r[k] = s[m]
  <2> SUFFICES ASSUME NEW m \in DOMAIN s, m # i
               PROVE  \E k \in DOMAIN r : r[k] = s[m]
    OBVIOUS
  <2>1. CASE m < i
    <3>1. m \in DOMAIN r /\ r[m] = s[m]
      BY <1>1, <1>2, <1>3, <2>1
    <3> QED
      BY <3>1
  <2>2. CASE m > i
    <3>1. m - 1 \in DOMAIN r /\ r[m - 1] = s[m]
      BY <1>1, <1>2, <1>3, <2>2
    <3> QED
      BY <3>1
  <2> QED
    BY <1>1, <1>3, <2>1, <2>2
<1>6. IsInjective(r)
  <2> SUFFICES ASSUME NEW k \in DOMAIN r, NEW l \in DOMAIN r, r[k] = r[l]
               PROVE  k = l
    BY DEF IsInjective
  <2>1. PICK m \in DOMAIN s : r[k] = s[m] /\ m = IF k < i THEN k ELSE k + 1
    BY <1>4
  <2>2. PICK n \in DOMAIN s : r[l] = s[n] /\ n = IF l < i THEN l ELSE l + 1
    BY <1>4
  <2>3. m = n
    BY <2>1, <2>2 DEF IsInjective
  <2> QED
    BY <2>1, <2>2, <2>3, <1>1, <1>3
<1>7. Range(r) = Range(s) \ {s[i]}
  BY <1>4, <1>5 DEF Range, IsInjective
<1> QED
  BY <1>2, <1>6, <1>7 DEF r

\* A new entry goes to the end.
LEMMA QueueAppend ==
    ASSUME NEW S, NEW s \in Seq(S), IsInjective(s), NEW e \in S, e \notin Range(s)
    PROVE  /\ Append(s, e) \in Seq(S)
           /\ IsInjective(Append(s, e))
           /\ Range(Append(s, e)) = Range(s) \cup {e}
<1> DEFINE r == Append(s, e)
<1>1. /\ r \in Seq(S) /\ Len(r) = Len(s) + 1
      /\ \A k \in 1..Len(s) : r[k] = s[k]
      /\ r[Len(s) + 1] = e
  BY AppendProperties
<1> HIDE DEF r
<1>2. DOMAIN r = 1..(Len(s) + 1) /\ DOMAIN s = 1..Len(s)
  BY <1>1
<1>3. \A k \in DOMAIN r : k = Len(s) + 1 \/ k \in DOMAIN s
  BY <1>2
<1>4. IsInjective(r)
  BY <1>1, <1>2, <1>3 DEF IsInjective, Range
<1>5. Range(r) = Range(s) \cup {e}
  BY <1>1, <1>2, <1>3 DEF Range
<1> QED
  BY <1>1, <1>4, <1>5 DEF r

\* A set of new entries goes to the end, in any order.
LEMMA QueueAppendAll ==
    ASSUME NEW S, NEW s \in Seq(S), IsInjective(s), NEW T \in SUBSET S,
           NEW n \in Nat, NEW t \in Bijection(1..n, T), T \cap Range(s) = {}
    PROVE  /\ s \o t \in Seq(S)
           /\ IsInjective(s \o t)
           /\ Range(s \o t) = Range(s) \cup T
<1>1. /\ t \in Seq(S) /\ Len(t) = n /\ DOMAIN t = 1..n
      /\ IsInjective(t) /\ Range(t) = T
  BY DEF Bijection, Injection, Surjection, Range
<1> DEFINE r == s \o t
<1>2. /\ r \in Seq(S) /\ Len(r) = Len(s) + n
      /\ \A k \in 1..(Len(s) + n) : r[k] = IF k <= Len(s) THEN s[k] ELSE t[k - Len(s)]
  BY <1>1, ConcatProperties
<1>3. Range(r) = Range(s) \cup T
  BY <1>1, RangeConcatenation
<1> HIDE DEF r
<1>4. DOMAIN r = 1..(Len(s) + n) /\ DOMAIN s = 1..Len(s)
  BY <1>2
<1>5. \A k \in DOMAIN r : \/ k \in DOMAIN s /\ r[k] = s[k]
                          \/ k - Len(s) \in DOMAIN t /\ r[k] = t[k - Len(s)]
  BY <1>1, <1>2, <1>4
<1>6. IsInjective(r)
  <2> SUFFICES ASSUME NEW k \in DOMAIN r, NEW l \in DOMAIN r, r[k] = r[l]
               PROVE  k = l
    BY DEF IsInjective
  <2>1. CASE k \in DOMAIN s /\ r[k] = s[k] /\ l \in DOMAIN s /\ r[l] = s[l]
    BY <2>1 DEF IsInjective
  <2>2. CASE /\ k - Len(s) \in DOMAIN t /\ r[k] = t[k - Len(s)]
             /\ l - Len(s) \in DOMAIN t /\ r[l] = t[l - Len(s)]
    <3>1. k - Len(s) = l - Len(s)
      BY <2>2, <1>1 DEF IsInjective
    <3> QED
      BY <3>1, <1>4
  <2>3. CASE k \in DOMAIN s /\ r[k] = s[k] /\ l - Len(s) \in DOMAIN t /\ r[l] = t[l - Len(s)]
    BY <2>3, <1>1 DEF Range
  <2>4. CASE k - Len(s) \in DOMAIN t /\ r[k] = t[k - Len(s)] /\ l \in DOMAIN s /\ r[l] = s[l]
    BY <2>4, <1>1 DEF Range
  <2> QED
    BY <1>5, <2>1, <2>2, <2>3, <2>4
<1> QED
  BY <1>2, <1>3, <1>6 DEF r

-----------------------------------------------------------------------------
(* The channels between the backend and an agent: which messages are there. *)

\* What is in a channel, and what is in it once at most
Has(s, m) == \E i \in DOMAIN s : s[i] = m
Once(s, m) == \A i, k \in DOMAIN s : s[i] = m /\ s[k] = m => i = k

\* An empty channel has no message.
LEMMA ChannelEmpty == \A m : ~Has(<<>>, m) /\ Once(<<>>, m)
BY DEF Has, Once

\* A message that is sent is behind the others.
LEMMA ChannelSent ==
    ASSUME NEW S, NEW s \in Seq(S), NEW e \in S
    PROVE  /\ Append(s, e) \in Seq(S) /\ Append(s, e) # <<>>
           /\ \A m : Has(Append(s, e), m) <=> Has(s, m) \/ m = e
           /\ \A m : Once(s, m) /\ (m = e => ~Has(s, m)) => Once(Append(s, e), m)
<1> DEFINE r == Append(s, e)
<1>1. /\ r \in Seq(S) /\ Len(r) = Len(s) + 1
      /\ \A k \in 1..Len(s) : r[k] = s[k]
      /\ r[Len(s) + 1] = e
  BY AppendProperties
<1> HIDE DEF r
<1>2. DOMAIN r = 1..(Len(s) + 1) /\ DOMAIN s = 1..Len(s)
  BY <1>1
<1>3. \A k \in DOMAIN r : (k \in DOMAIN s /\ r[k] = s[k]) \/ (k = Len(s) + 1 /\ r[k] = e)
  BY <1>1, <1>2
<1>4. \A m : Has(r, m) <=> Has(s, m) \/ m = e
  BY <1>1, <1>2, <1>3 DEF Has
<1>5. \A m : Once(s, m) /\ (m = e => ~Has(s, m)) => Once(r, m)
  BY <1>3 DEF Has, Once
<1>6. r # <<>>
  BY <1>1
<1> QED
  BY <1>1, <1>4, <1>5, <1>6 DEF r

\* The first message is read.
LEMMA ChannelRead ==
    ASSUME NEW S, NEW s \in Seq(S), s # <<>>
    PROVE  /\ Head(s) \in S /\ Tail(s) \in Seq(S) /\ Has(s, Head(s))
           /\ \A m : Has(s, m) <=> Has(Tail(s), m) \/ m = Head(s)
           /\ \A m : Once(s, m) => Once(Tail(s), m)
           /\ \A m : Once(s, m) /\ m = Head(s) => ~Has(Tail(s), m)
<1> DEFINE r == Tail(s)
<1>1. /\ Head(s) \in S /\ r \in Seq(S) /\ Len(r) = Len(s) - 1 /\ Len(s) \in Nat /\ Len(s) > 0
      /\ \A k \in 1..Len(r) : r[k] = s[k + 1]
      /\ Head(s) = s[1]
  OBVIOUS
<1> HIDE DEF r
<1>2. DOMAIN r = 1..(Len(s) - 1) /\ DOMAIN s = 1..Len(s) /\ 1 \in DOMAIN s
  BY <1>1
<1>3. \A k \in DOMAIN r : k \in Nat /\ k > 0 /\ k + 1 \in DOMAIN s /\ r[k] = s[k + 1]
  BY <1>1, <1>2
<1>4. \A k \in DOMAIN s : k = 1 \/ (k - 1 \in DOMAIN r /\ r[k - 1] = s[k])
  BY <1>1, <1>2
<1>5. \A m : Has(s, m) <=> Has(r, m) \/ m = Head(s)
  BY <1>1, <1>2, <1>3, <1>4 DEF Has
<1>6. ASSUME NEW m, Once(s, m) PROVE Once(r, m)
  <2> SUFFICES ASSUME NEW i \in DOMAIN r, NEW k \in DOMAIN r, r[i] = m, r[k] = m PROVE i = k
    BY DEF Once
  <2>1. i + 1 \in DOMAIN s /\ k + 1 \in DOMAIN s /\ s[i + 1] = m /\ s[k + 1] = m /\ i \in Nat /\ k \in Nat
    BY <1>3
  <2>2. i + 1 = k + 1
    BY <1>6, <2>1 DEF Once
  <2> QED
    BY <2>1, <2>2
<1>7. ASSUME NEW m, Once(s, m), m = Head(s), Has(r, m) PROVE FALSE
  <2>1. PICK k \in DOMAIN r : r[k] = m
    BY <1>7 DEF Has
  <2>2. k + 1 \in DOMAIN s /\ s[k + 1] = m /\ s[1] = m /\ k + 1 # 1
    BY <1>1, <1>3, <1>7, <2>1
  <2> QED
    BY <1>2, <1>7, <2>2 DEF Once
<1> QED
  BY <1>1, <1>5, <1>6, <1>7 DEF r
=============================================================================
