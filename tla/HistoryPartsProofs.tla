------------------------- MODULE HistoryPartsProofs -------------------------
(***************************************************************************)
(* What holds of the parts of the public history in MCHistoryParts: of the *)
(* keyframe ring for every capacity, every set of causes and every bound   *)
(* on frames and gaps; of the coordinator, whose theorems are carried over *)
(* from PublicHistoryCoordinatorProofs, and of the table decoder, for      *)
(* every number of frames, hands and seats.                                *)
(***************************************************************************)
EXTENDS MCHistoryParts, FiniteSetTheorems, SequenceTheorems, NaturalsInduction,
        WellFoundedInduction, TLAPS

(* What there is of a nonempty set of numbers has a least element: the     *)
(* form of induction that the lemmas below use.                            *)
LEMMA LeastNumber ==
  ASSUME NEW B, B \subseteq Nat, B # {}
  PROVE  \E k \in B : \A l \in B : k <= l
<1>1. PICK k \in B : \A l \in B : ~(<<l, k>> \in OpToRel(<, Nat))
  BY NatLessThanWellFounded, WFMin
<1>2. \A l \in B : l \in Nat /\ k \in Nat /\ ~(l < k)
  BY <1>1 DEF OpToRel
<1>3. QED
  BY <1>2

(* t is s with e put at place n, everything after it moved by one.         *)
IsInsertion(t, s, n, e) ==
  /\ Len(t) = Len(s) + 1
  /\ \A i \in 1..n - 1 : t[i] = s[i]
  /\ t[n] = e
  /\ \A i \in n..Len(s) : t[i + 1] = s[i]

LEMMA InsertAtFacts ==
  ASSUME NEW S, NEW s \in Seq(S), NEW e \in S, NEW n \in 1..Len(s) + 1
  PROVE  InsertAt(s, n, e) \in Seq(S) /\ IsInsertion(InsertAt(s, n, e), s, n, e)
<1> DEFINE front == SubSeq(s, 1, n - 1)
           back == SubSeq(s, n, Len(s))
           t == InsertAt(s, n, e)
<1>0. Len(s) \in Nat /\ n \in Nat /\ 1 <= n /\ n <= Len(s) + 1
  OBVIOUS
<1>1. /\ front \in Seq(S) /\ Len(front) = n - 1
      /\ \A i \in 1..n - 1 : front[i] = s[i]
  BY <1>0, SubSeqProperties
<1>2. /\ back \in Seq(S) /\ Len(back) = Len(s) - n + 1
      /\ \A i \in 1..Len(s) - n + 1 : back[i] = s[n + i - 1]
  BY <1>0, SubSeqProperties
<1>3. t = (front \o <<e>>) \o back
  BY DEF InsertAt
<1> HIDE DEF front, back, t
<1>4. t \in Seq(S) /\ Len(t) = Len(s) + 1
  <2> DEFINE mid == front \o <<e>>
  <2>1. <<e>> \in Seq(S) /\ Len(<<e>>) = 1
    OBVIOUS
  <2>2. mid \in Seq(S) /\ Len(mid) = n
    BY <1>0, <1>1, <2>1
  <2>3. t = mid \o back
    BY <1>3
  <2> HIDE DEF mid
  <2>4. t \in Seq(S) /\ Len(t) = Len(mid) + Len(back)
    BY <1>2, <2>2, <2>3, ConcatProperties
  <2>5. QED
    BY <1>0, <1>2, <2>2, <2>4
<1>5. ASSUME NEW i \in 1..n - 1
      PROVE  t[i] = s[i]
  BY <1>0, <1>1, <1>2, <1>3
<1>6. ASSUME NEW i \in n..Len(s)
      PROVE  t[i + 1] = s[i]
  <2>1. i - n + 1 \in 1..Len(s) - n + 1 /\ back[i - n + 1] = s[i]
    BY <1>0, <1>2
  <2>2. t[i + 1] = back[i - n + 1]
    BY <1>0, <1>1, <1>2, <1>3
  <2>3. QED
    BY <2>1, <2>2
<1>7. t[n] = e
  BY <1>0, <1>1, <1>2, <1>3
<1>8. QED
  BY <1>4, <1>5, <1>6, <1>7 DEF t, IsInsertion

LEMMA AppendInserts ==
  ASSUME NEW S, NEW s \in Seq(S), NEW e \in S
  PROVE  Append(s, e) \in Seq(S) /\ IsInsertion(Append(s, e), s, Len(s) + 1, e)
BY DEF IsInsertion

(* An insertion keeps every element and brings one.                        *)
LEMMA InsertionMembers ==
  ASSUME NEW S, NEW s \in Seq(S), NEW e \in S, NEW n \in 1..Len(s) + 1,
         NEW t \in Seq(S), IsInsertion(t, s, n, e)
  PROVE  /\ DOMAIN t = 1..Len(s) + 1
         /\ \A i \in 1..Len(s) : \E j \in 1..Len(s) + 1 : t[j] = s[i]
         /\ \A j \in 1..Len(s) + 1 : t[j] = e \/ \E i \in 1..Len(s) : t[j] = s[i]
<1>0. Len(s) \in Nat /\ n \in Nat /\ 1 <= n /\ n <= Len(s) + 1
  OBVIOUS
<1>1. ASSUME NEW i \in 1..Len(s)
      PROVE  \E j \in 1..Len(s) + 1 : t[j] = s[i]
  <2>1. CASE i < n
    <3>1. i \in 1..n - 1 /\ i \in 1..Len(s) + 1
      BY <1>0, <2>1
    <3>2. QED
      BY <3>1 DEF IsInsertion
  <2>2. CASE i >= n
    <3>1. i \in n..Len(s) /\ i + 1 \in 1..Len(s) + 1
      BY <1>0, <2>2
    <3>2. QED
      BY <3>1 DEF IsInsertion
  <2>3. QED
    BY <1>0, <2>1, <2>2
<1>2. ASSUME NEW j \in 1..Len(s) + 1
      PROVE  t[j] = e \/ \E i \in 1..Len(s) : t[j] = s[i]
  <2>1. CASE j < n
    <3>1. j \in 1..n - 1 /\ j \in 1..Len(s)
      BY <1>0, <2>1
    <3>2. QED
      BY <3>1 DEF IsInsertion
  <2>2. CASE j = n
    BY <2>2 DEF IsInsertion
  <2>3. CASE j > n
    <3>1. j - 1 \in n..Len(s) /\ j - 1 \in 1..Len(s) /\ j - 1 + 1 = j
      BY <1>0, <2>3
    <3>2. t[j - 1 + 1] = s[j - 1]
      BY <3>1 DEF IsInsertion
    <3>3. QED
      BY <3>1, <3>2
  <2>4. QED
    BY <1>0, <2>1, <2>2, <2>3
<1>3. DOMAIN t = 1..Len(s) + 1
  BY DEF IsInsertion
<1>4. QED
  BY <1>1, <1>2, <1>3

-----------------------------------------------------------------------------
(* The drops of a ledger, counted one gap after the other.                 *)
IsSum(f, ledger, cause, n) ==
  f = [i \in 0..n |-> IF i = 0 THEN 0 ELSE f[i - 1] + Drops(ledger[i], cause)]

LEMMA SumExists ==
  ASSUME NEW ledger, NEW cause, NEW n \in Nat
  PROVE  \E f : IsSum(f, ledger, cause, n)
<1> DEFINE B == {k \in Nat : ~\E f : IsSum(f, ledger, cause, k)}
<1>1. SUFFICES ASSUME B # {} PROVE FALSE
  BY Zenon
<1>2. PICK k \in B : \A l \in B : k <= l
  <2> HIDE DEF B
  <2>1. B \subseteq Nat
    BY DEF B
  <2>2. QED
    BY <1>1, <2>1, LeastNumber
<1>3. k \in Nat /\ ~\E f : IsSum(f, ledger, cause, k)
  BY Zenon
<1>4. CASE k = 0
  <2>1. PICK f : f = [i \in 0..0 |-> 0]
    OBVIOUS
  <2>2. f = [i \in 0..k |-> IF i = 0 THEN 0 ELSE f[i - 1] + Drops(ledger[i], cause)]
    BY <1>4, <2>1
  <2>3. QED
    BY <1>3, <2>2, Zenon DEF IsSum
<1>5. CASE k # 0
  <2>1. k - 1 \in Nat /\ ~(k <= k - 1)
    BY <1>3, <1>5
  <2>2. PICK h : IsSum(h, ledger, cause, k - 1)
    BY <1>2, <2>1
  <2>3. PICK g : g = [i \in 0..k |-> IF i \in 0 .. k - 1 THEN h[i]
                                     ELSE h[i - 1] + Drops(ledger[i], cause)]
    OBVIOUS
  <2>4. ASSUME NEW i \in 0..k
        PROVE  g[i] = IF i = 0 THEN 0 ELSE g[i - 1] + Drops(ledger[i], cause)
    <3>1. i # 0 => i - 1 \in 0 .. k - 1 /\ i - 1 \in 0..k
      BY <1>3
    <3>2. i # 0 => g[i - 1] = h[i - 1]
      BY <2>3, <3>1
    <3>3. i = 0 => i \in 0 .. k - 1
      BY <1>3, <1>5
    <3>4. i \in 0 .. k - 1 => h[i] = IF i = 0 THEN 0 ELSE h[i - 1] + Drops(ledger[i], cause)
      BY <2>2 DEF IsSum
    <3>5. g[i] = IF i = 0 THEN 0 ELSE h[i - 1] + Drops(ledger[i], cause)
      BY <2>3, <3>3, <3>4
    <3>6. QED
      BY <3>2, <3>5
  <2>5. g = [i \in 0..k |-> IF i = 0 THEN 0 ELSE g[i - 1] + Drops(ledger[i], cause)]
    BY <2>3, <2>4
  <2>6. QED
    BY <1>3, <2>5, Zenon DEF IsSum
<1>6. QED
  BY <1>4, <1>5

(* What DroppedOf() counts after each gap.                                 *)
CountsAlong(f, s, cause, n) ==
  /\ f[0] = 0
  /\ \A i \in 1..n : s[i] \in CaptureGap /\ f[i] = f[i - 1] + Drops(s[i], cause)

Counts(f, ledger, cause) ==
  CountsAlong(f, ledger, cause, Len(ledger)) /\ DroppedOf(ledger, cause) = f[Len(ledger)]

LEMMA DroppedFacts ==
  ASSUME NEW ledger \in Seq(CaptureGap), NEW cause
  PROVE  \E f : Counts(f, ledger, cause)
<1>1. PICK f : f = CHOOSE g : IsSum(g, ledger, cause, Len(ledger))
  OBVIOUS
<1>2. DroppedOf(ledger, cause) = f[Len(ledger)]
  BY <1>1, Zenon DEF DroppedOf, IsSum
<1>3. Len(ledger) \in Nat
  OBVIOUS
<1>4. IsSum(f, ledger, cause, Len(ledger))
  BY <1>1, <1>3, SumExists, Zenon
<1>5. f[0] = 0 /\ \A i \in 1..Len(ledger) : f[i] = f[i - 1] + Drops(ledger[i], cause)
  <2>1. 0 \in 0..Len(ledger)
    BY <1>3
  <2>2. \A i \in 1..Len(ledger) : i \in 0..Len(ledger) /\ i # 0
    BY <1>3
  <2>3. \A i \in 0..Len(ledger) : f[i] = IF i = 0 THEN 0 ELSE f[i - 1] + Drops(ledger[i], cause)
    BY <1>4 DEF IsSum
  <2>4. QED
    BY <2>1, <2>2, <2>3
<1>6. Counts(f, ledger, cause)
  BY <1>2, <1>5 DEF Counts, CountsAlong
<1>7. QED
  BY <1>6

LEMMA DropsType == \A gap \in CaptureGap : \A cause : Drops(gap, cause) \in Nat
BY DEF CaptureGap, Drops

(* The counts are numbers, and those of two ledgers that agree up to a     *)
(* place agree up to it.                                                   *)
LEMMA PrefixCounts ==
  ASSUME NEW n \in Nat, NEW f, NEW h, NEW s, NEW t, NEW cause,
         CountsAlong(f, s, cause, n), CountsAlong(h, t, cause, n), \A i \in 1..n : t[i] = s[i]
  PROVE  \A i \in 0..n : f[i] \in Nat /\ h[i] = f[i]
<1> DEFINE B == {k \in 0..n : ~(f[k] \in Nat /\ h[k] = f[k])}
<1>1. SUFFICES ASSUME B # {} PROVE FALSE
  OBVIOUS
<1>2. PICK k \in B : \A l \in B : k <= l
  <2> HIDE DEF B
  <2>1. B \subseteq Nat
    BY DEF B
  <2>2. QED
    BY <1>1, <2>1, LeastNumber
<1>3. k \in 0..n /\ ~(f[k] \in Nat /\ h[k] = f[k]) /\ k # 0
  BY DEF CountsAlong
<1>4. k \in 1..n /\ k - 1 \in 0..n /\ ~(k <= k - 1)
  BY <1>3
<1>5. f[k - 1] \in Nat /\ h[k - 1] = f[k - 1]
  BY <1>2, <1>4
<1>6. Drops(s[k], cause) \in Nat
  BY <1>4, DropsType DEF CountsAlong
<1>7. QED
  BY <1>3, <1>4, <1>5, <1>6 DEF CountsAlong

(* An insertion adds the drops and the frames of the gap it brings.        *)
LEMMA InsertionDrops ==
  ASSUME NEW s \in Seq(CaptureGap), NEW e \in CaptureGap, NEW n \in 1..Len(s) + 1,
         NEW t \in Seq(CaptureGap), IsInsertion(t, s, n, e), NEW cause
  PROVE  /\ DroppedOf(s, cause) \in Nat
         /\ DroppedOf(t, cause) = DroppedOf(s, cause) + Drops(e, cause)
<1>0. /\ Len(s) \in Nat /\ n \in Nat /\ 1 <= n /\ n <= Len(s) + 1 /\ n - 1 \in Nat
      /\ Len(t) = Len(s) + 1
      /\ \A i \in 1..Len(s) : s[i] \in CaptureGap
  BY DEF IsInsertion
<1>1. PICK f : Counts(f, s, cause)
  BY DroppedFacts
<1>2. PICK h : Counts(h, t, cause)
  BY DroppedFacts
<1>3. \A i \in 0..Len(s) : f[i] \in Nat
  <2>1. CountsAlong(f, s, cause, Len(s))
    BY <1>1 DEF Counts
  <2>2. QED
    BY <1>0, <2>1, PrefixCounts
<1>4. \A i \in 0 .. n - 1 : h[i] = f[i]
  <2>1. \A i \in 1 .. n - 1 : i \in 1..Len(s) /\ i \in 1..Len(t) /\ t[i] = s[i]
    BY <1>0 DEF IsInsertion
  <2>2. CountsAlong(f, s, cause, n - 1)
    BY <1>0, <1>1, <2>1 DEF Counts, CountsAlong
  <2>3. CountsAlong(h, t, cause, n - 1)
    BY <1>0, <1>2, <2>1 DEF Counts, CountsAlong
  <2>4. QED
    BY <1>0, <2>1, <2>2, <2>3, PrefixCounts
<1>5. Drops(e, cause) \in Nat
  BY DropsType
<1>6. h[n] = f[n - 1] + Drops(e, cause)
  <2>1. n \in 1..Len(t) /\ t[n] = e /\ n - 1 \in 0 .. n - 1
    BY <1>0 DEF IsInsertion
  <2>2. QED
    BY <1>2, <1>4, <2>1 DEF Counts, CountsAlong
<1>7. \A i \in n - 1 .. Len(s) : h[i + 1] = f[i] + Drops(e, cause)
  <2> DEFINE B == {k \in n - 1 .. Len(s) : h[k + 1] # f[k] + Drops(e, cause)}
  <2>1. SUFFICES ASSUME B # {} PROVE FALSE
    OBVIOUS
  <2>2. PICK k \in B : \A l \in B : k <= l
    <3> HIDE DEF B
    <3>1. B \subseteq Nat
      BY <1>0 DEF B
    <3>2. QED
      BY <2>1, <3>1, LeastNumber
  <2>3. k \in n - 1 .. Len(s) /\ h[k + 1] # f[k] + Drops(e, cause)
    OBVIOUS
  <2>4. k \in n..Len(s) /\ k - 1 \in n - 1 .. Len(s) /\ ~(k <= k - 1)
    <3>1. k # n - 1
      BY <1>0, <1>6, <2>3
    <3>2. QED
      BY <1>0, <2>3, <3>1
  <2>5. h[k - 1 + 1] = f[k - 1] + Drops(e, cause)
    BY <2>2, <2>4
  <2>6. k \in 1..Len(s) /\ k + 1 \in 1..Len(t) /\ k - 1 + 1 = k /\ k + 1 - 1 = k
        /\ k - 1 \in 0..Len(s)
    BY <1>0, <2>4
  <2>7. t[k + 1] = s[k] /\ s[k] \in CaptureGap
    BY <1>0, <2>4, <2>6 DEF IsInsertion
  <2>8. f[k] = f[k - 1] + Drops(s[k], cause) /\ h[k + 1] = h[k] + Drops(s[k], cause)
    BY <1>1, <1>2, <2>6, <2>7 DEF Counts, CountsAlong
  <2>9. f[k - 1] \in Nat /\ Drops(s[k], cause) \in Nat
    BY <1>3, <2>6, <2>7, DropsType
  <2>10. QED
    BY <1>5, <2>3, <2>5, <2>6, <2>8, <2>9
<1>8. Len(s) \in n - 1 .. Len(s) /\ Len(s) \in 0..Len(s)
  BY <1>0
<1>9. QED
  BY <1>0, <1>1, <1>2, <1>3, <1>7, <1>8 DEF Counts

DeclaredFor(gap, cause) == IF gap.cause = cause THEN Span(gap) ELSE {}

LEMMA InsertionDeclares ==
  ASSUME NEW s \in Seq(CaptureGap), NEW e \in CaptureGap, NEW n \in 1..Len(s) + 1,
         NEW t \in Seq(CaptureGap), IsInsertion(t, s, n, e), NEW cause
  PROVE  DeclaredOf(t, cause) = DeclaredOf(s, cause) \cup DeclaredFor(e, cause)
<1>1. /\ DOMAIN t = 1..Len(s) + 1 /\ DOMAIN s = 1..Len(s)
      /\ \A i \in 1..Len(s) : \E j \in 1..Len(s) + 1 : t[j] = s[i]
      /\ \A j \in 1..Len(s) + 1 : t[j] = e \/ \E i \in 1..Len(s) : t[j] = s[i]
      /\ t[n] = e /\ n \in 1..Len(s) + 1
  <2>1. t[n] = e
    BY DEF IsInsertion
  <2>2. DOMAIN s = 1..Len(s)
    OBVIOUS
  <2>3. QED
    BY <2>1, <2>2, InsertionMembers
<1>2. ASSUME NEW x \in DeclaredOf(t, cause)
      PROVE  x \in DeclaredOf(s, cause) \cup DeclaredFor(e, cause)
  <2>1. PICK j \in DOMAIN t : t[j].cause = cause /\ x \in Span(t[j])
    BY <1>2 DEF DeclaredOf
  <2>2. CASE t[j] = e
    BY <2>1, <2>2 DEF DeclaredFor
  <2>3. CASE \E i \in DOMAIN s : t[j] = s[i]
    BY <2>1, <2>3 DEF DeclaredOf
  <2>4. QED
    BY <1>1, <2>2, <2>3
<1>3. ASSUME NEW x \in DeclaredOf(s, cause)
      PROVE  x \in DeclaredOf(t, cause)
  <2>1. PICK i \in DOMAIN s : s[i].cause = cause /\ x \in Span(s[i])
    BY <1>3 DEF DeclaredOf
  <2>2. PICK j \in DOMAIN t : t[j] = s[i]
    BY <1>1
  <2>3. QED
    BY <2>1, <2>2 DEF DeclaredOf
<1>4. ASSUME NEW x \in DeclaredFor(e, cause)
      PROVE  x \in DeclaredOf(t, cause)
  <2>1. n \in DOMAIN t /\ t[n] = e /\ e.cause = cause /\ x \in Span(e)
    BY <1>1, <1>4 DEF DeclaredFor
  <2>2. QED
    BY <2>1 DEF DeclaredOf
<1>5. QED
  BY <1>2, <1>3, <1>4

(* Merging a gap into the last one adds the same drops and frames.         *)
LEMMA MergeCounts ==
  ASSUME NEW s \in Seq(CaptureGap), s # <<>>, NEW gap \in CaptureGap, NEW m \in CaptureGap,
         m.cause = s[Len(s)].cause, gap.cause = m.cause,
         m.dropped = s[Len(s)].dropped + gap.dropped,
         Span(m) = Span(s[Len(s)]) \cup Span(gap),
         NEW t \in Seq(CaptureGap), Len(t) = Len(s), t[Len(s)] = m,
         \A i \in 1 .. Len(s) - 1 : t[i] = s[i], NEW cause
  PROVE  /\ DroppedOf(t, cause) = DroppedOf(s, cause) + Drops(gap, cause)
         /\ DeclaredOf(t, cause) = DeclaredOf(s, cause) \cup DeclaredFor(gap, cause)
<1>0. /\ Len(s) \in Nat \ {0} /\ Len(s) - 1 \in Nat /\ Len(t) = Len(s)
      /\ \A i \in 1..Len(s) : s[i] \in CaptureGap
      /\ \A i \in 1 .. Len(s) - 1 : t[i] = s[i] /\ i \in 1..Len(s) /\ i \in 1..Len(t)
      /\ t[Len(s)] = m /\ Len(s) \in 1..Len(s)
      /\ DOMAIN s = 1..Len(s) /\ DOMAIN t = 1..Len(s)
  OBVIOUS
<1>1. DroppedOf(t, cause) = DroppedOf(s, cause) + Drops(gap, cause)
  <2>1. PICK f : Counts(f, s, cause)
    BY DroppedFacts
  <2>2. PICK h : Counts(h, t, cause)
    BY DroppedFacts
  <2>3. CountsAlong(f, s, cause, Len(s) - 1)
    BY <1>0, <2>1 DEF Counts, CountsAlong
  <2>4. CountsAlong(h, t, cause, Len(s) - 1)
    BY <1>0, <2>2 DEF Counts, CountsAlong
  <2>5. \A i \in 0 .. Len(s) - 1 : f[i] \in Nat /\ h[i] = f[i]
    <3>1. Len(s) - 1 \in Nat /\ \A i \in 1 .. Len(s) - 1 : t[i] = s[i]
      BY <1>0
    <3>2. QED
      BY <2>3, <2>4, <3>1, PrefixCounts, Zenon
  <2>6. Len(s) - 1 \in 0 .. Len(s) - 1
    BY <1>0
  <2>7. f[Len(s) - 1] \in Nat /\ h[Len(s) - 1] = f[Len(s) - 1]
    BY <2>5, <2>6
  <2>8. /\ f[Len(s)] = f[Len(s) - 1] + Drops(s[Len(s)], cause)
        /\ h[Len(s)] = f[Len(s) - 1] + Drops(m, cause)
    BY <1>0, <2>1, <2>2, <2>7 DEF Counts, CountsAlong
  <2>9. Drops(m, cause) = Drops(s[Len(s)], cause) + Drops(gap, cause)
    <3>1. gap.dropped \in Nat /\ s[Len(s)].dropped \in Nat
      BY <1>0 DEF CaptureGap
    <3>2. QED
      BY <3>1 DEF Drops
  <2>10. Drops(s[Len(s)], cause) \in Nat /\ Drops(gap, cause) \in Nat
    BY <1>0, DropsType
  <2>11. QED
    BY <1>0, <2>1, <2>2, <2>7, <2>8, <2>9, <2>10 DEF Counts
<1>2. DeclaredOf(t, cause) = DeclaredOf(s, cause) \cup DeclaredFor(gap, cause)
  <2>1. \A i \in DOMAIN t : i = Len(s) \/ (i \in DOMAIN s /\ t[i] = s[i])
    BY <1>0
  <2>2. \A i \in DOMAIN s : i = Len(s) \/ (i \in DOMAIN t /\ t[i] = s[i])
    BY <1>0
  <2>3. Len(s) \in DOMAIN s /\ Len(s) \in DOMAIN t
    BY <1>0
  <2>4. ASSUME NEW x \in DeclaredOf(t, cause)
        PROVE  x \in DeclaredOf(s, cause) \cup DeclaredFor(gap, cause)
    <3>1. PICK j \in DOMAIN t : t[j].cause = cause /\ x \in Span(t[j])
      BY <2>4 DEF DeclaredOf
    <3>2. CASE j = Len(s)
      <4>1. m.cause = cause /\ (x \in Span(s[Len(s)]) \/ x \in Span(gap))
        BY <1>0, <3>1, <3>2
      <4>2. x \in Span(s[Len(s)]) => x \in DeclaredOf(s, cause)
        BY <2>3, <4>1 DEF DeclaredOf
      <4>3. QED
        BY <4>1, <4>2 DEF DeclaredFor
    <3>3. CASE j # Len(s)
      BY <2>1, <3>1, <3>3 DEF DeclaredOf
    <3>4. QED
      BY <3>2, <3>3
  <2>5. ASSUME NEW x \in DeclaredOf(s, cause)
        PROVE  x \in DeclaredOf(t, cause)
    <3>1. PICK i \in DOMAIN s : s[i].cause = cause /\ x \in Span(s[i])
      BY <2>5 DEF DeclaredOf
    <3>2. CASE i = Len(s)
      <4>1. t[Len(s)].cause = cause /\ x \in Span(t[Len(s)])
        BY <1>0, <3>1, <3>2
      <4>2. QED
        BY <2>3, <4>1 DEF DeclaredOf
    <3>3. CASE i # Len(s)
      BY <2>2, <3>1, <3>3 DEF DeclaredOf
    <3>4. QED
      BY <3>2, <3>3
  <2>6. ASSUME NEW x \in DeclaredFor(gap, cause)
        PROVE  x \in DeclaredOf(t, cause)
    <3>1. t[Len(s)].cause = cause /\ x \in Span(t[Len(s)])
      BY <1>0, <2>6 DEF DeclaredFor
    <3>2. QED
      BY <2>3, <3>1 DEF DeclaredOf
  <2>7. QED
    BY <2>4, <2>5, <2>6
<1>3. QED
  BY <1>1, <1>2

-----------------------------------------------------------------------------
(* The order of the ledger: NotAfter is a total preorder, so the gaps that *)
(* are not after a new one are the first ones, and it goes right behind.   *)
LEMMA NotAfterFacts ==
  ASSUME NEW g \in CaptureGap, NEW h \in CaptureGap, NEW k \in CaptureGap
  PROVE  /\ NotAfter(g, h) \/ NotAfter(h, g)
         /\ NotAfter(g, h) /\ NotAfter(h, k) => NotAfter(g, k)
<1>1. /\ g.first \in Nat /\ g.last \in Nat /\ h.first \in Nat /\ h.last \in Nat
      /\ k.first \in Nat /\ k.last \in Nat
  BY RingAssumption DEF CaptureGap, Frames
<1>2. QED
  BY <1>1 DEF NotAfter

LEMMA InitialSegment ==
  ASSUME NEW n \in Nat, NEW B \in SUBSET (1..n), \A j \in B : \A i \in 1..j : i \in B
  PROVE  Cardinality(B) \in 0..n /\ B = 1..Cardinality(B)
<1>1. PICK k \in {i \in Nat : i + 1 \notin B} : \A i \in {i \in Nat : i + 1 \notin B} : k <= i
  <2>1. n \in Nat /\ n + 1 \notin B
    OBVIOUS
  <2>2. {i \in Nat : i + 1 \notin B} # {} /\ {i \in Nat : i + 1 \notin B} \subseteq Nat
    BY <2>1
  <2>3. QED
    BY <2>2, LeastNumber
<1>2. \A i \in 1..k : i \in B
  <2>1. ASSUME NEW i \in 1..k, i \notin B PROVE FALSE
    <3>1. i - 1 \in Nat /\ i - 1 + 1 = i /\ ~(k <= i - 1)
      OBVIOUS
    <3>2. QED
      BY <1>1, <2>1, <3>1
  <2>2. QED
    BY <2>1
<1>3. \A j \in B : j \in 1..k
  <2>1. ASSUME NEW j \in B, ~(j <= k) PROVE FALSE
    <3>1. k + 1 \in 1..j
      BY <2>1
    <3>2. QED
      BY <1>1, <3>1
  <2>2. QED
    BY <2>1
<1>4. B = 1..k
  BY <1>2, <1>3
<1>5. Cardinality(1..k) = k
  <2>1. 1 \in Int /\ k \in Int
    OBVIOUS
  <2>2. Cardinality(1..k) = IF 1 > k THEN 0 ELSE k - 1 + 1
    BY <2>1, FS_Interval
  <2>3. QED
    BY <2>2
<1>6. k <= n
  <2>1. CASE k = 0
    BY <2>1
  <2>2. CASE k # 0
    <3>1. k \in B
      BY <1>2, <2>2
    <3>2. QED
      BY <3>1
  <2>3. QED
    BY <2>1, <2>2
<1>7. QED
  BY <1>4, <1>5, <1>6

LEMMA InsertedSorted ==
  ASSUME NEW s \in Seq(CaptureGap), IsSorted(s, NotAfter), NEW e \in CaptureGap,
         NEW B \in SUBSET (1..Len(s)), \A i \in 1..Len(s) : i \in B <=> NotAfter(s[i], e),
         NEW n \in Int, n - 1 = Cardinality(B)
  PROVE  /\ n \in 1..Len(s) + 1
         /\ \A t \in Seq(CaptureGap) : IsInsertion(t, s, n, e) => IsSorted(t, NotAfter)
<1>0. /\ Len(s) \in Nat /\ DOMAIN s = 1..Len(s)
      /\ \A i \in 1..Len(s) : s[i] \in CaptureGap
      /\ \A i, j \in 1..Len(s) : i < j => NotAfter(s[i], s[j])
  BY DEF IsSorted
<1>2. \A j \in B : \A i \in 1..j : i \in B
  <2>1. ASSUME NEW j \in B, NEW i \in 1..j PROVE i \in B
    <3>1. j \in 1..Len(s) /\ i \in 1..Len(s) /\ NotAfter(s[j], e) /\ (i < j \/ i = j)
      BY <1>0
    <3>2. s[i] \in CaptureGap /\ s[j] \in CaptureGap
      BY <1>0, <3>1
    <3>3. NotAfter(s[i], e)
      BY <1>0, <3>1, <3>2, NotAfterFacts
    <3>4. QED
      BY <1>0, <3>1, <3>3
  <2>2. QED
    BY <2>1
<1>3. Cardinality(B) \in 0..Len(s) /\ B = 1..Cardinality(B)
  BY <1>0, <1>2, InitialSegment
<1>4. n \in Nat /\ 1 <= n /\ n <= Len(s) + 1 /\ B = 1 .. n - 1
  BY <1>0, <1>3
<1>5. \A i \in 1 .. n - 1 : i \in 1..Len(s) /\ NotAfter(s[i], e)
  BY <1>0, <1>4
<1>6. \A i \in n..Len(s) : i \in 1..Len(s) /\ NotAfter(e, s[i])
  <2>1. ASSUME NEW i \in n..Len(s) PROVE i \in 1..Len(s) /\ NotAfter(e, s[i])
    <3>1. i \in 1..Len(s) /\ i \notin B
      BY <1>0, <1>4
    <3>2. ~NotAfter(s[i], e) /\ s[i] \in CaptureGap
      BY <1>0, <3>1
    <3>3. QED
      BY <3>1, <3>2, NotAfterFacts
  <2>2. QED
    BY <2>1
<1>7. ASSUME NEW t \in Seq(CaptureGap), IsInsertion(t, s, n, e)
      PROVE  IsSorted(t, NotAfter)
  <2>0. /\ Len(t) = Len(s) + 1 /\ t[n] = e
        /\ \A i \in 1 .. n - 1 : t[i] = s[i]
        /\ \A i \in n..Len(s) : t[i + 1] = s[i]
    BY <1>7 DEF IsInsertion
  <2> SUFFICES ASSUME NEW i \in 1..Len(t), NEW j \in 1..Len(t), i < j
               PROVE  NotAfter(t[i], t[j])
    BY DEF IsSorted
  <2>1. CASE j < n
    <3>1. i \in 1 .. n - 1 /\ j \in 1 .. n - 1
      BY <1>0, <1>4, <2>0, <2>1
    <3>2. QED
      BY <1>0, <1>5, <2>0, <3>1
  <2>2. CASE j = n
    <3>1. i \in 1 .. n - 1
      BY <1>0, <1>4, <2>0, <2>2
    <3>2. QED
      BY <1>5, <2>0, <2>2, <3>1
  <2>3. CASE j > n
    <3>1. j - 1 \in n..Len(s) /\ j - 1 + 1 = j
      BY <1>0, <1>4, <2>0, <2>3
    <3>2. t[j] = s[j - 1]
      BY <2>0, <3>1
    <3>3. CASE i < n
      <4>1. i \in 1 .. n - 1 /\ i < j - 1
        BY <1>0, <1>4, <2>0, <3>3, <2>3
      <4>2. QED
        BY <1>0, <1>5, <1>6, <2>0, <3>1, <3>2, <4>1
    <3>4. CASE i = n
      BY <1>6, <2>0, <3>1, <3>2, <3>4
    <3>5. CASE i > n
      <4>1. i - 1 \in n..Len(s) /\ i - 1 + 1 = i /\ i - 1 < j - 1
        BY <1>0, <1>4, <2>0, <3>5
      <4>2. t[i] = s[i - 1]
        BY <2>0, <4>1
      <4>3. QED
        BY <1>0, <1>6, <3>1, <3>2, <4>1, <4>2
    <3>6. QED
      BY <1>0, <1>4, <2>0, <3>3, <3>4, <3>5
  <2>4. QED
    BY <1>0, <1>4, <2>0, <2>1, <2>2, <2>3
<1>8. QED
  BY <1>4, <1>7

\* What t declares for a cause is what s does, and the gap if it has that cause.
Grows(s, t, gap, cause) ==
  /\ DroppedOf(t, cause) = DroppedOf(s, cause) + Drops(gap, cause)
  /\ DeclaredOf(t, cause) = DeclaredOf(s, cause) \cup DeclaredFor(gap, cause)

(* Recording a gap keeps the coalesced ledger a sequence of gaps and       *)
(* declares the frames it declared before and those of the new gap; what   *)
(* it declares and counts for each cause grows by the new gap, in order.   *)
LEMMA CoalescedFacts ==
  ASSUME NEW ledger \in Seq(CaptureGap), NEW gap \in CaptureGap,
         gap.first <= gap.last, \A i \in DOMAIN ledger : ledger[i].first <= ledger[i].last
  PROVE  /\ Coalesced(ledger, gap) \in Seq(CaptureGap)
         /\ Declared(Coalesced(ledger, gap)) = Declared(ledger) \cup Span(gap)
         /\ \A i \in DOMAIN Coalesced(ledger, gap) :
              Coalesced(ledger, gap)[i].first <= Coalesced(ledger, gap)[i].last
         /\ IsSorted(ledger, NotAfter) => IsSorted(Coalesced(ledger, gap), NotAfter)
         /\ \A cause : Grows(ledger, Coalesced(ledger, gap), gap, cause)
<1> DEFINE t == Coalesced(ledger, gap)
<1>0. /\ Len(ledger) \in Nat /\ DOMAIN ledger = 1..Len(ledger)
      /\ gap.first \in Nat /\ gap.last \in Nat /\ gap.dropped \in Nat \ {0}
      /\ gap.first \in Frames /\ gap.last \in Frames
  BY RingAssumption DEF CaptureGap, Frames
<1>1. CASE ledger # <<>> /\ Touches(Last(ledger), gap)
  <2> DEFINE n == Len(ledger)
             p == ledger[n]
             m == Merged(p, gap)
  <2>1. n \in 1..n /\ p \in CaptureGap /\ Last(ledger) = p /\ p.first <= p.last
    BY <1>0, <1>1 DEF Last
  <2>2. /\ p.first \in Nat /\ p.last \in Nat /\ p.dropped \in Nat \ {0} /\ p.cause \in Causes
        /\ p.first \in Frames /\ p.last \in Frames
    BY <2>1, RingAssumption DEF CaptureGap, Frames
  <2>3. p.first <= gap.first /\ gap.first <= p.last + 1 /\ p.cause = gap.cause
    BY <1>1, <2>1 DEF Touches
  <2>4. /\ m.cause = p.cause /\ m.first = p.first /\ m.dropped = p.dropped + gap.dropped
        /\ m.last = IF gap.last > p.last THEN gap.last ELSE p.last
    <3>1. Max({p.last, gap.last}) = IF gap.last > p.last THEN gap.last ELSE p.last
      BY <1>0, <2>2 DEF Max
    <3>2. QED
      BY <3>1 DEF Merged
  <2>5. m \in CaptureGap /\ m.first <= m.last
    BY <1>0, <2>1, <2>2, <2>4 DEF CaptureGap, Merged
  <2>6. Span(m) = Span(p) \cup Span(gap)
    BY <1>0, <2>1, <2>2, <2>3, <2>4 DEF Span
  <2>7. t = [ledger EXCEPT ![n] = m]
    BY <1>1, <2>1 DEF Coalesced, ReplaceAt
  <2> HIDE DEF m, p, t, n
  <2>8. t \in Seq(CaptureGap) /\ DOMAIN t = DOMAIN ledger
    BY <1>0, <2>1, <2>5, <2>7 DEF n
  <2>9. /\ t[n] = m
        /\ \A i \in DOMAIN ledger : i # n => t[i] = ledger[i]
    BY <1>0, <2>1, <2>7 DEF n
  <2>10. Declared(t) = Declared(ledger) \cup Span(gap)
    <3>1. n \in DOMAIN ledger /\ p = ledger[n]
      BY <1>0, <2>1 DEF n, p
    <3>2. QED
      BY <2>6, <2>8, <2>9, <3>1 DEF Declared
  <2>11. \A i \in DOMAIN t : t[i].first <= t[i].last
    BY <2>5, <2>8, <2>9
  <2>12. Len(t) = Len(ledger) /\ n = Len(ledger)
    BY <2>8 DEF n
  <2>13. IsSorted(ledger, NotAfter) => IsSorted(t, NotAfter)
    <3> SUFFICES ASSUME IsSorted(ledger, NotAfter), NEW i \in 1..Len(t), NEW j \in 1..Len(t), i < j
                 PROVE  NotAfter(t[i], t[j])
      BY DEF IsSorted
    <3>1. /\ i \in DOMAIN ledger /\ j \in DOMAIN ledger /\ i # n
          /\ NotAfter(ledger[i], ledger[j]) /\ ledger[i] \in CaptureGap
      <4>1. i \in 1..Len(ledger) /\ j \in 1..Len(ledger)
        BY <2>12
      <4>2. i # Len(ledger) /\ i \in DOMAIN ledger /\ j \in DOMAIN ledger
        <5>1. \A k \in 1..Len(ledger) : k <= Len(ledger) /\ k \in DOMAIN ledger
          BY <1>0
        <5>2. i \in Int /\ j \in Int /\ i < j /\ j <= Len(ledger)
          BY <1>0, <4>1, <5>1
        <5>3. Len(ledger) \in Int
          BY <1>0
        <5>4. i # Len(ledger)
          <6>1. SUFFICES ASSUME i = Len(ledger) PROVE FALSE
            OBVIOUS
          <6>2. QED
            BY <5>2, <5>3, <6>1
        <5>5. QED
          BY <4>1, <5>1, <5>4
      <4>3. NotAfter(ledger[i], ledger[j])
        BY <4>1 DEF IsSorted
      <4>4. ledger[i] \in CaptureGap
        BY <4>1
      <4>5. QED
        BY <2>12, <4>2, <4>3, <4>4
    <3>2. t[i] = ledger[i]
      BY <2>9, <3>1
    <3>3. CASE j # n
      BY <2>9, <3>1, <3>2, <3>3
    <3>4. CASE j = n
      <4>1. NotAfter(ledger[i], p) /\ t[j] = m
        BY <2>9, <3>1, <3>4 DEF p
      <4>2. NotAfter(p, m)
        <5>1. m.first = p.first /\ p.last <= m.last
          <6>1. p.last \in Int /\ gap.last \in Int
            BY <1>0, <2>2
          <6>2. QED
            BY <2>4, <6>1
        <5>2. QED
          BY <5>1 DEF NotAfter
      <4>3. QED
        BY <2>1, <2>5, <3>1, <3>2, <4>1, <4>2, NotAfterFacts
    <3>5. QED
      BY <3>3, <3>4
  <2>14. ASSUME NEW cause PROVE Grows(ledger, t, gap, cause)
    <3>1. ledger # <<>> /\ p = ledger[Len(ledger)] /\ t[Len(ledger)] = m
      BY <1>1, <2>9, <2>12 DEF p
    <3>2. \A i \in 1 .. Len(ledger) - 1 : t[i] = ledger[i]
      BY <1>0, <2>9, <2>12
    <3>3. /\ m.cause = ledger[Len(ledger)].cause /\ gap.cause = m.cause
          /\ m.dropped = ledger[Len(ledger)].dropped + gap.dropped
          /\ Span(m) = Span(ledger[Len(ledger)]) \cup Span(gap)
      BY <2>3, <2>4, <2>6, <3>1
    <3>4. QED
      BY <2>5, <2>8, <2>12, <3>1, <3>2, <3>3, MergeCounts DEF Grows
  <2>15. QED
    BY <2>8, <2>10, <2>11, <2>13, <2>14 DEF t
<1>2. CASE ~(ledger # <<>> /\ Touches(Last(ledger), gap))
  <2> DEFINE n == Len(ledger)
             before == {i \in DOMAIN ledger : NotAfter(ledger[i], gap)}
             place == Cardinality(before) + 1
  <2>1. place \in 1..n + 1
    <3>1. IsFiniteSet(1..n) /\ Cardinality(1..n) = n
      <4>1. 1 \in Int /\ n \in Int
        BY <1>0
      <4>2. IsFiniteSet(1..n) /\ Cardinality(1..n) = IF 1 > n THEN 0 ELSE n - 1 + 1
        BY <4>1, FS_Interval
      <4>3. QED
        BY <1>0, <4>2
    <3>2. before \in SUBSET (1..n)
      BY <1>0
    <3>3. IsFiniteSet(before) /\ Cardinality(before) <= n
      BY <3>1, <3>2, FS_Subset
    <3>4. Cardinality(before) \in Nat
      BY <3>3, FS_CardinalityType
    <3>5. QED
      BY <1>0, <3>3, <3>4
  <2>2. t = InsertAt(ledger, place, gap)
    BY <1>2 DEF Coalesced, Inserted
  <2> HIDE DEF place, t
  <2>3. t \in Seq(CaptureGap) /\ IsInsertion(t, ledger, place, gap)
    BY <2>1, <2>2, InsertAtFacts
  <2>4. /\ DOMAIN t = 1..n + 1
        /\ \A i \in 1..n : \E j \in 1..n + 1 : t[j] = ledger[i]
        /\ \A j \in 1..n + 1 : t[j] = gap \/ \E i \in 1..n : t[j] = ledger[i]
        /\ t[place] = gap
    <3> HIDE DEF n
    <3>1. gap \in CaptureGap /\ place \in 1..Len(ledger) + 1
      BY <2>1 DEF n
    <3>2. /\ DOMAIN t = 1..Len(ledger) + 1
          /\ \A i \in 1..Len(ledger) : \E j \in 1..Len(ledger) + 1 : t[j] = ledger[i]
          /\ \A j \in 1..Len(ledger) + 1 :
               t[j] = gap \/ \E i \in 1..Len(ledger) : t[j] = ledger[i]
      BY <2>3, <3>1, InsertionMembers
    <3>3. t[place] = gap
      BY <2>3 DEF IsInsertion
    <3>4. QED
      BY <3>2, <3>3 DEF n
  <2>5. Declared(t) = Declared(ledger) \cup Span(gap)
    <3>1. Declared(t) \subseteq Declared(ledger) \cup Span(gap)
      BY <1>0, <2>3, <2>4 DEF Declared
    <3>2. Span(gap) \subseteq Declared(t)
      BY <2>1, <2>3, <2>4 DEF Declared
    <3>3. ASSUME NEW i \in DOMAIN ledger
          PROVE  Span(ledger[i]) \subseteq Declared(t)
      <4>1. PICK j \in DOMAIN t : t[j] = ledger[i]
        BY <1>0, <2>3, <2>4
      <4>2. QED
        BY <4>1 DEF Declared
    <3>4. QED
      BY <3>1, <3>2, <3>3 DEF Declared
  <2>6. \A j \in DOMAIN t : t[j].first <= t[j].last
    BY <1>0, <2>3, <2>4
  <2>7. IsSorted(ledger, NotAfter) => IsSorted(t, NotAfter)
    <3>1. /\ before \in SUBSET (1..Len(ledger))
          /\ \A i \in 1..Len(ledger) : i \in before <=> NotAfter(ledger[i], gap)
      BY <1>0
    <3>2. place \in Int /\ place - 1 = Cardinality(before)
      <4>1. place \in Int /\ place = Cardinality(before) + 1
        BY <2>1 DEF place
      <4>2. Cardinality(before) \in Nat
        <5>1. 1 \in Int /\ Len(ledger) \in Int
          BY <1>0
        <5>2. QED
          BY <3>1, <5>1, FS_Interval, FS_Subset, FS_CardinalityType
      <4>3. QED
        BY <4>1, <4>2
    <3> HIDE DEF before
    <3>3. QED
      BY <2>3, <3>1, <3>2, InsertedSorted
  <2>8. ASSUME NEW cause PROVE Grows(ledger, t, gap, cause)
    <3>1. place \in 1..Len(ledger) + 1 /\ IsInsertion(t, ledger, place, gap)
      BY <2>1, <2>3
    <3>2. DroppedOf(t, cause) = DroppedOf(ledger, cause) + Drops(gap, cause)
      BY <2>3, <3>1, InsertionDrops
    <3>3. DeclaredOf(t, cause) = DeclaredOf(ledger, cause) \cup DeclaredFor(gap, cause)
      BY <2>3, <3>1, InsertionDeclares
    <3>4. QED
      BY <3>2, <3>3 DEF Grows
  <2>9. QED
    BY <2>3, <2>5, <2>6, <2>7, <2>8 DEF t
<1>3. QED
  BY <1>1, <1>2

-----------------------------------------------------------------------------
(* The inductive invariant.  Offer() needs that identifiers increase to    *)
(* publish only new frames, and coalescing needs that no recorded interval *)
(* is empty.                                                               *)
IntervalsProper(ledger) == \A i \in DOMAIN ledger : ledger[i].first <= ledger[i].last
OfferedInOrder == \A frame \in offered : frame <= lastOffered
LedgersAgree == Declared(gaps) = Declared(gapEvents)
RetainedAboveAck == \A frame \in items : frame > ackedThrough

IndInv ==
  /\ TypeOK
  /\ NoSilentEviction
  /\ OfferedInOrder
  /\ RetainedAboveAck
  /\ IntervalsProper(gaps)
  /\ IntervalsProper(gapEvents)
  /\ LedgersAgree
  /\ CoalescedLedgerExact

LEMMA InitIndInv == Init => IndInv
<1> SUFFICES ASSUME Init PROVE IndInv
  OBVIOUS
<1>1. items = {} /\ Cardinality(items) = 0
  BY FS_EmptySet DEF Init
<1>2. TypeOK
  BY <1>1, RingAssumption DEF Init, TypeOK, Frames
<1>3. CoalescedLedgerExact
  BY DEF Init, CoalescedLedgerExact, IsSorted
<1>4. QED
  BY <1>2, <1>3 DEF Init, IndInv, NoSilentEviction, OfferedInOrder, RetainedAboveAck, IntervalsProper,
     LedgersAgree, Unacked, Declared

(* Recording one more gap keeps what IndInv says of the two ledgers and    *)
(* adds exactly the gap's frames and drops to both.                        *)
LEMMA CoalesceGapFacts ==
  ASSUME IndInv, NEW gap \in CaptureGap, gap.first <= gap.last, CoalesceGap(gap)
  PROVE  /\ gaps' \in Seq(CaptureGap) /\ gapEvents' \in Seq(CaptureGap)
         /\ IntervalsProper(gaps)' /\ IntervalsProper(gapEvents)'
         /\ Declared(gaps)' = Declared(gaps) \cup Span(gap)
         /\ Declared(gapEvents)' = Declared(gapEvents) \cup Span(gap)
         /\ CoalescedLedgerExact'
<1>0. /\ gaps \in Seq(CaptureGap) /\ gapEvents \in Seq(CaptureGap)
      /\ \A i \in DOMAIN gaps : gaps[i].first <= gaps[i].last
      /\ \A i \in DOMAIN gapEvents : gapEvents[i].first <= gapEvents[i].last
  BY DEF IndInv, TypeOK, IntervalsProper
<1>1. gaps' = Coalesced(gaps, gap) /\ gapEvents' = Append(gapEvents, gap)
  BY DEF CoalesceGap
<1>2. /\ gaps' \in Seq(CaptureGap)
      /\ Declared(gaps') = Declared(gaps) \cup Span(gap)
      /\ \A i \in DOMAIN gaps' : gaps'[i].first <= gaps'[i].last
  BY <1>0, <1>1, CoalescedFacts
<1>3. /\ gapEvents' \in Seq(CaptureGap)
      /\ DOMAIN gapEvents' = DOMAIN gapEvents \cup {Len(gapEvents) + 1}
      /\ gapEvents'[Len(gapEvents) + 1] = gap
      /\ \A i \in DOMAIN gapEvents : gapEvents'[i] = gapEvents[i]
  BY <1>0, <1>1
<1>4. Declared(gapEvents') = Declared(gapEvents) \cup Span(gap)
  BY <1>3 DEF Declared
<1>5. \A i \in DOMAIN gapEvents' : gapEvents'[i].first <= gapEvents'[i].last
  BY <1>0, <1>3
<1>6. CoalescedLedgerExact'
  <2>1. IsSorted(gaps', NotAfter)
    BY <1>0, <1>1, CoalescedFacts DEF IndInv, CoalescedLedgerExact
  <2>2. ASSUME NEW cause \in Causes
        PROVE  /\ DeclaredOf(gaps', cause) = DeclaredOf(gapEvents', cause)
               /\ DroppedOf(gaps', cause) = DroppedOf(gapEvents', cause)
    <3>1. Grows(gaps, gaps', gap, cause)
      BY <1>0, <1>1, CoalescedFacts
    <3>2. Grows(gapEvents, gapEvents', gap, cause)
      <4>1. /\ IsInsertion(gapEvents', gapEvents, Len(gapEvents) + 1, gap)
            /\ Len(gapEvents) + 1 \in 1..Len(gapEvents) + 1
        BY <1>0, <1>1, AppendInserts
      <4>2. QED
        BY <1>0, <1>3, <4>1, InsertionDrops, InsertionDeclares DEF Grows
    <3>3. /\ DeclaredOf(gaps, cause) = DeclaredOf(gapEvents, cause)
          /\ DroppedOf(gaps, cause) = DroppedOf(gapEvents, cause)
      BY DEF IndInv, CoalescedLedgerExact
    <3>4. QED
      BY <3>1, <3>2, <3>3 DEF Grows
  <2>3. QED
    BY <2>1, <2>2, Zenon DEF CoalescedLedgerExact
<1>7. QED
  BY <1>2, <1>3, <1>4, <1>5, <1>6 DEF IntervalsProper, Declared

(* Keeping some of the retained frames, or adding one where there is room, *)
(* respects the capacity.                                                  *)
LEMMA CapacityFacts ==
  ASSUME TypeOK
  PROVE  /\ IsFiniteSet(items)
         /\ \A n \in Nat : /\ Unacked(items, n) \in SUBSET Frames
                          /\ IsFiniteSet(Unacked(items, n))
                          /\ Cardinality(Unacked(items, n)) <= Capacity
         /\ \A kept \in SUBSET Frames : \A frame \in Frames :
              IsFiniteSet(kept) /\ HasRoom(kept) =>
                Cardinality(kept \cup {frame}) <= Capacity
<1>0. items \in SUBSET (1..MaxFrame) /\ MaxFrame \in Nat /\ Capacity \in Nat
      /\ Cardinality(items) <= Capacity
  BY RingAssumption DEF TypeOK, Frames
<1>1. IsFiniteSet(1..MaxFrame)
  <2>1. 1 \in Int /\ MaxFrame \in Int
    BY <1>0
  <2>2. QED
    BY <2>1, FS_Interval
<1>2. IsFiniteSet(items) /\ Cardinality(items) \in Nat
  BY <1>0, <1>1, FS_Subset, FS_CardinalityType
<1>3. ASSUME NEW n \in Nat
      PROVE  /\ Unacked(items, n) \in SUBSET Frames
             /\ IsFiniteSet(Unacked(items, n))
             /\ Cardinality(Unacked(items, n)) <= Capacity
  <2>1. Unacked(items, n) \in SUBSET items
    BY DEF Unacked
  <2>2. IsFiniteSet(Unacked(items, n)) /\ Cardinality(Unacked(items, n)) <= Cardinality(items)
    BY <1>2, <2>1, FS_Subset
  <2>3. Cardinality(Unacked(items, n)) \in Nat
    BY <2>2, FS_CardinalityType
  <2>4. Cardinality(Unacked(items, n)) <= Capacity
    BY <1>0, <1>2, <2>2, <2>3
  <2>5. Unacked(items, n) \in SUBSET Frames
    BY <1>0, <2>1 DEF Frames
  <2>6. QED
    BY <2>2, <2>4, <2>5
<1>4. ASSUME NEW kept \in SUBSET Frames, NEW frame \in Frames,
             IsFiniteSet(kept), HasRoom(kept)
      PROVE  Cardinality(kept \cup {frame}) <= Capacity
  <2>1. Cardinality(kept) \in Nat
    BY <1>4, FS_CardinalityType
  <2>2. Cardinality(kept \cup {frame}) =
          IF frame \in kept THEN Cardinality(kept) ELSE Cardinality(kept) + 1
    BY <1>4, FS_AddElement
  <2>3. QED
    BY <1>0, <1>4, <2>1, <2>2 DEF HasRoom
<1>5. QED
  BY <1>2, <1>3, <1>4

-----------------------------------------------------------------------------
(* A frame identifier the environment may pass is positive and bounded.    *)
LEMMA FrameFacts ==
  /\ Frames \subseteq Nat \ {0}
  /\ Frames \cup {0} = 0..MaxFrame
  /\ \A frame \in Frames : OverflowGap(frame) \in CaptureGap
BY RingAssumption DEF Frames, OverflowGap, CaptureGap

LEMMA RecordGapPreserves ==
  ASSUME IndInv, NEW gap \in CaptureGap, gap.first <= gap.last, RecordGap(gap)
  PROVE  IndInv'
<1>1. /\ gaps' \in Seq(CaptureGap) /\ gapEvents' \in Seq(CaptureGap)
      /\ IntervalsProper(gaps)' /\ IntervalsProper(gapEvents)'
      /\ Declared(gaps)' = Declared(gaps) \cup Span(gap)
      /\ Declared(gapEvents)' = Declared(gapEvents) \cup Span(gap)
      /\ CoalescedLedgerExact'
  BY CoalesceGapFacts DEF RecordGap
<1>2. UNCHANGED <<items, ackedThrough, lastOffered, offered>>
  BY DEF RecordGap
<1>3. TypeOK'
  BY <1>1, <1>2 DEF IndInv, TypeOK
<1>4. NoSilentEviction'
  BY <1>1, <1>2 DEF IndInv, NoSilentEviction, Unacked
<1>5. QED
  BY <1>1, <1>2, <1>3, <1>4 DEF IndInv, OfferedInOrder, RetainedAboveAck, LedgersAgree

LEMMA OfferPreserves ==
  ASSUME IndInv, NEW frame \in Frames, Offer(frame)
  PROVE  IndInv'
<1> DEFINE kept == IF HasRoom(items) THEN items ELSE Unacked(items, ackedThrough)
<1>0. /\ frame \in Nat /\ lastOffered \in Nat /\ ackedThrough \in Nat
      /\ frame > lastOffered /\ lastOffered' = frame
      /\ offered' = offered \cup {frame} /\ ackedThrough' = ackedThrough
      /\ offered \in SUBSET Frames /\ Frames \subseteq 0..MaxFrame
  BY FrameFacts DEF IndInv, TypeOK, Offer
<1>1. /\ kept \in SUBSET Frames /\ IsFiniteSet(kept) /\ Cardinality(kept) <= Capacity
      /\ \A f \in items : f > ackedThrough => f \in kept
      /\ \A f \in kept : f > ackedThrough
  <2>1. CASE HasRoom(items)
    BY <2>1, CapacityFacts DEF IndInv, TypeOK, RetainedAboveAck
  <2>2. CASE ~HasRoom(items)
    BY <1>0, <2>2, CapacityFacts DEF IndInv, Unacked
  <2>3. QED
    BY <2>1, <2>2
<1>2. OfferedInOrder'
  <2>1. \A f \in offered : f \in Nat /\ f <= lastOffered
    BY <1>0, FrameFacts DEF IndInv, OfferedInOrder
  <2>2. QED
    BY <1>0, <2>1 DEF OfferedInOrder
<1> HIDE DEF kept
<1>3. CASE frame <= ackedThrough /\ UNCHANGED <<items, gaps, gapEvents>>
  <2>1. TypeOK'
    BY <1>0, <1>3 DEF IndInv, TypeOK
  <2>2. NoSilentEviction'
    BY <1>0, <1>3 DEF IndInv, NoSilentEviction, Unacked
  <2>3. QED
    BY <1>0, <1>2, <1>3, <2>1, <2>2 DEF IndInv, RetainedAboveAck, LedgersAgree, IntervalsProper,
       CoalescedLedgerExact
<1>4. CASE frame > ackedThrough /\ HasRoom(kept) /\ items' = kept \cup {frame} /\ UNCHANGED <<gaps, gapEvents>>
  <2>1. Cardinality(items') <= Capacity
    BY <1>1, <1>4, CapacityFacts DEF IndInv
  <2>2. TypeOK'
    BY <1>0, <1>1, <1>4, <2>1 DEF IndInv, TypeOK
  <2>3. NoSilentEviction'
    BY <1>0, <1>1, <1>4 DEF IndInv, NoSilentEviction, Unacked
  <2>4. QED
    BY <1>0, <1>1, <1>2, <1>4, <2>2, <2>3 DEF IndInv, RetainedAboveAck, LedgersAgree, IntervalsProper,
       CoalescedLedgerExact
<1>5. CASE items' = kept /\ CoalesceGap(OverflowGap(frame))
  <2>1. /\ OverflowGap(frame) \in CaptureGap
        /\ OverflowGap(frame).first <= OverflowGap(frame).last
        /\ frame \in Span(OverflowGap(frame))
    BY <1>0, FrameFacts DEF OverflowGap, Span
  <2>2. /\ gaps' \in Seq(CaptureGap) /\ gapEvents' \in Seq(CaptureGap)
        /\ IntervalsProper(gaps)' /\ IntervalsProper(gapEvents)'
        /\ Declared(gaps)' = Declared(gaps) \cup Span(OverflowGap(frame))
        /\ Declared(gapEvents)' = Declared(gapEvents) \cup Span(OverflowGap(frame))
        /\ CoalescedLedgerExact'
    BY <1>5, <2>1, CoalesceGapFacts
  <2>3. TypeOK'
    BY <1>0, <1>1, <1>5, <2>2 DEF IndInv, TypeOK
  <2>4. NoSilentEviction'
    BY <1>0, <1>1, <1>5, <2>1, <2>2 DEF IndInv, NoSilentEviction, Unacked
  <2>5. QED
    BY <1>0, <1>1, <1>2, <1>5, <2>2, <2>3, <2>4 DEF IndInv, RetainedAboveAck, LedgersAgree
<1>6. QED
  BY <1>3, <1>4, <1>5 DEF Offer, kept

LEMMA AcknowledgePreserves ==
  ASSUME IndInv, NEW through \in 0..MaxFrame, Acknowledge(through)
  PROVE  IndInv'
<1>1. /\ through \in Nat /\ ackedThrough \in Nat /\ through >= ackedThrough
      /\ ackedThrough' = through /\ items' = Unacked(items, through)
      /\ UNCHANGED <<gaps, gapEvents, lastOffered, offered>>
      /\ items \in SUBSET Nat /\ offered \in SUBSET Nat
  BY FrameFacts DEF IndInv, TypeOK, Acknowledge
<1>2. TypeOK'
  BY <1>1, CapacityFacts DEF IndInv, TypeOK
<1>3. NoSilentEviction'
  BY <1>1 DEF IndInv, NoSilentEviction, Unacked
<1>4. QED
  BY <1>1, <1>2, <1>3 DEF IndInv, OfferedInOrder, Unacked, RetainedAboveAck, LedgersAgree,
     IntervalsProper, CoalescedLedgerExact

LEMMA NextPreserves == IndInv /\ [Next]_vars => IndInv'
<1> SUFFICES ASSUME IndInv, [Next]_vars PROVE IndInv'
  OBVIOUS
<1>1. ASSUME NEW frame \in Frames, Offer(frame) PROVE IndInv'
  BY <1>1, OfferPreserves
<1>2. ASSUME NEW cause \in Causes \ {Overflow}, NEW first \in Frames,
             NEW last \in first..MaxFrame,
             RecordGap([cause |-> cause, first |-> first, last |-> last, dropped |-> 1])
      PROVE  IndInv'
  <2> DEFINE gap == [cause |-> cause, first |-> first, last |-> last, dropped |-> 1]
  <2>1. gap \in CaptureGap /\ gap.first <= gap.last
    BY RingAssumption DEF CaptureGap, Frames
  <2> HIDE DEF gap
  <2>2. RecordGap(gap)
    BY <1>2 DEF gap
  <2>3. QED
    BY <2>1, <2>2, RecordGapPreserves
<1>3. ASSUME NEW through \in 0..MaxFrame, Acknowledge(through) PROVE IndInv'
  BY <1>3, AcknowledgePreserves
<1>4. ASSUME NEW through \in 0..MaxFrame, NEW revision \in 0..MaxGaps,
             AcknowledgeConsumerBatch(through, revision)
      PROVE  IndInv'
  BY <1>4, AcknowledgePreserves DEF AcknowledgeConsumerBatch
<1>5. CASE UNCHANGED vars
  BY <1>5 DEF vars, IndInv, TypeOK, NoSilentEviction, OfferedInOrder, RetainedAboveAck,
     IntervalsProper, LedgersAgree, Unacked, Declared, CoalescedLedgerExact
<1>6. QED
  BY <1>1, <1>2, <1>3, <1>4, <1>5 DEF Next

(* IndInv holds in every reachable state of the ring.                      *)
THEOREM IndInvHolds == Spec => []IndInv
BY InitIndInv, NextPreserves, PTL DEF Spec

(* Types are respected and the deque never holds more keyframes than its   *)
(* capacity, whatever capacity it was built with.                          *)
THEOREM RingTypeOK == Spec => []TypeOK
<1>1. IndInv => TypeOK
  BY DEF IndInv
<1>2. QED
  BY <1>1, IndInvHolds, PTL

(* For every capacity and every order of offers, losses and                *)
(* acknowledgements, no unacknowledged keyframe is silently evicted.       *)
THEOREM RingNoSilentEviction == Spec => []NoSilentEviction
<1>1. IndInv => NoSilentEviction
  BY DEF IndInv
<1>2. QED
  BY <1>1, IndInvHolds, PTL

(* However gaps arrive, the coalesced ledger stays sorted and declares, of *)
(* every cause, the frames and the drops of the raw events, no more and no *)
(* less.                                                                   *)
THEOREM RingLedgerExact == Spec => []CoalescedLedgerExact
<1>1. IndInv => CoalescedLedgerExact
  BY DEF IndInv
<1>2. QED
  BY <1>1, IndInvHolds, PTL

-----------------------------------------------------------------------------
(* Every step of the ring is a step of FrameLedger or leaves its variables *)
(* unchanged.                                                              *)
LEMMA StepRefines == IndInv /\ [Next]_vars => [Ledger!Next]_(Ledger!vars)
<1> SUFFICES ASSUME IndInv, [Next]_vars PROVE [Ledger!Next]_(Ledger!vars)
  OBVIOUS
<1> USE DEF Ledger!Next, Ledger!vars
<1>0. /\ offered \in SUBSET Frames /\ ackedThrough \in 0..MaxFrame
      /\ lastOffered \in Nat /\ ackedThrough \in Nat
      /\ items \in SUBSET Frames /\ Frames \subseteq Nat
      /\ {0} \cup Frames = 0..MaxFrame
      /\ \A f \in offered : f \in Nat /\ f <= lastOffered
  BY FrameFacts DEF IndInv, TypeOK, OfferedInOrder
<1>1. ASSUME NEW frame \in Frames, Offer(frame) PROVE [Ledger!Next]_(Ledger!vars)
  <2> DEFINE kept == IF HasRoom(items) THEN items ELSE Unacked(items, ackedThrough)
  <2>1. Ledger!IsNew(frame) /\ offered' = offered \cup {frame} /\ ackedThrough' = ackedThrough
    BY <1>0, <1>1 DEF Offer, Ledger!IsNew
  <2>2. kept = items
    <3>1. \A f \in items : f > ackedThrough
      BY <1>0 DEF IndInv, RetainedAboveAck
    <3>2. QED
      BY <1>0, <3>1 DEF Unacked
  <2> HIDE DEF kept
  <2>3. CASE frame <= ackedThrough /\ UNCHANGED <<items, gaps, gapEvents>>
    <3>1. Ledger!PublishLate(frame)
      BY <2>1, <2>3 DEF Ledger!PublishLate, Declared
    <3>2. QED
      BY <3>1
  <2>4. CASE frame > ackedThrough /\ items' = kept \cup {frame} /\ UNCHANGED <<gaps, gapEvents>>
    <3>1. Ledger!Retain(frame)
      BY <2>1, <2>2, <2>4 DEF Ledger!Retain, Declared
    <3>2. QED
      BY <3>1
  <2>5. CASE items' = kept /\ CoalesceGap(OverflowGap(frame))
    <3>1. /\ OverflowGap(frame) \in CaptureGap
          /\ OverflowGap(frame).first <= OverflowGap(frame).last
          /\ Span(OverflowGap(frame)) = {frame}
      BY <1>0, FrameFacts DEF OverflowGap, Span
    <3>2. Declared(gaps)' = Declared(gaps) \cup {frame}
      BY <2>5, <3>1, CoalesceGapFacts
    <3>3. Ledger!Refuse(frame)
      BY <2>1, <2>2, <2>5, <3>2 DEF Ledger!Refuse, Declared
    <3>4. QED
      BY <3>3
  <2>6. QED
    BY <1>1, <2>3, <2>4, <2>5 DEF Offer, kept
<1>2. ASSUME NEW cause \in Causes \ {Overflow}, NEW first \in Frames,
             NEW last \in first..MaxFrame,
             RecordGap([cause |-> cause, first |-> first, last |-> last, dropped |-> 1])
      PROVE  [Ledger!Next]_(Ledger!vars)
  <2> DEFINE gap == [cause |-> cause, first |-> first, last |-> last, dropped |-> 1]
  <2>1. /\ gap \in CaptureGap /\ gap.first <= gap.last /\ Span(gap) = first..last
        /\ last \in Frames
    BY RingAssumption DEF CaptureGap, Frames, Span
  <2> HIDE DEF gap
  <2>2. CoalesceGap(gap) /\ UNCHANGED <<items, ackedThrough, lastOffered, offered>>
    BY <1>2 DEF gap, RecordGap
  <2>3. Declared(gaps)' = Declared(gaps) \cup first..last
    BY <2>1, <2>2, CoalesceGapFacts
  <2>4. Ledger!Declare(first, last)
    BY <2>2, <2>3 DEF Ledger!Declare
  <2>5. QED
    BY <2>1, <2>4
<1>3. ASSUME NEW through \in 0..MaxFrame, Acknowledge(through)
      PROVE  [Ledger!Next]_(Ledger!vars)
  <2>1. Ledger!Release(through)
    BY <1>3 DEF Acknowledge, Unacked, Declared, Ledger!Release
  <2>2. QED
    BY <1>0, <2>1
<1>4. ASSUME NEW through \in 0..MaxFrame, NEW revision \in 0..MaxGaps,
             AcknowledgeConsumerBatch(through, revision)
      PROVE  [Ledger!Next]_(Ledger!vars)
  BY <1>3, <1>4 DEF AcknowledgeConsumerBatch
<1>5. CASE UNCHANGED vars
  BY <1>5 DEF vars, Declared
<1>6. QED
  BY <1>1, <1>2, <1>3, <1>4, <1>5 DEF Next

(* The ring implements FrameLedger: with the lost frames read from the     *)
(* coalesced gaps, a reader cannot tell the ring from a ledger in which    *)
(* each published frame is retained, declared lost or already settled.     *)
THEOREM RingImplementsFrameLedger == Spec => ImplementsFrameLedger
<1>1. Init => Ledger!Init
  BY DEF Init, Ledger!Init, Declared
<1>2. IndInv /\ [Next]_vars => [Ledger!Next]_(Ledger!vars)
  BY StepRefines
<1>3. QED
  BY <1>1, <1>2, IndInvHolds, PTL DEF Spec, ImplementsFrameLedger, Ledger!Spec

(* What FrameLedger promises of every published frame holds of the ring    *)
(* and of the coalesced gaps it shows.                                     *)
THEOREM RingEveryFrameAccounted == Spec => []Ledger!EveryFrameAccounted
<1>1. IndInv => Ledger!EveryFrameAccounted
  <2> SUFFICES ASSUME IndInv, NEW f \in offered, f > ackedThrough
               PROVE  f \in items \/ f \in Declared(gaps)
    BY FrameFacts DEF Ledger!EveryFrameAccounted, IndInv, TypeOK
  <2>1. f \in Unacked(offered, ackedThrough)
    BY DEF Unacked
  <2>2. QED
    BY <2>1 DEF IndInv, NoSilentEviction, LedgersAgree
<1>2. QED
  BY <1>1, IndInvHolds, PTL

-----------------------------------------------------------------------------
(* The coordinator and the decoder in the same specification.              *)
Proved == INSTANCE PublicHistoryCoordinatorProofs

(* Every behaviour of the parts shows a behaviour of the coordinator: the  *)
(* two instances of the module define the same operators.                  *)
LEMMA PartsAreCoordinator == PartsSpec => Proved!Spec
<1>1. Coord!Init <=> Proved!Init
  BY Zenon DEF Coord!Init, Proved!Init, Coord!NewCoordinator, Proved!NewCoordinator,
     Coord!NewRecorder, Proved!NewRecorder, Coord!NoHistory, Proved!NoHistory, Coord!NoFrame,
     Proved!NoFrame, Coord!NoBundle, Proved!NoBundle, Coord!Waiting, Proved!Waiting
<1>2. Coord!Next <=> Proved!Next
  BY Zenon DEF Coord!Next, Proved!Next, Coord!SubmitCandidate,
     Proved!SubmitCandidate, Coord!AdvanceDecoderWatermark,
     Proved!AdvanceDecoderWatermark, Coord!InvalidateGap, Proved!InvalidateGap,
     Coord!Frames, Proved!Frames, Coord!HandIds, Proved!HandIds,
     Coord!Snapshots, Proved!Snapshots, Coord!NoHistory, Proved!NoHistory,
     Coord!NoFrame, Proved!NoFrame, Coord!NewRecorder, Proved!NewRecorder,
     Coord!NoBundle, Proved!NoBundle, Coord!Waiting, Proved!Waiting,
     Coord!Tracking, Proved!Tracking, Coord!Gapped, Proved!Gapped,
     Coord!ReplacesHand, Proved!ReplacesHand, Coord!ProbeAccepted,
     Proved!ProbeAccepted, Coord!ProbeHistory, Proved!ProbeHistory,
     Coord!Commit, Proved!Commit, Coord!Blocked, Proved!Blocked, Coord!Without,
     Proved!Without, Coord!ReplaceWithWaitingRecorder,
     Proved!ReplaceWithWaitingRecorder, Coord!Accept, Proved!Accept,
     Coord!Result, Proved!Result, Coord!AcceptedResult, Proved!AcceptedResult,
     Coord!RejectedResult, Proved!RejectedResult, Coord!IgnoredResult,
     Proved!IgnoredResult, Coord!ProcessWaiting, Proved!ProcessWaiting,
     Coord!ProcessTracking, Proved!ProcessTracking, Coord!ProcessGapped,
     Proved!ProcessGapped, Coord!ProcessCandidate, Proved!ProcessCandidate,
     Coord!ConsumeCandidate, Proved!ConsumeCandidate, Coord!Rejection,
     Proved!Rejection, Coord!Sighting, Proved!Sighting, Coord!AfterKnownLoss,
     Proved!AfterKnownLoss, Coord!Consumed, Proved!Consumed, Coord!Advanced,
     Proved!Advanced, Coord!CanSubmit, Proved!CanSubmit, Coord!Submitted,
     Proved!Submitted, Coord!Invalidated, Proved!Invalidated
<1>3. PartsInit => Proved!Init
  BY <1>1 DEF PartsInit
<1>4. [PartsNext]_<<vars, coord, decoderVars, part>> => [Proved!Next]_coord
  BY <1>2 DEF PartsNext
<1>5. QED
  BY <1>3, <1>4, PTL DEF PartsSpec, Proved!Spec

LEMMA HandsAreDistinct == Proved!CoordinatorAssumption
BY PartsAssumption DEF Coord!CoordinatorAssumption, Proved!CoordinatorAssumption

(* No order of candidates, watermarks and losses brings a hand back to     *)
(* latest_accepted_frame() after its transcript was cut off.               *)
THEOREM PartsClosedHands == PartsSpec => []ClosedHandNeverExposed
<1>1. Proved!ClosedHandNeverExposed => ClosedHandNeverExposed
  BY Zenon DEF ClosedHandNeverExposed, Coord!ClosedHandNeverExposed,
     Proved!ClosedHandNeverExposed, Coord!Complete, Proved!Complete,
     Coord!AcceptedIsCurrent, Proved!AcceptedIsCurrent, Coord!LatestAccepted,
     Proved!LatestAccepted, Coord!NoHistory, Proved!NoHistory, Coord!NoFrame,
     Proved!NoFrame, Coord!NoBundle, Proved!NoBundle, Coord!Tracking,
     Proved!Tracking
<1>2. QED
  BY <1>1, PartsAreCoordinator, HandsAreDistinct, Proved!CoordinatorClosedHands, PTL

(* What latest_accepted_frame() and readiness() give a reader is the       *)
(* newest decision, and they agree on it.                                  *)
THEOREM PartsNewestDecision == PartsSpec => []ExposedIsNewestDecision
<1>1. Proved!ExposedIsNewestDecision => ExposedIsNewestDecision
  BY Zenon DEF ExposedIsNewestDecision, Coord!ExposedIsNewestDecision,
     Proved!ExposedIsNewestDecision, Coord!IsReady, Proved!IsReady,
     Coord!Frames, Proved!Frames, Coord!Complete, Proved!Complete,
     Coord!AcceptedIsCurrent, Proved!AcceptedIsCurrent, Coord!LatestAccepted,
     Proved!LatestAccepted, Coord!NoHistory, Proved!NoHistory, Coord!NoFrame,
     Proved!NoFrame, Coord!NoBundle, Proved!NoBundle, Coord!Tracking,
     Proved!Tracking
<1>2. QED
  BY <1>1, PartsAreCoordinator, HandsAreDistinct, Proved!CoordinatorNewestDecision, PTL

(* A loss is overcome only by a hand that nothing at or before it showed.  *)
THEOREM PartsRecovery == PartsSpec => []RecoveryIsFresh
<1>1. Proved!RecoveryIsFresh => RecoveryIsFresh
  BY Zenon DEF RecoveryIsFresh, Coord!RecoveryIsFresh, Proved!RecoveryIsFresh,
     Coord!RecoversOnlyIf, Proved!RecoversOnlyIf, Coord!Snapshots,
     Proved!Snapshots, Coord!HandIds, Proved!HandIds, Coord!ProcessGapped,
     Proved!ProcessGapped, Coord!Accept, Proved!Accept, Coord!Commit,
     Proved!Commit, Coord!ProbeHistory, Proved!ProbeHistory, Coord!ReplacesHand,
     Proved!ReplacesHand, Coord!ProbeAccepted, Proved!ProbeAccepted,
     Coord!NewRecorder, Proved!NewRecorder, Coord!NoHistory, Proved!NoHistory,
     Coord!NoFrame, Proved!NoFrame, Coord!Gapped, Proved!Gapped, Coord!Tracking,
     Proved!Tracking, Coord!Blocked, Proved!Blocked, Coord!Without,
     Proved!Without, Coord!Result, Proved!Result, Coord!AcceptedResult,
     Proved!AcceptedResult, Coord!RejectedResult, Proved!RejectedResult,
     Coord!IgnoredResult, Proved!IgnoredResult
<1>2. QED
  BY <1>1, PartsAreCoordinator, HandsAreDistinct, Proved!CoordinatorRecovery, PTL

-----------------------------------------------------------------------------
(* The table decoder.  The evidence it compares with is of a hand already  *)
(* played, which had another dealer than the next one; and once a frame    *)
(* was decoded after that evidence without replacing it, its identifier    *)
(* is cut off.                                                             *)

Plays == [hand : Nat \ {0}, dealer : DealerSeats, street : Nat, live : Nat, untouched : BOOLEAN]

PreviousOK ==
  \/ previous = Decoder!Nothing
  \/ /\ previous.hand \in 1..play.hand
     /\ previous.cards \in {Decoder!NoCards, previous.hand}
     /\ previous.hand = play.hand => previous.dealer = play.dealer
     /\ previous.hand + 1 = play.hand => previous.dealer # play.dealer
     /\ \A hand \in decoded : hand > previous.hand => ordinal \in gapped

ResultOK ==
  result.kind = "observation" =>
    /\ result.hand \in 1..play.hand
    /\ result.after \in Nat
    /\ Decoder!IdentityIsOfOneHand

DecoderInv == play \in Plays /\ decoded \subseteq 1..play.hand /\ PreviousOK /\ ResultOK

LEMMA DecoderInit == Decoder!Init => DecoderInv
BY PartsAssumption DEF Decoder!Init, DecoderInv, Plays, PreviousOK, ResultOK, Decoder!Untouched,
   Decoder!DecoderAssumption

(* The table plays on, and the evidence grows older.                       *)
LEMMA PlayPreserves ==
  ASSUME DecoderInv, Decoder!Act \/ Decoder!DealStreet \/ Decoder!DealHand PROVE DecoderInv'
<1> USE DEF DecoderInv
<1>1. UNCHANGED <<previous, ordinal, result, decoded, gapped>>
  BY DEF Decoder!Act, Decoder!DealStreet, Decoder!DealHand
<1>2. CASE Decoder!Act \/ Decoder!DealStreet
  <2>1. play' \in Plays /\ play'.hand = play.hand /\ play'.dealer = play.dealer
    <3>1. CASE Decoder!Act
      <4>1. PICK live \in {play.live, play.live - 1} :
              play' = [play EXCEPT !.untouched = FALSE, !.live = live]
        BY <3>1 DEF Decoder!Act
      <4>2. live \in Nat
        BY <3>1, <4>1 DEF Decoder!Act, Plays
      <4>3. QED
        BY <4>1, <4>2 DEF Plays
    <3>2. CASE Decoder!DealStreet
      BY <3>2 DEF Decoder!DealStreet, Plays
    <3>3. QED
      BY <1>2, <3>1, <3>2
  <2>2. QED
    BY <1>1, <2>1 DEF PreviousOK, ResultOK, Decoder!IdentityIsOfOneHand
<1>3. CASE Decoder!DealHand
  <2>1. play' \in Plays /\ play'.hand = play.hand + 1 /\ play'.dealer # play.dealer
    BY <1>3, PartsAssumption DEF Decoder!DealHand, Decoder!Untouched, Plays, Decoder!DecoderAssumption
  <2>2. play.hand \in Nat \ {0}
    BY DEF Plays
  <2>3. decoded \subseteq 1..play.hand + 1
    BY <2>2
  <2>4. PreviousOK'
    <3>1. CASE previous = Decoder!Nothing
      BY <1>1, <3>1 DEF PreviousOK
    <3>2. CASE previous # Decoder!Nothing
      <4>1. /\ previous.hand \in 1..play.hand /\ previous.cards \in {Decoder!NoCards, previous.hand}
            /\ previous.hand = play.hand => previous.dealer = play.dealer
            /\ \A hand \in decoded : hand > previous.hand => ordinal \in gapped
        BY <3>2 DEF PreviousOK
      <4>2. /\ previous.hand \in 1..play.hand + 1 /\ previous.hand # play.hand + 1
            /\ previous.hand + 1 = play.hand + 1 => previous.dealer # play'.dealer
        <5>1. previous.hand + 1 = play.hand + 1 => previous.hand = play.hand
          BY <2>2, <4>1
        <5>2. QED
          BY <2>1, <2>2, <4>1, <5>1
      <4>3. QED
        BY <1>1, <2>1, <4>1, <4>2 DEF PreviousOK
    <3>3. QED
      BY <3>1, <3>2
  <2>5. ResultOK'
    BY <1>1, <2>1, <2>2 DEF ResultOK, Decoder!IdentityIsOfOneHand
  <2>6. QED
    BY <1>1, <2>1, <2>3, <2>4, <2>5
<1>4. QED
  BY <1>2, <1>3

(* A gap leaves the evidence and cuts its identifier off.                  *)
LEMMA GapPreserves ==
  ASSUME DecoderInv, Decoder!Transient \/ Decoder!Gap PROVE DecoderInv'
<1> USE DEF DecoderInv
<1>1. play.hand \in Nat \ {0}
  BY DEF Plays
<1>2. CASE Decoder!Transient
  BY <1>2 DEF Decoder!Transient, PreviousOK, ResultOK
<1>3. CASE Decoder!Gap
  <2>1. /\ result'.kind = "gap" /\ decoded' = decoded \cup {play.hand}
        /\ gapped' = gapped \cup {ordinal} /\ UNCHANGED <<play, previous, ordinal>>
    BY <1>3 DEF Decoder!Gap
  <2>2. decoded' \subseteq 1..play.hand
    <3>1. play.hand \in 1..play.hand
      BY <1>1
    <3>2. QED
      BY <2>1, <3>1, Zenon
  <2>3. PreviousOK'
    BY <2>1 DEF PreviousOK
  <2>4. ResultOK'
    BY <2>1 DEF ResultOK
  <2>5. QED
    BY <2>1, <2>2, <2>3, <2>4
<1>4. QED
  BY <1>2, <1>3

(* An observation takes a new identifier for another hand and keeps it for *)
(* the same one; otherwise no frame of a hand in between was decoded.      *)
LEMMA ObservePreserves ==
  ASSUME DecoderInv, NEW cardsRead \in BOOLEAN, NEW anchorRead \in BOOLEAN,
         Decoder!Observe(Decoder!Evidence(cardsRead, anchorRead))
  PROVE  DecoderInv'
<1> DEFINE e == Decoder!Evidence(cardsRead, anchorRead)
<1> USE DEF DecoderInv
<1>1. /\ e.hand = play.hand /\ e.dealer = play.dealer /\ e.cards \in {Decoder!NoCards, play.hand}
      /\ play.hand \in Nat \ {0}
  BY DEF Decoder!Evidence, Plays
<1> HIDE DEF e
<1>2. /\ ~Decoder!Ambiguous(e) /\ previous' = e
      /\ decoded' = decoded \cup {play.hand} /\ play' = play /\ gapped' = gapped
      /\ ordinal' = IF Decoder!StartsNewHand(e) THEN ordinal + 1 ELSE ordinal
      /\ result' = [kind |-> "observation", id |-> ordinal', hand |-> play.hand,
                    new |-> Decoder!StartsNewHand(e), after |-> previous.hand,
                    compared |-> /\ previous # Decoder!Nothing
                                 /\ Decoder!NoCards \notin {previous.cards, e.cards}]
  BY <1>1 DEF Decoder!Observe, e
<1>3. PreviousOK'
  BY <1>1, <1>2 DEF PreviousOK
<1>4. ResultOK'
  <2>1. previous.hand \in Nat /\ previous.hand <= play.hand
    BY <1>1 DEF PreviousOK, Decoder!Nothing
  <2>2. CASE Decoder!StartsNewHand(e)
    <3>1. previous.hand # play.hand
      BY <1>1, <2>2 DEF Decoder!StartsNewHand, Decoder!DealerMoved, PreviousOK, Decoder!Nothing
    <3>2. QED
      BY <1>1, <1>2, <2>1, <2>2, <3>1 DEF ResultOK, Decoder!IdentityIsOfOneHand
  <2>3. CASE ~Decoder!StartsNewHand(e) /\ previous.hand # play.hand /\ ordinal \notin gapped
    <3>1. /\ previous # Decoder!Nothing /\ e.dealer = previous.dealer
          /\ ~Decoder!HeroCardsChanged(e)
      BY <1>2, <2>3 DEF Decoder!Ambiguous, Decoder!ResemblesBoundary, Decoder!DealerMoved
    <3>2. previous.hand + 1 < play.hand
      BY <1>1, <2>1, <2>3, <3>1 DEF PreviousOK
    <3>3. previous.hand + 1 \notin decoded \cup {play.hand}
      BY <1>1, <2>1, <2>3, <3>1, <3>2 DEF PreviousOK
    <3>4. Decoder!NoCards \in {previous.cards, e.cards}
      BY <1>1, <2>1, <2>3, <3>1 DEF PreviousOK, Decoder!HeroCardsChanged, Decoder!NoCards
    <3>5. QED
      <4>1. previous.hand + 1 \in result'.after + 1 .. result'.hand - 1
        BY <1>1, <1>2, <2>1, <3>2
      <4>2. ~result'.compared
        BY <1>2, <3>4
      <4>3. QED
        BY <1>1, <1>2, <2>1, <3>3, <4>1, <4>2 DEF ResultOK, Decoder!IdentityIsOfOneHand
  <2>4. CASE ~Decoder!StartsNewHand(e) /\ (previous.hand = play.hand \/ ordinal \in gapped)
    BY <1>1, <1>2, <2>1, <2>4 DEF ResultOK, Decoder!IdentityIsOfOneHand
  <2>5. QED
    BY <2>2, <2>3, <2>4
<1>5. decoded' \subseteq 1..play'.hand
  <2>1. play.hand \in 1..play.hand
    BY <1>1
  <2>2. QED
    BY <1>2, <2>1, Zenon
<1>6. QED
  BY <1>2, <1>3, <1>4, <1>5

LEMMA DecoderStep == DecoderInv /\ [Decoder!Next]_decoderVars => DecoderInv'
<1> SUFFICES ASSUME DecoderInv, [Decoder!Next]_decoderVars PROVE DecoderInv'
  OBVIOUS
<1>1. CASE UNCHANGED decoderVars
  BY <1>1 DEF decoderVars, DecoderInv, PreviousOK, ResultOK, Decoder!IdentityIsOfOneHand
<1>2. CASE Decoder!Act \/ Decoder!DealStreet \/ Decoder!DealHand
  BY <1>2, PlayPreserves
<1>3. CASE Decoder!Transient
  BY <1>3, GapPreserves
<1>4. CASE Decoder!Decode
  BY <1>4, GapPreserves, ObservePreserves DEF Decoder!Decode
<1>5. QED
  BY <1>1, <1>2, <1>3, <1>4 DEF Decoder!Next

(* Frames that share an identifier are of one hand, unless a whole hand    *)
(* went by unseen and Hero's cards could not be compared, whatever was     *)
(* decoded of the table.                                                   *)
THEOREM PartsOneHand == PartsSpec => []IdentityIsOfOneHand
<1>1. PartsInit => DecoderInv
  BY DecoderInit DEF PartsInit
<1>2. DecoderInv /\ [PartsNext]_<<vars, coord, decoderVars, part>> => DecoderInv'
  BY DecoderStep DEF PartsNext
<1>3. DecoderInv => IdentityIsOfOneHand
  BY DEF DecoderInv, ResultOK, IdentityIsOfOneHand, Decoder!IdentityIsOfOneHand
<1>4. QED
  BY <1>1, <1>2, <1>3, PTL DEF PartsSpec
=============================================================================
