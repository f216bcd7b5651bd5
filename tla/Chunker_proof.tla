---------------------------- MODULE Chunker_proof ----------------------------
(***************************************************************************)
(* What TLAPS proves of Chunker, for any sizes of window, overlap and      *)
(* floor, any recordings and any number of splits: its type invariant,     *)
(* that the transcript is stitched, and that the progress is full.  The    *)
(* first part is about Keep, which is defined by recursion; then come what *)
(* is heard in a slice, in two adjacent ones and in a chunk, the stack of  *)
(* slices, and the inductive invariant.                                    *)
(***************************************************************************)
EXTENDS Chunker, SequenceTheorems, NaturalsInduction, WellFoundedInduction, TLAPS

(***************************************************************************)
(* Every natural is in a set that has 0 and with a number the next.        *)
(***************************************************************************)
LEMMA AllNaturals ==
  ASSUME NEW B \in SUBSET Nat, 0 \in B, \A n \in B : n + 1 \in B
  PROVE  \A n \in Nat : n \in B
<1> SUFFICES ASSUME Nat \ B # {} PROVE FALSE
  OBVIOUS
<1> DEFINE R == OpToRel(<, Nat)
<1>1. \A x, y \in Nat : <<x, y>> \in R <=> x < y
  BY DEF OpToRel
<1>2. IsWellFoundedOn(R, Nat)
  BY NatLessThanWellFounded
<1> HIDE DEF R
<1>3. PICK x \in Nat \ B : \A y \in Nat \ B : ~ (<<y, x>> \in R)
  <2>1. Nat \ B \in SUBSET Nat
    OBVIOUS
  <2> QED BY <1>2, <2>1, WFMin
<1>4. x \in Nat /\ x # 0 /\ x \notin B
  BY <1>3
<1>5. x - 1 \in Nat /\ x - 1 < x
  BY <1>4
<1>6. x - 1 \in B
  BY <1>1, <1>3, <1>4, <1>5
<1>7. (x - 1) + 1 = x
  BY <1>4
<1> QED BY <1>4, <1>6, <1>7

\* What Keep's recursion does, as far as n.
Keeps(g, s, T, n) ==
  \A i \in 0..n : g[i] = IF i = 0 THEN <<>>
                         ELSE IF s[i] \in T THEN Append(g[i-1], s[i])
                         ELSE g[i-1]

\* k is those of the first n of s that are in T: m says which they are.
KeptAt(k, m, s, T, n) ==
  /\ m \in [1..Len(k) -> 1..n]
  /\ \A i \in 1..Len(k) : k[i] = s[m[i]] /\ s[m[i]] \in T
  /\ \A i, j \in 1..Len(k) : i < j => m[i] < m[j]
  /\ \A a \in 1..n : s[a] \in T => \E i \in 1..Len(k) : m[i] = a

Kept(k, s, T, n) == \E m : KeptAt(k, m, s, T, n)

\* The recursion has a solution.
LEMMA KeepExists ==
  ASSUME NEW S, NEW s \in Seq(S), NEW T
  PROVE  \E g \in [0..Len(s) -> Seq(S)] : Keeps(g, s, T, Len(s))
<1> DEFINE L == Len(s)
           B == {n \in Nat : n <= L => \E g \in [0..L -> Seq(S)] : Keeps(g, s, T, n)}
<1>1. L \in Nat /\ \A i \in 1..L : s[i] \in S
  OBVIOUS
<1> HIDE DEF L
<1>2. 0 \in B
  <2>1. [i \in 0..L |-> <<>>] \in [0..L -> Seq(S)]
    BY EmptySeq
  <2>2. Keeps([i \in 0..L |-> <<>>], s, T, 0)
    BY <1>1 DEF Keeps
  <2> QED BY <2>1, <2>2
<1>3. ASSUME NEW n \in B PROVE n + 1 \in B
  <2> SUFFICES ASSUME n + 1 <= L
               PROVE  \E g \in [0..L -> Seq(S)] : Keeps(g, s, T, n + 1)
    OBVIOUS
  <2>1. n \in Nat /\ n <= L
    BY <1>1
  <2>2. PICK g \in [0..L -> Seq(S)] : Keeps(g, s, T, n)
    BY <2>1
  <2> DEFINE h == [i \in 0..L |-> IF i = 0 THEN <<>>
                                  ELSE IF s[i] \in T THEN Append(g[i-1], s[i])
                                  ELSE g[i-1]]
  <2>3. h \in [0..L -> Seq(S)]
    <3>1. ASSUME NEW i \in 0..L PROVE h[i] \in Seq(S)
      <4>1. CASE i = 0
        BY <4>1, EmptySeq
      <4>2. CASE i # 0
        <5>1. i - 1 \in 0..L /\ i \in 1..L
          BY <1>1, <4>2
        <5>2. g[i-1] \in Seq(S) /\ s[i] \in S
          BY <1>1, <2>2, <5>1
        <5>3. Append(g[i-1], s[i]) \in Seq(S)
          BY <5>2, AppendProperties
        <5> QED BY <4>2, <5>2, <5>3
      <4> QED BY <4>1, <4>2
    <3> QED BY <3>1
  <2>4. ASSUME NEW i \in 0..n PROVE h[i] = g[i]
    <3>1. i \in 0..L
      BY <1>1, <2>1
    <3>2. g[i] = IF i = 0 THEN <<>> ELSE IF s[i] \in T THEN Append(g[i-1], s[i]) ELSE g[i-1]
      BY <2>2 DEF Keeps
    <3> QED BY <3>1, <3>2
  <2>5. ASSUME NEW i \in 0..(n+1)
        PROVE  h[i] = IF i = 0 THEN <<>>
                      ELSE IF s[i] \in T THEN Append(h[i-1], s[i])
                      ELSE h[i-1]
    <3>1. i # 0 => i - 1 \in 0..n /\ i \in 0..L /\ i - 1 \in 0..L
      BY <1>1, <2>1
    <3>2. i # 0 => h[i-1] = g[i-1]
      <4> HIDE DEF h
      <4> QED BY <2>4, <3>1
    <3>3. h[i] = IF i = 0 THEN <<>> ELSE IF s[i] \in T THEN Append(g[i-1], s[i]) ELSE g[i-1]
      BY <1>1, <2>1
    <3> HIDE DEF h
    <3> QED BY <3>2, <3>3
  <2> HIDE DEF h
  <2> QED BY <2>3, <2>5 DEF Keeps
<1>4. L \in B
  <2>1. B \in SUBSET Nat
    OBVIOUS
  <2> HIDE DEF B
  <2> QED BY <1>1, <1>2, <1>3, <2>1, AllNaturals
<1> QED BY <1>1, <1>4 DEF L


\* One more that is in T is appended.
LEMMA KeptOneMore ==
  ASSUME NEW S, NEW s, NEW T, NEW k \in Seq(S), NEW n \in Nat,
         Kept(k, s, T, n), s[n+1] \in T, s[n+1] \in S
  PROVE  Kept(Append(k, s[n+1]), s, T, n + 1)
<1> DEFINE p == Append(k, s[n+1])
           l == Len(k)
<1>1. PICK m : KeptAt(k, m, s, T, n)
  BY DEF Kept
<1>2. /\ l \in Nat /\ Len(p) = l + 1
      /\ \A i \in 1..l : p[i] = k[i]
      /\ p[l+1] = s[n+1]
  BY AppendProperties
<1> DEFINE x == [i \in 1..(l+1) |-> IF i = l + 1 THEN n + 1 ELSE m[i]]
<1>3. /\ m \in [1..l -> 1..n]
      /\ \A i \in 1..l : k[i] = s[m[i]] /\ s[m[i]] \in T
      /\ \A i, j \in 1..l : i < j => m[i] < m[j]
      /\ \A a \in 1..n : s[a] \in T => \E i \in 1..l : m[i] = a
  BY <1>1 DEF KeptAt
<1> HIDE DEF l, p
<1>4. \A i \in 1..l : i \in 1..(l+1) /\ x[i] = m[i] /\ m[i] \in 1..n
  BY <1>2, <1>3
<1>5. x[l+1] = n + 1 /\ \A i \in 1..(l+1) : i = l + 1 \/ i \in 1..l
  BY <1>2
<1>6. x \in [1..(l+1) -> 1..(n+1)]
  BY <1>2, <1>3
<1> HIDE DEF x
<1>7. \A i \in 1..(l+1) : p[i] = s[x[i]] /\ s[x[i]] \in T
  BY <1>2, <1>3, <1>4, <1>5
<1>8. ASSUME NEW i \in 1..(l+1), NEW j \in 1..(l+1), i < j PROVE x[i] < x[j]
  <2>1. i \in 1..l
    BY <1>2, <1>8
  <2>2. CASE j = l + 1
    BY <1>4, <1>5, <2>1, <2>2
  <2>3. CASE j \in 1..l
    BY <1>3, <1>4, <1>8, <2>1, <2>3
  <2> QED BY <1>5, <2>2, <2>3
<1>9. ASSUME NEW a \in 1..(n+1), s[a] \in T PROVE \E i \in 1..(l+1) : x[i] = a
  <2>1. CASE a = n + 1
    <3>1. l + 1 \in 1..(l+1)
      BY <1>2
    <3> QED BY <1>5, <2>1, <3>1
  <2>2. CASE a # n + 1
    <3>1. a \in 1..n
      BY <2>2
    <3> QED BY <1>3, <1>4, <1>9, <3>1
  <2> QED BY <2>1, <2>2
<1>10. KeptAt(p, x, s, T, n + 1)
  BY <1>2, <1>6, <1>7, <1>8, <1>9 DEF KeptAt
<1> QED BY <1>10 DEF Kept, p

\* One more that is not changes nothing.
LEMMA KeptNoMore ==
  ASSUME NEW S, NEW s, NEW T, NEW k \in Seq(S), NEW n \in Nat,
         Kept(k, s, T, n), s[n+1] \notin T
  PROVE  Kept(k, s, T, n + 1)
<1>1. PICK m : KeptAt(k, m, s, T, n)
  BY DEF Kept
<1>2. \A a \in 1..(n+1) : a = n + 1 \/ a \in 1..n
  OBVIOUS
<1>3. m \in [1..Len(k) -> 1..(n+1)]
  BY <1>1 DEF KeptAt
<1>4. KeptAt(k, m, s, T, n + 1)
  BY <1>1, <1>2, <1>3 DEF KeptAt
<1> QED BY <1>4 DEF Kept

(***************************************************************************)
(* Keep keeps those of a sequence that are in T, and their order.          *)
(***************************************************************************)
LEMMA KeepIs ==
  ASSUME NEW S, NEW s \in Seq(S), NEW T
  PROVE  Keep(s, T) \in Seq(S) /\ Kept(Keep(s, T), s, T, Len(s))
<1> DEFINE L == Len(s)
           keep == CHOOSE g : g = [i \in 0..Len(s) |-> IF i = 0 THEN <<>>
                                    ELSE IF s[i] \in T THEN Append(g[i-1], s[i])
                                    ELSE g[i-1]]
<1>1. L \in Nat /\ \A i \in 1..L : s[i] \in S
  OBVIOUS
<1>2. Keep(s, T) = keep[L]
  BY DEF Keep
<1>3. \E g : g = [i \in 0..Len(s) |-> IF i = 0 THEN <<>>
                                      ELSE IF s[i] \in T THEN Append(g[i-1], s[i])
                                      ELSE g[i-1]]
  <2>1. PICK g \in [0..L -> Seq(S)] : Keeps(g, s, T, L)
    BY KeepExists
  <2>2. g = [i \in 0..L |-> IF i = 0 THEN <<>>
                            ELSE IF s[i] \in T THEN Append(g[i-1], s[i])
                            ELSE g[i-1]]
    BY <2>1 DEF Keeps
  <2> QED BY <2>2
<1>4. keep = [i \in 0..L |-> IF i = 0 THEN <<>>
                             ELSE IF s[i] \in T THEN Append(keep[i-1], s[i])
                             ELSE keep[i-1]]
  BY <1>3
<1> HIDE DEF keep, L
<1> DEFINE Good(n) == keep[n] \in Seq(S) /\ Kept(keep[n], s, T, n)
           B == {n \in Nat : n <= L => Good(n)}
<1>5. 0 \in B
  <2>1. keep[0] = <<>>
    BY <1>1, <1>4
  <2>2. KeptAt(<<>>, <<>>, s, T, 0)
    BY DEF KeptAt
  <2>3. <<>> \in Seq(S)
    OBVIOUS
  <2> QED BY <2>1, <2>2, <2>3 DEF Kept
<1>6. ASSUME NEW n \in B PROVE n + 1 \in B
  <2> SUFFICES ASSUME n + 1 <= L PROVE Good(n + 1)
    OBVIOUS
  <2>1. n \in Nat /\ n <= L /\ n + 1 \in 0..L /\ n + 1 \in 1..L /\ (n + 1) - 1 = n /\ n + 1 # 0
    BY <1>1
  <2>2. keep[n] \in Seq(S) /\ Kept(keep[n], s, T, n)
    BY <2>1
  <2>3. keep[n+1] = IF s[n+1] \in T THEN Append(keep[n], s[n+1]) ELSE keep[n]
    <3> DEFINE v == n + 1
    <3>1. keep[v] = IF v = 0 THEN <<>> ELSE IF s[v] \in T THEN Append(keep[v-1], s[v]) ELSE keep[v-1]
      <4> HIDE DEF v
      <4>1. v \in 0..L
        BY <2>1 DEF v
      <4> QED BY <1>4, <4>1
    <3> QED BY <2>1, <3>1
  <2>4. s[n+1] \in S
    BY <1>1, <2>1
  <2>5. CASE s[n+1] \in T
    <3>1. Append(keep[n], s[n+1]) \in Seq(S)
      BY <2>2, <2>4, AppendProperties
    <3> QED BY <2>1, <2>2, <2>3, <2>4, <2>5, <3>1, KeptOneMore
  <2>6. CASE s[n+1] \notin T
    BY <2>1, <2>2, <2>3, <2>6, KeptNoMore
  <2> QED BY <2>5, <2>6
<1>7. L \in B
  <2>1. B \in SUBSET Nat
    OBVIOUS
  <2> HIDE DEF B
  <2> QED BY <1>1, <1>5, <1>6, <2>1, AllNaturals
<1> HIDE DEF Kept
<1> QED BY <1>1, <1>2, <1>7 DEF L

-----------------------------------------------------------------------------
Segments == {s \in [from : Nat, to : Nat] : s.from < s.to}

Ordered(q) == \A i, k \in DOMAIN q : i < k => q[i].to <= q[k].from

\* No segment of q goes beyond one utterance of the recording a; by is added to
\* its times.
Uttered(a, q, by) ==
  \A i \in DOMAIN q : \E k \in DOMAIN a.speech :
    a.speech[k].from <= by + q[i].from /\ by + q[i].to <= a.speech[k].to

Said(a, t) == \E k \in DOMAIN a.speech : a.speech[k].from <= t /\ t < a.speech[k].to

Has(q, t) == \E i \in DOMAIN q : q[i].from <= t /\ t < q[i].to

\* q is what there is to hear in the n samples that begin at sample by.
IsHeard(a, q, by, n) ==
  /\ q \in Seq(Segments) /\ Ordered(q) /\ Uttered(a, q, by)
  /\ \A i \in DOMAIN q : q[i].to <= n
  /\ \A t \in 0..(n-1) : Said(a, by + t) => Has(q, t)

\* A recording, as ChunkerAssumption has it.
IsRecording(a) ==
  /\ a.total \in Nat /\ a.speech \in Seq([from : Nat, to : Nat])
  /\ \A i \in DOMAIN a.speech : a.speech[i].from < a.speech[i].to
  /\ Ordered(a.speech)

\* A function on 1..n is a sequence.
LEMMA IsSeq ==
  ASSUME NEW S, NEW n \in Nat, NEW f \in [1..n -> S]
  PROVE  f \in Seq(S) /\ Len(f) = n /\ DOMAIN f = 1..n
OBVIOUS

\* a..b-1 is the part of f..t-1 that is in lo..hi-1, relative to lo.
IsClip(f, t, lo, hi, a, b) ==
  /\ a \in Nat /\ b \in Nat /\ a < b
  /\ f <= lo + a /\ lo + b <= t /\ b <= hi - lo
  /\ \A x \in Nat : x < hi - lo /\ f <= lo + x => a <= x
  /\ \A x \in Nat : x < hi - lo /\ lo + x < t => x < b
  /\ \A x \in Nat : t <= x => b <= Larger(x, lo) - lo

\* Clipping gives it.
LEMMA Clipped ==
  ASSUME NEW f \in Nat, NEW t \in Nat, NEW lo \in Nat, NEW hi \in Nat,
         f < t, f < hi, lo < t, lo < hi
  PROVE  IsClip(f, t, lo, hi, Larger(f, lo) - lo, Smaller(t, hi) - lo)
BY DEF Larger, Smaller, IsClip

(***************************************************************************)
(* What is heard is all there is to hear.                                  *)
(***************************************************************************)
LEMMA HearIs ==
  ASSUME IsRecording(audio), NEW lo \in Nat, NEW hi \in Nat, lo < hi \/ (lo = 0 /\ hi = 0)
  PROVE  IsHeard(audio, Hear(lo, hi), lo, hi - lo)
<1> DEFINE u == audio.speech
           T == {x \in Range(u) : x.from < hi /\ lo < x.to}
           k == Keep(u, T)
           l == Len(k)
           h == [i \in DOMAIN k |-> [from |-> Larger(k[i].from, lo) - lo,
                                     to   |-> Smaller(k[i].to, hi) - lo]]
<1>1. Hear(lo, hi) = h
  BY DEF Hear
<1>2. u \in Seq([from : Nat, to : Nat])
  BY DEF IsRecording
<1>3. k \in Seq([from : Nat, to : Nat]) /\ Kept(k, u, T, Len(u))
  <2> HIDE DEF u, T
  <2> QED BY <1>2, KeepIs
<1>4. PICK m : KeptAt(k, m, u, T, Len(u))
  BY <1>3 DEF Kept
<1>5. /\ DOMAIN u = 1..Len(u)
      /\ \A i \in DOMAIN u : u[i].from \in Nat /\ u[i].to \in Nat /\ u[i].from < u[i].to
      /\ \A i, j \in DOMAIN u : i < j => u[i].to <= u[j].from
  <2>1. DOMAIN u = 1..Len(u) /\ \A i \in DOMAIN u : u[i] \in [from : Nat, to : Nat]
    <3> HIDE DEF u
    <3>1. u \in [1..Len(u) -> [from : Nat, to : Nat]]
      BY <1>2, LenProperties
    <3> QED BY <3>1
  <2>2. \A i \in DOMAIN u : u[i].from < u[i].to
    BY DEF IsRecording
  <2>3. \A i, j \in DOMAIN u : i < j => u[i].to <= u[j].from
    BY DEF IsRecording, Ordered
  <2> HIDE DEF u
  <2> QED BY <2>1, <2>2, <2>3
<1>6. DOMAIN k = 1..l /\ l \in Nat
  BY <1>3
<1>7. \A x : x \in T <=> (\E i \in DOMAIN u : x = u[i]) /\ x.from < hi /\ lo < x.to
  BY DEF Range
<1> HIDE DEF u, T, k, l
<1>8. /\ m \in [1..l -> DOMAIN u]
      /\ \A i \in 1..l : k[i] = u[m[i]] /\ u[m[i]] \in T
      /\ \A i, j \in 1..l : i < j => m[i] < m[j]
      /\ \A a \in DOMAIN u : u[a] \in T => \E i \in 1..l : m[i] = a
  BY <1>4, <1>5 DEF KeptAt, l
<1>9. ASSUME NEW i \in 1..l
      PROVE  /\ m[i] \in DOMAIN u
             /\ u[m[i]].from \in Nat /\ u[m[i]].to \in Nat /\ u[m[i]].from < u[m[i]].to
             /\ u[m[i]].from < hi /\ lo < u[m[i]].to
             /\ h[i].from = Larger(u[m[i]].from, lo) - lo
             /\ h[i].to = Smaller(u[m[i]].to, hi) - lo
             /\ h[i] = [from |-> h[i].from, to |-> h[i].to]
  BY <1>5, <1>6, <1>7, <1>8
<1>10. DOMAIN h = 1..l
  BY <1>6
<1>f. h = [i \in 1..l |-> h[i]]
  BY <1>10
<1> HIDE DEF h
<1>11. ASSUME NEW i \in 1..l
       PROVE  IsClip(u[m[i]].from, u[m[i]].to, lo, hi, h[i].from, h[i].to)
  <2> DEFINE f == u[m[i]].from
             t == u[m[i]].to
  <2>1. f \in Nat /\ t \in Nat /\ f < t /\ f < hi /\ lo < t
    BY <1>9
  <2>2. h[i].from = Larger(f, lo) - lo /\ h[i].to = Smaller(t, hi) - lo
    BY <1>9
  <2> HIDE DEF f, t
  <2>3. lo < hi
    BY <2>1
  <2>4. IsClip(f, t, lo, hi, Larger(f, lo) - lo, Smaller(t, hi) - lo)
    BY <2>1, <2>3, Clipped
  <2>5. IsClip(f, t, lo, hi, h[i].from, h[i].to)
    BY <2>2, <2>4
  <2> QED BY <2>5 DEF f, t
<1>12. h \in Seq(Segments)
  <2>1. ASSUME NEW i \in 1..l PROVE h[i] \in Segments
    <3> DEFINE a == h[i].from
               b == h[i].to
    <3>1. h[i] = [from |-> a, to |-> b]
      BY <1>9
    <3>2. a \in Nat /\ b \in Nat /\ a < b
      BY <1>11 DEF IsClip
    <3> HIDE DEF a, b
    <3>3. [from |-> a, to |-> b] \in Segments
      BY <3>2 DEF Segments
    <3> QED BY <3>1, <3>3
  <2>2. h \in [1..l -> Segments]
    BY <1>f, <2>1
  <2> QED BY <1>6, <2>2, IsSeq
<1>13. Ordered(h)
  <2> SUFFICES ASSUME NEW i \in 1..l, NEW j \in 1..l, i < j PROVE h[i].to <= h[j].from
    BY <1>10 DEF Ordered
  <2>1. u[m[i]].to <= u[m[j]].from
    BY <1>5, <1>8, <1>9
  <2>2. u[m[j]].from \in Nat /\ h[j].from = Larger(u[m[j]].from, lo) - lo
    BY <1>9
  <2> QED BY <1>11, <2>1, <2>2 DEF IsClip
<1>14. Uttered(audio, h, lo)
  <2> SUFFICES ASSUME NEW i \in 1..l
               PROVE \E a \in DOMAIN u : u[a].from <= lo + h[i].from /\ lo + h[i].to <= u[a].to
    BY <1>10 DEF Uttered, u
  <2> QED BY <1>9, <1>11 DEF IsClip
<1>15. ASSUME NEW t \in 0..((hi - lo) - 1), Said(audio, lo + t) PROVE Has(h, t)
  <2>1. PICK a \in DOMAIN u : u[a].from <= lo + t /\ lo + t < u[a].to
    BY <1>15 DEF Said, u
  <2>2. u[a] \in T
    BY <1>5, <1>7, <2>1
  <2>3. PICK i \in 1..l : m[i] = a
    BY <1>8, <2>2
  <2>4. h[i].from <= t /\ t < h[i].to
    <3>1. t \in Nat /\ t < hi - lo
      OBVIOUS
    <3> QED BY <1>11, <2>1, <2>3, <3>1 DEF IsClip
  <2> QED BY <1>10, <2>4 DEF Has
<1>16. \A i \in DOMAIN h : h[i].to <= hi - lo
  BY <1>10, <1>11 DEF IsClip
<1> QED BY <1>1, <1>12, <1>13, <1>14, <1>15, <1>16 DEF IsHeard

(***************************************************************************)
(* What a shifted sequence is.                                             *)
(***************************************************************************)
LEMMA ShiftIs ==
  ASSUME NEW q \in Seq(Segments), NEW by \in Nat
  PROVE  /\ Shift(q, by) \in Seq(Segments)
         /\ Len(Shift(q, by)) = Len(q)
         /\ \A i \in 1..Len(q) : /\ Shift(q, by)[i].from = q[i].from + by
                                 /\ Shift(q, by)[i].to = q[i].to + by
<1> DEFINE s == Shift(q, by)
           l == Len(q)
<1>1. l \in Nat /\ DOMAIN q = 1..l
  OBVIOUS
<1>2. ASSUME NEW i \in 1..l
      PROVE  q[i].from \in Nat /\ q[i].to \in Nat /\ q[i].from < q[i].to
  <2>1. q[i] \in Segments
    OBVIOUS
  <2> QED BY <2>1 DEF Segments
<1>3. s = [i \in 1..l |-> [from |-> q[i].from + by, to |-> q[i].to + by]]
  BY <1>1 DEF Shift
<1> HIDE DEF s, l
<1>4. s \in [1..l -> Segments]
  BY <1>2, <1>3 DEF Segments
<1> QED BY <1>1, <1>3, <1>4, IsSeq DEF s, l

-----------------------------------------------------------------------------
\* A sequence of segments, by its indices.
LEMMA SegmentsAre ==
  ASSUME NEW q \in Seq(Segments)
  PROVE  /\ Len(q) \in Nat /\ DOMAIN q = 1..Len(q)
         /\ \A i \in 1..Len(q) : q[i] \in Segments /\ q[i].from \in Nat /\ q[i].to \in Nat
                                   /\ q[i].from < q[i].to
<1>1. Len(q) \in Nat /\ DOMAIN q = 1..Len(q) /\ \A i \in 1..Len(q) : q[i] \in Segments
  BY LenProperties
<1> QED BY <1>1 DEF Segments

\* The index of a concatenation is one of its first or of its second part.
LEMMA ConcatIs ==
  ASSUME NEW f \in Seq(Segments), NEW g \in Seq(Segments)
  PROVE  /\ f \o g \in Seq(Segments) /\ DOMAIN (f \o g) = 1..(Len(f) + Len(g))
         /\ \A i \in 1..Len(f) : i \in DOMAIN (f \o g) /\ (f \o g)[i] = f[i]
         /\ \A j \in 1..Len(g) : Len(f) + j \in DOMAIN (f \o g) /\ (f \o g)[Len(f) + j] = g[j]
         /\ \A i \in DOMAIN (f \o g) : i \in 1..Len(f) \/ \E j \in 1..Len(g) : i = Len(f) + j
<1> DEFINE c == f \o g
           lf == Len(f)
           lg == Len(g)
<1>1. c \in Seq(Segments) /\ Len(c) = lf + lg /\ lf \in Nat /\ lg \in Nat
  BY ConcatProperties, LenProperties
<1>2. DOMAIN c = 1..(lf + lg)
  <2> HIDE DEF c, lf, lg
  <2> QED BY <1>1, LenProperties
<1>3. \A i \in 1..(lf + lg) : c[i] = IF i <= lf THEN f[i] ELSE g[i - lf]
  BY ConcatProperties
<1> HIDE DEF c, lf, lg
<1>4. \A i \in 1..lf : i \in DOMAIN c /\ c[i] = f[i]
  BY <1>1, <1>2, <1>3
<1>5. ASSUME NEW j \in 1..lg PROVE lf + j \in DOMAIN c /\ c[lf + j] = g[j]
  <2>1. lf + j \in 1..(lf + lg) /\ ~(lf + j <= lf) /\ (lf + j) - lf = j
    BY <1>1
  <2> QED BY <1>2, <1>3, <2>1
<1>6. ASSUME NEW i \in DOMAIN c, i \notin 1..lf PROVE \E j \in 1..lg : i = lf + j
  <2>1. i - lf \in 1..lg /\ i = lf + (i - lf)
    BY <1>1, <1>2, <1>6
  <2> QED BY <2>1
<1> QED BY <1>1, <1>2, <1>4, <1>5, <1>6 DEF c, lf, lg

\* Order over a concatenation of which the first part ends at e.
LEMMA ConcatOrdered ==
  ASSUME NEW f \in Seq(Segments), NEW g \in Seq(Segments), NEW e \in Nat,
         Ordered(f), Ordered(g),
         \A i \in DOMAIN f : f[i].to <= e, \A j \in DOMAIN g : e <= g[j].from
  PROVE  Ordered(f \o g)
<1> DEFINE c == f \o g
           lf == Len(f)
           lg == Len(g)
<1>1. /\ \A i \in 1..lf : i \in DOMAIN c /\ c[i] = f[i]
      /\ \A j \in 1..lg : lf + j \in DOMAIN c /\ c[lf + j] = g[j]
      /\ \A i \in DOMAIN c : i \in 1..lf \/ \E j \in 1..lg : i = lf + j
      /\ DOMAIN c = 1..(lf + lg)
  BY ConcatIs
<1>2. /\ lf \in Nat /\ DOMAIN f = 1..lf
      /\ \A i \in 1..lf : f[i].from \in Nat /\ f[i].to \in Nat
  BY SegmentsAre
<1>3. /\ lg \in Nat /\ DOMAIN g = 1..lg
      /\ \A i \in 1..lg : g[i].from \in Nat /\ g[i].to \in Nat
  BY SegmentsAre
<1> HIDE DEF c, lf, lg
<1> SUFFICES ASSUME NEW i \in DOMAIN c, NEW k \in DOMAIN c, i < k PROVE c[i].to <= c[k].from
  BY DEF Ordered, c
<1>4. CASE i \in 1..lf /\ k \in 1..lf
  BY <1>1, <1>2, <1>4 DEF Ordered
<1>5. CASE i \in 1..lf /\ k \notin 1..lf
  <2>1. PICK j \in 1..lg : k = lf + j
    BY <1>1, <1>5
  <2>2. c[i].to <= e /\ e <= c[k].from /\ c[i] = f[i] /\ c[k] = g[j]
    BY <1>1, <1>2, <1>3, <1>5, <2>1
  <2>3. c[i].to \in Nat /\ c[k].from \in Nat
    BY <1>2, <1>3, <1>5, <2>1, <2>2
  <2> QED BY <2>2, <2>3
<1>6. CASE i \notin 1..lf
  <2>1. PICK j \in 1..lg : i = lf + j
    BY <1>1, <1>6
  <2>2. k \notin 1..lf
    BY <1>1, <1>2, <1>3, <1>6
  <2>3. PICK b \in 1..lg : k = lf + b
    BY <1>1, <2>2
  <2>4. j < b
    BY <1>2, <1>3, <2>1, <2>3
  <2>5. g[j].to <= g[b].from
    BY <1>3, <2>4 DEF Ordered
  <2> QED BY <1>1, <2>1, <2>3, <2>5
<1> QED BY <1>4, <1>5, <1>6

\* Each element of a concatenation is one of its parts'.
LEMMA ConcatElements ==
  ASSUME NEW f \in Seq(Segments), NEW g \in Seq(Segments), NEW i \in DOMAIN (f \o g)
  PROVE  \/ \E k \in DOMAIN f : (f \o g)[i] = f[k]
         \/ \E k \in DOMAIN g : (f \o g)[i] = g[k]
<1>1. DOMAIN f = 1..Len(f) /\ DOMAIN g = 1..Len(g)
  BY SegmentsAre
<1>2. CASE i \in 1..Len(f)
  <2>1. (f \o g)[i] = f[i]
    BY <1>2, ConcatIs
  <2> QED BY <1>1, <1>2, <2>1
<1>3. CASE i \notin 1..Len(f)
  <2>1. PICK j \in 1..Len(g) : i = Len(f) + j
    BY <1>3, ConcatIs
  <2>2. (f \o g)[Len(f) + j] = g[j]
    BY <2>1, ConcatIs
  <2> QED BY <1>1, <2>1, <2>2
<1> QED BY <1>2, <1>3

\* What a concatenation has, and whether it is uttered.
LEMMA ConcatHas ==
  ASSUME NEW f \in Seq(Segments), NEW g \in Seq(Segments), NEW t
  PROVE  Has(f \o g, t) <=> Has(f, t) \/ Has(g, t)
<1>1. DOMAIN f = 1..Len(f) /\ DOMAIN g = 1..Len(g)
  BY SegmentsAre
<1>2. ASSUME NEW i \in DOMAIN (f \o g)
      PROVE  \/ \E k \in DOMAIN f : (f \o g)[i] = f[k]
             \/ \E k \in DOMAIN g : (f \o g)[i] = g[k]
  BY ConcatElements
<1>3. ASSUME NEW k \in DOMAIN f PROVE \E i \in DOMAIN (f \o g) : (f \o g)[i] = f[k]
  BY <1>1, ConcatIs
<1>4. ASSUME NEW k \in DOMAIN g PROVE \E i \in DOMAIN (f \o g) : (f \o g)[i] = g[k]
  <2>1. k \in 1..Len(g)
    BY <1>1
  <2>2. Len(f) + k \in DOMAIN (f \o g) /\ (f \o g)[Len(f) + k] = g[k]
    BY <2>1, ConcatIs
  <2> QED BY <2>2
<1> QED BY <1>2, <1>3, <1>4 DEF Has

\* What the second of two adjacent slices yields is shifted by the length of
\* the first.
LEMMA ShiftedIs ==
  ASSUME NEW a, NEW g, NEW by \in Nat, NEW n \in Nat, NEW p \in Nat,
         IsHeard(a, g, by + n, p)
  PROVE  /\ Shift(g, n) \in Seq(Segments) /\ Ordered(Shift(g, n))
         /\ Uttered(a, Shift(g, n), by)
         /\ \A i \in DOMAIN Shift(g, n) : n <= Shift(g, n)[i].from /\ Shift(g, n)[i].to <= n + p
         /\ \A t \in Nat : n <= t /\ t < n + p /\ Said(a, by + t) => Has(Shift(g, n), t)
<1> DEFINE s == Shift(g, n)
           l == Len(g)
<1>0. g \in Seq(Segments)
  BY DEF IsHeard
<1>1. /\ s \in Seq(Segments) /\ Len(s) = l
      /\ \A i \in 1..l : s[i].from = g[i].from + n /\ s[i].to = g[i].to + n
  BY <1>0, ShiftIs
<1>2. /\ l \in Nat /\ DOMAIN g = 1..l
      /\ \A i \in 1..l : g[i].from \in Nat /\ g[i].to \in Nat /\ g[i].from < g[i].to
  BY <1>0, SegmentsAre
<1> HIDE DEF s
<1>3. DOMAIN s = 1..l
  BY <1>1, SegmentsAre
<1> HIDE DEF l
<1>4. /\ \A i, k \in 1..l : i < k => g[i].to <= g[k].from
      /\ \A i \in 1..l : g[i].to <= p
  BY <1>2 DEF IsHeard, Ordered
<1>u. \A i \in 1..l : \E k \in DOMAIN a.speech :
        /\ a.speech[k].from <= (by + n) + g[i].from
        /\ (by + n) + g[i].to <= a.speech[k].to
  BY <1>2 DEF IsHeard, Uttered
<1>h. \A t \in 0..(p-1) : Said(a, (by + n) + t) => \E i \in 1..l : g[i].from <= t /\ t < g[i].to
  BY <1>2 DEF IsHeard, Has
<1>5. Ordered(s)
  <2> SUFFICES ASSUME NEW i \in 1..l, NEW k \in 1..l, i < k PROVE s[i].to <= s[k].from
    BY <1>3 DEF Ordered
  <2>1. g[i].to <= g[k].from /\ g[i].to \in Nat /\ g[k].from \in Nat
    BY <1>2, <1>4
  <2>2. s[i].to = g[i].to + n /\ s[k].from = g[k].from + n
    BY <1>1
  <2> QED BY <2>1, <2>2
<1>6. Uttered(a, s, by)
  <2> SUFFICES ASSUME NEW i \in 1..l
               PROVE \E k \in DOMAIN a.speech :
                       a.speech[k].from <= by + s[i].from /\ by + s[i].to <= a.speech[k].to
    BY <1>3 DEF Uttered
  <2>1. by + s[i].from = (by + n) + g[i].from /\ by + s[i].to = (by + n) + g[i].to
    BY <1>1, <1>2
  <2> QED BY <1>u, <2>1
<1>7. ASSUME NEW i \in DOMAIN s PROVE n <= s[i].from /\ s[i].to <= n + p
  <2>1. g[i].from \in Nat /\ g[i].to \in Nat /\ g[i].to <= p
    BY <1>2, <1>3, <1>4
  <2>2. s[i].from = g[i].from + n /\ s[i].to = g[i].to + n
    BY <1>1, <1>3
  <2> QED BY <2>1, <2>2
<1>8. ASSUME NEW t \in Nat, n <= t, t < n + p, Said(a, by + t) PROVE Has(s, t)
  <2>1. t - n \in 0..(p-1) /\ (by + n) + (t - n) = by + t
    BY <1>8
  <2>2. PICK i \in 1..l : g[i].from <= t - n /\ t - n < g[i].to
    BY <1>h, <1>8, <2>1
  <2>3. s[i].from <= t /\ t < s[i].to
    BY <1>1, <1>2, <2>2
  <2> QED BY <1>3, <2>3 DEF Has
<1> QED BY <1>1, <1>5, <1>6, <1>7, <1>8 DEF s

(***************************************************************************)
(* Two adjacent slices: what they yield, the second shifted, is what there *)
(* is to hear in both.                                                     *)
(***************************************************************************)
LEMMA BothHeard ==
  ASSUME NEW a, NEW f, NEW g, NEW by \in Nat, NEW n \in Nat, NEW p \in Nat,
         IsHeard(a, f, by, n), IsHeard(a, g, by + n, p)
  PROVE  IsHeard(a, f \o Shift(g, n), by, n + p)
<1> DEFINE s == Shift(g, n)
<1>1. /\ s \in Seq(Segments) /\ Ordered(s) /\ Uttered(a, s, by)
      /\ \A i \in DOMAIN s : n <= s[i].from /\ s[i].to <= n + p
      /\ \A t \in Nat : n <= t /\ t < n + p /\ Said(a, by + t) => Has(s, t)
  BY ShiftedIs
<1> HIDE DEF s
<1>2. /\ f \in Seq(Segments) /\ Ordered(f) /\ Uttered(a, f, by)
      /\ \A i \in DOMAIN f : f[i].to <= n
      /\ \A t \in 0..(n-1) : Said(a, by + t) => Has(f, t)
  BY DEF IsHeard
<1>3. f \o s \in Seq(Segments)
  BY <1>1, <1>2, ConcatIs
<1>4. Ordered(f \o s)
  BY <1>1, <1>2, ConcatOrdered
<1>5. ASSUME NEW i \in DOMAIN (f \o s)
      PROVE  \/ \E k \in DOMAIN f : (f \o s)[i] = f[k]
             \/ \E k \in DOMAIN s : (f \o s)[i] = s[k]
  BY <1>1, <1>2, ConcatElements
<1>6. Uttered(a, f \o s, by)
  BY <1>1, <1>2, <1>5 DEF Uttered
<1>7. \A i \in DOMAIN (f \o s) : (f \o s)[i].to <= n + p
  <2>1. \A i \in DOMAIN f : f[i].to \in Nat
    BY <1>2, SegmentsAre
  <2>2. \A i \in DOMAIN f : f[i].to <= n + p
    BY <1>2, <2>1
  <2> QED BY <1>1, <1>5, <2>2
<1>8. ASSUME NEW t \in 0..((n + p) - 1), Said(a, by + t) PROVE Has(f \o s, t)
  <2>1. CASE t < n
    <3>1. t \in 0..(n - 1)
      BY <2>1
    <3> QED BY <1>1, <1>2, <1>8, <3>1, ConcatHas
  <2>2. CASE ~(t < n)
    <3>1. t \in Nat /\ n <= t /\ t < n + p
      BY <2>2
    <3> QED BY <1>1, <1>2, <1>8, <3>1, ConcatHas
  <2> QED BY <2>1, <2>2
<1> QED BY <1>3, <1>4, <1>6, <1>7, <1>8 DEF IsHeard, s

-----------------------------------------------------------------------------
\* WindowEnds and CutOff, of the recording a.
Ends(a) == {k * Step + Window : k \in 0..(a.total \div Step)}

Cut(a, t) ==
  a.total > Threshold /\ \E e \in Ends(a), i \in DOMAIN a.speech :
    a.speech[i].from < e /\ e <= t /\ t < a.speech[i].to

\* q is the transcript of the first e samples.
Transcript(a, q, e) ==
  /\ q \in Seq(Segments) /\ Ordered(q) /\ Uttered(a, q, 0)
  /\ \A i \in DOMAIN q : q[i].to <= e
  /\ \A t \in 0..(e-1) : Said(a, t) /\ ~Cut(a, t) => Has(q, t)

(***************************************************************************)
(* The transcript up to e, and what a chunk at sample by yielded, without  *)
(* what begins before e: the transcript up to the end of the chunk.        *)
(***************************************************************************)
LEMMA StitchedIs ==
  ASSUME NEW a, IsRecording(a), NEW m, NEW f, NEW e \in Nat, NEW by \in Nat, NEW n \in Nat,
         Transcript(a, m, e), IsHeard(a, f, by, n), by <= e, e <= by + n,
         e # 0 /\ e < by + n => a.total > Threshold /\ e \in Ends(a),
         NEW k, k = Keep(Shift(f, by), {x \in Range(Shift(f, by)) : x.from >= e})
  PROVE  Transcript(a, m \o k, by + n)
<1> DEFINE s == Shift(f, by)
           T == {x \in Range(s) : x.from >= e}
           l == Len(s)
<1>1. IsHeard(a, f, 0 + by, n)
  <2>1. 0 + by = by
    OBVIOUS
  <2> QED BY <2>1
<1>2. /\ s \in Seq(Segments) /\ Ordered(s) /\ Uttered(a, s, 0)
      /\ \A i \in DOMAIN s : by <= s[i].from /\ s[i].to <= by + n
  BY <1>1, ShiftedIs
<1>3. \A t \in Nat : by <= t /\ t < by + n /\ Said(a, 0 + t) => Has(s, t)
  BY <1>1, ShiftedIs
<1>4. \A x : x \in T <=> (\E i \in DOMAIN s : x = s[i]) /\ x.from >= e
  BY DEF Range
<1> HIDE DEF s, T
<1>5. k \in Seq(Segments) /\ Kept(k, s, T, l)
  <2>1. k = Keep(s, T)
    BY DEF s, T
  <2> QED BY <1>2, <2>1, KeepIs
<1>6. PICK x : KeptAt(k, x, s, T, l)
  BY <1>5 DEF Kept
<1>7. /\ DOMAIN k = 1..Len(k) /\ Len(k) \in Nat
      /\ \A i \in DOMAIN k : k[i].from \in Nat /\ k[i].to \in Nat /\ k[i].from < k[i].to
  BY <1>5, SegmentsAre
<1>8. /\ DOMAIN s = 1..l /\ l \in Nat
      /\ \A i \in DOMAIN s : s[i].from \in Nat /\ s[i].to \in Nat /\ s[i].from < s[i].to
  BY <1>2, SegmentsAre
<1> HIDE DEF l
<1>9. /\ x \in [DOMAIN k -> DOMAIN s]
      /\ \A i \in DOMAIN k : k[i] = s[x[i]] /\ s[x[i]] \in T
      /\ \A i, j \in DOMAIN k : i < j => x[i] < x[j]
      /\ \A b \in DOMAIN s : s[b] \in T => \E i \in DOMAIN k : x[i] = b
  BY <1>6, <1>7, <1>8 DEF KeptAt
<1>10. /\ \A i \in DOMAIN k : e <= k[i].from
       /\ \A i \in DOMAIN k : k[i].to <= by + n
  <2> SUFFICES ASSUME NEW i \in DOMAIN k PROVE e <= k[i].from /\ k[i].to <= by + n
    OBVIOUS
  <2>1. x[i] \in DOMAIN s /\ k[i] = s[x[i]] /\ s[x[i]].from >= e
    BY <1>4, <1>9
  <2>2. k[i].from \in Nat
    BY <1>7
  <2> QED BY <1>2, <2>1, <2>2
<1>11. Ordered(k)
  <2> SUFFICES ASSUME NEW i \in DOMAIN k, NEW j \in DOMAIN k, i < j PROVE k[i].to <= k[j].from
    BY DEF Ordered
  <2>1. x[i] \in DOMAIN s /\ x[j] \in DOMAIN s /\ x[i] < x[j] /\ k[i] = s[x[i]] /\ k[j] = s[x[j]]
    BY <1>9
  <2>2. s[x[i]].to <= s[x[j]].from
    BY <1>2, <2>1 DEF Ordered
  <2> QED BY <2>1, <2>2
<1>12. Uttered(a, k, 0)
  <2> SUFFICES ASSUME NEW i \in DOMAIN k
               PROVE  \E j \in DOMAIN a.speech : /\ a.speech[j].from <= 0 + k[i].from
                                                 /\ 0 + k[i].to <= a.speech[j].to
    BY DEF Uttered
  <2>1. x[i] \in DOMAIN s /\ k[i] = s[x[i]]
    BY <1>9
  <2>2. \E j \in DOMAIN a.speech : /\ a.speech[j].from <= 0 + s[x[i]].from
                                   /\ 0 + s[x[i]].to <= a.speech[j].to
    BY <1>2, <2>1 DEF Uttered
  <2> QED BY <2>1, <2>2
<1>13. /\ m \in Seq(Segments) /\ Ordered(m) /\ Uttered(a, m, 0)
       /\ \A i \in DOMAIN m : m[i].to <= e
       /\ \A t \in 0..(e-1) : Said(a, t) /\ ~Cut(a, t) => Has(m, t)
  BY DEF Transcript
<1>14. m \o k \in Seq(Segments)
  BY <1>5, <1>13, ConcatIs
<1>15. Ordered(m \o k)
  BY <1>5, <1>10, <1>11, <1>13, ConcatOrdered
<1>16. ASSUME NEW i \in DOMAIN (m \o k)
       PROVE  \/ \E j \in DOMAIN m : (m \o k)[i] = m[j]
              \/ \E j \in DOMAIN k : (m \o k)[i] = k[j]
  BY <1>5, <1>13, ConcatElements
<1>17. Uttered(a, m \o k, 0)
  <2> SUFFICES ASSUME NEW i \in DOMAIN (m \o k)
               PROVE  \E j \in DOMAIN a.speech : /\ a.speech[j].from <= 0 + (m \o k)[i].from
                                                 /\ 0 + (m \o k)[i].to <= a.speech[j].to
    BY DEF Uttered
  <2>1. CASE \E j \in DOMAIN m : (m \o k)[i] = m[j]
    BY <1>13, <2>1 DEF Uttered
  <2>2. CASE \E j \in DOMAIN k : (m \o k)[i] = k[j]
    BY <1>12, <2>2 DEF Uttered
  <2> QED BY <1>16, <2>1, <2>2
<1>18. \A i \in DOMAIN (m \o k) : (m \o k)[i].to <= by + n
  <2>1. \A j \in DOMAIN m : m[j].to \in Nat
    BY <1>13, SegmentsAre
  <2>2. \A j \in DOMAIN m : m[j].to <= by + n
    BY <1>13, <2>1
  <2> QED BY <1>10, <1>16, <2>2
<1>19. ASSUME NEW t \in 0..((by + n) - 1), Said(a, t), ~Cut(a, t) PROVE Has(m \o k, t)
  <2>1. CASE t < e
    <3>1. t \in 0..(e - 1)
      BY <2>1
    <3> QED BY <1>5, <1>13, <1>19, <3>1, ConcatHas
  <2>2. CASE ~(t < e)
    <3>1. t \in Nat /\ by <= t /\ t < by + n /\ e <= t /\ 0 + t = t /\ e < by + n
      BY <2>2
    <3>2. PICK i \in DOMAIN s : s[i].from <= t /\ t < s[i].to
      BY <1>3, <1>19, <3>1 DEF Has
    <3>3. s[i].from >= e
      <4> SUFFICES ASSUME ~(s[i].from >= e) PROVE FALSE
        OBVIOUS
      <4>1. PICK j \in DOMAIN a.speech : a.speech[j].from <= 0 + s[i].from /\ 0 + s[i].to <= a.speech[j].to
        BY <1>2 DEF Uttered
      <4>2. a.speech[j].from \in Nat /\ a.speech[j].to \in Nat
        <5>1. a.speech \in [1..Len(a.speech) -> [from : Nat, to : Nat]]
          BY LenProperties DEF IsRecording
        <5> QED BY <5>1
      <4>3. s[i].from < e /\ e # 0
        BY <1>8
      <4>4. a.speech[j].from < e /\ t < a.speech[j].to
        BY <1>8, <3>1, <3>2, <4>1, <4>2, <4>3
      <4>5. a.total > Threshold /\ e \in Ends(a)
        BY <3>1, <4>3
      <4> QED BY <1>19, <3>1, <4>4, <4>5 DEF Cut
    <3>4. PICK j \in DOMAIN k : x[j] = i
      BY <1>4, <1>9, <3>3
    <3>5. Has(k, t)
      BY <1>9, <3>2, <3>4 DEF Has
    <3> QED BY <1>5, <1>13, <3>5, ConcatHas
  <2> QED BY <2>1, <2>2
<1> QED BY <1>14, <1>15, <1>17, <1>18, <1>19 DEF Transcript

\* Nothing is the transcript of nothing.
LEMMA TranscriptBegins ==
  ASSUME NEW a
  PROVE  Transcript(a, <<>>, 0) /\ \A by \in Nat : IsHeard(a, <<>>, by, 0)
BY DEF Transcript, IsHeard, Ordered, Uttered

\* What was heard in one go is a transcript.
LEMMA TranscriptAtOnce ==
  ASSUME NEW a, NEW q, NEW n \in Nat, IsHeard(a, q, 0, n)
  PROVE  Transcript(a, q, n)
<1>1. \A t \in 0..(n-1) : 0 + t = t
  OBVIOUS
<1> QED BY <1>1 DEF Transcript, IsHeard

-----------------------------------------------------------------------------
\* Multiplication and division, as far as they are needed.
LEMMA Multiples ==
  ASSUME NEW a \in Nat, NEW b \in Nat, NEW d \in Nat \ {0}
  PROVE  /\ a * d \in Nat
         /\ a <= b <=> a * d <= b * d
         /\ (a + 1) * d = a * d + d
         /\ a > 0 => (a - 1) * d = a * d - d
<1>1. a * d \in Nat /\ b * d \in Nat /\ (a + 1) * d = a * d + d /\ (a > 0 => (a - 1) * d = a * d - d)
  OBVIOUS
<1>2. ASSUME NEW x \in Nat, NEW y \in Nat, x <= y PROVE x * d <= y * d
  <2>1. y - x \in Nat /\ (y - x) * d \in Nat
    BY <1>2
  <2>2. y * d = x * d + (y - x) * d
    BY <1>2
  <2> QED BY <2>1, <2>2
<1>3. ASSUME ~(a <= b) PROVE ~(a * d <= b * d)
  <2>1. b + 1 \in Nat /\ b + 1 <= a
    BY <1>3
  <2>2. (b + 1) * d <= a * d
    BY <1>2, <2>1
  <2>3. (b + 1) * d = b * d + d
    OBVIOUS
  <2> QED BY <1>1, <2>2, <2>3
<1> QED BY <1>1, <1>2, <1>3

\* What a quotient is.
LEMMA Quotient ==
  ASSUME NEW x \in Nat, NEW d \in Nat \ {0}
  PROVE  x \div d \in Nat /\ (x \div d) * d <= x /\ x < (x \div d) * d + d
OBVIOUS

\* A count times d is below x as long as it is below x / d, rounded up.
LEMMA Ceiling ==
  ASSUME NEW x \in Nat, NEW d \in Nat \ {0}, NEW n \in Nat
  PROVE  /\ (x + d - 1) \div d \in Nat
         /\ n * d < x <=> n < (x + d - 1) \div d
         /\ n * d <= x => n <= x \div d
<1> DEFINE c == (x + d - 1) \div d
           q == x \div d
<1>1. x + d - 1 \in Nat
  OBVIOUS
<1>2. c \in Nat /\ c * d <= x + d - 1 /\ x + d - 1 < c * d + d
  BY <1>1, Quotient
<1>3. q \in Nat /\ q * d <= x /\ x < q * d + d
  BY Quotient
<1> HIDE DEF c, q
<1>4. ASSUME n < c PROVE n * d < x
  <2>1. n + 1 \in Nat /\ n + 1 <= c
    BY <1>2, <1>4
  <2>2. (n + 1) * d <= c * d /\ (n + 1) * d = n * d + d /\ n * d \in Nat /\ c * d \in Nat
    BY <1>2, <2>1, Multiples
  <2> QED BY <1>2, <2>2
<1>5. ASSUME ~(n < c) PROVE ~(n * d < x)
  <2>1. c * d <= n * d /\ n * d \in Nat /\ c * d \in Nat
    BY <1>2, <1>5, Multiples
  <2> QED BY <1>2, <2>1
<1>6. ASSUME n * d <= x PROVE n <= q
  <2> SUFFICES ASSUME ~(n <= q) PROVE FALSE
    OBVIOUS
  <2>1. q + 1 \in Nat /\ q + 1 <= n
    BY <1>3
  <2>2. (q + 1) * d <= n * d /\ (q + 1) * d = q * d + d /\ n * d \in Nat /\ q * d \in Nat
    BY <1>3, <2>1, Multiples
  <2> QED BY <1>3, <1>6, <2>2
<1> QED BY <1>2, <1>4, <1>5, <1>6 DEF c, q

\* The step of the loop.
LEMMA StepIs == Step \in Nat \ {0} /\ Step + Overlap = Window
BY ChunkerAssumption DEF Step

Slices == [lo : Nat, hi : Nat, at : Nat, whole : Nat, parts : Nat \ {0}]

\* A slice on the stack: not shorter than its nominal length in whole samples,
\* and not than half of the floor if it is a part.
IsSlice(x) ==
  /\ x \in Slices /\ x.lo < x.hi /\ x.at = x.lo
  /\ x.parts > 1 => x.hi - x.lo >= Floor \div 2
  /\ x.whole < ((x.hi - x.lo) + 1) * x.parts

\* The slices of w are adjacent and go to n.
Stack(w, n) ==
  /\ w \in Seq(Slices)
  /\ \A i \in 1..Len(w) : IsSlice(w[i]) /\ (i < Len(w) => w[i].hi = w[i+1].lo)
  /\ w # <<>> => w[Len(w)].hi = n

\* Where they begin.
Position(w, n) == IF w = <<>> THEN n ELSE w[1].lo

\* A chunk begins as one slice.
LEMMA StackBegins ==
  ASSUME NEW n \in Nat \ {0}
  PROVE  Stack(<<Slice(0, n, 0, n, 1)>>, n) /\ Position(<<Slice(0, n, 0, n, 1)>>, n) = 0
<1> DEFINE x == Slice(0, n, 0, n, 1)
<1>1. x \in Slices /\ x.lo = 0 /\ x.hi = n /\ x.at = 0 /\ x.whole = n /\ x.parts = 1
  BY DEF Slice, Slices
<1> HIDE DEF x
<1>2. IsSlice(x)
  BY <1>1 DEF IsSlice
<1>3. /\ <<x>> \in Seq(Slices) /\ Len(<<x>>) = 1 /\ <<x>>[1] = x /\ <<x>> # <<>>
      /\ \A i \in 1..1 : i = 1
  BY <1>1
<1>4. \A i \in 1..Len(<<x>>) : i = 1
  BY <1>3
<1> QED BY <1>1, <1>2, <1>3, <1>4 DEF x, Stack, Position

\* The first of a stack.
LEMMA StackHead ==
  ASSUME NEW w, NEW n, Stack(w, n), w # <<>>
  PROVE  /\ Head(w) = w[1] /\ IsSlice(w[1]) /\ Len(w) \in Nat /\ Len(w) >= 1
         /\ Position(w, n) = w[1].lo
<1>1. w \in Seq(Slices)
  BY DEF Stack
<1>2. Len(w) \in Nat /\ Len(w) >= 1 /\ Head(w) = w[1]
  BY <1>1, EmptySeq, HeadTailProperties
<1> QED BY <1>2 DEF Stack, Position

\* A slice that is done with is taken off.
LEMMA StackPopped ==
  ASSUME NEW w, NEW n, Stack(w, n), w # <<>>
  PROVE  Stack(Tail(w), n) /\ Position(Tail(w), n) = w[1].hi
<1> DEFINE t == Tail(w)
           l == Len(w)
<1>1. w \in Seq(Slices)
  BY DEF Stack
<1>2. l \in Nat /\ l >= 1
  BY StackHead
<1>3. t \in Seq(Slices) /\ Len(t) = l - 1 /\ \A i \in 1..(l-1) : t[i] = w[i+1]
  BY <1>1, HeadTailProperties
<1>4. t = <<>> <=> l = 1
  <2> HIDE DEF t, l
  <2>1. t # <<>> => Len(t) \in Nat \ {0}
    BY <1>3, EmptySeq
  <2>2. t = <<>> => Len(t) = 0
    BY EmptySeq
  <2> QED BY <1>2, <1>3, <2>1, <2>2
<1>5. /\ \A i \in 1..l : IsSlice(w[i]) /\ (i < l => w[i].hi = w[i+1].lo)
      /\ w[l].hi = n
  BY DEF Stack
<1> HIDE DEF t, l
<1>6. ASSUME NEW i \in 1..(l-1)
      PROVE  IsSlice(t[i]) /\ (i < l - 1 => t[i].hi = t[i+1].lo)
  <2>1. i + 1 \in 1..l /\ t[i] = w[i+1]
    BY <1>2, <1>3
  <2>2. i < l - 1 => i + 1 < l /\ i + 1 \in 1..(l-1) /\ t[i+1] = w[(i+1)+1]
    BY <1>2, <1>3
  <2> QED BY <1>5, <2>1, <2>2
<1>7. l # 1 => t[l-1] = w[l]
  <2>1. l # 1 => l - 1 \in 1..(l-1) /\ (l - 1) + 1 = l
    BY <1>2
  <2> QED BY <1>3, <2>1
<1>8. Stack(t, n)
  BY <1>3, <1>4, <1>5, <1>6, <1>7 DEF Stack
<1>9. Position(t, n) = w[1].hi
  <2>1. CASE l = 1
    BY <1>4, <1>5, <2>1 DEF Position
  <2>2. CASE l # 1
    <3>1. 1 \in 1..(l-1) /\ 1 \in 1..l /\ 1 < l
      BY <1>2, <2>2
    <3> QED BY <1>3, <1>4, <1>5, <2>2, <3>1 DEF Position
  <2> QED BY <2>1, <2>2
<1> QED BY <1>8, <1>9 DEF t

\* The halves of a slice that is not below the floor.
LEMMA HalvesAre ==
  ASSUME NEW x, IsSlice(x), ~BelowFloor(x)
  PROVE  \E a, b : /\ Halves(x) = <<a, b>> /\ IsSlice(a) /\ IsSlice(b)
                   /\ a.lo = x.lo /\ a.hi = b.lo /\ b.hi = x.hi
<1> DEFINE mid == (x.hi - x.lo) \div 2
           a == Slice(x.lo, x.lo + mid, x.at, x.whole, x.parts * 2)
           b == Slice(x.lo + mid, x.hi, x.at + mid, x.whole, x.parts * 2)
           lo == x.lo
           hi == x.hi
           whole == x.whole
           parts == x.parts
<1>1. /\ lo \in Nat /\ hi \in Nat /\ x.at = lo /\ whole \in Nat /\ parts \in Nat \ {0}
      /\ lo < hi /\ whole < ((hi - lo) + 1) * parts /\ ~(whole < Floor * parts)
  BY DEF IsSlice, Slices, BelowFloor
<1>2. Halves(x) = <<a, b>>
  BY DEF Halves
<1>3. /\ a = Slice(lo, lo + mid, lo, whole, parts * 2)
      /\ b = Slice(lo + mid, hi, lo + mid, whole, parts * 2)
  BY <1>1
<1>4. mid = (hi - lo) \div 2
  OBVIOUS
<1> HIDE DEF mid, lo, hi, whole, parts, a, b
<1>5. Floor \in Nat /\ Floor >= 2
  BY ChunkerAssumption
<1>6. hi - lo >= Floor
  <2> SUFFICES ASSUME (hi - lo) + 1 <= Floor PROVE FALSE
    BY <1>1, <1>5
  <2>1. ((hi - lo) + 1) * parts <= Floor * parts
    <3>1. (hi - lo) + 1 \in Nat
      BY <1>1
    <3> QED BY <1>1, <1>5, <3>1, Multiples
  <2>2. ((hi - lo) + 1) * parts \in Nat /\ Floor * parts \in Nat
    BY <1>1, <1>5
  <2> QED BY <1>1, <2>1, <2>2
<1>7. /\ mid \in Nat /\ mid >= 1 /\ mid <= hi - lo /\ (hi - lo) - mid >= mid
      /\ (hi - lo) + 1 <= 2 * (mid + 1) /\ mid >= Floor \div 2
  BY <1>1, <1>4, <1>5, <1>6
<1>8. whole < (mid + 1) * (parts * 2)
  <2>1. ((hi - lo) + 1) * parts <= (2 * (mid + 1)) * parts
    <3>1. (hi - lo) + 1 \in Nat /\ 2 * (mid + 1) \in Nat
      BY <1>1, <1>7
    <3> QED BY <1>1, <1>7, <3>1, Multiples
  <2>2. (2 * (mid + 1)) * parts = (mid + 1) * (parts * 2)
    BY <1>1, <1>7
  <2>3. (2 * (mid + 1)) * parts \in Nat /\ ((hi - lo) + 1) * parts \in Nat
    BY <1>1, <1>7
  <2> QED BY <1>1, <2>1, <2>2, <2>3
<1>9. whole < ((hi - (lo + mid)) + 1) * (parts * 2)
  <2> DEFINE r == hi - (lo + mid)
  <2>1. r \in Nat /\ mid + 1 <= r + 1 /\ r + 1 \in Nat /\ mid + 1 \in Nat /\ parts * 2 \in Nat \ {0}
    BY <1>1, <1>7
  <2> HIDE DEF r
  <2>2. (mid + 1) * (parts * 2) <= (r + 1) * (parts * 2)
    BY <2>1, Multiples
  <2>3. (mid + 1) * (parts * 2) \in Nat /\ (r + 1) * (parts * 2) \in Nat
    BY <2>1
  <2>4. whole < (r + 1) * (parts * 2)
    BY <1>1, <1>8, <2>2, <2>3
  <2> QED BY <2>4 DEF r
<1>10. lo + mid \in Nat /\ parts * 2 \in Nat \ {0} /\ (lo + mid) - lo = mid
  BY <1>1, <1>7
<1>11. /\ a \in Slices /\ a.lo = lo /\ a.hi = lo + mid /\ a.at = lo /\ a.whole = whole /\ a.parts = parts * 2
       /\ b \in Slices /\ b.lo = lo + mid /\ b.hi = hi /\ b.at = lo + mid /\ b.whole = whole /\ b.parts = parts * 2
  BY <1>1, <1>3, <1>10 DEF Slice, Slices
<1>12. IsSlice(a)
  <2>1. lo < lo + mid /\ mid >= Floor \div 2
    BY <1>1, <1>7
  <2> QED BY <1>8, <1>10, <1>11, <2>1 DEF IsSlice
<1>13. IsSlice(b)
  <2>1. lo + mid < hi /\ hi - (lo + mid) >= Floor \div 2
    BY <1>1, <1>5, <1>7
  <2> QED BY <1>9, <1>11, <2>1 DEF IsSlice
<1> QED BY <1>2, <1>11, <1>12, <1>13 DEF lo, hi

\* A slice is split in place.
LEMMA StackSplit ==
  ASSUME NEW w, NEW n, Stack(w, n), w # <<>>, ~BelowFloor(Head(w))
  PROVE  /\ Stack(Halves(Head(w)) \o Tail(w), n)
         /\ Position(Halves(Head(w)) \o Tail(w), n) = Position(w, n)
<1>1. /\ Head(w) = w[1] /\ IsSlice(w[1]) /\ Len(w) \in Nat /\ Len(w) >= 1
      /\ Position(w, n) = w[1].lo
  BY StackHead
<1>2. PICK a, b : /\ Halves(w[1]) = <<a, b>> /\ IsSlice(a) /\ IsSlice(b)
                  /\ a.lo = w[1].lo /\ a.hi = b.lo /\ b.hi = w[1].hi
  BY <1>1, HalvesAre
<1> DEFINE t == Tail(w)
           h == <<a, b>>
           v == h \o t
           l == Len(t)
<1>3. Stack(t, n) /\ Position(t, n) = w[1].hi
  BY StackPopped
<1>4. /\ h \in Seq(Slices) /\ Len(h) = 2 /\ h[1] = a /\ h[2] = b
  BY <1>2 DEF IsSlice
<1>5. t \in Seq(Slices) /\ l \in Nat
  BY <1>3, LenProperties DEF Stack
<1> HIDE DEF t, h
<1>6. /\ v \in Seq(Slices) /\ Len(v) = 2 + l
      /\ \A i \in 1..(2 + l) : v[i] = IF i <= 2 THEN h[i] ELSE t[i - 2]
  <2> HIDE DEF l
  <2>1. /\ v \in Seq(Slices) /\ Len(v) = Len(h) + Len(t)
        /\ \A i \in 1..(Len(h) + Len(t)) : v[i] = IF i <= Len(h) THEN h[i] ELSE t[i - Len(h)]
    BY <1>4, <1>5, ConcatProperties
  <2> QED BY <1>4, <2>1 DEF l
<1> HIDE DEF v, l
<1>7. v[1] = a /\ v[2] = b /\ \A i \in 1..l : v[2 + i] = t[i]
  <2>1. 1 \in 1..(2+l) /\ 2 \in 1..(2+l)
    BY <1>5
  <2>2. ASSUME NEW i \in 1..l PROVE v[2 + i] = t[i]
    <3>1. 2 + i \in 1..(2+l) /\ ~(2 + i <= 2) /\ (2 + i) - 2 = i
      BY <1>5
    <3> QED BY <1>6, <3>1
  <2> QED BY <1>4, <1>6, <2>1, <2>2
<1>8. /\ \A i \in 1..l : IsSlice(t[i]) /\ (i < l => t[i].hi = t[i+1].lo)
      /\ t # <<>> => t[l].hi = n
  BY <1>3 DEF Stack, l
<1>9. t = <<>> <=> l = 0
  BY <1>5, EmptySeq DEF l
<1>10. t = <<>> => b.hi = n
  BY <1>2, <1>3 DEF Position
<1>11. t # <<>> => b.hi = t[1].lo
  BY <1>2, <1>3 DEF Position
<1>12. ASSUME NEW i \in 1..(2 + l)
       PROVE  IsSlice(v[i]) /\ (i < 2 + l => v[i].hi = v[i+1].lo)
  <2>1. CASE i = 1
    BY <1>2, <1>7, <2>1
  <2>2. CASE i = 2
    <3>1. 2 < 2 + l => 1 \in 1..l /\ v[2 + 1] = t[1]
      BY <1>5, <1>7
    <3> QED BY <1>2, <1>5, <1>7, <1>9, <1>11, <2>2, <3>1
  <2>3. CASE i # 1 /\ i # 2
    <3>1. i - 2 \in 1..l /\ 2 + (i - 2) = i
      BY <1>5, <2>3
    <3>2. i < 2 + l => i - 2 < l /\ (i - 2) + 1 \in 1..l /\ 2 + ((i - 2) + 1) = i + 1
      BY <1>5, <2>3
    <3>3. v[i] = t[i - 2]
      BY <1>7, <3>1
    <3>4. i < 2 + l => v[i + 1] = t[(i - 2) + 1]
      BY <1>7, <3>2
    <3> QED BY <1>8, <3>1, <3>2, <3>3, <3>4
  <2> QED BY <2>1, <2>2, <2>3
<1>13. v[2 + l].hi = n
  <2>1. CASE l = 0
    <3>1. 2 + l = 2
      BY <2>1
    <3> QED BY <1>7, <1>9, <1>10, <2>1, <3>1
  <2>2. CASE l # 0
    <3>1. l \in 1..l
      BY <1>5, <2>2
    <3> QED BY <1>7, <1>8, <1>9, <2>2, <3>1
  <2> QED BY <2>1, <2>2
<1>14. v # <<>>
  BY <1>5, <1>6, EmptySeq
<1>15. Stack(v, n) /\ Position(v, n) = a.lo
  BY <1>6, <1>7, <1>12, <1>13, <1>14 DEF Stack, Position
<1> QED BY <1>1, <1>2, <1>15 DEF v, h, t

-----------------------------------------------------------------------------
\* How long the chunk is that begins at start.
ChunkLength == ChunkEnd - start

\* Chunks that are in the transcript.
Stitched == IF pc = "chunk" THEN count - 1 ELSE count

Types ==
  /\ audio \in Recordings
  /\ pc \in {"begin", "top", "chunk", "done", "failed", "cancelled"}
  /\ start \in Nat /\ count \in Nat /\ prevEnd \in 0..audio.total
  /\ merged \in Seq(Segments)
  /\ reported \in [done : Nat, total : Nat]
  /\ flag \in BOOLEAN /\ ooms \in 0..MaxOoms

\* The chunks begin a step apart, and what is written goes to the end of the
\* window before.
LoopInv ==
  /\ pc = "begin" => start = 0 /\ count = 0 /\ prevEnd = 0 /\ work = <<>> /\ merged = <<>>
  /\ pc = "top" => work = <<>>
  /\ pc \in {"top", "chunk"} =>
       /\ audio.total > Threshold
       /\ Stitched \in Nat /\ start = Stitched * Step
       /\ prevEnd = IF start = 0 THEN 0 ELSE Smaller((start - Step) + Window, audio.total)
  /\ pc = "chunk" => count > 0 /\ start < audio.total

FoundInv == pc = "chunk" => IsHeard(audio, found, start, Position(work, ChunkLength))

MergedInv ==
  /\ pc \in {"top", "chunk"} => Transcript(audio, merged, prevEnd)
  /\ pc = "done" => Transcript(audio, merged, audio.total)

ReportInv ==
  /\ pc = "begin" => reported.done = 0 /\ reported.total = 0
  /\ pc \in {"top", "chunk"} =>
       /\ reported.done = Stitched
       /\ reported.total = IF Stitched = 0 THEN 0 ELSE TotalChunks
       /\ Stitched > 0 => (Stitched - 1) * Step < audio.total
  /\ pc \in {"failed", "cancelled"} =>
       reported.done < reported.total \/ (reported.done = 0 /\ reported.total = 0)
  /\ pc = "done" => reported.done = reported.total

IInv ==
  Types /\ Stack(work, ChunkLength) /\ LoopInv /\ FoundInv /\ MergedInv /\ ReportInv

\* What ChunkerAssumption says of the recording, and the numbers.
LEMMA RecordingIs ==
  ASSUME audio \in Recordings
  PROVE  IsRecording(audio) /\ audio.total \in Nat
BY ChunkerAssumption DEF IsRecording, Ordered

\* How long a chunk is.
LEMMA Lengths ==
  ASSUME audio \in Recordings, start \in Nat
  PROVE  /\ ChunkEnd \in Nat
         /\ start + ChunkLength = ChunkEnd
         /\ start < audio.total => ChunkLength \in Nat \ {0} /\ start < ChunkEnd
         /\ audio.total <= start => ChunkEnd = audio.total
         /\ start = 0 /\ audio.total = 0 => ChunkLength = 0
<1>1. audio.total \in Nat /\ Window \in Nat /\ Window > 0
  BY RecordingIs, ChunkerAssumption
<1> DEFINE n == audio.total
<1>2. ChunkEnd = Smaller(start + Window, n) /\ ChunkLength = ChunkEnd - start
  BY DEF ChunkEnd, ChunkLength
<1> HIDE DEF n
<1>3. n \in Nat
  BY <1>1 DEF n
<1> QED BY <1>1, <1>2, <1>3 DEF Smaller, n

\* It holds at first.
LEMMA InitIInv ==
  ASSUME Init
  PROVE  IInv
<1>1. audio \in Recordings /\ 0 \in 0..audio.total
  BY RecordingIs DEF Init
<1>2. 0 \in 0..MaxOoms
  BY ChunkerAssumption
<1>3. Types
  <2>1. <<>> \in Seq(Segments) /\ [done |-> 0, total |-> 0] \in [done : Nat, total : Nat]
    BY EmptySeq
  <2> QED BY <1>1, <1>2, <2>1 DEF Init, Types
<1>4. Stack(work, ChunkLength)
  <2>1. Stack(<<>>, ChunkLength)
    BY DEF Stack
  <2> QED BY <2>1 DEF Init
<1>5. LoopInv /\ FoundInv /\ MergedInv /\ ReportInv
  BY DEF Init, LoopInv, FoundInv, MergedInv, ReportInv
<1> QED BY <1>3, <1>4, <1>5 DEF IInv

\* The cancel flag is read at the top of the loop only.
LEMMA SetFlagStep ==
  ASSUME IInv, SetFlag
  PROVE  IInv'
<1> USE DEF SetFlag, loop
<1>1. Types'
  BY DEF IInv, Types
<1>2. ChunkLength' = ChunkLength /\ Stitched' = Stitched /\ TotalChunks' = TotalChunks
  BY DEF ChunkLength, ChunkEnd, Stitched, TotalChunks
<1>3. Stack(work, ChunkLength)'
  BY <1>2 DEF IInv
<1>4. LoopInv'
  BY <1>2 DEF IInv, LoopInv
<1>5. FoundInv'
  BY <1>2 DEF IInv, FoundInv
<1>6. MergedInv' /\ ReportInv'
  BY <1>2 DEF IInv, MergedInv, ReportInv
<1> QED BY <1>1, <1>3, <1>4, <1>5, <1>6 DEF IInv

\* Nor does a stutter change it.
LEMMA StutterStep ==
  ASSUME IInv, UNCHANGED vars
  PROVE  IInv'
<1> USE DEF vars, loop
<1>1. Types'
  BY DEF IInv, Types
<1>2. ChunkLength' = ChunkLength /\ Stitched' = Stitched /\ TotalChunks' = TotalChunks
  BY DEF ChunkLength, ChunkEnd, Stitched, TotalChunks
<1>3. Stack(work, ChunkLength)'
  BY <1>2 DEF IInv
<1>4. LoopInv'
  BY <1>2 DEF IInv, LoopInv
<1>5. FoundInv'
  BY <1>2 DEF IInv, FoundInv
<1>6. MergedInv' /\ ReportInv'
  BY <1>2 DEF IInv, MergedInv, ReportInv
<1> QED BY <1>1, <1>3, <1>4, <1>5, <1>6 DEF IInv

\* The fast path hears all of the recording at once.
LEMMA FastPathStep ==
  ASSUME IInv, FastPath
  PROVE  IInv'
<1> USE DEF loop
<1>1. audio \in Recordings /\ IsRecording(audio) /\ audio.total \in Nat /\ pc = "begin"
  BY RecordingIs DEF IInv, Types, FastPath
<1>2. audio' = audio /\ start' = start /\ count' = count /\ prevEnd' = prevEnd
        /\ work' = work /\ found' = found /\ flag' = flag /\ ooms' = ooms
  BY DEF FastPath
<1>3. ChunkLength' = ChunkLength /\ Stack(work, ChunkLength)
  BY <1>2 DEF ChunkLength, ChunkEnd, IInv
<1>4. CASE flag
  <2>1. pc' = "cancelled" /\ merged' = merged /\ reported' = reported
    BY <1>4 DEF FastPath
  <2>2. Types' /\ LoopInv' /\ FoundInv' /\ MergedInv' /\ ReportInv'
    BY <1>1, <1>2, <2>1 DEF IInv, Types, LoopInv, FoundInv, MergedInv, ReportInv
  <2> QED BY <1>2, <1>3, <2>2 DEF IInv
<1>5. CASE ~flag
  <2>1. pc' = "done" /\ merged' = Hear(0, audio.total) /\ reported' = [done |-> 1, total |-> 1]
    BY <1>5 DEF FastPath
  <2>2. IsHeard(audio, merged', 0, audio.total - 0)
    <3>1. 0 < audio.total \/ (0 = 0 /\ audio.total = 0)
      BY <1>1
    <3>2. IsHeard(audio, Hear(0, audio.total), 0, audio.total - 0)
      BY <1>1, <3>1, HearIs
    <3> QED BY <2>1, <3>2
  <2>3. Transcript(audio, merged', audio.total)
    <3>1. audio.total - 0 = audio.total
      BY <1>1
    <3> QED BY <1>1, <2>2, <3>1, TranscriptAtOnce
  <2>4. merged' \in Seq(Segments)
    BY <2>3 DEF Transcript
  <2>5. Types' /\ LoopInv' /\ FoundInv' /\ ReportInv'
    BY <1>1, <1>2, <2>1, <2>4 DEF IInv, Types, LoopInv, FoundInv, ReportInv
  <2>6. MergedInv'
    BY <1>2, <2>1, <2>3 DEF MergedInv
  <2> QED BY <1>2, <1>3, <2>5, <2>6 DEF IInv
<1> QED BY <1>4, <1>5

\* The loop is entered with nothing written.
LEMMA ChunkedStep ==
  ASSUME IInv, Chunked
  PROVE  IInv'
<1> USE DEF loop
<1>1. audio \in Recordings /\ audio.total \in Nat /\ pc = "begin" /\ pc' = "top"
        /\ audio.total > Threshold
  BY RecordingIs DEF IInv, Types, Chunked
<1>2. /\ audio' = audio /\ start' = start /\ count' = count /\ prevEnd' = prevEnd
      /\ work' = work /\ found' = found /\ merged' = merged /\ reported' = reported
      /\ flag' = flag /\ ooms' = ooms
  BY DEF Chunked
<1>3. ChunkLength' = ChunkLength /\ Stack(work, ChunkLength)
  BY <1>2 DEF ChunkLength, ChunkEnd, IInv
<1>4. start = 0 /\ count = 0 /\ prevEnd = 0 /\ work = <<>> /\ merged = <<>>
  BY <1>1 DEF IInv, LoopInv
<1>5. Types'
  BY <1>1, <1>2 DEF IInv, Types
<1>6. Stitched' = 0
  BY <1>1, <1>2, <1>4 DEF Stitched
<1>7. LoopInv'
  <2>1. 0 * Step = 0
    BY StepIs
  <2> QED BY <1>1, <1>2, <1>4, <1>6, <2>1 DEF LoopInv
<1>8. FoundInv'
  BY <1>1 DEF FoundInv
<1>9. MergedInv'
  BY <1>1, <1>2, <1>4, TranscriptBegins DEF MergedInv
<1>10. ReportInv'
  BY <1>1, <1>2, <1>6 DEF IInv, ReportInv
<1> QED BY <1>2, <1>3, <1>5, <1>7, <1>8, <1>9, <1>10 DEF IInv

-----------------------------------------------------------------------------
\* There are as many chunks as begin before the end of the recording.
LEMMA TotalIs ==
  ASSUME audio.total \in Nat, NEW n \in Nat
  PROVE  TotalChunks \in Nat /\ (n * Step < audio.total <=> n < TotalChunks)
<1> DEFINE x == audio.total
           d == Step
           c == (x + d - 1) \div d
<1>1. TotalChunks = c
  BY DEF TotalChunks
<1>2. x \in Nat /\ d \in Nat \ {0}
  BY StepIs
<1>3. c \in Nat /\ (n * d < x <=> n < c)
  <2> HIDE DEF x, d
  <2> QED BY <1>2, Ceiling
<1> QED BY <1>1, <1>3

\* Where the loop is left, by a failure or the flag, the count is below the
\* total.
LEMMA CountIsBelow ==
  ASSUME IInv, pc \in {"top", "chunk"}, start < audio.total
  PROVE  reported.done < reported.total \/ (reported.done = 0 /\ reported.total = 0)
<1>1. /\ Stitched \in Nat /\ start = Stitched * Step
      /\ reported.done = Stitched
      /\ reported.total = IF Stitched = 0 THEN 0 ELSE TotalChunks
  BY DEF IInv, LoopInv, ReportInv
<1>2. audio.total \in Nat
  BY RecordingIs DEF IInv, Types
<1>3. Stitched < TotalChunks
  <2>1. Stitched \in Nat /\ Stitched * Step < audio.total
    BY <1>1
  <2> QED BY <1>2, <2>1, TotalIs
<1> QED BY <1>1, <1>3

\* A chunk begins as one slice in which nothing was heard, or the flag ends it.
LEMMA BeginChunkStep ==
  ASSUME IInv, BeginChunk
  PROVE  IInv'
<1> USE DEF loop
<1>1. audio \in Recordings /\ audio.total \in Nat /\ pc = "top" /\ start < audio.total
        /\ start \in Nat /\ count \in Nat
  BY RecordingIs DEF IInv, Types, BeginChunk
<1>2. /\ audio' = audio /\ start' = start /\ prevEnd' = prevEnd
      /\ found' = <<>> /\ merged' = merged /\ reported' = reported
      /\ flag' = flag /\ ooms' = ooms
  BY DEF BeginChunk
<1>3. ChunkLength' = ChunkLength /\ TotalChunks' = TotalChunks
  BY <1>2 DEF ChunkLength, ChunkEnd, TotalChunks
<1>4. CASE flag
  <2>1. pc' = "cancelled" /\ count' = count /\ work' = work
    BY <1>4 DEF BeginChunk
  <2>2. Types' /\ LoopInv' /\ FoundInv' /\ MergedInv'
    BY <1>1, <1>2, <2>1 DEF IInv, Types, LoopInv, FoundInv, MergedInv
  <2>3. ReportInv'
    BY <1>1, <1>2, <2>1, CountIsBelow DEF ReportInv
  <2> QED BY <1>2, <1>3, <2>1, <2>2, <2>3 DEF IInv
<1>5. CASE ~flag
  <2>1. /\ pc' = "chunk" /\ count' = count + 1
        /\ work' = <<Slice(0, ChunkLength, 0, ChunkLength, 1)>>
    BY <1>5 DEF BeginChunk, ChunkLength
  <2>2. ChunkLength \in Nat \ {0}
    BY <1>1, Lengths
  <2>3. Stack(work', ChunkLength) /\ Position(work', ChunkLength) = 0
    BY <2>1, <2>2, StackBegins
  <2>4. Stitched' = Stitched
    <3>1. (count + 1) - 1 = count
      BY <1>1
    <3> QED BY <1>1, <2>1, <3>1 DEF Stitched
  <2>5. Types'
    BY <1>1, <1>2, <2>1 DEF IInv, Types
  <2>6. LoopInv'
    <3>1. count + 1 > 0
      BY <1>1
    <3> QED BY <1>1, <1>2, <2>1, <2>4, <3>1 DEF IInv, LoopInv
  <2>7. FoundInv'
    <3>1. IsHeard(audio, <<>>, start, 0)
      BY <1>1, TranscriptBegins
    <3> QED BY <1>2, <1>3, <2>3, <3>1 DEF FoundInv
  <2>8. MergedInv'
    BY <1>1, <1>2, <2>1 DEF IInv, MergedInv
  <2>9. ReportInv'
    BY <1>1, <1>2, <1>3, <2>1, <2>4 DEF IInv, ReportInv
  <2> QED BY <1>3, <2>3, <2>5, <2>6, <2>7, <2>8, <2>9 DEF IInv
<1> QED BY <1>4, <1>5

\* A slice that is transcribed adds what there is to hear in it.
LEMMA TranscribeStep ==
  ASSUME IInv, Transcribe
  PROVE  IInv'
<1> USE DEF loop
<1> DEFINE x == work[1]
<1>1. audio \in Recordings /\ audio.total \in Nat /\ IsRecording(audio)
        /\ pc = "chunk" /\ work # <<>> /\ start \in Nat
  BY RecordingIs DEF IInv, Types, Transcribe, InChunk
<1>2. /\ audio' = audio /\ start' = start /\ prevEnd' = prevEnd /\ count' = count /\ pc' = pc
      /\ merged' = merged /\ reported' = reported
      /\ flag' = flag /\ ooms' = ooms
      /\ work' = Tail(work)
  BY DEF Transcribe
<1>3. ChunkLength' = ChunkLength /\ TotalChunks' = TotalChunks /\ Stitched' = Stitched
  BY <1>2 DEF ChunkLength, ChunkEnd, TotalChunks, Stitched
<1>4. /\ Head(work) = x /\ IsSlice(x)
      /\ Position(work, ChunkLength) = x.lo
      /\ Stack(work', ChunkLength) /\ Position(work', ChunkLength) = x.hi
  BY <1>1, <1>2, StackHead, StackPopped DEF IInv
<1>5. found' = found \o Shift(Hear(start + x.lo, start + x.hi), x.lo)
  BY <1>4 DEF Transcribe, IsSlice
<1>6. x.lo \in Nat /\ x.hi \in Nat /\ x.lo < x.hi
  BY <1>4 DEF IsSlice, Slices
<1> HIDE DEF x
<1>7. IsHeard(audio, found', start, x.hi)
  <2> DEFINE lo == x.lo
             hi == x.hi
             p == (start + hi) - (start + lo)
  <2>1. IsHeard(audio, found, start, lo)
    BY <1>1, <1>4 DEF IInv, FoundInv
  <2>2. start + lo \in Nat /\ start + hi \in Nat /\ start + lo < start + hi
    BY <1>1, <1>6
  <2>3. IsHeard(audio, Hear(start + lo, start + hi), start + lo, p)
    BY <1>1, <2>2, HearIs
  <2>4. p \in Nat /\ lo + p = hi /\ lo \in Nat
    BY <1>1, <1>6
  <2> HIDE DEF lo, hi, p
  <2>5. IsHeard(audio, found \o Shift(Hear(start + lo, start + hi), lo), start, lo + p)
    BY <1>1, <2>1, <2>3, <2>4, BothHeard
  <2> QED BY <1>5, <2>4, <2>5 DEF lo, hi
<1>8. Types'
  BY <1>2 DEF IInv, Types
<1>9. LoopInv'
  BY <1>1, <1>2, <1>3 DEF IInv, LoopInv
<1>10. FoundInv'
  BY <1>2, <1>3, <1>4, <1>7 DEF FoundInv
<1>11. MergedInv' /\ ReportInv'
  BY <1>1, <1>2, <1>3 DEF IInv, MergedInv, ReportInv
<1> QED BY <1>3, <1>4, <1>8, <1>9, <1>10, <1>11 DEF IInv

\* The halves of a slice take its place, or the job fails.
LEMMA OutOfMemoryStep ==
  ASSUME IInv, OutOfMemory
  PROVE  IInv'
<1> USE DEF loop
<1>1. audio \in Recordings /\ pc = "chunk" /\ work # <<>> /\ start \in Nat
        /\ start < audio.total
  BY DEF IInv, Types, LoopInv, OutOfMemory, InChunk
<1>2. /\ audio' = audio /\ start' = start /\ prevEnd' = prevEnd /\ count' = count
      /\ found' = found /\ merged' = merged /\ reported' = reported /\ flag' = flag
      /\ ooms < MaxOoms /\ ooms' = ooms + 1
  BY DEF OutOfMemory
<1>3. ChunkLength' = ChunkLength /\ TotalChunks' = TotalChunks
  BY <1>2 DEF ChunkLength, ChunkEnd, TotalChunks
<1>4. ooms' \in 0..MaxOoms
  BY <1>2, ChunkerAssumption DEF IInv, Types
<1>5. CASE BelowFloor(Head(work))
  <2>1. pc' = "failed" /\ work' = work
    BY <1>5 DEF OutOfMemory
  <2>2. Types' /\ LoopInv' /\ FoundInv' /\ MergedInv'
    BY <1>1, <1>2, <1>4, <2>1 DEF IInv, Types, LoopInv, FoundInv, MergedInv
  <2>3. ReportInv'
    BY <1>1, <1>2, <2>1, CountIsBelow DEF ReportInv
  <2> QED BY <1>3, <2>1, <2>2, <2>3 DEF IInv
<1>6. CASE ~BelowFloor(Head(work))
  <2>1. pc' = pc /\ work' = Halves(Head(work)) \o Tail(work)
    BY <1>6 DEF OutOfMemory
  <2>2. Stack(work', ChunkLength) /\ Position(work', ChunkLength) = Position(work, ChunkLength)
    BY <1>1, <1>6, <2>1, StackSplit DEF IInv
  <2>3. Stitched' = Stitched
    BY <1>2, <2>1 DEF Stitched
  <2>4. Types'
    BY <1>2, <1>4, <2>1 DEF IInv, Types
  <2>5. LoopInv'
    BY <1>1, <1>2, <2>1, <2>3 DEF IInv, LoopInv
  <2>6. FoundInv'
    BY <1>1, <1>2, <1>3, <2>1, <2>2 DEF IInv, FoundInv
  <2>7. MergedInv' /\ ReportInv'
    BY <1>1, <1>2, <1>3, <2>1, <2>3 DEF IInv, MergedInv, ReportInv
  <2> QED BY <1>3, <2>2, <2>4, <2>5, <2>6, <2>7 DEF IInv
<1> QED BY <1>5, <1>6

\* A failure leaves the report as it is.
LEMMA FailStep ==
  ASSUME IInv, Fail
  PROVE  IInv'
<1> USE DEF loop
<1>1. /\ audio' = audio /\ start' = start /\ prevEnd' = prevEnd /\ count' = count
      /\ work' = work /\ found' = found /\ merged' = merged /\ reported' = reported
      /\ flag' = flag /\ ooms' = ooms /\ pc' = "failed"
  BY DEF Fail
<1>2. Types' /\ LoopInv' /\ FoundInv' /\ MergedInv'
  BY <1>1 DEF IInv, Types, LoopInv, FoundInv, MergedInv
<1>3. Stack(work, ChunkLength)'
  BY <1>1 DEF IInv, ChunkLength, ChunkEnd
<1>4. ReportInv'
  <2>1. CASE pc = "begin"
    BY <1>1, <2>1 DEF IInv, ReportInv
  <2>2. CASE InChunk
    <3>1. pc = "chunk" /\ start < audio.total
      BY <2>2 DEF IInv, LoopInv, InChunk
    <3> QED BY <1>1, <3>1, CountIsBelow DEF ReportInv
  <2> QED BY <2>1, <2>2 DEF Fail
<1> QED BY <1>2, <1>3, <1>4 DEF IInv

\* What the chunk yielded is stitched on.
LEMMA StitchStep ==
  ASSUME IInv, Stitch
  PROVE  IInv'
<1> USE DEF loop
<1>1. /\ audio \in Recordings /\ audio.total \in Nat /\ IsRecording(audio)
      /\ pc = "chunk" /\ work = <<>> /\ start \in Nat /\ start < audio.total
      /\ count \in Nat /\ count > 0 /\ audio.total > Threshold
      /\ prevEnd \in 0..audio.total
  BY RecordingIs DEF IInv, Types, LoopInv, Stitch
<1>2. /\ audio' = audio /\ count' = count /\ work' = work /\ found' = found
      /\ flag' = flag /\ ooms' = ooms
      /\ prevEnd' = ChunkEnd /\ start' = start + Step /\ pc' = "top"
      /\ reported' = [done |-> count, total |-> TotalChunks]
  BY DEF Stitch
<1>3. merged' = merged \o Keep(Shift(found, start),
                               {x \in Range(Shift(found, start)) : x.from >= prevEnd})
  BY DEF Stitch, Fresh
<1>4. /\ ChunkLength \in Nat /\ start + ChunkLength = ChunkEnd /\ ChunkEnd \in Nat
      /\ start < ChunkEnd
  BY <1>1, Lengths
<1> DEFINE n == Stitched
<1>5. n = count - 1 /\ n \in Nat /\ count = n + 1 /\ start = n * Step
  BY <1>1 DEF IInv, LoopInv, Stitched
<1>6. prevEnd = IF start = 0 THEN 0 ELSE Smaller((start - Step) + Window, audio.total)
  BY <1>1 DEF IInv, LoopInv
<1> HIDE DEF n
<1>7. Step \in Nat \ {0} /\ Window \in Nat /\ Overlap \in Nat /\ Step + Overlap = Window
  BY StepIs, ChunkerAssumption
<1>8. ChunkEnd = Smaller(start + Window, audio.total) /\ ChunkEnd <= audio.total
  BY <1>1, <1>7 DEF ChunkEnd, Smaller
<1>9. (start - Step) + Window = start + Overlap
  BY <1>1, <1>7
<1>10. start <= prevEnd /\ prevEnd <= ChunkEnd
  <2> DEFINE t == audio.total
  <2>1. /\ prevEnd = IF start = 0 THEN 0 ELSE Smaller(start + Overlap, t)
        /\ ChunkEnd = Smaller(start + Window, t) /\ t \in Nat /\ start < t
    BY <1>1, <1>6, <1>8, <1>9
  <2> HIDE DEF t
  <2> QED BY <1>1, <1>7, <2>1 DEF Smaller
<1>11. ASSUME prevEnd # 0, prevEnd < ChunkEnd PROVE prevEnd \in Ends(audio)
  <2>1. prevEnd = (start - Step) + Window /\ start # 0
    BY <1>1, <1>6, <1>7, <1>8, <1>11 DEF Smaller
  <2>2. n > 0 /\ n - 1 \in Nat
    BY <1>5, <1>7, <2>1
  <2>3. (n - 1) * Step = start - Step
    BY <1>5, <1>7, <2>2, Multiples
  <2>4. (n - 1) * Step <= audio.total
    BY <1>1, <1>7, <2>3
  <2>5. n - 1 <= audio.total \div Step
    BY <1>1, <1>7, <2>2, <2>4, Ceiling
  <2>6. audio.total \div Step \in Nat
    BY <1>1, <1>7, Quotient
  <2>7. n - 1 \in 0..(audio.total \div Step)
    BY <2>2, <2>5, <2>6
  <2> QED BY <2>1, <2>3, <2>7 DEF Ends
<1>12. Transcript(audio, merged', ChunkEnd)
  <2>1. Transcript(audio, merged, prevEnd) /\ IsHeard(audio, found, start, ChunkLength)
    BY <1>1 DEF IInv, MergedInv, FoundInv, Position
  <2>2. prevEnd \in Nat
    BY <1>1
  <2>3. prevEnd # 0 /\ prevEnd < start + ChunkLength => audio.total > Threshold /\ prevEnd \in Ends(audio)
    BY <1>1, <1>4, <1>11
  <2>4. prevEnd <= start + ChunkLength
    BY <1>4, <1>10
  <2>5. Transcript(audio, merged', start + ChunkLength)
    BY <1>1, <1>3, <1>4, <1>10, <2>1, <2>2, <2>3, <2>4, StitchedIs
  <2> QED BY <1>4, <2>5
<1>13. TotalChunks \in Nat
  <2>1. 0 \in Nat
    OBVIOUS
  <2> QED BY <1>1, <2>1, TotalIs
<1>14. Types'
  <2>1. merged' \in Seq(Segments)
    BY <1>12 DEF Transcript
  <2>2. start + Step \in Nat /\ ChunkEnd \in 0..audio.total
    BY <1>1, <1>4, <1>7, <1>8
  <2>3. reported' \in [done : Nat, total : Nat]
    BY <1>1, <1>2, <1>13
  <2> QED BY <1>1, <1>2, <2>1, <2>2, <2>3 DEF IInv, Types
<1>15. Stack(work, ChunkLength)'
  BY <1>1, <1>2, EmptySeq DEF Stack
<1>16. Stitched' = n + 1 /\ TotalChunks' = TotalChunks
  BY <1>2, <1>5 DEF Stitched, TotalChunks
<1>17. LoopInv'
  <2>1. start + Step = (n + 1) * Step
    BY <1>5, <1>7, Multiples
  <2>2. (start + Step) - Step = start /\ start + Step # 0
    BY <1>1, <1>7
  <2>3. n + 1 \in Nat
    BY <1>5
  <2> QED BY <1>1, <1>2, <1>8, <1>16, <2>1, <2>2, <2>3 DEF LoopInv
<1>18. FoundInv'
  BY <1>2 DEF FoundInv
<1>19. MergedInv'
  BY <1>2, <1>12 DEF MergedInv
<1>20. ReportInv'
  <2>1. n + 1 # 0 /\ (n + 1) - 1 = n /\ n * Step < audio.total
    BY <1>1, <1>5
  <2> QED BY <1>2, <1>5, <1>16, <2>1 DEF ReportInv
<1> QED BY <1>14, <1>15, <1>17, <1>18, <1>19, <1>20 DEF IInv

\* At the end of the loop the count is the total.
LEMMA CountIsTotal ==
  ASSUME IInv, pc = "top"
  PROVE  /\ audio.total <= start => reported.done = reported.total /\ reported.total > 0
                                      /\ prevEnd = audio.total
         /\ start < audio.total => reported.done < reported.total \/ reported.total = 0
<1>1. /\ Stitched \in Nat /\ start = Stitched * Step /\ audio.total > Threshold
      /\ reported.done = Stitched
      /\ reported.total = IF Stitched = 0 THEN 0 ELSE TotalChunks
      /\ Stitched > 0 => (Stitched - 1) * Step < audio.total
      /\ prevEnd = IF start = 0 THEN 0 ELSE Smaller((start - Step) + Window, audio.total)
  BY DEF IInv, LoopInv, ReportInv
<1>2. audio.total \in Nat /\ audio.total > 0 /\ start \in Nat
  BY <1>1, RecordingIs, ChunkerAssumption DEF IInv, Types
<1>3. ASSUME audio.total <= start
      PROVE  reported.done = reported.total /\ reported.total > 0 /\ prevEnd = audio.total
  <2> DEFINE n == Stitched
  <2> HIDE DEF n
  <2>1. n # 0
    <3>1. 0 * Step = 0
      BY StepIs
    <3> QED BY <1>1, <1>2, <1>3, <3>1 DEF n
  <2>2. n \in Nat /\ n - 1 \in Nat /\ (n - 1) * Step < audio.total /\ ~(n * Step < audio.total)
    BY <1>1, <1>2, <1>3, <2>1 DEF n
  <2>3. TotalChunks \in Nat /\ n - 1 < TotalChunks /\ ~(n < TotalChunks)
    BY <1>2, <2>2, TotalIs
  <2>4. n = TotalChunks
    BY <2>2, <2>3
  <2>5. prevEnd = audio.total
    BY <1>1, <1>2, <1>3, StepIs, ChunkerAssumption DEF Smaller
  <2> QED BY <1>1, <2>1, <2>2, <2>4, <2>5 DEF n
<1>4. ASSUME start < audio.total PROVE reported.done < reported.total \/ reported.total = 0
  BY <1>4, CountIsBelow
<1> QED BY <1>3, <1>4

\* The loop ends when the last window has reached the end.
LEMMA FinishStep ==
  ASSUME IInv, Finish
  PROVE  IInv'
<1> USE DEF loop
<1>1. /\ audio' = audio /\ start' = start /\ prevEnd' = prevEnd /\ count' = count
      /\ work' = work /\ found' = found /\ merged' = merged /\ reported' = reported
      /\ flag' = flag /\ ooms' = ooms /\ pc' = "done"
      /\ pc = "top" /\ start >= audio.total
  BY DEF Finish
<1>2. audio.total <= start
  BY <1>1, RecordingIs DEF IInv, Types
<1>3. reported.done = reported.total /\ prevEnd = audio.total
  BY <1>1, <1>2, CountIsTotal
<1>4. Transcript(audio, merged, audio.total)
  BY <1>1, <1>3 DEF IInv, MergedInv
<1>5. Types' /\ LoopInv' /\ FoundInv'
  BY <1>1 DEF IInv, Types, LoopInv, FoundInv
<1>6. Stack(work, ChunkLength)'
  BY <1>1 DEF IInv, ChunkLength, ChunkEnd
<1>7. MergedInv' /\ ReportInv'
  BY <1>1, <1>3, <1>4 DEF MergedInv, ReportInv
<1> QED BY <1>5, <1>6, <1>7 DEF IInv

\* Every step keeps it.
LEMMA NextIInv ==
  ASSUME IInv, [Next]_vars
  PROVE  IInv'
BY SetFlagStep, FastPathStep, ChunkedStep, BeginChunkStep, TranscribeStep, OutOfMemoryStep,
   FailStep, StitchStep, FinishStep, StutterStep DEF Next

(***************************************************************************)
(* The inductive invariant holds: see its parts above.                     *)
(***************************************************************************)
THEOREM ChunkerInvCorrect == Spec => []IInv
<1>1. Init => IInv
  BY InitIInv
<1>2. IInv /\ [Next]_vars => IInv'
  BY NextIInv
<1> QED BY <1>1, <1>2, PTL DEF Spec

(***************************************************************************)
(* Every variable has its type, the slices are adjacent and none that came *)
(* from a split is shorter than half of the floor.                         *)
(***************************************************************************)
THEOREM ChunkerTypeCorrect == Spec => []TypeOK
<1>1. IInv => TypeOK
  <2> SUFFICES ASSUME IInv PROVE TypeOK
    OBVIOUS
  <2>1. Stack(work, ChunkLength) /\ Types
    BY DEF IInv
  <2>2. work \in Seq(Slices) /\ DOMAIN work = 1..Len(work)
    BY <2>1, LenProperties DEF Stack
  <2>3. WorkOK
    BY <2>1, <2>2 DEF Stack, IsSlice, WorkOK, ChunkLength
  <2>4. \A i \in DOMAIN merged : merged[i].from < merged[i].to
    BY <2>1, SegmentsAre DEF Types
  <2> QED BY <2>1, <2>3, <2>4 DEF Types, TypeOK
<1> QED BY <1>1, ChunkerInvCorrect, PTL

(***************************************************************************)
(* A transcript that is done is in order and has every second of speech    *)
(* and nothing else, but for what a window's end cut off, for any sizes of *)
(* window, overlap and floor, any recording and any splits.                *)
(***************************************************************************)
THEOREM TranscriptIsStitchedCorrect == Spec => []TranscriptIsStitched
<1>1. IInv => TranscriptIsStitched
  <2> SUFFICES ASSUME IInv, pc = "done" PROVE TranscriptIsStitched
    BY DEF TranscriptIsStitched
  <2>1. audio.total \in Nat /\ Transcript(audio, merged, audio.total)
    BY RecordingIs DEF IInv, Types, MergedInv
  <2>2. \A t : /\ Spoken(t) <=> Said(audio, t)
               /\ CutOff(t) <=> Cut(audio, t)
               /\ Written(t) # {} <=> Has(merged, t)
    BY DEF Spoken, Said, CutOff, Cut, WindowEnds, Ends, Written, Has
  <2>3. \A i, j \in DOMAIN merged : i < j => merged[i].to <= merged[j].from
    BY <2>1 DEF Transcript, Ordered
  <2>4. ASSUME NEW t \in 0..(audio.total - 1)
        PROVE  /\ Spoken(t) /\ ~CutOff(t) => Written(t) # {}
               /\ Written(t) # {} => Spoken(t)
    <3>1. Said(audio, t) /\ ~Cut(audio, t) => Has(merged, t)
      BY <2>1 DEF Transcript
    <3>2. ASSUME Has(merged, t) PROVE Said(audio, t)
      <4>1. PICK i \in DOMAIN merged : merged[i].from <= t /\ t < merged[i].to
        BY <3>2 DEF Has
      <4>2. PICK k \in DOMAIN audio.speech :
              audio.speech[k].from <= 0 + merged[i].from /\ 0 + merged[i].to <= audio.speech[k].to
        BY <2>1 DEF Transcript, Uttered
      <4>3. merged[i].from \in Nat /\ merged[i].to \in Nat
        BY <2>1, SegmentsAre DEF Transcript
      <4>4. audio.speech[k].from \in Nat /\ audio.speech[k].to \in Nat
        <5>1. audio.speech \in [1..Len(audio.speech) -> [from : Nat, to : Nat]]
          BY RecordingIs, LenProperties DEF IInv, Types, IsRecording
        <5> QED BY <5>1
      <4>5. audio.speech[k].from <= t /\ t < audio.speech[k].to
        BY <4>1, <4>2, <4>3, <4>4
      <4> QED BY <4>5 DEF Said
    <3> QED BY <2>2, <3>1, <3>2
  <2> QED BY <2>3, <2>4 DEF TranscriptIsStitched
<1> QED BY <1>1, ChunkerInvCorrect, PTL

(***************************************************************************)
(* The count that is reported does not pass the total, and is the total    *)
(* when the recording is done and only then, for any sizes and recordings. *)
(***************************************************************************)
THEOREM ProgressIsFullCorrect == Spec => []ProgressIsFull
<1>1. IInv => ProgressIsFull
  <2> SUFFICES ASSUME IInv PROVE ProgressIsFull
    OBVIOUS
  <2>1. /\ reported.done \in Nat /\ reported.total \in Nat /\ start \in Nat
        /\ audio.total \in Nat
        /\ pc \in {"begin", "top", "chunk", "done", "failed", "cancelled"}
    BY RecordingIs DEF IInv, Types
  <2>2. CASE pc = "begin" \/ pc = "done" \/ pc \in {"failed", "cancelled"}
    BY <2>1, <2>2 DEF IInv, ReportInv, ProgressIsFull
  <2>3. CASE pc = "top"
    <3>1. audio.total <= start \/ start < audio.total
      BY <2>1
    <3>2. reported.total = 0 => reported.done = 0
      <4>1. /\ reported.done = Stitched /\ Stitched \in Nat
            /\ reported.total = IF Stitched = 0 THEN 0 ELSE TotalChunks
        BY <2>3 DEF IInv, ReportInv, LoopInv
      <4>2. Stitched > 0 => Stitched - 1 \in Nat /\ (Stitched - 1) * Step < audio.total
        BY <2>3, <4>1 DEF IInv, ReportInv
      <4>3. Stitched > 0 => TotalChunks > 0
        BY <2>1, <4>2, TotalIs
      <4> QED BY <4>1, <4>3
    <3> QED BY <2>1, <2>3, <3>1, <3>2, CountIsTotal DEF ProgressIsFull
  <2>4. CASE pc = "chunk"
    <3>1. reported.done < reported.total \/ (reported.done = 0 /\ reported.total = 0)
      <4>1. start < audio.total
        BY <2>4 DEF IInv, LoopInv
      <4> QED BY <2>4, <4>1, CountIsBelow
    <3> QED BY <2>1, <2>4, <3>1 DEF ProgressIsFull
  <2> QED BY <2>1, <2>2, <2>3, <2>4
<1> QED BY <1>1, ChunkerInvCorrect, PTL

=============================================================================
