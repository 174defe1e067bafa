------------------------------ MODULE ListLemmas ------------------------------
(***************************************************************************)
(* What the operations of the code on its lists and queues do: arrivals,   *)
(* acceptance of the oldest, and the suffixes that reaping and evicting    *)
(* leave.                                                                  *)
(***************************************************************************)
EXTENDS Lists, SequenceTheorems, WellFoundedInduction, TLAPS

\* A nonempty set of natural numbers has a least element, so that the CHOOSE
\* in Reaped, the model of _reap(), picks one.
LEMMA LeastElement ==
    ASSUME NEW T \in SUBSET Nat, T # {}
    PROVE  \E x \in T : \A y \in T : x <= y
<1>1. PICK x \in T : \A y \in T : ~ (<<y, x>> \in OpToRel(<, Nat))
  BY NatLessThanWellFounded, WFMin
<1>2. \A y \in T : ~ (y < x)
  BY <1>1 DEF OpToRel
<1> QED
  BY <1>2

\* A set of the first numbers is empty, if none is its first: how a fact about
\* a prefix of a list is shown to hold of every longer one.
LEMMA CountUp ==
    ASSUME NEW n \in Nat, NEW T \in SUBSET (0 .. n), 0 \notin T,
           \A k \in 1 .. n : k \in T => k - 1 \in T
    PROVE  T = {}
<1> SUFFICES ASSUME T # {} PROVE FALSE
  OBVIOUS
<1>1. PICK k \in T : \A i \in T : k <= i
  <2>1. T \in SUBSET Nat
    OBVIOUS
  <2> QED
    BY <2>1, LeastElement
<1>2. k \in 1 .. n
  BY <1>1
<1>3. k - 1 \in T /\ ~ (k <= k - 1)
  BY <1>1, <1>2
<1> QED
  BY <1>1, <1>3

-----------------------------------------------------------------------------
\* Appending to a sequence adds one element, at the end (the arrival of a
\* connection in the queue, the append of _refuse()).
LEMMA AppendElems ==
    ASSUME NEW S, NEW s \in Seq(S), NEW e \in S
    PROVE  /\ Append(s, e) \in Seq(S)
           /\ Len(Append(s, e)) = Len(s) + 1
           /\ \A i \in 1 .. Len(s) : Append(s, e)[i] = s[i]
           /\ Append(s, e)[Len(s) + 1] = e
           /\ Elems(Append(s, e)) = Elems(s) \cup {e}
<1>1. /\ Append(s, e) \in Seq(S)
      /\ Len(Append(s, e)) = Len(s) + 1
      /\ \A i \in 1 .. Len(s) : Append(s, e)[i] = s[i]
      /\ Append(s, e)[Len(s) + 1] = e
  BY AppendProperties
<1>2. Elems(Append(s, e)) = Elems(s) \cup {e}
  BY <1>1, LenProperties DEF Elems
<1> QED
  BY <1>1, <1>2

\* A suffix is what both _reap() and the pops of _refuse() leave.
LEMMA SuffixElems ==
    ASSUME NEW S, NEW s \in Seq(S), NEW m \in 1 .. Len(s)
    PROVE  /\ SubSeq(s, m, Len(s)) \in Seq(S)
           /\ Len(SubSeq(s, m, Len(s))) = Len(s) - m + 1
           /\ \A i \in 1 .. Len(s) - m + 1 : SubSeq(s, m, Len(s))[i] = s[m + i - 1]
           /\ Elems(SubSeq(s, m, Len(s))) = {s[j] : j \in m .. Len(s)}
<1>1. Len(s) \in Nat /\ \A i \in m .. Len(s) : s[i] \in S
  BY LenProperties, ElementOfSeq
<1>2. /\ SubSeq(s, m, Len(s)) \in Seq(S)
      /\ Len(SubSeq(s, m, Len(s))) = Len(s) - m + 1
      /\ \A i \in 1 .. Len(s) - m + 1 : SubSeq(s, m, Len(s))[i] = s[m + i - 1]
  BY <1>1, SubSeqProperties
<1>3. Elems(SubSeq(s, m, Len(s))) = {s[j] : j \in m .. Len(s)}
  <2>1. ASSUME NEW j \in m .. Len(s)
        PROVE  s[j] \in Elems(SubSeq(s, m, Len(s)))
    <3>1. j - m + 1 \in 1 .. Len(s) - m + 1
      BY <1>1
    <3>2. SubSeq(s, m, Len(s))[j - m + 1] = s[m + (j - m + 1) - 1]
      BY <1>2, <3>1
    <3>3. m + (j - m + 1) - 1 = j
      BY <1>1
    <3> QED
      BY <1>2, <3>1, <3>2, <3>3 DEF Elems
  <2>2. ASSUME NEW c \in Elems(SubSeq(s, m, Len(s)))
        PROVE  c \in {s[j] : j \in m .. Len(s)}
    <3>1. PICK i \in 1 .. Len(s) - m + 1 : c = SubSeq(s, m, Len(s))[i]
      BY <1>2 DEF Elems
    <3>2. c = s[m + i - 1] /\ m + i - 1 \in m .. Len(s)
      BY <1>1, <1>2, <3>1
    <3> QED
      BY <3>2
  <2> QED
    BY <2>1, <2>2
<1> QED
  BY <1>2, <1>3

\* Accepting from the queue removes its oldest element.
LEMMA HeadTailElems ==
    ASSUME NEW S, NEW s \in Seq(S), s # <<>>
    PROVE  /\ Len(s) \in Nat \ {0}
           /\ Head(s) \in S /\ Head(s) = s[1]
           /\ Tail(s) \in Seq(S)
           /\ Len(Tail(s)) = Len(s) - 1
           /\ \A i \in 1 .. Len(s) - 1 : Tail(s)[i] = s[i + 1]
           /\ Elems(s) = Elems(Tail(s)) \cup {Head(s)}
<1>1. /\ Len(s) \in Nat \ {0}
      /\ Head(s) \in S /\ Head(s) = s[1]
      /\ Tail(s) \in Seq(S)
      /\ Len(Tail(s)) = Len(s) - 1
      /\ \A i \in 1 .. Len(s) - 1 : Tail(s)[i] = s[i + 1]
  BY HeadTailProperties, EmptySeq
<1>2. ASSUME NEW i \in 1 .. Len(s)
      PROVE  s[i] \in Elems(Tail(s)) \cup {Head(s)}
  <2>1. CASE i = 1
    BY <1>1, <2>1
  <2>2. CASE i # 1
    <3>1. i - 1 \in 1 .. Len(s) - 1 /\ (i - 1) + 1 = i
      BY <1>1, <2>2
    <3> QED
      BY <1>1, <3>1 DEF Elems
  <2> QED
    BY <2>1, <2>2
<1>3. Elems(Tail(s)) \subseteq Elems(s)
  BY <1>1 DEF Elems
<1>4. Head(s) \in Elems(s)
  BY <1>1 DEF Elems
<1> QED
  BY <1>1, <1>2, <1>3, <1>4 DEF Elems

\* Part of a list that is taken to one entry further.
LEMMA LongerSubSeq ==
    ASSUME NEW S, NEW s \in Seq(S), NEW m \in 1 .. Len(s), NEW n \in m .. Len(s)
    PROVE  SubSeq(s, m, n) = Append(SubSeq(s, m, n - 1), s[n])
<1> DEFINE t == SubSeq(s, m, n - 1)
<1>1. Len(s) \in Nat /\ m \in Nat /\ n \in Nat /\ 1 <= m /\ m <= n /\ n <= Len(s)
  BY LenProperties
<1>2. \A i \in 1 .. Len(s) : s[i] \in S
  BY ElementOfSeq
<1>3. /\ SubSeq(s, m, n) \in Seq(S)
      /\ Len(SubSeq(s, m, n)) = n - m + 1
      /\ \A i \in 1 .. n - m + 1 : SubSeq(s, m, n)[i] = s[m + i - 1]
  BY <1>1, <1>2, SubSeqProperties
<1>4. /\ t \in Seq(S)
      /\ Len(t) = n - m
      /\ \A i \in 1 .. n - m : t[i] = s[m + i - 1]
  <2>1. /\ t \in Seq(S)
        /\ Len(t) = IF m <= n - 1 THEN n - 1 - m + 1 ELSE 0
        /\ \A i \in 1 .. n - 1 - m + 1 : t[i] = s[m + i - 1]
    BY <1>1, <1>2, SubSeqProperties
  <2>2. n - 1 - m + 1 = n - m /\ (m <= n - 1 \/ n - m = 0)
    BY <1>1
  <2> QED
    BY <2>1, <2>2
<1>5. s[n] \in S
  BY <1>1, <1>2
<1> HIDE DEF t
<1>6. /\ Append(t, s[n]) \in Seq(S)
      /\ Len(Append(t, s[n])) = n - m + 1
      /\ \A i \in 1 .. n - m : Append(t, s[n])[i] = s[m + i - 1]
      /\ Append(t, s[n])[n - m + 1] = s[n]
  BY <1>4, <1>5, AppendElems
<1>7. ASSUME NEW i \in 1 .. n - m + 1
      PROVE  SubSeq(s, m, n)[i] = Append(t, s[n])[i]
  <2>1. CASE i \in 1 .. n - m
    BY <1>3, <1>6, <2>1
  <2>2. CASE i = n - m + 1
    <3>1. m + i - 1 = n
      BY <1>1, <2>2
    <3> QED
      BY <1>3, <1>6, <2>2, <3>1
  <2>3. i \in 1 .. n - m \/ i = n - m + 1
    BY <1>1
  <2> QED
    BY <2>1, <2>2, <2>3
<1>8. SubSeq(s, m, n) = Append(t, s[n])
  BY <1>3, <1>6, <1>7, SeqEqual
<1> QED
  BY <1>8 DEF t

-----------------------------------------------------------------------------
(* Lists without duplicates.                                                *)

\* An arrival of something new is one more element.
LEMMA AppendDistinct ==
    ASSUME NEW S, NEW s \in Seq(S), NEW e \in S, Distinct(s), e \notin Elems(s)
    PROVE  /\ Append(s, e) \in Seq(S)
           /\ Distinct(Append(s, e))
           /\ Elems(Append(s, e)) = Elems(s) \cup {e}
<1>1. /\ Append(s, e) \in Seq(S)
      /\ Len(Append(s, e)) = Len(s) + 1
      /\ \A i \in 1 .. Len(s) : Append(s, e)[i] = s[i]
      /\ Append(s, e)[Len(s) + 1] = e
      /\ Len(s) \in Nat
  BY AppendProperties, LenProperties
<1>2. Elems(Append(s, e)) = Elems(s) \cup {e}
  BY <1>1 DEF Elems
<1>3. ASSUME NEW i \in 1 .. Len(s) + 1, NEW k \in 1 .. Len(s) + 1,
             Append(s, e)[i] = Append(s, e)[k]
      PROVE  i = k
  <2>1. CASE i \in 1 .. Len(s) /\ k \in 1 .. Len(s)
    BY <1>1, <1>3, <2>1 DEF Distinct
  <2>2. CASE i = Len(s) + 1 /\ k \in 1 .. Len(s)
    BY <1>1, <1>3, <2>2 DEF Elems
  <2>3. CASE i \in 1 .. Len(s) /\ k = Len(s) + 1
    BY <1>1, <1>3, <2>3 DEF Elems
  <2> QED
    BY <1>1, <2>1, <2>2, <2>3
<1> QED
  BY <1>1, <1>2, <1>3 DEF Distinct

\* The oldest element is the one that is taken out.
LEMMA TailDistinct ==
    ASSUME NEW S, NEW s \in Seq(S), s # <<>>, Distinct(s)
    PROVE  /\ Tail(s) \in Seq(S)
           /\ Distinct(Tail(s))
           /\ Head(s) \in Elems(s) /\ Head(s) \in S
           /\ Elems(Tail(s)) = Elems(s) \ {Head(s)}
<1>1. /\ Len(s) \in Nat \ {0}
      /\ Head(s) \in S /\ Head(s) = s[1]
      /\ Tail(s) \in Seq(S)
      /\ Len(Tail(s)) = Len(s) - 1
      /\ \A i \in 1 .. Len(s) - 1 : Tail(s)[i] = s[i + 1]
  BY HeadTailProperties, EmptySeq
<1>2. Head(s) \in Elems(s)
  BY <1>1 DEF Elems
<1>3. Distinct(Tail(s))
  BY <1>1 DEF Distinct
<1>4. ASSUME NEW i \in 1 .. Len(s), s[i] # Head(s)
      PROVE  s[i] \in Elems(Tail(s))
  <2>1. i - 1 \in 1 .. Len(s) - 1 /\ (i - 1) + 1 = i
    BY <1>1, <1>4
  <2> QED
    BY <1>1, <2>1 DEF Elems
<1>5. ASSUME NEW i \in 1 .. Len(s) - 1
      PROVE  s[i + 1] \in Elems(s) /\ s[i + 1] # Head(s)
  <2>1. i + 1 \in 1 .. Len(s) /\ 1 \in 1 .. Len(s) /\ i + 1 # 1
    BY <1>1
  <2> QED
    BY <1>1, <2>1 DEF Elems, Distinct
<1>6. Elems(Tail(s)) \subseteq Elems(s) \ {Head(s)}
  BY <1>1, <1>5 DEF Elems
<1>7. Elems(s) \ {Head(s)} \subseteq Elems(Tail(s))
  <2>1. \A e \in Elems(s) : \E i \in 1 .. Len(s) : e = s[i]
    BY DEF Elems
  <2> QED
    BY <1>4, <2>1
<1> QED
  BY <1>1, <1>2, <1>3, <1>6, <1>7
=============================================================================
