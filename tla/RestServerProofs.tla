--------------------------- MODULE RestServerProofs ---------------------------
(***************************************************************************)
(* Theorems about RestServer for every value of its constants.              *)
(***************************************************************************)
EXTENDS RestServer, ListLemmas, FiniteSetTheorems, TLAPS

USE ConnAssumption, FlagAssumption, TimeAssumption, BoundAssumption

-----------------------------------------------------------------------------
(* The list of refused connections.                                         *)

\* The types of the list and of the time to its deadlines.
ListTypes == refused \in Seq(Conns) /\ left \in [Conns -> 0 .. RefuseLinger]

\* The comprehension in _reap() goes through the list entry by entry: a function
\* that does exists.
LEMMA UnexpiredSteps ==
    ASSUME ListTypes
    PROVE  \A n \in 0 .. Len(refused) :
               Unexpired[n] = IF n = 0 THEN <<>>
                              ELSE IF left[refused[n]] > 0
                                   THEN Append(Unexpired[n - 1], refused[n])
                              ELSE Unexpired[n - 1]
<1> DEFINE Upon(f, n) == IF n = 0 THEN <<>>
                         ELSE IF left[refused[n]] > 0 THEN Append(f[n - 1], refused[n])
                         ELSE f[n - 1]
           Exists(k) == \E f : f = [n \in 0 .. k |-> Upon(f, n)]
           T == {k \in 0 .. Len(refused) : ~ Exists(k)}
<1>1. Len(refused) \in Nat
  BY LenProperties DEF ListTypes
<1>2. Exists(0)
  <2> DEFINE f == [n \in 0 .. 0 |-> <<>>]
  <2>1. \A n \in 0 .. 0 : Upon(f, n) = <<>>
    OBVIOUS
  <2>2. f = [n \in 0 .. 0 |-> Upon(f, n)]
    BY <2>1
  <2> QED
    BY <2>2
<1>3. ASSUME NEW k \in 1 .. Len(refused), Exists(k - 1)
      PROVE  Exists(k)
  <2>1. PICK f : f = [n \in 0 .. k - 1 |-> Upon(f, n)]
    BY <1>3
  <2> DEFINE g == [n \in 0 .. k |-> IF n < k THEN f[n] ELSE Upon(f, k)]
  <2>2. \A n \in 0 .. k - 1 : g[n] = f[n] /\ f[n] = Upon(f, n)
    <3>1. \A n \in 0 .. k - 1 : g[n] = f[n]
      BY <1>1
    <3>2. \A n \in 0 .. k - 1 : f[n] = Upon(f, n)
      BY <2>1, Zenon
    <3> QED
      BY <3>1, <3>2
  <2>3. g[k] = Upon(f, k)
    BY <1>1
  <2> HIDE DEF g
  <2>4. ASSUME NEW n \in 0 .. k
        PROVE  Upon(f, n) = Upon(g, n)
    <3>1. n # 0 => n - 1 \in 0 .. k - 1
      BY <1>1
    <3> QED
      BY <2>2, <3>1
  <2>5. \A n \in 0 .. k : g[n] = Upon(g, n)
    <3>1. \A n \in 0 .. k : n = k \/ n \in 0 .. k - 1
      BY <1>1
    <3> QED
      BY <2>2, <2>3, <2>4, <3>1
  <2>6. g = [n \in 0 .. k |-> g[n]]
    BY DEF g
  <2>7. g = [n \in 0 .. k |-> Upon(g, n)]
    BY <2>5, <2>6
  <2> QED
    BY <2>7
<1>4. T = {}
  <2>1. T \in SUBSET (0 .. Len(refused)) /\ 0 \notin T
    BY <1>2
  <2>2. \A k \in 1 .. Len(refused) : k \in T => k - 1 \in T
    <3> SUFFICES ASSUME NEW k \in 1 .. Len(refused), ~ Exists(k)
                 PROVE  k - 1 \in T
      OBVIOUS
    <3>1. k - 1 \in 0 .. Len(refused)
      BY <1>1
    <3>2. ~ Exists(k - 1)
      BY <1>3
    <3> QED
      BY <3>1, <3>2
  <2> HIDE DEF T
  <2> QED
    BY <1>1, <2>1, <2>2, CountUp
<1>5. Exists(Len(refused))
  <2>1. Len(refused) \in 0 .. Len(refused)
    BY <1>1
  <2> HIDE DEF Exists
  <2> QED
    BY <1>4, <2>1
<1>6. Unexpired = CHOOSE f : f = [n \in 0 .. Len(refused) |-> Upon(f, n)]
  BY Zenon DEF Unexpired
<1>7. Unexpired = [n \in 0 .. Len(refused) |-> Upon(Unexpired, n)]
  BY <1>5, <1>6, Zenon
<1> QED
  BY <1>7, Zenon

\* Of a list it keeps a list.
LEMMA ReapedType ==
    ASSUME ListTypes
    PROVE  Reaped \in Seq(Conns)
<1> DEFINE T == {n \in 0 .. Len(refused) : Unexpired[n] \notin Seq(Conns)}
<1>1. /\ Len(refused) \in Nat
      /\ \A i \in 1 .. Len(refused) : refused[i] \in Conns
  BY LenProperties, ElementOfSeq DEF ListTypes
<1>2. T \in SUBSET (0 .. Len(refused)) /\ 0 \notin T
  BY <1>1, UnexpiredSteps, EmptySeq
<1>3. ASSUME NEW n \in 1 .. Len(refused), Unexpired[n - 1] \in Seq(Conns)
      PROVE  Unexpired[n] \in Seq(Conns)
  <2>1. n \in 0 .. Len(refused) /\ n # 0 /\ refused[n] \in Conns
    BY <1>1
  <2>2. \/ Unexpired[n] = Append(Unexpired[n - 1], refused[n])
        \/ Unexpired[n] = Unexpired[n - 1]
    BY <2>1, UnexpiredSteps
  <2> QED
    BY <1>3, <2>1, <2>2, AppendProperties
<1>4. \A n \in 1 .. Len(refused) : n \in T => n - 1 \in T
  <2>1. \A n \in 1 .. Len(refused) : n - 1 \in 0 .. Len(refused)
    BY <1>1
  <2> QED
    BY <1>3, <2>1
<1> HIDE DEF T
<1>5. T = {}
  BY <1>1, <1>2, <1>4, CountUp
<1>6. Len(refused) \in 0 .. Len(refused)
  BY <1>1
<1> QED
  BY <1>5, <1>6 DEF T, Reaped

\* The entries that are not due, and the part of the list from the first of
\* them on.
Alive == {i \in 1 .. Len(refused) : left[refused[i]] > 0}
Cut == IF Alive = {} THEN <<>>
       ELSE SubSeq(refused, CHOOSE i \in Alive : \A j \in Alive : i <= j, Len(refused))

LEMMA CutSuffix ==
    ASSUME ListTypes
    PROVE  /\ Cut \in Seq(Conns)
           /\ \E d \in Nat : /\ Len(Cut) = Len(refused) - d
                             /\ \A i \in 1 .. Len(Cut) :
                                   Cut[i] = refused[i + d]
           /\ Alive = {} => Cut = <<>>
           /\ Alive # {} =>
                \E m \in Alive : /\ \A j \in Alive : m <= j
                                 /\ Elems(Cut) = {refused[j] : j \in m .. Len(refused)}
<1>1. Len(refused) \in Nat
  BY LenProperties DEF ListTypes
<1>2. CASE Alive = {}
  <2>1. Cut = <<>> /\ Len(Cut) = 0 /\ Cut \in Seq(Conns)
    BY <1>2, EmptySeq DEF Cut
  <2>2. Len(Cut) = Len(refused) - Len(refused)
    BY <1>1, <2>1
  <2> QED
    BY <1>1, <1>2, <2>1, <2>2
<1>3. CASE Alive # {}
  <2> DEFINE m == CHOOSE i \in Alive : \A j \in Alive : i <= j
             e == m - 1
  <2>1. m \in Alive /\ \A j \in Alive : m <= j
    <3>1. Alive \in SUBSET Nat
      BY <1>1 DEF Alive
    <3>2. \E i \in Alive : \A j \in Alive : i <= j
      BY <1>3, <3>1, LeastElement
    <3> QED
      BY <3>2
  <2>2. Cut = SubSeq(refused, m, Len(refused))
    BY <1>3 DEF Cut
  <2> HIDE DEF m
  <2>3. m \in 1 .. Len(refused)
    BY <2>1 DEF Alive
  <2>4. /\ Cut \in Seq(Conns)
        /\ Len(Cut) = Len(refused) - m + 1
        /\ \A i \in 1 .. Len(refused) - m + 1 : Cut[i] = refused[m + i - 1]
        /\ Elems(Cut) = {refused[j] : j \in m .. Len(refused)}
    BY <2>2, <2>3, SuffixElems DEF ListTypes
  <2>5. /\ e \in Nat
        /\ Len(Cut) = Len(refused) - e
        /\ \A i \in 1 .. Len(Cut) : Cut[i] = refused[i + e]
    BY <1>1, <2>3, <2>4
  <2> HIDE DEF e
  <2> QED
    BY <1>3, <2>1, <2>4, <2>5
<1> QED
  BY <1>2, <1>3

\* When the deadlines are in order, so that no entry that is due hides behind one
\* that is not, what the comprehension keeps of the whole list is that part.
LEMMA ReapCuts ==
    ASSUME ListTypes, RefusedInOrder
    PROVE  Reaped = Cut
<1>1. /\ Len(refused) \in Nat
      /\ \A i \in 1 .. Len(refused) : refused[i] \in Conns /\ left[refused[i]] \in Nat
  BY LenProperties, ElementOfSeq DEF ListTypes
<1>2. Len(refused) \in 0 .. Len(refused)
  BY <1>1
<1>3. CASE Alive = {}
  <2> DEFINE T == {n \in 0 .. Len(refused) : Unexpired[n] # <<>>}
  <2>1. T \in SUBSET (0 .. Len(refused)) /\ 0 \notin T
    BY <1>1, UnexpiredSteps
  <2>2. \A n \in 1 .. Len(refused) : n \in T => n - 1 \in T
    <3> SUFFICES ASSUME NEW n \in 1 .. Len(refused)
                 PROVE  Unexpired[n] = Unexpired[n - 1] /\ n - 1 \in 0 .. Len(refused)
      OBVIOUS
    <3>1. ~ (left[refused[n]] > 0) /\ n # 0 /\ n \in 0 .. Len(refused)
      BY <1>1, <1>3 DEF Alive
    <3> QED
      BY <1>1, <3>1, UnexpiredSteps
  <2> HIDE DEF T
  <2>3. T = {}
    BY <1>1, <2>1, <2>2, CountUp
  <2>4. Unexpired[Len(refused)] = <<>>
    BY <1>2, <2>3 DEF T
  <2> QED
    BY <1>3, <2>4 DEF Reaped, Cut
<1>4. CASE Alive # {}
  <2> DEFINE m == CHOOSE i \in Alive : \A j \in Alive : i <= j
  <2>1. m \in Alive /\ \A j \in Alive : m <= j
    <3>1. Alive \in SUBSET Nat
      BY <1>1 DEF Alive
    <3>2. \E i \in Alive : \A j \in Alive : i <= j
      BY <1>4, <3>1, LeastElement
    <3> QED
      BY <3>2
  <2>2. Cut = SubSeq(refused, m, Len(refused))
    BY <1>4 DEF Cut
  <2> HIDE DEF m
  <2>3. m \in 1 .. Len(refused) /\ left[refused[m]] > 0
    BY <2>1 DEF Alive
  <2>4. \A n \in 1 .. Len(refused) : left[refused[n]] > 0 <=> m <= n
    <3> SUFFICES ASSUME NEW n \in 1 .. Len(refused)
                 PROVE  left[refused[n]] > 0 <=> m <= n
      OBVIOUS
    <3>1. left[refused[n]] > 0 => m <= n
      BY <2>1 DEF Alive
    <3>2. m <= n => left[refused[m]] <= left[refused[n]]
      BY <2>3 DEF RefusedInOrder
    <3> QED
      BY <1>1, <2>3, <3>1, <3>2
  <2> DEFINE T == {n \in 0 .. Len(refused) : Unexpired[n] # SubSeq(refused, m, n)}
  <2>5. T \in SUBSET (0 .. Len(refused)) /\ 0 \notin T
    <3>1. SubSeq(refused, m, 0) = <<>>
      BY <1>1, <2>3, SubSeqEmpty
    <3>2. Unexpired[0] = <<>>
      BY <1>1, UnexpiredSteps
    <3> QED
      BY <3>1, <3>2
  <2>6. ASSUME NEW n \in 1 .. Len(refused), Unexpired[n - 1] = SubSeq(refused, m, n - 1)
        PROVE  Unexpired[n] = SubSeq(refused, m, n)
    <3>1. Unexpired[n] = IF m <= n THEN Append(SubSeq(refused, m, n - 1), refused[n])
                         ELSE SubSeq(refused, m, n - 1)
      <4>1. n \in 0 .. Len(refused) /\ n # 0
        BY <1>1
      <4> QED
        BY <2>4, <2>6, <4>1, UnexpiredSteps
    <3>2. CASE m <= n
      BY <1>1, <2>3, <3>1, <3>2, LongerSubSeq DEF ListTypes
    <3>3. CASE n < m
      BY <1>1, <2>3, <3>1, <3>3, SubSeqEmpty
    <3> QED
      BY <1>1, <2>3, <3>2, <3>3
  <2>7. \A n \in 1 .. Len(refused) : n \in T => n - 1 \in T
    <3>1. \A n \in 1 .. Len(refused) : n - 1 \in 0 .. Len(refused)
      BY <1>1
    <3> QED
      BY <2>6, <3>1
  <2> HIDE DEF T
  <2>8. T = {}
    BY <1>1, <2>5, <2>7, CountUp
  <2>9. Unexpired[Len(refused)] = SubSeq(refused, m, Len(refused))
    BY <1>2, <2>8 DEF T
  <2> QED
    BY <2>2, <2>9 DEF Reaped
<1> QED
  BY <1>3, <1>4

\* Then it keeps exactly the connections that are not due.
LEMMA ReapedElems ==
    ASSUME ListTypes, RefusedInOrder
    PROVE  Elems(Reaped) = {c \in Elems(refused) : left[c] > 0}
<1>1. /\ Len(refused) \in Nat
      /\ \A i \in 1 .. Len(refused) : refused[i] \in Conns /\ left[refused[i]] \in Nat
  BY LenProperties, ElementOfSeq DEF ListTypes
<1>cut. Reaped = Cut
  BY ReapCuts
<1>2. CASE Alive = {}
  <2>1. Reaped = <<>> /\ Len(Reaped) = 0
    BY <1>2, <1>cut, CutSuffix, EmptySeq
  <2> QED
    BY <1>2, <2>1 DEF Elems, Alive
<1>3. CASE Alive # {}
  <2>1. PICK m \in Alive : /\ \A j \in Alive : m <= j
                           /\ Elems(Reaped) = {refused[j] : j \in m .. Len(refused)}
    BY <1>3, <1>cut, CutSuffix
  <2>2. m \in 1 .. Len(refused) /\ left[refused[m]] > 0
    BY <2>1 DEF Alive
  <2>3. \A j \in 1 .. Len(refused) : left[refused[j]] > 0 <=> j \in m .. Len(refused)
    <3> SUFFICES ASSUME NEW j \in 1 .. Len(refused)
                 PROVE  left[refused[j]] > 0 <=> j \in m .. Len(refused)
      OBVIOUS
    <3>1. CASE j < m
      BY <1>1, <2>1, <2>2, <3>1 DEF Alive
    <3>2. CASE m <= j
      BY <1>1, <2>2, <3>2 DEF RefusedInOrder
    <3> QED
      BY <1>1, <2>2, <3>1, <3>2
  <2>4. ASSUME NEW j \in m .. Len(refused)
        PROVE  refused[j] \in Elems(refused) /\ left[refused[j]] > 0
    <3>1. j \in 1 .. Len(refused)
      BY <1>1, <2>2
    <3> QED
      BY <2>3, <3>1 DEF Elems
  <2>5. ASSUME NEW c \in Elems(refused), left[c] > 0
        PROVE  c \in {refused[j] : j \in m .. Len(refused)}
    <3>1. PICK j \in 1 .. Len(refused) : c = refused[j]
      BY DEF Elems
    <3>2. j \in m .. Len(refused)
      BY <2>3, <2>5, <3>1
    <3> QED
      BY <3>1, <3>2
  <2> QED
    BY <2>1, <2>4, <2>5
<1> QED
  BY <1>2, <1>3

\* _refuse() appends and pops: the new entry is last, the oldest ones go, and
\* no more than RefuseMax are left.
LEMMA KeptProps ==
    ASSUME ListTypes, cur \in Conns
    PROVE  /\ Kept \in Seq(Conns)
           /\ Len(Kept) \in 1 .. RefuseMax
           /\ Kept[Len(Kept)] = cur
           /\ \E d \in Nat : /\ Len(Kept) = Len(refused) + 1 - d
                             /\ \A i \in 1 .. Len(Kept) - 1 :
                                   Kept[i] = refused[i + d]
<1> DEFINE r == Append(refused, cur)
<1>1. Len(refused) \in Nat
  BY LenProperties DEF ListTypes
<1>2. /\ r \in Seq(Conns)
      /\ Len(r) = Len(refused) + 1
      /\ \A i \in 1 .. Len(refused) : r[i] = refused[i]
      /\ r[Len(refused) + 1] = cur
  BY AppendElems DEF ListTypes
<1>3. CASE Excess > 0
  <2>1. Kept = SubSeq(r, Excess + 1, Len(r))
    BY <1>2, <1>3 DEF Kept
  <2> HIDE DEF r
  <2>2. Excess \in Nat /\ Excess + 1 \in 1 .. Len(r)
    BY <1>1, <1>2, <1>3 DEF Excess
  <2>3. /\ Kept \in Seq(Conns)
        /\ Len(Kept) = Len(r) - (Excess + 1) + 1
        /\ \A i \in 1 .. Len(r) - (Excess + 1) + 1 : Kept[i] = r[Excess + 1 + i - 1]
    BY <1>2, <2>1, <2>2, SuffixElems
  <2>4. Len(Kept) = RefuseMax /\ Len(r) = RefuseMax + Excess
    BY <1>1, <1>2, <2>2, <2>3 DEF Excess
  <2>5. Kept[Len(Kept)] = cur
    <3>1. RefuseMax \in 1 .. Len(r) - (Excess + 1) + 1 /\ Excess + 1 + RefuseMax - 1 = Len(r)
      BY <2>2, <2>4
    <3> QED
      BY <1>2, <2>3, <2>4, <3>1
  <2>6. /\ Len(Kept) = Len(refused) + 1 - Excess
        /\ \A i \in 1 .. Len(Kept) - 1 : Kept[i] = refused[i + Excess]
    <3>1. Len(Kept) = Len(refused) + 1 - Excess
      BY <1>1, <1>2, <2>2, <2>3, <2>4
    <3>2. ASSUME NEW i \in 1 .. Len(Kept) - 1
          PROVE  /\ i \in 1 .. Len(r) - (Excess + 1) + 1
                 /\ i + Excess \in 1 .. Len(refused)
                 /\ Excess + 1 + i - 1 = i + Excess
      BY <1>1, <2>2, <2>3, <2>4, <3>1
    <3> QED
      BY <1>2, <2>3, <3>1, <3>2
  <2>7. \E d \in Nat : /\ Len(Kept) = Len(refused) + 1 - d
                      /\ \A i \in 1 .. Len(Kept) - 1 : Kept[i] = refused[i + d]
    <3>1. PICK d \in Nat : d = Excess
      BY <2>2
    <3> WITNESS d \in Nat
    <3> QED
      BY <2>6, <3>1
  <2>8. Len(Kept) \in 1 .. RefuseMax
    BY <2>4
  <2> QED
    BY <2>3, <2>5, <2>7, <2>8
<1>4. CASE ~ (Excess > 0)
  <2>1. Kept = r /\ Len(refused) + 1 <= RefuseMax
    BY <1>1, <1>4 DEF Kept, Excess
  <2> HIDE DEF r
  <2>2. Len(Kept) = Len(refused) + 1 - 0 /\ \A i \in 1 .. Len(Kept) - 1 : Kept[i] = refused[i + 0]
    BY <1>1, <1>2, <2>1
  <2>3. Len(Kept) \in 1 .. RefuseMax
    BY <1>1, <1>2, <2>1
  <2>4. \E d \in Nat : /\ Len(Kept) = Len(refused) + 1 - d
                      /\ \A i \in 1 .. Len(Kept) - 1 : Kept[i] = refused[i + d]
    <3> WITNESS 0 \in Nat
    <3> QED
      BY <2>2
  <2>5. Kept \in Seq(Conns) /\ Kept[Len(Kept)] = cur
    BY <1>2, <2>1
  <2> QED
    BY <2>3, <2>4, <2>5
<1> QED
  BY <1>3, <1>4

-----------------------------------------------------------------------------
(* Types, and the state of the main thread.                                 *)

Busy == {"verify", "refuse", "process"} \cup InHandler

\* There is an accepted connection where the code uses one, _in_request
\* delimits the handler, and signals are counted among the faults.
ThreadInv ==
    /\ pc \in Busy => cur \in Conns
    /\ inRequest <=> pc \in InHandler
    /\ \A s \in Signals : sigs[s] <= faults

Inv1 == TypeOK /\ ThreadInv

\* The end of the process keeps the types, whatever ends it.
LEMMA ProcessEndsInv1 ==
    ASSUME Inv1, NEW STATE b, b \in Over, ProcessEnds(b),
           faults' \in 0 .. MaxFaults, faults <= faults'
    PROVE  Inv1'
<1>1. \A c \in Conns : Fate(c, b) \in ConnStates
  BY DEF Inv1, TypeOK, Fate, ConnStates, Over
<1>2. conn' \in [Conns -> ConnStates]
  BY <1>1 DEF ProcessEnds
<1>3. backlog' \in Seq(Conns) /\ refused' \in Seq(Conns)
  BY EmptySeq DEF Inv1, TypeOK, ProcessEnds
<1>4. left' \in [Conns -> 0 .. RefuseLinger]
  BY DEF ProcessEnds
<1>5. TypeOK'
  BY <1>2, <1>3, <1>4 DEF Inv1, TypeOK, ProcessEnds, clientVars, history, PCs
<1>6. ThreadInv'
  <2>1. sigs' = sigs /\ faults \in Nat /\ faults' \in Nat
    BY DEF Inv1, TypeOK, ProcessEnds, history
  <2>2. \A s \in Signals : sigs'[s] <= faults'
    BY <2>1 DEF Inv1, TypeOK, ThreadInv
  <2> QED
    BY <2>2 DEF ThreadInv, ProcessEnds, Busy, InHandler
<1> QED
  BY <1>5, <1>6 DEF Inv1

\* The process starts with no timer set, nothing accepted and no signal.
LEMMA InitInv1 == Init => Inv1
<1> SUFFICES ASSUME Init PROVE Inv1
  OBVIOUS
<1>1. backlog \in Seq(Conns) /\ refused \in Seq(Conns)
  BY EmptySeq DEF Init
<1>2. TypeOK
  <2>1. conn \in [Conns -> ConnStates]
    BY DEF Init, ConnStates, Over
  <2>2. sent \in [Conns -> 0 .. ReqChunks] /\ left \in [Conns -> 0 .. RefuseLinger]
    BY DEF Init
  <2>3. sigs \in [Signals -> 0 .. MaxFaults]
    BY DEF Init
  <2>4. stopping \in BOOLEAN /\ inRequest \in BOOLEAN /\ idle \in BOOLEAN
    BY Zenon DEF Init
  <2>5. /\ pc \in PCs /\ cur \in Conns \cup {NoConn} /\ gone \subseteq Conns
        /\ pend \subseteq Caught
    BY DEF Init, PCs
  <2>6. /\ rcvd \in 0 .. ReqChunks /\ selWait \in Nat \cup {NoTimer}
        /\ ioWait \in 0 .. IoTimeout \cup {NoTimer}
        /\ alarm \in 0 .. StopGrace \cup {NoTimer}
        /\ faults \in 0 .. MaxFaults
        /\ waited \in Nat /\ stopTicks \in Nat /\ elapsed \in 0 .. StopGrace
    BY DEF Init
  <2> QED
    BY <1>1, <2>1, <2>2, <2>3, <2>4, <2>5, <2>6 DEF TypeOK
<1>3. ThreadInv
  BY DEF Init, ThreadInv, Busy, InHandler
<1> QED
  BY <1>2, <1>3 DEF Inv1

\* Every step of the server, of clients, signals, the clock and systemd keeps
\* the types.
LEMMA NextInv1 == Inv1 /\ [Next]_vars => Inv1'
<1> SUFFICES ASSUME Inv1, [Next]_vars
             PROVE  Inv1'
  OBVIOUS
<1> USE DEF Inv1
<1> USE DEF clientVars, timers, flags, history
<1>list. ListTypes
  BY DEF ListTypes, TypeOK
<1>1. CASE Start
  BY <1>1 DEF Start, TypeOK, ThreadInv, PCs, Busy, InHandler, NoTimer
<1>2. CASE EnterSelect
  <2>1. selWait' \in Nat \cup {NoTimer}
    <3>1. CASE refused = <<>>
      BY <1>2, <3>1 DEF EnterSelect, ServeTimeout, NoTimer
    <3>2. CASE refused # <<>>
      <4>1. Head(refused) \in Conns
        BY <1>list, <3>2, HeadTailElems DEF ListTypes
      <4> QED
        BY <1>2, <3>2, <4>1 DEF EnterSelect, ServeTimeout, Least, TypeOK
    <3> QED
      BY <3>1, <3>2
  <2> QED
    BY <1>2, <2>1 DEF EnterSelect, TypeOK, ThreadInv, PCs, Busy, InHandler
<1>3. CASE LeaveLoop
  BY <1>3 DEF LeaveLoop, TypeOK, ThreadInv, PCs, Busy, InHandler, NoTimer
<1>4. CASE Exit
  <2>1. faults' \in 0 .. MaxFaults /\ faults <= faults' /\ ProcessEnds("lost")
    BY <1>4 DEF Exit, TypeOK
  <2>2. "lost" \in Over
    BY DEF Over
  <2> QED
    BY <2>1, <2>2, ProcessEndsInv1
<1>5. CASE GetRequest
  <2>1. refused' \in Seq(Conns)
    BY <1>5, <1>list, ReapedType DEF GetRequest
  <2>2. Head(backlog) \in Conns /\ Tail(backlog) \in Seq(Conns)
    BY <1>5, HeadTailElems DEF GetRequest, TypeOK
  <2>3. conn' \in [Conns -> ConnStates]
    BY <1>5, <2>2 DEF GetRequest, AfterReap, TypeOK, ConnStates, Over
  <2> QED
    BY <1>5, <2>1, <2>2, <2>3 DEF GetRequest, TypeOK, ThreadInv, PCs, Busy, InHandler, NoTimer
<1>6. CASE GetRequestFails
  <2>1. refused' \in Seq(Conns)
    BY <1>6, <1>list, ReapedType DEF GetRequestFails
  <2>2. conn' \in [Conns -> ConnStates]
    BY <1>6 DEF GetRequestFails, AfterReap, TypeOK, ConnStates, Over
  <2>3. faults' \in 0 .. MaxFaults /\ faults <= faults'
    BY <1>6 DEF GetRequestFails, TypeOK
  <2>4. TypeOK'
    BY <1>6, <2>1, <2>2, <2>3 DEF GetRequestFails, TypeOK, PCs, NoTimer
  <2>5. ThreadInv'
    BY <1>6, <2>3 DEF GetRequestFails, TypeOK, ThreadInv, Busy, InHandler
  <2> QED
    BY <2>4, <2>5
<1>7. CASE HandleTimeout
  <2>1. refused' \in Seq(Conns)
    BY <1>7, <1>list, ReapedType DEF HandleTimeout, TypeOK
  <2>2. conn' \in [Conns -> ConnStates]
    BY <1>7 DEF HandleTimeout, AfterReap, TypeOK, ConnStates, Over
  <2> QED
    BY <1>7, <2>1, <2>2 DEF HandleTimeout, TypeOK, ThreadInv, PCs, Busy, InHandler, NoTimer
<1>8. CASE Verify
  BY <1>8 DEF Verify, TypeOK, ThreadInv, PCs, Busy, InHandler, NoTimer
<1>9. CASE VerifyFails
  BY <1>9 DEF VerifyFails, TypeOK, ThreadInv, PCs, Busy, InHandler, NoTimer
<1>10. CASE Refuse
  <2>1. refused' \in Seq(Conns)
    BY <1>10, <1>list, KeptProps DEF Refuse, ThreadInv, Busy
  <2>2. conn' \in [Conns -> ConnStates]
    BY <1>10 DEF Refuse, TypeOK, ConnStates, Over
  <2>3. left' \in [Conns -> 0 .. RefuseLinger]
    BY <1>10 DEF Refuse, Lingers, TypeOK
  <2> QED
    BY <1>10, <2>1, <2>2, <2>3 DEF Refuse, TypeOK, ThreadInv, PCs, Busy, InHandler
<1>11. CASE BeginRequest
  BY <1>11 DEF BeginRequest, TypeOK, ThreadInv, PCs, Busy, InHandler, NoTimer
<1>12. CASE ReadChunk
  <2>1. /\ cur \in Conns /\ sent[cur] \in 0 .. ReqChunks /\ rcvd \in 0 .. ReqChunks
    BY <1>12 DEF ReadChunk, TypeOK, ThreadInv, Busy, InHandler
  <2>2. rcvd' \in 0 .. ReqChunks
    BY <1>12, <2>1 DEF ReadChunk
  <2>3. pc' \in {"read", "sendhead", "route"} /\ ioWait' \in 0 .. IoTimeout \cup {NoTimer}
    BY <1>12 DEF ReadChunk
  <2>4. TypeOK'
    BY <1>12, <2>2, <2>3 DEF ReadChunk, TypeOK, PCs
  <2>5. ThreadInv'
    BY <1>12, <2>3 DEF ReadChunk, ThreadInv, Busy, InHandler
  <2> QED
    BY <2>4, <2>5
<1>13. CASE ReadEof
  <2>1. CASE Conclude("hungup")
    BY <1>13, <2>1
     DEF ReadEof, Conclude, TypeOK, ThreadInv, PCs, Busy, InHandler, NoTimer, ConnStates, Over
  <2>2. CASE ~ Conclude("hungup")
    <3>1. /\ pc = "read" /\ pc' \in {"route", "sendhead"}
          /\ ioWait' \in 0 .. IoTimeout \cup {NoTimer}
          /\ UNCHANGED <<cur, backlog, conn, clientVars, rcvd, refused, left, selWait,
                         alarm, flags, pend, faults, history>>
      BY <1>13, <2>2 DEF ReadEof
    <3>2. TypeOK'
      BY <3>1 DEF TypeOK, PCs
    <3>3. ThreadInv'
      BY <3>1 DEF ThreadInv, Busy, InHandler
    <3> QED
      BY <3>2, <3>3
  <2> QED
    BY <2>1, <2>2
<1>14. CASE ReadTimeout
  BY <1>14
   DEF ReadTimeout, Conclude, TypeOK, ThreadInv, PCs, Busy, InHandler, NoTimer, ConnStates, Over
<1>15. CASE RouteReturn
  BY <1>15 DEF RouteReturn, TypeOK, ThreadInv, PCs, Busy, InHandler, NoTimer
<1>16. CASE SendHead
  BY <1>16 DEF SendHead, TypeOK, ThreadInv, PCs, Busy, InHandler, NoTimer
<1>17. CASE SendBody
  BY <1>17
   DEF SendBody, Conclude, TypeOK, ThreadInv, PCs, Busy, InHandler, NoTimer, ConnStates, Over
<1>18. CASE SendBroken
  BY <1>18
   DEF SendBroken, Conclude, TypeOK, ThreadInv, PCs, Busy, InHandler, NoTimer, ConnStates, Over
<1>19. CASE SendTimeout
  BY <1>19
   DEF SendTimeout, Conclude, TypeOK, ThreadInv, PCs, Busy, InHandler, NoTimer, ConnStates, Over
<1>20. CASE EndRequest
  BY <1>20 DEF EndRequest, TypeOK, ThreadInv, PCs, Busy, InHandler, NoTimer
<1>21. ASSUME NEW s \in pend, Deliver(s)
      PROVE  Inv1'
  <2>1. CASE MustRaise
    <3>1. faults' = faults /\ ProcessEnds(IF inRequest THEN "cut" ELSE "lost")
      BY <1>21, <2>1 DEF Deliver, Stop, Raise
    <3>2. faults' \in 0 .. MaxFaults /\ faults <= faults'
      BY <3>1 DEF TypeOK
    <3>3. (IF inRequest THEN "cut" ELSE "lost") \in Over
      BY DEF Over
    <3> QED
      BY <3>1, <3>2, <3>3, ProcessEndsInv1
  <2>2. CASE ~ MustRaise
    <3>1. /\ stopping' = TRUE /\ alarm' = StopGrace /\ pend' = pend \ {s}
          /\ UNCHANGED <<pc, cur, backlog, conn, clientVars, rcvd, refused, left,
                         selWait, ioWait, inRequest, idle, faults, history>>
      BY <1>21, <2>2 DEF Deliver, Stop
    <3>2. TypeOK'
      BY <3>1 DEF TypeOK, clientVars, history
    <3>3. ThreadInv'
      BY <3>1 DEF ThreadInv, history
    <3> QED
      BY <3>2, <3>3
  <2> QED
    BY <2>1, <2>2
<1>22. CASE DeliverAlarm
  <2>1. CASE MustRaise
    <3>1. faults' = faults /\ ProcessEnds(IF inRequest THEN "cut" ELSE "lost")
      BY <1>22, <2>1 DEF DeliverAlarm, Stop, Raise
    <3>2. faults' \in 0 .. MaxFaults /\ faults <= faults'
      BY <3>1 DEF TypeOK
    <3>3. (IF inRequest THEN "cut" ELSE "lost") \in Over
      BY DEF Over
    <3> QED
      BY <3>1, <3>2, <3>3, ProcessEndsInv1
  <2>2. CASE ~ MustRaise
    <3>1. /\ stopping' = TRUE /\ alarm' = StopGrace /\ pend' = pend
          /\ UNCHANGED <<pc, cur, backlog, conn, clientVars, rcvd, refused, left,
                         selWait, ioWait, inRequest, idle, faults, history>>
      BY <1>22, <2>2 DEF DeliverAlarm, Stop
    <3>2. TypeOK'
      BY <3>1 DEF TypeOK, clientVars, history
    <3>3. ThreadInv'
      BY <3>1 DEF ThreadInv, history
    <3> QED
      BY <3>2, <3>3
  <2> QED
    BY <2>1, <2>2
<1>23. CASE Tick
  <2>1. left' \in [Conns -> 0 .. RefuseLinger]
    BY <1>23 DEF Tick, Down, TypeOK
  <2> QED
    BY <1>23, <2>1 DEF Tick, Down, TypeOK, ThreadInv, NoTimer
<1>24. CASE Activate
  <2>1. sigs' \in [Signals -> 0 .. MaxFaults] /\ \A s \in Signals : sigs'[s] <= faults'
    BY <1>24 DEF Activate, TypeOK
  <2>2. stopping' \in BOOLEAN /\ idle' \in BOOLEAN
    BY <1>24, Zenon DEF Activate
  <2>3. ThreadInv'
    BY <1>24, <2>1 DEF Activate, ThreadInv, Busy, InHandler
  <2>4. /\ rcvd' \in 0 .. ReqChunks /\ pc' \in PCs
        /\ waited' \in Nat /\ stopTicks' \in Nat /\ elapsed' \in 0 .. StopGrace
    BY <1>24 DEF Activate, PCs
  <2> QED
    BY <1>24, <2>1, <2>2, <2>3, <2>4 DEF Activate, TypeOK
<1>25. ASSUME NEW c \in Conns, Connect(c)
      PROVE  Inv1'
  <2>1. backlog' \in Seq(Conns)
    BY <1>25, AppendElems DEF Connect, TypeOK
  <2> QED
    BY SMTT(20), <1>25, <2>1 DEF Connect, TypeOK, ThreadInv, ConnStates
<1>26. ASSUME NEW c \in Conns, SendChunk(c)
      PROVE  Inv1'
  BY SMTT(20), <1>26 DEF SendChunk, TypeOK, ThreadInv
<1>27. ASSUME NEW c \in Conns, HangUp(c)
      PROVE  Inv1'
  BY <1>27 DEF HangUp, TypeOK, ThreadInv
<1>28. ASSUME NEW s \in Signals, Signal(s)
      PROVE  Inv1'
  <2>1. sigs' \in [Signals -> 0 .. MaxFaults] /\ \A t \in Signals : sigs'[t] <= faults'
    BY SMTT(20), <1>28 DEF Signal, TypeOK, ThreadInv
  <2>2. pend' \subseteq Caught /\ faults' \in 0 .. MaxFaults
    BY <1>28 DEF Signal, TypeOK
  <2>3. TypeOK'
    BY <1>28, <2>1, <2>2 DEF Signal, TypeOK
  <2>4. ThreadInv'
    BY <1>28, <2>1 DEF Signal, ThreadInv
  <2> QED
    BY <2>3, <2>4
<1>29. CASE Crash
  <2>1. faults' \in 0 .. MaxFaults /\ faults <= faults' /\ ProcessEnds("crashed")
    BY <1>29 DEF Crash, TypeOK
  <2>2. "crashed" \in Over
    BY DEF Over
  <2> QED
    BY <2>1, <2>2, ProcessEndsInv1
<1>30. CASE UNCHANGED vars
  BY <1>30 DEF vars, TypeOK, ThreadInv
<1> QED
  BY <1>1, <1>2, <1>3, <1>4, <1>5, <1>6, <1>7, <1>8, <1>9, <1>10, <1>11,
    <1>12, <1>13, <1>14, <1>15, <1>16, <1>17, <1>18, <1>19, <1>20, <1>21,
    <1>22, <1>23, <1>24, <1>25, <1>26, <1>27, <1>28, <1>29, <1>30
     DEF Next, ServerStep, LoopStep, VerifyStep, HandlerStep, SignalStep,
         ClientStep, FaultStep

\* The variables of the server have their types in every reachable state.
THEOREM TypeCorrect == Spec => []TypeOK
<1>1. Spec => []Inv1
  BY InitInv1, NextInv1, PTL DEF Spec
<1>2. Inv1 => TypeOK
  BY DEF Inv1
<1> QED
  BY <1>1, <1>2, PTL

-----------------------------------------------------------------------------
(* Stopping: how long it takes and what it may cut short.                   *)

Flagged(s) == IF s \in pend THEN 1 ELSE 0
\* Each signal handled or pending was sent; the server stops in the handler or
\* on its way out; and the alarm counts down what is left of the grace period.
StopInv ==
    /\ stopping /\ pc # "done" =>
         /\ pc \in InHandler \cup {"loop", "exit"}
         /\ alarm \in 0 .. StopGrace
         /\ stopTicks + alarm <= StopGrace
         /\ elapsed + alarm = StopGrace
    /\ ~stopping \/ pc = "done" => alarm = NoTimer
    /\ pc = "done" => pend = {}
    /\ ~stopping => stopTicks = 0 /\ elapsed = 0
    /\ stopTicks <= StopGrace
    /\ \A s \in pend : sigs[s] > 0
    /\ stopping => \E s \in Caught : sigs[s] > 0
    /\ Flagged("TERM") + Flagged("INT") + (IF stopping THEN 1 ELSE 0)
          <= sigs["TERM"] + sigs["INT"]

\* Nothing has been spent of the grace period when the process starts.
LEMMA InitStopInv == Init => StopInv
  BY DEF Init, StopInv, NoTimer, Flagged, Signals

\* The end of the process clears the alarm and the pending signals.
LEMMA ProcessEndsStopInv ==
    ASSUME Inv1, StopInv, NEW STATE b, ProcessEnds(b)
    PROVE  StopInv'
<1>1. /\ sigs["TERM"] \in Nat /\ sigs["INT"] \in Nat
      /\ sigs' = sigs /\ stopping' = stopping /\ stopTicks' = stopTicks
      /\ elapsed' = elapsed /\ pc' = "done" /\ alarm' = NoTimer /\ pend' = {}
  BY DEF Inv1, TypeOK, ProcessEnds, history, Signals
<1>2. Flagged("TERM") \in {0, 1} /\ Flagged("INT") \in {0, 1}
  BY DEF Flagged
<1>3. Flagged("TERM")' = 0 /\ Flagged("INT")' = 0
  BY <1>1 DEF Flagged
<1> QED
  BY <1>1, <1>2, <1>3 DEF StopInv

\* Steps that leave the signals and the alarm alone and that do not take a
\* stopping server anywhere but towards its end.
LEMMA QuietStopInv ==
    ASSUME StopInv, pc # "done", pc' # "done",
           stopping => pc' \in InHandler \cup {"loop", "exit"},
           UNCHANGED <<stopping, alarm, pend, stopTicks, elapsed, sigs>>
    PROVE  StopInv'
  BY DEF StopInv, Flagged

\* _stop(), run for a pending signal or for the alarm.
LEMMA DeliverStopInv ==
    ASSUME Inv1, StopInv, NEW s \in pend, Deliver(s)
    PROVE  StopInv'
<1>1. CASE MustRaise
  <2>1. ProcessEnds(IF inRequest THEN "cut" ELSE "lost")
    BY <1>1 DEF Deliver, Stop, Raise
  <2> QED
    BY <2>1, ProcessEndsStopInv
<1>2. CASE ~ MustRaise
  <2>1. /\ stopping = FALSE /\ stopping' = TRUE /\ alarm' = StopGrace
        /\ pend' = pend \ {s} /\ sigs' = sigs /\ stopTicks' = stopTicks
        /\ elapsed' = elapsed /\ pc' = pc /\ pc \in InHandler /\ pc # "done"
    BY <1>2 DEF Deliver, Stop, MustRaise, history, Inv1, TypeOK, ThreadInv, InHandler
  <2>2. stopTicks = 0 /\ elapsed = 0
    BY <2>1 DEF StopInv
  <2>3. s \in Caught /\ s \in {"TERM", "INT"} /\ sigs[s] > 0
    BY DEF Inv1, TypeOK, Caught, Signals, StopInv
  <2>4. Flagged("TERM")' + Flagged("INT")' + 1 <= sigs["TERM"] + sigs["INT"]
    <3>1. Flagged("TERM") + Flagged("INT") <= sigs["TERM"] + sigs["INT"]
      BY <2>1 DEF StopInv, Flagged, Inv1, TypeOK, Signals
    <3>2. Flagged("TERM")' + Flagged("INT")' + 1 = Flagged("TERM") + Flagged("INT")
      BY <2>1, <2>3 DEF Flagged
    <3> QED
      BY <2>1, <3>1, <3>2
  <2> QED
    BY <2>1, <2>2, <2>3, <2>4 DEF StopInv
<1> QED
  BY <1>1, <1>2

\* The alarm of _stop() finds stopping set or no request: the process ends.
LEMMA DeliverAlarmStopInv ==
    ASSUME Inv1, StopInv, DeliverAlarm
    PROVE  StopInv'
<1>1. MustRaise
  BY DEF DeliverAlarm, MustRaise, StopInv, NoTimer
<1>2. ProcessEnds(IF inRequest THEN "cut" ELSE "lost")
  BY <1>1 DEF DeliverAlarm, Stop, Raise
<1> QED
  BY <1>2, ProcessEndsStopInv

\* The alarm and the time since the stop move in step, until it goes off.
LEMMA TickStopInv ==
    ASSUME Inv1, StopInv, Tick
    PROVE  StopInv'
<1>1. /\ pc' = pc /\ stopping' = stopping /\ pend' = pend /\ sigs' = sigs
      /\ alarm' = Down(alarm) /\ pc # "done"
      /\ pc = "route" \/ alarm # 0
  BY DEF Tick, Blocked, Calm, flags
<1>2. /\ stopTicks \in Nat /\ elapsed \in 0 .. StopGrace
      /\ alarm \in 0 .. StopGrace \cup {NoTimer}
  BY DEF Inv1, TypeOK
<1>3. CASE stopping
  <2>1. alarm \in 0 .. StopGrace /\ stopTicks + alarm <= StopGrace /\ elapsed + alarm = StopGrace
    BY <1>1, <1>3 DEF StopInv
  <2>2. /\ stopTicks' = IF pc # "route" THEN stopTicks + 1 ELSE stopTicks
        /\ elapsed' = IF elapsed < StopGrace THEN elapsed + 1 ELSE elapsed
    BY <1>3 DEF Tick
  <2>3. /\ alarm' \in 0 .. StopGrace
        /\ stopTicks' + alarm' <= StopGrace
        /\ elapsed' + alarm' = StopGrace
        /\ stopTicks' <= StopGrace
    BY <1>1, <1>2, <2>1, <2>2 DEF Down
  <2> QED
    BY <1>1, <1>3, <2>3 DEF StopInv, Flagged
<1>4. CASE ~ stopping
  <2>1. stopTicks' = stopTicks /\ elapsed' = elapsed /\ alarm' = NoTimer
    BY <1>1, <1>4 DEF Tick, Down, StopInv, NoTimer
  <2> QED
    BY <1>1, <1>4, <2>1 DEF StopInv, Flagged
<1> QED
  BY <1>3, <1>4

\* Signals being flagged or handled account for stopping and for the alarm.
LEMMA SignalStopInv ==
    ASSUME Inv1, StopInv, NEW s \in Signals, Signal(s)
    PROVE  StopInv'
<1>1. /\ pend' = IF s \in Caught THEN pend \cup {s} ELSE pend
      /\ sigs' = [sigs EXCEPT ![s] = @ + 1]
      /\ pc # "done"
      /\ UNCHANGED <<pc, stopping, alarm, stopTicks, elapsed>>
  BY DEF Signal, timers, flags
<1>2. sigs \in [Signals -> 0 .. MaxFaults] /\ pend \subseteq Caught
      /\ Caught \subseteq Signals
  BY DEF Inv1, TypeOK, Caught, Signals
<1>3. /\ \A t \in Signals : sigs'[t] = IF t = s THEN sigs[t] + 1 ELSE sigs[t]
      /\ \A t \in Signals : sigs[t] \in Nat
  BY <1>1, <1>2
<1>4. \A t \in pend' : sigs'[t] > 0
  BY <1>1, <1>2, <1>3 DEF StopInv
<1>5. stopping' => \E t \in Caught : sigs'[t] > 0
  <2> SUFFICES ASSUME stopping' PROVE \E t \in Caught : sigs'[t] > 0
    OBVIOUS
  <2>1. PICK t \in Caught : sigs[t] > 0
    BY <1>1 DEF StopInv
  <2>2. sigs'[t] > 0
    BY <1>2, <1>3, <2>1
  <2> QED
    BY <2>2
<1>6. Flagged("TERM")' + Flagged("INT")' + (IF stopping' THEN 1 ELSE 0)
        <= sigs'["TERM"] + sigs'["INT"]
  <2>1. s = "TERM" \/ s = "INT"
    BY DEF Signals
  <2>2. Flagged("TERM")' + Flagged("INT")' <= Flagged("TERM") + Flagged("INT") + 1
    BY <1>1, <2>1 DEF Flagged
  <2>3. sigs'["TERM"] + sigs'["INT"] = sigs["TERM"] + sigs["INT"] + 1
    BY <1>3, <2>1 DEF Signals
  <2>4. /\ Flagged("TERM") \in Nat /\ Flagged("INT") \in Nat
        /\ Flagged("TERM")' \in Nat /\ Flagged("INT")' \in Nat
        /\ sigs["TERM"] \in Nat /\ sigs["INT"] \in Nat
    BY <1>3 DEF Flagged, Signals
  <2>5. stopping' = stopping
    BY <1>1
  <2> QED
    BY <2>2, <2>3, <2>4, <2>5 DEF StopInv
<1> QED
  BY <1>1, <1>4, <1>5, <1>6 DEF StopInv

\* Every step keeps the account of _stopping, _in_request and the alarm.
LEMMA NextStopInv == Inv1 /\ StopInv /\ [Next]_vars => StopInv'
<1> SUFFICES ASSUME Inv1, StopInv, [Next]_vars
             PROVE  StopInv'
  OBVIOUS
<1> USE DEF timers, flags, history, InHandler
<1>1. CASE Start
  BY <1>1, QuietStopInv DEF Start, StopInv
<1>2. CASE EnterSelect
  BY <1>2, QuietStopInv DEF EnterSelect, StopInv
<1>3. CASE LeaveLoop
  BY <1>3, QuietStopInv DEF LeaveLoop, StopInv
<1>4. CASE GetRequest
  BY <1>4, QuietStopInv DEF GetRequest, StopInv
<1>5. CASE GetRequestFails
  BY <1>5, QuietStopInv DEF GetRequestFails, StopInv
<1>6. CASE HandleTimeout
  BY <1>6, QuietStopInv DEF HandleTimeout, StopInv
<1>7. CASE Verify
  BY <1>7, QuietStopInv DEF Verify, StopInv
<1>8. CASE VerifyFails
  BY <1>8, QuietStopInv DEF VerifyFails, StopInv
<1>9. CASE Refuse
  BY <1>9, QuietStopInv DEF Refuse, StopInv
<1>10. CASE BeginRequest
  BY <1>10, QuietStopInv DEF BeginRequest, StopInv
<1>11. CASE ReadChunk
  BY <1>11, QuietStopInv DEF ReadChunk, StopInv
<1>12. CASE ReadEof
  BY <1>12, QuietStopInv DEF ReadEof, Conclude, StopInv
<1>13. CASE ReadTimeout
  BY <1>13, QuietStopInv DEF ReadTimeout, Conclude, StopInv
<1>14. CASE RouteReturn
  BY <1>14, QuietStopInv DEF RouteReturn, StopInv
<1>15. CASE SendHead
  BY <1>15, QuietStopInv DEF SendHead, StopInv
<1>16. CASE SendBody
  BY <1>16, QuietStopInv DEF SendBody, Conclude, StopInv
<1>17. CASE SendBroken
  BY <1>17, QuietStopInv DEF SendBroken, Conclude, StopInv
<1>18. CASE SendTimeout
  BY <1>18, QuietStopInv DEF SendTimeout, Conclude, StopInv
<1>19. CASE EndRequest
  BY <1>19, QuietStopInv DEF EndRequest, StopInv
<1>20. CASE Exit
  BY <1>20, ProcessEndsStopInv DEF Exit
<1>21. CASE Crash
  BY <1>21, ProcessEndsStopInv DEF Crash
<1>22. ASSUME NEW s \in pend, Deliver(s)
      PROVE  StopInv'
  BY <1>22, DeliverStopInv
<1>23. CASE DeliverAlarm
  BY <1>23, DeliverAlarmStopInv
<1>24. ASSUME NEW s \in Signals, Signal(s)
      PROVE  StopInv'
  BY <1>24, SignalStopInv
<1>25. CASE Tick
  BY <1>25, TickStopInv
<1>26. CASE Activate
  <2>1. /\ pend = {} /\ pend' = {} /\ alarm' = NoTimer /\ stopping' = FALSE
        /\ pc' # "done" /\ stopTicks' = 0 /\ elapsed' = 0
        /\ sigs'["TERM"] = 0 /\ sigs'["INT"] = 0
    BY <1>26 DEF Activate, StopInv, Signals
  <2>2. Flagged("TERM")' = 0 /\ Flagged("INT")' = 0
    BY <2>1 DEF Flagged
  <2> QED
    BY <2>1, <2>2 DEF StopInv
<1>27. ASSUME NEW c \in Conns, Connect(c) \/ SendChunk(c) \/ HangUp(c)
      PROVE  StopInv'
  BY <1>27 DEF Connect, SendChunk, HangUp, StopInv, Flagged
<1>28. CASE UNCHANGED vars
  BY <1>28 DEF vars, StopInv, Flagged
<1> QED
  BY <1>1, <1>2, <1>3, <1>4, <1>5, <1>6, <1>7, <1>8, <1>9, <1>10, <1>11,
    <1>12, <1>13, <1>14, <1>15, <1>16, <1>17, <1>18, <1>19, <1>20, <1>21,
    <1>22, <1>23, <1>24, <1>25, <1>26, <1>27, <1>28
     DEF Next, ServerStep, LoopStep, VerifyStep, HandlerStep, SignalStep,
         ClientStep, FaultStep

-----------------------------------------------------------------------------
(* Connections: the accepted one, the queue, and the refused ones.          *)

HasOpen == Busy \ {"finish"}
OpenInv ==
    /\ pc \in HasOpen => conn[cur] = "open"
    /\ \A c \in Conns : conn[c] = "open" => c = cur /\ pc \in HasOpen
QueueInv ==
    /\ \A c \in Conns : conn[c] = "queued" <=> c \in Elems(backlog)
    /\ \A i, j \in 1 .. Len(backlog) : backlog[i] = backlog[j] => i = j
ListInv == RefusedTracked /\ RefusedInOrder /\ RefusalsBounded
ConnInv == OpenInv /\ QueueInv /\ ListInv

\* No connection is open, queued or refused when the process starts.
LEMMA InitConnInv == Init => ConnInv
<1> SUFFICES ASSUME Init PROVE ConnInv
  OBVIOUS
<1>1. Len(backlog) = 0 /\ Len(refused) = 0
  BY EmptySeq DEF Init
<1>2. Elems(backlog) = {} /\ Elems(refused) = {}
  BY <1>1 DEF Elems
<1>3. OpenInv
  BY DEF Init, OpenInv, HasOpen, Busy, InHandler
<1>4. QueueInv
  BY <1>1, <1>2 DEF Init, QueueInv
<1>5. ListInv
  BY <1>1, <1>2 DEF Init, ListInv, RefusedTracked, RefusedInOrder, RefusalsBounded
<1> QED
  BY <1>3, <1>4, <1>5 DEF ConnInv

\* Steps that only move the thread on, with the same connection.
LEMMA QuietConnInv ==
    ASSUME ConnInv, pc \in HasOpen <=> pc' \in HasOpen,
           UNCHANGED <<cur, conn, backlog, refused, left>>
    PROVE  ConnInv'
  BY DEF ConnInv, OpenInv, QueueInv, ListInv, RefusedTracked, RefusedInOrder,
     RefusalsBounded

\* The request is over in one way or another.
LEMMA ConcludeConnInv ==
    ASSUME Inv1, ConnInv, pc \in HasOpen, NEW f \in Over, Conclude(f)
    PROVE  ConnInv'
<1>1. /\ cur \in Conns /\ conn[cur] = "open" /\ pc' = "finish" /\ cur' = cur
      /\ \A c \in Conns : conn'[c] = IF c = cur THEN f ELSE conn[c]
      /\ UNCHANGED <<backlog, refused, left>>
  BY DEF Conclude, Inv1, TypeOK, ThreadInv, HasOpen, ConnInv, OpenInv
<1>2. f \notin {"open", "queued", "refused"}
  BY DEF Over
<1>3. OpenInv'
  BY <1>1, <1>2 DEF ConnInv, OpenInv, HasOpen, Busy
<1>4. QueueInv'
  BY <1>1, <1>2 DEF ConnInv, QueueInv
<1>5. ListInv'
  BY <1>1, <1>2 DEF ConnInv, ListInv, RefusedTracked, RefusedInOrder, RefusalsBounded
<1> QED
  BY <1>3, <1>4, <1>5 DEF ConnInv

\* Nothing is accepted or refused any more, and only systemd keeps a queue.
LEMMA ProcessEndsConnInv ==
    ASSUME Inv1, ConnInv, NEW STATE b, b \in Over, ProcessEnds(b)
    PROVE  ConnInv'
<1>1. \A c \in Conns : conn'[c] = Fate(c, b)
  BY DEF ProcessEnds
<1>2. b \notin {"open", "queued", "refused"}
  BY DEF Over
<1>3. \A c \in Conns : conn'[c] # "open" /\ conn'[c] # "refused"
  BY <1>1, <1>2 DEF Fate
<1>4. \A c \in Conns : conn'[c] = "queued" <=> Activated /\ conn[c] = "queued"
  BY <1>1, <1>2 DEF Fate
<1>5. Len(refused') = 0 /\ Elems(refused') = {}
  BY EmptySeq DEF ProcessEnds, Elems
<1>6. OpenInv'
  BY <1>3 DEF OpenInv, ProcessEnds, HasOpen, Busy, InHandler
<1>7. QueueInv'
  <2>1. CASE Activated
    BY <1>4, <2>1 DEF ProcessEnds, ConnInv, QueueInv
  <2>2. CASE ~ Activated
    <3>1. Len(backlog') = 0 /\ Elems(backlog') = {}
      BY <2>2, EmptySeq DEF ProcessEnds, Elems
    <3> QED
      BY <1>4, <2>2, <3>1 DEF QueueInv
  <2> QED
    BY <2>1, <2>2
<1>8. ListInv'
  BY <1>3, <1>5 DEF ListInv, RefusedTracked, RefusedInOrder, RefusalsBounded
<1> QED
  BY <1>6, <1>7, <1>8 DEF ConnInv

\* A part of the list of refused connections, shifted, is still in order.
LEMMA ShiftedList ==
    ASSUME ListTypes, RefusedTracked, RefusedInOrder,
           NEW STATE r, r \in Seq(Conns), NEW STATE d, d \in Nat,
           NEW STATE n, n \in Nat, n + d <= Len(refused),
           \A i \in 1 .. n : r[i] = refused[i + d]
    PROVE  /\ \A i, j \in 1 .. n : r[i] = r[j] => i = j
           /\ \A i, j \in 1 .. n : i <= j => left[r[i]] <= left[r[j]]
           /\ \A i \in 1 .. n : r[i] \in Elems(refused)
<1>1. Len(refused) \in Nat
  BY LenProperties DEF ListTypes
<1>2. \A i \in 1 .. n : i + d \in 1 .. Len(refused)
  BY <1>1
<1>3. ASSUME NEW i \in 1 .. n, NEW j \in 1 .. n
      PROVE  /\ r[i] = r[j] => i = j
             /\ i <= j => left[r[i]] <= left[r[j]]
  <2>1. /\ i + d \in 1 .. Len(refused) /\ j + d \in 1 .. Len(refused)
        /\ r[i] = refused[i + d] /\ r[j] = refused[j + d]
    BY <1>2
  <2>2. i + d = j + d => i = j
    OBVIOUS
  <2>3. i <= j => i + d <= j + d
    OBVIOUS
  <2> QED
    BY <2>1, <2>2, <2>3 DEF RefusedTracked, RefusedInOrder
<1>4. \A i \in 1 .. n : r[i] \in Elems(refused)
  BY <1>2 DEF Elems
<1> QED
  BY <1>3, <1>4

\* _reap() keeps the list in step with the connections.
LEMMA ReapList ==
    ASSUME Inv1, ConnInv
    PROVE  /\ Reaped \in Seq(Conns)
           /\ \A i, j \in 1 .. Len(Reaped) : Reaped[i] = Reaped[j] => i = j
           /\ \A i, j \in 1 .. Len(Reaped) : i <= j => left[Reaped[i]] <= left[Reaped[j]]
           /\ Len(Reaped) <= RefuseMax
           /\ \A c \in Conns : AfterReap[c] = "refused" <=> c \in Elems(Reaped)
           /\ \A c \in Conns : conn[c] # "refused" => AfterReap[c] = conn[c]
           /\ \A c \in Conns : AfterReap[c] # conn[c] => AfterReap[c] = "closed"
<1>1. ListTypes /\ RefusedTracked /\ RefusedInOrder /\ Len(refused) <= RefuseMax
  BY DEF Inv1, TypeOK, ListTypes, ConnInv, ListInv, RefusalsBounded
<1>2. Len(refused) \in Nat /\ Reaped \in Seq(Conns)
  BY <1>1, LenProperties, ReapedType DEF ListTypes
<1>3. PICK d \in Nat : /\ Len(Reaped) = Len(refused) - d
                       /\ \A i \in 1 .. Len(Reaped) : Reaped[i] = refused[i + d]
  BY <1>1, ReapCuts, CutSuffix
<1>4. Len(Reaped) \in Nat
  BY <1>2, LenProperties
<1>5. /\ \A i, j \in 1 .. Len(Reaped) : Reaped[i] = Reaped[j] => i = j
      /\ \A i, j \in 1 .. Len(Reaped) : i <= j => left[Reaped[i]] <= left[Reaped[j]]
  <2> DEFINE r == Reaped
             n == Len(Reaped)
  <2>1. r \in Seq(Conns) /\ n \in Nat /\ n + d <= Len(refused)
        /\ \A i \in 1 .. n : r[i] = refused[i + d]
    BY <1>2, <1>3, <1>4
  <2> HIDE DEF r, n
  <2>2. /\ \A i, j \in 1 .. n : r[i] = r[j] => i = j
        /\ \A i, j \in 1 .. n : i <= j => left[r[i]] <= left[r[j]]
    BY <1>1, <2>1, ShiftedList
  <2> QED
    BY <2>2 DEF r, n
<1>6. Len(Reaped) <= RefuseMax
  BY <1>1, <1>2, <1>3, <1>4
<1>7. Elems(Reaped) = {c \in Elems(refused) : left[c] > 0}
  BY <1>1, ReapedElems
<1>8. \A c \in Conns : AfterReap[c] = IF Expired(c) THEN "closed" ELSE conn[c]
  BY DEF AfterReap
<1>9. ASSUME NEW c \in Conns
      PROVE  AfterReap[c] = "refused" <=> c \in Elems(Reaped)
  <2>1. left[c] \in Nat
    BY DEF Inv1, TypeOK
  <2> QED
    BY <1>1, <1>7, <1>8, <2>1 DEF Expired, RefusedTracked
<1>10. \A c \in Conns : /\ conn[c] # "refused" => AfterReap[c] = conn[c]
                        /\ AfterReap[c] # conn[c] => AfterReap[c] = "closed"
  BY <1>8 DEF Expired
<1> QED
  BY <1>2, <1>5, <1>6, <1>9, <1>10

\* A step that reaps and does nothing else to connections.
LEMMA ReapConnInv ==
    ASSUME Inv1, ConnInv, pc \notin HasOpen, pc' \notin HasOpen,
           refused' = Reaped, conn' = AfterReap, UNCHANGED <<cur, backlog, left>>
    PROVE  ConnInv'
<1>1. OpenInv'
  BY ReapList DEF ConnInv, OpenInv
<1>2. QueueInv'
  BY ReapList DEF ConnInv, QueueInv
<1>3. ListInv'
  BY ReapList DEF ListInv, RefusedTracked, RefusedInOrder, RefusalsBounded
<1> QED
  BY <1>1, <1>2, <1>3 DEF ConnInv

\* The oldest connection of the queue is accepted.
LEMMA GetRequestConnInv ==
    ASSUME Inv1, ConnInv, GetRequest
    PROVE  ConnInv'
<1> DEFINE h == Head(backlog)
<1>1. /\ h \in Conns /\ h = backlog[1] /\ Len(backlog) \in Nat \ {0}
      /\ Tail(backlog) \in Seq(Conns) /\ Len(Tail(backlog)) = Len(backlog) - 1
      /\ \A i \in 1 .. Len(backlog) - 1 : Tail(backlog)[i] = backlog[i + 1]
      /\ Elems(backlog) = Elems(Tail(backlog)) \cup {h}
  BY HeadTailElems DEF GetRequest, Inv1, TypeOK
<1>2. /\ pc = "select" /\ pc' = "verify" /\ cur' = h /\ backlog' = Tail(backlog)
      /\ refused' = Reaped /\ conn' = [AfterReap EXCEPT ![h] = "open"] /\ left' = left
  BY DEF GetRequest
<1> HIDE DEF h
<1>3. \A c \in Conns : conn'[c] = IF c = h THEN "open" ELSE AfterReap[c]
  BY <1>2 DEF AfterReap
<1>4. conn[h] = "queued" /\ AfterReap[h] = "queued"
  BY <1>1, ReapList DEF ConnInv, QueueInv
<1>5. \A c \in Conns : conn[c] # "open"
  BY <1>2 DEF ConnInv, OpenInv, HasOpen, Busy, InHandler
<1>6. OpenInv'
  <2>1. \A c \in Conns : AfterReap[c] # "open"
    BY <1>5, ReapList
  <2> QED
    BY <1>1, <1>2, <1>3, <2>1 DEF OpenInv, HasOpen, Busy
<1>7. h \notin Elems(Tail(backlog))
  <2> SUFFICES ASSUME h \in Elems(Tail(backlog)) PROVE FALSE
    OBVIOUS
  <2>1. PICK i \in 1 .. Len(backlog) - 1 : Tail(backlog)[i] = h
    BY <1>1 DEF Elems
  <2>2. i + 1 \in 1 .. Len(backlog) /\ 1 \in 1 .. Len(backlog) /\ backlog[i + 1] = backlog[1]
    BY <1>1, <2>1
  <2>3. i + 1 = 1
    BY <2>2 DEF ConnInv, QueueInv
  <2> QED
    BY <2>3
<1>8. QueueInv'
  <2>1. \A c \in Conns : AfterReap[c] = "queued" <=> c \in Elems(backlog)
    BY ReapList DEF ConnInv, QueueInv
  <2>2. \A c \in Conns : conn'[c] = "queued" <=> c \in Elems(Tail(backlog))
    BY <1>1, <1>3, <1>7, <2>1
  <2>3. ASSUME NEW i \in 1 .. Len(Tail(backlog)), NEW j \in 1 .. Len(Tail(backlog)),
               Tail(backlog)[i] = Tail(backlog)[j]
        PROVE  i = j
    <3>1. /\ i + 1 \in 1 .. Len(backlog) /\ j + 1 \in 1 .. Len(backlog)
          /\ backlog[i + 1] = backlog[j + 1]
      BY <1>1, <2>3
    <3>2. i + 1 = j + 1
      BY <3>1 DEF ConnInv, QueueInv
    <3> QED
      BY <3>2
  <2> QED
    BY <1>2, <2>2, <2>3 DEF QueueInv
<1>9. ListInv'
  <2>1. \A c \in Conns : conn'[c] = "refused" <=> c \in Elems(Reaped)
    BY <1>3, <1>4, ReapList
  <2> QED
    BY <1>2, <2>1, ReapList DEF ListInv, RefusedTracked, RefusedInOrder, RefusalsBounded
<1> QED
  BY <1>6, <1>8, <1>9 DEF ConnInv

\* The new refusal has the latest deadline, and goes last.
LEMMA RefuseConnInv ==
    ASSUME Inv1, ConnInv, Refuse
    PROVE  ConnInv'
<1>1. /\ pc = "refuse" /\ pc' = "loop" /\ refused' = Kept /\ backlog' = backlog
      /\ cur \in Conns /\ conn[cur] = "open"
      /\ \A c \in Conns : conn'[c] = IF c \in Elems(Kept) THEN "refused"
                                     ELSE IF conn[c] = "refused" THEN "closed" ELSE conn[c]
      /\ \A c \in Conns : left'[c] = IF c = cur THEN RefuseLinger
                                     ELSE IF c \in Elems(Kept) THEN left[c] ELSE 0
  BY DEF Refuse, Lingers, Inv1, ThreadInv, Busy, ConnInv, OpenInv, HasOpen
<1>2. ListTypes /\ RefusedTracked /\ RefusedInOrder /\ Len(refused) \in Nat
  BY LenProperties DEF Inv1, TypeOK, ListTypes, ConnInv, ListInv
<1>3. /\ Kept \in Seq(Conns) /\ Len(Kept) \in 1 .. RefuseMax
      /\ Kept[Len(Kept)] = cur
  BY <1>1, <1>2, KeptProps
<1>4. PICK d \in Nat : /\ Len(Kept) = Len(refused) + 1 - d
                       /\ \A i \in 1 .. Len(Kept) - 1 : Kept[i] = refused[i + d]
  BY <1>1, <1>2, KeptProps
<1>5. cur \notin Elems(refused)
  BY <1>1, <1>2 DEF RefusedTracked
<1>6. /\ \A i, j \in 1 .. Len(Kept) - 1 : Kept[i] = Kept[j] => i = j
      /\ \A i, j \in 1 .. Len(Kept) - 1 : i <= j => left[Kept[i]] <= left[Kept[j]]
      /\ \A i \in 1 .. Len(Kept) - 1 : Kept[i] \in Elems(refused)
  <2> DEFINE r == Kept
             n == Len(Kept) - 1
  <2>1. r \in Seq(Conns) /\ n \in Nat /\ n + d <= Len(refused)
        /\ \A i \in 1 .. n : r[i] = refused[i + d]
    BY <1>2, <1>3, <1>4
  <2> HIDE DEF r, n
  <2>2. /\ \A i, j \in 1 .. n : r[i] = r[j] => i = j
        /\ \A i, j \in 1 .. n : i <= j => left[r[i]] <= left[r[j]]
        /\ \A i \in 1 .. n : r[i] \in Elems(refused)
    BY <1>2, <2>1, ShiftedList
  <2> QED
    BY <2>2 DEF r, n
<1>7. \A i \in 1 .. Len(Kept) : Kept[i] = cur <=> i = Len(Kept)
  BY <1>3, <1>5, <1>6
<1>8. \A i \in 1 .. Len(Kept) : Kept[i] \in Conns /\ Kept[i] \in Elems(Kept)
  BY <1>3, ElementOfSeq DEF Elems
<1>9. \A c \in Elems(Kept) : c = cur \/ c \in Elems(refused)
  BY <1>3, <1>6 DEF Elems
<1>10. cur \in Elems(Kept)
  BY <1>3 DEF Elems
<1>11. OpenInv'
  BY <1>1, <1>10 DEF ConnInv, OpenInv, HasOpen, Busy, InHandler
<1>12. QueueInv'
  <2>1. \A c \in Conns : conn'[c] = "queued" <=> conn[c] = "queued"
    BY <1>1, <1>2, <1>9 DEF RefusedTracked
  <2> QED
    BY <1>1, <2>1 DEF ConnInv, QueueInv
<1>13. \A c \in Conns : conn'[c] = "refused" <=> c \in Elems(Kept)
  BY <1>1
<1>14. \A i, j \in 1 .. Len(Kept) : Kept[i] = Kept[j] => i = j
  BY <1>3, <1>6, <1>7
<1>15. ASSUME NEW i \in 1 .. Len(Kept), NEW j \in 1 .. Len(Kept), i <= j
       PROVE  left'[Kept[i]] <= left'[Kept[j]]
  <2>1. /\ left[Kept[i]] \in 0 .. RefuseLinger /\ left[Kept[j]] \in 0 .. RefuseLinger
    BY <1>8 DEF Inv1, TypeOK
  <2>2. CASE j = Len(Kept)
    BY <1>1, <1>3, <1>8, <2>1, <2>2
  <2>3. CASE j # Len(Kept)
    <3>1. i \in 1 .. Len(Kept) - 1 /\ j \in 1 .. Len(Kept) - 1
      BY <1>3, <1>15, <2>3
    <3>2. left'[Kept[i]] = left[Kept[i]] /\ left'[Kept[j]] = left[Kept[j]]
      BY <1>1, <1>3, <1>7, <1>8, <3>1
    <3> QED
      BY <1>6, <1>15, <3>1, <3>2
  <2> QED
    BY <2>2, <2>3
<1>16. ListInv'
  BY <1>1, <1>3, <1>13, <1>14, <1>15 DEF ListInv, RefusedTracked, RefusedInOrder, RefusalsBounded
<1> QED
  BY <1>11, <1>12, <1>16 DEF ConnInv

\* A connection that is over can be opened again: it is queued once.
LEMMA ConnectConnInv ==
    ASSUME Inv1, ConnInv, NEW c \in Conns, Connect(c)
    PROVE  ConnInv'
<1>1. /\ conn[c] \in Over /\ backlog' = Append(backlog, c)
      /\ \A d \in Conns : conn'[d] = IF d = c THEN "queued" ELSE conn[d]
      /\ UNCHANGED <<pc, cur, refused, left>>
  BY DEF Connect, timers, Inv1, TypeOK
<1>2. conn[c] \notin {"open", "queued", "refused"}
  BY <1>1 DEF Over
<1>3. /\ Len(Append(backlog, c)) = Len(backlog) + 1
      /\ \A i \in 1 .. Len(backlog) : Append(backlog, c)[i] = backlog[i]
      /\ Append(backlog, c)[Len(backlog) + 1] = c
      /\ Elems(Append(backlog, c)) = Elems(backlog) \cup {c}
      /\ Len(backlog) \in Nat
  BY AppendElems, LenProperties DEF Inv1, TypeOK
<1>4. OpenInv'
  BY <1>1, <1>2 DEF ConnInv, OpenInv, HasOpen, Busy, InHandler, Inv1, ThreadInv
<1>5. QueueInv'
  <2>1. c \notin Elems(backlog)
    BY <1>2 DEF ConnInv, QueueInv
  <2>2. \A i \in 1 .. Len(backlog) : backlog[i] # c
    BY <2>1 DEF Elems
  <2>3. \A d \in Conns : conn'[d] = "queued" <=> d \in Elems(backlog')
    BY <1>1, <1>3 DEF ConnInv, QueueInv
  <2>4. \A i, j \in 1 .. Len(backlog') : backlog'[i] = backlog'[j] => i = j
    <3> SUFFICES ASSUME NEW i \in 1 .. Len(backlog) + 1, NEW j \in 1 .. Len(backlog) + 1,
                        Append(backlog, c)[i] = Append(backlog, c)[j]
                 PROVE  i = j
      BY <1>1, <1>3
    <3>1. CASE i \in 1 .. Len(backlog) /\ j \in 1 .. Len(backlog)
      BY <1>3, <3>1 DEF ConnInv, QueueInv
    <3>2. CASE i = Len(backlog) + 1 \/ j = Len(backlog) + 1
      BY <1>3, <2>2, <3>2
    <3> QED
      BY <1>3, <3>1, <3>2
  <2> QED
    BY <2>3, <2>4 DEF QueueInv
<1>6. ListInv'
  BY <1>1, <1>2 DEF ConnInv, ListInv, RefusedTracked, RefusedInOrder, RefusalsBounded
<1> QED
  BY <1>4, <1>5, <1>6 DEF ConnInv

\* All deadlines come closer together.
LEMMA TickConnInv ==
    ASSUME Inv1, ConnInv, Tick
    PROVE  ConnInv'
<1>1. /\ UNCHANGED <<pc, cur, conn, backlog, refused>>
      /\ \A c \in Conns : left'[c] = Down(left[c])
  BY DEF Tick
<1>2. \A i \in 1 .. Len(refused) : refused[i] \in Conns /\ left[refused[i]] \in Nat
  BY ElementOfSeq DEF Inv1, TypeOK
<1>3. RefusedInOrder'
  BY <1>1, <1>2 DEF Down, ConnInv, ListInv, RefusedInOrder
<1> QED
  BY <1>1, <1>3 DEF ConnInv, OpenInv, QueueInv, ListInv, RefusedTracked, RefusalsBounded

\* Every step keeps connections, the queue and _refused in agreement.
LEMMA NextConnInv == Inv1 /\ ConnInv /\ [Next]_vars => ConnInv'
<1> SUFFICES ASSUME Inv1, ConnInv, [Next]_vars
             PROVE  ConnInv'
  OBVIOUS
<1> USE DEF timers, flags, history, clientVars
<1>1. CASE Start
  BY <1>1, QuietConnInv DEF Start, HasOpen, Busy, InHandler
<1>2. CASE EnterSelect
  BY <1>2, QuietConnInv DEF EnterSelect, HasOpen, Busy, InHandler
<1>3. CASE LeaveLoop
  BY <1>3, QuietConnInv DEF LeaveLoop, HasOpen, Busy, InHandler
<1>4. CASE Verify
  BY <1>4, QuietConnInv DEF Verify, HasOpen, Busy, InHandler
<1>5. CASE VerifyFails
  BY <1>5, QuietConnInv DEF VerifyFails, HasOpen, Busy, InHandler
<1>6. CASE BeginRequest
  BY <1>6, QuietConnInv DEF BeginRequest, HasOpen, Busy, InHandler
<1>7. CASE ReadChunk
  BY <1>7, QuietConnInv DEF ReadChunk, HasOpen, Busy, InHandler
<1>8. CASE RouteReturn
  BY <1>8, QuietConnInv DEF RouteReturn, HasOpen, Busy, InHandler
<1>9. CASE SendHead
  BY <1>9, QuietConnInv DEF SendHead, HasOpen, Busy, InHandler
<1>10. CASE ReadEof
  <2>1. "hungup" \in Over /\ pc \in HasOpen
    BY <1>10 DEF ReadEof, Over, HasOpen, Busy, InHandler
  <2>2. CASE Conclude("hungup")
    BY <2>1, <2>2, ConcludeConnInv
  <2>3. CASE ~ Conclude("hungup")
    <3>1. pc' \in HasOpen /\ UNCHANGED <<cur, conn, backlog, refused, left>>
      BY <1>10, <2>3 DEF ReadEof, HasOpen, Busy, InHandler
    <3> QED
      BY <2>1, <3>1, QuietConnInv
  <2> QED
    BY <2>2, <2>3
<1>11. CASE ReadTimeout
  <2>1. "expired" \in Over /\ pc \in HasOpen /\ Conclude("expired")
    BY <1>11 DEF ReadTimeout, Over, HasOpen, Busy, InHandler
  <2> QED
    BY <2>1, ConcludeConnInv
<1>12. CASE SendBody
  <2>1. "served" \in Over /\ pc \in HasOpen /\ Conclude("served")
    BY <1>12 DEF SendBody, Over, HasOpen, Busy, InHandler
  <2> QED
    BY <2>1, ConcludeConnInv
<1>13. CASE SendBroken
  <2>1. "hungup" \in Over /\ pc \in HasOpen /\ Conclude("hungup")
    BY <1>13 DEF SendBroken, Over, HasOpen, Busy, InHandler
  <2> QED
    BY <2>1, ConcludeConnInv
<1>14. CASE SendTimeout
  <2>1. "expired" \in Over /\ pc \in HasOpen /\ Conclude("expired")
    BY <1>14 DEF SendTimeout, Over, HasOpen, Busy, InHandler
  <2> QED
    BY <2>1, ConcludeConnInv
<1>15. CASE EndRequest
  BY <1>15 DEF EndRequest, ConnInv, OpenInv, QueueInv, ListInv, RefusedTracked,
     RefusedInOrder, RefusalsBounded, HasOpen, Busy, InHandler
<1>16. CASE GetRequest
  BY <1>16, GetRequestConnInv
<1>17. CASE GetRequestFails
  BY <1>17, ReapConnInv DEF GetRequestFails, HasOpen, Busy, InHandler
<1>18. CASE HandleTimeout
  <2>1. CASE refused = <<>>
    BY <1>18, <2>1, QuietConnInv DEF HandleTimeout, HasOpen, Busy, InHandler
  <2>2. CASE refused # <<>>
    BY <1>18, <2>2, ReapConnInv DEF HandleTimeout, HasOpen, Busy, InHandler
  <2> QED
    BY <2>1, <2>2
<1>19. CASE Refuse
  BY <1>19, RefuseConnInv
<1>20. CASE Exit
  <2>1. "lost" \in Over /\ ProcessEnds("lost")
    BY <1>20 DEF Exit, Over
  <2> QED
    BY <2>1, ProcessEndsConnInv
<1>21. CASE Crash
  <2>1. "crashed" \in Over /\ ProcessEnds("crashed")
    BY <1>21 DEF Crash, Over
  <2> QED
    BY <2>1, ProcessEndsConnInv
<1>22. ASSUME NEW s \in pend, Deliver(s)
      PROVE  ConnInv'
  <2>1. CASE MustRaise
    <3>1. ProcessEnds(IF inRequest THEN "cut" ELSE "lost")
      BY <1>22, <2>1 DEF Deliver, Stop, Raise
    <3>2. (IF inRequest THEN "cut" ELSE "lost") \in Over
      BY DEF Over
    <3> QED
      BY <3>1, <3>2, ProcessEndsConnInv
  <2>2. CASE ~ MustRaise
    BY <1>22, <2>2, QuietConnInv DEF Deliver, Stop
  <2> QED
    BY <2>1, <2>2
<1>23. CASE DeliverAlarm
  <2>1. CASE MustRaise
    <3>1. ProcessEnds(IF inRequest THEN "cut" ELSE "lost")
      BY <1>23, <2>1 DEF DeliverAlarm, Stop, Raise
    <3>2. (IF inRequest THEN "cut" ELSE "lost") \in Over
      BY DEF Over
    <3> QED
      BY <3>1, <3>2, ProcessEndsConnInv
  <2>2. CASE ~ MustRaise
    BY <1>23, <2>2, QuietConnInv DEF DeliverAlarm, Stop
  <2> QED
    BY <2>1, <2>2
<1>24. CASE Tick
  BY <1>24, TickConnInv
<1>25. CASE Activate
  BY <1>25, QuietConnInv DEF Activate, HasOpen, Busy, InHandler
<1>26. ASSUME NEW c \in Conns, Connect(c)
      PROVE  ConnInv'
  BY <1>26, ConnectConnInv
<1>27. ASSUME NEW c \in Conns, SendChunk(c) \/ HangUp(c)
      PROVE  ConnInv'
  BY <1>27, QuietConnInv DEF SendChunk, HangUp
<1>28. ASSUME NEW s \in Signals, Signal(s)
      PROVE  ConnInv'
  BY <1>28, QuietConnInv DEF Signal
<1>29. CASE UNCHANGED vars
  BY <1>29, QuietConnInv DEF vars
<1> QED
  BY <1>1, <1>2, <1>3, <1>4, <1>5, <1>6, <1>7, <1>8, <1>9, <1>10, <1>11,
    <1>12, <1>13, <1>14, <1>15, <1>16, <1>17, <1>18, <1>19, <1>20, <1>21,
    <1>22, <1>23, <1>24, <1>25, <1>26, <1>27, <1>28, <1>29
     DEF Next, ServerStep, LoopStep, VerifyStep, HandlerStep, SignalStep,
         ClientStep, FaultStep

-----------------------------------------------------------------------------
(* Waiting: the idle timeout and the linger of refused connections.         *)

\* While select() waits, what is left of its timeout and what has been waited
\* add up to the idle timeout, or else to no more than the first deadline.
WaitInv ==
    /\ idle => /\ pc \in {"loop", "exit", "done"}
               /\ IdleTimeout > 0 /\ waited >= IdleTimeout
    /\ pc = "select" /\ refused = <<>> =>
         IF IdleTimeout = 0 THEN selWait = NoTimer
         ELSE /\ selWait \in Nat
              /\ waited + selWait >= IdleTimeout
              /\ waited + selWait <= IdleTimeout + RefuseLinger
    /\ pc = "select" /\ refused # <<>> =>
         selWait \in Nat /\ selWait <= left[Head(refused)]
    /\ \A c \in Elems(refused) : waited + left[c] <= RefuseLinger
    /\ pc \in {"verify", "refuse"} => waited = 0
    /\ IdleTimeout > 0 /\ ~idle /\ pc \notin {"select", "done"} => waited <= RefuseLinger
    /\ IdleTimeout > 0 => waited <= IdleTimeout + RefuseLinger

\* The server has not been in select() when the process starts.
LEMMA InitWaitInv == Init => WaitInv
<1> SUFFICES ASSUME Init PROVE WaitInv
  OBVIOUS
<1>1. Elems(refused) = {} /\ pc = "start" /\ waited = 0 /\ ~idle
  BY EmptySeq DEF Init, Elems
<1> QED
  BY <1>1 DEF WaitInv

\* Steps elsewhere in the code.
LEMMA QuietWaitInv ==
    ASSUME WaitInv, UNCHANGED <<refused, left, idle, waited>>,
           \/ UNCHANGED <<pc, selWait>>
           \/ /\ pc' \notin {"select", "verify", "refuse"} /\ pc \notin {"select", "done"}
              /\ idle => pc' \in {"loop", "exit", "done"}
           \/ pc = "verify" /\ pc' = "refuse"
    PROVE  WaitInv'
<1>1. Elems(refused)' = Elems(refused)
  BY DEF Elems
<1> QED
  BY <1>1 DEF WaitInv

\* The end of the process leaves no wait and no refused connection behind.
LEMMA ProcessEndsWaitInv ==
    ASSUME WaitInv, NEW STATE b, ProcessEnds(b)
    PROVE  WaitInv'
<1>1. Elems(refused)' = {}
  BY EmptySeq DEF ProcessEnds, Elems
<1> QED
  BY <1>1 DEF WaitInv, ProcessEnds, history

\* _serve_timeout() computes the wait.
LEMMA EnterSelectWaitInv ==
    ASSUME Inv1, ConnInv, WaitInv, EnterSelect
    PROVE  WaitInv'
<1>1. /\ pc = "loop" /\ pc' = "select" /\ selWait' = ServeTimeout /\ ~idle /\ idle' = idle
      /\ UNCHANGED <<refused, left, waited>>
  BY DEF EnterSelect, flags, history
<1>2. waited \in Nat /\ Elems(refused)' = Elems(refused)
  BY <1>1 DEF Inv1, TypeOK, Elems
<1>3. CASE refused = <<>>
  BY <1>1, <1>2, <1>3 DEF WaitInv, ServeTimeout
<1>4. CASE refused # <<>>
  <2>1. Head(refused) \in Conns /\ left[Head(refused)] \in Nat
    BY <1>4, HeadTailElems DEF Inv1, TypeOK
  <2>2. selWait' \in Nat /\ selWait' <= left[Head(refused)]
    BY <1>1, <1>4, <2>1 DEF ServeTimeout, Least
  <2> QED
    BY <1>1, <1>2, <1>4, <2>2 DEF WaitInv
<1> QED
  BY <1>3, <1>4

\* Accepting a connection starts the idle timeout afresh.
LEMMA AcceptWaitInv ==
    ASSUME Inv1, ConnInv, WaitInv, GetRequest \/ GetRequestFails
    PROVE  WaitInv'
<1>1. /\ pc = "select" /\ pc' \in {"verify", "loop"} /\ waited' = 0 /\ left' = left
      /\ idle' = idle /\ refused' = Reaped
  BY DEF GetRequest, GetRequestFails, flags
<1>2. \A c \in Elems(refused') : c \in Conns
  BY <1>1, ReapList, ElementOfSeq DEF Elems
<1>3. \A c \in Elems(refused') : left[c] <= RefuseLinger /\ left[c] \in Nat
  BY <1>2 DEF Inv1, TypeOK
<1> QED
  BY <1>1, <1>3 DEF WaitInv

\* handle_timeout() finds the server idle only when nothing shortened the wait.
LEMMA HandleTimeoutWaitInv ==
    ASSUME Inv1, ConnInv, WaitInv, HandleTimeout
    PROVE  WaitInv'
<1>1. /\ pc = "select" /\ pc' = "loop" /\ selWait = 0 /\ waited' = waited /\ left' = left
      /\ waited \in Nat
  BY DEF HandleTimeout, history, Inv1, TypeOK
<1>2. CASE refused = <<>>
  <2>1. refused' = refused /\ idle' = TRUE /\ Elems(refused)' = Elems(refused)
    BY <1>2 DEF HandleTimeout, Elems
  <2>2. IdleTimeout > 0
    BY <1>1, <1>2 DEF WaitInv, NoTimer
  <2> QED
    BY <1>1, <1>2, <2>1, <2>2 DEF WaitInv
<1>3. CASE refused # <<>>
  <2>1. refused' = Reaped /\ idle' = idle
    BY <1>3 DEF HandleTimeout
  <2>2. Elems(Reaped) \subseteq Elems(refused)
    BY ReapedElems DEF Inv1, TypeOK, ListTypes, ConnInv, ListInv
  <2>3. Elems(refused)' \subseteq Elems(refused)
    BY <2>1, <2>2 DEF Elems
  <2>4. Head(refused) \in Elems(refused) /\ left[Head(refused)] \in Nat
    BY <1>3, HeadTailElems DEF Inv1, TypeOK
  <2>5. waited <= RefuseLinger
    BY <1>1, <2>4 DEF WaitInv
  <2>6. ~idle
    BY <1>1 DEF WaitInv
  <2> QED
    BY <1>1, <2>1, <2>3, <2>5, <2>6 DEF WaitInv
<1> QED
  BY <1>2, <1>3

\* A connection is refused in no time after it was accepted.
LEMMA RefuseWaitInv ==
    ASSUME Inv1, ConnInv, WaitInv, Refuse
    PROVE  WaitInv'
<1>1. /\ pc = "refuse" /\ pc' = "loop" /\ UNCHANGED <<waited, idle>>
  BY DEF Refuse, flags, history
<1>2. waited = 0 /\ ~idle
  BY <1>1 DEF WaitInv
<1>3. Inv1'
  <2>1. [Next]_vars
    BY DEF Next, ServerStep, VerifyStep
  <2> QED
    BY <2>1, NextInv1
<1>4. \A c \in Elems(refused') : c \in Conns
  <2>1. refused' \in Seq(Conns)
    BY <1>3 DEF Inv1, TypeOK
  <2> QED
    BY <2>1, ElementOfSeq DEF Elems
<1>5. \A c \in Elems(refused') : left'[c] <= RefuseLinger /\ left'[c] \in Nat
  BY <1>3, <1>4 DEF Inv1, TypeOK
<1> QED
  BY <1>1, <1>2, <1>5 DEF WaitInv

\* While select() waits, no deadline is due.
LEMMA NothingDue ==
    ASSUME Inv1, ConnInv, WaitInv, pc = "select", Tick
    PROVE  \A c \in Elems(refused) : c \in Conns /\ left[c] > 0
<1> SUFFICES ASSUME NEW c \in Elems(refused)
             PROVE  c \in Conns /\ left[c] > 0
  OBVIOUS
<1>1. PICK i \in 1 .. Len(refused) : c = refused[i]
  BY DEF Elems
<1>2. c \in Conns /\ refused # <<>> /\ Len(refused) \in Nat
  BY <1>1, ElementOfSeq, EmptySeq, LenProperties DEF Inv1, TypeOK
<1>3. Head(refused) = refused[1] /\ Head(refused) \in Conns /\ 1 \in 1 .. Len(refused)
  BY <1>1, <1>2, HeadTailElems DEF Inv1, TypeOK
<1>4. selWait \in Nat /\ selWait # 0 /\ selWait <= left[Head(refused)]
  BY <1>2 DEF WaitInv, Tick, Blocked
<1>5. left[Head(refused)] \in Nat /\ left[c] \in Nat
  BY <1>2, <1>3 DEF Inv1, TypeOK
<1>6. left[refused[1]] <= left[c]
  BY <1>1, <1>3 DEF ConnInv, ListInv, RefusedInOrder
<1> QED
  BY <1>2, <1>3, <1>4, <1>5, <1>6

\* Time in select() is taken from what _serve_timeout() allowed for it.
LEMMA TickWaitInv ==
    ASSUME Inv1, ConnInv, WaitInv, Tick
    PROVE  WaitInv'
<1>1. /\ UNCHANGED <<pc, refused, idle>> /\ waited \in Nat
      /\ waited' = (IF pc = "select" THEN waited + 1 ELSE waited)
      /\ selWait' = Down(selWait)
      /\ \A c \in Conns : left'[c] = Down(left[c])
      /\ Elems(refused)' = Elems(refused)
  BY DEF Tick, flags, Inv1, TypeOK, Elems
<1>2. \A c \in Elems(refused) : c \in Conns /\ left[c] \in Nat
  BY ElementOfSeq DEF Inv1, TypeOK, Elems
<1>3. CASE pc # "select"
  <2>1. \A c \in Elems(refused) : left'[c] <= left[c] /\ left'[c] \in Nat
    BY <1>1, <1>2 DEF Down
  <2>2. \A c \in Elems(refused') : waited' + left'[c] <= RefuseLinger
    BY <1>1, <1>2, <1>3, <2>1 DEF WaitInv
  <2> QED
    BY <1>1, <1>3, <2>2 DEF WaitInv
<1>4. CASE pc = "select"
  <2>1. selWait # 0 /\ ~idle
    BY <1>4 DEF Tick, Blocked, WaitInv
  <2>2. \A c \in Elems(refused) : left'[c] = left[c] - 1 /\ waited' = waited + 1
    BY <1>1, <1>2, <1>4, NothingDue DEF Down
  <2>3. \A c \in Elems(refused') : waited' + left'[c] <= RefuseLinger
    BY <1>1, <1>2, <2>2 DEF WaitInv
  <2>4. CASE refused = <<>>
    <3>1. IdleTimeout = 0 => selWait' = NoTimer
      BY <1>1, <1>4, <2>4 DEF WaitInv, Down, NoTimer
    <3>2. IdleTimeout > 0 => /\ selWait' \in Nat
                            /\ waited' + selWait' >= IdleTimeout
                            /\ waited' + selWait' <= IdleTimeout + RefuseLinger
      BY <1>1, <1>4, <2>1, <2>4 DEF WaitInv, Down
    <3> QED
      BY <1>1, <1>4, <2>1, <2>3, <2>4, <3>1, <3>2 DEF WaitInv
  <2>5. CASE refused # <<>>
    <3>1. Head(refused) \in Elems(refused)
      BY <2>5, HeadTailElems DEF Inv1, TypeOK
    <3>2. selWait' \in Nat /\ selWait' <= left'[Head(refused)]
      BY <1>1, <1>2, <1>4, <2>1, <2>2, <2>5, <3>1 DEF WaitInv, Down
    <3>3. waited' <= RefuseLinger
      <4>1. left'[Head(refused)] \in Nat /\ waited' \in Nat
        BY <1>1, <1>2, <3>1 DEF Down
      <4> QED
        BY <1>1, <2>3, <3>1, <4>1
    <3> QED
      BY <1>1, <1>4, <2>1, <2>3, <2>5, <3>2, <3>3 DEF WaitInv
  <2> QED
    BY <2>4, <2>5
<1> QED
  BY <1>3, <1>4

\* Every step keeps the account of the time spent in select().
LEMMA NextWaitInv == Inv1 /\ ConnInv /\ WaitInv /\ [Next]_vars => WaitInv'
<1> SUFFICES ASSUME Inv1, ConnInv, WaitInv, [Next]_vars
             PROVE  WaitInv'
  OBVIOUS
<1> USE DEF timers, flags, history, clientVars
<1>1. CASE Start
  BY <1>1, QuietWaitInv DEF Start, WaitInv
<1>2. CASE LeaveLoop
  BY <1>2, QuietWaitInv DEF LeaveLoop, WaitInv
<1>3. CASE Verify
  BY <1>3, QuietWaitInv DEF Verify, WaitInv
<1>4. CASE VerifyFails
  BY <1>4, QuietWaitInv DEF VerifyFails, WaitInv
<1>5. CASE BeginRequest
  BY <1>5, QuietWaitInv DEF BeginRequest, WaitInv
<1>6. CASE ReadChunk
  BY <1>6, QuietWaitInv DEF ReadChunk, WaitInv
<1>7. CASE RouteReturn
  BY <1>7, QuietWaitInv DEF RouteReturn, WaitInv
<1>8. CASE SendHead
  BY <1>8, QuietWaitInv DEF SendHead, WaitInv
<1>9. CASE ReadEof
  BY <1>9, QuietWaitInv DEF ReadEof, Conclude, WaitInv
<1>10. CASE ReadTimeout
  BY <1>10, QuietWaitInv DEF ReadTimeout, Conclude, WaitInv
<1>11. CASE SendBody
  BY <1>11, QuietWaitInv DEF SendBody, Conclude, WaitInv
<1>12. CASE SendBroken
  BY <1>12, QuietWaitInv DEF SendBroken, Conclude, WaitInv
<1>13. CASE SendTimeout
  BY <1>13, QuietWaitInv DEF SendTimeout, Conclude, WaitInv
<1>14. CASE EndRequest
  BY <1>14, QuietWaitInv DEF EndRequest, WaitInv
<1>15. CASE EnterSelect
  BY <1>15, EnterSelectWaitInv
<1>16. CASE GetRequest \/ GetRequestFails
  BY <1>16, AcceptWaitInv
<1>17. CASE HandleTimeout
  BY <1>17, HandleTimeoutWaitInv
<1>18. CASE Refuse
  BY <1>18, RefuseWaitInv
<1>19. CASE Tick
  BY <1>19, TickWaitInv
<1>20. CASE Exit
  BY <1>20, ProcessEndsWaitInv DEF Exit
<1>21. CASE Crash
  BY <1>21, ProcessEndsWaitInv DEF Crash
<1>22. ASSUME NEW s \in pend, Deliver(s)
      PROVE  WaitInv'
  <2>1. CASE MustRaise
    <3>1. ProcessEnds(IF inRequest THEN "cut" ELSE "lost")
      BY <1>22, <2>1 DEF Deliver, Stop, Raise
    <3> QED
      BY <3>1, ProcessEndsWaitInv
  <2>2. CASE ~ MustRaise
    BY <1>22, <2>2, QuietWaitInv DEF Deliver, Stop
  <2> QED
    BY <2>1, <2>2
<1>23. CASE DeliverAlarm
  <2>1. CASE MustRaise
    <3>1. ProcessEnds(IF inRequest THEN "cut" ELSE "lost")
      BY <1>23, <2>1 DEF DeliverAlarm, Stop, Raise
    <3> QED
      BY <3>1, ProcessEndsWaitInv
  <2>2. CASE ~ MustRaise
    BY <1>23, <2>2, QuietWaitInv DEF DeliverAlarm, Stop
  <2> QED
    BY <2>1, <2>2
<1>24. CASE Activate
  <2>1. /\ pc' = "start" /\ waited' = 0 /\ idle' = FALSE /\ UNCHANGED <<refused, left>>
        /\ Elems(refused)' = Elems(refused)
    BY <1>24 DEF Activate, Elems
  <2>2. \A c \in Elems(refused) : left[c] <= RefuseLinger /\ left[c] \in Nat
    BY ElementOfSeq DEF Inv1, TypeOK, Elems
  <2> QED
    BY <2>1, <2>2 DEF WaitInv
<1>25. ASSUME NEW c \in Conns, Connect(c) \/ SendChunk(c) \/ HangUp(c)
      PROVE  WaitInv'
  BY <1>25, QuietWaitInv DEF Connect, SendChunk, HangUp
<1>26. ASSUME NEW s \in Signals, Signal(s)
      PROVE  WaitInv'
  BY <1>26, QuietWaitInv DEF Signal
<1>27. CASE UNCHANGED vars
  BY <1>27, QuietWaitInv DEF vars
<1> QED
  BY <1>1, <1>2, <1>3, <1>4, <1>5, <1>6, <1>7, <1>8, <1>9, <1>10, <1>11,
    <1>12, <1>13, <1>14, <1>15, <1>16, <1>17, <1>18, <1>19, <1>20, <1>21,
    <1>22, <1>23, <1>24, <1>25, <1>26, <1>27
     DEF Next, ServerStep, LoopStep, VerifyStep, HandlerStep, SignalStep,
         ClientStep, FaultStep

-----------------------------------------------------------------------------
(* The theorems.                                                            *)

\* The inductive invariant behind them.
IInv == Inv1 /\ StopInv /\ ConnInv /\ WaitInv

\* The inductive invariant: where the thread is, what _stop() has done, which
\* connections are where, and how long select() has waited.
LEMMA IInvCorrect == Spec => []IInv
<1>1. Init => IInv
  BY InitInv1, InitStopInv, InitConnInv, InitWaitInv DEF IInv
<1>2. IInv /\ [Next]_vars => IInv'
  BY NextInv1, NextStopInv, NextConnInv, NextWaitInv DEF IInv
<1> QED
  BY <1>1, <1>2, PTL DEF Spec

\* _refused holds every refused connection, and each once: no deadline is lost,
\* and no connection is closed twice.
THEOREM RefusedTrackedCorrect == Spec => []RefusedTracked
<1>1. IInv => RefusedTracked
  BY DEF IInv, ConnInv, ListInv
<1> QED
  BY <1>1, IInvCorrect, PTL

\* Its head has the earliest deadline, the only one _serve_timeout() looks at.
THEOREM RefusedListCorrect == Spec => []RefusedInOrder
<1>1. IInv => RefusedInOrder
  BY DEF IInv, ConnInv, ListInv
<1> QED
  BY <1>1, IInvCorrect, PTL

\* It never holds more than RefuseMax connections, the bound of _refuse().
THEOREM RefusalsBoundedCorrect == Spec => []RefusalsBounded
<1>1. IInv => RefusalsBounded
  BY DEF IInv, ConnInv, ListInv
<1> QED
  BY <1>1, IInvCorrect, PTL

\* The server exits idle only after a whole idle timeout, however many refusals
\* have cut its waits in select() short.
THEOREM IdleTruthfulCorrect == Spec => []IdleTruthful
<1>1. IInv => IdleTruthful
  BY DEF IInv, WaitInv, IdleTruthful
<1> QED
  BY <1>1, IInvCorrect, PTL

\* And at most one linger later than that.
THEOREM IdleCorrect == Spec => []IdlePrompt
<1>1. IInv => IdlePrompt
  BY DEF IInv, WaitInv, IdlePrompt
<1> QED
  BY <1>1, IInvCorrect, PTL

\* No time passes in select() while a refused connection is due to be closed.
THEOREM NeverOversleeps == Spec => NoOversleep
<1> DEFINE A == waited' > waited => \A c \in Conns : conn[c] = "refused" => left[c] > 0
<1>1. IInv /\ [Next]_vars => [A]_vars
  <2> SUFFICES ASSUME IInv, Next, waited' > waited, NEW c \in Conns, conn[c] = "refused"
               PROVE  left[c] > 0
    BY DEF vars, history
  <2>1. c \in Elems(refused) /\ waited \in Nat
    BY DEF IInv, Inv1, TypeOK, ConnInv, ListInv, RefusedTracked
  <2>2. Tick /\ pc = "select"
    BY <2>1 DEF Next, ServerStep, LoopStep, VerifyStep, HandlerStep, SignalStep, ClientStep,
       FaultStep, Start, EnterSelect, LeaveLoop, Exit, GetRequest, GetRequestFails,
       HandleTimeout, Verify, VerifyFails, Refuse, BeginRequest, ReadChunk, ReadEof,
       ReadTimeout, RouteReturn, SendHead, SendBody, SendBroken, SendTimeout, EndRequest,
       Conclude, Deliver, DeliverAlarm, Stop, Raise, ProcessEnds, Tick, Activate, Connect,
       SendChunk, HangUp, Signal, Crash, history
  <2> QED
    BY <2>1, <2>2, NothingDue DEF IInv
<1> QED
  BY <1>1, IInvCorrect, PTL DEF Spec, NoOversleep

\* After the first signal the server lives for at most one grace period.
THEOREM StopBoundCorrect == Spec => []StopBounded
<1>1. IInv => StopBounded
  BY DEF IInv, StopInv, StopBounded
<1> QED
  BY <1>1, IInvCorrect, PTL

\* That time passes only while a request is in the handler.
THEOREM NoIdleGraceCorrect == Spec => NoIdleGrace
<1> DEFINE A == stopTicks' > stopTicks => cur # NoConn /\ conn[cur] = "open"
<1>1. IInv /\ [Next]_vars => [A]_vars
  <2> SUFFICES ASSUME IInv, Next, stopTicks' > stopTicks
               PROVE  cur # NoConn /\ conn[cur] = "open"
    BY DEF vars, history
  <2>1. stopTicks \in Nat
    BY DEF IInv, Inv1, TypeOK
  <2>2. CASE Tick
    <3>1. stopping /\ pc \in {"read", "sendhead", "sendbody"}
      <4>1. stopping /\ pc # "route"
        BY <2>1, <2>2 DEF Tick
      <4>2. pc # "select"
        BY <4>1 DEF IInv, StopInv, InHandler
      <4> QED
        BY <2>2, <4>1, <4>2 DEF Tick, Blocked
    <3>2. pc \in Busy /\ pc \in HasOpen
      BY <3>1 DEF Busy, InHandler, HasOpen
    <3> QED
      BY <3>2 DEF IInv, Inv1, ThreadInv, ConnInv, OpenInv
  <2>3. CASE ~ Tick
    <3>1. stopTicks' = stopTicks \/ stopTicks' = 0
      BY <2>3 DEF Next, ServerStep, LoopStep, VerifyStep, HandlerStep, SignalStep,
         ClientStep, FaultStep, Start, EnterSelect, LeaveLoop, Exit, GetRequest,
         GetRequestFails, HandleTimeout, Verify, VerifyFails, Refuse, BeginRequest,
         ReadChunk, ReadEof, ReadTimeout, RouteReturn, SendHead, SendBody, SendBroken,
         SendTimeout, EndRequest, Conclude, Deliver, DeliverAlarm, Stop, Raise,
         ProcessEnds, Activate, Connect, SendChunk, HangUp, Signal, Crash, history
    <3> QED
      BY <2>1, <3>1
  <2> QED
    BY <2>2, <2>3
<1> QED
  BY <1>1, IInvCorrect, PTL DEF Spec, NoIdleGrace

\* A step that cuts a request off handles a second signal, or the alarm.
LEMMA CutStep ==
    ASSUME IInv, Next, NEW c \in Conns, conn[c] = "open", conn'[c] = "cut"
    PROVE  (\E s \in pend : Deliver(s)) \/ DeliverAlarm
<1>1. c = cur /\ pc \in HasOpen /\ conn \in [Conns -> ConnStates]
  BY DEF IInv, Inv1, TypeOK, ConnInv, OpenInv
<1>2. /\ ~ (Start \/ EnterSelect \/ LeaveLoop \/ Verify \/ VerifyFails \/ BeginRequest)
      /\ ~ (ReadChunk \/ RouteReturn \/ SendHead \/ EndRequest \/ Tick \/ Activate)
      /\ ~ HandleTimeout /\ ~ GetRequest /\ ~ GetRequestFails
  BY <1>1 DEF Start, EnterSelect, LeaveLoop, Verify, VerifyFails, BeginRequest, ReadChunk,
     RouteReturn, SendHead, EndRequest, Tick, Activate, HandleTimeout, GetRequest,
     GetRequestFails, HasOpen, Busy, InHandler
<1>3. ~ Refuse
  BY <1>1 DEF Refuse
<1>4. ~ (ReadEof \/ ReadTimeout \/ SendBody \/ SendBroken \/ SendTimeout)
  BY <1>1 DEF ReadEof, ReadTimeout, SendBody, SendBroken, SendTimeout, Conclude
<1>5. ~ (Exit \/ Crash)
  BY DEF Exit, Crash, ProcessEnds, Fate
<1>6. ~ \E d \in Conns : Connect(d) \/ SendChunk(d) \/ HangUp(d)
  BY <1>1 DEF Connect, SendChunk, HangUp
<1>7. ~ \E s \in Signals : Signal(s)
  BY DEF Signal
<1> QED
  BY <1>2, <1>3, <1>4, <1>5, <1>6, <1>7
     DEF Next, ServerStep, LoopStep, VerifyStep, HandlerStep, SignalStep, ClientStep,
       FaultStep

\* issue #27: a request in the handler is truncated only for a sender that
\* insists, or at the end of the grace period.
THEOREM CutCorrect == Spec => CutOnlyIfInsisted
<1> DEFINE A == \A c \in Conns : conn[c] = "open" /\ conn'[c] = "cut"
                    => sigs["TERM"] + sigs["INT"] >= 2 \/ elapsed >= StopGrace
<1>1. IInv /\ [Next]_vars => [A]_vars
  <2> SUFFICES ASSUME IInv, Next, NEW c \in Conns, conn[c] = "open", conn'[c] = "cut"
               PROVE  sigs["TERM"] + sigs["INT"] >= 2 \/ elapsed >= StopGrace
    BY DEF vars
  <2>1. /\ sigs["TERM"] \in Nat /\ sigs["INT"] \in Nat /\ elapsed \in Nat
    BY DEF IInv, Inv1, TypeOK, Signals
  <2>2. CASE DeliverAlarm
    <3>1. alarm = 0 /\ pc # "done"
      BY <2>2 DEF DeliverAlarm
    <3>2. elapsed + alarm = StopGrace
      BY <3>1 DEF IInv, StopInv, NoTimer
    <3> QED
      BY <2>1, <3>1, <3>2
  <2>3. CASE \E s \in pend : Deliver(s)
    <3>1. PICK s \in pend : Deliver(s)
      BY <2>3
    <3>2. stopping
      <4>1. MustRaise
        BY <3>1 DEF Deliver, Stop
      <4>2. ProcessEnds(IF inRequest THEN "cut" ELSE "lost")
        BY <3>1, <4>1 DEF Deliver, Stop, Raise
      <4>3. inRequest
        BY <4>2 DEF ProcessEnds, Fate
      <4>4. pc # "start"
        BY <4>3 DEF IInv, Inv1, ThreadInv, InHandler
      <4> QED
        BY <4>1, <4>3, <4>4 DEF MustRaise
    <3>3. s = "TERM" \/ s = "INT"
      BY DEF IInv, Inv1, TypeOK, Caught, Signals
    <3>4. Flagged("TERM") + Flagged("INT") >= 1
      BY <3>1, <3>3 DEF Flagged
    <3>5. Flagged("TERM") \in Nat /\ Flagged("INT") \in Nat
      BY DEF Flagged
    <3> QED
      BY <2>1, <3>2, <3>4, <3>5 DEF IInv, StopInv
  <2> QED
    BY <2>2, <2>3, CutStep
<1> QED
  BY <1>1, IInvCorrect, PTL DEF Spec, CutOnlyIfInsisted

\* The loop is left for a reason.
ExitInv == pc = "exit" => stopping \/ idle

\* Every step keeps the account of why the process may come to an end.
LEMMA NextExitInv == ExitInv /\ [Next]_vars => ExitInv'
<1> SUFFICES ASSUME ExitInv, [Next]_vars, pc' = "exit"
             PROVE  stopping' \/ idle'
  BY DEF ExitInv
<1>1. LeaveLoop \/ UNCHANGED <<pc, idle>>
  BY DEF Next, ServerStep, LoopStep, VerifyStep, HandlerStep, SignalStep, ClientStep, FaultStep,
     Start, EnterSelect, LeaveLoop, Exit, GetRequest, GetRequestFails, HandleTimeout, Verify,
     VerifyFails, Refuse, BeginRequest, ReadChunk, ReadEof, ReadTimeout, RouteReturn, SendHead,
     SendBody, SendBroken, SendTimeout, EndRequest, Conclude, Deliver, DeliverAlarm, Stop,
     Raise, ProcessEnds, Tick, Activate, Connect, SendChunk, HangUp, Signal, Crash, vars, flags
<1>2. CASE LeaveLoop
  BY <1>2 DEF LeaveLoop, flags
<1>3. CASE UNCHANGED <<pc, idle>>
  <2>1. stopping \/ idle
    BY <1>3 DEF ExitInv
  <2>2. stopping => stopping'
    BY <1>3 DEF Next, ServerStep, LoopStep, VerifyStep, HandlerStep, SignalStep, ClientStep,
       FaultStep, Start, EnterSelect, LeaveLoop, Exit, GetRequest, GetRequestFails,
       HandleTimeout, Verify, VerifyFails, Refuse, BeginRequest, ReadChunk, ReadEof,
       ReadTimeout, RouteReturn, SendHead, SendBody, SendBroken, SendTimeout, EndRequest,
       Conclude, Deliver, DeliverAlarm, Stop, Raise, ProcessEnds, Tick, Activate, Connect,
       SendChunk, HangUp, Signal, Crash, vars, flags
  <2> QED
    BY <1>3, <2>1, <2>2
<1> QED
  BY <1>1, <1>2, <1>3

\* Only the exit, a signal or a crash ends the process.
LEMMA EndStep ==
    ASSUME Inv1, Next, pc # "done", pc' = "done"
    PROVE  Exit \/ (\E s \in pend : Deliver(s)) \/ DeliverAlarm \/ Crash
  BY DEF Inv1, TypeOK, Next, ServerStep, LoopStep, VerifyStep, HandlerStep, SignalStep,
     ClientStep, FaultStep, Start, EnterSelect, LeaveLoop, GetRequest, GetRequestFails,
     HandleTimeout, Verify, VerifyFails, Refuse, BeginRequest, ReadChunk, ReadEof, ReadTimeout,
     RouteReturn, SendHead, SendBody, SendBroken, SendTimeout, EndRequest, Conclude, Tick,
     Activate, Connect, SendChunk, HangUp, Signal

\* The process ends because it is idle, crashes, or got a signal it handles.
THEOREM EndCorrect == Spec => EndsOnlyWhenAsked
<1> DEFINE A == pc # "done" /\ pc' = "done" /\ faults' = faults
                  => idle \/ sigs["TERM"] > 0 \/ (~IntIgnored /\ sigs["INT"] > 0)
<1>1. IInv /\ ExitInv /\ [Next]_vars => [A]_vars
  <2> SUFFICES ASSUME IInv, ExitInv, Next, pc # "done", pc' = "done", faults' = faults
               PROVE  idle \/ sigs["TERM"] > 0 \/ (~IntIgnored /\ sigs["INT"] > 0)
    BY DEF vars
  <2>1. \A s \in Caught : s = "TERM" \/ (s = "INT" /\ ~IntIgnored)
    BY DEF Caught, Signals
  <2>2. CASE idle
    BY <2>2
  <2>3. CASE stopping
    <3>1. PICK s \in Caught : sigs[s] > 0
      BY <2>3 DEF IInv, StopInv
    <3> QED
      BY <2>1, <3>1
  <2>4. CASE \E s \in pend : Deliver(s)
    <3>1. PICK s \in pend : sigs[s] > 0
      BY <2>4 DEF IInv, StopInv
    <3>2. s \in Caught
      BY DEF IInv, Inv1, TypeOK
    <3> QED
      BY <2>1, <3>1, <3>2
  <2>5. DeliverAlarm => stopping
    BY DEF DeliverAlarm, IInv, StopInv, NoTimer
  <2>6. ~ Crash
    BY DEF Crash, IInv, Inv1, TypeOK
  <2>7. Exit => stopping \/ idle
    BY DEF Exit, ExitInv
  <2> QED
    BY <2>2, <2>3, <2>4, <2>5, <2>6, <2>7, EndStep DEF IInv
<1>2. Init => ExitInv
  BY DEF Init, ExitInv
<1>3. Spec => []ExitInv
  BY <1>2, NextExitInv, PTL DEF Spec
<1> QED
  BY <1>1, <1>3, IInvCorrect, PTL DEF Spec, EndsOnlyWhenAsked

-----------------------------------------------------------------------------
(* The serve loop implements ConnService.                                   *)

\* Who gets past verify_request(), and whom it turns away.
PeerInv ==
    /\ pc = "process" /\ CheckPeer => cur \in Permitted
    /\ pc = "refuse" => CheckPeer

\* No other step leads to the handler or to _refuse().
LEMMA NextPeerInv == PeerInv /\ [Next]_vars => PeerInv'
<1> SUFFICES ASSUME PeerInv, [Next]_vars
             PROVE  PeerInv'
  OBVIOUS
<1>1. CASE Verify \/ VerifyFails
  BY <1>1 DEF Verify, VerifyFails, PeerInv
<1>2. CASE pc' \notin {"process", "refuse"} \/ UNCHANGED <<pc, cur>>
  BY <1>2 DEF PeerInv
<1>3. \/ Verify \/ VerifyFails
      \/ pc' \notin {"process", "refuse"} \/ UNCHANGED <<pc, cur>>
  BY DEF Next, ServerStep, LoopStep, VerifyStep, HandlerStep, SignalStep, ClientStep, FaultStep,
     Start, EnterSelect, LeaveLoop, Exit, GetRequest, GetRequestFails, HandleTimeout, Refuse,
     BeginRequest, ReadChunk, ReadEof, ReadTimeout, RouteReturn, SendHead, SendBody, SendBroken,
     SendTimeout, EndRequest, Conclude, Deliver, DeliverAlarm, Stop, Raise, ProcessEnds, Tick,
     Activate, Connect, SendChunk, HangUp, Signal, Crash, vars
<1> QED
  BY <1>1, <1>2, <1>3

\* What ConnService calls the connections, in this server's terms.
LEMMA ServicePlaces ==
    ASSUME Inv1, ConnInv
    PROVE  /\ \A c \in Conns :
                /\ AbsPhase(c) = "waiting" <=> conn[c] \in {"queued", "open"}
                                               /\ (conn[c] = "open" => ~inRequest)
                /\ AbsPhase(c) = "serving" <=> conn[c] = "open" /\ inRequest
                /\ AbsPhase(c) = "refused" <=> conn[c] = "refused"
                /\ conn[c] \in Over => AbsPhase(c) \in {"away", "answered", "failed", "closed"}
           /\ \A p : Service!In(p) = {c \in Conns : AbsPhase(c) = p}
<1>1. \A p : Service!In(p) = {c \in Conns : AbsPhase(c) = p}
  BY DEF Service!In
<1>2. ASSUME NEW c \in Conns
      PROVE  /\ AbsPhase(c) = "waiting" <=> conn[c] \in {"queued", "open"}
                                            /\ (conn[c] = "open" => ~inRequest)
             /\ AbsPhase(c) = "serving" <=> conn[c] = "open" /\ inRequest
             /\ AbsPhase(c) = "refused" <=> conn[c] = "refused"
             /\ conn[c] \in Over => AbsPhase(c) \in {"away", "answered", "failed", "closed"}
  BY DEF AbsPhase, Over
<1> QED
  BY <1>1, <1>2

\* A step that changes nothing for any connection.
LEMMA UnseenService ==
    ASSUME pc' = "done" <=> pc = "done",
           \A c \in Conns : AbsPhase(c)' = AbsPhase(c)
    PROVE  [Service!Next]_(Service!vars)
<1>1. [c \in Conns |-> AbsPhase(c)]' = [c \in Conns |-> AbsPhase(c)]
  OBVIOUS
<1>2. (pc # "done")' = (pc # "done")
  OBVIOUS
<1> QED
  BY <1>1, <1>2 DEF Service!vars

\* A step of one connection.
LEMMA OneService ==
    ASSUME Inv1, ConnInv, pc' = "done" <=> pc = "done", NEW c \in Conns,
           \A d \in Conns \ {c} : AbsPhase(d)' = AbsPhase(d),
           \/ /\ AbsPhase(c) \in {"away", "answered", "failed", "closed"}
              /\ AbsPhase(c)' = "waiting" /\ (pc # "done" \/ Activated)
           \/ /\ AbsPhase(c) = "waiting" /\ AbsPhase(c)' = "serving" /\ pc # "done"
              /\ Service!In("serving") = {} /\ (CheckPeer => c \in Permitted)
           \/ AbsPhase(c) = "serving" /\ AbsPhase(c)' \in {"answered", "failed"} /\ pc # "done"
    PROVE  Service!Next
<1> DEFINE from == AbsPhase(c)
           to == AbsPhase(c)'
<1>1. [d \in Conns |-> AbsPhase(d)]' = [[d \in Conns |-> AbsPhase(d)] EXCEPT ![c] = to]
  OBVIOUS
<1>2. (pc # "done")' = (pc # "done")
  OBVIOUS
<1>3. [d \in Conns |-> AbsPhase(d)][c] = from
  OBVIOUS
<1> HIDE DEF to
<1>4. CASE /\ from \in {"away", "answered", "failed", "closed"}
           /\ to = "waiting" /\ (pc # "done" \/ Activated)
  <2>1. Service!Arrive(c)
    BY <1>1, <1>2, <1>3, <1>4 DEF Service!Arrive, Service!Ended
  <2> QED
    BY <2>1 DEF Service!Next
<1>5. CASE /\ from = "waiting" /\ to = "serving" /\ pc # "done"
           /\ Service!In("serving") = {} /\ (CheckPeer => c \in Permitted)
  <2>1. Service!Serve(c)
    BY <1>1, <1>2, <1>3, <1>5 DEF Service!Serve
  <2> QED
    BY <2>1 DEF Service!Next
<1>6. CASE from = "serving" /\ to \in {"answered", "failed"} /\ pc # "done"
  <2>1. Service!Conclude(c)
    BY <1>1, <1>2, <1>3, <1>6 DEF Service!Conclude
  <2> QED
    BY <2>1 DEF Service!Next
<1> QED
  BY <1>4, <1>5, <1>6 DEF to

\* A connection succeeds as soon as it is queued.
LEMMA ConnectService ==
    ASSUME Inv1, ConnInv, NEW c \in Conns, Connect(c)
    PROVE  Service!Next
<1>1. /\ pc' = pc /\ inRequest' = inRequest /\ (pc # "done" \/ Activated)
      /\ conn[c] \in Over /\ conn'[c] = "queued"
      /\ \A d \in Conns \ {c} : conn'[d] = conn[d]
  BY DEF Connect, flags, Inv1, TypeOK
<1>2. \A d \in Conns \ {c} : AbsPhase(d)' = AbsPhase(d)
  BY <1>1 DEF AbsPhase
<1>3. AbsPhase(c)' = "waiting"
  BY <1>1 DEF AbsPhase
<1>4. AbsPhase(c) \in {"away", "answered", "failed", "closed"}
  BY <1>1, ServicePlaces
<1> QED
  BY <1>1, <1>2, <1>3, <1>4, OneService

\* process_request(): the accepted connection is the one to be served, since no
\* other one is open.
LEMMA BeginService ==
    ASSUME Inv1, ConnInv, PeerInv, BeginRequest
    PROVE  Service!Next
<1>1. PICK c \in Conns : c = cur
  BY DEF BeginRequest, Inv1, ThreadInv, Busy
<1>2. /\ pc = "process" /\ pc' = "read" /\ conn' = conn /\ inRequest' = TRUE
      /\ ~inRequest /\ conn[c] = "open"
      /\ \A d \in Conns \ {c} : conn[d] # "open"
      /\ CheckPeer => c \in Permitted
  BY <1>1 DEF BeginRequest, Inv1, ThreadInv, InHandler, ConnInv, OpenInv, HasOpen, Busy, PeerInv
<1>3. \A d \in Conns \ {c} : AbsPhase(d)' = AbsPhase(d)
  BY <1>2 DEF AbsPhase
<1>4. AbsPhase(c) = "waiting" /\ AbsPhase(c)' = "serving"
  BY <1>2 DEF AbsPhase
<1>5. Service!In("serving") = {}
  BY <1>2, ServicePlaces
<1> QED
  BY <1>2, <1>3, <1>4, <1>5, OneService

\* The handler is done with it.
LEMMA ConcludeService ==
    ASSUME Inv1, ConnInv, pc \in InHandler \ {"finish"},
           NEW f \in {"served", "hungup", "expired"}, Conclude(f)
    PROVE  Service!Next
<1>1. PICK c \in Conns : c = cur
  BY DEF Inv1, ThreadInv, Busy
<1>2. /\ pc # "done" /\ pc' # "done" /\ inRequest /\ inRequest' /\ conn[c] = "open" /\ conn'[c] = f
      /\ \A d \in Conns \ {c} : conn'[d] = conn[d]
  BY <1>1 DEF Conclude, Inv1, TypeOK, ThreadInv, InHandler, ConnInv, OpenInv, HasOpen, Busy, flags
<1>3. \A d \in Conns \ {c} : AbsPhase(d)' = AbsPhase(d)
  BY <1>2 DEF AbsPhase
<1>4. AbsPhase(c) = "serving" /\ AbsPhase(c)' \in {"answered", "failed"}
  BY <1>2 DEF AbsPhase
<1> QED
  BY <1>2, <1>3, <1>4, OneService

\* _reap() closes refused connections, and get_request() or the timeout that it
\* is called from is not seen in any other way.
LEMMA ReapService ==
    ASSUME Inv1, ConnInv, pc = "select", pc' # "done", inRequest' = inRequest,
           \A c \in Conns : \/ conn'[c] = AfterReap[c]
                            \/ conn[c] = "queued" /\ conn'[c] = "open"
    PROVE  [Service!Next]_(Service!vars)
<1> DEFINE S == {c \in Conns : Expired(c)}
<1>1. ~inRequest
  BY DEF Inv1, ThreadInv, InHandler
<1>2. \A c \in Conns : AfterReap[c] = IF c \in S THEN "closed" ELSE conn[c]
  BY DEF AfterReap
<1>3. \A c \in S : conn[c] = "refused"
  BY DEF Expired
<1>4. \A c \in Conns : AbsPhase(c)' = IF c \in S THEN "closed" ELSE AbsPhase(c)
  BY <1>1, <1>2, <1>3 DEF AbsPhase
<1>5. S \in SUBSET Service!In("refused")
  BY <1>3, ServicePlaces
<1>6. S \subseteq Conns
  OBVIOUS
<1> HIDE DEF S
<1>7. CASE S = {}
  BY <1>4, <1>7, UnseenService
<1>8. CASE S # {}
  <2>1. [c \in Conns |-> AbsPhase(c)]' =
          [c \in Conns |-> IF c \in S THEN "closed" ELSE [d \in Conns |-> AbsPhase(d)][c]]
    BY <1>4
  <2>2. (pc # "done")' = (pc # "done")
    OBVIOUS
  <2>3. Service!Close(S)
    BY <1>8, <2>1, <2>2 DEF Service!Close
  <2> QED
    BY <1>5, <2>3 DEF Service!Next
<1> QED
  BY <1>7, <1>8

\* The pops of _refuse() leave room for the new entry: without it, the list
\* holds fewer than RefuseMax connections.
LEMMA KeptRoom ==
    ASSUME Inv1, ConnInv, pc = "refuse"
    PROVE  Cardinality(Elems(Kept) \ {cur}) < RefuseMax
<1>1. ListTypes /\ cur \in Conns
  BY DEF Inv1, TypeOK, ThreadInv, ListTypes, Busy
<1>2. Len(Kept) \in 1 .. RefuseMax /\ Kept[Len(Kept)] = cur
  BY <1>1, KeptProps
<1> DEFINE n == Len(Kept) - 1
           T == {Kept[i] : i \in 1 .. n}
<1>3. n \in Nat /\ n < RefuseMax
  BY <1>2
<1>4. Elems(Kept) \ {cur} \subseteq T
  BY <1>2 DEF Elems
<1>5. IsFiniteSet(1 .. n) /\ Cardinality(1 .. n) = n
  BY <1>3, FS_Interval
<1> HIDE DEF n
<1>6. IsFiniteSet(T) /\ Cardinality(T) <= n
  <2> DEFINE f == [i \in 1 .. n |-> Kept[i]]
  <2>1. f \in Surjection(1 .. n, T)
    BY DEF Surjection
  <2> QED
    BY <1>5, <2>1, FS_Surjection
<1> HIDE DEF T
<1>7. /\ Cardinality(Elems(Kept) \ {cur}) <= Cardinality(T)
      /\ Cardinality(Elems(Kept) \ {cur}) \in Nat /\ Cardinality(T) \in Nat
  BY <1>4, <1>6, FS_Subset, FS_CardinalityType
<1> QED
  BY <1>3, <1>6, <1>7

\* _refuse(): one connection more is refused, and older ones are closed for it.
LEMMA RefuseService ==
    ASSUME Inv1, ConnInv, PeerInv, Refuse
    PROVE  Service!Next
<1>1. PICK c \in Conns : c = cur
  BY DEF Refuse, Inv1, ThreadInv, Busy
<1>2. /\ pc = "refuse" /\ pc' = "loop" /\ inRequest' = inRequest /\ ~inRequest
      /\ conn[c] = "open" /\ CheckPeer
      /\ \A d \in Conns : conn'[d] = IF d \in Elems(Kept) THEN "refused"
                                     ELSE IF conn[d] = "refused" THEN "closed" ELSE conn[d]
  BY <1>1 DEF Refuse, flags, Inv1, ThreadInv, InHandler, ConnInv, OpenInv, HasOpen, Busy, PeerInv
<1>3. c \in Elems(Kept) /\ \A d \in Conns : d \in Elems(Kept) => d = c \/ conn[d] = "refused"
  <2>1. ListTypes
    BY DEF Inv1, TypeOK, ListTypes
  <2>2. /\ Len(Kept) \in 1 .. RefuseMax /\ Kept[Len(Kept)] = c /\ Len(refused) \in Nat
        /\ \E d \in Nat : /\ Len(Kept) = Len(refused) + 1 - d
                          /\ \A i \in 1 .. Len(Kept) - 1 : Kept[i] = refused[i + d]
    BY <1>1, <2>1, KeptProps, LenProperties DEF ListTypes
  <2>3. \A i \in 1 .. Len(Kept) - 1 : Kept[i] \in Elems(refused)
    <3>1. PICK d \in Nat : /\ Len(Kept) = Len(refused) + 1 - d
                           /\ \A i \in 1 .. Len(Kept) - 1 : Kept[i] = refused[i + d]
      BY <2>2
    <3>2. \A i \in 1 .. Len(Kept) - 1 : i + d \in 1 .. Len(refused)
      BY <2>2, <3>1
    <3> QED
      BY <3>1, <3>2 DEF Elems
  <2>4. ASSUME NEW d \in Elems(Kept) PROVE d = c \/ d \in Elems(refused)
    <3>1. PICK i \in 1 .. Len(Kept) : d = Kept[i]
      BY DEF Elems
    <3>2. CASE i = Len(Kept)
      BY <2>2, <3>1, <3>2
    <3>3. CASE i # Len(Kept)
      <4>1. i \in 1 .. Len(Kept) - 1
        BY <2>2, <3>1, <3>3
      <4> QED
        BY <2>3, <3>1, <4>1
    <3> QED
      BY <3>2, <3>3
  <2>5. c \in Elems(Kept)
    BY <2>2 DEF Elems
  <2> QED
    BY <2>4, <2>5 DEF ConnInv, ListInv, RefusedTracked
<1> DEFINE S == {d \in Conns : conn[d] = "refused" /\ d \notin Elems(Kept)}
<1>4. \A d \in Conns : AbsPhase(d)' = IF d = c THEN "refused"
                                     ELSE IF d \in S THEN "closed" ELSE AbsPhase(d)
  BY <1>2, <1>3 DEF AbsPhase
<1>5. AbsPhase(c) = "waiting"
  BY <1>2 DEF AbsPhase
<1>6. /\ S \in SUBSET Service!In("refused")
      /\ Service!In("refused") \ S = Elems(Kept) \ {cur}
  <2>1. Service!In("refused") = {d \in Conns : conn[d] = "refused"}
    BY ServicePlaces
  <2>2. Elems(Kept) \subseteq Conns
    BY <1>1, KeptProps, ElementOfSeq DEF Inv1, TypeOK, ListTypes, Elems
  <2> QED
    BY <1>1, <1>2, <1>3, <2>1, <2>2
<1>7. Service!Cardinality(Service!In("refused") \ S) < RefuseMax
  BY <1>2, <1>6, KeptRoom DEF Cardinality, Service!Cardinality
<1> HIDE DEF S
<1>8. [d \in Conns |-> AbsPhase(d)]' =
        [d \in Conns |-> IF d = c THEN "refused"
                         ELSE IF d \in S THEN "closed" ELSE [e \in Conns |-> AbsPhase(e)][d]]
  BY <1>4
<1>9. (pc # "done")' = (pc # "done")
  BY <1>2
<1>10. Service!TurnAway(c, S)
  BY <1>2, <1>5, <1>7, <1>8, <1>9 DEF Service!TurnAway
<1> QED
  BY <1>6, <1>10 DEF Service!Next

\* The end of the process, whatever ends it: a queue of systemd's loses no more
\* than the connection just accepted from it.
LEMMA EndService ==
    ASSUME Inv1, ConnInv, pc # "done", NEW b \in {"cut", "lost", "crashed"}, ProcessEnds(b)
    PROVE  Service!Next
<1> DEFINE S == {c \in Conns : \/ conn[c] = "open" /\ ~inRequest
                               \/ conn[c] = "queued" /\ ~Activated}
<1>1. /\ pc' = "done" /\ inRequest' = FALSE
      /\ \A c \in Conns : conn'[c] = Fate(c, b)
  BY DEF ProcessEnds
<1>2. \A c \in Conns : AbsPhase(c)' =
        IF c \in S \/ AbsPhase(c) = "serving" THEN "failed"
        ELSE IF AbsPhase(c) = "refused" THEN "closed" ELSE AbsPhase(c)
  <2> TAKE c \in Conns
  <2>1. CASE conn[c] = "open"
    <3>1. conn'[c] = b
      BY <1>1, <2>1 DEF Fate
    <3> QED
      BY <1>1, <2>1, <3>1 DEF AbsPhase
  <2>2. CASE conn[c] = "queued"
    <3>1. conn'[c] = IF Activated THEN "queued" ELSE "reset"
      BY <1>1, <2>2 DEF Fate
    <3> QED
      BY <1>1, <2>2, <3>1 DEF AbsPhase
  <2>3. CASE conn[c] = "refused"
    <3>1. conn'[c] = "closed"
      BY <1>1, <2>3 DEF Fate
    <3> QED
      BY <1>1, <2>3, <3>1 DEF AbsPhase
  <2>4. CASE conn[c] \notin {"open", "queued", "refused"}
    <3>1. conn'[c] = conn[c]
      BY <1>1, <2>4 DEF Fate
    <3> QED
      BY <1>1, <2>4, <3>1 DEF AbsPhase
  <2> QED
    BY <2>1, <2>2, <2>3, <2>4
<1>3. S \in SUBSET Service!In("waiting")
  BY ServicePlaces
<1>4. ~Activated => S = Service!In("waiting")
  BY ServicePlaces
<1>5. Activated => Service!Cardinality(S) <= 1
  <2>1. Activated => S \subseteq {cur}
    BY DEF ConnInv, OpenInv
  <2>2. IsFiniteSet({cur}) /\ Cardinality({cur}) = 1
    BY FS_Singleton
  <2>3. Activated => Cardinality(S) <= 1
    BY <2>1, <2>2, FS_Subset
  <2> QED
    BY <2>3 DEF Cardinality, Service!Cardinality
<1>6. S # {} => Service!In("serving") = {} \/ ~Activated
  BY ServicePlaces
<1> HIDE DEF S
<1>7. [c \in Conns |-> AbsPhase(c)]' =
        [c \in Conns |->
           IF c \in S \/ [d \in Conns |-> AbsPhase(d)][c] = "serving" THEN "failed"
           ELSE IF [d \in Conns |-> AbsPhase(d)][c] = "refused" THEN "closed"
           ELSE [d \in Conns |-> AbsPhase(d)][c]]
  BY <1>2
<1>8. (pc # "done")' = FALSE
  BY <1>1
<1>9. Service!GoDown(S)
  BY <1>4, <1>5, <1>6, <1>7, <1>8 DEF Service!GoDown
<1> QED
  BY <1>3, <1>9 DEF Service!Next

\* systemd starts a service that is down for those that wait on its socket.
LEMMA ActivateService ==
    ASSUME Inv1, ConnInv, Activate
    PROVE  Service!Next
<1>1. /\ Activated /\ pc = "done" /\ pc' = "start" /\ backlog # <<>>
      /\ conn' = conn /\ inRequest' = inRequest
  BY DEF Activate
<1>2. PICK c \in Conns : conn[c] = "queued"
  <2>1. Head(backlog) \in Conns /\ Head(backlog) \in Elems(backlog)
    BY <1>1, HeadTailElems DEF Inv1, TypeOK
  <2> QED
    BY <2>1 DEF ConnInv, QueueInv
<1>3. Service!In("waiting") # {}
  BY <1>2, ServicePlaces
<1>4. [d \in Conns |-> AbsPhase(d)]' = [d \in Conns |-> AbsPhase(d)]
  BY <1>1 DEF AbsPhase
<1>5. (pc # "done")' = TRUE
  BY <1>1
<1>6. Service!ComeUp
  BY <1>1, <1>3, <1>4, <1>5 DEF Service!ComeUp
<1> QED
  BY <1>6 DEF Service!Next

\* Every step of the serve loop is one of the service, or is not seen.
LEMMA ServiceStep == Inv1 /\ ConnInv /\ PeerInv /\ [Next]_vars => [Service!Next]_(Service!vars)
<1> SUFFICES ASSUME Inv1, ConnInv, PeerInv, [Next]_vars
             PROVE  [Service!Next]_(Service!vars)
  OBVIOUS
<1>1. CASE UNCHANGED <<conn, inRequest>> /\ (pc' = "done" <=> pc = "done")
  BY <1>1, UnseenService DEF AbsPhase
<1>2. CASE \/ Start \/ EnterSelect \/ LeaveLoop \/ Verify \/ VerifyFails \/ ReadChunk
           \/ RouteReturn \/ SendHead \/ Tick \/ UNCHANGED vars
           \/ \E c \in Conns : SendChunk(c) \/ HangUp(c)
           \/ \E s \in Signals : Signal(s)
  BY <1>1, <1>2 DEF Start, EnterSelect, LeaveLoop, Verify, VerifyFails, ReadChunk, RouteReturn,
     SendHead, Tick, SendChunk, HangUp, Signal, vars, flags, Blocked
<1>3. CASE GetRequest
  <2>1. Head(backlog) \in Conns /\ Head(backlog) \in Elems(backlog)
    BY <1>3, HeadTailElems DEF GetRequest, Inv1, TypeOK
  <2>2. conn[Head(backlog)] = "queued"
    BY <2>1 DEF ConnInv, QueueInv
  <2>3. /\ pc = "select" /\ pc' = "verify" /\ inRequest' = inRequest
        /\ \A c \in Conns : conn'[c] = IF c = Head(backlog) THEN "open" ELSE AfterReap[c]
    BY <1>3 DEF GetRequest, flags, AfterReap
  <2> QED
    BY <2>2, <2>3, ReapService
<1>4. CASE GetRequestFails
  BY <1>4, ReapService DEF GetRequestFails, flags
<1>5. CASE HandleTimeout
  BY <1>1, <1>5, ReapService DEF HandleTimeout
<1>6. CASE Refuse \/ BeginRequest \/ Activate \/ \E c \in Conns : Connect(c)
  BY <1>6, RefuseService, BeginService, ActivateService, ConnectService
<1>7. CASE ReadEof \/ ReadTimeout \/ SendBody \/ SendBroken \/ SendTimeout
  <2>1. CASE ReadEof /\ ~ Conclude("hungup")
    BY <1>1, <2>1 DEF ReadEof, flags
  <2>2. CASE \/ ReadEof /\ Conclude("hungup")
             \/ ReadTimeout \/ SendBody \/ SendBroken \/ SendTimeout
    BY <2>2, ConcludeService
     DEF ReadEof, ReadTimeout, SendBody, SendBroken, SendTimeout, InHandler
  <2> QED
    BY <1>7, <2>1, <2>2
<1>8. CASE EndRequest
  <2>1. /\ conn' = conn /\ pc # "done" /\ pc' # "done" /\ \A c \in Conns : conn[c] # "open"
    BY <1>8 DEF EndRequest, ConnInv, OpenInv, HasOpen
  <2>2. \A c \in Conns : AbsPhase(c)' = AbsPhase(c)
    BY <2>1 DEF AbsPhase
  <2> QED
    BY <2>1, <2>2, UnseenService
<1>9. CASE Exit \/ Crash
  BY <1>9, EndService DEF Exit, Crash
<1>10. CASE (\E s \in pend : Deliver(s)) \/ DeliverAlarm
  <2>1. PICK rest : pc # "done" /\ Stop(rest)
    BY <1>10 DEF Deliver, DeliverAlarm
  <2>2. CASE MustRaise
    <3>1. PICK b \in {"cut", "lost"} : ProcessEnds(b)
      BY <2>1, <2>2 DEF Stop, Raise
    <3> QED
      BY <2>1, <3>1, EndService
  <2>3. CASE ~MustRaise
    BY <1>1, <2>1, <2>3 DEF Stop
  <2> QED
    BY <2>2, <2>3
<1> QED
  BY <1>2, <1>3, <1>4, <1>5, <1>6, <1>7, <1>8, <1>9, <1>10
  DEF Next, ServerStep, LoopStep, VerifyStep, HandlerStep, SignalStep, ClientStep, FaultStep

\* Whatever its timers, signals, faults and clients do, the server serves one
\* connection at a time, and only those it permits; none is answered after it
\* failed; no more than RefuseMax refused ones are held, and they are closed;
\* and of a queue that systemd holds, its end costs the accepted connection.
THEOREM ServiceImplemented == Spec => ImplementsService
<1>1. Init => Service!Init
  <2> SUFFICES ASSUME Init PROVE Service!Init
    OBVIOUS
  <2>1. \A c \in Conns : AbsPhase(c) = "away"
    BY DEF Init, AbsPhase
  <2> QED
    BY <2>1 DEF Service!Init
<1>2. Init => PeerInv
  BY DEF Init, PeerInv
<1>3. Spec => []PeerInv
  BY <1>2, NextPeerInv, PTL DEF Spec
<1>4. IInv /\ PeerInv /\ [Next]_vars => [Service!Next]_(Service!vars)
  BY ServiceStep DEF IInv
<1> QED
  BY <1>1, <1>3, <1>4, IInvCorrect, PTL DEF Spec, ImplementsService, Service!Spec

-----------------------------------------------------------------------------
(* What clients may rely on, from the theorems about ConnService.           *)

\* The same instance, with the theorems.
Client == INSTANCE ConnServiceProofs WITH
    durable <- Activated,
    phase <- [c \in Conns |-> AbsPhase(c)],
    up <- pc # "done"

LEMMA ClientService == Service!Spec => Client!Spec
<1>1. Service!Init => Client!Init
  BY DEF Service!Init, Client!Init
<1>2. [Service!Next]_(Service!vars) => [Client!Next]_(Client!vars)
  <2>1. UNCHANGED Service!vars => UNCHANGED Client!vars
    BY DEF Service!vars, Client!vars
  <2>2. /\ Service!In("waiting") = Client!In("waiting")
        /\ Service!In("refused") = Client!In("refused")
        /\ Service!In("serving") = Client!In("serving")
    BY DEF Service!In, Client!In
  <2>3. ASSUME NEW c \in Conns, Service!Arrive(c) \/ Service!Leave(c)
        PROVE  Client!Arrive(c) \/ Client!Leave(c)
    BY <2>3, Zenon DEF Service!Arrive, Service!Leave, Service!Ended,
                       Client!Arrive, Client!Leave, Client!Ended
  <2>4. ASSUME NEW c \in Conns, Service!Serve(c) \/ Service!Conclude(c)
        PROVE  Client!Serve(c) \/ Client!Conclude(c)
    BY <2>2, <2>4, Zenon DEF Service!Serve, Service!Conclude, Client!Serve, Client!Conclude
  <2>5. \A S : Service!Cardinality(S) = Client!Cardinality(S)
    BY Zenon DEF Service!Cardinality, Client!Cardinality
  <2>6. \A S \in SUBSET Service!In("refused") :
          /\ Service!Close(S) <=> Client!Close(S)
          /\ \A c \in Conns : Service!TurnAway(c, S) <=> Client!TurnAway(c, S)
    BY <2>2, <2>5, Zenon DEF Service!Close, Service!TurnAway, Client!Close, Client!TurnAway
  <2>7. \A S \in SUBSET Service!In("waiting") : Service!GoDown(S) <=> Client!GoDown(S)
    BY <2>2, <2>5, Zenon DEF Service!GoDown, Client!GoDown
  <2>8. /\ Service!ComeUp <=> Client!ComeUp
        /\ Service!Withdraw <=> Client!Withdraw
        /\ Service!Provide <=> Client!Provide
    BY <2>2, Zenon DEF Service!ComeUp, Service!Withdraw, Service!Provide,
                       Client!ComeUp, Client!Withdraw, Client!Provide
  <2>9. ASSUME Service!Next
        PROVE  Client!Next
    <3>1. ASSUME NEW S \in SUBSET Service!In("refused"),
                 \/ Service!Close(S)
                 \/ \E c \in Conns : Service!TurnAway(c, S)
          PROVE  Client!Next
      BY <2>2, <2>6, <3>1 DEF Client!Next
    <3>2. ASSUME NEW S \in SUBSET Service!In("waiting"), Service!GoDown(S)
          PROVE  Client!Next
      BY <2>2, <2>7, <3>2 DEF Client!Next
    <3>3. ASSUME NEW c \in Conns, Service!Arrive(c) \/ Service!Leave(c)
          PROVE  Client!Next
      BY <2>3, <3>3, Zenon DEF Client!Next
    <3>4. ASSUME NEW c \in Conns, Service!Serve(c) \/ Service!Conclude(c)
          PROVE  Client!Next
      BY <2>4, <3>4, Zenon DEF Client!Next
    <3>5. CASE Service!ComeUp \/ Service!Withdraw \/ Service!Provide
      BY <2>8, <3>5 DEF Client!Next
    <3> QED
      BY <2>9, <3>1, <3>2, <3>3, <3>4, <3>5 DEF Service!Next
  <2> QED
    BY <2>1, <2>9, Zenon
<1> QED
  BY <1>1, <1>2, PTL DEF Service!Spec, Client!Spec

\* What is only queued or accepted, and what the end of a process makes of it.
Unread(c) == conn[c] = "queued" \/ (conn[c] = "open" /\ ~inRequest)
Failures == ConnStates \ {"new", "queued", "open", "served", "refused", "closed"}
Drops(c) == Unread(c) /\ conn'[c] \in Failures

\* Nobody but the user whose name nginx has mapped to this server is in the
\* handler or has an answer: verify_request() comes before the first read.
OnlyPermittedServed ==
    CheckPeer => \A c \in Conns :
        conn[c] = "served" \/ (conn[c] = "open" /\ inRequest) => c \in Permitted

\* Whatever ends the process, systemd's queue outlives it: of the connections
\* whose request nobody has read, one at most goes down with it, which is the
\* one that it had accepted.
QueueKept ==
    [][ Activated => \A c, d \in Conns : Drops(c) /\ Drops(d) => c = d ]_vars

\* What AbsPhase() makes of the states.
LEMMA AbsPhases ==
    ASSUME TypeOK, NEW c \in Conns
    PROVE  /\ AbsPhase(c) = "waiting" <=> Unread(c)
           /\ AbsPhase(c) = "serving" <=> conn[c] = "open" /\ inRequest
           /\ AbsPhase(c) = "answered" <=> conn[c] = "served"
           /\ AbsPhase(c) = "failed" <=> conn[c] \in Failures
<1>1. conn[c] \in ConnStates
  BY DEF TypeOK
<1> QED
  BY <1>1 DEF ConnStates, Over, AbsPhase, Unread, Failures

LEMMA DropsFail ==
    ASSUME TypeOK, TypeOK', NEW c \in Conns, Drops(c)
    PROVE  AbsPhase(c) = "waiting" /\ AbsPhase(c)' = "failed"
<1>1. AbsPhase(c) = "waiting"
  BY AbsPhases DEF Drops
<1>2. AbsPhase(c)' = "failed"
  BY DEF Drops, Failures, ConnStates, Over, AbsPhase
<1> QED
  BY <1>1, <1>2

\* verify_request() and the uid of the peer, by way of ConnService.
THEOREM OnlyPermittedServedCorrect == Spec => []OnlyPermittedServed
<1>1. TypeOK /\ Client!OnlyPermitted => OnlyPermittedServed
  BY AbsPhases DEF Client!OnlyPermitted, Client!In, OnlyPermittedServed
<1> QED
  BY <1>1, TypeCorrect, Client!OnlyPermittedCorrect, ClientService, ServiceImplemented, PTL
     DEF ImplementsService

\* What LISTEN_FDS is for, by way of ConnService.
THEOREM QueueKeptCorrect == Spec => QueueKept
<1> DEFINE A == Activated => \A c, d \in Conns : Drops(c) /\ Drops(d) => c = d
           B == Activated /\ Activated' =>
                  \A c, d \in Conns : Client!Fails(c) /\ Client!Fails(d) => c = d
<1>1. TypeOK /\ TypeOK' /\ [B]_(Client!vars) => [A]_vars
  <2> SUFFICES ASSUME TypeOK, TypeOK', [B]_(Client!vars), Activated,
                      NEW c \in Conns, NEW d \in Conns, Drops(c), Drops(d)
               PROVE  c = d
    OBVIOUS
  <2>1. Client!Fails(c) /\ Client!Fails(d)
    BY DropsFail DEF Client!Fails
  <2>2. ~ UNCHANGED Client!vars
    BY <2>1 DEF Client!vars, Client!Fails
  <2>3. Activated /\ Activated'
    OBVIOUS
  <2> QED
    BY <2>1, <2>2, <2>3
<1>2. Spec => [][B]_(Client!vars)
  <2>1. Client!IsFiniteSet(Conns)
    BY ConnAssumption, Zenon DEF IsFiniteSet, Client!IsFiniteSet
  <2>2. Client!Spec => Client!KeepsQueue
    BY <2>1, Client!KeepsQueueCorrect
  <2> QED
    BY <2>2, ClientService, ServiceImplemented, PTL DEF ImplementsService, Client!KeepsQueue
<1>3. Spec => [][A]_vars
  BY <1>1, <1>2, TypeCorrect, PTL
<1> QED
  BY <1>3 DEF QueueKept
=============================================================================
