-------------------------- MODULE ConnServiceProofs ---------------------------
(***************************************************************************)
(* What follows from ConnService, whichever component implements it.        *)
(***************************************************************************)
EXTENDS ConnService, FiniteSetTheorems, TLAPS

\* What is served or was answered is permitted, and served alone; and what the
\* types say of a server that is down.
IInv == TypeOK /\ OneServed /\ OnlyPermitted

\* One connection that moves on.
LEMMA MoveInv ==
    ASSUME IInv, NEW c \in Conns, NEW p \in Phases,
           phase' = [phase EXCEPT ![c] = p], UNCHANGED <<up, durable>>,
           p = "serving" => up /\ In("serving") = {},
           p \in {"serving", "answered"} => (CheckPeer => c \in Permitted),
           p = "refused" => up,
           p = "waiting" => up \/ durable
    PROVE  IInv'
<1>1. /\ phase' \in [Conns -> Phases]
      /\ phase'[c] = p /\ \A d \in Conns \ {c} : phase'[d] = phase[d]
  BY DEF IInv, TypeOK
<1>2. TypeOK'
  BY <1>1 DEF IInv, TypeOK, In
<1>3. OneServed'
  BY <1>1 DEF IInv, OneServed, In
<1>4. OnlyPermitted'
  BY <1>1 DEF IInv, OnlyPermitted, In
<1> QED
  BY <1>2, <1>3, <1>4 DEF IInv

LEMMA NextInv == IInv /\ [Next]_vars => IInv'
<1> SUFFICES ASSUME IInv, [Next]_vars
             PROVE  IInv'
  OBVIOUS
<1>1. ASSUME NEW c \in Conns, Arrive(c) \/ Leave(c)
      PROVE  IInv'
  <2>1. PICK p \in {"waiting", "away"} :
           /\ phase' = [phase EXCEPT ![c] = p] /\ UNCHANGED <<up, durable>>
           /\ p = "waiting" => up \/ durable
    BY <1>1 DEF Arrive, Leave
  <2> QED
    BY <2>1, MoveInv DEF Phases
<1>2. ASSUME NEW c \in Conns, Serve(c)
      PROVE  IInv'
  BY <1>2, MoveInv DEF Serve, Phases
<1>3. ASSUME NEW c \in Conns, Conclude(c)
      PROVE  IInv'
  <2>1. PICK p \in {"answered", "failed"} : phase' = [phase EXCEPT ![c] = p]
    BY <1>3 DEF Conclude
  <2>2. CheckPeer => c \in Permitted
    BY <1>3 DEF Conclude, IInv, OnlyPermitted, In
  <2> QED
    BY <1>3, <2>1, <2>2, MoveInv DEF Conclude, Phases
<1>4. ASSUME NEW S \in SUBSET In("refused"), Close(S)
      PROVE  IInv'
  <2>1. \A c \in Conns : phase'[c] = IF c \in S THEN "closed" ELSE phase[c]
    BY <1>4 DEF Close
  <2>2. phase' \in [Conns -> Phases] /\ UNCHANGED <<up, durable>> /\ up
    BY <1>4 DEF Close, Phases, IInv, TypeOK
  <2> QED
    BY <2>1, <2>2 DEF IInv, TypeOK, OneServed, OnlyPermitted, In
<1>5. ASSUME NEW c \in Conns, NEW S \in SUBSET In("refused"), TurnAway(c, S)
      PROVE  IInv'
  <2>1. \A d \in Conns : phase'[d] = IF d = c THEN "refused"
                                     ELSE IF d \in S THEN "closed" ELSE phase[d]
    BY <1>5 DEF TurnAway
  <2>2. phase' \in [Conns -> Phases] /\ UNCHANGED <<up, durable>> /\ up
    BY <1>5 DEF TurnAway, Phases, IInv, TypeOK
  <2> QED
    BY <2>1, <2>2 DEF IInv, TypeOK, OneServed, OnlyPermitted, In
<1>6. ASSUME NEW S \in SUBSET In("waiting"), GoDown(S)
      PROVE  IInv'
  <2>1. \A c \in Conns : phase'[c] = IF c \in S \/ phase[c] = "serving" THEN "failed"
                                     ELSE IF phase[c] = "refused" THEN "closed" ELSE phase[c]
    BY <1>6 DEF GoDown
  <2>2. phase' \in [Conns -> Phases] /\ up' \in BOOLEAN /\ UNCHANGED durable
    BY <1>6 DEF GoDown, Phases, IInv, TypeOK
  <2>3. ~durable => S = In("waiting")
    BY <1>6 DEF GoDown
  <2> QED
    BY <2>1, <2>2, <2>3 DEF IInv, TypeOK, OneServed, OnlyPermitted, In
<1>7. CASE ComeUp \/ Provide
  BY <1>7 DEF ComeUp, Provide, IInv, TypeOK, OneServed, OnlyPermitted, In
<1>8. CASE Withdraw
  <2>1. \A c \in Conns : phase'[c] = IF ~up /\ phase[c] = "waiting" THEN "failed" ELSE phase[c]
    BY <1>8 DEF Withdraw
  <2>2. phase' \in [Conns -> Phases] /\ durable' = FALSE /\ UNCHANGED up
    BY <1>8 DEF Withdraw, Phases, IInv, TypeOK
  <2> QED
    BY <2>1, <2>2 DEF IInv, TypeOK, OneServed, OnlyPermitted, In
<1>9. CASE UNCHANGED vars
  BY <1>9 DEF vars, IInv, TypeOK, OneServed, OnlyPermitted, In
<1> QED
  BY <1>1, <1>2, <1>3, <1>4, <1>5, <1>6, <1>7, <1>8, <1>9 DEF Next

LEMMA IInvCorrect == Spec => []IInv
<1>1. Init => IInv
  BY DEF Init, IInv, TypeOK, Phases, OneServed, OnlyPermitted, In
<1> QED
  BY <1>1, NextInv, PTL DEF Spec

\* The types of a client's view of the server.
THEOREM ServiceTypeCorrect == Spec => []TypeOK
<1>1. IInv => TypeOK
  BY DEF IInv
<1> QED
  BY <1>1, IInvCorrect, PTL

\* process_request() does not begin before the last one has ended.
THEOREM OneServedCorrect == Spec => []OneServed
<1>1. IInv => OneServed
  BY DEF IInv
<1> QED
  BY <1>1, IInvCorrect, PTL

\* No answer goes to a uid that verify_request() does not let through.
THEOREM OnlyPermittedCorrect == Spec => []OnlyPermitted
<1>1. IInv => OnlyPermitted
  BY DEF IInv
<1> QED
  BY <1>1, IInvCorrect, PTL

-----------------------------------------------------------------------------
(* Refused connections.                                                     *)

\* Only a refusal adds to those that are held, and it makes room first.
LEMMA NextHeld ==
    ASSUME IsFiniteSet(Conns), RefuseMax \in Nat, TypeOK, RefusalsHeld, [Next]_vars
    PROVE  RefusalsHeld'
<1> DEFINE held == In("refused")
<1>1. IsFiniteSet(held) /\ Cardinality(held) \in Nat
  BY FS_Subset, FS_CardinalityType DEF In
<1>2. CASE held' \subseteq held
  <2>1. Cardinality(held') <= Cardinality(held) /\ Cardinality(held') \in Nat
    <3>1. PICK T : T = held'
      OBVIOUS
    <3> HIDE DEF held
    <3>2. Cardinality(T) <= Cardinality(held) /\ Cardinality(T) \in Nat
      BY <1>1, <1>2, <3>1, FS_Subset, FS_CardinalityType
    <3> QED
      BY <3>1, <3>2
  <2> QED
    BY <1>1, <2>1 DEF RefusalsHeld
<1>3. ASSUME NEW c \in Conns, NEW S \in SUBSET held, TurnAway(c, S)
      PROVE  RefusalsHeld'
  <2>1. \A d \in Conns : phase'[d] = IF d = c THEN "refused"
                                     ELSE IF d \in S THEN "closed" ELSE phase[d]
    BY <1>3 DEF TurnAway
  <2>2. held' = (held \ S) \cup {c}
    BY <1>3, <2>1 DEF In, TurnAway
  <2>3. IsFiniteSet(held \ S) /\ Cardinality(held \ S) \in Nat /\ Cardinality(held \ S) < RefuseMax
    <3>1. IsFiniteSet(held \ S)
      BY <1>1, FS_Subset
    <3> QED
      BY <1>3, <3>1, FS_CardinalityType DEF TurnAway
  <2> HIDE DEF held
  <2>4. Cardinality((held \ S) \cup {c}) \in {Cardinality(held \ S), Cardinality(held \ S) + 1}
    BY <2>3, FS_AddElement
  <2>5. Cardinality(held') <= RefuseMax
    BY <2>2, <2>3, <2>4
  <2> QED
    BY <2>5 DEF RefusalsHeld, held
<1>4. CASE \/ \E c \in Conns : Arrive(c) \/ Serve(c) \/ Conclude(c) \/ Leave(c)
           \/ \E S \in SUBSET held : Close(S)
           \/ \E S \in SUBSET In("waiting") : GoDown(S)
           \/ ComeUp \/ Withdraw \/ Provide \/ UNCHANGED vars
  <2>1. ASSUME NEW d \in Conns, phase'[d] = "refused"
        PROVE  phase[d] = "refused"
    BY <1>4, <2>1 DEF Arrive, Serve, Conclude, Leave, Close, GoDown, ComeUp, Withdraw,
                      Provide, vars, TypeOK
  <2> QED
    BY <1>2, <2>1 DEF In
<1> QED
  BY <1>3, <1>4 DEF Next

\* _REFUSE_MAX bounds what a peer that never closes can pin down.
THEOREM RefusalsHeldCorrect ==
    ASSUME IsFiniteSet(Conns), RefuseMax \in Nat
    PROVE  Spec => []RefusalsHeld
<1>1. Init => RefusalsHeld
  <2> SUFFICES ASSUME Init PROVE Cardinality(In("refused")) <= RefuseMax
    BY DEF RefusalsHeld
  <2>1. In("refused") = {}
    BY DEF Init, In
  <2> QED
    BY <2>1, FS_EmptySet
<1>2. TypeOK /\ RefusalsHeld /\ [Next]_vars => RefusalsHeld'
  BY NextHeld
<1> QED
  BY <1>1, <1>2, ServiceTypeCorrect, PTL DEF Spec

-----------------------------------------------------------------------------
(* Ends of connections.                                                     *)

\* A set of one connection at most has no two.
LEMMA AtMostOne ==
    ASSUME NEW S, IsFiniteSet(S), Cardinality(S) <= 1, NEW c \in S, NEW d \in S
    PROVE  c = d
<1> SUFFICES ASSUME c # d PROVE FALSE
  OBVIOUS
<1>1. IsFiniteSet({c}) /\ Cardinality({c}) = 1
  BY FS_Singleton
<1>2. Cardinality({c} \cup {d}) = 2
  <2>1. d \notin {c}
    OBVIOUS
  <2>2. Cardinality({c} \cup {d}) = Cardinality({c}) + 1
    BY <1>1, <2>1, FS_AddElement
  <2> QED
    BY <1>1, <2>2
<1>3. {c} \cup {d} \subseteq S
  OBVIOUS
<1>4. Cardinality({c} \cup {d}) <= Cardinality(S) /\ Cardinality(S) \in Nat
  BY <1>3, FS_Subset, FS_CardinalityType
<1> QED
  BY <1>2, <1>4

\* When an activated process ends, or crashes, systemd keeps its queue: only
\* the connection that the process had accepted is lost with it.
THEOREM KeepsQueueCorrect ==
    ASSUME IsFiniteSet(Conns)
    PROVE  Spec => KeepsQueue
<1> DEFINE A == durable /\ durable' =>
                  \A c, d \in Conns : Fails(c) /\ Fails(d) => c = d
<1>1. TypeOK /\ [Next]_vars => [A]_vars
  <2> SUFFICES ASSUME TypeOK, Next, durable, durable',
                      NEW c \in Conns, NEW d \in Conns, Fails(c), Fails(d)
               PROVE  c = d
    OBVIOUS
  <2>1. ASSUME NEW S \in SUBSET In("waiting"), GoDown(S)
        PROVE  c = d
    <3>1. c \in S /\ d \in S
      BY <2>1 DEF GoDown, Fails
    <3>2. IsFiniteSet(S) /\ Cardinality(S) <= 1
      BY <2>1, FS_Subset DEF GoDown, In
    <3> QED
      BY <3>1, <3>2, AtMostOne
  <2>2. CASE \/ \E e \in Conns : Arrive(e) \/ Serve(e) \/ Conclude(e) \/ Leave(e)
             \/ \E S \in SUBSET In("refused") :
                   Close(S) \/ \E e \in Conns : TurnAway(e, S)
             \/ ComeUp \/ Withdraw \/ Provide
    <3>1. ~ Fails(c)
      BY <2>2 DEF Arrive, Serve, Conclude, Leave, Close, TurnAway, ComeUp, Withdraw,
                  Provide, Fails, TypeOK, In
    <3> QED
      BY <3>1
  <2> QED
    BY <2>1, <2>2 DEF Next
<1> QED
  BY <1>1, ServiceTypeCorrect, PTL DEF Spec, KeepsQueue

\* A connection that was answered, failed or closed stays so until it is
\* opened again: no answer follows an end.
THEOREM EndsOnceCorrect == Spec => EndsOnce
<1> DEFINE A == \A c \in Conns : phase[c] \in Ended =>
                                  phase'[c] \in {phase[c], "away", "waiting"}
<1>1. TypeOK /\ [Next]_vars => [A]_vars
  <2> SUFFICES ASSUME TypeOK, Next, NEW c \in Conns, phase[c] \in Ended
               PROVE  phase'[c] \in {phase[c], "away", "waiting"}
    OBVIOUS
  <2>1. CASE \E e \in Conns : Arrive(e) \/ Serve(e) \/ Conclude(e) \/ Leave(e)
    BY <2>1 DEF Arrive, Serve, Conclude, Leave, TypeOK, Ended
  <2>2. CASE \E S \in SUBSET In("refused") :
                Close(S) \/ \E e \in Conns : TurnAway(e, S)
    BY <2>2 DEF Close, TurnAway, In, Ended
  <2>3. CASE \/ \E S \in SUBSET In("waiting") : GoDown(S)
             \/ ComeUp \/ Withdraw \/ Provide
    BY <2>3 DEF GoDown, ComeUp, Withdraw, Provide, In, Ended
  <2> QED
    BY <2>1, <2>2, <2>3 DEF Next
<1> QED
  BY <1>1, ServiceTypeCorrect, PTL DEF Spec, EndsOnce
=============================================================================
