--------------------------- MODULE JobServiceProofs ---------------------------
(***************************************************************************)
(* What follows from JobService, whatever implements it.                    *)
(***************************************************************************)
EXTENDS JobService, TLAPS

\* A job that does not exist yet is nobody's: the next submission cannot take
\* away one that another has created.
Unborn == \A j \in Jobs, a \in Attempts : job[j] = "none" => maker[j] # a

IInv == TypeOK /\ AtMostOneJob /\ Unborn /\ AnswersHold

LEMMA InitInv == NoAttempt \notin Attempts /\ Init => IInv
  BY DEF Init, IInv, TypeOK, AtMostOneJob, Unborn, AnswersHold

\* What a status says is about the job in the path.
LEMMA TargetKnown ==
    ASSUME TypeOK, NEW a \in Attempts, phase[a] # "new", op[a] \in JobOps
    PROVE  target[a] \in Jobs
  BY DEF TypeOK

\* Jobs only move on: they are not forgotten before they exist, nor come back.
MovesOn ==
    \A j \in Jobs :
       /\ job[j] # "none" => job'[j] # "none"
       /\ job[j] \in {"canceled", "inactive", "purged"}
             => job'[j] \in {"canceled", "inactive", "purged"}
       /\ job[j] \in {"inactive", "purged"} => job'[j] \in {"inactive", "purged"}
       /\ job[j] = "purged" => job'[j] = "purged"

\* So what was true of a job since the request remains so.
LEMMA TrueOfKept ==
    ASSUME MovesOn, NEW a \in Attempts, target[a] \in Jobs, NEW status,
           target'[a] = target[a], from'[a] = from[a], TrueOf(a, status)
    PROVE  TrueOf(a, status)'
<1> DEFINE j == target[a]
<1>1. target'[a] = j /\ j \in Jobs /\ from'[a] = from[a]
  OBVIOUS
<1> HIDE DEF j
<1> QED
  BY <1>1 DEF TrueOf, MovesOn, j

\* And answers hold after a step that answers nobody.
LEMMA AnswersKept ==
    ASSUME IInv, MovesOn,
           \A a \in Attempts : phase'[a] = "answered" =>
              /\ phase[a] = "answered" /\ op'[a] = op[a] /\ target'[a] = target[a]
              /\ from'[a] = from[a] /\ ans'[a] = ans[a] /\ Created(a)' = Created(a)
    PROVE  AnswersHold'
<1> SUFFICES ASSUME NEW a \in Attempts, phase'[a] = "answered"
             PROVE  (ans[a].status \in Possible(op[a]) /\ Agrees(a, ans[a]))'
  BY DEF AnswersHold
<1>1. phase[a] = "answered" /\ ans[a].status \in Possible(op[a]) /\ Agrees(a, ans[a])
  BY DEF IInv, AnswersHold
<1>2. op[a] \in JobOps => target[a] \in Jobs
  BY <1>1, TargetKnown DEF IInv
<1>3. /\ op'[a] = op[a] /\ target'[a] = target[a] /\ from'[a] = from[a]
      /\ ans'[a] = ans[a] /\ Created(a)' = Created(a)
  OBVIOUS
<1>4. (ans[a].status \in Possible(op[a]))'
  BY ONLY <1>1, <1>3 DEF Possible, Listed
<1>5. Agrees(a, ans[a])'
  <2>1. ASSUME op[a] \in JobOps
        PROVE  TrueOf(a, ans[a].status)'
    <3>1. PICK status : status = ans[a].status
      OBVIOUS
    <3>2. TrueOf(a, status)
      BY <1>1, <2>1, <3>1 DEF Agrees
    <3>3. TrueOf(a, status)'
      BY <1>2, <1>3, <2>1, <3>2, TrueOfKept
    <3>4. ans'[a].status = status
      BY <1>3, <3>1
    <3> QED
      BY <3>3, <3>4 DEF TrueOf
  <2>2. /\ (ans[a].status = 201 => ans[a].job \in Created(a))'
        /\ (ans[a].status \in {400, 403, 404, 409, 500} => Created(a) = {})'
    BY <1>1, <1>3 DEF Agrees
  <2>3. (op[a] \in JobOps => TrueOf(a, ans[a].status))'
    BY <1>3, <2>1 DEF JobOps
  <2> QED
    BY <2>2, <2>3 DEF Agrees
<1> QED
  BY <1>4, <1>5

LEMMA NextInv == IInv /\ [Next]_vars => IInv'
<1> SUFFICES ASSUME IInv, [Next]_vars
             PROVE  IInv'
  OBVIOUS
<1> USE DEF JobStates
<1>1. ASSUME NEW a \in Attempts, Ask(a)
      PROVE  IInv'
  <2>1. /\ phase' \in [Attempts -> {"new", "waiting", "answered", "lost"}]
        /\ phase'[a] = "waiting" /\ \A b \in Attempts \ {a} : phase'[b] = phase[b]
    BY <1>1 DEF Ask, IInv, TypeOK
  <2>2. TypeOK'
    BY <1>1, <2>1 DEF Ask, IInv, TypeOK
  <2>3. AtMostOneJob' /\ Unborn'
    BY <1>1 DEF Ask, IInv, AtMostOneJob, Unborn
  <2>4. AnswersHold'
    <3>1. \A b \in Attempts : Created(b)' = Created(b)
      BY <1>1 DEF Ask, Created
    <3> QED
      BY <1>1, <2>1, <3>1, AnswersKept DEF Ask, MovesOn
  <2> QED
    BY <2>2, <2>3, <2>4 DEF IInv
<1>2. CASE Lose
  <2>1. \A a \in Attempts :
           phase'[a] \in {phase[a], "lost"} /\ (phase[a] = "new" => phase'[a] = "new")
    BY <1>2 DEF Lose
  <2>2. TypeOK'
    <3>1. phase' \in [Attempts -> {"new", "waiting", "answered", "lost"}]
      BY <1>2 DEF Lose, IInv, TypeOK
    <3> QED
      BY <1>2, <2>1, <3>1 DEF Lose, IInv, TypeOK
  <2>3. AtMostOneJob' /\ Unborn'
    BY <1>2 DEF Lose, IInv, AtMostOneJob, Unborn
  <2>4. AnswersHold'
    <3>1. \A b \in Attempts : Created(b)' = Created(b)
      BY <1>2 DEF Lose, Created
    <3> QED
      BY <1>2, <2>1, <3>1, AnswersKept DEF Lose, MovesOn
  <2> QED
    BY <2>2, <2>3, <2>4 DEF IInv
<1>3. ASSUME NEW a \in Attempts, Submit(a)
      PROVE  IInv'
  <2>1. PICK j \in Jobs : /\ job[j] = "none"
                          /\ job' = [job EXCEPT ![j] = "active"]
                          /\ maker' = [maker EXCEPT ![j] = a]
    BY <1>3 DEF Submit
  <2>2. /\ maker'[j] = a /\ \A i \in Jobs \ {j} : maker'[i] = maker[i]
        /\ job'[j] = "active" /\ \A i \in Jobs \ {j} : job'[i] = job[i]
    BY <2>1 DEF IInv, TypeOK
  <2>3. TypeOK'
    <3>1. job' \in [Jobs -> JobStates] /\ DOMAIN maker' = Jobs
      BY <2>1 DEF IInv, TypeOK
    <3> QED
      BY <1>3, <3>1 DEF Submit, IInv, TypeOK
  <2>4. \A i \in Jobs : maker[i] # a
    BY <1>3 DEF Submit, Created
  <2>5. AtMostOneJob'
    BY <2>2, <2>4 DEF IInv, AtMostOneJob
  <2>6. Unborn'
    BY <2>2 DEF IInv, Unborn
  <2>7. AnswersHold'
    <3>1. \A b \in Attempts \ {a} : Created(b)' = Created(b)
      BY <2>1, <2>2 DEF Created, IInv, Unborn
    <3>2. phase[a] # "answered"
      BY <1>3 DEF Submit, Effective
    <3> QED
      BY <1>3, <2>1, <2>2, <3>1, <3>2, AnswersKept DEF Submit, MovesOn
  <2> QED
    BY <2>3, <2>5, <2>6, <2>7 DEF IInv
<1>4. ASSUME job' \in [Jobs -> JobStates], UNCHANGED <<phase, op, target, from, ans, maker>>,
             MovesOn
      PROVE  IInv'
  <2>1. TypeOK' /\ AtMostOneJob' /\ Unborn'
    BY <1>4 DEF IInv, TypeOK, AtMostOneJob, Unborn, MovesOn
  <2>2. \A b \in Attempts : Created(b)' = Created(b)
    BY <1>4 DEF Created
  <2>3. AnswersHold'
    BY <1>4, <2>2, AnswersKept
  <2> QED
    BY <2>1, <2>3 DEF IInv
<1>5. ASSUME NEW a \in Attempts, Cancel(a)
      PROVE  IInv'
  <2>1. target[a] \in Jobs
    BY <1>5 DEF Cancel, Effective, IInv, TypeOK, JobOps
  <2>2. job' \in [Jobs -> JobStates] /\ UNCHANGED <<phase, op, target, from, ans, maker>>
    BY <1>5, <2>1 DEF Cancel, IInv, TypeOK
  <2>3. /\ job[target[a]] = "active" /\ job'[target[a]] = "canceled"
        /\ \A j \in Jobs \ {target[a]} : job'[j] = job[j]
    BY <1>5, <2>1 DEF Cancel, IInv, TypeOK
  <2> QED
    BY <1>4, <2>2, <2>3 DEF MovesOn
<1>6. ASSUME NEW i \in Jobs, Age(i)
      PROVE  IInv'
  <2>1. /\ job' \in [Jobs -> JobStates] /\ UNCHANGED <<phase, op, target, from, ans, maker>>
        /\ \A j \in Jobs \ {i} : job'[j] = job[j]
        /\ \/ job[i] \in {"active", "canceled"} /\ job'[i] = "inactive"
           \/ job[i] = "inactive" /\ job'[i] = "purged"
    BY <1>6 DEF Age, IInv, TypeOK
  <2> QED
    BY <1>4, <2>1 DEF MovesOn
<1>7. CASE Forget
  <2>1. \A j \in Jobs : job'[j] = IF job[j] = "none" THEN "none" ELSE "purged"
    BY <1>7 DEF Forget
  <2>2. job' \in [Jobs -> JobStates] /\ UNCHANGED <<phase, op, target, from, ans, maker>>
    BY <1>7 DEF Forget, IInv, TypeOK
  <2> QED
    BY <1>4, <2>1, <2>2 DEF MovesOn
<1>8. ASSUME NEW a \in Attempts, Reply(a)
      PROVE  IInv'
  <2>1. /\ phase' \in [Attempts -> {"new", "waiting", "answered", "lost"}]
        /\ \A b \in Attempts \ {a} : phase'[b] = phase[b]
    BY <1>8 DEF Reply, IInv, TypeOK
  <2>2. DOMAIN ans' = Attempts /\ \A b \in Attempts \ {a} : ans'[b] = ans[b]
    BY <1>8 DEF Reply, IInv, TypeOK
  <2>3. phase[a] = "waiting" /\ UNCHANGED <<op, target, from, job, maker>>
    BY <1>8 DEF Reply
  <2>4. TypeOK'
    BY <2>1, <2>2, <2>3 DEF IInv, TypeOK
  <2>5. AtMostOneJob' /\ Unborn'
    BY <2>3 DEF IInv, AtMostOneJob, Unborn
  <2>6. ASSUME NEW b \in Attempts, phase'[b] = "answered"
        PROVE  (ans[b].status \in Possible(op[b]) /\ Agrees(b, ans[b]))'
    <3>1. ans'[b].status \in Possible(op[b]) /\ Agrees(b, ans'[b])
      BY <1>8, <2>1, <2>2, <2>6 DEF Reply, IInv, AnswersHold
    <3>2. (ans[b].status \in Possible(op[b]))'
      BY <2>3, <3>1 DEF Possible, Listed
    <3>3. Agrees(b, ans[b])'
      BY <2>3, <3>1 DEF Agrees, TrueOf, Created
    <3> QED
      BY <3>2, <3>3
  <2>7. AnswersHold'
    BY <2>6 DEF AnswersHold
  <2> QED
    BY <2>4, <2>5, <2>7 DEF IInv
<1>9. CASE UNCHANGED vars
  BY <1>4, <1>9 DEF vars, IInv, TypeOK, MovesOn
<1> QED
  BY <1>1, <1>2, <1>3, <1>5, <1>6, <1>7, <1>8, <1>9 DEF Next

LEMMA IInvCorrect ==
    ASSUME NoAttempt \notin Attempts
    PROVE  Spec => []IInv
  BY InitInv, NextInv, PTL DEF Spec

-----------------------------------------------------------------------------
(* What a client may conclude.                                              *)

\* A POST to /v1/jobs that is sent once never leaves two jobs behind.
THEOREM AtMostOneJobCorrect ==
    ASSUME NoAttempt \notin Attempts
    PROVE  Spec => []AtMostOneJob
<1>1. IInv => AtMostOneJob
  BY DEF IInv
<1> QED
  BY <1>1, IInvCorrect, PTL

\* Every status is one that openapi.yaml lists for the route, or the 500 that it
\* does not list, and what it says of a job, be it that there is none (404),
\* never becomes false.
THEOREM AnswersHoldCorrect ==
    ASSUME NoAttempt \notin Attempts
    PROVE  Spec => []AnswersHold
<1>1. IInv => AnswersHold
  BY DEF IInv
<1> QED
  BY <1>1, IInvCorrect, PTL

\* A client that has its answer, even a 503, need not wait for anything else to
\* happen on behalf of that request.
THEOREM AnswersFinalCorrect ==
    ASSUME NoAttempt \notin Attempts
    PROVE  Spec => AnswersFinal
<1> DEFINE A == \A a \in Attempts : phase[a] = "answered" =>
                  phase'[a] = "answered" /\ ans'[a] = ans[a] /\ Created(a)' = Created(a)
<1>1. IInv /\ [Next]_vars => [A]_vars
  <2> SUFFICES ASSUME IInv, Next, NEW a \in Attempts, phase[a] = "answered"
               PROVE  phase'[a] = "answered" /\ ans'[a] = ans[a] /\ Created(a)' = Created(a)
    OBVIOUS
  <2>1. ASSUME NEW b \in Attempts, Submit(b)
        PROVE  Created(a)' = Created(a) /\ UNCHANGED <<phase, ans>>
    <3>1. a # b
      BY <2>1 DEF Submit, Effective
    <3>2. PICK j \in Jobs : job[j] = "none" /\ maker' = [maker EXCEPT ![j] = b]
      BY <2>1 DEF Submit
    <3>3. maker'[j] = b /\ \A i \in Jobs \ {j} : maker'[i] = maker[i]
      BY <3>2 DEF IInv, TypeOK
    <3>4. maker[j] # a
      BY <3>2 DEF IInv, Unborn
    <3> QED
      BY <2>1, <3>1, <3>3, <3>4 DEF Submit, Created
  <2>2. CASE Lose
    BY <2>2 DEF Lose, Created
  <2>3. ASSUME NEW b \in Attempts, Ask(b) \/ Reply(b)
        PROVE  phase'[a] = "answered" /\ ans'[a] = ans[a] /\ UNCHANGED maker
    BY <2>3 DEF Ask, Reply, IInv, TypeOK
  <2>4. CASE \/ \E b \in Attempts : Cancel(b)
             \/ \E j \in Jobs : Age(j)
             \/ Forget
    BY <2>4 DEF Cancel, Age, Forget, Created
  <2> QED
    BY <2>1, <2>2, <2>3, <2>4 DEF Next, Created
<1> QED
  BY <1>1, IInvCorrect, PTL DEF Spec, AnswersFinal

\* Flux is asked to make or to cancel a job only for a client that is still
\* without an answer, and that job is not another user's.
THEOREM EffectsAskedCorrect ==
    ASSUME NoAttempt \notin Attempts
    PROVE  Spec => EffectsAsked
<1> DEFINE A == \A j \in Jobs :
                  /\ job[j] = "none" /\ job'[j] # "none" => Asked("submit", j)
                  /\ job[j] # "canceled" /\ job'[j] = "canceled" =>
                        job[j] = "active" /\ j \notin Foreign /\ Asked("cancel", j)
<1>1. IInv /\ [Next]_vars => [A]_vars
  <2> SUFFICES ASSUME IInv, Next, NEW j \in Jobs, job'[j] # job[j]
               PROVE  /\ job[j] = "none" /\ job'[j] # "none" => Asked("submit", j)
                      /\ job[j] # "canceled" /\ job'[j] = "canceled" =>
                            job[j] = "active" /\ j \notin Foreign /\ Asked("cancel", j)
    OBVIOUS
  <2>1. ASSUME NEW a \in Attempts, Submit(a)
        PROVE  job'[j] = "active" /\ Asked("submit", j)
    BY <2>1 DEF Submit, Asked, IInv, TypeOK
  <2>2. ASSUME NEW a \in Attempts, Cancel(a)
        PROVE  job[j] = "active" /\ j \notin Foreign /\ Asked("cancel", j)
    <3>1. j = target[a]
      BY <2>2 DEF Cancel, IInv, TypeOK
    <3> QED
      BY <2>2, <3>1 DEF Cancel, Asked
  <2>3. CASE Forget \/ \E i \in Jobs : Age(i)
    BY <2>3 DEF Forget, Age, IInv, TypeOK
  <2>4. CASE Lose \/ \E a \in Attempts : Ask(a) \/ Reply(a)
    BY <2>4 DEF Lose, Ask, Reply
  <2> QED
    BY <2>1, <2>2, <2>3, <2>4 DEF Next
<1> QED
  BY <1>1, IInvCorrect, PTL DEF Spec, EffectsAsked
=============================================================================
