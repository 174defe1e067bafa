----------------------------- MODULE JobsApiProofs -----------------------------
(***************************************************************************)
(* Theorems about JobsApi, for any number of requests and jobs, restarts of *)
(* the broker and ends of the process.                                      *)
(***************************************************************************)
EXTENDS JobsApi, ListLemmas, TLAPS

USE JobsAssumption

-----------------------------------------------------------------------------
(* The states of a job, and the statuses of an answer.                      *)

\* Rank numbers the states in the order a job goes through them.
LEMMA Ranks ==
    /\ Rank("none") = 1 /\ Rank("active") = 2 /\ Rank("canceled") = 3
    /\ Rank("inactive") = 4 /\ Rank("purged") = 5
    /\ States = {"none", "active", "canceled", "inactive", "purged"}
    /\ \A s \in States : Rank(s) \in 1 .. 5
<1>1. \A s : Rank(s) = CHOOSE i \in 1 .. 5 : JobStates[i] = s
  BY DEF Rank
<1>2. /\ JobStates[1] = "none" /\ JobStates[2] = "active" /\ JobStates[3] = "canceled"
      /\ JobStates[4] = "inactive" /\ JobStates[5] = "purged"
  BY DEF JobStates
<1>3. \A i \in 1 .. 5 : i \in {1, 2, 3, 4, 5}
  OBVIOUS
<1>4. ASSUME NEW n \in {1, 2, 3, 4, 5}
      PROVE  Rank(JobStates[n]) = n
  <2>1. \A i \in 1 .. 5 : JobStates[i] = JobStates[n] => i = n
    BY <1>2, <1>3, <1>4
  <2> QED
    BY <1>1, <2>1
<1>5. States = {"none", "active", "canceled", "inactive", "purged"}
  BY <1>2, <1>3 DEF States
<1> QED
  BY <1>2, <1>4, <1>5

\* The statuses of every route, and that of an answer that names a job.
LEMMA Statuses ==
    ASSUME NEW o \in Ops, NEW err \in Outcomes
    PROVE  /\ Status(o, err) \in {200, 201, 202, 400, 403, 404, 409, 500, 503}
           /\ Status(o, err) = 201 <=> o = "submit" /\ err = "ok"
  BY DEF Ops, FluxOps, JobOps, Outcomes, Status, SubmitStatus, CancelStatus,
         StateStatus, InfoStatus, Uncaught, OSErrors

-----------------------------------------------------------------------------
(* The inductive invariant.                                                 *)

Sent(a) == phase[a] \in {"waiting", "lost"}
Unmade(a) == \A j \in Jobs : maker[j] # a

\* A request is new, queued, in the handler or over, and only the one in the
\* handler may have anything of it with Flux that the server still waits for.
PlaceInv ==
    /\ \A a \in Elems(queue) : Sent(a) /\ Unmade(a) /\ a # cur
    /\ Distinct(queue)
    /\ stage = "idle" <=> cur = NoAttempt
    /\ cur # NoAttempt => Sent(cur)
    /\ stage = "route" => Unmade(cur)
    /\ stage = "rpc" => op[cur] \in FluxOps
    /\ resp # NoResp => stage = "rpc"
    /\ \A a \in Attempts : phase[a] = "new" => Unmade(a)

\* An RPC on the wire has had no effect yet, and belongs to the request in the
\* handler or to one that was lost with its process.
WireInv ==
    \A m \in wire :
        /\ Sent(m.by) /\ op[m.by] \in FluxOps /\ Unmade(m.by)
        /\ m.by \notin Elems(queue)
        /\ m.live => m.by = cur /\ stage = "rpc" /\ resp = NoResp
        /\ ~m.live => m.by # cur /\ phase[m.by] = "lost"

MakerInv ==
    /\ \A j \in Jobs : maker[j] # NoAttempt => job[j] # "none" /\ op[maker[j]] = "submit"
    /\ \A i, j \in Jobs : maker[i] = maker[j] /\ maker[i] # NoAttempt => i = j

\* Jobs only go forward from the state that a request was sent in.
RankInv ==
    \A a \in Attempts :
        op[a] \in JobOps =>
            target[a] \in Jobs /\ Rank(from[a]) <= Rank(job[target[a]])

\* What an outcome says of the target of a, now and when a was sent.
Truth(a, err) ==
    LET f == Rank(from[a])
        t == Rank(job[target[a]])
    IN  /\ op[a] = "cancel" /\ err = "ok" => target[a] \notin Foreign /\ f <= 3 /\ t >= 3
        /\ op[a] = "cancel" /\ err = "EPERM" => target[a] \in Foreign /\ f <= 3
        /\ op[a] = "cancel" /\ err = "inactive" => f <= 4 /\ t >= 4
        /\ op[a] = "state" /\ err = "ok" => f <= 4 /\ t >= 2
        /\ op[a] \in JobOps /\ err = "ENOENT" => f = 1 \/ t = 5

\* What it says of a submission: the job that it names is the one of a, and
\* only a lost answer leaves open whether there is one.
Fits(a, err, j) ==
    /\ err \in Outcomes /\ j \in Jobs \cup {NoJob}
    /\ j # NoJob <=> op[a] = "submit" /\ err = "ok"
    /\ j # NoJob => maker[j] = a
    /\ op[a] = "submit" /\ err \notin {"ok", "reset"} => Unmade(a)
    /\ Truth(a, err)

RespInv == resp # NoResp => Fits(cur, resp.err, resp.job)
OutInv ==
    stage = "reply" =>
        out.status = Status(op[cur], out.err) /\ Fits(cur, out.err, out.job)
AnsInv ==
    \A a \in Attempts :
        IF phase[a] = "answered"
        THEN ans[a].status = Status(op[a], ans[a].err) /\ Fits(a, ans[a].err, ans[a].job)
        ELSE ans[a] = NoAnswer

IInv ==
    /\ TypeOK /\ PlaceInv /\ WireInv /\ MakerInv /\ RankInv
    /\ RespInv /\ OutInv /\ AnsInv

-----------------------------------------------------------------------------
(* Facts that the proofs of the steps share.                                *)

\* An answer that fits the request has one of the types of an answer.
LEMMA FitsAnswer ==
    ASSUME NEW a \in Attempts, op[a] \in Ops, NEW err, NEW j, Fits(a, err, j)
    PROVE  [status |-> Status(op[a], err), err |-> err, job |-> j] \in Answers
<1>1. /\ err \in Outcomes /\ j \in Jobs \cup {NoJob}
      /\ j # NoJob <=> op[a] = "submit" /\ err = "ok"
  BY DEF Fits
<1>2. /\ Status(op[a], err) \in {200, 201, 202, 400, 403, 404, 409, 500, 503}
      /\ Status(op[a], err) = 201 <=> op[a] = "submit" /\ err = "ok"
  BY <1>1, Statuses
<1> QED
  BY <1>1, <1>2 DEF Answers

\* What was true of a request stays true while Flux goes on: jobs only go
\* forward, and no job is made for it.
LEMMA FitsForward ==
    ASSUME NEW a \in Attempts, NEW err, NEW k, Fits(a, err, k), TypeOK,
           op' [a] = op[a], target'[a] = target[a], from'[a] = from[a],
           op[a] \in JobOps =>
              /\ Rank(job[target[a]]) \in 1 .. 5 /\ Rank(job'[target[a]]) \in 1 .. 5
              /\ Rank(job[target[a]]) <= Rank(job'[target[a]]),
           \A j \in Jobs : maker'[j] = maker[j] \/ (maker[j] = NoAttempt /\ maker'[j] # a)
    PROVE  Fits(a, err, k)'
<1>1. /\ err \in Outcomes /\ k \in Jobs \cup {NoJob}
      /\ k # NoJob <=> op'[a] = "submit" /\ err = "ok"
  BY DEF Fits
<1>2. k # NoJob => maker'[k] = a
  BY <1>1 DEF Fits
<1>3. op'[a] = "submit" /\ err \notin {"ok", "reset"} => Unmade(a)'
  BY DEF Fits, Unmade
<1>4. Rank(from[a]) \in 1 .. 5
  BY Ranks DEF TypeOK
<1>5. Truth(a, err)'
  <2>1. Truth(a, err)
    BY DEF Fits
  <2>2. CASE op[a] \in JobOps
    BY <1>4, <2>1, <2>2 DEF Truth
  <2>3. CASE op[a] \notin JobOps
    BY <2>3 DEF Truth, JobOps
  <2> QED
    BY <2>2, <2>3
<1> QED
  BY <1>1, <1>2, <1>3, <1>5 DEF Fits

LEMMA InitInv == Init => IInv
<1> SUFFICES ASSUME Init PROVE IInv
  OBVIOUS
<1>1. /\ Elems(queue) = {} /\ Distinct(queue) /\ queue \in Seq(Attempts)
  BY EmptySeq DEF Init, Elems, Distinct
<1>2. TypeOK
  <2>1. ans \in [Attempts -> Answers] /\ out \in Answers
    BY DEF Init, Answers, NoAnswer
  <2>2. resp \in [err : Outcomes \cup {"none"}, job : Jobs \cup {NoJob}]
    BY DEF Init, NoResp
  <2> QED
    BY <1>1, <2>1, <2>2, Ranks DEF Init, TypeOK, Ops, NoHandle
<1>3. PlaceInv
  BY <1>1 DEF Init, PlaceInv, Unmade
<1>4. WireInv /\ MakerInv
  BY DEF Init, WireInv, MakerInv
<1>5. RankInv
  BY DEF Init, RankInv, JobOps
<1>6. RespInv /\ OutInv /\ AnsInv
  BY DEF Init, RespInv, OutInv, AnsInv
<1> QED
  BY <1>2, <1>3, <1>4, <1>5, <1>6 DEF IInv

\* The handler and the broker's coming and going change nothing of requests
\* and jobs.
LEMMA QuietInv ==
    ASSUME IInv, UNCHANGED <<httpVars, job, maker>>
    PROVE  MakerInv' /\ RankInv' /\ AnsInv'
<1> USE DEF httpVars
<1>1. MakerInv'
  BY DEF IInv, MakerInv
<1>2. RankInv'
  BY DEF IInv, RankInv
<1>3. AnsInv'
  BY DEF IInv, AnsInv, Fits, Truth, Unmade
<1> QED
  BY <1>1, <1>2, <1>3

\* The request that is in the handler.
LEMMA CurTypes ==
    ASSUME IInv, stage # "idle"
    PROVE  /\ cur \in Attempts /\ Sent(cur) /\ cur # NoAttempt
           /\ op[cur] \in Ops
           /\ cur \notin Elems(queue)
  BY DEF IInv, TypeOK, PlaceInv

\* The route returns or raises, with no RPC of it on the wire any longer.
LEMMA ConcludeInv ==
    ASSUME IInv, NEW r, stage \in {"route", "rpc"},
           \A m \in wire : ~m.live,
           Fits(cur, r.err, r.job), Conclude(r)
    PROVE  IInv'
<1> USE DEF httpVars, fluxVars, Conclude
<1>1. MakerInv' /\ RankInv' /\ AnsInv'
  BY QuietInv
<1>2. TypeOK'
  <2>1. out' \in Answers
    BY CurTypes, FitsAnswer
  <2>2. resp' \in [err : Outcomes \cup {"none"}, job : Jobs \cup {NoJob}]
    BY DEF NoResp
  <2> QED
    BY <2>1, <2>2 DEF IInv, TypeOK
<1>3. PlaceInv'
  BY DEF IInv, PlaceInv, Sent, Unmade
<1>4. WireInv'
  BY DEF IInv, WireInv, Sent, Unmade
<1>5. RespInv'
  BY DEF RespInv
<1>6. OutInv'
  BY DEF OutInv, Fits, Truth, Unmade
<1> QED
  BY <1>1, <1>2, <1>3, <1>4, <1>5, <1>6 DEF IInv

\* It raises before it has sent an RPC, or while none can be sent.
LEMMA YieldsInv ==
    ASSUME IInv, stage = "route", NEW err \in Outcomes,
           err = "ok" => op[cur] \notin FluxOps, err # "EPERM",
           err # "ENOENT", err # "inactive", Yields(err)
    PROVE  IInv'
<1>1. Unmade(cur) /\ cur \in Attempts
  BY CurTypes DEF IInv, PlaceInv
<1>2. Fits(cur, err, NoJob)
  BY <1>1 DEF Fits, Truth, FluxOps
<1>3. \A m \in wire : ~m.live
  BY DEF IInv, WireInv
<1> QED
  BY <1>2, <1>3, ConcludeInv DEF Yields

LEMMA RequestInv ==
    ASSUME IInv, NEW a \in Attempts, NEW o \in Ops, NEW j \in Jobs \cup {NoJob},
           Request(a, o, j)
    PROVE  IInv'
<1> USE DEF fluxVars
<1>1. /\ a \notin Elems(queue) /\ a # cur /\ Unmade(a)
      /\ queue \in Seq(Attempts) /\ Distinct(queue)
  BY DEF IInv, TypeOK, PlaceInv, Sent, Request
<1>2. /\ queue' \in Seq(Attempts) /\ Distinct(queue')
      /\ Elems(queue') = Elems(queue) \cup {a}
  BY <1>1, AppendDistinct DEF Request
<1>3. /\ phase' \in [Attempts -> {"new", "waiting", "answered", "lost"}]
      /\ phase'[a] = "waiting" /\ \A b \in Attempts \ {a} : phase'[b] = phase[b]
      /\ \A b \in Attempts \ {a} :
            op'[b] = op[b] /\ target'[b] = target[b] /\ from'[b] = from[b]
      /\ op'[a] = o /\ target'[a] = j
      /\ j \in Jobs => from'[a] = job[j]
  BY DEF Request, IInv, TypeOK
<1>4. TypeOK'
  <2>1. from' \in [Attempts -> States]
    BY Ranks DEF Request, IInv, TypeOK
  <2>2. since' \in [Attempts -> 0 .. MaxEpochs]
    <3>1. epoch \in 0 .. MaxEpochs /\ 0 \in 0 .. MaxEpochs
      BY DEF IInv, TypeOK
    <3> QED
      BY <3>1 DEF Request, IInv, TypeOK
  <2>3. op' \in [Attempts -> Ops] /\ target' \in [Attempts -> Jobs \cup {NoJob}]
    BY DEF Request, IInv, TypeOK
  <2> QED
    BY <1>2, <1>3, <2>1, <2>2, <2>3 DEF Request, IInv, TypeOK
<1>5. PlaceInv'
  BY <1>1, <1>2, <1>3 DEF Request, IInv, PlaceInv, Sent, Unmade, TypeOK
<1>6. WireInv'
  BY <1>1, <1>2, <1>3 DEF Request, IInv, WireInv, Sent, Unmade, TypeOK
<1>7. MakerInv'
  BY <1>1, <1>3 DEF Request, IInv, MakerInv, Unmade, TypeOK
<1>8. RankInv'
  <2>1. CASE j \in Jobs
    <3>1. Rank(job[j]) \in 1 .. 5
      BY <2>1, Ranks DEF IInv, TypeOK
    <3> QED
      BY <1>3, <2>1, <3>1 DEF Request, IInv, RankInv
  <2>2. CASE j \notin Jobs
    BY <1>3, <2>2 DEF Request, IInv, RankInv
  <2> QED
    BY <2>1, <2>2
<1>9. RespInv' /\ OutInv'
  BY <1>1, <1>3, CurTypes DEF Request, IInv, RespInv, OutInv, PlaceInv, Fits, Truth, Unmade
<1>10. AnsInv'
  BY <1>3 DEF Request, IInv, AnsInv, Fits, Truth, Unmade
<1> QED
  BY <1>4, <1>5, <1>6, <1>7, <1>8, <1>9, <1>10 DEF IInv

LEMMA GiveUpInv ==
    ASSUME IInv, NEW a \in Attempts, GiveUp(a)
    PROVE  IInv'
<1> USE DEF fluxVars, serverVars
<1>1. /\ phase' \in [Attempts -> {"new", "waiting", "answered", "lost"}]
      /\ phase'[a] = "lost" /\ phase[a] = "waiting"
      /\ \A b \in Attempts \ {a} : phase'[b] = phase[b]
  BY DEF GiveUp, IInv, TypeOK
<1>2. TypeOK'
  BY <1>1 DEF GiveUp, IInv, TypeOK
<1>3. PlaceInv'
  BY <1>1 DEF GiveUp, IInv, PlaceInv, Sent, Unmade, TypeOK
<1>4. WireInv'
  BY <1>1 DEF GiveUp, IInv, WireInv, Sent, Unmade, TypeOK
<1>5. MakerInv' /\ RankInv'
  BY DEF GiveUp, IInv, MakerInv, RankInv
<1>6. RespInv' /\ OutInv'
  BY DEF GiveUp, IInv, RespInv, OutInv, Fits, Truth, Unmade
<1>7. AnsInv'
  BY <1>1 DEF GiveUp, IInv, AnsInv, Fits, Truth, Unmade
<1> QED
  BY <1>2, <1>3, <1>4, <1>5, <1>6, <1>7 DEF IInv

-----------------------------------------------------------------------------
(* The steps of the handler.                                                *)

LEMMA AcceptInv == IInv /\ Accept => IInv'
<1> SUFFICES ASSUME IInv, Accept PROVE IInv'
  OBVIOUS
<1> USE DEF httpVars, fluxVars, Accept
<1>1. cur = NoAttempt /\ \A m \in wire : ~m.live
  BY DEF IInv, PlaceInv, WireInv
<1>2. /\ queue' \in Seq(Attempts) /\ Distinct(queue')
      /\ cur' \in Elems(queue) /\ cur' \in Attempts
      /\ Elems(queue') = Elems(queue) \ {cur'}
  BY TailDistinct DEF IInv, TypeOK, PlaceInv
<1>3. MakerInv' /\ RankInv' /\ AnsInv'
  BY QuietInv
<1>4. TypeOK'
  BY <1>2 DEF IInv, TypeOK
<1>5. PlaceInv'
  BY <1>1, <1>2 DEF IInv, PlaceInv, Sent, Unmade
<1>6. WireInv'
  BY <1>1, <1>2 DEF IInv, WireInv, Sent, Unmade
<1>7. RespInv' /\ OutInv'
  BY DEF IInv, RespInv, OutInv, PlaceInv
<1> QED
  BY <1>3, <1>4, <1>5, <1>6, <1>7 DEF IInv

LEMMA AnswerDirectlyInv == IInv /\ AnswerDirectly => IInv'
<1> SUFFICES ASSUME IInv, AnswerDirectly PROVE IInv'
  OBVIOUS
<1> QED
  BY YieldsInv DEF AnswerDirectly, AtRoute, Outcomes

LEMMA CallRaisesInv == IInv /\ CallRaises => IInv'
<1> SUFFICES ASSUME IInv, CallRaises PROVE IInv'
  OBVIOUS
<1>1. PICK err \in {"value", "bug"} : Yields(err)
  BY DEF CallRaises
<1> QED
  BY <1>1, YieldsInv DEF CallRaises, AtRoute, Outcomes

LEMMA OpenFluxInv == IInv /\ OpenFlux => IInv'
<1> SUFFICES ASSUME IInv, OpenFlux PROVE IInv'
  OBVIOUS
<1> USE DEF httpVars, fluxVars
<1>1. CASE /\ broker /\ handle' = epoch
           /\ UNCHANGED <<httpVars, up, queue, cur, stage, resp, out, fluxVars, ends>>
  <2>1. MakerInv' /\ RankInv' /\ AnsInv'
    BY <1>1, QuietInv
  <2>2. TypeOK'
    BY <1>1 DEF IInv, TypeOK
  <2>3. PlaceInv' /\ WireInv'
    BY <1>1 DEF IInv, PlaceInv, WireInv, Sent, Unmade
  <2>4. RespInv' /\ OutInv'
    BY <1>1 DEF IInv, RespInv, OutInv, Fits, Truth, Unmade
  <2> QED
    BY <2>1, <2>2, <2>3, <2>4 DEF IInv
<1>2. ASSUME NEW err \in {"EINVAL", "other", "unreachable"}, Yields(err)
      PROVE  IInv'
  BY <1>2, YieldsInv DEF OpenFlux, AtRoute, Outcomes
<1> QED
  BY <1>1, <1>2 DEF OpenFlux

LEMMA CallFluxInv == IInv /\ CallFlux => IInv'
<1> SUFFICES ASSUME IInv, CallFlux PROVE IInv'
  OBVIOUS
<1> USE DEF httpVars, fluxVars
<1>1. CASE broker /\ handle = epoch
  <2>1. /\ wire' = wire \cup {[by |-> cur, live |-> TRUE]} /\ stage' = "rpc"
        /\ stage = "route" /\ op[cur] \in FluxOps
        /\ UNCHANGED <<httpVars, up, queue, cur, handle, resp, out, broker,
                       epoch, job, maker, ends>>
    BY <1>1 DEF CallFlux, AtRoute
  <2>2. /\ cur \in Attempts /\ Sent(cur) /\ cur \notin Elems(queue) /\ Unmade(cur)
        /\ resp = NoResp
    BY <2>1, CurTypes DEF IInv, PlaceInv
  <2>3. MakerInv' /\ RankInv' /\ AnsInv'
    BY <2>1, QuietInv
  <2>4. TypeOK'
    <3>1. wire' \subseteq [by : Attempts, live : BOOLEAN]
      <4>1. [by |-> cur, live |-> TRUE] \in [by : Attempts, live : BOOLEAN]
        BY <2>2
      <4>2. wire \subseteq [by : Attempts, live : BOOLEAN]
        BY DEF IInv, TypeOK
      <4> QED
        BY <2>1, <4>1, <4>2
    <3> QED
      BY <2>1, <3>1 DEF IInv, TypeOK
  <2>5. PlaceInv'
    BY <2>1, <2>2 DEF IInv, PlaceInv, Sent, Unmade
  <2>6. WireInv'
    BY <2>1, <2>2 DEF IInv, WireInv, Sent, Unmade
  <2>7. RespInv' /\ OutInv'
    BY <2>1, <2>2 DEF RespInv, OutInv
  <2> QED
    BY <2>3, <2>4, <2>5, <2>6, <2>7 DEF IInv
<1>2. CASE ~ (broker /\ handle = epoch)
  BY <1>2, YieldsInv DEF CallFlux, AtRoute, Outcomes
<1> QED
  BY <1>1, <1>2

LEMMA ReturnInv == IInv /\ Return => IInv'
<1> SUFFICES ASSUME IInv, Return PROVE IInv'
  OBVIOUS
<1>1. \A m \in wire : ~m.live
  BY DEF Return, IInv, WireInv
<1>2. Fits(cur, resp.err, resp.job)
  BY DEF Return, IInv, RespInv
<1> QED
  BY <1>1, <1>2, ConcludeInv DEF Return

LEMMA SendInv == IInv /\ Send => IInv'
<1> SUFFICES ASSUME IInv, Send PROVE IInv'
  OBVIOUS
<1> USE DEF fluxVars
<1>1. /\ cur \in Attempts /\ Sent(cur) /\ cur \notin Elems(queue) /\ cur # NoAttempt
      /\ stage = "reply" /\ stage' = "idle" /\ cur' = NoAttempt /\ resp = NoResp
  BY CurTypes DEF Send, IInv, PlaceInv
<1>2. \A m \in wire : ~m.live /\ m.by # cur
  BY <1>1 DEF IInv, WireInv
<1>3. /\ phase' \in [Attempts -> {"new", "waiting", "answered", "lost"}]
      /\ \A a \in Attempts \ {cur} : phase'[a] = phase[a] /\ ans'[a] = ans[a]
      /\ phase'[cur] = IF phase[cur] = "waiting" THEN "answered" ELSE phase[cur]
      /\ ans'[cur] = IF phase[cur] = "waiting" THEN out ELSE ans[cur]
      /\ ans' \in [Attempts -> Answers]
  <2>1. /\ phase \in [Attempts -> {"new", "waiting", "answered", "lost"}]
        /\ ans \in [Attempts -> Answers] /\ out \in Answers
    BY DEF IInv, TypeOK
  <2>2. CASE phase[cur] = "waiting"
    <3>1. phase' = [phase EXCEPT ![cur] = "answered"] /\ ans' = [ans EXCEPT ![cur] = out]
      BY <2>2 DEF Send
    <3> QED
      BY <1>1, <2>1, <2>2, <3>1
  <2>3. CASE phase[cur] # "waiting"
    <3>1. phase' = phase /\ ans' = ans
      BY <2>3 DEF Send
    <3> QED
      BY <1>1, <2>1, <2>3, <3>1
  <2> QED
    BY <2>2, <2>3
<1>4. TypeOK'
  <2>1. out' \in Answers
    BY DEF Send, Answers, NoAnswer
  <2> QED
    BY <1>1, <1>3, <2>1 DEF Send, IInv, TypeOK
<1>5. PlaceInv'
  <2>1. \A a \in Elems(queue) : a \in Attempts \ {cur}
    BY <1>1, ElementOfSeq DEF IInv, TypeOK, Elems
  <2>2. \A a \in Attempts : phase'[a] = "new" => phase[a] = "new"
    BY <1>1, <1>3 DEF Sent
  <2> QED
    BY <1>1, <1>3, <2>1, <2>2 DEF Send, IInv, PlaceInv, Sent, Unmade, TypeOK
<1>6. WireInv'
  <2>1. \A m \in wire : phase'[m.by] = phase[m.by] /\ m.by \in Attempts
    BY <1>2, <1>3 DEF IInv, TypeOK
  <2> QED
    BY <1>1, <1>2, <2>1 DEF Send, IInv, WireInv, Sent, Unmade, TypeOK
<1>7. MakerInv' /\ RankInv'
  BY DEF Send, IInv, MakerInv, RankInv
<1>8. RespInv' /\ OutInv'
  BY <1>1 DEF Send, RespInv, OutInv
<1>9. AnsInv'
  BY <1>1, <1>3 DEF Send, IInv, AnsInv, OutInv, Fits, Truth, Unmade
<1> QED
  BY <1>4, <1>5, <1>6, <1>7, <1>8, <1>9 DEF IInv

LEMMA ServerEndsInv == IInv /\ ServerEnds => IInv'
<1> SUFFICES ASSUME IInv, ServerEnds PROVE IInv'
  OBVIOUS
<1>1. /\ Elems(queue') \subseteq Elems(queue) /\ Distinct(queue')
      /\ queue' \in Seq(Attempts) /\ NoAttempt \notin Elems(queue')
  <2>1. CASE Activated
    <3>1. queue' = queue /\ queue \in Seq(Attempts) /\ Distinct(queue)
      BY <2>1 DEF ServerEnds, IInv, TypeOK, PlaceInv
    <3>2. NoAttempt \notin Elems(queue)
      BY <3>1, ElementOfSeq DEF Elems
    <3> QED
      BY <3>1, <3>2
  <2>2. CASE ~Activated
    BY <2>2, EmptySeq DEF ServerEnds, Elems, Distinct
  <2> QED
    BY <2>1, <2>2
<1>2. /\ phase' \in [Attempts -> {"new", "waiting", "answered", "lost"}]
      /\ \A a \in Attempts : \/ phase'[a] = phase[a]
                             \/ phase[a] = "waiting" /\ phase'[a] = "lost"
      /\ \A a \in Attempts : a = cur => phase'[a] # "waiting"
  BY DEF ServerEnds, IInv, TypeOK
<1>3. \A n \in wire' : \E m \in wire : /\ n.by = m.by /\ ~n.live
                                        /\ n \in [by : Attempts, live : BOOLEAN]
  <2> SUFFICES ASSUME NEW n \in wire'
               PROVE  \E m \in wire : /\ n.by = m.by /\ ~n.live
                                      /\ n \in [by : Attempts, live : BOOLEAN]
    OBVIOUS
  <2>1. PICK m \in wire : n = [m EXCEPT !.live = FALSE]
    BY DEF ServerEnds
  <2>2. m \in [by : Attempts, live : BOOLEAN]
    BY DEF IInv, TypeOK
  <2> QED
    BY <2>1, <2>2
<1>4. TypeOK'
  <2>1. out' \in Answers
    BY DEF ServerEnds, Answers, NoAnswer
  <2>2. resp' \in [err : Outcomes \cup {"none"}, job : Jobs \cup {NoJob}]
    BY DEF ServerEnds, NoResp
  <2>3. wire' \subseteq [by : Attempts, live : BOOLEAN]
    BY <1>3
  <2>4. ends' \in 0 .. MaxEnds /\ handle' \in 0 .. epoch'
    <3>1. ends \in 0 .. MaxEnds /\ epoch \in 1 .. MaxEpochs
      BY DEF IInv, TypeOK
    <3> QED
      BY <3>1 DEF ServerEnds, NoHandle
  <2> QED
    BY <1>1, <1>2, <2>1, <2>2, <2>3, <2>4 DEF ServerEnds, IInv, TypeOK
<1>5. PlaceInv'
  <2>1. \A a \in Elems(queue') : Sent(a)' /\ Unmade(a)'
    <3>1. \A a \in Elems(queue) : a \in Attempts
      BY ElementOfSeq DEF IInv, TypeOK, Elems
    <3> QED
      BY <1>1, <1>2, <3>1 DEF ServerEnds, IInv, PlaceInv, Sent, Unmade
  <2> QED
    BY <1>1, <1>2, <2>1 DEF ServerEnds, IInv, PlaceInv, Unmade
<1>6. WireInv'
  <2> SUFFICES ASSUME NEW n \in wire'
               PROVE  /\ phase'[n.by] = "lost" /\ op[n.by] \in FluxOps /\ Unmade(n.by)
                      /\ n.by \notin Elems(queue') /\ ~n.live /\ n.by # NoAttempt
    BY DEF ServerEnds, WireInv, Sent, Unmade
  <2>1. PICK m \in wire : n.by = m.by /\ ~n.live /\ n.by \in Attempts
    BY <1>3
  <2>2. op[n.by] \in FluxOps /\ Unmade(n.by) /\ n.by \notin Elems(queue')
    BY <1>1, <2>1 DEF IInv, WireInv
  <2>3. phase'[n.by] = "lost"
    BY <1>2, <2>1 DEF IInv, WireInv, Sent
  <2> QED
    BY <2>1, <2>2, <2>3
<1>7. MakerInv' /\ RankInv'
  BY DEF ServerEnds, IInv, MakerInv, RankInv
<1>8. RespInv' /\ OutInv'
  BY DEF ServerEnds, RespInv, OutInv
<1>9. AnsInv'
  BY <1>2 DEF ServerEnds, IInv, AnsInv, Fits, Truth, Unmade
<1> QED
  BY <1>4, <1>5, <1>6, <1>7, <1>8, <1>9 DEF IInv

\* A start changes nothing but that the server runs, and the broker.
LEMMA StartsInv == IInv /\ (ServerStarts \/ BrokerStarts) => IInv'
<1> SUFFICES ASSUME IInv, ServerStarts \/ BrokerStarts PROVE IInv'
  OBVIOUS
<1> USE DEF httpVars, fluxVars, serverVars, ServerStarts, BrokerStarts
<1>1. MakerInv' /\ RankInv' /\ AnsInv'
  BY QuietInv
<1>2. TypeOK'
  <2>1. epoch' \in 1 .. MaxEpochs /\ handle' \in 0 .. epoch'
    BY DEF IInv, TypeOK
  <2> QED
    BY <2>1 DEF IInv, TypeOK
<1>3. PlaceInv' /\ WireInv'
  BY DEF IInv, PlaceInv, WireInv, Sent, Unmade
<1>4. RespInv' /\ OutInv'
  BY DEF IInv, RespInv, OutInv, Fits, Truth, Unmade
<1> QED
  BY <1>1, <1>2, <1>3, <1>4 DEF IInv

-----------------------------------------------------------------------------
(* The steps of Flux.                                                       *)

Onward ==
    /\ job' \in [Jobs -> States]
    /\ \A j \in Jobs : Rank(job[j]) <= Rank(job'[j])

\* No request has two RPCs on the wire: one that was lost has none alive.
LEMMA OneRpc ==
    ASSUME IInv, NEW m \in wire, NEW n \in wire, m.by = n.by
    PROVE  m = n
<1>1. m \in [by : Attempts, live : BOOLEAN] /\ n \in [by : Attempts, live : BOOLEAN]
  BY DEF IInv, TypeOK
<1>2. m.live <=> n.live
  BY DEF IInv, WireInv
<1>3. m = [by |-> m.by, live |-> m.live] /\ n = [by |-> n.by, live |-> n.live]
  BY <1>1
<1>4. m.live = n.live
  BY <1>1, <1>2
<1> QED
  BY <1>3, <1>4

\* What has been said of jobs stays true when jobs go forward, and when one is
\* made for a request that has not been answered.
LEMMA OnwardInv ==
    ASSUME IInv, Onward, UNCHANGED <<phase, op, target, ans, from>>,
           NEW b, b \notin {a \in Attempts : phase[a] = "answered"},
           \A j \in Jobs : maker'[j] = maker[j] \/ (maker[j] = NoAttempt /\ maker'[j] = b)
    PROVE  /\ RankInv'
           /\ AnsInv'
           /\ \A a \in Attempts \ {b} : \A err, k : Fits(a, err, k) => Fits(a, err, k)'
<1>1. /\ job \in [Jobs -> States] /\ job' \in [Jobs -> States]
      /\ from \in [Attempts -> States] /\ TypeOK
  BY DEF Onward, IInv, TypeOK
<1>2. \A a \in Attempts : op[a] \in JobOps =>
         /\ target[a] \in Jobs /\ Rank(from[a]) \in 1 .. 5
         /\ Rank(job[target[a]]) \in 1 .. 5 /\ Rank(job'[target[a]]) \in 1 .. 5
         /\ Rank(job[target[a]]) <= Rank(job'[target[a]])
  BY <1>1, Ranks DEF IInv, RankInv, Onward
<1>3. RankInv'
  BY <1>2 DEF IInv, RankInv
<1>4. \A a \in Attempts \ {b} : \A err, k : Fits(a, err, k) => Fits(a, err, k)'
  <2> SUFFICES ASSUME NEW a \in Attempts \ {b}, NEW err, NEW k, Fits(a, err, k)
               PROVE  Fits(a, err, k)'
    OBVIOUS
  <2> QED
    BY <1>1, <1>2, FitsForward
<1>5. AnsInv'
  <2> SUFFICES ASSUME NEW a \in Attempts
               PROVE  (IF phase[a] = "answered"
                       THEN /\ ans[a].status = Status(op[a], ans[a].err)
                            /\ Fits(a, ans[a].err, ans[a].job)
                       ELSE ans[a] = NoAnswer)'
    BY DEF AnsInv
  <2>1. CASE phase[a] = "answered"
    <3>1. PICK err, k : err = ans[a].err /\ k = ans[a].job
      OBVIOUS
    <3>2. Fits(a, err, k) /\ ans[a].status = Status(op[a], ans[a].err)
      BY <2>1, <3>1 DEF IInv, AnsInv
    <3>3. Fits(a, err, k)'
      BY <1>4, <2>1, <3>2
    <3> QED
      BY <2>1, <3>1, <3>2, <3>3
  <2>2. CASE phase[a] # "answered"
    BY <2>2 DEF IInv, AnsInv
  <2> QED
    BY <2>1, <2>2
<1> QED
  BY <1>3, <1>4, <1>5

\* The broker has processed an RPC: what it answers fits the request.
LEMMA AnswerStep ==
    ASSUME IInv, NEW m \in wire, NEW err \in Outcomes, NEW k \in Jobs \cup {NoJob},
           Answer(m, err, k), Onward, MakerInv',
           maker' \in [Jobs -> Attempts \cup {NoAttempt}],
           \A j \in Jobs : maker'[j] = maker[j] \/ (maker[j] = NoAttempt /\ maker'[j] = m.by),
           Fits(m.by, err, k)'
    PROVE  IInv'
<1> USE DEF httpVars, Answer
<1>1. /\ m.by \in Attempts /\ Sent(m.by) /\ phase[m.by] # "new" /\ phase[m.by] # "answered"
      /\ m.by \notin Elems(queue)
      /\ m.live => m.by = cur /\ stage = "rpc" /\ resp = NoResp
      /\ ~m.live => m.by # cur
  BY DEF IInv, TypeOK, WireInv, Sent
<1>2. \A n \in wire' : n \in wire /\ n.by # m.by
  BY OneRpc
<1>3. /\ RankInv' /\ AnsInv'
      /\ \A a \in Attempts \ {m.by} : \A e, j : Fits(a, e, j) => Fits(a, e, j)'
  BY <1>1, OnwardInv
<1>4. \A a \in Attempts \ {m.by} : Unmade(a) => Unmade(a)'
  BY DEF Unmade
<1>5. TypeOK'
  <2>1. resp' \in [err : Outcomes \cup {"none"}, job : Jobs \cup {NoJob}]
    BY DEF IInv, TypeOK
  <2>2. wire' \subseteq [by : Attempts, live : BOOLEAN] /\ job' \in [Jobs -> States]
    BY DEF IInv, TypeOK, Onward
  <2> QED
    BY <2>1, <2>2 DEF IInv, TypeOK
<1>6. PlaceInv'
  <2>1. \A a \in Elems(queue) : a \in Attempts \ {m.by}
    BY <1>1, ElementOfSeq DEF IInv, TypeOK, Elems
  <2>2. stage = "route" => Unmade(cur)'
    BY <1>1, <1>4, CurTypes DEF IInv, PlaceInv
  <2>3. \A a \in Attempts : phase[a] = "new" => Unmade(a)'
    BY <1>1, <1>4 DEF IInv, PlaceInv
  <2> QED
    BY <1>1, <1>4, <2>1, <2>2, <2>3 DEF IInv, PlaceInv, Sent
<1>7. WireInv'
  <2> SUFFICES ASSUME NEW n \in wire'
               PROVE  (/\ Sent(n.by) /\ op[n.by] \in FluxOps /\ Unmade(n.by)
                       /\ n.by \notin Elems(queue)
                       /\ n.live => n.by = cur /\ stage = "rpc" /\ resp = NoResp
                       /\ ~n.live => n.by # cur /\ phase[n.by] = "lost")'
    BY DEF WireInv
  <2>1. n \in wire /\ n.by # m.by /\ n.by \in Attempts
    BY <1>2 DEF IInv, TypeOK
  <2>2. n.live => ~m.live
    BY <1>1, <2>1 DEF IInv, WireInv
  <2>3. Unmade(n.by)'
    BY <1>4, <2>1 DEF IInv, WireInv
  <2> QED
    BY <2>1, <2>2, <2>3 DEF IInv, WireInv, Sent
<1>8. RespInv'
  <2>1. CASE m.live
    BY <1>1, <2>1 DEF RespInv, Fits, Truth, Unmade
  <2>2. CASE ~m.live /\ resp # NoResp
    <3>1. cur \in Attempts \ {m.by}
      BY <1>1, <2>2, CurTypes DEF IInv, PlaceInv
    <3>2. PICK a, e, j : a = cur /\ e = resp.err /\ j = resp.job
      OBVIOUS
    <3>3. Fits(a, e, j)'
      BY <1>3, <2>2, <3>1, <3>2 DEF IInv, RespInv
    <3> QED
      BY <2>2, <3>2, <3>3 DEF RespInv, Fits, Truth, Unmade
  <2>3. CASE ~m.live /\ resp = NoResp
    BY <2>3 DEF RespInv
  <2> QED
    BY <2>1, <2>2, <2>3
<1>9. OutInv'
  <2>1. CASE stage = "reply"
    <3>1. cur \in Attempts \ {m.by}
      BY <1>1, <2>1, CurTypes
    <3>2. PICK a, e, j : a = cur /\ e = out.err /\ j = out.job
      OBVIOUS
    <3>3. Fits(a, e, j)'
      BY <1>3, <2>1, <3>1, <3>2 DEF IInv, OutInv
    <3> QED
      BY <2>1, <3>2, <3>3 DEF IInv, OutInv, Fits, Truth, Unmade
  <2>2. CASE stage # "reply"
    BY <2>2 DEF OutInv
  <2> QED
    BY <2>1, <2>2
<1> QED
  BY <1>3, <1>5, <1>6, <1>7, <1>8, <1>9 DEF IInv

\* Nothing of Flux's state changes but that an RPC is done with.
LEMMA AnswerOnly ==
    ASSUME IInv, NEW m \in wire, NEW err \in Outcomes, Answer(m, err, NoJob),
           UNCHANGED <<job, maker>>,
           op[m.by] # "submit" \/ err # "ok", Truth(m.by, err)
    PROVE  IInv'
<1> USE DEF httpVars, Answer
<1>1. Onward
  <2>1. \A n \in 1 .. 5 : n <= n
    OBVIOUS
  <2>2. job \in [Jobs -> States] /\ job' = job
    BY DEF IInv, TypeOK
  <2> QED
    BY <2>1, <2>2, Ranks DEF Onward
<1>2. MakerInv' /\ maker' \in [Jobs -> Attempts \cup {NoAttempt}]
  BY DEF IInv, MakerInv, TypeOK
<1>3. Unmade(m.by)
  BY DEF IInv, WireInv
<1>4. Fits(m.by, err, NoJob)'
  <2>1. Truth(m.by, err)'
    BY DEF Truth
  <2>2. NoJob \notin Jobs
    OBVIOUS
  <2> QED
    BY <1>3, <2>1, <2>2 DEF Fits, Unmade
<1> QED
  BY <1>1, <1>2, <1>4, AnswerStep

LEMMA SubmitInv ==
    ASSUME IInv, NEW m \in wire, SubmitRpc(m)
    PROVE  IInv'
<1> USE DEF httpVars
<1>1. op[m.by] = "submit" /\ m.by \in Attempts /\ Unmade(m.by)
  BY DEF SubmitRpc, IInv, WireInv, TypeOK
<1>2. CASE \E err \in {"EINVAL", "other"} : Answer(m, err, NoJob) /\ UNCHANGED <<job, maker>>
  <2>1. PICK err \in {"EINVAL", "other"} : Answer(m, err, NoJob) /\ UNCHANGED <<job, maker>>
    BY <1>2
  <2> QED
    BY <1>1, <2>1, AnswerOnly DEF Truth, Outcomes, JobOps
<1>3. ASSUME NEW j \in Jobs, job[j] = "none", job' = [job EXCEPT ![j] = "active"],
             maker' = [maker EXCEPT ![j] = m.by], Answer(m, "ok", j)
      PROVE  IInv'
  <2>1. job \in [Jobs -> States] /\ maker \in [Jobs -> Attempts \cup {NoAttempt}]
    BY DEF IInv, TypeOK
  <2>2. maker[j] = NoAttempt /\ m.by # NoAttempt
    BY <1>1, <1>3, <2>1 DEF IInv, MakerInv
  <2>3. /\ job'[j] = "active" /\ maker'[j] = m.by
        /\ \A i \in Jobs \ {j} : job'[i] = job[i] /\ maker'[i] = maker[i]
        /\ maker' \in [Jobs -> Attempts \cup {NoAttempt}]
        /\ job' \in [Jobs -> States]
    BY <1>1, <1>3, <2>1, Ranks
  <2>4. Onward
    <3>1. \A i \in Jobs : Rank(job[i]) \in 1 .. 5
      BY <2>1, Ranks
    <3>2. Rank(job[j]) <= Rank(job'[j])
      BY <1>3, <2>3, Ranks
    <3> QED
      BY <2>3, <3>1, <3>2 DEF Onward
  <2>5. op' = op
    BY <1>3 DEF Answer
  <2>6. MakerInv'
    <3>1. \A i \in Jobs : maker'[i] # NoAttempt => job'[i] # "none" /\ op'[maker'[i]] = "submit"
      BY <1>1, <2>3, <2>5 DEF IInv, MakerInv
    <3>2. \A i, k \in Jobs : maker'[i] = maker'[k] /\ maker'[i] # NoAttempt => i = k
      BY <1>1, <2>3 DEF IInv, MakerInv, Unmade
    <3> QED
      BY <3>1, <3>2 DEF MakerInv
  <2>7. Fits(m.by, "ok", j)'
    <3>1. Truth(m.by, "ok")'
      BY <1>1, <2>5 DEF Truth, JobOps
    <3> QED
      BY <1>1, <2>3, <2>5, <3>1 DEF Fits, Outcomes
  <2> QED
    BY <1>3, <2>2, <2>3, <2>4, <2>6, <2>7, AnswerStep DEF Outcomes
<1> QED
  BY <1>2, <1>3 DEF SubmitRpc

LEMMA LookupInv ==
    ASSUME IInv, NEW m \in wire, LookupRpc(m)
    PROVE  IInv'
<1> DEFINE j == target[m.by]
           found == IF op[m.by] = "state" /\ job[j] \in {"none", "purged"}
                    THEN "ENOENT" ELSE "ok"
<1>1. op[m.by] \in {"state", "info"} /\ m.by \in Attempts
  BY DEF LookupRpc, IInv, TypeOK
<1>2. CASE Answer(m, "other", NoJob)
  BY <1>1, <1>2, AnswerOnly DEF LookupRpc, Truth, Outcomes
<1>3. CASE Answer(m, found, NoJob)
  <2>1. Truth(m.by, found)
    <3>1. CASE op[m.by] = "state"
      <4>1. /\ j \in Jobs /\ job[j] \in States /\ Rank(from[m.by]) <= Rank(job[j])
            /\ Rank(from[m.by]) \in 1 .. 5
        BY <1>1, <3>1, Ranks DEF IInv, RankInv, TypeOK, JobOps
      <4>2. CASE job[j] \in {"none", "purged"}
        BY <3>1, <4>1, <4>2, Ranks DEF Truth
      <4>3. CASE job[j] \in {"active", "canceled", "inactive"}
        BY <3>1, <4>1, <4>3, Ranks DEF Truth
      <4> QED
        BY <4>1, <4>2, <4>3, Ranks
    <3>2. CASE op[m.by] = "info"
      BY <3>2 DEF Truth, JobOps
    <3> QED
      BY <1>1, <3>1, <3>2
  <2> QED
    BY <1>1, <1>3, <2>1, AnswerOnly DEF LookupRpc, Outcomes
<1> QED
  BY <1>2, <1>3 DEF LookupRpc

LEMMA CancelInv ==
    ASSUME IInv, NEW m \in wire, CancelRpc(m)
    PROVE  IInv'
<1> DEFINE j == target[m.by]
<1>1. op[m.by] = "cancel" /\ m.by \in Attempts /\ maker' = maker
  BY DEF CancelRpc, IInv, TypeOK
<1>2. /\ j \in Jobs /\ job[j] \in States /\ job \in [Jobs -> States]
      /\ Rank(from[m.by]) \in 1 .. 5 /\ Rank(from[m.by]) <= Rank(job[j])
  BY <1>1, Ranks DEF IInv, RankInv, TypeOK, JobOps
<1>3. Verdict(j) \in {"ok", "ENOENT", "inactive", "EPERM"}
  BY <1>2, Ranks DEF Verdict
<1>4. CASE Answer(m, "other", NoJob) /\ UNCHANGED job
  BY <1>1, <1>4, AnswerOnly DEF Truth, Outcomes
<1>5. CASE Verdict(j) # "ok" /\ Answer(m, Verdict(j), NoJob) /\ UNCHANGED job
  <2>1. Truth(m.by, Verdict(j))
    <3>1. CASE job[j] \in {"none", "purged"}
      <4>1. Verdict(j) = "ENOENT"
        BY <3>1 DEF Verdict
      <4> QED
        BY <1>1, <1>2, <3>1, <4>1, Ranks DEF Truth
    <3>2. CASE job[j] = "inactive"
      <4>1. Verdict(j) = "inactive"
        BY <3>2 DEF Verdict
      <4> QED
        BY <1>1, <1>2, <3>2, <4>1, Ranks DEF Truth
    <3>3. CASE job[j] \in {"active", "canceled"}
      <4>1. Verdict(j) = "EPERM" /\ j \in Foreign
        BY <1>5, <3>3 DEF Verdict
      <4> QED
        BY <1>1, <1>2, <3>3, <4>1, Ranks DEF Truth
    <3> QED
      BY <1>2, <3>1, <3>2, <3>3, Ranks
  <2> QED
    BY <1>1, <1>3, <1>5, <2>1, AnswerOnly DEF Outcomes
<1>6. CASE /\ Verdict(j) = "ok" /\ Answer(m, "ok", NoJob)
           /\ job' = [job EXCEPT ![j] = "canceled"]
  <2>1. job[j] \in {"active", "canceled"} /\ j \notin Foreign
    BY <1>2, <1>6, Ranks DEF Verdict
  <2>2. /\ job'[j] = "canceled" /\ \A i \in Jobs \ {j} : job'[i] = job[i]
        /\ job' \in [Jobs -> States]
    BY <1>2, <1>6, Ranks
  <2>3. Onward
    <3>1. \A i \in Jobs : Rank(job[i]) \in 1 .. 5
      BY <1>2, Ranks
    <3>2. Rank(job[j]) <= Rank(job'[j])
      BY <2>1, <2>2, Ranks
    <3> QED
      BY <2>2, <3>1, <3>2 DEF Onward
  <2>4. UNCHANGED <<op, target, from, maker>>
    BY <1>1, <1>6 DEF Answer, httpVars
  <2>5. MakerInv' /\ maker' \in [Jobs -> Attempts \cup {NoAttempt}]
    BY <2>2, <2>4 DEF IInv, MakerInv, TypeOK
  <2>6. Fits(m.by, "ok", NoJob)'
    <3>1. Truth(m.by, "ok")'
      BY <1>1, <1>2, <2>1, <2>2, <2>4, Ranks DEF Truth
    <3>2. NoJob \notin Jobs
      OBVIOUS
    <3> QED
      BY <1>1, <2>4, <3>1, <3>2 DEF Fits, Outcomes
  <2> QED
    BY <1>6, <2>3, <2>4, <2>5, <2>6, AnswerStep DEF Outcomes
<1> QED
  BY <1>4, <1>5, <1>6 DEF CancelRpc

\* Jobs end, and the broker with the RPCs that it has yet to process.
LEMMA AgeInv ==
    ASSUME IInv, Onward,
           UNCHANGED <<httpVars, up, queue, cur, stage, handle, out, epoch, maker, ends>>,
           wire' \subseteq wire, broker' \in BOOLEAN,
           \/ resp' = resp
           \/ stage = "rpc" /\ wire' = {} /\ resp' = [err |-> "reset", job |-> NoJob]
    PROVE  IInv'
<1> USE DEF httpVars
<1>1. /\ RankInv' /\ AnsInv'
      /\ \A a \in Attempts : \A e, j : Fits(a, e, j) => Fits(a, e, j)'
  <2>1. NoAttempt \notin {a \in Attempts : phase[a] = "answered"}
    OBVIOUS
  <2> QED
    BY <2>1, OnwardInv
<1>2. TypeOK'
  <2>1. resp' \in [err : Outcomes \cup {"none"}, job : Jobs \cup {NoJob}]
    BY DEF IInv, TypeOK, Outcomes
  <2> QED
    BY <2>1 DEF IInv, TypeOK, Onward
<1>3. PlaceInv' /\ WireInv'
  BY DEF IInv, PlaceInv, WireInv, Sent, Unmade
<1>4. MakerInv'
  <2>1. \A j \in Jobs : job[j] # "none" => job'[j] # "none"
    <3> SUFFICES ASSUME NEW j \in Jobs, job[j] # "none" PROVE job'[j] # "none"
      OBVIOUS
    <3>1. job[j] \in States /\ Rank(job[j]) <= Rank(job'[j])
      BY DEF IInv, TypeOK, Onward
    <3>2. Rank(job[j]) \in 2 .. 5
      BY <3>1, Ranks
    <3> QED
      BY <3>1, <3>2, Ranks
  <2> QED
    BY <2>1 DEF IInv, MakerInv
<1>5. RespInv'
  <2>1. CASE resp' = resp /\ resp # NoResp
    <3>1. cur \in Attempts
      BY <2>1, CurTypes DEF IInv, PlaceInv
    <3>2. PICK a, e, j : a = cur /\ e = resp.err /\ j = resp.job
      OBVIOUS
    <3>3. Fits(a, e, j)'
      BY <1>1, <2>1, <3>1, <3>2 DEF IInv, RespInv
    <3> QED
      BY <2>1, <3>2, <3>3 DEF RespInv, Fits, Truth, Unmade
  <2>2. CASE resp' = [err |-> "reset", job |-> NoJob]
    <3>1. NoJob \notin Jobs
      OBVIOUS
    <3> QED
      BY <2>2, <3>1 DEF RespInv, Fits, Truth, Outcomes
  <2>3. CASE resp' = resp /\ resp = NoResp
    BY <2>3 DEF RespInv
  <2> QED
    BY <2>1, <2>2, <2>3
<1>6. OutInv'
  <2>1. CASE stage = "reply"
    <3>1. cur \in Attempts
      BY <2>1, CurTypes
    <3>2. PICK a, e, j : a = cur /\ e = out.err /\ j = out.job
      OBVIOUS
    <3>3. Fits(a, e, j)'
      BY <1>1, <2>1, <3>1, <3>2 DEF IInv, OutInv
    <3> QED
      BY <2>1, <3>2, <3>3 DEF IInv, OutInv, Fits, Truth, Unmade
  <2>2. CASE stage # "reply"
    BY <2>2 DEF OutInv
  <2> QED
    BY <2>1, <2>2
<1> QED
  BY <1>1, <1>2, <1>3, <1>4, <1>5, <1>6 DEF IInv

LEMMA JobStepInv ==
    ASSUME IInv, NEW j \in Jobs, JobStep(j)
    PROVE  IInv'
<1>1. job \in [Jobs -> States] /\ broker \in BOOLEAN
  BY DEF IInv, TypeOK
<1>2. PICK s \in {"inactive", "purged"} :
         /\ job' = [job EXCEPT ![j] = s]
         /\ Rank(job[j]) <= Rank(s)
  BY Ranks DEF JobStep
<1>3. Onward
  <2>1. /\ job'[j] = s /\ \A i \in Jobs \ {j} : job'[i] = job[i]
        /\ job' \in [Jobs -> States]
    BY <1>1, <1>2, Ranks
  <2>2. \A i \in Jobs : Rank(job[i]) \in 1 .. 5
    BY <1>1, Ranks
  <2> QED
    BY <1>2, <2>1, <2>2 DEF Onward
<1> QED
  BY <1>1, <1>3, AgeInv DEF JobStep, httpVars, serverVars

LEMMA BrokerStopsInv ==
    ASSUME IInv, NEW keeps \in BOOLEAN, BrokerStops(keeps)
    PROVE  IInv'
<1>1. job \in [Jobs -> States]
  BY DEF IInv, TypeOK
<1>2. Onward
  <2>1. \A j \in Jobs : job'[j] \in {job[j], "purged"}
    BY DEF BrokerStops
  <2>2. \A j \in Jobs : Rank(job[j]) \in 1 .. 5
    BY <1>1, Ranks
  <2>3. job' \in [Jobs -> States]
    BY <1>1, Ranks DEF BrokerStops
  <2> QED
    BY <2>1, <2>2, <2>3, Ranks DEF Onward
<1> QED
  BY <1>2, AgeInv DEF BrokerStops

-----------------------------------------------------------------------------
(* The theorems.                                                            *)

LEMMA NextInv == IInv /\ [Next]_vars => IInv'
<1> SUFFICES ASSUME IInv, [Next]_vars PROVE IInv'
  OBVIOUS
<1>1. CASE UNCHANGED vars
  <2> USE <1>1 DEF vars, httpVars, serverVars, fluxVars
  <2>1. MakerInv' /\ RankInv' /\ AnsInv'
    BY QuietInv
  <2>2. TypeOK'
    BY DEF IInv, TypeOK
  <2>3. PlaceInv' /\ WireInv'
    BY DEF IInv, PlaceInv, WireInv, Sent, Unmade
  <2>4. RespInv' /\ OutInv'
    BY DEF IInv, RespInv, OutInv, Fits, Truth, Unmade
  <2> QED
    BY <2>1, <2>2, <2>3, <2>4 DEF IInv
<1>2. CASE ServerStep
  BY <1>2, AcceptInv, AnswerDirectlyInv, OpenFluxInv, CallFluxInv, ReturnInv, SendInv
     DEF ServerStep
<1>3. CASE FluxStep
  BY <1>3, SubmitInv, CancelInv, LookupInv DEF FluxStep, Process
<1>4. CASE Environment
  BY <1>4, RequestInv, GiveUpInv, CallRaisesInv, ServerEndsInv, StartsInv, JobStepInv,
     BrokerStopsInv DEF Environment
<1> QED
  BY <1>1, <1>2, <1>3, <1>4 DEF Next

LEMMA IInvCorrect == Spec => []IInv
<1> QED
  BY InitInv, NextInv, PTL DEF Spec

\* The variables of the routes and of Flux keep their types; in particular,
\* whatever way an answer takes from an exception or an RPC to its client, 201
\* names a job and no other answer does.
THEOREM JobsTypeCorrect == Spec => []TypeOK
<1>1. IInv => TypeOK
  BY DEF IInv
<1> QED
  BY <1>1, IInvCorrect, PTL

\* A submission makes at most one job, and 201 names the one it has made,
\* however the process, the broker and the client come and go meanwhile.
THEOREM OneJobCorrect == Spec => []OneJobPerSubmission
<1>1. IInv => OneJobPerSubmission
  <2> SUFFICES ASSUME IInv PROVE OneJobPerSubmission
    OBVIOUS
  <2>1. ASSUME NEW a \in Attempts, ans[a].status = 201
        PROVE  maker[ans[a].job] = a
    <3>1. phase[a] = "answered"
      BY <2>1 DEF IInv, AnsInv, NoAnswer
    <3>2. Fits(a, ans[a].err, ans[a].job) /\ Status(op[a], ans[a].err) = 201
      BY <2>1, <3>1 DEF IInv, AnsInv
    <3>3. op[a] = "submit" /\ ans[a].err = "ok"
      BY <3>2, Statuses DEF Fits, IInv, TypeOK
    <3> QED
      BY <3>2, <3>3 DEF Fits
  <2> QED
    BY <2>1 DEF IInv, MakerInv, OneJobPerSubmission
<1> QED
  BY <1>1, IInvCorrect, PTL

\* Only 503 and 201 may come of a submission that has an effect: the errors
\* that _submit() makes itself, and 500, say that there is no job of it and that
\* none is on its way.
THEOREM RejectedCorrect == Spec => []RejectedCreatesNothing
<1>1. IInv => RejectedCreatesNothing
  <2> SUFFICES ASSUME IInv, NEW a \in Attempts, ans[a].status \in {400, 403, 404, 409, 500}
               PROVE  (\A j \in Jobs : maker[j] # a) /\ \A m \in wire : m.by # a
    BY DEF RejectedCreatesNothing
  <2>1. phase[a] = "answered"
    BY DEF IInv, AnsInv, NoAnswer
  <2>2. /\ Fits(a, ans[a].err, ans[a].job) /\ ans[a].status = Status(op[a], ans[a].err)
        /\ ans[a].err \in Outcomes
    BY <2>1 DEF IInv, AnsInv, Fits
  <2>3. op[a] = "submit" => ans[a].err \notin {"ok", "reset"}
    BY <2>2 DEF Status, SubmitStatus, Uncaught, OSErrors, Outcomes
  <2>4. \A j \in Jobs : maker[j] # a
    <3>1. CASE op[a] = "submit"
      BY <2>2, <2>3, <3>1 DEF Fits, Unmade
    <3>2. CASE op[a] # "submit"
      <4>1. a # NoAttempt
        OBVIOUS
      <4> QED
        BY <3>2, <4>1 DEF IInv, MakerInv
    <3> QED
      BY <3>1, <3>2
  <2>5. \A m \in wire : m.by # a
    BY <2>1 DEF IInv, WireInv, Sent
  <2> QED
    BY <2>4, <2>5
<1> QED
  BY <1>1, IInvCorrect, PTL

\* The statuses of the routes about a job, by the outcome they stand for.
LEMMA JobStatuses ==
    ASSUME NEW err \in Outcomes
    PROVE  /\ CancelStatus(err) \in {202, 403, 404, 409, 500, 503}
           /\ CancelStatus(err) = 202 => err = "ok"
           /\ CancelStatus(err) = 403 => err = "EPERM"
           /\ CancelStatus(err) = 404 => err = "ENOENT"
           /\ CancelStatus(err) = 409 => err = "inactive"
           /\ StateStatus(err) \in {200, 404, 500, 503}
           /\ StateStatus(err) = 200 => err = "ok"
           /\ StateStatus(err) = 404 => err = "ENOENT"
  BY DEF CancelStatus, StateStatus, Uncaught, OSErrors, Outcomes

\* What each status promises.
LEMMA Promises ==
    ASSUME NEW j, NEW f, NEW t
    PROVE  /\ f # "purged" /\ t # "none" => TrueOf(200, j, f, t)
           /\ j \notin Foreign /\ Rank(f) <= 3 /\ Rank(t) >= 3 => TrueOf(202, j, f, t)
           /\ j \in Foreign /\ Rank(f) <= 3 => TrueOf(403, j, f, t)
           /\ f = "none" \/ t = "purged" => TrueOf(404, j, f, t)
           /\ Rank(f) <= 4 /\ Rank(t) >= 4 => TrueOf(409, j, f, t)
           /\ TrueOf(500, j, f, t) /\ TrueOf(503, j, f, t)
  BY DEF TrueOf

\* So what an outcome says of the job of a request, its status says.
LEMMA OutcomeTrue ==
    ASSUME IInv, NEW a \in Attempts, op[a] \in JobOps, NEW e \in Outcomes, Truth(a, e)
    PROVE  TrueOf(Status(op[a], e), target[a], from[a], job[target[a]])
<1> DEFINE f == from[a]
           t == job[target[a]]
<1>1. f \in States /\ t \in States
  BY DEF IInv, RankInv, TypeOK
<1>2. CASE op[a] = "cancel"
  <2>1. Status(op[a], e) = CancelStatus(e)
    BY <1>2 DEF Status
  <2>2. CASE CancelStatus(e) = 202
    <3>1. e = "ok"
      BY <2>2, JobStatuses
    <3> QED
      BY <1>2, <2>1, <2>2, <3>1, Promises DEF Truth
  <2>3. CASE CancelStatus(e) = 403
    <3>1. e = "EPERM"
      BY <2>3, JobStatuses
    <3> QED
      BY <1>2, <2>1, <2>3, <3>1, Promises DEF Truth
  <2>4. CASE CancelStatus(e) = 404
    <3>1. e = "ENOENT"
      BY <2>4, JobStatuses
    <3>2. f = "none" \/ t = "purged"
      BY <1>1, <1>2, <3>1, Ranks DEF Truth, JobOps
    <3> QED
      BY <2>1, <2>4, <3>2, Promises
  <2>5. CASE CancelStatus(e) = 409
    <3>1. e = "inactive"
      BY <2>5, JobStatuses
    <3> QED
      BY <1>2, <2>1, <2>5, <3>1, Promises DEF Truth
  <2>6. CASE CancelStatus(e) \in {500, 503}
    BY <2>1, <2>6, Promises
  <2> QED
    BY <2>2, <2>3, <2>4, <2>5, <2>6, JobStatuses
<1>3. CASE op[a] = "state"
  <2>1. Status(op[a], e) = StateStatus(e)
    BY <1>3 DEF Status
  <2>2. CASE StateStatus(e) = 200
    <3>1. e = "ok"
      BY <2>2, JobStatuses
    <3>2. f # "purged" /\ t # "none"
      BY <1>1, <1>3, <3>1, Ranks DEF Truth
    <3> QED
      BY <2>1, <2>2, <3>2, Promises
  <2>3. CASE StateStatus(e) = 404
    <3>1. e = "ENOENT"
      BY <2>3, JobStatuses
    <3>2. f = "none" \/ t = "purged"
      BY <1>1, <1>3, <3>1, Ranks DEF Truth, JobOps
    <3> QED
      BY <2>1, <2>3, <3>2, Promises
  <2>4. CASE StateStatus(e) \in {500, 503}
    BY <2>1, <2>4, Promises
  <2> QED
    BY <2>2, <2>3, <2>4, JobStatuses
<1> QED
  BY <1>2, <1>3 DEF JobOps

\* What an answer about a job says is what was true of the job at some moment
\* between its request and the answer.
THEOREM AnswersTrueCorrect == Spec => AnswersTrue
<1>1. ASSUME IInv, IInv', [Next]_vars, NEW a \in Attempts,
             phase[a] = "waiting", phase'[a] = "answered", op[a] \in JobOps
      PROVE  TrueOf(ans'[a].status, target[a], from[a], job[target[a]])
  <2>1. UNCHANGED <<op, target, from, job>>
    <3>1. CASE Send
      BY <3>1 DEF Send, fluxVars
    <3>2. CASE \/ UNCHANGED vars \/ Accept \/ AnswerDirectly \/ OpenFlux \/ CallFlux
               \/ Return \/ FluxStep \/ CallRaises \/ ServerStarts \/ BrokerStarts
               \/ (\E j \in Jobs : JobStep(j)) \/ \E keeps \in BOOLEAN : BrokerStops(keeps)
      <4>1. phase' = phase
        BY <3>2 DEF vars, Accept, AnswerDirectly, OpenFlux, CallFlux, Return, Yields, Conclude,
                    CallRaises, ServerStarts, BrokerStarts, JobStep, BrokerStops, FluxStep,
                    Process, SubmitRpc, CancelRpc, LookupRpc, Answer, httpVars
      <4> QED
        BY <1>1, <4>1
    <3>3. CASE ServerEnds \/ (\E b \in Attempts : GiveUp(b))
               \/ \E b \in Attempts, o \in Ops, j \in Jobs \cup {NoJob} : Request(b, o, j)
      BY <1>1, <3>3 DEF ServerEnds, GiveUp, Request, IInv, TypeOK
    <3> QED
      BY <1>1, <3>1, <3>2, <3>3 DEF Next, ServerStep, Environment
  <2>2. PICK st, e, k : st = ans'[a].status /\ e = ans'[a].err /\ k = ans'[a].job
    OBVIOUS
  <2>3. st = Status(op[a], e) /\ Fits(a, e, k)'
    BY <1>1, <2>1, <2>2 DEF IInv, AnsInv, Fits, Truth, Unmade
  <2>4. e \in Outcomes /\ Truth(a, e)
    BY <2>1, <2>3 DEF Fits, Truth
  <2>5. TrueOf(Status(op[a], e), target[a], from[a], job[target[a]])
    BY <1>1, <2>4, OutcomeTrue
  <2> QED
    BY <2>2, <2>3, <2>5
<1>2. IInv /\ IInv' /\ [Next]_vars =>
         [\A a \in Attempts :
            phase[a] = "waiting" /\ phase'[a] = "answered" /\ op[a] \in JobOps
              => TrueOf(ans'[a].status, target[a], from[a], job[target[a]])]_vars
  BY <1>1
<1> QED
  BY <1>2, IInvCorrect, PTL DEF Spec, AnswersTrue

-----------------------------------------------------------------------------
(* The routes implement JobService.                                         *)

LEMMA InitService == Init => Service!Init
  BY Ranks DEF Init, Service!Init, Service!JobStates, NoAnswer

\* Steps that a client cannot see.
LEMMA HiddenStep ==
    ASSUME UNCHANGED <<phase, op, target, from, ans, job, maker>>
    PROVE  [Service!Next]_(Service!vars)
  BY DEF Service!vars

LEMMA RequestService ==
    ASSUME IInv, NEW a \in Attempts, NEW o \in Ops, NEW j \in Jobs \cup {NoJob},
           Request(a, o, j)
    PROVE  [Service!Next]_(Service!vars)
<1>1. /\ op'[a] = o /\ target'[a] = j /\ (o \in JobOps => j \in Jobs)
      /\ j \in Jobs => from'[a] = job[j]
  BY DEF Request, IInv, TypeOK
<1>2. /\ op'[a] \in Service!Ops
      /\ op'[a] \in Service!JobOps => target'[a] \in Jobs /\ from'[a] = job[target'[a]]
  BY <1>1 DEF Ops, FluxOps, JobOps, Service!Ops, Service!JobOps
<1>3. \A b \in Attempts \ {a} :
         op'[b] = op[b] /\ target'[b] = target[b] /\ from'[b] = from[b]
  BY DEF Request, IInv, TypeOK
<1>4. Service!Ask(a)
  BY <1>2, <1>3 DEF Request, Service!Ask, fluxVars
<1> QED
  BY <1>4 DEF Service!Next

\* Clients that leave, and those whose process ends.
LEMMA LoseService ==
    ASSUME IInv, ServerEnds \/ \E a \in Attempts : GiveUp(a)
    PROVE  [Service!Next]_(Service!vars)
<1>1. phase \in [Attempts -> {"new", "waiting", "answered", "lost"}]
  BY DEF IInv, TypeOK
<1>2. CASE ServerEnds
  <2> DEFINE S == {a \in Attempts : phase[a] = "waiting" /\ (a = cur \/ ~Activated)}
  <2>1. phase' = [a \in Attempts |-> IF a \in S THEN "lost" ELSE phase[a]]
    BY <1>2 DEF ServerEnds
  <2>2. UNCHANGED <<op, target, from, ans, job, maker>>
    BY <1>2 DEF ServerEnds
  <2>3. Service!Lose
    BY <2>1, <2>2 DEF Service!Lose
  <2> QED
    BY <2>3 DEF Service!Next
<1>3. ASSUME NEW a \in Attempts, GiveUp(a)
      PROVE  [Service!Next]_(Service!vars)
  <2>1. {a} \in SUBSET {b \in Attempts : phase[b] = "waiting"}
    BY <1>3 DEF GiveUp
  <2>2. phase' = [b \in Attempts |-> IF b \in {a} THEN "lost" ELSE phase[b]]
    BY <1>1, <1>3 DEF GiveUp
  <2>3. UNCHANGED <<op, target, from, ans, job, maker>>
    BY <1>3 DEF GiveUp, fluxVars
  <2>4. Service!Lose
    BY <2>1, <2>2, <2>3 DEF Service!Lose
  <2> QED
    BY <2>4 DEF Service!Next
<1> QED
  BY <1>2, <1>3

LEMMA SubmitService ==
    ASSUME IInv, NEW m \in wire, SubmitRpc(m)
    PROVE  [Service!Next]_(Service!vars)
<1>1. m.by \in Attempts /\ Sent(m.by) /\ Unmade(m.by) /\ op[m.by] = "submit"
  BY DEF IInv, WireInv, TypeOK, SubmitRpc
<1>2. Service!Effective(m.by) /\ Service!Created(m.by) = {}
  BY <1>1 DEF Service!Effective, Service!Created, Sent, Unmade
<1>3. UNCHANGED <<phase, op, target, from, ans>>
  BY DEF SubmitRpc, Answer, httpVars
<1>4. CASE UNCHANGED <<job, maker>>
  BY <1>3, <1>4, HiddenStep
<1>5. CASE \E j \in Jobs : /\ job[j] = "none"
                           /\ job' = [job EXCEPT ![j] = "active"]
                           /\ maker' = [maker EXCEPT ![j] = m.by]
  <2>1. Service!Submit(m.by)
    BY <1>1, <1>2, <1>3, <1>5 DEF Service!Submit
  <2> QED
    BY <1>1, <2>1 DEF Service!Next
<1> QED
  BY <1>4, <1>5 DEF SubmitRpc

\* Canceling a job that is canceled already is not a step of the service.
LEMMA CancelService ==
    ASSUME IInv, NEW m \in wire, CancelRpc(m)
    PROVE  [Service!Next]_(Service!vars)
<1> DEFINE j == target[m.by]
<1>1. m.by \in Attempts /\ Sent(m.by) /\ op[m.by] = "cancel"
  BY DEF IInv, WireInv, TypeOK, CancelRpc
<1>2. j \in Jobs /\ job \in [Jobs -> States]
  BY <1>1 DEF IInv, RankInv, TypeOK, JobOps
<1>3. UNCHANGED <<phase, op, target, from, ans, maker>>
  BY DEF CancelRpc, Answer, httpVars
<1>4. CASE UNCHANGED job
  BY <1>3, <1>4, HiddenStep
<1>5. CASE Verdict(j) = "ok" /\ job' = [job EXCEPT ![j] = "canceled"]
  <2>1. job[j] \in {"active", "canceled"} /\ j \notin Foreign
    BY <1>2, <1>5, Ranks DEF Verdict
  <2>2. CASE job[j] = "active"
    <3>1. Service!Cancel(m.by)
      BY <1>1, <1>3, <1>5, <2>1, <2>2 DEF Service!Cancel, Service!Effective, Sent
    <3> QED
      BY <1>1, <3>1 DEF Service!Next
  <2>3. CASE job[j] = "canceled"
    <3>1. job' = job
      BY <1>2, <1>5, <2>3
    <3> QED
      BY <1>3, <3>1, HiddenStep
  <2> QED
    BY <2>1, <2>2, <2>3
<1> QED
  BY <1>4, <1>5 DEF CancelRpc

LEMMA AgeService ==
    ASSUME IInv, (\E j \in Jobs : JobStep(j)) \/ \E keeps \in BOOLEAN : BrokerStops(keeps)
    PROVE  [Service!Next]_(Service!vars)
<1>1. UNCHANGED <<phase, op, target, from, ans, maker>>
  BY DEF JobStep, BrokerStops, httpVars
<1>2. ASSUME NEW j \in Jobs, JobStep(j)
      PROVE  [Service!Next]_(Service!vars)
  <2>1. Service!Age(j)
    BY <1>1, <1>2 DEF Service!Age, JobStep
  <2> QED
    BY <2>1 DEF Service!Next
<1>3. CASE BrokerStops(TRUE)
  <2>1. job' = job
    BY <1>3 DEF BrokerStops, IInv, TypeOK
  <2> QED
    BY <1>1, <2>1, HiddenStep
<1>4. CASE BrokerStops(FALSE)
  <2>1. job' = [j \in Jobs |-> IF job[j] = "none" THEN "none" ELSE "purged"]
    BY <1>4 DEF BrokerStops
  <2>2. Service!Forget
    BY <1>1, <2>1 DEF Service!Forget
  <2> QED
    BY <2>2 DEF Service!Next
<1> QED
  BY <1>2, <1>3, <1>4

\* Every status that a route sends is one that is listed for it, or 500.
LEMMA StatusPossible ==
    ASSUME NEW o \in Ops, NEW err \in Outcomes
    PROVE  Status(o, err) \in Service!Possible(o)
  BY DEF Status, SubmitStatus, CancelStatus, StateStatus, InfoStatus, Uncaught,
         Service!Possible, Service!Listed, Ops, FluxOps, Outcomes, OSErrors

\* What an outcome says of a submission, and of the job of a request.
LEMMA StatusMeans ==
    ASSUME NEW o \in Ops, NEW err \in Outcomes
    PROVE  /\ Status(o, err) = 201 => o = "submit" /\ err = "ok"
           /\ o = "submit" /\ Status(o, err) \in {400, 403, 404, 409, 500}
                 => err \notin {"ok", "reset"}
  BY DEF Status, SubmitStatus, CancelStatus, StateStatus, InfoStatus, Uncaught,
         Ops, FluxOps, JobOps, Outcomes, OSErrors

\* What a status says of a job is the same here and there.
LEMMA SameTruth ==
    ASSUME TypeOK, RankInv, NEW a \in Attempts, op[a] \in JobOps, NEW st,
           TrueOf(st, target[a], from[a], job[target[a]])
    PROVE  Service!TrueOf(a, st)
<1>1. from[a] \in States /\ job[target[a]] \in States
  BY DEF RankInv, TypeOK
<1>2. /\ Rank(from[a]) <= 3 => from[a] \in {"none", "active", "canceled"}
      /\ Rank(from[a]) <= 4 => from[a] # "purged"
      /\ Rank(job[target[a]]) >= 3 => job[target[a]] \in {"canceled", "inactive", "purged"}
      /\ Rank(job[target[a]]) >= 4 => job[target[a]] \in {"inactive", "purged"}
  BY <1>1, Ranks
<1> QED
  BY <1>2 DEF TrueOf, Service!TrueOf

LEMMA SendService ==
    ASSUME IInv, Send
    PROVE  [Service!Next]_(Service!vars)
<1>1. UNCHANGED <<op, target, from, job, maker>>
  BY DEF Send, fluxVars
<1>2. cur \in Attempts /\ op[cur] \in Ops
  BY CurTypes DEF Send
<1>3. CASE phase[cur] # "waiting"
  <2>1. UNCHANGED <<phase, ans>>
    BY <1>3 DEF Send
  <2> QED
    BY <1>1, <2>1, HiddenStep
<1>4. CASE phase[cur] = "waiting"
  <2>1. PICK a \in Attempts : a = cur
    BY <1>2
  <2>2. PICK st, e, k : st = out.status /\ e = out.err /\ k = out.job
    OBVIOUS
  <2>3. ans' = [ans EXCEPT ![a] = out] /\ ans'[a] = out
    BY <1>4, <2>1 DEF Send, IInv, TypeOK
  <2>4. st = Status(op[a], e) /\ Fits(a, e, k) /\ op[a] \in Ops /\ e \in Outcomes
    BY <1>2, <2>1, <2>2 DEF Send, IInv, OutInv, Fits
  <2>5. st \in Service!Possible(op[a])
    BY <2>4, StatusPossible
  <2>6. /\ st = 201 => op[a] = "submit" /\ e = "ok"
        /\ op[a] = "submit" /\ st \in {400, 403, 404, 409, 500} => e \notin {"ok", "reset"}
    <3>1. op[a] \in Ops /\ e \in Outcomes /\ Status(op[a], e) = st
      BY <2>4
    <3> QED
      BY <3>1, StatusMeans
  <2>7. st = 201 => k \in Service!Created(a)
    BY <2>4, <2>6 DEF Fits, Service!Created
  <2>8. st \in {400, 403, 404, 409, 500} => Service!Created(a) = {}
    <3>1. op[a] # "submit" => Service!Created(a) = {}
      BY DEF IInv, MakerInv, Service!Created
    <3>2. op[a] = "submit" /\ st \in {400, 403, 404, 409, 500} => Unmade(a)
      BY <2>4, <2>6 DEF Fits
    <3> QED
      BY <3>1, <3>2 DEF Unmade, Service!Created
  <2>9. ASSUME op[a] \in JobOps
        PROVE  Service!TrueOf(a, st)
    <3>1. TrueOf(st, target[a], from[a], job[target[a]])
      BY <2>4, <2>9, OutcomeTrue DEF Fits
    <3> QED
      BY <2>9, <3>1, SameTruth DEF IInv
  <2>10. Service!Agrees(a, ans'[a])
    <3>1. ans'[a].status = st /\ ans'[a].job = k
      BY <2>2, <2>3
    <3>2. op[a] \in Service!JobOps => Service!TrueOf(a, ans'[a].status)
      BY <2>9, <3>1 DEF Service!JobOps, JobOps
    <3> QED
      BY <2>7, <2>8, <3>1, <3>2 DEF Service!Agrees
  <2>11. Service!Reply(a)
    <3>1. phase[a] = "waiting" /\ phase' = [phase EXCEPT ![a] = "answered"]
      BY <1>4, <2>1 DEF Send
    <3>2. ans'[a].status \in Service!Possible(op[a]) /\ ans' = [ans EXCEPT ![a] = ans'[a]]
      BY <2>2, <2>3, <2>5
    <3> QED
      BY <1>1, <2>10, <3>1, <3>2 DEF Service!Reply
  <2> QED
    BY <2>11 DEF Service!Next
<1> QED
  BY <1>3, <1>4

LEMMA ServiceStep == IInv /\ [Next]_vars => [Service!Next]_(Service!vars)
<1> SUFFICES ASSUME IInv, [Next]_vars PROVE [Service!Next]_(Service!vars)
  OBVIOUS
<1>1. CASE UNCHANGED vars \/ ServerStarts \/ BrokerStarts
  BY <1>1, HiddenStep DEF vars, ServerStarts, BrokerStarts, httpVars, fluxVars
<1>2. CASE Accept \/ AnswerDirectly \/ OpenFlux \/ CallFlux \/ Return \/ CallRaises
  <2>1. UNCHANGED <<phase, op, target, from, ans, job, maker>>
    BY <1>2 DEF Accept, AnswerDirectly, OpenFlux, CallFlux, Return, CallRaises, Yields,
                Conclude, httpVars, fluxVars
  <2> QED
    BY <2>1, HiddenStep
<1>3. CASE FluxStep
  <2>1. PICK m \in wire : SubmitRpc(m) \/ CancelRpc(m) \/ LookupRpc(m)
    BY <1>3 DEF FluxStep, Process
  <2>2. CASE LookupRpc(m)
    BY <2>2, HiddenStep DEF LookupRpc, Answer, httpVars
  <2> QED
    BY <2>1, <2>2, SubmitService, CancelService
<1>4. CASE Send \/ ServerEnds \/ (\E a \in Attempts : GiveUp(a))
           \/ (\E a \in Attempts, o \in Ops, j \in Jobs \cup {NoJob} : Request(a, o, j))
           \/ (\E j \in Jobs : JobStep(j)) \/ \E keeps \in BOOLEAN : BrokerStops(keeps)
  BY <1>4, SendService, LoseService, RequestService, AgeService
<1> QED
  BY <1>1, <1>2, <1>3, <1>4 DEF Next, ServerStep, Environment

\* What clients see is the service of JobService: every request takes effect at
\* most once and in one step, not before it is sent nor after it is answered,
\* and its answer is listed in openapi.yaml, or is the 500 that is not, and true
\* of the job.
THEOREM JobServiceImplemented == Spec => ImplementsJobService
<1>1. Init => Service!Init
  BY InitService
<1>2. IInv /\ [Next]_vars => [Service!Next]_(Service!vars)
  BY ServiceStep
<1> QED
  BY <1>1, <1>2, IInvCorrect, PTL DEF Spec, ImplementsJobService, Service!Spec

-----------------------------------------------------------------------------
(* What clients may rely on, from the theorems about JobService.            *)

\* The same instance, with the theorems.
Client == INSTANCE JobServiceProofs

LEMMA ClientService == Service!Spec => Client!Spec
<1>1. Service!Init => Client!Init
  BY DEF Service!Init, Client!Init, Service!JobStates, Client!JobStates
<1>2. [Service!Next]_(Service!vars) => [Client!Next]_(Client!vars)
  <2>1. UNCHANGED Service!vars => UNCHANGED Client!vars
    BY DEF Service!vars, Client!vars
  <2>2. ASSUME NEW a \in Attempts, Service!Ask(a) PROVE Client!Ask(a)
    BY <2>2, Zenon DEF Service!Ask, Client!Ask, Service!Ops, Client!Ops,
                       Service!JobOps, Client!JobOps
  <2>3. ASSUME NEW a \in Attempts, Service!Submit(a) PROVE Client!Submit(a)
    BY <2>3, Zenon DEF Service!Submit, Client!Submit, Service!Effective, Client!Effective,
                       Service!Created, Client!Created
  <2>4. ASSUME NEW a \in Attempts, Service!Cancel(a) PROVE Client!Cancel(a)
    BY <2>4, Zenon DEF Service!Cancel, Client!Cancel, Service!Effective, Client!Effective
  <2>5. ASSUME NEW a \in Attempts, Service!Reply(a) PROVE Client!Reply(a)
    BY <2>5, Zenon DEF Service!Reply, Client!Reply, Service!Agrees, Client!Agrees,
                       Service!Created, Client!Created, Service!Possible, Client!Possible,
                       Service!Listed, Client!Listed, Service!TrueOf, Client!TrueOf,
                       Service!JobOps, Client!JobOps
  <2>6. ASSUME NEW j \in Jobs, Service!Age(j) PROVE Client!Age(j)
    BY <2>6, Zenon DEF Service!Age, Client!Age
  <2>7. Service!Lose => Client!Lose
    BY Zenon DEF Service!Lose, Client!Lose
  <2>8. Service!Forget => Client!Forget
    BY Zenon DEF Service!Forget, Client!Forget
  <2>9. ASSUME Service!Next
        PROVE  Client!Next
    BY <2>2, <2>3, <2>4, <2>5, <2>6, <2>7, <2>8, <2>9, Zenon DEF Service!Next, Client!Next
  <2> QED
    BY <2>1, <2>9, Zenon
<1> QED
  BY <1>1, <1>2, PTL DEF Service!Spec, Client!Spec

\* Each answer of the routes is one of openapi.yaml's for the route, or the 500
\* of an exception, which openapi.yaml does not have; and it stays true: the job
\* of a 201 was made by this request, that of a 202 or 409 is not active again,
\* there was no job for a 404 or it is gone for good, and after 400, 403, 404,
\* 409 and 500 there never is a job of this request.
THEOREM RoutesAnswersHold == Spec => []Client!AnswersHold
<1>1. Client!Spec => []Client!AnswersHold
  BY JobsAssumption, Client!AnswersHoldCorrect
<1> QED
  BY <1>1, ClientService, JobServiceImplemented, PTL DEF ImplementsJobService

\* No RPC outlives its answer: once the client has one, 503 included, no job
\* appears in its name, though the process and the broker may restart.
THEOREM RoutesAnswersFinal == Spec => Client!AnswersFinal
<1>1. Client!Spec => Client!AnswersFinal
  BY JobsAssumption, Client!AnswersFinalCorrect
<1> QED
  BY <1>1, ClientService, JobServiceImplemented, PTL DEF ImplementsJobService

\* Jobs are made and canceled only for a request that asks for it and is not
\* answered, which may be one whose client has left, and only the user's own.
THEOREM RoutesEffectsAsked == Spec => Client!EffectsAsked
<1>1. Client!Spec => Client!EffectsAsked
  BY JobsAssumption, Client!EffectsAskedCorrect
<1> QED
  BY <1>1, ClientService, JobServiceImplemented, PTL DEF ImplementsJobService
=============================================================================
