------------------------------- MODULE JobService ------------------------------
(***************************************************************************)
(* What the job routes promise a client, whatever goes on between it and   *)
(* Flux: there is no server process, no handle, no RPC and no broker here. *)
(* A request takes effect at most once, in one step, at some moment after  *)
(* it was sent and before it is answered; its answer has a status that     *)
(* openapi.yaml lists for the route, or 500, which it does not list, and   *)
(* agrees with what has happened to the job since the request was sent.    *)
(* Only the request whose client never gets an answer may take effect late.*)
(***************************************************************************)
EXTENDS Naturals

CONSTANTS
    Attempts, NoAttempt,
    Jobs, NoJob,
    Foreign         \* jobs of another user

VARIABLES
    phase,      \* of each attempt, as its client sees it
    op, target, \* the route, and the job in its path
    from,       \* history: the state of that job when it was sent
    ans,        \* the answer
    job,        \* the state of each job
    maker       \* the attempt that has created it

vars == <<phase, op, target, from, ans, job, maker>>

JobStates == {"none", "active", "canceled", "inactive", "purged"}
\* The routes; "malformed" and "unknown" are requests that reach none.
Ops == {"info", "health", "submit", "cancel", "state", "malformed", "unknown"}
JobOps == {"cancel", "state"}

Init ==
    /\ phase = [a \in Attempts |-> "new"]
    /\ job \in [Jobs -> JobStates]
    /\ maker = [j \in Jobs |-> NoAttempt]
    /\ DOMAIN ans = Attempts /\ \A a \in Attempts : ans[a].status = 0

Ask(a) ==
    /\ phase[a] = "new"
    /\ phase' = [phase EXCEPT ![a] = "waiting"]
    /\ op'[a] \in Ops
    /\ op'[a] \in JobOps => target'[a] \in Jobs /\ from'[a] = job[target'[a]]
    /\ \A b \in Attempts \ {a} :
          op'[b] = op[b] /\ target'[b] = target[b] /\ from'[b] = from[b]
    /\ UNCHANGED <<ans, job, maker>>

\* Clients leave, or find their connections reset.
Lose ==
    /\ \E S \in SUBSET {a \in Attempts : phase[a] = "waiting"} :
          phase' = [a \in Attempts |-> IF a \in S THEN "lost" ELSE phase[a]]
    /\ UNCHANGED <<op, target, from, ans, job, maker>>

-----------------------------------------------------------------------------
(* The effects of requests.                                                 *)

\* Not before the request is made, and not after it has been answered.
Effective(a) == phase[a] \in {"waiting", "lost"}
Created(a) == {j \in Jobs : maker[j] = a}

Submit(a) ==
    /\ Effective(a) /\ op[a] = "submit" /\ Created(a) = {}
    /\ \E j \in Jobs : /\ job[j] = "none"
                       /\ job' = [job EXCEPT ![j] = "active"]
                       /\ maker' = [maker EXCEPT ![j] = a]
    /\ UNCHANGED <<phase, op, target, from, ans>>

Cancel(a) ==
    /\ Effective(a) /\ op[a] = "cancel"
    /\ target[a] \notin Foreign /\ job[target[a]] = "active"
    /\ job' = [job EXCEPT ![target[a]] = "canceled"]
    /\ UNCHANGED <<phase, op, target, from, ans, maker>>

\* Jobs end and are forgotten, one by one or all at once.
Age(j) ==
    /\ \/ job[j] \in {"active", "canceled"} /\ job' = [job EXCEPT ![j] = "inactive"]
       \/ job[j] = "inactive" /\ job' = [job EXCEPT ![j] = "purged"]
    /\ UNCHANGED <<phase, op, target, from, ans, maker>>
Forget ==
    /\ job' = [j \in Jobs |-> IF job[j] = "none" THEN "none" ELSE "purged"]
    /\ UNCHANGED <<phase, op, target, from, ans, maker>>

-----------------------------------------------------------------------------
(* Answers.                                                                 *)

\* The statuses that openapi.yaml lists for a route, without the 403 of a
\* connection that is refused.
Listed(o) ==
    CASE o = "info" -> {200, 503}
      [] o = "health" -> {200}
      [] o = "submit" -> {201, 400, 503}
      [] o = "cancel" -> {202, 400, 403, 404, 409, 503}
      [] o = "state" -> {200, 400, 404, 503}
      [] o = "malformed" -> {400}
      [] o = "unknown" -> {404}

\* And 500, which it does not list, although it "should describe what exists":
\* the routes' answer to an exception that nobody has foreseen.
Possible(o) == Listed(o) \cup (IF o \in {"info", "submit", "cancel", "state"}
                              THEN {500} ELSE {})

\* What a status says about the job in the path: true at some moment since the
\* request was sent, if it is true of its state then and its state now.
TrueOf(a, status) ==
    LET now == job[target[a]]
    IN  CASE status = 200 -> from[a] # "purged" /\ now # "none"
          [] status = 202 -> /\ target[a] \notin Foreign
                             /\ from[a] \in {"none", "active", "canceled"}
                             /\ now \in {"canceled", "inactive", "purged"}
          [] status = 403 -> /\ target[a] \in Foreign
                             /\ from[a] \in {"none", "active", "canceled"}
          [] status = 404 -> from[a] = "none" \/ now = "purged"
          [] status = 409 -> from[a] # "purged" /\ now \in {"inactive", "purged"}
          [] OTHER -> TRUE

\* 201 names the job that was created, and any answer but that and 503 says
\* that none was.
Agrees(a, r) ==
    /\ r.status = 201 => r.job \in Created(a)
    /\ r.status \in {400, 403, 404, 409, 500} => Created(a) = {}
    /\ op[a] \in JobOps => TrueOf(a, r.status)

Reply(a) ==
    /\ phase[a] = "waiting"
    /\ phase' = [phase EXCEPT ![a] = "answered"]
    /\ ans'[a].status \in Possible(op[a]) /\ Agrees(a, ans'[a])
    /\ ans' = [ans EXCEPT ![a] = ans'[a]]
    /\ UNCHANGED <<op, target, from, job, maker>>

-----------------------------------------------------------------------------
Next ==
    \/ \E a \in Attempts : Ask(a) \/ Submit(a) \/ Cancel(a) \/ Reply(a)
    \/ \E j \in Jobs : Age(j)
    \/ Lose \/ Forget

Spec == Init /\ [][Next]_vars
-----------------------------------------------------------------------------
(* What a client may conclude.                                              *)

\* The types of what it sees; an attempt that was made has a route, and a job
\* if the route is about one.
TypeOK ==
    /\ phase \in [Attempts -> {"new", "waiting", "answered", "lost"}]
    /\ job \in [Jobs -> JobStates] /\ DOMAIN maker = Jobs /\ DOMAIN ans = Attempts
    /\ \A a \in Attempts : phase[a] # "new" =>
          op[a] \in Ops /\ (op[a] \in JobOps => target[a] \in Jobs)

\* Trying once creates one job at most.
AtMostOneJob ==
    \A i, j \in Jobs : maker[i] = maker[j] /\ maker[i] # NoAttempt => i = j

\* Every answer is one that openapi.yaml has for the route, or 500, and what it
\* says of the job, 404 included, does not become false later.
AnswersHold ==
    \A a \in Attempts : phase[a] = "answered" =>
        ans[a].status \in Possible(op[a]) /\ Agrees(a, ans[a])

\* An answer is final: none follows it, and no effect of the request does.
AnswersFinal ==
    [][ \A a \in Attempts : phase[a] = "answered" =>
            phase'[a] = "answered" /\ ans'[a] = ans[a] /\ Created(a)' = Created(a) ]_vars

\* Jobs are neither created nor canceled but on behalf of a request for it that
\* has no answer yet, and nobody's but the user's own are canceled.
Asked(o, j) == \E a \in Attempts : Effective(a) /\ op[a] = o /\ (o = "cancel" => target[a] = j)
EffectsAsked ==
    [][ \A j \in Jobs :
          /\ job[j] = "none" /\ job'[j] # "none" => Asked("submit", j)
          /\ job[j] # "canceled" /\ job'[j] = "canceled" =>
                job[j] = "active" /\ j \notin Foreign /\ Asked("cancel", j) ]_vars
=============================================================================
