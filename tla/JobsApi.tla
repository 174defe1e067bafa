-------------------------------- MODULE JobsApi --------------------------------
(***************************************************************************)
(* The routes of flux-rest-server (src/src/cmd/flux-rest-server.py) and     *)
(* Flux behind them: HTTP requests, the cached Flux handle, the RPC a route *)
(* waits for, and the jobs it acts on.  The serve loop, which is module     *)
(* RestServer, appears here only as what it is to a route: one request at a *)
(* time, in order of arrival, from a process that may end at any moment.    *)
(* Flux itself is external: it is what the calls in the source expect of it.*)
(***************************************************************************)
EXTENDS Integers, Sequences, FiniteSets

CONSTANTS
    Attempts,       \* HTTP requests; a retry is an attempt of its own
    NoAttempt,
    Jobs,           \* job ids
    NoJob,
    Foreign,        \* jobs that another user has submitted to the instance
    Activated,      \* the listening socket belongs to systemd
    MaxEpochs,      \* bound on starts of the broker
    MaxEnds         \* bound on ends of the server process

ASSUME JobsAssumption ==
    /\ NoJob \notin Jobs /\ Foreign \subseteq Jobs
    /\ NoAttempt \notin Attempts /\ Activated \in BOOLEAN
    /\ MaxEpochs \in Nat \ {0} /\ MaxEnds \in Nat

VARIABLES
    phase,      \* of each attempt, as its client sees it
    op, target, \* what it asks for: the route, and the job id in its path
    ans,        \* the answer its client has received
    from,       \* history: the state of its target when it was sent
    since,      \* history: the broker's epoch when it was sent, 0 if down
    up,         \* the server process runs
    queue,      \* connections it has yet to accept
    cur,        \* the request in the handler
    stage,      \* how far the handler is
    handle,     \* _handle: the epoch it was opened in, NoHandle for None
    resp,       \* what the RPC has come back with
    out,        \* the answer about to be sent
    broker,     \* the broker runs
    epoch,      \* how often it has been started
    job,        \* the state of each job
    maker,      \* history: the attempt whose RPC created it
    wire,       \* RPCs that the broker has yet to process
    ends        \* ends of the server process so far

httpVars   == <<phase, op, target, ans, from, since>>
serverVars == <<up, queue, cur, stage, handle, resp, out>>
fluxVars   == <<broker, epoch, job, maker, wire>>
vars == <<httpVars, serverVars, fluxVars, ends>>

NoHandle == 0
FluxOps == {"info", "submit", "cancel", "state"}
JobOps == {"cancel", "state"}
\* "malformed": a body, jobspec or job id that is rejected before Flux is
\* called.  "unknown": a path that no route matches.
Ops == FluxOps \cup {"health", "malformed", "unknown"}

\* The states of a job in the order it goes through them; "canceled" has its
\* cancel exception but still runs, "purged" is forgotten by Flux.
JobStates == <<"none", "active", "canceled", "inactive", "purged">>
Rank(s) == CHOOSE i \in 1 .. 5 : JobStates[i] = s

\* Outcomes of a call into the Flux bindings.  OSErrors by their errno:
\* "ENOENT" and "inactive" (the same exception, told apart by its text),
\* "EPERM", "EINVAL", any "other" that the broker answers with, "reset" when
\* the connection of the handle is gone and "unreachable" when there is none
\* to be had.  "value": RuntimeError or ValueError.  "bug": anything else.
Outcomes == {"ok", "ENOENT", "inactive", "EPERM", "EINVAL", "other", "reset",
             "unreachable", "value", "bug"}
OSErrors == Outcomes \ {"ok", "value", "bug"}
NoResp == [err |-> "none", job |-> NoJob]
NoAnswer == [status |-> 0, err |-> "none", job |-> NoJob]

Init ==
    /\ phase = [a \in Attempts |-> "new"]
    /\ op = [a \in Attempts |-> "unknown"]
    /\ target = [a \in Attempts |-> NoJob]
    /\ ans = [a \in Attempts |-> NoAnswer]
    /\ from = [a \in Attempts |-> "none"] /\ since = [a \in Attempts |-> 0]
    /\ up = TRUE /\ queue = <<>> /\ cur = NoAttempt /\ stage = "idle"
    /\ handle = NoHandle /\ resp = NoResp /\ out = NoAnswer
    /\ broker = TRUE /\ epoch = 1
    /\ job = [j \in Jobs |-> IF j \in Foreign THEN "active" ELSE "none"]
    /\ maker = [j \in Jobs |-> NoAttempt]
    /\ wire = {} /\ ends = 0

-----------------------------------------------------------------------------
(* Clients: nginx, or curl.                                                 *)

Request(a, o, j) ==
    /\ up \/ Activated
    /\ phase[a] = "new"
    /\ j \in Jobs <=> o \in JobOps
    /\ phase' = [phase EXCEPT ![a] = "waiting"]
    /\ op' = [op EXCEPT ![a] = o]
    /\ target' = [target EXCEPT ![a] = j]
    /\ from' = [from EXCEPT ![a] = IF j \in Jobs THEN job[j] ELSE "none"]
    /\ since' = [since EXCEPT ![a] = IF broker THEN epoch ELSE 0]
    /\ queue' = Append(queue, a)
    /\ UNCHANGED <<ans, up, cur, stage, handle, resp, out, fluxVars, ends>>

\* It disconnects; its request is in the socket's buffer all the same.
GiveUp(a) ==
    /\ phase[a] = "waiting"
    /\ phase' = [phase EXCEPT ![a] = "lost"]
    /\ UNCHANGED <<op, target, ans, from, since, serverVars, fluxVars, ends>>

-----------------------------------------------------------------------------
(* The statuses that the routes, and do_GET, do_POST and do_DELETE around   *)
(* them, make of an outcome.                                                *)

\* except OSError and except Exception, around every route.
Uncaught(err) == IF err \in OSErrors THEN 503 ELSE 500

MutAnyErrno(err) ==             \* does not look at errno
    IF err = "ok" THEN 201 ELSE IF err = "bug" THEN 500 ELSE 400
SubmitStatus(err) ==
    CASE err = "ok" -> 201
      [] err \in {"EINVAL", "value"} -> 400
      [] OTHER -> Uncaught(err)

MutNotFound(err) ==             \* has _flux() under its FileNotFoundError, too
    CASE err = "ok" -> 202
      [] err = "inactive" -> 409
      [] err \in {"ENOENT", "unreachable"} -> 404
      [] err = "EPERM" -> 403
      [] OTHER -> Uncaught(err)
CancelStatus(err) ==
    CASE err = "ok" -> 202
      [] err = "inactive" -> 409
      [] err = "ENOENT" -> 404
      [] err = "EPERM" -> 403
      [] OTHER -> Uncaught(err)

StateStatus(err) ==
    CASE err = "ok" -> 200
      [] err = "ENOENT" -> 404
      [] OTHER -> Uncaught(err)

InfoStatus(err) == IF err = "ok" THEN 200 ELSE Uncaught(err)

Status(o, err) ==
    CASE o = "submit" -> SubmitStatus(err)
      [] o = "cancel" -> CancelStatus(err)
      [] o = "state" -> StateStatus(err)
      [] o = "info" -> InfoStatus(err)
      [] o = "health" -> 200
      [] o = "malformed" -> 400
      [] o = "unknown" -> 404

-----------------------------------------------------------------------------
(* The handler.                                                             *)

Accept ==
    /\ up /\ stage = "idle" /\ queue # <<>>
    /\ cur' = Head(queue) /\ queue' = Tail(queue)
    /\ stage' = "route"
    /\ UNCHANGED <<httpVars, up, handle, resp, out, fluxVars, ends>>

MutNoId(r) ==                   \* forgets the id of the job
    /\ stage' = "reply"
    /\ out' = [status |-> Status(op[cur], r.err), err |-> r.err, job |-> NoJob]
    /\ resp' = NoResp
    /\ UNCHANGED <<httpVars, up, queue, cur, handle, fluxVars, ends>>
MutReconnects(r) ==             \* tries again, on a new handle
    /\ IF r.err \in {"reset", "unreachable"}
       THEN stage' = "route" /\ handle' = NoHandle /\ UNCHANGED out
       ELSE /\ stage' = "reply" /\ UNCHANGED handle
            /\ out' = [status |-> Status(op[cur], r.err), err |-> r.err, job |-> r.job]
    /\ resp' = NoResp
    /\ UNCHANGED <<httpVars, up, queue, cur, fluxVars, ends>>
\* The route returns, or raises into do_GET, do_POST or do_DELETE.
Conclude(r) ==
    /\ stage' = "reply"
    /\ out' = [status |-> Status(op[cur], r.err), err |-> r.err, job |-> r.job]
    /\ resp' = NoResp
    /\ UNCHANGED <<httpVars, up, queue, cur, handle, fluxVars, ends>>
Yields(err) == Conclude([err |-> err, job |-> NoJob])

AtRoute(ops) == stage = "route" /\ op[cur] \in ops

\* No Flux involved: _health, and the requests that no route gets to see.
AnswerDirectly ==
    /\ AtRoute(Ops \ FluxOps)
    /\ Yields("ok")

\* _flux(): the handle is opened on first use and never replaced.  A broker that
\* is up may turn it down; whatever the errno, it says nothing of the job, since
\* only _jobs_submit() has this call in its try.
OpenFlux ==
    /\ AtRoute(FluxOps) /\ handle = NoHandle
    /\ \/ /\ broker /\ handle' = epoch
          /\ UNCHANGED <<httpVars, up, queue, cur, stage, resp, out, fluxVars, ends>>
       \/ broker /\ \E err \in {"EINVAL", "other"} : Yields(err)
       \/ ~broker /\ Yields("unreachable")

\* The call into the bindings (the three of _root() count as one): it goes
\* out on a connection to the broker that the handle was opened to, or fails
\* because that one is gone.
CallFlux ==
    /\ AtRoute(FluxOps) /\ handle # NoHandle
    /\ IF broker /\ handle = epoch
       THEN /\ wire' = wire \cup {[by |-> cur, live |-> TRUE]}
            /\ stage' = "rpc"
            /\ UNCHANGED <<httpVars, up, queue, cur, handle, resp, out, broker,
                           epoch, job, maker, ends>>
       ELSE Yields("reset")

\* Any other exception, of the bindings (flux.Flux() included) or of pwd, before
\* an RPC is sent.
CallRaises ==
    /\ AtRoute(FluxOps)
    /\ \E err \in {"value", "bug"} : Yields(err)

MutImpatient ==                 \* does not wait for the broker any longer
    /\ stage = "rpc"
    /\ IF resp # NoResp THEN Conclude(resp) ELSE Yields("other")
Return ==
    /\ stage = "rpc" /\ resp # NoResp
    /\ Conclude(resp)

\* _send(): a client that has disconnected does not get to see the answer.
Send ==
    /\ stage = "reply"
    /\ IF phase[cur] = "waiting"
       THEN /\ phase' = [phase EXCEPT ![cur] = "answered"]
            /\ ans' = [ans EXCEPT ![cur] = out]
       ELSE UNCHANGED <<phase, ans>>
    /\ stage' = "idle" /\ cur' = NoAttempt /\ out' = NoAnswer
    /\ UNCHANGED <<op, target, from, since, up, queue, handle, resp, fluxVars, ends>>

\* The process ends, with whatever it was doing (see RestServer): its clients
\* see their connections reset, those that systemd keeps in the queue excepted,
\* but an RPC on the wire stays there.
ServerEnds ==
    /\ up /\ ends < MaxEnds
    /\ ends' = ends + 1
    /\ up' = FALSE /\ cur' = NoAttempt /\ stage' = "idle"
    /\ queue' = IF Activated THEN queue ELSE <<>>
    /\ handle' = NoHandle /\ resp' = NoResp /\ out' = NoAnswer
    /\ phase' = [a \in Attempts |->
                   IF phase[a] = "waiting" /\ (a = cur \/ ~Activated) THEN "lost" ELSE phase[a]]
    /\ wire' = {[m EXCEPT !.live = FALSE] : m \in wire}
    /\ UNCHANGED <<op, target, ans, from, since, broker, epoch, job, maker>>

\* By hand, or by systemd when a connection waits in its socket.
ServerStarts ==
    /\ ~up /\ (Activated => queue # <<>>)
    /\ up' = TRUE
    /\ UNCHANGED <<httpVars, queue, cur, stage, handle, resp, out, fluxVars, ends>>

-----------------------------------------------------------------------------
(* Flux.                                                                    *)

\* The broker is done with m, and answers if its sender is still there.
Answer(m, err, j) ==
    /\ wire' = wire \ {m}
    /\ resp' = IF m.live THEN [err |-> err, job |-> j] ELSE resp
    /\ UNCHANGED <<httpVars, up, queue, cur, stage, handle, out, broker, epoch, ends>>

SubmitRpc(m) ==
    /\ op[m.by] = "submit"
    /\ \/ \E j \in Jobs : /\ job[j] = "none"
                          /\ job' = [job EXCEPT ![j] = "active"]
                          /\ maker' = [maker EXCEPT ![j] = m.by]
                          /\ Answer(m, "ok", j)
       \/ /\ \E err \in {"EINVAL", "other"} : Answer(m, err, NoJob)
          /\ UNCHANGED <<job, maker>>

Verdict(j) ==
    CASE job[j] \in {"none", "purged"} -> "ENOENT"
      [] job[j] = "inactive" -> "inactive"
      [] job[j] \in {"active", "canceled"} /\ j \in Foreign -> "EPERM"
      [] OTHER -> "ok"
CancelRpc(m) ==
    LET j == target[m.by] IN
    /\ op[m.by] = "cancel"
    /\ \/ /\ Answer(m, Verdict(j), NoJob)
          /\ job' = IF Verdict(j) = "ok" THEN [job EXCEPT ![j] = "canceled"] ELSE job
       \/ Answer(m, "other", NoJob) /\ UNCHANGED job
    /\ UNCHANGED maker

LookupRpc(m) ==
    LET j == target[m.by] IN
    /\ op[m.by] \in {"state", "info"}
    /\ \/ Answer(m, IF op[m.by] = "state" /\ job[j] \in {"none", "purged"}
                    THEN "ENOENT" ELSE "ok", NoJob)
       \/ Answer(m, "other", NoJob)
    /\ UNCHANGED <<job, maker>>

Process(m) == broker /\ (SubmitRpc(m) \/ CancelRpc(m) \/ LookupRpc(m))

\* A job ends by itself or because it was canceled; Flux forgets it later.
JobStep(j) ==
    /\ broker
    /\ \/ job[j] \in {"active", "canceled"} /\ job' = [job EXCEPT ![j] = "inactive"]
       \/ job[j] = "inactive" /\ job' = [job EXCEPT ![j] = "purged"]
    /\ UNCHANGED <<httpVars, serverVars, broker, epoch, maker, wire, ends>>

\* RPCs that have not been processed are lost with the broker, and so may be
\* the answer to one that has: the route that waits for it gets an error.  An
\* instance may or may not keep its jobs.
BrokerStops(keeps) ==
    /\ broker
    /\ broker' = FALSE /\ wire' = {}
    /\ \/ stage = "rpc" /\ resp' = [err |-> "reset", job |-> NoJob]
       \/ (stage = "rpc" => resp # NoResp) /\ UNCHANGED resp
    /\ job' = [j \in Jobs |-> IF keeps \/ job[j] = "none" THEN job[j] ELSE "purged"]
    /\ UNCHANGED <<httpVars, up, queue, cur, stage, handle, out, epoch, maker, ends>>

BrokerStarts ==
    /\ ~broker /\ epoch < MaxEpochs
    /\ broker' = TRUE /\ epoch' = epoch + 1
    /\ UNCHANGED <<httpVars, serverVars, job, maker, wire, ends>>

-----------------------------------------------------------------------------
ServerStep == Accept \/ AnswerDirectly \/ OpenFlux \/ CallFlux \/ Return \/ Send
FluxStep == \E m \in wire : Process(m)
Environment ==
    \/ \E a \in Attempts, o \in Ops, j \in Jobs \cup {NoJob} : Request(a, o, j)
    \/ \E a \in Attempts : GiveUp(a)
    \/ CallRaises \/ ServerEnds \/ ServerStarts
    \/ \E j \in Jobs : JobStep(j)
    \/ \E keeps \in BOOLEAN : BrokerStops(keeps)
    \/ BrokerStarts

Next == ServerStep \/ FluxStep \/ Environment
Spec == Init /\ [][Next]_vars

\* The server runs, and systemd starts it.  FairSpec: and a running broker
\* answers its RPCs.
ServerSpec == Spec /\ WF_vars(ServerStep) /\ WF_vars(Activated /\ ServerStarts)
FairSpec == ServerSpec /\ WF_vars(FluxStep)

-----------------------------------------------------------------------------
(* Correctness.                                                             *)

\* Types; 201 is the one answer that names a job.
Answers ==
    [status : {201}, err : {"ok"}, job : Jobs]
      \cup [status : {0, 200, 202, 400, 403, 404, 409, 500, 503},
            err : Outcomes \cup {"none"}, job : {NoJob}]
States == {JobStates[i] : i \in 1 .. 5}
TypeOK ==
    /\ phase \in [Attempts -> {"new", "waiting", "answered", "lost"}]
    /\ op \in [Attempts -> Ops] /\ target \in [Attempts -> Jobs \cup {NoJob}]
    /\ ans \in [Attempts -> Answers] /\ out \in Answers
    /\ from \in [Attempts -> States]
    /\ since \in [Attempts -> 0 .. MaxEpochs]
    /\ up \in BOOLEAN /\ broker \in BOOLEAN
    /\ queue \in Seq(Attempts) /\ cur \in Attempts \cup {NoAttempt}
    /\ stage \in {"idle", "route", "rpc", "reply"}
    /\ epoch \in 1 .. MaxEpochs /\ handle \in 0 .. epoch
    /\ resp \in [err : Outcomes \cup {"none"}, job : Jobs \cup {NoJob}]
    /\ job \in [Jobs -> States]
    /\ maker \in [Jobs -> Attempts \cup {NoAttempt}]
    /\ wire \subseteq [by : Attempts, live : BOOLEAN]
    /\ ends \in 0 .. MaxEnds

\* What an answer says about the job was true at some moment between the
\* sending of the request and the answer, whatever happened to the job, the
\* server and the broker meanwhile: 404 that there was no such job, 409 that
\* it was inactive, 403 that it was someone else's, 202 that it is canceled.
TrueOf(status, j, f, t) ==
    CASE status = 200 -> f # "purged" /\ t # "none"
      [] status = 202 -> j \notin Foreign /\ Rank(f) <= 3 /\ Rank(t) >= 3
      [] status = 403 -> j \in Foreign /\ Rank(f) <= 3
      [] status = 404 -> f = "none" \/ t = "purged"
      [] status = 409 -> Rank(f) <= 4 /\ Rank(t) >= 4
      [] OTHER -> TRUE
AnswersTrue ==
    [][ \A a \in Attempts :
          phase[a] = "waiting" /\ phase'[a] = "answered" /\ op[a] \in JobOps
            => TrueOf(ans'[a].status, target[a], from[a], job[target[a]]) ]_vars

\* A submission creates at most one job, even if the process dies, the broker
\* restarts or the client leaves; and 201 names the very job it created.
OneJobPerSubmission ==
    /\ \A i, j \in Jobs : maker[i] = maker[j] /\ maker[i] # NoAttempt => i = j
    /\ \A a \in Attempts : ans[a].status = 201 => maker[ans[a].job] = a

\* A submission that was answered with an error of its own making (400, 404 or
\* 500) has created no job and never will: no RPC of it is under way.  Only a
\* 503, or no answer at all, leaves its client in doubt.
RejectedCreatesNothing ==
    \A a \in Attempts : ans[a].status \in {400, 403, 404, 409, 500} =>
        /\ \A j \in Jobs : maker[j] # a
        /\ \A m \in wire : m.by # a

\* Clients see the service of JobService: an effect in one step, not before the
\* request nor after any answer to it, not even a 503, although the RPC is on
\* its own way while the process, the broker or the client comes and goes.
Service == INSTANCE JobService
ImplementsJobService == Service!Spec

\* Every request is answered, or its connection reset by the end of the
\* process, whatever becomes of the broker and of the clients before it.
AllAnswered ==
    \A a \in Attempts : phase[a] = "waiting" ~> phase[a] # "waiting"

\* openapi.yaml on 503: the Flux broker is unreachable.  So it was at some
\* time during the request, if that is what the error is about.
UnavailableMeansUnreachable ==
    [][ \A a \in Attempts :
          phase[a] = "waiting" /\ ans'[a].err \in {"reset", "unreachable"}
            => ~broker \/ since[a] # epoch ]_vars

\* openapi.yaml on /health: always answerable if the server is up.
HealthAnswerable ==
    \A a \in Attempts :
        phase[a] = "waiting" /\ op[a] = "health" ~> phase[a] # "waiting"
=============================================================================
