------------------------------ MODULE SystemMode ------------------------------
(***************************************************************************)
(* System mode: nginx, the _ensure helper (flux-rest-server-ensure.py), the *)
(* units that systemd keeps for each user, and the per-user servers.  Who   *)
(* asks the helper (nginx's auth_request, or an administrator by hand) gets *)
(* the .socket of a user started and, when it was told 200, connects to it; *)
(* that connection has systemd start the user's service.                    *)
(*                                                                          *)
(* nginx and systemd are external: they are what the helper, the units and  *)
(* the tests of system mode expect of them.  A user's service is reduced to *)
(* what RestServer shows it to be, one connection at a time until it is     *)
(* idle, by way of the abstract ConnService.                                *)
(***************************************************************************)
EXTENDS Lists, FiniteSets

CONSTANTS
    Reqs,           \* requests that may be in progress; each is made again
    NoReq,
    Users,          \* plain user names
    Accounts,       \* those that are accounts of this host
    Malformed,      \* any name that _USERNAME_PATTERN rejects
    NoName,         \* no X-Remote-User
    Web, Root,      \* the web-server account, and another that gets past 0660
    MaxFaults       \* bound on faults

ASSUME SystemAssumption ==
    /\ NoReq \notin Reqs
    /\ Accounts \subseteq Users
    /\ Malformed \notin Users /\ NoName \notin Users /\ Malformed # NoName
    /\ Web # Root
    /\ MaxFaults \in Nat

VARIABLES
    phase,      \* of each request, as its client sees it
    name, peer, \* its X-Remote-User, and the uid it connects as
    gone,       \* requests whose client has hung up on the server
    helper,     \* what the helper is doing
    asks,       \* the queue of ensure.sock
    cur,        \* the connection in the helper
    ctl,        \* the systemctl that the helper waits for
    job,        \* systemd's start job for the .socket of each user
    sock,       \* users whose .socket is active
    svc,        \* users whose service runs
    conns,      \* the queue of each user's socket
    at,         \* the connection in each user's server
    faults,     \* faults so far
    asked,      \* history: users the web-server account has asked for
    bereft      \* history: requests whose socket was taken away after its start

reqVars  == <<phase, name, peer, gone>>
helpVars == <<helper, asks, cur, ctl>>
unitVars == <<job, sock, svc>>
connVars == <<conns, at>>
vars == <<reqVars, helpVars, unitVars, connVars, faults, asked, bereft>>

Names == Users \cup {Malformed, NoName}

\* A request is "open" at the helper, then "sent" to it.  "denied": any end of
\* that but 200, whether 401, 403, 500, 504 or a closed connection.  After 200,
\* it is "proxied", unless there is nothing to connect to ("nosock"), and the
\* user's server answers it ("ok") or its connection is closed ("reset").
Ended == {"denied", "nosock", "reset", "ok"}
AtHelper == {"open", "sent"}

Init ==
    /\ phase = [r \in Reqs |-> "denied"]
    /\ name = [r \in Reqs |-> NoName] /\ peer = [r \in Reqs |-> Web]
    /\ gone = {}
    /\ helper = "down" /\ asks = <<>> /\ cur = NoReq /\ ctl = "none"
    /\ job = [u \in Users |-> "none"] /\ sock = {} /\ svc = {}
    /\ conns = [u \in Users |-> <<>>] /\ at = [u \in Users |-> NoReq]
    /\ faults = 0 /\ asked = {} /\ bereft = {}

Fault == faults < MaxFaults /\ faults' = faults + 1

\* The connections of S are over, and who asked for what is forgotten, except
\* of those that had reached a user's server.
Over(S, p) ==
    /\ phase' = [r \in Reqs |-> IF r \in S THEN p ELSE phase[r]]
    /\ gone' = gone \ S
    /\ name' = [r \in Reqs |->
                  IF r \in S /\ p \in {"denied", "nosock"} THEN NoName ELSE name[r]]
    /\ peer' = [r \in Reqs |-> IF r \in S THEN Web ELSE peer[r]]

-----------------------------------------------------------------------------
(* nginx, or an administrator by hand.                                      *)

\* nginx sends names that it has authenticated and matched against its
\* pattern, as the web-server account.
Open(r, n, p) ==
    /\ phase[r] \in Ended
    /\ p = Root => n \in Users
    /\ phase' = [phase EXCEPT ![r] = "open"]
    /\ name' = [name EXCEPT ![r] = n] /\ peer' = [peer EXCEPT ![r] = p]
    /\ asks' = Append(asks, r)
    /\ asked' = IF p = Web THEN asked \cup ({n} \cap Users) ELSE asked
    /\ UNCHANGED <<gone, helper, cur, ctl, unitVars, connVars, faults, bereft>>

Send(r) ==
    /\ phase[r] = "open" /\ r \notin gone
    /\ phase' = [phase EXCEPT ![r] = "sent"]
    /\ UNCHANGED <<name, peer, gone, helpVars, unitVars, connVars, faults, asked, bereft>>

Listening(u) == u \in sock \/ u \in svc

\* proxy_pass after a 200: the path is there to connect to for as long as
\* systemd or the user's server has the socket.
Connect(r) ==
    LET u == name[r] IN
    /\ phase[r] = "200"
    /\ IF Listening(u)
       THEN /\ phase' = [phase EXCEPT ![r] = "proxied"]
            /\ conns' = [conns EXCEPT ![u] = Append(@, r)]
            /\ UNCHANGED <<name, peer, gone>>
       ELSE Over({r}, "nosock") /\ UNCHANGED conns
    /\ bereft' = bereft \ {r}
    /\ UNCHANGED <<helpVars, unitVars, at, faults, asked>>

\* A timeout of nginx, or its own client has left.
HangUp(r) ==
    /\ phase[r] \in AtHelper \cup {"proxied"} /\ r \notin gone
    /\ Fault
    /\ gone' = gone \cup {r}
    /\ UNCHANGED <<phase, name, peer, helpVars, unitVars, connVars, asked, bereft>>

-----------------------------------------------------------------------------
(* The helper: serve_forever(), one connection at a time.                   *)

\* systemd: a connection waits on ensure.sock.  main() takes over the socket.
HelperStarts ==
    /\ helper = "down" /\ asks # <<>>
    /\ helper' = "idle"
    /\ UNCHANGED <<reqVars, asks, cur, ctl, unitVars, connVars, faults, asked, bereft>>

MutAnyPeer ==                   \* does not look at the uid
    /\ helper = "idle" /\ asks # <<>>
    /\ helper' = "read" /\ cur' = Head(asks) /\ asks' = Tail(asks)
    /\ UNCHANGED <<reqVars, ctl, unitVars, connVars, faults, asked, bereft>>
HelperAccepts ==
    /\ helper = "idle" /\ asks # <<>>
    /\ peer[Head(asks)] = Web
    /\ helper' = "read" /\ cur' = Head(asks) /\ asks' = Tail(asks)
    /\ UNCHANGED <<reqVars, ctl, unitVars, connVars, faults, asked, bereft>>

\* verify_request() is FALSE, for another uid or because SO_PEERCRED fails.
HelperTurnsAway ==
    /\ helper = "idle" /\ asks # <<>>
    /\ \/ peer[Head(asks)] # Web /\ UNCHANGED faults
       \/ Fault
    /\ asks' = Tail(asks)
    /\ Over({Head(asks)}, "denied")
    /\ UNCHANGED <<helper, cur, ctl, unitVars, connVars, asked, bereft>>

\* The answer to cur; nobody reads it if nginx has hung up, in which case the
\* write raises, and so does the send_error() in the except clause.
AnswerWith(status) ==
    /\ Over({cur}, IF cur \in gone THEN "denied" ELSE status)
    /\ helper' = "idle" /\ cur' = NoReq /\ ctl' = "none"
    /\ bereft' = bereft \ gone
    /\ UNCHANGED <<asks, unitVars, connVars, asked>>
Answer(status) == AnswerWith(status) /\ UNCHANGED faults

\* The end of the connection, before a request has come.
HelperReadsEof ==
    /\ helper = "read" /\ phase[cur] = "open" /\ cur \in gone
    /\ Answer("denied")

\* 401 without a name, 403 for one that is not plain.
HelperRefuses ==
    /\ helper = "read" /\ phase[cur] = "sent"
    /\ name[cur] \in {NoName, Malformed}
    /\ Answer("denied")

\* subprocess.run(): systemd takes the job, or finds one that it is still busy
\* with; or systemctl fails at once (polkit, the bus).
MutNoPattern ==                 \* starts a unit whatever the name
    /\ helper = "read" /\ phase[cur] = "sent"
    /\ helper' = "wait" /\ ctl' = "waiting"
    /\ UNCHANGED <<reqVars, asks, cur, unitVars, connVars, faults, asked, bereft>>
HelperRuns ==
    /\ helper = "read" /\ phase[cur] = "sent" /\ name[cur] \in Users
    /\ helper' = "wait"
    /\ \/ /\ ctl' = "waiting"
          /\ job' = [job EXCEPT ![name[cur]] = IF @ = "none" THEN "queued" ELSE @]
          /\ UNCHANGED faults
       \/ ctl' = "failed" /\ Fault /\ UNCHANGED job
    /\ UNCHANGED <<reqVars, asks, cur, sock, svc, connVars, asked, bereft>>

MutAnyCode ==                   \* does not look at the return code
    /\ helper = "wait" /\ ctl \in {"done", "failed"}
    /\ Answer("200")
HelperAnswers ==
    /\ helper = "wait" /\ ctl \in {"done", "failed"}
    /\ Answer(IF ctl = "done" THEN "200" ELSE "denied")

\* TimeoutExpired: run() kills systemctl, not the job.  It takes a systemd
\* that is slow, or stuck with the job.
MutNoTimeout == FALSE
HelperTimesOut ==
    /\ helper = "wait" /\ ctl = "waiting"
    /\ \/ job[name[cur]] = "hung" /\ UNCHANGED faults
       \/ Fault
    /\ AnswerWith("denied")

\* It crashes or is stopped; the queue of ensure.sock stays with systemd.
HelperEnds ==
    /\ helper # "down"
    /\ Fault
    /\ helper' = "down" /\ ctl' = "none" /\ cur' = NoReq
    /\ Over({cur}, "denied")
    /\ bereft' = bereft \ {cur}
    /\ UNCHANGED <<asks, unitVars, connVars, asked>>

-----------------------------------------------------------------------------
(* systemd: the start job of a .socket, and its service.                    *)

Heard(u, result) ==
    ctl' = IF ctl = "waiting" /\ name[cur] = u THEN result ELSE ctl

\* The job is done: the socket is there, was there already, or cannot be had,
\* above all because the service that it belongs to still runs.
JobRuns(u) ==
    /\ job[u] = "queued"
    /\ job' = [job EXCEPT ![u] = "none"]
    /\ \/ /\ u \in sock \/ u \notin svc
          /\ sock' = sock \cup {u} /\ Heard(u, "done")
          /\ UNCHANGED faults
       \/ /\ u \notin sock
          /\ IF u \in svc THEN UNCHANGED faults ELSE Fault
          /\ Heard(u, "failed") /\ UNCHANGED sock
    /\ UNCHANGED <<reqVars, helper, asks, cur, svc, connVars, asked, bereft>>

JobHangs(u) ==
    /\ job[u] = "queued"
    /\ Fault
    /\ job' = [job EXCEPT ![u] = "hung"]
    /\ UNCHANGED <<reqVars, helpVars, sock, svc, connVars, asked, bereft>>

\* The .socket of u goes down, and with it the connections that no server has
\* taken over: a server that runs keeps its own hold of the socket.
SocketGoes(u) ==
    /\ sock' = sock \ {u}
    /\ IF u \in svc THEN UNCHANGED <<reqVars, conns>>
       ELSE Over(Elems(conns[u]), "reset") /\ conns' = [conns EXCEPT ![u] = <<>>]
    /\ bereft' = bereft \cup {r \in Reqs : /\ name[r] = u
                                           /\ \/ phase[r] = "200"
                                              \/ r = cur /\ ctl = "done"}
    /\ UNCHANGED <<helper, asks, cur, svc, at, asked>>

\* systemctl stop of the .socket, which cancels a start job for it.
SocketStops(u) ==
    /\ u \in sock \/ job[u] # "none"
    /\ Fault
    /\ SocketGoes(u)
    /\ job' = [job EXCEPT ![u] = "none"]
    /\ Heard(u, "failed")

\* A connection waits on the .socket of a service that is down.
Waiting(u) == u \in sock /\ u \notin svc /\ conns[u] # <<>>
Activate(u) ==
    /\ Waiting(u) /\ u \in Accounts
    /\ svc' = svc \cup {u}
    /\ UNCHANGED <<reqVars, helpVars, job, sock, connVars, faults, asked, bereft>>

\* No such account: the service fails until systemd gives up, which fails the
\* .socket as well.
GivesUp(u) ==
    /\ Waiting(u) /\ u \notin Accounts
    /\ SocketGoes(u)
    /\ UNCHANGED <<ctl, job, faults>>

-----------------------------------------------------------------------------
(* The user's server (RestServer).                                          *)

Serve(u) ==
    /\ u \in svc /\ at[u] = NoReq /\ conns[u] # <<>>
    /\ at' = [at EXCEPT ![u] = Head(conns[u])]
    /\ conns' = [conns EXCEPT ![u] = Tail(@)]
    /\ UNCHANGED <<reqVars, helpVars, unitVars, faults, asked, bereft>>

Respond(u) ==
    /\ at[u] # NoReq
    /\ Over({at[u]}, IF at[u] \in gone THEN "reset" ELSE "ok")
    /\ at' = [at EXCEPT ![u] = NoReq]
    /\ UNCHANGED <<helpVars, unitVars, conns, faults, asked, bereft>>

\* --idle-timeout.  A connection that comes just as it exits fares as if it had
\* been stopped: see ServiceEnds.
MutNeverIdle(u) == FALSE
IdleExit(u) ==
    /\ u \in svc /\ at[u] = NoReq /\ conns[u] = <<>>
    /\ svc' = svc \ {u}
    /\ UNCHANGED <<reqVars, helpVars, job, sock, connVars, faults, asked, bereft>>

\* It crashes, or is stopped.  The connections that wait outlive it if its
\* .socket is active.
MutTakesQueue(u) ==             \* closes the socket for good, activated or not
    /\ u \in svc
    /\ Fault
    /\ svc' = svc \ {u}
    /\ at' = [at EXCEPT ![u] = NoReq]
    /\ Over({at[u]} \cup Elems(conns[u]), "reset")
    /\ conns' = [conns EXCEPT ![u] = <<>>]
    /\ UNCHANGED <<helpVars, job, sock, asked, bereft>>
ServiceEnds(u) ==
    /\ u \in svc
    /\ Fault
    /\ svc' = svc \ {u}
    /\ at' = [at EXCEPT ![u] = NoReq]
    /\ LET kept == u \in sock IN
       /\ Over({at[u]} \cup (IF kept THEN {} ELSE Elems(conns[u])), "reset")
       /\ conns' = [conns EXCEPT ![u] = IF kept THEN @ ELSE <<>>]
    /\ UNCHANGED <<helpVars, job, sock, asked, bereft>>

-----------------------------------------------------------------------------
HelperStep ==
    \/ HelperStarts \/ HelperAccepts \/ HelperTurnsAway \/ HelperReadsEof
    \/ HelperRefuses \/ HelperRuns \/ HelperAnswers \/ HelperTimesOut
NginxStep(r) == Send(r) \/ Connect(r)
UnitStep(u) == JobRuns(u) \/ Activate(u) \/ GivesUp(u)
ServerStep(u) == Serve(u) \/ Respond(u)

Next ==
    \/ HelperStep
    \/ \E r \in Reqs : NginxStep(r) \/ HangUp(r)
    \/ \E r \in Reqs, n \in Names, p \in {Web, Root} : Open(r, n, p)
    \/ \E u \in Users : \/ UnitStep(u) \/ ServerStep(u) \/ IdleExit(u)
                        \/ JobHangs(u) \/ SocketStops(u) \/ ServiceEnds(u)
    \/ HelperEnds

Spec == Init /\ [][Next]_vars

\* The helper and the servers run, nginx goes on with what it has begun (a
\* client of it that has connected sends its request), and systemd with its
\* jobs, but for one that hangs.  A server exits that stays idle: see IdleExits
\* of RestServer.  Nothing is assumed of faults and new requests.
Fairness ==
    /\ WF_vars(HelperStep)
    /\ \A r \in Reqs : WF_vars(NginxStep(r))
    /\ \A u \in Users :
          WF_vars(UnitStep(u)) /\ WF_vars(ServerStep(u)) /\ WF_vars(IdleExit(u))
FairSpec == Spec /\ Fairness

-----------------------------------------------------------------------------
(* The promise of each user's pair of units (ConnService).                  *)

UserPhase(u, r) ==
    IF name[r] # u THEN "away"
    ELSE IF phase[r] = "proxied" THEN IF at[u] = r THEN "serving" ELSE "waiting"
    ELSE IF phase[r] = "ok" THEN "answered"
    ELSE IF phase[r] = "reset" THEN "failed" ELSE "away"

Service(u) == INSTANCE ConnService WITH
    Conns <- Reqs, Permitted <- Reqs, CheckPeer <- TRUE, RefuseMax <- 1,
    phase <- [r \in Reqs |-> UserPhase(u, r)],
    up <- u \in svc,
    durable <- u \in sock

\* The socket and service of each user are a service as RestServer implements
\* it, however its units are started and stopped: one connection at a time,
\* none answered after it failed, a queue that outlives the server while the
\* .socket is active, and no second socket while a server still has the first.
\* (This is the conjunction of Service(u)!Spec over the users.)
UsersServed ==
    /\ \A u \in Users : Service(u)!Init
    /\ [][ \A u \in Users : Service(u)!Next \/ UNCHANGED Service(u)!vars ]_vars

-----------------------------------------------------------------------------
(* Correctness.                                                             *)

\* Types, and which requests may be where: systemctl is run for plain names
\* only, and what waits for an answer is on exactly one connection.
TypeOK ==
    /\ phase \in [Reqs -> Ended \cup AtHelper \cup {"200", "proxied"}]
    /\ name \in [Reqs -> Names] /\ peer \in [Reqs -> {Web, Root}]
    /\ gone \subseteq Reqs
    /\ helper \in {"down", "idle", "read", "wait"}
    /\ asks \in Seq(Reqs) /\ cur \in Reqs \cup {NoReq}
    /\ ctl \in {"none", "waiting", "done", "failed"}
    /\ job \in [Users -> {"none", "queued", "hung"}]
    /\ sock \subseteq Users /\ svc \subseteq Accounts
    /\ conns \in [Users -> Seq(Reqs)] /\ at \in [Users -> Reqs \cup {NoReq}]
    /\ faults \in 0 .. MaxFaults /\ asked \subseteq Users /\ bereft \subseteq Reqs
    /\ cur = NoReq <=> helper \in {"down", "idle"}
    /\ ctl # "none" <=> helper = "wait"
    /\ helper = "wait" => name[cur] \in Users
    /\ \A r \in Reqs :
          /\ phase[r] \in AtHelper <=> r \in Elems(asks) \cup {cur}
          /\ phase[r] = "proxied" <=>
                \E u \in Users : r \in Elems(conns[u]) \cup {at[u]}

\* No .socket or service is up, or on its way up, but of a user that the
\* web-server account has asked for: not for another uid that can reach
\* ensure.sock, and not for someone else than the one asked for.
StartedOnDemand ==
    sock \cup svc \cup {u \in Users : job[u] # "none"} \subseteq asked

\* Who was told 200 finds something to connect to, unless the socket was taken
\* away in the meantime: the helper says so only when the job is done.
ClearedFindsSocket ==
    [][ \A r \in Reqs : phase[r] = "200" /\ phase'[r] = "nosock" => r \in bereft ]_vars

\* Every request comes to an end, whatever systemd does with the start job and
\* whoever waits ahead of it: one user's stuck unit does not stop the others.
EveryoneAnswered ==
    \A r \in Reqs : phase[r] \notin Ended ~> phase[r] \in Ended

\* systemd refuses to start a .socket whose service still runs (t2000), so one
\* that was stopped under a running server stays down, with a 500 for each
\* request.  That ends by itself: refused, nobody reaches the server any more,
\* so it becomes idle and exits.
Orphaned(u) == u \in svc /\ u \notin sock
OrphansExit == \A u \in Users : Orphaned(u) ~> ~Orphaned(u)

\* A user who keeps asking is served again and again, whatever has failed
\* before: timeouts, crashes and stops leave nothing behind that keeps a start
\* from working, except for a job that hangs in systemd.
Asking(u) == \E r \in Reqs : name[r] = u /\ peer[r] = Web /\ phase[r] \in AtHelper
IsServed(u) == at[u] # NoReq /\ phase'[at[u]] = "ok"
Heals ==
    \A u \in Accounts :
        []<>Asking(u) => []<><<IsServed(u)>>_vars \/ <>[](job[u] = "hung")
=============================================================================
