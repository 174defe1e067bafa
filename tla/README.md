# A TLA+ model of flux-rest-server

`flux-rest-server` is a small HTTP front end for Flux: one single-threaded
process per user, which accepts connections on a unix socket (its own or one
that systemd holds for it) or on a TCP port, checks the uid of the peer, and
turns each request into calls of the Flux Python bindings. In system mode nginx
has a helper start the socket of each user on demand. This directory models the
serve loop, the routes, the start of a server, and system mode, checks the models
with TLC and proves what matters most with TLAPS. Line numbers below are those
of `src/src/cmd/flux-rest-server.py` unless another file is named.

## The system

| component | state | operations | where |
|---|---|---|---|
| Serve loop, `_Server` | `_idle`, `_stopping`, `_in_request`, `_refused`, `timeout`, the listening socket's queue, `ITIMER_REAL` | `serve`, `handle_request` (stdlib), `get_request`, `verify_request`, `_refuse`, `_reap`, `shutdown_request`, `handle_timeout`, `process_request`, `_stop` | 428-600 |
| Connection half of `Handler` | the accepted connection, its 30 s socket timeout, how far the request has been read and the answer written | `recv` loop (stdlib), `_send` | 222-237, 343-354 |
| Routes | `_handle`, the cached connection to the broker; jobs and RPCs on the Flux side | `do_GET`, `do_POST`, `do_DELETE`, `_flux`, `_root`, `_health`, `_jobs_submit`, `_jobs_cancel`, `_jobs_state` | 37-341 |
| Socket creation | the socket file: whose it is, its mode | `server_on_unix_socket`, errors in `main` | 603-664, 760-775 |
| `main` | allowed uid, idle timeout, kind of socket | argument parsing, choice and family of the socket, whom to allow | 625-648, 675-795 |
| systemd units | the `.socket` of a user, its start job and queue; the `.service` | start, stop, activation on a connection | `systemd/*.in` |
| Ensure helper | the one connection it serves, the `systemctl` it waits for, its queue | uid check, name check, `systemctl start` with a time limit | `src/libexec/flux-rest-server-ensure.py` |
| nginx, polkit | configuration | `auth_request`, then `proxy_pass` | `nginx/`, `polkit/` |
| jwt-auth | a key cache (of its library) | token check | `src/libexec/jwt-auth.py` |

Interactions: nginx asks the helper to start the user's `.socket`, then
connects to it; systemd starts the server when a connection waits; `serve()`
accepts, has `verify_request()` decide between `_refuse()` and
`process_request()`, and the handler calls a route, which waits for Flux. POSIX
signals (SIGTERM, SIGINT, SIGALRM) interrupt the main thread between any two
bytecodes and share `_stopping` and `_in_request` with the loop.

What is hard here, and what makes each part correct:

- **Shutdown.** `_stop()` must raise when the thread is in `select()` (or it
  would never wake up) and must not when a response is being written (issue
  #27); the wait this causes is bounded by an alarm, which races the end of the
  request and a second signal. Correct: nothing in the handler is truncated
  before a second signal or the end of the grace period, nothing but a request in
  the handler uses that period, and the process does end.
- **Deferred closes.** A refused client is closed one second later. Nobody else
  may ever connect, so the wait in `select()` is shortened for it; a shortened
  wait must not look like an idle one. Correct: every refused socket is in the
  list once and closed, the list is bounded and in the order of its deadlines,
  and the idle exit is neither early nor postponed by more than a linger.
- **One thread.** A client that sends nothing holds up everybody, as does a
  route that waits for Flux. Correct: every connection is taken from the queue,
  and under activation a process that ends takes at most the one connection it
  had accepted with it.
- **Errors of Flux.** `OSError` is "no broker", "no such job" and "not yours";
  an answer may be lost after the job has been created. Correct: what an answer
  says about a job was true during the request, a submission creates at most one
  job, and one that was turned down created none.
- **Several servers on one path.** `unlink`, `bind`, `chmod` and `listen` go by
  the path. Correct: nobody can connect to a socket that is not private yet.
- **Whom a server is for.** The mode of the socket, its family and `--allow-user`
  decide together. Correct: a server on a unix socket serves that user and nobody else.
- **Check, then use, across processes.** The helper says 200 and nginx connects later; a
  `systemctl` that is killed leaves its job behind; a `.socket` stopped under a
  running server cannot be started again. Correct: a 200 was true when it was
  given, one user's stuck unit does not stop the others, and everything that went
  wrong is put right by the next requests.

PROJECT.json lists every hazard at its line with the properties that cover it.

## Modules

| module | models | checked by | proofs |
|---|---|---|---|
| `RestServer` | `_Server`, the connection half of `Handler`, signals, time, activation | `stop`, `refuse`, `live`, `parked`, `handover` | `RestServerProofs` |
| `ConnService` | the abstract service that `RestServer` and, for each user, `SystemMode` implement | as a property of `stop`, `live`, `system` | implemented: `RestServerProofs`, `SystemModeProofs`; what it implies: `ConnServiceProofs` |
| `JobsApi` | routes, `_flux()`, Flux and its jobs | `jobs`, `answered`, `stale`, `health` | `JobsApiProofs` |
| `JobService` | the abstract service that `JobsApi` implements | as a property of `jobs` | implemented: `JobsApiProofs`; what it implies: `JobServiceProofs` |
| `SocketStartup` | `main()` and `server_on_unix_socket()` of several servers | `startup`, `takeover` | `SocketStartupProofs` |
| `SystemMode` | nginx's two requests, the ensure helper, the units and server of each user | `system` | `SystemModeProofs` |
| `Lists` | the elements of the code's lists and queues | with `RestServer` and `SystemMode` | `ListLemmas`, which the proofs of those two and of `JobsApi` share |
| `MCRestServer`, `MCJobsApi`, `MCSocketStartup`, `MCSystemMode` | model values and symmetry of the instances | | |

Operators named `Mut...` are small bugs, each placed before the definition it
can stand in for; the specifications do not use them. With the replacement
PROJECT.json names, TLC finds the property violated, which shows that the
property depends on the code it is about.

### RestServer

`pc` names the region of bytecode the main thread is in:

| `pc` | code |
|---|---|
| `start` | before `serve()` has installed its handlers (506) |
| `loop`, `select` | the test of the loop (520), and `select()` in `handle_request()` |
| `verify`, `refuse`, `process` | after `accept()`: `verify_request()`, `_refuse()`, and up to `_in_request = True` (483) |
| `read`, `route`, `sendhead`, `sendbody`, `finish` | the window in which `_stop()` does not raise (483-487): reading, the route, the two writes of `_send()`, the end of `process_request()` |
| `exit`, `done` | after the loop; no process |

The variables `stopping`, `inRequest`, `idle` and `refused` are the attributes of
`_Server`. A deadline is modelled by the time `left` until it, which is
`max(0, deadline - now)`: the code asks of a deadline no more than that (498) and whether it
has come (561, 563), so one that is overdue because a request took long is one that is due.
`left`, `selWait`, `ioWait` and `alarm` count down together in `Tick`; time only passes where the
code blocks and at the top of the loop, and a blocking call whose time is over
returns before more time passes. So the model says what the timers of the code
guarantee when computation takes no time.

Signals are flagged by `Signal` and handled by `Deliver` before the thread's next
step (`Calm`), except that a C call inside a route may run on first
(`RouteReturn` is not `Calm`). The raise of `_stop()` unwinds to the end of the
process in one step (`ProcessEnds`), through the `finally` clauses of
`process_request()` and `serve()`; what becomes of each connection is `Fate`. The
states `served`, `hungup`, `expired`, `cut`, `lost`, `reset`, `crashed` and
`closed` tell how a connection came to its end.

`Reaped` is the list comprehension of `_reap()` (563). The end of a client's input
(`ReadEof`) does not end its request: the standard library takes it for the end of the headers,
and a body that it cuts short is answered 400 (282-286), as a client that has closed
only its own half may still see. A reset ends it.

`ConnService` says what a client may rely on: connections wait, at most one is
served at a time and only of a permitted user, each one is answered, fails, or is
refused and then closed; at most `RefuseMax` refused ones are held; when the
server goes down a systemd queue loses at most the connection just accepted.
`ImplementsService` is that specification under the mapping `AbsPhase`. Whether the
queue is durable is a constant of a `RestServer` and changes in `SystemMode`, where a
`.socket` can be stopped under its server (`Withdraw`) and started again when that
server is gone (`Provide`). Its second part states what follows for a client: `OneServed`,
`OnlyPermitted`, `RefusalsHeld`, `KeepsQueue` and `EndsOnce`.

### JobsApi

An `Attempt` is one HTTP request; a retry is another attempt, so that a client
that repeats a submission after a lost answer is part of every behaviour. Requests
queue for the single thread (`Accept`); `stage` follows one through `_flux()`
(`OpenFlux`, which a broker that is up may turn down, too), the call into the bindings
(`CallFlux`), its return (`Return`) and `_send()` (`Send`). `Status` is the mapping from the outcome of a call to the
status, with one operator per route and `Uncaught` for the `except` clauses that
`do_GET`, `do_POST` and `do_DELETE` put around it. `handle` is the epoch of the
broker that `_handle` was opened in, so a stale handle is one of an earlier epoch.

Flux is external: the broker processes an RPC atomically, it or its answer may be
lost when the broker stops, a connection to a broker that has stopped never works
again, and a restarted instance has either all of its jobs or none. An RPC of a
process that has ended is still processed. Exceptions other than `OSError` come before the RPC
is sent (`CallRaises`): of what comes after it, an `f58plain` that fails for the id that
`submit()` has just returned (141) or a `to_dict()` (210) are left out, and what is said of a
500 rests on that. `Activated` tells whether the queue of the server is systemd's, and
so outlives the process (`ServerEnds`), whose next start a connection then brings about. Job states only go forward (`none`,
`active`, `canceled`, `inactive`, `purged`), which is why `AnswersTrue` can say
"true at some moment of the request" with the states at its two ends.

`JobService` has no server process, handle, RPC or broker: a request creates its job or
cancels its target in one step between being sent and being answered, and the answer is
one that `openapi.yaml` lists for the route (`Listed`) or the 500 of an unforeseen exception,
which it does not list (`Possible`), and fits what has happened (`Agrees`): what it says of
the job was true at some moment since the request was sent (`TrueOf`, with `from`, the state of
the job then).
`ImplementsJobService` says that `JobsApi` is such a service, with the variables of the
same names. Because no effect may follow an answer, it also says of a 503 that its RPC
has been processed or is lost: only a client that gets no answer at all is left with a
job that may yet be created. What a client may conclude from its answers is stated in the
same module: `AtMostOneJob`, `AnswersHold`, `AnswersFinal` and `EffectsAsked`.

### SocketStartup

`Start` is `main()` up to the choice of the socket, for each combination of an inherited
socket, `--port` and `--allow-user`; `Reject` are its exits before that. `Adopt` wraps
the descriptor that systemd has passed, `Family` being `_listen_socket()`, `BindPort` is
`server_on_address()`, and `Up` sets `allowed_peer_uid` and serves. Each system call of
`server_on_unix_socket()` is an action. `path` is the file: who bound it and whether it has
been through `chmod`, which goes by the name and may hit the socket of another server. The
mode stops everyone but the owner and `Root`, whom only `SO_PEERCRED` turns away
(`t/t1001-security.t:46-48`). A server that ends leaves its file. All `path` servers mean the same path, and all `port`
servers the same port: others do not meet.

### SystemMode

A request is opened and sent to the helper, and, told 200, connected to the socket of its
user (`Open`, `Send`, `Connect`). The helper serves one connection at a time: `helper`
is `read` in `do_GET()` before `subprocess.run()` and `wait` in it, with `ctl` what
`systemctl` has come back with. `job` is the start job of each `.socket`, which outlives a
`systemctl` that is killed; `sock` and `svc` are the units that are active; `conns` and
`at` are the queue and the one connection of each server. What the helper answers other
than 200 (401, 403, 500, 504, a closed connection) is one phase, `denied`: nginx makes an
error of all of them.

nginx and systemd are external. Of systemd the model takes what the code and the tests
rely on: starting an active `.socket` does nothing; one whose service still runs is refused
(`t/t2000-system-activation.t:52`); the queue of a `.socket` outlives the service, and a
server keeps its socket when the `.socket` is stopped; a service that cannot be started, for
want of the account, makes the `.socket` fail. A user's server is the abstract one of
`ConnService`, with its idle exit: `RestServer` shows that the loop implements it, and
`UsersServed` that each user's units, as the helper and systemd handle them, do.

## Runs

| run | instance | shows |
|---|---|---|
| `stop` | a permitted and a refused client, requests of 2 pieces, grace 2, I/O timeout 2, idle timeout 3, 2 faults | shutdown: `CutOnlyIfInsisted`, `StopBounded`, `NoIdleGrace`; refinement |
| `refuse` | a permitted and 3 refused clients for 2 places, linger 2, idle timeout 3, SIGINT ignored, 1 fault | deferred closes and idle timeout, `EndsOnlyWhenAsked` |
| `live` | activation, 2 clients, all timers 1 except the idle timeout 2, 2 faults, fairness | `NoStarvation` across exits and crashes, `IdleExits` (of the last server, too), `RefusalsClose`, `SignalStops`, refinement with a durable queue |
| `jobs` | 2 requests, 2 own jobs and a foreign one, 2 epochs of the broker, 1 end of the process | `AnswersTrue`, `OneJobPerSubmission`, `RejectedCreatesNothing`, refinement of `JobService` |
| `answered` | 2 requests, 1 job, the same faults, an activated socket, fairness | `AllAnswered` |
| `startup` | 4 servers, their user, root and another, every command line | `OwnerOnly`, `ServesWanted`, `OneIsServing` |
| `system` | 2 requests, a user with an account and one without, 2 faults, fairness | `StartedOnDemand`, `ClearedFindsSocket`, `UsersServed` (refinement), `EveryoneAnswered`, `OrphansExit`, `Heals` |
| `parked`, `handover`, `stale`, `health`, `takeover` | | the code disagrees with a statement of the repository, see below |

Bounds. Connections open again and again, so two of them give histories of any
length; three refused ones against `RefuseMax = 2` fill the list, evict from it and
reap it in part. The timers are as small as keeps them apart: a linger shorter than
the idle timeout (as in the code, 1 s and minutes), a grace of 2 so that it can be
partly used. `MaxFaults = 2` lets a second signal insist, or a crash follow one.
Two requests are what it takes for one to be stale, orphaned or waiting when the
other acts; two epochs and one end of the process give each failure once, at every
step. Connections and jobs are interchangeable, hence the symmetry, which is used
in runs without liveness only. The runs are of a unix socket, whose peers are checked;
for TCP (`CheckPeer` FALSE, a server with fewer steps) and for a server without an idle
timeout there are the proofs: `NeverOversleeps` and `RefusedTracked` are what
`RefusalsClose` needs of it. Deadlock is not checked in `RestServer` and `JobsApi`: a
server that has ended, or a finite set of requests that are all over, rightly
stops; `startup` does check it. In `system`, where requests are made again for ever,
`EveryoneAnswered` says more than the absence of deadlock. Two requests there are one in
the helper or the server and one behind it; two users are one whose unit is stuck or
fails and one who must not notice; two faults are, for instance, a `.socket` stopped
under its server and a `systemctl` that is too slow for what follows. A request that is
over is forgotten (`Over`), which keeps the instance small.

Fairness. `WF(ServerStep)`: the process is scheduled, and a route returns once
Flux has answered. `WF(SignalStep)` outside of routes: CPython runs pending handlers between
bytecodes. `SF(Tick)`: time passes even if clients connect and hang up all the
time; weak fairness would let them stop the clock by always keeping the thread
busy, though code takes time. `WF(Activate)`: systemd activates a service whose
socket has a connection. `JobsApi` has `WF(ServerStep)` and, except in `health`,
`WF(FluxStep)`: a broker that runs answers; if it is activated, systemd starts it when a
connection waits. Nothing is assumed of clients, faults, or
restarts of the broker. `SystemMode` has weak fairness of the helper, of each server and its
idle exit, of systemd with each user's units, and of nginx with each request it has
begun. The last is an assumption the helper needs: it has no timeout on its connection,
so a client that sends nothing and does not hang up either would hold up everybody.
A start job that hangs (`JobHangs`) is not assumed to end.

### Where the code and its documentation disagree

- `parked`: the comments at 389-391 and in `t/t1006-shutdown.t:98` say that
  `Handler.timeout` is None; it is 30, so silent clients are cut off.
- `handover`: `_stop()` raises "only when no request is in flight" (464) and
  outside of its window a signal is said to cost a 403 at most (480-482); it
  also drops a permitted client's complete request if it comes between `accept()`
  and `process_request()`.
- `stale`: after a restart of the broker the cached handle answers every request
  with 503, which the contract describes as "The Flux broker is unreachable."
  (`spec/v1/openapi.yaml:167`).
- `health`: "always answerable if the server is up" (`spec/v1/openapi.yaml:46`) does not
  hold while a route waits for a broker that does not answer.
- Without a run: `openapi.yaml` "should describe what exists" (7-8) and lists no 500, while
  the code answers every exception that is neither foreseen nor an `OSError` with it (257-262,
  299-304, 334-340). `Possible` has the 500, so that `AnswersHold` and `ImplementsJobService`
  say "listed, or 500"; with `Listed` in its place the run `jobs` finds
  `ImplementsJobService` violated by such an answer.
- `takeover`: "Remove stale socket if it exists" (654) removes one that is not stale, too.

## Proofs

Each safety property and each refinement that a passing run checks is also a theorem,
for every value of the constants that the assumptions of its module allow. The
properties are not inductive by themselves;
each module proves an inductive invariant `IInv` (one lemma for the initial state and
one for each kind of step) and gets its theorems from it.
TLC has checked each `IInv` on a small instance. The refinements carry more over: what
`ConnServiceProofs` and `JobServiceProofs` prove of the abstract services, with no process,
timer or RPC in the way, holds of the code that implements them.

### RestServerProofs

Assumed: timeouts are whole ticks, positive where the code's are (only the idle timeout
can be absent), `RefuseMax` and `ReqChunks` are positive, connections are finitely many
and `NoConn` is none of them. `IInv` has four parts:

- `Inv1`: `TypeOK`, and `ThreadInv`, which ties `cur` and `inRequest` to `pc`. Without
  it `_stop()` could raise anywhere.
- `StopInv`: while stopping, the time since the signal and the time left on the alarm
  add up to `StopGrace`, the thread is in the handler or on its way out, and each
  handled or pending signal has been sent. From it follow `StopBounded`,
  `NoIdleGrace` and `CutOnlyIfInsisted`.
- `ConnInv`: the accepted connection, the queue and `_refused` are disjoint and
  agree with the states of the connections; the list is free of duplicates, ordered
  and bounded. `LeastElement`, `SuffixElems`, `ReapCuts`, `ReapList` and `KeptProps`
  say what reaping and evicting do to the list. From it follow `RefusedTracked`, `RefusedInOrder`
  and `RefusalsBounded`.
- `WaitInv`: in `select()` without refusals the time waited and the rest of the timeout
  span the idle timeout; with refusals the wait ends before the first deadline. From it
  follow `IdleTruthful`, `IdlePrompt` and `NoOversleep`.

`EndsOnlyWhenAsked` needs `ExitInv` besides: the loop is left for a reason.

What `_reap()` leaves is a recursive function on the lengths of prefixes (`Unexpired`, the list
comprehension). `UnexpiredSteps` says that this function exists and what it adds at each
length. Because the deadlines are in order the result is a suffix of the list (`Cut`, a
definition of the proofs): `ReapCuts` shows that it is empty up to the last expired entry and
keeps each entry after it. The induction is by least counterexample (`CountUp` in
`ListLemmas`), since the library's induction theorems take an operator as a parameter.

`ServiceImplemented` says that the serve loop is a `ConnService` under `AbsPhase`. Its
lemmas follow the steps: those that change no phase (`UnseenService`: reading, signals,
the clock), one connection that moves on (`OneService`, `ConnectService`, `BeginService`,
`ConcludeService`), the deferred closes (`ReapService`), a refusal that makes room for
itself by closing older ones (`RefuseService`; `KeptRoom` counts who is left), and the end
of the process, which decides about all connections at once (`EndService`). That only
permitted users are served needs `PeerInv`: who is on its way to the handler has passed
`verify_request()`. `ConnInv` is needed because the service counts refused connections and
the code counts entries of a list.

`Client` is the same instance of `ConnService` with the theorems about it (`ClientService`
shows that it is the same). Two of them are restated about the serve loop:
`OnlyPermittedServed`, nobody but the permitted user is in the handler or has an answer, and
`QueueKept`, of the connections whose request has not been read, the end of an activated
process takes one at most.

### ConnServiceProofs

For finitely many connections where they are counted, and any number otherwise. `IInv` is
`TypeOK`, which also says that a server that is down holds no connection but those of a
durable queue, with `OneServed` and `OnlyPermitted`: an answered connection is
permitted because the one that was served is. `RefusalsHeld` is inductive by itself, as
only `TurnAway` adds to what is counted and it makes room first. `KeepsQueue` and `EndsOnce` are
about single steps; the set that `GoDown` takes from a durable queue has one element at most
(`AtMostOne`).

### JobsApiProofs

For any number of requests, jobs, foreign jobs, broker restarts and ends of the process,
activated or not.
`IInv` says where each request is and what can still come of it:

- `PlaceInv`: a request is new, in the queue, in the handler or over, and has made no job
  before its RPC; `WireInv`: an RPC on the wire has had no effect yet, and belongs to the
  request in the handler or to one whose process has ended. Together they exclude that an
  orphaned RPC and a later request are mistaken for each other.
- `MakerInv`: a submission makes one job at most; `RankInv`: jobs only go forward from the
  state they had when the request was sent.
- `RespInv`, `OutInv`, `AnsInv`: an outcome *fits* its request (`Fits`) on each stage of its
  way, as response, as status about to be sent, and as the client's answer. The truth of a
  status about a job is stated here for the moment of the RPC, from which
  `AnswersTrue` follows at both ends of the request because of `RankInv`.

`OneJobPerSubmission`, `RejectedCreatesNothing` and `AnswersTrue` follow.
`JobServiceImplemented` needs for each answer that its status is possible (`StatusPossible`) and
true of the job (`OutcomeTrue`), and maps each step of the routes and of Flux to a step of `JobService`
or to none: the broker's processing of an RPC is the effect, `Send` is the answer, the end
of the process is the loss of the request in the handler, and of all that wait unless
systemd keeps them, and what the handle, the
queue and the wire do is invisible. `RoutesAnswersHold`, `RoutesAnswersFinal` and
`RoutesEffectsAsked` are what the routes inherit from the next module, through `Client` as
above.

### JobServiceProofs

For any number of requests and jobs; `NoAttempt` must be none of the requests. `IInv` is
`TypeOK`, `AtMostOneJob`, `AnswersHold` and `Unborn`: a job that does not exist is nobody's, or a
submission could take one from another and make a 201 false after the fact.
`AnswersHold` says that each answer is one that `openapi.yaml` lists, or 500, and that what it
says never becomes false, be it that there is no such job (404). It needs `TypeOK` because
that is about the job in the path (`TargetKnown`), and that jobs only move on (`MovesOn`,
`TrueOfKept`).
`AnswersFinal` says that no job is created for a request that has been answered, and
`EffectsAsked` that jobs are created and canceled only for a request that asks for it and has
no answer yet, and canceled only if they are the user's own.

### SocketStartupProofs

For any number of servers and users. `OwnerOnly` follows from `PastChmod`: once
a server is past `chmod`, its socket is either private or no longer at the path,
where it never returns. `ServesWanted` follows from `Settled`, which
says what `main()` has decided by the time that a server starts and that the system calls
leave alone. `OneIsServing` needs `Race`: as long as no server has stopped, a file at the path
belongs to one that is still on its way to serving or serves, and if there is no file, some
server has its `unlink()` or its `bind()` ahead of it, since only a `bind()` that
succeeded makes another fail.

### SystemModeProofs

For any requests, users and accounts. `IInv` is `Types` with

- `HelperInv` and `ServerInv`: each request that waits is on exactly one connection, to the
  helper or to the server of its own user, and only a server or a `.socket` holds one. This
  is what makes the types of `TypeOK` inductive.
- `DemandInv`: what is active or being started has been asked for, and every request that the
  helper may come to serve is of a user who has been asked for or not of nginx's account.
  `StartedOnDemand` follows.
- `ClearedInv`: a `systemctl` that has come back with success leaves an active `.socket`, as
  long as nothing takes it away. It holds from the moment that `subprocess.run()` returns and not
  only from the 200 on, which `ClearedFindsSocket` needs to be inductive.

`UsersServedCorrect` is the refinement of `ConnService` for each user: a step of one user's units
is a step of that user's service and invisible to those of the others (`Unseen`), a
`.socket` that goes or comes is `Withdraw` and `Provide`, and what the helper does is invisible
to all (`HelperUnseen`).

### Model-checked only

- Liveness: `NoStarvation`, `IdleExits`, `RefusalsClose`, `SignalStops`, `AllAnswered`,
  `EveryoneAnswered`, `OrphansExit` and `Heals`. They rest on fairness and ENABLED,
  which the prover does not handle.

`SystemModeProofs` does not restate the theorems of `ConnServiceProofs` for each user: the
prover (1.4.5) quotes the definitions of an instance with a parameter, `Service(u)`, but not its
theorems.

## What is not modelled

The contents of requests and answers beyond what decides the status; logging and the texts
of errors; TLS, authentication and the polkit rule, which appear as names that nginx has
and as a `systemctl` that may fail; packaging. `service_actions()` is dead code under
`serve()`. `src/libexec/jwt-auth.py` is a stateless check of one header by a library,
which keeps the only state, its key cache; nothing in the repository installs it or refers to it.
`scripts/openapi-check.py` and `t/` are tools and tests without a behaviour of the running
system; they were read for what the code is meant to do. The helper's `SO_PEERCRED`
failure and its answers to methods other than GET are denials like any other.

## Plan

Done, in this order: `RestServer` with `ConnService` and its proofs; `JobsApi`;
`SocketStartup` with its proofs; `SystemMode`; `JobService`; `main()`; the proofs of
`JobsApi` and `SystemMode`; the three refinements as theorems.
Then the shared lemmas about lists, and the theorems about the two abstract
services with what they mean for the code.

Left: the liveness properties, if a prover that handles ENABLED becomes available.
