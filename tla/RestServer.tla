------------------------------ MODULE RestServer ------------------------------
(***************************************************************************)
(* The serve loop of flux-rest-server (src/src/cmd/flux-rest-server.py):    *)
(* _Server, the connection half of Handler, and the SIGTERM/SIGINT/SIGALRM  *)
(* handling that stops it.  One process, one thread: the pc names the       *)
(* bytecode region the main thread is in, and everything else (clients,     *)
(* signals, the clock, systemd) interleaves with it.                        *)
(*                                                                          *)
(* Time is counted in ticks by countdown timers.  Code runs in zero time    *)
(* except where it blocks: select(), recv(), sendall() and a route that is  *)
(* waiting on Flux, and between two rounds of the loop.                     *)
(***************************************************************************)
EXTENDS Lists, FiniteSets

CONSTANTS
    Conns,          \* the connections that clients open, and open again
    NoConn,         \* no connection (self.request before accept)
    Permitted,      \* those whose peer uid is allowed_peer_uid
    CheckPeer,      \* FALSE when allowed_peer_uid is None (TCP)
    Activated,      \* the listening socket belongs to systemd
    IntIgnored,     \* SIGINT was inherited as SIG_IGN
    IdleTimeout,    \* --idle-timeout in ticks; 0 when it is None
    RefuseLinger,   \* _REFUSE_LINGER in ticks
    RefuseMax,      \* _REFUSE_MAX
    StopGrace,      \* _STOP_GRACE in ticks
    IoTimeout,      \* Handler.timeout in ticks
    ReqChunks,      \* pieces a request arrives in
    MaxFaults       \* bound on signals, crashes and failed system calls

ASSUME ConnAssumption ==
    /\ NoConn \notin Conns
    /\ Permitted \subseteq Conns
    /\ IsFiniteSet(Conns)
ASSUME FlagAssumption ==
    /\ CheckPeer \in BOOLEAN
    /\ Activated \in BOOLEAN
    /\ IntIgnored \in BOOLEAN
ASSUME TimeAssumption ==
    /\ IdleTimeout \in Nat
    /\ RefuseLinger \in Nat \ {0}
    /\ StopGrace \in Nat \ {0}
    /\ IoTimeout \in Nat \ {0}
ASSUME BoundAssumption ==
    /\ RefuseMax \in Nat \ {0}
    /\ ReqChunks \in Nat \ {0}
    /\ MaxFaults \in Nat

VARIABLES
    pc,         \* where the main thread is
    cur,        \* the accepted connection being verified, refused or served
    backlog,    \* the listening socket's queue of connections
    conn,       \* what has become of each connection
    sent, gone, \* pieces a client has sent; clients that have hung up
    rcvd,       \* pieces of the current request that the handler has read
    refused,    \* _Server._refused, oldest first
    left,       \* max(0, deadline - now) of each entry of refused
    stopping,   \* _Server._stopping
    inRequest,  \* _Server._in_request
    idle,       \* _Server._idle
    selWait,    \* what is left of self.timeout in select()
    ioWait,     \* what is left of Handler.timeout in recv() or sendall()
    alarm,      \* what is left of the ITIMER_REAL; 0 is a pending SIGALRM
    pend,       \* signals flagged but not yet handled
    faults,     \* faults so far (bounded by MaxFaults)
    waited,     \* history: time in select() since the last connection
    stopTicks,  \* history: time since the stop, outside of routes
    elapsed,    \* history: time since the stop, up to StopGrace
    sigs        \* history: signals sent to this process

clientVars == <<sent, gone>>
timers     == <<left, selWait, ioWait, alarm>>
flags      == <<stopping, inRequest, idle>>
history    == <<waited, stopTicks, elapsed, sigs>>
vars == <<pc, cur, backlog, conn, clientVars, rcvd, refused, timers, flags,
          pend, faults, history>>

NoTimer == -1
Signals == {"TERM", "INT"}
MutInterruptible == Signals     \* forgets to look for SIG_IGN
\* Those that serve() installs a handler for: it honours an inherited SIG_IGN.
Caught == IF IntIgnored THEN {"TERM"} ELSE Signals

PCs == {"start", "loop", "select", "verify", "refuse", "process", "read",
        "route", "sendhead", "sendbody", "finish", "exit", "done"}
\* super().process_request(): the statements between the two assignments of
\* _in_request.
InHandler == {"read", "route", "sendhead", "sendbody", "finish"}

\* "served": both writes of _send() are done.  "expired": Handler.timeout cut
\* it off.  "cut" and "lost": the process left by KeyboardInterrupt while the
\* request was in the handler, or before it got there.
Over == {"new", "served", "hungup", "expired", "closed", "cut", "lost",
         "reset", "crashed"}
ConnStates == Over \cup {"queued", "open", "refused"}

Least(a, b) == IF a < b THEN a ELSE b

Init ==
    /\ pc = "start" /\ cur = NoConn /\ backlog = <<>>
    /\ conn = [c \in Conns |-> "new"]
    /\ sent = [c \in Conns |-> 0] /\ gone = {} /\ rcvd = 0
    /\ refused = <<>> /\ left = [c \in Conns |-> 0]
    /\ stopping = FALSE /\ inRequest = FALSE /\ idle = FALSE
    /\ selWait = NoTimer /\ ioWait = NoTimer /\ alarm = NoTimer
    /\ pend = {} /\ faults = 0
    /\ waited = 0 /\ stopTicks = 0 /\ elapsed = 0
    /\ sigs = [s \in Signals |-> 0]

-----------------------------------------------------------------------------
(* Clients.  A connection succeeds as soon as the kernel queues it.         *)

Connect(c) ==
    /\ pc # "done" \/ Activated
    /\ conn[c] \in Over
    /\ conn' = [conn EXCEPT ![c] = "queued"]
    /\ backlog' = Append(backlog, c)
    /\ sent' = [sent EXCEPT ![c] = 0]
    /\ gone' = gone \ {c}
    /\ UNCHANGED <<pc, cur, rcvd, refused, timers, flags, pend, faults, history>>

SendChunk(c) ==
    /\ conn[c] \in {"queued", "open"} /\ c \notin gone
    /\ sent[c] < ReqChunks
    /\ sent' = [sent EXCEPT ![c] = @ + 1]
    /\ UNCHANGED <<pc, cur, backlog, conn, gone, rcvd, refused, timers, flags,
                   pend, faults, history>>

\* close(), or shutdown(SHUT_WR): what it does not send it may still receive.
HangUp(c) ==
    /\ conn[c] \in {"queued", "open"} /\ c \notin gone
    /\ gone' = gone \cup {c}
    /\ UNCHANGED <<pc, cur, backlog, conn, sent, rcvd, refused, timers, flags,
                   pend, faults, history>>

-----------------------------------------------------------------------------
(* Signals.  The C-level handler sets a flag; the Python handler runs on    *)
(* the main thread between bytecodes, so before the server's next step      *)
(* unless a route is inside a C call, which may run on first.               *)

Calm == pend = {} /\ alarm # 0

\* What the end of the process does to a connection, `broken' being the fate
\* of the accepted one.  The listening socket outlives the process only if
\* systemd holds it.
MutClosesQueue(c, broken) ==    \* shuts the socket down for systemd as well
    CASE conn[c] = "open" -> broken
      [] conn[c] = "queued" -> "reset"
      [] conn[c] = "refused" -> "closed"
      [] OTHER -> conn[c]
Fate(c, broken) ==
    CASE conn[c] = "open" -> broken
      [] conn[c] = "queued" /\ ~Activated -> "reset"
      [] conn[c] = "refused" -> "closed"
      [] OTHER -> conn[c]

ProcessEnds(broken) ==
    /\ pc' = "done" /\ cur' = NoConn
    /\ conn' = [c \in Conns |-> Fate(c, broken)]
    /\ backlog' = IF Activated THEN backlog ELSE <<>>
    /\ refused' = <<>> /\ left' = [c \in Conns |-> 0]
    /\ selWait' = NoTimer /\ ioWait' = NoTimer /\ alarm' = NoTimer
    /\ inRequest' = FALSE /\ pend' = {}
    /\ UNCHANGED <<clientVars, rcvd, stopping, idle, history>>

Signal(s) ==
    /\ pc # "done" /\ faults < MaxFaults
    /\ pend' = IF s \in Caught THEN pend \cup {s} ELSE pend
    /\ faults' = faults + 1 /\ sigs' = [sigs EXCEPT ![s] = @ + 1]
    /\ UNCHANGED <<pc, cur, backlog, conn, clientVars, rcvd, refused, timers,
                   flags, waited, stopTicks, elapsed>>

\* KeyboardInterrupt unwinds to main() through the bare except of
\* _handle_request_noblock(), which shuts the connection down, and through
\* the finally clauses of process_request() and serve().
Raise ==
    /\ ProcessEnds(IF inRequest THEN "cut" ELSE "lost")
    /\ UNCHANGED faults

\* _stop(): before serve() installs it, the default disposition ends the
\* process just the same.
MutTruncates == TRUE            \* issue #27: raises in the handler as well
MustRaise == pc = "start" \/ stopping \/ ~inRequest

MutNoAlarm(rest) ==             \* does not bound the wait for the request
    IF MustRaise THEN Raise
    ELSE /\ stopping' = TRUE /\ pend' = rest
         /\ UNCHANGED <<pc, cur, backlog, conn, clientVars, rcvd, refused, timers,
                        inRequest, idle, faults, history>>
MutForgets(rest) ==             \* sets the alarm, but not _stopping
    IF MustRaise THEN Raise
    ELSE /\ alarm' = StopGrace /\ pend' = rest
         /\ UNCHANGED <<pc, cur, backlog, conn, clientVars, rcvd, refused, left,
                        selWait, ioWait, flags, faults, history>>
Stop(rest) ==
    IF MustRaise
    THEN Raise
    ELSE /\ stopping' = TRUE
         /\ alarm' = StopGrace
         /\ pend' = rest
         /\ UNCHANGED <<pc, cur, backlog, conn, clientVars, rcvd, refused, left,
                        selWait, ioWait, inRequest, idle, faults, history>>

Deliver(s) ==
    /\ pc # "done" /\ s \in pend
    /\ Stop(pend \ {s})

\* SIGALRM: the grace period is over.
DeliverAlarm ==
    /\ pc # "done" /\ alarm = 0
    /\ Stop(pend)

\* SIGKILL, or the out-of-memory killer.
Crash ==
    /\ pc # "done" /\ faults < MaxFaults
    /\ faults' = faults + 1
    /\ ProcessEnds("crashed")

-----------------------------------------------------------------------------
(* serve() and its loop.                                                    *)

\* signal.signal() of the three handlers.
Start ==
    /\ pc = "start" /\ Calm
    /\ pc' = "loop"
    /\ UNCHANGED <<cur, backlog, conn, clientVars, rcvd, refused, timers, flags,
                   pend, faults, history>>

\* _serve_timeout(): the idle timeout, capped by the oldest refusal's linger.
MutNoCap ==                    \* waits out the idle timeout
     IF IdleTimeout = 0 THEN NoTimer ELSE IdleTimeout
ServeTimeout ==
    IF refused = <<>>
    THEN IF IdleTimeout = 0 THEN NoTimer ELSE IdleTimeout
    ELSE IF IdleTimeout = 0 THEN left[Head(refused)]
         ELSE Least(IdleTimeout, left[Head(refused)])

EnterSelect ==
    /\ pc = "loop" /\ Calm
    /\ ~stopping /\ ~idle
    /\ pc' = "select"
    /\ selWait' = ServeTimeout
    /\ UNCHANGED <<cur, backlog, conn, clientVars, rcvd, refused, left, ioWait,
                   alarm, flags, pend, faults, history>>

LeaveLoop ==
    /\ pc = "loop" /\ Calm
    /\ stopping \/ idle
    /\ pc' = "exit"
    /\ UNCHANGED <<cur, backlog, conn, clientVars, rcvd, refused, timers, flags,
                   pend, faults, history>>

\* The finally clause of serve(), then the end of main().
Exit ==
    /\ pc = "exit" /\ Calm
    /\ ProcessEnds("lost")
    /\ UNCHANGED faults

\* _reap(): the list comprehension, after the first n entries, and all of it.
Unexpired[n \in 0 .. Len(refused)] ==
    IF n = 0 THEN <<>>
    ELSE IF left[refused[n]] > 0 THEN Append(Unexpired[n - 1], refused[n])
    ELSE Unexpired[n - 1]
Reaped == Unexpired[Len(refused)]
Expired(c) == conn[c] = "refused" /\ left[c] = 0
MutNoClose == conn              \* drops the entry, keeps the socket
AfterReap == [c \in Conns |-> IF Expired(c) THEN "closed" ELSE conn[c]]

\* select() reports the listening socket; get_request() reaps, then accepts.
GetRequest ==
    /\ pc = "select" /\ Calm
    /\ backlog # <<>>
    /\ pc' = "verify"
    /\ cur' = Head(backlog)
    /\ backlog' = Tail(backlog)
    /\ refused' = Reaped
    /\ conn' = [AfterReap EXCEPT ![Head(backlog)] = "open"]
    /\ selWait' = NoTimer /\ waited' = 0
    /\ UNCHANGED <<clientVars, rcvd, left, ioWait, alarm, flags, pend, faults,
                   stopTicks, elapsed, sigs>>

\* accept() fails: _handle_request_noblock() returns to the loop.
GetRequestFails ==
    /\ pc = "select" /\ Calm
    /\ backlog # <<>> /\ faults < MaxFaults
    /\ pc' = "loop"
    /\ refused' = Reaped
    /\ conn' = AfterReap
    /\ selWait' = NoTimer /\ waited' = 0
    /\ faults' = faults + 1
    /\ UNCHANGED <<cur, backlog, clientVars, rcvd, left, ioWait, alarm, flags,
                   pend, stopTicks, elapsed, sigs>>

\* handle_timeout(): a pending refusal is why the wait was short.
MutAlwaysIdle ==                \* takes a shortened wait for an idle one
    /\ pc = "select" /\ Calm /\ backlog = <<>> /\ selWait = 0
    /\ pc' = "loop" /\ selWait' = NoTimer /\ idle' = TRUE
    /\ UNCHANGED <<cur, backlog, conn, clientVars, rcvd, refused, left, ioWait, alarm,
                   stopping, inRequest, pend, faults, history>>
MutNoReap ==                    \* leaves reaping to the next connection
    /\ pc = "select" /\ Calm /\ backlog = <<>> /\ selWait = 0
    /\ pc' = "loop" /\ selWait' = NoTimer /\ idle' = (refused = <<>>)
    /\ UNCHANGED <<cur, backlog, conn, clientVars, rcvd, refused, left, ioWait, alarm,
                   stopping, inRequest, pend, faults, history>>
HandleTimeout ==
    /\ pc = "select" /\ Calm
    /\ backlog = <<>> /\ selWait = 0
    /\ pc' = "loop"
    /\ selWait' = NoTimer
    /\ IF refused = <<>>
       THEN idle' = TRUE /\ UNCHANGED <<refused, conn>>
       ELSE refused' = Reaped /\ conn' = AfterReap /\ UNCHANGED idle
    /\ UNCHANGED <<cur, backlog, clientVars, rcvd, left, ioWait, alarm, stopping,
                   inRequest, pend, faults, history>>

-----------------------------------------------------------------------------
(* verify_request() and _refuse().                                          *)

MutNoCheck ==                   \* takes any peer for the permitted user
    /\ pc = "verify" /\ Calm
    /\ pc' = "process"
    /\ UNCHANGED <<cur, backlog, conn, clientVars, rcvd, refused, timers, flags,
                   pend, faults, history>>
Verify ==
    /\ pc = "verify" /\ Calm
    /\ pc' = IF CheckPeer /\ cur \notin Permitted THEN "refuse" ELSE "process"
    /\ UNCHANGED <<cur, backlog, conn, clientVars, rcvd, refused, timers, flags,
                   pend, faults, history>>

\* getsockopt(SO_PEERCRED) fails.
VerifyFails ==
    /\ pc = "verify" /\ Calm
    /\ CheckPeer /\ faults < MaxFaults
    /\ pc' = "refuse"
    /\ faults' = faults + 1
    /\ UNCHANGED <<cur, backlog, conn, clientVars, rcvd, refused, timers, flags,
                   pend, history>>

\* The 403 has been written and the socket half closed.  The append, and the
\* pops that bound the list; shutdown_request() then finds it in the list.
Excess == Len(refused) + 1 - RefuseMax
MutUnbounded == Append(refused, cur)
MutNewestFirst == SubSeq(<<cur>> \o refused, 1, Least(Len(refused) + 1, RefuseMax))
Kept == IF Excess > 0
        THEN SubSeq(Append(refused, cur), Excess + 1, Len(refused) + 1)
        ELSE Append(refused, cur)
MutInTurn ==                    \* lingers once the entry before has been closed
    [c \in Conns |->
        IF c = cur
        THEN RefuseLinger + (IF refused = <<>> THEN 0 ELSE left[refused[Len(refused)]])
        ELSE IF c \in Elems(Kept) THEN left[c] ELSE 0]
Lingers ==
    [c \in Conns |-> IF c = cur THEN RefuseLinger
                     ELSE IF c \in Elems(Kept) THEN left[c] ELSE 0]
Refuse ==
    /\ pc = "refuse" /\ Calm
    /\ pc' = "loop" /\ cur' = NoConn
    /\ refused' = Kept
    /\ conn' = [c \in Conns |->
                  IF c \in Elems(Kept) THEN "refused"
                  ELSE IF conn[c] = "refused" THEN "closed" ELSE conn[c]]
    /\ left' = Lingers
    /\ UNCHANGED <<backlog, clientVars, rcvd, selWait, ioWait, alarm, flags, pend,
                   faults, history>>

-----------------------------------------------------------------------------
(* process_request() and the handler, one request per connection.           *)

MutNoIoTimeout ==               \* Handler.timeout is None
    /\ pc = "process" /\ Calm
    /\ pc' = "read" /\ inRequest' = TRUE
    /\ ioWait' = NoTimer /\ rcvd' = 0
    /\ UNCHANGED <<cur, backlog, conn, clientVars, refused, left, selWait, alarm,
                   stopping, idle, pend, faults, history>>
BeginRequest ==
    /\ pc = "process" /\ Calm
    /\ pc' = "read"
    /\ inRequest' = TRUE
    /\ ioWait' = IoTimeout /\ rcvd' = 0
    /\ UNCHANGED <<cur, backlog, conn, clientVars, refused, left, selWait, alarm,
                   stopping, idle, pend, faults, history>>

\* The connection is over as far as the handler goes; finish() and
\* shutdown_request() are left.
Conclude(fate) ==
    /\ pc' = "finish"
    /\ conn' = [conn EXCEPT ![cur] = fate]
    /\ ioWait' = NoTimer
    /\ UNCHANGED <<cur, backlog, clientVars, rcvd, refused, left, selWait, alarm,
                   flags, pend, faults, history>>

\* recv() returns: more to read, an answer that needs no route (400, 404), or
\* the route.  The timeout applies to each recv() afresh.
ReadChunk ==
    /\ pc = "read" /\ Calm
    /\ rcvd < sent[cur]
    /\ rcvd' = rcvd + 1
    /\ \/ rcvd' < ReqChunks /\ pc' = "read" /\ ioWait' = IoTimeout
       \/ pc' = "sendhead" /\ ioWait' = IoTimeout
       \/ rcvd' = ReqChunks /\ pc' = "route" /\ ioWait' = NoTimer
    /\ UNCHANGED <<cur, backlog, conn, clientVars, refused, left, selWait, alarm,
                   flags, pend, faults, history>>

\* A reset, or the end of the input.  The standard library takes that for the
\* end of the headers or of the body: what has arrived is routed, or answered
\* 400, for a client that may have closed only its own half.
ReadEof ==
    /\ pc = "read" /\ Calm
    /\ rcvd = sent[cur] /\ cur \in gone
    /\ \/ Conclude("hungup")
       \/ /\ rcvd > 0
          /\ \/ pc' = "route" /\ ioWait' = NoTimer
             \/ pc' = "sendhead" /\ ioWait' = IoTimeout
          /\ UNCHANGED <<cur, backlog, conn, clientVars, rcvd, refused, left, selWait,
                         alarm, flags, pend, faults, history>>

\* handle_one_request() catches the TimeoutError and closes the connection.
ReadTimeout ==
    /\ pc = "read" /\ Calm
    /\ rcvd = sent[cur] /\ cur \notin gone
    /\ ioWait = 0
    /\ Conclude("expired")

\* The route has its answer from Flux, whatever it is.
RouteReturn ==
    /\ pc = "route"
    /\ pc' = "sendhead"
    /\ ioWait' = IoTimeout
    /\ UNCHANGED <<cur, backlog, conn, clientVars, rcvd, refused, left, selWait,
                   alarm, flags, pend, faults, history>>

\* _send(): end_headers() flushes the header, then wfile.write() the body.
SendHead ==
    /\ pc = "sendhead" /\ Calm
    /\ pc' = "sendbody"
    /\ ioWait' = IoTimeout
    /\ UNCHANGED <<cur, backlog, conn, clientVars, rcvd, refused, left, selWait,
                   alarm, flags, pend, faults, history>>

SendBody ==
    /\ pc = "sendbody" /\ Calm
    /\ Conclude("served")

\* EPIPE, which _send() swallows.
SendBroken ==
    /\ pc \in {"sendhead", "sendbody"} /\ Calm
    /\ cur \in gone
    /\ Conclude("hungup")

SendTimeout ==
    /\ pc \in {"sendhead", "sendbody"} /\ Calm
    /\ ioWait = 0
    /\ Conclude("expired")

MutStaysInRequest ==            \* leaves _in_request set
    /\ pc = "finish" /\ Calm
    /\ pc' = "loop" /\ cur' = NoConn
    /\ UNCHANGED <<backlog, conn, clientVars, rcvd, refused, timers, flags, pend,
                   faults, history>>
EndRequest ==
    /\ pc = "finish" /\ Calm
    /\ pc' = "loop" /\ cur' = NoConn
    /\ inRequest' = FALSE
    /\ UNCHANGED <<backlog, conn, clientVars, rcvd, refused, timers, stopping, idle,
                   pend, faults, history>>

-----------------------------------------------------------------------------
(* The clock.  A blocking call whose wait is over returns before time goes  *)
(* on; a route takes as long as it takes; the time the code itself takes is *)
(* spent at the top of the loop.                                            *)

Blocked ==
    \/ pc = "loop" /\ Calm /\ ~stopping /\ ~idle
    \/ pc = "select" /\ Calm /\ backlog = <<>> /\ selWait # 0
    \/ pc = "read" /\ Calm /\ rcvd = sent[cur] /\ cur \notin gone /\ ioWait # 0
    \/ pc \in {"sendhead", "sendbody"} /\ Calm /\ ioWait # 0
    \/ pc = "route"

Running == selWait > 0 \/ ioWait > 0 \/ alarm > 0 \/ \E c \in Conns : left[c] > 0

\* Timers stop at zero.  The code makes no difference between a deadline that
\* is due and one that is past: _reap() compares with now, and _serve_timeout()
\* takes max(0.0, ...).
Down(t) == IF t > 0 THEN t - 1 ELSE t

Tick ==
    /\ Blocked /\ Running
    /\ selWait' = Down(selWait) /\ ioWait' = Down(ioWait) /\ alarm' = Down(alarm)
    /\ left' = [c \in Conns |-> Down(left[c])]
    /\ waited' = IF pc = "select" THEN waited + 1 ELSE waited
    /\ stopTicks' = IF stopping /\ pc # "route" THEN stopTicks + 1 ELSE stopTicks
    /\ elapsed' = IF stopping /\ elapsed < StopGrace THEN elapsed + 1 ELSE elapsed
    /\ UNCHANGED <<pc, cur, backlog, conn, clientVars, rcvd, refused, flags, pend,
                   faults, sigs>>

\* systemd: a connection waits on the socket of a service that is not running.
Activate ==
    /\ Activated /\ pc = "done" /\ backlog # <<>>
    /\ pc' = "start"
    /\ stopping' = FALSE /\ idle' = FALSE /\ rcvd' = 0
    /\ waited' = 0 /\ stopTicks' = 0 /\ elapsed' = 0
    /\ sigs' = [s \in Signals |-> 0]
    /\ UNCHANGED <<cur, backlog, conn, clientVars, refused, timers, inRequest, pend,
                   faults>>

-----------------------------------------------------------------------------
LoopStep == Start \/ EnterSelect \/ LeaveLoop \/ Exit \/ GetRequest
              \/ GetRequestFails \/ HandleTimeout
VerifyStep == Verify \/ VerifyFails \/ Refuse
HandlerStep == BeginRequest \/ ReadChunk \/ ReadEof \/ ReadTimeout \/ RouteReturn
                 \/ SendHead \/ SendBody \/ SendBroken \/ SendTimeout \/ EndRequest
ServerStep == LoopStep \/ VerifyStep \/ HandlerStep
SignalStep == (\E s \in pend : Deliver(s)) \/ DeliverAlarm
ClientStep == \E c \in Conns : Connect(c) \/ SendChunk(c) \/ HangUp(c)
FaultStep == (\E s \in Signals : Signal(s)) \/ Crash

Next == ServerStep \/ SignalStep \/ Tick \/ Activate \/ ClientStep \/ FaultStep

Spec == Init /\ [][Next]_vars

\* The process runs, its pending signals are handled (outside of a route,
\* whose C calls may hold them back), time passes (SF: arrivals without end
\* take time), Flux answers in the end, and systemd activates.  Nothing is
\* assumed of clients or of faults.
Fairness ==
    /\ WF_vars(ServerStep)
    /\ WF_vars(SignalStep /\ pc # "route")
    /\ SF_vars(Tick)
    /\ WF_vars(Activate)
FairSpec == Spec /\ Fairness

-----------------------------------------------------------------------------
(* The promise to each connection (ConnService) that this server keeps.     *)

AbsPhase(c) ==
    IF conn[c] = "new" THEN "away"
    ELSE IF conn[c] = "open" /\ inRequest THEN "serving"
    ELSE IF conn[c] \in {"queued", "open"} THEN "waiting"
    ELSE IF conn[c] = "served" THEN "answered"
    ELSE IF conn[c] \in {"refused", "closed"} THEN conn[c] ELSE "failed"

Service == INSTANCE ConnService WITH
    durable <- Activated,
    phase <- [c \in Conns |-> AbsPhase(c)],
    up <- pc # "done"

\* The serve loop implements the abstract service: one connection at a time in
\* the handler, none of a uid that is not permitted, no connection answered
\* after it failed, no more than RefuseMax refusals held, and a systemd queue
\* that loses at most the one connection already accepted when the server ends.
ImplementsService == Service!Spec

-----------------------------------------------------------------------------
(* Correctness.                                                             *)

\* Types of the variables of _Server, of the handler's blocking calls and of
\* the connections around them.
TypeOK ==
    /\ pc \in PCs
    /\ cur \in Conns \cup {NoConn}
    /\ backlog \in Seq(Conns)
    /\ conn \in [Conns -> ConnStates]
    /\ sent \in [Conns -> 0 .. ReqChunks]
    /\ gone \subseteq Conns
    /\ rcvd \in 0 .. ReqChunks
    /\ refused \in Seq(Conns)
    /\ left \in [Conns -> 0 .. RefuseLinger]
    /\ stopping \in BOOLEAN /\ inRequest \in BOOLEAN /\ idle \in BOOLEAN
    /\ selWait \in Nat \cup {NoTimer}
    /\ ioWait \in 0 .. IoTimeout \cup {NoTimer}
    /\ alarm \in 0 .. StopGrace \cup {NoTimer}
    /\ pend \subseteq Caught
    /\ faults \in 0 .. MaxFaults
    /\ waited \in Nat /\ stopTicks \in Nat
    /\ elapsed \in 0 .. StopGrace
    /\ sigs \in [Signals -> 0 .. MaxFaults]

\* Every refused connection is in _refused exactly once until it is closed, so
\* neither _reap(), the pop in _refuse() nor a failed accept leaks or loses one.
RefusedTracked ==
    /\ \A c \in Conns : conn[c] = "refused" <=> c \in Elems(refused)
    /\ \A i, j \in 1 .. Len(refused) : refused[i] = refused[j] => i = j

\* The head of _refused has the earliest deadline, which is what
\* _serve_timeout() relies on when it looks at _refused[0] alone.
RefusedInOrder ==
    \A i, j \in 1 .. Len(refused) : i <= j => left[refused[i]] <= left[refused[j]]

\* At most _REFUSE_MAX refused connections are held at once, whatever order
\* refusals, reaps, timeouts and failed accepts come in.
RefusalsBounded == Len(refused) <= RefuseMax

\* The server never sleeps through a deadline of a refused connection: no time
\* passes in select() while one is due to be closed.
NoOversleep ==
    [][ waited' > waited => \A c \in Conns : conn[c] = "refused" => left[c] > 0 ]_vars

\* The server goes idle only after a whole --idle-timeout in which no
\* connection was accepted, however often refusals shortened its waits.
IdleTruthful == idle => IdleTimeout > 0 /\ waited >= IdleTimeout

\* Refusals postpone the idle exit by no more than one linger: without a new
\* connection the server never waits longer than that.
IdlePrompt == IdleTimeout > 0 => waited <= IdleTimeout + RefuseLinger

\* issue #27: _stop() truncates a request in the handler only when the sender
\* insists with a second signal, or when the whole grace period has gone by.
CutOnlyIfInsisted ==
    [][ \A c \in Conns : conn[c] = "open" /\ conn'[c] = "cut"
            => sigs["TERM"] + sigs["INT"] >= 2 \/ elapsed >= StopGrace ]_vars

\* After the first signal the server lives for at most _STOP_GRACE, the time
\* inside routes (where no timer runs and C calls hold signals back) aside.
StopBounded == stopTicks <= StopGrace

\* It uses that time only for a request that is in the handler: between
\* requests, in select() above all, a signal stops it at once.
NoIdleGrace ==
    [][ stopTicks' > stopTicks => cur # NoConn /\ conn[cur] = "open" ]_vars

\* The process ends only because it was idle or because it got a signal that
\* it does not ignore: a server put in the background survives Ctrl-C.
EndsOnlyWhenAsked ==
    [][ pc # "done" /\ pc' = "done" /\ faults' = faults
            => idle \/ sigs["TERM"] > 0 \/ (~IntIgnored /\ sigs["INT"] > 0) ]_vars

\* What the comment on _STOP_GRACE says: a client that never sends a request
\* parks the handler in readline() indefinitely, so no read ends by a timeout.
ParkedIndefinitely == \A c \in Conns : conn[c] = "expired" => sent[c] > 0

\* What the comment in process_request() says: outside of its window a signal
\* costs nobody but a refused client, whose 403 is best effort anyway.
OnlyRefusalsInterrupted ==
    \A c \in Permitted : conn[c] = "lost" => sent[c] < ReqChunks

\* Every refused connection is closed in the end, by _reap() or by the exit,
\* even if no other client ever connects.
RefusalsClose ==
    \A c \in Conns : conn[c] = "refused" ~> conn[c] # "refused"

\* A signal stops the process in the end, provided that Flux answers.
SignalStops == pend # {} ~> pc = "done"

\* A connection in the queue is taken from it, or reset by the exit: no client
\* holds up the single thread for ever.  Under socket activation it is
\* accepted even if the process exits or crashes first.
NoStarvation ==
    \A c \in Conns : conn[c] = "queued" ~> conn[c] # "queued"

\* With an idle timeout, a server that sees no more connections exits: the last
\* one, too, that systemd has started after whatever exits and crashes.
IdleExits ==
    IdleTimeout > 0 /\ <>[](backlog = <<>>) => []<>(pc = "done")
=============================================================================
