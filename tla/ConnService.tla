----------------------------- MODULE ConnService ------------------------------
(***************************************************************************)
(* What flux-rest-server promises to each connection, whatever its serve    *)
(* loop, timers and signal handlers do: connections wait, at most one is    *)
(* served at a time, only those of the permitted user are, and each one     *)
(* ends answered, failed, or refused and then closed.  RestServer           *)
(* implements it, and so does each user's pair of units in SystemMode.      *)
(***************************************************************************)
EXTENDS Integers, FiniteSets

CONSTANTS
    Conns,
    Permitted,
    CheckPeer,      \* FALSE: everyone is served
    RefuseMax       \* refused connections held open at once

VARIABLES
    phase,          \* of each connection
    up,             \* the server runs
    durable         \* the queue outlives the server (socket activation)

vars == <<phase, up, durable>>

Phases == {"away", "waiting", "serving", "answered", "failed", "refused", "closed"}
Ended == {"away", "answered", "failed", "closed"}
In(p) == {c \in Conns : phase[c] = p}

Init ==
    /\ phase = [c \in Conns |-> "away"]
    /\ up \in BOOLEAN /\ durable \in BOOLEAN

Arrive(c) ==
    /\ up \/ durable
    /\ phase[c] \in Ended
    /\ phase' = [phase EXCEPT ![c] = "waiting"]
    /\ UNCHANGED <<up, durable>>

Serve(c) ==
    /\ up /\ phase[c] = "waiting"
    /\ In("serving") = {}
    /\ CheckPeer => c \in Permitted
    /\ phase' = [phase EXCEPT ![c] = "serving"]
    /\ UNCHANGED <<up, durable>>

Conclude(c) ==
    /\ up /\ phase[c] = "serving"
    /\ \E p \in {"answered", "failed"} : phase' = [phase EXCEPT ![c] = p]
    /\ UNCHANGED <<up, durable>>

\* Refuse c, and close some refused connections to make room for it.
TurnAway(c, S) ==
    /\ up /\ CheckPeer /\ phase[c] = "waiting"
    /\ Cardinality(In("refused") \ S) < RefuseMax
    /\ phase' = [d \in Conns |-> IF d = c THEN "refused"
                                 ELSE IF d \in S THEN "closed" ELSE phase[d]]
    /\ UNCHANGED <<up, durable>>

Close(S) ==
    /\ up /\ S # {}
    /\ phase' = [d \in Conns |-> IF d \in S THEN "closed" ELSE phase[d]]
    /\ UNCHANGED <<up, durable>>

\* The server goes down: what it held fails or closes, and so do waiting
\* connections, but of a durable queue only the one just taken from it.
GoDown(S) ==
    /\ up
    /\ IF durable THEN Cardinality(S) <= 1 ELSE S = In("waiting")
    /\ S # {} => In("serving") = {} \/ ~durable
    /\ up' = FALSE
    /\ phase' = [c \in Conns |->
                   IF c \in S \/ phase[c] = "serving" THEN "failed"
                   ELSE IF phase[c] = "refused" THEN "closed" ELSE phase[c]]
    /\ UNCHANGED durable

ComeUp ==
    /\ ~up /\ durable /\ In("waiting") # {}
    /\ up' = TRUE
    /\ UNCHANGED <<phase, durable>>

\* A client goes elsewhere.
Leave(c) ==
    /\ phase[c] \in Ended
    /\ phase' = [phase EXCEPT ![c] = "away"]
    /\ UNCHANGED <<up, durable>>

\* The queue is taken away from under the server, which keeps its own hold of
\* it if it runs, or it is put in place for a server that does not run yet.
Withdraw ==
    /\ durable /\ durable' = FALSE
    /\ phase' = [c \in Conns |-> IF ~up /\ phase[c] = "waiting" THEN "failed"
                                 ELSE phase[c]]
    /\ UNCHANGED up
Provide ==
    /\ ~durable /\ ~up
    /\ durable' = TRUE
    /\ UNCHANGED <<phase, up>>

Next ==
    \/ \E c \in Conns : Arrive(c) \/ Serve(c) \/ Conclude(c) \/ Leave(c)
    \/ \E S \in SUBSET In("refused") :
          Close(S) \/ \E c \in Conns : TurnAway(c, S)
    \/ \E S \in SUBSET In("waiting") : GoDown(S)
    \/ ComeUp \/ Withdraw \/ Provide

Spec == Init /\ [][Next]_vars

-----------------------------------------------------------------------------
(* What a client, or a user, may conclude.                                  *)

\* The phases, and what may be in them: a server that does not run holds no
\* connection but those of a durable queue.
TypeOK ==
    /\ phase \in [Conns -> Phases]
    /\ up \in BOOLEAN /\ durable \in BOOLEAN
    /\ ~up => In("serving") \cup In("refused") = {}
    /\ ~up /\ ~durable => In("waiting") = {}

\* No two connections are in the handler at once.
OneServed == \A c, d \in In("serving") : c = d

\* Nobody but the permitted user is served or answered: verify_request() comes
\* before the first byte of a request is read.
OnlyPermitted == CheckPeer => In("serving") \cup In("answered") \subseteq Permitted

\* Those who are turned away cannot make the server hold more than RefuseMax
\* of their connections open.
RefusalsHeld == Cardinality(In("refused")) <= RefuseMax

\* Of those that wait in a queue which stays, one at most fails at a time.
Fails(c) == phase[c] = "waiting" /\ phase'[c] = "failed"
KeepsQueue ==
    [][ durable /\ durable' => \A c, d \in Conns : Fails(c) /\ Fails(d) => c = d ]_vars

\* How a connection has ended is never revised: it is opened again first.
EndsOnce ==
    [][ \A c \in Conns : phase[c] \in Ended => phase'[c] \in {phase[c], "away", "waiting"} ]_vars
=============================================================================
