--------------------------- MODULE SystemModeProofs ---------------------------
(***************************************************************************)
(* Theorems about SystemMode, for any number of requests, users and faults. *)
(***************************************************************************)
EXTENDS SystemMode, ListLemmas, FiniteSetTheorems, TLAPS

USE SystemAssumption

-----------------------------------------------------------------------------
(* The inductive invariant.                                                 *)

Types ==
    /\ phase \in [Reqs -> Ended \cup AtHelper \cup {"200", "proxied"}]
    /\ name \in [Reqs -> Names] /\ peer \in [Reqs -> {Web, Root}]
    /\ gone \subseteq Reqs
    /\ helper \in {"down", "idle", "read", "wait"}
    /\ asks \in Seq(Reqs) /\ cur \in Reqs \cup {NoReq}
    /\ ctl \in {"none", "waiting", "done", "failed"}
    /\ job \in [Users -> {"none", "queued", "hung"}]
    /\ sock \subseteq Users /\ svc \subseteq Accounts
    /\ conns \in [Users -> Seq(Reqs)] /\ at \in [Users -> Reqs \cup {NoReq}]
    /\ faults \in 0 .. MaxFaults /\ asked \subseteq Users /\ bereft \subseteq Reqs

\* The helper has one connection at a time, of the web-server account, and what
\* it has not accepted waits once.
HelperInv ==
    /\ cur = NoReq <=> helper \in {"down", "idle"}
    /\ ctl # "none" <=> helper = "wait"
    /\ helper = "wait" => name[cur] \in Users
    /\ cur # NoReq => peer[cur] = Web
    /\ Distinct(asks) /\ cur \notin Elems(asks)
    /\ \A r \in Reqs : phase[r] \in AtHelper <=> r \in Elems(asks) \cup {cur}
    /\ \A r \in gone : phase[r] \in AtHelper \cup {"proxied"}

\* A request is on one connection to one server, that of the user it is for,
\* and only a running server or its .socket holds one.
ServerInv ==
    /\ \A r \in Reqs : phase[r] = "200" => name[r] \in Users
    /\ \A r \in Reqs : phase[r] = "proxied" =>
          name[r] \in Users /\ r \in Elems(conns[name[r]]) \cup {at[name[r]]}
    /\ \A u \in Users :
          /\ \A r \in Elems(conns[u]) : phase[r] = "proxied" /\ name[r] = u
          /\ at[u] # NoReq => phase[at[u]] = "proxied" /\ name[at[u]] = u /\ u \in svc
          /\ Distinct(conns[u]) /\ at[u] \notin Elems(conns[u])
          /\ conns[u] # <<>> => Listening(u)

\* Nothing is started but what the web-server account has asked for.
DemandInv ==
    /\ sock \subseteq asked /\ svc \subseteq asked
    /\ \A u \in Users : job[u] # "none" => u \in asked
    /\ \A r \in Reqs : phase[r] \in AtHelper /\ peer[r] = Web /\ name[r] \in Users
                         => name[r] \in asked

\* Who has been, or is about to be told 200 has a .socket to connect to, unless
\* that was taken away since; and only of those is it recorded that it was.
Cleared(r) == phase[r] = "200" \/ (r = cur /\ ctl = "done")
ClearedInv ==
    /\ \A r \in Reqs : Cleared(r) /\ r \notin bereft => name[r] \in sock
    /\ \A r \in bereft : Cleared(r)

IInv == Types /\ HelperInv /\ ServerInv /\ DemandInv /\ ClearedInv

-----------------------------------------------------------------------------
(* Facts that the proofs of the steps share.                                *)

Phases == {"denied", "nosock", "reset", "ok", "open", "sent", "200", "proxied"}

\* Who waits in the queues is a request.
LEMMA QueueTypes ==
    ASSUME Types
    PROVE  /\ Elems(asks) \subseteq Reqs /\ asks \in Seq(Reqs)
           /\ \A u \in Users : conns[u] \in Seq(Reqs) /\ Elems(conns[u]) \subseteq Reqs
           /\ Phases = Ended \cup AtHelper \cup {"200", "proxied"}
<1>1. asks \in Seq(Reqs) /\ \A u \in Users : conns[u] \in Seq(Reqs)
  BY DEF Types
<1>2. \A s \in Seq(Reqs) : Elems(s) \subseteq Reqs
  BY ElementOfSeq DEF Elems
<1> QED
  BY <1>1, <1>2 DEF Phases, Ended, AtHelper

\* What becomes of the requests whose connections are over.
LEMMA OverFields ==
    ASSUME Types, NEW S, NEW p, p \in Phases, Over(S, p)
    PROVE  /\ \A r \in Reqs : phase'[r] = IF r \in S THEN p ELSE phase[r]
           /\ \A r \in Reqs : peer'[r] = IF r \in S THEN Web ELSE peer[r]
           /\ \A r \in Reqs : name'[r] = IF r \in S /\ p \in {"denied", "nosock"}
                                         THEN NoName ELSE name[r]
           /\ gone' = gone \ S
           /\ phase' \in [Reqs -> Ended \cup AtHelper \cup {"200", "proxied"}]
           /\ name' \in [Reqs -> Names] /\ peer' \in [Reqs -> {Web, Root}]
           /\ gone' \subseteq Reqs
<1>1. /\ \A r \in Reqs : phase'[r] = IF r \in S THEN p ELSE phase[r]
      /\ \A r \in Reqs : peer'[r] = IF r \in S THEN Web ELSE peer[r]
      /\ \A r \in Reqs : name'[r] = IF r \in S /\ p \in {"denied", "nosock"}
                                    THEN NoName ELSE name[r]
      /\ gone' = gone \ S
  BY DEF Over
<1>2. phase' \in [Reqs -> Ended \cup AtHelper \cup {"200", "proxied"}]
  BY QueueTypes DEF Over, Types
<1>3. name' \in [Reqs -> Names] /\ peer' \in [Reqs -> {Web, Root}]
  BY DEF Over, Types, Names
<1> QED
  BY <1>1, <1>2, <1>3 DEF Types

LEMMA FaultType ==
    ASSUME Types, Fault \/ UNCHANGED faults
    PROVE  faults' \in 0 .. MaxFaults
  BY DEF Types, Fault

LEMMA InitInv == Init => IInv
<1> SUFFICES ASSUME Init PROVE IInv
  OBVIOUS
<1>1. /\ <<>> \in Seq(Reqs) /\ Elems(<<>>) = {} /\ Distinct(<<>>)
  BY EmptySeq DEF Elems, Distinct
<1>2. Types
  BY <1>1 DEF Init, Types, Ended, Names
<1>3. HelperInv
  BY <1>1 DEF Init, HelperInv, AtHelper
<1>4. ServerInv /\ DemandInv /\ ClearedInv
  BY <1>1 DEF Init, ServerInv, DemandInv, ClearedInv, Cleared, AtHelper
<1> QED
  BY <1>2, <1>3, <1>4 DEF IInv

-----------------------------------------------------------------------------
(* The steps of nginx.                                                      *)

LEMMA OpenInv ==
    ASSUME IInv, NEW r \in Reqs, NEW n \in Names, NEW p \in {Web, Root}, Open(r, n, p)
    PROVE  IInv'
<1> USE DEF unitVars, connVars
<1>1. /\ phase[r] \notin AtHelper /\ phase[r] # "proxied" /\ phase[r] # "200"
      /\ r \notin Elems(asks) /\ r # cur /\ r \notin gone
  BY DEF Open, Ended, AtHelper, IInv, HelperInv
<1>2. /\ asks' \in Seq(Reqs) /\ Distinct(asks') /\ Elems(asks') = Elems(asks) \cup {r}
  BY <1>1, AppendDistinct DEF Open, IInv, Types, HelperInv
<1>3. /\ phase'[r] = "open" /\ name'[r] = n /\ peer'[r] = p
      /\ \A q \in Reqs \ {r} : phase'[q] = phase[q] /\ name'[q] = name[q] /\ peer'[q] = peer[q]
      /\ phase' \in [Reqs -> Ended \cup AtHelper \cup {"200", "proxied"}]
      /\ name' \in [Reqs -> Names] /\ peer' \in [Reqs -> {Web, Root}]
  BY DEF Open, IInv, Types, AtHelper
<1>4. Types'
  BY <1>2, <1>3 DEF Open, IInv, Types
<1>5. HelperInv'
  BY <1>1, <1>2, <1>3 DEF Open, IInv, HelperInv, Types, AtHelper
<1>6. ServerInv'
  BY <1>1, <1>3, QueueTypes DEF Open, IInv, ServerInv, Types, Listening
<1>7. DemandInv'
  BY <1>3 DEF Open, IInv, DemandInv
<1>8. ClearedInv'
  BY <1>1, <1>3 DEF Open, IInv, ClearedInv, Cleared, Types
<1> QED
  BY <1>4, <1>5, <1>6, <1>7, <1>8 DEF IInv

LEMMA SendInv ==
    ASSUME IInv, NEW r \in Reqs, Send(r)
    PROVE  IInv'
<1> USE DEF helpVars, unitVars, connVars
<1>1. /\ phase[r] = "open" /\ phase'[r] = "sent"
      /\ \A q \in Reqs \ {r} : phase'[q] = phase[q]
      /\ phase' \in [Reqs -> Ended \cup AtHelper \cup {"200", "proxied"}]
  BY DEF Send, IInv, Types, AtHelper
<1>2. Types'
  BY <1>1 DEF Send, IInv, Types
<1>3. HelperInv'
  BY <1>1 DEF Send, IInv, HelperInv, AtHelper, Types
<1>4. ServerInv'
  BY <1>1, QueueTypes DEF Send, IInv, ServerInv, Types, Listening
<1>5. DemandInv'
  BY <1>1 DEF Send, IInv, DemandInv, AtHelper
<1>6. ClearedInv'
  BY <1>1 DEF Send, IInv, ClearedInv, Cleared, Types
<1> QED
  BY <1>2, <1>3, <1>4, <1>5, <1>6 DEF IInv

LEMMA HangUpInv ==
    ASSUME IInv, NEW r \in Reqs, HangUp(r)
    PROVE  IInv'
<1> USE DEF helpVars, unitVars, connVars
<1>1. Types'
  BY FaultType DEF HangUp, IInv, Types
<1>2. HelperInv'
  BY DEF HangUp, IInv, HelperInv
<1>3. ServerInv' /\ DemandInv' /\ ClearedInv'
  BY DEF HangUp, IInv, ServerInv, DemandInv, ClearedInv, Cleared, Listening
<1> QED
  BY <1>1, <1>2, <1>3 DEF IInv

LEMMA ConnectInv ==
    ASSUME IInv, NEW r \in Reqs, Connect(r)
    PROVE  IInv'
<1> DEFINE u == name[r]
<1> USE DEF helpVars, unitVars
<1>1. /\ phase[r] = "200" /\ u \in Users /\ r \notin gone /\ r # cur /\ r \notin Elems(asks)
      /\ \A v \in Users : r \notin Elems(conns[v]) /\ at[v] # r
  BY DEF Connect, IInv, HelperInv, ServerInv, AtHelper
<1>2. CASE Listening(u)
  <2>1. /\ phase' = [phase EXCEPT ![r] = "proxied"]
        /\ conns' = [conns EXCEPT ![u] = Append(@, r)]
        /\ UNCHANGED <<name, peer, gone>>
        /\ bereft' = bereft \ {r} /\ UNCHANGED <<helpVars, unitVars, at, faults, asked>>
    BY <1>2 DEF Connect
  <2>2. /\ Append(conns[u], r) \in Seq(Reqs) /\ Distinct(Append(conns[u], r))
        /\ Elems(Append(conns[u], r)) = Elems(conns[u]) \cup {r}
        /\ conns[u] \in Seq(Reqs)
    BY <1>1, AppendDistinct DEF IInv, Types, ServerInv
  <2>3. /\ phase'[r] = "proxied" /\ \A q \in Reqs \ {r} : phase'[q] = phase[q]
        /\ phase' \in [Reqs -> Ended \cup AtHelper \cup {"200", "proxied"}]
        /\ conns' \in [Users -> Seq(Reqs)]
        /\ \A v \in Users : conns'[v] = IF v = u THEN Append(conns[u], r) ELSE conns[v]
    BY <1>1, <2>1, <2>2 DEF IInv, Types
  <2>4. Types'
    BY <2>1, <2>3 DEF IInv, Types
  <2>5. HelperInv'
    BY <1>1, <2>1, <2>3 DEF IInv, HelperInv, AtHelper, Types
  <2>6. ServerInv'
    BY <1>1, <1>2, <2>1, <2>2, <2>3, QueueTypes DEF IInv, ServerInv, Types, Listening
  <2>7. DemandInv'
    BY <2>1, <2>3 DEF IInv, DemandInv, AtHelper
  <2>8. ClearedInv'
    BY <1>1, <2>1, <2>3 DEF IInv, ClearedInv, Cleared, Types
  <2> QED
    BY <2>4, <2>5, <2>6, <2>7, <2>8 DEF IInv
<1>3. CASE ~Listening(u)
  <2>1. /\ Over({r}, "nosock") /\ UNCHANGED conns
        /\ bereft' = bereft \ {r} /\ UNCHANGED <<helpVars, unitVars, at, faults, asked>>
    BY <1>3 DEF Connect
  <2>2. /\ \A q \in Reqs : phase'[q] = IF q = r THEN "nosock" ELSE phase[q]
        /\ \A q \in Reqs : peer'[q] = IF q = r THEN Web ELSE peer[q]
        /\ \A q \in Reqs : name'[q] = IF q = r THEN NoName ELSE name[q]
        /\ gone' = gone \ {r}
        /\ phase' \in [Reqs -> Ended \cup AtHelper \cup {"200", "proxied"}]
        /\ name' \in [Reqs -> Names] /\ peer' \in [Reqs -> {Web, Root}]
        /\ gone' \subseteq Reqs
    BY <2>1, OverFields DEF IInv, Phases
  <2>3. Types'
    BY <2>1, <2>2 DEF IInv, Types
  <2>4. HelperInv'
    BY <1>1, <2>1, <2>2 DEF IInv, HelperInv, AtHelper, Types
  <2>5. ServerInv'
    <3>1. \A q \in Reqs \ {r} : phase'[q] = phase[q] /\ name'[q] = name[q]
      BY <2>2
    <3>2. phase'[r] = "nosock" /\ UNCHANGED <<conns, at, sock, svc>>
      BY <1>1, <2>1, <2>2
    <3>3. \A q \in Reqs : phase'[q] = "200" => name'[q] \in Users
      BY <3>1, <3>2 DEF IInv, ServerInv
    <3>4. \A q \in Reqs : phase'[q] = "proxied" =>
            name'[q] \in Users /\ q \in Elems(conns'[name'[q]]) \cup {at'[name'[q]]}
      BY <3>1, <3>2 DEF IInv, ServerInv
    <3>5. \A v \in Users :
            /\ \A q \in Elems(conns[v]) : q \in Reqs \ {r}
            /\ at[v] # NoReq => at[v] \in Reqs \ {r}
      BY <1>1, QueueTypes DEF IInv, Types
    <3> QED
      BY <3>1, <3>2, <3>3, <3>4, <3>5 DEF IInv, ServerInv, Listening
  <2>6. DemandInv'
    BY <2>1, <2>2 DEF IInv, DemandInv, AtHelper
  <2>7. ClearedInv'
    BY <1>1, <2>1, <2>2 DEF IInv, ClearedInv, Cleared, Types
  <2> QED
    BY <2>3, <2>4, <2>5, <2>6, <2>7 DEF IInv
<1> QED
  BY <1>2, <1>3

-----------------------------------------------------------------------------
(* The steps of the helper.                                                 *)

LEMMA HelperStartsInv == IInv /\ HelperStarts => IInv'
<1> SUFFICES ASSUME IInv, HelperStarts PROVE IInv'
  OBVIOUS
<1> USE DEF HelperStarts, reqVars, unitVars, connVars
<1>1. Types'
  BY DEF IInv, Types
<1>2. HelperInv'
  BY DEF IInv, HelperInv
<1>3. ServerInv' /\ DemandInv' /\ ClearedInv'
  BY DEF IInv, ServerInv, DemandInv, ClearedInv, Cleared, Listening
<1> QED
  BY <1>1, <1>2, <1>3 DEF IInv

\* The oldest connection leaves the queue of ensure.sock.
LEMMA OldestAsk ==
    ASSUME IInv, asks # <<>>
    PROVE  /\ Tail(asks) \in Seq(Reqs) /\ Distinct(Tail(asks))
           /\ Head(asks) \in Reqs /\ Head(asks) \in Elems(asks)
           /\ Elems(Tail(asks)) = Elems(asks) \ {Head(asks)}
           /\ Head(asks) # cur /\ phase[Head(asks)] \in AtHelper
<1>1. /\ Tail(asks) \in Seq(Reqs) /\ Distinct(Tail(asks))
      /\ Head(asks) \in Reqs /\ Head(asks) \in Elems(asks)
      /\ Elems(Tail(asks)) = Elems(asks) \ {Head(asks)}
  BY TailDistinct DEF IInv, Types, HelperInv
<1> QED
  BY <1>1 DEF IInv, HelperInv

LEMMA HelperAcceptsInv == IInv /\ HelperAccepts => IInv'
<1> SUFFICES ASSUME IInv, HelperAccepts PROVE IInv'
  OBVIOUS
<1> USE DEF HelperAccepts, reqVars, unitVars, connVars
<1>1. /\ asks' \in Seq(Reqs) /\ Distinct(asks') /\ cur' \in Reqs /\ cur' \in Elems(asks)
      /\ Elems(asks') = Elems(asks) \ {cur'} /\ peer[cur'] = Web
  BY OldestAsk
<1>2. cur = NoReq /\ ctl = "none" /\ cur' # NoReq
  BY <1>1 DEF IInv, HelperInv
<1>3. Types'
  BY <1>1 DEF IInv, Types
<1>4. HelperInv'
  BY <1>1, <1>2 DEF IInv, HelperInv
<1>5. ServerInv' /\ DemandInv' /\ ClearedInv'
  BY <1>2 DEF IInv, ServerInv, DemandInv, ClearedInv, Cleared, Listening
<1> QED
  BY <1>3, <1>4, <1>5 DEF IInv

LEMMA HelperTurnsAwayInv == IInv /\ HelperTurnsAway => IInv'
<1> SUFFICES ASSUME IInv, HelperTurnsAway PROVE IInv'
  OBVIOUS
<1> DEFINE r == Head(asks)
<1> USE DEF unitVars, connVars
<1>1. /\ asks' \in Seq(Reqs) /\ Distinct(asks') /\ r \in Reqs /\ r \in Elems(asks)
      /\ Elems(asks') = Elems(asks) \ {r} /\ r # cur /\ phase[r] \in AtHelper
  BY OldestAsk DEF HelperTurnsAway
<1>2. /\ \A q \in Reqs : phase'[q] = IF q = r THEN "denied" ELSE phase[q]
      /\ \A q \in Reqs : peer'[q] = IF q = r THEN Web ELSE peer[q]
      /\ \A q \in Reqs : name'[q] = IF q = r THEN NoName ELSE name[q]
      /\ gone' = gone \ {r}
      /\ phase' \in [Reqs -> Ended \cup AtHelper \cup {"200", "proxied"}]
      /\ name' \in [Reqs -> Names] /\ peer' \in [Reqs -> {Web, Root}]
      /\ gone' \subseteq Reqs
  BY OverFields DEF IInv, Phases, HelperTurnsAway
<1>3. faults' \in 0 .. MaxFaults
  BY FaultType DEF HelperTurnsAway, IInv
<1>4. /\ UNCHANGED <<helper, cur, ctl, unitVars, connVars, asked, bereft>>
  BY DEF HelperTurnsAway
<1>5. \A v \in Users : r \notin Elems(conns[v]) /\ at[v] # r
  BY <1>1 DEF IInv, ServerInv, AtHelper
<1> HIDE DEF r
<1>6. Types'
  BY <1>1, <1>2, <1>3, <1>4 DEF IInv, Types
<1>7. HelperInv'
  BY <1>1, <1>2, <1>4 DEF IInv, HelperInv, AtHelper, Types
<1>8. ServerInv'
  <2>1. \A q \in Reqs : phase'[q] = "200" => name'[q] \in Users
    BY <1>2 DEF IInv, ServerInv
  <2>2. \A q \in Reqs \ {r} : phase'[q] = phase[q] /\ name'[q] = name[q]
    BY <1>2
  <2>3. phase'[r] # "proxied"
    BY <1>1, <1>2
  <2>4. UNCHANGED <<conns, at, sock, svc>>
    BY <1>4
  <2> QED
    BY <1>5, <2>1, <2>2, <2>3, <2>4, QueueTypes DEF IInv, ServerInv, Types, Listening
<1>9. DemandInv'
  BY <1>2, <1>4 DEF IInv, DemandInv, AtHelper
<1>10. ClearedInv'
  BY <1>1, <1>2, <1>4 DEF IInv, ClearedInv, Cleared, Types, AtHelper
<1> QED
  BY <1>6, <1>7, <1>8, <1>9, <1>10 DEF IInv

\* The helper is done with its connection: 200 is only for a job that is done.
LEMMA AnswerInv ==
    ASSUME IInv, helper \in {"read", "wait"}, faults' \in 0 .. MaxFaults,
           NEW p \in {"denied", "200"},
           Over({cur}, p), p = "200" => ctl = "done",
           helper' \in {"idle", "down"}, cur' = NoReq, ctl' = "none",
           UNCHANGED <<asks, unitVars, connVars, asked>>,
           bereft' \subseteq bereft, bereft \ {cur} \subseteq bereft',
           IF p = "200" THEN bereft' = bereft ELSE cur \notin bereft'
    PROVE  IInv'
<1> USE DEF unitVars, connVars
<1>1. /\ cur \in Reqs /\ cur # NoReq /\ phase[cur] \in AtHelper /\ cur \notin Elems(asks)
      /\ \A v \in Users : cur \notin Elems(conns[v]) /\ at[v] # cur
      /\ \A q \in gone : phase[q] \in AtHelper \cup {"proxied"}
  BY DEF IInv, HelperInv, ServerInv, Types, AtHelper
<1>2. /\ \A q \in Reqs : phase'[q] = IF q = cur THEN p ELSE phase[q]
      /\ \A q \in Reqs : peer'[q] = IF q = cur THEN Web ELSE peer[q]
      /\ \A q \in Reqs : name'[q] = IF q = cur /\ p = "denied" THEN NoName ELSE name[q]
      /\ gone' = gone \ {cur}
      /\ phase' \in [Reqs -> Ended \cup AtHelper \cup {"200", "proxied"}]
      /\ name' \in [Reqs -> Names] /\ peer' \in [Reqs -> {Web, Root}]
      /\ gone' \subseteq Reqs
  BY OverFields DEF IInv, Phases
<1>3. Types'
  BY <1>2 DEF IInv, Types
<1>4. HelperInv'
  <2>1. NoReq \notin Elems(asks)
    BY QueueTypes DEF IInv
  <2>2. \A q \in Reqs : phase'[q] \in AtHelper <=> q \in Elems(asks)
    BY <1>1, <1>2 DEF IInv, HelperInv, AtHelper
  <2>3. \A q \in gone' : phase'[q] \in AtHelper \cup {"proxied"}
    BY <1>1, <1>2 DEF IInv, Types
  <2> QED
    BY <2>1, <2>2, <2>3 DEF IInv, HelperInv
<1>5. ServerInv'
  <2>1. p = "200" => name[cur] \in Users
    BY DEF IInv, HelperInv
  <2>2. \A q \in Reqs : phase'[q] = "200" => name'[q] \in Users
    BY <1>2, <2>1 DEF IInv, ServerInv
  <2>3. \A q \in Reqs :
          phase'[q] = "proxied" => q # cur /\ phase[q] = "proxied" /\ name'[q] = name[q]
    BY <1>2
  <2>4. \A q \in Reqs \ {cur} : phase'[q] = phase[q] /\ name'[q] = name[q]
    BY <1>2
  <2> QED
    BY <1>1, <2>2, <2>3, <2>4, QueueTypes DEF IInv, ServerInv, Types, Listening
<1>6. DemandInv'
  BY <1>1, <1>2 DEF IInv, DemandInv, AtHelper
<1>7. ClearedInv'
  <2>1. ASSUME NEW q \in Reqs, Cleared(q)', q \notin bereft'
        PROVE  name'[q] \in sock'
    <3>1. phase'[q] = "200"
      BY <2>1 DEF Cleared
    <3>2. Cleared(q) /\ q \notin bereft /\ name'[q] = name[q]
      BY <1>1, <1>2, <2>1, <3>1 DEF Cleared, AtHelper
    <3> QED
      BY <3>2 DEF IInv, ClearedInv
  <2>2. ASSUME NEW q \in bereft'
        PROVE  Cleared(q)'
    <3>1. q \in Reqs /\ Cleared(q)
      BY <2>2 DEF IInv, ClearedInv, Types
    <3> QED
      BY <1>1, <1>2, <2>2, <3>1 DEF Cleared, AtHelper
  <2> QED
    BY <2>1, <2>2 DEF ClearedInv
<1> QED
  BY <1>3, <1>4, <1>5, <1>6, <1>7 DEF IInv

\* Of requests that nginx has hung up on, only the one in the helper may have
\* been about to be told 200.
LEMMA GoneBereft ==
    ASSUME IInv
    PROVE  bereft \cap gone \subseteq {cur}
  BY DEF IInv, Types, HelperInv, ClearedInv, Cleared, AtHelper

\* It answers, unless nobody is left to answer to.
LEMMA AnswerWithInv ==
    ASSUME IInv, helper \in {"read", "wait"}, faults' \in 0 .. MaxFaults,
           NEW status \in {"denied", "200"}, status = "200" <=> ctl = "done",
           AnswerWith(status)
    PROVE  IInv'
<1>1. /\ helper' = "idle" /\ cur' = NoReq /\ ctl' = "none" /\ bereft' = bereft \ gone
      /\ UNCHANGED <<asks, unitVars, connVars, asked>>
  BY DEF AnswerWith
<1>2. bereft' \subseteq bereft /\ bereft \ {cur} \subseteq bereft'
  BY <1>1, GoneBereft
<1>3. cur # NoReq /\ cur \in Reqs /\ phase[cur] # "200"
  BY DEF IInv, HelperInv, Types, AtHelper
<1>4. CASE cur \in gone
  <2>1. Over({cur}, "denied") /\ cur \notin bereft'
    BY <1>1, <1>4 DEF AnswerWith
  <2> QED
    BY <1>1, <1>2, <2>1, AnswerInv
<1>5. CASE cur \notin gone
  <2>1. Over({cur}, status) /\ bereft' = bereft
    BY <1>1, <1>5, GoneBereft DEF AnswerWith
  <2>2. status = "denied" => cur \notin bereft
    BY <1>3 DEF IInv, ClearedInv, Cleared
  <2> QED
    BY <1>1, <1>2, <2>1, <2>2, AnswerInv
<1> QED
  BY <1>4, <1>5

LEMMA HelperEndsInv == IInv /\ HelperEnds => IInv'
<1> SUFFICES ASSUME IInv, HelperEnds PROVE IInv'
  OBVIOUS
<1>1. faults' \in 0 .. MaxFaults
  BY FaultType DEF HelperEnds, IInv
<1>2. CASE helper \in {"read", "wait"}
  BY <1>1, <1>2, AnswerInv DEF HelperEnds
<1>3. CASE helper = "idle"
  <2> USE DEF HelperEnds, unitVars, connVars
  <2>1. cur = NoReq /\ ctl = "none" /\ NoReq \notin gone /\ NoReq \notin bereft
    BY <1>3 DEF IInv, HelperInv, Types
  <2>2. /\ \A q \in Reqs : phase'[q] = phase[q] /\ peer'[q] = peer[q] /\ name'[q] = name[q]
        /\ phase' \in [Reqs -> Ended \cup AtHelper \cup {"200", "proxied"}]
        /\ name' \in [Reqs -> Names] /\ peer' \in [Reqs -> {Web, Root}]
        /\ gone' = gone /\ bereft' = bereft
    BY <2>1, OverFields DEF IInv, Phases
  <2>3. UNCHANGED <<phase, peer, name>>
    BY <2>2 DEF IInv, Types
  <2>4. Types'
    BY <1>1, <2>2 DEF IInv, Types
  <2>5. HelperInv'
    BY <1>3, <2>1, <2>2, <2>3 DEF IInv, HelperInv
  <2>6. ServerInv' /\ DemandInv' /\ ClearedInv'
    BY <2>1, <2>2, <2>3 DEF IInv, ServerInv, DemandInv, ClearedInv, Cleared, Listening
  <2> QED
    BY <2>4, <2>5, <2>6 DEF IInv
<1> QED
  BY <1>2, <1>3 DEF HelperEnds, IInv, Types

LEMMA HelperRepliesInv ==
    ASSUME IInv, HelperReadsEof \/ HelperRefuses \/ HelperAnswers \/ HelperTimesOut
    PROVE  IInv'
<1>1. faults' \in 0 .. MaxFaults
  BY FaultType DEF HelperReadsEof, HelperRefuses, HelperAnswers, HelperTimesOut, Answer, IInv
<1>2. CASE HelperReadsEof \/ HelperRefuses
  <2>1. helper = "read" /\ AnswerWith("denied")
    BY <1>2 DEF HelperReadsEof, HelperRefuses, Answer
  <2>2. ctl # "done"
    BY <2>1 DEF IInv, HelperInv
  <2> QED
    BY <1>1, <2>1, <2>2, AnswerWithInv
<1>3. CASE HelperAnswers
  BY <1>1, <1>3, AnswerWithInv DEF HelperAnswers, Answer
<1>4. CASE HelperTimesOut
  BY <1>1, <1>4, AnswerWithInv DEF HelperTimesOut
<1> QED
  BY <1>2, <1>3, <1>4

LEMMA HelperRunsInv == IInv /\ HelperRuns => IInv'
<1> SUFFICES ASSUME IInv, HelperRuns PROVE IInv'
  OBVIOUS
<1> USE DEF HelperRuns, reqVars, connVars
<1>1. /\ cur \in Reqs /\ phase[cur] = "sent" /\ name[cur] \in Users /\ peer[cur] = Web
      /\ ctl = "none" /\ ctl' \in {"waiting", "failed"}
  BY DEF IInv, HelperInv, Types
<1>2. job' \in [Users -> {"none", "queued", "hung"}]
  BY <1>1 DEF IInv, Types
<1>3. Types'
  BY <1>1, <1>2, FaultType DEF IInv, Types
<1>4. HelperInv'
  BY <1>1 DEF IInv, HelperInv
<1>5. name[cur] \in asked
  BY <1>1 DEF IInv, DemandInv, AtHelper
<1>6. DemandInv'
  BY <1>1, <1>5 DEF IInv, DemandInv, Types
<1>7. ServerInv' /\ ClearedInv'
  BY <1>1 DEF IInv, ServerInv, ClearedInv, Cleared, Listening
<1> QED
  BY <1>3, <1>4, <1>6, <1>7 DEF IInv

-----------------------------------------------------------------------------
(* The steps of systemd.                                                    *)

LEMMA JobRunsInv ==
    ASSUME IInv, NEW u \in Users, JobRuns(u)
    PROVE  IInv'
<1> USE DEF JobRuns, reqVars, connVars
<1>1. u \in asked
  BY DEF IInv, DemandInv
<1>2. /\ job' \in [Users -> {"none", "queued", "hung"}]
      /\ \A v \in Users : job'[v] # "none" => job[v] # "none"
  BY DEF IInv, Types
<1>3. /\ sock \subseteq sock' /\ sock' \subseteq sock \cup {u}
      /\ ctl' \in {ctl, "done", "failed"}
      /\ ctl' = "none" <=> ctl = "none"
      /\ ctl = "done" => ctl' = "done"
      /\ ctl' = "done" => ctl = "done" \/ (name[cur] = u /\ u \in sock')
  BY DEF Heard
<1>4. /\ ctl' \in {"none", "waiting", "done", "failed"}
      /\ sock' \subseteq Users
  BY <1>3 DEF IInv, Types
<1>5. Types'
  BY <1>2, <1>4, FaultType DEF IInv, Types
<1>6. HelperInv'
  BY <1>3 DEF IInv, HelperInv
<1>7. ServerInv'
  BY <1>3 DEF IInv, ServerInv, Listening
<1>8. DemandInv'
  BY <1>1, <1>2, <1>3 DEF IInv, DemandInv
<1>9. ClearedInv'
  BY <1>3 DEF IInv, ClearedInv, Cleared
<1> QED
  BY <1>5, <1>6, <1>7, <1>8, <1>9 DEF IInv

LEMMA JobHangsInv ==
    ASSUME IInv, NEW u \in Users, JobHangs(u)
    PROVE  IInv'
<1> USE DEF JobHangs, reqVars, helpVars, connVars
<1>1. /\ job' \in [Users -> {"none", "queued", "hung"}]
      /\ \A v \in Users : job'[v] # "none" => job[v] # "none"
  BY DEF IInv, Types
<1>2. Types'
  BY <1>1, FaultType DEF IInv, Types
<1>3. DemandInv'
  BY <1>1 DEF IInv, DemandInv
<1>4. HelperInv' /\ ServerInv' /\ ClearedInv'
  BY DEF IInv, HelperInv, ServerInv, ClearedInv, Cleared, Listening
<1> QED
  BY <1>2, <1>3, <1>4 DEF IInv

LEMMA ActivateInv ==
    ASSUME IInv, NEW u \in Users, Activate(u)
    PROVE  IInv'
<1> USE DEF Activate, Waiting, reqVars, helpVars, connVars
<1>1. Types'
  BY DEF IInv, Types
<1>2. HelperInv' /\ ServerInv' /\ DemandInv' /\ ClearedInv'
  BY DEF IInv, HelperInv, ServerInv, DemandInv, ClearedInv, Cleared, Listening
<1> QED
  BY <1>1, <1>2 DEF IInv

\* The .socket of u goes down: those who would have connected to it are noted.
LEMMA SocketGoesInv ==
    ASSUME IInv, NEW u \in Users, SocketGoes(u), faults' \in 0 .. MaxFaults,
           ctl' \in {"none", "waiting", "done", "failed"},
           ctl' = "none" <=> ctl = "none", ctl' = "done" <=> ctl = "done",
           job' \in [Users -> {"none", "queued", "hung"}],
           \A v \in Users : job'[v] # "none" => job[v] # "none"
    PROVE  IInv'
<1>1. /\ sock' = sock \ {u} /\ UNCHANGED <<helper, asks, cur, svc, at, asked>>
      /\ bereft' = bereft \cup {r \in Reqs : /\ name[r] = u
                                             /\ \/ phase[r] = "200"
                                                \/ r = cur /\ ctl = "done"}
  BY DEF SocketGoes
<1> DEFINE S == IF u \in svc THEN {} ELSE Elems(conns[u])
<1>2. \A r \in S : r \in Reqs /\ phase[r] = "proxied" /\ name[r] = u /\ r # cur
  BY QueueTypes DEF IInv, ServerInv, HelperInv, AtHelper
<1>3. /\ \A r \in Reqs : phase'[r] = IF r \in S THEN "reset" ELSE phase[r]
      /\ \A r \in Reqs : peer'[r] = IF r \in S THEN Web ELSE peer[r]
      /\ \A r \in Reqs : name'[r] = name[r]
      /\ gone' = gone \ S
      /\ phase' \in [Reqs -> Ended \cup AtHelper \cup {"200", "proxied"}]
      /\ name' \in [Reqs -> Names] /\ peer' \in [Reqs -> {Web, Root}]
      /\ gone' \subseteq Reqs
  <2>1. CASE u \in svc
    BY <2>1 DEF SocketGoes, reqVars, IInv, Types
  <2>2. CASE u \notin svc
    BY <2>2, OverFields DEF SocketGoes, IInv, Phases
  <2> QED
    BY <2>1, <2>2
<1>4. /\ conns' \in [Users -> Seq(Reqs)]
      /\ \A v \in Users : conns'[v] = IF v = u /\ u \notin svc THEN <<>> ELSE conns[v]
      /\ Elems(<<>>) = {} /\ Distinct(<<>>)
  <2>1. Elems(<<>>) = {} /\ Distinct(<<>>) /\ <<>> \in Seq(Reqs)
    BY EmptySeq DEF Elems, Distinct
  <2>2. conns \in [Users -> Seq(Reqs)]
    BY DEF IInv, Types
  <2>3. CASE u \in svc
    BY <2>1, <2>2, <2>3 DEF SocketGoes
  <2>4. CASE u \notin svc
    BY <2>1, <2>2, <2>4 DEF SocketGoes
  <2> QED
    BY <2>3, <2>4
<1> HIDE DEF S
<1>5. Types'
  BY <1>1, <1>3, <1>4 DEF IInv, Types
<1>6. HelperInv'
  BY <1>1, <1>2, <1>3, QueueTypes DEF IInv, HelperInv, AtHelper, Types
<1>7. ServerInv'
  <2>1. \A r \in Reqs : phase'[r] = "200" => name'[r] \in Users
    BY <1>2, <1>3 DEF IInv, ServerInv
  <2>2. \A r \in Reqs : phase'[r] = "proxied" =>
            name'[r] \in Users /\ r \in Elems(conns'[name'[r]]) \cup {at'[name'[r]]}
    BY <1>1, <1>2, <1>3, <1>4 DEF IInv, ServerInv, S
  <2>3. ASSUME NEW v \in Users
        PROVE  /\ \A r \in Elems(conns'[v]) : phase'[r] = "proxied" /\ name'[r] = v
               /\ at'[v] # NoReq => phase'[at'[v]] = "proxied" /\ name'[at'[v]] = v /\ v \in svc'
               /\ Distinct(conns'[v]) /\ at'[v] \notin Elems(conns'[v])
               /\ conns'[v] # <<>> => Listening(v)'
    <3>1. CASE v = u /\ u \notin svc
      <4>1. conns'[v] = <<>> /\ Elems(conns'[v]) = {} /\ Distinct(conns'[v])
        BY <1>4, <3>1
      <4>2. at'[v] = NoReq
        BY <1>1, <3>1 DEF IInv, ServerInv
      <4> QED
        BY <4>1, <4>2
    <3>2. CASE v # u \/ u \in svc
      <4>1. conns'[v] = conns[v] /\ \A r \in Elems(conns[v]) : r \in Reqs /\ r \notin S
        <5>1. \A r \in Elems(conns[v]) : r \in Reqs /\ name[r] = v
          BY QueueTypes DEF IInv, ServerInv
        <5>2. u \in svc => S = {}
          BY DEF S
        <5> QED
          BY <1>2, <1>4, <3>2, <5>1, <5>2
      <4>2. at[v] # NoReq => at[v] \in Reqs /\ at[v] \notin S
        BY <1>2, <3>2 DEF IInv, ServerInv, Types, S
      <4>3. /\ \A r \in Elems(conns'[v]) : phase'[r] = "proxied" /\ name'[r] = v
            /\ at'[v] # NoReq => phase'[at'[v]] = "proxied" /\ name'[at'[v]] = v /\ v \in svc'
        BY <1>1, <1>3, <4>1, <4>2 DEF IInv, ServerInv
      <4>4. conns'[v] # <<>> => Listening(v)'
        BY <1>1, <3>2, <4>1 DEF IInv, ServerInv, Listening
      <4> QED
        BY <1>1, <4>1, <4>3, <4>4 DEF IInv, ServerInv
    <3> QED
      BY <3>1, <3>2
  <2> QED
    BY <2>1, <2>2, <2>3 DEF ServerInv
<1>8. DemandInv'
  BY <1>1, <1>2, <1>3 DEF IInv, DemandInv, AtHelper
<1>9. ClearedInv'
  BY <1>1, <1>2, <1>3 DEF IInv, ClearedInv, Cleared, Types
<1> QED
  BY <1>5, <1>6, <1>7, <1>8, <1>9 DEF IInv

LEMMA SocketStopsInv ==
    ASSUME IInv, NEW u \in Users, SocketStops(u)
    PROVE  IInv'
<1>1. faults' \in 0 .. MaxFaults
  BY FaultType DEF SocketStops, IInv
<1>2. /\ job' \in [Users -> {"none", "queued", "hung"}]
      /\ \A v \in Users : job'[v] # "none" => job[v] # "none"
  BY DEF SocketStops, IInv, Types
<1>3. /\ ctl' \in {"none", "waiting", "done", "failed"}
      /\ ctl' = "none" <=> ctl = "none"
      /\ ctl' = "done" <=> ctl = "done"
  BY DEF SocketStops, Heard, IInv, Types
<1> QED
  BY <1>1, <1>2, <1>3, SocketGoesInv DEF SocketStops

LEMMA GivesUpInv ==
    ASSUME IInv, NEW u \in Users, GivesUp(u)
    PROVE  IInv'
<1>1. faults' \in 0 .. MaxFaults /\ ctl' \in {"none", "waiting", "done", "failed"}
      /\ job' \in [Users -> {"none", "queued", "hung"}] /\ ctl' = ctl /\ job' = job
  BY DEF GivesUp, IInv, Types
<1> QED
  BY <1>1, SocketGoesInv DEF GivesUp

-----------------------------------------------------------------------------
(* The steps of the users' servers.                                         *)

LEMMA ServeInv ==
    ASSUME IInv, NEW u \in Users, Serve(u)
    PROVE  IInv'
<1> DEFINE h == Head(conns[u])
<1> USE DEF reqVars, helpVars, unitVars
<1>1. /\ Tail(conns[u]) \in Seq(Reqs) /\ Distinct(Tail(conns[u]))
      /\ h \in Elems(conns[u]) /\ h \in Reqs
      /\ Elems(Tail(conns[u])) = Elems(conns[u]) \ {h}
  BY TailDistinct DEF Serve, IInv, Types, ServerInv
<1>2. /\ u \in svc /\ at[u] = NoReq
      /\ UNCHANGED <<reqVars, helpVars, unitVars, faults, asked, bereft>>
      /\ conns' = [conns EXCEPT ![u] = Tail(conns[u])] /\ at' = [at EXCEPT ![u] = h]
  BY DEF Serve
<1> HIDE DEF h
<1>3. /\ conns' \in [Users -> Seq(Reqs)] /\ at' \in [Users -> Reqs \cup {NoReq}]
      /\ \A v \in Users : conns'[v] = IF v = u THEN Tail(conns[u]) ELSE conns[v]
      /\ \A v \in Users : at'[v] = IF v = u THEN h ELSE at[v]
  BY <1>1, <1>2 DEF IInv, Types
<1>4. Types'
  BY <1>2, <1>3 DEF IInv, Types
<1>5. ServerInv'
  <2>1. \A r \in Reqs : phase'[r] = "proxied" =>
            name'[r] \in Users /\ r \in Elems(conns'[name'[r]]) \cup {at'[name'[r]]}
    BY <1>1, <1>2, <1>3 DEF IInv, ServerInv
  <2>2. \A v \in Users :
          /\ \A r \in Elems(conns'[v]) : phase'[r] = "proxied" /\ name'[r] = v
          /\ at'[v] # NoReq => phase'[at'[v]] = "proxied" /\ name'[at'[v]] = v /\ v \in svc'
          /\ Distinct(conns'[v]) /\ at'[v] \notin Elems(conns'[v])
    BY <1>1, <1>2, <1>3 DEF IInv, ServerInv
  <2>3. \A v \in Users : conns'[v] # <<>> => Listening(v)'
    BY <1>2, <1>3 DEF IInv, ServerInv, Listening
  <2> QED
    BY <1>2, <2>1, <2>2, <2>3 DEF IInv, ServerInv
<1>6. HelperInv' /\ DemandInv' /\ ClearedInv'
  BY <1>2 DEF IInv, HelperInv, DemandInv, ClearedInv, Cleared
<1> QED
  BY <1>4, <1>5, <1>6 DEF IInv

LEMMA RespondInv ==
    ASSUME IInv, NEW u \in Users, Respond(u)
    PROVE  IInv'
<1> USE DEF helpVars, unitVars
<1>1. PICK p \in {"reset", "ok"} : Over({at[u]}, p)
  BY DEF Respond
<1>2. /\ at[u] \in Reqs /\ phase[at[u]] = "proxied" /\ name[at[u]] = u
      /\ at[u] # cur /\ at[u] \notin Elems(asks) /\ at[u] \notin Elems(conns[u])
      /\ \A v \in Users \ {u} : at[v] # at[u]
  <2>1. at[u] \in Reqs /\ phase[at[u]] = "proxied" /\ name[at[u]] = u
    BY DEF Respond, IInv, Types, ServerInv
  <2>2. at[u] # cur /\ at[u] \notin Elems(asks)
    BY <2>1 DEF IInv, HelperInv, AtHelper
  <2>3. \A v \in Users \ {u} : at[v] # at[u]
    BY <2>1 DEF Respond, IInv, ServerInv
  <2> QED
    BY <2>1, <2>2, <2>3 DEF IInv, ServerInv
<1>3. /\ \A r \in Reqs : phase'[r] = IF r = at[u] THEN p ELSE phase[r]
      /\ \A r \in Reqs : peer'[r] = IF r = at[u] THEN Web ELSE peer[r]
      /\ \A r \in Reqs : name'[r] = name[r]
      /\ gone' = gone \ {at[u]}
      /\ phase' \in [Reqs -> Ended \cup AtHelper \cup {"200", "proxied"}]
      /\ name' \in [Reqs -> Names] /\ peer' \in [Reqs -> {Web, Root}]
      /\ gone' \subseteq Reqs
  BY <1>1, OverFields DEF IInv, Phases
<1>4. /\ at' \in [Users -> Reqs \cup {NoReq}] /\ at'[u] = NoReq
      /\ \A v \in Users \ {u} : at'[v] = at[v]
      /\ UNCHANGED <<helpVars, unitVars, conns, faults, asked, bereft>>
  BY DEF Respond, IInv, Types
<1>5. Types'
  BY <1>3, <1>4 DEF IInv, Types
<1>6. HelperInv'
  BY <1>2, <1>3, <1>4, QueueTypes DEF IInv, HelperInv, AtHelper, Types
<1>7. ServerInv'
  <2>1. \A r \in Reqs : phase'[r] = "200" => name'[r] \in Users
    BY <1>3 DEF IInv, ServerInv
  <2>2. \A r \in Reqs : phase'[r] = "proxied" =>
            name'[r] \in Users /\ r \in Elems(conns'[name'[r]]) \cup {at'[name'[r]]}
    BY <1>3, <1>4 DEF IInv, ServerInv
  <2>3. \A v \in Users : \A r \in Elems(conns'[v]) : phase'[r] = "proxied" /\ name'[r] = v
    BY <1>2, <1>3, <1>4, QueueTypes DEF IInv, ServerInv
  <2>4. \A v \in Users :
          at'[v] # NoReq => phase'[at'[v]] = "proxied" /\ name'[at'[v]] = v /\ v \in svc'
    BY <1>2, <1>3, <1>4 DEF IInv, ServerInv, Types
  <2>5. \A v \in Users :
          /\ Distinct(conns'[v]) /\ at'[v] \notin Elems(conns'[v])
          /\ conns'[v] # <<>> => Listening(v)'
    BY <1>4, QueueTypes DEF IInv, ServerInv, Listening
  <2> QED
    BY <2>1, <2>2, <2>3, <2>4, <2>5 DEF ServerInv
<1>8. DemandInv'
  BY <1>2, <1>3, <1>4 DEF IInv, DemandInv, AtHelper
<1>9. ClearedInv'
  BY <1>2, <1>3, <1>4 DEF IInv, ClearedInv, Cleared, Types
<1> QED
  BY <1>5, <1>6, <1>7, <1>8, <1>9 DEF IInv

LEMMA IdleExitInv ==
    ASSUME IInv, NEW u \in Users, IdleExit(u)
    PROVE  IInv'
<1> USE DEF IdleExit, reqVars, helpVars, connVars
<1>1. Types'
  BY DEF IInv, Types
<1>2. ServerInv'
  BY DEF IInv, ServerInv, Listening
<1>3. HelperInv' /\ DemandInv' /\ ClearedInv'
  BY DEF IInv, HelperInv, DemandInv, ClearedInv, Cleared
<1> QED
  BY <1>1, <1>2, <1>3 DEF IInv

LEMMA ServiceEndsInv ==
    ASSUME IInv, NEW u \in Users, ServiceEnds(u)
    PROVE  IInv'
<1> USE DEF helpVars
<1> DEFINE S == {at[u]} \cup (IF u \in sock THEN {} ELSE Elems(conns[u]))
<1>1. /\ Over(S, "reset") /\ svc' = svc \ {u} /\ at' = [at EXCEPT ![u] = NoReq]
      /\ conns' = [conns EXCEPT ![u] = IF u \in sock THEN @ ELSE <<>>]
      /\ UNCHANGED <<helpVars, job, sock, asked, bereft>>
  BY DEF ServiceEnds
<1>2. \A r \in Reqs : r \in S => phase[r] = "proxied" /\ name[r] = u
  BY DEF IInv, ServerInv
<1>3. /\ \A r \in Reqs : phase'[r] = IF r \in S THEN "reset" ELSE phase[r]
      /\ \A r \in Reqs : peer'[r] = IF r \in S THEN Web ELSE peer[r]
      /\ \A r \in Reqs : name'[r] = name[r]
      /\ gone' = gone \ S
      /\ phase' \in [Reqs -> Ended \cup AtHelper \cup {"200", "proxied"}]
      /\ name' \in [Reqs -> Names] /\ peer' \in [Reqs -> {Web, Root}]
      /\ gone' \subseteq Reqs
  BY <1>1, OverFields DEF IInv, Phases
<1>4. /\ conns' \in [Users -> Seq(Reqs)]
      /\ \A v \in Users : conns'[v] = IF v = u /\ u \notin sock THEN <<>> ELSE conns[v]
      /\ at' \in [Users -> Reqs \cup {NoReq}] /\ at'[u] = NoReq
      /\ \A v \in Users \ {u} : at'[v] = at[v]
      /\ Elems(<<>>) = {} /\ Distinct(<<>>)
  <2>1. Elems(<<>>) = {} /\ Distinct(<<>>) /\ <<>> \in Seq(Reqs)
    BY EmptySeq DEF Elems, Distinct
  <2>2. conns \in [Users -> Seq(Reqs)] /\ at \in [Users -> Reqs \cup {NoReq}]
    BY DEF IInv, Types
  <2>3. CASE u \in sock
    BY <1>1, <2>1, <2>2, <2>3
  <2>4. CASE u \notin sock
    BY <1>1, <2>1, <2>2, <2>4
  <2> QED
    BY <2>3, <2>4
<1>5. Types'
  <2>1. faults' \in 0 .. MaxFaults
    BY FaultType DEF ServiceEnds, IInv
  <2> QED
    BY <1>1, <1>3, <1>4, <2>1 DEF IInv, Types
<1>6. at[u] \in S /\ (u \notin sock => Elems(conns[u]) \subseteq S)
  OBVIOUS
<1>7. u \in sock => S = {at[u]}
  OBVIOUS
<1> HIDE DEF S
<1>8. HelperInv'
  BY <1>1, <1>2, <1>3, QueueTypes DEF IInv, HelperInv, AtHelper, Types
<1>9. ServerInv'
  <2>1. \A r \in Reqs : phase'[r] = "200" => name'[r] \in Users
    BY <1>3 DEF IInv, ServerInv
  <2>2. \A r \in Reqs : phase'[r] = "proxied" =>
            name'[r] \in Users /\ r \in Elems(conns'[name'[r]]) \cup {at'[name'[r]]}
    BY <1>2, <1>3, <1>4, <1>6 DEF IInv, ServerInv
  <2>3. ASSUME NEW v \in Users
        PROVE  /\ \A r \in Elems(conns'[v]) : phase'[r] = "proxied" /\ name'[r] = v
               /\ at'[v] # NoReq => phase'[at'[v]] = "proxied" /\ name'[at'[v]] = v /\ v \in svc'
               /\ Distinct(conns'[v]) /\ at'[v] \notin Elems(conns'[v])
               /\ conns'[v] # <<>> => Listening(v)'
    <3>1. CASE v = u /\ u \notin sock
      <4>1. conns'[v] = <<>> /\ Elems(conns'[v]) = {} /\ Distinct(conns'[v]) /\ at'[v] = NoReq
        BY <1>4, <3>1
      <4> QED
        BY <4>1
    <3>2. CASE v = u /\ u \in sock
      <4>1. conns'[v] = conns[v] /\ at'[v] = NoReq
        BY <1>4, <3>2
      <4>2. \A r \in Elems(conns[v]) : r \in Reqs /\ r \notin S
        BY <1>7, <3>2, QueueTypes DEF IInv, ServerInv
      <4>3. NoReq \notin Elems(conns[v])
        BY QueueTypes DEF IInv
      <4> QED
        BY <1>1, <1>3, <3>2, <4>1, <4>2, <4>3 DEF IInv, ServerInv, Listening
    <3>3. CASE v # u
      <4>1. conns'[v] = conns[v] /\ at'[v] = at[v]
        BY <1>4, <3>3
      <4>2. \A r \in Elems(conns[v]) : r \in Reqs /\ r \notin S
        BY <1>2, <3>3, QueueTypes DEF IInv, ServerInv
      <4>3. at[v] # NoReq => at[v] \in Reqs /\ at[v] \notin S
        BY <1>2, <3>3 DEF IInv, ServerInv, Types
      <4> QED
        BY <1>1, <1>3, <3>3, <4>1, <4>2, <4>3 DEF IInv, ServerInv, Listening
    <3> QED
      BY <3>1, <3>2, <3>3
  <2> QED
    BY <2>1, <2>2, <2>3 DEF ServerInv
<1>10. DemandInv'
  BY <1>1, <1>2, <1>3 DEF IInv, DemandInv, AtHelper
<1>11. ClearedInv'
  BY <1>1, <1>2, <1>3 DEF IInv, ClearedInv, Cleared, Types
<1> QED
  BY <1>5, <1>8, <1>9, <1>10, <1>11 DEF IInv

-----------------------------------------------------------------------------
(* The theorems.                                                            *)

LEMMA NextInv == IInv /\ [Next]_vars => IInv'
<1> SUFFICES ASSUME IInv, [Next]_vars PROVE IInv'
  OBVIOUS
<1>1. CASE UNCHANGED vars
  BY <1>1 DEF vars, reqVars, helpVars, unitVars, connVars, IInv, Types, HelperInv, ServerInv,
     DemandInv, ClearedInv, Cleared, Listening
<1>2. CASE HelperStep \/ HelperEnds
  BY <1>2, HelperStartsInv, HelperAcceptsInv, HelperTurnsAwayInv, HelperRepliesInv,
     HelperRunsInv, HelperEndsInv DEF HelperStep
<1>3. CASE \E r \in Reqs : NginxStep(r) \/ HangUp(r)
  BY <1>3, SendInv, ConnectInv, HangUpInv DEF NginxStep
<1>4. CASE \E r \in Reqs, n \in Names, p \in {Web, Root} : Open(r, n, p)
  BY <1>4, OpenInv
<1>5. CASE \E u \in Users : \/ UnitStep(u) \/ ServerStep(u) \/ IdleExit(u)
                           \/ JobHangs(u) \/ SocketStops(u) \/ ServiceEnds(u)
  BY <1>5, JobRunsInv, ActivateInv, GivesUpInv, ServeInv, RespondInv, IdleExitInv,
     JobHangsInv, SocketStopsInv, ServiceEndsInv DEF UnitStep, ServerStep
<1> QED
  BY <1>1, <1>2, <1>3, <1>4, <1>5 DEF Next

LEMMA IInvCorrect == Spec => []IInv
<1> QED
  BY InitInv, NextInv, PTL DEF Spec

\* The types of what nginx, the helper and systemd keep, and that every request
\* which waits for an answer is on exactly one connection, to the helper or to
\* one user's server, so that no handler forgets it.
THEOREM SystemTypeCorrect == Spec => []TypeOK
<1>1. IInv => TypeOK
  BY DEF IInv, Types, HelperInv, ServerInv, TypeOK
<1> QED
  BY <1>1, IInvCorrect, PTL

\* Whatever uid connects to ensure.sock, and whatever else systemd and the
\* units do, nothing is started but for users that nginx has asked for.
THEOREM StartedOnDemandCorrect == Spec => []StartedOnDemand
<1>1. IInv => StartedOnDemand
  BY DEF IInv, DemandInv, StartedOnDemand
<1> QED
  BY <1>1, IInvCorrect, PTL

\* Who was told 200 finds a socket, unless it was taken away since.
THEOREM ClearedCorrect == Spec => ClearedFindsSocket
<1>1. IInv /\ [Next]_vars =>
        [\A r \in Reqs : phase[r] = "200" /\ phase'[r] = "nosock" => r \in bereft]_vars
  <2> SUFFICES ASSUME IInv, [Next]_vars, NEW r \in Reqs,
                      phase[r] = "200", phase'[r] = "nosock", r \notin bereft
               PROVE  FALSE
    OBVIOUS
  <2>1. Listening(name[r])
    BY DEF IInv, ClearedInv, Cleared, Listening
  <2>2. CASE UNCHANGED phase
    BY <2>2
  <2>3. CASE \E q \in Reqs : Connect(q)
    <3>1. PICK q \in Reqs : Connect(q)
      BY <2>3
    <3>2. CASE q = r
      <4>1. phase' = [phase EXCEPT ![r] = "proxied"]
        BY <2>1, <3>1, <3>2 DEF Connect
      <4> QED
        BY <4>1 DEF IInv, Types
    <3>3. CASE q # r
      BY <3>1, <3>3, OverFields DEF Connect, IInv, Types, Phases
    <3> QED
      BY <3>2, <3>3
  <2>4. CASE \E q \in Reqs : Send(q) \/ \E n \in Names, p \in {Web, Root} : Open(q, n, p)
    BY <2>4 DEF Send, Open, IInv, Types
  <2>5. ASSUME NEW S, NEW p \in {"denied", "reset", "ok", "200"}, Over(S, p)
        PROVE  FALSE
    BY <2>5, OverFields DEF IInv, Phases
  <2>6. CASE HelperTurnsAway \/ HelperReadsEof \/ HelperRefuses \/ HelperAnswers
             \/ HelperTimesOut \/ HelperEnds
    BY <2>5, <2>6 DEF HelperTurnsAway, HelperReadsEof, HelperRefuses, HelperAnswers,
       HelperTimesOut, HelperEnds, Answer, AnswerWith
  <2>7. CASE \E u \in Users : SocketStops(u) \/ GivesUp(u) \/ Respond(u) \/ ServiceEnds(u)
    BY <2>2, <2>5, <2>7 DEF SocketStops, GivesUp, SocketGoes, Respond, ServiceEnds, reqVars
  <2>8. CASE \/ HelperStarts \/ HelperAccepts \/ HelperRuns \/ UNCHANGED vars
             \/ \E q \in Reqs : HangUp(q)
             \/ \E u \in Users : \/ JobRuns(u) \/ Activate(u) \/ Serve(u)
                                 \/ IdleExit(u) \/ JobHangs(u)
    BY <2>2, <2>8 DEF HelperStarts, HelperAccepts, HelperRuns, HangUp, JobRuns, Activate, Serve,
       IdleExit, JobHangs, vars, reqVars
  <2> QED
    BY <2>3, <2>4, <2>6, <2>7, <2>8 DEF Next, HelperStep, NginxStep, UnitStep, ServerStep
<1> QED
  BY <1>1, IInvCorrect, PTL DEF Spec, ClearedFindsSocket
-----------------------------------------------------------------------------
(* Each user's units implement ConnService.                                 *)

\* What a request is to the service of u, before and after a step.
LEMMA UserPhases ==
    ASSUME NEW u, NEW r
    PROVE  /\ UserPhase(u, r) =
                IF name[r] # u THEN "away"
                ELSE IF phase[r] = "proxied"
                     THEN IF at[u] = r THEN "serving" ELSE "waiting"
                ELSE IF phase[r] = "ok" THEN "answered"
                ELSE IF phase[r] = "reset" THEN "failed" ELSE "away"
           /\ UserPhase(u, r)' =
                IF name'[r] # u THEN "away"
                ELSE IF phase'[r] = "proxied"
                     THEN IF at'[u] = r THEN "serving" ELSE "waiting"
                ELSE IF phase'[r] = "ok" THEN "answered"
                ELSE IF phase'[r] = "reset" THEN "failed" ELSE "away"
  BY DEF UserPhase

\* Who waits for the service of u is in its queue, and who it serves at it.
LEMMA UserPlaces ==
    ASSUME IInv, NEW u \in Users
    PROVE  /\ \A r \in Reqs :
                /\ UserPhase(u, r) = "waiting" <=> r \in Elems(conns[u])
                /\ UserPhase(u, r) = "serving" <=> r = at[u]
                /\ UserPhase(u, r) \in {"away", "waiting", "serving", "answered", "failed"}
           /\ Service(u)!In("waiting") = Elems(conns[u])
           /\ Service(u)!In("serving") = {at[u]} \ {NoReq}
           /\ Service(u)!In("refused") = {}
<1>1. ASSUME NEW r \in Reqs
      PROVE  /\ UserPhase(u, r) = "waiting" <=> r \in Elems(conns[u])
             /\ UserPhase(u, r) = "serving" <=> r = at[u]
             /\ UserPhase(u, r) \in {"away", "waiting", "serving", "answered", "failed"}
  <2>1. r = at[u] => phase[r] = "proxied" /\ name[r] = u /\ r \notin Elems(conns[u])
    BY SystemAssumption DEF IInv, ServerInv
  <2>2. r \in Elems(conns[u]) => phase[r] = "proxied" /\ name[r] = u
    BY DEF IInv, ServerInv
  <2>3. phase[r] = "proxied" /\ name[r] = u => r \in Elems(conns[u]) \cup {at[u]}
    BY DEF IInv, ServerInv
  <2> QED
    BY <2>1, <2>2, <2>3, UserPhases
<1>2. Elems(conns[u]) \subseteq Reqs /\ at[u] \in Reqs \cup {NoReq}
  BY QueueTypes DEF IInv, Types
<1>3. \A p : Service(u)!In(p) = {r \in Reqs : UserPhase(u, r) = p}
  BY DEF Service!In
<1>4. Service(u)!In("refused") = {}
  BY <1>1, <1>3
<1> QED
  BY <1>1, <1>2, <1>3, <1>4

Moves(u) == Service(u)!Next \/ UNCHANGED Service(u)!vars
SameUnits(u) == (u \in svc' <=> u \in svc) /\ (u \in sock' <=> u \in sock)

\* A step that does not concern the service of u.
LEMMA Unseen ==
    ASSUME NEW u \in Users, SameUnits(u),
           \A r \in Reqs : UserPhase(u, r)' = UserPhase(u, r)
    PROVE  Moves(u)
<1>1. [r \in Reqs |-> UserPhase(u, r)]' = [r \in Reqs |-> UserPhase(u, r)]
  OBVIOUS
<1>2. (u \in svc)' = (u \in svc) /\ (u \in sock)' = (u \in sock)
  BY DEF SameUnits
<1> QED
  BY <1>1, <1>2 DEF Moves, Service!vars

\* One request moves on, by an action of ConnService.
LEMMA OneMoves ==
    ASSUME NEW u \in Users, SameUnits(u), NEW r \in Reqs,
           \A q \in Reqs \ {r} : UserPhase(u, q)' = UserPhase(u, q),
           LET from == UserPhase(u, r)
               to == UserPhase(u, r)'
           IN  \/ /\ from \in {"away", "answered", "failed"}
                  /\ to = "away" \/ (to = "waiting" /\ Listening(u))
               \/ /\ from = "waiting" /\ to = "serving" /\ u \in svc
                  /\ Service(u)!In("serving") = {}
               \/ from = "serving" /\ to \in {"answered", "failed"} /\ u \in svc
    PROVE  Moves(u)
<1> DEFINE from == UserPhase(u, r)
           to == UserPhase(u, r)'
<1>1. [q \in Reqs |-> UserPhase(u, q)]' = [[q \in Reqs |-> UserPhase(u, q)] EXCEPT ![r] = to]
  OBVIOUS
<1>2. (u \in svc)' = (u \in svc) /\ (u \in sock)' = (u \in sock)
  BY DEF SameUnits
<1>3. [q \in Reqs |-> UserPhase(u, q)][r] = from
  OBVIOUS
<1> HIDE DEF to
<1>4. CASE from \in {"away", "answered", "failed"} /\ to = "away"
  <2>1. Service(u)!Leave(r)
    BY <1>1, <1>2, <1>3, <1>4 DEF Service!Leave, Service!Ended
  <2> QED
    BY <2>1 DEF Moves, Service!Next
<1>5. CASE from \in {"away", "answered", "failed"} /\ to = "waiting" /\ Listening(u)
  <2>1. Service(u)!Arrive(r)
    BY <1>1, <1>2, <1>3, <1>5 DEF Service!Arrive, Service!Ended, Listening
  <2> QED
    BY <2>1 DEF Moves, Service!Next
<1>6. CASE from = "waiting" /\ to = "serving" /\ u \in svc /\ Service(u)!In("serving") = {}
  <2>1. Service(u)!Serve(r)
    BY <1>1, <1>2, <1>3, <1>6 DEF Service!Serve
  <2> QED
    BY <2>1 DEF Moves, Service!Next
<1>7. CASE from = "serving" /\ to \in {"answered", "failed"} /\ u \in svc
  <2>1. Service(u)!Conclude(r)
    BY <1>1, <1>2, <1>3, <1>7 DEF Service!Conclude
  <2> QED
    BY <2>1 DEF Moves, Service!Next
<1> QED
  BY <1>4, <1>5, <1>6, <1>7 DEF to

\* The service goes down: what it was serving fails, and what waits for it does
\* too unless its .socket keeps that.
LEMMA GoesDown ==
    ASSUME IInv, NEW u \in Users, u \in svc, u \notin svc', u \in sock' <=> u \in sock,
           \A q \in Reqs : UserPhase(u, q)' =
               IF q = at[u] \/ (u \notin sock /\ q \in Elems(conns[u])) THEN "failed"
               ELSE UserPhase(u, q)
    PROVE  Moves(u)
<1> DEFINE S == IF u \in sock THEN {} ELSE Elems(conns[u])
<1>1. /\ Service(u)!In("waiting") = Elems(conns[u])
      /\ \A r \in Reqs : UserPhase(u, r) = "serving" <=> r = at[u]
      /\ \A r \in Reqs : UserPhase(u, r) # "refused"
  BY UserPlaces
<1>2. S \in SUBSET Service(u)!In("waiting")
  BY <1>1
<1>3. IF u \in sock THEN Service(u)!Cardinality(S) <= 1 ELSE S = Service(u)!In("waiting")
  <2>1. Cardinality({}) = 0
    BY FS_EmptySet
  <2>2. Service(u)!Cardinality({}) = 0
    BY <2>1 DEF Cardinality, Service!Cardinality
  <2> QED
    BY <1>1, <2>2
<1>4. S # {} => u \notin sock
  OBVIOUS
<1>5. [q \in Reqs |-> UserPhase(u, q)]' =
        [q \in Reqs |->
           IF q \in S \/ [r \in Reqs |-> UserPhase(u, r)][q] = "serving" THEN "failed"
           ELSE IF [r \in Reqs |-> UserPhase(u, r)][q] = "refused" THEN "closed"
           ELSE [r \in Reqs |-> UserPhase(u, r)][q]]
  BY <1>1
<1>6. (u \in svc)' = FALSE /\ (u \in sock)' = (u \in sock)
  OBVIOUS
<1> HIDE DEF S
<1>7. S # {} => Service(u)!In("serving") = {} \/ ~(u \in sock)
  BY <1>4
<1>8. Service(u)!GoDown(S)
  BY <1>3, <1>5, <1>6, <1>7 DEF Service!GoDown
<1> QED
  BY <1>2, <1>8 DEF Moves, Service!Next

\* The .socket goes down: what waits fails with it, unless the server runs.
LEMMA Withdrawn ==
    ASSUME IInv, NEW u \in Users, u \in sock, u \notin sock', u \in svc' <=> u \in svc,
           \A q \in Reqs : UserPhase(u, q)' =
               IF u \notin svc /\ q \in Elems(conns[u]) THEN "failed" ELSE UserPhase(u, q)
    PROVE  Moves(u)
<1>1. \A r \in Reqs : UserPhase(u, r) = "waiting" <=> r \in Elems(conns[u])
  BY UserPlaces
<1>2. [q \in Reqs |-> UserPhase(u, q)]' =
        [q \in Reqs |->
           IF ~(u \in svc) /\ [r \in Reqs |-> UserPhase(u, r)][q] = "waiting" THEN "failed"
           ELSE [r \in Reqs |-> UserPhase(u, r)][q]]
  BY <1>1
<1>3. (u \in svc)' = (u \in svc) /\ (u \in sock)' = FALSE
  OBVIOUS
<1>4. Service(u)!Withdraw
  BY <1>2, <1>3 DEF Service!Withdraw
<1> QED
  BY <1>4 DEF Moves, Service!Next

\* What goes on between nginx and the helper is not seen by any service.
LEMMA HelperUnseen ==
    ASSUME IInv, NEW S, NEW p \in {"denied", "200", "nosock"}, Over(S, p),
           UNCHANGED <<at, sock, svc>>,
           \A r \in S \cap Reqs : phase[r] \in AtHelper \cup {"200"},
           NEW u \in Users
    PROVE  Moves(u)
<1>1. ASSUME NEW r \in Reqs
      PROVE  UserPhase(u, r)' = UserPhase(u, r)
  <2>1. /\ phase'[r] = IF r \in S THEN p ELSE phase[r]
        /\ r \notin S => name'[r] = name[r]
    BY OverFields DEF IInv, Phases
  <2> QED
    BY <2>1, UserPhases DEF AtHelper
<1>2. SameUnits(u)
  BY DEF SameUnits
<1> QED
  BY <1>1, <1>2, Unseen

LEMMA OpenServed ==
    ASSUME IInv, NEW r \in Reqs, NEW n \in Names, NEW p \in {Web, Root}, Open(r, n, p),
           NEW u \in Users
    PROVE  Moves(u)
<1> USE DEF unitVars, connVars
<1>1. phase[r] \in Ended /\ phase'[r] = "open" /\ UNCHANGED at
  BY DEF Open, IInv, Types
<1>2. \A q \in Reqs \ {r} : phase'[q] = phase[q] /\ name'[q] = name[q]
  BY DEF Open, IInv, Types
<1>3. \A q \in Reqs \ {r} : UserPhase(u, q)' = UserPhase(u, q)
  BY <1>1, <1>2, UserPhases
<1>4. UserPhase(u, r) \in {"away", "answered", "failed"} /\ UserPhase(u, r)' = "away"
  BY <1>1, UserPhases DEF Ended
<1>5. SameUnits(u)
  BY DEF Open, SameUnits
<1> QED
  BY <1>3, <1>4, <1>5, OneMoves

LEMMA ConnectServed ==
    ASSUME IInv, NEW r \in Reqs, Connect(r), NEW u \in Users
    PROVE  Moves(u)
<1> USE DEF helpVars, unitVars
<1>1. phase[r] = "200" /\ UNCHANGED <<at, sock, svc>>
  BY DEF Connect
<1>2. CASE Listening(name[r])
  <2>1. /\ phase'[r] = "proxied" /\ \A q \in Reqs \ {r} : phase'[q] = phase[q]
        /\ name' = name
    BY <1>2 DEF Connect, IInv, Types
  <2>2. at[u] # r
    BY <1>1 DEF IInv, ServerInv, Types
  <2>3. /\ UserPhase(u, r) = "away"
        /\ UserPhase(u, r)' = IF name[r] = u THEN "waiting" ELSE "away"
    BY <1>1, <2>1, <2>2, UserPhases
  <2>4. \A q \in Reqs \ {r} : UserPhase(u, q)' = UserPhase(u, q)
    BY <1>1, <2>1, UserPhases
  <2>5. SameUnits(u)
    BY <1>1 DEF SameUnits
  <2> QED
    BY <1>2, <2>3, <2>4, <2>5, OneMoves
<1>3. CASE ~Listening(name[r])
  <2>1. Over({r}, "nosock")
    BY <1>3 DEF Connect
  <2> QED
    BY <1>1, <2>1, HelperUnseen
<1> QED
  BY <1>2, <1>3

\* A request that the helper answers, or turns away, is at no service yet.
LEMMA HelperServed ==
    ASSUME IInv, NEW u \in Users,
           \/ HelperTurnsAway \/ HelperReadsEof \/ HelperRefuses \/ HelperAnswers
           \/ HelperTimesOut \/ HelperEnds
    PROVE  Moves(u)
<1> USE DEF unitVars, connVars
<1>1. cur \in Reqs => phase[cur] \in AtHelper
  BY DEF IInv, HelperInv
<1>2. CASE HelperTurnsAway
  <2>1. phase[Head(asks)] \in AtHelper
    BY <1>2, OldestAsk DEF HelperTurnsAway
  <2> QED
    BY <1>2, <2>1, HelperUnseen DEF HelperTurnsAway
<1>3. CASE HelperEnds
  BY <1>1, <1>3, HelperUnseen DEF HelperEnds
<1>4. ASSUME NEW status \in {"denied", "200"}, AnswerWith(status)
      PROVE  Moves(u)
  <2>1. PICK p \in {"denied", "200"} : Over({cur}, p)
    BY <1>4 DEF AnswerWith
  <2> QED
    BY <1>1, <1>4, <2>1, HelperUnseen DEF AnswerWith
<1> QED
  BY <1>2, <1>3, <1>4 DEF HelperReadsEof, HelperRefuses, HelperAnswers, HelperTimesOut, Answer

\* systemd is done with a start job.
LEMMA JobRunsServed ==
    ASSUME IInv, NEW v \in Users, JobRuns(v), NEW u \in Users
    PROVE  Moves(u)
<1>1. \A q \in Reqs : UserPhase(u, q)' = UserPhase(u, q)
  BY UserPhases DEF JobRuns, reqVars, connVars
<1>2. UNCHANGED svc /\ (sock' = sock \/ (sock' = sock \cup {v} /\ (v \in sock \/ v \notin svc)))
  BY DEF JobRuns
<1>3. CASE sock' = sock \/ v # u \/ v \in sock
  BY <1>1, <1>2, <1>3, Unseen DEF SameUnits
<1>4. CASE sock' = sock \cup {v} /\ v = u /\ u \notin sock /\ u \notin svc
  <2>1. [q \in Reqs |-> UserPhase(u, q)]' = [q \in Reqs |-> UserPhase(u, q)]
    BY <1>1
  <2>2. (u \in svc)' = (u \in svc) /\ (u \in sock)' = TRUE
    BY <1>2, <1>4
  <2>3. Service(u)!Provide
    BY <1>4, <2>1, <2>2 DEF Service!Provide
  <2> QED
    BY <2>3 DEF Moves, Service!Next
<1> QED
  BY <1>2, <1>3, <1>4

LEMMA ActivateServed ==
    ASSUME IInv, NEW v \in Users, Activate(v), NEW u \in Users
    PROVE  Moves(u)
<1>1. \A q \in Reqs : UserPhase(u, q)' = UserPhase(u, q)
  BY UserPhases DEF Activate, reqVars, connVars
<1>2. sock' = sock /\ svc' = svc \cup {v} /\ v \in sock /\ v \notin svc /\ conns[v] # <<>>
  BY DEF Activate, Waiting
<1>3. CASE v # u
  BY <1>1, <1>2, <1>3, Unseen DEF SameUnits
<1>4. CASE v = u
  <2>1. Head(conns[u]) \in Elems(conns[u])
    BY <1>2, <1>4, TailDistinct DEF IInv, Types, ServerInv
  <2>2. Service(u)!In("waiting") # {}
    BY <2>1, UserPlaces
  <2>3. [q \in Reqs |-> UserPhase(u, q)]' = [q \in Reqs |-> UserPhase(u, q)]
    BY <1>1
  <2>4. (u \in svc)' = TRUE /\ (u \in sock)' = (u \in sock)
    BY <1>2, <1>4
  <2>5. Service(u)!ComeUp
    BY <1>2, <1>4, <2>2, <2>3, <2>4 DEF Service!ComeUp
  <2> QED
    BY <2>5 DEF Moves, Service!Next
<1> QED
  BY <1>3, <1>4

LEMMA SocketGoesServed ==
    ASSUME IInv, NEW v \in Users, SocketGoes(v), NEW u \in Users
    PROVE  Moves(u)
<1>1. sock' = sock \ {v} /\ UNCHANGED <<svc, at>>
  BY DEF SocketGoes
<1>2. \A r \in Reqs : r \in Elems(conns[v]) => phase[r] = "proxied" /\ name[r] = v /\ at[v] # r
  BY DEF IInv, ServerInv
<1>3. \A r \in Reqs :
        /\ name'[r] = name[r]
        /\ phase'[r] = IF v \notin svc /\ r \in Elems(conns[v]) THEN "reset" ELSE phase[r]
  <2>1. CASE v \in svc
    BY <2>1 DEF SocketGoes, reqVars
  <2>2. CASE v \notin svc
    BY <2>2, OverFields DEF SocketGoes, IInv, Phases
  <2> QED
    BY <2>1, <2>2
<1>4. \A r \in Reqs : UserPhase(u, r)' =
        IF u = v /\ v \notin svc /\ r \in Elems(conns[v]) THEN "failed" ELSE UserPhase(u, r)
  BY <1>1, <1>2, <1>3, UserPhases
<1>5. CASE u = v /\ u \in sock
  BY <1>1, <1>4, <1>5, Withdrawn
<1>6. CASE u = v /\ u \notin sock
  <2>1. u \in svc \/ Elems(conns[u]) = {}
    BY <1>6 DEF IInv, ServerInv, Listening, Elems
  <2> QED
    BY <1>1, <1>4, <1>6, <2>1, Unseen DEF SameUnits
<1>7. CASE u # v
  BY <1>1, <1>4, <1>7, Unseen DEF SameUnits
<1> QED
  BY <1>5, <1>6, <1>7

LEMMA ServeServed ==
    ASSUME IInv, NEW v \in Users, Serve(v), NEW u \in Users
    PROVE  Moves(u)
<1>1. PICK h \in Reqs : h = Head(conns[v]) /\ phase[h] = "proxied" /\ name[h] = v
  BY TailDistinct DEF Serve, IInv, Types, ServerInv
<1>2. /\ v \in svc /\ at[v] = NoReq /\ UNCHANGED <<phase, name, svc, sock>>
      /\ \A w \in Users : at'[w] = IF w = v THEN h ELSE at[w]
  BY <1>1 DEF Serve, reqVars, unitVars, IInv, Types
<1>3. SameUnits(u)
  BY <1>2 DEF SameUnits
<1>4. \A q \in Reqs \ {h} : UserPhase(u, q)' = UserPhase(u, q)
  BY <1>2, UserPhases, SystemAssumption
<1>5. CASE u # v
  BY <1>1, <1>2, <1>3, <1>4, <1>5, UserPhases, Unseen
<1>6. CASE u = v
  <2>1. UserPhase(u, h) = "waiting" /\ UserPhase(u, h)' = "serving"
    BY <1>1, <1>2, <1>6, UserPhases, SystemAssumption
  <2>2. Service(u)!In("serving") = {}
    BY <1>2, <1>6, UserPlaces
  <2> QED
    BY <1>1, <1>2, <1>3, <1>4, <1>6, <2>1, <2>2, OneMoves
<1> QED
  BY <1>5, <1>6

LEMMA RespondServed ==
    ASSUME IInv, NEW v \in Users, Respond(v), NEW u \in Users
    PROVE  Moves(u)
<1>1. PICK c \in Reqs : c = at[v] /\ phase[c] = "proxied" /\ name[c] = v /\ v \in svc
  BY DEF Respond, IInv, Types, ServerInv
<1>2. PICK p \in {"reset", "ok"} : Over({c}, p)
  BY <1>1 DEF Respond
<1>3. /\ \A r \in Reqs : phase'[r] = IF r = c THEN p ELSE phase[r]
      /\ \A r \in Reqs : name'[r] = name[r]
      /\ \A w \in Users : at'[w] = IF w = v THEN NoReq ELSE at[w]
      /\ UNCHANGED <<svc, sock>>
  <2>1. /\ \A r \in Reqs : phase'[r] = IF r = c THEN p ELSE phase[r]
        /\ \A r \in Reqs : name'[r] = name[r]
    BY <1>2, OverFields DEF IInv, Phases
  <2> QED
    BY <2>1 DEF Respond, unitVars, IInv, Types
<1>4. SameUnits(u)
  BY <1>3 DEF SameUnits
<1>5. \A q \in Reqs \ {c} : UserPhase(u, q)' = UserPhase(u, q)
  BY <1>1, <1>3, UserPhases, SystemAssumption
<1>6. CASE u # v
  BY <1>1, <1>3, <1>4, <1>5, <1>6, UserPhases, Unseen
<1>7. CASE u = v
  <2>1. UserPhase(u, c) = "serving" /\ UserPhase(u, c)' \in {"answered", "failed"}
    BY <1>1, <1>3, <1>7, UserPhases
  <2> QED
    BY <1>1, <1>4, <1>5, <1>7, <2>1, OneMoves
<1> QED
  BY <1>6, <1>7

LEMMA IdleExitServed ==
    ASSUME IInv, NEW v \in Users, IdleExit(v), NEW u \in Users
    PROVE  Moves(u)
<1>1. \A q \in Reqs : UserPhase(u, q)' = UserPhase(u, q)
  BY UserPhases DEF IdleExit, reqVars, connVars
<1>2. v \in svc /\ at[v] = NoReq /\ Elems(conns[v]) = {} /\ sock' = sock /\ svc' = svc \ {v}
  BY DEF IdleExit, Elems
<1>3. CASE v # u
  BY <1>1, <1>2, <1>3, Unseen DEF SameUnits
<1>4. CASE v = u
  BY <1>1, <1>2, <1>4, GoesDown, SystemAssumption
<1> QED
  BY <1>3, <1>4

LEMMA ServiceEndsServed ==
    ASSUME IInv, NEW v \in Users, ServiceEnds(v), NEW u \in Users
    PROVE  Moves(u)
<1> DEFINE S == {at[v]} \cup (IF v \in sock THEN {} ELSE Elems(conns[v]))
<1>1. /\ v \in svc /\ svc' = svc \ {v} /\ sock' = sock
      /\ at' = [at EXCEPT ![v] = NoReq]
      /\ Over(S, "reset")
  BY DEF ServiceEnds
<1>2. \A r \in Reqs : r \in S => phase[r] = "proxied" /\ name[r] = v
  BY DEF IInv, ServerInv
<1>3. /\ \A r \in Reqs : phase'[r] = IF r \in S THEN "reset" ELSE phase[r]
      /\ \A r \in Reqs : name'[r] = name[r]
      /\ \A w \in Users : at'[w] = IF w = v THEN NoReq ELSE at[w]
  BY <1>1, OverFields DEF IInv, Types, Phases
<1>4. \A r \in Reqs : r \in S <=> r = at[v] \/ (v \notin sock /\ r \in Elems(conns[v]))
  OBVIOUS
<1> HIDE DEF S
<1>5. \A r \in Reqs : UserPhase(u, r)' =
        IF u = v /\ r \in S THEN "failed" ELSE UserPhase(u, r)
  BY <1>2, <1>3, <1>4, UserPhases, SystemAssumption
<1>6. CASE u = v
  BY <1>1, <1>4, <1>5, <1>6, GoesDown
<1>7. CASE u # v
  BY <1>1, <1>5, <1>7, Unseen DEF SameUnits
<1> QED
  BY <1>6, <1>7

\* Every step of the host is a step of each user's service, or none of it.
LEMMA NextServed ==
    ASSUME IInv, [Next]_vars, NEW u \in Users
    PROVE  Moves(u)
<1>1. CASE UNCHANGED <<phase, name, at, sock, svc>>
  BY <1>1, UserPhases, Unseen DEF SameUnits
<1>2. CASE \/ HelperStarts \/ HelperAccepts \/ HelperRuns \/ UNCHANGED vars
           \/ \E r \in Reqs : HangUp(r)
           \/ \E v \in Users : JobHangs(v)
  BY <1>1, <1>2 DEF HelperStarts, HelperAccepts, HelperRuns, HangUp, JobHangs,
     vars, reqVars, unitVars, connVars
<1>3. CASE \E r \in Reqs : Send(r)
  <2>1. PICK r \in Reqs : Send(r)
    BY <1>3
  <2>2. /\ UNCHANGED <<name, at, sock, svc>>
        /\ \A q \in Reqs : phase'[q] = phase[q] \/ (phase[q] = "open" /\ phase'[q] = "sent")
    BY <2>1 DEF Send, IInv, Types, unitVars, connVars
  <2>3. \A q \in Reqs : UserPhase(u, q)' = UserPhase(u, q)
    BY <2>2, UserPhases
  <2> QED
    BY <2>2, <2>3, Unseen DEF SameUnits
<1> QED
  BY <1>2, <1>3, HelperServed, ConnectServed, OpenServed, JobRunsServed, ActivateServed,
     SocketGoesServed, ServeServed, RespondServed, IdleExitServed, ServiceEndsServed
  DEF Next, HelperStep, NginxStep, UnitStep, ServerStep, SocketStops, GivesUp

\* The socket and service of each user are what ConnService promises, through
\* every start and stop of them, timeout and crash: at most one connection is
\* served at a time, none is answered after it has failed, and those that wait
\* outlive the server exactly as long as its .socket is active.
THEOREM UsersServedCorrect == Spec => UsersServed
<1>1. Init => \A u \in Users : Service(u)!Init
  <2> SUFFICES ASSUME Init, NEW u \in Users PROVE Service(u)!Init
    OBVIOUS
  <2>1. \A r \in Reqs : UserPhase(u, r) = "away"
    BY UserPhases, SystemAssumption DEF Init
  <2> QED
    BY <2>1 DEF Service!Init
<1>2. IInv /\ [Next]_vars =>
        [\A u \in Users : Service(u)!Next \/ UNCHANGED Service(u)!vars]_vars
  BY NextServed DEF Moves
<1> QED
  BY <1>1, <1>2, IInvCorrect, PTL DEF Spec, UsersServed
=============================================================================
