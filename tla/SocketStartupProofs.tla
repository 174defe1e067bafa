-------------------------- MODULE SocketStartupProofs --------------------------
(* Theorems about SocketStartup, for any number of servers and of users. *)
EXTENDS SocketStartup, TLAPS

\* A server past its chmod() finds its own socket at the path private, or does
\* not find it there at all: the file may be gone, but it never comes back.
PastChmod ==
    \A s \in Servers :
        path # NoSocket /\ path.server = s /\ kind[s] = "path"
                        /\ pc[s] \in {"listen", "up"}
            => path.private

\* What main() has settled by the time that a server starts, and that the
\* system calls leave alone: a server that creates its socket is for its own
\* user, and one that is up on a unix socket knows whom it is for.
Settled ==
    \A s \in Servers :
        /\ pc[s] \in Starting \cup {"up"} => kind[s] \in Kinds /\ wanted[s] \in Uids
        /\ pc[s] \in Creating => kind[s] = "path"
        /\ pc[s] = "adopt" => kind[s] \in {"unix fd", "inet fd"}
        /\ pc[s] = "port" => kind[s] = "port"
        /\ kind[s] = "path" => wanted[s] = Self
        /\ pc[s] = "up" /\ kind[s] \in {"unix fd", "path"} => peer[s] = wanted[s]

IInv == TypeOK /\ PastChmod /\ Settled

\* Start() chooses a kind, and the path only for its own user.
LEMMA StartChooses ==
    ASSUME NEW i \in Invocations
    PROVE  /\ Kind(i) \in Kinds /\ AllowedUid(i) \in Uids
           /\ First[Kind(i)] \in {"adopt", "port", "unlink"}
           /\ First[Kind(i)] = "unlink" => Kind(i) = "path"
           /\ First[Kind(i)] = "adopt" => Kind(i) \in {"unix fd", "inet fd"}
           /\ First[Kind(i)] = "port" => Kind(i) = "port"
           /\ ~Useless(i) /\ Kind(i) = "path" => AllowedUid(i) = Self
<1>1. Kind(i) \in Kinds
  BY DEF Kind, Kinds
<1>2. AllowedUid(i) \in Uids
  BY SocketAssumption DEF AllowedUid, Invocations
<1>3. \A k \in Kinds :
        /\ First[k] \in {"adopt", "port", "unlink"}
        /\ First[k] = "unlink" => k = "path"
        /\ First[k] = "adopt" => k \in {"unix fd", "inet fd"}
        /\ First[k] = "port" => k = "port"
  BY DEF First, Kinds
<1> QED
  BY <1>1, <1>2, <1>3 DEF Useless

\* A server that comes up finds PastChmod and Settled as it leaves them.
LEMMA UpKeeps ==
    ASSUME IInv, NEW s \in Servers, pc[s] \in {"adopt", "port", "listen"}, Up(s)
    PROVE  IInv'
<1> USE SocketAssumption DEF IInv, Goes, Starting, Creating
<1>1. TypeOK'
  BY DEF Up, TypeOK, Kinds
<1>2. PastChmod'
  BY DEF Up, PastChmod, TypeOK, Settled
<1>3. Settled'
  BY DEF Up, Settled, TypeOK, Family, Kinds
<1> QED
  BY <1>1, <1>2, <1>3

\* The initial state and every step of a server starting, failing or stopping
\* keep PastChmod and Settled.
LEMMA IInvCorrect == Spec => []IInv
<1>1. Init => IInv
  BY SocketAssumption
  DEF Init, IInv, TypeOK, PastChmod, Settled, Starting, Creating, Kinds
<1>2. IInv /\ [Next]_vars => IInv'
  <2> SUFFICES ASSUME IInv, [Next]_vars PROVE IInv'
    OBVIOUS
  <2> USE SocketAssumption DEF IInv, Goes, Starting, Creating
  <2>1. ASSUME NEW s \in Servers, NEW i \in Invocations, Start(s, i) PROVE IInv'
    <3>1. TypeOK'
      BY <2>1, StartChooses DEF Start, TypeOK
    <3>2. PastChmod'
      BY <2>1, StartChooses DEF Start, TypeOK, PastChmod
    <3>3. Settled'
      BY <2>1, StartChooses DEF Start, TypeOK, Settled
    <3> QED
      BY <3>1, <3>2, <3>3
  <2>2. ASSUME NEW s \in Servers, Reject(s) PROVE IInv'
    BY <2>2 DEF Reject, TypeOK, PastChmod, Settled
  <2>3. ASSUME NEW s \in Servers, Fail(s) PROVE IInv'
    BY <2>3 DEF Fail, TypeOK, PastChmod, Settled
  <2>4. ASSUME NEW s \in Servers, Adopt(s) PROVE IInv'
    BY <2>3, <2>4, UpKeeps DEF Adopt
  <2>5. ASSUME NEW s \in Servers, BindPort(s) PROVE IInv'
    BY <2>3, <2>5, UpKeeps DEF BindPort
  <2>6. ASSUME NEW s \in Servers, Unlink(s) PROVE IInv'
    BY <2>6 DEF Unlink, TypeOK, PastChmod, Settled
  <2>7. ASSUME NEW s \in Servers, Bind(s) PROVE IInv'
    <3>1. CASE path = NoSocket
      <4>1. /\ path' = [server |-> s, private |-> FALSE]
            /\ pc' = [pc EXCEPT ![s] = "chmod"] /\ pc[s] = "bind"
            /\ UNCHANGED <<kind, wanted, peer, quit>>
        BY <2>7, <3>1 DEF Bind
      <4>2. TypeOK'
        BY <4>1 DEF TypeOK
      <4>3. PastChmod'
        BY <4>1 DEF TypeOK, PastChmod
      <4>4. Settled'
        BY <4>1 DEF TypeOK, Settled
      <4> QED
        BY <4>2, <4>3, <4>4
    <3>2. CASE path # NoSocket
      BY <2>3, <2>7, <3>2 DEF Bind, Fail
    <3> QED
      BY <3>1, <3>2
  <2>8. ASSUME NEW s \in Servers, Chmod(s) PROVE IInv'
    <3>1. CASE path = NoSocket
      BY <2>3, <2>8, <3>1 DEF Chmod, Fail
    <3>2. CASE path # NoSocket
      <4>1. /\ path' = [path EXCEPT !.private = TRUE]
            /\ pc' = [pc EXCEPT ![s] = "listen"] /\ pc[s] = "chmod"
            /\ UNCHANGED <<kind, wanted, peer, quit>>
        BY <2>8, <3>2 DEF Chmod
      <4>2. path' \in [server : Servers, private : BOOLEAN] /\ path'.private
        BY <3>2, <4>1 DEF TypeOK
      <4>3. TypeOK'
        BY <4>1, <4>2 DEF TypeOK
      <4>4. PastChmod'
        BY <4>2 DEF PastChmod
      <4>5. Settled'
        BY <4>1 DEF TypeOK, Settled
      <4> QED
        BY <4>3, <4>4, <4>5
    <3> QED
      BY <3>1, <3>2
  <2>9. ASSUME NEW s \in Servers, Listen(s) PROVE IInv'
    BY <2>9, UpKeeps DEF Listen
  <2>10. ASSUME NEW s \in Servers, Stop(s) PROVE IInv'
    BY <2>10 DEF Stop, TypeOK, PastChmod, Settled, Kinds
  <2>11. CASE UNCHANGED vars
    BY <2>11 DEF vars, TypeOK, PastChmod, Settled
  <2> QED
    BY <2>1, <2>2, <2>4, <2>5, <2>6, <2>7, <2>8, <2>9, <2>10, <2>11 DEF Next
<1> QED
  BY <1>1, <1>2, PTL DEF Spec

\* However many servers race for the path, a socket that can be connected to
\* there has been through its chmod(), its own server's or another's.
THEOREM OwnerOnlyCorrect == Spec => []OwnerOnly
<1>1. IInv => OwnerOnly
  BY DEF IInv, PastChmod, OwnerOnly, Serving
<1> QED
  BY <1>1, IInvCorrect, PTL

\* A server on a unix socket, whether of systemd or its own, serves exactly the
\* user that its command line asks for, however its start is interleaved.
THEOREM ServesWantedCorrect == Spec => []ServesWanted
<1>1. IInv => ServesWanted
  <2> SUFFICES ASSUME IInv, NEW s \in Servers, pc[s] = "up", CanConnect(s) # {},
                      kind[s] \in {"unix fd", "path"}
               PROVE  Served(s) = {wanted[s]}
    BY DEF ServesWanted
  <2>1. peer[s] = wanted[s] /\ wanted[s] \in Uids /\ wanted[s] # NoUid
    BY SocketAssumption DEF IInv, Settled
  <2>2. wanted[s] \in CanConnect(s)
    BY <2>1, SocketAssumption DEF IInv, Settled, CanConnect
  <2> QED
    BY <2>1, <2>2 DEF Served
<1> QED
  BY <1>1, IInvCorrect, PTL
-----------------------------------------------------------------------------
(* The race for the path.                                                   *)

\* As long as nobody on the path has stopped, a socket that is there is on its
\* way to being served, or is; and if none is there, someone is about to bind
\* one: whoever removes a file goes on to bind, and only a bind fails a bind.
Race ==
    ~quit =>
        /\ path # NoSocket =>
              kind[path.server] = "path" /\ pc[path.server] \in {"chmod", "listen", "up"}
        /\ path = NoSocket /\ (\E s \in Servers : kind[s] = "path" /\ pc[s] # "off")
              => \E s \in Servers : pc[s] \in {"unlink", "bind"}

\* A server that comes up stays in the race, if it was in it.
LEMMA UpRaces ==
    ASSUME IInv, Race, NEW s \in Servers, pc[s] \in {"adopt", "port", "listen"}, Up(s)
    PROVE  Race'
<1>1. /\ pc' = [pc EXCEPT ![s] = "up"] /\ UNCHANGED <<kind, path, quit>>
      /\ pc \in [Servers -> Starting \cup {"off", "failed", "up"}]
      /\ pc[s] # "off"
  BY DEF Up, Goes, IInv, TypeOK
<1>2. path # NoSocket => path.server \in Servers
  BY DEF IInv, TypeOK
<1>3. pc'[s] = "up" /\ \A t \in Servers \ {s} : pc'[t] = pc[t]
  BY <1>1
<1> QED
  BY <1>1, <1>2, <1>3 DEF Race

\* A server that is not at the path fails, or one whose bind() fails because
\* another has the path, or whose chmod() fails because another will.
LEMMA FailRaces ==
    ASSUME IInv, Race, NEW s \in Servers, Fail(s),
           \/ pc[s] \in {"adopt", "port"}
           \/ pc[s] = "bind" /\ path # NoSocket
           \/ pc[s] = "chmod" /\ path = NoSocket
    PROVE  Race'
<1>1. /\ pc' = [pc EXCEPT ![s] = "failed"] /\ UNCHANGED <<kind, path, quit>>
      /\ pc \in [Servers -> Starting \cup {"off", "failed", "up"}]
      /\ pc[s] # "off"
  BY DEF Fail, Goes, IInv, TypeOK
<1>2. path # NoSocket => path.server \in Servers
  BY DEF IInv, TypeOK
<1>3. pc'[s] = "failed" /\ \A t \in Servers \ {s} : pc'[t] = pc[t]
  BY <1>1
<1> QED
  BY <1>1, <1>2, <1>3 DEF Race

\* Every step keeps the race going: a server that starts on the path will bind,
\* and of those that lose some other's socket is at the path.
LEMMA RaceCorrect == Spec => []Race
<1>1. Init => Race
  BY SocketAssumption DEF Init, Race
<1>2. IInv /\ Race /\ [Next]_vars => Race'
  <2> SUFFICES ASSUME IInv, Race, [Next]_vars PROVE Race'
    OBVIOUS
  <2>a. /\ pc \in [Servers -> Starting \cup {"off", "failed", "up"}]
        /\ kind \in [Servers -> Kinds \cup {"none"}]
        /\ path # NoSocket => path \in [server : Servers, private : BOOLEAN]
        /\ quit \in BOOLEAN
        /\ \A s \in Servers : pc[s] \in Creating => kind[s] = "path"
    BY DEF IInv, TypeOK, Settled
  <2>b. path # NoSocket => path.server \in Servers
    BY <2>a
  <2>1. ASSUME NEW s \in Servers, NEW i \in Invocations, Start(s, i) PROVE Race'
    <3>1. /\ pc' = [pc EXCEPT ![s] = First[Kind(i)]] /\ UNCHANGED <<path, quit>>
          /\ kind' = [kind EXCEPT ![s] = Kind(i)]
          /\ pc[s] \in {"off", "failed"}
          /\ Kind(i) = "path" => First[Kind(i)] = "unlink"
      BY <2>1, StartChooses DEF Start, Goes, First, Kinds
    <3>2. /\ pc'[s] = First[Kind(i)] /\ kind'[s] = Kind(i)
          /\ \A t \in Servers \ {s} : pc'[t] = pc[t] /\ kind'[t] = kind[t]
      BY <2>a, <3>1
    <3> QED
      BY <2>b, <3>1, <3>2 DEF Race
  <2>2. ASSUME NEW s \in Servers, Reject(s) PROVE Race'
    <3>1. /\ pc' = [pc EXCEPT ![s] = "failed"] /\ UNCHANGED <<path, quit>>
          /\ kind' = [kind EXCEPT ![s] = "none"]
          /\ pc[s] \in {"off", "failed"}
      BY <2>2 DEF Reject, Goes
    <3>2. /\ pc'[s] = "failed" /\ kind'[s] = "none"
          /\ \A t \in Servers \ {s} : pc'[t] = pc[t] /\ kind'[t] = kind[t]
      BY <2>a, <3>1
    <3> QED
      BY <2>b, <3>1, <3>2 DEF Race
  <2>3. ASSUME NEW s \in Servers, Adopt(s) PROVE Race'
    BY <2>3, UpRaces, FailRaces DEF Adopt
  <2>4. ASSUME NEW s \in Servers, BindPort(s) PROVE Race'
    BY <2>4, UpRaces, FailRaces DEF BindPort
  <2>5. ASSUME NEW s \in Servers, Unlink(s) PROVE Race'
    <3>1. pc'[s] = "bind" /\ path' = NoSocket
      BY <2>a, <2>5 DEF Unlink, Goes
    <3> QED
      BY <3>1 DEF Race
  <2>6. ASSUME NEW s \in Servers, Bind(s) PROVE Race'
    <3>1. CASE path = NoSocket
      <4>1. /\ path' = [server |-> s, private |-> FALSE]
            /\ pc' = [pc EXCEPT ![s] = "chmod"] /\ pc[s] = "bind"
            /\ kind' = kind
        BY <2>6, <3>1 DEF Bind, Goes
      <4>2. path' \in [server : Servers, private : BOOLEAN] /\ path'.server = s
        BY <4>1
      <4>3. path' # NoSocket
        BY <4>2, SocketAssumption
      <4>4. pc'[s] = "chmod" /\ kind'[s] = "path"
        BY <2>a, <4>1 DEF Creating
      <4> QED
        BY <4>2, <4>3, <4>4 DEF Race
    <3>2. CASE path # NoSocket
      BY <2>6, <3>2, FailRaces DEF Bind, Fail
    <3> QED
      BY <3>1, <3>2
  <2>7. ASSUME NEW s \in Servers, Chmod(s) PROVE Race'
    <3>1. CASE path = NoSocket
      BY <2>7, <3>1, FailRaces DEF Chmod, Fail
    <3>2. CASE path # NoSocket
      <4>1. /\ path' = [path EXCEPT !.private = TRUE]
            /\ pc' = [pc EXCEPT ![s] = "listen"] /\ pc[s] = "chmod"
            /\ UNCHANGED <<kind, quit>>
        BY <2>7, <3>2 DEF Chmod, Goes
      <4>2. /\ path' \in [server : Servers, private : BOOLEAN]
            /\ path' # NoSocket /\ path'.server = path.server
        BY <2>a, <3>2, <4>1, SocketAssumption
      <4>3. pc'[s] = "listen" /\ \A t \in Servers \ {s} : pc'[t] = pc[t]
        BY <2>a, <4>1
      <4> QED
        BY <2>b, <3>2, <4>1, <4>2, <4>3 DEF Race
    <3> QED
      BY <3>1, <3>2
  <2>8. ASSUME NEW s \in Servers, Listen(s) PROVE Race'
    BY <2>8, UpRaces DEF Listen
  <2>9. ASSUME NEW s \in Servers, Stop(s) PROVE Race'
    <3>1. /\ pc' = [pc EXCEPT ![s] = "off"] /\ path' = path
          /\ kind' = [kind EXCEPT ![s] = "none"]
          /\ quit' = (quit \/ kind[s] = "path")
          /\ pc[s] \in Starting \cup {"up"}
      BY <2>9 DEF Stop, Goes
    <3>2. /\ pc'[s] = "off" /\ kind'[s] = "none"
          /\ \A t \in Servers \ {s} : pc'[t] = pc[t] /\ kind'[t] = kind[t]
      BY <2>a, <3>1
    <3>3. CASE kind[s] = "path" \/ quit
      BY <3>1, <3>3 DEF Race
    <3>4. CASE kind[s] # "path" /\ ~quit
      <4>1. pc[s] \notin {"unlink", "bind"} /\ quit' = quit
        BY <2>a, <3>1, <3>4 DEF Creating
      <4>2. path # NoSocket => path.server # s
        BY <3>4 DEF Race
      <4>3. \A t \in Servers : kind'[t] = "path" /\ pc'[t] # "off"
                               => kind[t] = "path" /\ pc[t] # "off"
        BY <3>2
      <4> QED
        BY <2>b, <3>1, <3>2, <3>4, <4>1, <4>2, <4>3 DEF Race
    <3> QED
      BY <3>3, <3>4
  <2>10. CASE UNCHANGED vars
    BY <2>10 DEF vars, Race
  <2> QED
    BY <2>1, <2>2, <2>3, <2>4, <2>5, <2>6, <2>7, <2>8, <2>9, <2>10 DEF Next
<1> QED
  BY <1>1, <1>2, IInvCorrect, PTL DEF Spec

\* Servers that race for the path may make one another fail, never all of them:
\* when the race is over and nobody was stopped, the path leads to one.
THEOREM OneIsServingCorrect == Spec => []OneIsServing
<1>1. IInv /\ Race => OneIsServing
  <2> SUFFICES ASSUME IInv, Race, ~quit,
                      \A s \in Servers : pc[s] \notin Creating,
                      NEW s \in Servers, kind[s] = "path", pc[s] # "off"
               PROVE  Serving # {}
    BY DEF OneIsServing
  <2>1. path # NoSocket
    BY DEF Race, Creating
  <2>2. path.server \in Servers
    BY <2>1 DEF IInv, TypeOK
  <2>3. kind[path.server] = "path" /\ pc[path.server] = "up"
    BY <2>1, <2>2 DEF Race, Creating
  <2> QED
    BY <2>1, <2>2, <2>3 DEF Serving
<1> QED
  BY <1>1, IInvCorrect, RaceCorrect, PTL
=============================================================================
