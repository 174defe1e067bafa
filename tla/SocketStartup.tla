----------------------------- MODULE SocketStartup -----------------------------
(***************************************************************************)
(* How servers of one user start: main() chooses a socket to listen on and *)
(* whom to allow, and adopts the socket that systemd passes, binds a TCP   *)
(* port, or goes through server_on_unix_socket(), one step for each system *)
(* call.  Two `flux rest-server' in one instance use the same path.        *)
(***************************************************************************)
EXTENDS Naturals

CONSTANTS
    Servers,
    NoSocket,       \* nothing at the path
    Uids,           \* those that may try to connect
    Self,           \* the one that the servers run as
    Root,           \* the one that file modes do not stop
    NoUid           \* no allowed_peer_uid: everyone is served

ASSUME SocketAssumption ==
    /\ NoSocket \notin [server : Servers, private : BOOLEAN]
    /\ Self \in Uids /\ Root \in Uids
    /\ NoUid \notin Uids

VARIABLES
    pc,     \* where each server is
    kind,   \* what it listens on: a socket "unix fd" or "inet fd" that was
            \* passed to it, a "port" or the "path"
    wanted, \* allowed_uid: the user of --allow-user, or else its own
    peer,   \* allowed_peer_uid
    path,   \* the socket file at socket_path: who bound it, and is its mode 0600
    quit    \* history: a server on the path has stopped

vars == <<pc, kind, wanted, peer, path, quit>>

Kinds == {"unix fd", "inet fd", "port", "path"}
Creating == {"unlink", "bind", "chmod", "listen"}
Starting == Creating \cup {"adopt", "port"}

Init ==
    /\ pc = [s \in Servers |-> "off"]
    /\ kind = [s \in Servers |-> "none"]
    /\ wanted = [s \in Servers |-> NoUid] /\ peer = [s \in Servers |-> NoUid]
    /\ path = NoSocket
    /\ quit = FALSE

Goes(s, l) == pc' = [pc EXCEPT ![s] = l]

\* A command line in its environment: the socket passed by systemd ("none",
\* "unix" or "inet"), with or without --port, --allow-user (NoUid: not given).
Invocations == [fd : {"none", "unix", "inet"}, port : BOOLEAN, user : Uids \cup {NoUid}]

Kind(i) ==
    CASE i.fd = "unix" -> "unix fd"
      [] i.fd = "inet" -> "inet fd"
      [] i.fd = "none" /\ i.port -> "port"
      [] OTHER -> "path"
First == [k \in Kinds |->
            CASE k \in {"unix fd", "inet fd"} -> "adopt"
              [] k = "port" -> "port"
              [] OTHER -> "unlink"]

AllowedUid(i) == IF i.user = NoUid THEN Self ELSE i.user

\* A self-created socket would not let another user in.
Useless(i) == Kind(i) = "path" /\ AllowedUid(i) # Self

Start(s, i) ==
    /\ pc[s] \in {"off", "failed"}
    /\ ~Useless(i)
    /\ Goes(s, First[Kind(i)])
    /\ kind' = [kind EXCEPT ![s] = Kind(i)]
    /\ wanted' = [wanted EXCEPT ![s] = AllowedUid(i)]
    /\ peer' = [peer EXCEPT ![s] = NoUid]
    /\ UNCHANGED <<path, quit>>

\* main() exits before it touches a socket: Useless, but also an idle timeout
\* that is not positive, an unknown user, and no broker to name the rundir.
Reject(s) ==
    /\ pc[s] \in {"off", "failed"}
    /\ Goes(s, "failed")
    /\ kind' = [kind EXCEPT ![s] = "none"]
    /\ wanted' = [wanted EXCEPT ![s] = NoUid] /\ peer' = [peer EXCEPT ![s] = NoUid]
    /\ UNCHANGED <<path, quit>>

-----------------------------------------------------------------------------
(* Sockets of systemd and of --port.                                        *)

\* SO_DOMAIN of what the server listens on.
MutAssumesInet(k) ==            \* what socket.socket(fileno=fd) does on 3.6
    IF k = "path" THEN "unix" ELSE "inet"
Family(k) == IF k \in {"unix fd", "path"} THEN "unix" ELSE "inet"

\* Served from now on: SO_PEERCRED is for unix sockets.
Up(s) ==
    /\ Goes(s, "up")
    /\ peer' = [peer EXCEPT ![s] =
                  IF Family(kind[s]) = "unix" THEN wanted[s] ELSE NoUid]
    /\ UNCHANGED <<kind, wanted, path, quit>>
Fail(s) == Goes(s, "failed") /\ UNCHANGED <<kind, wanted, peer, path, quit>>

\* The descriptor may turn out not to be a socket.
Adopt(s) == pc[s] = "adopt" /\ (Up(s) \/ Fail(s))

\* The port may be taken, or not be this user's to bind.
BindPort(s) ==
    /\ pc[s] = "port"
    /\ \/ ~(\E t \in Servers : kind[t] = "port" /\ pc[t] = "up") /\ Up(s)
       \/ Fail(s)

-----------------------------------------------------------------------------
(* server_on_unix_socket().                                                 *)

\* unlink(), which does not ask whose socket it is; FileNotFoundError is fine.
Unlink(s) ==
    /\ pc[s] = "unlink"
    /\ path' = NoSocket
    /\ Goes(s, "bind") /\ UNCHANGED <<kind, wanted, peer, quit>>

\* bind() creates the file with a mode that the umask decides.
MutCleansUp(s) ==               \* removes the file as it reports the error
    /\ pc[s] = "bind"
    /\ IF path = NoSocket
       THEN path' = [server |-> s, private |-> FALSE] /\ Goes(s, "chmod")
       ELSE path' = NoSocket /\ Goes(s, "failed")
    /\ UNCHANGED <<kind, wanted, peer, quit>>
Bind(s) ==
    /\ pc[s] = "bind"
    /\ IF path = NoSocket
       THEN path' = [server |-> s, private |-> FALSE] /\ Goes(s, "chmod")
       ELSE Goes(s, "failed") /\ UNCHANGED path        \* EADDRINUSE
    /\ UNCHANGED <<kind, wanted, peer, quit>>

\* chmod() goes by the path, whoever's socket is there by now.
MutListensFirst(s) ==           \* has listen() before chmod()
    /\ pc[s] = "chmod"
    /\ Goes(s, "listen") /\ UNCHANGED <<kind, wanted, peer, path, quit>>
Chmod(s) ==
    /\ pc[s] = "chmod"
    /\ IF path # NoSocket
       THEN path' = [path EXCEPT !.private = TRUE] /\ Goes(s, "listen")
       ELSE Goes(s, "failed") /\ UNCHANGED path        \* ENOENT
    /\ UNCHANGED <<kind, wanted, peer, quit>>

Listen(s) == pc[s] = "listen" /\ Up(s)

\* The process ends, by server_close(), by an error of any of these calls, or
\* otherwise: the file stays.
Stop(s) ==
    /\ pc[s] \in Starting \cup {"up"}
    /\ Goes(s, "off")
    /\ kind' = [kind EXCEPT ![s] = "none"]
    /\ wanted' = [wanted EXCEPT ![s] = NoUid] /\ peer' = [peer EXCEPT ![s] = NoUid]
    /\ UNCHANGED path
    /\ quit' = (quit \/ kind[s] = "path")

Next == \E s \in Servers :
    \/ \E i \in Invocations : Start(s, i)
    \/ Reject(s) \/ Adopt(s) \/ BindPort(s)
    \/ Unlink(s) \/ Bind(s) \/ Chmod(s) \/ Listen(s) \/ Stop(s)

Spec == Init /\ [][Next]_vars

-----------------------------------------------------------------------------
\* Who gets a connection to the path, if anyone does.
Serving == {s \in Servers : /\ path # NoSocket /\ path.server = s
                            /\ kind[s] = "path" /\ pc[s] = "up"}

\* Whom the kernel lets connect to the unix socket of s: the owner and root to a
\* file of mode 0600, a group to the socket that systemd creates.
CanConnect(s) ==
    IF kind[s] = "unix fd" THEN Uids
    ELSE IF s \notin Serving THEN {}
    ELSE IF path.private THEN {Self, Root} ELSE Uids

\* Whom verify_request() then serves.
Served(s) == {u \in CanConnect(s) : peer[s] \in {u, NoUid}}

TypeOK ==
    /\ pc \in [Servers -> Starting \cup {"off", "failed", "up"}]
    /\ kind \in [Servers -> Kinds \cup {"none"}]
    /\ wanted \in [Servers -> Uids \cup {NoUid}] /\ peer \in [Servers -> Uids \cup {NoUid}]
    /\ path \in {NoSocket} \cup [server : Servers, private : BOOLEAN]
    /\ quit \in BOOLEAN

\* A socket that can be connected to is mode 0600, however the system calls of
\* several servers interleave: chmod() may hit the file of another server, but
\* then one's own is no longer there.
OwnerOnly == Serving # {} => path.private

\* A server on a unix socket serves the user it is meant for and nobody else,
\* whatever socket it was passed or made: the mode of the file lets that user
\* in, and SO_PEERCRED keeps out root, whom the mode does not, and whoever else
\* may connect to the socket of systemd.
ServesWanted ==
    \A s \in Servers :
        pc[s] = "up" /\ CanConnect(s) # {} /\ kind[s] \in {"unix fd", "path"}
            => Served(s) = {wanted[s]}

\* Servers that start at once on the path may make one another fail, but never
\* all: when they have settled and none was stopped, it leads to one that is up.
OneIsServing ==
    /\ ~quit
    /\ \A s \in Servers : pc[s] \notin Creating
    /\ \E s \in Servers : kind[s] = "path" /\ pc[s] # "off"
    => Serving # {}

\* The comment in server_on_unix_socket(): remove stale socket if it exists.
\* The file of a server that is up is not stale.
OnlyStaleRemoved == [][ Serving # {} => path' = path ]_vars
=============================================================================
