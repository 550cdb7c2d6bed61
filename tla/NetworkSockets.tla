--------------------------- MODULE NetworkSockets ---------------------------
(***************************************************************************)
(* The socket table of /dev/net/ip/top (network_core.cpp,                  *)
(* network_socket.cpp), the SSL sessions bound to it (network_ssl.cpp),    *)
(* and the host sockets behind it.                                         *)
(*                                                                         *)
(* A Wii descriptor is a slot that SOSocket hands out again after SOClose, *)
(* and the host recycles its own descriptors, so a copied descriptor is    *)
(* only trusted together with the generation it was captured with.         *)
(***************************************************************************)
EXTENDS Integers, FiniteSets

CONSTANTS
    Fds,       \* slots of g_sockets
    Natives,   \* descriptors the host may hand out
    Sessions,  \* slots of g_sslSessions
    MaxGen,    \* bound on the socket generations that are explored
    None       \* kInvalidSocket

ASSUME SocketAssumptions == MaxGen \in Nat \ {0} /\ None \notin Natives \cup Fds

VARIABLES
    sock,      \* g_sockets: native, generation, nonblocking, hasPeerAddr
    nextGen,   \* g_nextSocketGeneration
    ssl,       \* g_sslSessions: active, socketFd, native
    conn       \* the host: what has become of connect() on each descriptor

socketVars == <<sock, nextGen, ssl, conn>>

WiiSocket == [native : Natives \cup {None}, gen : 0 .. MaxGen, nonblocking : BOOLEAN,
              peer : BOOLEAN]
SslSession == [active : BOOLEAN, fd : Fds \cup {None}, native : Natives \cup {None}]

\* A host socket is not open, has no connection, is connecting, connected, or
\* its last connect failed.
HostStates == {"closed", "fresh", "inflight", "up", "failed"}

NoSocket  == [native |-> None, gen |-> 0, nonblocking |-> FALSE, peer |-> FALSE]
NoSession == [active |-> FALSE, fd |-> None, native |-> None]

SocketInit ==
    /\ sock = [fd \in Fds |-> NoSocket]
    /\ nextGen = 1
    /\ ssl = [s \in Sessions |-> NoSession]
    /\ conn = [n \in Natives |-> "closed"]

Open(fd) == sock[fd].native # None

\* What an operation copies of a socket when it is submitted.
IdentityOf(fd) == [fd |-> fd, native |-> sock[fd].native, gen |-> sock[fd].gen]

\* Mutant: a recycled host descriptor is taken for the old one.
AnyGeneration(d) == sock[d.fd].native # None /\ sock[d.fd].native = d.native

SocketIdentityIsCurrent(d) ==
    /\ sock[d.fd].native # None
    /\ sock[d.fd].native = d.native
    /\ sock[d.fd].gen = d.gen

-----------------------------------------------------------------------------
(* The host (external): socket(), connect() and the fate of a connection.  *)

FreeNatives == {n \in Natives : conn[n] = "closed"}

\* connect() on a nonblocking host socket: a settled or pending connection is
\* left alone (EISCONN, EALREADY), another one starts and may settle at once.
HostConnect(st) == IF st \in {"up", "inflight"} THEN {st} ELSE {"up", "inflight", "failed"}

HostSettles ==
    \E n \in Natives :
       /\ conn[n] = "inflight"
       /\ \E st \in {"up", "failed"} : conn' = [conn EXCEPT ![n] = st]
       /\ UNCHANGED <<sock, nextGen, ssl>>

-----------------------------------------------------------------------------
(* Slots.                                                                  *)

\* SOSocket: the host socket takes the slot under a new generation; the guest flag
\* starts as blocking.  With no free slot it is closed again.  (SOAccept has no
\* handler.)
AddWiiSocket(fd) ==
    /\ ~Open(fd) /\ nextGen < MaxGen
    /\ \E n \in FreeNatives :
          /\ conn' = [conn EXCEPT ![n] = "fresh"]
          /\ sock' = [sock EXCEPT ![fd] = [NoSocket EXCEPT !.native = n, !.gen = nextGen]]
    /\ nextGen' = nextGen + 1
    /\ UNCHANGED ssl

SetNonblocking(fd, on) ==
    /\ Open(fd)
    /\ sock' = [sock EXCEPT ![fd].nonblocking = on]
    /\ UNCHANGED <<nextGen, ssl, conn>>

\* Mutant: a closed socket leaves its sessions behind.
KeepSessions(fds) == ssl' = ssl

ClearSslSessionsForSocket(fds) ==
    ssl' = [s \in Sessions |->
              IF ssl[s].active /\ ssl[s].fd \in fds THEN NoSession ELSE ssl[s]]

\* DeleteWiiSocket for each of fds: SOClose for one, SOCleanup for all of them.
DeleteWiiSockets(fds) ==
    /\ ClearSslSessionsForSocket(fds)
    /\ conn' = [n \in Natives |->
                  IF \E fd \in fds : sock[fd].native = n THEN "closed" ELSE conn[n]]
    /\ sock' = [fd \in Fds |-> IF fd \in fds THEN NoSocket ELSE sock[fd]]
    /\ UNCHANGED nextGen

\* SOConnect on a socket the guest made nonblocking: the host's answer goes
\* straight back, and only an immediate success records the peer.
ConnectNow(fd) ==
    /\ Open(fd) /\ sock[fd].nonblocking
    /\ LET n == sock[fd].native IN
       \E st \in HostConnect(conn[n]) :
          /\ conn' = [conn EXCEPT ![n] = st]
          /\ sock' = [sock EXCEPT ![fd].peer = @ \/ (conn[n] # "up" /\ st = "up")]
    /\ UNCHANGED <<nextGen, ssl>>

-----------------------------------------------------------------------------
(* SSL sessions.                                                           *)

SslNew(s) ==
    /\ ~ssl[s].active
    /\ ssl' = [ssl EXCEPT ![s] = [NoSession EXCEPT !.active = TRUE]]
    /\ UNCHANGED <<sock, nextGen, conn>>

\* Binding a session makes the socket blocking, for the guest and the host.
SslBind(s, fd, n) ==
    ssl' = [ssl EXCEPT ![s] = [active |-> TRUE, fd |-> fd, native |-> n]]

\* SSL_CONNECT where no reroute is due, or where ReconnectWiiSocket fails.
SslConnect(s, fd) ==
    /\ ssl[s].active /\ Open(fd)
    /\ SslBind(s, fd, sock[fd].native)
    /\ sock' = [sock EXCEPT ![fd].nonblocking = FALSE]
    /\ UNCHANGED <<nextGen, conn>>

\* Mutant: the slot keeps the descriptor that was closed.
KeepsClosedNative(s, fd) ==
    /\ ssl[s].active /\ Open(fd) /\ sock[fd].peer /\ nextGen < MaxGen
    /\ \E n \in FreeNatives :
          /\ conn' = [conn EXCEPT ![n] = "up", ![sock[fd].native] = "closed"]
          /\ sock' = [sock EXCEPT ![fd].gen = nextGen, ![fd].nonblocking = FALSE]
          /\ SslBind(s, fd, n)
    /\ nextGen' = nextGen + 1

\* SSL_CONNECT to a Retro-WFC host on port 443: ReconnectWiiSocket connects a
\* second host socket to port 80, swaps it into the slot under a new generation
\* and closes the first; the session follows.
SslReroute(s, fd) ==
    /\ ssl[s].active /\ Open(fd) /\ sock[fd].peer /\ nextGen < MaxGen
    /\ \E n \in FreeNatives :
          /\ conn' = [conn EXCEPT ![n] = "up", ![sock[fd].native] = "closed"]
          /\ sock' = [sock EXCEPT ![fd].native = n, ![fd].gen = nextGen,
                                  ![fd].nonblocking = FALSE]
          /\ SslBind(s, fd, n)
    /\ nextGen' = nextGen + 1

SslShutdown(s) ==
    /\ ssl[s].active
    /\ ssl' = [ssl EXCEPT ![s] = NoSession]
    /\ UNCHANGED <<sock, nextGen, conn>>

\* The guest binds a session to a socket that no other session uses.
Unbound(s, fd) == \A r \in Sessions \ {s} : ssl[r].fd # fd

SocketCall ==
    \/ \E fd \in Fds : AddWiiSocket(fd)
    \/ \E fd \in Fds, on \in BOOLEAN : sock[fd].nonblocking # on /\ SetNonblocking(fd, on)
    \/ \E fd \in Fds : ConnectNow(fd)
    \/ \E s \in Sessions : SslNew(s)
    \/ \E s \in Sessions, fd \in Fds : Unbound(s, fd) /\ SslConnect(s, fd)
    \/ \E s \in Sessions, fd \in Fds : Unbound(s, fd) /\ SslReroute(s, fd)
    \/ \E s \in Sessions : SslShutdown(s)

-----------------------------------------------------------------------------
SocketsTyped ==
    /\ sock \in [Fds -> WiiSocket]
    /\ nextGen \in 1 .. MaxGen
    /\ ssl \in [Sessions -> SslSession]
    /\ conn \in [Natives -> HostStates]

\* A host descriptor is behind at most one slot, and it is open: CloseNativeSocket
\* never closes a descriptor the host has given to somebody else.
NativesOwned ==
    /\ \A fd \in Fds : Open(fd) => conn[sock[fd].native] # "closed"
    /\ \A fd, other \in Fds :
          Open(fd) /\ sock[fd].native = sock[other].native => fd = other

\* A recorded peer belongs to a connection the host has established on this very
\* socket, however late the connect that recorded it was served.
PeerMeansConnected ==
    \A fd \in Fds : sock[fd].peer => Open(fd) /\ conn[sock[fd].native] = "up"

\* A session reads and writes the host descriptor of the socket it was bound to,
\* never one that has been closed or recycled since.
SslOwnDescriptor ==
    \A s \in Sessions :
       ssl[s].native # None => sock[ssl[s].fd].native = ssl[s].native

\* Every holder of a host descriptor, slot or session, is its rightful owner.
DescriptorsOwned == NativesOwned /\ SslOwnDescriptor
=============================================================================
