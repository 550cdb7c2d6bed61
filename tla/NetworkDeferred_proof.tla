------------------------ MODULE NetworkDeferred_proof ------------------------
(***************************************************************************)
(* Deferred network calls: a caller that is woken finds its own result, no  *)
(* call is lost while somebody waits for it, results are committed for      *)
(* waiting callers only, and completion callbacks do not nest; and the      *)
(* socket table keeps its promises under all of it.                         *)
(*                                                                         *)
(* NetInv is the inductive invariant.  What the properties need beside      *)
(* themselves: tokens are never handed out twice, so that a token found in  *)
(* a frame names one call of one thread, and an operation that carries an   *)
(* old identity with the outcome "ok" finds that connection still up.       *)
(*                                                                         *)
(* The first part is about the socket table by itself, SockInv: each        *)
(* operation of network_socket.cpp and network_ssl.cpp, and each move of    *)
(* the host, has a lemma that the second part cites.  There the properties  *)
(* are inductive once two facts are added: a session that holds a           *)
(* descriptor knows its slot, and every generation in use is older than the *)
(* next one.  OldSocketsKept is what an operation that copied an identity   *)
(* earlier relies on.                                                       *)
(***************************************************************************)
EXTENDS NetworkDeferred, TLAPS, WellFoundedInduction

\* A session that holds a descriptor is active and bound to a slot.
SslKnown ==
    \A s \in Sessions : ssl[s].native # None => ssl[s].active /\ ssl[s].fd \in Fds

\* Generations are handed out in order.
GensOld == \A fd \in Fds : sock[fd].gen < nextGen

SockInv ==
    SocketsTyped /\ SslKnown /\ GensOld /\ DescriptorsOwned /\ PeerMeansConnected

\* A slot whose generation is not new holds the socket it held before, and a
\* connection that is up stays up.
OldSocketsKept ==
    /\ nextGen' >= nextGen
    /\ \A fd \in Fds : Open(fd)' /\ sock'[fd].gen < nextGen =>
          /\ sock'[fd].native = sock[fd].native /\ sock'[fd].gen = sock[fd].gen
          /\ conn[sock[fd].native] = "up" => conn'[sock[fd].native] = "up"

\* No descriptor is in use when the device is opened.
LEMMA SocketInitInv == SocketInit => SockInv
  BY SocketAssumptions
     DEF SocketInit, SockInv, SocketsTyped, SslKnown, GensOld, DescriptorsOwned,
         NativesOwned, SslOwnDescriptor, PeerMeansConnected, Open, NoSocket, NoSession,
         WiiSocket, SslSession, HostStates

\* A step that leaves the sockets alone keeps what is known of them.
LEMMA SocketStutter == SockInv /\ UNCHANGED socketVars => SockInv' /\ OldSocketsKept
  BY DEF socketVars, SockInv, SocketsTyped, SslKnown, GensOld, DescriptorsOwned,
         NativesOwned, SslOwnDescriptor, PeerMeansConnected, Open, OldSocketsKept

\* The host moves on with a connection that is open.
LEMMA HostMoves ==
    ASSUME SockInv, NEW n \in Natives, NEW st \in HostStates \ {"closed"},
           conn[n] # "closed", conn[n] = "up" => st = "up",
           conn' = [conn EXCEPT ![n] = st], UNCHANGED <<sock, nextGen, ssl>>
    PROVE  SockInv' /\ OldSocketsKept
  <1> USE DEF SockInv, SocketsTyped
  <1>1. /\ conn' \in [Natives -> HostStates]
        /\ \A m \in Natives : conn[m] # "closed" => conn'[m] # "closed"
        /\ \A m \in Natives : conn[m] = "up" => conn'[m] = "up"
    OBVIOUS
  <1>2. \A fd \in Fds : Open(fd) => sock[fd].native \in Natives
    BY DEF Open, WiiSocket
  <1>3. NativesOwned' /\ PeerMeansConnected'
    BY <1>1, <1>2 DEF NativesOwned, PeerMeansConnected, Open, DescriptorsOwned
  <1>4. SslKnown' /\ GensOld' /\ SslOwnDescriptor'
    BY DEF SslKnown, GensOld, SslOwnDescriptor, DescriptorsOwned
  <1>5. OldSocketsKept
    BY <1>1, <1>2 DEF OldSocketsKept, Open
  <1> QED
    BY <1>1, <1>3, <1>4, <1>5 DEF DescriptorsOwned

\* The host settling a connect changes the state of one native socket.
LEMMA HostSettlesInv == SockInv /\ HostSettles => SockInv' /\ OldSocketsKept
  <1> SUFFICES ASSUME SockInv, HostSettles PROVE SockInv' /\ OldSocketsKept
    OBVIOUS
  <1>1. PICK n \in Natives, st \in {"up", "failed"} :
           conn[n] = "inflight" /\ conn' = [conn EXCEPT ![n] = st]
    BY DEF HostSettles
  <1>2. st \in HostStates \ {"closed"}
    BY DEF HostStates
  <1> QED
    BY <1>1, <1>2, HostMoves DEF HostSettles

\* SOSocket takes a free host descriptor and a new generation.
LEMMA AddWiiSocketInv ==
    ASSUME SockInv, NEW fd \in Fds, AddWiiSocket(fd)
    PROVE  SockInv' /\ OldSocketsKept
  <1> USE DEF SockInv, SocketsTyped
  <1>1. PICK n \in Natives :
           /\ conn[n] = "closed" /\ conn' = [conn EXCEPT ![n] = "fresh"]
           /\ sock' = [sock EXCEPT ![fd] = [NoSocket EXCEPT !.native = n, !.gen = nextGen]]
    BY DEF AddWiiSocket, FreeNatives
  <1>2. /\ nextGen \in Nat /\ nextGen < MaxGen /\ nextGen' = nextGen + 1
        /\ ssl' = ssl /\ ~Open(fd) /\ n # None
    BY SocketAssumptions DEF AddWiiSocket
  <1> DEFINE new == [NoSocket EXCEPT !.native = n, !.gen = nextGen]
  <1>3. new \in WiiSocket /\ new.native = n /\ new.gen = nextGen /\ new.peer = FALSE
    <2>1. NoSocket \in WiiSocket /\ NoSocket.peer = FALSE
      BY SocketAssumptions DEF NoSocket, WiiSocket
    <2>2. nextGen \in 0 .. MaxGen
      BY <1>2, SocketAssumptions
    <2> QED
      BY <2>1, <2>2 DEF WiiSocket
  <1> HIDE DEF new
  <1>4. sock'[fd] = new /\ \A o \in Fds \ {fd} : sock'[o] = sock[o]
    BY <1>1 DEF new
  <1>5. SocketsTyped'
    <2>1. sock' \in [Fds -> WiiSocket]
      BY <1>1, <1>3 DEF new
    <2>2. nextGen' \in 1 .. MaxGen
      BY <1>2, SocketAssumptions
    <2>3. conn' \in [Natives -> HostStates]
      BY <1>1 DEF HostStates
    <2> QED
      BY <2>1, <2>2, <2>3, <1>2
  <1>6. \A o \in Fds : Open(o) => sock[o].native \in Natives /\ sock[o].native # n
    BY <1>1 DEF Open, WiiSocket, DescriptorsOwned, NativesOwned
  <1>7. \A o \in Fds \ {fd} :
           (Open(o)' <=> Open(o)) /\ (Open(o) => conn'[sock[o].native] = conn[sock[o].native])
    BY <1>1, <1>4, <1>6 DEF Open
  <1>8. NativesOwned'
    <2>1. \A o \in Fds : Open(o)' => conn'[sock'[o].native] # "closed"
      BY <1>1, <1>3, <1>4, <1>7 DEF NativesOwned, DescriptorsOwned
    <2>2. \A o, p \in Fds : Open(o)' /\ sock'[o].native = sock'[p].native => o = p
      BY <1>3, <1>4, <1>6, <1>2 DEF Open, NativesOwned, DescriptorsOwned
    <2> QED
      BY <2>1, <2>2 DEF NativesOwned, Open
  <1>9. SslKnown' /\ SslOwnDescriptor'
    BY <1>2, <1>4 DEF SslKnown, SslOwnDescriptor, DescriptorsOwned, Open
  <1>10. PeerMeansConnected'
    BY <1>3, <1>4, <1>7 DEF PeerMeansConnected, Open
  <1>11. GensOld'
    BY <1>2, <1>3, <1>4 DEF GensOld, WiiSocket
  <1>12. OldSocketsKept
    BY <1>2, <1>3, <1>4, <1>7 DEF OldSocketsKept, WiiSocket
  <1> QED
    BY <1>5, <1>8, <1>9, <1>10, <1>11, <1>12 DEF DescriptorsOwned

\* Flags and sessions change: a peer is recorded on a connection that is up, and a
\* session holds the descriptor of its slot.
LEMMA FlagsChange ==
    ASSUME SockInv, UNCHANGED <<nextGen, conn>>,
           sock' \in [Fds -> WiiSocket],
           \A fd \in Fds :
              /\ sock'[fd].native = sock[fd].native /\ sock'[fd].gen = sock[fd].gen
              /\ sock'[fd].peer => Open(fd) /\ conn[sock[fd].native] = "up",
           ssl' \in [Sessions -> SslSession],
           \A s \in Sessions : ssl'[s].native # None =>
              /\ ssl'[s].active /\ ssl'[s].fd \in Fds
              /\ sock[ssl'[s].fd].native = ssl'[s].native
    PROVE  SockInv' /\ OldSocketsKept
  <1> USE DEF SockInv, SocketsTyped
  <1>1. \A fd \in Fds : Open(fd)' <=> Open(fd)
    BY DEF Open
  <1>2. SslKnown' /\ GensOld' /\ PeerMeansConnected' /\ OldSocketsKept
    BY <1>1 DEF SslKnown, GensOld, PeerMeansConnected, OldSocketsKept
  <1>3. NativesOwned'
    BY <1>1 DEF NativesOwned, DescriptorsOwned
  <1>4. SslOwnDescriptor'
    BY DEF SslOwnDescriptor
  <1> QED
    BY <1>2, <1>3, <1>4 DEF DescriptorsOwned

\* What FlagsChange asks of the part that stays.
LEMMA FlagsKept ==
    ASSUME SockInv
    PROVE  /\ \A fd \in Fds : sock[fd].peer => Open(fd) /\ conn[sock[fd].native] = "up"
           /\ \A s \in Sessions : ssl[s].native # None =>
                 /\ ssl[s].active /\ ssl[s].fd \in Fds
                 /\ sock[ssl[s].fd].native = ssl[s].native
           /\ \A fd \in Fds : Open(fd) => sock[fd].native \in Natives
  BY DEF SockInv, SocketsTyped, PeerMeansConnected, SslKnown, DescriptorsOwned,
         SslOwnDescriptor, Open, WiiSocket

\* A slot's flags change and its identity stays.
LEMMA NonblockingOf ==
    ASSUME SockInv, NEW fd \in Fds, NEW on \in BOOLEAN,
           sock' = [sock EXCEPT ![fd].nonblocking = on]
    PROVE  /\ sock' \in [Fds -> WiiSocket]
           /\ \A o \in Fds : /\ sock'[o].native = sock[o].native
                             /\ sock'[o].gen = sock[o].gen /\ sock'[o].peer = sock[o].peer
  BY DEF SockInv, SocketsTyped, WiiSocket

\* Recording whether a descriptor has a peer leaves its native socket and generation alone.
LEMMA PeerOf ==
    ASSUME SockInv, NEW fd \in Fds, NEW p \in BOOLEAN, sock' = [sock EXCEPT ![fd].peer = p]
    PROVE  /\ sock' \in [Fds -> WiiSocket]
           /\ \A o \in Fds :
                 /\ sock'[o].native = sock[o].native /\ sock'[o].gen = sock[o].gen
                 /\ sock'[o].peer = IF o = fd THEN p ELSE sock[o].peer
  BY DEF SockInv, SocketsTyped, WiiSocket

\* Setting a descriptor non-blocking changes nothing the invariant speaks of.
LEMMA SetNonblockingInv ==
    ASSUME SockInv, NEW fd \in Fds, NEW on \in BOOLEAN, SetNonblocking(fd, on)
    PROVE  SockInv' /\ OldSocketsKept
  <1>1. sock' = [sock EXCEPT ![fd].nonblocking = on] /\ UNCHANGED <<nextGen, ssl, conn>>
    BY DEF SetNonblocking
  <1>2. ssl' \in [Sessions -> SslSession]
    BY <1>1 DEF SockInv, SocketsTyped
  <1>3. /\ sock' \in [Fds -> WiiSocket]
        /\ \A o \in Fds : /\ sock'[o].native = sock[o].native
                          /\ sock'[o].gen = sock[o].gen /\ sock'[o].peer = sock[o].peer
    BY <1>1, NonblockingOf
  <1> QED
    BY <1>1, <1>2, <1>3, FlagsKept, FlagsChange

\* A success that is served late is recorded in the slot it was made on.
LEMMA RecordPeerInv ==
    ASSUME SockInv, NEW fd \in Fds, Open(fd), conn[sock[fd].native] = "up",
           sock' = [sock EXCEPT ![fd].peer = TRUE], UNCHANGED <<nextGen, ssl, conn>>
    PROVE  SockInv' /\ OldSocketsKept
  <1>2. ssl' \in [Sessions -> SslSession]
    BY DEF SockInv, SocketsTyped
  <1> QED
    BY <1>2, PeerOf, FlagsKept, FlagsChange

\* A host connect on a slot's own descriptor; a success may be recorded.
LEMMA ConnectSlot ==
    ASSUME SockInv, NEW fd \in Fds, Open(fd), NEW st \in HostConnect(conn[sock[fd].native]),
           NEW p \in BOOLEAN, p => sock[fd].peer \/ st = "up",
           conn' = [conn EXCEPT ![sock[fd].native] = st],
           sock' = [sock EXCEPT ![fd].peer = p],
           UNCHANGED <<nextGen, ssl>>
    PROVE  SockInv' /\ OldSocketsKept
  <1> USE DEF SockInv, SocketsTyped
  <1> DEFINE n == sock[fd].native
  <1>1. n \in Natives /\ conn[n] # "closed"
    BY FlagsKept DEF DescriptorsOwned, NativesOwned
  <1>2. st \in HostStates \ {"closed"} /\ (conn[n] = "up" => st = "up")
    BY DEF HostConnect, HostStates
  <1>3. /\ conn' \in [Natives -> HostStates] /\ conn'[n] = st
        /\ \A m \in Natives : conn[m] # "closed" => conn'[m] # "closed"
        /\ \A m \in Natives : conn[m] = "up" => conn'[m] = "up"
    BY <1>1, <1>2
  <1> HIDE DEF n
  <1>4. sock' \in [Fds -> WiiSocket]
    BY PeerOf
  <1>5. \A o \in Fds : sock'[o].native = sock[o].native /\ sock'[o].gen = sock[o].gen
    BY PeerOf
  <1>6. \A o \in Fds : sock'[o].peer = IF o = fd THEN p ELSE sock[o].peer
    BY PeerOf
  <1>7. \A o \in Fds : Open(o)' <=> Open(o)
    BY <1>5 DEF Open
  <1>8. \A o \in Fds : sock'[o].peer => Open(o) /\ conn'[sock[o].native] = "up"
    BY <1>3, <1>6, FlagsKept DEF n
  <1>9. PeerMeansConnected'
    BY <1>5, <1>7, <1>8 DEF PeerMeansConnected
  <1>10. NativesOwned'
    BY <1>3, <1>5, <1>7, FlagsKept DEF NativesOwned, DescriptorsOwned
  <1>11. SslKnown' /\ GensOld'
    BY <1>5 DEF SslKnown, GensOld
  <1>12. SslOwnDescriptor'
    BY <1>5, FlagsKept DEF SslOwnDescriptor
  <1>13. OldSocketsKept
    BY <1>3, <1>5, <1>7, FlagsKept DEF OldSocketsKept
  <1> QED
    BY <1>3, <1>4, <1>9, <1>10, <1>11, <1>12, <1>13 DEF DescriptorsOwned

\* A connect that ends at once records a peer only when the host has connected.
LEMMA ConnectNowInv ==
    ASSUME SockInv, NEW fd \in Fds, ConnectNow(fd)
    PROVE  SockInv' /\ OldSocketsKept
  <1>1. PICK st \in HostConnect(conn[sock[fd].native]) :
           /\ conn' = [conn EXCEPT ![sock[fd].native] = st]
           /\ sock' = [sock EXCEPT ![fd].peer =
                          sock[fd].peer \/ (conn[sock[fd].native] # "up" /\ st = "up")]
    BY DEF ConnectNow, SockInv, SocketsTyped
  <1> DEFINE p == sock[fd].peer \/ (conn[sock[fd].native] # "up" /\ st = "up")
  <1>2. p \in BOOLEAN /\ (p => sock[fd].peer \/ st = "up")
    OBVIOUS
  <1>3. Open(fd) /\ UNCHANGED <<nextGen, ssl>>
    BY DEF ConnectNow
  <1> QED
    BY <1>1, <1>2, <1>3, ConnectSlot

\* A session changes alone.
LEMMA SessionChange ==
    ASSUME SockInv, NEW s \in Sessions, NEW new \in SslSession, new.native = None,
           ssl' = [ssl EXCEPT ![s] = new], UNCHANGED <<sock, nextGen, conn>>
    PROVE  SockInv' /\ OldSocketsKept
  <1>1. ssl' \in [Sessions -> SslSession] /\ sock' \in [Fds -> WiiSocket]
    BY DEF SockInv, SocketsTyped
  <1>2. \A r \in Sessions : ssl'[r] = IF r = s THEN new ELSE ssl[r]
    BY DEF SockInv, SocketsTyped
  <1> QED
    BY <1>1, <1>2, FlagsKept, FlagsChange

\* A new SSL session takes a slot that is free.
LEMMA SslNewInv ==
    ASSUME SockInv, NEW s \in Sessions, SslNew(s) \/ SslShutdown(s)
    PROVE  SockInv' /\ OldSocketsKept
  <1>1. NoSession \in SslSession /\ NoSession.native = None
    BY DEF NoSession, SslSession
  <1>2. [NoSession EXCEPT !.active = TRUE] \in SslSession
        /\ [NoSession EXCEPT !.active = TRUE].native = None
    BY DEF NoSession, SslSession
  <1> QED
    BY <1>1, <1>2, SessionChange DEF SslNew, SslShutdown

\* An SSL connect binds its session to the socket the descriptor has now.
LEMMA SslConnectInv ==
    ASSUME SockInv, NEW s \in Sessions, NEW fd \in Fds, SslConnect(s, fd)
    PROVE  SockInv' /\ OldSocketsKept
  <1> DEFINE new == [active |-> TRUE, fd |-> fd, native |-> sock[fd].native]
  <1>1. new \in SslSession /\ new.active /\ new.fd = fd /\ new.native = sock[fd].native
    BY FlagsKept DEF SslSession, SslConnect
  <1>2. /\ ssl' = [ssl EXCEPT ![s] = new]
        /\ sock' = [sock EXCEPT ![fd].nonblocking = FALSE]
        /\ UNCHANGED <<nextGen, conn>>
    BY DEF SslConnect, SslBind
  <1> HIDE DEF new
  <1>3. ssl' \in [Sessions -> SslSession]
    BY <1>1, <1>2 DEF SockInv, SocketsTyped
  <1>4. \A r \in Sessions : ssl'[r] = IF r = s THEN new ELSE ssl[r]
    BY <1>2 DEF SockInv, SocketsTyped
  <1>5. /\ sock' \in [Fds -> WiiSocket]
        /\ \A o \in Fds : /\ sock'[o].native = sock[o].native
                          /\ sock'[o].gen = sock[o].gen /\ sock'[o].peer = sock[o].peer
    BY <1>2, NonblockingOf
  <1>6. \A r \in Sessions : ssl'[r].native # None =>
           /\ ssl'[r].active /\ ssl'[r].fd \in Fds
           /\ sock[ssl'[r].fd].native = ssl'[r].native
    BY <1>1, <1>4, FlagsKept
  <1> QED
    BY <1>2, <1>3, <1>5, <1>6, FlagsKept, FlagsChange

\* ReconnectWiiSocket swaps a second host socket into the slot.
LEMMA SslRerouteInv ==
    ASSUME SockInv, NEW s \in Sessions, NEW fd \in Fds, Unbound(s, fd), SslReroute(s, fd)
    PROVE  SockInv' /\ OldSocketsKept
  <1> USE DEF SockInv, SocketsTyped
  <1> DEFINE old == sock[fd].native
  <1>1. PICK n \in Natives :
           /\ conn[n] = "closed"
           /\ conn' = [conn EXCEPT ![n] = "up", ![sock[fd].native] = "closed"]
           /\ sock' = [sock EXCEPT ![fd].native = n, ![fd].gen = nextGen,
                                   ![fd].nonblocking = FALSE]
           /\ ssl' = [ssl EXCEPT ![s] = [active |-> TRUE, fd |-> fd, native |-> n]]
    BY DEF SslReroute, SslBind, FreeNatives
  <1>2. /\ Open(fd) /\ nextGen \in Nat /\ nextGen < MaxGen /\ nextGen' = nextGen + 1
        /\ n # None
    BY SocketAssumptions DEF SslReroute
  <1>3. old \in Natives /\ old # n /\ old # None
    BY <1>1, <1>2, FlagsKept, SocketAssumptions DEF DescriptorsOwned, NativesOwned
  <1>4. /\ conn' \in [Natives -> HostStates] /\ conn'[n] = "up"
        /\ \A m \in Natives \ {n, old} : conn'[m] = conn[m]
    BY <1>1, <1>3 DEF HostStates
  <1>5. /\ sock' \in [Fds -> WiiSocket]
        /\ sock'[fd].native = n /\ sock'[fd].gen = nextGen
        /\ \A o \in Fds \ {fd} : sock'[o] = sock[o]
    <2>1. nextGen \in 0 .. MaxGen
      BY <1>2, SocketAssumptions
    <2> QED
      BY <1>1, <2>1 DEF WiiSocket
  <1>6. /\ ssl' \in [Sessions -> SslSession]
        /\ ssl'[s].active /\ ssl'[s].fd = fd /\ ssl'[s].native = n
        /\ \A r \in Sessions \ {s} : ssl'[r] = ssl[r]
    BY <1>1 DEF SslSession
  <1> HIDE DEF old
  <1>7. \A o \in Fds \ {fd} : Open(o) => sock[o].native \in Natives \ {n, old}
    BY <1>1, <1>2, <1>3, FlagsKept DEF DescriptorsOwned, NativesOwned, old
  <1>8. \A o \in Fds \ {fd} : Open(o)' <=> Open(o)
    BY <1>5 DEF Open
  <1>9. NativesOwned'
    <2>1. \A o \in Fds : Open(o)' => conn'[sock'[o].native] # "closed"
      BY <1>4, <1>5, <1>7, <1>8 DEF DescriptorsOwned, NativesOwned
    <2>2. \A o, p \in Fds : Open(o)' /\ sock'[o].native = sock'[p].native => o = p
      BY <1>2, <1>5, <1>7, <1>8 DEF DescriptorsOwned, NativesOwned, Open
    <2> QED
      BY <2>1, <2>2 DEF NativesOwned
  <1>10. PeerMeansConnected'
    BY <1>2, <1>4, <1>5, <1>7, <1>8 DEF PeerMeansConnected, Open
  <1>11. SslKnown'
    BY <1>6 DEF SslKnown
  <1>12. SslOwnDescriptor'
    BY <1>5, <1>6, FlagsKept DEF SslOwnDescriptor, Unbound
  <1>13. GensOld'
    BY <1>2, <1>5 DEF GensOld, WiiSocket
  <1>14. OldSocketsKept
    BY <1>2, <1>4, <1>5, <1>7, <1>8 DEF OldSocketsKept
  <1>15. SocketsTyped'
    BY <1>2, <1>4, <1>5, <1>6, SocketAssumptions
  <1> QED
    BY <1>9, <1>10, <1>11, <1>12, <1>13, <1>14, <1>15 DEF DescriptorsOwned

\* SOClose and SOCleanup take the sessions of the closed sockets with them.
LEMMA DeleteWiiSocketsInv ==
    ASSUME SockInv, NEW fds \in SUBSET Fds, DeleteWiiSockets(fds)
    PROVE  SockInv' /\ OldSocketsKept
  <1> USE DEF SockInv, SocketsTyped
  <1>1. NoSocket \in WiiSocket /\ NoSocket.native = None /\ NoSocket.gen = 0
        /\ NoSocket.peer = FALSE /\ NoSession \in SslSession /\ NoSession.native = None
    BY SocketAssumptions DEF NoSocket, WiiSocket, NoSession, SslSession
  <1>2. \A o \in Fds : sock'[o] = IF o \in fds THEN NoSocket ELSE sock[o]
    BY DEF DeleteWiiSockets
  <1>3. \A s \in Sessions :
           ssl'[s] = IF ssl[s].active /\ ssl[s].fd \in fds THEN NoSession ELSE ssl[s]
    BY DEF DeleteWiiSockets, ClearSslSessionsForSocket
  <1>4. SocketsTyped'
    <2>1. sock' \in [Fds -> WiiSocket]
      BY <1>1 DEF DeleteWiiSockets
    <2>2. ssl' \in [Sessions -> SslSession]
      BY <1>1 DEF DeleteWiiSockets, ClearSslSessionsForSocket
    <2>3. conn' \in [Natives -> HostStates]
      BY DEF DeleteWiiSockets, HostStates
    <2> QED
      BY <2>1, <2>2, <2>3 DEF DeleteWiiSockets
  <1>5. \A o \in Fds \ fds : Open(o) => conn'[sock[o].native] = conn[sock[o].native]
    BY FlagsKept DEF DeleteWiiSockets, DescriptorsOwned, NativesOwned
  <1>6. \A o \in Fds : Open(o)' <=> o \notin fds /\ Open(o)
    BY <1>1, <1>2 DEF Open
  <1> HIDE DEF NoSocket, NoSession
  <1>7. NativesOwned'
    <2>1. \A o \in Fds : Open(o)' => conn'[sock'[o].native] # "closed"
      BY <1>2, <1>5, <1>6 DEF DescriptorsOwned, NativesOwned
    <2>2. \A o, p \in Fds : Open(o)' /\ sock'[o].native = sock'[p].native => o = p
      BY <1>1, <1>2, <1>6 DEF DescriptorsOwned, NativesOwned, Open
    <2> QED
      BY <2>1, <2>2 DEF NativesOwned
  <1>8. PeerMeansConnected'
    BY <1>1, <1>2, <1>5, <1>6 DEF PeerMeansConnected
  <1>9. SslKnown'
    BY <1>1, <1>3 DEF SslKnown
  <1>10. SslOwnDescriptor'
    BY <1>1, <1>2, <1>3, FlagsKept DEF SslOwnDescriptor
  <1>11. GensOld' /\ nextGen' = nextGen
    BY <1>1, <1>2 DEF GensOld, DeleteWiiSockets
  <1>12. OldSocketsKept
    BY <1>2, <1>5, <1>6, <1>11 DEF OldSocketsKept
  <1> QED
    BY <1>4, <1>7, <1>8, <1>9, <1>10, <1>11, <1>12 DEF DescriptorsOwned

\* Every call on the socket table keeps SockInv.
LEMMA SocketCallInv == SockInv /\ SocketCall => SockInv' /\ OldSocketsKept
  BY AddWiiSocketInv, SetNonblockingInv, ConnectNowInv, SslNewInv, SslConnectInv,
     SslRerouteInv DEF SocketCall

-----------------------------------------------------------------------------

\* Every call that has not been answered, wherever it is kept.
Stored ==
    resolving \cup Range(completed) \cup Range(polls) \cup Range(connects)
              \cup Range(pump.todo)

\* A call is older than the next token, its identity older than the next generation;
\* a thread that wants its result is the one that made it.
OpsKnown ==
    \A op \in Stored :
       /\ op.id < nextToken /\ op.gen < nextGen
       /\ \A t \in Threads : want[t] = op.id => op.thread = t

\* A connect that has succeeded is up for as long as its socket is there.
ConnectsHonest ==
    \A op \in Stored : op.kind = "connect" =>
       /\ op.fd \in Fds
       /\ op.outcome = "ok" /\ SocketIdentityIsCurrent(op) => conn[op.native] = "up"

\* The worker's calls are look-ups.
LookupsKnown == \A op \in resolving \cup Range(completed) : op.kind = "dns"

\* A sleeper's frame holds the token it will redeem, and no two threads hold one.
CallersKnown ==
    /\ \A t \in Threads :
          /\ want[t] < nextToken
          /\ tstate[t] = "wait" => cookie[t] = want[t]
          /\ tstate[t] \in {"wait", "ready"} => want[t] # 0
    /\ \A t, u \in Threads : want[t] = want[u] /\ want[t] # 0 => t = u

\* The pump serves while calls are left, and drains only where no callback runs.
PumpKnown ==
    /\ pump.phase = "serve" <=> pump.todo # <<>>
    /\ pump.phase = "drain" => dispatch = <<>> /\ callbacks # <<>>
    /\ OneCallbackAtATime

\* The inductive invariant.
NetInv ==
    /\ TypeOK /\ SockInv
    /\ OpsKnown /\ ConnectsHonest /\ LookupsKnown /\ CallersKnown /\ PumpKnown
    /\ WokenWithOwnResult /\ NoLostCall

\* What the sequence operators do to the set of a queue's elements.
LEMMA RangeEmpty == Range(<<>>) = {}
  BY DEF Range

\* A sequence and one element more.
LEMMA RangeAppend ==
    ASSUME NEW S, NEW s \in Seq(S), NEW e \in S
    PROVE  Append(s, e) \in Seq(S) /\ Range(Append(s, e)) = Range(s) \cup {e}
  <1>1. Append(s, e) \in Seq(S) /\ Len(Append(s, e)) = Len(s) + 1
    OBVIOUS
  <1>2. \A i \in 1 .. Len(s) : Append(s, e)[i] = s[i]
    OBVIOUS
  <1>3. Append(s, e)[Len(s) + 1] = e
    OBVIOUS
  <1> QED
    BY <1>1, <1>2, <1>3 DEF Range

\* Two sequences after each other.
LEMMA RangeConcat ==
    ASSUME NEW S, NEW s \in Seq(S), NEW r \in Seq(S)
    PROVE  s \o r \in Seq(S) /\ Range(s \o r) = Range(s) \cup Range(r)
  <1> DEFINE c == s \o r
  <1>1. c \in Seq(S) /\ Len(c) = Len(s) + Len(r)
    OBVIOUS
  <1>2. \A i \in 1 .. Len(s) : c[i] = s[i]
    OBVIOUS
  <1>3. \A i \in 1 .. Len(r) : c[Len(s) + i] = r[i]
    OBVIOUS
  <1>4. \A i \in 1 .. Len(c) : i \in 1 .. Len(s) \/ i - Len(s) \in 1 .. Len(r)
    BY <1>1
  <1>5. \A i \in 1 .. Len(c) : c[i] \in Range(s) \cup Range(r)
    <2> TAKE i \in 1 .. Len(c)
    <2>1. CASE i \in 1 .. Len(s)
      BY <2>1, <1>2 DEF Range
    <2>2. CASE i - Len(s) \in 1 .. Len(r)
      <3>1. c[i] = r[i - Len(s)]
        BY <2>2, <1>3, <1>1
      <3> QED
        BY <3>1, <2>2 DEF Range
    <2> QED
      BY <1>4, <2>1, <2>2
  <1>6. \A i \in 1 .. Len(s) : s[i] \in Range(c)
    BY <1>1, <1>2 DEF Range
  <1>7. \A i \in 1 .. Len(r) : r[i] \in Range(c)
    <2> TAKE i \in 1 .. Len(r)
    <2>1. Len(s) + i \in 1 .. Len(c)
      BY <1>1
    <2> QED
      BY <1>1, <1>3, <2>1 DEF Range
  <1>8. Range(c) = {c[i] : i \in 1 .. Len(c)} /\ Range(s) = {s[i] : i \in 1 .. Len(s)}
        /\ Range(r) = {r[i] : i \in 1 .. Len(r)}
    BY <1>1 DEF Range
  <1> HIDE DEF c
  <1>9. Range(c) \subseteq Range(s) \cup Range(r)
    BY <1>5, <1>8
  <1>10. Range(s) \cup Range(r) \subseteq Range(c)
    BY <1>6, <1>7, <1>8
  <1> QED
    BY <1>1, <1>9, <1>10 DEF c

\* The elements of a sequence are what its positions hold.
LEMMA RangeIs ==
    ASSUME NEW S, NEW s \in Seq(S)
    PROVE  /\ Range(s) \subseteq S
           /\ \A i \in 1 .. Len(s) : s[i] \in Range(s)
           /\ \A x \in Range(s) : \E i \in 1 .. Len(s) : x = s[i]
  BY DEF Range

\* A sequence is its head and its tail.
LEMMA RangeTail ==
    ASSUME NEW S, NEW s \in Seq(S), s # <<>>
    PROVE  /\ Head(s) \in S /\ Tail(s) \in Seq(S)
           /\ Range(s) = {Head(s)} \cup Range(Tail(s))
  <1>1. Len(s) > 0 /\ Head(s) = s[1] /\ Tail(s) \in Seq(S) /\ Len(Tail(s)) = Len(s) - 1
    OBVIOUS
  <1>2. \A i \in 1 .. Len(Tail(s)) : Tail(s)[i] = s[i + 1]
    OBVIOUS
  <1> DEFINE r == Tail(s) h == Head(s)
  <1>3. \A i \in 1 .. Len(s) : i = 1 \/ (i - 1 \in 1 .. Len(r) /\ s[i] = r[i - 1])
    BY <1>1, <1>2
  <1>4. r \in Seq(S) /\ h = s[1] /\ h \in S /\ 1 \in 1 .. Len(s)
    BY <1>1
  <1>5. \A i \in 1 .. Len(r) : r[i] = s[i + 1] /\ i + 1 \in 1 .. Len(s)
    BY <1>1, <1>2
  <1> HIDE DEF r, h
  <1>6. \A x \in Range(s) : x = h \/ x \in Range(r)
    BY <1>3, <1>4, RangeIs
  <1>7. h \in Range(s) /\ \A x \in Range(r) : x \in Range(s)
    BY <1>4, <1>5, RangeIs
  <1>8. Range(s) = {h} \cup Range(r)
    BY <1>6, <1>7
  <1> QED
    BY <1>4, <1>8 DEF r, h

\* A set of naturals that is not empty has a least element, which Min returns.
LEMMA MinInSet ==
    ASSUME NEW T \in SUBSET Nat, T # {}
    PROVE  Min(T) \in T
  <1>1. PICK x \in T : \A y \in T : <<y, x>> \notin OpToRel(<, Nat)
    BY NatLessThanWellFounded, WFMin
  <1>2. ASSUME NEW y \in T PROVE x <= y
    <2>1. y < x => <<y, x>> \in OpToRel(<, Nat)
      BY DEF OpToRel
    <2>2. ~(y < x)
      BY <1>1, <2>1
    <2> QED
      BY <2>2
  <1> QED
    BY <1>2 DEF Min

\* std::vector::erase takes one element out and leaves the others.
LEMMA RangeRemoveFirst ==
    ASSUME NEW S, NEW s \in Seq(S), NEW e
    PROVE  /\ RemoveFirst(s, e) \in Seq(S)
           /\ Range(RemoveFirst(s, e)) \subseteq Range(s)
           /\ Range(s) \subseteq Range(RemoveFirst(s, e)) \cup {e}
  <1> DEFINE I == {i \in 1 .. Len(s) : s[i] = e}
  <1>1. CASE I = {}
    BY <1>1 DEF RemoveFirst
  <1>2. CASE I # {}
    <2> DEFINE m == Min(I)
    <2>1. m \in I
      <3>1. I \in SUBSET Nat
        OBVIOUS
      <3> QED
        BY <1>2, <3>1, MinInSet
    <2>3. m \in 1 .. Len(s) /\ s[m] = e
      BY <2>1
    <2>4. RemoveFirst(s, e) = SubSeq(s, 1, m - 1) \o SubSeq(s, m + 1, Len(s))
      BY <1>2 DEF RemoveFirst, SelectInSeq, RemoveAt
    <2> HIDE DEF m
    <2> DEFINE a == SubSeq(s, 1, m - 1) b == SubSeq(s, m + 1, Len(s))
    <2>5. a \in Seq(S) /\ Len(a) = m - 1 /\ \A i \in 1 .. m - 1 : a[i] = s[i]
      BY <2>3
    <2>6. b \in Seq(S) /\ Len(b) = Len(s) - m /\ \A i \in 1 .. Len(s) - m : b[i] = s[m + i]
      BY <2>3
    <2> HIDE DEF a, b
    <2>7. \A x \in Range(a) : x \in Range(s)
      BY <2>3, <2>5, RangeIs
    <2>8. \A x \in Range(b) : x \in Range(s)
      <3> TAKE x \in Range(b)
      <3>1. PICK i \in 1 .. Len(s) - m : x = b[i]
        BY <2>6, RangeIs
      <3>2. m + i \in 1 .. Len(s)
        BY <2>3
      <3> QED
        BY <2>6, <3>1, <3>2, RangeIs
    <2>9. \A x \in Range(s) : x \in Range(a) \/ x \in Range(b) \/ x = e
      <3> TAKE x \in Range(s)
      <3>1. PICK i \in 1 .. Len(s) : x = s[i]
        BY RangeIs
      <3>2. CASE i \in 1 .. m - 1
        BY <2>5, <3>1, <3>2, RangeIs
      <3>3. CASE i = m
        BY <2>3, <3>1, <3>3
      <3>4. CASE i - m \in 1 .. Len(s) - m
        <4>1. b[i - m] = s[i]
          BY <2>3, <2>6, <3>4
        <4> QED
          BY <2>6, <3>1, <3>4, <4>1, RangeIs
      <3> QED
        BY <2>3, <3>2, <3>3, <3>4
    <2>10. RemoveFirst(s, e) = a \o b
      BY <2>4 DEF a, b
    <2>11. a \o b \in Seq(S) /\ Range(a \o b) = Range(a) \cup Range(b)
      BY <2>5, <2>6, RangeConcat
    <2> QED
      BY <2>7, <2>8, <2>9, <2>10, <2>11
  <1> QED
    BY <1>1, <1>2

\* A queue whose elements are updated in place.
LEMMA RangeMap ==
    ASSUME NEW S, NEW s \in Seq(S), NEW r,
           r = [i \in 1 .. Len(s) |-> r[i]], \A i \in 1 .. Len(s) : r[i] \in S
    PROVE  /\ r \in Seq(S)
           /\ \A i \in 1 .. Len(s) : s[i] \in Range(s) /\ r[i] \in Range(r)
           /\ \A x \in Range(s) : \E i \in 1 .. Len(s) : x = s[i]
           /\ \A x \in Range(r) : \E i \in 1 .. Len(s) : x = r[i]
  <1>1. r \in Seq(S) /\ Len(r) = Len(s)
    OBVIOUS
  <1> QED
    BY <1>1, RangeIs

-----------------------------------------------------------------------------
(***************************************************************************)
(* What a step may do to the calls and their callers.                      *)
(***************************************************************************)

\* The same call, perhaps with its deadline past or its outcome fixed.
Like(a, b) ==
    /\ b.id = a.id /\ b.kind = a.kind /\ b.thread = a.thread
    /\ b.fd = a.fd /\ b.native = a.native /\ b.gen = a.gen
    /\ b.kind = "connect" /\ b.outcome = "ok" => a.outcome = "ok"

\* The call that was just made.
Fresh(b) ==
    /\ nextToken' = nextToken + 1 /\ b.id = nextToken
    /\ b.gen < nextGen'
    /\ \A t \in Threads : want'[t] = nextToken => b.thread = t
    /\ b.kind = "connect" =>
          /\ b.fd \in Fds
          /\ b.outcome = "ok" /\ SocketIdentityIsCurrent(b)' => conn'[b.native] = "up"

\* No call comes from nowhere.
LEMMA OpsStep ==
    ASSUME NetInv, OldSocketsKept, nextToken' \in Nat, nextToken' >= nextToken,
           \A t \in Threads : want'[t] \in {want[t], 0, nextToken},
           \A b \in Stored' : b \in Op /\ (Fresh(b) \/ \E a \in Stored : Like(a, b)),
           Stored \subseteq Op, nextGen \in Nat, nextGen' \in Nat
    PROVE  OpsKnown' /\ ConnectsHonest'
  <1>1. SUFFICES ASSUME NEW b \in Stored'
                 PROVE  /\ b.id < nextToken' /\ b.gen < nextGen'
                        /\ \A t \in Threads : want'[t] = b.id => b.thread = t
                        /\ b.kind = "connect" =>
                             /\ b.fd \in Fds
                             /\ b.outcome = "ok" /\ SocketIdentityIsCurrent(b)'
                                   => conn'[b.native] = "up"
    BY DEF OpsKnown, ConnectsHonest
  <1>2. nextToken \in Nat /\ b.id \in Nat \ {0} /\ b.gen \in Nat
    BY DEF NetInv, TypeOK, Op
  <1>3. CASE Fresh(b)
    BY <1>2, <1>3 DEF Fresh
  <1>4. CASE \E a \in Stored : Like(a, b)
    <2>1. PICK a \in Stored : Like(a, b)
      BY <1>4
    <2>2. a.id < nextToken /\ a.gen < nextGen /\ \A t \in Threads : want[t] = a.id => a.thread = t
      BY DEF NetInv, OpsKnown
    <2>3. b.id < nextToken' /\ b.gen < nextGen'
      BY <1>2, <2>1, <2>2 DEF Like, OldSocketsKept
    <2>4. \A t \in Threads : want'[t] = b.id => b.thread = t
      BY <1>2, <2>1, <2>2 DEF Like
    <2>5. ASSUME b.kind = "connect"
          PROVE  /\ b.fd \in Fds
                 /\ b.outcome = "ok" /\ SocketIdentityIsCurrent(b)' => conn'[b.native] = "up"
      <3>1. a.kind = "connect" /\ a.fd = b.fd /\ a.native = b.native /\ a.gen = b.gen
            /\ (b.outcome = "ok" => a.outcome = "ok")
        BY <2>1, <2>5 DEF Like
      <3>2. b.fd \in Fds /\ (a.outcome = "ok" /\ SocketIdentityIsCurrent(a) => conn[a.native] = "up")
        BY <3>1 DEF NetInv, ConnectsHonest
      <3>3. ASSUME b.outcome = "ok", SocketIdentityIsCurrent(b)'
            PROVE  conn'[b.native] = "up"
        <4>1. sock'[b.fd].native # None /\ sock'[b.fd].native = b.native /\ sock'[b.fd].gen = b.gen
          BY <3>3 DEF SocketIdentityIsCurrent
        <4>2. sock'[b.fd].native = sock[b.fd].native /\ sock'[b.fd].gen = sock[b.fd].gen
              /\ (conn[sock[b.fd].native] = "up" => conn'[sock[b.fd].native] = "up")
          BY <2>1, <2>2, <3>1, <3>2, <4>1 DEF OldSocketsKept, Open
        <4> QED
          BY <3>1, <3>2, <3>3, <4>1, <4>2 DEF SocketIdentityIsCurrent
      <3> QED
        BY <3>2, <3>3
    <2> QED
      BY <2>3, <2>4, <2>5
  <1> QED
    BY <1>1, <1>3, <1>4

\* The calls that NoLostCall counts.
Held ==
    resolving \cup Range(completed) \cup Range(polls) \cup Range(connects)
              \cup {op \in Range(pump.todo) : op.kind = "dns"}

\* A call is in flight when some store or the pump holds it.
LEMMA HeldIsInFlight == ASSUME NEW id PROVE InFlight(id) <=> \E op \in Held : op.id = id
  BY DEF InFlight, Held

\* A caller that still waits has waited before, for a call that is still held.
LEMMA NoLostStep ==
    ASSUME NoLostCall,
           \A t \in Threads : tstate'[t] = "wait" =>
              /\ tstate[t] = "wait" /\ want'[t] = want[t]
              /\ \A a \in Held : a.id = want[t] => \E b \in Held' : b.id = a.id
    PROVE  NoLostCall'
  <1>1. ASSUME NEW t \in Threads, tstate'[t] = "wait"
        PROVE  \E b \in Held' : b.id = want'[t]
    BY <1>1, HeldIsInFlight DEF NoLostCall
  <1>2. \A id : (\E b \in Held' : b.id = id) => InFlight(id)'
    BY DEF InFlight, Held
  <1> QED
    BY <1>1, <1>2 DEF NoLostCall

\* A step that leaves the callers alone.
LEMMA CallersKept ==
    ASSUME NetInv, UNCHANGED <<tstate, cookie, want, nextToken, results>>
    PROVE  CallersKnown' /\ WokenWithOwnResult'
  BY DEF NetInv, CallersKnown, WokenWithOwnResult

\* A step that leaves the pump and the callbacks alone.
LEMMA PumpKept ==
    ASSUME NetInv, UNCHANGED <<pump, dispatch, callbacks>>
    PROVE  PumpKnown'
  BY DEF NetInv, PumpKnown, OneCallbackAtATime

\* The types, one by one.
LEMMA Typed ==
    ASSUME NetInv
    PROVE  /\ resolving \subseteq Op /\ completed \in Seq(Op) /\ polls \in Seq(Op)
           /\ connects \in Seq(Op) /\ pump \in Pumps /\ pump.todo \in Seq(Op)
           /\ Range(completed) \subseteq Op /\ Range(polls) \subseteq Op
           /\ Range(connects) \subseteq Op /\ Range(pump.todo) \subseteq Op
           /\ Stored \subseteq Op
           /\ nextToken \in Nat \ {0} /\ nextGen \in Nat \ {0}
           /\ tstate \in [Threads -> {"run", "wait", "ready", "dead"}]
           /\ cookie \in [Threads -> 0 .. MaxOps] /\ want \in [Threads -> 0 .. MaxOps]
  <1>1. completed \in Seq(Op) /\ polls \in Seq(Op) /\ connects \in Seq(Op) /\ resolving \subseteq Op
        /\ pump \in Pumps
    BY DEF NetInv, TypeOK
  <1>2. pump.todo \in Seq(Op)
    BY <1>1 DEF Pumps
  <1>3. Range(completed) \subseteq Op /\ Range(polls) \subseteq Op /\ Range(connects) \subseteq Op
        /\ Range(pump.todo) \subseteq Op
    BY <1>1, <1>2, RangeIs
  <1>4. nextToken \in Nat \ {0} /\ nextGen \in Nat \ {0}
    BY DeferredAssumptions, SocketAssumptions DEF NetInv, TypeOK, SocketsTyped
  <1> QED
    BY <1>1, <1>2, <1>3, <1>4 DEF Stored, NetInv, TypeOK

\* Where the pump stands after a step.
LEMMA PumpAtFacts ==
    ASSUME NEW h \in Threads \cup {None}, NEW todo \in Seq(Op), NEW queue
    PROVE  /\ PumpAt(h, todo, queue) \in Pumps
           /\ PumpAt(h, todo, queue).todo = todo
           /\ PumpAt(h, todo, queue).phase = "serve" <=> todo # <<>>
           /\ PumpAt(h, todo, queue).phase = "drain" => queue # <<>> /\ dispatch = <<>>
  <1>1. CASE todo # <<>>
    <2>1. PumpAt(h, todo, queue) = [phase |-> "serve", host |-> h, todo |-> todo]
      BY <1>1 DEF PumpAt
    <2> QED
      BY <1>1, <2>1 DEF Pumps
  <1>2. CASE todo = <<>> /\ Drains(queue)
    BY <1>2 DEF PumpAt, Pumps, Drains
  <1>3. CASE todo = <<>> /\ ~Drains(queue)
    BY <1>3 DEF PumpAt, Pumps, Idle
  <1> QED
    BY <1>1, <1>2, <1>3

-----------------------------------------------------------------------------
(***************************************************************************)
(* Submission.                                                             *)
(***************************************************************************)

\* The guest's thread takes the next token, and it alone.
LEMMA StartsCallers ==
    ASSUME NetInv, NEW t \in Threads \cup {None}, StartDeferred(t)
    PROVE  /\ CallersKnown' /\ WokenWithOwnResult' /\ PumpKnown'
           /\ tstate' \in [Threads -> {"run", "wait", "ready", "dead"}]
           /\ cookie' \in [Threads -> 0 .. MaxOps] /\ want' \in [Threads -> 0 .. MaxOps]
           /\ nextToken \in 1 .. MaxOps /\ nextToken' = nextToken + 1
           /\ \A u \in Threads :
                 \/ u = t /\ want'[u] = nextToken
                 \/ want'[u] = want[u] /\ tstate'[u] = tstate[u]
           /\ UNCHANGED <<completed, results, callbacks, dispatch, pump>>
  <1>1. nextToken \in 1 .. MaxOps /\ nextToken' = nextToken + 1
        /\ UNCHANGED <<completed, results, callbacks, dispatch, pump>>
    BY Typed, DeferredAssumptions DEF StartDeferred
  <1>2. PumpKnown'
    BY <1>1, PumpKept
  <1>3. CASE t = None
    <2>1. UNCHANGED <<tstate, cookie, want>>
      BY <1>3 DEF StartDeferred
    <2>2. CallersKnown' /\ WokenWithOwnResult'
      BY <1>1, <2>1, Typed DEF NetInv, CallersKnown, WokenWithOwnResult
    <2> QED
      BY <1>1, <1>2, <2>1, <2>2, Typed
  <1>4. CASE t # None
    <2>1. t \in Threads /\ tstate[t] = "run" /\ Park(t)
      BY <1>4 DEF StartDeferred
    <2>2. PICK st \in {"wait", "run"} : tstate' = [tstate EXCEPT ![t] = st]
      BY <2>1 DEF Park
    <2>3. cookie' = [cookie EXCEPT ![t] = nextToken] /\ want' = [want EXCEPT ![t] = nextToken]
      BY <2>1 DEF Park
    <2>4. /\ tstate' \in [Threads -> {"run", "wait", "ready", "dead"}]
          /\ cookie' \in [Threads -> 0 .. MaxOps] /\ want' \in [Threads -> 0 .. MaxOps]
      BY <1>1, <2>1, <2>2, <2>3, Typed, DeferredAssumptions
    <2>5. /\ cookie'[t] = nextToken /\ want'[t] = nextToken /\ tstate'[t] = st
          /\ \A u \in Threads \ {t} :
                cookie'[u] = cookie[u] /\ want'[u] = want[u] /\ tstate'[u] = tstate[u]
      BY <2>1, <2>2, <2>3, Typed
    <2>6. \A u \in Threads : want[u] \in Nat /\ want[u] < nextToken
      BY Typed, DeferredAssumptions DEF NetInv, CallersKnown
    <2>7. CallersKnown'
      <3>1. \A u \in Threads :
               /\ want'[u] < nextToken'
               /\ tstate'[u] = "wait" => cookie'[u] = want'[u]
               /\ tstate'[u] \in {"wait", "ready"} => want'[u] # 0
        <4> TAKE u \in Threads
        <4>1. CASE u = t
          BY <1>1, <2>5, <4>1, DeferredAssumptions
        <4>2. CASE u # t
          <5>1. /\ tstate[u] = "wait" => cookie[u] = want[u]
                /\ tstate[u] \in {"wait", "ready"} => want[u] # 0
            BY DEF NetInv, CallersKnown
          <5> QED
            BY <1>1, <2>5, <2>6, <4>2, <5>1, DeferredAssumptions
        <4> QED
          BY <4>1, <4>2
      <3>2. \A u, v \in Threads : want[u] = want[v] /\ want[u] # 0 => u = v
        BY DEF NetInv, CallersKnown
      <3>3. \A u, v \in Threads : want'[u] = want'[v] /\ want'[u] # 0 => u = v
        BY <2>5, <2>6, <3>2
      <3> QED
        BY <3>1, <3>3 DEF CallersKnown
    <2>8. WokenWithOwnResult'
      BY <1>1, <2>5 DEF NetInv, WokenWithOwnResult
    <2> QED
      BY <1>1, <1>2, <2>1, <2>4, <2>5, <2>7, <2>8
  <1> QED
    BY <1>3, <1>4

\* The new call in the store it goes to.
LEMMA StartsStored ==
    ASSUME NetInv, SockInv', OldSocketsKept, NEW t \in Threads \cup {None}, StartDeferred(t),
           NEW op \in Op, op.id = nextToken, op.thread = t, op.gen < nextGen',
           op.kind = "connect" =>
              /\ op.fd \in Fds
              /\ op.outcome = "ok" /\ SocketIdentityIsCurrent(op)' => conn'[op.native] = "up",
           resolving' \subseteq Op, polls' \in Seq(Op), connects' \in Seq(Op),
           \A o \in resolving' : o \in resolving \/ (o = op /\ o.kind = "dns"),
           \A o \in Range(polls') : o \in Range(polls) \/ o = op,
           \A o \in Range(connects') : o \in Range(connects) \/ o = op,
           \A o \in resolving \cup Range(polls) \cup Range(connects) \cup {op} :
              o \in resolving' \cup Range(polls') \cup Range(connects')
    PROVE  NetInv'
  <1>1. /\ CallersKnown' /\ WokenWithOwnResult' /\ PumpKnown'
        /\ tstate' \in [Threads -> {"run", "wait", "ready", "dead"}]
        /\ cookie' \in [Threads -> 0 .. MaxOps] /\ want' \in [Threads -> 0 .. MaxOps]
        /\ nextToken \in 1 .. MaxOps /\ nextToken' = nextToken + 1
        /\ \A u \in Threads :
              \/ u = t /\ want'[u] = nextToken
              \/ want'[u] = want[u] /\ tstate'[u] = tstate[u]
        /\ UNCHANGED <<completed, results, callbacks, dispatch, pump>>
    BY StartsCallers
  <1>2. TypeOK'
    <2>1. SocketsTyped'
      BY DEF SockInv
    <2>2. nextToken' \in 1 .. MaxOps + 1
      BY <1>1, DeferredAssumptions
    <2> QED
      BY <1>1, <2>1, <2>2 DEF NetInv, TypeOK
  <1>3. \A b \in Stored' : b \in Stored \/ b = op
    BY <1>1 DEF Stored
  <1>4. \A b \in Stored : Like(b, b)
    BY DEF Like
  <1>5. \A u \in Threads : want'[u] = nextToken => u = t
    BY <1>1, Typed, DeferredAssumptions DEF NetInv, CallersKnown
  <1>6. Fresh(op)
    BY <1>1, <1>5 DEF Fresh
  <1>7. \A b \in Stored' : b \in Op /\ (Fresh(b) \/ \E a \in Stored : Like(a, b))
    BY <1>3, <1>4, <1>6, Typed
  <1>8. OpsKnown' /\ ConnectsHonest'
    <2>1. nextToken' \in Nat /\ nextToken' >= nextToken /\ nextGen' \in Nat
      <3>1. nextToken \in Nat
        BY Typed
      <3>2. nextToken' = nextToken + 1
        BY <1>1
      <3>3. nextGen' \in 1 .. MaxGen
        BY DEF SockInv, SocketsTyped
      <3> QED
        BY <3>1, <3>2, <3>3, SocketAssumptions
    <2>2. \A u \in Threads : want'[u] \in {want[u], 0, nextToken}
      BY <1>1
    <2>3. Stored \subseteq Op /\ nextToken \in Nat /\ nextGen \in Nat
      BY Typed
    <2> QED
      BY <1>7, <2>1, <2>2, <2>3, OpsStep
  <1>9. LookupsKnown'
    BY <1>1 DEF NetInv, LookupsKnown
  <1>10. \A o \in Held \cup {op} : o \in Held'
    BY <1>1 DEF Held
  <1>11. NoLostCall'
    <2>1. ASSUME NEW u \in Threads, tstate'[u] = "wait"
          PROVE  \E b \in Held' : b.id = want'[u]
      <3>1. CASE want'[u] = nextToken
        BY <3>1, <1>10
      <3>2. CASE want'[u] = want[u] /\ tstate'[u] = tstate[u]
        <4>1. \E b \in Held : b.id = want[u]
          BY <2>1, <3>2, HeldIsInFlight DEF NetInv, NoLostCall
        <4> QED
          BY <3>2, <4>1, <1>10
      <3> QED
        BY <1>1, <3>1, <3>2
    <2>2. \A id : (\E b \in Held' : b.id = id) => InFlight(id)'
      BY DEF InFlight, Held
    <2> QED
      BY <2>1, <2>2 DEF NoLostCall
  <1> QED
    BY <1>1, <1>2, <1>8, <1>9, <1>11 DEF NetInv

\* A deferred name lookup is stored under a number of its own.
LEMMA StartDnsInv ==
    ASSUME NetInv, NEW t \in Threads \cup {None}, StartDns(t)
    PROVE  NetInv'
  <1> DEFINE op == NewOp("dns", t, NoIdentity, FALSE, "pending")
  <1>1. StartDeferred(t) /\ resolving' = resolving \cup {op}
        /\ UNCHANGED <<socketVars, polls, connects>>
    BY DEF StartDns
  <1>2. nextToken \in 1 .. MaxOps
    BY <1>1, StartsCallers
  <1>3. op \in Op /\ op.id = nextToken /\ op.kind = "dns" /\ op.thread = t /\ op.gen = 0
    <2>1. NoIdentity.fd \in Fds \cup {None} /\ NoIdentity.native \in Natives \cup {None}
          /\ NoIdentity.gen = 0 /\ 0 \in 0 .. MaxGen
      BY SocketAssumptions DEF NoIdentity
    <2> QED
      BY <1>2, <2>1 DEF NewOp, Op, Outcomes
  <1> HIDE DEF op
  <1>4. SockInv' /\ OldSocketsKept
    BY <1>1, SocketStutter DEF NetInv
  <1>5. op.gen < nextGen'
    BY <1>1, <1>3, Typed DEF socketVars
  <1> QED
    BY <1>1, <1>3, <1>4, <1>5, StartsStored, Typed

\* What IdentityOf copies.
LEMMA IdentityFacts ==
    ASSUME NetInv, NEW fd \in Fds
    PROVE  LET d == IdentityOf(fd) IN
           /\ d.fd = fd /\ d.native = sock[fd].native /\ d.gen = sock[fd].gen
           /\ d.native \in Natives \cup {None} /\ d.gen \in 0 .. MaxGen /\ d.gen < nextGen
  BY DEF IdentityOf, NetInv, SockInv, SocketsTyped, WiiSocket, GensOld

\* A deferred poll is stored under a number of its own.
LEMMA StartPollInv ==
    ASSUME NetInv, NEW t \in Threads \cup {None}, NEW fd \in Fds, NEW endless \in BOOLEAN,
           StartPoll(t, fd, endless)
    PROVE  NetInv'
  <1> DEFINE op == NewOp("poll", t, IdentityOf(fd), endless, "pending")
  <1>1. StartDeferred(t) /\ polls' = Append(polls, op)
        /\ UNCHANGED <<socketVars, resolving, connects>>
    BY DEF StartPoll
  <1>2. nextToken \in 1 .. MaxOps
    BY <1>1, StartsCallers
  <1>3. op \in Op /\ op.id = nextToken /\ op.kind = "poll" /\ op.thread = t /\ op.gen < nextGen
    <2> DEFINE d == IdentityOf(fd)
    <2>1. d.fd = fd /\ d.native \in Natives \cup {None} /\ d.gen \in 0 .. MaxGen /\ d.gen < nextGen
      BY IdentityFacts
    <2>2. op = NewOp("poll", t, d, endless, "pending")
      OBVIOUS
    <2> HIDE DEF d, op
    <2> QED
      BY <1>2, <2>1, <2>2 DEF NewOp, Op, Outcomes
  <1> HIDE DEF op
  <1>4. SockInv' /\ OldSocketsKept
    BY <1>1, SocketStutter DEF NetInv
  <1>5. op.gen < nextGen'
    BY <1>1, <1>3 DEF socketVars
  <1>6. polls' \in Seq(Op) /\ Range(polls') = Range(polls) \cup {op}
    BY <1>1, <1>3, RangeAppend, Typed
  <1> QED
    BY <1>1, <1>3, <1>4, <1>5, <1>6, StartsStored, Typed

\* A deferred connect is stored under a number of its own.
LEMMA StartConnectInv ==
    ASSUME NetInv, NEW t \in Threads \cup {None}, NEW fd \in Fds, StartConnect(t, fd)
    PROVE  NetInv'
  <1>1. Open(fd) /\ StartDeferred(t) /\ UNCHANGED <<sock, nextGen, ssl, resolving, polls>>
    BY DEF StartConnect
  <1> DEFINE out(st) == CASE st = "up"     -> "ok"
                          [] st = "failed" -> "err"
                          [] OTHER         -> "pending"
  <1>2. PICK st \in HostConnect(conn[sock[fd].native]) :
           /\ conn' = [conn EXCEPT ![sock[fd].native] = st]
           /\ connects' = Append(connects, NewOp("connect", t, IdentityOf(fd), FALSE, out(st)))
    BY DEF StartConnect
  <1>3. out(st) \in Outcomes /\ (out(st) = "ok" => st = "up")
    BY DEF Outcomes
  <1> DEFINE op == NewOp("connect", t, IdentityOf(fd), FALSE, out(st))
  <1> HIDE DEF out
  <1>4. nextToken \in 1 .. MaxOps
    BY <1>1, StartsCallers
  <1>5. op \in Op /\ op.id = nextToken /\ op.kind = "connect" /\ op.thread = t
        /\ op.gen < nextGen /\ op.fd = fd /\ op.native = sock[fd].native /\ op.outcome = out(st)
    <2> DEFINE d == IdentityOf(fd)
    <2>1. d.fd = fd /\ d.native \in Natives \cup {None} /\ d.gen \in 0 .. MaxGen
          /\ d.gen < nextGen /\ d.native = sock[fd].native
      BY IdentityFacts
    <2>2. op = NewOp("connect", t, d, FALSE, out(st))
      OBVIOUS
    <2> HIDE DEF d, op
    <2> QED
      BY <1>3, <1>4, <2>1, <2>2 DEF NewOp, Op
  <1>a. connects' = Append(connects, op)
    BY <1>2
  <1> HIDE DEF op
  <1>6. sock[fd].native \in Natives /\ conn[sock[fd].native] # "closed"
    BY <1>1, FlagsKept DEF NetInv, SockInv, DescriptorsOwned, NativesOwned
  <1>7. SockInv' /\ OldSocketsKept
    <2>1. st \in HostStates \ {"closed"} /\ (conn[sock[fd].native] = "up" => st = "up")
      <3>1. conn[sock[fd].native] \in HostStates
        BY <1>6 DEF NetInv, SockInv, SocketsTyped
      <3> QED
        BY <3>1, <1>6 DEF HostConnect, HostStates
    <2> QED
      BY <1>1, <1>2, <1>6, <2>1, HostMoves DEF NetInv
  <1>8. connects' \in Seq(Op) /\ Range(connects') = Range(connects) \cup {op}
    BY <1>a, <1>5, RangeAppend, Typed
  <1>9. op.outcome = "ok" => conn'[op.native] = "up"
    BY <1>2, <1>3, <1>5, <1>6 DEF NetInv, SockInv, SocketsTyped
  <1>10. op.gen < nextGen'
    BY <1>1, <1>5
  <1> QED
    BY <1>1, <1>5, <1>7, <1>8, <1>9, <1>10, StartsStored, Typed

-----------------------------------------------------------------------------
(***************************************************************************)
(* What else the guest and the world do.                                   *)
(***************************************************************************)

\* A step that leaves callers and pump alone and changes calls in place at most.
LEMMA QuietStep ==
    ASSUME NetInv, SockInv', OldSocketsKept,
           UNCHANGED <<tstate, cookie, want, nextToken, results, pump, dispatch, callbacks>>,
           resolving' \subseteq Op, completed' \in Seq(Op),
           polls' \in Seq(Op), connects' \in Seq(Op),
           \A b \in resolving' \cup Range(completed') \cup Range(polls') \cup Range(connects') :
              \E a \in resolving \cup Range(completed) \cup Range(polls) \cup Range(connects) :
                 Like(a, b),
           \A a \in resolving \cup Range(completed) \cup Range(polls) \cup Range(connects) :
              \E b \in resolving' \cup Range(completed') \cup Range(polls') \cup Range(connects') :
                 b.id = a.id,
           LookupsKnown'
    PROVE  NetInv'
  <1>1. CallersKnown' /\ WokenWithOwnResult' /\ PumpKnown'
    BY CallersKept, PumpKept
  <1>2. TypeOK'
    BY DEF SockInv, NetInv, TypeOK
  <1>3. \A b \in Stored : Like(b, b)
    BY DEF Like
  <1>4. \A b \in Stored' : \E a \in Stored : Like(a, b)
    BY <1>3 DEF Stored
  <1>5. Stored' \subseteq Op
    <2>1. Range(completed') \subseteq Op /\ Range(polls') \subseteq Op /\ Range(connects') \subseteq Op
          /\ Range(pump.todo) \subseteq Op
      BY RangeIs, Typed
    <2> QED
      BY <2>1 DEF Stored
  <1>6. OpsKnown' /\ ConnectsHonest'
    <2>1. nextToken' \in Nat /\ nextToken' >= nextToken /\ nextGen' \in Nat
      BY Typed, SocketAssumptions DEF SockInv, SocketsTyped
    <2> QED
      BY <1>4, <1>5, <2>1, OpsStep, Typed
  <1>7. NoLostCall'
    <2>1. \A a \in Held : \E b \in Held' : b.id = a.id
      BY DEF Held
    <2> QED
      BY <2>1, NoLostStep DEF NetInv
  <1> QED
    BY <1>1, <1>2, <1>6, <1>7 DEF NetInv

\* A step on the sockets alone.
LEMMA SocketsOnly ==
    ASSUME NetInv, SockInv', OldSocketsKept,
           UNCHANGED <<callVars, storeVars, callbacks, dispatch, pump>>
    PROVE  NetInv'
  <1>1. \A a \in Stored : Like(a, a)
    BY DEF Like
  <1>2. LookupsKnown'
    BY DEF storeVars, LookupsKnown, NetInv
  <1> QED
    BY <1>1, <1>2, QuietStep, Typed DEF callVars, storeVars, Stored

\* AbortPendingDeferredConnects fixes outcomes in place, never to success.
LEMMA AbortsInPlace ==
    ASSUME NetInv, NEW fds, AbortPendingDeferredConnects(fds)
    PROVE  /\ connects' \in Seq(Op)
           /\ \A b \in Range(connects') : \E a \in Range(connects) : Like(a, b)
           /\ \A a \in Range(connects) : \E b \in Range(connects') : b.id = a.id
  <1> DEFINE I == 1 .. Len(connects)
  <1>1. /\ connects' = [i \in I |->
              IF connects[i].fd \in fds /\ connects[i].outcome = "pending"
              THEN [connects[i] EXCEPT !.outcome = "err"] ELSE connects[i]]
    BY Typed DEF AbortPendingDeferredConnects
  <1>2. \A i \in I : connects[i] \in Op
    BY Typed
  <1>3. \A i \in I : connects'[i] = [connects[i] EXCEPT !.outcome = "err"]
                     \/ connects'[i] = connects[i]
    BY <1>1
  <1>4. \A i \in I : connects'[i] \in Op /\ Like(connects[i], connects'[i])
    <2> TAKE i \in I
    <2>1. connects[i] \in Op /\ Like(connects[i], connects[i])
      BY <1>2 DEF Like
    <2> DEFINE e == [connects[i] EXCEPT !.outcome = "err"]
    <2>2. e \in Op
      BY <2>1 DEF Op, Outcomes
    <2>3. Like(connects[i], e)
      BY <2>1 DEF Op, Like
    <2> HIDE DEF e
    <2>4. connects'[i] = e \/ connects'[i] = connects[i]
      BY <1>3 DEF e
    <2> QED
      BY <2>1, <2>2, <2>3, <2>4
  <1>a. \A i \in I : connects'[i].id = connects[i].id
    BY <1>4 DEF Like
  <1>5. connects' = [i \in I |-> connects'[i]]
    BY <1>1
  <1>6. /\ connects' \in Seq(Op)
        /\ \A i \in I : connects[i] \in Range(connects) /\ connects'[i] \in Range(connects')
        /\ \A x \in Range(connects) : \E i \in I : x = connects[i]
        /\ \A x \in Range(connects') : \E i \in I : x = connects'[i]
    BY <1>4, <1>5, RangeMap, Typed
  <1> QED
    BY <1>4, <1>a, <1>6

\* Closing descriptors aborts the connects deferred on them.
LEMMA CloseSocketsInv ==
    ASSUME NetInv, NEW fds \in SUBSET Fds, CloseSockets(fds)
    PROVE  NetInv'
  <1>1. SockInv' /\ OldSocketsKept
    BY DeleteWiiSocketsInv DEF CloseSockets, NetInv
  <1>2. AbortPendingDeferredConnects(fds) /\ UNCHANGED OtherStores
    BY DEF CloseSockets
  <1>3. \A a \in Stored : Like(a, a)
    BY DEF Like
  <1>4. LookupsKnown'
    BY <1>2 DEF OtherStores, LookupsKnown, NetInv
  <1> QED
    BY <1>1, <1>2, <1>3, <1>4, AbortsInPlace, QuietStep, Typed DEF OtherStores, callVars, Stored

\* A shutdown aborts the connects deferred on the descriptor.
LEMMA ShutdownSocketInv ==
    ASSUME NetInv, NEW fd \in Fds, ShutdownSocket(fd)
    PROVE  NetInv'
  <1>1. Open(fd) /\ AbortPendingDeferredConnects({fd})
        /\ UNCHANGED <<sock, nextGen, ssl, OtherStores>>
    BY DEF ShutdownSocket
  <1>2. sock[fd].native \in Natives /\ conn[sock[fd].native] # "closed"
    BY <1>1, FlagsKept DEF NetInv, SockInv, DescriptorsOwned, NativesOwned
  <1>3. PICK st : /\ st = conn[sock[fd].native] \/ (conn[sock[fd].native] = "inflight" /\ st = "failed")
                  /\ conn' = [conn EXCEPT ![sock[fd].native] = st]
    BY DEF ShutdownSocket
  <1>4. SockInv' /\ OldSocketsKept
    <2>1. conn[sock[fd].native] \in HostStates
      BY <1>2 DEF NetInv, SockInv, SocketsTyped
    <2>2. st \in HostStates \ {"closed"} /\ (conn[sock[fd].native] = "up" => st = "up")
      BY <1>2, <1>3, <2>1 DEF HostStates
    <2> QED
      BY <1>1, <1>2, <1>3, <2>2, HostMoves DEF NetInv
  <1>5. \A a \in Stored : Like(a, a)
    BY DEF Like
  <1>6. LookupsKnown'
    BY <1>1 DEF OtherStores, LookupsKnown, NetInv
  <1> QED
    BY <1>1, <1>4, <1>5, <1>6, AbortsInPlace, QuietStep, Typed DEF OtherStores, callVars, Stored

\* RunWorker publishes the look-up it has made.
LEMMA ResolveInv == NetInv /\ ResolveDeferredDns => NetInv'
  <1> SUFFICES ASSUME NetInv, ResolveDeferredDns PROVE NetInv'
    OBVIOUS
  <1>1. PICK op \in resolving, outcome \in {"ok", "err"} :
           /\ resolving' = resolving \ {op}
           /\ completed' = Append(completed, [op EXCEPT !.outcome = outcome])
           /\ UNCHANGED <<socketVars, callVars, polls, connects, results, callbacks, dispatch, pump>>
    BY DEF ResolveDeferredDns
  <1> DEFINE done == [op EXCEPT !.outcome = outcome]
  <1>2. op \in Op /\ op.kind = "dns"
    BY Typed DEF NetInv, LookupsKnown
  <1>3. done \in Op /\ done.kind = "dns" /\ done.id = op.id /\ Like(op, done)
    BY <1>2 DEF Op, Outcomes, Like
  <1>4. completed' = Append(completed, done)
    BY <1>1
  <1> HIDE DEF done
  <1>5. completed' \in Seq(Op) /\ Range(completed') = Range(completed) \cup {done}
    BY <1>3, <1>4, RangeAppend, Typed
  <1>6. LookupsKnown'
    BY <1>1, <1>3, <1>5 DEF LookupsKnown, NetInv
  <1>7. SockInv' /\ OldSocketsKept
    BY <1>1, SocketStutter DEF NetInv
  <1>8. \A a \in Stored : Like(a, a)
    BY DEF Like
  <1>9. \A b \in resolving' \cup Range(completed') \cup Range(polls') \cup Range(connects') :
          \E a \in resolving \cup Range(completed) \cup Range(polls) \cup Range(connects) : Like(a, b)
    BY <1>1, <1>3, <1>5, <1>8 DEF Stored
  <1>10. \A a \in resolving \cup Range(completed) \cup Range(polls) \cup Range(connects) :
          \E b \in resolving' \cup Range(completed') \cup Range(polls') \cup Range(connects') : b.id = a.id
    BY <1>1, <1>3, <1>5
  <1>11. resolving' \subseteq Op /\ polls' \in Seq(Op) /\ connects' \in Seq(Op)
    BY <1>1, Typed
  <1> QED
    BY <1>1, <1>5, <1>6, <1>7, <1>9, <1>10, <1>11, QuietStep DEF callVars

\* A deadline passes in place.
Marked(s, op) == ReplaceAll(s, op, [op EXCEPT !.late = TRUE])

\* Marking a call late changes no number and loses no call.
LEMMA MarksInPlace ==
    ASSUME NEW s \in Seq(Op), NEW op \in Op
    PROVE  /\ Marked(s, op) \in Seq(Op)
           /\ \A b \in Range(Marked(s, op)) : \E a \in Range(s) : Like(a, b)
           /\ \A a \in Range(s) : \E b \in Range(Marked(s, op)) : b.id = a.id
  <1> DEFINE late == [op EXCEPT !.late = TRUE]
             r == Marked(s, op)
  <1>1. late \in Op /\ Like(op, late)
    BY DEF Op, Like
  <1>2. r = [i \in 1 .. Len(s) |-> IF s[i] = op THEN late ELSE s[i]]
    BY DEF ReplaceAll, Marked
  <1> HIDE DEF r, late
  <1>3. \A i \in 1 .. Len(s) : r[i] \in Op /\ Like(s[i], r[i])
    BY <1>1, <1>2 DEF Like
  <1>4. \A i \in 1 .. Len(s) : r[i].id = s[i].id
    BY <1>3 DEF Like
  <1>5. r = [i \in 1 .. Len(s) |-> r[i]]
    BY <1>2
  <1>6. /\ r \in Seq(Op)
        /\ \A i \in 1 .. Len(s) : s[i] \in Range(s) /\ r[i] \in Range(r)
        /\ \A x \in Range(s) : \E i \in 1 .. Len(s) : x = s[i]
        /\ \A x \in Range(r) : \E i \in 1 .. Len(s) : x = r[i]
    BY <1>3, <1>5, RangeMap
  <1>7. ASSUME NEW b \in Range(r)
        PROVE  \E a \in Range(s) : Like(a, b)
    <2>1. PICK i \in 1 .. Len(s) : b = r[i]
      BY <1>6
    <2>2. s[i] \in Range(s) /\ Like(s[i], b)
      BY <1>3, <1>6, <2>1
    <2> QED
      BY <2>2
  <1>8. ASSUME NEW a \in Range(s)
        PROVE  \E b \in Range(r) : b.id = a.id
    <2>1. PICK i \in 1 .. Len(s) : a = s[i]
      BY <1>6
    <2>2. r[i] \in Range(r) /\ r[i].id = a.id
      BY <1>4, <1>6, <2>1
    <2> QED
      BY <2>2
  <1> QED
    BY <1>6, <1>7, <1>8 DEF r

\* A deadline that passes marks one call late.
LEMMA DeadlineInv == NetInv /\ DeadlinePasses => NetInv'
  <1> SUFFICES ASSUME NetInv, DeadlinePasses PROVE NetInv'
    OBVIOUS
  <1>1. PICK op \in Range(polls) \cup Range(connects) :
           polls' = Marked(polls, op) /\ connects' = Marked(connects, op)
    BY DEF DeadlinePasses, Marked
  <1>2. UNCHANGED <<socketVars, callVars, resolving, completed, results, callbacks, dispatch, pump>>
    BY DEF DeadlinePasses
  <1>3. op \in Op
    BY Typed
  <1>4. /\ polls' \in Seq(Op)
        /\ \A b \in Range(polls') : \E a \in Range(polls) : Like(a, b)
        /\ \A a \in Range(polls) : \E b \in Range(polls') : b.id = a.id
    <2> DEFINE s == polls r == Marked(polls, op)
    <2>1. s \in Seq(Op) /\ polls' = r
      BY <1>1, Typed
    <2>2. /\ r \in Seq(Op)
          /\ \A b \in Range(r) : \E a \in Range(s) : Like(a, b)
          /\ \A a \in Range(s) : \E b \in Range(r) : b.id = a.id
      BY <1>3, <2>1, MarksInPlace
    <2> HIDE DEF r
    <2> QED
      BY <2>1, <2>2
  <1>5. /\ connects' \in Seq(Op)
        /\ \A b \in Range(connects') : \E a \in Range(connects) : Like(a, b)
        /\ \A a \in Range(connects) : \E b \in Range(connects') : b.id = a.id
    <2> DEFINE s == connects r == Marked(connects, op)
    <2>1. s \in Seq(Op) /\ connects' = r
      BY <1>1, Typed
    <2>2. /\ r \in Seq(Op)
          /\ \A b \in Range(r) : \E a \in Range(s) : Like(a, b)
          /\ \A a \in Range(s) : \E b \in Range(r) : b.id = a.id
      BY <1>3, <2>1, MarksInPlace
    <2> HIDE DEF r
    <2> QED
      BY <2>1, <2>2
  <1>6. LookupsKnown'
    BY <1>2 DEF LookupsKnown, NetInv
  <1>7. SockInv' /\ OldSocketsKept
    BY <1>2, SocketStutter DEF NetInv
  <1>8. \A a \in Stored : Like(a, a)
    BY DEF Like
  <1> QED
    BY <1>2, <1>4, <1>5, <1>6, <1>7, <1>8, QuietStep, Typed DEF callVars, Stored

\* The calls that are answered at once leave the deferred ones alone.
LEMMA OtherSocketInv == NetInv /\ OtherSocketCall => NetInv'
  <1> SUFFICES ASSUME NetInv, OtherSocketCall PROVE NetInv'
    OBVIOUS
  <1>1. SockInv' /\ OldSocketsKept
    BY SocketCallInv DEF OtherSocketCall, NetInv
  <1> QED
    BY <1>1, SocketsOnly DEF OtherSocketCall, OtherStores, callVars, storeVars

\* The host settling a connect leaves the calls alone.
LEMMA HostStepInv == NetInv /\ HostStep => NetInv'
  BY HostSettlesInv, SocketsOnly DEF HostStep, NetInv

\* Steps of a caller: the calls, the sockets and the pump stay as they are.
LEMMA CallerStep ==
    ASSUME NetInv,
           UNCHANGED <<socketVars, cookie, nextToken, resolving, completed, polls, connects,
                       callbacks, dispatch, pump>>,
           NEW t \in Threads, NEW st \in {"run", "dead"}, NEW w \in {want[t], 0},
           tstate' = [tstate EXCEPT ![t] = st], want' = [want EXCEPT ![t] = w],
           results' \subseteq results,
           \A u \in Threads \ {t} : tstate[u] = "ready" /\ want[u] \in results => want[u] \in results'
    PROVE  NetInv'
  <1>1. /\ tstate'[t] = st /\ want'[t] = w
        /\ \A u \in Threads \ {t} : tstate'[u] = tstate[u] /\ want'[u] = want[u]
    BY Typed
  <1>2. SockInv' /\ OldSocketsKept
    BY SocketStutter DEF NetInv
  <1>3. TypeOK'
    <2>1. /\ tstate' \in [Threads -> {"run", "wait", "ready", "dead"}]
          /\ want' \in [Threads -> 0 .. MaxOps]
      BY Typed, DeferredAssumptions
    <2> QED
      BY <1>2, <2>1 DEF SockInv, NetInv, TypeOK
  <1>4. PumpKnown' /\ LookupsKnown'
    BY PumpKept DEF NetInv, LookupsKnown
  <1>5. CallersKnown'
    <2>1. \A u \in Threads : want[u] < nextToken /\ 0 < nextToken
      BY Typed DEF NetInv, CallersKnown
    <2>2. \A u, v \in Threads : want[u] = want[v] /\ want[u] # 0 => u = v
      BY DEF NetInv, CallersKnown
    <2>3. \A u \in Threads : want'[u] \in {want[u], 0}
      BY <1>1
    <2>4. \A u, v \in Threads : want'[u] = want'[v] /\ want'[u] # 0 => u = v
      BY <2>2, <2>3
    <2>5. \A u \in Threads : want'[u] < nextToken'
      BY <2>1, <2>3
    <2>6. ASSUME NEW u \in Threads
          PROVE  /\ tstate'[u] = "wait" => cookie'[u] = want'[u]
                 /\ tstate'[u] \in {"wait", "ready"} => want'[u] # 0
      <3>1. CASE u = t
        BY <1>1, <3>1
      <3>2. CASE u # t
        BY <1>1, <3>2 DEF NetInv, CallersKnown
      <3> QED
        BY <3>1, <3>2
    <2> QED
      BY <2>4, <2>5, <2>6 DEF CallersKnown
  <1>6. WokenWithOwnResult'
    BY <1>1 DEF NetInv, WokenWithOwnResult
  <1>7. Stored' = Stored /\ Held' = Held
    BY DEF Stored, Held
  <1>8. OpsKnown' /\ ConnectsHonest'
    <2>1. \A a \in Stored : Like(a, a)
      BY DEF Like
    <2>2. \A u \in Threads : want'[u] \in {want[u], 0, nextToken}
      BY <1>1
    <2>3. nextGen' \in Nat
      BY Typed DEF socketVars
    <2> QED
      BY <1>2, <1>7, <2>1, <2>2, <2>3, OpsStep, Typed
  <1>9. NoLostCall'
    <2>1. \A u \in Threads : tstate'[u] = "wait" =>
             /\ tstate[u] = "wait" /\ want'[u] = want[u]
             /\ \A a \in Held : a.id = want[u] => \E b \in Held' : b.id = a.id
      BY <1>1, <1>7
    <2> QED
      BY <2>1, NoLostStep DEF NetInv
  <1> QED
    BY <1>2, <1>3, <1>4, <1>5, <1>6, <1>8, <1>9 DEF NetInv

\* A woken caller takes its own result away and no other.
LEMMA TakeResultInv ==
    ASSUME NetInv, NEW t \in Threads, TakeSyncResult(t)
    PROVE  NetInv'
  <1>1. want[t] # 0 /\ \A u \in Threads \ {t} : want[u] # want[t]
    BY DEF TakeSyncResult, NetInv, CallersKnown
  <1>2. /\ results' = results \ {want[t]}
        /\ tstate' = [tstate EXCEPT ![t] = "run"] /\ want' = [want EXCEPT ![t] = 0]
        /\ UNCHANGED <<socketVars, cookie, nextToken, resolving, completed, polls, connects,
                       callbacks, dispatch, pump>>
    BY DEF TakeSyncResult
  <1>3. results' \subseteq results
        /\ \A u \in Threads \ {t} : want[u] \in results => want[u] \in results'
    BY <1>1, <1>2
  <1> QED
    BY <1>2, <1>3, CallerStep

\* A caller that is cancelled or made anew leaves the calls alone.
LEMMA CancelInv ==
    ASSUME NetInv, NEW t \in Threads, CancelThread(t) \/ RecreateThread(t)
    PROVE  NetInv'
  <1>1. CASE CancelThread(t)
    BY <1>1, CallerStep DEF CancelThread, storeVars
  <1>2. CASE RecreateThread(t)
    <2>1. want' = [want EXCEPT ![t] = want[t]]
      BY <1>2, Typed DEF RecreateThread
    <2> QED
      BY <1>2, <2>1, CallerStep DEF RecreateThread, storeVars
  <1> QED
    BY <1>1, <1>2

-----------------------------------------------------------------------------
(***************************************************************************)
(* The pump.                                                               *)
(***************************************************************************)

\* The look-ups leave `completed' for the pump's list.
LEMMA PumpStartsInv ==
    ASSUME NetInv, NEW h \in Threads \cup {None}, PumpStarts(h)
    PROVE  NetInv'
  <1> DEFINE todo == completed \o polls \o connects
  <1>1. /\ pump' = PumpAt(h, todo, callbacks) /\ completed' = <<>>
        /\ UNCHANGED <<socketVars, callVars, resolving, polls, connects, results, callbacks,
                       dispatch>>
    BY DEF PumpStarts
  <1>2. todo \in Seq(Op) /\ Range(todo) = Range(completed) \cup Range(polls) \cup Range(connects)
    <2> DEFINE c == completed \o polls
    <2>1. c \in Seq(Op) /\ Range(c) = Range(completed) \cup Range(polls)
      BY RangeConcat, Typed
    <2> HIDE DEF c
    <2>2. c \o connects \in Seq(Op) /\ Range(c \o connects) = Range(c) \cup Range(connects)
      BY <2>1, RangeConcat, Typed
    <2>3. todo = c \o connects
      BY DEF c
    <2> QED
      BY <2>1, <2>2, <2>3
  <1> HIDE DEF todo
  <1>3. /\ pump' \in Pumps /\ pump'.todo = todo
        /\ pump'.phase = "serve" <=> todo # <<>>
        /\ pump'.phase = "drain" => callbacks # <<>> /\ dispatch = <<>>
    BY <1>1, <1>2, PumpAtFacts
  <1>4. SockInv' /\ OldSocketsKept
    BY <1>1, SocketStutter DEF NetInv
  <1>5. TypeOK'
    BY <1>1, <1>3, <1>4 DEF SockInv, NetInv, TypeOK, callVars
  <1>6. CallersKnown' /\ WokenWithOwnResult'
    BY <1>1, CallersKept DEF callVars
  <1>7. PumpKnown'
    BY <1>1, <1>3 DEF NetInv, PumpKnown, OneCallbackAtATime
  <1>8. Range(completed') = {}
    BY <1>1, RangeEmpty
  <1>9. Stored' \subseteq Stored
    BY <1>1, <1>2, <1>3, <1>8 DEF Stored
  <1>10. LookupsKnown'
    BY <1>1, <1>8 DEF NetInv, LookupsKnown
  <1>11. OpsKnown' /\ ConnectsHonest'
    <2>1. \A a \in Stored : Like(a, a)
      BY DEF Like
    <2>2. nextGen' \in Nat /\ nextToken' = nextToken /\ want' = want
      BY <1>1, Typed DEF socketVars, callVars
    <2> QED
      BY <1>4, <1>9, <2>1, <2>2, OpsStep, Typed
  <1>12. Held \subseteq Held'
    <2>1. pump.todo = <<>>
      BY DEF PumpStarts, NetInv, PumpKnown
    <2>2. Range(pump.todo) = {}
      BY <2>1, RangeEmpty
    <2>3. \A op \in Range(completed) : op.kind = "dns"
      BY DEF NetInv, LookupsKnown
    <2> QED
      BY <1>1, <1>2, <1>3, <2>2, <2>3 DEF Held
  <1>13. NoLostCall'
    BY <1>1, <1>12, NoLostStep DEF NetInv, callVars
  <1> QED
    BY <1>4, <1>5, <1>6, <1>7, <1>10, <1>11, <1>13 DEF NetInv

\* A call is passed over, or answered to the thread that waits for it.
LEMMA ServesCallers ==
    ASSUME NetInv, NEW op \in Stored, UNCHANGED <<cookie, want, nextToken>>,
           Undelivered \/ (~Deserted(op) /\ Deliver(op))
    PROVE  /\ CallersKnown' /\ WokenWithOwnResult'
           /\ tstate' \in [Threads -> {"run", "wait", "ready", "dead"}]
           /\ results' \subseteq 1 .. MaxOps /\ callbacks' \in Seq(1 .. MaxOps)
           /\ \A u \in Threads : tstate'[u] = "wait" => tstate[u] = "wait"
           /\ Deserted(op) \/ Deliver(op) =>
                 \A u \in Threads : tstate'[u] = "wait" => want[u] # op.id
           /\ \A id \in results' \ results : \E t \in Threads : tstate[t] = "wait" /\ want[t] = id
  <1>0. /\ op \in Op /\ op.id \in 1 .. MaxOps /\ op.thread \in Threads \cup {None}
        /\ \A t \in Threads : want[t] = op.id => op.thread = t
    BY Typed DEF NetInv, OpsKnown, Op
  <1>a. results \subseteq 1 .. MaxOps /\ callbacks \in Seq(1 .. MaxOps)
    BY DEF NetInv, TypeOK
  <1>b. \A u \in Threads : tstate[u] = "wait" => cookie[u] = want[u]
    BY DEF NetInv, CallersKnown
  <1>c. Deserted(op) => \A u \in Threads : tstate[u] = "wait" => want[u] # op.id
    BY <1>0, <1>b, DeferredAssumptions DEF Deserted, DeferredNetworkWaiterIsValid
  <1>1. CASE Undelivered /\ (Deserted(op) \/ ~Deliver(op))
    <2>1. UNCHANGED <<tstate, results, callbacks>>
      BY <1>1 DEF Undelivered
    <2> QED
      BY <1>1, <2>1, <1>a, <1>c, CallersKept, Typed
  <1>2. CASE ~Deserted(op) /\ Deliver(op) /\ op.thread = None
    <2>1. UNCHANGED <<tstate, results>> /\ callbacks' = Append(callbacks, op.id)
      BY <1>2 DEF Deliver
    <2>2. callbacks' \in Seq(1 .. MaxOps)
      BY <1>0, <1>a, <2>1
    <2>3. \A u \in Threads : want[u] # op.id
      BY <1>0, <1>2, DeferredAssumptions
    <2> QED
      BY <1>a, <2>1, <2>2, <2>3, CallersKept, Typed
  <1>3. CASE ~Deserted(op) /\ Deliver(op) /\ op.thread # None
    <2> DEFINE t == op.thread
    <2>1. t \in Threads /\ tstate[t] = "wait" /\ cookie[t] = op.id /\ want[t] = op.id
      BY <1>0, <1>3, <1>b DEF Deserted, DeferredNetworkWaiterIsValid
    <2>2. results' = results \cup {op.id} /\ tstate' = [tstate EXCEPT ![t] = "ready"]
          /\ UNCHANGED callbacks
      BY <1>3 DEF Deliver
    <2> HIDE DEF t
    <2>3. tstate'[t] = "ready" /\ \A u \in Threads \ {t} : tstate'[u] = tstate[u]
      BY <2>1, <2>2, Typed
    <2>4. tstate' \in [Threads -> {"run", "wait", "ready", "dead"}]
      BY <2>1, <2>2, Typed
    <2>5. CallersKnown'
      BY <2>1, <2>3 DEF NetInv, CallersKnown
    <2>6. WokenWithOwnResult'
      BY <2>1, <2>2, <2>3 DEF NetInv, WokenWithOwnResult
    <2>7. \A u \in Threads : tstate'[u] = "wait" => tstate[u] = "wait" /\ want[u] # op.id
      BY <1>0, <2>1, <2>3 DEF t
    <2>8. \A id \in results' \ results : tstate[t] = "wait" /\ want[t] = id
      BY <2>1, <2>2
    <2> QED
      BY <1>0, <1>a, <2>1, <2>2, <2>4, <2>5, <2>6, <2>7, <2>8
  <1> QED
    BY <1>1, <1>2, <1>3

\* Head(pump.todo) has been served: kept, or gone from where it was held.
LEMMA ServesStored ==
    ASSUME NetInv, SockInv', OldSocketsKept, pump.phase = "serve", TurnToNextCall,
           NEW op, op = Head(pump.todo), UNCHANGED resolving,
           Undelivered \/ (~Deserted(op) /\ Deliver(op)),
           polls' \in Seq(Op), connects' \in Seq(Op),
           Range(polls') \subseteq Range(polls), Range(connects') \subseteq Range(connects),
           \/ /\ Deserted(op) \/ Deliver(op)
              /\ Range(polls) \subseteq Range(polls') \cup {op}
              /\ Range(connects) \subseteq Range(connects') \cup {op}
           \/ op.kind # "dns" /\ UNCHANGED <<polls, connects>>
    PROVE  NetInv'
  <1>1. /\ pump.todo # <<>> /\ op \in Op /\ Tail(pump.todo) \in Seq(Op)
        /\ Range(pump.todo) = {op} \cup Range(Tail(pump.todo))
    BY RangeTail, Typed DEF NetInv, PumpKnown
  <1>2. /\ pump' = PumpAt(pump.host, Tail(pump.todo), callbacks')
        /\ UNCHANGED <<cookie, want, nextToken, completed, dispatch>>
    BY DEF TurnToNextCall
  <1>3. op \in Stored
    BY <1>1 DEF Stored
  <1>4. /\ CallersKnown' /\ WokenWithOwnResult'
        /\ tstate' \in [Threads -> {"run", "wait", "ready", "dead"}]
        /\ results' \subseteq 1 .. MaxOps /\ callbacks' \in Seq(1 .. MaxOps)
        /\ \A u \in Threads : tstate'[u] = "wait" => tstate[u] = "wait"
        /\ Deserted(op) \/ Deliver(op) =>
              \A u \in Threads : tstate'[u] = "wait" => want[u] # op.id
    BY <1>2, <1>3, ServesCallers
  <1> DEFINE todo == Tail(pump.todo)
  <1>5. todo \in Seq(Op) /\ Range(pump.todo) = {op} \cup Range(todo)
        /\ pump' = PumpAt(pump.host, todo, callbacks')
    BY <1>1, <1>2
  <1> HIDE DEF todo
  <1>6. /\ pump' \in Pumps /\ pump'.todo = todo
        /\ pump'.phase = "serve" <=> todo # <<>>
        /\ pump'.phase = "drain" => callbacks' # <<>> /\ dispatch = <<>>
    <2>1. pump.host \in Threads \cup {None}
      BY Typed DEF Pumps
    <2>2. ASSUME NEW q, q = callbacks'
          PROVE  /\ pump' \in Pumps /\ pump'.todo = todo
                 /\ pump'.phase = "serve" <=> todo # <<>>
                 /\ pump'.phase = "drain" => q # <<>> /\ dispatch = <<>>
      <3>1. pump' = PumpAt(pump.host, todo, q)
        BY <1>5, <2>2
      <3> DEFINE p == PumpAt(pump.host, todo, q)
      <3>2. /\ p \in Pumps /\ p.todo = todo
            /\ p.phase = "serve" <=> todo # <<>>
            /\ p.phase = "drain" => q # <<>> /\ dispatch = <<>>
        BY <1>5, <2>1, PumpAtFacts
      <3> HIDE DEF p
      <3> QED
        BY <3>1, <3>2 DEF p
    <2> QED
      BY <2>2
  <1>7. TypeOK'
    BY <1>2, <1>4, <1>6 DEF SockInv, NetInv, TypeOK
  <1>8. PumpKnown'
    BY <1>2, <1>6 DEF NetInv, PumpKnown, OneCallbackAtATime
  <1>9. LookupsKnown'
    BY <1>2 DEF NetInv, LookupsKnown
  <1>10. Stored' \subseteq Stored
    BY <1>2, <1>5, <1>6 DEF Stored
  <1>11. OpsKnown' /\ ConnectsHonest'
    <2>1. \A a \in Stored : Like(a, a)
      BY DEF Like
    <2>2. nextGen' \in Nat
      BY SocketAssumptions DEF SockInv, SocketsTyped
    <2> QED
      BY <1>2, <1>10, <2>1, <2>2, OpsStep, Typed
  <1>12. NoLostCall'
    <2>1. CASE Deserted(op) \/ Deliver(op)
      <3>1. \A u \in Threads : tstate'[u] = "wait" => want[u] # op.id
        BY <1>4, <2>1
      <3>2. Range(polls) \subseteq Range(polls') \cup {op}
            /\ Range(connects) \subseteq Range(connects') \cup {op}
        OBVIOUS
      <3>3. Held \subseteq Held' \cup {op}
        BY <1>2, <1>5, <1>6, <3>2 DEF Held
      <3> QED
        BY <1>2, <1>4, <3>1, <3>3, NoLostStep DEF NetInv
    <2>2. CASE op.kind # "dns" /\ UNCHANGED <<polls, connects>>
      <3>1. Held \subseteq Held'
        BY <1>2, <1>5, <1>6, <2>2 DEF Held
      <3> QED
        BY <1>2, <1>4, <3>1, NoLostStep DEF NetInv
    <2> QED
      BY <2>1, <2>2
  <1> QED
    BY <1>4, <1>7, <1>8, <1>9, <1>11, <1>12 DEF NetInv

\* The pump serves a finished lookup.
LEMMA ServeDnsInv == NetInv /\ ServeDns => NetInv'
  <1> SUFFICES ASSUME NetInv, ServeDns PROVE NetInv'
    OBVIOUS
  <1> DEFINE op == Head(pump.todo)
  <1>1. /\ pump.phase = "serve" /\ TurnToNextCall
        /\ UNCHANGED <<sock, polls, connects>>
        /\ IF Deserted(op) THEN Undelivered ELSE Deliver(op)
    BY DEF ServeDns, Serving
  <1>2. UNCHANGED resolving /\ UNCHANGED socketVars
    BY <1>1 DEF TurnToNextCall, socketVars
  <1>3. SockInv' /\ OldSocketsKept
    BY <1>2, SocketStutter DEF NetInv
  <1>4. polls' \in Seq(Op) /\ connects' \in Seq(Op)
    BY <1>1, Typed
  <1> HIDE DEF op
  <1> QED
    BY <1>1, <1>2, <1>3, <1>4, ServesStored DEF op

\* What erase leaves of a store.
LEMMA Erased ==
    ASSUME NEW s \in Seq(Op), NEW op, NEW r, r = RemoveFirst(s, op)
    PROVE  r \in Seq(Op) /\ Range(r) \subseteq Range(s) /\ Range(s) \subseteq Range(r) \cup {op}
  BY RangeRemoveFirst

\* The pump serves a poll.
LEMMA ServePollInv == NetInv /\ ServePoll => NetInv'
  <1> SUFFICES ASSUME NetInv, ServePoll PROVE NetInv'
    OBVIOUS
  <1> DEFINE op == Head(pump.todo)
  <1>1. /\ pump.phase = "serve" /\ op.kind = "poll" /\ TurnToNextCall
        /\ UNCHANGED <<sock, connects>>
        /\ \/ Deserted(op) /\ polls' = RemoveFirst(polls, op) /\ Undelivered
           \/ ~Deserted(op) /\ polls' = RemoveFirst(polls, op) /\ Deliver(op)
           \/ UNCHANGED polls /\ Undelivered
    BY DEF ServePoll, Serving
  <1>2. UNCHANGED resolving /\ UNCHANGED socketVars
    BY <1>1 DEF TurnToNextCall, socketVars
  <1>3. SockInv' /\ OldSocketsKept
    BY <1>2, SocketStutter DEF NetInv
  <1>4. connects' \in Seq(Op) /\ connects' = connects /\ polls \in Seq(Op)
    BY <1>1, Typed
  <1> HIDE DEF op
  <1>5. CASE /\ polls' = RemoveFirst(polls, op)
             /\ \/ Deserted(op) /\ Undelivered
                \/ ~Deserted(op) /\ Deliver(op)
    <2>1. polls' \in Seq(Op) /\ Range(polls') \subseteq Range(polls)
          /\ Range(polls) \subseteq Range(polls') \cup {op}
      BY <1>4, <1>5, RangeRemoveFirst
    <2> QED
      BY <1>1, <1>2, <1>3, <1>4, <1>5, <2>1, ServesStored DEF op
  <1>6. CASE UNCHANGED polls /\ Undelivered
    BY <1>1, <1>2, <1>3, <1>4, <1>6, ServesStored DEF op
  <1> QED
    BY <1>1, <1>5, <1>6

\* A success is recorded where the call's identity is current, and there the
\* connection is up.
LEMMA ConnectedIsUp ==
    ASSUME NetInv, NEW op \in Stored, op.kind = "connect", Connected(op)
    PROVE  op.fd \in Fds /\ Open(op.fd) /\ conn[sock[op.fd].native] = "up"
  <1>1. op.fd \in Fds /\ (op.outcome = "ok" /\ SocketIdentityIsCurrent(op) => conn[op.native] = "up")
    BY DEF NetInv, ConnectsHonest
  <1>2. SocketIdentityIsCurrent(op) /\ ProbeDeferredConnect(op) = "ok"
    BY DEF Connected
  <1>3. conn[op.native] = "up"
    BY <1>1, <1>2 DEF ProbeDeferredConnect
  <1> QED
    BY <1>1, <1>2, <1>3 DEF SocketIdentityIsCurrent, Open

\* The pump serves a connect.
LEMMA ServeConnectInv == NetInv /\ ServeConnect => NetInv'
  <1> SUFFICES ASSUME NetInv, ServeConnect PROVE NetInv'
    OBVIOUS
  <1> DEFINE op == Head(pump.todo)
  <1>1. /\ pump.phase = "serve" /\ op.kind = "connect" /\ TurnToNextCall /\ UNCHANGED polls
        /\ \/ /\ connects' = RemoveFirst(connects, op)
              /\ \/ Deserted(op) /\ Undelivered
                 \/ ~Deserted(op) /\ Deliver(op)
           \/ UNCHANGED connects /\ Undelivered
        /\ UNCHANGED sock \/ (Connected(op) /\ sock' = [sock EXCEPT ![op.fd].peer = TRUE])
    BY DEF ServeConnect, Serving
  <1>2. UNCHANGED <<nextGen, ssl, conn, resolving>>
    BY <1>1 DEF TurnToNextCall
  <1>3. op \in Stored
    BY <1>1, RangeTail, Typed DEF NetInv, PumpKnown, Stored
  <1>4. polls' \in Seq(Op) /\ polls' = polls /\ connects \in Seq(Op)
    BY <1>1, Typed
  <1> HIDE DEF op
  <1>5. SockInv' /\ OldSocketsKept
    <2>1. CASE UNCHANGED sock
      BY <1>2, <2>1, SocketStutter DEF NetInv, socketVars
    <2>2. CASE Connected(op) /\ sock' = [sock EXCEPT ![op.fd].peer = TRUE]
      BY <1>1, <1>2, <1>3, <2>2, ConnectedIsUp, RecordPeerInv DEF NetInv
    <2> QED
      BY <1>1, <2>1, <2>2
  <1>6. CASE /\ connects' = RemoveFirst(connects, op)
             /\ \/ Deserted(op) /\ Undelivered
                \/ ~Deserted(op) /\ Deliver(op)
    <2>1. connects' \in Seq(Op) /\ Range(connects') \subseteq Range(connects)
          /\ Range(connects) \subseteq Range(connects') \cup {op}
      BY <1>4, <1>6, RangeRemoveFirst
    <2> QED
      BY <1>1, <1>2, <1>4, <1>5, <1>6, <2>1, ServesStored DEF op
  <1>7. CASE UNCHANGED connects /\ Undelivered
    BY <1>1, <1>2, <1>4, <1>5, <1>7, ServesStored DEF op
  <1> QED
    BY <1>1, <1>6, <1>7

\* The callbacks: what the drain starts is alone, and it ends where it began.
LEMMA CallbackSteps ==
    ASSUME NetInv, UNCHANGED <<socketVars, callVars, storeVars>>,
           pump' \in Pumps, pump.todo = <<>>, pump'.todo = <<>>, PumpKnown',
           callbacks' \in Seq(1 .. MaxOps),
           dispatch' \in Seq([id : 1 .. MaxOps, host : Threads \cup {None}])
    PROVE  NetInv'
  <1>1. SockInv' /\ OldSocketsKept
    BY SocketStutter DEF NetInv
  <1>2. TypeOK'
    BY <1>1 DEF SockInv, NetInv, TypeOK, callVars, storeVars
  <1>3. CallersKnown' /\ WokenWithOwnResult' /\ LookupsKnown'
    BY CallersKept DEF callVars, storeVars, NetInv, LookupsKnown
  <1>4. Stored' = Stored /\ Held' = Held
    BY DEF Stored, Held, storeVars
  <1>5. OpsKnown' /\ ConnectsHonest'
    <2>1. \A a \in Stored : Like(a, a)
      BY DEF Like
    <2>2. nextGen' \in Nat /\ nextToken' = nextToken /\ want' = want
      BY Typed DEF socketVars, callVars
    <2> QED
      BY <1>1, <1>4, <2>1, <2>2, OpsStep, Typed
  <1>6. NoLostCall'
    BY <1>4, NoLostStep DEF NetInv, callVars
  <1> QED
    BY <1>1, <1>2, <1>3, <1>5, <1>6 DEF NetInv

\* A pump at rest holds nothing.
LEMMA IdleFacts == Idle \in Pumps /\ Idle.todo = <<>> /\ Idle.phase = "idle"
  BY DEF Idle, Pumps

\* The pump takes the oldest callback and calls it.
LEMMA DispatchInv == NetInv /\ DispatchCallback => NetInv'
  <1> SUFFICES ASSUME NetInv, DispatchCallback PROVE NetInv'
    OBVIOUS
  <1>1. /\ pump.phase = "drain" /\ dispatch = <<>> /\ callbacks # <<>> /\ pump.todo = <<>>
        /\ dispatch' = Append(dispatch, [id |-> Head(callbacks), host |-> pump.host])
        /\ callbacks' = Tail(callbacks) /\ pump' = Idle
    BY DEF DispatchCallback, NetInv, PumpKnown
  <1>2. callbacks \in Seq(1 .. MaxOps) /\ pump.host \in Threads \cup {None}
    BY Typed DEF NetInv, TypeOK, Pumps
  <1>3. callbacks' \in Seq(1 .. MaxOps) /\ Head(callbacks) \in 1 .. MaxOps
    <2> DEFINE S == 1 .. MaxOps
    <2>1. callbacks \in Seq(S) /\ callbacks # <<>>
      BY <1>1, <1>2
    <2> HIDE DEF S
    <2>2. Tail(callbacks) \in Seq(S) /\ Head(callbacks) \in S
      BY <2>1
    <2> QED
      BY <1>1, <2>2 DEF S
  <1> DEFINE c == [id |-> Head(callbacks), host |-> pump.host]
             C == [id : 1 .. MaxOps, host : Threads \cup {None}]
  <1>4. c \in C
    BY <1>2, <1>3
  <1> HIDE DEF c, C
  <1>5. dispatch' = <<c>>
    BY <1>1 DEF c
  <1>6. dispatch' \in Seq(C) /\ Len(dispatch') = 1
    BY <1>4, <1>5
  <1>7. PumpKnown'
    BY <1>1, <1>6, IdleFacts DEF PumpKnown, OneCallbackAtATime
  <1> QED
    BY <1>1, <1>3, <1>6, <1>7, IdleFacts, CallbackSteps DEF C, DispatchCallback

\* The callback returns to the pump that called it.
LEMMA ReturnInv == NetInv /\ CallbackReturns => NetInv'
  <1> SUFFICES ASSUME NetInv, CallbackReturns PROVE NetInv'
    OBVIOUS
  <1> DEFINE C == [id : 1 .. MaxOps, host : Threads \cup {None}]
  <1>1. dispatch \in Seq(C) /\ Len(dispatch) <= 1 /\ dispatch # <<>>
    BY DEF CallbackReturns, NetInv, TypeOK, PumpKnown, OneCallbackAtATime
  <1>2. Len(dispatch) = 1 /\ Last(dispatch) \in C
    <2> HIDE DEF C
    <2>1. Len(dispatch) = 1
      <3> DEFINE n == Len(dispatch)
      <3>1. n \in Nat /\ n # 0 /\ n <= 1
        BY <1>1
      <3> HIDE DEF n
      <3>2. n = 1
        BY <3>1
      <3> QED
        BY <3>2 DEF n
    <2> QED
      BY <1>1, <2>1 DEF Last
  <1>3. Last(dispatch).host \in Threads \cup {None}
    BY <1>2
  <1> HIDE DEF C
  <1>4. dispatch' = <<>>
    BY <1>1, <1>2 DEF CallbackReturns, Front
  <1> DEFINE h == Last(dispatch).host
  <1>5. pump' = IF callbacks # <<>> THEN [phase |-> "drain", host |-> h, todo |-> <<>>] ELSE Idle
    BY DEF CallbackReturns
  <1>6. h \in Threads \cup {None}
    BY <1>3
  <1> HIDE DEF h
  <1>7. /\ pump' \in Pumps /\ pump'.todo = <<>> /\ pump'.phase \in {"idle", "drain"}
        /\ pump'.phase = "drain" => callbacks # <<>>
    <2>1. CASE callbacks # <<>>
      <3>1. pump' = [phase |-> "drain", host |-> h, todo |-> <<>>]
        BY <1>5, <2>1
      <3> QED
        BY <1>6, <2>1, <3>1 DEF Pumps
    <2>2. CASE callbacks = <<>>
      BY <1>5, <2>2, IdleFacts
    <2> QED
      BY <2>1, <2>2
  <1>8. UNCHANGED callbacks /\ callbacks' \in Seq(1 .. MaxOps) /\ pump.todo = <<>>
    BY DEF CallbackReturns, NetInv, TypeOK, PumpKnown
  <1>9. PumpKnown'
    BY <1>4, <1>7, <1>8 DEF PumpKnown, OneCallbackAtATime
  <1>10. dispatch' \in Seq([id : 1 .. MaxOps, host : Threads \cup {None}])
    BY <1>4
  <1> QED
    BY <1>7, <1>8, <1>9, <1>10, CallbackSteps DEF CallbackReturns

-----------------------------------------------------------------------------
\* No call is in flight when the device is opened.
LEMMA InitInv == Init => NetInv
  <1> SUFFICES ASSUME Init PROVE NetInv
    OBVIOUS
  <1> USE DEF Init, DeferredInit
  <1>1. SockInv
    BY SocketInitInv
  <1>2. Stored = {}
    BY IdleFacts, RangeEmpty DEF Stored
  <1>3. TypeOK
    <2>1. nextToken \in 1 .. MaxOps + 1 /\ 0 \in 0 .. MaxOps
      BY DeferredAssumptions
    <2> QED
      BY <1>1, <2>1, IdleFacts DEF TypeOK, SockInv
  <1>4. OpsKnown /\ ConnectsHonest
    BY <1>2 DEF OpsKnown, ConnectsHonest
  <1>5. LookupsKnown
    BY RangeEmpty DEF LookupsKnown
  <1>6. CallersKnown /\ WokenWithOwnResult /\ NoLostCall
    BY DEF CallersKnown, WokenWithOwnResult, NoLostCall
  <1>7. PumpKnown
    BY IdleFacts DEF PumpKnown, OneCallbackAtATime
  <1> QED
    BY <1>1, <1>3, <1>4, <1>5, <1>6, <1>7 DEF NetInv

\* The inductive invariant is kept by every step.
LEMMA StepInv == NetInv /\ [Next]_vars => NetInv'
  <1> SUFFICES ASSUME NetInv, [Next]_vars PROVE NetInv'
    OBVIOUS
  <1>1. CASE Next
    BY <1>1, StartDnsInv, StartPollInv, StartConnectInv, TakeResultInv, CloseSocketsInv,
       ShutdownSocketInv, OtherSocketInv, CancelInv, ResolveInv, DeadlineInv, HostStepInv,
       PumpStartsInv, ServeDnsInv, ServePollInv, ServeConnectInv, DispatchInv, ReturnInv
       DEF Next, Pumping
  <1>2. CASE UNCHANGED vars
    <2>1. SockInv' /\ OldSocketsKept
      BY <1>2, SocketStutter DEF NetInv, vars
    <2> QED
      BY <1>2, <2>1, SocketsOnly DEF vars
  <1> QED
    BY <1>1, <1>2

\* NetInv holds throughout.
LEMMA NetInvariant == Spec => []NetInv
  BY InitInv, StepInv, PTL DEF Spec

\* A host descriptor is behind one slot at most and open, and a session's is its
\* slot's: SOClose, SOCleanup and ReconnectWiiSocket never leave a slot or a session
\* with a descriptor the host may have given to somebody else.
THEOREM NetDescriptors == Spec => []DescriptorsOwned
  <1>1. NetInv => DescriptorsOwned
    BY DEF NetInv, SockInv
  <1> QED
    BY <1>1, NetInvariant, PTL

\* A peer is recorded for a connection of this very socket, however late
\* ProbeDeferredConnect finds it settled.
THEOREM NetPeers == Spec => []PeerMeansConnected
  <1>1. NetInv => PeerMeansConnected
    BY DEF NetInv, SockInv
  <1> QED
    BY <1>1, NetInvariant, PTL

\* A thread woken from TryDeferredNetworkIosSync redeems the result of the call it
\* made, though its frame may lie where a cancelled thread's lay.
THEOREM NetWoken == Spec => []WokenWithOwnResult
  <1>1. NetInv => WokenWithOwnResult
    BY DEF NetInv
  <1> QED
    BY <1>1, NetInvariant, PTL

\* No path through Network_HLE_ProcessCompletions drops a call that somebody waits
\* for.
THEOREM NetNoLostCall == Spec => []NoLostCall
  <1>1. NetInv => NoLostCall
    BY DEF NetInv
  <1> QED
    BY <1>1, NetInvariant, PTL

\* NandProcessPendingCallbacks runs completion callbacks one at a time, whichever
\* pump nests in which.
THEOREM NetOneCallback == Spec => []OneCallbackAtATime
  <1>1. NetInv => OneCallbackAtATime
    BY DEF NetInv, PumpKnown
  <1> QED
    BY <1>1, NetInvariant, PTL

\* What a step may add to the results.
AnswersAWaiter ==
    \A id \in results' \ results : \E t \in Threads : tstate[t] = "wait" /\ want[t] = id

\* A step answers only a caller that is waiting.
LEMMA AnswersStep == NetInv /\ [Next]_vars => [AnswersAWaiter]_vars
  <1> SUFFICES ASSUME NetInv, Next PROVE AnswersAWaiter
    OBVIOUS
  <1>1. CASE ServeDns \/ ServePoll \/ ServeConnect
    <2> DEFINE op == Head(pump.todo)
    <2>1. /\ pump.phase = "serve" /\ TurnToNextCall
          /\ Undelivered \/ (~Deserted(op) /\ Deliver(op))
      BY <1>1 DEF ServeDns, ServePoll, ServeConnect, Serving
    <2>2. op \in Stored
      BY <2>1, RangeTail, Typed DEF NetInv, PumpKnown, Stored
    <2> HIDE DEF op
    <2>3. UNCHANGED <<cookie, want, nextToken>>
      BY <2>1 DEF TurnToNextCall
    <2> QED
      BY <2>1, <2>2, <2>3, ServesCallers DEF AnswersAWaiter
  <1>2. CASE results' \subseteq results
    BY <1>2 DEF AnswersAWaiter
  <1>3. CASE \E t \in Threads \cup {None} :
                \/ StartDns(t)
                \/ \E fd \in Fds, endless \in BOOLEAN : StartPoll(t, fd, endless)
                \/ \E fd \in Fds : StartConnect(t, fd)
    BY <1>2, <1>3 DEF StartDns, StartPoll, StartConnect, StartDeferred
  <1> QED
    BY <1>1, <1>2, <1>3
       DEF Next, Pumping, TakeSyncResult, CloseSockets, ShutdownSocket, OtherSocketCall,
           OtherStores, CancelThread, RecreateThread, ResolveDeferredDns, DeadlinePasses,
           HostStep, PumpStarts, DispatchCallback, CallbackReturns, storeVars

\* DeliverDeferredNetworkResult writes through a caller's buffer only while that
\* caller waits in its frame.
THEOREM NetAnswers == Spec => AnsweredWhileWaiting
  <1>1. Spec => [][AnswersAWaiter]_vars
    BY NetInvariant, AnswersStep, PTL DEF Spec
  <1> QED
    BY <1>1 DEF AnsweredWhileWaiting, AnswersAWaiter
=============================================================================
