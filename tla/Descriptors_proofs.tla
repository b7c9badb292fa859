------------------------ MODULE Descriptors_proofs -------------------------
(***************************************************************************)
(* What holds of Descriptors for any number of Connections and any size of *)
(* the descriptor table.  OwnSocket is inductive, beside TypeOK, once it   *)
(* is said of the destroyed objects too; the count of open sockets moves   *)
(* by one with each socket opened or closed.                               *)
(***************************************************************************)
EXTENDS Descriptors, FiniteSetTheorems, TLAPS

\* OwnSocket without its Alive: as the destructor closes nothing, an object refers to
\* its own socket beyond its end.
OwnEver ==
    \A c \in Connections \ (connected \cup usurped) :
        conn[c].fd # -1 =>
            /\ IsSocket(conn[c].fd)
            /\ table[conn[c].fd].of = c
            /\ table[conn[c].fd].state # "accepted"

IInv == TypeOK /\ OwnEver

Open == {fd \in Fds : IsSocket(fd)}

LEMMA InitInv == Init => IInv
  <1> SUFFICES ASSUME Init PROVE IInv
    OBVIOUS
  <1> USE DEF Init, Free, StandardInput, Unborn, Fds
  <1>1. TypeOK
    BY DescriptorAssumption DEF TypeOK, SocketStates
  <1>2. OwnEver
    BY DEF OwnEver
  <1> QED
    BY <1>1, <1>2 DEF IInv

\* A Connection keeps its own socket through a step that leaves the object and the
\* owner of that socket alone.
LEMMA Kept ==
    ASSUME TypeOK, OwnEver, NEW d \in Connections, d \notin connected \cup usurped,
           conn'[d].fd = conn[d].fd, conn[d].fd # -1,
           \A fd \in Fds : table[fd].of = d /\ IsSocket(fd) /\ table[fd].state # "accepted" =>
                           /\ table'[fd].of = d
                           /\ table'[fd].state \in SocketStates \ {"accepted"}
    PROVE  /\ IsSocket(conn[d].fd)'
           /\ table'[conn'[d].fd].of = d
           /\ table'[conn'[d].fd].state # "accepted"
  <1>1. /\ IsSocket(conn[d].fd)
        /\ table[conn[d].fd].of = d
        /\ table[conn[d].fd].state # "accepted"
    BY DEF OwnEver
  <1>2. conn[d].fd \in Fds
    BY <1>1 DEF IsSocket
  <1> QED
    BY <1>1, <1>2 DEF IsSocket

\* A socket that moves to another state stays a socket of its owner.
LEMMA BecomesType ==
    ASSUME TypeOK, NEW c \in Connections, NEW s \in SocketStates,
           IsSocket(conn[c].fd), Becomes(c, s)
    PROVE  /\ table' \in [Fds -> [state : SocketStates \cup {"free", "file"},
                                  of : Connections \cup {Nobody}]]
           /\ \A fd \in Fds : table'[fd].state = "free" => table'[fd] = Free
           /\ \A fd \in Fds : table'[fd] = IF fd = conn[c].fd
                                            THEN [state |-> s, of |-> table[fd].of]
                                            ELSE table[fd]
  BY DEF TypeOK, Becomes, IsSocket, SocketStates, Free

\* ... so whoever else holds a socket keeps it.
Moves(c, s) == IsSocket(conn[c].fd) /\ Becomes(c, s) /\ s \in SocketStates \ {"accepted"}

\* A Connect that succeeds moves its socket, and a datagram socket to where it was.
LEMMA ConnectMoves ==
    ASSUME NEW c \in Connections, Connect(c)
    PROVE  \E s : Moves(c, s)
  <1> DEFINE s == IF SocketIn(c, {"datagram"}) THEN "datagram" ELSE "connected"
  <1>1. Becomes(c, s) /\ IsSocket(conn[c].fd)
    BY DEF Connect, SocketIn
  <1>2. s \in SocketStates \ {"accepted"}
    BY DEF SocketStates
  <1> HIDE DEF s
  <1> QED
    BY <1>1, <1>2 DEF Moves

LEMMA MovesKeep ==
    ASSUME TypeOK, NEW c \in Connections, NEW s, Moves(c, s), NEW d
    PROVE  \A fd \in Fds :
             table[fd].of = d /\ IsSocket(fd) /\ table[fd].state # "accepted" =>
                /\ table'[fd].of = d
                /\ table'[fd].state \in SocketStates \ {"accepted"}
  <1>1. \A fd \in Fds : table'[fd] = IF fd = conn[c].fd
                                     THEN [state |-> s, of |-> table[fd].of]
                                     ELSE table[fd]
    BY BecomesType DEF Moves
  <1>2. s \in SocketStates \ {"accepted"}
    BY DEF Moves
  <1> SUFFICES ASSUME NEW fd \in Fds, table[fd].of = d, IsSocket(fd),
                      table[fd].state # "accepted"
               PROVE  /\ table'[fd].of = d
                      /\ table'[fd].state \in SocketStates \ {"accepted"}
    OBVIOUS
  <1>3. CASE fd = conn[c].fd
    <2>1. table'[fd] = [state |-> s, of |-> d]
      BY <1>1, <1>3
    <2> QED
      BY <1>2, <2>1
  <1>4. CASE fd # conn[c].fd
    <2>1. table'[fd] = table[fd]
      BY <1>1, <1>4
    <2> QED
      BY <2>1 DEF IsSocket
  <1> QED
    BY <1>3, <1>4

\* Every step keeps the types ...
LEMMA TypeStep == TypeOK /\ [Next]_vars => TypeOK'
  <1> SUFFICES ASSUME TypeOK, [Next]_vars PROVE TypeOK'
    OBVIOUS
  <1> USE DescriptorAssumption DEF TypeOK
  <1>1. ASSUME NEW c \in Connections, Construct(c) PROVE TypeOK'
    <2>1. CASE UNCHANGED <<table, made>> /\ conn' = [conn EXCEPT ![c] = Holding(-1)]
      BY <1>1, <2>1 DEF Construct, Holding
    <2>2. CASE \E fd \in Fds :
                 /\ table' = [table EXCEPT ![fd] = [state |-> "unbound", of |-> c]]
                 /\ conn' = [conn EXCEPT ![c] = Holding(fd)]
                 /\ made' = made + 1
      <3> PICK fd \in Fds :
                 /\ table' = [table EXCEPT ![fd] = [state |-> "unbound", of |-> c]]
                 /\ conn' = [conn EXCEPT ![c] = Holding(fd)]
                 /\ made' = made + 1
        BY <2>2
      <3>1. <<>> \in Seq(Fds)
        OBVIOUS
      <3>2. conn' \in [Connections -> [life : {"unborn", "alive", "destroyed"},
                                       fd : Fds \cup {-1}, clients : Seq(Fds)]]
        BY <3>1 DEF Holding
      <3>3. /\ table' \in [Fds -> [state : SocketStates \cup {"free", "file"},
                                   of : Connections \cup {Nobody}]]
            /\ \A e \in Fds : table'[e].state = "free" => table'[e] = Free
        BY DEF SocketStates, Free
      <3> QED
        BY <1>1, <3>2, <3>3 DEF Construct
    <2> QED
      BY <1>1, <2>1, <2>2 DEF Construct
  <1>2. ASSUME NEW c \in Connections, Destroy(c) PROVE TypeOK'
    BY <1>2 DEF Destroy
  <1>3. ASSUME NEW c \in Connections, getDescriptor(c) PROVE TypeOK'
    BY <1>3 DEF getDescriptor
  <1>4. ASSUME NEW c \in Connections, Bind(c) PROVE TypeOK'
    BY <1>4, BecomesType DEF Bind, SocketIn, SocketStates
  <1>5. ASSUME NEW c \in Connections, Listen(c) PROVE TypeOK'
    BY <1>5, BecomesType DEF Listen, SocketIn, SocketStates
  <1>6. ASSUME NEW c \in Connections, Accept(c) PROVE TypeOK'
    BY <1>6 DEF Accept, SocketStates, Free
  <1>7. ASSUME NEW c \in Connections, Connect(c) PROVE TypeOK'
    <2>1. 0 \in Fds
      BY DEF Fds
    <2>2. conn' \in [Connections -> [life : {"unborn", "alive", "destroyed"},
                                     fd : Fds \cup {-1}, clients : Seq(Fds)]]
      BY <1>7, <2>1 DEF Connect
    <2>3. PICK s \in SocketStates : IsSocket(conn[c].fd) /\ Becomes(c, s)
      BY <1>7, ConnectMoves DEF Moves
    <2>4. /\ table' \in [Fds -> [state : SocketStates \cup {"free", "file"},
                                 of : Connections \cup {Nobody}]]
          /\ \A e \in Fds : table'[e].state = "free" => table'[e] = Free
      BY <2>3, BecomesType
    <2>5. connected' = connected \cup {c} /\ UNCHANGED <<usurped, accepts, held, interfaces, made, released>>
      BY <1>7 DEF Connect
    <2> QED
      BY <2>2, <2>4, <2>5
  <1>8. ASSUME NEW c \in Connections, ConnectFails(c) PROVE TypeOK'
    BY <1>8 DEF ConnectFails
  <1>9. ASSUME NEW fd \in held, Shutdown(fd) PROVE TypeOK'
    BY <1>9 DEF Shutdown, IsSocket, SocketStates, Free
  <1>10. ASSUME NEW fd \in held, Close(fd) PROVE TypeOK'
    BY <1>10 DEF Close, SocketStates, Free
  <1>11. ASSUME NetworkInterface PROVE TypeOK'
    <2>1. interfaces' \in 0..MaxInterfaces
      BY <1>11 DEF NetworkInterface
    <2>2. /\ table' \in [Fds -> [state : SocketStates \cup {"free", "file"},
                                 of : Connections \cup {Nobody}]]
          /\ \A e \in Fds : table'[e].state = "free" => table'[e] = Free
          /\ {made, released}' \subseteq Nat
      <3>1. CASE UNCHANGED <<table, made>>
        BY <1>11, <3>1 DEF NetworkInterface
      <3>2. CASE \E fd \in Fds :
                   /\ table' = [table EXCEPT ![fd] = [state |-> "datagram", of |-> Nobody]]
                   /\ made' = made + 1
        BY <1>11, <3>2 DEF NetworkInterface, SocketStates, Free
      <3> QED
        BY <1>11, <3>1, <3>2 DEF NetworkInterface
    <2>3. UNCHANGED <<conn, connected, usurped, accepts, held>>
      BY <1>11 DEF NetworkInterface
    <2> QED
      BY <2>1, <2>2, <2>3
  <1>12. CASE UNCHANGED vars
    BY <1>12 DEF vars
  <1> QED
    BY <1>1, <1>2, <1>3, <1>4, <1>5, <1>6, <1>7, <1>8, <1>9, <1>10, <1>11, <1>12
       DEF Next, CallFails

\* ... and every Connection its socket.
LEMMA OwnStep == TypeOK /\ OwnEver /\ [Next]_vars => OwnEver'
  <1> SUFFICES ASSUME TypeOK, OwnEver, [Next]_vars,
                      NEW d \in Connections,
                      d \notin connected' \cup usurped', conn'[d].fd # -1
               PROVE  /\ IsSocket(conn[d].fd)'
                      /\ table'[conn'[d].fd].of = d
                      /\ table'[conn'[d].fd].state # "accepted"
    BY DEF OwnEver
  <1> DEFINE Goal == /\ IsSocket(conn[d].fd)'
                     /\ table'[conn'[d].fd].of = d
                     /\ table'[conn'[d].fd].state # "accepted"
  <1> USE DescriptorAssumption
  <1>1. ASSUME NEW c \in Connections, Construct(c) PROVE Goal
    <2>1. CASE UNCHANGED table /\ conn' = [conn EXCEPT ![c] = Holding(-1)]
      <3>1. d # c /\ conn'[d].fd = conn[d].fd
        BY <2>1 DEF TypeOK, Holding
      <3> QED
        BY <1>1, <2>1, <3>1, Kept DEF Construct, IsSocket
    <2>2. CASE \E fd \in Fds :
                 /\ Lowest(fd)
                 /\ table' = [table EXCEPT ![fd] = [state |-> "unbound", of |-> c]]
                 /\ conn' = [conn EXCEPT ![c] = Holding(fd)]
      <3> PICK fd \in Fds :
                 /\ Lowest(fd)
                 /\ table' = [table EXCEPT ![fd] = [state |-> "unbound", of |-> c]]
                 /\ conn' = [conn EXCEPT ![c] = Holding(fd)]
        BY <2>2
      <3>1. CASE d = c
        BY <3>1 DEF TypeOK, IsSocket, SocketStates, Holding
      <3>2. CASE d # c
        <4>1. conn'[d].fd = conn[d].fd
          BY <3>2 DEF TypeOK
        <4>2. \A e \in Fds : IsSocket(e) => table'[e] = table[e]
          BY DEF TypeOK, Lowest, Free, IsSocket, SocketStates
        <4> QED
          BY <1>1, <4>1, <4>2, Kept DEF Construct, IsSocket
      <3> QED
        BY <3>1, <3>2
    <2> QED
      BY <1>1, <2>1, <2>2 DEF Construct
  <1>2. ASSUME NEW c \in Connections, Destroy(c) PROVE Goal
    <2>1. conn'[d].fd = conn[d].fd
      BY <1>2 DEF Destroy, TypeOK
    <2> QED
      BY <1>2, <2>1, Kept DEF Destroy, IsSocket
  <1>3. ASSUME NEW c \in Connections, getDescriptor(c) PROVE Goal
    BY <1>3, Kept DEF getDescriptor, SocketStates, IsSocket
  <1>4. ASSUME NEW c \in Connections, Bind(c) PROVE Goal
    <2>1. Moves(c, "bound")
      BY <1>4 DEF Bind, SocketIn, SocketStates, Moves
    <2> QED
      BY <1>4, <2>1, MovesKeep, Kept DEF Bind
  <1>5. ASSUME NEW c \in Connections, Listen(c) PROVE Goal
    <2>1. Moves(c, "listening")
      BY <1>5 DEF Listen, SocketIn, SocketStates, Moves
    <2> QED
      BY <1>5, <2>1, MovesKeep, Kept DEF Listen
  <1>6. ASSUME NEW c \in Connections, Accept(c) PROVE Goal
    BY <1>6, Kept DEF Accept, TypeOK, Lowest, Free, IsSocket, SocketStates
  <1>7. ASSUME NEW c \in Connections, Connect(c) PROVE Goal
    <2>1. d # c /\ d \notin connected \cup usurped /\ conn'[d].fd = conn[d].fd
      BY <1>7 DEF Connect, TypeOK
    <2>2. PICK s : Moves(c, s)
      BY <1>7, ConnectMoves
    <2> QED
      BY <1>7, <2>1, <2>2, MovesKeep, Kept DEF Connect
  <1>8. ASSUME NEW c \in Connections, ConnectFails(c) PROVE Goal
    <2>1. d # c /\ d \notin connected \cup usurped /\ conn'[d].fd = conn[d].fd
      BY <1>8 DEF ConnectFails, TypeOK
    <2> QED
      BY <1>8, <2>1, Kept DEF ConnectFails, SocketStates, IsSocket
  <1>9. ASSUME NEW fd \in held, Shutdown(fd) PROVE Goal
    BY <1>9, Kept DEF Shutdown, TypeOK, SocketStates, IsSocket
  <1>10. ASSUME NEW sockfd \in held, Close(sockfd) PROVE Goal
    <2>1. /\ d \notin connected \cup usurped
          /\ conn'[d].fd = conn[d].fd
          /\ conn[d].fd # sockfd
      BY <1>10 DEF Close
    <2>2. /\ IsSocket(conn[d].fd)
          /\ table[conn[d].fd].of = d
          /\ table[conn[d].fd].state # "accepted"
      BY <2>1 DEF OwnEver
    <2> QED
      BY <1>10, <2>1, <2>2 DEF Close, TypeOK, IsSocket
  <1>11. ASSUME NetworkInterface PROVE Goal
    <2>1. d \notin connected \cup usurped /\ conn'[d].fd = conn[d].fd
      BY <1>11 DEF NetworkInterface
    <2>2. \A e \in Fds : IsSocket(e) => table'[e] = table[e]
      BY <1>11 DEF NetworkInterface, TypeOK, Lowest, Free, IsSocket, SocketStates
    <2> QED
      BY <2>1, <2>2, Kept DEF IsSocket
  <1>12. CASE UNCHANGED vars
    BY <1>12, Kept DEF vars, SocketStates, IsSocket
  <1> QED
    BY <1>1, <1>2, <1>3, <1>4, <1>5, <1>6, <1>7, <1>8, <1>9, <1>10, <1>11, <1>12
       DEF Next, CallFails

\* The count of open sockets.

LEMMA OpenFinite == ASSUME NEW S, S \subseteq Fds PROVE IsFiniteSet(S)
  <1>1. 0 \in Int /\ MaxFd \in Int
    BY DescriptorAssumption
  <1>2. IsFiniteSet(Fds)
    BY <1>1, FS_Interval DEF Fds
  <1> QED
    BY <1>2, FS_Subset

LEMMA Opened ==
    ASSUME TypeOK, NothingElseReleases, NEW fd \in Fds, NEW owner,
           NEW s \in SocketStates, Lowest(fd),
           table' = [table EXCEPT ![fd] = [state |-> s, of |-> owner]],
           made' = made + 1, released' = released
    PROVE  NothingElseReleases'
  <1>1. Open' = Open \cup {fd}
    BY DEF Open, IsSocket, TypeOK
  <1>2. fd \notin Open
    BY DEF Open, IsSocket, Lowest, Free, SocketStates
  <1>3. IsFiniteSet(Open)
    BY OpenFinite DEF Open
  <1>4. Cardinality(Open') = Cardinality(Open) + 1
    BY <1>1, <1>2, <1>3, FS_AddElement
  <1> QED
    BY <1>4 DEF NothingElseReleases, Open, TypeOK

LEMMA SameOpen ==
    ASSUME TypeOK, NothingElseReleases, Open' = Open,
           made' = made, released' = released
    PROVE  NothingElseReleases'
  BY DEF NothingElseReleases, Open

LEMMA CountStep == TypeOK /\ NothingElseReleases /\ [Next]_vars => NothingElseReleases'
  <1> SUFFICES ASSUME TypeOK, NothingElseReleases, [Next]_vars PROVE NothingElseReleases'
    OBVIOUS
  <1>1. ASSUME NEW c \in Connections, Construct(c) PROVE NothingElseReleases'
    <2>1. CASE UNCHANGED <<table, made>>
      BY <1>1, <2>1, SameOpen DEF Construct, Open, IsSocket
    <2>2. CASE \E fd \in Fds :
                 /\ Lowest(fd)
                 /\ table' = [table EXCEPT ![fd] = [state |-> "unbound", of |-> c]]
                 /\ made' = made + 1
      BY <1>1, <2>2, Opened DEF Construct, SocketStates
    <2> QED
      BY <1>1, <2>1, <2>2 DEF Construct
  <1>2. ASSUME NEW c \in Connections,
               Destroy(c) \/ getDescriptor(c) \/ CallFails(c) \/ ConnectFails(c)
        PROVE  NothingElseReleases'
    BY <1>2, SameOpen DEF Destroy, getDescriptor, CallFails, ConnectFails, vars, Open,
                          IsSocket
  <1>3. ASSUME NEW c \in Connections, Bind(c) \/ Listen(c) \/ Connect(c)
        PROVE  NothingElseReleases'
    <2>1. PICK s \in SocketStates : IsSocket(conn[c].fd) /\ Becomes(c, s)
      <3>1. CASE Bind(c) \/ Listen(c)
        BY <3>1 DEF Bind, Listen, SocketIn, SocketStates
      <3>2. CASE Connect(c)
        BY <3>2, ConnectMoves DEF Moves
      <3> QED
        BY <1>3, <3>1, <3>2
    <2>2. \A fd \in Fds : table'[fd] = IF fd = conn[c].fd
                                       THEN [state |-> s, of |-> table[fd].of]
                                       ELSE table[fd]
      BY <2>1, BecomesType
    <2>3. \A fd \in Fds : table'[fd].state \in SocketStates
                          <=> table[fd].state \in SocketStates
      <3> TAKE fd \in Fds
      <3>1. CASE fd = conn[c].fd
        <4>1. table'[fd] = [state |-> s, of |-> table[fd].of]
          BY <2>2, <3>1
        <4> QED
          BY <2>1, <3>1, <4>1 DEF IsSocket
      <3>2. CASE fd # conn[c].fd
        BY <2>2, <3>2
      <3> QED
        BY <3>1, <3>2
    <2>4. Open' = Open
      BY <2>3 DEF Open, IsSocket
    <2> QED
      BY <1>3, <2>4, SameOpen DEF Bind, Listen, Connect
  <1>4. ASSUME NEW c \in Connections, Accept(c) PROVE NothingElseReleases'
    BY <1>4, Opened DEF Accept, SocketStates
  <1>5. ASSUME NEW sockfd \in held, Shutdown(sockfd) PROVE NothingElseReleases'
    <2>1. \A fd \in Fds : table'[fd].state \in SocketStates
                          <=> table[fd].state \in SocketStates
      BY <1>5 DEF Shutdown, IsSocket, TypeOK, SocketStates
    <2>2. Open' = Open
      BY <2>1 DEF Open, IsSocket
    <2> QED
      BY <1>5, <2>2, SameOpen DEF Shutdown
  <1>6. ASSUME NEW sockfd \in held, Close(sockfd) PROVE NothingElseReleases'
    <2>1. Open' = Open \ {sockfd}
      BY <1>6 DEF Close, Open, IsSocket, TypeOK, Free, SocketStates
    <2>2. IsFiniteSet(Open)
      BY OpenFinite DEF Open
    <2>3. CASE IsSocket(sockfd)
      <3>1. sockfd \in Open
        BY <2>3 DEF Open, IsSocket
      <3>2. Cardinality(Open') = Cardinality(Open) - 1
        BY <2>1, <2>2, <3>1, FS_RemoveElement
      <3> QED
        BY <1>6, <2>3, <3>2 DEF Close, NothingElseReleases, Open, TypeOK
    <2>4. CASE ~IsSocket(sockfd)
      <3>1. Open' = Open
        BY <2>1, <2>4 DEF Open
      <3> QED
        BY <1>6, <2>4, <3>1, SameOpen DEF Close, TypeOK
    <2> QED
      BY <2>3, <2>4
  <1>7. ASSUME NetworkInterface PROVE NothingElseReleases'
    <2>1. CASE UNCHANGED <<table, made>>
      BY <1>7, <2>1, SameOpen DEF NetworkInterface, Open, IsSocket
    <2>2. CASE \E fd \in Fds :
                 /\ Lowest(fd)
                 /\ table' = [table EXCEPT ![fd] = [state |-> "datagram", of |-> Nobody]]
                 /\ made' = made + 1
      BY <1>7, <2>2, Opened DEF NetworkInterface, SocketStates
    <2> QED
      BY <1>7, <2>1, <2>2 DEF NetworkInterface
  <1>8. CASE UNCHANGED vars
    BY <1>8, SameOpen DEF vars, Open, IsSocket
  <1> QED
    BY <1>1, <1>2, <1>3, <1>4, <1>5, <1>6, <1>7, <1>8 DEF Next

LEMMA InitCount == Init => NothingElseReleases
  <1> SUFFICES ASSUME Init PROVE NothingElseReleases
    OBVIOUS
  <1>1. Open = {}
    BY DEF Init, Open, IsSocket, Free, StandardInput, SocketStates
  <1> QED
    BY <1>1, FS_EmptySet DEF NothingElseReleases, Open, Init

\* The inductive invariant holds in every reachable state.
THEOREM Inductive == Spec => []IInv
  BY InitInv, TypeStep, OwnStep, PTL DEF Spec, IInv

\* Every variable keeps its type: a descriptor number is a place of the table or -1,
\* and a free place belongs to no Connection.
THEOREM DescriptorsTyped == Spec => []TypeOK
  <1>1. IInv => TypeOK
    BY DEF IInv
  <1> QED
    BY Inductive, <1>1, PTL

\* A living Connection refers to the socket its constructor made until its own Connect
\* or a Close of its number, whatever the other objects do, for any number of them: no
\* operation of one, its end included, takes the socket of another away.
THEOREM KeepsOwnSocket == Spec => []OwnSocket
  <1>1. IInv => OwnSocket
    BY DEF IInv, OwnEver, OwnSocket
  <1> QED
    BY Inductive, <1>1, PTL

\* Every socket ever opened and not closed by Close is still open: destroying or
\* connecting a Connection releases nothing, in any number of lifetimes.
THEOREM OnlyCloseReleases == Spec => []NothingElseReleases
  BY InitCount, CountStep, DescriptorsTyped, PTL DEF Spec

=============================================================================
