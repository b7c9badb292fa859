---------------------------- MODULE Descriptors ----------------------------
(***************************************************************************)
(* The life of Connection objects and of the socket descriptors they hold  *)
(* (src/src/Connection.cpp): construction, Bind, Listen, Accept, Connect,  *)
(* Shutdown, Close, destruction, in one process, with stream sockets, and  *)
(* of the socket each NetworkInterface object opens beside them            *)
(* (src/src/NetworkInterface.cpp).                                         *)
(*                                                                         *)
(* The kernel's descriptor table is external: socket() and accept() hand   *)
(* out the lowest free number, and every call may fail.  Descriptor 0 is   *)
(* open on something else in an ordinary process and free in one that      *)
(* closed its standard input; 1 and 2 play no part and are left out.       *)
(***************************************************************************)
EXTENDS Integers, Sequences, FiniteSets

CONSTANTS
    Connections, \* the Connection objects of the process, each constructed once
    Nobody,      \* the owner of what no Connection opened
    MaxFd,       \* the highest descriptor number
    MaxAccepts,  \* bound on the clients accepted by one Connection
    MaxInterfaces \* bound on the NetworkInterface objects constructed

ASSUME DescriptorAssumption ==
    /\ Nobody \notin Connections
    /\ MaxFd \in Nat
    /\ MaxAccepts \in Nat
    /\ MaxInterfaces \in Nat

Fds == 0..MaxFd
SocketStates == {"unbound", "bound", "listening", "connected", "accepted", "shut",
                 "datagram"}

VARIABLES
    table,    \* the descriptor table: what is open, and who opened it
    conn,     \* the Connection objects
    connected,\* history: those whose last Connect did not throw
    usurped,  \* history: those whose descriptor was closed under them
    accepts,  \* history: clients each Connection accepted
    held,     \* the numbers the application was given by getDescriptor
    interfaces,\* history: how many NetworkInterface objects were constructed
    made,     \* history: sockets opened by socket() and accept() and kept open
    released  \* history: sockets closed

vars == <<table, conn, connected, usurped, accepts, held, interfaces, made, released>>

Free == [state |-> "free", of |-> Nobody]
StandardInput == [state |-> "file", of |-> Nobody]
Unborn == [life |-> "unborn", fd |-> -1, clients |-> <<>>]
Holding(fd) == [life |-> "alive", fd |-> fd, clients |-> <<>>]

Alive(c) == conn[c].life = "alive"
IsSocket(fd) == fd \in Fds /\ table[fd].state \in SocketStates
SocketIn(c, states) == IsSocket(conn[c].fd) /\ table[conn[c].fd].state \in states
Lowest(fd) == table[fd] = Free /\ \A e \in Fds : e < fd => table[e] # Free

Init ==
    /\ \E zero \in {Free, StandardInput} :
         table = [fd \in Fds |-> IF fd = 0 THEN zero ELSE Free]
    /\ conn = [c \in Connections |-> Unborn]
    /\ connected = {}
    /\ usurped = {}
    /\ accepts = [c \in Connections |-> 0]
    /\ held = {}
    /\ interfaces = 0
    /\ made = 0
    /\ released = 0

\* socket(), with its result stored unchecked: -1 when there is none.
Construct(c) ==
    /\ conn[c] = Unborn
    /\ \/ \E fd \in Fds :
            /\ Lowest(fd)
            /\ table' = [table EXCEPT ![fd] = [state |-> "unbound", of |-> c]]
            /\ conn' = [conn EXCEPT ![c] = Holding(fd)]
            /\ made' = made + 1
       \/ /\ conn' = [conn EXCEPT ![c] = Holding(-1)]
          /\ UNCHANGED <<table, made>>
    /\ UNCHANGED <<connected, usurped, accepts, held, interfaces, released>>

\* A plausible slip (used by no action): a destructor that closes the number the
\* object holds, be it its own socket's still or somebody else's by now.
DestroyCloses(c) ==
    /\ Alive(c)
    /\ conn' = [conn EXCEPT ![c].life = "destroyed"]
    /\ table' = [fd \in Fds |-> IF fd = conn[c].fd THEN Free ELSE table[fd]]
    /\ UNCHANGED <<connected, usurped, accepts, held, interfaces, made, released>>

\* The destructor is empty: the descriptor stays open.
Destroy(c) ==
    /\ Alive(c)
    /\ conn' = [conn EXCEPT ![c].life = "destroyed"]
    /\ UNCHANGED <<table, connected, usurped, accepts, held, interfaces, made, released>>

getDescriptor(c) ==
    /\ Alive(c)
    /\ held' = held \cup {conn[c].fd}
    /\ UNCHANGED <<table, conn, connected, usurped, accepts, interfaces, made, released>>

\* The socket behind c's descriptor moves to another state.
Becomes(c, state) == table' = [table EXCEPT ![conn[c].fd].state = state]

\* A Bind, Listen or Accept that fails changes nothing: the first two throw, and the
\* third returns errno, which its bool result turns into true.
CallFails(c) ==
    /\ Alive(c)
    /\ UNCHANGED vars

Bind(c) ==
    /\ Alive(c) /\ SocketIn(c, {"unbound"})
    /\ Becomes(c, "bound")
    /\ UNCHANGED <<conn, connected, usurped, accepts, held, interfaces, made, released>>

Listen(c) ==
    /\ Alive(c) /\ SocketIn(c, {"unbound", "bound", "listening"})
    /\ Becomes(c, "listening")
    /\ UNCHANGED <<conn, connected, usurped, accepts, held, interfaces, made, released>>

\* The client's descriptor and address go into a local variable and nowhere else.
Accept(c) ==
    /\ Alive(c) /\ SocketIn(c, {"listening"})
    /\ accepts[c] < MaxAccepts
    /\ \E fd \in Fds :
         /\ Lowest(fd)
         /\ table' = [table EXCEPT ![fd] = [state |-> "accepted", of |-> c]]
    /\ accepts' = [accepts EXCEPT ![c] = @ + 1]
    /\ made' = made + 1
    /\ UNCHANGED <<conn, connected, usurped, held, interfaces, released>>

\* connect() answers 0, and 0 is what conn.fd becomes.  A datagram socket, which c
\* may have come to refer to, connects and connects again.
Connect(c) ==
    /\ Alive(c) /\ SocketIn(c, {"unbound", "bound", "datagram"})
    /\ Becomes(c, IF SocketIn(c, {"datagram"}) THEN "datagram" ELSE "connected")
    /\ conn' = [conn EXCEPT ![c].fd = 0]
    /\ connected' = connected \cup {c}
    /\ UNCHANGED <<usurped, accepts, held, interfaces, made, released>>

\* A plausible slip (used by no action): ECONNREFUSED kept where -1 belongs.
ConnectKeepsErrno(c) ==
    /\ Alive(c)
    /\ conn' = [conn EXCEPT ![c].fd = -111]
    /\ connected' = connected \ {c}
    /\ UNCHANGED <<table, usurped, accepts, held, interfaces, made, released>>

\* A failed connect() leaves -1 there, and Connect throws.
ConnectFails(c) ==
    /\ Alive(c)
    /\ conn' = [conn EXCEPT ![c].fd = -1]
    /\ connected' = connected \ {c}
    /\ UNCHANGED <<table, usurped, accepts, held, interfaces, made, released>>

\* Shutdown and Close take a descriptor from the application, not the object's.
Shutdown(sockfd) ==
    /\ IsSocket(sockfd) /\ table[sockfd].state \in {"listening", "connected", "accepted"}
    /\ table' = [table EXCEPT ![sockfd].state = "shut"]
    /\ UNCHANGED <<conn, connected, usurped, accepts, held, interfaces, made, released>>

\* No Connection is told: each that held the number keeps it, and the next socket
\* or accept may be given it again.
Close(sockfd) ==
    /\ sockfd \in Fds /\ table[sockfd] # Free
    /\ table' = [table EXCEPT ![sockfd] = Free]
    /\ usurped' = usurped \cup {c \in Connections : conn[c].fd = sockfd}
    /\ released' = released + (IF IsSocket(sockfd) THEN 1 ELSE 0)
    /\ UNCHANGED <<conn, connected, accepts, held, interfaces, made>>

\* The constructor of NetworkInterface opens a stream socket and closes it again
\* (testIsWireless), then opens a datagram socket and keeps its number in a local
\* variable.  With no number left it does without; its destructor closes nothing.
NetworkInterface ==
    /\ interfaces < MaxInterfaces
    /\ interfaces' = interfaces + 1
    /\ \/ \E fd \in Fds :
            /\ Lowest(fd)
            /\ table' = [table EXCEPT ![fd] = [state |-> "datagram", of |-> Nobody]]
            /\ made' = made + 1
       \/ UNCHANGED <<table, made>>
    /\ UNCHANGED <<conn, connected, usurped, accepts, held, released>>

Next ==
    \/ NetworkInterface
    \/ \E c \in Connections :
         \/ Construct(c) \/ Destroy(c) \/ getDescriptor(c) \/ CallFails(c)
         \/ Bind(c) \/ Listen(c) \/ Accept(c) \/ Connect(c) \/ ConnectFails(c)
    \/ \E fd \in held : Shutdown(fd) \/ Close(fd)

Spec == Init /\ [][Next]_vars

----------------------------------------------------------------------------
(* Properties.                                                             *)

\* Every variable holds a value of its type.
TypeOK ==
    /\ table \in [Fds -> [state : SocketStates \cup {"free", "file"},
                          of : Connections \cup {Nobody}]]
    /\ \A fd \in Fds : table[fd].state = "free" => table[fd] = Free
    /\ conn \in [Connections -> [life : {"unborn", "alive", "destroyed"},
                                 fd : Fds \cup {-1},
                                 clients : Seq(Fds)]]
    /\ {connected, usurped} \subseteq SUBSET Connections
    /\ accepts \in [Connections -> 0..MaxAccepts]
    /\ held \subseteq Fds \cup {-1}
    /\ interfaces \in 0..MaxInterfaces
    /\ {made, released} \subseteq Nat

\* A living Connection that has not connected, and whose descriptor was not closed
\* under it, refers to the socket its constructor made, whatever becomes of the
\* others: those that still hold a number which Close freed and the next socket()
\* or accept() handed out again cannot take it away by calls of theirs or their end.
OwnSocket ==
    \A c \in Connections \ (connected \cup usurped) :
        Alive(c) /\ conn[c].fd # -1 =>
            /\ IsSocket(conn[c].fd)
            /\ table[conn[c].fd].of = c
            /\ table[conn[c].fd].state # "accepted"

\* Sockets are released by Close and by nothing else: all that were opened and not
\* closed are still open, those of destroyed and connected objects among them.
NothingElseReleases ==
    Cardinality({fd \in Fds : IsSocket(fd)}) = made - released

\* Connection.h: every client accepted is in the vector of clients.
ClientsRecorded == \A c \in Connections : Len(conn[c].clients) = accepts[c]

\* Connection.h: after a Connect that did not throw the Connection is connected, so
\* its descriptor is that of a connected socket, unless it was shut or closed since.
ConnectedToPeer ==
    \A c \in connected \ usurped :
        SocketIn(c, {"connected", "shut"}) /\ table[conn[c].fd].of = c

=============================================================================
