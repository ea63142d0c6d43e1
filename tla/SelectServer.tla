---------------------------- MODULE SelectServer ----------------------------
(***************************************************************************)
(* The reactor server (selectserver.cpp, Reactor.cpp) and its clients: one *)
(* thread that selects over the installed file descriptors, walks a        *)
(* snapshot of the ready ones and calls the handler of each.  Each recv,   *)
(* accept and send of a handler is a step of its own, and the clients move *)
(* in between.  RemoveHandler, which nothing calls, is not modelled.       *)
(***************************************************************************)
EXTENDS SelectClient

CONSTANTS
    NoClient,     \* what a free file descriptor is connected to
    Listener,     \* the file descriptor main listens on
    MaxFd,        \* the largest one the process may have
    BufferSize,   \* 256: main's buf
    Window        \* how many unread bytes a connection holds for a client

ASSUME SelectServerAssumption ==
    /\ NoClient \notin Clients
    /\ Listener \in Nat /\ MaxFd \in Nat /\ Listener < MaxFd
    /\ MaxFd < 64   \* MAX_FDS: handlers has no room for more
    /\ BufferSize \in Nat \ {0}
    /\ Window \in Nat

Fds == Listener .. MaxFd   \* the lower ones are open before main runs
ClientFds == Fds \ {Listener}

Least(S) == CHOOSE x \in S : \A y \in S : x <= y

VARIABLES
    conn,         \* conn[fd]: the client fd is connected to
    handlers,     \* Reactor::handlers
    fds,          \* Reactor::fds
    highest_fd,   \* Reactor::highest_fd
    at,           \* the point main or a handler is at
    ready,        \* the part of read_fds main's loop has yet to visit
    buf,          \* the bytes of main's buf that a handler sends
    targets,      \* the part of fds the send loop has yet to visit
    log           \* history: what was received from clients, in order

reactorVars == <<handlers, fds, highest_fd>>
serverVars == <<conn, reactorVars, at, ready, buf, targets, log>>
vars == <<serverVars, alive, networkVars, clientVars>>

(* newReactor: highest_fd is not initialised.                              *)
Init ==
    /\ conn = [fd \in ClientFds |-> NoClient]
    /\ handlers = [fd \in Fds |-> "none"]
    /\ fds = {}
    /\ highest_fd \in {0, MaxFd + 1}
    /\ at = "setup"
    /\ ready = {}
    /\ buf = <<>>
    /\ targets = {}
    /\ log = <<>>
    /\ ClientInit

(* FD_SET, InstallHandler, and highest_fd raised to fd.                    *)
InstallHandler(fd, handler) ==
    /\ fds' = fds \cup {fd}
    /\ handlers' = [handlers EXCEPT ![fd] = handler]

Setup ==
    /\ at = "setup"
    /\ InstallHandler(Listener, "accept_connection")
    /\ highest_fd' = Listener
    /\ at' = "select"
    /\ UNCHANGED <<conn, ready, buf, targets, log, alive, networkVars, clientVars>>

-----------------------------------------------------------------------------
(* main's loop                                                             *)

(* Accepted or not, c's connection is a file descriptor's or pending.      *)
Pending == {c \in Clients : /\ link[c] \in {"up", "fin", "rst"}
                            /\ \A fd \in ClientFds : conn[fd] # c}

Readable(fd) ==
    IF fd = Listener THEN Pending # {}
    ELSE /\ conn[fd] # NoClient
         /\ up[conn[fd]] # <<>> \/ link[conn[fd]] \in {"fin", "rst"}

ReadFdsUnchecked == fds   \* mutant: main walks the master set

(* What select leaves in read_fds.                                         *)
ReadFds == {fd \in fds : fd <= highest_fd /\ Readable(fd)}

Select ==
    /\ alive
    /\ at = "select"
    /\ \E fd \in fds : fd <= highest_fd /\ Readable(fd)
    /\ ready' = ReadFds
    /\ at' = "loop"
    /\ UNCHANGED <<conn, reactorVars, buf, targets, log, alive, networkVars, clientVars>>

LoopEnds ==
    /\ alive
    /\ at = "loop"
    /\ ready = {}
    /\ at' = "select"
    /\ UNCHANGED <<conn, reactorVars, ready, buf, targets, log, alive, networkVars, clientVars>>

(* The handler of the next ready descriptor is called and returns.         *)
Visits(fd) ==
    /\ at = "loop"
    /\ ready # {}
    /\ fd = Least(ready)
    /\ ready' = ready \ {fd}

-----------------------------------------------------------------------------
(* accept_connection                                                       *)

FreeFds == {fd \in ClientFds : conn[fd] = NoClient}

Highest(fd) == IF fd > highest_fd THEN fd ELSE highest_fd

(* The kernel hands out the lowest free descriptor.                        *)
AcceptConnection(c) ==
    LET fd == Least(FreeFds) IN
    /\ alive
    /\ Visits(Listener)
    /\ handlers[Listener] = "accept_connection"
    /\ c \in Pending
    /\ FreeFds # {}
    /\ conn' = [conn EXCEPT ![fd] = c]
    /\ InstallHandler(fd, "handle_client_data")
    /\ highest_fd' = Highest(fd)
    /\ UNCHANGED <<at, buf, targets, log, alive, networkVars, clientVars>>

(* No descriptor is left: accept returns -1.                               *)
AcceptFails ==
    /\ alive
    /\ Visits(Listener)
    /\ handlers[Listener] = "accept_connection"
    /\ FreeFds = {}
    /\ UNCHANGED <<conn, reactorVars, at, buf, targets, log, alive, networkVars, clientVars>>

-----------------------------------------------------------------------------
(* handle_client_data                                                      *)

FdsKept(fd) == fds   \* mutant: FD_CLR is forgotten

FdsCleared(fd) == fds \ {fd}

TargetsButSelf(fd) ==   \* mutant: "except the listener and ourselves"
    {j \in fds : j <= highest_fd /\ j \notin {Listener, fd}}

TargetsAll(fd) == {j \in fds : j <= highest_fd}   \* mutant: the listener too

Targets(fd) == {j \in fds : j <= highest_fd /\ j # Listener}

(* recv returns bytes: they go to everyone in fds but the listener.        *)
HandleData(fd) ==
    LET c == conn[fd] IN
    /\ alive
    /\ Visits(fd)
    /\ handlers[fd] = "handle_client_data"
    /\ up[c] # <<>>
    /\ \E n \in Received(up[c], BufferSize) :
          /\ buf' = First(up[c], n)
          /\ log' = Append(log, [from |-> c, bytes |-> First(up[c], n)])
          /\ up' = [up EXCEPT ![c] = AllBut(@, n)]
    /\ targets' = Targets(fd)
    /\ at' = "send"
    /\ UNCHANGED <<conn, reactorVars, alive, link, down, clientVars>>

(* recv returns 0 or -1: close and FD_CLR.  The handler stays installed    *)
(* and highest_fd stays what it is.                                        *)
HandleHangUp(fd) ==
    LET c == conn[fd] IN
    /\ alive
    /\ Visits(fd)
    /\ handlers[fd] = "handle_client_data"
    /\ \/ link[c] = "fin" /\ up[c] = <<>>
       \/ link[c] = "rst"
    /\ link' = [link EXCEPT ![c] = "closed"]
    /\ conn' = [conn EXCEPT ![fd] = NoClient]
    /\ fds' = FdsCleared(fd)
    /\ UNCHANGED <<handlers, highest_fd, at, buf, targets, log, alive, up, down, clientVars>>

(* One send of the loop over 0 .. highest_fd.  send blocks while the       *)
(* connection has no room: the client is not reading.                      *)
SendToNext ==
    LET fd == Least(targets) IN
    /\ alive
    /\ at = "send"
    /\ targets # {}
    /\ link[conn[fd]] = "up" => Len(down[conn[fd]]) + Len(buf) <= Window
    /\ ServerSends(conn[fd], buf)
    /\ targets' = targets \ {fd}
    /\ UNCHANGED <<conn, reactorVars, at, ready, buf, log, up, clientVars>>

HandlerReturns ==
    /\ alive
    /\ at = "send"
    /\ targets = {}
    /\ at' = "loop"
    /\ buf' = <<>>   \* what is left in buf is not sent again
    /\ UNCHANGED <<conn, reactorVars, ready, targets, log, alive, networkVars, clientVars>>

-----------------------------------------------------------------------------
ServerStep ==
    \/ Setup \/ Select \/ LoopEnds \/ AcceptFails \/ SendToNext \/ HandlerReturns
    \/ \E c \in Clients : AcceptConnection(c)
    \/ \E fd \in ClientFds : HandleData(fd) \/ HandleHangUp(fd)

Next ==
    \/ ServerStep
    \/ \E c \in Clients : ClientStep(c) /\ UNCHANGED serverVars

Spec == Init /\ [][Next]_vars

(***************************************************************************)
(* Fairness: the server's one thread keeps running, and so does a client   *)
(* in recv.  Users need not type, connect or leave.                        *)
(***************************************************************************)
Fairness ==
    /\ WF_vars(ServerStep)
    /\ \A c \in Clients :
          WF_vars((RecvReply(c) \/ RecvNothing(c)) /\ UNCHANGED serverVars)

FairSpec == Spec /\ Fairness

-----------------------------------------------------------------------------
(* Invariants and properties                                               *)

(***************************************************************************)
(* The variables hold values of the expected shape.                        *)
(***************************************************************************)
TypeOK ==
    /\ conn \in [ClientFds -> Clients \cup {NoClient}]
    /\ handlers \in [Fds -> {"none", "accept_connection", "handle_client_data"}]
    /\ fds \subseteq Fds
    /\ highest_fd \in Nat
    /\ at \in {"setup", "select", "loop", "send"}
    /\ ready \subseteq fds
    /\ buf \in Seq(Byte)
    /\ targets \subseteq ClientFds
    /\ log \in Seq([from : Clients, bytes : Seq(Byte)])
    /\ ClientTypeOK

(***************************************************************************)
(* fds, handlers, highest_fd and the kernel's descriptors agree, through   *)
(* every close and reuse of a descriptor: what is watched is open, has the *)
(* handler of its kind, and is within the loops' bound.                    *)
(***************************************************************************)
ReactorConsistent ==
    /\ \A fd \in fds : fd <= highest_fd
    /\ at # "setup" => handlers[Listener] = "accept_connection"
    /\ \A fd \in ClientFds :
          /\ fd \in fds <=> conn[fd] # NoClient
          /\ fd \in fds => handlers[fd] = "handle_client_data"
          /\ fd \in targets => fd \in fds

(***************************************************************************)
(* The snapshot is never stale: when main comes to a descriptor, though    *)
(* others were accepted and closed since select, its accept or recv does   *)
(* not block.                                                              *)
(***************************************************************************)
HandlersDoNotBlock == \A fd \in ready : Readable(fd)

(***************************************************************************)
(* Why they hold: a connection has one descriptor, sets that a loop walks  *)
(* are empty outside the loop, and an open descriptor's peer is there or   *)
(* has left.                                                               *)
(***************************************************************************)
OneFdEach ==
    \A fd, other \in ClientFds :
        conn[fd] # NoClient /\ conn[fd] = conn[other] => fd = other

ReactorInv ==
    /\ TypeOK
    /\ ReactorConsistent
    /\ HandlersDoNotBlock
    /\ OneFdEach
    /\ at = "setup" => fds = {}
    /\ at # "send" => targets = {}
    /\ at \in {"setup", "select"} => ready = {}
    /\ \A fd \in ClientFds : conn[fd] # NoClient => link[conn[fd]] \in {"up", "fin", "rst"}
    /\ OffUnconnected

(***************************************************************************)
(* Why what everyone hears is one log: the send loop sends the log's last  *)
(* entry; and a connection ends when its client has left, or the server.   *)
(***************************************************************************)
RoomInv ==
    /\ at = "send" => log # <<>> /\ buf = log[Len(log)].bytes
    /\ \A c \in Clients :
          /\ link[c] \in {"fin", "rst"} => client[c] = "gone"
          /\ alive /\ client[c] = "gone" => link[c] # "up"

IInv == ReactorInv /\ RoomInv

-----------------------------------------------------------------------------
(* The server implements ChatRoom.                                         *)

Accepted(c) == \E fd \in ClientFds : conn[fd] = c

(* Whoever is accepted and has not hung up, while the server lives.        *)
Members == {c \in Clients : alive /\ Accepted(c) /\ link[c] = "up"}

(* What is yet to be sent to c is the last entry of the log, if any.       *)
Awaits(c) == at = "send" /\ \E fd \in targets : conn[fd] = c

Cursor(c) ==
    IF c \notin Members THEN 0 ELSE IF Awaits(c) THEN Len(log) - 1 ELSE Len(log)

Room == INSTANCE ChatRoom
            WITH members <- Members,
                 left <- {c \in Clients : client[c] = "gone"},
                 cursor <- [c \in Clients |-> Cursor(c)],
                 stream <- [c \in Clients |-> Stream(c)]

(***************************************************************************)
(* Every client receives the same bytes in the same order from the moment  *)
(* it was accepted, its own included, for as long as it stays; through     *)
(* hang-ups and the reuse of descriptors, nothing meant for an earlier     *)
(* user of a descriptor does.                                              *)
(***************************************************************************)
ImplementsRoom == Room!Spec

(***************************************************************************)
(* And while it stays and the server lives, everything said reaches it.    *)
(***************************************************************************)
ImplementsFairRoom == Room!FairSpec

(***************************************************************************)
(* A client that was accepted does not wait in recv for ever, whoever      *)
(* leaves: it hears its own text, or that the server is dead.              *)
(***************************************************************************)
AcceptedRecvReturns ==
    \A c \in Clients :
        (Accepted(c) /\ client[c] = "recv") ~> client[c] # "recv"

-----------------------------------------------------------------------------
(* What the repository says and the code does not do.                      *)

(***************************************************************************)
(* The loop is to "send to everyone": what was received from one client is *)
(* eventually sent to every other, also while one of them is not reading.  *)
(***************************************************************************)
SentToEveryone == \A c \in Clients : Awaits(c) ~> ~Awaits(c)
=============================================================================
