-------------------------- MODULE SelectServerProofs --------------------------
EXTENDS SelectServer, SelectClientProofs

(* The descriptor a loop comes to is one of those it has yet to visit.     *)
LEMMA NextFd ==
  ASSUME NEW S, S \subseteq Fds, S # {}
  PROVE  Least(S) \in S /\ Least(S) \in Fds
<1>1. Fds \subseteq Nat
  BY SelectServerAssumption DEF Fds
<1>2. Least(S) \in S
  <2>1. \E x \in S : \A y \in S : x <= y
    BY <1>1, LeastNatural
  <2> QED
    BY <2>1 DEF Least
<1> QED
  BY <1>2

(* The first conjunct of induction.                                        *)
LEMMA InitReactor == Init => ReactorInv
<1> SUFFICES ASSUME Init PROVE ReactorInv
  OBVIOUS
<1> USE SelectServerAssumption DEF Init
<1>1. ClientTypeOK /\ OffUnconnected
  BY EmptySeq DEF ClientInit, ClientTypeOK, OffUnconnected
<1>2. TypeOK
  BY <1>1, EmptySeq DEF TypeOK
<1> QED
  BY <1>1, <1>2 DEF ReactorInv, ReactorConsistent, HandlersDoNotBlock, OneFdEach

(* main's steps: select's answer is what is readable now.                  *)
LEMMA MainPreserves ==
  ASSUME ReactorInv, Setup \/ Select \/ LoopEnds
  PROVE  ReactorInv'
<1> USE SelectServerAssumption DEF ReactorInv
<1>1. CASE Setup
  <2> USE <1>1 DEF Setup, InstallHandler, networkVars, clientVars
  <2>1. Listener \in Fds /\ Listener \notin ClientFds
    BY DEF Fds, ClientFds
  <2>2. fds' = {Listener} /\ fds = {}
    OBVIOUS
  <2>3. TypeOK'
    BY <2>1 DEF TypeOK, ClientTypeOK
  <2>4. ReactorConsistent'
    BY <2>1, <2>2 DEF ReactorConsistent, TypeOK, ClientFds
  <2> QED
    BY <2>3, <2>4 DEF HandlersDoNotBlock, OneFdEach, OffUnconnected, TypeOK
<1>2. CASE Select
  <2> USE <1>2 DEF Select, ReadFds, reactorVars, networkVars, clientVars
  <2>1. TypeOK'
    BY DEF TypeOK, ClientTypeOK
  <2>2. ReactorConsistent' /\ OneFdEach' /\ OffUnconnected'
    BY DEF ReactorConsistent, OneFdEach, OffUnconnected
  <2>3. HandlersDoNotBlock'
    BY DEF HandlersDoNotBlock, Readable, Pending
  <2> QED
    BY <2>1, <2>2, <2>3
<1>3. CASE LoopEnds
  <2> USE <1>3 DEF LoopEnds, reactorVars, networkVars, clientVars
  <2>1. TypeOK'
    BY DEF TypeOK, ClientTypeOK
  <2>2. ReactorConsistent' /\ OneFdEach' /\ OffUnconnected' /\ HandlersDoNotBlock'
    BY DEF ReactorConsistent, OneFdEach, OffUnconnected, HandlersDoNotBlock
  <2> QED
    BY <2>1, <2>2
<1> QED
  BY <1>1, <1>2, <1>3

(* accept_connection.                                                      *)
LEMMA AcceptPreserves ==
  ASSUME ReactorInv, AcceptFails \/ \E c \in Clients : AcceptConnection(c)
  PROVE  ReactorInv'
<1> USE SelectServerAssumption DEF ReactorInv
<1>1. CASE AcceptFails
  <2> USE <1>1 DEF AcceptFails, Visits, reactorVars, networkVars, clientVars
  <2>1. TypeOK'
    BY DEF TypeOK, ClientTypeOK
  <2>2. ReactorConsistent' /\ OneFdEach' /\ OffUnconnected' /\ HandlersDoNotBlock'
    BY DEF ReactorConsistent, OneFdEach, OffUnconnected, HandlersDoNotBlock, Readable, Pending
  <2> QED
    BY <2>1, <2>2
<1>2. ASSUME NEW c \in Clients, AcceptConnection(c)
      PROVE  ReactorInv'
  <2> DEFINE new == Least(FreeFds)
  <2>1. new \in ClientFds /\ conn[new] = NoClient /\ new \in Nat /\ new \in Fds
    <3>1. FreeFds \subseteq Fds /\ FreeFds # {}
      BY <1>2 DEF AcceptConnection, FreeFds, ClientFds
    <3>2. new \in FreeFds
      BY <3>1, NextFd
    <3> QED
      BY <3>2 DEF FreeFds, ClientFds, Fds
  <2> HIDE DEF new
  <2>2. /\ conn' = [conn EXCEPT ![new] = c]
        /\ fds' = fds \cup {new}
        /\ handlers' = [handlers EXCEPT ![new] = "handle_client_data"]
        /\ highest_fd' = Highest(new)
        /\ ready' = ready \ {Listener}
        /\ at = "loop"
        /\ c \in Pending
        /\ UNCHANGED <<at, buf, targets, log, alive, networkVars, clientVars>>
    BY <1>2 DEF AcceptConnection, InstallHandler, Visits, new
  <2>3. highest_fd' \in Nat /\ highest_fd <= highest_fd' /\ new <= highest_fd'
    BY <2>1, <2>2 DEF TypeOK, Highest
  <2>4. link[c] \in {"up", "fin", "rst"} /\ \A fd \in ClientFds : conn[fd] # c
    BY <2>2 DEF Pending
  <2> USE <2>1, <2>2 DEF networkVars, clientVars
  <2>5. TypeOK'
    BY <2>3 DEF TypeOK, ClientTypeOK
  <2>6. ReactorConsistent'
    <3>1. \A fd \in fds' : fd <= highest_fd'
      BY <2>3 DEF ReactorConsistent, TypeOK, Fds
    <3>2. handlers'[Listener] = "accept_connection"
      BY DEF ReactorConsistent, TypeOK, ClientFds, Fds
    <3>3. ASSUME NEW fd \in ClientFds
          PROVE  /\ fd \in fds' <=> conn'[fd] # NoClient
                 /\ fd \in fds' => handlers'[fd] = "handle_client_data"
                 /\ fd \in targets' => fd \in fds'
      BY <3>3 DEF ReactorConsistent, TypeOK, ClientFds, Fds
    <3> QED
      BY <3>1, <3>2, <3>3 DEF ReactorConsistent
  <2>7. HandlersDoNotBlock'
    <3>1. \A fd \in ready' : fd \in ClientFds /\ conn'[fd] = conn[fd]
      BY DEF TypeOK, ReactorConsistent, ClientFds
    <3> QED
      BY <3>1 DEF HandlersDoNotBlock, Readable, ClientFds
  <2>8. OneFdEach'
    BY <2>4 DEF OneFdEach, TypeOK
  <2>9. \A fd \in ClientFds : conn'[fd] # NoClient => link'[conn'[fd]] \in {"up", "fin", "rst"}
    BY <2>4 DEF TypeOK
  <2> QED
    BY <2>5, <2>6, <2>7, <2>8, <2>9 DEF OffUnconnected
<1> QED
  BY <1>1, <1>2

(* handle_client_data when there are bytes: they leave one connection's    *)
(* stream, and that connection's descriptor was just visited.              *)
LEMMA DataPreserves ==
  ASSUME ReactorInv, NEW fd \in ClientFds, HandleData(fd)
  PROVE  ReactorInv'
<1> USE SelectServerAssumption DEF ReactorInv
<1> DEFINE c == conn[fd]
<1>1. fd \in ready /\ ready' = ready \ {fd} /\ at = "loop"
  <2>1. ready \subseteq Fds /\ ready # {} /\ fd = Least(ready) /\ ready' = ready \ {fd} /\ at = "loop"
    BY DEF HandleData, Visits, TypeOK
  <2> QED
    BY <2>1, NextFd
<1>2. c # NoClient /\ c \in Clients
  BY <1>1 DEF TypeOK, ReactorConsistent
<1>3. PICK n \in Received(up[c], BufferSize) :
        /\ buf' = First(up[c], n)
        /\ log' = Append(log, [from |-> c, bytes |-> First(up[c], n)])
        /\ up' = [up EXCEPT ![c] = AllBut(@, n)]
  BY DEF HandleData
<1>4. /\ targets' = Targets(fd) /\ at' = "send"
      /\ UNCHANGED <<conn, handlers, fds, highest_fd, alive, link, down, client, sent, got>>
  BY DEF HandleData, reactorVars, clientVars
<1>5. up[c] \in Seq(Byte)
  BY <1>2 DEF TypeOK, ClientTypeOK
<1>6. First(up[c], n) \in Seq(Byte) /\ AllBut(up[c], n) \in Seq(Byte)
  BY <1>5, ReceivedRange, SplitTypes
<1> HIDE DEF c
<1>7. TypeOK'
  <2>1. [from |-> c, bytes |-> First(up[c], n)] \in [from : Clients, bytes : Seq(Byte)]
    BY <1>2, <1>6
  <2>2. log' \in Seq([from : Clients, bytes : Seq(Byte)])
    BY <1>3, <2>1, AppendProperties DEF TypeOK
  <2>3. up' \in [Clients -> Seq(Byte)]
    BY <1>3, <1>6 DEF TypeOK, ClientTypeOK
  <2>4. targets' \subseteq ClientFds
    BY <1>4 DEF TypeOK, Targets, ClientFds
  <2> QED
    BY <1>1, <1>3, <1>4, <1>6, <2>2, <2>3, <2>4 DEF TypeOK, ClientTypeOK
<1>8. ReactorConsistent'
  BY <1>1, <1>4 DEF ReactorConsistent, Targets
<1>9. HandlersDoNotBlock'
  <2>1. ASSUME NEW g \in ready', g # Listener
        PROVE  Readable(g)'
    <3>1. g \in ClientFds /\ conn[g] # NoClient /\ conn[g] \in Clients
      BY <1>1, <2>1 DEF TypeOK, ReactorConsistent, ClientFds
    <3>2. conn[g] # c
      BY <1>1, <2>1, <3>1 DEF OneFdEach, c
    <3>3. up'[conn[g]] = up[conn[g]]
      BY <1>3, <3>1, <3>2 DEF TypeOK, ClientTypeOK
    <3> QED
      BY <1>1, <1>4, <2>1, <3>1, <3>3 DEF HandlersDoNotBlock, Readable
  <2>2. Listener \in ready' => Readable(Listener)'
    BY <1>1, <1>4 DEF HandlersDoNotBlock, Readable, Pending
  <2> QED
    BY <2>1, <2>2 DEF HandlersDoNotBlock
<1> QED
  BY <1>4, <1>7, <1>8, <1>9 DEF OneFdEach, OffUnconnected

(* handle_client_data at the end of a stream.                              *)
LEMMA HangUpPreserves ==
  ASSUME ReactorInv, NEW fd \in ClientFds, HandleHangUp(fd)
  PROVE  ReactorInv'
<1> USE SelectServerAssumption DEF ReactorInv
<1> DEFINE c == conn[fd]
<1>1. fd \in ready /\ ready' = ready \ {fd} /\ at = "loop"
  <2>1. ready \subseteq Fds /\ ready # {} /\ fd = Least(ready) /\ ready' = ready \ {fd} /\ at = "loop"
    BY DEF HandleHangUp, Visits, TypeOK
  <2> QED
    BY <2>1, NextFd
<1>2. c # NoClient /\ c \in Clients
  BY <1>1 DEF TypeOK, ReactorConsistent
<1>3. /\ link[c] \in {"fin", "rst"}
      /\ link' = [link EXCEPT ![c] = "closed"]
      /\ conn' = [conn EXCEPT ![fd] = NoClient]
      /\ fds' = fds \ {fd}
      /\ UNCHANGED <<handlers, highest_fd, at, buf, targets, log, alive, up, down, client, sent, got>>
  BY DEF HandleHangUp, FdsCleared, clientVars
<1>4. \A g \in ClientFds : g # fd /\ conn[g] # NoClient => conn[g] # c
  BY DEF OneFdEach
<1> HIDE DEF c
<1>5. TypeOK'
  BY <1>1, <1>2, <1>3 DEF TypeOK, ClientTypeOK
<1>6. ReactorConsistent'
  BY <1>1, <1>3 DEF ReactorConsistent, TypeOK, ClientFds
<1>7. \A g \in ClientFds : conn'[g] # NoClient => conn'[g] = conn[g] /\ link'[conn[g]] = link[conn[g]]
  BY <1>2, <1>3, <1>4 DEF TypeOK, ClientTypeOK
<1>8. HandlersDoNotBlock'
  <2>1. ASSUME NEW g \in ready', g # Listener
        PROVE  Readable(g)'
    <3>1. g \in ClientFds /\ conn[g] # NoClient /\ g # fd
      BY <1>1, <2>1 DEF TypeOK, ReactorConsistent, ClientFds
    <3>2. conn'[g] = conn[g] /\ link'[conn[g]] = link[conn[g]]
      BY <1>3, <1>7, <3>1 DEF TypeOK
    <3> QED
      BY <1>1, <1>3, <2>1, <3>1, <3>2 DEF HandlersDoNotBlock, Readable
  <2>2. Listener \in ready' => Readable(Listener)'
    <3>1. ASSUME NEW p \in Pending
          PROVE  p \in Pending'
      <4>1. p # c
        BY DEF Pending, c
      <4> QED
        BY <1>2, <1>3, <4>1, SelectServerAssumption DEF Pending, TypeOK, ClientTypeOK
    <3> QED
      BY <1>1, <3>1 DEF HandlersDoNotBlock, Readable
  <2> QED
    BY <2>1, <2>2 DEF HandlersDoNotBlock
<1>9. OneFdEach'
  BY <1>3 DEF OneFdEach, TypeOK
<1>10. OffUnconnected'
  BY <1>2, <1>3 DEF OffUnconnected, TypeOK, ClientTypeOK
<1>11. \A g \in ClientFds : conn'[g] # NoClient => link'[conn'[g]] \in {"up", "fin", "rst"}
  BY <1>7
<1> QED
  BY <1>1, <1>3, <1>5, <1>6, <1>8, <1>9, <1>10, <1>11

(* The send loop.                                                          *)
LEMMA SendPreserves ==
  ASSUME ReactorInv, SendToNext \/ HandlerReturns
  PROVE  ReactorInv'
<1> USE SelectServerAssumption DEF ReactorInv
<1>1. CASE HandlerReturns
  <2> USE <1>1 DEF HandlerReturns, reactorVars, networkVars, clientVars
  <2>1. TypeOK'
    BY EmptySeq DEF TypeOK, ClientTypeOK
  <2>2. ReactorConsistent' /\ OneFdEach' /\ OffUnconnected'
    BY DEF ReactorConsistent, OneFdEach, OffUnconnected
  <2>3. HandlersDoNotBlock'
    BY DEF HandlersDoNotBlock, Readable, Pending
  <2> QED
    BY <2>1, <2>2, <2>3
<1>2. CASE SendToNext
  <2> DEFINE fd == Least(targets)
             c == conn[fd]
  <2>1. fd \in targets /\ fd \in ClientFds /\ c \in Clients
    <3>1. targets \subseteq Fds /\ targets # {} /\ targets \subseteq ClientFds
      BY <1>2 DEF SendToNext, TypeOK, ClientFds
    <3>2. fd \in targets
      BY <3>1, NextFd
    <3>3. conn[fd] # NoClient
      BY <3>1, <3>2 DEF ReactorConsistent
    <3> QED
      BY <3>1, <3>2, <3>3 DEF TypeOK
  <2>2. /\ at = "send" /\ targets' = targets \ {fd} /\ ServerSends(c, buf)
        /\ UNCHANGED <<conn, handlers, fds, highest_fd, at, ready, buf, log, up, clientVars>>
    BY <1>2 DEF SendToNext, reactorVars
  <2> HIDE DEF fd, c
  <2>3. ClientTypeOK'
    <3>1. ClientTypeOK /\ buf \in Seq(Byte) /\ UNCHANGED <<up, clientVars>>
      BY <2>2 DEF TypeOK
    <3> QED
      BY <2>1, <2>2, <3>1, SendTypes
  <2>4. TypeOK'
    BY <2>2, <2>3 DEF TypeOK
  <2>5. ReactorConsistent' /\ OneFdEach'
    BY <2>2 DEF ReactorConsistent, OneFdEach
  <2>6. \A d \in Clients :
          /\ link[d] \in {"fin", "rst"} => link'[d] \in {"fin", "rst"}
          /\ link[d] = "up" => link'[d] = "up"
          /\ link[d] = "none" => link'[d] = "none"
    BY <2>1, <2>2 DEF ServerSends, TypeOK, ClientTypeOK
  <2>7. HandlersDoNotBlock'
    <3>1. ASSUME NEW g \in ready, g # Listener
          PROVE  Readable(g)'
      <4>1. g \in ClientFds /\ conn[g] \in Clients /\ Readable(g)
        BY <3>1 DEF TypeOK, ReactorConsistent, ClientFds, HandlersDoNotBlock
      <4> QED
        BY <2>2, <2>6, <3>1, <4>1 DEF Readable
    <3>2. Pending \subseteq Pending'
      BY <2>2, <2>6 DEF Pending
    <3>3. Listener \in ready => Readable(Listener)'
      BY <3>2 DEF HandlersDoNotBlock, Readable
    <3> QED
      BY <2>2, <3>1, <3>3 DEF HandlersDoNotBlock
  <2>8. OffUnconnected'
    BY <2>2, <2>6 DEF OffUnconnected, clientVars
  <2>9. \A g \in ClientFds : conn'[g] # NoClient => link'[conn'[g]] \in {"up", "fin", "rst"}
    BY <2>2, <2>6 DEF TypeOK
  <2> QED
    BY <2>2, <2>4, <2>5, <2>7, <2>8, <2>9
<1> QED
  BY <1>1, <1>2

(* A step of a client makes no descriptor less readable.                   *)
LEMMA ClientPreserves ==
  ASSUME ReactorInv, NEW c \in Clients, ClientStep(c), UNCHANGED serverVars
  PROVE  ReactorInv'
<1> USE SelectServerAssumption DEF ReactorInv
<1>1. ClientTypeOK'
  BY ClientTypes DEF TypeOK
<1>2. /\ OffUnconnected'
      /\ \A d \in Clients :
           /\ up[d] # <<>> => up'[d] # <<>>
           /\ link[d] \in {"fin", "rst"} => link'[d] \in {"fin", "rst"}
           /\ link[d] \in {"up", "fin", "rst"} => link'[d] \in {"up", "fin", "rst"}
  BY ClientEffects DEF TypeOK
<1>3. UNCHANGED <<conn, handlers, fds, highest_fd, at, ready, buf, targets, log>>
  BY DEF serverVars, reactorVars
<1>4. TypeOK'
  BY <1>1, <1>3 DEF TypeOK
<1>5. ReactorConsistent' /\ OneFdEach'
  BY <1>3 DEF ReactorConsistent, OneFdEach
<1>6. HandlersDoNotBlock'
  <2>1. ASSUME NEW g \in ready, g # Listener
        PROVE  Readable(g)'
    <3>1. g \in ClientFds /\ conn[g] \in Clients /\ Readable(g)
      BY <2>1 DEF TypeOK, ReactorConsistent, ClientFds, HandlersDoNotBlock
    <3> QED
      BY <1>2, <1>3, <2>1, <3>1 DEF Readable
  <2>2. Pending \subseteq Pending'
    BY <1>2, <1>3 DEF Pending
  <2>3. Listener \in ready => Readable(Listener)'
    BY <2>2 DEF HandlersDoNotBlock, Readable
  <2> QED
    BY <1>3, <2>1, <2>3 DEF HandlersDoNotBlock
<1>7. \A g \in ClientFds : conn'[g] # NoClient => link'[conn'[g]] \in {"up", "fin", "rst"}
  BY <1>2, <1>3 DEF TypeOK
<1> QED
  BY <1>2, <1>3, <1>4, <1>5, <1>6, <1>7

(* What is sent is the log's last entry, and clients end connections.      *)
LEMMA ServerKeepsRoom ==
  ASSUME IInv, ServerStep
  PROVE  RoomInv'
<1> USE SelectServerAssumption DEF IInv, ReactorInv
<1> DEFINE Quiet ==
      at' # "send" /\ UNCHANGED <<link, client, alive>>
<1>1. ASSUME Quiet PROVE RoomInv'
  BY <1>1 DEF RoomInv
<1>2. CASE Setup \/ Select \/ LoopEnds \/ AcceptFails \/ HandlerReturns
  <2>1. Quiet
    BY <1>2 DEF Setup, Select, LoopEnds, AcceptFails, HandlerReturns, Visits, networkVars, clientVars
  <2> QED
    BY <1>1, <2>1
<1>3. ASSUME NEW c \in Clients, AcceptConnection(c) PROVE RoomInv'
  <2>1. Quiet
    BY <1>3 DEF AcceptConnection, Visits, networkVars, clientVars
  <2> QED
    BY <1>1, <2>1
<1>4. ASSUME NEW fd \in ClientFds, HandleData(fd) PROVE RoomInv'
  <2> DEFINE c == conn[fd]
  <2>1. PICK n \in Received(up[c], BufferSize) :
          buf' = First(up[c], n) /\ log' = Append(log, [from |-> c, bytes |-> First(up[c], n)])
    BY <1>4 DEF HandleData
  <2>2. UNCHANGED <<link, client, alive>>
    BY <1>4 DEF HandleData, clientVars
  <2> DEFINE entry == [from |-> c, bytes |-> First(up[c], n)]
  <2>3. log' # <<>> /\ log'[Len(log')] = entry
    <3>1. log \in Seq([from : Clients, bytes : Seq(Byte)]) /\ log' = Append(log, entry)
      BY <2>1 DEF TypeOK
    <3> HIDE DEF entry
    <3> QED
      BY <3>1
  <2>4. entry.bytes = buf'
    BY <2>1
  <2> HIDE DEF entry
  <2> QED
    BY <2>2, <2>3, <2>4 DEF RoomInv
<1>5. ASSUME NEW fd \in ClientFds, HandleHangUp(fd) PROVE RoomInv'
  <2>1. at' # "send" /\ client' = client /\ alive' = alive /\ link' = [link EXCEPT ![conn[fd]] = "closed"]
    BY <1>5 DEF HandleHangUp, Visits, clientVars
  <2> QED
    BY <2>1 DEF RoomInv, TypeOK, ClientTypeOK
<1>6. CASE SendToNext
  <2> DEFINE c == conn[Least(targets)]
  <2>1. alive /\ ServerSends(c, buf) /\ UNCHANGED <<at, buf, log, client>>
    BY <1>6 DEF SendToNext, clientVars
  <2> HIDE DEF c
  <2>2. \A d \in Clients : \/ link'[d] = link[d]
                           \/ link[d] = "fin" /\ link'[d] = "rst"
    BY <2>1 DEF ServerSends, TypeOK, ClientTypeOK
  <2> QED
    BY <2>1, <2>2 DEF RoomInv
<1> QED
  BY <1>2, <1>3, <1>4, <1>5, <1>6 DEF ServerStep

(* A client that hangs up is gone; one that gives up knows the server is.  *)
LEMMA ClientKeepsRoom ==
  ASSUME IInv, NEW c \in Clients, ClientStep(c), UNCHANGED serverVars
  PROVE  RoomInv'
<1> USE DEF IInv, ReactorInv, TypeOK, ClientTypeOK, OffUnconnected
<1>1. UNCHANGED <<at, buf, log>>
  BY DEF serverVars
<1>2. ASSUME NEW d \in Clients
      PROVE  /\ link'[d] \in {"fin", "rst"} => client'[d] = "gone"
             /\ alive' /\ client'[d] = "gone" => link'[d] # "up"
  <2>1. d # c => link'[d] = link[d] /\ client'[d] = client[d] /\ alive' = alive
    BY DEF ClientStep, Connect, SendRequest, SendFails, RecvReply, RecvNothing, HangUp,
           ClientReceives, networkVars
  <2>2. CASE Connect(c)
    BY <2>1, <2>2 DEF Connect, RoomInv
  <2>3. CASE SendRequest(c)
    BY <2>1, <2>3 DEF SendRequest, RoomInv
  <2>4. CASE SendFails(c)
    BY <2>1, <2>4 DEF SendFails, networkVars, RoomInv
  <2>5. CASE RecvReply(c) \/ RecvNothing(c)
    <3>1. /\ alive' = alive /\ link' = link
          /\ client' = [client EXCEPT ![c] = "prompt"] \/ (~alive /\ client' = [client EXCEPT ![c] = "gone"])
      BY <2>5 DEF RecvReply, RecvNothing, ClientReceives, networkVars
    <3>2. client[c] = "recv"
      BY <2>5 DEF RecvReply, RecvNothing
    <3> QED
      BY <3>1, <3>2, SMTT(30) DEF RoomInv
  <2>6. CASE HangUp(c)
    BY <2>1, <2>6 DEF HangUp, RoomInv
  <2> QED
    BY <2>2, <2>3, <2>4, <2>5, <2>6 DEF ClientStep
<1> QED
  BY <1>1, <1>2 DEF RoomInv

(* IInv holds in every reachable state.                                    *)
THEOREM Inductive == Spec => []IInv
<1>1. Init => IInv
  <2> SUFFICES ASSUME Init PROVE RoomInv
    BY InitReactor DEF IInv
  <2> QED
    BY DEF Init, ClientInit, RoomInv
<1>2. IInv /\ [Next]_vars => IInv'
  <2> SUFFICES ASSUME IInv, [Next]_vars PROVE IInv'
    OBVIOUS
  <2>1. CASE ServerStep
    <3>1. ReactorInv'
      BY <2>1, MainPreserves, AcceptPreserves, DataPreserves, HangUpPreserves, SendPreserves
         DEF ServerStep, IInv
    <3> QED
      BY <2>1, <3>1, ServerKeepsRoom DEF IInv
  <2>2. CASE \E c \in Clients : ClientStep(c) /\ UNCHANGED serverVars
    BY <2>2, ClientPreserves, ClientKeepsRoom DEF IInv
  <2>3. CASE UNCHANGED vars
    BY <2>3 DEF IInv, ReactorInv, RoomInv, TypeOK, ClientTypeOK, ReactorConsistent, HandlersDoNotBlock,
                Readable, Pending, OneFdEach, OffUnconnected, vars, serverVars, reactorVars, networkVars,
                clientVars
  <2> QED
    BY <2>1, <2>2, <2>3 DEF Next
<1> QED
  BY <1>1, <1>2, PTL DEF Spec

(* Types, for any clients, texts, buffer sizes and descriptor limits.      *)
THEOREM TypeCorrect == Spec => []TypeOK
BY Inductive, PTL DEF IInv, ReactorInv

(* The reactor's tables and the kernel's agree through every accept, close *)
(* and reuse of a descriptor.                                              *)
THEOREM ReactorStaysConsistent == Spec => []ReactorConsistent
BY Inductive, PTL DEF IInv, ReactorInv

(* No handler main calls from its snapshot blocks in accept or recv.       *)
THEOREM NoStaleReadiness == Spec => []HandlersDoNotBlock
BY Inductive, PTL DEF IInv, ReactorInv

-----------------------------------------------------------------------------
(* The server implements ChatRoom, step by step.                           *)

Gone == {c \in Clients : client[c] = "gone"}

(* What the room sees of a step: who is in, who left, what was said, and   *)
(* for each client how much it heard.                                      *)
LEMMA NothingHappens ==
  ASSUME Members' = Members, Gone' = Gone, log' = log,
         \A d \in Clients : Cursor(d)' = Cursor(d) /\ Stream(d)' = Stream(d)
  PROVE  UNCHANGED Room!vars
BY Zenon DEF Room!vars, Gone

(* A step that moves one client's cursor or stream.                        *)
LEMMA OneCursor ==
  ASSUME NEW c \in Clients, NEW v, \A d \in Clients : Cursor(d)' = IF d = c THEN v ELSE Cursor(d)
  PROVE  [d \in Clients |-> Cursor(d)]' = [[d \in Clients |-> Cursor(d)] EXCEPT ![c] = v]
BY Zenon

LEMMA OneStream ==
  ASSUME NEW c \in Clients, NEW v, \A d \in Clients : Stream(d)' = IF d = c THEN v ELSE Stream(d)
  PROVE  [d \in Clients |-> Stream(d)]' = [[d \in Clients |-> Stream(d)] EXCEPT ![c] = v]
BY Zenon

(* A step of main outside the send loop.                                   *)
LEMMA QuietSteps ==
  ASSUME UNCHANGED <<conn, log, alive, link, client, got, down>>,
         at = "send" => targets = {}, at' = "send" => targets' = {}
  PROVE  UNCHANGED Room!vars
<1>1. Members' = Members /\ Gone' = Gone
  BY DEF Members, Gone, Accepted
<1>2. \A d \in Clients : Cursor(d)' = Cursor(d)
  BY <1>1 DEF Cursor, Awaits
<1>3. \A d \in Clients : Stream(d)' = Stream(d)
  BY DEF Stream
<1> QED
  BY <1>1, <1>2, <1>3, NothingHappens

(* Accepting a client that is still there is its joining.                  *)
LEMMA AcceptJoins ==
  ASSUME IInv, NEW c \in Clients, AcceptConnection(c)
  PROVE  Room!Join(c) \/ UNCHANGED Room!vars
<1> USE SelectServerAssumption DEF IInv, ReactorInv
<1> DEFINE new == Least(FreeFds)
<1>1. new \in ClientFds /\ conn[new] = NoClient
  <2>1. FreeFds \subseteq Fds /\ FreeFds # {}
    BY DEF AcceptConnection, FreeFds, ClientFds
  <2>2. new \in FreeFds
    BY <2>1, NextFd
  <2> QED
    BY <2>2 DEF FreeFds
<1>2. /\ conn' = [conn EXCEPT ![new] = c]
      /\ at = "loop" /\ at' = "loop"
      /\ \A fd \in ClientFds : conn[fd] # c
      /\ alive
      /\ UNCHANGED <<log, alive, link, client, got, down>>
  BY DEF AcceptConnection, Visits, Pending, networkVars, clientVars
<1> HIDE DEF new
<1>3. ~Accepted(c) /\ \A d \in Clients : Accepted(d)' <=> d = c \/ Accepted(d)
  BY <1>1, <1>2 DEF Accepted, TypeOK
<1>4. /\ Members' = IF link[c] = "up" THEN Members \cup {c} ELSE Members
      /\ c \notin Members
      /\ Gone' = Gone
  BY <1>2, <1>3 DEF Members, Gone
<1>5. \A d \in Clients : Stream(d)' = Stream(d)
  BY <1>2 DEF Stream
<1>6. \A d \in Clients : Cursor(d) = IF d \in Members THEN Len(log) ELSE 0
  BY <1>2 DEF Cursor, Awaits
<1>7. \A d \in Clients : Cursor(d)' = IF d \in Members' THEN Len(log) ELSE 0
  BY <1>2 DEF Cursor, Awaits
<1>8. CASE link[c] = "up"
  <2>1. c \notin Gone
    BY <1>2, <1>8 DEF RoomInv, Gone
  <2>2. [d \in Clients |-> Cursor(d)]' = [[d \in Clients |-> Cursor(d)] EXCEPT ![c] = Len(log)]
    <3>1. \A d \in Clients : Cursor(d)' = IF d = c THEN Len(log) ELSE Cursor(d)
      BY <1>4, <1>6, <1>7, <1>8
    <3> QED
      BY <3>1, OneCursor
  <2>3. [d \in Clients |-> Stream(d)]' = [d \in Clients |-> Stream(d)]
    BY <1>5
  <2> QED
    BY <1>2, <1>4, <1>8, <2>1, <2>2, <2>3 DEF Room!Join, Gone
<1>9. CASE link[c] # "up"
  BY <1>2, <1>4, <1>5, <1>6, <1>7, <1>9, NothingHappens
<1> QED
  BY <1>8, <1>9

(* What recv returns is said, and awaits all members.                      *)
LEMMA DataIsSaid ==
  ASSUME IInv, NEW fd \in ClientFds, HandleData(fd)
  PROVE  \E c \in Clients : Room!Say(c)
<1> USE SelectServerAssumption DEF IInv, ReactorInv
<1> DEFINE c == conn[fd]
<1>1. fd \in ready /\ at = "loop"
  <2>1. ready \subseteq Fds /\ ready # {} /\ fd = Least(ready) /\ at = "loop"
    BY DEF HandleData, Visits, TypeOK
  <2> QED
    BY <2>1, NextFd
<1>2. c # NoClient /\ c \in Clients
  BY <1>1 DEF TypeOK, ReactorConsistent
<1>3. up[c] \in Seq(Byte) /\ up[c] # <<>>
  BY <1>2 DEF HandleData, TypeOK, ClientTypeOK
<1>4. PICK n \in Received(up[c], BufferSize) :
        log' = Append(log, [from |-> c, bytes |-> First(up[c], n)])
  BY DEF HandleData
<1>5. /\ targets' = Targets(fd) /\ at' = "send" /\ alive
      /\ UNCHANGED <<conn, fds, highest_fd, alive, link, down, client, got>>
  BY DEF HandleData, reactorVars, clientVars
<1> DEFINE said == [from |-> c, bytes |-> First(up[c], n)]
<1>6. First(up[c], n) # <<>>
  <2>1. Len(up[c]) \in Nat \ {0}
    BY <1>3, EmptySeq
  <2>2. n \in 1 .. Len(up[c])
    BY <2>1 DEF Received, Smaller
  <2>3. \A i \in 1 .. n : up[c][i] \in Byte
    BY <1>3, <2>1, <2>2, ElementOfSeq
  <2>4. Len(SubSeq(up[c], 1, n)) = n
    BY <2>1, <2>2, <2>3, SubSeqProperties
  <2> QED
    BY <2>2, <2>4, EmptySeq DEF First
<1>7. said.from = c /\ said.bytes # <<>>
  BY <1>6
<1> HIDE DEF c
<1>8. /\ Len(log') = Len(log) + 1 /\ Len(log) \in Nat
      /\ SubSeq(log', 1, Len(log)) = log /\ log'[Len(log')] = said
  <2> DEFINE S == [from : Clients, bytes : Seq(Byte)]
  <2>1. log \in Seq(S) /\ log' = Append(log, said)
    BY <1>4 DEF TypeOK
  <2> HIDE DEF said, S
  <2>2. Len(log') = Len(log) + 1 /\ Len(log) \in Nat /\ log'[Len(log')] = said
    BY <2>1
  <2>3. SubSeq(log', 1, Len(log)) = log
    BY <2>1
  <2> QED
    BY <2>2, <2>3
<1> HIDE DEF said
<1>9. Members' = Members /\ Gone' = Gone
  BY <1>5 DEF Members, Accepted, Gone
<1>10. c \in Members \cup Gone
  <2>1. link[c] \in {"up", "fin", "rst"} /\ Accepted(c)
    BY <1>2 DEF Accepted, c
  <2> QED
    BY <1>2, <1>5, <2>1 DEF RoomInv, Members, Gone
<1>11. \A d \in Clients : Cursor(d)' = Cursor(d)
  <2>1. ASSUME NEW d \in Members PROVE Awaits(d)'
    <3>1. PICK g \in ClientFds : conn[g] = d
      BY <2>1 DEF Members, Accepted
    <3>2. g \in fds /\ g <= highest_fd /\ g # Listener
      BY <2>1, <3>1 DEF ReactorConsistent, Members, ClientFds
    <3> QED
      BY <1>5, <3>1, <3>2 DEF Awaits, Targets
  <2>2. \A d \in Clients : ~Awaits(d)
    BY <1>1 DEF Awaits
  <2> QED
    BY <1>8, <1>9, <2>1, <2>2 DEF Cursor
<1>12. \A d \in Clients : Stream(d)' = Stream(d)
  BY <1>5 DEF Stream
<1>13. [d \in Clients |-> Cursor(d)]' = [d \in Clients |-> Cursor(d)]
  BY <1>11
<1>14. [d \in Clients |-> Stream(d)]' = [d \in Clients |-> Stream(d)]
  BY <1>12
<1>15. Room!Say(c)
  BY <1>7, <1>8, <1>9, <1>10, <1>13, <1>14 DEF Room!Say, Gone
<1> QED
  BY <1>2, <1>15

(* A close changes nothing in the room: its client had left.               *)
LEMMA HangUpIsQuiet ==
  ASSUME IInv, NEW fd \in ClientFds, HandleHangUp(fd)
  PROVE  UNCHANGED Room!vars
<1> USE SelectServerAssumption DEF IInv, ReactorInv
<1> DEFINE c == conn[fd]
<1>1. fd \in ready /\ at = "loop"
  <2>1. ready \subseteq Fds /\ ready # {} /\ fd = Least(ready) /\ at = "loop"
    BY DEF HandleHangUp, Visits, TypeOK
  <2> QED
    BY <2>1, NextFd
<1>2. c # NoClient /\ c \in Clients
  BY <1>1 DEF TypeOK, ReactorConsistent
<1>3. /\ link[c] \in {"fin", "rst"}
      /\ link' = [link EXCEPT ![c] = "closed"]
      /\ conn' = [conn EXCEPT ![fd] = NoClient]
      /\ UNCHANGED <<at, log, alive, client, got, down>>
  BY DEF HandleHangUp, clientVars
<1>4. \A g \in ClientFds : g # fd => conn[g] # c
  BY <1>2 DEF OneFdEach
<1> HIDE DEF c
<1>5. \A d \in Clients : d # c => (Accepted(d)' <=> Accepted(d)) /\ link'[d] = link[d]
  <2>1. \A g \in ClientFds : IF g = fd THEN conn[g] = c /\ conn'[g] = NoClient ELSE conn'[g] = conn[g]
    BY <1>3 DEF TypeOK, c
  <2> QED
    BY <1>2, <1>3, <2>1 DEF Accepted, TypeOK, ClientTypeOK
<1>6. Members' = Members /\ Gone' = Gone
  BY <1>2, <1>3, <1>5 DEF Members, Gone, TypeOK, ClientTypeOK
<1>7. \A d \in Clients : Cursor(d)' = Cursor(d)
  BY <1>1, <1>3, <1>6 DEF Cursor, Awaits
<1>8. \A d \in Clients : Stream(d)' = Stream(d)
  BY <1>3 DEF Stream
<1> QED
  BY <1>3, <1>6, <1>7, <1>8, NothingHappens

(* A send is heard by the member it goes to; to one who has left it is     *)
(* lost, or ends the server, which closes the room.                        *)
LEMMA SendIsHeard ==
  ASSUME IInv, SendToNext
  PROVE  [Room!Next]_(Room!vars)
<1>0. TypeOK /\ ClientTypeOK /\ ReactorConsistent /\ OneFdEach /\ RoomInv
  BY DEF IInv, ReactorInv, TypeOK
<1>1. PICK fd \in targets : fd = Least(targets) /\ fd \in ClientFds /\ conn[fd] \in Clients
  <2>1. targets \subseteq Fds /\ targets # {} /\ targets \subseteq ClientFds
    BY <1>0 DEF SendToNext, TypeOK, ClientFds
  <2>2. Least(targets) \in targets
    BY <2>1, NextFd
  <2>3. conn[Least(targets)] # NoClient
    BY <1>0, <2>1, <2>2 DEF ReactorConsistent
  <2> QED
    BY <1>0, <2>1, <2>2, <2>3 DEF TypeOK
<1>10. PICK c \in Clients : c = conn[fd]
  BY <1>1
<1>2. /\ alive /\ at = "send" /\ at' = "send" /\ targets' = targets \ {fd} /\ ServerSends(c, buf)
      /\ UNCHANGED <<conn, log, client, got>>
  BY <1>1, <1>10 DEF SendToNext, clientVars
<1>3. Awaits(c) /\ Accepted(c)
  BY <1>1, <1>10, <1>2 DEF Awaits, Accepted
<1>4. \A g \in ClientFds : conn[g] = c => g = fd
  BY <1>0, <1>1, <1>10, SelectServerAssumption DEF OneFdEach, TypeOK
<1>5. targets \subseteq ClientFds
  BY <1>0 DEF TypeOK
<1>6. ~Awaits(c)' /\ \A d \in Clients : d # c => (Awaits(d)' <=> Awaits(d))
  <2>1. conn[fd] = c
    BY <1>10
  <2>2. \A g \in targets' : g \in targets /\ conn[g] # c
    BY <1>2, <1>4, <1>5
  <2>3. \A g \in targets : conn[g] # c => g \in targets'
    BY <1>2, <2>1
  <2>4. ~Awaits(c)'
    BY <1>2, <2>2 DEF Awaits
  <2>5. ASSUME NEW d \in Clients, d # c PROVE Awaits(d)' <=> Awaits(d)
    BY <1>2, <2>2, <2>3, <2>5 DEF Awaits
  <2> QED
    BY <2>4, <2>5
<1>7. Gone' = Gone /\ \A d \in Clients : Accepted(d)' <=> Accepted(d)
  BY <1>2 DEF Gone, Accepted
<1>8. ASSUME link[c] = "up" PROVE Room!Hear(c)
  <2>1. down' = [down EXCEPT ![c] = @ \o buf] /\ alive' = alive /\ link' = link
    BY <1>2, <1>8 DEF ServerSends
  <2>2. Members' = Members /\ c \in Members
    BY <1>1, <1>2, <1>3, <1>7, <1>8, <2>1 DEF Members
  <2>3. Len(log) \in Nat /\ Len(log) # 0 /\ buf = log[Len(log)].bytes
    BY <1>0, <1>2 DEF RoomInv, TypeOK
  <2>4. Cursor(c) = Len(log) - 1 /\ \A d \in Clients : Cursor(d)' = IF d = c THEN Len(log) ELSE Cursor(d)
    <3>1. Cursor(c) = Len(log) - 1
      BY <1>3, <2>2 DEF Cursor
    <3>2. Cursor(c)' = Len(log)
      BY <1>2, <1>6, <2>2 DEF Cursor
    <3>3. ASSUME NEW d \in Clients, d # c PROVE Cursor(d)' = Cursor(d)
      <4>1. Awaits(d)' <=> Awaits(d)
        BY <1>6, <3>3
      <4> QED
        BY <1>2, <2>2, <4>1 DEF Cursor
    <3> QED
      BY <3>1, <3>2, <3>3
  <2>5. [d \in Clients |-> Cursor(d)]' = [[d \in Clients |-> Cursor(d)] EXCEPT ![c] = Len(log)]
    BY <1>1, <2>4, OneCursor
  <2>6. \A d \in Clients : Stream(d)' = IF d = c THEN Stream(c) \o buf ELSE Stream(d)
    <3>1. buf \in Seq(Byte) /\ got' = got
      BY <1>0, <1>2 DEF TypeOK
    <3> QED
      BY <1>0, <1>1, <2>1, <3>1, StreamGrows
  <2>7. [d \in Clients |-> Stream(d)]' = [[d \in Clients |-> Stream(d)] EXCEPT ![c] = Stream(c) \o buf]
    BY <1>1, <2>6, OneStream
  <2>8. /\ [d \in Clients |-> Cursor(d)][c] = Len(log) - 1
        /\ [d \in Clients |-> Stream(d)][c] = Stream(c)
    BY <1>1, <2>4
  <2>9. Len(log) - 1 < Len(log) /\ Len(log) - 1 + 1 = Len(log)
    BY <2>3
  <2> QED
    BY <1>2, <1>7, <2>2, <2>3, <2>5, <2>7, <2>8, <2>9, Zenon DEF Room!Hear, Gone
<1>9. ASSUME link[c] # "up" PROVE Room!Close \/ UNCHANGED Room!vars
  <2>1. down' = down /\ c \notin Members /\ (alive' \/ link[c] = "rst")
    BY <1>0, <1>2, <1>9 DEF ServerSends, Members, TypeOK, ClientTypeOK
  <2>2. \A d \in Clients : link'[d] = "up" <=> link[d] = "up"
    BY <1>0, <1>1, <1>2, <1>9 DEF ServerSends, TypeOK, ClientTypeOK
  <2>3. \A d \in Clients : Stream(d)' = Stream(d)
    BY <1>2, <2>1 DEF Stream
  <2>4. CASE alive'
    <3>1. Members' = Members
      BY <1>2, <1>7, <2>2, <2>4 DEF Members
    <3>2. \A d \in Clients : Cursor(d)' = Cursor(d)
      BY <1>2, <1>6, <2>1, <3>1 DEF Cursor
    <3> QED
      BY <1>2, <1>7, <2>3, <3>1, <3>2, NothingHappens
  <2>5. CASE ~alive'
    <3>1. Members' = {}
      BY <2>5 DEF Members
    <3>2. \A d \in Clients : Cursor(d)' = 0
      BY <3>1 DEF Cursor
    <3>3. c \in Gone
      BY <1>0, <1>1, <2>1, <2>5 DEF RoomInv, Gone
    <3>4. [d \in Clients |-> Cursor(d)]' = [d \in Clients |-> 0]
      BY <3>2
    <3>5. [d \in Clients |-> Stream(d)]' = [d \in Clients |-> Stream(d)]
      BY <2>3
    <3> QED
      BY <1>2, <1>7, <3>1, <3>3, <3>4, <3>5 DEF Room!Close, Gone
  <2> QED
    BY <2>4, <2>5
<1> QED
  BY <1>1, <1>8, <1>9 DEF Room!Next

(* A client's steps: connecting, typing and receiving change nothing in    *)
(* the room, and a client leaves it when its user or the server's death    *)
(* ends it.                                                                *)
LEMMA GoneLeaves ==
  ASSUME IInv, NEW c \in Clients, UNCHANGED <<conn, at, targets, log>>, client[c] # "gone",
         client' = [client EXCEPT ![c] = "gone"], alive' = alive,
         \A e \in Clients : e # c => link'[e] = link[e],
         ~alive \/ link'[c] # "up",
         \E n \in 0 .. Len(Stream(c)) :
            \A e \in Clients : Stream(e)' = IF e = c THEN SubSeq(Stream(c), 1, n) ELSE Stream(e)
  PROVE  Room!Leave(c)
<1>1. client \in [Clients -> {"off", "prompt", "recv", "gone"}]
  BY DEF IInv, ReactorInv, TypeOK, ClientTypeOK
<1>2. Members' = Members \ {c}
  BY DEF Members, Accepted
<1>3. c \notin Gone /\ Gone' = Gone \cup {c}
  BY <1>1 DEF Gone
<1>4. ASSUME NEW e \in Clients PROVE Cursor(e)' = IF e = c THEN 0 ELSE Cursor(e)
  <2>1. Awaits(e)' <=> Awaits(e)
    BY DEF Awaits
  <2> QED
    BY <1>2, <2>1 DEF Cursor
<1>5. [e \in Clients |-> Cursor(e)]' = [[e \in Clients |-> Cursor(e)] EXCEPT ![c] = 0]
  BY <1>4, OneCursor
<1>6. PICK n \in 0 .. Len(Stream(c)) :
        \A e \in Clients : Stream(e)' = IF e = c THEN SubSeq(Stream(c), 1, n) ELSE Stream(e)
  OBVIOUS
<1>7. [e \in Clients |-> Stream(e)]' = [[e \in Clients |-> Stream(e)] EXCEPT ![c] = SubSeq(Stream(c), 1, n)]
  BY <1>6, OneStream
<1>8. [e \in Clients |-> Stream(e)][c] = Stream(c)
  OBVIOUS
<1> QED
  BY <1>2, <1>3, <1>5, <1>7, <1>8, Zenon DEF Room!Leave, Gone

LEMMA ClientMoves ==
  ASSUME IInv, NEW c \in Clients, ClientStep(c), UNCHANGED serverVars
  PROVE  Room!Leave(c) \/ UNCHANGED Room!vars
<1>1. ClientTypeOK /\ OffUnconnected /\ RoomInv
  BY DEF IInv, ReactorInv, TypeOK
<1>2. UNCHANGED <<conn, at, targets, log>>
  BY DEF serverVars
<1>3. ASSUME UNCHANGED alive, \A d \in Clients : client'[d] = "gone" <=> client[d] = "gone",
             \A d \in Clients : Accepted(d) => (link'[d] = "up" <=> link[d] = "up"),
             \A d \in Clients : Stream(d)' = Stream(d)
      PROVE  UNCHANGED Room!vars
  <2>1. Members' = Members /\ Gone' = Gone
    BY <1>2, <1>3 DEF Members, Gone, Accepted
  <2>2. ASSUME NEW d \in Clients PROVE Cursor(d)' = Cursor(d)
    <3>1. Awaits(d)' <=> Awaits(d)
      BY <1>2 DEF Awaits
    <3> QED
      BY <1>2, <2>1, <3>1 DEF Cursor
  <2> QED
    BY <1>2, <1>3, <2>1, <2>2, NothingHappens
<1>4. UNCHANGED <<got, down>> => \A d \in Clients : Stream(d)' = Stream(d)
  BY DEF Stream
<1>5. CASE Connect(c)
  <2>1. ~Accepted(c)
    <3>1. link[c] = "none"
      BY <1>1, <1>5 DEF Connect, OffUnconnected
    <3>2. \A fd \in ClientFds : conn[fd] # NoClient => link[conn[fd]] \in {"up", "fin", "rst"}
      BY DEF IInv, ReactorInv
    <3> QED
      BY <3>1, <3>2, SelectServerAssumption DEF Accepted
  <2> QED
    BY <1>1, <1>3, <1>4, <1>5, <2>1 DEF Connect, ClientTypeOK
<1>6. CASE SendRequest(c)
  BY <1>1, <1>3, <1>4, <1>6 DEF SendRequest, ClientTypeOK
<1>7. ASSUME NEW n \in 0 .. Len(down[c]), ClientReceives(c, n), client[c] = "recv"
      PROVE  UNCHANGED Room!vars
  <2>1. \A d \in Clients : Stream(d)' = Stream(d)
    BY <1>1, <1>7, ReceivesStream
  <2> QED
    BY <1>1, <1>3, <1>7, <2>1 DEF ClientReceives, ClientTypeOK
<1>8. CASE RecvReply(c)
  <2>1. PICK n \in Received(down[c], ReplyLimit) : ClientReceives(c, n)
    BY <1>8 DEF RecvReply
  <2>2. n \in 0 .. Len(down[c])
    BY <1>1, SelectClientAssumption, ReceivedRange DEF ClientTypeOK, ReplyLimit
  <2> QED
    BY <1>7, <1>8, <2>1, <2>2 DEF RecvReply
<1>9. Stream(c) \in Seq(Byte) /\ SubSeq(Stream(c), 1, Len(Stream(c))) = Stream(c) /\ Len(Stream(c)) \in Nat
  <2>1. Stream(c) \in Seq(Byte)
    BY <1>1, StreamType
  <2> QED
    BY <2>1, SubSeqFull, LenProperties
<1>10. ASSUME ~alive, client[c] # "gone", client' = [client EXCEPT ![c] = "gone"],
              UNCHANGED <<alive, networkVars, got>>
       PROVE  Room!Leave(c)
  <2>1. \A d \in Clients : Stream(d)' = Stream(d)
    BY <1>4, <1>10 DEF networkVars
  <2>2. Len(Stream(c)) \in 0 .. Len(Stream(c))
    BY <1>9
  <2>3. \E n \in 0 .. Len(Stream(c)) :
          \A e \in Clients : Stream(e)' = IF e = c THEN SubSeq(Stream(c), 1, n) ELSE Stream(e)
    BY <1>9, <2>1, <2>2
  <2> QED
    BY <1>2, <1>10, <2>3, GoneLeaves DEF networkVars
<1>11. CASE SendFails(c)
  BY <1>10, <1>11 DEF SendFails
<1>12. CASE RecvNothing(c)
  <2>1. 0 \in 0 .. Len(down[c])
    BY <1>1, LenProperties DEF ClientTypeOK
  <2> QED
    BY <1>7, <1>10, <1>12, <2>1 DEF RecvNothing
<1>13. CASE HangUp(c)
  <2> DEFINE flat == Seqs!FlattenSeq(got[c])
  <2>1. down' = [down EXCEPT ![c] = <<>>] /\ got' = got /\ link' = [link EXCEPT ![c] = IF down[c] = <<>> THEN "fin" ELSE "rst"]
    BY <1>13 DEF HangUp
  <2>2. flat \in Seq(Byte) /\ down[c] \in Seq(Byte) /\ Len(flat) \in 0 .. Len(Stream(c))
        /\ SubSeq(Stream(c), 1, Len(flat)) = flat
    <3>1. got[c] \in Seq(Seq(Byte)) /\ down[c] \in Seq(Byte)
      BY <1>1 DEF ClientTypeOK
    <3>2. flat \in Seq(Byte)
      BY <3>1, EmptySeq, FlattenAppend
    <3>3. Stream(c) = flat \o down[c]
      BY DEF Stream
    <3> HIDE DEF flat
    <3>4. Len(flat) \in 0 .. Len(flat \o down[c]) /\ SubSeq(flat \o down[c], 1, Len(flat)) = flat
      BY <3>1, <3>2, PrefixOfConcat
    <3> QED
      BY <3>1, <3>2, <3>3, <3>4
  <2>3. Stream(c)' = flat
    <3>1. flat \o <<>> = flat
      BY <2>2, ConcatEmptySeq
    <3>2. down'[c] = <<>>
      BY <1>1, <2>1 DEF ClientTypeOK
    <3> QED
      BY <2>1, <3>1, <3>2 DEF Stream
  <2>4. ASSUME NEW e \in Clients, e # c PROVE Stream(e)' = Stream(e)
    <3>1. down'[e] = down[e]
      BY <1>1, <2>1, <2>4 DEF ClientTypeOK
    <3> QED
      BY <2>1, <3>1 DEF Stream
  <2>5. \E n \in 0 .. Len(Stream(c)) :
          \A e \in Clients : Stream(e)' = IF e = c THEN SubSeq(Stream(c), 1, n) ELSE Stream(e)
    <3> HIDE DEF flat
    <3>1. \A e \in Clients : Stream(e)' = IF e = c THEN SubSeq(Stream(c), 1, Len(flat)) ELSE Stream(e)
      BY <2>2, <2>3, <2>4
    <3> QED
      BY <2>2, <3>1
  <2>6. /\ client[c] # "gone" /\ client' = [client EXCEPT ![c] = "gone"] /\ alive' = alive
        /\ \A e \in Clients : e # c => link'[e] = link[e]
        /\ link'[c] # "up"
    BY <1>1, <1>13, <2>1 DEF HangUp, ClientTypeOK
  <2> QED
    BY <1>2, <2>5, <2>6, GoneLeaves
<1> QED
  BY <1>5, <1>6, <1>8, <1>11, <1>12, <1>13 DEF ClientStep

(* For any clients, texts, buffers and descriptor limits, however TCP      *)
(* splits what is in flight and whoever leaves, what the clients hear is   *)
(* one log, each from its joining on, without gaps.                        *)
THEOREM RefinesRoom == Spec => ImplementsRoom
<1>1. Init => Room!Init
  <2> SUFFICES ASSUME Init PROVE Room!Init
    OBVIOUS
  <2>1. Members = {}
    BY DEF Init, ClientInit, Members
  <2>2. Gone = {}
    BY DEF Init, ClientInit, Gone
  <2>3. [d \in Clients |-> Cursor(d)] = [d \in Clients |-> 0]
    BY <2>1 DEF Cursor
  <2>4. ASSUME NEW d \in Clients PROVE Stream(d) = <<>>
    <3>1. got[d] = <<>> /\ down[d] = <<>>
      BY DEF Init, ClientInit
    <3> QED
      BY <3>1, FlattenEmpty, ConcatEmptySeq, EmptySeq DEF Stream
  <2>5. [d \in Clients |-> Stream(d)] = [d \in Clients |-> <<>>]
    BY <2>4
  <2>6. log = <<>>
    BY DEF Init
  <2> QED
    BY <2>1, <2>2, <2>3, <2>5, <2>6, Zenon DEF Room!Init, Gone
<1>2. IInv /\ [Next]_vars => [Room!Next]_(Room!vars)
  <2> SUFFICES ASSUME IInv, [Next]_vars PROVE [Room!Next]_(Room!vars)
    OBVIOUS
  <2>0. at # "send" => targets = {}
    BY DEF IInv, ReactorInv
  <2>1. CASE Setup \/ Select \/ LoopEnds \/ AcceptFails \/ HandlerReturns
    <3>1. /\ UNCHANGED <<conn, log, alive, link, client, got, down>>
          /\ at = "send" => targets = {}
          /\ at' = "send" => targets' = {}
      BY <2>0, <2>1 DEF Setup, Select, LoopEnds, AcceptFails, HandlerReturns, Visits, networkVars, clientVars
    <3> QED
      BY <3>1, QuietSteps
  <2>2. CASE \E c \in Clients : AcceptConnection(c)
    BY <2>2, AcceptJoins DEF Room!Next
  <2>3. CASE \E fd \in ClientFds : HandleData(fd)
    BY <2>3, DataIsSaid DEF Room!Next
  <2>4. CASE \E fd \in ClientFds : HandleHangUp(fd)
    BY <2>4, HangUpIsQuiet
  <2>5. CASE SendToNext
    BY <2>5, SendIsHeard
  <2>6. CASE \E c \in Clients : ClientStep(c) /\ UNCHANGED serverVars
    BY <2>6, ClientMoves DEF Room!Next
  <2>7. CASE UNCHANGED vars
    <3>1. /\ UNCHANGED <<conn, log, alive, link, client, got, down, at, targets>>
      BY <2>7 DEF vars, serverVars, networkVars, clientVars
    <3>2. Members' = Members /\ Gone' = Gone
      BY <3>1 DEF Members, Gone, Accepted
    <3>3. \A d \in Clients : Cursor(d)' = Cursor(d) /\ Stream(d)' = Stream(d)
      BY <3>1, <3>2 DEF Cursor, Awaits, Stream
    <3> QED
      BY <3>1, <3>2, <3>3, NothingHappens
  <2> QED
    BY <2>1, <2>2, <2>3, <2>4, <2>5, <2>6, <2>7 DEF Next, ServerStep
<1> QED
  BY <1>1, <1>2, Inductive, PTL DEF Spec, ImplementsRoom, Room!Spec
=============================================================================
