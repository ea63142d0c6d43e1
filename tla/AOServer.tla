------------------------------- MODULE AOServer -------------------------------
(***************************************************************************)
(* The active-object server (Server.cpp, ActiveObject.cpp) and its clients *)
(* (selectclient.cpp).  For each connection main starts three threads:     *)
(* "listen" turns what recv returns into capsules and puts them on q2,     *)
(* "convert" takes them from q2, converts them and puts them on q3, and    *)
(* "cipher" takes them from q3, ciphers them and sends them to the client. *)
(* enQ and deQ are atomic here: module Queue shows that they take effect   *)
(* in one step, in first-in first-out order.  A send or recv on a socket   *)
(* is one step; TCP may deliver any non-empty prefix of what is in flight. *)
(***************************************************************************)
EXTENDS SelectClient, FiniteSets

CONSTANTS
    NoClient,       \* no connection
    BufferSize,     \* 1024: the buffers listenAO receives into
    Residue,        \* what memory nobody wrote may hold before its first NUL
    MaxCapsules     \* bound: how many capsules a connection makes

ASSUME AOServerAssumption ==
    /\ NoClient \notin Clients
    /\ BufferSize \in Nat \ {0}
    /\ Residue # {} /\ Residue \subseteq Seq(Byte \ {NUL})
    /\ MaxCapsules \in Nat

Roles == {"listen", "convert", "cipher"}
Threads == Roles \X Clients
ActiveObjects == {"convert", "cipher"} \X Clients
Queues == {"q2", "q3"} \X Clients

(* The k-th capsule that client c's listen thread allocates is <<c, k>>.   *)
CapsuleId == Clients \X (1 .. MaxCapsules)
NoCapsule == <<>>

(* received is not a field of the code's: how many bytes of the buffer     *)
(* recv wrote.                                                             *)
Capsule == [q : Queues, buffer : Seq(Byte), socket : Clients, received : Nat]

VARIABLES
    main,     \* what main is about to start, and for which connection
    thread,   \* thread[t]: the point each thread is at, the capsule it holds
    queue,    \* queue[q]: the capsules on q2 and q3 of each connection
    heap      \* heap[c]: the capsules allocated for c; none is ever freed

serverVars == <<main, thread, queue, heap>>
vars == <<serverVars, alive, networkVars, clientVars>>

Init ==
    /\ main = [at |-> "accept", conn |-> NoClient]
    /\ thread = [t \in Threads |-> [at |-> "none", capsule |-> NoCapsule]]
    /\ queue = [q \in Queues |-> <<>>]
    /\ heap = [c \in Clients |-> <<>>]
    /\ ClientInit

-----------------------------------------------------------------------------
(* main                                                                    *)

(* Any pending connection: two clients may connect in either order.        *)
Accept(c) ==
    /\ alive
    /\ main.at = "accept"
    /\ link[c] # "none"
    /\ thread[<<"listen", c>>].at = "none"
    /\ main' = [at |-> "listen", conn |-> c]
    /\ UNCHANGED <<thread, queue, heap, alive, networkVars, clientVars>>

FirstPoint(role) == IF role = "listen" THEN "recv" ELSE "deQ"

(* new_listenAO, new_AO and new_AO start the three threads one by one, and *)
(* each runs as soon as it is started.                                     *)
NextToStartShort ==   \* mutant: no thread is started for q3
    [listen |-> "convert", convert |-> "accept", cipher |-> "accept"]

NextToStart ==
    [listen |-> "convert", convert |-> "cipher", cipher |-> "accept"]

StartThread ==
    /\ alive
    /\ main.at \in Roles
    /\ thread' = [thread EXCEPT ![<<main.at, main.conn>>].at = FirstPoint(main.at)]
    /\ main' = [main EXCEPT !.at = NextToStart[main.at]]
    /\ UNCHANGED <<queue, heap, alive, networkVars, clientVars>>

-----------------------------------------------------------------------------
(* The queues main gives to the threads of connection c: the queue of ao1, *)
(* which the listen thread sends to (getsq); the queue of its capsules     *)
(* (getq); and the queue each other thread takes from (funq->q).           *)
SendQueue(c) == <<"q2", c>>

ReplyQueueNull(c) == NoCapsule   \* mutant: the capsule's q is nullptr

ReplyQueue(c) == <<"q3", c>>

InputQueueSkipped(t) == <<"q2", t[2]>>   \* mutant: both threads take from q2

InputQueue(t) == IF t[1] = "convert" THEN <<"q2", t[2]>> ELSE <<"q3", t[2]>>

(* The capsule thread t holds, and the move of a thread to its next point. *)
Held(t) == heap[thread[t].capsule[1]][thread[t].capsule[2]]

At(t, point) == thread[t].at = point

Moves(t, point) == thread' = [thread EXCEPT ![t].at = point]

Releases(t, point) ==
    thread' = [thread EXCEPT ![t] = [at |-> point, capsule |-> NoCapsule]]

EnQFront(q, id) == queue' = [queue EXCEPT ![q] = <<id>> \o @]   \* mutant: a stack

EnQ(q, id) == queue' = [queue EXCEPT ![q] = Append(@, id)]

-----------------------------------------------------------------------------
(* listenAO                                                                *)

(* What follows the received bytes in a new char[1024]: nothing that       *)
(* matters after a NUL; else whatever the memory held, letters perhaps, up *)
(* to its first NUL.                                                       *)
Unwritten(bytes) ==
    IF \E i \in 1 .. Len(bytes) : bytes[i] = NUL
    THEN {<<>>} ELSE {Append(old, NUL) : old \in Residue}

(* A fresh buffer and capsule for the received bytes.                      *)
Encapsulate(c, bytes) ==
    LET t == <<"listen", c>> IN
    /\ Len(heap[c]) < MaxCapsules
    /\ \E rest \in Unwritten(bytes) :
          heap' = [heap EXCEPT ![c] =
                     Append(@, [q |-> ReplyQueue(c), buffer |-> bytes \o rest,
                                socket |-> c, received |-> Len(bytes)])]
    /\ thread' = [thread EXCEPT ![t] =
                    [at |-> "enQ", capsule |-> <<c, Len(heap[c]) + 1>>]]

ListenReceives(c) ==
    /\ alive
    /\ At(<<"listen", c>>, "recv")
    /\ up[c] # <<>>
    /\ \E n \in Received(up[c], BufferSize) :
          /\ Encapsulate(c, First(up[c], n))
          /\ up' = [up EXCEPT ![c] = AllBut(@, n)]
    /\ UNCHANGED <<main, queue, alive, link, down, clientVars>>

(* The peer hung up: recv returns 0, which listenAO does not tell from a   *)
(* message.  The loop goes on.                                             *)
ListenReceivesNothing(c) ==
    /\ alive
    /\ At(<<"listen", c>>, "recv")
    /\ up[c] = <<>>
    /\ link[c] \in {"fin", "rst"}
    /\ Encapsulate(c, <<>>)
    /\ UNCHANGED <<main, queue, alive, networkVars, clientVars>>

(* recv returns -1: the thread ends; q2, q3, the socket and the other two  *)
(* threads stay.                                                           *)
ListenFails(c) ==
    /\ alive
    /\ At(<<"listen", c>>, "recv")
    /\ link[c] = "rst"
    /\ Moves(<<"listen", c>>, "done")
    /\ UNCHANGED <<main, queue, heap, alive, networkVars, clientVars>>

ListenEnQ(c) ==
    LET t == <<"listen", c>> IN
    /\ alive
    /\ At(t, "enQ")
    /\ EnQ(SendQueue(c), thread[t].capsule)
    /\ Releases(t, "recv")
    /\ UNCHANGED <<main, heap, alive, networkVars, clientVars>>

-----------------------------------------------------------------------------
(* ao_func: after_func(before_func(deQ())) for ever                        *)

NotTaken(s) == s   \* mutant: the capsule stays on the queue

AfterTake(s) == Tail(s)

DeQ(t) ==
    /\ alive
    /\ At(t, "deQ")
    /\ queue[InputQueue(t)] # <<>>
    /\ thread' = [thread EXCEPT ![t] =
                    [at |-> "before", capsule |-> Head(queue[InputQueue(t)])]]
    /\ queue' = [queue EXCEPT ![InputQueue(t)] = AfterTake(@)]
    /\ UNCHANGED <<main, heap, alive, networkVars, clientVars>>

(* The conversion, in place.  Nobody else holds the capsule (see           *)
(* ExclusiveCapsules), so the loop over the string is one step.            *)
BeforeFunc(role, buffer) ==
    IF role = "convert" THEN convert_opposite_case_letters(buffer)
    ELSE caesar_cipher_1(buffer)

Before(t) ==
    LET id == thread[t].capsule IN
    /\ alive
    /\ At(t, "before")
    /\ heap' = [heap EXCEPT ![id[1]][id[2]].buffer = BeforeFunc(t[1], @)]
    /\ Moves(t, "after")
    /\ UNCHANGED <<main, queue, alive, networkVars, clientVars>>

(* The after function of "convert".                                        *)
insert_to_queue(t) ==
    /\ alive
    /\ t[1] = "convert"
    /\ At(t, "after")
    /\ EnQ(Held(t).q, thread[t].capsule)
    /\ Releases(t, "deQ")
    /\ UNCHANGED <<main, heap, alive, networkVars, clientVars>>

(* The after function of "cipher": the string and its NUL.                 *)
ReplyWithoutNul(buffer) == CString(buffer)   \* mutant: send(strlen(buffer))

ReplyBytes(buffer) == Append(CString(buffer), NUL)

send_message(t) ==
    /\ alive
    /\ t[1] = "cipher"
    /\ At(t, "after")
    /\ ServerSends(Held(t).socket, ReplyBytes(Held(t).buffer))
    /\ Releases(t, "deQ")
    /\ UNCHANGED <<main, queue, heap, up, clientVars>>

-----------------------------------------------------------------------------
ListenStep(c) ==
    \/ ListenReceives(c) \/ ListenReceivesNothing(c) \/ ListenFails(c)
    \/ ListenEnQ(c)

ActiveObjectStep(t) ==
    DeQ(t) \/ Before(t) \/ insert_to_queue(t) \/ send_message(t)

Next ==
    \/ StartThread
    \/ \E c \in Clients : ClientStep(c) /\ UNCHANGED serverVars
    \/ \E c \in Clients : Accept(c) \/ ListenStep(c)
    \/ \E t \in ActiveObjects : ActiveObjectStep(t)

Spec == Init /\ [][Next]_vars

(***************************************************************************)
(* Fairness: main and the server's threads keep running, and so does a     *)
(* client in recv.  Users need not type, connect or leave.                 *)
(***************************************************************************)
Fairness ==
    /\ WF_vars(StartThread)
    /\ WF_vars(\E c \in Clients : Accept(c))
    /\ \A c \in Clients : WF_vars(ListenStep(c))
    /\ \A t \in ActiveObjects : WF_vars(ActiveObjectStep(t))
    /\ \A c \in Clients :
          WF_vars((RecvReply(c) \/ RecvNothing(c)) /\ UNCHANGED serverVars)

FairSpec == Spec /\ Fairness

-----------------------------------------------------------------------------
(* Invariants and properties                                               *)

ThreadPoints == {"none", "recv", "enQ", "done", "deQ", "before", "after"}

(***************************************************************************)
(* The variables hold values of the expected shape.                        *)
(***************************************************************************)
TypeOK ==
    /\ main \in [at : Roles \cup {"accept"}, conn : Clients \cup {NoClient}]
    /\ thread \in [Threads -> [at : ThreadPoints, capsule : CapsuleId \cup {NoCapsule}]]
    /\ queue \in [Queues -> Seq(CapsuleId)]
    /\ heap \in [Clients -> Seq(Capsule)]
    /\ ClientTypeOK

(* A capsule is held by a thread or at a place of a queue.                 *)
Holds(t, id) == thread[t].capsule = id

Somewhere(id) ==
    \/ \E t \in Threads : Holds(t, id)
    \/ \E q \in Queues : \E i \in 1 .. Len(queue[q]) : queue[q][i] = id

(***************************************************************************)
(* A capsule is in one place at a time, a queue or the hands of one        *)
(* thread, so the threads convert buffers in place with no lock.           *)
(***************************************************************************)
ExclusiveCapsules ==
    /\ \A t, u \in Threads :
          Holds(t, thread[u].capsule) /\ thread[u].capsule # NoCapsule => t = u
    /\ \A p, q \in Queues : \A i \in 1 .. Len(queue[p]), j \in 1 .. Len(queue[q]) :
          queue[p][i] = queue[q][j] => p = q /\ i = j
    /\ \A t \in Threads, q \in Queues : \A i \in 1 .. Len(queue[q]) : ~Holds(t, queue[q][i])

OnTheWay(c) ==
    \/ up[c] # <<>>
    \/ down[c] # <<>>
    \/ \E id \in CapsuleId : Somewhere(id) /\ heap[id[1]][id[2]].socket = c

(***************************************************************************)
(* A client in recv is never left with nothing to wait for: while the      *)
(* server lives, its request or a reply to it is somewhere on the way.     *)
(***************************************************************************)
NobodyForgotten ==
    alive => \A c \in Clients : client[c] = "recv" => OnTheWay(c)

(***************************************************************************)
(* Why these hold: what is held or queued was allocated and holds a C      *)
(* string, a thread holds a capsule while it works on it, main starts a    *)
(* thread once, and a client that was not ended is connected.              *)
(***************************************************************************)
Working == {"enQ", "before", "after"}

Allocated(id) == id \in CapsuleId /\ id[2] <= Len(heap[id[1]])

AllocatedOnly ==
    /\ \A t \in Threads :
          IF thread[t].at \in Working THEN Allocated(thread[t].capsule)
          ELSE thread[t].capsule = NoCapsule
    /\ \A q \in Queues : \A i \in 1 .. Len(queue[q]) : Allocated(queue[q][i])

BuffersEnd ==
    \A c \in Clients : \A k \in 1 .. Len(heap[c]) :
        \E i \in 1 .. Len(heap[c][k].buffer) : heap[c][k].buffer[i] = NUL

StartedOnce ==
    /\ main.at \in Roles => main.conn \in Clients /\ thread[<<main.at, main.conn>>].at = "none"
    /\ main.at \in {"convert", "cipher"} => thread[<<"listen", main.conn>>].at # "none"
    /\ main.at = "convert" => thread[<<"cipher", main.conn>>].at = "none"
    /\ main.at = "listen" =>
          \A t \in ActiveObjects : t[2] = main.conn => thread[t].at = "none"
    /\ \A t \in ActiveObjects : thread[<<"listen", t[2]>>].at = "none" => thread[t].at = "none"

Connected == \A c \in Clients : client[c] \in {"prompt", "recv"} => link[c] = "up"

PlacesInv ==
    /\ TypeOK
    /\ ExclusiveCapsules
    /\ AllocatedOnly
    /\ BuffersEnd
    /\ StartedOnce
    /\ Connected
    /\ NobodyForgotten

-----------------------------------------------------------------------------
(* How many capsules of connection c the listen thread has put on q2, how  *)
(* many "convert" has taken from there, put on q3, and so on.              *)
InHand(t) == IF thread[t].at \in Working THEN 1 ELSE 0

Listened(c) == Len(heap[c]) - InHand(<<"listen", c>>)

TakenToConvert(c) == Listened(c) - Len(queue[<<"q2", c>>])

HandedOn(c) == TakenToConvert(c) - InHand(<<"convert", c>>)

TakenToCipher(c) == HandedOn(c) - Len(queue[<<"q3", c>>])

Answered(c) == TakenToCipher(c) - InHand(<<"cipher", c>>)

(***************************************************************************)
(* The capsules of a connection pass through the two queues and the three  *)
(* threads in the order they were made: where one is tells its number.     *)
(***************************************************************************)
InTurn(c) ==
    /\ Answered(c) \in Nat
    /\ thread[<<"listen", c>>].at \in Working =>
          Holds(<<"listen", c>>, <<c, Len(heap[c])>>)
    /\ thread[<<"convert", c>>].at \in Working =>
          Holds(<<"convert", c>>, <<c, TakenToConvert(c)>>)
    /\ thread[<<"cipher", c>>].at \in Working =>
          Holds(<<"cipher", c>>, <<c, TakenToCipher(c)>>)
    /\ \A i \in 1 .. Len(queue[<<"q2", c>>]) :
          queue[<<"q2", c>>][i] = <<c, TakenToConvert(c) + i>>
    /\ \A i \in 1 .. Len(queue[<<"q3", c>>]) :
          queue[<<"q3", c>>][i] = <<c, TakenToCipher(c) + i>>

(* Each knows the queue and the socket of its own connection.              *)
OwnCapsules(c) ==
    \A k \in 1 .. Len(heap[c]) :
        heap[c][k].q = <<"q3", c>> /\ heap[c][k].socket = c

(* Only who left of his own accord has an ended connection.                *)
Departed(c) == link[c] \in {"fin", "rst"} => c \in Leaving /\ client[c] = "gone"

(* A reply ends at its NUL.                                                *)
Nuls(bytes) == {i \in 1 .. Len(bytes) : bytes[i] = NUL}

RepliesRead(c) == Cardinality(Nuls(Seqs!FlattenSeq(got[c])))

(***************************************************************************)
(* The server dies only of a client that left without reading a reply to   *)
(* every capsule its connection made, the ones made of the end of its      *)
(* stream included.                                                        *)
(***************************************************************************)
DiesOfDeparture ==
    ~alive =>
        \E c \in Leaving :
            /\ client[c] = "gone" /\ link[c] = "rst"
            /\ Len(heap[c]) > RepliesRead(c)

Orderly(c) ==
    /\ InTurn(c) /\ OwnCapsules(c) /\ Departed(c)
    /\ Cardinality(Nuls(Stream(c))) <= Answered(c)

OrderInv == (\A c \in Clients : Orderly(c)) /\ DiesOfDeparture

-----------------------------------------------------------------------------
(* What becomes of a capsule's string: it is converted once, then ciphered *)
(* once, so what it will be sent as never changes.                         *)
ConvertedUpTo(c) ==
    TakenToConvert(c) - (IF At(<<"convert", c>>, "before") THEN 1 ELSE 0)

CipheredUpTo(c) ==
    TakenToCipher(c) - (IF At(<<"cipher", c>>, "before") THEN 1 ELSE 0)

Reply(c, k) ==
    LET text == CString(heap[c][k].buffer) IN
    IF k <= CipheredUpTo(c) THEN text
    ELSE IF k <= ConvertedUpTo(c) THEN [i \in 1 .. Len(text) |-> Caesar(text[i])]
    ELSE Answer(text)

Replies(c) == [k \in 1 .. Len(heap[c]) |-> Reply(c, k)]

(* The part of a reply that comes from the received bytes; what is longer  *)
(* was in the buffer's memory before.                                      *)
CutTo(text, n) == SubSeq(text, 1, IF Len(text) < n THEN Len(text) ELSE n)

OwnPart(c, k) == CutTo(Reply(c, k), heap[c][k].received)

OwnReplies(c) == [k \in 1 .. Len(heap[c]) |-> OwnPart(c, k)]

NothingOfMemory(c) == \A k \in 1 .. Len(heap[c]) : OwnPart(c, k) = Reply(c, k)

(***************************************************************************)
(* However TCP splits and joins the bytes and the threads interleave, the  *)
(* letters a client gets are those of the replies to its connection's      *)
(* capsules, in their order, and what the replies owe to the client's      *)
(* texts are their letters, converted and ciphered, each at most once and  *)
(* in order.  Letters may be lost: those that recv returns after a NUL.    *)
(* And letters nobody typed may be sent: where a text is split, strlen     *)
(* goes on into memory nobody wrote.  If none of a connection's capsules   *)
(* met a letter or other byte there, the client gets its own letters only. *)
(***************************************************************************)
LettersInOrder ==
    \A c \in Clients :
        /\ LettersWithin(Stream(c),
                         Seqs!FlattenSeq(SubSeq(Replies(c), 1, Answered(c))))
        /\ LettersWithin(Seqs!FlattenSeq(OwnReplies(c)),
                         Answer(Seqs!FlattenSeq(sent[c])))
        /\ NothingOfMemory(c) =>
              LettersWithin(Stream(c), Answer(Seqs!FlattenSeq(sent[c])))

LettersInv ==
    \A c \in Clients :
        /\ LettersWithin(Seqs!FlattenSeq(OwnReplies(c)) \o Answer(up[c]),
                         Answer(Seqs!FlattenSeq(sent[c])))
        /\ LettersWithin(Stream(c),
                         Seqs!FlattenSeq(SubSeq(Replies(c), 1, Answered(c))))

-----------------------------------------------------------------------------
(* Every text and its NUL fit the buffers at both ends, and TCP does not   *)
(* split them.                                                             *)
MessagesWhole ==
    /\ Whole
    /\ \A c \in Clients : \A text \in Texts[c] :
          Len(text) < BufferSize /\ Len(text) < ReplyLimit

(* Then a request is in one place: on its way, in the one capsule that is  *)
(* being worked on, or, as its answer, on the way back.                    *)
LastSent(c) == sent[c][Len(sent[c])]

OneRequest(c) ==
    LET sending == TextWithNul(LastSent(c))
        reply == Append(Answer(LastSent(c)), NUL)
    IN  IF client[c] # "recv"
        THEN /\ Len(sent[c]) = Len(got[c]) /\ down[c] = <<>>
             /\ alive => up[c] = <<>> /\ Answered(c) = Len(heap[c])
        ELSE /\ Len(sent[c]) = Len(got[c]) + 1 /\ LastSent(c) \in Texts[c]
             /\ down[c] \in {<<>>, reply}
             /\ alive =>
                   \/ /\ up[c] = sending /\ down[c] = <<>>
                      /\ Answered(c) = Len(heap[c])
                   \/ /\ up[c] = <<>> /\ down[c] = <<>>
                      /\ Answered(c) + 1 = Len(heap[c])
                      /\ Reply(c, Len(heap[c])) = Answer(LastSent(c))
                   \/ /\ up[c] = <<>> /\ down[c] = reply
                      /\ Answered(c) = Len(heap[c])

RequestInv ==
    MessagesWhole => \A c \in Clients : client[c] # "gone" => OneRequest(c)

IInv == PlacesInv /\ OrderInv /\ LettersInv /\ RequestInv

Echo == INSTANCE EchoService
            WITH requests <- sent,
                 replies <- [c \in Clients |->
                               [i \in 1 .. Len(got[c]) |-> Printed(got[c][i])]],
                 gone <- {c \in Clients : client[c] = "gone"}

(***************************************************************************)
(* While messages arrive whole, the three threads, their queues and the    *)
(* sockets amount to EchoService, also when clients leave and SIGPIPE ends *)
(* the server.                                                             *)
(***************************************************************************)
ImplementsEcho == Echo!Spec

(***************************************************************************)
(* And whoever waits is answered or gives up.                              *)
(***************************************************************************)
ImplementsFairEcho == Echo!FairSpec

-----------------------------------------------------------------------------
(* What the repository says and the code does not do.                      *)

(***************************************************************************)
(* Readme.md has any number of clients run beside each other: none should  *)
(* lose the server because another one is ended.                           *)
(***************************************************************************)
ServerOutlivesClients == \A c \in Clients : client[c] = "recv" => alive

(***************************************************************************)
(* selectclient.cpp sizes what it can get at once to 1024 bytes, a reply   *)
(* of that size included: nothing of a reply is left for the next recv.    *)
(***************************************************************************)
ReplyGotAtOnce == \A c \in Clients : client[c] = "prompt" => down[c] = <<>>
=============================================================================
