----------------------------- MODULE SelectClient -----------------------------
(***************************************************************************)
(* The clients (selectclient.cpp, which both servers are used with) and    *)
(* the connections between them and a server.  A send or recv on a socket  *)
(* is one step; recv may return any non-empty prefix of what is in flight, *)
(* unless Whole.  A server module extends this one and says, of every      *)
(* action here, that it leaves the server's own variables unchanged.       *)
(***************************************************************************)
EXTENDS Ciphers

CONSTANTS
    Clients,        \* the clients, each with one connection
    Texts,          \* Texts[c]: what client c's user may type
    Leaving,        \* the clients whose process may be ended
    Whole,          \* TRUE: TCP never splits what is in flight
    ClientBuffer,   \* BUFFERSIZE of selectclient.cpp: 1024
    MaxRequests     \* bound: how many texts a client sends

ASSUME SelectClientAssumption ==
    /\ Texts \in [Clients -> SUBSET Seq(Byte \ {NUL})]
    /\ Leaving \subseteq Clients
    /\ Whole \in BOOLEAN
    /\ ClientBuffer \in Nat /\ ClientBuffer > 1
    /\ MaxRequests \in Nat

VARIABLES
    alive,    \* FALSE once SIGPIPE has killed the server
    link,     \* link[c]: the state of c's connection
    up,       \* up[c]: bytes in flight to the server
    down,     \* down[c]: bytes in flight to the client
    client,   \* client[c]: the point c's client is at
    sent,     \* history: sent[c], the texts the client sent
    got       \* history: got[c], what each recv of the client returned

networkVars == <<link, up, down>>
clientVars == <<client, sent, got>>

ClientInit ==
    /\ alive = TRUE
    /\ link = [c \in Clients |-> "none"]
    /\ up = [c \in Clients |-> <<>>]
    /\ down = [c \in Clients |-> <<>>]
    /\ client = [c \in Clients |-> "off"]
    /\ sent = [c \in Clients |-> <<>>]
    /\ got = [c \in Clients |-> <<>>]

(* "closed": the server has closed its end too.                            *)
ClientTypeOK ==
    /\ alive \in BOOLEAN
    /\ link \in [Clients -> {"none", "up", "fin", "rst", "closed"}]
    /\ up \in [Clients -> Seq(Byte)]
    /\ down \in [Clients -> Seq(Byte)]
    /\ client \in [Clients -> {"off", "prompt", "recv", "gone"}]
    /\ sent \in [Clients -> Seq(Seq(Byte))]
    /\ got \in [Clients -> Seq(Seq(Byte))]

(* A client that has not been started has no connection.                   *)
OffUnconnected == \A c \in Clients : client[c] = "off" => link[c] = "none"

(* recv(fd, buffer, size) on a socket with these bytes in flight returns   *)
(* the first n of them for some n in Received(bytes, size).                *)
Smaller(a, b) == IF a <= b THEN a ELSE b

Received(bytes, size) ==
    IF Whole THEN {Smaller(Len(bytes), size)}
    ELSE 1 .. Smaller(Len(bytes), size)

First(bytes, n) == SubSeq(bytes, 1, n)
AllBut(bytes, n) == SubSeq(bytes, n + 1, Len(bytes))

-----------------------------------------------------------------------------
Connect(c) ==
    /\ client[c] = "off"
    /\ alive
    /\ client' = [client EXCEPT ![c] = "prompt"]
    /\ link' = [link EXCEPT ![c] = "up"]
    /\ UNCHANGED <<alive, up, down, sent, got>>

(* get_input, then send of the text and its NUL.                            *)
TextWithNul(text) == Append(text, NUL)

SendRequest(c) ==
    /\ client[c] = "prompt"
    /\ Len(sent[c]) < MaxRequests
    /\ \E text \in Texts[c] :
          /\ sent' = [sent EXCEPT ![c] = Append(@, text)]
          /\ up' = IF alive THEN [up EXCEPT ![c] = @ \o TextWithNul(text)] ELSE up
    /\ client' = [client EXCEPT ![c] = "recv"]
    /\ UNCHANGED <<alive, link, down, got>>

(* A dead server's socket takes one more send, or refuses it: the client   *)
(* leaves its loop, closes and exits.                                      *)
SendFails(c) ==
    /\ client[c] = "prompt"
    /\ ~alive
    /\ client' = [client EXCEPT ![c] = "gone"]
    /\ UNCHANGED <<alive, networkVars, sent, got>>

ClientReceives(c, n) ==
    /\ got' = [got EXCEPT ![c] = Append(@, First(down[c], n))]
    /\ down' = [down EXCEPT ![c] = AllBut(@, n)]
    /\ client' = [client EXCEPT ![c] = "prompt"]
    /\ UNCHANGED <<alive, link, up, sent>>

(* recv(sockfd, buf, BUFFERSIZE - 1): the last byte is kept for a NUL.     *)
ReplyLimit == ClientBuffer - 1

RecvReply(c) ==
    /\ client[c] = "recv"
    /\ down[c] # <<>>
    /\ \E n \in Received(down[c], ReplyLimit) : ClientReceives(c, n)

(* The server is dead: recv returns 0, which the client takes for a reply, *)
(* or -1, upon which it closes and exits.                                  *)
RecvNothing(c) ==
    /\ client[c] = "recv"
    /\ down[c] = <<>>
    /\ ~alive
    /\ \/ ClientReceives(c, 0)
       \/ /\ client' = [client EXCEPT ![c] = "gone"]
          /\ UNCHANGED <<alive, networkVars, sent, got>>

(* The user ends the client.  Its kernel sends a FIN, or an RST if bytes   *)
(* of the server were never read.                                          *)
HangUp(c) ==
    /\ c \in Leaving
    /\ client[c] \in {"prompt", "recv"}
    /\ client' = [client EXCEPT ![c] = "gone"]
    /\ link' = [link EXCEPT ![c] = IF down[c] = <<>> THEN "fin" ELSE "rst"]
    /\ down' = [down EXCEPT ![c] = <<>>]
    /\ UNCHANGED <<alive, up, sent, got>>

ClientStep(c) ==
    \/ Connect(c) \/ SendRequest(c) \/ SendFails(c)
    \/ RecvReply(c) \/ RecvNothing(c) \/ HangUp(c)

-----------------------------------------------------------------------------
(* The server's sends to client c.  A send to a peer that has left may be  *)
(* answered by an RST; one after an RST returns -1, or raises SIGPIPE,     *)
(* which neither server handles.                                           *)
ServerSends(c, bytes) ==
    \/ /\ link[c] = "up"
       /\ down' = [down EXCEPT ![c] = @ \o bytes]
       /\ UNCHANGED <<alive, link>>
    \/ /\ link[c] = "fin"
       /\ \E next \in {"fin", "rst"} : link' = [link EXCEPT ![c] = next]
       /\ UNCHANGED <<alive, down>>
    \/ /\ link[c] = "rst"
       /\ alive' \in BOOLEAN
       /\ UNCHANGED <<link, down>>

-----------------------------------------------------------------------------
Seqs == INSTANCE SequencesExt

(* Every byte the server sent to c, less what was lost when c left.        *)
Stream(c) == Seqs!FlattenSeq(got[c]) \o down[c]

(* The client prints what it received as a C string.                       *)
Printed(chunk) == CString(Append(chunk, NUL))

(* The letters of s are letters of t, each at most once and in order.      *)
LetterAt(bytes) == {i \in 1 .. Len(bytes) : bytes[i] \in Letter}

LettersWithin(s, t) ==
    \E f \in [LetterAt(s) -> LetterAt(t)] :
        /\ \A i \in LetterAt(s) : s[i] = t[f[i]]
        /\ \A i, j \in LetterAt(s) : i < j => f[i] < f[j]

(***************************************************************************)
(* recv of a client returns, whatever the other clients do: with bytes of  *)
(* the server, or because the server is dead.                              *)
(***************************************************************************)
EveryRecvReturns ==
    \A c \in Clients : client[c] = "recv" ~> client[c] # "recv"
=============================================================================
