----------------------------- MODULE EchoService -----------------------------
(***************************************************************************)
(* What the active-object server promises a client: the k-th reply is the  *)
(* answer to the k-th request, and a request is answered before the next   *)
(* is made.  A client may leave, and the service may break down, but only  *)
(* because one did; then what was on its way still arrives and the rest is *)
(* silence.  No thread, queue, capsule or byte stream appears here.        *)
(* Module AOServer implements this specification while messages arrive     *)
(* whole.                                                                  *)
(***************************************************************************)
EXTENDS Ciphers

CONSTANTS
    Clients,       \* the clients
    Texts,         \* Texts[c]: what client c's user may type
    Leaving,       \* the clients that may leave of their own accord
    MaxRequests    \* bound: how many requests a client makes

VARIABLES
    requests,   \* requests[c]: the texts client c has sent
    replies,    \* replies[c]: the texts it was answered
    gone,       \* the clients that have left
    alive       \* FALSE once the service has broken down

vars == <<requests, replies, gone, alive>>

Init ==
    /\ requests = [c \in Clients |-> <<>>]
    /\ replies = [c \in Clients |-> <<>>]
    /\ gone = {}
    /\ alive = TRUE

Waiting(c) == c \notin gone /\ Len(replies[c]) < Len(requests[c])

Request(c) ==
    /\ c \notin gone
    /\ Len(requests[c]) < MaxRequests
    /\ Len(replies[c]) = Len(requests[c])
    /\ \E text \in Texts[c] : requests' = [requests EXCEPT ![c] = Append(@, text)]
    /\ UNCHANGED <<replies, gone, alive>>

Reply(c) ==
    /\ Waiting(c)
    /\ replies' = [replies EXCEPT ![c] =
                     Append(@, Answer(requests[c][Len(replies[c]) + 1]))]
    /\ UNCHANGED <<requests, gone, alive>>

Silence(c) ==
    /\ Waiting(c)
    /\ ~alive
    /\ replies' = [replies EXCEPT ![c] = Append(@, <<>>)]
    /\ UNCHANGED <<requests, gone, alive>>

Leave(c) ==
    /\ c \in Leaving \/ ~alive
    /\ gone' = gone \cup {c}
    /\ UNCHANGED <<requests, replies, alive>>

BreakDown ==
    /\ gone # {}
    /\ alive' = FALSE
    /\ UNCHANGED <<requests, replies, gone>>

Next ==
    \/ \E c \in Clients : Request(c) \/ Reply(c) \/ Silence(c) \/ Leave(c)
    \/ BreakDown

Spec == Init /\ [][Next]_vars

(* Whoever waits is answered, or is told by silence, or leaves.            *)
FairSpec ==
    /\ Spec
    /\ \A c \in Clients :
          WF_vars(Waiting(c) /\ (Reply(c) \/ Silence(c) \/ Leave(c)))
=============================================================================
