------------------------------- MODULE ChatRoom -------------------------------
(***************************************************************************)
(* What selectserver promises its clients: a room in which everything said *)
(* reaches everyone present, the speaker included, in one order for all.   *)
(* A member hears what was said since it joined, until it leaves; what it  *)
(* said last may be heard after that.  The room closes early only because  *)
(* somebody left.  No file descriptor, fd set or loop appears here.        *)
(* Module SelectServer implements this specification.                      *)
(***************************************************************************)
EXTENDS Naturals, Sequences

CONSTANT Clients   \* who may join

VARIABLES
    members,    \* who is in the room
    left,       \* who has left
    log,        \* everything said, and by whom, in the room's one order
    cursor,     \* cursor[c]: how much of the log member c has heard or missed
    stream      \* stream[c]: the bytes c has heard

vars == <<members, left, log, cursor, stream>>

Init ==
    /\ members = {}
    /\ left = {}
    /\ log = <<>>
    /\ cursor = [c \in Clients |-> 0]
    /\ stream = [c \in Clients |-> <<>>]

Join(c) ==
    /\ c \notin members \cup left
    /\ members' = members \cup {c}
    /\ cursor' = [cursor EXCEPT ![c] = Len(log)]
    /\ UNCHANGED <<left, log, stream>>

(* What c says is whatever it likes, but something.                        *)
Say(c) ==
    /\ c \in members \cup left
    /\ Len(log') = Len(log) + 1
    /\ SubSeq(log', 1, Len(log)) = log
    /\ log'[Len(log')].from = c
    /\ log'[Len(log')].bytes # <<>>
    /\ UNCHANGED <<members, left, cursor, stream>>

Hear(c) ==
    /\ c \in members
    /\ cursor[c] < Len(log)
    /\ cursor' = [cursor EXCEPT ![c] = @ + 1]
    /\ stream' = [stream EXCEPT ![c] = @ \o log[cursor[c] + 1].bytes]
    /\ UNCHANGED <<members, left, log>>

(* The end of what c heard may never reach it.                             *)
Leave(c) ==
    /\ c \notin left
    /\ left' = left \cup {c}
    /\ members' = members \ {c}
    /\ cursor' = [cursor EXCEPT ![c] = 0]
    /\ \E n \in 0 .. Len(stream[c]) :
          stream' = [stream EXCEPT ![c] = SubSeq(@, 1, n)]
    /\ UNCHANGED log

Close ==
    /\ left # {}
    /\ members' = {}
    /\ cursor' = [c \in Clients |-> 0]
    /\ UNCHANGED <<left, log, stream>>

Next ==
    \/ \E c \in Clients : Join(c) \/ Say(c) \/ Hear(c) \/ Leave(c)
    \/ Close

Spec == Init /\ [][Next]_vars

FairSpec == Spec /\ \A c \in Clients : WF_vars(Hear(c))
=============================================================================
