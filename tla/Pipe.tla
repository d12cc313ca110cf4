-------------------------------- MODULE Pipe --------------------------------
(***************************************************************************)
(* What a transport promises the two registries it joins: the frames of an *)
(* end arrive once each, in order, and none is lost until the transport    *)
(* closes; closing loses the newest frames on their way, never an older    *)
(* one before a newer one, and afterwards nothing more is sent.  Frames    *)
(* are their ordinals.                                                     *)
(***************************************************************************)
EXTENDS Naturals, Sequences

CONSTANT Sender

VARIABLES
    queue,      \* queue[e]: frames of e on their way, oldest first
    got,        \* got[e]: how many frames of e have arrived
    open

Init == /\ queue = [e \in Sender |-> <<>>]
        /\ got = [e \in Sender |-> 0]
        /\ open = TRUE

\* Any number of frames arrive, from the front, and any number are sent.
Pass(e) ==
    LET arrived == got'[e] - got[e]
        left == Len(queue[e]) - arrived
    IN  /\ arrived \in 0 .. Len(queue[e])
        /\ Len(queue'[e]) >= left
        /\ \A i \in DOMAIN queue'[e] : queue'[e][i] = got'[e] + i
        /\ ~open => Len(queue'[e]) = left

Close ==
    /\ open /\ ~open'
    /\ got' = got
    /\ \A e \in Sender : /\ Len(queue'[e]) <= Len(queue[e])
                         /\ queue'[e] = SubSeq(queue[e], 1, Len(queue'[e]))

Next == \/ open' = open /\ \A e \in Sender : Pass(e)
        \/ Close

Spec == Init /\ [][Next]_<<queue, got, open>>
=============================================================================
