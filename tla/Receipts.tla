------------------------------ MODULE Receipts ------------------------------
(***************************************************************************)
(* What a Receipt promises its caller (embedded_gpui.rs, Receipt): a call  *)
(* is queued once, starts at most once, is answered at most once, and its  *)
(* receipt settles once, after the call was answered.  No call goes back,  *)
(* and none is lost: it stays where it is until it advances.               *)
(***************************************************************************)
CONSTANTS Caller, Request

VARIABLE stage      \* stage[c][r]: how far request r of caller c has come

Advance == {<<"idle", "queued">>, <<"queued", "running">>,
            <<"queued", "answered">>, <<"running", "answered">>,
            <<"answered", "settled">>}

Init == stage = [c \in Caller |-> [r \in Request |-> "idle"]]

\* Some requests advance by one stage, the others stay.
Next ==
    \A c \in Caller : \A r \in Request :
        \/ stage'[c][r] = stage[c][r]
        \/ <<stage[c][r], stage'[c][r]>> \in Advance

Spec == Init /\ [][Next]_stage
=============================================================================
