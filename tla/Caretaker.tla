----------------------------- MODULE Caretaker -----------------------------
(***************************************************************************)
(* What the wrappers promise to whoever calls through them: to the caller  *)
(* a wrapper is the object behind it.  A call names objects, not wrappers; *)
(* the object gets the very objects that the caller passed, and the caller *)
(* the very answer.  Calls that the wrapper does not permit never reach    *)
(* the object, and once a membrane is revoked no further call through it   *)
(* does, and no answer comes back.                                         *)
(***************************************************************************)
EXTENDS Sequences

CONSTANTS
    Obj,            \* the objects
    Nil,            \* no object
    Error           \* the outcome of a call that failed

Value == Obj \cup {Nil, Error}

VARIABLES
    calls,          \* every call made: to, arg, guarded, permitted, late, stage, answer
    revoked         \* the membrane's switch

vars == <<calls, revoked>>

Init == calls = <<>> /\ revoked = FALSE

\* A call is late when it was made after the membrane was revoked.
Ask ==
    /\ \E to \in Obj, arg \in Obj \cup {Nil}, guarded, permitted \in BOOLEAN :
           calls' = Append(calls,
               [to |-> to, arg |-> arg, guarded |-> guarded, permitted |-> permitted,
                late |-> guarded /\ revoked, stage |-> "asked", answer |-> Nil])
    /\ UNCHANGED revoked

Settle(i, answer) ==
    calls' = [calls EXCEPT ![i].stage = "settled", ![i].answer = answer]

\* The wrapper refuses: the membrane is revoked, or the method is not allowed.
Refuse(i) ==
    /\ calls[i].stage = "asked"
    /\ ~calls[i].permitted \/ (calls[i].guarded /\ revoked)
    /\ Settle(i, Error)
    /\ UNCHANGED revoked

\* The object handles the call.
Serve(i) ==
    /\ calls[i].stage = "asked" /\ calls[i].permitted /\ ~calls[i].late
    /\ \E answer \in Value :
           calls' = [calls EXCEPT ![i].stage = "served", ![i].answer = answer]
    /\ UNCHANGED revoked

\* The caller gets the answer, or the error of a membrane revoked meanwhile.
Return(i) ==
    /\ calls[i].stage = "served"
    /\ IF calls[i].guarded /\ revoked
       THEN Settle(i, Error)
       ELSE Settle(i, calls[i].answer)
    /\ UNCHANGED revoked

Revoke == revoked' = TRUE /\ UNCHANGED calls

Next ==
    \/ Ask \/ Revoke
    \/ \E i \in DOMAIN calls : Refuse(i) \/ Serve(i) \/ Return(i)

Spec == Init /\ [][Next]_vars
=============================================================================
