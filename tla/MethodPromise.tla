--------------------------- MODULE MethodPromise ---------------------------
(***************************************************************************)
(* What APT relies on when it hands requests to a method: each is answered *)
(* once, in the order in which they were sent.  The fetch scheduler of     *)
(* module Acquire is written against this promise (its meth is a sequence  *)
(* of which only the head is answered); AcqMethod shows that the message   *)
(* engine of acquire-method.cc keeps it, whatever the pipe does to the     *)
(* grouping of the messages and however often it asks for media or for a   *)
(* password in between.                                                    *)
(***************************************************************************)
EXTENDS Naturals, Sequences

CONSTANTS Requests,
          Firsts     \* what may be sent to a method as soon as it runs

VARIABLES listening, \* APT wants the answers
          waiting,   \* requests sent and not answered
          answered   \* requests answered, in order

vars == <<listening, waiting, answered>>

Init == listening = TRUE /\ waiting \in Firsts /\ answered = << >>

\* A request is sent once: it is in neither sequence yet.
Send == \E r \in Requests :
          /\ listening
          /\ \A n \in DOMAIN waiting : waiting[n] # r
          /\ \A n \in DOMAIN answered : answered[n] # r
          /\ waiting' = Append(waiting, r)
          /\ UNCHANGED <<listening, answered>>

Answer ==
    /\ waiting # << >>
    /\ answered' = Append(answered, Head(waiting))
    /\ waiting' = Tail(waiting)
    /\ UNCHANGED listening

\* APT loses interest: what it has not written yet is never sent.
Leave ==
    /\ listening
    /\ listening' = FALSE
    /\ \E n \in 0..Len(waiting) : waiting' = SubSeq(waiting, 1, n)
    /\ UNCHANGED answered

Next == Send \/ Answer \/ Leave
Spec == Init /\ [][Next]_vars
=============================================================================
