------------------------------ MODULE BytePipe ------------------------------
(***************************************************************************)
(* What a connection promises the callers of Writen and Readn: a first-in  *)
(* first-out pipe of bytes, numbered in the order they were given to it.   *)
(* A receiver gets as many bytes as it asked for or, when the sender has   *)
(* closed, all the rest, and then knows that it is at the end.  Only a     *)
(* call that fails loses any: the sender's those it had not yet sent, the  *)
(* receiver's those next in line.                                          *)
(***************************************************************************)
EXTENDS Integers, Sequences

CONSTANT Sizes   \* how many bytes a receiver may ask for

VARIABLES
    given,    \* how many bytes were given to the pipe
    sent,     \* how many of them the sender has sent or given up
    pipe,     \* the bytes sent and neither received nor lost
    received, \* the bytes received, in order
    closed,   \* the sender has closed
    ended,    \* the last to receive was told that this is the end
    failed    \* who was told of a failure: "writer", "reader"

vars == <<given, sent, pipe, received, closed, ended, failed>>

Init ==
    /\ given = 0
    /\ sent = 0
    /\ pipe = <<>>
    /\ received = <<>>
    /\ closed = FALSE
    /\ ended = FALSE
    /\ failed = {}

Give(n) ==
    /\ ~closed /\ sent = given
    /\ given' = given + n
    /\ UNCHANGED <<sent, pipe, received, closed, ended, failed>>

Send(k) ==
    /\ ~closed /\ sent + k <= given
    /\ pipe' = pipe \o [i \in 1..k |-> sent + i]
    /\ sent' = sent + k
    /\ UNCHANGED <<given, received, closed, ended, failed>>

\* The sender is told that it failed, or dies, which closes its end.
GiveUp ==
    /\ sent < given
    /\ sent' = given
    /\ \/ failed' = failed \cup {"writer"} /\ closed' = closed
       \/ failed' = failed /\ closed' = TRUE
    /\ UNCHANGED <<given, pipe, received, ended>>

Receive(n) ==
    /\ n <= Len(pipe)
    /\ received' = received \o SubSeq(pipe, 1, n)
    /\ pipe' = SubSeq(pipe, n + 1, Len(pipe))
    /\ ended' = FALSE
    /\ UNCHANGED <<given, sent, closed, failed>>

ReceiveRest(n) ==
    /\ closed /\ Len(pipe) < n
    /\ received' = received \o pipe
    /\ pipe' = <<>>
    /\ ended' = TRUE
    /\ UNCHANGED <<given, sent, closed, failed>>

\* The receiver is told that it failed.
Lose(k) ==
    /\ k <= Len(pipe)
    /\ pipe' = SubSeq(pipe, k + 1, Len(pipe))
    /\ failed' = failed \cup {"reader"}
    /\ UNCHANGED <<given, sent, received, closed, ended>>

Close ==
    /\ sent = given
    /\ closed' = TRUE
    /\ UNCHANGED <<given, sent, pipe, received, ended, failed>>

Next ==
    \/ \E n \in Sizes : Give(n) \/ Receive(n) \/ ReceiveRest(n)
    \/ \E k \in 1..(given - sent) : Send(k)
    \/ \E k \in 0..Len(pipe) : Lose(k)
    \/ GiveUp \/ Close

Spec == Init /\ [][Next]_vars
=============================================================================
