----------------------------- MODULE TypedQueue -----------------------------
(***************************************************************************)
(* What a Message promises its users: a first-in first-out queue of typed  *)
(* values with room for Capacity bytes in all, ever.  A value that does    *)
(* not fit is refused and changes nothing; taking a value of another type, *)
(* or from an empty queue, kills the process.                              *)
(***************************************************************************)
EXTENDS Integers, Sequences

CONSTANTS
    Capacity,    \* bytes the queue has room for
    Item,        \* the typed values, records with a kind
    Kinds,       \* the types
    SizeOf(_)    \* bytes a value takes

VARIABLES
    queue,    \* the values put and not yet taken
    taken,    \* the values taken, in order
    used,     \* bytes taken by all the values put
    refused,  \* the value just refused, if the last call refused one
    killed,   \* the type whose reader killed the process
    over      \* a full queue was read past its end: nothing is promised any more

vars == <<queue, taken, used, refused, killed, over>>

Init ==
    /\ queue = <<>>
    /\ taken = <<>>
    /\ used = 0
    /\ refused = {}
    /\ killed = {}
    /\ over = FALSE

Put(it) ==
    /\ killed = {}
    /\ used + SizeOf(it) <= Capacity
    /\ queue' = Append(queue, it)
    /\ used' = used + SizeOf(it)
    /\ refused' = {}
    /\ UNCHANGED <<taken, killed, over>>

Refuse(it) ==
    /\ killed = {}
    /\ used + SizeOf(it) > Capacity
    /\ refused' = {it}
    /\ UNCHANGED <<queue, taken, used, killed, over>>

Take ==
    /\ killed = {}
    /\ queue # <<>>
    /\ taken' = Append(taken, Head(queue))
    /\ queue' = Tail(queue)
    /\ refused' = {}
    /\ UNCHANGED <<used, killed, over>>

Misuse(k) ==
    /\ killed = {}
    /\ queue # <<>> => Head(queue).kind # k
    /\ killed' = {k}
    /\ refused' = {}
    /\ UNCHANGED <<queue, taken, used, over>>

\* A call that neither puts nor takes.
Other ==
    /\ refused' = {}
    /\ UNCHANGED <<queue, taken, used, killed, over>>

\* A queue filled to its last byte has no end mark: a read past its end finds
\* whatever lies there.
Overrun ==
    /\ over \/ (queue = <<>> /\ used = Capacity)
    /\ over'

Next ==
    \/ \E it \in Item : Put(it) \/ Refuse(it)
    \/ Take
    \/ \E k \in Kinds : Misuse(k)
    \/ Other
    \/ Overrun

Spec == Init /\ [][Next]_vars
=============================================================================
