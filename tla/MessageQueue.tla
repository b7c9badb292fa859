---------------------------- MODULE MessageQueue ----------------------------
(* A Message is a TypedQueue for the values its format carries faithfully.  *)
EXTENDS Message

ASSUME FaithfulAssumption ==
    \A k \in Kinds : \A v \in Values[k] :
        /\ Faithful([kind |-> k, val |-> v])
        /\ k = "time" => ~NoDate(v)

\* Every value that some put method may be given, as an item.
Puttable == UNION {{[kind |-> k, val |-> v] : v \in Values[k]} : k \in Kinds}

Queue == INSTANCE TypedQueue WITH
    Capacity <- MAX_MSG_DATA - HEADER_SIZE,
    Item <- Puttable,
    SizeOf <- Size,
    queue <- [n \in 1..(Len(data) - Len(reads)) |-> data[Len(reads) + n].item],
    taken <- reads,
    used <- data_length - HEADER_SIZE,
    killed <- aborted,
    over <- offset > MAX_MSG_DATA

\* Put, get, reread the length and print in any order: with values the format
\* carries faithfully the message is the queue, each get method takes exactly the
\* next value, and only reading a message filled to its last byte past its end
\* breaks the promise.
ImplementsQueue == Queue!Spec
=============================================================================
