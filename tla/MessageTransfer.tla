-------------------------- MODULE MessageTransfer --------------------------
(***************************************************************************)
(* Connection::WriteMessage in one process and Connection::ReadMessage in  *)
(* another, over a stream socket (src/src/Connection.cpp).                 *)
(*                                                                         *)
(* Both point their cursor at the Message object itself, not its data, so  *)
(* what travels is the object's own memory and what arrives overwrites the *)
(* reader's object, its pointer to the data first.  The bytes therefore    *)
(* carry no content here: the model keeps how many there are, and the      *)
(* arithmetic on size_t that decides what ReadMessage asks for next.       *)
(***************************************************************************)
EXTENDS Integers, Sequences, FiniteSetsExt

CONSTANTS
    Lengths,     \* getMessageLength() of the messages written
    Sizes,       \* the nbytes that callers of ReadMessage ask for
    LengthKnown, \* sizeof(MessageHeader) + 2: the bytes after which the length is read
    SIZE_MAX,    \* the largest size_t; read() refuses a count above half of it
    MaxMessages, \* bound on the messages written
    MaxReads     \* bound on the calls of ReadMessage

ASSUME TransferAssumption ==
    /\ Lengths \subseteq Nat \ {0}
    /\ Sizes \subseteq Nat
    /\ LengthKnown \in Nat \ {0}
    /\ SIZE_MAX \in Nat /\ \A n \in Sizes : n <= SIZE_MAX \div 2
    /\ {MaxMessages, MaxReads} \subseteq Nat

VARIABLES
    backlog, \* how many bytes the kernel holds
    closed,  \* the writer closed its end
    wleft,   \* nleft of a running WriteMessage, or 0
    written, \* history: the lengths of the messages WriteMessage was called with
    reader,  \* the running ReadMessage, or how the last one ended
    reads    \* history: how many times ReadMessage was called

vars == <<backlog, closed, wleft, written, reader, reads>>

Idle == [pc |-> "idle", nbytes |-> 0, nleft |-> 0, stored |-> 0, msgsize |-> 0]
Reading == reader.pc = "reading"
SSIZE_MAX == SIZE_MAX \div 2

Init ==
    /\ backlog = 0
    /\ closed = FALSE
    /\ wleft = 0
    /\ written = <<>>
    /\ reader = Idle
    /\ reads = 0

----------------------------------------------------------------------------
(* WriteMessage.                                                           *)

WriteMessage ==
    /\ wleft = 0 /\ ~closed
    /\ Len(written) < MaxMessages
    /\ \E length \in Lengths :
         /\ wleft' = length
         /\ written' = Append(written, length)
    /\ UNCHANGED <<backlog, closed, reader, reads>>

\* The last write() of a message ends the loop, and the call returns its length.
WriteSome ==
    /\ \E k \in 1..wleft :
         /\ backlog' = backlog + k
         /\ wleft' = wleft - k
    /\ UNCHANGED <<closed, written, reader, reads>>

\* write() fails with anything but EINTR: -1, with part of the message sent.
WriteFails ==
    /\ wleft > 0
    /\ wleft' = 0
    /\ UNCHANGED <<backlog, closed, written, reader, reads>>

CloseWriter ==
    /\ wleft = 0
    /\ closed' = TRUE
    /\ UNCHANGED <<backlog, wleft, written, reader, reads>>

----------------------------------------------------------------------------
(* ReadMessage.                                                            *)

ReadMessage ==
    /\ reader.pc \notin {"reading", "killed"}
    /\ reads < MaxReads
    /\ \E n \in Sizes : reader' = [Idle EXCEPT !.pc = "reading", !.nbytes = n, !.nleft = n]
    /\ reads' = reads + 1
    /\ UNCHANGED <<backlog, closed, wleft, written>>

\* A plausible slip (used by no action): a signed count of what is left.
SignedMinus(a, b) == a - b

\* Subtraction of two size_t: below zero it begins again at the largest.
Minus(a, b) == IF a < b THEN a - b + SIZE_MAX + 1 ELSE a - b

\* A plausible slip (used by no action): the length field's two bytes forgotten.
HeaderIsEnough(r, left) == r.msgsize = 0 /\ Minus(r.nbytes, left) >= LengthKnown - 2

\* "We do not know it yet and have read in enough bytes to obtain it."
Enough(r, left) == r.msgsize = 0 /\ Minus(r.nbytes, left) >= LengthKnown

\* A plausible slip (used by no action): the message taken to be complete.
NothingLeft(r, left) == IF Enough(r, left) THEN 0 ELSE left

\* The length is read through msg and dropped: msgsize is still 0 when what the
\* buffer has beyond the message is taken off nleft.
LeftAfter(r, left) == IF Enough(r, left) THEN Minus(left, r.nbytes - r.msgsize) ELSE left

ReadSome ==
    /\ Reading /\ reader.nleft <= SSIZE_MAX
    /\ \E k \in 1..Min({reader.nleft, backlog}) :
         LET left == Minus(reader.nleft, k)
         IN  /\ backlog' = backlog - k
             /\ \/ reader' = [reader EXCEPT !.nleft = LeftAfter(reader, left),
                                            !.stored = @ + k]
                \* readMessageLength follows a pointer the stream has overwritten
                \/ /\ Enough(reader, left)
                   /\ reader' = [Idle EXCEPT !.pc = "killed"]
    /\ UNCHANGED <<closed, wleft, written, reads>>

\* read() returns 0 at the end of the stream.
ReadEnd ==
    /\ Reading /\ reader.nleft \in 1..SSIZE_MAX
    /\ backlog = 0 /\ closed
    /\ reader' = [reader EXCEPT !.pc = "returned"]
    /\ UNCHANGED <<backlog, closed, wleft, written, reads>>

\* A plausible slip (used by no action): any error taken for EINTR.
ReadRefusedAgain ==
    /\ Reading /\ reader.nleft > SSIZE_MAX
    /\ UNCHANGED vars

\* read() with a count that is negative as a ssize_t fails (EINVAL), and the call
\* returns -1.
ReadRefused ==
    /\ Reading /\ reader.nleft > SSIZE_MAX
    /\ reader' = [reader EXCEPT !.pc = "failed"]
    /\ UNCHANGED <<backlog, closed, wleft, written, reads>>

\* It may fail for reasons of its own too, with anything but EINTR.
ReadFails ==
    /\ Reading /\ reader.nleft \in 1..SSIZE_MAX
    /\ reader' = [reader EXCEPT !.pc = "failed"]
    /\ UNCHANGED <<backlog, closed, wleft, written, reads>>

ReadReturn ==
    /\ Reading /\ reader.nleft = 0
    /\ reader' = [reader EXCEPT !.pc = "returned"]
    /\ UNCHANGED <<backlog, closed, wleft, written, reads>>

\* EINTR in either loop: nothing was moved.
Interrupted ==
    /\ wleft > 0 \/ (Reading /\ reader.nleft \in 1..SSIZE_MAX)
    /\ UNCHANGED vars

Next ==
    \/ WriteMessage \/ WriteSome \/ WriteFails \/ CloseWriter
    \/ ReadMessage \/ ReadSome \/ ReadEnd \/ ReadRefused \/ ReadFails
    \/ ReadReturn
    \/ Interrupted

\* Both processes run and the kernel moves what can be moved; calls need not be made.
Spec ==
    /\ Init /\ [][Next]_vars
    /\ WF_vars(WriteSome)
    /\ WF_vars(ReadSome \/ ReadEnd \/ ReadRefused \/ ReadReturn)

----------------------------------------------------------------------------
(* Properties.                                                             *)

\* Every variable holds a value of its type.
TypeOK ==
    /\ {backlog, wleft, reads} \subseteq Nat
    /\ closed \in BOOLEAN
    /\ written \in Seq(Lengths)
    /\ reader \in [pc : {"idle", "reading", "returned", "failed", "killed"},
                   nbytes : Sizes \cup {0}, nleft : 0..SIZE_MAX, stored : Nat,
                   msgsize : {0}]

\* A buffer too small for the length to be looked for is never overrun, and a call
\* that fills it ends there.
SmallBufferRespected ==
    reader.nbytes < LengthKnown =>
        /\ reader.stored <= reader.nbytes
        /\ Reading => reader.stored + reader.nleft = reader.nbytes

\* A call with a larger buffer never returns a message: if it returns at all, the
\* stream ended before the length could be looked for, and nothing more is to come.
OnlyFragmentsReturned ==
    reader.pc = "returned" /\ reader.nbytes >= LengthKnown =>
        reader.stored < LengthKnown /\ closed /\ backlog = 0

\* A ReadMessage ends once the other end is closed, or enough was read for the length.
ReadMessageEnds ==
    (Reading /\ (closed \/ reader.stored >= LengthKnown)) ~> ~Reading

\* Connection.cpp, of nleft: the size of the buffer, less what was read into it.
LeftIsInBuffer == reader.stored + reader.nleft <= reader.nbytes

=============================================================================
