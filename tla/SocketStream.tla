---------------------------- MODULE SocketStream ----------------------------
(***************************************************************************)
(* Connection::Writen in one process and Connection::Readn in another, at  *)
(* the two ends of a connected stream socket (src/src/Connection.cpp).     *)
(*                                                                         *)
(* Every write() and read() is one step that moves any number of bytes the *)
(* kernel pleases; between two of them the other process may take any      *)
(* number of its own.  A call may be interrupted (EINTR), fail, or find    *)
(* the other end closed.  A byte is the number of its place among all the  *)
(* bytes the writer's callers handed over, so that a byte lost, repeated   *)
(* or out of place shows.                                                  *)
(***************************************************************************)
EXTENDS Integers, Sequences, SequencesExt, FiniteSetsExt

CONSTANTS
    Sizes,     \* the nbytes that callers ask for
    Capacity,  \* bytes the kernel buffers between the two ends
    MaxBytes   \* bound on the bytes handed to Writen in all

ASSUME StreamAssumption ==
    /\ Sizes \subseteq Nat
    /\ Capacity \in Nat \ {0}
    /\ MaxBytes \in Nat

VARIABLES
    wire,      \* the bytes accepted by the kernel and not yet read
    wclosed,   \* the writing end was closed
    rclosed,   \* the reading end was closed
    writer,    \* the activation of Writen
    reader,    \* the activation of Readn
    handed,    \* history: how many bytes were handed to Writen
    accepted,  \* history: the bytes of the calls of Writen that succeeded
    delivered, \* history: the bytes Readn reported to its callers, in order
    short,     \* the last call of Readn returned less than it was asked for
    failed     \* the ends at which a call returned -1

vars == <<wire, wclosed, rclosed, writer, reader, handed, accepted, delivered,
          short, failed>>

\* A plausible slip (used by no action): one byte more is counted than there is.
ActivationPastEnd(m, n) == [msg |-> m, ptr |-> 0, nbytes |-> n, nleft |-> n + 1]

\* msg is the caller's buffer, ptr the number of its bytes already dealt with.
Activation(m, n) == [msg |-> m, ptr |-> 0, nbytes |-> n, nleft |-> n]
NoCall == [msg |-> <<>>, ptr |-> 0, nbytes |-> 0, nleft |-> -1]
Killed == [NoCall EXCEPT !.nleft = -2]
Running(p) == p.nleft >= 0

Init ==
    /\ wire = <<>>
    /\ wclosed = FALSE
    /\ rclosed = FALSE
    /\ writer = NoCall
    /\ reader = NoCall
    /\ handed = 0
    /\ accepted = {}
    /\ delivered = <<>>
    /\ short = FALSE
    /\ failed = {}

----------------------------------------------------------------------------
(* Writen.                                                                 *)

CallWriten ==
    /\ writer = NoCall
    /\ ~wclosed
    /\ \E n \in Sizes :
        /\ handed + n <= MaxBytes
        /\ writer' = Activation([i \in 1..n |-> handed + i], n)
        /\ handed' = handed + n
    /\ UNCHANGED <<wire, wclosed, rclosed, reader, accepted, delivered, short, failed>>

\* A plausible slip (used by no action): nleft counted down, ptr left where it was.
AdvanceLeftOnly(p, k) == [p EXCEPT !.nleft = @ - k]

\* Both cursors of either loop move by what the system call returned.
Advance(p, k) == [p EXCEPT !.nleft = @ - k, !.ptr = @ + k]

\* write() takes part of what is left; with no room at all it blocks.
WriteSome ==
    /\ writer.nleft > 0
    /\ \E k \in 1..Min({writer.nleft, Capacity - Len(wire)}) :
        /\ wire' = wire \o SubSeq(writer.msg, writer.ptr + 1, writer.ptr + k)
        /\ writer' = Advance(writer, k)
    /\ UNCHANGED <<wclosed, rclosed, reader, handed, accepted, delivered, short, failed>>

\* A plausible slip (used by no action): the loop left on an error as on success.
WriteErrorBreaks ==
    /\ writer.nleft > 0
    /\ accepted' = accepted \cup ToSet(writer.msg)
    /\ writer' = NoCall
    /\ UNCHANGED <<wire, wclosed, rclosed, reader, handed, delivered, short, failed>>

\* write() fails with anything but EINTR, or returns 0: Writen returns -1, and its
\* caller does not learn how much was sent.
WriteFails ==
    /\ writer.nleft > 0
    /\ writer' = NoCall
    /\ failed' = failed \cup {"writer"}
    /\ UNCHANGED <<wire, wclosed, rclosed, reader, handed, accepted, delivered, short>>

\* A plausible slip (used by no action): EPIPE retried like EINTR.
RetryBrokenPipe ==
    /\ writer.nleft > 0
    /\ rclosed
    /\ UNCHANGED vars

\* The peer is gone: SIGPIPE, which nothing in the library handles or blocks, ends
\* the process and with it closes its end.
WriteKilled ==
    /\ writer.nleft > 0
    /\ rclosed
    /\ writer' = Killed
    /\ wclosed' = TRUE
    /\ UNCHANGED <<wire, rclosed, reader, handed, accepted, delivered, short,
                   failed>>

WritenReturn ==
    /\ writer.nleft = 0
    /\ accepted' = accepted \cup ToSet(writer.msg)
    /\ writer' = NoCall
    /\ UNCHANGED <<wire, wclosed, rclosed, reader, handed, delivered, short, failed>>

\* EINTR in write() or read(): nothing was moved and the loop goes round again.
Interrupted ==
    /\ writer.nleft > 0 \/ reader.nleft > 0
    /\ UNCHANGED vars

----------------------------------------------------------------------------
(* Readn.                                                                  *)

CallReadn ==
    /\ reader = NoCall
    /\ ~rclosed
    /\ Len(delivered) < MaxBytes
    /\ \E n \in Sizes : reader' = Activation([i \in 1..n |-> 0], n)
    /\ UNCHANGED <<wire, wclosed, rclosed, writer, handed, accepted, delivered, short,
                   failed>>

\* read() stores the first k bytes there are at ptr.
ReadSome ==
    /\ reader.nleft > 0
    /\ \E k \in 1..Min({reader.nleft, Len(wire)}) :
        /\ reader' = [Advance(reader, k) EXCEPT
                        !.msg = [i \in DOMAIN @ |->
                                   IF i - reader.ptr \in 1..k THEN wire[i - reader.ptr]
                                   ELSE @[i]]]
        /\ wire' = SubSeq(wire, k + 1, Len(wire))
    /\ UNCHANGED <<wclosed, rclosed, writer, handed, accepted, delivered, short, failed>>

\* The call returns how many bytes it stored.
ReturnCount ==
    LET count == reader.nbytes - reader.nleft
    IN  /\ delivered' = delivered \o SubSeq(reader.msg, 1, count)
        /\ short' = (count < reader.nbytes)
        /\ reader' = NoCall
        /\ UNCHANGED <<wire, wclosed, rclosed, writer, handed, accepted, failed>>

\* Plausible slips (used by no action): an empty socket taken for the end of the
\* stream, and no break at its end.
ReadEmpty ==
    /\ reader.nleft > 0
    /\ wire = <<>>
    /\ ReturnCount

ReadAgainAtEnd ==
    /\ reader.nleft > 0
    /\ wire = <<>>
    /\ wclosed
    /\ UNCHANGED vars

\* read() returns 0: the writing end is closed and everything it sent was read.
ReadEnd ==
    /\ reader.nleft > 0
    /\ wire = <<>>
    /\ wclosed
    /\ ReturnCount

\* A plausible slip (used by no action): a failure reported as an empty read.
ReadErrorIsZero ==
    /\ reader.nleft > 0
    /\ reader' = NoCall
    /\ short' = TRUE
    /\ UNCHANGED <<wire, wclosed, rclosed, writer, handed, accepted, delivered, failed>>

\* read() fails with anything but EINTR: Readn returns -1, and the bytes it had
\* stored are lost to a caller who cannot tell how many there are.
ReadFails ==
    /\ reader.nleft > 0
    /\ reader' = NoCall
    /\ failed' = failed \cup {"reader"}
    /\ UNCHANGED <<wire, wclosed, rclosed, writer, handed, accepted, delivered, short>>

\* A plausible slip (used by no action): one partial read() taken for all there is.
ReadnReturnStored ==
    /\ reader.nleft \in 0..(reader.nbytes - 1)
    /\ ReturnCount

ReadnReturn ==
    /\ reader.nleft = 0
    /\ ReturnCount

----------------------------------------------------------------------------
(* Close, at an end where no call is running, and the end of a process.    *)

CloseWriter ==
    /\ ~Running(writer)
    /\ wclosed' = TRUE
    /\ UNCHANGED <<wire, rclosed, writer, reader, handed, accepted, delivered, short,
                   failed>>

CloseReader ==
    /\ ~Running(reader)
    /\ rclosed' = TRUE
    /\ UNCHANGED <<wire, wclosed, writer, reader, handed, accepted, delivered, short,
                   failed>>

Next ==
    \/ CallWriten \/ WriteSome \/ WriteFails \/ WriteKilled \/ WritenReturn
    \/ CallReadn \/ ReadSome \/ ReadEnd \/ ReadFails \/ ReadnReturn
    \/ Interrupted \/ CloseWriter \/ CloseReader

\* Both processes run, the kernel moves bytes that can be moved and reports a peer
\* that is gone, and neither process is interrupted for ever: an interruption
\* leaves the step enabled, so weak fairness says that.  Calls need not be made,
\* and a system call need not fail.
Spec ==
    /\ Init /\ [][Next]_vars
    /\ WF_vars(WriteSome \/ WriteKilled \/ WritenReturn)
    /\ WF_vars(ReadSome \/ ReadEnd \/ ReadnReturn)

----------------------------------------------------------------------------
(* Properties.                                                             *)

IsActivation(p) ==
    /\ p.nleft + p.ptr = p.nbytes
    /\ p.nleft \in 0..p.nbytes
    /\ Len(p.msg) = p.nbytes

\* Every variable holds a value of its type, and the cursors of a running call
\* stay inside the caller's buffer.
TypeOK ==
    /\ wire \in Seq(1..MaxBytes) /\ Len(wire) <= Capacity
    /\ {wclosed, rclosed, short} \subseteq BOOLEAN
    /\ writer \in {NoCall, Killed} \/ IsActivation(writer)
    /\ reader = NoCall \/ IsActivation(reader)
    /\ handed \in 0..MaxBytes
    /\ accepted \subseteq 1..MaxBytes
    /\ delivered \in Seq(Nat)
    /\ failed \subseteq {"writer", "reader"}

\* What a reader is given, over all its calls, never repeats a byte, reorders two
\* or holds a byte that was not sent, whatever fails.
InOrder ==
    \A i \in DOMAIN delivered :
        /\ delivered[i] \in 1..handed
        /\ i > 1 => delivered[i - 1] < delivered[i]

\* ... and skips none, until a call returned -1.
NoGap == failed = {} => \A i \in DOMAIN delivered : delivered[i] = i

\* Readn returns less than it was asked for only when everything sent before the
\* other end was closed has been delivered.
ShortOnlyAtEnd ==
    short => /\ wclosed
             /\ wire = <<>>
             /\ failed = {} => accepted \subseteq ToSet(delivered)

\* When Writen returns nbytes, all of them are with the reader or on their way,
\* unless the reader lost some in a call that returned -1.
AcceptedIsOnItsWay ==
    "reader" \notin failed =>
        accepted \subseteq ToSet(delivered) \cup ToSet(SubSeq(reader.msg, 1, reader.ptr))
                            \cup ToSet(wire)

\* The bytes between the two ends are those a running Readn has stored and those on
\* the wire; a running Writen has still to send its nleft.
Pipe == INSTANCE BytePipe WITH
    given <- handed,
    sent <- handed - (IF Running(writer) THEN writer.nleft ELSE 0),
    pipe <- SubSeq(reader.msg, 1, reader.ptr) \o wire,
    received <- delivered,
    closed <- wclosed,
    ended <- short

\* However the kernel splits the transfers, wherever the two processes are in their
\* loops and whichever call fails, the two ends are a first-in first-out pipe: a Readn
\* gets all it asked for or what there is up to the end, and nothing is lost but by a
\* call that returned -1 or a process that was killed.
ImplementsPipe == Pipe!Spec

\* A Readn that finds enough bytes, or the end of the stream, returns.
ReadnReturns ==
    (Running(reader) /\ (wclosed \/ Len(wire) >= reader.nleft)) ~> ~Running(reader)

\* A Writen with room for all that is left, or whose peer is gone, does not hang.
WritenReturns ==
    (Running(writer) /\ (rclosed \/ Capacity - Len(wire) >= writer.nleft)) ~> ~Running(writer)

=============================================================================
