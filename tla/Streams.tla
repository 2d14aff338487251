------------------------------ MODULE Streams ------------------------------
(***************************************************************************)
(* How the bytes of one client reach the program: a FdStream or, after the *)
(* handshake, a TLSStream, on top of it a StreamFormatter with its         *)
(* pushed-back byte, and the select() that calls VncTunnel::clientReceive. *)
(*                                                                         *)
(* The bytes of the connection are numbered 1, 2, ... and belong to        *)
(* messages of the lengths Lengths; the first one is the handshake.        *)
(***************************************************************************)
EXTENDS Naturals, Sequences

CONSTANTS Lengths,      \* the lengths of the messages that the client may send
          Headers,      \* how much of each is read; the rest is forwarded directly
          BufferLength  \* the size of the buffer of Stream::forward_directly

ASSUME StreamsAssumption ==
    /\ Lengths \in Seq(Nat \ {0}) /\ Lengths # <<>>
    /\ Headers \in Seq(Nat) /\ Len(Headers) = Len(Lengths)
    /\ \A m \in DOMAIN Headers : Headers[m] <= Lengths[m]
    /\ BufferLength \in Nat \ {0}

VARIABLES
    tls,       \* whether the client and the program agree on TLS
    stream,    \* what VncTunnel::m_stream is: "FdStream" or "TLSStream"
    written,   \* how many bytes the client has sent
    records,   \* where the pieces end in which it has sent them
    closed,    \* whether it has closed the connection
    taken,     \* how many bytes have left the socket
    consumed,  \* how many bytes Stream::recv has returned
    pushed,    \* StreamFormatter::buffer
    pc,        \* where the client's thread is
    chunk,     \* the bytes that the current call has received and not passed on
    want,      \* how many bytes it is still to receive
    left,      \* how many bytes are to follow this chunk
    out        \* what handlers and the other stream have been given

vars == <<tls, stream, written, records, closed, taken, consumed, pushed, pc,
          chunk, want, left, out>>

-----------------------------------------------------------------------------

Message == DOMAIN Lengths

\* Where message m ends; a recursive function, which the proofs can unfold.
End[m \in 0..Len(Lengths)] == IF m = 0 THEN 0 ELSE End[m - 1] + Lengths[m]

Total == End[Len(Lengths)]

\* The message that starts with byte b, if one does.
StartingAt(b) == {m \in Message : End[m - 1] + 1 = b}

Bytes(first, last) == [i \in 1..(last - first + 1) |-> first + i - 1]

Lesser(a, b) == IF a < b THEN a ELSE b

Init ==
    /\ tls \in BOOLEAN
    /\ stream = "FdStream"
    /\ written = 0 /\ records = {} /\ closed = FALSE
    /\ taken = 0 /\ consumed = 0
    /\ pushed = <<>>
    /\ pc = "handshake"
    /\ chunk = <<>> /\ want = Lengths[1] /\ left = 0
    /\ out = <<>>

-----------------------------------------------------------------------------
(* The client.                                                             *)

\* With TLS a piece is a record; none spans the end of the handshake.
ClientWrites ==
    /\ ~closed
    /\ \E last \in (written + 1)..Total :
          /\ written < Lengths[1] => last <= Lengths[1]
          /\ written' = last
          /\ records' = records \union {last}
    /\ UNCHANGED <<tls, stream, closed, taken, consumed, pushed, pc, chunk, want, left, out>>

ClientCloses ==
    /\ ~closed
    /\ closed' = TRUE
    /\ UNCHANGED <<tls, stream, written, records, taken, consumed, pushed, pc, chunk, want,
                   left, out>>

-----------------------------------------------------------------------------
(* The streams.                                                            *)

\* Fault: a stream that reads ahead.
FetchAhead == taken = consumed /\ written > taken /\ taken' = written

\* The end of the record that the bytes after taken belong to.
NextRecord == {e \in records : e > taken /\ \A f \in records : f > taken => e <= f}

\* recv() takes from the socket what it returns, gnutls a whole record.
Fetch ==
    /\ taken = consumed
    /\ written > taken
    /\ CASE stream = "FdStream" -> taken' \in (taken + 1)..Lesser(written, taken + want)
         [] stream = "TLSStream" -> taken' \in NextRecord

\* One turn of the loop in Stream::recv.
Receive ==
    /\ pc \in {"handshake", "type", "body"}
    /\ want > 0
    /\ \/ Fetch
       \/ taken > consumed /\ UNCHANGED taken
    /\ LET n == Lesser(want, taken' - consumed)
       IN  /\ chunk' = chunk \o Bytes(consumed + 1, consumed + n)
           /\ consumed' = consumed + n
           /\ want' = want - n
    /\ UNCHANGED <<tls, stream, written, records, closed, pushed, pc, left, out>>

\* Stream::recv throws eof_exception, which ends the thread.
EndOfFile ==
    /\ pc \in {"handshake", "type", "body"}
    /\ want > 0
    /\ closed /\ written = consumed
    /\ pc' = "over"
    /\ UNCHANGED <<tls, stream, written, records, closed, taken, consumed, pushed, chunk,
                   want, left, out>>

\* One turn of the loop in Stream::send.
Send ==
    /\ pc = "send"
    /\ \E n \in 1..Len(chunk) :
          /\ out' = out \o SubSeq(chunk, 1, n)
          /\ chunk' = SubSeq(chunk, n + 1, Len(chunk))
    /\ UNCHANGED <<tls, stream, written, records, closed, taken, consumed, pushed, pc, want, left>>

\* The loop of Stream::forward_directly: the next chunk, or back to select().
NextChunk ==
    /\ pc = "send"
    /\ chunk = <<>>
    /\ pc' = IF left = 0 THEN "select" ELSE "body"
    /\ want' = Lesser(left, BufferLength)
    /\ left' = left - Lesser(left, BufferLength)
    /\ UNCHANGED <<tls, stream, written, records, closed, taken, consumed, pushed, chunk, out>>

\* handleVeNCryptSecurity makes a TLSStream of the descriptor, with a new formatter.
HandshakeDone ==
    /\ pc = "handshake" /\ want = 0
    /\ out' = out \o chunk
    /\ chunk' = <<>>
    /\ stream' = IF tls THEN "TLSStream" ELSE stream
    /\ pushed' = <<>>
    /\ pc' = "select"
    /\ UNCHANGED <<tls, written, records, closed, taken, consumed, want, left>>

-----------------------------------------------------------------------------
(* The tunnel.                                                             *)

\* select() sees the socket only.
Select ==
    /\ pc = "select"
    /\ written > taken \/ closed
    /\ pc' = "type"
    /\ want' = 1
    /\ UNCHANGED <<tls, stream, written, records, closed, taken, consumed, pushed, chunk,
                   left, out>>

\* clientReceive reads the type and pushes it back.
PushBack ==
    /\ pc = "type" /\ want = 0
    /\ pushed' = chunk
    /\ chunk' = <<>>
    /\ pc' = IF StartingAt(chunk[1]) = {} THEN "unknown" ELSE "dispatch"
    /\ UNCHANGED <<tls, stream, written, records, closed, taken, consumed, want, left, out>>

\* Fault: the pushed-back byte stays.
RecvRawKeepsByte(length, rest) ==
    /\ chunk' = pushed
    /\ want' = length - Len(pushed)
    /\ left' = rest
    /\ pc' = "body"
    /\ UNCHANGED pushed

\* recv_raw and forward_raw, which begin with the pushed-back byte; forward_directly
\* is called for the rest.
RecvRaw(length, rest) ==
    LET buffered == Lesser(length, Len(pushed))
    IN  /\ chunk' = SubSeq(pushed, 1, buffered)
        /\ pushed' = SubSeq(pushed, buffered + 1, Len(pushed))
        /\ want' = length - buffered
        /\ left' = rest
        /\ pc' = "body"

\* Fault: the pushed-back byte is not counted.
ForwardUncounted(length) ==
    /\ chunk' = pushed
    /\ pushed' = <<>>
    /\ left' = length
    /\ want' = 0
    /\ pc' = "send"

\* forward_directly sends the pushed-back byte before it receives.
ForwardDirectly(length) ==
    LET buffered == Lesser(length, Len(pushed))
    IN  /\ chunk' = SubSeq(pushed, 1, buffered)
        /\ pushed' = SubSeq(pushed, buffered + 1, Len(pushed))
        /\ left' = length - buffered
        /\ want' = 0
        /\ pc' = "send"

Dispatch ==
    /\ pc = "dispatch"
    /\ \E m \in StartingAt(pushed[1]) :
          \/ Headers[m] = 0 /\ ForwardDirectly(Lengths[m])
          \/ Headers[m] > 0 /\ RecvRaw(Headers[m], Lengths[m] - Headers[m])
    /\ UNCHANGED <<tls, stream, written, records, closed, taken, consumed, out>>

Received ==
    /\ pc = "body" /\ want = 0
    /\ pc' = "send"
    /\ UNCHANGED <<tls, stream, written, records, closed, taken, consumed, pushed, chunk,
                   want, left, out>>

Ended == pc = "over" /\ UNCHANGED vars

Thread ==
    \/ Receive \/ EndOfFile \/ Send \/ NextChunk \/ HandshakeDone
    \/ Select \/ PushBack \/ Dispatch \/ Received

Next == Thread \/ ClientWrites \/ ClientCloses \/ Ended

Spec == Init /\ [][Next]_vars

\* The thread runs; the client need not send anything.
FairSpec == Spec /\ WF_vars(Thread)

-----------------------------------------------------------------------------

\* Whatever pieces the bytes arrive in, whether they are read, pushed back or
\* forwarded through the buffer, and whatever the stream turns into: the program
\* passes on every byte once and in order.
InOrderOnce ==
    /\ consumed <= taken /\ taken <= written
    /\ Len(pushed) <= 1
    /\ out \o chunk \o pushed = Bytes(1, consumed)

\* A type is looked for where a message begins: no message takes a byte of the next
\* one or leaves one behind, so the tunnel never meets an unknown type.
MessagesStayWhole ==
    /\ pc # "unknown"
    /\ pc = "select" => \E m \in Message : Len(out) = End[m]

\* Every message that has arrived is handled, if there is no TLS or if each message
\* is the end of a record: recv() asks for no more than it needs, so that what waits
\* waits in the socket, where select() sees it.
InputIsHandled ==
    \A m \in Message :
        (written >= End[m] /\ (~tls \/ \A i \in 1..m : End[i] \in records))
            ~> (Len(out) >= End[m])

\* Every message that has arrived is handled.  Stream.h says of the streams that
\* their descriptor can be used in a select; but a record of two messages leaves
\* the second one in the TLS session, which select() does not see.
SelectSeesInput == \A m \in Message : written >= End[m] ~> Len(out) >= End[m]

=============================================================================
