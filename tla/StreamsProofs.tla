---------------------------- MODULE StreamsProofs ---------------------------
(***************************************************************************)
(* InOrderOnce and MessagesStayWhole for messages of any lengths, a buffer *)
(* of any size and any pieces that the bytes arrive in.                    *)
(*                                                                         *)
(* Between the moment when a byte leaves the stream and the moment when it *)
(* is passed on it is in the chunk of the call or in the formatter's       *)
(* buffer, the latter only while a message is dispatched (PushedInv): all  *)
(* reads start with an empty buffer, and all dispatches with an empty      *)
(* chunk.  A TLS record ends where something has been written, and never   *)
(* beyond (RecordsInv).  While a message is handled, what is in the chunk, *)
(* what is wanted and what is left make the rest of it (WholeInv).         *)
(***************************************************************************)
EXTENDS Streams, SequenceFacts

\* The counts are numbers, the rest are sequences of bytes.
CountsInv ==
    /\ stream \in {"FdStream", "TLSStream"}
    /\ written \in Nat /\ taken \in Nat /\ consumed \in Nat /\ want \in Nat /\ left \in Nat
    /\ chunk \in Seq(Nat) /\ pushed \in Seq(Nat) /\ out \in Seq(Nat)

\* The last piece that was written ends with the last byte.
RecordsInv ==
    /\ records \subseteq 0..written
    /\ written = 0 \/ written \in records

\* The pushed-back byte is there while its message is looked for, and a type is read
\* into an empty chunk.
PushedInv ==
    /\ pc \notin {"dispatch", "unknown"} => pushed = <<>>
    /\ pc \in {"select", "dispatch", "unknown"} => chunk = <<>>
    /\ pc = "type" => Len(chunk) + want = 1

\* The inductive invariant.
StreamInv == CountsInv /\ RecordsInv /\ PushedInv /\ InOrderOnce

-----------------------------------------------------------------------------
\* Consecutive bytes.
LEMMA BytesType ==
  ASSUME NEW first \in Nat, NEW last \in Nat, last + 1 >= first
  PROVE  /\ Bytes(first, last) \in Seq(Nat)
         /\ Len(Bytes(first, last)) = last - first + 1
         /\ \A i \in 1..(last - first + 1) : Bytes(first, last)[i] = first + i - 1
  <1> DEFINE n == last - first + 1
             bytes == [i \in 1..n |-> first + i - 1]
  <1>1. n \in Nat
    OBVIOUS
  <1> HIDE DEF n
  <1>2. \A i \in 1..n : first + i - 1 \in Nat
    BY <1>1
  <1>3. bytes \in [1..n -> Nat]
    BY <1>2
  <1>4. bytes \in Seq(Nat)
    BY <1>1, <1>3, SeqDef
  <1>5. Len(bytes) = n
    BY <1>1, <1>3, <1>4, LenProperties
  <1> QED
    BY <1>4, <1>5 DEF Bytes, n

\* Bytes and the ones that follow them.
LEMMA BytesFollow ==
  ASSUME NEW a \in Nat, NEW n \in Nat
  PROVE  /\ Bytes(a + 1, a + n) \in Seq(Nat)
         /\ Bytes(1, a) \in Seq(Nat)
         /\ Bytes(1, a + n) = Bytes(1, a) \o Bytes(a + 1, a + n)
  <1> DEFINE front == Bytes(1, a)
             back == Bytes(a + 1, a + n)
             all == Bytes(1, a + n)
  <1>1. /\ front \in Seq(Nat) /\ Len(front) = a
        /\ \A i \in 1..a : front[i] = i
    <2>1. 1 \in Nat /\ a \in Nat /\ a + 1 >= 1
      OBVIOUS
    <2>2. /\ front \in Seq(Nat) /\ Len(front) = a - 1 + 1
          /\ \A i \in 1..(a - 1 + 1) : front[i] = 1 + i - 1
      BY <2>1, BytesType
    <2>3. a - 1 + 1 = a /\ \A i \in Int : 1 + i - 1 = i
      OBVIOUS
    <2> HIDE DEF front
    <2> QED
      BY <2>2, <2>3
  <1>2. /\ back \in Seq(Nat) /\ Len(back) = n
        /\ \A i \in 1..n : back[i] = a + i
    <2>1. (a + 1) \in Nat /\ (a + n) \in Nat /\ (a + n) + 1 >= (a + 1)
      OBVIOUS
    <2>2. /\ back \in Seq(Nat) /\ Len(back) = (a + n) - (a + 1) + 1
          /\ \A i \in 1..((a + n) - (a + 1) + 1) : back[i] = (a + 1) + i - 1
      BY <2>1, BytesType
    <2>3. (a + n) - (a + 1) + 1 = n /\ \A i \in Int : (a + 1) + i - 1 = a + i
      OBVIOUS
    <2> HIDE DEF back
    <2> QED
      BY <2>2, <2>3
  <1>3. /\ all \in Seq(Nat) /\ Len(all) = a + n
        /\ \A i \in 1..(a + n) : all[i] = i
    <2>1. 1 \in Nat /\ (a + n) \in Nat /\ (a + n) + 1 >= 1
      OBVIOUS
    <2>2. /\ all \in Seq(Nat) /\ Len(all) = (a + n) - 1 + 1
          /\ \A i \in 1..((a + n) - 1 + 1) : all[i] = 1 + i - 1
      BY <2>1, BytesType
    <2>3. (a + n) - 1 + 1 = (a + n) /\ \A i \in Int : 1 + i - 1 = i
      OBVIOUS
    <2> HIDE DEF all
    <2> QED
      BY <2>2, <2>3
  <1> HIDE DEF front, back, all
  <1>4. /\ front \o back \in Seq(Nat)
        /\ Len(front \o back) = a + n
        /\ \A i \in 1..(a + n) : (front \o back)[i] = IF i <= a THEN front[i] ELSE back[i - a]
    BY <1>1, <1>2, ConcatProperties
  <1>5. ASSUME NEW i \in 1..(a + n) PROVE all[i] = (front \o back)[i]
    <2>1. CASE i <= a
      BY <1>1, <1>3, <1>4, <2>1
    <2>2. CASE ~(i <= a)
      <3>1. i - a \in 1..n
        BY <2>2
      <3> QED
        BY <1>2, <1>3, <1>4, <2>2, <3>1
    <2> QED
      BY <2>1, <2>2
  <1>6. all = front \o back
    BY <1>3, <1>4, <1>5, SeqEqual
  <1> QED
    BY <1>1, <1>2, <1>6 DEF front, back, all

\* A sequence taken apart.
LEMMA SplitSeq ==
  ASSUME NEW s \in Seq(Nat), NEW n \in 0..Len(s)
  PROVE  /\ SubSeq(s, 1, n) \in Seq(Nat) /\ SubSeq(s, n + 1, Len(s)) \in Seq(Nat)
         /\ SubSeq(s, 1, n) \o SubSeq(s, n + 1, Len(s)) = s
  <1> DEFINE front == SubSeq(s, 1, n)
             back == SubSeq(s, n + 1, Len(s))
  <1>1. /\ front \in Seq(Nat) /\ Len(front) = n
        /\ \A i \in 1..n : front[i] = s[i]
    BY SubSeqProperties
  <1>2. /\ back \in Seq(Nat) /\ Len(back) = Len(s) - n
        /\ \A i \in 1..(Len(s) - n) : back[i] = s[n + i]
    BY SubSeqProperties
  <1>3. Len(s) \in Nat /\ n + (Len(s) - n) = Len(s)
    OBVIOUS
  <1> HIDE DEF front, back
  <1>4. /\ front \o back \in Seq(Nat)
        /\ Len(front \o back) = Len(s)
        /\ \A i \in 1..Len(s) : (front \o back)[i] = IF i <= n THEN front[i] ELSE back[i - n]
    BY <1>1, <1>2, <1>3, ConcatProperties
  <1>5. ASSUME NEW i \in 1..Len(s) PROVE (front \o back)[i] = s[i]
    <2>1. CASE i <= n
      BY <1>1, <1>4, <2>1
    <2>2. CASE ~(i <= n)
      <3>1. i - n \in 1..(Len(s) - n) /\ n + (i - n) = i
        BY <2>2
      <3> QED
        BY <1>2, <1>4, <2>2, <3>1
    <2> QED
      BY <2>1, <2>2
  <1>6. front \o back = s
    BY <1>4, <1>5, SeqEqual
  <1> QED
    BY <1>1, <1>2, <1>6 DEF front, back

\* Three sequences put together.
LEMMA ConcatThree ==
  ASSUME NEW s \in Seq(Nat), NEW t \in Seq(Nat), NEW u \in Seq(Nat)
  PROVE  (s \o t) \o u = s \o (t \o u)
  BY ConcatAssociative

\* The lesser of two numbers.
LEMMA LesserType ==
  ASSUME NEW a \in Nat, NEW b \in Nat
  PROVE  /\ Lesser(a, b) \in Nat /\ Lesser(a, b) <= a /\ Lesser(a, b) <= b
         /\ b <= a => Lesser(a, b) = b
  BY DEF Lesser

\* A stream returns no more than is asked for and than it has.
LEMMA ReturnsType ==
  ASSUME NEW w \in Nat, NEW c \in Nat, NEW t \in Nat, t > c
  PROVE  /\ Lesser(w, t - c) \in Nat /\ Lesser(w, t - c) <= w
         /\ c + Lesser(w, t - c) <= t
  BY DEF Lesser

-----------------------------------------------------------------------------
\* The thread starts with nothing received.
LEMMA InitStream == Init => StreamInv
  <1> SUFFICES ASSUME Init PROVE StreamInv
    OBVIOUS
  <1>1. Lengths[1] \in Nat
    <2>1. Len(Lengths) \in Nat \ {0}
      BY StreamsAssumption, EmptySeq
    <2>2. 1 \in 1..Len(Lengths)
      BY <2>1
    <2> QED
      BY <2>2, StreamsAssumption, ElementOfSeq
  <1>2. /\ chunk = <<>> /\ pushed = <<>> /\ out = <<>> /\ consumed = 0 /\ taken = 0
        /\ written = 0 /\ records = {} /\ want = Lengths[1] /\ left = 0
        /\ pc = "handshake" /\ stream = "FdStream"
    BY DEF Init
  <1>3. <<>> \in Seq(Nat) /\ Len(<<>>) = 0
    BY EmptySeq
  <1>4. CountsInv
    BY <1>1, <1>2, <1>3 DEF CountsInv
  <1>5. RecordsInv /\ PushedInv
    BY <1>2 DEF RecordsInv, PushedInv
  <1>6. InOrderOnce
    <2>1. out \o chunk \o pushed = <<>>
      BY <1>2, <1>3, ConcatEmptySeq
    <2>2. Bytes(1, 0) = <<>>
      <3>1. Bytes(1, 0) \in Seq(Nat) /\ Len(Bytes(1, 0)) = 0
        BY BytesType
      <3> QED
        BY <3>1, EmptySeq
    <2> QED
      BY <1>2, <1>3, <2>1, <2>2 DEF InOrderOnce
  <1> QED
    BY <1>4, <1>5, <1>6 DEF StreamInv

\* What a stream takes from the socket has been written.
LEMMA FetchTakes ==
  ASSUME CountsInv, RecordsInv, Fetch
  PROVE  taken' \in Nat /\ taken' > taken /\ taken' <= written
  <1> USE DEF CountsInv, RecordsInv
  <1>1. CASE stream = "FdStream"
    BY <1>1 DEF Fetch, Lesser
  <1>2. CASE stream = "TLSStream"
    BY <1>2 DEF Fetch, NextRecord
  <1> QED
    BY <1>1, <1>2

\* One turn of recv adds the next bytes to the chunk.
LEMMA ReceiveStep ==
  ASSUME StreamInv, Receive
  PROVE  StreamInv'
  <1>numbers. /\ stream \in {"FdStream", "TLSStream"}
              /\ written \in Nat /\ taken \in Nat /\ consumed \in Nat
              /\ want \in Nat /\ left \in Nat
    BY DEF StreamInv, CountsInv
  <1>bytes. chunk \in Seq(Nat) /\ pushed \in Seq(Nat) /\ out \in Seq(Nat)
    BY DEF StreamInv, CountsInv
  <1>parts. RecordsInv /\ PushedInv /\ InOrderOnce
    BY DEF StreamInv
  <1> DEFINE n == Lesser(want, taken' - consumed)
             fresh == Bytes(consumed + 1, consumed + n)
  <1>1. /\ pc \in {"handshake", "type", "body"} /\ want > 0
        /\ chunk' = chunk \o fresh /\ consumed' = consumed + n /\ want' = want - n
        /\ UNCHANGED <<stream, written, records, pushed, pc, left, out>>
    BY DEF Receive
  <1>2. taken' \in Nat /\ taken' > consumed /\ taken' <= written
    BY <1>numbers, <1>parts, FetchTakes DEF StreamInv, Receive, InOrderOnce, Fetch
  <1>3. n \in Nat /\ n <= want /\ consumed + n <= taken'
    BY <1>numbers, <1>2, ReturnsType
  <1> HIDE DEF n
  <1>4. /\ fresh \in Seq(Nat) /\ Len(fresh) = n
    <2>1. /\ consumed + 1 \in Nat /\ consumed + n \in Nat /\ (consumed + n) + 1 >= consumed + 1
          /\ (consumed + n) - (consumed + 1) + 1 = n
      BY <1>numbers, <1>3
    <2> QED
      BY <2>1, BytesType
  <1>5. Bytes(1, consumed + n) = Bytes(1, consumed) \o fresh
    BY <1>numbers, <1>3, BytesFollow
  <1> HIDE DEF fresh
  <1>6. pushed = <<>>
    BY <1>1, <1>parts DEF PushedInv
  <1>7. chunk \o fresh \in Seq(Nat) /\ Len(chunk \o fresh) = Len(chunk) + n
    BY <1>bytes, <1>4, ConcatProperties
  <1>8. CountsInv'
    <2>1. consumed' \in Nat /\ want' \in Nat
      BY <1>numbers, <1>1, <1>3
    <2> QED
      BY <1>numbers, <1>bytes, <1>1, <1>2, <1>7, <2>1 DEF CountsInv
  <1>9. RecordsInv' /\ PushedInv'
    <2>1. RecordsInv'
      BY <1>1, <1>parts DEF RecordsInv
    <2>2. pc = "type" => Len(chunk') + want' = 1
      <3>1. Len(chunk) \in Nat
        BY <1>bytes, LenProperties
      <3>2. pc = "type" => Len(chunk) + want = 1
        BY <1>parts DEF PushedInv
      <3>3. Len(chunk') = Len(chunk) + n /\ want' = want - n
        BY <1>1, <1>7
      <3> QED
        BY <1>numbers, <1>3, <3>1, <3>2, <3>3
    <2> QED
      BY <1>1, <1>6, <2>1, <2>2 DEF PushedInv
  <1>10. InOrderOnce'
    <2>1. out \o chunk = Bytes(1, consumed)
      BY <1>bytes, <1>parts, <1>6, ConcatProperties, ConcatEmptySeq DEF InOrderOnce
    <2>2. out \o (chunk \o fresh) = (out \o chunk) \o fresh
      BY <1>bytes, <1>4, ConcatThree
    <2>3. (out \o (chunk \o fresh)) \o <<>> = out \o (chunk \o fresh)
      BY <1>bytes, <1>7, ConcatProperties, ConcatEmptySeq
    <2>4. out' \o chunk' \o pushed' = Bytes(1, consumed')
      BY <1>1, <1>5, <1>6, <2>1, <2>2, <2>3
    <2>5. consumed' <= taken' /\ taken' <= written'
      BY <1>1, <1>2, <1>3
    <2> QED
      BY <1>1, <1>6, <2>4, <2>5, EmptySeq DEF InOrderOnce
  <1> QED
    BY <1>8, <1>9, <1>10 DEF StreamInv

\* One turn of send passes on what it takes from the chunk.
LEMMA SendStep ==
  ASSUME StreamInv, Send
  PROVE  StreamInv'
  <1>numbers. /\ stream \in {"FdStream", "TLSStream"}
              /\ written \in Nat /\ taken \in Nat /\ consumed \in Nat
              /\ want \in Nat /\ left \in Nat
    BY DEF StreamInv, CountsInv
  <1>bytes. chunk \in Seq(Nat) /\ pushed \in Seq(Nat) /\ out \in Seq(Nat)
    BY DEF StreamInv, CountsInv
  <1>parts. RecordsInv /\ PushedInv /\ InOrderOnce
    BY DEF StreamInv
  <1>1. PICK n \in 1..Len(chunk) : /\ out' = out \o SubSeq(chunk, 1, n)
                                   /\ chunk' = SubSeq(chunk, n + 1, Len(chunk))
    BY DEF Send
  <1>2. /\ pc = "send"
        /\ UNCHANGED <<stream, written, records, taken, consumed, pushed, pc, want, left>>
    BY DEF Send
  <1> DEFINE front == SubSeq(chunk, 1, n)
             back == SubSeq(chunk, n + 1, Len(chunk))
  <1>3. front \in Seq(Nat) /\ back \in Seq(Nat) /\ front \o back = chunk
    <2>1. n \in 0..Len(chunk)
      BY <1>bytes
    <2> QED
      BY <1>bytes, <2>1, SplitSeq
  <1>4. out' = out \o front /\ chunk' = back
    BY <1>1
  <1> HIDE DEF front, back
  <1>5. out \o front \in Seq(Nat)
    BY <1>bytes, <1>3, ConcatProperties
  <1>6. (out \o front) \o back = out \o chunk
    BY <1>bytes, <1>3, ConcatThree
  <1>7. CountsInv' /\ RecordsInv' /\ PushedInv'
    BY <1>numbers, <1>bytes, <1>parts, <1>2, <1>3, <1>4, <1>5 DEF CountsInv, RecordsInv, PushedInv
  <1>8. InOrderOnce'
    BY <1>parts, <1>2, <1>4, <1>6 DEF InOrderOnce
  <1> QED
    BY <1>7, <1>8 DEF StreamInv

\* The end of the handshake starts with a new formatter.
LEMMA HandshakeStep ==
  ASSUME StreamInv, HandshakeDone
  PROVE  StreamInv'
  <1>numbers. /\ stream \in {"FdStream", "TLSStream"}
              /\ written \in Nat /\ taken \in Nat /\ consumed \in Nat
              /\ want \in Nat /\ left \in Nat
    BY DEF StreamInv, CountsInv
  <1>bytes. chunk \in Seq(Nat) /\ pushed \in Seq(Nat) /\ out \in Seq(Nat)
    BY DEF StreamInv, CountsInv
  <1>parts. RecordsInv /\ PushedInv /\ InOrderOnce
    BY DEF StreamInv
  <1>1. /\ pc = "handshake" /\ pc' = "select"
        /\ out' = out \o chunk /\ chunk' = <<>> /\ pushed' = <<>>
        /\ stream' \in {"FdStream", "TLSStream"}
        /\ UNCHANGED <<written, records, taken, consumed, want, left>>
    BY <1>numbers DEF HandshakeDone
  <1>2. pushed = <<>>
    BY <1>1, <1>parts DEF PushedInv
  <1>3. out \o chunk \in Seq(Nat) /\ <<>> \in Seq(Nat)
    BY <1>bytes, ConcatProperties, EmptySeq
  <1>4. (out \o chunk) \o <<>> = out \o chunk
    BY <1>3, ConcatEmptySeq
  <1>5. CountsInv' /\ RecordsInv' /\ PushedInv'
    BY <1>numbers, <1>parts, <1>1, <1>3 DEF CountsInv, RecordsInv, PushedInv
  <1>6. out' \o chunk' \o pushed' = Bytes(1, consumed')
    BY <1>parts, <1>1, <1>2, <1>4 DEF InOrderOnce
  <1> QED
    BY <1>parts, <1>1, <1>2, <1>5, <1>6 DEF StreamInv, InOrderOnce

\* The type that is pushed back was the chunk.
LEMMA PushBackStep ==
  ASSUME StreamInv, PushBack
  PROVE  StreamInv'
  <1>numbers. /\ stream \in {"FdStream", "TLSStream"}
              /\ written \in Nat /\ taken \in Nat /\ consumed \in Nat
              /\ want \in Nat /\ left \in Nat
    BY DEF StreamInv, CountsInv
  <1>bytes. chunk \in Seq(Nat) /\ pushed \in Seq(Nat) /\ out \in Seq(Nat)
    BY DEF StreamInv, CountsInv
  <1>parts. RecordsInv /\ PushedInv /\ InOrderOnce
    BY DEF StreamInv
  <1>1. /\ pc = "type" /\ want = 0 /\ pc' \in {"unknown", "dispatch"}
        /\ pushed' = chunk /\ chunk' = <<>>
        /\ UNCHANGED <<stream, written, records, taken, consumed, want, left, out>>
    BY DEF PushBack
  <1>2. pushed = <<>> /\ Len(chunk) = 1
    <2>1. Len(chunk) \in Nat
      BY <1>bytes, LenProperties
    <2>2. pushed = <<>> /\ Len(chunk) + 0 = 1
      BY <1>parts, <1>1 DEF PushedInv
    <2> QED
      BY <2>1, <2>2
  <1>3. /\ out \o chunk \in Seq(Nat) /\ <<>> \in Seq(Nat)
        /\ (out \o chunk) \o <<>> = out \o chunk /\ out \o <<>> = out
    BY <1>bytes, ConcatProperties, ConcatEmptySeq, EmptySeq
  <1>4. CountsInv' /\ RecordsInv' /\ PushedInv'
    BY <1>numbers, <1>bytes, <1>parts, <1>1, <1>3 DEF CountsInv, RecordsInv, PushedInv
  <1>5. out' \o chunk' \o pushed' = Bytes(1, consumed')
    BY <1>parts, <1>1, <1>2, <1>3 DEF InOrderOnce
  <1> QED
    BY <1>parts, <1>1, <1>2, <1>4, <1>5 DEF StreamInv, InOrderOnce

\* The handler of a message begins with the byte that was pushed back.
LEMMA DispatchStep ==
  ASSUME StreamInv, Dispatch
  PROVE  StreamInv'
  <1>numbers. /\ stream \in {"FdStream", "TLSStream"}
              /\ written \in Nat /\ taken \in Nat /\ consumed \in Nat
              /\ want \in Nat /\ left \in Nat
    BY DEF StreamInv, CountsInv
  <1>bytes. chunk \in Seq(Nat) /\ pushed \in Seq(Nat) /\ out \in Seq(Nat)
    BY DEF StreamInv, CountsInv
  <1>parts. RecordsInv /\ PushedInv /\ InOrderOnce
    BY DEF StreamInv
  <1>1. PICK m \in Message : \/ Headers[m] = 0 /\ ForwardDirectly(Lengths[m])
                             \/ Headers[m] > 0 /\ RecvRaw(Headers[m], Lengths[m] - Headers[m])
    BY DEF Dispatch, StartingAt
  <1>2. /\ Lengths[m] \in Nat \ {0} /\ Headers[m] \in Nat /\ Headers[m] <= Lengths[m]
    <2>1. m \in 1..Len(Lengths) /\ m \in DOMAIN Headers
      BY StreamsAssumption, LenProperties DEF Message
    <2>2. Lengths[m] \in Nat \ {0}
      BY <2>1, StreamsAssumption, ElementOfSeq
    <2>3. Headers[m] \in Nat
      BY <2>1, StreamsAssumption, ElementOfSeq
    <2> QED
      BY <2>1, <2>2, <2>3, StreamsAssumption
  <1>3. pc = "dispatch" /\ chunk = <<>> /\ Len(pushed) \in {0, 1}
    <2>1. Len(pushed) \in Nat /\ Len(pushed) <= 1
      BY <1>bytes, <1>parts, LenProperties DEF InOrderOnce
    <2>2. pc = "dispatch" /\ chunk = <<>>
      BY <1>parts DEF Dispatch, PushedInv
    <2> QED
      BY <2>1, <2>2
  <1>4. ASSUME NEW length \in Nat \ {0}
        PROVE  /\ Lesser(length, Len(pushed)) = Len(pushed)
               /\ SubSeq(pushed, 1, Len(pushed)) = pushed
               /\ SubSeq(pushed, Len(pushed) + 1, Len(pushed)) = <<>>
               /\ length - Len(pushed) \in Nat
    <2>1. Lesser(length, Len(pushed)) = Len(pushed) /\ length - Len(pushed) \in Nat
      <3>1. Len(pushed) \in Nat /\ Len(pushed) <= length
        BY <1>3
      <3> QED
        BY <3>1, LesserType
    <2>2. SubSeq(pushed, 1, Len(pushed)) = pushed
      BY <1>bytes, SubSeqFull
    <2>3. SubSeq(pushed, Len(pushed) + 1, Len(pushed)) = <<>>
      BY <1>3, SubSeqEmpty
    <2> QED
      BY <2>1, <2>2, <2>3
  <1>5. /\ chunk' = pushed /\ pushed' = <<>> /\ pc' \in {"send", "body"}
        /\ want' \in Nat /\ left' \in Nat
    <2>1. CASE Headers[m] = 0 /\ ForwardDirectly(Lengths[m])
      BY <1>2, <1>4, <2>1 DEF ForwardDirectly
    <2>2. CASE Headers[m] > 0 /\ RecvRaw(Headers[m], Lengths[m] - Headers[m])
      <3>1. Headers[m] \in Nat \ {0} /\ Lengths[m] - Headers[m] \in Nat
        BY <1>2, <2>2
      <3> QED
        BY <1>4, <2>2, <3>1 DEF RecvRaw
    <2> QED
      BY <1>1, <2>1, <2>2
  <1>6. UNCHANGED <<stream, written, records, taken, consumed, out>>
    BY DEF Dispatch
  <1>7. /\ out \o pushed \in Seq(Nat) /\ <<>> \in Seq(Nat) /\ out \o <<>> = out
        /\ (out \o pushed) \o <<>> = out \o pushed
    BY <1>bytes, ConcatProperties, ConcatEmptySeq, EmptySeq
  <1>8. CountsInv' /\ RecordsInv' /\ PushedInv'
    BY <1>numbers, <1>bytes, <1>parts, <1>5, <1>6, <1>7 DEF CountsInv, RecordsInv, PushedInv
  <1>9. out' \o chunk' \o pushed' = Bytes(1, consumed')
    BY <1>parts, <1>3, <1>5, <1>6, <1>7 DEF InOrderOnce
  <1> QED
    BY <1>parts, <1>5, <1>6, <1>8, <1>9, EmptySeq DEF StreamInv, InOrderOnce

\* The other steps leave the bytes where they are.
LEMMA QuietStep ==
  ASSUME StreamInv,
         \/ ClientWrites \/ ClientCloses \/ EndOfFile \/ NextChunk \/ Select \/ Received
         \/ UNCHANGED vars
  PROVE  StreamInv'
  <1> USE DEF StreamInv, CountsInv, RecordsInv, PushedInv, InOrderOnce
  <1>1. CASE ClientWrites
    <2>1. PICK last \in (written + 1)..Total : written' = last /\ records' = records \union {last}
      BY <1>1 DEF ClientWrites
    <2> QED
      BY <1>1, <2>1 DEF ClientWrites
  <1>2. CASE ClientCloses
    BY <1>2 DEF ClientCloses
  <1>3. CASE EndOfFile
    BY <1>3 DEF EndOfFile
  <1>4. CASE NextChunk
    BY <1>4, StreamsAssumption DEF NextChunk, Lesser
  <1>5. CASE Select
    BY <1>5, EmptySeq DEF Select
  <1>6. CASE Received
    BY <1>6 DEF Received
  <1>7. CASE UNCHANGED vars
    BY <1>7 DEF vars
  <1> QED
    BY <1>1, <1>2, <1>3, <1>4, <1>5, <1>6, <1>7

\* Whatever lengths and pieces there are, every byte is passed on once and in order.
THEOREM BytesInOrder == Spec => []InOrderOnce
  <1>1. StreamInv /\ [Next]_vars => StreamInv'
    BY ReceiveStep, SendStep, HandshakeStep, PushBackStep, DispatchStep, QuietStep
       DEF Next, Thread, Ended
  <1>2. StreamInv => InOrderOnce
    BY DEF StreamInv
  <1> QED
    BY <1>1, <1>2, InitStream, PTL DEF Spec

-----------------------------------------------------------------------------
\* The recursive function End is what its equation says.
LEMMA EndFacts ==
  /\ End \in [0..Len(Lengths) -> Nat]
  /\ End[0] = 0
  /\ \A m \in Message : m - 1 \in 0..Len(Lengths) /\ End[m] = End[m - 1] + Lengths[m]
  <1> DEFINE n == Len(Lengths)
             Def(f) == [m \in 0..n |-> IF m = 0 THEN 0 ELSE f[m - 1] + Lengths[m]]
             Rec(g, k) == /\ g \in [0..k -> Nat]
                          /\ g[0] = 0
                          /\ \A m \in 1..k : g[m] = g[m - 1] + Lengths[m]
             T == {k \in Nat : \E g : Rec(g, k)}
  <1>1. n \in Nat /\ Message = 1..n /\ \A m \in 1..n : Lengths[m] \in Nat
    BY StreamsAssumption, LenProperties, ElementOfSeq DEF Message
  <1>2. End = CHOOSE f : f = Def(f)
    BY DEF End
  <1> HIDE DEF n
  <1>3. 0 \in T
    <2> DEFINE g == [m \in 0..0 |-> 0]
    <2>1. Rec(g, 0)
      OBVIOUS
    <2> QED
      BY <2>1
  <1>4. ASSUME NEW k \in 1..n, k - 1 \in T PROVE k \in T
    <2>1. PICK g : Rec(g, k - 1)
      BY <1>4
    <2> DEFINE h == [m \in 0..k |-> IF m = k THEN g[k - 1] + Lengths[k] ELSE g[m]]
    <2>2. k \in Nat /\ k # 0 /\ k - 1 \in 0..(k - 1)
      BY <1>1
    <2>3. g[k - 1] \in Nat /\ Lengths[k] \in Nat
      BY <1>1, <2>1, <2>2
    <2>4. \A m \in 0..k : m = k \/ m \in 0..(k - 1)
      BY <2>2
    <2>5. h \in [0..k -> Nat]
      BY <2>1, <2>3, <2>4
    <2>6. h[0] = 0
      BY <2>1, <2>2
    <2>7. ASSUME NEW m \in 1..k PROVE h[m] = h[m - 1] + Lengths[m]
      <3>1. m \in 0..k /\ m - 1 \in 0..k /\ m - 1 # k /\ (m # k => m \in 1..(k - 1))
        BY <2>2
      <3>2. h[m - 1] = g[m - 1]
        BY <3>1
      <3>3. h[m] = IF m = k THEN g[k - 1] + Lengths[k] ELSE g[m]
        BY <3>1
      <3> QED
        BY <2>1, <3>1, <3>2, <3>3
    <2> HIDE DEF h
    <2>8. Rec(h, k)
      BY <2>5, <2>6, <2>7
    <2> QED
      BY <2>2, <2>8
  <1> HIDE DEF T
  <1>5. n \in T
    <2>1. 0..n \subseteq T
      BY <1>1, <1>3, <1>4, IntervalInduction
    <2> QED
      BY <1>1, <2>1
  <1>6. PICK g : Rec(g, n)
    BY <1>5 DEF T
  <1>7. g = Def(g)
    <2>1. \A m \in 0..n : m # 0 => m \in 1..n
      BY <1>1
    <2>2. \A m \in 0..n : g[m] = Def(g)[m]
      BY <1>6, <2>1
    <2> QED
      BY <1>6, <2>2
  <1>8. End = Def(End)
    BY <1>2, <1>7
  <1>9. DOMAIN End = 0..n /\ End[0] = 0
    BY <1>1, <1>8
  <1>10. \A m \in 1..n : m - 1 \in 0..n /\ End[m] = End[m - 1] + Lengths[m]
    BY <1>1, <1>8
  <1> DEFINE U == {k \in 0..n : End[k] \in Nat}
  <1>11. 0 \in U
    BY <1>1, <1>9
  <1>12. ASSUME NEW k \in 1..n, k - 1 \in U PROVE k \in U
    BY <1>1, <1>10, <1>12
  <1> HIDE DEF U
  <1>13. 0..n \subseteq U
    BY <1>1, <1>11, <1>12, IntervalInduction
  <1>14. End \in [0..n -> Nat]
    BY <1>8, <1>9, <1>13 DEF U
  <1> QED
    BY <1>1, <1>9, <1>10, <1>14 DEF n

\* Where the thread is within a message, at each place of the program.
WholeInv ==
    /\ written <= Total
    /\ pc # "unknown"
    /\ pc = "handshake" => Len(out) = 0 /\ Len(chunk) + want = Lengths[1]
    /\ pc \in {"select", "type"} => \E m \in Message : Len(out) = End[m]
    /\ pc = "dispatch" => Len(pushed) = 1 /\ pushed[1] = Len(out) + 1
    /\ pc \in {"body", "send"} =>
           \E m \in Message : Len(out) + Len(chunk) + want + left = End[m]
    /\ pc = "send" => want = 0

\* The byte after those of s.
LEMMA NextByte ==
  ASSUME NEW s \in Seq(Nat), NEW t \in Seq(Nat), NEW n \in Nat, s \o t = Bytes(1, n)
  PROVE  Len(s) + Len(t) = n /\ (Len(t) > 0 => t[1] = Len(s) + 1)
  <1>1. /\ Len(s) \in Nat /\ Len(t) \in Nat /\ Len(s \o t) = Len(s) + Len(t)
        /\ \A i \in 1..(Len(s) + Len(t)) :
              (s \o t)[i] = IF i <= Len(s) THEN s[i] ELSE t[i - Len(s)]
    BY ConcatProperties, LenProperties
  <1>2. /\ Len(Bytes(1, n)) = n - 1 + 1
        /\ \A i \in 1..(n - 1 + 1) : Bytes(1, n)[i] = 1 + i - 1
    <2>1. 1 \in Nat /\ n + 1 >= 1
      OBVIOUS
    <2> QED
      BY <2>1, BytesType
  <1>3. n - 1 + 1 = n
    OBVIOUS
  <1>4. Len(s) + Len(t) = n
    BY <1>1, <1>2, <1>3
  <1>5. ASSUME Len(t) > 0 PROVE t[1] = Len(s) + 1
    <2> DEFINE i == Len(s) + 1
    <2>1. i \in 1..(Len(s) + Len(t)) /\ ~(i <= Len(s)) /\ i - Len(s) = 1 /\ 1 + i - 1 = i
      BY <1>1, <1>5
    <2> HIDE DEF i
    <2>2. (s \o t)[i] = t[1] /\ Bytes(1, n)[i] = i
      BY <1>1, <1>2, <1>3, <1>4, <2>1
    <2> QED
      BY <2>2 DEF i
  <1> QED
    BY <1>4, <1>5

\* What has been passed on is what has been read.
LEMMA LengthFacts ==
  ASSUME StreamInv
  PROVE  /\ Len(out) \in Nat /\ Len(chunk) \in Nat /\ Len(pushed) \in Nat
         /\ written \in Nat /\ consumed \in Nat /\ want \in Nat /\ left \in Nat
         /\ consumed <= written
         /\ pushed = <<>> => /\ Len(out) + Len(chunk) = consumed
                             /\ Len(chunk) > 0 => chunk[1] = Len(out) + 1
  <1>1. /\ chunk \in Seq(Nat) /\ pushed \in Seq(Nat) /\ out \in Seq(Nat)
        /\ written \in Nat /\ consumed \in Nat /\ want \in Nat /\ left \in Nat /\ taken \in Nat
    BY DEF StreamInv, CountsInv
  <1>2. consumed <= written
    BY <1>1 DEF StreamInv, InOrderOnce
  <1>3. ASSUME pushed = <<>> PROVE out \o chunk = Bytes(1, consumed)
    <2>1. out \o chunk \in Seq(Nat)
      BY <1>1, ConcatProperties
    <2>2. (out \o chunk) \o <<>> = out \o chunk
      BY <2>1, ConcatEmptySeq
    <2> QED
      BY <1>3, <2>2 DEF StreamInv, InOrderOnce
  <1>4. pushed = <<>> => /\ Len(out) + Len(chunk) = consumed
                         /\ Len(chunk) > 0 => chunk[1] = Len(out) + 1
    BY <1>1, <1>3, NextByte
  <1> QED
    BY <1>1, <1>2, <1>4, LenProperties

\* The lengths of the messages, and where each ends.
LEMMA MessageFacts ==
  /\ Total \in Nat /\ Total = End[Len(Lengths)]
  /\ Len(Lengths) \in Nat /\ Message = 1..Len(Lengths)
  /\ \A m \in Message : /\ Lengths[m] \in Nat \ {0} /\ Headers[m] \in Nat
                         /\ Headers[m] <= Lengths[m] /\ End[m] \in Nat /\ End[m - 1] \in Nat
                         /\ End[m] = End[m - 1] + Lengths[m]
  /\ 1 \in Message /\ End[1] = Lengths[1]
  <1>1. Len(Lengths) \in Nat /\ Len(Lengths) # 0 /\ Message = 1..Len(Lengths)
        /\ Message = DOMAIN Headers
    BY StreamsAssumption, LenProperties, EmptySeq DEF Message
  <1>2. \A m \in Message : Lengths[m] \in Nat \ {0} /\ Headers[m] \in Nat
    BY <1>1, StreamsAssumption, ElementOfSeq
  <1>3. \A m \in Message : Headers[m] <= Lengths[m]
    BY <1>1, StreamsAssumption
  <1>4. \A m \in Message : /\ m \in 0..Len(Lengths) /\ m - 1 \in 0..Len(Lengths)
                           /\ End[m] = End[m - 1] + Lengths[m]
    BY <1>1, EndFacts
  <1>5. \A m \in 0..Len(Lengths) : End[m] \in Nat
    BY EndFacts
  <1>6. 1 \in Message /\ 1 - 1 = 0 /\ Len(Lengths) \in 0..Len(Lengths)
    BY <1>1
  <1>7. End[1] = Lengths[1]
    BY <1>2, <1>4, <1>6, EndFacts
  <1> QED
    BY <1>1, <1>2, <1>3, <1>4, <1>5, <1>6, <1>7 DEF Total

\* The thread starts at the beginning of the first message.
LEMMA WholeInit == Init => WholeInv
  <1> SUFFICES ASSUME Init PROVE WholeInv
    OBVIOUS
  <1>1. /\ chunk = <<>> /\ out = <<>> /\ written = 0 /\ want = Lengths[1] /\ pc = "handshake"
    BY DEF Init
  <1>2. Len(<<>>) = 0 /\ Lengths[1] \in Nat
    BY EmptySeq, MessageFacts
  <1> QED
    BY <1>1, <1>2, MessageFacts DEF WholeInv

\* What is received moves from the bytes that are wanted to those that are there.
LEMMA WholeReceive ==
  ASSUME StreamInv, WholeInv, Receive
  PROVE  WholeInv'
  <1> DEFINE n == Lesser(want, taken' - consumed)
             fresh == Bytes(consumed + 1, consumed + n)
  <1>1. /\ pc \in {"handshake", "type", "body"}
        /\ chunk' = chunk \o fresh /\ want' = want - n
        /\ UNCHANGED <<written, pushed, pc, left, out>>
    BY DEF Receive
  <1>2. /\ taken \in Nat /\ consumed \in Nat /\ want \in Nat /\ left \in Nat /\ chunk \in Seq(Nat)
        /\ Len(chunk) \in Nat /\ Len(out) \in Nat /\ consumed <= taken
    BY LengthFacts DEF StreamInv, CountsInv, InOrderOnce
  <1>3. taken' \in Nat /\ taken' > consumed
    BY <1>2, FetchTakes DEF StreamInv, Receive, Fetch
  <1>4. n \in Nat /\ n <= want
    BY <1>2, <1>3, ReturnsType
  <1> HIDE DEF n
  <1>5. fresh \in Seq(Nat) /\ Len(fresh) = n
    <2>1. /\ consumed + 1 \in Nat /\ consumed + n \in Nat /\ (consumed + n) + 1 >= consumed + 1
          /\ (consumed + n) - (consumed + 1) + 1 = n
      BY <1>2, <1>4
    <2> QED
      BY <2>1, BytesType
  <1> HIDE DEF fresh
  <1>6. Len(chunk') = Len(chunk) + n
    BY <1>1, <1>2, <1>5, ConcatProperties
  <1>7. Len(chunk') + want' = Len(chunk) + want
        /\ Len(out) + Len(chunk') + want' + left = Len(out) + Len(chunk) + want + left
    BY <1>1, <1>2, <1>4, <1>6
  <1> QED
    BY <1>1, <1>7 DEF WholeInv

\* What is sent moves from the chunk to what has been passed on.
LEMMA WholeSend ==
  ASSUME StreamInv, WholeInv, Send
  PROVE  WholeInv'
  <1>1. PICK n \in 1..Len(chunk) : /\ out' = out \o SubSeq(chunk, 1, n)
                                   /\ chunk' = SubSeq(chunk, n + 1, Len(chunk))
    BY DEF Send
  <1>2. pc = "send" /\ UNCHANGED <<written, pc, want, left>>
    BY DEF Send
  <1>3. chunk \in Seq(Nat) /\ out \in Seq(Nat) /\ n \in 0..Len(chunk)
        /\ Len(chunk) \in Nat /\ Len(out) \in Nat /\ want \in Nat /\ left \in Nat
    BY LengthFacts DEF StreamInv, CountsInv
  <1> DEFINE front == SubSeq(chunk, 1, n)
             back == SubSeq(chunk, n + 1, Len(chunk))
  <1>4. front \in Seq(Nat) /\ back \in Seq(Nat) /\ front \o back = chunk
    BY <1>3, SplitSeq
  <1>5. out' = out \o front /\ chunk' = back
    BY <1>1
  <1> HIDE DEF front, back
  <1>6. Len(out') = Len(out) + Len(front) /\ Len(chunk) = Len(front) + Len(chunk')
        /\ Len(front) \in Nat /\ Len(back) \in Nat
    BY <1>3, <1>4, <1>5, ConcatProperties, LenProperties
  <1>7. Len(out') + Len(chunk') + want + left = Len(out) + Len(chunk) + want + left
    BY <1>3, <1>5, <1>6
  <1> QED
    BY <1>2, <1>7 DEF WholeInv

\* The handshake is the first message.
LEMMA WholeHandshake ==
  ASSUME StreamInv, WholeInv, HandshakeDone
  PROVE  WholeInv'
  <1>1. pc = "handshake" /\ want = 0 /\ out' = out \o chunk /\ pc' = "select" /\ written' = written
    BY DEF HandshakeDone
  <1>2. out \in Seq(Nat) /\ chunk \in Seq(Nat) /\ Len(chunk) \in Nat
    BY LengthFacts DEF StreamInv, CountsInv
  <1>3. Len(out) = 0 /\ Len(chunk) + want = Lengths[1]
    BY <1>1 DEF WholeInv
  <1>4. Len(out') = End[1]
    <2>1. Len(out') = Len(out) + Len(chunk)
      BY <1>1, <1>2, ConcatProperties
    <2> QED
      BY <1>1, <1>2, <1>3, <2>1, MessageFacts
  <1> QED
    BY <1>1, <1>4, MessageFacts DEF WholeInv

\* The byte after the end of a message begins another one, since the client has sent it.
LEMMA WholePushBack ==
  ASSUME StreamInv, WholeInv, PushBack
  PROVE  WholeInv'
  <1>1. /\ pc = "type" /\ want = 0 /\ pushed' = chunk /\ UNCHANGED <<written, out>>
        /\ pc' = IF StartingAt(chunk[1]) = {} THEN "unknown" ELSE "dispatch"
    BY DEF PushBack
  <1>2. pushed = <<>> /\ Len(chunk) = 1
    <2>1. pushed = <<>> /\ Len(chunk) + want = 1
      BY <1>1 DEF StreamInv, PushedInv
    <2> QED
      BY <1>1, <2>1, LengthFacts
  <1>3. /\ chunk[1] = Len(out) + 1 /\ Len(out) + 1 <= written /\ Len(out) \in Nat
        /\ written \in Nat /\ written <= Total
    BY <1>2, LengthFacts DEF WholeInv
  <1>4. PICK m \in Message : Len(out) = End[m]
    BY <1>1 DEF WholeInv
  <1>5. m # Len(Lengths)
    BY <1>3, <1>4, MessageFacts
  <1>6. m + 1 \in Message /\ (m + 1) - 1 = m
    BY <1>5, MessageFacts
  <1>7. m + 1 \in StartingAt(chunk[1])
    BY <1>3, <1>4, <1>6 DEF StartingAt
  <1>8. pc' = "dispatch"
    BY <1>1, <1>7
  <1> QED
    BY <1>1, <1>2, <1>3, <1>8 DEF WholeInv

\* Each handler takes the rest of its message and nothing else.
LEMMA WholeDispatch ==
  ASSUME StreamInv, WholeInv, Dispatch
  PROVE  WholeInv'
  <1>1. PICK m \in StartingAt(pushed[1]) :
          \/ Headers[m] = 0 /\ ForwardDirectly(Lengths[m])
          \/ Headers[m] > 0 /\ RecvRaw(Headers[m], Lengths[m] - Headers[m])
    BY DEF Dispatch
  <1>2. pc = "dispatch" /\ UNCHANGED <<written, out>>
    BY DEF Dispatch
  <1>3. m \in Message /\ End[m - 1] + 1 = pushed[1]
    BY DEF StartingAt
  <1>4. Len(pushed) = 1 /\ pushed[1] = Len(out) + 1 /\ Len(out) \in Nat /\ pushed \in Seq(Nat)
    BY <1>2, LengthFacts DEF WholeInv, StreamInv, CountsInv
  <1>5. /\ Len(out) = End[m - 1] /\ Lengths[m] \in Nat \ {0} /\ Headers[m] \in Nat
        /\ Headers[m] <= Lengths[m] /\ End[m] = Len(out) + Lengths[m]
    <2>1. /\ Lengths[m] \in Nat \ {0} /\ Headers[m] \in Nat /\ Headers[m] <= Lengths[m]
          /\ End[m - 1] \in Nat /\ End[m] = End[m - 1] + Lengths[m]
      BY <1>3, MessageFacts
    <2>2. Len(out) = End[m - 1]
      BY <1>3, <1>4, <2>1
    <2> QED
      BY <2>1, <2>2
  <1>6. ASSUME NEW length \in Nat \ {0}
        PROVE  Lesser(length, Len(pushed)) = 1 /\ SubSeq(pushed, 1, 1) = pushed
    <2>1. Lesser(length, Len(pushed)) = 1
      BY <1>4 DEF Lesser
    <2>2. SubSeq(pushed, 1, Len(pushed)) = pushed
      BY <1>4, SubSeqFull
    <2> QED
      BY <1>4, <2>1, <2>2
  <1>7. /\ Len(out) + 1 + 0 + (Lengths[m] - 1) = End[m]
        /\ Len(out) + 1 + (Headers[m] - 1) + (Lengths[m] - Headers[m]) = End[m]
    <2>1. ASSUME NEW o \in Nat, NEW h \in Nat, NEW l \in Nat
          PROVE  o + 1 + 0 + (l - 1) = o + l /\ o + 1 + (h - 1) + (l - h) = o + l
      OBVIOUS
    <2> QED
      BY <1>4, <1>5, <2>1
  <1>8. CASE Headers[m] = 0 /\ ForwardDirectly(Lengths[m])
    <2>1. chunk' = pushed /\ left' = Lengths[m] - 1 /\ want' = 0 /\ pc' = "send"
      BY <1>5, <1>6, <1>8 DEF ForwardDirectly
    <2>2. Len(out') = Len(out) /\ Len(chunk') = 1
      BY <1>2, <1>4, <2>1
    <2>3. Len(out') + Len(chunk') + want' + left' = End[m]
      BY <1>4, <1>5, <1>7, <2>1, <2>2
    <2> QED
      BY <1>2, <1>3, <2>1, <2>3 DEF WholeInv
  <1>9. CASE Headers[m] > 0 /\ RecvRaw(Headers[m], Lengths[m] - Headers[m])
    <2>1. /\ chunk' = pushed /\ want' = Headers[m] - 1 /\ left' = Lengths[m] - Headers[m]
          /\ pc' = "body"
      BY <1>5, <1>6, <1>9 DEF RecvRaw
    <2>2. Len(out') = Len(out) /\ Len(chunk') = 1
      BY <1>2, <1>4, <2>1
    <2>3. Len(out') + Len(chunk') + want' + left' = End[m]
      BY <1>4, <1>5, <1>7, <2>1, <2>2
    <2> QED
      BY <1>2, <1>3, <2>1, <2>3 DEF WholeInv
  <1> QED
    BY <1>1, <1>8, <1>9

\* The next chunk takes from what is left.
LEMMA WholeNextChunk ==
  ASSUME StreamInv, WholeInv, NextChunk
  PROVE  WholeInv'
  <1> DEFINE n == Lesser(left, BufferLength)
  <1>1. /\ pc = "send" /\ chunk = <<>> /\ want' = n /\ left' = left - n
        /\ pc' = IF left = 0 THEN "select" ELSE "body"
        /\ UNCHANGED <<written, out, chunk>>
    BY DEF NextChunk
  <1>2. n \in Nat /\ left \in Nat /\ Len(out) \in Nat /\ Len(chunk) = 0
    BY <1>1, LengthFacts, LesserType, StreamsAssumption, EmptySeq
  <1> HIDE DEF n
  <1>3. PICK m \in Message : Len(out) + Len(chunk) + want + left = End[m]
    BY <1>1 DEF WholeInv
  <1>4. want = 0
    BY <1>1 DEF WholeInv
  <1>5. Len(out) + left = End[m] /\ Len(out) + Len(chunk) + want' + left' = End[m]
    BY <1>1, <1>2, <1>3, <1>4, MessageFacts
  <1>6. CASE left = 0
    <2>1. Len(out) = End[m]
      BY <1>2, <1>5, <1>6
    <2> QED
      BY <1>1, <1>6, <2>1 DEF WholeInv
  <1>7. CASE left # 0
    BY <1>1, <1>5, <1>7 DEF WholeInv
  <1> QED
    BY <1>6, <1>7

\* The other steps leave the thread within its message.
LEMMA WholeQuiet ==
  ASSUME StreamInv, WholeInv,
         ClientWrites \/ ClientCloses \/ EndOfFile \/ Select \/ Received \/ UNCHANGED vars
  PROVE  WholeInv'
  <1> USE DEF WholeInv
  <1>1. CASE ClientWrites
    BY <1>1, LengthFacts, MessageFacts DEF ClientWrites
  <1>2. CASE ClientCloses
    BY <1>2 DEF ClientCloses
  <1>3. CASE EndOfFile
    BY <1>3 DEF EndOfFile
  <1>4. CASE Select
    BY <1>4 DEF Select
  <1>5. CASE Received
    BY <1>5 DEF Received
  <1>6. CASE UNCHANGED vars
    BY <1>6 DEF vars
  <1> QED
    BY <1>1, <1>2, <1>3, <1>4, <1>5, <1>6

\* A type is read only where a message begins (clientReceive, VncTunnel.cpp), for messages
\* of any lengths: what a handler receives and what it forwards directly make one message,
\* the byte that recv_raw and forward_directly take from the buffer (StreamFormatter.h)
\* included.
THEOREM MessagesAreWhole == Spec => []MessagesStayWhole
  <1>1. Init => StreamInv /\ WholeInv
    BY InitStream, WholeInit
  <1>2. StreamInv /\ WholeInv /\ [Next]_vars => (StreamInv /\ WholeInv)'
    BY ReceiveStep, SendStep, HandshakeStep, PushBackStep, DispatchStep, QuietStep,
       WholeReceive, WholeSend, WholeHandshake, WholePushBack, WholeDispatch, WholeNextChunk,
       WholeQuiet DEF Next, Thread, Ended
  <1>3. WholeInv => MessagesStayWhole
    BY DEF WholeInv, MessagesStayWhole
  <1> QED
    BY <1>1, <1>2, <1>3, PTL DEF Spec
=============================================================================
