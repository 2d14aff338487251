------------------------ MODULE TunnelProtocolProofs ------------------------
(***************************************************************************)
(* Proofs about TunnelProtocol, for all formats, lists and bounds.         *)
(*                                                                         *)
(* What a server knows and what is on its way to it are tied together by   *)
(* Tells: the last message of a kind in a queue decides.  Whether the      *)
(* format fits what the tunnel forwards is an argument about time: a client *)
(* that waits for an answer does not change the format, so that DueInv (at *)
(* most one answer is due) and ChangeInv (none is due before a change) carry *)
(* MeasuredAsSent, until the tunnel itself requests an update.  OfferedInv *)
(* follows the encodings from the client through both lists, the server and *)
(* its updates back to the client; UpdateInv and FlatFacts count rectangles. *)
(***************************************************************************)
EXTENDS TunnelProtocol, SequenceFacts

\* What may be on its way.
ClientMessage ==
    {Request} \cup {SetPixelFormat(f) : f \in Formats} \cup {SetEncodings(l) : l \in Lists}
TunnelMessage ==
    {Request} \cup {SetPixelFormat(f) : f \in Format}
              \cup {SetEncodings(l) : l \in Seq(Known)}
UpdateMessage ==
    [count : 0 .. MaxRects, rects : Seq(Known), format : Format, from : Servers]

\* What is on its way has a type too.
TypeInv ==
    /\ TypeOK
    /\ fromClient \in Seq(ClientMessage) /\ toServer \in Seq(TunnelMessage)
    /\ fromServer = <<>> \/ \E u \in UpdateMessage : fromServer = <<u>>
    /\ listed \in Seq(Known) /\ serverList \in Seq(Known)

\* What a message of the two kinds that change something tells.
Told(m) == IF m.type = "SetPixelFormat" THEN m.format ELSE ToSet(m.list)

\* Who knows old and reads all of q ends up with new: the last message of the kind.
Tells(q, kind, old, new) ==
    \/ old = new /\ \A i \in 1 .. Len(q) : q[i].type # kind
    \/ \E i \in 1 .. Len(q) :
         /\ q[i].type = kind /\ Told(q[i]) = new
         /\ \A j \in 1 .. Len(q) : j > i => q[j].type # kind

\* The server is going to know the format that the tunnel measures in.
FormatInv == Tells(toServer, "SetPixelFormat", serverFormat, Hton(pixelFormat))

\* The tunnel is going to know the format that the client has asked for.
WantedInv ==
    thread = "serve" => Tells(fromClient, "SetPixelFormat", Hton(pixelFormat), wanted)

\* The server's list is the client's, and the last server is going to know it.
ListInv ==
    /\ tightDisabled => greeter
    /\ \/ listed = <<>> /\ serverList = <<>>
       \/ ToSet(serverList) = (IF tightDisabled THEN ToSet(listed) \ {"Tight"}
                               ELSE ToSet(listed)) \cup {"DesktopName"}
    /\ ~greeter => Tells(toServer, "SetEncodings", serverKnows, ToSet(serverList))

\* No list in q has an encoding outside E.
Within(q, E) ==
    \A i \in 1 .. Len(q) : q[i].type = "SetEncodings" => Told(q[i]) \subseteq E

\* All encodings come from the client, but for the desktop name, and Raw.
OfferedInv ==
    /\ ToSet(listed) \subseteq offered
    /\ Within(fromClient, offered)
    /\ ToSet(serverList) \subseteq offered \cup {"DesktopName"}
    /\ Within(toServer, offered \cup {"DesktopName"})
    /\ serverKnows \subseteq offered \cup {"DesktopName"}
    /\ fromServer # <<>>
         => ToSet(fromServer[1].rects) \subseteq offered \cup {"DesktopName", "Raw"}
    /\ nameQueued => "DesktopName" \in offered

\* Updates come from the current server, and no other has been read since the reset.
StreamInv ==
    /\ resetQueued \/ streams \in {0, server}
    /\ fromServer # <<>> => fromServer[1].from = server

\* An update announces what it has, or the maximum and ends with a LastRect.
Exact(u) == /\ "LastRect" \notin ToSet(u.rects)
            /\ u.count = Len(u.rects) /\ u.count <= MaxContents
OpenEnded(u) == \E r \in Seq(Known) :
    /\ u.rects = Append(r, "LastRect") /\ "LastRect" \notin ToSet(r)
    /\ u.count = MaxRects /\ Len(r) + 2 <= MaxRects

UpdateInv == fromServer # <<>> => Exact(fromServer[1]) \/ OpenEnded(fromServer[1])

Asks(q) == \E i \in 1 .. Len(q) : q[i].type = "Request"
AsksOnce(q) ==
    \A i, j \in 1 .. Len(q) : q[i].type = "Request" /\ q[j].type = "Request" => i = j

\* At most one answer is due, and only while the client waits: nothing is as far as
\* the server's end before what follows it, unless the tunnel has asked as well.
DueInv == ~unsolicited =>
    /\ fromServer # <<>> => asked = 0
    /\ fromServer # <<>> \/ asked # 0 => ~Asks(toServer)
    /\ fromServer # <<>> \/ asked # 0 \/ Asks(toServer) => ~Asks(fromClient)
    /\ fromServer # <<>> \/ asked # 0 \/ Asks(toServer) \/ Asks(fromClient) => waiting
    /\ asked \in {0, 1} /\ AsksOnce(toServer) /\ AsksOnce(fromClient)

\* No answer is due before a change of the format is read.
Quiet == fromServer = <<>> /\ asked = 0
QuietBefore(q) ==
    \A i, j \in 1 .. Len(q) :
        q[i].type = "SetPixelFormat" /\ q[j].type = "Request" => i < j
Changes(q) == \E i \in 1 .. Len(q) : q[i].type = "SetPixelFormat"

ChangeInv ==
    /\ ~unsolicited =>
         /\ QuietBefore(fromClient)
         /\ Changes(fromClient) => Quiet /\ ~Asks(toServer)
    /\ ~surprised =>
         /\ QuietBefore(toServer)
         /\ Changes(toServer) => Quiet
         /\ fromServer # <<>> => fromServer[1].format.bits = pixelFormat.bits
    /\ MeasuredAsSent

\* What the three kinds of messages are made of.
LEMMA Messages ==
  /\ Request.type = "Request"
  /\ \A f : SetPixelFormat(f).type = "SetPixelFormat" /\ SetPixelFormat(f).format = f
  /\ \A l : SetEncodings(l).type = "SetEncodings" /\ SetEncodings(l).list = l
  BY DEF Request, SetPixelFormat, SetEncodings

\* Conversions change neither the type nor the size of a pixel, and undo each other
\* for a format in the host's byte order.
LEMMA FormatTypes ==
  /\ \A f \in Format : Ntoh(f) \in Format /\ Hton(f) \in Format
                       /\ Ntoh(f).bits = f.bits /\ Hton(f).bits = f.bits
  /\ \A f \in Format : f.big = HostBig => Hton(Ntoh(f)) = f
  /\ Native[1] \in Format /\ Native[2] \in Format
  /\ Native[1].big = HostBig /\ Native[2].big = HostBig
  /\ Formats \subseteq Format
  <1>1. /\ HostBig \in BOOLEAN /\ Formats \subseteq Format
        /\ Native[1] \in Formats /\ Native[2] \in Formats
        /\ Native[1].big = HostBig /\ Native[2].big = HostBig
    BY ProtocolAssumption DEF Servers
  <1>2. \A f \in Format : Ntoh(f) \in Format /\ Hton(f) \in Format
                       /\ Ntoh(f).bits = f.bits /\ Hton(f).bits = f.bits
    BY <1>1 DEF Ntoh, Hton, Format
  <1>3. \A f \in Format : f.big = HostBig => Hton(Ntoh(f)) = f
    BY <1>1 DEF Ntoh, Hton, Format
  <1> QED
    BY <1>1, <1>2, <1>3

\* A queue whose first message is read ...
LEMMA TailElements ==
  ASSUME NEW S, NEW q \in Seq(S), q # <<>>
  PROVE  /\ Head(q) = q[1] /\ q[1] \in S /\ 1 \in 1 .. Len(q)
         /\ Tail(q) \in Seq(S) /\ Len(q) \in Nat /\ Len(Tail(q)) = Len(q) - 1
         /\ \A i \in 1 .. Len(Tail(q)) : Tail(q)[i] = q[i + 1] /\ i + 1 \in 1 .. Len(q)
  BY HeadTailProperties, EmptySeq, LenProperties, ElementOfSeq

\* ... and one to which a message is added.
LEMMA AppendElements ==
  ASSUME NEW S, NEW q \in Seq(S), NEW m \in S
  PROVE  /\ Append(q, m) \in Seq(S) /\ Len(q) \in Nat /\ Len(Append(q, m)) = Len(q) + 1
         /\ Append(q, m)[Len(q) + 1] = m
         /\ \A i \in 1 .. Len(q) : Append(q, m)[i] = q[i]
         /\ \A i \in 1 .. Len(q) + 1 : i = Len(q) + 1 \/ i \in 1 .. Len(q)
  BY AppendProperties, LenProperties

\* The singleton lists one of which stands for each element in a concatenation.
LEMMA AmongIsFlat ==
  ASSUME NEW l \in Seq(STRING), NEW E \in SUBSET Known
  PROVE  [i \in DOMAIN l |-> IF l[i] \in E THEN <<l[i]>> ELSE <<>>] \in Seq(Seq(Known))
  <1> DEFINE ss == [i \in 1 .. Len(l) |-> IF l[i] \in E THEN <<l[i]>> ELSE <<>>]
  <1>1. Len(l) \in Nat /\ DOMAIN l = 1 .. Len(l)
    BY LenProperties
  <1>2. \A i \in 1 .. Len(l) : ss[i] \in Seq(Known)
    BY EmptySeq
  <1>3. ss \in Seq(Seq(Known))
    BY <1>1, <1>2
  <1> QED
    BY <1>1, <1>3

\* The elements of a list that are in E.
LEMMA AmongFacts ==
  ASSUME NEW l \in Seq(STRING), NEW E \in SUBSET Known
  PROVE  /\ Among(l, E) \in Seq(Known)
         /\ ToSet(Among(l, E)) = ToSet(l) \cap E
  <1> DEFINE ss == [i \in DOMAIN l |-> IF l[i] \in E THEN <<l[i]>> ELSE <<>>]
  <1>1. ss \in Seq(Seq(Known))
    BY AmongIsFlat
  <1>2. Among(l, E) \in Seq(Known)
    BY <1>1, FlattenType DEF Among
  <1>3. DOMAIN l = 1 .. Len(l) /\ Len(l) \in Nat /\ Len(ss) = Len(l)
    BY <1>1, LenProperties
  <1>4. ASSUME NEW e
        PROVE  e \in ToSet(Among(l, E)) <=> e \in ToSet(l) /\ e \in E
    <2>1. e \in ToSet(Among(l, E)) <=> \E i \in 1 .. Len(ss) : e \in ToSet(ss[i])
      <3>1. Among(l, E) = FlattenSeq(ss)
        BY DEF Among
      <3> HIDE DEF ss
      <3> QED
        BY <1>1, <3>1, FlattenElements
    <2>2. \A i \in 1 .. Len(ss) : e \in ToSet(ss[i]) <=> l[i] \in E /\ l[i] = e
      <3> TAKE i \in 1 .. Len(ss)
      <3>1. CASE l[i] \in E
        <4>1. ss[i] = <<l[i]>>
          BY <1>3, <3>1
        <4> HIDE DEF ss
        <4> QED
          BY <3>1, <4>1 DEF ToSet
      <3>2. CASE l[i] \notin E
        <4>1. ss[i] = <<>>
          BY <1>3, <3>2
        <4> HIDE DEF ss
        <4> QED
          BY <3>2, <4>1 DEF ToSet
      <3> QED
        BY <3>1, <3>2
    <2> HIDE DEF ss
    <2>3. e \in ToSet(l) <=> \E i \in 1 .. Len(l) : l[i] = e
      BY <1>3 DEF ToSet
    <2> QED
      BY <1>3, <2>1, <2>2, <2>3
  <1> HIDE DEF ss
  <1> QED
    BY <1>2, <1>4

\* The server's list: the client's, perhaps without Tight, and desktop names.
LEMMA FilteredFacts ==
  ASSUME NEW l \in Seq(STRING)
  PROVE  /\ Filtered(l) \in Seq(Known)
         /\ ToSet(Filtered(l)) =
              (IF tightDisabled THEN ToSet(Among(l, Known)) \ {"Tight"}
                                ELSE ToSet(Among(l, Known))) \cup {"DesktopName"}
  <1> DEFINE E == IF tightDisabled THEN Known \ {"Tight"} ELSE Known
             rest == Among(l, E)
  <1>1. E \subseteq Known /\ "DesktopName" \in E /\ "DesktopName" \in Known
    BY DEF Known
  <1>2. /\ rest \in Seq(Known) /\ ToSet(rest) = ToSet(l) \cap E
        /\ ToSet(Among(l, Known)) = ToSet(l) \cap Known
    BY <1>1, AmongFacts
  <1>3. Contains(l, "DesktopName") <=> "DesktopName" \in ToSet(l)
    BY LenProperties DEF Contains, ToSet
  <1>4. Append(rest, "DesktopName") \in Seq(Known)
        /\ ToSet(Append(rest, "DesktopName")) = ToSet(rest) \cup {"DesktopName"}
    <2> HIDE DEF rest
    <2> DEFINE new == Append(rest, "DesktopName")
    <2>1. /\ new \in Seq(Known) /\ Len(rest) \in Nat /\ Len(new) = Len(rest) + 1
          /\ new[Len(rest) + 1] = "DesktopName"
          /\ \A i \in 1 .. Len(rest) : new[i] = rest[i]
          /\ \A i \in 1 .. Len(rest) + 1 : i = Len(rest) + 1 \/ i \in 1 .. Len(rest)
      BY <1>1, <1>2, AppendElements
    <2>2. DOMAIN new = 1 .. Len(rest) + 1 /\ DOMAIN rest = 1 .. Len(rest)
      BY <1>2, <2>1, LenProperties
    <2>3. 1 .. Len(rest) + 1 = 1 .. Len(rest) \cup {Len(rest) + 1}
      BY <2>1
    <2> HIDE DEF new
    <2>4. ToSet(new) = ToSet(rest) \cup {"DesktopName"}
      BY <2>1, <2>2, <2>3 DEF ToSet
    <2> QED
      BY <2>1, <2>4 DEF new
  <1>5. Filtered(l) = IF Contains(l, "DesktopName") THEN rest ELSE Append(rest, "DesktopName")
    BY DEF Filtered
  <1>6. CASE Contains(l, "DesktopName")
    BY <1>1, <1>2, <1>3, <1>5, <1>6
  <1>7. CASE ~Contains(l, "DesktopName")
    BY <1>1, <1>2, <1>4, <1>5, <1>7
  <1> QED
    BY <1>6, <1>7
-----------------------------------------------------------------------------
(* What reading and sending does to what a queue tells *)

\* An empty queue tells nothing.
LEMMA TellsNothing ==
  ASSUME NEW kind, NEW old, NEW new
  PROVE  Tells(<<>>, kind, old, new) <=> old = new
  BY DEF Tells

\* Who reads the first message knows what it tells.
LEMMA TellsAfterTail ==
  ASSUME NEW S, NEW q \in Seq(S), q # <<>>, NEW kind, NEW old, NEW new,
         Tells(q, kind, old, new)
  PROVE  Tells(Tail(q), kind, IF q[1].type = kind THEN Told(q[1]) ELSE old, new)
  <1>1. /\ 1 \in 1 .. Len(q) /\ Len(q) \in Nat /\ Len(Tail(q)) = Len(q) - 1
        /\ \A i \in 1 .. Len(Tail(q)) : Tail(q)[i] = q[i + 1] /\ i + 1 \in 1 .. Len(q)
    BY TailElements
  <1>2. CASE old = new /\ \A i \in 1 .. Len(q) : q[i].type # kind
    BY <1>1, <1>2 DEF Tells
  <1>3. ASSUME NEW i \in 1 .. Len(q), q[i].type = kind, Told(q[i]) = new,
               \A j \in 1 .. Len(q) : j > i => q[j].type # kind
        PROVE  Tells(Tail(q), kind, IF q[1].type = kind THEN Told(q[1]) ELSE old, new)
    <2>1. CASE i = 1
      <3>1. \A j \in 1 .. Len(Tail(q)) : Tail(q)[j].type # kind
        BY <1>1, <1>3, <2>1
      <3> QED
        BY <1>3, <2>1, <3>1 DEF Tells
    <2>2. CASE i # 1
      <3>1. i - 1 \in 1 .. Len(Tail(q)) /\ Tail(q)[i - 1] = q[i]
        BY <1>1, <2>2
      <3>2. \A j \in 1 .. Len(Tail(q)) : j > i - 1 => Tail(q)[j].type # kind
        BY <1>1, <1>3
      <3> QED
        BY <1>3, <3>1, <3>2 DEF Tells
    <2> QED
      BY <2>1, <2>2
  <1> QED
    BY <1>2, <1>3 DEF Tells

\* A message of another kind changes nothing; one of the kind is the last.
LEMMA TellsAfterAppend ==
  ASSUME NEW S, NEW q \in Seq(S), NEW m \in S, NEW kind, NEW old, NEW new
  PROVE  /\ m.type # kind /\ Tells(q, kind, old, new) => Tells(Append(q, m), kind, old, new)
         /\ m.type = kind /\ Told(m) = new => Tells(Append(q, m), kind, old, new)
  <1>1. /\ Len(q) \in Nat /\ Len(Append(q, m)) = Len(q) + 1
        /\ Append(q, m)[Len(q) + 1] = m
        /\ \A i \in 1 .. Len(q) : Append(q, m)[i] = q[i]
        /\ \A i \in 1 .. Len(q) + 1 : i = Len(q) + 1 \/ i \in 1 .. Len(q)
    BY AppendElements
  <1>2. ASSUME m.type # kind, Tells(q, kind, old, new)
        PROVE  Tells(Append(q, m), kind, old, new)
    <2>1. CASE old = new /\ \A i \in 1 .. Len(q) : q[i].type # kind
      <3>1. \A i \in 1 .. Len(q) + 1 : Append(q, m)[i].type # kind
        BY <1>1, <1>2, <2>1
      <3> QED
        BY <1>1, <2>1, <3>1 DEF Tells
    <2>2. ASSUME NEW i \in 1 .. Len(q), q[i].type = kind, Told(q[i]) = new,
                 \A j \in 1 .. Len(q) : j > i => q[j].type # kind
          PROVE  Tells(Append(q, m), kind, old, new)
      <3>1. i \in 1 .. Len(q) + 1 /\ Append(q, m)[i] = q[i]
        BY <1>1
      <3>2. \A j \in 1 .. Len(q) + 1 : j > i => Append(q, m)[j].type # kind
        BY <1>1, <1>2, <2>2
      <3> QED
        BY <1>1, <2>2, <3>1, <3>2 DEF Tells
    <2> QED
      BY <1>2, <2>1, <2>2 DEF Tells
  <1>3. ASSUME m.type = kind, Told(m) = new
        PROVE  Tells(Append(q, m), kind, old, new)
    <2>1. Len(q) + 1 \in 1 .. Len(q) + 1
          /\ \A j \in 1 .. Len(q) + 1 : ~(j > Len(q) + 1)
      BY <1>1
    <2> QED
      BY <1>1, <1>3, <2>1 DEF Tells
  <1> QED
    BY <1>2, <1>3

\* Requests and changes of the format in a queue whose first message is read ...
LEMMA AsksAfterTail ==
  ASSUME NEW S, NEW q \in Seq(S), q # <<>>
  PROVE  /\ Asks(Tail(q)) => Asks(q)
         /\ AsksOnce(q) => AsksOnce(Tail(q))
         /\ q[1].type = "Request" => Asks(q) /\ (AsksOnce(q) => ~Asks(Tail(q)))
         /\ Changes(Tail(q)) => Changes(q)
         /\ q[1].type = "SetPixelFormat" => Changes(q)
         /\ QuietBefore(q) => QuietBefore(Tail(q))
         /\ QuietBefore(q) /\ q[1].type = "Request" => ~Changes(q)
  <1>1. /\ 1 \in 1 .. Len(q) /\ Len(q) \in Nat /\ Len(Tail(q)) = Len(q) - 1
        /\ \A i \in 1 .. Len(Tail(q)) : Tail(q)[i] = q[i + 1] /\ i + 1 \in 1 .. Len(q)
    BY TailElements
  <1>2. Asks(Tail(q)) => Asks(q)
    BY <1>1 DEF Asks
  <1>3. AsksOnce(q) => AsksOnce(Tail(q))
    BY <1>1 DEF AsksOnce
  <1>4. q[1].type = "Request" => Asks(q) /\ (AsksOnce(q) => ~Asks(Tail(q)))
    BY <1>1 DEF Asks, AsksOnce
  <1>5. Changes(Tail(q)) => Changes(q)
    BY <1>1 DEF Changes
  <1>6. q[1].type = "SetPixelFormat" => Changes(q)
    BY <1>1 DEF Changes
  <1>7. QuietBefore(q) => QuietBefore(Tail(q))
    BY <1>1 DEF QuietBefore
  <1>8. QuietBefore(q) /\ q[1].type = "Request" => ~Changes(q)
    BY <1>1 DEF QuietBefore, Changes
  <1> QED
    BY <1>2, <1>3, <1>4, <1>5, <1>6, <1>7, <1>8

\* ... and in one to which a message is added.
LEMMA AsksAfterAppend ==
  ASSUME NEW S, NEW q \in Seq(S), NEW m \in S
  PROVE  /\ Asks(Append(q, m)) <=> Asks(q) \/ m.type = "Request"
         /\ AsksOnce(q) /\ (m.type = "Request" => ~Asks(q)) => AsksOnce(Append(q, m))
         /\ Changes(Append(q, m)) <=> Changes(q) \/ m.type = "SetPixelFormat"
         /\ QuietBefore(q) /\ (m.type = "SetPixelFormat" => ~Asks(q))
              => QuietBefore(Append(q, m))
  <1> DEFINE n == Len(q)
             r == Append(q, m)
  <1>1. /\ n \in Nat /\ Len(r) = n + 1 /\ r[n + 1] = m /\ n + 1 \in 1 .. n + 1
        /\ \A i \in 1 .. n : r[i] = q[i] /\ i \in 1 .. n + 1 /\ i < n + 1
        /\ \A i \in 1 .. n + 1 : i = n + 1 \/ i \in 1 .. n
    BY AppendElements
  <1> HIDE DEF n, r
  <1>2. Asks(r) <=> Asks(q) \/ m.type = "Request"
    BY <1>1 DEF Asks, n
  <1>3. AsksOnce(q) /\ (m.type = "Request" => ~Asks(q)) => AsksOnce(r)
    <2> SUFFICES ASSUME AsksOnce(q), m.type = "Request" => ~Asks(q),
                        NEW i \in 1 .. n + 1, NEW j \in 1 .. n + 1,
                        r[i].type = "Request", r[j].type = "Request"
                 PROVE  i = j
      BY <1>1 DEF AsksOnce
    <2> QED
      BY <1>1 DEF Asks, AsksOnce, n
  <1>4. Changes(r) <=> Changes(q) \/ m.type = "SetPixelFormat"
    BY <1>1 DEF Changes, n
  <1>5. QuietBefore(q) /\ (m.type = "SetPixelFormat" => ~Asks(q)) => QuietBefore(r)
    <2> SUFFICES ASSUME QuietBefore(q), m.type = "SetPixelFormat" => ~Asks(q),
                        NEW i \in 1 .. n + 1, NEW j \in 1 .. n + 1,
                        r[i].type = "SetPixelFormat", r[j].type = "Request"
                 PROVE  i < j
      BY <1>1 DEF QuietBefore
    <2>1. CASE i \in 1 .. n
      BY <1>1, <2>1 DEF QuietBefore, n
    <2>2. CASE i = n + 1
      <3>1. m.type = "SetPixelFormat" /\ ~Asks(q) /\ m.type # "Request"
        BY <1>1, <2>2
      <3> QED
        BY <1>1, <2>2, <3>1 DEF Asks, n
    <2> QED
      BY <1>1, <2>1, <2>2
  <1> QED
    BY <1>2, <1>3, <1>4, <1>5 DEF r
-----------------------------------------------------------------------------
(* Types *)

\* What a server puts into an update.
LEMMA ContentsFacts ==
  ASSUME NEW K, K \subseteq Known, NEW rects \in Contents(K)
  PROVE  /\ rects \in Seq(Known) /\ Len(rects) \in 1 .. MaxContents
         /\ ToSet(rects) \subseteq (K \cup {"Raw"}) \ {"LastRect"}
  <1>1. MaxContents \in Nat
    BY ProtocolAssumption
  <1>2. PICK n \in 1 .. MaxContents : rects \in [1 .. n -> (K \cup {"Raw"}) \ {"LastRect"}]
    BY DEF Contents
  <1>3. (K \cup {"Raw"}) \ {"LastRect"} \subseteq Known
    BY DEF Known
  <1>4. n \in Nat
    BY <1>1, <1>2
  <1>5. rects \in Seq(Known) /\ Len(rects) = n /\ DOMAIN rects = 1 .. n
    BY <1>2, <1>3, <1>4
  <1> QED
    BY <1>2, <1>5 DEF ToSet

\* What the messages on their way can be.
LEMMA MessageTypes ==
  /\ \A m \in ClientMessage :
       /\ m.type \in {"Request", "SetPixelFormat", "SetEncodings"}
       /\ m.type = "Request" => m = Request
       /\ m.type = "SetPixelFormat" => m.format \in Formats
       /\ m.type = "SetEncodings" => m.list \in Lists
  /\ \A m \in TunnelMessage :
       /\ m.type \in {"Request", "SetPixelFormat", "SetEncodings"}
       /\ m.type = "Request" <=> m = Request
       /\ m.type = "SetPixelFormat" => m.format \in Format
       /\ m.type = "SetEncodings" => m.list \in Seq(Known)
  /\ Request \in ClientMessage /\ Request \in TunnelMessage
  /\ \A f \in Formats : SetPixelFormat(f) \in ClientMessage
  /\ \A l \in Lists : SetEncodings(l) \in ClientMessage
  /\ \A f \in Format : SetPixelFormat(f) \in TunnelMessage
  /\ \A l \in Seq(Known) : SetEncodings(l) \in TunnelMessage
  <1>1. ASSUME NEW m \in ClientMessage
        PROVE  /\ m.type \in {"Request", "SetPixelFormat", "SetEncodings"}
               /\ m.type = "Request" => m = Request
               /\ m.type = "SetPixelFormat" => m.format \in Formats
               /\ m.type = "SetEncodings" => m.list \in Lists
    <2>1. CASE m = Request
      BY <2>1, Messages
    <2>2. ASSUME NEW f \in Formats, m = SetPixelFormat(f)
          PROVE  m.type = "SetPixelFormat" /\ m.format \in Formats
      BY <2>2, Messages
    <2>3. ASSUME NEW l \in Lists, m = SetEncodings(l)
          PROVE  m.type = "SetEncodings" /\ m.list \in Lists
      BY <2>3, Messages
    <2> QED
      BY <2>1, <2>2, <2>3, Messages DEF ClientMessage
  <1>2. ASSUME NEW m \in TunnelMessage
        PROVE  /\ m.type \in {"Request", "SetPixelFormat", "SetEncodings"}
               /\ m.type = "Request" <=> m = Request
               /\ m.type = "SetPixelFormat" => m.format \in Format
               /\ m.type = "SetEncodings" => m.list \in Seq(Known)
    <2>1. CASE m = Request
      BY <2>1, Messages
    <2>2. ASSUME NEW f \in Format, m = SetPixelFormat(f)
          PROVE  m.type = "SetPixelFormat" /\ m.format \in Format
      BY <2>2, Messages
    <2>3. ASSUME NEW l \in Seq(Known), m = SetEncodings(l)
          PROVE  m.type = "SetEncodings" /\ m.list \in Seq(Known)
      BY <2>3, Messages
    <2> QED
      BY <2>1, <2>2, <2>3, Messages DEF TunnelMessage
  <1>3. /\ Request \in ClientMessage /\ Request \in TunnelMessage
        /\ \A f \in Formats : SetPixelFormat(f) \in ClientMessage
        /\ \A l \in Lists : SetEncodings(l) \in ClientMessage
        /\ \A f \in Format : SetPixelFormat(f) \in TunnelMessage
        /\ \A l \in Seq(Known) : SetEncodings(l) \in TunnelMessage
    BY DEF ClientMessage, TunnelMessage
  <1> QED
    BY <1>1, <1>2, <1>3

\* The elements of a typed sequence.
LEMMA ToSetTypes ==
  ASSUME NEW S, NEW q \in Seq(S)
  PROVE  ToSet(q) \subseteq S
  BY LenProperties, ElementOfSeq DEF ToSet

\* The initial states are typed.
LEMMA TypeInit ==
  ASSUME Init
  PROVE  TypeInv
  <1>1. /\ Ntoh(Native[1]) \in Format /\ Native[1] \in Format /\ Hton(Ntoh(Native[1])) \in Format
    BY FormatTypes
  <1>2. ToSet(<<>>) = {}
    BY DEF ToSet
  <1>3. <<>> \in Seq(Known) /\ <<>> \in Seq(ClientMessage) /\ <<>> \in Seq(TunnelMessage)
    OBVIOUS
  <1>4. 0 \in 0 .. MaxRects /\ 0 \in 0 .. MaxChanges
    BY ProtocolAssumption
  <1>5. shown.count = 0 /\ asked = 0 /\ changes = 0 /\ streams = 0 /\ fromServer = <<>>
    BY DEF Init, Nothing
  <1>6. /\ listed \in Seq(Known) /\ serverList \in Seq(Known)
        /\ fromClient \in Seq(ClientMessage) /\ toServer \in Seq(TunnelMessage)
        /\ ToSet(listed) = {} /\ ToSet(serverList) = {}
    BY <1>2, <1>3 DEF Init
  <1>7. /\ thread = "serve" /\ server = 1 /\ serverKnows = {}
        /\ {pixelFormat, serverFormat, wanted} \subseteq Format
        /\ {greeter, tightDisabled, resetQueued, nameQueued, waiting, unsolicited,
             surprised} \subseteq BOOLEAN
    BY <1>1 DEF Init
  <1> QED
    BY <1>4, <1>5, <1>6, <1>7 DEF TypeInv, TypeOK, Servers

\* Every action keeps the types.
LEMMA TypeStep ==
  ASSUME TypeInv, [Next]_vars
  PROVE  TypeInv'
  <1> USE DEF TypeInv
  <1>a. /\ MaxRects \in Nat /\ MaxChanges \in Nat /\ MaxContents \in 1 .. MaxRects
        /\ \A l \in Lists : l \in Seq(STRING)
        /\ Formats \subseteq Format /\ Native[1] \in Format /\ Native[2] \in Format
        /\ 0 \in 0 .. MaxRects
    BY ProtocolAssumption, FormatTypes
  <1>b. Silent => shown'.count = 0
    BY DEF Silent, Nothing
  <1>c. ASSUME NEW m \in ClientMessage, ClientSends(m)
        PROVE  fromClient' \in Seq(ClientMessage) /\ shown'.count = 0
    BY <1>b, <1>c, AppendElements DEF ClientSends
  <1>d. ASSUME NEW m, ClientReceive(m)
        PROVE  /\ m \in ClientMessage /\ fromClient' \in Seq(ClientMessage)
               /\ m = fromClient[1] /\ fromClient # <<>> /\ thread = "serve"
    <2>1. fromClient # <<>>
      BY <1>d DEF ClientReceive
    <2>2. Head(fromClient) = fromClient[1] /\ fromClient[1] \in ClientMessage
          /\ Tail(fromClient) \in Seq(ClientMessage)
      BY <2>1, TailElements
    <2> QED
      BY <1>d, <2>2 DEF ClientReceive
  <1>1. CASE ClientRequests
    <2>1. fromClient' \in Seq(ClientMessage) /\ shown'.count = 0
      BY <1>1, <1>c, MessageTypes DEF ClientRequests
    <2> QED
      BY <1>1, <1>a, <2>1 DEF ClientRequests, ClientSends, tunnel, xvnc, ghosts, TypeOK
  <1>2. ASSUME NEW f \in Formats, ClientSetsPixelFormat(f)
        PROVE  TypeInv'
    <2>1. fromClient' \in Seq(ClientMessage) /\ shown'.count = 0
      BY <1>2, <1>c, MessageTypes DEF ClientSetsPixelFormat
    <2>2. changes' \in 0 .. MaxChanges /\ wanted' \in Format
      BY <1>2, <1>a DEF ClientSetsPixelFormat, TypeOK
    <2> QED
      BY <1>2, <1>a, <2>1, <2>2
      DEF ClientSetsPixelFormat, ClientSends, tunnel, xvnc, ghosts, TypeOK
  <1>3. ASSUME NEW l \in Lists, ClientSetsEncodings(l)
        PROVE  TypeInv'
    <2>1. fromClient' \in Seq(ClientMessage) /\ shown'.count = 0
      BY <1>3, <1>c, MessageTypes DEF ClientSetsEncodings
    <2>2. changes' \in 0 .. MaxChanges
      BY <1>3, <1>a DEF ClientSetsEncodings, TypeOK
    <2> QED
      BY <1>3, <1>a, <2>1, <2>2
      DEF ClientSetsEncodings, ClientSends, tunnel, xvnc, ghosts, TypeOK
  <1>4. CASE ServerReads
    <2> DEFINE m == Head(toServer)
    <2>1. toServer # <<>>
      BY <1>4 DEF ServerReads
    <2>2. m \in TunnelMessage /\ Tail(toServer) \in Seq(TunnelMessage)
      BY <2>1, TailElements
    <2>3. /\ m.type = "SetPixelFormat" => m.format \in Format
          /\ m.type = "SetEncodings" => ToSet(m.list) \subseteq Known
      BY <2>2, MessageTypes, ToSetTypes
    <2>4. toServer' = Tail(toServer)
          /\ asked' = (IF m = Request THEN asked + 1 ELSE asked)
          /\ serverFormat' = (IF m.type = "SetPixelFormat" THEN m.format ELSE serverFormat)
          /\ serverKnows' = (IF m.type = "SetEncodings" THEN ToSet(m.list) ELSE serverKnows)
          /\ shown'.count = 0
      BY <1>4, <1>b DEF ServerReads
    <2> HIDE DEF m
    <2>5. asked' \in Nat /\ serverFormat' \in Format /\ serverKnows' \subseteq Known
      BY <2>3, <2>4 DEF TypeOK
    <2> QED
      BY <1>4, <1>a, <2>2, <2>4, <2>5 DEF ServerReads, tunnel, client, ghosts, TypeOK
  <1>5. CASE ServerUpdates
    <2>1. asked' \in Nat /\ shown'.count = 0
      BY <1>5, <1>b DEF ServerUpdates, TypeOK
    <2>2. \E u \in UpdateMessage : fromServer' = <<u>>
      <3>1. serverKnows \subseteq Known /\ serverFormat \in Format /\ server \in Servers
        BY DEF TypeOK
      <3>2. PICK rects \in Contents(serverKnows) :
              \/ fromServer' = <<Update(Len(rects), rects)>>
              \/ fromServer' = <<Update(MaxRects, Append(rects, "LastRect"))>>
        BY <1>5 DEF ServerUpdates
      <3>3. rects \in Seq(Known) /\ Len(rects) \in 1 .. MaxContents
        BY <3>1, ContentsFacts
      <3>4. Append(rects, "LastRect") \in Seq(Known) /\ "LastRect" \in Known
        BY <3>3, AppendElements DEF Known
      <3>5. Len(rects) \in 0 .. MaxRects /\ MaxRects \in 0 .. MaxRects
        BY <1>a, <3>3
      <3>6. Update(Len(rects), rects) \in UpdateMessage
            /\ Update(MaxRects, Append(rects, "LastRect")) \in UpdateMessage
        BY <3>1, <3>3, <3>4, <3>5 DEF Update, UpdateMessage
      <3> QED
        BY <3>2, <3>6
    <2> QED
      BY <1>5, <1>a, <2>1, <2>2 DEF ServerUpdates, tunnel, client, ghosts, TypeOK
  <1>6. CASE ProcessRequest
    <2>1. fromClient' \in Seq(ClientMessage) /\ shown'.count = 0
      BY <1>6, <1>b, <1>d DEF ProcessRequest
    <2>2. toServer' \in Seq(TunnelMessage)
      BY <1>6, MessageTypes, AppendElements DEF ProcessRequest
    <2> QED
      BY <1>6, <1>a, <2>1, <2>2 DEF ProcessRequest, tunnel, xvnc, client, ghosts, TypeOK
  <1>7. CASE ProcessSetPixelFormat
    <2>1. PICK f \in Formats :
            /\ ClientReceive(SetPixelFormat(f))
            /\ \/ /\ pixelFormat' = Ntoh(f) /\ UNCHANGED thread
                  /\ toServer' = Append(toServer, SetPixelFormat(Hton(pixelFormat')))
               \/ thread' = "ended" /\ UNCHANGED <<pixelFormat, toServer>>
      BY <1>7 DEF ProcessSetPixelFormat
    <2>2. fromClient' \in Seq(ClientMessage) /\ shown'.count = 0
      BY <1>7, <1>b, <1>d, <2>1 DEF ProcessSetPixelFormat
    <2>3. Ntoh(f) \in Format /\ Hton(Ntoh(f)) \in Format
      BY <1>a, FormatTypes
    <2>4. pixelFormat' \in Format /\ toServer' \in Seq(TunnelMessage)
          /\ thread' \in {"serve", "ended"}
      <3>1. SetPixelFormat(Hton(Ntoh(f))) \in TunnelMessage
        BY <2>3, MessageTypes
      <3>2. Append(toServer, SetPixelFormat(Hton(Ntoh(f)))) \in Seq(TunnelMessage)
        BY <3>1, AppendElements
      <3> QED
        BY <2>1, <2>3, <3>2 DEF TypeOK
    <2>5. surprised' \in BOOLEAN
      BY <1>7 DEF ProcessSetPixelFormat, TypeOK
    <2> QED
      BY <1>7, <1>a, <2>2, <2>4, <2>5
      DEF ProcessSetPixelFormat, xvnc, client, ghosts, TypeOK
  <1>8. CASE ProcessSetEncodings
    <2>1. PICK l \in Lists :
            /\ ClientReceive(SetEncodings(l))
            /\ listed' = Among(l, Known) /\ serverList' = Filtered(l)
            /\ toServer' = Append(toServer, SetEncodings(serverList'))
      BY <1>8 DEF ProcessSetEncodings
    <2>2. fromClient' \in Seq(ClientMessage) /\ shown'.count = 0
      BY <1>8, <1>b, <1>d, <2>1 DEF ProcessSetEncodings
    <2>3. l \in Seq(STRING)
      BY <1>a
    <2>4. listed' \in Seq(Known) /\ serverList' \in Seq(Known)
      BY <2>1, <2>3, AmongFacts, FilteredFacts
    <2>5. ToSet(listed') \subseteq Known /\ ToSet(serverList') \subseteq Known
      BY <2>4, ToSetTypes
    <2>6. SetEncodings(serverList') \in TunnelMessage
      BY <2>4, MessageTypes
    <2>7. toServer' \in Seq(TunnelMessage)
      BY <2>1, <2>6, AppendElements
    <2> QED
      BY <1>8, <1>a, <2>2, <2>4, <2>5, <2>7
      DEF ProcessSetEncodings, xvnc, client, ghosts, TypeOK
  <1>9. CASE ProcessFramebufferUpdate
    <2>1. PICK u \in UpdateMessage : fromServer = <<u>>
      BY <1>9 DEF ProcessFramebufferUpdate
    <2>2. Head(fromServer) = u /\ fromServer' = <<>>
      BY <1>9, <2>1 DEF ProcessFramebufferUpdate
    <2>3. shown'.count = Announced(u) /\ resetQueued' \in BOOLEAN
          /\ (streams' = u.from \/ streams' = streams)
      BY <1>9, <2>2 DEF ProcessFramebufferUpdate, TypeOK
    <2>4. u.count \in 0 .. MaxRects /\ u.from \in Servers
      BY DEF UpdateMessage
    <2>5. Announced(u) \in 0 .. MaxRects
      <3>1. CountExtraRectangles \in {0, 1}
        BY DEF CountExtraRectangles
      <3> QED
        BY <1>a, <2>4, <3>1 DEF Announced, TooMany
    <2>6. unsolicited' \in BOOLEAN
      BY <1>9 DEF ProcessFramebufferUpdate, TypeOK, Due
    <2> QED
      BY <1>9, <1>a, <2>2, <2>3, <2>4, <2>5, <2>6
      DEF ProcessFramebufferUpdate, xvnc, TypeOK
  <1>10. CASE RefuseFramebufferUpdate
    <2>1. shown'.count = 0 /\ thread' = "ended"
      BY <1>10, <1>b DEF RefuseFramebufferUpdate
    <2> QED
      BY <1>10, <1>a, <2>1
      DEF RefuseFramebufferUpdate, channels, tunnel, xvnc, client, ghosts, TypeOK
  <1>11. CASE SwitchToConnection
    <2>1. shown'.count = 0 /\ tightDisabled' = FALSE
      BY <1>11, <1>b DEF SwitchToConnection
    <2>2. serverList' \in Seq(Known)
      <3>1. serverList \in Seq(Known) /\ <<"Tight">> \in Seq(Known)
        BY DEF Known
      <3>2. <<"Tight">> \o serverList \in Seq(Known)
        BY <3>1, ConcatProperties
      <3> QED
        BY <1>11, <3>1, <3>2 DEF SwitchToConnection
    <2>3. ToSet(serverList') \subseteq Known
      BY <2>2, ToSetTypes
    <2> QED
      BY <1>11, <1>a, <2>1, <2>2, <2>3
      DEF SwitchToConnection, channels, xvnc, client, ghosts, TypeOK
  <1>12. CASE ConnectionSwitched
    <2> DEFINE m == (IF Ntoh(Native[2]) # pixelFormat
                     THEN <<SetPixelFormat(Hton(pixelFormat))>> ELSE <<>>)
                      \o <<SetEncodings(serverList), Request>>
    <2>1. Replaced(m) /\ resetQueued' = TRUE /\ unsolicited' = TRUE
      BY <1>12 DEF ConnectionSwitched
    <2>2. m \in Seq(TunnelMessage)
      <3>1. Hton(pixelFormat) \in Format
        BY FormatTypes DEF TypeOK
      <3>2. SetPixelFormat(Hton(pixelFormat)) \in TunnelMessage
            /\ SetEncodings(serverList) \in TunnelMessage /\ Request \in TunnelMessage
        BY <3>1, MessageTypes
      <3>3. <<SetPixelFormat(Hton(pixelFormat))>> \in Seq(TunnelMessage)
            /\ <<>> \in Seq(TunnelMessage)
            /\ <<SetEncodings(serverList), Request>> \in Seq(TunnelMessage)
        BY <3>2
      <3> QED
        BY <3>3, ConcatProperties
    <2> HIDE DEF m
    <2>3. shown'.count = 0
      BY <2>1, <1>b DEF Replaced
    <2>4. nameQueued' \in BOOLEAN
      BY <2>1 DEF Replaced, TypeOK, Supports, Contains
    <2> QED
      BY <1>a, <2>1, <2>2, <2>3, <2>4 DEF Replaced, client, TypeOK, Servers
  <1>13. CASE UNCHANGED vars
    BY <1>13 DEF vars, TypeOK
  <1> QED
    BY <1>1, <1>2, <1>3, <1>4, <1>5, <1>6, <1>7, <1>8, <1>9, <1>10, <1>11, <1>12, <1>13
    DEF Next, Ended

-----------------------------------------------------------------------------
(* What the server and the tunnel are going to know *)

\* A message that the tunnel receives was the first from the client.
LEMMA Received ==
  ASSUME TypeInv, NEW m, ClientReceive(m)
  PROVE  /\ fromClient \in Seq(ClientMessage) /\ fromClient # <<>> /\ thread = "serve"
         /\ m \in ClientMessage /\ m = fromClient[1] /\ fromClient' = Tail(fromClient)
  <1>1. fromClient # <<>> /\ fromClient \in Seq(ClientMessage)
    BY DEF ClientReceive, TypeInv
  <1>2. Head(fromClient) = fromClient[1] /\ fromClient[1] \in ClientMessage
    BY <1>1, TailElements
  <1> QED
    BY <1>1, <1>2 DEF ClientReceive

\* The two shapes of what a new server is told.
LEMMA OneAndTwo ==
  ASSUME NEW a, NEW b, NEW c
  PROVE  <<a>> \o <<b, c>> = <<a, b, c>> /\ <<>> \o <<b, c>> = <<b, c>>
  <1> DEFINE S == {a, b, c}
  <1>1. <<a>> \in Seq(S) /\ <<b, c>> \in Seq(S) /\ <<a, b, c>> \in Seq(S)
        /\ Len(<<a>>) = 1 /\ Len(<<b, c>>) = 2 /\ Len(<<a, b, c>>) = 3
    OBVIOUS
  <1>2. <<a>> \o <<b, c>> \in Seq(S) /\ Len(<<a>> \o <<b, c>>) = 3
    BY <1>1, ConcatProperties
  <1>3. \A i \in 1 .. 3 : (<<a>> \o <<b, c>>)[i] = <<a, b, c>>[i]
    BY <1>1, ConcatProperties
  <1>4. <<a>> \o <<b, c>> = <<a, b, c>>
    BY <1>1, <1>2, <1>3, SeqEqual
  <1>5. <<>> \o <<b, c>> = <<b, c>>
    BY <1>1, ConcatEmptySeq
  <1> QED
    BY <1>4, <1>5

\* Every action keeps FormatInv: what the tunnel sends makes the server know it, and
\* a server that is not told has started with it.
LEMMA FormatStep ==
  ASSUME TypeInv, TypeInv', FormatInv, [Next]_vars
  PROVE  FormatInv'
  <1> DEFINE k == "SetPixelFormat"
  <1>a. toServer \in Seq(TunnelMessage) /\ toServer' \in Seq(TunnelMessage)
        /\ pixelFormat \in Format /\ serverFormat \in Format
    BY DEF TypeInv, TypeOK
  <1>b. ASSUME UNCHANGED <<toServer, serverFormat, pixelFormat>>
        PROVE  FormatInv'
    BY <1>b DEF FormatInv, Tells
  <1>c. ASSUME NEW m \in TunnelMessage, m.type # k,
               toServer' = Append(toServer, m), UNCHANGED <<serverFormat, pixelFormat>>
        PROVE  FormatInv'
    BY <1>a, <1>c, TellsAfterAppend DEF FormatInv
  <1>1. CASE ClientRequests
    BY <1>1, <1>b DEF ClientRequests, ClientSends, tunnel, xvnc
  <1>2. ASSUME NEW f \in Formats, ClientSetsPixelFormat(f)
        PROVE  FormatInv'
    BY <1>2, <1>b DEF ClientSetsPixelFormat, ClientSends, tunnel, xvnc
  <1>3. ASSUME NEW l \in Lists, ClientSetsEncodings(l)
        PROVE  FormatInv'
    BY <1>3, <1>b DEF ClientSetsEncodings, ClientSends, tunnel, xvnc
  <1>4. CASE ServerReads
    <2> DEFINE m == toServer[1]
    <2>1. toServer # <<>> /\ Head(toServer) = m
      BY <1>4, <1>a, TailElements DEF ServerReads
    <2>2. /\ toServer' = Tail(toServer) /\ pixelFormat' = pixelFormat
          /\ serverFormat' = (IF m.type = k THEN m.format ELSE serverFormat)
      BY <1>4, <2>1 DEF ServerReads, tunnel
    <2>3. serverFormat' = (IF m.type = k THEN Told(m) ELSE serverFormat)
      BY <2>2 DEF Told
    <2>4. Tells(Tail(toServer), k, IF m.type = k THEN Told(m) ELSE serverFormat,
                Hton(pixelFormat))
      BY <1>a, <2>1, TellsAfterTail DEF FormatInv
    <2> HIDE DEF m
    <2> QED
      BY <2>2, <2>3, <2>4 DEF FormatInv
  <1>5. CASE ServerUpdates
    BY <1>5, <1>b DEF ServerUpdates, tunnel
  <1>6. CASE ProcessRequest
    BY <1>6, <1>c, MessageTypes, Messages DEF ProcessRequest, tunnel, xvnc
  <1>7. CASE ProcessSetPixelFormat
    <2>1. PICK f \in Formats :
            \/ /\ pixelFormat' = Ntoh(f)
               /\ toServer' = Append(toServer, SetPixelFormat(Hton(Ntoh(f))))
            \/ UNCHANGED <<pixelFormat, toServer>>
      BY <1>7 DEF ProcessSetPixelFormat
    <2>2. serverFormat' = serverFormat
      BY <1>7 DEF ProcessSetPixelFormat, xvnc
    <2>3. CASE UNCHANGED <<pixelFormat, toServer>>
      BY <1>b, <2>2, <2>3
    <2>4. CASE /\ pixelFormat' = Ntoh(f)
               /\ toServer' = Append(toServer, SetPixelFormat(Hton(Ntoh(f))))
      <3> DEFINE g == Hton(Ntoh(f))
                 m == SetPixelFormat(g)
      <3>1. m \in TunnelMessage /\ m.type = k /\ Told(m) = g
        BY FormatTypes, MessageTypes, Messages DEF Told
      <3>2. Tells(Append(toServer, m), k, serverFormat, g)
        <4> HIDE DEF m
        <4> QED
          BY <1>a, <3>1, TellsAfterAppend
      <3> QED
        BY <2>2, <2>4, <3>2 DEF FormatInv
    <2> QED
      BY <2>1, <2>3, <2>4
  <1>8. CASE ProcessSetEncodings
    <2>1. toServer' = Append(toServer, SetEncodings(serverList'))
          /\ UNCHANGED <<serverFormat, pixelFormat>>
      BY <1>8 DEF ProcessSetEncodings, xvnc
    <2>2. SetEncodings(serverList') \in TunnelMessage
      BY MessageTypes DEF TypeInv
    <2> QED
      BY <1>c, <2>1, <2>2, Messages
  <1>9. CASE ProcessFramebufferUpdate
    BY <1>9, <1>b DEF ProcessFramebufferUpdate, xvnc
  <1>10. CASE RefuseFramebufferUpdate
    BY <1>10, <1>b DEF RefuseFramebufferUpdate, channels, tunnel, xvnc
  <1>11. CASE SwitchToConnection
    BY <1>11, <1>b DEF SwitchToConnection, channels, xvnc
  <1>12. CASE ConnectionSwitched
    <2> DEFINE s == SetPixelFormat(Hton(pixelFormat))
               e == SetEncodings(serverList)
    <2>1. toServer' = (IF Ntoh(Native[2]) # pixelFormat THEN <<s>> ELSE <<>>)
                        \o <<e, Request>>
          /\ pixelFormat' = pixelFormat /\ serverFormat' = Native[2]
      BY <1>12 DEF ConnectionSwitched, Replaced
    <2>2. s.type = k /\ Told(s) = Hton(pixelFormat) /\ e.type # k /\ Request.type # k
      BY Messages DEF Told
    <2> HIDE DEF s, e
    <2>3. CASE Ntoh(Native[2]) # pixelFormat
      <3>1. toServer' = <<s, e, Request>>
        BY <2>1, <2>3, OneAndTwo
      <3>2. Tells(<<s, e, Request>>, k, Native[2], Hton(pixelFormat))
        BY <2>2 DEF Tells
      <3> QED
        BY <2>1, <3>1, <3>2 DEF FormatInv
    <2>4. CASE Ntoh(Native[2]) = pixelFormat
      <3>1. toServer' = <<e, Request>>
        BY <2>1, <2>4, OneAndTwo
      <3>2. Hton(pixelFormat) = Native[2]
        BY <2>4, FormatTypes
      <3>3. Tells(<<e, Request>>, k, Native[2], Hton(pixelFormat))
        BY <2>2, <3>2 DEF Tells
      <3> QED
        BY <2>1, <3>1, <3>3 DEF FormatInv
    <2> QED
      BY <2>3, <2>4
  <1>13. CASE UNCHANGED vars
    BY <1>13, <1>b DEF vars
  <1> QED
    BY <1>1, <1>2, <1>3, <1>4, <1>5, <1>6, <1>7, <1>8, <1>9, <1>10, <1>11, <1>12, <1>13
    DEF Next, Ended

\* Every action keeps WantedInv, provided that no format is of the other endianness:
\* such a one is not what the client has asked for when it arrives.
LEMMA WantedStep ==
  ASSUME TypeInv, TypeInv', WantedInv, [Next]_vars, \A f \in Formats : f.big = HostBig
  PROVE  WantedInv'
  <1> DEFINE k == "SetPixelFormat"
  <1>a. fromClient \in Seq(ClientMessage) /\ fromClient' \in Seq(ClientMessage)
    BY DEF TypeInv
  <1>b. ASSUME UNCHANGED <<thread, fromClient, pixelFormat, wanted>>
        PROVE  WantedInv'
    BY <1>b DEF WantedInv, Tells
  <1>c. ASSUME NEW m \in ClientMessage, m.type # k, ClientSends(m), UNCHANGED wanted
        PROVE  WantedInv'
    <2>1. fromClient' = Append(fromClient, m) /\ UNCHANGED <<thread, pixelFormat>>
      BY <1>c DEF ClientSends, tunnel
    <2> QED
      BY <1>a, <1>c, <2>1, TellsAfterAppend DEF WantedInv
  <1>d. ASSUME NEW m, m.type # k, ClientReceive(m), UNCHANGED <<thread, pixelFormat, wanted>>
        PROVE  WantedInv'
    <2>1. /\ fromClient # <<>> /\ m = fromClient[1] /\ fromClient' = Tail(fromClient)
      BY <1>d, Received
    <2>2. ASSUME thread = "serve"
          PROVE  Tells(Tail(fromClient), k, Hton(pixelFormat), wanted)
      <3>1. Tells(Tail(fromClient), k,
                  IF m.type = k THEN Told(m) ELSE Hton(pixelFormat), wanted)
        BY <1>a, <2>1, <2>2, TellsAfterTail DEF WantedInv
      <3> QED
        BY <1>d, <3>1
    <2> QED
      BY <1>d, <2>1, <2>2 DEF WantedInv
  <1>1. CASE ClientRequests
    BY <1>1, <1>c, MessageTypes, Messages DEF ClientRequests
  <1>2. ASSUME NEW f \in Formats, ClientSetsPixelFormat(f)
        PROVE  WantedInv'
    <2> DEFINE m == SetPixelFormat(f)
    <2>1. m \in ClientMessage /\ m.type = k /\ Told(m) = f
      BY MessageTypes, Messages DEF Told
    <2>2. fromClient' = Append(fromClient, m) /\ wanted' = f /\ pixelFormat' = pixelFormat
      BY <1>2 DEF ClientSetsPixelFormat, ClientSends, tunnel
    <2> HIDE DEF m
    <2>3. Tells(Append(fromClient, m), k, Hton(pixelFormat), f)
      BY <1>a, <2>1, TellsAfterAppend
    <2> QED
      BY <2>2, <2>3 DEF WantedInv
  <1>3. ASSUME NEW l \in Lists, ClientSetsEncodings(l)
        PROVE  WantedInv'
    BY <1>3, <1>c, MessageTypes, Messages DEF ClientSetsEncodings
  <1>4. CASE ServerReads
    BY <1>4, <1>b DEF ServerReads, tunnel, client
  <1>5. CASE ServerUpdates
    BY <1>5, <1>b DEF ServerUpdates, tunnel, client
  <1>6. CASE ProcessRequest
    BY <1>6, <1>d, Messages DEF ProcessRequest, tunnel, client
  <1>7. CASE ProcessSetPixelFormat
    <2>1. PICK f \in Formats :
            /\ ClientReceive(SetPixelFormat(f))
            /\ pixelFormat' = Ntoh(f) \/ thread' = "ended"
      BY <1>7 DEF ProcessSetPixelFormat
    <2> DEFINE m == SetPixelFormat(f)
    <2>2. /\ fromClient # <<>> /\ m = fromClient[1] /\ fromClient' = Tail(fromClient)
          /\ thread = "serve"
      BY <2>1, Received
    <2>3. m.type = k /\ Told(m) = f
      BY Messages DEF Told
    <2> HIDE DEF m
    <2>4. Tells(Tail(fromClient), k, f, wanted)
      <3>1. Tells(Tail(fromClient), k, IF m.type = k THEN Told(m) ELSE Hton(pixelFormat), wanted)
        BY <1>a, <2>2, TellsAfterTail DEF WantedInv
      <3> QED
        BY <2>3, <3>1
    <2>5. Hton(Ntoh(f)) = f
      BY FormatTypes
    <2>6. wanted' = wanted
      BY <1>7 DEF ProcessSetPixelFormat, client
    <2> QED
      BY <2>1, <2>2, <2>4, <2>5, <2>6 DEF WantedInv
  <1>8. CASE ProcessSetEncodings
    BY <1>8, <1>d, Messages DEF ProcessSetEncodings, client
  <1>9. CASE ProcessFramebufferUpdate
    BY <1>9, <1>b DEF ProcessFramebufferUpdate, xvnc
  <1>10. CASE RefuseFramebufferUpdate
    BY <1>10 DEF RefuseFramebufferUpdate, WantedInv
  <1>11. CASE SwitchToConnection
    BY <1>11, <1>b DEF SwitchToConnection, channels, client
  <1>12. CASE ConnectionSwitched
    BY <1>12, <1>b DEF ConnectionSwitched, Replaced, client
  <1>13. CASE UNCHANGED vars
    BY <1>13, <1>b DEF vars
  <1> QED
    BY <1>1, <1>2, <1>3, <1>4, <1>5, <1>6, <1>7, <1>8, <1>9, <1>10, <1>11, <1>12, <1>13
    DEF Next, Ended

\* Every action keeps ListInv: the failed switch adds Tight to the list as well.
LEMMA ListStep ==
  ASSUME TypeInv, TypeInv', ListInv, [Next]_vars
  PROVE  ListInv'
  <1> DEFINE k == "SetEncodings"
  <1>a. /\ toServer \in Seq(TunnelMessage) /\ toServer' \in Seq(TunnelMessage)
        /\ listed \in Seq(Known) /\ serverList \in Seq(Known)
        /\ serverList' \in Seq(Known)
    BY DEF TypeInv
  <1>b. ASSUME UNCHANGED <<tightDisabled, greeter, listed, serverList>>,
               UNCHANGED <<toServer, serverKnows>>
        PROVE  ListInv'
    BY <1>b DEF ListInv, Tells
  <1>c. ASSUME NEW m \in TunnelMessage, m.type # k, toServer' = Append(toServer, m),
               UNCHANGED <<tightDisabled, greeter, listed, serverList, serverKnows>>
        PROVE  ListInv'
    <2>1. ~greeter => Tells(Append(toServer, m), k, serverKnows, ToSet(serverList))
      BY <1>a, <1>c, TellsAfterAppend DEF ListInv
    <2> QED
      BY <1>c, <2>1 DEF ListInv
  <1>1. CASE ClientRequests
    BY <1>1, <1>b DEF ClientRequests, ClientSends, tunnel, xvnc
  <1>2. ASSUME NEW f \in Formats, ClientSetsPixelFormat(f)
        PROVE  ListInv'
    BY <1>2, <1>b DEF ClientSetsPixelFormat, ClientSends, tunnel, xvnc
  <1>3. ASSUME NEW l \in Lists, ClientSetsEncodings(l)
        PROVE  ListInv'
    BY <1>3, <1>b DEF ClientSetsEncodings, ClientSends, tunnel, xvnc
  <1>4. CASE ServerReads
    <2> DEFINE m == toServer[1]
    <2>1. toServer # <<>> /\ Head(toServer) = m /\ m \in TunnelMessage
      BY <1>4, <1>a, TailElements DEF ServerReads
    <2>2. /\ toServer' = Tail(toServer)
          /\ UNCHANGED <<tightDisabled, greeter, listed, serverList>>
          /\ serverKnows' = (IF m.type = k THEN ToSet(m.list) ELSE serverKnows)
      BY <1>4, <2>1 DEF ServerReads, tunnel
    <2>3. serverKnows' = (IF m.type = k THEN Told(m) ELSE serverKnows)
      BY <2>2 DEF Told
    <2>4. ~greeter => Tells(Tail(toServer), k, IF m.type = k THEN Told(m) ELSE serverKnows,
                            ToSet(serverList))
      BY <1>a, <2>1, TellsAfterTail DEF ListInv
    <2> HIDE DEF m
    <2> QED
      BY <2>2, <2>3, <2>4 DEF ListInv
  <1>5. CASE ServerUpdates
    BY <1>5, <1>b DEF ServerUpdates, tunnel
  <1>6. CASE ProcessRequest
    BY <1>6, <1>c, MessageTypes, Messages DEF ProcessRequest, tunnel, xvnc
  <1>7. CASE ProcessSetPixelFormat
    <2>1. PICK f \in Formats :
            \/ toServer' = Append(toServer, SetPixelFormat(Hton(Ntoh(f))))
            \/ UNCHANGED toServer
      BY <1>7 DEF ProcessSetPixelFormat
    <2>2. UNCHANGED <<tightDisabled, greeter, listed, serverList, serverKnows>>
      BY <1>7 DEF ProcessSetPixelFormat, xvnc
    <2>3. SetPixelFormat(Hton(Ntoh(f))) \in TunnelMessage
          /\ SetPixelFormat(Hton(Ntoh(f))).type # k
      BY FormatTypes, MessageTypes, Messages
    <2> QED
      BY <1>b, <1>c, <2>1, <2>2, <2>3
  <1>8. CASE ProcessSetEncodings
    <2>1. PICK l \in Lists : listed' = Among(l, Known) /\ serverList' = Filtered(l)
      BY <1>8 DEF ProcessSetEncodings
    <2> DEFINE m == SetEncodings(serverList')
    <2>2. toServer' = Append(toServer, m) /\ UNCHANGED <<tightDisabled, greeter, serverKnows>>
      BY <1>8 DEF ProcessSetEncodings, xvnc
    <2>3. l \in Seq(STRING)
      BY ProtocolAssumption
    <2>4. ToSet(serverList') = (IF tightDisabled' THEN ToSet(listed') \ {"Tight"}
                                ELSE ToSet(listed')) \cup {"DesktopName"}
      BY <2>1, <2>2, <2>3, FilteredFacts
    <2>5. m \in TunnelMessage /\ m.type = k /\ Told(m) = ToSet(serverList')
      BY <1>a, MessageTypes, Messages DEF Told
    <2> HIDE DEF m
    <2>6. Tells(Append(toServer, m), k, serverKnows, ToSet(serverList'))
      BY <1>a, <2>5, TellsAfterAppend
    <2> QED
      BY <2>2, <2>4, <2>6 DEF ListInv
  <1>9. CASE ProcessFramebufferUpdate
    BY <1>9, <1>b DEF ProcessFramebufferUpdate, xvnc
  <1>10. CASE RefuseFramebufferUpdate
    BY <1>10, <1>b DEF RefuseFramebufferUpdate, channels, tunnel, xvnc
  <1>11. CASE SwitchToConnection
    <2>1. Supports("Tight") <=> "Tight" \in ToSet(listed)
      BY <1>a, LenProperties DEF Supports, Contains, ToSet
    <2>2. CASE listed = <<>> /\ serverList = <<>>
      <3>1. ~Supports("Tight")
        BY <2>1, <2>2 DEF ToSet
      <3> QED
        BY <1>11, <2>2, <3>1 DEF SwitchToConnection, ListInv
    <2>3. CASE ToSet(serverList) = (IF tightDisabled THEN ToSet(listed) \ {"Tight"}
                                    ELSE ToSet(listed)) \cup {"DesktopName"}
      <3>1. ToSet(serverList') = ToSet(listed) \cup {"DesktopName"}
        <4>1. CASE ~Supports("Tight")
          BY <1>11, <2>1, <2>3, <4>1 DEF SwitchToConnection
        <4>2. CASE Supports("Tight")
          <5> DEFINE t == <<"Tight">>
          <5>1. t \in Seq(Known) /\ ToSet(t) = {"Tight"}
            BY DEF Known, ToSet
          <5>2. ToSet(t \o serverList) = {"Tight"} \cup ToSet(serverList)
            <6> HIDE DEF t
            <6> QED
              BY <1>a, <5>1, ConcatElements
          <5> QED
            BY <1>11, <2>1, <2>3, <4>2, <5>2 DEF SwitchToConnection
        <4> QED
          BY <4>1, <4>2
      <3> QED
        BY <1>11, <3>1 DEF SwitchToConnection, ListInv
    <2> QED
      BY <2>2, <2>3 DEF ListInv
  <1>12. CASE ConnectionSwitched
    <2> DEFINE s == SetPixelFormat(Hton(pixelFormat))
               e == SetEncodings(serverList)
    <2>1. toServer' = (IF Ntoh(Native[2]) # pixelFormat THEN <<s>> ELSE <<>>)
                        \o <<e, Request>>
          /\ UNCHANGED <<listed, serverList, tightDisabled>> /\ ~tightDisabled
      BY <1>12 DEF ConnectionSwitched, Replaced
    <2>2. e.type = k /\ Told(e) = ToSet(serverList) /\ s.type # k /\ Request.type # k
      BY Messages DEF Told
    <2> HIDE DEF s, e
    <2>3. toServer' = <<s, e, Request>> \/ toServer' = <<e, Request>>
      BY <2>1, OneAndTwo
    <2>4. \A old : /\ Tells(<<s, e, Request>>, k, old, ToSet(serverList))
                   /\ Tells(<<e, Request>>, k, old, ToSet(serverList))
      BY <2>2 DEF Tells
    <2>5. Tells(toServer', k, serverKnows', ToSet(serverList'))
      BY <2>1, <2>3, <2>4
    <2> QED
      BY <2>1, <2>5 DEF ListInv
  <1>13. CASE UNCHANGED vars
    BY <1>13, <1>b DEF vars
  <1> QED
    BY <1>1, <1>2, <1>3, <1>4, <1>5, <1>6, <1>7, <1>8, <1>9, <1>10, <1>11, <1>12, <1>13
    DEF Next, Ended

-----------------------------------------------------------------------------
(* Where encodings come from *)

\* The lists in a queue when it is read, added to, or the limit is raised.
LEMMA WithinFacts ==
  ASSUME NEW S, NEW q \in Seq(S), NEW E
  PROVE  /\ q # <<>> /\ Within(q, E)
              => /\ Within(Tail(q), E)
                 /\ q[1].type = "SetEncodings" => Told(q[1]) \subseteq E
         /\ \A m \in S :
              Within(q, E) /\ (m.type = "SetEncodings" => Told(m) \subseteq E)
                => Within(Append(q, m), E)
         /\ \A F : Within(q, E) /\ E \subseteq F => Within(q, F)
  <1>1. ASSUME q # <<>>, Within(q, E)
        PROVE  /\ Within(Tail(q), E)
               /\ q[1].type = "SetEncodings" => Told(q[1]) \subseteq E
    BY <1>1, TailElements DEF Within
  <1>2. ASSUME NEW m \in S, Within(q, E), m.type = "SetEncodings" => Told(m) \subseteq E
        PROVE  Within(Append(q, m), E)
    BY <1>2, AppendElements DEF Within
  <1>3. \A F : Within(q, E) /\ E \subseteq F => Within(q, F)
    BY DEF Within
  <1> QED
    BY <1>1, <1>2, <1>3

\* Every action keeps OfferedInv.
LEMMA OfferedStep ==
  ASSUME TypeInv, TypeInv', OfferedInv, [Next]_vars
  PROVE  OfferedInv'
  <1> DEFINE name == {"DesktopName"}
             k == "SetEncodings"
  <1>a. /\ fromClient \in Seq(ClientMessage) /\ toServer \in Seq(TunnelMessage)
        /\ listed \in Seq(Known) /\ serverList \in Seq(Known) /\ serverList' \in Seq(Known)
        /\ serverKnows \subseteq Known
    BY DEF TypeInv, TypeOK
  <1>b. ASSUME UNCHANGED <<listed, offered, fromClient, serverList, toServer>>,
               UNCHANGED <<serverKnows, fromServer, nameQueued>>
        PROVE  OfferedInv'
    BY <1>b DEF OfferedInv, Within
  <1>c. ASSUME NEW m \in ClientMessage, m.type # k, ClientSends(m), UNCHANGED offered
        PROVE  OfferedInv'
    <2>1. Within(Append(fromClient, m), offered)
      BY <1>a, <1>c, WithinFacts DEF OfferedInv
    <2>2. fromClient' = Append(fromClient, m)
      BY <1>c DEF ClientSends
    <2> QED
      BY <1>c, <2>1, <2>2 DEF ClientSends, tunnel, xvnc, OfferedInv, Within
  <1>d. ASSUME NEW m, ClientReceive(m), UNCHANGED offered
        PROVE  Within(fromClient', offered')
               /\ (m.type = k => Told(m) \subseteq offered)
    <2>1. /\ fromClient # <<>> /\ m = fromClient[1] /\ fromClient' = Tail(fromClient)
      BY <1>d, Received
    <2> QED
      BY <1>a, <1>d, <2>1, WithinFacts DEF OfferedInv
  <1>e. ASSUME NEW m \in TunnelMessage, m.type # k, toServer' = Append(toServer, m),
               UNCHANGED offered
        PROVE  Within(toServer', offered' \cup name)
    BY <1>a, <1>e, WithinFacts DEF OfferedInv
  <1>1. CASE ClientRequests
    BY <1>1, <1>c, MessageTypes, Messages DEF ClientRequests
  <1>2. ASSUME NEW f \in Formats, ClientSetsPixelFormat(f)
        PROVE  OfferedInv'
    BY <1>2, <1>c, MessageTypes, Messages DEF ClientSetsPixelFormat
  <1>3. ASSUME NEW l \in Lists, ClientSetsEncodings(l)
        PROVE  OfferedInv'
    <2> DEFINE m == SetEncodings(l)
    <2>1. m \in ClientMessage /\ Told(m) = ToSet(l)
      BY MessageTypes, Messages DEF Told
    <2>2. /\ fromClient' = Append(fromClient, m) /\ offered' = offered \cup ToSet(l)
          /\ UNCHANGED <<listed, serverList, toServer, serverKnows, fromServer, nameQueued>>
      BY <1>3 DEF ClientSetsEncodings, ClientSends, tunnel, xvnc
    <2> HIDE DEF m
    <2>3. Within(fromClient, offered')
      BY <1>a, <2>2, WithinFacts DEF OfferedInv
    <2>4. Within(fromClient', offered')
      BY <1>a, <2>1, <2>2, <2>3, WithinFacts
    <2>5. Within(toServer', offered' \cup name)
      <3>1. offered \cup name \subseteq offered' \cup name
        BY <2>2
      <3>2. Within(toServer, offered \cup name)
        BY DEF OfferedInv
      <3> HIDE DEF name
      <3> QED
        BY <1>a, <2>2, <3>1, <3>2, WithinFacts
    <2> QED
      BY <2>2, <2>4, <2>5 DEF OfferedInv
  <1>4. CASE ServerReads
    <2> DEFINE m == toServer[1]
    <2>1. toServer # <<>> /\ Head(toServer) = m
      BY <1>4, <1>a, TailElements DEF ServerReads
    <2>2. /\ toServer' = Tail(toServer)
          /\ UNCHANGED <<listed, offered, fromClient, serverList, fromServer, nameQueued>>
          /\ serverKnows' = (IF m.type = k THEN ToSet(m.list) ELSE serverKnows)
      BY <1>4, <2>1 DEF ServerReads, tunnel, client
    <2>3. serverKnows' = (IF m.type = k THEN Told(m) ELSE serverKnows)
      BY <2>2 DEF Told
    <2>4. Within(Tail(toServer), offered \cup name)
          /\ (m.type = k => Told(m) \subseteq offered \cup name)
      <3>1. Within(toServer, offered \cup name)
        BY DEF OfferedInv
      <3> HIDE DEF name
      <3> QED
        BY <1>a, <2>1, <3>1, WithinFacts
    <2> HIDE DEF m
    <2> QED
      BY <2>2, <2>3, <2>4 DEF OfferedInv, Within
  <1>5. CASE ServerUpdates
    <2>1. PICK rects \in Contents(serverKnows) :
            \/ fromServer' = <<Update(Len(rects), rects)>>
            \/ /\ "LastRect" \in serverKnows
               /\ fromServer' = <<Update(MaxRects, Append(rects, "LastRect"))>>
      BY <1>5 DEF ServerUpdates
    <2>2. rects \in Seq(Known) /\ ToSet(rects) \subseteq serverKnows \cup {"Raw"}
      BY <1>a, ContentsFacts
    <2>3. ToSet(fromServer'[1].rects) \subseteq serverKnows \cup {"Raw"}
      <3>1. CASE fromServer' = <<Update(Len(rects), rects)>>
        BY <2>2, <3>1 DEF Update
      <3>2. CASE /\ "LastRect" \in serverKnows
                 /\ fromServer' = <<Update(MaxRects, Append(rects, "LastRect"))>>
        <4>1. ToSet(Append(rects, "LastRect")) = ToSet(rects) \cup {"LastRect"}
          BY <2>2, AppendedElement DEF Known
        <4> QED
          BY <2>2, <3>2, <4>1 DEF Update
      <3> QED
        BY <2>1, <3>1, <3>2
    <2> QED
      BY <1>5, <2>3 DEF ServerUpdates, tunnel, client, OfferedInv, Within
  <1>6. CASE ProcessRequest
    <2>1. Within(fromClient', offered')
      BY <1>6, <1>d DEF ProcessRequest, client
    <2>2. Within(toServer', offered' \cup name)
      BY <1>6, <1>e, MessageTypes, Messages DEF ProcessRequest, client
    <2> QED
      BY <1>6, <2>1, <2>2 DEF ProcessRequest, tunnel, xvnc, client, OfferedInv
  <1>7. CASE ProcessSetPixelFormat
    <2>1. PICK f \in Formats :
            /\ ClientReceive(SetPixelFormat(f))
            /\ \/ toServer' = Append(toServer, SetPixelFormat(Hton(Ntoh(f))))
               \/ UNCHANGED toServer
      BY <1>7 DEF ProcessSetPixelFormat
    <2>2. UNCHANGED <<listed, offered, serverList, serverKnows, fromServer, nameQueued>>
      BY <1>7 DEF ProcessSetPixelFormat, xvnc, client
    <2>3. Within(fromClient', offered')
      BY <1>d, <2>1, <2>2
    <2>4. Within(toServer', offered' \cup name)
      <3>1. SetPixelFormat(Hton(Ntoh(f))) \in TunnelMessage
            /\ SetPixelFormat(Hton(Ntoh(f))).type # k
        BY FormatTypes, MessageTypes, Messages
      <3>2. CASE UNCHANGED toServer
        BY <2>2, <3>2 DEF OfferedInv
      <3> QED
        BY <1>e, <2>1, <2>2, <3>1, <3>2
    <2> QED
      BY <2>2, <2>3, <2>4 DEF OfferedInv
  <1>8. CASE ProcessSetEncodings
    <2>1. PICK l \in Lists :
            /\ ClientReceive(SetEncodings(l))
            /\ listed' = Among(l, Known) /\ serverList' = Filtered(l)
      BY <1>8 DEF ProcessSetEncodings
    <2> DEFINE m == SetEncodings(serverList')
    <2>2. toServer' = Append(toServer, m)
          /\ UNCHANGED <<offered, serverKnows, fromServer, nameQueued>>
      BY <1>8 DEF ProcessSetEncodings, xvnc, client
    <2>3. l \in Seq(STRING)
      BY ProtocolAssumption
    <2>4. Within(fromClient', offered') /\ ToSet(l) \subseteq offered
      BY <1>d, <2>1, <2>2, Messages DEF Told
    <2>5. /\ ToSet(listed') \subseteq offered
          /\ ToSet(serverList') \subseteq offered \cup name
      BY <2>1, <2>3, <2>4, AmongFacts, FilteredFacts
    <2>6. m \in TunnelMessage /\ Told(m) = ToSet(serverList')
      BY <1>a, MessageTypes, Messages DEF Told
    <2>7. Within(toServer', offered' \cup name)
      <3> HIDE DEF m
      <3>1. Within(toServer, offered \cup name)
        BY DEF OfferedInv
      <3> HIDE DEF name
      <3> QED
        BY <1>a, <2>2, <2>5, <2>6, <3>1, WithinFacts
    <2> QED
      BY <2>2, <2>4, <2>5, <2>7 DEF OfferedInv
  <1>9. CASE ProcessFramebufferUpdate
    <2>1. fromServer' = <<>> /\ ~nameQueued'
          /\ UNCHANGED <<listed, offered, fromClient, serverList, toServer, serverKnows>>
      <3>1. PICK u \in UpdateMessage : fromServer = <<u>>
        BY <1>9 DEF ProcessFramebufferUpdate, TypeInv
      <3> QED
        BY <1>9, <3>1 DEF ProcessFramebufferUpdate, xvnc
    <2> QED
      BY <2>1 DEF OfferedInv, Within
  <1>10. CASE RefuseFramebufferUpdate
    BY <1>10, <1>b DEF RefuseFramebufferUpdate, channels, tunnel, xvnc, client
  <1>11. CASE SwitchToConnection
    <2>1. Supports("Tight") => "Tight" \in offered
      BY <1>a, LenProperties DEF Supports, Contains, ToSet, OfferedInv
    <2>2. ToSet(serverList') \subseteq offered \cup name
      <3>1. CASE ~Supports("Tight")
        BY <1>11, <3>1 DEF SwitchToConnection, OfferedInv
      <3>2. CASE Supports("Tight")
        <4> DEFINE t == <<"Tight">>
        <4>1. t \in Seq(Known) /\ ToSet(t) = {"Tight"}
          BY DEF Known, ToSet
        <4>2. ToSet(t \o serverList) = ToSet(t) \cup ToSet(serverList)
          <5> HIDE DEF t
          <5> QED
            BY <1>a, <4>1, ConcatElements
        <4>3. serverList' = t \o serverList
          BY <1>11, <3>2 DEF SwitchToConnection
        <4> QED
          BY <2>1, <3>2, <4>1, <4>2, <4>3 DEF OfferedInv
      <3> QED
        BY <3>1, <3>2
    <2> QED
      BY <1>11, <2>2 DEF SwitchToConnection, channels, xvnc, client, OfferedInv, Within
  <1>12. CASE ConnectionSwitched
    <2> DEFINE s == SetPixelFormat(Hton(pixelFormat))
               e == SetEncodings(serverList)
    <2>1. /\ toServer' = (IF Ntoh(Native[2]) # pixelFormat THEN <<s>> ELSE <<>>)
                           \o <<e, Request>>
          /\ UNCHANGED <<listed, offered, fromClient, serverList>>
          /\ fromServer' = <<>> /\ serverKnows' = {}
          /\ nameQueued' = (nameQueued \/ Supports("DesktopName"))
      BY <1>12 DEF ConnectionSwitched, Replaced, client
    <2>2. Told(e) \subseteq offered \cup name /\ s.type # k /\ Request.type # k
      BY Messages DEF Told, OfferedInv
    <2> HIDE DEF s, e
    <2>3. toServer' = <<s, e, Request>> \/ toServer' = <<e, Request>>
      BY <2>1, OneAndTwo
    <2>4. /\ Within(<<s, e, Request>>, offered \cup name)
          /\ Within(<<e, Request>>, offered \cup name)
      BY <2>2 DEF Within
    <2>5. nameQueued' => "DesktopName" \in offered
      BY <1>a, <2>1, LenProperties DEF Supports, Contains, ToSet, OfferedInv
    <2> QED
      BY <2>1, <2>3, <2>4, <2>5 DEF OfferedInv, Within
  <1>13. CASE UNCHANGED vars
    BY <1>13, <1>b DEF vars
  <1> QED
    BY <1>1, <1>2, <1>3, <1>4, <1>5, <1>6, <1>7, <1>8, <1>9, <1>10, <1>11, <1>12, <1>13
    DEF Next, Ended

-----------------------------------------------------------------------------
(* What the client is sent *)

\* The encodings of what is sent, and of what cannot be.
Sent == Known \cup {"impossible"}

Passed(r) == [i \in DOMAIN r |-> Forwarded(r[i])]

\* Only one action sends the client an update.
LEMMA ShownStep ==
  ASSUME [Next]_vars
  PROVE  Silent \/ ProcessFramebufferUpdate \/ UNCHANGED vars
  BY DEF Next, Ended, ClientRequests, ClientSetsPixelFormat, ClientSetsEncodings,
         ClientSends, ServerReads, ServerUpdates, ProcessRequest, ProcessSetPixelFormat,
         ProcessSetEncodings, RefuseFramebufferUpdate, SwitchToConnection,
         ConnectionSwitched, Replaced

\* Sequences of at most one encoding.
LEMMA Singletons ==
  /\ \A x \in Sent : <<x>> \in Seq(Sent) /\ Len(<<x>>) = 1 /\ ToSet(<<x>>) = {x}
                     /\ <<x>> # <<>>
  /\ <<>> \in Seq(Sent) /\ Len(<<>>) = 0 /\ ToSet(<<>>) = {}
  /\ {"Raw", "CopyRect", "DesktopName", "LastRect", "impossible"} \subseteq Sent
  /\ Known \subseteq Sent
  BY DEF ToSet, Sent, Known

\* What the client is sent for a rectangle: one rectangle or none, which takes a
\* LastRect, and no desktop name that it has not listed.
LEMMA ForwardedFacts ==
  ASSUME listed \in Seq(Known), NEW e \in Known
  PROVE  /\ Forwarded(e) \in Seq(Sent) /\ Len(Forwarded(e)) <= 1
         /\ e = "LastRect" => Forwarded(e) = <<"LastRect">>
         /\ e # "LastRect" => "LastRect" \notin ToSet(Forwarded(e))
         /\ Forwarded(e) = <<>> => "LastRect" \in ToSet(listed)
         /\ ToSet(Forwarded(e)) \subseteq
              ({e} \ {"DesktopName"}) \cup ToSet(listed) \cup {"Raw", "impossible"}
  <1>1. \A x : Supports(x) <=> x \in ToSet(listed)
    BY LenProperties DEF Supports, Contains, ToSet
  <1>2. \A x \in Sent : <<x>> \in Seq(Sent) /\ Len(<<x>>) = 1 /\ ToSet(<<x>>) = {x}
                        /\ <<x>> # <<>>
    BY DEF ToSet
  <1>3. <<>> \in Seq(Sent) /\ Len(<<>>) = 0 /\ ToSet(<<>>) = {}
    BY DEF ToSet
  <1>4. e \in Sent /\ {"Raw", "CopyRect", "impossible"} \subseteq Sent
    BY DEF Sent, Known
  <1>5. CASE e # "DesktopName" \/ Supports("DesktopName")
    <2>1. Forwarded(e) = <<e>>
      BY <1>5 DEF Forwarded
    <2> QED
      BY <1>1, <1>2, <1>4, <1>5, <2>1
  <1>6. CASE e = "DesktopName" /\ ~Supports("DesktopName")
    <2>1. CASE Supports("LastRect")
      BY <1>1, <1>3, <1>6, <2>1 DEF Forwarded
    <2>2. CASE ~Supports("LastRect")
      <3>1. \/ Forwarded(e) = <<"Raw">>
            \/ Forwarded(e) = <<"CopyRect">> /\ "CopyRect" \in ToSet(listed)
            \/ Forwarded(e) = <<"impossible">>
        BY <1>1, <1>6, <2>2 DEF Forwarded, SendDummyRectangle, Impossible
      <3>2. ASSUME NEW x \in {"Raw", "impossible"} \cup ToSet(listed), x \in Sent,
                   Forwarded(e) = <<x>>, x # "LastRect"
            PROVE  /\ Forwarded(e) \in Seq(Sent) /\ Len(Forwarded(e)) = 1
                   /\ "LastRect" \notin ToSet(Forwarded(e)) /\ Forwarded(e) # <<>>
                   /\ ToSet(Forwarded(e)) \subseteq ToSet(listed) \cup {"Raw", "impossible"}
        BY <1>2, <3>2
      <3>3. /\ Forwarded(e) \in Seq(Sent) /\ Len(Forwarded(e)) = 1
            /\ "LastRect" \notin ToSet(Forwarded(e)) /\ Forwarded(e) # <<>>
            /\ ToSet(Forwarded(e)) \subseteq ToSet(listed) \cup {"Raw", "impossible"}
        BY <1>4, <3>1, <3>2
      <3>4. e # "LastRect"
        BY <1>6
      <3>5. Len(Forwarded(e)) <= 1
        <4>1. Len(Forwarded(e)) = 1
          BY <3>3
        <4> QED
          BY <4>1
      <3>6. ToSet(Forwarded(e)) \subseteq
              ({e} \ {"DesktopName"}) \cup ToSet(listed) \cup {"Raw", "impossible"}
        BY <3>3
      <3> QED
        BY <3>3, <3>4, <3>5, <3>6
    <2> QED
      BY <1>6, <2>1, <2>2
  <1> QED
    BY <1>5, <1>6

\* The same, rectangle by rectangle.
LEMMA PassedFacts ==
  ASSUME listed \in Seq(Known), NEW r \in Seq(Known)
  PROVE  /\ Passed(r) \in Seq(Seq(Sent)) /\ Len(Passed(r)) = Len(r) /\ Len(r) \in Nat
         /\ DOMAIN r = 1 .. Len(r)
         /\ \A i \in 1 .. Len(r) : Passed(r)[i] = Forwarded(r[i]) /\ r[i] \in Known
  <1>1. Len(r) \in Nat /\ DOMAIN r = 1 .. Len(r) /\ \A i \in 1 .. Len(r) : r[i] \in Known
    BY LenProperties, ElementOfSeq
  <1>2. \A i \in 1 .. Len(r) : Forwarded(r[i]) \in Seq(Sent)
    BY <1>1, ForwardedFacts
  <1>3. Passed(r) \in [1 .. Len(r) -> Seq(Sent)]
    BY <1>1, <1>2 DEF Passed
  <1> QED
    BY <1>1, <1>3 DEF Passed

\* What the client is sent for the rectangles of an update.
LEMMA FlatFacts ==
  ASSUME listed \in Seq(Known), NEW r \in Seq(Known)
  PROVE  LET flat == FlattenSeq(Passed(r))
         IN  /\ flat \in Seq(Sent) /\ Len(flat) <= Len(r)
             /\ (\E i \in DOMAIN r : Forwarded(r[i]) = <<>>) => Len(flat) < Len(r)
             /\ ~(\E i \in DOMAIN r : Forwarded(r[i]) = <<>>) => Len(flat) = Len(r)
             /\ "LastRect" \in ToSet(flat) => "LastRect" \in ToSet(r)
             /\ ToSet(flat) \subseteq
                  (ToSet(r) \ {"DesktopName"}) \cup ToSet(listed) \cup {"Raw", "impossible"}
  <1> DEFINE p == Passed(r)
             flat == FlattenSeq(p)
  <1>1. /\ p \in Seq(Seq(Sent)) /\ Len(p) = Len(r) /\ Len(r) \in Nat
        /\ DOMAIN r = 1 .. Len(r)
        /\ \A i \in 1 .. Len(r) : p[i] = Forwarded(r[i]) /\ r[i] \in Known
    BY PassedFacts
  <1> HIDE DEF p
  <1>2. flat \in Seq(Sent)
    BY <1>1, FlattenType
  <1>3. \A i \in 1 .. Len(p) : Len(p[i]) <= 1
    BY <1>1, ForwardedFacts
  <1>4. /\ Len(flat) <= Len(p)
        /\ (\A i \in 1 .. Len(p) : p[i] # <<>>) => Len(flat) = Len(p)
        /\ (\E i \in 1 .. Len(p) : p[i] = <<>>) => Len(flat) < Len(p)
    BY <1>1, <1>3, FlattenShort
  <1>5. ASSUME NEW e \in ToSet(flat)
        PROVE  /\ e = "LastRect" => "LastRect" \in ToSet(r)
               /\ e \in (ToSet(r) \ {"DesktopName"}) \cup ToSet(listed)
                          \cup {"Raw", "impossible"}
    <2>1. PICK i \in 1 .. Len(p) : e \in ToSet(p[i])
      BY <1>1, <1>5, FlattenElements
    <2>2. r[i] \in ToSet(r) /\ r[i] \in Known /\ e \in ToSet(Forwarded(r[i]))
      BY <1>1, <2>1 DEF ToSet
    <2> QED
      BY <2>2, ForwardedFacts
  <1>6. /\ (\E i \in DOMAIN r : Forwarded(r[i]) = <<>>) => \E i \in 1 .. Len(p) : p[i] = <<>>
        /\ ~(\E i \in DOMAIN r : Forwarded(r[i]) = <<>>) => \A i \in 1 .. Len(p) : p[i] # <<>>
    BY <1>1
  <1> HIDE DEF flat
  <1>7. /\ flat \in Seq(Sent) /\ Len(flat) <= Len(r)
        /\ (\E i \in DOMAIN r : Forwarded(r[i]) = <<>>) => Len(flat) < Len(r)
        /\ ~(\E i \in DOMAIN r : Forwarded(r[i]) = <<>>) => Len(flat) = Len(r)
    BY <1>1, <1>2, <1>4, <1>6
  <1>8. /\ "LastRect" \in ToSet(flat) => "LastRect" \in ToSet(r)
        /\ ToSet(flat) \subseteq
             (ToSet(r) \ {"DesktopName"}) \cup ToSet(listed) \cup {"Raw", "impossible"}
    BY <1>5
  <1> QED
    BY <1>7, <1>8 DEF flat, p

\* The rectangles of the server and those that are made up are listed.
LEMMA NeverUnaskedStep ==
  ASSUME TypeInv, OfferedInv, NeverUnasked, [Next]_vars
  PROVE  NeverUnasked'
  <1>1. CASE Silent
    BY <1>1 DEF Silent, Nothing, NeverUnasked, ToSet
  <1>2. CASE UNCHANGED vars
    BY <1>2 DEF vars, NeverUnasked
  <1>3. CASE ProcessFramebufferUpdate
    <2>1. PICK u \in UpdateMessage : fromServer = <<u>>
      BY <1>3 DEF ProcessFramebufferUpdate, TypeInv
    <2> DEFINE R == Rectangles(u)
    <2>2. /\ shown'.rects = R /\ ~Contains(R, "impossible") /\ offered' = offered
          /\ ~(TooMany(u) /\ ~Supports("LastRect"))
      BY <1>3, <2>1 DEF ProcessFramebufferUpdate
    <2>3. /\ listed \in Seq(Known) /\ u.rects \in Seq(Known) /\ ToSet(listed) \subseteq offered
          /\ ToSet(u.rects) \subseteq offered \cup {"DesktopName", "Raw"}
          /\ nameQueued => "DesktopName" \in offered
      BY <2>1 DEF UpdateMessage, OfferedInv, TypeInv
    <2>4. \A x : Supports(x) <=> x \in ToSet(listed)
      BY <2>3, LenProperties DEF Supports, Contains, ToSet
    <2> DEFINE first == IF nameQueued THEN <<"DesktopName">> ELSE <<>>
               flat == FlattenSeq(Passed(u.rects))
               last == IF (TooMany(u) \/ Dropped(u)) /\ ~Contains(u.rects, "LastRect")
                       THEN <<"LastRect">> ELSE <<>>
    <2>5. R = first \o flat \o last
      BY DEF Rectangles, Passed
    <2>6. first \in Seq(Sent) /\ ToSet(first) \subseteq offered
      <3>1. first = <<>> \/ (first = <<"DesktopName">> /\ "DesktopName" \in offered)
        BY <2>3
      <3> QED
        BY <3>1, Singletons
    <2>7. flat \in Seq(Sent)
          /\ ToSet(flat) \subseteq offered \cup {"Raw", "impossible"}
      BY <2>3, FlatFacts
    <2>8. last \in Seq(Sent) /\ ToSet(last) \subseteq offered
      <3>1. Dropped(u) => "LastRect" \in ToSet(listed)
        <4> SUFFICES ASSUME NEW i \in DOMAIN u.rects, Forwarded(u.rects[i]) = <<>>
                     PROVE  "LastRect" \in ToSet(listed)
          BY DEF Dropped
        <4>1. u.rects[i] \in Known
          BY <2>3, LenProperties, ElementOfSeq
        <4> QED
          BY <2>3, <4>1, ForwardedFacts
      <3>2. last = <<>> \/ (last = <<"LastRect">> /\ "LastRect" \in offered)
        BY <2>2, <2>3, <2>4, <3>1
      <3> QED
        BY <3>2, Singletons
    <2> HIDE DEF R, first, flat, last
    <2>9. first \o flat \in Seq(Sent)
          /\ ToSet(first \o flat) = ToSet(first) \cup ToSet(flat)
      BY <2>6, <2>7, ConcatElements
    <2>10. R \in Seq(Sent) /\ ToSet(R) = ToSet(first) \cup ToSet(flat) \cup ToSet(last)
      <3> DEFINE start == first \o flat
      <3>1. start \in Seq(Sent) /\ ToSet(start) = ToSet(first) \cup ToSet(flat)
            /\ R = start \o last
        BY <2>5, <2>9
      <3> HIDE DEF start
      <3> QED
        BY <2>8, <3>1, ConcatElements
    <2>11. "impossible" \notin ToSet(R)
      BY <2>2, <2>10, LenProperties DEF Contains, ToSet
    <2>12. ToSet(R) \subseteq offered \cup {"Raw"}
      BY <2>6, <2>7, <2>8, <2>10, <2>11
    <2> QED
      BY <2>2, <2>12 DEF NeverUnasked
  <1> QED
    BY <1>1, <1>2, <1>3, ShownStep

\* Every action keeps UpdateInv.
LEMMA UpdateStep ==
  ASSUME TypeInv, UpdateInv, [Next]_vars
  PROVE  UpdateInv'
  <1>1. CASE ServerUpdates
    <2>1. PICK rects \in Contents(serverKnows) :
            \/ fromServer' = <<Update(Len(rects), rects)>>
            \/ /\ Len(rects) + 2 <= MaxRects
               /\ fromServer' = <<Update(MaxRects, Append(rects, "LastRect"))>>
      BY <1>1 DEF ServerUpdates
    <2>2. rects \in Seq(Known) /\ Len(rects) \in 1 .. MaxContents
          /\ "LastRect" \notin ToSet(rects)
      BY ContentsFacts DEF TypeInv, TypeOK
    <2>3. CASE fromServer' = <<Update(Len(rects), rects)>>
      <3>1. fromServer'[1].rects = rects /\ fromServer'[1].count = Len(rects)
        BY <2>3 DEF Update
      <3> QED
        BY <2>2, <3>1 DEF UpdateInv, Exact
    <2>4. CASE /\ Len(rects) + 2 <= MaxRects
               /\ fromServer' = <<Update(MaxRects, Append(rects, "LastRect"))>>
      <3>1. fromServer'[1].rects = Append(rects, "LastRect")
            /\ fromServer'[1].count = MaxRects
        BY <2>4 DEF Update
      <3> QED
        BY <2>2, <2>4, <3>1 DEF UpdateInv, OpenEnded
    <2> QED
      BY <2>1, <2>3, <2>4
  <1>2. CASE ~ServerUpdates
    <2>1. fromServer' = fromServer \/ fromServer' = <<>>
      <3>1. fromServer = <<>> \/ Tail(fromServer) = <<>>
        <4>1. ASSUME NEW u, fromServer = <<u>>
              PROVE  Tail(fromServer) = <<>>
          BY <4>1
        <4> QED
          BY <4>1 DEF TypeInv
      <3> QED
        BY <1>2, <3>1
        DEF Next, Ended, vars, ClientRequests, ClientSetsPixelFormat, ClientSetsEncodings,
            ClientSends, ServerReads, ProcessRequest, ProcessSetPixelFormat,
            ProcessSetEncodings, ProcessFramebufferUpdate, RefuseFramebufferUpdate,
            SwitchToConnection, ConnectionSwitched, Replaced, channels
    <2> QED
      BY <2>1 DEF UpdateInv
  <1> QED
    BY <1>1, <1>2

\* A sequence in which nothing ends the update but perhaps its last element.
LEMMA EndOfUpdate ==
  ASSUME NEW A \in Seq(Sent), "LastRect" \notin ToSet(A)
  PROVE  /\ Len(A) \in Nat /\ ~Contains(A, "LastRect")
         /\ LET B == A \o <<"LastRect">>
            IN  /\ Contains(B, "LastRect") /\ Len(B) = Len(A) + 1
                /\ B[Len(B)] = "LastRect"
                /\ \A i \in 1 .. Len(B) - 1 : B[i] # "LastRect"
  <1> DEFINE B == Append(A, "LastRect")
  <1>1. B = A \o <<"LastRect">>
    BY AppendIsConcat DEF Sent, Known
  <1>2. /\ B \in Seq(Sent) /\ Len(A) \in Nat /\ Len(B) = Len(A) + 1
        /\ B[Len(A) + 1] = "LastRect" /\ \A i \in 1 .. Len(A) : B[i] = A[i]
    BY AppendElements DEF Sent, Known
  <1>3. \A i \in 1 .. Len(A) : A[i] # "LastRect"
    BY LenProperties DEF ToSet
  <1> HIDE DEF B
  <1>4. Contains(B, "LastRect") /\ ~Contains(A, "LastRect")
    BY <1>2, <1>3 DEF Contains
  <1>5. \A i \in 1 .. Len(B) - 1 : B[i] # "LastRect"
    BY <1>2, <1>3
  <1> QED
    BY <1>1, <1>2, <1>4, <1>5

\* The client finds the end of the update it is sent.
LEMMA AnnouncedStep ==
  ASSUME TypeInv, UpdateInv, AnnouncedIsSent, [Next]_vars, MaxContents < MaxRects
  PROVE  AnnouncedIsSent'
  <1>1. CASE Silent
    BY <1>1 DEF Silent, Nothing, AnnouncedIsSent, Contains
  <1>2. CASE UNCHANGED vars
    BY <1>2 DEF vars, AnnouncedIsSent
  <1>3. CASE ProcessFramebufferUpdate
    <2>1. PICK u \in UpdateMessage : fromServer = <<u>>
      BY <1>3 DEF ProcessFramebufferUpdate, TypeInv
    <2> DEFINE R == Rectangles(u)
               c == Announced(u)
    <2>2. shown'.rects = R /\ shown'.count = c
      BY <1>3, <2>1 DEF ProcessFramebufferUpdate
    <2>3. /\ MaxRects \in Nat /\ MaxContents \in 1 .. MaxRects
          /\ listed \in Seq(Known) /\ u.rects \in Seq(Known) /\ u.count \in 0 .. MaxRects
          /\ Exact(u) \/ OpenEnded(u)
      BY <2>1, ProtocolAssumption DEF UpdateMessage, UpdateInv, TypeInv
    <2> DEFINE first == IF nameQueued THEN <<"DesktopName">> ELSE <<>>
               flat == FlattenSeq(Passed(u.rects))
               end == <<"LastRect">>
               extra == CountExtraRectangles
    <2>4. /\ first \in Seq(Sent) /\ Len(first) = extra /\ extra \in {0, 1}
          /\ "LastRect" \notin ToSet(first)
      <3>1. (first = <<>> /\ extra = 0) \/ (first = <<"DesktopName">> /\ extra = 1)
        BY DEF CountExtraRectangles
      <3> QED
        BY <3>1, Singletons
    <2>5. end \in Seq(Sent)
      BY Singletons
    <2>6. R = first \o flat \o (IF (TooMany(u) \/ Dropped(u)) /\ ~Contains(u.rects, "LastRect")
                                THEN end ELSE <<>>)
      BY DEF Rectangles, Passed
    <2>7. Contains(u.rects, "LastRect") <=> "LastRect" \in ToSet(u.rects)
      BY <2>3, LenProperties DEF Contains, ToSet
    \* All is as announced, or shorter and with a LastRect at the end.
    <2>8. ASSUME NEW A \in Seq(Sent), "LastRect" \notin ToSet(A),
                 \/ R = A /\ c = Len(A)
                 \/ R = A \o end /\ Len(A) + 1 <= c
          PROVE  AnnouncedIsSent'
      BY <2>2, <2>8, EndOfUpdate DEF AnnouncedIsSent
    <2>9. CASE Exact(u)
      <3> DEFINE A == first \o flat
      <3>1. /\ flat \in Seq(Sent) /\ "LastRect" \notin ToSet(flat)
            /\ Dropped(u) => Len(flat) < Len(u.rects)
            /\ ~Dropped(u) => Len(flat) = Len(u.rects)
        BY <2>3, <2>9, FlatFacts DEF Dropped, Exact
      <3> HIDE DEF first, flat, end
      <3>2. /\ A \in Seq(Sent) /\ Len(A) = extra + Len(flat) /\ Len(flat) \in Nat
            /\ "LastRect" \notin ToSet(A)
        BY <2>4, <3>1, ConcatElements, ConcatProperties, LenProperties
      <3>3. ~TooMany(u) /\ c = Len(u.rects) + extra /\ Len(u.rects) \in Nat
        BY <2>3, <2>4, <2>9, LenProperties DEF Exact, TooMany, Announced
      <3>4. R = A \o (IF Dropped(u) THEN end ELSE <<>>)
        BY <2>6, <2>7, <2>9, <3>3 DEF Exact
      <3> HIDE DEF A, R, c, extra
      <3>5. CASE Dropped(u)
        <4>1. Len(A) + 1 <= c
          BY <2>4, <3>1, <3>2, <3>3, <3>5
        <4>2. R = A \o end
          BY <3>4, <3>5
        <4> QED
          BY <2>8, <3>2, <4>1, <4>2
      <3>6. CASE ~Dropped(u)
        <4>1. R = A
          BY <3>2, <3>4, <3>6, ConcatEmptySeq
        <4> QED
          BY <2>4, <2>8, <3>1, <3>2, <3>3, <3>6, <4>1
      <3> QED
        BY <3>5, <3>6
    <2>10. CASE OpenEnded(u)
      <3>1. PICK r \in Seq(Known) :
              /\ u.rects = Append(r, "LastRect") /\ "LastRect" \notin ToSet(r)
              /\ u.count = MaxRects /\ Len(r) + 2 <= MaxRects
        BY <2>10 DEF OpenEnded
      <3> DEFINE f == FlattenSeq(Passed(r))
                 A == first \o f
      <3>2. f \in Seq(Sent) /\ Len(f) <= Len(r) /\ "LastRect" \notin ToSet(f)
        BY <2>3, <3>1, FlatFacts
      <3>3. flat = f \o end
        <4>1. Passed(u.rects) = Append(Passed(r), end)
          <5> DEFINE n == Len(r)
                     p == Passed(u.rects)
                     q == Append(Passed(r), end)
          <5>1. /\ n \in Nat /\ Len(u.rects) = n + 1 /\ u.rects[n + 1] = "LastRect"
                /\ \A i \in 1 .. n : u.rects[i] = r[i]
            BY <3>1, AppendElements DEF Known
          <5>2. /\ p \in Seq(Seq(Sent)) /\ Len(p) = n + 1
                /\ \A i \in 1 .. n + 1 : p[i] = Forwarded(u.rects[i])
            BY <2>3, <5>1, PassedFacts
          <5>3. /\ Passed(r) \in Seq(Seq(Sent)) /\ Len(Passed(r)) = n
                /\ \A i \in 1 .. n : Passed(r)[i] = Forwarded(r[i])
            BY <2>3, PassedFacts
          <5> HIDE DEF n, end
          <5>4. /\ q \in Seq(Seq(Sent)) /\ Len(q) = n + 1 /\ q[n + 1] = end
                /\ \A i \in 1 .. n : q[i] = Passed(r)[i]
            BY <2>5, <5>1, <5>3, AppendElements
          <5>5. Forwarded("LastRect") = end
            BY <2>3, ForwardedFacts DEF Known, end
          <5> HIDE DEF p, q
          <5>6. \A i \in 1 .. n + 1 : p[i] = q[i]
            <6> TAKE i \in 1 .. n + 1
            <6>1. CASE i = n + 1
              BY <5>1, <5>2, <5>4, <5>5, <6>1
            <6>2. CASE i \in 1 .. n
              BY <5>1, <5>2, <5>3, <5>4, <6>2
            <6> QED
              BY <5>1, <6>1, <6>2
          <5> QED
            BY <5>2, <5>4, <5>6, SeqEqual DEF p, q
        <4>2. Passed(r) \in Seq(Seq(Sent))
          BY <2>3, PassedFacts
        <4> HIDE DEF end
        <4> QED
          BY <2>5, <4>1, <4>2, FlattenAppend
      <3>4. Contains(u.rects, "LastRect")
        <4>1. "LastRect" \in ToSet(u.rects)
          BY <3>1, AppendedElement DEF Known
        <4> QED
          BY <2>7, <4>1
      <3> HIDE DEF first, flat, end, f
      <3>5. /\ A \in Seq(Sent) /\ Len(A) = extra + Len(f) /\ Len(f) \in Nat
            /\ "LastRect" \notin ToSet(A)
        BY <2>4, <3>2, ConcatElements, ConcatProperties, LenProperties
      <3>6. R = A \o end
        <4>1. flat \in Seq(Sent) /\ first \o flat \in Seq(Sent)
          BY <2>4, <2>5, <3>2, <3>3, ConcatProperties
        <4>2. R = first \o flat
          BY <2>6, <3>4, <4>1, ConcatEmptySeq
        <4>3. first \o (f \o end) = (first \o f) \o end
          <5>1. first \in Seq(Sent) /\ f \in Seq(Sent) /\ end \in Seq(Sent)
            BY <2>4, <2>5, <3>2
          <5> QED
            BY <5>1, ConcatAssociative
        <4> QED
          BY <3>3, <4>2, <4>3
      <3>7. c = MaxRects
        BY <2>3, <2>4, <3>1 DEF Announced, TooMany
      <3>8. Len(A) + 1 <= c
        BY <2>3, <2>4, <3>1, <3>2, <3>5, <3>7, LenProperties
      <3> HIDE DEF A, R, c
      <3> QED
        BY <2>8, <3>5, <3>6, <3>8
    <2> QED
      BY <2>3, <2>9, <2>10
  <1> QED
    BY <1>1, <1>2, <1>3, ShownStep

\* A queued reset is used up by the first Tight rectangle of the new server.
LEMMA StreamStep ==
  ASSUME TypeInv, StreamInv, TightStreamsMatch, [Next]_vars
  PROVE  StreamInv' /\ TightStreamsMatch'
  <1>1. CASE ServerUpdates
    <2>1. \E n, rects : fromServer' = <<Update(n, rects)>>
      BY <1>1 DEF ServerUpdates
    <2>2. fromServer'[1].from = server
      BY <2>1 DEF Update
    <2>3. UNCHANGED <<server, resetQueued, streams>> /\ shown'.fresh
      BY <1>1 DEF ServerUpdates, tunnel, client, Silent, Nothing
    <2> QED
      BY <2>2, <2>3 DEF StreamInv, TightStreamsMatch
  <1>2. CASE ProcessFramebufferUpdate
    <2>1. PICK u \in UpdateMessage : fromServer = <<u>>
      BY <1>2 DEF ProcessFramebufferUpdate, TypeInv
    <2> DEFINE tight == Contains(u.rects, "Tight")
    <2>2. /\ shown'.fresh = (tight => resetQueued \/ streams \in {0, u.from})
          /\ resetQueued' = (resetQueued /\ ~tight)
          /\ streams' = (IF tight THEN u.from ELSE streams)
          /\ fromServer' = <<>> /\ server' = server
      BY <1>2, <2>1 DEF ProcessFramebufferUpdate, xvnc
    <2>3. u.from = server /\ (resetQueued \/ streams \in {0, server})
      BY <2>1 DEF StreamInv
    <2> HIDE DEF tight
    <2> QED
      BY <2>2, <2>3 DEF StreamInv, TightStreamsMatch
  <1>3. CASE ConnectionSwitched
    BY <1>3 DEF ConnectionSwitched, Replaced, Silent, Nothing, StreamInv, TightStreamsMatch
  <1>4. CASE ~ServerUpdates /\ ~ProcessFramebufferUpdate /\ ~ConnectionSwitched
    <2>1. UNCHANGED <<server, fromServer, resetQueued, streams>>
          /\ (shown'.fresh \/ shown' = shown)
      BY <1>4
      DEF Next, Ended, vars, ClientRequests, ClientSetsPixelFormat, ClientSetsEncodings,
          ClientSends, ServerReads, ProcessRequest, ProcessSetPixelFormat,
          ProcessSetEncodings, RefuseFramebufferUpdate, SwitchToConnection,
          channels, tunnel, xvnc, client, Silent, Nothing
    <2> QED
      BY <2>1 DEF StreamInv, TightStreamsMatch
  <1> QED
    BY <1>1, <1>2, <1>3, <1>4
-----------------------------------------------------------------------------
(* Which answers are due *)

\* A queue without a request.
LEMMA NothingAsked ==
  ASSUME NEW q, ~Asks(q)
  PROVE  AsksOnce(q) /\ QuietBefore(q)
  BY DEF Asks, AsksOnce, QuietBefore

\* When nothing is due any more, no request is anywhere.
LEMMA NothingDue ==
  ASSUME TypeInv', ~Due'
  PROVE  /\ fromServer' = <<>> /\ asked' = 0
         /\ ~Asks(toServer') /\ ~Asks(fromClient')
  <1>1. /\ fromClient' \in Seq(ClientMessage) /\ toServer' \in Seq(TunnelMessage)
        /\ asked' \in Nat
    BY DEF TypeInv, TypeOK
  <1>2. /\ fromServer' = <<>> /\ ~(asked' > 0)
        /\ ~Contains(toServer', Request) /\ ~Contains(fromClient', Request)
    BY DEF Due
  <1>3. ~Asks(fromClient')
    BY <1>1, <1>2, ElementOfSeq, MessageTypes DEF Asks, Contains
  <1>4. ~Asks(toServer')
    BY <1>1, <1>2, ElementOfSeq, MessageTypes DEF Asks, Contains
  <1> QED
    BY <1>1, <1>2, <1>3, <1>4

\* Every action keeps DueInv: the client waits for its answer before it asks again.
LEMMA DueStep ==
  ASSUME TypeInv, TypeInv', DueInv, [Next]_vars
  PROVE  DueInv'
  <1>a. /\ fromClient \in Seq(ClientMessage) /\ toServer \in Seq(TunnelMessage)
        /\ asked \in Nat /\ waiting \in BOOLEAN
    BY DEF TypeInv, TypeOK
  <1>b. ASSUME UNCHANGED <<unsolicited, fromServer, asked, waiting>>,
               Asks(toServer') => Asks(toServer), Asks(fromClient') => Asks(fromClient),
               AsksOnce(toServer) => AsksOnce(toServer'),
               AsksOnce(fromClient) => AsksOnce(fromClient')
        PROVE  DueInv'
    BY <1>b DEF DueInv
  <1>c. ASSUME NEW m \in ClientMessage, m.type # "Request", ClientSends(m), UNCHANGED waiting
        PROVE  DueInv'
    <2>1. fromClient' = Append(fromClient, m)
          /\ UNCHANGED <<unsolicited, fromServer, asked, waiting, toServer>>
      BY <1>c DEF ClientSends, xvnc, ghosts
    <2>2. /\ Asks(Append(fromClient, m)) => Asks(fromClient)
          /\ AsksOnce(fromClient) => AsksOnce(Append(fromClient, m))
      BY <1>a, <1>c, AsksAfterAppend
    <2> QED
      BY <1>b, <2>1, <2>2
  <1>d. ASSUME NEW m, ClientReceive(m)
        PROVE  /\ Asks(fromClient') => Asks(fromClient)
               /\ AsksOnce(fromClient) => AsksOnce(fromClient')
               /\ m.type = "Request"
                    => Asks(fromClient) /\ (AsksOnce(fromClient) => ~Asks(fromClient'))
    <2>1. fromClient # <<>> /\ m = fromClient[1] /\ fromClient' = Tail(fromClient)
      BY <1>d, Received
    <2> QED
      BY <1>a, <2>1, AsksAfterTail
  <1>e. ASSUME NEW m \in TunnelMessage, m.type # "Request", toServer' = Append(toServer, m)
        PROVE  /\ Asks(toServer') => Asks(toServer)
               /\ AsksOnce(toServer) => AsksOnce(toServer')
    BY <1>a, <1>e, AsksAfterAppend
  <1>1. CASE ClientRequests
    <2>1. fromClient' = Append(fromClient, Request) /\ ~waiting /\ waiting'
          /\ UNCHANGED <<unsolicited, fromServer, asked, toServer>>
      BY <1>1 DEF ClientRequests, ClientSends, xvnc, ghosts
    <2>2. AsksOnce(fromClient) /\ ~Asks(fromClient) => AsksOnce(fromClient')
      BY <1>a, <2>1, AsksAfterAppend, MessageTypes
    <2> QED
      BY <2>1, <2>2 DEF DueInv
  <1>2. ASSUME NEW f \in Formats, ClientSetsPixelFormat(f)
        PROVE  DueInv'
    BY <1>2, <1>c, MessageTypes, Messages DEF ClientSetsPixelFormat
  <1>3. ASSUME NEW l \in Lists, ClientSetsEncodings(l)
        PROVE  DueInv'
    BY <1>3, <1>c, MessageTypes, Messages DEF ClientSetsEncodings
  <1>4. CASE ServerReads
    <2> DEFINE m == toServer[1]
    <2>1. toServer # <<>> /\ Head(toServer) = m /\ m \in TunnelMessage
      BY <1>4, <1>a, TailElements DEF ServerReads
    <2>2. /\ toServer' = Tail(toServer) /\ asked' = (IF m = Request THEN asked + 1 ELSE asked)
          /\ UNCHANGED <<unsolicited, fromServer, waiting, fromClient>>
      BY <1>4, <2>1 DEF ServerReads, client, ghosts
    <2>3. m = Request <=> m.type = "Request"
      BY <2>1, MessageTypes
    <2>4. /\ Asks(toServer') => Asks(toServer)
          /\ AsksOnce(toServer) => AsksOnce(toServer')
          /\ m.type = "Request" => Asks(toServer) /\ (AsksOnce(toServer) => ~Asks(toServer'))
      BY <1>a, <2>1, <2>2, AsksAfterTail
    <2> HIDE DEF m
    <2>5. CASE m = Request
      BY <1>a, <2>2, <2>3, <2>4, <2>5 DEF DueInv
    <2>6. CASE m # Request
      BY <1>b, <2>2, <2>4, <2>6
    <2> QED
      BY <2>5, <2>6
  <1>5. CASE ServerUpdates
    <2>1. asked > 0 /\ fromServer = <<>> /\ asked' = asked - 1
          /\ UNCHANGED <<unsolicited, waiting, fromClient, toServer>>
      BY <1>5 DEF ServerUpdates, client, ghosts
    <2>2. ~unsolicited => asked = 1
      BY <1>a, <2>1 DEF DueInv
    <2>3. ~unsolicited => asked' = 0
      BY <2>1, <2>2
    <2> QED
      BY <1>a, <2>1, <2>2, <2>3 DEF DueInv
  <1>6. CASE ProcessRequest
    <2>1. toServer' = Append(toServer, Request)
          /\ UNCHANGED <<unsolicited, fromServer, asked, waiting>>
      BY <1>6 DEF ProcessRequest, xvnc, client, ghosts
    <2>2. /\ AsksOnce(fromClient) => AsksOnce(fromClient') /\ ~Asks(fromClient')
          /\ Asks(fromClient)
      BY <1>6, <1>d, Messages DEF ProcessRequest
    <2>3. AsksOnce(toServer) /\ ~Asks(toServer) => AsksOnce(toServer')
      BY <1>a, <2>1, AsksAfterAppend, MessageTypes
    <2> QED
      BY <2>1, <2>2, <2>3 DEF DueInv
  <1>7. CASE ProcessSetPixelFormat
    <2>1. PICK f \in Formats :
            /\ ClientReceive(SetPixelFormat(f))
            /\ \/ toServer' = Append(toServer, SetPixelFormat(Hton(Ntoh(f))))
               \/ UNCHANGED toServer
      BY <1>7 DEF ProcessSetPixelFormat
    <2>2. UNCHANGED <<unsolicited, fromServer, asked, waiting>>
      BY <1>7 DEF ProcessSetPixelFormat, xvnc, client
    <2>3. SetPixelFormat(Hton(Ntoh(f))) \in TunnelMessage
          /\ SetPixelFormat(Hton(Ntoh(f))).type # "Request"
      BY FormatTypes, MessageTypes, Messages
    <2>4. /\ Asks(toServer') => Asks(toServer)
          /\ AsksOnce(toServer) => AsksOnce(toServer')
      <3>1. CASE UNCHANGED toServer
        BY <3>1
      <3> QED
        BY <1>e, <2>1, <2>3, <3>1
    <2> QED
      BY <1>b, <1>d, <2>1, <2>2, <2>4
  <1>8. CASE ProcessSetEncodings
    <2>1. PICK l \in Lists : ClientReceive(SetEncodings(l))
      BY <1>8 DEF ProcessSetEncodings
    <2>2. toServer' = Append(toServer, SetEncodings(serverList'))
          /\ UNCHANGED <<unsolicited, fromServer, asked, waiting>>
      BY <1>8 DEF ProcessSetEncodings, xvnc, client, ghosts
    <2>3. SetEncodings(serverList') \in TunnelMessage
          /\ SetEncodings(serverList').type # "Request"
      BY MessageTypes, Messages DEF TypeInv
    <2> QED
      BY <1>b, <1>d, <1>e, <2>1, <2>2, <2>3
  <1>9. CASE ProcessFramebufferUpdate
    <2>1. fromServer # <<>> /\ fromServer' = <<>>
          /\ UNCHANGED <<asked, fromClient, toServer>>
          /\ unsolicited' = (unsolicited /\ Due')
      <3>1. PICK u \in UpdateMessage : fromServer = <<u>>
        BY <1>9 DEF ProcessFramebufferUpdate, TypeInv
      <3> QED
        BY <1>9, <3>1 DEF ProcessFramebufferUpdate, xvnc
    <2>2. CASE Due'
      BY <2>1, <2>2 DEF DueInv
    <2>3. CASE ~Due'
      <3>1. /\ fromServer' = <<>> /\ asked' = 0 /\ ~Asks(toServer') /\ ~Asks(fromClient')
            /\ AsksOnce(toServer') /\ AsksOnce(fromClient')
        BY <2>3, NothingDue, NothingAsked
      <3> QED
        BY <3>1 DEF DueInv
    <2> QED
      BY <2>2, <2>3
  <1>10. CASE RefuseFramebufferUpdate
    BY <1>10, <1>b DEF RefuseFramebufferUpdate, channels, xvnc, client, ghosts
  <1>11. CASE SwitchToConnection
    BY <1>11, <1>b DEF SwitchToConnection, channels, xvnc, client, ghosts
  <1>12. CASE ConnectionSwitched
    BY <1>12 DEF ConnectionSwitched, DueInv
  <1>13. CASE UNCHANGED vars
    BY <1>13, <1>b DEF vars
  <1> QED
    BY <1>1, <1>2, <1>3, <1>4, <1>5, <1>6, <1>7, <1>8, <1>9, <1>10, <1>11, <1>12, <1>13
    DEF Next, Ended

\* Every action keeps ChangeInv: what is sent in the old format arrives before the
\* tunnel reads of the new one.
LEMMA ChangeStep ==
  ASSUME TypeInv, TypeInv', FormatInv, DueInv, ChangeInv, [Next]_vars
  PROVE  ChangeInv'
  <1>a. /\ fromClient \in Seq(ClientMessage) /\ toServer \in Seq(TunnelMessage)
        /\ asked \in Nat /\ waiting \in BOOLEAN /\ {unsolicited, surprised} \subseteq BOOLEAN
        /\ pixelFormat \in Format
    BY DEF TypeInv, TypeOK
  <1>b. Silent => MeasuredAsSent'
    BY DEF Silent, Nothing, MeasuredAsSent
  <1>c. ASSUME UNCHANGED <<unsolicited, surprised, fromServer, asked, pixelFormat>>,
               MeasuredAsSent',
               Asks(toServer') => Asks(toServer),
               Changes(toServer') => Changes(toServer),
               QuietBefore(toServer) => QuietBefore(toServer'),
               Changes(fromClient') => Changes(fromClient),
               QuietBefore(fromClient) => QuietBefore(fromClient')
        PROVE  ChangeInv'
    BY <1>c DEF ChangeInv, Quiet
  <1>d. ASSUME NEW m, ClientReceive(m)
        PROVE  /\ Changes(fromClient') => Changes(fromClient)
               /\ QuietBefore(fromClient) => QuietBefore(fromClient')
               /\ m.type = "SetPixelFormat" => Changes(fromClient)
               /\ QuietBefore(fromClient) /\ m.type = "Request" => ~Changes(fromClient)
    BY <1>a, <1>d, Received, AsksAfterTail
  <1>1. CASE ClientRequests
    <2>1. /\ fromClient' = Append(fromClient, Request)
          /\ UNCHANGED <<unsolicited, surprised, fromServer, asked, pixelFormat, toServer>>
          /\ MeasuredAsSent'
      BY <1>1, <1>b DEF ClientRequests, ClientSends, tunnel, xvnc, ghosts
    <2>2. /\ Changes(fromClient') => Changes(fromClient)
          /\ QuietBefore(fromClient) => QuietBefore(fromClient')
      BY <1>a, <2>1, AsksAfterAppend, MessageTypes, Messages
    <2> QED
      BY <1>c, <2>1, <2>2
  <1>2. ASSUME NEW f \in Formats, ClientSetsPixelFormat(f)
        PROVE  ChangeInv'
    <2> DEFINE m == SetPixelFormat(f)
    <2>1. /\ fromClient' = Append(fromClient, m) /\ ~waiting
          /\ UNCHANGED <<unsolicited, surprised, fromServer, asked, pixelFormat, toServer>>
          /\ MeasuredAsSent'
      BY <1>2, <1>b DEF ClientSetsPixelFormat, ClientSends, tunnel, xvnc, ghosts
    <2>2. m \in ClientMessage
      BY MessageTypes
    <2> HIDE DEF m
    <2>3. QuietBefore(fromClient) /\ ~Asks(fromClient) => QuietBefore(fromClient')
      BY <1>a, <2>1, <2>2, AsksAfterAppend
    <2>4. ~unsolicited => Quiet /\ ~Asks(toServer) /\ ~Asks(fromClient)
      BY <1>a, <2>1 DEF DueInv, Quiet
    <2> QED
      BY <2>1, <2>3, <2>4 DEF ChangeInv, Quiet
  <1>3. ASSUME NEW l \in Lists, ClientSetsEncodings(l)
        PROVE  ChangeInv'
    <2> DEFINE m == SetEncodings(l)
    <2>1. /\ fromClient' = Append(fromClient, m)
          /\ UNCHANGED <<unsolicited, surprised, fromServer, asked, pixelFormat, toServer>>
          /\ MeasuredAsSent'
      BY <1>3, <1>b DEF ClientSetsEncodings, ClientSends, tunnel, xvnc, ghosts
    <2>2. m \in ClientMessage /\ m.type # "SetPixelFormat"
      BY MessageTypes, Messages
    <2> HIDE DEF m
    <2>3. /\ Changes(fromClient') => Changes(fromClient)
          /\ QuietBefore(fromClient) => QuietBefore(fromClient')
      BY <1>a, <2>1, <2>2, AsksAfterAppend
    <2> QED
      BY <1>c, <2>1, <2>3
  <1>4. CASE ServerReads
    <2> DEFINE m == toServer[1]
    <2>1. toServer # <<>> /\ Head(toServer) = m /\ m \in TunnelMessage
      BY <1>4, <1>a, TailElements DEF ServerReads
    <2>2. /\ toServer' = Tail(toServer) /\ asked' = (IF m = Request THEN asked + 1 ELSE asked)
          /\ UNCHANGED <<unsolicited, surprised, fromServer, pixelFormat, fromClient>>
          /\ MeasuredAsSent'
      BY <1>4, <1>b, <2>1 DEF ServerReads, tunnel, client, ghosts
    <2>3. m = Request <=> m.type = "Request"
      BY <2>1, MessageTypes
    <2>4. /\ m.type = "Request" => Asks(toServer)
          /\ Asks(toServer') => Asks(toServer)
          /\ Changes(toServer') => Changes(toServer)
          /\ QuietBefore(toServer) => QuietBefore(toServer')
          /\ QuietBefore(toServer) /\ m.type = "Request" => ~Changes(toServer)
      BY <1>a, <2>1, <2>2, AsksAfterTail
    <2> HIDE DEF m
    <2>5. CASE m = Request
      <3>1. /\ ~unsolicited => ~Changes(fromClient')
            /\ ~surprised => ~Changes(toServer')
        BY <2>2, <2>3, <2>4, <2>5 DEF ChangeInv
      <3> QED
        BY <2>2, <2>4, <3>1 DEF ChangeInv
    <2>6. CASE m # Request
      BY <1>c, <2>2, <2>4, <2>6
    <2> QED
      BY <2>5, <2>6
  <1>5. CASE ServerUpdates
    <2>1. /\ asked > 0 /\ \E n, rects : fromServer' = <<Update(n, rects)>>
          /\ UNCHANGED <<unsolicited, surprised, fromClient, toServer, pixelFormat>>
          /\ MeasuredAsSent'
      BY <1>5, <1>b DEF ServerUpdates, tunnel, client, ghosts
    <2>2. fromServer'[1].format = serverFormat
      BY <2>1 DEF Update
    <2>3. ~Quiet
      BY <1>a, <2>1 DEF Quiet
    <2>4. /\ ~unsolicited => ~Changes(fromClient) /\ QuietBefore(fromClient)
          /\ ~surprised => ~Changes(toServer) /\ QuietBefore(toServer)
      BY <2>3 DEF ChangeInv
    <2>5. ~surprised => serverFormat.bits = pixelFormat.bits
      <3>1. ~Changes(toServer) => serverFormat = Hton(pixelFormat)
        BY DEF FormatInv, Tells, Changes
      <3> QED
        BY <1>a, <2>4, <3>1, FormatTypes
    <2> QED
      BY <2>1, <2>2, <2>4, <2>5 DEF ChangeInv
  <1>6. CASE ProcessRequest
    <2>1. /\ toServer' = Append(toServer, Request) /\ MeasuredAsSent'
          /\ UNCHANGED <<unsolicited, surprised, fromServer, asked, pixelFormat>>
      BY <1>6, <1>b DEF ProcessRequest, tunnel, xvnc, client, ghosts
    <2>2. /\ Changes(fromClient') => Changes(fromClient)
          /\ QuietBefore(fromClient) => QuietBefore(fromClient') /\ ~Changes(fromClient)
      BY <1>6, <1>d, Messages DEF ProcessRequest
    <2>3. /\ Changes(toServer') => Changes(toServer)
          /\ QuietBefore(toServer) => QuietBefore(toServer')
      BY <1>a, <2>1, AsksAfterAppend, MessageTypes, Messages
    <2> QED
      BY <2>1, <2>2, <2>3 DEF ChangeInv, Quiet
  <1>7. CASE ProcessSetPixelFormat
    <2>1. PICK f \in Formats :
            /\ ClientReceive(SetPixelFormat(f))
            /\ \/ toServer' = Append(toServer, SetPixelFormat(Hton(Ntoh(f))))
               \/ UNCHANGED <<toServer, pixelFormat>>
      BY <1>7 DEF ProcessSetPixelFormat
    <2>2. /\ UNCHANGED <<unsolicited, fromServer, asked>> /\ MeasuredAsSent'
          /\ surprised' = (surprised \/ unsolicited)
      BY <1>7, <1>b DEF ProcessSetPixelFormat, xvnc, client
    <2> DEFINE m == SetPixelFormat(Hton(Ntoh(f)))
    <2>3. m \in TunnelMessage /\ m.type = "SetPixelFormat"
      BY FormatTypes, MessageTypes, Messages
    <2>4. /\ Changes(fromClient') => Changes(fromClient)
          /\ QuietBefore(fromClient) => QuietBefore(fromClient')
          /\ Changes(fromClient)
      BY <1>d, <2>1, Messages
    <2>5. ~unsolicited => Quiet /\ ~Asks(toServer) /\ QuietBefore(fromClient)
      BY <2>4 DEF ChangeInv
    <2>6. /\ Asks(toServer') => Asks(toServer)
          /\ QuietBefore(toServer) /\ ~Asks(toServer) => QuietBefore(toServer')
      <3> HIDE DEF m
      <3>1. CASE UNCHANGED toServer
        BY <3>1
      <3>2. CASE toServer' = Append(toServer, m)
        BY <1>a, <2>3, <3>2, AsksAfterAppend
      <3> QED
        BY <2>1, <3>1, <3>2 DEF m
    <2> HIDE DEF m
    <2> QED
      BY <2>2, <2>4, <2>5, <2>6 DEF ChangeInv, Quiet
  <1>8. CASE ProcessSetEncodings
    <2>1. PICK l \in Lists : ClientReceive(SetEncodings(l))
      BY <1>8 DEF ProcessSetEncodings
    <2> DEFINE m == SetEncodings(serverList')
    <2>2. /\ toServer' = Append(toServer, m) /\ MeasuredAsSent'
          /\ UNCHANGED <<unsolicited, surprised, fromServer, asked, pixelFormat>>
      BY <1>8, <1>b DEF ProcessSetEncodings, xvnc, client, ghosts
    <2>3. m \in TunnelMessage /\ m.type = "SetEncodings"
      BY MessageTypes, Messages DEF TypeInv
    <2> HIDE DEF m
    <2>4. /\ Asks(toServer') => Asks(toServer)
          /\ Changes(toServer') => Changes(toServer)
          /\ QuietBefore(toServer) => QuietBefore(toServer')
      BY <1>a, <2>2, <2>3, AsksAfterAppend
    <2> QED
      BY <1>c, <1>d, <2>1, <2>2, <2>4
  <1>9. CASE ProcessFramebufferUpdate
    <2>1. PICK u \in UpdateMessage : fromServer = <<u>>
      BY <1>9 DEF ProcessFramebufferUpdate, TypeInv
    <2>2. /\ fromServer' = <<>> /\ UNCHANGED <<asked, fromClient, toServer, surprised>>
          /\ unsolicited' = (unsolicited /\ Due')
          /\ shown'.format = u.format.bits /\ shown'.measured = pixelFormat.bits
      BY <1>9, <2>1 DEF ProcessFramebufferUpdate, xvnc
    <2>3. MeasuredAsSent'
      BY <2>1, <2>2 DEF ChangeInv, MeasuredAsSent
    <2>4. ~Quiet
      BY <2>1 DEF Quiet
    <2>5. ~surprised => QuietBefore(toServer) /\ ~Changes(toServer)
      BY <2>4 DEF ChangeInv
    <2>6. CASE ~unsolicited
      <3>1. QuietBefore(fromClient) /\ ~Changes(fromClient)
        BY <2>4, <2>6 DEF ChangeInv
      <3> QED
        BY <2>2, <2>3, <2>5, <3>1 DEF ChangeInv
    <2>7. CASE Due' /\ unsolicited
      BY <2>2, <2>3, <2>5, <2>7 DEF ChangeInv
    <2>8. CASE ~Due'
      <3>1. /\ asked' = 0 /\ ~Asks(toServer') /\ QuietBefore(fromClient')
        BY <2>8, NothingDue, NothingAsked
      <3> QED
        BY <2>2, <2>3, <2>5, <3>1 DEF ChangeInv, Quiet
    <2> QED
      BY <1>a, <2>6, <2>7, <2>8
  <1>10. CASE RefuseFramebufferUpdate
    BY <1>10, <1>b, <1>c DEF RefuseFramebufferUpdate, channels, tunnel, xvnc, client, ghosts
  <1>11. CASE SwitchToConnection
    BY <1>11, <1>b, <1>c DEF SwitchToConnection, channels, xvnc, client, ghosts
  <1>12. CASE ConnectionSwitched
    <2> DEFINE s == SetPixelFormat(Hton(pixelFormat))
               e == SetEncodings(serverList)
    <2>1. /\ toServer' = (IF Ntoh(Native[2]) # pixelFormat THEN <<s>> ELSE <<>>)
                           \o <<e, Request>>
          /\ fromServer' = <<>> /\ asked' = 0 /\ unsolicited' = TRUE
          /\ MeasuredAsSent'
      BY <1>12, <1>b DEF ConnectionSwitched, Replaced
    <2>2. e.type = "SetEncodings" /\ s.type = "SetPixelFormat" /\ Request.type = "Request"
      BY Messages
    <2> HIDE DEF s, e
    <2>3. toServer' = <<s, e, Request>> \/ toServer' = <<e, Request>>
      BY <2>1, OneAndTwo
    <2>4. QuietBefore(<<s, e, Request>>) /\ QuietBefore(<<e, Request>>)
      BY <2>2 DEF QuietBefore
    <2> QED
      BY <2>1, <2>3, <2>4 DEF ChangeInv, Quiet
  <1>13. CASE UNCHANGED vars
    BY <1>13, <1>c DEF vars, ChangeInv, MeasuredAsSent
  <1> QED
    BY <1>1, <1>2, <1>3, <1>4, <1>5, <1>6, <1>7, <1>8, <1>9, <1>10, <1>11, <1>12, <1>13
    DEF Next, Ended

-----------------------------------------------------------------------------
(* The invariants of the specification *)

\* The inductive invariant: no step needs more than it and the types.
TunnelInv ==
    /\ TypeInv
    /\ FormatInv /\ ListInv /\ OfferedInv
    /\ StreamInv /\ UpdateInv /\ DueInv /\ ChangeInv
    /\ NeverUnasked /\ TightStreamsMatch

\* The initial states satisfy all invariants.
LEMMA TunnelInit ==
  ASSUME Init
  PROVE  TunnelInv /\ WantedInv /\ AnnouncedIsSent
  <1> USE DEF Init
  <1>1. TypeInv
    BY TypeInit
  <1>2. FormatInv /\ WantedInv
    <2>1. Hton(Ntoh(Native[1])) = Native[1]
      BY FormatTypes
    <2> QED
      BY <2>1, TellsNothing DEF FormatInv, WantedInv
  <1>3. ListInv
    BY TellsNothing DEF ListInv, ToSet
  <1>4. OfferedInv
    BY DEF OfferedInv, Within, ToSet
  <1>5. StreamInv /\ UpdateInv
    BY DEF StreamInv, UpdateInv
  <1>6. DueInv
    BY DEF DueInv, Asks, AsksOnce
  <1>7. ChangeInv
    BY DEF ChangeInv, Quiet, QuietBefore, Changes, Asks, MeasuredAsSent, Nothing
  <1>8. NeverUnasked /\ TightStreamsMatch /\ AnnouncedIsSent
    BY DEF NeverUnasked, TightStreamsMatch, AnnouncedIsSent, Nothing, Contains, ToSet
  <1> QED
    BY <1>1, <1>2, <1>3, <1>4, <1>5, <1>6, <1>7, <1>8 DEF TunnelInv

\* And every step keeps the inductive one.
LEMMA TunnelStep ==
  ASSUME TunnelInv, [Next]_vars
  PROVE  TunnelInv'
  <1> USE DEF TunnelInv
  <1>1. TypeInv'
    BY TypeStep
  <1>2. FormatInv' /\ ListInv' /\ OfferedInv'
    BY <1>1, FormatStep, ListStep, OfferedStep
  <1>3. StreamInv' /\ TightStreamsMatch' /\ UpdateInv'
    BY StreamStep, UpdateStep
  <1>4. DueInv' /\ ChangeInv'
    BY <1>1, DueStep, ChangeStep
  <1>5. NeverUnasked'
    BY NeverUnaskedStep
  <1> QED
    BY <1>1, <1>2, <1>3, <1>4, <1>5

\* The inductive invariant holds in every reachable state.
THEOREM TunnelCorrect == Spec => []TunnelInv
  <1>1. Init => TunnelInv
    BY TunnelInit
  <1>2. TunnelInv /\ [Next]_vars => TunnelInv'
    BY TunnelStep
  <1> QED
    BY <1>1, <1>2, PTL DEF Spec

\* Every variable keeps its type, and the announced count its 16 bits.
THEOREM TypeCorrect == Spec => []TypeOK
  <1>1. TunnelInv => TypeOK
    BY DEF TunnelInv, TypeInv
  <1> QED
    BY <1>1, TunnelCorrect, PTL

\* No rectangle is in an encoding that the client has never listed: whatever the lists,
\* the switches, and the rectangles that processFramebufferUpdate makes up.
THEOREM NothingUnasked == Spec => []NeverUnasked
  <1>1. TunnelInv => NeverUnasked
    BY DEF TunnelInv
  <1> QED
    BY <1>1, TunnelCorrect, PTL

\* The tunnel measures in the format the rectangle is sent in, unless the client has
\* changed the format while the answer to the tunnel's own request was on its way.
THEOREM SizesAreRight == Spec => []MeasuredAsSent
  <1>1. TunnelInv => MeasuredAsSent
    BY DEF TunnelInv, ChangeInv
  <1> QED
    BY <1>1, TunnelCorrect, PTL

\* The client's zlib streams never read Tight data of two servers without a reset.
THEOREM StreamsAreReset == Spec => []TightStreamsMatch
  <1>1. TunnelInv => TightStreamsMatch
    BY DEF TunnelInv
  <1> QED
    BY <1>1, TunnelCorrect, PTL

\* The client finds the end of every update, for every maximum of the count, provided
\* that no server announces as many rectangles as that without a LastRect.
THEOREM UpdatesEnd == MaxContents < MaxRects /\ Spec => []AnnouncedIsSent
  <1> SUFFICES ASSUME MaxContents < MaxRects
               PROVE  Spec => []AnnouncedIsSent
    OBVIOUS
  <1>1. Init => AnnouncedIsSent
    BY TunnelInit
  <1>2. TunnelInv /\ AnnouncedIsSent /\ [Next]_vars => AnnouncedIsSent'
    BY AnnouncedStep DEF TunnelInv
  <1> QED
    BY <1>1, <1>2, TunnelCorrect, PTL DEF Spec

\* With empty queues, who is going to know something knows it.
LEMMA InSync ==
  ASSUME TunnelInv, WantedInv
  PROVE  ServerInSync
  <1>1. FormatArrives
    BY TellsNothing DEF FormatArrives, TunnelInv, FormatInv, WantedInv
  <1>2. ASSUME toServer = <<>>, ~greeter, listed # <<>>
        PROVE  serverKnows = ToSet(listed) \cup {"DesktopName"}
    <2>1. serverKnows = ToSet(serverList)
      BY <1>2, TellsNothing DEF TunnelInv, ListInv
    <2>2. ToSet(serverList) = ToSet(listed) \cup {"DesktopName"}
      BY <1>2 DEF TunnelInv, ListInv
    <2> QED
      BY <2>1, <2>2
  <1> QED
    BY <1>1, <1>2 DEF ServerInSync

\* The server knows the client's format and encodings once it has read everything, if
\* no client asks for a format of the other endianness (see FormatArrives).
THEOREM ServerLearns ==
  (\A f \in Formats : f.big = HostBig) /\ Spec => []ServerInSync
  <1> SUFFICES ASSUME \A f \in Formats : f.big = HostBig
               PROVE  Spec => []ServerInSync
    OBVIOUS
  <1>1. Init => WantedInv
    BY TunnelInit
  <1>2. TunnelInv /\ TunnelInv' /\ WantedInv /\ [Next]_vars => WantedInv'
    BY WantedStep DEF TunnelInv
  <1>3. TunnelInv /\ WantedInv => ServerInSync
    BY InSync
  <1> QED
    BY <1>1, <1>2, <1>3, TunnelCorrect, PTL DEF Spec

=============================================================================
