--------------------------- MODULE TunnelProtocol ---------------------------
(***************************************************************************)
(* What VncTunnel does to the messages between a VNC client and the Xvnc   *)
(* it is connected to: it rewrites the lists of encodings, remembers the   *)
(* pixel format to know the size of what it forwards, replaces, drops and  *)
(* adds rectangles of framebuffer updates, and after a switch tells the    *)
(* new server what the client has told the old one.                        *)
(*                                                                         *)
(* Server 1 is the one with the greeter, server 2 the one the client is    *)
(* switched to.  A framebuffer update is the number of rectangles it       *)
(* announces and the sequence of their encodings; a server that knows the  *)
(* client supports LastRect may announce MaxRects (65535 in the code) and  *)
(* end the update with a LastRect rectangle.                               *)
(*                                                                         *)
(* The client is external and careful: it changes the pixel format only    *)
(* when none of its requests is unanswered.  The server answers requests   *)
(* in the format and with the encodings of the messages it has read.       *)
(*                                                                         *)
(* Bounds: the client changes formats and encodings MaxChanges times;       *)
(* MaxFlight client messages on their way, three to a server and one       *)
(* update from it (more would block the sender); MaxContents rectangles in *)
(* an update; MaxRects, the largest 16 bit number, is scaled down for TLC. *)
(***************************************************************************)
EXTENDS Naturals, FiniteSets, Sequences, SequencesExt

CONSTANTS HostBig,      \* whether the host is big-endian
          Formats,      \* the pixel formats the client may ask for
          Native,       \* the format each server starts with
          Lists,        \* the lists of encodings the client may send
          MaxRects,     \* the largest number of rectangles an update can announce
          MaxContents,  \* bound on the rectangles a server puts into one
          MaxFlight,    \* bound on the client's messages on their way
          MaxChanges    \* bound on SetPixelFormat and SetEncodings messages

\* The encodings of processSetEncodings that the properties tell apart.
Known == {"Raw", "CopyRect", "Tight", "DesktopName", "LastRect"}
Servers == {1, 2}

\* bits is bitsPerPixel, big the bigEndianFlag; swapped, whether the bytes of
\* redMax, greenMax and blueMax are not in the order of the network.
Format == [bits : Nat, big : BOOLEAN, swapped : BOOLEAN]

\* The servers run on the same host and start with its byte order.
ASSUME ProtocolAssumption ==
    /\ HostBig \in BOOLEAN
    /\ \A f \in Formats : f \in Format /\ ~f.swapped
    /\ Native \in [Servers -> {f \in Formats : f.big = HostBig /\ f.bits \in {8, 16, 24, 32}}]
    /\ \A l \in Lists : l \in Seq(STRING) /\ IsInjective(l)
    /\ MaxRects \in Nat /\ MaxContents \in 1 .. MaxRects
    /\ MaxFlight \in Nat /\ MaxChanges \in Nat

VARIABLES
    thread,         \* serve, or ended by an exception
    server,         \* the server of m_currentConnection
    greeter,        \* whether the client may still be switched
    fromClient,     \* messages on their way to the tunnel ...
    toServer,       \* ... from the tunnel to the server
    fromServer,     \* updates on their way to the tunnel
    pixelFormat,    \* VncTunnel::m_pixelFormat
    listed,         \* m_supportedEncodingsClient, in the order they were listed
    serverList,     \* m_supportedEncodingsServer
    tightDisabled,  \* m_tightEncodingDisabled
    resetQueued,    \* m_tightZlibResetQueued
    nameQueued,     \* m_desktopNameChangeQueued
    serverFormat,   \* the format the server has been told
    serverKnows,    \* the encodings the server has been told
    asked,          \* requests the server has read and not answered
    waiting,        \* whether the client waits for an update
    wanted,         \* the format the client has told last
    offered,        \* all encodings the client has ever listed
    changes,        \* how often the client has changed something
    streams,        \* whose Tight data the client's zlib streams have read, or 0
    unsolicited,    \* an answer is due to the request of connectionSwitched
    surprised,      \* the client has changed the format meanwhile
    shown           \* the update the client is sent in a step, or nothing

channels == <<fromClient, toServer, fromServer>>
tunnel   == <<pixelFormat, listed, serverList, tightDisabled, resetQueued, nameQueued>>
xvnc     == <<server, serverFormat, serverKnows, asked>>
client   == <<waiting, wanted, offered, changes, streams>>
ghosts   == <<unsolicited, surprised>>
vars == <<thread, server, greeter, fromClient, toServer, fromServer, pixelFormat,
          listed, serverList, tightDisabled, resetQueued, nameQueued, serverFormat,
          serverKnows, asked, waiting, wanted, offered, changes, streams,
          unsolicited, surprised, shown>>
-----------------------------------------------------------------------------
(* Messages *)

Request == [type |-> "Request"]
SetPixelFormat(f) == [type |-> "SetPixelFormat", format |-> f]
SetEncodings(l) == [type |-> "SetEncodings", list |-> l]

\* What a server may put into an update, by the encodings it has been told.
Contents(knows) ==
    UNION {[1 .. n -> (knows \cup {"Raw"}) \ {"LastRect"}] : n \in 1 .. MaxContents}

Update(n, rects) ==
    [count |-> n, rects |-> rects, format |-> serverFormat, from |-> server]

\* PixelFormat::ntoh and hton: only a big-endian format is converted when it comes
\* in, none when it goes out, but the flag becomes the host's.
Ntoh(f) == [f EXCEPT !.swapped = (f.swapped # (f.big /\ ~HostBig))]
Hton(f) == [f EXCEPT !.big = HostBig]

\* PixelFormat::valid
Valid(f) == f.bits \in {8, 16, 24, 32}

\* An answer is due: a request, or what it led to, is on its way.
Due == \/ Contains(fromClient, Request)
       \/ Contains(toServer, Request)
       \/ asked > 0
       \/ fromServer # <<>>
-----------------------------------------------------------------------------
\* What the client is sent when it is sent no update.
Nothing == [count |-> 0, rects |-> <<>>, format |-> 0, measured |-> 0, fresh |-> TRUE]
Silent == shown' = Nothing

Init ==
    /\ thread = "serve" /\ server = 1
    /\ greeter \in BOOLEAN
    /\ tightDisabled = greeter
    /\ fromClient = <<>> /\ toServer = <<>> /\ fromServer = <<>>
    /\ pixelFormat = Ntoh(Native[1]) /\ serverFormat = Native[1]
    /\ wanted = Hton(Ntoh(Native[1]))
    /\ listed = <<>> /\ serverList = <<>> /\ serverKnows = {} /\ offered = {}
    /\ resetQueued = FALSE /\ nameQueued = FALSE
    /\ asked = 0 /\ waiting = FALSE /\ streams = 0 /\ changes = 0
    /\ unsolicited = FALSE /\ surprised = FALSE
    /\ shown = Nothing
-----------------------------------------------------------------------------
(* The client and the server *)

ClientSends(m) ==
    /\ Len(fromClient) < MaxFlight
    /\ fromClient' = Append(fromClient, m)
    /\ UNCHANGED <<thread, greeter, toServer, fromServer, tunnel, xvnc, ghosts, streams>>
    /\ Silent

ClientRequests ==
    /\ ~waiting
    /\ waiting' = TRUE
    /\ ClientSends(Request)
    /\ UNCHANGED <<wanted, offered, changes>>

ClientSetsPixelFormat(f) ==
    /\ ~waiting
    /\ changes < MaxChanges
    /\ changes' = changes + 1
    /\ wanted' = f
    /\ ClientSends(SetPixelFormat(f))
    /\ UNCHANGED <<waiting, offered>>

ClientSetsEncodings(l) ==
    /\ changes < MaxChanges
    /\ changes' = changes + 1
    /\ offered' = offered \cup ToSet(l)
    /\ ClientSends(SetEncodings(l))
    /\ UNCHANGED <<waiting, wanted>>

ServerReads ==
    /\ toServer # <<>>
    /\ toServer' = Tail(toServer)
    /\ LET m == Head(toServer)
       IN  /\ asked' = IF m = Request THEN asked + 1 ELSE asked
           /\ serverFormat' = IF m.type = "SetPixelFormat" THEN m.format
                              ELSE serverFormat
           /\ serverKnows' = IF m.type = "SetEncodings" THEN ToSet(m.list)
                             ELSE serverKnows
    /\ UNCHANGED <<thread, server, greeter, fromClient, fromServer, tunnel, client,
                   ghosts>>
    /\ Silent

ServerUpdates ==
    /\ asked > 0
    /\ fromServer = <<>>
    /\ asked' = asked - 1
    /\ \E rects \in Contents(serverKnows) :
         \/ fromServer' = <<Update(Len(rects), rects)>>
         \/ /\ "LastRect" \in serverKnows
            /\ Len(rects) + 2 <= MaxRects
            /\ fromServer' = <<Update(MaxRects, Append(rects, "LastRect"))>>
    /\ UNCHANGED <<thread, server, greeter, fromClient, toServer, tunnel, serverFormat,
                   serverKnows, client, ghosts>>
    /\ Silent
-----------------------------------------------------------------------------
(* VncTunnel::clientReceive *)

ClientReceive(m) ==
    /\ thread = "serve"
    /\ fromClient # <<>>
    /\ m = Head(fromClient)
    /\ fromClient' = Tail(fromClient)
    /\ Len(toServer) < 3

ProcessRequest ==
    /\ ClientReceive(Request)
    /\ toServer' = Append(toServer, Request)
    /\ UNCHANGED <<thread, greeter, fromServer, tunnel, xvnc, client, ghosts>>
    /\ Silent

ProcessSetPixelFormat ==
    \E f \in Formats :
        /\ ClientReceive(SetPixelFormat(f))
        /\ IF Valid(Ntoh(f))
           THEN /\ pixelFormat' = Ntoh(f)
                /\ toServer' = Append(toServer, SetPixelFormat(Hton(pixelFormat')))
                /\ UNCHANGED thread
           ELSE /\ thread' = "ended"
                /\ UNCHANGED <<pixelFormat, toServer>>
        /\ surprised' = (surprised \/ unsolicited)
        /\ UNCHANGED <<greeter, fromServer, listed, serverList, tightDisabled,
                       resetQueued, nameQueued, xvnc, client, unsolicited>>
        /\ Silent

\* The elements of a list that are in E, one after the other.
Among(l, E) == FlattenSeq([i \in DOMAIN l |-> IF l[i] \in E THEN <<l[i]>> ELSE <<>>])

\* What is known of the client's list goes on to the server: without Tight while
\* it is disabled, and always with DesktopName.
Filtered(l) ==
    LET rest == Among(l, IF tightDisabled THEN Known \ {"Tight"} ELSE Known)
    IN  IF Contains(l, "DesktopName") THEN rest ELSE Append(rest, "DesktopName")

ProcessSetEncodings ==
    \E l \in Lists :
        /\ ClientReceive(SetEncodings(l))
        /\ listed' = Among(l, Known)
        /\ serverList' = Filtered(l)
        /\ toServer' = Append(toServer, SetEncodings(serverList'))
        /\ UNCHANGED <<thread, greeter, fromServer, pixelFormat, tightDisabled,
                       resetQueued, nameQueued, xvnc, client, ghosts>>
        /\ Silent
-----------------------------------------------------------------------------
(* VncTunnel::processFramebufferUpdate *)

\* clientSupportsEncoding
Supports(e) == Contains(listed, e)

\* Fault: the rectangle that is added is not counted.
CountNoExtra == 0

CountExtraRectangles == IF nameQueued THEN 1 ELSE 0

\* What the client is sent instead of a dummy: nothing can be sent for it.
Impossible == <<"impossible">>

SendDummyRectangle ==
    IF Supports("Raw") THEN <<"Raw">>
    ELSE IF Supports("CopyRect") THEN <<"CopyRect">>
    ELSE Impossible

\* Fault: desktop names are forwarded to every client.
ForwardAlways(e) == <<e>>

\* What the client is sent for a rectangle: the desktop name may be none of its
\* business, and then it is dropped, or replaced where no LastRect makes up for it.
Forwarded(e) ==
    IF e # "DesktopName" \/ Supports("DesktopName") THEN <<e>>
    ELSE IF Supports("LastRect") THEN <<>>
    ELSE SendDummyRectangle

\* The extra rectangles do not fit into the count.
TooMany(u) == u.count > MaxRects - CountExtraRectangles

\* Fault: the sum is not checked.
AnnouncedUnchecked(u) == u.count + CountExtraRectangles

Announced(u) == IF TooMany(u) THEN MaxRects ELSE u.count + CountExtraRectangles

Dropped(u) == \E i \in DOMAIN u.rects : Forwarded(u.rects[i]) = <<>>

\* The rectangles the client is sent: the extra ones, those forwarded, and a
\* LastRect where the count is wrong and the server has not sent one.
Rectangles(u) ==
    (IF nameQueued THEN <<"DesktopName">> ELSE <<>>)
        \o FlattenSeq([i \in DOMAIN u.rects |-> Forwarded(u.rects[i])])
        \o (IF (TooMany(u) \/ Dropped(u)) /\ ~Contains(u.rects, "LastRect")
            THEN <<"LastRect">> ELSE <<>>)

\* The update is forwarded.  The first Tight rectangle takes the queued reset of
\* the client's zlib streams with it.
ProcessFramebufferUpdate ==
    /\ thread = "serve"
    /\ fromServer # <<>>
    /\ LET u == Head(fromServer)
           tight == Contains(u.rects, "Tight")
       IN  /\ ~(TooMany(u) /\ ~Supports("LastRect"))
           /\ ~Contains(Rectangles(u), "impossible")
           /\ shown' = [count |-> Announced(u), rects |-> Rectangles(u),
                        format |-> u.format.bits, measured |-> pixelFormat.bits,
                        fresh |-> tight => resetQueued \/ streams \in {0, u.from}]
           /\ resetQueued' = (resetQueued /\ ~tight)
           /\ streams' = IF tight THEN u.from ELSE streams
    /\ nameQueued' = FALSE
    /\ waiting' = FALSE
    /\ fromServer' = Tail(fromServer)
    /\ UNCHANGED <<thread, greeter, fromClient, toServer, pixelFormat, listed,
                   serverList, tightDisabled, xvnc, wanted, offered, changes, surprised>>
    /\ unsolicited' = (unsolicited /\ Due')

\* The two exceptions: no LastRect where it is needed, no encoding for a dummy.
RefuseFramebufferUpdate ==
    /\ thread = "serve"
    /\ fromServer # <<>>
    /\ LET u == Head(fromServer)
       IN  \/ TooMany(u) /\ ~Supports("LastRect")
           \/ Contains(Rectangles(u), "impossible")
    /\ thread' = "ended"
    /\ UNCHANGED <<greeter, channels, tunnel, xvnc, client, ghosts>>
    /\ Silent
-----------------------------------------------------------------------------
(* Switching *)

\* Fault: Tight is enabled again, but the list is not changed.
SwitchForgetsTight ==
    /\ thread = "serve"
    /\ greeter
    /\ tightDisabled
    /\ tightDisabled' = FALSE
    /\ UNCHANGED <<thread, greeter, channels, pixelFormat, listed, serverList,
                   resetQueued, nameQueued, xvnc, client, ghosts>>
    /\ Silent

\* switchToConnection begins: Tight is enabled again, for the server that comes.
\* The potential connection may fail, and the client stay where it is.
SwitchToConnection ==
    /\ thread = "serve"
    /\ greeter
    /\ tightDisabled
    /\ tightDisabled' = FALSE
    /\ serverList' = IF Supports("Tight") THEN <<"Tight">> \o serverList
                     ELSE serverList
    /\ UNCHANGED <<thread, greeter, channels, pixelFormat, listed, resetQueued,
                   nameQueued, xvnc, client, ghosts>>
    /\ Silent

\* The new connection, whatever is queued for the client, and messages m to it.
Replaced(m) ==
    /\ thread = "serve"
    /\ greeter
    /\ ~tightDisabled
    /\ greeter' = FALSE
    /\ server' = 2
    /\ serverFormat' = Native[2] /\ serverKnows' = {} /\ asked' = 0
    /\ fromServer' = <<>>
    /\ toServer' = m
    /\ nameQueued' = (nameQueued \/ Supports("DesktopName"))
    /\ UNCHANGED <<thread, fromClient, pixelFormat, listed, serverList, tightDisabled,
                   client, surprised>>
    /\ Silent

\* Fault: the new server is not told the pixel format.
SwitchedWithoutFormat ==
    /\ Replaced(<<SetEncodings(serverList), Request>>)
    /\ resetQueued' = TRUE
    /\ unsolicited' = TRUE

\* Fault: the client's zlib streams go on where the old server stopped.
SwitchedWithoutReset ==
    /\ Replaced(<<SetPixelFormat(Hton(pixelFormat)), SetEncodings(serverList), Request>>)
    /\ unsolicited' = TRUE
    /\ UNCHANGED resetQueued

\* Fault: no update is requested from the new server.
SwitchedWithoutRequest ==
    /\ Replaced(<<SetPixelFormat(Hton(pixelFormat)), SetEncodings(serverList)>>)
    /\ resetQueued' = TRUE
    /\ UNCHANGED unsolicited

\* connectionSwitched: the old connection and what was on its way are gone; the
\* new server is told the client's format and encodings and asked for an update.
ConnectionSwitched ==
    /\ Replaced((IF Ntoh(Native[2]) # pixelFormat
                  THEN <<SetPixelFormat(Hton(pixelFormat))>> ELSE <<>>)
                  \o <<SetEncodings(serverList), Request>>)
    /\ resetQueued' = TRUE
    /\ unsolicited' = TRUE

Ended == thread = "ended" /\ UNCHANGED vars

Next ==
    \/ ClientRequests
    \/ \E f \in Formats : ClientSetsPixelFormat(f)
    \/ \E l \in Lists : ClientSetsEncodings(l)
    \/ ServerReads \/ ServerUpdates
    \/ ProcessRequest \/ ProcessSetPixelFormat \/ ProcessSetEncodings
    \/ ProcessFramebufferUpdate \/ RefuseFramebufferUpdate
    \/ SwitchToConnection \/ ConnectionSwitched
    \/ Ended

Spec == Init /\ [][Next]_vars

\* select() serves both sides, and the server answers: a full update at once, an
\* incremental one when the screen changes, which it is assumed to do.  The
\* switch is up to the user and the new server.
FairSpec ==
    /\ Spec
    /\ WF_vars(ProcessRequest \/ ProcessSetPixelFormat \/ ProcessSetEncodings)
    /\ WF_vars(ProcessFramebufferUpdate \/ RefuseFramebufferUpdate)
    /\ WF_vars(ServerReads)
    /\ WF_vars(ServerUpdates)
-----------------------------------------------------------------------------
(* Properties *)

\* The type invariant; the count of an update fits into its 16 bits.
TypeOK ==
    /\ thread \in {"serve", "ended"} /\ server \in Servers
    /\ {pixelFormat, serverFormat, wanted} \subseteq Format
    /\ ToSet(listed) \subseteq Known /\ ToSet(serverList) \subseteq Known
    /\ serverKnows \subseteq Known
    /\ {greeter, tightDisabled, resetQueued, nameQueued, waiting, unsolicited,
        surprised} \subseteq BOOLEAN
    /\ asked \in Nat /\ streams \in Servers \cup {0}
    /\ shown.count \in 0 .. MaxRects
    /\ changes \in 0 .. MaxChanges

\* The client finds the end of every update: it is sent as many rectangles as
\* were announced, or fewer and a LastRect as the last one.  Whatever rectangles
\* are added, dropped or replaced, the next message is read as a message.
AnnouncedIsSent ==
    LET n == Len(shown.rects)
    IN  IF Contains(shown.rects, "LastRect")
        THEN n <= shown.count /\ \A i \in 1 .. n - 1 : shown.rects[i] # "LastRect"
                              /\ shown.rects[n] = "LastRect"
        ELSE n = shown.count

\* The client is sent no rectangle in an encoding it has never listed (Raw needs
\* no listing): the server is always asked for desktop names, and the tunnel
\* makes up rectangles of its own.
NeverUnasked == ToSet(shown.rects) \subseteq offered \cup {"Raw"}

\* The tunnel measures a rectangle in the pixel format the server has sent it
\* in, across switches; the one exception is what the comment in
\* connectionSwitched fears: the client changes the format while the answer to
\* the tunnel's own request is on its way.
MeasuredAsSent == shown.format = shown.measured \/ surprised

\* The client's zlib streams never read the Tight data of two servers without
\* a reset in between, also when a switch has failed before and Tight has been
\* enabled for the old server.
TightStreamsMatch == shown.fresh

\* When nothing is on its way to it, the server knows the format that the client
\* has asked for last.  "Send given variable in network endianity"
\* (StreamFormatter.h:161) is not what happens to a format of the other endianness.
FormatArrives ==
    thread = "serve" /\ fromClient = <<>> /\ toServer = <<>> => serverFormat = wanted

\* And it knows the encodings, but for Tight while a switch is expected.
ServerInSync ==
    /\ FormatArrives
    /\ thread = "serve" /\ fromClient = <<>> /\ toServer = <<>> /\ ~greeter /\ listed # <<>>
           => serverKnows = ToSet(listed) \cup {"DesktopName"}

\* A client that waits for an update gets one, even when the request or the
\* answer is lost in a switch: connectionSwitched requests another.
RequestIsAnswered == waiting ~> ~waiting \/ thread = "ended"
=============================================================================
