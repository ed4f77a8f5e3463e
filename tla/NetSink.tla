------------------------------ MODULE NetSink ------------------------------
(***************************************************************************)
(* Where the writer of the live stream sends its frames: UDP fragments     *)
(* (stream/video_rt_udp.c), RTP (video_rt_rtp.c), a TCP connection that    *)
(* TcpClients has found (video_rt_tcp.c, and video_rt_tcp2.c with a list   *)
(* of its own), or a callback of the application (video_rt_usr.c).         *)
(* stream_open picks the sink by the prefix of the path.  The writer's     *)
(* thread opens, writes and closes; the application's task starts and      *)
(* kills the writer, and unregisters the UDP socket of a phone that left.  *)
(*                                                                         *)
(* Lengths are counted in units of which a datagram carries Payload, and   *)
(* UDP_SEND_BUF_SIZE holds BufFrags datagrams.                             *)
(***************************************************************************)
EXTENDS Integers

CONSTANTS Payload, BufFrags, Lengths, MaxFrames, MaxOpens

ASSUME SizesAssumption == Payload \in Nat \ {0} /\ BufFrags \in Nat \ {0}
ASSUME LengthsAssumption == Lengths \subseteq Nat \ {0}

VARIABLES
    kind,     \* which sink the path names
    info,     \* the record of the open sink: "none", "fd" set, "nofd"
    rt_info,  \* the departure handler's pointer to that record is set
    sock,     \* the socket of this opening: "none", "live", "gone"
    frees,    \* how often it has been unregistered
    writer,   \* where the writer's thread is
    app,      \* where the application's task is
    frame,    \* the frame being sent, or the last one
    cut,      \* the departure handler ran during this frame
    frames, opens

sinkVars == <<kind, info, rt_info, sock, frees, writer, app, frame, cut, frames, opens>>

OwnSocket == {"udp", "rtp"}    \* these open a socket, TCP uses the client's
NoFrame == [len |-> 0, off |-> 0, sent |-> 0, short |-> FALSE, marked |-> FALSE,
            result |-> "none"]

SinkInit ==
    /\ kind \in {"udp", "rtp", "tcp", "cty", "usr"}
    /\ info = "none" /\ rt_info = FALSE /\ sock = "none" /\ frees = 0
    /\ writer = "off" /\ app = "idle"
    /\ frame = NoFrame /\ cut = FALSE /\ frames = 0 /\ opens = 0

-----------------------------------------------------------------------------
(* The writer: net_rt_vpkg_open, net_rt_send_frame, net_rt_vpkg_close. *)

\* One round of the fragment loop gathers this much before it looks whether
\* to send.
Gathered(len, off) ==
    IF len - off < BufFrags * Payload THEN len - off ELSE BufFrags * Payload

\* A fragment below the payload is the last one: it carries the mark.
EndsShort(n) == n % Payload # 0

\* What has been gathered is sent when the buffer is full or a mark is in it.
Flushed_FullOnly(n) == n = BufFrags * Payload
Flushed(n) == n = BufFrags * Payload \/ EndsShort(n)

SinkOpen ==
    /\ writer = "opening"
    /\ frees' = 0
    /\ \/ /\ info' = "fd" /\ rt_info' = (kind = "udp")
          /\ sock' = IF kind \in OwnSocket THEN "live" ELSE "none"
          /\ writer' = "run"
       \/ /\ kind # "usr"
          /\ writer' = "off"
          /\ UNCHANGED <<info, rt_info, sock>>
    /\ UNCHANGED <<kind, app, frame, cut, frames, opens>>

Begun(len, result) == frame' = [NoFrame EXCEPT !.len = len, !.result = result]

\* Without a socket the frame is refused; while too many frames are queued it
\* is given up and reported as sent.
BeginFrame(len) ==
    \/ /\ info = "fd"
       /\ Begun(len, "sending") /\ writer' = "send"
    \/ /\ kind \in {"udp", "tcp"}
       /\ Begun(len, IF info = "fd" THEN "skipped" ELSE "error")
       /\ UNCHANGED writer

Write ==
    /\ writer = "run" /\ frames < MaxFrames
    /\ frames' = frames + 1 /\ cut' = (app = "forget")
    /\ \E len \in Lengths : BeginFrame(len)
    /\ UNCHANGED <<kind, info, rt_info, sock, frees, app, opens>>

GoesOn(f) == frame' = f /\ UNCHANGED writer
Ends(f, result) == frame' = [f EXCEPT !.result = result] /\ writer' = "run"

\* One round: gather, then one sock_sendto, which the socket's callback may
\* break off (cb_flag: the frame is dropped and reported as sent).
SendUdp ==
    LET n == Gathered(frame.len, frame.off)
        f == [frame EXCEPT !.off = @ + n, !.marked = EndsShort(n),
                           !.sent = IF Flushed(n) THEN @ + n ELSE @]
    IN  \/ /\ Flushed(n) => sock = "live"
           /\ IF f.off = f.len THEN Ends(f, "sent") ELSE GoesOn(f)
        \/ Flushed(n) /\ Ends(frame, "error")
        \/ Flushed(n) /\ sock = "live" /\ Ends(frame, "dropped")

\* RTP: a key frame as two parameter sets and a picture, any other as one part.
\* TCP: a header, for H264 the patched first 64 bytes, the rest; or a size and
\* the data.
FewestParts == [rtp |-> 1, tcp |-> 2, cty |-> 2]
MostParts == [rtp |-> 3, tcp |-> 3, cty |-> 2]

\* The last part: the frame is all there only if every part went out whole.
EndsParts(f) ==
    Ends([f EXCEPT !.sent = IF f.short THEN @ ELSE f.len, !.marked = ~f.short], "sent")

\* A part that cannot be sent at all ends the frame.  One that sock_send took
\* only the beginning of counts as sent: only an answer below one is an error.
SendPart ==
    \/ \E short \in BOOLEAN :
          LET f == [frame EXCEPT !.off = @ + 1, !.short = @ \/ short]
          IN  \/ f.off < MostParts[kind] /\ GoesOn(f)
              \/ f.off >= FewestParts[kind] /\ EndsParts(f)
    \/ Ends(frame, "error")

\* The registered callback takes the frame; without one it is thrown away.
SendUsr == EndsParts(frame)

Send ==
    /\ writer = "send"
    /\ CASE kind = "udp" -> SendUdp [] kind = "usr" -> SendUsr [] OTHER -> SendPart
    /\ UNCHANGED <<kind, info, rt_info, sock, frees, app, cut, frames, opens>>

\* The record is freed with a socket that is still its own.
SinkClose ==
    /\ writer = "run" /\ app = "kill"
    /\ IF info = "fd" /\ kind \in OwnSocket
       THEN sock' = "gone" /\ frees' = frees + 1
       ELSE UNCHANGED <<sock, frees>>
    /\ info' = "none" /\ rt_info' = FALSE /\ writer' = "off"
    /\ UNCHANGED <<kind, app, frame, cut, frames, opens>>

-----------------------------------------------------------------------------
(* The application's task. *)

\* stream_protocol_task_create, and ..._task_kill, which waits for the writer.
Start ==
    /\ app = "idle" /\ writer = "off" /\ opens < MaxOpens
    /\ writer' = "opening" /\ opens' = opens + 1
    /\ UNCHANGED <<kind, info, rt_info, sock, frees, app, frame, cut, frames>>

Kill ==
    /\ app = "idle" /\ writer \in {"run", "send"}
    /\ app' = "kill"
    /\ UNCHANGED <<kind, info, rt_info, sock, frees, writer, frame, cut, frames, opens>>

KillDone ==
    /\ app = "kill" /\ writer = "off"
    /\ app' = "idle"
    /\ UNCHANGED <<kind, info, rt_info, sock, frees, writer, frame, cut, frames, opens>>

\* UDP_client_socket_unreg for the phone the stream goes to: first the socket
\* is unregistered, then the record forgets it.
Unreg ==
    /\ app = "idle" /\ rt_info
    /\ sock' = "gone" /\ frees' = frees + 1
    /\ app' = "forget"
    /\ cut' = (writer = "send")
    /\ UNCHANGED <<kind, info, rt_info, writer, frame, frames, opens>>

Forget_KeepsFd == rt_info' = FALSE /\ UNCHANGED info
ForgetFd == info' = "nofd" /\ rt_info' = FALSE

Forget ==
    /\ app = "forget"
    /\ ForgetFd
    /\ app' = "idle"
    /\ UNCHANGED <<kind, sock, frees, writer, frame, cut, frames, opens>>

SinkNext ==
    \/ SinkOpen \/ Write \/ Send \/ SinkClose
    \/ Start \/ Kill \/ KillDone \/ Unreg \/ Forget

SinkSpec == SinkInit /\ [][SinkNext]_sinkVars

-----------------------------------------------------------------------------
(* Properties. *)

\* A frame that is reported as sent has reached the socket whole, and the phone
\* can see where it ends.  Over UDP a short datagram is an error, and the claim
\* excepts only the lengths that are a multiple of the payload
\* (video_rt_udp.c:276, 309-327); the other sinks do not compare what they sent
\* with what they had to send, and it excepts their short parts
\* (video_rt_tcp.c:178, 209, 217).
SentWhole ==
    /\ frame.result = "sent"
    /\ kind = "udp" => EndsShort(frame.len)
    /\ kind # "udp" => ~frame.short
    => frame.sent = frame.len /\ frame.marked

\* The writer's thread and the departure handler share the socket: it is
\* unregistered once, by one of them, before the record is gone, and the writer
\* uses it afterwards only for the rest of a frame the departure cut.
SocketOwned ==
    /\ frees <= 1
    /\ writer = "off" => sock # "live"
    /\ writer = "send" /\ sock = "gone" => cut
=============================================================================
