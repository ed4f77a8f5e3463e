---------------------------- MODULE PartsProofs ----------------------------
(***************************************************************************)
(* Proofs about the parts that MCParts checks and that share one record    *)
(* between threads: who may still use the socket of the live stream and    *)
(* what reaches it of a frame (NetSink), the list of the connections of    *)
(* the second TCP server (TcpClients), whose buffers a recorder's channel  *)
(* writes to (UserRecs), and the settings (Settings).                      *)
(***************************************************************************)
EXTENDS NetSink, TcpClients, UserRecs, Settings, CardProofs

-----------------------------------------------------------------------------
(* The socket. *)

Kinds == {"udp", "rtp", "tcp", "cty", "usr"}
Owns == kind \in OwnSocket

SinkType ==
    /\ kind \in Kinds /\ info \in {"none", "fd", "nofd"} /\ rt_info \in BOOLEAN
    /\ sock \in {"none", "live", "gone"} /\ frees \in Nat
    /\ writer \in {"off", "opening", "run", "send"}
    /\ app \in {"idle", "kill", "forget"} /\ cut \in BOOLEAN

\* The record names the socket until one of the two threads unregisters it; in
\* between the departure handler's two steps nothing can close the sink.
SockInv ==
    /\ SinkType
    /\ writer \in {"off", "opening"} => info = "none"
    /\ info # "fd" => ~rt_info /\ sock # "live"
    /\ info = "nofd" => frees = 1
    /\ info = "fd" /\ Owns /\ app # "forget" => sock = "live" /\ frees = 0
    /\ rt_info => kind = "udp"
    /\ app = "forget" => /\ rt_info /\ sock = "gone" /\ frees = 1
                         /\ writer \in {"run", "send"}
    /\ ~Owns => sock = "none"
    /\ frees <= 1
    /\ writer = "send" /\ sock = "gone" => cut

LEMMA SinkStep == SockInv /\ [SinkNext]_sinkVars => SockInv'
  <1> SUFFICES ASSUME SockInv, [SinkNext]_sinkVars PROVE SockInv'
    OBVIOUS
  <1> USE DEF SockInv, SinkType, Kinds, Owns, OwnSocket
  <1>1. CASE SinkOpen
    <2>1. info = "none" /\ app # "forget"
      BY <1>1 DEF SinkOpen
    <2>2. /\ rt_info' \in BOOLEAN /\ (rt_info' => kind = "udp")
          /\ info' # "fd" => ~rt_info'
      <3>1. CASE info' = "fd" /\ rt_info' = (kind = "udp")
        BY <3>1
      <3>2. CASE UNCHANGED <<info, rt_info, sock>>
        BY <2>1, <3>2
      <3> QED BY <1>1, <3>1, <3>2 DEF SinkOpen
    <2>3. /\ kind' = kind /\ app' = app /\ cut' = cut /\ frees' = 0
          /\ \/ /\ info' = "fd" /\ writer' = "run"
                /\ sock' = IF Owns THEN "live" ELSE "none"
             \/ /\ info' = info /\ writer' = "off" /\ sock' = sock
      BY <1>1 DEF SinkOpen
    <2> QED BY <2>1, <2>2, <2>3
  <1>2. CASE Write
    <2>1. PICK len \in Lengths : BeginFrame(len)
      BY <1>2 DEF Write
    <2>2. \/ info = "fd" /\ writer' = "send"
          \/ writer' = writer
      BY <2>1 DEF BeginFrame
    <2> QED BY <1>2, <2>2 DEF Write
  <1>3. CASE Send
    <2>1. SendUdp \/ SendUsr \/ SendPart
      BY <1>3 DEF Send
    <2>2. \A f, result : Ends(f, result) => writer' = "run"
      BY DEF Ends
    <2>3. \A f : GoesOn(f) => writer' = writer
      BY DEF GoesOn
    <2>4. writer' = writer \/ writer' = "run"
      <3>1. CASE SendUdp
        BY <2>2, <2>3, <3>1, Zenon DEF SendUdp
      <3>2. CASE SendUsr \/ SendPart
        BY <2>2, <2>3, <3>2, Zenon DEF SendUsr, SendPart, EndsParts
      <3> QED BY <2>1, <3>1, <3>2
    <2>5. /\ writer = "send"
          /\ UNCHANGED <<kind, info, rt_info, sock, frees, app, cut>>
      BY <1>3 DEF Send
    <2> QED BY <2>4, <2>5
  <1>4. CASE SinkClose
    <2>1. rt_info' \in BOOLEAN /\ ~rt_info'
      BY <1>4 DEF SinkClose
    <2>2. app = "kill" /\ writer = "run" /\ cut \in BOOLEAN
      BY <1>4 DEF SinkClose
    <2>3. /\ kind' = kind /\ app' = app /\ cut' = cut
          /\ info' = "none" /\ writer' = "off"
          /\ IF info = "fd" /\ Owns
             THEN sock' = "gone" /\ frees' = frees + 1
             ELSE sock' = sock /\ frees' = frees
      BY <1>4 DEF SinkClose
    <2> QED BY <2>1, <2>2, <2>3
  <1>5. CASE Start
    BY <1>5 DEF Start
  <1>6. CASE Kill
    BY <1>6 DEF Kill
  <1>7. CASE KillDone
    BY <1>7 DEF KillDone
  <1>8. CASE Unreg
    <2>1. cut' \in BOOLEAN /\ (writer = "send" => cut')
      BY <1>8 DEF Unreg
    <2>2. /\ app = "idle" /\ rt_info /\ sock' = "gone" /\ frees' = frees + 1
          /\ app' = "forget" /\ UNCHANGED <<kind, info, rt_info, writer>>
      BY <1>8 DEF Unreg
    <2>3. kind = "udp" /\ info = "fd" /\ frees = 0 /\ writer \in {"run", "send"}
      BY <2>2
    <2> QED BY <2>1, <2>2, <2>3
  <1>9. CASE Forget
    BY <1>9 DEF Forget, ForgetFd
  <1>10. CASE UNCHANGED sinkVars
    BY <1>10 DEF sinkVars
  <1> QED BY <1>1, <1>2, <1>3, <1>4, <1>5, <1>6, <1>7, <1>8, <1>9, <1>10 DEF SinkNext

\* The socket of the live stream is unregistered exactly once, by the writer or
\* by the handler of a departure (video_rt_udp.c:178), and used afterwards only
\* for the rest of the frame that was being sent.
THEOREM SocketTheorem == SinkSpec => []SocketOwned
  <1>1. SinkInit => SockInv
    <2> SUFFICES ASSUME SinkInit PROVE SockInv
      OBVIOUS
    <2>1. ~rt_info /\ rt_info \in BOOLEAN /\ cut \in BOOLEAN
      BY DEF SinkInit
    <2> QED BY <2>1 DEF SinkInit, SockInv, SinkType, Kinds, Owns, OwnSocket
  <1>2. SockInv => SocketOwned
    BY DEF SockInv, SinkType, SocketOwned
  <1> QED BY <1>1, <1>2, SinkStep, PTL DEF SinkSpec

-----------------------------------------------------------------------------
(* The fragments of a frame. *)

\* Whole fragments and a rest that is whole too make a whole length.
LEMMA WholeLength ==
    ASSUME NEW n \in Nat \ {0}, NEW m \in Nat, NEW rest \in Nat, NEW len \in Nat,
           len = m * n + rest, rest % n = 0
    PROVE  len % n = 0
  <1> DEFINE d == rest \div n
  <1>1. rest = n * d /\ d \in Int
    BY Division
  <1> HIDE DEF d
  <1>2. len = (m + d) * n
    BY <1>1
  <1> QED BY <1>1, <1>2, MultipleMod

Frames == [len : Nat, off : Nat, sent : Nat, short : BOOLEAN, marked : BOOLEAN,
           result : {"none", "sending", "skipped", "error", "dropped", "sent"}]

FrameType == frame \in Frames

\* Up to its last round a frame has been sent as far as it was gathered, in whole
\* fragments.
SentInv ==
    /\ FrameType /\ SentWhole
    /\ writer = "send" => frame.result = "sending"
    /\ kind = "udp" /\ frame.result = "sending" =>
           /\ frame.sent = frame.off /\ frame.off <= frame.len
           /\ \E m \in Nat : frame.off = m * Payload

LEMMA UdpRound ==
    ASSUME SentInv, kind = "udp", kind' = kind, writer = "send", SendUdp
    PROVE  SentInv'
  <1> DEFINE n == Gathered(frame.len, frame.off)
             f == [frame EXCEPT !.off = @ + n, !.marked = EndsShort(n),
                                !.sent = IF Flushed(n) THEN @ + n ELSE @]
  <1>1. /\ frame \in Frames
        /\ frame.result = "sending" /\ frame.sent = frame.off /\ frame.off <= frame.len
    BY DEF SentInv, FrameType
  <1>2. PICK m \in Nat : frame.off = m * Payload
    BY <1>1 DEF SentInv
  <1>3. Payload \in Nat \ {0} /\ BufFrags \in Nat \ {0}
    BY SizesAssumption
  <1>3a. BufFrags * Payload \in Nat
    BY <1>3
  <1>4. /\ n \in Nat /\ frame.off + n <= frame.len
        /\ \/ n = BufFrags * Payload
           \/ frame.off + n = frame.len
    <2>1. frame.len \in Nat /\ frame.off \in Nat
      BY <1>1 DEF Frames
    <2>2. n = IF frame.len - frame.off < BufFrags * Payload
              THEN frame.len - frame.off ELSE BufFrags * Payload
      BY DEF Gathered
    <2> HIDE DEF n
    <2> DEFINE full == BufFrags * Payload
    <2>3. full \in Nat
      BY <1>3a
    <2> HIDE DEF full
    <2> QED BY <1>1, <2>1, <2>2, <2>3 DEF full
  <1> HIDE DEF n
  <1>5. EndsShort(n) \in BOOLEAN /\ Flushed(n) \in BOOLEAN
    BY DEF EndsShort, Flushed
  <1>6. /\ f \in Frames
        /\ f.len = frame.len /\ f.off = frame.off + n /\ f.result = "sending"
        /\ f.marked = EndsShort(n)
        /\ f.sent = IF Flushed(n) THEN frame.sent + n ELSE frame.sent
    <2>1. PICK b \in BOOLEAN, c \in BOOLEAN : b = EndsShort(n) /\ c = Flushed(n)
      BY <1>5
    <2>2. f = [frame EXCEPT !.off = @ + n, !.marked = b, !.sent = IF c THEN @ + n ELSE @]
      BY <2>1
    <2> HIDE DEF f
    <2>3. frame.off + n \in Nat /\ frame.sent + n \in Nat
      BY <1>1, <1>4 DEF Frames
    <2>4. CASE c
      <3>1. f = [frame EXCEPT !.off = frame.off + n, !.marked = b, !.sent = frame.sent + n]
        BY <2>2, <2>4
      <3> QED BY <1>1, <2>1, <2>3, <2>4, <3>1 DEF Frames
    <2>5. CASE ~c
      <3>1. f = [frame EXCEPT !.off = frame.off + n, !.marked = b, !.sent = frame.sent]
        BY <2>2, <2>5
      <3> QED BY <1>1, <2>1, <2>3, <2>5, <3>1 DEF Frames
    <2> QED BY <2>4, <2>5
  <1>7. \/ f.off = f.len /\ Ends(f, "sent")
        \/ f.off # f.len /\ GoesOn(f)
        \/ Ends(frame, "error")
        \/ Ends(frame, "dropped")
    BY DEF SendUdp, n
  <1> HIDE DEF f
  <1>8. CASE f.off = f.len /\ Ends(f, "sent")
    <2>1. frame' = [f EXCEPT !.result = "sent"] /\ writer' = "run"
      BY <1>8 DEF Ends
    <2>2. /\ FrameType' /\ frame'.result = "sent" /\ frame'.len = frame.len
          /\ frame'.sent = f.sent /\ frame'.marked = f.marked
      BY <1>6, <2>1 DEF FrameType, Frames
    <2>3. ASSUME EndsShort(frame.len) PROVE EndsShort(n)
      <3>1. SUFFICES ASSUME n % Payload = 0 PROVE FALSE
        BY DEF EndsShort
      <3>2. frame.len = m * Payload + n
        BY <1>2, <1>6, <1>8
      <3>3. frame.len % Payload = 0
        <4> DEFINE len == frame.len
        <4>1. len \in Nat /\ len = m * Payload + n
          BY <1>1, <3>2 DEF Frames
        <4>2. Payload \in Nat \ {0} /\ n \in Nat /\ n % Payload = 0
          BY <1>3, <1>4, <3>1
        <4> HIDE DEF len, f
        <4>3. len % Payload = 0
          BY <4>1, <4>2, WholeLength
        <4> QED BY <4>3 DEF len
      <3> HIDE DEF f, n
      <3> QED BY <2>3, <3>3 DEF EndsShort
    <2>4. ASSUME EndsShort(frame.len) PROVE frame'.sent = frame'.len /\ frame'.marked
      <3>1. EndsShort(n) /\ Flushed(n)
        BY <2>3, <2>4 DEF Flushed
      <3>2. f.sent = frame.off + n
        BY <1>1, <1>6, <3>1
      <3>3. frame'.marked
        BY <1>6, <2>2, <3>1
      <3> QED BY <1>6, <1>8, <2>2, <3>2, <3>3
    <2>5. SentWhole'
      BY <2>2, <2>4 DEF SentWhole, EndsShort
    <2> QED BY <2>1, <2>2, <2>5 DEF SentInv
  <1>9. CASE f.off # f.len /\ GoesOn(f)
    <2>1. frame' = f /\ writer' = writer
      BY <1>9 DEF GoesOn
    <2>2. n = BufFrags * Payload
      BY <1>4, <1>6, <1>9
    <2>3. f.sent = f.off /\ f.off <= f.len
      BY <1>1, <1>4, <1>6, <2>2 DEF Flushed
    <2>4. f.off = (m + BufFrags) * Payload /\ m + BufFrags \in Nat
      BY <1>2, <1>3, <1>6, <2>2
    <2>5. \E k \in Nat : f.off = k * Payload
      BY <2>4
    <2>6. SentWhole'
      BY <1>6, <2>1 DEF SentWhole
    <2> QED BY <1>6, <2>1, <2>3, <2>5, <2>6 DEF SentInv, FrameType
  <1>10. CASE Ends(frame, "error") \/ Ends(frame, "dropped")
    <2>1. PICK result \in {"error", "dropped"} : Ends(frame, result)
      BY <1>10
    <2>2. frame' = [frame EXCEPT !.result = result] /\ writer' = "run"
      BY <2>1 DEF Ends
    <2>3. FrameType' /\ frame'.result \in {"error", "dropped"}
      BY <1>1, <2>2 DEF FrameType, Frames
    <2> QED BY <2>2, <2>3 DEF SentInv, SentWhole
  <1> QED BY <1>7, <1>8, <1>9, <1>10

LEMMA OtherRound ==
    ASSUME SentInv, kind # "udp", kind' = kind, writer = "send", SendPart \/ SendUsr
    PROVE  SentInv'
  <1>1. frame \in Frames
        /\ frame.result = "sending"
    BY DEF SentInv, FrameType
  <1>2. \/ \E f \in Frames : f.result = "sending" /\ (GoesOn(f) \/ EndsParts(f))
        \/ Ends(frame, "error")
    <2>1. CASE SendUsr
      BY <1>1, <2>1 DEF SendUsr
    <2>2. CASE SendPart /\ ~Ends(frame, "error")
      <3>1. PICK short \in BOOLEAN :
                LET f == [frame EXCEPT !.off = @ + 1, !.short = @ \/ short]
                IN  GoesOn(f) \/ EndsParts(f)
        BY <2>2 DEF SendPart
      <3>2. PICK b \in BOOLEAN : b = (frame.short \/ short)
        OBVIOUS
      <3>3. [frame EXCEPT !.off = @ + 1, !.short = @ \/ short]
                = [frame EXCEPT !.off = @ + 1, !.short = b]
        BY <3>2
      <3> DEFINE f == [frame EXCEPT !.off = @ + 1, !.short = b]
      <3>4. f \in Frames /\ f.result = "sending"
        <4>1. frame.off + 1 \in Nat
          BY <1>1 DEF Frames
        <4> QED BY <1>1, <4>1 DEF Frames
      <3>5. GoesOn(f) \/ EndsParts(f)
        BY <3>1, <3>3
      <3> HIDE DEF f
      <3> QED BY <3>4, <3>5
    <2> QED BY <2>1, <2>2
  <1>3. ASSUME NEW f \in Frames, f.result = "sending", GoesOn(f)
        PROVE  SentInv'
    <2>1. frame' = f /\ frame'.result = "sending"
      BY <1>3 DEF GoesOn
    <2> QED BY <2>1 DEF SentInv, FrameType, SentWhole
  <1>4. ASSUME NEW f \in Frames, EndsParts(f)
        PROVE  SentInv'
    <2>1. PICK marked \in BOOLEAN : marked = ~f.short
      OBVIOUS
    <2>2. PICK n \in Nat : n = IF f.short THEN f.sent ELSE f.len
      BY DEF Frames
    <2>3. frame' = [[f EXCEPT !.sent = n, !.marked = marked] EXCEPT !.result = "sent"]
          /\ writer' = "run"
      BY <1>4, <2>1, <2>2 DEF EndsParts, Ends
    <2>4. FrameType' /\ frame'.result = "sent" /\ frame'.short = f.short
          /\ frame'.len = f.len /\ frame'.sent = n /\ frame'.marked = marked
      BY <2>3 DEF FrameType, Frames
    <2>5. ~frame'.short => frame'.sent = frame'.len /\ frame'.marked
      BY <2>1, <2>2, <2>4
    <2>6. SentWhole'
      BY <2>5 DEF SentWhole
    <2> QED BY <2>3, <2>4, <2>6 DEF SentInv
  <1>5. CASE Ends(frame, "error")
    <2>1. frame' = [frame EXCEPT !.result = "error"] /\ writer' = "run"
      BY <1>5 DEF Ends
    <2>2. FrameType' /\ frame'.result = "error"
      BY <1>1, <2>1 DEF FrameType, Frames
    <2> QED BY <2>1, <2>2 DEF SentInv, SentWhole
  <1> QED BY <1>2, <1>3, <1>4, <1>5

LEMMA SentStep == SentInv /\ [SinkNext]_sinkVars => SentInv'
  <1> SUFFICES ASSUME SentInv, [SinkNext]_sinkVars PROVE SentInv'
    OBVIOUS
  <1>1. CASE Write
    <2>1. PICK len \in Lengths : BeginFrame(len)
      BY <1>1 DEF Write
    <2>2. len \in Nat
      BY LengthsAssumption
    <2>3. \E result \in {"sending", "skipped", "error"} :
              /\ frame' = [NoFrame EXCEPT !.len = len, !.result = result]
              /\ writer' = "send" => result = "sending"
      BY <1>1, <2>1 DEF BeginFrame, Begun, Write
    <2>4. PICK result \in {"sending", "skipped", "error"} :
              /\ frame' = [NoFrame EXCEPT !.len = len, !.result = result]
              /\ writer' = "send" => result = "sending"
      BY <2>3
    <2>5. frame' = [len |-> len, off |-> 0, sent |-> 0, short |-> FALSE,
                    marked |-> FALSE, result |-> result]
      BY <2>4 DEF NoFrame
    <2>6. FrameType' /\ SentWhole'
      BY <2>2, <2>5 DEF FrameType, Frames, SentWhole
    <2>7. 0 = 0 * Payload
      BY SizesAssumption
    <2>8. \E m \in Nat : frame'.off = m * Payload
      BY <2>5, <2>7
    <2>9. frame'.sent = frame'.off /\ frame'.off <= frame'.len
      BY <2>2, <2>5
    <2>10. writer' = "send" => frame'.result = "sending"
      BY <2>4, <2>5
    <2> QED BY <2>6, <2>8, <2>9, <2>10 DEF SentInv
  <1>2. CASE Send
    <2>1. writer = "send" /\ kind' = kind
      BY <1>2 DEF Send
    <2>2. CASE kind = "udp"
      <3>1. SendUdp
        BY <1>2, <2>2 DEF Send
      <3> QED BY <2>1, <2>2, <3>1, UdpRound
    <2>3. CASE kind # "udp"
      <3>1. SendPart \/ SendUsr
        BY <1>2, <2>3 DEF Send
      <3> QED BY <2>1, <2>3, <3>1, OtherRound
    <2> QED BY <2>2, <2>3
  <1>3. CASE ~Write /\ ~Send
    <2>1. kind' = kind /\ frame' = frame /\ (writer' = "send" => writer = "send")
      BY <1>3 DEF SinkNext, SinkOpen, SinkClose, Start, Kill, KillDone, Unreg, Forget, sinkVars
    <2> QED BY <2>1 DEF SentInv, FrameType, SentWhole
  <1> QED BY <1>1, <1>2, <1>3

\* A frame the sink reports as sent has reached the socket to its last byte, with
\* the end mark the phone waits for (video_rt_udp.c:276), for every size of the
\* datagram and of the buffer: over UDP unless the length is a multiple of the
\* datagram, elsewhere unless the socket took a part short.
THEOREM SentTheorem == SinkSpec => []SentWhole
  <1>1. SinkInit => SentInv
    <2> SUFFICES ASSUME SinkInit PROVE SentInv
      OBVIOUS
    <2>1. frame = [len |-> 0, off |-> 0, sent |-> 0, short |-> FALSE,
                   marked |-> FALSE, result |-> "none"]
      BY DEF SinkInit, NoFrame
    <2>2. writer = "off"
      BY DEF SinkInit
    <2> QED BY <2>1, <2>2 DEF SentInv, FrameType, Frames, SentWhole
  <1>2. SentInv => SentWhole
    BY DEF SentInv
  <1> QED BY <1>1, <1>2, SentStep, PTL DEF SinkSpec

-----------------------------------------------------------------------------
(* The list of connections (TcpClients). *)

\* The connections From+1..Upto of those that came are listed; before the first
\* and after the last is the head.
From == Len(gone)
Upto == Len(come)
Node(i) == IF From < i /\ i <= Upto THEN come[i] ELSE cli_head
Held == {come[j] : j \in (From + 1)..Upto} \cup {cli_head}

\* Backwards the record that is being linked is listed already.
Linking == acc.pc = "add2"
BackTo == IF Linking THEN Upto + 1 ELSE Upto
Back(i) == IF Linking /\ i = Upto + 1 THEN acc.at ELSE Node(i)

TcpType ==
    /\ nxt \in [Nodes -> Nodes] /\ prv \in [Nodes -> Nodes]
    /\ rec \in [Clients -> {"none", "live", "freed"}]
    /\ come \in Seq(Clients) /\ gone \in Seq(Clients)
    /\ acc.pc \in {"accept", "add1", "add2", "post", "ended"} /\ DOMAIN acc = {"pc", "at"}
    /\ opn.pc \in {"idle", "walk", "del1", "del2", "free", "take"}
    /\ DOMAIN opn = {"pc", "at", "cli", "count"}
    /\ dep.pc \in {"idle", "walk"} /\ DOMAIN dep = {"pc", "at"}

\* What came is what was accepted; it came once, and goes in the same order.
CameOnce ==
    /\ From <= Upto
    /\ \A i \in 1..Upto : come[i] \in Clients
    /\ \A i, j \in 1..Upto : come[i] = come[j] => i = j
    /\ \A i \in 1..From : gone[i] = come[i]
    /\ \A i \in 1..Upto : rec[come[i]] # "none"
    /\ \A i \in (From + 1)..Upto : rec[come[i]] = "live"
    /\ acc.pc \in {"add1", "add2"} =>
           /\ acc.at \in Clients /\ rec[acc.at] = "live"
           /\ \A i \in 1..Upto : come[i] # acc.at

Forward == \A i \in From..Upto : nxt[Node(i)] = Node(i + 1)
Backward ==
    \A i \in From..BackTo :
        prv[Back(i + 1)] = IF opn.pc = "del2" /\ i = From + 1 THEN cli_head ELSE Back(i)
Fresher == Linking => nxt[acc.at] = cli_head

\* Where the opener stands: it has passed count records of the list, and gives the
\* first up only when it has seen another.
Opener ==
    /\ opn.cli \in Held
    /\ opn.pc = "idle" => opn.at = cli_head
    /\ opn.pc = "walk" =>
           /\ opn.count \in Nat /\ From + opn.count <= Upto
           /\ opn.cli = Node(From + opn.count)
           /\ opn.at \in {cli_head, Node(From + opn.count + 1)}
    /\ opn.pc \in {"del1", "del2"} =>
           /\ From + 2 <= Upto /\ opn.at = come[From + 1]
           /\ opn.cli # come[From + 1]
    /\ opn.pc = "free" =>
           /\ From >= 1 /\ opn.at = come[From] /\ rec[opn.at] = "live"

Standing ==
    /\ stream \in Held /\ dep.at \in Held
    /\ opn.pc # "idle" => stream = cli_head /\ dep.pc = "idle"
    /\ dep.pc = "idle" => dep.at = cli_head

TcpInv == TcpType /\ CameOnce /\ Forward /\ Backward /\ Fresher /\ Opener /\ Standing

\* The list in numbers.
LEMMA NodesAre ==
  ASSUME TcpInv
  PROVE  /\ From \in Nat /\ Upto \in Nat /\ From <= Upto
         /\ \A i \in Int : i <= From \/ i > Upto => Node(i) = cli_head
         /\ \A i \in (From + 1)..Upto : Node(i) = come[i] /\ Node(i) \in Clients /\ Node(i) # cli_head
         /\ \A i, j \in (From + 1)..Upto : Node(i) = Node(j) => i = j
         /\ \A c \in Held : c = cli_head \/ \E j \in (From + 1)..Upto : c = Node(j)
         /\ \A i \in Int : Node(i) \in Held
         /\ cli_head \in Nodes /\ Clients \subseteq Nodes
  <1>1. From \in Nat /\ Upto \in Nat /\ From <= Upto
    BY DEF TcpInv, TcpType, CameOnce, From, Upto
  <1>2. \A i \in (From + 1)..Upto : i \in 1..Upto
    BY <1>1
  <1>3. \A i \in 1..Upto : come[i] \in Clients /\ come[i] # cli_head
    BY HeadAssumption DEF TcpInv, CameOnce
  <1>4. \A i \in (From + 1)..Upto : Node(i) = come[i]
    BY <1>1 DEF Node
  <1>5. \A i, j \in 1..Upto : come[i] = come[j] => i = j
    BY DEF TcpInv, CameOnce
  <1>6. \A i \in Int : Node(i) \in Held
    BY <1>1 DEF Node, Held
  <1>7. \A c \in Held : c = cli_head \/ \E j \in (From + 1)..Upto : c = Node(j)
    BY <1>4 DEF Held
  <1>8. \A i \in Int : i <= From \/ i > Upto => Node(i) = cli_head
    BY <1>1 DEF Node
  <1> QED BY <1>1, <1>2, <1>3, <1>4, <1>5, <1>6, <1>7, <1>8 DEF Nodes

\* A record of the list is live.
LEMMA HeldLive ==
  ASSUME TcpInv, NEW c \in Held, c # cli_head
  PROVE  rec[c] = "live"
  BY DEF TcpInv, CameOnce, Held

\* A step that leaves the pointers and the records alone leaves the list.
ListRests ==
    /\ UNCHANGED <<nxt, prv, rec, come, gone, acc>>
    /\ (opn.pc = "del2")' = (opn.pc = "del2")

LEMMA ListStands ==
  ASSUME TcpInv, ListRests
  PROVE  /\ CameOnce' /\ Forward' /\ Backward' /\ Fresher'
         /\ From' = From /\ Upto' = Upto /\ Held' = Held
  <1> USE DEF ListRests
  <1>1. From' = From /\ Upto' = Upto /\ Linking' = Linking /\ BackTo' = BackTo /\ Held' = Held
    BY DEF From, Upto, Linking, BackTo, Held
  <1>2. \A i : Node(i)' = Node(i) /\ Back(i)' = Back(i)
    BY <1>1 DEF Node, Back
  <1>3. CameOnce'
    BY <1>1 DEF TcpInv, CameOnce
  <1>4. Forward'
    BY <1>1, <1>2 DEF TcpInv, Forward
  <1>5. Backward'
    BY <1>1, <1>2 DEF TcpInv, Backward
  <1> QED BY <1>1, <1>3, <1>4, <1>5 DEF TcpInv, Fresher

\* The opener's and the departure's walks, and what the application does between.
LEMMA WalksKeep ==
  ASSUME TcpInv,
         OpenTcp \/ Walk \/ WalkEnds \/ Take \/ CloseTcp \/ Depart \/ DepartStep
         \/ DepartEnds \/ Uninit
  PROVE  TcpInv'
  <1>1. ListRests /\ TcpType'
    <2>1. CASE OpenTcp
      BY <2>1 DEF OpenTcp, ListRests, TcpInv, TcpType
    <2>2. CASE Walk
      BY <2>2 DEF Walk, ListRests, TcpInv, TcpType
    <2>3. CASE WalkEnds
      BY <2>3 DEF WalkEnds, ListRests, TcpInv, TcpType
    <2>4. CASE Take
      BY <2>4 DEF Take, ListRests, TcpInv, TcpType
    <2>5. CASE CloseTcp
      BY <2>5 DEF CloseTcp, ListRests, TcpInv, TcpType
    <2>6. CASE Depart
      BY <2>6 DEF Depart, ListRests, TcpInv, TcpType, AtRec
    <2>7. CASE DepartStep
      BY <2>7 DEF DepartStep, ListRests, TcpInv, TcpType
    <2>8. CASE DepartEnds
      BY <2>8 DEF DepartEnds, ListRests, TcpInv, TcpType, AtRec
    <2>9. CASE Uninit
      BY <2>9 DEF Uninit, ListRests, TcpInv, TcpType
    <2> QED BY <2>1, <2>2, <2>3, <2>4, <2>5, <2>6, <2>7, <2>8, <2>9
  <1>2. /\ CameOnce' /\ Forward' /\ Backward' /\ Fresher'
        /\ From' = From /\ Upto' = Upto /\ Held' = Held
        /\ \A i : Node(i)' = Node(i)
    BY <1>1, ListStands DEF ListRests, Node
  <1>3. /\ From \in Nat /\ Upto \in Nat /\ From <= Upto
        /\ \A i \in Int : i <= From \/ i > Upto => Node(i) = cli_head
        /\ \A i \in (From + 1)..Upto : Node(i) = come[i] /\ Node(i) # cli_head
        /\ \A i, j \in (From + 1)..Upto : Node(i) = Node(j) => i = j
        /\ \A i \in Int : Node(i) \in Held
        /\ \A i \in From..Upto : nxt[Node(i)] = Node(i + 1)
    BY NodesAre DEF TcpInv, Forward
  <1>4. nxt[cli_head] = Node(From + 1)
    BY <1>3
  <1>5. \A c \in Held : nxt[c] \in Held
    <2>1. \A c \in Held : \E i \in From..Upto : c = Node(i)
      BY <1>3, NodesAre
    <2> QED BY <1>3, <2>1
  <1>6. Opener /\ Standing /\ TcpType /\ cli_head \in Held
    BY DEF TcpInv, Held
  <1> HIDE DEF TcpInv, Opener, Standing, TcpType
  <1>7. Opener' /\ Standing'
    <2>1. CASE OpenTcp
      <3>1. Node(From + 0) = cli_head /\ Node(From + 0 + 1) = Node(From + 1)
        BY <1>3
      <3>2. /\ opn' = [pc |-> "walk", at |-> nxt[cli_head], cli |-> cli_head, count |-> 0]
            /\ stream = cli_head /\ dep.pc = "idle" /\ UNCHANGED <<stream, dep>>
        BY <2>1 DEF OpenTcp
      <3>3. Opener'
        BY <1>2, <1>3, <1>4, <1>6, <3>1, <3>2 DEF Opener
      <3> QED BY <1>2, <1>6, <3>2, <3>3 DEF Standing
    <2>2. CASE Walk
      <3>1. /\ opn' = [opn EXCEPT !.at = nxt[opn.at], !.cli = opn.at, !.count = @ + 1]
            /\ opn.pc = "walk" /\ opn.at # cli_head /\ UNCHANGED <<stream, dep>>
        BY <2>2 DEF Walk
      <3>2. /\ opn.count \in Nat /\ From + opn.count <= Upto /\ opn.at = Node(From + opn.count + 1)
        BY <1>6, <3>1 DEF Opener
      <3>3. From + opn.count + 1 <= Upto
        BY <1>3, <3>1, <3>2
      <3>4. nxt[opn.at] = Node(From + (opn.count + 1) + 1)
        BY <1>3, <3>2, <3>3
      <3>5. /\ opn'.pc = "walk" /\ opn'.at = nxt[opn.at] /\ opn'.cli = opn.at
            /\ opn'.count = opn.count + 1
        BY <1>6, <3>1 DEF TcpType
      <3>6. opn'.cli = Node(From + opn'.count) /\ opn'.count \in Nat /\ opn'.cli \in Held
        BY <1>3, <3>2, <3>5
      <3>7. Opener'
        BY <1>2, <1>3, <3>2, <3>3, <3>4, <3>5, <3>6 DEF Opener
      <3> QED BY <1>2, <1>6, <3>1, <3>5, <3>7 DEF Standing
    <2>3. CASE WalkEnds
      <3>1. /\ opn.pc = "walk" /\ UNCHANGED <<stream, dep, come, gone, rec>>
            /\ opn' = [opn EXCEPT !.pc = IF opn.count > 1 THEN "del1" ELSE "take", !.at = nxt[cli_head]]
        BY <2>3 DEF WalkEnds, TooMany
      <3>2. /\ opn'.pc = (IF opn.count > 1 THEN "del1" ELSE "take")
            /\ opn'.at = Node(From + 1) /\ opn'.cli = opn.cli
        BY <1>4, <1>6, <3>1 DEF TcpType
      <3>3. /\ opn.count \in Nat /\ From + opn.count <= Upto /\ opn.cli = Node(From + opn.count)
            /\ opn.cli \in Held
        BY <1>6, <3>1 DEF Opener
      <3>4. opn.count > 1 =>
                From + 2 <= Upto /\ opn'.at = come[From + 1] /\ opn'.cli # come[From + 1]
        <4>1. SUFFICES ASSUME opn.count > 1
                       PROVE From + 2 <= Upto /\ opn'.at = come[From + 1] /\ opn'.cli # come[From + 1]
          OBVIOUS
        <4>2. From + 2 <= Upto /\ From + 1 \in (From + 1)..Upto
              /\ From + opn.count \in (From + 1)..Upto /\ From + opn.count # From + 1
          BY <1>3, <3>3, <4>1
        <4> QED BY <1>3, <3>2, <3>3, <4>2
      <3>5. Opener'
        BY <1>2, <3>1, <3>2, <3>3, <3>4 DEF Opener
      <3> QED BY <1>2, <1>6, <3>1, <3>2, <3>5 DEF Standing
    <2>4. CASE Take
      <3>1. /\ opn.pc = "take" /\ stream' = opn.cli /\ UNCHANGED dep
            /\ opn'.pc = "idle" /\ opn'.at = cli_head /\ opn'.cli = opn.cli
        BY <1>6, <2>4 DEF Take, TcpType
      <3> QED BY <1>2, <1>6, <3>1 DEF Standing, Opener
    <2>5. CASE CloseTcp
      BY <1>2, <1>6, <2>5 DEF CloseTcp, Opener, Standing
    <2>6. CASE Depart
      BY <1>2, <1>5, <1>6, <2>6 DEF Depart, Opener, Standing, AtRec
    <2>7. CASE DepartStep
      BY <1>2, <1>5, <1>6, <2>7 DEF DepartStep, Opener, Standing, TcpType
    <2>8. CASE DepartEnds
      BY <1>2, <1>5, <1>6, <2>8 DEF DepartEnds, Opener, Standing, AtRec
    <2>9. CASE Uninit
      BY <1>2, <1>6, <2>9 DEF Uninit, Opener, Standing
    <2> QED BY <2>1, <2>2, <2>3, <2>4, <2>5, <2>6, <2>7, <2>8, <2>9
  <1> QED BY <1>1, <1>2, <1>7 DEF TcpInv

\* The accepting thread takes a connection, tells the opener of it, and ends.
LEMMA AcceptKeeps ==
  ASSUME TcpInv, (\E c \in Clients : Accept(c)) \/ Post \/ AcceptEnds
  PROVE  TcpInv'
  <1>1. /\ UNCHANGED <<nxt, prv, come, gone, opn, dep, stream>>
        /\ acc.pc # "add2" /\ acc'.pc # "add2" /\ TcpType'
        /\ rec' = rec \/ \E c \in Clients : rec[c] = "none" /\ rec' = [rec EXCEPT ![c] = "live"]
        /\ acc'.pc = "add1" =>
               acc'.at \in Clients /\ rec[acc'.at] = "none" /\ rec'[acc'.at] = "live"
        /\ acc'.pc # "add2"
    <2>1. CASE \E c \in Clients : Accept(c)
      <3>1. PICK c \in Clients : Accept(c)
        BY <2>1
      <3> QED BY <3>1 DEF Accept, TcpInv, TcpType
    <2>2. CASE Post
      BY <2>2 DEF Post, AtRec, TcpInv, TcpType
    <2>3. CASE AcceptEnds
      BY <2>3 DEF AcceptEnds, AtRec, TcpInv, TcpType
    <2> QED BY <2>1, <2>2, <2>3
  <1>2. /\ From' = From /\ Upto' = Upto /\ Held' = Held /\ ~Linking /\ ~Linking'
        /\ BackTo' = BackTo /\ \A i : Node(i)' = Node(i) /\ Back(i)' = Back(i)
    BY <1>1 DEF From, Upto, Held, Linking, BackTo, Back, Node
  <1>3. \A c \in Clients : rec[c] # "none" => rec'[c] = rec[c]
    BY <1>1 DEF TcpInv, TcpType
  <1>4. CameOnce'
    <2>1. \A i \in (From + 1)..Upto : i \in 1..Upto
      BY NodesAre
    <2> QED BY <1>1, <1>2, <1>3, <2>1 DEF TcpInv, CameOnce
  <1>5. Forward' /\ Backward' /\ Fresher'
    BY <1>1, <1>2 DEF TcpInv, Forward, Backward, Fresher
  <1>6. Standing'
    BY <1>1, <1>2 DEF TcpInv, Standing
  <1>7. Opener'
    <2>1. opn.pc = "free" => rec'[opn.at] = "live"
      <3>1. opn.pc = "free" => opn.at \in Clients /\ rec[opn.at] = "live"
        BY DEF TcpInv, Opener, CameOnce, From, TcpType
      <3> QED BY <1>3, <3>1
    <2> QED BY <1>1, <1>2, <2>1 DEF TcpInv, Opener
  <1> QED BY <1>1, <1>4, <1>5, <1>6, <1>7 DEF TcpInv

\* list_add_tail, first half: backwards the record is listed.
LEMMA AddNewKeeps ==
  ASSUME TcpInv, AddNew
  PROVE  TcpInv'
  <1>1. /\ UNCHANGED <<rec, come, gone, opn, dep, stream>>
        /\ acc.pc = "add1" /\ acc'.pc = "add2" /\ acc'.at = acc.at
        /\ acc.at \in Clients /\ rec[acc.at] = "live" /\ acc.at # cli_head
        /\ \A i \in 1..Upto : come[i] # acc.at
    BY HeadAssumption DEF AddNew, TcpInv, CameOnce, TcpType
  <1>2. /\ prv' = [prv EXCEPT ![acc.at] = prv[cli_head], ![cli_head] = acc.at]
        /\ nxt' = [nxt EXCEPT ![acc.at] = cli_head]
        /\ prv \in [Nodes -> Nodes] /\ nxt \in [Nodes -> Nodes]
        /\ acc.at \in Nodes /\ cli_head \in Nodes
    BY <1>1 DEF AddNew, TcpInv, TcpType, Nodes
  <1>3. /\ From' = From /\ Upto' = Upto /\ Held' = Held /\ ~Linking /\ Linking'
        /\ BackTo = Upto /\ BackTo' = Upto + 1 /\ \A i : Node(i)' = Node(i) /\ Back(i) = Node(i)
        /\ \A i : Back(i)' = IF i = Upto + 1 THEN acc.at ELSE Node(i)
    BY <1>1 DEF From, Upto, Held, Linking, BackTo, Back, Node
  <1>4. /\ From \in Nat /\ Upto \in Nat /\ From <= Upto
        /\ \A i \in Int : i <= From \/ i > Upto => Node(i) = cli_head
        /\ \A i \in (From + 1)..Upto : Node(i) # cli_head /\ Node(i) \in Nodes /\ Node(i) # acc.at
    <2>1. \A i \in (From + 1)..Upto : i \in 1..Upto
      BY NodesAre
    <2> QED BY <1>1, <2>1, NodesAre
  <1>5. TcpType'
    <2>1. DOMAIN acc' = {"pc", "at"}
      BY DEF AddNew, TcpInv, TcpType
    <2> QED BY <1>1, <1>2, <2>1 DEF TcpInv, TcpType
  <1>6. CameOnce'
    <2>1. CameOnce
      BY DEF TcpInv
    <2>2. From' = From /\ Upto' = Upto /\ come' = come /\ gone' = gone /\ rec' = rec
      BY <1>1, <1>3
    <2> QED BY <1>1, <2>1, <2>2 DEF CameOnce
  <1>7. Forward'
    <2> SUFFICES ASSUME NEW i \in From..Upto PROVE nxt'[Node(i)] = Node(i + 1)
      BY <1>3 DEF Forward
    <2>1. Node(i) # acc.at /\ Node(i) \in Nodes
      BY <1>1, <1>2, <1>4
    <2>2. nxt[Node(i)] = Node(i + 1)
      BY DEF TcpInv, Forward
    <2> QED BY <1>2, <2>1, <2>2
  <1>8. Backward'
    <2> DEFINE gap(i) == opn.pc = "del2" /\ i = From + 1
    <2> SUFFICES ASSUME NEW i \in From..(Upto + 1)
                 PROVE  prv'[IF i + 1 = Upto + 1 THEN acc.at ELSE Node(i + 1)]
                        = IF gap(i) THEN cli_head ELSE IF i = Upto + 1 THEN acc.at ELSE Node(i)
      BY <1>1, <1>3, <1>4 DEF Backward
    <2>1. \A j \in From..Upto : prv[Node(j + 1)] = IF gap(j) THEN cli_head ELSE Node(j)
      BY <1>3 DEF TcpInv, Backward
    <2>2. opn.pc = "del2" => From + 2 <= Upto
      BY DEF TcpInv, Opener
    <2>3. CASE i = Upto + 1
      <3>1. Node(i + 1) = cli_head /\ i + 1 # Upto + 1 /\ ~gap(i)
        BY <1>4, <2>2, <2>3
      <3>2. prv'[cli_head] = acc.at
        BY <1>2
      <3> QED BY <2>3, <3>1, <3>2
    <2>4. CASE i = Upto
      <3>1. Node(i + 1) = cli_head /\ i + 1 = Upto + 1 /\ ~gap(i) /\ i # Upto + 1
        BY <1>4, <2>2, <2>4
      <3>2. prv'[acc.at] = prv[cli_head]
        BY <1>1, <1>2
      <3>3. prv[cli_head] = Node(i)
        BY <2>1, <2>4, <3>1
      <3> QED BY <3>1, <3>2, <3>3
    <2>5. CASE i # Upto /\ i # Upto + 1
      <3>1. i + 1 \in (From + 1)..Upto /\ i \in From..Upto /\ i + 1 # Upto + 1
        BY <1>4, <2>5
      <3>2. Node(i + 1) # acc.at /\ Node(i + 1) # cli_head /\ Node(i + 1) \in Nodes
        BY <1>4, <3>1
      <3>3. prv'[Node(i + 1)] = prv[Node(i + 1)]
        BY <1>2, <3>2
      <3> QED BY <2>1, <2>5, <3>1, <3>3
    <2> QED BY <2>3, <2>4, <2>5
  <1>9. Fresher' /\ Standing' /\ Opener'
    BY <1>1, <1>2, <1>3 DEF TcpInv, Fresher, Standing, Opener, Node
  <1> QED BY <1>5, <1>6, <1>7, <1>8, <1>9 DEF TcpInv

\* Its second half: the last record's next.
LEMMA AddLinkKeeps ==
  ASSUME TcpInv, AddLink
  PROVE  TcpInv'
  <1>1. /\ UNCHANGED <<prv, rec, gone, opn, dep, stream>>
        /\ acc.pc = "add2" /\ acc'.pc = "post" /\ acc'.at = acc.at
        /\ acc.at \in Clients /\ rec[acc.at] = "live" /\ acc.at # cli_head
        /\ \A i \in 1..Upto : come[i] # acc.at
        /\ come' = Append(come, acc.at) /\ come \in Seq(Clients)
        /\ nxt[acc.at] = cli_head
    BY HeadAssumption DEF AddLink, TcpInv, CameOnce, TcpType, Fresher, Linking
  <1>2. /\ nxt' = [nxt EXCEPT ![prv[acc.at]] = acc.at]
        /\ prv \in [Nodes -> Nodes] /\ nxt \in [Nodes -> Nodes]
        /\ acc.at \in Nodes /\ cli_head \in Nodes
    BY <1>1 DEF AddLink, TcpInv, TcpType, Nodes
  <1>3. /\ From \in Nat /\ Upto \in Nat /\ From <= Upto
        /\ \A i \in Int : i <= From \/ i > Upto => Node(i) = cli_head
        /\ \A i \in (From + 1)..Upto : Node(i) # cli_head /\ Node(i) = come[i] /\ i \in 1..Upto
        /\ \A i, j \in (From + 1)..Upto : Node(i) = Node(j) => i = j
    BY NodesAre
  <1>4. /\ From' = From /\ Upto' = Upto + 1 /\ Linking /\ ~Linking'
        /\ BackTo = Upto + 1 /\ BackTo' = Upto + 1
    BY <1>1 DEF From, Upto, Linking, BackTo
  <1>5. come'[Upto + 1] = acc.at /\ \A i \in 1..Upto : come'[i] = come[i]
    BY <1>1 DEF Upto
  <1>6. \A i \in Int : Node(i)' = IF i = Upto + 1 THEN acc.at ELSE Node(i)
    BY <1>3, <1>4, <1>5 DEF Node
  <1>7. \A i \in Int : Back(i)' = Back(i)
    BY <1>4, <1>6 DEF Back
  <1>8. TcpType'
    <2>1. DOMAIN acc' = {"pc", "at"} /\ come' \in Seq(Clients)
      BY <1>1 DEF AddLink, TcpInv, TcpType
    <2> QED BY <1>1, <1>2, <2>1 DEF TcpInv, TcpType
  <1>9. CameOnce'
    BY <1>1, <1>3, <1>4, <1>5 DEF TcpInv, CameOnce
  <1>10. prv[acc.at] = Node(Upto)
    <2>1. Upto \in From..BackTo /\ Back(Upto + 1) = acc.at /\ Back(Upto) = Node(Upto)
      BY <1>3, <1>4 DEF Back
    <2>2. ~(opn.pc = "del2" /\ Upto = From + 1)
      BY <1>3 DEF TcpInv, Opener
    <2> QED BY <2>1, <2>2 DEF TcpInv, Backward
  <1>11. Forward'
    <2> SUFFICES ASSUME NEW i \in From..(Upto + 1) PROVE nxt'[Node(i)'] = Node(i + 1)'
      BY <1>3, <1>4 DEF Forward
    <2>1. \A j \in From..Upto : nxt[Node(j)] = Node(j + 1)
      BY DEF TcpInv, Forward
    <2>2. Node(Upto) \in Nodes
      BY <1>2, <1>10
    <2>3. CASE i = Upto + 1
      <3>1. Node(i)' = acc.at /\ Node(i + 1)' = cli_head
        BY <1>3, <1>6, <2>3
      <3>2. Node(Upto) # acc.at
        BY <1>1, <1>3
      <3> QED BY <1>1, <1>2, <1>10, <3>1, <3>2
    <2>4. CASE i = Upto
      <3>1. Node(i)' = Node(Upto) /\ Node(i + 1)' = acc.at
        BY <1>3, <1>6, <2>4
      <3> QED BY <1>2, <1>10, <2>2, <3>1
    <2>5. CASE i # Upto /\ i # Upto + 1
      <3>1. i \in From..Upto /\ Node(i)' = Node(i) /\ Node(i + 1)' = Node(i + 1)
        BY <1>3, <1>6, <2>5
      <3>2. Node(i) # Node(Upto)
        BY <1>3, <2>5
      <3>3. Node(i) \in Nodes
        BY <1>2, <1>3, NodesAre
      <3> QED BY <1>2, <1>10, <2>1, <3>1, <3>2, <3>3
    <2> QED BY <2>3, <2>4, <2>5
  <1>12. Backward'
    <2>1. \A i \in From..BackTo : i \in Int /\ i + 1 \in Int
      BY <1>3, <1>4
    <2> QED BY <1>1, <1>4, <1>7, <2>1 DEF TcpInv, Backward
  <1>13. Held \subseteq Held'
    BY <1>3, <1>4, <1>5 DEF Held
  <1>14. Standing'
    BY <1>1, <1>13 DEF TcpInv, Standing
  <1>15. Opener'
    <2>1. CASE opn.pc = "walk"
      <3>0. PICK k \in Int : k = From + opn.count
        BY <1>3, <2>1 DEF TcpInv, Opener
      <3>1. /\ opn.count \in Nat /\ From <= k /\ k <= Upto
            /\ opn.cli = Node(k) /\ opn.at \in {cli_head, Node(k + 1)}
        BY <1>3, <2>1, <3>0 DEF TcpInv, Opener
      <3>2. From' + opn'.count = k
        BY <1>1, <1>4, <3>0
      <3>3. Node(k)' = Node(k) /\ Node(k + 1)' \in {Node(k + 1), acc.at}
            /\ (Node(k + 1) # cli_head => Node(k + 1)' = Node(k + 1))
        BY <1>3, <1>6, <3>1
      <3>4. opn'.cli = (IF From' < k /\ k <= Upto' THEN come'[k] ELSE cli_head)
        BY <1>1, <3>1, <3>3 DEF Node
      <3>5. opn'.at \in {cli_head, IF From' < k + 1 /\ k + 1 <= Upto' THEN come'[k + 1] ELSE cli_head}
        BY <1>1, <3>1, <3>3 DEF Node
      <3>6. opn'.count \in Nat /\ k <= Upto'
        BY <1>1, <1>3, <1>4, <3>1
      <3>7. opn'.pc = "walk" /\ opn'.cli \in Held'
        BY <1>1, <1>13, <2>1 DEF TcpInv, Opener
      <3> QED BY <3>2, <3>4, <3>5, <3>6, <3>7 DEF Opener, Node
    <2>2. opn.pc \in {"del1", "del2"} => come'[From + 1] = come[From + 1] /\ From + 2 <= Upto + 1
      BY <1>3, <1>5 DEF TcpInv, Opener
    <2>3. opn.pc = "free" => come'[From] = come[From]
      BY <1>3, <1>5 DEF TcpInv, Opener
    <2>4. CASE opn.pc # "walk"
      BY <1>1, <1>4, <1>13, <2>2, <2>3, <2>4 DEF TcpInv, Opener
    <2> QED BY <2>1, <2>4
  <1>16. Fresher'
    BY <1>4 DEF Fresher
  <1> QED BY <1>8, <1>9, <1>11, <1>12, <1>14, <1>15, <1>16 DEF TcpInv

\* list_del, first half: backwards the first record is no longer listed.
LEMMA DelNextKeeps ==
  ASSUME TcpInv, DelNext
  PROVE  TcpInv'
  <1>1. /\ UNCHANGED <<nxt, rec, come, gone, acc, dep, stream>>
        /\ opn.pc = "del1" /\ opn'.pc = "del2" /\ opn'.at = opn.at /\ opn'.cli = opn.cli
        /\ From + 2 <= Upto /\ opn.at = come[From + 1] /\ opn.cli # come[From + 1]
        /\ opn.cli \in Held
    BY DEF DelNext, TcpInv, TcpType, Opener
  <1>2. /\ prv' = [prv EXCEPT ![nxt[opn.at]] = prv[opn.at]]
        /\ prv \in [Nodes -> Nodes] /\ nxt \in [Nodes -> Nodes]
    BY DEF DelNext, TcpInv, TcpType
  <1>3. /\ From' = From /\ Upto' = Upto /\ Held' = Held /\ Linking' = Linking /\ BackTo' = BackTo
        /\ \A i : Node(i)' = Node(i) /\ Back(i)' = Back(i)
    BY <1>1 DEF From, Upto, Held, Linking, BackTo, Back, Node
  <1>4. /\ From \in Nat /\ Upto \in Nat
        /\ \A i \in (From + 1)..Upto : Node(i) = come[i] /\ Node(i) \in Nodes /\ Node(i) # cli_head
        /\ \A i, j \in (From + 1)..Upto : Node(i) = Node(j) => i = j
        /\ Node(From) = cli_head
    BY NodesAre
  <1>5. nxt[opn.at] = Node(From + 2)
    <2>1. opn.at = Node(From + 1) /\ From + 1 \in From..Upto /\ From + 1 + 1 = From + 2
      BY <1>1, <1>4
    <2> QED BY <2>1 DEF TcpInv, Forward
  <1>6. Upto <= BackTo /\ BackTo \in Nat /\ BackTo <= Upto + 1
    BY <1>4 DEF BackTo
  <1>7. \A i \in From..Upto : Back(i) = Node(i)
    BY <1>4 DEF Back
  <1>8. prv[opn.at] = cli_head
    <2>1. Back(From + 1) = opn.at /\ Back(From) = cli_head /\ From \in From..BackTo
      BY <1>1, <1>4, <1>6, <1>7
    <2> QED BY <1>1, <1>4, <2>1 DEF TcpInv, Backward
  <1>9. TcpType'
    <2>1. prv' \in [Nodes -> Nodes] /\ opn'.pc = "del2" /\ DOMAIN opn' = {"pc", "at", "cli", "count"}
      BY <1>2, <1>8 DEF DelNext, TcpInv, TcpType, Nodes
    <2> QED BY <1>1, <2>1 DEF TcpInv, TcpType
  <1>10. CameOnce' /\ Forward' /\ Fresher'
    BY <1>1, <1>3 DEF TcpInv, CameOnce, Forward, Fresher
  <1>11. Backward'
    <2> SUFFICES ASSUME NEW i \in From..BackTo
                 PROVE  prv'[Back(i + 1)] = IF i = From + 1 THEN cli_head ELSE Back(i)
      BY <1>1, <1>3 DEF Backward
    <2>1. prv[Back(i + 1)] = Back(i)
      BY <1>1 DEF TcpInv, Backward
    <2>2. Node(From + 2) \in Nodes /\ Back(From + 2) = Node(From + 2)
      BY <1>1, <1>4, <1>7
    <2>3. CASE i = From + 1
      <3>1. i + 1 = From + 2
        BY <1>4, <2>3
      <3> QED BY <1>2, <1>5, <1>8, <2>2, <2>3, <3>1
    <2>4. CASE i # From + 1
      <3>1. Back(i + 1) # Node(From + 2)
        <4>1. CASE i + 1 \in (From + 1)..Upto
          <5>1. Back(i + 1) = Node(i + 1)
            BY <1>4, <1>7, <4>1
          <5>2. i + 1 # From + 2 /\ From + 2 \in (From + 1)..Upto
            BY <1>1, <1>4, <2>4
          <5> QED BY <1>4, <4>1, <5>1, <5>2
        <4>2. CASE i + 1 = Upto + 1
          <5>1. From + 2 \in (From + 1)..Upto /\ From + 2 \in 1..Upto
            BY <1>1, <1>4
          <5>2. Node(Upto + 1) = cli_head
            BY <1>4 DEF Node
          <5>3. Back(i + 1) = IF Linking THEN acc.at ELSE cli_head
            BY <4>2, <5>2 DEF Back
          <5>4. Linking => come[From + 2] # acc.at
            BY <5>1 DEF TcpInv, CameOnce, Linking
          <5> QED BY <1>4, <5>1, <5>3, <5>4
        <4>3. CASE i + 1 = Upto + 2
          <5>1. Back(i + 1) = cli_head /\ From + 2 \in (From + 1)..Upto
            BY <1>1, <1>4, <4>3 DEF Back, Node
          <5> QED BY <1>4, <5>1
        <4> QED BY <1>4, <1>6, <4>1, <4>2, <4>3
      <3> QED BY <1>2, <1>5, <2>1, <2>4, <3>1
    <2> QED BY <2>3, <2>4
  <1>12. Standing' /\ Opener'
    BY <1>1, <1>3 DEF TcpInv, Standing, Opener
  <1> QED BY <1>9, <1>10, <1>11, <1>12 DEF TcpInv

\* Its second half: the second record is the first.
LEMMA DelPrevKeeps ==
  ASSUME TcpInv, DelPrev
  PROVE  TcpInv'
  <1>1. /\ UNCHANGED <<prv, rec, come, acc, dep, stream>> /\ gone' = Append(gone, opn.at)
        /\ opn.pc = "del2" /\ opn'.pc = "free" /\ opn'.at = opn.at /\ opn'.cli = opn.cli
        /\ From + 2 <= Upto /\ opn.at = come[From + 1] /\ opn.cli # come[From + 1]
        /\ opn.cli \in Held
        /\ gone \in Seq(Clients) /\ stream = cli_head /\ dep.at = cli_head /\ dep.pc = "idle"
    BY DEF DelPrev, TcpInv, TcpType, Opener, Standing
  <1>2. /\ nxt' = [nxt EXCEPT ![prv[opn.at]] = nxt[opn.at]]
        /\ prv \in [Nodes -> Nodes] /\ nxt \in [Nodes -> Nodes]
    BY DEF DelPrev, TcpInv, TcpType
  <1>3. /\ From \in Nat /\ Upto \in Nat
        /\ \A i \in Int : i <= From \/ i > Upto => Node(i) = cli_head
        /\ \A i \in (From + 1)..Upto :
               Node(i) = come[i] /\ Node(i) \in Clients /\ Node(i) # cli_head /\ i \in 1..Upto
        /\ \A i, j \in (From + 1)..Upto : Node(i) = Node(j) => i = j
        /\ cli_head \in Nodes /\ Clients \subseteq Nodes
    BY NodesAre
  <1>4. /\ From' = From + 1 /\ Upto' = Upto /\ Linking' = Linking /\ BackTo' = BackTo
    BY <1>1 DEF From, Upto, Linking, BackTo
  <1>5. \A i \in Int : Node(i)' = IF i = From + 1 THEN cli_head ELSE Node(i)
    BY <1>1, <1>3, <1>4 DEF Node
  <1>6. \A i \in Int : Back(i)' = IF i = From + 1 THEN cli_head ELSE Back(i)
    BY <1>1, <1>3, <1>4, <1>5 DEF Back
  <1>7. Upto <= BackTo /\ BackTo \in Nat /\ BackTo <= Upto + 1
    BY <1>3 DEF BackTo
  <1>8. nxt[opn.at] = Node(From + 2)
    <2>1. opn.at = Node(From + 1) /\ From + 1 \in From..Upto /\ From + 1 + 1 = From + 2
      BY <1>1, <1>3
    <2> QED BY <2>1 DEF TcpInv, Forward
  <1>9. prv[opn.at] = cli_head
    <2>1. Node(From + 1) = opn.at /\ Node(From) = cli_head
      BY <1>1, <1>3
    <2>2. From # Upto + 1 /\ From + 1 # Upto + 1
      BY <1>1, <1>3
    <2>3. Back(From + 1) = opn.at /\ Back(From) = cli_head
      BY <2>1, <2>2 DEF Back
    <2>4. From \in From..BackTo /\ From # From + 1
      BY <1>1, <1>3, <1>7
    <2> QED BY <1>1, <2>3, <2>4 DEF TcpInv, Backward
  <1>10. TcpType'
    <2>1. nxt' \in [Nodes -> Nodes] /\ gone' \in Seq(Clients)
      BY <1>1, <1>2, <1>3 DEF TcpInv, CameOnce
    <2>2. DOMAIN opn' = {"pc", "at", "cli", "count"}
      BY DEF DelPrev, TcpInv, TcpType
    <2> QED BY <1>1, <2>1, <2>2 DEF TcpInv, TcpType
  <1>11. CameOnce'
    <2>1. gone'[From + 1] = opn.at /\ \A i \in 1..From : gone'[i] = gone[i]
      BY <1>1 DEF From
    <2>2. CameOnce
      BY DEF TcpInv
    <2>3. \A i \in 1..(From + 1) : gone'[i] = come[i]
      <3>1. \A i \in 1..From : gone'[i] = come[i]
        BY <2>1, <2>2 DEF CameOnce
      <3>2. gone'[From + 1] = come[From + 1]
        BY <1>1, <2>1
      <3>3. \A i \in 1..(From + 1) : i \in 1..From \/ i = From + 1
        BY <1>3
      <3> QED BY <3>1, <3>2, <3>3
    <2>4. From' <= Upto' /\ Upto' = Upto /\ From' = From + 1 /\ come' = come /\ rec' = rec
      BY <1>1, <1>3, <1>4 DEF DelPrev
    <2>5. \A i \in (From' + 1)..Upto : i \in (From + 1)..Upto
      BY <1>3, <2>4
    <2>6. \A i \in (From' + 1)..Upto : rec[come[i]] = "live"
      BY <2>2, <2>5 DEF CameOnce
    <2>7. \A i \in 1..From' : gone'[i] = come[i]
      BY <2>3, <2>4
    <2>8. /\ \A i \in 1..Upto : come[i] \in Clients /\ rec[come[i]] # "none"
          /\ \A i, j \in 1..Upto : come[i] = come[j] => i = j
      BY <2>2 DEF CameOnce
    <2> DEFINE from == From'
               upto == Upto'
    <2>9. /\ from <= upto /\ upto = Upto
          /\ \A i \in (from + 1)..upto : rec'[come'[i]] = "live"
          /\ \A i \in 1..from : gone'[i] = come'[i]
          /\ \A i \in 1..upto : come'[i] \in Clients /\ rec'[come'[i]] # "none"
          /\ \A i, j \in 1..upto : come'[i] = come'[j] => i = j
      <3> HIDE DEF from
      <3> QED BY <2>4, <2>6, <2>7, <2>8 DEF from
    <2>10. acc'.pc \in {"add1", "add2"} =>
               /\ acc'.at \in Clients /\ rec'[acc'.at] = "live"
               /\ \A i \in 1..upto : come'[i] # acc'.at
      BY <1>1, <2>2, <2>4 DEF CameOnce
    <2> QED BY <2>9, <2>10 DEF CameOnce
  <1>12. Forward'
    <2> SUFFICES ASSUME NEW i \in (From + 1)..Upto PROVE nxt'[Node(i)'] = Node(i + 1)'
      BY <1>4 DEF Forward
    <2>1. Node(i + 1)' = Node(i + 1)
      BY <1>3, <1>5
    <2>2. nxt[Node(i)] = Node(i + 1)
      BY <1>3 DEF TcpInv, Forward
    <2>3. CASE i = From + 1
      <3>1. Node(i)' = cli_head /\ i + 1 = From + 2
        BY <1>3, <1>5, <2>3
      <3> QED BY <1>2, <1>3, <1>8, <1>9, <2>1, <3>1
    <2>4. CASE i # From + 1
      <3>1. Node(i)' = Node(i) /\ Node(i) # cli_head /\ Node(i) \in Nodes
        BY <1>3, <1>5, <2>4
      <3> QED BY <1>2, <1>9, <2>1, <2>2, <3>1
    <2> QED BY <2>3, <2>4
  <1>13. Backward'
    <2> SUFFICES ASSUME NEW i \in (From + 1)..BackTo PROVE prv'[Back(i + 1)'] = Back(i)'
      BY <1>1, <1>4 DEF Backward
    <2>1. prv[Back(i + 1)] = IF i = From + 1 THEN cli_head ELSE Back(i)
      BY <1>1, <1>3 DEF TcpInv, Backward
    <2>2. Back(i + 1)' = Back(i + 1)
      BY <1>3, <1>6
    <2>3. Back(i)' = IF i = From + 1 THEN cli_head ELSE Back(i)
      BY <1>6
    <2> QED BY <1>1, <2>1, <2>2, <2>3
  <1>14. opn.cli \in Held'
    <2>1. opn.cli = cli_head \/ \E j \in (From + 1)..Upto : opn.cli = come[j]
      BY <1>1 DEF Held
    <2>2. ASSUME NEW j \in (From + 1)..Upto, opn.cli = come[j] PROVE opn.cli \in Held'
      <3>1. j \in (From + 1 + 1)..Upto
        BY <1>1, <1>3, <2>2
      <3> QED BY <1>1, <1>4, <2>2, <3>1 DEF Held
    <2> QED BY <2>1, <2>2 DEF Held
  <1>15. Opener'
    <2>1. rec[opn.at] = "live"
      <3>1. From + 1 \in (From + 1)..Upto
        BY <1>1, <1>3
      <3> QED BY <1>1, <3>1 DEF TcpInv, CameOnce
    <2> QED BY <1>1, <1>3, <1>4, <1>14, <2>1 DEF Opener
  <1>16. Standing' /\ Fresher'
    <2>1. Linking => acc.at # cli_head
      BY HeadAssumption DEF TcpInv, CameOnce, Linking
    <2>2. cli_head \in Held'
      BY DEF Held
    <2> QED BY <1>1, <1>2, <1>4, <1>9, <2>1, <2>2 DEF TcpInv, Fresher, Standing
  <1> QED BY <1>10, <1>11, <1>12, <1>13, <1>15, <1>16 DEF TcpInv

\* The record that was given up is freed; it is no longer of the list.
LEMMA FreeKeeps ==
  ASSUME TcpInv, Free
  PROVE  TcpInv'
  <1>1. /\ UNCHANGED <<nxt, prv, come, gone, acc, dep, stream>>
        /\ rec' = [rec EXCEPT ![opn.at] = "freed"] /\ rec \in [Clients -> {"none", "live", "freed"}]
        /\ opn.pc = "free" /\ opn'.pc = "take" /\ opn'.at = opn.at /\ opn'.cli = opn.cli
        /\ From >= 1 /\ opn.at = come[From] /\ opn.cli \in Held
        /\ stream = cli_head /\ dep.at = cli_head /\ dep.pc = "idle"
    BY DEF Free, TcpInv, TcpType, Opener, Standing
  <1>2. /\ From' = From /\ Upto' = Upto /\ Held' = Held /\ Linking' = Linking /\ BackTo' = BackTo
        /\ \A i : Node(i)' = Node(i) /\ Back(i)' = Back(i)
    BY <1>1 DEF From, Upto, Held, Linking, BackTo, Back, Node
  <1>3. /\ From \in 1..Upto /\ Upto \in Nat /\ \A i \in (From + 1)..Upto : i \in 1..Upto /\ i # From
    BY <1>1, NodesAre
  <1>4. CameOnce'
    <2>1. CameOnce
      BY DEF TcpInv
    <2>2. opn.at \in Clients
      BY <1>1, <1>3, <2>1 DEF CameOnce
    <2>3. \A i \in 1..Upto : come[i] \in Clients /\ rec'[come[i]] # "none"
      BY <1>1, <2>1, <2>2 DEF CameOnce
    <2>4. \A i \in (From + 1)..Upto : rec'[come[i]] = "live"
      <3> SUFFICES ASSUME NEW i \in (From + 1)..Upto PROVE rec'[come[i]] = "live"
        OBVIOUS
      <3>1. come[i] # opn.at /\ come[i] \in Clients /\ rec[come[i]] = "live"
        BY <1>1, <1>3, <2>1 DEF CameOnce
      <3> QED BY <1>1, <3>1
    <2>5. acc.pc \in {"add1", "add2"} => acc.at # opn.at
      BY <1>1, <1>3, <2>1 DEF CameOnce
    <2>6. acc.pc \in {"add1", "add2"} => rec'[acc.at] = "live"
      BY <1>1, <2>1, <2>5 DEF CameOnce
    <2> QED BY <1>1, <1>2, <2>1, <2>3, <2>4, <2>6 DEF CameOnce
  <1>5. TcpType'
    BY <1>1 DEF Free, TcpInv, TcpType
  <1>6. Forward' /\ Backward' /\ Fresher' /\ Opener' /\ Standing'
    BY <1>1, <1>2 DEF TcpInv, Forward, Backward, Fresher, Opener, Standing
  <1> QED BY <1>4, <1>5, <1>6 DEF TcpInv

\* Every step keeps the invariant.
LEMMA TcpStep ==
  ASSUME TcpInv, [TcpNext]_tcpVars
  PROVE  TcpInv'
  <1>1. CASE UNCHANGED tcpVars
    <2>1. ListRests /\ \A i : Node(i)' = Node(i)
      BY <1>1 DEF tcpVars, ListRests, Node, From, Upto
    <2>2. CameOnce' /\ Forward' /\ Backward' /\ Fresher' /\ From' = From /\ Upto' = Upto /\ Held' = Held
      BY <2>1, ListStands
    <2>3. TcpType' /\ Opener' /\ Standing'
      BY <1>1, <2>1, <2>2 DEF tcpVars, TcpInv, TcpType, Opener, Standing
    <2> QED BY <2>2, <2>3 DEF TcpInv
  <1>2. CASE TcpNext
    BY <1>2, WalksKeep, AcceptKeeps, AddNewKeeps, AddLinkKeeps, DelNextKeeps, DelPrevKeeps, FreeKeeps
       DEF TcpNext
  <1> QED BY <1>1, <1>2

LEMMA TcpAlways == TcpSpec => []TcpInv
  <1>1. TcpInit => TcpInv
    <2> SUFFICES ASSUME TcpInit PROVE TcpInv
      OBVIOUS
    <2>1. come = <<>> /\ gone = <<>> /\ acc.pc = "accept" /\ acc.at = cli_head /\ DOMAIN acc = {"pc", "at"}
          /\ dep.pc = "idle" /\ dep.at = cli_head /\ DOMAIN dep = {"pc", "at"}
      BY DEF TcpInit, AtRec
    <2>2. From = 0 /\ Upto = 0 /\ ~Linking /\ BackTo = 0 /\ cli_head \in Held
      BY <2>1 DEF From, Upto, Linking, BackTo, Held
    <2>4. Node(0) = cli_head /\ Node(0 + 1) = cli_head /\ Back(0) = cli_head /\ Back(0 + 1) = cli_head
      BY <2>2 DEF Node, Back
    <2>5. \A i \in 0..0 : i = 0
      OBVIOUS
    <2>6. Forward /\ Backward
      BY <2>2, <2>4, <2>5 DEF Forward, Backward, TcpInit, Nodes
    <2>7. TcpType /\ CameOnce /\ Fresher /\ Opener /\ Standing
      BY <2>1, <2>2 DEF TcpInit, TcpType, CameOnce, Fresher, Opener, Standing, Nodes
    <2> QED BY <2>6, <2>7 DEF TcpInv
  <1> QED BY <1>1, TcpStep, PTL DEF TcpSpec

\* Although a record is linked in with four stores and out with two, and nothing
\* keeps the three tasks apart: at rest the list is, forwards and backwards, the
\* connections that came and were not given up, and nobody stands on a record
\* that __free_tcp_client has freed, for any number of connections.
THEOREM ListTheorem == TcpSpec => []ListSound
  <1>1. ASSUME TcpInv PROVE ListSound
    <2> DEFINE ring == <<cli_head>> \o Linked \o <<cli_head>>
    <2>1. From \in Nat /\ Upto \in Nat /\ From <= Upto
      BY <1>1, NodesAre
    <2>2. Linked \in Seq(Clients) /\ Len(Linked) = Upto - From
          /\ \A k \in 1..(Upto - From) : Linked[k] = come[From + k]
      BY <1>1, <2>1 DEF TcpInv, TcpType, Linked, From, Upto
    <2>3. Len(ring) = Upto - From + 2
      BY <2>1, <2>2
    <2>4. \A i \in 1..(Upto - From + 2) : ring[i] = Node(From + i - 1)
      <3> SUFFICES ASSUME NEW i \in 1..(Upto - From + 2) PROVE ring[i] = Node(From + i - 1)
        OBVIOUS
      <3>1. CASE i = 1
        BY <2>1, <2>2, <3>1 DEF Node
      <3>2. CASE i = Upto - From + 2
        BY <2>1, <2>2, <3>2 DEF Node
      <3>3. CASE i # 1 /\ i # Upto - From + 2
        <4>1. i - 1 \in 1..(Upto - From) /\ From + (i - 1) = From + i - 1
          BY <2>1, <3>3
        <4>2. ring[i] = Linked[i - 1]
          BY <2>1, <2>2, <4>1
        <4>3. Node(From + i - 1) = come[From + i - 1]
          BY <2>1, <4>1 DEF Node
        <4> QED BY <2>2, <4>1, <4>2, <4>3
      <3> QED BY <3>1, <3>2, <3>3
    <2> HIDE DEF ring
    <2>5. ASSUME acc.pc \in {"accept", "post", "ended"}, opn.pc \notin {"del2"},
                 NEW i \in 1..(Len(ring) - 1)
          PROVE  nxt[ring[i]] = ring[i + 1] /\ prv[ring[i + 1]] = ring[i]
      <3> DEFINE k == From + i - 1
      <3>1. i \in 1..(Upto - From + 2) /\ i + 1 \in 1..(Upto - From + 2) /\ k \in From..Upto
            /\ From + (i + 1) - 1 = k + 1
        BY <2>1, <2>3
      <3>2. ring[i] = Node(k) /\ ring[i + 1] = Node(k + 1)
        BY <2>4, <3>1
      <3>3. ~Linking /\ BackTo = Upto /\ Back(k) = Node(k) /\ Back(k + 1) = Node(k + 1)
        BY <2>5 DEF Linking, BackTo, Back
      <3> HIDE DEF k
      <3>4. nxt[Node(k)] = Node(k + 1)
        BY <1>1, <3>1 DEF TcpInv, Forward
      <3>5. prv[Back(k + 1)] = Back(k)
        BY <1>1, <2>5, <3>1, <3>3 DEF TcpInv, Backward
      <3> QED BY <3>2, <3>3, <3>4, <3>5
    <2>6. \A c \in {opn.at, opn.cli, dep.at, stream} \ {cli_head} :
              rec[c] = "live" \/ (c = opn.at /\ opn.pc = "take")
      <3>1. opn.cli \in Held /\ dep.at \in Held /\ stream \in Held
        BY <1>1 DEF TcpInv, Opener, Standing
      <3>2. opn.at = cli_head \/ rec[opn.at] = "live" \/ opn.pc = "take"
        <4>1. CASE opn.pc = "walk"
          <5>1. From + opn.count + 1 \in Int
            BY <1>1, <2>1, <4>1 DEF TcpInv, Opener
          <5>2. opn.at \in Held
            BY <1>1, <4>1, <5>1, NodesAre DEF TcpInv, Opener
          <5> QED BY <1>1, <5>2, HeldLive
        <4>2. CASE opn.pc \in {"del1", "del2"}
          <5>1. From + 1 \in (From + 1)..Upto
            BY <1>1, <2>1, <4>2 DEF TcpInv, Opener
          <5> QED BY <1>1, <4>2, <5>1 DEF TcpInv, Opener, CameOnce
        <4>3. CASE opn.pc \in {"idle", "free", "take"}
          BY <1>1, <4>3 DEF TcpInv, Opener
        <4> QED BY <1>1, <4>1, <4>2, <4>3 DEF TcpInv, TcpType
      <3> QED BY <1>1, <3>1, <3>2, HeldLive
    <2> QED BY <2>5, <2>6 DEF ListSound, ring
  <1> QED BY <1>1, TcpAlways, PTL

-----------------------------------------------------------------------------
(* The buffers. *)

RecsType ==
    /\ rtsp \in [session : BOOLEAN, state : {"idle", "start", "stop"},
                 srv : BOOLEAN, chan : BOOLEAN]
    /\ user \in [state : BOOLEAN, srv : BOOLEAN, chan : BOOLEAN,
                 vbuf : BOOLEAN, ibuf : BOOLEAN]

\* A channel of the user recorder runs only in a recorder that counts as open,
\* which is never opened again over it.
RecsInv ==
    /\ RecsType
    /\ rtsp.chan => live \in {"closed", "late", "stray"}
    /\ live = "stray" => "livestop" \in faults
    /\ user.chan /\ "undo" \notin faults =>
           user.state /\ user.srv /\ user.vbuf /\ user.ibuf

\* A live stream that is closed counts as closed afterwards.
LEMMA ClosedFact ==
    ASSUME RecsInv, NEW o \in LiveClosed
    PROVE  /\ o.live \in {"closed", "stray"}
           /\ o.live = "stray" => "livestop" \in faults \cup o.failed
  BY DEF LiveClosed, LiveDown, RecsInv

LEMMA OpensFact ==
    ASSUME RecsInv, NEW as, NEW task, LiveOpens(as, task)
    PROVE  /\ live' \in {as, live, "closed"}
           /\ faults \subseteq faults'
  BY DEF LiveOpens, NoneFails, Failing

LEMMA RtspStep ==
    ASSUME RecsInv, Setup \/ Exit \/ NetErr
    PROVE  RecsInv'
  <1> DEFINE Rtsps == [session : BOOLEAN, state : {"idle", "start", "stop"},
                       srv : BOOLEAN, chan : BOOLEAN]
  <1>0. rtsp \in Rtsps
    BY DEF RecsInv, RecsType
  <1>1. SUFFICES /\ user' = user /\ faults \subseteq faults'
                 /\ rtsp' \in Rtsps
                 /\ rtsp'.chan => live' \in {"closed", "late", "stray"}
                 /\ live' = "stray" => "livestop" \in faults'
    BY DEF RecsInv, RecsType
  <1>2. user' = user
    BY DEF Setup, Exit, NetErr
  <1>3. CASE Setup
    <2>1. CASE rtsp.state = "start"
      BY <1>0, <1>2, <1>3, <2>1 DEF Setup, RecsInv
    <2>2. CASE rtsp.state # "start"
      <3>1. RtspStart(TRUE)
        BY <1>3, <2>2 DEF Setup
      <3>2. PICK o \in LiveClosed :
                /\ live' = o.live
                /\ faults \cup o.failed \subseteq faults'
                /\ \/ rtsp' = [rtsp EXCEPT !.session = TRUE]
                   \/ rtsp' = [rtsp EXCEPT !.session = TRUE, !.srv = TRUE]
                   \/ rtsp' = [session |-> TRUE, state |-> "start", srv |-> TRUE, chan |-> TRUE]
        BY <3>1 DEF RtspStart
      <3>3. live' \in {"closed", "stray"} /\ (live' = "stray" => "livestop" \in faults')
        BY <3>2, ClosedFact
      <3>4. rtsp' \in Rtsps
        <4>1. CASE rtsp' = [rtsp EXCEPT !.session = TRUE]
          BY <1>0, <4>1
        <4>2. CASE rtsp' = [rtsp EXCEPT !.session = TRUE, !.srv = TRUE]
          BY <1>0, <4>2
        <4>3. CASE rtsp' = [session |-> TRUE, state |-> "start", srv |-> TRUE, chan |-> TRUE]
          BY <4>3
        <4> QED BY <3>2, <4>1, <4>2, <4>3
      <3> QED BY <1>2, <3>2, <3>3, <3>4
    <2> QED BY <2>1, <2>2
  <1>4. CASE Exit \/ NetErr
    <2>1. PICK session \in BOOLEAN : RtspClose(session)
      BY <1>0, <1>4 DEF Exit, NetErr
    <2>2. CASE UNCHANGED live /\ faults \subseteq faults'
               /\ rtsp' = [rtsp EXCEPT !.session = session]
      BY <1>0, <1>2, <2>2 DEF RecsInv
    <2>3. CASE /\ rtsp' = [session |-> session, state |-> "stop", srv |-> FALSE, chan |-> FALSE]
               /\ IF LiveDown
                  THEN LiveOpens("open", FALSE)
                  ELSE strm_task' = FALSE /\ NoneFails /\ UNCHANGED live
      <3>1. rtsp' \in Rtsps /\ ~rtsp'.chan
        BY <2>3
      <3>2. live' \in {"open", live, "closed"} /\ faults \subseteq faults'
        BY <2>3, OpensFact DEF NoneFails
      <3> QED BY <1>2, <3>1, <3>2 DEF RecsInv
    <2> QED BY <2>1, <2>2, <2>3 DEF RtspClose, Failing
  <1> QED BY <1>3, <1>4

LEMMA UndoStep ==
    ASSUME RecsInv, NEW what, NEW u, UserUndo(u, what),
           u \in [state : BOOLEAN, srv : BOOLEAN, chan : BOOLEAN,
                  vbuf : BOOLEAN, ibuf : BOOLEAN],
           u.chan => u.srv \/ "undo" \in faults
    PROVE  /\ user' \in [state : BOOLEAN, srv : BOOLEAN, chan : BOOLEAN,
                         vbuf : BOOLEAN, ibuf : BOOLEAN]
           /\ user'.chan => "undo" \in faults'
  <1>1. /\ NoUser \in [state : BOOLEAN, srv : BOOLEAN, chan : BOOLEAN,
                       vbuf : BOOLEAN, ibuf : BOOLEAN]
        /\ ~NoUser.chan
    BY DEF NoUser
  <1>2. /\ Freed(u) \in [state : BOOLEAN, srv : BOOLEAN, chan : BOOLEAN,
                         vbuf : BOOLEAN, ibuf : BOOLEAN]
        /\ Freed(u).chan = u.chan
    BY <1>1 DEF Freed
  <1>3. CASE user' = (IF u.srv THEN NoUser ELSE Freed(u)) /\ Failing(what)
    BY <1>1, <1>2, <1>3 DEF Failing
  <1>4. CASE user' = Freed(u) /\ faults' = faults \cup {what, "undo"}
    BY <1>2, <1>4
  <1> QED BY <1>3, <1>4 DEF UserUndo

LEMMA UserStep ==
    ASSUME RecsInv, UserRecOpen \/ UserRecClose \/ UserPhoto
    PROVE  RecsInv'
  <1> DEFINE UserRecords == [state : BOOLEAN, srv : BOOLEAN, chan : BOOLEAN,
                             vbuf : BOOLEAN, ibuf : BOOLEAN]
  <1>1. rtsp' = rtsp /\ live' = live /\ faults \subseteq faults'
    BY DEF UserRecOpen, UserUndo, UserRecClose, UserClosed, UserPhoto, NoneFails, Failing
  <1>2. user \in UserRecords /\ (user.chan => user.srv \/ "undo" \in faults)
    BY DEF RecsInv, RecsType
  <1>3. user' \in UserRecords
        /\ (user'.chan /\ "undo" \notin faults' =>
                user'.state /\ user'.srv /\ user'.vbuf /\ user'.ibuf)
    <2>1. CASE UserRecOpen
      <3>1. Got(user) \in UserRecords /\ Got(user).srv /\ Got(user).vbuf /\ Got(user).ibuf
        BY <1>2 DEF Got
      <3>2. CASE UserUndo(user, "malloc")
        BY <1>2, <3>2, UndoStep
      <3>3. CASE UserUndo(Got(user), "request")
        BY <3>1, <3>3, UndoStep
      <3>4. CASE UserUndo([Got(user) EXCEPT !.chan = TRUE], "packets")
        <4>1. [Got(user) EXCEPT !.chan = TRUE] \in UserRecords
              /\ [Got(user) EXCEPT !.chan = TRUE].srv
          BY <3>1
        <4> QED BY <3>4, <4>1, UndoStep
      <3>5. CASE user' = [Got(user) EXCEPT !.state = TRUE, !.chan = TRUE]
        BY <3>1, <3>5
      <3> QED BY <2>1, <3>2, <3>3, <3>4, <3>5 DEF UserRecOpen
    <2>2. CASE UserRecClose
      <3>1. NoUser \in UserRecords /\ ~NoUser.chan
        BY DEF NoUser
      <3>2. Freed(user) \in UserRecords /\ Freed(user).chan = user.chan
        BY <1>2, <3>1 DEF Freed
      <3>3. CASE user.srv
        <4>1. \/ user' = NoUser
              \/ user' = user /\ faults \subseteq faults'
          BY <2>2, <3>3 DEF UserRecClose, UserClosed, Failing
        <4> QED BY <3>1, <4>1 DEF RecsInv, RecsType
      <3>4. CASE ~user.srv
        <4>1. user' = Freed(user) /\ faults' = faults
          BY <2>2, <3>4 DEF UserRecClose
        <4> QED BY <1>2, <3>2, <3>4, <4>1
      <3> QED BY <3>3, <3>4
    <2>3. CASE UserPhoto
      <3>1. user' = user /\ faults \subseteq faults'
        BY <2>3 DEF UserPhoto, NoneFails, Failing
      <3> QED BY <3>1 DEF RecsInv, RecsType
    <2> QED BY <2>1, <2>2, <2>3
  <1> QED BY <1>1, <1>3 DEF RecsInv, RecsType

LEMMA PhoneStep ==
    ASSUME RecsInv, PhoneOpens \/ PhoneCloses
    PROVE  RecsInv'
  <1>1. CASE PhoneOpens
    <2>1. /\ live' \in {IF rtsp.chan THEN "late" ELSE "open", live, "closed"}
          /\ faults \subseteq faults' /\ UNCHANGED <<rtsp, user>>
      BY <1>1, OpensFact DEF PhoneOpens
    <2> QED BY <2>1 DEF RecsInv, RecsType
  <1>2. CASE PhoneCloses
    <2>1. PICK o \in LiveClosed : live' = o.live /\ faults' = faults \cup o.failed
      BY <1>2 DEF PhoneCloses
    <2>2. UNCHANGED <<rtsp, user>>
      BY <1>2 DEF PhoneCloses
    <2>3. /\ live' \in {"closed", "stray"}
          /\ live' = "stray" => "livestop" \in faults'
      BY <2>1, ClosedFact
    <2> QED BY <2>1, <2>2, <2>3 DEF RecsInv, RecsType
  <1> QED BY <1>1, <1>2

\* The RTSP recorder has the live stream's buffers for itself unless a phone opens
\* the stream on top of it or the stop of its channel was refused
\* (strm_video_rec.c:164), and the user recorder never frees a
\* buffer its channel still writes to, but in a clean-up whose stop was refused.
THEOREM BuffersTheorem == RecsSpec => []LentBuffers
  <1>1. RecsInit => RecsInv
    BY DEF RecsInit, RecsInv, RecsType
  <1>2. RecsInv /\ [RecsNext]_recsVars => RecsInv'
    <2> SUFFICES ASSUME RecsInv, [RecsNext]_recsVars PROVE RecsInv'
      OBVIOUS
    <2>1. CASE RecsNext
      BY <2>1, RtspStep, UserStep, PhoneStep DEF RecsNext
    <2>2. CASE UNCHANGED recsVars
      BY <2>2 DEF recsVars, RecsInv, RecsType
    <2> QED BY <2>1, <2>2
  <1>3. RecsInv => LentBuffers
    BY DEF RecsInv, LentBuffers
  <1> QED BY <1>1, <1>2, <1>3, PTL DEF RecsSpec

-----------------------------------------------------------------------------
(* The settings. *)

USE NumbersAssumption, FailsAssumption, NoneAssumption

(* What is in flash for a type-correct flash after an update.              *)
LEMMA UpdateType ==
    ASSUME flash \in [Items -> Byte \cup {None}],
           NEW k, NEW n \in Int, NEW f \in db_update(k, n)
    PROVE  f \in [Items -> Byte \cup {None}]
<1>1. n % 256 \in Byte
    BY DEF Byte
<1>. QED
    BY <1>1 DEF db_update

LEMMA WidthType == ASSUME NEW v \in Int PROVE RecWidth(v) \in Widths
  BY DEF RecWidth, rec_pix_w, Widths

LEMMA SelectType ==
    ASSUME NEW f \in [Items -> Byte \cup {None}], NEW k, NEW v \in db_select(f, k)
    PROVE  v \in Int
  BY DEF db_select, Byte, EINVAL

LEMMA AnswerType ==
    ASSUME NEW k \in Getable, NEW v \in Int
    PROVE  Answer(k, v) \in [item : Getable \cup {None}, as : Nat]
  BY DEF Answer, ShownWidth

LEMMA ShowType ==
    ASSUME TypeOK, NEW f \in [Items -> Byte \cup {None}], NEW k \in Getable,
           Show(f, k)
    PROVE  TypeOK'
<1>1. PICK v \in db_select(f, k) :
            /\ flash' = f /\ shown' = Answer(k, v)
            /\ failed' = failed \cup (IF v = -EINVAL THEN Items \cap {k} ELSE {})
            /\ UNCHANGED <<up, started, asked>>
    BY DEF Show
<1>2. shown' \in [item : Getable \cup {None}, as : Nat]
    BY <1>1, SelectType, AnswerType
<1>. QED
    BY <1>1, <1>2 DEF TypeOK

LEMMA RequestType ==
    ASSUME NEW f \in [Items -> Byte \cup {None}],
           NEW res \in db_select(f, "res"), NEW mic \in db_select(f, "mic")
    PROVE  Request(res, mic) \in [width : Widths, mute : BOOLEAN]
  BY SelectType, WidthType DEF Request

LEMMA UnreadType ==
    ASSUME NEW f, NEW ks, NEW val
    PROVE  Unread(f, ks, val) \subseteq Items
  BY DEF Unread

(* The types of flash, recorder and answers hold whatever number a phone   *)
(* sends and whatever call fails: no item ever holds more than its byte.   *)
THEOREM TypeCorrect == Spec => []TypeOK
<1>1. Init => TypeOK
  <2>. SUFFICES ASSUME Init PROVE TypeOK
    OBVIOUS
  <2>1. flash \in [Items -> Byte \cup {None}]
    BY DEF Init
  <2>2. shown \in [item : Getable \cup {None}, as : Nat]
    BY DEF Init
  <2>. QED
    BY <2>1, <2>2 DEF Init, TypeOK
<1>2. TypeOK /\ [Next]_vars => TypeOK'
  <2>. SUFFICES ASSUME TypeOK, [Next]_vars PROVE TypeOK'
    OBVIOUS
  <2>. USE DEF TypeOK
  <2>1. CASE app_config_init
    <3>1. Default \in [Items -> Byte]
        BY DEF Default, Items, Byte
    <3>2. PICK n \in 0..4, bad \in SUBSET Fails :
            LET unset == {k \in Items : flash[k] = None \/ k \in bad}
                done == {config_table[i] : i \in 1..n}
                stuck == IF n < 4 THEN {config_table[n + 1]} ELSE {} IN
            /\ stuck \subseteq unset \cap Fails
            /\ flash' = [k \in Items |->
                           IF k \in unset \cap done THEN Default[k] ELSE flash[k]]
            /\ failed' = failed \cup bad \cup stuck
        BY <2>1 DEF app_config_init
    <3>3. flash' \in [Items -> Byte \cup {None}]
        BY <3>1, <3>2
    <3>4. failed' \subseteq Items \cup {"save"}
        BY <3>2
    <3>. QED
        BY <2>1, <3>3, <3>4 DEF app_config_init
  <2>2. CASE PowerOff
    BY <2>2 DEF PowerOff
  <2>3. ASSUME NEW k \in Getable, cmd_get(k) PROVE TypeOK'
    BY <2>3, ShowType DEF cmd_get
  <2>4. ASSUME NEW k \in Putable, NEW n \in Numbers, cmd_put(k, n) PROVE TypeOK'
    <3>1. PICK f \in db_update(k, n) : Show(f, k)
        BY <2>4 DEF cmd_put
    <3>. QED
        BY <3>1, UpdateType, ShowType DEF Getable
  <2>5. ASSUME NEW h \in {480, 720}, cmd_put_video_param(h) PROVE TypeOK'
    <3>1. PICK f \in db_update("res", IF h = 480 THEN 1 ELSE 0) : Show(f, "res")
        BY <2>5 DEF cmd_put_video_param
    <3>2. (IF h = 480 THEN 1 ELSE 0) \in Int
        OBVIOUS
    <3>. QED
        BY <3>1, <3>2, UpdateType, ShowType DEF Getable
  <2>6. CASE video0_rec_start
    BY <2>6, RequestType DEF video0_rec_start, Unread
  <2>7. CASE video_rec_stop
    BY <2>7 DEF video_rec_stop
  <2>8. CASE PkgEnd
    <3>1. PICK cyc \in db_select(flash, "cyc") :
            LET lost == Unread(flash, {"cyc"}, [cyc |-> cyc]) IN
            \/ cyc > 0 /\ video_rec_savefile(lost)
            \/ /\ cyc <= 0
               /\ started' = None /\ asked' = None
               /\ failed' = failed \cup lost
        BY <2>8 DEF PkgEnd
    <3>. DEFINE lost == Unread(flash, {"cyc"}, [cyc |-> cyc])
    <3>2. lost \subseteq Items
        BY UnreadType
    <3>. HIDE DEF lost
    <3>3. CASE video_rec_savefile(lost)
      <4>1. CASE started' = None /\ asked' = None
                 /\ failed' = failed \cup lost \cup {"save"}
        BY <2>8, <3>2, <4>1 DEF PkgEnd
      <4>2. ASSUME NEW res \in db_select(flash, "res"),
                   NEW mic \in db_select(flash, "mic"),
                   asked' = Request(res, mic), UNCHANGED started,
                   failed' = failed \cup lost
                      \cup Unread(flash, RecSettings, [res |-> res, mic |-> mic])
            PROVE  TypeOK'
        <5>1. asked' \in [width : Widths, mute : BOOLEAN]
          BY <4>2, RequestType
        <5>2. failed' \subseteq Items \cup {"save"}
          BY <3>2, <4>2, UnreadType
        <5>. QED
          BY <2>8, <4>2, <5>1, <5>2 DEF PkgEnd
      <4>. QED
        BY <3>3, <4>1, <4>2 DEF video_rec_savefile
    <3>4. CASE started' = None /\ asked' = None /\ failed' = failed \cup lost
        BY <2>8, <3>2, <3>4 DEF PkgEnd
    <3>. QED
        BY <3>1, <3>3, <3>4 DEF lost
  <2>9. CASE UNCHANGED vars
    BY <2>9 DEF vars
  <2>. QED
    BY <2>1, <2>2, <2>3, <2>4, <2>5, <2>6, <2>7, <2>8, <2>9 DEF Next
<1>. QED
  BY <1>1, <1>2, PTL DEF Spec

-----------------------------------------------------------------------------
(* A restart keeps every item the flash has not failed for.                *)
THEOREM RestartTheorem == Spec => RestartKeeps
<1>1. ASSUME [Next]_vars, ~up, up'
      PROVE  \A k \in Items \ failed' : flash[k] # None => flash'[k] = flash[k]
  <2>1. app_config_init
    BY <1>1 DEF Next, vars, PowerOff, cmd_get, cmd_put, cmd_put_video_param,
                video0_rec_start, video_rec_stop, PkgEnd
  <2>. QED
    BY <2>1 DEF app_config_init
<1>. QED
  BY <1>1, PTL DEF Spec, RestartKeeps

-----------------------------------------------------------------------------
(* What is stored, besides its type: VIDEO_PARAM and the default leave only *)
(* three values in res, no command changes cyc, and a cyc that is missing  *)
(* after the initcalls is one whose turn did not come.                     *)
StoreInv ==
    /\ flash["res"] \in {None, 0, 1, 2}
    /\ flash["cyc"] \in {None, 3}
    /\ up /\ flash["cyc"] = None => failed \cap {"res", "cyc"} # {}
    /\ started # None => up

(* The last answer, with the fact that what was read is stored.            *)
AnswerInv ==
    shown.item \in RecSettings \ failed =>
        /\ flash[shown.item] # None
        /\ shown.as = IF shown.item = "res" THEN RecWidth(flash["res"])
                      ELSE flash["mic"]

(* An update of another item than cyc keeps StoreInv.                      *)
LEMMA UpdateStore ==
    ASSUME TypeOK, StoreInv, NEW k, NEW n \in Int, k # "cyc",
           k = "res" => n \in {0, 1}, NEW f \in db_update(k, n)
    PROVE  /\ f["res"] \in {None, 0, 1, 2}
           /\ f["cyc"] = flash["cyc"]
           /\ f \in [Items -> Byte \cup {None}]
<1>1. k = "res" => n % 256 \in {0, 1}
    OBVIOUS
<1>2. f \in [Items -> Byte \cup {None}]
    BY UpdateType DEF TypeOK
<1>. QED
    BY <1>1, <1>2 DEF db_update, StoreInv, TypeOK, Items

LEMMA ShowStore ==
    ASSUME TypeOK, StoreInv, NEW f \in [Items -> Byte \cup {None}], NEW k \in Getable,
           f["res"] \in {None, 0, 1, 2}, f["cyc"] = flash["cyc"], Show(f, k)
    PROVE  StoreInv' /\ AnswerInv'
<1>1. PICK v \in db_select(f, k) :
            /\ flash' = f /\ shown' = Answer(k, v)
            /\ failed' = failed \cup (IF v = -EINVAL THEN Items \cap {k} ELSE {})
            /\ UNCHANGED <<up, started, asked>>
    BY DEF Show
<1>2. StoreInv'
    BY <1>1 DEF StoreInv
<1>3. ASSUME k \in RecSettings \ failed'
      PROVE  f[k] # None /\ v = f[k]
  <2>1. k \in Items /\ v # -EINVAL
    BY <1>1, <1>3 DEF RecSettings, Items
  <2>. QED
    BY <2>1, <1>1 DEF db_select
<1>4. ASSUME k = "res", f[k] # None, v = f[k]
      PROVE  Answer(k, v).as = RecWidth(f["res"])
    BY <1>4 DEF Answer, ShownWidth, RecWidth, rec_pix_w
<1>5. ASSUME k = "mic", f[k] # None, v = f[k]
      PROVE  Answer(k, v).as = f["mic"]
  <2>1. v \in Byte
    BY <1>5 DEF Items
  <2>. QED
    BY <2>1, <1>5 DEF Answer, Byte
<1>6. shown'.item = k /\ shown'.as = Answer(k, v).as
    BY <1>1 DEF Answer
<1>7. AnswerInv'
    BY <1>1, <1>3, <1>4, <1>5, <1>6 DEF AnswerInv, RecSettings
<1>. QED
    BY <1>2, <1>7

(* The recorder only adds failures.                                        *)
LEMMA RecorderStore ==
    ASSUME TypeOK, StoreInv, AnswerInv, UNCHANGED <<flash, up, shown>>,
           failed \subseteq failed', started' # None => up
    PROVE  StoreInv' /\ AnswerInv'
  BY DEF StoreInv, AnswerInv

LEMMA StoreStep ==
    ASSUME TypeOK, TypeOK', StoreInv, AnswerInv, [Next]_vars
    PROVE  StoreInv' /\ AnswerInv'
<1>1. CASE app_config_init
  <2>. DEFINE unset(bad) == {k \in Items : flash[k] = None \/ k \in bad}
              done(n) == {config_table[i] : i \in 1..n}
              stuck(n) == IF n < 4 THEN {config_table[n + 1]} ELSE {}
  <2>1. PICK n \in 0..4, bad \in SUBSET Fails :
            /\ stuck(n) \subseteq unset(bad) \cap Fails
            /\ flash' = [k \in Items |->
                           IF k \in unset(bad) \cap done(n) THEN Default[k] ELSE flash[k]]
            /\ failed' = failed \cup bad \cup stuck(n)
    BY <1>1 DEF app_config_init
  <2>2. /\ flash'["res"] \in {flash["res"], 2}
        /\ flash'["cyc"] \in {flash["cyc"], 3}
    BY <2>1 DEF Items, Default
  <2>3. flash'["cyc"] = None => failed' \cap {"res", "cyc"} # {}
    <3>1. SUFFICES ASSUME flash'["cyc"] = None PROVE stuck(n) \cap {"res", "cyc"} # {}
      BY <2>1
    <3>2. Default["cyc"] # None
      BY DEF Default, Byte
    <3>3. "cyc" \notin done(n)
      BY <2>1, <3>1, <3>2 DEF Items
    <3>4. n < 2
      BY <3>3 DEF config_table
    <3>5. n = 0 \/ n = 1
      BY <3>4
    <3>. QED
      BY <3>5 DEF config_table
  <2>4. \A k \in Items \ failed' : flash[k] # None => flash'[k] = flash[k]
    BY <2>1
  <2>5. failed \subseteq failed' /\ shown' = shown /\ started' = started /\ up'
    BY <1>1, <2>1 DEF app_config_init
  <2>6. StoreInv'
    BY <2>2, <2>3, <2>5 DEF StoreInv
  <2>7. AnswerInv'
    BY <2>4, <2>5 DEF AnswerInv, RecSettings, Items
  <2>. QED
    BY <2>6, <2>7
<1>2. CASE PowerOff
  BY <1>2 DEF PowerOff, StoreInv, AnswerInv
<1>3. ASSUME NEW k \in Getable, cmd_get(k) PROVE StoreInv' /\ AnswerInv'
  BY <1>3, ShowStore DEF cmd_get, TypeOK, StoreInv
<1>4. ASSUME NEW k \in Putable, NEW n \in Numbers, cmd_put(k, n)
      PROVE  StoreInv' /\ AnswerInv'
  <2>1. PICK f \in db_update(k, n) : Show(f, k)
    BY <1>4 DEF cmd_put
  <2>2. k \in Getable /\ k # "cyc" /\ k # "res" /\ n \in Int
    BY DEF Getable, Putable
  <2>. QED
    BY <2>1, <2>2, UpdateStore, ShowStore
<1>5. ASSUME NEW h \in {480, 720}, cmd_put_video_param(h)
      PROVE  StoreInv' /\ AnswerInv'
  <2>1. PICK f \in db_update("res", IF h = 480 THEN 1 ELSE 0) : Show(f, "res")
    BY <1>5 DEF cmd_put_video_param
  <2>2. (IF h = 480 THEN 1 ELSE 0) \in Int /\ (IF h = 480 THEN 1 ELSE 0) \in {0, 1}
    OBVIOUS
  <2>. QED
    BY <2>1, <2>2, UpdateStore, ShowStore DEF Getable
<1>6. CASE video0_rec_start
  BY <1>6, RecorderStore DEF video0_rec_start
<1>7. CASE video_rec_stop
  BY <1>7, RecorderStore DEF video_rec_stop
<1>8. CASE PkgEnd
  <2>1. failed \subseteq failed' /\ UNCHANGED <<flash, up, shown>>
    BY <1>8 DEF PkgEnd, video_rec_savefile
  <2>2. up
    BY <1>8 DEF PkgEnd, StoreInv
  <2>. QED
    BY <2>1, <2>2, RecorderStore
<1>9. CASE UNCHANGED vars
  BY <1>9, RecorderStore DEF vars, StoreInv
<1>. QED
  BY <1>1, <1>2, <1>3, <1>4, <1>5, <1>6, <1>7, <1>8, <1>9 DEF Next

LEMMA StoreInvariant == Spec => [](StoreInv /\ AnswerInv)
<1>1. Init => StoreInv /\ AnswerInv
  <2>1. Init => None \notin RecSettings
    BY DEF RecSettings, Items
  <2>. QED
    BY <2>1 DEF Init, StoreInv, AnswerInv, Items
<1>. QED
  BY <1>1, StoreStep, TypeCorrect, PTL DEF Spec

(* What a phone was last told is what the recorder would use.              *)
THEOREM ShownTheorem == Spec => []ShownIsUsed
<1>1. AnswerInv => ShownIsUsed
  BY DEF AnswerInv, ShownIsUsed
<1>. QED
  BY <1>1, StoreInvariant, PTL

(* The end of a file ends the recording only after one of three failures.  *)
THEOREM GoesOnTheorem == Spec => RecordingGoesOn
<1>1. StoreInv /\ [Next]_vars =>
        (PkgEnd /\ started' = None => failed' \cap {"res", "cyc", "save"} # {})
  <2>. SUFFICES ASSUME StoreInv, PkgEnd, started' = None
                PROVE  failed' \cap {"res", "cyc", "save"} # {}
    OBVIOUS
  <2>. DEFINE lost(cyc) == Unread(flash, {"cyc"}, [cyc |-> cyc])
  <2>1. PICK cyc \in db_select(flash, "cyc") :
            \/ cyc > 0 /\ video_rec_savefile(lost(cyc))
            \/ /\ cyc <= 0
               /\ started' = None /\ asked' = None
               /\ failed' = failed \cup lost(cyc)
    BY DEF PkgEnd
  <2>2. started # None /\ up
    BY DEF PkgEnd, StoreInv
  <2>3. CASE cyc > 0 /\ video_rec_savefile(lost(cyc))
    <3>1. "save" \in failed'
      BY <2>2, <2>3 DEF video_rec_savefile
    <3>. QED
      BY <3>1
  <2>4. CASE cyc <= 0 /\ failed' = failed \cup lost(cyc)
    <3>1. CASE flash["cyc"] = None
      BY <2>2, <2>4, <3>1 DEF StoreInv
    <3>2. CASE flash["cyc"] = 3
      <4>1. cyc = -EINVAL
        BY <2>4, <3>2 DEF db_select
      <4>2. flash["cyc"] # None
        BY <3>2 DEF Byte
      <4>3. "cyc" \in lost(cyc)
        BY <4>1, <4>2 DEF Unread, Items
      <4>. QED
        BY <2>4, <4>3
    <3>. QED
      BY <3>1, <3>2 DEF StoreInv
  <2>. QED
    BY <2>1, <2>3, <2>4
<1>. QED
  BY <1>1, StoreInvariant, PTL DEF Spec, RecordingGoesOn
=============================================================================
