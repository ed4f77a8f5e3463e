-------------------------------- MODULE Talk --------------------------------
(***************************************************************************)
(* The phone's voice: wifi/rt_talk_net.c puts frames together from the     *)
(* slices its datagrams carry and hands them to a ring that                *)
(* wifi/rt_talk_voice.c plays from.  The network is UDP: a datagram may be *)
(* lost, come twice, or come late.  The RT_TALK_CTL command opens and      *)
(* closes the talk in the application's task; a thread receives; the       *)
(* interrupt of the audio device plays.                                    *)
(*                                                                         *)
(* Slice i of a frame fills slot i of the frame buffer.                    *)
(***************************************************************************)
EXTENDS Integers, Sequences

CONSTANTS
    TalkSlots,   \* slots of the frame buffer
    Blanked,     \* those of them that a new frame blanks: 4096 of 8000 bytes
    Quiet,       \* slices <<seq, i>> that look like a blank slot
    MaxSeq,      \* bound: the phone's frames are numbered 0..MaxSeq
    RingSize,    \* what the ring holds, in slices
    PlayFrom,    \* it is played from this fill on (100 ms) ...
    StopBelow,   \* ... and stopped below this one (20 ms)
    MaxTalks     \* bound: talks opened

ASSUME TalkSlotsAssumption == TalkSlots \subseteq Nat /\ \A n \in TalkSlots : 1..n \subseteq TalkSlots
ASSUME BlankedAssumption == Blanked \subseteq TalkSlots
ASSUME RingAssumption == RingSize \in Nat \ {0}

VARIABLES
    rt_talk,   \* "none", "open", or "failed": its memory is there, no more
    recv,      \* the receiving thread: "none" or "run"
    unreg,     \* its socket is unregistered and the thread waited for
    old_seq, total,   \* of get_pcm_packet: static, and total is never reset
    pcm,       \* the frame buffer on the thread's stack
    fill,      \* of the ring
    bindex,    \* the audio device plays: bindex is 0
    size,      \* the phone's frames so far: how many slices each has
    played,    \* ghost: the frames handed to the ring in this talk
    talks

talkVars == <<rt_talk, recv, unreg, old_seq, total, pcm, fill, bindex, size, played, talks>>

BlankSlot == -1
JunkSlot == -2

TalkInit ==
    /\ rt_talk = "none" /\ recv = "none" /\ unreg = FALSE
    /\ old_seq = 0 /\ total = 0
    /\ pcm = [i \in TalkSlots |-> JunkSlot]
    /\ fill = 0 /\ bindex = FALSE
    /\ size = <<>> /\ played = <<>> /\ talks = 0

-----------------------------------------------------------------------------
(* get_pcm_packet. *)

\* bytecmp with CHECK_CODE: has the slot been filled?
LooksBlank_Always(buf, i) == TRUE
LooksBlank(buf, i) == buf[i] = BlankSlot \/ <<buf[i], i>> \in Quiet

Assembly(seq, n, buf) == [seq |-> seq, total |-> n, buf |-> buf, done |-> FALSE]

\* The first slice of a newer frame starts the buffer afresh.
NewFrame(a, seq) ==
    IF seq > a.seq
    THEN Assembly(seq, 0, [i \in TalkSlots |-> IF i \in Blanked THEN BlankSlot ELSE a.buf[i]])
    ELSE a

\* One slice: skipped when it is old or its slot is filled; when the slices
\* copied make up the frame's size, the frame is done and the rest of the
\* datagram is not looked at.
TakeSlice(a, seq, i, n) ==
    LET b == NewFrame(a, seq)
    IN  IF a.done \/ seq < a.seq \/ ~LooksBlank(b.buf, i) THEN b
        ELSE [b EXCEPT !.buf[i] = seq, !.total = @ + 1, !.done = b.total + 1 = n]

\* The slices first..last of a frame of n.
Packet(a, seq, first, last, n) ==
    LET step[i \in (first - 1)..last] ==
            IF i < first THEN a ELSE TakeSlice(step[i - 1], seq, i, n)
    IN  step[last]

-----------------------------------------------------------------------------
(* rt_talk_data_recv. *)

\* cbuf_write all or nothing; a full ring is cleared and the frame lost.
Played(n) ==
    IF fill + n > RingSize
    THEN fill' = 0 /\ UNCHANGED bindex
    ELSE /\ fill' = fill + n
         /\ bindex' = (fill + n >= PlayFrom \/ (bindex /\ fill + n >= StopBelow))

\* Any datagram the phone has sent in its time may come now, once more or never;
\* one that is malformed counts up to there.
Receive ==
    /\ recv = "run" /\ ~unreg
    /\ \E seq \in DOMAIN size : \E first, last \in 1..size[seq] :
           /\ first <= last
           /\ LET n == size[seq]
                  a == Packet(Assembly(old_seq, total, pcm), seq - 1, first, last, n)
              IN  /\ old_seq' = a.seq /\ total' = a.total /\ pcm' = a.buf
                  /\ IF a.done
                     THEN /\ Played(n)
                          /\ played' = Append(played, [seq |-> seq - 1, data |-> a.buf, n |-> n])
                     ELSE UNCHANGED <<fill, bindex, played>>
    /\ UNCHANGED <<rt_talk, recv, unreg, size, talks>>

\* Nothing came for RECV_TIME_OUT, or the socket is gone: the thread stops the
\* voice and ends; the talk stays open.
RecvEnds ==
    /\ recv = "run"
    /\ bindex' = FALSE /\ recv' = "none"
    /\ UNCHANGED <<rt_talk, unreg, old_seq, total, pcm, fill, size, played, talks>>

\* rt_talk_dac_irq_handler, on its own clock.
DacIrq ==
    /\ bindex /\ fill > 0
    /\ fill' = fill - 1
    /\ UNCHANGED <<rt_talk, recv, unreg, old_seq, total, pcm, bindex, size, played, talks>>

-----------------------------------------------------------------------------
(* The command RT_TALK_CTL, in the application's task. *)

\* rt_talk_net_init: an open talk is left alone; the buffer of the new thread
\* holds whatever was on its stack.
TalkOpen ==
    /\ rt_talk = "none" /\ talks < MaxTalks
    /\ talks' = talks + 1
    /\ \/ /\ rt_talk' = "open" /\ recv' = "run"
          /\ old_seq' = 0 /\ fill' = 0 /\ played' = <<>>
          /\ pcm' \in {[i \in TalkSlots |-> x] : x \in {BlankSlot, JunkSlot}}
       \/ /\ rt_talk' = "failed"
          /\ UNCHANGED <<recv, old_seq, fill, played, pcm>>
    /\ UNCHANGED <<unreg, total, bindex, size>>

\* rt_talk_net_uninit: the socket first, then the thread is waited for.
TalkClose ==
    /\ rt_talk # "none" /\ ~unreg
    /\ unreg' = TRUE
    /\ UNCHANGED <<rt_talk, recv, old_seq, total, pcm, fill, bindex, size, played, talks>>

TalkClosed ==
    /\ unreg /\ recv = "none"
    /\ rt_talk' = "none" /\ unreg' = FALSE
    /\ UNCHANGED <<recv, old_seq, total, pcm, fill, bindex, size, played, talks>>

\* The answer says that it is done, whatever became of it; another status does
\* nothing.
cmd_put_rt_talk_ctl(status) == (status = 1 /\ TalkOpen) \/ (status = 0 /\ TalkClose)

-----------------------------------------------------------------------------
(* The phone, which numbers its frames from 0 and starts to send the next. *)

Speak ==
    /\ Len(size) <= MaxSeq
    /\ \E n \in TalkSlots : size' = Append(size, n)
    /\ UNCHANGED <<rt_talk, recv, unreg, old_seq, total, pcm, fill, bindex, played, talks>>

TalkNext ==
    \/ Receive \/ RecvEnds \/ DacIrq
    \/ \E status \in {0, 1} : cmd_put_rt_talk_ctl(status)
    \/ TalkClosed \/ Speak

TalkSpec == TalkInit /\ [][TalkNext]_talkVars

-----------------------------------------------------------------------------
(* Properties. *)

\* Whatever is lost, doubled or late, the frames that are played come in the
\* phone's order, each at most once, and each is made of its own slices, all of
\* them: but for frame 0, which starts on a buffer nobody blanked, and frames
\* with a slice that looks like a blank slot.
FrameWhole ==
    \A k \in DOMAIN played :
        /\ k > 1 => played[k - 1].seq < played[k].seq
        /\ played[k].seq > 0 /\ (\A i \in 1..played[k].n : <<played[k].seq, i>> \notin Quiet)
               => \A i \in 1..played[k].n : played[k].data[i] = played[k].seq
=============================================================================
