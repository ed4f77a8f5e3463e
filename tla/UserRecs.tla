------------------------------ MODULE UserRecs ------------------------------
(***************************************************************************)
(* Two more recorders of the one camera: the RTSP server's                 *)
(* (wifi/strm_video_rec.c), which records into the very buffers of the     *)
(* live stream and so closes the live stream first and opens it again at   *)
(* its end; and the user recorder (wifi/user_video_rec.c), which allocates *)
(* buffers of its own.  Both hand their packets to the writer task of the  *)
(* live stream.  What a call to the video server, malloc or the thread     *)
(* library answers is nondeterministic; "faults" remembers what failed.    *)
(*                                                                         *)
(* Of the live stream there is only what its opening and closing come to;  *)
(* NetVideoRec has the rest.                                               *)
(***************************************************************************)
EXTENDS Integers

VARIABLES
    rtsp,     \* [session: is_open, state, srv: video_rec0, chan: its channel runs]
    user,     \* [state, srv: user_video_rec, chan, vbuf, ibuf: allocated]
    live,     \* the live stream: "closed"; "open"; "late", opened by a phone while
              \* the RTSP channel runs; or "stray", it counts as closed but its
              \* channel runs on, for the stop was refused
    strm_task,    \* the writer task of stream_protocol.c
    faults    \* ghost: what has failed

recsVars == <<rtsp, user, live, strm_task, faults>>

RecsInit ==
    /\ rtsp = [session |-> FALSE, state |-> "idle", srv |-> FALSE, chan |-> FALSE]
    /\ user = [state |-> FALSE, srv |-> FALSE, chan |-> FALSE, vbuf |-> FALSE, ibuf |-> FALSE]
    /\ live = "closed" /\ strm_task = FALSE /\ faults = {}

Failing(what) == faults' = faults \cup {what}
NoneFails == UNCHANGED faults

-----------------------------------------------------------------------------
(* The live stream (wifi/net_video_rec.c). *)

LiveDown == live \in {"closed", "stray"}

\* Closing it, as user_net_video_rec_close(1) does: one that counts as closed is
\* left alone, any other counts as closed whatever its stop was answered.  It may
\* have had a writer task.
LiveClosed ==
    IF LiveDown
    THEN {[live |-> live, task |-> strm_task, failed |-> {}]}
    ELSE {[live |-> "closed", task |-> t, failed |-> {}] : t \in {strm_task, FALSE}}
             \cup {[live |-> "stray", task |-> strm_task, failed |-> {"livestop"}]}

\* Opening it: a failure may end a channel that was left running.
LiveOpens(as, task) ==
    \/ live' = as /\ strm_task' \in {task, TRUE} /\ NoneFails
    \/ live' \in {live, "closed"} /\ strm_task' = task /\ Failing("live")

-----------------------------------------------------------------------------
(* The RTSP recorder. *)

\* fv_video_rec_start closes the live stream, and does not look at what that
\* answers.  The state is "start" as soon as the channel runs, whatever becomes
\* of the packets.
RtspStart(session) ==
    \E r \in LiveClosed :
        /\ live' = r.live
        /\ \/ /\ ~rtsp.srv /\ rtsp' = [rtsp EXCEPT !.session = session]
              /\ strm_task' = r.task /\ faults' = faults \cup r.failed \cup {"server"}
           \/ /\ rtsp' = [rtsp EXCEPT !.session = session, !.srv = TRUE]
              /\ strm_task' = r.task /\ faults' = faults \cup r.failed \cup {"request"}
           \/ /\ rtsp' = [session |-> session, state |-> "start", srv |-> TRUE, chan |-> TRUE]
              /\ \/ strm_task' = TRUE /\ faults' = faults \cup r.failed
                 \/ strm_task' = r.task /\ faults' = faults \cup r.failed \cup {"packets"}

\* fenice_video_rec_setup and fv_video_rec_open: one that is running already,
\* because its stop failed, is left as it is.
Setup ==
    /\ ~rtsp.session
    /\ IF rtsp.state = "start"
       THEN rtsp' = [rtsp EXCEPT !.session = TRUE] /\ UNCHANGED <<live, strm_task, faults>>
       ELSE RtspStart(TRUE)
    /\ UNCHANGED user

\* fv_video_rec_close and fv_video_rec_stop: the packets go first; a stop that
\* is refused leaves the rest as it is; the live stream is opened again.
RtspClose(session) ==
    IF rtsp.state # "start"
    THEN rtsp' = [rtsp EXCEPT !.session = session] /\ UNCHANGED <<live, strm_task, faults>>
    ELSE \/ /\ rtsp' = [rtsp EXCEPT !.session = session]
            /\ strm_task' = FALSE /\ Failing("stop") /\ UNCHANGED live
         \/ /\ rtsp' = [session |-> session, state |-> "stop", srv |-> FALSE, chan |-> FALSE]
            /\ IF LiveDown
               THEN LiveOpens("open", FALSE)
               ELSE strm_task' = FALSE /\ NoneFails /\ UNCHANGED live

\* fenice_video_rec_exit.
Exit ==
    /\ rtsp.session
    /\ RtspClose(FALSE)
    /\ UNCHANGED user

\* VIDEO_SERVER_PKG_NET_ERR closes below the session, which stays set up.
NetErr ==
    /\ rtsp.srv
    /\ RtspClose(rtsp.session)
    /\ UNCHANGED user

-----------------------------------------------------------------------------
(* The user recorder. *)

NoUser == [state |-> FALSE, srv |-> FALSE, chan |-> FALSE, vbuf |-> FALSE, ibuf |-> FALSE]

\* Everything is given back; a channel nobody stopped runs on.
Freed(u) == [NoUser EXCEPT !.chan = u.chan]

\* The clean-up of user_video_rec0_open: with a server the channel is told to
\* stop, and what it answers is not looked at.
UserUndo(u, what) ==
    \/ user' = (IF u.srv THEN NoUser ELSE Freed(u)) /\ Failing(what)
    \/ u.srv /\ user' = Freed(u) /\ faults' = faults \cup {what, "undo"}

Got(u) == [u EXCEPT !.vbuf = TRUE, !.ibuf = TRUE, !.srv = TRUE]

\* user_video_rec0_open.  Short of its second buffer or of the server it
\* answers 0 like success, but the recorder does not count as open.
UserRecOpen ==
    /\ ~user.state
    /\ \/ UserUndo(user, "malloc") /\ UNCHANGED strm_task
       \/ UserUndo(Got(user), "request") /\ UNCHANGED strm_task
       \/ UserUndo([Got(user) EXCEPT !.chan = TRUE], "packets") /\ UNCHANGED strm_task
       \/ /\ user' = [Got(user) EXCEPT !.state = TRUE, !.chan = TRUE]
          /\ strm_task' = TRUE /\ NoneFails
    /\ UNCHANGED <<rtsp, live>>

\* The buffers go although the stop was refused.
UserClosed_Frees ==
    \/ user' = NoUser /\ strm_task' = FALSE /\ NoneFails
    \/ Failing("stop") /\ user' = Freed(user) /\ strm_task' = FALSE

\* A refused stop ends the close before anything is freed.
UserClosed ==
    \/ user' = NoUser /\ strm_task' = FALSE /\ NoneFails
    \/ Failing("stop") /\ UNCHANGED <<user, strm_task>>

\* user_video_rec0_close.
UserRecClose ==
    /\ IF user.srv THEN UserClosed ELSE user' = Freed(user) /\ UNCHANGED <<strm_task, faults>>
    /\ UNCHANGED <<rtsp, live>>

\* user_video_rec_take_photo: the recorder's server, or one for the photo.
UserPhoto ==
    /\ UNCHANGED <<rtsp, user, live, strm_task>>
    /\ NoneFails \/ Failing("photo")

-----------------------------------------------------------------------------
(* Phones open and close the live stream without asking who else records. *)

PhoneOpens ==
    /\ LiveDown
    /\ LiveOpens(IF rtsp.chan THEN "late" ELSE "open", strm_task)
    /\ UNCHANGED <<rtsp, user>>

PhoneCloses ==
    /\ ~LiveDown
    /\ \E r \in LiveClosed :
           live' = r.live /\ strm_task' = r.task /\ faults' = faults \cup r.failed
    /\ UNCHANGED <<rtsp, user>>

RecsNext ==
    \/ Setup \/ Exit \/ NetErr
    \/ UserRecOpen \/ UserRecClose \/ UserPhoto
    \/ PhoneOpens \/ PhoneCloses

RecsSpec == RecsInit /\ [][RecsNext]_recsVars

-----------------------------------------------------------------------------
(* Properties. *)

\* A running channel has the memory it writes to for itself: the RTSP recorder
\* shares the live stream's buffers with it only when a phone opens it on top, or
\* when the stop of its channel was refused; the user recorder's buffers stay
\* until its channel has stopped, but for the clean-up of a failed open, which
\* does not look.
LentBuffers ==
    /\ rtsp.chan /\ live # "closed" =>
           live = "late" \/ (live = "stray" /\ "livestop" \in faults)
    /\ user.chan /\ "undo" \notin faults => user.vbuf /\ user.ibuf
=============================================================================
