------------------------------- MODULE SpiCam -------------------------------
(***************************************************************************)
(* The SPI camera of spi_video.c: a task that reads frames and opens the   *)
(* camera again when a frame is damaged, and the calls that start and stop *)
(* it for its two users: the phone, whose stream the video server sends    *)
(* (spi_video_task_create(priv) in ACTION_VIDEO1_OPEN_RT_STREAM), and an   *)
(* application that wants the pictures (spi_video_task_init).  The calls   *)
(* come one at a time; the task runs beside them.                          *)
(***************************************************************************)
EXTENDS Integers

CONSTANTS
    SpiFaults,   \* those that may happen: "slow" (a wait runs out), "stop",
                 \* "open", "reset" (the server or the camera refuses), "pkg"
    MaxSpiCalls, \* bound: calls
    MaxSpiErrs   \* bound: damaged frames

ASSUME CallsAssumption == MaxSpiCalls \in Nat

Users == {"phone", "yuv"}
OtherUser(u) == IF u = "phone" THEN "yuv" ELSE "phone"

Tasks == 1..(2 * MaxSpiCalls)   \* the threads forked

VARIABLES
    state,        \* "IDEL", "OPEN", "OPENING", "CLOSE", "CLOSEING", "RESEST"
    spiInit,      \* the flag init
    camera_hdl,   \* the camera is open by itself ...
    net_video_rec,\* ... the video server has it; and the stream runs:
    reinit,
    wants,        \* app_state and yuv_flow
    net_priv,     \* the user of the last task to (re)start
    task,         \* task[t]: [for, at]; at is "boot", "opening", "resetting",
                  \* "up", "run", "exit" or "dead"
    pid, killed,  \* the last thread forked; those asked to end
    spiCall,      \* the call under way: [at, user, killing]
    spiAnswer,    \* what the last call returned, and for whom it was
    bad,          \* ghost: the faults so far; "raced": a frame damaged during
                  \* a call; "left": a camera left open by its task
    spiCalls, spiErrs

spiVars == <<state, spiInit, camera_hdl, net_video_rec, reinit, wants, net_priv,
             task, pid, killed, spiCall, spiAnswer, bad, spiCalls, spiErrs>>

NoSpiCall == [at |-> "none", user |-> "phone", killing |-> FALSE]

SpiInit ==
    /\ state = "IDEL" /\ spiInit = FALSE
    /\ camera_hdl = FALSE /\ net_video_rec = FALSE /\ reinit = FALSE
    /\ wants = {} /\ net_priv = "yuv"
    /\ task = [t \in Tasks |-> [for |-> "yuv", at |-> "dead"]]
    /\ pid = 0 /\ killed = {}
    /\ spiCall = NoSpiCall /\ spiAnswer = [user |-> "yuv", ok |-> FALSE]
    /\ bad = {} /\ spiCalls = 0 /\ spiErrs = 0

Waiting == state \in {"OPENING", "RESEST"}   \* of spi_video_wait_done
Shut == state \in {"CLOSE", "CLOSEING"}
Fault(f) == f \in SpiFaults \ bad /\ bad' = bad \cup {f}

-----------------------------------------------------------------------------
(* The task. *)

Goes(t, at) == task' = [task EXCEPT ![t].at = at]

\* From reinit to the camera: an open one is left alone, one to be reset is
\* reset.
SpiBoot(t) ==
    /\ task[t].at = "boot"
    /\ reinit' = FALSE /\ net_priv' = task[t].for
    /\ CASE state \in {"OPEN", "OPENING"} -> Goes(t, "up") /\ UNCHANGED state
         [] state = "RESEST" -> Goes(t, "resetting") /\ state' = "OPENING"
         [] OTHER -> Goes(t, "opening") /\ state' = "OPENING"
    /\ UNCHANGED <<spiInit, camera_hdl, net_video_rec, wants, pid, killed,
                   spiCall, spiAnswer, bad, spiCalls, spiErrs>>

\* The SPI device itself does not open, or memory is short.
SpiBootFails(t) ==
    /\ task[t].at = "boot" /\ Fault("open")
    /\ reinit' = FALSE /\ net_priv' = task[t].for /\ Goes(t, "exit")
    /\ UNCHANGED <<state, spiInit, camera_hdl, net_video_rec, wants, pid, killed,
                   spiCall, spiAnswer, spiCalls, spiErrs>>

\* spi_camera_open without a phone opens the device, up to five times; with one
\* it asks the server (net_stream_open), and whatever the server says the
\* camera counts as open.
SpiOpened(t) ==
    /\ task[t].at = "opening"
    /\ \/ /\ IF task[t].for = "yuv"
             THEN camera_hdl' = TRUE /\ UNCHANGED net_video_rec
             ELSE net_video_rec' = TRUE /\ UNCHANGED camera_hdl
          /\ state' = "OPEN" /\ Goes(t, "up") /\ UNCHANGED bad
       \/ /\ Fault("open")
          /\ net_video_rec' = FALSE /\ UNCHANGED camera_hdl
          /\ IF task[t].for = "yuv"
             THEN state' = "CLOSE" /\ Goes(t, "exit")
             ELSE state' = "OPEN" /\ Goes(t, "up")
    /\ UNCHANGED <<spiInit, reinit, wants, net_priv, pid, killed,
                   spiCall, spiAnswer, spiCalls, spiErrs>>

\* spi_camera_reset: with nothing to reset, or refused, the state stays OPENING,
\* which the next attempt takes for an open camera.
SpiReset(t) ==
    /\ task[t].at = "resetting"
    /\ Goes(t, "up")
    /\ \/ /\ state' = IF camera_hdl \/ net_video_rec THEN "OPEN" ELSE state
          /\ UNCHANGED bad
       \/ ~camera_hdl /\ net_video_rec /\ Fault("reset") /\ UNCHANGED state
    /\ UNCHANGED <<spiInit, camera_hdl, net_video_rec, reinit, wants, net_priv, pid,
                   killed, spiCall, spiAnswer, spiCalls, spiErrs>>

SpiUp(t) ==
    /\ task[t].at = "up"
    /\ spiInit' = TRUE /\ Goes(t, "run")
    /\ UNCHANGED <<state, camera_hdl, net_video_rec, reinit, wants, net_priv, pid,
                   killed, spiCall, spiAnswer, bad, spiCalls, spiErrs>>

\* The frame does not begin and end as it should.
SpiDamaged(t) ==
    /\ task[t].at = "run" /\ t \notin killed /\ spiErrs < MaxSpiErrs
    /\ spiErrs' = spiErrs + 1
    /\ reinit' = TRUE /\ state' = "RESEST" /\ Goes(t, "exit")
    /\ bad' = IF spiCall.at = "none" THEN bad ELSE bad \cup {"raced"}
    /\ UNCHANGED <<spiInit, camera_hdl, net_video_rec, wants, net_priv, pid, killed,
                   spiCall, spiAnswer, spiCalls>>

SpiKilled(t) ==
    /\ task[t].at = "run" /\ t \in killed
    /\ Goes(t, "exit")
    /\ UNCHANGED <<state, spiInit, camera_hdl, net_video_rec, reinit, wants, net_priv,
                   pid, killed, spiCall, spiAnswer, bad, spiCalls, spiErrs>>

\* What spi_camera_close leaves and returns, when it does close; a server that
\* refuses to stop keeps the stream.
Closes(ok) ==
    /\ camera_hdl' = FALSE /\ state' = "CLOSE"
    /\ \/ net_video_rec' = FALSE /\ ok /\ UNCHANGED bad
       \/ net_video_rec /\ UNCHANGED net_video_rec /\ ~ok /\ Fault("stop")

\* At its end the task closes the camera only when the server has it, and
\* forgets the server then.
SpiExit(t) ==
    /\ task[t].at = "exit"
    /\ IF reinit
       THEN Goes(t, "boot") /\ UNCHANGED <<state, spiInit, camera_hdl, net_video_rec, bad>>
       ELSE /\ Goes(t, "dead") /\ spiInit' = FALSE /\ net_video_rec' = FALSE
            /\ \/ /\ net_video_rec /\ spiInit /\ ~Shut
                  /\ camera_hdl' = FALSE /\ state' = "CLOSE"
                  /\ (UNCHANGED bad \/ Fault("stop"))
               \/ /\ ~(net_video_rec /\ spiInit /\ ~Shut)
                  /\ bad' = IF camera_hdl THEN bad \cup {"left"} ELSE bad
                  /\ UNCHANGED <<camera_hdl, state>>
    /\ UNCHANGED <<reinit, wants, net_priv, pid, killed, spiCall, spiAnswer, spiCalls, spiErrs>>

-----------------------------------------------------------------------------
(* The calls. *)

At(p) == spiCall' = [spiCall EXCEPT !.at = p]
CallOnly == UNCHANGED <<state, spiInit, camera_hdl, net_video_rec, reinit, net_priv,
                        spiErrs>>

\* Bound: the calls, none of them after a fault.
MayCall == spiCall.at = "none" /\ spiCalls < MaxSpiCalls /\ bad = {}

SpiCreate(u) ==
    /\ MayCall
    /\ spiCalls' = spiCalls + 1
    /\ spiCall' = [at |-> "wait", user |-> u, killing |-> FALSE]
    /\ CallOnly /\ UNCHANGED <<wants, task, pid, killed, spiAnswer, bad>>

SpiKill(u) ==
    /\ MayCall
    /\ spiCalls' = spiCalls + 1
    /\ spiCall' = [at |-> "wait to kill", user |-> u, killing |-> TRUE]
    /\ CallOnly /\ UNCHANGED <<wants, task, pid, killed, spiAnswer, bad>>

\* spi_video_wait_done.
SpiWaited ==
    /\ spiCall.at \in {"wait", "wait to kill"}
    /\ IF Waiting THEN Fault("slow") ELSE UNCHANGED bad
    /\ At(IF spiCall.at = "wait" THEN "close" ELSE "kill")
    /\ CallOnly /\ UNCHANGED <<wants, task, pid, killed, spiAnswer, spiCalls>>

\* spi_camera_close in spi_video_task_create: what is not up is not closed, and
\* then no task is ended either.
CloseBegins ==
    /\ spiCall.at = "close"
    /\ IF ~spiInit THEN At("fork") /\ UNCHANGED state
       ELSE IF Shut THEN At("end") /\ UNCHANGED state
       ELSE At("closing") /\ state' = "CLOSEING"
    /\ UNCHANGED <<spiInit, camera_hdl, net_video_rec, reinit, wants, net_priv, task, pid,
                   killed, spiAnswer, bad, spiCalls, spiErrs>>

\* spi_camera_event: the server reports that it cannot go on.
SpiPkgErr ==
    /\ spiCall.at = "none" /\ net_video_rec /\ spiInit /\ ~Shut
    /\ Fault("pkg")
    /\ spiCall' = [NoSpiCall EXCEPT !.at = "closing for the server"]
    /\ state' = "CLOSEING"
    /\ UNCHANGED <<spiInit, camera_hdl, net_video_rec, reinit, wants, net_priv, task, pid,
                   killed, spiAnswer, spiCalls, spiErrs>>

\* The task of the earlier session is left to run.
CloseEnds_NoKill ==
    /\ spiCall.at \in {"closing", "closing for the server"}
    /\ \E ok \in BOOLEAN :
          /\ Closes(ok)
          /\ At(IF spiCall.at # "closing" THEN "none" ELSE "fork")
    /\ UNCHANGED <<spiInit, reinit, wants, net_priv, task, pid, killed, spiAnswer,
                   spiCalls, spiErrs>>

CloseEnds ==
    /\ spiCall.at \in {"closing", "closing for the server"}
    /\ \E ok \in BOOLEAN :
          /\ Closes(ok)
          /\ At(IF spiCall.at # "closing" THEN "none" ELSE IF ok THEN "end" ELSE "fork")
    /\ UNCHANGED <<spiInit, reinit, wants, net_priv, task, pid, killed, spiAnswer,
                   spiCalls, spiErrs>>

\* thread_kill asks, and waits until the thread is gone.
SpiEnd ==
    /\ spiCall.at = "end" /\ pid \notin killed
    /\ killed' = killed \cup {pid}
    /\ CallOnly /\ UNCHANGED <<wants, task, pid, spiCall, spiAnswer, bad, spiCalls>>

Ended == pid \in killed /\ (pid = 0 \/ task[pid].at = "dead")

SpiFork ==
    /\ spiCall.at = "fork" \/ (spiCall.at = "end" /\ Ended)
    /\ wants' = wants \cup {spiCall.user}
    /\ pid' = pid + 1
    /\ task' = [task EXCEPT ![pid + 1] = [for |-> spiCall.user, at |-> "boot"]]
    /\ At("up")
    /\ CallOnly /\ UNCHANGED <<killed, spiAnswer, bad, spiCalls>>

\* The answer: the task is up within 50 ticks, or not.  In a kill nobody looks.
SpiAnswer ==
    /\ spiCall.at = "up"
    /\ IF spiInit THEN UNCHANGED bad ELSE Fault("slow")
    /\ At(IF spiCall.killing THEN "last" ELSE "none")
    /\ spiAnswer' = [user |-> spiCall.user, ok |-> spiInit /\ ~spiCall.killing]
    /\ CallOnly /\ UNCHANGED <<wants, task, pid, killed, spiCalls>>

\* spi_video_task_kill: for the other user the task is started afresh.
SpiKillFlag ==
    /\ spiCall.at = "kill"
    /\ wants' = wants \ {spiCall.user}
    /\ IF OtherUser(spiCall.user) \in wants
       THEN killed' = killed \cup {pid} /\ At("restart")
       ELSE UNCHANGED killed /\ At("last")
    /\ CallOnly /\ UNCHANGED <<task, pid, spiAnswer, bad, spiCalls>>

\* The user it is started for is that of the last task: net_priv.
SpiRestart ==
    /\ spiCall.at = "restart" /\ Ended
    /\ spiCall' = [at |-> "wait", killing |-> TRUE,
                   user |-> IF spiCall.user = "phone" THEN "yuv" ELSE net_priv]
    /\ CallOnly /\ UNCHANGED <<wants, task, pid, killed, spiAnswer, bad, spiCalls>>

SpiReturn ==
    /\ spiCall' = NoSpiCall
    /\ spiAnswer' = [user |-> spiCall.user, ok |-> FALSE]

\* The last user is gone.
SpiLast ==
    /\ spiCall.at = "last"
    /\ IF spiInit /\ wants = {}
       THEN killed' = killed \cup {pid} /\ At("gone") /\ UNCHANGED spiAnswer
       ELSE SpiReturn /\ UNCHANGED killed
    /\ CallOnly /\ UNCHANGED <<wants, task, pid, bad, spiCalls>>

SpiGone ==
    /\ spiCall.at = "gone" /\ Ended /\ SpiReturn
    /\ CallOnly /\ UNCHANGED <<wants, task, pid, killed, bad, spiCalls>>

-----------------------------------------------------------------------------
SpiNext ==
    \/ \E t \in Tasks :
          \/ SpiBoot(t) \/ SpiBootFails(t) \/ SpiOpened(t) \/ SpiReset(t)
          \/ SpiUp(t) \/ SpiDamaged(t) \/ SpiKilled(t) \/ SpiExit(t)
    \/ \E u \in Users : SpiCreate(u) \/ SpiKill(u)
    \/ SpiWaited \/ CloseBegins \/ CloseEnds \/ SpiEnd \/ SpiFork \/ SpiAnswer
    \/ SpiKillFlag \/ SpiRestart \/ SpiLast \/ SpiGone \/ SpiPkgErr

SpiSpec == SpiInit /\ [][SpiNext]_spiVars

-----------------------------------------------------------------------------
(* Properties. *)

\* One task reads the camera.
OneReader == \A s, t \in Tasks : task[s].at # "dead" /\ task[t].at # "dead" => s = t

\* A user that was told its start succeeded has a task that reads for it, alone,
\* and the phone has a stream, until the next call, through any number of damaged
\* frames; but not after a refused open, reset or stop, a wait that ran out, a frame
\* damaged while a call was under way, or a camera its task left open.
SpiServed ==
    spiAnswer.ok /\ spiCall.at = "none" /\ bad = {} =>
        /\ OneReader
        /\ task[pid].at # "dead" /\ task[pid].for = spiAnswer.user
        /\ IF spiAnswer.user = "phone" THEN net_video_rec ELSE camera_hdl

=============================================================================
