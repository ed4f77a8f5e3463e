---------------------------- MODULE NetVideoRec ----------------------------
(***************************************************************************)
(* The recorder (video_rec.c) and the live stream (wifi/net_video_rec.c)   *)
(* share one camera.  While nothing is recorded the stream opens a video   *)
(* server of its own ("video0.1"); while the recorder runs it borrows the  *)
(* recorder's server handle and a writer task (stream_protocol.c) sends    *)
(* the recorder's packets (NET_VIDEO_SHARE_CHANNEL).  Every switch between *)
(* the two tears the stream down and brings it up again around the         *)
(* recorder's start or stop.                                               *)
(*                                                                         *)
(* The events of the recorder, of the stream's server and of the devices   *)
(* are handled in the application's task, one after the other, but other   *)
(* threads call in as well, and no lock keeps them apart: the screen's     *)
(* task (the key K2), the callers of user_net_video_rec_open and _close,   *)
(* the net_video_server task.  They may come between any two calls a       *)
(* handler makes; one call into the recorder or the stream is one step.    *)
(*                                                                         *)
(* A C function is an operator from a state to the set of its outcomes     *)
(* [st, err]: one per way the calls it makes to the video server, the file *)
(* system, the memory and the thread library may end.                      *)
(***************************************************************************)
EXTENDS Integers, Sequences

CONSTANT Faults    \* the kinds of call that may fail

\* Stop of the recorder, start and stop of the stream's own channel, the rest,
\* a USB device that is removed among them.
FaultKinds == {"recStop", "ownStart", "ownStop", "other"}

ASSUME FaultsAssumption == Faults \subseteq FaultKinds

VARIABLES
    cam,      \* the recorder and the stream, see State
    calls,    \* the calls the handler of the application's task still makes
    ioctl,    \* net_video_server has stopped the stream, not yet closed it
    astray    \* history: how recorder and stream were switched apart

vars == <<cam, calls, ioctl, astray>>

(***************************************************************************)
(* rec     __this->state                    net     __this_net->net_state  *)
(* rh      __this->video_rec0               nh      net_video_rec: a       *)
(* file    __this->file[0] is open                  server of its own, or  *)
(* lost    an open file was overwritten             the recorder's handle  *)
(* open    __this_net->is_open              live    the handle on which    *)
(* art, vrt  audio and video are asked for          channel 1 is running   *)
(* task    the writer task is registered    orphan  an own server is open  *)
(* faults  the kinds of call that failed            and no one holds it    *)
(***************************************************************************)
State == [rec : {"idle", "start", "stop"}, rh : {"none", "open", "freed"},
          file : BOOLEAN, lost : BOOLEAN,
          open : BOOLEAN, art : BOOLEAN, vrt : BOOLEAN,
          net : {"idle", "starting", "start", "stoping", "stop"},
          nh : {"null", "own", "rec"}, live : {"off", "own", "rec"},
          orphan : BOOLEAN, task : BOOLEAN, faults : SUBSET FaultKinds]

Calls == {"video_rec_start", "video_rec_stop", "video_rec_control_doing",
          "net_video_rec_start", "net_video_rec_stop", "net_rt_video0_reopen"}

Init ==
    /\ cam = [rec |-> "idle", rh |-> "none", file |-> FALSE, lost |-> FALSE,
              open |-> FALSE, art |-> FALSE, vrt |-> FALSE, net |-> "idle",
              nh |-> "null", live |-> "off", orphan |-> FALSE,
              task |-> FALSE, faults |-> {}]
    /\ calls = <<>> /\ ioctl = FALSE /\ astray = {}

-----------------------------------------------------------------------------
(* Outcomes of C functions. *)

Ok(s) == {[st |-> s, err |-> FALSE]}
Fail(s) == {[st |-> s, err |-> TRUE]}

\* The call of this kind fails and leaves s as it is.
Fault(kind, s) ==
    IF kind \in Faults THEN Fail([s EXCEPT !.faults = @ \cup {kind}]) ELSE {}

\* R, then F whatever R returned: F's return value is the result.
Then(R, F(_)) == UNION {F(r.st) : r \in R}

\* R, then F if R succeeded.
OnOk(R, F(_)) == UNION {IF r.err THEN {r} ELSE F(r.st) : r \in R}

\* R, then F if R failed: the call as a whole has failed.
OnErr(R, F(_)) ==
    UNION {IF r.err THEN {[st |-> q.st, err |-> TRUE] : q \in F(r.st)} ELSE {r}
           : r \in R}

-----------------------------------------------------------------------------
(* video_rec.c: the recorder. *)

CloseFile(s) == [s EXCEPT !.file = FALSE]

video0_rec_stop(s) ==
    IF s.rh = "none"
    THEN Ok(CloseFile(s))
    ELSE Ok(CloseFile(s)) \cup Fault("recStop", s)

\* The state becomes stopped whatever the server answered.
video_rec_stop(s) ==
    IF s.rec # "start"
    THEN Ok(s)
    ELSE Then(video0_rec_stop(s), LAMBDA t : Ok([t EXCEPT !.rec = "stop"]))

\* The new file takes the place of the one still open, if any.
video_rec_del_old_file(s) ==
    Ok([s EXCEPT !.file = TRUE, !.lost = @ \/ s.file]) \cup Fault("other", s)

video0_rec_start(s) ==
    OnOk(IF s.rh = "none"
         THEN Ok([s EXCEPT !.rh = "open"]) \cup Fault("other", s)
         ELSE Ok(s),
         LAMBDA t : Ok([t EXCEPT !.rec = "start"]) \cup Fault("other", t))

\* A failed start of the recorder does not close the file.
video_rec_start_LeavesFile(s) ==
    Ok(s) \cup
    (IF s.rec = "start"
     THEN {}
     ELSE OnOk(video_rec_del_old_file(s), video0_rec_start))

\* Ok(s) when the recorder runs, and when the storage is not available.
video_rec_start(s) ==
    Ok(s) \cup
    (IF s.rec = "start"
     THEN {}
     ELSE OnOk(video_rec_del_old_file(s),
               LAMBDA t : OnErr(video0_rec_start(t), video0_rec_stop)))

video_rec_control_doing(s) ==
    IF s.rec = "start" THEN video_rec_stop(s) ELSE video_rec_start(s)

\* The next file of a cyclic recording; on an error the recorder stops.
video_rec_savefile(s) ==
    IF s.rec # "start"
    THEN Ok(s)
    ELSE OnErr(Ok([s EXCEPT !.file = TRUE])
                   \cup UNION {Fault("other", [s EXCEPT !.file = f]) : f \in BOOLEAN},
               LAMBDA t : Then(video0_rec_stop(t),
                               LAMBDA u : Ok([u EXCEPT !.rec = "stop"])))

-----------------------------------------------------------------------------
(* wifi/net_video_rec.c: the live stream. *)

stream_protocol_task_create(s) ==
    IF s.task THEN Ok(s) ELSE Ok([s EXCEPT !.task = TRUE]) \cup Fault("other", s)

\* Borrow the recorder's handle and start the writer task.
ShareChannel(s) ==
    LET t == [s EXCEPT !.nh = "rec", !.orphan = @ \/ s.nh = "own"]
    IN  OnOk(Ok(t) \cup Fault("other", t),
             LAMBDA u : {[r EXCEPT !.st.net = IF r.err THEN "stop" ELSE "start"]
                         : r \in stream_protocol_task_create(u)})

\* Open a server for the stream alone, or reuse the handle held, and start it.
OwnChannel(s) ==
    OnOk(IF s.nh = "null"
         THEN Ok([s EXCEPT !.nh = "own"]) \cup Fault("other", s)
         ELSE Ok(s),
         LAMBDA t : Ok([t EXCEPT !.live = t.nh]) \cup Fault("ownStart", t))

net_video_rec0_start(s) ==
    IF s.rec = "start" THEN ShareChannel(s) ELSE OwnChannel(s)

\* The stop keeps the handle in every case.
CloseHandle_Keeps(s) == s

\* server_close of the handle held; a borrowed one is the recorder's.
CloseHandle(s) ==
    [s EXCEPT !.nh = "null", !.rh = IF s.nh = "rec" THEN "freed" ELSE @]

net_video_rec0_stop(s, close) ==
    IF s.rec = "start"
    THEN Ok([s EXCEPT !.task = FALSE, !.nh = "null", !.net = "stop",
                      !.orphan = @ \/ s.nh = "own"])
    ELSE OnOk(Ok([s EXCEPT !.live = IF @ = s.nh THEN "off" ELSE @, !.net = "stop"])
                  \cup Fault("ownStop", [s EXCEPT !.net = "stoping"]),
              LAMBDA t : Ok(IF close THEN CloseHandle(t) ELSE t))

Wanted(s) == s.art \/ s.vrt

\* The part net_video_rec_start and net_video0_rec_start share.
StartStream(s) ==
    OnErr(OnOk(net_video_rec0_start(s),
               LAMBDA t : Ok([t EXCEPT !.net = "start"])),
          LAMBDA t : net_video_rec0_stop(t, FALSE))

\* Both begin with net_video_rec_alloc_buf, which may find no memory.
net_video0_rec_start(s) ==
    Fault("other", s) \cup
    (IF Wanted(s) THEN StartStream([s EXCEPT !.net = "starting"]) ELSE Ok(s))

net_video_rec_start(s) ==
    IF ~s.open
    THEN Ok(s)
    ELSE Fault("other", s) \cup
         (IF Wanted(s) /\ s.net # "start" THEN StartStream(s) ELSE Ok(s))

\* net_video0_rec_stop: the state is "stop" even when the request failed.
net_video0_rec_stop(s, close) ==
    {[r EXCEPT !.st.net = "stop"] : r \in net_video_rec0_stop(s, close)}

net_video_rec_stop(s) ==
    IF s.open /\ s.net = "start" THEN net_video0_rec_stop(s, TRUE) ELSE Ok(s)

\* net_rt_video0_open(NULL): bring up what the client still asks for.
net_rt_video0_reopen(s) ==
    IF s.open /\ Wanted(s) /\ s.net # "start" THEN net_video0_rec_start(s) ELSE Ok(s)

Marks == {"audio", "video", "both"}

net_rt_video0_open(s, mark) ==
    IF ~s.open
    THEN Ok(s)
    ELSE net_rt_video0_reopen([s EXCEPT !.art = mark # "video",
                                        !.vrt = mark # "audio"])

\* Closing one medium stops the stream only when the other is off too.
net_rt_video0_stop_ByMark(s, mark) ==
    IF ~s.open
    THEN Ok(s)
    ELSE LET t == [s EXCEPT !.art = @ /\ mark = "video",
                            !.vrt = @ /\ mark = "audio"]
         IN  IF t.net = "start" /\ ~Wanted(t) THEN net_video0_rec_stop(t, TRUE) ELSE Ok(t)

net_rt_video0_stop(s, mark) ==
    IF ~s.open
    THEN Ok(s)
    ELSE LET t == [s EXCEPT !.art = @ /\ mark = "video",
                            !.vrt = @ /\ mark = "audio"]
         IN  IF t.net = "start" THEN net_video0_rec_stop(t, TRUE) ELSE Ok(t)

Closed(s) == [s EXCEPT !.open = FALSE]

-----------------------------------------------------------------------------
(* The application's task: a handler reads the state when it starts and    *)
(* then makes its calls, each of which reads the state again.              *)

Outcomes(call, s) ==
    CASE call = "video_rec_start" -> video_rec_start(s)
      [] call = "video_rec_stop" -> video_rec_stop(s)
      [] call = "video_rec_control_doing" -> video_rec_control_doing(s)
      [] call = "net_video_rec_start" -> net_video_rec_start(s)
      [] call = "net_video_rec_stop" -> net_video_rec_stop(s)
      [] call = "net_rt_video0_reopen" -> net_rt_video0_reopen(s)

\* One call, or a handler of one call, ends in one of the outcomes R.
Become(R) == \E r \in R : cam' = r.st

\* The recorder alone is switched: the history notes it if the stream runs.
Switch(R) ==
    \E r \in R :
        /\ cam' = r.st
        /\ astray' = astray \cup
               (IF cam.net # "start" \/ (cam.rec = "start" <=> r.st.rec = "start")
                THEN {} ELSE {IF cam.rec = "start" THEN "stopped" ELSE "started"})

\* A handler that has one call to make, and one that has several.
AtOnce(R) == calls = <<>> /\ Become(R) /\ UNCHANGED <<calls, ioctl, astray>>
Begin(cs) == calls = <<>> /\ calls' = cs /\ UNCHANGED <<cam, ioctl, astray>>

Call ==
    /\ calls # <<>>
    /\ Become(Outcomes(Head(calls), cam))
    /\ calls' = Tail(calls)
    /\ UNCHANGED <<ioctl, astray>>

\* OPEN_RT_STREAM and CLOSE_RT_STREAM from the application.
OpenRtStream ==
    \E mark \in Marks : AtOnce(net_rt_video0_open([cam EXCEPT !.open = TRUE], mark))

CloseRtStream ==
    \E mark \in Marks :
        AtOnce(Then(net_rt_video0_stop(cam, mark), LAMBDA t : Ok(Closed(t))))

\* The stream stays up while the recorder starts.
ControlCalls_KeepsStream(s) ==
    IF s.rec = "start"
    THEN <<"net_video_rec_stop", "video_rec_control_doing", "net_video_rec_start">>
    ELSE <<"video_rec_start", "net_rt_video0_reopen">>

\* net_video_rec_control(0), where the storage is ready and fit; elsewhere it
\* calls nothing.
ControlCalls(s) ==
    IF s.rec = "start"
    THEN <<"net_video_rec_stop", "video_rec_control_doing", "net_video_rec_start">>
    ELSE <<"net_video_rec_stop", "video_rec_start", "net_rt_video0_reopen">>

\* ACTION_VIDEO_REC_CONCTRL, the phone's VIDEO_CTRL.  The application's own key
\* handler only asks the phone to send it.
RecControl == Begin(ControlCalls(cam))

\* The stream is not brought up again after the recorder has stopped.
StopAround_LeavesStreamDown == <<"net_video_rec_stop", "video_rec_stop">>

\* The recorder is stopped before the stream.
StopAround_RecorderFirst ==
    <<"video_rec_stop", "net_video_rec_stop", "net_rt_video0_reopen">>

\* rec_dev_server_event_handler: the recorder's server reports.
StopAround == <<"net_video_rec_stop", "video_rec_stop", "net_rt_video0_reopen">>

RecPkgErr ==
    /\ cam.rh # "none" /\ cam.rec = "start"
    /\ Begin(StopAround)

\* The end of a file when cyc > 0, and when it is not.
RecSaveFile ==
    /\ cam.rh # "none" /\ calls = <<>>
    /\ Switch(video_rec_savefile(cam))
    /\ UNCHANGED <<calls, ioctl>>

RecPkgEnd ==
    /\ cam.rh # "none"
    /\ Begin(StopAround)

\* net_rec_dev_server_event_handler: the stream's own server reports; its
\* PKG_END with cyc <= 0 toggles the recorder whatever its state.
OwnServerOpen == cam.nh = "own" \/ cam.orphan

OwnPkgErr ==
    /\ OwnServerOpen /\ cam.rec = "start"
    /\ Begin(ControlCalls(cam))

OwnPkgEnd ==
    /\ OwnServerOpen
    /\ Begin(ControlCalls(cam))

\* net_video_rec_device_event_handler: these switch the recorder alone.
ChargerIn ==
    /\ calls = <<>> /\ cam.rec # "start"
    /\ Switch(video_rec_start(cam))
    /\ UNCHANGED <<calls, ioctl>>

ChargerOut ==
    /\ calls = <<>> /\ cam.rec = "start"
    /\ Switch(video_rec_control_doing(cam))
    /\ UNCHANGED <<calls, ioctl>>

\* A USB device is gone: the recorder stops, then the stream, for good.
UsbOut ==
    /\ calls = <<>> /\ "other" \in Faults
    /\ LET s == [cam EXCEPT !.faults = @ \cup {"other"}]
       IN  Switch(IF s.rec = "start" THEN video_rec_control_doing(s) ELSE Ok(s))
    /\ calls' = <<"net_video_rec_stop">>
    /\ UNCHANGED ioctl

-----------------------------------------------------------------------------
(* The other threads: between any two of the calls above.                  *)

\* K2 on the camera's screen: the ui_demo task switches the recorder.
K2 ==
    /\ Switch(video_rec_control_doing(cam))
    /\ UNCHANGED <<calls, ioctl>>

\* user_net_video_rec_open(1) and user_net_video_rec_close(1).  "met": the
\* stream is brought up while a handler is between its calls.
UserOpen ==
    /\ ~cam.open
    /\ Become(OnErr(net_rt_video0_open([cam EXCEPT !.open = TRUE], "both"),
                    LAMBDA t : Ok(Closed(t))))
    /\ astray' = IF calls # <<>> /\ cam'.net = "start"
                 THEN astray \cup {"met"} ELSE astray
    /\ UNCHANGED <<calls, ioctl>>

UserClose ==
    /\ cam.open
    /\ Become(Then(net_rt_video0_stop(cam, "both"), LAMBDA t : Ok(Closed(t))))
    /\ UNCHANGED <<calls, ioctl, astray>>

\* NET_VIDREC_STA_STOP in the net_video_server task: the stream is stopped,
\* then marked closed.  "closed": it was brought up again in between.
IoctlStop ==
    /\ ~ioctl /\ ioctl' = TRUE
    /\ Become(net_video_rec_stop(cam))
    /\ UNCHANGED <<calls, astray>>

IoctlClose ==
    /\ ioctl /\ ioctl' = FALSE
    /\ cam' = Closed(cam)
    /\ astray' = IF cam.net = "start" THEN astray \cup {"closed"} ELSE astray
    /\ UNCHANGED calls

Next ==
    \/ Call \/ OpenRtStream \/ CloseRtStream \/ RecControl
    \/ RecPkgErr \/ RecSaveFile \/ RecPkgEnd \/ OwnPkgErr \/ OwnPkgEnd
    \/ ChargerIn \/ ChargerOut \/ UsbOut
    \/ K2 \/ UserOpen \/ UserClose \/ IoctlStop \/ IoctlClose

Spec == Init /\ [][Next]_vars

-----------------------------------------------------------------------------
(* Properties. *)

\* Nobody has started, or stopped, the recorder under a running stream.  The
\* charger, K2, a file change that fails and a removed USB device do, and so may
\* a handler, when another thread has opened the stream between its calls or
\* marked it closed while it ran.
NotStartedUnder == astray \cap {"started", "met", "closed"} = {}
NotStoppedUnder == astray \cap {"stopped", "met", "closed"} = {}

\* Every variable has its type.
TypeOK ==
    /\ cam \in State /\ calls \in Seq(Calls) /\ ioctl \in BOOLEAN
    /\ astray \subseteq {"started", "stopped", "met", "closed"}

\* What runs, runs for a client: a stream that is up has a client that opened
\* it and asks for audio or video, unless net_video_server closed it blindly;
\* the channel runs only under a stream that is up, unless the request to stop
\* it was refused or the recorder was started under it; and the writer task
\* only under one, unless the recorder was stopped under it.
RunsOnlyIfWanted ==
    /\ cam.net = "start" => (cam.open /\ Wanted(cam)) \/ "closed" \in astray
    /\ cam.live # "off" =>
           cam.net = "start" \/ "ownStop" \in cam.faults \/ ~NotStartedUnder
    /\ cam.task => cam.net = "start" \/ ~NotStoppedUnder

\* As long as no call has failed and no USB device was removed, the stream a
\* client asks for runs whenever no handler is between its calls: no switch of
\* the recorder, by whichever thread and between whichever calls, forgets to
\* bring it up again.
ComesBack ==
    cam.faults = {} /\ calls = <<>> /\ ~ioctl
        => (cam.open /\ Wanted(cam) => cam.net = "start")

\* The handle and the writer task follow the recorder, whatever fails: a running
\* stream borrows the recorder's handle, with the writer task, exactly while the
\* recorder runs; a stopped one has given both back.  Until the recorder is
\* switched under the stream: a switch that comes between two calls of a handler
\* with the stream down is put right by the handler's last call.
SharesWhileRecording ==
    NotStartedUnder /\ NotStoppedUnder =>
        /\ cam.net = "start" =>
               IF cam.rec = "start"
               THEN cam.nh = "rec" /\ cam.task /\ cam.rh = "open"
               ELSE cam.nh = "own" /\ cam.live = "own" /\ ~cam.task
        /\ cam.net # "start" => cam.nh # "rec" /\ ~cam.task

\* The recorder and a channel of the stream run together only after the request
\* that stops the channel was refused, or the recorder was started under it.
OneChannel ==
    cam.rec = "start" /\ cam.live # "off" =>
        "ownStop" \in cam.faults \/ ~NotStartedUnder

\* A recording that is still open is overwritten only after the request that
\* stops the recorder has failed.
NoFileLost == cam.lost => "recStop" \in cam.faults

\* The stream's own server is left open with nobody to close it only after a
\* request to it was refused, or the recorder was started under the stream.
NoServerLost ==
    cam.orphan => cam.faults \cap {"ownStart", "ownStop"} # {} \/ ~NotStartedUnder

\* The stream never closes the recorder's server, unless the recorder was
\* stopped under it: the recorder would go on with a handle that is freed.
HandleKept == cam.rh = "freed" => ~NotStoppedUnder

\* net_video_rec.c:609, at the call that starts a recording: "before recording
\* starts the live stream must be closed".
StreamClosedFirst ==
    [][cam.rec # "start" /\ cam'.rec = "start" /\ cam.net = "start"
           => cam'.live = "off"]_vars
=============================================================================
