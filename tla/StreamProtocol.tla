--------------------------- MODULE StreamProtocol ---------------------------
(***************************************************************************)
(* The live-stream writer of wifi/stream_protocol.c.                       *)
(*                                                                         *)
(* Three threads share one global structure, strm_ptl:                     *)
(*                                                                         *)
(*   - the video server calls stream_packet_cb for every encoded frame;    *)
(*     the callback copies it into the slot of its medium (video or audio) *)
(*     and posts the semaphore;                                            *)
(*   - stream_protocol_task waits on the semaphore, writes the filled      *)
(*     slots to the stream and frees them;                                 *)
(*   - the controlling thread runs stream_protocol_task_create and         *)
(*     stream_protocol_task_kill.                                          *)
(*                                                                         *)
(* Time is abstracted: a timeout of the code (10 ticks in os_sem_pend, 20  *)
(* in the drain loop, 100 in create) may expire at any moment its wait has *)
(* not ended.  Frame contents are reduced to a sequence number per medium. *)
(***************************************************************************)
EXTENDS Naturals

CONSTANTS
    Delivered,    \* the media the video server delivers to the callback
    MaxSessions,  \* bound on the number of task creations
    MaxFrames,    \* bound on the frames accepted per medium and session
    MayStraddle   \* may create run while a callback is in flight? (nothing
                  \* in the code excludes it; FALSE narrows an instance)

Slots == {"video", "audio"}

ASSUME DeliveredAssumption == Delivered \subseteq Slots
ASSUME BoundsAssumption == MaxSessions \in Nat /\ MaxFrames \in Nat
ASSUME StraddleAssumption == MayStraddle \in BOOLEAN

VARIABLES
    init, err, kill, copy,  \* the flags of strm_ptl_info
    use,        \* use[m]: vd_use and ad_use
    sem,        \* the count of strm_ptl->sem
    semvalid,   \* os_sem_valid(&strm_ptl->sem)
    fd,         \* is the stream open?
    pk,         \* pk[m]: video_pkbuff and audio_pkbuff, see PkStates
    spc, smed,  \* the server's position in stream_packet_cb, its medium
    wpc, wmed,  \* the writer task's position, the slot it serves
    cpc,        \* the controlling thread's position
    session,    \* how many tasks were forked
    accepted,   \* accepted[m]: frames put into the slot in this session
    wire,       \* wire[m]: the last frame of m handed to stream_write
    straddled   \* create ran while a callback was in flight

flagVars == <<init, err, kill, copy, use>>
resVars  == <<sem, semvalid, fd, pk>>
ghosts   == <<session, accepted, wire, straddled>>
vars == <<init, err, kill, copy, use, sem, semvalid, fd, pk, spc, smed,
          wpc, wmed, cpc, session, accepted, wire, straddled>>

(* A packet buffer: not allocated, allocated, while memcpy runs, and when  *)
(* it holds a complete frame.                                              *)
PkStates == {"null", "raw", "part", "full"}

SPcs == {"idle", "check", "mark", "fill", "finish", "post"}
WLoop == {"pend", "woken", "timedout", "both", "test", "write", "clear"}
WPcs == {"dead", "start", "alloc", "open", "exit", "drain", "free"} \cup WLoop
CPcs == {"idle", "wait", "post", "join", "clrinit", "clrkill"}

Init ==
    /\ init = FALSE /\ err = FALSE /\ kill = FALSE /\ copy = FALSE
    /\ use = [m \in Slots |-> FALSE]
    /\ sem = 0 /\ semvalid = FALSE /\ fd = FALSE
    /\ pk = [m \in Slots |-> "null"]
    /\ spc = "idle" /\ smed = "video"
    /\ wpc = "dead" /\ wmed = "video"
    /\ cpc = "idle"
    /\ session = 0
    /\ accepted = [m \in Slots |-> 0]
    /\ wire = [m \in Slots |-> 0]
    /\ straddled = FALSE

(* os_sem_post; on a deleted semaphore nothing is counted.                 *)
Post == sem' = IF semvalid THEN sem + 1 ELSE sem

-----------------------------------------------------------------------------
(* stream_packet_cb, in the video server's thread.                         *)

(* The guard of the callback; a frame refused here changes nothing.        *)
CbEnter(m) ==
    /\ spc = "idle"
    /\ init /\ ~err /\ ~kill
    /\ accepted[m] < MaxFrames
    /\ spc' = "check" /\ smed' = m
    /\ UNCHANGED <<flagVars, resVars, wpc, wmed, cpc, ghosts>>


(* Mutant: the busy test is dropped.                                       *)
CbCheckOverwrites ==
    /\ spc = "check"
    /\ spc' = IF ~kill THEN "mark" ELSE "idle"
    /\ UNCHANGED <<flagVars, resVars, smed, wpc, wmed, cpc, ghosts>>

(* The second test; a frame that finds its slot busy is dropped silently.  *)
CbCheck ==
    /\ spc = "check"
    /\ spc' = IF ~use[smed] /\ ~kill THEN "mark" ELSE "idle"
    /\ UNCHANGED <<flagVars, resVars, smed, wpc, wmed, cpc, ghosts>>


(* Mutant: the semaphore is posted before the copy.                        *)
CbMarkPosts ==
    /\ spc = "mark"
    /\ copy' = TRUE
    /\ use' = [use EXCEPT ![smed] = TRUE]
    /\ accepted' = [accepted EXCEPT ![smed] = @ + 1]
    /\ Post
    /\ spc' = "fill"
    /\ UNCHANGED <<init, err, kill, semvalid, fd, pk, smed, wpc, wmed, cpc,
                   session, wire, straddled>>

CbMark ==
    /\ spc = "mark"
    /\ copy' = TRUE
    /\ use' = [use EXCEPT ![smed] = TRUE]
    /\ accepted' = [accepted EXCEPT ![smed] = @ + 1]
    /\ spc' = "fill"
    /\ UNCHANGED <<init, err, kill, resVars, smed, wpc, wmed, cpc, session,
                   wire, straddled>>

(* memcpy begins; into a buffer already freed it changes no buffer.        *)
CbFill ==
    /\ spc = "fill"
    /\ pk' = [pk EXCEPT ![smed] = IF @ = "null" THEN @ ELSE "part"]
    /\ spc' = "finish"
    /\ UNCHANGED <<flagVars, sem, semvalid, fd, smed, wpc, wmed, cpc, ghosts>>

CbFinish ==
    /\ spc = "finish"
    /\ pk' = [pk EXCEPT ![smed] = IF @ = "part" THEN "full" ELSE @]
    /\ copy' = FALSE
    /\ spc' = "post"
    /\ UNCHANGED <<init, err, kill, use, sem, semvalid, fd, smed, wpc, wmed,
                   cpc, ghosts>>

CbPost ==
    /\ spc = "post"
    /\ Post
    /\ spc' = "idle"
    /\ UNCHANGED <<flagVars, semvalid, fd, pk, smed, wpc, wmed, cpc, ghosts>>

CbStep == CbCheck \/ CbMark \/ CbFill \/ CbFinish \/ CbPost

-----------------------------------------------------------------------------
(* stream_protocol_task.                                                   *)

TaskStart ==
    /\ wpc = "start"
    /\ sem' = 0 /\ semvalid' = TRUE
    /\ wpc' = "alloc"
    /\ UNCHANGED <<flagVars, fd, pk, spc, smed, wmed, cpc, ghosts>>

(* Both buffers, or only the video buffer, or none.                        *)
TaskAlloc ==
    /\ wpc = "alloc"
    /\ \/ /\ pk' = [m \in Slots |-> "raw"]
          /\ wpc' = "open" /\ UNCHANGED err
       \/ /\ \E got \in {{}, {"video"}} :
                pk' = [m \in Slots |-> IF m \in got THEN "raw" ELSE pk[m]]
          /\ wpc' = "exit" /\ err' = TRUE
    /\ UNCHANGED <<init, kill, copy, use, sem, semvalid, fd, spc, smed, wmed,
                   cpc, ghosts>>

(* stream_open, then init = true and into the loop, or the error exit.     *)
TaskOpen ==
    /\ wpc = "open"
    /\ \/ fd' = TRUE /\ init' = TRUE /\ wpc' = "pend" /\ UNCHANGED err
       \/ fd' = FALSE /\ err' = TRUE /\ wpc' = "exit" /\ UNCHANGED init
    /\ UNCHANGED <<kill, copy, use, sem, semvalid, pk, spc, smed, wmed, cpc,
                   ghosts>>


(* Mutant: a pend without the timeout.                                     *)
TaskPendForever ==
    /\ wpc = "pend" /\ sem > 0
    /\ sem' = sem - 1 /\ wpc' = "woken"
    /\ UNCHANGED <<flagVars, semvalid, fd, pk, spc, smed, wmed, cpc, ghosts>>

(* os_sem_pend(&sem, 10): a token, or the timeout.                         *)
TaskPend ==
    /\ wpc = "pend"
    /\ IF sem > 0
       THEN sem' = sem - 1 /\ wpc' = "woken"
       ELSE sem' = sem /\ wpc' = "timedout"
    /\ UNCHANGED <<flagVars, semvalid, fd, pk, spc, smed, wmed, cpc, ghosts>>

TaskCheckKill ==
    /\ wpc \in {"woken", "timedout"}
    /\ wpc' = IF kill THEN "exit" ELSE IF wpc = "woken" THEN "both" ELSE "pend"
    /\ UNCHANGED <<flagVars, resVars, spc, smed, wmed, cpc, ghosts>>

(* With both slots in use the pending tokens are dropped.                  *)
TaskBoth ==
    /\ wpc = "both"
    /\ sem' = IF \A m \in Slots : use[m] THEN 0 ELSE sem
    /\ wpc' = "test" /\ wmed' = "video"
    /\ UNCHANGED <<flagVars, semvalid, fd, pk, spc, smed, cpc, ghosts>>

TaskTest ==
    /\ wpc = "test"
    /\ wpc' = IF use[wmed] THEN "write" ELSE "clear"
    /\ UNCHANGED <<flagVars, resVars, spc, smed, wmed, cpc, ghosts>>

(* stream_protocol_write returns 0 on failure: err is set and the task     *)
(* leaves its loop with init still set.                                    *)
TaskWrite ==
    /\ wpc = "write"
    /\ \/ /\ wire' = [wire EXCEPT ![wmed] = accepted[wmed]]
          /\ wpc' = "clear" /\ UNCHANGED err
       \/ err' = TRUE /\ wpc' = "exit" /\ UNCHANGED wire
    /\ UNCHANGED <<init, kill, copy, use, resVars, spc, smed, wmed, cpc,
                   session, accepted, straddled>>


(* Mutants: the tokens are dropped when the round ends; the audio slot is  *)
(* not freed.                                                              *)
TaskClearDropsTokens ==
    /\ wpc = "clear"
    /\ use' = [use EXCEPT ![wmed] = FALSE]
    /\ wmed' = "audio"
    /\ wpc' = IF wmed = "video" THEN "test" ELSE "pend"
    /\ sem' = IF wmed = "video" THEN sem ELSE 0
    /\ UNCHANGED <<init, err, kill, copy, semvalid, fd, pk, spc, smed, cpc,
                   ghosts>>

TaskClearVideoOnly ==
    /\ wpc = "clear"
    /\ use' = [use EXCEPT !["video"] = FALSE]
    /\ wmed' = "audio"
    /\ wpc' = IF wmed = "video" THEN "test" ELSE "pend"
    /\ UNCHANGED <<init, err, kill, copy, resVars, spc, smed, cpc, ghosts>>

TaskClear ==
    /\ wpc = "clear"
    /\ use' = [use EXCEPT ![wmed] = FALSE]
    /\ wmed' = "audio"
    /\ wpc' = IF wmed = "video" THEN "test" ELSE "pend"
    /\ UNCHANGED <<init, err, kill, copy, resVars, spc, smed, cpc, ghosts>>

TaskExit ==
    /\ wpc = "exit"
    /\ kill' = TRUE
    /\ wpc' = "drain"
    /\ UNCHANGED <<init, err, copy, use, resVars, spc, smed, wmed, cpc, ghosts>>

(* Waits while copy is set, at most 20 ticks: the wait may end either way. *)
TaskDrain ==
    /\ wpc = "drain"
    /\ wpc' = "free"
    /\ UNCHANGED <<flagVars, resVars, spc, smed, wmed, cpc, ghosts>>

TaskFree ==
    /\ wpc = "free"
    /\ fd' = FALSE
    /\ pk' = [m \in Slots |-> "null"]
    /\ semvalid' = FALSE
    /\ wpc' = "dead"
    /\ UNCHANGED <<flagVars, sem, spc, smed, wmed, cpc, ghosts>>

TaskStep ==
    \/ TaskStart \/ TaskAlloc \/ TaskOpen \/ TaskPend \/ TaskCheckKill
    \/ TaskBoth \/ TaskTest \/ TaskWrite \/ TaskClear
    \/ TaskExit \/ TaskDrain \/ TaskFree

-----------------------------------------------------------------------------
(* stream_protocol_task_create and stream_protocol_task_kill.              *)

(* create when no task is registered: the fields are reset and the thread  *)
(* forked; thread_fork may fail.  With init set it returns 0 at once.      *)
Create ==
    /\ cpc = "idle" /\ ~init
    /\ session < MaxSessions
    /\ MayStraddle \/ spc = "idle"
    /\ straddled' = (straddled \/ spc # "idle")
    /\ kill' = FALSE /\ err' = FALSE
    /\ use' = [m \in Slots |-> FALSE]
    /\ fd' = FALSE
    /\ accepted' = [m \in Slots |-> 0]
    /\ wire' = [m \in Slots |-> 0]
    /\ session' = session + 1
    /\ \/ wpc' = "start" /\ cpc' = "wait"
       \/ wpc' = wpc /\ cpc' = "idle"
    /\ UNCHANGED <<init, copy, sem, semvalid, pk, spc, smed, wmed>>

(* The wait loop of create: success, a failed start, or 100 ticks gone.    *)
CreateReturn ==
    /\ cpc = "wait" /\ init /\ ~err
    /\ cpc' = "idle"
    /\ UNCHANGED <<flagVars, resVars, spc, smed, wpc, wmed, ghosts>>

CreateFail ==
    /\ cpc = "wait" /\ (err \/ ~init)
    /\ kill' = TRUE
    /\ cpc' = "post"
    /\ UNCHANGED <<init, err, copy, use, resVars, spc, smed, wpc, wmed, ghosts>>

Kill ==
    /\ cpc = "idle" /\ init
    /\ kill' = TRUE
    /\ cpc' = "post"
    /\ UNCHANGED <<init, err, copy, use, resVars, spc, smed, wpc, wmed, ghosts>>

KillPost ==
    /\ cpc = "post"
    /\ Post
    /\ cpc' = "join"
    /\ UNCHANGED <<flagVars, semvalid, fd, pk, spc, smed, wpc, wmed, ghosts>>


(* Mutant: thread_kill does not wait.                                      *)
KillJoinNoWait ==
    /\ cpc = "join"
    /\ cpc' = "clrinit"
    /\ UNCHANGED <<flagVars, resVars, spc, smed, wpc, wmed, ghosts>>

(* thread_kill(&pid, KILL_WAIT) returns when the task has ended.           *)
KillJoin ==
    /\ cpc = "join" /\ wpc = "dead"
    /\ cpc' = "clrinit"
    /\ UNCHANGED <<flagVars, resVars, spc, smed, wpc, wmed, ghosts>>

KillClearInit ==
    /\ cpc = "clrinit"
    /\ init' = FALSE
    /\ cpc' = "clrkill"
    /\ UNCHANGED <<err, kill, copy, use, resVars, spc, smed, wpc, wmed, ghosts>>

KillClearKill ==
    /\ cpc = "clrkill"
    /\ kill' = FALSE
    /\ cpc' = "idle"
    /\ UNCHANGED <<init, err, copy, use, resVars, spc, smed, wpc, wmed, ghosts>>

ControlStep ==
    \/ CreateReturn \/ CreateFail \/ KillPost \/ KillJoin
    \/ KillClearInit \/ KillClearKill

Next ==
    \/ \E m \in Delivered : CbEnter(m)
    \/ CbStep
    \/ TaskStep
    \/ Create \/ Kill \/ ControlStep

Spec == Init /\ [][Next]_vars

(* Every thread that is inside one of its functions is scheduled again;    *)
(* nothing obliges the server to deliver a frame or the application to     *)
(* start or stop the stream.                                               *)
Fairness == WF_vars(CbStep) /\ WF_vars(TaskStep) /\ WF_vars(ControlStep)
FairSpec == Spec /\ Fairness

-----------------------------------------------------------------------------
(* The type of every variable of the writer and its callers.               *)
TypeOK ==
    /\ init \in BOOLEAN /\ err \in BOOLEAN /\ kill \in BOOLEAN
    /\ copy \in BOOLEAN /\ semvalid \in BOOLEAN /\ fd \in BOOLEAN
    /\ use \in [Slots -> BOOLEAN]
    /\ sem \in Nat
    /\ pk \in [Slots -> PkStates]
    /\ spc \in SPcs /\ smed \in Slots
    /\ wpc \in WPcs /\ wmed \in Slots
    /\ cpc \in CPcs
    /\ session \in Nat
    /\ accepted \in [Slots -> Nat] /\ wire \in [Slots -> Nat]
    /\ straddled \in BOOLEAN

(* The callback's guard (init set, err and kill clear) is open only while  *)
(* the task is inside its loop, buffers allocated and stream open: a       *)
(* callback that begins during start, error exit, kill or after the kill   *)
(* returned is refused.  It rests on the order of the flag stores in all   *)
(* three threads.                                                          *)
GuardOpenInLoop ==
    init /\ ~err /\ ~kill =>
        /\ wpc \in WLoop
        /\ fd /\ semvalid
        /\ \A m \in Slots : pk[m] # "null"

(* When no create or kill is in progress and init is clear, the task has   *)
(* ended and holds neither stream, buffers nor semaphore: the next create  *)
(* never starts a second task over the global structure and leaks nothing. *)
NothingHeldWhenClosed ==
    cpc = "idle" /\ ~init =>
        /\ wpc = "dead" /\ ~kill
        /\ ~fd /\ ~semvalid
        /\ \A m \in Slots : pk[m] = "null"

(* The server is between taking the slot of m and posting the semaphore.   *)
InCopy(m) == spc \in {"fill", "finish", "post"} /\ smed = m

(* No lost wake-up, until a create meets a callback in flight: a task      *)
(* about to wait while a slot is in use finds a token, or the callback     *)
(* that filled the slot is still going to post one; dropping the tokens    *)
(* when both slots are in use never strands a frame.                       *)
NoLostWakeup ==
    ~straddled /\ wpc = "pend" =>
        \A m \in Slots : use[m] => sem > 0 \/ InCopy(m)

(* With a single medium the slot is handed over exactly, until a create    *)
(* meets a callback in flight: the task writes only a complete frame the   *)
(* server no longer touches, and every accepted frame, once and in order.  *)
(* (With both media a token of one medium wakes the task in the middle of  *)
(* the other's copy.)                                                      *)
HandOff ==
    ~straddled => \A m \in Delivered : Delivered = {m} =>
        /\ wpc = "write" /\ wmed = m =>
              pk[m] = "full" /\ ~InCopy(m) /\ wire[m] + 1 = accepted[m]
        /\ wpc \in WLoop /\ ~use[m] => wire[m] = accepted[m]

(* A create or kill that has begun returns: the task always notices the    *)
(* kill flag, even when its token was dropped by the both-slots reset.     *)
ControlReturns == cpc # "idle" ~> cpc = "idle"

(* A frame in a slot does not stay there: the task frees the slot or ends, *)
(* unless a create met a callback in flight, whose mark may come without   *)
(* its token.                                                              *)
SlotServed ==
    \A m \in Slots : (wpc \in WLoop /\ use[m])
                      ~> (straddled \/ ~use[m] \/ wpc \notin WLoop)

(* The medium of a stream that has one, and the one-place channel a stream *)
(* of one medium is: open while the task serves its slot.                  *)
Medium == CHOOSE m \in Delivered : TRUE

Channel == INSTANCE SlotChannel WITH
              open <- wpc \in WLoop,
              sent <- accepted[Medium],
              received <- wire[Medium]

(* A stream of one medium implements the one-place channel: nothing is     *)
(* lost, doubled or reordered between acceptance and the wire.             *)
ImplementsChannel == Channel!Spec

=============================================================================
