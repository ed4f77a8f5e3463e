------------------------------ MODULE Playback ------------------------------
(***************************************************************************)
(* Playback of a recorded file to a phone (wifi/video_playback.c).  Each   *)
(* request forks a thread that waits for a connection on the service's     *)
(* port, enters a session into the client list and forks the session's     *)
(* thread, which sends the file until it ends, fails or is killed.  The    *)
(* application's task pauses, resumes and kills sessions through the list. *)
(* The list and the end of a session are protected by the mutex, held for  *)
(* one action each; the session's thread reads stop and kill_flag without  *)
(* it.                                                                     *)
(***************************************************************************)
EXTENDS Integers, Sequences, FiniteSets

CONSTANTS
    Phones,
    None,
    MaxSessions,     \* bound on the number of requests
    MaxPosts,        \* bound on the commands that post a semaphore
    PauseAfterStop   \* a phone may pause a session it has stopped

ASSUME PhonesAssumption == None \notin Phones
ASSUME BoundsAssumption == MaxSessions \in Nat /\ MaxPosts \in Nat
ASSUME PauseAssumption == PauseAfterStop \in BOOLEAN

Sessions == 1..MaxSessions

VARIABLES
    listen,   \* the service's socket is registered
    backlog,  \* the connections nobody has accepted
    asked,    \* the requests so far
    dialed,   \* the connections so far
    pc,       \* of a session's threads, see Stages
    peer,     \* cli->remote_addr
    list,     \* playback_info.cli_head
    stop, kill, sem,  \* cli->stop, cli->kill_flag, cli->sem
    posts,    \* the posts of commands so far
    gone,     \* the phones that have left
    late,     \* frames a session sent since it was paused
    held      \* tokens its semaphore held when it was paused

flags == <<stop, kill, sem, posts, late, held>>
net == <<listen, backlog, asked, dialed>>
vars == <<net, pc, peer, list, flags, gone>>

\* The session's thread.
Playing == {"load", "top", "pend", "test", "send", "next", "first", "exit"}
Stages == {"none", "select", "accept", "add", "fork", "over", "freed", "gone"} \cup Playing

TypeOK ==
    /\ listen \in BOOLEAN /\ backlog \in Seq(Phones)
    /\ asked \in 0..MaxSessions /\ dialed \in 0..MaxSessions
    /\ pc \in [Sessions -> Stages]
    /\ peer \in [Sessions -> Phones \cup {None}]
    /\ list \in Seq(Sessions)
    /\ stop \in [Sessions -> BOOLEAN] /\ kill \in [Sessions -> BOOLEAN]
    /\ sem \in [Sessions -> Nat] /\ posts \in 0..MaxPosts
    /\ gone \subseteq Phones
    /\ late \in [Sessions -> Nat] /\ held \in [Sessions -> Nat]

Init ==
    /\ listen = TRUE /\ backlog = <<>> /\ asked = 0 /\ dialed = 0
    /\ pc = [s \in Sessions |-> "none"]
    /\ peer = [s \in Sessions |-> None]
    /\ list = <<>>
    /\ stop = [s \in Sessions |-> FALSE] /\ kill = [s \in Sessions |-> FALSE]
    /\ sem = [s \in Sessions |-> 0] /\ posts = 0
    /\ gone = {}
    /\ late = [s \in Sessions |-> 0] /\ held = [s \in Sessions |-> 0]

Goto(s, stage) == pc' = [pc EXCEPT ![s] = stage]

-----------------------------------------------------------------------------
(* A request and its accepting thread. *)

\* TIME_AXIS_PLAY: the request is copied for a new thread.
video_playback_post_msg ==
    /\ Phones # gone
    /\ asked < MaxSessions
    /\ asked' = asked + 1
    /\ Goto(asked + 1, "select")
    /\ UNCHANGED <<listen, backlog, dialed, peer, list, flags, gone>>

\* A phone connects to the service, once per request.
Dial(p) ==
    /\ p \notin gone
    /\ dialed < asked
    /\ dialed' = dialed + 1
    /\ backlog' = Append(backlog, p)
    /\ UNCHANGED <<listen, asked, pc, peer, list, flags, gone>>

\* sock_select: a connection is there, or five seconds have passed, or the
\* socket is no longer registered.
Select(s) ==
    /\ pc[s] = "select"
    /\ \/ listen /\ backlog # <<>> /\ Goto(s, "accept")
       \/ ~listen /\ Goto(s, "over")
       \/ backlog = <<>> /\ Goto(s, "over")
    /\ UNCHANGED <<net, peer, list, flags, gone>>

\* sock_accept waits: another request may have taken the connection.
Accept(s) ==
    /\ pc[s] = "accept"
    /\ listen /\ backlog # <<>>
    /\ peer' = [peer EXCEPT ![s] = Head(backlog)]
    /\ backlog' = Tail(backlog)
    /\ Goto(s, "add")
    /\ UNCHANGED <<listen, asked, dialed, list, flags, gone>>

\* err1, no memory or no socket: the service's socket is given up.
AcceptFails(s) ==
    /\ pc[s] = "accept"
    /\ listen' = FALSE
    /\ Goto(s, "over")
    /\ UNCHANGED <<backlog, asked, dialed, peer, list, flags, gone>>

AddToList(s) ==
    /\ pc[s] = "add"
    /\ list' = Append(list, s)
    /\ Goto(s, "fork")
    /\ UNCHANGED <<net, peer, flags, gone>>

\* A session whose thread cannot be forked is freed where it stands.
Fork(s) ==
    /\ pc[s] = "fork"
    /\ \/ Goto(s, "load") /\ UNCHANGED listen
       \/ Goto(s, "freed") /\ listen' = FALSE
    /\ UNCHANGED <<backlog, asked, dialed, peer, list, flags, gone>>

-----------------------------------------------------------------------------
(* The session's thread (video_playback_cli_thread). *)

OwnStep(s) == UNCHANGED <<net, peer, list, stop, kill, posts, held, gone>>

\* The file is opened and its header sent; each step may fail.
Load(s) ==
    /\ pc[s] = "load"
    /\ Goto(s, "top") \/ Goto(s, "exit")
    /\ OwnStep(s) /\ UNCHANGED <<sem, late>>

Top(s) ==
    /\ pc[s] = "top"
    /\ Goto(s, IF stop[s] THEN "pend" ELSE "test")
    /\ OwnStep(s) /\ UNCHANGED <<sem, late>>

\* os_sem_pend takes a token, whether a resume, a stop or an earlier resume
\* left it.
Pend(s) ==
    /\ pc[s] = "pend"
    /\ sem[s] > 0
    /\ sem' = [sem EXCEPT ![s] = @ - 1]
    /\ Goto(s, "test")
    /\ OwnStep(s) /\ UNCHANGED late

Test(s) ==
    /\ pc[s] = "test"
    /\ Goto(s, IF kill[s] THEN "exit" ELSE "send")
    /\ OwnStep(s) /\ UNCHANGED <<sem, late>>

\* Mutant: the result of the send is not looked at.
Send_IgnoresError(s) ==
    /\ pc[s] \in {"send", "first"}
    /\ Goto(s, "top") \/ (pc[s] = "send" /\ Goto(s, "next"))
    /\ OwnStep(s) /\ UNCHANGED <<sem, late>>

\* A frame is sent; or the file is at its end (a new file has a first
\* frame); or the socket fails, as it does once the phone has left.
Send(s) ==
    /\ pc[s] \in {"send", "first"}
    /\ \/ /\ peer[s] \notin gone
          /\ Goto(s, "top")
          /\ late' = [late EXCEPT ![s] = IF stop[s] THEN @ + 1 ELSE 0]
       \/ pc[s] = "send" /\ Goto(s, "next") /\ UNCHANGED late
       \/ Goto(s, "exit") /\ UNCHANGED late
    /\ OwnStep(s) /\ UNCHANGED sem

\* After the pause between two files kill_flag is tested again.
NextFile(s) ==
    /\ pc[s] = "next"
    /\ Goto(s, "exit") \/ (~kill[s] /\ Goto(s, "first"))
    /\ OwnStep(s) /\ UNCHANGED <<sem, late>>

Without(l, i) == SubSeq(l, 1, i - 1) \o SubSeq(l, i + 1, Len(l))
list_del(s) == \E i \in DOMAIN list : list[i] = s /\ list' = Without(list, i)

\* Mutant: a killed session leaves its entry to the one who killed it.
Exit_KilledStays(s) ==
    /\ pc[s] = "exit"
    /\ IF kill[s] THEN UNCHANGED list ELSE list_del(s)
    /\ Goto(s, "gone")
    /\ UNCHANGED <<net, peer, flags, gone>>

\* The entry is removed and the session freed in one critical section.
Exit(s) ==
    /\ pc[s] = "exit"
    /\ list_del(s)
    /\ Goto(s, "gone")
    /\ UNCHANGED <<net, peer, flags, gone>>

-----------------------------------------------------------------------------
(* The commands of the application's task. *)

\* The first session of a phone, in list order.
Of(p) == {i \in DOMAIN list : peer[list[i]] = p}
First(p) == {list[i] : i \in {j \in Of(p) : \A k \in Of(p) : j <= k}}

\* Mutant: pausing posts the semaphore as resuming does.
playback_cli_pause_Posts(p) ==
    /\ p \notin gone
    /\ \E s \in First(p) :
         /\ PauseAfterStop \/ ~kill[s]
         /\ ~stop[s]
         /\ stop' = [stop EXCEPT ![s] = TRUE]
         /\ sem' = [sem EXCEPT ![s] = @ + 1]
         /\ late' = [late EXCEPT ![s] = 0]
         /\ held' = [held EXCEPT ![s] = sem[s]]
    /\ UNCHANGED <<net, pc, peer, list, kill, posts, gone>>

\* The session's thread sees the flag when it is back at the top.
playback_cli_pause(p) ==
    /\ p \notin gone
    /\ \E s \in First(p) :
         /\ PauseAfterStop \/ ~kill[s]
         /\ stop' = [stop EXCEPT ![s] = TRUE]
         /\ late' = [late EXCEPT ![s] = IF stop[s] THEN @ ELSE 0]
         /\ held' = [held EXCEPT ![s] = IF stop[s] THEN @ ELSE sem[s]]
    /\ UNCHANGED <<net, pc, peer, list, kill, sem, posts, gone>>

\* The semaphore is posted whether or not the session is paused.
playback_cli_continue(p) ==
    /\ p \notin gone
    /\ posts < MaxPosts
    /\ posts' = posts + 1
    /\ \E s \in First(p) :
         /\ stop' = [stop EXCEPT ![s] = FALSE]
         /\ sem' = [sem EXCEPT ![s] = @ + 1]
         /\ late' = [late EXCEPT ![s] = 0]
    /\ UNCHANGED <<net, pc, peer, list, kill, held, gone>>

\* Mutant: a paused session is not woken.
playback_disconnect_cli_NoPost(p) ==
    IF list # <<>> /\ peer[Head(list)] = p
    THEN kill' = [kill EXCEPT ![Head(list)] = TRUE] /\ UNCHANGED sem
    ELSE UNCHANGED <<kill, sem>>

\* The loop returns after the first entry of the list, be it the phone's.
playback_disconnect_cli(p) ==
    IF list # <<>> /\ peer[Head(list)] = p
    THEN LET s == Head(list) IN
           /\ kill' = [kill EXCEPT ![s] = TRUE]
           /\ sem' = [sem EXCEPT ![s] = IF stop[s] THEN @ + 1 ELSE @]
    ELSE UNCHANGED <<kill, sem>>

StopCommand(p) ==
    /\ p \notin gone
    /\ posts < MaxPosts
    /\ posts' = posts + 1
    /\ playback_disconnect_cli(p)
    /\ UNCHANGED <<net, pc, peer, list, stop, late, held, gone>>

\* A phone leaves; the last one's departure disconnects its sessions.
Depart(p) ==
    /\ p \notin gone
    /\ gone' = gone \cup {p}
    /\ playback_disconnect_cli(p) \/ UNCHANGED <<kill, sem>>
    /\ UNCHANGED <<net, pc, peer, list, stop, posts, late, held>>

-----------------------------------------------------------------------------
Accepting(s) == Select(s) \/ Accept(s) \/ AcceptFails(s) \/ AddToList(s) \/ Fork(s)
Running(s) == Load(s) \/ Top(s) \/ Pend(s) \/ Test(s) \/ Send(s) \/ NextFile(s) \/ Exit(s)
Command(p) ==
    \/ Dial(p)
    \/ playback_cli_pause(p)
    \/ playback_cli_continue(p)
    \/ StopCommand(p)
    \/ Depart(p)

Next ==
    \/ video_playback_post_msg
    \/ \E s \in Sessions : Accepting(s) \/ Running(s)
    \/ \E p \in Phones : Command(p)

\* Threads that can run do; a file ends some time.
Spec ==
    /\ Init /\ [][Next]_vars
    /\ \A s \in Sessions : WF_vars(Accepting(s)) /\ WF_vars(Running(s))

-----------------------------------------------------------------------------
Entered == {"fork"} \cup Playing

\* The list names exactly the sessions that are allocated, each once, as
\* long as no call has failed: the commands never touch freed memory.
ListNamesSessions ==
    listen =>
        /\ {list[i] : i \in DOMAIN list} = {s \in Sessions : pc[s] \in Entered}
        /\ \A i, j \in DOMAIN list : list[i] = list[j] => i = j

\* A paused session sends at most the frame it is at, and one for each
\* earlier resume it did not need.
PauseHolds ==
    \A s \in Sessions : stop[s] /\ ~kill[s] => late[s] + sem[s] <= held[s] + 1

\* A killed session ends, paused or not.
KilledEnds == \A s \in Sessions : kill[s] ~> pc[s] \in {"gone", "freed"}

\* A session outlives its phone only while it is paused: killed or not, its
\* sends fail.
GoneEnds ==
    \A s \in Sessions :
        (peer[s] \in gone /\ pc[s] \in Playing) ~> (pc[s] = "gone" \/ (stop[s] /\ sem[s] = 0))

\* "not find dst_addr" is printed only when the phone has no session.
NotFindMeansAbsent ==
    [][\A p \in Phones :
         StopCommand(p) /\ list # <<>> /\ peer[Head(list)] # p => Of(p) = {}]_vars

=============================================================================
