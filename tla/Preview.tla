------------------------------ MODULE Preview -------------------------------
(***************************************************************************)
(* Cover pictures and thumbnails of recorded files                         *)
(* (wifi/video_preview.c).  As in Playback, a request forks a thread that  *)
(* waits for a connection and forks the session's thread.  Here the        *)
(* session's thread takes the mutex of the client list when it starts and  *)
(* gives it back when it has freed itself: sessions run one at a time,     *)
(* and whoever else needs the list waits for the session that runs, the    *)
(* application's task included when it disconnects a phone.                *)
(***************************************************************************)
EXTENDS Integers, Sequences

CONSTANTS
    Phones,
    None,
    MaxSessions,  \* bound on the number of requests
    MaxPictures,  \* bound on the pictures of a request, and of a file
    Advancing     \* a request without a number moves on in its file

ASSUME BoundsAssumption == MaxSessions \in Nat /\ MaxPictures \in Nat
ASSUME AdvancingAssumption == Advancing \in BOOLEAN

Sessions == 1..MaxSessions

ASSUME NoneAssumption == None \notin Phones /\ None \notin Sessions

\* The pictures a request leads to at most: num of them; or, when num is 0, those
\* the file holds at the interval timeinv, for the send fails once the offset has
\* passed the last frame.  An interval of 0 never passes it.
Endless == -1
Numbers == (1..MaxPictures) \cup (IF Advancing THEN {} ELSE {Endless})

\* What the application's task may be doing with the list.
Calls == {"disconnect", "slide"} \X Phones

VARIABLES
    listen,    \* the service's socket is registered
    backlog,   \* the connections nobody has accepted
    asked, dialed,  \* requests and connections so far
    pc,        \* of a session's threads, see Stages
    peer,      \* cli->remote_addr
    kill,      \* cli->kill_flag
    left,      \* the pictures a session has still to send
    list,      \* preview_info.cli_head
    mutex,     \* None, or the session that holds preview_info.mutex
    app,       \* the call the application's task is in, or None
    gone       \* the phones that have left

net == <<listen, backlog, asked, dialed>>
vars == <<net, pc, peer, kill, left, list, mutex, app, gone>>

Stages == {"none", "select", "accept", "add", "fork", "over", "freed",
           "start", "run", "end", "gone"}

TypeOK ==
    /\ listen \in BOOLEAN /\ backlog \in Seq(Phones)
    /\ asked \in 0..MaxSessions /\ dialed \in 0..MaxSessions
    /\ pc \in [Sessions -> Stages]
    /\ peer \in [Sessions -> Phones \cup {None}]
    /\ kill \in [Sessions -> BOOLEAN]
    /\ left \in [Sessions -> Numbers \cup 0..MaxPictures]
    /\ list \in Seq(Sessions)
    /\ mutex \in Sessions \cup {None}
    /\ app \in Calls \cup {None}
    /\ gone \subseteq Phones

Init ==
    /\ listen = TRUE /\ backlog = <<>> /\ asked = 0 /\ dialed = 0
    /\ pc = [s \in Sessions |-> "none"]
    /\ peer = [s \in Sessions |-> None]
    /\ kill = [s \in Sessions |-> FALSE]
    /\ left = [s \in Sessions |-> 0]
    /\ list = <<>>
    /\ mutex = None /\ app = None /\ gone = {}

Goto(s, stage) == pc' = [pc EXCEPT ![s] = stage]

-----------------------------------------------------------------------------
(* A request and its accepting thread. *)

\* The task takes MULTI_COVER_FIGURE or THUMBNAILS when it is not waiting.
video_preview_post_msg ==
    /\ app = None /\ Phones # gone
    /\ asked < MaxSessions
    /\ asked' = asked + 1
    /\ Goto(asked + 1, "select")
    /\ left' \in {[left EXCEPT ![asked + 1] = n] : n \in Numbers}
    /\ UNCHANGED <<listen, backlog, dialed, peer, kill, list, mutex, app, gone>>

Dial(p) ==
    /\ p \notin gone
    /\ dialed < asked
    /\ dialed' = dialed + 1
    /\ backlog' = Append(backlog, p)
    /\ UNCHANGED <<listen, asked, pc, peer, kill, left, list, mutex, app, gone>>

\* sock_select: a connection is there, or five seconds have passed, or the
\* socket is no longer registered.
Select(s) ==
    /\ pc[s] = "select"
    /\ Goto(s, IF listen /\ backlog # <<>> THEN "accept" ELSE "over")
    /\ UNCHANGED <<net, peer, kill, left, list, mutex, app, gone>>

\* sock_accept waits: another request may have taken the connection.
Accept(s) ==
    /\ pc[s] = "accept"
    /\ listen /\ backlog # <<>>
    /\ peer' = [peer EXCEPT ![s] = Head(backlog)]
    /\ backlog' = Tail(backlog)
    /\ Goto(s, "add")
    /\ UNCHANGED <<listen, asked, dialed, kill, left, list, mutex, app, gone>>

\* __err1, no socket or no memory: the service's socket is given up.
AcceptFails(s) ==
    /\ pc[s] = "accept"
    /\ listen' = FALSE
    /\ Goto(s, "over")
    /\ UNCHANGED <<backlog, asked, dialed, peer, kill, left, list, mutex, app, gone>>

\* The accepting thread waits, too, for the session that runs.
AddToList(s) ==
    /\ pc[s] = "add"
    /\ mutex = None
    /\ list' = Append(list, s)
    /\ Goto(s, "fork")
    /\ UNCHANGED <<net, peer, kill, left, mutex, app, gone>>

\* A session whose thread cannot be forked is freed and stays in the list.
Fork(s) ==
    /\ pc[s] = "fork"
    /\ Goto(s, "start") \/ Goto(s, "freed")
    /\ UNCHANGED <<net, peer, kill, left, list, mutex, app, gone>>

-----------------------------------------------------------------------------
(* The session's thread. *)

\* Memory may be short, the file may not open.
Start(s) ==
    /\ pc[s] = "start"
    /\ mutex = None
    /\ mutex' = s
    /\ Goto(s, "run") \/ Goto(s, "end")
    /\ UNCHANGED <<net, peer, kill, left, list, app, gone>>

\* Mutant: a file that does not open is tried again, for ever.
Run_NoNext(s) ==
    /\ pc[s] = "run"
    /\ kill[s] \/ left[s] = 0 \/ peer[s] \in gone
    /\ Goto(s, "end")
    /\ UNCHANGED <<net, peer, kill, left, list, mutex, app, gone>>

\* One turn of the loop: the flag is tested, then a picture is sent or its
\* file skipped; the send fails once the phone has left or the offset the file.
Run(s) ==
    /\ pc[s] = "run"
    /\ \/ /\ kill[s] \/ left[s] = 0 \/ peer[s] \in gone
          /\ Goto(s, "end") /\ UNCHANGED left
       \/ /\ ~kill[s] /\ left[s] # 0
          /\ left' = [left EXCEPT ![s] = IF @ = Endless THEN @ ELSE @ - 1]
          /\ UNCHANGED pc
    /\ UNCHANGED <<net, peer, kill, list, mutex, app, gone>>

\* A send fails while the phone is there.
SendFails(s) ==
    /\ pc[s] = "run" /\ ~kill[s] /\ left[s] # 0
    /\ Goto(s, "end")
    /\ UNCHANGED <<net, peer, kill, left, list, mutex, app, gone>>

Without(l, i) == SubSeq(l, 1, i - 1) \o SubSeq(l, i + 1, Len(l))
list_del(s) == \E i \in DOMAIN list : list[i] = s /\ list' = Without(list, i)

\* Mutant: a flagged session keeps the mutex.
End_FlaggedKeepsMutex(s) ==
    /\ pc[s] = "end"
    /\ list_del(s)
    /\ kill' = [kill EXCEPT ![s] = FALSE]
    /\ mutex' = IF kill[s] THEN s ELSE None
    /\ Goto(s, "gone")
    /\ UNCHANGED <<net, peer, left, app, gone>>

\* The files are closed, the session leaves the list, the mutex is posted.
End(s) ==
    /\ pc[s] = "end"
    /\ list_del(s)
    /\ kill' = [kill EXCEPT ![s] = FALSE]
    /\ mutex' = None
    /\ Goto(s, "gone")
    /\ UNCHANGED <<net, peer, left, app, gone>>

-----------------------------------------------------------------------------
(* The application's task, which waits for the mutex. *)

\* A phone leaves; the last one's departure calls for the disconnect.
Depart(p) ==
    /\ p \notin gone
    /\ gone' = gone \cup {p}
    /\ \/ UNCHANGED app
       \/ app = None /\ app' = <<"disconnect", p>>
    /\ UNCHANGED <<net, pc, peer, kill, left, list, mutex>>

\* THUMBNAILS_CTRL.
Slide(p) ==
    /\ app = None /\ p \notin gone
    /\ app' = <<"slide", p>>
    /\ UNCHANGED <<net, pc, peer, kill, left, list, mutex, gone>>

\* The phone's session that comes first in the list, if it has any.
Of(p) == {i \in DOMAIN list : peer[list[i]] = p}
First(p) == {list[i] : i \in {j \in Of(p) : \A k \in Of(p) : j <= k}}

\* With the mutex, the phone's first session is flagged, and only that.
video_preview_and_thus_disconnect(p) ==
    /\ app = <<"disconnect", p>> /\ mutex = None
    /\ kill' = [s \in Sessions |-> kill[s] \/ s \in First(p)]
    /\ app' = None
    /\ UNCHANGED <<net, pc, peer, left, list, mutex, gone>>

\* The direction set by the call is read by no session.
video_cli_slide(p) ==
    /\ app = <<"slide", p>> /\ mutex = None
    /\ app' = None
    /\ UNCHANGED <<net, pc, peer, kill, left, list, mutex, gone>>

Listed == \E p \in Phones : video_preview_and_thus_disconnect(p) \/ video_cli_slide(p)

-----------------------------------------------------------------------------
Thread(s) ==
    \/ Select(s) \/ Accept(s) \/ AcceptFails(s) \/ AddToList(s) \/ Fork(s)
    \/ Start(s) \/ Run(s) \/ SendFails(s) \/ End(s)

Next ==
    \/ video_preview_post_msg
    \/ \E s \in Sessions : Thread(s)
    \/ \E p \in Phones : Dial(p) \/ Depart(p) \/ Slide(p)
    \/ Listed

\* Threads that can run do, and the mutex is given to each that waits some
\* time; no send need ever fail while its phone is there.
Spec ==
    /\ Init /\ [][Next]_vars
    /\ \A s \in Sessions : WF_vars(Select(s) \/ Accept(s) \/ Fork(s) \/ Run(s) \/ End(s))
    /\ \A s \in Sessions : SF_vars(AddToList(s) \/ Start(s))
    /\ SF_vars(Listed)

-----------------------------------------------------------------------------
Entered == {"fork", "start", "run", "end"}

\* The list names exactly the allocated sessions, each once, as long as no
\* fork has failed: a disconnect never writes to a freed session.
ListNamesSessions ==
    (\A s \in Sessions : pc[s] # "freed") =>
        /\ {list[i] : i \in DOMAIN list} = {s \in Sessions : pc[s] \in Entered}
        /\ \A i, j \in DOMAIN list : list[i] = list[j] => i = j

\* No session is flagged while any session runs: a flag reaches only those
\* that have not started, and one that runs is never interrupted by it.
RunningNeverFlagged ==
    [][\A s \in Sessions : ~kill[s] /\ kill'[s] => \A t \in Sessions : pc[t] # "run"]_vars

\* A session that was flagged sends no picture.
FlaggedSendsNothing ==
    [][\A s \in Sessions : kill[s] => left'[s] = left[s]]_vars

\* The application's task comes back from every call that needs the list.
AppReturns == app # None ~> app = None

\* Every session that was entered ends and is freed.
SessionsEnd == \A s \in Sessions : (pc[s] = "add") ~> (pc[s] \in {"gone", "freed"})

=============================================================================
