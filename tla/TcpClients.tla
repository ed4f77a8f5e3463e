----------------------------- MODULE TcpClients -----------------------------
(***************************************************************************)
(* stream/video_rt_tcp.c: the accepting thread appends each connection to  *)
(* a linked list that the writer's thread walks and shortens when it opens *)
(* a stream, and that the application's task walks when a phone leaves.    *)
(* No lock protects the list; list_add_tail and list_del are modelled      *)
(* store by store, walks load by load.  A counting semaphore tells the     *)
(* opener of a connection; it waits at most 50 ticks and goes on without.  *)
(***************************************************************************)
EXTENDS Integers, Sequences

CONSTANTS Clients, cli_head    \* connections, one record each, and the list's head

ASSUME HeadAssumption == cli_head \notin Clients

VARIABLES
    nxt, prv,   \* the list's pointers
    rec,        \* a connection's record: "none", "live", "freed"
    quit,       \* the connections whose socket has been told to quit
    sem,        \* tokens of server_info.sem
    flag,       \* server_info.flag: the server is to end
    acc,        \* the accepting thread: where it is, with which record
    opn,        \* the opener: where it is, the record it stands on, ...
    stream,     \* the connection the open stream sends to, or cli_head
    dep,        \* the departure handler's walk
    come, gone  \* ghost: the connections appended, and deleted, in order

tcpVars == <<nxt, prv, rec, quit, sem, flag, acc, opn, stream, dep, come, gone>>

Nodes == Clients \cup {cli_head}
AtRec(pc, c) == [pc |-> pc, at |-> c]

TcpInit ==
    /\ nxt = [c \in Nodes |-> cli_head] /\ prv = [c \in Nodes |-> cli_head]
    /\ rec = [c \in Clients |-> "none"]
    /\ quit = {} /\ sem = 0 /\ flag = FALSE
    /\ acc = AtRec("accept", cli_head)
    /\ opn = [pc |-> "idle", at |-> cli_head, cli |-> cli_head, count |-> 0]
    /\ stream = cli_head
    /\ dep = AtRec("idle", cli_head)
    /\ come = <<>> /\ gone = <<>>

-----------------------------------------------------------------------------
(* __do_sock_accpet. *)

Accept(c) ==
    /\ acc.pc = "accept" /\ ~flag /\ rec[c] = "none"
    /\ rec' = [rec EXCEPT ![c] = "live"]
    /\ acc' = [pc |-> "add1", at |-> c]
    /\ UNCHANGED <<nxt, prv, quit, sem, flag, opn, stream, dep, come, gone>>

\* list_add_tail: head->prev is the new one's neighbour, then four stores.
AddNew ==
    /\ acc.pc = "add1"
    /\ prv' = [prv EXCEPT ![acc.at] = prv[cli_head], ![cli_head] = acc.at]
    /\ nxt' = [nxt EXCEPT ![acc.at] = cli_head]
    /\ acc' = [acc EXCEPT !.pc = "add2"]
    /\ UNCHANGED <<rec, quit, sem, flag, opn, stream, dep, come, gone>>

AddLink ==
    /\ acc.pc = "add2"
    /\ nxt' = [nxt EXCEPT ![prv[acc.at]] = acc.at]
    /\ come' = Append(come, acc.at)
    /\ acc' = [acc EXCEPT !.pc = "post"]
    /\ UNCHANGED <<prv, rec, quit, sem, flag, opn, stream, dep, gone>>

Post ==
    /\ acc.pc = "post"
    /\ sem' = sem + 1
    /\ acc' = AtRec("accept", cli_head)
    /\ UNCHANGED <<nxt, prv, rec, quit, flag, opn, stream, dep, come, gone>>

\* video_rt_tcp_server_uninit; the accept it wakes sees the flag.
Uninit ==
    /\ ~flag
    /\ flag' = TRUE
    /\ UNCHANGED <<nxt, prv, rec, quit, sem, acc, opn, stream, dep, come, gone>>

AcceptEnds ==
    /\ acc.pc = "accept" /\ flag
    /\ acc' = AtRec("ended", cli_head)
    /\ UNCHANGED <<nxt, prv, rec, quit, sem, flag, opn, stream, dep, come, gone>>

-----------------------------------------------------------------------------
(* The opener: video_rt_tcp_init and get_tcp_net_info. *)

\* os_sem_pend with a timeout: with a token or without.
OpenTcp ==
    /\ opn.pc = "idle" /\ dep.pc = "idle" /\ stream = cli_head
    /\ sem' \in {IF sem > 0 THEN sem - 1 ELSE 0, sem}
    /\ opn' = [pc |-> "walk", at |-> nxt[cli_head], cli |-> cli_head, count |-> 0]
    /\ UNCHANGED <<nxt, prv, rec, quit, flag, acc, stream, dep, come, gone>>

Walk ==
    /\ opn.pc = "walk" /\ opn.at # cli_head
    /\ opn' = [opn EXCEPT !.at = nxt[opn.at], !.cli = opn.at, !.count = @ + 1]
    /\ UNCHANGED <<nxt, prv, rec, quit, sem, flag, acc, stream, dep, come, gone>>

\* The oldest connection is given up also when it is the only one.
TooMany_Any(count) == count > 0
TooMany(count) == count > 1

WalkEnds ==
    /\ opn.pc = "walk" /\ opn.at = cli_head
    /\ opn' = [opn EXCEPT !.pc = IF TooMany(opn.count) THEN "del1" ELSE "take",
                          !.at = nxt[cli_head]]
    /\ UNCHANGED <<nxt, prv, rec, quit, sem, flag, acc, stream, dep, come, gone>>

\* list_del of the first record, two stores, then it is freed.
DelNext ==
    /\ opn.pc = "del1"
    /\ prv' = [prv EXCEPT ![nxt[opn.at]] = prv[opn.at]]
    /\ opn' = [opn EXCEPT !.pc = "del2"]
    /\ UNCHANGED <<nxt, rec, quit, sem, flag, acc, stream, dep, come, gone>>

DelPrev ==
    /\ opn.pc = "del2"
    /\ nxt' = [nxt EXCEPT ![prv[opn.at]] = nxt[opn.at]]
    /\ gone' = Append(gone, opn.at)
    /\ opn' = [opn EXCEPT !.pc = "free"]
    /\ UNCHANGED <<prv, rec, quit, sem, flag, acc, stream, dep, come>>

Free ==
    /\ opn.pc = "free"
    /\ rec' = [rec EXCEPT ![opn.at] = "freed"]
    /\ quit' = quit \cup {opn.at}
    /\ opn' = [opn EXCEPT !.pc = "take"]
    /\ UNCHANGED <<nxt, prv, sem, flag, acc, stream, dep, come, gone>>

\* The last record met is the one to send to; its quit mark is cleared.
Take ==
    /\ opn.pc = "take"
    /\ stream' = opn.cli /\ quit' = quit \ {opn.cli}
    /\ opn' = [opn EXCEPT !.pc = "idle", !.at = cli_head]
    /\ UNCHANGED <<nxt, prv, rec, sem, flag, acc, dep, come, gone>>

\* video_rt_tcp_send: each frame goes to the socket or fails.
\* video_rt_tcp_uninit: the socket is told to quit; its record stays listed.
CloseTcp ==
    /\ stream # cli_head /\ opn.pc = "idle"
    /\ quit' = quit \cup {stream} /\ stream' = cli_head
    /\ UNCHANGED <<nxt, prv, rec, sem, flag, acc, opn, dep, come, gone>>

-----------------------------------------------------------------------------
(* TCP_client_socket_quit.  The application's task waits for an opener it    *)
(* has started, so the two walks do not overlap.                             *)

Depart ==
    /\ dep.pc = "idle" /\ opn.pc = "idle"
    /\ dep' = AtRec("walk", nxt[cli_head])
    /\ UNCHANGED <<nxt, prv, rec, quit, sem, flag, acc, opn, stream, come, gone>>

\* A record with the phone's address; every record may be one.
DepartStep ==
    /\ dep.pc = "walk" /\ dep.at # cli_head
    /\ quit' \in {quit, quit \cup {dep.at}}
    /\ dep' = [dep EXCEPT !.at = nxt[dep.at]]
    /\ UNCHANGED <<nxt, prv, rec, sem, flag, acc, opn, stream, come, gone>>

DepartEnds ==
    /\ dep.pc = "walk" /\ dep.at = cli_head
    /\ dep' = AtRec("idle", cli_head)
    /\ UNCHANGED <<nxt, prv, rec, quit, sem, flag, acc, opn, stream, come, gone>>

TcpNext ==
    \/ \E c \in Clients : Accept(c)
    \/ AddNew \/ AddLink \/ Post \/ Uninit \/ AcceptEnds
    \/ OpenTcp \/ Walk \/ WalkEnds \/ DelNext \/ DelPrev \/ Free \/ Take \/ CloseTcp
    \/ Depart \/ DepartStep \/ DepartEnds

TcpSpec == TcpInit /\ [][TcpNext]_tcpVars

-----------------------------------------------------------------------------
(* Properties. *)

\* The connections of the list, in order.
Linked == SubSeq(come, Len(gone) + 1, Len(come))

\* Although nothing locks it, the list is at rest exactly the connections that
\* came and were not given up, forwards and backwards; whoever walks it stands
\* on a record that has not been freed, and the stream has one of the list.
ListSound ==
    /\ acc.pc \in {"accept", "post", "ended"} /\ opn.pc \notin {"del2"} =>
           LET ring == <<cli_head>> \o Linked \o <<cli_head>>
           IN  \A i \in 1..(Len(ring) - 1) :
                   nxt[ring[i]] = ring[i + 1] /\ prv[ring[i + 1]] = ring[i]
    /\ \A c \in {opn.at, opn.cli, dep.at, stream} \ {cli_head} :
           rec[c] = "live" \/ (c = opn.at /\ opn.pc = "take")
=============================================================================
