----------------------------- MODULE CtpSession -----------------------------
(***************************************************************************)
(* Phones talk to the camera over CTP (TCP) or CDP (UDP).  The server      *)
(* library keeps the connections and posts each command, and each loss of  *)
(* a connection, as an event to the application's task, where              *)
(* ctp_cmd_analysis (wifi/ctp_cmd.c) runs the handler to completion.  The  *)
(* handlers share one record "info": how many phones were admitted, whose  *)
(* address came last, whom to answer.  The last phone to leave closes the  *)
(* live stream.                                                            *)
(*                                                                         *)
(* A client is a slot of the library's connection table; its address is    *)
(* the slot's, so that a new connection in a freed slot has the old        *)
(* address.                                                                *)
(***************************************************************************)
EXTENDS Integers, FiniteSets

CONSTANTS
    Clients,     \* the slots
    CtpClients,  \* those of the CTP server; the others are the CDP server's
    None,        \* NULL
    AccessNum,   \* ACCESS_NUM
    MaxNum       \* bound on info.num

ASSUME ClientsAssumption == IsFiniteSet(Clients) /\ CtpClients \subseteq Clients /\ None \notin Clients
ASSUME NumAssumption == AccessNum \in Nat /\ MaxNum \in Nat

VARIABLES
    conn,    \* "free", "on", "gone" (lost, the event is queued), "leaked"
    access,  \* the phones whose APP_ACCESS was executed on this connection
    num, dest, cli,  \* info.num, info.dest_addr, info.cli
    sync,    \* the topics whose map->sync is set
    vrt,     \* __this_net->net_video0_vrt_on
    stream,  \* the client the live stream is sent to
    rude     \* a phone did not keep to the protocol: APP_ACCESS once and
             \* before anything else; or it had the address of a phone
             \* that had left and was still remembered

vars == <<conn, access, num, dest, cli, sync, vrt, stream, rude>>
info == <<num, dest, cli>>
net == <<vrt, stream>>

Topics == {"APP_ACCESS", "OPEN_RT_STREAM", "CLOSE_RT_STREAM", "CTP_CLI_DISCONNECT"}

\* One type invariant: the session's record, the flags and the stream.
TypeOK ==
    /\ conn \in [Clients -> {"free", "on", "gone", "leaked"}]
    /\ access \subseteq Clients
    /\ num \in Nat
    /\ dest \in Clients \cup {None} /\ cli \in Clients \cup {None}
    /\ sync \subseteq Topics
    /\ vrt \in BOOLEAN /\ stream \in Clients \cup {None}
    /\ rude \in BOOLEAN

Init ==
    /\ conn = [c \in Clients |-> "free"] /\ access = {}
    /\ num = 0 /\ dest = None /\ cli = None
    /\ sync = {}
    /\ vrt = FALSE /\ stream = None
    /\ rude = FALSE

-----------------------------------------------------------------------------
(* The connection table (external library). *)

On(S) == {c \in S : conn[c] = "on"}
ctp_srv_get_cli_cnt == Cardinality(On(CtpClients))
cdp_srv_get_cli_cnt == Cardinality(On(Clients \ CtpClients))

\* A phone connects; CTP_CLI_CONNECTED does nothing, but ctp_cmd_analysis
\* makes it the one to answer.
Connect(c) ==
    /\ conn[c] = "free"
    /\ rude' = (rude \/ c = dest)
    /\ conn' = [conn EXCEPT ![c] = "on"]
    /\ cli' = c
    /\ UNCHANGED <<access, num, dest, sync, net>>

\* The connection is lost: it counts no longer, CTP_CLI_DISCONNECT is queued.
Drop(c) ==
    /\ conn[c] = "on"
    /\ rude' = (rude \/ c \notin access)
    /\ conn' = [conn EXCEPT ![c] = "gone"]
    /\ UNCHANGED <<access, info, sync, net>>

\* The library has sent the answer of a command and takes the next one.
Answered(t) ==
    /\ t \in sync
    /\ sync' = sync \ {t}
    /\ UNCHANGED <<conn, access, info, net, rude>>

-----------------------------------------------------------------------------
(* The commands. *)

Queued(c) == conn[c] \in {"on", "gone"}

\* A repeated command is dropped while its flag is set.
Ignored(c, t) ==
    /\ Queued(c)
    /\ t \in sync
    /\ cli' = c
    /\ UNCHANGED <<conn, access, num, dest, sync, net, rude>>

\* ctp_cmd_analysis takes a command up to the call of its handler.
Taken(c, t) ==
    /\ Queued(c)
    /\ t \notin sync

Refused ==
    \/ ctp_srv_get_cli_cnt > AccessNum
    \/ cdp_srv_get_cli_cnt > AccessNum
    \/ ctp_srv_get_cli_cnt = AccessNum /\ cdp_srv_get_cli_cnt = AccessNum

\* Mutant: compared with info.cli, which ctp_cmd_analysis has just set.
cmd_put_app_access_ByCli(c) ==
    /\ Taken(c, "APP_ACCESS")
    /\ rude' = (rude \/ c \in access)
    /\ num < MaxNum
    /\ cli' = c
    /\ num' = IF c # cli' THEN num + 1 ELSE num
    /\ access' = access \cup {c}
    /\ sync' = sync \cup {"APP_ACCESS"}
    /\ \E usb \in BOOLEAN :
         IF usb \/ Refused
         THEN conn' = [conn EXCEPT ![c] = "gone"] /\ UNCHANGED dest
         ELSE dest' = c /\ UNCHANGED conn
    /\ UNCHANGED net

\* Mutant: only an admitted phone is counted.
cmd_put_app_access_AdmittedOnly(c) ==
    /\ Taken(c, "APP_ACCESS")
    /\ rude' = (rude \/ c \in access)
    /\ num < MaxNum
    /\ access' = access \cup {c}
    /\ cli' = c
    /\ sync' = sync \cup {"APP_ACCESS"}
    /\ IF Refused
       THEN conn' = [conn EXCEPT ![c] = "gone"] /\ UNCHANGED <<num, dest>>
       ELSE dest' = c /\ num' = num + 1 /\ UNCHANGED conn
    /\ UNCHANGED net

\* A refused phone, or any phone in USB mode, is counted and disconnected.
cmd_put_app_access(c) ==
    /\ Taken(c, "APP_ACCESS")
    /\ rude' = (rude \/ c \in access)
    /\ num < MaxNum
    /\ num' = IF c # dest THEN num + 1 ELSE num
    /\ access' = access \cup {c}
    /\ cli' = c
    /\ sync' = sync \cup {"APP_ACCESS"}
    /\ \E usb \in BOOLEAN :
         IF usb \/ Refused
         THEN conn' = [conn EXCEPT ![c] = "gone"] /\ UNCHANGED dest
         ELSE dest' = c /\ UNCHANGED conn
    /\ UNCHANGED net

\* A stream that runs keeps its destination; a start may fail.
cmd_put_open_rt_stream(c) ==
    /\ Taken(c, "OPEN_RT_STREAM")
    /\ rude' = (rude \/ c \notin access)
    /\ vrt' = TRUE
    /\ IF stream = None THEN stream' \in {None, c} ELSE UNCHANGED stream
    /\ cli' = c
    /\ sync' = sync \cup {"OPEN_RT_STREAM"}
    /\ UNCHANGED <<conn, access, num, dest>>

StreamOff == vrt' = FALSE /\ stream' = None

cmd_put_close_rt_stream(c) ==
    /\ Taken(c, "CLOSE_RT_STREAM")
    /\ rude' = (rude \/ c \notin access)
    /\ StreamOff
    /\ cli' = c
    /\ sync' = sync \cup {"CLOSE_RT_STREAM"}
    /\ UNCHANGED <<conn, access, num, dest>>

-----------------------------------------------------------------------------
(* A phone has left. *)

\* Only a CTP connection keeps the stream running.
close_rt_stream ==
    IF ctp_srv_get_cli_cnt = 0 THEN StreamOff ELSE UNCHANGED net

free_cli(c) == conn' = [conn EXCEPT ![c] = "free"]

\* Mutant: the early return leaves the flag of this command set.
NotLast_FlagsStay(c) ==
    /\ num > 1
    /\ num' = num - 1
    /\ sync' = sync \cup {"CTP_CLI_DISCONNECT"}
    /\ free_cli(c)
    /\ cli' = c
    /\ UNCHANGED <<dest, net>>

\* Another phone was admitted: the leaver stays the one to answer.
NotLast(c) ==
    /\ num > 1
    /\ num' = num - 1
    /\ sync' = {}
    /\ free_cli(c)
    /\ cli' = c
    /\ UNCHANGED <<dest, net>>

\* No phone is counted: nothing is closed and the client is not freed.
NotCounted(c) ==
    /\ num = 0
    /\ sync' = {}
    /\ conn' = [conn EXCEPT ![c] = "leaked"]
    /\ cli' = c
    /\ UNCHANGED <<num, dest, net>>

\* Mutant: close_rt_stream is not called.
Last_LeavesStream(c) ==
    /\ num = 1
    /\ num' = 0
    /\ dest' = None /\ cli' = None
    /\ sync' = {}
    /\ free_cli(c)
    /\ UNCHANGED net

\* The counted phones have all left: the session is reset.
Last(c) ==
    /\ num = 1
    /\ num' = 0
    /\ dest' = None /\ cli' = None
    /\ close_rt_stream
    /\ sync' = {}
    /\ free_cli(c)

cmd_put_ctp_cli_disconnect(c) ==
    /\ conn[c] = "gone"
    /\ Taken(c, "CTP_CLI_DISCONNECT")
    /\ NotLast(c) \/ NotCounted(c) \/ Last(c)
    /\ access' = access \ {c}
    /\ UNCHANGED rude

-----------------------------------------------------------------------------
Client(c) ==
    \/ Connect(c)
    \/ Drop(c)
    \/ cmd_put_app_access(c)
    \/ cmd_put_open_rt_stream(c)
    \/ cmd_put_close_rt_stream(c)
    \/ cmd_put_ctp_cli_disconnect(c)
    \/ \E t \in Topics \ {"CTP_CLI_DISCONNECT"} : Ignored(c, t)

Next == (\E c \in Clients : Client(c)) \/ (\E t \in Topics : Answered(t))

\* The library posts the loss of a connection and the task takes its events.
Spec == Init /\ [][Next]_vars /\ \A c \in Clients : WF_vars(cmd_put_ctp_cli_disconnect(c))

-----------------------------------------------------------------------------
\* As long as every phone keeps to the protocol (~rude), info.num is the
\* number of phones that were admitted or refused and whose
\* departure has not been handled (cmd_put_app_access counts by comparing
\* addresses, the departure takes one off).
CountsPhones == ~rude => num = Cardinality(access)

\* Until a phone is rude, no connection record is kept for ever: every
\* departure reaches ctp_srv_free_cli.
EveryLeaverFreed == ~rude => \A c \in Clients : conn[c] # "leaked"

\* Until a phone is rude, when the last connection is gone and handled the
\* session is as at boot: nobody counted, no address remembered, nobody to
\* answer, no stream.
IdleIsReset ==
    ~rude /\ (\A c \in Clients : conn[c] = "free") =>
        num = 0 /\ dest = None /\ cli = None /\ ~vrt /\ stream = None

\* Until a phone is rude, one that leaves, admitted or refused, does not stop
\* the stream while an admitted phone of either server is connected.
OthersKeepStream ==
    [][\A c \in Clients : ~rude /\ vrt /\ ~vrt' /\ cmd_put_ctp_cli_disconnect(c) =>
          On(access) = {}]_vars

\* A departure is never taken for a repeated command and dropped: every path
\* of the handler resets the flags.
DepartureTaken == "CTP_CLI_DISCONNECT" \notin sync

\* The stream does not outlive the phones: once all have left, it is closed,
\* unless one comes back or one was rude.
StreamEnds ==
    (\A c \in Clients : conn[c] # "on") ~>
        (rude \/ ~vrt \/ \E c \in Clients : conn[c] = "on")

=============================================================================
