--------------------------- MODULE MediaFileList ---------------------------
(***************************************************************************)
(* wifi/media_file_list.c: the list of recordings that phones fetch.  The  *)
(* application's task adds the files it finishes and removes those it or a *)
(* phone deletes; a thread scans the card anew after it was put in; a      *)
(* thread per request writes the list to the card.  file_list_read_mutex   *)
(* keeps a scan, an addition, a removal and a writer apart; file_list_mutex *)
(* guards single entries.  Several calls look at "initing" before they     *)
(* take the first, and FILE_REMOVE_ALL never takes it.                     *)
(*                                                                         *)
(* A file is the number of its creation, which orders the file times.      *)
(***************************************************************************)
EXTENDS Integers, Sequences, FiniteSets

CONSTANTS Slots,       \* MAX_NUM, the entries the list can hold
          MaxMedia,    \* bound: files that are recorded
          Broken,      \* those of them that cannot be read
          MaxScans     \* bound: times the card is put in

ASSUME SlotsAssumption == Slots \in Nat \ {0} /\ MaxMedia \in Nat

VARIABLES
    card,     \* the files on the card
    online,   \* the card is in
    known,    \* the application's task was told so and not yet of the contrary
    list,     \* forward_file_list_head: the entries, in the order added
    initing,
    rlock,    \* who holds file_list_read_mutex
    mapp,     \* the application's task: where it is, with which file
    scan,     \* the scanning thread: where it is, the last file it saw
    due,      \* scanning threads forked and not begun
    gen,      \* the thread that writes the list
    born,     \* files recorded so far
    scans,    \* times the card was put in
    doubt     \* ghost: what the list may be wrong about (see ListFaithful)

mediaVars == <<card, online, known, list, initing, rlock, mapp, scan, due, gen, born, scans, doubt>>

Doing(pc, f) == [pc |-> pc, file |-> f]
Resting == Doing("idle", 0)
Listed(l) == {l[i] : i \in DOMAIN l}

MediaInit ==
    /\ card = {} /\ online = FALSE /\ known = FALSE
    /\ list = <<>> /\ initing = FALSE /\ rlock = "free"
    /\ mapp = Resting /\ scan = Resting /\ due = 0 /\ gen = "idle"
    /\ born = 0 /\ scans = 0 /\ doubt = {}

-----------------------------------------------------------------------------
(* Entries. *)

\* file_info_find and forward_write_block: a free block, or the block of the
\* oldest entry, which keeps its place.
Oldest_Newest(l) == CHOOSE i \in DOMAIN l : \A j \in DOMAIN l : l[i] >= l[j]
Oldest(l) == CHOOSE i \in DOMAIN l : \A j \in DOMAIN l : l[i] <= l[j]

WriteBlock(l, f) ==
    IF Len(l) < Slots THEN Append(l, f) ELSE [l EXCEPT ![Oldest(l)] = f]

\* get_media_file_info, and send_json, which lists what it could read.
Parses(f) == f \notin Broken
SendJson(l, f) == IF Parses(f) THEN WriteBlock(l, f) ELSE l

\* Ghost: the file a full list should give up.
GivenUp(l) ==
    IF Len(l) < Slots THEN {} ELSE {f \in Listed(l) : \A g \in Listed(l) : f <= g}

\* forward_remove_block: the first entry with the file's name.
RemoveBlock(l, f) ==
    IF f \notin Listed(l) THEN l
    ELSE LET i == CHOOSE k \in DOMAIN l : l[k] = f /\ \A j \in 1..(k - 1) : l[j] # f
         IN  SubSeq(l, 1, i - 1) \o SubSeq(l, i + 1, Len(l))

\* FILE_DELETE(NULL).
AllFiles == 0
forward_remove_block_all(l) == <<>>

\* While a scan runs, the file an operation is about is in doubt.
InDoubt(f) == doubt \cup (IF scan.pc = "scan" THEN {f} ELSE {})

-----------------------------------------------------------------------------
(* The application's task. *)

\* video_rec_close_file and FILE_LIST_ADD up to the mutex: while the list is
\* being made the file is not added.
Finish ==
    /\ mapp.pc = "idle" /\ known /\ born < MaxMedia
    /\ born' = born + 1
    /\ card' = card \cup {born + 1}
    /\ mapp' = IF initing THEN Resting ELSE Doing("add", born + 1)
    /\ doubt' = InDoubt(born + 1)
    /\ UNCHANGED <<online, known, list, initing, rlock, scan, due, gen, scans>>

\* FILE_LIST_ADD with the mutex.  Without a card, or without the file, it
\* returns and keeps the mutex.
AddBlock ==
    /\ mapp.pc = "add" /\ rlock = "free"
    /\ IF online /\ mapp.file \in card
       THEN /\ list' = SendJson(list, mapp.file)
            /\ doubt' = doubt \cup GivenUp(list)
            /\ UNCHANGED rlock
       ELSE rlock' = "app" /\ UNCHANGED <<list, doubt>>
    /\ mapp' = Resting
    /\ UNCHANGED <<card, online, known, initing, scan, due, gen, born, scans>>

\* FILE_DELETE up to the mutex, for the file that goes; then comes "after".
DeleteCall(f, after) ==
    mapp' = IF initing THEN after ELSE Doing(IF after.pc = "idle" THEN "gone" ELSE "goes", f)

\* The recorder frees space: the entry goes first, the file second.
LoopDelete ==
    /\ mapp.pc = "idle" /\ online
    /\ \E f \in card : DeleteCall(f, Doing("fdelete", f)) /\ doubt' = InDoubt(f)
    /\ UNCHANGED <<card, online, known, list, initing, rlock, scan, due, gen, born, scans>>

\* cmd_put_files_delete: the file goes first, the entry second.
PhoneDelete ==
    /\ mapp.pc = "idle" /\ online
    /\ \E f \in card :
           /\ card' = card \ {f} /\ DeleteCall(f, Resting) /\ doubt' = InDoubt(f)
    /\ UNCHANGED <<online, known, list, initing, rlock, scan, due, gen, born, scans>>

\* cmd_put_format, and FILE_DELETE without a name, after it.
Format ==
    /\ mapp.pc = "idle" /\ online
    /\ card' = {} /\ DeleteCall(AllFiles, Resting)
    /\ doubt' = IF scan.pc = "scan" THEN 1..MaxMedia ELSE doubt
    /\ UNCHANGED <<online, known, list, initing, rlock, scan, due, gen, born, scans>>

\* The removal takes the mutex.
Delete ==
    /\ mapp.pc \in {"gone", "goes"} /\ rlock = "free"
    /\ list' = IF mapp.file = AllFiles THEN forward_remove_block_all(list)
               ELSE RemoveBlock(list, mapp.file)
    /\ mapp' = IF mapp.pc = "gone" THEN Resting ELSE Doing("fdelete", mapp.file)
    /\ UNCHANGED <<card, online, known, initing, rlock, scan, due, gen, born, scans, doubt>>

Fdelete ==
    /\ mapp.pc = "fdelete"
    /\ card' = IF online THEN card \ {mapp.file} ELSE card
    /\ mapp' = Resting /\ doubt' = InDoubt(mapp.file)
    /\ UNCHANGED <<online, known, list, initing, rlock, scan, due, gen, born, scans>>

\* vf_list, for one kind of file: it reads the card itself, and deletes what it
\* cannot read, entry first.
VfList ==
    /\ mapp.pc = "idle" /\ online
    /\ initing \/ rlock = "free" \/ card \cap Broken = {}
    /\ card' = card \ Broken
    /\ UNCHANGED <<online, known, list, initing, rlock, mapp, scan, due, gen, born, scans, doubt>>

\* The card is pulled at any time; the event is handled later.
Pull ==
    /\ online
    /\ online' = FALSE
    /\ UNCHANGED <<card, known, list, initing, rlock, mapp, scan, due, gen, born, scans, doubt>>

\* video_rec_sd_event_ctp_notify(0) and FILE_REMOVE_ALL: only the inner mutex,
\* and nothing while the list is being made.
SdOut ==
    /\ mapp.pc = "idle" /\ known /\ ~online
    /\ initing \/ gen # "write"
    /\ known' = FALSE
    /\ list' = IF initing THEN list ELSE <<>>
    /\ UNCHANGED <<card, online, initing, rlock, mapp, scan, due, gen, born, scans, doubt>>

\* video_rec_sd_event_ctp_notify(1) and FILE_LIST_IN_MEM.
SdIn ==
    /\ mapp.pc = "idle" /\ ~known /\ scans < MaxScans
    /\ online' = TRUE /\ known' = TRUE /\ due' = due + 1 /\ scans' = scans + 1
    /\ UNCHANGED <<card, list, initing, rlock, mapp, scan, gen, born, doubt>>

\* cmd_put_make_forward_files_list: a thread, or a refusal while initing.
RequestList ==
    /\ mapp.pc = "idle" /\ ~initing /\ gen = "idle"
    /\ gen' = "fork"
    /\ UNCHANGED <<card, online, known, list, initing, rlock, mapp, scan, due, born, scans, doubt>>

-----------------------------------------------------------------------------
(* file_list_thread and FILE_LIST_INIT. *)

ScanBegin ==
    /\ due > 0 /\ scan.pc = "idle"
    /\ due' = due - 1
    /\ scan' = IF online THEN Doing("lock", 0) ELSE Resting
    /\ UNCHANGED <<card, online, known, list, initing, rlock, mapp, gen, born, scans, doubt>>

\* The scan starts afresh: what is being added or deleted meanwhile is in doubt.
ScanLock ==
    /\ scan.pc = "lock" /\ rlock = "free"
    /\ rlock' = "scan" /\ initing' = TRUE /\ list' = <<>>
    /\ scan' = Doing("scan", 0)
    /\ doubt' = IF mapp.pc = "idle" THEN {} ELSE {mapp.file}
    /\ UNCHANGED <<card, online, known, mapp, due, gen, born, scans>>

Unseen == {f \in card : f > scan.file}

ScanNext ==
    /\ scan.pc = "scan" /\ online /\ Unseen # {}
    /\ LET f == CHOOSE x \in Unseen : \A y \in Unseen : x <= y
       IN  /\ list' = SendJson(list, f)
           /\ doubt' = doubt \cup GivenUp(list)
           /\ scan' = Doing("scan", f)
    /\ UNCHANGED <<card, online, known, initing, rlock, mapp, due, gen, born, scans>>

\* A pulled card ends the scan where it is.
ScanEnd ==
    /\ scan.pc = "scan" /\ (~online \/ Unseen = {})
    /\ initing' = FALSE /\ rlock' = "free" /\ scan' = Resting
    /\ gen' = IF gen = "idle" THEN "fork" ELSE gen
    /\ doubt' = IF online THEN doubt ELSE 1..MaxMedia
    /\ UNCHANGED <<card, online, known, list, mapp, due, born, scans>>

-----------------------------------------------------------------------------
(* FILE_GEN. *)

GenLock ==
    /\ gen = "fork" /\ rlock = "free"
    /\ IF online THEN rlock' = "gen" /\ gen' = "write" ELSE gen' = "idle" /\ UNCHANGED rlock
    /\ UNCHANGED <<card, online, known, list, initing, mapp, scan, due, born, scans, doubt>>

\* An entry without its file is dropped only while a scan runs, and none does.
GenEnd ==
    /\ gen = "write"
    /\ list' = IF initing THEN SelectSeq(list, LAMBDA f : f \in card) ELSE list
    /\ rlock' = "free" /\ gen' = "idle"
    /\ UNCHANGED <<card, online, known, initing, mapp, scan, due, born, scans, doubt>>

MediaNext ==
    \/ Finish \/ AddBlock \/ LoopDelete \/ PhoneDelete \/ Format \/ Delete \/ Fdelete
    \/ Pull \/ SdOut \/ SdIn \/ RequestList \/ VfList
    \/ ScanBegin \/ ScanLock \/ ScanNext \/ ScanEnd
    \/ GenLock \/ GenEnd

MediaSpec == MediaInit /\ [][MediaNext]_mediaVars

-----------------------------------------------------------------------------
(* Properties. *)

\* At rest, with the card in, the list that phones fetch is what is on the
\* card, but for files in doubt: those added or deleted while the last scan
\* ran, the oldest ones that a full list gave up, and all of them when the card
\* was pulled during the scan.
ListFaithful ==
    /\ online /\ scans > 0 /\ due = 0
    /\ mapp.pc = "idle" /\ scan.pc = "idle" /\ rlock = "free"
    => Listed(list) \ doubt = {f \in card : Parses(f)} \ doubt
=============================================================================
