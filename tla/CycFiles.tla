------------------------------ MODULE CycFiles ------------------------------
(***************************************************************************)
(* video_rec.c: the files of a loop recording.  Before every file the      *)
(* recorder makes room: it deletes the oldest files until there is room    *)
(* for three, writes over the next one if it has the right size, and       *)
(* otherwise creates a file.  It finds the oldest file through a scan of   *)
(* the directory which it keeps until the files counted in it are used up, *)
(* while phones lock and delete files.  Everything runs in the             *)
(* application's task; the loop is split into its rounds.                  *)
(*                                                                         *)
(* Sizes are in units of which a full recording has Full.                  *)
(***************************************************************************)
EXTENDS Integers, Sequences, FiniteSets

CONSTANTS Full,        \* video_rec_get_fsize
          CardSize,    \* the space on the card
          MaxRecs,     \* bound: recordings made
          MaxPhotos    \* bound: photos taken, one unit each

ASSUME FullAssumption == Full \in Nat \ {0}
ASSUME CardAssumption == CardSize \in Nat /\ MaxPhotos \in Nat

VARIABLES
    dir,      \* the recordings on the card, oldest name first
    photos,   \* photos on the card
    made,     \* recordings made so far: the last name given
    rec_file, \* the recording that is open, or NoRec
    fscan,    \* the scan: whether there is one, and the files left of its count
    vrec,     \* the recorder: "stop" or "start"
    job,      \* what room is made for, and how far that is
    gaveUp    \* ghost: room could not be made

cycVars == <<dir, photos, made, rec_file, fscan, vrec, job, gaveUp>>

NoRec == 0
NoScan == [on |-> FALSE, left |-> 0]
NoJob == [for |-> "none", at |-> "none"]

Names == {dir[i].name : i \in DOMAIN dir}
Deletable == {i \in DOMAIN dir : ~dir[i].locked}
FirstFile == CHOOSE i \in Deletable : \A j \in Deletable : i <= j

\* What the recordings d take, and p for the photos.
Taken(d, p) ==
    LET u[i \in 0..Len(d)] == IF i = 0 THEN p ELSE u[i - 1] + d[i].size
    IN  u[Len(d)]
FreeSpace == CardSize - Taken(dir, photos)

Without(d, i) == SubSeq(d, 1, i - 1) \o SubSeq(d, i + 1, Len(d))
Resized(d, name, size) ==
    [i \in DOMAIN d |-> IF d[i].name = name THEN [d[i] EXCEPT !.size = size] ELSE d[i]]
SizeOf(name) == dir[CHOOSE i \in DOMAIN dir : dir[i].name = name].size

CycInit ==
    /\ dir = <<>> /\ photos = 0 /\ made = 0
    /\ rec_file = NoRec /\ fscan = NoScan
    /\ vrec = "stop" /\ job = NoJob /\ gaveUp = FALSE

-----------------------------------------------------------------------------
(* video_rec_get_first_file. *)

\* video_rec_fscan_dir: a scan whose count is used up is made again.
Scanned ==
    IF fscan.on /\ fscan.left > 0 THEN fscan
    ELSE [on |-> TRUE, left |-> Cardinality(Deletable)]

\* video_rec_cmp_fname: the file being recorded is not given away.
IsOpen_Never(i) == FALSE
IsOpen(i) == dir[i].name = rec_file

\* The oldest file that is not locked, if the count says there is one and it
\* is not the open one.
HasFirst == Scanned.left > 0 /\ Deletable # {} /\ ~IsOpen(FirstFile)

\* Taking it uses up one of the count; at the end the scan is released.
TakeFirst == fscan' = IF Scanned.left = 1 THEN NoScan ELSE [Scanned EXCEPT !.left = @ - 1]

-----------------------------------------------------------------------------
(* video_rec_del_old_file, round by round. *)

Enough_One == FreeSpace >= Full
Enough == FreeSpace >= 3 * Full

\* The recorder begins, or ends a file and goes on with the next one.
\* video_rec_start up to its first try.
StartRec ==
    /\ vrec = "stop" /\ job = NoJob /\ made < MaxRecs
    /\ job' = [for |-> "start", at |-> "first"] /\ gaveUp' = FALSE
    /\ UNCHANGED <<dir, photos, made, rec_file, fscan, vrec>>

\* video_rec_savefile up to the same point: the file is closed first.
SaveFile ==
    /\ vrec = "start" /\ job = NoJob /\ made < MaxRecs
    /\ SizeOf(rec_file) = Full \/ FreeSpace >= Full
    /\ dir' = Resized(dir, rec_file, Full) /\ rec_file' = NoRec
    /\ job' = [for |-> "save", at |-> "first"] /\ gaveUp' = FALSE
    /\ UNCHANGED <<photos, made, fscan, vrec>>

\* A file is deleted, oldest first, until there is room.
FreeRound ==
    /\ job.at \in {"first", "room"} /\ ~Enough /\ HasFirst
    /\ dir' = Without(dir, FirstFile) /\ TakeFirst
    /\ job' = [job EXCEPT !.at = "room"]
    /\ UNCHANGED <<photos, made, rec_file, vrec, gaveUp>>

\* Nothing to delete: video_rec_start tries again and finds the same.
GiveUp ==
    /\ job.at \in {"first", "room"} /\ ~Enough /\ ~HasFirst
    /\ fscan' = Scanned /\ gaveUp' = TRUE
    /\ vrec' = "stop" /\ job' = NoJob
    /\ UNCHANGED <<dir, photos, made, rec_file>>

RoomMade ==
    /\ job.at \in {"first", "room"} /\ Enough
    /\ job' = [job EXCEPT !.at = IF job.at = "first" THEN "create" ELSE "reuse"]
    /\ UNCHANGED <<dir, photos, made, rec_file, fscan, vrec, gaveUp>>

\* The new file becomes the open one; the server starts to write it, or not.
\* A start that fails stops again, which closes the file or fails too.
Begin(d, name) ==
    \/ dir' = d /\ rec_file' = name /\ vrec' = "start"
    \/ dir' = d /\ rec_file' \in {name, NoRec} /\ vrec' = "stop"

New(size) == [name |-> made + 1, size |-> size, locked |-> FALSE]

\* video_rec_rename_file: a sound file of the right size gets the new name and
\* is written over, any other is deleted.
Reuse ==
    /\ job.at = "reuse"
    /\ IF HasFirst
       THEN /\ TakeFirst
            /\ \/ /\ dir[FirstFile].size = Full
                  /\ made' = made + 1
                  /\ Begin(Append(Without(dir, FirstFile), New(Full)), made + 1)
                  /\ job' = NoJob
               \/ /\ dir' = Without(dir, FirstFile)
                  /\ job' = [job EXCEPT !.at = "create"]
                  /\ UNCHANGED <<made, rec_file, vrec>>
       ELSE /\ fscan' = Scanned /\ job' = [job EXCEPT !.at = "create"]
            /\ UNCHANGED <<dir, made, rec_file, vrec>>
    /\ UNCHANGED <<photos, gaveUp>>

\* video_rec_create_file.
CreateFile ==
    /\ job.at = "create"
    /\ \/ made' = made + 1 /\ Begin(Append(dir, New(0)), made + 1)
       \/ vrec' = "stop" /\ UNCHANGED <<dir, made, rec_file>>
    /\ job' = NoJob
    /\ UNCHANGED <<photos, fscan, gaveUp>>

-----------------------------------------------------------------------------
(* What happens between. *)

\* video_rec_stop: the file is closed as long as it is, or the server refuses
\* and it stays open; either way the recorder counts as stopped.
StopRec ==
    /\ vrec = "start" /\ job = NoJob
    /\ \E size \in 0..Full :
           /\ size >= SizeOf(rec_file) /\ size - SizeOf(rec_file) <= FreeSpace
           /\ dir' = Resized(dir, rec_file, size)
    /\ rec_file' \in {rec_file, NoRec}
    /\ vrec' = "stop"
    /\ UNCHANGED <<photos, made, fscan, job, gaveUp>>

TakePhoto ==
    /\ job = NoJob /\ photos < MaxPhotos /\ FreeSpace > 0
    /\ photos' = photos + 1 /\ gaveUp' = FALSE
    /\ UNCHANGED <<dir, made, rec_file, fscan, vrec, job>>

\* cmd_put_files_delete (an open file cannot be deleted), cmd_put_file_lock.
PhoneDeletes ==
    /\ job = NoJob /\ gaveUp' = FALSE
    /\ \E i \in DOMAIN dir : ~IsOpen(i) /\ dir' = Without(dir, i)
    /\ UNCHANGED <<photos, made, rec_file, fscan, vrec, job>>

PhoneLocks ==
    /\ job = NoJob /\ gaveUp' = FALSE
    /\ \E i \in DOMAIN dir : \E l \in BOOLEAN : dir' = [dir EXCEPT ![i].locked = l]
    /\ UNCHANGED <<photos, made, rec_file, fscan, vrec, job>>

\* video_rec_sd_out, APP_STA_PAUSE, video_rec_uninit.
ReleaseScan ==
    /\ job = NoJob
    /\ fscan' = NoScan
    /\ UNCHANGED <<dir, photos, made, rec_file, vrec, job, gaveUp>>

CycNext ==
    \/ StartRec \/ SaveFile \/ FreeRound \/ GiveUp \/ RoomMade \/ Reuse \/ CreateFile
    \/ StopRec \/ TakePhoto \/ PhoneDeletes \/ PhoneLocks \/ ReleaseScan

CycSpec == CycInit /\ [][CycNext]_cycVars

-----------------------------------------------------------------------------
(* Properties. *)

\* Making room never takes the file that is open, which a refused stop leaves
\* behind; and it is given up only when every other file is locked, however old
\* the scan is and whatever phones did since.
RoomRightly ==
    /\ rec_file # NoRec => rec_file \in Names
    /\ gaveUp => \A i \in Deletable : IsOpen(i)

\* A recording that has started can be written to its full size, whatever else
\* was put on the card, as long as photos take no more than two recordings.
StartedFits ==
    vrec = "start" /\ job = NoJob /\ MaxPhotos <= 2 * Full =>
        SizeOf(rec_file) = Full \/ FreeSpace >= Full
=============================================================================
