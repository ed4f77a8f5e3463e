------------------------------ MODULE PlayOut -------------------------------
(***************************************************************************)
(* What one playback session sends: the frames, the sound and the dates of *)
(* video_playback_cli_thread (wifi/video_playback.c) with the packets and  *)
(* the choice of the next file of wifi/packet.c, and the conversions       *)
(* between pictures and sound of simple_avi_unpkg.c.  The phone seeks when *)
(* it starts and changes the speed while the thread runs; the list of      *)
(* files loses entries meanwhile.  (Playback models the sessions.)         *)
(***************************************************************************)
EXTENDS Integers, Sequences, SequencesExt, FiniteSets

CONSTANTS
    PlayFiles,    \* the files on the list
    Times,        \* when each was made; two may have the same time
    Photos,       \* those that are no videos
    PlayFrames, Chunks,  \* pictures and chunks of sound of every video
    Fps, Second,  \* pictures in a second; units of time in a second
    Levels,       \* bound: the levels of fast play the phone asks for
    MaxOffset,    \* bound: where the phone starts, in units
    MaxSilent,    \* bound: chunks of sound that cannot be sent
    MaxSpeeds,    \* bound: changes of speed
    NoFile

ASSUME PlayAssumption ==
    /\ PlayFrames \in Nat \ {0} /\ Chunks \in Nat \ {0}
    /\ Fps \in Nat \ {0} /\ Second \in Nat /\ Second \div Fps \in Nat \ {0}
    /\ Times \in [PlayFiles -> Nat \ {0}] /\ Photos \subseteq PlayFiles
    /\ NoFile \notin PlayFiles /\ Levels \subseteq Nat

VARIABLES
    vf_list,     \* vf_list.txt
    file,         \* the file played; NoFile before and after
    i, j,         \* the next picture and the next chunk of sound
    last_video_num, fast_num,
    fast_ctrl,    \* a step in sixteenths of a picture; 0 is the normal speed
    tmp_is_30fps, \* the picture the last date belongs to
    clock,        \* pinfo.time, in seconds after the file's own time
    told,         \* ghost: the last date sent, in the same seconds
    begun,        \* ghost: the picture this file was begun at
    sent,         \* ghost: the last picture sent; -1: none of this file
    heard,        \* ghost: the last chunk sent and the picture it came with
    silent, changes

playVars == <<vf_list, file, i, j, last_video_num, fast_num, fast_ctrl, tmp_is_30fps,
              clock, told, begun, sent, heard, silent, changes>>

Videos == PlayFiles \ Photos
Unheard == [chunk |-> 0, at |-> 0]

PlayInit ==
    /\ vf_list \in {l \in [1..Cardinality(PlayFiles) -> PlayFiles] : IsInjective(l)}
    /\ file = NoFile
    /\ i = 0 /\ j = 0 /\ last_video_num = 0 /\ fast_num = 0 /\ fast_ctrl = 0
    /\ tmp_is_30fps = 0 /\ clock = 0 /\ told = 0 /\ begun = 0 /\ sent = -1
    /\ heard = Unheard
    /\ silent = 0 /\ changes = 0

-----------------------------------------------------------------------------
(* The conversions. *)

avi_audio_base_to_get_video_frame(chunk) == ((chunk + 1) * PlayFrames) \div Chunks
avi_video_base_to_get_audio_frame(frame) == ((frame + 1) * Chunks) \div PlayFrames

\* The time of a picture is taken in whole milliseconds.
avi_get_video_num(offset) == offset \div (Second \div Fps)

-----------------------------------------------------------------------------
(* play_next. *)

Later(l, from, time) ==
    {k \in DOMAIN l : k >= from /\ l[k] \in Videos /\ Times[l[k]] > time}

Least(ks) == CHOOSE k \in ks : \A m \in ks : k <= m

\* The first later video after f in the list; then, if the list ends with a
\* video, the first later one from the top.  A file that left the list counts
\* as older than all.
NextOf(l, f) ==
    LET known == f \in Range(l)
        from == IF known THEN CHOOSE k \in DOMAIN l : l[k] = f ELSE 1
        time == IF known THEN Times[f] ELSE 0
        behind == Later(l, from, time)
        all == Later(l, 1, time)
    IN  IF behind # {} THEN l[Least(behind)]
        ELSE IF all # {} /\ Last(l) \in Videos THEN l[Least(all)]
        ELSE NoFile

-----------------------------------------------------------------------------
(* The thread. *)

\* get_video_media_info and send_media_packet: the file's own date is taken and
\* sent.
Opens(f) == file' = f /\ told' = 0

\* The start: the picture at the offset.  The date is moved there after the file's
\* own was sent, and the phone is not told.
PlayStart ==
    /\ file = NoFile /\ sent = -1
    /\ \E f \in Videos, offset \in 0..MaxOffset :
         /\ Opens(f)
         /\ i' = avi_get_video_num(offset)
         /\ clock' = offset \div Second
    /\ tmp_is_30fps' = i' /\ begun' = i'
    /\ j' = avi_video_base_to_get_audio_frame(i')
    /\ last_video_num' = 0 /\ fast_num' = 0
    /\ UNCHANGED <<vf_list, fast_ctrl, sent, heard, silent, changes>>

SoundDue == fast_ctrl = 0 /\ (i >= last_video_num \/ fast_num > 0) /\ j < Chunks

\* Where sound and picture go on after fast play.
Resumed ==
    IF fast_num = 0 THEN [i |-> i, j |-> j, last |-> last_video_num]
    ELSE LET chunk == avi_video_base_to_get_audio_frame(i)
             frame == avi_audio_base_to_get_video_frame(chunk - 1)
         IN  [j |-> chunk, last |-> frame, i |-> IF i < frame THEN frame ELSE i]

\* The date moves on and is sent, when a second is over.
send_date_packet(sec) ==
    /\ clock' = clock + sec
    /\ told' = IF sec # 0 THEN clock' ELSE told

\* send_audio_packet for chunk c with picture at: sent, or to be tried again.
SoundSent(c, at) == heard' = [chunk |-> c, at |-> at] /\ j' = c + 1 /\ UNCHANGED silent
SoundFails(c) ==
    /\ j' = c /\ UNCHANGED heard
    /\ IF c < Chunks THEN silent < MaxSilent /\ silent' = silent + 1 ELSE UNCHANGED silent

\* Mutant: the pictures of a second begun are forgotten, as in the function of
\* the same name of wifi/video_preview.c.
send_date_per_fps_Drops(at) ==
    LET sec == (at - tmp_is_30fps) \div Fps IN
    /\ send_date_packet(sec)
    /\ tmp_is_30fps' = IF sec > 0 THEN at ELSE tmp_is_30fps

send_date_per_fps(at) ==
    LET sec == (at - tmp_is_30fps) \div Fps
        r == (at - tmp_is_30fps) % Fps IN
    /\ send_date_packet(sec)
    /\ tmp_is_30fps' = IF sec > 0 THEN at - r ELSE tmp_is_30fps

\* A picture goes out, a date when a second is over, and the next is chosen.
Picture(at) ==
    /\ sent' = at
    /\ send_date_per_fps(at)
    /\ i' = at + (IF fast_ctrl = 0 THEN 1 ELSE fast_ctrl \div 16)

\* Once through the loop, when there is a picture.  Sound that cannot be sent is
\* tried again with the next one.
Round ==
    /\ file # NoFile
    /\ LET s == IF SoundDue THEN Resumed ELSE [i |-> i, j |-> j, last |-> last_video_num] IN
       /\ \/ /\ SoundDue /\ s.j < Chunks
             /\ SoundSent(s.j, s.i)
             /\ last_video_num' = avi_audio_base_to_get_video_frame(s.j)
          \/ SoundDue /\ SoundFails(s.j) /\ last_video_num' = s.last
          \/ ~SoundDue /\ UNCHANGED <<heard, j, last_video_num, silent>>
       /\ fast_num' = (IF SoundDue THEN 0 ELSE fast_num) + fast_ctrl \div 16
       /\ s.i < PlayFrames /\ Picture(s.i)
    /\ UNCHANGED <<vf_list, file, begun, fast_ctrl, changes>>

\* The file is over, or a picture cannot be read: the next file from its
\* beginning, or the end.  What fast play counted is kept.
NextFile ==
    /\ file # NoFile
    /\ Opens(NextOf(vf_list, file))
    /\ clock' = 0 /\ begun' = 0
    /\ i' = 0 /\ j' = 0 /\ last_video_num' = 0 /\ tmp_is_30fps' = 0
    /\ sent' = (IF file' = NoFile THEN sent ELSE -1) /\ heard' = Unheard
    /\ silent' = 0
    /\ UNCHANGED <<vf_list, fast_num, fast_ctrl, changes>>

-----------------------------------------------------------------------------
(* The others. *)

\* cmd_put_time_axis_fast_play: level 1 skips two pictures, each higher one twice
\* as many as the one below; fast_ctrl has 16 bits.
SpeedOf(level) == IF level = 0 THEN 0 ELSE (2^(level - 1) * 32) % 2^16

\* playback_cli_fast_play, in the task of the commands.
SetSpeed(level) ==
    /\ file # NoFile /\ changes < MaxSpeeds
    /\ fast_ctrl' = SpeedOf(level) /\ changes' = changes + 1
    /\ UNCHANGED <<vf_list, file, i, j, last_video_num, fast_num, tmp_is_30fps, clock,
                   told, begun, sent, heard, silent>>

\* A file is deleted, the one that is played perhaps.
Unlist(f) ==
    /\ file # NoFile /\ f \in Range(vf_list)
    /\ vf_list' = Remove(vf_list, f)
    /\ UNCHANGED <<file, i, j, last_video_num, fast_num, fast_ctrl, tmp_is_30fps, clock,
                   told, begun, sent, heard, silent, changes>>

PlayNext ==
    \/ PlayStart \/ Round \/ NextFile
    \/ \E level \in Levels \cup {0} : SetSpeed(level)
    \/ \E f \in PlayFiles : Unlist(f)

PlaySpec == PlayInit /\ [][PlayNext]_playVars

-----------------------------------------------------------------------------
(* Properties. *)

\* The date the phone has.  For less than a second of pictures after it started or
\* the file began, that is the file's own date, wherever it started: the offset is
\* not sent.  After that, however it changes the speed, the date lags behind the
\* picture it was last sent by less than two seconds and never runs ahead, if a
\* picture takes a whole number of milliseconds.
DateInStep ==
    IF sent - begun < Fps THEN told = 0
    ELSE Second % Fps = 0 => sent \div Fps - told \in 0..1

\* The date is in step; and a chunk of sound comes with the first picture it
\* belongs to, or the next, but for the chunks that could not be sent, if the file
\* has no more of them than pictures: at most one goes out with a picture.
InStep ==
    file # NoFile /\ sent >= 0 =>
        /\ DateInStep
        /\ Chunks <= PlayFrames =>
               avi_video_base_to_get_audio_frame(heard.at) - heard.chunk
                   \in 0..(1 + silent)

=============================================================================
