----------------------------- MODULE AviReader -----------------------------
(***************************************************************************)
(* simple_avi_unpkg.c: finding the frames of a recorded AVI file through   *)
(* its index.  Opening reads the whole index once and keeps, per frame,    *)
(* the distance to the frame before it in one byte; a request for frame n  *)
(* adds distances up, from the frame of the last request when it can.      *)
(*                                                                         *)
(* The index is a sequence of chunks: video, empty video (a frame that was *)
(* repeated), audio.  Positions in it count from 0, frames from 1.         *)
(***************************************************************************)
EXTENDS Integers, Sequences

CONSTANTS MaxChunks,   \* bound: chunks of a file
          AviByte      \* a distance is kept modulo AviByte: 256 in the code

ASSUME ByteAssumption == MaxChunks \in Nat /\ AviByte \in Nat \ {0}

VARIABLES
    index,    \* the index of the file
    handle,   \* avi_head_s[1]: the open reader
    answer    \* what the last request asked for and where it found it

aviVars == <<index, handle, answer>>

Video == {"v", "e"}
Audio == {"a"}
Indexes == UNION {[1..n -> Video \cup Audio] : n \in 0..MaxChunks}

\* The positions of a kind's chunks, in order.
Places(ix, kind) ==
    LET place[i \in 0..Len(ix)] ==
            IF i = 0 THEN <<>>
            ELSE IF ix[i] \in kind THEN Append(place[i - 1], i - 1) ELSE place[i - 1]
    IN  place[Len(ix)]

Closed == [open |-> FALSE, video |-> <<>>, audio |-> <<>>, vd |-> [num |-> 0, sum |-> 0],
           ad |-> [num |-> 0, sum |-> 0]]
NoAnswer == [kind |-> {}, num |-> 0, at |-> -1]
Nothing == -1

AviInit ==
    /\ index \in Indexes
    /\ handle = Closed
    /\ answer = NoAnswer

-----------------------------------------------------------------------------
(* avi_get_video_audio_chunk_num: the first distance is from the start. *)

Distances(ix, kind) ==
    LET at == Places(ix, kind)
    IN  [i \in DOMAIN at |-> (at[i] - (IF i = 1 THEN 0 ELSE at[i - 1])) % AviByte]

\* avi_other_find_index steps over the lists of the header and the data to the
\* index, or gives up: then the file has no frames.
FoundIndex == {index, <<>>}

\* avi_net_playback_unpkg_init: the header, then the index.
AviOpen ==
    /\ ~handle.open
    /\ \E ix \in FoundIndex :
           handle' = [Closed EXCEPT !.open = TRUE,
                      !.video = Distances(ix, Video), !.audio = Distances(ix, Audio)]
    /\ answer' = NoAnswer
    /\ UNCHANGED index

\* avi_net_unpkg_exit.
AviExit ==
    /\ handle.open
    /\ handle' = Closed
    /\ UNCHANGED <<index, answer>>

-----------------------------------------------------------------------------
(* A request. *)

\* The distances of the frames from + 1 to num.
Sum(d, from, num) ==
    LET s[i \in from..num] == IF i = from THEN 0 ELSE s[i - 1] + d[i]
    IN  s[num]

\* avi_audio_get_offset_cnt and avi_video_get_offset_cnt, what they share: the
\* sum continues from the last request, or starts again for a frame before it.
Continued_FromLast(d, last, num) ==
    [num |-> num, sum |-> last.sum + Sum(d, IF num < last.num THEN num ELSE last.num, num)]
Continued(d, last, num) ==
    [num |-> num,
     sum |-> IF num < last.num THEN Sum(d, 0, num) ELSE last.sum + Sum(d, last.num, num)]

Fresh == [num |-> 0, sum |-> 0]

\* From there the index is searched for the next chunk of the kind that is not
\* empty.
Search(kind, from) ==
    LET hits == {i \in DOMAIN index : i > from /\ index[i] \in kind \ {"e"}}
    IN  IF hits = {} THEN Nothing ELSE (CHOOSE i \in hits : \A j \in hits : i <= j) - 1

\* avi_video_get_frame and avi_video_set_frame_addr: frame 1 is searched from
\* the start, and forgets the last request.
GetVideo(num) ==
    LET total == Len(handle.video)
        cont == IF num <= 1 THEN Fresh ELSE Continued(handle.video, handle.vd, num)
    IN  /\ handle.open
        /\ IF num > total
           THEN answer' = [kind |-> Video, num |-> num, at |-> Nothing] /\ UNCHANGED handle
           ELSE /\ handle' = [handle EXCEPT !.vd = cont]
                /\ answer' = [kind |-> Video, num |-> num, at |-> Search(Video, cont.sum)]
        /\ UNCHANGED index

\* avi_audio_get_frame.
GetAudio(num) ==
    LET cont == Continued(handle.audio, IF num <= 1 THEN Fresh ELSE handle.ad,
                          IF num <= 1 THEN 1 ELSE num)
    IN  /\ handle.open
        /\ IF num > Len(handle.audio)
           THEN answer' = [kind |-> Audio, num |-> num, at |-> Nothing] /\ UNCHANGED handle
           ELSE /\ handle' = [handle EXCEPT !.ad = cont]
                /\ answer' = [kind |-> Audio, num |-> num, at |-> Search(Audio, cont.sum)]
        /\ UNCHANGED index

AviNext ==
    \/ AviOpen \/ AviExit
    \/ \E num \in 1..(MaxChunks + 1) : GetVideo(num) \/ GetAudio(num)

AviSpec == AviInit /\ [][AviNext]_aviVars

-----------------------------------------------------------------------------
(* Properties. *)

\* No two frames of a kind are further apart than a byte can say.
DistancesFit ==
    \A kind \in {Video, Audio} :
        LET at == Places(index, kind)
        IN  \A i \in DOMAIN at : at[i] - (IF i = 1 THEN 0 ELSE at[i - 1]) < AviByte

\* Where the frame asked for may be, as the index says: its place or a later one
\* of its kind that is not empty.
Here(kind, num) ==
    LET at == Places(index, kind)
    IN  {i \in DOMAIN index : /\ num \in DOMAIN at /\ i - 1 >= at[num]
                              /\ index[i] \in kind \ {"e"}}

\* Whatever was asked before, in whatever order, the answer to a request is the
\* frame of that number, or the next that is not empty, and nothing only if
\* there is none or the index was not found.
AnswerRight ==
    DistancesFit /\ handle.open /\ answer # NoAnswer =>
        LET here == Here(answer.kind, answer.num)
            found == handle.video # <<>> \/ handle.audio # <<>>
        IN  IF found /\ here # {}
            THEN answer.at + 1 \in here /\ \A i \in here : answer.at + 1 <= i
            ELSE answer.at = Nothing
=============================================================================
