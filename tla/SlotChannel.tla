----------------------------- MODULE SlotChannel -----------------------------
(***************************************************************************)
(* What the live-stream writer promises for a stream of one medium: a      *)
(* one-place channel.  Frames are numbered in the order the server hands   *)
(* them over; each is put on the wire once, in order and none skipped,     *)
(* until the channel closes; a frame is accepted only after the previous   *)
(* one left.                                                               *)
(***************************************************************************)
EXTENDS Naturals

VARIABLES
    open,      \* is the writer serving the channel?
    sent,      \* the last frame accepted
    received   \* the last frame written to the stream

Init == ~open /\ sent = 0 /\ received = 0

Restart == ~open /\ open' = FALSE /\ sent' = 0 /\ received' = 0

Open == ~open /\ open' = TRUE /\ UNCHANGED <<sent, received>>

Accept == sent = received /\ sent' = sent + 1 /\ UNCHANGED <<open, received>>

Deliver == open /\ received + 1 = sent /\ received' = sent /\ UNCHANGED <<open, sent>>

Close == open /\ open' = FALSE /\ UNCHANGED <<sent, received>>

Next == Restart \/ Open \/ Accept \/ Deliver \/ Close

Spec == Init /\ [][Next]_<<open, sent, received>>
=============================================================================
