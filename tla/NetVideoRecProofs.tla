------------------------- MODULE NetVideoRecProofs -------------------------
(***************************************************************************)
(* Proofs about NetVideoRec.  Each C function gets a lemma that says what  *)
(* it does to the state it is called in; then each step, of a handler or   *)
(* of another thread, keeps one inductive invariant, Inv, whose parts are  *)
(* conditional on what the history says was switched apart.                *)
(***************************************************************************)
EXTENDS NetVideoRec, TLAPS

\* What the client asks for is the same.
SameWish(s, t) == t.open = s.open /\ t.art = s.art /\ t.vrt = s.vrt

\* A call into the recorder leaves the live stream alone.
StreamAlone(s, t) ==
    /\ SameWish(s, t)
    /\ t.net = s.net /\ t.nh = s.nh /\ t.live = s.live /\ t.task = s.task

\* The recorder's handle is there when the recorder runs, and nobody freed it.
RecSane(s) == s.rh # "freed" /\ (s.rec = "start" => s.rh = "open")

Intent(s) == s.net = "start" => s.open /\ Wanted(s)

Shares(s) ==
    /\ s.net = "start" =>
           IF s.rec = "start"
           THEN s.nh = "rec" /\ s.task /\ s.rh = "open"
           ELSE s.nh = "own" /\ s.live = "own" /\ ~s.task
    /\ s.net # "start" => s.nh # "rec" /\ ~s.task

\* The stream has nothing of the recorder's unless both run.
Lends(s) == (s.net = "start" /\ s.rec = "start") \/ (s.nh # "rec" /\ ~s.task)

\* The stream is down and has given back what it borrowed.
Down(s) == s.net # "start" /\ s.nh # "rec" /\ ~s.task

RecStep(s, t) ==
    /\ t \in State
    /\ StreamAlone(s, t)
    /\ RecSane(s) => RecSane(t)

-----------------------------------------------------------------------------
(* Outcomes. *)

LEMMA OkFact == ASSUME NEW s, NEW r \in Ok(s) PROVE r.st = s /\ r.err = FALSE
  BY DEF Ok

LEMMA FailFact == ASSUME NEW s, NEW r \in Fail(s) PROVE r.st = s /\ r.err = TRUE
  BY DEF Fail

LEMMA FaultFact ==
    ASSUME NEW s \in State, NEW kind, NEW r \in Fault(kind, s)
    PROVE  /\ r.st \in State /\ r.err = TRUE
           /\ r.st = [s EXCEPT !.faults = @ \cup {kind}]
  <1>1. [s EXCEPT !.faults = @ \cup {kind}] \in State
    <2>1. kind \in FaultKinds
      BY FaultsAssumption DEF Fault
    <2>2. s.faults \cup {kind} \in SUBSET FaultKinds
      BY <2>1 DEF State
    <2> QED BY <2>2 DEF State
  <1>2. r \in Fail([s EXCEPT !.faults = @ \cup {kind}])
    BY DEF Fault
  <1> QED BY <1>1, <1>2, FailFact

\* A failed call changes nothing but the record of what failed.
LEMMA FaultAlone ==
    ASSUME NEW s \in State, NEW kind, NEW r \in Fault(kind, s)
    PROVE  /\ r.st \in State /\ r.err = TRUE
           /\ StreamAlone(s, r.st)
           /\ r.st.rec = s.rec /\ r.st.rh = s.rh
  <1>1. /\ r.st \in State /\ r.err = TRUE
        /\ r.st = [s EXCEPT !.faults = @ \cup {kind}]
    BY FaultFact
  <1> QED BY <1>1 DEF StreamAlone, SameWish, State

-----------------------------------------------------------------------------
(* The recorder. *)

LEMMA RecStop0 ==
    ASSUME NEW s \in State, NEW r \in video0_rec_stop(s)
    PROVE  /\ r.st \in State /\ StreamAlone(s, r.st)
           /\ r.st.rec = s.rec /\ r.st.rh = s.rh
  <1>1. r \in Ok(CloseFile(s)) \/ r \in Fault("recStop", s)
    BY DEF video0_rec_stop
  <1>2. CASE r \in Ok(CloseFile(s))
    <2>1. r.st = [s EXCEPT !.file = FALSE]
      BY <1>2, OkFact DEF CloseFile
    <2> QED BY <2>1 DEF State, StreamAlone, SameWish
  <1>3. CASE r \in Fault("recStop", s)
    BY <1>3, FaultAlone
  <1> QED BY <1>1, <1>2, <1>3

LEMMA RecStop ==
    ASSUME NEW s \in State, NEW r \in video_rec_stop(s)
    PROVE  RecStep(s, r.st)
  <1>1. CASE s.rec # "start"
    BY <1>1, OkFact DEF video_rec_stop, RecStep, StreamAlone, SameWish
  <1>2. CASE s.rec = "start"
    <2>1. PICK q \in video0_rec_stop(s) : r \in Ok([q.st EXCEPT !.rec = "stop"])
      BY <1>2 DEF video_rec_stop, Then
    <2>2. r.st = [q.st EXCEPT !.rec = "stop"]
      BY <2>1, OkFact
    <2>3. q.st \in State /\ StreamAlone(s, q.st) /\ q.st.rh = s.rh
      BY RecStop0
    <2> QED BY <2>2, <2>3 DEF RecStep, RecSane, StreamAlone, SameWish, State
  <1> QED BY <1>1, <1>2

LEMMA RecFile ==
    ASSUME NEW s \in State, NEW r \in video_rec_del_old_file(s)
    PROVE  r.st \in State /\ StreamAlone(s, r.st)
           /\ r.st.rec = s.rec /\ r.st.rh = s.rh
  <1>1. r \in Ok([s EXCEPT !.file = TRUE, !.lost = @ \/ s.file])
        \/ r \in Fault("other", s)
    BY DEF video_rec_del_old_file
  <1>2. CASE r \in Ok([s EXCEPT !.file = TRUE, !.lost = @ \/ s.file])
    <2>1. r.st = [s EXCEPT !.file = TRUE, !.lost = @ \/ s.file]
      BY <1>2, OkFact
    <2>2. (s.lost \/ s.file) \in BOOLEAN
      OBVIOUS
    <2> QED BY <2>1, <2>2 DEF State, StreamAlone, SameWish
  <1>3. CASE r \in Fault("other", s)
    BY <1>3, FaultAlone
  <1> QED BY <1>1, <1>2, <1>3

LEMMA RecStart0 ==
    ASSUME NEW s \in State, NEW r \in video0_rec_start(s)
    PROVE  RecStep(s, r.st)
  <1>1. PICK q \in IF s.rh = "none"
                   THEN Ok([s EXCEPT !.rh = "open"]) \cup Fault("other", s)
                   ELSE Ok(s) :
            r \in IF q.err THEN {q}
                  ELSE Ok([q.st EXCEPT !.rec = "start"]) \cup Fault("other", q.st)
    BY DEF video0_rec_start, OnOk
  <1>2. /\ q.st \in State /\ StreamAlone(s, q.st)
        /\ RecSane(s) => RecSane(q.st) /\ (~q.err => q.st.rh = "open")
    <2>1. CASE q \in Ok([s EXCEPT !.rh = "open"])
      <3>1. q.st = [s EXCEPT !.rh = "open"]
        BY <2>1, OkFact
      <3> QED BY <3>1 DEF State, StreamAlone, SameWish, RecSane
    <2>2. CASE q \in Fault("other", s)
      BY <2>2, FaultAlone DEF RecSane
    <2>3. CASE q \in Ok(s) /\ s.rh # "none"
      <3>1. q.st = s
        BY <2>3, OkFact
      <3> QED BY <2>3, <3>1 DEF State, StreamAlone, SameWish, RecSane
    <2> QED BY <1>1, <2>1, <2>2, <2>3
  <1>3. CASE q.err /\ r = q
    BY <1>2, <1>3 DEF RecStep
  <1>4. CASE ~q.err /\ r \in Ok([q.st EXCEPT !.rec = "start"])
    <2>1. r.st = [q.st EXCEPT !.rec = "start"]
      BY <1>4, OkFact
    <2>2. r.st \in State /\ r.st.rec = "start" /\ r.st.rh = q.st.rh
      BY <1>2, <2>1 DEF State
    <2>3. StreamAlone(q.st, r.st)
      BY <1>2, <2>1 DEF State, StreamAlone, SameWish
    <2>4. StreamAlone(s, r.st)
      BY <1>2, <2>3 DEF StreamAlone, SameWish
    <2>5. RecSane(s) => RecSane(r.st)
      BY <1>2, <1>4, <2>2 DEF RecSane
    <2> QED BY <2>2, <2>4, <2>5 DEF RecStep
  <1>5. CASE ~q.err /\ r \in Fault("other", q.st)
    <2>1. r.st \in State /\ StreamAlone(q.st, r.st) /\ r.st.rec = q.st.rec
          /\ r.st.rh = q.st.rh
      <3>1. q.st \in State /\ r \in Fault("other", q.st)
        BY <1>2, <1>5
      <3> QED BY ONLY <3>1, FaultAlone
    <2>2. StreamAlone(s, r.st)
      BY <1>2, <2>1 DEF StreamAlone, SameWish
    <2>3. RecSane(s) => RecSane(r.st)
      BY <1>2, <2>1 DEF RecSane
    <2> QED BY <2>1, <2>2, <2>3 DEF RecStep
  <1> QED BY <1>1, <1>3, <1>4, <1>5

LEMMA RecStart ==
    ASSUME NEW s \in State, NEW r \in video_rec_start(s)
    PROVE  RecStep(s, r.st)
  <1>1. CASE r \in Ok(s)
    BY <1>1, OkFact DEF RecStep, StreamAlone, SameWish
  <1>2. CASE r \notin Ok(s)
    <2>1. PICK q \in video_rec_del_old_file(s) :
              \/ r = q
              \/ \E p \in video0_rec_start(q.st) :
                     r = p \/ \E o \in video0_rec_stop(p.st) :
                                  r = [st |-> o.st, err |-> TRUE]
      BY <1>2 DEF video_rec_start, OnOk, OnErr
    <2>2. q.st \in State /\ StreamAlone(s, q.st) /\ q.st.rec = s.rec
          /\ q.st.rh = s.rh
      BY RecFile
    <2>3. CASE r = q
      BY <2>2, <2>3 DEF RecStep, RecSane
    <2>4. CASE r # q
      <3>1. PICK p \in video0_rec_start(q.st) :
                r = p \/ \E o \in video0_rec_stop(p.st) :
                             r = [st |-> o.st, err |-> TRUE]
        BY <2>1, <2>4
      <3>2. RecStep(q.st, p.st)
        BY <2>2, RecStart0
      <3>3. \A o \in video0_rec_stop(p.st) :
                /\ o.st \in State /\ StreamAlone(p.st, o.st)
                /\ o.st.rec = p.st.rec /\ o.st.rh = p.st.rh
        BY <3>2, RecStop0 DEF RecStep
      <3> QED BY <2>2, <3>1, <3>2, <3>3 DEF RecStep, StreamAlone, SameWish, RecSane
    <2> QED BY <2>3, <2>4
  <1> QED BY <1>1, <1>2

LEMMA RecControlDoing ==
    ASSUME NEW s \in State, NEW r \in video_rec_control_doing(s)
    PROVE  RecStep(s, r.st)
  BY RecStop, RecStart DEF video_rec_control_doing

\* Taking the next file may stop the recorder, and nothing else.
LEMMA SavefileShape ==
    ASSUME NEW s \in State, NEW r \in video_rec_savefile(s)
    PROVE  \/ r.st = s
           \/ s.rec = "start" /\ r.st = [s EXCEPT !.file = TRUE]
           \/ /\ s.rec = "start"
              /\ \E f \in BOOLEAN : \E p \in Fault("other", [s EXCEPT !.file = f]) :
                     \E q \in video0_rec_stop(p.st) : r.st = [q.st EXCEPT !.rec = "stop"]
  <1>1. CASE s.rec # "start"
    BY <1>1, OkFact DEF video_rec_savefile
  <1>2. CASE s.rec = "start"
    <2>1. PICK p \in Ok([s EXCEPT !.file = TRUE])
                     \cup UNION {Fault("other", [s EXCEPT !.file = f]) : f \in BOOLEAN} :
              r \in IF p.err
                    THEN {[st |-> q.st, err |-> TRUE]
                          : q \in Then(video0_rec_stop(p.st),
                                       LAMBDA u : Ok([u EXCEPT !.rec = "stop"]))}
                    ELSE {p}
      BY <1>2 DEF video_rec_savefile, OnErr
    <2>2. CASE p \in Ok([s EXCEPT !.file = TRUE])
      <3>1. p.st = [s EXCEPT !.file = TRUE] /\ p.err = FALSE
        BY <2>2, OkFact
      <3> QED BY <1>2, <2>1, <3>1
    <2>3. CASE \E f \in BOOLEAN : p \in Fault("other", [s EXCEPT !.file = f])
      <3>1. PICK f \in BOOLEAN : p \in Fault("other", [s EXCEPT !.file = f])
        BY <2>3
      <3>2. [s EXCEPT !.file = f] \in State
        BY DEF State
      <3>3. p.err = TRUE
        BY <3>1, <3>2, FaultFact
      <3>4. PICK o \in Then(video0_rec_stop(p.st),
                            LAMBDA u : Ok([u EXCEPT !.rec = "stop"])) :
                r = [st |-> o.st, err |-> TRUE]
        BY <2>1, <3>3
      <3>5. PICK q \in video0_rec_stop(p.st) : o \in Ok([q.st EXCEPT !.rec = "stop"])
        BY DEF Then
      <3>6. r.st = [q.st EXCEPT !.rec = "stop"]
        BY <3>4, <3>5, OkFact
      <3> QED BY <1>2, <3>1, <3>6
    <2> QED BY <2>1, <2>2, <2>3
  <1> QED BY <1>1, <1>2

LEMMA RecSavefile ==
    ASSUME NEW s \in State, NEW r \in video_rec_savefile(s)
    PROVE  RecStep(s, r.st) /\ (s.rec # "start" => r.st.rec = s.rec)
  <1>1. CASE r.st = s \/ (s.rec = "start" /\ r.st = [s EXCEPT !.file = TRUE])
    BY <1>1 DEF RecStep, RecSane, State, StreamAlone, SameWish
  <1>2. CASE s.rec = "start" /\ r.st # s /\ r.st # [s EXCEPT !.file = TRUE]
    <2>0. PICK f \in BOOLEAN :
              \E p \in Fault("other", [s EXCEPT !.file = f]) :
                  \E q \in video0_rec_stop(p.st) : r.st = [q.st EXCEPT !.rec = "stop"]
      BY <1>2, SavefileShape
    <2>1. PICK p \in Fault("other", [s EXCEPT !.file = f]) :
              \E q \in video0_rec_stop(p.st) : r.st = [q.st EXCEPT !.rec = "stop"]
      BY <2>0
    <2> DEFINE u == [s EXCEPT !.file = f]
    <2>2. u \in State /\ StreamAlone(s, u) /\ u.rh = s.rh
      BY DEF State, StreamAlone, SameWish
    <2> HIDE DEF u
    <2>3. p.st \in State /\ StreamAlone(u, p.st) /\ p.st.rh = u.rh
      BY <2>2, FaultAlone DEF u
    <2>4. PICK q \in video0_rec_stop(p.st) : r.st = [q.st EXCEPT !.rec = "stop"]
      BY <2>1
    <2>5. q.st \in State /\ StreamAlone(p.st, q.st) /\ q.st.rh = p.st.rh
      BY <2>3, RecStop0
    <2>6. StreamAlone(s, q.st) /\ q.st.rh = s.rh
      BY <2>2, <2>3, <2>5 DEF StreamAlone, SameWish
    <2> QED BY <1>2, <2>4, <2>5, <2>6 DEF RecStep, RecSane, State, StreamAlone, SameWish
  <1> QED BY <1>1, <1>2, SavefileShape

-----------------------------------------------------------------------------
(* The stream. *)

LEMMA CloseHandleFact ==
    ASSUME NEW s \in State
    PROVE  /\ CloseHandle(s) \in State /\ SameWish(s, CloseHandle(s))
           /\ CloseHandle(s).net = s.net /\ CloseHandle(s).nh = "null"
           /\ CloseHandle(s).task = s.task /\ CloseHandle(s).rec = s.rec
           /\ s.nh # "rec" => CloseHandle(s).rh = s.rh
  BY DEF CloseHandle, State, SameWish

LEMMA NetStop0 ==
    ASSUME NEW s \in State, NEW close \in BOOLEAN,
           NEW r \in net_video_rec0_stop(s, close)
    PROVE  /\ r.st \in State /\ SameWish(s, r.st) /\ r.st.net # "start"
           /\ RecSane(s) /\ (s.rec = "start" \/ (s.nh # "rec" /\ ~s.task))
                  => RecSane(r.st) /\ Down(r.st)
  <1>1. CASE s.rec = "start"
    <2>1. r.st = [s EXCEPT !.task = FALSE, !.nh = "null", !.net = "stop",
                           !.orphan = @ \/ s.nh = "own"]
      BY <1>1, OkFact DEF net_video_rec0_stop
    <2>2. (s.orphan \/ s.nh = "own") \in BOOLEAN
      OBVIOUS
    <2> QED BY <2>1, <2>2 DEF State, SameWish, RecSane, Down
  <1>2. CASE s.rec # "start"
    <2> DEFINE t == [s EXCEPT !.live = IF @ = s.nh THEN "off" ELSE @, !.net = "stop"]
               u == [s EXCEPT !.net = "stoping"]
    <2>1. \/ r \in Fault("ownStop", u)
          \/ r \in Ok(t)
          \/ r \in Ok(CloseHandle(t))
      <3>1. PICK q \in Ok(t) \cup Fault("ownStop", u) :
                \/ q.err /\ r = q
                \/ ~q.err /\ r \in Ok(IF close THEN CloseHandle(q.st) ELSE q.st)
        BY <1>2 DEF net_video_rec0_stop, OnOk
      <3>2. CASE q \in Ok(t)
        <4>1. q.st = t /\ q.err = FALSE
          BY <3>2, OkFact
        <4> QED BY <3>1, <4>1
      <3>3. CASE q \in Fault("ownStop", u)
        <4>1. u \in State
          BY DEF State
        <4>2. q.err
          BY <3>3, <4>1, FaultAlone
        <4> QED BY <3>1, <3>3, <4>2
      <3> QED BY <3>1, <3>2, <3>3
    <2>2. CASE r \in Fault("ownStop", u)
      <3>1. u \in State /\ SameWish(s, u) /\ u.net = "stoping" /\ u.rec = s.rec
            /\ u.rh = s.rh /\ u.nh = s.nh /\ u.task = s.task
        BY DEF State, SameWish
      <3> HIDE DEF u
      <3>2. r.st \in State /\ StreamAlone(u, r.st) /\ r.st.rec = u.rec /\ r.st.rh = u.rh
        BY <2>2, <3>1, FaultAlone
      <3>3. /\ SameWish(u, r.st) /\ r.st.net = u.net /\ r.st.nh = u.nh /\ r.st.task = u.task
        BY <3>2 DEF StreamAlone
      <3>4. SameWish(s, r.st)
        BY <3>1, <3>3 DEF SameWish
      <3> QED BY <1>2, <3>1, <3>2, <3>3, <3>4 DEF RecSane, Down
    <2>3. /\ t \in State /\ SameWish(s, t) /\ t.net = "stop" /\ t.rec = s.rec
          /\ t.rh = s.rh /\ t.nh = s.nh /\ t.task = s.task
      BY DEF State, SameWish
    <2> HIDE DEF t
    <2>4. CASE r \in Ok(t)
      <3>1. r.st = t
        BY <2>4, OkFact
      <3> QED BY <1>2, <2>3, <3>1 DEF RecSane, Down
    <2>5. CASE r \in Ok(CloseHandle(t))
      <3>1. r.st = CloseHandle(t)
        BY <2>5, OkFact
      <3>2. /\ CloseHandle(t) \in State /\ SameWish(t, CloseHandle(t))
            /\ CloseHandle(t).net = t.net /\ CloseHandle(t).nh = "null"
            /\ CloseHandle(t).task = t.task /\ CloseHandle(t).rec = t.rec
            /\ t.nh # "rec" => CloseHandle(t).rh = t.rh
        BY <2>3, CloseHandleFact
      <3> QED BY <1>2, <2>3, <3>1, <3>2 DEF SameWish, RecSane, Down
    <2> QED BY <2>1, <2>2, <2>4, <2>5
  <1> QED BY <1>1, <1>2

LEMMA NetStop0Shape ==
    ASSUME NEW s, NEW close, NEW r \in net_video_rec0_stop(s, close)
    PROVE  r = [st |-> r.st, err |-> r.err]
  <1> DEFINE Shaped(x) == x = [st |-> x.st, err |-> x.err]
  <1>1. \A u : \A x \in Ok(u) : Shaped(x)
    BY DEF Ok
  <1>2. \A kind, u : \A x \in Fault(kind, u) : Shaped(x)
    BY DEF Fault, Fail
  <1>3. CASE s.rec = "start"
    BY <1>1, <1>3 DEF net_video_rec0_stop
  <1>4. CASE s.rec # "start"
    <2>1. PICK q \in Ok([s EXCEPT !.live = IF @ = s.nh THEN "off" ELSE @, !.net = "stop"])
                     \cup Fault("ownStop", [s EXCEPT !.net = "stoping"]) :
              r \in IF q.err THEN {q} ELSE Ok(IF close THEN CloseHandle(q.st) ELSE q.st)
      BY <1>4 DEF net_video_rec0_stop, OnOk
    <2>2. Shaped(q)
      BY <1>1, <1>2
    <2>3. CASE q.err
      BY <2>1, <2>2, <2>3
    <2>4. CASE ~q.err
      BY <1>1, <2>1, <2>4
    <2> QED BY <2>3, <2>4
  <1> QED BY <1>3, <1>4

LEMMA NetStopMarked ==
    ASSUME NEW s \in State, s.net = "start", NEW r \in net_video0_rec_stop(s, TRUE)
    PROVE  /\ r.st \in State /\ SameWish(s, r.st) /\ r.st.net # "start"
           /\ RecSane(s) /\ Lends(s) => RecSane(r.st) /\ Down(r.st)
  <1>1. PICK q \in net_video_rec0_stop(s, TRUE) : r = [q EXCEPT !.st.net = "stop"]
    BY DEF net_video0_rec_stop
  <1>2. /\ q.st \in State /\ SameWish(s, q.st)
        /\ RecSane(s) /\ (s.rec = "start" \/ (s.nh # "rec" /\ ~s.task))
               => RecSane(q.st) /\ Down(q.st)
    BY NetStop0
  <1>3. r.st = [q.st EXCEPT !.net = "stop"]
    BY <1>1, NetStop0Shape
  <1>4. /\ r.st \in State /\ SameWish(q.st, r.st) /\ r.st.net = "stop"
        /\ r.st.rec = q.st.rec /\ r.st.rh = q.st.rh /\ r.st.nh = q.st.nh
        /\ r.st.task = q.st.task
    BY <1>2, <1>3 DEF State, SameWish
  <1>5. ASSUME RecSane(s), Lends(s) PROVE RecSane(r.st) /\ Down(r.st)
    <2>1. s.rec = "start" \/ (s.nh # "rec" /\ ~s.task)
      BY <1>5 DEF Lends
    <2>2. RecSane(q.st) /\ Down(q.st)
      BY <1>2, <1>5, <2>1
    <2> QED BY <1>4, <2>2 DEF RecSane, Down
  <1> QED BY <1>2, <1>4, <1>5 DEF SameWish

\* What net_video_rec0_start leaves, whether or not it succeeds.
Started(s, r) ==
    /\ r.st \in State /\ r.err \in BOOLEAN
    /\ SameWish(s, r.st) /\ r.st.rec = s.rec /\ r.st.rh = s.rh
    /\ s.rec # "start" /\ s.nh # "rec" /\ ~s.task => r.st.nh # "rec" /\ ~r.st.task
    /\ ~r.err /\ s.rec = "start" => r.st.nh = "rec" /\ r.st.task
    /\ ~r.err /\ s.rec # "start" /\ s.nh # "rec" =>
           r.st.nh = "own" /\ r.st.live = "own"

LEMMA TaskCreate ==
    ASSUME NEW s \in State, NEW r \in stream_protocol_task_create(s)
    PROVE  /\ r.st \in State /\ r.err \in BOOLEAN
           /\ SameWish(s, r.st) /\ r.st.rec = s.rec /\ r.st.rh = s.rh
           /\ r.st.nh = s.nh /\ (~r.err => r.st.task)
  <1>1. CASE r \in Ok(s) /\ s.task
    BY <1>1, OkFact DEF SameWish
  <1>2. CASE r \in Ok([s EXCEPT !.task = TRUE])
    <2>1. r.st = [s EXCEPT !.task = TRUE] /\ r.err = FALSE
      BY <1>2, OkFact
    <2> QED BY <2>1 DEF State, SameWish
  <1>3. CASE r \in Fault("other", s)
    BY <1>3, FaultAlone DEF StreamAlone
  <1> QED BY <1>1, <1>2, <1>3 DEF stream_protocol_task_create

LEMMA Sharing ==
    ASSUME NEW s \in State, s.rec = "start", NEW r \in ShareChannel(s)
    PROVE  Started(s, r)
  <1> DEFINE t == [s EXCEPT !.nh = "rec", !.orphan = @ \/ s.nh = "own"]
  <1>1. /\ t \in State /\ SameWish(s, t) /\ t.rec = s.rec /\ t.rh = s.rh
        /\ t.nh = "rec"
    <2>1. (s.orphan \/ s.nh = "own") \in BOOLEAN
      OBVIOUS
    <2> QED BY <2>1 DEF State, SameWish
  <1>2. PICK q \in Ok(t) \cup Fault("other", t) :
            r \in IF q.err THEN {q}
                  ELSE {[p EXCEPT !.st.net = IF p.err THEN "stop" ELSE "start"]
                        : p \in stream_protocol_task_create(q.st)}
    BY DEF ShareChannel, OnOk
  <1> HIDE DEF t
  <1>3. /\ q.st \in State /\ SameWish(s, q.st) /\ q.st.rec = s.rec
        /\ q.st.rh = s.rh /\ q.st.nh = "rec" /\ q.err \in BOOLEAN
    <2>1. CASE q \in Ok(t)
      BY <1>1, <2>1, OkFact
    <2>2. CASE q \in Fault("other", t)
      <3>1. q.st \in State /\ q.err = TRUE /\ StreamAlone(t, q.st)
            /\ q.st.rec = t.rec /\ q.st.rh = t.rh
        BY <1>1, <2>2, FaultAlone
      <3> QED BY <1>1, <3>1 DEF StreamAlone, SameWish
    <2> QED BY <1>2, <2>1, <2>2
  <1>4. CASE q.err
    BY <1>2, <1>3, <1>4 DEF Started
  <1>5. CASE ~q.err
    <2>1. PICK p \in stream_protocol_task_create(q.st) :
              r = [p EXCEPT !.st.net = IF p.err THEN "stop" ELSE "start"]
      BY <1>2, <1>5
    <2>2. /\ p.st \in State /\ p.err \in BOOLEAN
          /\ SameWish(q.st, p.st) /\ p.st.rec = q.st.rec /\ p.st.rh = q.st.rh
          /\ p.st.nh = q.st.nh /\ (~p.err => p.st.task)
      BY <1>3, TaskCreate
    <2>3. p = [st |-> p.st, err |-> p.err]
      BY OkFact, <1>3 DEF stream_protocol_task_create, Ok, Fault, Fail
    <2>4. r.err = p.err
          /\ r.st = [p.st EXCEPT !.net = IF p.err THEN "stop" ELSE "start"]
      BY <2>1, <2>3
    <2> QED BY <1>3, <2>2, <2>4 DEF Started, State, SameWish
  <1> QED BY <1>4, <1>5, <1>3

LEMMA Owning ==
    ASSUME NEW s \in State, s.rec # "start", NEW r \in OwnChannel(s)
    PROVE  Started(s, r)
  <1>1. PICK q \in IF s.nh = "null"
                   THEN Ok([s EXCEPT !.nh = "own"]) \cup Fault("other", s)
                   ELSE Ok(s) :
            r \in IF q.err THEN {q}
                  ELSE Ok([q.st EXCEPT !.live = q.st.nh]) \cup Fault("ownStart", q.st)
    BY DEF OwnChannel, OnOk
  <1>2. /\ q.st \in State /\ SameWish(s, q.st) /\ q.st.rec = s.rec
        /\ q.st.rh = s.rh /\ q.st.task = s.task /\ q.err \in BOOLEAN
        /\ s.nh # "rec" => q.st.nh # "rec" /\ (~q.err => q.st.nh = "own")
        /\ ~q.err => q.st.nh # "null"
    <2>1. CASE q \in Ok([s EXCEPT !.nh = "own"])
      <3>1. q.st = [s EXCEPT !.nh = "own"] /\ q.err = FALSE
        BY <2>1, OkFact
      <3> QED BY <3>1 DEF State, SameWish
    <2>2. CASE q \in Fault("other", s)
      <3>1. q.st \in State /\ q.err = TRUE /\ StreamAlone(s, q.st)
            /\ q.st.rec = s.rec /\ q.st.rh = s.rh
        BY <2>2, FaultAlone
      <3> QED BY <3>1 DEF StreamAlone, SameWish
    <2>3. CASE q \in Ok(s) /\ s.nh # "null"
      <3>1. q.st = s /\ q.err = FALSE
        BY <2>3, OkFact
      <3>2. s.nh \in {"own", "rec"}
        BY <2>3 DEF State
      <3> QED BY <3>1, <3>2 DEF SameWish
    <2> QED BY <1>1, <2>1, <2>2, <2>3
  <1>3. CASE q.err
    BY <1>1, <1>2, <1>3 DEF Started
  <1>4. CASE ~q.err /\ r \in Ok([q.st EXCEPT !.live = q.st.nh])
    <2>1. r.st = [q.st EXCEPT !.live = q.st.nh] /\ r.err = FALSE
      BY <1>4, OkFact
    <2>2. q.st.nh \in {"own", "rec"}
      BY <1>2, <1>4 DEF State
    <2>3. /\ r.st \in State /\ SameWish(q.st, r.st)
          /\ r.st.rec = q.st.rec /\ r.st.rh = q.st.rh /\ r.st.nh = q.st.nh
          /\ r.st.live = q.st.nh /\ r.st.task = q.st.task
      BY <1>2, <2>1, <2>2 DEF State, SameWish
    <2> QED BY <1>2, <1>4, <2>1, <2>3 DEF Started, SameWish
  <1>5. CASE ~q.err /\ r \in Fault("ownStart", q.st)
    <2>1. r.st \in State /\ r.err = TRUE /\ StreamAlone(q.st, r.st)
          /\ r.st.rec = q.st.rec /\ r.st.rh = q.st.rh
      BY <1>2, <1>5, FaultAlone
    <2> QED BY <1>2, <2>1 DEF Started, StreamAlone, SameWish
  <1> QED BY <1>1, <1>3, <1>4, <1>5

LEMMA NetStart0 ==
    ASSUME NEW s \in State, NEW r \in net_video_rec0_start(s)
    PROVE  Started(s, r)
  BY Sharing, Owning DEF net_video_rec0_start

\* From a stream that is down, an attempt to start it ends with the stream up
\* in the way the recorder's state calls for, or down again.
LEMMA Starting ==
    ASSUME NEW s \in State, s.open, Wanted(s), NEW r \in StartStream(s)
    PROVE  /\ r.st \in State /\ SameWish(s, r.st)
           /\ r.err => r.st.net # "start"
           /\ RecSane(s) /\ s.nh # "rec" /\ ~s.task => RecSane(r.st) /\ Shares(r.st)
  <1>1. PICK q \in OnOk(net_video_rec0_start(s),
                        LAMBDA t : Ok([t EXCEPT !.net = "start"])) :
            IF q.err
            THEN \E p \in net_video_rec0_stop(q.st, FALSE) :
                     r = [st |-> p.st, err |-> TRUE]
            ELSE r = q
    BY DEF StartStream, OnErr
  <1>2. PICK o \in net_video_rec0_start(s) :
            q \in IF o.err THEN {o} ELSE Ok([o.st EXCEPT !.net = "start"])
    BY <1>1 DEF OnOk
  <1>3. Started(s, o)
    BY NetStart0
  <1>4. CASE o.err
    <2>1. q = o
      BY <1>2, <1>4
    <2>2. PICK p \in net_video_rec0_stop(o.st, FALSE) : r = [st |-> p.st, err |-> TRUE]
      BY <1>1, <1>4, <2>1
    <2>3. /\ p.st \in State /\ SameWish(o.st, p.st) /\ p.st.net # "start"
          /\ RecSane(o.st) /\ (o.st.rec = "start" \/ (o.st.nh # "rec" /\ ~o.st.task))
                 => RecSane(p.st) /\ Down(p.st)
      BY <1>3, NetStop0 DEF Started
    <2>4. r.st = p.st
      BY <2>2
    <2>5. SameWish(s, r.st)
      BY <1>3, <2>3, <2>4 DEF Started, SameWish
    <2>6. ASSUME RecSane(s), s.nh # "rec", ~s.task
          PROVE  RecSane(r.st) /\ Shares(r.st)
      <3>1. RecSane(o.st)
        BY <1>3, <2>6 DEF Started, RecSane
      <3>2. o.st.rec = "start" \/ (o.st.nh # "rec" /\ ~o.st.task)
        <4>1. CASE s.rec = "start"
          BY <1>3, <4>1 DEF Started
        <4>2. CASE s.rec # "start"
          BY <1>3, <2>6, <4>2, Zenon DEF Started
        <4> QED BY <4>1, <4>2
      <3>3. RecSane(p.st) /\ Down(p.st)
        BY <2>3, <3>1, <3>2
      <3> QED BY <2>4, <3>3 DEF Down, Shares
    <2> QED BY <2>3, <2>4, <2>5, <2>6
  <1>5. CASE ~o.err
    <2>1. q.st = [o.st EXCEPT !.net = "start"] /\ q.err = FALSE
      BY <1>2, <1>5, OkFact
    <2>2. r = q
      BY <1>1, <2>1
    <2>3. /\ r.st \in State /\ SameWish(o.st, r.st) /\ r.st.net = "start"
          /\ r.err = FALSE
          /\ r.st.rec = o.st.rec /\ r.st.rh = o.st.rh /\ r.st.nh = o.st.nh
          /\ r.st.live = o.st.live /\ r.st.task = o.st.task
      BY <1>3, <2>1, <2>2 DEF Started, State, SameWish
    <2>4. SameWish(s, r.st)
      BY <1>3, <2>3 DEF Started, SameWish
    <2>5. ASSUME RecSane(s), s.nh # "rec", ~s.task
          PROVE  RecSane(r.st) /\ Shares(r.st)
      <3>1. RecSane(r.st)
        BY <1>3, <2>3, <2>5 DEF Started, RecSane
      <3>2. CASE s.rec = "start"
        BY <1>3, <1>5, <2>3, <2>5, <3>1, <3>2 DEF Started, RecSane, Shares
      <3>3. CASE s.rec # "start"
        BY <1>3, <1>5, <2>3, <2>5, <3>1, <3>3 DEF Started, Shares
      <3> QED BY <3>1, <3>2, <3>3
    <2> QED BY <2>3, <2>4, <2>5
  <1> QED BY <1>4, <1>5

-----------------------------------------------------------------------------
(* What recorder and stream may do to each other once a call has failed,   *)
(* and only then.                                                          *)

\* A call into the stream leaves the recorder alone; failures accumulate.
RecAlone(s, t) ==
    /\ t \in State
    /\ t.rec = s.rec /\ t.file = s.file /\ t.lost = s.lost
    /\ s.faults \subseteq t.faults

\* The file is open only while the recorder runs.
FileSafe(s) ==
    \/ "recStop" \in s.faults
    \/ ~s.lost /\ (s.file => s.rec = "start")

\* The stream holds no server of its own and runs no channel.
Quiet(s) ==
    \/ "ownStop" \in s.faults
    \/ s.live = "off" /\ ("ownStart" \in s.faults \/ (~s.orphan /\ s.nh # "own"))

\* The stream's own server is held only while the stream runs without the
\* recorder.
OwnsAlone(s) ==
    \/ "ownStop" \in s.faults
    \/ /\ s.live # "off" => s.rec # "start" /\ s.net = "start" /\ s.live = s.nh
       /\ \/ "ownStart" \in s.faults
          \/ ~s.orphan /\ (s.nh = "own" => s.rec # "start" /\ s.net = "start")

\* As long as nothing has failed, what the client asks for runs.
Back(s) == s.faults = {} => (s.open /\ Wanted(s) => s.net = "start")

-----------------------------------------------------------------------------
(* A failed call. *)

LEMMA FaultNoted ==
    ASSUME NEW s \in State, NEW kind, NEW r \in Fault(kind, s)
    PROVE  /\ RecAlone(s, r.st) /\ StreamAlone(s, r.st)
           /\ r.err = TRUE /\ kind \in r.st.faults /\ r.st.orphan = s.orphan
           /\ Quiet(s) => Quiet(r.st)
  <1>1. /\ r.st \in State /\ r.err = TRUE
        /\ r.st = [s EXCEPT !.faults = @ \cup {kind}]
    BY FaultFact
  <1> QED BY <1>1 DEF RecAlone, StreamAlone, SameWish, Quiet, State

LEMMA RecAloneTrans ==
    ASSUME NEW s, NEW t, NEW u, RecAlone(s, t), RecAlone(t, u)
    PROVE  RecAlone(s, u)
  BY DEF RecAlone

LEMMA RecAloneSame == ASSUME NEW s \in State PROVE RecAlone(s, s)
  BY DEF RecAlone

LEMMA QuietOwns == ASSUME NEW s, Quiet(s) PROVE OwnsAlone(s)
  BY DEF Quiet, OwnsAlone

LEMMA OwnsQuiet == ASSUME NEW s, OwnsAlone(s), s.net # "start" PROVE Quiet(s)
  BY DEF Quiet, OwnsAlone

-----------------------------------------------------------------------------
(* The stream goes down. *)

LEMMA Stop0Alone ==
    ASSUME NEW s \in State, NEW close \in BOOLEAN,
           NEW r \in net_video_rec0_stop(s, close)
    PROVE  /\ RecAlone(s, r.st)
           /\ Quiet(s) => Quiet(r.st)
           /\ close /\ OwnsAlone(s) => Quiet(r.st)
  <1>1. CASE s.rec = "start"
    <2>1. r.st = [s EXCEPT !.task = FALSE, !.nh = "null", !.net = "stop",
                           !.orphan = @ \/ s.nh = "own"]
      BY <1>1, OkFact DEF net_video_rec0_stop
    <2>2. (s.orphan \/ s.nh = "own") \in BOOLEAN
      OBVIOUS
    <2>3. /\ RecAlone(s, r.st) /\ r.st.faults = s.faults /\ r.st.live = s.live
          /\ r.st.orphan = (s.orphan \/ s.nh = "own") /\ r.st.nh = "null"
      BY <2>1, <2>2 DEF RecAlone, State
    <2> QED BY <1>1, <2>3 DEF Quiet, OwnsAlone
  <1>2. CASE s.rec # "start"
    <2> DEFINE t == [s EXCEPT !.live = IF @ = s.nh THEN "off" ELSE @, !.net = "stop"]
               u == [s EXCEPT !.net = "stoping"]
    <2>1. PICK q \in Ok(t) \cup Fault("ownStop", u) :
              r \in IF q.err THEN {q}
                    ELSE Ok(IF close THEN CloseHandle(q.st) ELSE q.st)
      BY <1>2 DEF net_video_rec0_stop, OnOk
    <2>2. CASE q \in Fault("ownStop", u)
      <3>1. u \in State /\ RecAlone(s, u)
        BY DEF State, RecAlone
      <3>2. RecAlone(u, q.st) /\ q.err = TRUE /\ "ownStop" \in q.st.faults
        BY <2>2, <3>1, FaultNoted
      <3>3. r = q
        BY <2>1, <3>2
      <3> QED BY <3>1, <3>2, <3>3, RecAloneTrans DEF Quiet
    <2>3. CASE q \in Ok(t)
      <3>1. q.st = t /\ q.err = FALSE
        BY <2>3, OkFact
      <3>2. r.st = IF close THEN CloseHandle(t) ELSE t
        BY <2>1, <3>1, OkFact
      <3>3. /\ t \in State /\ RecAlone(s, t) /\ t.faults = s.faults
            /\ t.live = IF s.live = s.nh THEN "off" ELSE s.live
            /\ t.orphan = s.orphan /\ t.nh = s.nh
        BY DEF State, RecAlone
      <3> HIDE DEF t
      <3>4. /\ RecAlone(t, r.st) /\ r.st.faults = t.faults /\ r.st.live = t.live
            /\ r.st.orphan = t.orphan
            /\ r.st.nh = IF close THEN "null" ELSE t.nh
        <4>1. CASE close
          <5>1. r.st = [t EXCEPT !.nh = "null",
                                 !.rh = IF t.nh = "rec" THEN "freed" ELSE @]
            BY <3>2, <4>1 DEF CloseHandle
          <5>2. t \in State
            BY <3>3
          <5>3. /\ r.st \in State /\ r.st.rec = t.rec /\ r.st.file = t.file
                /\ r.st.lost = t.lost /\ r.st.faults = t.faults /\ r.st.live = t.live
                /\ r.st.orphan = t.orphan /\ r.st.nh = "null"
            BY <5>1, <5>2 DEF State
          <5> QED BY <4>1, <5>3 DEF RecAlone
        <4>2. CASE ~close
          BY <3>2, <3>3, <4>2 DEF RecAlone
        <4> QED BY <4>1, <4>2
      <3>5. RecAlone(s, r.st)
        BY <3>3, <3>4, RecAloneTrans
      <3>6. Quiet(s) => Quiet(r.st)
        BY <3>3, <3>4 DEF Quiet
      <3>7. ASSUME close, OwnsAlone(s) PROVE Quiet(r.st)
        <4>1. s.live = "off" \/ s.live = s.nh \/ "ownStop" \in s.faults
          BY <1>2, <3>7 DEF OwnsAlone
        <4>2. r.st.nh = "null"
          BY <3>4, <3>7
        <4> QED BY <3>3, <3>4, <3>7, <4>1, <4>2 DEF Quiet, OwnsAlone
      <3> QED BY <3>5, <3>6, <3>7
    <2> QED BY <2>1, <2>2, <2>3
  <1> QED BY <1>1, <1>2

LEMMA StopMarkedAlone ==
    ASSUME NEW s \in State, NEW r \in net_video0_rec_stop(s, TRUE)
    PROVE  /\ RecAlone(s, r.st)
           /\ OwnsAlone(s) => Quiet(r.st)
  <1>1. PICK q \in net_video_rec0_stop(s, TRUE) : r = [q EXCEPT !.st.net = "stop"]
    BY DEF net_video0_rec_stop
  <1>2. RecAlone(s, q.st) /\ (OwnsAlone(s) => Quiet(q.st))
    BY Stop0Alone
  <1>3. r.st = [q.st EXCEPT !.net = "stop"]
    BY <1>1, NetStop0Shape
  <1>4. /\ RecAlone(q.st, r.st) /\ r.st.faults = q.st.faults
        /\ r.st.live = q.st.live /\ r.st.orphan = q.st.orphan /\ r.st.nh = q.st.nh
    BY <1>2, <1>3 DEF RecAlone, State
  <1> QED BY <1>2, <1>4, RecAloneTrans DEF Quiet

-----------------------------------------------------------------------------
(* The stream comes up. *)

\* What an attempt to start the stream leaves.
Tried(s, r) ==
    /\ RecAlone(s, r.st) /\ r.err \in BOOLEAN
    /\ r.err => r.st.faults # {}
    /\ r.err /\ Quiet(s) => Quiet(r.st)
    /\ ~r.err /\ Quiet(s) => OwnsAlone([r.st EXCEPT !.net = "start"])

LEMMA TaskAlone ==
    ASSUME NEW s \in State, NEW r \in stream_protocol_task_create(s)
    PROVE  /\ RecAlone(s, r.st) /\ r.err \in BOOLEAN
           /\ r = [st |-> r.st, err |-> r.err]
           /\ r.err => r.st.faults # {}
           /\ Quiet(s) => Quiet(r.st)
  <1>1. r = [st |-> r.st, err |-> r.err]
    BY DEF stream_protocol_task_create, Ok, Fault, Fail
  <1>2. CASE r \in Ok(s)
    BY <1>1, <1>2, OkFact, RecAloneSame
  <1>3. CASE r \in Ok([s EXCEPT !.task = TRUE])
    <2>1. r.st = [s EXCEPT !.task = TRUE] /\ r.err = FALSE
      BY <1>3, OkFact
    <2> QED BY <1>1, <2>1 DEF RecAlone, Quiet, State
  <1>4. CASE r \in Fault("other", s)
    <2>1. RecAlone(s, r.st) /\ r.err = TRUE /\ "other" \in r.st.faults
          /\ (Quiet(s) => Quiet(r.st))
      BY <1>4, FaultNoted
    <2> QED BY <1>1, <2>1
  <1> QED BY <1>2, <1>3, <1>4 DEF stream_protocol_task_create

LEMMA ShareAlone ==
    ASSUME NEW s \in State, NEW r \in ShareChannel(s)
    PROVE  Tried(s, r)
  <1> DEFINE t == [s EXCEPT !.nh = "rec", !.orphan = @ \/ s.nh = "own"]
  <1>1. RecAlone(s, t) /\ t \in State /\ (Quiet(s) => Quiet(t))
    <2>1. (s.orphan \/ s.nh = "own") \in BOOLEAN
      OBVIOUS
    <2>2. t \in State
      BY <2>1 DEF State
    <2>3. /\ t.rec = s.rec /\ t.file = s.file /\ t.lost = s.lost
          /\ t.faults = s.faults /\ t.live = s.live /\ t.nh = "rec"
          /\ t.orphan = (s.orphan \/ s.nh = "own")
      BY <2>1 DEF State
    <2> HIDE DEF t
    <2>4. Quiet(s) => Quiet(t)
      BY <2>3 DEF Quiet
    <2> QED BY <2>2, <2>3, <2>4 DEF RecAlone
  <1>2. PICK q \in Ok(t) \cup Fault("other", t) :
            r \in IF q.err THEN {q}
                  ELSE {[p EXCEPT !.st.net = IF p.err THEN "stop" ELSE "start"]
                        : p \in stream_protocol_task_create(q.st)}
    BY DEF ShareChannel, OnOk
  <1> HIDE DEF t
  <1>3. /\ RecAlone(s, q.st) /\ q.err \in BOOLEAN
        /\ q.err => q.st.faults # {}
        /\ Quiet(s) => Quiet(q.st)
    <2>1. CASE q \in Ok(t)
      BY <1>1, <2>1, OkFact
    <2>2. CASE q \in Fault("other", t)
      <3>1. RecAlone(t, q.st) /\ q.err = TRUE /\ "other" \in q.st.faults
            /\ (Quiet(t) => Quiet(q.st))
        BY <1>1, <2>2, FaultNoted
      <3> QED BY <1>1, <3>1, RecAloneTrans
    <2> QED BY <1>2, <2>1, <2>2
  <1>4. CASE q.err
    BY <1>2, <1>3, <1>4 DEF Tried
  <1>5. CASE ~q.err
    <2>1. PICK p \in stream_protocol_task_create(q.st) :
              r = [p EXCEPT !.st.net = IF p.err THEN "stop" ELSE "start"]
      BY <1>2, <1>5
    <2>2. /\ RecAlone(q.st, p.st) /\ p.err \in BOOLEAN
          /\ p = [st |-> p.st, err |-> p.err]
          /\ p.err => p.st.faults # {}
          /\ Quiet(q.st) => Quiet(p.st)
      BY <1>3, TaskAlone DEF RecAlone
    <2>3. r.err = p.err
          /\ r.st = [p.st EXCEPT !.net = IF p.err THEN "stop" ELSE "start"]
      BY <2>1, <2>2
    <2>4. /\ RecAlone(p.st, r.st) /\ r.st.faults = p.st.faults
          /\ r.st.live = p.st.live /\ r.st.orphan = p.st.orphan /\ r.st.nh = p.st.nh
      BY <2>2, <2>3 DEF RecAlone, State
    <2>5. RecAlone(s, r.st)
      BY <1>3, <2>2, <2>4, RecAloneTrans
    <2>6. Quiet(s) => Quiet(r.st)
      BY <1>3, <2>2, <2>4 DEF Quiet
    <2>7. Quiet(r.st) => Quiet([r.st EXCEPT !.net = "start"])
      BY <2>5 DEF Quiet, RecAlone, State
    <2> QED BY <2>2, <2>3, <2>4, <2>5, <2>6, <2>7, QuietOwns DEF Tried
  <1> QED BY <1>3, <1>4, <1>5

LEMMA OwnAlone ==
    ASSUME NEW s \in State, s.rec # "start", NEW r \in OwnChannel(s)
    PROVE  Tried(s, r)
  <1>1. PICK q \in IF s.nh = "null"
                   THEN Ok([s EXCEPT !.nh = "own"]) \cup Fault("other", s)
                   ELSE Ok(s) :
            r \in IF q.err THEN {q}
                  ELSE Ok([q.st EXCEPT !.live = q.st.nh]) \cup Fault("ownStart", q.st)
    BY DEF OwnChannel, OnOk
  <1>2. /\ RecAlone(s, q.st) /\ q.err \in BOOLEAN
        /\ q.err => q.st.faults # {} /\ (Quiet(s) => Quiet(q.st))
        /\ ~q.err => q.st.faults = s.faults /\ q.st.live = s.live
                     /\ q.st.orphan = s.orphan /\ q.st.nh # "null"
    <2>1. CASE q \in Ok([s EXCEPT !.nh = "own"])
      <3>1. q.st = [s EXCEPT !.nh = "own"] /\ q.err = FALSE
        BY <2>1, OkFact
      <3> QED BY <3>1 DEF RecAlone, State
    <2>2. CASE q \in Fault("other", s)
      <3>1. RecAlone(s, q.st) /\ q.err = TRUE /\ "other" \in q.st.faults
            /\ (Quiet(s) => Quiet(q.st))
        BY <2>2, FaultNoted
      <3> QED BY <3>1
    <2>3. CASE q \in Ok(s) /\ s.nh # "null"
      BY <2>3, OkFact, RecAloneSame
    <2> QED BY <1>1, <2>1, <2>2, <2>3
  <1>3. CASE q.err
    BY <1>1, <1>2, <1>3 DEF Tried
  <1>4. CASE ~q.err /\ r \in Ok([q.st EXCEPT !.live = q.st.nh])
    <2>1. r.st = [q.st EXCEPT !.live = q.st.nh] /\ r.err = FALSE
      BY <1>4, OkFact
    <2>2. q.st \in State /\ q.st.nh \in {"own", "rec"}
      BY <1>2, <1>4 DEF State, RecAlone
    <2>3. /\ RecAlone(q.st, r.st) /\ r.st.faults = q.st.faults
          /\ r.st.orphan = q.st.orphan
      BY <2>1, <2>2 DEF State, RecAlone
    <2> DEFINE u == [r.st EXCEPT !.net = "start"]
    <2>4. /\ u.net = "start" /\ u.rec = s.rec /\ u.faults = s.faults
          /\ u.orphan = s.orphan /\ u.live = u.nh
      BY <1>2, <1>4, <2>1, <2>2, <2>3 DEF RecAlone, State
    <2> HIDE DEF u
    <2>5. Quiet(s) => OwnsAlone(u)
      BY <2>4 DEF Quiet, OwnsAlone
    <2>6. RecAlone(s, r.st)
      BY <1>2, <2>3, RecAloneTrans
    <2> QED BY <2>1, <2>5, <2>6 DEF Tried, u
  <1>5. CASE ~q.err /\ r \in Fault("ownStart", q.st)
    <2>1. /\ RecAlone(q.st, r.st) /\ r.err = TRUE /\ "ownStart" \in r.st.faults
          /\ StreamAlone(q.st, r.st)
      BY <1>2, <1>5, FaultNoted DEF RecAlone
    <2>2. Quiet(s) => Quiet(r.st)
      BY <1>2, <1>5, <2>1 DEF Quiet, StreamAlone, RecAlone
    <2>3. RecAlone(s, r.st)
      BY <1>2, <2>1, RecAloneTrans
    <2> QED BY <2>1, <2>2, <2>3 DEF Tried
  <1> QED BY <1>1, <1>3, <1>4, <1>5

LEMMA StreamTried ==
    ASSUME NEW s \in State, NEW r \in StartStream(s)
    PROVE  /\ RecAlone(s, r.st)
           /\ r.st.faults = {} => r.st.net = "start"
           /\ Quiet(s) => OwnsAlone(r.st)
  <1>1. PICK q \in OnOk(net_video_rec0_start(s),
                        LAMBDA t : Ok([t EXCEPT !.net = "start"])) :
            IF q.err
            THEN \E p \in net_video_rec0_stop(q.st, FALSE) :
                     r = [st |-> p.st, err |-> TRUE]
            ELSE r = q
    BY DEF StartStream, OnErr
  <1>2. PICK o \in net_video_rec0_start(s) :
            q \in IF o.err THEN {o} ELSE Ok([o.st EXCEPT !.net = "start"])
    BY <1>1 DEF OnOk
  <1>3. Tried(s, o)
    BY ShareAlone, OwnAlone DEF net_video_rec0_start
  <1>4. CASE o.err
    <2>1. PICK p \in net_video_rec0_stop(o.st, FALSE) : r = [st |-> p.st, err |-> TRUE]
      BY <1>1, <1>2, <1>4
    <2>2. RecAlone(o.st, p.st) /\ (Quiet(o.st) => Quiet(p.st))
      BY <1>3, Stop0Alone DEF Tried, RecAlone
    <2>3. RecAlone(s, p.st)
      BY <1>3, <2>2, RecAloneTrans DEF Tried
    <2>4. p.st.faults # {}
      BY <1>3, <1>4, <2>2 DEF Tried, RecAlone
    <2> QED BY <1>3, <1>4, <2>1, <2>2, <2>3, <2>4, QuietOwns DEF Tried
  <1>5. CASE ~o.err
    <2>1. q.st = [o.st EXCEPT !.net = "start"] /\ q.err = FALSE
      BY <1>2, <1>5, OkFact
    <2>2. r = q
      BY <1>1, <2>1
    <2>3. RecAlone(o.st, r.st) /\ r.st.net = "start"
      BY <1>3, <2>1, <2>2 DEF Tried, RecAlone, State
    <2>4. RecAlone(s, r.st)
      BY <1>3, <2>3, RecAloneTrans DEF Tried
    <2> QED BY <1>3, <1>5, <2>1, <2>2, <2>3, <2>4 DEF Tried
  <1> QED BY <1>4, <1>5

-----------------------------------------------------------------------------
(* The recorder's functions. *)

\* A call into the recorder keeps its file safe and leaves the stream's servers
\* alone.
RecCall(s, t) ==
    /\ t \in State /\ StreamAlone(s, t)
    /\ t.orphan = s.orphan /\ s.faults \subseteq t.faults
    /\ FileSafe(s) => FileSafe(t)

LEMMA RecCallKeeps ==
    ASSUME NEW s, NEW t, RecCall(s, t)
    PROVE  /\ t \in State /\ SameWish(s, t) /\ t.net = s.net
           /\ Intent(s) => Intent(t)
           /\ Quiet(s) => Quiet(t)
           /\ Back(s) => Back(t)
           /\ FileSafe(s) => FileSafe(t)
  BY DEF RecCall, StreamAlone, SameWish, Intent, Wanted, Quiet, Back

\* The request that stops the recorder closes the file unless it is refused.
LEMMA RecStop0File ==
    ASSUME NEW s \in State, NEW r \in video0_rec_stop(s)
    PROVE  /\ r.st \in State /\ StreamAlone(s, r.st)
           /\ r.st.rec = s.rec /\ r.st.orphan = s.orphan /\ r.st.lost = s.lost
           /\ s.faults \subseteq r.st.faults
           /\ "recStop" \in r.st.faults \/ ~r.st.file
  <1>1. r \in Ok(CloseFile(s)) \/ r \in Fault("recStop", s)
    BY DEF video0_rec_stop
  <1>2. CASE r \in Ok(CloseFile(s))
    <2>1. r.st = [s EXCEPT !.file = FALSE]
      BY <1>2, OkFact DEF CloseFile
    <2> QED BY <2>1 DEF State, StreamAlone, SameWish
  <1>3. CASE r \in Fault("recStop", s)
    BY <1>3, FaultNoted DEF RecAlone
  <1> QED BY <1>1, <1>2, <1>3

LEMMA RecStopCall ==
    ASSUME NEW s \in State, NEW r \in video_rec_stop(s)
    PROVE  RecCall(s, r.st)
  <1>1. CASE s.rec # "start"
    BY <1>1, OkFact DEF video_rec_stop, RecCall, StreamAlone, SameWish
  <1>2. CASE s.rec = "start"
    <2>1. PICK q \in video0_rec_stop(s) : r \in Ok([q.st EXCEPT !.rec = "stop"])
      BY <1>2 DEF video_rec_stop, Then
    <2>2. r.st = [q.st EXCEPT !.rec = "stop"]
      BY <2>1, OkFact
    <2>3. /\ q.st \in State /\ StreamAlone(s, q.st)
          /\ q.st.orphan = s.orphan /\ q.st.lost = s.lost
          /\ s.faults \subseteq q.st.faults
          /\ "recStop" \in q.st.faults \/ ~q.st.file
      BY RecStop0File
    <2> QED BY <2>2, <2>3 DEF RecCall, StreamAlone, SameWish, State, FileSafe
  <1> QED BY <1>1, <1>2

\* Opening the file loses the one still open: only where a stop was refused.
LEMMA RecFileCall ==
    ASSUME NEW s \in State, s.rec # "start", NEW r \in video_rec_del_old_file(s)
    PROVE  /\ r.st \in State /\ StreamAlone(s, r.st) /\ r.st.rec = s.rec
           /\ r.st.orphan = s.orphan /\ s.faults \subseteq r.st.faults
           /\ FileSafe(s) => "recStop" \in r.st.faults \/ ~r.st.lost
           /\ r.err /\ FileSafe(s) => FileSafe(r.st)
  <1>1. r \in Ok([s EXCEPT !.file = TRUE, !.lost = @ \/ s.file])
        \/ r \in Fault("other", s)
    BY DEF video_rec_del_old_file
  <1>2. CASE r \in Ok([s EXCEPT !.file = TRUE, !.lost = @ \/ s.file])
    <2>1. r.st = [s EXCEPT !.file = TRUE, !.lost = @ \/ s.file] /\ r.err = FALSE
      BY <1>2, OkFact
    <2>2. (s.lost \/ s.file) \in BOOLEAN
      OBVIOUS
    <2>3. /\ r.st \in State /\ StreamAlone(s, r.st) /\ r.st.rec = s.rec
          /\ r.st.orphan = s.orphan /\ r.st.faults = s.faults
          /\ r.st.lost = (s.lost \/ s.file)
      BY <2>1, <2>2 DEF State, StreamAlone, SameWish
    <2> QED BY <2>1, <2>3 DEF FileSafe
  <1>3. CASE r \in Fault("other", s)
    BY <1>3, FaultNoted DEF RecAlone, FileSafe
  <1> QED BY <1>1, <1>2, <1>3

\* Starting the recorder either has it run, or leaves the file to be closed.
LEMMA RecStart0Call ==
    ASSUME NEW s \in State, NEW r \in video0_rec_start(s)
    PROVE  /\ r.st \in State /\ StreamAlone(s, r.st) /\ r.st.lost = s.lost
           /\ r.st.orphan = s.orphan /\ s.faults \subseteq r.st.faults
           /\ r.err \/ r.st.rec = "start"
  <1>1. PICK q \in IF s.rh = "none"
                   THEN Ok([s EXCEPT !.rh = "open"]) \cup Fault("other", s)
                   ELSE Ok(s) :
            r \in IF q.err THEN {q}
                  ELSE Ok([q.st EXCEPT !.rec = "start"]) \cup Fault("other", q.st)
    BY DEF video0_rec_start, OnOk
  <1>2. /\ q.st \in State /\ StreamAlone(s, q.st) /\ q.st.lost = s.lost
        /\ q.st.orphan = s.orphan /\ s.faults \subseteq q.st.faults
    <2>1. CASE q \in Ok([s EXCEPT !.rh = "open"])
      <3>1. q.st = [s EXCEPT !.rh = "open"]
        BY <2>1, OkFact
      <3> QED BY <3>1 DEF State, StreamAlone, SameWish
    <2>2. CASE q \in Fault("other", s)
      BY <2>2, FaultNoted DEF RecAlone
    <2>3. CASE q \in Ok(s)
      BY <2>3, OkFact DEF StreamAlone, SameWish
    <2> QED BY <1>1, <2>1, <2>2, <2>3
  <1>3. CASE q.err
    BY <1>1, <1>2, <1>3
  <1>4. CASE ~q.err /\ r \in Ok([q.st EXCEPT !.rec = "start"])
    <2>1. r.st = [q.st EXCEPT !.rec = "start"]
      BY <1>4, OkFact
    <2> QED BY <1>2, <2>1 DEF State, StreamAlone, SameWish
  <1>5. CASE ~q.err /\ r \in Fault("other", q.st)
    <2>1. RecAlone(q.st, r.st) /\ StreamAlone(q.st, r.st) /\ r.err = TRUE
          /\ r.st.orphan = q.st.orphan
      BY <1>2, <1>5, FaultNoted
    <2> QED BY <1>2, <2>1 DEF RecAlone, StreamAlone, SameWish
  <1> QED BY <1>1, <1>3, <1>4, <1>5

LEMMA RecStartCall ==
    ASSUME NEW s \in State, NEW r \in video_rec_start(s)
    PROVE  RecCall(s, r.st)
  <1>1. CASE r \in Ok(s)
    BY <1>1, OkFact DEF RecCall, StreamAlone, SameWish
  <1>2. CASE r \notin Ok(s)
    <2>1. s.rec # "start"
      BY <1>2 DEF video_rec_start
    <2>2. PICK q \in video_rec_del_old_file(s) :
              \/ q.err /\ r = q
              \/ ~q.err /\ \E p \in video0_rec_start(q.st) :
                     IF p.err
                     THEN \E o \in video0_rec_stop(p.st) : r = [st |-> o.st, err |-> TRUE]
                     ELSE r = p
      BY <1>2 DEF video_rec_start, OnOk, OnErr
    <2>3. /\ q.st \in State /\ StreamAlone(s, q.st) /\ q.st.rec = s.rec
          /\ q.st.orphan = s.orphan /\ s.faults \subseteq q.st.faults
          /\ FileSafe(s) => "recStop" \in q.st.faults \/ ~q.st.lost
          /\ q.err /\ FileSafe(s) => FileSafe(q.st)
      BY <2>1, RecFileCall
    <2>4. CASE q.err /\ r = q
      BY <2>3, <2>4 DEF RecCall
    <2>5. CASE ~q.err
      <3>1. PICK p \in video0_rec_start(q.st) :
                IF p.err
                THEN \E o \in video0_rec_stop(p.st) : r = [st |-> o.st, err |-> TRUE]
                ELSE r = p
        BY <2>2, <2>5
      <3>2. /\ p.st \in State /\ StreamAlone(q.st, p.st) /\ p.st.lost = q.st.lost
            /\ p.st.orphan = q.st.orphan /\ q.st.faults \subseteq p.st.faults
            /\ p.err \/ p.st.rec = "start"
        BY <2>3, RecStart0Call
      <3>3. CASE ~p.err
        BY <2>3, <3>1, <3>2, <3>3 DEF RecCall, StreamAlone, SameWish, FileSafe
      <3>4. CASE p.err
        <4>1. PICK o \in video0_rec_stop(p.st) : r = [st |-> o.st, err |-> TRUE]
          BY <3>1, <3>4
        <4>2. /\ o.st \in State /\ StreamAlone(p.st, o.st)
              /\ o.st.orphan = p.st.orphan /\ o.st.lost = p.st.lost
              /\ p.st.faults \subseteq o.st.faults
              /\ "recStop" \in o.st.faults \/ ~o.st.file
          BY <3>2, RecStop0File
        <4> QED BY <2>3, <3>2, <4>1, <4>2 DEF RecCall, StreamAlone, SameWish, FileSafe
      <3> QED BY <3>3, <3>4
    <2> QED BY <2>2, <2>4, <2>5
  <1> QED BY <1>1, <1>2

LEMMA RecDoingCall ==
    ASSUME NEW s \in State, NEW r \in video_rec_control_doing(s)
    PROVE  RecCall(s, r.st)
  BY RecStopCall, RecStartCall DEF video_rec_control_doing

LEMMA RecSavefileCall ==
    ASSUME NEW s \in State, NEW r \in video_rec_savefile(s)
    PROVE  RecCall(s, r.st)
  <1>1. CASE r.st = s \/ (s.rec = "start" /\ r.st = [s EXCEPT !.file = TRUE])
    BY <1>1 DEF RecCall, State, StreamAlone, SameWish, FileSafe
  <1>2. CASE s.rec = "start" /\ r.st # s /\ r.st # [s EXCEPT !.file = TRUE]
    <2>0. PICK f \in BOOLEAN :
              \E p \in Fault("other", [s EXCEPT !.file = f]) :
                  \E q \in video0_rec_stop(p.st) : r.st = [q.st EXCEPT !.rec = "stop"]
      BY <1>2, SavefileShape
    <2>1. PICK p \in Fault("other", [s EXCEPT !.file = f]) :
              \E q \in video0_rec_stop(p.st) : r.st = [q.st EXCEPT !.rec = "stop"]
      BY <2>0
    <2> DEFINE u == [s EXCEPT !.file = f]
    <2>2. u \in State /\ StreamAlone(s, u) /\ u.orphan = s.orphan
          /\ u.lost = s.lost /\ u.faults = s.faults
      BY DEF State, StreamAlone, SameWish
    <2> HIDE DEF u
    <2>3. RecAlone(u, p.st) /\ StreamAlone(u, p.st) /\ p.st.orphan = u.orphan
      BY <2>2, FaultNoted DEF u
    <2>4. PICK q \in video0_rec_stop(p.st) : r.st = [q.st EXCEPT !.rec = "stop"]
      BY <2>1
    <2>5. /\ q.st \in State /\ StreamAlone(p.st, q.st)
          /\ q.st.orphan = p.st.orphan /\ q.st.lost = p.st.lost
          /\ p.st.faults \subseteq q.st.faults
          /\ "recStop" \in q.st.faults \/ ~q.st.file
      BY <2>3, RecStop0File DEF RecAlone
    <2>6. /\ StreamAlone(s, q.st) /\ q.st.orphan = s.orphan /\ q.st.lost = s.lost
          /\ s.faults \subseteq q.st.faults
      BY <2>2, <2>3, <2>5 DEF StreamAlone, SameWish, RecAlone
    <2> QED BY <2>4, <2>5, <2>6 DEF RecCall, State, StreamAlone, SameWish, FileSafe
  <1> QED BY <1>1, <1>2, SavefileShape

-----------------------------------------------------------------------------
(* One call keeps what the invariant says of cam, as far as that held.     *)

Kept(s, t) ==
    /\ t \in State /\ s.faults \subseteq t.faults
    /\ FileSafe(s) => FileSafe(t)
    /\ Intent(s) => Intent(t)
    /\ Intent(s) /\ OwnsAlone(s) => OwnsAlone(t)
    /\ Intent(s) /\ RecSane(s) /\ Lends(s) =>
           RecSane(t) /\ Lends(t) /\ (Shares(s) => Shares(t))

LEMMA KeptSame == ASSUME NEW s \in State PROVE Kept(s, s)
  BY DEF Kept

LEMMA KeptTrans ==
    ASSUME NEW s, NEW t, NEW u, Kept(s, t), Kept(t, u)
    PROVE  Kept(s, u)
  BY DEF Kept

\* Only what the client asks for, and the stage of a stream that is not up,
\* have changed.
Alike(s, u) ==
    /\ u \in State
    /\ u.rec = s.rec /\ u.rh = s.rh /\ u.file = s.file /\ u.lost = s.lost
    /\ u.nh = s.nh /\ u.live = s.live /\ u.orphan = s.orphan /\ u.task = s.task
    /\ u.faults = s.faults /\ (u.net = "start" <=> s.net = "start")

LEMMA AlikeKept ==
    ASSUME NEW s, NEW u, Alike(s, u), Intent(s) => Intent(u)
    PROVE  Kept(s, u)
  BY DEF Alike, Kept, FileSafe, OwnsAlone, RecSane, Lends, Shares

LEMMA FaultKept ==
    ASSUME NEW s \in State, NEW kind, NEW r \in Fault(kind, s)
    PROVE  Kept(s, r.st) /\ r.st.faults # {} /\ r.st.net = s.net
  <1>1. /\ RecAlone(s, r.st) /\ StreamAlone(s, r.st)
        /\ kind \in r.st.faults /\ r.st.orphan = s.orphan
    BY FaultNoted
  <1>2. r.st.rh = s.rh /\ r.st.rec = s.rec
    BY FaultAlone
  <1> QED BY <1>1, <1>2 DEF Kept, RecAlone, StreamAlone, SameWish, FileSafe, Intent,
             Wanted, OwnsAlone, RecSane, Lends, Shares

\* A stream that runs is stopped.
LEMMA MarkedKept ==
    ASSUME NEW s \in State, s.net = "start", NEW r \in net_video0_rec_stop(s, TRUE)
    PROVE  /\ r.st.net # "start" /\ r.st \in State /\ s.faults \subseteq r.st.faults
           /\ FileSafe(s) => FileSafe(r.st)
           /\ OwnsAlone(s) => OwnsAlone(r.st)
           /\ RecSane(s) /\ Lends(s) => RecSane(r.st) /\ Lends(r.st) /\ Shares(r.st)
  <1>1. /\ r.st \in State /\ r.st.net # "start"
        /\ RecSane(s) /\ Lends(s) => RecSane(r.st) /\ Down(r.st)
    BY NetStopMarked
  <1>2. RecAlone(s, r.st) /\ (OwnsAlone(s) => Quiet(r.st))
    BY StopMarkedAlone
  <1>3. s.faults \subseteq r.st.faults /\ (FileSafe(s) => FileSafe(r.st))
    BY <1>2 DEF RecAlone, FileSafe
  <1>4. OwnsAlone(s) => OwnsAlone(r.st)
    BY <1>2, QuietOwns
  <1>5. RecSane(s) /\ Lends(s) => RecSane(r.st) /\ Lends(r.st) /\ Shares(r.st)
    BY <1>1 DEF Down, Lends, Shares
  <1> QED BY <1>1, <1>3, <1>4, <1>5

LEMMA StopKept ==
    ASSUME NEW s \in State, NEW r \in net_video_rec_stop(s)
    PROVE  /\ Kept(s, r.st)
           /\ Intent(s) => r.st.net # "start"
           /\ r.st.net = "start" => s.net = "start"
  <1>1. CASE s.open /\ s.net = "start"
    <2>1. r \in net_video0_rec_stop(s, TRUE)
      BY <1>1 DEF net_video_rec_stop
    <2> QED BY <1>1, <2>1, MarkedKept DEF Kept, Intent
  <1>2. CASE ~(s.open /\ s.net = "start")
    <2>1. r.st = s
      BY <1>2, OkFact DEF net_video_rec_stop
    <2> QED BY <1>2, <2>1, KeptSame DEF Intent
  <1> QED BY <1>1, <1>2

\* A stream that is down is started for a client that asks for it.
LEMMA UpKept ==
    ASSUME NEW s \in State, s.open, Wanted(s), s.net # "start",
           NEW r \in StartStream(s)
    PROVE  Kept(s, r.st) /\ Back(r.st) /\ (r.err => r.st.net # "start")
  <1>1. /\ r.st \in State /\ SameWish(s, r.st)
        /\ r.err => r.st.net # "start"
        /\ RecSane(s) /\ s.nh # "rec" /\ ~s.task => RecSane(r.st) /\ Shares(r.st)
    BY Starting
  <1>2. /\ RecAlone(s, r.st)
        /\ r.st.faults = {} => r.st.net = "start"
        /\ Quiet(s) => OwnsAlone(r.st)
    BY StreamTried
  <1>3. s.faults \subseteq r.st.faults /\ (FileSafe(s) => FileSafe(r.st))
    BY <1>2 DEF RecAlone, FileSafe
  <1>4. Intent(r.st)
    BY <1>1 DEF Intent, Wanted, SameWish
  <1>5. OwnsAlone(s) => OwnsAlone(r.st)
    BY <1>2, OwnsQuiet
  <1>6. ASSUME RecSane(s), Lends(s) PROVE RecSane(r.st) /\ Lends(r.st) /\ Shares(r.st)
    <2>1. RecSane(r.st) /\ Shares(r.st)
      BY <1>1, <1>6 DEF Lends
    <2> QED BY <2>1 DEF Shares, Lends
  <1>7. Back(r.st)
    BY <1>2 DEF Back
  <1> QED BY <1>1, <1>3, <1>4, <1>5, <1>6, <1>7 DEF Kept

LEMMA ReopenKept ==
    ASSUME NEW s \in State, NEW r \in net_rt_video0_reopen(s)
    PROVE  Kept(s, r.st) /\ Back(r.st) /\ (r.err => r.st.net # "start")
  <1>1. CASE s.open /\ Wanted(s) /\ s.net # "start"
    <2> DEFINE u == [s EXCEPT !.net = "starting"]
    <2>1. Alike(s, u) /\ u.open = s.open /\ u.art = s.art /\ u.vrt = s.vrt
          /\ u.net # "start" /\ u \in State
      BY <1>1 DEF State, Alike
    <2>2. r \in Fault("other", s) \/ r \in StartStream(u)
      BY <1>1 DEF net_rt_video0_reopen, net_video0_rec_start
    <2> HIDE DEF u
    <2>3. Kept(s, u)
      BY <2>1, AlikeKept DEF Intent
    <2>4. CASE r \in Fault("other", s)
      BY <1>1, <2>4, FaultKept DEF Back
    <2>5. CASE r \in StartStream(u)
      <3>1. u.open /\ Wanted(u)
        BY <1>1, <2>1 DEF Wanted
      <3> QED BY <2>1, <2>3, <2>5, <3>1, UpKept, KeptTrans
    <2> QED BY <2>2, <2>4, <2>5
  <1>2. CASE ~(s.open /\ Wanted(s) /\ s.net # "start")
    <2>1. r.st = s /\ r.err = FALSE
      BY <1>2, OkFact DEF net_rt_video0_reopen
    <2> QED BY <1>2, <2>1, KeptSame DEF Back
  <1> QED BY <1>1, <1>2

LEMMA RestartKept ==
    ASSUME NEW s \in State, NEW r \in net_video_rec_start(s)
    PROVE  Kept(s, r.st) /\ Back(r.st)
  <1>1. CASE r \in Fault("other", s)
    BY <1>1, FaultKept DEF Back
  <1>2. CASE s.open /\ Wanted(s) /\ s.net # "start" /\ r \in StartStream(s)
    BY <1>2, UpKept
  <1>3. CASE ~(s.open /\ Wanted(s) /\ s.net # "start") /\ r \in Ok(s)
    <2>1. r.st = s
      BY <1>3, OkFact
    <2> QED BY <1>3, <2>1, KeptSame DEF Back
  <1> QED BY <1>1, <1>2, <1>3 DEF net_video_rec_start

\* A client opens the stream, by one medium or both.
LEMMA OpenKept ==
    ASSUME NEW s \in State, NEW mark \in Marks,
           NEW r \in net_rt_video0_open([s EXCEPT !.open = TRUE], mark)
    PROVE  Kept(s, r.st) /\ Back(r.st) /\ (r.err => r.st.net # "start")
  <1> DEFINE u == [[s EXCEPT !.open = TRUE]
                       EXCEPT !.art = mark # "video", !.vrt = mark # "audio"]
  <1>1. /\ Alike(s, u) /\ u \in State /\ u.open = TRUE
        /\ u.art = (mark # "video") /\ u.vrt = (mark # "audio")
    BY DEF State, Alike
  <1>2. r \in net_rt_video0_reopen(u)
    <2>1. [s EXCEPT !.open = TRUE].open = TRUE
      BY DEF State
    <2> QED BY <2>1 DEF net_rt_video0_open
  <1> HIDE DEF u
  <1>3. Intent(u)
    BY <1>1 DEF Intent, Wanted, Marks
  <1>4. Kept(s, u)
    BY <1>1, <1>3, AlikeKept
  <1> QED BY <1>1, <1>2, <1>4, ReopenKept, KeptTrans

\* A client closes the stream.
LEMMA ClosedKept ==
    ASSUME NEW s \in State, Intent(s) => s.net # "start"
    PROVE  /\ Kept(s, Closed(s)) /\ Back(Closed(s)) /\ Closed(s).net = s.net
           /\ Closed(s).open = FALSE /\ Closed(s).rec = s.rec
  <1>1. /\ Alike(s, Closed(s)) /\ Closed(s).net = s.net /\ Closed(s).open = FALSE
        /\ Closed(s).rec = s.rec
    BY DEF State, Alike, Closed
  <1>2. Intent(s) => Intent(Closed(s))
    BY <1>1 DEF Intent
  <1> QED BY <1>1, <1>2, AlikeKept DEF Back

LEMMA LeaveKept ==
    ASSUME NEW s \in State, NEW mark \in Marks, NEW r \in net_rt_video0_stop(s, mark)
    PROVE  /\ Kept(s, Closed(r.st)) /\ Back(Closed(r.st))
           /\ Closed(r.st).net = "start" => s.net = "start"
  <1>1. CASE ~s.open
    <2>1. r.st = s
      BY <1>1, OkFact DEF net_rt_video0_stop
    <2> QED BY <1>1, <2>1, ClosedKept DEF Intent
  <1>2. CASE s.open
    <2> DEFINE u == [s EXCEPT !.art = @ /\ mark = "video",
                              !.vrt = @ /\ mark = "audio"]
    <2>1. Alike(s, u) /\ u \in State /\ u.net = s.net
      <3>1. (s.art /\ mark = "video") \in BOOLEAN /\ (s.vrt /\ mark = "audio") \in BOOLEAN
        OBVIOUS
      <3> QED BY <3>1 DEF State, Alike
    <2>2. IF u.net = "start" THEN r \in net_video0_rec_stop(u, TRUE) ELSE r \in Ok(u)
      BY <1>2 DEF net_rt_video0_stop
    <2> HIDE DEF u
    <2>3. /\ r.st.net # "start" /\ r.st \in State /\ u.faults \subseteq r.st.faults
          /\ FileSafe(u) => FileSafe(r.st)
          /\ OwnsAlone(u) => OwnsAlone(r.st)
          /\ RecSane(u) /\ Lends(u) =>
                 RecSane(r.st) /\ Lends(r.st) /\ (Shares(u) => Shares(r.st))
      <3>1. CASE u.net = "start"
        BY <2>1, <2>2, <3>1, MarkedKept
      <3>2. CASE u.net # "start"
        <4>1. r.st = u
          BY <2>2, <3>2, OkFact
        <4> QED BY <2>1, <3>2, <4>1
      <3> QED BY <3>1, <3>2
    <2>4. Kept(s, r.st)
      BY <2>1, <2>3 DEF Kept, Alike, Intent, FileSafe, OwnsAlone, RecSane, Lends, Shares
    <2>5. Kept(r.st, Closed(r.st)) /\ Back(Closed(r.st)) /\ Closed(r.st).net = r.st.net
      BY <2>3, ClosedKept
    <2> QED BY <2>3, <2>4, <2>5, KeptTrans
  <1> QED BY <1>1, <1>2

\* The recorder is switched while the stream is down, or is left as it was.
LEMMA RecKept ==
    ASSUME NEW s \in State, NEW t, RecCall(s, t), RecStep(s, t),
           s.net # "start" \/ (s.rec = "start" <=> t.rec = "start")
    PROVE  Kept(s, t)
  <1>1. t \in State /\ s.faults \subseteq t.faults /\ (FileSafe(s) => FileSafe(t))
    BY DEF RecCall
  <1>2. Intent(s) => Intent(t)
    BY RecCallKeeps
  <1>3. OwnsAlone(s) => OwnsAlone(t)
    <2>1. CASE s.net # "start"
      BY <2>1, RecCallKeeps, QuietOwns, OwnsQuiet
    <2>2. CASE s.rec = "start" <=> t.rec = "start"
      BY <2>2 DEF RecCall, StreamAlone, OwnsAlone
    <2> QED BY <2>1, <2>2
  <1>4. RecSane(s) /\ Lends(s) => RecSane(t) /\ Lends(t) /\ (Shares(s) => Shares(t))
    BY DEF RecStep, StreamAlone, RecSane, Lends, Shares
  <1> QED BY <1>1, <1>2, <1>3, <1>4 DEF Kept

-----------------------------------------------------------------------------
(* The calls a handler still makes.                                        *)

RecCalls == {"video_rec_start", "video_rec_stop", "video_rec_control_doing"}
Ups == {"net_video_rec_start", "net_rt_video0_reopen"}

Shapes ==
    {<<>>, <<"net_video_rec_stop">>}
        \cup {<<"net_video_rec_stop", c, u>> : c \in RecCalls, u \in Ups}
        \cup {<<c, u>> : c \in RecCalls, u \in Ups}
        \cup {<<u>> : u \in Ups}

LEMMA ShapesTyped == ASSUME NEW cs \in Shapes PROVE cs \in Seq(Calls)
  <1>1. CASE cs = <<>> \/ cs = <<"net_video_rec_stop">>
    <2>1. <<>> \in Seq(Calls)
      OBVIOUS
    <2>2. "net_video_rec_stop" \in Calls
      BY DEF Calls
    <2>3. <<"net_video_rec_stop">> \in Seq(Calls)
      BY <2>2
    <2> QED BY <1>1, <2>1, <2>3
  <1>2. CASE cs \in {<<"net_video_rec_stop", d, u>> : d \in RecCalls, u \in Ups}
    <2>1. PICK d \in RecCalls, u \in Ups : cs = <<"net_video_rec_stop", d, u>>
      BY <1>2
    <2>2. "net_video_rec_stop" \in Calls /\ d \in Calls /\ u \in Calls
      BY DEF Calls, RecCalls, Ups
    <2> QED BY <2>1, <2>2
  <1>3. CASE cs \in {<<d, u>> : d \in RecCalls, u \in Ups}
    <2>1. PICK d \in RecCalls, u \in Ups : cs = <<d, u>>
      BY <1>3
    <2>2. d \in Calls /\ u \in Calls
      BY DEF Calls, RecCalls, Ups
    <2> QED BY <2>1, <2>2
  <1>4. CASE cs \in {<<u>> : u \in Ups}
    <2>1. PICK u \in Ups : cs = <<u>>
      BY <1>4
    <2>2. u \in Calls
      BY DEF Calls, Ups
    <2> QED BY <2>1, <2>2
  <1> QED BY <1>1, <1>2, <1>3, <1>4 DEF Shapes

LEMMA CallsFact ==
    ASSUME NEW c \in Shapes, c # <<>>
    PROVE  \/ Head(c) = "net_video_rec_stop" /\ Tail(c) = <<>>
              /\ c = <<"net_video_rec_stop">>
           \/ /\ Head(c) = "net_video_rec_stop" /\ Tail(c) \in Shapes /\ Tail(c) # <<>>
              /\ Head(Tail(c)) \in RecCalls /\ Tail(c) # <<"net_video_rec_stop">>
           \/ /\ Head(c) \in RecCalls /\ Tail(c) \in Shapes /\ Tail(c) # <<>>
              /\ Head(Tail(c)) \in Ups /\ Tail(c) # <<"net_video_rec_stop">>
           \/ Head(c) \in Ups /\ Tail(c) = <<>>
  <1>1. CASE c = <<"net_video_rec_stop">>
    <2>1. Head(c) = "net_video_rec_stop" /\ Tail(c) = <<>>
      BY <1>1
    <2> QED BY <1>1, <2>1
  <1>2. CASE c \in {<<"net_video_rec_stop", d, u>> : d \in RecCalls, u \in Ups}
    <2>1. PICK d \in RecCalls, u \in Ups : c = <<"net_video_rec_stop", d, u>>
      BY <1>2
    <2>2. Head(c) = "net_video_rec_stop" /\ Tail(c) = <<d, u>>
      BY <2>1
    <2>3. Head(<<d, u>>) = d /\ <<d, u>> # <<>> /\ <<d, u>> # <<"net_video_rec_stop">>
      OBVIOUS
    <2>4. <<d, u>> \in Shapes
      BY DEF Shapes
    <2> QED BY <2>2, <2>3, <2>4
  <1>3. CASE c \in {<<d, u>> : d \in RecCalls, u \in Ups}
    <2>1. PICK d \in RecCalls, u \in Ups : c = <<d, u>>
      BY <1>3
    <2>2. Head(c) = d /\ Tail(c) = <<u>>
      BY <2>1
    <2>3. Head(<<u>>) = u /\ <<u>> # <<>> /\ <<u>> # <<"net_video_rec_stop">>
      BY DEF Ups
    <2>4. <<u>> \in Shapes
      BY DEF Shapes
    <2> QED BY <2>2, <2>3, <2>4
  <1>4. CASE c \in {<<u>> : u \in Ups}
    <2>1. PICK u \in Ups : c = <<u>>
      BY <1>4
    <2>2. Head(c) = u /\ Tail(c) = <<>>
      BY <2>1
    <2> QED BY <2>2
  <1> QED BY <1>1, <1>2, <1>3, <1>4 DEF Shapes

\* A handler that begins: its first call stops the stream.
LEMMA BeginFact ==
    ASSUME NEW s
    PROVE  /\ ControlCalls(s) \in Shapes /\ ControlCalls(s) # <<>>
           /\ ControlCalls(s) # <<"net_video_rec_stop">>
           /\ Head(ControlCalls(s)) = "net_video_rec_stop"
           /\ StopAround \in Shapes /\ StopAround # <<>>
           /\ StopAround # <<"net_video_rec_stop">>
           /\ Head(StopAround) = "net_video_rec_stop"
  <1>1. \A c \in RecCalls, u \in Ups :
            /\ <<"net_video_rec_stop", c, u>> \in Shapes
            /\ <<"net_video_rec_stop", c, u>> # <<>>
            /\ <<"net_video_rec_stop", c, u>> # <<"net_video_rec_stop">>
            /\ Head(<<"net_video_rec_stop", c, u>>) = "net_video_rec_stop"
    <2> TAKE c \in RecCalls, u \in Ups
    <2>1. <<"net_video_rec_stop", c, u>> \in Shapes
      BY DEF Shapes
    <2> QED BY <2>1
  <1>2. /\ "video_rec_control_doing" \in RecCalls /\ "video_rec_start" \in RecCalls
        /\ "video_rec_stop" \in RecCalls
        /\ "net_video_rec_start" \in Ups /\ "net_rt_video0_reopen" \in Ups
    BY DEF RecCalls, Ups
  <1>3. CASE s.rec = "start"
    <2>1. ControlCalls(s)
            = <<"net_video_rec_stop", "video_rec_control_doing", "net_video_rec_start">>
      BY <1>3 DEF ControlCalls
    <2>2. StopAround = <<"net_video_rec_stop", "video_rec_stop", "net_rt_video0_reopen">>
      BY DEF StopAround
    <2> QED BY <1>1, <1>2, <2>1, <2>2
  <1>4. CASE s.rec # "start"
    <2>1. ControlCalls(s)
            = <<"net_video_rec_stop", "video_rec_start", "net_rt_video0_reopen">>
      BY <1>4 DEF ControlCalls
    <2>2. StopAround = <<"net_video_rec_stop", "video_rec_stop", "net_rt_video0_reopen">>
      BY DEF StopAround
    <2> QED BY <1>1, <1>2, <2>1, <2>2
  <1> QED BY <1>3, <1>4

-----------------------------------------------------------------------------
(* The invariant. *)

\* What holds of cam, as far as the history allows.
Safe ==
    /\ cam \in State /\ FileSafe(cam)
    /\ "closed" \notin astray => Intent(cam)
    /\ NotStartedUnder => OwnsAlone(cam)
    /\ NotStoppedUnder => RecSane(cam) /\ Lends(cam)
    /\ NotStartedUnder /\ NotStoppedUnder => Shares(cam)

\* A handler switches the recorder with the stream down, unless another thread
\* has brought the stream up under it or the stream cannot be stopped.
CallsOk ==
    /\ calls \in Shapes
    /\ calls = <<"net_video_rec_stop">> => cam.faults # {}
    /\ calls # <<>> /\ Head(calls) \in RecCalls =>
           cam.net # "start" \/ astray \cap {"met", "closed"} # {}

Flags == ioctl \in BOOLEAN /\ astray \subseteq {"started", "stopped", "met", "closed"}

Inv == Safe /\ CallsOk /\ Flags /\ ComesBack

\* A step that keeps cam, and only adds to the history.
LEMMA SafeKept ==
    ASSUME Safe, Kept(cam, cam'), astray \subseteq astray'
    PROVE  Safe'
  <1>1. /\ NotStartedUnder' => NotStartedUnder
        /\ NotStoppedUnder' => NotStoppedUnder
        /\ "closed" \notin astray' => "closed" \notin astray
    BY DEF NotStartedUnder, NotStoppedUnder
  <1>2. NotStartedUnder => "closed" \notin astray
    BY DEF NotStartedUnder
  <1>3. NotStoppedUnder => "closed" \notin astray
    BY DEF NotStoppedUnder
  <1>4. cam' \in State /\ FileSafe(cam') /\ ("closed" \notin astray' => Intent(cam'))
    BY <1>1 DEF Safe, Kept
  <1>5. NotStartedUnder' => OwnsAlone(cam')
    BY <1>1, <1>2 DEF Safe, Kept
  <1>6. NotStoppedUnder' => RecSane(cam') /\ Lends(cam')
    BY <1>1, <1>3 DEF Safe, Kept
  <1>7. NotStartedUnder' /\ NotStoppedUnder' => Shares(cam')
    BY <1>1, <1>3 DEF Safe, Kept
  <1> QED BY <1>4, <1>5, <1>6, <1>7 DEF Safe, FileSafe, Intent, Wanted, OwnsAlone,
             RecSane, Lends, Shares

\* The calls that remain stay in order where the stream is not brought up.
LEMMA CallsKept ==
    ASSUME CallsOk, calls' = calls, astray \subseteq astray',
           cam.faults \subseteq cam'.faults,
           cam'.net = "start" =>
               \/ cam.net = "start" \/ calls = <<>>
               \/ astray' \cap {"met", "closed"} # {}
    PROVE  CallsOk'
  BY DEF CallsOk

\* The recorder alone is switched, by the charger, the key, or a file change.
LEMMA SwitchSafe ==
    ASSUME Safe, NEW t, RecCall(cam, t), RecStep(cam, t), cam' = t,
           astray' = astray \cup
               (IF cam.net # "start" \/ (cam.rec = "start" <=> t.rec = "start")
                THEN {} ELSE {IF cam.rec = "start" THEN "stopped" ELSE "started"})
    PROVE  Safe'
  <1>0. cam \in State
    BY DEF Safe
  <1>1. CASE cam.net # "start" \/ (cam.rec = "start" <=> t.rec = "start")
    BY <1>0, <1>1, RecKept, SafeKept
  <1>2. CASE ~(cam.net # "start" \/ (cam.rec = "start" <=> t.rec = "start"))
    <2>1. /\ t \in State /\ (FileSafe(cam) => FileSafe(t))
          /\ Intent(cam) => Intent(t)
      BY RecCallKeeps
    <2>2. /\ "closed" \notin astray' => "closed" \notin astray
          /\ NotStartedUnder' => NotStartedUnder
          /\ NotStoppedUnder' => NotStoppedUnder
      BY DEF NotStartedUnder, NotStoppedUnder
    <2>3. CASE cam.rec = "start"
      <3>1. "stopped" \in astray'
        BY <1>2, <2>3
      <3>2. ~NotStoppedUnder'
        BY <3>1 DEF NotStoppedUnder
      <3>3. OwnsAlone(cam) => OwnsAlone(t)
        BY <1>2, <2>3 DEF OwnsAlone, RecCall, StreamAlone
      <3> QED BY <2>1, <2>2, <3>2, <3>3 DEF Safe, FileSafe, Intent, Wanted, OwnsAlone,
                 RecSane, Lends, Shares
    <2>4. CASE cam.rec # "start"
      <3>1. "started" \in astray'
        BY <1>2, <2>4
      <3>2. ~NotStartedUnder'
        BY <3>1 DEF NotStartedUnder
      <3>3. RecSane(cam) /\ Lends(cam) => RecSane(t) /\ Lends(t)
        BY <2>4 DEF RecStep, StreamAlone, RecSane, Lends
      <3> QED BY <2>1, <2>2, <3>2, <3>3 DEF Safe, FileSafe, Intent, Wanted, OwnsAlone,
                 RecSane, Lends, Shares
    <2> QED BY <2>3, <2>4
  <1> QED BY <1>1, <1>2

LEMMA SwitchInv ==
    ASSUME Inv, NEW R, Switch(R), UNCHANGED <<calls, ioctl>>,
           \A r \in R : RecCall(cam, r.st) /\ RecStep(cam, r.st)
    PROVE  Inv'
  <1>1. PICK r \in R :
            /\ cam' = r.st
            /\ astray' = astray \cup
                  (IF cam.net # "start" \/ (cam.rec = "start" <=> r.st.rec = "start")
                   THEN {} ELSE {IF cam.rec = "start" THEN "stopped" ELSE "started"})
    BY DEF Switch
  <1>2. RecCall(cam, r.st) /\ RecStep(cam, r.st)
    OBVIOUS
  <1>3. Safe'
    BY <1>1, <1>2, SwitchSafe DEF Inv
  <1>4. cam'.net = cam.net /\ cam.faults \subseteq cam'.faults
    BY <1>1, <1>2 DEF RecCall, StreamAlone
  <1>5. CallsOk'
    BY <1>1, <1>4, CallsKept DEF Inv
  <1>6. Flags'
    BY <1>1 DEF Inv, Flags
  <1>7. ComesBack'
    BY <1>1, <1>2 DEF Inv, ComesBack, RecCall, StreamAlone, SameWish, Wanted
  <1> QED BY <1>3, <1>5, <1>6, <1>7 DEF Inv

-----------------------------------------------------------------------------
(* The steps. *)

LEMMA CallInv == ASSUME Inv, Call PROVE Inv'
  <1>0. cam \in State /\ calls \in Shapes /\ calls # <<>> /\ CallsOk /\ Safe
    BY DEF Inv, Safe, CallsOk, Call
  <1>1. PICK r \in Outcomes(Head(calls), cam) : cam' = r.st
    BY DEF Call, Become
  <1>2. calls' = Tail(calls) /\ ioctl' = ioctl /\ astray' = astray
    BY DEF Call
  <1>3. Flags'
    BY <1>2 DEF Inv, Flags
  <1>4. CASE Head(calls) = "net_video_rec_stop"
    <2>1. r \in net_video_rec_stop(cam)
      BY <1>1, <1>4 DEF Outcomes
    <2>2. Kept(cam, cam') /\ (Intent(cam) => cam'.net # "start")
      BY <1>0, <1>1, <2>1, StopKept
    <2>3. Safe'
      BY <1>0, <1>2, <2>2, SafeKept
    <2>4. \/ Tail(calls) = <<>> /\ calls = <<"net_video_rec_stop">>
          \/ /\ Tail(calls) \in Shapes /\ Tail(calls) # <<>>
             /\ Tail(calls) # <<"net_video_rec_stop">>
      BY <1>0, <1>4, CallsFact DEF RecCalls, Ups
    <2>5. <<>> \in Shapes
      BY DEF Shapes
    <2>6. CallsOk'
      BY <1>0, <1>2, <2>2, <2>4, <2>5 DEF CallsOk, Safe, Kept
    <2>7. ComesBack'
      BY <1>0, <1>2, <2>2, <2>4 DEF ComesBack, CallsOk, Kept
    <2> QED BY <1>3, <2>3, <2>6, <2>7 DEF Inv
  <1>5. CASE Head(calls) \in RecCalls
    <2>1. RecCall(cam, cam') /\ RecStep(cam, cam')
      BY <1>0, <1>1, <1>5, RecStart, RecStop, RecControlDoing,
         RecStartCall, RecStopCall, RecDoingCall DEF Outcomes, RecCalls
    <2>2. Safe'
      <3>1. CASE cam.net # "start"
        BY <1>0, <1>2, <2>1, <3>1, RecKept, SafeKept
      <3>2. CASE cam.net = "start"
        <4>1. astray' \cap {"met", "closed"} # {}
          BY <1>0, <1>2, <1>5, <3>2 DEF CallsOk
        <4>2. ~NotStartedUnder' /\ ~NotStoppedUnder'
          BY <4>1 DEF NotStartedUnder, NotStoppedUnder
        <4>3. /\ cam' \in State /\ (FileSafe(cam) => FileSafe(cam'))
              /\ Intent(cam) => Intent(cam')
          BY <2>1, RecCallKeeps
        <4> QED BY <1>0, <1>2, <4>2, <4>3 DEF Safe, FileSafe, Intent, Wanted,
                   OwnsAlone, RecSane, Lends, Shares
      <3> QED BY <3>1, <3>2
    <2>3. /\ Tail(calls) \in Shapes /\ Tail(calls) # <<>>
          /\ Head(Tail(calls)) \in Ups /\ Tail(calls) # <<"net_video_rec_stop">>
      BY <1>0, <1>5, CallsFact DEF RecCalls, Ups
    <2>4. Head(calls') \notin RecCalls
      BY <1>2, <2>3 DEF RecCalls, Ups
    <2>5. CallsOk'
      BY <1>2, <2>3, <2>4 DEF CallsOk
    <2>6. ComesBack'
      BY <1>2, <2>3 DEF ComesBack
    <2> QED BY <1>3, <2>2, <2>5, <2>6 DEF Inv
  <1>6. CASE Head(calls) \in Ups
    <2>1. Kept(cam, cam') /\ Back(cam')
      BY <1>0, <1>1, <1>6, ReopenKept, RestartKept DEF Outcomes, Ups
    <2>2. Safe'
      BY <1>0, <1>2, <2>1, SafeKept
    <2>3. calls' = <<>>
      BY <1>0, <1>2, <1>6, CallsFact DEF RecCalls, Ups
    <2>4. <<>> \in Shapes /\ <<>> # <<"net_video_rec_stop">>
      BY DEF Shapes
    <2>5. CallsOk'
      BY <2>3, <2>4 DEF CallsOk
    <2>6. ComesBack'
      BY <2>1 DEF ComesBack, Back, Wanted
    <2> QED BY <1>3, <2>2, <2>5, <2>6 DEF Inv
  <1> QED BY <1>0, <1>4, <1>5, <1>6, CallsFact

\* A handler of one call, between two handlers.
LEMMA AtOnceInv ==
    ASSUME Inv, UNCHANGED <<calls, ioctl, astray>>, calls = <<>>,
           Kept(cam, cam'), Back(cam')
    PROVE  Inv'
  <1>1. Safe'
    BY SafeKept DEF Inv
  <1>2. CallsOk'
    BY CallsKept DEF Inv, Kept
  <1>3. ComesBack'
    BY DEF ComesBack, Back, Wanted
  <1> QED BY <1>1, <1>2, <1>3 DEF Inv, Flags

LEMMA BeginInv ==
    ASSUME Inv, NEW cs, Begin(cs), cs \in Shapes, cs # <<>>,
           cs # <<"net_video_rec_stop">>, Head(cs) = "net_video_rec_stop"
    PROVE  Inv'
  <1>1. calls' = cs /\ cam' = cam /\ ioctl' = ioctl /\ astray' = astray
    BY DEF Begin
  <1>2. Safe'
    BY <1>1, KeptSame, SafeKept DEF Inv, Safe
  <1>3. CallsOk'
    BY <1>1 DEF CallsOk, RecCalls
  <1>4. Flags' /\ ComesBack'
    BY <1>1 DEF Inv, Flags, ComesBack
  <1> QED BY <1>2, <1>3, <1>4 DEF Inv

LEMMA OpenRtInv == ASSUME Inv, OpenRtStream PROVE Inv'
  <1>1. PICK mark \in Marks :
            AtOnce(net_rt_video0_open([cam EXCEPT !.open = TRUE], mark))
    BY DEF OpenRtStream
  <1>2. PICK r \in net_rt_video0_open([cam EXCEPT !.open = TRUE], mark) : cam' = r.st
    BY <1>1 DEF AtOnce, Become
  <1>3. Kept(cam, cam') /\ Back(cam')
    BY <1>2, OpenKept DEF Inv, Safe
  <1> QED BY <1>1, <1>3, AtOnceInv DEF AtOnce

\* The outcome of a stop followed by the mark that the stream is closed.
LEMMA ThenClosed ==
    ASSUME NEW R, NEW r \in Then(R, LAMBDA t : Ok(Closed(t)))
    PROVE  \E p \in R : r.st = Closed(p.st)
  <1>1. PICK p \in R : r \in Ok(Closed(p.st))
    BY DEF Then
  <1> QED BY <1>1, OkFact

LEMMA CloseRtInv == ASSUME Inv, CloseRtStream PROVE Inv'
  <1>1. PICK mark \in Marks :
            AtOnce(Then(net_rt_video0_stop(cam, mark), LAMBDA t : Ok(Closed(t))))
    BY DEF CloseRtStream
  <1>2. PICK r \in Then(net_rt_video0_stop(cam, mark), LAMBDA t : Ok(Closed(t))) :
            cam' = r.st
    BY <1>1 DEF AtOnce, Become
  <1>3. PICK p \in net_rt_video0_stop(cam, mark) : cam' = Closed(p.st)
    BY <1>2, ThenClosed
  <1>4. Kept(cam, cam') /\ Back(cam')
    BY <1>3, LeaveKept DEF Inv, Safe
  <1> QED BY <1>1, <1>4, AtOnceInv DEF AtOnce

LEMMA UserOpenInv == ASSUME Inv, UserOpen PROVE Inv'
  <1>0. cam \in State
    BY DEF Inv, Safe
  <1>1. PICK r \in OnErr(net_rt_video0_open([cam EXCEPT !.open = TRUE], "both"),
                         LAMBDA t : Ok(Closed(t))) : cam' = r.st
    BY DEF UserOpen, Become
  <1>2. PICK p \in net_rt_video0_open([cam EXCEPT !.open = TRUE], "both") :
            r \in IF p.err THEN {[st |-> q.st, err |-> TRUE] : q \in Ok(Closed(p.st))}
                  ELSE {p}
    BY DEF OnErr
  <1>3. Kept(cam, p.st) /\ Back(p.st) /\ (p.err => p.st.net # "start")
    BY <1>0, OpenKept DEF Marks
  <1>4. Kept(cam, cam') /\ Back(cam')
    <2>1. CASE ~p.err
      BY <1>1, <1>2, <1>3, <2>1
    <2>2. CASE p.err
      <3>1. PICK q \in Ok(Closed(p.st)) : r = [st |-> q.st, err |-> TRUE]
        BY <1>2, <2>2
      <3>2. cam' = Closed(p.st)
        BY <1>1, <3>1, OkFact
      <3>3. Kept(p.st, Closed(p.st)) /\ Back(Closed(p.st))
        BY <1>3, <2>2, ClosedKept DEF Kept
      <3> QED BY <1>3, <3>2, <3>3, KeptTrans
    <2> QED BY <2>1, <2>2
  <1>5. /\ calls' = calls /\ ioctl' = ioctl /\ astray \subseteq astray'
        /\ astray' \subseteq astray \cup {"met"}
        /\ cam'.net = "start" => calls = <<>> \/ "met" \in astray'
    BY DEF UserOpen
  <1>6. Safe'
    BY <1>4, <1>5, SafeKept DEF Inv
  <1>7. CallsOk'
    BY <1>4, <1>5, CallsKept DEF Inv, Kept
  <1>8. Flags'
    BY <1>5 DEF Inv, Flags
  <1>9. ComesBack'
    BY <1>4 DEF ComesBack, Back, Wanted
  <1> QED BY <1>6, <1>7, <1>8, <1>9 DEF Inv

LEMMA UserCloseInv == ASSUME Inv, UserClose PROVE Inv'
  <1>1. PICK r \in Then(net_rt_video0_stop(cam, "both"), LAMBDA t : Ok(Closed(t))) :
            cam' = r.st
    BY DEF UserClose, Become
  <1>2. PICK p \in net_rt_video0_stop(cam, "both") : cam' = Closed(p.st)
    BY <1>1, ThenClosed
  <1>3. /\ Kept(cam, cam') /\ Back(cam')
        /\ cam'.net = "start" => cam.net = "start"
    BY <1>2, LeaveKept DEF Inv, Safe, Marks
  <1>4. calls' = calls /\ ioctl' = ioctl /\ astray' = astray
    BY DEF UserClose
  <1>5. Safe'
    BY <1>3, <1>4, SafeKept DEF Inv
  <1>6. CallsOk'
    BY <1>3, <1>4, CallsKept DEF Inv, Kept
  <1>7. Flags' /\ ComesBack'
    BY <1>3, <1>4 DEF Inv, Flags, ComesBack, Back, Wanted
  <1> QED BY <1>5, <1>6, <1>7 DEF Inv

LEMMA IoctlStopInv == ASSUME Inv, IoctlStop PROVE Inv'
  <1>1. PICK r \in net_video_rec_stop(cam) : cam' = r.st
    BY DEF IoctlStop, Become
  <1>2. Kept(cam, cam') /\ (cam'.net = "start" => cam.net = "start")
    BY <1>1, StopKept DEF Inv, Safe
  <1>3. calls' = calls /\ ioctl' = TRUE /\ astray' = astray
    BY DEF IoctlStop
  <1>4. Safe'
    BY <1>2, <1>3, SafeKept DEF Inv
  <1>5. CallsOk'
    BY <1>2, <1>3, CallsKept DEF Inv, Kept
  <1>6. Flags' /\ ComesBack'
    BY <1>3 DEF Inv, Flags, ComesBack
  <1> QED BY <1>4, <1>5, <1>6 DEF Inv

LEMMA IoctlCloseInv == ASSUME Inv, IoctlClose PROVE Inv'
  <1>1. /\ cam' = Closed(cam) /\ calls' = calls /\ ioctl' = FALSE
        /\ astray' = IF cam.net = "start" THEN astray \cup {"closed"} ELSE astray
    BY DEF IoctlClose
  <1>2. cam \in State
    BY DEF Inv, Safe
  <1>3. Alike(cam, cam') /\ cam'.net = cam.net /\ cam'.open = FALSE
    BY <1>1, <1>2 DEF State, Alike, Closed
  <1>4. Safe'
    <2>1. CASE cam.net # "start"
      BY <1>1, <1>3, <2>1, AlikeKept, SafeKept DEF Inv, Intent
    <2>2. CASE cam.net = "start"
      <3>1. "closed" \in astray'
        BY <1>1, <2>2
      <3>2. ~NotStartedUnder' /\ ~NotStoppedUnder'
        BY <3>1 DEF NotStartedUnder, NotStoppedUnder
      <3>3. cam' \in State /\ FileSafe(cam')
        BY <1>3 DEF Inv, Safe, Alike, FileSafe
      <3> QED BY <3>1, <3>2, <3>3 DEF Safe, FileSafe
    <2> QED BY <2>1, <2>2
  <1>5. CallsOk'
    BY <1>1, <1>3, CallsKept DEF Inv, Alike
  <1>6. Flags' /\ ComesBack'
    BY <1>1, <1>3 DEF Inv, Flags, ComesBack
  <1> QED BY <1>4, <1>5, <1>6 DEF Inv

LEMMA UsbOutInv == ASSUME Inv, UsbOut PROVE Inv'
  <1> DEFINE s == [cam EXCEPT !.faults = @ \cup {"other"}]
             R == IF s.rec = "start" THEN video_rec_control_doing(s) ELSE Ok(s)
  <1>0. cam \in State
    BY DEF Inv, Safe
  <1>1. /\ s \in State /\ StreamAlone(cam, s) /\ s.orphan = cam.orphan
        /\ s.rec = cam.rec /\ s.rh = cam.rh /\ s.file = cam.file /\ s.lost = cam.lost
        /\ s.faults = cam.faults \cup {"other"}
    BY <1>0 DEF State, StreamAlone, SameWish, FaultKinds
  <1>2. calls' = <<"net_video_rec_stop">> /\ ioctl' = ioctl /\ Switch(R) /\ calls = <<>>
    BY DEF UsbOut
  <1> HIDE DEF s
  <1>3. PICK r \in R :
            /\ cam' = r.st
            /\ astray' = astray \cup
                  (IF cam.net # "start" \/ (cam.rec = "start" <=> r.st.rec = "start")
                   THEN {} ELSE {IF cam.rec = "start" THEN "stopped" ELSE "started"})
    BY <1>2 DEF Switch
  <1>4. RecCall(s, r.st) /\ RecStep(s, r.st)
    <2>1. CASE s.rec = "start"
      BY <1>1, <2>1, RecControlDoing, RecDoingCall
    <2>2. CASE s.rec # "start"
      <3>1. r.st = s
        BY <1>3, <2>2, OkFact
      <3> QED BY <1>1, <3>1 DEF RecCall, RecStep, StreamAlone, SameWish
    <2> QED BY <2>1, <2>2
  <1>5. RecCall(cam, r.st) /\ RecStep(cam, r.st) /\ r.st.faults # {}
    BY <1>1, <1>4 DEF RecCall, RecStep, StreamAlone, SameWish, FileSafe, RecSane
  <1>6. Safe'
    BY <1>3, <1>5, SwitchSafe DEF Inv
  <1>7. <<"net_video_rec_stop">> \in Shapes /\ <<"net_video_rec_stop">> # <<>>
        /\ Head(<<"net_video_rec_stop">>) = "net_video_rec_stop"
    BY DEF Shapes
  <1>8. CallsOk'
    BY <1>2, <1>3, <1>5, <1>7 DEF CallsOk, RecCalls
  <1>9. Flags'
    BY <1>2, <1>3 DEF Inv, Flags
  <1>10. ComesBack'
    BY <1>2, <1>7 DEF ComesBack
  <1> QED BY <1>6, <1>8, <1>9, <1>10 DEF Inv

\* Every step of every thread keeps the invariant.
LEMMA StepInv == ASSUME Inv, Next PROVE Inv'
  <1>0. cam \in State
    BY DEF Inv, Safe
  <1>1. CASE RecControl \/ OwnPkgErr \/ OwnPkgEnd
    <2>1. Begin(ControlCalls(cam))
      BY <1>1 DEF RecControl, OwnPkgErr, OwnPkgEnd
    <2> QED BY <2>1, BeginFact, BeginInv
  <1>2. CASE RecPkgErr \/ RecPkgEnd
    <2>1. Begin(StopAround)
      BY <1>2 DEF RecPkgErr, RecPkgEnd
    <2> QED BY <2>1, BeginFact, BeginInv
  <1>3. CASE RecSaveFile
    <2>1. \A r \in video_rec_savefile(cam) : RecCall(cam, r.st) /\ RecStep(cam, r.st)
      BY <1>0, RecSavefile, RecSavefileCall
    <2> QED BY <1>3, <2>1, SwitchInv DEF RecSaveFile
  <1>4. CASE ChargerIn
    <2>1. \A r \in video_rec_start(cam) : RecCall(cam, r.st) /\ RecStep(cam, r.st)
      BY <1>0, RecStart, RecStartCall
    <2> QED BY <1>4, <2>1, SwitchInv DEF ChargerIn
  <1>5. CASE ChargerOut \/ K2
    <2>1. \A r \in video_rec_control_doing(cam) :
              RecCall(cam, r.st) /\ RecStep(cam, r.st)
      BY <1>0, RecControlDoing, RecDoingCall
    <2> QED BY <1>5, <2>1, SwitchInv DEF ChargerOut, K2
  <1> QED BY <1>1, <1>2, <1>3, <1>4, <1>5, CallInv, OpenRtInv, CloseRtInv, UsbOutInv,
             UserOpenInv, UserCloseInv, IoctlStopInv, IoctlCloseInv DEF Next

LEMMA InitInv == ASSUME Init PROVE Inv
  <1>1. cam \in State
    BY DEF Init, State
  <1>2. Safe
    BY <1>1 DEF Init, Safe, FileSafe, Intent, OwnsAlone, RecSane, Lends, Shares
  <1>3. CallsOk
    <2>1. <<>> \in Shapes /\ <<>> # <<"net_video_rec_stop">>
      BY DEF Shapes
    <2> QED BY <2>1 DEF Init, CallsOk
  <1>4. Flags /\ ComesBack
    BY DEF Init, Flags, ComesBack
  <1> QED BY <1>2, <1>3, <1>4 DEF Inv

LEMMA InvTheorem == Spec => []Inv
  <1>1. Inv /\ [Next]_vars => Inv'
    <2> SUFFICES ASSUME Inv, [Next]_vars PROVE Inv'
      OBVIOUS
    <2>1. CASE UNCHANGED vars
      BY <2>1 DEF vars, Inv, Safe, FileSafe, Intent, Wanted, OwnsAlone, RecSane, Lends,
         Shares, CallsOk, Flags, ComesBack, NotStartedUnder, NotStoppedUnder
    <2> QED BY <2>1, StepInv
  <1> QED BY <1>1, InitInv, PTL DEF Spec

-----------------------------------------------------------------------------
(* The theorems. *)

\* Every variable keeps its type, whatever calls fail and whatever comes between
\* the calls of a handler.
THEOREM TypeCorrect == Spec => []TypeOK
  <1>1. Inv => TypeOK
    BY ShapesTyped DEF Inv, Safe, CallsOk, Flags, TypeOK
  <1> QED BY <1>1, InvTheorem, PTL

\* What runs, runs for a client: the stream, its channel and its writer task,
\* each with the one exception that can leave it running.
THEOREM WantedTheorem == Spec => []RunsOnlyIfWanted
  <1>1. Inv => RunsOnlyIfWanted
    BY DEF Inv, Safe, Intent, OwnsAlone, Lends, RunsOnlyIfWanted
  <1> QED BY <1>1, InvTheorem, PTL

\* As long as nothing fails and no USB device is removed, the stream comes back
\* after every switch, whoever makes it and whenever.
THEOREM BackTheorem == Spec => []ComesBack
  BY InvTheorem, PTL DEF Inv

\* Until the recorder is switched under it, the stream uses the recorder's
\* channel exactly while it records, whatever calls fail.
THEOREM ShareTheorem == Spec => []SharesWhileRecording
  <1>1. Inv => SharesWhileRecording
    BY DEF Inv, Safe, Shares, SharesWhileRecording
  <1> QED BY <1>1, InvTheorem, PTL

\* Until the recorder is started under it, recorder and stream run a channel
\* together only after the stop of that channel was refused (net_video_rec.c:1422).
THEOREM ChannelTheorem == Spec => []OneChannel
  <1>1. Inv => OneChannel
    BY DEF Inv, Safe, OwnsAlone, OneChannel
  <1> QED BY <1>1, InvTheorem, PTL

\* No recording is overwritten while it is open, unless the recorder's stop was
\* refused (video_rec.c:779): every other way out of the recorder closes the
\* file, whatever fails and whoever switches the recorder.
THEOREM FileTheorem == Spec => []NoFileLost
  <1>1. Inv => NoFileLost
    BY DEF Inv, Safe, FileSafe, NoFileLost
  <1> QED BY <1>1, InvTheorem, PTL

\* Until the recorder is started under the stream, a server is left open with
\* nobody to close it only after its start or stop has failed
\* (net_video_rec.c:1002).
THEOREM ServerTheorem == Spec => []NoServerLost
  <1>1. Inv => NoServerLost
    BY DEF Inv, Safe, OwnsAlone, NoServerLost
  <1> QED BY <1>1, InvTheorem, PTL

\* Until the recorder is stopped under it, the stream gives the recorder's
\* handle back without closing it, whatever calls fail.
THEOREM HandleTheorem == Spec => []HandleKept
  <1>1. Inv => HandleKept
    BY DEF Inv, Safe, RecSane, HandleKept
  <1> QED BY <1>1, InvTheorem, PTL
=============================================================================
