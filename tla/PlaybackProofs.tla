---------------------------- MODULE PlaybackProofs --------------------------
(***************************************************************************)
(* Playback for every number of phones, sessions and commands: the types,  *)
(* that the client list names exactly the allocated sessions until a call  *)
(* fails, and that a pause holds.                                          *)
(***************************************************************************)
EXTENDS Playback, SequenceTheorems, TLAPS

USE DEF Sessions, net, flags

(* What is left of a list when the entry at position i has been removed. *)
LEMMA Deleted ==
    ASSUME NEW S, NEW l \in Seq(S), NEW i \in 1..Len(l)
    PROVE  /\ Without(l, i) \in Seq(S)
           /\ Len(Without(l, i)) = Len(l) - 1
           /\ \A j \in 1..(Len(l) - 1) :
                  Without(l, i)[j] = IF j < i THEN l[j] ELSE l[j + 1]
<1> DEFINE m == Without(l, i)
           a == SubSeq(l, 1, i - 1)
           b == SubSeq(l, i + 1, Len(l))
<1>1. Len(l) \in Nat /\ \A j \in 1..Len(l) : l[j] \in S
  BY ElementOfSeq, LenProperties
<1>2. /\ a \in Seq(S) /\ Len(a) = i - 1
      /\ \A j \in 1..(i - 1) : a[j] = l[j]
  <2>1. \A j \in 1..(i - 1) : l[j] \in S
    BY <1>1
  <2>2. /\ a \in Seq(S) /\ Len(a) = IF 1 <= i - 1 THEN i - 1 - 1 + 1 ELSE 0
        /\ \A j \in 1..(i - 1 - 1 + 1) : a[j] = l[1 + j - 1]
    BY <2>1, <1>1, SubSeqProperties
  <2> HIDE DEF a
  <2> QED
    BY <2>2, <1>1
<1>3. /\ b \in Seq(S) /\ Len(b) = Len(l) - i
      /\ \A j \in 1..(Len(l) - i) : b[j] = l[i + j]
  <2>1. \A j \in (i + 1)..Len(l) : l[j] \in S
    BY <1>1
  <2>2. /\ b \in Seq(S)
        /\ Len(b) = IF i + 1 <= Len(l) THEN Len(l) - (i + 1) + 1 ELSE 0
        /\ \A j \in 1..(Len(l) - (i + 1) + 1) : b[j] = l[i + 1 + j - 1]
    BY <2>1, <1>1, SubSeqProperties
  <2> HIDE DEF b
  <2> QED
    BY <2>2, <1>1
<1>4. m = a \o b
  BY DEF Without
<1> HIDE DEF a, b, m
<1>5. /\ a \o b \in Seq(S) /\ Len(a \o b) = Len(a) + Len(b)
      /\ \A j \in 1..(Len(a) + Len(b)) :
             (a \o b)[j] = IF j <= Len(a) THEN a[j] ELSE b[j - Len(a)]
  BY <1>2, <1>3, ConcatProperties, Zenon
<1>6. /\ m \in Seq(S) /\ Len(m) = (i - 1) + (Len(l) - i)
      /\ \A j \in 1..((i - 1) + (Len(l) - i)) :
             m[j] = IF j <= i - 1 THEN a[j] ELSE b[j - (i - 1)]
  BY <1>2, <1>3, <1>4, <1>5, Zenon
<1>7. (i - 1) + (Len(l) - i) = Len(l) - 1
  BY <1>1
<1>8. ASSUME NEW j \in 1..(Len(l) - 1)
      PROVE  m[j] = IF j < i THEN l[j] ELSE l[j + 1]
  <2>0. m[j] = IF j <= i - 1 THEN a[j] ELSE b[j - (i - 1)]
    BY <1>6, <1>7
  <2>1. CASE j < i
    <3>1. j <= i - 1 /\ j \in 1..(i - 1)
      BY <2>1, <1>1
    <3> QED
      BY <2>0, <2>1, <3>1, <1>2
  <2>2. CASE ~(j < i)
    <3>1. ~(j <= i - 1) /\ j - (i - 1) \in 1..(Len(l) - i) /\ i + (j - (i - 1)) = j + 1
      BY <2>2, <1>1
    <3> QED
      BY <2>0, <2>2, <3>1, <1>3
  <2> QED
    BY <2>1, <2>2
<1> QED
  BY <1>6, <1>7, <1>8 DEF m

(* The initial state has its types. *)
LEMMA TypeAtStart == Init => TypeOK
<1> SUFFICES ASSUME Init PROVE TypeOK
  OBVIOUS
<1>1. stop \in [Sessions -> BOOLEAN] /\ kill \in [Sessions -> BOOLEAN]
  BY DEF Init
<1>2. listen \in BOOLEAN
  BY DEF Init
<1>3. pc \in [Sessions -> Stages] /\ peer \in [Sessions -> Phones \cup {None}]
  BY DEF Init, Stages
<1>4. backlog \in Seq(Phones) /\ list \in Seq(Sessions)
  BY DEF Init
<1>5. sem \in [Sessions -> Nat] /\ late \in [Sessions -> Nat] /\ held \in [Sessions -> Nat]
  BY DEF Init
<1>6. asked \in 0..MaxSessions /\ dialed \in 0..MaxSessions /\ posts \in 0..MaxPosts
  BY BoundsAssumption DEF Init
<1>7. gone \subseteq Phones
  BY DEF Init
<1> QED
  BY <1>1, <1>2, <1>3, <1>4, <1>5, <1>6, <1>7 DEF TypeOK

(* A disconnect flags and posts sessions of the list only. *)
LEMMA DisconnectTypes ==
    ASSUME TypeOK, NEW p \in Phones, playback_disconnect_cli(p)
    PROVE  kill' \in [Sessions -> BOOLEAN] /\ sem' \in [Sessions -> Nat]
<1>1. CASE UNCHANGED <<kill, sem>>
  BY <1>1 DEF TypeOK
<1>2. CASE list # <<>> /\ peer[Head(list)] = p
  <2>1. Head(list) \in Sessions
    BY <1>2, HeadTailProperties DEF TypeOK
  <2>2. /\ kill' = [kill EXCEPT ![Head(list)] = TRUE]
        /\ sem' = [sem EXCEPT ![Head(list)] = IF stop[Head(list)] THEN @ + 1 ELSE @]
    BY <1>2 DEF playback_disconnect_cli
  <2> QED
    BY <2>1, <2>2 DEF TypeOK
<1> QED
  BY <1>1, <1>2 DEF playback_disconnect_cli

(* Sessions found through the list are sessions. *)
LEMMA FirstTypes == ASSUME TypeOK, NEW p PROVE First(p) \subseteq Sessions
<1>1. DOMAIN list = 1..Len(list) /\ \A i \in 1..Len(list) : list[i] \in Sessions
  BY LenProperties, ElementOfSeq DEF TypeOK
<1> QED
  BY <1>1 DEF First, Of

(* Every step keeps the types. *)
LEMMA TypeStep == TypeOK /\ [Next]_vars => TypeOK'
<1> SUFFICES ASSUME TypeOK, [Next]_vars PROVE TypeOK'
  OBVIOUS
<1>0. \A s \in Sessions, x \in Stages : Goto(s, x) => pc' \in [Sessions -> Stages]
  BY DEF TypeOK, Goto
<1>1. CASE video_playback_post_msg
  <2>1. asked + 1 \in Sessions /\ asked' \in 0..MaxSessions
    BY <1>1, BoundsAssumption DEF video_playback_post_msg, TypeOK
  <2>2. pc' \in [Sessions -> Stages]
    BY <1>0, <1>1, <2>1 DEF video_playback_post_msg, Stages
  <2> QED
    BY <1>1, <2>1, <2>2 DEF video_playback_post_msg, TypeOK
<1>2. ASSUME NEW s \in Sessions, Accepting(s) PROVE TypeOK'
  <2>1. CASE Select(s)
    <3>1. pc' \in [Sessions -> Stages]
      BY <1>0, <2>1 DEF Select, Stages
    <3> QED
      BY <2>1, <3>1 DEF Select, TypeOK
  <2>2. CASE Accept(s)
    <3>1. Head(backlog) \in Phones /\ Tail(backlog) \in Seq(Phones)
      BY <2>2, HeadTailProperties DEF Accept, TypeOK
    <3>2. pc' \in [Sessions -> Stages]
      BY <1>0, <2>2 DEF Accept, Stages
    <3> QED
      BY <2>2, <3>1, <3>2 DEF Accept, TypeOK
  <2>3. CASE AcceptFails(s)
    <3>1. pc' \in [Sessions -> Stages]
      BY <1>0, <2>3 DEF AcceptFails, Stages
    <3>2. listen' \in BOOLEAN
      BY <2>3 DEF AcceptFails
    <3> QED
      BY <2>3, <3>1, <3>2 DEF AcceptFails, TypeOK
  <2>4. CASE AddToList(s)
    <3>1. list' \in Seq(Sessions)
      BY <2>4, AppendProperties DEF AddToList, TypeOK
    <3>2. pc' \in [Sessions -> Stages]
      BY <1>0, <2>4 DEF AddToList, Stages
    <3> QED
      BY <2>4, <3>1, <3>2 DEF AddToList, TypeOK
  <2>5. CASE Fork(s)
    <3>1. pc' \in [Sessions -> Stages]
      BY <1>0, <2>5 DEF Fork, Stages, Playing
    <3>2. listen' \in BOOLEAN
      BY <2>5 DEF Fork, TypeOK
    <3> QED
      BY <2>5, <3>1, <3>2 DEF Fork, TypeOK
  <2> QED
    BY <1>2, <2>1, <2>2, <2>3, <2>4, <2>5 DEF Accepting
<1>3. ASSUME NEW s \in Sessions, Running(s) PROVE TypeOK'
  <2>1. pc' \in [Sessions -> Stages]
    BY <1>0, <1>3 DEF Running, Load, Top, Pend, Test, Send, NextFile, Exit, Stages, Playing
  <2>2. CASE Exit(s)
    <3>1. PICK i \in DOMAIN list : list' = Without(list, i)
      BY <2>2 DEF Exit, list_del
    <3>2. i \in 1..Len(list)
      BY <3>1, LenProperties DEF TypeOK
    <3>3. list' \in Seq(Sessions)
      BY <3>1, <3>2, Deleted DEF TypeOK
    <3> QED
      BY <2>1, <2>2, <3>3 DEF Exit, TypeOK
  <2>3. CASE Load(s) \/ Top(s) \/ Test(s) \/ NextFile(s)
    <3>1. UNCHANGED <<net, peer, list, stop, kill, sem, posts, late, held, gone>>
      <4>1. OwnStep(s) /\ UNCHANGED <<sem, late>>
        BY <2>3 DEF Load, Top, Test, NextFile
      <4> QED
        BY <4>1 DEF OwnStep
    <3> QED
      BY <2>1, <3>1 DEF TypeOK
  <2>4. CASE Pend(s)
    <3>1. sem' \in [Sessions -> Nat]
      <4>1. sem \in [Sessions -> Nat]
        BY DEF TypeOK
      <4>2. sem[s] > 0 /\ sem' = [sem EXCEPT ![s] = sem[s] - 1]
        BY <2>4 DEF Pend
      <4>3. sem[s] - 1 \in Nat
        BY <4>1, <4>2
      <4> QED
        BY <4>1, <4>2, <4>3
    <3> QED
      BY <2>1, <2>4, <3>1 DEF Pend, OwnStep, TypeOK
  <2>5. CASE Send(s)
    <3>1. late' \in [Sessions -> Nat]
      BY <2>5 DEF Send, TypeOK
    <3> QED
      BY <2>1, <2>5, <3>1 DEF Send, OwnStep, TypeOK
  <2> QED
    BY <1>3, <2>2, <2>3, <2>4, <2>5 DEF Running
<1>4. ASSUME NEW p \in Phones, Command(p) PROVE TypeOK'
  <2>1. CASE Dial(p)
    <3>1. backlog' \in Seq(Phones)
      BY <2>1, AppendProperties DEF Dial, TypeOK
    <3>2. dialed' \in 0..MaxSessions
      BY <2>1, BoundsAssumption DEF Dial, TypeOK
    <3> QED
      BY <2>1, <3>1, <3>2 DEF Dial, TypeOK
  <2>2. CASE playback_cli_pause(p)
    <3> PICK s \in First(p) :
           /\ stop' = [stop EXCEPT ![s] = TRUE]
           /\ late' = [late EXCEPT ![s] = IF stop[s] THEN @ ELSE 0]
           /\ held' = [held EXCEPT ![s] = IF stop[s] THEN @ ELSE sem[s]]
      BY <2>2 DEF playback_cli_pause
    <3>1. s \in Sessions
      BY FirstTypes
    <3>2. stop' \in [Sessions -> BOOLEAN]
      BY DEF TypeOK
    <3>3. late' \in [Sessions -> Nat] /\ held' \in [Sessions -> Nat]
      BY <3>1 DEF TypeOK
    <3> QED
      BY <2>2, <3>2, <3>3 DEF playback_cli_pause, TypeOK
  <2>3. CASE playback_cli_continue(p)
    <3> PICK s \in First(p) :
           /\ stop' = [stop EXCEPT ![s] = FALSE]
           /\ sem' = [sem EXCEPT ![s] = @ + 1]
           /\ late' = [late EXCEPT ![s] = 0]
      BY <2>3 DEF playback_cli_continue
    <3>1. stop' \in [Sessions -> BOOLEAN]
      BY DEF TypeOK
    <3>2. late' \in [Sessions -> Nat] /\ sem' \in [Sessions -> Nat]
      BY FirstTypes DEF TypeOK
    <3>3. posts' \in 0..MaxPosts
      BY <2>3, BoundsAssumption DEF playback_cli_continue, TypeOK
    <3> QED
      BY <2>3, <3>1, <3>2, <3>3 DEF playback_cli_continue, TypeOK
  <2>4. CASE StopCommand(p)
    <3>1. kill' \in [Sessions -> BOOLEAN] /\ sem' \in [Sessions -> Nat]
      BY <2>4, DisconnectTypes DEF StopCommand
    <3>2. posts' \in 0..MaxPosts
      BY <2>4, BoundsAssumption DEF StopCommand, TypeOK
    <3> QED
      BY <2>4, <3>1, <3>2 DEF StopCommand, TypeOK
  <2>5. CASE Depart(p)
    <3>1. kill' \in [Sessions -> BOOLEAN] /\ sem' \in [Sessions -> Nat]
      BY <2>5, DisconnectTypes DEF Depart, TypeOK
    <3> QED
      BY <2>5, <3>1 DEF Depart, TypeOK
  <2> QED
    BY <1>4, <2>1, <2>2, <2>3, <2>4, <2>5 DEF Command
<1>5. CASE UNCHANGED vars
  BY <1>5 DEF vars, TypeOK
<1> QED
  BY <1>1, <1>2, <1>3, <1>4, <1>5 DEF Next

(* The variables keep their types. *)
THEOREM TypeCorrect == Spec => []TypeOK
<1> QED
  BY TypeAtStart, TypeStep, PTL DEF Spec

-----------------------------------------------------------------------------
(* A pause holds. *)

\* What a paused session has sent and may still take from its semaphore;
\* past the wait it has taken a token for the frame it is about to send.
PauseInv ==
    \A s \in Sessions : stop[s] /\ ~kill[s] =>
        /\ late[s] + sem[s] <= held[s] + 1
        /\ pc[s] \in {"test", "send", "next", "first"} => late[s] + sem[s] <= held[s]

(* Every step keeps PauseInv. *)
LEMMA PauseStep == TypeOK /\ PauseInv /\ [Next]_vars => PauseInv'
<1> SUFFICES ASSUME TypeOK, PauseInv, [Next]_vars PROVE PauseInv'
  OBVIOUS
<1>0. /\ pc \in [Sessions -> Stages] /\ late \in [Sessions -> Nat]
      /\ sem \in [Sessions -> Nat] /\ held \in [Sessions -> Nat]
      /\ stop \in [Sessions -> BOOLEAN] /\ kill \in [Sessions -> BOOLEAN]
  BY DEF TypeOK
<1>1. ASSUME NEW s \in Sessions, NEW x, Goto(s, x), UNCHANGED flags,
             x \notin {"test", "send", "next", "first"}
             \/ pc[s] \in {"test", "send", "next", "first"}
      PROVE  PauseInv'
  BY <1>0, <1>1 DEF PauseInv, Goto
<1>2. CASE video_playback_post_msg
  <2>1. asked + 1 \in Sessions
    BY <1>2, BoundsAssumption DEF video_playback_post_msg, TypeOK
  <2>2. Goto(asked + 1, "select") /\ UNCHANGED flags
    BY <1>2 DEF video_playback_post_msg
  <2> QED
    BY <1>1, <2>1, <2>2
<1>3. ASSUME NEW s \in Sessions, Accepting(s) PROVE PauseInv'
  BY <1>1, <1>3 DEF Accepting, Select, Accept, AcceptFails, AddToList, Fork
<1>4. ASSUME NEW s \in Sessions, Running(s) PROVE PauseInv'
  <2>1. CASE Load(s) \/ Exit(s) \/ NextFile(s)
    <3>1. UNCHANGED flags /\ \E x : Goto(s, x) /\ (x \in {"top", "exit", "gone"} \/ pc[s] = "next")
      BY <2>1 DEF Load, Exit, NextFile, OwnStep
    <3> QED
      BY <1>1, <3>1
  <2>2. CASE Test(s)
    <3>1. UNCHANGED flags /\ pc[s] = "test" /\ \E x : Goto(s, x)
      BY <2>2 DEF Test, OwnStep
    <3> QED
      BY <1>1, <3>1
  <2>3. CASE Top(s)
    <3>1. UNCHANGED flags /\ pc' = [pc EXCEPT ![s] = IF stop[s] THEN "pend" ELSE "test"]
      BY <2>3 DEF Top, OwnStep, Goto
    <3> QED
      BY <1>0, <3>1 DEF PauseInv
  <2>4. CASE Pend(s)
    <3>1. /\ sem[s] > 0 /\ sem' = [sem EXCEPT ![s] = sem[s] - 1]
          /\ pc' = [pc EXCEPT ![s] = "test"] /\ UNCHANGED <<stop, kill, late, held>>
      BY <2>4 DEF Pend, OwnStep, Goto
    <3> QED
      BY <1>0, <3>1 DEF PauseInv
  <2>5. CASE Send(s)
    <3>1. pc[s] \in {"send", "first"} /\ UNCHANGED <<stop, kill, sem, held>>
      BY <2>5 DEF Send, OwnStep
    <3>2. CASE /\ pc' = [pc EXCEPT ![s] = "top"]
               /\ late' = [late EXCEPT ![s] = IF stop[s] THEN late[s] + 1 ELSE 0]
      BY <1>0, <3>1, <3>2 DEF PauseInv
    <3>3. CASE UNCHANGED late /\ \E x : Goto(s, x)
      <4>1. UNCHANGED flags
        BY <2>5, <3>1, <3>3 DEF Send, OwnStep
      <4> QED
        BY <1>1, <3>1, <3>3, <4>1
    <3> QED
      BY <2>5, <3>2, <3>3 DEF Send, Goto
  <2> QED
    BY <1>4, <2>1, <2>2, <2>3, <2>4, <2>5 DEF Running
<1>5. ASSUME NEW p \in Phones, Command(p) PROVE PauseInv'
  <2>1. CASE Dial(p)
    BY <2>1 DEF Dial, PauseInv
  <2>2. CASE playback_cli_pause(p)
    <3> PICK s \in First(p) :
           /\ stop' = [stop EXCEPT ![s] = TRUE]
           /\ late' = [late EXCEPT ![s] = IF stop[s] THEN late[s] ELSE 0]
           /\ held' = [held EXCEPT ![s] = IF stop[s] THEN held[s] ELSE sem[s]]
      BY <2>2 DEF playback_cli_pause
    <3>1. s \in Sessions /\ UNCHANGED <<pc, kill, sem>>
      BY <2>2, FirstTypes DEF playback_cli_pause
    <3> QED
      BY <1>0, <3>1 DEF PauseInv
  <2>3. CASE playback_cli_continue(p)
    <3> PICK s \in First(p) :
           /\ stop' = [stop EXCEPT ![s] = FALSE]
           /\ sem' = [sem EXCEPT ![s] = sem[s] + 1]
           /\ late' = [late EXCEPT ![s] = 0]
      BY <2>3 DEF playback_cli_continue
    <3>1. s \in Sessions /\ UNCHANGED <<pc, kill, held>>
      BY <2>3, FirstTypes DEF playback_cli_continue
    <3> QED
      BY <1>0, <3>1 DEF PauseInv
  <2>4. CASE StopCommand(p) \/ Depart(p)
    <3>1. UNCHANGED <<pc, stop, late, held>>
      BY <2>4 DEF StopCommand, Depart
    <3>2. CASE UNCHANGED <<kill, sem>>
      BY <3>1, <3>2 DEF PauseInv
    <3>3. CASE list # <<>> /\ playback_disconnect_cli(p) /\ ~UNCHANGED <<kill, sem>>
      <4>1. Head(list) \in Sessions
        BY <3>3, HeadTailProperties DEF TypeOK
      <4>2. /\ kill' = [kill EXCEPT ![Head(list)] = TRUE]
            /\ sem' = [sem EXCEPT ![Head(list)] = IF stop[Head(list)] THEN @ + 1 ELSE @]
        BY <3>3 DEF playback_disconnect_cli
      <4> QED
        BY <1>0, <3>1, <4>1, <4>2 DEF PauseInv
    <3> QED
      BY <2>4, <3>2, <3>3 DEF StopCommand, Depart, playback_disconnect_cli
  <2> QED
    BY <1>5, <2>1, <2>2, <2>3, <2>4 DEF Command
<1>6. CASE UNCHANGED vars
  BY <1>6 DEF vars, PauseInv
<1> QED
  BY <1>2, <1>3, <1>4, <1>5, <1>6 DEF Next

(* A paused session sends at most the frame it is at, and one for each    *)
(* earlier resume it did not need.                                         *)
THEOREM PauseTheorem == Spec => []PauseHolds
<1>1. Init => PauseInv
  BY DEF Init, PauseInv
<1>2. PauseInv => PauseHolds
  BY DEF PauseInv, PauseHolds
<1> QED
  BY <1>1, <1>2, PauseStep, TypeCorrect, PTL DEF Spec

-----------------------------------------------------------------------------
(* The client list, until a call fails. *)

\* The parts of ListNamesSessions, by positions; a session that has not
\* been asked for has no stage.
ListInv ==
    /\ \A s \in Sessions : s > asked => pc[s] = "none"
    /\ listen =>
        /\ \A i \in 1..Len(list) : pc[list[i]] \in Entered
        /\ \A s \in Sessions : pc[s] \in Entered => \E i \in 1..Len(list) : list[i] = s
        /\ \A i, j \in 1..Len(list) : list[i] = list[j] => i = j

(* A list that has lost an entry holds nothing new. *)
LEMMA DelShrinks ==
    ASSUME list \in Seq(Sessions), NEW s \in Sessions, list_del(s)
    PROVE  \E i \in 1..Len(list) :
             /\ list[i] = s /\ Len(list') = Len(list) - 1
             /\ \A j \in 1..(Len(list) - 1) :
                    list'[j] = IF j < i THEN list[j] ELSE list[j + 1]
<1>1. PICK i \in DOMAIN list : list[i] = s /\ list' = Without(list, i)
  BY DEF list_del
<1>2. i \in 1..Len(list)
  BY <1>1, LenProperties
<1>3. /\ Len(list') = Len(list) - 1
      /\ \A j \in 1..(Len(list) - 1) : list'[j] = IF j < i THEN list[j] ELSE list[j + 1]
  BY <1>1, <1>2, Deleted
<1> QED
  BY <1>1, <1>2, <1>3

(* Every step keeps ListInv. *)
LEMMA ListStep == TypeOK /\ ListInv /\ [Next]_vars => ListInv'
<1> SUFFICES ASSUME TypeOK, ListInv, [Next]_vars PROVE ListInv'
  OBVIOUS
<1> USE DEF ListInv, Entered, Playing
<1>0. /\ pc \in [Sessions -> Stages]
      /\ list \in Seq(Sessions) /\ asked \in 0..MaxSessions
      /\ Len(list) \in Nat
      /\ \A i \in 1..Len(list) : list[i] \in Sessions
  BY LenProperties, ElementOfSeq DEF TypeOK
<1>1. CASE video_playback_post_msg
  <2>1. asked + 1 \in Sessions /\ asked' = asked + 1 /\ pc[asked + 1] = "none"
    BY <1>0, <1>1, BoundsAssumption DEF video_playback_post_msg
  <2>2. pc' = [pc EXCEPT ![asked + 1] = "select"] /\ UNCHANGED <<list, listen>>
    BY <1>1 DEF video_playback_post_msg, Goto
  <2> QED
    BY <1>0, <2>1, <2>2
<1>2. ASSUME NEW s \in Sessions, Accepting(s) \/ Running(s) PROVE ListInv'
  <2>0. asked' = asked /\ pc[s] # "none"
    BY <1>2 DEF Accepting, Running, Select, Accept, AcceptFails, AddToList, Fork,
       Load, Top, Pend, Test, Send, NextFile, Exit, OwnStep
  <2>00. \A t \in Sessions : t > asked' => pc'[t] = "none"
    <3>1. \E x : Goto(s, x)
      BY <1>2 DEF Accepting, Running, Select, Accept, AcceptFails, AddToList, Fork,
         Load, Top, Pend, Test, Send, NextFile, Exit
    <3>2. \A t \in Sessions : t # s => pc'[t] = pc[t]
      BY <1>0, <3>1 DEF Goto
    <3>3. ~(s > asked)
      BY <2>0
    <3> QED
      BY <2>0, <3>2, <3>3
  <2>1. CASE Select(s) \/ Accept(s) \/ AcceptFails(s)
    <3>1. pc[s] \notin Entered /\ UNCHANGED list /\ (listen' => listen)
      BY <2>1 DEF Select, Accept, AcceptFails
    <3>2. PICK x \in Stages \ Entered : pc' = [pc EXCEPT ![s] = x]
      BY <2>1 DEF Select, Accept, AcceptFails, Goto, Stages
    <3> QED
      BY <1>0, <2>00, <3>1, <3>2
  <2>2. CASE Fork(s) \/ Load(s) \/ Top(s) \/ Pend(s) \/ Test(s) \/ Send(s) \/ NextFile(s)
    <3>1. pc[s] \in Entered /\ UNCHANGED list /\ (listen' => listen)
      BY <2>2 DEF Fork, Load, Top, Pend, Test, Send, NextFile, OwnStep
    <3>2. listen' => \E x \in Entered : pc' = [pc EXCEPT ![s] = x]
      BY <2>2 DEF Fork, Load, Top, Pend, Test, Send, NextFile, Goto
    <3>3. listen' => \A t \in Sessions : pc'[t] \in Entered <=> pc[t] \in Entered
      BY <1>0, <3>1, <3>2
    <3> QED
      BY <1>0, <2>00, <3>1, <3>3
  <2>3. CASE AddToList(s) /\ listen
    <3>1. /\ pc[s] = "add" /\ pc' = [pc EXCEPT ![s] = "fork"]
          /\ list' = Append(list, s)
      BY <2>3 DEF AddToList, Goto
    <3>2. /\ Len(list') = Len(list) + 1
          /\ \A i \in 1..Len(list) : list'[i] = list[i] /\ list'[i] # s
          /\ list'[Len(list) + 1] = s
      BY <1>0, <2>3, <3>1, AppendProperties
    <3>3. \A i \in 1..Len(list') : i \in 1..Len(list) \/ i = Len(list) + 1
      BY <1>0, <3>2
    <3>4. \A i \in 1..Len(list') : pc'[list'[i]] \in Entered
      BY <1>0, <2>3, <3>1, <3>2, <3>3
    <3>5. \A t \in Sessions : pc'[t] \in Entered => \E i \in 1..Len(list') : list'[i] = t
      <4> SUFFICES ASSUME NEW t \in Sessions, pc'[t] \in Entered
                   PROVE  \E i \in 1..Len(list') : list'[i] = t
        OBVIOUS
      <4>1. CASE t = s
        BY <4>1, <1>0, <3>2
      <4>2. CASE t # s
        <5>1. PICK i \in 1..Len(list) : list[i] = t
          BY <2>3, <4>2, <1>0, <3>1
        <5> QED
          BY <5>1, <1>0, <3>2
      <4> QED
        BY <4>1, <4>2
    <3>6. \A i, j \in 1..Len(list') : list'[i] = list'[j] => i = j
      BY <1>0, <2>3, <3>2, <3>3
    <3> QED
      BY <3>4, <3>5, <3>6, <2>00
  <2>4. CASE Exit(s) /\ listen
    <3>1. /\ pc[s] = "exit" /\ pc' = [pc EXCEPT ![s] = "gone"] /\ list_del(s)
      BY <2>4 DEF Exit, Goto
    <3>2. PICK i \in 1..Len(list) :
             /\ list[i] = s /\ Len(list') = Len(list) - 1
             /\ \A j \in 1..(Len(list) - 1) :
                    list'[j] = IF j < i THEN list[j] ELSE list[j + 1]
      BY <1>0, <3>1, DelShrinks
    <3>3. \A j \in 1..Len(list') :
             \E k \in 1..Len(list) : k = (IF j < i THEN j ELSE j + 1) /\ k # i /\ list'[j] = list[k]
      BY <1>0, <2>4, <3>2
    <3>4. \A j \in 1..Len(list') : pc'[list'[j]] \in Entered
      BY <1>0, <2>4, <3>1, <3>2, <3>3
    <3>5. \A t \in Sessions : pc'[t] \in Entered => \E j \in 1..Len(list') : list'[j] = t
      <4> SUFFICES ASSUME NEW t \in Sessions, pc'[t] \in Entered
                   PROVE  \E j \in 1..Len(list') : list'[j] = t
        OBVIOUS
      <4>1. t # s /\ pc[t] \in Entered
        BY <1>0, <3>1
      <4>2. PICK k \in 1..Len(list) : list[k] = t
        BY <4>1, <2>4
      <4>3. CASE k < i
        BY <4>2, <4>3, <1>0, <3>2
      <4>4. CASE k > i
        <5>1. k - 1 \in 1..Len(list') /\ ~(k - 1 < i) /\ (k - 1) + 1 = k
          BY <4>4, <1>0, <3>2
        <5> QED
          <6>1. list'[k - 1] = list[k]
            BY <5>1, <3>2
          <6> QED
            BY <4>2, <5>1, <6>1
      <4>5. k < i \/ k > i
        BY <4>1, <4>2, <3>2, <1>0
      <4> QED
        BY <4>3, <4>4, <4>5
    <3>6. \A j, k \in 1..Len(list') : list'[j] = list'[k] => j = k
      BY <1>0, <2>4, <3>3
    <3> QED
      BY <3>4, <3>5, <3>6, <2>00
  <2>5. CASE (AddToList(s) \/ Exit(s)) /\ ~listen
    <3>1. ~listen'
      BY <2>5 DEF AddToList, Exit
    <3> QED
      BY <3>1, <2>00
  <2> QED
    BY <1>2, <2>1, <2>2, <2>3, <2>4, <2>5 DEF Accepting, Running
<1>3. CASE UNCHANGED <<asked, pc, list, listen>>
  BY <1>3
<1> QED
  BY <1>1, <1>2, <1>3 DEF Next, vars, Command, Dial, Depart, StopCommand,
     playback_cli_pause, playback_cli_continue

(* Until a call fails the client list names exactly the allocated         *)
(* sessions, each once: no command touches a freed record.                 *)
THEOREM ListTheorem == Spec => []ListNamesSessions
<1>1. Init => ListInv
  BY DEF Init, ListInv, Entered, Playing
<1>2. TypeOK /\ ListInv => ListNamesSessions
  <2> SUFFICES ASSUME TypeOK, ListInv PROVE ListNamesSessions
    OBVIOUS
  <2>1. DOMAIN list = 1..Len(list) /\ \A i \in 1..Len(list) : list[i] \in Sessions
    BY LenProperties, ElementOfSeq DEF TypeOK
  <2> QED
    BY <2>1 DEF ListInv, ListNamesSessions
<1> QED
  BY <1>1, <1>2, ListStep, TypeCorrect, PTL DEF Spec

=============================================================================
