---------------------------- MODULE PreviewProofs ---------------------------
(***************************************************************************)
(* Preview for every number of phones, sessions and pictures, whether or   *)
(* not forks succeed: the types, and that a flag never reaches a session   *)
(* that runs and is obeyed by the others.  Until a fork fails, the client  *)
(* list names exactly the allocated sessions.                              *)
(***************************************************************************)
EXTENDS Preview, SequenceTheorems, TLAPS

USE DEF Sessions, net

(* What is left of a list when the entry at position i has been removed. *)
LEMMA Deleted ==
    ASSUME NEW S, NEW l \in Seq(S), NEW i \in 1..Len(l)
    PROVE  /\ Without(l, i) \in Seq(S)
           /\ Len(Without(l, i)) = Len(l) - 1
           /\ \A j \in 1..(Len(l) - 1) :
                  Without(l, i)[j] = IF j < i THEN l[j] ELSE l[j + 1]
<1> DEFINE m == Without(l, i)
           a == SubSeq(l, 1, i - 1)
           b == SubSeq(l, i + 1, Len(l))
<1>1. Len(l) \in Nat /\ \A j \in 1..Len(l) : l[j] \in S
  BY ElementOfSeq, LenProperties
<1>2. /\ a \in Seq(S) /\ Len(a) = i - 1
      /\ \A j \in 1..(i - 1) : a[j] = l[j]
  <2>1. \A j \in 1..(i - 1) : l[j] \in S
    BY <1>1
  <2>2. /\ a \in Seq(S) /\ Len(a) = IF 1 <= i - 1 THEN i - 1 - 1 + 1 ELSE 0
        /\ \A j \in 1..(i - 1 - 1 + 1) : a[j] = l[1 + j - 1]
    BY <2>1, <1>1, SubSeqProperties
  <2> HIDE DEF a
  <2> QED
    BY <2>2, <1>1
<1>3. /\ b \in Seq(S) /\ Len(b) = Len(l) - i
      /\ \A j \in 1..(Len(l) - i) : b[j] = l[i + j]
  <2>1. \A j \in (i + 1)..Len(l) : l[j] \in S
    BY <1>1
  <2>2. /\ b \in Seq(S)
        /\ Len(b) = IF i + 1 <= Len(l) THEN Len(l) - (i + 1) + 1 ELSE 0
        /\ \A j \in 1..(Len(l) - (i + 1) + 1) : b[j] = l[i + 1 + j - 1]
    BY <2>1, <1>1, SubSeqProperties
  <2> HIDE DEF b
  <2> QED
    BY <2>2, <1>1
<1>4. m = a \o b
  BY DEF Without
<1> HIDE DEF a, b, m
<1>5. /\ a \o b \in Seq(S) /\ Len(a \o b) = Len(a) + Len(b)
      /\ \A j \in 1..(Len(a) + Len(b)) :
             (a \o b)[j] = IF j <= Len(a) THEN a[j] ELSE b[j - Len(a)]
  BY <1>2, <1>3, ConcatProperties, Zenon
<1>6. /\ m \in Seq(S) /\ Len(m) = (i - 1) + (Len(l) - i)
      /\ \A j \in 1..((i - 1) + (Len(l) - i)) :
             m[j] = IF j <= i - 1 THEN a[j] ELSE b[j - (i - 1)]
  BY <1>2, <1>3, <1>4, <1>5, Zenon
<1>7. (i - 1) + (Len(l) - i) = Len(l) - 1
  BY <1>1
<1>8. ASSUME NEW j \in 1..(Len(l) - 1)
      PROVE  m[j] = IF j < i THEN l[j] ELSE l[j + 1]
  <2>0. m[j] = IF j <= i - 1 THEN a[j] ELSE b[j - (i - 1)]
    BY <1>6, <1>7
  <2>1. CASE j < i
    <3>1. j <= i - 1 /\ j \in 1..(i - 1)
      BY <2>1, <1>1
    <3> QED
      BY <2>0, <2>1, <3>1, <1>2
  <2>2. CASE ~(j < i)
    <3>1. ~(j <= i - 1) /\ j - (i - 1) \in 1..(Len(l) - i) /\ i + (j - (i - 1)) = j + 1
      BY <2>2, <1>1
    <3> QED
      BY <2>0, <2>2, <3>1, <1>3
  <2> QED
    BY <2>1, <2>2
<1> QED
  BY <1>6, <1>7, <1>8 DEF m

(* The initial state has its types. *)
LEMMA TypeAtStart == Init => TypeOK
<1> SUFFICES ASSUME Init PROVE TypeOK
  OBVIOUS
<1>1. kill \in [Sessions -> BOOLEAN]
  BY DEF Init
<1>2. /\ pc \in [Sessions -> Stages] /\ peer \in [Sessions -> Phones \cup {None}]
      /\ left \in [Sessions -> Numbers \cup 0..MaxPictures]
  BY BoundsAssumption DEF Init, Stages
<1>3. backlog \in Seq(Phones) /\ list \in Seq(Sessions)
  BY DEF Init
<1> QED
  BY <1>1, <1>2, <1>3, BoundsAssumption DEF Init, TypeOK

(* Every step keeps the types. *)
LEMMA TypeStep == TypeOK /\ [Next]_vars => TypeOK'
<1> SUFFICES ASSUME TypeOK, [Next]_vars PROVE TypeOK'
  OBVIOUS
<1> USE DEF TypeOK
<1>0. \A s \in Sessions, x \in Stages : [pc EXCEPT ![s] = x] \in [Sessions -> Stages]
  OBVIOUS
<1>1. CASE video_preview_post_msg
  <2>1. asked + 1 \in Sessions /\ asked' \in 0..MaxSessions
    BY <1>1, BoundsAssumption DEF video_preview_post_msg
  <2>2. PICK n \in Numbers : left' = [left EXCEPT ![asked + 1] = n]
    BY <1>1 DEF video_preview_post_msg
  <2>3. n \in Numbers \cup 0..MaxPictures
    BY BoundsAssumption DEF Numbers
  <2>4. left' \in [Sessions -> Numbers \cup 0..MaxPictures]
    BY <2>1, <2>2, <2>3
  <2>5. pc' \in [Sessions -> Stages]
    BY <1>0, <1>1, <2>1 DEF video_preview_post_msg, Goto, Stages
  <2> QED
    BY <1>1, <2>1, <2>4, <2>5 DEF video_preview_post_msg
<1>2. ASSUME NEW s \in Sessions, Thread(s) PROVE TypeOK'
  <2>0. \A x \in Stages : Goto(s, x) => pc' \in [Sessions -> Stages]
    BY <1>0 DEF Goto
  <2>1. CASE Select(s)
    BY <2>0, <2>1 DEF Select, Stages
  <2>9. CASE AcceptFails(s)
    BY <2>0, <2>9 DEF AcceptFails, Stages
  <2>2. CASE Accept(s)
    <3>1. Head(backlog) \in Phones /\ Tail(backlog) \in Seq(Phones)
      BY <2>2, HeadTailProperties DEF Accept
    <3>2. pc' \in [Sessions -> Stages]
      BY <2>0, <2>2 DEF Accept, Stages
    <3> QED
      BY <2>2, <3>1, <3>2 DEF Accept
  <2>3. CASE AddToList(s)
    <3>1. list' \in Seq(Sessions)
      BY <2>3, AppendProperties DEF AddToList
    <3>2. pc' \in [Sessions -> Stages]
      BY <2>0, <2>3 DEF AddToList, Stages
    <3> QED
      BY <2>3, <3>1, <3>2 DEF AddToList
  <2>4. CASE Fork(s)
    BY <2>0, <2>4 DEF Fork, Stages
  <2>5. CASE Start(s)
    BY <2>0, <2>5 DEF Start, Stages
  <2>6. CASE Run(s)
    <3>1. pc' \in [Sessions -> Stages]
      BY <2>0, <2>6 DEF Run, Stages
    <3>2. left' \in [Sessions -> Numbers \cup 0..MaxPictures]
      <4>1. CASE UNCHANGED left
        BY <4>1
      <4>2. CASE left[s] # 0 /\ left' = [left EXCEPT ![s] = IF @ = Endless THEN @ ELSE @ - 1]
        <5>1. (IF left[s] = Endless THEN left[s] ELSE left[s] - 1) \in Numbers \cup 0..MaxPictures
          BY <4>2, BoundsAssumption DEF Numbers, Endless
        <5> QED
          BY <4>2, <5>1
      <4> QED
        BY <2>6, <4>1, <4>2 DEF Run
    <3> QED
      BY <2>6, <3>1, <3>2 DEF Run
  <2>7. CASE SendFails(s)
    BY <2>0, <2>7 DEF SendFails, Stages
  <2>8. CASE End(s)
    <3>1. PICK i \in DOMAIN list :
              list' = Without(list, i)
      BY <2>8 DEF End, list_del
    <3>2. i \in 1..Len(list)
      BY <3>1, LenProperties
    <3>3. list' \in Seq(Sessions)
      BY <3>1, <3>2, Deleted
    <3>4. pc' \in [Sessions -> Stages]
      BY <2>0, <2>8 DEF End, Stages
    <3>5. kill' \in [Sessions -> BOOLEAN]
      BY <2>8 DEF End
    <3> QED
      BY <2>8, <3>3, <3>4, <3>5 DEF End
  <2> QED
    BY <1>2, <2>1, <2>2, <2>3, <2>4, <2>5, <2>6, <2>7, <2>8, <2>9 DEF Thread
<1>3. ASSUME NEW p \in Phones, Dial(p) \/ Depart(p) \/ Slide(p) PROVE TypeOK'
  <2>1. CASE Dial(p)
    <3>1. backlog' \in Seq(Phones)
      BY <2>1, AppendProperties DEF Dial
    <3>2. dialed' \in 0..MaxSessions
      BY <2>1, BoundsAssumption DEF Dial
    <3> QED
      BY <2>1, <3>1, <3>2 DEF Dial
  <2>2. CASE Depart(p)
    BY <2>2 DEF Depart, Calls
  <2>3. CASE Slide(p)
    BY <2>3 DEF Slide, Calls
  <2> QED
    BY <1>3, <2>1, <2>2, <2>3
<1>4. CASE Listed
  <2> PICK p \in Phones : video_preview_and_thus_disconnect(p) \/ video_cli_slide(p)
    BY <1>4 DEF Listed
  <2>1. CASE video_preview_and_thus_disconnect(p)
    <3>1. \A s \in Sessions : (kill[s] \/ s \in First(p)) \in BOOLEAN
      OBVIOUS
    <3>2. kill' \in [Sessions -> BOOLEAN]
      BY <2>1, <3>1 DEF video_preview_and_thus_disconnect
    <3> QED
      BY <2>1, <3>2 DEF video_preview_and_thus_disconnect
  <2>2. CASE video_cli_slide(p)
    BY <2>2 DEF video_cli_slide
  <2> QED
    BY <2>1, <2>2
<1>5. CASE UNCHANGED vars
  BY <1>5 DEF vars
<1> QED
  BY <1>1, <1>2, <1>3, <1>4, <1>5 DEF Next

(* The variables keep their types. *)
THEOREM TypeCorrect == Spec => []TypeOK
<1> QED
  BY TypeAtStart, TypeStep, PTL DEF Spec

-----------------------------------------------------------------------------
(* Flags. *)

\* A session that runs or ends has the mutex; a record that does not exist
\* yet is neither in the list nor flagged.
HolderInv ==
    /\ \A s \in Sessions : pc[s] \in {"run", "end"} => mutex = s
    /\ \A s \in Sessions : s > asked => pc[s] = "none"
    /\ \A i \in 1..Len(list) : pc[list[i]] # "none"
    /\ \A s \in Sessions : kill[s] => pc[s] # "none"

(* A list that has lost an entry holds nothing new. *)
LEMMA DelShrinks ==
    ASSUME list \in Seq(Sessions), NEW s \in Sessions, list_del(s)
    PROVE  \E i \in 1..Len(list) :
             /\ list[i] = s /\ Len(list') = Len(list) - 1
             /\ \A j \in 1..(Len(list) - 1) :
                    list'[j] = IF j < i THEN list[j] ELSE list[j + 1]
<1>1. PICK i \in DOMAIN list : list[i] = s /\ list' = Without(list, i)
  BY DEF list_del
<1>2. i \in 1..Len(list)
  BY <1>1, LenProperties
<1>3. /\ Len(list') = Len(list) - 1
      /\ \A j \in 1..(Len(list) - 1) : list'[j] = IF j < i THEN list[j] ELSE list[j + 1]
  BY <1>1, <1>2, Deleted
<1> QED
  BY <1>1, <1>2, <1>3

(* Every step keeps HolderInv. *)
LEMMA HolderStep == TypeOK /\ HolderInv /\ [Next]_vars => HolderInv'
<1> SUFFICES ASSUME TypeOK, HolderInv, [Next]_vars PROVE HolderInv'
  OBVIOUS
<1> USE DEF HolderInv
<1>0. /\ pc \in [Sessions -> Stages] /\ kill \in [Sessions -> BOOLEAN]
      /\ list \in Seq(Sessions) /\ asked \in 0..MaxSessions
      /\ mutex \in Sessions \cup {None}
      /\ Len(list) \in Nat
      /\ \A i \in 1..Len(list) : list[i] \in Sessions
  BY LenProperties, ElementOfSeq DEF TypeOK
<1>1. CASE video_preview_post_msg
  <2>1. asked + 1 \in Sessions /\ asked' = asked + 1
    BY <1>0, <1>1, BoundsAssumption DEF video_preview_post_msg
  <2>2. pc' = [pc EXCEPT ![asked + 1] = "select"] /\ UNCHANGED <<kill, list, mutex>>
    BY <1>1 DEF video_preview_post_msg, Goto
  <2> QED
    BY <1>0, <2>1, <2>2
<1>2. ASSUME NEW s \in Sessions, Thread(s) PROVE HolderInv'
  <2>1. CASE Select(s) \/ Accept(s) \/ AcceptFails(s) \/ Fork(s)
    <3>1. pc[s] \notin {"none", "run", "end"} /\ UNCHANGED <<asked, kill, list, mutex>>
      BY <2>1 DEF Select, Accept, AcceptFails, Fork
    <3>2. PICK x \in Stages \ {"none", "run", "end"} : pc' = [pc EXCEPT ![s] = x]
      BY <2>1 DEF Select, Accept, AcceptFails, Fork, Goto, Stages
    <3> QED
      BY <1>0, <3>1, <3>2
  <2>2. CASE AddToList(s)
    <3>1. /\ pc[s] = "add" /\ pc' = [pc EXCEPT ![s] = "fork"]
          /\ list' = Append(list, s) /\ UNCHANGED <<asked, kill, mutex>>
      BY <2>2 DEF AddToList, Goto
    <3>2. /\ Len(list') = Len(list) + 1
          /\ \A i \in 1..Len(list) : list'[i] = list[i]
          /\ list'[Len(list) + 1] = s
      BY <1>0, <3>1, AppendProperties
    <3> HIDE DEF HolderInv
    <3>3. \A i \in 1..Len(list') : pc'[list'[i]] # "none"
      <4> TAKE i \in 1..Len(list')
      <4>1. i \in 1..Len(list) \/ i = Len(list) + 1
        BY <1>0, <3>2
      <4> QED
        BY <4>1, <1>0, <3>1, <3>2 DEF HolderInv
    <3> QED
      BY <1>0, <3>1, <3>3 DEF HolderInv
  <2>3. CASE Start(s)
    <3>1. mutex = None /\ mutex' = s /\ pc[s] = "start" /\ UNCHANGED <<asked, kill, list>>
      BY <2>3 DEF Start
    <3>2. PICK x \in {"run", "end"} : pc' = [pc EXCEPT ![s] = x]
      BY <2>3 DEF Start, Goto
    <3>3. \A t \in Sessions : pc[t] \notin {"run", "end"}
      BY <3>1, NoneAssumption
    <3> QED
      BY <1>0, <3>1, <3>2, <3>3
  <2>4. CASE Run(s) \/ SendFails(s)
    <3>1. pc[s] = "run" /\ UNCHANGED <<asked, kill, list, mutex>>
      BY <2>4 DEF Run, SendFails
    <3>2. pc' = pc \/ pc' = [pc EXCEPT ![s] = "end"]
      BY <2>4 DEF Run, SendFails, Goto
    <3> QED
      BY <1>0, <3>1, <3>2
  <2>5. CASE End(s)
    <3>1. /\ pc[s] = "end" /\ pc' = [pc EXCEPT ![s] = "gone"]
          /\ kill' = [kill EXCEPT ![s] = FALSE] /\ mutex' = None
          /\ list_del(s) /\ UNCHANGED asked
      BY <2>5 DEF End, Goto
    <3>2. \A t \in Sessions : pc[t] \in {"run", "end"} => t = s
      BY <3>1, <1>0
    <3>3. PICK i \in 1..Len(list) :
             /\ Len(list') = Len(list) - 1
             /\ \A j \in 1..(Len(list) - 1) :
                    list'[j] = IF j < i THEN list[j] ELSE list[j + 1]
      BY <1>0, <3>1, DelShrinks
    <3>4. \A j \in 1..Len(list') : \E k \in 1..Len(list) : list'[j] = list[k]
      BY <1>0, <3>3
    <3>5. \A j \in 1..Len(list') : pc'[list'[j]] # "none"
      BY <1>0, <3>1, <3>4
    <3> QED
      BY <1>0, <3>1, <3>2, <3>5
  <2> QED
    BY <1>2, <2>1, <2>2, <2>3, <2>4, <2>5 DEF Thread
<1>3. ASSUME NEW p \in Phones, Dial(p) \/ Depart(p) \/ Slide(p) PROVE HolderInv'
  BY <1>3 DEF Dial, Depart, Slide
<1>4. CASE Listed
  <2> PICK p \in Phones : video_preview_and_thus_disconnect(p) \/ video_cli_slide(p)
    BY <1>4 DEF Listed
  <2>1. CASE video_preview_and_thus_disconnect(p)
    <3>1. /\ kill' = [s \in Sessions |-> kill[s] \/ s \in First(p)]
          /\ UNCHANGED <<asked, pc, list, mutex>>
      BY <2>1 DEF video_preview_and_thus_disconnect
    <3>2. \A s \in First(p) : pc[s] # "none"
      BY <1>0, LenProperties DEF First, Of
    <3>3. \A s \in Sessions : kill'[s] => kill[s] \/ s \in First(p)
      BY <3>1, Zenon
    <3> QED
      BY <1>0, <3>1, <3>2, <3>3
  <2>2. CASE video_cli_slide(p)
    BY <2>2 DEF video_cli_slide
  <2> QED
    BY <2>1, <2>2
<1>5. CASE UNCHANGED vars
  BY <1>5 DEF vars
<1> QED
  BY <1>1, <1>2, <1>3, <1>4, <1>5 DEF Next

(* HolderInv holds in every reachable state. *)
LEMMA HolderTheorem == Spec => []HolderInv
<1>1. Init => HolderInv
  BY DEF Init, HolderInv
<1> QED
  BY <1>1, TypeCorrect, HolderStep, PTL DEF Spec

(* A flag reaches no session while any session runs. *)
THEOREM RunningTheorem == Spec => RunningNeverFlagged
<1> DEFINE A == \A s \in Sessions : ~kill[s] /\ kill'[s] => \A t \in Sessions : pc[t] # "run"
<1>1. TypeOK /\ HolderInv /\ [Next]_vars => [A]_vars
  <2> SUFFICES ASSUME TypeOK, HolderInv, Next PROVE A
    OBVIOUS
  <2> SUFFICES ASSUME NEW s \in Sessions, ~kill[s], kill'[s]
               PROVE  \A t \in Sessions : pc[t] # "run"
    OBVIOUS
  <2>1. CASE Listed
    <3>1. mutex = None
      BY <2>1 DEF Listed, video_preview_and_thus_disconnect, video_cli_slide
    <3> QED
      BY <3>1, NoneAssumption DEF HolderInv
  <2>2. CASE \E t \in Sessions : End(t)
    <3>1. PICK t \in Sessions : kill' = [kill EXCEPT ![t] = FALSE]
      BY <2>2 DEF End
    <3>2. kill'[s] => kill[s]
      BY <3>1 DEF TypeOK
    <3> QED
      BY <3>2
  <2>3. CASE UNCHANGED kill
    BY <2>3
  <2> QED
    BY <2>1, <2>2, <2>3 DEF Next, Thread, video_preview_post_msg, Dial, Depart, Slide,
       Select, Accept, AcceptFails, AddToList, Fork, Start, Run, SendFails
<1> QED
  BY <1>1, TypeCorrect, HolderTheorem, PTL DEF Spec, RunningNeverFlagged

(* A flagged session sends no picture. *)
THEOREM FlaggedTheorem == Spec => FlaggedSendsNothing
<1> DEFINE A == \A s \in Sessions : kill[s] => left'[s] = left[s]
<1>1. TypeOK /\ HolderInv /\ [Next]_vars => [A]_vars
  <2> SUFFICES ASSUME TypeOK, HolderInv, Next, NEW s \in Sessions, kill[s]
               PROVE  left'[s] = left[s]
    OBVIOUS
  <2>1. CASE video_preview_post_msg
    <3>1. asked + 1 \in Sessions /\ asked + 1 > asked
      BY <2>1, BoundsAssumption DEF video_preview_post_msg, TypeOK
    <3>2. s # asked + 1
      BY <3>1 DEF HolderInv
    <3>3. PICK n \in Numbers : left' = [left EXCEPT ![asked + 1] = n]
      BY <2>1 DEF video_preview_post_msg
    <3> QED
      BY <3>1, <3>2, <3>3 DEF TypeOK
  <2>2. CASE \E t \in Sessions : Run(t)
    <3> PICK t \in Sessions : Run(t)
      BY <2>2
    <3>1. CASE t = s
      BY <3>1 DEF Run
    <3>2. CASE t # s
      <4>1. left' = left \/ \E n : left' = [left EXCEPT ![t] = n]
        BY DEF Run
      <4> QED
        BY <3>2, <4>1 DEF TypeOK
    <3> QED
      BY <3>1, <3>2
  <2>3. CASE UNCHANGED left
    BY <2>3
  <2> QED
    BY <2>1, <2>2, <2>3 DEF Next, Thread, Listed, Dial, Depart, Slide, Select, Accept,
       AcceptFails, AddToList, Fork, Start, SendFails, End, video_preview_and_thus_disconnect, video_cli_slide
<1> QED
  BY <1>1, TypeCorrect, HolderTheorem, PTL DEF Spec, FlaggedSendsNothing

-----------------------------------------------------------------------------
(* The client list, until a fork fails. *)

NoneFreed == \A s \in Sessions : pc[s] # "freed"

\* The three parts of ListNamesSessions, by positions.
ListInv ==
    NoneFreed =>
        /\ \A i \in 1..Len(list) : pc[list[i]] \in Entered
        /\ \A s \in Sessions : pc[s] \in Entered => \E i \in 1..Len(list) : list[i] = s
        /\ \A i, j \in 1..Len(list) : list[i] = list[j] => i = j

(* A session that has been freed stays so. *)
LEMMA FreedStays == TypeOK /\ HolderInv /\ [Next]_vars /\ NoneFreed' => NoneFreed
<1> SUFFICES ASSUME TypeOK, HolderInv, [Next]_vars, NoneFreed' PROVE NoneFreed
  OBVIOUS
<1>0. pc \in [Sessions -> Stages] /\ asked \in 0..MaxSessions
  BY DEF TypeOK
<1>1. ASSUME NEW s \in Sessions, NEW x, Goto(s, x), pc[s] # "freed" PROVE NoneFreed
  BY <1>0, <1>1 DEF NoneFreed, Goto
<1>2. CASE video_preview_post_msg
  <2>1. asked + 1 \in Sessions /\ pc[asked + 1] # "freed" /\ Goto(asked + 1, "select")
    BY <1>0, <1>2, BoundsAssumption DEF video_preview_post_msg, HolderInv
  <2> QED
    BY <1>1, <2>1
<1>3. ASSUME NEW s \in Sessions, Thread(s) PROVE NoneFreed
  <2>1. pc[s] # "freed" /\ (UNCHANGED pc \/ \E x : Goto(s, x))
    BY <1>3 DEF Thread, Select, Accept, AcceptFails, AddToList, Fork, Start, Run,
       SendFails, End
  <2>2. CASE UNCHANGED pc
    BY <2>2 DEF NoneFreed
  <2> QED
    BY <1>1, <2>1, <2>2
<1>4. CASE UNCHANGED pc
  BY <1>4 DEF NoneFreed
<1> QED
  BY <1>2, <1>3, <1>4 DEF Next, vars, Listed, Dial, Depart, Slide,
     video_preview_and_thus_disconnect, video_cli_slide

(* Every step keeps ListInv. *)
LEMMA ListStep == TypeOK /\ HolderInv /\ ListInv /\ [Next]_vars => ListInv'
<1> SUFFICES ASSUME TypeOK, HolderInv, ListInv, [Next]_vars, NoneFreed' PROVE ListInv'
  BY DEF ListInv
<1>00. NoneFreed
  BY FreedStays
<1> DEFINE Listing ==
      /\ \A i \in 1..Len(list) : pc[list[i]] \in Entered
      /\ \A s \in Sessions : pc[s] \in Entered => \E i \in 1..Len(list) : list[i] = s
      /\ \A i, j \in 1..Len(list) : list[i] = list[j] => i = j
<1>000. Listing
  BY <1>00 DEF ListInv
<1> SUFFICES Listing'
  BY DEF ListInv
<1> USE <1>000 DEF Entered
<1>0. /\ pc \in [Sessions -> Stages]
      /\ list \in Seq(Sessions) /\ asked \in 0..MaxSessions
      /\ Len(list) \in Nat
      /\ \A i \in 1..Len(list) : list[i] \in Sessions
  BY LenProperties, ElementOfSeq DEF TypeOK
<1>1. CASE video_preview_post_msg
  <2>1. asked + 1 \in Sessions /\ pc[asked + 1] = "none"
    BY <1>0, <1>1, BoundsAssumption DEF video_preview_post_msg, HolderInv
  <2>2. pc' = [pc EXCEPT ![asked + 1] = "select"] /\ UNCHANGED list
    BY <1>1 DEF video_preview_post_msg, Goto
  <2> QED
    BY <1>0, <2>1, <2>2
<1>2. ASSUME NEW s \in Sessions, Thread(s) PROVE Listing'
  <2>1. CASE Select(s) \/ Accept(s) \/ AcceptFails(s)
    <3>1. pc[s] \notin Entered /\ UNCHANGED list
      BY <2>1 DEF Select, Accept, AcceptFails
    <3>2. PICK x \in Stages \ Entered : pc' = [pc EXCEPT ![s] = x]
      BY <2>1 DEF Select, Accept, AcceptFails, Goto, Stages
    <3> QED
      BY <1>0, <3>1, <3>2
  <2>2. CASE Fork(s) \/ Start(s) \/ Run(s) \/ SendFails(s)
    <3>1. pc[s] \in Entered /\ UNCHANGED list
      BY <2>2 DEF Fork, Start, Run, SendFails
    <3>0. pc'[s] # "freed"
      BY DEF NoneFreed
    <3>2. pc' = pc \/ \E x \in Entered : pc' = [pc EXCEPT ![s] = x]
      BY <1>0, <2>2, <3>0 DEF Fork, Start, Run, SendFails, Goto
    <3>3. \A t \in Sessions : pc'[t] \in Entered <=> pc[t] \in Entered
      BY <1>0, <3>1, <3>2
    <3> QED
      BY <1>0, <3>1, <3>3
  <2>3. CASE AddToList(s)
    <3>1. /\ pc[s] = "add" /\ pc' = [pc EXCEPT ![s] = "fork"]
          /\ list' = Append(list, s)
      BY <2>3 DEF AddToList, Goto
    <3>2. /\ Len(list') = Len(list) + 1
          /\ \A i \in 1..Len(list) : list'[i] = list[i] /\ list'[i] # s
          /\ list'[Len(list) + 1] = s
      <4>1. \A i \in 1..Len(list) : list[i] # s
        BY <3>1
      <4>2. list \in Seq(Sessions)
        BY <1>0
      <4>3. /\ Len(list') = Len(list) + 1
            /\ \A i \in 1..Len(list) : list'[i] = list[i]
            /\ list'[Len(list) + 1] = s
        BY <3>1, <4>2, AppendProperties
      <4> QED BY <4>1, <4>3
    <3>3. \A i \in 1..Len(list') : i \in 1..Len(list) \/ i = Len(list) + 1
      BY <1>0, <3>2
    <3>4. \A i \in 1..Len(list') : pc'[list'[i]] \in Entered
      BY <1>0, <3>1, <3>2, <3>3
    <3>5. \A t \in Sessions : pc'[t] \in Entered => \E i \in 1..Len(list') : list'[i] = t
      <4> SUFFICES ASSUME NEW t \in Sessions, pc'[t] \in Entered
                   PROVE  \E i \in 1..Len(list') : list'[i] = t
        OBVIOUS
      <4>1. CASE t = s
        BY <4>1, <1>0, <3>2
      <4>2. CASE t # s
        <5>1. PICK i \in 1..Len(list) : list[i] = t
          BY <4>2, <1>0, <3>1
        <5> QED
          BY <5>1, <1>0, <3>2
      <4> QED
        BY <4>1, <4>2
    <3>6. \A i, j \in 1..Len(list') : list'[i] = list'[j] => i = j
      BY <1>0, <3>2, <3>3
    <3> QED
      BY <3>4, <3>5, <3>6
  <2>4. CASE End(s)
    <3>1. /\ pc[s] = "end" /\ pc' = [pc EXCEPT ![s] = "gone"] /\ list_del(s)
      BY <2>4 DEF End, Goto
    <3>2. PICK i \in 1..Len(list) :
             /\ list[i] = s /\ Len(list') = Len(list) - 1
             /\ \A j \in 1..(Len(list) - 1) :
                    list'[j] = IF j < i THEN list[j] ELSE list[j + 1]
      BY <1>0, <3>1, DelShrinks
    <3>3. \A j \in 1..Len(list') :
             \E k \in 1..Len(list) : k = (IF j < i THEN j ELSE j + 1) /\ k # i /\ list'[j] = list[k]
      BY <1>0, <3>2
    <3>4. \A j \in 1..Len(list') : pc'[list'[j]] \in Entered
      BY <1>0, <3>1, <3>2, <3>3
    <3>5. \A t \in Sessions : pc'[t] \in Entered => \E j \in 1..Len(list') : list'[j] = t
      <4> SUFFICES ASSUME NEW t \in Sessions, pc'[t] \in Entered
                   PROVE  \E j \in 1..Len(list') : list'[j] = t
        OBVIOUS
      <4>1. t # s /\ pc[t] \in Entered
        BY <1>0, <3>1
      <4>2. PICK k \in 1..Len(list) : list[k] = t
        BY <4>1
      <4>3. CASE k < i
        BY <4>2, <4>3, <1>0, <3>2
      <4>4. CASE k > i
        <5>1. k - 1 \in 1..Len(list') /\ ~(k - 1 < i) /\ (k - 1) + 1 = k
          BY <4>4, <1>0, <3>2
        <5> QED
          <6>1. list'[k - 1] = list[k]
            BY <5>1, <3>2
          <6> QED
            BY <4>2, <5>1, <6>1
      <4>5. k < i \/ k > i
        BY <4>1, <4>2, <3>2, <1>0
      <4> QED
        BY <4>3, <4>4, <4>5
    <3>6. \A j, k \in 1..Len(list') : list'[j] = list'[k] => j = k
      BY <1>0, <3>3
    <3> QED
      BY <3>4, <3>5, <3>6
  <2> QED
    BY <1>2, <2>1, <2>2, <2>3, <2>4 DEF Thread
<1>3. CASE UNCHANGED <<pc, list>>
  BY <1>3
<1> QED
  BY <1>1, <1>2, <1>3 DEF Next, vars, Listed, Dial, Depart, Slide,
     video_preview_and_thus_disconnect, video_cli_slide

(* Until a fork fails the client list names exactly the allocated          *)
(* sessions, each once: no command writes to a freed record.               *)
THEOREM ListTheorem == Spec => []ListNamesSessions
<1>1. Init => ListInv
  BY DEF Init, ListInv, Entered, NoneFreed
<1>2. TypeOK /\ ListInv => ListNamesSessions
  <2> SUFFICES ASSUME TypeOK, ListInv PROVE ListNamesSessions
    OBVIOUS
  <2>1. DOMAIN list = 1..Len(list) /\ \A i \in 1..Len(list) : list[i] \in Sessions
    BY LenProperties, ElementOfSeq DEF TypeOK
  <2> QED
    BY <2>1 DEF ListInv, ListNamesSessions, NoneFreed
<1> QED
  BY <1>1, <1>2, ListStep, TypeCorrect, HolderTheorem, PTL DEF Spec

=============================================================================
