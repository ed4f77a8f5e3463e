------------------------ MODULE StreamProtocolProofs ------------------------
(***************************************************************************)
(* The inductive invariants of the live-stream writer and the theorems     *)
(* that hold for every choice of the constants.                            *)
(***************************************************************************)
EXTENDS StreamProtocol, TLAPS

Starting == {"start", "alloc", "open"}

(* What the task's position says about its resources and flags, and the    *)
(* controlling thread's position about the task.                           *)
LifeInv ==
    /\ wpc \in {"dead", "start"} => ~semvalid
    /\ wpc \in {"alloc", "open"} => semvalid
    /\ wpc \in {"dead"} \cup Starting => ~fd
    /\ wpc \in {"dead", "start", "alloc"} => \A m \in Slots : pk[m] = "null"
    /\ wpc = "open" => \A m \in Slots : pk[m] # "null"
    /\ wpc \in Starting => ~init /\ ~err /\ cpc \in {"wait", "post", "join"}
    /\ wpc \in WLoop => init /\ ~err /\ fd /\ semvalid
                        /\ \A m \in Slots : pk[m] # "null"
    /\ wpc \notin WLoop => ~init \/ err \/ kill
    /\ cpc \in {"post", "join", "clrinit", "clrkill"} => kill
    /\ cpc \in {"clrinit", "clrkill"} => wpc = "dead"
    /\ cpc = "clrkill" => ~init
    /\ cpc = "idle" /\ ~init => wpc = "dead" /\ ~kill

(* A callback never spans a task creation.                                 *)
FreshInv ==
    wpc \in Starting =>
        /\ spc = "idle"
        /\ \A m \in Slots : ~use[m] /\ accepted[m] = 0 /\ wire[m] = 0

(* The task is on its way to test the slot of m.                           *)
WillServe(m) ==
    \/ wpc \in {"woken", "both"}
    \/ wpc \in {"test", "write", "clear"} /\ (wmed = m \/ wmed = "video")

(* A slot in use the task is not on its way to has a token, now or soon.   *)
WakeInv ==
    \A m \in Slots :
        wpc \in WLoop /\ use[m] /\ ~WillServe(m) => sem > 0 \/ InCopy(m)

(* The hand-over of the slot of a stream's only medium.                    *)
Ready(m) ==
    /\ use[m] /\ pk[m] = "full" /\ ~InCopy(m)
    /\ spc = "mark" => smed # m

HandInv ==
    /\ spc # "idle" => smed \in Delivered
    /\ \A m \in Slots : use[m] => m \in Delivered
    /\ wpc \in {"alloc", "open"} => sem = 0 \/ kill
    /\ spc = "mark" => ~use[smed]
    /\ \A m \in Delivered : ~use[m] => wire[m] = accepted[m]
    /\ \A m \in Delivered : wpc \in WLoop =>
          /\ wpc = "woken" /\ ~kill => Ready(m)
          /\ WillServe(m) /\ wpc # "woken" => Ready(m)
          /\ ~use[m] => ~InCopy(m)
          /\ use[m] => \/ wire[m] + 1 = accepted[m]
                       \/ wpc = "clear" /\ wmed = m
          /\ wpc = "clear" /\ wmed = m => wire[m] = accepted[m]
          /\ use[m] /\ ~InCopy(m) => pk[m] = "full"
          /\ spc = "finish" /\ smed = m => pk[m] = "part"
          /\ spc = "post" /\ smed = m => pk[m] = "full"
          /\ ~kill => /\ sem \in {0, 1}
                      /\ sem = 1 => Ready(m) /\ ~WillServe(m)
          /\ ~use[m] => sem = 0 \/ kill

-----------------------------------------------------------------------------
(* Type correctness is inductive on its own.                               *)
LEMMA TypeStep == TypeOK /\ [Next]_vars => TypeOK'
  <1> SUFFICES ASSUME TypeOK, [Next]_vars PROVE TypeOK'
    OBVIOUS
  <1> USE DEF TypeOK, flagVars, resVars, ghosts
  <1>1. ASSUME NEW m \in Delivered, CbEnter(m) PROVE TypeOK'
    BY <1>1, DeliveredAssumption DEF CbEnter, SPcs
  <1>2. CASE CbCheck
    BY <1>2 DEF CbCheck, SPcs
  <1>3. CASE CbMark
    BY <1>3 DEF CbMark, SPcs
  <1>4. CASE CbFill
    BY <1>4 DEF CbFill, SPcs, PkStates
  <1>5. CASE CbFinish
    BY <1>5 DEF CbFinish, SPcs, PkStates
  <1>6. CASE CbPost
    BY <1>6 DEF CbPost, SPcs, Post
  <1>7. CASE TaskStart
    BY <1>7 DEF TaskStart, WPcs, WLoop
  <1>8. CASE TaskAlloc
    <2>1. pk' \in [Slots -> PkStates]
      BY <1>8 DEF TaskAlloc, PkStates
    <2>2. wpc' \in WPcs /\ err' \in BOOLEAN
      BY <1>8 DEF TaskAlloc, WPcs, WLoop
    <2> QED BY <1>8, <2>1, <2>2 DEF TaskAlloc
  <1>9. CASE TaskOpen
    BY <1>9 DEF TaskOpen, WPcs, WLoop
  <1>10. CASE TaskPend
    BY <1>10 DEF TaskPend, WPcs, WLoop
  <1>11. CASE TaskCheckKill
    BY <1>11 DEF TaskCheckKill, WPcs, WLoop
  <1>12. CASE TaskBoth
    BY <1>12 DEF TaskBoth, WPcs, WLoop, Slots
  <1>13. CASE TaskTest
    BY <1>13 DEF TaskTest, WPcs, WLoop
  <1>14. CASE TaskWrite
    BY <1>14 DEF TaskWrite, WPcs, WLoop
  <1>15. CASE TaskClear
    BY <1>15 DEF TaskClear, WPcs, WLoop, Slots
  <1>16. CASE TaskExit
    BY <1>16 DEF TaskExit, WPcs, WLoop
  <1>17. CASE TaskDrain
    BY <1>17 DEF TaskDrain, WPcs, WLoop
  <1>18. CASE TaskFree
    BY <1>18 DEF TaskFree, WPcs, WLoop, PkStates
  <1>19. CASE Create
    <2>1. kill' \in BOOLEAN /\ err' \in BOOLEAN /\ fd' \in BOOLEAN
      BY <1>19, Zenon DEF Create
    <2>2. /\ use' \in [Slots -> BOOLEAN] /\ session' \in Nat
          /\ accepted' \in [Slots -> Nat] /\ wire' \in [Slots -> Nat]
      BY <1>19 DEF Create
    <2>3. wpc' \in WPcs /\ cpc' \in CPcs
      BY <1>19 DEF Create, CPcs, WPcs
    <2>4. QED
      BY <1>19, <2>1, <2>2, <2>3 DEF Create
  <1>20. CASE CreateReturn
    BY <1>20 DEF CreateReturn, CPcs
  <1>21. CASE CreateFail
    BY <1>21 DEF CreateFail, CPcs
  <1>22. CASE Kill
    BY <1>22 DEF Kill, CPcs
  <1>23. CASE KillPost
    BY <1>23 DEF KillPost, CPcs, Post
  <1>24. CASE KillJoin
    BY <1>24 DEF KillJoin, CPcs
  <1>25. CASE KillClearInit
    BY <1>25 DEF KillClearInit, CPcs
  <1>26. CASE KillClearKill
    BY <1>26 DEF KillClearKill, CPcs
  <1>27. CASE UNCHANGED vars
    BY <1>27 DEF vars
  <1>28. QED
    BY <1>1, <1>2, <1>3, <1>4, <1>5, <1>6, <1>7, <1>8, <1>9, <1>10, <1>11, <1>12, <1>13, <1>14, <1>15, <1>16, <1>17, <1>18, <1>19, <1>20, <1>21, <1>22, <1>23, <1>24, <1>25, <1>26, <1>27 DEF Next, CbStep, TaskStep, ControlStep

LEMMA InitTypeOK == Init => TypeOK
  <1> SUFFICES ASSUME Init PROVE TypeOK
    OBVIOUS
  <1>1. /\ spc \in SPcs /\ smed \in Slots /\ wpc \in WPcs
        /\ wmed \in Slots /\ cpc \in CPcs
    BY DEF Init, SPcs, Slots, WPcs, CPcs
  <1>2. /\ use \in [Slots -> BOOLEAN] /\ pk \in [Slots -> PkStates]
        /\ accepted \in [Slots -> Nat] /\ wire \in [Slots -> Nat]
    BY DEF Init, PkStates
  <1>3. QED
    BY <1>1, <1>2 DEF Init, TypeOK

(* Every variable of the writer keeps its type.                            *)
THEOREM TypeCorrect == Spec => []TypeOK
  BY InitTypeOK, TypeStep, PTL DEF Spec

LEMMA LifeStep == TypeOK /\ LifeInv /\ [Next]_vars => LifeInv'
  <1> SUFFICES ASSUME TypeOK, LifeInv, [Next]_vars PROVE LifeInv'
    OBVIOUS
  <1> USE DEF TypeOK, LifeInv, Starting, WLoop, flagVars, resVars, ghosts
  <1>1. ASSUME NEW m \in Delivered, CbEnter(m) PROVE LifeInv'
    BY <1>1 DEF CbEnter
  <1>2. CASE CbCheck
    BY <1>2 DEF CbCheck
  <1>3. CASE CbMark
    BY <1>3 DEF CbMark
  <1>4. CASE CbFill
    BY <1>4 DEF CbFill
  <1>5. CASE CbFinish
    BY <1>5 DEF CbFinish
  <1>6. CASE CbPost
    BY <1>6 DEF CbPost, Post
  <1>7. CASE TaskStart
    BY <1>7 DEF TaskStart
  <1>8. CASE TaskAlloc
    BY <1>8 DEF TaskAlloc
  <1>9. CASE TaskOpen
    BY <1>9 DEF TaskOpen
  <1>10. CASE TaskPend
    BY <1>10 DEF TaskPend
  <1>11. CASE TaskCheckKill
    BY <1>11 DEF TaskCheckKill
  <1>12. CASE TaskBoth
    BY <1>12 DEF TaskBoth
  <1>13. CASE TaskTest
    BY <1>13 DEF TaskTest
  <1>14. CASE TaskWrite
    BY <1>14 DEF TaskWrite
  <1>15. CASE TaskClear
    BY <1>15 DEF TaskClear
  <1>16. CASE TaskExit
    BY <1>16 DEF TaskExit
  <1>17. CASE TaskDrain
    BY <1>17 DEF TaskDrain
  <1>18. CASE TaskFree
    BY <1>18 DEF TaskFree
  <1>19. CASE Create
    BY <1>19 DEF Create
  <1>20. CASE CreateReturn
    BY <1>20 DEF CreateReturn
  <1>21. CASE CreateFail
    BY <1>21 DEF CreateFail
  <1>22. CASE Kill
    BY <1>22 DEF Kill
  <1>23. CASE KillPost
    BY <1>23 DEF KillPost, Post
  <1>24. CASE KillJoin
    BY <1>24 DEF KillJoin
  <1>25. CASE KillClearInit
    BY <1>25 DEF KillClearInit
  <1>26. CASE KillClearKill
    BY <1>26 DEF KillClearKill
  <1>27. CASE UNCHANGED vars
    BY <1>27 DEF vars
  <1>28. QED
    BY <1>1, <1>2, <1>3, <1>4, <1>5, <1>6, <1>7, <1>8, <1>9, <1>10, <1>11, <1>12, <1>13, <1>14, <1>15, <1>16, <1>17, <1>18, <1>19, <1>20, <1>21, <1>22, <1>23, <1>24, <1>25, <1>26, <1>27 DEF Next, CbStep, TaskStep, ControlStep

(* LifeInv with the type invariant: the inductive invariant behind the     *)
(* guard and the clean shutdown.                                           *)
LEMMA LifeInvariant == Spec => [](TypeOK /\ LifeInv)
  <1>1. Init => LifeInv
    BY DEF Init, LifeInv, Starting, WLoop
  <1>2. QED
    BY <1>1, InitTypeOK, TypeStep, LifeStep, PTL DEF Spec

(* The callback's guard is open only while the task is in its loop.        *)
THEOREM GuardTheorem == Spec => []GuardOpenInLoop
  <1>1. LifeInv => GuardOpenInLoop
    BY DEF LifeInv, GuardOpenInLoop
  <1>2. QED
    BY <1>1, LifeInvariant, PTL

(* A closed stream has no task and holds nothing.                          *)
THEOREM ClosedTheorem == Spec => []NothingHeldWhenClosed
  <1>1. LifeInv => NothingHeldWhenClosed
    BY DEF LifeInv, NothingHeldWhenClosed
  <1>2. QED
    BY <1>1, LifeInvariant, PTL

-----------------------------------------------------------------------------
LEMMA WakeStep ==
    ASSUME ~straddled', TypeOK, LifeInv, FreshInv, WakeInv, [Next]_vars
    PROVE  FreshInv' /\ WakeInv'
  <1> USE DEF TypeOK, LifeInv, FreshInv, WakeInv, WillServe, InCopy, Starting,
              WLoop, Slots, flagVars, resVars, ghosts
  <1>1. ASSUME NEW m \in Delivered, CbEnter(m) PROVE FreshInv' /\ WakeInv'
    BY <1>1 DEF CbEnter
  <1>2. CASE CbCheck
    BY <1>2 DEF CbCheck
  <1>3. CASE CbMark
    BY <1>3 DEF CbMark
  <1>4. CASE CbFill
    BY <1>4 DEF CbFill
  <1>5. CASE CbFinish
    BY <1>5 DEF CbFinish
  <1>6. CASE CbPost
    BY <1>6 DEF CbPost, Post
  <1>7. CASE TaskStart
    BY <1>7 DEF TaskStart
  <1>8. CASE TaskAlloc
    BY <1>8 DEF TaskAlloc
  <1>9. CASE TaskOpen
    BY <1>9 DEF TaskOpen
  <1>10. CASE TaskPend
    BY <1>10 DEF TaskPend
  <1>11. CASE TaskCheckKill
    BY <1>11 DEF TaskCheckKill
  <1>12. CASE TaskBoth
    BY <1>12 DEF TaskBoth
  <1>13. CASE TaskTest
    BY <1>13 DEF TaskTest
  <1>14. CASE TaskWrite
    BY <1>14 DEF TaskWrite
  <1>15. CASE TaskClear
    BY <1>15 DEF TaskClear
  <1>16. CASE TaskExit
    BY <1>16 DEF TaskExit
  <1>17. CASE TaskDrain
    BY <1>17 DEF TaskDrain
  <1>18. CASE TaskFree
    BY <1>18 DEF TaskFree
  <1>19. CASE Create
    BY <1>19 DEF Create
  <1>20. CASE CreateReturn
    BY <1>20 DEF CreateReturn
  <1>21. CASE CreateFail
    BY <1>21 DEF CreateFail
  <1>22. CASE Kill
    BY <1>22 DEF Kill
  <1>23. CASE KillPost
    BY <1>23 DEF KillPost, Post
  <1>24. CASE KillJoin
    BY <1>24 DEF KillJoin
  <1>25. CASE KillClearInit
    BY <1>25 DEF KillClearInit
  <1>26. CASE KillClearKill
    BY <1>26 DEF KillClearKill
  <1>27. CASE UNCHANGED vars
    BY <1>27 DEF vars
  <1>28. QED
    BY <1>1, <1>2, <1>3, <1>4, <1>5, <1>6, <1>7, <1>8, <1>9, <1>10, <1>11, <1>12, <1>13, <1>14, <1>15, <1>16, <1>17, <1>18, <1>19, <1>20, <1>21, <1>22, <1>23, <1>24, <1>25, <1>26, <1>27 DEF Next, CbStep, TaskStep, ControlStep

(* A create that met a callback in flight is never forgotten.              *)
LEMMA StraddledStays == TypeOK /\ [Next]_vars /\ ~straddled' => ~straddled
  BY DEF TypeOK, Next, vars, ghosts, CbStep, TaskStep, ControlStep, CbEnter,
     CbCheck, CbMark, CbFill, CbFinish, CbPost, TaskStart, TaskAlloc, TaskOpen,
     TaskPend, TaskCheckKill, TaskBoth, TaskTest, TaskWrite, TaskClear,
     TaskExit, TaskDrain, TaskFree, Create, CreateReturn, CreateFail, Kill,
     KillPost, KillJoin, KillClearInit, KillClearKill

(* Until a create has met a callback in flight.                            *)
CleanInv == ~straddled => FreshInv /\ WakeInv

LEMMA CleanInvariant == Spec => [](TypeOK /\ LifeInv /\ CleanInv)
  <1>1. Init => CleanInv
    BY DEF Init, CleanInv, FreshInv, WakeInv, Starting, WLoop
  <1>2. TypeOK /\ LifeInv /\ CleanInv /\ [Next]_vars => CleanInv'
    BY WakeStep, StraddledStays DEF CleanInv
  <1>3. QED
    BY <1>1, <1>2, LifeInvariant, PTL DEF Spec

(* No lost wake-up, until a callback spans a task creation.                *)
THEOREM WakeTheorem == Spec => []NoLostWakeup
  <1>1. CleanInv => NoLostWakeup
    BY DEF CleanInv, WakeInv, NoLostWakeup, WLoop, WillServe
  <1>2. QED
    BY <1>1, CleanInvariant, PTL

-----------------------------------------------------------------------------
LEMMA HandStep ==
    ASSUME NEW x \in Slots, Delivered = {x}, ~straddled',
           TypeOK, LifeInv, FreshInv, WakeInv, HandInv, [Next]_vars
    PROVE  HandInv'
  <1> USE DEF TypeOK, LifeInv, FreshInv, WakeInv, HandInv, Ready, WillServe,
              InCopy, Starting, WLoop, Slots, flagVars, resVars, ghosts
  <1>1. ASSUME NEW m \in Delivered, CbEnter(m) PROVE HandInv'
    BY <1>1 DEF CbEnter
  <1>2. CASE CbCheck
    BY <1>2 DEF CbCheck
  <1>3. CASE CbMark
    BY <1>3 DEF CbMark
  <1>4. CASE CbFill
    BY <1>4 DEF CbFill
  <1>5. CASE CbFinish
    BY <1>5 DEF CbFinish
  <1>6. CASE CbPost
    BY <1>6 DEF CbPost, Post
  <1>7. CASE TaskStart
    BY <1>7 DEF TaskStart
  <1>8. CASE TaskAlloc
    BY <1>8 DEF TaskAlloc
  <1>9. CASE TaskOpen
    BY <1>9 DEF TaskOpen
  <1>10. CASE TaskPend
    BY <1>10 DEF TaskPend
  <1>11. CASE TaskCheckKill
    BY <1>11 DEF TaskCheckKill
  <1>12. CASE TaskBoth
    BY <1>12 DEF TaskBoth
  <1>13. CASE TaskTest
    BY <1>13 DEF TaskTest
  <1>14. CASE TaskWrite
    BY <1>14 DEF TaskWrite
  <1>15. CASE TaskClear
    BY <1>15 DEF TaskClear
  <1>16. CASE TaskExit
    BY <1>16 DEF TaskExit
  <1>17. CASE TaskDrain
    BY <1>17 DEF TaskDrain
  <1>18. CASE TaskFree
    BY <1>18 DEF TaskFree
  <1>19. CASE Create
    BY <1>19 DEF Create
  <1>20. CASE CreateReturn
    BY <1>20 DEF CreateReturn
  <1>21. CASE CreateFail
    BY <1>21 DEF CreateFail
  <1>22. CASE Kill
    BY <1>22 DEF Kill
  <1>23. CASE KillPost
    BY <1>23 DEF KillPost, Post
  <1>24. CASE KillJoin
    BY <1>24 DEF KillJoin
  <1>25. CASE KillClearInit
    BY <1>25 DEF KillClearInit
  <1>26. CASE KillClearKill
    BY <1>26 DEF KillClearKill
  <1>27. CASE UNCHANGED vars
    BY <1>27 DEF vars
  <1>28. QED
    BY <1>1, <1>2, <1>3, <1>4, <1>5, <1>6, <1>7, <1>8, <1>9, <1>10, <1>11, <1>12, <1>13, <1>14, <1>15, <1>16, <1>17, <1>18, <1>19, <1>20, <1>21, <1>22, <1>23, <1>24, <1>25, <1>26, <1>27 DEF Next, CbStep, TaskStep, ControlStep

(* HandInv for a stream of the single medium x.                            *)
LEMMA HandInvariant ==
    ASSUME NEW x \in Slots, Delivered = {x}
    PROVE  Spec => [](~straddled => HandInv)
  <1>1. Init => HandInv
    BY DEF Init, HandInv, Starting, WLoop
  <1>2. TypeOK /\ LifeInv /\ CleanInv /\ (~straddled => HandInv) /\ [Next]_vars
        => (~straddled => HandInv)'
    BY HandStep, StraddledStays DEF CleanInv
  <1>3. QED
    BY <1>1, <1>2, CleanInvariant, PTL DEF Spec

(* With a single medium the slot is handed over exactly.                   *)
THEOREM HandOffTheorem == Spec => []HandOff
  <1>1. CASE \E x \in Slots : Delivered = {x}
    <2>1. PICK x \in Slots : Delivered = {x}
      BY <1>1
    <2>2. Spec => [](~straddled => HandInv)
      BY <2>1, HandInvariant
    <2>3. Spec => []LifeInv
      BY LifeInvariant, PTL
    <2>4. LifeInv /\ (~straddled => HandInv) => HandOff
      BY DEF HandInv, HandOff, Ready, WillServe, WLoop
    <2>5. QED
      BY <2>2, <2>3, <2>4, PTL
  <1>2. CASE ~ \E x \in Slots : Delivered = {x}
    <2>1. HandOff
      BY <1>2, DeliveredAssumption DEF HandOff
    <2>2. QED
      BY <2>1, PTL
  <1>3. QED
    BY <1>1, <1>2

-----------------------------------------------------------------------------
(* A step of the writer is a step of the one-place channel, or none.       *)
LEMMA ChannelStep ==
    ASSUME Medium \in Slots, Delivered = {Medium},
           TypeOK, LifeInv, FreshInv, HandInv, [Next]_vars
    PROVE  [Channel!Next]_<<wpc \in WLoop, accepted[Medium], wire[Medium]>>
  <1> DEFINE Goal == [Channel!Next]_<<wpc \in WLoop, accepted[Medium], wire[Medium]>>
  <1> USE DEF WLoop, flagVars, resVars, ghosts, Channel!Next, Channel!Restart,
              Channel!Open, Channel!Accept, Channel!Deliver, Channel!Close
  <1>1. ASSUME NEW m \in Delivered, CbEnter(m) PROVE Goal
    BY <1>1 DEF CbEnter
  <1>2. CASE CbCheck
    BY <1>2 DEF CbCheck
  <1>3. CASE CbMark
    BY <1>3 DEF CbMark, TypeOK, HandInv
  <1>4. CASE CbFill
    BY <1>4 DEF CbFill
  <1>5. CASE CbFinish
    BY <1>5 DEF CbFinish
  <1>6. CASE CbPost
    BY <1>6 DEF CbPost
  <1>7. CASE TaskStart
    BY <1>7 DEF TaskStart
  <1>8. CASE TaskAlloc
    BY <1>8 DEF TaskAlloc
  <1>9. CASE TaskOpen
    BY <1>9 DEF TaskOpen
  <1>10. CASE TaskPend
    BY <1>10 DEF TaskPend
  <1>11. CASE TaskCheckKill
    BY <1>11 DEF TaskCheckKill
  <1>12. CASE TaskBoth
    BY <1>12 DEF TaskBoth
  <1>13. CASE TaskTest
    BY <1>13 DEF TaskTest
  <1>14. CASE TaskWrite
    BY <1>14 DEF TaskWrite, TypeOK, HandInv, LifeInv, WillServe, Ready
  <1>15. CASE TaskClear
    BY <1>15 DEF TaskClear
  <1>16. CASE TaskExit
    BY <1>16 DEF TaskExit
  <1>17. CASE TaskDrain
    BY <1>17 DEF TaskDrain
  <1>18. CASE TaskFree
    BY <1>18 DEF TaskFree
  <1>19. CASE Create
    BY <1>19 DEF Create, LifeInv, Starting
  <1>20. CASE CreateReturn
    BY <1>20 DEF CreateReturn
  <1>21. CASE CreateFail
    BY <1>21 DEF CreateFail
  <1>22. CASE Kill
    BY <1>22 DEF Kill
  <1>23. CASE KillPost
    BY <1>23 DEF KillPost
  <1>24. CASE KillJoin
    BY <1>24 DEF KillJoin
  <1>25. CASE KillClearInit
    BY <1>25 DEF KillClearInit
  <1>26. CASE KillClearKill
    BY <1>26 DEF KillClearKill
  <1>27. CASE UNCHANGED vars
    BY <1>27 DEF vars
  <1>28. QED
    BY <1>1, <1>2, <1>3, <1>4, <1>5, <1>6, <1>7, <1>8, <1>9, <1>10, <1>11, <1>12, <1>13, <1>14, <1>15, <1>16, <1>17, <1>18, <1>19, <1>20, <1>21, <1>22, <1>23, <1>24, <1>25, <1>26, <1>27 DEF Next, CbStep, TaskStep, ControlStep

(* A stream of one medium implements the one-place channel.                *)
THEOREM ChannelTheorem ==
    ASSUME NEW x \in Slots, Delivered = {x}, ~MayStraddle
    PROVE  Spec => ImplementsChannel
  <1>1. Medium = x
    BY DEF Medium
  <1>a. Spec => []~straddled
    <2>1. Init => ~straddled
      BY DEF Init
    <2>2. ~straddled /\ TypeOK /\ [Next]_vars => ~straddled'
      BY DEF Next, vars, ghosts, CbStep, TaskStep, ControlStep, CbEnter,
         CbCheck, CbMark, CbFill, CbFinish, CbPost, TaskStart, TaskAlloc,
         TaskOpen, TaskPend, TaskCheckKill, TaskBoth, TaskTest, TaskWrite,
         TaskClear, TaskExit, TaskDrain, TaskFree, Create, CreateReturn,
         CreateFail, Kill, KillPost, KillJoin, KillClearInit, KillClearKill
    <2>3. QED
      BY <2>1, <2>2, TypeCorrect, PTL DEF Spec
  <1>2. Init => Channel!Init
    BY <1>1 DEF Init, Channel!Init, WLoop, Slots
  <1>3. TypeOK /\ LifeInv /\ CleanInv /\ ~straddled /\ (~straddled => HandInv)
          /\ [Next]_vars
        => [Channel!Next]_<<wpc \in WLoop, accepted[Medium], wire[Medium]>>
    BY <1>1, ChannelStep DEF CleanInv
  <1>4. QED
    BY <1>2, <1>3, <1>a, CleanInvariant, HandInvariant, PTL
       DEF Spec, ImplementsChannel, Channel!Spec
=============================================================================
