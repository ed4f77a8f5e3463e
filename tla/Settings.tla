------------------------------ MODULE Settings ------------------------------
(***************************************************************************)
(* The settings of app_database.c: a table of one-byte items kept in       *)
(* flash, changed and shown by the CTP commands of wifi/ctp_cmd.c and read *)
(* by the recorder of video_rec.c when it starts, when a file is full, and *)
(* when it goes on with the next one.                                      *)
(***************************************************************************)
EXTENDS Integers, Sequences

CONSTANTS
    Numbers,  \* what atoi returns for the parameter of a PUT
    Fails,    \* the items whose flash calls may fail
    None

(* config_table; the items' lengths are all 1.                             *)
config_table == <<"res", "cyc", "mic", "dat">>
Items == {"res", "cyc", "mic", "dat"}
Byte == 0..255
Default == [res |-> 2, cyc |-> 3, mic |-> 1, dat |-> 1]

(* Commands exist for mot, gra, par, gap and qua, which are not in the     *)
(* table; "gra" stands for them.                                           *)
Putable == {"mic", "dat", "gra"}
Getable == Putable \cup {"res"}

Widths == {1280, 640}

EINVAL == 22

ASSUME NumbersAssumption == Numbers \subseteq Int
ASSUME FailsAssumption == Fails \subseteq Items
ASSUME NoneAssumption ==
    /\ None \notin Byte /\ None \notin Items
    /\ None \notin [width : Widths, mute : BOOLEAN]

VARIABLES
    flash,    \* flash[k]: the byte stored for item k, None before the first
    up,       \* the initcalls have run
    started,  \* what VIDEO_STATE_START asked of the server; None: no recording
    asked,    \* what the last request of this recording asked
    shown,    \* the item a phone was last told about, and as what
    failed    \* the items a flash call has failed for; "save"

vars == <<flash, up, started, asked, shown, failed>>

TypeOK ==
    /\ flash \in [Items -> Byte \cup {None}]
    /\ up \in BOOLEAN
    /\ started \in [width : Widths, mute : BOOLEAN] \cup {None}
    /\ asked \in [width : Widths, mute : BOOLEAN] \cup {None}
    /\ shown \in [item : Getable \cup {None}, as : Nat]
    /\ failed \subseteq Items \cup {"save"}

Init ==
    /\ flash = [k \in Items |-> None]
    /\ up = FALSE
    /\ started = None /\ asked = None
    /\ shown = [item |-> None, as |-> 0]
    /\ failed = {}

-----------------------------------------------------------------------------
(* What db_select may return when flash is f.                              *)
db_select(f, k) ==
    IF k \notin Items THEN {-EINVAL}
    ELSE (IF f[k] = None THEN {-EINVAL} ELSE {f[k]})
         \cup (IF k \in Fails THEN {-EINVAL} ELSE {})

(* The items among ks that are stored and could not be read.               *)
Unread(f, ks, val) ==
    {k \in Items \cap ks : f[k] # None /\ val[k] = -EINVAL}

(* The flash db_update may leave; no caller looks at its result.           *)
db_update(k, n) ==
    IF k \notin Items THEN {flash}
    ELSE {[flash EXCEPT ![k] = n % 256]} \cup (IF k \in Fails THEN {flash} ELSE {})

(* Mutant: the loop ends after the first default.                          *)
app_config_init_FirstOnly ==
    /\ ~up
    /\ \E bad \in SUBSET Fails :
         LET unset == {k \in Items : flash[k] = None \/ k \in bad}
             due == {k \in unset : k = "res"} IN
         /\ flash' = [k \in Items |-> IF k \in due THEN Default[k] ELSE flash[k]]
         /\ failed' = failed \cup bad
    /\ up' = TRUE
    /\ UNCHANGED <<started, asked, shown>>

(* Mutant: the defaults are written without looking at what is stored.     *)
app_config_init_Always ==
    /\ ~up
    /\ flash' = Default
    /\ up' = TRUE
    /\ UNCHANGED <<started, asked, shown, failed>>

(* In the order of the table, an item whose read fails gets its default,   *)
(* until a write fails: n items are done then.                             *)
app_config_init ==
    /\ ~up
    /\ \E n \in 0..4, bad \in SUBSET Fails :
         LET due == {k \in Items : flash[k] = None \/ k \in bad}
             done == {config_table[i] : i \in 1..n}
             stuck == IF n < 4 THEN {config_table[n + 1]} ELSE {} IN
         /\ stuck \subseteq due \cap Fails
         /\ flash' = [k \in Items |->
                        IF k \in due \cap done THEN Default[k] ELSE flash[k]]
         /\ failed' = failed \cup bad \cup stuck
    /\ up' = TRUE
    /\ UNCHANGED <<started, asked, shown>>

PowerOff ==
    /\ up
    /\ up' = FALSE
    /\ started' = None /\ asked' = None
    /\ UNCHANGED <<flash, shown, failed>>

-----------------------------------------------------------------------------
(* The commands.                                                           *)

(* VIDEO_PARAM shows the size by its width.                                *)
ShownWidth(v) == IF v \in {1, 2} THEN 640 ELSE 1280

Answer(k, v) ==
    [item |-> k,
     as |-> IF k = "res" THEN ShownWidth(v) ELSE IF v > 0 THEN v ELSE 0]

(* Flash is f, and the phone is told what item k is in it.                 *)
Show(f, k) ==
    \E v \in db_select(f, k) :
        /\ flash' = f
        /\ shown' = Answer(k, v)
        /\ failed' = failed \cup (IF v = -EINVAL THEN Items \cap {k} ELSE {})
        /\ UNCHANGED <<up, started, asked>>

cmd_get(k) == up /\ Show(flash, k)

(* The handler stores; ctp_cmd_analysis answers with what is stored.       *)
cmd_put(k, n) == up /\ \E f \in db_update(k, n) : Show(f, k)

cmd_put_video_param(height) ==
    up /\ \E f \in db_update("res", IF height = 480 THEN 1 ELSE 0) : Show(f, "res")

-----------------------------------------------------------------------------
(* The recorder.                                                           *)

rec_pix_w == <<1280, 640>>

(* Mutant: what is out of range becomes the first size.                    *)
RecWidth_First(v) == rec_pix_w[(IF v > 1 \/ v < 0 THEN 0 ELSE v) + 1]

RecWidth(v) == rec_pix_w[(IF v > 1 \/ v < 0 THEN 1 ELSE v) + 1]

(* The request as built from what the flash gives for "res" and "mic".     *)
Request(res, mic) == [width |-> RecWidth(res), mute |-> mic = 0]

RecSettings == {"res", "mic"}

(* A start that fails changes nothing here.                                *)
video0_rec_start ==
    /\ up /\ started = None
    /\ \E res \in db_select(flash, "res"), mic \in db_select(flash, "mic") :
         /\ started' = Request(res, mic)
         /\ asked' = started'
         /\ failed' = failed \cup Unread(flash, RecSettings, [res |-> res, mic |-> mic])
    /\ UNCHANGED <<flash, up, shown>>

video_rec_stop ==
    /\ started # None
    /\ started' = None /\ asked' = None
    /\ UNCHANGED <<flash, up, shown, failed>>

(* The file is full and the recorder goes on with the next one, or finds   *)
(* no space, no file or no server, and stops.                              *)
video_rec_savefile(lost) ==
    \/ \E res \in db_select(flash, "res"), mic \in db_select(flash, "mic") :
         /\ asked' = Request(res, mic)
         /\ failed' = failed \cup lost
                \cup Unread(flash, RecSettings, [res |-> res, mic |-> mic])
         /\ UNCHANGED started
    \/ /\ started' = None /\ asked' = None
       /\ failed' = failed \cup lost \cup {"save"}

(* VIDEO_SERVER_PKG_END: the loop setting decides.                         *)
PkgEnd ==
    /\ started # None
    /\ \E cyc \in db_select(flash, "cyc") :
         LET lost == Unread(flash, {"cyc"}, [cyc |-> cyc]) IN
         \/ cyc > 0 /\ video_rec_savefile(lost)
         \/ /\ cyc <= 0
            /\ started' = None /\ asked' = None
            /\ failed' = failed \cup lost
    /\ UNCHANGED <<flash, up, shown>>

-----------------------------------------------------------------------------
Next ==
    \/ app_config_init \/ PowerOff
    \/ \E k \in Getable : cmd_get(k)
    \/ \E k \in Putable, n \in Numbers : cmd_put(k, n)
    \/ \E height \in {480, 720} : cmd_put_video_param(height)
    \/ video0_rec_start \/ video_rec_stop \/ PkgEnd

Spec == Init /\ [][Next]_vars

-----------------------------------------------------------------------------
(* What a phone was last told is what the recorder would use, also after a *)
(* restart and whatever number a phone sent: the size VIDEO_PARAM shows is *)
(* the one the recorder takes for the same byte, and the sound is recorded *)
(* unless the phone was told 0.  It holds until the item could not be      *)
(* read.                                                                   *)
ShownIsUsed ==
    shown.item \in RecSettings \ failed =>
        shown.as = IF shown.item = "res" THEN RecWidth(flash["res"])
                   ELSE flash["mic"]

(* A restart keeps what is stored, unless the flash failed for that item:  *)
(* app_config_init cannot tell a failed read from an item never stored.    *)
RestartKeeps ==
    [][~up /\ up' => \A k \in Items \ failed' :
                        flash[k] # None => flash'[k] = flash[k]]_vars

(* The end of a file does not end the recording, unless the next file      *)
(* failed, the loop setting could not be read, or its default is missing   *)
(* because a write stopped app_config_init at or before it.                *)
RecordingGoesOn ==
    [][PkgEnd /\ started' = None => failed' \cap {"res", "cyc", "save"} # {}]_vars

(* video_rec.c:883: in loop recording the parameters passed again have to  *)
(* be those passed at the start.                                           *)
SaveKeepsStart == asked = started

=============================================================================
