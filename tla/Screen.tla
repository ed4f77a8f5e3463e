------------------------------- MODULE Screen -------------------------------
(***************************************************************************)
(* The screen and its keys (ui_camera_demo/key_demo.c, ui_demo.c and the   *)
(* photo of camera_demo.c): sixteen selections, each with its form, its    *)
(* picture mode and its effect, that two keys step through, and a menu     *)
(* with a page for the time.  The keys come in the application's task, the *)
(* clock's timer and the camera's frames in others: either of them may     *)
(* come between two stores of a key where that tells.                      *)
(*                                                                         *)
(* ui_show_main and ui_hide_main belong to the user interface's library;   *)
(* BASEFORM_1 is what PAGE_0 shows.                                        *)
(***************************************************************************)
EXTENDS Integers, Sequences, SequencesExt

CONSTANTS
    RtcStart,     \* the clock, which stands still but for the menu
    MenuFrom,     \* bound: the selections at which the menu is turned to
    MaxTurns      \* bound: changes between camera and menu, and of values there

VARIABLES
    mode,          \* "camera" or "menu": which of the two the keys go to
    lcd,           \* set_lcd_show_data_mode
    forms,         \* the forms shown, the last one on top
    photo_selection, choice_piece, get_photo_mode,
    kaleidoscope,  \* the selection whose effect the camera applies, or EM_END
    compose,       \* set_photo_compose_mode: the mode and the piece
    get_photo,     \* the photo asked for; 0: none
    page_x, page_y, page2_x, page2_y, init_flog,  \* the menu's cursor
    language_indx, sound,
    test_rtc_time, rtc,  \* the time on display; the clock
    ticking,       \* the timer has seen init_flog clear and not yet read the clock
    leaving,       \* K3 has cleared init_flog and not yet set the clock
    wanted,        \* ghost: the time as the keys have set it
    late,          \* ghost: the timer was at it when the time page was opened, or
                   \* began while it was left
    home,          \* ghost: K4 has shown the first page since a page was opened
    turns

cameraVars == <<photo_selection, choice_piece, get_photo_mode, kaleidoscope, compose>>
cursorVars == <<page_x, page_y, page2_x, page2_y, init_flog>>
valueVars == <<language_indx, sound, test_rtc_time, rtc>>
timeVars == <<ticking, leaving, wanted, late>>
screenVars == <<mode, lcd, forms, cameraVars, get_photo, cursorVars, valueVars, timeVars,
                home, turns>>

EM_END == 16
BOOTH == 1
KALEIDOSCOPE == 2
Fields == <<"year", "month", "day", "hour", "min">>

ScreenInit ==
    /\ mode = "camera" /\ lcd = "UI_CAMERA" /\ forms = <<"PAGE_0", "BASEFORM_1">>
    /\ photo_selection = 0 /\ choice_piece = 0 /\ get_photo_mode = 0
    /\ kaleidoscope = EM_END /\ compose = <<0, 0>> /\ get_photo = 0
    /\ page_x = 0 /\ page_y = 0 /\ page2_x = 0 /\ page2_y = 0 /\ init_flog = 0
    /\ language_indx = 0 /\ sound = 30
    /\ test_rtc_time = RtcStart /\ rtc = RtcStart
    /\ ticking = FALSE /\ leaving = FALSE /\ wanted = RtcStart /\ late = FALSE
    /\ home = FALSE /\ turns = 0

Turns == turns < MaxTurns /\ turns' = turns + 1

\* A form is shown at most once: one that is shown again comes on top.
Removed(fs, id) ==
    IF \E k \in DOMAIN fs : fs[k] = id
    THEN RemoveAt(fs, CHOOSE k \in DOMAIN fs : fs[k] = id)
    ELSE fs

Hidden(id) == Removed(forms, id)
With(fs, id) == Append(Removed(fs, id), id)

-----------------------------------------------------------------------------
(* page0_photo_choice_show. *)

Kaleidoscopes == 4..11

\* The form of a selection; the effects without one leave the form before on.
FormOf(sel) ==
    CASE sel = 0 -> "BASEFORM_1"
      [] sel \in 1..3 -> "BASEFORM_64"
      [] sel = 12 -> "BASEFORM_135"
      [] sel = 13 -> "BASEFORM_138"
      [] sel = 14 -> "BASEFORM_142"
      [] sel = 15 -> "BASEFORM_148"
      [] OTHER -> "none"

\* Upwards the form before is looked for in the effects between.
Up_Booth == [sel \in {0, 1, 12, 13, 14, 15} |->
               CASE sel = 0 -> 15 [] sel = 12 -> 11 [] OTHER -> sel - 1]

\* The selections at which a form is changed, and the one whose form is hidden:
\* the one before, past the effects.
Up == [sel \in {0, 1, 12, 13, 14, 15} |->
         CASE sel = 0 -> 15 [] sel = 12 -> 3 [] OTHER -> sel - 1]

Down == [sel \in {0, 3, 12, 13, 14, 15} |->
           CASE sel = 15 -> 0 [] sel = 3 -> 12 [] OTHER -> sel + 1]

MovesForm(sel, dir) ==
    LET from == IF dir > 0 THEN Up ELSE Down
    IN  forms' = IF sel \in DOMAIN from
                 THEN With(Hidden(FormOf(from[sel])), FormOf(sel))
                 ELSE forms

PhotoMode(sel) ==
    CASE sel \in 0..3 -> BOOTH
      [] sel \in Kaleidoscopes -> KALEIDOSCOPE
      [] OTHER -> sel - 9

\* The effect is set with every selection, the picture mode only where the
\* effects begin and end.
SetsEffect(sel) ==
    /\ get_photo_mode' = PhotoMode(sel)
    /\ kaleidoscope' = IF sel \in Kaleidoscopes THEN sel ELSE EM_END
    /\ compose' = CASE sel \in 0..3 -> <<0, 0>>
                    [] sel \in 12..15 -> <<sel - 8, 0>>
                    [] OTHER -> compose
    /\ lcd' = CASE sel \in {0, 3, 12} -> "UI_CAMERA"
                [] sel \in {4, 11} -> "CAMERA"
                [] OTHER -> lcd

-----------------------------------------------------------------------------
(* ui_camera_key_control: the keys while the camera is shown. *)

\* K3 and K4, up and down the selections.
StepSelection(dir) ==
    /\ mode = "camera" /\ ~leaving
    /\ LET sel == (photo_selection + dir) % 16 IN
       /\ photo_selection' = sel
       /\ SetsEffect(sel) /\ MovesForm(sel, dir)
    /\ choice_piece' = 0
    /\ UNCHANGED <<mode, get_photo, cursorVars, valueVars, timeVars, home, turns>>

\* The pieces a composed photo is chosen in, and one more to start again.
Pieces(m) == IF m = 4 THEN 4 ELSE 3

\* K1: a photo, or its next piece; the last piece asks for the photo and holds
\* the picture.
KeyPhoto ==
    /\ mode = "camera" /\ ~leaving
    /\ CASE get_photo_mode \in {BOOTH, KALEIDOSCOPE} ->
              get_photo' = get_photo_mode /\ UNCHANGED <<choice_piece, compose, forms>>
         [] get_photo_mode > KALEIDOSCOPE ->
              LET m == get_photo_mode
                  piece == (choice_piece + 1) % Pieces(m)
                  last == piece = Pieces(m) - 1
              IN  /\ choice_piece' = piece
                  /\ compose' = IF last THEN <<255, 0>> ELSE <<m + 1, piece>>
                  /\ get_photo' = IF last THEN m ELSE get_photo
                  /\ forms' = IF piece = 0 THEN With(forms, FormOf(m + 9)) ELSE forms
         [] OTHER -> UNCHANGED <<get_photo, choice_piece, compose, forms>>
    /\ UNCHANGED <<mode, lcd, photo_selection, get_photo_mode, kaleidoscope,
                   cursorVars, valueVars, timeVars, home, turns>>

\* A frame of the camera: the photo asked for is saved; one with an effect only
\* while an effect is on.
Frame ==
    /\ get_photo # 0
    /\ get_photo = KALEIDOSCOPE => kaleidoscope # EM_END
    /\ get_photo' = 0
    /\ UNCHANGED <<mode, lcd, forms, cameraVars, cursorVars, valueVars, timeVars, home, turns>>

-----------------------------------------------------------------------------
(* ui_key_control: the keys while they belong to the menu. *)

\* The values of a field of the time, as time_set_page steps them: bytes, but for
\* the year.
Stepped(f, v, dir) ==
    LET w == IF f = "year" THEN v + dir ELSE (v + dir) % 256
        most == [month |-> 12, day |-> 30, hour |-> 24, min |-> 60]
        back == [year |-> 2021, month |-> 12, day |-> 31, hour |-> 24, min |-> 60]
    IN  IF dir > 0 THEN IF f # "year" /\ w = most[f] + 1 THEN 1 ELSE w
        ELSE IF w = 0 THEN back[f] ELSE w

Set(time, n, dir) ==
    IF n < 5 THEN [time EXCEPT ![Fields[n + 1]] = Stepped(Fields[n + 1], @, dir)] ELSE time

time_set_page(n, dir) ==
    test_rtc_time' = Set(test_rtc_time, n, dir) /\ wanted' = Set(wanted, n, dir)

\* K1 (dir 1) and K2 (dir -1): along the menu, or within one of its pages.  In
\* the pages K1 makes the time and the sound less.
MenuStep(dir) ==
    /\ mode = "menu" /\ ~leaving
    /\ \/ /\ page_y = 0 /\ page_x' = (page_x + dir) % 6
          /\ UNCHANGED <<page2_x, valueVars, wanted, turns>>
       \/ /\ page_y = 1 /\ page_x = 0 /\ page2_x' = (page2_x + dir) % 4
          /\ UNCHANGED <<page_x, valueVars, wanted, turns>>
       \/ /\ page_y = 1 /\ page_x = 1 /\ Turns /\ language_indx' = 1 - language_indx
          /\ UNCHANGED <<page_x, page2_x, sound, test_rtc_time, rtc, wanted>>
       \/ /\ page_y = 1 /\ page_x = 2 /\ page2_y = 1 /\ Turns /\ time_set_page(page2_x, -dir)
          /\ UNCHANGED <<page_x, page2_x, language_indx, sound, rtc>>
       \/ /\ page_y = 1 /\ page_x = 2 /\ page2_y = 0 /\ page2_x' = (page2_x + dir) % 6
          /\ UNCHANGED <<page_x, valueVars, wanted, turns>>
       \/ /\ page_y = 1 /\ page_x = 3 /\ Turns /\ sound' = (sound - dir) % 256
          /\ UNCHANGED <<page_x, page2_x, language_indx, test_rtc_time, rtc, wanted>>
    /\ UNCHANGED <<mode, lcd, forms, cameraVars, get_photo, page_y, page2_y, init_flog,
                   ticking, leaving, late, home>>

\* The page on top is hidden and another shown.
show_page(id) == forms' = With(IF forms = <<>> THEN forms ELSE Front(forms), id)

PageOf(x) == CASE x = 0 -> "PAGE_4" [] x = 2 -> "PAGE_3" [] x = 4 -> "PAGE_5" [] x = 5 -> "PAGE_6"

\* K3 in the menu opens the page of the line; the time page and the sound mark
\* that they are open, and the time page reads the clock.
EnterPage ==
    /\ page_y' = 1
    /\ IF page_x \in {2, 3} /\ init_flog = 0
       THEN init_flog' = 1 ELSE UNCHANGED init_flog
    /\ IF page_x \in {0, 4, 5} \/ (page_x = 2 /\ init_flog = 0)
       THEN show_page(PageOf(page_x)) /\ home' = FALSE ELSE UNCHANGED <<forms, home>>
    /\ IF page_x = 2 /\ init_flog = 0
       THEN test_rtc_time' = rtc /\ wanted' = rtc /\ late' = ticking
       ELSE UNCHANGED <<test_rtc_time, wanted, late>>
    /\ lcd' = IF page_x \in {4, 5} THEN "UI_USER" ELSE lcd
    /\ UNCHANGED <<page2_x, leaving>>

\* The marks are cleared; the time page then sets the clock and goes.
LeavePage ==
    /\ page_y' = 0
    /\ init_flog' = IF page_x \in {2, 3} THEN 0 ELSE init_flog
    /\ page2_x' = IF page_x = 2 THEN 0 ELSE page2_x
    /\ lcd' = IF page_x \in {4, 5} THEN "UI" ELSE lcd
    /\ leaving' = (page_x = 2)
    /\ IF page_x = 2 THEN UNCHANGED <<forms, home>> ELSE show_page("PAGE_1") /\ home' = FALSE
    /\ UNCHANGED <<test_rtc_time, wanted, late>>

\* undata_sys_time, and the first page again.
LeaveWrites ==
    /\ leaving /\ leaving' = FALSE
    /\ rtc' = test_rtc_time
    /\ show_page("PAGE_1") /\ home' = FALSE
    /\ UNCHANGED <<mode, lcd, cameraVars, get_photo, cursorVars, language_indx, sound,
                   test_rtc_time, ticking, wanted, late, turns>>

\* K3: a page is opened or left.  On the time page K3 changes between choosing a
\* field and stepping it; the sixth field leaves the page.
Confirm ==
    /\ mode = "menu" /\ ~leaving
    /\ IF page_x = 2
       THEN IF page2_x = 5 THEN LeavePage ELSE EnterPage
       ELSE IF page_y = 0 THEN EnterPage ELSE LeavePage
    /\ page2_y' = CASE page_x # 2 -> page2_y
                    [] page_x = 2 /\ page2_x = 5 -> 0
                    [] OTHER -> (page2_y + init_flog) % 2
    /\ UNCHANGED <<mode, cameraVars, get_photo, page_x, language_indx, sound, rtc,
                   ticking, turns>>

\* K4: the menu's first page, from any page; the cursor and its marks stay.
MenuHome ==
    /\ mode = "menu" /\ ~leaving
    /\ lcd' = "UI" /\ show_page("PAGE_1") /\ home' = TRUE
    /\ UNCHANGED <<mode, cameraVars, get_photo, cursorVars, valueVars, timeVars, turns>>

\* KEY_4: from now on the keys go to the other.
SwitchMode ==
    /\ ~leaving /\ Turns
    /\ mode = "camera" => photo_selection \in MenuFrom
    /\ mode' = IF mode = "camera" THEN "menu" ELSE "camera"
    /\ UNCHANGED <<lcd, forms, cameraVars, get_photo, cursorVars, valueVars, timeVars, home>>

-----------------------------------------------------------------------------
(* timer_change_handler, every second: unless a page is open the clock is read. *)

\* Mutant: it does not look at the mark.
TickBegins_Unmarked ==
    /\ ~ticking /\ ticking' = TRUE
    /\ late' = (late \/ leaving)
    /\ UNCHANGED <<mode, lcd, forms, cameraVars, get_photo, cursorVars, valueVars, leaving,
                   wanted, home, turns>>

TickBegins ==
    /\ ~ticking /\ init_flog = 0 /\ ticking' = TRUE
    /\ late' = (late \/ leaving)
    /\ UNCHANGED <<mode, lcd, forms, cameraVars, get_photo, cursorVars, valueVars, leaving,
                   wanted, home, turns>>

TickReads ==
    /\ ticking /\ ticking' = FALSE
    /\ test_rtc_time' = rtc
    /\ UNCHANGED <<mode, lcd, forms, cameraVars, get_photo, cursorVars, language_indx, sound,
                   rtc, leaving, wanted, late, home, turns>>

ScreenNext ==
    \/ \E dir \in {1, -1} : StepSelection(dir) \/ MenuStep(dir)
    \/ KeyPhoto \/ Frame
    \/ Confirm \/ LeaveWrites \/ MenuHome \/ SwitchMode
    \/ TickBegins \/ TickReads

ScreenSpec == ScreenInit /\ [][ScreenNext]_screenVars

-----------------------------------------------------------------------------
(* Properties. *)

\* The photo and the effect are those of the selection, and a composed photo holds
\* its picture exactly when its last piece is chosen.
EffectInStep ==
    get_photo_mode # 0 =>
        /\ get_photo_mode = PhotoMode(photo_selection)
        /\ kaleidoscope = IF photo_selection \in Kaleidoscopes THEN photo_selection ELSE EM_END
        /\ photo_selection \in 12..15 =>
               compose = IF choice_piece = Pieces(get_photo_mode) - 1 THEN <<255, 0>>
                         ELSE <<photo_selection - 8, choice_piece>>

\* Up to the first page of the menu one form is shown, the selection's own where
\* it has one, and the picture comes with the forms except under an effect.
FormInStep ==
    (\A k \in DOMAIN forms : forms[k] \in {"PAGE_0"} \cup {FormOf(sel) : sel \in 0..15})
    /\ lcd \in {"UI_CAMERA", "CAMERA"} =>
        /\ Len(forms) = 2
        /\ FormOf(photo_selection) \in {"none", forms[2]}
        /\ lcd = IF photo_selection \in Kaleidoscopes THEN "CAMERA" ELSE "UI_CAMERA"

OnTop(id) == forms # <<>> /\ Last(forms) = id
HasPage == {0, 2, 4, 5}

\* A page of the menu is on top of the screen only while the cursor is in it, or the
\* time page is being left; and while the cursor is in a page that page is on top,
\* unless K4 has shown the first page over it or a key of the camera its own form.
\* The mark that stops the clock's timer and the field being set belong to the
\* cursor: after K4 they stay, with the page gone.
MenuInStep ==
    /\ \A x \in HasPage : OnTop(PageOf(x)) => (leaving /\ x = 2) \/ (page_y = 1 /\ page_x = x)
    /\ page_y = 1 /\ page_x \in HasPage =>
           home \/ OnTop(PageOf(page_x)) \/ \E sel \in 0..15 : OnTop(FormOf(sel))
    /\ init_flog = 1 <=> page_y = 1 /\ page_x \in {2, 3}
    /\ page2_y = 1 => page_x = 2 /\ page_y = 1

\* Whichever way the keys were pressed, the form on the screen, the picture mode,
\* the effect, the photo and the menu's cursor belong together.
ScreenInStep == EffectInStep /\ FormInStep /\ MenuInStep

\* A time is being set until the clock has it.
Setting == (init_flog = 1 /\ page_x = 2) \/ leaving

\* The clock gets the time as the keys set it, however often K4 hides the page,
\* unless the timer of the clock was at its reading when the page was opened or
\* began it while the page was left (then the time set is lost); and a time that
\* the clock does not have is left behind nowhere.
TimeKept ==
    /\ late \/ wanted = IF Setting THEN test_rtc_time ELSE rtc
    /\ ~Setting => test_rtc_time = rtc

=============================================================================
