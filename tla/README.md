# wifi_camera: verification project

`src/wifi_camera` is the application of a Wi-Fi camera on an AC791 (WL82) chip: it
records the camera to an SD card, sends a live stream to phones, plays recordings
back to them and shows them thumbnails. The video server, the sockets, the file
system, the CTP/CDP server library and the RTOS are the chip's SDK and are not in
the repository; they are modelled as the sources use them and marked external.

This directory holds TLA+ modules of the application's core, TLC configurations
for small instances, and TLAPS proofs for every value of the constants. The
modules follow the default build of `include/app_config.h`: `CONFIG_NET_UDP_ENABLE`,
`NET_VIDEO_SHARE_CHANNEL`, one camera (no `CONFIG_VIDEO1_ENABLE`, no UVC), no
`CONFIG_ENABLE_VLIST` except where a section says so. The screen is on in it:
`CONFIG_UI_ENABLE` is defined in `Makefile:114` and `AC791N_WIFI_CAMERA.cbp:44`, and
`TCFG_DEMO_UI_RUN` is 1 (`app_config.h:390`).

## 1. Inventory

Components with a module are in **bold**; `PROJECT.json` lists every component with its
sources and, under `hazards`, what is hard to test, each at its line.

| component | state it keeps | operations | talks to |
|---|---|---|---|
| **live stream writer** `wifi/stream_protocol.c` | one global record: flags `init err kill copy vd_use ad_use`, a semaphore, a stream handle, two packet buffers | `stream_packet_cb`, `stream_protocol_task`, `..._task_create`, `..._task_kill` | called by the video server's thread; writes to a sink (udp, tcp, usr, rtp) |
| **recorder** `video_rec.c` | `state`, `video_rec0` handle, `file[]`, `new_file[]` | start, stop, toggle, savefile, server events | calls the stream's stop and start around its own |
| **live stream control** `wifi/net_video_rec.c` | `is_open`, audio and video wanted, `net_state`, `net_video_rec` handle | open, close, start, stop, device and server events, control messages | borrows the recorder's handle while it records |
| **phone sessions** `wifi/ctp_cmd.c` | `info`: count, last admitted address, whom to answer; one `sync` flag per command | one handler per command, run by `ctp_cmd_analysis` | all services below |
| **playback service** `wifi/video_playback.c` | client list, mutex, one thread and semaphore per session | request, accept, send loop, pause, resume, stop, fast play | AVI reader, packet assembly |
| **preview service** `wifi/video_preview.c` | client list, mutex, one thread per session | request, accept, send loop, slide, disconnect | AVI reader |
| **sinks** `wifi/stream/` (UDP, TCP, RTP, user) | socket, send buffer, `rt_info` | open, write, close, unregister on departure | the writer, the departure handler |
| **TCP clients** `wifi/stream/video_rt_tcp.c` | linked list of connections, semaphore | accept, open, depart | the sink, the departure handler |
| **cyclic files** `video_rec.c` 385-767 | scans and counts per directory, lock size | create, select, rename, delete | file system, recorder |
| **media file list** `wifi/media_file_list.c` | entries, two mutexes, `initing` | add, remove, scan, write the list | recorder, phones (compiled out) |
| **AVI reader** `simple_avi_unpkg.c`, packets `wifi/packet.c` | distances of the frames, the last request | open, frame by number, next file | playback, preview |
| **RTSP recorder** `wifi/strm_video_rec.c` | state, handles | open, setup, start, stop, close | RTSP library, live stream control |
| **user buffers** `wifi/user_video_rec.c` | state, buffers, handle | open, close, photo | video server, writer |
| **SPI camera** `spi_video.c` | `state`, flags, the task | create, kill, reset | live stream, application |
| **voice talk** `wifi/rt_talk_net.c`, `rt_talk_voice.c` | frame under assembly, ring buffer | receive, play, open, close | phones, audio device |
| **settings** `app_database.c`, commands in `wifi/ctp_cmd.c` | a table of one-byte items in flash | select, update, defaults at boot | phones put and show them, the recorder reads them |
| **screen demo** `ui_camera_demo/` | form, selection, effect, menu cursor, clock | keys, timer, frames | user interface library |
| network bring-up `wifi/wifi_app_task.c` | Wi-Fi mode, services started | Wi-Fi events, init, uninit | every service |
| LTE, relay, start-up, tests, board | little control state | | SDK |

**How they interact.** Most handlers run in one task, `app_core`, one after the other:
device and server events, and the CTP commands (`ctp_cmd_analysis`). They are not alone
with what they change: the key `K2` switches the recorder in the `ui_demo` task
(`ui_demo.c:783-786`, 1296-1299, 1938-1940), `user_net_video_rec_open` and `_close` are
called from other threads, `net_video_server` stops and closes the stream; no lock keeps
them from coming between two calls of a handler. (The application's own key for recording
does not record: it asks the phone to send `VIDEO_CTRL`, `net_video_rec.c:1899-1904`,
`ctp_cmd.c:3649-3675`.) More concurrency: the video server's thread calls `stream_packet_cb` while the
writer task serves and the application's task starts or kills it; each playback and
preview session has threads of its own that share a client list with the
application's task; a departing phone's handler takes the writer's socket away; a
thread accepts TCP connections, one scans the card, one reads the SPI camera, one
receives the talk; the CTP library keeps the table of connections and posts their
losses as events; `net_video_server` runs a few notifications of its own.

**What is hard, and what makes it correct.**

- *Writer*: three threads, flags and no lock. A frame must not enter buffers that
  are not there; a filled slot must be served although tokens are dropped; start
  and kill must return and leave nothing behind.
- *Sinks*: two threads and one socket, whose pointers are cleared in an order; frames
  cut into fragments whose last one must be recognised. The list of TCP clients is
  changed by one thread and walked by two others, without a lock.
- *Recorder and stream*: the stream must be torn down and brought up around every
  start or stop of the recorder, whatever call fails; the handle it holds must
  follow the recorder's state; nothing may be left open without an owner.
- *Cyclic files*: the oldest file comes from an old scan, while phones lock and
  delete; the open file must survive and a started recording must fit.
- *Sessions*: a count kept by comparing addresses must agree with the phones that
  are there, because the last departure, and only it, closes everything.
- *Playback*: pause, resume and stop go through flags and a semaphore the session
  reads without the mutex; entries and records must live and die together; dates,
  pictures and sound run on separate counters.
- *Preview*: a session holds the mutex of the list for all its life; whoever needs
  the list waits for it.
- *Media list*: a flag read before the mutex is taken drops additions and removals.
- *AVI reader*: an answer computed from the last request must not depend on it.
- *Other recorders*: memory and server are shared, and a stop may be refused.
- *SPI camera*: calls and a self-resetting task share a state with no lock.
- *Talk*: datagrams lost, doubled, late; a buffer blanked in part.
- *Screen*: the state of several forms is moved by each key from where the last left it.

## 2. Modules

| module | models | its theorems |
|---|---|---|
| `StreamProtocol` | the writer, at the grain of single loads and stores | `StreamProtocolProofs` |
| `SlotChannel` | what it promises for one medium: a one-place channel | |
| `NetVideoRec` | recorder and live stream control, one action per call, and the other threads | `NetVideoRecProofs` |
| `CtpSession` | admission, live stream commands and departure of phones | `CtpSessionProofs` |
| `Playback` | the playback service and its commands | `PlaybackProofs` |
| `Preview` | the preview service and its commands | `PreviewProofs` |
| `Settings` | the settings' table, its commands and the recorder's use of it | `PartsProofs` |
| `NetSink` | what the writer sends to: UDP, RTP, TCP, user callback | `PartsProofs` |
| `TcpClients` | the list of TCP clients, store by store | `PartsProofs` |
| `CycFiles` | the files of a loop recording | `CardProofs` |
| `MediaFileList` | the list of recordings that phones fetch | `CardProofs` |
| `AviReader` | finding a frame through the index | `CardProofs` |
| `PlayOut` | what one playback session sends, in which order | `DeviceProofs` |
| `UserRecs` | the RTSP and the user recorder | `PartsProofs` |
| `SpiCam` | the SPI camera's task and calls | `DeviceProofs` |
| `Talk` | the phone's voice, from datagram to ring | `DeviceProofs` |
| `Screen` | pages, effects and menu of the screen demo | `DeviceProofs` |
| `MCParts` | runs `Settings` and the ten modules above, one in each behaviour | |

The operators whose comment says *Mutant*, and those with a suffix such as `_FullOnly`,
are plausible bugs of the definition that follows them. `PROJECT.json` pairs each
checked property with one; the specifications never use them.

### StreamProtocol

`init`, `err`, `kill`, `copy`, `use[m]`, `sem`, `fd` and `pk[m]` are the fields of
`strm_ptl_info`; `spc`, `wpc` and `cpc` are the positions of the server's callback,
of the task and of the controlling thread. Each action is the code between two
accesses to the record another thread can see: `CbEnter` is the guard at line 103,
`CbCheck` the test at 120, then the marks, `memcpy` in two steps and the post;
`TaskPend` to `TaskClear` the loop; `TaskExit`, `TaskDrain`, `TaskFree` the exit;
`Create`, `CreateReturn`, `CreateFail` and the `Kill...` actions the controlling
thread. Every allocation, open, write and fork may fail. A frame is a sequence
number; `accepted`, `wire` and `session` are ghosts.

Time is abstracted: the 10 ticks of the pend, the 20 of the drain loop and the 100
of `create` may run out at any moment their wait has not ended.

Assumed of the platform: a store to a bit field changes that bit only; the three
loads of the guard are one step; one server thread delivers both media;
`thread_kill(KILL_WAIT)` returns after the thread has ended; a post to a deleted
semaphore counts nothing; `vd_len` is stored with `vd_use`.

A callback that entered the previous task may still be running when the next is
created; nothing in the code excludes it. The ghost `straddled` records that it
happened: `NoLostWakeup`, `HandOff` and `SlotServed` are claimed until then, the other
properties always. (A callback that outlives its task marks a slot in the next one
and may post a semaphore that is not there yet: the slot then stays marked, and its
frames are dropped, until the other medium wakes the task.) `MayStraddle = FALSE`
narrows an instance to streams in which it does not happen. `HandOff` is claimed for
streams of one medium: with both, a token of one wakes the task in the
middle of the other's copy, since the slot is marked before `memcpy`.

### NetVideoRec

One call into the recorder or the stream is one step, and a C function is an operator
from a state to the set of its outcomes (state, failed?): the combinators `Then`, `OnOk`
and `OnErr` are `f(); g();`, `if (!f()) g();` and `if (f()) goto err;`. A handler of the
application's task that makes one call is one action (`AtOnce`); one that makes several
puts them into `calls` (`ControlCalls`, `StopAround`) and `Call` makes them one by one,
each on the state it finds. Between them the other threads come in: `K2`, `UserOpen` and
`UserClose` (`user_net_video_rec_open(1)`, `_close(1)`), and the two halves `IoctlStop`
and `IoctlClose` of `NET_VIDREC_STA_STOP` in `net_video_server`. `K2`, the charger, a change
of file and a removed USB device switch the recorder without touching the stream
(`Switch`).

`cam` gathers the fields of `rec_handler` and `__this_net` that decide anything. Ghosts in
it: `live` is the handle on which channel 1 really runs, `orphan` says that a server was
left open without an owner (on the sharing branch of the stop, too), `lost` that an open
file was overwritten, `faults` which kinds of call have failed. `Faults` selects the calls
that may fail. The ghost `astray` remembers how recorder and stream were switched apart:
`"started"` or `"stopped"`, the recorder under a running stream; `"met"`, another thread
brought the stream up while a handler was between its calls; `"closed"`, the stream was
marked closed while it ran. What the properties except, they except by these names
(`NotStartedUnder`, `NotStoppedUnder`).

`IoctlStop` is posted by `CONFIG_ENABLE_VLIST` code only (`ctp_cmd.c:3314`); it is modelled
as if it were on. Abstracted: which file is deleted or renamed; "storage not ready" (the
handler does nothing); `videoram_mark` and the static buffers, which do not choose a path in
this build; notifications to phones; the second camera; photos; the message queue of
`net_video_server`. Not covered: two threads inside the same call, which tear the record's
fields apart store by store (the hazard at `ui_demo.c:785`).

### CtpSession

A client is a slot of the library's table, and its address the slot's, so that a new
connection in a freed slot has the old address. `Connect`, `Drop` and `Answered` are
the library's; every other action is a handler of `ctp_cmd.c` with the part of
`ctp_cmd_analysis` before it (`info.cli`, the `sync` flag that drops a repeated
command). The CTP count drops when the connection is lost, before the departure is
handled. The library is assumed to clear a command's flag when its answer was sent;
in the sources only the departure handler clears them.

The official application sends `APP_ACCESS` once, before anything else, and does not
leave before it was executed. The ghost `rude` records that a phone did otherwise, or
that one connected with the address `info.dest_addr` remembers. From then on the count
and the phones may part (see the hazard at `ctp_cmd.c:3281`), and the
properties of the count are claimed until then; `TypeOK` and `DepartureTaken` always.

### Playback

A request forks a thread (`Select`, `Accept`, `AcceptFails`, `AddToList`, `Fork`)
that becomes a session's thread (`Load`, `Top`, `Pend`, `Test`, `Send`, `NextFile`,
`Exit`). The commands of the application's task are `playback_cli_pause`,
`playback_cli_continue` and `StopCommand`; `Depart` is a phone that leaves, with the
disconnect call of the last departure or without. The mutex is held for one action
each; `stop` and `kill_flag` are read without it. `late` and `held` count the frames
sent since a pause and the tokens there were at it. Requests and commands that post
a semaphore are bounded by `MaxSessions` and `MaxPosts`. The service is modelled with
its list of files switched on, which is how a phone reaches it. Fast play and
what is sent are in `PlayOut`. Not modelled: `playback_uninit`, what a reader sees in
freed memory.

`PauseAfterStop = FALSE` assumes that a phone does not pause a session it has
stopped: line 250 tests `stop` before `kill_flag`, so such a pause puts the killed
session to sleep.

### Preview

As above, except that a session's thread takes the mutex of the list before its first
picture and holds it until it has freed itself; the application's calls (`app`)
wait for it. A request without a number of pictures moves on in its file by `timeinv` and
ends when the offset has passed the last frame (the reader answers -1,
`simple_avi_unpkg.c:807-809`), so it is a number like any other; `Advancing = FALSE` allows the
one that does not move on, `THUMBNAILS` with neither `num` nor `timeinv`, which is endless. (An
H264 build clamps the offset at line 210 and would be endless for any `timeinv`.) A
session sends at most `MaxPictures`. `listen` is the service's socket, which an accept that
fails gives up for all later requests (`AcceptFails`).

### Settings

`flash` is the table of `app_database.c`; `db_select` and `db_update` are operators
that give the set of what the call may return or leave, with a failure for the items
in `Fails`. A number a phone sends is kept in one byte (`% 256`). `app_config_init`
walks the table in its order and stops at a failed write; a restart is `PowerOff` and
then it. `shown` is what a phone was last told, `started` and `asked` are the
parameters of the request that started the recording and of its last one. The
parameters that do not depend on a setting are left out, and so is the date stamp
(`CONFIG_OSD_ENABLE` is off). `gra` stands for the commands whose item is not in the
table: their number is dropped and the answer is 0.

### NetSink

`writer` is where the writer's thread is, `app` the application's task. A frame is its
length, in units of which a datagram carries `Payload`; the buffer holds `BufFrags`
datagrams. `SendUdp` is one round of the fragment loop: gather until the buffer is full
or the frame over, send what is full or carries a mark. `Unreg` and `Forget` are the
two halves of `UDP_client_socket_unreg` on either side of which the writer may run.
`kind` is chosen with the path. A part of a TCP or RTP frame may go out short
(`frame.short`): `sock_send` may take only its beginning, and the code tests for an
answer below one (`video_rt_tcp.c:178`, 209, 217). A frame whose length is a multiple of the payload never
gets the end mark; unless it is also a multiple of the whole buffer, what was gathered
last is not sent, while the whole length is returned. `SentWhole` excludes these
lengths over UDP and the short parts of the other sinks, the instance contains both.

### TcpClients

The linked list is two functions `nxt` and `prv`; `list_add_tail` and `list_del` are
modelled store by store, walks load by load. The opener and the departure handler do
not overlap (the application's task waits for the opener it started); the accepting
thread overlaps with both. Memory is assumed sequentially consistent.

### CycFiles

A recording has a size between 0 and `Full`; `job` is how far making room has come.
`FreeRound`, `GiveUp`, `RoomMade`, `Reuse` and `CreateFile` are the rounds of
`video_rec_del_old_file` and the calls after it; phones act between jobs, because
both run in `app_core`. One directory: `lock_fsize` is never increased in the sources, so
that `lock_dir` stays 0. `NetVideoRec` abstracts all this to success or failure.

### MediaFileList

`CONFIG_ENABLE_VLIST` is commented out in `include/app_config.h` (line 236); this module
models the component with it on, as `Playback` and `Preview` do for the commands that
need it. `rlock` is `file_list_read_mutex`; the calls that test `initing` first are split
at the mutex. The ghost `doubt` collects the files about which the list may be wrong. An
addition without card or file keeps the mutex, as the code does.

### AviReader and PlayOut

`AviReader` has the index of a file as a sequence of chunks and the reader's record:
one distance per frame, modulo `AviByte`, and the last request of each kind. The runs
take every index of up to four chunks. `PlayOut` is one session's thread over a list of
files: start offset, sound, pictures, dates, fast play and the choice of the next file.
`clock` is `pinfo.time`, `told` the date the phone was last sent: at a start in the middle
the file's own date is sent (`packet.c:695`) and `pinfo.time` is moved to the offset
afterwards, without a packet (`video_playback.c:233-239`), so that the phone keeps the
file's date until a second of pictures has gone out. Frame times and dates are counted in units. Observed in the code and left out of the
properties by their conditions: the frame period is a whole number of milliseconds
(`simple_avi_unpkg.c:766`), so that an offset drifts for rates that do not divide a
second; the next file may be one from the beginning of the list.

### UserRecs

Each operation is one action, with a failing variant per call that may fail; `faults`
remembers which have. `"undo"` marks the clean-up of a failed open whose stop was
refused. The live stream is open, closed, opened by a phone on top of the RTSP channel
(`"late"`), or counts as closed while its channel runs on (`"stray"`), because nobody looks at
what `user_net_video_rec_close(1)` answers (`strm_video_rec.c:164`) and the stop may have been
refused (`net_video_rec.c:1200-1204`, 1396).

### SpiCam

`task[t]` is where the t-th forked thread is, `spiCall` the call under way; between them
the actions interleave. `bad` collects what has gone wrong: calls that were refused, a
wait that ran out, a frame damaged during a call, a camera left open. No call begins
after a fault.

### Talk

The network may deliver any datagram the phone has sent in its time, again or never.
A frame is built from slots; a new frame blanks only the slots in `Blanked`. Malformed
datagrams, audio volume and the codec are left out.

### Screen

Keys, frames of the camera and the timer's two steps, `TickBegins` (the mark `init_flog`
is tested) and `TickReads`. `KEY_4` (camera or menu) and
`KEY_K4` (up, or home) are different keys. The forms are a stack of the user interface
library (external), which shows each at most once; `BASEFORM_1` belongs to `PAGE_0`.
`photo_selection` is a `char` taken as signed. The end of the time page is two steps:
`LeavePage` clears the marks (`ui_demo.c:1656`), `LeaveWrites` sets the clock (1659), and the
timer may read in between. Ghosts: `wanted` is the time as the keys have set it, `late` says
that a reading was under way when the time page was opened or began while it was left,
`home` that `K4` has shown the first page over an open one: it leaves the cursor, the marks
and the time being set where they are (1683-1689). What `K2` does on the camera's screen, it
switches the recorder, is in `NetVideoRec`. The messages to the `ui_demo` task, the
icons of recording and card, and the other demos are not modelled. Observed: stepping the
time runs over hours 1 to 24 and minutes 1 to 60, never 0, and reaches day 31 only
downwards (`ui_demo.c` 421-545); a photo asked for under one effect is
saved with that of the next selection (`camera_demo.c:290`); the comment "0加时间
1减时间" says the opposite of the code (lines 384, 421).

## 3. Runs

| run | instance | shows | states |
|---|---|---|---|
| `stream_both` | both media, 2 tasks, 2 frames each, callbacks outlive a task | a kill returns and leaves nothing; no wake-up is lost and a slot is served | 195,090 |
| `stream_single` | one medium, 3 tasks, 3 frames, `MayStraddle = FALSE` | frames are handed over exactly; the writer implements `SlotChannel` | 3,894 |
| `camera` | every call may fail, three threads between a handler's calls | what runs, runs for a client; the stream comes back; handles, servers and channels stay apart until the recorder is switched under the stream | 4,150,326 |
| `camera_key` | nothing fails | **violation**, see 6 | |
| `ctp_session` | 2 CTP and 1 CDP slot, any order of commands, addresses reused | a departure is never dropped; until a phone is rude, the count, the release of every phone, the stream's end | 130,402 |
| `playback_two` | 2 phones, 2 sessions | a pause holds, a kill and a departure end, the list is exact | 151,444 |
| `playback_not_found` | as above | **violation**, see 6 | |
| `preview_serve` | 2 phones, 2 sessions, 2 pictures | the task gets the list; sessions end | 68,724 |
| `preview_endless` | thumbnails without number and time step | **violation**, see 6 | |
| `parts` | eleven modules, one per behaviour | what each of them promises, see below | 1,165,148 |
| `settings_save` | nothing fails | **violation**, see 6 | |

`parts` checks the modules that share no state in one run: `part` says which of them
runs in a behaviour. Its properties:

| property | says |
|---|---|
| `ShownIsUsed`, `RestartKeeps`, `RecordingGoesOn` (`Settings`) | what a phone was told is what a recording uses; a restart keeps what can be read; only a failure ends a loop recording |
| `SentWhole` (`NetSink`) | a frame reported as sent has arrived whole and with its end, but for multiples of the payload (UDP) and parts sent short (the others) |
| `SocketOwned` (`NetSink`) | the socket is unregistered once and used afterwards only for the rest of a cut frame |
| `ListSound` (`TcpClients`) | the list without a lock is exact when nobody is changing it; nobody stands on a freed record |
| `RoomRightly`, `StartedFits` (`CycFiles`) | making room spares the open file, gives up only when all the others are locked, and leaves room for what is started |
| `ListFaithful` (`MediaFileList`) | at rest the list is what is on the card, but for the files in doubt |
| `AnswerRight` (`AviReader`) | the frame found does not depend on the requests before |
| `InStep` (`PlayOut`) | the date the phone was sent, picture and sound stay together over fast play and changes of file; how long the file's own date stays after a seek |
| `LentBuffers` (`UserRecs`) | a running channel has its memory for itself, but for a live stream opened on top or refused its stop, and the clean-up of a failed open |
| `SpiServed` (`SpiCam`) | who was told that the camera runs has one reader, for itself |
| `FrameWhole` (`Talk`) | frames are played in order, once, and of their own slices |
| `ScreenInStep` (`Screen`) | form, picture mode, effect, photo and menu belong together, but for the page `K4` hides |
| `TimeKept` (`Screen`) | the clock gets the time as the keys set it, unless the timer's reading meets the opening or leaving of the page |

The type invariants and `GuardOpenInLoop`, `IdleIsReset`, and of `Preview`
`ListNamesSessions`, `RunningNeverFlagged` and `FlaggedSendsNothing` are not among the runs'
properties: they are proved (section 4).

**Why the bounds are enough.** *Writer*: a hazard needs the end of one task and the
start of the next (2 tasks) and a slot that is filled, freed and filled again (2
frames); with one medium the state is small enough for 3 of each. *Camera*: no bound,
the state space is finite. *Sessions*: "first", "last" and "neither" need three slots,
and both servers must be there because only the CTP count keeps the stream; with one
admitted phone per server (`AccessNum = 1`) a third is refused. *Services*: list order,
"the other phone's session" and a mutex held by another need two sessions of two
phones; a semaphore that collects tokens needs one superfluous post. *Settings*: an item with two
used values, one with three, one that only boot writes; 256 is the first number that
does not fit. *Sinks*: lengths below, at and above one payload and one, two and more
buffers, in a second frame and a second opening. *TCP clients*: first, middle and last
record. *Cyclic files*: a card of four and a half recordings, so that room for three is short
from the third file on; five names let a scan outlive what it counted. *Media list*: four files for
two entries, one of them unreadable, and a second scan. *AVI*: every index of four chunks of the
three kinds, with a byte of three so that distances overflow (those are outside the property).
*Playback's output*: files of 19 pictures at 3 a second with 8 chunks of sound, where neither
divides the other; one step of fast play and two changes of speed. *SPI*: three calls (start,
the other user's start, stop) and one damaged frame. *Talk*: three slots, of which a new
frame blanks two, three frames, a second talk. *Screen*: the selections are complete; two turns
bound the values. The theorems have none of these bounds.

Deadlock is checked for the camera, whose handlers can always run, and for the settings in
`settings_save`. The other systems may stop: bounded frames, phones that have all left, a
leaked slot for each client, a list whose mutex was kept.

**Fairness.**

- Writer: weak fairness of each thread inside one of its functions. The scheduler
  is preemptive and each wait but the kill's has a timeout. Nothing obliges the server
  to deliver a frame or the application to start or stop the stream.
- Sessions: weak fairness of each departure's handler; the application's task takes
  its events. No phone is obliged to do anything.
- Playback: weak fairness of each thread; sends return, and a file ends some time.
- Preview: weak fairness of a thread that can run; strong fairness of whoever waits
  for the mutex, because the RTOS queues waiters. `SendFails` is never forced.

## 4. What is proved

Every safety property that a run checks, and the refinement, is a theorem. There are eight
modules of proofs, with no assumption besides those on the constants unless the theorem
states it. The assumptions are those of the code: counts, sizes and numbers of files,
calls and datagrams are natural numbers (a buffer, a card's recording and a rate at least
1); a frame of voice of n slices has n slots; a picture lasts at least a millisecond; the
names that stand for nothing are not members of the sets they are used with.

**StreamProtocolProofs.** `LifeInv` says what the task's position implies for its
resources and flags, and what the controlling thread's position implies for the task:
neither `GuardOpenInLoop` nor `NothingHeldWhenClosed` is inductive, because each looks
at flags another thread is about to store. `WakeInv` adds, for each slot in use the
task is not on its way to, a token or a callback that will post one; it needs
`FreshInv` (no callback of an earlier task is about). Both hold until a creation meets a
callback in flight: `CleanInv` is that implication, and `straddled` never falls back.
`HandInv` ties the slot's flag, the
buffer's state and the two counters for a stream of one medium. From these:
`TypeCorrect`, `GuardTheorem`, `ClosedTheorem`, `WakeTheorem`, `HandOffTheorem`, and
`ChannelTheorem`: with one medium and `MayStraddle = FALSE`, every step is a step of
`SlotChannel` or a stutter.

**NetVideoRecProofs.** One lemma per function gives what each outcome may change; `Kept`
says what one call into the recorder or the stream keeps of the invariant, as far as that
held before; the step proof has one lemma per kind of step. The invariant `Inv` is
conditional on the history: `FileSafe`, an open file belongs to a recorder that runs,
always; `Intent`, a stream that runs has a client that asks for it, until it is closed
blindly; `OwnsAlone`, a server of the stream's own is held only while the stream runs without
the recorder, until the recorder is started under it; `RecSane` and `Lends`, the recorder's
handle is there and the stream holds nothing of the recorder's unless both run, until the
recorder is stopped under it; `Shares`, both. `CallsOk` says which calls a handler may still
have to make (`Shapes`), and that the stream is down when it is about to call the recorder,
unless another thread has come in between; without it none of the rest is inductive, since
a handler's order is spread over several steps. None of the properties is inductive alone: each says
what must have happened before, and the step needs to know what is held while it has not.
`TypeCorrect`, `WantedTheorem` (`RunsOnlyIfWanted`), `BackTheorem` (`ComesBack`),
`ShareTheorem` (`SharesWhileRecording`), `ChannelTheorem` (`OneChannel`), `FileTheorem`
(`NoFileLost`), `ServerTheorem` (`NoServerLost`) and `HandleTheorem` (`HandleKept`) are all of
the form `Spec => []P`, for every `Faults` and with every thread.

**CtpSessionProofs.** `TypeCorrect` and `DepartureTheorem` hold for every client. Until a
phone is rude, `SessionInv` adds to the count where a departing phone and a
remembered address can be; it gives `CountTheorem`, `FreedTheorem`, `IdleTheorem` and
`KeepStreamTheorem`. The count alone is not inductive: the comparison with `dest` is
right only because a remembered address belongs to a counted phone or a free slot.

**PlaybackProofs.** `PauseInv` bounds frames plus tokens by the tokens held at the
pause, one tighter past the wait, where the token is already taken. `ListInv` is
`ListNamesSessions` by positions, with the fact that a session nobody asked for has
no stage.

**PreviewProofs.** `HolderInv` says that a running or ending session holds the mutex;
the two action properties follow from it. `ListInv` as above, until a fork fails. They
hold for counted and endless requests alike.

**PartsProofs.** *Sinks*: `SockInv` ties the record, `rt_info` and the socket to where the
writer and the application's task are; it gives `SocketTheorem`. `SentInv` says that until
its last round a frame over UDP has sent what it has gathered, a multiple of the payload, and
that a frame in parts is whole unless a part was short; with a few lemmas on `%` it gives `SentTheorem` for every payload, buffer and frame length.
*TCP clients*: `ListSound` looks at the list at rest; `TcpInv` says what it is between two
stores. The connections come and go in one order (`CameOnce`), so the list is a stretch of
the sequence of those that came; the forward and the backward pointers agree with that
stretch, each but for the record that is being linked or unlinked (`Forward`, `Backward`),
and whoever walks stands in it (`Standing`). It gives `ListTheorem` for any number of clients.
*Other recorders*: `RecsInv` adds the recorder's state to `LentBuffers`, and that a live
channel which runs astray was refused its stop, for `BuffersTheorem`. *Settings*: `StoreInv` says which bytes the size and the loop item can
hold: the sizes shown and used agree only on those three (for any other byte they differ).
`AnswerInv` adds to `ShownIsUsed` that an item shown and read is stored. They give
`ShownTheorem` and, with the order of the table, `GoesOnTheorem`; `RestartTheorem`
follows from `app_config_init` alone.

**CardProofs.** *Cyclic files*: `CycInv` says that names on the card are in the order they
were made, that the open file is the last of them, that the file job about to name a file has
room for three recordings, and that what a running recording may still take was there,
photos aside (`Fitted`). `StartedFits` alone is not inductive: the space is looked at before
the file gets its size, and photos come in between. It gives `RoomTheorem` and `FitsTheorem`
for every card and file size; the lemmas before it say how the sum of the sizes changes when
a file is added, resized or removed. *Media list*: `MediaInv` says who holds the two mutexes,
that the list names a file once but for those in doubt (`ListedOnce`), and what a scan has
seen and still has to see (`ScanSeen`, `BetweenScans`): at rest the list is exact, on the way
there it is exact up to the file at hand. It gives `ListedTheorem`. *AVI reader*: `Served`
says that a remembered request stands at the place its number names, a sum of distances that
the reader has walked only in part; it gives `AnswerTheorem` for every index.

**DeviceProofs.** *Talk*: `TalkInv` adds to `FrameWhole` that the slices of the frame under
assembly were counted once each (`Counted`): a frame is whole because as many different
slots carry its number as it has slices. It gives `FrameTheorem`. *SPI camera*: `SpiInv` says
what each stage of a call implies for the task and the other way round, as long as nothing
has gone wrong (`Orderly`): the last task forked is the only one that may live, one that ends
by itself has set `reinit`, and a call that is about to fork has seen the one before it
end. It gives `ServedTheorem` for any number of calls and damaged frames. *Playback's output*:
`PlayInv` ties the two counters the session keeps, the date's and the sound's, to its
picture: what was told was counted to a picture not ahead, by the seconds since the picture
the file was begun at, so that nothing is told before the first whole one; and the picture to
wait for is that of the chunk before, unless fast play counts. It gives `InStepTheorem` for every rate, length,
start and series of speeds. *Screen*: `ScreenInv` adds to `ScreenInStep` that forms,
selection and picture mode stay in step until the menu's first page comes up, whose page
then stays for good, and that the selections without a form show that of one of their
neighbours; `TimeInv` adds to `TimeKept` that a timer which reads while the time is being
set is `late`. It gives `ScreenTheorem` and `TimeTheorem` for every clock and any number of
keys.

Proofs about sums and assemblies over sequences need induction. The rule is instantiated for
sets instead of operators: the least number with a property exists because `<` on the naturals
is well founded (`CardProofs`, first section), and the recursive functions of the models are
shown to exist and to follow their equations from that.

Two models say less, or say it otherwise, because of a proof that failed. The sound's part
of `InStep` is false for files with more chunks of sound than pictures, since one round of
the loop sends at most one of each; it says so now, and is one chunk tighter where it holds.
In `Screen` and `SpiCam` two alternatives of a `CASE` overlapped, which TLA+ leaves open and
TLC takes in the order written; each now excludes the others.

**Only model-checked.** Liveness (`SlotServed`, `ControlReturns`, `StreamEnds`,
`KilledEnds`, `GoneEnds`, `AppReturns`, `SessionsEnd`), because the prover has no
rule for fairness and `ENABLED`.

## 5. What the properties rest on

A property with a condition says what the condition excludes:

- `NoLostWakeup`, `HandOff`, `SlotServed`: until a create meets a callback in flight.
- `ComesBack`: no call has failed and no USB device was removed. `RunsOnlyIfWanted`,
  `OneChannel` and `NoServerLost`: the request to the stream's own channel was refused, or the
  recorder was started under a running stream (`K2`, the charger), or, for the writer task,
  stopped under it. `SharesWhileRecording`: until the recorder is switched under the stream.
  `HandleKept`: until it is stopped under it. `NoFileLost`: the recorder's stop was refused. In
  each case the model goes on with what the code does then; the property says that nothing
  else leads there.
- `ShownIsUsed`, `RestartKeeps`, `RecordingGoesOn`: per item, until a flash call for it
  has failed.
- the list properties: until a fork or an accept fails. After that an entry of a
  freed session stays in the list.
- the properties of the phones' count: until a phone is rude.
- `SentWhole`: over UDP, lengths that are no multiple of the payload; elsewhere, frames
  without a short part. `LentBuffers`: live streams opened on top of the RTSP channel or
  refused their stop excepted; for the user recorder, until the clean-up of a failed open is
  refused its stop.
- `ListFaithful`: files in doubt excepted (`doubt` says which). `StartedFits`: photos take no more than two
  recordings' space.
- `AnswerRight`: no two frames of a kind more than 255 chunks apart. `InStep`: for the date, the first
  second of pictures after a start or a change of file (the phone has the file's own date), and
  the frame period is a whole number of milliseconds; for the sound, the file has no more chunks than pictures. `FrameWhole`: frame 0 excepted, and slices that look like a blank slot.
- `SpiServed`: until a call is refused, a wait runs out, or a frame is damaged during a call.
- `ScreenInStep`: the page that `K4` hides and the form a key of the camera shows over one.
  `TimeKept`: a reading of the clock that began while the page was left, or was under way when it
  was opened.

## 6. Findings

- `camera_key` (`net_video_rec.c:1879`, `ui_demo.c:785`): the comments at `net_video_rec.c:609` and
  `video_rec.c:1232` say that the live stream has to be stopped before a recording starts; the
  charger's handler and the key `K2` start the recorder while the stream's own channel runs.
- `playback_not_found` (`video_playback.c:593`): the loop that looks for a phone's
  session returns after the first entry; a stop prints "not find dst_addr" and kills
  nothing although the phone has a session further down the list.
- `preview_endless` (`video_preview.c:306`): a session holds the mutex from its first line to
  its last, the disconnect that would flag it waits for the mutex, and the application's task
  with it. `THUMBNAILS` with neither `num` nor `timeinv` is a session that does not end while
  sends succeed; with a `timeinv` it ends behind the last frame in the default JPEG build.
- `settings_save` (`video_rec.c:894`): the comment at line 883 says, with three
  exclamation marks, that the parameters passed for the next file of a loop recording
  have to be those of its start; they are read from the settings again, which phones may
  change meanwhile.

## 7. Not modelled, and what could come next

- **Composition of the camera with the sessions.** `CtpSession` knows the stream's destination,
  `NetVideoRec` its restarts. A restart after a departure reads a client record by address; whether
  it is still there depends on the library's table, which is not in the repository.
- **Two threads inside one call** of the recorder or the stream (`K2` beside `app_core`), store by
  store, and **`net_video_server`'s message queue**: one static message posted by address.
- **Network bring-up** (`wifi/wifi_app_task.c`) and the end of the services (`playback_uninit`,
  `preview_uninit`): they follow the events of the SDK's Wi-Fi library, whose states and orders the
  sources do not show.
- **Two readers of the AVI file's static record**, the second camera, photo taking by phones, the
  files' download and the remaining system commands of `ctp_cmd.c`.
- **The other direction of the talk**, `rt_stream/` and `tx_camera_cWF/`: thin clients of the SDK.
- **The interrupt side of the SPI camera**, `get_yuv_data.c`, `bt656_camera_get_yuv.c`: line buffers
  whose layout is the hardware's.
- **Proofs**: `HandOff` for two media under the condition it needs; a proved abstract
  specification of the client list and of the loop recording's directory.

Left out for good: codecs and pixel formats, board tables, the other screen demos, LTE
start-up and the network test, prompt sounds: SDK calls in sequence, or data.
