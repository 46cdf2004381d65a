# Thermal Desktop: TLA+ models of its daemons

Thermal Desktop is a set of Rust programs for a Hyprland desktop. Its centre is
the session daemon of `crates/thermal-conductor`: it owns PTY sessions that
outlive the windows showing them, streams their screens to any number of
clients, and publishes what happens to them on an event bus that the bar, the
HUD, the TUI and the audio daemon consume. Around it run programs with state of
their own: notifications, screen lock, voice capture and announcements, the
voice-command dispatcher, the TUI's message bus, the pollers of agent state
files. This directory holds TLA+ models of these parts, the TLC configurations
that check them, and proofs checked by TLAPS. `PROJECT.json` maps each
definition to the lines it models and lists runs, hazards and theorems. Paths
below are relative to `src/crates/thermal-conductor/src/` unless they start
with `crates/`.

## Inventory

| Component | State | Operations | Interacts with | Hard part | What makes it correct |
|---|---|---|---|---|---|
| Session registry (`daemon/session.rs`, `daemon/mod.rs`) | `next_id`, the map of sessions, worktrees, one broadcaster task per session | spawn, kill, exit of the child | bus, sidecar, git, PTY; called by socket connections and D-Bus at once | spawn has seven steps and kill and exit clean the same things up concurrently | fresh ids, complete clean-up, every end announced, live sessions known |
| Connection handler (`daemon/client_handler.rs`) | `attached_session`, forwarder handles, the response channel | attach, detach, subscribe, disconnect | registry (`attached_count`), screen stream, bus | an attach takes the map lock three times and may fail at each; a counter without ownership | the count is the number of holders, one forwarder per client, recorded |
| Screen stream (broadcaster in `session.rs`, `terminal.rs`, forwarder) | grid, damage, dirty flag, broadcast channel, each client's screen | output, resize, tick, send, lag, resync | byte processor, terminal lock, clients | wakeups without a lock, bounded channel, snapshot against incremental updates | no lost wakeup, screens converge |
| Sidecar (`kitty.rs`) | `sessions.json` under a file lock | add, remove, read | registry, TUI, persist | edits are spawned tasks without an order | lists the live sessions |
| Semantic bus (`semantic_state.rs`) | one state and sequence counter per session, a broadcast channel | spawned, exited, removed, title, cwd, notification, import, removal | registry, state-file watcher, subscribers | states change under the lock and events are emitted after it; lagging subscribers | subscribers' views converge, sequences grow |
| State-file watcher (`daemon/entry.rs`) | the sessions of the last poll | poll, import, sweep | bus, state files | asks for ownership and acts on it under different locks | no session is both daemon-owned and external |
| Event subscriber (`daemon_subscriber.rs`) | one snapshot per session | apply snapshot, apply event, reconnect | connection handler | events older than the snapshot, lost events | shows what is alive |
| Daemon entry (`daemon/entry.rs`, `persist.rs`) | flock, pidfile, socket, state file | start, recover, serve, shut down | runtime crate, restart command | any step may be the last before a crash; the old daemon's clean-up overlaps the new one's start | one daemon, reachable; nothing saved is forgotten |
| Socket and pidfile (`crates/thermal-runtime`, `daemon_lifecycle.rs`) | socket file, pidfile | probe, clean up, bind, kill | every daemon of the desktop | test-then-delete races between starters and clients | the files are the serving daemon's |
| Daemon client (`client.rs`) | one stream, pending answers | connect, request with a timeout | daemon over a socket | no request id, late answers | what is reported as done was done |
| Preview (`tui/sessions/preview.rs`) | the attached id, the orders to its thread, the screen | select, attach, read | daemon client | messages of the old session after a switch | shows the session it is attached to |
| Message bus (`messages/`) | `messages.jsonl`, ring, sequence counter, rate limiter | send, persist, rotate, restart; `@system` commands | agents, dispatcher | several processes share a file; buffered writes and crashes | numbers increase; the rate is bounded |
| Terminal inference (`crates/thermal-terminal`) | command block, matched patterns, status, state file | marks and output of a chunk | byte processor, state files | throttled writes without a timer | the file follows the status |
| State files and pollers (`crates/thermal-core/src/claude_state.rs`) | files, file events, caches | hook writes and deletes, poll, prune | hooks, every program that shows agents | events applied out of order, pruning by several programs | a cache follows the files; no live state is pruned knowingly |
| Notification daemon (`crates/thermal-notify`) | D-Bus queue, stack of cards | notify, close, expire, draw | D-Bus clients | queue against stack, frames that fail | the newest live card is shown |
| Screen lock (`crates/thermal-lock`) | password box, attempt limit, surfaces | key, verify, configure, tick | PAM, compositor | timers against keys, GPU surfaces that fail | attempts are limited, typing kept, outputs covered |
| Voice capture (`crates/thermal-audio/src/capture.rs`, `vad.rs`) | detector, buffers, indicator file | chunk, push-to-talk, transcription | microphone, transcribers | several ways an utterance ends | a transcript is one utterance; the indicator is true |
| Announcer (`crates/thermal-audio/src/main.rs`) | suppressed queue, player thread | event, replay, request, interrupt | event bus, `mpv` | suppression, replay and interruption around awaits | one voice, in order |
| Dispatcher (`crates/thermal-dispatcher`) | conversation, HUD file | transcript, answer, failure | a language model, HUD | concurrent commands share a file and a conversation | the HUD settles; recent turns are told |
| Commander, launcher, bar, HUD, wallpaper, screensaver, window | little, mostly drawing or external processes | | | | not modelled |

Every hazard found in this code, with its line and the property that covers it
or the reason why none does, is in `PROJECT.json` under `hazards`.

## Modules

| Module | Models |
|---|---|
| `SessionTable` | what the registry promises: an id goes unused, live, gone, once |
| `SessionRegistry` | spawn, kill, exit, broadcaster, sidecar tasks, bus |
| `MCSessionRegistry` | instances for TLC |
| `SessionRegistryProofs` | type correctness, fresh ids, refinement of `SessionTable`, unique names |
| `SessionEndProofs` | the clean-up, announcement and live-session invariants; where ghosts on the bus come from |
| `AttachProtocol`, `MCAttachProtocol` | the connection handler over an abstract session table |
| `AttachProofs` | types, one recorded forwarder, the count, no stolen size; when the count is exact |
| `ScreenStream`, `MCScreenStream`, `ScreenStreamProofs` | one session's screen on its way to its clients |
| `SemanticBus`, `MCSemanticBus`, `SemanticBusProofs` | session states, emission, the state-file watcher, subscribers |
| `DaemonLifecycle` | daemon processes, flock, pidfile, socket, saved sessions |
| `DaemonClient` | one client's requests, timeouts and reconnects |
| `PreviewPane` | the TUI's preview of the selected session |
| `ClientProofs` | proofs about these two |
| `MessageLog` | TUI processes that share the message log |
| `SystemRoute` | the rate limit and the permissions of `@system` |
| `StateInference` | command marks and output to a throttled state file |
| `StatePoller` | state files, file events, caches, pruning |
| `MCServices` | these seven (`DaemonLifecycle` to `StatePoller`) and the registry with one client, one per behaviour |
| `ServiceProofs` | proofs about `DaemonLifecycle`, `StatePoller`, `StateInference`, `SystemRoute`, `MessageLog`, and about `MCServices`, the composition |
| `NotifyStack` | the notification daemon |
| `LockScreen` | the screen locker |
| `VoiceFile`, `VoiceCapture`, `Announcer` | the indicator file, its writers and its reader |
| `Dispatcher` | voice commands, the HUD file and the conversation |
| `MCDesktop` | the desktop programs, one per behaviour; announcer and push-to-talk together, the HUD's file and the conversation apart |
| `DesktopProofs` | proofs about `NotifyStack`, `LockScreen`, `VoiceCapture`, `Announcer`, `Dispatcher`, and about `MCDesktop`, the composition |

`AttachProtocol` instantiates `SessionTable` for the sessions it attaches to:
since `SessionRegistry` implements that table, the connection handler is
checked against everything the registry can do to its sessions.

Each module also holds operators whose comment starts with "Fault:". They are
what the code would be with a plausible mistake in it, are used by no
specification here, and each makes one property fail when it takes the place of
the operator it is written next to.

### SessionRegistry

A request is run by a task of its own (`Client`: a socket connection or a D-Bus
call) and `pc`, `cur` say where it is. What one lock acquisition covers is one
action. Spawn is `SpawnChild` (id, worktree, PTY), `NameSession` (names
collected under the lock), `InsertSession` (map entry and all tasks) and
`PublishSession` (`session_spawned`); `SpawnFails` is its error path. Kill is
`KillSession`, `AnnounceKill`, `ForgetKill`, which hold the map lock throughout
(`LockFree`). The broadcaster is `NoticeExit`, `AnnounceExit`, `ForgetExit`,
`UnregisterExited`, `CleanUpExited`, in the order of the code.
`RunSidecarTask` is one spawned task under the file lock, any of those queued.

`tooSoon` is a history variable. It marks a session for which a clean-up step
came ahead of the spawn's own step: an announcement before `session_spawned`,
or the sidecar's remove before its add. For those the code does leave things
behind (the run `ghost_bus` shows one case); the invariants about the end of a
session speak of all others, and the condition is exact: a step marks only in
the state in which the order is already lost.

Abstractions: all sessions ask for the same base name, the case in which names
can collide. `worktree` is the set of directories on disk: `remove_worktree`
falls back to deleting the directory when git refuses, so the directory always
goes; what git keeps registered is not state here. Event-log files, the relay
of bus events to D-Bus and failing sidecar writes are left out.

### AttachProtocol

One handler per connection: `pc` names the lock acquisition an attach comes to
next, `attached` and `forwarder` are the handler's own variables, `count` is
the wrapping `attached_count`. `Faults` adds what a client may do to it: a
`Detach` for a session it is not attached to, and a writer task that dies.
`stray` marks sessions whose count was given back without being held, or whose
hold was dropped; the code does both, see below. A forwarder abort is taken as
immediate. The real one may let the message it is about to pass on through.

### ScreenStream

A screen is its parts: the rows and a header, the cursor with the terminal's mode
and the size. What a part shows is the number of the change that wrote it.
`ProcessOutput` and `MarkDirty` are the
byte processor, `Tick`, `Collect`, `Redraw`, `Send` the broadcaster's loop
body, cut where it takes and releases the terminal lock. A redraw is read in two
halves, as in the code: `Collect` reads its header and resets the damage, `Redraw`
reads the rows under a later lock, to the size read before, so that after a resize
in between rows may come out `Cut` and go out under the old header. `TakeSnapshot`
and `Subscribe` are an attach, `Forward` and `Resync` the forwarder. A snapshot
reads its rows after its header too, but under one session lock, where only output
can come between; for each part by itself that is output before or after the
snapshot, and one step. The terminal
library counts the cursor's row as damaged in any case and starts fully
damaged; both are modelled. The path from the forwarder to the client keeps its
order, so a client shows what was last sent to it. `missed`, `unsignalled` and
`outdated` record exactly the parts the code loses track of: those that were sent
to others, or let pass with nobody listening, while a client had its snapshot and
no subscription, and that its snapshot does not have as they are (`Misses`); those
damaged with nobody listening; and those sent in an older form than the screen has
while no flag announces the newer one, after an attach's own resize, the header of a
redraw included.

### SemanticBus

Each operation of the bus changes the map of states under its lock and emits
its event after releasing it. `pending` holds, per task, the event between the
two, and `Emit` sends it. The tasks are `Publish` (the spawn), the notification
relay, `EndSession` and `ForgetSession` (kill or exit path; the race of the two
is `SessionRegistry`'s), and the state-file watcher, whose `watcher` record
holds its step and local variables. `StartSession` is the insertion into the
map: from then on the relay runs and the session may end, though the bus does
not know it. A subscriber registers, takes snapshots, then forwards or resyncs,
and shows what `SessionAggregator` would (`Shown`).

A state is its owner, its activity and its current tool, a file an activity and a
tool or none. A notification for a session that is not
alive changes an activity nobody shows: it stays `gone` here, so the model may
repeat such an event where the code emits it once. An import takes the lock up to
three times and emits after each (`Import`, then `ImportTool` after a changed
activity or `ImportInitialActivity` after a new session). A started tool is an
event that a subscriber takes for the activity `toolRunning`, so that is how it is
modelled; a completed one changes no activity anybody shows. `overstated` records
the sessions whose last event from the watcher was the start of a tool while the
file says another activity. `outrun` records the
sessions of which the code lets a birth and an end cross: one emitted while the
other is under way, or a state that `session_removed` drops alive. `lost`
records the subscribers that lagged: a resync takes nothing back, so they may
keep showing a session that has ended.

### DaemonLifecycle

A process is a number in the order of the starts, `stage` is how far it is
through `run_daemon`. The flock is held from the start to the end of the
process, so it is a function of `stage` (`HoldsLock`). Files hold the number of
the process that made them. `FindRefused` and `DeleteRefused` are the client's
(and `try_connect_or_cleanup`'s) test and deletion; `SignalAll` and
`DeleteArtifacts` are the restart command, which waits 500 ms in between, any
time here. `Crash` may come at every step. `cutOff` and `unlisted` record whose
files somebody else deleted: the code allows it, so `FilesAreOwn` speaks of all
others. Reading the saved sessions and reporting them is one step, deleting the
file another. A save is a rename, so a crash leaves the old file or the new one;
the branch for a file that cannot be read (`persist.rs:116-120`), which no daemon
writes, is left out.

### DaemonClient

A request is its number, its kind what the caller accepts as success. `asked`
and `answers` are the connection's two directions. `Handle` is the daemon,
which answers in order. The client waits for the next response, whichever it
is; `expired` counts the timeouts of the connection and `doubtful` the requests
made after one. With a timeout `DoneIsDone` does fail, and `AnswersAreShifted`
says exactly how.

### PreviewPane

The page sends `orders` to the subscriber's thread; `requests` and `stream` are
the connection. The subscriber takes the next response for the reply to its
attach, whatever it is, so it may believe it has no session (`current`) while
the daemon streams one, until the next selection. A screen is the set of
updates it shows. `overtaken` records the last update that an aborted forwarder
may let through.

### MessageLog, SystemRoute

`files` is every file the log has been, in the order of their creation; a
writer keeps writing to the one it opened. A crash loses what is buffered.
`SystemRoute` is a separate module because the limiter is a static of the
process and shares no state with the log; `executed` is what reached the
commander.

### StateInference, StatePoller

`ReadMarks` and `FeedBytes` are the two halves of a chunk. A chunk has at most
two marks, enough for one to hide the other: the tracker applies both, and the
inference looks once, at what they leave. `InferAndWrite` is shared by both
halves as in the code. In `StatePoller` a state is named by the order of its
writing, and the steps of `poll` are separate as far as other programs and
hooks may come in between: the drain, each file read, each file pruned.
`mourned` is a live state lost to a prune that had been told of it.

### NotifyStack, LockScreen

The render loop's three steps (drain, tick, draw) interleave with D-Bus
handlers; drawing may fail at any frame, and `clearLost` records the one
failure that nothing repeats. That a lost or outdated surface is never configured
again is not modelled: the textured frame that fairness asks for is then
optimistic. `Retained` is `Vec::retain`, written as a recursive
function because a theorem about it needs an induction, which the community
modules' `SelectSeq` would hide in a recursive operator. In the locker events come in batches with the
loop's tail after each: `stirred` says that a tail is due. PAM blocks, so a
verification is one step. The tail draws any part of the GPU surfaces (`drawn`):
a frame whose texture cannot be had is left as it is. `wiped` records characters
that the end of a failure animation took.

### VoiceCapture, Announcer

Audio is the number of the utterance it belongs to, a chunk the verdict of one
or two windows. `orphans` marks utterances left in a streaming transcriber that
the code does not close. The indicator file has other writers. A dispatched
transcript is a task beside the loop (`dispatching`), which writes it when it turns
to Claude and when that ends (`FallbackBegins`, `FallbackEnds`), and the dispatcher
writes it when it cannot reach the announcer (`SpeechLeftInFile`), in words that
read as muted. All share one temporary file, so two writes at once may tear it
(`torn`), and any write may fail. `voiceWriter` records whose last write the file
holds, and that that writer's next one failed. Tasks that the end of the process
kills still count as asking. The announcer's loop has one await that matters,
speech generation (`generating`), during which control connections run; the
player thread's steps (spawn, register, poll) interleave with all of it. They
share the indicator file through `VoiceFile`, and run together in `MCDesktop`;
there no other writer is under way and no write fails, while the announcer's
proofs let the file change in any way. Errors of the player are left out.
`gap` marks the one order of events in which a late replay is possible.

### Dispatcher

One task per command. Writing the HUD state is three steps (open, write,
rename), with `handle` saying which file an open handle writes to after a
rename by another task: the file may be torn, and a rename may find nothing. Each
of the three may fail, which is logged and ends the write (`GivesUp`); a write that
fails may have got somewhere. `unsaid` records that the end of a command could not
be written and that of no command has been since.
The rounds of tool calls of one command end in one of `Answer` and
`ModelFails`.

## Runs

| Run | Instance | Shows |
|---|---|---|
| `registry` | 2 clients, 2 ids, worktrees asked for or not, 341,733 states with symmetry | every interleaving of two requests, two broadcasters and all sidecar tasks: types, complete and announced ends, live sessions known, refinement of `SessionTable` (so no id comes twice) |
| `services` | each part of `MCServices` by itself: 3 daemon processes and 1 client; 4 requests on 2 connections; 2 sessions, 2 selections and 2 updates each; 2 TUIs, 5 messages, ring and flush of 2, rotation at 3 lines; limit 3 in a window of 2; 1 tool; 2 pollers, 1 file, 3 states; 1 registry client, fair. 305,016 states | one invariant or two of each part, below; display names are unique when requests come one at a time; an exit is noticed and its clean-up ends |
| `desktop` | each program of `MCDesktop` by itself, the announcer also with push-to-talk: 3 notifications; 2 outputs, 2 characters, 4 failures; 3 utterances, 2 dispatches; 3 speakers and texts; 3 commands, 1 remembered turn. 1.48 million states | limits, buffers and typing of the lock, one voice in order, true indicator and transcripts, the HUD and the conversation, and under fairness the newest notification |
| `attach` | 2 connections, 2 sessions, both faults, counter modulo 4 | the count is the number of holders, one recorded forwarder per connection, no stolen size |
| `stream` | 2 clients, 2 rows, cursor and size, 3 changes, channel of 1, fair, 1.80 million states | screens agree when all is quiet, no lost wakeup, screens settle |
| `bus` | 1 daemon session with a state file, 1 tool, 1 subscriber, channel of 2, 3.57 million states | a quiet subscriber shows the session exactly when it is alive, but for crossed events and, for ends, a lag |
| `bus_files` | 1 session of a state file with any activity and any of 2 tools, 1 subscriber, channel of 2, 73,472 states, fair | the watcher's sessions are mirrored in spite of lost and replayed events, but for a tool named in another activity; one that stays is learnt of |
| `kill_no_sighup` | as `registry`, fair | violated: the child of a killed session is not hung up |
| `ghost_bus` | as `registry` | violated: an ended session may stay alive on the bus for good |
| `attach_count` | as `attach`, no faults | violated: a failed re-attach lets the count wrap |
| `bus_owned` | as `bus`, channel of 1 | violated: the watcher imports or removes a session the daemon owns |
| `stream_current` | as `stream` | violated: rows changed between snapshot and subscription stay stale |

Bounds. Two clients give every pairwise race (spawn against spawn, spawn
against kill, kill against exit through the broadcaster); the map lock excludes
a third party from the kill, and the proofs cover any number. Two ids let one
session live while another dies. A counter modulo 4 is above the number of
connections, so a wrap is visible as in the 64-bit counter. Two rows tell a
partial update from a full one, and a chunk that moves the cursor from one that does
not; three changes leave room for output, a resize between the two halves of a
redraw and an older update after a newer snapshot; a channel of one lags after two
sends. Subscribers do not affect each other
or the bus, so one is enough there, and sessions meet only in the watcher's loop
and the channel, where the events of another session do no more than push out
one's own: the interleavings of one session's tasks and of its imports are checked
with one session and a channel of two that lags by itself, and the proofs cover any
number. Two tools let a file change its tool without completing it.
Three daemon processes let one overlap the shutdown of a second whose
predecessor left its files; two connections and four requests reach a timeout, a
shifted answer and a reconnect; two selections on two sessions reach the reply
taken for another; five messages cross a flush, a rotation and a restart; a
limit of three in a window of two with six ticks has entries enter, reach the
edge and leave; three states of one file under two pollers reach a file pruned
by one, written again and deleted while the other reads. Three failed attempts
are the limit and a fourth comes after a lock-out; three commands let two share
the temporary file while a third begins or ends. Two dispatched transcripts
let one fall back on Claude while another does or the loop records; they come from
the listening daemon only, since push-to-talk runs with the announcer there, and
the proof covers both. The HUD's file and the conversation share nothing but the
tasks, so each is run with the other at rest: `hud` with the clock standing,
`dispatcher` with a file that cannot be opened.

`services` and `desktop` put several independent parts into one run: `running`
picks the part of a behaviour and the others rest, so the states add up and do
not multiply, and an invariant about a part says what it would in a run of its
own. Deadlock is checked in all other passing runs: a registry that has handed
out all ids can still refuse a kill, and a stream can always be left and
attached to again. In these two it is not: a daemon that has stopped, a lock
screen that has unlocked, a client without requests left are where their
programs end.

Fairness. Every task the daemon spawned runs on (`tokio` schedules ready
tasks), so the steps of requests, broadcasters, sidecar tasks and forwarders
are weakly fair, and an event taken under the bus's lock is emitted. Weak fairness is enough for the
map lock, because an id is killed at most once and a bounded number of requests
hold it. Clients, children and the terminal's output promise nothing and have no fairness. In `services` the
registry's fairness asks nothing of the other parts, where its actions are never
enabled. In `desktop` only the notification daemon's render loop is fair
(`DesktopFairness`): it runs at 60 Hz, its timers run out, and a frame gets its
texture again and again while one is due, and only in its own behaviours.

## Divergences

The five violation runs are disagreements between the code and its own
documents, with the quoted lines in `PROJECT.json` under `findings`:

1. KillSession promises a SIGHUP to the child. It drops the map's reference
   only; the broadcaster keeps the session alive until the child ends.
2. The bus is called the single source of truth, and a session that ends while
   its spawn is still running stays alive on it.
3. `attached_count` is called the number of attached clients, and an attach
   that fails after the old one was given back lets it wrap.
4. The snapshot of an attach is said to be current with updates resuming after
   it, and updates sent before the subscription are lost to the client; one read
   before an attach's own resize and sent after its subscription puts rows back, and
   a redraw cut by that resize the old size and cursor, with cut rows.
5. The watcher is to skip, and not to remove, what the daemon owns; it asks and
   acts under different locks, and a session published in between is
   overwritten or removed.

Three more are modelled and excused in the property they touch, so that its run
checks everything else, and have no run of their own:

- The hook for a completed tool leaves its name in the file beside the status
  `processing` (`deploy/claude/hooks/state-tracker.sh:103-106`). When a poll has
  missed the tool's start, the import takes it for one: an event of a started tool
  follows the activity's, or comes alone. Subscribers end up with `toolRunning`, the bus
  with the file's activity, though `semantic_state.rs:521-524` says that they
  receive the same event stream as for the daemon's own sessions (`overstated`).
- The lock's struct says that the fallback buffers are "kept alive until wgpu takes
  over rendering" (`crates/thermal-lock/src/main.rs:763`). They are released when
  the last output has its GPU surface (1255-1260), whether or not it has drawn
  there; an output whose first frame fails (447-458) then shows a buffer that is
  gone and has asked for no callback. `FallbackIsKept` speaks of the buffers until
  that release.
- A task that turns to Claude writes `muted` over `listening` while the loop
  records, as does the dispatcher's speech, and the announcer is not suppressed
  until the loop writes again; a level write puts the loop's state over the task's
  `processing` (`voiceWriter`). Failed writes are logged and dropped.

Known and modelled, but contradicting no statement of the repository: two
concurrent spawns may take one display name (so `NamesUnique` is checked with
one client), a failed spawn leaves its worktree, a sidecar remove may overtake
its add, the last output of a child is not broadcast. On the bus: the events of
two tasks may be emitted in the other order, `CommandStarted` changes the
activity without an event (so only the watcher's sessions are `Mirrored`), a
resync does not withdraw what has ended, and the state file of a killed session
whose child runs on is imported again as an external session.

In the other parts:

- Lifecycle: the restart command waits 500 ms after its signal and then deletes
  the socket and the pidfile, whoever's they are by then; an old daemon may
  still hold the flock, and the new one then exits. A refused client's late
  deletion can cut a new daemon off. SIGTERM before the handlers are installed
  leaves the files behind.
- Client: after one timeout every later answer of the connection is taken for
  the wrong request; `detach`, `send_input` and `resize` accept any response but
  an error, the handshake too.
- Preview: a selection while the previous session streams may take one of its
  updates for the reply to the attach; the pane then stays as it is until the
  next selection. The exit of the old session resets the new one's buffer.
- Messages: after a rotation and a restart the numbers start again, in a new
  file; two TUIs that share the log give out the same numbers, and one's
  rotation renames the other's file. Blocked commands use up the rate limit.
- Inference: of the marks in one chunk only the last block is seen, so a command
  may start or finish unnoticed; a throttled write waits for the next output, a
  failed one is lost.
- Pollers: a prune deletes whatever the file holds by then; a live state written
  after the pruning poll took its events is lost until the next hook. A file
  whose state is dead leaves the older cached one.
- Notifications: `replaces_id` replaces nothing, a close reaches queued cards
  only, a card without a timeout cannot be dismissed by one.
- Lock: a key that meets an expired lock-out leaves the counter above its limit,
  so the next failure locks out at once; the end of the failure animation takes
  what was typed since.
- Screen: a full damage's redraw mixes the header of one moment with the rows of a
  later one; whatever changed in between but an attach's own resize is announced
  and comes with a later tick.
- Voice: a streaming transcriber stays open when push-to-talk takes over, and
  its audio joins the next utterance; a replay that voice input interrupts may
  come late.
- Dispatcher: two commands at once may tear the HUD file or fail a rename; the end
  of a command that cannot be written leaves "thinking" behind (`unsaid`); the
  two minutes of the conversation count from the start of the last command, so a
  command that takes longer has its own turn cleared by the next.

## Proofs

`SessionRegistryProofs`, from the assumptions that `MaxId` is a natural number
and `WorktreeMade` a set of Booleans, for any set of clients:

- `TypeCorrect`, `FreshIds`: `IInv == TypeOK /\ IdsAreFresh` is inductive.
  Types alone are not: a request under way must hold a real id, and an
  insertion must find its id unused.
- `Implementation`: under `IInv` an insertion is `Register`, a removal from the
  map is `Retire` or changes nothing, and all other steps stutter.
- `NamesStayUnique`: a name is chosen under the lock, but the session enters the
  map later, so `NamesUnique` is no invariant of two clients. It is one as long
  as no two spawns are between the two steps (`NamedAlone`, a condition on the
  behaviour and not on the number of clients); `NamesDistinct` adds that the name
  under way is not in use. `OneClientNames` is the case of one client, which the
  run `services` checks.

`SessionEndProofs` strengthens it with `EndInv`, six named parts, one lemma
each, with one step per action:

- `WorktreeGoes`, `SidecarGoes`, `BusGoes` say of each resource who is still
  due to remove it at every point of the two clean-up paths;
- `PublishComesFirst` says that a spawn still to publish is not overtaken by an
  announcement, unless the session is marked. Without it a publication could
  revive a state the bus has forgotten;
- `KillsEnded` says that both paths work on a session that has left the map;
- `LiveStays` says what subscribers and `sessions.json` know before the end.

From these, `NothingIsLeft`, `EndIsHeard` and `LiveSessionsAreKnown` follow for
settled sessions.

`AttachProofs`, from a finite set of connections, a value `None` that is neither
connection nor session, and a modulus above the number of connections (2^64 in
the code):

- `HInv`: types, one forwarder per connection, recorded while it runs, and no
  forwarder during an attach. It is inductive by itself, and `AttachTypes` and
  `OneForwarder` follow.
- `CountsRight` adds to `CountIsHolders` that an id nobody has spawned has no
  count and no holders, for an id becomes live with what it had before. Every
  step adds one connection to the holders of one session, takes one away, or
  leaves them alone (`Gain`, `Loss`, `GiveBackRight`), and neither direction
  wraps because the holders are fewer than the modulus. `CountCorrect` and
  `SizeCorrect` follow.

`ServiceProofs`, `StatePoller`, for any pollers and files: `PollInv` says of every file
where a running poller's knowledge of it waits. A live state that the cache does
not have is in the channel or still to be read (`WritesAreTold`); a cached file
that is gone has its deletion in the channel (`DeletionsAreTold`); and a file
that came back after a deletion has its writing there too (`ReturnsAreTold`),
which is why deletions may all be applied first. `CachesCorrect` and
`PruneCorrect` follow.

`ServiceProofs`, `DaemonLifecycle`, for any number of processes and clients: `OneHolder` (the
flock) makes every file the lock holder's from the step that makes it to the
step that deletes it, and puts reading, deleting and writing the state file in
order. `FilesOwned` and `SavedSessionsReported` follow.

`ClientProofs`, `DaemonClient`, for any number of requests and connections: `InOrder` numbers
what is on the way without a gap from the first request not yet answered. The
timeouts count as answered, which is `AnswersShift`; with truthful answers and
the doubt after a timeout, `ReportsAreTrue`.

`DesktopProofs`, `LockScreen`, for any outputs, characters and attempts: the attempts since the
last lock-out are at most the counter, and none while a lock-out is set
(`AttemptsAreCounted`), so `LimitHolds` in spite of the counter a key press
leaves behind; `TypingKept` and `BuffersKept` have invariants of their own, the
latter that every output is pending or on the GPU, so that as long as one is
pending the buffers of all are kept, whichever frames were drawn.

`ScreenStreamProofs`, for any clients, rows, versions and capacity.
`NoWakeupLost` (`DamageIsSignalled`) rests on `SignalKept`, which extends the
property to the ticks under way. `QuietClientsAgree` (`QuietScreensAgree`) needs
`StreamInv`: a client may have updates queued that are older than its view, so
nothing can be said of the view while they are; but the last queued update of a
part carries the screen's version or the broadcaster still owes the part
(`QueueSettles`), and where nothing is queued the view does, unless the part is one
of those the code loses (`Excused`) or the client is about to be resynchronised
(`ViewSettles`). What the broadcaster has read, of a redraw perhaps the header
only, is the screen's or damaged again (`UpdateIsFresh`): that is what makes a
redraw in two halves harmless but for the resize that announces nothing.

`SemanticBusProofs`, from disjoint sets of daemon sessions and sessions of state
files, for any number of both, of subscribers and of places in the channel:

- `LiveSessionsShown`, `GoneSessionsHidden`: the quiet-state properties say
  nothing while events are on their way, so `BusInv` says what is. As long as the
  births and ends of a session come out in order, only the true one is still to
  be emitted (`OnlyTruthPending`); a subscriber that can be expected to know it
  (`Told`) has it as the last turn in its queue, or has a right view and no turn
  queued, or is about to be resynchronised (`QueueTells`). The replay of older
  events after a snapshot is harmless because the last one is right. This needs
  the watcher's local variables (`WatcherKeeps`: what it carries was found alive
  in a file) and the tasks' (`TasksKeep`, `OwnersAgree`). `BusTyped` comes with it.
- `ExternalSessionsMirrored`: `MirrorInv` is the same for activities instead of
  births and ends. The watcher emits two events for a new session that is not
  idle, and may for a known one with a new tool, so what the pending event says is
  right, or is followed by one that will
  be (`WatcherTells`), and a queue's last event about a session brings its
  activity unless the watcher still has one to come (`QueueMirrors`). Right is
  the bus's activity, which a resync brings, or `toolRunning` for a session that is
  `overstated`.

`ClientProofs`, `PreviewPane`, for any sessions, selections and updates:
`PreviewCurrent` rests on `StreamCompletes`: the stream from some place on holds
every change of the streamed session up to the last (`Follows`), and that place
is a snapshot still to be read, or the start of the stream and the screen lacks
exactly what the stream holds. A reply taken for another request may throw an
update away, but then no session is thought to be shown until the next snapshot.

`ServiceProofs`, the other parts:

- `StatusChangesKept`, for any set of agent tools: the property is inductive with
  the types; each chunk, tick and end of the output goes through one lemma on
  `infer_and_write` (`WriteFollows`).
- `RateBounded`, from natural `RateMax` and `RateWindow`: the
  timestamps are no list of what was executed, for a command that is refused
  later leaves one too. But they are in order (`StampsInOrder`), and every command in
  the window still has one of its own, counted from the end (`StoodFor`). That
  the eviction stops at the first timestamp in the window needs the least element
  of a set of naturals (`LeastNumber`).
- `NumbersOrdered`, from positive bounds, for any TUIs: what a process has
  buffered continues the file it has open, and both are below the number given
  out last (`Chain`), as long as the log was never open twice (`LogOrdered`), for
  which one must know who has which file open (`LogHolds`).

`DesktopProofs`, the other programs:

- `OneVoiceSpeaks`, for any sessions: what runs is the clip at the head of the
  queue before it is registered, and the registered one after (`PlayerInv`), so
  the interrupt's kill and the player's poll cannot leave two.
- `SpeaksInOrder`, for any sessions and queue length: what waits is in the order of
  the events, with one entry per session, which also is why `Others` may remove
  one entry where the code's `retain` filters. And as long as nothing was announced
  between the end of voice input and the tick, all that waits, is replayed or
  is being generated is later than what was said of its session (`SpeechInv`).
- `IndicatorIsTrue`: what the loop's variables say of the file holds while the
  last write was the loop's and succeeded; the other writers and failures give that
  up, and each write of the loop brings it back, because the state it writes is
  right whatever the file held. That rests on `CaptureAgrees`: the loop's own idea of
  the state is true, also where a level write repeats it, and push-to-talk stays out
  of the detector's states. A fallback's `processing` stands for a task that is
  still asking. `WordsAreOwn`: as long as the loop runs, the buffer and an
  open transcriber hold the last utterance, or nothing between utterances, but for
  what a transcriber left open has (`OneUtterance`).
- `HudSettled`, for any commands: a file that says `thinking` or nothing is
  excused by a task that has still to write or rename over it (`FilesExcused`:
  `Underway`, `Replacing`, or filling what it has created), or by `unsaid`. A task
  that gives up on `thinking` is under way; one that gives up on an end is what
  `unsaid` records (`HudGivesUp`), and a result or error renamed into the file
  clears it. Two tasks share the temporary file, so a task may rename what another
  wrote; the invariant says of the file's content, not of the task, who is to
  replace it.
- `RecentTurnsTold`, from a positive `MaxTurns`: a completed turn that is among the
  last and young enough has its place at the end of the conversation
  (`StandsAt`); a reset takes only turns that are too old for every later command.

- `FramesAreRight`, from a natural `MaxNotification`: a frame that gets its texture
  shows the newest card alive, and clears the surface when there is none, unless a
  clear was lost. Cards and queue are in the order of their serials, every card
  before every queued one (`StackInv`), which closing, expiring and draining keep
  because a retained part of a list keeps its order (`KeptInOrder`); and the
  surface is visible while a card is to be shown (`SurfaceInv`). This is the safety
  half of `NewestIsShown`; that a frame comes is the liveness half.

The counterexamples, explained. Four of the five divergences are safety properties
that TLC finds violated. A theorem says of each under which condition on the
behaviour it does hold, so that the race named there is the only way to the
violation, and a change of the code that excludes the race would be enough:

- `GhostsAreLateSpawns` (`SessionEndProofs`): the bus forgets every ended session
  as long as each spawn publishes its session before a clean-up is done with the
  bus (`SpawnsReturnFirst`).
- `CountExact` (`AttachProofs`): `attached_count` is the number of attached clients
  as long as clients keep to the protocol and no attached connection is refused
  another session (`RecordsAreHeld`).
- `CalmClientsAreCurrent` (`ScreenStreamProofs`): an attached client is current as
  long as nothing is sent or let pass between a snapshot and its subscription,
  and no attach's own resize comes while an update is on its way, read in full or,
  between the two locks of a redraw, in half (`CalmGaps`). The
  second condition is a race that the first attempt at the proof brought to light:
  `outdated` was added for it.
- `OwnedAreSkipped` (`SemanticBusProofs`): the watcher skips what the daemon owns
  unless a publication comes between its check and its import or removal
  (`PublishesNoTarget`).

Types and compositions. `MCServices` and `MCDesktop` run parts side by side. That
an invariant of a part may be checked there is itself proved: `PartsRunAsAlone` and
`ProgramsRunAsAlone` show that the composition's specification implies each part's
own, for the announcer with voice capture as its environment. So everything proved
of a part holds of the whole (`ServicesKeep`, `DesktopKeeps`), and with one type
theorem per part so do the two type invariants (`ServicesTyped`, `DesktopTyped`).
Most of the types hold only together with more:

- client: a request that has expired and the one that is waited for are different
  requests (`WaitsOnce`), or the timeouts could outnumber the requests;
- preview: an update on its way is at least the session's first (`MadeResponse`),
  or a screen could show an update that was never made;
- `@system`: what is recent is part of the list (`RecentProperties`), so one more
  entry fits the limit;
- voice: the detector is only in speech when an utterance has begun
  (`VoiceTypesInv`), or its audio would belong to none;
- announcer: the player has a clip when it is about to register one, and the texts
  of events and of requests are numbered from one bound (`AnnouncerTypesInv`).

The constants' assumptions are stated in the modules that declare them, and
TLC evaluates them in every run that uses the module: sets and natural numbers,
positive where the code's own constants are.

Every strengthened invariant was checked by TLC on its run's instance before it
was proved.

Model-checked only: the liveness properties (`ExitIsNoticed`, `EndSettles`,
`ScreensSettle`, `LiveIsLearnt`, `NewestIsShown`). They rest on fairness, and so on
ENABLED, which the prover does not reason about. `KillHangsUpChild`, the fifth
divergence, is one of them. Every invariant and every action property that a
passing run checks is proved.

## Plan

1. `SemanticBus`: the sequence numbers (a snapshot's against the events that
   follow it, as `protocol.rs` promises), title and context.
2. `DaemonLifecycle` with the registry: ids from 1 after a restart against what
   the last daemon left in sidecar, logs and git's worktree registry.

## Not modelled

- Renderers and shell surfaces (bar, HUD, window, grid, wallpaper, screensaver,
  launcher) and the pages of the TUI other than the preview: drawing and input
  over state of the parts above. They are most of the source, which is why the
  map covers a small share of it.
- The message bridge's thread: it blocks in a receive on a current-thread
  runtime, so tasks it spawned wait until its next await and are dropped at
  exit. That is the runtime's behaviour and no state of the program.
- The event and session logs: append-only diagnostics nobody reads back.
- Agent graph, timeline and the transcript watcher: views whose results are
  drawn or logged. The transcript watcher counts lines written during a read
  twice; the counts go to the log only.
- The swarm watcher: it opens and closes windows by commands to the compositor,
  whose effects are not the program's state.
- The commander (a server without state), tools, language models, transcription
  and speech engines: external.
- Parsers of escape sequences and text heuristics: sequential, tested in place.
- Vendored code.
