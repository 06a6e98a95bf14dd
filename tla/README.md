# VoiceCode in TLA+

VoiceCode lets a group of people in a Discord voice channel talk to Claude
Code: speech is cut into turns, transcribed, sent as a prompt to a `claude`
subprocess, and the answer is spoken. This directory holds TLA+ models of its
concurrent core, the TLC configurations that check them on small instances and
proofs that TLAPS checks for every value of the constants.

Paths such as `session.py` are below `src/voicecode/`.

## 1. The system

### 1.1 Components

| Component | State it keeps | Operations | Model |
| --- | --- | --- | --- |
| **Headless bridge** (`bridge/headless.py`, `bridge/base.py`) | the lock, the live process, the session id, the one-shot approved tools, the tool last denied | `send` (an async generator), `interrupt`, `respond_to_permission`, `reset`, `close`, the stream parser | `HeadlessBridge`, `OneShotApproval` |
| **Voice session** (`discord_app/session.py`, one per guild) and the permission commands (`commands.py`) | the turn lock, the permission latch, the rate-limit breaker, the last prompt, detached tasks | `on_utterance`, `_handle_prompt`, `_run_turn`, `resolve_permission`; `/approve`, `/deny`, `/interrupt` | `VoiceSession` |
| **Model residency** (`residency.py`, `tts/kokoro_engine.py`, `asr/nemo_unified.py`, `asr/hf_tdt.py`) | leases, loaded flag, idle clock, disabled flag | `transcribe`, `synthesize`, `preload`, janitor sweep, `/models` | `Residency` |
| **Audio sink and turn buffers** (`audio/sink.py`, `audio/turn.py`) | a buffer and a last-frame time per speaker, the mute flag, the buffer lock | `write` (reader thread), `sweep` (event loop), `set_muted`, disconnect, `cleanup` | `Sink`, `TurnBuffer` |
| **Playback** (`audio/playback.py`) | the current source, its queue of PCM, the finished flag | `start`, `feed`, `finish`, `stop`; `read` on the sender thread | `Playback` |
| **Bot and connections** (`discord_app/bot.py`, the idle watch of `session.py`) | the sessions by guild, the voice clients, the configuration snapshot | join, leave, drag-in eviction, auto-join, reload sweep, idle watch, rejoin of a deaf session | `Connections` |
| **Scoping gates and configuration** (`discord_app/scoping.py`, `config.py`) | the snapshot `reload()` replaces | the twelve gates of `scoping.py:17-28`, pure functions of the snapshot | as operators in `Connections` |
| **Tmux bridge** (`bridge/tmux.py`) | the lock, the committed lines of the pane, the options of a prompt | `start`, `send` (poll and settle), `respond_to_permission`, `interrupt` | `TmuxBridge` |
| **Authentication** (`bridge/auth.py`) | none | one pass over the environment and `claude auth status` | no: nothing is kept and nothing interleaves |
| **DAVE and Opus** (`audio/dave.py`, `audio/opus_decode.py`) | native decoders and counters | decrypt, decode | no: for the sink a frame either yields audio or does not |
| **Resampling, VAD** (`audio/resample.py`, `audio/vad.py`) | a filter's and a network's numbers | one call per frame | no: numeric; scores are free in `Sink` |
| **ASR interface** (`asr/base.py`) | none | a protocol, two data classes | no |
| **Speech shaping** (`speech/sanitize.py`, `tts/sentences.py`) | the streamer's pending text | `feed`, `flush`, `split_sentences`, `sanitize_for_speech` | `SpeechText`, `SpokenReply` |
| **Mirror, logging** (`discord_app/mirror.py`, `logging_setup.py`) | none the program reads | `send`, `_chunks` | `Mirror`, `SpokenReply`; logging: no |
| **Program entry** (`__main__.py`) | none | load order, selftest, signals | the load order is in `Residency` |

### 1.2 How they interact

    Discord voice --frames--> Sink (reader thread) --utterance--> VoiceSession
                               ^  watchdog, /mute                  |  ASR worker
    slash commands ------------+------> VoiceSession (event loop) <+  (Residency)
                                          |  async for event in send()
                                          v
                              one bridge, shared by all guilds --> claude
                                          |
                                          v  sentences: TTS worker (Residency)
                                        Playback (sender thread) --> Discord voice

* The **event loop** runs every session, the slash commands, the watchdog and
  the bridge. Between two `await`s a task is alone; every `await` is a point
  where the others run, and the models break their actions there.
* **Threads**: the voice reader calls `write`, the router runs disconnect
  listeners, the audio sender calls `read`, `asyncio.to_thread` workers
  transcribe, synthesize, load and unload.
* **Shared state**: the bridge and both managed models are shared by all
  guilds; a sink's buffers by four threads; the latch of a session by its turn
  and by the slash commands.
* **Callbacks**: an utterance crosses from the reader thread to the loop
  (`call_soon_threadsafe`), where it becomes a detached task.

### 1.3 What is hard, and what makes each component correct

* **Bridge.** A turn is left before it is over (permission, rate limit,
  error), while the subprocess lives; two guilds call `send` at once; `/approve`
  arrives while another turn runs. Correct when one subprocess lives at a time,
  owned by the holder of the lock; when an approval reaches exactly one
  invocation; when `/interrupt` ends a turn and every waiter is served.
* **Session.** Three gates are asked before a lock is awaited; the latch is
  released before the bridge is asked; a retry is a task of its own. Correct
  when turns exclude each other and own the bridge, an approval always has its
  retry coming, and every utterance settles though guilds wait for each other.
* **Residency.** Leases, loads, unloads and failures race on worker threads.
  Correct when a model is never unloaded in use, a leased call finds its model,
  the idle clock runs exactly while a loaded model is unused, every call ends,
  an idle model is freed if the bot is set to unload, and kept if it is not.
* **Sink.** Frames, ticks, mutes and disconnects touch the same buffers; the
  lock is not held over decoding. Correct when every turn ends and is reported,
  the counters describe the audio, trimming spares speech, memory is bounded
  and a muted sink forgets.
* **Playback.** The sender thread reads while the loop starts, feeds and stops.
  Correct when a stopped source falls silent at once, a new one gets its player,
  no source is left open, and playback ends though the synthesis hang.
* **Connections.** Join, leave, drag, reload and the idle watch overlap at
  every `await`. Correct when the stored session is the one whose client is
  connected, a guild or channel outside the configuration is left, and a
  session's tasks end with it.
* **Tmux bridge.** The pane is redrawn and may fail to be captured, its last line
  is held back, lines are committed after they are yielded, and a consumer may
  leave in between. Correct when batches join up, nothing is committed unread and
  every prompt is over some time.
* **Speech and mirror.** Deltas do not align with sentences, texts are cut at
  limits, and a turn has five ways out. Correct when no word is lost or doubled,
  sentences stay apart, limits are kept and the channel gets everything.

`PROJECT.json` lists each hazard with its line and the property that covers it,
or the reason why none does yet.

## 2. The modules

    OneShotApproval  <=implements=  HeadlessBridge  <=INSTANCE=  VoiceSession
    Residency
    TurnBuffer  <=EXTENDS=  Sink
    Connections
    Playback
    TmuxBridge
    SpeechText  <=EXTENDS=  Mirror  <=EXTENDS=  SpokenReply  =implements=>  Relay

Each `MC*` module extends one of them and adds bounds for TLC; each `*Proofs`
module extends one and holds its theorems.

### 2.1 `OneShotApproval`: what the bridge promises about approvals

`asked` is the denied tool nobody has answered for, `granted` the approvals
that wait for an invocation, `running` what the current invocation may do.
`Ask`, `Approve`, `Deny`, `Invoke`, `Finish`: an approval is handed to one
invocation and then gone, and only what was asked for can be approved.

### 2.2 `HeadlessBridge`: the bridge itself

Callers compete for `_lock`; `phase` says where each stands in `send`:

| Action | Code |
| --- | --- |
| `Send`, `Wake` | `async with self._lock`, then `_build_argv`, which takes and clears the approvals |
| `Spawn`, `SpawnFails` | `create_subprocess_exec` and its `FileNotFoundError`/`OSError` |
| `ReadLine`, `ReadEof` | a line of stdout through `_parse_line`, or the end of it; a line can hold several blocks and so several events |
| `Advance` | the consumer takes the next event |
| `Close` | the consumer leaves the loop: the generator is closed at its `yield` |
| `Reap` | the `finally`: wait for the exit, clear `_process`, release the lock |
| `Interrupt`, `RespondApprove`, `RespondDeny` | the slash commands, at any moment |
| `Exit` | the external `claude` ends |

The lock is a queue as asyncio's is: `release` wakes the first waiter, which
takes it only when it runs. A caller that comes in between finds the lock free
and is still put behind a waiter, as `Lock.acquire` does. `Lines` is the set of
lines the parser distinguishes, with the events each yields; text and raw
messages are one kind.

### 2.3 `VoiceSession`: sessions over the shared bridge

A set of guilds, each with utterances, retries and commands; the variables of
the bridge are part of the state and its actions are used through
`Bridge == INSTANCE HeadlessBridge`. `OnUtterance` covers transcription,
`DropUtterance` the ways an utterance ends without a turn, `HandlePrompt` the
gates (latch, breaker, `locked()`) and the acquisition in the one step the code
takes without an `await`. `OnEvent` is the body of `async for`; leaving it
suspends the generator, which is closed afterwards (`LeaveStream`,
`StreamClosed`), and only then is the turn lock given back (`EndTurn`).
`ResolveApprove`, `ResolveDeny`, `ApproveRaises`, `ResolveNothing` are
`resolve_permission` with each outcome of the bridge; `RetryAfterApproval` is
the detached task. `created` holds the tasks the loop has not started yet: the
model lets others overtake them for longer than one round of the loop, more
than asyncio does.

### 2.4 `Residency`: leases on a model

One managed model and the engine beneath it, either engine, chosen at
the start. A worker's call goes through lease, lock, load, warmup, use, release,
with the lock's critical sections as steps; loads fail, warmups run out of
memory, unloads raise. Speech can be disabled by one worker while others hold
leases.

`idleUnload` says whether `MODEL_IDLE_UNLOAD_MINUTES` is positive. With 0, the
default, the models are loaded at startup (`StartEager`) and the janitor never
asks for them; otherwise the first call loads them (`StartLazy`) and the janitor
polls (`Poll`), takes the model lock in a later step and unloads or not (`Unload`,
`Spare`). `Reload` changes the setting at any time, also while a poll that read the
old one waits for the lock. `/models unload:true` (`Unload(Command)`) needs no
timeout. Time is what the idle test sees of it (`TimePasses`): a model is idle for
the configured minutes or not; a change from one positive number to another only
moves that moment and is not a step.

### 2.5 `TurnBuffer` and `Sink`: from frames to utterances

`TurnBuffer` is `audio/turn.py` as pure functions on a record: `Push` of one
scored window, `Stall`, `Finish`, the pre-roll, the trim and the counters.
`Sink` is the concurrent object around them: a frame passes the mute gate
(`Write`), decodes, stamps the time (`Decoded`), takes the lock (`Lock`) and
pushes a window; the watchdog's tick (`Sweep`) ends stalled turns and reclaims
idle buffers, and does nothing when the lock is taken; `Mute` sets the flag and
resets the buffers in a later step, once it has the lock; disconnect and
`cleanup` come from their own threads. `events` holds what the last step
reported, so that the properties can relate a vanished turn to its verdict.

### 2.6 `Connections`: who is in which channel

One guild: the stored session, the client discord.py has registered, where it
is, and the policy the configuration allows. A session and the voice client
made for it share a name. Joins are tasks with two waits: for the client of the
session they replace (`JoinChannel`, `Resume`) and for their own (`Connect`,
`Joined`, `ConnectFails`). A session's own rejoin is one more such task, named
after the session.

| Action | Code |
| --- | --- |
| `Join`, `Leave` | `/join` and auto-join; `/leave` and the departure of the last listener |
| `Arrive`, `Drag`, `Kick` | the bot's own voice state, `_handle_own_voice_state` |
| `Reload` | the new snapshot and its sweep; from any guild, so it needs no permission of this one |
| `IdleLeave`, `Notice`, `ScheduleRejoin` | `_idle_watch_loop` and `_recover_if_deaf`, broken at the notice they await |
| `RejoinLeaves`, `RejoinJoins` | `_rejoin`, broken at `leave_guild_voice` |
| `TurnBegins`, `TurnEnds`, `GoQuiet` | what the idle watch sees of a session |
| `Drop`, `Reconnected`, `GoDeaf`, `Closed` | discord.py and its receive extension: external |

The gates are `OccupiableUnder` (4, 5, 9), `Refused` (5, behind gate 1) and
`Evicted` (12). Gate 1 is why `Refused` is false for a guild that is no longer
allowed at all.

An idle leave that ends the watch's own session cancels the task it runs in.
The library completes the disconnect all the same, which is what the model
does; the notice after it is lost.

### 2.7 `Playback`: sources, tasks and players

One session's `PlaybackController`. The tasks are those of the event loop that
speak or silence: a turn, reminders and notices, barge-ins. The loop runs one at
a time between two awaits, so while a task is in a step of `Busy` the others
wait (`LoopFree`); but the **player** of each source, a thread of discord.py,
gets between any two of those steps.

| Action | Code |
| --- | --- |
| `TurnBegins`, `LeaveLoop`, `Finally` | the turn lock, the end of the stream, the `finally` of `_run_turn` |
| `Sentence`, `Notice` | `_speak_sentence` and `_speak` up to the await of the synthesis; only the second asks gate 11 here |
| `NothingSpoken`, `Speak` | after it: failure, or a new source (gate 11 for a sentence), or the turn's own |
| `Taking`, `Dropping` | the two halves of `stop()`: cancel the source, then drain it and drop the player |
| `BargeIn`, `Silenced` | `/stop`, `/interrupt` and the start of speech |
| `Restart`, `Start` | `start()`: its `stop()`, then the new source and `play()` |
| `Feed`, `NoticeEnds` | `feed()`, `finish()` |
| `Reads`, `PlayFrame`, `FindsEmpty`, `EndsOrWaits` | `read()`, step by step: cancelled?, a frame?, done or too slow? |
| `Breaks`, `CleanUp` | the player leaves its loop; `cleanup()` |

A source nobody has any more is used again for the next. The two halves of
`stop()` are apart because the sender thread can play what is still queued in
between; `late` counts what is heard so.

### 2.8 `TmuxBridge`: prompts typed into a terminal

`send` keeps its lock to the end, so the place of the generator is one variable,
`phase`. A line of the pane is one of the kinds the classifier tells apart, and
`Events` is `_classify`: an event is named by the place of its first line in the
batch, which is enough to know what is still due when a consumer leaves.

| Action | Code |
| --- | --- |
| `Attach` | `start()`: the baseline |
| `Send`, `Wake`, `Begin` | `async with self._lock`, the options cleared |
| `TypeText`, `TypeEnter` | the two `send-keys`; the first may fail |
| `Poll` | one iteration: capture, the last line held back, classify, yield or commit, the tests for idle and overdue (`AfterIteration`) |
| `Resume`, `Leave` | the consumer takes the next event, or returns at a permission or limit event, which closes the generator at its `yield` |
| `Settle` | the capture behind the loop |
| `EndTurn` | `DONE` or `ERROR` was taken |
| `Respond`, `Responded` | `/approve` and `/deny`, without the lock: the option is chosen, the key is pressed, the options are cleared |
| `Draw`, `Erase` | claude's terminal: external |

Time is what the two tests at the end of an iteration say of it: `AfterIteration`
allows an end whenever there was output and the pane stands still, or on account
of the turn's age.

### 2.9 `SpeechText`, `Mirror`, `SpokenReply`, `Relay`: what becomes of Claude's words

`SpeechText` is `split_sentences`, the streamer's `feed` and `flush`, and
`sanitize_for_speech`, as operators on texts, and `Mirror` is `_chunks`. A text is
a sequence of tokens, each of length 1: words with a capital and without,
abbreviations, numbers, full stops, blanks, newlines, fences and the marks that
make a line noise. These are what the regular expressions look at.

`SpokenReply` is one turn: `Prose` and `Raw` events, the end of the stream
(`Done`) or one of the returns out of the loop (`Returns`), a sentence at a time
(`Speak`), then the mirror's messages (`Mirror`, `Post`, `PostFails`) and the
notice that the reply was capped (`Note`). Whether a sentence is heard and a
message is accepted is a choice. `Kept` is the filter of the code's list
comprehensions; `Parts` and `Chunked` are recursive functions, so that one can
reason about them.

`Relay` is what a turn promises about words: they come (`Give`), they go on in
their order (`Pass`), and the turn is through only when all of them went on
(`Finish`), unless it breaks (`Break`). `SpokenReply` implements it twice, with
the prose as what is given and the sentences handed to `_speak` as what goes on
(`Streamed`), and with the whole output and the channel (`Mirrored`).
`WordsAreRelayed` says both.

Operators marked `Fault` are slips that could be made in
that code. They are used by no specification; they are what each property is
tried against, to know that it can fail.

## 3. The runs

| Run | Instance | What it shows |
| --- | --- | --- |
| `bridge` | 3 callers, 2 tools, 2 blocks a line, 2 lines; 61,900 states | one subprocess at a time, approvals one-shot (refinement of `OneShotApproval`), SIGINT ends its turn, waiters are served |
| `guilds` | 2 guilds with an utterance each, 1 retry, 2 commands; 155,288 states | turns exclude each other, an approval has its retry, utterances settle and approvals expire |
| `residency` | 3 workers, either engine, timeout on or off; 8,089 states | leased calls find their model, calls drain, memory is freed when the bot is set to unload, and kept with a timeout of 0 |
| `sink` | 2 speakers, pre-roll 2, endpoint 3, floor 2, cut 5, tail 1 windows; 88,086 states | trim, bounds, mute, verdicts, turns end |
| `connections` | 2 channels, 2 sessions, 1 task; 138,027 states | client, watch and session agree, gates evict, deaf sessions are replaced, joins end |
| `playback` | 2 sources, 2 tasks, queue of 2, stall limit 1; 311,152 states | a barge-in silences, no source is left open, sources start, playback ends |
| `tmux` | 2 callers, lines that ask, are an option, are a limit, pane of 3; 435,520 states | batches join up, nothing is committed unread, prompts are over some time |
| `speech` | 6 texts, 3 events, limits of 8, 5 and 7 tokens; 170,646 states | no word is lost, sentences stay apart, limits are kept, voice and channel get the words in order and in the end all of them (refinement of `Relay`) |
| `retry`, `short_noise`, `idle_leave`, `unmirrored` | the same modules, small | a disagreement each, section 8 |

Why the bounds are enough to be of use:

* `bridge`: three callers make a holder, a waiter and one that comes between a
  release and the waiter's wake-up, which is where asyncio's lock is subtle. Two
  tools and two blocks make a line with two denials; two lines, one after a
  denial.
* `guilds`: two utterances compete for the bridge from two guilds; a retry
  competes with the next utterance of its guild for the turn lock; both commands are
  given in that guild, so `/approve` and `/deny` race for its latch, while the other
  guild's prompt stays open. The same properties were also checked with a command in
  either guild (336,608 states), the safety part with one guild and two utterances
  (177,789 states up to symmetry). One line and one block per turn are enough for
  each way out of the loop, and `MaxLines` does not bound how often a task speaks:
  tasks go back to idle and begin again.
* `residency`: two workers race and a third one finds what they left; time is
  abstract, so the clock needs no bound. Deadlock is not checked because a
  failed preload of the ASR ends the program.
* `sink`: with these numbers a turn is begun with a full and with a partial
  pre-roll, ended by silence, by the cut and by the watchdog, kept and
  discarded; the trim has silence to remove and silence to keep. A window here
  is 32 ms in the code and the limits keep the order of the defaults: tail <
  floor <= pre-roll < endpoint < cut. The proofs need only the assumptions below.
* `connections`: two sessions are one that is replaced and its replacement; a
  rejoin, a command and a watch overlap. The safety part was also checked with
  three sessions and two tasks (835,560 states up to symmetry).
* `playback`: two sources are the one that plays and its replacement, two tasks
  a turn and the reminder or barge-in that comes between its steps. A queue of
  two is empty, partly drained or full; with a stall limit of 1 a stall is
  counted, reset and reached. The safety part was also checked with three
  sources (885,624 states up to symmetry) and with a stall limit of 0.
* `tmux`: two callers are a turn and one that waits for the lock. A pane of three
  lines holds a question with its option and a line held back, or limits on either
  side of prose; the line that asks is prose and the option is furniture, as in a
  drawn dialog. The pane shrinks to any length and grows again.
* `speech`: the six texts have an abbreviation inside a sentence and none at the
  end, two sentences on two lines, numbers behind full stops, a code block with a
  sentence and a paragraph in it, a noise line, and only blanks. Three of them in
  any order make every boundary between deltas, and an output beyond each limit.
  The limits let a text need one, two or more chunks, be cut in its first sentence
  or behind a whole one. Deadlock is not checked: a turn ends.

Each run's counterexample-producing slips (the `Fault` operators) are listed in
`PROJECT.json` under `mutants`, one for every property of a passing run.

## 4. Fairness

Safety needs none. The liveness properties assume what schedules the code:

* An **event-loop task** that can run does: weak fairness of each turn, command
  and retry (`VoiceSession`), of each caller (`TurnFairness`), of each join and
  rejoin (`Connections`). People owe nothing: no utterance, command, join or
  move is fair.
* **claude exits.** `InterruptEndsTurn` assumes only that a signalled process
  does (`SigintFairness`), `WaiterIsServed` and `VoiceSession` that each does.
  The code has no timeout; a turn that never ends blocks its bridge.
* **Worker threads** (`Residency`): strong fairness of each call's next step,
  because `threading.Lock` hands over in no order but does not starve one thread
  for ever. The janitor polls for ever. `IdleModelIsFreed` assumes that calls stop
  and that the timeout is positive from some time on; before that it may be
  changed as often as one likes. `KeptResident` needs no fairness.
* **The reader** goes on with the frame it has. `Lock` and `PushWindow` are
  strongly fair per speaker: a user's frames are not lost to a failing decoder
  or VAD every time. `Sweep` is strongly fair because a tick skips a lock that
  is taken, and the reader lets go of it after each window. `Stall` is weakly fair:
  time passes for a turn in progress, so the frames of a speaker pause for the
  stall time once, also those of an open microphone. `TurnsEnd` says nothing of a
  microphone whose frames never pause; that one is cut (`AudioIsBounded`).
* **The idle watch** polls every five seconds. `Notice` is strongly fair: a
  client that reconnects again and again is not found reconnecting at each poll.
  Clients settle: `Arrive`, `Reconnected` and `Closed` are weakly fair.
* **Player threads** go on, and so does the loop with what it has begun without
  an await (`Busily`): weak fairness of each (`Playback`). The synthesis owes
  nothing: `PlaybackEnds` is about one that never returns.

* **The tmux loop** goes on: weak fairness of each caller's step, the consumer's
  among them (`TmuxBridge`). Strong fairness of `IsOverdue` says that a turn does
  not stay younger than `turn_timeout_s` for ever: there are infinitely many polls
  only in infinite time. claude owes nothing, not even a standing pane.

## 5. What is proved

38 theorems, for every value of the constants, from the assumptions the modules
name: `BridgeAssumption`, `SessionAssumption`, `ResidencyAssumption`,
`BufferAssumption`, `SinkAssumption`, `ConnectionAssumption`,
`PlaybackAssumption`, `TmuxAssumption`, `TextAssumption`, `MirrorAssumption`,
`ReplyAssumption`. They say that NULL is none of the other values, that kinds of
tasks are disjoint and that limits are natural numbers; `BufferAssumption` also
that the pre-roll is shorter than the cut (320 ms against at least 1 s,
`config.py:111`), `ResidencyAssumption` that there are finitely many workers,
`TextAssumption` that a word is neither a blank nor a mark, and
`MirrorAssumption` that a chunk is not empty and no longer than a message (1988
against 2000, `mirror.py:25-27`).

* **`HeadlessBridgeProofs`.** `TypeCorrect`; `SubprocessExclusive`;
  `ImplementsOneShotApproval`. The type invariant is strengthened by
  `YieldsAnEvent`; exclusion by `IInv`, which ties the phase of a generator to
  the holder and the process; the refinement by `QueueDistinct`: a caller waits
  once, so a waiter that is woken is not also inside.
* **`VoiceSessionProofs`.** A step of a session is a step of the bridge or leaves
  it alone, by the way the modules are composed (`BridgeStep`); so the theorems of
  `HeadlessBridgeProofs` serve here as lemmas. `TypeCorrect`. `TurnExclusion` rests on the turn lock being held throughout a
  turn and the bridge being inside it. `ApprovalIsSpent` follows each change of
  the approval set (`ApprovalChange`) and of the prompts (`PromptChange`): a
  grant is made in the step that creates the retry, and the first invocation
  takes it whole.
* **`ResidencyProofs`.** `TypeCorrect`, `NeverUnloadedInUse`, `LeasedTTSHasModel`,
  `IdleClock`, `ZeroKeepsResident`. Who may stand where (`Roles`), who holds which
  lock (`Locked`), that the count is the number of calls in progress (`Leased`),
  and that flag, clock and engine agree while the lock is free (`Agree`).
  `KeptResident` has a premise about the whole behaviour, so its invariant
  (`Resident`) is inductive under that premise only: the janitor is at rest, and a
  preload leaves a model or a disabled engine behind.
* **`SinkProofs`.** `TypeCorrect`, `CountersCorrect`, `SpeechIsKept`,
  `AudioBounded`, `BuffersTimed`, `MuteIsHonest`, `TurnsAreReported`. Lemmas on
  `TurnBuffer` say that each of its functions keeps a buffer `Sound`; `IInv` adds
  that a frame about to be pushed has its buffer and that a muted sink is empty
  but for that frame.
* **`ConnectionsProofs`.** `TypeCorrect`, `SessionHasTheClient`,
  `SessionIsWatched`, `WatchesEnd`, and the action properties `OrphansReconnect`
  and `MovesEvict`. The invariants of the run are not inductive alone: tasks and
  watches must remember something sensible across their waits
  (`JoinersRemember`, `WatchesRemember`), a rejoin comes after its watch
  (`RejoinIsLast`), a stored session has joined (`StoredHasJoined`), and one task
  at most awaits a client it replaces, with nothing stored meanwhile
  (`ClosingIsRegistered`).
* **`PlaybackProofs`.** `TypeCorrect`, `BargeInIsPrompt`, `SourcesAreFinished` and
  the action property `StartsWhenConnected`. That one task is in `Busy` at a time
  (`OneBusy`) carries facts from one half of `start()` to the next (`Stopping`: no
  source and no player is left). `Feeding` says that an open source is the one
  being fed, which needs the conclusion itself: a turn that comes back from the
  synthesis with its source alive finds it current, as no other turn could have
  left one open. `TakenAreCancelled` bounds what is heard of a stopped source: its
  player is past the question whether it is cancelled once at most.
* **`TmuxBridgeProofs`.** `TypeCorrect`, `NothingSkipped`, and the action property
  `InOrder`. The invariant ties the phase to the holder (`HolderIsInside`) and says
  of the lines: those being yielded lie right behind `_committed` and end where was
  last read (`BatchIsUncommitted`); while nothing is yielded and no consumer left,
  everything read is committed (`RestIsCommitted`); before `start()` took its
  baseline nothing was abandoned (`FreshIsUnread`).
* **`SpokenReplyProofs`.** `TypeHolds` and `ReplyTyped`, `NothingLost`,
  `OutputMirrored`, `NotMerged` and `WordsRelayed`, for texts of any length and
  deltas that cut them anywhere, besides what the pure functions return
  (`SanitizedText`, `ChunksText`). Induction over a text is done with sets: the
  texts of which a fact holds include the empty one and are closed under `Append`
  (`SeqInduction`, from the smallest counterexample in `Nat`), so no theorem with
  an operator parameter is needed; recursive functions are unfolded with
  `FiniteRecursion`. On this stand lemmas that follow each function of
  `sanitize.py`, `sentences.py` and `mirror.py`: cutting a text keeps its tokens
  (`PartsOfText`), stripping and filtering keep its words, `feed` and `flush`
  release every word once, `_chunks` keeps to its limit in each branch of its loop
  (`AddLineText`). `NothingIsLost` is then inductive. `MirroredInFull` is not: it
  says nothing until the turn is over, so `Posted` says that what is in the channel
  and what is still to be posted make up the output. `SentencesAreNotMerged` looks
  at the finished prose only; `Fed` says what holds meanwhile: the prose is a part
  the streamer is done with and the pending part, no sentence of the whole ends
  in the pending part, and one handed over or released ends wherever one in the
  first part does (`Settled`). That `feed` keeps it (`FeedSettles`) needs that the
  next delta moves no end in what was fed before. It would, were a full stop last in
  a text: what follows decides whether it ends a sentence. `_run_turn` adds a
  newline to each delta (`session.py:315`), and behind a newline nothing is
  undecided (`CutsBefore`). `WordsRelayed` puts the invariants together: each step
  of a turn is a step of `Relay` or leaves its words alone, in both readings.

`UnloadSparesLeases`, `IdleClockRuns`, `CountersMatchAudio`, `BuffersAreTimed`,
`WatchEndsWithSession`, `OrphansWereReconnecting` and `MirroredInFull` are proved
and no longer part of a run.

## 6. What is only model-checked

Liveness: `InterruptEndsTurn`, `WaiterIsServed`, `UtteranceSettles`,
`ApprovalExpires`, `CallsDrain`, `IdleModelIsFreed`, `TurnsEnd`,
`DeafSessionIsReplaced`, `JoinsEnd`, `PlaybackEnds`, `PromptIsFinished`. TLAPS proves
no fairness or ENABLED, so they hold for the instances above.

Every invariant, every action property, every refinement and `KeptResident` (a
safety property with a premise) that the passing runs check are proved.

## 7. What the models leave out

* **Data.** Text, raw messages, audio samples and scores: prompts are the
  utterances they came from, text and raw lines are one kind, a window is speech
  or not.
* **Bridge**: `close()` and `_terminate()` at shutdown, cancellation of a turn
  by the program's end, the counters of `health()`, and the session id that the
  init and result lines set and `--resume` passes on (`headless.py:120-121`,
  `206-208`, `311-313`).
* **Session**: what is spoken (`Playback` has it), the wake gate's wording (an utterance may be dropped),
  the health check before a turn. A created retry may be overtaken for longer
  than the loop would. An exception out of the body of `_run_turn`'s loop
  (`session.py:308-352`) leaves it as a `return` does, and has no step of its own.
* **Sink**: decoders, the DAVE decryptor, diagnosis counters, the ssrc map, the
  user allowlist (a refused frame does nothing), speaking listeners. A frame makes
  one window at most: the loop at `turn.py:117` and the resampler's rest are left
  out. `closed` stands for `cleanup()` and for `_accepting` going false together; a
  shutdown that stops the watchdog while the client reconnects, so that `cleanup()`
  does not come (`session.py:525-532`), is not in `Sink`.
* **Connections**: other guilds (a reload leaves them one after the other, and
  each wait is a chance for the next to change; here the sweep is one step), the
  user gates, the mirror, `close()`, the resync of commands.
* **Playback**: the frames' contents, the counter of frames played, gate 11 but
  for the connection; feeding a sentence is one step, though the player may take
  its first frames meanwhile.
* **Tmux**: blank lines, the checks of the session's environment and login,
  `health()`. `interrupt` types Escape and changes nothing the bridge keeps. Two
  answers that overlap clear the options once (`Responded`), in the code twice
  (`tmux.py:327`).
* **Speech**: what rewrites words inside a line (ANSI codes, markdown and its
  bullets and list numbers, links, paths, decoration, spaces before punctuation),
  question and exclamation marks, quotes, inline noise; a token has length 1.
* **Mirror**: transcripts and notices, which are one message each.
* **Authentication, DAVE, resampling, the ASR interface, logging**: as said in 1.1.
* **External**: discord.py, its receive extension and `claude` are modelled from
  how the code uses them and marked so in the map.

## 8. What does not hold

Each of these is a run that finds a counterexample to something the repository
says; `PROJECT.json` has the details and the quotations.

* `retry`: the approval belongs to the bridge all guilds share; the next prompt
  of any guild takes it.
* `short_noise`: the pre-roll counts as speech, so a click after a pause is long
  enough to be transcribed.
* `idle_leave`: the idle watch of a session whose bot was disconnected by
  somebody survives it and ends the next one, also in the middle of a turn.
* `unmirrored`: a turn that ends in a permission prompt, a usage limit or an error
  returns before the mirror is written; what Claude said up to then is in no
  channel, and the rest the streamer holds is not spoken.

Met on the way and not checked by a run. Of the sessions and connections:

* The gates are asked before the turn lock is awaited (`session.py:289-293`), so a
  queued prompt is sent by a session that has latched or hit the limit meanwhile.
* A reload evicts sessions (`bot.py:281`); a client that is connecting or
  reconnecting has none that could be told, and stays in a channel the new
  configuration forbids. A client that is connecting is judged once more when it
  enters its channel (`bot.py:211`), also a rejoin, which asks no gate itself
  (`session.py:200`), unless the reload took out the whole guild.
* With two denials in one stream line, `/approve` names the first tool and the
  bridge grants the last (`headless.py:285`).
* `residency()` reports a model as resident after a warmup that ran out of memory
  during `preload()` or an unload that raised (`residency.py:145`), although it
  "Says what is true now".
* `read()` asks whether the producer is done after it found the queue empty
  (`playback.py:53`): what was fed and finished in between is never heard.
* A source that is started while the connection is lost is never read and never
  cleaned up; `playback.active` stays true and the idle watch spares the session
  until somebody speaks (`playback.py:133`, `session.py:145`).

Of the tmux bridge:

* Lines of a batch that was abandoned are read again by every later turn until one
  takes all their events, so a limit line opens the breaker again and again.
* When the options are read in a later batch than the question, the question is
  spoken as prose and no prompt is raised (`tmux.py:267`). A numbered list in prose
  is taken for options (`tmux.py:231`).
* What is redrawn above `_committed` is never read (`tmux.py:198`).
* `/deny` looks for "no" anywhere in a label (`tmux.py:306-312`), so it may press
  an option that only contains those letters.
* The options are one set for all guilds; the next turn clears those of the last
  prompt (`tmux.py:172`), and an answer those that were read meanwhile
  (`tmux.py:327`).
* A failed capture looks like an empty pane (`tmux.py:340`).

Of speech and the mirror:

* Whether a reply was capped is computed of the whole output (`session.py:358`),
  the limit applies to each sentence (`session.py:371`): a long reply is spoken
  whole and then said to be capped.
* Sentences are sanitized one by one, so a code block with a full stop or a blank
  line in it is cut before its fences are paired, and parts of it are spoken.
* The streamer releases text behind an abbreviation that `split_sentences` guards
  (`sentences.py:19`).
* `_chunks` appends an empty message when a line that fills a chunk meets an empty
  one (`mirror.py:100-101`); Discord refuses it and the rest is not sent. That is
  why `MirroredInFull` speaks of outputs no message of which was refused.

## 9. What is left

1. The composition of `Playback` with `VoiceSession` and `Connections`: gate 11
   against drags and reloads, and the idle watch that asks `active`; and of
   `VoiceSession` with `TmuxBridge` in place of the headless bridge.
2. Two guilds in `Connections`, for the sweep that awaits between evictions, and
   the shutdown of the bot.
3. An abstract specification of a spoken answer (begun, heard in order, finished
   or silenced) that `Playback` implements, as `SpokenReply` does `Relay`.
