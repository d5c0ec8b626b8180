# Wrenote in TLA+

A verification development for [Wrenote](../src/README.md), a local meeting
transcriber: a Python engine (asyncio, FastAPI, SQLite, `src/engine/wrenote`), a
web client (`src/clients/web`), and desktop shells that start the engine
(`src/shells`). The specifications model the engine, where the state is. Paths
below are relative to `src/engine/wrenote` unless they begin with `src/`.

TLC checks small instances of each module (the `.cfg` files); TLAPS proves a part
of the properties for every value of the constants (the `*_proofs.tla` modules).
`PROJECT.json` lists every run, its properties, the mutant of the code that each
property catches, the source lines each definition stands for, and the hazards.

## The system

| Component | State | Operations | What makes it correct |
|---|---|---|---|
| Job registry (`core/jobs.py`) | the jobs by id, their order of creation, cap 64 | create (forgets the oldest over the cap), get, active_for, advance, complete, fail | a job settles once and for all; whoever looks for a running job finds it |
| Progress streams (`api/jobs.py`, `subscribe`) | one generator per open stream, one event per job | open, frame, wait, heartbeat, hang up | a stream misses no settling and ends with it |
| Session rows (`core/store.py`) | SQLite: sessions, segments, minutes, chats, glossary | the store calls, all on one shared connection | a call is atomic; the transcript is never half replaced |
| Refine pass (`core/refine.py`, `api/refine.py`) | session status, recording file, its job | check, create, queue, transcribe, swap rows, stamp | one pass per session; a failed pass leaves the old rows |
| Upload (`api/upload.py`, `core/upload.py`) | the same | decode, create the row, queue, write paragraph by paragraph, stamp | half an upload is never presented as finished |
| Pass gate (`core/batch.py`) | a semaphore and its queue | acquire, release | at most `max_parallel_passes` at once, first come first served, no slot lost |
| Live connection (`ws.py`) | one receive loop, one event pump, the recording file | start, audio, stop, disconnect | a session leaves `recording` however the connection ends |
| Live pipeline (`core/pipeline.py`) | bounded queues between VAD, STT and translation tasks | feed, cut, partial, final, translate, flush | no partial after its final; flush drains; nobody waits on everybody |
| Minutes (`api/minutes.py`, `core/minutes.py`) | a job on the session | cut into pieces, write each, merge, delete | one at a time; the pieces are the transcript; a merge whose reply says nothing leaves no item of a piece out (one of mere words does) |
| Row editing (`api/translate.py`, `api/diarize.py`, `api/segments.py`, `api/speakers.py`, `core/resegment.py`) | rows read earlier, held over an await | translate, diarize, split, merge, edit, name a speaker | no word is doubled or moved, and none lost but the later turns of a silent row; unless rows read before a change are written over it, a translation fits its text where no user gave another, and an edit stays |
| Model manager (`model_manager.py`) | the chat backend, its leases, one lock | lease, ensure loaded, reap, replace | nothing is unloaded while leased, the lock always comes free |
| llama-server supervision (`core/llama_server.py`) | child process, state file per label | start, stop, reclaim orphans | no orphan survives, no live sibling is killed |
| Model download (`core/models.py`, `api/models.py`) | `.partial` files | download, resume, verify, rename, delete | a file in place is the whole file |
| Compute runtimes (`core/runtimes.py`, `api/compute.py`) | packs on disk, `state.json`, the routing of imports | install, remove, select, activate | a manifest means a whole pack; a choice that was answered holds |
| Configuration, catalogue, update check (`core/config.py`, `core/catalogue.py`, `core/update.py`) | layered files, a remembered answer | merge, write, recommend, check | what the user chose survives a restart; what is recommended fits the machine |
| Text and speakers (`core/segmentation.py`, `core/batch.py`, `core/transcript.py`, `core/diarize.py`) | none | cut, join, label, fit to a prompt | every turn of a segment that takes time is in a row, once and in order; of one that takes none, or is silent, the first turn only |
| Migrations (`Store._upgrade`) | `user_version`, a backup | create, upgrade | a crash at any statement of an upgrade leaves a file that opens (of the making of a new file it may leave one that never does) |
| Web client stores (`src/clients/web/src/store`) | jobs tracked, sessions listed | track, sync, dismiss, forget | one subscription per job |
| Shells (`src/shells`) | the engine child | spawn, wait ready, stop | one engine, none left behind |

The rest (export, capture helpers, glossary, endpoint clients, packaging,
rendering) is listed in `PROJECT.json` with the
reason it is left out.

How they interact: HTTP handlers, WebSocket connections and background tasks are
coroutines of one event loop. They share the registry, the gate, the model
manager and the store, all in the memory of one process. Only SQLite rows and
files survive it. Control passes between coroutines at `await`, so the hard
behaviours are not data races but decisions that span an await: a status read
before one and used after it, a busy check separated from the start it protects,
two commits where one was meant, a task that dies between creating a job and
settling it, a slot held across an exception, a crash between any two of these.

## What is modelled

`JobRegistry` is the registry as data and operations, with no behaviour of its
own. `JobStream` and `Passes` extend it, drive those operations, and do not know
of each other: a stream reads only the status of one job, a pass never reads a
stream. `LiveSession` extends `Pipeline`: the handler of a connection feeds the
loops, waits for them and stops them, the pump takes what they publish.
`ModelFiles` implements `AtomicInstall`. `Algorithms` asks the pure modules one
question per behaviour. The others stand on their own: each takes apart, at the
next `await` or the next statement, what its neighbours treat as one step.

```
JobRegistry ── JobStream ── MCJobStream                (TLC)
            │       └─ JobStream_proofs                (TLAPS)
            └─ Passes ───── MCPasses                   (TLC)
                   └─ Passes_proofs                    (TLAPS)
SharedConnection ── MCSharedConnection                 (TLC)
            └─ SharedConnection_proofs                 (TLAPS)
Pipeline ── LiveSession ── MCLiveSession               (TLC)
                   └─ LiveSession_proofs               (TLAPS)
ModelServers ── MCModelServers                         (TLC)
       └─ ModelServers_proofs                          (TLAPS)
ModelFiles ── MCModelFiles                             (TLC)
       ├─ ModelFiles_proofs                            (TLAPS)
       └·· AtomicInstall                               (refinement)
Runtimes ── MCRuntimes                                 (TLC)
       └─ Runtimes_proofs                              (TLAPS)
SessionEdits ── MCSessionEdits                         (TLC)
       └─ SessionEdits_proofs                          (TLAPS)
Sentences, Timeline, Choices, Migrations, Settings
       └─ Algorithms ── MCAlgorithms                   (TLC)
```

Several modules keep a property in named parts (`StreamInv` is `TypeOK`,
`EndsWithTerminalFrame` and `NoLostWakeup`); the table of the runs names the whole,
the modules explain each part.

### JobRegistry, JobStream

A job id is the rank of its creation. `jobs` holds every `Job` object, `kept` the
ids the registry still knows: a runner and a stream hold on to the object after
the registry has forgotten it, and `complete()` and `fail()` then do nothing.
Progress numbers, phases and log lines are left out.

| Action | Code |
|---|---|
| `Start` | a handler's `registry.create` and the task it spawns |
| `Advance`, `Finish` | `advance`, `complete` / `fail`, each with `_wake` |
| `Open`, `FirstFrame` | the endpoint finds the job (404 otherwise), the generator's first step looks it up again |
| `Resume` | back from a `yield`: the loop condition is read and the job's event taken, without an await between the two |
| `NextFrame`, `Heartbeat` | `wait_for(tick.wait(), 15)` returns or times out; a frame is sent either way |
| `Hangup` | the client closes the response |

A stream keeps `stale`: the job has changed since its last frame.

### Passes

The life of a session: recorded live or uploaded, refined, deleted, with the gate
and the crash. Every action is one stretch of the event loop between two awaits,
with the store call it awaits at its end; a store call is atomic here, which
`SharedConnection` shows to be an idealisation. `task[j]` is the program counter of the coroutine of job `j`; its
values are explained in the module.

| Variable | Code |
|---|---|
| `row[s]` | the sessions row: `status`, `refined_at` is set, and what the segments are (`none`, `live`, `partial`, `whole`) |
| `wav[s]` | the recording file exists |
| `holders`, `queue` | the semaphore of `whole_file_slot` and its waiters |
| `caller[c]` | a `refine` request, or the end of the live session of that id, inside `refine.launch`, with the status it has read |
| `live[s]` | the WebSocket connection of the session |
| `origin`, `deleted` | history variables, read by properties and by the freshness of session ids only |

| Actions | Code |
|---|---|
| `Open`, `Record`, `Speech`, `Finish` | `ws.py`: WAV writer, `upsert_session`, `_persist_event`, `_finish_session` |
| `Read`, `Refuse`, `Accept`, `Spawn` | `get_session`, the checks and `registry.create` of `refine.launch`, then `set_session_status("pending")` and `create_task` |
| `EnterSlot`, `Grant` | `whole_file_slot` |
| `SetProcessing`, `ReplaceSegments`, `MarkRefined`, `CompleteJob` | the runner and `refine_session` |
| `PassRaises`, `SetFailed`, `FailJob` | an exception anywhere in it, and the `except` branch |
| `Upload`, `BuildTranslator`, `UpsertUpload`, `WriteParagraph`, `WriteLast` | the upload's handler, runner and `process_upload` |
| `StartMinutes`, `EndMinutes` | the minutes job, which `refine.launch` sees as busy |
| `Delete` | the row with its segments, then the file |
| `CrashAndRestart` | everything in memory is lost, `recover_statuses` runs before anything else |

Simplifications, and why they do not hide what is checked: the checks of
`launch` that depend on the configuration only (`unsupported_backend`,
`no_model`) always pass, so that passes happen. The handler of minutes is one
action although it reads the row first, which no property looks at. A graceful stop
of the engine cancels tasks without running their `except Exception` branches and
so is a crash. `update_session_duration` changes nothing the model has.
Session ids are new for every recording and upload, as the client makes them
(`crypto.randomUUID` in `startNewSession`, `uuid4` in the upload handler); a
client that records twice under one id is outside the model.

### SharedConnection

Every call of the store runs on one aiosqlite connection, whose thread executes
the statements of all coroutines in one line and opens a transaction at the first
that writes. So there is one transaction, not one per call. An action is one
statement or one commit of one caller.

| Variable | Code |
|---|---|
| `conn`, `disk` | the session's row, transcript and one conversation, as the connection sees them and as of the last commit |
| `call[c]` | the store call a coroutine is in: its step, and what it has selected or deleted |
| `sent`, `acked`, `before`, `known`, `crashes` | inputs so far and history variables, read by properties and by the choice of inputs only |

| Actions | Code |
|---|---|
| `Begin`, `BeginUpsertTrans`, `BeginAppend`, `Done` | a coroutine calls the store, and has its answer |
| `DeleteRows`, `InsertRows`, `InsertRowsRaises` | `replace_segments` |
| `SelectSession`, `SelectRows` | `get_session` |
| `SelectNextOrd`, `InsertMessage` | `append_chat_message` |
| `DeleteSession`, `UpsertTrans`, `ClearChat`, `UpdateStatus` | the calls of one statement; `UpdateStatus` stands for all that change neither rows nor messages |
| `Commit`, `StorageError` | `db.commit()`, and a statement or commit that raises without a rollback |
| `Crash` | what was committed is left |

Left out: SQLite rolling the transaction back by itself, which it does on a few errors
(a full disk among them, sometimes) and which would only undo more; a call cancelled
between two statements, which leaves what `StorageError` leaves; a translation job's
snapshot older than any transcript the model has had; power cuts, which
`synchronous = NORMAL` lets take back commits.

### Pipeline, LiveSession

The live transcript, from the first frame to the last row. `Pipeline` has the six
loops of `core/pipeline.py` and the four bounded queues between them: audio
frames into the VAD loop (or the stream loop, for a backend that decodes as it
goes), jobs into the STT loop, finals into the translation loop, events to the
client. A frame is its number, a text is whether there is any. A put on a full
queue is a step that is not enabled, except where the code drops: the oldest frame
(`FeedAudio`), a partial that finds no room (`EmitPartial`).

| Variable | Code |
|---|---|
| `audio_in`, `stt_jobs`, `final_events`, `client_events` | the queues |
| `stopping`, `force_close` | the two signals a handler sets |
| `vad`, `utterance`, `stt`, `trans`, `ptrans`, `partial`, `latest_partial` | where each loop is, and what it holds |
| `segs`, `finalized` | the segments made so far and what became of them |
| `handler`, `pump`, `sending` | `ws.py`: the endpoint, the event pump, the event it holds |
| `rows`, `ord`, `status`, `refine` | the store, and whether the pass over the recording was launched |
| `seen`, `unstored` | history: finals the client was sent, writes that raised |

`LiveSession` adds the handler from `StartPipeline`, `OpenRecording`, `CreateRow` over
`Audio`, `Pause`, `Stop`, `Disconnect` to `Flushed` or `FlushTimeout`, `Linger` and the
`finally` (`StampDuration`, `FinishSession`), and the pump, which stores some events
before sending them (`PumpStoreFirst`) and others after (`PumpSendFirst`). A store call
may raise, a send may raise and end the pump. Left out: the screen recorder and the
mixing of the system's audio, speaker labels and the context of a translation (their
functions are in `Timeline` and `Sentences`), `partial_interval_ms` as a clock: a
partial may come whenever its loop may look.

### ModelServers

The chat model's manager, the requests that lease it, the translator of a live
session and the `llama-server` each of them starts. A host is a backend object: the
chat backends that follow one another, one translator per session.

| Variable | Code |
|---|---|
| `backend`, `loaded`, `lock` | `ModelManager`: the current backend, the flag, the `asyncio.Lock` with its waiters |
| `request[r]` | one chat answer, title or minutes job with its lease |
| `endpoint[h]`, `boot[h]`, `halt[h]` | the server a backend holds, starts, stops |
| `os`, `file` | what the operating system runs, the state file of each label |
| `left`, `owed` | history: servers that outlived a crash; those the next start must find |

`Begin`, `Ask`, `HasLock`, `LoadDone`, `LoadRaised`, `Leave`, `Finish` are a request in
`lease` and `ensure_chat_loaded`; `Reap`, `BeginSwap`, `Replace` the reaper and
`replace_chat`; `ReadFile`, `KillAndUnlink`, `Spawn`, `Record`, `SeesReady`, `SeesExit`,
`GivesUp`, `StopStarted` the start of a server with its retries; `BeginHalt`, `HaltStep`
its stop; `SessionStarts`, `SessionAbandons`, `SessionStops` a translator. `Crash` kills the
engine and leaves its children; `Restart` begins with the reclaim of what the files name.
The idle time is not counted, so the reaper may come at any moment it finds no lease.
Ports, tokens and stderr are left out.

### ModelFiles, AtomicInstall

The download job over the files of its models: `OpenFails`, `Resumes` (the server answers
206), `StartsOver` (200: it was asked for the whole file, or ignores ranges), `ReadChunk`,
`ReadBreaks`, `ReadEnds`, `HashTaken`, `Rename`, next to `Delete`, `DeletePartial` and `Crash`. A file is the sequence of its chunks, `Bad` one that was damaged; an open file
is followed through rename and unlink, as POSIX does. `AtomicInstall` is the abstract
specification: an item is missing or whole and changes in one step. `AtomicallyInstalled`
states that the files with a hash implement it under the refinement mapping `FileState`.
Nothing refuses a second `Post`, and its job may take a model another has in hand: the
history `shared` remembers which. The properties promise nothing of those files (`FileState` counts them
as missing); of all others they hold however the jobs overlap.

### Runtimes

The packs of native code: `Start` routes the imports of the process and `Import` makes that
final, an install downloads (`Open`, `Read`), verifies (`Hash`), unpacks beside the target
(`Unpack`) and moves it in (`Place`, `ClearWaits`, `Clear`, `Move`), a
handler chooses or removes (`Select`, `WriteChoice`, `SetChoice`; `Remove`, `RemoveStep`,
then `CanReactivate`, `Deactivate`, `Reactivate`, between which an import may fall). `pack[v]` is the directory, with the state in the middle of an
`rmtree`; `pin` and `filePin` are the choice in memory and in the user's file, `active` what
imports are routed to, `imported` what was imported.

### SessionEdits

Whatever rewrites the rows of a finished session. `Read` is a job or a handler that reads the
rows, `Swap` the rows it writes back whole (split, merge, diarize, refine), `TranslateNext`
one translation written back, `Refuse`, `JobFails`, `Complete` the other ways on;
`EditText`, `EditTranslation`, `RenameSpeaker`, `AssignSpeaker` the edits of a user, one
statement each. Nothing is held between a read and its write. A text is a sequence of words,
its translation that sequence again, so that one can be held against the other; an id says who
made the row and which part of it a diarization cut out, so that two rows can come to have one id only where the
code lets them. `rows` is in the order `get_session` returns. A diarization may find any row of several
turns silent, in which case the code keeps the first turn only (`Unheard`, `TextLeft`); a user may type an empty
text and an empty or a foreign translation. Four history variables say what the properties except, and a reader
may take them as the list of what can be lost. `mixed`: words or speakers were written over by rows read
before a change. `byHand`: the rows a user left empty or with a translation that is final and not of the text,
and the rows those were merged into. `texts` and `typed`: the texts that are genuine, among them what silence has left of
one, and the typed words, less those in a turn that was silent. Nothing else may be lost, and the silence of a row excuses
only the words of its own later turns.

### Sentences, Timeline, Choices, Migrations, Settings, Algorithms

Pure functions, written as the code computes them and held against what the answer must be,
which is stated without their loops. `Sentences`: `find_cut_point`, `_join_into_sentences`,
`context_before`, the transcript that fits a prompt, the pieces of the minutes and their merge.
`Timeline`: the label of an interval, short runs, the cut of a text into turns, the numbering of
speakers, the voices of a live session. `Choices`: the recommended model and runtime,
the model of a slot, the share of the GPU, the language of a segment, the order of versions.
`Migrations`: a library file opened statement by statement, stopped after any of them and opened
again. `Settings`: the layers of the configuration, what a request writes and the next start
loads, and the remembered answer of the update check. In `Algorithms` a behaviour is one
question and its answer; the properties are about every pair. These modules use
recursion where the code loops, and hold no theorem.

## The runs

| Run | Bounds | Checks |
|---|---|---|
| `job_streams` | 2 streams, 2 jobs, registry of 2 | `StreamInv`, `StreamEnds` |
| `passes_store_errors` | 2 sessions, 1 request, 2 jobs; store calls and the translator's construction may raise | `SlotAccounting`, `QueueAccounting`, `OnePassPerSession`, `NoPassWhileRecording`, `RefinedIsWhole`, `NoResurrection` |
| `passes_live` | 2 sessions, 2 jobs per start, slot of 1, 1 crash, fair | `TypeOK`, `InFlightHasJob`, `ProcessingIsWorking`, `StatusIsTrue`, `EverythingSettles` |
| `connection_chat` | 2 callers, 4 messages, 1 crash, statements may raise; append, clear, delete, write a translation | `TypeOK`, `AckedMessageKept`, `ChatInTimeOrder` |
| `connection_swap` | 3 callers; swap, read, delete, commit | `TornOnlyDuringSwap`, `ReadNeverMixed` |
| `live_session` | 3 frames, 1 partial, all queues of 1, segments of at most 2 frames, 1 store call that raises | `EveryWordOnceInOrder`, `SentFinalIsStored`, `FlushIsSound`, `WrittenStays` |
| `model_servers` | 1 request, 1 session, 1 swap or fault, 3 processes, 2 attempts | `HeldIsUsable`, `NoOrphans`, `RequestEnds` |
| `model_files` | 2 jobs, a file with a hash and one without, 2 chunks, 1 fault, 1 deletion | `DownloadsAreSound`, `AtomicallyInstalled`, `JobEnds` |
| `runtimes` | 1 pack of 2 chunks, 2 install jobs, 2 requests, 2 faults | `PacksAreSound`, `ChoiceIsTrue`, `EverythingEnds` |
| `session_edits` | 2 rows of 3 words and 1, a pass that hears one, 2 at work, 3 calls of the API, of them 1 diarization and 2 edits at most | `TextIsGenuine`, `TranslationsFit`, `EditsStay` |
| `algorithms` | every input of up to five elements | `SpeechIsWrittenInSentences`, `PromptsAreTheTranscript`, `SpeakersAreToldApart`, `ChoicesFit`, `UpgradeIsSafe`, `UserIsObeyed` |
| `diarized_twice` | the same rows, 1 at work, 3 requests, 2 diarizations | `TextIsGenuine`, expected to fail |

Why these bounds are enough to be interesting. Two jobs on two sessions contend for a
slot of one, so one of them queues; a request and the end of a recording are two
callers of `launch` on one session, which is what a busy check must survive; longer
queues are left to the theorems `SlotIsAccountedFor` and
`QueueIsAccountedFor`. One crash can happen at every step, and a second adds no
new kind of state, since `recover_statuses` leaves only settled rows. `MaxCreated`
bounds the jobs of one start and does not exceed `MaxJobs`: the registry holds
64 jobs, and the properties about finding a running job hold only while it does
not overflow (see below). On the connection, two callers are enough for a call to come
between the statements of another; three let two swaps meet a third call;
four messages make a conversation that is cleared, refilled and raced for. With queues of one,
every queue of the pipeline is full at some moment and each
producer waits; three frames with a segment of at most two make two segments, a cut and
a pause. Three processes let a swap and a translator overlap with a third that is being
started. Two downloads of two models may overlap on one of them, on both or on none; the one fault, a damaged chunk, a break
or a crash, and the one deletion, of the file or of the partial one, may fall between any two of their
steps; the theorems bound neither. Two install jobs on one
pack share every file either of them touches. On two rows, the first of two turns, each
operation has something to split and something to join, and three calls let two
overlap after a third has changed the rows: an edit can come before, between and after what two requests
read and write. Three words in the first row, two of them in one turn, let a split fall inside a turn.

Deadlock is checked in `job_streams` and `live_session`; the others stop when their
bounded requests, jobs or faults are used up.

### The run that is expected to fail

`diarized_twice`: the docstring of the swap says that the whole transcript is replaced. Diarize
a session, split a part it has made, diarize again: the second
run numbers the parts of a row by extending its id and gives two rows one id. The
swap has then executed its DELETE; its INSERT raises, nothing rolls back, and the next commit
on the connection makes the deletion durable. Most of the transcript is gone.

### Other divergences

Where the code does something else than its comments or documents say, or than a reader would
expect, found while modelling. The models contain them, as named exceptions of
a property or as behaviour no property forbids; they have no run of their own.

Sessions, jobs, store:

- "Yield a JSON-able snapshot whenever the job changes" (`core/jobs.py:205`): a change made while a
  frame is being sent is shown with the next change, or after up to fifteen seconds.
- A running job the full registry has forgotten is never settled, since `complete` and `fail`
  then return at once: its stream heartbeats forever, and `launch` no longer answers
  "busy" but starts a second pass (`core/refine.py:229`).
- "the previous transcript is intact either way" (`core/store.py:507`): `replace_segments` and
  `mark_refined` are two commits, and a crash between them leaves a failed session with the new rows.
- "in one transaction" (`core/store.py:975`): the statements share one connection with every other
  call. A commit of another call between the two makes the DELETE durable; an INSERT that
  raises leaves it to the next commit.
- "at no point does the user see an empty transcript" (`core/refine.py:15`): a read
  between the DELETE and the INSERT finds no rows. `ReadNeverMixed` is what does hold.
- "Append at the next ordinal within the conversation" (`core/store.py:796`): two appends may
  select the same ordinal, and the second raises.
- `refine.launch` says that the session is "processing by the time this returns"; it writes
  `pending`. If that write raises, the job it has created stays at running (`core/refine.py:305`).
- The upload's runner constructs its translator outside the `try` (`api/upload.py:76`): if that raises,
  the job stays at running, the bug a comment in `api/translate.py` describes.
- "every session in flight names its `job_id`" (`src/ARCHITECTURE.md:595`): only one at
  `processing` does (`api/sessions.py:32`), a queued one does not.
- A minutes job makes the automatic pass after a recording be refused as busy; a diarize
  job carries no session id, so a pass may run at the same time.
- A new library file stopped after its tables and before `user_version` is stamped is taken for an old one
  by the next open, whose migration then raises "duplicate column" every time (`core/store.py:400`).

Live:

- A pause in stream mode drops the words since the last partial; a `partial_interval_ms` of 0 is not
  honoured in the stream loop.
- The protocol's "persist before send" does not hold for partials, and an error of the store is
  only logged, so that a sent final may be missing (`SentFinalIsStored` names the case).
- A partial's translation may go out after the segment's final; the translation
  of a dropped partial makes a row without a text.
- The pump ends at the first send that raises; events still queued half a second after the
  flush are lost.

Models and runtimes:

- A start of a server kills what the state files name, the live servers of this process included
  (`core/llama_server.py:178`), and the `_clear_state` of an old stop removes the file of a newer server.
- A translator given up while it loads goes on loading with nobody to stop it
  (`NothingLeaks` names it); `loaded` stays true when a server dies; `replace_chat(None)` while a request
  waits for the lock makes that request raise.
- Two downloads of one model share one partial file, and what one verifies the other may still write to
  (`core/models.py:175`): the properties make an exception of the files two jobs had in hand. A crash between the last chunk and the
  rename leaves a complete partial file whose range the server refuses from then on.
- Whether a binding has been imported is asked first and the routing undone and redone after, in a thread
  (`core/runtimes.py:718`): an import in between is bound to what the old routing gave, or the built-in
  pack, while another may be reported. That import, a crash within an `rmtree` and a crash that leaves an archive
  are the exceptions of
  `ImportedIsActive`, `ManifestMeansWhole` and `NoLeftovers`. A pack built for another
  Python cannot be installed again without removing it first; a pack marked bad is still recommended.
- The user's settings are written from threads by five handlers, each reading, merging and renaming
  through one temporary name with no lock (`core/config.py:449`): overlapping ones lose an update.
  `Settings` has them one after the other. An environment variable lies over the user's
  file, so a choice made in the window may not survive a restart.
- A forced update check that fails replaces a good remembered answer for ten minutes.

Rows and texts:

- A split, a merge, a diarization or a pass that read its rows before an edit writes the edit over; a
  translation of a text that was edited meanwhile is stored as final; a retranslation whose
  translator fails has already dropped the old translations.
- Whatever translation a user enters is stored as final, an empty one too, and an empty text stays as an empty final
  row (`api/segments.py:56`, `core/store.py:863`). Of two final rows, one with an empty translation, a merge makes a final
  row whose translation is of half its text (`core/resegment.py:86`). `FinalFitsText` and `EmptyRowIsLate` except
  such rows by their id (`byHand`), no others.
- Minutes whose merge reply is plain words lose the items of the pieces, against
  `core/minutes.py:331` ("The merge failed to parse: concatenating the parts loses only
  deduplication, never content"): words parse as a summary, so nothing is concatenated.
  `MergeKeepsItems` is about the replies that say nothing.
- "preserving dialogue turns is more important than creating long reading paragraphs" (`core/batch.py:106`):
  of a segment of several turns that takes no time the first turn is kept and the others are lost
  (`core/batch.py:155`), and so they are of a row a diarization finds silent or without length
  (`core/diarize.py:600`): words a user typed there are lost too, by one diarization. `TextIsGenuine` and `TypedStays` except
  these turns, and only these.
- "Drop oldest lines until we fit" (`core/transcript.py:51`) counts a newline for each line, the
  last too: with room for ten characters, of lines of 9, 2, 4 and 2 it keeps the last two, though the
  last three and their two newlines are exactly ten.
- The first run of a frame stays however short (`core/diarize.py`, `_merge_short_runs`); a newest line
  longer than the budget leaves the prompt without a transcript; one line longer than a
  piece exceeds it; `is_newer("1.2.3.0", "1.2.3")` is true.

## Fairness

`JobStream`: the event loop runs a generator that can go on (weak fairness of
`FirstFrame`, `Resume`, `NextFrame` per stream). Nothing is assumed of the
heartbeat, since a stream must not need it. Runners are not assumed to return:
`StreamEnds` starts from one that has.

`Passes`: weak fairness per job and per caller of `launch`: a ready coroutine
runs, and the thread that transcribes comes back with a result or an exception.
Weak fairness suffices for the slot because the queue is first come first served
and only its head can be granted. Users owe nothing: no fairness for starting, stopping,
deleting or crashing.

`ModelServers`: weak fairness of `Work`, the disjunction of all that the engine does by
itself once it has been asked: the engine does not stop while it has something to do. Nobody can be
starved, since each party is in one step at a time, the lock is first come first served and those
who ask again do not do so for ever. A server that never becomes ready runs into
`READY_TIMEOUT_S`, which is `GivesUp`. Clients, the idle timer and servers owe nothing.

`ModelFiles`, `Runtimes`: weak fairness per job (and of the one request). Both run in
threads, and each read of the network has a timeout of thirty seconds.

`LiveSession` states no liveness: `NeverStuck` says instead that in every state that owes the
client something, one of the loops or the pump can move. That a step can be taken is said by the
conditions its action begins with (`AnswerReady`, `VadReady`, `PumpReady` are made of the same
operators as the guards), so that it can be proved as well as checked. The other modules have no liveness
property and no fairness.

## What is proved

For every value of the constants:

| Theorem | Property | Assumes |
|---|---|---|
| `TypeCorrect` | `TypeOK` | |
| `SlotIsAccountedFor` | `SlotAccounting` | |
| `QueueIsAccountedFor` | `QueueAccounting` | |
| `OnePass` | `OnePassPerSession` | no eviction |
| `RecordingIsLeftAlone` | `NoPassWhileRecording` | no eviction |
| `InFlightIsBacked` | `InFlightHasJob` | no eviction, store calls do not raise |
| `ProcessingIsHonest` | `ProcessingIsWorking` | no eviction, store calls do not raise |
| `DeletedStaysDeleted` | `NoResurrection` | |
| `RefinedMeansWhole` | `RefinedIsWhole` | |
| `StatusIsHonest` | `StatusIsTrue` | store calls do not raise |
| `ConnectionTypeCorrect` | `TypeOK` of `SharedConnection` | |
| `AckedIsKept` | `AckedMessageKept` | |
| `ChatReadsInTimeOrder` | `ChatInTimeOrder` | |
| `SwapsLeaveWhole` | `TornOnlyDuringSwap` | no translation written back, no statement raises, no crash |
| `ReadsAreNeverMixed` | `ReadNeverMixed` | the same |
| `StreamsAreTold` | `StreamInv` | no eviction |
| `InstallsAtomically` | `AtomicallyInstalled` | |
| `DownloadsStaySound` | `DownloadsAreSound` | |
| `WordsComeOnceInOrder` | `EveryWordOnceInOrder` | |
| `SentFinalsAreStored` | `SentFinalIsStored` | |
| `WhatIsWrittenStays` | `WrittenStays`, an action property | |
| `FlushLosesNothing` | `DrainedMeansAnswered`, one part of `FlushIsSound` | |
| `FlushStaysSound` | `FlushIsSound` | |
| `HeldStaysUsable` | `HeldIsUsable` | |
| `NobodyIsOrphaned` | `NoOrphans` | |
| `PacksStaySound` | `PacksAreSound` | |
| `ChoiceStaysTrue` | `ChoiceIsTrue` | |
| `TranslationsStayFit` | `TranslationsFit` | |
| `TextStaysGenuine` | `TextIsGenuine` | one diarization of a session at most |
| `EditsAlwaysStay` | `EditsStay` | the same |
| `NamesStay` | `NamedStays`, one part of `EditsStay` | |
| `TextStaysUpToSecond` | `TextIsGenuine` and `EditsStay` in every state before a second diarization begins | |
| `AlwaysAChoice` | the chain of candidates never ends without a choice (not a property of a run) | |

"No eviction" is `MaxCreated <= MaxJobs`: a start of the engine creates no more
jobs than its registry keeps. `OnePass` needs it: a running job the registry has
forgotten is not found by the busy check. The
store assumption is needed because a failure to record a failure leaves the
session in flight with nobody behind it (`SetFailed`). "One diarization" is
`MaxDiarizations <= 1`, and is needed too: `diarized_twice` is a counterexample with two.

The argument, in the order of the modules. `Passes_proofs` first proves type
correctness, one lemma per group of actions over a few facts about the shared operators
(`CreateFacts`, `SettleFacts`, `GotoFacts`, `LaunchFacts`). Slot accounting is not
inductive: that granting adds a pass which is not among the holders yet
needs the queue to hold exactly the waiting passes, each once; that `CompleteJob` releases the right slot needs
the kind of a pass to agree with the steps it can be at (a refine pass is never
`written`, an upload never `swapped`); and that a caller spawns an unspawned job
needs `CallerInv`, which ties each caller inside `launch` to its own job. `GateInv` is
the conjunction and `GateHolds` its induction.

Then come the session properties. The heart of `OnePass` is that a
job the registry keeps is running for as long as its coroutine is unfinished
(`Registered`), which needs "no eviction"; then the busy check, which looks
for a running job, sees every pass. `RecordingInv` adds that a session which says
`recording` has never had a pass, because ids are fresh and a caller that has read
another status has read it after the recording ended. `WorkInv` ties each status
in flight to the step of the one pass behind it, which the crash does not
disturb because recovery leaves no such status.

The last part is about what becomes of a row. `Births` says that a row is written once, by
the one connection or the one upload its id was made for, before any pass can be on it: an upload
that still decodes has no row, not even a deleted one, while whoever else is on a session has seen
its row. So every later write is an update, and an update of a deleted row does nothing.
`Outcomes` adds to `NoResurrection` and `RefinedIsWhole` what they need to be
inductive: a pass that has replaced or written its rows and has yet to stamp them finds its session deleted or
its text whole, only an upload leaves a text `partial`, and an upload that is `ready` is whole.
Neither needs an assumption. `StatusIsHonest` does: a connection that ends while the store
raises leaves its session at `recording` until the next start.

`SharedConnection_proofs` proves `ChatInv`. Time order is not inductive: an append uses an
ordinal selected two steps earlier, so the invariant says that a selected ordinal is above the
whole past of its message (`SelectedAbovePast`) although another append may take it first,
and that a message not yet stored is in nobody's past (`Fresh`). Even the type of the
ordinal needs an invariant, that a conversation which is not empty has a last message
(`HasLast`). `AckedIsKept` holds for any interleaving, failures and crashes included,
because only a commit acknowledges and no statement but a clearing or a deletion takes
messages away. `SwapsLeaveWhole` strengthens its property by what a swap that has deleted may find
when it inserts: nothing, or all of another swap; `ReadsAreNeverMixed` follows from the same
invariant. Each of
its three assumptions is needed: without the second, a swap that raises at its INSERT leaves its DELETE to the
next commit.

`JobStream_proofs` proves that no settling is lost. The property is not inductive: it needs
`Followed`, that the registry keeps every job created so far, so that each `_wake` reaches the
streams of its job ("no eviction" is what keeps it there), that an open stream has a job, and that
between its first frame and its last the client has seen `running`.

`ModelFiles_proofs` proves the refinement: the initial states map to initial states of
`AtomicInstall`, and each step maps to one of its steps or changes nothing there, for any number of jobs. Its
invariant says of the files that are not shared that the partial one of a job about to rename is `Whole` or deleted
(`Fetched`) and that an installed file with a hash is missing or whole (`NeverTorn`). What makes it inductive is
`Exclusive`: two jobs that fetch one model share it. So a step of one job, which `JobMoves` takes apart once for all
actions, can only disturb another through a shared file, and a file open in its installed place is a shared one.

`DownloadsStaySound` speaks of every model nobody shares, with a hash or not, and needs arithmetic. `Progressing`
says how long the partial file is at each step of the job: a writer that has not been
deleted under stands at its end, so an appended chunk lands in its place, and a job about to hash or
rename has all `Size` of them. `Owes` says that what a job was asked for is installed, still ahead of
it or in its hands, and `Short` that a file nobody writes to is short of its size unless the engine
was killed, which is what makes a failed download resumable. Each clause is guarded by the number of deletions: a
deletion under a writer really breaks it.

`LiveSession_proofs` has three layers. `PInv` follows a segment through the loops of the
pipeline: the VAD loop holds the only open one, the last (`OpenOne`); the closed ones wait for the recogniser in the order
spoken (`SttFlow`); what has a final is on its way to the translator or was answered, and everything spoken before it
has been dealt with (`TransFlow`); finals are queued for the client in order, and no partial stands behind the final of its
segment (`Events`). `Count`, that each segment has cost a frame, bounds their number. Each step of
the pipeline is a `FrontStep` (it makes, grows or closes a segment) or a `BackStep` (it answers one), with the cases of each
proved once; to the rest of the engine it either shows nothing or appends one event (`Effect`). The second layer, `IInv`, follows events
through the pump to the rows. `SentFinalIsStored` is not inductive: between the write and the send the pump holds the
final (`Pumped`), and a final is sent, held or queued, in order (`Sent`). Because the finals are ordered, each is
sent once. `Stored` says that behind the row of a final there is no partial which could go over it, and `WhatIsWrittenStays`
follows from that and from `Closed`: a handler that has launched the pass has ended its pump. The third layer, `Words`, is about the
audio: frames in segments, in what the VAD loop has set aside, in the queue, each before all that come later. It needs
`NoTail`: the audio set aside at a cut has been moved to the next segment before the loop listens
again. None of it assumes anything of the queues' sizes, the faults or the length of the recording.

`FlushStaysSound` is about waiting. If the pump waits, the queue to the client is empty, so the loop that
translates has room; if it waits too, so has the recogniser; if that waits, no job is queued and no segment either
(`SomeoneAnswers`). The VAD loop is the last in this line: with everybody else at rest it has room wherever it
stands, and where it waits for the next frame it has been told to stop. That needs `Due`: at rest between two frames the
stream loop has an endpoint or a partial to publish, and `flush()` has given the signal before it polls.

`ModelServers_proofs` proves that no server is in two hands (`Disjoint`) and that what is in a hand
runs (`Alive`). `HeldIsUsable` is not inductive without the lock: who loads is its first holder and the manager is not loaded then
(`LockInv`); only the backend of the manager has an endpoint (`ChatHands`); the next backend is an object no request has
heard of (`SwapInv`). `NoOrphans` needs `NoLeak`, a holder for each live server this run started, and for what a crash
left behind that until the reclaim is over nothing else happens (`Quiet`) and that each server owed is named by a file
still to be read or is being killed (`Owed`).

`Runtimes_proofs` has the smallest invariant. What is in memory is what was answered, and the file differs from it only in the hands of the
thread that has written it (`ChoiceInv`); what was imported is what is routed, unless the
import came after the question and before the new routing: once past the question, whatever is imported came
in that gap (`RoutedInv`); an archive that is there belongs to a job that has
yet to end (`ArchiveInv`). `ManifestMeansWhole` is inductive for any number of jobs on one pack,
because each move puts a whole directory in place. `AlwaysAChoice` is about the chain of
candidates alone: its last is the built-in one, which always fits, and of those that fit there is a first.

`SessionEdits_proofs` follows the text of a session through whatever is done to its rows. The lemmas go
from the inside out: what flattening and cutting a sequence do (`FlattenConcat`, `PiecesJoin`: the pieces of a text
are the text), what is left of it where rows are silent (`TextLeft`), what each operation makes of the rows it is given (`SplitsFacts`, `MergesFacts`, `DiarizedFacts`,
`RefinedFacts`, `UpsertedFacts`), then one lemma per action. `FlattenSeq` of the library recurs; what it is for every
argument is proved by induction with a set in the place of the statement (`Inductive`), so that no operator has to be
passed. None of the three properties is inductive, because every writer but the edits writes what it read
earlier. The invariant says of the rows (`RowsAreSound`) and of what each actor has read (`Sound`): both fit but where a user
left them unfit (`FitBut`), are named and are genuine; what a merge was given unfit it leaves in a row that inherits the exception (`Inherited`); the new ids a split can have made are older than the request that makes the next (`Before`); before the first
diarization no row is a part of another (`Whole`), so that the parts it cuts get ids nobody has; and unless an
actor is marked as having missed a change of words, each row it is about to translate is still there with the words it
read (`StillThere`), which is why the translation fits. Diarized a second time, rows can be parts already,
and one id twice makes the swap fail half way: the ids of `rows` stay distinct, the text does not stay whole.

## Only model-checked

- Liveness (`StreamEnds`, `EverythingSettles`, `RequestEnds`, `JobEnds`, `EverythingEnds`): temporal
  formulas under fairness are out of the reach of TLAPS here.
- The pure functions of `Algorithms`. `DeepMerge` is a `RECURSIVE` operator, and a module that reaches one is out of
  the reach of the SMT backend. The others are folds and selections with an operator of their own each: what they
  compute for every input would take an induction for each operator, as the theorem of induction that takes the
  operator as a parameter cannot be instantiated (`SessionEdits_proofs` does this for `FlattenSeq`, which takes none).

## What is not modelled

- The store's calls for groups, the glossary, minutes, speakers and conversations: one statement
  and a commit each, as those of `SharedConnection` that only commit.
- The queries of the search, the formats of the export, prompts and titles: formatting of one
  snapshot.
- Writing and mixing audio, embedding and clustering of voices, the backends' recognition:
  numeric; the models choose the result freely.
- Capture through the operating system, the platform modules, the start of the engine, the
  shells, packaging: calls to an operating system that has no model here.
- The HTTP client of chat endpoints, and the index of runtimes and of releases: external services; a model
  that uses them lets the call fail or answer.
- The web client: the engine's side of what it follows is in `JobStream`.
- Two overlapping writes of the settings, two overlapping update checks:
  their outcome is told above, and no property would hold of it.
