# TLA+ models of nelisp-skk-ime

An SKK input method for Windows. Applications load a text service DLL; the
conversion engine is DDSKK running in a NeLisp child process; a host process
owns the child and serves the applications over named pipes. These modules
model the parts of that system that are concurrent or persistent, check them
with TLC on small instances and prove their central invariants with TLAPS.

## 1. The system

| Component | Where | State it keeps | Operations |
| --- | --- | --- | --- |
| Engine host | `windows/host/main.cpp` | the child and its mutex, the owner of every session, the active legacy client, the set of composing sessions, idle and stop flags; dictionary maps, the skkserv connection; the state mirror, the singleton mutex | serve a connection, relay a request to the child, look up a word, publish a STATE, collect garbage when idle, stop |
| EngineClient | `windows/src/engine_client.cpp` | the pipe handle, `needs_resync_` | connect, resync RESET, one request and reply, time-out, cancel, disconnect |
| TextService | `windows/src/text_service.cpp` | the composition and those it is ending, the range parked for a registration, mode flags, provider threads and their sequence number, the queue of deferred keys | key events, conversion in the background, cancellation, focus changes, ended compositions, keyboard open and close, mouse |
| RealtimeFrontend | `windows/src/realtime_frontend.cpp` | raw keys, romaji prefix, preedit, kana mode | feed, backspace, commit, quit, transliterate |
| DDSKK dispatcher | `engine/ddskk-engine.el` | one checkpoint per session, the registration sub-session | the line protocol: KEY, CONTROL, CONVERT-KEYS, RESET, SESSION ..., COMPACT |
| skk-ime session | `engine/skk-ime-session.el` | the buffer, the reading and the candidate of a session | keys, controls |
| Personal dictionary | `engine/skk-user-jisyo.el`, `write-region` in `engine/skk-nelisp-compat.el` | the table, the base file, the journal, the pending counter | learn, purge, compact, load |
| Protocol codec | `windows/src/engine_protocol.cpp` | none | parse and format STATE lines |
| Sumi indicator and settings | `sumi-ui/indicator/` | the mode on display, the last line and sequence number seen, the pipe's backoff | poll, read the mirror, switch the engine |
| Framework, lattice engine | `framework/`, `engines/lattice/` | a second runner this host does not start by default | — |
| Configuration, language bar, mode indicator, candidate window | `windows/config/`, `windows/src/` | windows | clients of the host, registry |

How they interact. A text service calls its EngineClient from the UI thread and
from a provider worker; the client writes one request at a time to its pipe. A
worker thread of the host reads it, takes the mutex, talks to the child and
writes the reply. The child may ask the host for dictionary entries in the
middle of a transaction. The idle thread of the host takes the same mutex for
`GC` and `COMPACT`. The child learns words into the personal dictionary, which
is a pair of files.

What is hard:

* **The mutex is not the order of arrival.** A request that was read before its
  client timed out is executed after the request of the replacement connection
  if its worker gets the mutex later. The same holds for the ownership of a session.
* **Tests before the lock.** The collector tests idleness without the lock and again under it.
* **Stopping.** `wmain` blocks in `ConnectNamedPipe`; it is woken by a throwaway connect that can come too early or be taken by somebody else.
* **One legacy session for all unscoped clients**, with RESETs that focus callbacks send late.
* **Files without append and without atomic replace.** Every write truncates first.
* **Answers that come late.** A conversion runs on its own thread; meanwhile keys are typed, the focus moves,
  the user cancels, the application ends the composition. Its result is a window message that must then be dropped, or
  applied together with the keys queued behind it.
* **Compositions that end twice.** The service ends one itself and is told of it later, or the application does it first.
* **Copies of one fact.** The mode lives in the engine, in the frontend and in `kana_mode_`; the reading in the document, in the raw keys and in the engine.
* **A protocol inside a request.** The child asks for words in the middle of a transaction and takes any line for the answer.
* **Shared memory without a lock**, which outlives the host that wrote it.

Correctness, per component:

* host: records in the child and owners in the host agree; a session is closed
  when nobody uses it and not before; the collector does not disturb typing; a
  stop completes; no key goes to another client's conversion;
* client: after a failed call, display and engine agree again;
* dictionary: a word the user taught survives restarts, or the loss is confined
  to that word; the journal is given up only when the base file holds its contents;
* text service: every claimed key is delivered once, in order and in its own
  document, or cancelled for good; two Ctrl+G end anything;
* frontend: the raw keys it hands to the engine are the reading it shows;
* dictionary relay: each lookup and each request gets its own answer, and the mutex is given up;
* indicator: it shows a line the host wrote, in the end the newest one.

## 2. Modules

| Module | Models |
| --- | --- |
| `EngineHost` | the host process with its clients' pipe ends as environment |
| `EngineClient` | EngineClient objects composed with the host |
| `LearnedWords` | what the personal dictionary promises: a word-by-word durable store |
| `WordLookup` | what the dictionary relay promises: each question answered in one step, in its request |
| `StateMirror` | what the state mirror promises: a register written and read in one step |
| `UserJisyo` | the personal dictionary and its two files |
| `RealtimeFrontend` | the romaji automaton (operators) |
| `EngineSession` | one session of the engine, with registration (operators, over `RealtimeFrontend`) |
| `TextService` | the text service, its provider threads, TSF and the application, composed with the two above |
| `DictionaryRelay` | the host between the child, the dictionary files and skkserv |
| `Indicator` | Sumi's two processes and the life of the host processes |
| `EngineHostInv`, `EngineClientInv`, `TextServiceInv`, `DictionaryRelayInv`, `IndicatorInv` | the inductive invariant of each (`TextServiceInv`: two), conjuncts named |
| `MCEngineHost`, `MCEngineClient`, `MCUserJisyo`, `MCDictionaryRelay` | instances for TLC |
| `EngineHost_proofs`, `EngineClient_proofs`, `UserJisyo_proofs`, `TextService_proofs`, `SecondQuit_proofs`, `DictionaryRelay_proofs`, `Indicator_proofs` | theorems |
| `SetInduction` | induction over the natural numbers, and that a loop over a list has a value after every round and stays in its set |

### EngineHost

State: one record per connection (`worker`, `req`, `response`, `sessions`, and
`inbox`/`open` for the pipe), the globals under `g_engine_mutex` (`owners`,
`active`, `composing`, `composingFlag`), the idle thread (`gc`, `gcPending`,
`fresh`), the accept loop (`main`, `instance`, `nextId`, `stopping`, `wakers`)
and what the child knows of each session (`engine`: no record, idle, composing).

A worker's steps follow `ServeClient`: `Read` (ReadFile and NoteActivity, and
the requests answered without the child), `Lock` (the mutex, the owner map, the
refused RESET), `TakeOver` (the RESET that a change of legacy input client sends
first), `Dispatch` (the child's answer, the published state, the owner's
CLOSE), `Reply` (WriteFile, SHUTDOWN), `Cleanup` (FlushFileBuffers and the tail
under the lock), with `ReadFails`, `DispatchFails` (the child is dead) and
`ConversionFails` (a malformed CONVERT-KEYS, whose RESET and first keys are executed) for
the exits. `GcTick`, `GcEnter`, `GcStart`, `GcCollected`, `GcCompacted` are `IdleGcLoop`:
`GcEnter` tests idleness again under the lock, `GcStart` the composing flag and `g_gc_pending`,
and between the two a request can be read, because ReadFile and NoteActivity need no lock. `TestStopping` to
`Exit` are `wmain`. A transaction is atomic apart from its boundaries: the
mutex is held and only the child acts.

Abstractions:

* `KEY` stands for KEY and every CONTROL, `QUERY` for requests answered without
  a STATE line. What a KEY does in a session is left open (it ends idle or
  composing, answered STATE or ERR). `hidden` holds the sessions whose last
  input was not answered by a STATE (an ERR, a malformed conversion), because the host then cannot know their mode.
* `typist` is a ghost: whose input the legacy session holds.
* The child's record of a session appears with its first request and goes with
  CLOSE or when the worker that owns it leaves.
* ReadFile and NoteActivity are one step: a request counts as read when it is stamped. The
  tests of `GcTick` before the lock are one step too; `GcEnter` and `GcStart` make all of them again.
* A child that lives answers within the limits of Dispatch, 64 dictionary exchanges
  and the length of a line. Beyond them the code leaves with the child still waiting, and the CLOSE or RESET that
  follows is then taken for a dictionary's answer: the child keeps the record of a session that has no owner. The limit itself is in
  `DictionaryRelay` (`TooMany`, `swallowed`); `SessionsAreOwned` does not cover what it leads to.
* `wakers` separates the store of `g_stopping` from the throwaway connect.
* `IdleElapses` carries the only TIMING assumption: a request that has been
  read is answered within the idle interval (ten seconds by default), so the
  interval does not pass while one waits. A stop may also become visible
  slightly earlier than in the code (`Cleanup` and `RequestStop` are one step).
* Runs and properties keep scoped and legacy engine traffic apart: the
  dispatcher does not isolate unscoped requests from the active scoped session.

### EngineClient

One object per session id. `Call` starts a Transact, `Connect`/`ConnectFails`,
`Send` (the RESET if a resync is due, else the request), `Resynced`,
`Answered`, `Abandon` (time-out, cancellation, broken pipe at any wait),
`Reactivate` (Deactivate and the next Activate), `Leave`. It EXTENDS
`EngineHost` and moves its pipe ends only through the host's client actions.
`held` and `typed` count the keys of the composition in the engine and in what
the client was last shown; `overtaken` remembers sessions that an abandoned
request reached after the resync.

### UserJisyo

`table` is the hash table, `base` what the base file parses to, `journal` the
lines of the journal, each with its reading, its list and whether it ends in a
newline. `write-region` is two steps, because it truncates and then writes:
`Confirm` (in memory, read the journal, open it) and `WriteJournal`; `OpenBase`
and `WriteBase`, followed by `Verify` (read back and compare) and
`EmptyJournal`. `Purge` and `Compact` lead into the same flush. `Killed` ends
the engine between two of these steps and, as a fault, inside a write. `Load` is
the start. The constant `Faults` selects what can go wrong in an instance: a
file that cannot be opened for writing, a write that comes up short, a file that
cannot be read, a kill inside a write. A word cut in the middle is `Fragment`, a
reading cut in the middle `Garbled`; where exactly a write stops inside a line
is reduced to the cases that parse differently.

Loading is a loop of `Puthash` over the lines of the journal, on the table the base
file parses to (`ParseIntoTable`); removing a word from a list is a loop as well
(`RemoveEqual`). Both are written as functions of the round.

`LearnedWords` is the abstract store: `Learn` and `Forget` act in memory,
`Sync` brings some words up to date on disk, `Stop` and `Start` lose and
restore memory. `UserJisyo` implements it with `Durable`, the dictionary the
next start would load if the write in progress completed.

### RealtimeFrontend and EngineSession

Both are operators that take an object and return the object afterwards. Text
is the sequence of the *numbers of the keys* it was made from; which kana a key
becomes is left out. Letters stand for classes (a vowel, a consonant, `n`, upper
case, the mode letters, anything else), chosen so that every branch of
`FeedAscii` is taken; `Before` and `Completes` say which letter completes a kana behind which
prefix. A rule of two consonants (`ky`) is left out. `ModeAfterN` is the second pass of `FeedAscii`
after an `n`, where l or q is a mode key again. A session of the engine is a buffer (the same automaton,
because DDSKK is what the frontend imitates), whether a candidate is shown, the
reading it came from, and the registration editor's text. `Exec` gives the
outcomes of a request; a conversion finds one candidate or none, and none opens
a registration. The registration editor's cursor stays at its end, a conversion
inside it always finds a candidate, and a literal space typed in it has no text.

### TextService

One action per callback and per return of it:

| Code | Actions |
| --- | --- |
| `OnTestKeyDown`, `WouldClaimKey`, the head of `OnKeyDown` | `KeyDown`, `Declined` |
| `OnKeyDown` while a provider call is pending | `Defer`, `CancelForKey` |
| the provider's composition, the registration editor | `AskProvider` |
| Space on a reading | `StartConversion` |
| every other branch, with `Result` for what it returns | `Answered`, `Unanswered`, `ForceCancelComposition` |
| the detached threads | `Lock`, `Served`, `Lost` |
| `ApplyProviderResult` | `DropStale`, `ResultMissing`, `ResolveCandidate`, `EnterRegistration`, `ApplyProviderResult` |
| `ReplayDeferredProviderKeys`, one key at a time | `ReplayConverts`, `ReplayKey` |
| `OnCompositionTerminated` | `Acknowledge`, `ParkedEnds`, `ForeignEnds` |
| `ApplyKeyboardOpenChange`, candidate clicks, language bar, `Deactivate`, `Activate` | `CloseKeyboard`, `OpenKeyboard`, `ClickCandidate`, `SelectInputMode`, `Deactivate`, `Activate` |
| edit sessions that TSF grants later | `RunEdit` |

`OnKeyDown` is two steps, because `KeyDown` chooses the key and settles the old
document and the next step serves it; both are on the UI thread and nothing of
that thread comes between them, while provider threads may. `current` on a call
or message stands for its sequence number being the newest. `calls` are threads
that have not posted yet, `posted` the window's queue. `cut` marks a call that
`CancelIoEx` reached.

The environment is the constant `Events`: answers that do not come, failed
posts, asynchronous or denied edits, late callbacks, compositions the
application ends, closing the keyboard, clicks, activation. History variables
(`where`, `quits`) record in which document a key was pressed and how many Ctrl+G
came in a row.

Simplifications. The engine is `ddskk`. Creating the provider's window or a thread succeeds. TestKeyDown and KeyDown make one claim
decision. A synchronous call on the UI thread does not race a worker that is
inside its own call (in the code both would write to one pipe). A request that
was abandoned is either executed or lost while its thread is in the call; that
it may be executed later still is the subject of `EngineClient`. Requests are
scoped to a session, so CONVERT-KEYS is the dispatcher's. An unresolved
consonant is dropped at a conversion, `n` is kept. An edit of another context's
composition fails under this context's lock. Where an edit is granted
asynchronously, its position in the document is abstracted.

### DictionaryRelay

`Dispatch` and `NextOfPlan` write a request line (`plan` is what is left of
DispatchConvertKeys), `ReadAnswer` and `ReadServer` read what the child says,
`TooMany` is the limit on exchanges. One KEY of a plan stands for the run of them; the
STATE of a registration, which stops the plan as a candidate's does, is folded into `shown`; the early return on a
malformed key is in `EngineHost` (`ConversionFails`). A lookup is `LookupFile` or, when the files lack the word
(`NotBuiltin`), up to two attempts of `Connect`/`ConnectFails`, `Send`,
`Receive`/`ReceiveFails`, then `GiveUp`. `LoadFile` and `Publish` are the loader thread; a file that cannot be
read leaves an empty map. `MergeEntry` and `MergeAll` walk the tokens of each entry as the code
does. `MaxRequests` bounds the requests that begin; the plan of a DispatchConvertKeys
runs to its end. The child is its loop: a request in, SERVER lines, an answer out; the line
it reads after SERVER is taken for the answer whatever it is. skkserv stops,
starts and answers slowly on its own.

`WordLookup` has a question, a reply and an answer at a time. Its lists are any that
some of the files make together (`Readable`), since a file that cannot be read counts as
empty; the one request that a waiting child takes for a reply is `missed`. `DictionaryRelay`
implements it (`QuestionsAreAnswered`): the pipes, the loader thread, the attempts at a
connection and the server's life are steps that change nothing there.

### Indicator

A host process goes through none, started, loading, clearing, up, stopping;
`Holders` are those with the named mutex. The mirror has two halves that are
written (`Serve`, `Copy`, `Published`) and read (`ReadSequence`, `ReadHalf`,
`CheckSequence`) one at a time. A new host clears it in any order, which is open to
a kill: memory cleared in part stays behind. `life` is a ghost, the host whose
cleared memory it is, 0 while it is being cleared; Sumi's copy carries the one
it was taken from. The resident Sumi falls back to STATUS with PipeClient's backoff. The settings
window saves the engine, sends SHUTDOWN (answered without the engine mutex, after
which the connection closes), starts a host and polls.

Simplifications. Saving settings and mapping the memory succeed; a second Apply
while the first one polls is left out; the reply to SHUTDOWN and the stop flag
are one step; the pill window is hidden, so its clicks are left out; only the
resident process heeds the backoff (the settings window's client is used too
briefly). The death of a child is that of its host.

`StateMirror` is a register: a host publishes a line in one step, and the line Sumi
takes is the register's value at that moment, except in a read during which another host
began to clear the memory. `Indicator` implements it (`MirrorIsARegister`), half-written
lines and half-made copies included.

## 3. Runs

| Run | Instance | Shows |
| --- | --- | --- |
| `host_scoped` | 2 connections, 1 session; KEY, ENGINE SET, CLOSE | sessions and owners agree (`SessionsAreOwned`); the inductive invariant `IInv`, which includes `TypeOK`, holds |
| `host_legacy` | 2 unscoped clients; KEY, RESET, SHUTDOWN | `OneTypist`, `NoLostWakeup`, the collector defers to conversions (`GcSparesComposition`); its last test of idleness never succeeds while a request waits (`GcDefersToWaitingKey`) |
| `host_stop` | 2 connections, 1 session, fairness | `StopCompletes`, `AbandonedSessionsReleased` |
| `client_resync` | 1 text service, 2 connections, 1 key | the inductive invariant `ClientInv`; after an abandoned request client and engine agree again (`ResyncRestoresAgreement`) |
| `jisyo_durable` | 2 readings, 2 words, batch 2, writes all or nothing | `NoWordTwice`, and the refinement of `LearnedWords` (`WordByWord`) |
| `jisyo_faults` | the same with every fault | `TypeOK`, `JournalGivenUpWhenSaved`, and that the last line of a reading decides (`OnlyTheLastLineCounts`, against the loop of puthash) |
| `text_service` | 2 documents, 8 kinds of keys, 5 keys, 2 provider calls, no fault | keys are neither repeated (`EachKeyOnce`), reordered (`ArrivalOrder`) nor shown elsewhere (`KeysStayInTheirDocument`); cancelled text stays away (`CancelledStaysCancelled`); the reading shown is sent to be converted, whole (`ShownIsSent`); modes agree (`KanaModeIsShared`); one Ctrl+G ends the provider's conversion, two the reading (`SecondQuitEnds`); queued keys are served (`QueuedKeysAreServed`) |
| `text_faults` | 1 document, 5 kinds of keys, 4 keys, all twelve kinds of events; of those the user and the application cause, two to a behaviour | the inductive invariant `IInv`; no candidate list is stranded (`CandidateUiOwned`); a late callback leaves a newer composition alone (`NewerCompositionSurvives`); a registered word replaces its reading (`WordReplacesReading`) |
| `relay` | 2 files, 2 words, 2 requests or plans, limit 1, 2 incidents | the refinement of `WordLookup` (`QuestionsAreAnswered`), `IInv`, `LookupAnswersItsWord`, `AnswerIsForItsRequest`, `MergeIsUnion` (against the order of first appearance, for all pairs of short entries and for the files), `RestartedServerIsUsed`, `BarrierShowsFirst`, `DispatchEnds` |
| `indicator` | 2 hosts in turn, 2 transactions, 2 lines, 2 incidents | the refinement of `StateMirror` (`MirrorIsARegister`), `IInv`, `AcceptedCopyIsOneLine`, `NewestStateShown`, `ReadyMeansRestarted` |

Runs that end in a violation, each a disagreement between the code and what the
repository says of it (quoted in `PROJECT.json`, "findings"):

| Run | What happens |
| --- | --- |
| `jisyo_crash` | kill inside an append: the journal is lost with it |
| `text_cancelled` | a conversion is cancelled while its lookup runs; the lookup finds nothing and leaves a registration in the engine; the next Ctrl+J closes it and its reply brings the cancelled reading back |

Five more configurations end in a violation as well. They are kept
beside the runs to be replayed by hand (`tlc -config text_arrow.cfg TextService`,
`tlc -config host_gc.cfg MCEngineHost`):

| Configuration | Property | What happens |
| --- | --- | --- |
| `text_arrow` | `KeysStayInTheirDocument` | an arrow key goes to the engine although the reading is the frontend's (`text_service.cpp:1760-1785`); the engine has nothing to move and answers without a composition, the shown reading goes, but the frontend is only reset after a candidate, a registration or a provider's composition (1993-1997). The next key shows the reading again, in whichever document has the focus. `v1-goals.md:56` says that no prior unconfirmed state can appear in a later input episode. F7 and Space on a romaji prefix without a reading take the same path |
| `text_erase` | `EachKeyOnce` | `RealtimeFrontend::Backspace` without a reading shortens the prefix and keeps `text_` (`realtime_frontend.cpp:211`): k, k, Backspace hands the doubled consonant out and the next key hands it out again (`v1-goals.md:82`: no duplication) |
| `text_latin` | `ShownIsConverted` | `FeedAscii` records a key before it finds that the mode is latin (`realtime_frontend.cpp:109`), and `ToHiragana` keeps it: a key replayed after an `l` is converted in front of the next reading (`v1-goals.md:56`) |
| `text_n` | `EachKeyOnce` | a mode letter of direct input behind a pending `n` is fed a second time (`realtime_frontend.cpp:175-181`) and returns from the mode-key branch (110-121, 131-136), which does not clear `text_`: `n`, `l` hands ん out, and Ctrl+J hands it out again (`v1-goals.md:82`: no duplication) |
| `host_gc` | `NoKeyQueuesBehindGc` | a request is read between the collector's test of idleness under the lock (`main.cpp:1276`) and GC (1287), and waits for a collection that had only been decided upon. The comment at `main.cpp:1137-1138` says that "a real keystroke can never queue up behind a GC that had not yet started". The window is short and the wait is one collection; what the code does ensure is `GcDefersToWaitingKey` |

Further disagreements met while modelling, which have no run of their own:

* A request abandoned by its client is executed after the resync RESET, if its
  worker gets the mutex later (`ResyncRestoresAgreement` excludes exactly this), and
  that worker can take the session back and close it (`engine_client.cpp:89-92`, `main.cpp:1112-1114`).
* A request that is read while GC runs waits for COMPACT too (`main.cpp:1302-1307`).
* When no further pipe instance can be created the host exits under its last client (`main.cpp:1679-1681`).
* After the save of a purge, a kill before the journal is emptied brings the word back (`skk-user-jisyo.el:588-590`).
* After a provider call that times out, the keys queued behind it stay, and are
  replayed behind keys typed later (`text_service.cpp:434`). A failed `PostMessageW` leaves every later key queued until Ctrl+G or Esc.
* Finishing a registration leaves the word in the session's buffer, so that an idle Ctrl+J
  inserts it again; a registration left open answers CONVERT-KEYS with ERR.
* Closing the keyboard neither cancels the provider nor resets the frontend; choosing
  kana from the language bar after a typed `l` changes `kana_mode_` but not the frontend.
* A candidate ended by a click or by the application leaves `last_engine_mode_` at
  "candidate", and the next letters go to the engine instead of the frontend.
* Shift+Q on an unfinished direct romaji sends a control to an idle engine, with the
  result that `text_arrow` shows for the arrow keys.
* The second Ctrl+G can bring text back (`SecondQuitEnds` with `unknown` or `denied`). A conversion that was
  cancelled may leave a registration in the engine: the first Ctrl+G restores a reading and resets
  the frontend, the QUIT of the second reverts the registration to the cancelled reading. An edit that the application denies
  keeps the composition; the engine's stale candidate is then what QUIT reverts. `v1-goals.md:55` says that Ctrl+G
  terminates every composition and registration.
* When a registration opens behind a queued key other than Enter, Backspace or
  a letter, that key is dropped and the ones behind it wait for a further result.
* Ctrl+J in the registration editor goes to the application: the branch that swallows it
  is not reached, because WouldClaimKey has declined the key (`text_service.cpp:1572-1578`).
* An asynchronous state edit is written to whatever composition exists when it runs.
* A new host numbers its lines from 0 in memory that Sumi has kept, so a line can have
  the number Sumi saw last and be missed; a host that dies leaves its last line on display;
  a first poll before the host exists counts as a mode on display, so no STATUS follows once the memory is mapped.
* A host killed while it clears the memory leaves it cleared in part, under a sequence
  number that can be even and not 0: Sumi then accepts text no host wrote, until another host clears the
  memory (`app_read_state_mirror`, `main.c:499`). `AcceptedCopyIsOneLine` is about memory that a host has finished clearing.
* The settings window starts a host at once after SHUTDOWN; if the old one still holds the
  mutex the new one exits, and nobody starts another. It does not look at SHUTDOWN's result.

`text_service` therefore leaves out the keys and events of these cases, and its
properties say what holds without them; `text_faults` includes them, with
properties they do not touch. The boundary was explored beyond the run, by random behaviours of ten keys and three calls in two documents: with
everything but the arrows, F7 and the unfinished `n` and `k` of direct input (fourteen keys) no safety property of
the run is violated; an `n` with Space violates
`KeysStayInTheirDocument`, which is the prefix case of `text_arrow`. `SecondQuitEnds` fails with `unknown` (registrations) and
with `denied` (edits), and with none of the other ten events taken alone.

Bounds. Two connections are the fewest with which a session can be taken over,
a legacy conversion disturbed or a stale worker be late, and each of these
involves one pair; the safety properties of the host are proved for any number
and for every set of requests, those no run sends (STATUS and the unscoped QUERY)
included.
`MaxKeys` 1 distinguishes "no key", "the right key" and "one too many" (counts go one beyond it). Two
readings show whether a write for one disturbs the other and two words whether
the order of a list is kept; `Cap` 3 exceeds the batch size, so a compaction can
be late. `ShortLists` bounds how torn lines pile up over restarts in
`jisyo_faults`. `NeverIdle` keeps the collector out of the client runs: to a
call it is a delay, which `Abandon` and free scheduling cover.
Deadlock is checked in the dictionary runs. It is not checked in the host's,
where the process really ends.

In `text_service` five keys are a reading, its conversion, two keys queued behind
it and one in another document; two calls are a cancelled one and its successor.
`text_faults` needs two incidents: a registration must be opened and its
composition ended. In `relay` the limit is 1 with requests that look up two
words, the smallest case that exceeds it; two requests are the one that
exceeds and the one that is swallowed, and a plan adds lines behind them. In `indicator` two
transactions overwrite each other under a reader, two lives are a memory cleared
under a reader, or left half cleared by a kill; `Cap` 1 and `Budget` 2 stand for 8 ticks and 50 polls. Deadlock is not checked
in these four: the bounds end the behaviours.

Fairness.

* `host_stop`: each worker and the accept loop are strongly fair, because they
  wait for a lock that is not a queue; the wake-up and the idle thread are
  weakly fair. This includes that the child answers or dies: a child that hangs
  blocks the host, which the code does not handle. Clients, timers and the
  child's death have no fairness.
* `text_service`: the UI thread, the provider threads and the delivery of posted
  messages are weakly fair: `Transact` has a time limit, the provider mutex is
  held for one call, and a posted message reaches a thread that pumps. Keys and
  TSF have none.
* `relay`: the loader, the host's thread, the child and the answers of a
  connected skkserv are weakly fair: send and recv have a limit of 150 ms (`main.cpp:773-780`), and
  connect, which has none of its own (785-789), is ended by the operating system's, so
  `DispatchEnds` does not depend on skkserv. Requests and incidents have none.
* `indicator`: the poll timer and the host's steps are weakly fair.

## 4. Theorems

`EngineHost_proofs`: `HostInvariant` proves `Spec => []IInv`. `IInv` is needed
because no property is inductive by itself: that records and owners agree
depends on who is inside a transaction (`MutexHeld`, `RequestInHand`,
`DispatcherOwns`), that the collector spares conversions depends on the
composing set missing none (`CompositionsTracked`), that keys of one client stay
out of another's conversion depends on `ActiveTypist`, and that the wake-up is
not lost on the state of the spare instance (`SpareInstance`). From it follow
`HostTypes`, `SessionOwnership`, `LegacyIsolation`, `StopIsNoticed`, `GcIsPolite` and
`GcIsOrdered` (no request waits when the last test of idleness succeeds, and no collection starts without that
test; not that none is read before GC is sent, see `host_gc`), for every number of connections, every set of sessions and every
traffic. The only assumption is `HostAssumption` (ids are distinct, traffic
consists of requests).

`EngineClient_proofs`: `ClientsImplementHostProtocol` shows that the composition
with the real client implements the host's specification, so that
`ReconnectOwnership` follows from the host's theorem; `ClientTypes` is the
client's type invariant. `ClientInvariant` proves `ClientInv`, which puts the two
sides together. Its `Lanes` say where the client's worker can be at each point of
Transact: nothing asked, the client's own request in the pipe or in the worker's
hands, or its reply; so what the client reads answers what it sent, and a worker
left over from an earlier connection is never mistaken for it. Its `Agreement` says
what the session holds: from the answer to the resync RESET on, what the client
was shown or will be when it reads the reply, and the session is the client's
unless an abandoned request is inside its transaction at this moment
(`StaleInside`); when that one completes the session counts as overtaken.
`ResyncAgrees` is the case in which no call is in progress. The argument needs
the host's invariant for one step only, but an essential one: a worker that
completes a transaction owned the session it ran in (`DispatcherOwns`), and no
other is inside (`MutexHeld`). `ClientAssumption` restricts the calls to KEY, RESET, QUERY and PREVIEW.

`TextService_proofs`: `ServiceInvariant` proves `IInv`, for every set of documents,
keys and events (all faults at once) and every bound. It does not speak of texts.
`Identities` gives each composition that TSF can still mention one identity and one
role: the current one, one that is being ended (its callback to come or its edit
still to be granted, never both), or one left to the application. `NewestCall`
says that at most one provider call or posted result counts. `ListOwner` ties the
candidate list to a call under way or to the provider's composition. It follows
that a late `OnCompositionTerminated` touches nothing (`NewerSurvives`: the identity
it carries is not the current one's), and that an open list always has somebody
who will close it (`CandidateListOwned`). `TypeCorrect` includes that flags agree with
the records they summarise. Every action is taken apart into what it does to the
modes and settings, to the compositions and to the queues, and each part has its lemmas.

`SecondQuit_proofs`: `SecondQuit` proves `SecondQuitEnds` for every set of documents and keys, any number
of keys and calls, under `Calm`. What it says: after one Ctrl+G no conversion runs and no candidate of the provider is shown,
after the second no composition either, although provider calls may time out, be served after they were cancelled, fail to post their
result or post it late, and callbacks come late. What it does not say anything about: registrations (conversions find candidates), denied
edits, an abandoned request that is overtaken, the application or the user ending things otherwise (mouse, language bar, closing the keyboard),
and Q, which opens the conversion to the other kana. `Calm` is where the property was examined, and part of it is necessary
(section 3). Beyond `IInv` the argument needs `QuitInv`. Calls run in the order they were made and a call that
still counts is the last one (`CallsInOrder`), so a result that is shown tells what the session is now
(`ResultIsTrue`); hence whatever is shown belongs to a frontend that composes, or the engine rests as well (`Owned`). The first
Ctrl+G then leaves no call and no provider's composition, and what its cancellation put back the second
one finds in the frontend (`Quits`). That the frontend rebuilds a reading of its own type from the
raw keys, however many, and the engine from the keys it is sent, are the lemmas `RebuiltIsFrontend` and `FedStays` about the
loops of `RebuildPreedit` and `FedString`. `ServiceAssumption` says that the null context is
no document. `QuitInv` was checked by TLC before it was proved, on one and on two documents with the events of `Calm`.

`DictionaryRelay_proofs`: `TurnInvariant` says whose turn it is. While Dispatch reads,
exactly one line is in flight and it is the request, a dictionary's answer, the
child's question or its answer (`Reading`); while it looks up, the word is the one
the child waits for (`LookingUp`); nothing is left on the connection to skkserv behind
the lookup that sent it (`Connection`), which is why a slow reply must cost the
connection; `AtRest` admits the one exception, a child left waiting by the limit on
exchanges. `LookupAnswers`, `AnswersMatch`, `Barriers` and `RestartUsed` follow, for
every dictionary, limit, number of requests and incidents (`RelayAssumption`:
dictionaries map words to entries, the limit is positive).

`RelayImplementsLookup` is the refinement: under the mapping a question is in flight from
the child's SERVER line to the host's reply, so that pipes and connection steps are invisible, and each visible step
is one action of `WordLookup`; `TurnInvariant` supplies whose turn it is. `FilesAreMerged`
is about `MergeBuiltinCandidates` alone: for any number of entries of any length the merged list is the union, each text once, with
its first annotation, in the order of first appearance. It is an induction over the files and over the tokens
of each (below); `MergeUnion` applies it to the published maps.

`Indicator_proofs`: `MirrorInvariant` has one part for the sequence lock and one for the
switch of engines. `Writer` says that only the holder of the named mutex writes and
that the number is odd meanwhile; `Reader` that what Sumi has copied is still
what it would copy as long as the number, and the host, are those it began with.
Neither holds by itself: that the number never returns needs that it only grows
within the life of a host. `WholeLines` follows. `Restarted` follows the SHUTDOWN:
once it is answered every host that can be reached has read the new registry, hence
`ReadyIsTheChosen`. `IndicatorAssumption` says that the lines are not blank.
`SequenceLockImplementsRegister` is the refinement of `StateMirror`: the register changes when the
sequence number becomes odd, because from then on nothing but the new line can be accepted, and
`Reader` shows that an accepted copy is the register's value at that moment.

`UserJisyo_proofs`: `JournalIsGivenUpSafely` needs only that the base file
equals the table between verification and truncation, and holds under every
fault. `DictionaryIsDurable` is the refinement `UserJisyo => LearnedWords` when
writes are all or nothing. Its invariant says in addition that every journal
line is whole, from which `ReplayAppend` derives that a new line replaces the
entry of its own reading and no other. `TypeCorrect` proves the type invariant under every fault,
`WordsAreListedOnce` that no list ever has a word twice unless writes come up short (a line continued by another repeats words),
`LastLineDecides` that a load gives each reading its last line.

`SetInduction` is how proofs about loops are made. The library's induction theorems take an
operator as a parameter, which no installed prover instantiates. Here the property is a set
of numbers: a set that contains 0 and is closed under successor contains all of them (`NumbersBySuccessor`), which follows
from the strict subsets of finite sets being well founded. `LoopHasValues` gives a loop over a list a value after
every round and `LoopStays` keeps it in a set; a loop in the model is a function of the round, and its lemma (`RemovalLoop`, `MergeLoop`, `FilesLoop`)
turns the model's definition into that. What remains is an invariant of the loop.

tlapm 1.4.5 takes two CASE expressions for the same when their first arms and their OTHER agree. No proof
depends on it: all of them also pass with every CASE of the modules written as nested IFs.

Only model-checked, and why:

* liveness (`StopCompletes`, `AbandonedSessionsReleased`, `QueuedKeysAreServed`, `DispatchEnds`, `NewestStateShown`):
  fairness and ENABLED are out of reach of the provers;
* of `TextService` the properties that compare texts or modes after the automaton has run over the raw keys
  (`EachKeyOnce`, `ArrivalOrder`, `KeysStayInTheirDocument`, `ShownIsSent`, `KanaModeIsShared`,
  `WordReplacesReading`, `CancelledStaysCancelled`). They hold for some alphabets and not for others (section 3), so
  a proof would need what a frontend's raw keys rebuild for exactly those keys;
* `SecondQuitEnds` with what `Calm` leaves out and what does not violate it: Q, arrows and the unfinished `n` and `k`, and `overtake`, `terminate`, `close`,
  `mouse`, `langbar`, `reactivate` were explored one at a time, on small instances.

## 5. Not modelled

* The lattice engine's keys in the text service, the passthrough engine,
  `SelectCandidate`, candidate previews (a second pipe of their own), the caret
  mirror and the mode indicator.
* Which kana, candidates and okurigana DDSKK produces; the cursor keys of the registration editor.
* A child that hangs; failures of event creation and of the pipe mode; reuse of
  a process id in session ids; the limit on the length of a line.
* Hexadecimal encoding and field parsing of the protocol; the registry and settings format.
* The framework and the lattice engine (another runner, sequential), configuration and
  language-bar windows, COM registration: no state that several actors share.

## 6. Where to go on

The safety invariants and refinements of the host, its clients, the dictionary, the relay and the
indicator are proved. What is open concerns texts in `TextService`: an invariant that gives, for every key, the one
place where it is (document, composition, frontend, queue, a call, a result) would prove `EachKeyOnce` and
`KeysStayInTheirDocument` for the alphabets of section 3; the loops of `RebuildPreedit` and `FedString` have their
first lemmas in `SecondQuit_proofs`. `SecondQuit` could shed the rest of `Calm`, one event at a time. If the disagreements of section 3 are repaired in the code, their keys
belong into `text_service`.
