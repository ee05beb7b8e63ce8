# sussybard: models, checks and proofs

sussybard turns a MIDI keyboard into the Bard instrument of a game. It takes
note events from a MIDI device (or from another sussybard over UDP), presses
the keys of the game's 37-key instrument for them, plays them on a small
synthesizer so that the player hears what he plays, and can mirror a second
window of the keyboard to a partner over UDP. These TLA+ modules model that
program; TLC checks them on small instances, and TLAPS proves for all instances
every safety property that the runs check: of the router, the ring, the threads
that share it, both audio backends, both MIDI sources, the UDP mirror and the
command line with the startup.

Line numbers are those of the files under `src/`.

## 1. The system

| part | source | state | operations |
|---|---|---|---|
| note router | `sussybard.cpp` 195-286 | a `MonophonyTracker` per player (local, remote): the offset of the key it holds or -1 | one loop iteration per event: send to the partner, play on the remote tracker, play on the local one; release on exit |
| key sink, bind table | `key_sink_*.cpp`, `sussybard.cpp` 51-73 | the connection; the table from offsets to key codes | `init`, destructor; `dispatch` of up to two key events |
| synthesizer | `synth.cpp` | a ring of 4096 words, `write_count`, `atomic_write_count`, `read_count`, two FM voices | `post_note_on`, `post_note_off` (main thread); `mix_samples` (audio thread) |
| PulseAudio backend | `audio_pulse.cpp` | mainloop, context, stream, `has_success`, `success`, `is_active` | `init`, `start`, `stop`, destructor (main thread); state, success and request callbacks (mainloop thread) |
| WASAPI backend | `audio_wasapi.cpp` | `dead`, `is_active`, the audio event, the device's buffer | `init`, `start`, `stop` (main thread); `thread_runner` (audio thread) |
| interleaving | `dsp.hpp` | none | `interleave_stereo_f32` |
| MIDI source, Windows | `midi_source_win32.cpp` | `note_queue` under a mutex, a condition variable, the device | `init`, destructor; `midi_callback` (driver thread), `wait_next_note_event` |
| MIDI source, ALSA | `midi_source_alsa.cpp` | the sequencer client | `init`, destructor; `wait_next_note_event` |
| UDP mirror | `udp_sink.cpp`, `midi_source_udp.cpp` | two sockets | `init`, destructors; `send`, `wait_next_note_event` |
| command line, startup | `cli_parser.cpp`, `sussybard.cpp` 75-192 | the remaining arguments, `Arguments`, the devices opened and what they hold | `parse`, the callbacks, opening each device, the destructors |
| FM voices | fmsynth (submodule) | voices | not in the repository |

How they interact: `main()` is the only thread that decides anything. It blocks
in the MIDI source, which a driver thread (Windows), the kernel (ALSA) or the
network (UDP) feeds. It hands key events to the window system and datagrams to
the network, both asynchronous FIFOs, and words to the audio thread through the
lock-free ring. The audio thread belongs to the backend, calls `mix_samples`
when the device wants frames, and shares with the main thread the mainloop's
lock and `is_active` (PulseAudio), or `dead` and an auto-reset event (WASAPI).

What is hard about it, and what makes each part correct:

- **Router.** The game shows no error when a key stays down or a press is
  ignored. Whatever the order of presses and releases, one key at a time may be
  down, it must be the last one pressed, and none may be left at exit. The
  synthesizer must sound the same note although it is told in another order.
- **Ring.** One producer and one consumer without a lock; nothing tests that
  the ring is full; 32-bit counters that wrap.
- **Backends.** Threads that start, stop and are joined while a server or a
  device answers, refuses, dies or falls silent; waits that wake for other
  reasons; a flag written outside the lock; a buffer measured and then used.
- **Sources.** A wait that must not miss a push; events lost by an overrun;
  two ways of saying note-off.
- **Mirror.** A network that loses, duplicates and reorders; a note in seven
  bits.
- **Startup.** Options in any order, repeated, after `--help`; devices opened
  one after the other, each of which may fail at any of its calls with some of
  its handles taken, while a MIDI driver already delivers events.
- **All together.** Four threads' worth of queues between a finger and the ear;
  an iteration of the loop is many steps to its neighbours.

`PROJECT.json` lists the hazards line by line with the properties that cover
each.

## 2. The modules

| module | models | composed of |
|---|---|---|
| `Monophony` | `MonophonyTracker` and `handle_note` as operators: tracker, key events and posts of one event | |
| `SynthNotes` | the words posted to the synthesizer and what a word does to a channel | |
| `KeySink` | bind table, `dispatch`, the window system replaying requests | `Monophony` |
| `UdpWire` | the one-byte datagram, both ways | |
| `NoteRouter` | the loop of `main()` with both players, and its exit path, an iteration a step | the four above |
| `BardKeyboard` | abstract: a keyboard of one key at a time | refined by `NoteRouter` |
| `SynthRing` | the ring, one memory access per step | |
| `NoteFifo` | abstract: a FIFO of notes | refined by `SynthRing`, `MidiQueue` |
| `MainThread` | keyboard, loop of `main()` call by call, ring, audio thread, window system | `KeySink`, `SynthNotes`, `UdpWire`, `SynthRing`; refines `NoteRouter` |
| `Interleave` | `interleave_stereo_f32` as an operator, and the output a whole request must have | |
| `PulseBackend`, `WasapiBackend` | the audio backends with their threads | `Interleave` |
| `MidiQueue`, `AlsaSource` | the MIDI sources | |
| `UdpMirror` | two Bards and the network between them | `Monophony`, `UdpWire` |
| `Devices` | the calls of every `init`, and what the destructors release, as data | |
| `Startup` | command line, devices opened and closed | `Devices` |
| `OperatorProofs` | lemmas about the operators above: `Monophony`, `SynthNotes`, `UdpWire`, `Interleave`, and sequences | |
| `NoteRouterProofs`, `MainThreadProofs`, `PulseProofs`, `WasapiProofs`, `SourceProofs`, `UdpMirrorProofs`, `StartupProofs` | proofs; those about `SynthRing` are in `MainThreadProofs`, those about both MIDI sources in `SourceProofs` | |
| `MC*` | instances for TLC | |

Correspondence, module by module:

**NoteRouter.** `held[p]` is `pressed_note_offset` of the player's tracker.
`RouteEvent(ev)` is one whole iteration of the loop, `\E ev` the event the MIDI
source delivers: `Mirrors` is the test of line 271, `Handles` combines
`note_is_in_range` with the short-circuit of line 274, `HandleNote` is the body
of the lambda. `SendFails` is the `break` of line 272 (the event is not played),
`SourceFails` the end of the loop, `ReleaseOnExit` lines 278-283. `keyQueue`
(window system: `ReplayKey`), `noteQueue` (audio thread: `ApplyNote`) and `wire`
(network: `TakeDatagram`) are consumed one entry at a time. `notesDown` and
`lastPressed` are history.

**MainThread.** Here the same loop is taken apart: an event leaves the source's
queue (`TakeEvent`), the datagram is sent and the trackers change (`Route`),
each word is stored and then published (`StoreWord`, `PublishWord`, the two
stores of `SynthRing`), each key event is handed over (`DispatchKey`). In
between the audio thread reads the ring (`ReadWord` applies the word it reads),
the window system replays and the player plays on. `Router` is
`NoteRouter` under a refinement mapping that puts the words and the key events
still to come at the end of its queues; `RefinesRouter` says that every step is
one of `NoteRouter` or invisible to it, until the ring is lapped. This is the
justification of the atomic iteration, and carries the theorems about
`NoteRouter` over to the threads.

**SynthNotes.** A word is represented by what `mix_samples` extracts of it:
bit 31, bit 16 and bits 0-7. `PostNote` computes them from the int note in two's
complement, so a negative note sets the note-on flag and the channel bit. A note
of 256 or more wraps in the low byte.

**SynthRing.** `StoreSlot`/`Publish` are the two stores of a post, `LoadTarget`,
`ReadSlot`, `LoopEnds`, `Render` the steps of `mix_samples`. The release store
and the acquire load make interleaving semantics sound for slots below the
published count. A slot stored again while it is being read is a data race in
the C++ sense; the model lets the reader have the old or the new word, and
`lapped` records that it happened. `posted`, `published`, `loaded`, `consumed`
are history.

**PulseBackend.** `mainPc` follows `init`, `start`, the loop, `stop`, `~Pulse`
and `~Synth`; `lock` is the mainloop's lock; `Wait` gives it up and `Reacquire`
takes it back. Callbacks run with the lock and only between two others. The
server answers in `ContextAnswers`, `StreamAnswers`, `CorkAnswers`, asks for
frames in `RequestBegins` and may die in `ServerDies`, which drops a pending
cork without calling back. `is_active` is not atomic and is written outside the
lock: `activeSeen` holds the values the callback may read, two of them between
the write and the next unlock. `MixBlock` is one turn of the loop over blocks;
`output` is the buffer handed back, sample by sample.

**WasapiBackend.** `Kill`, `Wake`, `Join` are the three steps of `stop`; the
audio thread's program counter follows `thread_runner` and the helpers it calls,
`CallFails` is any failing call of the device, `DevicePlays` the device, which
plays some frames and sets the auto-reset event. `MixBlock` and `output` are as
in `PulseBackend`.

**Interleave.** A sample is named by its channel and frame. `InterleaveStereo`
is what the vector loop (`UnpackedFour`: the two unpack instructions) and the
scalar loop (`InterleavedOne`) store for a block; a block that the vector loop
overruns would be longer than it should be.

**MidiQueue.** A critical section is a step; `SpuriousWakeup` is allowed by the
condition variable. `OpenDevice` is `init`, after which the driver calls back
while `main()` is still `"starting"`; `EnterLoop` and `LeaveStartup` are the two
ends of that, the second with the destructor. `LeaveLoop` is the `break` of
line 272 with the event in hand.

**AlsaSource.** The ALSA library reads the sequencer's whole pool at once
(`ReadPool`) and hands events out one at a time (`HandOut`, a turn of the loop
of `wait_next_note_event`; with a note in hand `main()` comes back for the next
or breaks at a failed send); a full pool loses events and makes the next read
fail (`InputFails`; external, as `snd_seq_event_input` documents). `delivered`
and `given` are history; `GivenFirst(n)` says that `main()` has been given the
notes of the keyboard's first `n` events, all and in order.

**UdpMirror.** The sender is reduced to its remote tracker and the receiver to
its local one; a datagram is a byte. `Receive(i, duplicated)` takes any datagram
in flight, so that it may overtake older ones, and may leave a copy of it
behind; `Lose(i)` loses one. `WindowsMatch` says that the two command lines go
together. `disturbed` records that something was lost, overtaken or too big for
seven bits.

**Startup, Devices.** One action per option; `std::stol` is the constant
`NumberOf`: the value, or nothing if it throws or does not fit in an int. After
that every `init` is a sequence of calls (`Devices`), each with the handles it
takes and gives back: also those of the audio backends (`PulseCalls`,
`WasapiCalls`), whose threads and waits are in their own modules. `CallGranted`
and `CallRefused` make one call at a time, on either platform, and `Unwind` runs
the destructors in the reverse order of the declarations, from wherever `main()`
returns. `ReleasedBy` is what they release; `NeverReleased` what none does: each
`WSAStartup` takes a reference to Winsock and `CoInitialize` one to COM, and no
code gives them back. `exit()` in `get_keycode` runs no destructor.
`DevicesAsked` is what the command line asks for by the words of the help, where
`--midi-source` names a MIDI device; `UdpThenMidi` is the case in which the code
opens a UDP port of that name instead.

## 3. The runs

Every action and disjunct of every next-state relation fires in a passing run.

| run | instance | shows |
|---|---|---|
| `router_solo` | default windows, no UDP sink, notes 35, 36, 40, 72, 73, a key map in which two characters share a key, queues of up to 1 entry when an event comes | `KeysFollowTracker`, `SynthFollowsTrackers`, `KeyboardSpec` |
| `router_split` | key sink and UDP sink, `--midi-transpose -1`, notes at every edge of both windows, fairness | `TypeOK`, `LastNotePriority`, `PlayersDisjoint`, `KeysReleasedAtExit` |
| `router_low` | `--base-key 0 --synth-transpose -12` | **violation** of `SplitMonophony` |
| `main_thread` | three keys (two of the local player and the shared C5), 3 messages, a ring of 2, counters modulo 4, 6 posts, fairness | `TypeOK`, `RefinesRouter`, `QuietOnceReleased` |
| `ring` | 2 words, 2 slots, counters modulo 4, 6 posts: laps and wraps both occur; fairness | `RingTypeOK`, `NothingLostUntilLapped`, `RendersWhatWasPublished`, `FifoUntilLapped`, `EveryPostIsHeard` |
| `pulse` | blocks of 6 frames, requests of up to 10, a server that may refuse or die, fairness | `TypeOK`, `MixesOnlyALiveSynth`, `ReturnsOnlyWhenAnswered`, `NeverJoinsWithLock`, `FillsTheRequest`, `InitReturns`, `QuitExits` |
| `pulse_refused` | the same | **violation** of `StartReportsRefusal` |
| `wasapi` | a buffer of 7 frames, blocks of 5, fairness | `TypeOK`, `MixesOnlyAStartedSynth`, `BufferNeverOverrun`, `ReleasesWhatItRendered`, `StopEnds` |
| `mirror` | sender's window from C7 with `--midi-transpose 12`, receiver's from C2 with `--midi-transpose -60`; notes at the window's edges and at the last number that fits in seven bits; 3 datagrams in flight | `TypeOK`, `MirrorsWhenReceived`, `PressResynchronizes` |
| `midi_queue` | 2 keys, 5 messages, fairness | `TypeOK`, `EventsTellKeysHeld`, `FifoSpec`, `EveryEventIsTaken` |
| `alsa` | 1 key, a pool of 2, 5 events, fairness | `AlsaTypeOK`, `NoHoleInTheNotes`, `NotesTakenOrLoopEnds` |
| `startup` | every command line of up to 4 of 10 words, both platforms, every call of every `init` refused in turn | `TypeOK`, `ReadsTheCommandLine`, `HoldsWhatItUses` |

Why the bounds are enough. A tracker compares an offset with the one it holds
and with the edges of its window, so notes at both sides of every edge, one
inside and one in the overlap show every branch; `MaxQueued` bounds a queue
only when an event comes, an iteration still adds up to four entries; the
proofs of section 5 need neither. The ring's behaviour depends on which of index
and counter wraps first and on whether it is lapped: two slots and a counter of
two rounds show all. Three messages of the keyboard are a press, a press over
it and a late release, and make up to six posts: enough to lap the ring and to
wrap its counters while the loop is in the middle of an iteration. Four
messages, two overlapping keys of which both come up again, are too many states
for `main_thread`, so its `QuietOnceReleased` ends with one key let go; that a
chord leaves nothing behind either is what `KeysFollow`, `SynthFollows` and
`ThreadsRefineRouter` of section 5 say, of any number of messages. A request of
ten frames in blocks of six has a block of a vector and two single frames and
one of a vector alone, and the shorter requests every other remainder; a buffer
of seven in blocks of five is the same for WASAPI (the code's blocks of 256 are
whole vectors except the last). Three datagrams in flight let a release, a press
and a duplicate overtake one another. Four words are two options with values, or
one given twice, which is how options can interact.

### Violations

The two runs that end in a violation state what a comment and a message of the
code say; `PROJECT.json` quotes the lines.

1. `SplitMonophony`: `post_note_off` of a note below 0 is read as a note-on,
   and the voice never ends: releases alone start voices, and on channel 1,
   whichever player posted them.
2. `StartReportsRefusal`: `start()` tests `success < 0`, the server answers 0
   or 1; its message cannot be printed.

Six more facts shape properties without a run that asserts the contrary:

- `stop()` hangs when the PulseAudio server has died, since a dropped cork never
  calls back: `QuitExits` has to except it.
- After 2^32 posts the audio thread stalls, because `read_count < target`
  compares wrapped counters: `RendersWhatWasPublished` and `EveryPostIsHeard`
  speak of fewer posts than counter values.
- The wire carries seven bits of note, and the audio words eight: a note of 128
  or more of the remote window arrives as another, or as a press that was a
  release. `disturbed` and `WireNotes` except it in `UdpMirror`.
- The help says that `--midi-source` names a MIDI device and `--udp-source` a
  port (lines 117-118), but nothing resets `args.udp_source`: a `--midi-source`
  after a `--udp-source` is opened as a UDP port. `HoldsWhatItUses` excepts the
  source then (`UdpThenMidi`).
- On Windows the references of `WSAStartup` and `CoInitialize` are never given
  back: `HoldsWhatItUses` lets them remain when `main()` has returned.
- When the loop ends nothing is sent to the partner, whose key stays down until
  the next press; a refused key request is not noticed by the trackers.

### Fairness

- `NoteRouter`: weak fairness of the exit path (straight-line code) and of the
  window system replaying requests. None of the source, the network or the audio
  thread.
- `SynthRing`: a post that has begun completes; the backend keeps asking for
  frames.
- `PulseBackend`: strong fairness for the steps that need the lock, which the
  mainloop thread drops to poll after every callback, so neither thread is shut
  out for ever; a server that lives answers. A server that dies, or refuses, is
  under no obligation.
- `WasapiBackend`: both threads run; nothing of the device, which may fall
  silent.
- `MidiQueue`, `AlsaSource`: `main()` gets through its startup or returns, and
  comes back for the next event; nothing of the keyboard or of spurious wakeups.
- `MainThread`: the main thread runs, the backend keeps asking for frames, the
  window system keeps replaying; nothing of the player or of the network, and
  the loop may break at any event.

## 4. Properties, by what they are about

- *One key at a time.* `KeyboardSpec` is a refinement: with `keysDown` as the
  abstract keyboard, every step of the router is a press of a keyboard with no
  key down, a release of its one key, or a stutter. `KeysFollowTracker` and
  `KeysReleasedAtExit` say which key.
- *Last-note priority.* `LastNotePriority` relates the trackers to the history
  of the keyboard, which the code does not keep.
- *Two windows.* `PlayersDisjoint`.
- *What is heard.* `SynthFollowsTrackers` across `handle_note`, the encoding of
  the words and the audio thread; `NothingLostUntilLapped`,
  `RendersWhatWasPublished`, `FifoUntilLapped`, `EveryPostIsHeard` across the
  ring.
- *End to end.* `RefinesRouter`: the threads, with their steps interleaved,
  implement the router whose iteration is one step. `QuietOnceReleased`: when
  the player lets go, the game and the synthesizer fall quiet, through the
  source's queue, the trackers, the ring and the window system.
- *Threads.* `MixesOnlyALiveSynth`, `MixesOnlyAStartedSynth`: no callback before
  `on_backend_start` or after `~Synth`. `ReturnsOnlyWhenAnswered`,
  `NeverJoinsWithLock`, `InitReturns`, `QuitExits`, `StopEnds`: the waits and
  joins. `BufferNeverOverrun`, `ReleasesWhatItRendered`, `FillsTheRequest`: the
  frames.
- *Sources and mirror.* `FifoSpec`, `EveryEventIsTaken`, `EventsTellKeysHeld`,
  `NoHoleInTheNotes`, `NotesTakenOrLoopEnds`, `MirrorsWhenReceived`,
  `PressResynchronizes`.
- *Startup.* `ReadsTheCommandLine` compares the parser, which goes through the
  words once, with a meaning given to the command line as a whole.
  `HoldsWhatItUses`: the loop is entered with the devices asked for and hold of
  what they use, no more; wherever an `init` failed, `main()` returns with no
  device open and nothing kept, but the references that remain on Windows.

## 5. What is proved

Each theorem holds for every value of the constants that satisfies the named
assumptions of its module (which TLC evaluates in the module's runs). A
theorem about an invariant follows the same three steps, `Init => IInv`,
`IInv /\ [Next]_vars => IInv'` and `IInv => Inv`, with one lemma per action.

**OperatorProofs** states once what the others need of the operators:
`handle_note` case by case, the ranges of words, datagrams and windows, the
sequences of at most one element that an iteration appends, and the theorem
`BlockExtendsOutput`, for every block length and offset: a block that
`interleave_stereo_f32` stores after the first `frames` frames of an interleaved
output makes the output of `frames + count`, whole vectors and single frames
alike.

**NoteRouterProofs**, for
every set of notes, transposition, window, key map, sink configuration and
queue bound. The key map need not be injective.

1. `TypeCorrect`: `Spec => []TypeOK`. The lemma it needs most is `RangeBound`:
   the clamp keeps every window within the 37 keys, so offsets index the code
   table.
2. `KeysFollow`: `Spec => []KeysFollowTracker`, and
3. `OneKeyAtATime`: `Spec => KeyboardSpec`. Neither is inductive: both speak of
   states in which requests are still queued. The strengthening is `KeyPipe`:
   each queued request is legal for the keyboard its predecessors leave
   (`Legal`), and the last one leaves `KeysWanted`. `PipeAppend` and `PipeTail`
   show that a pipe can be extended by a request that is legal at its end and
   shortened by replaying its head, of any length; each action is then a few
   applications of them. The refinement follows because the head of a legal pipe
   is a step of the keyboard.
4. `LastNoteWins`: `Spec => []LastNotePriority`, inductive together with
   `LastHandled` (the last note a player was given is one it handles).
5. `SplitKeyboard`: `Spec => []PlayersDisjoint`, from the same invariant: two
   players never handle the same note.
6. `SynthFollows`: `Spec => []SynthFollowsTrackers`, assuming `SynthNotesFit`:
   the transposed notes of both windows are in 0..255. (Without it the property
   is false, as `router_low` shows.) The strengthening is `SynthPipe`: of the
   queued words that name a key the last one counts, and it leaves the key on
   exactly if the player holds it. `OnAppend` and `OnTail` say what a post and
   the audio thread do to that, `PlayerWords` what a player's posts of one event
   add up to.

**MainThreadProofs** is first about `SynthRing`, for every ring size that divides
the counters' modulus and is smaller: `RingTypeCorrect`, `NothingLost`,
`RendersPublished`, and `RingIsFifo`, the refinement of `NoteFifo`. The
invariant ties the code's counters to the histories modulo their width
(`Counting`, `Wrapped`) and says that, until the ring is lapped, every unread
word is still in its slot (`Contents`); that two unread words have different
slots is modular arithmetic over a window of `RingSize` words.

Then it is about the threads, for all windows, transpositions, key maps and
rings:

1. `TypeCorrect`, from `MainInv`: the types, the ring's invariant (the same
   lemmas, since the ring's steps are `MainThread`'s), `Stages` (nothing of an
   event is left to post or to dispatch when the loop takes the next) and
   `Bounds` (an event has posted at most four words, dispatched two requests and
   sent one datagram). `Bounds` is what makes room for the next event in
   `NoteRouter`'s bounded queues: without it a step of the threads could be one
   the router's bound forbids.
2. `ThreadsRefineRouter`: `Spec => RefinesRouter`. Every step is shown to be one
   of the router's or `Hidden`, leaving the mapped state as it is: `Route` is
   `RouteEvent`, since what it leaves to do is mapped to the end of the queues
   at once; taking an event, storing a word (it moves from what is left to the
   ring), publishing it and dispatching a key event are hidden; reading a word
   is `ApplyNote` and the only step that needs the ring not to be lapped, for
   then the word read is the oldest that was posted (`RingInv`). What is proved
   about `NoteRouter` therefore holds of the threads.

**WasapiProofs**, for every buffer and block size: `TypeCorrect`,
`MixesStarted`, `NeverOverrun`, `ReleasesRendered`. `FreeFrames` keeps what was
measured as free true until it is released, because the device only takes
frames away; `ThreadRuns` confines the audio thread to the phases between
`start` and the join; `Rendering` says how far the acquired buffer is filled and
is kept by `BlockExtendsOutput`.

**PulseProofs**, for every block and request size: `TypeCorrect`, `MixesLive`,
`ReturnsAnswered`, `JoinsUnlocked`, `FillsRequests`. `Locking` says who may have
the lock, `Activity` in which phases the callback can see an active stream,
`Acks` that `has_success` is the answer to the pending cork and to no older one,
`Filling` how far the request is filled.

**SourceProofs**, for every set of keys, number of messages and size of the
pool. Of the Windows source: `TypeCorrect`, `EventsTell`, and `SourceIsFifo`,
the refinement of `NoteFifo`. Of ALSA's: `AlsaTypeCorrect` and `NoHole`. That
property is not inductive, since it does not say where the events are that
`main()` has not been given yet; `AlsaInv` does (`Follow`): the buffer and then
the pool continue the events `main()` has seen with none left out, and unless
the pool has overrun there are no others. After an overrun the loop may go on
with the buffer but not beyond it, so what was lost is never passed.

**UdpMirrorProofs**, for all windows that match, all notes and any number of
datagrams in flight: `TypeCorrect`, `Mirrors`, `Resynchronizes`. While nothing
is disturbed there is a path of trackers from the receiver's to the sender's,
one datagram a step (`Catches`): sending lengthens it, receiving shortens it,
and a duplicate, being idempotent, replaces its first tracker.
`SenderFollows` and `ReceiverFollows` say what the last event and the last
datagram left, whatever was disturbed.

**StartupProofs**, for every set of words, every `std::stol` that makes at most
one number of a word, command lines of any length, both platforms, and every
call of every `init`, those of the audio backends included, granted or refused:
`TypeCorrect`, `ReadsCommandLine` and `HoldsUsed`. The invariant has two halves.

- What the parser has read so far. `Reading`: of the words taken, those that the
  grammar calls options (`Done`) are well-formed, and the next word is one;
  `Arguments`: each argument has the value of the last option for it in `Done`,
  or its default. The grammar is a condition on a set of positions
  (`OptionsAt`) that refers to earlier positions. That there is such a set
  (`OptionsExist`), and that the value of an option is not in it
  (`ValueIsNoOption`), would be shown by induction; here it is shown by the
  least position at which it fails (`LeastNumber`, from the well-foundedness of
  `<`). When the parser ends, `Done` is what counts (`DoneIsRead`), whether it
  has met `--help` or the end of the line.
- What the calls granted so far have left. `Resources` says that the program has
  hold of what the completed stages use (`HandlesSoFar`) and of what the calls
  of this one have taken and not given back (`Granted`), and that no destructor
  leaves anything of its own but of `NeverReleased`, of which the program takes
  nothing on Linux (`KeepsNone`). `LeavesOnly` is proved of each `init`: all its
  calls together leave what the device uses, and no call that may be refused is
  made between `getaddrinfo` and `freeaddrinfo`: no destructor knows of the
  addresses found.

Of the properties of the passing runs only the liveness properties are
model-checked and not proved (`KeysReleasedAtExit`, `QuietOnceReleased`,
`EveryPostIsHeard`, `InitReturns`, `QuitExits`, `StopEnds`, `EveryEventIsTaken`,
`NotesTakenOrLoopEnds`): they rest on fairness, and with it on `ENABLED`, which
is beyond this prover. The two violations are counterexamples of TLC.

## 6. Not modelled

- The FM synthesizer (a submodule that is not in the repository): a voice is a
  key that is on or off; its limit of 64 voices per channel is not reached by a
  player who holds one note. `fmsynth_new` does not fail.
- The build files.
- `setup_fm_parameters`, sample formats, latency reports, port listings, help
  texts, and the functions nothing calls (`interleave_stereo_f32_i16`,
  `next_uint`, `next_double`, `parse_cli_filtered`, `translate_key(SpecialKey)`,
  the WASAPI path without a callback).
- The X11 key map: `TranslateKey` is a constant.
- Requests the window system refuses (the results of `SendInput` and of
  `xcb_test_fake_input` are not looked at): every request is replayed.
- Overflow of int additions with arguments near 2^31.
- A process that is killed: no code of the program runs then. `exit()` in
  `get_keycode` leaves what is open to the operating system.

## 7. Order of the work

The modules were written in this order: `Monophony`, `KeySink`, `SynthNotes`,
`UdpWire`, `NoteRouter` with `BardKeyboard` and its proofs; `SynthRing` with
`NoteFifo`; `Interleave` and the backends; the sources and the mirror; `Startup`
with `Devices`; `MainThread`, which puts the pieces together; then the proofs about the ring,
the backends, the Windows source and the mirror; then those about the threads,
the ALSA source and the startup.

What would come next:

1. The safety on which the liveness properties rest, as theorems: that nobody
   waits for what can no longer come (in `PulseBackend`, that a pending cork of
   a living server is one it will still answer; in `MidiQueue`, that nobody
   sleeps on a queue that is not empty).
2. Composition: that `MidiQueue` or `AlsaSource`, refining `NoteFifo`, may stand
   for the queue of `MainThread`; that the bytes on `wire` are those of
   `UdpMirror`.
3. The abstract specification of `Startup`: devices that are opened and closed
   as on a stack.
