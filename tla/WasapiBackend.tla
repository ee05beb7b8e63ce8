---------------------------- MODULE WasapiBackend ----------------------------
(***************************************************************************)
(* The WASAPI backend (audio_wasapi.cpp): start and stop on the main       *)
(* thread, thread_runner on the audio thread, and the device, which plays  *)
(* frames and sets the audio event, an auto-reset event that the audio     *)
(* thread waits on when the buffer is full.  stop asks the thread to end   *)
(* (dead), wakes it through the same event, and joins it.  Any call of the *)
(* device may fail, upon which the audio thread ends by itself.            *)
(***************************************************************************)
EXTENDS Interleave

CONSTANTS
  BufferFrames,   \* buffer_frames
  MaxNumFrames    \* MAX_NUM_FRAMES: frames rendered by one call of mix_samples

ASSUME WasapiConstants ==
  /\ BufferFrames \in Nat \ {0}
  /\ MaxNumFrames \in Nat \ {0}

VARIABLES
  mainPc,    \* where the main thread is
  isActive,  \* is_active
  dead,      \* dead
  event,     \* whether the audio event is set
  synth,     \* the Synth: "new", "configured", "started", "stopped", "freed"
  audioPc,   \* where the audio thread is ("none": there is none)
  avail,     \* write_avail: frames of the acquired buffer still to be rendered
  toRelease, \* to_release: frames of the acquired buffer
  output,    \* what has been stored into it
  padding,   \* frames in the device's buffer, not played yet
  playing    \* the device is playing

mainVars == <<mainPc, isActive>>
buffer == <<avail, toRelease, output>>
device == <<padding, playing>>
vars == <<mainVars, dead, event, synth, audioPc, buffer, device>>

-----------------------------------------------------------------------------
Init ==
  /\ mainPc = "init" /\ isActive = FALSE
  /\ dead = FALSE /\ event = FALSE
  /\ synth = "new"
  /\ audioPc = "none" /\ avail = 0 /\ toRelease = 0 /\ output = <<>>
  /\ padding = 0 /\ playing = FALSE

\* init: the synthesizer gets its parameters, or a call fails and main()
\* returns, which runs the destructors.
InitDevice ==
  /\ mainPc = "init"
  /\ \/ synth' = "configured" /\ mainPc' = "start"
     \/ synth' = "new" /\ mainPc' = "destroy"
  /\ UNCHANGED <<isActive, dead, event, audioPc, buffer, device>>

\* A plausible bug: the thread runs before the synthesizer is set up.
StartThreadFirst ==
  /\ mainPc = "start"
  /\ isActive' = TRUE /\ dead' = FALSE
  /\ audioPc' = "kick"
  /\ mainPc' = "loop"
  /\ UNCHANGED <<event, synth, buffer, device>>

\* start: on_backend_start, and the thread.
Start ==
  /\ mainPc = "start"
  /\ isActive' = TRUE /\ dead' = FALSE
  /\ synth' = "started"
  /\ audioPc' = "kick"
  /\ mainPc' = "loop"
  /\ UNCHANGED <<event, buffer, device>>

\* main()'s loop ends and it calls stop.
QuitLoop ==
  /\ mainPc = "loop" /\ mainPc' = "stop"
  /\ UNCHANGED <<isActive, dead, event, synth, audioPc, buffer, device>>

\* A plausible bug: stop wakes the thread before it tells it why.
WakeThenKill ==
  \/ /\ mainPc = "stop" /\ isActive
     /\ isActive' = FALSE /\ event' = TRUE /\ mainPc' = "wake"
     /\ UNCHANGED <<dead, synth, audioPc, buffer, device>>
  \/ /\ mainPc = "wake"
     /\ dead' = TRUE /\ mainPc' = "join"
     /\ UNCHANGED <<isActive, event, synth, audioPc, buffer, device>>

\* stop, up to the store of dead.
Kill ==
  /\ mainPc = "stop" /\ isActive
  /\ isActive' = FALSE
  /\ dead' = TRUE
  /\ mainPc' = "wake"
  /\ UNCHANGED <<event, synth, audioPc, buffer, device>>

\* SetEvent(audio_event).
Wake ==
  /\ mainPc = "wake"
  /\ event' = TRUE
  /\ mainPc' = "join"
  /\ UNCHANGED <<isActive, dead, synth, audioPc, buffer, device>>

\* thr.join() and on_backend_stop.
Join ==
  /\ mainPc = "join" /\ audioPc = "ended"
  /\ audioPc' = "none"
  /\ synth' = "stopped"
  /\ mainPc' = "destroy"
  /\ UNCHANGED <<isActive, dead, event, buffer, device>>

\* ~WASAPI: its stop() finds the backend inactive; then ~Synth.
Destroy ==
  /\ mainPc = "destroy" /\ ~isActive
  /\ synth' = "freed"
  /\ mainPc' = "exited"
  /\ UNCHANGED <<isActive, dead, event, audioPc, buffer, device>>

MainStep == InitDevice \/ Start \/ Kill \/ Wake \/ Join \/ Destroy

-----------------------------------------------------------------------------
\* The audio thread leaves thread_runner: the client is stopped, its buffer
\* reset, unless kick_start has failed or a call fails now.
Leaves ==
  /\ audioPc' = "ended"
  /\ \/ playing' = FALSE /\ padding' \in {0, padding}
     \/ UNCHANGED device
  /\ UNCHANGED <<mainVars, dead, event, synth, buffer>>

\* kick_start: the buffer is filled with silence and the device starts.
KickStart ==
  /\ audioPc = "kick"
  /\ padding' = BufferFrames /\ playing' = TRUE
  /\ audioPc' = "loop"
  /\ UNCHANGED <<mainVars, dead, event, synth, buffer>>

KickStartFails ==
  /\ audioPc = "kick"
  /\ audioPc' = "ended"
  /\ padding' \in {0, BufferFrames}
  /\ UNCHANGED <<mainVars, dead, event, synth, buffer, playing>>

\* The head of the outer loop.
LoopDead == audioPc = "loop" /\ dead /\ Leaves

LoopLives ==
  /\ audioPc = "loop" /\ ~dead
  /\ audioPc' = "query"
  /\ UNCHANGED <<mainVars, dead, event, synth, buffer, device>>

\* get_write_avail, from the top or after a wait.
QueryAvail ==
  /\ audioPc = "query"
  /\ avail' = BufferFrames - padding
  /\ audioPc' = "avail"
  /\ UNCHANGED <<mainVars, dead, event, synth, toRelease, output, device>>

\* Its loop: wait while nothing is available and the thread is not dead.
MustWait ==
  /\ audioPc = "avail" /\ avail = 0 /\ ~dead
  /\ audioPc' = "wait"
  /\ UNCHANGED <<mainVars, dead, event, synth, buffer, device>>

DiesWaiting == audioPc = "avail" /\ avail = 0 /\ dead /\ Leaves

\* WaitForSingleObject: an auto-reset event.
EventWakes ==
  /\ audioPc = "wait" /\ event
  /\ event' = FALSE
  /\ audioPc' = "query"
  /\ UNCHANGED <<mainVars, dead, synth, buffer, device>>

\* A plausible bug: the whole buffer is acquired, played or not.
GetWholeBuffer ==
  /\ audioPc = "avail" /\ avail # 0
  /\ avail' = BufferFrames /\ toRelease' = BufferFrames /\ output' = <<>>
  /\ audioPc' = "mix"
  /\ UNCHANGED <<mainVars, dead, event, synth, device>>

\* GetBuffer of what is available.
GetBuffer ==
  /\ audioPc = "avail" /\ avail # 0
  /\ toRelease' = avail /\ output' = <<>>
  /\ audioPc' = "mix"
  /\ UNCHANGED <<mainVars, dead, event, synth, avail, device>>

\* A plausible bug: a block of fixed size, whatever is left of the buffer.
MixUnclamped ==
  /\ audioPc = "mix" /\ avail # 0
  /\ avail' = avail - MaxNumFrames
  /\ output' = output \o InterleaveStereo(MaxNumFrames, toRelease - avail)
  /\ UNCHANGED <<mainVars, dead, event, synth, audioPc, toRelease, device>>

\* One block of at most MAX_NUM_FRAMES is rendered and stored at the end of
\* the output.
MixBlock ==
  /\ audioPc = "mix" /\ avail # 0
  /\ LET toWrite == LeastOf(avail, MaxNumFrames)
     IN  /\ avail' = avail - toWrite
         /\ output' = output \o InterleaveStereo(toWrite, toRelease - avail)
  /\ UNCHANGED <<mainVars, dead, event, synth, audioPc, toRelease, device>>

\* ReleaseBuffer.
ReleaseBuffer ==
  /\ audioPc = "mix" /\ avail = 0
  /\ padding' = padding + toRelease
  /\ audioPc' = "loop"
  /\ UNCHANGED <<mainVars, dead, event, synth, buffer, playing>>

\* GetCurrentPadding, the wait, GetBuffer or ReleaseBuffer fails.
CallFails ==
  /\ \/ audioPc \in {"query", "wait"}
     \/ audioPc = "avail" /\ avail # 0
     \/ audioPc = "mix" /\ avail = 0
  /\ Leaves

AudioStep ==
  \/ KickStart \/ LoopDead \/ LoopLives \/ QueryAvail \/ MustWait \/ DiesWaiting
  \/ EventWakes \/ GetBuffer \/ MixBlock \/ ReleaseBuffer

\* The device plays some frames and sets the event.
DevicePlays ==
  /\ playing /\ padding > 0
  /\ padding' \in 0 .. padding - 1
  /\ event' = TRUE
  /\ UNCHANGED <<mainVars, dead, synth, audioPc, buffer, playing>>

Exited == mainPc = "exited" /\ UNCHANGED vars

Next == MainStep \/ QuitLoop \/ AudioStep \/ KickStartFails \/ CallFails \/ DevicePlays \/ Exited

Spec == Init /\ [][Next]_vars

\* Both threads run.  Nothing is assumed of the device: it may stop playing
\* without telling.
Fairness == WF_vars(MainStep) /\ WF_vars(AudioStep)

FairSpec == Spec /\ Fairness

-----------------------------------------------------------------------------
\* Types of the state.
TypeOK ==
  /\ mainPc \in {"init", "start", "loop", "stop", "wake", "join", "destroy", "exited"}
  /\ isActive \in BOOLEAN /\ dead \in BOOLEAN /\ event \in BOOLEAN
  /\ synth \in {"new", "configured", "started", "stopped", "freed"}
  /\ audioPc \in {"none", "kick", "loop", "query", "avail", "wait", "mix", "ended"}
  /\ avail \in 0 .. BufferFrames /\ toRelease \in 0 .. BufferFrames
  /\ output \in Seq(Samples) /\ Len(output) <= 2 * toRelease
  /\ padding \in Nat /\ playing \in BOOLEAN

\* mix_samples runs only on a synthesizer that is set up and not yet told to
\* stop, let alone freed (audio_wasapi.cpp:133-134, 152-160).
MixesOnlyAStartedSynth == audioPc = "mix" => synth = "started"

\* The device's buffer is never overrun, though it was measured some steps
\* before the frames are released into it (lines 234-255).
BufferNeverOverrun ==
  /\ padding <= BufferFrames
  /\ audioPc = "mix" => padding + toRelease <= BufferFrames

\* What is released was rendered, all of it and not more, left and right of
\* every frame in turn (lines 241-253 with dsp.hpp:42-66).
ReleasesWhatItRendered ==
  [][audioPc = "mix" /\ audioPc' = "loop" => output = Interleaved(toRelease)]_vars

\* stop always ends the audio thread, wherever it is, even when the device
\* has fallen silent: the event that wakes it is never lost (lines 154-156
\* against 194-196).
StopEnds == mainPc = "stop" ~> mainPc = "exited"
=============================================================================
