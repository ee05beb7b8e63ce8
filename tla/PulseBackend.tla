----------------------------- MODULE PulseBackend -----------------------------
(***************************************************************************)
(* The PulseAudio backend (audio_pulse.cpp) as main() drives it: init,     *)
(* start, stop and the destructor on the main thread, and the callbacks on *)
(* the thread of pa_threaded_mainloop.  The two share the mainloop's lock: *)
(* the loop thread holds it while it dispatches callbacks, the main thread *)
(* takes it around its calls, and pa_threaded_mainloop_wait gives it up    *)
(* until a callback signals.  The server connects, answers and asks for    *)
(* audio in its own time; it may refuse, and it may die.                   *)
(***************************************************************************)
EXTENDS Interleave

CONSTANTS
  MaxNumSamples,  \* MAX_NUM_SAMPLES: frames rendered by one call of mix_samples
  MaxRequest      \* bound: frames the server asks for at once

ASSUME PulseConstants ==
  /\ MaxNumSamples \in Nat \ {0}
  /\ MaxRequest \in Nat

VARIABLES
  mainPc,      \* where the main thread is
  waiting,     \* the main thread sleeps in pa_threaded_mainloop_wait
  lock,        \* who holds the mainloop's lock
  mainloop, context, stream,   \* the objects and the state the server gave them
  pendingCork, \* the pa_stream_cork that the server has not answered
  answered,    \* history: the last one that it has answered
  hasSuccess, success,         \* has_success and success
  isActive,    \* is_active, which is not atomic
  activeSeen,  \* the values of it that the loop thread may read
  startOk,     \* what start returned
  synth,       \* the Synth: "new", "configured" by set_backend_parameters,
               \* "started" by on_backend_start, "stopped", "freed"
  cbPc,        \* the request callback: "idle", "mix" or "silence"
  frames,      \* out_frames
  output       \* the request's buffer up to out_interleaved

objects == <<mainloop, context, stream>>
acks == <<pendingCork, answered, hasSuccess, success>>
active == <<isActive, activeSeen>>
callback == <<cbPc, frames, output>>
vars == <<mainPc, waiting, lock, objects, acks, active, startOk, synth, callback>>

\* What the loop thread may read of is_active after an unlock of the main
\* thread's: the lock orders the accesses.
Unlocked == lock' = "free" /\ activeSeen' = {isActive} /\ UNCHANGED isActive

\* is_active is written outside the lock: until the next unlock the loop
\* thread may read the old value or the new one.
WriteActive(v) == isActive' = v /\ activeSeen' = activeSeen \cup {v}

\* pa_threaded_mainloop_wait, and its return once a callback has signalled.
Wait ==
  /\ waiting' = TRUE
  /\ Unlocked
  /\ UNCHANGED <<mainPc, objects, acks, startOk, synth, callback>>

Awaiting == {"awaitContext", "awaitStream", "awaitUncork", "awaitCork"}

\* The waiting thread has been signalled, and takes the lock again.
Reacquire ==
  /\ mainPc \in Awaiting /\ ~waiting /\ lock = "free"
  /\ lock' = "main"
  /\ UNCHANGED <<mainPc, waiting, objects, acks, active, startOk, synth, callback>>

\* A condition variable may wake its waiter without a signal.
SpuriousWakeup ==
  /\ waiting /\ waiting' = FALSE
  /\ UNCHANGED <<mainPc, lock, objects, acks, active, startOk, synth, callback>>

-----------------------------------------------------------------------------
Init ==
  /\ mainPc = "create" /\ waiting = FALSE /\ lock = "free"
  /\ mainloop = "none" /\ context = "none" /\ stream = "none"
  /\ pendingCork = "none" /\ answered = "none"
  /\ hasSuccess = FALSE /\ success = -1
  /\ isActive = FALSE /\ activeSeen = {FALSE} /\ startOk = FALSE
  /\ synth = "new"
  /\ cbPc = "idle" /\ frames = 0 /\ output = <<>>

\* The objects of init up to pa_context_connect; each may fail.
CreateContext ==
  /\ mainPc = "create"
  /\ \/ mainPc' = "lock" /\ mainloop' = "new" /\ context' = "connecting"
     \/ /\ mainPc' = "destroy"
        /\ \/ mainloop' = "none" /\ context' = "none"
           \/ mainloop' = "new" /\ context' \in {"none", "failed"}
  /\ UNCHANGED <<waiting, lock, stream, acks, active, startOk, synth, callback>>

\* pa_threaded_mainloop_start, with the lock held: its failure returns with
\* the lock still held (no thread runs that could want it).
StartMainloop ==
  /\ mainPc = "lock" /\ lock = "free"
  /\ lock' = "main"
  /\ \/ mainloop' = "running" /\ mainPc' = "awaitContext"
     \/ mainloop' = "new" /\ mainPc' = "destroy"
  /\ UNCHANGED <<waiting, context, stream, acks, active, startOk, synth, callback>>

\* A plausible bug: the early return of a refused connection keeps the lock.
RefusedKeepsLock ==
  /\ mainPc = "awaitContext" /\ lock = "main"
  /\ \/ context = "connecting" /\ Wait
     \/ /\ context = "failed"
        /\ mainPc' = "destroy"
        /\ UNCHANGED <<waiting, lock, objects, acks, active, startOk, synth, callback>>
     \/ /\ context = "ready"
        /\ stream' = "creating" /\ mainPc' = "awaitStream"
        /\ UNCHANGED <<waiting, lock, mainloop, context, acks, active, startOk, synth, callback>>

\* The first waiting loop of init, then the stream is created and connected;
\* either may fail.
AwaitContext ==
  /\ mainPc = "awaitContext" /\ lock = "main"
  /\ \/ context = "connecting" /\ Wait
     \/ /\ context = "failed"
        /\ mainPc' = "destroy" /\ Unlocked
        /\ UNCHANGED <<waiting, objects, acks, startOk, synth, callback>>
     \/ /\ context = "ready"
        /\ \/ stream' = "creating" /\ mainPc' = "awaitStream" /\ UNCHANGED <<lock, active>>
           \/ stream' \in {"none", "failed"} /\ mainPc' = "destroy" /\ Unlocked
        /\ UNCHANGED <<waiting, mainloop, context, acks, startOk, synth, callback>>

\* A plausible bug: the loop waits for the ready state alone.
AwaitReadyOnly ==
  /\ mainPc = "awaitStream" /\ lock = "main"
  /\ \/ stream # "ready" /\ Wait
     \/ /\ stream = "ready"
        /\ synth' = "configured"
        /\ mainPc' = "start" /\ Unlocked
        /\ UNCHANGED <<waiting, objects, acks, startOk, callback>>

\* The second waiting loop of init, set_backend_parameters and the return.
AwaitStream ==
  /\ mainPc = "awaitStream" /\ lock = "main"
  /\ \/ stream = "creating" /\ Wait
     \/ /\ stream = "failed"
        /\ mainPc' = "destroy" /\ Unlocked
        /\ UNCHANGED <<waiting, objects, acks, startOk, synth, callback>>
     \/ /\ stream = "ready"
        /\ synth' = "configured"
        /\ mainPc' = "start" /\ Unlocked
        /\ UNCHANGED <<waiting, objects, acks, startOk, callback>>

\* start() and stop() reset has_success before they take the lock.
ResetAck(from, to) ==
  /\ mainPc = from
  /\ hasSuccess' = FALSE
  /\ mainPc' = to
  /\ UNCHANGED <<waiting, lock, objects, pendingCork, answered, success, active, startOk,
                 synth, callback>>

\* pa_stream_cork: refused, without a callback, by a stream that has failed.
Cork(op) == pendingCork' = IF stream = "ready" THEN op ELSE "none"

\* A plausible bug: the stream is active before the synthesizer is set up.
StartActivates ==
  /\ mainPc = "startLock" /\ lock = "free"
  /\ lock' = "main"
  /\ WriteActive(TRUE)
  /\ Cork("uncork")
  /\ mainPc' = "awaitUncork"
  /\ UNCHANGED <<waiting, objects, answered, hasSuccess, success, startOk, synth, callback>>

StartLocked ==
  /\ mainPc = "startLock" /\ lock = "free"
  /\ lock' = "main"
  /\ synth' = "started"
  /\ Cork("uncork")
  /\ mainPc' = "awaitUncork"
  /\ UNCHANGED <<waiting, objects, answered, hasSuccess, success, active, startOk, callback>>

\* A plausible bug: if in place of while around the wait.
AwaitUncorkOnce ==
  /\ mainPc = "awaitUncork" /\ lock = "main"
  /\ \/ ~hasSuccess /\ Wait
     \/ /\ mainPc' = "activate" /\ Unlocked
        /\ UNCHANGED <<waiting, objects, acks, startOk, synth, callback>>

AwaitUncork ==
  /\ mainPc = "awaitUncork" /\ lock = "main"
  /\ \/ ~hasSuccess /\ Wait
     \/ /\ hasSuccess
        /\ mainPc' = "activate" /\ Unlocked
        /\ UNCHANGED <<waiting, objects, acks, startOk, synth, callback>>

\* The rest of start(), outside the lock.
Activate ==
  /\ mainPc = "activate"
  /\ WriteActive(TRUE)
  /\ hasSuccess' = FALSE
  /\ startOk' = (success >= 0)
  /\ mainPc' = "loop"
  /\ UNCHANGED <<waiting, lock, objects, pendingCork, answered, success, synth, callback>>

\* main()'s loop ends and it calls stop().
QuitLoop ==
  /\ mainPc = "loop"
  /\ mainPc' = "stop"
  /\ UNCHANGED <<waiting, lock, objects, acks, active, startOk, synth, callback>>

StopLocked ==
  /\ mainPc = "stopLock" /\ lock = "free"
  /\ lock' = "main"
  /\ Cork("cork")
  /\ mainPc' = "awaitCork"
  /\ UNCHANGED <<waiting, objects, answered, hasSuccess, success, active, startOk, synth,
                 callback>>

AwaitCork ==
  /\ mainPc = "awaitCork" /\ lock = "main"
  /\ \/ ~hasSuccess /\ Wait
     \/ /\ hasSuccess
        /\ synth' = "stopped"
        /\ mainPc' = "deactivate" /\ Unlocked
        /\ UNCHANGED <<waiting, objects, acks, startOk, callback>>

\* The rest of stop(), outside the lock.
Deactivate ==
  /\ mainPc = "deactivate"
  /\ WriteActive(FALSE)
  /\ hasSuccess' = FALSE
  /\ mainPc' = "destroy"
  /\ UNCHANGED <<waiting, lock, objects, pendingCork, answered, success, startOk, synth,
                 callback>>

-----------------------------------------------------------------------------
\* ~Pulse: stop() if active, then pa_threaded_mainloop_stop, which joins the
\* loop thread; that thread leaves between two callbacks, with the lock free.
Destroy ==
  /\ mainPc = "destroy"
  /\ mainPc' = IF isActive THEN "stop" ELSE "join"
  /\ UNCHANGED <<waiting, lock, objects, acks, active, startOk, synth, callback>>

Join ==
  /\ mainPc = "join"
  /\ mainloop = "running" => lock = "free" /\ cbPc = "idle"
  /\ mainloop' = IF mainloop = "running" THEN "stopped" ELSE mainloop
  /\ mainPc' = "free"
  /\ UNCHANGED <<waiting, lock, context, stream, acks, active, startOk, synth, callback>>

\* The objects are released, and after ~Pulse comes ~Synth.
Free ==
  /\ mainPc = "free"
  /\ mainloop' = IF mainloop = "none" THEN "none" ELSE "freed"
  /\ stream' = "none" /\ context' = "none" /\ pendingCork' = "none"
  /\ mainPc' = "freeSynth"
  /\ UNCHANGED <<waiting, lock, answered, hasSuccess, success, active, startOk, synth, callback>>

FreeSynth ==
  /\ mainPc = "freeSynth"
  /\ synth' = "freed"
  /\ mainPc' = "exited"
  /\ UNCHANGED <<waiting, lock, objects, acks, active, startOk, callback>>

MainStep ==
  \/ CreateContext \/ StartMainloop \/ AwaitContext \/ AwaitStream
  \/ ResetAck("start", "startLock") \/ StartLocked \/ AwaitUncork \/ Activate
  \/ ResetAck("stop", "stopLock") \/ StopLocked \/ AwaitCork \/ Deactivate
  \/ Destroy \/ Join \/ Free \/ FreeSynth

-----------------------------------------------------------------------------
\* The loop thread dispatches a callback: it has the lock to itself.
Dispatching == mainloop = "running" /\ lock = "free" /\ cbPc = "idle"

\* context_state_cb: connected, or refused.
ContextAnswers ==
  /\ Dispatching
  /\ context = "connecting" /\ context' \in {"ready", "failed"}
  /\ waiting' = FALSE
  /\ UNCHANGED <<mainPc, lock, mainloop, stream, acks, active, startOk, synth, callback>>

\* stream_state_cb: created, or refused.
StreamAnswers ==
  /\ Dispatching
  /\ stream = "creating" /\ stream' \in {"ready", "failed"}
  /\ waiting' = FALSE
  /\ UNCHANGED <<mainPc, lock, mainloop, context, acks, active, startOk, synth, callback>>

\* A plausible bug: the callback does not signal.
AnswerWithoutSignal ==
  /\ Dispatching
  /\ pendingCork # "none"
  /\ answered' = pendingCork /\ pendingCork' = "none"
  /\ success' \in {0, 1} /\ hasSuccess' = TRUE
  /\ UNCHANGED <<mainPc, waiting, lock, objects, active, startOk, synth, callback>>

\* stream_success_cb: the server has obeyed (1) or refused (0) a cork.
CorkAnswers ==
  /\ Dispatching
  /\ pendingCork # "none"
  /\ answered' = pendingCork /\ pendingCork' = "none"
  /\ success' \in {0, 1} /\ hasSuccess' = TRUE
  /\ waiting' = FALSE
  /\ UNCHANGED <<mainPc, lock, objects, active, startOk, synth, callback>>

\* The connection is lost: the state callbacks signal, a cork that is pending
\* is dropped without its callback.
ServerDies ==
  /\ Dispatching
  /\ context = "ready" /\ context' = "failed"
  /\ stream' = IF stream = "none" THEN "none" ELSE "failed"
  /\ pendingCork' = "none"
  /\ waiting' = FALSE
  /\ UNCHANGED <<mainPc, lock, mainloop, answered, hasSuccess, success, active, startOk,
                 synth, callback>>

\* stream_request_cb, up to its read of is_active (it may also return at once,
\* when pa_stream_begin_write fails: nothing changes).
RequestBegins ==
  /\ Dispatching
  /\ stream = "ready"
  /\ lock' = "loop"
  /\ \E n \in 1 .. MaxRequest, a \in activeSeen :
       /\ frames' = n
       /\ IF a THEN cbPc' = "mix" /\ output' = <<>>
               ELSE cbPc' = "silence" /\ output' = Silent(n)
  /\ UNCHANGED <<mainPc, waiting, objects, acks, active, startOk, synth>>

\* Frames of the request that are in the output.
Filled == Len(output) \div 2

\* A plausible bug: the last block is rendered whole, whatever is left of it.
MixWholeBlocks ==
  /\ cbPc = "mix" /\ Filled < frames
  /\ output' = output \o InterleaveStereo(MaxNumSamples, Filled)
  /\ UNCHANGED <<mainPc, waiting, lock, objects, acks, active, startOk, synth, cbPc, frames>>

\* One iteration of its loop: a block of at most MAX_NUM_SAMPLES is rendered
\* and stored at the end of the output.
MixBlock ==
  /\ cbPc = "mix" /\ Filled < frames
  /\ output' = output \o InterleaveStereo(LeastOf(frames - Filled, MaxNumSamples), Filled)
  /\ UNCHANGED <<mainPc, waiting, lock, objects, acks, active, startOk, synth, cbPc, frames>>

\* pa_stream_write, and the thread goes back to polling.
RequestEnds ==
  /\ cbPc = "silence" \/ (cbPc = "mix" /\ Filled >= frames)
  /\ cbPc' = "idle" /\ lock' = "free" /\ frames' = 0 /\ output' = <<>>
  /\ UNCHANGED <<mainPc, waiting, objects, acks, active, startOk, synth>>

LoopThread ==
  \/ ContextAnswers \/ StreamAnswers \/ CorkAnswers \/ ServerDies
  \/ RequestBegins \/ MixBlock \/ RequestEnds

Exited == mainPc = "exited" /\ UNCHANGED vars

Next == MainStep \/ Reacquire \/ SpuriousWakeup \/ QuitLoop \/ LoopThread \/ Exited

Spec == Init /\ [][Next]_vars

\* Both threads run.  The loop thread drops the lock to poll after every
\* callback, so that neither thread is kept from the lock for ever, and a
\* server that lives answers in the end.
Fairness ==
  /\ SF_vars(MainStep) /\ SF_vars(Reacquire)
  /\ SF_vars(ContextAnswers) /\ SF_vars(StreamAnswers) /\ SF_vars(CorkAnswers)
  /\ WF_vars(MixBlock) /\ WF_vars(RequestEnds)

FairSpec == Spec /\ Fairness

-----------------------------------------------------------------------------
\* The types of the callback's buffer, and those of the rest.
FrameTypes ==
  /\ frames \in 0 .. MaxRequest
  /\ output \in Seq(Samples) /\ Len(output) <= 2 * frames

ControlTypes ==
  /\ mainPc \in Awaiting \cup {"create", "lock", "start", "startLock", "activate", "loop",
                               "stop", "stopLock", "deactivate", "destroy", "join", "free",
                               "freeSynth", "exited"}
  /\ waiting \in BOOLEAN
  /\ lock \in {"free", "main", "loop"}
  /\ mainloop \in {"none", "new", "running", "stopped", "freed"}
  /\ context \in {"none", "connecting", "ready", "failed"}
  /\ stream \in {"none", "creating", "ready", "failed"}
  /\ pendingCork \in {"none", "cork", "uncork"} /\ answered \in {"none", "cork", "uncork"}
  /\ hasSuccess \in BOOLEAN /\ success \in {-1, 0, 1}
  /\ isActive \in BOOLEAN /\ activeSeen \in SUBSET BOOLEAN
  /\ startOk \in BOOLEAN
  /\ synth \in {"new", "configured", "started", "stopped", "freed"}
  /\ cbPc \in {"idle", "mix", "silence"}

\* Types of the state.
TypeOK == ControlTypes /\ FrameTypes

\* mix_samples runs only on a synthesizer that on_backend_start has set up and
\* that ~Synth has not freed, and only before the mainloop is gone
\* (audio_pulse.cpp:118, with start, stop and ~Pulse).
MixesOnlyALiveSynth ==
  cbPc = "mix" => synth \in {"started", "stopped"} /\ mainloop = "running"

\* start and stop return only once the server has answered their own request,
\* whatever else woke the main thread (the loops of lines 273 and 293).
ReturnsOnlyWhenAnswered ==
  /\ mainPc \in {"activate", "loop", "stop"} => answered = "uncork"
  /\ mainPc = "deactivate" => answered = "cork"

\* The loop thread is never joined by a thread that holds the lock it needs:
\* every early return of init has unlocked, or has no thread to join.
NeverJoinsWithLock == mainPc \in {"destroy", "join"} /\ mainloop = "running" => lock # "main"

\* A request is handed back filled exactly, to its end and not past it, with
\* the left and right of every frame in turn or with silence, whatever its
\* length and wherever its blocks end (audio_pulse.cpp:115-137 with
\* dsp.hpp:42-66).
FillsTheRequest ==
  [][cbPc # "idle" /\ cbPc' = "idle" => output \in {Interleaved(frames), Silent(frames)}]_vars

\* init returns, even when the server refuses or dies (the loops of lines 196
\* and 241 leave in a failed state too).
InitReturns == mainPc = "create" ~> mainPc \in {"start", "destroy"}

\* When the loop of main() ends, the program exits; only a server that has died
\* may keep stop() waiting for ever (audio_pulse.cpp:284-305, with ~Pulse).
QuitExits == mainPc = "stop" ~> (mainPc = "exited" \/ context = "failed")

\* "Pulse::start() failed." (audio_pulse.cpp:280): start says so when the
\* server has refused to start the stream.
StartReportsRefusal == mainPc = "loop" /\ success = 0 => ~startOk
=============================================================================
